------------------------------ MODULE Curation ------------------------------
(***************************************************************************)
(* The curation of one trip: its group's votes and rankings (GroupVotes)   *)
(* over the places that the city's ingestion, merges and reports keep      *)
(* changing (PoiCards).  The loader joins the places of the trip with the  *)
(* rows of pois; the caller of the ranking engine, which this repository   *)
(* only describes, completes every candidate with the price that the       *)
(* conflict resolver selects for the place's merge group.                  *)
(***************************************************************************)
EXTENDS Naturals, FiniteSets, Sequences

CONSTANTS
    Pois, NoPoi, PlaceOf(_), Seed(_), Similarity(_, _), Metres(_, _), Versions,
    Drafts, NoText, Reviewers, Ratings, MaxLag, StaleDays, IdBefore(_, _), MaxDay, MaxChanges, Folds,
    Users, Owner, Joined, Places, StayOf(_), AddedBy(_), PoiOf(_), Tastes, Default,
    Requests, Known(_), MaxOps,
    MaxSteps        \* bound on what both count together

ASSUME CurationAssumption ==
    /\ Owner \in Users /\ Joined \subseteq Users \ {Owner}
    /\ IsFiniteSet(Users)
    /\ NoPoi \notin Pois /\ \A p \in Places : PoiOf(p) \in Pois
    /\ {MaxLag, MaxDay, MaxChanges, MaxOps, MaxSteps} \subseteq Nat

VARIABLES row, redirect, journal, facts, hours, enrichment, reviews, now, card,
          said, changes,
          members, role, taste, places, votes, tally, req, rank, unheard, ops

Cards == INSTANCE PoiCards
Group == INSTANCE GroupVotes

\* Whatever a report may say, and the ids of all rows that may be written.
Reportable ==
    Drafts \cup UNION {batch.facts : batch \in UNION {Cards!Sources!Batches(v) : v \in Versions}}

FactIds == {Cards!FactRow(p, draft, 0).id : p \in Pois, draft \in Reportable}

\* What is merged at the start is one hop away; ids are totally ordered.
ASSUME PlacesAssumption ==
    /\ IsFiniteSet(Pois)
    /\ \A folds \in Folds :
          /\ folds \in Seq({folds[i] : i \in DOMAIN folds})
          /\ \A i \in DOMAIN folds : {folds[i].kept, folds[i].merged} \subseteq Pois
          /\ \A i, j \in DOMAIN folds :
                folds[i].kept # folds[j].merged /\ (folds[i].merged = folds[j].merged => i = j)
    /\ \A v \in Versions : \A batch \in Cards!Sources!Batches(v) :
          /\ PlaceOf(Cards!Matcher!Primary(batch.candidate)) \in Pois
          /\ IsFiniteSet(batch.facts)
    /\ \A draft \in Reportable :
          /\ {draft.confidence, draft.corroboration_count} \subseteq Nat
          /\ draft.attribute = "price" => draft.value \in DOMAIN Group!Ranking!BUDGET_RANK
    /\ \A a, b \in FactIds : ~(IdBefore(a, b) /\ IdBefore(b, a)) /\ (a = b \/ IdBefore(a, b) \/ IdBefore(b, a))
    /\ \A a, b, c \in FactIds : IdBefore(a, b) /\ IdBefore(b, c) => IdBefore(a, c)
    /\ \A t \in Tastes \cup {Default} : t.budget_tier \in DOMAIN Group!Ranking!BUDGET_RANK

brain == <<row, redirect, journal, facts, hours, enrichment, reviews, now, card,
           said, changes>>
opinions == <<members, role, taste, places, votes, tally, req, unheard, ops>>
vars == <<brain, opinions, rank>>

Init == Cards!Init /\ Group!Init

Categories == [p \in Cards!Present |-> row[p].category]

\* The price tier selected for the place's merge group, if any is known.
Price(p) ==
    LET head == IF redirect[p] = NoPoi THEN p ELSE redirect[p]
        theirs == {f \in facts : f.id.poi \in Cards!Group(head)}
        shown == Cards!Resolver!selectCardFacts(theirs, now)
    IN {shown[a].fact.value : a \in {"price"} \cap DOMAIN shown}

\* Bounds of the instance: the places and the group's opinions may both change,
\* or one of them more often.  A card has no part in votes and rankings, so
\* that nothing is lost by not reading one beside them.
Within(m, n) == m = 0 \/ n = 0 \/ m + n <= MaxSteps
Quiet == rank.pc = "none" /\ ops = 0

\* Of what a write overtook nothing is claimed: the first one may overtake a
\* card or a ranking, later ones find neither under way.
Undisturbed ==
    \/ changes = 0
    \/ card.pc = "closed" /\ rank.pc = "none"

\* What is written to the places overtakes a ranking too.
BrainStep ==
    /\ \/ Within(changes + 1, ops) /\ Undisturbed /\ Cards!Writes /\ Group!Write
       \/ Quiet /\ Cards!Reads /\ UNCHANGED rank
       \/ Cards!Tick /\ UNCHANGED rank
    /\ UNCHANGED opinions

GroupStep ==
    /\ card.pc = "closed"
    /\ \/ Group!Votes
       \/ Within(changes, ops + 1) /\ Group!Changes
       \/ Group!Rankings(Categories, [p \in Pois |-> Price(p)])
    /\ Within(changes, ops')
    /\ UNCHANGED brain

Next == BrainStep \/ GroupStep

Spec == Init /\ [][Next]_vars

CardIsWhole == Cards!CardIsWhole
NothingReplacedIsShown == Cards!NothingReplacedIsShown
TallyAgrees == Group!TallyAgrees

Dearer(tier, than) ==
    Group!Ranking!BUDGET_RANK[tier] > Group!Ranking!BUDGET_RANK[than]

\* Reports of a price by an official source of the place or its duplicates.
PriceReports(p) ==
    {r \in said : /\ Cards!HeadOf(r.id.poi) = Cards!HeadOf(p)
                  /\ r.attribute = "price" /\ r.status = "active"}

Officials(p) ==
    {r \in PriceReports(p) : r.source_kind \in {"official_site", "open_data"}}

\* What a ranking that no write overtook keeps is within the means of every
\* member by the newest official report of its price, whichever duplicate that
\* was about; unless that report repeats an earlier one, two of the same day
\* disagree, or a visitor has corrected the price.
KeptIsAffordable ==
    (rank.pc = "done" /\ ~rank.late) =>
       \A c \in DOMAIN rank.rows, u \in Group!Members :
          LET p == rank.rows[c].poi_id
              officials == Officials(p)
          IN \A r \in officials :
                /\ \A s \in officials \ {r} :
                      s.observed_at < r.observed_at /\ s.value # r.value
                /\ \A s \in PriceReports(p) : s.source_kind # "user_correction"
                /\ Dearer(r.value, taste[u].budget_tier)
                => rank.rows[c].excluded

\* The ranking hears every member's votes and vetoes, and what is known of the
\* places.
RankingHears == Group!RankingHears(Categories) /\ KeptIsAffordable
=============================================================================
