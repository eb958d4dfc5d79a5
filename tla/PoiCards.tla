------------------------------ MODULE PoiCards ------------------------------
(***************************************************************************)
(* The decision card of a place (poiCardHandler of pois/routes.ts) while   *)
(* ingestions, other writers of facts, reviews, merges and unmerges of     *)
(* duplicates go on.  A card is put together from statements that share no *)
(* snapshot; every row stays with the place it was written for, so the     *)
(* card gathers the rows of a merge group.                                 *)
(*                                                                         *)
(* A merge, an unmerge and the transaction of an ingestion are one step    *)
(* here: PoiBrain has their statements, locks and the rows they unite.     *)
(* One reader opens one card at a time, in the language of the build.      *)
(***************************************************************************)
EXTENDS Naturals, FiniteSets, SequencesExt

CONSTANTS
    Pois,           \* rows of pois
    NoPoi,          \* the null value of merged_into, a row that is not there
    PlaceOf(_),     \* the place whose uuid is made of an id
    Seed(_),        \* the external ids of the places there at the start, or NoPoi
    Similarity(_, _), Metres(_, _),
    Versions,       \* places as their sources may have them
    Drafts,         \* facts other writers report: research, corrections
    NoText,         \* no enrichment text
    Reviewers, Ratings,
    MaxLag,         \* how late a report may be committed, in days
    StaleDays, IdBefore(_, _),
    MaxDay,         \* bound on the clock
    MaxChanges,     \* bound on writes
    Folds           \* redirects that may be there at the start

Sources == INSTANCE SourceRecords
Resolver == INSTANCE FactResolution
Matcher == INSTANCE PlaceResolution

VARIABLES
    row,            \* the columns of pois an ingestion writes, NoPoi without a row
    redirect,       \* pois.merged_into
    journal,        \* live rows of poi_merges, oldest first
    facts,          \* facts, append-only
    hours,          \* poi_hours of each place, insert-only
    enrichment,     \* poi_enrichment of each place
    reviews,        \* published reviews
    now,            \* days
    card,           \* the card being read
    said,           \* history: every report ever committed
    changes         \* writes so far

world == <<row, redirect, journal, facts, hours, enrichment, reviews, said>>
vars == <<world, now, card, changes>>

\* An element swept before that had no tag to tell anything by.
Unknown(ids) ==
    [external_ids |-> ids, name |-> Sources!Unnamed, aliases |-> {},
     category |-> "OTHER", prominence |-> 20, indoor_outdoor |-> "mixed",
     accessibility |-> [a \in Sources!Aids |-> "unset"]]

\* The statements of a card: those that read a table each are taken together,
\* the two that read reviews are not.
Sections == {"rows", "reviews", "rating"}

NoCard ==
    [pc |-> "closed", id |-> NoPoi, head |-> NoPoi, left |-> {}, poi |-> NoPoi,
     facts |-> {}, hours |-> {}, enrichment |-> NoText, reviews |-> {},
     rating |-> [count |-> 0, total |-> 0], shown |-> <<>>,
     listed |-> FALSE,  \* history: the id came from a list or a search
     late |-> FALSE]    \* history: something was written since

Present == {p \in Pois : row[p] # NoPoi}
Canonical == {p \in Present : redirect[p] = NoPoi}

\* id = h OR merged_into = h.
Group(h) == {h} \cup {p \in Pois : redirect[p] = h}

Init ==
    /\ row = [p \in Pois |-> IF Seed(p) = NoPoi THEN NoPoi ELSE Unknown(Seed(p))]
    /\ journal \in Folds
    /\ redirect = [p \in Pois |->
          IF \E i \in DOMAIN journal : journal[i].merged = p
          THEN journal[CHOOSE i \in DOMAIN journal : journal[i].merged = p].kept
          ELSE NoPoi]
    /\ facts = {} /\ said = {}
    /\ hours = [p \in Pois |-> {}]
    /\ enrichment = [p \in Pois |-> NoText]
    /\ reviews = {}
    /\ now = 0
    /\ card = NoCard
    /\ changes = 0

\* A write to the tables, which a card being read or shown may have missed.
Write ==
    /\ changes < MaxChanges /\ changes' = changes + 1
    /\ card' = [card EXCEPT !.late = card.pc # "closed"]
    /\ UNCHANGED now

(***************************************************************************)
(* Writers.                                                                *)
(***************************************************************************)
\* The row's id is a hash of all its fields but the time, the confidence and
\* the count.
FactRow(p, draft, at) ==
    [id |-> [poi |-> p, attribute |-> draft.attribute, value |-> draft.value,
             source_kind |-> draft.source_kind, source_url |-> draft.source_url,
             status |-> draft.status],
     attribute |-> draft.attribute, value |-> draft.value,
     source_kind |-> draft.source_kind, source_url |-> draft.source_url,
     status |-> draft.status,
     confidence |-> draft.confidence,
     corroboration_count |-> draft.corroboration_count,
     observed_at |-> at]

\* ON CONFLICT (id) DO NOTHING: a report made before keeps its first time.
InsertFacts(rows) ==
    /\ facts' = facts \cup {f \in rows : \A g \in facts : g.id # f.id}
    /\ said' = said \cup rows

\* The time a report bears is the time it was fetched.
Times == {t \in 0 .. now : t + MaxLag >= now}

\* Resolve, or else insert; a row of that id that is there, but merged away or
\* unlike, is left as it is.
InsertCandidate(p, candidate) ==
    row' = [row EXCEPT ![p] = IF @ = NoPoi THEN candidate ELSE @]

\* What the row does not have yet, or what is known by now.
UpdateCandidate(p, candidate) ==
    row' = [row EXCEPT
       ![p].name = IF @ = Sources!Unnamed THEN candidate.name ELSE @,
       ![p].aliases = @ \cup candidate.aliases,
       ![p].category = IF @ = "OTHER" THEN candidate.category ELSE @,
       ![p].external_ids =
           [k \in DOMAIN @ |-> IF candidate.external_ids[k] = Matcher!NoId THEN @[k]
                               ELSE candidate.external_ids[k]],
       ![p].prominence = Max({@, candidate.prominence}),
       ![p].indoor_outdoor = IF @ = "mixed" THEN candidate.indoor_outdoor ELSE @,
       ![p].accessibility =
           [a \in DOMAIN @ |-> IF candidate.accessibility[a] = "unset" THEN @[a]
                               ELSE candidate.accessibility[a]]]

\* ON CONFLICT (id) DO NOTHING, and the id is a hash of the row.
InsertHours(p, rows) == hours' = [hours EXCEPT ![p] = @ \cup rows]

\* One text for each place and language; the last one written stays.
UpsertEnrichments(p, texts) ==
    enrichment' = [enrichment EXCEPT
                      ![p] = IF texts = {} THEN @ ELSE CHOOSE t \in texts : TRUE]

\* What one stage of an ingestion has of a place at a site.
Ingest(batch, site, at) ==
    /\ at \in Times
    /\ LET candidate == batch.candidate
           resolved == Matcher!Resolved([p \in Canonical |-> row[p]],
                                        [site |-> site] @@ candidate)
       IN \E p \in IF resolved = {} THEN {PlaceOf(Matcher!Primary(candidate))}
                   ELSE resolved :
             /\ IF resolved = {} THEN InsertCandidate(p, candidate)
                ELSE UpdateCandidate(p, candidate)
             /\ InsertFacts({FactRow(p, d, at) : d \in batch.facts})
             /\ InsertHours(p, batch.hours)
             /\ UpsertEnrichments(p, batch.text)
    /\ Write
    /\ UNCHANGED <<redirect, journal, reviews>>

\* Another writer's report, through the same insert.
Report(p, draft, at) ==
    /\ p \in Present /\ at \in Times
    /\ InsertFacts({FactRow(p, draft, at)})
    /\ Write
    /\ UNCHANGED <<row, redirect, journal, hours, enrichment, reviews>>

\* One review for each place and user.
PublishReview(p, user, rating) ==
    /\ p \in Present
    /\ \A r \in reviews : ~(r.poi = p /\ r.user = user)
    /\ reviews' = reviews \cup {[poi |-> p, user |-> user, rating |-> rating]}
    /\ Write
    /\ UNCHANGED <<row, redirect, journal, facts, hours, enrichment, said>>

\* merged || kept: a key of the kept place wins, also with a null.
United(kept, merged) == kept

\* Mutant of Merge: a place that others were merged into may be merged.
MergeChained(kept, merged) ==
    /\ kept # merged
    /\ {kept, merged} \subseteq Canonical
    /\ redirect' = [redirect EXCEPT ![merged] = kept]
    /\ row' = [row EXCEPT ![kept].external_ids = United(@, row[merged].external_ids)]
    /\ journal' = Append(journal, [kept |-> kept, merged |-> merged,
                                   external_ids |-> row[kept].external_ids])
    /\ Write
    /\ UNCHANGED <<facts, hours, enrichment, reviews, said>>

Merge(kept, merged) ==
    /\ kept # merged
    /\ {kept, merged} \subseteq Canonical
    /\ \A p \in Pois : redirect[p] # merged
    /\ redirect' = [redirect EXCEPT ![merged] = kept]
    /\ row' = [row EXCEPT ![kept].external_ids = United(@, row[merged].external_ids)]
    /\ journal' = Append(journal, [kept |-> kept, merged |-> merged,
                                   external_ids |-> row[kept].external_ids])
    /\ Write
    /\ UNCHANGED <<facts, hours, enrichment, reviews, said>>

\* The newest live merge into its place.
Unmerge(i) ==
    /\ i \in DOMAIN journal
    /\ \A j \in DOMAIN journal : j > i => journal[j].kept # journal[i].kept
    /\ redirect' = [redirect EXCEPT ![journal[i].merged] = NoPoi]
    /\ row' = [row EXCEPT ![journal[i].kept].external_ids = journal[i].external_ids]
    /\ journal' = SubSeq(journal, 1, i - 1) \o SubSeq(journal, i + 1, Len(journal))
    /\ Write
    /\ UNCHANGED <<facts, hours, enrichment, reviews, said>>

Tick ==
    /\ now < MaxDay /\ now' = now + 1
    /\ UNCHANGED <<world, card, changes>>

(***************************************************************************)
(* The reader.                                                             *)
(***************************************************************************)
\* A list or a search: whatever it filters by, canonical rows only.
List(category, prominence, id) ==
    /\ card.pc = "closed"
    /\ id \in {p \in Canonical : /\ row[p].category = category
                                 /\ row[p].prominence >= prominence}
    /\ card' = [card EXCEPT !.pc = "listed", !.id = id, !.listed = TRUE]
    /\ UNCHANGED <<world, now, changes>>

\* The id of a list, or one the client has had since before a merge.
Open(id) ==
    /\ id \in Present
    /\ \/ card.pc = "closed"
       \/ card.pc = "listed" /\ card.id = id
    /\ card' = [card EXCEPT !.pc = "reading", !.id = id, !.left = Sections,
                            !.head = IF redirect[id] = NoPoi THEN id
                                     ELSE redirect[id]]
    /\ UNCHANGED <<world, now, changes>>

\* Of the texts of a group the head's own is preferred.
Preferred(head) ==
    LET written == {p \in Group(head) : enrichment[p] # NoText}
    IN IF head \in written \/ written = {} THEN {head} ELSE written

Reviews(head) == {r \in reviews : r.poi \in Group(head)}

\* The statements of Promise.all, in any order.
Read(section) ==
    /\ card.pc = "reading" /\ section \in card.left
    /\ LET h == card.head
           read == [card EXCEPT !.left = @ \ {section}]
       IN \/ /\ section = "rows"
             /\ \E p \in Preferred(h) :
                   card' = [read EXCEPT
                      !.poi = row[h],
                      !.facts = {f \in facts : /\ f.id.poi \in Group(h)
                                               /\ f.status \in {"active", "disputed"}},
                      !.hours = UNION {hours[q] : q \in Group(h)},
                      !.enrichment = enrichment[p]]
          \/ /\ section = "reviews"
             /\ card' = [read EXCEPT !.reviews = Reviews(h)]
          \/ /\ section = "rating"
             /\ card' = [read EXCEPT
                   !.rating = [count |-> Cardinality(Reviews(h)),
                               total |-> MapThenSumSet(LAMBDA r : r.rating, Reviews(h))]]
    /\ UNCHANGED <<world, now, changes>>

Answer ==
    /\ card.pc = "reading" /\ card.left = {}
    /\ card' = [card EXCEPT !.pc = "answered", !.facts = {},
                            !.shown = Resolver!selectCardFacts(card.facts, now)]
    /\ UNCHANGED <<world, now, changes>>

Close ==
    /\ card.pc = "answered"
    /\ card' = NoCard
    /\ UNCHANGED <<world, now, changes>>

Writes ==
    \/ \E at \in Times :
          \/ \E place \in Versions : \E batch \in Sources!Batches(place) :
                Ingest(batch, place.site, at)
          \/ \E p \in Pois, draft \in Drafts : Report(p, draft, at)
    \/ \E p \in Pois, user \in Reviewers, rating \in Ratings :
          PublishReview(p, user, rating)
    \/ \E kept, merged \in Pois : Merge(kept, merged)
    \/ \E i \in DOMAIN journal : Unmerge(i)

Reads ==
    \/ \E c \in {row[p].category : p \in Canonical},
          n \in {row[p].prominence : p \in Canonical},
          id \in Pois : List(c, n, id)
    \/ \E id \in Pois : Open(id)
    \/ \E section \in Sections : Read(section)
    \/ Answer
    \/ Close

Next == Writes \/ Reads \/ Tick

Spec == Init /\ [][Next]_vars

(***************************************************************************)
(* Properties.                                                             *)
(***************************************************************************)
\* The place the live merges of the journal lead to, through any number of them.
HeadOf(p) ==
    LET Kept(q) == LET mine == {i \in DOMAIN journal : journal[i].merged = q}
                   IN IF mine = {} THEN q ELSE journal[CHOOSE i \in mine : TRUE].kept
        after[n \in Nat] == IF n = 0 THEN p ELSE Kept(after[n - 1])
    IN after[Cardinality(Pois)]

\* A card that no write overtook is about the place that the asked place was
\* in the end merged into, and has everything that is known of any place merged
\* into that one: every attribute with an active fact, all opening hours, a
\* text if there is one (the head's own first), and a rating of the reviews
\* beside it.  A place picked from a list opens as itself.  One-hop redirects
\* and one-hop groups must be enough for it.
CardIsWhole ==
    (card.pc = "answered" /\ ~card.late) =>
       LET head == HeadOf(card.id)
           folded == {p \in Pois : HeadOf(p) = head}
           known == {f \in facts : f.id.poi \in folded /\ f.status = "active"}
       IN /\ card.head = head
          /\ card.listed => card.id = head
          /\ card.poi = row[head]
          /\ DOMAIN card.shown = {f.attribute : f \in known}
          /\ \A a \in DOMAIN card.shown : card.shown[a].fact \in known
          /\ card.hours = UNION {hours[p] : p \in folded}
          /\ enrichment[head] # NoText => card.enrichment = enrichment[head]
          /\ card.enrichment = NoText <=> \A p \in folded : enrichment[p] = NoText
          /\ card.reviews = {r \in reviews : r.poi \in folded}
          /\ card.rating.count = Cardinality(card.reviews)

Same(f, g) ==
    /\ f.id.poi = g.id.poi
    /\ <<f.attribute, f.source_kind, f.source_url, f.status>>
         = <<g.attribute, g.source_kind, g.source_url, g.status>>
    /\ <<f.confidence, f.corroboration_count>> = <<g.confidence, g.corroboration_count>>

\* A card that no write overtook shows no value that the source it cites has
\* itself replaced by a later report, unless it had reported the later value at
\* another time, or with another confidence, too: the row of that value bears
\* what was first said of it.
NothingReplacedIsShown ==
    (card.pc = "answered" /\ ~card.late) =>
       \A a \in DOMAIN card.shown : \A r \in said :
          LET f == card.shown[a].fact IN
          (Same(r, f) /\ r.observed_at > f.observed_at /\ r.value # f.value) =>
             \E s \in said : s.id = r.id /\ s # r
=============================================================================
