---------------------------- MODULE GroupRanking ----------------------------
(***************************************************************************)
(* The preference-merge engine (backend/api/src/merge/engine.ts): what a   *)
(* group of members makes of a candidate place.  Vetoes filter, whoever    *)
(* has them; interests and votes are averaged, unless somebody would be    *)
(* miserable.  Scores are counted in halves.                               *)
(*                                                                         *)
(* members is a sequence; candidate.votes is aligned with it by index.     *)
(* tags is a set of at most one set: empty when nothing is known of them.  *)
(* price_tier is a set of at most one tier, likewise.                      *)
(***************************************************************************)
EXTENDS Integers, FiniteSets, FiniteSetsExt, Sequences

BUDGET_RANK == [budget |-> 0, moderate |-> 1, comfort |-> 2, luxury |-> 3]
MOBILITY_RANK == [full |-> 0, limited |-> 1, stroller |-> 2, wheelchair |-> 3]

\* The tag that each need but "full" asks for.
MOBILITY_REQUIRED_TAG ==
    [limited |-> "step_free", stroller |-> "stroller_friendly",
     wheelchair |-> "wheelchair_accessible"]

MEAL_CATEGORIES == {"RESTAURANT", "CAFE"}

Indices(members) == DOMAIN members

unionHardExclusions(members) ==
    UNION {members[i].hard_exclusions : i \in Indices(members)}

unionDietary(members) == UNION {members[i].dietary : i \in Indices(members)}

\* The tags the strictest member needs: one, or none.
RequiredTags(members) ==
    LET ranks == {MOBILITY_RANK[members[i].mobility] : i \in Indices(members)}
        strictest == Max(ranks \cup {0})
    IN {MOBILITY_REQUIRED_TAG[m] : m \in {n \in DOMAIN MOBILITY_REQUIRED_TAG :
                                              MOBILITY_RANK[n] = strictest}}

\* What interests, dislikes and exclusions are matched against.
descriptorsOf(candidate) == {candidate.category} \cup UNION candidate.tags

(***************************************************************************)
(* Hard filters.  Those on tags and prices pass what is not known.         *)
(***************************************************************************)
Excluded(members, candidate) ==
    unionHardExclusions(members) \cap descriptorsOf(candidate) # {}

DietUnmet(members, candidate) ==
    /\ candidate.category \in MEAL_CATEGORIES
    /\ \E tags \in candidate.tags : ~(unionDietary(members) \subseteq tags)

\* Mutant of TooDear: the cap is the tier of whoever can afford most.
TooDearForAll(members, candidate) ==
    \E tier \in candidate.price_tier : \A i \in Indices(members) :
       BUDGET_RANK[tier] > BUDGET_RANK[members[i].budget_tier]

\* The cap is the tier of the member who can afford least.
TooDear(members, candidate) ==
    \E tier \in candidate.price_tier :
       \E i \in Indices(members) :
          /\ \A j \in Indices(members) :
                BUDGET_RANK[members[i].budget_tier] <= BUDGET_RANK[members[j].budget_tier]
          /\ BUDGET_RANK[tier] > BUDGET_RANK[members[i].budget_tier]

OutOfReach(members, candidate) ==
    \E tags \in candidate.tags : ~(RequiredTags(members) \subseteq tags)

(***************************************************************************)
(* Soft scores.                                                            *)
(***************************************************************************)
Halves(condition, n) == IF condition THEN n ELSE 0
Clamp(n, low, high) == Max({low, Min({n, high})})

MemberScore(m, vote, candidate) ==
    Clamp(Halves(m.interests \cap descriptorsOf(candidate) # {}, 2)
            + Halves(m.anti_preferences \cap descriptorsOf(candidate) # {}, -1)
            + Halves(vote = "up", 2) + Halves(vote = "down", -2),
          -2, 2)

\* At most -0.6, or a vote against.
Miserable(m, vote, candidate) ==
    10 * MemberScore(m, vote, candidate) <= -12 \/ vote = "down"

\* A score is between -2 and 2.
ScoreSum(members, candidate) ==
    LET Having(n) == Cardinality({i \in Indices(members) :
                        MemberScore(members[i], candidate.votes[i], candidate) = n})
    IN 2 * Having(2) + Having(1) - Having(-1) - 2 * Having(-2)

\* The mean is below 0.34; that of nobody is 0.
LowMean(members, candidate) ==
    IF members = <<>> THEN TRUE
    ELSE 100 * ScoreSum(members, candidate) < 68 * Len(members)

Count(candidate, vote) ==
    Cardinality({i \in DOMAIN candidate.votes : candidate.votes[i] = vote})

Flags(members, candidate) ==
    {f \in {"hard_exclusion", "dietary", "budget", "mobility", "misery"} :
        CASE f = "hard_exclusion" -> Excluded(members, candidate)
          [] f = "dietary" -> DietUnmet(members, candidate)
          [] f = "budget" -> TooDear(members, candidate)
          [] f = "mobility" -> OutOfReach(members, candidate)
          [] f = "misery" -> \E i \in Indices(members) :
                Miserable(members[i], candidate.votes[i], candidate)}

\* The row of one candidate: counts, never who.
ScoreCandidate(members, candidate) ==
    LET flags == Flags(members, candidate) IN
    [poi_id       |-> candidate.poi_id,
     sum          |-> ScoreSum(members, candidate),
     excluded     |-> \/ flags \ {"misery"} # {}
                      \/ "misery" \in flags /\ LowMean(members, candidate),
     flags        |-> flags,
     up           |-> Count(candidate, "up"),
     down         |-> Count(candidate, "down"),
     member_count |-> Len(members)]

scoreCandidates(members, candidates) ==
    [c \in DOMAIN candidates |-> ScoreCandidate(members, candidates[c])]
=============================================================================
