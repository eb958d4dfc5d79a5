--------------------------- MODULE FactResolution ---------------------------
(***************************************************************************)
(* The fact conflict resolver (backend/api/src/pois/conflict.ts) and the   *)
(* card facts made of it (selectCardFacts, pois/routes.ts): given every    *)
(* report of an attribute of one place, which one is shown, and by which   *)
(* of four rules.  Times are days.                                         *)
(***************************************************************************)
EXTENDS Naturals, FiniteSets, Sequences

CONSTANTS
    StaleDays,        \* a citation older than this many days is stale
    IdBefore(_, _)    \* lexicographic order of the rows' ids

USER_CORRECTION_MIN_CORROBORATION == 2

Operational == {"hours", "opening_hours", "price", "admission_price",
                "ticket_price", "pass_price", "booking_required"}
TimeSensitive == {"crowd_level", "wait_time", "temporary_closure",
                  "construction_status"}

\* Every attribute of neither list is experiential.
ATTRIBUTE_CLASS(attribute) ==
    IF attribute \in Operational THEN "operational"
    ELSE IF attribute \in TimeSensitive THEN "time_sensitive"
    ELSE "experiential"

OFFICIAL_SOURCE_KINDS == {"official_site", "open_data"}
EXPERIENCE_SOURCE_KINDS == {"llm_research", "web_review", "user_correction"}

\* a is ahead of b by the first of their keys that differ, larger keys first,
\* then by id.
AheadBy(keysA, keysB, a, b) ==
    \/ \E i \in DOMAIN keysA :
          /\ \A j \in 1..(i - 1) : keysA[j] = keysB[j]
          /\ keysA[i] > keysB[i]
    \/ keysA = keysB /\ IdBefore(a.id, b.id)

cmpNewest(a, b) ==
    AheadBy(<<a.observed_at, a.confidence, a.corroboration_count>>,
            <<b.observed_at, b.confidence, b.corroboration_count>>, a, b)

\* Mutant of cmpConfidence: equal confidence and counts are not told apart by time.
cmpSure(a, b) ==
    AheadBy(<<a.confidence, a.corroboration_count>>,
            <<b.confidence, b.corroboration_count>>, a, b)

cmpConfidence(a, b) ==
    AheadBy(<<a.confidence, a.corroboration_count, a.observed_at>>,
            <<b.confidence, b.corroboration_count, b.observed_at>>, a, b)

Newest(facts) == CHOOSE f \in facts : \A g \in facts \ {f} : cmpNewest(f, g)
Surest(facts) == CHOOSE f \in facts : \A g \in facts \ {f} : cmpConfidence(f, g)

Active(facts) == {f \in facts : f.status = "active"}
Official(facts) == {f \in facts : f.source_kind \in OFFICIAL_SOURCE_KINDS}

\* The winner of rules 1 to 3.
selectBase(active, class) ==
    IF class = "experiential"
    THEN [fact |-> Surest(active),
          rule |-> "recency_tolerant_experiential"]
    ELSE IF class = "operational" /\ Official(active) # {}
    THEN [fact |-> Newest(Official(active)),
          rule |-> "official_operational"]
    ELSE [fact |-> Newest(active), rule |-> "newest_time_sensitive"]

Corroborated(facts) ==
    {f \in facts : /\ f.source_kind = "user_correction"
                   /\ f.corroboration_count >= USER_CORRECTION_MIN_CORROBORATION}

\* now is read once for the whole card; a time before day 0 cannot be stale.
Stale(fact, now) == fact.observed_at + StaleDays < now

\* Rule 4 on top of the others, for facts of one attribute of which some are
\* active.
selectFact(facts, attribute, now) ==
    LET active == Active(facts)
        base == selectBase(active, ATTRIBUTE_CLASS(attribute))
        correction == Newest(Corroborated(active))
    IN IF /\ Corroborated(active) # {}
          /\ \/ correction.observed_at > base.fact.observed_at
             \/ Stale(base.fact, now)
       THEN [fact |-> correction, rule |-> "verified_visitor_correction"]
       ELSE base

Group(facts, attribute) == {f \in facts : f.attribute = attribute}

\* An attribute none of whose facts is active is not shown.
Shown(facts) == {f.attribute : f \in Active(facts)}

\* One fact for each attribute, with what the card says of how sure it is.
selectCardFacts(facts, now) ==
    [a \in Shown(facts) |->
        LET group == Group(facts, a)
            chosen == selectFact(group, a, now)
        IN [fact          |-> chosen.fact,
            selected_by   |-> chosen.rule,
            disputed      |-> \/ \E f \in group : f.status = "disputed"
                              \/ Cardinality({f.value : f \in Active(group)}) > 1,
            single_report |-> /\ chosen.fact.source_kind
                                      \in EXPERIENCE_SOURCE_KINDS
                              /\ chosen.fact.corroboration_count < 2]]
=============================================================================
