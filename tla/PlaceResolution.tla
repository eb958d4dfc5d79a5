--------------------------- MODULE PlaceResolution ---------------------------
(***************************************************************************)
(* Which place of a city the ingestion takes a candidate for: the place    *)
(* that has one of its ids, or else the likest place of a compatible       *)
(* category nearby (migration 0016, _upsert_candidate).                    *)
(*                                                                         *)
(* rows are the canonical rows of pois of the city, by id; a candidate has *)
(* external_ids, name, category and site.  No source here knows an id of   *)
(* Google's.                                                               *)
(***************************************************************************)
EXTENDS Integers, FiniteSets, SequencesExt

CONSTANTS
    Similarity(_, _),   \* of two names, in hundredths
    Metres(_, _)        \* from a place's coordinate to a site, Unknown without one

Unknown == -1

IdKeys == <<"osm_id", "wikidata_id">>
NoId == "none"

category_compatible(a, b) ==
    \/ a = b
    \/ "OTHER" \in {a, b}
    \/ {a, b} \in {{"CAFE", "RESTAURANT"}, {"MUSEUM", "SIGHT"},
                   {"SIGHT", "VIEWPOINT"}, {"PARK_NATURE", "VIEWPOINT"}}

poi_find_by_external_id(rows, key, value) ==
    {p \in DOMAIN rows : value # NoId /\ rows[p].external_ids[key] = value}

\* The name or the best alias.
NameSimilarity(row, name) ==
    Max({Similarity(known, name) : known \in {row.name} \cup row.aliases})

\* In fifteen-thousandths.  An unknown distance costs nothing.
Score(similarity, distance) ==
    IF distance = Unknown THEN 150 * similarity
    ELSE 90 * similarity + 40 * Max({0, 150 - distance})

poi_match_candidates(rows, candidate) ==
    {[poi |-> p, score |-> Score(NameSimilarity(rows[p], candidate.name),
                                 Metres(p, candidate.site))] :
        p \in {q \in DOMAIN rows :
                  /\ category_compatible(rows[q].category, candidate.category)
                  /\ NameSimilarity(rows[q], candidate.name) >= 45
                  /\ Metres(q, candidate.site) <= 150}}

\* The first key that leads to a place decides; of equal matches any comes first.
Resolved(rows, candidate) ==
    LET ById(key) == poi_find_by_external_id(rows, key, candidate.external_ids[key])
        Leads(key) == ById(key) # {}
        first == SelectInSeq(IdKeys, Leads)
        matches == poi_match_candidates(rows, candidate)
    IN IF first # 0 THEN ById(IdKeys[first])
       ELSE {m.poi : m \in {n \in matches : \A o \in matches : o.score <= n.score}}

\* The id a new place's uuid is made of.
Primary(candidate) ==
    LET ids == candidate.external_ids
    IN IF ids["osm_id"] # NoId THEN ids["osm_id"] ELSE ids["wikidata_id"]
=============================================================================
