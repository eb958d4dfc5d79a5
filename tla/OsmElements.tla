---------------------------- MODULE OsmElements ----------------------------
(***************************************************************************)
(* What the ingestion reads from one OpenStreetMap element                 *)
(* (ingestion/osm.py, ingestion/categories.py): its category, whether it   *)
(* is indoors, its accessibility, its prominence, its facts and its        *)
(* opening hours.                                                          *)
(*                                                                         *)
(* tags maps the keys an element has to their values, already lower-cased  *)
(* where the code does so.  The value of opening_hours is its text with    *)
(* what the parser sees in it: whether it is "24/7", or its clauses, each  *)
(* with a set of day ranges, <<first, last>>, and a time: "off", a span    *)
(* of hours, or "odd" for what the parser does not read.  Prominence is in *)
(* hundredths.                                                             *)
(***************************************************************************)
EXTENDS Integers, FiniteSets, Sequences

Has(tags, key, values) == key \in DOMAIN tags /\ tags[key] \in values

\* The first rule that applies decides.
map_osm_tags(tags) ==
    IF \/ Has(tags, "tourism", {"viewpoint"})
       \/ /\ Has(tags, "man_made", {"tower", "observation_tower"})
          /\ Has(tags, "tower:type", {"observation", "watchtower"})
    THEN "VIEWPOINT"
    ELSE IF \/ Has(tags, "tourism", {"museum", "gallery"})
            \/ Has(tags, "amenity", {"museum"})
    THEN "MUSEUM"
    ELSE IF \/ Has(tags, "leisure", {"park", "garden", "nature_reserve"})
            \/ Has(tags, "natural", {"peak", "beach", "waterfall",
                                     "cave_entrance", "wood", "spring"})
            \/ Has(tags, "boundary", {"protected_area", "national_park"})
    THEN "PARK_NATURE"
    ELSE IF \/ Has(tags, "amenity", {"nightclub", "bar", "pub", "biergarten"})
            \/ Has(tags, "club", {"nightclub", "music"})
    THEN "NIGHTLIFE"
    ELSE IF Has(tags, "amenity", {"restaurant", "fast_food", "food_court"})
    THEN "RESTAURANT"
    ELSE IF Has(tags, "amenity", {"cafe", "ice_cream"})
    THEN "CAFE"
    ELSE IF "shop" \in DOMAIN tags \/ Has(tags, "amenity", {"marketplace", "market"})
    THEN "SHOPPING"
    ELSE IF \/ Has(tags, "tourism", {"zoo", "theme_park", "aquarium"})
            \/ Has(tags, "amenity", {"theatre", "cinema", "arts_centre",
                                     "casino", "planetarium"})
            \/ Has(tags, "leisure", {"amusement_arcade", "water_park",
                                     "stadium", "sports_centre"})
    THEN "ENTERTAINMENT"
    ELSE IF \/ Has(tags, "tourism", {"attraction", "artwork"})
            \/ "historic" \in DOMAIN tags
            \/ Has(tags, "man_made", {"lighthouse", "obelisk", "monument",
                                      "bridge", "tower"})
            \/ Has(tags, "amenity", {"place_of_worship"})
    THEN "SIGHT"
    ELSE "OTHER"

\* "yes", "no", or "unset" when the tag is missing or says something else.
TriState(tags, key) ==
    IF Has(tags, key, {"yes", "true", "1", "designated"}) THEN "yes"
    ELSE IF Has(tags, key, {"no", "false", "0"}) THEN "no"
    ELSE "unset"

IndoorOutdoor(tags, category) ==
    IF TriState(tags, "indoor") = "yes" THEN "indoor"
    ELSE IF category \in {"PARK_NATURE", "VIEWPOINT"} THEN "outdoor"
    ELSE IF category \in {"MUSEUM", "SHOPPING", "CAFE", "RESTAURANT"} THEN "indoor"
    ELSE "mixed"

Prominence(tags) ==
    LET If(keys, weight) == IF keys \cap DOMAIN tags # {} THEN weight ELSE 0
    IN 20 + If({"wikidata"}, 25) + If({"wikipedia"}, 20)
          + If({"heritage", "historic"}, 15) + If({"name"}, 5)

Unnamed == "unnamed"     \* stands for a name made of the category and the id

NameOf(tags) == IF "name" \in DOMAIN tags THEN tags["name"] ELSE Unnamed

\* A list of names is one value of a tag.
Aliases(tags) ==
    UNION {tags[key] : key \in {"alt_name", "old_name", "loc_name", "short_name"}
                                  \cap DOMAIN tags}

Aids == {"wheelchair", "stroller", "stairs"}

\* Stairs are known to be there or not known of.
Accessibility(tags) ==
    [a \in Aids |->
        IF a # "stairs" THEN TriState(tags, a)
        ELSE IF Has(tags, "highway", {"steps"}) \/ "step_count" \in DOMAIN tags
        THEN "yes" ELSE "unset"]

(***************************************************************************)
(* parse_osm_opening_hours.                                                *)
(***************************************************************************)
Days == 0 .. 6     \* Monday to Sunday

\* From the first day of a range to its last, past Sunday if need be.
DaysOf(range) ==
    {(range[1] + k) % 7 : k \in 0 .. ((range[2] - range[1] + 7) % 7)}

Row(day, time) == [day |-> day, time |-> time]

\* One clause the parser does not read leaves the element without rows; a
\* day in two clauses has a row from each.
parse_osm_opening_hours(expression) ==
    LET clauses == expression.clauses
    IN IF expression.always THEN {Row(day, "24h") : day \in Days}
       ELSE IF \E i \in DOMAIN clauses : clauses[i].time = "odd" THEN {}
       ELSE UNION {{Row(day, clauses[i].time) :
                       day \in UNION {DaysOf(r) : r \in clauses[i].days}} :
                   i \in DOMAIN clauses}

(***************************************************************************)
(* The facts of parse_overpass_payload.                                    *)
(***************************************************************************)
FactTags ==
    [fee |-> "fee", viewpoint_direction |-> "direction",
     wheelchair |-> "wheelchair", official_website |-> "website"]

\* Tri-state tags keep their raw text when they say something else.
FactValue(tags, attribute) ==
    LET key == FactTags[attribute]
    IN IF attribute \in {"fee", "wheelchair"} /\ TriState(tags, key) # "unset"
       THEN TriState(tags, key) ELSE tags[key]

\* A fact as the sources draft it.
Draft(source_kind, source_url, attribute, value, confidence) ==
    [attribute |-> attribute, value |-> value, source_kind |-> source_kind,
     source_url |-> source_url, confidence |-> confidence,
     corroboration_count |-> 0, status |-> "active"]

FactsOf(element, tags) ==
    LET OsmFact(attribute, value, confidence) ==
            Draft("osm", element, attribute, value, confidence)
    IN {OsmFact("source_attribution", "ODbL 1.0", 100)}
         \cup {OsmFact(a, FactValue(tags, a), 90) :
                   a \in {b \in DOMAIN FactTags : FactTags[b] \in DOMAIN tags}}
         \cup {OsmFact("opening_hours_osm", tags["opening_hours"].text, 85) :
                   key \in {"opening_hours"} \cap DOMAIN tags}

HoursOf(tags) ==
    UNION {parse_osm_opening_hours(tags[key]) :
              key \in {"opening_hours"} \cap DOMAIN tags}
=============================================================================
