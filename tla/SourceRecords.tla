---------------------------- MODULE SourceRecords ----------------------------
(***************************************************************************)
(* What the ingestion writes about one place, stage by stage, from what    *)
(* its sources say of it: OpenStreetMap or, when that sweep fails,         *)
(* Geoapify; then Wikidata, Wikipedia and Commons (ingestion/geoapify.py,  *)
(* wikimedia.py, commons.py, categories.py).  Every stage is a batch of    *)
(* its own, written by its own transaction.                                *)
(*                                                                         *)
(* A place is a record: sweep, which sweep finds it; element and tags, its *)
(* element (OsmElements); properties, its Geoapify feature; entity, the Wikidata   *)
(* entity of its id, if any, and text, the opening of that entity's        *)
(* Wikipedia article, if any (sets of at most one); nearby, the files that *)
(* a Commons search around it finds.  A category path is the sequence of   *)
(* its words, a licence the set of markers it is searched for.             *)
(***************************************************************************)
EXTENDS OsmElements, SequencesExt

(***************************************************************************)
(* Categories.                                                             *)
(***************************************************************************)
WIKIDATA_INSTANCE_CATEGORY ==
    [VIEWPOINT     |-> {"Q6017969", "Q1440300", "Q180174"},
     MUSEUM        |-> {"Q33506", "Q207694", "Q1007870", "Q3329412"},
     PARK_NATURE   |-> {"Q22698", "Q46169", "Q14545628", "Q8502", "Q4421",
                        "Q23397", "Q40080", "Q43483"},
     SIGHT         |-> {"Q570116", "Q4989906", "Q811979", "Q16970", "Q23413",
                        "Q12518", "Q39715", "Q12280", "Q839954"},
     ENTERTAINMENT |-> {"Q24354", "Q41253", "Q2416723", "Q43501", "Q2281788",
                        "Q483110"},
     NIGHTLIFE     |-> {"Q622425", "Q187456", "Q1311064", "Q212198"},
     RESTAURANT    |-> {"Q11707", "Q131263"},
     CAFE          |-> {"Q30022", "Q47545"},
     SHOPPING      |-> {"Q11315", "Q37654", "Q213441", "Q180846"}]

Precedence ==
    <<"VIEWPOINT", "MUSEUM", "PARK_NATURE", "SIGHT", "ENTERTAINMENT",
      "NIGHTLIFE", "RESTAURANT", "CAFE", "SHOPPING">>

map_wikidata_types(ids) ==
    LET Matches(c) == ids \cap WIKIDATA_INSTANCE_CATEGORY[c] # {}
        found == SelectInSeq(Precedence, Matches)
    IN IF found = 0 THEN "OTHER" ELSE Precedence[found]

Rule(prefixes, category) == [prefixes |-> prefixes, category |-> category]

\* The first rule with a prefix of any path decides.
map_geoapify_categories(paths) ==
    LET rules ==
          <<Rule({<<"tourism", "attraction", "viewpoint">>,
                  <<"natural", "mountain", "peak">>}, "VIEWPOINT"),
            Rule({<<"entertainment", "museum">>,
                  <<"tourism", "sights", "museum">>}, "MUSEUM"),
            Rule({<<"natural">>, <<"leisure", "park">>, <<"leisure", "garden">>,
                  <<"national_park">>}, "PARK_NATURE"),
            Rule({<<"adult", "nightclub">>, <<"catering", "bar">>,
                  <<"catering", "pub">>}, "NIGHTLIFE"),
            Rule({<<"catering", "restaurant">>,
                  <<"catering", "fast_food">>}, "RESTAURANT"),
            Rule({<<"catering", "cafe">>, <<"catering", "coffee_shop">>}, "CAFE"),
            Rule({<<"commercial">>, <<"shopping">>}, "SHOPPING"),
            Rule({<<"entertainment">>, <<"leisure">>}, "ENTERTAINMENT"),
            Rule({<<"tourism", "sights">>, <<"heritage">>,
                  <<"religion", "place_of_worship">>}, "SIGHT")>>
        Applies(rule) ==
          \E prefix \in rule.prefixes, path \in paths : IsPrefix(prefix, path)
        found == SelectInSeq(rules, Applies)
    IN IF found = 0 THEN "OTHER" ELSE rules[found].category

(***************************************************************************)
(* The sweeps.                                                             *)
(***************************************************************************)
Candidate(ids, name, aliases, category, prominence, indoor_outdoor, accessibility) ==
    [external_ids |-> ids, name |-> name, aliases |-> aliases, category |-> category,
     prominence |-> prominence, indoor_outdoor |-> indoor_outdoor,
     accessibility |-> accessibility]

Ids(osm, wikidata) == [osm_id |-> osm, wikidata_id |-> wikidata]

\* Whose record a Geoapify feature repeats, with the Wikidata id it is known
\* by; the feature of any other origin is not kept.
Provenance(properties) ==
    IF /\ properties.osm_id # "none"
       /\ properties.osm_type \in {"n", "node", "w", "way", "r", "relation"}
       /\ \/ "openstreetmap" \in properties.sources
          \/ properties.sources = {}
    THEN "osm"
    ELSE IF properties.wikidata # "none" /\ "wikidata" \in properties.sources
    THEN "wikidata"
    ELSE "none"

Usable(place) == place.sweep = "geoapify" => Provenance(place.properties) # "none"

Swept(place) ==
    LET tags == place.tags
        category == map_osm_tags(tags)
        properties == place.properties
    IN IF place.sweep = "geoapify"
       THEN Candidate(Ids(IF Provenance(properties) = "osm" THEN properties.osm_id
                          ELSE "none", properties.wikidata),
                      properties.name, {},
                      map_geoapify_categories(properties.categories), 15,
                      "mixed", [a \in Aids |-> "unset"])
       ELSE Candidate(Ids(place.element, IF "wikidata" \in DOMAIN tags
                                         THEN tags["wikidata"] ELSE "none"),
                      NameOf(tags), Aliases(tags), category, Prominence(tags),
                      IndoorOutdoor(tags, category), Accessibility(tags))

\* The entity of the Wikidata id the swept candidate has.
Linked(place) ==
    IF Swept(place).external_ids["wikidata_id"] # "none" THEN place.entity ELSE {}

(***************************************************************************)
(* Wikidata.  renown is the entity's prominence by the logarithm of the    *)
(* number of its sitelinks.                                                *)
(***************************************************************************)
\* Claims of an unknown value are left out.
ClaimValues(entity, property) ==
    {c.value : c \in {d \in entity.claims[property] : d.snaktype = "value"}}

\* The label, the description or the aliases of an entity, with English as the
\* fallback.
Localized(texts, language) ==
    {texts[l] : l \in IF language \in DOMAIN texts THEN {language}
                      ELSE {"en"} \cap DOMAIN texts}

\* A date of reduced precision is its year.
TimeValue(time) == IF time.reduced THEN time.year ELSE time.text

\* A height in another unit than metres keeps its unit.
HeightValue(height) ==
    IF height.unit = "Q11573" THEN height.amount
    ELSE height.amount \o " " \o height.unit

\* Only a candidate without a name or a category takes the entity's.
Patched(candidate, entity, language) ==
    [candidate EXCEPT
        !.name = LET label == Localized(entity.labels, language)
                 IN IF @ # Unnamed \/ label = {} THEN @
                    ELSE CHOOSE l \in label : TRUE,
        !.aliases = @ \cup UNION Localized(entity.aliases, language),
        !.category = IF @ = "OTHER"
                     THEN map_wikidata_types(ClaimValues(entity, "P31")) ELSE @,
        !.prominence = IF entity.renown > @ THEN entity.renown ELSE @]

WikidataFacts(entity, language) ==
    LET Said(attribute, values) == {Draft("wikidata", entity.id, attribute, v, 90) : v \in values}
    IN Said("wikidata_description", Localized(entity.descriptions, language))
         \cup Said("wikidata_sitelink_count", {entity.sitelinks})
         \cup Said("instance_of", IF ClaimValues(entity, "P31") = {} THEN {}
                                  ELSE {entity.types_text})
         \cup Said("inception", {TimeValue(t) : t \in ClaimValues(entity, "P571")})
         \cup Said("heritage_designation", ClaimValues(entity, "P1435"))
         \cup Said("official_website", ClaimValues(entity, "P856"))
         \cup Said("height_m", {HeightValue(h) : h \in ClaimValues(entity, "P2048")})

(***************************************************************************)
(* Wikipedia and Commons.                                                  *)
(***************************************************************************)
\* The article is found by the entity's link to it.
Significance(entity, text) ==
    Draft("open_data", entity.id, "significance", text, 85)

_is_open_license(markers) ==
    /\ markers \cap {"-nc", " nc ", "noncommercial", "-nd", "no derivatives"} = {}
    /\ markers \cap {"cc by", "cc-by", "cc0", "public domain", "public-domain",
                     "pdm"} # {}

PHOTOS_PER_CANDIDATE == 6

\* The entity's own files, and the first around the place; linked says that a
\* file has a page and an original to point to.
Photos(files, nearby) ==
    LET found == files \cup {nearby[i] : i \in {j \in DOMAIN nearby :
                                                    j <= PHOTOS_PER_CANDIDATE}}
    IN {Draft("open_data", f.title, "photo", f.title, 90) :
           f \in {g \in found : g.linked /\ _is_open_license(g.licence)}}

(***************************************************************************)
(* The batches.  A stage after the sweep writes the candidate again, as    *)
(* Wikidata left it.                                                       *)
(***************************************************************************)
Batch(candidate, facts, hours, text) ==
    [candidate |-> candidate, facts |-> facts, hours |-> hours, text |-> text]

Learned(place, entity) == Patched(Swept(place), entity, place.language)

SweepBatches(place) ==
    {IF place.sweep = "overpass"
     THEN Batch(Swept(place), FactsOf(place.element, place.tags), HoursOf(place.tags), {})
     ELSE Batch(Swept(place), {}, {}, {})}

WikidataBatches(place) ==
    {Batch(Learned(place, e), WikidataFacts(e, place.language), {}, {}) : e \in Linked(place)}

WikipediaBatches(place) ==
    {Batch(Learned(place, e), {Significance(e, t)}, {}, {t}) :
        e \in Linked(place), t \in place.text}

\* Commons is searched whether or not Wikidata has answered, but only around
\* the most prominent places.
CommonsBatches(place) ==
    {b \in {Batch(Swept(place), Photos({}, place.nearby), {}, {})}
             \cup {Batch(Learned(place, e), Photos(ClaimValues(e, "P18"), files), {}, {}) :
                      e \in Linked(place), files \in {<<>>, place.nearby}} :
        b.facts # {}}

Batches(place) ==
    IF Usable(place)
    THEN SweepBatches(place) \cup WikidataBatches(place)
           \cup WikipediaBatches(place) \cup CommonsBatches(place)
    ELSE {}
=============================================================================
