----------------------------- MODULE MCCuration -----------------------------
(***************************************************************************)
(* Three places of a city, one of which is a duplicate already; two are on *)
(* the trip of an owner, an editor and somebody who may join, each in a    *)
(* stay of its own.                                                        *)
(***************************************************************************)
EXTENDS Curation, TLC

MCPois == {1, 2, 3}

\* An element as it was, free; as it is, with a fee and closed on Sundays, and
\* with what Wikidata, Wikipedia and Commons know of it; and as Geoapify has it.
Hours(text, clauses) == [text |-> text, always |-> FALSE, clauses |-> clauses]

File(title, licence) == [title |-> title, licence |-> licence, linked |-> TRUE]
Value(value) == [snaktype |-> "value", value |-> value]
Entity ==
    [id |-> "Q1", labels |-> [en |-> "Krone"], aliases |-> [de |-> {"Crown"}],
     descriptions |-> [x \in {} |-> x], sitelinks |-> "24",
     renown |-> 60, types_text |-> "Q33506",
     claims |-> [P31   |-> {Value("Q33506")},
                 P571  |-> {Value([year |-> "1901", text |-> "1901-05-04",
                                   reduced |-> TRUE])},
                 P1435 |-> {},
                 P856  |-> {[snaktype |-> "somevalue", value |-> ""]},
                 P2048 |-> {Value([amount |-> "12", unit |-> "Q11573"])},
                 P18   |-> {}]]

\* Elements e1 to e3 stand forty metres from each other.
Place(element, sweep, tags, paths, entity, text, nearby) ==
    [element |-> element, site |-> element, sweep |-> sweep, tags |-> tags,
     entity |-> entity, text |-> text, nearby |-> nearby, language |-> "de",
     properties |-> [name |-> "Krone", categories |-> paths, osm_type |-> "n",
                     osm_id |-> element, sources |-> {"openstreetmap"},
                     wikidata |-> "none"]]

VersionsOf(e) ==
    {Place(e, "overpass",
           "amenity" :> "restaurant" @@ "name" :> "Krone" @@ "fee" :> "no",
           {}, {}, {}, <<>>),
     Place(e, "overpass",
           "fee" :> "yes" @@ "wheelchair" :> "limited" @@ "wikidata" :> "Q1"
             @@ "opening_hours" :> Hours("Sa-Mo 10-18; Su off",
                  <<[days |-> {<<5, 0>>}, time |-> "10-18"],
                    [days |-> {<<6, 6>>}, time |-> "off"]>>),
           {}, {Entity}, {"text"},
           <<File("facade", {"cc by"}), File("roof", {"cc-by", "-nc"})>>),
     Place(e, "geoapify", <<>>, {<<"catering", "restaurant", "pizza">>}, {}, {}, <<>>)}

Elements == <<"e1", "e2", "e3">>
MCVersions == UNION {VersionsOf(Elements[i]) : i \in DOMAIN Elements}

MCPlaceOf(id) == CHOOSE p \in DOMAIN Elements : Elements[p] = id
MCSeed(p) ==
    IF p = 3 THEN NoPoi ELSE [osm_id |-> Elements[p], wikidata_id |-> "none"]
MCSimilarity(a, b) == IF a # b THEN 0 ELSE IF a = "unnamed" THEN 60 ELSE 100
MCMetres(p, site) ==
    LET q == MCPlaceOf(site) IN IF p = 3 THEN Cards!Matcher!Unknown
                              ELSE 40 * (IF p < q THEN q - p ELSE p - q)

PriceDraft(kind, value, confidence, count) ==
    [attribute |-> "price", value |-> value, source_kind |-> kind, source_url |-> kind,
     confidence |-> confidence, corroboration_count |-> count,
     status |-> "active"]

MCDrafts ==
    {PriceDraft("official_site", "luxury", 90, 0),
     PriceDraft("web_review", "budget", 95, 0),
     PriceDraft("user_correction", "budget", 50, 2)}

Values == <<"ODbL 1.0", "no", "yes", "limited", "Sa-Mo 10-18; Su off", "24", "Q33506",
            "1901", "12", "text", "facade", "budget", "luxury">>
Attributes == <<"source_attribution", "fee", "wheelchair", "opening_hours_osm",
                "wikidata_sitelink_count", "instance_of", "inception", "height_m",
                "significance", "photo", "price">>
Kinds == <<"osm", "wikidata", "open_data", "official_site", "web_review",
           "user_correction">>
At(seq, x) == CHOOSE i \in DOMAIN seq : seq[i] = x
Urls == Elements \o <<"Q1", "facade", "official_site", "web_review", "user_correction">>
IdNumber(id) == id.poi + 100000 * At(Urls, id.source_url) + 10 * At(Kinds, id.source_kind)
                  + 100 * At(Values, id.value) + 10000 * At(Attributes, id.attribute)
MCIdBefore(a, b) == IdNumber(a) < IdNumber(b)

MCFolds == {<<[kept |-> 1, merged |-> 2, external_ids |-> MCSeed(1)]>>}

Symmetry == Permutations(Requests)

MCStayOf(p) == p
MCPoiOf(p) == p
MCAddedBy(p) == IF p = 1 THEN "u1" ELSE "u2"
MCKnown(p) == IF p = 1 THEN {} ELSE {{"vegan"}}

MCDefault == [interests |-> {}, anti_preferences |-> {}, hard_exclusions |-> {},
              dietary |-> {}, budget_tier |-> "moderate", mobility |-> "full"]
MCTastes ==
    {MCDefault,
     [MCDefault EXCEPT !.interests = {"RESTAURANT"}, !.budget_tier = "luxury",
                       !.dietary = {"vegan", "halal"}],
     [MCDefault EXCEPT !.hard_exclusions = {"RESTAURANT"}, !.mobility = "wheelchair",
                       !.anti_preferences = {"OTHER"}]}
=============================================================================
