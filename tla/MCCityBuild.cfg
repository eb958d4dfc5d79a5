SPECIFICATION FairSpec
CONSTANTS
    b1 = b1
    b2 = b2
    Builds = {b1, b2}
    Configured = {"GEOAPIFY_PLACES", "WIKIDATA", "WIKIPEDIA", "COMMONS"}
INVARIANTS
    BuildingIsOwned
    OutageKeepsCity
    NothingCutSilently
PROPERTIES
    KeepsLifecycle
    EveryBuildEnds
CHECK_DEADLOCK FALSE
