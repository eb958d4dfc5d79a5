SPECIFICATION Spec
CHECK_DEADLOCK FALSE
CONSTANTS
  Pois <- MCPois
  NoPoi = NoPoi
  PlaceOf <- MCPlaceOf
  Seed <- MCSeed
  Similarity <- MCSimilarity
  Metres <- MCMetres
  Versions <- MCVersions
  Drafts <- MCDrafts
  NoText = "none"
  Reviewers = {ann}
  Ratings = {2}
  MaxLag = 1
  StaleDays = 0
  IdBefore <- MCIdBefore
  MaxDay = 1
  MaxChanges = 2
  Folds <- MCFolds
  Users = {"u1", "u2", "u3"}
  Owner = "u1"
  Joined = {"u2"}
  Places = {1, 2}
  StayOf <- MCStayOf
  AddedBy <- MCAddedBy
  PoiOf <- MCPoiOf
  Tastes <- MCTastes
  Default <- MCDefault
  Requests = {r1, r2}
  Known <- MCKnown
  MaxOps = 3
  MaxSteps = 2
SYMMETRY Symmetry
INVARIANTS CardIsWhole NothingReplacedIsShown TallyAgrees RankingHears
