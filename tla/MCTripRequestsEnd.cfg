\* Liveness on two users, without symmetry (it is unsound for liveness).
SPECIFICATION FairSpec
CONSTANTS
  Users = {u1, u2}
  Requests = {r1, r2}
  Codes = {c1}
  NoOne = NoOne
PROPERTY EveryRequestEnds
CHECK_DEADLOCK FALSE
