\* The lockstep invariant as the comments state it, under two concurrent requests.
SPECIFICATION Spec
CONSTANTS
  Users = {u1, u2, u3}
  Requests = {r1, r2}
  Codes = {c1}
  NoOne = NoOne
SYMMETRY Symmetry
INVARIANT OwnerIsMember
CHECK_DEADLOCK FALSE
