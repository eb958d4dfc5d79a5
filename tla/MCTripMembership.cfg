\* Three users: an owner, a member who becomes the owner, and a bystander.
\* Two requests at a time, one invite.  The system may stop: when every account
\* is erased nobody is left to send a request.
SPECIFICATION Spec
CONSTANTS
  Users = {u1, u2, u3}
  Requests = {r1, r2}
  Codes = {c1}
  NoOne = NoOne
SYMMETRY Symmetry
INVARIANTS TypeOK OwnerRowIsNamed NoDanglingRows
PROPERTIES TransferIsWhole JoinOnlyRaises
CHECK_DEADLOCK FALSE
