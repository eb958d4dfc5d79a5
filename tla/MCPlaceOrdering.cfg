\* Three rows and a fourth place to add; two requests at a time and three in all,
\* enough for two rebalances to overlap a move.  The system stops at MaxArrivals.
SPECIFICATION Spec
CONSTANTS
  Base = 4
  JitterDigits = {1}
  Threshold = 5
  Places = {p1, p2, p3, p4}
  Requests = {r1, r2}
  NoPlace = NoPlace
  ClientKeys <- Keys
  InitialKeys <- Front
  MaxArrivals = 3
SYMMETRY Symmetry
INVARIANTS TypeOK ListOrdered ChannelAgrees
PROPERTIES QuietOrderKept AppendIsLast
CHECK_DEADLOCK FALSE
