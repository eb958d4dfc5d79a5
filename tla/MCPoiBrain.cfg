\* Three places, two transactions at a time and four in all.
SPECIFICATION Spec
CONSTANTS
  Pois = {p1, p2, p3}
  Requests = {r1, r2}
  NoPoi = NoPoi
  Observations = {1, 2}
  Provider <- ProviderOf
  Perishable = {2}
  MaxArrivals = 4
SYMMETRY Symmetry
INVARIANTS TypeOK NoChains JournalInStep UndoPeels CoordSettled
CHECK_DEADLOCK FALSE
