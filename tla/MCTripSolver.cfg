CONSTANTS
    Pois = {1, 2, 3, 4}
    Days = {0, 1}
    None = None
    Hotel = Hotel
    Station = Station
    Delays = {0, 25}
    Requests <- MCRequests
SPECIFICATION Spec
INVARIANTS GreedyIsFeasible RoutedPassesGate
PROPERTIES EveryRequestAnswered
CHECK_DEADLOCK FALSE
