SPECIFICATION FairTabSpec
CONSTANTS
    l1 = l1
    l2 = l2
    Reads = {l1, l2}
    MaxOutstanding = 2
INVARIANTS
    ChoiceAgrees
PROPERTIES
    LeftStaysLeft
    WaitsEnd
