SPECIFICATION PageSpec
CONSTANTS
    r1 = r1
    r2 = r2
    r3 = r3
    v = v
    w = w
    NoOne = NoOne
    Requests = {r1, r2, r3}
    Fields = {"mobility"}
    Required = {"mobility"}
    Values = {v, w}
    MaxVersions = 2
SYMMETRY Symmetry
INVARIANTS
    PageAgrees
PROPERTY Serial
