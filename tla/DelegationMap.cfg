CONSTANTS
    h1 = h1
    h2 = h2
    h3 = h3
    ID = {h1, h2, h3}
    Root = h1
    Keys = 4
SPECIFICATION Spec
INVARIANTS
    Valid
    RangeQueryIsExact
PROPERTY ImplementsOwnerMap
