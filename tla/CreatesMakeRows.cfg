SPECIFICATION Spec
CONSTANTS
    c1 = c1
    c2 = c2
    c3 = c3
    n1 = n1
    n2 = n2
    Calls <- MCCalls
    Names <- MCNames
    SeedOrder <- MCSeedOrder
SYMMETRY Interchangeable
CHECK_DEADLOCK FALSE
INVARIANT
    CreatesMakeRows
