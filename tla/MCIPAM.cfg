SPECIFICATION Spec
CONSTANTS
    Size = 8
    NoIP = NoIP
    Owners = {v1, v2}
    Static = {0, 1, 5, 7}
    Returned = {1, 2}
SYMMETRY Symm
INVARIANTS
    AddressExclusive
    IntentIsSafe
    NoFalseExhaustion
PROPERTIES
    BroadcastIsLast
