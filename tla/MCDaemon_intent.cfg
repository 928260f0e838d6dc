SPECIFICATION MCSpec
CONSTANTS
    Size = 8
    Owners = {a1, a2, a3}
    NoIP = NoIP
    Static = {5}
    Returned = {}
    Restarting = {}
    MaxTroubles = 1
    VMs = {f1, s1}
    Legacy = {f1}
    NoVM = NoVM
    Codes <- BoundaryCodes
    Policies = {"never", "always", "on-failure"}
    Limits = {0, 3}
    MaxCount = 60
    a1 = a1
    a2 = a2
    a3 = a3
    b1 = b1
    b2 = b2
    NoName = NoName
    NoEntry = NoEntry
    NoOp = NoOp
SYMMETRY Symm
CHECK_DEADLOCK FALSE
PROPERTIES
    RecoveryIsSafe
