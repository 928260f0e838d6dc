SPECIFICATION Spec
CONSTANTS
    VMs = {v1, v2}
    NoVM = NoVM
    NoRecord = NoRecord
    Policy = "on-failure"
    MaxRetries = 1
    Exits = {"ok", "failed"}
    MaxCrashes = 1
SYMMETRY Symm
INVARIANTS
    VMIsConsistent
    ExitIsNoticed
    OneOwnerButForRestarts
PROPERTIES
    SavedIsAdopted
CHECK_DEADLOCK FALSE
