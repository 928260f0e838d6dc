SPECIFICATION FairSpec
CONSTANTS
    VMs = {v1, v2}
    NoVM = NoVM
    NoRecord = NoRecord
    Policy = "on-failure"
    MaxRetries = 1
    Exits = {"failed"}
    MaxCrashes = 1
INVARIANTS
    ClaimsAreHeld
    ProcessIsManaged
PROPERTIES
    NothingStaysBusy
    StopPreventsRestart
CHECK_DEADLOCK FALSE
