SPECIFICATION FairSpec
CONSTANTS
    Backends = 2
    Reliable = {1}
    Quality <- MCQuality
    Terminations = {"OptimalityClaimed", "InfeasibilityClaimed", "TimeLimit", "Cancelled", "Failed"}
    Limits <- MCLimits
    Variables = 1
    Deadline = 3
    TimerLead = 1
    AcceptanceReserve = 1
    BackendCap = 2
    CompletionReserve = 1
INVARIANTS
    SelectedIsRetained
    OptimalIsProved
    NeverWorseThanPreview
    FailureExcludesResult
    SharedAllowance
    TimeoutsExplained
    ReliableBackendAdmitted
PROPERTIES RoutingEnds
CHECK_DEADLOCK FALSE
