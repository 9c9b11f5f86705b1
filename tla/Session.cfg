SPECIFICATION FairSpec
CONSTANTS
    NoOutcome = NoOutcome
    EventsPerSecond = 2
    EventsPerSession = 2
    PipeCapacity = 2
    EmitIntermediate = TRUE
    RogueFrames <- AnyKind
    MaxRogueFrames = 5
    FramesPerSession = 5
    Deadline = 2
    BackendLimit = 2
    SearchLimit = 2
INVARIANTS
    ObedientWorkerAdmitted
    FirstSolutionDelivered
    EvidenceCorroborated
    ProcessGone
PROPERTIES
    SessionEnds
    KeepsContract
CHECK_DEADLOCK FALSE
