SPECIFICATION Spec
CONSTANTS
    NoOutcome = NoOutcome
    EventsPerSecond = 2
    EventsPerSession = 3
    PipeCapacity = 2
    EmitIntermediate = TRUE
    RogueFrames <- NoFrames
    MaxRogueFrames = 0
    FramesPerSession = 6
    Deadline = 4
    BackendLimit = 3
    SearchLimit = 3
INVARIANTS
    RateKeptByWriterAdmitted
CHECK_DEADLOCK FALSE
