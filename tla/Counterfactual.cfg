CONSTANTS
    Process = {p1, p2}
    Job = {j}
    Budget = 2
    Grace = 1
    MaxActive = 1
    LastStart = 0
    MaxTime = 3
    None = None
SPECIFICATION FairSpec
INVARIANTS NeverLeftRunning ProofStands
PROPERTIES KeepsPromise CompletionBeforeRecovery EveryJobEnds
