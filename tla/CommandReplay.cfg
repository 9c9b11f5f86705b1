CONSTANTS
    Record = {r}
    Preference = {p}
    Lock = {l}
    Shift = {}
    Setting = {}
    Value = {v1, v2}
    Zone = {}
    Fits <- MCFits
    Other = v1
    OtherZone = v2
    Absent = Absent
    MaxBatchDepth = 2
    MaxBatchCommands = 4
    ChunkLimit = 3
    InverseLimit = 2
    Command <- MCCommand
    Draft <- MCDraft
    Derived <- MCDerived
SPECIFICATION Spec
INVARIANTS ReplayIsExact ReplayNeverRefused
