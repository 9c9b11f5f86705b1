CONSTANTS
    Record = {}
    Preference = {}
    Lock = {}
    Shift = {h1, h2}
    Setting = {z}
    Value = {utc, paris, cet}
    Zone = {utc, paris}
    Fits <- MCFits
    Other = cet
    OtherZone = paris
    Absent = Absent
    MaxBatchDepth = 2
    MaxBatchCommands = 4
    ChunkLimit = 3
    InverseLimit = 2
    Command <- MCCommand
    Draft <- MCDraft
    Derived <- MCDerived
SPECIFICATION Spec
INVARIANTS ReplayIsExact
