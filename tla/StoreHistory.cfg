CONSTANTS
    ScenarioId = {s}
    Client = {c1, c2}
    RunId = {}
    RequestId = {}
    StoreInstance = {}
    Preference = {p}
    Value = {v1, v2}
    Absent = Absent
    Data <- MCData
    Blank <- MCBlank
    Command <- MCCommand
    Irreversible <- MCClear
    Admits <- MCAdmits
    Apply <- MCApply
    Inverse <- MCInverse
    NoRun = NoRun
    NoView = NoView
    Idle = Idle
    MaxRevision = 6
    ImportRevision = {}
    SnapshotInterval = 2
SPECIFICATION Spec
INVARIANTS TypeOK HistoryIntact HistoryReplays
PROPERTIES EditsSeenState
SYMMETRY Symmetry
