CONSTANTS
    ScenarioId = {s}
    Client = {c}
    RunId = {}
    RequestId = {}
    StoreInstance = {}
    Preference = {p}
    Value = {v}
    Absent = Absent
    Data <- MCData
    Blank <- MCBlank
    Command <- MCCommand
    Irreversible = {}
    Admits <- MCAdmits
    Apply <- MCApply
    Inverse <- MCInverse
    NoRun = NoRun
    NoView = NoView
    Idle = Idle
    MaxRevision = 3
    ImportRevision = {1}
    SnapshotInterval = 2
SPECIFICATION Spec
INVARIANTS UndoRestoresDocument
SYMMETRY Symmetry
