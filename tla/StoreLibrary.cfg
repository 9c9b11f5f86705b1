CONSTANTS
    ScenarioId = {s1, s2}
    Client = {c}
    RunId = {}
    RequestId = {}
    StoreInstance = {}
    Preference = {p}
    Value = {v}
    Absent = Absent
    Data <- MCData
    Blank <- MCBlank
    Command <- MCCommand
    Irreversible = {}
    Admits <- MCAdmits
    Apply <- MCApply
    Inverse <- MCInverse
    NoRun = NoRun
    NoView = NoView
    Idle = Idle
    MaxRevision = 2
    ImportRevision = {1}
    SnapshotInterval = 1
SPECIFICATION Spec
INVARIANTS RevisionNamesOneDocument
SYMMETRY Symmetry
