CONSTANTS
    ScenarioId = {s}
    Client = {c}
    RunId = {r1, r2}
    RequestId = {q1, q2}
    StoreInstance = {i1, i2}
    Preference = {p}
    Value = {v}
    Absent = Absent
    Data <- MCData
    Blank <- MCBlank
    Command <- MCCommand
    Irreversible = {}
    Admits <- MCAdmits
    Apply <- MCApply
    Inverse <- MCInverse
    NoRun = NoRun
    NoView = NoView
    Idle = Idle
    MaxRevision = 2
    ImportRevision = {}
    SnapshotInterval = 2
SPECIFICATION Spec
INVARIANTS RevisionsAvailable RetentionMinimal
PROPERTIES TerminalOnce RecoveryNeverPreempts
SYMMETRY Symmetry
