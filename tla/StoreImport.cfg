CONSTANTS
    ScenarioId = {s}
    Client = {c}
    RunId = {r}
    RequestId = {q}
    StoreInstance = {i1, i2}
    Preference = {p}
    Value = {v}
    Absent = Absent
    Data <- MCData
    Blank <- MCBlank
    Command <- MCCommand
    Irreversible = {}
    Admits <- MCAdmits
    Apply <- MCApply
    Inverse <- MCInverse
    NoRun = NoRun
    NoView = NoView
    Idle = Idle
    MaxRevision = 2
    ImportRevision = {1}
    SnapshotInterval = 1
SPECIFICATION FairSpec
INVARIANTS SourcesExact ResultsHaveAuthority
PROPERTIES EveryRunEnds
