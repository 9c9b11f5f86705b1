--------------------------- MODULE MCScenarioStore ---------------------------
(***************************************************************************)
(* Instances of ScenarioStore whose command engine is the one of           *)
(* ScenarioCommand, with one preference record that is set or cleared.     *)
(***************************************************************************)
EXTENDS ScenarioStore, TLC

CONSTANTS Preference, Value, Absent

AnySpelling(v, z) == TRUE

Engine == INSTANCE ScenarioCommand WITH
    Record <- {}, Lock <- {}, Shift <- {}, Setting <- {}, Zone <- {}, Fits <- AnySpelling, MaxBatchDepth <- 1, MaxBatchCommands <- 1,
    ChunkLimit <- 1, InverseLimit <- 1

MCData == Engine!Document
MCBlank == [k \in Preference |-> Absent]
MCCommand == Engine!Leaf
MCClear == {c \in MCCommand : c.value = Absent}
MCAdmits(c, d) == Engine!ApplyCommand(d, c).ok
MCApply(c, d) == Engine!ApplyCommand(d, c).document
MCInverse(c, d) == Engine!ApplyCommand(d, c).inverse

\* Clients, run identities with their requests, store instances, scenarios and
\* values are interchangeable.
Symmetry ==
    Permutations(Client) \cup Permutations(RunId) \cup Permutations(RequestId)
        \cup Permutations(StoreInstance) \cup Permutations(ScenarioId)
        \cup Permutations(Value)

=============================================================================
