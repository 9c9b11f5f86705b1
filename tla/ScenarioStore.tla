--------------------------- MODULE ScenarioStore ---------------------------
(***************************************************************************)
(* The scenario store of Eutheto: several application services, in one or  *)
(* more processes, edit scenarios, move through their history, import,     *)
(* delete, and run solves whose results stay bound to the revision they    *)
(* were computed from.                                                     *)
(***************************************************************************)
EXTENDS ScenarioHistory, SolveRuns

vars == <<tables, recovery>>

\* An imported document may have been changed since it was created.
ImportStamp(source) == {CreatedAt, source}

Init ==
    /\ live = {}
    /\ revision = [s \in ScenarioId |-> 0]
    /\ document = [s \in ScenarioId |-> NewDocument(Blank, CreatedAt)]
    /\ selected = [s \in ScenarioId |-> NoRun]
    /\ cursor = [s \in ScenarioId |-> 0]
    /\ generation = [s \in ScenarioId |-> 0]
    /\ journal = [s \in ScenarioId |-> {}]
    /\ highWater = [s \in ScenarioId |-> Unseen]
    /\ snapshots = {}
    /\ retained = {}
    /\ results = {}
    /\ runs = [r \in RunId |-> NoRun]
    /\ solutions = {}
    /\ issued = {}
    /\ view = [c \in Client |-> NoView]
    /\ bound = {}
    /\ named = {}
    /\ recovery = [p \in StoreInstance |-> NotRecovering]

\* What a client does with a scenario it captured.
Edit(c) ==
    \/ \E command \in Command, truncate \in BOOLEAN : ExecuteCommand(c, command, truncate)
    \/ Undo(c)
    \/ Redo(c)

Import(c, s) ==
    \E source \in ImportRevision, data \in Data, withResult \in BOOLEAN :
        \E updated \in ImportStamp(source) :
            \/ ImportReplace(c, s, source, NewDocument(data, updated), withResult)
            \/ ImportCreate(c, s, source, NewDocument(data, updated), withResult)
            \/ ReplaceLibrary(c, s, source, NewDocument(data, updated), withResult)

HistoryNext ==
    \/ \E c \in Client, s \in ScenarioId :
           CaptureScenarioCustody(c, s) \/ DuplicateProject(c, s) \/ Import(c, s)
    \/ \E c \in Client : LibrarySnapshot(c) \/ ArchiveProject(c) \/ DeleteProject(c) \/ Edit(c)
    \/ \E s \in ScenarioId : CreateProject(s) \/ OpenProject(s)

RunNext ==
    \/ \E c \in Client, r \in RunId :
           \/ \E q \in RequestId : StartSolveRun(c, q, r)
           \/ SelectAcceptedResult(c, r)
    \/ \E r \in RunId :
           \/ Elapse(r)
           \/ SaveVerifiedCheckpoint(r)
           \/ FinalizeAcceptedRun(r)
           \/ FinalizeQuarantinedRun(r)
           \/ \E outcome \in Terminal, evidence \in BOOLEAN : FinalizeTerminalRun(r, outcome, evidence)

RecoveryStep(p) ==
    \/ BeginRecovery(p)
    \/ \E r \in RunId : CheckCandidate(p, r)
    \/ InterruptCandidate(p)
    \/ LoseCandidate(p)
    \/ EndRecovery(p)

Next ==
    \/ HistoryNext /\ UNCHANGED recovery
    \/ RunNext
    \/ \E p \in StoreInstance : RecoveryStep(p)

Spec == Init /\ [][Next]_vars

(***************************************************************************)
(* Wall-clock time passes, and a store instance that is open keeps being   *)
(* asked for runs, which is when it recovers expired ones.  Nothing is     *)
(* assumed of the clients or of the solver that owns a run.                *)
(***************************************************************************)
Fairness ==
    /\ \A r \in RunId : WF_vars(Elapse(r))
    /\ \A p \in StoreInstance : WF_vars(RecoveryStep(p))

FairSpec == Spec /\ Fairness

-----------------------------------------------------------------------------
(***************************************************************************)
(* Types.                                                                  *)
(***************************************************************************)
Documents == [data : Data, updated : Nat]

Rows == [scenario : ScenarioId, revision : Nat, document : Documents]

Views == [scenario : ScenarioId, revision : Nat, document : Documents,
          cursor : Nat, generation : Nat]

Entries == [command : Command, inverse : Command, reversible : BOOLEAN, before : Nat,
            after : Nat, sequence : Nat, generation : Nat, created : Nat]

Run == [request : RequestId, scenario : ScenarioId, revision : Nat, document : Documents,
        status : {"running"} \cup Terminal, time : {"solving", "grace", "expired"},
        checkpoint : BOOLEAN, evidence : BOOLEAN]

\* "No such run" is not a row of the table.
ASSUME RunAssumption == NoRun \notin Run

(***************************************************************************)
(* Every table and every captured value has the shape the store reads it   *)
(* back with; in particular no sequence, cursor or revision is negative.   *)
(***************************************************************************)
TypeOK ==
    /\ live \subseteq ScenarioId
    /\ revision \in [ScenarioId -> Nat]
    /\ document \in [ScenarioId -> Documents]
    /\ selected \in [ScenarioId -> RunId \cup {NoRun}]
    /\ cursor \in [ScenarioId -> Nat]
    /\ generation \in [ScenarioId -> Nat]
    /\ journal \in [ScenarioId -> SUBSET Entries]
    /\ highWater \in [ScenarioId -> Nat \cup {Unseen}]
    /\ snapshots \subseteq Rows
    /\ retained \subseteq Rows
    /\ results \subseteq Rows
    /\ runs \in [RunId -> Run \cup {NoRun}]
    /\ solutions \subseteq RunId
    /\ issued \subseteq RunId
    /\ view \in [Client -> Views \cup {NoView}]
    /\ bound \subseteq Client
    /\ named \subseteq Rows
    /\ recovery \in [StoreInstance -> [pass : {"none", "active", "failed"},
                                       pending : SUBSET RunId, checked : RunId \cup {Idle}]]

-----------------------------------------------------------------------------
(***************************************************************************)
(* Revisions.                                                              *)
(***************************************************************************)
(***************************************************************************)
(* A revision of a scenario that was ever current in this library names    *)
(* one document for ever: the number is not given out again after an undo, *)
(* after the scenario was deleted, or by an import under the identity of a *)
(* deleted scenario.  Solves and captured views refer to a document by     *)
(* scenario and revision.                                                  *)
(***************************************************************************)
RevisionNamesOneDocument ==
    \A a, b \in named : Named(a) = Named(b) => a = b

\* The scenario's state before an edit is one that some client had captured.
EditSeen ==
    \A s \in live \cap live' :
        revision'[s] # revision[s] /\ journal'[s] # {} => \E c \in Client : view[c] = Stamp(s)

(***************************************************************************)
(* A command, undo or redo changes a scenario only when some client had    *)
(* captured exactly the state it replaces: the document, the history       *)
(* position and the branch.  undo and redo compare the revision alone, so  *)
(* this says that a revision identifies all of these, across deletion,     *)
(* re-creation and import.                                                 *)
(***************************************************************************)
EditsSeenState == [][EditSeen]_vars

-----------------------------------------------------------------------------
(***************************************************************************)
(* History.                                                                *)
(***************************************************************************)
(***************************************************************************)
(* No sequence of operations makes the store report its own history as     *)
(* damaged: the sequences are 1..n without a gap, the last entry is of the *)
(* current branch, and every row passes parse_history_summary_row.         *)
(***************************************************************************)
HistoryIntact ==
    \A s \in live :
        /\ HistoryReadable(s)
        /\ JournalSequences(s) = 1 .. MaxSequence(s)
        /\ \A e \in journal[s] :
               /\ e.sequence <= e.after
               /\ e.generation <= generation[s]
               /\ e.before < e.after
               /\ e.after <= revision[s]

DocumentsNamed(s, r) == {row.document : row \in {n \in named : Named(n) = Reference(s, r)}}

(***************************************************************************)
(* Every journal entry still leads from the document of its before-        *)
(* revision to the document of its after-revision, consecutive entries     *)
(* meet in the same document, and the current document is the one the      *)
(* cursor points at, whatever mixture of commands, undos, redos and        *)
(* discarded branches came before.                                         *)
(***************************************************************************)
HistoryReplays ==
    \A s \in live : \A e \in journal[s] :
        /\ \A before \in DocumentsNamed(s, e.before), after \in DocumentsNamed(s, e.after) :
               /\ Admits(e.command, before.data)
               /\ Apply(e.command, before.data) = after.data
               /\ e.inverse = Inverse(e.command, before.data)
               /\ e.sequence = cursor[s] => document[s] = after
               /\ e.sequence = cursor[s] + 1 => document[s].data = before.data
        /\ \A f \in journal[s] :
               f.sequence = e.sequence + 1 =>
                   DocumentsNamed(s, e.after) = DocumentsNamed(s, f.before)

-----------------------------------------------------------------------------
(***************************************************************************)
(* Retention.                                                              *)
(***************************************************************************)
(***************************************************************************)
(* The exact revision of every unfinished run, of every accepted or        *)
(* imported result and of every infeasibility proof can be read back,      *)
(* however often the scenario has been edited, undone or replaced since.   *)
(***************************************************************************)
RevisionsAvailable ==
    Available(retained, Dependencies(runs, solutions, results), CurrentRows(live))

(***************************************************************************)
(* What is read back is what was solved: the row a running or accepted     *)
(* run, an infeasibility proof or an imported result refers to holds the   *)
(* document it was computed from.  Two libraries that edited copies of a   *)
(* scenario give the same revision to different documents, so an import    *)
(* must not put the other library's row in the place of a needed one.      *)
(***************************************************************************)
SourcesExact ==
    \A row \in retained \cup CurrentRows(live) :
        /\ \A r \in RunId :
               runs[r] # NoRun /\ (r \in solutions \/ runs[r].status = "running" \/ runs[r].evidence)
                   /\ Named(row) = RunReference(runs[r]) => row.document = runs[r].document
        /\ \A res \in results : Named(row) = Named(res) => row = res

(***************************************************************************)
(* A revision is not kept once the last run or result that needed it has   *)
(* ended without a result or was deleted with its scenario.                *)
(***************************************************************************)
RetentionMinimal ==
    \A row \in retained : Named(row) \in Dependencies(runs, solutions, results)

-----------------------------------------------------------------------------
(***************************************************************************)
(* Runs.                                                                   *)
(***************************************************************************)
OutcomeKept ==
    \A r \in RunId :
        runs[r] # NoRun /\ runs[r].status \in Terminal => runs'[r] \in {runs[r], NoRun}

(***************************************************************************)
(* The outcome of a run never changes: solver owner and the recovery       *)
(* passes of several store instances may all try to finish it, and one     *)
(* does.  A finished run can only disappear, with its scenario.            *)
(***************************************************************************)
TerminalOnce == [][OutcomeKept]_vars

(***************************************************************************)
(* Exactly the accepted runs have a solution, a scenario selects only an   *)
(* accepted result of its own, a quarantined run keeps no checkpoint, and  *)
(* no run outlives its scenario.                                           *)
(***************************************************************************)
ResultsHaveAuthority ==
    /\ solutions = {r \in RunId : runs[r] # NoRun /\ runs[r].status = "accepted"}
    /\ \A r \in RunId : runs[r] # NoRun =>
           /\ runs[r].scenario \in live
           /\ runs[r].status = "quarantined" => ~runs[r].checkpoint
           /\ runs[r].evidence => runs[r].status = "no_result"
    /\ \A s \in ScenarioId : selected[s] # NoRun =>
           selected[s] \in solutions /\ runs[selected[s]].scenario = s

OwnerKeepsRun ==
    \A r \in RunId :
        Unfinished(r) /\ BeforeCutoff(r) /\ recovery' # recovery => runs'[r] = runs[r]

(***************************************************************************)
(* Recovery by another instance does not take a run away from an owner     *)
(* that could still finalize it as accepted.                               *)
(***************************************************************************)
RecoveryNeverPreempts == [][OwnerKeepsRun]_vars

(***************************************************************************)
(* Every run that was started ends, also when the process that solves it   *)
(* dies and although recovery passes of several instances disturb each     *)
(* other.                                                                  *)
(***************************************************************************)
EveryRunEnds == \A r \in RunId : Unfinished(r) ~> ~Unfinished(r)

-----------------------------------------------------------------------------
(***************************************************************************)
(* Statements of the repository that the code does not keep.               *)
(***************************************************************************)
(***************************************************************************)
(* A command followed by its undo restores the document exactly, the       *)
(* updated_at timestamp included, which is part of its canonical hash.     *)
(***************************************************************************)
UndoRestoresDocument ==
    \A s \in live : \A e \in journal[s] :
        e.sequence = cursor[s] + 1 => document[s] \in DocumentsNamed(s, e.before)

=============================================================================
