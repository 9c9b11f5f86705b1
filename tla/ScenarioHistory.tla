-------------------------- MODULE ScenarioHistory --------------------------
(***************************************************************************)
(* The store operations on scenarios and their history: create, duplicate, *)
(* delete, execute a command, undo, redo, and apply a staged import.       *)
(*                                                                         *)
(* A client first captures what it sees (a revision and a custody stamp)   *)
(* and calls an operation later, with any number of operations of other    *)
(* clients in between; the operation rechecks the capture inside its       *)
(* transaction.                                                            *)
(***************************************************************************)
EXTENDS ScenarioTables

\* capture_scenario_custody; a read-only transaction.
CaptureScenarioCustody(c, s) ==
    /\ s \in live
    /\ HistoryReadable(s)
    /\ view' = [view EXCEPT ![c] = Stamp(s)]
    /\ UNCHANGED <<scenarioVars, snapshots, retained, runVars, bound, named>>

\* library_snapshot: an import preview binds the library revision it saw.
LibrarySnapshot(c) ==
    /\ bound' = bound \cup {c}
    /\ UNCHANGED <<scenarioVars, snapshots, retained, runVars, view, named>>

\* increment_library_revision: every binding taken before is stale.
IncrementLibraryRevision == bound' = {}

-----------------------------------------------------------------------------
(***************************************************************************)
(* Rows of the scenarios and scenario_history_state tables.                *)
(***************************************************************************)
\* insert_project: a row with an empty history.
InsertProject(s, r, doc) ==
    /\ live' = live \cup {s}
    /\ revision' = [revision EXCEPT ![s] = r]
    /\ document' = [document EXCEPT ![s] = doc]
    /\ cursor' = [cursor EXCEPT ![s] = 0]
    /\ generation' = [generation EXCEPT ![s] = 0]
    /\ highWater' = [highWater EXCEPT ![s] = Raised(@, r)]
    /\ named' = named \cup {Row(s, r, doc)}

\* ensure_scenario_id_unseen; identities of deleted scenarios stay reserved.
\* Bug: only identities in use are refused.
UnseenIgnoringDeleted(s) == s \notin live

UnseenId(s) == highWater[s] = Unseen

CreateProject(s) ==
    /\ UnseenId(s)
    /\ InsertProject(s, 0, NewDocument(Blank, CreatedAt))
    /\ IncrementLibraryRevision
    /\ UNCHANGED <<selected, journal, snapshots, retained, runVars, view>>

\* duplicate_project: only the document is copied, under an unused identity.
DuplicateProject(c, s) ==
    /\ Fresh(c)
    /\ UnseenId(s)
    /\ InsertProject(s, 0, NewDocument(document[view[c].scenario].data, CreatedAt))
    /\ IncrementLibraryRevision
    /\ UNCHANGED <<selected, journal, snapshots, retained, runVars, view>>

\* open_project, archive_project, unarchive_project: the columns they write are
\* read by listings only.
OpenProject(s) ==
    /\ s \in live
    /\ IncrementLibraryRevision
    /\ UNCHANGED <<scenarioVars, snapshots, retained, runVars, view, named>>

ArchiveProject(c) ==
    /\ Fresh(c)
    /\ IncrementLibraryRevision
    /\ UNCHANGED <<scenarioVars, snapshots, retained, runVars, view, named>>

\* delete_project: the cascade removes every row that references the scenario.
\* Bug: finished runs survive their scenario.
CascadeUnfinishedRuns(s) ==
    [r \in RunId |-> IF runs[r] # NoRun /\ runs[r].scenario = s /\ runs[r].status = "running"
                     THEN NoRun ELSE runs[r]]

CascadeRuns(s) ==
    [r \in RunId |-> IF runs[r] # NoRun /\ runs[r].scenario = s THEN NoRun ELSE runs[r]]

DeleteProject(c) ==
    LET s    == view[c].scenario
        kept == CascadeRuns(s)
        left == {r \in solutions : kept[r] # NoRun}
        refs == {ref \in results : ref.scenario # s}
        rows == {row \in retained : row.scenario # s}
        deps == Dependencies(kept, left, refs)
    IN  /\ Fresh(c)
        /\ Available(rows, deps, CurrentRows(live \ {s}))
        /\ live' = live \ {s}
        /\ revision' = [revision EXCEPT ![s] = 0]
        /\ document' = [document EXCEPT ![s] = NewDocument(Blank, CreatedAt)]
        /\ selected' = [selected EXCEPT ![s] = NoRun]
        /\ cursor' = [cursor EXCEPT ![s] = 0]
        /\ generation' = [generation EXCEPT ![s] = 0]
        /\ journal' = [journal EXCEPT ![s] = {}]
        /\ highWater' = [highWater EXCEPT ![s] = Raised(@, revision[s])]
        /\ snapshots' = {row \in snapshots : row.scenario # s}
        /\ runs' = kept
        /\ solutions' = left
        /\ results' = refs
        /\ retained' = Synchronized(rows, deps, CurrentRows(live \ {s}))
        /\ IncrementLibraryRevision
        /\ UNCHANGED <<issued, view, named>>

-----------------------------------------------------------------------------
(***************************************************************************)
(* Commands, undo and redo.  Each creates a new revision; the revision     *)
(* being left is retained first if a run or a result needs it.             *)
(***************************************************************************)
WriteRevision(s, doc) ==
    /\ revision[s] < MaxRevision
    /\ revision' = [revision EXCEPT ![s] = @ + 1]
    /\ document' = [document EXCEPT ![s] = doc]
    /\ Coherent(RetainCurrent(s))
    /\ retained' = RetainCurrent(s)
    /\ highWater' = [highWater EXCEPT ![s] = Raised(@, revision[s] + 1)]
    /\ named' = named \cup {Row(s, revision[s] + 1, doc)}
    /\ IncrementLibraryRevision

\* A new command discards the redo branch, under RedoBranchPolicy::Truncate.
\* Bug: the discarded branch stays in the journal.
KeepRedoBranch(s) == journal[s]

TruncateRedoBranch(s) == {e \in journal[s] : e.sequence <= cursor[s]}

\* Bug: the branch generation goes down.
PreviousGeneration(s) == IF cursor[s] < MaxSequence(s) THEN generation[s] - 1 ELSE generation[s]

NextGeneration(s) == IF cursor[s] < MaxSequence(s) THEN generation[s] + 1 ELSE generation[s]

JournalEntry(s, command) ==
    [command    |-> command,
     inverse    |-> Inverse(command, document[s].data),
     reversible |-> command \notin Irreversible,
     before     |-> revision[s],
     after      |-> revision[s] + 1,
     sequence   |-> cursor[s] + 1,
     generation |-> NextGeneration(s),
     created    |-> revision[s] + 1]

\* maybe_snapshot.
PeriodicSnapshot(s, sequence, doc) ==
    IF sequence % SnapshotInterval = 0
    THEN snapshots \cup {Row(s, revision[s] + 1, doc)}
    ELSE snapshots

CommandAuthorized(c) == Fresh(c) /\ CustodyHeld(c)

ExecuteCommand(c, command, truncate) ==
    LET s   == view[c].scenario
        doc == NewDocument(Apply(command, document[s].data), revision[s] + 1)
    IN  /\ CommandAuthorized(c)
        /\ cursor[s] < MaxSequence(s) => truncate
        /\ Admits(command, document[s].data)
        /\ WriteRevision(s, doc)
        /\ journal' = [journal EXCEPT ![s] = TruncateRedoBranch(s) \cup {JournalEntry(s, command)}]
        /\ cursor' = [cursor EXCEPT ![s] = @ + 1]
        /\ generation' = [generation EXCEPT ![s] = NextGeneration(s)]
        /\ snapshots' = PeriodicSnapshot(s, cursor[s] + 1, doc)
        /\ UNCHANGED <<live, selected, runVars, view>>

\* Bug: a history move is not checked against the revision the client saw.
AnyRevision(c) == view[c] # NoView /\ view[c].scenario \in live

HistoryAuthorized(c) == Fresh(c)

\* Undo gives the document the time of the entry it steps back to.
UndoStamp(s) == IF cursor[s] = 1 THEN CreatedAt ELSE EntryAt(s, cursor[s] - 1).created

\* Bug: undo replays the command itself.
UndoWithCommand(s) == EntryAt(s, cursor[s]).command

UndoCommand(s) == EntryAt(s, cursor[s]).inverse

Undo(c) ==
    LET s == view[c].scenario
    IN  /\ HistoryAuthorized(c)
        /\ HistoryReadable(s)
        /\ cursor[s] > 0
        /\ EntryAt(s, cursor[s]).reversible
        /\ Admits(UndoCommand(s), document[s].data)
        /\ WriteRevision(s, NewDocument(Apply(UndoCommand(s), document[s].data), UndoStamp(s)))
        /\ cursor' = [cursor EXCEPT ![s] = @ - 1]
        /\ UNCHANGED <<live, selected, generation, journal, snapshots, runVars, view>>

Redo(c) ==
    LET s     == view[c].scenario
        entry == EntryAt(s, cursor[s] + 1)
    IN  /\ HistoryAuthorized(c)
        /\ HistoryReadable(s)
        /\ cursor[s] < MaxSequence(s)
        /\ Admits(entry.command, document[s].data)
        /\ WriteRevision(s, NewDocument(Apply(entry.command, document[s].data), entry.created))
        /\ cursor' = [cursor EXCEPT ![s] = @ + 1]
        /\ UNCHANGED <<live, selected, generation, journal, snapshots, runVars, view>>

-----------------------------------------------------------------------------
(***************************************************************************)
(* stage_import and apply_staged_library, for a bundle with one scenario   *)
(* and possibly a result computed from it.  The scenario keeps its source  *)
(* revision only if this library never got that far; otherwise it moves to *)
(* the next unused one, and the row the result was computed from comes     *)
(* along as staged history.                                                *)
(***************************************************************************)
\* same_identity_revision; the bound library revision makes the mark it was
\* computed from the current one.
TargetRevision(s, source) == IF source > highWater[s] THEN source ELSE highWater[s] + 1

\* validate_staged_scenario_revision_targets.
ExceedsHighWater(s, r) == r > highWater[s]

StagedResult(s, source, doc, withResult) == {row \in {Row(s, source, doc)} : withResult}

StagedRows(s, source, doc, withResult) ==
    {Row(s, TargetRevision(s, source), doc)} \cup StagedResult(s, source, doc, withResult)

StagedTarget(c, s, source) ==
    /\ c \in bound
    /\ TargetRevision(s, source) <= MaxRevision
    /\ ExceedsHighWater(s, TargetRevision(s, source))

\* Disposition Replace of a scenario that exists.
ImportReplace(c, s, source, doc, withResult) ==
    LET r    == TargetRevision(s, source)
        rows == RetainCurrent(s) \cup StagedRows(s, source, doc, withResult)
        refs == results \cup StagedResult(s, source, doc, withResult)
        deps == Dependencies(runs, solutions, refs)
        now  == CurrentRows(live \ {s}) \cup {Row(s, r, doc)}
    IN  /\ StagedTarget(c, s, source)
        /\ s \in live
        /\ Coherent(rows)
        /\ Available(rows, deps, now)
        /\ revision' = [revision EXCEPT ![s] = r]
        /\ document' = [document EXCEPT ![s] = doc]
        /\ journal' = [journal EXCEPT ![s] = {}]
        /\ cursor' = [cursor EXCEPT ![s] = 0]
        /\ generation' = [generation EXCEPT ![s] = 0]
        /\ highWater' = [highWater EXCEPT ![s] = Raised(@, r)]
        /\ named' = named \cup {Row(s, r, doc)}
        /\ results' = refs
        /\ retained' = Synchronized(rows, deps, now)
        /\ IncrementLibraryRevision
        /\ UNCHANGED <<live, selected, snapshots, runs, solutions, issued, view>>

\* Disposition Create: an identity not in use, possibly one deleted before.
ImportCreate(c, s, source, doc, withResult) ==
    LET r    == TargetRevision(s, source)
        rows == retained \cup StagedRows(s, source, doc, withResult)
        refs == results \cup StagedResult(s, source, doc, withResult)
        deps == Dependencies(runs, solutions, refs)
        now  == CurrentRows(live) \cup {Row(s, r, doc)}
    IN  /\ StagedTarget(c, s, source)
        /\ s \notin live
        /\ Coherent(rows)
        /\ Available(rows, deps, now)
        /\ InsertProject(s, r, doc)
        /\ results' = refs
        /\ retained' = Synchronized(rows, deps, now)
        /\ IncrementLibraryRevision
        /\ UNCHANGED <<selected, journal, snapshots, runs, solutions, issued, view>>

\* Mode ReplaceLibrary: every scenario, run, result and retained revision is
\* removed first; only the high-water marks survive.
MarksAfterReplace(s, r) ==
    [t \in ScenarioId |-> Raised(Raised(highWater[t], IF t \in live THEN revision[t] ELSE Unseen),
                                 IF t = s THEN r ELSE Unseen)]

ReplaceLibrary(c, s, source, doc, withResult) ==
    LET r == TargetRevision(s, source)
    IN  /\ StagedTarget(c, s, source)
        /\ live' = {s}
        /\ revision' = [t \in ScenarioId |-> IF t = s THEN r ELSE 0]
        /\ document' = [t \in ScenarioId |-> IF t = s THEN doc ELSE NewDocument(Blank, CreatedAt)]
        /\ selected' = [t \in ScenarioId |-> NoRun]
        /\ cursor' = [t \in ScenarioId |-> 0]
        /\ generation' = [t \in ScenarioId |-> 0]
        /\ journal' = [t \in ScenarioId |-> {}]
        /\ highWater' = MarksAfterReplace(s, r)
        /\ named' = named \cup {Row(s, r, doc)}
        /\ snapshots' = {}
        /\ runs' = [q \in RunId |-> NoRun]
        /\ solutions' = {}
        /\ results' = StagedResult(s, source, doc, withResult)
        /\ retained' = StagedResult(s, source, doc, withResult)
        /\ IncrementLibraryRevision
        /\ UNCHANGED <<issued, view>>

=============================================================================
