--------------------------- MODULE ScenarioTables ---------------------------
(***************************************************************************)
(* The SQLite tables of crates/eutheto-store that hold scenarios, their    *)
(* command history, the solve runs started from them and the scenario      *)
(* revisions those runs and their results still need, with the helpers     *)
(* every transaction is built from.                                        *)
(*                                                                         *)
(* A table is a function on identities or a set of rows.  Every store      *)
(* operation is one SQLite IMMEDIATE transaction executed by the process'  *)
(* single store thread, hence one atomic action here; an operation that    *)
(* fails at any check rolls back and leaves every table as it was, which   *)
(* is why a refused operation is an action that is not enabled.            *)
(***************************************************************************)
EXTENDS Integers, FiniteSets

CONSTANTS
    ScenarioId,         \* identities a scenario may have
    Client,             \* application services, of one or several processes
    RunId,              \* identities a solve run may have
    RequestId,          \* caller-stable identities of solve requests
    Data,               \* scenario content
    Blank,              \* the content of a new scenario
    Command,            \* commands, the generated inverses included
    Irreversible,       \* commands journalled without an inverse
    Admits(_, _),       \* Admits(c, d): the command engine accepts c on content d
    Apply(_, _),        \* the content it produces
    Inverse(_, _),      \* the inverse it generates
    NoRun,              \* "no such run"
    NoView,             \* "nothing captured yet"
    MaxRevision,        \* Revision::MAX
    ImportRevision,     \* source revisions of the scenarios in imported bundles
    SnapshotInterval    \* SnapshotPolicy::interval

(***************************************************************************)
(* What the store relies on in the command engine: a generated inverse is  *)
(* accepted on the content its command produced and restores the content   *)
(* the command started from.  CommandReplayProofs proves it of the engine. *)
(***************************************************************************)
ASSUME EngineAssumption ==
    \A c \in Command, d \in Data :
        Admits(c, d) =>
            /\ Apply(c, d) \in Data
            /\ Inverse(c, d) \in Command
            /\ Admits(Inverse(c, d), Apply(c, d))
            /\ Apply(Inverse(c, d), Apply(c, d)) = d

ASSUME TableAssumption ==
    /\ Blank \in Data
    /\ Irreversible \subseteq Command
    /\ NoRun \notin RunId
    /\ MaxRevision \in Nat
    /\ ImportRevision \subseteq Nat
    /\ SnapshotInterval \in Nat \ {0}

VARIABLES
    \* scenarios, scenario_history_state
    live,           \* identities with a row in the scenarios table
    revision,       \* scenarios.revision
    document,       \* scenarios.document_json
    selected,       \* scenarios.selected_solution_id
    cursor,         \* scenario_history_state.cursor_sequence
    generation,     \* scenario_history_state.branch_generation
    \* other tables
    journal,        \* command_journal: the set of rows of each scenario
    highWater,      \* scenario_revision_high_water, Unseen where there is no row
    snapshots,      \* scenario_snapshots
    retained,       \* retained_scenario_revisions
    results,        \* portable_sections: imported results, as the row each was computed from
    runs,           \* solve_runs with their checkpoint and infeasibility evidence
    solutions,      \* accepted, verified solutions, by the run that found them
    issued,         \* run identities handed out; a UUID is never drawn twice
    \* outside the database
    view,           \* what each client last captured
    bound,          \* clients whose library revision is still the stored one
    \* history variable
    named           \* every row that was ever current

scenarioVars == <<live, revision, document, selected, cursor, generation, journal, highWater>>
runVars == <<runs, solutions, issued, results>>
tables == <<scenarioVars, snapshots, retained, runVars, view, bound, named>>

Unseen == -1

\* Timestamps: a command stamps the document with the time it was applied, and
\* that time is represented by the revision it created.
CreatedAt == 0

NewDocument(data, updated) == [data |-> data, updated |-> updated]

Row(s, r, d) == [scenario |-> s, revision |-> r, document |-> d]

Reference(s, r) == [scenario |-> s, revision |-> r]

CurrentRow(s) == Row(s, revision[s], document[s])

-----------------------------------------------------------------------------
(***************************************************************************)
(* History.                                                                *)
(***************************************************************************)
JournalSequences(s) == {e.sequence : e \in journal[s]}

MaxSequence(s) ==
    CHOOSE n \in {0} \cup JournalSequences(s) : \A m \in JournalSequences(s) : m <= n

EntryAt(s, n) == CHOOSE e \in journal[s] : e.sequence = n

\* history_page_availability and validate_applied_history_prefix: the checks
\* that turn a damaged history into an integrity error.
ExactlyOne(s, n) ==
    /\ \E e \in journal[s] : e.sequence = n
    /\ \A e, f \in journal[s] : e.sequence = n /\ f.sequence = n => e = f

HistoryAvailable(s) ==
    LET max == MaxSequence(s)
    IN  /\ max > 0 => ExactlyOne(s, max) /\ EntryAt(s, max).generation = generation[s]
        /\ 0 \notin JournalSequences(s)
        /\ cursor[s] > 0 => ExactlyOne(s, cursor[s])
        /\ IF cursor[s] < max
           THEN ExactlyOne(s, cursor[s] + 1)
           ELSE cursor[s] + 1 \notin JournalSequences(s)

AppliedPrefixRetained(s) ==
    /\ \A n \in 1 .. cursor[s] : ExactlyOne(s, n)
    /\ \A n \in JournalSequences(s) : n <= cursor[s] => n >= 1

HistoryReadable(s) == HistoryAvailable(s) /\ AppliedPrefixRetained(s)

-----------------------------------------------------------------------------
(***************************************************************************)
(* Retention.  A result, an unfinished run and a run with infeasibility    *)
(* evidence need the exact revision they were computed from.               *)
(***************************************************************************)
RunReference(run) == Reference(run.scenario, run.revision)

Named(row) == Reference(row.scenario, row.revision)

Dependencies(rs, sols, res) ==
    {Named(row) : row \in res} \cup {RunReference(rs[r]) : r \in {q \in RunId :
                  /\ rs[q] # NoRun
                  /\ q \in sols \/ rs[q].status = "running" \/ rs[q].evidence}}

\* insert_retained_scenario_revision refuses content that differs from the row
\* already retained for the same revision.
\* Bug: the content is not compared.
AnyContent(rows) == TRUE

Coherent(rows) == \A a, b \in rows : Named(a) = Named(b) => a = b

\* retain_current_project_revision_if_required, before a revision is left.
MustRetain(s) == Reference(s, revision[s]) \in Dependencies(runs, solutions, results)

\* Bug: leaving a revision retains nothing.
RetainNothing(s) == retained

RetainCurrent(s) == IF MustRetain(s) THEN retained \cup {CurrentRow(s)} ELSE retained

\* synchronize_retained_scenario_revisions keeps the rows something depends on,
\* adds the current row of each dependency that has none, and fails when a
\* dependency is neither retained nor current.
\* Bug: rows nothing depends on any more are kept.
SynchronizedWithoutRelease(rows, dependencies, current) ==
    rows \cup {row \in current : /\ Named(row) \in dependencies
                              /\ \A old \in rows : Named(old) # Named(row)}

Synchronized(rows, dependencies, current) ==
    {row \in rows : Named(row) \in dependencies}
        \cup {row \in current : /\ Named(row) \in dependencies
                              /\ \A old \in rows : Named(old) # Named(row)}

Available(rows, dependencies, current) ==
    \A dep \in dependencies : \E row \in rows \cup current : Named(row) = dep

CurrentRows(ids) == {CurrentRow(s) : s \in ids}

-----------------------------------------------------------------------------
(***************************************************************************)
(* Checks on what a client captured earlier.                               *)
(***************************************************************************)
\* ensure_revision.
Fresh(c) ==
    /\ view[c] # NoView
    /\ view[c].scenario \in live
    /\ view[c].revision = revision[view[c].scenario]

Stamp(s) ==
    [scenario |-> s, revision |-> revision[s], document |-> document[s],
     cursor |-> cursor[s], generation |-> generation[s]]

\* recheck_custody_stamp.
CustodyHeld(c) ==
    /\ view[c] = Stamp(view[c].scenario)
    /\ HistoryReadable(view[c].scenario)

\* record_scenario_revision_high_water.
Raised(mark, r) == IF r > mark THEN r ELSE mark

=============================================================================
