----------------------------- MODULE SolveRuns -----------------------------
(***************************************************************************)
(* The store operations on solve runs: a run is started from the revision  *)
(* a client captured, may save a verified checkpoint, and is finalized     *)
(* exactly once.  A run whose owner died is finalized by crash recovery,   *)
(* which every store instance performs when it opens the database and when *)
(* it looks runs up.                                                       *)
(*                                                                         *)
(* Time is kept per run: until its deadline it is "solving", during the    *)
(* terminal-persistence grace interval "grace", then "expired".            *)
(***************************************************************************)
EXTENDS ScenarioTables

CONSTANT
    StoreInstance,      \* store instances that perform recovery
    Idle            \* an instance that is not handling a run

VARIABLE recovery   \* the state of each instance's recovery pass

NotRecovering == [pass |-> "none", pending |-> {}, checked |-> Idle]

Terminal == {"accepted", "quarantined", "no_result", "interrupted"}

-----------------------------------------------------------------------------
\* start_solve_run for a request that has no run yet; a repeated request is
\* answered with its existing run and writes nothing.
RequestUnused(q) == \A r \in RunId : runs[r] # NoRun => runs[r].request # q

\* ensure_solve_snapshot: an existing snapshot of the revision must agree.
SnapshotAgrees(s) == \A row \in snapshots : Named(row) = Named(CurrentRow(s)) => row = CurrentRow(s)

StartSolveRun(c, q, r) ==
    LET s == view[c].scenario
    IN  /\ RequestUnused(q)
        /\ Fresh(c)
        /\ CustodyHeld(c)
        /\ r \notin issued
        /\ issued' = issued \cup {r}
        /\ SnapshotAgrees(s)
        /\ snapshots' = snapshots \cup {CurrentRow(s)}
        /\ runs' = [runs EXCEPT ![r] =
                       [request |-> q, scenario |-> s, revision |-> revision[s],
                        document |-> document[s], status |-> "running", time |-> "solving",
                        checkpoint |-> FALSE, evidence |-> FALSE]]
        /\ UNCHANGED <<scenarioVars, retained, solutions, results, view, bound, named, recovery>>

\* The wall clock passes the solve deadline, then the recovery deadline.
Elapse(r) ==
    /\ runs[r] # NoRun
    /\ runs[r].status = "running"
    /\ runs[r].time # "expired"
    /\ runs' = [runs EXCEPT ![r].time = IF @ = "solving" THEN "grace" ELSE "expired"]
    /\ UNCHANGED <<scenarioVars, snapshots, retained, solutions, issued, results, view, bound, named, recovery>>

\* save_verified_checkpoint: idempotent, and only for an unfinished run.
SaveVerifiedCheckpoint(r) ==
    /\ runs[r] # NoRun
    /\ runs[r].status = "running"
    /\ runs' = [runs EXCEPT ![r].checkpoint = TRUE]
    /\ UNCHANGED <<scenarioVars, snapshots, retained, solutions, issued, results, view, bound, named, recovery>>

-----------------------------------------------------------------------------
(***************************************************************************)
(* Finalization.  validate_terminal_manifest admits only a running run.    *)
(***************************************************************************)
\* Bug: a terminal run can be finalized again.
AnyRun(r) == runs[r] # NoRun

Unfinished(r) == runs[r] # NoRun /\ runs[r].status = "running"

BeforeCutoff(r) == runs[r].time # "expired"

FinalizeAcceptedRun(r) ==
    /\ Unfinished(r)
    /\ BeforeCutoff(r)
    /\ solutions' = solutions \cup {r}
    /\ runs' = [runs EXCEPT ![r].status = "accepted"]
    /\ bound' = {}
    /\ UNCHANGED <<scenarioVars, snapshots, retained, issued, results, view, named, recovery>>

\* The other outcomes release the scenario revision unless evidence needs it.
ReleaseRevisions(finished) ==
    LET deps == Dependencies(finished, solutions, results)
    IN  /\ Available(retained, deps, CurrentRows(live))
        /\ retained' = Synchronized(retained, deps, CurrentRows(live))

FinalizeQuarantinedRun(r) ==
    /\ Unfinished(r)
    /\ runs' = [runs EXCEPT ![r].status = "quarantined", ![r].checkpoint = FALSE]
    /\ ReleaseRevisions(runs')
    /\ UNCHANGED <<scenarioVars, snapshots, solutions, issued, results, view, bound, named, recovery>>

\* finalize_terminal_run_in_transaction: evidence only for an infeasible result.
Terminated(r, outcome, evidence) ==
    /\ evidence => outcome = "no_result"
    /\ runs' = [runs EXCEPT ![r].status = outcome, ![r].evidence = evidence]
    /\ ReleaseRevisions(runs')

FinalizeTerminalRun(r, outcome, evidence) ==
    /\ outcome \in {"no_result", "interrupted"}
    /\ Unfinished(r)
    /\ Terminated(r, outcome, evidence)
    /\ UNCHANGED <<scenarioVars, snapshots, solutions, issued, results, view, bound, named, recovery>>

\* select_accepted_result; an older accepted result may be selected.
SelectAcceptedResult(c, r) ==
    /\ Fresh(c)
    /\ r \in solutions
    /\ runs[r].scenario = view[c].scenario
    /\ selected' = [selected EXCEPT ![view[c].scenario] = r]
    /\ UNCHANGED <<live, revision, document, cursor, generation, journal, highWater,
                   snapshots, retained, runVars, view, bound, named, recovery>>

-----------------------------------------------------------------------------
(***************************************************************************)
(* recover_running_v2_runs.  The candidates and the record of each         *)
(* candidate are read outside any transaction; the write that follows      *)
(* checks again, and a run somebody else finished in between makes the     *)
(* whole pass, and the open or lookup it is part of, fail.                 *)
(***************************************************************************)
\* Bug: a run is taken over as soon as its own deadline has passed.
PastDeadline(r) == runs[r].time # "solving"

\* Bug: a run that saved a checkpoint is left alone.
PastDeadlineWithoutCheckpoint(r) == runs[r].time = "expired" /\ ~runs[r].checkpoint

PastRecoveryDeadline(r) == runs[r].time = "expired"

BeginRecovery(p) ==
    /\ recovery[p].pass = "none"
    /\ \E r \in RunId : Unfinished(r) /\ PastRecoveryDeadline(r)
    /\ recovery' = [recovery EXCEPT ![p] =
           [pass |-> "active", checked |-> Idle,
            pending |-> {r \in RunId : Unfinished(r) /\ PastRecoveryDeadline(r)}]]
    /\ UNCHANGED tables

\* load_run_input_record: a run already finished or gone is skipped.
CheckCandidate(p, r) ==
    /\ recovery[p].checked = Idle
    /\ r \in recovery[p].pending
    /\ recovery' = [recovery EXCEPT ![p].pending = @ \ {r},
                                    ![p].checked = IF Unfinished(r) THEN r ELSE Idle]
    /\ UNCHANGED tables

\* The candidate is still unfinished: it becomes interrupted.
InterruptCandidate(p) ==
    LET r == recovery[p].checked
    IN  /\ r # Idle
        /\ Unfinished(r)
        /\ Terminated(r, "interrupted", FALSE)
        /\ recovery' = [recovery EXCEPT ![p].checked = Idle]
        /\ UNCHANGED <<scenarioVars, snapshots, solutions, issued, results, view, bound, named>>

\* Somebody else finished or deleted it: SolveRunTerminalConflict, not found.
LoseCandidate(p) ==
    /\ recovery[p].checked # Idle
    /\ ~Unfinished(recovery[p].checked)
    /\ recovery' = [recovery EXCEPT ![p] = [NotRecovering EXCEPT !.pass = "failed"]]
    /\ UNCHANGED tables

\* The pass is over, or the caller of a failed one comes back later.
EndRecovery(p) ==
    /\ \/ recovery[p].pass = "failed"
       \/ recovery[p] = [pass |-> "active", pending |-> {}, checked |-> Idle]
    /\ recovery' = [recovery EXCEPT ![p] = NotRecovering]
    /\ UNCHANGED tables

=============================================================================
