------------------------- MODULE CounterfactualJobs -------------------------
(***************************************************************************)
(* Counterfactual jobs: the rows of the store, the derived solve run a job *)
(* owns, the supervised worker that computes it in some process, cancel    *)
(* requests from any process, and recovery when a store is opened.  Every  *)
(* store transaction is one step; what a worker read before one is in its  *)
(* record.  Clocks agree and never go back (the clock-failure paths are    *)
(* left out), and a store call fails only for the reasons below.           *)
(***************************************************************************)
EXTENDS Integers, FiniteSets

CONSTANTS
    Process,    \* processes that open the store
    Job,        \* request identities, each with its job
    Budget,     \* total_budget_milliseconds, in clock ticks
    Grace,      \* SOLVE_TERMINAL_PERSISTENCE_GRACE_MILLISECONDS, in clock ticks
    MaxActive,  \* MAX_ACTIVE_COUNTERFACTUAL_JOBS
    LastStart,  \* bound: no job starts later than this
    MaxTime,    \* bound: the clock stops here
    None        \* no timestamp

ASSUME TimeAssumption ==
    /\ Budget \in Nat \ {0} /\ Grace \in Nat \ {0} /\ MaxActive \in Nat \ {0}
    /\ LastStart \in Nat /\ MaxTime \in Nat
    /\ LastStart + Budget + Grace <= MaxTime
    /\ None \notin Int

VARIABLES
    now,      \* the wall clock
    revision, \* the scenario's revision against the one the jobs were asked for
    job,      \* job[j]: the row of counterfactual_jobs, with the time of the
              \* infeasibility its terminal authority names
    run,      \* run[j]: the derived run the job owns
    process,  \* process[p]: closed, opening with its recovery pass, or open
    worker,   \* worker[p][j]: the start call and then the worker of j in p
    signals,  \* cancellations recorded by p whose token is still to be set
    lost      \* history: jobs whose worker died with its process

vars == <<now, revision, job, run, process, worker, signals, lost>>

Time == 0 .. MaxTime

Active == {"queued", "running"}

Terminal == {"completed", "failed", "cancelled", "interrupted"}

Absent == [state |-> "absent", started |-> None, cancel |-> None, proof |-> None]

\* What a routed execution gives: an accepted alternative, infeasibility with
\* its timely observation or without, no solution within the limit, a
\* cancelled or failed backend, or a verification alarm.
Outcome == {"accepted", "impossible", "undistinguished", "cancelled", "failed", "alarm"}

Idle == [stage |-> "idle", token |-> FALSE, since |-> None, started |-> None,
         bound |-> FALSE, plan |-> "none", observed |-> None, expected |-> None,
         finished |-> None]

Stage == {"idle", "owned", "queued", "claimed", "compiling", "stopping", "binding", "stale", "bound",
          "solving", "judged", "submitting", "retiming", "resubmitting", "ensure", "ending",
          "settled"}

\* Stages before the last look at the cancellation token.
Listening == {"queued", "claimed", "compiling", "binding", "bound", "solving"}

\* Stages in which the worker's supervisor still answers for the job.
Supervised == Stage \ {"idle", "owned", "queued", "claimed", "settled"}

Init ==
    /\ now = 0
    /\ revision = "asked"
    /\ job = [j \in Job |-> Absent]
    /\ run = [j \in Job |-> "none"]
    /\ process = [p \in Process |-> [phase |-> "open", time |-> None, pending |-> {}]]
    /\ worker = [p \in Process |-> [j \in Job |-> Idle]]
    /\ signals = {}
    /\ lost = {}

Store == <<now, revision, job, run, process, signals, lost>>

Becomes(p, j, w) == worker' = [worker EXCEPT ![p][j] = w]

Goes(p, j, stage) ==
    Becomes(p, j, [worker[p][j] EXCEPT !.stage = stage, !.token = @ /\ stage \in Listening])

Retires(p, j) == Becomes(p, j, Idle)

EnsuresUnbound(p, j) == Becomes(p, j, [Idle EXCEPT !.stage = "ensure"])

\* Back to the supervisor, which knows of the run and of an alarm.
Ensures(p, j) ==
    Becomes(p, j, [Idle EXCEPT !.stage = "ensure", !.bound = worker[p][j].bound])

At(p, j, stages) == process[p].phase = "open" /\ worker[p][j].stage \in stages

Expired(p, j) == now >= worker[p][j].since + Budget

Deadline(j) == job[j].started + Budget

Cutoff(j) == Deadline(j) + Grace

(***************************************************************************)
(* The store's transactions.                                               *)
(***************************************************************************)
MayTransitionOwned(j, to) ==
    CASE to = "failed" -> job[j].state \in Active /\ job[j].cancel = None
      [] to = "cancelled" -> job[j].state = "running" /\ job[j].cancel # None
      [] to = "interrupted" -> job[j].state = "running" /\ job[j].cancel = None

\* transition_counterfactual_job: it never ends a job that owns a run.
MayTransition(j, to) ==
    /\ run[j] = "none"
    /\ CASE to = "failed" -> job[j].state \in Active /\ job[j].cancel = None
         [] to = "cancelled" -> job[j].state = "running" /\ job[j].cancel # None
         [] to = "interrupted" -> job[j].state = "running" /\ job[j].cancel = None

\* The cancellation the writer has seen is the one that is recorded.
ObservationCurrent(j, w) ==
    w.expected = job[j].cancel /\ (job[j].cancel # None => job[j].cancel <= w.finished)

TimelyCompletion(j, w) ==
    /\ w.finished <= Deadline(j) /\ w.finished - w.since <= Budget
    /\ now < Cutoff(j)

TimelyByManifest(j, w) == w.finished <= Cutoff(j)

TimelyInfeasibility(j, w) == w.finished <= Cutoff(j) /\ now < Cutoff(j)

ProofTiesCancel(j, w) == job[j].cancel # None => job[j].cancel >= w.observed

ProofPrecedesCancel(j, w) == job[j].cancel # None => job[j].cancel > w.observed

\* finalize_counterfactual_run, once the observation is current.
MayFinalize(j, w) ==
    /\ job[j].state = "running" /\ run[j] = "open"
    /\ CASE w.plan \in {"accepted", "undistinguished"} ->
              job[j].cancel = None /\ TimelyCompletion(j, w)
         [] w.plan = "impossible" -> ProofPrecedesCancel(j, w) /\ TimelyInfeasibility(j, w)
         [] w.plan \in {"failed", "interrupted"} -> job[j].cancel = None
         [] w.plan = "cancelled" -> job[j].cancel # None
         [] w.plan = "alarm" -> TRUE

Accepts(j, w) == ObservationCurrent(j, w) /\ MayFinalize(j, w)

Stale(j, w) == job[j] # Absent /\ ~ObservationCurrent(j, w)

FinalState(plan) ==
    CASE plan \in {"accepted", "impossible", "undistinguished"} -> "completed"
      [] plan \in {"failed", "alarm"} -> "failed"
      [] OTHER -> plan

\* Job and run end in one transaction.
Finalize(j, w) ==
    /\ job' = [job EXCEPT ![j].state = FinalState(w.plan),
                          ![j].proof = IF w.plan = "impossible" THEN w.observed ELSE None]
    /\ run' = [run EXCEPT ![j] = w.plan]

Transition(j, to) == job' = [job EXCEPT ![j].state = to] /\ UNCHANGED run


(***************************************************************************)
(* A request: the row is inserted or found, the start is checked, claimed, *)
(* and recorded.                                                           *)
(***************************************************************************)
ActiveJobs == {j \in Job : job[j].state \in Active}

\* An owner whose alarm is known to be stored does not count.
OwnedIn(p) ==
    {j \in Job : worker[p][j].stage # "idle" /\ ~(worker[p][j].stage = "settled" /\ run[j] = "alarm")}

\* A job that another process runs keeps its owner here, until it is asked
\* for again when it has ended.
StartJob(p, j) ==
    /\ At(p, j, {"idle", "owned"}) /\ revision # "deleted"
    /\ worker[p][j].stage = "idle" => Cardinality(OwnedIn(p)) < MaxActive
    /\ \/ /\ job[j].state = "absent" /\ Cardinality(ActiveJobs) < MaxActive
          /\ job' = [job EXCEPT ![j].state = "queued"]
          /\ Goes(p, j, "queued")
       \/ job[j].state = "queued" /\ Goes(p, j, "queued") /\ UNCHANGED job
       \/ job[j].state = "running" /\ Goes(p, j, "owned") /\ UNCHANGED job
       \/ job[j].state \in Terminal /\ Retires(p, j) /\ UNCHANGED job
    /\ UNCHANGED <<now, revision, run, process, signals, lost>>

\* preflight_start: the revision moved on, or the backend is not the base's;
\* or there is no budget.  An error, once the scenario is gone, leaves the owner.
RefuseStart(p, j) ==
    /\ At(p, j, {"queued"})
    /\ \/ revision = "deleted" /\ Goes(p, j, "owned") /\ UNCHANGED <<job, run>>
       \/ /\ revision # "deleted"
          /\ IF MayTransition(j, "failed") THEN Transition(j, "failed") ELSE UNCHANGED <<job, run>>
          /\ Retires(p, j)
    /\ UNCHANGED <<now, revision, process, signals, lost>>

Claim(p, j) ==
    /\ At(p, j, {"queued"}) /\ revision = "asked" /\ now <= LastStart
    /\ Becomes(p, j, [worker[p][j] EXCEPT !.stage = "claimed", !.since = now])
    /\ UNCHANGED Store

\* A job another process has started meanwhile gets a second worker.
BeginRunning(p, j) ==
    /\ At(p, j, {"claimed"})
    /\ \/ /\ job[j].state = "queued"
          /\ \E t \in worker[p][j].since .. now :
                 /\ t <= LastStart
                 /\ job' = [job EXCEPT ![j].state = "running", ![j].started = t]
                 /\ Becomes(p, j, [worker[p][j] EXCEPT !.stage = "compiling", !.started = t])
       \/ /\ job[j].state = "running"
          /\ Becomes(p, j, [worker[p][j] EXCEPT !.stage = "compiling", !.started = job[j].started])
          /\ UNCHANGED job
       \/ job[j].state \in Terminal /\ Retires(p, j) /\ UNCHANGED job
       \/ job[j].state = "absent" /\ Goes(p, j, "owned") /\ UNCHANGED job
    /\ UNCHANGED <<now, revision, run, process, signals, lost>>

(***************************************************************************)
(* The worker up to its derived run.                                       *)
(***************************************************************************)
\* A compilation that fails or exceeds the budget, or a revision that moved on.
WorkerFails(p, j) ==
    /\ At(p, j, {"compiling", "stale"})
    /\ IF MayTransition(j, "failed")
       THEN Transition(j, "failed") /\ Retires(p, j)
       ELSE Ensures(p, j) /\ UNCHANGED <<job, run>>
    /\ UNCHANGED <<now, revision, process, signals, lost>>

\* stop_before_run sees the token, and the row tells whether it was a request.
Stop(p, j) ==
    /\ At(p, j, {"compiling"}) /\ worker[p][j].token
    /\ IF job[j] = Absent
       THEN Ensures(p, j)
       ELSE Becomes(p, j, [worker[p][j] EXCEPT
                !.stage = "stopping", !.token = FALSE,
                !.plan = IF job[j].cancel # None THEN "cancelled" ELSE "interrupted"])
    /\ UNCHANGED Store

FinishStop(p, j) ==
    /\ At(p, j, {"stopping"})
    /\ IF MayTransition(j, worker[p][j].plan)
       THEN Transition(j, worker[p][j].plan) /\ Retires(p, j)
       ELSE Ensures(p, j) /\ UNCHANGED <<job, run>>
    /\ UNCHANGED <<now, revision, process, signals, lost>>

Compiled(p, j) ==
    /\ At(p, j, {"compiling"}) /\ ~worker[p][j].token /\ ~Expired(p, j)
    /\ Goes(p, j, "binding")
    /\ UNCHANGED Store

MayBind(j) == job[j].state = "running" /\ job[j].cancel = None /\ run[j] = "none"

\* start_counterfactual_run: the run and its ownership in one transaction.
BindRun(p, j) ==
    /\ At(p, j, {"binding"})
    /\ \/ ~MayBind(j) /\ Ensures(p, j) /\ UNCHANGED run
       \/ MayBind(j) /\ revision # "asked" /\ Goes(p, j, "stale") /\ UNCHANGED run
       \/ /\ MayBind(j) /\ revision = "asked"
          /\ run' = [run EXCEPT ![j] = "open"]
          /\ Becomes(p, j, [worker[p][j] EXCEPT !.stage = "bound", !.bound = TRUE])
    /\ UNCHANGED <<now, revision, job, process, signals, lost>>

\* The row is read again before the solver starts.
Recheck(p, j) ==
    /\ At(p, j, {"bound"})
    /\ IF job[j].state = "running" /\ job[j].cancel = None THEN Goes(p, j, "solving")
                                                          ELSE Ensures(p, j)
    /\ UNCHANGED Store

(***************************************************************************)
(* The derived run: routing, diagnosis and finalization.                   *)
(***************************************************************************)
Judged(p, j, plan, observed) ==
    Becomes(p, j, [worker[p][j] EXCEPT
        !.stage = "judged", !.token = FALSE, !.plan = plan, !.observed = observed])

\* capture_alarm: the worker stops, and its supervisor has to settle the alarm.
Alarms(p, j) == Becomes(p, j, [Idle EXCEPT !.stage = "ensure", !.bound = TRUE, !.plan = "alarm"])

\* Infeasibility counts only if observed within the budget and not cancelled.
Judge(p, j) ==
    /\ At(p, j, {"solving"})
    /\ LET w == worker[p][j] IN
       \/ \E plan \in {"accepted", "undistinguished", "failed"} : Judged(p, j, plan, None)
       \/ Alarms(p, j)
       \/ w.token /\ Judged(p, j, "cancelled", None)
       \/ /\ ~w.token /\ ~Expired(p, j) /\ now < w.started + Budget
          /\ Judged(p, j, "impossible", now)
    /\ UNCHANGED Store

\* The diagnosis of an infeasibility contradicts itself.
DiagnosisAlarm(p, j) ==
    /\ At(p, j, {"judged"}) /\ worker[p][j].plan = "impossible"
    /\ Alarms(p, j)
    /\ UNCHANGED Store

\* A panic, or an error the worker has no record for.
WorkerErrs(p, j) ==
    /\ At(p, j, {"compiling", "solving", "judged"})
    /\ Ensures(p, j)
    /\ UNCHANGED Store

\* finalize reads the recorded cancellation, then the clocks, and retimes:
\* an alternative found too late is not distinguished.
Observe(p, j) ==
    /\ At(p, j, {"judged"})
    /\ IF job[j] = Absent
       THEN Ensures(p, j)
       ELSE Becomes(p, j, [worker[p][j] EXCEPT
                !.stage = "submitting", !.expected = job[j].cancel, !.finished = now,
                !.plan = IF @ = "accepted" /\ Expired(p, j) THEN "undistinguished" ELSE @])
    /\ UNCHANGED Store

Submit(p, j) ==
    /\ At(p, j, {"submitting"})
    /\ LET w == worker[p][j] IN
       \/ /\ Stale(j, w)
          /\ Becomes(p, j, [w EXCEPT !.stage = "retiming", !.expected = job[j].cancel])
          /\ UNCHANGED <<job, run>>
       \/ Accepts(j, w) /\ Finalize(j, w) /\ Retires(p, j)
       \/ /\ ~Stale(j, w) /\ ~Accepts(j, w)
          /\ IF job[j].state \in Terminal THEN Retires(p, j) ELSE Ensures(p, j)
          /\ UNCHANGED <<job, run>>
    /\ UNCHANGED <<now, revision, process, signals, lost>>

\* retime_stale_finalization: only a proof older than the cancellation stands.
Retime(p, j) ==
    /\ At(p, j, {"retiming"})
    /\ LET w == worker[p][j]
           stands == w.plan = "impossible" /\ w.expected > w.observed
       IN  Becomes(p, j, [w EXCEPT !.stage = "resubmitting", !.finished = now,
                                   !.plan = IF stands THEN @ ELSE "cancelled"])
    /\ UNCHANGED Store

Resubmit(p, j) ==
    /\ At(p, j, {"resubmitting"})
    /\ LET w == worker[p][j] IN
       IF Accepts(j, w)
       THEN Finalize(j, w) /\ Retires(p, j)
       ELSE Ensures(p, j) /\ UNCHANGED <<job, run>>
    /\ UNCHANGED <<now, revision, process, signals, lost>>

(***************************************************************************)
(* The supervisor of a worker that failed or raised an alarm: one reading  *)
(* of the row, one transaction, no second attempt.                         *)
(***************************************************************************)
\* An owner with an alarm is kept, any other retired.
Leaves(p, j) == IF worker[p][j].plan = "alarm" THEN Becomes(p, j, [Idle EXCEPT !.stage = "settled"])
                                               ELSE Retires(p, j)

EnsureTerminal(p, j) ==
    /\ At(p, j, {"ensure"})
    /\ IF job[j].state # "running"
       THEN Leaves(p, j)
       ELSE Becomes(p, j, [worker[p][j] EXCEPT
                !.stage = "ending", !.expected = job[j].cancel, !.finished = now,
                !.plan = IF @ = "alarm" THEN @
                         ELSE IF job[j].cancel # None THEN "cancelled" ELSE "interrupted"])
    /\ UNCHANGED Store

EndJob(p, j) ==
    /\ At(p, j, {"ending"})
    /\ LET w == worker[p][j]
           accepted == IF w.bound THEN Accepts(j, w) ELSE MayTransition(j, w.plan)
       IN  \/ accepted /\ w.bound /\ Finalize(j, w)
           \/ accepted /\ ~w.bound /\ Transition(j, w.plan)
           \/ ~accepted /\ UNCHANGED <<job, run>>
    /\ Leaves(p, j)
    /\ UNCHANGED <<now, revision, process, signals, lost>>

(***************************************************************************)
(* Cancellation: the request is recorded, then the local token is set.  A  *)
(* process that knows of an alarm refuses it, but looks before it records  *)
(* it, so that the alarm may be raised, or settled, in between.            *)
(***************************************************************************)
CancelJob(p, j) ==
    /\ process[p].phase = "open"
    /\ \/ /\ job[j].state = "queued"
          /\ job' = [job EXCEPT ![j].state = "cancelled", ![j].cancel = now]
       \/ /\ job[j].state = "running" /\ job[j].cancel = None
          /\ \E t \in job[j].started .. now : job' = [job EXCEPT ![j].cancel = t]
    /\ signals' = signals \cup {s \in {<<p, j>>} : worker[p][j].stage \in Listening}
    /\ UNCHANGED <<now, revision, run, process, worker, lost>>

SetToken(p, j) ==
    /\ <<p, j>> \in signals
    /\ signals' = signals \ {<<p, j>>}
    /\ worker' = [worker EXCEPT ![p][j].token = worker[p][j].stage \in Listening]
    /\ UNCHANGED <<now, revision, job, run, process, lost>>

\* The application cancels everything it owns.
Shutdown(p) ==
    /\ process[p].phase = "open"
    /\ \E j \in Job : worker[p][j].stage \in Listening /\ ~worker[p][j].token
    /\ worker' = [worker EXCEPT ![p] =
           [j \in Job |-> [@[j] EXCEPT !.token = worker[p][j].stage \in Listening]]]
    /\ UNCHANGED Store

(***************************************************************************)
(* Processes end, are started again, and recover what expired.             *)
(***************************************************************************)
Closed == [phase |-> "closed", time |-> None, pending |-> {}]

Exit(p) ==
    /\ process[p].phase # "closed"
    /\ process' = [process EXCEPT ![p] = Closed]
    /\ worker' = [worker EXCEPT ![p] = [j \in Job |-> Idle]]
    /\ signals' = {s \in signals : s[1] # p}
    /\ lost' = lost \cup {j \in Job : worker[p][j].stage \in Supervised}
    /\ UNCHANGED <<now, revision, job, run>>

\* The time of the pass is read before its candidates.
OpenStore(p) ==
    /\ process[p].phase = "closed"
    /\ process' = [process EXCEPT ![p] =
           [phase |-> "opening", time |-> now, pending |-> {j \in Job : job[j].state = "running"}]]
    /\ UNCHANGED <<now, revision, job, run, worker, signals, lost>>

Recoverable(p, j) == job[j].state = "running" /\ process[p].time >= Cutoff(j)

RefuseCancelled(p, j) ==
    job[j].state = "absent" \/ (Recoverable(p, j) /\ job[j].cancel # None /\ run[j] = "open")

\* A cancellation later than the pass cannot be ended at the pass's time.
RecoveryRefused(p, j) ==
    \/ job[j].state = "absent"
    \/ Recoverable(p, j) /\ job[j].cancel # None /\ job[j].cancel > process[p].time

\* An error ends the pass and with it the opening of the store.
RecoverJob(p, j) ==
    /\ process[p].phase = "opening" /\ j \in process[p].pending
    /\ \/ /\ RecoveryRefused(p, j)
          /\ process' = [process EXCEPT ![p] = Closed]
          /\ UNCHANGED <<job, run>>
       \/ /\ ~RecoveryRefused(p, j)
          /\ process' = [process EXCEPT ![p].pending = @ \ {j}]
          /\ IF Recoverable(p, j)
             THEN /\ job' = [job EXCEPT ![j].state =
                         IF job[j].cancel # None THEN "cancelled" ELSE "interrupted"]
                  /\ run' = [run EXCEPT ![j] = IF @ = "open" THEN "interrupted" ELSE @]
             ELSE UNCHANGED <<job, run>>
    /\ UNCHANGED <<now, revision, worker, signals, lost>>

OpenDone(p) ==
    /\ process[p].phase = "opening" /\ process[p].pending = {}
    /\ process' = [process EXCEPT ![p] = [phase |-> "open", time |-> None, pending |-> {}]]
    /\ UNCHANGED <<now, revision, job, run, worker, signals, lost>>

(***************************************************************************)
(* The scenario and the clock.                                             *)
(***************************************************************************)
EditScenario ==
    /\ revision = "asked"
    /\ revision' = "edited"
    /\ UNCHANGED <<now, job, run, process, worker, signals, lost>>

\* Deleting the scenario cascades over the rows of its jobs and runs.
DeleteScenario ==
    /\ revision # "deleted"
    /\ revision' = "deleted"
    /\ job' = [j \in Job |-> Absent]
    /\ run' = [j \in Job |-> "none"]
    /\ UNCHANGED <<now, process, worker, signals, lost>>

Tick ==
    /\ now < MaxTime
    /\ now' = now + 1
    /\ UNCHANGED <<revision, job, run, process, worker, signals, lost>>

WorkerStep(p, j) ==
    \/ RefuseStart(p, j) \/ Claim(p, j) \/ BeginRunning(p, j)
    \/ WorkerFails(p, j) \/ Stop(p, j) \/ FinishStop(p, j) \/ Compiled(p, j)
    \/ BindRun(p, j) \/ Recheck(p, j) \/ Judge(p, j) \/ DiagnosisAlarm(p, j)
    \/ WorkerErrs(p, j) \/ Observe(p, j) \/ Submit(p, j) \/ Retime(p, j)
    \/ Resubmit(p, j) \/ EnsureTerminal(p, j) \/ EndJob(p, j)

Next ==
    \/ \E p \in Process, j \in Job :
           \/ StartJob(p, j) \/ WorkerStep(p, j)
           \/ CancelJob(p, j) \/ SetToken(p, j) \/ RecoverJob(p, j)
    \/ \E p \in Process : Shutdown(p) \/ Exit(p) \/ OpenStore(p) \/ OpenDone(p)
    \/ EditScenario \/ DeleteScenario \/ Tick

Spec == Init /\ [][Next]_vars

\* Time passes, a process that runs is some day ended and started again, and
\* not every start of it is cut short in its recovery.
FairSpec ==
    /\ Spec
    /\ WF_vars(Tick)
    /\ \A p \in Process :
           /\ WF_vars(Exit(p)) /\ WF_vars(OpenStore(p))
           /\ \A j \in Job : SF_vars(RecoverJob(p, j))

(***************************************************************************)
(* Properties.                                                             *)
(***************************************************************************)
Stamp == Time \cup {None}

Worker ==
    [stage : Stage, token : BOOLEAN, since : Stamp, started : Stamp, bound : BOOLEAN,
     plan : Outcome \cup {"none", "interrupted"}, observed : Stamp, expected : Stamp,
     finished : Stamp]

(***************************************************************************)
(* Rows, runs, workers and recovery passes keep their shape: a running job *)
(* has its start, a queued one no cancellation.                            *)
(***************************************************************************)
TypeOK ==
    /\ now \in Time
    /\ revision \in {"asked", "edited", "deleted"}
    /\ job \in [Job -> [state : {"absent"} \cup Active \cup Terminal,
                        started : Stamp, cancel : Stamp, proof : Stamp]]
    /\ \A j \in Job : /\ job[j].state = "running" => job[j].started # None
                      /\ job[j].state = "queued" => job[j].cancel = None
    /\ run \in [Job -> {"none", "open", "interrupted"} \cup Outcome]
    /\ process \in [Process -> [phase : {"closed", "opening", "open"}, time : Stamp,
                                pending : SUBSET Job]]
    /\ worker \in [Process -> [Job -> Worker]]
    /\ signals \subseteq Process \X Job
    /\ lost \subseteq Job

(***************************************************************************)
(* The store implements what a job promises: whatever workers, cancel      *)
(* requests, recovery passes and processes do, a job ends once, in the     *)
(* step that ends the run it owns, with an outcome that fits its state,    *)
(* and a recorded cancellation gives way only to an earlier proof of       *)
(* impossibility and to an alarm.                                          *)
(***************************************************************************)
Promise == INSTANCE CounterfactualPromise WITH
    state <- [j \in Job |-> job[j].state],
    asked <- [j \in Job |-> job[j].cancel # None],
    answer <- run

KeepsPromise == Promise!Spec

Working(p, j) == worker[p][j].stage \in Supervised

(***************************************************************************)
(* A job that nobody works on any more although it is running was          *)
(* cancelled, or its process ended: a worker that fails, panics or raises  *)
(* an alarm, beside a second worker of another process, a refusal of the   *)
(* store or an edit of the scenario, never leaves its job running.         *)
(***************************************************************************)
NeverLeftRunning ==
    \A j \in Job :
        job[j].state = "running" /\ (\A p \in Process : ~Working(p, j))
        => job[j].cancel # None \/ j \in lost

(***************************************************************************)
(* A proof of impossibility that was accepted was observed while the job   *)
(* ran, within its budget, and before any cancellation, however late the   *)
(* store learned of either; and no other answer stands against one.        *)
(***************************************************************************)
ProofStands ==
    \A j \in Job : job[j].state = "completed" =>
        /\ run[j] = "impossible" => job[j].proof \in job[j].started .. Deadline(j) - 1
        /\ job[j].cancel # None => job[j].proof # None /\ job[j].proof < job[j].cancel

(***************************************************************************)
(* An answer and a recovery pass never compete for a job: while a pass     *)
(* that would interrupt it is under way in any process, the store takes no *)
(* answer for it, however long before its worker had it ready.             *)
(***************************************************************************)
CompletionBeforeRecovery ==
    [][\A j \in Job : job[j].state = "running" /\ job'[j].state = "completed" =>
          \A p \in Process : process[p].phase = "opening" => ~Recoverable(p, j)]_vars

(***************************************************************************)
(* Every job that starts ends, whatever becomes of its workers and whoever *)
(* cancels it when, if time passes and processes are started again.        *)
(***************************************************************************)
EveryJobEnds == \A j \in Job : job[j].state = "running" ~> job[j].state # "running"

=============================================================================
