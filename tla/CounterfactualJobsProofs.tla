---------------------- MODULE CounterfactualJobsProofs ----------------------
(***************************************************************************)
(* The safety properties of CounterfactualJobs and that it implements      *)
(* CounterfactualPromise, for any set of jobs and processes and any budget *)
(* and grace.  Every action moves a row by one of a few moves (JobMoves)   *)
(* and its workers along (WorkerMoves); what the moves preserve is proved  *)
(* once.                                                                   *)
(***************************************************************************)
EXTENDS CounterfactualJobs, TLAPS

(***************************************************************************)
(* The inductive invariant, on the values of one row r with its run a, of  *)
(* one worker record w, and of one process, at time t and revision v.      *)
(***************************************************************************)
State == {"absent"} \cup Active \cup Terminal

Row == [state : State, started : Stamp, cancel : Stamp, proof : Stamp]

RunState == {"none", "open", "interrupted"} \cup Outcome

Pass == [phase : {"closed", "opening", "open"}, time : Stamp, pending : SUBSET Job]

\* A job that was started.
Begun == {"running"} \cup Terminal

\* What a completed job has to show for it.
RowProof(r, a) ==
    r.state = "completed" =>
        /\ a = "impossible" => r.proof \in r.started .. (r.started + Budget) - 1
        /\ r.cancel # None => r.proof # None /\ r.proof < r.cancel

RowOK(r, a, t, v) ==
    /\ v = "deleted" => r.state = "absent"
    /\ r.state \in {"absent", "queued"} => r.cancel = None /\ a = "none"
    /\ r.state = "running" => a \in {"none", "open"} /\ r.started \in 0 .. t
    /\ RowProof(r, a)

\* Stages in which a worker knows when its job was started.
Timed == {"compiling", "stopping", "binding", "stale", "bound", "solving", "judged",
          "submitting", "retiming", "resubmitting"}

Planned == {"judged", "submitting", "retiming", "resubmitting"}

\* What a worker remembers of its job still holds, unless the job is deleted.
WorkerOK(w, r, a, t, v) ==
    /\ w.stage = "claimed" => w.since \in Time
    /\ w.stage \in Timed =>
           /\ w.started \in 0 .. t
           /\ v # "deleted" => r.state \in Begun /\ r.started = w.started
    /\ w.stage = "stopping" => w.plan \in {"cancelled", "interrupted"}
    /\ w.stage \in Planned =>
           /\ w.plan \in Outcome
           /\ w.plan = "impossible" => w.observed \in w.started .. w.started + Budget - 1
    /\ w.stage \in Planned \cup {"bound", "solving"} => w.bound
    /\ w.stage = "ending" =>
           /\ w.plan \in {"cancelled", "interrupted", "alarm"}
           /\ w.plan = "interrupted" => w.expected = None
           /\ w.plan = "cancelled" => w.expected # None
           /\ v # "deleted" /\ w.expected # None => r.cancel # None
    /\ w.plan = "alarm" => w.bound
    /\ v # "deleted" /\ w.bound => a # "none"

PassOK(s, t) == s.phase = "opening" => s.time \in 0 .. t

\* The worker that answers for the job's run, or for a job without one.
AnswersFor(w, a) == w.stage \in Supervised /\ (a = "open" => w.bound)

Attended(j) ==
    job[j].state = "running" /\ job[j].cancel = None /\ j \notin lost
    => \E p \in Process : AnswersFor(worker[p][j], run[j])

Typed ==
    /\ now \in Time
    /\ revision \in {"asked", "edited", "deleted"}
    /\ job \in [Job -> Row]
    /\ run \in [Job -> RunState]
    /\ process \in [Process -> Pass]
    /\ worker \in [Process -> [Job -> Worker]]
    /\ signals \subseteq Process \X Job
    /\ lost \subseteq Job

JobInv ==
    /\ Typed
    /\ \A j \in Job : RowOK(job[j], run[j], now, revision)
    /\ \A p \in Process, j \in Job : WorkerOK(worker[p][j], job[j], run[j], now, revision)
    /\ \A p \in Process : PassOK(process[p], now)
    /\ \A j \in Job : Attended(j)

(***************************************************************************)
(* How a step of one job may change its row and its run.                   *)
(***************************************************************************)
\* A started job keeps its start, a recorded cancellation and a run stay.
RowKept(r, a, r2, a2) ==
    /\ r.state \in Begun => r2.state \in Begun /\ r2.started = r.started
    /\ r.cancel # None => r2.cancel # None
    /\ a # "none" => a2 # "none"

\* The step, seen through the refinement mapping.
PromiseMoves(s, c, a, s2, c2, a2) ==
    \/ s2 = s /\ c2 = c /\ a2 = a
    \/ s = "absent" /\ s2 = "queued" /\ ~c2 /\ a2 = "none"
    \/ s = "queued" /\ s2 = "running" /\ ~c2 /\ a2 = "none"
    \/ s = "running" /\ ~c /\ a = "none" /\ s2 = "running" /\ ~c2 /\ a2 = "open"
    \/ s = "running" /\ ~c /\ s2 = "running" /\ c2 /\ a2 = a
    \/ s = "queued" /\ s2 = "failed" /\ ~c2 /\ a2 = "none"
    \/ s = "queued" /\ s2 = "cancelled" /\ c2 /\ a2 = "none"
    \/ /\ s = "running" /\ a = "none" /\ c2 = c /\ a2 = "none"
       /\ s2 \in IF c THEN {"cancelled"} ELSE {"failed", "interrupted"}
    \/ /\ s = "running" /\ a = "open" /\ c2 = c
       /\ s2 \in Promise!Terminal /\ a2 \in Promise!Outcomes[s2]
       /\ c => s2 = "cancelled" \/ a2 \in Promise!Overriding
       /\ s2 = "cancelled" => c

\* An answer is taken before any recovery pass could interrupt the job.
TimelyMove(r, r2, t) ==
    r.state = "running" /\ r2.state = "completed" => t < r.started + Budget + Grace

RowMoves(r, a, r2, a2, t) ==
    /\ RowKept(r, a, r2, a2)
    /\ PromiseMoves(r.state, r.cancel # None, a, r2.state, r2.cancel # None, a2)
    /\ TimelyMove(r, r2, t)

\* A step on the row of j alone.
JobMoves(j) ==
    /\ job' \in [Job -> Row] /\ run' \in [Job -> RunState]
    /\ \A k \in Job \ {j} : job'[k] = job[k] /\ run'[k] = run[k]
    /\ RowOK(job'[j], run'[j], now, revision)
    /\ RowMoves(job[j], run[j], job'[j], run'[j], now)

LEMMA NoMove ==
    ASSUME NEW j \in Job, JobInv, UNCHANGED <<job, run>>
    PROVE  JobMoves(j)
<1> USE DEF JobInv, Typed
<1>1. RowOK(job'[j], run'[j], now, revision)  OBVIOUS
<1>2. RowMoves(job[j], run[j], job'[j], run'[j], now)
  BY DEF RowMoves, RowKept, PromiseMoves, TimelyMove
<1> QED  BY <1>1, <1>2 DEF JobMoves

LEMMA TransitionMoves ==
    ASSUME NEW j \in Job, NEW to \in {"failed", "cancelled", "interrupted"}, JobInv,
           MayTransition(j, to), Transition(j, to)
    PROVE  JobMoves(j) /\ job'[j].state \notin Active
<1> USE DEF JobInv, Typed
<1>1. PICK r \in Row : r = [job[j] EXCEPT !.state = to]
  BY DEF Row, State, Active, Terminal
<1>2. job' = [job EXCEPT ![j] = r] /\ run' = run
  BY <1>1 DEF Transition
<1>3. /\ job'[j] = r /\ run'[j] = run[j] /\ job' \in [Job -> Row]
      /\ \A k \in Job \ {j} : job'[k] = job[k] /\ run'[k] = run[k]
  BY <1>2
<1>4. r.state = to /\ r.started = job[j].started /\ r.cancel = job[j].cancel
  BY <1>1 DEF Row
<1>5. /\ job[j].state \in Active /\ run[j] = "none"
      /\ to = "cancelled" => job[j].state = "running" /\ job[j].cancel # None
      /\ to # "cancelled" => job[j].cancel = None
      /\ to = "interrupted" => job[j].state = "running"
  BY DEF MayTransition, Active
<1>6. RowOK(job[j], run[j], now, revision)  OBVIOUS
<1>7. RowOK(r, run[j], now, revision)
  BY <1>4, <1>5, <1>6 DEF RowOK, RowProof, Active
<1>8. RowMoves(job[j], run[j], r, run[j], now)
  BY <1>4, <1>5 DEF RowMoves, RowKept, PromiseMoves, TimelyMove, Active, Begun, Terminal
<1> QED  BY <1>2, <1>3, <1>4, <1>7, <1>8 DEF JobMoves, Active

LEMMA FinalizeMoves ==
    ASSUME NEW j \in Job, NEW w \in Worker, JobInv,
           w.stage \in {"submitting", "resubmitting", "ending"},
           WorkerOK(w, job[j], run[j], now, revision), Accepts(j, w), Finalize(j, w)
    PROVE  JobMoves(j) /\ job'[j].state \notin Active
<1> USE DEF JobInv, Typed
<1> DEFINE proof == IF w.plan = "impossible" THEN w.observed ELSE None
<1>1. /\ w.plan \in Outcome \cup {"interrupted"}
      /\ w.plan = "impossible" =>
             /\ w.stage \in Planned
             /\ w.observed \in w.started .. w.started + Budget - 1
  BY DEF WorkerOK, Planned, Outcome
<1>2. FinalState(w.plan) \in Terminal /\ proof \in Stamp
  BY <1>1 DEF FinalState, Terminal, Outcome, Worker, Stamp
<1>3. PICK r \in Row : r = [job[j] EXCEPT !.state = FinalState(w.plan), !.proof = proof]
  BY <1>2 DEF Row, State
<1>4. job' = [job EXCEPT ![j] = r] /\ run' = [run EXCEPT ![j] = w.plan]
  BY <1>3 DEF Finalize
<1>5. /\ job'[j] = r /\ run'[j] = w.plan /\ job' \in [Job -> Row] /\ run' \in [Job -> RunState]
      /\ \A k \in Job \ {j} : job'[k] = job[k] /\ run'[k] = run[k]
  BY <1>1, <1>4 DEF RunState
<1>6. /\ r.state = FinalState(w.plan) /\ r.started = job[j].started
      /\ r.cancel = job[j].cancel /\ r.proof = proof
  BY <1>3 DEF Row
<1>7. /\ job[j].state = "running" /\ run[j] = "open"
      /\ w.plan \in {"accepted", "undistinguished"} =>
             job[j].cancel = None /\ TimelyCompletion(j, w)
      /\ w.plan = "impossible" => ProofPrecedesCancel(j, w) /\ TimelyInfeasibility(j, w)
      /\ w.plan \in {"failed", "interrupted"} => job[j].cancel = None
      /\ w.plan = "cancelled" => job[j].cancel # None
  BY DEF Accepts, MayFinalize
<1>8. /\ RowOK(job[j], run[j], now, revision)
      /\ w.stage \in Planned => job[j].started = w.started
  <2>1. RowOK(job[j], run[j], now, revision)  OBVIOUS
  <2>2. revision # "deleted"  BY <2>1, <1>7 DEF RowOK
  <2> QED  BY <2>1, <2>2 DEF WorkerOK, Planned, Timed
<1>9. RowOK(r, w.plan, now, revision)
  <2>1. w.plan = "impossible" => /\ job[j].started \in Time /\ w.observed \in Time
                                 /\ job[j].cancel # None => job[j].cancel > w.observed
    BY <1>1, <1>7, <1>8, TimeAssumption DEF RowOK, ProofPrecedesCancel, Worker, Stamp, Time
  <2>2. r.state = "completed" <=> w.plan \in {"accepted", "impossible", "undistinguished"}
    BY <1>1, <1>6 DEF FinalState, Outcome
  <2>3. RowProof(r, w.plan)
    BY <1>1, <1>6, <1>7, <1>8, <2>1, <2>2, TimeAssumption DEF RowProof, Row, Stamp, Time
  <2>4. r.state \in Terminal /\ revision # "deleted"
    BY <1>2, <1>6, <1>7, <1>8 DEF RowOK
  <2> QED  BY <2>3, <2>4 DEF RowOK, Terminal
<1>10. RowMoves(job[j], run[j], r, w.plan, now)
  <2>1. RowKept(job[j], run[j], r, w.plan)
    BY <1>1, <1>2, <1>6 DEF RowKept, Begun, Outcome
  <2>2. TimelyMove(job[j], r, now)
    BY <1>1, <1>6, <1>7 DEF TimelyMove, FinalState, Outcome, TimelyCompletion,
                            TimelyInfeasibility, Cutoff, Deadline
  <2>3. PromiseMoves(job[j].state, job[j].cancel # None, run[j], r.state, r.cancel # None, w.plan)
    BY <1>1, <1>2, <1>6, <1>7 DEF PromiseMoves, FinalState, Outcome, Promise!Terminal,
                                  Promise!Outcomes, Promise!Overriding, Terminal
  <2> QED  BY <2>1, <2>2, <2>3 DEF RowMoves
<1> QED  BY <1>2, <1>5, <1>6, <1>9, <1>10 DEF JobMoves, Active, Terminal

(***************************************************************************)
(* A step of the worker of j in p.  The job stays attended: by this worker *)
(* or, if it did not answer for the job before, by another.                *)
(***************************************************************************)
StaysAttended(p, j, w) ==
    job'[j].state = "running" /\ job'[j].cancel = None =>
        \/ AnswersFor(w, run'[j])
        \/ /\ job[j].state = "running" /\ run'[j] = run[j]
           /\ ~AnswersFor(worker[p][j], run[j])

WorkerMoves(p, j) ==
    \E w \in Worker :
        /\ Becomes(p, j, w)
        /\ WorkerOK(w, job'[j], run'[j], now, revision)
        /\ StaysAttended(p, j, w)

LEMMA IdleIsWorker == Idle \in Worker
BY DEF Idle, Worker, Stamp, Stage

LEMMA IdleOK ==
    ASSUME NEW r, NEW a, NEW t, NEW v
    PROVE  WorkerOK(Idle, r, a, t, v)
BY DEF Idle, WorkerOK, Timed, Planned

\* A worker may go when its job has ended, is cancelled, or is another's.
LEMMA RetiresMoves ==
    ASSUME NEW p \in Process, NEW j \in Job, JobInv, Retires(p, j),
           job'[j].state = "running" /\ job'[j].cancel = None =>
               /\ job[j].state = "running" /\ run'[j] = run[j]
               /\ ~AnswersFor(worker[p][j], run[j])
    PROVE  WorkerMoves(p, j)
BY IdleIsWorker, IdleOK DEF Retires, WorkerMoves, StaysAttended

\* A worker that hands over to its supervisor goes on answering for the job.
LEMMA HandsOver ==
    ASSUME NEW p \in Process, NEW j \in Job, NEW w \in Worker, JobInv, UNCHANGED <<job, run>>,
           Becomes(p, j, w), w.stage = "ensure", w.plan \in {"none", "alarm"},
           w.plan = "alarm" => w.bound, w.bound <=> worker[p][j].bound
    PROVE  WorkerMoves(p, j)
<1> USE DEF JobInv, Typed
<1>1. WorkerOK(worker[p][j], job[j], run[j], now, revision)  OBVIOUS
<1>2. WorkerOK(w, job'[j], run'[j], now, revision)
  BY <1>1 DEF WorkerOK, Timed, Planned
<1>3. StaysAttended(p, j, w)
  BY DEF StaysAttended, AnswersFor, Supervised, Stage
<1> QED  BY <1>2, <1>3 DEF WorkerMoves

LEMMA EnsuresMoves ==
    ASSUME NEW p \in Process, NEW j \in Job, JobInv, UNCHANGED <<job, run>>, Ensures(p, j)
    PROVE  WorkerMoves(p, j)
<1> USE DEF JobInv, Typed
<1>1. PICK w : w = [Idle EXCEPT !.stage = "ensure", !.bound = worker[p][j].bound]
  OBVIOUS
<1>2. /\ w.stage = "ensure" /\ w.plan = "none" /\ w.bound = worker[p][j].bound
      /\ w \in Worker /\ worker[p][j].bound \in BOOLEAN
  BY <1>1 DEF Idle, Worker, Stage, Stamp, Outcome
<1>3. Becomes(p, j, w)  BY <1>1 DEF Ensures
<1> QED  BY <1>2, <1>3, HandsOver

LEMMA AlarmsMoves ==
    ASSUME NEW p \in Process, NEW j \in Job, JobInv, UNCHANGED <<job, run>>, Alarms(p, j),
           worker[p][j].bound
    PROVE  WorkerMoves(p, j)
<1>1. PICK w : w = [Idle EXCEPT !.stage = "ensure", !.bound = TRUE, !.plan = "alarm"]
  OBVIOUS
<1>2. /\ w.stage = "ensure" /\ w.plan = "alarm" /\ w.bound = TRUE /\ w \in Worker
  BY <1>1 DEF Idle, Worker, Stage, Stamp, Outcome
<1>3. Becomes(p, j, w)  BY <1>1 DEF Alarms
<1> QED  BY <1>2, <1>3, HandsOver

\* A worker that goes on with its job.
LEMMA GoesOnMoves ==
    ASSUME NEW p \in Process, NEW j \in Job, NEW w \in Worker, JobInv, UNCHANGED <<job, run>>,
           Becomes(p, j, w), WorkerOK(w, job[j], run[j], now, revision),
           worker[p][j].stage \in Supervised => w.stage \in Supervised,
           worker[p][j].bound => w.bound
    PROVE  WorkerMoves(p, j)
<1>1. StaysAttended(p, j, w)
  BY DEF StaysAttended, AnswersFor
<1> QED  BY <1>1 DEF WorkerMoves

(***************************************************************************)
(* Every step of a job in a process moves its row and its worker so.       *)
(***************************************************************************)
JobSteps(p, j) ==
    /\ JobMoves(j) /\ WorkerMoves(p, j)
    /\ UNCHANGED <<now, revision, process, signals, lost>>

LEMMA JobFacts ==
    ASSUME NEW p \in Process, NEW j \in Job, JobInv
    PROVE  /\ worker[p][j] \in Worker /\ job[j] \in Row /\ run[j] \in RunState /\ now \in Time
           /\ WorkerOK(worker[p][j], job[j], run[j], now, revision)
           /\ RowOK(job[j], run[j], now, revision)
BY DEF JobInv, Typed

LEMMA GoesFields ==
    ASSUME NEW p \in Process, NEW j \in Job, NEW stage \in Stage, JobInv, Goes(p, j, stage)
    PROVE  \E w \in Worker :
               /\ Becomes(p, j, w) /\ w.stage = stage /\ w.since = worker[p][j].since
               /\ w.started = worker[p][j].started /\ w.bound = worker[p][j].bound
               /\ w.plan = worker[p][j].plan
<1>0. worker[p][j] \in Worker  BY JobFacts
<1>1. PICK b \in BOOLEAN : b = (worker[p][j].token /\ stage \in Listening)
  OBVIOUS
<1>2. PICK w : w = [worker[p][j] EXCEPT !.stage = stage, !.token = b]
  OBVIOUS
<1>3. Becomes(p, j, w)  BY <1>1, <1>2 DEF Goes
<1>4. /\ w.stage = stage /\ w.since = worker[p][j].since
      /\ w.started = worker[p][j].started /\ w.bound = worker[p][j].bound
      /\ w.plan = worker[p][j].plan /\ w \in Worker
  BY <1>0, <1>2 DEF Worker
<1> QED  BY <1>3, <1>4

\* A start call that waits, or only owns the job, answers for nothing.
LEMMA WaitsMoves ==
    ASSUME NEW p \in Process, NEW j \in Job, NEW stage \in {"queued", "owned"}, JobInv,
           worker[p][j].stage \notin Supervised, Goes(p, j, stage), run' = run,
           job'[j].state = "running" => job[j].state = "running"
    PROVE  WorkerMoves(p, j)
<1>0. WorkerOK(worker[p][j], job[j], run[j], now, revision)
  BY JobFacts
<1>1. stage \in Stage  BY DEF Stage
<1>2. PICK w \in Worker :
               /\ Becomes(p, j, w) /\ w.stage = stage /\ w.since = worker[p][j].since
               /\ w.started = worker[p][j].started /\ w.bound = worker[p][j].bound
               /\ w.plan = worker[p][j].plan
  BY <1>1, GoesFields
<1>3. WorkerOK(w, job'[j], run'[j], now, revision)
  BY <1>0, <1>2 DEF WorkerOK, Timed, Planned
<1>4. StaysAttended(p, j, w)
  BY DEF StaysAttended, AnswersFor
<1> QED  BY <1>2, <1>3, <1>4 DEF WorkerMoves

LEMMA StartJobStep ==
    ASSUME NEW p \in Process, NEW j \in Job, JobInv, StartJob(p, j)
    PROVE  JobSteps(p, j)
<1>1. /\ worker[p][j].stage \in {"idle", "owned"} /\ revision # "deleted" /\ run' = run
      /\ UNCHANGED <<now, revision, process, signals, lost>>
  BY DEF StartJob, At
<1>2. worker[p][j].stage \notin Supervised
  BY <1>1 DEF Supervised
<1>3. CASE /\ job[j].state = "absent" /\ job' = [job EXCEPT ![j].state = "queued"]
           /\ Goes(p, j, "queued")
  <2>1. PICK r \in Row : r = [job[j] EXCEPT !.state = "queued"]
    BY JobFacts DEF Row, State, Active
  <2>2. job' = [job EXCEPT ![j] = r]  BY <1>3, <2>1, JobFacts DEF JobInv, Typed
  <2>3. r.state = "queued" /\ r.cancel = job[j].cancel  BY <2>1 DEF Row
  <2>4. job[j].cancel = None /\ run[j] = "none"
    BY <1>3, JobFacts DEF RowOK
  <2>5. /\ RowOK(r, run[j], now, revision)
        /\ RowMoves(job[j], run[j], r, run[j], now)
    BY <1>1, <1>3, <2>3, <2>4
       DEF RowOK, RowProof, RowMoves, RowKept, PromiseMoves, TimelyMove, Begun, Terminal
  <2>6. JobMoves(j) /\ job'[j].state = "queued"
    BY <1>1, <2>2, <2>3, <2>5 DEF JobMoves, JobInv, Typed
  <2>7. WorkerMoves(p, j)
    BY <1>1, <1>2, <1>3, <2>6, WaitsMoves
  <2> QED  BY <1>1, <2>6, <2>7 DEF JobSteps
<1>4. CASE UNCHANGED job /\ (Goes(p, j, "queued") \/ Goes(p, j, "owned"))
  <2>1. WorkerMoves(p, j)
    BY <1>1, <1>2, <1>4, WaitsMoves
  <2> QED  BY <1>1, <1>4, <2>1, NoMove DEF JobSteps
<1>5. CASE job[j].state \in Terminal /\ Retires(p, j) /\ UNCHANGED job
  <2>1. WorkerMoves(p, j)
    BY <1>5, RetiresMoves DEF Terminal
  <2> QED  BY <1>1, <1>5, <2>1, NoMove DEF JobSteps
<1> QED  BY <1>3, <1>4, <1>5 DEF StartJob

LEMMA RefuseStartStep ==
    ASSUME NEW p \in Process, NEW j \in Job, JobInv, RefuseStart(p, j)
    PROVE  JobSteps(p, j)
<1>1. /\ worker[p][j].stage = "queued"
      /\ UNCHANGED <<now, revision, process, signals, lost>>
  BY DEF RefuseStart, At
<1>2. worker[p][j].stage \notin Supervised /\ ~AnswersFor(worker[p][j], run[j])
  BY <1>1 DEF AnswersFor, Supervised
<1>3. CASE MayTransition(j, "failed") /\ Transition(j, "failed") /\ Retires(p, j)
  <2>1. JobMoves(j) /\ job'[j].state \notin Active  BY <1>3, TransitionMoves
  <2> QED  BY <1>1, <1>3, <2>1, RetiresMoves DEF JobSteps, Active
<1>4. CASE UNCHANGED <<job, run>> /\ Retires(p, j)
  BY <1>1, <1>2, <1>4, NoMove, RetiresMoves DEF JobSteps
<1>5. CASE UNCHANGED <<job, run>> /\ Goes(p, j, "owned")
  BY <1>1, <1>2, <1>5, NoMove, WaitsMoves DEF JobSteps
<1> QED  BY <1>3, <1>4, <1>5 DEF RefuseStart

LEMMA ClaimStep ==
    ASSUME NEW p \in Process, NEW j \in Job, JobInv, Claim(p, j)
    PROVE  JobSteps(p, j)
<1>0. /\ worker[p][j] \in Worker /\ WorkerOK(worker[p][j], job[j], run[j], now, revision)
      /\ now \in Time
  BY JobFacts
<1>1. /\ worker[p][j].stage = "queued" /\ UNCHANGED Store
  BY DEF Claim, At
<1>2. PICK w : w = [worker[p][j] EXCEPT !.stage = "claimed", !.since = now]
  OBVIOUS
<1>3. Becomes(p, j, w)  BY <1>2 DEF Claim
<1>4. /\ w.stage = "claimed" /\ w.plan = worker[p][j].plan /\ w.bound = worker[p][j].bound
      /\ w.since = now /\ w \in Worker
  BY <1>0, <1>2 DEF Worker, Stage, Stamp
<1>6. WorkerOK(w, job[j], run[j], now, revision)
  BY <1>0, <1>1, <1>4 DEF WorkerOK, Timed, Planned
<1> QED  BY <1>1, <1>3, <1>4, <1>6, NoMove, GoesOnMoves DEF JobSteps, Store, Supervised

LEMMA BeginRunningStep ==
    ASSUME NEW p \in Process, NEW j \in Job, JobInv, BeginRunning(p, j)
    PROVE  JobSteps(p, j)
<1>0. /\ worker[p][j] \in Worker /\ WorkerOK(worker[p][j], job[j], run[j], now, revision)
      /\ RowOK(job[j], run[j], now, revision) /\ now \in Time /\ job[j] \in Row
  BY JobFacts
<1>1. /\ worker[p][j].stage = "claimed" /\ worker[p][j].since \in Time /\ UNCHANGED run
      /\ UNCHANGED <<now, revision, process, signals, lost>>
  BY <1>0 DEF BeginRunning, At, WorkerOK
<1>2. ASSUME NEW t \in Time, t <= now,
             job[j].state # "absent", revision # "deleted",
             Becomes(p, j, [worker[p][j] EXCEPT !.stage = "compiling", !.started = t]),
             JobMoves(j), job'[j].state = "running", job'[j].started = t,
             job[j].state = "running" \/ run[j] = "none"
      PROVE  JobSteps(p, j)
  <2>1. PICK w : w = [worker[p][j] EXCEPT !.stage = "compiling", !.started = t]
    OBVIOUS
  <2>2. /\ w.stage = "compiling" /\ w.started = t /\ w.plan = worker[p][j].plan
        /\ w.bound = worker[p][j].bound /\ w \in Worker
    BY <1>0, <2>1 DEF Worker, Stage, Stamp
  <2>3. WorkerOK(w, job'[j], run'[j], now, revision)
    BY <1>0, <1>1, <1>2, <2>2 DEF WorkerOK, Timed, Planned, Begun, Time
  <2>4. StaysAttended(p, j, w)
    BY <1>1, <1>2, <2>2 DEF StaysAttended, AnswersFor, Supervised, Stage
  <2> QED  BY <1>1, <1>2, <2>1, <2>2, <2>3, <2>4 DEF JobSteps, WorkerMoves
<1>3. CASE /\ job[j].state = "queued"
           /\ \E t \in worker[p][j].since .. now :
                 /\ t <= LastStart
                 /\ job' = [job EXCEPT ![j].state = "running", ![j].started = t]
                 /\ Becomes(p, j, [worker[p][j] EXCEPT !.stage = "compiling", !.started = t])
  <2>1. PICK t \in worker[p][j].since .. now :
                 /\ t <= LastStart
                 /\ job' = [job EXCEPT ![j].state = "running", ![j].started = t]
                 /\ Becomes(p, j, [worker[p][j] EXCEPT !.stage = "compiling", !.started = t])
    BY <1>3
  <2>2. t \in Time /\ t <= now /\ t \in 0 .. now
    BY <1>0, <1>1, <2>1, TimeAssumption DEF Time
  <2>3. PICK r : r = [job[j] EXCEPT !.state = "running", !.started = t]
    OBVIOUS
  <2>4. r \in Row /\ r.state = "running" /\ r.started = t /\ r.cancel = job[j].cancel
    BY <1>0, <2>2, <2>3 DEF Row, State, Active, Stamp
  <2>5. job' = [job EXCEPT ![j] = r]
    BY <2>1, <2>3
  <2>6. job[j].cancel = None /\ run[j] = "none" /\ revision # "deleted"
    BY <1>0, <1>3 DEF RowOK
  <2>7. /\ RowOK(r, run[j], now, revision)
        /\ RowMoves(job[j], run[j], r, run[j], now)
    BY <1>3, <2>2, <2>4, <2>6
       DEF RowOK, RowProof, RowMoves, RowKept, PromiseMoves, TimelyMove, Begun, Terminal
  <2>8. JobMoves(j) /\ job'[j] = r
    BY <1>1, <2>4, <2>5, <2>7 DEF JobMoves, JobInv, Typed
  <2> QED  BY <1>2, <1>3, <2>1, <2>2, <2>4, <2>6, <2>8
<1>4. CASE /\ job[j].state = "running" /\ UNCHANGED job
           /\ Becomes(p, j, [worker[p][j] EXCEPT !.stage = "compiling",
                                                 !.started = job[j].started])
  <2>1. job[j].started \in Time /\ job[j].started <= now /\ revision # "deleted"
    BY <1>0, <1>4, TimeAssumption DEF RowOK, Time
  <2> QED  BY <1>1, <1>2, <1>4, <2>1, NoMove
<1>5. CASE job[j].state \notin Active /\ Retires(p, j) /\ UNCHANGED job
  BY <1>1, <1>5, NoMove, RetiresMoves DEF JobSteps, Active
<1>6. CASE UNCHANGED job /\ Goes(p, j, "owned")
  <2>1. WorkerMoves(p, j)
    BY <1>1, <1>6, WaitsMoves DEF Supervised
  <2> QED  BY <1>1, <1>6, <2>1, NoMove DEF JobSteps
<1> QED  BY <1>3, <1>4, <1>5, <1>6 DEF BeginRunning, Active, Terminal

\* A transition that the store refuses is left to the supervisor.
LEMMA EndsOrHandsOver ==
    ASSUME NEW p \in Process, NEW j \in Job, NEW to \in {"failed", "cancelled", "interrupted"},
           JobInv,
           IF MayTransition(j, to) THEN Transition(j, to) /\ Retires(p, j)
                                   ELSE Ensures(p, j) /\ UNCHANGED <<job, run>>,
           UNCHANGED <<now, revision, process, signals, lost>>
    PROVE  JobSteps(p, j)
<1>1. CASE MayTransition(j, to) /\ Transition(j, to) /\ Retires(p, j)
  <2>1. JobMoves(j) /\ job'[j].state \notin Active  BY <1>1, TransitionMoves
  <2> QED  BY <1>1, <2>1, RetiresMoves DEF JobSteps, Active
<1>2. CASE Ensures(p, j) /\ UNCHANGED <<job, run>>
  BY <1>2, NoMove, EnsuresMoves DEF JobSteps
<1> QED  BY <1>1, <1>2

LEMMA WorkerFailsStep ==
    ASSUME NEW p \in Process, NEW j \in Job, JobInv, WorkerFails(p, j)
    PROVE  JobSteps(p, j)
BY EndsOrHandsOver DEF WorkerFails

LEMMA FinishStopStep ==
    ASSUME NEW p \in Process, NEW j \in Job, JobInv, FinishStop(p, j)
    PROVE  JobSteps(p, j)
<1>1. worker[p][j].plan \in {"failed", "cancelled", "interrupted"}
  BY JobFacts DEF FinishStop, At, WorkerOK
<1> QED  BY <1>1, EndsOrHandsOver DEF FinishStop

LEMMA StopStep ==
    ASSUME NEW p \in Process, NEW j \in Job, JobInv, Stop(p, j)
    PROVE  JobSteps(p, j)
<1>0. worker[p][j] \in Worker /\ WorkerOK(worker[p][j], job[j], run[j], now, revision)
  BY JobFacts
<1>1. /\ worker[p][j].stage = "compiling"
      /\ UNCHANGED <<now, revision, job, run, process, signals, lost>>
  BY DEF Stop, At, Store
<1>2. CASE Ensures(p, j)
  BY <1>1, <1>2, NoMove, EnsuresMoves DEF JobSteps
<1>3. ASSUME NEW plan \in {"cancelled", "interrupted"},
             Becomes(p, j, [worker[p][j] EXCEPT
                !.stage = "stopping", !.token = FALSE, !.plan = plan])
      PROVE  JobSteps(p, j)
  <2>1. PICK w : w = [worker[p][j] EXCEPT !.stage = "stopping", !.token = FALSE, !.plan = plan]
    OBVIOUS
  <2>2. /\ w.stage = "stopping" /\ w.started = worker[p][j].started /\ w.plan = plan
        /\ w.bound = worker[p][j].bound /\ w \in Worker
    BY <1>0, <2>1 DEF Worker, Stage, Outcome
  <2>3. WorkerOK(w, job[j], run[j], now, revision)
    BY <1>0, <1>1, <2>2 DEF WorkerOK, Timed, Planned
  <2>4. w.stage \in Supervised
    BY <2>2 DEF Supervised, Stage
  <2> QED  BY <1>1, <1>3, <2>1, <2>2, <2>3, <2>4, NoMove, GoesOnMoves DEF JobSteps
<1> QED  BY <1>2, <1>3 DEF Stop

LEMMA CompiledStep ==
    ASSUME NEW p \in Process, NEW j \in Job, JobInv, Compiled(p, j)
    PROVE  JobSteps(p, j)
<1>0. worker[p][j] \in Worker /\ WorkerOK(worker[p][j], job[j], run[j], now, revision)
  BY JobFacts
<1>1. /\ worker[p][j].stage = "compiling" /\ Goes(p, j, "binding")
      /\ UNCHANGED <<now, revision, job, run, process, signals, lost>>
  BY DEF Compiled, At, Store
<1>2. PICK w \in Worker :
               /\ Becomes(p, j, w) /\ w.stage = "binding" /\ w.since = worker[p][j].since
               /\ w.started = worker[p][j].started /\ w.bound = worker[p][j].bound
               /\ w.plan = worker[p][j].plan
  BY <1>1, GoesFields DEF Stage
<1>3. WorkerOK(w, job[j], run[j], now, revision) /\ w.stage \in Supervised
  BY <1>0, <1>1, <1>2 DEF WorkerOK, Timed, Planned, Supervised, Stage
<1> QED  BY <1>1, <1>2, <1>3, NoMove, GoesOnMoves DEF JobSteps

LEMMA RecheckStep ==
    ASSUME NEW p \in Process, NEW j \in Job, JobInv, Recheck(p, j)
    PROVE  JobSteps(p, j)
<1>0. worker[p][j] \in Worker /\ WorkerOK(worker[p][j], job[j], run[j], now, revision)
  BY JobFacts
<1>1. /\ worker[p][j].stage = "bound"
      /\ UNCHANGED <<now, revision, job, run, process, signals, lost>>
  BY DEF Recheck, At, Store
<1>2. CASE Ensures(p, j)
  BY <1>1, <1>2, NoMove, EnsuresMoves DEF JobSteps
<1>3. CASE Goes(p, j, "solving")
  <2>1. PICK w \in Worker :
               /\ Becomes(p, j, w) /\ w.stage = "solving" /\ w.since = worker[p][j].since
               /\ w.started = worker[p][j].started /\ w.bound = worker[p][j].bound
               /\ w.plan = worker[p][j].plan
    BY <1>3, GoesFields DEF Stage
  <2>2. WorkerOK(w, job[j], run[j], now, revision) /\ w.stage \in Supervised
    BY <1>0, <1>1, <2>1 DEF WorkerOK, Timed, Planned, Supervised, Stage
  <2> QED  BY <1>1, <2>1, <2>2, NoMove, GoesOnMoves DEF JobSteps
<1> QED  BY <1>2, <1>3 DEF Recheck

LEMMA BindRunStep ==
    ASSUME NEW p \in Process, NEW j \in Job, JobInv, BindRun(p, j)
    PROVE  JobSteps(p, j)
<1>0. /\ worker[p][j] \in Worker /\ WorkerOK(worker[p][j], job[j], run[j], now, revision)
      /\ RowOK(job[j], run[j], now, revision)
  BY JobFacts
<1>1. /\ worker[p][j].stage = "binding" /\ UNCHANGED job
      /\ UNCHANGED <<now, revision, process, signals, lost>>
  BY DEF BindRun, At
<1>2. CASE Ensures(p, j) /\ UNCHANGED run
  BY <1>1, <1>2, NoMove, EnsuresMoves DEF JobSteps
<1>3. CASE Goes(p, j, "stale") /\ UNCHANGED run
  <2>1. PICK w \in Worker :
               /\ Becomes(p, j, w) /\ w.stage = "stale" /\ w.since = worker[p][j].since
               /\ w.started = worker[p][j].started /\ w.bound = worker[p][j].bound
               /\ w.plan = worker[p][j].plan
    BY <1>3, GoesFields DEF Stage
  <2>2. WorkerOK(w, job[j], run[j], now, revision) /\ w.stage \in Supervised
    BY <1>0, <1>1, <2>1 DEF WorkerOK, Timed, Planned, Supervised, Stage
  <2> QED  BY <1>1, <1>3, <2>1, <2>2, NoMove, GoesOnMoves DEF JobSteps
<1>4. CASE /\ MayBind(j) /\ revision = "asked" /\ run' = [run EXCEPT ![j] = "open"]
           /\ Becomes(p, j, [worker[p][j] EXCEPT !.stage = "bound", !.bound = TRUE])
  <2>1. PICK w : w = [worker[p][j] EXCEPT !.stage = "bound", !.bound = TRUE]
    OBVIOUS
  <2>2. /\ w.stage = "bound" /\ w.started = worker[p][j].started /\ w.bound = TRUE
        /\ w \in Worker
    BY <1>0, <2>1 DEF Worker, Stage
  <2>3. /\ run'[j] = "open" /\ run' \in [Job -> RunState]
        /\ \A k \in Job \ {j} : run'[k] = run[k]
    BY <1>4 DEF JobInv, Typed, RunState
  <2>4. RowOK(job[j], "open", now, revision) /\ RowMoves(job[j], run[j], job[j], "open", now)
    BY <1>0, <1>4 DEF MayBind, RowOK, RowProof, RowMoves, RowKept, PromiseMoves, TimelyMove
  <2>5. JobMoves(j)
    BY <1>1, <2>3, <2>4 DEF JobMoves, JobInv, Typed
  <2>6. WorkerOK(w, job[j], "open", now, revision)
    BY <1>0, <1>1, <2>2 DEF WorkerOK, Timed, Planned
  <2>7. StaysAttended(p, j, w)
    BY <2>2 DEF StaysAttended, AnswersFor, Supervised, Stage
  <2> QED  BY <1>1, <1>4, <2>1, <2>2, <2>3, <2>5, <2>6, <2>7 DEF JobSteps, WorkerMoves
<1> QED  BY <1>2, <1>3, <1>4 DEF BindRun

LEMMA JudgeStep ==
    ASSUME NEW p \in Process, NEW j \in Job, JobInv, Judge(p, j)
    PROVE  JobSteps(p, j)
<1>0. /\ worker[p][j] \in Worker /\ WorkerOK(worker[p][j], job[j], run[j], now, revision)
      /\ now \in Time
  BY JobFacts
<1>1. /\ worker[p][j].stage = "solving" /\ worker[p][j].bound
      /\ UNCHANGED <<now, revision, job, run, process, signals, lost>>
  BY <1>0 DEF Judge, At, Store, WorkerOK
<1>2. CASE Alarms(p, j)
  BY <1>1, <1>2, NoMove, AlarmsMoves DEF JobSteps
<1>3. ASSUME NEW plan \in Outcome, NEW observed \in Stamp, Judged(p, j, plan, observed),
             plan = "impossible" =>
                 observed \in worker[p][j].started .. worker[p][j].started + Budget - 1,
             plan # "alarm"
      PROVE  JobSteps(p, j)
  <2>1. PICK w : w = [worker[p][j] EXCEPT !.stage = "judged", !.token = FALSE,
                                          !.plan = plan, !.observed = observed]
    OBVIOUS
  <2>2. /\ w.stage = "judged" /\ w.started = worker[p][j].started /\ w.plan = plan
        /\ w.bound = worker[p][j].bound /\ w.observed = observed /\ w \in Worker
    BY <1>0, <2>1 DEF Worker, Stage
  <2>3. WorkerOK(w, job[j], run[j], now, revision) /\ w.stage \in Supervised
    BY <1>0, <1>1, <1>3, <2>2 DEF WorkerOK, Timed, Planned, Supervised, Stage
  <2>4. Becomes(p, j, w)  BY <1>3, <2>1 DEF Judged
  <2> QED  BY <1>1, <2>2, <2>3, <2>4, NoMove, GoesOnMoves DEF JobSteps
<1>4. CASE \E plan \in {"accepted", "undistinguished", "failed"} : Judged(p, j, plan, None)
  BY <1>3, <1>4 DEF Outcome, Stamp
<1>5. CASE Judged(p, j, "cancelled", None)
  BY <1>3, <1>5 DEF Outcome, Stamp
<1>6. CASE now < worker[p][j].started + Budget /\ Judged(p, j, "impossible", now)
  <2>1. worker[p][j].started \in 0 .. now
    BY <1>0, <1>1 DEF WorkerOK, Timed
  <2>2. now \in worker[p][j].started .. worker[p][j].started + Budget - 1
    BY <1>0, <1>6, <2>1, TimeAssumption DEF Time
  <2> QED  BY <1>0, <1>3, <1>6, <2>2 DEF Outcome, Stamp
<1> QED  BY <1>2, <1>4, <1>5, <1>6 DEF Judge

LEMMA DiagnosisAlarmStep ==
    ASSUME NEW p \in Process, NEW j \in Job, JobInv, DiagnosisAlarm(p, j)
    PROVE  JobSteps(p, j)
<1>1. /\ worker[p][j].bound /\ Alarms(p, j)
      /\ UNCHANGED <<now, revision, job, run, process, signals, lost>>
  BY JobFacts DEF DiagnosisAlarm, At, Store, WorkerOK, Planned
<1> QED  BY <1>1, NoMove, AlarmsMoves DEF JobSteps

LEMMA WorkerErrsStep ==
    ASSUME NEW p \in Process, NEW j \in Job, JobInv, WorkerErrs(p, j)
    PROVE  JobSteps(p, j)
BY NoMove, EnsuresMoves DEF WorkerErrs, Store, JobSteps

LEMMA ObserveStep ==
    ASSUME NEW p \in Process, NEW j \in Job, JobInv, Observe(p, j)
    PROVE  JobSteps(p, j)
<1>0. /\ worker[p][j] \in Worker /\ WorkerOK(worker[p][j], job[j], run[j], now, revision)
      /\ now \in Time /\ job[j] \in Row
  BY JobFacts
<1>1. /\ worker[p][j].stage = "judged"
      /\ UNCHANGED <<now, revision, job, run, process, signals, lost>>
  BY DEF Observe, At, Store
<1>2. CASE Ensures(p, j)
  BY <1>1, <1>2, NoMove, EnsuresMoves DEF JobSteps
<1>3. CASE Becomes(p, j, [worker[p][j] EXCEPT
                !.stage = "submitting", !.expected = job[j].cancel, !.finished = now,
                !.plan = IF @ = "accepted" /\ Expired(p, j) THEN "undistinguished" ELSE @])
  <2>1. PICK plan : plan = IF worker[p][j].plan = "accepted" /\ Expired(p, j)
                           THEN "undistinguished" ELSE worker[p][j].plan
    OBVIOUS
  <2>2. /\ plan \in Outcome
        /\ plan \in {"impossible", "alarm"} => plan = worker[p][j].plan
    BY <1>0, <1>1, <2>1 DEF WorkerOK, Planned, Outcome
  <2>3. PICK w : w = [worker[p][j] EXCEPT !.stage = "submitting", !.expected = job[j].cancel,
                                          !.finished = now, !.plan = plan]
    OBVIOUS
  <2>4. /\ w.stage = "submitting" /\ w.started = worker[p][j].started /\ w.plan = plan
        /\ w.bound = worker[p][j].bound /\ w.observed = worker[p][j].observed /\ w \in Worker
    BY <1>0, <2>2, <2>3 DEF Worker, Stage, Row, Stamp
  <2>5. WorkerOK(w, job[j], run[j], now, revision) /\ w.stage \in Supervised
    BY <1>0, <1>1, <2>2, <2>4 DEF WorkerOK, Timed, Planned, Supervised, Stage
  <2>6. Becomes(p, j, w)  BY <1>3, <2>1, <2>3
  <2> QED  BY <1>1, <2>4, <2>5, <2>6, NoMove, GoesOnMoves DEF JobSteps
<1> QED  BY <1>2, <1>3 DEF Observe

LEMMA SubmitStep ==
    ASSUME NEW p \in Process, NEW j \in Job, JobInv, Submit(p, j)
    PROVE  JobSteps(p, j)
<1>0. /\ worker[p][j] \in Worker /\ WorkerOK(worker[p][j], job[j], run[j], now, revision)
      /\ job[j] \in Row
  BY JobFacts
<1>1. /\ worker[p][j].stage = "submitting"
      /\ UNCHANGED <<now, revision, process, signals, lost>>
  BY DEF Submit, At
<1>2. CASE /\ UNCHANGED <<job, run>>
           /\ Becomes(p, j, [worker[p][j] EXCEPT !.stage = "retiming", !.expected = job[j].cancel])
  <2>1. PICK w : w = [worker[p][j] EXCEPT !.stage = "retiming", !.expected = job[j].cancel]
    OBVIOUS
  <2>2. /\ w.stage = "retiming" /\ w.started = worker[p][j].started
        /\ w.plan = worker[p][j].plan /\ w.bound = worker[p][j].bound
        /\ w.observed = worker[p][j].observed /\ w \in Worker
    BY <1>0, <2>1 DEF Worker, Stage, Row
  <2>3. WorkerOK(w, job[j], run[j], now, revision) /\ w.stage \in Supervised
    BY <1>0, <1>1, <2>2 DEF WorkerOK, Timed, Planned, Supervised, Stage
  <2> QED  BY <1>1, <1>2, <2>1, <2>2, <2>3, NoMove, GoesOnMoves DEF JobSteps
<1>3. CASE Accepts(j, worker[p][j]) /\ Finalize(j, worker[p][j]) /\ Retires(p, j)
  <2>1. JobMoves(j) /\ job'[j].state \notin Active  BY <1>0, <1>1, <1>3, FinalizeMoves
  <2> QED  BY <1>1, <1>3, <2>1, RetiresMoves DEF JobSteps, Active
<1>4. CASE job[j].state \in Terminal /\ Retires(p, j) /\ UNCHANGED <<job, run>>
  BY <1>1, <1>4, NoMove, RetiresMoves DEF JobSteps, Terminal
<1>5. CASE Ensures(p, j) /\ UNCHANGED <<job, run>>
  BY <1>1, <1>5, NoMove, EnsuresMoves DEF JobSteps
<1> QED  BY <1>2, <1>3, <1>4, <1>5 DEF Submit

LEMMA RetimeStep ==
    ASSUME NEW p \in Process, NEW j \in Job, JobInv, Retime(p, j)
    PROVE  JobSteps(p, j)
<1>0. /\ worker[p][j] \in Worker /\ WorkerOK(worker[p][j], job[j], run[j], now, revision)
      /\ now \in Time
  BY JobFacts
<1>1. /\ worker[p][j].stage = "retiming"
      /\ UNCHANGED <<now, revision, job, run, process, signals, lost>>
  BY DEF Retime, At, Store
<1>2. PICK plan : /\ plan \in {worker[p][j].plan, "cancelled"}
                  /\ Becomes(p, j, [worker[p][j] EXCEPT
                         !.stage = "resubmitting", !.finished = now, !.plan = plan])
  <2> DEFINE stands == worker[p][j].plan = "impossible"
                       /\ worker[p][j].expected > worker[p][j].observed
             chosen == IF stands THEN worker[p][j].plan ELSE "cancelled"
  <2>1. Becomes(p, j, [worker[p][j] EXCEPT
                         !.stage = "resubmitting", !.finished = now, !.plan = chosen])
    BY DEF Retime
  <2>2. chosen \in {worker[p][j].plan, "cancelled"}  OBVIOUS
  <2> HIDE DEF chosen
  <2> QED  BY <2>1, <2>2
<1>3. PICK w : w = [worker[p][j] EXCEPT !.stage = "resubmitting", !.finished = now, !.plan = plan]
  OBVIOUS
<1>4. plan \in Outcome  BY <1>0, <1>1, <1>2 DEF WorkerOK, Planned, Outcome
<1>5. /\ w.stage = "resubmitting" /\ w.started = worker[p][j].started /\ w.plan = plan
      /\ w.bound = worker[p][j].bound /\ w.observed = worker[p][j].observed /\ w \in Worker
  BY <1>0, <1>3, <1>4 DEF Worker, Stage, Stamp
<1>6. WorkerOK(w, job[j], run[j], now, revision) /\ w.stage \in Supervised
  BY <1>0, <1>1, <1>2, <1>4, <1>5 DEF WorkerOK, Timed, Planned, Supervised, Stage
<1>7. Becomes(p, j, w)  BY <1>2, <1>3
<1> QED  BY <1>1, <1>5, <1>6, <1>7, NoMove, GoesOnMoves DEF JobSteps

LEMMA ResubmitStep ==
    ASSUME NEW p \in Process, NEW j \in Job, JobInv, Resubmit(p, j)
    PROVE  JobSteps(p, j)
<1>0. worker[p][j] \in Worker /\ WorkerOK(worker[p][j], job[j], run[j], now, revision)
  BY JobFacts
<1>1. /\ worker[p][j].stage = "resubmitting"
      /\ UNCHANGED <<now, revision, process, signals, lost>>
  BY DEF Resubmit, At
<1>2. CASE Accepts(j, worker[p][j]) /\ Finalize(j, worker[p][j]) /\ Retires(p, j)
  <2>1. JobMoves(j) /\ job'[j].state \notin Active  BY <1>0, <1>1, <1>2, FinalizeMoves
  <2> QED  BY <1>1, <1>2, <2>1, RetiresMoves DEF JobSteps, Active
<1>3. CASE Ensures(p, j) /\ UNCHANGED <<job, run>>
  BY <1>1, <1>3, NoMove, EnsuresMoves DEF JobSteps
<1> QED  BY <1>2, <1>3 DEF Resubmit

LEMMA LeavesMoves ==
    ASSUME NEW p \in Process, NEW j \in Job, JobInv, Leaves(p, j),
           job'[j].state = "running" /\ job'[j].cancel = None =>
               /\ job[j].state = "running" /\ run'[j] = run[j]
               /\ ~AnswersFor(worker[p][j], run[j])
    PROVE  WorkerMoves(p, j)
<1>1. CASE Retires(p, j)
  BY <1>1, RetiresMoves
<1>2. CASE Becomes(p, j, [Idle EXCEPT !.stage = "settled"])
  <2>1. PICK w : w = [Idle EXCEPT !.stage = "settled"]
    OBVIOUS
  <2>2. w.stage = "settled" /\ w.plan = "none" /\ w.bound = FALSE /\ w \in Worker
    BY <2>1, IdleIsWorker DEF Idle, Worker, Stage
  <2>3. WorkerOK(w, job'[j], run'[j], now, revision)
    BY <2>2 DEF WorkerOK, Timed, Planned
  <2> QED  BY <1>2, <2>1, <2>2, <2>3 DEF WorkerMoves, StaysAttended
<1> QED  BY <1>1, <1>2 DEF Leaves

LEMMA EnsureTerminalStep ==
    ASSUME NEW p \in Process, NEW j \in Job, JobInv, EnsureTerminal(p, j)
    PROVE  JobSteps(p, j)
<1>0. /\ worker[p][j] \in Worker /\ WorkerOK(worker[p][j], job[j], run[j], now, revision)
      /\ now \in Time /\ job[j] \in Row
  BY JobFacts
<1>1. /\ worker[p][j].stage = "ensure"
      /\ UNCHANGED <<now, revision, job, run, process, signals, lost>>
  BY DEF EnsureTerminal, At, Store
<1>2. CASE job[j].state # "running" /\ Leaves(p, j)
  BY <1>1, <1>2, NoMove, LeavesMoves DEF JobSteps
<1>3. CASE Becomes(p, j, [worker[p][j] EXCEPT
                !.stage = "ending", !.expected = job[j].cancel, !.finished = now,
                !.plan = IF @ = "alarm" THEN @
                         ELSE IF job[j].cancel # None THEN "cancelled" ELSE "interrupted"])
  <2>1. PICK plan : plan = IF worker[p][j].plan = "alarm" THEN worker[p][j].plan
                           ELSE IF job[j].cancel # None THEN "cancelled" ELSE "interrupted"
    OBVIOUS
  <2>2. PICK w : w = [worker[p][j] EXCEPT !.stage = "ending", !.expected = job[j].cancel,
                                          !.finished = now, !.plan = plan]
    OBVIOUS
  <2>3. plan \in Outcome \cup {"none", "interrupted"}  BY <2>1 DEF Outcome
  <2>4. /\ w.stage = "ending" /\ w.expected = job[j].cancel /\ w.plan = plan
        /\ w.bound = worker[p][j].bound /\ w \in Worker
    BY <1>0, <2>2, <2>3 DEF Worker, Stage, Row, Stamp
  <2>5. WorkerOK(w, job[j], run[j], now, revision)
    BY <1>0, <1>1, <2>1, <2>4 DEF WorkerOK, Timed, Planned
  <2>6. w.stage \in Supervised  BY <2>4 DEF Supervised, Stage
  <2>7. Becomes(p, j, w)  BY <1>3, <2>1, <2>2
  <2> QED  BY <1>1, <2>4, <2>5, <2>6, <2>7, NoMove, GoesOnMoves DEF JobSteps
<1> QED  BY <1>2, <1>3 DEF EnsureTerminal

(***************************************************************************)
(* The one attempt of the supervisor suffices: what it read can only be    *)
(* stale by a cancellation, and a transition that the store refuses        *)
(* because the job owns a run is another worker's job.                     *)
(***************************************************************************)
LEMMA EndJobStep ==
    ASSUME NEW p \in Process, NEW j \in Job, JobInv, EndJob(p, j)
    PROVE  JobSteps(p, j)
<1>0. /\ worker[p][j] \in Worker /\ WorkerOK(worker[p][j], job[j], run[j], now, revision)
      /\ RowOK(job[j], run[j], now, revision)
  BY JobFacts
<1>1. /\ worker[p][j].stage = "ending" /\ Leaves(p, j)
      /\ UNCHANGED <<now, revision, process, signals, lost>>
  BY DEF EndJob, At
<1>2. worker[p][j].plan \in {"cancelled", "interrupted", "alarm"}
      /\ (~worker[p][j].bound => worker[p][j].plan \in {"failed", "cancelled", "interrupted"})
  BY <1>0, <1>1 DEF WorkerOK
<1>3. CASE Accepts(j, worker[p][j]) /\ Finalize(j, worker[p][j])
  <2>1. JobMoves(j) /\ job'[j].state \notin Active  BY <1>0, <1>1, <1>3, FinalizeMoves
  <2> QED  BY <1>1, <2>1, LeavesMoves DEF JobSteps, Active
<1>4. CASE /\ ~worker[p][j].bound /\ MayTransition(j, worker[p][j].plan)
           /\ Transition(j, worker[p][j].plan)
  <2>1. JobMoves(j) /\ job'[j].state \notin Active  BY <1>2, <1>4, TransitionMoves
  <2> QED  BY <1>1, <2>1, LeavesMoves DEF JobSteps, Active
<1>5. CASE /\ worker[p][j].bound => ~Accepts(j, worker[p][j])
           /\ ~worker[p][j].bound => ~MayTransition(j, worker[p][j].plan)
           /\ UNCHANGED <<job, run>>
  <2>1. SUFFICES ASSUME job[j].state = "running", job[j].cancel = None
                 PROVE  ~AnswersFor(worker[p][j], run[j])
    BY <1>1, <1>5, NoMove, LeavesMoves DEF JobSteps
  <2>2. revision # "deleted" /\ run[j] \in {"none", "open"}
    BY <1>0, <2>1 DEF RowOK
  <2>3. worker[p][j].expected = None /\ worker[p][j].plan \in {"interrupted", "alarm"}
    BY <1>0, <1>1, <2>1, <2>2 DEF WorkerOK
  <2>4. CASE worker[p][j].bound
    <3>1. run[j] = "open"  BY <1>0, <2>2, <2>4 DEF WorkerOK
    <3>2. Accepts(j, worker[p][j])
      BY <2>1, <2>3, <3>1 DEF Accepts, ObservationCurrent, MayFinalize
    <3> QED  BY <1>5, <2>4, <3>2
  <2>5. CASE ~worker[p][j].bound
    <3>1. worker[p][j].plan = "interrupted"  BY <1>0, <2>3, <2>5 DEF WorkerOK
    <3>2. run[j] # "none"
      BY <1>5, <2>1, <2>5, <3>1 DEF MayTransition
    <3> QED  BY <2>2, <2>5, <3>2 DEF AnswersFor
  <2> QED  BY <2>4, <2>5
<1> QED  BY <1>3, <1>4, <1>5 DEF EndJob

(***************************************************************************)
(* Such a step keeps the invariant.                                        *)
(***************************************************************************)
\* A worker that a step of its job leaves alone is still right about it.
LEMMA StillOK ==
    ASSUME NEW w, NEW r, NEW a, NEW r2, NEW a2, NEW t, NEW v,
           WorkerOK(w, r, a, t, v), RowKept(r, a, r2, a2)
    PROVE  WorkerOK(w, r2, a2, t, v)
BY DEF WorkerOK, RowKept, Begun, Terminal

LEMMA JobMovesKeep ==
    ASSUME NEW j \in Job, JobInv, JobMoves(j), UNCHANGED <<now, revision, lost>>,
           worker' \in [Process -> [Job -> Worker]],
           \A q \in Process, k \in Job \ {j} : worker'[q][k] = worker[q][k],
           \A q \in Process : WorkerOK(worker'[q][j], job'[j], run'[j], now, revision),
           process' \in [Process -> Pass], \A q \in Process : PassOK(process'[q], now),
           signals' \subseteq Process \X Job,
           Attended(j)'
    PROVE  JobInv'
<1>1. Typed'
  BY DEF JobInv, Typed, JobMoves
<1>2. ASSUME NEW k \in Job
      PROVE  RowOK(job'[k], run'[k], now', revision')
  BY DEF JobInv, JobMoves
<1>3. ASSUME NEW q \in Process, NEW k \in Job
      PROVE  WorkerOK(worker'[q][k], job'[k], run'[k], now', revision')
  <2>1. CASE k = j  BY <2>1
  <2>2. CASE k # j
    <3>1. worker'[q][k] = worker[q][k] /\ job'[k] = job[k] /\ run'[k] = run[k]
      BY <2>2 DEF JobMoves
    <3>2. WorkerOK(worker[q][k], job[k], run[k], now, revision)  BY JobFacts
    <3> QED  BY <3>1, <3>2
  <2> QED  BY <2>1, <2>2
<1>4. ASSUME NEW k \in Job
      PROVE  Attended(k)'
  <2>1. CASE k = j  BY <2>1
  <2>2. CASE k # j
    <3>1. job'[k] = job[k] /\ run'[k] = run[k] /\ \A q \in Process : worker'[q][k] = worker[q][k]
      BY <2>2 DEF JobMoves
    <3>2. Attended(k)  BY DEF JobInv
    <3> QED  BY <3>1, <3>2 DEF Attended
  <2> QED  BY <2>1, <2>2
<1>5. ASSUME NEW q \in Process
      PROVE  PassOK(process'[q], now')
  OBVIOUS
<1> QED  BY <1>1, <1>2, <1>3, <1>4, <1>5 DEF JobInv

LEMMA JobStepsKeep ==
    ASSUME NEW p \in Process, NEW j \in Job, JobInv, JobSteps(p, j)
    PROVE  JobInv'
<1>1. PICK w \in Worker : /\ Becomes(p, j, w)
                          /\ WorkerOK(w, job'[j], run'[j], now, revision)
                          /\ StaysAttended(p, j, w)
  BY DEF JobSteps, WorkerMoves
<1>2. worker \in [Process -> [Job -> Worker]]  BY DEF JobInv, Typed
<1>3. /\ worker' \in [Process -> [Job -> Worker]] /\ worker'[p][j] = w
      /\ \A q \in Process, k \in Job : q # p \/ k # j => worker'[q][k] = worker[q][k]
  BY <1>1, <1>2 DEF Becomes
<1>4. JobMoves(j) /\ UNCHANGED <<now, revision, process, signals, lost>>
  BY DEF JobSteps
<1>5. RowKept(job[j], run[j], job'[j], run'[j])
  BY <1>4 DEF JobMoves, RowMoves
<1>6. ASSUME NEW q \in Process
      PROVE  WorkerOK(worker'[q][j], job'[j], run'[j], now, revision)
  <2>1. CASE q = p  BY <1>1, <1>3, <2>1
  <2>2. CASE q # p  BY <1>3, <1>5, <2>2, JobFacts, StillOK
  <2> QED  BY <2>1, <2>2
<1>7. Attended(j)'
  <2>1. SUFFICES ASSUME job'[j].state = "running", job'[j].cancel = None, j \notin lost
                 PROVE  \E q \in Process : AnswersFor(worker'[q][j], run'[j])
    BY <1>4 DEF Attended
  <2>2. CASE AnswersFor(w, run'[j])  BY <1>3, <2>2
  <2>3. CASE /\ job[j].state = "running" /\ run'[j] = run[j]
             /\ ~AnswersFor(worker[p][j], run[j])
    <3>1. job[j].cancel = None  BY <1>5, <2>1 DEF RowKept
    <3>2. PICK q \in Process : AnswersFor(worker[q][j], run[j])
      BY <2>1, <2>3, <3>1 DEF JobInv, Attended
    <3> QED  BY <1>3, <2>3, <3>2
  <2> QED  BY <1>1, <2>1, <2>2, <2>3 DEF StaysAttended
<1>8. /\ process' \in [Process -> Pass] /\ signals' \subseteq Process \X Job
      /\ \A q \in Process : PassOK(process'[q], now)
  BY <1>4 DEF JobInv, Typed
<1> QED  BY <1>3, <1>4, <1>6, <1>7, <1>8, JobMovesKeep

(***************************************************************************)
(* The steps that leave every worker's place alone.                        *)
(***************************************************************************)
LEMMA CancelJobMoves ==
    ASSUME NEW p \in Process, NEW j \in Job, JobInv, CancelJob(p, j)
    PROVE  /\ JobMoves(j) /\ UNCHANGED <<now, revision, run, process, worker, lost>>
           /\ job'[j].cancel # None
<1>0. /\ RowOK(job[j], run[j], now, revision) /\ now \in Time /\ job[j] \in Row
  BY JobFacts
<1>1. ASSUME NEW s \in {"running", "cancelled"}, NEW t \in Time,
             job' = [job EXCEPT ![j] = [job[j] EXCEPT !.state = s, !.cancel = t]],
             job[j].state \in Active, job[j].cancel = None, run' = run,
             job[j].state = "running" <=> s = "running"
      PROVE  JobMoves(j) /\ job'[j].cancel # None
  <2>1. PICK r : r = [job[j] EXCEPT !.state = s, !.cancel = t]
    OBVIOUS
  <2>2. /\ r \in Row /\ r.state = s /\ r.cancel = t /\ r.started = job[j].started
    BY <1>0, <2>1 DEF Row, State, Active, Terminal, Stamp
  <2>3. job' = [job EXCEPT ![j] = r]  BY <1>1, <2>1
  <2>4. t # None /\ revision # "deleted"
    BY <1>0, <1>1, TimeAssumption DEF Time, RowOK, Active
  <2>5. RowOK(r, run[j], now, revision)
    BY <1>0, <1>1, <2>2, <2>4 DEF RowOK, RowProof, Active
  <2>6. RowMoves(job[j], run[j], r, run[j], now)
    BY <1>0, <1>1, <2>2, <2>4
       DEF RowOK, RowMoves, RowKept, PromiseMoves, TimelyMove, Begun, Terminal, Active
  <2> QED  BY <1>1, <2>2, <2>3, <2>4, <2>5, <2>6 DEF JobMoves, JobInv, Typed
<1>2. UNCHANGED <<now, revision, run, process, worker, lost>>
  BY DEF CancelJob
<1>3. CASE /\ job[j].state = "queued"
           /\ job' = [job EXCEPT ![j].state = "cancelled", ![j].cancel = now]
  BY <1>0, <1>1, <1>2, <1>3 DEF RowOK, Active
<1>4. CASE /\ job[j].state = "running" /\ job[j].cancel = None
           /\ \E t \in job[j].started .. now : job' = [job EXCEPT ![j].cancel = t]
  <2>1. PICK t \in job[j].started .. now : job' = [job EXCEPT ![j].cancel = t]
    BY <1>4
  <2>2. t \in Time
    BY <1>0, <1>4, TimeAssumption DEF RowOK, Time
  <2>3. [job[j] EXCEPT !.cancel = t] = [job[j] EXCEPT !.state = "running", !.cancel = t]
    BY <1>0, <1>4 DEF Row
  <2> QED  BY <1>1, <1>2, <1>4, <2>1, <2>2, <2>3 DEF Active
<1> QED  BY <1>2, <1>3, <1>4 DEF CancelJob

LEMMA CancelJobKeeps ==
    ASSUME NEW p \in Process, NEW j \in Job, JobInv, CancelJob(p, j)
    PROVE  JobInv'
<1>1. /\ JobMoves(j) /\ UNCHANGED <<now, revision, run, process, worker, lost>>
      /\ job'[j].cancel # None
  BY CancelJobMoves
<1>2. signals' \subseteq Process \X Job
  BY DEF CancelJob, JobInv, Typed
<1>3. RowKept(job[j], run[j], job'[j], run'[j])
  BY <1>1 DEF JobMoves, RowMoves
<1>4. ASSUME NEW q \in Process
      PROVE  WorkerOK(worker'[q][j], job'[j], run'[j], now, revision)
  BY <1>1, <1>3, JobFacts, StillOK
<1>5. Attended(j)'  BY <1>1 DEF Attended
<1>6. /\ process' \in [Process -> Pass] /\ worker' \in [Process -> [Job -> Worker]]
      /\ \A q \in Process : PassOK(process'[q], now)
  BY <1>1 DEF JobInv, Typed
<1> QED  BY <1>1, <1>2, <1>4, <1>5, <1>6, JobMovesKeep

LEMMA RecoverJobMoves ==
    ASSUME NEW p \in Process, NEW j \in Job, JobInv, RecoverJob(p, j)
    PROVE  /\ JobMoves(j) /\ UNCHANGED <<now, revision, worker, signals, lost>>
           /\ job'[j].state = "running" => job' = job /\ run' = run
<1>0. /\ RowOK(job[j], run[j], now, revision) /\ job[j] \in Row /\ run[j] \in RunState
  BY JobFacts
<1>1. UNCHANGED <<now, revision, worker, signals, lost>>
  BY DEF RecoverJob
<1>2. CASE UNCHANGED <<job, run>>
  BY <1>1, <1>2, NoMove
<1>3. CASE /\ Recoverable(p, j)
           /\ job' = [job EXCEPT ![j].state =
                         IF job[j].cancel # None THEN "cancelled" ELSE "interrupted"]
           /\ run' = [run EXCEPT ![j] = IF @ = "open" THEN "interrupted" ELSE @]
  <2>1. PICK s : s = IF job[j].cancel # None THEN "cancelled" ELSE "interrupted"
    OBVIOUS
  <2>2. PICK r : r = [job[j] EXCEPT !.state = s]
    OBVIOUS
  <2>3. PICK a : a = IF run[j] = "open" THEN "interrupted" ELSE run[j]
    OBVIOUS
  <2>4. job' = [job EXCEPT ![j] = r] /\ run' = [run EXCEPT ![j] = a]
    BY <1>3, <2>1, <2>2, <2>3
  <2>5. /\ r \in Row /\ r.state = s /\ r.cancel = job[j].cancel /\ r.started = job[j].started
        /\ a \in RunState
    BY <1>0, <2>1, <2>2, <2>3 DEF Row, State, Terminal, RunState
  <2>6. job[j].state = "running"  BY <1>3 DEF Recoverable
  <2>7. RowOK(r, a, now, revision)
    BY <1>0, <2>1, <2>5, <2>6 DEF RowOK, RowProof
  <2>8. RowMoves(job[j], run[j], r, a, now)
    <3>1. RowKept(job[j], run[j], r, a) /\ TimelyMove(job[j], r, now)
      BY <2>1, <2>3, <2>5 DEF RowKept, TimelyMove, Begun, Terminal
    <3>2. PromiseMoves(job[j].state, job[j].cancel # None, run[j], r.state, r.cancel # None, a)
      BY <1>0, <2>1, <2>3, <2>5, <2>6
         DEF RowOK, PromiseMoves, Promise!Terminal, Promise!Outcomes, Promise!Overriding
    <3> QED  BY <3>1, <3>2 DEF RowMoves
  <2>9. job \in [Job -> Row] /\ run \in [Job -> RunState]
    BY DEF JobInv, Typed
  <2> QED  BY <1>1, <2>1, <2>4, <2>5, <2>7, <2>8, <2>9 DEF JobMoves
<1> QED  BY <1>2, <1>3 DEF RecoverJob

LEMMA RecoverJobKeeps ==
    ASSUME NEW p \in Process, NEW j \in Job, JobInv, RecoverJob(p, j)
    PROVE  JobInv'
<1>1. /\ JobMoves(j) /\ UNCHANGED <<now, revision, worker, signals, lost>>
      /\ job'[j].state = "running" => job' = job /\ run' = run
  BY RecoverJobMoves
<1>2. process' \in [Process -> Pass] /\ \A q \in Process : PassOK(process'[q], now)
  <2>0. process \in [Process -> Pass] /\ \A q \in Process : PassOK(process[q], now)
    BY DEF JobInv, Typed
  <2>1. CASE process' = [process EXCEPT ![p] = Closed]
    BY <2>0, <2>1 DEF Closed, Pass, PassOK, Stamp
  <2>2. CASE process' = [process EXCEPT ![p].pending = @ \ {j}]
    <3>1. PICK s : s = [process[p] EXCEPT !.pending = @ \ {j}]
      OBVIOUS
    <3>2. s \in Pass /\ s.phase = process[p].phase /\ s.time = process[p].time
      BY <2>0, <3>1 DEF Pass
    <3>3. process' = [process EXCEPT ![p] = s]  BY <2>2, <3>1
    <3> QED  BY <2>0, <3>2, <3>3 DEF PassOK
  <2> QED  BY <2>1, <2>2 DEF RecoverJob
<1>3. RowKept(job[j], run[j], job'[j], run'[j])
  BY <1>1 DEF JobMoves, RowMoves
<1>4. ASSUME NEW q \in Process
      PROVE  WorkerOK(worker'[q][j], job'[j], run'[j], now, revision)
  BY <1>1, <1>3, JobFacts, StillOK
<1>5. Attended(j)'
  BY <1>1 DEF Attended, JobInv
<1>6. worker' \in [Process -> [Job -> Worker]] /\ signals' \subseteq Process \X Job
  BY <1>1 DEF JobInv, Typed
<1> QED  BY <1>1, <1>2, <1>4, <1>5, <1>6, JobMovesKeep

\* Only tokens change.
LEMMA TokensKeep ==
    ASSUME JobInv, UNCHANGED <<now, revision, job, run, process, lost>>,
           signals' \subseteq Process \X Job,
           worker' \in [Process -> [Job -> Worker]],
           \A q \in Process, k \in Job :
               /\ worker'[q][k].stage = worker[q][k].stage
               /\ worker'[q][k].since = worker[q][k].since
               /\ worker'[q][k].started = worker[q][k].started
               /\ worker'[q][k].bound = worker[q][k].bound
               /\ worker'[q][k].plan = worker[q][k].plan
               /\ worker'[q][k].observed = worker[q][k].observed
               /\ worker'[q][k].expected = worker[q][k].expected
    PROVE  JobInv'
<1>1. ASSUME NEW q \in Process, NEW k \in Job
      PROVE  WorkerOK(worker'[q][k], job'[k], run'[k], now', revision')
  BY JobFacts DEF WorkerOK
<1>2. ASSUME NEW k \in Job
      PROVE  Attended(k)'
  <2>1. Attended(k)  BY DEF JobInv
  <2> QED  BY <2>1 DEF Attended, AnswersFor
<1>3. Typed' /\ (\A q \in Process : PassOK(process'[q], now'))
      /\ (\A k \in Job : RowOK(job'[k], run'[k], now', revision'))
  BY DEF JobInv, Typed
<1> QED  BY <1>1, <1>2, <1>3 DEF JobInv

LEMMA TokenValue ==
    ASSUME NEW x, NEW S
    PROVE  \E b \in BOOLEAN : b = (x \in S)
<1>1. (x \in S) \in BOOLEAN  OBVIOUS
<1> WITNESS (x \in S) \in BOOLEAN
<1> QED  OBVIOUS

LEMMA TokenFields ==
    ASSUME NEW w \in Worker, NEW b \in BOOLEAN
    PROVE  LET v == [w EXCEPT !.token = b] IN
           /\ v \in Worker /\ v.stage = w.stage /\ v.since = w.since /\ v.started = w.started
           /\ v.bound = w.bound /\ v.plan = w.plan /\ v.observed = w.observed
           /\ v.expected = w.expected
BY DEF Worker

LEMMA SetTokenKeeps ==
    ASSUME NEW p \in Process, NEW j \in Job, JobInv, SetToken(p, j)
    PROVE  JobInv'
<1>1. PICK b \in BOOLEAN : b = (worker[p][j].stage \in Listening)
  BY TokenValue
<1>2. worker \in [Process -> [Job -> Worker]] /\ worker[p][j] \in Worker
  BY DEF JobInv, Typed
<1>3. PICK v : v = [worker[p][j] EXCEPT !.token = b]
  OBVIOUS
<1>4. /\ v \in Worker /\ v.stage = worker[p][j].stage /\ v.since = worker[p][j].since
      /\ v.started = worker[p][j].started /\ v.bound = worker[p][j].bound
      /\ v.plan = worker[p][j].plan /\ v.observed = worker[p][j].observed
      /\ v.expected = worker[p][j].expected
  BY <1>2, <1>3, TokenFields
<1>5. worker' = [worker EXCEPT ![p][j] = v]
  BY <1>1, <1>3 DEF SetToken
<1>6. /\ worker' \in [Process -> [Job -> Worker]] /\ worker'[p][j] = v
      /\ \A q \in Process, k \in Job : q # p \/ k # j => worker'[q][k] = worker[q][k]
  BY <1>2, <1>4, <1>5
<1>7. signals' \subseteq Process \X Job /\ UNCHANGED <<now, revision, job, run, process, lost>>
  BY DEF SetToken, JobInv, Typed
<1> HIDE DEF SetToken
<1>8. ASSUME NEW q \in Process, NEW k \in Job
      PROVE    /\ worker'[q][k].stage = worker[q][k].stage
               /\ worker'[q][k].since = worker[q][k].since
               /\ worker'[q][k].started = worker[q][k].started
               /\ worker'[q][k].bound = worker[q][k].bound
               /\ worker'[q][k].plan = worker[q][k].plan
               /\ worker'[q][k].observed = worker[q][k].observed
               /\ worker'[q][k].expected = worker[q][k].expected
  <2>1. CASE q = p /\ k = j  BY <1>4, <1>6, <2>1
  <2>2. CASE q # p \/ k # j  BY <1>6, <2>2
  <2> QED  BY <2>1, <2>2
<1> QED  BY <1>6, <1>7, <1>8, TokensKeep

LEMMA ShutdownKeeps ==
    ASSUME NEW p \in Process, JobInv, Shutdown(p)
    PROVE  JobInv'
<1>1. worker \in [Process -> [Job -> Worker]]  BY DEF JobInv, Typed
<1>2. PICK ws : ws = [j \in Job |-> [worker[p][j] EXCEPT !.token = worker[p][j].stage \in Listening]]
  OBVIOUS
<1>3. worker' = [worker EXCEPT ![p] = ws]
  BY <1>2 DEF Shutdown
<1>4. ASSUME NEW k \in Job
      PROVE  /\ ws[k] \in Worker /\ ws[k].stage = worker[p][k].stage
             /\ ws[k].since = worker[p][k].since
             /\ ws[k].started = worker[p][k].started /\ ws[k].bound = worker[p][k].bound
             /\ ws[k].plan = worker[p][k].plan /\ ws[k].observed = worker[p][k].observed
             /\ ws[k].expected = worker[p][k].expected
  <2>1. PICK b \in BOOLEAN : b = (worker[p][k].stage \in Listening)
    BY TokenValue
  <2>2. ws[k] = [worker[p][k] EXCEPT !.token = b]
    BY <1>2, <2>1
  <2>3. worker[p][k] \in Worker  BY <1>1
  <2> HIDE <1>2
  <2> QED  BY <2>2, <2>3, TokenFields
<1>5. ws \in [Job -> Worker]
  BY <1>2, <1>4
<1>6. /\ worker' \in [Process -> [Job -> Worker]] /\ worker'[p] = ws
      /\ \A q \in Process \ {p} : worker'[q] = worker[q]
  BY <1>1, <1>3, <1>5
<1>7. signals' \subseteq Process \X Job /\ UNCHANGED <<now, revision, job, run, process, lost>>
  BY DEF Shutdown, Store, JobInv, Typed
<1>8. ASSUME NEW q \in Process, NEW k \in Job
      PROVE    /\ worker'[q][k].stage = worker[q][k].stage
               /\ worker'[q][k].since = worker[q][k].since
               /\ worker'[q][k].started = worker[q][k].started
               /\ worker'[q][k].bound = worker[q][k].bound
               /\ worker'[q][k].plan = worker[q][k].plan
               /\ worker'[q][k].observed = worker[q][k].observed
               /\ worker'[q][k].expected = worker[q][k].expected
  <2>1. CASE q = p  BY <1>4, <1>6, <2>1
  <2>2. CASE q # p  BY <1>6, <2>2
  <2> QED  BY <2>1, <2>2
<1> QED  BY <1>6, <1>7, <1>8, TokensKeep

(***************************************************************************)
(* Processes, the scenario and the clock.                                  *)
(***************************************************************************)
LEMMA ExitKeeps ==
    ASSUME NEW p \in Process, JobInv, Exit(p)
    PROVE  JobInv'
<1>0. /\ worker \in [Process -> [Job -> Worker]] /\ process \in [Process -> Pass]
      /\ UNCHANGED <<now, revision, job, run>>
      /\ process' = [process EXCEPT ![p] = Closed]
      /\ worker' = [worker EXCEPT ![p] = [j \in Job |-> Idle]]
      /\ lost' = lost \cup {j \in Job : worker[p][j].stage \in Supervised}
  BY DEF Exit, JobInv, Typed
<1>1. /\ worker' \in [Process -> [Job -> Worker]]
      /\ \A k \in Job : worker'[p][k] = Idle
      /\ \A q \in Process \ {p}, k \in Job : worker'[q][k] = worker[q][k]
  BY <1>0, IdleIsWorker
<1>2. process' \in [Process -> Pass] /\ \A q \in Process : PassOK(process'[q], now')
  BY <1>0 DEF Closed, Pass, PassOK, Stamp, JobInv
<1>3. Typed'
  BY <1>0, <1>1, <1>2 DEF JobInv, Typed, Exit
<1>4. ASSUME NEW q \in Process, NEW k \in Job
      PROVE  WorkerOK(worker'[q][k], job'[k], run'[k], now', revision')
  <2>1. CASE q = p  BY <1>1, <2>1, IdleOK
  <2>2. CASE q # p  BY <1>0, <1>1, <2>2, JobFacts
  <2> QED  BY <2>1, <2>2
<1>5. ASSUME NEW k \in Job
      PROVE  Attended(k)'
  <2>1. SUFFICES ASSUME job[k].state = "running", job[k].cancel = None, k \notin lost'
                 PROVE  \E q \in Process : AnswersFor(worker'[q][k], run[k])
    BY <1>0 DEF Attended
  <2>2. PICK q \in Process : AnswersFor(worker[q][k], run[k])
    BY <1>0, <2>1 DEF JobInv, Attended
  <2>3. q # p
    BY <1>0, <2>1, <2>2 DEF AnswersFor
  <2> QED  BY <1>1, <2>2, <2>3
<1>6. \A k \in Job : RowOK(job'[k], run'[k], now', revision')
  BY <1>0 DEF JobInv
<1> QED  BY <1>2, <1>3, <1>4, <1>5, <1>6 DEF JobInv

\* A pass begins at the present time, and one that is over binds nothing.
LEMMA ProcessKeeps ==
    ASSUME NEW p \in Process, JobInv, OpenStore(p) \/ OpenDone(p)
    PROVE  JobInv'
<1>0. /\ process \in [Process -> Pass] /\ now \in Time
      /\ \A q \in Process : PassOK(process[q], now)
      /\ UNCHANGED <<now, revision, job, run, worker, signals, lost>>
  BY DEF OpenStore, OpenDone, JobInv, Typed
<1>1. PICK s \in Pass : process' = [process EXCEPT ![p] = s] /\ PassOK(s, now)
  <2>1. CASE OpenStore(p)
    <3>1. PICK s : s = [phase |-> "opening", time |-> now,
                        pending |-> {j \in Job : job[j].state = "running"}]
      OBVIOUS
    <3>2. s \in Pass /\ s.time = now
      BY <1>0, <3>1 DEF Pass, Stamp
    <3>3. PassOK(s, now)
      BY <1>0, <3>2, TimeAssumption DEF PassOK, Time
    <3> QED  BY <2>1, <3>1, <3>2, <3>3 DEF OpenStore
  <2>2. CASE OpenDone(p)
    <3>1. PICK s : s = [phase |-> "open", time |-> None, pending |-> {}]
      OBVIOUS
    <3>2. s \in Pass /\ PassOK(s, now)
      BY <3>1 DEF Pass, Stamp, PassOK
    <3> QED  BY <2>2, <3>1, <3>2 DEF OpenDone
  <2> QED  BY <2>1, <2>2
<1>2. process' \in [Process -> Pass] /\ \A q \in Process : PassOK(process'[q], now')
  BY <1>0, <1>1
<1>3. Typed'  BY <1>0, <1>2 DEF JobInv, Typed
<1>4. ASSUME NEW k \in Job
      PROVE  /\ Attended(k)' /\ RowOK(job'[k], run'[k], now', revision')
             /\ \A q \in Process : WorkerOK(worker'[q][k], job'[k], run'[k], now', revision')
  <2>1. Attended(k)  BY DEF JobInv
  <2> QED  BY <1>0, <2>1 DEF JobInv, Attended
<1> QED  BY <1>2, <1>3, <1>4 DEF JobInv

LEMMA EditScenarioKeeps ==
    ASSUME JobInv, EditScenario
    PROVE  JobInv'
<1>0. /\ revision = "asked" /\ revision' = "edited"
      /\ UNCHANGED <<now, job, run, process, worker, signals, lost>>
  BY DEF EditScenario
<1>1. Typed' /\ \A q \in Process : PassOK(process'[q], now')
  BY <1>0 DEF JobInv, Typed
<1>2. ASSUME NEW k \in Job
      PROVE  Attended(k)' /\ RowOK(job'[k], run'[k], now', revision')
  <2>1. Attended(k) /\ RowOK(job[k], run[k], now, revision)  BY DEF JobInv
  <2> QED  BY <1>0, <2>1 DEF Attended, RowOK
<1>3. ASSUME NEW q \in Process, NEW k \in Job
      PROVE  WorkerOK(worker'[q][k], job'[k], run'[k], now', revision')
  BY <1>0, JobFacts DEF WorkerOK
<1> QED  BY <1>1, <1>2, <1>3 DEF JobInv

LEMMA DeleteScenarioKeeps ==
    ASSUME JobInv, DeleteScenario
    PROVE  JobInv'
<1>0. /\ revision' = "deleted" /\ job' = [j \in Job |-> Absent] /\ run' = [j \in Job |-> "none"]
      /\ UNCHANGED <<now, process, worker, signals, lost>>
  BY DEF DeleteScenario
<1>1. Absent \in Row /\ Absent.state = "absent" /\ Absent.cancel = None
  BY DEF Absent, Row, State, Stamp
<1>2. Typed' /\ \A q \in Process : PassOK(process'[q], now')
  BY <1>0, <1>1 DEF JobInv, Typed, RunState
<1>3. ASSUME NEW k \in Job
      PROVE  Attended(k)' /\ RowOK(job'[k], run'[k], now', revision')
  <2>1. job'[k] = Absent /\ run'[k] = "none"  BY <1>0
  <2> QED  BY <1>1, <2>1 DEF Attended, RowOK, RowProof
<1>4. ASSUME NEW q \in Process, NEW k \in Job
      PROVE  WorkerOK(worker'[q][k], job'[k], run'[k], now', revision')
  BY <1>0, JobFacts DEF WorkerOK
<1> QED  BY <1>2, <1>3, <1>4 DEF JobInv

LEMMA TickKeeps ==
    ASSUME JobInv, Tick
    PROVE  JobInv'
<1>0. /\ now' = now + 1 /\ now < MaxTime /\ now \in Time
      /\ UNCHANGED <<revision, job, run, process, worker, signals, lost>>
  BY DEF Tick, JobInv, Typed
<1>1. now' \in Time /\ 0 .. now \subseteq 0 .. now'
  BY <1>0, TimeAssumption DEF Time
<1>2. Typed'  BY <1>0, <1>1 DEF JobInv, Typed
<1>3. ASSUME NEW q \in Process
      PROVE  PassOK(process'[q], now')
  BY <1>0, <1>1 DEF JobInv, PassOK
<1>4. ASSUME NEW k \in Job
      PROVE  Attended(k)' /\ RowOK(job'[k], run'[k], now', revision')
  <2>1. Attended(k) /\ RowOK(job[k], run[k], now, revision)  BY DEF JobInv
  <2>2. RowOK(job[k], run[k], now', revision)
    BY <1>1, <2>1 DEF RowOK
  <2> QED  BY <1>0, <2>1, <2>2 DEF Attended
<1>5. ASSUME NEW q \in Process, NEW k \in Job
      PROVE  WorkerOK(worker'[q][k], job'[k], run'[k], now', revision')
  <2>1. WorkerOK(worker[q][k], job[k], run[k], now, revision)  BY JobFacts
  <2>2. WorkerOK(worker[q][k], job[k], run[k], now', revision)
    BY <1>1, <2>1 DEF WorkerOK
  <2> QED  BY <1>0, <2>2
<1> QED  BY <1>2, <1>3, <1>4, <1>5 DEF JobInv

LEMMA InitInv == Init => JobInv
<1> SUFFICES ASSUME Init PROVE JobInv
  OBVIOUS
<1> USE DEF Init
<1>1. Absent \in Row /\ Absent.state = "absent" /\ Absent.cancel = None
  BY DEF Absent, Row, State, Stamp
<1>2. Typed
  BY <1>1, IdleIsWorker, TimeAssumption DEF Typed, Time, RunState, Pass, Stamp
<1>3. ASSUME NEW k \in Job
      PROVE  Attended(k) /\ RowOK(job[k], run[k], now, revision)
  BY <1>1 DEF Attended, RowOK, RowProof
<1>4. ASSUME NEW q \in Process, NEW k \in Job
      PROVE  WorkerOK(worker[q][k], job[k], run[k], now, revision)
  BY IdleOK
<1>5. \A q \in Process : PassOK(process[q], now)
  BY DEF PassOK
<1> QED  BY <1>2, <1>3, <1>4, <1>5 DEF JobInv

LEMMA StutterKeeps ==
    ASSUME JobInv, UNCHANGED vars
    PROVE  JobInv'
<1>1. Typed' /\ \A q \in Process : PassOK(process'[q], now')
  BY DEF JobInv, Typed, vars
<1>2. ASSUME NEW k \in Job
      PROVE  /\ Attended(k)' /\ RowOK(job'[k], run'[k], now', revision')
             /\ \A q \in Process : WorkerOK(worker'[q][k], job'[k], run'[k], now', revision')
  <2>1. Attended(k)  BY DEF JobInv
  <2> QED  BY <2>1 DEF JobInv, Attended, vars
<1> QED  BY <1>1, <1>2 DEF JobInv

LEMMA WorkerStepSteps ==
    ASSUME NEW p \in Process, NEW j \in Job, JobInv, StartJob(p, j) \/ WorkerStep(p, j)
    PROVE  JobSteps(p, j)
BY StartJobStep, RefuseStartStep, ClaimStep, BeginRunningStep, WorkerFailsStep, StopStep,
   FinishStopStep, CompiledStep, BindRunStep, RecheckStep, JudgeStep, DiagnosisAlarmStep,
   WorkerErrsStep, ObserveStep, SubmitStep, RetimeStep, ResubmitStep, EnsureTerminalStep,
   EndJobStep DEF WorkerStep

LEMMA NextInv == JobInv /\ [Next]_vars => JobInv'
<1> SUFFICES ASSUME JobInv, [Next]_vars PROVE JobInv'
  OBVIOUS
<1>1. ASSUME NEW p \in Process, NEW j \in Job, StartJob(p, j) \/ WorkerStep(p, j)
      PROVE  JobInv'
  BY <1>1, WorkerStepSteps, JobStepsKeep
<1>2. ASSUME NEW p \in Process, NEW j \in Job,
             CancelJob(p, j) \/ SetToken(p, j) \/ RecoverJob(p, j)
      PROVE  JobInv'
  BY <1>2, CancelJobKeeps, SetTokenKeeps, RecoverJobKeeps
<1>3. ASSUME NEW p \in Process, Shutdown(p) \/ Exit(p) \/ OpenStore(p) \/ OpenDone(p)
      PROVE  JobInv'
  BY <1>3, ShutdownKeeps, ExitKeeps, ProcessKeeps
<1>4. CASE EditScenario \/ DeleteScenario \/ Tick
  BY <1>4, EditScenarioKeeps, DeleteScenarioKeeps, TickKeeps
<1>5. CASE UNCHANGED vars
  BY <1>5, StutterKeeps
<1> QED  BY <1>1, <1>2, <1>3, <1>4, <1>5 DEF Next

LEMMA InvHolds == Spec => []JobInv
BY InitInv, NextInv, PTL DEF Spec

(***************************************************************************)
(* The theorems.                                                           *)
(***************************************************************************)
\* Rows, runs, workers and passes keep their shape, for any processes, jobs,
\* budgets and clocks.
THEOREM JobsStayTyped == Spec => []TypeOK
<1>1. JobInv => TypeOK
  <2> SUFFICES ASSUME JobInv PROVE TypeOK
    OBVIOUS
  <2>1. ASSUME NEW j \in Job
        PROVE  /\ job[j].state = "running" => job[j].started # None
               /\ job[j].state = "queued" => job[j].cancel = None
    <3>1. RowOK(job[j], run[j], now, revision)  BY DEF JobInv
    <3> QED  BY <3>1, TimeAssumption DEF RowOK
  <2> QED  BY <2>1 DEF JobInv, Typed, TypeOK, Row, State, RunState, Pass
<1> QED  BY <1>1, InvHolds, PTL

\* A running job that nobody works on was cancelled or lost its process: the
\* single attempt of a supervisor never leaves one behind.
THEOREM NoJobIsLeftRunning == Spec => []NeverLeftRunning
<1>1. JobInv => NeverLeftRunning
  BY DEF JobInv, Attended, AnswersFor, NeverLeftRunning, Working
<1> QED  BY <1>1, InvHolds, PTL

\* What was accepted as impossible was observed in the job's time and before
\* its cancellation, whatever the store learned when.
THEOREM ProofsAlwaysStand == Spec => []ProofStands
<1>1. JobInv => ProofStands
  <2> SUFFICES ASSUME JobInv, NEW j \in Job, job[j].state = "completed"
               PROVE  /\ run[j] = "impossible" => job[j].proof \in job[j].started .. Deadline(j) - 1
                      /\ job[j].cancel # None => job[j].proof # None /\ job[j].proof < job[j].cancel
    BY DEF ProofStands
  <2>1. RowProof(job[j], run[j])
    BY DEF JobInv, RowOK
  <2> QED  BY <2>1 DEF RowProof, Deadline
<1> QED  BY <1>1, InvHolds, PTL

\* A step of one job, or one that leaves all jobs as they are, or deletes them.
LEMMA EveryStepMoves ==
    ASSUME JobInv, [Next]_vars
    PROVE  \/ \E j \in Job : JobMoves(j)
           \/ UNCHANGED <<job, run>>
           \/ job' = [j \in Job |-> Absent] /\ run' = [j \in Job |-> "none"]
<1>1. ASSUME NEW p \in Process, NEW j \in Job, StartJob(p, j) \/ WorkerStep(p, j)
      PROVE  JobMoves(j)
  BY <1>1, WorkerStepSteps DEF JobSteps
<1>2. ASSUME NEW p \in Process, NEW j \in Job, CancelJob(p, j) \/ RecoverJob(p, j)
      PROVE  JobMoves(j)
  BY <1>2, CancelJobMoves, RecoverJobMoves
<1>3. ASSUME NEW p \in Process, NEW j \in Job, SetToken(p, j)
      PROVE  UNCHANGED <<job, run>>
  BY <1>3 DEF SetToken
<1>4. ASSUME NEW p \in Process, Shutdown(p) \/ Exit(p) \/ OpenStore(p) \/ OpenDone(p)
      PROVE  UNCHANGED <<job, run>>
  BY <1>4 DEF Shutdown, Exit, OpenStore, OpenDone, Store
<1>5. CASE EditScenario \/ Tick \/ UNCHANGED vars
  BY <1>5 DEF EditScenario, Tick, vars
<1>6. CASE DeleteScenario
  BY <1>6 DEF DeleteScenario
<1> QED  BY <1>1, <1>2, <1>3, <1>4, <1>5, <1>6 DEF Next

\* No answer is taken while a pass that would interrupt its job is under way.
THEOREM AnswersPrecedeRecovery == Spec => CompletionBeforeRecovery
<1>1. JobInv /\ [Next]_vars =>
          [\A j \in Job : job[j].state = "running" /\ job'[j].state = "completed" =>
              \A p \in Process : process[p].phase = "opening" => ~Recoverable(p, j)]_vars
  <2> SUFFICES ASSUME JobInv, [Next]_vars, NEW k \in Job, NEW p \in Process,
                      job[k].state = "running", job'[k].state = "completed",
                      process[p].phase = "opening", Recoverable(p, k)
               PROVE  FALSE
    OBVIOUS
  <2>1. JobMoves(k)
    <3>1. CASE \E j \in Job : JobMoves(j)
      BY <3>1 DEF JobMoves
    <3>2. CASE UNCHANGED <<job, run>>
      BY <3>2
    <3>3. CASE job' = [j \in Job |-> Absent]
      BY <3>3 DEF Absent
    <3> QED  BY <3>1, <3>2, <3>3, EveryStepMoves
  <2>2. now < job[k].started + Budget + Grace
    BY <2>1 DEF JobMoves, RowMoves, TimelyMove
  <2>3. process[p].time >= job[k].started + Budget + Grace
    BY DEF Recoverable, Cutoff, Deadline
  <2>4. process[p].time \in 0 .. now /\ now \in Time /\ job[k].started \in 0 .. now
    BY DEF JobInv, Typed, PassOK, RowOK
  <2> QED  BY <2>2, <2>3, <2>4, TimeAssumption DEF Time
<1> QED  BY <1>1, InvHolds, PTL DEF Spec, CompletionBeforeRecovery

(***************************************************************************)
(* The refinement.                                                         *)
(***************************************************************************)
StateOf == [j \in Job |-> job[j].state]

AskedOf == [j \in Job |-> job[j].cancel # None]

LEMMA MoveIsPromised ==
    ASSUME NEW j \in Job, JobInv, JobMoves(j)
    PROVE  Promise!Next \/ UNCHANGED <<StateOf, AskedOf, run>>
<1>1. /\ StateOf' = [StateOf EXCEPT ![j] = job'[j].state]
      /\ AskedOf' = [AskedOf EXCEPT ![j] = job'[j].cancel # None]
      /\ run' = [run EXCEPT ![j] = run'[j]]
  BY DEF StateOf, AskedOf, JobMoves, JobInv, Typed
<1>2. StateOf[j] = job[j].state /\ AskedOf[j] = (job[j].cancel # None)
  BY DEF StateOf, AskedOf
<1>3. PromiseMoves(job[j].state, job[j].cancel # None, run[j],
                   job'[j].state, job'[j].cancel # None, run'[j])
  BY DEF JobMoves, RowMoves
<1>4. ASSUME NEW s, NEW c \in BOOLEAN, NEW a,
             s = job'[j].state, c <=> job'[j].cancel # None, a = run'[j]
      PROVE  Promise!Becomes(j, s, c, a)
  <2>1. c = (job'[j].cancel # None)  BY <1>4
  <2> QED  BY <1>1, <1>4, <2>1 DEF Promise!Becomes, StateOf, AskedOf
<1> DEFINE c == job[j].cancel # None
           c2 == job'[j].cancel # None
           s == job[j].state
           s2 == job'[j].state
           a == run[j]
           a2 == run'[j]
<1>5. CASE s2 = s /\ c2 = c /\ a2 = a
  <2>1. \A k \in Job : /\ job'[k].state = job[k].state /\ run'[k] = run[k]
                       /\ (job'[k].cancel # None) = (job[k].cancel # None)
    BY <1>5 DEF JobMoves
  <2>2. StateOf' = StateOf /\ AskedOf' = AskedOf
    BY <2>1 DEF StateOf, AskedOf
  <2>3. run' = run
    BY <2>1 DEF JobMoves, JobInv, Typed
  <2> QED  BY <2>2, <2>3
<1>6. CASE s = "absent" /\ s2 = "queued" /\ ~c2 /\ a2 = "none"
  BY <1>2, <1>4, <1>6 DEF Promise!Next, Promise!Queue, StateOf
<1>7. CASE s = "queued" /\ s2 = "running" /\ ~c2 /\ a2 = "none"
  BY <1>2, <1>4, <1>7 DEF Promise!Next, Promise!Start, StateOf
<1>8. CASE s = "running" /\ ~c /\ a = "none" /\ s2 = "running" /\ ~c2 /\ a2 = "open"
  BY <1>2, <1>4, <1>8 DEF Promise!Next, Promise!Bind, StateOf, AskedOf
<1>9. CASE s = "running" /\ ~c /\ s2 = "running" /\ c2 /\ a2 = a
  <2>0. TRUE = (job'[j].cancel # None)  BY <1>9
  <2>1. Promise!Becomes(j, "running", TRUE, run[j])
    BY <1>1, <1>9, <2>0 DEF Promise!Becomes, StateOf, AskedOf
  <2> QED  BY <1>2, <1>9, <2>1 DEF Promise!Next, Promise!Ask, StateOf, AskedOf
<1>10. CASE s = "queued" /\ s2 = "failed" /\ ~c2 /\ a2 = "none"
  BY <1>2, <1>4, <1>10 DEF Promise!Next, Promise!EndQueued, StateOf
<1>11. CASE s = "queued" /\ s2 = "cancelled" /\ c2 /\ a2 = "none"
  BY <1>2, <1>4, <1>11 DEF Promise!Next, Promise!EndQueued, StateOf
<1>12. CASE /\ s = "running" /\ a = "none" /\ c2 = c /\ a2 = "none"
            /\ s2 \in IF c THEN {"cancelled"} ELSE {"failed", "interrupted"}
  BY <1>2, <1>4, <1>12 DEF Promise!Next, Promise!EndUnbound, StateOf, AskedOf
<1>13. CASE /\ s = "running" /\ a = "open" /\ c2 = c
            /\ s2 \in Promise!Terminal /\ a2 \in Promise!Outcomes[s2]
            /\ c => s2 = "cancelled" \/ a2 \in Promise!Overriding
            /\ s2 = "cancelled" => c
  BY <1>2, <1>4, <1>13 DEF Promise!Next, Promise!EndBound, StateOf, AskedOf
<1> QED  BY <1>3, <1>5, <1>6, <1>7, <1>8, <1>9, <1>10, <1>11, <1>12, <1>13 DEF PromiseMoves

LEMMA PromiseInit == Init => Promise!Init
<1> SUFFICES ASSUME Init PROVE Promise!Init
  OBVIOUS
<1>1. \A j \in Job : job[j].state = "absent" /\ (job[j].cancel # None) = FALSE
  BY DEF Init, Absent
<1> QED  BY <1>1 DEF Init, Promise!Init

LEMMA PromiseNext ==
    JobInv /\ [Next]_vars => [Promise!Next]_<<StateOf, AskedOf, run>>
<1> SUFFICES ASSUME JobInv, [Next]_vars
             PROVE  Promise!Next \/ UNCHANGED <<StateOf, AskedOf, run>>
  OBVIOUS
<1>1. CASE \E j \in Job : JobMoves(j)
  BY <1>1, MoveIsPromised
<1>2. CASE UNCHANGED <<job, run>>
  BY <1>2 DEF StateOf, AskedOf
<1>3. CASE job' = [j \in Job |-> Absent] /\ run' = [j \in Job |-> "none"]
  BY <1>3 DEF Promise!Next, Promise!Forget, Promise!Init, Absent
<1> QED  BY <1>1, <1>2, <1>3, EveryStepMoves

\* The store implements what a job promises: it ends once, with its run, and
\* a cancellation gives way only to an earlier proof and to an alarm.
THEOREM PromiseIsKept == Spec => KeepsPromise
BY PromiseInit, PromiseNext, InvHolds, PTL DEF Spec, KeepsPromise, Promise!Spec, StateOf, AskedOf
=============================================================================
