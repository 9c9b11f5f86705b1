---------------------------- MODULE SolverRouter ----------------------------
(***************************************************************************)
(* SolverRouter::execute: the backends of a routing decision are tried one *)
(* after the other within one budget and one allowance of output; the      *)
(* first solution of a running backend is reviewed while it is suspended,  *)
(* the last one when it is done; the solve pipeline then publishes what    *)
(* router and reviewer agree on.  Time and cancellation are read anew at   *)
(* every step, so they may change between any two of them.                 *)
(***************************************************************************)
EXTENDS CandidateReviewer, Sequences, SequencesExt

CONSTANTS
    Backends,           \* length of the order of backends
    Reliable,           \* positions of backends that keep BackendSession
    Quality,            \* what a candidate may be: sound, score, matches
    Terminations,       \* what a backend may answer
    Limits,             \* SolverApiLimits: of the output of one solve
    Variables,          \* assignments of a complete candidate
    Deadline,           \* of the solve
    TimerLead,          \* how early the timer of a backend may fire
    AcceptanceReserve, BackendCap, CompletionReserve   \* shares of its time

\* What a solve may put out: candidates, the assignments in them, progress
\* events, and the diagnostic lines among these.
Outputs == {"candidates", "assignments", "progress", "lines"}

Counted == Outputs \ {"candidates"}

\* A model has at most as many variables as the limit has assignments
\* (max_variables of the planning IR).
ASSUME RouterAssumption ==
    /\ Backends \in Nat \ {0}
    /\ Reliable \subseteq 1 .. Backends
    /\ Quality \subseteq [sound : BOOLEAN, score : Nat, matches : BOOLEAN]
    /\ Terminations \subseteq
           {"OptimalityClaimed", "CandidateFound", "InfeasibilityClaimed", "UnboundedClaimed",
            "TimeLimit", "SolutionLimit", "Cancelled", "InvalidModel", "Unavailable", "Failed"}
    /\ Limits \in [Outputs -> Nat \ {0}]
    /\ Variables \in Nat /\ Variables =< Limits["assignments"]
    /\ Deadline \in Nat /\ TimerLead \in Nat /\ AcceptanceReserve \in Nat
    /\ BackendCap \in Nat /\ CompletionReserve \in Nat

VARIABLES
    now, cancelled,     \* the budget of the solve
    options,            \* collect_intermediate_solutions
    pc,                 \* where the router is
    position,           \* of the current backend in the order
    remaining,          \* RemainingOutput
    dispatch,           \* SolveDispatchBudget of the current attempt
    run,                \* output and completion of the current backend
    attempts,           \* AttemptRecords
    reviewer,           \* RouterCandidateReviewer
    terminal,           \* how routing ended
    outcome             \* what the pipeline publishes

budgetVars == <<now, cancelled, options>>
attemptVars == <<position, remaining, dispatch, attempts>>
vars == <<budgetVars, pc, attemptVars, run, reviewer, terminal, outcome>>

NoCompletion == [kind |-> "none"]

NoReview == "none"

FreshRun == [candidates |-> <<>>, used |-> [k \in Counted |-> 0], early |-> NoReview,
             rejection |-> "none", completion |-> NoCompletion, stop |-> "none", next |-> 1]

NoTerminal == [status |-> "none", reason |-> "none", selected |-> <<>>]

Terminal(status, reason) == [NoTerminal EXCEPT !.status = status, !.reason = reason]

-----------------------------------------------------------------------------
(***************************************************************************)
(* Budgets and limits.                                                     *)
(***************************************************************************)
Expired == now >= Deadline

Stopped == cancelled \/ Expired

Interruption == IF cancelled THEN "Cancelled" ELSE "DeadlineExceeded"

\* SolveDispatchBudget::from_view: all cutoffs from one reading of the clock.
Left(a, b) == IF a > b THEN a - b ELSE 0

DispatchBudget ==
    LET available == Left(Left(Deadline, now), AcceptanceReserve)
        limit == IF BackendCap < available THEN BackendCap ELSE available
    IN  [start |-> now, limit |-> limit, search |-> Left(limit, CompletionReserve)]

Elapsed == now - dispatch.start

StopReason ==
    CASE cancelled -> "Cancelled"
      [] ~cancelled /\ Expired -> "DeadlineExceeded"
      [] ~Stopped /\ Elapsed >= dispatch.limit -> "BackendLimitExceeded"
      [] OTHER -> "none"

StoppedTerminal ==
    IF cancelled THEN Terminal("Cancelled", "Cancelled")
    ELSE Terminal("NoSolutionWithinLimit", "ParentDeadlineExceeded")

\* Bug: a preview takes the place of the final candidate.
OutputWithoutReserve ==
    Limits

\* with_intermediate_candidate_reserve
OutputLimits ==
    IF options.collect
    THEN [Limits EXCEPT !["candidates"] = @ + 1, !["assignments"] = 2 * @]
    ELSE Limits

Exhausted == \E k \in Outputs : remaining[k] = 0

\* What the current backend has put out.
Used(k) == IF k = "candidates" THEN Len(run.candidates) ELSE run.used[k]

\* Bug: every backend starts with the whole allowance.
ConsumeNothing ==
    remaining

Consume ==
    [k \in Outputs |-> Left(remaining[k], Used(k))]

-----------------------------------------------------------------------------
Init ==
    /\ now = 0
    /\ cancelled = FALSE
    /\ options \in [collect : BOOLEAN]
    /\ pc = "attempt"
    /\ position = 1
    /\ remaining = OutputLimits
    /\ dispatch = [start |-> 0, limit |-> 0, search |-> 0]
    /\ run = FreshRun
    /\ attempts = <<>>
    /\ reviewer = NewReviewer
    /\ terminal = NoTerminal
    /\ outcome = NoDecision

Tick ==
    /\ now < Deadline
    /\ pc # "published"
    /\ now' = now + 1
    /\ UNCHANGED <<cancelled, options, pc, attemptVars, run, reviewer, terminal, outcome>>

Cancel ==
    /\ ~cancelled
    /\ pc # "published"
    /\ cancelled' = TRUE
    /\ UNCHANGED <<now, options, pc, attemptVars, run, reviewer, terminal, outcome>>

Finish(t) ==
    /\ pc' = "done"
    /\ terminal' = t

Record(termination, fallback) ==
    attempts' = Append(attempts, [termination |-> termination, fallback |-> fallback,
                                  used |-> [k \in Outputs |-> Used(k)]])

-----------------------------------------------------------------------------
(***************************************************************************)
(* Before a backend is invoked.                                            *)
(***************************************************************************)
\* pre_attempt_terminal, then the request with its share of the time.
PreAttempt ==
    /\ pc = "attempt"
    /\ IF Stopped THEN Finish(StoppedTerminal) /\ UNCHANGED <<dispatch, run>>
       ELSE IF Exhausted
       THEN /\ Finish(Terminal("BackendFailed", "SharedOutputLimitExhausted"))
            /\ UNCHANGED <<dispatch, run>>
       ELSE /\ dispatch' = DispatchBudget
            /\ run' = FreshRun
            /\ pc' = "preflight"
            /\ UNCHANGED terminal
    /\ UNCHANGED <<budgetVars, position, remaining, attempts, reviewer, outcome>>

\* The registry has no such backend, or the request has no fingerprint.
NoRequest ==
    /\ pc = "attempt"
    /\ ~Stopped /\ ~Exhausted
    /\ \/ Finish(Terminal("BackendUnavailable", "BackendFailure"))
       \/ Finish(Terminal("InvalidModel", "PreflightRejected"))
    /\ UNCHANGED <<budgetVars, attemptVars, run, reviewer, outcome>>

PreDispatchTerminal ==
    IF Stopped THEN StoppedTerminal ELSE Terminal("NoSolutionWithinLimit", "PreflightRejected")

\* pre_dispatch_terminal, preflight, pre_dispatch_terminal.
Invoke ==
    /\ pc = "preflight"
    /\ IF StopReason # "none"
       THEN Finish(PreDispatchTerminal)
       ELSE pc' = "running" /\ UNCHANGED terminal
    /\ UNCHANGED <<budgetVars, attemptVars, run, reviewer, outcome>>

\* The model, the request or the backend does not fit: no other is tried.
Preflight ==
    /\ pc = "preflight"
    /\ StopReason = "none"
    /\ \E status \in {"InvalidModel", "BackendUnavailable"} :
           Finish(Terminal(status, "PreflightRejected"))
    /\ Record("PreflightRejected", FALSE)
    /\ UNCHANGED <<budgetVars, position, remaining, dispatch, run, reviewer, outcome>>

-----------------------------------------------------------------------------
(***************************************************************************)
(* The running backend, as BoundedBackendOutput and ObservedOutput see it. *)
(* A reliable backend keeps the contract of BackendSession.                *)
(***************************************************************************)
Running == pc = "running" /\ run.completion.kind = "none"

Role(c) == c.role

Session == INSTANCE BackendSession WITH
    process <- "gone",
    offered <- [i \in DOMAIN run.candidates |-> Role(run.candidates[i])],
    closed <- StopReason # "none",
    reply <- "none"

\* The first rejection is the one that counts; an invalid candidate is only
\* remembered by a collecting router, and yields to any rejection.
Reject(r, error) == [r EXCEPT !.rejection = IF @ \in {"none", "invalid"} THEN error ELSE @]

Refuse(r) == [r EXCEPT !.rejection = IF options.collect /\ @ = "none" THEN "invalid" ELSE @]

\* An event, or a diagnostic line; past its limit it is refused, no more.
BackendEmits ==
    /\ Running
    /\ IF StopReason # "none" THEN run' = Reject(run, StopReason)
       ELSE \E counted \in {{"progress"}, {"progress", "lines"}} :
                /\ \A k \in counted : run.used[k] < remaining[k]
                /\ run' = [run EXCEPT !.used =
                               [k \in Counted |-> IF k \in counted THEN @[k] + 1 ELSE @[k]]]
    /\ UNCHANGED <<budgetVars, pc, attemptVars, reviewer, terminal, outcome>>

\* A submission is a complete candidate, or has too much evidence or too many
\* assignments, or is not a candidate of the problem.
Forms == {"complete", "oversized", "malformed"}

OverLimit(form) ==
    \/ Len(run.candidates) >= remaining["candidates"]
    \/ form = "oversized"
    \/ form = "complete" /\ run.used["assignments"] + Variables > remaining["assignments"]

CandidateError(form) ==
    CASE StopReason # "none" -> StopReason
      [] StopReason = "none" /\ OverLimit(form) -> "limit"
      [] OTHER -> IF form = "complete" THEN "none" ELSE "invalid"

Admit(c) == [run EXCEPT !.candidates = Append(@, c), !.used["assignments"] = @ + Variables]

\* A reliable backend offers one incumbent, if asked for, and one final candidate.
MayOffer(role) ==
    IF position \in Reliable
    THEN /\ \A i \in DOMAIN run.candidates : run.candidates[i].role # "final"
         /\ role = "incumbent" => options.collect /\ run.candidates = <<>>
    ELSE role = "final"

BackendSubmits ==
    /\ Running
    /\ \E q \in Quality, role \in {"incumbent", "final"}, form \in Forms :
           LET c == [role |-> role, sequence |-> Len(run.candidates) + 1,
                     sound |-> q.sound, score |-> q.score, matches |-> q.matches]
               error == CandidateError(form)
           IN  /\ MayOffer(role)
               /\ position \in Reliable => form = "complete"
               /\ run' = CASE error = "none" -> Admit(c)
                           [] error = "invalid" -> Refuse(run)
                           [] OTHER -> Reject(run, error)
    /\ UNCHANGED <<budgetVars, pc, attemptVars, reviewer, terminal, outcome>>

Outcome(termination, valid, proved) ==
    [kind |-> "outcome", termination |-> termination, valid |-> valid, proved |-> proved]

\* Evidence may be invalid, and an optimal objective be proved by its bound.
Completions ==
    {[kind |-> "error"], [kind |-> "contract"], Outcome("CandidateFound", FALSE, FALSE),
     Outcome("OptimalityClaimed", TRUE, TRUE)}
    \cup {Outcome(t, TRUE, FALSE) : t \in Terminations}

\* A reliable backend answers as its contract says, and with valid evidence.
KeepsContract(o) ==
    CASE o.kind = "error" -> Session!Fits("BackendError")
      [] o.kind = "contract" -> FALSE
      [] OTHER -> o.termination \in Session!Replies /\ Session!Fits(o.termination) /\ o.valid

BackendReturns ==
    /\ Running
    /\ \E o \in Completions :
           /\ position \in Reliable => KeepsContract(o)
           /\ run' = [run EXCEPT !.completion = o]
    /\ UNCHANGED <<budgetVars, pc, attemptVars, reviewer, terminal, outcome>>

\* Bug: a backend that has delivered a candidate is waited for.
TimesOutWithoutCandidate ==
    /\ Running
    /\ run.candidates = <<>>
    /\ Elapsed >= dispatch.limit
    /\ run' = [run EXCEPT !.completion = [kind |-> "timeout"]]
    /\ UNCHANGED <<budgetVars, pc, attemptVars, reviewer, terminal, outcome>>

\* The timer of this backend, which does not run on the clock of the budget;
\* its future is dropped.
TimesOut ==
    /\ Running
    /\ Elapsed + TimerLead >= dispatch.limit
    /\ run' = [run EXCEPT !.completion = [kind |-> "timeout"]]
    /\ UNCHANGED <<budgetVars, pc, attemptVars, reviewer, terminal, outcome>>

-----------------------------------------------------------------------------
(***************************************************************************)
(* The first candidate of a collecting router is reviewed as soon as the   *)
(* router sees it; the backend is not polled meanwhile.                    *)
(***************************************************************************)
FirstPending == options.collect /\ run.candidates # <<>> /\ run.early = NoReview

BeginEarlyReview ==
    /\ pc = "running"
    /\ FirstPending
    /\ IF Stopped
       THEN run' = [run EXCEPT !.early = Interruption] /\ UNCHANGED pc
       ELSE pc' = "previewing" /\ UNCHANGED run
    /\ UNCHANGED <<budgetVars, attemptVars, reviewer, terminal, outcome>>

EndEarlyReview ==
    /\ pc = "previewing"
    /\ LET c == run.candidates[1]
       IN  \E v \in Verdicts(reviewer, c, Stopped) :
               LET result == Review(reviewer, c, v, Stopped, Interruption)
               IN  /\ reviewer' = result.reviewer
                   /\ run' = [run EXCEPT !.early = result.review]
    /\ pc' = "running"
    /\ UNCHANGED <<budgetVars, attemptVars, terminal, outcome>>

-----------------------------------------------------------------------------
(***************************************************************************)
(* After the backend.                                                      *)
(***************************************************************************)
BudgetStops == {"Cancelled", "DeadlineExceeded", "BackendLimitExceeded"}

\* Bug: the budget alone says why the run stopped.
RunStopByBudget ==
    IF run.rejection \in BudgetStops THEN run.rejection ELSE StopReason

\* Why the run stopped; a timer that fired means the backend's limit.
RunStop ==
    CASE run.rejection \in BudgetStops -> run.rejection
      [] run.rejection \notin BudgetStops /\ StopReason # "none" -> StopReason
      [] OTHER -> IF run.completion.kind = "timeout" THEN "BackendLimitExceeded" ELSE "none"

\* The end of run_backend.
CollectRun ==
    /\ pc = "running"
    /\ run.completion.kind # "none"
    /\ ~FirstPending
    /\ run' = [run EXCEPT !.stop = RunStop]
    /\ pc' = "collected"
    /\ UNCHANGED <<budgetVars, attemptVars, reviewer, terminal, outcome>>

OutputError == run.rejection \in {"limit", "invalid"}

\* stopped_after_backend, then output that broke the contract.  An attempt that
\* ends without a candidate to decide drops what its backend left.
AfterBackend ==
    /\ pc = "collected"
    /\ remaining' = Consume
    /\ CASE Stopped ->
                /\ Record("Stopped", FALSE)
                /\ Finish(StoppedTerminal)
                /\ run' = FreshRun
         [] ~Stopped /\ OutputError /\ (~options.collect \/ run.candidates = <<>>) ->
                /\ Record("BackendError", FALSE)
                /\ Finish(Terminal("BackendFailed", "SharedOutputLimitExhausted"))
                /\ run' = FreshRun
         [] ~Stopped /\ OutputError /\ options.collect /\ run.candidates # <<>> ->
                /\ Record("BackendError", FALSE)
                /\ Finish(Terminal("BackendFailed", "BackendFailure"))
                /\ run' = FreshRun
         [] OTHER ->
                /\ pc' = IF run.candidates = <<>> THEN "empty" ELSE "judging"
                /\ UNCHANGED <<attempts, terminal, run>>
    /\ UNCHANGED <<budgetVars, position, dispatch, reviewer, outcome>>

\* validate_outcome
Contradicted == {"InfeasibilityClaimed", "UnboundedClaimed", "InvalidModel", "Unavailable", "Failed"}

Admissible(o) ==
    /\ o.valid
    /\ o.termination \in {"OptimalityClaimed", "CandidateFound"} => run.candidates # <<>>
    /\ o.termination \in Contradicted => run.candidates = <<>>
    /\ o.termination = "Cancelled" => cancelled
    /\ o.termination = "TimeLimit" => Elapsed >= dispatch.search

InTime == run.stop # "BackendLimitExceeded"

HasOutcome == InTime /\ run.completion.kind = "outcome"

\* What an attempt without candidates comes to, and whether the next backend
\* may be tried: terminal_from_outcome and the cases before it.
Conclusion(termination, status, reason, fallback) ==
    [termination |-> termination, terminal |-> Terminal(status, reason), fallback |-> fallback]

OutcomeStatus ==
    [InfeasibilityClaimed |-> "Infeasible", UnboundedClaimed |-> "Unbounded",
     TimeLimit |-> "NoSolutionWithinLimit", SolutionLimit |-> "NoSolutionWithinLimit",
     Cancelled |-> "Cancelled", InvalidModel |-> "InvalidModel",
     Unavailable |-> "BackendUnavailable", Failed |-> "BackendFailed",
     OptimalityClaimed |-> "BackendFailed", CandidateFound |-> "BackendFailed"]

OutcomeReason(t) ==
    CASE t \in {"Unavailable", "Failed"} -> "BackendFailure"
      [] t = "Cancelled" -> "Cancelled"
      [] OTHER -> "BackendTerminated"

FallbackTerminations ==
    {"Unavailable", "Failed", "TimeLimit"}

EmptyConclusion ==
    CASE ~InTime ->
             Conclusion("BackendOutcome", "NoSolutionWithinLimit", "BackendTerminated", TRUE)
      [] InTime /\ run.completion.kind \in {"error", "contract"} ->
             Conclusion("BackendError", "BackendFailed", "BackendFailure", TRUE)
      [] HasOutcome /\ ~Admissible(run.completion) ->
             Conclusion("OutcomeContractFailure", "BackendFailed", "BackendFailure", TRUE)
      [] HasOutcome /\ Admissible(run.completion) ->
             LET t == run.completion.termination
             IN  Conclusion("BackendOutcome", OutcomeStatus[t], OutcomeReason(t),
                            t \in FallbackTerminations)
      [] OTHER -> Conclusion("unreachable", "none", "none", FALSE)

\* The profile of the solve may forbid another attempt.
FinishEmpty ==
    /\ pc = "empty"
    /\ \E allowed \in BOOLEAN :
       LET e == EmptyConclusion
           taken == e.fallback /\ allowed /\ position < Backends /\ ~Stopped
       IN  /\ Record(e.termination, taken)
           /\ IF taken
              THEN /\ pc' = "attempt"
                   /\ position' = position + 1
                   /\ UNCHANGED terminal
              ELSE Finish(e.terminal) /\ UNCHANGED position
    /\ run' = FreshRun
    /\ UNCHANGED <<budgetVars, remaining, dispatch, reviewer, outcome>>

-----------------------------------------------------------------------------
(***************************************************************************)
(* An attempt with candidates: the outcome is judged, then the last        *)
(* candidate (collecting) or each in turn until one is decided.            *)
(***************************************************************************)
LastIndex == Len(run.candidates)

\* Bug: a failed early review is tried again with the last candidate.
EarlyOfLastDecides ==
    LastIndex = 1

\* A failed early review, or an early review of the very candidate, is final.
EarlyDecides ==
    run.early = "Failed" \/ LastIndex = 1

Judge ==
    /\ pc = "judging"
    /\ CASE HasOutcome /\ ~Admissible(run.completion) ->
                /\ Record("OutcomeContractFailure", FALSE)
                /\ Finish(Terminal("BackendFailed", "BackendFailure"))
                /\ run' = FreshRun
         [] options.collect /\ InTime /\ run.completion.kind = "contract" ->
                /\ Record("BackendError", FALSE)
                /\ Finish(Terminal("BackendFailed", "BackendFailure"))
                /\ run' = FreshRun
         [] OTHER ->
                /\ pc' = IF options.collect /\ EarlyDecides THEN "reviewed" ELSE "reviewing"
                /\ run' = IF options.collect THEN [run EXCEPT !.next = LastIndex] ELSE run
                /\ UNCHANGED <<attempts, terminal>>
    /\ UNCHANGED <<budgetVars, position, remaining, dispatch, reviewer, outcome>>

\* selected_optimal_candidate
ProvedOptimal(i) ==
    /\ HasOutcome
    /\ run.completion.termination = "OptimalityClaimed"
    /\ i = LastIndex
    /\ run.completion.proved

Select(status, c) == [Terminal(status, "CandidateVerified") EXCEPT !.selected = <<c>>]

\* Bug: the proof goes to whichever candidate is selected.
EarlyOptimal ==
    Select(IF ProvedOptimal(LastIndex) THEN "Optimal" ELSE "Feasible", run.candidates[1])

\* Bug: the last candidate is selected although the preview was better.
LastSelected ==
    Select("Feasible", run.candidates[LastIndex])

\* A verified preview stands in for a later candidate that is worse.
EarlySelected ==
    Select("Feasible", run.candidates[1])

\* terminal_disposition and the arms of review_candidates.
Disposition(review) ==
    CASE review = "Failed" -> Terminal("BackendFailed", "VerificationQuarantined")
      [] review = "Cancelled" -> Terminal("Cancelled", "Cancelled")
      [] review = "DeadlineExceeded" -> Terminal("NoSolutionWithinLimit", "ParentDeadlineExceeded")
      [] review = "ResourceLimit" -> Terminal("NoSolutionWithinLimit", "ReviewResourceLimitExceeded")
      [] review = "Verified" ->
             Select(IF ProvedOptimal(run.next) THEN "Optimal" ELSE "Feasible",
                    run.candidates[run.next])
      [] review = "VerifiedOnly" -> Select("Feasible", run.candidates[run.next])
      [] review = "Awaiting" ->
             IF options.collect /\ run.early \in {"Verified", "VerifiedOnly"} THEN EarlySelected
             ELSE [Terminal("NoSolutionWithinLimit", "CandidateAwaitingVerification")
                       EXCEPT !.selected = IF options.collect THEN <<>> ELSE <<run.candidates[1]>>]

FinishReviewed(review) ==
    /\ Record("Reviewed", FALSE)
    /\ Finish(Disposition(review))

\* The early review is used as it is.
UseEarlyReview ==
    /\ pc = "reviewed"
    /\ FinishReviewed(run.early)
    /\ UNCHANGED <<budgetVars, position, remaining, dispatch, run, reviewer, outcome>>

BeginReview ==
    /\ pc = "reviewing"
    /\ IF Stopped
       THEN FinishReviewed(Interruption)
       ELSE pc' = "verifying" /\ UNCHANGED <<attempts, terminal>>
    /\ UNCHANGED <<budgetVars, position, remaining, dispatch, run, reviewer, outcome>>

\* A review that ends after the solve has stopped counts as interrupted.
AfterReview(review) ==
    IF Stopped THEN Interruption ELSE review

EndReview ==
    /\ pc = "verifying"
    /\ LET c == run.candidates[run.next]
       IN  \E v \in Verdicts(reviewer, c, Stopped) :
               LET result == Review(reviewer, c, v, Stopped, Interruption)
                   review == AfterReview(result.review)
               IN  /\ reviewer' = result.reviewer
                   /\ IF review = "Awaiting" /\ run.next < LastIndex
                      THEN /\ pc' = "reviewing"
                           /\ run' = [run EXCEPT !.next = @ + 1]
                           /\ UNCHANGED <<attempts, terminal>>
                      ELSE FinishReviewed(review) /\ UNCHANGED run
    /\ UNCHANGED <<budgetVars, position, remaining, dispatch, outcome>>

-----------------------------------------------------------------------------
(***************************************************************************)
(* execute_bound_inner: the router's terminal and the reviewer's decision  *)
(* have to agree, the runtime has to be the one that was bound, and an     *)
(* accepted result, or a claim that there is none, is withdrawn when the   *)
(* solve has stopped meanwhile, or the wall clock says so (late).  An      *)
(* alarm stands whatever else goes wrong.                                  *)
(***************************************************************************)
NoResult(status) == [kind |-> "NoResult", status |-> status]

Withdrawn == NoResult(IF cancelled THEN "Cancelled" ELSE "NoSolutionWithinLimit")

TimingFailed == reviewer.overflow \/ reviewer.decision.kind = "Quarantined"

Concluded(runtimeMatches, late) ==
    CASE terminal.reason = "CandidateVerified" /\ HasAccepted(reviewer) /\ runtimeMatches ->
             IF Stopped \/ late THEN Withdrawn
             ELSE [kind |-> "Accepted", status |-> terminal.status,
                   candidate |-> reviewer.decision.candidate]
      [] terminal.reason = "CandidateVerified" /\ ~(HasAccepted(reviewer) /\ runtimeMatches) ->
             NoResult("BackendFailed")
      [] terminal.reason = "VerificationQuarantined" -> NoResult("BackendFailed")
      [] terminal.status = "Infeasible" /\ runtimeMatches /\ (Stopped \/ late) -> Withdrawn
      [] OTHER ->
             NoResult(IF ~runtimeMatches /\ terminal.status \in {"Infeasible", "Unbounded"}
                      THEN "BackendFailed" ELSE terminal.status)

Published(runtimeMatches, late) ==
    CASE reviewer.alarm -> [kind |-> "VerificationAlarm"]
      [] ~reviewer.alarm /\ TimingFailed -> [kind |-> "TimingError"]
      [] OTHER -> Concluded(runtimeMatches, late)

\* What is left of the last attempt is dropped.
Publish ==
    /\ pc = "done"
    /\ \E runtimeMatches, late \in BOOLEAN : outcome' = Published(runtimeMatches, late)
    /\ pc' = "published"
    /\ run' = FreshRun
    /\ UNCHANGED <<budgetVars, attemptVars, reviewer, terminal>>

-----------------------------------------------------------------------------
Route ==
    \/ PreAttempt
    \/ Invoke
    \/ TimesOut
    \/ BeginEarlyReview
    \/ CollectRun
    \/ AfterBackend
    \/ FinishEmpty
    \/ Judge
    \/ UseEarlyReview
    \/ BeginReview
    \/ Publish

Verify ==
    \/ EndEarlyReview
    \/ EndReview

Next ==
    \/ Route
    \/ Verify
    \/ NoRequest
    \/ Preflight
    \/ BackendEmits
    \/ BackendSubmits
    \/ BackendReturns
    \/ Tick
    \/ Cancel

Spec == Init /\ [][Next]_vars

(***************************************************************************)
(* The router's task is scheduled, verification comes to a verdict (it     *)
(* polls its control), and the clock advances.  Nothing is assumed of a    *)
(* backend: it may never return.                                           *)
(***************************************************************************)
Fairness ==
    /\ WF_vars(Route)
    /\ WF_vars(Verify)
    /\ WF_vars(Tick)

FairSpec == Spec /\ Fairness

-----------------------------------------------------------------------------
(***************************************************************************)
(* Types and counters: the output of a run stays within what is left.      *)
(***************************************************************************)
TypeOK ==
    /\ now \in 0 .. Deadline
    /\ pc \in {"attempt", "preflight", "running", "previewing", "collected", "empty", "judging",
              "reviewing", "verifying", "reviewed", "done", "published"}
    /\ position \in 1 .. Backends
    /\ dispatch.start + dispatch.limit + AcceptanceReserve =< Deadline \/ dispatch.limit = 0
    /\ pc = "running" => \A k \in Outputs : Used(k) =< remaining[k]
    /\ Len(attempts) =< position

(***************************************************************************)
(* The candidate the router selects is the one the reviewer has accepted   *)
(* and kept: the pipeline takes the status from one and the result from    *)
(* the other.  It satisfies the scenario.                                  *)
(***************************************************************************)
SelectedIsRetained ==
    terminal.reason = "CandidateVerified" =>
        /\ HasAccepted(reviewer)
        /\ terminal.selected = <<reviewer.decision.candidate>>
        /\ reviewer.decision.candidate.sound

(***************************************************************************)
(* Routing ends with an optimal result only if the result the pipeline     *)
(* will publish is the last candidate of a backend that returned in time   *)
(* and proved that objective, and the objective is its verified score.     *)
(***************************************************************************)
OptimalIsProved ==
    pc = "done" /\ terminal.status = "Optimal" =>
        /\ reviewer.decision.candidate = Last(run.candidates)
        /\ reviewer.decision.candidate.matches
        /\ run.completion = Outcome("OptimalityClaimed", TRUE, TRUE)
        /\ run.rejection = "none"

(***************************************************************************)
(* The published result is never worse than the first accepted one that    *)
(* the owner of the solve was shown, and may have stored as a checkpoint.  *)
(***************************************************************************)
NeverWorseThanPreview ==
    outcome.kind = "Accepted" /\ reviewer.preview # NoDecision =>
        ~Worse(outcome.candidate, reviewer.preview.candidate)

(***************************************************************************)
(* Once the review of a candidate has failed, because the candidate does   *)
(* not satisfy the scenario or for an integrity problem of the review,     *)
(* no candidate of this solve is accepted, earlier and later ones included.*)
(***************************************************************************)
FailureExcludesResult ==
    reviewer.alarm \/ run.early = "Failed" => terminal.reason # "CandidateVerified"

(***************************************************************************)
(* All backends of a solve share one allowance of candidates, assignments, *)
(* progress events and diagnostic lines.                                   *)
(***************************************************************************)
Total(s) ==
    LET total[n \in 0 .. Len(s)] == IF n = 0 THEN 0 ELSE total[n - 1] + s[n]
    IN  total[Len(s)]

Spent(k) == Total([i \in DOMAIN attempts |-> attempts[i].used[k]])

SharedAllowance ==
    \A k \in Outputs : Spent(k) =< OutputLimits[k]

(***************************************************************************)
(* The arm that finish_empty_attempt declares unreachable is: a timeout is *)
(* either the backend's limit or was seen as a stop of the whole solve,    *)
(* although the clock is read three times on the way and the timer may     *)
(* fire before the budget says that the backend's time is over.            *)
(***************************************************************************)
TimeoutsExplained ==
    \A i \in DOMAIN attempts : attempts[i].termination # "unreachable"

(***************************************************************************)
(* A backend that keeps the contract of BackendSession is not rejected for *)
(* a claimed candidate or a failure, nor for the size of its output.       *)
(***************************************************************************)
ReliableBackendAdmitted ==
    position \in Reliable =>
        /\ ~OutputError
        /\ pc \in {"empty", "judging"} /\ HasOutcome
            /\ run.completion.termination \in
                   {"OptimalityClaimed", "CandidateFound", "Failed", "Unavailable"}
            => Admissible(run.completion)

(***************************************************************************)
(* Every solve is published, although a backend may never return.          *)
(***************************************************************************)
RoutingEnds ==
    <>(pc = "published")

=============================================================================
