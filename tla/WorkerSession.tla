---------------------------- MODULE WorkerSession ----------------------------
(***************************************************************************)
(* One supervised solver session: supervise_with_observer launches a       *)
(* worker, drives ParentProtocol over its pipes within the parent's        *)
(* budget, stops and reaps the process, and the OR-Tools adapter turns     *)
(* what it observed into candidates for the router and one answer.         *)
(***************************************************************************)
EXTENDS OrtoolsWorker, SequencesExt

CONSTANTS
    FramesPerSession,   \* policy: frames per session
    Deadline,           \* the parent's deadline
    BackendLimit,       \* when the router stops waiting for this backend
    SearchLimit         \* the search time asked of the worker

ASSUME LimitAssumption ==
    /\ Deadline \in Nat /\ BackendLimit \in Nat /\ SearchLimit \in Nat \ {0}
    /\ BackendLimit =< Deadline
    \* A handshake answer, the start, every event and a terminal frame.
    /\ FramesPerSession \in Nat /\ FramesPerSession >= EventsPerSession + 3

VARIABLES
    cancelled,  \* the parent's budget was cancelled
    stage,      \* where the supervisor is
    protocol,   \* ParentProtocol
    account,    \* OutputAccounting: events, and the instants of the last second
    error,      \* why the session failed or was not begun
    child,      \* the process as the supervisor holds it
    pending,    \* the observation being handed to the adapter
    retained,   \* retained_intermediate
    sink,       \* candidates the router's output holds
    answer      \* what the adapter returned

sessionVars == <<cancelled, stage, protocol, account, error, child, pending,
                 retained, sink, answer>>

vars == <<now, read, processVars, sessionVars>>

Stopped == cancelled \/ now >= Deadline

\* The dispatch budget of the output sink also ends with the backend's limit.
SinkClosed == cancelled \/ now >= BackendLimit

BudgetError == IF cancelled THEN "Cancelled" ELSE "DeadlineExceeded"

Init ==
    /\ now = 0
    /\ stdin = [frames |-> <<>>, closed |-> FALSE]
    /\ stdout = <<>>
    /\ read = 0
    /\ worker = NotStarted
    /\ events = NoEvents
    /\ cancelled = FALSE
    /\ stage = "launch"
    /\ protocol = NewProtocol
    /\ account = [events |-> 0, window |-> <<>>]
    /\ error = "none"
    /\ child = "none"
    /\ pending = Frame("none")
    /\ retained = FALSE
    /\ sink = <<>>
    /\ answer = "none"

-----------------------------------------------------------------------------
(***************************************************************************)
(* The environment.                                                        *)
(***************************************************************************)
Tick ==
    /\ now < Deadline
    /\ now' = now + 1
    /\ UNCHANGED <<read, processVars, sessionVars>>

Cancel ==
    /\ ~cancelled
    /\ cancelled' = TRUE
    /\ UNCHANGED <<now, read, processVars, stage, protocol, account, error, child,
                   pending, retained, sink, answer>>

-----------------------------------------------------------------------------
(***************************************************************************)
(* The supervisor.  Every wait is budgeted: a result that is ready after   *)
(* the budget has ended is not used.                                       *)
(***************************************************************************)
\* Any failure after launch goes through cleanup_failure, which drops the pipes.
Fail(e) ==
    /\ error' = e
    /\ stage' = "stopping"
    /\ stdin' = [stdin EXCEPT !.closed = TRUE]

Launch ==
    /\ stage = "launch"
    /\ ~Stopped
    /\ child' = "running"
    /\ \E rogue \in {FALSE, RogueFrames # {}} :
           worker' = [NotStarted EXCEPT !.pc = IF rogue THEN "rogue" ELSE "handshake",
                                        !.rogue = rogue]
    /\ stage' = "handshake"
    /\ UNCHANGED <<now, read, stdin, stdout, events, cancelled, protocol, account,
                   error, pending, retained, sink, answer>>

\* The adapter's own checks, before it asks for a session: the request or its
\* translation is refused, or no search time is left.
NotAdmitted ==
    /\ stage = "launch"
    /\ \/ answer' = "BackendError"
       \/ now >= SearchLimit /\ answer' = "TimeLimit"
    /\ error' = "NotAdmitted"
    /\ stage' = "returned"
    /\ UNCHANGED <<now, read, processVars, cancelled, protocol, account, child,
                   pending, retained, sink>>

\* prelaunch_failure: no process yet; staging or spawning failed, or no time.
LaunchFails ==
    /\ stage = "launch"
    /\ error' = IF Stopped THEN BudgetError ELSE "Io"
    /\ stage' = "ended"
    /\ UNCHANGED <<now, read, processVars, cancelled, protocol, account, child,
                   pending, retained, sink, answer>>

BudgetedStages == {"handshake", "response", "dispatch", "reading", "exit", "stderr"}

\* Bug: the deadline is not looked at while a frame is awaited.
OnlyCancellation ==
    /\ stage \in BudgetedStages
    /\ cancelled
    /\ Fail(BudgetError)
    /\ UNCHANGED <<now, read, stdout, worker, events, cancelled, protocol, account,
                   child, pending, retained, sink, answer>>

BudgetEnds ==
    /\ stage \in BudgetedStages
    /\ Stopped
    /\ Fail(BudgetError)
    /\ UNCHANGED <<now, read, stdout, worker, events, cancelled, protocol, account,
                   child, pending, retained, sink, answer>>

WriteHandshake ==
    /\ stage = "handshake"
    /\ ~Stopped
    /\ protocol' = OnParentFrame(protocol, Frame("handshake"))
    /\ IF Alive
       THEN /\ stdin' = [stdin EXCEPT !.frames = Append(@, Frame("handshake"))]
            /\ stage' = "response"
            /\ UNCHANGED error
       ELSE Fail("Io")
    /\ UNCHANGED <<now, read, stdout, worker, events, cancelled, account, child,
                   pending, retained, sink, answer>>

OutputReady == read < Len(stdout)

OutputEnded == read = Len(stdout) /\ worker.pc \in {"muted", "exited"}

\* The first frame decides between dispatch and a rejected session.
ReadResponse ==
    /\ stage = "response"
    /\ ~Stopped
    /\ OutputReady
    /\ read' = read + 1
    /\ protocol' = OnWorkerFrame(protocol, stdout[read + 1])
    /\ CASE protocol'.phase = "SolveRequest" ->
                /\ stage' = "dispatch"
                /\ UNCHANGED <<stdin, error>>
         [] protocol'.phase = "Rejected" ->
                /\ stage' = "reading"
                /\ stdin' = [stdin EXCEPT !.closed = TRUE]
                /\ UNCHANGED error
         [] OTHER -> Fail("Protocol")
    /\ UNCHANGED <<now, stdout, worker, events, cancelled, account, child,
                   pending, retained, sink, answer>>

\* finalize_solve_for_dispatch: what is left of the search time since entry.
Lesser(a, b) == IF a < b THEN a ELSE b

DispatchLimit == Lesser(SearchLimit - now, Deadline - now)

Dispatch ==
    /\ stage = "dispatch"
    /\ ~Stopped
    /\ LET started == OnParentFrame(protocol, SolveRequest(SearchLimit))
       IN  IF DispatchLimit =< 0
           THEN Fail("DeadlineExceeded") /\ protocol' = started
           ELSE /\ protocol' = TightenWallTime(started, DispatchLimit)
                /\ IF Alive
                   THEN /\ stdin' = [frames |-> Append(stdin.frames, SolveRequest(DispatchLimit)),
                                     closed |-> TRUE]
                        /\ stage' = "reading"
                        /\ UNCHANGED error
                   ELSE Fail("Protocol")
    /\ UNCHANGED <<now, read, stdout, worker, events, cancelled, account, child,
                   pending, retained, sink, answer>>

-----------------------------------------------------------------------------
(***************************************************************************)
(* OutputAccounting: the policy's ceilings as the parent measures them.    *)
(***************************************************************************)
IsEvent(f) == f.kind \in {"progress", "incumbent"}

InLastSecond(t) == t > now - EventsPerSecond

Recent == SelectSeq(account.window, InLastSecond)

LimitError(f) ==
    CASE read + 1 > FramesPerSession -> "FrameCountLimit"
      [] IsEvent(f) /\ account.events + 1 > EventsPerSession -> "EventCountLimit"
      [] IsEvent(f) /\ Len(Recent) >= EventsPerSecond -> "EventRateLimit"
      [] OTHER -> "none"

Recorded(f) ==
    IF IsEvent(f)
    THEN [events |-> account.events + 1, window |-> Append(Recent, now)]
    ELSE account

ReadFrame ==
    /\ stage = "reading"
    /\ ~Stopped
    /\ OutputReady
    /\ read' = read + 1
    /\ LET f == stdout[read + 1]
       IN  CASE LimitError(f) # "none" ->
                    Fail(LimitError(f)) /\ UNCHANGED <<protocol, account, pending>>
             [] OTHER ->
                    /\ account' = Recorded(f)
                    /\ protocol' = OnWorkerFrame(protocol, f)
                    /\ IF protocol'.phase = "Failed"
                       THEN Fail("Protocol") /\ UNCHANGED pending
                       ELSE /\ stage' = "observing"
                            /\ pending' = f
                            /\ UNCHANGED <<stdin, error>>
    /\ UNCHANGED <<now, stdout, worker, events, cancelled, child, retained, sink, answer>>

\* A frame beyond its cap or the session's bytes is refused by its length;
\* the caps leave room for every frame of a worker that keeps the protocol.
ReadOversized ==
    /\ stage \in {"response", "reading"}
    /\ ~Stopped
    /\ OutputReady /\ worker.rogue
    /\ \E e \in {"Protocol", "SessionByteLimit"} : Fail(e)
    /\ UNCHANGED <<now, read, stdout, worker, events, cancelled, protocol, account,
                   child, pending, retained, sink, answer>>

ReadEof ==
    /\ stage \in {"response", "reading"}
    /\ ~Stopped
    /\ OutputEnded
    /\ protocol' = OnEof(protocol)
    /\ IF protocol'.phase = "Failed"
       THEN Fail("Protocol")
       ELSE /\ stage' = "exit"
            /\ UNCHANGED <<stdin, error>>
    /\ UNCHANGED <<now, read, stdout, worker, events, cancelled, account, child,
                   pending, retained, sink, answer>>

\* child.wait, then on_exit; a signal leaves no portable exit code.
WaitForExit ==
    /\ stage = "exit"
    /\ ~Stopped
    /\ worker.pc = "exited"
    /\ child' = "reaped"
    /\ IF worker.exit = "signal"
       THEN Fail("MissingExitCode") /\ UNCHANGED protocol
       ELSE /\ protocol' = OnExit(protocol, worker.exit)
            /\ IF protocol'.phase = "Failed"
               THEN Fail("Protocol")
               ELSE stage' = "stderr" /\ UNCHANGED <<stdin, error>>
    /\ UNCHANGED <<now, read, stdout, worker, events, cancelled, account,
                   pending, retained, sink, answer>>

\* kill_remaining_tree, then the rest of stderr within the budget.
FinishStderr ==
    /\ stage = "stderr"
    /\ ~Stopped
    /\ stage' = "ended"
    /\ UNCHANGED <<now, read, processVars, cancelled, protocol, account, error, child,
                   pending, retained, sink, answer>>

(***************************************************************************)
(* stop_and_reap: SIGTERM and a grace interval after cancellation or the   *)
(* deadline, SIGKILL, and a wait that no budget limits.  ProcessGuard does *)
(* the same in the background when the session's future is dropped.        *)
(***************************************************************************)
Kill ==
    /\ stage \in {"stopping", "abandoned"}
    /\ child = "running"
    /\ worker.pc # "exited"
    /\ Exits("signal")
    /\ UNCHANGED <<now, read, stdin, stdout, sessionVars>>

\* Bug: the supervisor returns as soon as it has sent the signal.
ReapWithoutWait ==
    /\ stage = "stopping"
    /\ stage' = "ended"
    /\ UNCHANGED <<now, read, processVars, cancelled, protocol, account, error, child,
                   pending, retained, sink, answer>>

Reap ==
    /\ stage = "stopping"
    /\ worker.pc = "exited"
    /\ child' = "reaped"
    /\ stage' = "ended"
    /\ UNCHANGED <<now, read, processVars, cancelled, protocol, account, error,
                   pending, retained, sink, answer>>

ReapInBackground ==
    /\ stage = "abandoned"
    /\ child = "running"
    /\ worker.pc = "exited"
    /\ child' = "reaped"
    /\ UNCHANGED <<now, read, processVars, cancelled, stage, protocol, account, error,
                   pending, retained, sink, answer>>

\* The router's timer for this backend fires: the future is dropped.
Abandon ==
    /\ stage \notin {"returned", "abandoned"}
    /\ now >= BackendLimit
    /\ stage' = "abandoned"
    /\ stdin' = [stdin EXCEPT !.closed = TRUE]
    /\ UNCHANGED <<now, read, stdout, worker, events, cancelled, protocol, account,
                   error, child, pending, retained, sink, answer>>

-----------------------------------------------------------------------------
(***************************************************************************)
(* The adapter.  observe_worker runs between two reads; the sink it writes *)
(* to refuses everything once the budget has ended; a bound that is not    *)
(* new is not written.                                                     *)
(***************************************************************************)
\* Only the first incumbent is kept, and only if solutions are collected.
FirstIncumbent == pending.kind = "incumbent" /\ EmitIntermediate /\ ~retained

\* Bounds and candidates that do not fit the model, or contradict earlier ones.
InvalidContent == worker.rogue

ObserveRefused ==
    /\ stage = "observing"
    /\ \/ pending.kind = "incumbent" /\ ~EmitIntermediate
       \/ SinkClosed /\ (pending.kind \in {"started", "progress"} \/ FirstIncumbent)
       \/ InvalidContent /\ (pending.kind = "progress" \/ FirstIncumbent)
    /\ Fail("AdapterOutput")
    /\ UNCHANGED <<now, read, stdout, worker, events, cancelled, protocol, account,
                   child, pending, retained, sink, answer>>

Observe ==
    /\ stage = "observing"
    /\ pending.kind = "incumbent" => EmitIntermediate
    /\ IF FirstIncumbent
       THEN /\ ~SinkClosed
            /\ sink' = Append(sink, "incumbent")
            /\ stage' = "announcing"
       ELSE /\ pending.kind = "started" => ~SinkClosed
            /\ stage' = "reading"
            /\ UNCHANGED sink
    /\ UNCHANGED <<now, read, processVars, cancelled, protocol, account, error, child,
                   pending, retained, answer>>

\* The candidate is announced as progress before it counts as retained.
Announce ==
    /\ stage = "announcing"
    /\ IF SinkClosed
       THEN Fail("AdapterOutput") /\ UNCHANGED retained
       ELSE /\ retained' = TRUE
            /\ stage' = "reading"
            /\ UNCHANGED <<stdin, error>>
    /\ UNCHANGED <<now, read, stdout, worker, events, cancelled, protocol, account,
                   child, pending, sink, answer>>

FailureTermination ==
    CASE error = "Cancelled" -> "Cancelled"
      [] error = "DeadlineExceeded" -> "TimeLimit"
      [] error = "Io" -> "Unavailable"
      [] OTHER -> "Failed"

Termination == IF error = "none" THEN CompletedTermination(protocol) ELSE FailureTermination

FinalCandidate ==
    /\ error = "none"
    /\ protocol.evidence.kind = "finished"
    /\ protocol.evidence.outcome.candidate

\* Bug: a failed session answers like any other, whatever it has submitted.
AnswerTermination == Termination

\* solve_request after the session: an error when a candidate was kept and the
\* session failed or when the output refused the final candidate, otherwise the
\* termination.
Answer ==
    IF retained /\ Termination \in {"Failed", "Unavailable"} THEN "BackendError"
    ELSE IF FinalCandidate /\ SinkClosed THEN "BackendError"
    ELSE Termination

\* process_terminal_candidate submits the final candidate, then announces it.
SubmitFinal ==
    /\ stage = "ended"
    /\ FinalCandidate /\ ~SinkClosed
    /\ sink' = Append(sink, "final")
    /\ stage' = "submitted"
    /\ UNCHANGED <<now, read, processVars, cancelled, protocol, account, error, child,
                   pending, retained, answer>>

Return ==
    /\ \/ stage = "submitted"
       \/ stage = "ended" /\ (~FinalCandidate \/ SinkClosed)
    /\ answer' = Answer
    /\ stage' = "returned"
    /\ UNCHANGED <<now, read, processVars, cancelled, protocol, account, error, child,
                   pending, retained, sink>>

\* The statistics, bounds or candidate of the last frame are not valid, or the
\* output does not take its bound.
RefuseEvidence ==
    /\ stage \in {"ended", "submitted"}
    /\ error = "none" /\ protocol.evidence.kind = "finished"
    /\ InvalidContent \/ SinkClosed
    /\ answer' = "BackendError"
    /\ stage' = "returned"
    /\ UNCHANGED <<now, read, processVars, cancelled, protocol, account, error, child,
                   pending, retained, sink>>

-----------------------------------------------------------------------------
Supervise ==
    \/ NotAdmitted
    \/ Launch
    \/ LaunchFails
    \/ BudgetEnds
    \/ WriteHandshake
    \/ ReadResponse
    \/ Dispatch
    \/ ReadFrame
    \/ ReadOversized
    \/ ReadEof
    \/ WaitForExit
    \/ FinishStderr
    \/ Reap
    \/ Observe
    \/ ObserveRefused
    \/ Announce
    \/ SubmitFinal
    \/ Return
    \/ RefuseEvidence

Next ==
    \/ Supervise
    \/ Kill
    \/ ReapInBackground
    \/ Abandon
    \/ WorkerStep /\ UNCHANGED sessionVars
    \/ Tick
    \/ Cancel

Spec == Init /\ [][Next]_vars

(***************************************************************************)
(* The supervisor's task is scheduled, the clock advances, the kernel ends *)
(* a killed process and the runtime polls the background reaper.  Nothing  *)
(* is assumed of the worker, which may hang anywhere.                      *)
(***************************************************************************)
Fairness ==
    /\ WF_vars(Supervise)
    /\ WF_vars(Tick)
    /\ WF_vars(Kill)
    /\ WF_vars(ReapInBackground)

FairSpec == Spec /\ Fairness

-----------------------------------------------------------------------------
(***************************************************************************)
(* Types.                                                                  *)
(***************************************************************************)
Errors == {"NotAdmitted", "Io", "Protocol", "FrameCountLimit", "EventCountLimit", "EventRateLimit",
           "SessionByteLimit", "AdapterOutput", "Cancelled", "DeadlineExceeded", "MissingExitCode"}

Answers == {"OptimalityClaimed", "CandidateFound", "InfeasibilityClaimed", "TimeLimit",
            "Cancelled", "InvalidModel", "Unavailable", "Failed", "BackendError"}

(***************************************************************************)
(* The counters stay within the policy: the parent never reads more than   *)
(* one frame beyond its ceiling, the worker never admits more events than  *)
(* a session may have, and the rate window holds one second of events.     *)
(***************************************************************************)
TypeOK ==
    /\ now \in 0 .. Deadline
    /\ read \in 0 .. Len(stdout)
    /\ read =< FramesPerSession + 1
    /\ events.admitted \in 0 .. EventsPerSession
    /\ account.events \in 0 .. EventsPerSession
    /\ Len(account.window) =< EventsPerSecond
    /\ stage \in BudgetedStages \cup {"launch", "observing", "announcing", "stopping", "ended",
                                      "submitted", "returned", "abandoned"}
    /\ error \in Errors \cup {"none"}
    /\ child \in {"none", "running", "reaped"}
    /\ answer \in Answers \cup {"none"}

(***************************************************************************)
(* Safety.                                                                 *)
(***************************************************************************)
SessionSucceeded == stage \in {"ended", "submitted", "returned"} /\ error = "none"

\* accepted, started, events, one terminal frame; or a rejection alone.
LegalOutput ==
    \/ Len(stdout) = 1 /\ stdout[1].kind = "rejected"
    \/ /\ Len(stdout) >= 3
       /\ stdout[1].kind = "accepted"
       /\ stdout[2].kind = "started"
       /\ \A i \in 3 .. Len(stdout) - 1 : IsEvent(stdout[i])
       /\ stdout[Len(stdout)].kind \in {"finished", "error"}
       /\ stdout[Len(stdout)] = protocol.evidence

(***************************************************************************)
(* A session succeeds only when everything its worker ever wrote was the   *)
(* legal sequence of frames for this request, ending with the evidence the *)
(* supervisor returns, all of it was read, and the worker then exited with *)
(* code zero: whatever a misbehaving worker writes, and whenever it exits. *)
(***************************************************************************)
EvidenceCorroborated ==
    SessionSucceeded =>
        /\ worker.exit = "zero"
        /\ read = Len(stdout)
        /\ \A i \in 1 .. Len(stdout) : stdout[i].own
        /\ LegalOutput

(***************************************************************************)
(* When the adapter answers, the process is gone and has been waited for,  *)
(* on every path: completion, faults, limits, cancellation, the deadline.  *)
(***************************************************************************)
ProcessGone ==
    answer # "none" => ~Alive /\ child # "running"

(***************************************************************************)
(* A worker that keeps the protocol and does not crash is never stopped    *)
(* for breaking it: the parent's phases, parameter hash, frame and event   *)
(* ceilings admit everything it writes, however the two are scheduled.     *)
(***************************************************************************)
ObedientWorkerAdmitted ==
    ~worker.rogue /\ worker.exit \in {"none", "zero"} =>
        error \notin {"Protocol", "FrameCountLimit", "EventCountLimit"}

(***************************************************************************)
(* If solutions are collected and the session of a worker that found one   *)
(* succeeds, the router got the first one before the final one, however    *)
(* much progress was coalesced, dropped or counted against the ceiling.    *)
(***************************************************************************)
FirstSolutionDelivered ==
    answer \in {"OptimalityClaimed", "CandidateFound"} /\ EmitIntermediate /\ worker.found
        => sink = <<"incumbent", "final">>

(***************************************************************************)
(* Every session that is not abandoned by the router returns an answer,    *)
(* although the worker may hang anywhere and the pipe may fill up.         *)
(***************************************************************************)
SessionEnds ==
    <>(answer # "none" \/ stage = "abandoned")

\* The process and the answer as the router sees them.
ProcessOf == CASE child = "none" -> "absent" [] child = "running" -> "live" [] OTHER -> "gone"

ReplyOf == IF stage = "abandoned" THEN "abandoned" ELSE answer

Contract ==
    INSTANCE BackendSession WITH
        process <- ProcessOf, offered <- sink, closed <- SinkClosed, reply <- ReplyOf

(***************************************************************************)
(* Supervisor and adapter together keep the contract of BackendSession:    *)
(* the process is gone before the answer, the answer agrees with the       *)
(* candidates in the router's output, and a launched process always ends.  *)
(***************************************************************************)
KeepsContract == Contract!SessionSpec

(***************************************************************************)
(* "Worker events per second | 64" (docs/architecture/worker-protocol.md): *)
(* a worker whose writer keeps that rate is not stopped for exceeding it.  *)
(***************************************************************************)
RateKeptByWriterAdmitted ==
    error # "EventRateLimit"

=============================================================================
