---------------------------- MODULE OrtoolsWorker ----------------------------
(***************************************************************************)
(* The OR-Tools worker process: RunSession, which answers the handshake,   *)
(* reads one solve request and writes one terminal frame, and EventWriter, *)
(* the thread that writes the solver's events between the two.  The solver *)
(* itself is external: it finds solutions, improves bounds and returns.    *)
(*                                                                         *)
(* The clock ticks once per event interval, so one second is as many ticks *)
(* as the policy allows events in a second.                                *)
(***************************************************************************)
EXTENDS WorkerProtocol, Sequences

CONSTANTS
    EventsPerSecond,    \* policy: worker events per second
    EventsPerSession,   \* policy: worker events per session
    PipeCapacity,       \* frames the stdout pipe holds before a write blocks
    EmitIntermediate,   \* the request asks for intermediate solutions
    RogueFrames,        \* what a misbehaving worker may write; {} for the real one
    MaxRogueFrames      \* bound: frames a misbehaving worker writes

ASSUME PolicyAssumption ==
    /\ EventsPerSecond \in Nat \ {0}
    /\ EventsPerSession \in Nat \ {0}
    /\ PipeCapacity \in Nat \ {0}
    /\ EmitIntermediate \in BOOLEAN

VARIABLES
    now,        \* the clock
    stdin,      \* frames the worker has not read, and whether the parent closed it
    stdout,     \* every frame the worker wrote
    read,       \* how many of them the parent has read
    worker,     \* where RunSession is, its exit code, what the solver did
    events      \* EventWriter

processVars == <<stdin, stdout, worker, events>>

NotStarted == [pc |-> "none", exit |-> "none", found |-> FALSE, outcome |-> NoOutcome,
               code |-> "none", wall |-> 0, started |-> 0, rogue |-> FALSE]

NoEvents == [first |-> FALSE, progress |-> FALSE, seen |-> FALSE, admitted |-> 0,
             writing |-> "none", next |-> 0]

Alive == worker.pc \notin {"none", "exited"}

PipeHasRoom == Len(stdout) - read < PipeCapacity

\* WriteSessionFrame: blocks while the pipe is full.
Emit(f) ==
    /\ PipeHasRoom
    /\ stdout' = Append(stdout, f)

\* The process ends; its event writer goes with it.
Exits(code) ==
    /\ worker' = [worker EXCEPT !.pc = "exited", !.exit = code]
    /\ events' = NoEvents

-----------------------------------------------------------------------------
(***************************************************************************)
(* RunSession.                                                             *)
(***************************************************************************)
\* Read the handshake; a mismatch of versions or capabilities is answered.
WorkerHandshake ==
    /\ worker.pc = "handshake"
    /\ stdin.frames # <<>>
    /\ stdin' = [stdin EXCEPT !.frames = Tail(@)]
    /\ \/ Emit(Frame("accepted")) /\ worker' = [worker EXCEPT !.pc = "solve"] /\ UNCHANGED events
       \/ Emit(Frame("rejected")) /\ Exits("zero")
    /\ UNCHANGED <<now, read>>

\* Input ends before a complete frame: kExitProtocol.
WorkerInputEnds ==
    /\ worker.pc \in {"handshake", "solve"}
    /\ stdin.frames = <<>>
    /\ stdin.closed
    /\ Exits("nonzero")
    /\ UNCHANGED <<now, read, stdin, stdout>>

WorkerStart ==
    /\ worker.pc = "solve"
    /\ stdin.frames # <<>>
    /\ stdin' = [stdin EXCEPT !.frames = Tail(@)]
    /\ Emit(Frame("started"))
    /\ worker' = [worker EXCEPT !.pc = "eof", !.wall = Head(stdin.frames).wall]
    /\ UNCHANGED <<now, read, events>>

\* CheckEof, then ValidateSolve; the parent never writes a third frame.
InvalidSolveCodes ==
    {"ProtocolViolation", "InvalidParameters", "ResourceLimit", "InvalidModel", "UnsupportedModel"}

WorkerValidate ==
    /\ worker.pc = "eof"
    /\ stdin.frames = <<>>
    /\ stdin.closed
    /\ \/ /\ worker' = [worker EXCEPT !.pc = "solving", !.started = now]
          /\ events' = [NoEvents EXCEPT !.next = now]
          /\ UNCHANGED stdout
       \/ /\ \E code \in InvalidSolveCodes : Emit(ErrorFrame(code))
          /\ Exits("zero")
    /\ UNCHANGED <<now, read, stdin>>

\* SetStatus: the outcomes of a solver that did or did not find a solution.
SolverOutcomes ==
    IF worker.found
    THEN {Outcome(4, "Optimal", "Optimal", TRUE),
          Outcome(2, "Feasible", "TimeLimit", TRUE),
          Outcome(2, "Feasible", "SolutionLimit", TRUE)}
    ELSE {Outcome(3, "Infeasible", "Infeasible", FALSE),
          Outcome(1, "InvalidModel", "InvalidModel", FALSE),
          Outcome(0, "NoSolution",
                  IF now >= worker.started + worker.wall THEN "TimeLimit" ELSE "Unknown", FALSE)}

\* SolveCpModel returns, or an exception, a failed callback or an invalid
\* assumption core leaves an internal error; EventWriter starts to close.
SolverReturns ==
    /\ worker.pc = "solving"
    /\ \/ \E outcome \in SolverOutcomes :
              worker' = [worker EXCEPT !.pc = "closing", !.outcome = outcome]
       \/ worker' = [worker EXCEPT !.pc = "closing", !.code = "Internal"]
    /\ UNCHANGED <<now, read, stdin, stdout, events>>

\* Close joins the writer, which writes what is in its slots first.
Closed ==
    /\ worker.pc = "closing"
    /\ ~events.first
    /\ ~events.progress
    /\ events.writing = "none"

WorkerTerminal ==
    /\ Closed
    /\ Emit(IF worker.outcome = NoOutcome THEN ErrorFrame(worker.code)
                                          ELSE FinishedFrame(worker.wall, worker.outcome))
    /\ Exits("zero")
    /\ UNCHANGED <<now, read, stdin>>

\* The process dies, or a write fails, possibly in the middle of a frame.
WorkerCrash ==
    /\ Alive
    /\ \E code \in {"nonzero", "signal"} : Exits(code)
    /\ \/ UNCHANGED stdout
       \/ worker.pc # "muted" /\ Emit(Frame("torn"))
    /\ UNCHANGED <<now, read, stdin>>

-----------------------------------------------------------------------------
(***************************************************************************)
(* EventWriter: one slot for the first solution and one, coalescing, for   *)
(* progress.  An event is admitted when its slot is filled.                *)
(***************************************************************************)
\* Bug: progress may use up the event reserved for the first solution.
NoReserve == EventsPerSession

ProgressLimit == IF events.seen THEN EventsPerSession ELSE EventsPerSession - 1

\* The solver finds a solution; the first one is offered.
SolverFindsSolution ==
    /\ worker.pc = "solving"
    /\ worker' = [worker EXCEPT !.found = TRUE]
    /\ IF EmitIntermediate /\ ~events.seen /\ events.admitted < EventsPerSession
       THEN events' = [events EXCEPT !.first = TRUE, !.seen = TRUE, !.admitted = @ + 1]
       ELSE UNCHANGED events
    /\ UNCHANGED <<now, read, stdin, stdout>>

\* The bound improves; the callback gives up when the lock is taken.
SolverImprovesBound ==
    /\ worker.pc = "solving"
    /\ events.progress \/ events.admitted < ProgressLimit
    /\ events' = [events EXCEPT !.progress = TRUE,
                                !.admitted = IF events.progress THEN @ ELSE @ + 1]
    /\ UNCHANGED <<now, read, stdin, stdout, worker>>

\* The writer takes the first solution before any progress.
WriterTakes ==
    /\ Alive
    /\ events.writing = "none"
    /\ events.first \/ events.progress
    /\ events' = IF events.first
                 THEN [events EXCEPT !.first = FALSE, !.writing = "incumbent"]
                 ELSE [events EXCEPT !.progress = FALSE, !.writing = "progress"]
    /\ UNCHANGED <<now, read, stdin, stdout, worker>>

\* It sleeps until an interval has passed since its last write.
WriterWrites ==
    /\ Alive
    /\ events.writing # "none"
    /\ now >= events.next
    /\ Emit(Frame(events.writing))
    /\ events' = [events EXCEPT !.writing = "none", !.next = now + 1]
    /\ UNCHANGED <<now, read, stdin, worker>>

-----------------------------------------------------------------------------
(***************************************************************************)
(* A worker that keeps no rule of the protocol; it may also close its      *)
(* output and run on.                                                      *)
(***************************************************************************)
RogueStep ==
    /\ worker.pc \in {"rogue", "muted"}
    /\ \/ /\ worker.pc = "rogue" /\ Len(stdout) < MaxRogueFrames
          /\ \E f \in RogueFrames : Emit(f)
          /\ UNCHANGED <<worker, events>>
       \/ /\ worker.pc = "rogue"
          /\ worker' = [worker EXCEPT !.pc = "muted"]
          /\ UNCHANGED <<stdout, events>>
       \/ /\ \E code \in {"zero", "nonzero"} : Exits(code)
          /\ UNCHANGED stdout
    /\ UNCHANGED <<now, read, stdin>>

WorkerStep ==
    \/ WorkerHandshake
    \/ WorkerInputEnds
    \/ WorkerStart
    \/ WorkerValidate
    \/ SolverFindsSolution
    \/ SolverImprovesBound
    \/ WriterTakes
    \/ WriterWrites
    \/ SolverReturns
    \/ WorkerTerminal
    \/ WorkerCrash
    \/ RogueStep

=============================================================================
