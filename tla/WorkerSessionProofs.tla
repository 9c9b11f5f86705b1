------------------------- MODULE WorkerSessionProofs -------------------------
(***************************************************************************)
(* Proofs about a supervised session, for every policy, every time limit   *)
(* and every set of frames a misbehaving worker may write.                 *)
(*                                                                         *)
(* The inductive invariant SessionInv says, beside the types: what each    *)
(* stage of the supervisor implies for the process it holds (ProcessInv);  *)
(* how the phase of ParentProtocol describes the frames read so far        *)
(* (ReadInv); what a worker that keeps the protocol has counted, written   *)
(* and been sent (EventsInv, WorkerInv, InputInv); that only others are    *)
(* blamed (ErrorInv); and which candidates the adapter has put in the      *)
(* router's output (DeliveryInv).                                          *)
(***************************************************************************)
EXTENDS WorkerSession, TLAPS

-----------------------------------------------------------------------------
(***************************************************************************)
(* Types.                                                                  *)
(***************************************************************************)
Kinds == {"none", "handshake", "solve", "accepted", "rejected", "started", "progress",
          "incumbent", "finished", "error", "torn"}

Codes == InvalidSolveCodes \cup {"none", "Internal"}

Outcomes == CoherentOutcome \cup {NoOutcome}

OwnFrame == [kind : Kinds, own : {TRUE}, wall : Int, outcome : Outcomes, code : Codes]

AnyFrame == OwnFrame \cup RogueFrames

Phases == {"HandshakeRequest", "HandshakeResponse", "SolveRequest", "Started", "Running",
           "Terminal", "Eof", "Complete", "Rejected", "RejectedEof", "RejectedComplete",
           "Failed"}

ProtocolState == [phase : Phases, wall : Int, evidence : AnyFrame]

Places == {"none", "handshake", "solve", "eof", "solving", "closing", "exited", "rogue", "muted"}

WorkerState == [pc : Places, exit : {"none", "zero", "nonzero", "signal"}, found : BOOLEAN,
                outcome : Outcomes, code : Codes, wall : Int, started : Nat, rogue : BOOLEAN]

EventState == [first : BOOLEAN, progress : BOOLEAN, seen : BOOLEAN, admitted : Nat,
               writing : {"none", "progress", "incumbent"}, next : Nat]

InputState == [frames : Seq(OwnFrame), closed : BOOLEAN]

Stages == BudgetedStages \cup {"launch", "observing", "announcing", "stopping", "ended",
                               "submitted", "returned", "abandoned"}

SessionTypes ==
    /\ now \in Nat /\ cancelled \in BOOLEAN
    /\ stdin \in InputState
    /\ stdout \in Seq(AnyFrame)
    /\ read \in Nat /\ read =< Len(stdout)
    /\ worker \in WorkerState
    /\ events \in EventState
    /\ stage \in Stages
    /\ protocol \in ProtocolState
    /\ account.events \in Nat
    /\ error \in Errors \cup {"none"}
    /\ child \in {"none", "running", "reaped"}
    /\ pending \in AnyFrame
    /\ retained \in BOOLEAN
    /\ answer \in Answers \cup {"none"}

-----------------------------------------------------------------------------
(***************************************************************************)
(* The process, as the stages of the supervisor hold it.                   *)
(***************************************************************************)
Attached == {"handshake", "response", "dispatch", "reading", "observing", "announcing", "exit"}

Over == {"ended", "submitted", "returned"}

ProcessInv ==
    /\ worker.exit = "none" <=> worker.pc # "exited"
    /\ worker.pc = "none" <=> child = "none"
    /\ child = "reaped" => worker.pc = "exited"
    /\ stage = "launch" => child = "none"
    /\ stage \in Attached => child = "running"
    /\ stage = "stopping" => child # "none"
    /\ stage = "stderr" => child = "reaped"
    /\ stage \in Over => child # "running"
    /\ stage \in Over /\ error = "none" => child = "reaped"
    /\ stage \in Attached \cup {"launch", "stderr", "submitted"} => error = "none"
    /\ stage = "stopping" => error # "none"
    /\ answer # "none" <=> stage = "returned"

-----------------------------------------------------------------------------
(***************************************************************************)
(* The protocol: what its phase p says of the first n frames of an output, *)
(* and of the number c of events counted among them.                       *)
(***************************************************************************)
Opened(out, n) == n >= 2 /\ out[1].kind = "accepted" /\ out[2].kind = "started"

Ended == {"Terminal", "Eof", "Complete"}

Refused == {"Rejected", "RejectedEof", "RejectedComplete"}

Admitted(p, n, out, c) ==
    /\ \A i \in 1 .. n : out[i].own
    /\ p.phase # "Failed"
    /\ p.phase \in {"HandshakeRequest", "HandshakeResponse"} => n = 0 /\ c = 0
    /\ p.phase \in {"SolveRequest", "Started"} => n = 1 /\ c = 0 /\ out[1].kind = "accepted"
    /\ p.phase \in Refused => n = 1 /\ c = 0 /\ out[1].kind = "rejected"
    /\ p.phase = "Running" =>
           /\ Opened(out, n) /\ c = n - 2
           /\ \A i \in 3 .. n : IsEvent(out[i])
    /\ p.phase \in Ended =>
           /\ Opened(out, n) /\ n >= 3 /\ c = n - 3
           /\ \A i \in 3 .. n - 1 : IsEvent(out[i])
           /\ out[n] = p.evidence
           /\ p.evidence.kind \in {"finished", "error"}
           /\ p.evidence.kind = "finished" => p.evidence.outcome \in CoherentOutcome
    /\ p.phase \notin Ended => p.evidence.kind = "none"

ReadInv ==
    /\ error = "none" =>
           /\ Admitted(protocol, read, stdout, account.events)
           /\ protocol.phase \in {"Eof", "RejectedEof", "Complete", "RejectedComplete"} =>
                  read = Len(stdout) /\ worker.pc \in {"muted", "exited"}
           /\ protocol.phase \in {"Complete", "RejectedComplete"} => worker.exit = "zero"
    /\ stage \in {"launch", "handshake"} => protocol.phase = "HandshakeRequest"
    /\ stage = "response" => protocol.phase = "HandshakeResponse"
    /\ stage = "dispatch" => protocol.phase = "SolveRequest"
    /\ stage \in {"reading", "observing", "announcing"} =>
           protocol.phase \in {"Started", "Running", "Terminal", "Rejected"}
    /\ stage = "exit" => protocol.phase \in {"Eof", "RejectedEof"}
    /\ stage = "stderr" \/ (stage \in Over /\ error = "none") =>
           protocol.phase \in {"Complete", "RejectedComplete"}

-----------------------------------------------------------------------------
(***************************************************************************)
(* The worker.  One that keeps the protocol has written what its place     *)
(* says, and admitted no more events than a session may have.              *)
(***************************************************************************)
Bit(b) == IF b THEN 1 ELSE 0

\* Events admitted and not yet written.
Waiting(ev) == Bit(ev.first) + Bit(ev.progress) + Bit(ev.writing # "none")

IncumbentIn(out) == \E i \in 1 .. Len(out) : out[i].kind = "incumbent"

EventsInv ==
    /\ worker.pc \notin {"solving", "closing"} => events = NoEvents
    /\ events.admitted =< EventsPerSession
    /\ ~events.seen => events.admitted < EventsPerSession /\ ~events.first
    /\ EmitIntermediate /\ worker.found /\ worker.pc \in {"solving", "closing"} => events.seen
    /\ events.seen => events.first \/ events.writing = "incumbent" \/ IncumbentIn(stdout)

Begun(out) == Len(out) >= 2 /\ out[1] = Frame("accepted") /\ out[2] = Frame("started")

OwnEvent(f) == f = Frame("progress") \/ f = Frame("incumbent")

\* What the last frame may be, for a request of this limit.
OwnTerminal(f, wall) ==
    /\ f.own
    /\ f.kind \in {"finished", "error"}
    /\ f.kind = "finished" => f.outcome \in CoherentOutcome /\ f.wall = wall

Finished(out, wall) ==
    \/ Len(out) = 1 /\ out[1] = Frame("rejected")
    \/ /\ Begun(out) /\ Len(out) >= 3 /\ Len(out) =< EventsPerSession + 3
       /\ \A i \in 3 .. Len(out) - 1 : OwnEvent(out[i])
       /\ OwnTerminal(out[Len(out)], wall)

Wrote(w, ev, out, wall) ==
    /\ w.pc \in {"none", "handshake"} => out = <<>>
    /\ w.pc = "solve" => Len(out) = 1 /\ out[1] = Frame("accepted")
    /\ w.pc = "eof" => Begun(out) /\ Len(out) = 2
    /\ w.pc \in {"solving", "closing"} =>
           /\ Begun(out) /\ Len(out) + Waiting(ev) = 2 + ev.admitted
           /\ \A i \in 3 .. Len(out) : OwnEvent(out[i])
    /\ w.exit = "zero" => Finished(out, wall)

WorkerInv ==
    /\ worker.pc = "none" => worker = NotStarted
    /\ worker.pc \in {"rogue", "muted"} => worker.rogue
    /\ worker.rogue => worker.pc \in {"rogue", "muted", "exited"} /\ ~worker.found
    /\ worker.pc \in {"none", "handshake", "solve", "eof"} => ~worker.found
    /\ worker.outcome = NoOutcome \/ worker.outcome \in CoherentOutcome
    /\ ~worker.rogue =>
           /\ Wrote(worker, events, stdout, protocol.wall)
           /\ worker.exit = "zero" /\ worker.found /\ EmitIntermediate => IncumbentIn(stdout)
           /\ worker.pc \in {"eof", "solving", "closing"} => worker.wall = protocol.wall

\* The frames the worker has not read yet.
InputInv ==
    /\ stage \in {"launch", "handshake"} => stdin.frames = <<>> /\ worker.pc # "solve"
    /\ worker.pc = "handshake" => Len(stdin.frames) =< 1
    /\ worker.pc = "solve" =>
           /\ Len(stdin.frames) =< 1
           /\ stdin.frames # <<>> => stdin.frames[1].wall = protocol.wall
    /\ stage \in {"launch", "handshake", "response", "dispatch"} =>
           /\ worker.pc \notin {"eof", "solving", "closing"}
           /\ worker.pc = "solve" => stdin.frames = <<>>
           /\ worker.exit = "zero" /\ ~worker.rogue =>
                  Len(stdout) = 1 /\ stdout[1] = Frame("rejected")

\* Why a session may have failed.
ErrorInv ==
    error \in {"Protocol", "FrameCountLimit", "EventCountLimit"} =>
        worker.rogue \/ worker.exit \in {"nonzero", "signal"}

-----------------------------------------------------------------------------
(***************************************************************************)
(* The router's output.                                                    *)
(***************************************************************************)
Kept == IF retained THEN <<"incumbent">> ELSE <<>>

DeliveryInv ==
    /\ stage \in (Attached \ {"announcing"}) \cup {"launch", "stderr"} => sink = Kept
    /\ stage = "announcing" => sink = <<"incumbent">> /\ ~retained
    /\ stage \in {"stopping", "ended"} =>
           \/ sink = Kept
           \/ sink = <<"incumbent">> /\ ~retained /\ SinkClosed /\ error # "none"
    /\ stage = "submitted" => FinalCandidate /\ sink = Append(Kept, "final")
    /\ stage = "returned" /\ answer \in {"OptimalityClaimed", "CandidateFound"} =>
           error = "none" /\ sink = Append(Kept, "final")
    /\ stage = "observing" => read > 0 /\ pending = stdout[read]
    /\ EmitIntermediate /\ error = "none" /\ stage # "abandoned" =>
           \A i \in 1 .. read : stdout[i].kind = "incumbent" =>
               \/ retained
               \/ stage = "observing" /\ pending.kind = "incumbent"
               \/ stage = "announcing"

SessionInv ==
    SessionTypes /\ ProcessInv /\ ReadInv /\ EventsInv /\ WorkerInv /\ InputInv /\ ErrorInv
        /\ DeliveryInv

-----------------------------------------------------------------------------
(***************************************************************************)
(* The operators of the protocol.                                          *)
(***************************************************************************)
\* An appended sequence keeps its elements and ends with the new one.
LEMMA Appended ==
    ASSUME NEW S, NEW s \in Seq(S), NEW x \in S
    PROVE  /\ Append(s, x) \in Seq(S)
           /\ Len(s) \in Nat
           /\ Len(Append(s, x)) = Len(s) + 1
           /\ \A i \in 1 .. Len(s) : Append(s, x)[i] = s[i]
           /\ Append(s, x)[Len(s) + 1] = x
  OBVIOUS

\* A pair is a single element with one more appended.
LEMMA PairAppended ==
    ASSUME NEW a, NEW b
    PROVE  Append(<<a>>, b) = <<a, b>>
  <1>1. PICK S : S = {a, b}
    OBVIOUS
  <1>2. a \in S /\ b \in S
    BY <1>1
  <1>3. PICK s, t, u : s = <<a>> /\ t = Append(s, b) /\ u = <<a, b>>
    OBVIOUS
  <1>4. s \in Seq(S) /\ Len(s) = 1 /\ s[1] = a
    BY <1>2, <1>3
  <1>5. /\ t \in Seq(S) /\ Len(t) = Len(s) + 1 /\ t[Len(s) + 1] = b
        /\ \A i \in 1 .. Len(s) : t[i] = s[i]
    <2>1. s \in Seq(S) /\ t = Append(s, b)
      BY <1>3, <1>4
    <2> QED
      BY <1>2, <2>1, Appended
  <1>6. Len(t) = 2 /\ t[1] = a /\ t[2] = b
    BY <1>4, <1>5
  <1>7. u \in Seq(S) /\ Len(u) = 2 /\ u[1] = a /\ u[2] = b
    BY <1>2, <1>3
  <1>8. t = u
    BY <1>5, <1>6, <1>7
  <1> QED
    BY <1>3, <1>8

\* The frames of both sides are frames of this session.
LEMMA FramesTyped ==
    /\ \A kind \in Kinds : Frame(kind) \in OwnFrame /\ Frame(kind).kind = kind /\ Frame(kind).own
    /\ \A code \in Codes : /\ ErrorFrame(code) \in OwnFrame
                           /\ ErrorFrame(code).kind = "error" /\ ErrorFrame(code).own
    /\ \A wall \in Int : /\ SolveRequest(wall) \in OwnFrame
                         /\ SolveRequest(wall).kind = "solve"
                         /\ SolveRequest(wall).wall = wall
    /\ \A wall \in Int, outcome \in Outcomes :
           /\ FinishedFrame(wall, outcome) \in OwnFrame
           /\ FinishedFrame(wall, outcome).kind = "finished"
           /\ FinishedFrame(wall, outcome).own
           /\ FinishedFrame(wall, outcome).wall = wall
           /\ FinishedFrame(wall, outcome).outcome = outcome
  <1>1. \A kind \in Kinds : Frame(kind) \in OwnFrame /\ Frame(kind).kind = kind /\ Frame(kind).own
    BY DEF Frame, OwnFrame, Codes, Outcomes
  <1>2. ASSUME NEW code \in Codes
        PROVE  /\ ErrorFrame(code) \in OwnFrame
               /\ ErrorFrame(code).kind = "error" /\ ErrorFrame(code).own
    <2>1. PICK f : f = Frame("error")
      OBVIOUS
    <2>2. f \in OwnFrame /\ f.kind = "error" /\ f.own
      BY <1>1, <2>1 DEF Kinds
    <2>3. ErrorFrame(code) = [f EXCEPT !.code = code]
      BY <2>1 DEF ErrorFrame
    <2> QED
      BY <2>2, <2>3 DEF OwnFrame
  <1>3. ASSUME NEW wall \in Int
        PROVE  /\ SolveRequest(wall) \in OwnFrame
               /\ SolveRequest(wall).kind = "solve" /\ SolveRequest(wall).wall = wall
    BY DEF Frame, SolveRequest, OwnFrame, Kinds, Codes, Outcomes
  <1>4. ASSUME NEW wall \in Int, NEW outcome \in Outcomes
        PROVE  /\ FinishedFrame(wall, outcome) \in OwnFrame
               /\ FinishedFrame(wall, outcome).kind = "finished"
               /\ FinishedFrame(wall, outcome).own
               /\ FinishedFrame(wall, outcome).wall = wall
               /\ FinishedFrame(wall, outcome).outcome = outcome
    BY DEF Frame, FinishedFrame, OwnFrame, Kinds, Codes
  <1> QED
    BY <1>1, <1>2, <1>3, <1>4

\* What the outcomes that agree with themselves amount to.
LEMMA CoherentTerminations ==
    ASSUME NEW o \in CoherentOutcome
    PROVE  /\ FinishedTermination(o) \in Answers
           /\ FinishedTermination(o) \in {"OptimalityClaimed", "CandidateFound"} => o.candidate
           /\ o.candidate => FinishedTermination(o) \notin {"Failed", "Unavailable"}
  BY DEF CoherentOutcome, Outcome, FinishedTermination, Answers

\* What the solver may return agrees with itself.
LEMMA SolverOutcomesCoherent ==
    \A o \in SolverOutcomes : o \in CoherentOutcome
  BY DEF SolverOutcomes, CoherentOutcome, Outcome

\* OnWorkerFrame refuses the frame, or takes the step its phase expects.
LEMMA WorkerFrameStep ==
    ASSUME NEW p \in ProtocolState, NEW f \in AnyFrame,
           NEW q, q = OnWorkerFrame(p, f)
    PROVE  /\ q \in ProtocolState /\ q.wall = p.wall
           /\ q.phase # "Failed" =>
                  /\ ValidWorkerFrame(p, f)
                  /\ <<p.phase, f.kind, q.phase>> \in WorkerSteps
                  /\ q.evidence = IF f.kind \in {"finished", "error"} THEN f ELSE p.evidence
           /\ ValidWorkerFrame(p, f) =>
                  \A next \in Phases : <<p.phase, f.kind, next>> \in WorkerSteps => q.phase = next
  <1> DEFINE steps == {t \in WorkerSteps : t[1] = p.phase /\ t[2] = f.kind}
             t == CHOOSE x \in steps : TRUE
  <1>1. CASE steps = {} \/ ~ValidWorkerFrame(p, f)
    <2>1. q = [p EXCEPT !.phase = "Failed"]
      BY <1>1 DEF OnWorkerFrame, Failed
    <2>2. \A next \in Phases : <<p.phase, f.kind, next>> \in WorkerSteps =>
              <<p.phase, f.kind, next>> \in steps
      OBVIOUS
    <2> QED
      BY <1>1, <2>1, <2>2 DEF ProtocolState, Phases
  <1>2. CASE ~(steps = {} \/ ~ValidWorkerFrame(p, f))
    <2>1. t \in steps
      BY <1>2
    <2> HIDE DEF t
    <2>2. t \in WorkerSteps /\ t[1] = p.phase /\ t[2] = f.kind
      BY <2>1
    <2>3. q = [p EXCEPT !.phase = t[3],
                        !.evidence = IF f.kind \in {"finished", "error"} THEN f ELSE @]
      BY <1>2 DEF OnWorkerFrame, t
    <2>4. t = <<p.phase, f.kind, t[3]>> /\ t[3] \in Phases \ {"Failed"}
      BY <2>2 DEF WorkerSteps, Phases
    <2>5. q \in ProtocolState /\ q.wall = p.wall /\ q.phase = t[3]
          /\ q.evidence = IF f.kind \in {"finished", "error"} THEN f ELSE p.evidence
      BY <2>3, <2>4 DEF ProtocolState
    <2>6. \A next \in Phases : <<p.phase, f.kind, next>> \in WorkerSteps => t[3] = next
      BY <2>2 DEF WorkerSteps
    <2> QED
      BY <1>2, <2>2, <2>4, <2>5, <2>6
  <1> QED
    BY <1>1, <1>2

\* The other operators change the phase alone, except that a request has a limit.
LEMMA ProtocolTyped ==
    ASSUME NEW p \in ProtocolState
    PROVE  /\ Failed(p) \in ProtocolState
           /\ OnParentFrame(p, Frame("handshake")) \in ProtocolState
           /\ OnParentFrame(p, Frame("handshake")).wall = p.wall
           /\ OnParentFrame(p, Frame("handshake")).evidence = p.evidence
           /\ p.phase = "HandshakeRequest" =>
                  OnParentFrame(p, Frame("handshake")).phase = "HandshakeResponse"
           /\ OnEof(p) \in ProtocolState
           /\ OnEof(p).wall = p.wall /\ OnEof(p).evidence = p.evidence
           /\ OnEof(p).phase = CASE p.phase = "Terminal" -> "Eof"
                                 [] p.phase = "Rejected" -> "RejectedEof"
                                 [] OTHER -> "Failed"
           /\ \A code : /\ OnExit(p, code) \in ProtocolState
                        /\ OnExit(p, code).wall = p.wall
                        /\ OnExit(p, code).evidence = p.evidence
                        /\ OnExit(p, code).phase =
                               CASE p.phase = "Eof" /\ code = "zero" -> "Complete"
                                 [] p.phase = "RejectedEof" /\ code = "zero" -> "RejectedComplete"
                                 [] OTHER -> "Failed"
  BY DEF ProtocolState, Phases, Failed, OnParentFrame, OnEof, OnExit, Frame

LEMMA RequestStep ==
    ASSUME NEW p \in ProtocolState, p.phase = "SolveRequest",
           NEW asked \in Nat \ {0}, NEW left \in Int
    PROVE  LET started == OnParentFrame(p, SolveRequest(asked))
               sent == TightenWallTime(started, left)
           IN  /\ started \in ProtocolState /\ sent \in ProtocolState
               /\ started.evidence = p.evidence /\ sent.evidence = p.evidence
               /\ left > 0 /\ left =< asked => sent.phase = "Started" /\ sent.wall = left
  <1>1. OnParentFrame(p, SolveRequest(asked)) = [p EXCEPT !.phase = "Started", !.wall = asked]
    BY DEF OnParentFrame, SolveRequest, Frame
  <1>2. PICK started : started = [p EXCEPT !.phase = "Started", !.wall = asked]
    OBVIOUS
  <1>3. /\ started \in ProtocolState /\ started.phase = "Started" /\ started.wall = asked
        /\ started.evidence = p.evidence
    <2>1. PICK p1 : p1 = [p EXCEPT !.phase = "Started"]
      OBVIOUS
    <2>2. started = [p1 EXCEPT !.wall = asked]
      BY <1>2, <2>1, Zenon
    <2>3. p1 \in ProtocolState /\ p1.phase = "Started" /\ p1.evidence = p.evidence
      BY <2>1 DEF ProtocolState, Phases
    <2> QED
      BY <2>2, <2>3 DEF ProtocolState
  <1>4. PICK sent : sent = TightenWallTime(started, left)
    OBVIOUS
  <1>5. /\ sent \in ProtocolState /\ sent.evidence = p.evidence
        /\ left > 0 /\ left =< asked => sent.phase = "Started" /\ sent.wall = left
    BY <1>3, <1>4 DEF ProtocolState, Phases, TightenWallTime, Failed
  <1> QED
    BY <1>1, <1>2, <1>3, <1>4, <1>5

-----------------------------------------------------------------------------
(***************************************************************************)
(* The records the worker's steps make.                                    *)
(***************************************************************************)
\* A worker that moves on keeps who it is.
SameWorker(w, v) == v.rogue = w.rogue /\ v.found = w.found

LEMMA WorkerMoves ==
    ASSUME NEW w \in WorkerState, NEW pc \in Places
    PROVE  /\ \A v : v = [w EXCEPT !.pc = pc] =>
                  /\ v \in WorkerState /\ SameWorker(w, v) /\ v.pc = pc
                  /\ v.exit = w.exit /\ v.wall = w.wall /\ v.outcome = w.outcome
                  /\ v.code = w.code
  BY DEF WorkerState, SameWorker

Exited(w, code) == [w EXCEPT !.pc = "exited", !.exit = code]

LEMMA WorkerExits ==
    ASSUME NEW w \in WorkerState, NEW code \in {"zero", "nonzero", "signal"},
           NEW v, v = Exited(w, code)
    PROVE  /\ v \in WorkerState /\ SameWorker(w, v) /\ v.pc = "exited" /\ v.exit = code
           /\ v.outcome = w.outcome /\ v.wall = w.wall /\ v.code = w.code
  <1>1. PICK u : u = [w EXCEPT !.pc = "exited"]
    OBVIOUS
  <1>2. v = [u EXCEPT !.exit = code]
    BY <1>1, Zenon DEF Exited
  <1>3. /\ u \in WorkerState /\ SameWorker(w, u) /\ u.pc = "exited" /\ u.outcome = w.outcome
        /\ u.wall = w.wall /\ u.code = w.code
    BY <1>1, WorkerMoves DEF Places
  <1> QED
    BY <1>2, <1>3 DEF WorkerState, SameWorker

AtEof(w, wall) == [w EXCEPT !.pc = "eof", !.wall = wall]

LEMMA WorkerStarts ==
    ASSUME NEW w \in WorkerState, NEW wall \in Int,
           NEW v, v = AtEof(w, wall)
    PROVE  /\ v \in WorkerState /\ SameWorker(w, v) /\ v.pc = "eof" /\ v.exit = w.exit
           /\ v.outcome = w.outcome /\ v.wall = wall
  <1>1. PICK u : u = [w EXCEPT !.pc = "eof"]
    OBVIOUS
  <1>2. v = [u EXCEPT !.wall = wall]
    BY <1>1, Zenon DEF AtEof
  <1>3. /\ u \in WorkerState /\ SameWorker(w, u) /\ u.pc = "eof" /\ u.outcome = w.outcome
        /\ u.exit = w.exit
    BY <1>1, WorkerMoves DEF Places
  <1> QED
    BY <1>2, <1>3 DEF WorkerState, SameWorker

Solving(w, t) == [w EXCEPT !.pc = "solving", !.started = t]

LEMMA WorkerSolves ==
    ASSUME NEW w \in WorkerState, NEW t \in Nat,
           NEW v, v = Solving(w, t)
    PROVE  /\ v \in WorkerState /\ SameWorker(w, v) /\ v.pc = "solving" /\ v.exit = w.exit
           /\ v.outcome = w.outcome /\ v.wall = w.wall
  <1>1. PICK u : u = [w EXCEPT !.pc = "solving"]
    OBVIOUS
  <1>2. v = [u EXCEPT !.started = t]
    BY <1>1, Zenon DEF Solving
  <1>3. /\ u \in WorkerState /\ SameWorker(w, u) /\ u.pc = "solving" /\ u.outcome = w.outcome
        /\ u.exit = w.exit /\ u.wall = w.wall
    BY <1>1, WorkerMoves DEF Places
  <1> QED
    BY <1>2, <1>3 DEF WorkerState, SameWorker

Closing(w, outcome) == [w EXCEPT !.pc = "closing", !.outcome = outcome]

LEMMA WorkerCloses ==
    ASSUME NEW w \in WorkerState, NEW outcome \in CoherentOutcome, NEW v,
           v = Closing(w, outcome)
    PROVE  /\ v \in WorkerState /\ SameWorker(w, v) /\ v.pc = "closing" /\ v.exit = w.exit
           /\ v.outcome = outcome /\ v.wall = w.wall
  <1>1. PICK u : u = [w EXCEPT !.pc = "closing"]
    OBVIOUS
  <1>2. v = [u EXCEPT !.outcome = outcome]
    BY <1>1, Zenon DEF Closing
  <1>3. /\ u \in WorkerState /\ SameWorker(w, u) /\ u.pc = "closing" /\ u.outcome = w.outcome
        /\ u.exit = w.exit /\ u.wall = w.wall
    BY <1>1, WorkerMoves DEF Places
  <1> QED
    BY <1>2, <1>3 DEF WorkerState, SameWorker, Outcomes

GivenUp(w) == [w EXCEPT !.pc = "closing", !.code = "Internal"]

LEMMA WorkerGivesUp ==
    ASSUME NEW w \in WorkerState, NEW v,
           v = GivenUp(w)
    PROVE  /\ v \in WorkerState /\ SameWorker(w, v) /\ v.pc = "closing" /\ v.exit = w.exit
           /\ v.outcome = w.outcome /\ v.wall = w.wall
  <1>1. PICK u : u = [w EXCEPT !.pc = "closing"]
    OBVIOUS
  <1>2. v = [u EXCEPT !.code = "Internal"]
    BY <1>1, Zenon DEF GivenUp
  <1>3. /\ u \in WorkerState /\ SameWorker(w, u) /\ u.pc = "closing" /\ u.outcome = w.outcome
        /\ u.exit = w.exit /\ u.wall = w.wall
    BY <1>1, WorkerMoves DEF Places
  <1> QED
    BY <1>2, <1>3 DEF WorkerState, SameWorker, Codes

LEMMA WorkerFinds ==
    ASSUME NEW w \in WorkerState, NEW v, v = [w EXCEPT !.found = TRUE]
    PROVE  /\ v \in WorkerState /\ v.rogue = w.rogue /\ v.found /\ v.pc = w.pc
           /\ v.exit = w.exit /\ v.outcome = w.outcome /\ v.wall = w.wall
  BY DEF WorkerState

Launched(rogue) == [NotStarted EXCEPT !.pc = IF rogue THEN "rogue" ELSE "handshake",
                                      !.rogue = rogue]

LEMMA WorkerLaunched ==
    ASSUME NEW rogue \in BOOLEAN, NEW v,
           v = Launched(rogue)
    PROVE  /\ v \in WorkerState /\ v.rogue = rogue /\ ~v.found /\ v.exit = "none"
           /\ v.pc = (IF rogue THEN "rogue" ELSE "handshake") /\ v.outcome = NoOutcome
  <1>1. PICK w : w = NotStarted
    OBVIOUS
  <1>2. w \in WorkerState /\ ~w.found /\ w.exit = "none" /\ w.outcome = NoOutcome
    BY <1>1 DEF NotStarted, WorkerState, Places, Codes, Outcomes
  <1>3. PICK u : u = [w EXCEPT !.pc = IF rogue THEN "rogue" ELSE "handshake"]
    OBVIOUS
  <1>4. v = [u EXCEPT !.rogue = rogue]
    BY <1>1, <1>3, Zenon DEF Launched
  <1>5. /\ u \in WorkerState /\ ~u.found /\ u.exit = "none" /\ u.outcome = NoOutcome
        /\ u.pc = IF rogue THEN "rogue" ELSE "handshake"
    BY <1>2, <1>3, WorkerMoves DEF Places, SameWorker
  <1> QED
    BY <1>4, <1>5 DEF WorkerState

\* The slots of the event writer.
LEMMA EventsOpened ==
    ASSUME NEW e \in EventState, NEW t \in Nat, NEW v,
           v = [e EXCEPT !.next = t]
    PROVE  /\ v \in EventState /\ v.first = e.first /\ v.progress = e.progress /\ v.seen = e.seen
           /\ v.admitted = e.admitted /\ v.writing = e.writing /\ v.next = t
  BY DEF EventState

Offered(e) == [e EXCEPT !.first = TRUE, !.seen = TRUE, !.admitted = @ + 1]

LEMMA FirstOffered ==
    ASSUME NEW e \in EventState, NEW v,
           v = Offered(e)
    PROVE  /\ v \in EventState /\ v.first = TRUE /\ v.progress = e.progress /\ v.seen = TRUE
           /\ v.admitted = e.admitted + 1 /\ v.writing = e.writing /\ v.next = e.next
  <1>1. PICK u1 : u1 = [e EXCEPT !.first = TRUE]
    OBVIOUS
  <1>2. /\ u1 \in EventState /\ u1.first = TRUE /\ u1.progress = e.progress /\ u1.seen = e.seen
        /\ u1.admitted = e.admitted /\ u1.writing = e.writing /\ u1.next = e.next
    BY <1>1 DEF EventState
  <1>3. PICK u2 : u2 = [u1 EXCEPT !.seen = TRUE]
    OBVIOUS
  <1>4. /\ u2 \in EventState /\ u2.first = TRUE /\ u2.progress = e.progress /\ u2.seen = TRUE
        /\ u2.admitted = e.admitted /\ u2.writing = e.writing /\ u2.next = e.next
    BY <1>3, <1>2 DEF EventState
  <1>5. v = [u2 EXCEPT !.admitted = @ + 1]
    BY <1>1, <1>3, Zenon DEF Offered
  <1> QED
    BY <1>4, <1>5 DEF EventState

OfferedProgress(e) == [e EXCEPT !.progress = TRUE,
                                 !.admitted = IF e.progress THEN @ ELSE @ + 1]

LEMMA ProgressOffered ==
    ASSUME NEW e \in EventState, NEW v,
           v = OfferedProgress(e)
    PROVE  /\ v \in EventState /\ v.first = e.first /\ v.progress = TRUE /\ v.seen = e.seen
           /\ v.admitted = (IF e.progress THEN e.admitted ELSE e.admitted + 1)
           /\ v.writing = e.writing /\ v.next = e.next
  <1>1. PICK u1 : u1 = [e EXCEPT !.progress = TRUE]
    OBVIOUS
  <1>2. /\ u1 \in EventState /\ u1.first = e.first /\ u1.progress = TRUE /\ u1.seen = e.seen
        /\ u1.admitted = e.admitted /\ u1.writing = e.writing /\ u1.next = e.next
    BY <1>1 DEF EventState
  <1>3. v = [u1 EXCEPT !.admitted = IF e.progress THEN @ ELSE @ + 1]
    BY <1>1, Zenon DEF OfferedProgress
  <1> QED
    BY <1>2, <1>3 DEF EventState

Taken(e) == [e EXCEPT !.first = FALSE, !.writing = "incumbent"]

LEMMA FirstTaken ==
    ASSUME NEW e \in EventState, NEW v,
           v = Taken(e)
    PROVE  /\ v \in EventState /\ v.first = FALSE /\ v.progress = e.progress /\ v.seen = e.seen
           /\ v.admitted = e.admitted /\ v.writing = "incumbent" /\ v.next = e.next
  <1>1. PICK u1 : u1 = [e EXCEPT !.first = FALSE]
    OBVIOUS
  <1>2. /\ u1 \in EventState /\ u1.first = FALSE /\ u1.progress = e.progress /\ u1.seen = e.seen
        /\ u1.admitted = e.admitted /\ u1.writing = e.writing /\ u1.next = e.next
    BY <1>1 DEF EventState
  <1>3. v = [u1 EXCEPT !.writing = "incumbent"]
    BY <1>1, Zenon DEF Taken
  <1> QED
    BY <1>2, <1>3 DEF EventState

TakenProgress(e) == [e EXCEPT !.progress = FALSE, !.writing = "progress"]

LEMMA ProgressTaken ==
    ASSUME NEW e \in EventState, NEW v,
           v = TakenProgress(e)
    PROVE  /\ v \in EventState /\ v.first = e.first /\ v.progress = FALSE /\ v.seen = e.seen
           /\ v.admitted = e.admitted /\ v.writing = "progress" /\ v.next = e.next
  <1>1. PICK u1 : u1 = [e EXCEPT !.progress = FALSE]
    OBVIOUS
  <1>2. /\ u1 \in EventState /\ u1.first = e.first /\ u1.progress = FALSE /\ u1.seen = e.seen
        /\ u1.admitted = e.admitted /\ u1.writing = e.writing /\ u1.next = e.next
    BY <1>1 DEF EventState
  <1>3. v = [u1 EXCEPT !.writing = "progress"]
    BY <1>1, Zenon DEF TakenProgress
  <1> QED
    BY <1>2, <1>3 DEF EventState

Written(e, t) == [e EXCEPT !.writing = "none", !.next = t]

LEMMA EventWritten ==
    ASSUME NEW e \in EventState, NEW t \in Nat, NEW v,
           v = Written(e, t)
    PROVE  /\ v \in EventState /\ v.first = e.first /\ v.progress = e.progress /\ v.seen = e.seen
           /\ v.admitted = e.admitted /\ v.writing = "none" /\ v.next = t
  <1>1. PICK u1 : u1 = [e EXCEPT !.writing = "none"]
    OBVIOUS
  <1>2. /\ u1 \in EventState /\ u1.first = e.first /\ u1.progress = e.progress /\ u1.seen = e.seen
        /\ u1.admitted = e.admitted /\ u1.writing = "none" /\ u1.next = e.next
    BY <1>1 DEF EventState
  <1>3. v = [u1 EXCEPT !.next = t]
    BY <1>1, Zenon DEF Written
  <1> QED
    BY <1>2, <1>3 DEF EventState

\* The pipes.
LEMMA InputTaken ==
    ASSUME NEW in \in InputState, in.frames # <<>>, NEW v,
           v = [in EXCEPT !.frames = Tail(@)]
    PROVE  /\ v \in InputState /\ v.closed = in.closed /\ Len(in.frames) \in Nat \ {0}
           /\ Len(v.frames) = Len(in.frames) - 1
           /\ Head(in.frames) = in.frames[1] /\ in.frames[1] \in OwnFrame
           /\ Len(in.frames) =< 1 => v.frames = <<>>
  <1>1. in.frames \in Seq(OwnFrame) /\ v.frames = Tail(in.frames) /\ v.closed = in.closed
        /\ v = [in EXCEPT !.frames = v.frames]
    BY DEF InputState
  <1>2. PICK s : s = in.frames
    OBVIOUS
  <1>3. /\ Tail(s) \in Seq(OwnFrame) /\ Len(s) \in Nat \ {0} /\ Len(Tail(s)) = Len(s) - 1
        /\ Head(s) = s[1] /\ s[1] \in OwnFrame
        /\ Len(s) =< 1 => Tail(s) = <<>>
    BY <1>1, <1>2
  <1> QED
    BY <1>1, <1>2, <1>3 DEF InputState

LEMMA InputClosed ==
    ASSUME NEW in \in InputState, NEW v, v = [in EXCEPT !.closed = TRUE]
    PROVE  v \in InputState /\ v.frames = in.frames /\ v.closed
  BY DEF InputState

LEMMA InputWritten ==
    ASSUME NEW in \in InputState, NEW f \in OwnFrame, NEW v,
           v = [in EXCEPT !.frames = Append(@, f)]
    PROVE  v \in InputState /\ v.frames = Append(in.frames, f) /\ v.closed = in.closed
  BY DEF InputState

Grown(s, t) == t = s \/ \E f \in AnyFrame : t = Append(s, f)

LEMMA OutputAppended ==
    ASSUME NEW s \in Seq(AnyFrame), NEW f \in AnyFrame, NEW t, t = Append(s, f)
    PROVE  /\ Grown(s, t) /\ t \in Seq(AnyFrame) /\ Len(s) \in Nat /\ Len(t) = Len(s) + 1
           /\ \A i \in 1 .. Len(s) : t[i] = s[i]
           /\ t[Len(s) + 1] = f
  BY Appended DEF Grown

LEMMA OutputGrows ==
    ASSUME NEW s \in Seq(AnyFrame), NEW t, Grown(s, t)
    PROVE  /\ t \in Seq(AnyFrame) /\ Len(s) \in Nat /\ Len(t) \in Nat /\ Len(s) =< Len(t)
           /\ \A i \in 1 .. Len(s) : t[i] = s[i]
  <1>1. CASE t = s
    BY <1>1
  <1>2. ASSUME NEW f \in AnyFrame, t = Append(s, f)
        PROVE  /\ t \in Seq(AnyFrame) /\ Len(s) \in Nat /\ Len(t) \in Nat /\ Len(s) =< Len(t)
               /\ \A i \in 1 .. Len(s) : t[i] = s[i]
    BY <1>2, Appended
  <1> QED
    BY <1>1, <1>2 DEF Grown

-----------------------------------------------------------------------------
(***************************************************************************)
(* What every step of the worker has in common.                            *)
(***************************************************************************)
WorkerEffect ==
    /\ now' = now /\ read' = read
    /\ Alive
    /\ stdin' \in InputState
    /\ Grown(stdout, stdout')
    /\ worker' \in WorkerState /\ events' \in EventState
    /\ worker'.rogue = worker.rogue
    /\ worker'.pc # "none"
    /\ worker'.exit = "none" <=> worker'.pc # "exited"

LEMMA NoEventsTyped == NoEvents \in EventState
  BY DEF NoEvents, EventState

LEMMA OwnFramesAreFrames == \A f \in OwnFrame : f \in AnyFrame
  BY DEF AnyFrame

LEMMA ExitEffect ==
    ASSUME SessionTypes, NEW code \in {"zero", "nonzero", "signal"}, Exits(code)
    PROVE  /\ worker' \in WorkerState /\ events' \in EventState /\ events' = NoEvents
           /\ SameWorker(worker, worker') /\ worker'.pc = "exited" /\ worker'.exit = code
           /\ worker'.wall = worker.wall /\ worker'.outcome = worker.outcome
           /\ worker'.code = worker.code
  <1>1. worker \in WorkerState
    BY DEF SessionTypes
  <1>2. worker' = Exited(worker, code) /\ events' = NoEvents
    BY DEF Exits, Exited
  <1>3. /\ worker' \in WorkerState /\ SameWorker(worker, worker')
        /\ worker'.pc = "exited" /\ worker'.exit = code
        /\ worker'.outcome = worker.outcome /\ worker'.wall = worker.wall
        /\ worker'.code = worker.code
    BY <1>1, <1>2, WorkerExits
  <1> QED
    BY <1>2, <1>3, NoEventsTyped

LEMMA WorkerHasEffect ==
    ASSUME SessionTypes, ProcessInv, WorkerStep
    PROVE  WorkerEffect
  <1> DEFINE Moves == /\ worker' \in WorkerState /\ worker'.rogue = worker.rogue
                      /\ worker'.pc # "none" /\ worker'.exit = worker.exit
                      /\ worker'.pc # "exited"
  <1>1. /\ stdin \in InputState /\ stdout \in Seq(AnyFrame) /\ worker \in WorkerState
        /\ events \in EventState /\ now \in Nat
    BY DEF SessionTypes
  <1>2. worker.pc # "exited" => worker.exit = "none"
    BY DEF ProcessInv
  <1>3. \A f : f \in OwnFrame /\ Emit(f) => Grown(stdout, stdout')
    BY OwnFramesAreFrames DEF Emit, Grown
  <1>4. CASE WorkerHandshake
    <2>1. stdin' \in InputState
      BY <1>1, <1>4, InputTaken DEF WorkerHandshake
    <2>2. Grown(stdout, stdout')
      BY <1>3, <1>4, FramesTyped DEF WorkerHandshake, Kinds
    <2>3. CASE worker' = [worker EXCEPT !.pc = "solve"] /\ UNCHANGED events
      <3>1. worker' \in WorkerState /\ SameWorker(worker, worker') /\ worker'.pc = "solve"
            /\ worker'.exit = worker.exit
        BY <1>1, <2>3, WorkerMoves DEF Places
      <3> QED
        BY <1>1, <1>2, <1>4, <2>1, <2>2, <2>3, <3>1
        DEF WorkerHandshake, WorkerEffect, SameWorker, Alive
    <2>4. CASE Exits("zero")
      <3>1. worker' \in WorkerState /\ SameWorker(worker, worker') /\ worker'.pc = "exited"
            /\ worker'.exit = "zero" /\ events' \in EventState
        BY <2>4, ExitEffect
      <3> QED
        BY <1>1, <1>4, <2>1, <2>2, <3>1 DEF WorkerHandshake, WorkerEffect, SameWorker, Alive
    <2> QED
      BY <1>4, <2>3, <2>4 DEF WorkerHandshake
  <1>5. CASE WorkerInputEnds
    <2>1. worker' \in WorkerState /\ SameWorker(worker, worker') /\ worker'.pc = "exited"
          /\ worker'.exit = "nonzero" /\ events' \in EventState
      BY <1>5, ExitEffect DEF WorkerInputEnds
    <2> QED
      BY <1>1, <1>5, <2>1 DEF WorkerInputEnds, WorkerEffect, SameWorker, Alive, Grown
  <1>6. CASE WorkerStart
    <2>1. stdin' \in InputState /\ Head(stdin.frames) \in OwnFrame
      BY <1>1, <1>6, InputTaken DEF WorkerStart
    <2>2. Grown(stdout, stdout')
      BY <1>3, <1>6, FramesTyped DEF WorkerStart, Kinds
    <2>3. PICK wall : wall = Head(stdin.frames).wall
      OBVIOUS
    <2>4. wall \in Int
      BY <2>1, <2>3 DEF OwnFrame
    <2>5. worker' = AtEof(worker, wall)
      BY <1>6, <2>3 DEF WorkerStart, AtEof
    <2>6. worker' \in WorkerState /\ SameWorker(worker, worker') /\ worker'.pc = "eof"
          /\ worker'.exit = worker.exit
      BY <1>1, <2>4, <2>5, WorkerStarts
    <2> QED
      BY <1>1, <1>2, <1>6, <2>1, <2>2, <2>6 DEF WorkerStart, WorkerEffect, SameWorker, Alive
  <1>7. CASE WorkerValidate
    <2>1. CASE /\ worker' = [worker EXCEPT !.pc = "solving", !.started = now]
               /\ events' = [NoEvents EXCEPT !.next = now]
               /\ UNCHANGED stdout
      <3>1. worker' \in WorkerState /\ SameWorker(worker, worker') /\ worker'.pc = "solving"
            /\ worker'.exit = worker.exit
        BY <1>1, <2>1, WorkerSolves DEF Solving
      <3>2. events' \in EventState
        BY <1>1, <2>1, EventsOpened, NoEventsTyped
      <3> QED
        BY <1>1, <1>2, <1>7, <2>1, <3>1, <3>2
        DEF WorkerValidate, WorkerEffect, SameWorker, Alive, Grown
    <2>2. ASSUME NEW code \in InvalidSolveCodes, Emit(ErrorFrame(code)), Exits("zero")
          PROVE  WorkerEffect
      <3>1. Grown(stdout, stdout')
        BY <1>3, <2>2, FramesTyped DEF Codes
      <3>2. worker' \in WorkerState /\ SameWorker(worker, worker') /\ worker'.pc = "exited"
            /\ worker'.exit = "zero" /\ events' \in EventState
        BY <2>2, ExitEffect
      <3> QED
        BY <1>1, <1>7, <3>1, <3>2 DEF WorkerValidate, WorkerEffect, SameWorker, Alive
    <2> QED
      BY <1>7, <2>1, <2>2 DEF WorkerValidate
  <1>8. CASE SolverFindsSolution
    <2>1. worker' \in WorkerState /\ worker'.rogue = worker.rogue /\ worker'.pc = "solving"
          /\ worker'.exit = worker.exit
      BY <1>1, <1>8, WorkerFinds DEF SolverFindsSolution
    <2>2. events' \in EventState
      BY <1>1, <1>8, FirstOffered DEF SolverFindsSolution, Offered
    <2> QED
      BY <1>1, <1>2, <1>8, <2>1, <2>2 DEF SolverFindsSolution, WorkerEffect, Alive, Grown
  <1>9. CASE SolverImprovesBound
    <2>1. events' = OfferedProgress(events)
      BY <1>9 DEF SolverImprovesBound, OfferedProgress
    <2>2. events' \in EventState
      BY <1>1, <2>1, ProgressOffered
    <2> QED
      BY <1>1, <1>2, <1>9, <2>2 DEF SolverImprovesBound, WorkerEffect, Alive, Grown
  <1>10. CASE WriterTakes
    <2>1. events' = Taken(events) \/ events' = TakenProgress(events)
      BY <1>10 DEF WriterTakes, Taken, TakenProgress
    <2>2. events' \in EventState
      BY <1>1, <2>1, FirstTaken, ProgressTaken
    <2> QED
      BY <1>1, <1>2, <1>10, <2>2 DEF WriterTakes, WorkerEffect, Alive, Grown
  <1>11. CASE WriterWrites
    <2>1. Grown(stdout, stdout')
      BY <1>1, <1>3, <1>11, FramesTyped DEF WriterWrites, EventState, Kinds
    <2>2. now + 1 \in Nat /\ events' = Written(events, now + 1)
      BY <1>1, <1>11 DEF WriterWrites, Written
    <2>3. events' \in EventState
      BY <1>1, <2>2, EventWritten
    <2> QED
      BY <1>1, <1>2, <1>11, <2>1, <2>3 DEF WriterWrites, WorkerEffect, Alive
  <1>12. CASE SolverReturns
    <2>1. worker' = GivenUp(worker) \/ \E o \in CoherentOutcome : worker' = Closing(worker, o)
      BY <1>12, SolverOutcomesCoherent DEF SolverReturns, GivenUp, Closing
    <2>2. worker' \in WorkerState /\ SameWorker(worker, worker') /\ worker'.pc = "closing"
          /\ worker'.exit = worker.exit
      BY <1>1, <2>1, WorkerCloses, WorkerGivesUp
    <2> QED
      BY <1>1, <1>2, <1>12, <2>2 DEF SolverReturns, WorkerEffect, SameWorker, Alive, Grown
  <1>13. CASE WorkerTerminal
    <2>1. Grown(stdout, stdout')
      BY <1>1, <1>3, <1>13, FramesTyped DEF WorkerTerminal, WorkerState
    <2>2. worker' \in WorkerState /\ SameWorker(worker, worker') /\ worker'.pc = "exited"
          /\ worker'.exit = "zero" /\ events' \in EventState
      BY <1>13, ExitEffect DEF WorkerTerminal
    <2> QED
      BY <1>1, <1>13, <2>1, <2>2 DEF WorkerTerminal, Closed, WorkerEffect, SameWorker, Alive
  <1>14. CASE WorkerCrash
    <2>1. PICK code \in {"nonzero", "signal"} : Exits(code)
      BY <1>14 DEF WorkerCrash
    <2>2. worker' \in WorkerState /\ SameWorker(worker, worker') /\ worker'.pc = "exited"
          /\ worker'.exit = code /\ events' \in EventState
      BY <2>1, ExitEffect
    <2>3. Grown(stdout, stdout')
      BY <1>3, <1>14, FramesTyped DEF WorkerCrash, Kinds, Grown
    <2> QED
      BY <1>1, <1>14, <2>2, <2>3 DEF WorkerCrash, WorkerEffect, SameWorker, Alive
  <1>15. CASE RogueStep
    <2>1. CASE /\ \E f \in RogueFrames : Emit(f)
               /\ UNCHANGED <<worker, events>>
      <3>1. Grown(stdout, stdout')
        BY <2>1 DEF Emit, Grown, AnyFrame
      <3> QED
        BY <1>1, <1>2, <1>15, <2>1, <3>1 DEF RogueStep, WorkerEffect, Alive
    <2>2. CASE (\E code \in {"zero", "nonzero"} : Exits(code)) /\ UNCHANGED stdout
      <3>1. PICK code \in {"zero", "nonzero"} : Exits(code)
        BY <2>2
      <3>2. worker' \in WorkerState /\ SameWorker(worker, worker') /\ worker'.pc = "exited"
            /\ worker'.exit = code /\ events' \in EventState
        BY <3>1, ExitEffect
      <3> QED
        BY <1>1, <1>15, <2>2, <3>2 DEF RogueStep, WorkerEffect, SameWorker, Alive, Grown
    <2>3. CASE worker' = [worker EXCEPT !.pc = "muted"] /\ UNCHANGED <<stdout, events>>
      <3>1. worker' \in WorkerState /\ SameWorker(worker, worker') /\ worker'.pc = "muted"
            /\ worker'.exit = worker.exit
        BY <1>1, <2>3, WorkerMoves DEF Places
      <3>2. worker'.rogue = worker.rogue /\ Grown(stdout, stdout')
        BY <2>3, <3>1 DEF SameWorker, Grown
      <3> QED
        BY <1>1, <1>2, <1>15, <2>3, <3>1, <3>2 DEF RogueStep, WorkerEffect, Alive
    <2> QED
      BY <1>15, <2>1, <2>2, <2>3 DEF RogueStep
  <1> QED
    BY <1>4, <1>5, <1>6, <1>7, <1>8, <1>9, <1>10, <1>11, <1>12, <1>13, <1>14, <1>15
    DEF WorkerStep

\* A worker that closed its output writes nothing more.
StaysMute ==
    worker.pc = "muted" => stdout' = stdout /\ worker'.pc \in {"muted", "exited"}

LEMMA MutedIsSilent ==
    ASSUME SessionTypes, EventsInv, WorkerStep
    PROVE  StaysMute
  <1> SUFFICES ASSUME worker.pc = "muted"
               PROVE  stdout' = stdout /\ worker'.pc \in {"muted", "exited"}
    BY DEF StaysMute
  <1>1. events = NoEvents
    BY DEF EventsInv
  <1>2. events.writing = "none" /\ ~events.first /\ ~events.progress
    BY <1>1 DEF NoEvents
  <1>3. WorkerCrash \/ RogueStep
    BY <1>2 DEF WorkerStep, WorkerHandshake, WorkerInputEnds, WorkerStart, WorkerValidate,
                SolverFindsSolution, SolverImprovesBound, WriterTakes, WriterWrites,
                SolverReturns, WorkerTerminal, Closed
  <1>4. ASSUME NEW code \in {"zero", "nonzero", "signal"}, Exits(code)
        PROVE  worker'.pc = "exited"
    BY <1>4, ExitEffect
  <1> QED
    BY <1>3, <1>4 DEF WorkerCrash, RogueStep

-----------------------------------------------------------------------------
(***************************************************************************)
(* The frames read.                                                        *)
(***************************************************************************)
\* What was read stays read when the worker writes on.
LEMMA AdmittedGrows ==
    ASSUME NEW p, NEW n \in Nat, NEW s \in Seq(AnyFrame), n =< Len(s), NEW t, Grown(s, t),
           NEW c, Admitted(p, n, s, c)
    PROVE  Admitted(p, n, t, c)
  <1>1. \A i \in 1 .. n : t[i] = s[i]
    BY OutputGrows
  <1>2. /\ n >= 1 => t[1] = s[1]
        /\ n >= 2 => t[2] = s[2]
        /\ n >= 1 => t[n] = s[n]
        /\ \A i \in 3 .. n : t[i] = s[i]
        /\ \A i \in 3 .. n - 1 : t[i] = s[i]
    BY <1>1
  <1> QED
    BY <1>1, <1>2 DEF Admitted, Opened

\* A frame that is admitted extends the legal prefix.
LEMMA AdmittedReads ==
    ASSUME NEW p \in ProtocolState, NEW n \in Nat, NEW s \in Seq(AnyFrame), n < Len(s),
           NEW c \in Nat, Admitted(p, n, s, c),
           NEW q, q = OnWorkerFrame(p, s[n + 1]), q.phase # "Failed"
    PROVE  Admitted(q, n + 1, s, IF IsEvent(s[n + 1]) THEN c + 1 ELSE c)
  <1>1. PICK f : f = s[n + 1]
    OBVIOUS
  <1>2. f \in AnyFrame
    BY <1>1
  <1>3. /\ ValidWorkerFrame(p, f)
        /\ <<p.phase, f.kind, q.phase>> \in WorkerSteps
        /\ q.evidence = IF f.kind \in {"finished", "error"} THEN f ELSE p.evidence
    BY <1>1, <1>2, WorkerFrameStep
  <1>4. /\ f.own
        /\ f.kind = "finished" => f.outcome \in CoherentOutcome
    BY <1>3 DEF ValidWorkerFrame
  <1>5. PICK d : d = IF IsEvent(f) THEN c + 1 ELSE c
    OBVIOUS
  <1>6. \A i \in 1 .. n + 1 : s[i].own
    BY <1>1, <1>4 DEF Admitted
  <1>7. CASE p.phase = "HandshakeResponse" /\ f.kind = "accepted" /\ q.phase = "SolveRequest"
    BY <1>1, <1>3, <1>5, <1>6, <1>7 DEF Admitted, IsEvent, Ended, Refused
  <1>8. CASE p.phase = "HandshakeResponse" /\ f.kind = "rejected" /\ q.phase = "Rejected"
    BY <1>1, <1>3, <1>5, <1>6, <1>8 DEF Admitted, IsEvent, Ended, Refused
  <1>9. CASE p.phase = "Started" /\ f.kind = "started" /\ q.phase = "Running"
    BY <1>1, <1>3, <1>5, <1>6, <1>9 DEF Admitted, IsEvent, Ended, Refused, Opened
  <1>10. CASE p.phase = "Running" /\ IsEvent(f) /\ q.phase = "Running"
    <2>1. Opened(s, n + 1) /\ d = (n + 1) - 2 /\ \A i \in 3 .. n + 1 : IsEvent(s[i])
      BY <1>1, <1>5, <1>10 DEF Admitted, Opened
    <2> QED
      BY <1>1, <1>3, <1>5, <1>6, <1>10, <2>1 DEF Admitted, IsEvent, Ended, Refused
  <1>11. CASE p.phase = "Running" /\ f.kind \in {"finished", "error"} /\ q.phase = "Terminal"
    <2>1. /\ Opened(s, n + 1) /\ n + 1 >= 3 /\ d = (n + 1) - 3
          /\ \A i \in 3 .. (n + 1) - 1 : IsEvent(s[i])
      BY <1>1, <1>5, <1>11 DEF Admitted, Opened, IsEvent
    <2> QED
      BY <1>1, <1>3, <1>4, <1>5, <1>6, <1>11, <2>1 DEF Admitted, Ended, Refused
  <1> QED
    BY <1>3, <1>7, <1>8, <1>9, <1>10, <1>11 DEF WorkerSteps, IsEvent

-----------------------------------------------------------------------------
(***************************************************************************)
(* A step of the worker and the supervisor's parts of the invariant.       *)
(***************************************************************************)
LEMMA WorkerKeepsSession ==
    ASSUME SessionTypes, ProcessInv, ReadInv, ErrorInv, DeliveryInv, WorkerEffect, StaysMute,
           UNCHANGED sessionVars
    PROVE  SessionTypes' /\ ProcessInv' /\ ReadInv' /\ ErrorInv' /\ DeliveryInv'
  <1>1. /\ stdout \in Seq(AnyFrame) /\ read \in Nat /\ read =< Len(stdout)
        /\ Grown(stdout, stdout') /\ read' = read /\ now' = now
    BY DEF SessionTypes, WorkerEffect
  <1>2. /\ stdout' \in Seq(AnyFrame) /\ read' =< Len(stdout')
        /\ \A i \in 1 .. read : stdout'[i] = stdout[i]
    BY <1>1, OutputGrows
  <1>3. SessionTypes'
    BY <1>1, <1>2 DEF SessionTypes, WorkerEffect, sessionVars
  <1>4. ProcessInv'
    BY DEF ProcessInv, WorkerEffect, Alive, sessionVars
  <1>5. ReadInv'
    <2>1. Admitted(protocol, read, stdout, account.events) =>
              Admitted(protocol, read, stdout', account.events)
      BY <1>1, AdmittedGrows
    <2>2. worker.pc # "exited"
      BY DEF WorkerEffect, Alive
    <2>3. PICK p, c : p = protocol /\ c = account.events
      OBVIOUS
    <2>4. protocol' = p /\ account'.events = c
      BY <2>3 DEF sessionVars
    <2>5. /\ error = "none" /\ p.phase \in {"Eof", "RejectedEof", "Complete", "RejectedComplete"}
             => worker.pc = "muted" /\ read = Len(stdout)
          /\ ~(error = "none" /\ p.phase \in {"Complete", "RejectedComplete"})
      BY <2>2, <2>3 DEF ReadInv, ProcessInv
    <2>6. worker.pc = "muted" => stdout' = stdout /\ worker'.pc \in {"muted", "exited"}
      BY DEF StaysMute
    <2>7. UNCHANGED <<stage, error>>
      BY DEF sessionVars
    <2> QED
      BY <1>1, <2>1, <2>3, <2>4, <2>5, <2>6, <2>7 DEF ReadInv
  <1>6. ErrorInv'
    BY DEF ErrorInv, ProcessInv, WorkerEffect, Alive, sessionVars
  <1>7. DeliveryInv'
    <2>1. /\ Kept' = Kept /\ SinkClosed' = SinkClosed /\ FinalCandidate' = FinalCandidate
          /\ UNCHANGED <<stage, sink, retained, error, pending, answer, read>>
      BY <1>1 DEF Kept, SinkClosed, FinalCandidate, sessionVars
    <2>2. read > 0 => stdout'[read] = stdout[read]
      BY <1>1, <1>2
    <2> QED
      BY <1>2, <2>1, <2>2 DEF DeliveryInv
  <1> QED
    BY <1>3, <1>4, <1>5, <1>6, <1>7

-----------------------------------------------------------------------------
(***************************************************************************)
(* A step of the worker and its own part of the invariant.                 *)
(***************************************************************************)
WorkerSide == EventsInv /\ WorkerInv /\ InputInv

\* How the slots count what is admitted and not yet written.
LEMMA WaitingCounts ==
    ASSUME NEW e \in EventState
    PROVE  /\ Waiting(e) \in Nat
           /\ ~e.first => Waiting(Offered(e)) = Waiting(e) + 1
           /\ e.progress => Waiting(OfferedProgress(e)) = Waiting(e)
           /\ ~e.progress => Waiting(OfferedProgress(e)) = Waiting(e) + 1
           /\ e.writing = "none" /\ e.first => Waiting(Taken(e)) = Waiting(e)
           /\ e.writing = "none" /\ e.progress => Waiting(TakenProgress(e)) = Waiting(e)
           /\ \A t \in Nat : e.writing # "none" => Waiting(Written(e, t)) = Waiting(e) - 1
           /\ ~e.first /\ ~e.progress /\ e.writing = "none" => Waiting(e) = 0
  <1>1. Waiting(e) \in Nat
    BY DEF Waiting, Bit
  <1>2. ASSUME ~e.first PROVE Waiting(Offered(e)) = Waiting(e) + 1
    <2>1. PICK v : v = Offered(e)
      OBVIOUS
    <2>2. v.first = TRUE /\ v.progress = e.progress /\ v.writing = e.writing
      BY <2>1, FirstOffered
    <2> QED
      BY <1>2, <2>1, <2>2 DEF Waiting, Bit
  <1>3. /\ e.progress => Waiting(OfferedProgress(e)) = Waiting(e)
        /\ ~e.progress => Waiting(OfferedProgress(e)) = Waiting(e) + 1
    <2>1. PICK v : v = OfferedProgress(e)
      OBVIOUS
    <2>2. v.first = e.first /\ v.progress = TRUE /\ v.writing = e.writing
      BY <2>1, ProgressOffered
    <2> QED
      BY <2>1, <2>2 DEF Waiting, Bit
  <1>4. ASSUME e.writing = "none", e.first PROVE Waiting(Taken(e)) = Waiting(e)
    <2>1. PICK v : v = Taken(e)
      OBVIOUS
    <2>2. v.first = FALSE /\ v.progress = e.progress /\ v.writing = "incumbent"
      BY <2>1, FirstTaken
    <2> QED
      BY <1>4, <2>1, <2>2 DEF Waiting, Bit
  <1>5. ASSUME e.writing = "none", e.progress PROVE Waiting(TakenProgress(e)) = Waiting(e)
    <2>1. PICK v : v = TakenProgress(e)
      OBVIOUS
    <2>2. v.first = e.first /\ v.progress = FALSE /\ v.writing = "progress"
      BY <2>1, ProgressTaken
    <2> QED
      BY <1>5, <2>1, <2>2 DEF Waiting, Bit
  <1>6. ASSUME NEW t \in Nat, e.writing # "none"
        PROVE  Waiting(Written(e, t)) = Waiting(e) - 1
    <2>1. PICK v : v = Written(e, t)
      OBVIOUS
    <2>2. v.first = e.first /\ v.progress = e.progress /\ v.writing = "none"
      BY <2>1, EventWritten
    <2> QED
      BY <1>6, <2>1, <2>2 DEF Waiting, Bit
  <1>7. ~e.first /\ ~e.progress /\ e.writing = "none" => Waiting(e) = 0
    BY DEF Waiting, Bit
  <1> QED
    BY <1>1, <1>2, <1>3, <1>4, <1>5, <1>6, <1>7

LEMMA IncumbentStays ==
    ASSUME NEW s \in Seq(AnyFrame), NEW t, Grown(s, t), IncumbentIn(s)
    PROVE  IncumbentIn(t)
  BY OutputGrows DEF IncumbentIn

\* Outside a solve the event writer does not exist.
LEMMA QuietEvents ==
    ASSUME events' = NoEvents, worker'.pc \notin {"solving", "closing"}
    PROVE  EventsInv'
  BY PolicyAssumption DEF EventsInv, NoEvents

\* A worker that dies leaves nothing to be said of what it wrote.
LEMMA DeathKeeps ==
    ASSUME SessionTypes, ProcessInv, WorkerSide, NEW code \in {"zero", "nonzero", "signal"},
           Exits(code), Alive, code = "zero" => worker.rogue,
           UNCHANGED <<stdin, stage, protocol>>
    PROVE  WorkerSide'
  <1>1. /\ events' = NoEvents /\ SameWorker(worker, worker') /\ worker'.pc = "exited"
        /\ worker'.exit = code /\ worker'.outcome = worker.outcome
    BY ExitEffect
  <1>2. EventsInv'
    BY <1>1, QuietEvents
  <1>3. WorkerInv'
    BY <1>1 DEF WorkerSide, WorkerInv, SameWorker, Wrote, Alive
  <1>4. InputInv'
    BY <1>1 DEF WorkerSide, InputInv, SameWorker
  <1> QED
    BY <1>2, <1>3, <1>4 DEF WorkerSide

LEMMA HandshakeKeeps ==
    ASSUME SessionTypes, ProcessInv, WorkerSide, WorkerHandshake, UNCHANGED sessionVars
    PROVE  WorkerSide'
  <1>1. /\ worker \in WorkerState /\ worker.pc = "handshake" /\ ~worker.rogue
        /\ worker.exit = "none" /\ ~worker.found /\ stdout = <<>> /\ events = NoEvents
        /\ worker.outcome = NoOutcome \/ worker.outcome \in CoherentOutcome
    BY DEF SessionTypes, ProcessInv, WorkerSide, WorkerInv, EventsInv, Wrote, WorkerHandshake
  <1>2. stdin'.frames = <<>>
    BY InputTaken DEF SessionTypes, WorkerSide, InputInv, WorkerHandshake
  <1>3. \A f \in OwnFrame : Emit(f) => Len(stdout') = 1 /\ stdout'[1] = f
    BY <1>1, Appended DEF Emit
  <1>4. stage' = stage /\ stage \notin {"launch", "handshake"} /\ Len(stdin'.frames) = 0
    BY <1>2 DEF WorkerSide, InputInv, WorkerHandshake, sessionVars
  <1>5. CASE /\ Emit(Frame("accepted")) /\ worker' = [worker EXCEPT !.pc = "solve"]
             /\ UNCHANGED events
    <2>1. Len(stdout') = 1 /\ stdout'[1] = Frame("accepted")
      BY <1>3, <1>5, FramesTyped DEF Kinds
    <2>2. /\ SameWorker(worker, worker') /\ worker'.pc = "solve" /\ worker'.exit = "none"
          /\ worker'.outcome = worker.outcome
      BY <1>1, <1>5, WorkerMoves DEF Places
    <2>3. EventsInv'
      BY <1>1, <1>5, <2>2, QuietEvents
    <2>4. WorkerInv'
      BY <1>1, <2>1, <2>2 DEF WorkerInv, SameWorker, Wrote
    <2>5. InputInv'
      BY <1>2, <1>4, <2>2 DEF InputInv
    <2> QED
      BY <2>3, <2>4, <2>5 DEF WorkerSide
  <1>6. CASE Emit(Frame("rejected")) /\ Exits("zero")
    <2>1. Len(stdout') = 1 /\ stdout'[1] = Frame("rejected")
      BY <1>3, <1>6, FramesTyped DEF Kinds
    <2>2. /\ events' = NoEvents /\ SameWorker(worker, worker') /\ worker'.pc = "exited"
          /\ worker'.exit = "zero" /\ worker'.outcome = worker.outcome
      BY <1>6, ExitEffect
    <2>3. EventsInv'
      BY <2>2, QuietEvents
    <2>4. WorkerInv'
      BY <1>1, <2>1, <2>2 DEF WorkerInv, SameWorker, Wrote, Finished
    <2>5. InputInv'
      BY <1>2, <1>4, <2>1, <2>2 DEF InputInv
    <2> QED
      BY <2>3, <2>4, <2>5 DEF WorkerSide
  <1> QED
    BY <1>5, <1>6 DEF WorkerHandshake

LEMMA StartKeeps ==
    ASSUME SessionTypes, ProcessInv, WorkerSide, WorkerStart, UNCHANGED sessionVars
    PROVE  WorkerSide'
  <1>1. /\ worker \in WorkerState /\ worker.pc = "solve" /\ ~worker.rogue
        /\ worker.exit = "none" /\ ~worker.found /\ events = NoEvents
        /\ worker.outcome = NoOutcome \/ worker.outcome \in CoherentOutcome
        /\ stdout \in Seq(AnyFrame) /\ Len(stdout) = 1 /\ stdout[1] = Frame("accepted")
    BY DEF SessionTypes, ProcessInv, WorkerSide, WorkerInv, EventsInv, Wrote, WorkerStart
  <1>2. /\ stdin'.frames = <<>> /\ stdin.frames[1] \in OwnFrame
        /\ Head(stdin.frames) = stdin.frames[1] /\ stdin.frames[1].wall = protocol.wall
    BY InputTaken DEF SessionTypes, WorkerSide, InputInv, WorkerStart
  <1>3. Len(stdout') = 2 /\ Begun(stdout')
    <2>1. PICK f : f = Frame("started")
      OBVIOUS
    <2>2. f \in AnyFrame /\ stdout' = Append(stdout, f)
      BY <2>1, FramesTyped, OwnFramesAreFrames DEF WorkerStart, Emit, Kinds
    <2>3. Len(stdout') = 2 /\ stdout'[1] = stdout[1] /\ stdout'[2] = f
      BY <1>1, <2>2, OutputAppended
    <2> QED
      BY <1>1, <2>1, <2>3 DEF Begun
  <1>4. /\ stage' = stage /\ stage \notin {"launch", "handshake", "response", "dispatch"}
        /\ protocol' = protocol
    BY DEF WorkerSide, InputInv, WorkerStart, sessionVars
  <1>5. PICK wall : wall = Head(stdin.frames).wall
    OBVIOUS
  <1>6. wall \in Int /\ wall = protocol.wall
    BY <1>2, <1>5 DEF OwnFrame
  <1>7. worker' = AtEof(worker, wall) /\ events' = events
    BY <1>5 DEF WorkerStart, AtEof
  <1>8. /\ SameWorker(worker, worker') /\ worker'.pc = "eof" /\ worker'.exit = "none"
        /\ worker'.outcome = worker.outcome /\ worker'.wall = wall
    BY <1>1, <1>6, <1>7, WorkerStarts
  <1>9. EventsInv'
    BY <1>1, <1>7, <1>8, QuietEvents
  <1>10. WorkerInv'
    BY <1>1, <1>3, <1>4, <1>6, <1>8 DEF WorkerInv, SameWorker, Wrote
  <1>11. InputInv'
    BY <1>2, <1>4, <1>8 DEF InputInv
  <1> QED
    BY <1>9, <1>10, <1>11 DEF WorkerSide

LEMMA ValidateKeeps ==
    ASSUME SessionTypes, ProcessInv, WorkerSide, WorkerValidate, UNCHANGED sessionVars
    PROVE  WorkerSide'
  <1>1. /\ worker \in WorkerState /\ worker.pc = "eof" /\ ~worker.rogue /\ now \in Nat
        /\ worker.exit = "none" /\ ~worker.found /\ worker.wall = protocol.wall
        /\ worker.outcome = NoOutcome \/ worker.outcome \in CoherentOutcome
        /\ stdout \in Seq(AnyFrame) /\ Len(stdout) = 2 /\ Begun(stdout)
    BY DEF SessionTypes, ProcessInv, WorkerSide, WorkerInv, Wrote, WorkerValidate
  <1>2. /\ stage' = stage /\ stage \notin {"launch", "handshake", "response", "dispatch"}
        /\ protocol' = protocol /\ stdin' = stdin
    BY DEF WorkerSide, InputInv, WorkerValidate, sessionVars
  <1>3. CASE /\ worker' = [worker EXCEPT !.pc = "solving", !.started = now]
             /\ events' = [NoEvents EXCEPT !.next = now]
             /\ UNCHANGED stdout
    <2>1. /\ SameWorker(worker, worker') /\ worker'.pc = "solving" /\ worker'.exit = "none"
          /\ worker'.outcome = worker.outcome /\ worker'.wall = worker.wall
      BY <1>1, <1>3, WorkerSolves DEF Solving
    <2>2. /\ events'.first = FALSE /\ events'.progress = FALSE /\ events'.seen = FALSE
          /\ events'.admitted = 0 /\ events'.writing = "none" /\ events' \in EventState
      BY <1>1, <1>3, EventsOpened, NoEventsTyped DEF NoEvents
    <2>3. EventsInv'
      BY <1>1, <2>1, <2>2, PolicyAssumption DEF EventsInv, SameWorker
    <2>4. Waiting(events') = 0
      BY <2>2 DEF Waiting, Bit
    <2>5. Wrote(worker', events', stdout', protocol'.wall)
      <3>1. Len(stdout') = 2
        BY <1>1, <1>3
      <3>2. \A i \in 3 .. Len(stdout') : OwnEvent(stdout'[i])
        BY <3>1
      <3>3. Begun(stdout')
        BY <1>1, <1>3 DEF Begun
      <3> QED
        BY <2>1, <2>2, <2>4, <3>1, <3>2, <3>3 DEF Wrote
    <2>6. WorkerInv'
      BY <1>1, <1>2, <2>1, <2>5 DEF WorkerInv, SameWorker
    <2>7. InputInv'
      BY <1>2, <2>1 DEF InputInv
    <2> QED
      BY <2>3, <2>6, <2>7 DEF WorkerSide
  <1>4. ASSUME NEW code \in InvalidSolveCodes, Emit(ErrorFrame(code)), Exits("zero")
        PROVE  WorkerSide'
    <2>1. /\ events' = NoEvents /\ SameWorker(worker, worker') /\ worker'.pc = "exited"
          /\ worker'.exit = "zero" /\ worker'.outcome = worker.outcome
      BY <1>4, ExitEffect
    <2>2. PICK f : f = ErrorFrame(code)
      OBVIOUS
    <2>3. f \in AnyFrame /\ f.kind = "error" /\ f.own /\ stdout' = Append(stdout, f)
      BY <1>4, <2>2, FramesTyped, OwnFramesAreFrames DEF Codes, Emit
    <2>4. Len(stdout') = 3 /\ stdout'[1] = stdout[1] /\ stdout'[2] = stdout[2] /\ stdout'[3] = f
      BY <1>1, <2>3, OutputAppended
    <2>5. Finished(stdout', protocol'.wall)
      BY <1>1, <2>3, <2>4, PolicyAssumption DEF Finished, Begun, OwnTerminal
    <2>6. EventsInv'
      BY <2>1, QuietEvents
    <2>7. WorkerInv'
      BY <1>1, <2>1, <2>5 DEF WorkerInv, SameWorker, Wrote
    <2>8. InputInv'
      BY <1>2, <2>1 DEF InputInv
    <2> QED
      BY <2>6, <2>7, <2>8 DEF WorkerSide
  <1> QED
    BY <1>3, <1>4 DEF WorkerValidate

LEMMA FindsKeeps ==
    ASSUME SessionTypes, ProcessInv, WorkerSide, SolverFindsSolution, UNCHANGED sessionVars
    PROVE  WorkerSide'
  <1>1. /\ worker \in WorkerState /\ worker.pc = "solving" /\ ~worker.rogue
        /\ events \in EventState /\ worker.exit = "none" /\ worker.wall = protocol.wall
        /\ worker.outcome = NoOutcome \/ worker.outcome \in CoherentOutcome
        /\ Wrote(worker, events, stdout, protocol.wall)
    BY DEF SessionTypes, ProcessInv, WorkerSide, WorkerInv, SolverFindsSolution
  <1>2. /\ worker'.rogue = worker.rogue /\ worker'.found /\ worker'.pc = "solving"
        /\ worker'.exit = "none" /\ worker'.outcome = worker.outcome
        /\ worker'.wall = worker.wall
    BY <1>1, WorkerFinds DEF SolverFindsSolution
  <1>3. UNCHANGED <<stage, protocol, stdin, stdout>>
    BY DEF SolverFindsSolution, sessionVars
  <1>4. InputInv'
    BY <1>1, <1>2, <1>3 DEF WorkerSide, InputInv
  <1>5. EventsInv' /\ Wrote(worker', events', stdout', protocol'.wall)
    <2>1. CASE EmitIntermediate /\ ~events.seen /\ events.admitted < EventsPerSession
      <3>1. events' = Offered(events)
        BY <2>1 DEF SolverFindsSolution, Offered
      <3>2. /\ events'.first = TRUE /\ events'.seen = TRUE
            /\ events'.admitted = events.admitted + 1 /\ events'.writing = events.writing
        BY <1>1, <3>1, FirstOffered
      <3>3. ~events.first /\ events.admitted \in Nat
        BY <1>1, <2>1 DEF WorkerSide, EventsInv, EventState
      <3>4. Waiting(events) \in Nat /\ Waiting(events') = Waiting(events) + 1
        BY <1>1, <3>1, <3>3, WaitingCounts
      <3>5. EventsInv'
        BY <1>2, <2>1, <3>2, <3>3, PolicyAssumption DEF EventsInv
      <3>6. Len(stdout) \in Nat
        BY DEF SessionTypes
      <3> QED
        BY <1>1, <1>2, <1>3, <3>2, <3>3, <3>4, <3>5, <3>6 DEF Wrote
    <2>2. CASE ~(EmitIntermediate /\ ~events.seen /\ events.admitted < EventsPerSession)
      <3>1. events' = events
        BY <2>2 DEF SolverFindsSolution
      <3>2. EmitIntermediate => events.seen
        BY <1>1, <2>2 DEF WorkerSide, EventsInv
      <3>3. EventsInv'
        BY <1>1, <1>2, <1>3, <3>1, <3>2 DEF WorkerSide, EventsInv
      <3> QED
        BY <1>1, <1>2, <1>3, <3>1, <3>3 DEF Wrote
    <2> QED
      BY <2>1, <2>2
  <1>6. WorkerInv'
    BY <1>1, <1>2, <1>3, <1>5 DEF WorkerInv
  <1> QED
    BY <1>4, <1>5, <1>6 DEF WorkerSide

LEMMA ImprovesKeeps ==
    ASSUME SessionTypes, ProcessInv, WorkerSide, SolverImprovesBound, UNCHANGED sessionVars
    PROVE  WorkerSide'
  <1>1. /\ worker \in WorkerState /\ worker.pc = "solving" /\ ~worker.rogue
        /\ events \in EventState /\ worker.exit = "none"
        /\ Wrote(worker, events, stdout, protocol.wall)
    BY DEF SessionTypes, ProcessInv, WorkerSide, WorkerInv, SolverImprovesBound
  <1>2. UNCHANGED <<stage, protocol, stdin, stdout, worker>>
    BY DEF SolverImprovesBound, sessionVars
  <1>3. InputInv'
    BY <1>2 DEF WorkerSide, InputInv
  <1>4. events' = OfferedProgress(events)
    BY DEF SolverImprovesBound, OfferedProgress
  <1>5. /\ events'.first = events.first /\ events'.seen = events.seen
        /\ events'.admitted = IF events.progress THEN events.admitted ELSE events.admitted + 1
        /\ events'.writing = events.writing /\ events.admitted \in Nat
    <2>1. /\ events'.first = events.first /\ events'.seen = events.seen
          /\ events'.admitted = IF events.progress THEN events.admitted ELSE events.admitted + 1
          /\ events'.writing = events.writing
      <3>1. events \in EventState
        BY <1>1
      <3> QED
        BY <1>4, <3>1, ProgressOffered
    <2> QED
      BY <1>1, <2>1 DEF EventState
  <1>6. /\ Waiting(events) \in Nat
        /\ Waiting(events') = IF events.progress THEN Waiting(events) ELSE Waiting(events) + 1
    BY <1>1, <1>4, WaitingCounts
  <1>7. EventsInv'
    BY <1>1, <1>2, <1>5, PolicyAssumption
    DEF WorkerSide, EventsInv, SolverImprovesBound, ProgressLimit
  <1>8. Len(stdout) \in Nat
    BY DEF SessionTypes
  <1>9. Wrote(worker', events', stdout', protocol'.wall)
    BY <1>1, <1>2, <1>5, <1>6, <1>8 DEF Wrote
  <1>10. WorkerInv'
    BY <1>1, <1>2, <1>9 DEF WorkerSide, WorkerInv
  <1> QED
    BY <1>3, <1>7, <1>10 DEF WorkerSide

LEMMA TakesKeeps ==
    ASSUME SessionTypes, ProcessInv, WorkerSide, WriterTakes, UNCHANGED sessionVars
    PROVE  WorkerSide'
  <1>1. /\ worker.pc \in {"solving", "closing"} /\ ~worker.rogue
        /\ events \in EventState /\ worker.exit = "none"
        /\ Wrote(worker, events, stdout, protocol.wall)
    BY DEF SessionTypes, ProcessInv, WorkerSide, WorkerInv, EventsInv, NoEvents, WriterTakes
  <1>2. UNCHANGED <<stage, protocol, stdin, stdout, worker>>
    BY DEF WriterTakes, sessionVars
  <1>3. InputInv'
    BY <1>2 DEF WorkerSide, InputInv
  <1>4. /\ EventsInv' /\ events'.admitted = events.admitted
        /\ Waiting(events') = Waiting(events)
    <2>1. CASE events.first
      <3>1. events' = Taken(events)
        BY <2>1 DEF WriterTakes, Taken
      <3>2. /\ events'.first = FALSE /\ events'.seen = events.seen
            /\ events'.admitted = events.admitted /\ events'.writing = "incumbent"
            /\ Waiting(events') = Waiting(events)
        BY <1>1, <2>1, <3>1, FirstTaken, WaitingCounts DEF WriterTakes
      <3> QED
        BY <1>1, <1>2, <3>2 DEF WorkerSide, EventsInv
    <2>2. CASE ~events.first
      <3>1. events' = TakenProgress(events) /\ events.progress /\ events.writing = "none"
        BY <2>2 DEF WriterTakes, TakenProgress
      <3>2. /\ events'.first = events.first /\ events'.seen = events.seen
            /\ events'.admitted = events.admitted /\ events'.writing = "progress"
            /\ Waiting(events') = Waiting(events)
        BY <1>1, <3>1, ProgressTaken, WaitingCounts
      <3> QED
        BY <1>1, <1>2, <2>2, <3>1, <3>2 DEF WorkerSide, EventsInv
    <2> QED
      BY <2>1, <2>2
  <1>5. Wrote(worker', events', stdout', protocol'.wall)
    BY <1>1, <1>2, <1>4 DEF Wrote
  <1>6. WorkerInv'
    BY <1>1, <1>2, <1>5 DEF WorkerSide, WorkerInv
  <1> QED
    BY <1>3, <1>4, <1>6 DEF WorkerSide

LEMMA WritesKeeps ==
    ASSUME SessionTypes, ProcessInv, WorkerSide, WriterWrites, UNCHANGED sessionVars
    PROVE  WorkerSide'
  <1>1. /\ worker.pc \in {"solving", "closing"} /\ ~worker.rogue
        /\ events \in EventState /\ worker.exit = "none" /\ now \in Nat
        /\ Wrote(worker, events, stdout, protocol.wall)
        /\ events.writing \in {"progress", "incumbent"} /\ stdout \in Seq(AnyFrame)
    BY DEF SessionTypes, ProcessInv, WorkerSide, WorkerInv, EventsInv, EventState, NoEvents,
           WriterWrites
  <1>2. UNCHANGED <<stage, protocol, stdin, worker>>
    BY DEF WriterWrites, sessionVars
  <1>3. InputInv'
    BY <1>1, <1>2 DEF WorkerSide, InputInv
  <1>4. now + 1 \in Nat /\ events' = Written(events, now + 1)
    BY <1>1 DEF WriterWrites, Written
  <1>5. /\ events'.first = events.first /\ events'.seen = events.seen
        /\ events'.admitted = events.admitted /\ events'.writing = "none"
        /\ Waiting(events) \in Nat /\ Waiting(events') = Waiting(events) - 1
    <2>1. /\ events'.first = events.first /\ events'.seen = events.seen
          /\ events'.admitted = events.admitted /\ events'.writing = "none"
      <3>1. events \in EventState
        BY <1>1
      <3>2. PICK t : t = now + 1
        OBVIOUS
      <3>3. t \in Nat /\ events' = Written(events, t)
        BY <1>4, <3>2
      <3> QED
        BY <3>1, <3>3, EventWritten
    <2>2. Waiting(events) \in Nat /\ Waiting(Written(events, now + 1)) = Waiting(events) - 1
      BY <1>1, <1>4, WaitingCounts
    <2> QED
      BY <1>4, <2>1, <2>2
  <1>6. PICK f : f = Frame(events.writing)
    OBVIOUS
  <1>7. f \in AnyFrame /\ f.kind = events.writing /\ OwnEvent(f) /\ stdout' = Append(stdout, f)
    BY <1>1, <1>6, FramesTyped, OwnFramesAreFrames DEF WriterWrites, Emit, Kinds, OwnEvent
  <1>8. /\ Grown(stdout, stdout') /\ stdout' \in Seq(AnyFrame) /\ Len(stdout) \in Nat
        /\ Len(stdout') = Len(stdout) + 1 /\ stdout'[Len(stdout) + 1] = f
        /\ \A i \in 1 .. Len(stdout) : stdout'[i] = stdout[i]
    <2>1. stdout \in Seq(AnyFrame) /\ f \in AnyFrame /\ stdout' = Append(stdout, f)
      BY <1>1, <1>7
    <2>2. Grown(stdout, stdout')
      BY <2>1 DEF Grown
    <2>3. /\ stdout' \in Seq(AnyFrame) /\ Len(stdout) \in Nat
          /\ Len(stdout') = Len(stdout) + 1 /\ stdout'[Len(stdout) + 1] = f
          /\ \A i \in 1 .. Len(stdout) : stdout'[i] = stdout[i]
      BY <2>1
    <2> QED
      BY <2>2, <2>3
  <1>9. EventsInv'
    <2>1. events.writing = "incumbent" => IncumbentIn(stdout')
      BY <1>7, <1>8 DEF IncumbentIn
    <2>2. IncumbentIn(stdout) => IncumbentIn(stdout')
      BY <1>1, <1>8, IncumbentStays
    <2> QED
      BY <1>1, <1>2, <1>5, <2>1, <2>2 DEF WorkerSide, EventsInv
  <1>10. Wrote(worker', events', stdout', protocol'.wall)
    <2>1. Begun(stdout) /\ Len(stdout) + Waiting(events) = 2 + events.admitted
          /\ \A i \in 3 .. Len(stdout) : OwnEvent(stdout[i])
      BY <1>1 DEF Wrote
    <2>2. Begun(stdout')
      BY <1>8, <2>1 DEF Begun
    <2>3. \A i \in 3 .. Len(stdout') : OwnEvent(stdout'[i])
      BY <1>7, <1>8, <2>1
    <2>4. Len(stdout') + Waiting(events') = 2 + events'.admitted
      BY <1>5, <1>8, <2>1
    <2> QED
      BY <1>1, <1>2, <2>2, <2>3, <2>4 DEF Wrote
  <1>11. WorkerInv'
    BY <1>1, <1>2, <1>10 DEF WorkerSide, WorkerInv
  <1> QED
    BY <1>3, <1>9, <1>11 DEF WorkerSide

LEMMA ReturnsKeeps ==
    ASSUME SessionTypes, ProcessInv, WorkerSide, SolverReturns, UNCHANGED sessionVars
    PROVE  WorkerSide'
  <1>1. /\ worker \in WorkerState /\ worker.pc = "solving" /\ ~worker.rogue
        /\ worker.exit = "none" /\ worker.wall = protocol.wall
        /\ worker.outcome = NoOutcome \/ worker.outcome \in CoherentOutcome
        /\ Wrote(worker, events, stdout, protocol.wall)
    BY DEF SessionTypes, ProcessInv, WorkerSide, WorkerInv, SolverReturns
  <1>2. UNCHANGED <<stage, protocol, stdin, stdout, events>>
    BY DEF SolverReturns, sessionVars
  <1>3. worker' = GivenUp(worker) \/ \E o \in CoherentOutcome : worker' = Closing(worker, o)
    BY SolverOutcomesCoherent DEF SolverReturns, GivenUp, Closing
  <1>4. /\ SameWorker(worker, worker') /\ worker'.pc = "closing" /\ worker'.exit = "none"
        /\ worker'.outcome = worker.outcome \/ worker'.outcome \in CoherentOutcome
        /\ worker'.wall = worker.wall
    BY <1>1, <1>3, WorkerCloses, WorkerGivesUp
  <1>5. InputInv'
    BY <1>1, <1>2, <1>4 DEF WorkerSide, InputInv
  <1>6. EventsInv'
    BY <1>1, <1>2, <1>4 DEF WorkerSide, EventsInv, SameWorker
  <1>7. Wrote(worker', events', stdout', protocol'.wall)
    BY <1>1, <1>2, <1>4 DEF Wrote
  <1>8. WorkerInv'
    BY <1>1, <1>2, <1>4, <1>7 DEF WorkerInv, SameWorker
  <1> QED
    BY <1>5, <1>6, <1>8 DEF WorkerSide

LEMMA TerminalKeeps ==
    ASSUME SessionTypes, ProcessInv, WorkerSide, WorkerTerminal, UNCHANGED sessionVars
    PROVE  WorkerSide'
  <1>1. /\ worker \in WorkerState /\ worker.pc = "closing" /\ ~worker.rogue
        /\ worker.exit = "none" /\ worker.wall = protocol.wall /\ events \in EventState
        /\ worker.outcome = NoOutcome \/ worker.outcome \in CoherentOutcome
        /\ Wrote(worker, events, stdout, protocol.wall) /\ stdout \in Seq(AnyFrame)
    BY DEF SessionTypes, ProcessInv, WorkerSide, WorkerInv, WorkerTerminal, Closed
  <1>2. UNCHANGED <<stage, protocol, stdin>>
    BY DEF WorkerTerminal, sessionVars
  <1>3. /\ events' = NoEvents /\ SameWorker(worker, worker') /\ worker'.pc = "exited"
        /\ worker'.exit = "zero" /\ worker'.outcome = worker.outcome
    BY ExitEffect DEF WorkerTerminal
  <1>4. PICK f : f = IF worker.outcome = NoOutcome
                     THEN ErrorFrame(worker.code)
                     ELSE FinishedFrame(worker.wall, worker.outcome)
    OBVIOUS
  <1>5. stdout' = Append(stdout, f)
    BY <1>4 DEF WorkerTerminal, Emit
  <1>6. f \in AnyFrame /\ OwnTerminal(f, protocol.wall)
    <2>1. worker.code \in Codes /\ worker.wall \in Int /\ worker.outcome \in Outcomes
      BY <1>1 DEF WorkerState
    <2>2. CASE worker.outcome = NoOutcome
      BY <1>4, <2>1, <2>2, FramesTyped, OwnFramesAreFrames DEF OwnTerminal
    <2>3. CASE worker.outcome # NoOutcome
      BY <1>1, <1>4, <2>1, <2>3, FramesTyped, OwnFramesAreFrames DEF OwnTerminal
    <2> QED
      BY <2>2, <2>3
  <1>7. /\ Grown(stdout, stdout') /\ stdout' \in Seq(AnyFrame) /\ Len(stdout) \in Nat
        /\ Len(stdout') = Len(stdout) + 1 /\ stdout'[Len(stdout) + 1] = f
        /\ \A i \in 1 .. Len(stdout) : stdout'[i] = stdout[i]
    <2>1. stdout \in Seq(AnyFrame) /\ f \in AnyFrame
      BY <1>1, <1>6
    <2>2. Grown(stdout, stdout')
      BY <1>5, <2>1 DEF Grown
    <2>3. /\ stdout' \in Seq(AnyFrame) /\ Len(stdout) \in Nat
          /\ Len(stdout') = Len(stdout) + 1 /\ stdout'[Len(stdout) + 1] = f
          /\ \A i \in 1 .. Len(stdout) : stdout'[i] = stdout[i]
      BY <1>5, <2>1
    <2> QED
      BY <2>2, <2>3
  <1>8. /\ Begun(stdout) /\ Len(stdout) = 2 + events.admitted
        /\ \A i \in 3 .. Len(stdout) : OwnEvent(stdout[i])
        /\ events.admitted \in Nat /\ events.admitted =< EventsPerSession
    <2>1. Waiting(events) = 0
      BY <1>1, WaitingCounts DEF WorkerTerminal, Closed
    <2> QED
      BY <1>1, <1>7, <2>1 DEF Wrote, WorkerSide, EventsInv, EventState
  <1>9. Finished(stdout', protocol'.wall)
    <2>1. Begun(stdout')
      BY <1>7, <1>8 DEF Begun
    <2>2. /\ Len(stdout') >= 3 /\ Len(stdout') =< EventsPerSession + 3
          /\ stdout'[Len(stdout')] = f
      BY <1>7, <1>8, PolicyAssumption
    <2>3. \A i \in 3 .. Len(stdout') - 1 : OwnEvent(stdout'[i])
      BY <1>7, <1>8
    <2> QED
      BY <1>2, <1>6, <2>1, <2>2, <2>3 DEF Finished
  <1>10. worker.found /\ EmitIntermediate => IncumbentIn(stdout')
    <2>1. worker.found /\ EmitIntermediate => IncumbentIn(stdout)
      BY <1>1 DEF WorkerSide, EventsInv, WorkerTerminal, Closed
    <2> QED
      BY <1>1, <1>7, <2>1, IncumbentStays
  <1>11. EventsInv'
    BY <1>3, QuietEvents
  <1>12. WorkerInv'
    BY <1>1, <1>3, <1>9, <1>10 DEF WorkerInv, SameWorker, Wrote
  <1>13. InputInv'
    BY <1>1, <1>2, <1>3 DEF WorkerSide, InputInv
  <1> QED
    BY <1>11, <1>12, <1>13 DEF WorkerSide

LEMMA RogueKeeps ==
    ASSUME SessionTypes, ProcessInv, WorkerSide, RogueStep, UNCHANGED sessionVars
    PROVE  WorkerSide'
  <1>1. /\ worker.pc \in {"rogue", "muted"} /\ worker.rogue /\ Alive
        /\ UNCHANGED <<stage, protocol, stdin>>
    BY DEF WorkerSide, WorkerInv, RogueStep, Alive, sessionVars
  <1>2. CASE UNCHANGED <<worker, events>>
    <2>1. EventsInv'
      BY <1>1, <1>2, QuietEvents DEF WorkerSide, EventsInv
    <2> QED
      BY <1>1, <1>2, <2>1 DEF WorkerSide, WorkerInv, InputInv
  <1>3. CASE \E code \in {"zero", "nonzero"} : Exits(code)
    BY <1>1, <1>3, DeathKeeps
  <1>4. CASE worker' = [worker EXCEPT !.pc = "muted"] /\ UNCHANGED <<stdout, events>>
    <2>1. /\ SameWorker(worker, worker') /\ worker'.pc = "muted" /\ worker'.exit = worker.exit
          /\ worker'.outcome = worker.outcome
      BY <1>4, WorkerMoves DEF SessionTypes, Places
    <2>2. worker'.rogue /\ ~worker'.found
      BY <1>1, <2>1 DEF SameWorker, WorkerSide, WorkerInv
    <2>3. EventsInv'
      BY <1>1, <1>4, <2>1, <2>2 DEF WorkerSide, EventsInv
    <2>4. worker.exit = "none"
      BY <1>1 DEF ProcessInv
    <2> QED
      BY <1>1, <1>4, <2>1, <2>2, <2>3, <2>4 DEF WorkerSide, WorkerInv, InputInv
  <1> QED
    BY <1>2, <1>3, <1>4 DEF RogueStep

LEMMA WorkerKeepsWorker ==
    ASSUME SessionTypes, ProcessInv, WorkerSide, WorkerStep, UNCHANGED sessionVars
    PROVE  WorkerSide'
  <1>1. CASE WorkerInputEnds
    BY <1>1, DeathKeeps DEF WorkerInputEnds, Alive, sessionVars
  <1>2. CASE WorkerCrash
    <2>1. PICK code \in {"nonzero", "signal"} : Exits(code)
      BY <1>2 DEF WorkerCrash
    <2> QED
      BY <1>2, <2>1, DeathKeeps DEF WorkerCrash, sessionVars
  <1> QED
    BY <1>1, <1>2, HandshakeKeeps, StartKeeps, ValidateKeeps, FindsKeeps, ImprovesKeeps,
       TakesKeeps, WritesKeeps, ReturnsKeeps, TerminalKeeps, RogueKeeps DEF WorkerStep

-----------------------------------------------------------------------------
(***************************************************************************)
(* What the parent meets when the worker keeps the protocol.               *)
(***************************************************************************)
Obedient == ~worker.rogue /\ worker.exit \notin {"nonzero", "signal"}

\* An output that opened with an acceptance.
Accepted(out, wall) ==
    /\ out[1] = Frame("accepted")
    /\ Len(out) >= 2 => out[2] = Frame("started")
    /\ Len(out) =< EventsPerSession + 3
    /\ \A i \in 3 .. Len(out) : \/ OwnEvent(out[i]) /\ i =< EventsPerSession + 2
                                \/ i = Len(out) /\ OwnTerminal(out[i], wall)

LEMMA ObedientOutput ==
    ASSUME SessionTypes, ProcessInv, WorkerSide, Obedient, stdout # <<>>
    PROVE  \/ Len(stdout) = 1 /\ stdout[1] = Frame("rejected") /\ worker.exit = "zero"
           \/ Accepted(stdout, protocol.wall)
  <1>1. /\ Wrote(worker, events, stdout, protocol.wall) /\ stdout \in Seq(AnyFrame)
        /\ Len(stdout) \in Nat \ {0} /\ EventsPerSession \in Nat
        /\ events \in EventState /\ worker \in WorkerState
    BY PolicyAssumption DEF SessionTypes, WorkerSide, WorkerInv, Obedient
  <1>2. CASE worker.pc = "solve"
    <2>1. Len(stdout) = 1 /\ stdout[1] = Frame("accepted")
      BY <1>1, <1>2 DEF Wrote
    <2>2. \A i \in 3 .. Len(stdout) : FALSE
      BY <2>1
    <2>3. ~(Len(stdout) >= 2) /\ Len(stdout) =< EventsPerSession + 3
      BY <1>1, <2>1
    <2> QED
      BY <2>1, <2>2, <2>3 DEF Accepted
  <1>3. CASE worker.pc = "eof"
    <2>1. Len(stdout) = 2 /\ stdout[1] = Frame("accepted") /\ stdout[2] = Frame("started")
      BY <1>1, <1>3 DEF Wrote, Begun
    <2>2. \A i \in 3 .. Len(stdout) : FALSE
      BY <2>1
    <2>3. Len(stdout) =< EventsPerSession + 3
      BY <1>1, <2>1
    <2> QED
      BY <2>1, <2>2, <2>3 DEF Accepted
  <1>4. CASE worker.pc \in {"solving", "closing"}
    <2>1. Waiting(events) \in Nat /\ events.admitted \in Nat
      BY <1>1, WaitingCounts DEF EventState
    <2>2. Len(stdout) =< EventsPerSession + 2
      BY <1>1, <1>4, <2>1 DEF Wrote, WorkerSide, EventsInv
    <2> QED
      BY <1>1, <1>4, <2>2 DEF Wrote, Accepted, Begun
  <1>5. CASE worker.exit = "zero"
    BY <1>1, <1>5 DEF Wrote, Finished, Accepted, Begun
  <1>6. worker.pc \notin {"none", "handshake", "rogue", "muted"}
    BY <1>1 DEF Wrote, Obedient, WorkerSide, WorkerInv
  <1>7. worker.pc = "exited" => worker.exit = "zero"
    BY <1>1 DEF ProcessInv, Obedient, WorkerState
  <1> QED
    BY <1>1, <1>2, <1>3, <1>4, <1>5, <1>6, <1>7 DEF WorkerState, Places

Awaiting == {"HandshakeResponse", "Started", "Running", "Terminal", "Rejected"}

\* The next frame of such a worker is the one expected, within the ceilings.
LEMMA ObedientReads ==
    ASSUME SessionTypes, ProcessInv, ReadInv, WorkerSide, error = "none", OutputReady,
           protocol.phase \in Awaiting, Obedient
    PROVE  /\ OnWorkerFrame(protocol, stdout[read + 1]).phase # "Failed"
           /\ read + 1 =< FramesPerSession
           /\ IsEvent(stdout[read + 1]) => account.events + 1 =< EventsPerSession
  <1>1. PICK n, out, p, c, wall : n = read /\ out = stdout /\ p = protocol /\ c = account.events
                                  /\ wall = protocol.wall
    OBVIOUS
  <1>2. /\ n \in Nat /\ out \in Seq(AnyFrame) /\ n < Len(out) /\ p \in ProtocolState
        /\ c \in Nat /\ Len(out) \in Nat
        /\ EventsPerSession \in Nat /\ FramesPerSession \in Nat
        /\ FramesPerSession >= EventsPerSession + 3
    BY <1>1, PolicyAssumption, LimitAssumption DEF SessionTypes, OutputReady
  <1>3. Admitted(p, n, out, c) /\ p.phase \in Awaiting /\ wall = p.wall
    BY <1>1 DEF ReadInv
  <1>4. \/ Len(out) = 1 /\ out[1] = Frame("rejected")
        \/ Accepted(out, wall)
    BY <1>1, <1>2, ObedientOutput
  <1>5. PICK f : f = out[n + 1]
    OBVIOUS
  <1>6. f \in AnyFrame
    BY <1>2, <1>5
  <1>7. /\ Frame("accepted").kind = "accepted" /\ Frame("accepted").own
        /\ Frame("rejected").kind = "rejected" /\ Frame("rejected").own
        /\ Frame("started").kind = "started" /\ Frame("started").own
        /\ Frame("progress").kind = "progress" /\ Frame("progress").own
        /\ Frame("incumbent").kind = "incumbent" /\ Frame("incumbent").own
    BY DEF Frame
  <1> DEFINE Fine == /\ OnWorkerFrame(p, f).phase # "Failed"
                     /\ n + 1 =< FramesPerSession
                     /\ IsEvent(f) => c + 1 =< EventsPerSession
  <1> SUFFICES Fine
    BY <1>1, <1>5
  <1>8. ASSUME NEW next \in Phases \ {"Failed"}, <<p.phase, f.kind, next>> \in WorkerSteps,
               ValidWorkerFrame(p, f)
        PROVE  OnWorkerFrame(p, f).phase # "Failed"
    BY <1>2, <1>6, <1>8, WorkerFrameStep
  <1>9. n + 1 =< FramesPerSession
    BY <1>2, <1>4 DEF Accepted
  <1>10. CASE p.phase = "HandshakeResponse"
    <2>1. f = out[1]
      BY <1>2, <1>3, <1>5, <1>10 DEF Admitted
    <2>2. f.kind \in {"accepted", "rejected"} /\ f.own
      BY <1>4, <1>7, <2>1 DEF Accepted
    <2>3. ValidWorkerFrame(p, f) /\ ~IsEvent(f)
      BY <2>2 DEF ValidWorkerFrame, IsEvent
    <2> QED
      BY <1>8, <1>9, <1>10, <2>2, <2>3 DEF WorkerSteps, Phases
  <1>11. CASE p.phase = "Started"
    <2>1. f = out[2] /\ out[1].kind = "accepted" /\ Len(out) >= 2
      BY <1>2, <1>3, <1>5, <1>11 DEF Admitted
    <2>2. f.kind = "started" /\ f.own
      BY <1>4, <1>7, <2>1 DEF Accepted
    <2>3. ValidWorkerFrame(p, f) /\ ~IsEvent(f)
      BY <2>2 DEF ValidWorkerFrame, IsEvent
    <2> QED
      BY <1>8, <1>9, <1>11, <2>2, <2>3 DEF WorkerSteps, Phases
  <1>12. CASE p.phase = "Running"
    <2>1. n >= 2 /\ c = n - 2
      BY <1>3, <1>12 DEF Admitted, Opened
    <2>2. \/ OwnEvent(f) /\ n + 1 =< EventsPerSession + 2
          \/ OwnTerminal(f, wall)
      BY <1>2, <1>4, <1>5, <2>1 DEF Accepted
    <2>3. CASE OwnEvent(f) /\ n + 1 =< EventsPerSession + 2
      <3>1. f.own /\ f.kind \in {"progress", "incumbent"}
        BY <1>7, <2>3 DEF OwnEvent
      <3>2. ValidWorkerFrame(p, f)
        BY <3>1 DEF ValidWorkerFrame
      <3>3. c + 1 =< EventsPerSession
        BY <1>2, <2>1, <2>3
      <3> QED
        BY <1>8, <1>9, <1>12, <3>1, <3>2, <3>3 DEF WorkerSteps, Phases
    <2>4. CASE OwnTerminal(f, wall)
      <3>1. ValidWorkerFrame(p, f) /\ ~IsEvent(f) /\ f.kind \in {"finished", "error"}
        BY <1>3, <2>4 DEF ValidWorkerFrame, IsEvent, OwnTerminal
      <3> QED
        BY <1>8, <1>9, <1>12, <3>1 DEF WorkerSteps, Phases
    <2> QED
      BY <2>2, <2>3, <2>4
  <1>13. CASE p.phase = "Terminal"
    <2>1. n >= 3 /\ out[n].kind \in {"finished", "error"}
      BY <1>3, <1>13 DEF Admitted, Ended
    <2>2. ~OwnEvent(out[n])
      BY <1>7, <2>1 DEF OwnEvent
    <2> QED
      BY <1>2, <1>4, <2>1, <2>2 DEF Accepted
  <1>14. CASE p.phase = "Rejected"
    <2>1. n = 1 /\ out[1].kind = "rejected"
      BY <1>3, <1>14 DEF Admitted, Refused
    <2>2. ~Accepted(out, wall)
      BY <1>7, <2>1 DEF Accepted
    <2>3. Len(out) = 1
      BY <1>4, <2>2
    <2> QED
      BY <1>2, <2>1, <2>3
  <1> QED
    BY <1>3, <1>10, <1>11, <1>12, <1>13, <1>14 DEF Awaiting

\* Its output ends only after a terminal frame or a rejection.
LEMMA ObedientEof ==
    ASSUME SessionTypes, ProcessInv, ReadInv, WorkerSide, error = "none", OutputEnded,
           protocol.phase \in Awaiting, Obedient
    PROVE  protocol.phase \in {"Terminal", "Rejected"}
  <1>1. worker.exit = "zero" /\ read = Len(stdout) /\ Len(stdout) \in Nat
    BY DEF SessionTypes, ProcessInv, OutputEnded, Obedient, WorkerState, WorkerSide, WorkerInv
  <1>2. Finished(stdout, protocol.wall)
    BY <1>1 DEF WorkerSide, WorkerInv, Wrote, Obedient
  <1>3. Admitted(protocol, read, stdout, account.events)
    BY DEF ReadInv
  <1>4. Frame("rejected").kind = "rejected"
    BY DEF Frame
  <1>5. protocol.phase # "HandshakeResponse"
    BY <1>1, <1>2, <1>3 DEF Finished, Admitted, Begun
  <1>6. protocol.phase # "Started"
    BY <1>1, <1>2, <1>3, <1>4 DEF Finished, Admitted, Begun
  <1>7. protocol.phase # "Running"
    BY <1>1, <1>2, <1>3, <1>4 DEF Finished, Admitted, Begun, Opened, OwnTerminal, IsEvent
  <1> QED
    BY <1>5, <1>6, <1>7 DEF Awaiting

-----------------------------------------------------------------------------
(***************************************************************************)
(* The steps of the supervisor.                                            *)
(***************************************************************************)
\* A step that leaves the process alone: the limit the request has matters to
\* a worker only once the request was written.
LEMMA SupervisorKeepsWorker ==
    ASSUME SessionInv, UNCHANGED <<worker, events, stdout>>,
           protocol'.wall = protocol.wall \/ stage = "dispatch"
    PROVE  EventsInv' /\ WorkerInv'
  <1>1. EventsInv'
    BY DEF SessionInv, EventsInv
  <1>2. WorkerInv /\ InputInv /\ ProcessInv
    BY DEF SessionInv
  <1>3. ASSUME protocol'.wall = protocol.wall
        PROVE  WorkerInv'
    BY <1>2, <1>3 DEF WorkerInv
  <1>4. ASSUME stage = "dispatch"
        PROVE  WorkerInv'
    <2>1. /\ worker.pc \notin {"eof", "solving", "closing"}
          /\ worker.exit = "zero" /\ ~worker.rogue =>
                 Len(stdout) = 1 /\ stdout[1] = Frame("rejected")
      BY <1>2, <1>4 DEF InputInv
    <2>2. ~worker.rogue => Wrote(worker', events', stdout', protocol'.wall)
      BY <1>2, <2>1 DEF WorkerInv, Wrote, Finished
    <2> QED
      BY <1>2, <2>1, <2>2 DEF WorkerInv
  <1> QED
    BY <1>1, <1>3, <1>4

Early == {"launch", "handshake", "response", "dispatch"}

LEMMA InputStays ==
    ASSUME SessionInv, UNCHANGED <<worker, stdout>>, stdin'.frames = stdin.frames,
           protocol'.wall = protocol.wall \/ stage = "dispatch",
           stage' \in Early => stage \in Early,
           stage' \in {"launch", "handshake"} => stage \in {"launch", "handshake"}
    PROVE  InputInv'
  BY DEF SessionInv, InputInv, Early

\* What the failing steps of a running session have in common.
Failing(e) ==
    /\ e \in Errors /\ Fail(e)
    /\ stage \in Attached \cup {"stderr"}
    /\ stage = "announcing" => SinkClosed
    /\ UNCHANGED <<now, stdout, worker, events, cancelled, pending, retained, sink, answer>>
    /\ protocol' \in ProtocolState
    /\ protocol'.wall = protocol.wall \/ stage = "dispatch"
    /\ read' \in Nat /\ read' =< Len(stdout)
    /\ account'.events \in Nat
    /\ child' = child \/ (child' = "reaped" /\ worker.pc = "exited")
    /\ Obedient => e \notin {"Protocol", "FrameCountLimit", "EventCountLimit"}

\* Every failure leaves a session that is to be stopped.
LEMMA FailKeeps ==
    ASSUME SessionInv, NEW e, Failing(e)
    PROVE  SessionInv'
  <1> USE DEF Failing
  <1>1. error' = e /\ e # "none" /\ stage' = "stopping"
    BY DEF Fail, Errors
  <1>2. stdin' \in InputState /\ stdin'.frames = stdin.frames
    BY InputClosed DEF Fail, SessionInv, SessionTypes
  <1>3. SessionTypes'
    BY <1>1, <1>2 DEF SessionInv, SessionTypes, Stages
  <1>4. ProcessInv'
    BY <1>1 DEF SessionInv, SessionTypes, ProcessInv, Attached, Over
  <1>5. ReadInv'
    BY <1>1 DEF ReadInv, Over
  <1>6. EventsInv' /\ WorkerInv'
    BY SupervisorKeepsWorker
  <1>7. InputInv'
    BY <1>1, <1>2, InputStays DEF Early
  <1>8. ErrorInv'
    BY <1>1 DEF ErrorInv, Obedient
  <1>9. DeliveryInv'
    <2>1. Kept' = Kept /\ SinkClosed' = SinkClosed
      BY DEF Kept, SinkClosed
    <2> QED
      BY <1>1, <2>1 DEF SessionInv, DeliveryInv, Attached
  <1> QED
    BY <1>3, <1>4, <1>5, <1>6, <1>7, <1>8, <1>9 DEF SessionInv

LEMMA TickKeeps ==
    ASSUME SessionInv, Tick \/ Cancel
    PROVE  SessionInv'
  <1>1. /\ UNCHANGED <<read, stdin, stdout, worker, events, stage, protocol, account, error,
                       child, pending, retained, sink, answer>>
        /\ now' \in Nat /\ now' >= now /\ now \in Nat
        /\ cancelled' \in BOOLEAN /\ (cancelled => cancelled')
    <2>1. now \in Nat /\ cancelled \in BOOLEAN
      BY DEF SessionInv, SessionTypes
    <2>2. CASE Tick
      BY <2>1, <2>2 DEF Tick, sessionVars, processVars
    <2>3. CASE Cancel
      BY <2>1, <2>3 DEF Cancel, processVars
    <2> QED
      BY <2>2, <2>3
  <1>2. SessionTypes'
    BY <1>1 DEF SessionInv, SessionTypes
  <1>3. SinkClosed => SinkClosed'
    BY <1>1, LimitAssumption DEF SinkClosed
  <1>4. Kept' = Kept /\ FinalCandidate' = FinalCandidate
    BY <1>1 DEF Kept, FinalCandidate
  <1>5. ProcessInv' /\ ErrorInv'
    BY <1>1 DEF SessionInv, ProcessInv, ErrorInv
  <1>6. ReadInv'
    BY <1>1 DEF SessionInv, ReadInv
  <1>7. EventsInv' /\ WorkerInv'
    BY <1>1, SupervisorKeepsWorker
  <1>8. InputInv'
    BY <1>1, InputStays
  <1>9. DeliveryInv'
    BY <1>1, <1>3, <1>4 DEF SessionInv, DeliveryInv
  <1> QED
    BY <1>2, <1>5, <1>6, <1>7, <1>8, <1>9 DEF SessionInv

LEMMA LaunchKeeps ==
    ASSUME SessionInv, Launch
    PROVE  SessionInv'
  <1>1. /\ stage = "launch" /\ stage' = "handshake" /\ child' = "running"
        /\ UNCHANGED <<now, read, stdin, stdout, events, cancelled, protocol, account,
                       error, pending, retained, sink, answer>>
    BY DEF Launch
  <1>2. PICK rogue \in BOOLEAN : worker' = Launched(rogue)
    BY DEF Launch, Launched
  <1>3. /\ worker' \in WorkerState /\ worker'.rogue = rogue /\ ~worker'.found
        /\ worker'.exit = "none" /\ worker'.outcome = NoOutcome
        /\ worker'.pc = IF rogue THEN "rogue" ELSE "handshake"
    BY <1>2, WorkerLaunched
  <1>4. /\ child = "none" /\ worker.pc = "none" /\ worker = NotStarted /\ error = "none"
        /\ events = NoEvents
    BY <1>1 DEF SessionInv, ProcessInv, WorkerInv, EventsInv
  <1>5. stdout = <<>>
    BY <1>4 DEF SessionInv, WorkerInv, NotStarted, Wrote
  <1>6. SessionTypes'
    BY <1>1, <1>3 DEF SessionInv, SessionTypes, Stages, BudgetedStages
  <1>7. ProcessInv'
    BY <1>1, <1>3, <1>4 DEF SessionInv, ProcessInv, Attached, Over
  <1>8. ReadInv'
    BY <1>1, <1>4 DEF SessionInv, ReadInv, Over
  <1>9. EventsInv'
    BY <1>1, <1>3, <1>4, QuietEvents
  <1>10. WorkerInv'
    BY <1>1, <1>3, <1>5 DEF WorkerInv, Wrote
  <1>11. InputInv'
    BY <1>1, <1>3 DEF SessionInv, SessionTypes, InputState, InputInv
  <1>12. ErrorInv'
    BY <1>1, <1>4 DEF ErrorInv
  <1>13. DeliveryInv'
    <2>1. Kept' = Kept
      BY <1>1 DEF Kept
    <2> QED
      BY <1>1, <1>4, <2>1 DEF SessionInv, DeliveryInv, Attached
  <1> QED
    BY <1>6, <1>7, <1>8, <1>9, <1>10, <1>11, <1>12, <1>13 DEF SessionInv

LEMMA LaunchFailsKeeps ==
    ASSUME SessionInv, LaunchFails
    PROVE  SessionInv'
  <1>1. /\ stage = "launch" /\ stage' = "ended" /\ error' \in Errors /\ error' # "none"
        /\ error' \notin {"Protocol", "FrameCountLimit", "EventCountLimit"}
        /\ UNCHANGED <<now, read, stdin, stdout, worker, events, cancelled, protocol, account,
                       child, pending, retained, sink, answer>>
    BY DEF LaunchFails, BudgetError, Errors, processVars
  <1>2. SessionTypes'
    BY <1>1 DEF SessionInv, SessionTypes, Stages
  <1>3. ProcessInv'
    BY <1>1 DEF SessionInv, ProcessInv, Attached, Over
  <1>4. ReadInv'
    BY <1>1 DEF SessionInv, ReadInv, Over
  <1>5. EventsInv' /\ WorkerInv'
    BY <1>1, SupervisorKeepsWorker
  <1>6. InputInv'
    BY <1>1, InputStays DEF Early
  <1>7. ErrorInv'
    BY <1>1 DEF ErrorInv
  <1>8. DeliveryInv'
    <2>1. Kept' = Kept
      BY <1>1 DEF Kept
    <2> QED
      BY <1>1, <2>1 DEF SessionInv, DeliveryInv, Attached
  <1> QED
    BY <1>2, <1>3, <1>4, <1>5, <1>6, <1>7, <1>8 DEF SessionInv

LEMMA NotAdmittedKeeps ==
    ASSUME SessionInv, NotAdmitted
    PROVE  SessionInv'
  <1>1. /\ stage = "launch" /\ stage' = "returned" /\ error' = "NotAdmitted"
        /\ answer' \in {"BackendError", "TimeLimit"}
        /\ UNCHANGED <<now, read, stdin, stdout, worker, events, cancelled, protocol, account,
                       child, pending, retained, sink>>
    BY DEF NotAdmitted, processVars
  <1>2. SessionTypes'
    BY <1>1 DEF SessionInv, SessionTypes, Stages, Errors, Answers
  <1>3. ProcessInv'
    BY <1>1 DEF SessionInv, ProcessInv, Attached, Over
  <1>4. ReadInv'
    BY <1>1 DEF SessionInv, ReadInv, Over
  <1>5. EventsInv' /\ WorkerInv'
    BY <1>1, SupervisorKeepsWorker
  <1>6. InputInv'
    BY <1>1, InputStays DEF Early
  <1>7. ErrorInv'
    BY <1>1 DEF ErrorInv
  <1>8. DeliveryInv'
    BY <1>1 DEF DeliveryInv, Attached
  <1> QED
    BY <1>2, <1>3, <1>4, <1>5, <1>6, <1>7, <1>8 DEF SessionInv

LEMMA BudgetKeeps ==
    ASSUME SessionInv, BudgetEnds
    PROVE  SessionInv'
  <1>1. PICK e : e = BudgetError
    OBVIOUS
  <1>2. e \in Errors /\ e \notin {"Protocol", "FrameCountLimit", "EventCountLimit"}
    BY <1>1 DEF BudgetError, Errors
  <1>3. /\ Fail(e) /\ stage \in (Attached \cup {"stderr"}) \ {"announcing"}
        /\ UNCHANGED <<now, read, stdout, worker, events, cancelled, protocol, account,
                       child, pending, retained, sink, answer>>
    BY <1>1 DEF BudgetEnds, BudgetedStages, Attached
  <1>4. Failing(e)
    BY <1>2, <1>3 DEF SessionInv, SessionTypes, Failing
  <1> QED
    BY <1>4, FailKeeps

LEMMA WriteHandshakeKeeps ==
    ASSUME SessionInv, WriteHandshake
    PROVE  SessionInv'
  <1>1. /\ stage = "handshake" /\ protocol' = OnParentFrame(protocol, Frame("handshake"))
        /\ UNCHANGED <<now, read, stdout, worker, events, cancelled, account, child,
                       pending, retained, sink, answer>>
    BY DEF WriteHandshake
  <1>2. /\ SessionTypes /\ ProcessInv /\ ReadInv /\ InputInv /\ DeliveryInv
        /\ protocol \in ProtocolState /\ protocol.phase = "HandshakeRequest" /\ error = "none"
    BY <1>1 DEF SessionInv, SessionTypes, ReadInv, ProcessInv, Attached
  <1>3. /\ protocol' \in ProtocolState /\ protocol'.wall = protocol.wall
        /\ protocol'.phase = "HandshakeResponse" /\ protocol'.evidence = protocol.evidence
    BY <1>1, <1>2, ProtocolTyped
  <1>4. CASE ~Alive
    <2>1. Fail("Io")
      BY <1>4 DEF WriteHandshake
    <2>2. Failing("Io")
      BY <1>1, <1>2, <1>3, <2>1 DEF Failing, Errors, Attached, SessionTypes
    <2> QED
      BY <2>2, FailKeeps
  <1>5. CASE Alive
    <2>1. /\ stdin' = [stdin EXCEPT !.frames = Append(@, Frame("handshake"))]
          /\ stage' = "response" /\ error' = error
      BY <1>5 DEF WriteHandshake
    <2>2. PICK f : f = Frame("handshake")
      OBVIOUS
    <2>3. f \in OwnFrame
      BY <2>2, FramesTyped DEF Kinds
    <2>4. stdin' \in InputState /\ stdin'.frames = Append(stdin.frames, f)
      BY <1>2, <2>1, <2>2, <2>3, InputWritten DEF SessionTypes
    <2>5. stdin.frames = <<>> /\ worker.pc # "solve"
      BY <1>1, <1>2 DEF InputInv
    <2>6. Len(stdin'.frames) = 1
      BY <2>3, <2>4, <2>5
    <2>7. SessionTypes'
      BY <1>1, <1>2, <1>3, <2>1, <2>4 DEF SessionTypes, Stages, BudgetedStages
    <2>8. ProcessInv'
      BY <1>1, <1>2, <2>1 DEF ProcessInv, Attached, Over
    <2>9. Admitted(protocol', read, stdout, account.events)
      BY <1>2, <1>3 DEF ReadInv, Admitted, Ended, Refused
    <2>10. ReadInv'
      BY <1>1, <1>2, <1>3, <2>1, <2>9 DEF ReadInv, Over
    <2>11. EventsInv' /\ WorkerInv'
      BY <1>1, <1>3, SupervisorKeepsWorker
    <2>12. InputInv'
      BY <1>1, <1>2, <2>1, <2>5, <2>6 DEF InputInv
    <2>13. ErrorInv'
      BY <1>2, <2>1 DEF ErrorInv
    <2>14. Kept' = Kept
      BY <1>1 DEF Kept
    <2>15. DeliveryInv'
      BY <1>1, <1>2, <2>1, <2>14 DEF DeliveryInv, Attached
    <2> QED
      BY <2>7, <2>8, <2>10, <2>11, <2>12, <2>13, <2>15 DEF SessionInv
  <1> QED
    BY <1>4, <1>5

\* What reading one frame does to the protocol.
LEMMA FrameRead ==
    ASSUME SessionInv, OutputReady, error = "none",
           NEW q, q = OnWorkerFrame(protocol, stdout[read + 1])
    PROVE  /\ stdout[read + 1] \in AnyFrame /\ read + 1 \in Nat /\ read + 1 =< Len(stdout)
           /\ q \in ProtocolState /\ q.wall = protocol.wall
           /\ q.phase # "Failed" =>
                  /\ <<protocol.phase, stdout[read + 1].kind, q.phase>> \in WorkerSteps
                  /\ Admitted(q, read + 1, stdout, IF IsEvent(stdout[read + 1])
                                                   THEN account.events + 1
                                                   ELSE account.events)
  <1>1. PICK n, out, p, c : n = read /\ out = stdout /\ p = protocol /\ c = account.events
    OBVIOUS
  <1>2. /\ n \in Nat /\ out \in Seq(AnyFrame) /\ n < Len(out) /\ p \in ProtocolState
        /\ c \in Nat /\ Admitted(p, n, out, c)
    BY <1>1 DEF SessionInv, SessionTypes, ReadInv, OutputReady
  <1>3. out[n + 1] \in AnyFrame /\ n + 1 \in Nat /\ n + 1 =< Len(out)
    BY <1>2
  <1>4. q = OnWorkerFrame(p, out[n + 1])
    BY <1>1
  <1>5. /\ q \in ProtocolState /\ q.wall = p.wall
        /\ q.phase # "Failed" => <<p.phase, out[n + 1].kind, q.phase>> \in WorkerSteps
    BY <1>2, <1>3, <1>4, WorkerFrameStep
  <1>6. q.phase # "Failed" =>
            Admitted(q, n + 1, out, IF IsEvent(out[n + 1]) THEN c + 1 ELSE c)
    BY <1>2, <1>4, AdmittedReads
  <1> QED
    BY <1>1, <1>3, <1>5, <1>6

LEMMA ReadResponseKeeps ==
    ASSUME SessionInv, ReadResponse
    PROVE  SessionInv'
  <1>1. /\ stage = "response" /\ OutputReady /\ read' = read + 1
        /\ protocol' = OnWorkerFrame(protocol, stdout[read + 1])
        /\ UNCHANGED <<now, stdout, worker, events, cancelled, account, child,
                       pending, retained, sink, answer>>
    BY DEF ReadResponse
  <1>2. /\ SessionTypes /\ ProcessInv /\ ReadInv /\ WorkerSide /\ DeliveryInv /\ InputInv
        /\ protocol.phase = "HandshakeResponse" /\ error = "none" /\ child = "running"
    BY <1>1 DEF SessionInv, ReadInv, ProcessInv, Attached, WorkerSide
  <1>3. PICK f, q : f = stdout[read + 1] /\ q = protocol'
    OBVIOUS
  <1>4. /\ q \in ProtocolState /\ q.wall = protocol.wall /\ read' \in Nat /\ read' =< Len(stdout)
        /\ q.phase # "Failed" =>
               /\ <<protocol.phase, f.kind, q.phase>> \in WorkerSteps
               /\ Admitted(q, read', stdout, IF IsEvent(f) THEN account.events + 1
                                                           ELSE account.events)
    BY <1>1, <1>2, <1>3, FrameRead
  <1>5. q.phase # "Failed" => \/ f.kind = "accepted" /\ q.phase = "SolveRequest"
                              \/ f.kind = "rejected" /\ q.phase = "Rejected"
    BY <1>2, <1>4 DEF WorkerSteps
  <1>6. CASE q.phase = "Failed"
    <2>1. Fail("Protocol")
      BY <1>3, <1>6 DEF ReadResponse
    <2>2. ~Obedient
      BY <1>1, <1>2, <1>3, <1>6, ObedientReads DEF Awaiting
    <2>3. Failing("Protocol")
      BY <1>1, <1>2, <1>3, <1>4, <2>1, <2>2 DEF Failing, Errors, Attached, SessionTypes
    <2> QED
      BY <2>3, FailKeeps
  <1>7. CASE q.phase # "Failed"
    <2>1. ~IsEvent(f) /\ f.kind # "incumbent"
      BY <1>5, <1>7 DEF IsEvent
    <2>2. Admitted(q, read', stdout, account.events)
      BY <1>4, <1>7, <2>1
    <2>3. read = 0 /\ f = stdout[1]
      BY <1>2, <1>3 DEF ReadInv, Admitted
    <2>4. /\ error' = error
          /\ \/ q.phase = "SolveRequest" /\ stage' = "dispatch" /\ stdin' = stdin
             \/ /\ q.phase = "Rejected" /\ stage' = "reading"
                /\ stdin' = [stdin EXCEPT !.closed = TRUE]
      BY <1>3, <1>5, <1>7 DEF ReadResponse
    <2>5. stdin' \in InputState /\ stdin'.frames = stdin.frames
      BY <1>2, <2>4, InputClosed DEF SessionTypes
    <2>6. SessionTypes'
      BY <1>1, <1>2, <1>3, <1>4, <2>4, <2>5 DEF SessionTypes, Stages, BudgetedStages
    <2>7. ProcessInv'
      BY <1>1, <1>2, <2>4 DEF ProcessInv, Attached, Over
    <2>8. ReadInv'
      BY <1>1, <1>2, <1>3, <2>2, <2>4 DEF ReadInv, Over
    <2>9. EventsInv' /\ WorkerInv'
      BY <1>1, <1>3, <1>4, SupervisorKeepsWorker
    <2>10. InputInv'
      BY <1>1, <1>3, <1>4, <2>4, <2>5, InputStays DEF Early
    <2>11. ErrorInv'
      BY <1>2, <2>4 DEF ErrorInv
    <2>12. Kept' = Kept
      BY <1>1 DEF Kept
    <2>13. \A i \in 1 .. read' : stdout'[i].kind # "incumbent"
      BY <1>1, <2>1, <2>3
    <2>14. DeliveryInv'
      BY <1>1, <1>2, <2>4, <2>12, <2>13 DEF DeliveryInv, Attached
    <2> QED
      BY <2>6, <2>7, <2>8, <2>9, <2>10, <2>11, <2>14 DEF SessionInv
  <1> QED
    BY <1>6, <1>7

LEMMA DispatchKeeps ==
    ASSUME SessionInv, Dispatch
    PROVE  SessionInv'
  <1>1. /\ stage = "dispatch"
        /\ UNCHANGED <<now, read, stdout, worker, events, cancelled, account, child,
                       pending, retained, sink, answer>>
    BY DEF Dispatch
  <1>2. /\ SessionTypes /\ ProcessInv /\ ReadInv /\ WorkerInv /\ InputInv /\ DeliveryInv
        /\ protocol \in ProtocolState /\ protocol.phase = "SolveRequest" /\ error = "none"
        /\ child = "running" /\ now \in Nat /\ read \in Nat /\ read =< Len(stdout)
        /\ Len(stdout) \in Nat
    BY <1>1 DEF SessionInv, SessionTypes, ReadInv, ProcessInv, Attached
  <1>3. PICK started, left : /\ started = OnParentFrame(protocol, SolveRequest(SearchLimit))
                             /\ left = DispatchLimit
    OBVIOUS
  <1>4. left \in Int /\ left =< SearchLimit
    BY <1>2, <1>3, LimitAssumption DEF DispatchLimit, Lesser
  <1>5. PICK sent : sent = TightenWallTime(started, left)
    OBVIOUS
  <1>6. /\ started \in ProtocolState /\ sent \in ProtocolState
        /\ sent.evidence = protocol.evidence
        /\ left > 0 => sent.phase = "Started" /\ sent.wall = left
    BY <1>2, <1>3, <1>4, <1>5, RequestStep, LimitAssumption
  <1>7. read = 1 /\ stdout[1].kind = "accepted"
    BY <1>2 DEF ReadInv, Admitted
  <1>8. CASE left =< 0
    <2>1. Fail("DeadlineExceeded") /\ protocol' = started
      BY <1>3, <1>8 DEF Dispatch
    <2>2. Failing("DeadlineExceeded")
      BY <1>1, <1>2, <1>6, <2>1 DEF Failing, Errors, Attached, SessionTypes
    <2> QED
      BY <2>2, FailKeeps
  <1>9. CASE left > 0 /\ ~Alive
    <2>1. Fail("Protocol") /\ protocol' = sent
      BY <1>3, <1>4, <1>5, <1>9 DEF Dispatch
    <2>2. ~Obedient
      <3>1. worker.pc = "exited" /\ worker.exit \in {"zero", "nonzero", "signal"}
        BY <1>2, <1>9 DEF Alive, ProcessInv, SessionTypes, WorkerState
      <3>2. Frame("rejected").kind = "rejected"
        BY DEF Frame
      <3> QED
        BY <1>1, <1>2, <1>7, <3>1, <3>2 DEF InputInv, Obedient
    <2>3. Failing("Protocol")
      BY <1>1, <1>2, <1>6, <2>1, <2>2 DEF Failing, Errors, Attached, SessionTypes
    <2> QED
      BY <2>3, FailKeeps
  <1>10. CASE left > 0 /\ Alive
    <2>1. /\ protocol' = sent /\ stage' = "reading" /\ error' = error
          /\ stdin' = [frames |-> Append(stdin.frames, SolveRequest(left)), closed |-> TRUE]
      BY <1>3, <1>4, <1>5, <1>10 DEF Dispatch
    <2>2. PICK f : f = SolveRequest(left)
      OBVIOUS
    <2>3. f \in OwnFrame /\ f.wall = left
      BY <1>4, <2>2, FramesTyped
    <2>4. stdin.frames \in Seq(OwnFrame)
      BY <1>2 DEF SessionTypes, InputState
    <2>5. stdin'.frames = Append(stdin.frames, f) /\ stdin' \in InputState
      BY <2>1, <2>2, <2>3, <2>4 DEF InputState
    <2>6. worker.pc # "handshake"
      <3>1. Len(stdout) >= 1
        BY <1>2, <1>7
      <3> QED
        BY <1>2, <3>1 DEF WorkerInv, Wrote
    <2>7. worker.pc = "solve" => Len(stdin'.frames) = 1 /\ stdin'.frames[1] = f
      BY <1>1, <1>2, <2>3, <2>4, <2>5 DEF InputInv
    <2>8. SessionTypes'
      BY <1>1, <1>2, <1>6, <2>1, <2>5 DEF SessionTypes, Stages, BudgetedStages
    <2>9. ProcessInv'
      BY <1>1, <1>2, <2>1 DEF ProcessInv, Attached, Over
    <2>10. Admitted(sent, read, stdout, account.events)
      BY <1>2, <1>6, <1>10 DEF ReadInv, Admitted, Ended, Refused
    <2>11. ReadInv'
      BY <1>1, <1>2, <1>6, <1>10, <2>1, <2>10 DEF ReadInv, Over
    <2>12. EventsInv' /\ WorkerInv'
      BY <1>1, SupervisorKeepsWorker
    <2>13. InputInv'
      BY <1>1, <1>6, <1>10, <2>1, <2>3, <2>6, <2>7 DEF InputInv
    <2>14. ErrorInv'
      BY <1>2, <2>1 DEF ErrorInv
    <2>15. Kept' = Kept
      BY <1>1 DEF Kept
    <2>16. DeliveryInv'
      BY <1>1, <1>2, <2>1, <2>15 DEF DeliveryInv, Attached
    <2> QED
      BY <2>8, <2>9, <2>11, <2>12, <2>13, <2>14, <2>16 DEF SessionInv
  <1> QED
    BY <1>4, <1>8, <1>9, <1>10

LEMMA ReadFrameKeeps ==
    ASSUME SessionInv, ReadFrame
    PROVE  SessionInv'
  <1>1. /\ stage = "reading" /\ OutputReady /\ read' = read + 1
        /\ UNCHANGED <<now, stdout, worker, events, cancelled, child, retained, sink, answer>>
    BY DEF ReadFrame
  <1>2. /\ SessionTypes /\ ProcessInv /\ ReadInv /\ WorkerSide /\ DeliveryInv
        /\ protocol.phase \in {"Started", "Running", "Terminal", "Rejected"}
        /\ error = "none" /\ child = "running" /\ account.events \in Nat
    BY <1>1 DEF SessionInv, SessionTypes, ReadInv, ProcessInv, Attached, WorkerSide
  <1>3. PICK f, q : f = stdout[read + 1] /\ q = OnWorkerFrame(protocol, f)
    OBVIOUS
  <1>4. /\ f \in AnyFrame /\ q \in ProtocolState /\ q.wall = protocol.wall
        /\ read' \in Nat /\ read' =< Len(stdout)
        /\ q.phase # "Failed" =>
               /\ <<protocol.phase, f.kind, q.phase>> \in WorkerSteps
               /\ Admitted(q, read', stdout, IF IsEvent(f) THEN account.events + 1
                                                           ELSE account.events)
    BY <1>1, <1>2, <1>3, FrameRead
  <1>5. Obedient => /\ q.phase # "Failed"
                    /\ read + 1 =< FramesPerSession
                    /\ IsEvent(f) => account.events + 1 =< EventsPerSession
    BY <1>1, <1>2, <1>3, ObedientReads DEF Awaiting
  <1>6. CASE LimitError(f) # "none"
    <2>1. PICK e : e = LimitError(f)
      OBVIOUS
    <2>2. e \in Errors /\ (Obedient => e = "EventRateLimit")
      <3>1. read \in Nat /\ FramesPerSession \in Nat /\ EventsPerSession \in Nat
        BY <1>2, LimitAssumption, PolicyAssumption DEF SessionTypes
      <3> QED
        BY <1>2, <1>5, <1>6, <2>1, <3>1 DEF LimitError, Errors
    <2>3. Fail(e) /\ UNCHANGED <<protocol, account, pending>>
      BY <1>3, <1>6, <2>1 DEF ReadFrame
    <2>4. Failing(e)
      BY <1>1, <1>2, <1>4, <2>2, <2>3 DEF Failing, Attached, SessionTypes
    <2> QED
      BY <2>4, FailKeeps
  <1>7. CASE LimitError(f) = "none"
    <2>1. account' = Recorded(f) /\ protocol' = q
      BY <1>3, <1>7 DEF ReadFrame
    <2>2. /\ account'.events = IF IsEvent(f) THEN account.events + 1 ELSE account.events
          /\ account'.events \in Nat
      BY <1>2, <2>1 DEF Recorded
    <2>3. CASE q.phase = "Failed"
      <3>1. Fail("Protocol") /\ UNCHANGED pending
        BY <1>3, <1>7, <2>1, <2>3 DEF ReadFrame
      <3>2. Failing("Protocol")
        BY <1>1, <1>2, <1>4, <1>5, <2>1, <2>2, <2>3, <3>1 DEF Failing, Errors, Attached
      <3> QED
        BY <3>2, FailKeeps
    <2>4. CASE q.phase # "Failed"
      <3>1. stage' = "observing" /\ pending' = f /\ stdin' = stdin /\ error' = error
        BY <1>3, <1>7, <2>1, <2>4 DEF ReadFrame
      <3>2. q.phase \in {"Started", "Running", "Terminal", "Rejected"}
        BY <1>2, <1>4, <2>4 DEF WorkerSteps
      <3>3. SessionTypes'
        BY <1>1, <1>2, <1>4, <2>1, <2>2, <3>1 DEF SessionTypes, Stages
      <3>4. ProcessInv'
        BY <1>1, <1>2, <3>1 DEF ProcessInv, Attached, Over
      <3>5. Admitted(q, read', stdout, account'.events)
        BY <1>4, <2>2, <2>4
      <3>6. ReadInv'
        BY <1>1, <1>2, <2>1, <3>1, <3>2, <3>5 DEF ReadInv, Over
      <3>7. EventsInv' /\ WorkerInv'
        BY <1>1, <1>4, <2>1, SupervisorKeepsWorker
      <3>8. InputInv'
        BY <1>1, <1>4, <2>1, <3>1, InputStays DEF Early
      <3>9. ErrorInv'
        BY <1>2, <3>1 DEF ErrorInv
      <3>10. Kept' = Kept
        BY <1>1 DEF Kept
      <3>11. DeliveryInv'
        <4>1. read \in Nat
          BY <1>2 DEF SessionTypes
        <4>2. EmitIntermediate => \A i \in 1 .. read : stdout[i].kind = "incumbent" => retained
          BY <1>1, <1>2 DEF DeliveryInv
        <4>3. \A i \in 1 .. read' : i \in 1 .. read \/ i = read + 1
          BY <1>1, <4>1
        <4>4. EmitIntermediate => \A i \in 1 .. read' : stdout'[i].kind = "incumbent" =>
                  retained' \/ (stage' = "observing" /\ pending'.kind = "incumbent")
          BY <1>1, <1>3, <3>1, <4>2, <4>3
        <4>5. read' > 0 /\ pending' = stdout'[read']
          BY <1>1, <1>3, <3>1, <4>1
        <4> QED
          BY <1>1, <1>2, <3>1, <3>10, <4>4, <4>5 DEF DeliveryInv, Attached
      <3> QED
        BY <3>3, <3>4, <3>6, <3>7, <3>8, <3>9, <3>11 DEF SessionInv
    <2> QED
      BY <2>3, <2>4
  <1> QED
    BY <1>6, <1>7

LEMMA ReadOversizedKeeps ==
    ASSUME SessionInv, ReadOversized
    PROVE  SessionInv'
  <1>1. PICK e \in {"Protocol", "SessionByteLimit"} : Fail(e)
    BY DEF ReadOversized
  <1>2. /\ stage \in {"response", "reading"} /\ worker.rogue
        /\ UNCHANGED <<now, read, stdout, worker, events, cancelled, protocol, account,
                       child, pending, retained, sink, answer>>
    BY DEF ReadOversized
  <1>3. Failing(e)
    BY <1>1, <1>2 DEF SessionInv, SessionTypes, Failing, Errors, Attached, Obedient
  <1> QED
    BY <1>3, FailKeeps

LEMMA ReadEofKeeps ==
    ASSUME SessionInv, ReadEof
    PROVE  SessionInv'
  <1>1. /\ stage \in {"response", "reading"} /\ OutputEnded /\ protocol' = OnEof(protocol)
        /\ UNCHANGED <<now, read, stdout, worker, events, cancelled, account, child,
                       pending, retained, sink, answer>>
    BY DEF ReadEof
  <1>2. /\ SessionTypes /\ ProcessInv /\ ReadInv /\ WorkerSide /\ DeliveryInv
        /\ protocol \in ProtocolState /\ protocol.phase \in Awaiting
        /\ error = "none" /\ child = "running"
    BY <1>1 DEF SessionInv, SessionTypes, ReadInv, ProcessInv, Attached, WorkerSide, Awaiting
  <1>3. PICK q : q = protocol'
    OBVIOUS
  <1>4. /\ q \in ProtocolState /\ q.wall = protocol.wall /\ q.evidence = protocol.evidence
        /\ q.phase = CASE protocol.phase = "Terminal" -> "Eof"
                       [] protocol.phase = "Rejected" -> "RejectedEof"
                       [] OTHER -> "Failed"
    BY <1>1, <1>2, <1>3, ProtocolTyped
  <1>5. CASE q.phase = "Failed"
    <2>1. Fail("Protocol")
      BY <1>3, <1>5 DEF ReadEof
    <2>2. ~Obedient
      BY <1>1, <1>2, <1>4, <1>5, ObedientEof
    <2>3. Failing("Protocol")
      BY <1>1, <1>2, <1>3, <1>4, <2>1, <2>2 DEF Failing, Errors, Attached, SessionTypes
    <2> QED
      BY <2>3, FailKeeps
  <1>6. CASE q.phase # "Failed"
    <2>1. stage' = "exit" /\ stdin' = stdin /\ error' = error
      BY <1>3, <1>6 DEF ReadEof
    <2>2. \/ protocol.phase = "Terminal" /\ q.phase = "Eof"
          \/ protocol.phase = "Rejected" /\ q.phase = "RejectedEof"
      BY <1>2, <1>4, <1>6 DEF Awaiting
    <2>3. Admitted(q, read, stdout, account.events)
      BY <1>2, <1>4, <2>2 DEF ReadInv, Admitted, Ended, Refused
    <2>4. SessionTypes'
      BY <1>1, <1>2, <1>3, <1>4, <2>1 DEF SessionTypes, Stages, BudgetedStages
    <2>5. ProcessInv'
      BY <1>1, <1>2, <2>1 DEF ProcessInv, Attached, Over
    <2>6. ReadInv'
      BY <1>1, <1>2, <1>3, <2>1, <2>2, <2>3 DEF ReadInv, Over, OutputEnded
    <2>7. EventsInv' /\ WorkerInv'
      BY <1>1, <1>3, <1>4, SupervisorKeepsWorker
    <2>8. InputInv'
      BY <1>1, <1>3, <1>4, <2>1, InputStays DEF Early
    <2>9. ErrorInv'
      BY <1>2, <2>1 DEF ErrorInv
    <2>10. Kept' = Kept
      BY <1>1 DEF Kept
    <2>11. DeliveryInv'
      BY <1>1, <1>2, <2>1, <2>10 DEF DeliveryInv, Attached
    <2> QED
      BY <2>4, <2>5, <2>6, <2>7, <2>8, <2>9, <2>11 DEF SessionInv
  <1> QED
    BY <1>5, <1>6

LEMMA WaitForExitKeeps ==
    ASSUME SessionInv, WaitForExit
    PROVE  SessionInv'
  <1>1. /\ stage = "exit" /\ worker.pc = "exited" /\ child' = "reaped"
        /\ UNCHANGED <<now, read, stdout, worker, events, cancelled, account,
                       pending, retained, sink, answer>>
    BY DEF WaitForExit
  <1>2. /\ SessionTypes /\ ProcessInv /\ ReadInv /\ DeliveryInv
        /\ protocol \in ProtocolState /\ protocol.phase \in {"Eof", "RejectedEof"}
        /\ error = "none" /\ worker.exit \in {"zero", "nonzero", "signal"}
    BY <1>1 DEF SessionInv, SessionTypes, ReadInv, ProcessInv, Attached, WorkerState
  <1>3. CASE worker.exit = "signal"
    <2>1. Fail("MissingExitCode") /\ protocol' = protocol
      BY <1>3 DEF WaitForExit
    <2>2. Failing("MissingExitCode")
      BY <1>1, <1>2, <2>1 DEF Failing, Errors, Attached, SessionTypes
    <2> QED
      BY <2>2, FailKeeps
  <1>4. CASE worker.exit # "signal"
    <2>1. PICK q : q = OnExit(protocol, worker.exit)
      OBVIOUS
    <2>2. protocol' = q
      BY <1>4, <2>1 DEF WaitForExit
    <2>3. /\ q \in ProtocolState /\ q.wall = protocol.wall /\ q.evidence = protocol.evidence
          /\ q.phase = CASE protocol.phase = "Eof" /\ worker.exit = "zero" -> "Complete"
                         [] protocol.phase = "RejectedEof" /\ worker.exit = "zero" ->
                                "RejectedComplete"
                         [] OTHER -> "Failed"
      BY <1>2, <2>1, ProtocolTyped
    <2>4. CASE q.phase = "Failed"
      <3>1. Fail("Protocol")
        BY <1>4, <2>2, <2>4 DEF WaitForExit
      <3>2. ~Obedient
        BY <1>2, <1>4, <2>3, <2>4 DEF Obedient
      <3>3. Failing("Protocol")
        BY <1>1, <1>2, <2>2, <2>3, <3>1, <3>2 DEF Failing, Errors, Attached, SessionTypes
      <3> QED
        BY <3>3, FailKeeps
    <2>5. CASE q.phase # "Failed"
      <3>1. stage' = "stderr" /\ stdin' = stdin /\ error' = error
        BY <1>4, <2>2, <2>5 DEF WaitForExit
      <3>2. /\ worker.exit = "zero"
            /\ \/ protocol.phase = "Eof" /\ q.phase = "Complete"
               \/ protocol.phase = "RejectedEof" /\ q.phase = "RejectedComplete"
        BY <1>2, <2>3, <2>5
      <3>3. Admitted(q, read, stdout, account.events)
        BY <1>2, <2>3, <3>2 DEF ReadInv, Admitted, Ended, Refused
      <3>4. SessionTypes'
        BY <1>1, <1>2, <2>2, <2>3, <3>1 DEF SessionTypes, Stages, BudgetedStages
      <3>5. ProcessInv'
        BY <1>1, <1>2, <3>1 DEF ProcessInv, Attached, Over
      <3>6. ReadInv'
        BY <1>1, <1>2, <2>2, <3>1, <3>2, <3>3 DEF ReadInv, Over
      <3>7. EventsInv' /\ WorkerInv'
        BY <1>1, <2>2, <2>3, SupervisorKeepsWorker
      <3>8. InputInv'
        BY <1>1, <2>2, <2>3, <3>1, InputStays DEF Early
      <3>9. ErrorInv'
        BY <1>2, <3>1 DEF ErrorInv
      <3>10. Kept' = Kept
        BY <1>1 DEF Kept
      <3>11. DeliveryInv'
        BY <1>1, <1>2, <3>1, <3>10 DEF DeliveryInv, Attached
      <3> QED
        BY <3>4, <3>5, <3>6, <3>7, <3>8, <3>9, <3>11 DEF SessionInv
    <2> QED
      BY <2>4, <2>5
  <1> QED
    BY <1>3, <1>4

LEMMA FinishStderrKeeps ==
    ASSUME SessionInv, FinishStderr
    PROVE  SessionInv'
  <1>1. /\ stage = "stderr" /\ stage' = "ended"
        /\ UNCHANGED <<now, read, stdin, stdout, worker, events, cancelled, protocol, account,
                       error, child, pending, retained, sink, answer>>
    BY DEF FinishStderr, processVars
  <1>2. SessionTypes'
    BY <1>1 DEF SessionInv, SessionTypes, Stages
  <1>3. ProcessInv' /\ ErrorInv'
    BY <1>1 DEF SessionInv, ProcessInv, ErrorInv, Attached, Over
  <1>4. ReadInv'
    BY <1>1 DEF SessionInv, ReadInv, Over
  <1>5. EventsInv' /\ WorkerInv'
    BY <1>1, SupervisorKeepsWorker
  <1>6. InputInv'
    BY <1>1, InputStays DEF Early
  <1>7. DeliveryInv'
    <2>1. Kept' = Kept
      BY <1>1 DEF Kept
    <2> QED
      BY <1>1, <2>1 DEF SessionInv, DeliveryInv, Attached
  <1> QED
    BY <1>2, <1>3, <1>4, <1>5, <1>6, <1>7 DEF SessionInv

\* A process that has been waited for stays gone.
LEMMA ReapKeeps ==
    ASSUME SessionInv, Reap \/ ReapInBackground
    PROVE  SessionInv'
  <1>1. /\ \/ stage = "stopping" /\ stage' = "ended"
           \/ stage = "abandoned" /\ stage' = "abandoned"
        /\ worker.pc = "exited" /\ child' = "reaped"
        /\ UNCHANGED <<now, read, stdin, stdout, worker, events, cancelled, protocol, account,
                       error, pending, retained, sink, answer>>
    BY DEF Reap, ReapInBackground, processVars
  <1>2. SessionTypes'
    BY <1>1 DEF SessionInv, SessionTypes, Stages
  <1>3. ProcessInv' /\ ErrorInv'
    BY <1>1 DEF SessionInv, ProcessInv, ErrorInv, Attached, Over
  <1>4. ReadInv'
    BY <1>1 DEF SessionInv, ReadInv, ProcessInv, Over
  <1>5. EventsInv' /\ WorkerInv'
    BY <1>1, SupervisorKeepsWorker
  <1>6. InputInv'
    BY <1>1, InputStays DEF Early
  <1>7. DeliveryInv'
    <2>1. Kept' = Kept /\ SinkClosed' = SinkClosed
      BY <1>1 DEF Kept, SinkClosed
    <2> QED
      BY <1>1, <2>1 DEF SessionInv, DeliveryInv, Attached
  <1> QED
    BY <1>2, <1>3, <1>4, <1>5, <1>6, <1>7 DEF SessionInv

LEMMA KillKeeps ==
    ASSUME SessionInv, Kill
    PROVE  SessionInv'
  <1>1. /\ Exits("signal") /\ child = "running" /\ worker.pc # "exited"
        /\ UNCHANGED <<now, read, stdin, stdout>> /\ UNCHANGED sessionVars
    BY DEF Kill
  <1>2. SessionTypes /\ ProcessInv /\ ReadInv /\ ErrorInv /\ DeliveryInv /\ WorkerSide /\ Alive
    BY <1>1 DEF SessionInv, WorkerSide, ProcessInv, Alive
  <1>3. WorkerEffect
    BY <1>1, <1>2, ExitEffect DEF WorkerEffect, SameWorker, Grown, SessionTypes
  <1>a. StaysMute
    BY <1>1, <1>2, ExitEffect DEF StaysMute
  <1>4. SessionTypes' /\ ProcessInv' /\ ReadInv' /\ ErrorInv' /\ DeliveryInv'
    BY <1>1, <1>2, <1>3, <1>a, WorkerKeepsSession
  <1>5. UNCHANGED <<stdin, stage, protocol>>
    BY <1>1 DEF sessionVars
  <1>6. WorkerSide'
    BY <1>1, <1>2, <1>5, DeathKeeps
  <1> QED
    BY <1>4, <1>6 DEF SessionInv, WorkerSide

LEMMA AbandonKeeps ==
    ASSUME SessionInv, Abandon
    PROVE  SessionInv'
  <1>1. /\ stage # "returned" /\ stage' = "abandoned"
        /\ stdin' = [stdin EXCEPT !.closed = TRUE]
        /\ UNCHANGED <<now, read, stdout, worker, events, cancelled, protocol, account,
                       error, child, pending, retained, sink, answer>>
    BY DEF Abandon
  <1>2. stdin' \in InputState /\ stdin'.frames = stdin.frames
    BY <1>1, InputClosed DEF SessionInv, SessionTypes
  <1>3. SessionTypes'
    BY <1>1, <1>2 DEF SessionInv, SessionTypes, Stages
  <1>4. ProcessInv' /\ ErrorInv'
    BY <1>1 DEF SessionInv, ProcessInv, ErrorInv, Attached, Over
  <1>5. ReadInv'
    BY <1>1 DEF SessionInv, ReadInv, Over
  <1>6. EventsInv' /\ WorkerInv'
    BY <1>1, SupervisorKeepsWorker
  <1>7. InputInv'
    BY <1>1, <1>2, InputStays DEF Early
  <1>8. DeliveryInv'
    BY <1>1 DEF DeliveryInv, Attached
  <1> QED
    BY <1>3, <1>4, <1>5, <1>6, <1>7, <1>8 DEF SessionInv

LEMMA ObserveRefusedKeeps ==
    ASSUME SessionInv, ObserveRefused
    PROVE  SessionInv'
  <1>1. /\ Fail("AdapterOutput") /\ stage = "observing"
        /\ UNCHANGED <<now, read, stdout, worker, events, cancelled, protocol, account,
                       child, pending, retained, sink, answer>>
    BY DEF ObserveRefused
  <1>2. Failing("AdapterOutput")
    BY <1>1 DEF SessionInv, SessionTypes, Failing, Errors, Attached
  <1> QED
    BY <1>2, FailKeeps

LEMMA ObserveKeeps ==
    ASSUME SessionInv, Observe
    PROVE  SessionInv'
  <1>1. /\ stage = "observing" /\ stage' \in {"announcing", "reading"}
        /\ UNCHANGED <<now, read, stdin, stdout, worker, events, cancelled, protocol, account,
                       error, child, pending, retained, answer>>
    BY DEF Observe, processVars
  <1>2. SessionTypes'
    BY <1>1 DEF SessionInv, SessionTypes, Stages, BudgetedStages
  <1>3. ProcessInv' /\ ErrorInv'
    BY <1>1 DEF SessionInv, ProcessInv, ErrorInv, Attached, Over
  <1>4. ReadInv'
    BY <1>1 DEF SessionInv, ReadInv, Over
  <1>5. EventsInv' /\ WorkerInv'
    BY <1>1, SupervisorKeepsWorker
  <1>6. InputInv'
    BY <1>1, InputStays DEF Early
  <1>7. DeliveryInv'
    <2>1. Kept' = Kept /\ sink = Kept
      BY <1>1 DEF SessionInv, DeliveryInv, Attached, Kept
    <2>2. CASE FirstIncumbent
      <3>1. sink' = <<"incumbent">> /\ ~retained /\ stage' = "announcing"
        BY <2>1, <2>2 DEF Observe, FirstIncumbent, Kept
      <3> QED
        BY <1>1, <3>1 DEF DeliveryInv, Attached
    <2>3. CASE ~FirstIncumbent
      <3>1. stage' = "reading" /\ sink' = sink
        BY <2>3 DEF Observe
      <3>2. EmitIntermediate => retained \/ pending.kind # "incumbent"
        BY <2>3 DEF FirstIncumbent
      <3> QED
        BY <1>1, <2>1, <3>1, <3>2 DEF SessionInv, DeliveryInv, Attached
    <2> QED
      BY <2>2, <2>3
  <1> QED
    BY <1>2, <1>3, <1>4, <1>5, <1>6, <1>7 DEF SessionInv

LEMMA AnnounceKeeps ==
    ASSUME SessionInv, Announce
    PROVE  SessionInv'
  <1>1. /\ stage = "announcing"
        /\ UNCHANGED <<now, read, stdout, worker, events, cancelled, protocol, account,
                       child, pending, sink, answer>>
    BY DEF Announce
  <1>2. CASE SinkClosed
    <2>1. Fail("AdapterOutput") /\ retained' = retained
      BY <1>2 DEF Announce
    <2>2. Failing("AdapterOutput")
      BY <1>1, <1>2, <2>1 DEF SessionInv, SessionTypes, Failing, Errors, Attached
    <2> QED
      BY <2>2, FailKeeps
  <1>3. CASE ~SinkClosed
    <2>1. retained' = TRUE /\ stage' = "reading" /\ stdin' = stdin /\ error' = error
      BY <1>3 DEF Announce
    <2>2. SessionTypes'
      BY <1>1, <2>1 DEF SessionInv, SessionTypes, Stages, BudgetedStages
    <2>3. ProcessInv' /\ ErrorInv'
      BY <1>1, <2>1 DEF SessionInv, ProcessInv, ErrorInv, Attached, Over
    <2>4. ReadInv'
      BY <1>1, <2>1 DEF SessionInv, ReadInv, Over
    <2>5. EventsInv' /\ WorkerInv'
      BY <1>1, SupervisorKeepsWorker
    <2>6. InputInv'
      BY <1>1, <2>1, InputStays DEF Early
    <2>7. DeliveryInv'
      <3>1. Kept' = <<"incumbent">> /\ sink' = <<"incumbent">>
        BY <1>1, <2>1 DEF SessionInv, DeliveryInv, Kept
      <3> QED
        BY <2>1, <3>1 DEF DeliveryInv
    <2> QED
      BY <2>2, <2>3, <2>4, <2>5, <2>6, <2>7 DEF SessionInv
  <1> QED
    BY <1>2, <1>3

LEMMA SubmitFinalKeeps ==
    ASSUME SessionInv, SubmitFinal
    PROVE  SessionInv'
  <1>1. /\ stage = "ended" /\ stage' = "submitted" /\ FinalCandidate
        /\ sink' = Append(sink, "final")
        /\ UNCHANGED <<now, read, stdin, stdout, worker, events, cancelled, protocol, account,
                       error, child, pending, retained, answer>>
    BY DEF SubmitFinal, processVars
  <1>2. error = "none"
    BY <1>1 DEF FinalCandidate
  <1>3. SessionTypes'
    BY <1>1 DEF SessionInv, SessionTypes, Stages
  <1>4. ProcessInv' /\ ErrorInv'
    BY <1>1, <1>2 DEF SessionInv, ProcessInv, ErrorInv, Attached, Over
  <1>5. ReadInv'
    BY <1>1, <1>2 DEF SessionInv, ReadInv, Over
  <1>6. EventsInv' /\ WorkerInv'
    BY <1>1, SupervisorKeepsWorker
  <1>7. InputInv'
    BY <1>1, InputStays DEF Early
  <1>8. DeliveryInv'
    <2>1. Kept' = Kept /\ FinalCandidate' /\ sink = Kept
      BY <1>1, <1>2 DEF SessionInv, DeliveryInv, Kept, FinalCandidate
    <2>2. sink' = Append(Kept', "final")
      BY <1>1, <2>1
    <2> QED
      BY <1>1, <1>2, <2>1, <2>2 DEF SessionInv, DeliveryInv, Attached
  <1> QED
    BY <1>3, <1>4, <1>5, <1>6, <1>7, <1>8 DEF SessionInv

Claimed == {"OptimalityClaimed", "CandidateFound"}

\* What the answer says of the candidates the session has submitted.
LEMMA AnswerAgrees ==
    ASSUME SessionInv, Return
    PROVE  /\ Answer \in Answers
           /\ Answer \in Claimed => error = "none" /\ stage = "submitted"
           /\ Answer \in {"Failed", "Unavailable"} => SinkClosed \/ sink = <<>>
  <1>1. stage \in {"ended", "submitted"}
    BY DEF Return
  <1>2. Termination \in Answers /\ (Termination \in Claimed => FinalCandidate)
        /\ (FinalCandidate => Termination \notin {"Failed", "Unavailable"})
    <2>1. CASE error # "none"
      BY <2>1 DEF Termination, FailureTermination, Answers, Claimed, FinalCandidate
    <2>2. CASE error = "none"
      <3>1. PICK p : p = protocol
        OBVIOUS
      <3>2. p.phase \in {"Complete", "RejectedComplete"}
            /\ Admitted(p, read, stdout, account.events)
        BY <1>1, <2>2, <3>1 DEF SessionInv, ReadInv, Over
      <3>3. Termination = CompletedTermination(p)
        BY <2>2, <3>1 DEF Termination
      <3>4. FinalCandidate <=> p.evidence.kind = "finished" /\ p.evidence.outcome.candidate
        BY <2>2, <3>1 DEF FinalCandidate
      <3>5. CASE p.phase = "RejectedComplete"
        <4>1. p.evidence.kind = "none"
          BY <3>2, <3>5 DEF Admitted, Ended
        <4> QED
          BY <3>3, <3>4, <3>5, <4>1 DEF CompletedTermination, Answers, Claimed
      <3>6. CASE p.phase = "Complete" /\ p.evidence.kind = "finished"
        <4>1. PICK o : o = p.evidence.outcome
          OBVIOUS
        <4>2. o \in CoherentOutcome
          BY <3>2, <3>6, <4>1 DEF Admitted, Ended
        <4>3. Termination = FinishedTermination(o)
          BY <3>3, <3>6, <4>1 DEF CompletedTermination
        <4> QED
          BY <3>4, <3>6, <4>1, <4>2, <4>3, CoherentTerminations DEF Claimed
      <3>7. CASE p.phase = "Complete" /\ p.evidence.kind # "finished"
        <4>1. PICK code : code = p.evidence.code
          OBVIOUS
        <4>2. Termination = ErrorTermination(code)
          BY <3>3, <3>7, <4>1 DEF CompletedTermination
        <4> QED
          BY <3>4, <3>7, <4>2 DEF ErrorTermination, Answers, Claimed
      <3> QED
        BY <3>2, <3>5, <3>6, <3>7
    <2> QED
      BY <2>1, <2>2
  <1>3. Answer \in Answers
    BY <1>2 DEF Answer, Answers
  <1>4. ASSUME Answer \in Claimed
        PROVE  error = "none" /\ stage = "submitted"
    <2>1. Answer = Termination /\ ~(FinalCandidate /\ SinkClosed)
      BY <1>4 DEF Answer, Claimed
    <2>2. FinalCandidate /\ ~SinkClosed
      BY <1>2, <1>4, <2>1
    <2> QED
      BY <2>2 DEF Return, FinalCandidate
  <1>5. ASSUME Answer \in {"Failed", "Unavailable"}
        PROVE  SinkClosed \/ sink = <<>>
    <2>1. Answer = Termination /\ ~retained
      BY <1>5 DEF Answer
    <2>2. ~FinalCandidate
      BY <1>2, <1>5, <2>1
    <2>3. stage = "ended"
      BY <1>1, <2>2 DEF SessionInv, DeliveryInv
    <2> QED
      BY <2>1, <2>3 DEF SessionInv, DeliveryInv, Kept
  <1> QED
    BY <1>3, <1>4, <1>5

\* Returning an answer that fits what was submitted.
LEMMA ReturningKeeps ==
    ASSUME SessionInv, stage \in {"ended", "submitted"}, stage' = "returned",
           answer' \in Answers, answer' \in Claimed => error = "none" /\ stage = "submitted",
           UNCHANGED <<now, read, stdin, stdout, worker, events, cancelled, protocol, account,
                       error, child, pending, retained, sink>>
    PROVE  SessionInv'
  <1>3. SessionTypes'
    BY DEF SessionInv, SessionTypes, Stages
  <1>4. ProcessInv' /\ ErrorInv'
    BY DEF SessionInv, ProcessInv, ErrorInv, Attached, Over, Answers
  <1>5. ReadInv'
    BY DEF SessionInv, ReadInv, Over
  <1>6. EventsInv' /\ WorkerInv'
    BY SupervisorKeepsWorker
  <1>7. InputInv'
    BY InputStays DEF Early
  <1>8. DeliveryInv'
    <2>1. Kept' = Kept
      BY DEF Kept
    <2>2. answer' \in Claimed => sink = Append(Kept, "final")
      BY DEF SessionInv, DeliveryInv
    <2>3. answer' \in Claimed => error' = "none" /\ sink' = Append(Kept', "final")
      BY <2>1, <2>2
    <2> QED
      BY <2>1, <2>3 DEF SessionInv, DeliveryInv, Attached, Claimed
  <1> QED
    BY <1>3, <1>4, <1>5, <1>6, <1>7, <1>8 DEF SessionInv

LEMMA ReturnKeeps ==
    ASSUME SessionInv, Return
    PROVE  SessionInv'
  <1>1. /\ stage \in {"ended", "submitted"} /\ stage' = "returned" /\ answer' = Answer
        /\ UNCHANGED <<now, read, stdin, stdout, worker, events, cancelled, protocol, account,
                       error, child, pending, retained, sink>>
    BY DEF Return, processVars
  <1>2. /\ answer' \in Answers
        /\ answer' \in Claimed => error = "none" /\ stage = "submitted"
    BY <1>1, AnswerAgrees
  <1> QED
    BY <1>1, <1>2, ReturningKeeps

LEMMA RefuseEvidenceKeeps ==
    ASSUME SessionInv, RefuseEvidence
    PROVE  SessionInv'
  <1>1. /\ stage \in {"ended", "submitted"} /\ stage' = "returned" /\ answer' = "BackendError"
        /\ UNCHANGED <<now, read, stdin, stdout, worker, events, cancelled, protocol, account,
                       error, child, pending, retained, sink>>
    BY DEF RefuseEvidence, processVars
  <1>2. answer' \in Answers /\ answer' \notin Claimed
    BY <1>1 DEF Answers, Claimed
  <1> QED
    BY <1>1, <1>2, ReturningKeeps

-----------------------------------------------------------------------------
(***************************************************************************)
(* The invariant.                                                          *)
(***************************************************************************)
LEMMA InitSession ==
    ASSUME Init
    PROVE  SessionInv
  <1> USE DEF Init
  <1>1. /\ NotStarted \in WorkerState /\ NoEvents \in EventState
        /\ Frame("none") \in AnyFrame /\ Frame("none").kind = "none"
    BY FramesTyped, OwnFramesAreFrames, NoEventsTyped
    DEF NotStarted, WorkerState, Places, Outcomes, Codes, Kinds
  <1>2. /\ protocol \in ProtocolState /\ protocol.phase = "HandshakeRequest"
        /\ protocol.evidence = Frame("none")
    BY <1>1 DEF NewProtocol, ProtocolState, Phases
  <1>3. SessionTypes
    <2>1. stdin \in InputState /\ stdout \in Seq(AnyFrame) /\ Len(stdout) = 0
      BY DEF InputState
    <2>2. account.events \in Nat
      OBVIOUS
    <2>3. now \in Nat /\ read \in Nat /\ read =< Len(stdout)
      BY <2>1
    <2>4. cancelled \in BOOLEAN /\ retained \in BOOLEAN
      BY Zenon
    <2> QED
      BY <1>1, <1>2, <2>1, <2>2, <2>3, <2>4 DEF SessionTypes, Stages
  <1>4. ProcessInv /\ ErrorInv
    BY DEF ProcessInv, ErrorInv, NotStarted, Attached, Over
  <1>5. ReadInv
    <2>1. Admitted(protocol, read, stdout, account.events)
      BY <1>1, <1>2 DEF Admitted, Ended, Refused
    <2> QED
      BY <1>2, <2>1 DEF ReadInv, Over
  <1>6. EventsInv
    BY PolicyAssumption DEF EventsInv, NoEvents, NotStarted
  <1>7. WorkerInv
    BY DEF WorkerInv, NotStarted, Wrote
  <1>8. InputInv
    BY DEF InputInv, NotStarted
  <1>9. DeliveryInv
    BY DEF DeliveryInv, Kept, Attached
  <1> QED
    BY <1>3, <1>4, <1>5, <1>6, <1>7, <1>8, <1>9 DEF SessionInv

LEMMA StutterKeeps ==
    ASSUME SessionInv, UNCHANGED vars
    PROVE  SessionInv'
  <1>1. UNCHANGED <<now, read, stdin, stdout, worker, events, cancelled, stage, protocol,
                    account, error, child, pending, retained, sink, answer>>
    BY DEF vars, processVars, sessionVars
  <1>2. Kept' = Kept /\ SinkClosed' = SinkClosed /\ FinalCandidate' = FinalCandidate
    BY <1>1 DEF Kept, SinkClosed, FinalCandidate
  <1>3. SessionTypes' /\ ProcessInv' /\ ErrorInv'
    BY <1>1 DEF SessionInv, SessionTypes, ProcessInv, ErrorInv
  <1>4. ReadInv'
    BY <1>1 DEF SessionInv, ReadInv
  <1>5. EventsInv' /\ WorkerInv'
    BY <1>1, SupervisorKeepsWorker
  <1>6. InputInv'
    BY <1>1, InputStays
  <1>7. DeliveryInv'
    BY <1>1, <1>2 DEF SessionInv, DeliveryInv
  <1> QED
    BY <1>3, <1>4, <1>5, <1>6, <1>7 DEF SessionInv

\* Every step of the supervisor, the adapter, the worker and the clock keeps it.
LEMMA NextKeepsSession ==
    ASSUME SessionInv, [Next]_vars
    PROVE  SessionInv'
  <1>1. CASE Supervise
    BY <1>1, LaunchKeeps, LaunchFailsKeeps, BudgetKeeps, WriteHandshakeKeeps,
       ReadResponseKeeps, DispatchKeeps, ReadFrameKeeps, ReadEofKeeps, WaitForExitKeeps,
       FinishStderrKeeps, ReapKeeps, ObserveKeeps, ObserveRefusedKeeps, AnnounceKeeps,
       SubmitFinalKeeps, ReturnKeeps, NotAdmittedKeeps, ReadOversizedKeeps,
       RefuseEvidenceKeeps DEF Supervise
  <1>2. CASE WorkerStep /\ UNCHANGED sessionVars
    <2>1. SessionTypes /\ ProcessInv /\ ReadInv /\ ErrorInv /\ DeliveryInv /\ WorkerSide
      BY DEF SessionInv, WorkerSide
    <2>2. WorkerEffect
      BY <1>2, <2>1, WorkerHasEffect
    <2>3. SessionTypes' /\ ProcessInv' /\ ReadInv' /\ ErrorInv' /\ DeliveryInv'
      BY <1>2, <2>1, <2>2, MutedIsSilent, WorkerKeepsSession DEF WorkerSide
    <2>4. WorkerSide'
      BY <1>2, <2>1, WorkerKeepsWorker
    <2> QED
      BY <2>3, <2>4 DEF SessionInv, WorkerSide
  <1> QED
    BY <1>1, <1>2, KillKeeps, ReapKeeps, AbandonKeeps, TickKeeps, StutterKeeps DEF Next

(***************************************************************************)
(* The supervisor, the protocol, the worker and the adapter always agree   *)
(* about the process, the frames read and the candidates submitted.        *)
(***************************************************************************)
THEOREM SessionStaysSound == Spec => []SessionInv
  <1>1. Init => SessionInv
    BY InitSession
  <1>2. SessionInv /\ [Next]_vars => SessionInv'
    BY NextKeepsSession
  <1> QED
    BY <1>1, <1>2, PTL DEF Spec

-----------------------------------------------------------------------------
(***************************************************************************)
(* A session succeeds only on a complete, legal output of its own request  *)
(* and an exit with code zero, whatever a misbehaving worker writes        *)
(* (supervise_with_observer and ParentProtocol).                           *)
(***************************************************************************)
THEOREM SuccessIsCorroborated == Spec => []EvidenceCorroborated
  <1>1. SessionInv => EvidenceCorroborated
    <2> SUFFICES ASSUME SessionInv, SessionSucceeded
                 PROVE  /\ worker.exit = "zero"
                        /\ read = Len(stdout)
                        /\ \A i \in 1 .. Len(stdout) : stdout[i].own
                        /\ LegalOutput
      BY DEF EvidenceCorroborated
    <2>1. /\ error = "none" /\ protocol.phase \in {"Complete", "RejectedComplete"}
          /\ Admitted(protocol, read, stdout, account.events)
          /\ read = Len(stdout) /\ worker.exit = "zero"
      BY DEF SessionInv, ReadInv, SessionSucceeded, Over
    <2>2. \A i \in 1 .. Len(stdout) : stdout[i].own
      BY <2>1 DEF Admitted
    <2>3. LegalOutput
      BY <2>1 DEF Admitted, Opened, Ended, Refused, LegalOutput
    <2> QED
      BY <2>1, <2>2, <2>3
  <1> QED
    BY <1>1, SessionStaysSound, PTL

(***************************************************************************)
(* When the adapter answers, no process is left (stop_and_reap, on every   *)
(* path of the supervisor).                                                *)
(***************************************************************************)
THEOREM AnswersWithoutProcess == Spec => []ProcessGone
  <1>1. SessionInv => ProcessGone
    BY DEF SessionInv, SessionTypes, ProcessInv, ProcessGone, Alive, Over
  <1> QED
    BY <1>1, SessionStaysSound, PTL

(***************************************************************************)
(* A worker that keeps the protocol and does not crash is never stopped    *)
(* for a protocol violation or for a frame or event ceiling, for every     *)
(* policy whose frames cover its events (OutputAccounting, EventWriter).   *)
(***************************************************************************)
THEOREM ObedientNeverRefused == Spec => []ObedientWorkerAdmitted
  <1>1. SessionInv => ObedientWorkerAdmitted
    BY DEF SessionInv, ErrorInv, ObedientWorkerAdmitted
  <1> QED
    BY <1>1, SessionStaysSound, PTL

(***************************************************************************)
(* A claimed candidate of a worker that found a solution is preceded by    *)
(* the first one in the router's output (observe_worker, EventWriter).     *)
(***************************************************************************)
THEOREM FirstSolutionFirst == Spec => []FirstSolutionDelivered
  <1>1. SessionInv => FirstSolutionDelivered
    <2> SUFFICES ASSUME SessionInv, answer \in Claimed, EmitIntermediate, worker.found
                 PROVE  sink = <<"incumbent", "final">>
      BY DEF FirstSolutionDelivered, Claimed
    <2>1. stage = "returned" /\ error = "none" /\ sink = Append(Kept, "final")
      BY DEF SessionInv, ProcessInv, DeliveryInv, Claimed
    <2>2. /\ Admitted(protocol, read, stdout, account.events) /\ worker.exit = "zero"
          /\ read = Len(stdout)
      BY <2>1 DEF SessionInv, ReadInv, Over
    <2>3. ~worker.rogue /\ IncumbentIn(stdout)
      BY <2>2 DEF SessionInv, WorkerInv
    <2>4. retained
      BY <2>1, <2>2, <2>3 DEF SessionInv, DeliveryInv, IncumbentIn
    <2>5. sink = Append(<<"incumbent">>, "final")
      BY <2>1, <2>4 DEF Kept
    <2> QED
      BY <2>5, PairAppended
  <1> QED
    BY <1>1, SessionStaysSound, PTL

-----------------------------------------------------------------------------
(***************************************************************************)
(* The contract of BackendSession, step by step.                           *)
(***************************************************************************)
\* The last element of an output to which a final candidate was added.
LEMMA FinalIsLast ==
    ASSUME NEW s, s = Append(Kept, "final")
    PROVE  s # <<>> /\ Contract!Last(s) = "final"
  <1>1. PICK S : S = {"incumbent", "final"}
    OBVIOUS
  <1>2. PICK k : k = Kept
    OBVIOUS
  <1>3. k \in Seq(S) /\ "final" \in S
    BY <1>1, <1>2 DEF Kept
  <1>4. Len(s) = Len(k) + 1 /\ s[Len(k) + 1] = "final" /\ Len(k) \in Nat
    BY <1>2, <1>3, Appended
  <1>5. s # <<>> /\ s[Len(s)] = "final"
    BY <1>4
  <1> QED
    BY <1>5 DEF Contract!Last

\* A step that changes nothing the router sees.
LEMMA UnseenStep ==
    ASSUME UNCHANGED <<child, sink, answer, now, cancelled>>,
           stage' = "abandoned" <=> stage = "abandoned"
    PROVE  UNCHANGED Contract!sessionVariables
  BY DEF Contract!sessionVariables, ProcessOf, ReplyOf, SinkClosed

LEMMA LaunchStarts ==
    ASSUME SessionInv, Launch
    PROVE  Contract!StartProcess
  <1>1. child = "none" /\ answer = "none" /\ stage = "launch"
    BY DEF Launch, SessionInv, ProcessInv
  <1>2. child' = "running" /\ stage' = "handshake" /\ UNCHANGED <<sink, answer, now, cancelled>>
    BY DEF Launch
  <1> QED
    BY <1>1, <1>2 DEF Contract!StartProcess, ProcessOf, ReplyOf, SinkClosed

LEMMA WaitEnds ==
    ASSUME SessionInv, WaitForExit \/ Reap \/ ReapInBackground
    PROVE  Contract!EndProcess \/ UNCHANGED Contract!sessionVariables
  <1>1. /\ child \in {"running", "reaped"} /\ child' = "reaped"
        /\ stage' = "abandoned" <=> stage = "abandoned"
        /\ UNCHANGED <<sink, answer, now, cancelled>>
    BY DEF SessionInv, SessionTypes, ProcessInv, Attached, WaitForExit, Reap, ReapInBackground,
           Fail
  <1>2. CASE child = "running"
    BY <1>1, <1>2 DEF Contract!EndProcess, ProcessOf, ReplyOf, SinkClosed
  <1>3. CASE child = "reaped"
    BY <1>1, <1>3, UnseenStep
  <1> QED
    BY <1>1, <1>2, <1>3

LEMMA TimeCloses ==
    ASSUME SessionInv, Tick \/ Cancel
    PROVE  Contract!CloseOutput \/ UNCHANGED Contract!sessionVariables
  <1>1. /\ UNCHANGED <<child, sink, answer, stage>>
        /\ now \in Nat /\ now' >= now /\ now' \in Nat /\ (cancelled => cancelled')
    BY DEF Tick, Cancel, sessionVars, SessionInv, SessionTypes
  <1>2. SinkClosed => SinkClosed'
    BY <1>1, LimitAssumption DEF SinkClosed
  <1>3. CASE SinkClosed'
    BY <1>1, <1>3 DEF Contract!CloseOutput, ProcessOf, ReplyOf
  <1>4. CASE ~SinkClosed'
    <2>1. SinkClosed' = SinkClosed
      BY <1>2, <1>4 DEF SinkClosed
    <2> QED
      BY <1>1, <2>1 DEF Contract!sessionVariables, ProcessOf, ReplyOf
  <1> QED
    BY <1>3, <1>4

LEMMA ObserveOffers ==
    ASSUME SessionInv, Observe
    PROVE  Contract!Offer \/ UNCHANGED Contract!sessionVariables
  <1>1. /\ stage = "observing" /\ stage' \in {"announcing", "reading"}
        /\ UNCHANGED <<child, answer, now, cancelled>>
    BY DEF Observe
  <1>2. child = "running" /\ answer = "none" /\ sink = Kept
    BY <1>1 DEF SessionInv, ProcessInv, DeliveryInv, Attached
  <1>3. CASE FirstIncumbent
    <2>1. ~SinkClosed /\ sink = <<>> /\ sink' = <<"incumbent">>
      BY <1>2, <1>3 DEF Observe, FirstIncumbent, Kept
    <2> QED
      BY <1>1, <1>2, <2>1 DEF Contract!Offer, ProcessOf, ReplyOf, SinkClosed
  <1>4. CASE ~FirstIncumbent
    <2>1. sink' = sink
      BY <1>4 DEF Observe
    <2> QED
      BY <1>1, <2>1, UnseenStep
  <1> QED
    BY <1>3, <1>4

LEMMA SubmitOffersFinal ==
    ASSUME SessionInv, SubmitFinal
    PROVE  Contract!OfferFinal
  <1>1. /\ stage = "ended" /\ stage' = "submitted" /\ FinalCandidate /\ ~SinkClosed
        /\ sink' = Append(sink, "final") /\ UNCHANGED <<child, answer, now, cancelled>>
    BY DEF SubmitFinal
  <1>2. child = "reaped" /\ answer = "none" /\ sink = Kept
    BY <1>1 DEF SessionInv, ProcessInv, DeliveryInv, Over, FinalCandidate
  <1>3. \A i \in 1 .. Len(sink) : sink[i] # "final"
    BY <1>2 DEF Kept
  <1> QED
    BY <1>1, <1>2, <1>3 DEF Contract!OfferFinal, ProcessOf, ReplyOf, SinkClosed

LEMMA ReturnReplies ==
    ASSUME SessionInv, Return
    PROVE  \E r \in Contract!Replies : Contract!Reply(r)
  <1>1. /\ stage \in {"ended", "submitted"} /\ stage' = "returned" /\ answer' = Answer
        /\ UNCHANGED <<child, sink, now, cancelled>>
    BY DEF Return
  <1>2. child # "running" /\ answer = "none"
    BY <1>1 DEF SessionInv, ProcessInv, Over
  <1>3. PICK r : r = Answer
    OBVIOUS
  <1>4. /\ r \in Answers
        /\ r \in Claimed => error = "none" /\ stage = "submitted"
        /\ r \in {"Failed", "Unavailable"} => SinkClosed \/ sink = <<>>
    BY <1>3, AnswerAgrees
  <1>5. r \in Claimed => sink # <<>> /\ Contract!Last(sink) = "final"
    BY <1>4, FinalIsLast DEF SessionInv, DeliveryInv
  <1>6. Contract!Fits(r)
    BY <1>4, <1>5 DEF Contract!Fits, Contract!Claims, Claimed
  <1>7. Contract!Reply(r)
    BY <1>1, <1>2, <1>3, <1>6 DEF Contract!Reply, ProcessOf, ReplyOf, SinkClosed
  <1>8. r \in Contract!Replies
    BY <1>4 DEF Contract!Replies, Contract!Claims, Answers
  <1> QED
    BY <1>7, <1>8

\* An error is an answer that fits whatever was offered.
LEMMA EndsWithError ==
    ASSUME SessionInv, NotAdmitted \/ RefuseEvidence
    PROVE  \E r \in Contract!Replies : Contract!Reply(r)
  <1>1. PICK r \in {"BackendError", "TimeLimit"} : answer' = r
    BY DEF NotAdmitted, RefuseEvidence
  <1>2. /\ stage \in {"launch", "ended", "submitted"} /\ stage' = "returned"
        /\ UNCHANGED <<child, sink, now, cancelled>>
    BY DEF NotAdmitted, RefuseEvidence
  <1>3. child # "running" /\ answer = "none"
    BY <1>2 DEF SessionInv, ProcessInv, Over
  <1>4. Contract!Fits(r)
    BY DEF Contract!Fits, Contract!Claims
  <1>5. Contract!Reply(r)
    BY <1>1, <1>2, <1>3, <1>4 DEF Contract!Reply, ProcessOf, ReplyOf, SinkClosed
  <1> QED
    BY <1>5 DEF Contract!Replies, Contract!Claims

LEMMA AbandonGivesUp ==
    ASSUME SessionInv, Abandon
    PROVE  Contract!GiveUp
  <1>1. /\ stage \notin {"returned", "abandoned"} /\ stage' = "abandoned" /\ SinkClosed
        /\ UNCHANGED <<child, sink, answer, now, cancelled>>
    BY DEF Abandon, SinkClosed
  <1>2. answer = "none"
    BY <1>1 DEF SessionInv, ProcessInv
  <1> QED
    BY <1>1, <1>2 DEF Contract!GiveUp, ProcessOf, ReplyOf, SinkClosed

LEMMA StepKeepsContract ==
    ASSUME SessionInv, [Next]_vars
    PROVE  Contract!SessionStep \/ UNCHANGED Contract!sessionVariables
  <1> DEFINE Unseen == /\ UNCHANGED <<child, sink, answer, now, cancelled>>
                       /\ stage' = "abandoned" <=> stage = "abandoned"
  <1>1. ASSUME Unseen
        PROVE  UNCHANGED Contract!sessionVariables
    BY <1>1, UnseenStep
  <1>2. CASE LaunchFails \/ BudgetEnds \/ WriteHandshake \/ ReadResponse
    <2>1. Unseen
      BY <1>2 DEF LaunchFails, BudgetEnds, BudgetedStages, WriteHandshake, ReadResponse, Fail
    <2> QED
      BY <1>1, <2>1
  <1>3. CASE Dispatch \/ ReadFrame \/ ReadOversized \/ ReadEof \/ FinishStderr
    <2>1. Unseen
      BY <1>3 DEF Dispatch, ReadFrame, ReadOversized, ReadEof, FinishStderr, Fail
    <2> QED
      BY <1>1, <2>1
  <1>4. CASE ObserveRefused \/ Announce
    <2>1. Unseen
      BY <1>4 DEF ObserveRefused, Announce, Fail
    <2> QED
      BY <1>1, <2>1
  <1>5. CASE Kill \/ (WorkerStep /\ UNCHANGED sessionVars) \/ UNCHANGED vars
    <2>1. UNCHANGED sessionVars
      BY <1>5 DEF Kill, vars
    <2>2. now' = now
      <3>1. CASE WorkerStep
        BY <3>1, WorkerHasEffect DEF SessionInv, WorkerEffect
      <3> QED
        BY <1>5, <3>1 DEF Kill, vars
    <2>3. Unseen
      BY <2>1, <2>2 DEF sessionVars
    <2> QED
      BY <1>1, <2>3
  <1> HIDE DEF Unseen
  <1>6. CASE Launch
    BY <1>6, LaunchStarts DEF Contract!SessionStep
  <1>7. CASE WaitForExit \/ Reap \/ ReapInBackground
    BY <1>7, WaitEnds DEF Contract!SessionStep
  <1>8. CASE Tick \/ Cancel
    BY <1>8, TimeCloses DEF Contract!SessionStep
  <1>9. CASE Observe
    BY <1>9, ObserveOffers DEF Contract!SessionStep
  <1>10. CASE SubmitFinal
    BY <1>10, SubmitOffersFinal DEF Contract!SessionStep
  <1>11. CASE Return
    BY <1>11, ReturnReplies DEF Contract!SessionStep
  <1>12. CASE Abandon
    BY <1>12, AbandonGivesUp DEF Contract!SessionStep
  <1>13. CASE NotAdmitted \/ RefuseEvidence
    BY <1>13, EndsWithError DEF Contract!SessionStep
  <1> QED
    BY <1>2, <1>3, <1>4, <1>5, <1>6, <1>7, <1>8, <1>9, <1>10, <1>11, <1>12, <1>13
    DEF Next, Supervise

LEMMA InitKeepsContract ==
    ASSUME Init
    PROVE  Contract!Begin
  <1>1. SinkClosed \in BOOLEAN
    BY DEF SinkClosed
  <1> QED
    BY <1>1 DEF Init, Contract!Begin, ProcessOf, ReplyOf

(***************************************************************************)
(* Supervisor and adapter implement the safety part of BackendSession,     *)
(* which the router's model relies on: a process only before the answer,   *)
(* one incumbent at most, a claim only with its final candidate in the     *)
(* output, a failure only without one (supervise_with_observer and         *)
(* solve_request).                                                         *)
(***************************************************************************)
THEOREM ImplementsContract == Spec => Contract!SessionSafety
  <1>1. Init => Contract!Begin
    BY InitKeepsContract
  <1>2. SessionInv /\ [Next]_vars => [Contract!SessionStep]_(Contract!sessionVariables)
    BY StepKeepsContract
  <1> QED
    BY <1>1, <1>2, SessionStaysSound, PTL DEF Spec, Contract!SessionSafety

=============================================================================
