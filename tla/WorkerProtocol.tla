--------------------------- MODULE WorkerProtocol ---------------------------
(***************************************************************************)
(* The messages of one solver-worker session and the parent's view of it:  *)
(* ParentProtocol of eutheto-protocol as a transition function, and the    *)
(* classification of the terminal frame it admits.                         *)
(*                                                                         *)
(* A frame is its kind; "own" when it names this session's request and     *)
(* passes every check of its fields (capabilities, finite numbers, the     *)
(* requested projections, fingerprints); the wall-time limit its parameter *)
(* hash covers; the solver's outcome of a finished frame and the code of   *)
(* an error frame.                                                         *)
(***************************************************************************)
EXTENDS Integers

CONSTANT NoOutcome      \* a frame that carries no solver outcome

Frame(kind) == [kind |-> kind, own |-> TRUE, wall |-> 0, outcome |-> NoOutcome,
                code |-> "none"]

SolveRequest(wall) == [Frame("solve") EXCEPT !.wall = wall]

FinishedFrame(wall, outcome) == [Frame("finished") EXCEPT !.wall = wall, !.outcome = outcome]

ErrorFrame(code) == [Frame("error") EXCEPT !.code = code]

Outcome(raw, status, reason, candidate) ==
    [raw |-> raw, status |-> status, reason |-> reason, candidate |-> candidate]

-----------------------------------------------------------------------------
(***************************************************************************)
(* finished_outcome_is_coherent: the raw CP-SAT status, the normalized     *)
(* status, the reason and the presence of a candidate must agree.          *)
(***************************************************************************)
CoherentOutcome ==
    {Outcome(4, "Optimal", "Optimal", TRUE),
     Outcome(3, "Infeasible", "Infeasible", FALSE),
     Outcome(1, "InvalidModel", "InvalidModel", FALSE),
     Outcome(0, "Failed", "InternalError", FALSE)}
    \cup {Outcome(2, "Feasible", reason, TRUE) :
              reason \in {"TimeLimit", "SolutionLimit", "MemoryLimit", "Cancelled"}}
    \cup {Outcome(0, "NoSolution", reason, FALSE) :
              reason \in {"TimeLimit", "MemoryLimit", "Unknown"}}
    \cup {Outcome(0, "Cancelled", "Cancelled", candidate) : candidate \in BOOLEAN}

-----------------------------------------------------------------------------
(***************************************************************************)
(* ParentProtocol: its phase, the wall-time limit of the request, and the  *)
(* terminal frame once there is one.                                       *)
(***************************************************************************)
NewProtocol == [phase |-> "HandshakeRequest", wall |-> 0, evidence |-> Frame("none")]

Failed(p) == [p EXCEPT !.phase = "Failed"]

OnParentFrame(p, f) ==
    CASE p.phase = "HandshakeRequest" /\ f.kind = "handshake" ->
             [p EXCEPT !.phase = "HandshakeResponse"]
      [] p.phase = "SolveRequest" /\ f.kind = "solve" /\ f.wall > 0 ->
             [p EXCEPT !.phase = "Started", !.wall = f.wall]
      [] OTHER -> Failed(p)

\* Bug: the hash of the terminal frame is checked against the limit asked for.
KeepStartedWallTime(p, wall) == p

\* tighten_started_wall_time_millis.
TightenWallTime(p, wall) ==
    IF p.phase = "Started" /\ wall > 0 /\ wall =< p.wall
    THEN [p EXCEPT !.wall = wall]
    ELSE Failed(p)

\* Which worker frame each phase expects, and the phase it leads to.
WorkerSteps ==
    {<<"HandshakeResponse", "accepted", "SolveRequest">>,
     <<"HandshakeResponse", "rejected", "Rejected">>,
     <<"Started", "started", "Running">>,
     <<"Running", "progress", "Running">>,
     <<"Running", "incumbent", "Running">>,
     <<"Running", "finished", "Terminal">>,
     <<"Running", "error", "Terminal">>}

ValidWorkerFrame(p, f) ==
    /\ f.own
    /\ f.kind = "finished" => f.outcome \in CoherentOutcome /\ f.wall = p.wall

OnWorkerFrame(p, f) ==
    LET steps == {t \in WorkerSteps : t[1] = p.phase /\ t[2] = f.kind}
    IN  IF steps = {} \/ ~ValidWorkerFrame(p, f)
        THEN Failed(p)
        ELSE [p EXCEPT !.phase = (CHOOSE t \in steps : TRUE)[3],
                       !.evidence = IF f.kind \in {"finished", "error"} THEN f ELSE @]

OnEof(p) ==
    CASE p.phase = "Terminal" -> [p EXCEPT !.phase = "Eof"]
      [] p.phase = "Rejected" -> [p EXCEPT !.phase = "RejectedEof"]
      [] OTHER -> Failed(p)

\* Bug: the exit code is not compared with the terminal frame.
OnAnyExit(p, code) ==
    CASE p.phase = "Eof" -> [p EXCEPT !.phase = "Complete"]
      [] p.phase = "RejectedEof" -> [p EXCEPT !.phase = "RejectedComplete"]
      [] OTHER -> Failed(p)

OnExit(p, code) ==
    CASE p.phase = "Eof" /\ code = "zero" -> [p EXCEPT !.phase = "Complete"]
      [] p.phase = "RejectedEof" /\ code = "zero" -> [p EXCEPT !.phase = "RejectedComplete"]
      [] OTHER -> Failed(p)

-----------------------------------------------------------------------------
(***************************************************************************)
(* normalize_terminal followed by normalized_termination: what a completed *)
(* session claims.                                                         *)
(***************************************************************************)
FinishedTermination(o) ==
    CASE o.status = "Optimal" /\ o.reason = "Optimal" -> "OptimalityClaimed"
      [] o.status = "Feasible" /\ o.reason \in {"TimeLimit", "SolutionLimit", "MemoryLimit"} ->
             "CandidateFound"
      [] o.status = "Infeasible" /\ o.reason = "Infeasible" -> "InfeasibilityClaimed"
      [] o.status = "NoSolution" /\ o.reason \in {"TimeLimit", "MemoryLimit"} -> "TimeLimit"
      [] o.status \in {"Feasible", "Cancelled"} /\ o.reason = "Cancelled" -> "Cancelled"
      [] o.status = "InvalidModel" /\ o.reason = "InvalidModel" -> "InvalidModel"
      [] OTHER -> "Failed"

ErrorTermination(code) ==
    CASE code \in {"UnsupportedModel", "InvalidModel", "InvalidParameters"} -> "InvalidModel"
      [] code = "ResourceLimit" -> "TimeLimit"
      [] code = "OrtoolsInitialization" -> "Unavailable"
      [] OTHER -> "Failed"

CompletedTermination(p) ==
    CASE p.phase = "RejectedComplete" -> "Unavailable"
      [] p.evidence.kind = "finished" -> FinishedTermination(p.evidence.outcome)
      [] OTHER -> ErrorTermination(p.evidence.code)

=============================================================================
