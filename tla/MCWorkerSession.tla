--------------------------- MODULE MCWorkerSession ---------------------------
(***************************************************************************)
(* Instances of WorkerSession for TLC.                                     *)
(***************************************************************************)
EXTENDS WorkerSession

\* What a misbehaving worker writes: every kind of frame, one that names
\* another request, and outcomes that do not agree with themselves.
AnyKind ==
    {Frame(kind) : kind \in {"accepted", "rejected", "started", "progress", "incumbent"}}
    \cup {[Frame("incumbent") EXCEPT !.own = FALSE],
          ErrorFrame("Internal"),
          FinishedFrame(SearchLimit, Outcome(4, "Optimal", "Optimal", TRUE)),
          FinishedFrame(SearchLimit, Outcome(2, "Feasible", "TimeLimit", FALSE)),
          FinishedFrame(SearchLimit + 1, Outcome(4, "Optimal", "Optimal", TRUE))}

NoFrames == {}

=============================================================================
