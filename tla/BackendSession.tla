--------------------------- MODULE BackendSession ---------------------------
(***************************************************************************)
(* What the router may rely on when it asks the OR-Tools backend to solve: *)
(* at most one incumbent is offered while the solver process lives, and a  *)
(* final candidate and one answer once no process is left; a claimed       *)
(* candidate is in the router's output, and a failure leaves none there.   *)
(* A backend the router gives up on says nothing more, and its process     *)
(* ends later.                                                             *)
(***************************************************************************)
EXTENDS Naturals, Sequences, SequencesExt

VARIABLES
    process,    \* the solver process: "absent", "live" or "gone"
    offered,    \* candidates in the router's output
    closed,     \* the output takes nothing any more
    reply       \* the answer, "none" before it and "abandoned" without one

sessionVariables == <<process, offered, closed, reply>>

Claims == {"OptimalityClaimed", "CandidateFound"}

Replies == Claims \cup {"InfeasibilityClaimed", "TimeLimit", "Cancelled", "InvalidModel",
                        "Unavailable", "Failed", "BackendError"}

Begin ==
    /\ process = "absent"
    /\ offered = <<>>
    /\ closed \in BOOLEAN
    /\ reply = "none"

StartProcess ==
    /\ process = "absent" /\ reply = "none"
    /\ process' = "live"
    /\ UNCHANGED <<offered, closed, reply>>

EndProcess ==
    /\ process = "live"
    /\ process' = "gone"
    /\ UNCHANGED <<offered, closed, reply>>

CloseOutput ==
    /\ closed' = TRUE
    /\ UNCHANGED <<process, offered, reply>>

Offer ==
    /\ process = "live" /\ reply = "none" /\ ~closed
    /\ offered = <<>>
    /\ offered' = <<"incumbent">>
    /\ UNCHANGED <<process, closed, reply>>

OfferFinal ==
    /\ process = "gone" /\ reply = "none" /\ ~closed
    /\ \A i \in 1 .. Len(offered) : offered[i] # "final"
    /\ offered' = Append(offered, "final")
    /\ UNCHANGED <<process, closed, reply>>

\* The answer agrees with the candidates in the output.
Fits(r) ==
    /\ r \in Claims => offered # <<>> /\ Last(offered) = "final"
    /\ r \in {"Failed", "Unavailable"} => closed \/ offered = <<>>

Reply(r) ==
    /\ process # "live" /\ reply = "none"
    /\ Fits(r)
    /\ reply' = r
    /\ UNCHANGED <<process, offered, closed>>

GiveUp ==
    /\ reply = "none"
    /\ closed
    /\ reply' = "abandoned"
    /\ UNCHANGED <<process, offered, closed>>

SessionStep ==
    \/ StartProcess
    \/ EndProcess
    \/ CloseOutput
    \/ Offer
    \/ OfferFinal
    \/ \E r \in Replies : Reply(r)
    \/ GiveUp

SessionSafety == Begin /\ [][SessionStep]_sessionVariables

SessionSpec == SessionSafety /\ WF_sessionVariables(EndProcess)

=============================================================================
