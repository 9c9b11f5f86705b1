----------------------- MODULE CounterfactualPromise -----------------------
(***************************************************************************)
(* What a counterfactual job promises to whoever asked for it: a job ends  *)
(* once, together with the solve run it owns, and a recorded cancellation  *)
(* is the last word unless the run had proved the condition impossible     *)
(* before it, or a verification alarm has to be kept.                      *)
(***************************************************************************)
CONSTANT Job

VARIABLES
    state,   \* state[j]: the state of the job's row, "absent" without one
    asked,   \* asked[j]: a cancellation is recorded
    answer   \* answer[j]: how its derived run stands: "none", "open" or its outcome

Terminal == {"completed", "failed", "cancelled", "interrupted"}

\* The outcomes of a derived run under which a job may end in a state.
Outcomes == [completed   |-> {"accepted", "impossible", "undistinguished"},
             failed      |-> {"failed", "alarm"},
             cancelled   |-> {"cancelled", "interrupted"},
             interrupted |-> {"interrupted"}]

\* The outcomes that stand against a cancellation recorded before them.
Overriding == {"impossible", "alarm"}

Init ==
    /\ state = [j \in Job |-> "absent"]
    /\ asked = [j \in Job |-> FALSE]
    /\ answer = [j \in Job |-> "none"]

Becomes(j, s, c, a) ==
    /\ state' = [state EXCEPT ![j] = s]
    /\ asked' = [asked EXCEPT ![j] = c]
    /\ answer' = [answer EXCEPT ![j] = a]

Queue(j) == state[j] = "absent" /\ Becomes(j, "queued", FALSE, "none")

Start(j) == state[j] = "queued" /\ Becomes(j, "running", FALSE, "none")

Bind(j) ==
    /\ state[j] = "running" /\ ~asked[j] /\ answer[j] = "none"
    /\ Becomes(j, "running", FALSE, "open")

Ask(j) ==
    /\ state[j] = "running" /\ ~asked[j]
    /\ Becomes(j, "running", TRUE, answer[j])

\* A job that never started is refused or withdrawn.
EndQueued(j) ==
    /\ state[j] = "queued"
    /\ \/ Becomes(j, "failed", FALSE, "none")
       \/ Becomes(j, "cancelled", TRUE, "none")

\* A running job without a run ends alone, and never with an answer.
EndUnbound(j) ==
    /\ state[j] = "running" /\ answer[j] = "none"
    /\ \E s \in IF asked[j] THEN {"cancelled"} ELSE {"failed", "interrupted"} :
           Becomes(j, s, asked[j], "none")

\* A job with a run ends in the step that ends the run.
EndBound(j) ==
    /\ state[j] = "running" /\ answer[j] = "open"
    /\ \E s \in Terminal : \E a \in Outcomes[s] :
           /\ asked[j] => s = "cancelled" \/ a \in Overriding
           /\ s = "cancelled" => asked[j]
           /\ Becomes(j, s, asked[j], a)

\* The scenario is deleted, and every job and run with it.
Forget == Init'

Next ==
    \/ Forget
    \/ \E j \in Job : Queue(j) \/ Start(j) \/ Bind(j) \/ Ask(j)
                      \/ EndQueued(j) \/ EndUnbound(j) \/ EndBound(j)

Spec == Init /\ [][Next]_<<state, asked, answer>>

=============================================================================
