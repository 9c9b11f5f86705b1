------------------------- MODULE CandidateReviewer -------------------------
(***************************************************************************)
(* RouterCandidateReviewer: what the router is told about each candidate   *)
(* and which decision the solve pipeline finds when routing is over.       *)
(*                                                                         *)
(* A candidate is what a backend submitted.  Whether it satisfies the      *)
(* scenario (sound), its score (less is better) and whether the objective  *)
(* its backend claims is that score (matches) are what the independent     *)
(* verification establishes; the router sees none of them.                 *)
(***************************************************************************)
EXTENDS Naturals

NoDecision == [kind |-> "none"]

\* decision, established_alarm, a failed sum of review_timings, and the result
\* handed out as first accepted.
NewReviewer == [decision |-> NoDecision, alarm |-> FALSE, overflow |-> FALSE,
                preview |-> NoDecision]

Accepted(c) == [kind |-> "Accepted", candidate |-> c]

HasAccepted(r) == r.decision.kind = "Accepted"

(***************************************************************************)
(* What one run of the acceptance review may come to.  Verification works  *)
(* under the control of the solve: only when that has stopped is it halted *)
(* before it starts, or interrupted.  The identity of the result may be    *)
(* refused before the review; after it, the sum of the times may overflow  *)
(* and the scores of two results may turn out not to be comparable.        *)
(***************************************************************************)
Verdicts(r, c, stopped) ==
    {IF c.sound THEN "accepted" ELSE "quarantined", "resources", "clock", "unnumbered", "overflow"}
    \cup {v \in {"halted", "interrupted"} : stopped}
    \cup {v \in {"alarm and overflow"} : ~c.sound}
    \cup {v \in {"incomparable"} : c.sound /\ HasAccepted(r)}

Worse(c, than) == c.score > than.score

Result(r, review) == [reviewer |-> r, review |-> review]

Decided(r, kind) == [r EXCEPT !.decision = [kind |-> kind]]

\* Bug: the latest accepted candidate replaces a better one.
ReconcileLatest(r, c) ==
    Result([r EXCEPT !.decision = Accepted(c)], IF c.matches THEN "Verified" ELSE "VerifiedOnly")

\* reconcile_accepted_decision: a worse candidate does not replace a better one.
Reconcile(r, c) ==
    IF HasAccepted(r) /\ Worse(c, r.decision.candidate)
    THEN Result(r, "Awaiting")
    ELSE Result([r EXCEPT !.decision = Accepted(c)],
                IF c.matches THEN "Verified" ELSE "VerifiedOnly")

\* with_first_accepted: told once, and not after the solve has stopped.
Previewed(r, c, stopped) ==
    IF r.preview = NoDecision /\ ~stopped THEN [r EXCEPT !.preview = Accepted(c)] ELSE r

Alarmed(r) == [Decided(r, "Quarantined") EXCEPT !.alarm = TRUE]

\* The times cannot be summed: what was decided before stays.
Overflowed(r, alarm) == [r EXCEPT !.overflow = TRUE, !.alarm = alarm]

\* review, for a verdict v; an alarm stays, except one about the clock.
Review(r, c, v, stopped, interruption) ==
    CASE r.alarm -> Result(r, "Failed")
      [] v = "halted" -> Result(r, interruption)
      [] v = "unnumbered" -> Result(r, "Failed")
      [] v = "overflow" -> Result(Overflowed(r, FALSE), "Failed")
      [] v = "alarm and overflow" -> Result(Overflowed(r, TRUE), "Failed")
      [] v = "accepted" -> Reconcile(Previewed(r, c, stopped), c)
      [] v \in {"quarantined", "incomparable"} -> Result(Alarmed(r), "Failed")
      [] v = "clock" -> Result(Decided(r, "Quarantined"), "Failed")
      [] v = "resources" -> Result(Decided(r, "ResourceLimit"), "ResourceLimit")
      [] v = "interrupted" -> Result(Decided(r, "Interrupted"), interruption)

=============================================================================
