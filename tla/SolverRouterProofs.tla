------------------------- MODULE SolverRouterProofs -------------------------
(***************************************************************************)
(* The safety properties of SolverRouter, proved for any order of backends *)
(* and any limits.                                                         *)
(*                                                                         *)
(* RouterInv ties together what several parts of the router know: which    *)
(* candidate the reviewer has accepted against the early review of the run *)
(* (ReviewsOK), which reading of the clock stopped the run (StopsOK), what *)
(* routing ended with (ResultOK), what the attempts have spent of the one  *)
(* allowance (AllowanceOK) and what a reliable backend has done so far     *)
(* (ReliableOK).  Every action keeps it; the properties follow from it.    *)
(***************************************************************************)
EXTENDS SolverRouter, WellFoundedInduction, TLAPS

(***************************************************************************)
(* Types.                                                                  *)
(***************************************************************************)
Candidate == [role : {"incumbent", "final"}, sequence : Nat, sound : BOOLEAN, score : Nat,
              matches : BOOLEAN]

Completion == Completions \cup {NoCompletion, [kind |-> "timeout"]}

EarlyReviews == {"Verified", "VerifiedOnly", "Failed", "ResourceLimit", "Cancelled",
                 "DeadlineExceeded"}

Rejections == {"none", "limit", "invalid"} \cup BudgetStops

BackendRun ==
    [candidates : Seq(Candidate), used : [Counted -> Nat], early : EarlyReviews \cup {NoReview},
     rejection : Rejections, completion : Completion,
     stop : {"none"} \cup BudgetStops, next : Nat]

Recordable == {"PreflightRejected", "Stopped", "BackendError", "BackendOutcome",
               "OutcomeContractFailure", "Reviewed"}

Attempt == [termination : Recordable, fallback : BOOLEAN, used : [Outputs -> Nat]]

Decision == [kind : {"none", "Quarantined", "ResourceLimit", "Interrupted"}]
            \cup [kind : {"Accepted"}, candidate : Candidate]

Reviewer == [decision : Decision, alarm : BOOLEAN, overflow : BOOLEAN, preview : Decision]

Typed ==
    /\ now \in Nat /\ cancelled \in BOOLEAN /\ options \in [collect : BOOLEAN]
    /\ position \in 1 .. Backends
    /\ remaining \in [Outputs -> Nat]
    /\ dispatch \in [start : Nat, limit : Nat, search : Nat]
    /\ run \in BackendRun
    /\ attempts \in Seq(Attempt)
    /\ reviewer \in Reviewer

(***************************************************************************)
(* The reviewer against the early review it gave.                          *)
(***************************************************************************)
Good == {"Verified", "VerifiedOnly"}

EarlyOK(e, r, c) ==
    /\ e \in Good => /\ r.decision = Accepted(c) /\ c.sound /\ ~r.alarm
                     /\ r.preview \in {NoDecision, Accepted(c)}
                     /\ e = "Verified" => c.matches
    /\ e \notin Good => ~HasAccepted(r) /\ r.preview = NoDecision /\ (r.alarm => e = "Failed")

After == {"empty", "judging", "reviewed", "reviewing", "verifying"}

Over == {"done", "published"}

ReviewsOK ==
    pc \notin Over =>
        /\ terminal = NoTerminal
        /\ run.early = NoReview => reviewer = NewReviewer
        /\ run.early # NoReview =>
               /\ options.collect /\ run.candidates # <<>>
               /\ EarlyOK(run.early, reviewer, run.candidates[1])
        /\ pc \in {"attempt", "preflight", "empty"} => run.candidates = <<>>
        /\ pc = "previewing" => run.early = NoReview /\ options.collect
        /\ pc \in {"previewing", "judging", "reviewed", "reviewing", "verifying"} =>
               run.candidates # <<>>
        /\ pc \in After \cup {"collected"} => ~FirstPending
        /\ pc \in {"reviewing", "verifying"} =>
               run.next = IF options.collect THEN Len(run.candidates) ELSE 1
        /\ pc \in {"reviewing", "verifying"} => run.early # "Failed"
        /\ pc = "reviewed" => /\ run.next = Len(run.candidates) /\ run.early # NoReview
                              /\ run.early = "Failed" \/ Len(run.candidates) = 1
        /\ pc \in {"preflight", "running", "previewing", "collected", "judging"} => run.next = 1
        /\ pc = "preflight" => run = FreshRun

(***************************************************************************)
(* What stopped a backend, and what is known once the router has looked.   *)
(***************************************************************************)
Told(reason) == (reason = "Cancelled" => cancelled) /\ (reason = "DeadlineExceeded" => Expired)

StopsOK ==
    /\ pc \in {"running", "previewing", "collected"} => Told(run.rejection)
    /\ pc = "collected" => Told(run.stop)
    /\ pc \in After \cup {"collected"} =>
           /\ run.completion.kind # "none"
           /\ run.completion.kind = "timeout" => run.stop # "none"
           /\ run.rejection \in BudgetStops => run.stop = run.rejection
    /\ pc \in After => /\ run.stop \in {"none", "BackendLimitExceeded"}
                       /\ run.rejection \notin {"limit", "invalid"}
    /\ pc = "attempt" => run.rejection \notin {"limit", "invalid"}

(***************************************************************************)
(* What routing ends with.                                                 *)
(***************************************************************************)
ResultOK ==
    /\ terminal.reason = "CandidateVerified" =>
           /\ HasAccepted(reviewer) /\ ~reviewer.alarm /\ run.early # "Failed"
           /\ terminal.selected = <<reviewer.decision.candidate>>
           /\ reviewer.decision.candidate.sound
           /\ reviewer.preview # NoDecision =>
                  ~Worse(reviewer.decision.candidate, reviewer.preview.candidate)
    /\ OptimalIsProved
    /\ outcome.kind = "Accepted" =>
           /\ pc = "published" /\ terminal.reason = "CandidateVerified"
           /\ outcome.candidate = reviewer.decision.candidate

(***************************************************************************)
(* What is spent and what is left.                                         *)
(***************************************************************************)
Within == \A k \in Outputs : Used(k) <= remaining[k]

\* Before, and after, the output of the run is taken off.
Reserved == \A k \in Outputs : Spent(k) + remaining[k] <= OutputLimits[k]

Taken == \A k \in Outputs : Spent(k) + Used(k) + remaining[k] <= OutputLimits[k]

AllowanceOK ==
    /\ pc \in {"running", "previewing", "collected"} => Within
    /\ pc \notin After => Reserved
    /\ pc \in After => Taken
    /\ run.candidates = <<>> => run.used["assignments"] = 0

(***************************************************************************)
(* A reliable backend.                                                     *)
(***************************************************************************)
Unfinished == \A i \in DOMAIN run.candidates : run.candidates[i].role # "final"

\* Room is left for its final candidate.
FewOffered ==
    Unfinished => /\ Len(run.candidates) <= IF options.collect THEN 1 ELSE 0
                  /\ run.used["assignments"] <= Variables

\* The router has noticed, or will notice, that the run was cut short.
CutShort ==
    IF pc \in {"running", "previewing"} THEN StopReason # "none" ELSE run.stop # "none"

ReliableOK ==
    /\ pc \in {"attempt", "preflight", "running", "previewing", "collected", "empty"} =>
           /\ remaining["candidates"] = OutputLimits["candidates"]
           /\ remaining["assignments"] = OutputLimits["assignments"]
    /\ position \in Reliable =>
           /\ run.rejection \notin {"limit", "invalid"}
           /\ pc \in {"running", "previewing"} => FewOffered
           /\ /\ pc \in {"running", "previewing", "collected", "empty", "judging"}
              /\ run.completion.kind = "outcome"
              => /\ run.completion.valid
                 /\ run.completion.termination \in {"OptimalityClaimed", "CandidateFound"} =>
                        run.candidates # <<>>
                 /\ run.completion.termination \in {"Failed", "Unavailable"} =>
                        run.candidates = <<>> \/ CutShort

RouterInv ==
    Typed /\ ReviewsOK /\ StopsOK /\ ResultOK /\ AllowanceOK /\ TimeoutsExplained /\ ReliableOK

(***************************************************************************)
(* Sums.                                                                   *)
(***************************************************************************)
LEMMA SetInduction ==
    ASSUME NEW S, 0 \in S, \A n \in Nat : n \in S => n + 1 \in S
    PROVE  Nat \subseteq S
<1> DEFINE T == Nat \ S
<1> SUFFICES ASSUME T # {} PROVE FALSE
  OBVIOUS
<1>1. PICK x \in T : \A y \in T : ~ (<<y, x>> \in OpToRel(<, Nat))
  <2>1. T \subseteq Nat  OBVIOUS
  <2> HIDE DEF T
  <2> QED  BY <2>1, NatLessThanWellFounded, WFMin
<1>2. \A y \in T : ~(y < x)
  BY <1>1 DEF OpToRel
<1>3. x # 0 /\ x - 1 \in Nat /\ (x - 1) + 1 = x
  OBVIOUS
<1> QED  BY <1>2, <1>3

\* f holds the sums of the prefixes of s, up to the m-th.
Sums(f, s, m) ==
    f \in [0 .. m -> Nat] /\ \A n \in 0 .. m : f[n] = IF n = 0 THEN 0 ELSE f[n - 1] + s[n]

LEMMA SumsExist ==
    ASSUME NEW s \in Seq(Nat)
    PROVE  \E f : Sums(f, s, Len(s))
<1> DEFINE S == {n \in Nat : n <= Len(s) => \E f : Sums(f, s, n)}
<1>1. 0 \in S
  <2>1. Sums([n \in 0 .. 0 |-> 0], s, 0)
    BY DEF Sums
  <2> QED  BY <2>1
<1>2. ASSUME NEW n \in Nat, n \in S
      PROVE  n + 1 \in S
  <2>1. SUFFICES ASSUME n + 1 <= Len(s)
                 PROVE  \E f : Sums(f, s, n + 1)
    OBVIOUS
  <2>2. PICK f : Sums(f, s, n)
    BY <1>2, <2>1
  <2>3. PICK g : g = [k \in 0 .. n + 1 |-> IF k = n + 1 THEN f[n] + s[n + 1] ELSE f[k]]
    OBVIOUS
  <2>4. s[n + 1] \in Nat /\ f[n] \in Nat
    BY <2>1, <2>2 DEF Sums
  <2>5. g \in [0 .. n + 1 -> Nat]
    BY <2>2, <2>3, <2>4 DEF Sums
  <2>6. ASSUME NEW k \in 0 .. n + 1
        PROVE  g[k] = IF k = 0 THEN 0 ELSE g[k - 1] + s[k]
    BY <2>2, <2>3, <2>4 DEF Sums
  <2> QED  BY <2>5, <2>6 DEF Sums
<1> HIDE DEF S
<1>3. Nat \subseteq S
  BY <1>1, <1>2, SetInduction
<1> QED  BY <1>3 DEF S

LEMMA TotalIs ==
    ASSUME NEW s \in Seq(Nat), NEW f, Sums(f, s, Len(s))
    PROVE  Total(s) = f[Len(s)]
<1> DEFINE total == CHOOSE g : g = [n \in 0 .. Len(s) |-> IF n = 0 THEN 0 ELSE g[n - 1] + s[n]]
<1>1. Total(s) = total[Len(s)]
  BY DEF Total
<1>2. f = [n \in 0 .. Len(s) |-> IF n = 0 THEN 0 ELSE f[n - 1] + s[n]]
  BY DEF Sums
<1>3. total = [n \in 0 .. Len(s) |-> IF n = 0 THEN 0 ELSE total[n - 1] + s[n]]
  BY <1>2
<1> HIDE DEF total
<1>4. Len(s) \in Nat /\ \A n \in 1 .. Len(s) : s[n] \in Nat
  OBVIOUS
<1> DEFINE S == {n \in Nat : n <= Len(s) => total[n] = f[n]}
<1>5. 0 \in S
  BY <1>3, <1>4 DEF Sums
<1>6. ASSUME NEW n \in Nat, n \in S
      PROVE  n + 1 \in S
  BY <1>3, <1>4, <1>6 DEF Sums
<1> HIDE DEF S
<1>7. Nat \subseteq S
  BY <1>5, <1>6, SetInduction
<1> QED  BY <1>1, <1>4, <1>7 DEF S

LEMMA TotalAppend ==
    ASSUME NEW s \in Seq(Nat), NEW x \in Nat
    PROVE  Total(s) \in Nat /\ Total(Append(s, x)) = Total(s) + x
<1>1. PICK t : t = Append(s, x)
  OBVIOUS
<1>2. /\ t \in Seq(Nat) /\ Len(t) = Len(s) + 1 /\ Len(s) \in Nat /\ t[Len(s) + 1] = x
      /\ \A i \in 1 .. Len(s) : s[i] = t[i]
  BY <1>1
<1>3. PICK f : Sums(f, s, Len(s))
  BY SumsExist
<1>4. PICK g : Sums(g, t, Len(t))
  BY <1>2, SumsExist
<1>5. Total(s) = f[Len(s)] /\ Total(t) = g[Len(t)]
  BY <1>2, <1>3, <1>4, TotalIs
<1> DEFINE S == {n \in Nat : n <= Len(s) => f[n] = g[n]}
<1>6. 0 \in S
  BY <1>2, <1>3, <1>4 DEF Sums
<1>7. ASSUME NEW n \in Nat, n \in S
      PROVE  n + 1 \in S
  BY <1>2, <1>3, <1>4, <1>7 DEF Sums
<1> HIDE DEF S
<1>8. f[Len(s)] = g[Len(s)] /\ f[Len(s)] \in Nat
  <2>1. Nat \subseteq S  BY <1>6, <1>7, SetInduction
  <2> QED  BY <1>2, <1>3, <2>1 DEF S, Sums
<1>9. g[Len(t)] = g[Len(s)] + x
  BY <1>2, <1>4 DEF Sums
<1> QED  BY <1>1, <1>5, <1>8, <1>9

\* A recorded attempt is added to what is spent.
LEMMA SpentMore ==
    ASSUME attempts \in Seq(Attempt), NEW a \in Attempt, attempts' = Append(attempts, a),
           NEW k \in Outputs
    PROVE  /\ attempts' \in Seq(Attempt)
           /\ Spent(k) \in Nat /\ Spent(k)' = Spent(k) + a.used[k]
<1>1. PICK p : p = [i \in DOMAIN attempts |-> attempts[i].used[k]]
  OBVIOUS
<1>2. /\ attempts' \in Seq(Attempt) /\ Len(attempts) \in Nat
      /\ DOMAIN attempts = 1 .. Len(attempts) /\ DOMAIN attempts' = 1 .. Len(attempts) + 1
      /\ attempts'[Len(attempts) + 1] = a
      /\ \A i \in 1 .. Len(attempts) : attempts'[i] = attempts[i] /\ attempts[i] \in Attempt
  OBVIOUS
<1>3. \A b \in Attempt : b.used[k] \in Nat
  BY DEF Attempt
<1>4. p \in Seq(Nat) /\ Len(p) = Len(attempts) /\ a.used[k] \in Nat
  BY <1>1, <1>2, <1>3
<1>5. [i \in DOMAIN attempts' |-> attempts'[i].used[k]] = Append(p, a.used[k])
  BY <1>1, <1>2, <1>4
<1>6. Total(p) \in Nat /\ Total(Append(p, a.used[k])) = Total(p) + a.used[k]
  BY <1>4, TotalAppend
<1> QED  BY <1>1, <1>2, <1>5, <1>6 DEF Spent

(***************************************************************************)
(* The reviewer.                                                           *)
(***************************************************************************)
Interruptions == {"Cancelled", "DeadlineExceeded"}

LEMMA DecisionKinds ==
    /\ NoDecision \in Decision /\ NoDecision.kind = "none"
    /\ \A c \in Candidate : /\ Accepted(c) \in Decision /\ Accepted(c) # NoDecision
                            /\ Accepted(c).kind = "Accepted" /\ Accepted(c).candidate = c
    /\ NewReviewer \in Reviewer /\ NewReviewer.decision = NoDecision
    /\ ~NewReviewer.alarm /\ NewReviewer.preview = NoDecision
BY DEF NoDecision, Decision, Accepted, NewReviewer, Reviewer

LEMMA DecidedFields ==
    ASSUME NEW r \in Reviewer, NEW k \in {"Quarantined", "ResourceLimit", "Interrupted"}
    PROVE  /\ Decided(r, k) \in Reviewer /\ Decided(r, k).decision = [kind |-> k]
           /\ Decided(r, k).alarm = r.alarm /\ Decided(r, k).preview = r.preview
           /\ ~HasAccepted(Decided(r, k))
BY DEF Decided, Reviewer, Decision, HasAccepted

LEMMA AlarmedFields ==
    ASSUME NEW r \in Reviewer
    PROVE  /\ Alarmed(r) \in Reviewer /\ Alarmed(r).preview = r.preview
           /\ ~HasAccepted(Alarmed(r))
<1>1. PICK d : d = Decided(r, "Quarantined")
  OBVIOUS
<1>2. d \in Reviewer /\ d.decision = [kind |-> "Quarantined"] /\ d.preview = r.preview
  BY <1>1, DecidedFields
<1>3. PICK a : a = [d EXCEPT !.alarm = TRUE]
  OBVIOUS
<1>4. /\ a \in Reviewer /\ a.decision = [kind |-> "Quarantined"] /\ a.preview = d.preview
  BY <1>2, <1>3 DEF Reviewer
<1>5. Alarmed(r) = a
  BY <1>1, <1>3 DEF Alarmed
<1>6. a.decision.kind = "Quarantined"
  BY <1>4
<1> QED  BY <1>2, <1>4, <1>5, <1>6 DEF HasAccepted

LEMMA PreviewedFields ==
    ASSUME NEW r \in Reviewer, NEW c \in Candidate, NEW stopped \in BOOLEAN
    PROVE  /\ Previewed(r, c, stopped) \in Reviewer
           /\ Previewed(r, c, stopped).decision = r.decision
           /\ Previewed(r, c, stopped).alarm = r.alarm
           /\ \/ Previewed(r, c, stopped).preview = r.preview
              \/ /\ r.preview = NoDecision
                 /\ Previewed(r, c, stopped).preview = Accepted(c)
<1>1. Accepted(c) \in Decision
  BY DecisionKinds
<1>2. PICK p : p = [r EXCEPT !.preview = Accepted(c)]
  OBVIOUS
<1>3. p \in Reviewer /\ p.decision = r.decision /\ p.alarm = r.alarm /\ p.preview = Accepted(c)
  BY <1>1, <1>2 DEF Reviewer
<1> QED  BY <1>2, <1>3 DEF Previewed

\* What a review of c comes to, by its verdict.
LEMMA ReviewCases ==
    ASSUME NEW r \in Reviewer, NEW c \in Candidate, NEW stopped \in BOOLEAN,
           NEW interruption \in Interruptions, ~r.alarm, NEW v \in Verdicts(r, c, stopped)
    PROVE  LET result == Review(r, c, v, stopped, interruption) IN
           \/ result.reviewer = r /\ result.review = "Failed"
           \/ result.reviewer = Alarmed(r) /\ result.review = "Failed"
           \/ result.reviewer = Decided(r, "Quarantined") /\ result.review = "Failed"
           \/ result.reviewer = Decided(r, "ResourceLimit") /\ result.review = "ResourceLimit"
           \/ result.reviewer = Decided(r, "Interrupted") /\ result.review = interruption
           \/ result.reviewer = r /\ result.review = interruption
           \/ result.review = "Failed" /\ \E b \in BOOLEAN : result.reviewer = Overflowed(r, b)
           \/ /\ HasAccepted(r) /\ Worse(c, r.decision.candidate) /\ c.sound
              /\ result.reviewer = Previewed(r, c, stopped) /\ result.review = "Awaiting"
           \/ /\ ~(HasAccepted(r) /\ Worse(c, r.decision.candidate)) /\ c.sound
              /\ result.reviewer = [Previewed(r, c, stopped) EXCEPT !.decision = Accepted(c)]
              /\ result.review = IF c.matches THEN "Verified" ELSE "VerifiedOnly"
<1>1. \/ v \in {"unnumbered", "quarantined", "incomparable", "clock", "resources", "interrupted",
              "halted", "overflow", "alarm and overflow"}
      \/ v = "accepted" /\ c.sound
  BY DEF Verdicts
<1>2. CASE v = "accepted" /\ c.sound
  <2>1. Review(r, c, v, stopped, interruption) = Reconcile(Previewed(r, c, stopped), c)
    BY <1>2 DEF Review
  <2>2. PICK q : q = Previewed(r, c, stopped)
    OBVIOUS
  <2>3. q.decision = r.decision
    BY <2>2, PreviewedFields
  <2>4. HasAccepted(q) <=> HasAccepted(r)
    BY <2>3 DEF HasAccepted
  <2>5. CASE HasAccepted(r) /\ Worse(c, r.decision.candidate)
    <3>1. Review(r, c, v, stopped, interruption) = Result(q, "Awaiting")
      BY <2>1, <2>2, <2>3, <2>4, <2>5 DEF Reconcile
    <3> QED  BY <1>2, <2>2, <2>5, <3>1 DEF Result
  <2>6. CASE ~(HasAccepted(r) /\ Worse(c, r.decision.candidate))
    <3>1. Review(r, c, v, stopped, interruption) =
              Result([q EXCEPT !.decision = Accepted(c)],
                     IF c.matches THEN "Verified" ELSE "VerifiedOnly")
      BY <2>1, <2>2, <2>3, <2>4, <2>6 DEF Reconcile
    <3> QED  BY <1>2, <2>2, <2>6, <3>1 DEF Result
  <2> QED  BY <2>5, <2>6
<1>3. CASE v = "unnumbered"  BY <1>3 DEF Review, Result
<1>4. CASE v \in {"quarantined", "incomparable"}  BY <1>4 DEF Review, Result
<1>5. CASE v = "clock"  BY <1>5 DEF Review, Result
<1>6. CASE v = "resources"  BY <1>6 DEF Review, Result
<1>7. CASE v = "interrupted"  BY <1>7 DEF Review, Result
<1>8. CASE v = "halted"  BY <1>8 DEF Review, Result
<1>9. CASE v = "overflow"  BY <1>9 DEF Review, Result
<1>10. CASE v = "alarm and overflow"  BY <1>10 DEF Review, Result
<1> QED  BY <1>1, <1>2, <1>3, <1>4, <1>5, <1>6, <1>7, <1>8, <1>9, <1>10

LEMMA OverflowedFields ==
    ASSUME NEW r \in Reviewer, NEW b \in BOOLEAN
    PROVE  /\ Overflowed(r, b) \in Reviewer /\ Overflowed(r, b).decision = r.decision
           /\ Overflowed(r, b).preview = r.preview
BY DEF Overflowed, Reviewer

\* An accepted candidate that replaces what was decided before.
LEMMA ReplacedFields ==
    ASSUME NEW r \in Reviewer, NEW c \in Candidate
    PROVE  LET w == [r EXCEPT !.decision = Accepted(c)] IN
           w \in Reviewer /\ w.decision = Accepted(c) /\ w.alarm = r.alarm /\ w.preview = r.preview
<1>1. Accepted(c) \in Decision
  BY DecisionKinds
<1> QED  BY <1>1 DEF Reviewer

\* The review of a first candidate.
LEMMA FirstReview ==
    ASSUME NEW c \in Candidate, NEW stopped \in BOOLEAN, NEW interruption \in Interruptions,
           NEW v \in Verdicts(NewReviewer, c, stopped)
    PROVE  LET result == Review(NewReviewer, c, v, stopped, interruption) IN
           /\ result.reviewer \in Reviewer /\ result.review \in EarlyReviews
           /\ EarlyOK(result.review, result.reviewer, c)
<1>1. PICK r : r = NewReviewer
  OBVIOUS
<1>2. r \in Reviewer /\ r.decision = NoDecision /\ ~r.alarm /\ r.preview = NoDecision
  BY <1>1, DecisionKinds
<1>3. ~HasAccepted(r)
  BY <1>2, DecisionKinds DEF HasAccepted
<1>4. PICK w : w = Review(r, c, v, stopped, interruption)
  OBVIOUS
<1>5. v \in Verdicts(r, c, stopped)
  BY <1>1
<1>6. \/ w.reviewer = r /\ w.review = "Failed"
      \/ w.reviewer = Alarmed(r) /\ w.review = "Failed"
      \/ w.reviewer = Decided(r, "Quarantined") /\ w.review = "Failed"
      \/ w.reviewer = Decided(r, "ResourceLimit") /\ w.review = "ResourceLimit"
      \/ w.reviewer = Decided(r, "Interrupted") /\ w.review = interruption
      \/ w.reviewer = r /\ w.review = interruption
      \/ w.review = "Failed" /\ \E b \in BOOLEAN : w.reviewer = Overflowed(r, b)
      \/ /\ c.sound
         /\ w.reviewer = [Previewed(r, c, stopped) EXCEPT !.decision = Accepted(c)]
         /\ w.review = IF c.matches THEN "Verified" ELSE "VerifiedOnly"
  BY <1>2, <1>3, <1>4, <1>5, ReviewCases
<1>7. w.reviewer \in Reviewer /\ w.review \in EarlyReviews /\ EarlyOK(w.review, w.reviewer, c)
  <2>1. CASE w.reviewer = r /\ w.review = "Failed"
    BY <1>2, <1>3, <2>1 DEF EarlyOK, EarlyReviews, Good
  <2>2. CASE w.reviewer = Alarmed(r) /\ w.review = "Failed"
    BY <1>2, <2>2, AlarmedFields DEF EarlyOK, EarlyReviews, Good
  <2>3. CASE w.reviewer = Decided(r, "Quarantined") /\ w.review = "Failed"
    BY <1>2, <2>3, DecidedFields DEF EarlyOK, EarlyReviews, Good
  <2>4. CASE w.reviewer = Decided(r, "ResourceLimit") /\ w.review = "ResourceLimit"
    BY <1>2, <2>4, DecidedFields DEF EarlyOK, EarlyReviews, Good
  <2>5. CASE w.reviewer = Decided(r, "Interrupted") /\ w.review = interruption
    BY <1>2, <2>5, DecidedFields DEF EarlyOK, EarlyReviews, Good, Interruptions
  <2>6. CASE /\ c.sound
             /\ w.reviewer = [Previewed(r, c, stopped) EXCEPT !.decision = Accepted(c)]
             /\ w.review = IF c.matches THEN "Verified" ELSE "VerifiedOnly"
    <3>1. PICK p : p = Previewed(r, c, stopped)
      OBVIOUS
    <3>2. p \in Reviewer /\ ~p.alarm /\ p.preview \in {NoDecision, Accepted(c)}
      BY <1>2, <3>1, PreviewedFields
    <3>3. /\ w.reviewer \in Reviewer /\ w.reviewer.decision = Accepted(c)
          /\ ~w.reviewer.alarm /\ w.reviewer.preview \in {NoDecision, Accepted(c)}
      BY <2>6, <3>1, <3>2, ReplacedFields
    <3> QED  BY <2>6, <3>3 DEF EarlyOK, EarlyReviews, Good
  <2>7. CASE w.reviewer = r /\ w.review = interruption
    BY <1>2, <1>3, <2>7 DEF EarlyOK, EarlyReviews, Good, Interruptions
  <2>8. CASE w.review = "Failed" /\ \E b \in BOOLEAN : w.reviewer = Overflowed(r, b)
    <3>1. PICK b \in BOOLEAN : w.reviewer = Overflowed(r, b)
      BY <2>8
    <3>2. /\ w.reviewer \in Reviewer /\ w.reviewer.decision = r.decision
          /\ w.reviewer.preview = NoDecision
      BY <1>2, <3>1, OverflowedFields
    <3>3. ~HasAccepted(w.reviewer)
      BY <1>3, <3>2 DEF HasAccepted
    <3> QED  BY <2>8, <3>2, <3>3 DEF EarlyOK, EarlyReviews, Good
  <2> QED  BY <1>6, <2>1, <2>2, <2>3, <2>4, <2>5, <2>6, <2>7, <2>8
<1> QED  BY <1>1, <1>4, <1>7

\* What may be known of an accepted result that is about to be selected.
Retained(r, c) ==
    /\ r.decision = Accepted(c) /\ c.sound /\ ~r.alarm
    /\ r.preview # NoDecision => ~Worse(c, r.preview.candidate)

LEMMA EarlyRetained ==
    ASSUME NEW c \in Candidate, NEW r \in Reviewer, NEW e \in Good, EarlyOK(e, r, c)
    PROVE  Retained(r, c)
<1>1. r.preview # NoDecision => r.preview.candidate = c
  BY DecisionKinds DEF EarlyOK
<1>2. c.score \in Nat
  BY DEF Candidate
<1> QED  BY <1>1, <1>2 DEF Retained, EarlyOK, Worse

\* The review of a candidate c after the early review e of c1, if there was one.
LEMMA LaterReview ==
    ASSUME NEW c \in Candidate, NEW c1 \in Candidate, NEW stopped \in BOOLEAN,
           NEW interruption \in Interruptions, NEW r \in Reviewer, NEW e, e # "Failed",
           EarlyOK(e, r, c1), NEW v \in Verdicts(r, c, stopped)
    PROVE  LET result == Review(r, c, v, stopped, interruption) IN
           /\ result.reviewer \in Reviewer
           /\ \/ result.review \in {"Failed", "ResourceLimit"} \cup Interruptions
              \/ /\ result.review = "Awaiting" /\ e \in Good
                 /\ Retained(result.reviewer, c1)
              \/ /\ result.review \in Good
                 /\ Retained(result.reviewer, c)
                 /\ result.review = "Verified" => c.matches
<1>1. ~r.alarm
  BY DEF EarlyOK
<1>2. PICK w : w = Review(r, c, v, stopped, interruption)
  OBVIOUS
<1>3. \/ w.reviewer = r /\ w.review = "Failed"
      \/ w.reviewer = Alarmed(r) /\ w.review = "Failed"
      \/ w.reviewer = Decided(r, "Quarantined") /\ w.review = "Failed"
      \/ w.reviewer = Decided(r, "ResourceLimit") /\ w.review = "ResourceLimit"
      \/ w.reviewer = Decided(r, "Interrupted") /\ w.review = interruption
      \/ w.reviewer = r /\ w.review = interruption
      \/ w.review = "Failed" /\ \E b \in BOOLEAN : w.reviewer = Overflowed(r, b)
      \/ /\ HasAccepted(r) /\ Worse(c, r.decision.candidate) /\ c.sound
         /\ w.reviewer = Previewed(r, c, stopped) /\ w.review = "Awaiting"
      \/ /\ ~(HasAccepted(r) /\ Worse(c, r.decision.candidate)) /\ c.sound
         /\ w.reviewer = [Previewed(r, c, stopped) EXCEPT !.decision = Accepted(c)]
         /\ w.review = IF c.matches THEN "Verified" ELSE "VerifiedOnly"
  BY <1>1, <1>2, ReviewCases
<1>4. PICK p : p = Previewed(r, c, stopped)
  OBVIOUS
<1>5. /\ p \in Reviewer /\ ~p.alarm /\ p.decision = r.decision
      /\ \/ p.preview = r.preview
         \/ p.preview = Accepted(c)
  BY <1>1, <1>4, PreviewedFields
<1>6. c.score \in Nat /\ c1.score \in Nat
  BY DEF Candidate
<1>7. /\ Accepted(c).candidate = c /\ Accepted(c1).candidate = c1
      /\ Accepted(c1).kind = "Accepted"
  BY DecisionKinds
<1>8. /\ e \in Good => r.decision = Accepted(c1) /\ c1.sound /\ r.preview \in {NoDecision, Accepted(c1)}
      /\ e \notin Good => ~HasAccepted(r) /\ r.preview = NoDecision
  BY DEF EarlyOK
<1>9. /\ w.reviewer \in Reviewer
      /\ \/ w.review \in {"Failed", "ResourceLimit"} \cup Interruptions
         \/ w.review = "Awaiting" /\ e \in Good /\ Retained(w.reviewer, c1)
         \/ /\ w.review \in Good /\ Retained(w.reviewer, c)
            /\ w.review = "Verified" => c.matches
  <2>1. CASE w.reviewer = r /\ w.review = "Failed"
    BY <2>1
  <2>2. CASE w.reviewer = Alarmed(r) /\ w.review = "Failed"
    BY <2>2, AlarmedFields
  <2>3. CASE w.reviewer = Decided(r, "Quarantined") /\ w.review = "Failed"
    BY <2>3, DecidedFields
  <2>4. CASE w.reviewer = Decided(r, "ResourceLimit") /\ w.review = "ResourceLimit"
    BY <2>4, DecidedFields
  <2>5. CASE w.reviewer = Decided(r, "Interrupted") /\ w.review = interruption
    BY <2>5, DecidedFields
  <2>6. CASE /\ HasAccepted(r) /\ Worse(c, r.decision.candidate) /\ c.sound
             /\ w.reviewer = Previewed(r, c, stopped) /\ w.review = "Awaiting"
    <3>1. e \in Good
      BY <1>8, <2>6
    <3>2. Worse(c, c1)
      BY <1>7, <1>8, <2>6, <3>1
    <3>3. p.preview # NoDecision => p.preview.candidate \in {c, c1}
      BY <1>5, <1>7, <1>8, <3>1
    <3>4. p.preview # NoDecision => ~Worse(c1, p.preview.candidate)
      BY <1>6, <3>2, <3>3 DEF Worse
    <3>5. Retained(p, c1)
      BY <1>5, <1>8, <3>1, <3>4 DEF Retained
    <3> QED  BY <1>4, <1>5, <2>6, <3>1, <3>5
  <2>7. CASE /\ ~(HasAccepted(r) /\ Worse(c, r.decision.candidate)) /\ c.sound
             /\ w.reviewer = [Previewed(r, c, stopped) EXCEPT !.decision = Accepted(c)]
             /\ w.review = IF c.matches THEN "Verified" ELSE "VerifiedOnly"
    <3>1. /\ w.reviewer \in Reviewer /\ w.reviewer.decision = Accepted(c)
          /\ ~w.reviewer.alarm /\ w.reviewer.preview = p.preview
      BY <1>4, <1>5, <2>7, ReplacedFields
    <3>2. e \in Good => ~Worse(c, c1)
      BY <1>7, <1>8, <2>7 DEF HasAccepted
    <3>3. p.preview # NoDecision => ~Worse(c, p.preview.candidate)
      BY <1>5, <1>6, <1>7, <1>8, <3>2 DEF Worse
    <3>4. Retained(w.reviewer, c)
      BY <2>7, <3>1, <3>3 DEF Retained
    <3> QED  BY <2>7, <3>1, <3>4 DEF Good
  <2>8. CASE w.reviewer = r /\ w.review = interruption
    BY <2>8
  <2>9. CASE w.review = "Failed" /\ \E b \in BOOLEAN : w.reviewer = Overflowed(r, b)
    BY <2>9, OverflowedFields
  <2> QED  BY <1>3, <2>1, <2>2, <2>3, <2>4, <2>5, <2>6, <2>7, <2>8, <2>9
<1> QED  BY <1>2, <1>9

(***************************************************************************)
(* The record of a run, field by field.                                    *)
(***************************************************************************)
LEMMA RunFields ==
    ASSUME Typed
    PROVE  /\ run \in BackendRun
           /\ run.candidates \in Seq(Candidate) /\ run.used \in [Counted -> Nat]
           /\ run.early \in EarlyReviews \cup {NoReview} /\ run.rejection \in Rejections
           /\ run.completion \in Completion /\ run.stop \in {"none"} \cup BudgetStops
           /\ run.next \in Nat
           /\ remaining \in [Outputs -> Nat]
           /\ options.collect \in BOOLEAN
<1>1. /\ run \in BackendRun /\ remaining \in [Outputs -> Nat]
      /\ options \in [collect : BOOLEAN]
  BY DEF Typed
<1> QED  BY <1>1 DEF BackendRun

LEMMA SetUsed ==
    ASSUME NEW r \in BackendRun, NEW x \in [Counted -> Nat]
    PROVE  LET w == [r EXCEPT !.used = x] IN
           /\ w \in BackendRun /\ w.used = x
           /\ w.candidates = r.candidates /\ w.early = r.early /\ w.rejection = r.rejection
           /\ w.completion = r.completion /\ w.stop = r.stop /\ w.next = r.next
BY DEF BackendRun

LEMMA SetEarly ==
    ASSUME NEW r \in BackendRun, NEW x \in EarlyReviews \cup {NoReview}
    PROVE  LET w == [r EXCEPT !.early = x] IN
           /\ w \in BackendRun /\ w.early = x
           /\ w.candidates = r.candidates /\ w.used = r.used /\ w.rejection = r.rejection
           /\ w.completion = r.completion /\ w.stop = r.stop /\ w.next = r.next
BY DEF BackendRun

LEMMA SetRejection ==
    ASSUME NEW r \in BackendRun, NEW x \in Rejections
    PROVE  LET w == [r EXCEPT !.rejection = x] IN
           /\ w \in BackendRun /\ w.rejection = x
           /\ w.candidates = r.candidates /\ w.used = r.used /\ w.early = r.early
           /\ w.completion = r.completion /\ w.stop = r.stop /\ w.next = r.next
BY DEF BackendRun

LEMMA SetCompletion ==
    ASSUME NEW r \in BackendRun, NEW x \in Completion
    PROVE  LET w == [r EXCEPT !.completion = x] IN
           /\ w \in BackendRun /\ w.completion = x
           /\ w.candidates = r.candidates /\ w.used = r.used /\ w.early = r.early
           /\ w.rejection = r.rejection /\ w.stop = r.stop /\ w.next = r.next
BY DEF BackendRun

LEMMA SetStop ==
    ASSUME NEW r \in BackendRun, NEW x \in {"none"} \cup BudgetStops
    PROVE  LET w == [r EXCEPT !.stop = x] IN
           /\ w \in BackendRun /\ w.stop = x
           /\ w.candidates = r.candidates /\ w.used = r.used /\ w.early = r.early
           /\ w.rejection = r.rejection /\ w.completion = r.completion /\ w.next = r.next
BY DEF BackendRun

LEMMA SetNext ==
    ASSUME NEW r \in BackendRun, NEW x \in Nat
    PROVE  LET w == [r EXCEPT !.next = x] IN
           /\ w \in BackendRun /\ w.next = x
           /\ w.candidates = r.candidates /\ w.used = r.used /\ w.early = r.early
           /\ w.rejection = r.rejection /\ w.completion = r.completion /\ w.stop = r.stop
BY DEF BackendRun

LEMMA FreshFields ==
    /\ FreshRun \in BackendRun /\ FreshRun.candidates = <<>>
    /\ FreshRun.used = [k \in Counted |-> 0] /\ FreshRun.used["assignments"] = 0
    /\ FreshRun.early = NoReview /\ FreshRun.rejection = "none"
    /\ FreshRun.completion = NoCompletion /\ FreshRun.stop = "none" /\ FreshRun.next = 1
BY DEF FreshRun, BackendRun, Completion, Rejections, Counted, Outputs

Answers == {"OptimalityClaimed", "CandidateFound", "InfeasibilityClaimed", "UnboundedClaimed",
            "TimeLimit", "SolutionLimit", "Cancelled", "InvalidModel", "Unavailable", "Failed"}

LEMMA CompletionKinds ==
    ASSUME NEW o \in Completion
    PROVE  /\ o.kind \in {"none", "timeout", "error", "contract", "outcome"}
           /\ o.kind = "none" => o = NoCompletion
           /\ /\ o.kind = "outcome" /\ o.termination = "OptimalityClaimed" /\ o.proved
              => o = Outcome("OptimalityClaimed", TRUE, TRUE)
           /\ o.kind = "outcome" => o.valid \in BOOLEAN /\ o.termination \in Answers
<1>1. \/ o = [kind |-> "timeout"] \/ o = [kind |-> "error"] \/ o = [kind |-> "contract"]
      \/ o = NoCompletion
      \/ o = Outcome("CandidateFound", FALSE, FALSE) \/ o = Outcome("OptimalityClaimed", TRUE, TRUE)
      \/ \E t \in Terminations : o = Outcome(t, TRUE, FALSE)
  BY DEF Completion, Completions
<1>2. CASE o = [kind |-> "timeout"] \/ o = [kind |-> "error"] \/ o = [kind |-> "contract"]
  <2>1. o.kind \in {"timeout", "error", "contract"}
    BY <1>2
  <2> QED  BY <2>1
<1>3. CASE o = NoCompletion
  BY <1>3 DEF NoCompletion
<1>4. CASE o = Outcome("CandidateFound", FALSE, FALSE)
  BY <1>4 DEF Outcome, Answers
<1>5. CASE o = Outcome("OptimalityClaimed", TRUE, TRUE)
  BY <1>5 DEF Outcome, Answers
<1>6. CASE \E t \in Terminations : o = Outcome(t, TRUE, FALSE)
  BY <1>6, RouterAssumption DEF Outcome, Answers
<1> QED  BY <1>1, <1>2, <1>3, <1>4, <1>5, <1>6

LEMMA TerminalFields ==
    ASSUME NEW status, NEW reason
    PROVE  /\ Terminal(status, reason).status = status
           /\ Terminal(status, reason).reason = reason
BY DEF Terminal, NoTerminal

LEMMA SelectFields ==
    ASSUME NEW status, NEW c
    PROVE  /\ Select(status, c).status = status
           /\ Select(status, c).reason = "CandidateVerified"
           /\ Select(status, c).selected = <<c>>
BY DEF Select, Terminal, NoTerminal

(***************************************************************************)
(* What a step leaves alone.                                               *)
(***************************************************************************)
\* Nothing is selected before routing is over.
LEMMA NoResultYet ==
    ASSUME ReviewsOK, ResultOK, pc \notin Over, outcome' = outcome,
           \/ terminal' = terminal
           \/ terminal'.reason # "CandidateVerified" /\ terminal'.status # "Optimal"
    PROVE  ResultOK'
<1>1. terminal'.reason # "CandidateVerified" /\ terminal'.status # "Optimal"
  BY DEF ReviewsOK, NoTerminal
<1>2. outcome'.kind # "Accepted"
  BY DEF ResultOK, Over
<1> QED  BY <1>1, <1>2 DEF ResultOK, OptimalIsProved

\* What is taken off one account is added to the other.
LEMMA Transfer ==
    ASSUME NEW spent \in Nat, NEW left \in Nat, NEW rest \in Nat, NEW n \in Nat,
           NEW limit \in Nat, rest + n = left, spent + left <= limit
    PROVE  spent + n + rest <= limit
OBVIOUS

LEMMA SpentIsNat ==
    ASSUME Typed, NEW k \in Outputs
    PROVE  Spent(k) \in Nat
<1>1. PICK p : p = [i \in DOMAIN attempts |-> attempts[i].used[k]]
  OBVIOUS
<1>2. attempts \in Seq(Attempt)
  BY DEF Typed
<1>3. p \in Seq(Nat)
  <2>1. /\ Len(attempts) \in Nat /\ DOMAIN attempts = 1 .. Len(attempts)
        /\ \A i \in 1 .. Len(attempts) : attempts[i] \in Attempt
    BY <1>2
  <2>2. \A b \in Attempt : b.used[k] \in Nat
    BY DEF Attempt
  <2> QED  BY <1>1, <2>1, <2>2
<1>4. Total(p) \in Nat
  BY <1>3, TotalAppend
<1> QED  BY <1>1, <1>4 DEF Spent

LEMMA UsedIsNat ==
    ASSUME Typed, NEW k \in Outputs
    PROVE  Used(k) \in Nat
<1>1. run.candidates \in Seq(Candidate) /\ run.used \in [Counted -> Nat]
  BY RunFields
<1>2. Len(run.candidates) \in Nat
  BY <1>1
<1>3. k # "candidates" => run.used[k] \in Nat
  BY <1>1 DEF Counted
<1> QED  BY <1>2, <1>3 DEF Used

\* The accounts of the solve, and that of the run.
LEMMA AccountsKept ==
    ASSUME UNCHANGED <<attempts, remaining, options>>
    PROVE  /\ OutputLimits' = OutputLimits /\ (Reserved' <=> Reserved)
           /\ TimeoutsExplained => TimeoutsExplained'
<1>1. OutputLimits' = OutputLimits
  BY DEF OutputLimits
<1>2. \A k \in Outputs : Spent(k)' = Spent(k)
  BY DEF Spent
<1>3. Reserved' <=> Reserved
  BY <1>1, <1>2 DEF Reserved
<1> QED  BY <1>1, <1>3 DEF TimeoutsExplained

LEMMA RunAccountsKept ==
    ASSUME UNCHANGED <<attempts, remaining, options>>,
           run'.candidates = run.candidates, run'.used = run.used
    PROVE  (Within' <=> Within) /\ (Taken' <=> Taken)
<1>1. \A k \in Outputs : Used(k)' = Used(k) /\ Spent(k)' = Spent(k)
  BY DEF Used, Spent
<1>2. OutputLimits' = OutputLimits
  BY AccountsKept
<1> QED  BY <1>1, <1>2 DEF Within, Taken

\* A recorded attempt.
LEMMA Recorded ==
    ASSUME Typed, TimeoutsExplained, NEW t \in Recordable, NEW b \in BOOLEAN,
           attempts' = Append(attempts, [termination |-> t, fallback |-> b,
                                         used |-> [k \in Outputs |-> Used(k)]])
    PROVE  /\ attempts' \in Seq(Attempt) /\ TimeoutsExplained'
           /\ \A k \in Outputs : Spent(k) \in Nat /\ Spent(k)' = Spent(k) + Used(k)
<1>1. \A k \in Outputs : Used(k) \in Nat
  BY UsedIsNat
<1>2. PICK u : u = [k \in Outputs |-> Used(k)]
  OBVIOUS
<1>3. u \in [Outputs -> Nat] /\ \A k \in Outputs : u[k] = Used(k)
  BY <1>1, <1>2
<1>4. PICK a : a = [termination |-> t, fallback |-> b, used |-> u]
  OBVIOUS
<1>5. a \in Attempt /\ a.termination = t /\ a.used = u
  BY <1>3, <1>4 DEF Attempt
<1>6. attempts \in Seq(Attempt) /\ attempts' = Append(attempts, a)
  BY <1>2, <1>4 DEF Typed
<1>7. ASSUME NEW k \in Outputs
      PROVE  attempts' \in Seq(Attempt) /\ Spent(k) \in Nat /\ Spent(k)' = Spent(k) + Used(k)
  <2>1. attempts' \in Seq(Attempt) /\ Spent(k) \in Nat /\ Spent(k)' = Spent(k) + a.used[k]
    BY <1>5, <1>6, SpentMore
  <2> QED  BY <1>3, <1>5, <2>1
<1>8. attempts' \in Seq(Attempt)
  BY <1>7 DEF Outputs
<1>9. TimeoutsExplained'
  <2>1. /\ DOMAIN attempts = 1 .. Len(attempts) /\ DOMAIN attempts' = 1 .. Len(attempts) + 1
        /\ attempts'[Len(attempts) + 1] = a /\ Len(attempts) \in Nat
        /\ \A i \in 1 .. Len(attempts) : attempts'[i] = attempts[i]
    BY <1>5, <1>6
  <2> QED  BY <1>5, <2>1 DEF TimeoutsExplained, Recordable
<1> QED  BY <1>7, <1>8, <1>9

LEMMA LimitsAre ==
    ASSUME Typed
    PROVE  /\ OutputLimits \in [Outputs -> Nat \ {0}] /\ Variables \in Nat
           /\ options.collect => /\ OutputLimits["candidates"] >= 2
                                 /\ OutputLimits["assignments"] >= 2 * Variables
           /\ OutputLimits["assignments"] >= Variables
<1>1. /\ Limits \in [Outputs -> Nat \ {0}] /\ Variables \in Nat
      /\ Variables <= Limits["assignments"]
  BY RouterAssumption
<1>2. Limits["candidates"] \in Nat \ {0} /\ Limits["assignments"] \in Nat \ {0}
  BY <1>1 DEF Outputs
<1>3. CASE options.collect
  <2>1. OutputLimits = [Limits EXCEPT !["candidates"] = Limits["candidates"] + 1,
                                      !["assignments"] = 2 * Limits["assignments"]]
    BY <1>3 DEF OutputLimits
  <2>2. /\ OutputLimits \in [Outputs -> Nat \ {0}]
        /\ OutputLimits["candidates"] = Limits["candidates"] + 1
        /\ OutputLimits["assignments"] = 2 * Limits["assignments"]
    BY <1>1, <1>2, <2>1 DEF Outputs
  <2> QED  BY <1>1, <1>2, <2>2
<1>4. CASE ~options.collect
  BY <1>1, <1>4 DEF OutputLimits
<1> QED  BY <1>3, <1>4

\* Routing ends: only the result remains to be seen to.
LEMMA RoutingOver ==
    ASSUME RouterInv, pc \notin Over, pc' = "done", run' \in {run, FreshRun},
           UNCHANGED <<options, position, dispatch>>
    PROVE  ReviewsOK' /\ StopsOK' /\ ReliableOK'
<1>1. ReviewsOK' /\ StopsOK'
  BY DEF ReviewsOK, StopsOK, Over, After
<1>2. ReliableOK'
  <2>1. CASE run' = run  BY <2>1 DEF RouterInv, ReliableOK
  <2>2. CASE run' = FreshRun  BY <2>2, FreshFields DEF RouterInv, ReliableOK
  <2> QED  BY <2>1, <2>2
<1> QED  BY <1>1, <1>2

(***************************************************************************)
(* Time and cancellation.                                                  *)
(***************************************************************************)
LEMMA ReasonIs ==
    ASSUME Typed
    PROVE  /\ StopReason \in {"none"} \cup BudgetStops /\ Told(StopReason)
           /\ StopReason # "none" <=>
                  \/ cancelled \/ now >= Deadline \/ now - dispatch.start >= dispatch.limit
           /\ Stopped \in BOOLEAN /\ Interruption \in Interruptions
<1>1. cancelled \in BOOLEAN
  BY DEF Typed
<1> QED
  BY <1>1 DEF StopReason, Stopped, Expired, Elapsed, Told, BudgetStops, Interruption, Interruptions

LEMMA TimePasses ==
    ASSUME RouterInv, now' \in Nat, now' >= now, cancelled' \in BOOLEAN, cancelled => cancelled',
           UNCHANGED <<options, pc, attemptVars, run, reviewer, terminal, outcome>>
    PROVE  RouterInv'
<1>1. Typed /\ now \in Nat /\ dispatch \in [start : Nat, limit : Nat, search : Nat]
  BY DEF RouterInv, Typed
<1>2. Typed'
  BY DEF RouterInv, Typed, attemptVars
<1>3. Deadline \in Nat
  BY RouterAssumption
<1>4. StopReason # "none" => StopReason' # "none"
  <2>1. StopReason # "none" <=>
            \/ cancelled \/ now >= Deadline \/ now - dispatch.start >= dispatch.limit
    BY <1>1, ReasonIs
  <2>2. StopReason' # "none" <=>
            \/ cancelled' \/ now' >= Deadline \/ now' - dispatch'.start >= dispatch'.limit
    BY DEF StopReason, Stopped, Expired, Elapsed
  <2>3. dispatch' = dispatch
    BY DEF attemptVars
  <2> QED  BY <1>1, <1>3, <2>1, <2>2, <2>3
<1>5. ReviewsOK'
  BY DEF RouterInv, ReviewsOK, FirstPending
<1>6. StopsOK'
  <2>1. Told(run.rejection) => Told(run.rejection)'
    BY <1>1, <1>3 DEF Told, Expired
  <2>2. Told(run.stop) => Told(run.stop)'
    BY <1>1, <1>3 DEF Told, Expired
  <2> QED  BY <2>1, <2>2 DEF RouterInv, StopsOK
<1>7. ResultOK'
  BY DEF RouterInv, ResultOK, OptimalIsProved
<1>8. AllowanceOK' /\ TimeoutsExplained'
  BY AccountsKept, RunAccountsKept DEF RouterInv, AllowanceOK, attemptVars
<1>9. ReliableOK'
  BY <1>4 DEF RouterInv, ReliableOK, FewOffered, Unfinished, CutShort, OutputLimits, attemptVars
<1> QED  BY <1>2, <1>5, <1>6, <1>7, <1>8, <1>9 DEF RouterInv

(***************************************************************************)
(* Before a backend is invoked.                                            *)
(***************************************************************************)
LEMMA StoppedFields ==
    /\ StoppedTerminal.reason # "CandidateVerified" /\ StoppedTerminal.status # "Optimal"
BY TerminalFields DEF StoppedTerminal

LEMMA PreAttemptKeeps ==
    ASSUME RouterInv, PreAttempt
    PROVE  RouterInv'
<1>1. pc = "attempt" /\ pc \notin Over /\ pc \notin After
  BY DEF PreAttempt, Over, After
<1>2. /\ UNCHANGED <<now, cancelled, options, position, remaining, attempts, reviewer, outcome>>
  BY DEF PreAttempt, budgetVars
<1>3. Typed
  BY DEF RouterInv
<1>4. CASE pc' = "done" /\ UNCHANGED <<dispatch, run>>
           /\ terminal'.reason # "CandidateVerified" /\ terminal'.status # "Optimal"
  <2>1. Typed'
    BY <1>2, <1>3, <1>4 DEF Typed
  <2>2. ReviewsOK' /\ StopsOK' /\ ReliableOK'
    BY <1>1, <1>2, <1>4, RoutingOver
  <2>3. ResultOK'
    BY <1>1, <1>2, <1>4, NoResultYet DEF RouterInv
  <2>4. AllowanceOK' /\ TimeoutsExplained'
    BY <1>1, <1>2, <1>4, AccountsKept DEF RouterInv, AllowanceOK, After
  <2> QED  BY <2>1, <2>2, <2>3, <2>4 DEF RouterInv
<1>5. CASE dispatch' = DispatchBudget /\ run' = FreshRun /\ pc' = "preflight"
           /\ terminal' = terminal
  <2>1. dispatch' \in [start : Nat, limit : Nat, search : Nat]
    BY <1>3, <1>5, RouterAssumption DEF DispatchBudget, Left, Typed
  <2>2. Typed'
    BY <1>2, <1>3, <1>5, <2>1, FreshFields DEF Typed
  <2>3. ReviewsOK'
    <3>1. terminal = NoTerminal /\ reviewer = NewReviewer
      <4>1. /\ terminal = NoTerminal /\ run.candidates = <<>>
            /\ run.early = NoReview => reviewer = NewReviewer
            /\ run.early # NoReview => run.candidates # <<>>
        BY <1>1 DEF RouterInv, ReviewsOK
      <4> QED  BY <4>1
    <3> QED  BY <1>2, <1>5, <3>1, FreshFields DEF ReviewsOK, After
  <2>4. StopsOK'
    BY <1>5 DEF StopsOK, After
  <2>5. ResultOK'
    BY <1>1, <1>2, <1>5, NoResultYet DEF RouterInv
  <2>6. AllowanceOK' /\ TimeoutsExplained'
    <3>1. run'.used["assignments"] = 0
      BY <1>5, FreshFields DEF Counted, Outputs
    <3> QED  BY <1>1, <1>2, <1>5, <3>1, AccountsKept DEF RouterInv, AllowanceOK, After
  <2>7. ReliableOK'
    BY <1>1, <1>2, <1>5, FreshFields DEF RouterInv, ReliableOK, OutputLimits
  <2> QED  BY <2>2, <2>3, <2>4, <2>5, <2>6, <2>7 DEF RouterInv
<1> QED
  <2>1. CASE Stopped
    BY <1>4, <2>1, StoppedFields DEF PreAttempt, Finish
  <2>2. CASE ~Stopped /\ Exhausted
    BY <1>4, <2>2, TerminalFields DEF PreAttempt, Finish
  <2>3. CASE ~Stopped /\ ~Exhausted
    BY <1>5, <2>3 DEF PreAttempt
  <2> QED  BY <2>1, <2>2, <2>3

LEMMA NoRequestKeeps ==
    ASSUME RouterInv, NoRequest
    PROVE  RouterInv'
<1>1. pc = "attempt" /\ pc \notin Over /\ pc \notin After /\ pc' = "done"
  BY DEF NoRequest, Finish, Over, After
<1>2. UNCHANGED <<now, cancelled, options, position, remaining, dispatch, attempts, run,
                  reviewer, outcome>>
  BY DEF NoRequest, budgetVars, attemptVars
<1>3. Typed'
  BY <1>2 DEF RouterInv, Typed
<1>4. terminal'.reason # "CandidateVerified" /\ terminal'.status # "Optimal"
  BY TerminalFields DEF NoRequest, Finish
<1>5. ReviewsOK' /\ StopsOK' /\ ReliableOK'
  BY <1>1, <1>2, RoutingOver
<1>6. ResultOK'
  BY <1>1, <1>2, <1>4, NoResultYet DEF RouterInv
<1>7. AllowanceOK' /\ TimeoutsExplained'
  BY <1>1, <1>2, AccountsKept DEF RouterInv, AllowanceOK, After
<1> QED  BY <1>3, <1>5, <1>6, <1>7 DEF RouterInv

LEMMA InvokeKeeps ==
    ASSUME RouterInv, Invoke
    PROVE  RouterInv'
<1>1. pc = "preflight" /\ pc \notin Over /\ pc \notin After
  BY DEF Invoke, Over, After
<1>2. UNCHANGED <<now, cancelled, options, position, remaining, dispatch, attempts, run,
                  reviewer, outcome>>
  BY DEF Invoke, budgetVars, attemptVars
<1>3. Typed /\ Typed'
  BY <1>2 DEF RouterInv, Typed
<1>4. AllowanceOK' /\ TimeoutsExplained'
  <2>1. run = FreshRun
    BY <1>1 DEF RouterInv, ReviewsOK
  <2>2. \A k \in Outputs : Used(k) = 0
    BY <2>1, FreshFields DEF Used, Counted
  <2>3. Within
    BY <1>3, <2>2, RunFields DEF Within
  <2>4. pc' \notin After
    BY DEF Invoke, Finish, After
  <2> QED  BY <1>1, <1>2, <2>3, <2>4, AccountsKept, RunAccountsKept DEF RouterInv, AllowanceOK
<1>5. CASE pc' = "done" /\ terminal'.reason # "CandidateVerified" /\ terminal'.status # "Optimal"
  <2>1. ReviewsOK' /\ StopsOK' /\ ReliableOK'
    BY <1>1, <1>2, <1>5, RoutingOver
  <2>2. ResultOK'
    BY <1>1, <1>2, <1>5, NoResultYet DEF RouterInv
  <2> QED  BY <1>3, <1>4, <2>1, <2>2 DEF RouterInv
<1>6. CASE pc' = "running" /\ terminal' = terminal
  <2>1. run = FreshRun
    BY <1>1 DEF RouterInv, ReviewsOK
  <2>2. ReviewsOK'
    BY <1>1, <1>2, <1>6, <2>1, FreshFields DEF RouterInv, ReviewsOK, After, Over
  <2>3. StopsOK'
    BY <1>2, <1>6, <2>1, FreshFields DEF StopsOK, After, Told
  <2>4. ResultOK'
    BY <1>1, <1>2, <1>6, NoResultYet DEF RouterInv
  <2>5. ReliableOK'
    <3>1. /\ run.candidates = <<>> /\ run.rejection = "none" /\ run.completion.kind = "none"
          /\ run.used["assignments"] = 0 /\ Len(run.candidates) = 0
      BY <2>1, FreshFields DEF NoCompletion, Counted, Outputs
    <3>2. Variables \in Nat
      BY RouterAssumption
    <3> QED  BY <1>1, <1>2, <1>6, <3>1, <3>2 DEF RouterInv, ReliableOK, FewOffered, OutputLimits
  <2> QED  BY <1>3, <1>4, <2>2, <2>3, <2>4, <2>5 DEF RouterInv
<1>7. /\ PreDispatchTerminal.reason # "CandidateVerified"
      /\ PreDispatchTerminal.status # "Optimal"
  BY StoppedFields, TerminalFields DEF PreDispatchTerminal
<1> QED  BY <1>5, <1>6, <1>7 DEF Invoke, Finish

LEMMA PreflightKeeps ==
    ASSUME RouterInv, Preflight
    PROVE  RouterInv'
<1>1. pc = "preflight" /\ pc \notin Over /\ pc \notin After /\ pc' = "done"
  BY DEF Preflight, Finish, Over, After
<1>2. UNCHANGED <<now, cancelled, options, position, remaining, dispatch, run, reviewer, outcome>>
  BY DEF Preflight, budgetVars
<1>3. terminal'.reason # "CandidateVerified" /\ terminal'.status # "Optimal"
  <2>1. PICK status \in {"InvalidModel", "BackendUnavailable"} :
            terminal' = Terminal(status, "PreflightRejected")
    BY DEF Preflight, Finish
  <2> QED  BY <2>1, TerminalFields
<1>4. Typed /\ TimeoutsExplained
  BY DEF RouterInv
<1>5. attempts' = Append(attempts, [termination |-> "PreflightRejected", fallback |-> FALSE,
                                    used |-> [k \in Outputs |-> Used(k)]])
  BY DEF Preflight, Record
<1>6. /\ attempts' \in Seq(Attempt) /\ TimeoutsExplained'
      /\ \A k \in Outputs : Spent(k) \in Nat /\ Spent(k)' = Spent(k) + Used(k)
  <2>1. "PreflightRejected" \in Recordable /\ FALSE \in BOOLEAN
    BY DEF Recordable
  <2> QED  BY <1>4, <1>5, <2>1, Recorded, Zenon
<1>7. Typed'
  BY <1>2, <1>4, <1>6 DEF Typed
<1>8. ReviewsOK' /\ StopsOK' /\ ReliableOK'
  BY <1>1, <1>2, RoutingOver
<1>9. ResultOK'
  BY <1>1, <1>2, <1>3, NoResultYet DEF RouterInv
<1>10. AllowanceOK'
  <2>1. run = FreshRun
    BY <1>1 DEF RouterInv, ReviewsOK
  <2>2. \A k \in Outputs : Used(k) = 0
    BY <2>1, FreshFields DEF Used, Counted
  <2>3. \A k \in Outputs : Spent(k)' = Spent(k)
    BY <1>6, <2>2
  <2>4. OutputLimits' = OutputLimits
    BY <1>2 DEF OutputLimits
  <2>5. Reserved'
    BY <1>1, <1>2, <2>3, <2>4 DEF RouterInv, AllowanceOK, Reserved
  <2> QED  BY <1>1, <1>2, <2>5 DEF RouterInv, AllowanceOK, After
<1> QED  BY <1>6, <1>7, <1>8, <1>9, <1>10 DEF RouterInv

(***************************************************************************)
(* The running backend.                                                    *)
(***************************************************************************)
LEMMA BackendKeeps ==
    ASSUME RouterInv, pc = "running",
           UNCHANGED <<budgetVars, pc, attemptVars, reviewer, terminal, outcome>>,
           run' \in BackendRun, run'.early = run.early, run'.next = run.next,
           Told(run.rejection)',
           run.early # NoReview =>
               run'.candidates # <<>> /\ run'.candidates[1] = run.candidates[1],
           Within', run'.candidates = <<>> => run'.used["assignments"] = 0,
           position \in Reliable =>
               /\ run'.rejection \notin {"limit", "invalid"}
               /\ FewOffered'
               /\ run'.completion.kind = "outcome" =>
                  /\ run'.completion.valid
                  /\ run'.completion.termination \in {"OptimalityClaimed", "CandidateFound"} =>
                         run'.candidates # <<>>
                  /\ run'.completion.termination \in {"Failed", "Unavailable"} =>
                         run'.candidates = <<>> \/ StopReason # "none"
    PROVE  RouterInv'
<1>1. /\ UNCHANGED <<now, cancelled, options, position, remaining, dispatch, attempts>>
      /\ pc' = "running" /\ terminal' = terminal /\ outcome' = outcome /\ reviewer' = reviewer
  BY DEF budgetVars, attemptVars
<1>2. Typed'
  BY <1>1 DEF RouterInv, Typed
<1>3. ReviewsOK'
  <2>1. /\ terminal = NoTerminal
        /\ run.early = NoReview => reviewer = NewReviewer
        /\ run.early # NoReview =>
               options.collect /\ EarlyOK(run.early, reviewer, run.candidates[1])
        /\ run.next = 1
    BY DEF RouterInv, ReviewsOK, Over
  <2>2. run'.early # NoReview => EarlyOK(run'.early, reviewer', run'.candidates[1])
    BY <1>1, <2>1 DEF EarlyOK
  <2> QED  BY <1>1, <2>1, <2>2 DEF ReviewsOK, After
<1>4. StopsOK'
  BY <1>1 DEF StopsOK, After
<1>5. ResultOK'
  BY <1>1, NoResultYet DEF RouterInv, Over
<1>6. AllowanceOK' /\ TimeoutsExplained'
  BY <1>1, AccountsKept DEF RouterInv, AllowanceOK, After
<1>7. ReliableOK'
  <2>1. StopReason' = StopReason
    BY <1>1 DEF StopReason, Stopped, Expired, Elapsed
  <2>2. /\ OutputLimits' = OutputLimits /\ remaining["candidates"] = OutputLimits["candidates"]
        /\ remaining["assignments"] = OutputLimits["assignments"]
    BY <1>1 DEF RouterInv, ReliableOK, OutputLimits
  <2> QED  BY <1>1, <2>1, <2>2 DEF ReliableOK, CutShort
<1> QED  BY <1>2, <1>3, <1>4, <1>5, <1>6, <1>7 DEF RouterInv

\* What is known while a backend runs.
LEMMA WhileRunning ==
    ASSUME RouterInv, Running
    PROVE  /\ Typed /\ pc = "running" /\ run \in BackendRun /\ run.completion = NoCompletion
           /\ Told(run.rejection)
           /\ run.early # NoReview => run.candidates # <<>>
           /\ Within /\ (run.candidates = <<>> => run.used["assignments"] = 0)
           /\ remaining["candidates"] = OutputLimits["candidates"]
           /\ remaining["assignments"] = OutputLimits["assignments"]
           /\ position \in Reliable => run.rejection \notin {"limit", "invalid"} /\ FewOffered
<1>1. Typed /\ pc = "running" /\ run.completion.kind = "none"
  BY DEF RouterInv, Running
<1>2. run \in BackendRun /\ run.completion = NoCompletion
  BY <1>1, RunFields, CompletionKinds
<1>3. Told(run.rejection)
  BY <1>1 DEF RouterInv, StopsOK
<1>4. run.early # NoReview => run.candidates # <<>>
  BY <1>1 DEF RouterInv, ReviewsOK, Over
<1>5. Within /\ (run.candidates = <<>> => run.used["assignments"] = 0)
  BY <1>1 DEF RouterInv, AllowanceOK
<1>6. /\ remaining["candidates"] = OutputLimits["candidates"]
      /\ remaining["assignments"] = OutputLimits["assignments"]
      /\ position \in Reliable => run.rejection \notin {"limit", "invalid"} /\ FewOffered
  BY <1>1 DEF RouterInv, ReliableOK
<1> QED  BY <1>1, <1>2, <1>3, <1>4, <1>5, <1>6

\* A rejection by the budget, or any that is told, is remembered.
LEMMA RejectKeeps ==
    ASSUME RouterInv, Running, NEW x \in Rejections, run' = [run EXCEPT !.rejection = x],
           Told(x), position \in Reliable => x \notin {"limit", "invalid"},
           UNCHANGED <<budgetVars, pc, attemptVars, reviewer, terminal, outcome>>
    PROVE  RouterInv'
<1>1. /\ Typed /\ pc = "running" /\ run \in BackendRun /\ run.completion = NoCompletion
      /\ run.early # NoReview => run.candidates # <<>>
      /\ Within /\ (run.candidates = <<>> => run.used["assignments"] = 0)
      /\ position \in Reliable => FewOffered
  BY WhileRunning
<1>2. /\ run' \in BackendRun /\ run'.rejection = x /\ run'.candidates = run.candidates
      /\ run'.used = run.used /\ run'.early = run.early
      /\ run'.completion = run.completion /\ run'.next = run.next
  BY <1>1, SetRejection
<1>3. Told(run.rejection)'
  BY <1>2 DEF Told, Expired, budgetVars
<1>4. (FewOffered' <=> FewOffered) /\ (Within' <=> Within)
  BY <1>2, RunAccountsKept DEF FewOffered, Unfinished, attemptVars, budgetVars
<1>5. run'.completion.kind # "outcome"
  BY <1>1, <1>2 DEF NoCompletion
<1> QED  BY <1>1, <1>2, <1>3, <1>4, <1>5, BackendKeeps

LEMMA BackendEmitsKeeps ==
    ASSUME RouterInv, BackendEmits
    PROVE  RouterInv'
<1>1. Running /\ UNCHANGED <<budgetVars, pc, attemptVars, reviewer, terminal, outcome>>
  BY DEF BackendEmits
<1>2. /\ Typed /\ pc = "running" /\ run \in BackendRun /\ run.completion = NoCompletion
      /\ Told(run.rejection)
      /\ run.early # NoReview => run.candidates # <<>>
      /\ Within /\ (run.candidates = <<>> => run.used["assignments"] = 0)
      /\ position \in Reliable => run.rejection \notin {"limit", "invalid"} /\ FewOffered
  BY <1>1, WhileRunning
<1>3. CASE StopReason # "none"
  <2>1. PICK x : x = IF run.rejection \in {"none", "invalid"} THEN StopReason ELSE run.rejection
    OBVIOUS
  <2>2. x \in Rejections /\ Told(x)
    BY <1>2, <2>1, ReasonIs, RunFields DEF Rejections
  <2>3. position \in Reliable => x \notin {"limit", "invalid"}
    BY <1>2, <2>1, ReasonIs DEF BudgetStops
  <2>4. run' = [run EXCEPT !.rejection = x]
    BY <1>3, <2>1 DEF BackendEmits, Reject
  <2> QED  BY <1>1, <2>2, <2>3, <2>4, RejectKeeps
<1>4. CASE StopReason = "none"
  <2>1. PICK counted \in {{"progress"}, {"progress", "lines"}} :
            /\ \A k \in counted : run.used[k] < remaining[k]
            /\ run' = [run EXCEPT !.used =
                           [k \in Counted |-> IF k \in counted THEN @[k] + 1 ELSE @[k]]]
    BY <1>4 DEF BackendEmits
  <2>2. PICK x : x = [k \in Counted |-> IF k \in counted THEN run.used[k] + 1 ELSE run.used[k]]
    OBVIOUS
  <2>3. run.used \in [Counted -> Nat] /\ remaining \in [Outputs -> Nat]
    BY <1>2, RunFields
  <2>4. /\ x \in [Counted -> Nat] /\ x["assignments"] = run.used["assignments"]
        /\ \A k \in Counted : k \in counted \/ x[k] = run.used[k]
        /\ \A k \in counted : x[k] = run.used[k] + 1
    BY <2>1, <2>2, <2>3 DEF Counted, Outputs
  <2>5. run' = [run EXCEPT !.used = x]
    BY <2>1, <2>2
  <2>6. /\ run' \in BackendRun /\ run'.used = x
        /\ run'.candidates = run.candidates /\ run'.early = run.early
        /\ run'.rejection = run.rejection /\ run'.completion = run.completion
        /\ run'.next = run.next
    BY <1>2, <2>4, <2>5, SetUsed
  <2>7. Told(run.rejection)'
    BY <1>1, <1>2, <2>6 DEF Told, Expired, budgetVars
  <2>8. FewOffered' <=> FewOffered
    BY <1>1, <2>4, <2>6 DEF FewOffered, Unfinished, budgetVars
  <2>9. Within'
    <3>1. SUFFICES ASSUME NEW k \in Outputs PROVE Used(k)' <= remaining'[k]
      BY DEF Within
    <3>2. remaining' = remaining /\ Used(k) <= remaining[k]
      BY <1>1, <1>2 DEF attemptVars, Within
    <3>3. CASE k = "candidates"
      BY <2>6, <3>2, <3>3 DEF Used
    <3>4. CASE k # "candidates"
      <4>1. k \in Counted /\ run.used[k] \in Nat /\ remaining[k] \in Nat
        BY <2>3, <3>4 DEF Counted
      <4>2. x[k] <= remaining[k]
        BY <2>1, <2>4, <3>2, <3>4, <4>1 DEF Used
      <4> QED  BY <2>6, <3>2, <3>4, <4>2 DEF Used
    <3> QED  BY <3>3, <3>4
  <2>10. run'.completion.kind # "outcome"
    BY <1>2, <2>6 DEF NoCompletion
  <2> QED  BY <1>1, <1>2, <2>4, <2>6, <2>7, <2>8, <2>9, <2>10, BackendKeeps
<1> QED  BY <1>3, <1>4

LEMMA BackendSubmitsKeeps ==
    ASSUME RouterInv, BackendSubmits
    PROVE  RouterInv'
<1>1. Running /\ UNCHANGED <<budgetVars, pc, attemptVars, reviewer, terminal, outcome>>
  BY DEF BackendSubmits
<1>2. /\ Typed /\ pc = "running" /\ run \in BackendRun /\ run.completion = NoCompletion
      /\ Told(run.rejection)
      /\ run.early # NoReview => run.candidates # <<>>
      /\ Within /\ (run.candidates = <<>> => run.used["assignments"] = 0)
      /\ remaining["candidates"] = OutputLimits["candidates"]
      /\ remaining["assignments"] = OutputLimits["assignments"]
      /\ position \in Reliable => run.rejection \notin {"limit", "invalid"} /\ FewOffered
  BY <1>1, WhileRunning
<1>3. PICK q \in Quality, role \in {"incumbent", "final"}, form \in Forms :
          LET c == [role |-> role, sequence |-> Len(run.candidates) + 1,
                    sound |-> q.sound, score |-> q.score, matches |-> q.matches]
              error == CandidateError(form)
          IN  /\ MayOffer(role)
              /\ position \in Reliable => form = "complete"
              /\ run' = CASE error = "none" -> Admit(c)
                          [] error = "invalid" -> Refuse(run)
                          [] OTHER -> Reject(run, error)
  BY DEF BackendSubmits
<1>4. /\ run.candidates \in Seq(Candidate) /\ Len(run.candidates) \in Nat
      /\ run.rejection \in Rejections /\ remaining \in [Outputs -> Nat]
      /\ run.used \in [Counted -> Nat] /\ run.used["assignments"] \in Nat
      /\ remaining["candidates"] \in Nat /\ remaining["assignments"] \in Nat
      /\ Variables \in Nat
  <2>1. /\ run.candidates \in Seq(Candidate) /\ run.rejection \in Rejections
        /\ remaining \in [Outputs -> Nat] /\ run.used \in [Counted -> Nat]
    BY <1>2, RunFields
  <2>2. Variables \in Nat
    BY RouterAssumption
  <2>3. Len(run.candidates) \in Nat
    BY <2>1
  <2>4. {"candidates", "assignments"} \subseteq Outputs /\ "assignments" \in Counted
    BY DEF Counted, Outputs
  <2>5. /\ run.used["assignments"] \in Nat /\ remaining["candidates"] \in Nat
        /\ remaining["assignments"] \in Nat
    BY <2>1, <2>4
  <2> QED  BY <2>1, <2>2, <2>3, <2>5
<1>5. PICK c : c = [role |-> role, sequence |-> Len(run.candidates) + 1,
                    sound |-> q.sound, score |-> q.score, matches |-> q.matches]
  OBVIOUS
<1>6. c \in Candidate /\ c.role = role
  <2>1. q \in [sound : BOOLEAN, score : Nat, matches : BOOLEAN]
    BY RouterAssumption
  <2>2. q.sound \in BOOLEAN /\ q.score \in Nat /\ q.matches \in BOOLEAN
    BY <2>1
  <2>3. Len(run.candidates) + 1 \in Nat
    BY <1>4
  <2> QED  BY <1>5, <2>2, <2>3 DEF Candidate
<1>7. PICK error : error = CandidateError(form)
  OBVIOUS
<1>8. /\ MayOffer(role)
      /\ position \in Reliable => form = "complete"
      /\ run' = CASE error = "none" -> Admit(c)
                  [] error = "invalid" -> Refuse(run)
                  [] OTHER -> Reject(run, error)
  BY <1>3, <1>5, <1>7
<1>9. /\ error \in Rejections /\ Told(error)
      /\ error = "none" =>
             /\ Len(run.candidates) < remaining["candidates"]
             /\ run.used["assignments"] + Variables <= remaining["assignments"]
      /\ error = "limit" => OverLimit(form)
      /\ error = "invalid" => form # "complete"
  <2>1. StopReason \in {"none"} \cup BudgetStops /\ Told(StopReason)
    BY <1>2, ReasonIs
  <2>2. error \in {StopReason, "limit", "none", "invalid"}
    BY <1>7 DEF CandidateError
  <2>3. error \in Rejections /\ Told(error)
    BY <2>1, <2>2 DEF Rejections, BudgetStops, Told
  <2>4. error = "none" => form = "complete" /\ ~OverLimit(form)
    BY <1>7, <2>1 DEF CandidateError
  <2>5. error \in {"limit", "invalid"} => StopReason = "none"
    BY <1>7, <2>1 DEF CandidateError, BudgetStops
  <2>6. error = "limit" => OverLimit(form)
    BY <1>7, <2>5 DEF CandidateError
  <2>7. error = "invalid" => form # "complete"
    BY <1>7, <2>5 DEF CandidateError
  <2>8. form = "complete" /\ ~OverLimit(form) =>
            /\ Len(run.candidates) < remaining["candidates"]
            /\ run.used["assignments"] + Variables <= remaining["assignments"]
    BY <1>4 DEF OverLimit
  <2> QED  BY <2>3, <2>4, <2>6, <2>7, <2>8
\* A reliable backend does not exceed its output.
<1>10. position \in Reliable => Unfinished /\ ~OverLimit(form)
  <2>1. SUFFICES ASSUME position \in Reliable PROVE Unfinished /\ ~OverLimit(form)
    OBVIOUS
  <2>2. Unfinished
    BY <1>8, <2>1 DEF MayOffer, Unfinished
  <2>3. /\ OutputLimits["candidates"] \in Nat \ {0}
        /\ options.collect => /\ OutputLimits["candidates"] >= 2
                              /\ OutputLimits["assignments"] >= 2 * Variables
        /\ OutputLimits["assignments"] >= Variables
    BY <1>2, LimitsAre DEF Outputs
  <2>4. /\ Len(run.candidates) <= IF options.collect THEN 1 ELSE 0
        /\ run.used["assignments"] <= Variables
    BY <1>2, <2>1, <2>2 DEF FewOffered
  <2>5. Len(run.candidates) < remaining["candidates"]
    BY <1>2, <1>4, <2>3, <2>4
  <2>6. run.used["assignments"] + Variables <= remaining["assignments"]
    <3>1. CASE options.collect
      BY <1>2, <1>4, <2>3, <2>4, <3>1
    <3>2. CASE ~options.collect
      <4>1. run.candidates = <<>>
        BY <1>4, <2>4, <3>2
      <4>2. run.used["assignments"] = 0
        BY <1>2, <4>1
      <4> QED  BY <1>2, <1>4, <2>3, <4>2
    <3> QED  BY <3>1, <3>2
  <2>7. ~OverLimit(form)
    BY <1>4, <1>8, <2>1, <2>5, <2>6 DEF OverLimit
  <2> QED  BY <2>2, <2>7
<1>11. CASE error = "none"
  <2>1. PICK y : y = [run.used EXCEPT !["assignments"] = @ + Variables]
    OBVIOUS
  <2>2. PICK s : s = Append(run.candidates, c)
    OBVIOUS
  <2>3. /\ s \in Seq(Candidate) /\ Len(s) = Len(run.candidates) + 1
        /\ \A i \in 1 .. Len(run.candidates) : s[i] = run.candidates[i]
        /\ s[Len(run.candidates) + 1] = c /\ DOMAIN s = 1 .. Len(run.candidates) + 1
        /\ s # <<>>
    BY <1>4, <1>6, <2>2
  <2>4. /\ y \in [Counted -> Nat] /\ y["assignments"] = run.used["assignments"] + Variables
        /\ \A k \in Counted : k # "assignments" => y[k] = run.used[k]
    BY <1>4, <2>1 DEF Counted, Outputs
  <2>5. run' = [run EXCEPT !.candidates = s, !.used = y]
    BY <1>8, <1>11, <2>1, <2>2 DEF Admit
  <2>6. /\ run' \in BackendRun /\ run'.candidates = s /\ run'.used = y
        /\ run'.early = run.early /\ run'.rejection = run.rejection
        /\ run'.completion = run.completion /\ run'.next = run.next
    <3>1. PICK w : w = [run EXCEPT !.candidates = s, !.used = y]
      OBVIOUS
    <3>2. run \in BackendRun /\ s \in Seq(Candidate) /\ y \in [Counted -> Nat]
      BY <1>2, <2>3, <2>4
    <3>3. /\ w \in BackendRun /\ w.candidates = s /\ w.used = y
          /\ w.early = run.early /\ w.rejection = run.rejection
          /\ w.completion = run.completion /\ w.stop = run.stop /\ w.next = run.next
      BY <3>1, <3>2 DEF BackendRun
    <3> QED  BY <2>5, <3>1, <3>3
  <2>7. Told(run.rejection)'
    BY <1>1, <1>2, <2>6 DEF Told, Expired, budgetVars
  <2>8. run.early # NoReview => s # <<>> /\ s[1] = run.candidates[1]
    BY <1>2, <1>4, <2>3
  <2>9. Within'
    <3>1. SUFFICES ASSUME NEW k \in Outputs PROVE Used(k)' <= remaining'[k]
      BY DEF Within
    <3>2. remaining' = remaining /\ Used(k) <= remaining[k]
      BY <1>1, <1>2 DEF attemptVars, Within
    <3>3. CASE k = "candidates"
      BY <1>4, <1>9, <1>11, <2>3, <2>6, <3>2, <3>3 DEF Used
    <3>4. CASE k = "assignments"
      BY <1>4, <1>9, <1>11, <2>4, <2>6, <3>2, <3>4 DEF Used
    <3>5. CASE k \notin {"candidates", "assignments"}
      <4>1. k \in Counted
        BY <3>5 DEF Counted
      <4> QED  BY <2>4, <2>6, <3>2, <3>5, <4>1 DEF Used
    <3> QED  BY <3>3, <3>4, <3>5
  <2>10. position \in Reliable => FewOffered'
    <3>1. SUFFICES ASSUME position \in Reliable, Unfinished'
                   PROVE  /\ Len(s) <= IF options.collect THEN 1 ELSE 0
                          /\ y["assignments"] <= Variables
      BY <1>1, <2>6 DEF FewOffered, budgetVars
    <3>2. role # "final"
      <4>1. \A i \in DOMAIN s : s[i].role # "final"
        BY <2>6, <3>1 DEF Unfinished
      <4>2. Len(run.candidates) + 1 \in DOMAIN s
        BY <1>4, <2>3
      <4> QED  BY <1>6, <2>3, <4>1, <4>2
    <3>3. options.collect /\ run.candidates = <<>>
      BY <1>8, <3>1, <3>2 DEF MayOffer
    <3>4. run.used["assignments"] = 0
      BY <1>2, <3>3
    <3> QED  BY <1>4, <2>3, <2>4, <3>3, <3>4
  <2>11. run'.completion.kind # "outcome"
    BY <1>2, <2>6 DEF NoCompletion
  <2> QED
    BY <1>1, <1>2, <2>3, <2>6, <2>7, <2>8, <2>9, <2>10, <2>11, BackendKeeps
<1>12. CASE error = "invalid"
  <2>1. PICK x : x = IF options.collect /\ run.rejection = "none" THEN "invalid" ELSE run.rejection
    OBVIOUS
  <2>2. x \in Rejections /\ Told(x)
    BY <1>2, <1>4, <2>1 DEF Rejections, Told
  <2>3. position \in Reliable => x \notin {"limit", "invalid"}
    BY <1>2, <1>8, <1>9, <1>12
  <2>4. run' = [run EXCEPT !.rejection = x]
    BY <1>8, <1>12, <2>1 DEF Refuse
  <2> QED  BY <1>1, <2>2, <2>3, <2>4, RejectKeeps
<1>13. CASE error \notin {"none", "invalid"}
  <2>1. PICK x : x = IF run.rejection \in {"none", "invalid"} THEN error ELSE run.rejection
    OBVIOUS
  <2>2. x \in Rejections /\ Told(x)
    BY <1>2, <1>4, <1>9, <2>1
  <2>3. position \in Reliable => error # "limit"
    BY <1>9, <1>10
  <2>4. position \in Reliable => x \notin {"limit", "invalid"}
    BY <1>2, <1>13, <2>1, <2>3
  <2>5. run' = [run EXCEPT !.rejection = x]
    BY <1>8, <1>13, <2>1 DEF Reject
  <2> QED  BY <1>1, <2>2, <2>4, <2>5, RejectKeeps
<1> QED  BY <1>11, <1>12, <1>13

\* A backend that has answered, or was given up.
LEMMA AnswerKeeps ==
    ASSUME RouterInv, Running, NEW o \in Completion, run' = [run EXCEPT !.completion = o],
           position \in Reliable /\ o.kind = "outcome" =>
               /\ o.valid
               /\ o.termination \in {"OptimalityClaimed", "CandidateFound"} =>
                      run.candidates # <<>>
               /\ o.termination \in {"Failed", "Unavailable"} =>
                      run.candidates = <<>> \/ StopReason # "none",
           UNCHANGED <<budgetVars, pc, attemptVars, reviewer, terminal, outcome>>
    PROVE  RouterInv'
<1>1. /\ Typed /\ pc = "running" /\ run \in BackendRun /\ run.completion = NoCompletion
      /\ Told(run.rejection)
      /\ run.early # NoReview => run.candidates # <<>>
      /\ Within /\ (run.candidates = <<>> => run.used["assignments"] = 0)
      /\ position \in Reliable => run.rejection \notin {"limit", "invalid"} /\ FewOffered
  BY WhileRunning
<1>2. /\ run' \in BackendRun /\ run'.completion = o /\ run'.candidates = run.candidates
      /\ run'.used = run.used /\ run'.early = run.early
      /\ run'.rejection = run.rejection /\ run'.next = run.next
  BY <1>1, SetCompletion
<1>3. Told(run.rejection)'
  BY <1>1, <1>2 DEF Told, Expired, budgetVars
<1>4. (FewOffered' <=> FewOffered) /\ (Within' <=> Within)
  BY <1>2, RunAccountsKept DEF FewOffered, Unfinished, attemptVars, budgetVars
<1> QED  BY <1>1, <1>2, <1>3, <1>4, BackendKeeps

LEMMA BackendReturnsKeeps ==
    ASSUME RouterInv, BackendReturns
    PROVE  RouterInv'
<1>1. Running /\ UNCHANGED <<budgetVars, pc, attemptVars, reviewer, terminal, outcome>>
  BY DEF BackendReturns
<1>2. PICK o \in Completions : /\ position \in Reliable => KeepsContract(o)
                               /\ run' = [run EXCEPT !.completion = o]
  BY DEF BackendReturns
<1>3. o \in Completion
  BY DEF Completion
<1>4. run.candidates \in Seq(Candidate)
  BY RunFields DEF RouterInv
<1>5. ASSUME position \in Reliable, o.kind = "outcome"
      PROVE  /\ o.valid
             /\ o.termination \in {"OptimalityClaimed", "CandidateFound"} =>
                    run.candidates # <<>>
             /\ o.termination \in {"Failed", "Unavailable"} =>
                    run.candidates = <<>> \/ StopReason # "none"
  <2>1. Session!Fits(o.termination) /\ o.valid
    BY <1>2, <1>5 DEF KeepsContract
  <2>2. [i \in DOMAIN run.candidates |-> Role(run.candidates[i])] = <<>> <=> run.candidates = <<>>
    BY <1>4
  <2> QED  BY <2>1, <2>2 DEF Session!Fits, Session!Claims
<1> QED  BY <1>1, <1>2, <1>3, <1>5, AnswerKeeps

LEMMA TimesOutKeeps ==
    ASSUME RouterInv, TimesOut
    PROVE  RouterInv'
<1>1. Running /\ UNCHANGED <<budgetVars, pc, attemptVars, reviewer, terminal, outcome>>
  BY DEF TimesOut
<1>2. PICK o : o = [kind |-> "timeout"]
  OBVIOUS
<1>3. o \in Completion /\ o.kind # "outcome" /\ run' = [run EXCEPT !.completion = o]
  BY <1>2 DEF TimesOut, Completion
<1> QED  BY <1>1, <1>3, AnswerKeeps

(***************************************************************************)
(* The early review.                                                       *)
(***************************************************************************)
LEMMA PreviewKeeps ==
    ASSUME RouterInv, pc \in {"running", "previewing"}, pc' \in {"running", "previewing"},
           UNCHANGED <<budgetVars, attemptVars, terminal, outcome>>, reviewer' \in Reviewer,
           run' \in BackendRun, run'.candidates = run.candidates, run'.used = run.used,
           run'.rejection = run.rejection, run'.completion = run.completion,
           ReviewsOK'
    PROVE  RouterInv'
<1>1. UNCHANGED <<now, cancelled, options, position, remaining, dispatch, attempts>>
  BY DEF budgetVars, attemptVars
<1>2. Typed'
  BY <1>1 DEF RouterInv, Typed
<1>3. StopsOK'
  <2>1. Told(run.rejection)
    BY DEF RouterInv, StopsOK
  <2>2. Told(run.rejection)'
    BY <1>1, <2>1 DEF Told, Expired
  <2> QED  BY <2>2 DEF StopsOK, After
<1>4. ResultOK'
  BY NoResultYet DEF RouterInv, Over
<1>5. AllowanceOK' /\ TimeoutsExplained'
  BY <1>1, AccountsKept, RunAccountsKept DEF RouterInv, AllowanceOK, After
<1>6. ReliableOK'
  <2>1. StopReason' = StopReason
    BY <1>1 DEF StopReason, Stopped, Expired, Elapsed
  <2>2. /\ OutputLimits' = OutputLimits /\ remaining["candidates"] = OutputLimits["candidates"]
        /\ remaining["assignments"] = OutputLimits["assignments"]
    BY <1>1 DEF RouterInv, ReliableOK, OutputLimits
  <2>3. FewOffered' <=> FewOffered
    BY <1>1 DEF FewOffered, Unfinished
  <2> QED  BY <1>1, <2>1, <2>2, <2>3 DEF RouterInv, ReliableOK, CutShort
<1> QED  BY <1>2, <1>3, <1>4, <1>5, <1>6 DEF RouterInv

LEMMA BeginEarlyReviewKeeps ==
    ASSUME RouterInv, BeginEarlyReview
    PROVE  RouterInv'
<1>1. /\ pc = "running" /\ options.collect /\ run.candidates # <<>> /\ run.early = NoReview
      /\ UNCHANGED <<budgetVars, attemptVars, reviewer, terminal, outcome>>
      /\ options' = options
  BY DEF BeginEarlyReview, FirstPending, budgetVars
<1>2. Typed /\ run \in BackendRun /\ reviewer' \in Reviewer
  BY <1>1 DEF RouterInv, Typed
<1>3. reviewer = NewReviewer /\ terminal = NoTerminal /\ run.next = 1
  BY <1>1 DEF RouterInv, ReviewsOK, Over
<1>4. CASE Stopped
  <2>1. PICK e : e = Interruption
    OBVIOUS
  <2>2. e \in Interruptions /\ run' = [run EXCEPT !.early = e] /\ pc' = "running"
    BY <1>1, <1>2, <1>4, <2>1, ReasonIs DEF BeginEarlyReview
  <2>3. e \in EarlyReviews /\ e \notin Good /\ e # NoReview
    BY <2>2 DEF Interruptions, EarlyReviews, Good, NoReview
  <2>4. /\ run' \in BackendRun /\ run'.early = e /\ run'.candidates = run.candidates
        /\ run'.used = run.used /\ run'.rejection = run.rejection
        /\ run'.completion = run.completion /\ run'.next = run.next
    BY <1>2, <2>2, <2>3, SetEarly
  <2>5. EarlyOK(run'.early, reviewer', run'.candidates[1])
    BY <1>1, <1>3, <2>3, <2>4, DecisionKinds DEF EarlyOK, HasAccepted
  <2>6. ReviewsOK'
    BY <1>1, <1>3, <2>2, <2>3, <2>4, <2>5 DEF ReviewsOK, After
  <2> QED  BY <1>1, <1>2, <2>2, <2>4, <2>6, PreviewKeeps
<1>5. CASE ~Stopped
  <2>1. pc' = "previewing" /\ run' = run
    BY <1>5 DEF BeginEarlyReview
  <2>2. ReviewsOK'
    BY <1>1, <1>3, <2>1 DEF ReviewsOK, After
  <2> QED  BY <1>1, <1>2, <2>1, <2>2, PreviewKeeps
<1> QED  BY <1>4, <1>5

LEMMA EndEarlyReviewKeeps ==
    ASSUME RouterInv, EndEarlyReview
    PROVE  RouterInv'
<1>1. /\ pc = "previewing" /\ pc' = "running"
      /\ UNCHANGED <<budgetVars, attemptVars, terminal, outcome>>
      /\ options' = options
  BY DEF EndEarlyReview, budgetVars
<1>2. Typed /\ run \in BackendRun /\ run.candidates \in Seq(Candidate)
  BY RunFields DEF RouterInv
<1>3. /\ reviewer = NewReviewer /\ terminal = NoTerminal /\ run.early = NoReview
      /\ run.candidates # <<>> /\ run.next = 1 /\ options.collect
  BY <1>1 DEF RouterInv, ReviewsOK, Over
<1>4. PICK c : c = run.candidates[1]
  OBVIOUS
<1>5. c \in Candidate
  BY <1>2, <1>3, <1>4
<1>6. PICK v \in Verdicts(reviewer, c, Stopped) :
          LET result == Review(reviewer, c, v, Stopped, Interruption)
          IN  reviewer' = result.reviewer /\ run' = [run EXCEPT !.early = result.review]
  BY <1>4 DEF EndEarlyReview
<1>7. PICK b : b = Stopped
  OBVIOUS
<1>8. PICK i : i = Interruption
  OBVIOUS
<1>9. b \in BOOLEAN /\ i \in Interruptions
  BY <1>2, <1>7, <1>8, ReasonIs
<1>10. PICK result : result = Review(NewReviewer, c, v, b, i)
  OBVIOUS
<1>11. /\ v \in Verdicts(NewReviewer, c, b)
       /\ reviewer' = result.reviewer /\ run' = [run EXCEPT !.early = result.review]
  BY <1>3, <1>6, <1>7, <1>8, <1>10
<1>12. /\ result.reviewer \in Reviewer /\ result.review \in EarlyReviews
       /\ EarlyOK(result.review, result.reviewer, c)
  BY <1>5, <1>9, <1>10, <1>11, FirstReview
<1>13. /\ run' \in BackendRun /\ run'.early = result.review /\ run'.candidates = run.candidates
       /\ run'.used = run.used /\ run'.rejection = run.rejection
       /\ run'.completion = run.completion /\ run'.next = run.next
  BY <1>2, <1>11, <1>12, SetEarly
<1>14. EarlyOK(run'.early, reviewer', run'.candidates[1])
  BY <1>4, <1>11, <1>12, <1>13 DEF EarlyOK
<1>15. run'.early # NoReview
  BY <1>12, <1>13 DEF EarlyReviews, NoReview
<1>16. ReviewsOK'
  BY <1>1, <1>3, <1>13, <1>14, <1>15 DEF ReviewsOK, After
<1> QED  BY <1>1, <1>11, <1>12, <1>13, <1>16, PreviewKeeps

(***************************************************************************)
(* After the backend.                                                      *)
(***************************************************************************)
LEMMA RunStopIs ==
    ASSUME RouterInv, pc = "running"
    PROVE  /\ RunStop \in {"none"} \cup BudgetStops /\ Told(RunStop)
           /\ run.rejection \in BudgetStops => RunStop = run.rejection
           /\ run.completion.kind = "timeout" => RunStop # "none"
           /\ StopReason # "none" => RunStop # "none"
<1>1. Typed /\ Told(run.rejection)
  BY DEF RouterInv, StopsOK
<1>2. StopReason \in {"none"} \cup BudgetStops /\ Told(StopReason)
  BY <1>1, ReasonIs
<1>3. /\ run.rejection \in BudgetStops => RunStop = run.rejection
      /\ run.rejection \notin BudgetStops /\ StopReason # "none" => RunStop = StopReason
      /\ run.rejection \notin BudgetStops /\ StopReason = "none" =>
             RunStop = IF run.completion.kind = "timeout" THEN "BackendLimitExceeded" ELSE "none"
  BY DEF RunStop
<1>4. "none" \notin BudgetStops /\ "BackendLimitExceeded" \in BudgetStops
  BY DEF BudgetStops
<1>5. Told("BackendLimitExceeded") /\ Told("none")
  BY DEF Told
<1> QED  BY <1>1, <1>2, <1>3, <1>4, <1>5

LEMMA CollectRunKeeps ==
    ASSUME RouterInv, CollectRun
    PROVE  RouterInv'
<1>1. /\ pc = "running" /\ pc' = "collected" /\ run.completion.kind # "none" /\ ~FirstPending
      /\ UNCHANGED <<now, cancelled, options, position, remaining, dispatch, attempts, reviewer,
                     terminal, outcome>>
  BY DEF CollectRun, budgetVars, attemptVars
<1>2. Typed /\ run \in BackendRun
  BY RunFields DEF RouterInv
<1>3. PICK x : x = RunStop
  OBVIOUS
<1>4. /\ x \in {"none"} \cup BudgetStops /\ Told(x)
      /\ run.rejection \in BudgetStops => x = run.rejection
      /\ run.completion.kind = "timeout" => x # "none"
      /\ StopReason # "none" => x # "none"
  BY <1>1, <1>3, RunStopIs
<1>5. run' = [run EXCEPT !.stop = x]
  BY <1>3 DEF CollectRun
<1>6. /\ run' \in BackendRun /\ run'.stop = x /\ run'.candidates = run.candidates
      /\ run'.used = run.used /\ run'.early = run.early
      /\ run'.rejection = run.rejection /\ run'.completion = run.completion
      /\ run'.next = run.next
  BY <1>2, <1>4, <1>5, SetStop
<1>7. Typed'
  BY <1>1, <1>2, <1>6 DEF Typed
<1>8. ReviewsOK'
  <2>1. /\ terminal = NoTerminal /\ run.next = 1
        /\ run.early = NoReview => reviewer = NewReviewer
        /\ run.early # NoReview =>
               /\ options.collect /\ run.candidates # <<>>
               /\ EarlyOK(run.early, reviewer, run.candidates[1])
    BY <1>1 DEF RouterInv, ReviewsOK, Over
  <2>2. run'.early # NoReview => EarlyOK(run'.early, reviewer', run'.candidates[1])
    BY <1>1, <1>6, <2>1
  <2>3. ~FirstPending'
    BY <1>1, <1>6 DEF FirstPending
  <2> QED  BY <1>1, <1>6, <2>1, <2>2, <2>3 DEF ReviewsOK, After
<1>9. StopsOK'
  <2>1. Told(run.rejection)
    BY <1>1 DEF RouterInv, StopsOK
  <2>2. Told(run.rejection)' /\ Told(run.stop)'
    BY <1>1, <1>4, <1>6, <2>1 DEF Told, Expired
  <2> QED  BY <1>1, <1>4, <1>6, <2>2 DEF StopsOK, After
<1>10. ResultOK'
  BY <1>1, NoResultYet DEF RouterInv, Over
<1>11. AllowanceOK' /\ TimeoutsExplained'
  BY <1>1, <1>6, AccountsKept, RunAccountsKept DEF RouterInv, AllowanceOK, After
<1>12. ReliableOK'
  BY <1>1, <1>4, <1>6 DEF RouterInv, ReliableOK, CutShort, OutputLimits
<1> QED  BY <1>7, <1>8, <1>9, <1>10, <1>11, <1>12 DEF RouterInv

\* The output of the run is taken off the allowance.
LEMMA ConsumeIs ==
    ASSUME RouterInv, pc = "collected", remaining' = Consume
    PROVE  /\ remaining' \in [Outputs -> Nat]
           /\ \A k \in Outputs : remaining'[k] + Used(k) = remaining[k]
<1>1. Typed /\ Within /\ remaining \in [Outputs -> Nat]
  BY DEF RouterInv, AllowanceOK, Typed
<1>2. ASSUME NEW k \in Outputs
      PROVE  /\ Left(remaining[k], Used(k)) \in Nat
             /\ Left(remaining[k], Used(k)) + Used(k) = remaining[k]
  <2>1. Used(k) \in Nat /\ remaining[k] \in Nat /\ Used(k) <= remaining[k]
    BY <1>1, UsedIsNat DEF Within
  <2> QED  BY <2>1 DEF Left
<1>3. /\ \A k \in Outputs : remaining'[k] = Left(remaining[k], Used(k))
      /\ remaining' = [k \in Outputs |-> Left(remaining[k], Used(k))]
  BY DEF Consume
<1> QED  BY <1>2, <1>3

LEMMA AfterBackendKeeps ==
    ASSUME RouterInv, AfterBackend
    PROVE  RouterInv'
<1>1. /\ pc = "collected" /\ remaining' = Consume
      /\ UNCHANGED <<now, cancelled, options, position, dispatch, reviewer, outcome>>
  BY DEF AfterBackend, budgetVars
<1>2. Typed /\ TimeoutsExplained
  BY DEF RouterInv
<1>3. /\ remaining' \in [Outputs -> Nat]
      /\ \A k \in Outputs : remaining'[k] + Used(k) = remaining[k]
  BY <1>1, ConsumeIs
<1>4. Reserved /\ (run.candidates = <<>> => run.used["assignments"] = 0)
  BY <1>1 DEF RouterInv, AllowanceOK, After
<1>5. OutputLimits' = OutputLimits /\ OutputLimits \in [Outputs -> Nat \ {0}]
  <2>1. OutputLimits' = OutputLimits  BY <1>1 DEF OutputLimits
  <2> QED  BY <1>2, <2>1, LimitsAre
<1>6. ASSUME NEW k \in Outputs
      PROVE  Spent(k) \in Nat /\ Spent(k) + Used(k) + remaining'[k] <= OutputLimits[k]
  <2>1. Spent(k) \in Nat /\ Used(k) \in Nat
    BY <1>2, SpentIsNat, UsedIsNat
  <2>2. remaining[k] \in Nat /\ remaining'[k] \in Nat /\ OutputLimits[k] \in Nat
    BY <1>2, <1>3, <1>5 DEF Typed
  <2>3. Spent(k) + remaining[k] <= OutputLimits[k]
    BY <1>4 DEF Reserved
  <2> QED  BY <1>3, <2>1, <2>2, <2>3, Transfer
<1>7. ASSUME pc' = "done", run' = FreshRun, NEW t \in Recordable, NEW b \in BOOLEAN,
             attempts' = Append(attempts, [termination |-> t, fallback |-> b,
                                           used |-> [k \in Outputs |-> Used(k)]]),
             terminal'.reason # "CandidateVerified", terminal'.status # "Optimal"
      PROVE  RouterInv'
  <2>1. /\ attempts' \in Seq(Attempt) /\ TimeoutsExplained'
        /\ \A k \in Outputs : Spent(k)' = Spent(k) + Used(k)
    BY <1>2, <1>7, Recorded, Zenon
  <2>2. Typed'
    BY <1>1, <1>2, <1>3, <1>7, <2>1, FreshFields DEF Typed
  <2>3. ReviewsOK' /\ StopsOK' /\ ReliableOK'
    BY <1>1, <1>7, RoutingOver DEF Over
  <2>4. ResultOK'
    BY <1>1, <1>7, NoResultYet DEF RouterInv, Over
  <2>5. Reserved'
    BY <1>5, <1>6, <2>1 DEF Reserved
  <2>6. AllowanceOK'
    BY <1>7, <2>5, FreshFields DEF AllowanceOK, After
  <2> QED  BY <2>1, <2>2, <2>3, <2>4, <2>6 DEF RouterInv
<1>8. CASE /\ ~Stopped /\ ~OutputError /\ UNCHANGED <<attempts, terminal, run>>
           /\ pc' = IF run.candidates = <<>> THEN "empty" ELSE "judging"
  <2>1. Typed'
    BY <1>1, <1>2, <1>3, <1>8 DEF Typed
  <2>2. ReviewsOK'
    <3>1. /\ terminal = NoTerminal /\ run.next = 1 /\ ~FirstPending
          /\ run.early = NoReview => reviewer = NewReviewer
          /\ run.early # NoReview =>
                 /\ options.collect /\ run.candidates # <<>>
                 /\ EarlyOK(run.early, reviewer, run.candidates[1])
      BY <1>1 DEF RouterInv, ReviewsOK, Over
    <3>2. ~FirstPending'
      BY <1>1, <1>8, <3>1 DEF FirstPending
    <3>3. run'.early # NoReview => EarlyOK(run'.early, reviewer', run'.candidates[1])
      BY <1>1, <1>8, <3>1
    <3> QED  BY <1>1, <1>8, <3>1, <3>2, <3>3 DEF ReviewsOK, After
  <2>3. StopsOK'
    <3>1. /\ Told(run.stop) /\ run.completion.kind # "none"
          /\ run.completion.kind = "timeout" => run.stop # "none"
          /\ run.rejection \in BudgetStops => run.stop = run.rejection
      BY <1>1 DEF RouterInv, StopsOK
    <3>2. run.stop \in {"none", "BackendLimitExceeded"}
      BY <1>2, <1>8, <3>1, RunFields DEF Told, Stopped, BudgetStops
    <3>3. run.rejection \notin {"limit", "invalid"}
      BY <1>8 DEF OutputError
    <3> QED  BY <1>1, <1>8, <3>1, <3>2, <3>3 DEF StopsOK
  <2>4. ResultOK'
    BY <1>1, <1>8, NoResultYet DEF RouterInv, Over
  <2>5. TimeoutsExplained'
    BY <1>2, <1>8 DEF TimeoutsExplained
  <2>6. \A k \in Outputs : Used(k)' = Used(k) /\ Spent(k)' = Spent(k)
    BY <1>1, <1>8 DEF Used, Spent
  <2>7. Taken'
    BY <1>5, <1>6, <2>6 DEF Taken
  <2>8. AllowanceOK'
    BY <1>1, <1>4, <1>8, <2>7 DEF AllowanceOK, After
  <2>9. ReliableOK'
    <3>1. run.candidates = <<>> => /\ remaining'["candidates"] = OutputLimits'["candidates"]
                                   /\ remaining'["assignments"] = OutputLimits'["assignments"]
      <4>1. /\ remaining["candidates"] = OutputLimits["candidates"]
            /\ remaining["assignments"] = OutputLimits["assignments"]
        BY <1>1 DEF RouterInv, ReliableOK
      <4>2. run.candidates = <<>> => Used("candidates") = 0 /\ Used("assignments") = 0
        BY <1>4 DEF Used
      <4>3. /\ remaining'["candidates"] + Used("candidates") = remaining["candidates"]
            /\ remaining'["assignments"] + Used("assignments") = remaining["assignments"]
            /\ remaining'["candidates"] \in Nat /\ remaining'["assignments"] \in Nat
        BY <1>3 DEF Outputs
      <4> QED  BY <1>5, <4>1, <4>2, <4>3
    <3> QED  BY <1>1, <1>8, <3>1 DEF RouterInv, ReliableOK, CutShort
  <2> QED  BY <2>1, <2>2, <2>3, <2>4, <2>5, <2>8, <2>9 DEF RouterInv
<1> QED
  <2>1. "Stopped" \in Recordable /\ "BackendError" \in Recordable /\ FALSE \in BOOLEAN
    BY DEF Recordable
  <2>2. CASE Stopped
    BY <1>7, <2>1, <2>2, StoppedFields DEF AfterBackend, Record, Finish
  <2>3. CASE ~Stopped /\ OutputError /\ (~options.collect \/ run.candidates = <<>>)
    <3>1. /\ Record("BackendError", FALSE)
          /\ run' = FreshRun
          /\ Finish(Terminal("BackendFailed", "SharedOutputLimitExhausted"))
      BY <2>3 DEF AfterBackend
    <3>2. pc' = "done" /\ terminal'.reason # "CandidateVerified" /\ terminal'.status # "Optimal"
      BY <3>1, TerminalFields DEF Finish
    <3> QED  BY <1>7, <2>1, <3>1, <3>2 DEF Record
  <2>4. CASE ~Stopped /\ OutputError /\ options.collect /\ run.candidates # <<>>
    <3>1. /\ Record("BackendError", FALSE)
          /\ run' = FreshRun
          /\ Finish(Terminal("BackendFailed", "BackendFailure"))
      BY <2>4 DEF AfterBackend
    <3>2. pc' = "done" /\ terminal'.reason # "CandidateVerified" /\ terminal'.status # "Optimal"
      BY <3>1, TerminalFields DEF Finish
    <3> QED  BY <1>7, <2>1, <3>1, <3>2 DEF Record
  <2>5. CASE ~Stopped /\ ~OutputError
    BY <1>8, <2>5 DEF AfterBackend
  <2> QED  BY <2>2, <2>3, <2>4, <2>5

\* The last attempt is recorded and routing ends.
LEMMA AttemptOver ==
    ASSUME RouterInv, pc \in After, pc' = "done",
           UNCHANGED <<budgetVars, position, remaining, dispatch, outcome>>,
           run' \in {run, FreshRun}, reviewer' \in Reviewer, NEW t \in Recordable, NEW b \in BOOLEAN,
           attempts' = Append(attempts, [termination |-> t, fallback |-> b,
                                         used |-> [k \in Outputs |-> Used(k)]]),
           ResultOK'
    PROVE  RouterInv'
<1>1. UNCHANGED <<now, cancelled, options, position, remaining, dispatch, outcome>>
  BY DEF budgetVars
<1>2. Typed /\ TimeoutsExplained /\ pc \notin Over
  BY DEF RouterInv, After, Over
<1>3. /\ attempts' \in Seq(Attempt) /\ TimeoutsExplained'
      /\ \A k \in Outputs : Spent(k) \in Nat /\ Spent(k)' = Spent(k) + Used(k)
  BY <1>2, Recorded, Zenon
<1>4. Typed'
  <2>1. run' \in BackendRun  BY <1>2, FreshFields DEF Typed
  <2> QED  BY <1>1, <1>2, <1>3, <2>1 DEF Typed
<1>5. ReviewsOK' /\ StopsOK' /\ ReliableOK'
  BY <1>1, <1>2, RoutingOver
<1>6. AllowanceOK'
  <2>1. Taken /\ (run.candidates = <<>> => run.used["assignments"] = 0)
    BY DEF RouterInv, AllowanceOK
  <2>2. OutputLimits' = OutputLimits
    BY <1>1 DEF OutputLimits
  <2>3. Reserved'
    BY <1>1, <1>3, <2>1, <2>2 DEF Reserved, Taken
  <2>4. run'.candidates = <<>> => run'.used["assignments"] = 0
    BY <2>1, FreshFields
  <2> QED  BY <2>3, <2>4 DEF AllowanceOK, After
<1> QED  BY <1>3, <1>4, <1>5, <1>6 DEF RouterInv

LEMMA StatusOfOutcome ==
    ASSUME NEW t \in Answers
    PROVE  OutcomeStatus[t] # "Optimal" /\ OutcomeReason(t) # "CandidateVerified"
<1>1. OutcomeStatus[t] # "Optimal"
  BY DEF Answers, OutcomeStatus
<1>2. OutcomeReason(t) # "CandidateVerified"
  BY DEF OutcomeReason
<1> QED  BY <1>1, <1>2

\* A conclusion without a result.
Concludes(e) ==
    /\ e.termination \in Recordable /\ e.fallback \in BOOLEAN
    /\ e.terminal.status # "Optimal" /\ e.terminal.reason # "CandidateVerified"

LEMMA ConclusionFields ==
    ASSUME NEW t \in Recordable, NEW status, NEW reason, NEW fallback \in BOOLEAN,
           status # "Optimal", reason # "CandidateVerified"
    PROVE  Concludes(Conclusion(t, status, reason, fallback))
<1>1. PICK x : x = Terminal(status, reason)
  OBVIOUS
<1>2. x.status = status /\ x.reason = reason
  BY <1>1, TerminalFields
<1>3. PICK e : e = [termination |-> t, terminal |-> x, fallback |-> fallback]
  OBVIOUS
<1>4. e.termination = t /\ e.terminal = x /\ e.fallback = fallback
  BY <1>3
<1>5. Conclusion(t, status, reason, fallback) = e
  BY <1>1, <1>3 DEF Conclusion
<1> QED  BY <1>2, <1>4, <1>5 DEF Concludes

\* The unreachable arm is.
LEMMA EmptyConclusionIs ==
    ASSUME RouterInv, pc = "empty"
    PROVE  Concludes(EmptyConclusion)
<1>0. /\ {"BackendOutcome", "BackendError", "OutcomeContractFailure"} \subseteq Recordable
      /\ TRUE \in BOOLEAN
  BY DEF Recordable
<1>1. /\ run.completion.kind # "none"
      /\ run.completion.kind = "timeout" => run.stop # "none"
      /\ run.stop \in {"none", "BackendLimitExceeded"}
  BY DEF RouterInv, StopsOK, After
<1>2. /\ run.completion.kind \in {"none", "timeout", "error", "contract", "outcome"}
      /\ run.completion.kind = "outcome" => run.completion.termination \in Answers
  BY RunFields, CompletionKinds DEF RouterInv
<1>3. CASE ~InTime
  <2>1. EmptyConclusion =
            Conclusion("BackendOutcome", "NoSolutionWithinLimit", "BackendTerminated", TRUE)
    BY <1>3 DEF EmptyConclusion, HasOutcome
  <2> QED  BY <1>0, <2>1, ConclusionFields
<1>4. CASE InTime /\ run.completion.kind \in {"error", "contract"}
  <2>1. EmptyConclusion = Conclusion("BackendError", "BackendFailed", "BackendFailure", TRUE)
    BY <1>4 DEF EmptyConclusion, HasOutcome
  <2> QED  BY <1>0, <2>1, ConclusionFields
<1>5. CASE HasOutcome /\ ~Admissible(run.completion)
  <2>1. EmptyConclusion =
            Conclusion("OutcomeContractFailure", "BackendFailed", "BackendFailure", TRUE)
    BY <1>5 DEF EmptyConclusion, HasOutcome
  <2> QED  BY <1>0, <2>1, ConclusionFields
<1>6. CASE HasOutcome /\ Admissible(run.completion)
  <2>1. PICK t : t = run.completion.termination
    OBVIOUS
  <2>2. t \in Answers
    BY <1>2, <1>6, <2>1 DEF HasOutcome
  <2>3. EmptyConclusion = Conclusion("BackendOutcome", OutcomeStatus[t], OutcomeReason(t),
                                     t \in FallbackTerminations)
    BY <1>6, <2>1 DEF EmptyConclusion, HasOutcome
  <2>4. (t \in FallbackTerminations) \in BOOLEAN
    OBVIOUS
  <2> QED  BY <1>0, <2>2, <2>3, <2>4, StatusOfOutcome, ConclusionFields
<1>7. \/ ~InTime
      \/ InTime /\ run.completion.kind \in {"error", "contract"}
      \/ HasOutcome
  BY <1>1, <1>2 DEF InTime, HasOutcome
<1> QED  BY <1>3, <1>4, <1>5, <1>6, <1>7

LEMMA FinishEmptyKeeps ==
    ASSUME RouterInv, FinishEmpty
    PROVE  RouterInv'
<1>1. /\ pc = "empty" /\ pc \in After /\ pc \notin Over
      /\ run' = FreshRun /\ UNCHANGED <<budgetVars, remaining, dispatch, reviewer, outcome>>
      /\ UNCHANGED <<now, cancelled, options>>
  BY DEF FinishEmpty, After, Over, budgetVars
<1>2. Typed /\ TimeoutsExplained /\ reviewer' \in Reviewer
  BY <1>1 DEF RouterInv, Typed
<1>3. PICK e : e = EmptyConclusion
  OBVIOUS
<1>4. Concludes(e)
  BY <1>1, <1>3, EmptyConclusionIs
<1>5. PICK allowed \in BOOLEAN :
          LET taken == e.fallback /\ allowed /\ position < Backends /\ ~Stopped
          IN  /\ Record(e.termination, taken)
              /\ IF taken
                 THEN pc' = "attempt" /\ position' = position + 1 /\ UNCHANGED terminal
                 ELSE Finish(e.terminal) /\ UNCHANGED position
  BY <1>3 DEF FinishEmpty
<1>6. PICK taken \in BOOLEAN : taken = (e.fallback /\ allowed /\ position < Backends /\ ~Stopped)
  OBVIOUS
<1>7. /\ attempts' = Append(attempts, [termination |-> e.termination, fallback |-> taken,
                                       used |-> [k \in Outputs |-> Used(k)]])
      /\ e.termination \in Recordable
  BY <1>4, <1>5, <1>6 DEF Record, Concludes
<1>8. CASE taken
  <2>1. pc' = "attempt" /\ position' = position + 1 /\ terminal' = terminal /\ position < Backends
    BY <1>5, <1>6, <1>8
  <2>2. /\ attempts' \in Seq(Attempt) /\ TimeoutsExplained'
        /\ \A k \in Outputs : Spent(k) \in Nat /\ Spent(k)' = Spent(k) + Used(k)
    BY <1>2, <1>6, <1>7, Recorded, Zenon
  <2>3. Typed'
    <3>1. position' \in 1 .. Backends
      BY <1>2, <2>1, RouterAssumption DEF Typed
    <3> QED  BY <1>1, <1>2, <2>1, <2>2, <3>1, FreshFields DEF Typed
  <2>4. ReviewsOK'
    <3>1. /\ terminal = NoTerminal /\ run.candidates = <<>>
          /\ run.early = NoReview => reviewer = NewReviewer
          /\ run.early # NoReview => run.candidates # <<>>
      BY <1>1 DEF RouterInv, ReviewsOK
    <3> QED  BY <1>1, <2>1, <3>1, FreshFields DEF ReviewsOK, FirstPending, After
  <2>5. StopsOK'
    BY <1>1, <2>1, FreshFields DEF StopsOK, After
  <2>6. ResultOK'
    BY <1>1, <2>1, NoResultYet DEF RouterInv
  <2>7. AllowanceOK'
    <3>1. Taken /\ (run.candidates = <<>> => run.used["assignments"] = 0)
      BY <1>1 DEF RouterInv, AllowanceOK
    <3>2. OutputLimits' = OutputLimits
      BY <1>1 DEF OutputLimits
    <3>3. Reserved'
      BY <1>1, <2>2, <3>1, <3>2 DEF Reserved, Taken
    <3> QED  BY <1>1, <2>1, <3>3, FreshFields DEF AllowanceOK, After
  <2>8. ReliableOK'
    <3>1. /\ remaining["candidates"] = OutputLimits["candidates"]
          /\ remaining["assignments"] = OutputLimits["assignments"]
      BY <1>1 DEF RouterInv, ReliableOK
    <3> QED  BY <1>1, <2>1, <3>1, FreshFields DEF ReliableOK, OutputLimits
  <2> QED  BY <2>2, <2>3, <2>4, <2>5, <2>6, <2>7, <2>8 DEF RouterInv
<1>9. CASE ~taken
  <2>1. pc' = "done" /\ terminal' = e.terminal /\ position' = position
    BY <1>5, <1>6, <1>9 DEF Finish
  <2>2. ResultOK'
    BY <1>1, <1>4, <2>1, NoResultYet DEF RouterInv, Concludes
  <2> QED  BY <1>1, <1>2, <1>6, <1>7, <2>1, <2>2, AttemptOver, Zenon
<1> QED  BY <1>8, <1>9

(***************************************************************************)
(* Judging and reviewing.                                                  *)
(***************************************************************************)
LEMMA JudgeKeeps ==
    ASSUME RouterInv, Judge
    PROVE  RouterInv'
<1>1. /\ pc = "judging" /\ pc \in After /\ pc \notin Over
      /\ UNCHANGED <<budgetVars, position, remaining, dispatch, reviewer, outcome>>
      /\ UNCHANGED <<now, cancelled, options>>
  BY DEF Judge, After, Over, budgetVars
<1>2. Typed /\ TimeoutsExplained /\ reviewer' \in Reviewer /\ run \in BackendRun
      /\ run.candidates \in Seq(Candidate) /\ Len(run.candidates) \in Nat
  BY <1>1, RunFields DEF RouterInv, Typed
<1>3. ASSUME NEW t \in {"OutcomeContractFailure", "BackendError"}, run' = FreshRun,
             attempts' = Append(attempts, [termination |-> t, fallback |-> FALSE,
                                           used |-> [k \in Outputs |-> Used(k)]]),
             Finish(Terminal("BackendFailed", "BackendFailure"))
      PROVE  RouterInv'
  <2>1. /\ pc' = "done" /\ terminal'.reason # "CandidateVerified"
        /\ terminal'.status # "Optimal"
    BY <1>3, TerminalFields DEF Finish
  <2>2. ResultOK'
    BY <1>1, <2>1, NoResultYet DEF RouterInv
  <2>3. t \in Recordable /\ FALSE \in BOOLEAN
    BY DEF Recordable
  <2> QED  BY <1>1, <1>2, <1>3, <2>1, <2>2, <2>3, AttemptOver, Zenon
<1>4. CASE /\ pc' = IF options.collect /\ EarlyDecides THEN "reviewed" ELSE "reviewing"
           /\ run' = IF options.collect THEN [run EXCEPT !.next = LastIndex] ELSE run
           /\ UNCHANGED <<attempts, terminal>>
  <2>1. /\ run' \in BackendRun /\ run'.candidates = run.candidates
        /\ run'.used = run.used /\ run'.early = run.early
        /\ run'.rejection = run.rejection /\ run'.completion = run.completion
        /\ run'.stop = run.stop
        /\ run'.next = IF options.collect THEN Len(run.candidates) ELSE run.next
    BY <1>2, <1>4, SetNext DEF LastIndex
  <2>2. pc' \in {"reviewed", "reviewing"}
    BY <1>4
  <2>3. Typed'
    BY <1>1, <1>2, <1>4, <2>1 DEF Typed
  <2>4. ReviewsOK'
    <3>1. /\ terminal = NoTerminal /\ run.candidates # <<>> /\ run.next = 1 /\ ~FirstPending
          /\ run.early = NoReview => reviewer = NewReviewer
          /\ run.early # NoReview =>
                 options.collect /\ EarlyOK(run.early, reviewer, run.candidates[1])
      BY <1>1 DEF RouterInv, ReviewsOK
    <3>2. options.collect => run.early # NoReview
      BY <3>1 DEF FirstPending
    <3>3. ~FirstPending'
      BY <1>1, <2>1, <3>1 DEF FirstPending
    <3>4. run'.early # NoReview => EarlyOK(run'.early, reviewer', run'.candidates[1])
      BY <1>1, <2>1, <3>1
    <3>5. run.early = "Failed" => options.collect
      BY <3>1 DEF NoReview
    <3>6. CASE pc' = "reviewed"
      <4>1. options.collect /\ EarlyDecides
        BY <1>4, <3>6
      <4> QED  BY <1>1, <1>4, <2>1, <3>1, <3>2, <3>3, <3>4, <3>6, <4>1
               DEF ReviewsOK, EarlyDecides, LastIndex
    <3>7. CASE pc' = "reviewing"
      <4>1. run.early # "Failed"
        BY <1>4, <3>5, <3>7 DEF EarlyDecides
      <4> QED  BY <1>1, <1>4, <2>1, <3>1, <3>2, <3>3, <3>4, <3>7, <4>1 DEF ReviewsOK
    <3> QED  BY <2>2, <3>6, <3>7
  <2>5. StopsOK'
    BY <1>1, <2>1, <2>2 DEF RouterInv, StopsOK, After
  <2>6. ResultOK'
    BY <1>1, <1>4, NoResultYet DEF RouterInv
  <2>7. AllowanceOK' /\ TimeoutsExplained'
    BY <1>1, <1>4, <2>1, <2>2, AccountsKept, RunAccountsKept DEF RouterInv, AllowanceOK, After
  <2>8. ReliableOK'
    BY <1>1, <2>1, <2>2 DEF RouterInv, ReliableOK
  <2> QED  BY <2>3, <2>4, <2>5, <2>6, <2>7, <2>8 DEF RouterInv
<1> QED
  <2>1. CASE HasOutcome /\ ~Admissible(run.completion)
    <3>1. /\ Record("OutcomeContractFailure", FALSE) /\ run' = FreshRun
          /\ Finish(Terminal("BackendFailed", "BackendFailure"))
      BY <2>1 DEF Judge, HasOutcome
    <3> QED  BY <1>3, <3>1 DEF Record
  <2>2. CASE options.collect /\ InTime /\ run.completion.kind = "contract"
    <3>1. /\ Record("BackendError", FALSE) /\ run' = FreshRun
          /\ Finish(Terminal("BackendFailed", "BackendFailure"))
      BY <2>2 DEF Judge, HasOutcome
    <3> QED  BY <1>3, <3>1 DEF Record
  <2>3. CASE /\ ~(HasOutcome /\ ~Admissible(run.completion))
             /\ ~(options.collect /\ InTime /\ run.completion.kind = "contract")
    BY <1>4, <2>3 DEF Judge
  <2> QED  BY <2>1, <2>2, <2>3

Reviewing == {"reviewed", "reviewing", "verifying"}

\* What is known when a candidate is about to be decided.
LEMMA WhenReviewing ==
    ASSUME RouterInv, pc \in Reviewing
    PROVE  /\ Typed /\ pc \in After /\ pc \notin Over /\ terminal = NoTerminal
           /\ run.candidates \in Seq(Candidate) /\ Len(run.candidates) \in Nat \ {0}
           /\ run.next \in 1 .. Len(run.candidates)
           /\ run.candidates[run.next] \in Candidate /\ run.candidates[1] \in Candidate
           /\ run.next < Len(run.candidates) => ~options.collect
           /\ run.early # NoReview =>
                  options.collect /\ EarlyOK(run.early, reviewer, run.candidates[1])
           /\ run.early = NoReview => reviewer = NewReviewer
           /\ pc \in {"reviewing", "verifying"} => run.early # "Failed"
           /\ pc = "reviewed" => /\ run.early # NoReview
                                 /\ run.early = "Failed" \/ run.next = 1
<1>1. Typed /\ pc \in After /\ pc \notin Over
  BY DEF RouterInv, Reviewing, After, Over
<1>2. run.candidates \in Seq(Candidate) /\ Len(run.candidates) \in Nat
  BY <1>1, RunFields
<1>3. run.candidates # <<>> /\ terminal = NoTerminal
  BY <1>1 DEF RouterInv, ReviewsOK, Reviewing
<1>4. Len(run.candidates) # 0
  BY <1>2, <1>3
<1>5. /\ pc \in {"reviewing", "verifying"} =>
             run.next = IF options.collect THEN Len(run.candidates) ELSE 1
      /\ pc = "reviewed" => /\ run.next = Len(run.candidates) /\ run.early # NoReview
                            /\ run.early = "Failed" \/ Len(run.candidates) = 1
      /\ pc \in {"reviewing", "verifying"} => run.early # "Failed"
      /\ run.early # NoReview =>
             options.collect /\ EarlyOK(run.early, reviewer, run.candidates[1])
      /\ run.early = NoReview => reviewer = NewReviewer
  BY <1>1 DEF RouterInv, ReviewsOK
<1>6. pc \in {"reviewing", "verifying"} \/ pc = "reviewed"
  BY DEF Reviewing
<1>7. run.next \in 1 .. Len(run.candidates) /\ (run.next < Len(run.candidates) => ~options.collect)
  BY <1>2, <1>4, <1>5, <1>6
<1>8. run.candidates[run.next] \in Candidate /\ run.candidates[1] \in Candidate
  BY <1>2, <1>4, <1>7
<1> QED  BY <1>1, <1>2, <1>3, <1>4, <1>5, <1>7, <1>8

LEMMA SelectionIs ==
    ASSUME RouterInv, pc \in Reviewing, pc' = "done", UNCHANGED <<run, options, outcome>>,
           NEW c \in Candidate, Retained(reviewer', c), NEW status,
           terminal' = Select(status, c), run.early # "Failed",
           status = "Optimal" =>
               /\ c = run.candidates[Len(run.candidates)] /\ c.matches
               /\ HasOutcome /\ run.completion.termination = "OptimalityClaimed"
               /\ run.completion.proved
    PROVE  ResultOK'
<1>1. /\ Typed /\ pc \in After /\ pc \notin Over
  BY WhenReviewing
<1>2. /\ terminal'.status = status /\ terminal'.reason = "CandidateVerified"
      /\ terminal'.selected = <<c>>
  BY SelectFields
<1>3. /\ reviewer'.decision = Accepted(c) /\ c.sound /\ ~reviewer'.alarm
      /\ reviewer'.preview # NoDecision => ~Worse(c, reviewer'.preview.candidate)
  BY DEF Retained
<1>4. reviewer'.decision.kind = "Accepted" /\ reviewer'.decision.candidate = c
  BY <1>3, DecisionKinds
<1>5. outcome'.kind # "Accepted"
  BY <1>1 DEF RouterInv, ResultOK, Over
<1>6. ASSUME status = "Optimal"
      PROVE  /\ run.completion = Outcome("OptimalityClaimed", TRUE, TRUE)
             /\ run.rejection = "none"
  <2>1. run.completion.kind = "outcome" /\ run.stop # "BackendLimitExceeded"
    BY <1>6 DEF HasOutcome, InTime
  <2>2. run.completion = Outcome("OptimalityClaimed", TRUE, TRUE)
    BY <1>1, <1>6, <2>1, RunFields, CompletionKinds
  <2>3. /\ run.rejection \in BudgetStops => run.stop = run.rejection
        /\ run.stop \in {"none", "BackendLimitExceeded"}
        /\ run.rejection \notin {"limit", "invalid"}
    BY <1>1 DEF RouterInv, StopsOK
  <2>4. run.rejection \in Rejections
    BY <1>1, RunFields
  <2> QED  BY <2>1, <2>2, <2>3, <2>4 DEF Rejections, BudgetStops
<1>7. OptimalIsProved'
  BY <1>2, <1>4, <1>6 DEF OptimalIsProved, Last
<1>8. HasAccepted(reviewer)'
  BY <1>4 DEF HasAccepted
<1>9. /\ terminal'.selected = <<reviewer'.decision.candidate>>
      /\ reviewer'.decision.candidate.sound
      /\ reviewer'.preview # NoDecision =>
             ~Worse(reviewer'.decision.candidate, reviewer'.preview.candidate)
  BY <1>2, <1>3, <1>4
<1> QED  BY <1>3, <1>5, <1>7, <1>8, <1>9 DEF ResultOK

\* Every way a review may be disposed of.
LEMMA DispositionKeeps ==
    ASSUME RouterInv, pc \in Reviewing, pc' = "done", UNCHANGED <<run, options, outcome>>,
           NEW review, terminal' = Disposition(review),
           \/ review \in {"Failed", "ResourceLimit"} \cup Interruptions
           \/ review = "Awaiting" /\ run.early \in Good /\ Retained(reviewer', run.candidates[1])
           \/ /\ review \in Good /\ run.early # "Failed"
              /\ Retained(reviewer', run.candidates[run.next])
              /\ review = "Verified" => run.candidates[run.next].matches
    PROVE  ResultOK'
<1>1. /\ Typed /\ pc \in After /\ pc \notin Over
      /\ run.candidates[run.next] \in Candidate /\ run.candidates[1] \in Candidate
      /\ run.early # NoReview => options.collect
  BY WhenReviewing
<1>2. CASE review \in {"Failed", "ResourceLimit"} \cup Interruptions
  <2>1. \E status \in {"BackendFailed", "Cancelled", "NoSolutionWithinLimit"},
           reason \in {"VerificationQuarantined", "Cancelled", "ParentDeadlineExceeded",
                       "ReviewResourceLimitExceeded"} :
            terminal' = Terminal(status, reason)
    BY <1>2 DEF Disposition, Interruptions
  <2>2. terminal'.reason # "CandidateVerified" /\ terminal'.status # "Optimal"
    BY <2>1, TerminalFields
  <2> QED  BY <1>1, <2>2, NoResultYet DEF RouterInv
<1>3. CASE review = "Awaiting" /\ run.early \in Good /\ Retained(reviewer', run.candidates[1])
  <2>1. run.early # NoReview /\ run.early # "Failed"
    BY <1>3 DEF Good, NoReview
  <2>2. terminal' = Select("Feasible", run.candidates[1])
    BY <1>1, <1>3, <2>1 DEF Disposition, EarlySelected, Good
  <2> QED  BY <1>1, <1>3, <2>1, <2>2, SelectionIs
<1>4. CASE /\ review \in Good /\ run.early # "Failed"
           /\ Retained(reviewer', run.candidates[run.next])
           /\ review = "Verified" => run.candidates[run.next].matches
  <2>1. PICK status : status = IF review = "Verified" /\ ProvedOptimal(run.next)
                               THEN "Optimal" ELSE "Feasible"
    OBVIOUS
  <2>2. terminal' = Select(status, run.candidates[run.next])
    <3>1. CASE review = "Verified"
      BY <2>1, <3>1 DEF Disposition
    <3>2. CASE review = "VerifiedOnly"
      BY <2>1, <3>2 DEF Disposition
    <3> QED  BY <1>4, <3>1, <3>2 DEF Good
  <2>3. status = "Optimal" =>
            /\ run.candidates[run.next] = run.candidates[Len(run.candidates)]
            /\ run.candidates[run.next].matches
            /\ HasOutcome /\ run.completion.termination = "OptimalityClaimed"
            /\ run.completion.proved
    BY <1>4, <2>1 DEF ProvedOptimal, LastIndex
  <2> QED  BY <1>1, <1>4, <2>2, <2>3, SelectionIs
<1> QED  BY <1>2, <1>3, <1>4

LEMMA UseEarlyReviewKeeps ==
    ASSUME RouterInv, UseEarlyReview
    PROVE  RouterInv'
<1>1. /\ pc = "reviewed" /\ pc \in Reviewing /\ pc' = "done"
      /\ UNCHANGED <<budgetVars, position, remaining, dispatch, run, reviewer, outcome>>
      /\ UNCHANGED <<now, cancelled, options>>
      /\ terminal' = Disposition(run.early)
      /\ Record("Reviewed", FALSE)
  BY DEF UseEarlyReview, FinishReviewed, Finish, Reviewing, budgetVars
<1>2. /\ Typed /\ pc \in After /\ run.candidates[1] \in Candidate
      /\ run.early # NoReview /\ EarlyOK(run.early, reviewer, run.candidates[1])
      /\ run.early = "Failed" \/ run.next = 1
  BY <1>1, WhenReviewing
<1>3. reviewer \in Reviewer /\ reviewer' \in Reviewer
  BY <1>1, <1>2 DEF Typed
<1>4. run.early \in EarlyReviews
  BY <1>2, RunFields
<1>5. \/ run.early \in {"Failed", "ResourceLimit"} \cup Interruptions
      \/ run.early \in Good
  BY <1>4 DEF EarlyReviews, Interruptions, Good
<1>6. ASSUME run.early \in Good
      PROVE  /\ run.early # "Failed" /\ Retained(reviewer, run.candidates[run.next])
             /\ run.early = "Verified" => run.candidates[run.next].matches
  <2>1. run.early # "Failed" /\ run.next = 1
    BY <1>2, <1>6 DEF Good
  <2>2. Retained(reviewer, run.candidates[1])
    BY <1>2, <1>3, <1>6, EarlyRetained
  <2>3. run.early = "Verified" => run.candidates[1].matches
    BY <1>2, <1>6 DEF EarlyOK
  <2> QED  BY <2>1, <2>2, <2>3
<1>7. ResultOK'
  <2>1. PICK review : review = run.early
    OBVIOUS
  <2>2. terminal' = Disposition(review)
    BY <1>1, <2>1
  <2>3. \/ review \in {"Failed", "ResourceLimit"} \cup Interruptions
        \/ /\ review \in Good /\ run.early # "Failed"
           /\ Retained(reviewer', run.candidates[run.next])
           /\ review = "Verified" => run.candidates[run.next].matches
    BY <1>1, <1>5, <1>6, <2>1
  <2> QED  BY <1>1, <2>2, <2>3, DispositionKeeps
<1>8. "Reviewed" \in Recordable /\ FALSE \in BOOLEAN
  BY DEF Recordable
<1>9. attempts' = Append(attempts, [termination |-> "Reviewed", fallback |-> FALSE,
                                    used |-> [k \in Outputs |-> Used(k)]])
  BY <1>1 DEF Record
<1> QED  BY <1>1, <1>2, <1>3, <1>7, <1>8, <1>9, AttemptOver, Zenon

LEMMA BeginReviewKeeps ==
    ASSUME RouterInv, BeginReview
    PROVE  RouterInv'
<1>1. /\ pc = "reviewing" /\ pc \in Reviewing
      /\ UNCHANGED <<budgetVars, position, remaining, dispatch, run, reviewer, outcome>>
      /\ UNCHANGED <<now, cancelled, options>>
  BY DEF BeginReview, Reviewing, budgetVars
<1>2. Typed /\ pc \in After /\ pc \notin Over /\ TimeoutsExplained
  BY <1>1, WhenReviewing DEF RouterInv
<1>3. reviewer' \in Reviewer
  BY <1>1, <1>2 DEF Typed
<1>4. CASE Stopped
  <2>1. PICK review : review = Interruption
    OBVIOUS
  <2>2. review \in Interruptions
    BY <1>2, <2>1, ReasonIs
  <2>3. pc' = "done" /\ terminal' = Disposition(review) /\ Record("Reviewed", FALSE)
    BY <1>4, <2>1 DEF BeginReview, FinishReviewed, Finish
  <2>4. ResultOK'
    BY <1>1, <2>2, <2>3, DispositionKeeps
  <2>5. "Reviewed" \in Recordable /\ FALSE \in BOOLEAN
    BY DEF Recordable
  <2>6. attempts' = Append(attempts, [termination |-> "Reviewed", fallback |-> FALSE,
                                      used |-> [k \in Outputs |-> Used(k)]])
    BY <2>3 DEF Record
  <2> QED  BY <1>1, <1>2, <1>3, <2>3, <2>4, <2>5, <2>6, AttemptOver, Zenon
<1>5. CASE ~Stopped
  <2>1. pc' = "verifying" /\ UNCHANGED <<attempts, terminal>>
    BY <1>5 DEF BeginReview
  <2>2. Typed'
    BY <1>1, <1>2, <2>1 DEF Typed
  <2>3. ReviewsOK'
    BY <1>1, <2>1 DEF RouterInv, ReviewsOK, FirstPending, After, Over
  <2>4. StopsOK'
    BY <1>1, <2>1 DEF RouterInv, StopsOK, After
  <2>5. ResultOK'
    BY <1>1, <1>2, <2>1, NoResultYet DEF RouterInv
  <2>6. AllowanceOK' /\ TimeoutsExplained'
    BY <1>1, <1>2, <2>1, AccountsKept, RunAccountsKept DEF RouterInv, AllowanceOK, After
  <2>7. ReliableOK'
    BY <1>1, <2>1 DEF RouterInv, ReliableOK
  <2> QED  BY <2>2, <2>3, <2>4, <2>5, <2>6, <2>7 DEF RouterInv
<1> QED  BY <1>4, <1>5

LEMMA EndReviewKeeps ==
    ASSUME RouterInv, EndReview
    PROVE  RouterInv'
<1>1. /\ pc = "verifying" /\ pc \in Reviewing
      /\ UNCHANGED <<budgetVars, position, remaining, dispatch, outcome>>
      /\ UNCHANGED <<now, cancelled, options>>
  BY DEF EndReview, Reviewing, budgetVars
<1>2. /\ Typed /\ pc \in After /\ pc \notin Over /\ Len(run.candidates) \in Nat
      /\ run.candidates[run.next] \in Candidate /\ run.candidates[1] \in Candidate
      /\ run.next < Len(run.candidates) => ~options.collect
      /\ run.early # NoReview =>
             options.collect /\ EarlyOK(run.early, reviewer, run.candidates[1])
      /\ run.early = NoReview => reviewer = NewReviewer
      /\ run.early # "Failed"
  BY <1>1, WhenReviewing
<1>3. reviewer \in Reviewer
  BY <1>2 DEF Typed
<1>4. EarlyOK(run.early, reviewer, run.candidates[1])
  BY <1>2, DecisionKinds DEF EarlyOK, HasAccepted, NoReview, Good
<1>5. PICK c : c = run.candidates[run.next]
  OBVIOUS
<1>6. PICK c1 : c1 = run.candidates[1]
  OBVIOUS
<1>7. PICK b : b = Stopped
  OBVIOUS
<1>8. PICK i : i = Interruption
  OBVIOUS
<1>9. b \in BOOLEAN /\ i \in Interruptions
  BY <1>2, <1>7, <1>8, ReasonIs
<1>10. PICK e : e = run.early
  OBVIOUS
<1>11. PICK r : r = reviewer
  OBVIOUS
<1>12. PICK v \in Verdicts(r, c, b) :
          LET result == Review(r, c, v, b, i)
              review == AfterReview(result.review)
          IN  /\ reviewer' = result.reviewer
              /\ IF review = "Awaiting" /\ run.next < LastIndex
                 THEN /\ pc' = "reviewing"
                      /\ run' = [run EXCEPT !.next = @ + 1]
                      /\ UNCHANGED <<attempts, terminal>>
                 ELSE FinishReviewed(review) /\ UNCHANGED run
  BY <1>5, <1>7, <1>8, <1>11 DEF EndReview
<1>13. PICK result : result = Review(r, c, v, b, i)
  OBVIOUS
<1>14. PICK review : review = AfterReview(result.review)
  OBVIOUS
<1>15. /\ result.reviewer \in Reviewer
       /\ \/ result.review \in {"Failed", "ResourceLimit"} \cup Interruptions
          \/ result.review = "Awaiting" /\ e \in Good /\ Retained(result.reviewer, c1)
          \/ /\ result.review \in Good /\ Retained(result.reviewer, c)
             /\ result.review = "Verified" => c.matches
  <2>1. c \in Candidate /\ c1 \in Candidate /\ r \in Reviewer /\ e # "Failed" /\ EarlyOK(e, r, c1)
    BY <1>2, <1>3, <1>4, <1>5, <1>6, <1>10, <1>11
  <2> QED  BY <1>9, <1>12, <1>13, <2>1, LaterReview
<1>16. reviewer' = result.reviewer
  BY <1>12, <1>13
<1>17. \/ review \in {"Failed", "ResourceLimit"} \cup Interruptions
       \/ review = "Awaiting" /\ run.early \in Good /\ Retained(reviewer', run.candidates[1])
       \/ /\ review \in Good /\ run.early # "Failed"
          /\ Retained(reviewer', run.candidates[run.next])
          /\ review = "Verified" => run.candidates[run.next].matches
  <2>1. review = IF b THEN i ELSE result.review
    BY <1>7, <1>8, <1>14 DEF AfterReview
  <2> QED  BY <1>2, <1>5, <1>6, <1>9, <1>10, <1>15, <1>16, <2>1
\* A collecting router looks at the last candidate only, and any other accepts the first.
<1>18. ~(review = "Awaiting" /\ run.next < LastIndex)
  <2>1. review = "Awaiting" => run.early \in Good
    BY <1>17 DEF Good, Interruptions
  <2>2. run.early \in Good => options.collect
    BY <1>2 DEF Good, NoReview
  <2> QED  BY <1>2, <2>1, <2>2 DEF LastIndex
<1>19. FinishReviewed(review) /\ run' = run
  BY <1>12, <1>13, <1>14, <1>18
<1>20. pc' = "done" /\ terminal' = Disposition(review)
  BY <1>19 DEF FinishReviewed, Finish
<1>21. ResultOK'
  BY <1>1, <1>17, <1>19, <1>20, DispositionKeeps
<1>22. "Reviewed" \in Recordable /\ FALSE \in BOOLEAN
  BY DEF Recordable
<1>23. attempts' = Append(attempts, [termination |-> "Reviewed", fallback |-> FALSE,
                                     used |-> [k \in Outputs |-> Used(k)]])
  BY <1>19 DEF FinishReviewed, Record
<1>24. reviewer' \in Reviewer
  BY <1>15, <1>16
<1> QED  BY <1>1, <1>2, <1>19, <1>20, <1>21, <1>22, <1>23, <1>24, AttemptOver, Zenon

(***************************************************************************)
(* Publication.                                                            *)
(***************************************************************************)
LEMMA PublishKeeps ==
    ASSUME RouterInv, Publish
    PROVE  RouterInv'
<1>1. /\ pc = "done" /\ pc' = "published" /\ run' = FreshRun
      /\ UNCHANGED <<now, cancelled, options, position, remaining, dispatch, attempts, reviewer,
                     terminal>>
  BY DEF Publish, budgetVars, attemptVars
<1>2. PICK runtimeMatches \in BOOLEAN, late \in BOOLEAN : outcome' = Published(runtimeMatches, late)
  BY DEF Publish
<1>3. Typed /\ TimeoutsExplained
  BY DEF RouterInv
<1>4. Typed'
  BY <1>1, <1>3, FreshFields DEF Typed
<1>5. ReviewsOK' /\ StopsOK'
  BY <1>1 DEF ReviewsOK, StopsOK, After, Over
<1>6. outcome'.kind = "Accepted" =>
          /\ terminal.reason = "CandidateVerified"
          /\ outcome'.candidate = reviewer.decision.candidate
  <2>1. PICK x : x = Concluded(runtimeMatches, late)
    OBVIOUS
  <2>2. outcome'.kind = "Accepted" => outcome' = x
    BY <1>2, <2>1 DEF Published
  <2>3. CASE terminal.reason = "CandidateVerified" /\ HasAccepted(reviewer) /\ runtimeMatches
    <3>1. CASE Stopped \/ late
      BY <2>1, <2>2, <2>3, <3>1 DEF Concluded, Withdrawn, NoResult
    <3>2. CASE ~(Stopped \/ late)
      <4>1. x = [kind |-> "Accepted", status |-> terminal.status,
                 candidate |-> reviewer.decision.candidate]
        BY <2>1, <2>3, <3>2 DEF Concluded
      <4> QED  BY <2>2, <2>3, <4>1
    <3> QED  BY <3>1, <3>2
  <2>4. CASE ~(terminal.reason = "CandidateVerified" /\ HasAccepted(reviewer) /\ runtimeMatches)
    <3>1. \E status : x = NoResult(status)
      BY <2>1, <2>4 DEF Concluded, Withdrawn
    <3>2. x.kind # "Accepted"
      BY <3>1 DEF NoResult
    <3> QED  BY <2>2, <3>2
  <2> QED  BY <2>3, <2>4
<1>7. ResultOK'
  <2>1. OptimalIsProved'
    BY <1>1 DEF OptimalIsProved
  <2>2. run'.early # "Failed"
    BY <1>1, FreshFields DEF NoReview
  <2> QED  BY <1>1, <1>6, <2>1, <2>2 DEF RouterInv, ResultOK
<1>8. AllowanceOK' /\ TimeoutsExplained'
  <2>1. run'.used["assignments"] = 0
    BY <1>1, FreshFields DEF Counted, Outputs
  <2> QED  BY <1>1, <1>3, <2>1, AccountsKept DEF RouterInv, AllowanceOK, After
<1>9. ReliableOK'
  BY <1>1, FreshFields DEF ReliableOK
<1> QED  BY <1>4, <1>5, <1>7, <1>8, <1>9 DEF RouterInv

(***************************************************************************)
(* Every reachable state.                                                  *)
(***************************************************************************)
LEMMA NothingSpent ==
    ASSUME attempts = <<>>, NEW k \in Outputs
    PROVE  Spent(k) = 0
<1>1. PICK f : f = [n \in 0 .. 0 |-> 0]
  OBVIOUS
<1>2. PICK s : s = <<>>
  OBVIOUS
<1>3. s \in Seq(Nat) /\ Len(s) = 0
  BY <1>2
<1>4. Sums(f, s, Len(s)) /\ f[Len(s)] = 0
  BY <1>1, <1>3 DEF Sums
<1>5. Total(s) = 0
  BY <1>3, <1>4, TotalIs
<1>6. [i \in DOMAIN attempts |-> attempts[i].used[k]] = s
  BY <1>2
<1> QED  BY <1>5, <1>6 DEF Spent

LEMMA InitRouter ==
    ASSUME Init
    PROVE  RouterInv
<1>1. /\ now = 0 /\ cancelled = FALSE /\ options \in [collect : BOOLEAN] /\ pc = "attempt"
      /\ position = 1 /\ remaining = OutputLimits
      /\ dispatch = [start |-> 0, limit |-> 0, search |-> 0]
      /\ run = FreshRun /\ attempts = <<>> /\ reviewer = NewReviewer
      /\ terminal = NoTerminal /\ outcome = NoDecision
  BY DEF Init
<1>2. options.collect \in BOOLEAN
  BY <1>1
<1>3. OutputLimits \in [Outputs -> Nat]
  BY <1>2, RouterAssumption DEF OutputLimits, Outputs
<1>4. Typed
  <2>1. now \in Nat /\ position \in 1 .. Backends
    BY <1>1, RouterAssumption
  <2>5. cancelled \in BOOLEAN
    BY <1>1
  <2>2. dispatch \in [start : Nat, limit : Nat, search : Nat]
    BY <1>1
  <2>3. run \in BackendRun /\ reviewer \in Reviewer
    BY <1>1, FreshFields, DecisionKinds
  <2>4. attempts \in Seq(Attempt)
    BY <1>1
  <2> QED  BY <1>1, <1>3, <2>1, <2>2, <2>3, <2>4, <2>5 DEF Typed
<1>5. ReviewsOK
  BY <1>1, FreshFields DEF ReviewsOK, After
<1>6. StopsOK
  BY <1>1, FreshFields DEF StopsOK, After
<1>7. ResultOK
  BY <1>1, DecisionKinds DEF ResultOK, OptimalIsProved, NoTerminal
<1>8. AllowanceOK /\ TimeoutsExplained
  <2>1. Reserved
    BY <1>1, <1>3, NothingSpent DEF Reserved
  <2>2. run.used["assignments"] = 0
    BY <1>1, FreshFields DEF Counted, Outputs
  <2> QED  BY <1>1, <2>1, <2>2 DEF AllowanceOK, TimeoutsExplained, After
<1>9. ReliableOK
  BY <1>1, FreshFields DEF ReliableOK
<1> QED  BY <1>4, <1>5, <1>6, <1>7, <1>8, <1>9 DEF RouterInv

LEMMA StepRouter ==
    ASSUME RouterInv, [Next]_vars
    PROVE  RouterInv'
<1>1. CASE Route
  BY <1>1, PreAttemptKeeps, InvokeKeeps, TimesOutKeeps, BeginEarlyReviewKeeps, CollectRunKeeps,
     AfterBackendKeeps, FinishEmptyKeeps, JudgeKeeps, UseEarlyReviewKeeps, BeginReviewKeeps,
     PublishKeeps DEF Route
<1>2. CASE Verify
  BY <1>2, EndEarlyReviewKeeps, EndReviewKeeps DEF Verify
<1>3. CASE Preflight \/ NoRequest
  BY <1>3, PreflightKeeps, NoRequestKeeps
<1>4. CASE BackendEmits
  BY <1>4, BackendEmitsKeeps
<1>5. CASE BackendSubmits
  BY <1>5, BackendSubmitsKeeps
<1>6. CASE BackendReturns
  BY <1>6, BackendReturnsKeeps
<1>7. now \in Nat /\ cancelled \in BOOLEAN
  BY DEF RouterInv, Typed
<1>8. CASE Tick
  <2>1. /\ now' \in Nat /\ now' >= now /\ cancelled' = cancelled
        /\ UNCHANGED <<options, pc, attemptVars, run, reviewer, terminal, outcome>>
    BY <1>7, <1>8 DEF Tick
  <2> QED  BY <1>7, <2>1, TimePasses
<1>9. CASE Cancel
  <2>1. /\ now' = now /\ cancelled' = TRUE
        /\ UNCHANGED <<options, pc, attemptVars, run, reviewer, terminal, outcome>>
    BY <1>9 DEF Cancel
  <2> QED  BY <1>7, <2>1, TimePasses
<1>10. CASE UNCHANGED vars
  <2>1. /\ now' = now /\ cancelled' = cancelled
        /\ UNCHANGED <<options, pc, attemptVars, run, reviewer, terminal, outcome>>
    BY <1>10 DEF vars, budgetVars
  <2> QED  BY <1>7, <2>1, TimePasses
<1> QED  BY <1>1, <1>2, <1>3, <1>4, <1>5, <1>6, <1>8, <1>9, <1>10 DEF Next

(***************************************************************************)
(* The inductive invariant of the router.                                  *)
(***************************************************************************)
THEOREM RouterStaysSound == Spec => []RouterInv
<1>1. Init => RouterInv
  BY InitRouter
<1>2. RouterInv /\ [Next]_vars => RouterInv'
  BY StepRouter
<1> QED  BY <1>1, <1>2, PTL DEF Spec

(***************************************************************************)
(* The candidate SolverRouter::execute selects is always the one the       *)
(* reviewer has accepted and kept for the pipeline.                        *)
(***************************************************************************)
THEOREM SelectionIsRetained == Spec => []SelectedIsRetained
<1>1. RouterInv => SelectedIsRetained
  BY DEF RouterInv, ResultOK, SelectedIsRetained
<1> QED  BY <1>1, RouterStaysSound, PTL

(***************************************************************************)
(* An optimal status is always backed by a proof for the very result that  *)
(* is published (selected_optimal_candidate).                              *)
(***************************************************************************)
THEOREM OptimalityIsProved == Spec => []OptimalIsProved
<1>1. RouterInv => OptimalIsProved
  BY DEF RouterInv, ResultOK
<1> QED  BY <1>1, RouterStaysSound, PTL

(***************************************************************************)
(* The pipeline never publishes a result that is worse than the one        *)
(* with_first_accepted has handed out (reconcile_accepted_decision).       *)
(***************************************************************************)
THEOREM PublishedNeverWorse == Spec => []NeverWorseThanPreview
<1>1. RouterInv => NeverWorseThanPreview
  BY DEF RouterInv, ResultOK, NeverWorseThanPreview
<1> QED  BY <1>1, RouterStaysSound, PTL

(***************************************************************************)
(* After a failed review no candidate of the solve is accepted.            *)
(***************************************************************************)
THEOREM FailureEndsSolve == Spec => []FailureExcludesResult
<1>1. RouterInv => FailureExcludesResult
  BY DEF RouterInv, ResultOK, FailureExcludesResult
<1> QED  BY <1>1, RouterStaysSound, PTL

(***************************************************************************)
(* However many backends are tried, RemainingOutput keeps their output     *)
(* within the allowance of one solve.                                      *)
(***************************************************************************)
THEOREM AllowanceIsShared == Spec => []SharedAllowance
<1>1. RouterInv => SharedAllowance
  <2>1. SUFFICES ASSUME RouterInv PROVE SharedAllowance
    OBVIOUS
  <2>2. Typed
    BY <2>1 DEF RouterInv
  <2>3. SUFFICES ASSUME NEW k \in Outputs PROVE Spent(k) <= OutputLimits[k]
    BY DEF SharedAllowance
  <2>4. /\ Spent(k) \in Nat /\ Used(k) \in Nat /\ remaining[k] \in Nat
        /\ OutputLimits[k] \in Nat
    BY <2>2, SpentIsNat, UsedIsNat, RunFields, LimitsAre
  <2>5. CASE pc \in After
    <3>1. Spent(k) + Used(k) + remaining[k] <= OutputLimits[k]
      BY <2>1, <2>5 DEF RouterInv, AllowanceOK, Taken
    <3> QED  BY <2>4, <3>1
  <2>6. CASE pc \notin After
    <3>1. Spent(k) + remaining[k] <= OutputLimits[k]
      BY <2>1, <2>6 DEF RouterInv, AllowanceOK, Reserved
    <3> QED  BY <2>4, <3>1
  <2> QED  BY <2>5, <2>6
<1> QED  BY <1>1, RouterStaysSound, PTL

(***************************************************************************)
(* finish_empty_attempt never reaches the arm it declares unreachable.     *)
(***************************************************************************)
THEOREM TimeoutsAreExplained == Spec => []TimeoutsExplained
<1>1. RouterInv => TimeoutsExplained
  BY DEF RouterInv
<1> QED  BY <1>1, RouterStaysSound, PTL

(***************************************************************************)
(* The checks of the router (outcome_is_admissible, BoundedBackendOutput)  *)
(* never turn a backend away that keeps the contract of BackendSession.    *)
(***************************************************************************)
THEOREM ReliableIsAdmitted == Spec => []ReliableBackendAdmitted
<1>1. RouterInv => ReliableBackendAdmitted
  <2>1. SUFFICES ASSUME RouterInv, position \in Reliable
                 PROVE  /\ ~OutputError
                        /\ pc \in {"empty", "judging"} /\ HasOutcome
                           /\ run.completion.termination \in
                                  {"OptimalityClaimed", "CandidateFound", "Failed", "Unavailable"}
                           => Admissible(run.completion)
    BY DEF ReliableBackendAdmitted
  <2>2. ~OutputError
    BY <2>1 DEF RouterInv, ReliableOK, OutputError
  <2>3. ASSUME pc \in {"empty", "judging"}, HasOutcome,
               run.completion.termination \in
                   {"OptimalityClaimed", "CandidateFound", "Failed", "Unavailable"}
        PROVE  Admissible(run.completion)
    <3>1. run.stop # "BackendLimitExceeded" /\ run.completion.kind = "outcome"
      BY <2>3 DEF HasOutcome, InTime
    <3>2. run.stop \in {"none", "BackendLimitExceeded"}
      BY <2>1, <2>3 DEF RouterInv, StopsOK, After
    <3>3. /\ run.completion.valid
          /\ run.completion.termination \in {"OptimalityClaimed", "CandidateFound"} =>
                 run.candidates # <<>>
          /\ run.completion.termination \in {"Failed", "Unavailable"} =>
                 run.candidates = <<>> \/ run.stop # "none"
      BY <2>1, <2>3, <3>1 DEF RouterInv, ReliableOK, CutShort
    <3> QED  BY <2>3, <3>1, <3>2, <3>3 DEF Admissible, Contradicted
  <2> QED  BY <2>2, <2>3
<1> QED  BY <1>1, RouterStaysSound, PTL
=============================================================================
