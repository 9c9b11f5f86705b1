---------------------- MODULE OperationRegistryProofs ----------------------
(***************************************************************************)
(* Proofs about the operation registry, for any windows, operations,       *)
(* kinds, groups and limits.                                               *)
(***************************************************************************)
EXTENDS OperationRegistry, FiniteSetTheorems, WellFoundedInduction, TLAPS

Entry ==
    [held : BOOLEAN, window : Window \cup {None}, kind : Kinds, group : Group \cup {None},
     created : Nat, claimed : BOOLEAN, cancelled : BOOLEAN]

TaskRecord ==
    [stage : {"none", "started", "subscribed", "waiting", "working", "committed", "leaving", "done"},
     since : Nat, woken : BOOLEAN, committed : BOOLEAN,
     result : {"none", "ok", "failed", "cancelled", "deadline"}]

\* The shape of the records that are updated in place.
Shape ==
    /\ reservation \in [Operation -> Entry]
    /\ task \in [Operation -> TaskRecord]
    /\ caller \in [Operation ->
           {"none", "waiting", "gone", "ok", "failed", "cancelled", "deadline"}]
    /\ now \in Nat

\* What is in the registry, expired or not.
Held == {o \in Operation : reservation[o].held}

\* Busy tasks are claimed entries, and neither the entries nor the permits
\* exceed their limits.
Charged ==
    /\ \A o \in Busy : reservation[o].held /\ reservation[o].claimed
    /\ Cardinality(Held) <= MaxReservations
    /\ Cardinality(Permitted) <= Permits

\* A committed operation is past its work, has no refusal as its result, and
\* is not one that is answered at its deadline.
Committed ==
    \A o \in Operation : task[o].committed =>
        /\ task[o].stage \in {"committed", "leaving", "done"}
        /\ task[o].result \in {"none", "ok", "failed"}
        /\ reservation[o].window # None
        /\ reservation[o].kind # "bounded"
        /\ caller[o] \notin {"cancelled", "deadline"}

\* An entry has its window.  While a task goes on, its call has no answer,
\* unless it is one that is answered at its deadline, or one that failed
\* before it had a task.
Unanswered ==
    /\ \A o \in Operation : reservation[o].held => reservation[o].window # None
    /\ \A o \in Busy :
          /\ \/ caller[o] \in {"waiting", "gone"} \/ reservation[o].kind = "bounded"
             \/ caller[o] = "failed" /\ task[o].stage = "leaving"
          /\ task[o].stage # "leaving" => task[o].result = "none"

RegistryInv == Shape /\ Charged /\ Committed /\ Unanswered

-----------------------------------------------------------------------------
LEMMA InitShape == Init => Shape
  BY RegistryAssumption DEF Init, Shape, Entry, TaskRecord, Unused, Absent, Task, Kinds

LEMMA EntriesShape ==
  ASSUME Shape
  PROVE  /\ entries \in [Operation -> Entry]
         /\ \A o \in Operation :
               /\ entries[o].window = reservation[o].window
               /\ entries[o].kind = reservation[o].kind
               /\ entries[o].held => entries[o] = reservation[o]
               /\ reservation[o].held /\ reservation[o].claimed => entries[o] = reservation[o]
  BY DEF Shape, Entry, entries, Removed, Absent

LEMMA OperationsFinite == ASSUME NEW S \in SUBSET Operation PROVE IsFiniteSet(S)
  BY FS_Subset, RegistryAssumption

LEMMA Fewer ==
  ASSUME NEW S \in SUBSET Operation, NEW T \in SUBSET S
  PROVE  Cardinality(T) \in Nat /\ Cardinality(S) \in Nat /\ Cardinality(T) <= Cardinality(S)
  BY OperationsFinite, FS_Subset, FS_CardinalityType

LEMMA OneMore ==
  ASSUME NEW S \in SUBSET Operation, NEW o \in Operation
  PROVE  Cardinality(S) \in Nat /\ Cardinality(S \cup {o}) \in Nat
         /\ Cardinality(S \cup {o}) <= Cardinality(S) + 1
  BY OperationsFinite, FS_AddElement, FS_CardinalityType

\* A step that adds no entry and gives no permit keeps the limits.
LEMMA NoNewCharge ==
  ASSUME Charged,
         Held' \subseteq Held, Permitted' \subseteq Permitted,
         \A o \in Busy' : reservation'[o].held /\ reservation'[o].claimed
  PROVE  Charged'
<1>1. Held \in SUBSET Operation /\ Permitted \in SUBSET Operation
  BY DEF Held, Permitted
<1>2. Cardinality(Held') <= Cardinality(Held) /\ Cardinality(Held') \in Nat /\ Cardinality(Held) \in Nat
  BY <1>1, Fewer
<1>3. /\ Cardinality(Permitted') <= Cardinality(Permitted)
      /\ Cardinality(Permitted') \in Nat /\ Cardinality(Permitted) \in Nat
  BY <1>1, Fewer
<1> QED
  BY <1>2, <1>3, RegistryAssumption DEF Charged

-----------------------------------------------------------------------------
\* The registry under its lock.

LEMMA EntryMarked == ASSUME NEW r \in Entry PROVE [r EXCEPT !.cancelled = TRUE] \in Entry
  BY DEF Entry

LEMMA TaskWoken == ASSUME NEW t \in TaskRecord PROVE [t EXCEPT !.woken = TRUE] \in TaskRecord
  BY DEF TaskRecord

\* What a signalling step may do to the calls.
CallsTold ==
    /\ caller' \in [Operation ->
           {"none", "waiting", "gone", "ok", "failed", "cancelled", "deadline"}]
    /\ \A o \in Operation :
          \/ caller'[o] = caller[o]
          \/ caller'[o] = "gone"
          \/ caller'[o] = "deadline" /\ reservation[o].kind = "bounded"

LEMMA NobodyTold == ASSUME RegistryInv, caller' = caller PROVE CallsTold
  BY DEF RegistryInv, Shape, CallsTold

LEMMA SignalInv ==
  ASSUME RegistryInv, NEW S \in SUBSET Operation,
         NEW R \in [Operation -> Entry],
         R = entries \/ R = reservation, Signal(R, S),
         now' = now, CallsTold
  PROVE  RegistryInv'
<1>1. /\ R \in [Operation -> Entry]
      /\ \A o \in Operation :
            /\ R[o].window = reservation[o].window
            /\ R[o].kind = reservation[o].kind
            /\ R[o].held => R[o] = reservation[o]
            /\ reservation[o].held /\ reservation[o].claimed => R[o] = reservation[o]
  BY EntriesShape DEF RegistryInv, Shape
<1>a. reservation' \in [Operation -> Entry]
  <2>1. \A o \in Operation : [R[o] EXCEPT !.cancelled = TRUE] \in Entry
    BY <1>1, EntryMarked
  <2> QED
    BY <1>1, <2>1 DEF Signal
<1>b. task' \in [Operation -> TaskRecord]
  <2>1. task \in [Operation -> TaskRecord]
    BY DEF RegistryInv, Shape
  <2>2. \A o \in Operation : [task[o] EXCEPT !.woken = TRUE] \in TaskRecord
    BY <2>1, TaskWoken
  <2> QED
    BY <2>1, <2>2 DEF Signal
<1>2. Shape'
  BY <1>a, <1>b DEF RegistryInv, Shape, CallsTold
<1>3. /\ \A o \in Operation :
            /\ task'[o].stage = task[o].stage
            /\ task'[o].committed = task[o].committed
            /\ task'[o].result = task[o].result
            /\ reservation'[o].window = reservation[o].window
            /\ reservation'[o].kind = reservation[o].kind
            /\ reservation'[o].held = R[o].held
            /\ reservation'[o].claimed = R[o].claimed
  BY <1>1 DEF RegistryInv, Shape, Signal, Entry, TaskRecord
<1>4. Charged'
  <2>1. Held' \subseteq Held
    BY <1>1, <1>3 DEF Held
  <2>2. Permitted' \subseteq Permitted
    BY <1>3 DEF Permitted
  <2>3. \A o \in Busy' : reservation'[o].held /\ reservation'[o].claimed
    BY <1>1, <1>3 DEF Busy, RegistryInv, Charged
  <2> QED
    BY <2>1, <2>2, <2>3, NoNewCharge DEF RegistryInv
<1>5. Committed'
  BY <1>3 DEF RegistryInv, Committed, CallsTold
<1>6. Unanswered'
  BY <1>1, <1>3 DEF RegistryInv, Unanswered, Busy, CallsTold
<1> QED
  BY <1>2, <1>4, <1>5, <1>6 DEF RegistryInv

LEMMA ReserveInv ==
  ASSUME RegistryInv, NEW w \in Window, NEW o \in Operation, NEW kind \in Kind, Reserve(w, o, kind)
  PROVE  RegistryInv'
<1>1. Shape'
  BY EntriesShape, RegistryAssumption DEF RegistryInv, Shape, Entry, Reserve, Reserved
<1>2. /\ reservation'[o].held /\ reservation'[o].window = w
      /\ \A p \in Operation \ {o} : reservation'[p] = entries[p]
      /\ task' = task /\ caller' = caller
      /\ ~reservation[o].held /\ reservation[o].window = None
  BY EntriesShape DEF RegistryInv, Shape, Reserve, Reserved, Unused, Absent
<1>3. Charged'
  <2>1. Cardinality(Held') <= MaxReservations
    <3>1. Held' \subseteq Live \cup {o} /\ Live \in SUBSET Operation
      BY <1>2 DEF Held, Live
    <3>2. Cardinality(Live \cup {o}) <= Cardinality(Live) + 1
          /\ Cardinality(Live) \in Nat /\ Cardinality(Live \cup {o}) \in Nat
      BY <3>1, OneMore
    <3>3. Cardinality(Held') <= Cardinality(Live \cup {o}) /\ Cardinality(Held') \in Nat
      BY <3>1, Fewer
    <3>4. Cardinality(Live) < MaxReservations
      BY DEF Reserve
    <3> QED
      BY <3>2, <3>3, <3>4, RegistryAssumption
  <2>2. Cardinality(Permitted') <= Permits
    BY <1>2 DEF RegistryInv, Charged, Permitted
  <2>3. \A p \in Busy' : reservation'[p].held /\ reservation'[p].claimed
    BY <1>2, EntriesShape DEF Busy, RegistryInv, Charged
  <2> QED
    BY <2>1, <2>2, <2>3 DEF Charged
<1>4. Committed'
  BY <1>2, EntriesShape DEF RegistryInv, Committed
<1>5. Unanswered'
  <2>1. o \notin Busy
    BY <1>2 DEF RegistryInv, Charged
  <2>2. w # None
    BY RegistryAssumption
  <2> QED
    BY <1>2, <2>1, <2>2, EntriesShape DEF RegistryInv, Unanswered, Busy
<1> QED
  BY <1>1, <1>3, <1>4, <1>5 DEF RegistryInv

\* An entry that is changed in place, or removed while it is unclaimed.
LEMMA EntryInv ==
  ASSUME RegistryInv, NEW o \in Operation, NEW r \in Entry,
         r.window = reservation[o].window, r.kind = reservation[o].kind,
         entries[o].held, ~entries[o].claimed,
         reservation' = [entries EXCEPT ![o] = r],
         task' = task, caller' = caller, now' = now
  PROVE  RegistryInv'
<1>1. Shape'
  BY EntriesShape DEF RegistryInv, Shape
<1>2. /\ reservation'[o] = r
      /\ \A p \in Operation \ {o} : reservation'[p] = entries[p]
  BY EntriesShape DEF RegistryInv
<1>3. Charged'
  <2>1. Held' \subseteq Held
    BY <1>2, EntriesShape DEF Held, RegistryInv
  <2>2. Permitted' \subseteq Permitted
    BY DEF Permitted
  <2>3. \A p \in Busy' : reservation'[p].held /\ reservation'[p].claimed
    BY <1>2, EntriesShape DEF Busy, RegistryInv, Charged
  <2> QED
    BY <2>1, <2>2, <2>3, NoNewCharge DEF RegistryInv
<1>4. Committed'
  BY <1>2, EntriesShape DEF RegistryInv, Committed
<1>5. Unanswered'
  BY <1>2, EntriesShape DEF RegistryInv, Unanswered, Busy
<1> QED
  BY <1>1, <1>3, <1>4, <1>5 DEF RegistryInv

LEMMA RegisterInv ==
  ASSUME RegistryInv, NEW o \in Operation, NEW g \in Group, Register(o, g)
  PROVE  RegistryInv'
<1> DEFINE r == [entries[o] EXCEPT !.group = g]
<1>1. entries[o] \in Entry /\ entries \in [Operation -> Entry]
  BY EntriesShape DEF RegistryInv
<1>2. r \in Entry /\ r.window = entries[o].window /\ r.kind = entries[o].kind
  BY <1>1 DEF Entry
<1>3. reservation' = [entries EXCEPT ![o] = r]
  BY DEF Register
<1>4. entries[o].window = reservation[o].window /\ entries[o].kind = reservation[o].kind
  BY EntriesShape DEF RegistryInv
<1> QED
  BY <1>2, <1>3, <1>4, EntryInv DEF Register, MayRegister

LEMMA RemovedEntry ==
  ASSUME RegistryInv, NEW o \in Operation
  PROVE  /\ Removed(entries[o]) \in Entry
         /\ Removed(entries[o]).window = reservation[o].window
         /\ Removed(entries[o]).kind = reservation[o].kind
  BY EntriesShape DEF RegistryInv, Entry, Removed, Absent

LEMMA ClaimInv ==
  ASSUME RegistryInv, NEW o \in Operation, Claim(o)
  PROVE  RegistryInv'
<1>1. CASE Cancelled(o)
  <2>1. reservation' = [entries EXCEPT ![o] = Removed(entries[o])]
    BY <1>1 DEF Claim
  <2> QED
    BY <1>1, <2>1, RemovedEntry, EntryInv DEF Claim
<1>2. CASE ~Cancelled(o)
  <2> DEFINE r == [entries[o] EXCEPT !.claimed = TRUE]
  <2>1. entries[o] \in Entry /\ entries \in [Operation -> Entry]
    BY EntriesShape DEF RegistryInv
  <2>2. /\ r \in Entry /\ r.window = entries[o].window /\ r.kind = entries[o].kind
        /\ r.held = entries[o].held /\ r.claimed
    BY <2>1 DEF Entry
  <2>a. PICK place \in {"started", "leaving"}, told \in {"waiting", "failed"} :
            /\ place = IF DeadlineOverflows(o) THEN "leaving" ELSE "started"
            /\ told = IF DeadlineOverflows(o) THEN "failed" ELSE "waiting"
    OBVIOUS
  <2>b. told = "waiting" \/ (told = "failed" /\ place = "leaving")
    BY <2>a
  <2>3. /\ reservation' = [entries EXCEPT ![o] = r]
        /\ task' = [task EXCEPT ![o] = Task(place, now)]
        /\ caller' = [caller EXCEPT ![o] = told]
        /\ now' = now
        /\ entries[o].held
    BY <1>2, <2>a DEF Claim
  <2>4. Shape'
    BY <2>1, <2>2, <2>3 DEF RegistryInv, Shape, Task, TaskRecord
  <2>5. /\ reservation'[o] = r /\ task'[o] = Task(place, now) /\ caller'[o] = told
        /\ \A p \in Operation \ {o} :
              reservation'[p] = entries[p] /\ task'[p] = task[p] /\ caller'[p] = caller[p]
    BY <2>1, <2>3 DEF RegistryInv, Shape
  <2>6. Charged'
    <3>1. Held' \subseteq Held
      BY <2>2, <2>3, <2>5, EntriesShape DEF Held, RegistryInv
    <3>2. Permitted' \subseteq Permitted
      BY <2>5 DEF Permitted, Task
    <3>3. \A p \in Busy' : reservation'[p].held /\ reservation'[p].claimed
      BY <2>2, <2>3, <2>5, EntriesShape DEF Busy, RegistryInv, Charged
    <3> QED
      BY <3>1, <3>2, <3>3, NoNewCharge DEF RegistryInv
  <2>7. Committed'
    BY <2>5, EntriesShape DEF RegistryInv, Committed, Task
  <2>8. Unanswered'
    BY <2>2, <2>3, <2>5, <2>b, EntriesShape DEF RegistryInv, Unanswered, Busy, Task
  <2> QED
    BY <2>4, <2>6, <2>7, <2>8 DEF RegistryInv
<1> QED
  BY <1>1, <1>2

LEMMA CancelInv ==
  ASSUME RegistryInv, NEW o \in Operation, Cancel(o)
  PROVE  RegistryInv'
  BY SignalInv, NobodyTold, EntriesShape DEF Cancel, RegistryInv

LEMMA ReleaseInv ==
  ASSUME RegistryInv, NEW o \in Operation, Release(o)
  PROVE  RegistryInv'
<1>1. CASE Signal(entries, {o})
  BY <1>1, SignalInv, NobodyTold, EntriesShape DEF Release, RegistryInv
<1>2. CASE /\ ~entries[o].claimed
           /\ reservation' = [entries EXCEPT ![o] = Removed(@)]
           /\ UNCHANGED task
  <2>1. reservation' = [entries EXCEPT ![o] = Removed(entries[o])]
    BY <1>2
  <2> QED
    BY <1>2, <2>1, RemovedEntry, EntryInv DEF Release
<1> QED
  BY <1>1, <1>2 DEF Release

-----------------------------------------------------------------------------
\* The task.

\* A busy task that stays busy, takes no permit it has not, and is not
\* committed or commits as it should.
LEMMA TaskInv ==
  ASSUME RegistryInv, TaskOnly, NEW o \in Operation, NEW t \in TaskRecord,
         task' = [task EXCEPT ![o] = t],
         o \in Busy, task[o].stage # "leaving",
         Permitted' \subseteq Permitted \/ Cardinality(Permitted') <= Permits,
         t.committed => /\ t.stage \in {"committed", "leaving"}
                        /\ t.result \in {"none", "ok", "failed"}
                        /\ reservation[o].window # None
                        /\ reservation[o].kind # "bounded"
                        /\ caller[o] \notin {"cancelled", "deadline"},
         t.stage # "leaving" => t.result = "none"
  PROVE  RegistryInv'
<1>1. /\ task'[o] = t /\ \A p \in Operation \ {o} : task'[p] = task[p]
      /\ reservation' = reservation /\ caller' = caller /\ now' = now
  BY DEF RegistryInv, Shape, TaskOnly
<1>2. Shape'
  BY <1>1 DEF RegistryInv, Shape
<1>3. Charged'
  <2>1. Held' = Held
    BY <1>1 DEF Held
  <2>2. Permitted \in SUBSET Operation
    BY DEF Permitted
  <2>3. CASE Permitted' \subseteq Permitted
    <3>1. Cardinality(Permitted') <= Cardinality(Permitted)
          /\ Cardinality(Permitted) \in Nat /\ Cardinality(Permitted') \in Nat
      BY <2>2, <2>3, Fewer
    <3> QED
      BY <1>1, <2>1, <3>1, RegistryAssumption DEF RegistryInv, Charged, Busy
  <2>4. CASE Cardinality(Permitted') <= Permits
    BY <1>1, <2>1, <2>4 DEF RegistryInv, Charged, Busy
  <2> QED
    BY <2>3, <2>4
<1>4. Committed'
  BY <1>1 DEF RegistryInv, Committed
<1>5. Unanswered'
  BY <1>1 DEF RegistryInv, Unanswered, Busy
<1> QED
  BY <1>2, <1>3, <1>4, <1>5 DEF RegistryInv

LEMMA GoesTo ==
  ASSUME RegistryInv, NEW o \in Operation,
         NEW stage \in {"subscribed", "waiting", "working"}, Goes(o, stage)
  PROVE  \E t \in TaskRecord :
            /\ task' = [task EXCEPT ![o] = t]
            /\ t.stage = stage /\ t.committed = task[o].committed /\ t.result = task[o].result
<1> DEFINE t == [task[o] EXCEPT !.stage = stage]
<1>1. task[o] \in TaskRecord
  BY DEF RegistryInv, Shape
<1>2. /\ t \in TaskRecord
      /\ t.stage = stage /\ t.committed = task[o].committed /\ t.result = task[o].result
  BY <1>1 DEF TaskRecord
<1>3. task' = [task EXCEPT ![o] = t]
  BY DEF Goes
<1> QED
  BY <1>2, <1>3

LEMMA FinishesWith ==
  ASSUME RegistryInv, NEW o \in Operation,
         NEW result \in {"ok", "failed", "cancelled", "deadline"}, Finishes(o, result)
  PROVE  \E t \in TaskRecord :
            /\ task' = [task EXCEPT ![o] = t]
            /\ t.stage = "leaving" /\ t.committed = task[o].committed /\ t.result = result
<1> DEFINE t == [task[o] EXCEPT !.stage = "leaving", !.result = result, !.woken = FALSE]
<1>1. task[o] \in TaskRecord /\ task \in [Operation -> TaskRecord]
  BY DEF RegistryInv, Shape
<1>2. /\ t \in TaskRecord
      /\ t.stage = "leaving" /\ t.committed = task[o].committed /\ t.result = result
  BY <1>1 DEF TaskRecord
<1>3. task' = [task EXCEPT ![o] = t]
  BY <1>1 DEF Finishes
<1> QED
  BY <1>2, <1>3

\* A step of an uncommitted task to a later stage without a permit, or to its end.
LEMMA GoesInv ==
  ASSUME RegistryInv, TaskOnly, NEW o \in Operation,
         NEW stage \in {"subscribed", "waiting"}, Goes(o, stage),
         o \in Busy, task[o].stage # "committed", task[o].stage # "leaving"
  PROVE  RegistryInv'
<1>1. PICK t \in TaskRecord :
         /\ task' = [task EXCEPT ![o] = t]
         /\ t.stage = stage /\ t.committed = task[o].committed /\ t.result = task[o].result
  BY GoesTo
<1>2. Permitted' \subseteq Permitted
  BY <1>1 DEF Permitted, RegistryInv, Shape
<1>3. ~t.committed /\ t.result = "none"
  BY <1>1 DEF RegistryInv, Committed, Unanswered, Busy
<1> QED
  BY <1>1, <1>2, <1>3, TaskInv

LEMMA FinishesInv ==
  ASSUME RegistryInv, TaskOnly, NEW o \in Operation,
         NEW result \in {"ok", "failed", "cancelled", "deadline"}, Finishes(o, result),
         o \in Busy, task[o].stage # "committed" \/ result \in {"ok", "failed"},
         task[o].stage # "leaving"
  PROVE  RegistryInv'
<1>1. PICK t \in TaskRecord :
         /\ task' = [task EXCEPT ![o] = t]
         /\ t.stage = "leaving" /\ t.committed = task[o].committed /\ t.result = result
  BY FinishesWith
<1>2. Permitted' \subseteq Permitted
  BY <1>1 DEF Permitted, RegistryInv, Shape
<1>3. t.committed => /\ t.stage \in {"committed", "leaving"}
                     /\ t.result \in {"none", "ok", "failed"}
                     /\ reservation[o].window # None
                     /\ reservation[o].kind # "bounded"
                     /\ caller[o] \notin {"cancelled", "deadline"}
  BY <1>1 DEF RegistryInv, Committed, Busy
<1> QED
  BY <1>1, <1>2, <1>3, TaskInv

LEMMA CheckedInv ==
  ASSUME RegistryInv, TaskOnly, NEW o \in Operation,
         NEW stage \in {"subscribed", "waiting"}, Checked(o, stage),
         task[o].stage \in {"started", "subscribed"}
  PROVE  RegistryInv'
<1>1. o \in Busy
  BY DEF Busy
<1>2. CASE Refusal(o) = "none"
  BY <1>1, <1>2, GoesInv DEF Checked
<1>3. CASE Refusal(o) # "none"
  <2>1. Refusal(o) \in {"cancelled", "deadline"} /\ Finishes(o, Refusal(o))
    BY <1>3 DEF Refusal, Checked
  <2> QED
    BY <1>1, <2>1, FinishesInv
<1> QED
  BY <1>2, <1>3

LEMMA PreflightInv == ASSUME RegistryInv, NEW o \in Operation, Preflight(o) PROVE RegistryInv'
<1>1. TaskOnly /\ task[o].stage = "started" /\ o \in Busy
  BY DEF Preflight, Busy
<1>2. CASE Finishes(o, "failed")
  BY <1>1, <1>2, FinishesInv
<1>3. CASE Checked(o, "subscribed")
  BY <1>1, <1>3, CheckedInv
<1> QED
  BY <1>2, <1>3 DEF Preflight

LEMMA CheckSubscribedInv ==
  ASSUME RegistryInv, NEW o \in Operation, CheckSubscribed(o) PROVE RegistryInv'
  BY CheckedInv DEF CheckSubscribed

LEMMA StopWaitingInv ==
  ASSUME RegistryInv, NEW o \in Operation, StopWaiting(o) PROVE RegistryInv'
<1>1. TaskOnly /\ task[o].stage = "waiting" /\ o \in Busy
  BY DEF StopWaiting, Busy
<1>2. PICK result \in {"cancelled", "deadline"} : Finishes(o, result)
  BY DEF StopWaiting
<1> QED
  BY <1>1, <1>2, FinishesInv

LEMMA AcquireInv == ASSUME RegistryInv, NEW o \in Operation, Acquire(o) PROVE RegistryInv'
<1>1. TaskOnly /\ task[o].stage = "waiting" /\ o \in Busy /\ Cardinality(Permitted) < Permits
  BY DEF Acquire, Busy
<1>2. CASE Refusal(o) # "none"
  <2>1. Refusal(o) \in {"cancelled", "deadline"} /\ Finishes(o, Refusal(o))
    BY <1>2 DEF Refusal, Checked, Acquire
  <2> QED
    BY <1>1, <2>1, FinishesInv
<1>3. CASE Refusal(o) = "none"
  <2>1. Goes(o, "working")
    BY <1>3 DEF Acquire, Checked
  <2>2. PICK t \in TaskRecord :
           /\ task' = [task EXCEPT ![o] = t]
           /\ t.stage = "working" /\ t.committed = task[o].committed /\ t.result = task[o].result
    BY <2>1, GoesTo
  <2>3. Permitted' \subseteq Permitted \cup {o} /\ Permitted \in SUBSET Operation
    BY <2>2 DEF Permitted, RegistryInv, Shape
  <2>4. Cardinality(Permitted \cup {o}) <= Cardinality(Permitted) + 1
        /\ Cardinality(Permitted) \in Nat /\ Cardinality(Permitted \cup {o}) \in Nat
    BY <2>3, OneMore
  <2>5. Cardinality(Permitted') <= Cardinality(Permitted \cup {o}) /\ Cardinality(Permitted') \in Nat
    BY <2>3, Fewer
  <2>6. Cardinality(Permitted') <= Permits
    BY <1>1, <2>4, <2>5, RegistryAssumption
  <2>7. ~t.committed /\ t.result = "none"
    BY <1>1, <2>2 DEF RegistryInv, Committed, Unanswered
  <2> QED
    BY <1>1, <2>2, <2>6, <2>7, TaskInv
<1> QED
  BY <1>2, <1>3

LEMMA CommitInv == ASSUME RegistryInv, NEW o \in Operation, Commit(o) PROVE RegistryInv'
<1> DEFINE t == [task[o] EXCEPT !.stage = "committed", !.committed = TRUE]
<1>1. /\ TaskOnly /\ task[o].stage = "working" /\ o \in Busy
      /\ reservation[o].kind \in Committing
      /\ task' = [task EXCEPT ![o].stage = "committed", ![o].committed = TRUE]
  BY DEF Commit, Busy
<1>2. task[o] \in TaskRecord /\ task \in [Operation -> TaskRecord]
  BY DEF RegistryInv, Shape
<1>3. /\ t \in TaskRecord
      /\ t.stage = "committed" /\ t.committed /\ t.result = task[o].result
  BY <1>2 DEF TaskRecord
<1>4. task' = [task EXCEPT ![o] = t]
  BY <1>1, <1>2
<1>5. Permitted' \subseteq Permitted
  BY <1>1, <1>2, <1>4 DEF Permitted
<1>6. task[o].result = "none" /\ caller[o] \in {"waiting", "gone"} /\ reservation[o].window # None
  BY <1>1 DEF RegistryInv, Unanswered, Charged, Committing
<1>7. reservation[o].kind # "bounded"
  BY <1>1 DEF Committing
<1> HIDE DEF t
<1> QED
  BY <1>1, <1>3, <1>4, <1>5, <1>6, <1>7, TaskInv

LEMMA FinishWorkInv == ASSUME RegistryInv, NEW o \in Operation, FinishWork(o) PROVE RegistryInv'
<1>1. TaskOnly /\ o \in Busy /\ task[o].stage # "leaving"
  BY DEF FinishWork, Busy
<1>2. PICK result \in {"ok", "failed", "cancelled", "deadline"} :
         Finishes(o, result) /\ (task[o].stage # "committed" \/ result \in {"ok", "failed"})
  BY DEF FinishWork, Refusal
<1> QED
  BY <1>1, <1>2, FinishesInv

LEMMA LeaveInv == ASSUME RegistryInv, NEW o \in Operation, Leave(o) PROVE RegistryInv'
<1> DEFINE result == IF caller[o] = "waiting" THEN task[o].result ELSE "none"
           t == [task[o] EXCEPT !.stage = "done", !.result = result]
           r == Removed(entries[o])
<1>1. /\ task[o] \in TaskRecord /\ task \in [Operation -> TaskRecord]
      /\ entries \in [Operation -> Entry]
  BY EntriesShape DEF RegistryInv, Shape
<1>2. /\ t \in TaskRecord /\ t.stage = "done" /\ t.committed = task[o].committed
      /\ t.result \in {task[o].result, "none"}
  BY <1>1 DEF TaskRecord
<1>3. /\ task' = [task EXCEPT ![o] = t]
      /\ reservation' = [entries EXCEPT ![o] = r]
      /\ now' = now /\ caller' = caller
  BY <1>1 DEF Leave
<1>4. /\ r \in Entry /\ r.window = reservation[o].window /\ r.kind = reservation[o].kind
      /\ ~r.held
  BY RemovedEntry DEF Removed, Absent
<1> HIDE DEF t, r
<1>5. /\ task'[o] = t /\ reservation'[o] = r
      /\ \A p \in Operation \ {o} : task'[p] = task[p] /\ reservation'[p] = entries[p]
  BY <1>1, <1>3
<1>6. Shape'
  BY <1>1, <1>2, <1>3, <1>4 DEF RegistryInv, Shape
<1>7. Charged'
  <2>1. Held' \subseteq Held
    BY <1>4, <1>5, EntriesShape DEF Held, RegistryInv
  <2>2. Permitted' \subseteq Permitted
    BY <1>2, <1>5 DEF Permitted
  <2>3. \A p \in Busy' : reservation'[p].held /\ reservation'[p].claimed
    BY <1>2, <1>5, EntriesShape DEF Busy, RegistryInv, Charged
  <2> QED
    BY <2>1, <2>2, <2>3, NoNewCharge DEF RegistryInv
<1>8. Committed'
  BY <1>2, <1>3, <1>4, <1>5, EntriesShape DEF RegistryInv, Committed
<1>9. Unanswered'
  BY <1>2, <1>3, <1>4, <1>5, EntriesShape DEF RegistryInv, Unanswered, Busy
<1> QED
  BY <1>6, <1>7, <1>8, <1>9 DEF RegistryInv

LEMMA TaskStepInv == ASSUME RegistryInv, NEW o \in Operation, TaskStep(o) PROVE RegistryInv'
  BY PreflightInv, CheckSubscribedInv, StopWaitingInv, AcquireInv, CommitInv, FinishWorkInv, LeaveInv
     DEF TaskStep

-----------------------------------------------------------------------------
\* The calls, the windows and the application.

\* A step that touches neither the registry nor a task nor a call.
LEMMA AsideInv ==
  ASSUME RegistryInv, UNCHANGED <<reservation, task, caller>>, now' \in Nat
  PROVE  RegistryInv'
<1>1. Shape'
  BY DEF RegistryInv, Shape
<1>2. Charged'
  <2>1. Held' = Held /\ Permitted' = Permitted /\ Busy' = Busy
    BY DEF Held, Permitted, Busy
  <2> QED
    BY <2>1 DEF RegistryInv, Charged
<1>3. Committed' /\ Unanswered'
  BY DEF RegistryInv, Committed, Unanswered, Busy
<1> QED
  BY <1>1, <1>2, <1>3 DEF RegistryInv

LEMMA AnswerAtDeadlineInv ==
  ASSUME RegistryInv, NEW o \in Operation, AnswerAtDeadline(o) PROVE RegistryInv'
<1>1. CallsTold
  BY DEF AnswerAtDeadline, CallsTold, RegistryInv, Shape
<1>2. reservation \in [Operation -> Entry]
  BY DEF RegistryInv, Shape
<1> QED
  BY <1>1, <1>2, SignalInv DEF AnswerAtDeadline

\* A call is answered after its task has ended.
LEMMA AnswerInv == ASSUME RegistryInv, NEW o \in Operation, Answer(o) PROVE RegistryInv'
<1>1. /\ caller' = [caller EXCEPT ![o] = task[o].result]
      /\ task[o].stage = "done"
      /\ reservation' = reservation /\ task' = task /\ now' = now
  BY DEF Answer
<1>2. task[o].result \in {"none", "ok", "failed", "cancelled", "deadline"}
  BY DEF RegistryInv, Shape, TaskRecord
<1>3. caller'[o] = task[o].result /\ \A p \in Operation \ {o} : caller'[p] = caller[p]
  BY <1>1 DEF RegistryInv, Shape
<1>4. Shape'
  BY <1>1, <1>2 DEF RegistryInv, Shape
<1>5. Charged'
  <2>1. Held' = Held /\ Permitted' = Permitted /\ Busy' = Busy
    BY <1>1 DEF Held, Permitted, Busy
  <2> QED
    BY <1>1, <2>1 DEF RegistryInv, Charged
<1>6. Committed'
  BY <1>1, <1>3 DEF RegistryInv, Committed
<1>7. Unanswered'
  BY <1>1, <1>3 DEF RegistryInv, Unanswered, Busy
<1> QED
  BY <1>4, <1>5, <1>6, <1>7 DEF RegistryInv

LEMMA DropCallerInv ==
  ASSUME RegistryInv, NEW o \in Operation, DropCaller(o) PROVE RegistryInv'
<1>1. CallsTold /\ now' = now
  BY DEF DropCaller, CallsTold, RegistryInv, Shape
<1>2. reservation \in [Operation -> Entry] /\ task \in [Operation -> TaskRecord]
  BY DEF RegistryInv, Shape
<1>3. CASE Signal(reservation, {o})
  BY <1>1, <1>2, <1>3, SignalInv
<1>4. CASE UNCHANGED <<reservation, task>>
  <2>1. Signal(reservation, {})
    BY <1>2, <1>4 DEF Signal
  <2> QED
    BY <1>1, <1>2, <2>1, SignalInv
<1> QED
  BY <1>3, <1>4 DEF DropCaller

LEMMA TellWindowInv == ASSUME RegistryInv, NEW w \in Window, TellWindow(w) PROVE RegistryInv'
<1>1. OwnedBy(w) \in SUBSET Operation
  BY DEF OwnedBy, Live
<1> QED
  BY <1>1, SignalInv, NobodyTold, EntriesShape DEF TellWindow, RegistryInv

LEMMA TellEveryoneInv == ASSUME RegistryInv, TellEveryone PROVE RegistryInv'
<1>1. Live \in SUBSET Operation
  BY DEF Live
<1> QED
  BY <1>1, SignalInv, NobodyTold, EntriesShape DEF TellEveryone, RegistryInv

LEMMA InitInv == ASSUME Init PROVE RegistryInv
<1>1. Shape
  BY InitShape
<1>2. \A o \in Operation :
         /\ task[o].stage = "none" /\ ~task[o].committed
         /\ ~reservation[o].held
  BY DEF Init, Unused, Absent, Task
<1>3. Charged
  <2>1. Held = {} /\ Permitted = {} /\ Busy = {}
    BY <1>2 DEF Held, Permitted, Busy
  <2>2. Cardinality({}) = 0
    BY FS_EmptySet
  <2> QED
    BY <2>1, <2>2, RegistryAssumption DEF Charged
<1>4. Committed /\ Unanswered
  BY <1>2 DEF Committed, Unanswered, Busy
<1> QED
  BY <1>1, <1>3, <1>4 DEF RegistryInv

LEMMA StepInv == ASSUME RegistryInv, [Next]_vars PROVE RegistryInv'
<1>1. now \in Nat
  BY DEF RegistryInv, Shape
<1>2. ASSUME NEW w \in Window, NEW o \in Operation, NEW kind \in Kind, Reserve(w, o, kind)
      PROVE  RegistryInv'
  BY <1>2, ReserveInv
<1>3. ASSUME NEW o \in Operation, NEW g \in Group, Register(o, g) PROVE RegistryInv'
  BY <1>3, RegisterInv
<1>4. ASSUME NEW o \in Operation,
             Claim(o) \/ Cancel(o) \/ Release(o) \/ TaskStep(o)
               \/ AnswerAtDeadline(o) \/ Answer(o) \/ DropCaller(o)
      PROVE  RegistryInv'
  BY <1>4, ClaimInv, CancelInv, ReleaseInv, TaskStepInv, AnswerAtDeadlineInv, AnswerInv, DropCallerInv
<1>5. ASSUME NEW w \in Window, DestroyWindow(w) \/ TellWindow(w) \/ ForgetWindow(w)
      PROVE  RegistryInv'
  BY <1>1, <1>5, TellWindowInv, AsideInv DEF DestroyWindow, ForgetWindow
<1>6. CASE Shutdown
  BY <1>1, <1>6, AsideInv DEF Shutdown
<1>7. CASE TellEveryone
  BY <1>7, TellEveryoneInv
<1>8. CASE Tick
  BY <1>1, <1>8, AsideInv DEF Tick
<1>9. CASE UNCHANGED vars
  BY <1>1, <1>9, AsideInv DEF vars
<1> QED
  BY <1>2, <1>3, <1>4, <1>5, <1>6, <1>7, <1>8, <1>9 DEF Next

LEMMA AlwaysInv == Spec => []RegistryInv
  BY InitInv, StepInv, PTL DEF Spec

LEMMA InvCharged == ASSUME RegistryInv PROVE StillCharged
<1>1. Busy \subseteq Held /\ Held \in SUBSET Operation
  BY DEF RegistryInv, Charged, Busy, Held
<1>2. Cardinality(Busy) <= Cardinality(Held) /\ Cardinality(Busy) \in Nat /\ Cardinality(Held) \in Nat
  BY <1>1, Fewer
<1> QED
  BY <1>2, RegistryAssumption DEF RegistryInv, Charged, StillCharged

\* Work that goes on is always held and claimed in the registry, and neither
\* the entries nor the heavy permits exceed their limits, whatever expires,
\* is cancelled, dropped or closed (OperationRegistry::run_inner and entries).
THEOREM WorkStaysCharged == Spec => []StillCharged
  BY AlwaysInv, InvCharged, PTL

\* No call is answered with a cancellation or a deadline for what its
\* operation has committed (run_with_mutation_budget and the deadline of
\* run_with_bounded_budget, which only reads).
THEOREM CommitsAreAnswered == Spec => []CommitAnswered
<1>1. RegistryInv => CommitAnswered
  BY DEF RegistryInv, Committed, CommitAnswered
<1> QED
  BY <1>1, AlwaysInv, PTL

-----------------------------------------------------------------------------
(***************************************************************************)
(* The groups of the registry: which of them a window can still find, and  *)
(* who owns them.                                                          *)
(***************************************************************************)

(***************************************************************************)
(* The filter on the settled groups is a recursive function, so what it    *)
(* computes needs an induction.  The library's induction theorems quantify *)
(* over operators; the least element of a set of naturals does not.        *)
(***************************************************************************)
LEMMA SetInduction ==
  ASSUME NEW S, 0 \in S, \A n \in Nat : n \in S => n + 1 \in S
  PROVE  Nat \subseteq S
<1> DEFINE T == Nat \ S
<1> SUFFICES ASSUME T # {} PROVE FALSE
  OBVIOUS
<1>1. PICK x \in T : \A y \in T : ~ (<<y, x>> \in OpToRel(<, Nat))
  <2>1. T \subseteq Nat
    OBVIOUS
  <2> HIDE DEF T
  <2> QED
    BY <2>1, NatLessThanWellFounded, WFMin
<1>2. \A y \in T : ~(y < x)
  BY <1>1 DEF OpToRel
<1>3. x # 0 /\ x - 1 \in Nat /\ (x - 1) + 1 = x
  OBVIOUS
<1> QED
  BY <1>2, <1>3

Settled == [window : Window, group : Group]

\* One step of the filter.
Filtered(f, w, n) ==
    IF n = 0 THEN <<>>
    ELSE IF terminal[n].window = w THEN f[n - 1]
    ELSE Append(f[n - 1], terminal[n])

\* A solution of the recursion up to m.
Solves(f, w, m) ==
    f \in [0..m -> Seq(Settled)] /\ \A n \in 0..m : f[n] = Filtered(f, w, n)

LEMMA FilterExtended ==
  ASSUME terminal \in Seq(Settled), NEW w, NEW m \in Nat, m + 1 <= Len(terminal),
         NEW g, Solves(g, w, m)
  PROVE  \E f : Solves(f, w, m + 1)
<1> DEFINE f == [n \in 0..m + 1 |-> IF n = m + 1 THEN Filtered(g, w, m + 1) ELSE g[n]]
<1>1. Len(terminal) \in Nat /\ g \in [0..m -> Seq(Settled)]
  BY DEF Solves
<1>2. Filtered(g, w, m + 1) \in Seq(Settled)
  <2>1. g[m] \in Seq(Settled) /\ (m + 1) - 1 = m /\ m + 1 # 0 /\ m + 1 \in 1..Len(terminal)
    BY <1>1
  <2>2. terminal[m + 1] \in Settled
    BY <2>1
  <2> QED
    BY <2>1, <2>2 DEF Filtered
<1>3. f \in [0..m + 1 -> Seq(Settled)]
  BY <1>1, <1>2
<1>4. \A n \in 0..m : f[n] = g[n]
  OBVIOUS
<1>5. f[m + 1] = Filtered(g, w, m + 1)
  OBVIOUS
<1> HIDE DEF f
<1>6. \A n \in 0..m + 1 : Filtered(f, w, n) = Filtered(g, w, n)
  <2> SUFFICES ASSUME NEW n \in 0..m + 1, n # 0 PROVE f[n - 1] = g[n - 1]
    BY DEF Filtered
  <2> QED
    BY <1>4
<1>7. \A n \in 0..m + 1 : n = m + 1 \/ n \in 0..m
  OBVIOUS
<1>8. \A n \in 0..m : g[n] = Filtered(g, w, n)
  BY DEF Solves
<1>9. \A n \in 0..m + 1 : f[n] = Filtered(f, w, n)
  BY <1>4, <1>5, <1>6, <1>7, <1>8
<1> QED
  BY <1>3, <1>9 DEF Solves

\* There is a function that the recursion defines.
LEMMA FilterDefined ==
  ASSUME terminal \in Seq(Settled), NEW w
  PROVE  \E f : f = [n \in 0..Len(terminal) |-> Filtered(f, w, n)]
<1> DEFINE S == {m \in Nat : m <= Len(terminal) => \E f : Solves(f, w, m)}
<1>0. Len(terminal) \in Nat
  OBVIOUS
<1>1. 0 \in S
  <2> DEFINE f == [n \in 0..0 |-> <<>>]
  <2>1. Solves(f, w, 0)
    BY DEF Filtered, Solves
  <2> HIDE DEF f
  <2> QED
    BY <2>1
<1>2. \A m \in Nat : m \in S => m + 1 \in S
  BY <1>0, FilterExtended
<1>3. Nat \subseteq S
  <2> HIDE DEF S
  <2> QED
    BY <1>1, <1>2, SetInduction
<1>4. PICK f : Solves(f, w, Len(terminal))
  BY <1>0, <1>3
<1>5. f = [n \in 0..Len(terminal) |-> Filtered(f, w, n)]
  BY <1>4 DEF Solves
<1> QED
  BY <1>5

\* The elements of a sequence of settled groups.
Elements(s) == {s[i] : i \in DOMAIN s}

LEMMA AppendElements ==
  ASSUME NEW s \in Seq(Settled), NEW x \in Settled
  PROVE  Append(s, x) \in Seq(Settled) /\ Elements(Append(s, x)) = Elements(s) \cup {x}
         /\ Len(Append(s, x)) = Len(s) + 1
<1>1. Append(s, x) \in Seq(Settled) /\ Len(Append(s, x)) = Len(s) + 1
      /\ Append(s, x)[Len(s) + 1] = x /\ \A i \in 1..Len(s) : Append(s, x)[i] = s[i]
  OBVIOUS
<1>2. DOMAIN Append(s, x) = 1..Len(s) + 1 /\ DOMAIN s = 1..Len(s) /\ Len(s) \in Nat
  BY <1>1
<1> QED
  BY <1>1, <1>2 DEF Elements

\* The groups of other windows among the first n, and that f[n] has them.
Kept(w, n) == {e \in {terminal[i] : i \in 1..n} : e.window # w}

Right(f, w, n) ==
    /\ f[n] \in Seq(Settled)
    /\ Elements(f[n]) = Kept(w, n)
    /\ Len(f[n]) <= n

\* What the filter computes: exactly the settled groups of the other windows.
LEMMA FilterElements ==
  ASSUME terminal \in Seq(Settled), NEW w
  PROVE  /\ OfOtherWindows(w) \in Seq(Settled)
         /\ Elements(OfOtherWindows(w)) = {e \in Elements(terminal) : e.window # w}
         /\ Len(OfOtherWindows(w)) <= Len(terminal)
<1> DEFINE f == CHOOSE g : g = [n \in 0..Len(terminal) |-> Filtered(g, w, n)]
           S == {n \in Nat : n <= Len(terminal) => Right(f, w, n)}
<1>1. f = [n \in 0..Len(terminal) |-> Filtered(f, w, n)]
  BY FilterDefined
<1>2. OfOtherWindows(w) = f[Len(terminal)]
  BY DEF OfOtherWindows, Filtered
<1> HIDE DEF f
<1>3. \A n \in 0..Len(terminal) : f[n] = Filtered(f, w, n)
  BY <1>1
<1>4. Len(terminal) \in Nat
  OBVIOUS
<1>5. 0 \in S
  <2>1. f[0] = <<>>
    BY <1>3, <1>4 DEF Filtered
  <2>2. Elements(<<>>) = {} /\ <<>> \in Seq(Settled) /\ Len(<<>>) = 0
    <3>1. <<>> \in Seq(Settled) /\ Len(<<>>) = 0
      OBVIOUS
    <3>2. DOMAIN <<>> = {}
      BY <3>1
    <3> QED
      BY <3>1, <3>2 DEF Elements
  <2>3. Kept(w, 0) = {}
    BY DEF Kept
  <2>4. Right(f, w, 0)
    <3>1. f[0] \in Seq(Settled) /\ Len(f[0]) <= 0
      BY <2>1
    <3>2. Elements(f[0]) = Kept(w, 0)
      BY <2>1, <2>2, <2>3, Zenon
    <3> QED
      BY <3>1, <3>2, Zenon DEF Right
  <2> QED
    BY <2>4, <1>4
<1>6. \A n \in Nat : n \in S => n + 1 \in S
  <2> SUFFICES ASSUME NEW n \in Nat, Right(f, w, n), n + 1 <= Len(terminal) PROVE Right(f, w, n + 1)
    BY <1>4
  <2>1. n + 1 \in 1..Len(terminal) /\ n + 1 # 0 /\ (n + 1) - 1 = n /\ terminal[n + 1] \in Settled
    BY <1>4
  <2>2. f[n + 1] = IF terminal[n + 1].window = w THEN f[n] ELSE Append(f[n], terminal[n + 1])
    BY <1>3, <2>1 DEF Filtered
  <2>3. \A i : i \in 1..n + 1 <=> i \in 1..n \/ i = n + 1
    OBVIOUS
  <2>4. {terminal[i] : i \in 1..n + 1} = {terminal[i] : i \in 1..n} \cup {terminal[n + 1]}
    BY <2>3
  <2>5. CASE terminal[n + 1].window = w
    <3>1. Kept(w, n + 1) = Kept(w, n)
      BY <2>4, <2>5 DEF Kept
    <3> QED
      BY <2>2, <2>5, <3>1 DEF Right
  <2>6. CASE terminal[n + 1].window # w
    <3>1. Kept(w, n + 1) = Kept(w, n) \cup {terminal[n + 1]}
      BY <2>4, <2>6 DEF Kept
    <3> QED
      <4>1. f[n] \in Seq(Settled) /\ Elements(f[n]) = Kept(w, n) /\ Len(f[n]) <= n
        BY DEF Right
      <4>2. f[n + 1] = Append(f[n], terminal[n + 1])
        BY <2>2, <2>6
      <4>3. /\ f[n + 1] \in Seq(Settled)
            /\ Elements(f[n + 1]) = Elements(f[n]) \cup {terminal[n + 1]}
            /\ Len(f[n + 1]) = Len(f[n]) + 1
        BY <2>1, <4>1, <4>2, AppendElements
      <4> QED
        BY <3>1, <4>1, <4>3 DEF Right
  <2> QED
    BY <2>5, <2>6
<1>7. Right(f, w, Len(terminal))
  <2>1. Nat \subseteq S
    <3> HIDE DEF S
    <3> QED
      BY <1>5, <1>6, SetInduction
  <2> QED
    BY <1>4, <2>1
<1>8. {terminal[i] : i \in 1..Len(terminal)} = Elements(terminal)
  BY DEF Elements
<1> QED
  BY <1>2, <1>7, <1>8 DEF Right, Kept

-----------------------------------------------------------------------------
(***************************************************************************)
(* The inductive invariant.  OneOwner speaks of the entries that are still *)
(* in time; the entries that are not yet swept obey it too, which is what  *)
(* a step that does not sweep needs.                                       *)
(***************************************************************************)
GroupShape ==
    /\ terminal \in Seq(Settled)
    /\ owed \subseteq Window \X Group
    /\ window \in [Window -> {"open", "cancelled", "told", "closed"}]

Rivals(o, p) ==
    /\ reservation[o].window = reservation[p].window
    /\ reservation[o].group # None /\ reservation[p].group # None

HeldOnce ==
    \A o, p \in Held : o # p /\ Rivals(o, p) =>
        /\ reservation[o].group.id # reservation[p].group.id
        /\ reservation[o].group.scenario # reservation[p].group.scenario

NotSettled ==
    \A o \in Held, e \in Elements(terminal) :
        reservation[o].group # None /\ reservation[o].window = e.window
            => reservation[o].group.id # e.group.id

OwedFound ==
    \A e \in owed : ~WindowCancelled(e[1]) => e \in LiveGroups \cup SettledGroups

NothingForClosed == \A e \in Elements(terminal) : window[e.window] # "closed"

GroupInv == GroupShape /\ HeldOnce /\ NotSettled /\ OwedFound /\ NothingForClosed

\* Entry o keeps its group, has none, or is not there any more.
EntryKeeps(o) ==
    /\ reservation[o].held /\ reservation[o].claimed =>
           /\ reservation'[o].held /\ reservation'[o].claimed
           /\ reservation'[o].window = reservation[o].window
           /\ reservation'[o].group = reservation[o].group
    /\ reservation'[o].held /\ reservation'[o].group # None =>
           /\ reservation[o].held
           /\ reservation'[o].window = reservation[o].window
           /\ reservation'[o].group = reservation[o].group

\* Windows and the application are cancelled and never opened again.
OnlyCloses ==
    /\ window' \in [Window -> {"open", "cancelled", "told", "closed"}]
    /\ \A w \in Window : WindowCancelled(w) => WindowCancelled(w)'

LEMMA SettledElements ==
  ASSUME terminal \in Seq(Settled)
  PROVE  SettledGroups = {<<e.window, e.group>> : e \in Elements(terminal)}
  BY DEF SettledGroups, Elements

LEMMA ElementsType ==
  ASSUME NEW s \in Seq(Settled)
  PROVE  \A e \in Elements(s) : e \in Settled /\ e.window \in Window /\ e.group \in Group
<1>1. \A i \in DOMAIN s : s[i] \in Settled
  OBVIOUS
<1> QED
  BY <1>1 DEF Elements, Settled

LEMMA LiveGroupKept ==
  ASSUME NEW o \in Operation, reservation[o].held, reservation[o].claimed, EntryKeeps(o)
  PROVE  <<reservation[o].window, reservation[o].group>> \in LiveGroups'
  BY DEF EntryKeeps, LiveGroups

\* Steps that keep every group where it is.
LEMMA GroupFrame ==
  ASSUME GroupInv, \A o \in Operation : EntryKeeps(o), OnlyCloses,
         terminal' = terminal, owed' = owed,
         \A w \in Window : window'[w] = "closed" => window[w] = "closed"
  PROVE  GroupInv'
<1>1. GroupShape'
  BY DEF GroupInv, GroupShape, OnlyCloses
<1>2. HeldOnce'
  BY DEF GroupInv, HeldOnce, Held, Rivals, EntryKeeps
<1>3. NotSettled'
  BY DEF GroupInv, NotSettled, Held, EntryKeeps, Elements
<1>4. OwedFound'
  <2>1. \A e \in LiveGroups : e \in LiveGroups'
    BY LiveGroupKept DEF LiveGroups
  <2>2. SettledGroups' = SettledGroups
    BY DEF SettledGroups
  <2>3. \A e \in owed : e[1] \in Window
    BY DEF GroupInv, GroupShape
  <2>4. \A w \in Window : ~WindowCancelled(w)' => ~WindowCancelled(w)
    BY DEF OnlyCloses
  <2> SUFFICES ASSUME NEW e \in owed, ~WindowCancelled(e[1])'
               PROVE  e \in LiveGroups' \cup SettledGroups'
    BY DEF OwedFound, WindowCancelled
  <2>5. ~WindowCancelled(e[1])
    BY <2>3, <2>4
  <2> QED
    BY <2>1, <2>2, <2>5 DEF GroupInv, OwedFound
<1>5. NothingForClosed'
  <2>1. \A e \in Elements(terminal) : e.window \in Window
    BY ElementsType DEF GroupInv, GroupShape
  <2>2. Elements(terminal)' = Elements(terminal)
    BY DEF Elements
  <2> QED
    BY <2>1, <2>2 DEF GroupInv, NothingForClosed
<1> QED
  BY <1>1, <1>2, <1>3, <1>4, <1>5 DEF GroupInv

-----------------------------------------------------------------------------
(***************************************************************************)
(* The steps.                                                              *)
(***************************************************************************)
\* Sweeping takes away unclaimed entries only.
LEMMA SweepKeeps ==
  ASSUME Shape, NEW o \in Operation, reservation'[o] = entries[o] \/ reservation'[o] = reservation[o]
  PROVE  EntryKeeps(o)
  BY EntriesShape DEF EntryKeeps

LEMMA SignalKeeps ==
  ASSUME Shape, NEW R \in [Operation -> Entry], R = entries \/ R = reservation, NEW S, Signal(R, S)
  PROVE  \A o \in Operation : EntryKeeps(o)
<1> SUFFICES ASSUME NEW o \in Operation PROVE EntryKeeps(o)
  OBVIOUS
<1>1. /\ R[o].window = reservation[o].window
      /\ R[o].held => R[o] = reservation[o]
      /\ reservation[o].held /\ reservation[o].claimed => R[o] = reservation[o]
  BY EntriesShape
<1>2. R[o] \in Entry
  OBVIOUS
<1>3. /\ reservation'[o].held = R[o].held /\ reservation'[o].claimed = R[o].claimed
      /\ reservation'[o].window = R[o].window /\ reservation'[o].group = R[o].group
  BY <1>2 DEF Signal, Entry
<1> QED
  BY <1>1, <1>3 DEF EntryKeeps

LEMMA NothingCloses ==
  ASSUME GroupInv, window' = window, application' = application
  PROVE  OnlyCloses /\ \A w \in Window : window'[w] = "closed" => window[w] = "closed"
  BY DEF OnlyCloses, WindowCancelled, GroupInv, GroupShape

\* Steps that touch no window, no settled group and no debt.
LEMMA GroupsStay ==
  ASSUME GroupInv, \A o \in Operation : EntryKeeps(o),
         UNCHANGED <<window, application, terminal, owed>>
  PROVE  GroupInv'
  BY NothingCloses, GroupFrame

LEMMA EntriesStay ==
  ASSUME RegistryInv, GroupInv, reservation' = reservation,
         UNCHANGED <<window, application, terminal, owed>>
  PROVE  GroupInv'
  BY SweepKeeps, GroupsStay DEF RegistryInv

LEMMA GroupReserve ==
  ASSUME RegistryInv, GroupInv, NEW w \in Window, NEW o \in Operation, NEW kind \in Kind,
         Reserve(w, o, kind)
  PROVE  GroupInv'
<1>1. /\ reservation'[o] = Reserved(w, kind) /\ ~reservation[o].held
      /\ \A p \in Operation \ {o} : reservation'[p] = entries[p]
      /\ UNCHANGED <<window, application, terminal, owed>>
  BY EntriesShape DEF Reserve, RegistryInv, Unused, Absent
<1>2. EntryKeeps(o)
  BY <1>1 DEF EntryKeeps, Reserved
<1>3. \A p \in Operation \ {o} : EntryKeeps(p)
  BY <1>1, SweepKeeps DEF RegistryInv
<1> QED
  BY <1>1, <1>2, <1>3, GroupsStay

\* An entry is removed that was not claimed.
LEMMA GroupRemove ==
  ASSUME RegistryInv, GroupInv, NEW o \in Operation, ~entries[o].claimed, entries[o].held,
         reservation' = [entries EXCEPT ![o] = Removed(entries[o])],
         UNCHANGED <<window, application, terminal, owed>>
  PROVE  GroupInv'
<1>1. /\ reservation'[o] = Removed(entries[o])
      /\ \A p \in Operation \ {o} : reservation'[p] = entries[p]
  BY EntriesShape DEF RegistryInv
<1>2. EntryKeeps(o)
  BY <1>1, EntriesShape DEF RegistryInv, EntryKeeps, Removed, Absent
<1>3. \A p \in Operation \ {o} : EntryKeeps(p)
  BY <1>1, SweepKeeps DEF RegistryInv
<1> QED
  BY <1>2, <1>3, GroupsStay

\* A group is registered when no entry in time and no settled group has its
\* identity, and no entry in time its scenario.
LEMMA GroupRegister ==
  ASSUME RegistryInv, GroupInv, NEW o \in Operation, NEW g \in Group, Register(o, g)
  PROVE  GroupInv'
<1>1. entries \in [Operation -> Entry] /\ entries[o] \in Entry
  BY EntriesShape DEF RegistryInv
<1>2. /\ \A p \in Operation \ {o} : reservation'[p] = entries[p]
      /\ reservation'[o].held = entries[o].held /\ reservation'[o].claimed = entries[o].claimed
      /\ reservation'[o].window = entries[o].window /\ reservation'[o].group = g
      /\ UNCHANGED <<window, application, terminal, owed>>
  BY <1>1 DEF Register, Entry
<1>3. /\ entries[o].held /\ ~entries[o].claimed
      /\ \A p \in Live : entries[p].window = entries[o].window /\ entries[p].group # None =>
             entries[p].group.id # g.id /\ entries[p].group.scenario # g.scenario
      /\ \A i \in DOMAIN terminal : terminal[i].window = entries[o].window =>
             terminal[i].group.id # g.id
  BY DEF Register, MayRegister
<1>4. \A p \in Operation : /\ entries[p].held => entries[p] = reservation[p]
                           /\ reservation[p].held /\ reservation[p].claimed => entries[p] = reservation[p]
  BY EntriesShape DEF RegistryInv
<1>5. \A p \in Operation \ {o} : EntryKeeps(p)
  BY <1>2, SweepKeeps DEF RegistryInv
<1>6. GroupShape'
  BY <1>2 DEF GroupInv, GroupShape
<1>7. Held' \subseteq Live
  BY <1>2, <1>3 DEF Held, Live
<1>8. HeldOnce'
  <2> SUFFICES ASSUME NEW p \in Held', NEW q \in Held', p # q, Rivals(p, q)'
               PROVE  /\ reservation'[p].group.id # reservation'[q].group.id
                      /\ reservation'[p].group.scenario # reservation'[q].group.scenario
    BY DEF HeldOnce, Rivals
  <2>1. p \in Live /\ q \in Live /\ p \in Operation /\ q \in Operation
    BY <1>7 DEF Live
  <2>2. CASE p = o
    BY <1>2, <1>3, <2>1, <2>2 DEF Rivals
  <2>3. CASE q = o
    BY <1>2, <1>3, <2>1, <2>3 DEF Rivals
  <2>4. CASE p # o /\ q # o
    <3>1. /\ reservation'[p] = reservation[p] /\ reservation'[q] = reservation[q]
          /\ p \in Held /\ q \in Held
      BY <1>2, <1>4, <2>1, <2>4 DEF Live, Held
    <3> QED
      BY <3>1 DEF GroupInv, HeldOnce, Rivals
  <2> QED
    BY <2>2, <2>3, <2>4
<1>9. NotSettled'
  <2>1. Elements(terminal)' = Elements(terminal)
    BY <1>2 DEF Elements
  <2> SUFFICES ASSUME NEW p \in Held', NEW e \in Elements(terminal),
                      reservation'[p].group # None, reservation'[p].window = e.window
               PROVE  reservation'[p].group.id # e.group.id
    BY <2>1 DEF NotSettled
  <2>2. p \in Live /\ p \in Operation
    BY <1>7 DEF Live
  <2>3. CASE p = o
    BY <1>2, <1>3, <2>3 DEF Elements
  <2>4. CASE p # o
    <3>1. reservation'[p] = reservation[p] /\ p \in Held
      BY <1>2, <1>4, <2>2, <2>4 DEF Live, Held
    <3> QED
      BY <3>1 DEF GroupInv, NotSettled
  <2> QED
    BY <2>3, <2>4
<1>10. OwedFound' /\ NothingForClosed'
  <2>1. \A p \in Operation : reservation[p].held /\ reservation[p].claimed => p # o
    BY <1>3, <1>4
  <2>2. \A e \in LiveGroups : e \in LiveGroups'
    BY <1>5, <2>1, LiveGroupKept DEF LiveGroups
  <2>3. SettledGroups' = SettledGroups /\ Elements(terminal)' = Elements(terminal)
    BY <1>2 DEF SettledGroups, Elements
  <2> QED
    BY <1>2, <2>2, <2>3 DEF GroupInv, OwedFound, NothingForClosed, WindowCancelled
<1> QED
  BY <1>6, <1>8, <1>9, <1>10 DEF GroupInv

\* A started group is a live one.
LEMMA GroupClaim ==
  ASSUME RegistryInv, GroupInv, NEW o \in Operation, Claim(o), ~Cancelled(o)
  PROVE  GroupInv'
<1>1. entries \in [Operation -> Entry] /\ entries[o] \in Entry
  BY EntriesShape DEF RegistryInv
<1>2. /\ \A p \in Operation \ {o} : reservation'[p] = entries[p]
      /\ reservation'[o].held = entries[o].held /\ reservation'[o].claimed
      /\ reservation'[o].window = entries[o].window /\ reservation'[o].group = entries[o].group
      /\ UNCHANGED <<window, application, terminal>>
      /\ owed' = owed \cup {<<entries[o].window, g>> : g \in {entries[o].group} \ {None}}
      /\ entries[o].held
  BY <1>1 DEF Claim, Entry
<1>3. entries[o] = reservation[o]
  BY <1>2, EntriesShape DEF RegistryInv
<1>4. EntryKeeps(o)
  BY <1>2, <1>3 DEF EntryKeeps
<1>5. \A p \in Operation \ {o} : EntryKeeps(p)
  BY <1>2, SweepKeeps DEF RegistryInv
<1>6. entries[o].window \in Window /\ entries[o].group \in Group \cup {None}
  BY <1>1, <1>2, <1>3 DEF RegistryInv, Unanswered, Entry
<1>7. GroupShape'
  BY <1>2, <1>6 DEF GroupInv, GroupShape
<1>8. HeldOnce'
  BY <1>4, <1>5 DEF GroupInv, HeldOnce, Held, Rivals, EntryKeeps
<1>9. NotSettled'
  BY <1>2, <1>4, <1>5 DEF GroupInv, NotSettled, Held, EntryKeeps, Elements
<1>10. OwedFound' /\ NothingForClosed'
  <2>1. \A e \in LiveGroups : e \in LiveGroups'
    BY <1>4, <1>5, LiveGroupKept DEF LiveGroups
  <2>2. <<entries[o].window, entries[o].group>> \in LiveGroups'
    BY <1>2 DEF LiveGroups
  <2>3. SettledGroups' = SettledGroups /\ Elements(terminal)' = Elements(terminal)
    BY <1>2 DEF SettledGroups, Elements
  <2>4. \A e \in owed' : e \in owed \/ e = <<entries[o].window, entries[o].group>>
    BY <1>2
  <2> QED
    BY <1>2, <2>1, <2>2, <2>3, <2>4 DEF GroupInv, OwedFound, NothingForClosed, WindowCancelled
<1> QED
  BY <1>7, <1>8, <1>9, <1>10 DEF GroupInv

\* What settling adds to the list, and the one group it may push out.
LEMMA SettledList ==
  ASSUME terminal \in Seq(Settled), NEW x \in Settled
  PROVE  LET t == Append(SubSeq(terminal, 1 + Len(Evicted), Len(terminal)), x)
         IN  /\ t \in Seq(Settled)
             /\ Elements(t) \subseteq Elements(terminal) \cup {x}
             /\ x \in Elements(t)
             /\ \A e \in Elements(terminal) :
                    e \in Elements(t) \/ \E i \in DOMAIN Evicted : Evicted[i] = e
<1> DEFINE sub == SubSeq(terminal, 1 + Len(Evicted), Len(terminal))
           t == Append(sub, x)
<1>1. Len(terminal) \in Nat /\ DOMAIN terminal = 1..Len(terminal)
  OBVIOUS
<1>2. CASE Len(terminal) = MaxSettled
  <2>1. MaxSettled \in Nat /\ MaxSettled >= 1
    BY RegistryAssumption
  <2>2. Evicted = <<Head(terminal)>> /\ Head(terminal) = terminal[1]
    BY <1>1, <1>2, <2>1 DEF Evicted
  <2>3. Len(Evicted) = 1 /\ 1 \in DOMAIN Evicted /\ Evicted[1] = terminal[1]
    BY <2>2
  <2>4. /\ sub \in Seq(Settled) /\ Len(sub) = Len(terminal) - 1
        /\ \A i \in 1..Len(sub) : sub[i] = terminal[i + 1]
    BY <1>1, <1>2, <2>1, <2>3
  <2>5. DOMAIN sub = 1..Len(sub)
    BY <2>4
  <2> HIDE DEF sub
  <2>6. t \in Seq(Settled) /\ Elements(t) = Elements(sub) \cup {x}
    BY <2>4, AppendElements
  <2>7. Elements(sub) \subseteq Elements(terminal)
    <3>1. \A i \in 1..Len(sub) : i + 1 \in 1..Len(terminal)
      BY <1>1, <2>4
    <3> QED
      BY <1>1, <2>4, <2>5, <3>1 DEF Elements
  <2>8. \A i \in 1..Len(terminal) : terminal[i] \in Elements(sub) \/ terminal[i] = Evicted[1]
    <3> SUFFICES ASSUME NEW i \in 1..Len(terminal), i # 1 PROVE terminal[i] \in Elements(sub)
      BY <2>3
    <3>1. i - 1 \in 1..Len(sub) /\ (i - 1) + 1 = i
      BY <1>1, <2>4
    <3>2. sub[i - 1] = terminal[i]
      BY <2>4, <3>1
    <3> QED
      BY <2>5, <3>1, <3>2 DEF Elements
  <2>9. \A e \in Elements(terminal) :
            e \in Elements(sub) \/ \E i \in DOMAIN Evicted : Evicted[i] = e
    BY <1>1, <2>3, <2>8 DEF Elements
  <2> HIDE DEF t
  <2> QED
    BY <2>6, <2>7, <2>9 DEF t, sub
<1>3. CASE Len(terminal) # MaxSettled
  <2>1. Evicted = <<>>
    BY <1>3 DEF Evicted
  <2>2. Len(Evicted) = 0
    BY <2>1
  <2>3. sub = terminal
    BY <1>1, <2>2
  <2> HIDE DEF sub
  <2>4. t \in Seq(Settled) /\ Elements(t) = Elements(terminal) \cup {x}
    BY <2>3, AppendElements
  <2> HIDE DEF t
  <2> QED
    BY <2>4 DEF t, sub
<1> QED
  BY <1>2, <1>3

\* The group of an operation that leaves is settled, unless nobody can ask
\* for it any more.
LEMMA GroupLeave ==
  ASSUME RegistryInv, GroupInv, NEW o \in Operation, Leave(o)
  PROVE  GroupInv'
<1> DEFINE r == reservation[o]
           x == [window |-> r.window, group |-> r.group]
<1>1. r.held /\ r.claimed /\ r.window \in Window /\ r.group \in Group \cup {None}
  <2>1. o \in Busy
    BY DEF Leave, Busy
  <2> QED
    BY <2>1 DEF RegistryInv, Charged, Unanswered, Shape, Entry
<1>2. /\ \A p \in Operation \ {o} : reservation'[p] = entries[p]
      /\ ~reservation'[o].held
      /\ window' = window /\ application' = application
  BY EntriesShape DEF RegistryInv, Leave, Removed, Absent
<1>3. \A p \in Operation \ {o} : EntryKeeps(p)
  BY <1>2, SweepKeeps DEF RegistryInv
<1>4. HeldOnce'
  BY <1>2, <1>3 DEF GroupInv, HeldOnce, Held, Rivals, EntryKeeps
<1>5. \A p \in Held' : /\ p \in Operation \ {o}
                       /\ reservation'[p].group # None =>
                             /\ p \in Held
                             /\ reservation'[p].window = reservation[p].window
                             /\ reservation'[p].group = reservation[p].group
  BY <1>2, <1>3 DEF Held, EntryKeeps
<1>6. \A e \in LiveGroups : e = <<r.window, r.group>> \/ e \in LiveGroups'
  BY <1>3, LiveGroupKept DEF LiveGroups
<1>7. CASE Retained(r)
  <2>1. r.group \in Group /\ ~WindowCancelled(r.window)
    BY <1>1, <1>7 DEF Retained
  <2>2. x \in Settled /\ x.window = r.window /\ x.group = r.group
    BY <1>1, <2>1 DEF Settled
  <2>3. /\ terminal' = Append(SubSeq(terminal, 1 + Len(Evicted), Len(terminal)), x)
        /\ owed' = owed \ {<<Evicted[i].window, Evicted[i].group>> : i \in DOMAIN Evicted}
    BY <1>7 DEF Leave
  <2> HIDE DEF x
  <2>4. /\ terminal' \in Seq(Settled)
        /\ Elements(terminal') \subseteq Elements(terminal) \cup {x}
        /\ x \in Elements(terminal')
        /\ \A e \in Elements(terminal) :
               e \in Elements(terminal') \/ \E i \in DOMAIN Evicted : Evicted[i] = e
    BY <2>2, <2>3, SettledList DEF GroupInv, GroupShape
  <2>5. GroupShape'
    BY <1>2, <2>3, <2>4 DEF GroupInv, GroupShape
  <2>6. NotSettled'
    <3> SUFFICES ASSUME NEW p \in Held', NEW e \in Elements(terminal'),
                        reservation'[p].group # None, reservation'[p].window = e.window
                 PROVE  reservation'[p].group.id # e.group.id
      BY DEF NotSettled, Elements
    <3>1. /\ p \in Held /\ p # o
          /\ reservation'[p].window = reservation[p].window
          /\ reservation'[p].group = reservation[p].group
      BY <1>5
    <3>2. CASE e \in Elements(terminal)
      BY <3>1, <3>2 DEF GroupInv, NotSettled
    <3>3. CASE e = x
      <4>1. o \in Held /\ r.group # None
        BY <1>1, <1>7 DEF Held, Retained
      <4>2. Rivals(p, o)
        BY <2>2, <3>1, <3>3, <4>1 DEF Rivals
      <4> QED
        BY <2>2, <3>1, <3>3, <4>1, <4>2 DEF GroupInv, HeldOnce
    <3> QED
      BY <2>4, <3>2, <3>3
  <2>7. OwedFound'
    <3>1. SettledGroups' = {<<e.window, e.group>> : e \in Elements(terminal')}
      BY <2>4 DEF SettledGroups, Elements
    <3>2. SettledGroups = {<<e.window, e.group>> : e \in Elements(terminal)}
      BY SettledElements DEF GroupInv, GroupShape
    <3> SUFFICES ASSUME NEW d \in owed', ~WindowCancelled(d[1])
                 PROVE  d \in LiveGroups' \cup SettledGroups'
      BY <1>2 DEF OwedFound, WindowCancelled
    <3>3. d \in owed /\ \A i \in DOMAIN Evicted : d # <<Evicted[i].window, Evicted[i].group>>
      BY <2>3
    <3>4. d \in LiveGroups \cup SettledGroups
      BY <3>3 DEF GroupInv, OwedFound
    <3>5. CASE d \in LiveGroups
      BY <1>6, <2>2, <2>4, <3>1, <3>5
    <3>6. CASE d \in SettledGroups
      BY <2>4, <3>1, <3>2, <3>3, <3>6
    <3> QED
      BY <3>4, <3>5, <3>6
  <2>8. NothingForClosed'
    <3>1. window[x.window] # "closed"
      BY <2>1, <2>2 DEF WindowCancelled
    <3> QED
      BY <1>2, <2>4, <3>1 DEF GroupInv, NothingForClosed, Elements
  <2> QED
    BY <1>4, <2>5, <2>6, <2>7, <2>8 DEF GroupInv
<1>8. CASE ~Retained(r)
  <2>1. terminal' = terminal /\ owed' = owed
    BY <1>8 DEF Leave
  <2>2. GroupShape'
    BY <1>2, <2>1 DEF GroupInv, GroupShape
  <2>3. NotSettled' /\ NothingForClosed'
    BY <1>2, <1>5, <2>1 DEF GroupInv, NotSettled, NothingForClosed, Elements
  <2>4. OwedFound'
    <3> SUFFICES ASSUME NEW d \in owed, ~WindowCancelled(d[1])
                 PROVE  d \in LiveGroups' \cup SettledGroups'
      BY <1>2, <2>1 DEF OwedFound, WindowCancelled
    <3>1. d \in Window \X Group
      BY DEF GroupInv, GroupShape
    <3>2. d # <<r.window, r.group>>
      BY <1>8, <3>1, RegistryAssumption DEF Retained
    <3>3. SettledGroups' = SettledGroups
      BY <2>1 DEF SettledGroups
    <3>4. d \in LiveGroups \cup SettledGroups
      BY DEF GroupInv, OwedFound
    <3> QED
      BY <1>6, <3>2, <3>3, <3>4
  <2> QED
    BY <1>4, <2>2, <2>3, <2>4 DEF GroupInv
<1> QED
  BY <1>7, <1>8

\* Forgetting a window takes its settled groups, and nobody else's.
LEMMA GroupForget ==
  ASSUME RegistryInv, GroupInv, NEW w \in Window, ForgetWindow(w)
  PROVE  GroupInv'
<1>1. /\ window[w] = "told" /\ window' = [window EXCEPT ![w] = "closed"]
      /\ terminal' = OfOtherWindows(w)
      /\ owed' = {e \in owed : e[1] # w}
      /\ reservation' = reservation /\ application' = application
  BY DEF ForgetWindow
<1>2. terminal \in Seq(Settled)
  BY DEF GroupInv, GroupShape
<1>3. terminal' \in Seq(Settled) /\ Elements(terminal') = {e \in Elements(terminal) : e.window # w}
  BY <1>1, <1>2, FilterElements
<1>4. /\ window' \in [Window -> {"open", "cancelled", "told", "closed"}]
      /\ \A v \in Window : v # w => window'[v] = window[v]
  BY <1>1 DEF GroupInv, GroupShape
<1>5. GroupShape'
  BY <1>1, <1>3, <1>4 DEF GroupInv, GroupShape
<1>6. HeldOnce'
  BY <1>1 DEF GroupInv, HeldOnce, Held, Rivals
<1>7. NotSettled'
  <2>1. \A o \in Held, e \in Elements(terminal') :
            reservation[o].group # None /\ reservation[o].window = e.window
                => reservation[o].group.id # e.group.id
    BY <1>3 DEF GroupInv, NotSettled
  <2>2. Held' = Held
    BY <1>1 DEF Held
  <2> QED
    BY <1>1, <2>1, <2>2 DEF NotSettled, Elements
<1>8. OwedFound'
  <2>1. SettledGroups' = {<<e.window, e.group>> : e \in Elements(terminal')}
    BY <1>3 DEF SettledGroups, Elements
  <2>2. SettledGroups = {<<e.window, e.group>> : e \in Elements(terminal)}
    BY <1>2, SettledElements
  <2>3. LiveGroups' = LiveGroups
    BY <1>1 DEF LiveGroups
  <2> SUFFICES ASSUME NEW d \in owed, d[1] # w, ~WindowCancelled(d[1])'
               PROVE  d \in LiveGroups' \cup SettledGroups'
    BY <1>1 DEF OwedFound, WindowCancelled
  <2>4. d[1] \in Window
    BY DEF GroupInv, GroupShape
  <2>5. ~WindowCancelled(d[1])
    BY <1>1, <1>4, <2>4 DEF WindowCancelled
  <2>6. d \in LiveGroups \cup SettledGroups
    BY <2>5 DEF GroupInv, OwedFound
  <2>7. CASE d \in SettledGroups
    <3>1. PICK e \in Elements(terminal) : d = <<e.window, e.group>>
      BY <2>2, <2>7
    <3>2. e.window # w
      BY <3>1
    <3> QED
      BY <1>3, <2>1, <3>1, <3>2
  <2> QED
    BY <2>3, <2>6, <2>7
<1>9. NothingForClosed'
  <2>1. \A e \in Elements(terminal') : window'[e.window] # "closed"
    BY <1>2, <1>3, <1>4, ElementsType DEF GroupInv, NothingForClosed
  <2> QED
    BY <2>1 DEF NothingForClosed, Elements
<1> QED
  BY <1>5, <1>6, <1>7, <1>8, <1>9 DEF GroupInv

LEMMA GroupTask ==
  ASSUME RegistryInv, GroupInv, NEW o \in Operation, TaskStep(o)
  PROVE  GroupInv'
<1>1. CASE Leave(o)
  BY <1>1, GroupLeave
<1>2. CASE TaskOnly
  BY <1>2, EntriesStay DEF TaskOnly
<1> QED
  BY <1>1, <1>2 DEF TaskStep, Preflight, CheckSubscribed, StopWaiting, Acquire, Commit, FinishWork

LEMMA GroupCall ==
  ASSUME RegistryInv, GroupInv, NEW o \in Operation,
         Cancel(o) \/ Release(o) \/ AnswerAtDeadline(o) \/ Answer(o) \/ DropCaller(o)
  PROVE  GroupInv'
<1>1. Shape /\ entries \in [Operation -> Entry] /\ reservation \in [Operation -> Entry]
  BY EntriesShape DEF RegistryInv, Shape
<1>2. UNCHANGED <<window, application, terminal, owed>>
  BY DEF Cancel, Release, AnswerAtDeadline, Answer, DropCaller
<1>3. CASE \E R \in {entries, reservation} : Signal(R, {o})
  BY <1>1, <1>2, <1>3, SignalKeeps, GroupsStay
<1>4. CASE reservation' = reservation
  BY <1>2, <1>4, EntriesStay
<1>5. CASE /\ entries[o].held /\ ~entries[o].claimed
           /\ reservation' = [entries EXCEPT ![o] = Removed(entries[o])]
  BY <1>2, <1>5, GroupRemove
<1>6. CASE Release(o)
  <2>1. CASE entries[o].claimed
    BY <1>3, <1>6, <2>1 DEF Release
  <2>2. CASE ~entries[o].claimed
    BY <1>5, <1>6, <2>2 DEF Release
  <2> QED
    BY <2>1, <2>2
<1>7. CASE Cancel(o) \/ AnswerAtDeadline(o)
  BY <1>3, <1>7 DEF Cancel, AnswerAtDeadline
<1>8. CASE Answer(o) \/ DropCaller(o)
  BY <1>3, <1>4, <1>8 DEF Answer, DropCaller
<1> QED
  BY <1>6, <1>7, <1>8

LEMMA GroupWindow ==
  ASSUME RegistryInv, GroupInv,
         \/ \E w \in Window : DestroyWindow(w) \/ TellWindow(w)
         \/ Shutdown \/ TellEveryone
  PROVE  GroupInv'
<1>1. Shape /\ entries \in [Operation -> Entry]
  BY EntriesShape DEF RegistryInv
<1>2. \A o \in Operation : EntryKeeps(o)
  <2>1. CASE reservation' = reservation
    BY <1>1, <2>1, SweepKeeps
  <2>2. CASE \E S : Signal(entries, S)
    BY <1>1, <2>2, SignalKeeps
  <2> QED
    BY <2>1, <2>2 DEF DestroyWindow, TellWindow, Shutdown, TellEveryone
<1>3. terminal' = terminal /\ owed' = owed
  BY DEF DestroyWindow, TellWindow, Shutdown, TellEveryone
<1>4. OnlyCloses /\ \A w \in Window : window'[w] = "closed" => window[w] = "closed"
  <2>1. window \in [Window -> {"open", "cancelled", "told", "closed"}]
    BY DEF GroupInv, GroupShape
  <2>2. ASSUME NEW w \in Window, DestroyWindow(w) \/ TellWindow(w)
        PROVE  OnlyCloses /\ \A v \in Window : window'[v] = "closed" => window[v] = "closed"
    <3>1. PICK x \in {"cancelled", "told"} : window' = [window EXCEPT ![w] = x]
      BY <2>2 DEF DestroyWindow, TellWindow
    <3>2. application' = application
      BY <2>2 DEF DestroyWindow, TellWindow
    <3> QED
      BY <2>1, <3>1, <3>2 DEF OnlyCloses, WindowCancelled
  <2>3. CASE Shutdown \/ TellEveryone
    BY <2>1, <2>3 DEF Shutdown, TellEveryone, OnlyCloses, WindowCancelled
  <2> QED
    BY <2>2, <2>3
<1> QED
  BY <1>2, <1>3, <1>4, GroupFrame

LEMMA GroupInit == ASSUME Init PROVE GroupInv
<1>1. terminal = <<>> /\ owed = {} /\ Held = {}
  BY DEF Init, Held, Unused, Absent
<1>2. terminal \in Seq(Settled) /\ DOMAIN terminal = {}
  <2>1. Len(terminal) = 0 /\ terminal \in Seq(Settled)
    BY <1>1
  <2> QED
    BY <2>1
<1>3. Elements(terminal) = {}
  BY <1>2 DEF Elements
<1>4. GroupShape
  BY <1>1, <1>2 DEF Init, GroupShape
<1> QED
  BY <1>1, <1>3, <1>4 DEF GroupInv, HeldOnce, NotSettled, OwedFound, NothingForClosed

LEMMA GroupStep == ASSUME RegistryInv, GroupInv, [Next]_vars PROVE GroupInv'
<1>1. ASSUME NEW w \in Window, NEW o \in Operation, NEW kind \in Kind, Reserve(w, o, kind)
      PROVE  GroupInv'
  BY <1>1, GroupReserve
<1>2. ASSUME NEW o \in Operation, NEW g \in Group, Register(o, g) PROVE GroupInv'
  BY <1>2, GroupRegister
<1>3. ASSUME NEW o \in Operation, Claim(o) PROVE GroupInv'
  <2>1. CASE Cancelled(o)
    BY <1>3, <2>1, GroupRemove DEF Claim
  <2>2. CASE ~Cancelled(o)
    BY <1>3, <2>2, GroupClaim
  <2> QED
    BY <2>1, <2>2
<1>4. ASSUME NEW o \in Operation,
             Cancel(o) \/ Release(o) \/ AnswerAtDeadline(o) \/ Answer(o) \/ DropCaller(o)
      PROVE  GroupInv'
  BY <1>4, GroupCall
<1>5. ASSUME NEW o \in Operation, TaskStep(o) PROVE GroupInv'
  BY <1>5, GroupTask
<1>6. ASSUME NEW w \in Window, ForgetWindow(w) PROVE GroupInv'
  BY <1>6, GroupForget
<1>7. CASE \/ \E w \in Window : DestroyWindow(w) \/ TellWindow(w)
           \/ Shutdown \/ TellEveryone
  BY <1>7, GroupWindow
<1>8. CASE Tick \/ UNCHANGED vars
  BY <1>8, EntriesStay DEF Tick, vars
<1> QED
  BY <1>1, <1>2, <1>3, <1>4, <1>5, <1>6, <1>7, <1>8 DEF Next

LEMMA GroupsAlways == Spec => [](RegistryInv /\ GroupInv)
<1>1. Init => RegistryInv /\ GroupInv
  BY InitInv, GroupInit
<1>2. RegistryInv /\ GroupInv /\ [Next]_vars => RegistryInv' /\ GroupInv'
  BY StepInv, GroupStep
<1> QED
  BY <1>1, <1>2, PTL DEF Spec

\* A group that was started is found as a live or as a settled one for as
\* long as its window is open and the list does not push it out, and a closed
\* window leaves nothing behind, in whatever order its operations leave, its
\* calls are dropped and it is destroyed (retain_alternatives_terminal,
\* cancel_window, forget_alternatives_window).
THEOREM GroupsAreKept == Spec => []GroupsKept
<1>1. GroupInv => GroupsKept
  <2> SUFFICES ASSUME GroupInv PROVE GroupsKept
    OBVIOUS
  <2>1. \A e \in Elements(terminal) : window[e.window] # "closed"
    BY DEF GroupInv, NothingForClosed
  <2>2. SettledGroups = {<<e.window, e.group>> : e \in Elements(terminal)}
    BY SettledElements DEF GroupInv, GroupShape
  <2>3. \A d \in SettledGroups : window[d[1]] # "closed"
    BY <2>1, <2>2
  <2> QED
    BY <2>3 DEF GroupInv, OwedFound, GroupsKept
<1> QED
  BY <1>1, GroupsAlways, PTL

\* However many windows, calls and operations there are, an identity is used
\* for one group of a window and a scenario has one live group, so that a
\* repeated request finds its work and starts no other (register_alternatives).
THEOREM GroupsHaveOneOwner == Spec => []OneOwner
<1>1. RegistryInv /\ GroupInv => OneOwner
  <2> SUFFICES ASSUME RegistryInv, GroupInv PROVE OneOwner
    OBVIOUS
  <2>1. \A o \in Live : o \in Held /\ entries[o] = reservation[o]
    BY EntriesShape DEF RegistryInv, Live, Held
  <2>2. \A i \in DOMAIN terminal : terminal[i] \in Elements(terminal)
    BY DEF Elements
  <2> QED
    BY <2>1, <2>2 DEF GroupInv, HeldOnce, NotSettled, Rivals, OneOwner
<1> QED
  BY <1>1, GroupsAlways, PTL

=============================================================================
