------------------------- MODULE OperationRegistry -------------------------
(***************************************************************************)
(* The desktop's operations: a window reserves one, a call claims it and   *)
(* starts a task that waits for one of the heavy permits, works and        *)
(* leaves, while the window cancels, releases or repeats it, its caller is *)
(* dropped, the window is destroyed or the application shuts down.  Tasks  *)
(* and commands run on several threads: a step is what is done under the   *)
(* lock of the registry, one look at the tokens, or one signal.  The       *)
(* application's work is seen only by where it looks at its token.         *)
(***************************************************************************)
EXTENDS Integers, Sequences, FiniteSets

CONSTANTS
    Window,          \* the configured windows
    Operation,       \* operation identities, each given out once
    Kind,            \* the kinds of operation that are asked for
    Group,           \* requests for alternatives, [id, scenario]
    MaxReservations, \* MAX_RESERVATIONS, of the reservations
    MaxSettled,      \* and of the settled groups
    Permits,         \* HEAVY_PERMITS
    TTL,             \* RESERVATION_TTL, in clock ticks
    Budget,          \* the time limit of a budgeted operation, in clock ticks
    MaxTime,         \* the last instant of the clock, where it stops
    None             \* no window, no group

Kinds == {"run", "bounded", "mutation", "export", "solve", "alternatives"}

ASSUME RegistryAssumption ==
    /\ Kind \subseteq Kinds
    /\ MaxReservations \in Nat \ {0} /\ MaxSettled \in Nat \ {0} /\ Permits \in Nat \ {0}
    /\ TTL \in Nat \ {0} /\ Budget \in Nat \ {0} /\ MaxTime \in Nat
    /\ None \notin Window \cup Group
    /\ IsFiniteSet(Operation)

VARIABLES
    now,         \* the monotonic clock
    application, \* "open", "cancelled" (the root token), "closed" (everyone was told)
    window,      \* window[w]: the same, with "told" before its groups are forgotten
    reservation, \* reservation[o]: the entry of the registry
    task,        \* task[o]: the spawned task
    caller,      \* caller[o]: the call that waits for it, and then its answer
    terminal,    \* the settled groups that are retained, oldest first
    owed         \* history: <<w, g>> started in w and not evicted or forgotten

vars == <<now, application, window, reservation, task, caller, terminal, owed>>

Budgeted == {"bounded", "mutation", "export", "solve", "alternatives"}

\* Calls whose end, or whose being dropped, cancels the operation.
CancelOnDrop == {"run", "bounded", "mutation", "export"}

\* Releasing the observation of these does not cancel them.
Detached == {"export", "solve", "alternatives"}

\* Operations whose last step changes the library or a file.
Committing == {"run", "mutation", "export"}

\* The place of an operation that is not in the registry; the window and the
\* kind of one that was stay those of its call.
Absent(w, kind) == [held |-> FALSE, window |-> w, kind |-> kind, group |-> None,
                    created |-> 0, claimed |-> FALSE, cancelled |-> FALSE]

Unused == Absent(None, "run")

Reserved(w, kind) == [held |-> TRUE, window |-> w, kind |-> kind, group |-> None,
                      created |-> now, claimed |-> FALSE, cancelled |-> FALSE]

Task(stage, since) ==
    [stage |-> stage, since |-> since, woken |-> FALSE, committed |-> FALSE, result |-> "none"]

Init ==
    /\ now = 0
    /\ application = "open"
    /\ window = [w \in Window |-> "open"]
    /\ reservation = [o \in Operation |-> Unused]
    /\ task = [o \in Operation |-> Task("none", 0)]
    /\ caller = [o \in Operation |-> "none"]
    /\ terminal = <<>>
    /\ owed = {}

(***************************************************************************)
(* Tokens, and the registry under its lock.                                *)
(***************************************************************************)
WindowCancelled(w) == window[w] # "open" \/ application # "open"

Cancelled(o) == reservation[o].cancelled \/ WindowCancelled(reservation[o].window)

Removed(r) == Absent(r.window, r.kind)

\* Bug: claimed reservations expire too.
entriesAnyAge ==
    [o \in Operation |->
        IF reservation[o].held /\ now - reservation[o].created >= TTL
        THEN Removed(reservation[o]) ELSE reservation[o]]

\* entries: whoever takes the lock drops what was not claimed in time.
entries ==
    [o \in Operation |->
        IF reservation[o].held /\ ~reservation[o].claimed /\ now - reservation[o].created >= TTL
        THEN Removed(reservation[o]) ELSE reservation[o]]

Live == {o \in Operation : entries[o].held}

\* Signal::cancel on the operations in S: their tokens, then whoever waits
\* for a permit.  R is the registry as the signalling thread left it.
Signal(R, S) ==
    /\ reservation' = [o \in Operation |->
           IF o \in S THEN [R[o] EXCEPT !.cancelled = TRUE] ELSE R[o]]
    /\ task' = [o \in Operation |->
           IF o \in S /\ task[o].stage \in {"subscribed", "waiting"}
           THEN [task[o] EXCEPT !.woken = TRUE] ELSE task[o]]

Reserve(w, o, kind) ==
    /\ reservation[o] = Unused
    /\ ~WindowCancelled(w)
    /\ Cardinality(Live) < MaxReservations
    /\ reservation' = [entries EXCEPT ![o] = Reserved(w, kind)]
    /\ UNCHANGED <<now, application, window, task, caller, terminal, owed>>

\* Bug: a settled group may be started again.
MayRegisterAgain(o, g) ==
    LET w == entries[o].window IN
    /\ entries[o].held /\ entries[o].kind = "alternatives" /\ ~Cancelled(o)
    /\ ~entries[o].claimed /\ entries[o].group = None
    /\ \A p \in Live : entries[p].window = w /\ entries[p].group # None =>
           entries[p].group.id # g.id /\ entries[p].group.scenario # g.scenario

\* register_alternatives: an identity that is known is shown its group, one
\* whose scenario is busy is refused, and neither changes anything.
MayRegister(o, g) ==
    LET w == entries[o].window IN
    /\ entries[o].held /\ entries[o].kind = "alternatives" /\ ~Cancelled(o)
    /\ ~entries[o].claimed /\ entries[o].group = None
    /\ \A p \in Live : entries[p].window = w /\ entries[p].group # None =>
           entries[p].group.id # g.id /\ entries[p].group.scenario # g.scenario
    /\ \A i \in DOMAIN terminal : terminal[i].window = w => terminal[i].group.id # g.id

Register(o, g) ==
    /\ MayRegister(o, g)
    /\ reservation' = [entries EXCEPT ![o].group = g]
    /\ UNCHANGED <<now, application, window, task, caller, terminal, owed>>

\* ParentSolveBudget::new: the deadline must fit the clock.
DeadlineOverflows(o) == entries[o].kind \in Budgeted /\ now + Budget > MaxTime

\* claim, the budget, and the task that is spawned; without a budget there is
\* none, the call fails, and what is left to do is to give its claim back.
Claim(o) ==
    /\ entries[o].held /\ ~entries[o].claimed
    /\ IF Cancelled(o)
       THEN /\ reservation' = [entries EXCEPT ![o] = Removed(@)]
            /\ UNCHANGED <<task, caller, owed>>
       ELSE /\ entries[o].kind = "alternatives" => entries[o].group # None
            /\ reservation' = [entries EXCEPT ![o].claimed = TRUE]
            /\ LET fails == DeadlineOverflows(o)
               IN  /\ task' = [task EXCEPT ![o] = Task(IF fails THEN "leaving" ELSE "started", now)]
                   /\ caller' = [caller EXCEPT ![o] = IF fails THEN "failed" ELSE "waiting"]
            /\ owed' = owed \cup {<<entries[o].window, g>> : g \in {entries[o].group} \ {None}}
    /\ UNCHANGED <<now, application, window, terminal>>

Cancel(o) ==
    /\ entries[o].held /\ ~entries[o].cancelled
    /\ Signal(entries, {o})
    /\ UNCHANGED <<now, application, window, caller, terminal, owed>>

Release(o) ==
    /\ entries[o].held
    /\ \/ /\ ~entries[o].claimed
          /\ reservation' = [entries EXCEPT ![o] = Removed(@)]
          /\ UNCHANGED task
       \/ entries[o].claimed /\ entries[o].kind \notin Detached /\ Signal(entries, {o})
    /\ UNCHANGED <<now, application, window, caller, terminal, owed>>

(***************************************************************************)
(* The task.                                                               *)
(***************************************************************************)
Expired(o) == reservation[o].kind \in Budgeted /\ now >= task[o].since + Budget

\* check_solve_admission.
Refusal(o) == IF Cancelled(o) THEN "cancelled" ELSE IF Expired(o) THEN "deadline" ELSE "none"

Goes(o, stage) == task' = [task EXCEPT ![o].stage = stage]

\* The task has its result and gives its permit back.
Finishes(o, result) ==
    task' = [task EXCEPT ![o].stage = "leaving", ![o].result = result, ![o].woken = FALSE]

Checked(o, stage) == IF Refusal(o) = "none" THEN Goes(o, stage) ELSE Finishes(o, Refusal(o))

TaskOnly == UNCHANGED <<now, application, window, reservation, caller, terminal, owed>>

\* The admission is checked, the preflight is run and may fail, the admission
\* is checked again, and the waiter is enabled.
Preflight(o) ==
    /\ task[o].stage = "started"
    /\ Finishes(o, "failed") \/ Checked(o, "subscribed")
    /\ TaskOnly

\* Bug: the token is only looked at before the waiter is enabled.
CheckThenSubscribe(o) ==
    /\ task[o].stage = "subscribed"
    /\ task' = [task EXCEPT ![o].stage = "waiting", ![o].woken = FALSE]
    /\ TaskOnly

\* The last look at the token comes after the waiter was enabled.
CheckSubscribed(o) == task[o].stage = "subscribed" /\ Checked(o, "waiting") /\ TaskOnly

Permitted == {o \in Operation : task[o].stage \in {"working", "committed"}}

\* The wait for a permit, in the order of its branches.
StopWaiting(o) ==
    /\ task[o].stage = "waiting"
    /\ \/ task[o].woken /\ Finishes(o, "cancelled")
       \/ ~task[o].woken /\ Expired(o) /\ Finishes(o, "deadline")
    /\ TaskOnly

\* The permit, and one more check before the work begins.
Acquire(o) ==
    /\ task[o].stage = "waiting" /\ ~task[o].woken /\ ~Expired(o)
    /\ Cardinality(Permitted) < Permits
    /\ Checked(o, "working")
    /\ TaskOnly

\* The last check of a transaction, a publication or a finalization.
Commit(o) ==
    /\ task[o].stage = "working" /\ reservation[o].kind \in Committing
    /\ Refusal(o) = "none"
    /\ task' = [task EXCEPT ![o].stage = "committed", ![o].committed = TRUE]
    /\ TaskOnly

\* Bug: the token is looked at again after the commit.
FinishCancellable(o) ==
    /\ task[o].stage \in {"working", "committed"}
    /\ \E result \in {"ok", "failed", Refusal(o)} \ {"none"} : Finishes(o, result)
    /\ TaskOnly

\* Work ends by itself or because of its last look at the token and the
\* budget; what was committed is answered without another look.
FinishWork(o) ==
    /\ \/ /\ task[o].stage = "working"
          /\ \E result \in {"ok", "failed", Refusal(o)} \ {"none"} : Finishes(o, result)
       \/ /\ task[o].stage = "committed"
          /\ \E result \in {"ok", "failed"} : Finishes(o, result)
    /\ TaskOnly

\* Bug: kept without a look at the window.
RetainedAlways(r) == r.group # None

\* retain_alternatives_terminal keeps nothing for a destroyed window.
Retained(r) == r.group # None /\ ~WindowCancelled(r.window)

Evicted == IF Len(terminal) = MaxSettled THEN <<Head(terminal)>> ELSE <<>>

\* The reservation goes last, its group becomes a settled one.
Leave(o) ==
    /\ task[o].stage = "leaving"
    /\ task' = [task EXCEPT ![o].stage = "done",
                             ![o].result = IF caller[o] = "waiting" THEN @ ELSE "none"]
    /\ reservation' = [entries EXCEPT ![o] = Removed(@)]
    /\ LET r == reservation[o] IN
       IF Retained(r)
       THEN /\ terminal' = Append(SubSeq(terminal, 1 + Len(Evicted), Len(terminal)),
                                  [window |-> r.window, group |-> r.group])
            /\ owed' = owed \ {<<Evicted[i].window, Evicted[i].group>> : i \in DOMAIN Evicted}
       ELSE UNCHANGED <<terminal, owed>>
    /\ UNCHANGED <<now, application, window, caller>>

(***************************************************************************)
(* The call that waits.                                                    *)
(***************************************************************************)
\* Bug: the answer waits for the task.
AnswerWhenSettled(o) ==
    /\ caller[o] = "waiting" /\ reservation[o].kind = "bounded" /\ Expired(o)
    /\ task[o].stage = "done"
    /\ caller' = [caller EXCEPT ![o] = "deadline"]
    /\ Signal(reservation, {o})
    /\ UNCHANGED <<now, application, window, terminal, owed>>

\* A bounded read is answered at its deadline, whether its task has ended or
\* goes on.
AnswerAtDeadline(o) ==
    /\ caller[o] = "waiting" /\ reservation[o].kind = "bounded" /\ Expired(o)
    /\ caller' = [caller EXCEPT ![o] = "deadline"]
    /\ Signal(reservation, {o})
    /\ UNCHANGED <<now, application, window, terminal, owed>>

Answer(o) ==
    /\ caller[o] = "waiting" /\ task[o].stage = "done"
    /\ ~(reservation[o].kind = "bounded" /\ Expired(o))
    /\ caller' = [caller EXCEPT ![o] = task[o].result]
    /\ UNCHANGED <<now, application, window, reservation, task, terminal, owed>>

\* The call is dropped.
DropCaller(o) ==
    /\ caller[o] = "waiting" /\ task[o].stage # "done"
    /\ caller' = [caller EXCEPT ![o] = "gone"]
    /\ IF reservation[o].kind \in CancelOnDrop
       THEN Signal(reservation, {o}) ELSE UNCHANGED <<reservation, task>>
    /\ UNCHANGED <<now, application, window, terminal, owed>>

(***************************************************************************)
(* Windows and the application.                                            *)
(***************************************************************************)
OwnedBy(w) == {o \in Live : entries[o].window = w}

DestroyWindow(w) ==
    /\ window[w] = "open"
    /\ window' = [window EXCEPT ![w] = "cancelled"]
    /\ UNCHANGED <<now, application, reservation, task, caller, terminal, owed>>

TellWindow(w) ==
    /\ window[w] = "cancelled"
    /\ window' = [window EXCEPT ![w] = "told"]
    /\ Signal(entries, OwnedBy(w))
    /\ UNCHANGED <<now, application, caller, terminal, owed>>

\* The settled groups of the other windows, in their order.
OfOtherWindows(w) ==
    LET upTo[n \in 0..Len(terminal)] ==
            IF n = 0 THEN <<>>
            ELSE IF terminal[n].window = w THEN upTo[n - 1]
            ELSE Append(upTo[n - 1], terminal[n])
    IN  upTo[Len(terminal)]

ForgetWindow(w) ==
    /\ window[w] = "told"
    /\ window' = [window EXCEPT ![w] = "closed"]
    /\ terminal' = OfOtherWindows(w)
    /\ owed' = {e \in owed : e[1] # w}
    /\ UNCHANGED <<now, application, reservation, task, caller>>

Shutdown ==
    /\ application = "open"
    /\ application' = "cancelled"
    /\ UNCHANGED <<now, window, reservation, task, caller, terminal, owed>>

TellEveryone ==
    /\ application = "cancelled"
    /\ application' = "closed"
    /\ Signal(entries, Live)
    /\ UNCHANGED <<now, window, caller, terminal, owed>>

Tick ==
    /\ now < MaxTime
    /\ now' = now + 1
    /\ UNCHANGED <<application, window, reservation, task, caller, terminal, owed>>

TaskStep(o) ==
    \/ Preflight(o) \/ CheckSubscribed(o) \/ StopWaiting(o) \/ Acquire(o)
    \/ Commit(o) \/ FinishWork(o) \/ Leave(o)

Next ==
    \/ \E w \in Window, o \in Operation, kind \in Kind : Reserve(w, o, kind)
    \/ \E o \in Operation, g \in Group : Register(o, g)
    \/ \E o \in Operation :
           \/ Claim(o) \/ Cancel(o) \/ Release(o)
           \/ TaskStep(o)
           \/ AnswerAtDeadline(o) \/ Answer(o) \/ DropCaller(o)
    \/ \E w \in Window : DestroyWindow(w) \/ TellWindow(w) \/ ForgetWindow(w)
    \/ Shutdown \/ TellEveryone \/ Tick

Spec == Init /\ [][Next]_vars

\* Time passes, a woken or expired waiter and an answered call are scheduled,
\* a destroy or shutdown that was begun goes on; work may take for ever.
FairSpec ==
    /\ Spec
    /\ WF_vars(Tick)
    /\ WF_vars(TellEveryone)
    /\ \A w \in Window : WF_vars(TellWindow(w))
    /\ \A o \in Operation : WF_vars(StopWaiting(o)) /\ WF_vars(AnswerAtDeadline(o) \/ Answer(o))

(***************************************************************************)
(* Properties.                                                             *)
(***************************************************************************)

TypeOK ==
    /\ now \in 0..MaxTime
    /\ application \in {"open", "cancelled", "closed"}
    /\ window \in [Window -> {"open", "cancelled", "told", "closed"}]
    /\ reservation \in [Operation ->
           [held : BOOLEAN, window : Window \cup {None}, kind : Kinds, group : Group \cup {None},
            created : 0..MaxTime, claimed : BOOLEAN, cancelled : BOOLEAN]]
    /\ task \in [Operation ->
           [stage : {"none", "started", "subscribed", "waiting", "working", "committed",
                     "leaving", "done"},
            since : 0..MaxTime, woken : BOOLEAN, committed : BOOLEAN,
            result : {"none", "ok", "failed", "cancelled", "deadline"}]]
    /\ caller \in [Operation ->
           {"none", "waiting", "gone", "ok", "failed", "cancelled", "deadline"}]
    /\ terminal \in Seq([window : Window, group : Group])
    /\ Len(terminal) <= MaxSettled
    /\ owed \subseteq Window \X Group

Busy == {o \in Operation : task[o].stage \notin {"none", "done"}}

\* Work that goes on stays charged to its window and to the registry, however
\* long it outlives its deadline, its caller or the time an unclaimed
\* reservation has (run_inner, "its reservation and heavy permit remain
\* charged"); so there is never more of it than the registry allows.
StillCharged ==
    /\ \A o \in Busy : reservation[o].held /\ reservation[o].claimed
    /\ Cardinality(Busy) <= MaxReservations
    /\ Cardinality(Permitted) <= Permits

LiveGroups == {<<reservation[o].window, reservation[o].group>> :
                  o \in {p \in Operation : reservation[p].held /\ reservation[p].claimed}}

SettledGroups == {<<terminal[i].window, terminal[i].group>> : i \in DOMAIN terminal}

\* Whatever happens to the answer, a group that was started can be found by
\* its window, as a live or as a settled one, until it is the oldest of a
\* full list or the window closes (alternatives_group, "response loss cannot
\* hide settlement"); and nothing is kept for a window that was closed, also
\* if its last operation settles while or after it is (cancel_window).
GroupsKept ==
    /\ \A e \in owed : ~WindowCancelled(e[1]) => e \in LiveGroups \cup SettledGroups
    /\ \A e \in SettledGroups : window[e[1]] # "closed"

\* A repeated request finds the work it named and starts no other: among the
\* groups of a window an identity is used once, and a scenario has one live
\* group (register_alternatives).
OneOwner ==
    /\ \A o, p \in Live :
           o # p /\ entries[o].window = entries[p].window
               /\ entries[o].group # None /\ entries[p].group # None
           => /\ entries[o].group.id # entries[p].group.id
              /\ entries[o].group.scenario # entries[p].group.scenario
    /\ \A o \in Live, i \in DOMAIN terminal :
           entries[o].group # None /\ entries[o].window = terminal[i].window
           => entries[o].group.id # terminal[i].group.id

\* No caller is told that what was committed was cancelled or came too late
\* (run_with_mutation_budget, workforce_apply_reviewed_generation).
CommitAnswered == \A o \in Operation : task[o].committed => caller[o] \notin {"cancelled", "deadline"}

\* An operation cancelled while it waits for a permit leaves, though those
\* who hold the permits may never give one back: the notification is not
\* missed between the check of the token and the wait (run_inner).
WaiterLeaves ==
    \A o \in Operation :
        task[o].stage = "waiting" /\ Cancelled(o) ~> task[o].stage # "waiting"

\* The caller of a bounded read gets an answer, though the work may never end
\* (run_with_bounded_budget).
BoundedAnswered ==
    \A o \in Operation :
        caller[o] = "waiting" /\ reservation[o].kind = "bounded" ~> caller[o] # "waiting"

=============================================================================
