--------------------------- MODULE CommandReplay ---------------------------
(***************************************************************************)
(* What the application service does with the command engine: a command is *)
(* applied, its generated inverse is kept, and undo and redo later run the *)
(* inverse and the original command through the same engine again          *)
(* (crates/eutheto-core/src/app.rs, history_apply).                        *)
(***************************************************************************)
EXTENDS ScenarioCommand

CONSTANTS
    Command,        \* the commands tried
    Draft,          \* the drafts that are reconciled
    Derived         \* sequences of domain commands a reconciliation may add

VARIABLES
    document,   \* the current document
    entry,      \* the command last executed, with its inverse and both documents
    stage       \* "fresh", "done", "undone" or "failed" (the replay was refused)

vars == <<document, entry, stage>>

NoEntry == [command |-> <<>>, inverse |-> <<>>, before |-> <<>>, after |-> <<>>]

Init ==
    /\ document \in Document
    /\ entry = NoEntry
    /\ stage = "fresh"

\* An accepted command reaches the journal with the inverse generated for it.
Journal(command, applied) ==
    /\ stage = "fresh"
    /\ applied.ok
    /\ document' = applied.document
    /\ entry' = [command |-> command, inverse |-> applied.inverse,
                 before |-> document, after |-> applied.document]
    /\ stage' = "done"

\* apply_scenario.
Execute(command) == Journal(command, ApplyCommand(document, command))

\* The same with commands derived from the draft's outcome.
ExecuteReconciled(draft, derived) ==
    Journal(ReconciledCommand(draft, derived), ApplyReconciled(document, draft, derived))

Replayed(applied, next) ==
    /\ document' = applied.document
    /\ stage' = IF applied.ok THEN next ELSE "failed"
    /\ UNCHANGED entry

\* history_apply with the stored inverse or the stored command.
Replay(command, next) == Replayed(ApplyCommand(document, command), next)

Undo == stage = "done" /\ Replay(entry.inverse, "undone")

Redo == stage = "undone" /\ Replay(entry.command, "done")

\* A session starts over with another command on the document it ended with.
Close == stage \in {"done", "undone"} /\ stage' = "fresh" /\ entry' = NoEntry /\ UNCHANGED document

Next ==
    \/ \E command \in Command : Execute(command)
    \/ \E draft \in Draft, derived \in Derived : ExecuteReconciled(draft, derived)
    \/ Undo
    \/ Redo
    \/ Close

Spec == Init /\ [][Next]_vars

-----------------------------------------------------------------------------
(***************************************************************************)
(* Undo gives back exactly the document the command was applied to, and    *)
(* redo exactly the one it produced, for batches of any nesting, with the  *)
(* domain commands in a batch cut into pack batches of any size, and with  *)
(* shifts rewritten by changes of the time zone in the same batch.         *)
(***************************************************************************)
ReplayIsExact ==
    /\ stage = "undone" => document = entry.before
    /\ stage = "done" => document = entry.after

(***************************************************************************)
(* A command that was accepted can always be undone and redone: its        *)
(* inverse passes every precondition and shape limit the engine has.       *)
(***************************************************************************)
ReplayNeverRefused == stage # "failed"

=============================================================================
