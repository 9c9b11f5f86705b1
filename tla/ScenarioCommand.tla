-------------------------- MODULE ScenarioCommand --------------------------
(***************************************************************************)
(* The command engine (crates/eutheto-command): a command is applied to a  *)
(* private working copy of the scenario document, and its application      *)
(* yields the new document together with the inverse command that the      *)
(* store keeps in the journal.                                             *)
(*                                                                         *)
(* A document is a finite map from record identities to records.  Records  *)
(* live in three kinds of map with different command sets: entities and    *)
(* rules (add, update, remove), preferences (set or clear) and locked      *)
(* assignments (lock, unlock).  Domain commands are executed by the        *)
(* scenario's pack, which is handed whole runs of them.  Shifts are the    *)
(* entities whose times are written in the time zone of the scenario's     *)
(* settings; a change of the settings rewrites them.                       *)
(***************************************************************************)
EXTENDS Naturals, Sequences, SequencesExt

CONSTANTS
    Record,             \* identities in the entity and rule maps
    Preference,         \* identities in the preference map
    Lock,               \* identities in the locked-assignment map
    Shift,              \* identities of shift instances
    Setting,            \* the settings; one identity, or none where they stay out
    Value,              \* record bodies; of a shift, the spellings of its times
    Zone,               \* values of the settings
    Fits(_, _),         \* Fits(v, z): spelling v is valid in zone z
    Absent,             \* "no such key"
    MaxBatchDepth,      \* MAX_BATCH_DEPTH
    MaxBatchCommands,   \* MAX_BATCH_COMMANDS
    ChunkLimit,         \* how many domain commands fit into one pack batch
    InverseLimit        \* longest pack batch whose inverse the pack accepts

ASSUME CommandConstants ==
    /\ Absent \notin Value
    /\ Zone \subseteq Value
    /\ \A z \in Zone : Fits(z, z)
    /\ (Record \cup Preference \cup Lock \cup Shift) \cap Setting = {}
    /\ (Record \cup Preference \cup Lock) \cap Shift = {}
    /\ \A y, z \in Setting : y = z
    /\ {MaxBatchDepth, MaxBatchCommands, ChunkLimit, InverseLimit} \subseteq Nat \ {0}

Key == Record \cup Preference \cup Lock \cup Shift \cup Setting

\* The pack validates that every time is spelled as the zone requires.
Spelled(document) ==
    \A z \in Setting :
        /\ document[z] \in Zone
        /\ \A h \in Shift : document[h] # Absent => Fits(document[h], document[z])

Document == {document \in [Key -> Value \cup {Absent}] : Spelled(document)}

-----------------------------------------------------------------------------
(***************************************************************************)
(* Commands.  A batch in Tree[n] nests at most n deep, and no batch in it  *)
(* is empty.                                                               *)
(***************************************************************************)
\* Spellings of some of the shifts.
Spelling == UNION {[shifts -> Value] : shifts \in SUBSET Shift}

Leaf ==
    [op : {"add", "update"}, key : Record, value : Value]
    \cup [op : {"remove"}, key : Record, value : {Absent}]
    \cup [op : {"set"}, key : Preference, value : Value \cup {Absent}]
    \cup [op : {"lock"}, key : Lock, value : Value]
    \cup [op : {"unlock"}, key : Lock, value : {Absent}]
    \cup [op : {"domain"}, key : Record \cup Shift, value : Value \cup {Absent}]
    \cup [op : {"settings"}, key : Setting, value : Zone, restored : Spelling]

Batch(commands) == [op |-> "batch", commands |-> commands]

IsBatch(command) == command.op = "batch"

IsDomain(command) == command.op = "domain"

Tree[n \in 0 .. MaxBatchDepth] ==
    IF n = 0 THEN Leaf
    ELSE Leaf \cup [op : {"batch"}, commands : Seq(Tree[n - 1]) \ {<<>>}]

\* Every application result: the new document and the inverse, or a refusal.
Applied(document, inverse) ==
    [ok |-> TRUE, document |-> document, inverse |-> inverse]

Refused(document) == [ok |-> FALSE, document |-> document, inverse |-> <<>>]

\* The precondition of each leaf: duplicate, missing and already-clear records
\* are validation errors.
LeafAdmitted(document, leaf) ==
    CASE leaf.op \in {"add", "lock"}               -> document[leaf.key] = Absent
      [] leaf.op \in {"update", "remove", "unlock"} -> document[leaf.key] # Absent
      [] leaf.op = "set"    -> leaf.value # Absent \/ document[leaf.key] # Absent
      [] leaf.op = "domain" -> /\ leaf.value # Absent \/ document[leaf.key] # Absent
                               /\ Spelled([document EXCEPT ![leaf.key] = leaf.value])

\* The inverse captures the record the leaf displaces.
LeafInverse(document, leaf) ==
    [op |-> CASE leaf.op = "add"    -> "remove"
              [] leaf.op = "remove" -> "add"
              [] leaf.op = "lock"   -> "unlock"
              [] leaf.op = "unlock" -> "lock"
              [] OTHER              -> leaf.op,
     key |-> leaf.key,
     value |-> document[leaf.key]]

ApplyRecordLeaf(document, leaf) ==
    IF LeafAdmitted(document, leaf)
    THEN Applied([document EXCEPT ![leaf.key] = leaf.value], LeafInverse(document, leaf))
    ELSE Refused(document)

\* reconcile_settings of the workforce pack: a shift is restored as the command
\* says, left alone if its spelling fits the new zone, and rewritten otherwise.
Reconciled(document, leaf, h) ==
    IF h \in DOMAIN leaf.restored THEN leaf.restored[h]
    ELSE IF document[h] = Absent \/ Fits(document[h], leaf.value) THEN document[h]
    ELSE leaf.value

RestorationAdmitted(document, leaf) ==
    \A h \in DOMAIN leaf.restored :
        document[h] # Absent /\ Fits(leaf.restored[h], leaf.value)

\* Bug: the inverse relies on the zone alone.
NoRestoration(document, leaf) == <<>>

\* The spellings the inverse has to bring back.
Restoration(document, leaf) ==
    [h \in {g \in Shift : Reconciled(document, leaf, g) # document[g]} |-> document[h]]

SetScenarioSettings(document, leaf) ==
    IF RestorationAdmitted(document, leaf)
    THEN Applied([k \in Key |-> IF k \in Shift THEN Reconciled(document, leaf, k)
                              ELSE IF k = leaf.key THEN leaf.value ELSE document[k]],
                 [op |-> "settings", key |-> leaf.key, value |-> document[leaf.key],
                  restored |-> Restoration(document, leaf)])
    ELSE Refused(document)

ApplyLeaf(document, leaf) ==
    IF leaf.op = "settings"
    THEN SetScenarioSettings(document, leaf)
    ELSE ApplyRecordLeaf(document, leaf)

-----------------------------------------------------------------------------
(***************************************************************************)
(* Runs of domain commands.  The pack executes a batch and returns the     *)
(* inverse in undo order; the engine turns it back into the order of the   *)
(* inputs, because the enclosing batch reverses all its inverses once.  A  *)
(* run is cut into pack batches at ChunkLimit, and a pack batch is halved  *)
(* as long as the pack calls its inverse too large.                        *)
(***************************************************************************)
Extended(done, effect) ==
    [ok |-> done.ok /\ effect.ok, document |-> effect.document,
     inverse |-> <<effect.inverse>> \o done.inverse]

\* The pack's apply_batch after each of the commands, the inverse in undo order.
PackRun(document, chunk) ==
    LET done[k \in 0 .. Len(chunk)] ==
            IF k = 0 THEN [ok |-> TRUE, document |-> document, inverse |-> <<>>]
            ELSE LET before == done[k - 1]
                 IN  Extended(before, ApplyRecordLeaf(before.document, chunk[k]))
    IN  done

PackApply(document, chunk) == PackRun(document, chunk)[Len(chunk)]

\* Bug: the pack's inverse kept in undo order.
ChunkEffectUndoOrder(run, mutation) ==
    [ok |-> mutation.ok, document |-> mutation.document,
     inverses |-> run.inverses \o mutation.inverse]

\* The run so far with the effect of one more pack batch.
ChunkEffect(run, mutation) ==
    [ok |-> mutation.ok, document |-> mutation.document,
     inverses |-> run.inverses \o Reverse(mutation.inverse)]

\* apply_domain_chunk: where a pack batch of n commands is cut by halving it.
Halvings[n \in Nat] ==
    IF n <= InverseLimit THEN {}
    ELSE {n \div 2} \cup Halvings[n \div 2]
                    \cup {n \div 2 + cut : cut \in Halvings[n - n \div 2]}

\* apply_domain_run: how many of a run's n commands precede one of its pack batches.
Cuts(n) ==
    UNION {{chunk * ChunkLimit + cut :
                cut \in {0} \cup Halvings[Min({ChunkLimit, n - chunk * ChunkLimit})]} :
           chunk \in 0 .. (n - 1) \div ChunkLimit}

\* How many children precede the maximal run of domain commands that holds
\* child k, and how many the run ends with.
RunStart(children, k) ==
    Max({i \in 0 .. k - 1 : i = 0 \/ ~IsDomain(children[i])})

RunEnd(children, k) ==
    Min({i \in k .. Len(children) : i = Len(children) \/ ~IsDomain(children[i + 1])})

\* How many children precede the pack batch that holds child k.
PackStart(children, k) ==
    LET first == RunStart(children, k)
    IN  Max({first + cut : cut \in Cuts(RunEnd(children, k) - first)} \cap first .. k - 1)

-----------------------------------------------------------------------------
(***************************************************************************)
(* Batches.  Children are applied left to right to the same working copy,  *)
(* maximal runs of domain commands together; the inverse of a batch is the *)
(* batch of its children's inverses in reverse order.                      *)
(***************************************************************************)
\* Bug: the inverses are not reversed.
BatchInverseInOrder(inverses) == Batch(inverses)

BatchInverse(inverses) == Batch(Reverse(inverses))

\* The run so far with the effect of one more child.
Extend(run, effect) ==
    [ok |-> effect.ok, document |-> effect.document, inverses |-> Append(run.inverses, effect.inverse)]

\* What has been applied when child k, or the pack batch that ends with it, begins.
Preceding(children, k) ==
    IF IsDomain(children[k]) THEN PackStart(children, k) ELSE k - 1

\* The run after child k; nested gives the effects of the children.
AfterChild(before, children, k, nested) ==
    IF ~before.ok THEN before
    ELSE IF IsDomain(children[k])
    THEN ChunkEffect(before, PackApply(before.document, SubSeq(children, PackStart(children, k) + 1, k)))
    ELSE Extend(before, nested[children[k]][before.document])

BatchRun(document, children, nested) ==
    LET run[k \in 0 .. Len(children)] ==
            IF k = 0 THEN [ok |-> TRUE, document |-> document, inverses |-> <<>>]
            ELSE AfterChild(run[Preceding(children, k)], children, k, nested)
    IN  run

BatchEffect(document, run) ==
    IF run.ok THEN Applied(run.document, BatchInverse(run.inverses)) ELSE Refused(document)

ApplyBatch(document, children, nested) ==
    BatchEffect(document, BatchRun(document, children, nested)[Len(children)])

\* The effects of the commands that nest at most n deep.
Effects[n \in 0 .. MaxBatchDepth] ==
    IF n = 0
    THEN [command \in Leaf |-> [document \in Document |-> ApplyLeaf(document, command)]]
    ELSE [command \in Tree[n] |-> [document \in Document |->
            IF IsBatch(command)
            THEN ApplyBatch(document, command.commands, Effects[n - 1])
            ELSE ApplyLeaf(document, command)]]

ApplyNested(document, command, depth) == Effects[MaxBatchDepth - depth][command][document]

\* Batch shape: no empty batch, bounded nesting, bounded number of leaves.
WellNested(command) == command \in Tree[MaxBatchDepth]

Sums(count, commands) ==
    LET sum[k \in 0 .. Len(commands)] ==
            IF k = 0 THEN 0 ELSE sum[k - 1] + count[commands[k]]
    IN  sum

Leaves[n \in 0 .. MaxBatchDepth] ==
    IF n = 0
    THEN [command \in Leaf |-> 1]
    ELSE [command \in Tree[n] |->
            IF IsBatch(command)
            THEN Sums(Leaves[n - 1], command.commands)[Len(command.commands)]
            ELSE 1]

LeafCount(command) == Leaves[MaxBatchDepth][command]

Preflight(command) ==
    /\ WellNested(command)
    /\ LeafCount(command) <= MaxBatchCommands

\* finalize_application: the generated inverse has to pass the same preflight
\* as the command.
Finalized(document, effect) ==
    IF effect.ok /\ Preflight(effect.inverse) THEN effect ELSE Refused(document)

\* A refusal anywhere discards the whole working copy.
ApplyCommand(document, command) ==
    IF Preflight(command)
    THEN Finalized(document, ApplyNested(document, command, 0))
    ELSE Refused(document)

-----------------------------------------------------------------------------
(***************************************************************************)
(* apply_reconciled_command_with_registry: a draft, and the domain         *)
(* commands that were derived from its outcome, are applied one after the  *)
(* other and journalled as if one batch of the two had been.  With only    *)
(* one of the two, it is ApplyCommand of that one.                         *)
(***************************************************************************)
ReconciledCommand(draft, derived) == Batch(<<draft, Batch(derived)>>)

CombinedInverse(first, second) == BatchInverse(<<first.inverse, second.inverse>>)

Combined(first, second) ==
    IF second.ok THEN Applied(second.document, CombinedInverse(first, second)) ELSE second

AfterDraft(first, derived) ==
    IF first.ok
    THEN Combined(first, ApplyNested(first.document, Batch(derived), 1))
    ELSE first

ApplyReconciled(document, draft, derived) ==
    IF Preflight(draft) /\ Preflight(Batch(derived)) /\ Preflight(ReconciledCommand(draft, derived))
    THEN Finalized(document, AfterDraft(ApplyNested(document, draft, 0), derived))
    ELSE Refused(document)

=============================================================================
