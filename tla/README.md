# Eutheto: TLA+ models of the scenario library and of its solves

Eutheto is a local planning application.  A library of scenarios lives in one SQLite
file; scenarios are edited by commands with undo and redo, solved by a worker process,
and the verified results stay bound to the exact scenario revision they were computed
from.  This directory models the parts of the program that keep state across steps,
threads, processes or crashes: the command engine, the store with its history and its
solve runs, the counterfactual jobs, the session with the solver process, the router
with its review of candidates, and the desktop's registry of operations.

## The system and its parts

| Part | State | Operations | Modelled |
|---|---|---|---|
| Command engine, `crates/eutheto-command` | a private copy of the document | apply a command, a nested batch, a run of domain commands; generate the inverse | `ScenarioCommand`, `CommandReplay` |
| Store: scenarios and history, `crates/eutheto-store` | scenarios, journal, cursor and branch generation, high-water marks, snapshots | create, duplicate, open, archive, delete, capture custody, execute, undo, redo | `ScenarioTables`, `ScenarioHistory` |
| Store: solve runs | runs, solutions, checkpoints, infeasibility evidence, retained revisions | start, checkpoint, finalize (accepted, quarantined, no result or interrupted), select, recover | `SolveRuns` |
| Store: staged library apply; `crates/eutheto-import` | library revision, imported results | preview, stage, apply by replace, create or replace-library | `ScenarioHistory` |
| Application service, `crates/eutheto-core/src/app.rs` | a mutex per scenario | read and capture, await, commit | the client's `view` in `ScenarioTables` |
| Counterfactual jobs, `crates/eutheto-core/src/counterfactual.rs` and the store | job rows, ownership of the derived run, live owners with their tokens | start, claim, bind, solve, finalize and retry, supervise, cancel, recover | `CounterfactualJobs`, `CounterfactualPromise` |
| Worker protocol, `crates/eutheto-protocol` | phase of the session | accept or refuse a frame, end of output, exit | `WorkerProtocol` |
| OR-Tools supervisor and adapter, C++ worker | the child, pipes, accounts, event queue | launch, handshake, dispatch, read, stop, reap; search, offer, pace, write, exit | `OrtoolsWorker`, `WorkerSession` |
| Solver router, `crates/eutheto-solver-router`; solve pipeline, `verification.rs` | attempts, budgets, remaining output, retained result | preflight, dispatch, submit, early review, classify, fall back, select, publish | `SolverRouter`, `CandidateReviewer` |
| Desktop operation registry, `operations.rs`, `operations_alternatives.rs` | reservations, permits, tasks, settled groups | reserve, register, claim, cancel, release, admit, answer, settle, close | `OperationRegistry` |
| Manual repair and private history | receipts in journal rows | apply, undo with receipt | no |
| Explanation | none between calls | query an oracle, shrink | no |
| Desktop custodies and commands | previews per window | stage, consume, close | no |
| Domain packs, intermediate representations, export, PDF, CLI, user interface, tooling | none of their own | conversion, validation, presentation | no: sequential data transformation or input and output |

How the parts interact.  The application service reads a scenario, captures a custody
stamp (revision, document hash, history position), awaits, and calls a store operation
with the stamp.  The store executes each operation as one IMMEDIATE transaction on its
own thread, and calls back into the command engine inside that transaction.  Several
processes may have the same database open: the mutex in the application service orders
only the tasks of one process, so the rechecks inside the transactions carry the
correctness.  A solve run is started from a captured revision, lives outside the
database while backends solve, and returns with a finalization; a run whose owner died
is interrupted by whichever store instance looks next.  A counterfactual job owns such a
run and is executed by a supervised worker task in one of the processes.  While a run is
computed, the router gives backends in turn a share of the time and of the output; the
OR-Tools backend starts a process, speaks the worker protocol with it and hands its
solutions to the router, which has the first one reviewed at once.  The desktop reserves
an operation before it asks for any of this, and the operation holds a permit while the
work goes on.

What is hard about it: a view that is stale when it is used; revision numbers that
survive deletion, re-creation and import from a diverged copy of the library; inverses
that are replayed later, after other branches were discarded; several parties ending the
same run or job; a process that dies between two transactions; a deadline, a
cancellation and an answer in the same instant; a child process that breaks the
protocol, hangs or outlives its session; a review that happens while the backend is
suspended; an answer that is lost although its work was done; and resources that must be
charged exactly as long as they are used.  `PROJECT.json` lists these hazards with the
line where each bites.

## Modules

### Commands and the store

`ScenarioCommand` is the engine as operators: `ApplyCommand(document, command)` yields
the new document and the inverse, or a refusal.  A document is a map from records to
values.  Entities and rules share one command set; preferences and locked assignments
have their own.  Commands are the sets `Tree[n]` of those that nest at most n deep, and what
the engine does with them is a function of the depth (`Effects`), so that no operator is
recursive and the engine can be reasoned about.  A batch is the function `BatchRun` of how
many children have been applied.  Runs of domain commands are handed to the pack in chunks
that are halved when their inverse is too large; where that cuts a run is `Cuts`, by number
of commands (the code counts bytes and nodes).  A refusal is one outcome, whatever error the
code reports for it.  Of the pack
(`apply_batch_inner` of the workforce pack) the model keeps that it executes its commands in
order, refuses those its validation refuses, and returns the inverses in undo order.  A change of the scenario
settings rewrites the shifts whose times are not valid in the new time zone; its inverse
carries the spellings it displaced as a restoration (`SetScenarioSettings`).  All
spellings stand for the same instant, so the check that a restoration moves no instant
is not expressed.  `ApplyReconciled` applies a draft and the domain commands derived
from its outcome as one journalled batch.  `CommandReplay` is the engine's use: execute,
execute reconciled, undo, redo.

`ScenarioTables` declares the tables and the helpers of the transactions.  A table is a
function on identities or a set of rows.  The command engine is a parameter (`Admits`,
`Apply`, `Inverse`) of which `EngineAssumption` is assumed; `EngineIsReversible` (in
`CommandReplayProofs`) proves it of the engine for the commands that pass its preflight,
and `MCScenarioStore` instantiates the parameter with the engine itself, so that TLC
evaluates the assumption on it.

`ScenarioHistory` holds the actions on scenarios: `CreateProject`, `DuplicateProject`,
`OpenProject`, `ArchiveProject`, `DeleteProject`, `CaptureScenarioCustody`,
`LibrarySnapshot`, `ExecuteCommand`, `Undo`, `Redo`, `ImportReplace`, `ImportCreate`,
`ReplaceLibrary`.  `SolveRuns` holds the actions on runs: `StartSolveRun`,
`SaveVerifiedCheckpoint`, the finalizers, `SelectAcceptedResult`, and the recovery pass
of each store instance in the steps in which the code performs it: select candidates,
load a candidate's record, and write it in a transaction of its own.  `ScenarioStore`
composes the two and states the types and the properties; `ScenarioStoreProofs` proves
about it.

* One store operation is one action, because it is one transaction; an operation that
  fails any check rolls back, which is the same as not being enabled.  This includes
  cancellation: every check of the operation control comes before the commit.
* A client's `view` is what it captured last.  It survives any number of steps of
  others, deletion and re-creation of the scenario included.
* `updated_at` and `created_at` are represented by the revision at which they were
  taken.  Wall-clock time of a run is `solving`, `grace` (the deadline has passed, the
  persistence cutoff has not) or `expired`.  Recovery compares with the time at which it
  began.
* `bound` is the set of clients whose library revision is still current: comparing a
  stored counter with a captured one tells apart nothing else.
* `named` is a history variable: every row that ever was current.
* An import stages one scenario and at most one result, computed from its source
  revision.  `TargetRevision` and `StagedRows` are the import crate's choice of target
  revision and of history rows; the mark they are computed from is the current one
  because the staged apply is refused otherwise.
* Journal entries without an inverse are the commands in `Irreversible`.
* Revisions are bounded by `MaxRevision`, the code's `Revision::MAX`; the model reaches
  the bound and operations are refused there, as `checked_next` does.
* A repeated solve request is answered by the existing run and changes nothing.
* `StartSolveRun` asks for the stamp its client captured.  A start without one, for which the
  store captures it in the same transaction, is guarded by the revision alone; it starts the
  same runs, because a view with the current revision carries the current stamp (`ViewsBound`
  in `ScenarioStoreProofs`).  That a start must not precede its snapshot, and that a recovery
  pass skips a row it cannot read or whose manifest it cannot build, needs damaged rows or a
  wall clock that was set back, and is left out.
* `ExceedsHighWater` compares with the mark before the import.  The store first raises it by
  the staged history rows; the model's bundle stages no history row above its target.

### Counterfactual jobs

`CounterfactualJobs` models the rows of the store, the run a job owns, the start call
and the worker of a job in every process (`worker[p][j]`, one stage per point at which
the code reads a token, reads the row or enters a transaction), the supervisor that ends
the job of a failed worker, cancellation from any process in its two steps (the row,
then the token of a local owner), edits and deletion of the scenario, the end of a
process at any step and the recovery pass of the next opening.  A finalization carries
what its worker observed: the cancellation it had read, the time of the infeasibility,
the time at which it finished; the store compares them, and a finalization that a
cancellation made stale is retimed and sent once more.  What a routed execution gives is
one of six outcomes.

A process keeps an owner for each job it was asked for.  Asked for a job that another process
runs, it keeps the owner without a worker (stage `owned`) until it is asked again; a start that
fails because the scenario is gone keeps it, too, a start that ends the job retires it, and
`MAX_ACTIVE` owners are the most a process has (`OwnedIn`; an owner whose alarm is stored does
not count).  A cancellation is refused by a process that knows of an alarm, but the look and the
record are two steps, so that `CancelJob` may meet an alarm that was raised, or settled, in
between.  Clock failures and storage errors are left out, and with them the claim a process
takes over from its own interrupted start (`Starting`, `Recover`), which needs a transaction
that fails although its row can be read; so are two concurrent start calls of one process for
one job, which the owner's mutex puts in order.

`CounterfactualPromise` is what a job promises to whoever asked: its state moves along
queued, running and one terminal state, it is bound to at most one run, run and job end
in one step and with matching ends, a recorded cancellation stays.  `KeepsPromise` is
the refinement: the detailed steps of workers, supervisors and recoveries are steps of
the promise or invisible to it.

### The worker session

`WorkerProtocol` is `ParentProtocol` as operators on its state: what each frame, the end
of output and the exit of the process does in each phase, and what the session's outcome
counts as.  `OrtoolsWorker` is the process: an obedient worker with its session, the
event queue with its reserve for the first solution and the last bound, and the paced
writer thread; or a rogue worker that writes any frames, closes its output and goes on, exits,
crashes or hangs at any step.  `WorkerSession` composes them with the supervisor: launch, handshake, dispatch
with the tightened wall time, reading with accounting of frames and event rate, the
observation handed to the adapter, shutdown and reaping on every path, and the answer of
the adapter.  Cancellation, the deadline and the router's dropping of the session may
come at any step.  Before it asks for a session the adapter may refuse the request or find
no search time left (`NotAdmitted`); afterwards it may refuse the evidence of the last frame, or
the output may not take it (`RefuseEvidence`).  Frames are records of what the protocol
compares, without their digests and bytes: that a frame exceeds its cap or the bytes of a
session (`ReadOversized`), or that its content does not fit the model (`InvalidContent`),
happens to a rogue worker at any frame, and to no other, since the caps leave room for what the
worker writes.

`BackendSession` is the contract between a backend and the router: which
candidates it may submit while its process lives and after it, that it submits none after
its answer or into a closed output, and which answers may follow which candidates.  `WorkerSession` implements
it (`KeepsContract`); `SolverRouter` assumes it of the backends in `Reliable`, and
nothing of the others.

### The router

`CandidateReviewer` is the reviewer: a candidate is verified against what it claims, and
the best verified result is retained.  `SolverRouter` models attempts in the routing
order: preflight, the dispatch budget with its reserves, the bounded output in front of
the backend, the early review of the first candidate while the backend is suspended, the
classification of the attempt, the fallback or the final decision, and the pipeline's
comparison of router and reviewer.  The clock and the cancellation are read anew at
every step at which the code reads them, and may change between any two.  A backend is
any sequence of submissions and one answer; its candidates are `Quality` records (is it
sound, its score, does it match what it reports).  The verifier's verdict follows
`sound`, unless its resources, its clock, the identity of the result or the sum of the times
fails; the ranking that gives the order of backends is a constant.

`Limits` are the four ceilings a solve shares: candidates, the assignments in them, progress
events, and the diagnostic lines among these.  A submission is `complete`, with `Variables`
assignments; `oversized`, beyond the evidence or assignments one candidate may have; or
`malformed`.  A model has at most as many variables as a solve may have assignments (100 000 in
`SolverApiLimits` and in the planning IR's limits), which `RouterAssumption` states and
`ReliableBackendAdmitted` needs.  The timer of a backend and the clock of the budget are two
clocks: the timer may fire up to `TimerLead` before the budget agrees.  What is published takes
account of an alarm whatever else went wrong, of an overflow of the times, of a claim of
infeasibility that came too late and of the wall clock (`late`).  Left out are a progress sink
that refuses a line after it was counted, and the ends of `execute_bound_inner` in an error of
the preview's callback or of a time that cannot be represented: these publish nothing.

### The desktop's operations

`OperationRegistry` models reservations with their expiry, claims, the task that is
spawned for a claim with each of its looks at the token and the budget, the permits, the
call that waits for the task (until it settles, or at most until its deadline), dropped
calls, cancellation and release, groups of alternatives while they run and after they
settled, and the closing of windows and of the application in the steps in which it is
done: token, notifications, settled groups.  A kind of operation is the `run_…` function
it uses and how release treats it.  The application's work is only seen through the
places where it looks at its token: it may end or fail at any step or never end, and
operations that change the library or a file commit after a last check.  `MaxTime` is the last
instant of the clock; a budget that would end after it is refused, the call fails, and its
claim is given back (`DeadlineOverflows`).
`MAX_RESERVATIONS` bounds reservations and settled groups; the model has a constant for
each, so that eviction happens in a small instance.  A token and the notification of its
operation are one step; between the token of a window and its notifications others act.

## Runs

| Run | Instance | Shows |
|---|---|---|
| `command_replay` | one record, preference and lock, two values; batches of three leaves, nested batches, four domain commands with chunks of at most three and inverses of at most two; drafts of one or two leaves with a derived command | `ReplayIsExact`, `ReplayNeverRefused` |
| `command_settings` | two shifts, two zones and a spelling that is valid in one of them only; the same batches and drafts | `ReplayIsExact` |
| `store_history` | one scenario, two clients, two values, six revisions, some commands irreversible | `TypeOK`, `HistoryIntact`, `HistoryReplays`, `EditsSeenState` |
| `store_library` | two identities, one client, imports with source revision 1 | `RevisionNamesOneDocument` |
| `store_import` | one scenario, one run, imports, three revisions, with fairness | `SourcesExact`, `ResultsHaveAuthority`, `EveryRunEnds` |
| `store_runs` | two runs, two store instances, an editing client | `RevisionsAvailable`, `RetentionMinimal`, `TerminalOnce`, `RecoveryNeverPreempts` |
| `session` | an obedient worker with room for two events, or a rogue one that writes up to five frames of any kind; deadline, cancellation and abandonment at any step | `ObedientWorkerAdmitted`, `FirstSolutionDelivered`, `EvidenceCorroborated`, `ProcessGone`, `SessionEnds`, `KeepsContract` |
| `router` | two backends, the first of which keeps the contract; candidates of every quality; three ticks with a reserve of one for acceptance and one for completion | `SelectedIsRetained`, `OptimalIsProved`, `NeverWorseThanPreview`, `FailureExcludesResult`, `SharedAllowance`, `TimeoutsExplained`, `ReliableBackendAdmitted`, `RoutingEnds` |
| `counterfactual` | two processes, one job, a budget of two ticks and a grace of one | `NeverLeftRunning`, `ProofStands`, `KeepsPromise`, `CompletionBeforeRecovery`, `EveryJobEnds` |
| `registry` | two operations of a window, one permit, one settled group, two groups for one scenario; unbudgeted, bounded and alternatives operations | `StillCharged`, `GroupsKept`, `OneOwner`, `CommitAnswered`, `WaiterLeaves`, `BoundedAnswered` |
| `event_rate` | an obedient worker whose events are read late | finding: `RateKeptByWriterAdmitted` is violated |
| `undo_timestamp` | one imported scenario | finding: `UndoRestoresDocument` is violated |

Each module states its types as `TypeOK`.  That of the store is checked and proved; those
of the session, the router, the jobs and the registry hold in the instances above and
document the state, and are not among the properties of the runs.

Why the bounds are enough.
* Store.  Six revisions allow execute, execute, undo, a truncating command and further
  moves on the new branch, by either of two clients.  Two identities with one import
  source below and above the mark reach each case of `TargetRevision`, and re-creation
  after deletion.  Two runs on one scenario make one need a revision that another one
  releases.  Two store instances are what it takes for recovery passes to disturb each
  other.  Clients, values, identities, runs, requests and instances are interchangeable
  and are declared symmetric in runs without liveness only.
* Session.  An event limit of two is the smallest at which the reserve for the first
  solution and the last bound is all there is; five rogue frames are enough to shake
  hands, start, send an incumbent and a terminal frame and contradict it.  1.5 million states.
* Router.  Two backends are needed for one to inherit what another used up, and for an
  early result of the first to meet a failure of the second.  The first may leave the second
  its one line and its one event or none; an allowance that is partly used is met in the
  proof.  A timer that leads by one tick meets every order of the two clocks.  The instance's
  `Terminations` leaves out those the router treats as one it has: `CandidateFound` as an
  `OptimalityClaimed` that is not proved, `InvalidModel` and
  `UnboundedClaimed` as `InfeasibilityClaimed`, `Unavailable` as `Failed`,
  `SolutionLimit` as an attempt that ends without fallback.  3.0 million states.
* Counterfactual jobs.  Two processes give two workers on one job, a cancellation in one
  and the owner in the other, and a recovery beside a live owner.  Budget and grace
  longer than a tick make the deadline, the cutoff and the times between them differ.
  The queue's capacity is one, so that a second start is refused while the first lives.
  Time ends with the cutoff of a job that starts last, so that the part of `RecoveryRefused` about
  a cancellation after the cutoff is met in the proofs only.  388 thousand states.
* Registry.  Two operations and one permit make one wait for the other, which may never
  end.  The kinds left out combine what the others have: a mutation is the unbudgeted kind
  with the deadline of the alternatives, an export is a mutation that also detaches on
  release, a solve is an alternatives operation without a group.  A clock of one
  tick lets a budget of one tick run out when it was claimed at once, and overflow when it was
  claimed at the end.  598 thousand states.
* Deadlock is checked where the system must be able to go on; a session, a routing and
  the operations of a window end, and their runs do not check it.

Fairness.
* `store_import`: `Elapse` is weakly fair because clocks advance, and `RecoveryStep(p)`
  because a store instance that is open recovers on every lookup of runs, and on
  opening.  Nothing is assumed of clients or of the solver that owns a run.
* `session`: the clock, the steps of the supervisor (a task of the runtime) and what the
  operating system does with a process that is killed or reaped in the background are
  weakly fair.  Nothing is assumed of
  the worker.
* `router`: the clock, the router's own steps and the verification of a candidate that is
  under review are weakly fair; nothing is assumed of
  backends, which may never answer.
* `counterfactual`: the clock; a process ends at some time and the store is opened again
  (weakly fair for each process); a recovery pass that keeps having an eligible job ends
  it at some time (strongly fair: an opening may fail because a cancellation overtook it,
  and the next one tries again).  Workers and supervisors may die or stay away.
* `registry`: the clock, a woken or expired waiter, a call whose answer is there, and the
  rest of a closing that was begun.  Work may never end.

Findings.
* `undo_timestamp`: undo to the start of the history sets `updated_at` to `created_at`.
  For a scenario created here these coincide at the start; for an imported scenario
  they need not, and a command followed by undo does not restore the canonical hash.
* `event_rate`: the worker spaces its events when it writes them, the supervisor measures
  the rate when it reads them.  While the router reviews an early candidate the session
  is not polled; afterwards correctly spaced events are read together and the session is
  failed for its event rate.

Smaller observations, which are not runs.
* The recovery pass over solve runs (`crates/eutheto-store/src/lib.rs:9718`) reads its
  candidates outside the transaction which finishes them, so that a concurrent
  finalization makes the whole pass, and the opening, fail.  `EveryRunEnds` shows that
  this is a nuisance and not a loss.
* A session that fails after its first solution was handed over leaves that solution with
  the router, which reviews it, whereas `docs/architecture/worker-protocol.md:117` says
  that all partial candidate evidence is discarded.  Acceptance rests on the review only.
* Queued counterfactual jobs of a process that died are not recovered at opening; they
  hold a place in the queue until they are sent again or cancelled.
* A supervisor that ends a job while a cancellation is recorded may be refused, and then
  the job stays running until an opening after its cutoff.  Sending the request of a
  running job again leaves the provisional live owner of the second call behind.
* An answer after the budget is refused and the job ends interrupted, although
  `docs/roadmap/04` counts what was not decided in time as "not distinguished within the
  budget".

## Proofs

`CommandReplayProofs` proves, for every value of the constants that satisfies
`CommandConstants` (shifts and the settings are no records of the other maps, there is at most
one settings record, limits are positive, a zone's own spelling fits it):

* `EngineIsReversible`: an accepted command has an inverse that passes the same preflight,
  is accepted in the resulting document, and restores the original.  Leaves come first: an
  inverse's precondition holds where its leaf leads (`RecordLeafUndone`), and a restoration
  brings back exactly the spellings that were rewritten (`SettingsUndone`).  For a batch the
  reference is `OneByOne`, which applies the children singly.  Whatever the cuts, the engine's
  run is that one whenever either is accepted (`PackAgrees`, `RunAgrees`): this is where the
  reversal of each chunk's inverse counts, and the argument uses of `Cuts` only that a chunk
  lies within its run, so it would hold of any other packing.  Then the inverses in reverse order
  lead back through the documents of the run (`BatchUndone`), with as many leaves
  (`SumsReversed`), and induction on the depth does the rest (`OneDeeper`,
  `EveryDepthCorrect`).  A batch that is refused may differ from its reference in the document
  it had reached; the engine discards that one.
* `ReconciledIsOneBatch`: a draft and its derived commands, applied one after the other, give
  what the journalled batch of the two gives, refusals included.  It needs that a command has
  the same effect and the same leaves at every depth at which it fits
  (`EveryDepthIncluded`): the draft is applied at depth 0 and replayed at depth 1.
* `ReplayExact` and `ReplayAccepted`: `Spec => []ReplayIsExact` and
  `Spec => []ReplayNeverRefused`.  Neither is inductive without the other, nor without what
  the journal entry is: `ReplayInv` says that the entry holds what `ApplyCommand` gives for
  its command on the document it started from, for reconciled commands too.

The functions of the engine are recursive, on depths and on positions.  That each exists, so
that its defining equation may be used, and what it computes, is shown by induction over sets
of naturals (`SetInduction`, `StrongInduction`), from the well-foundedness of `<`; the
library's induction theorems take operators, which these provers do not instantiate.

`ScenarioStoreProofs` proves, for every value of the constants that satisfies
`EngineAssumption` and `TableAssumption`:

* `TypeCorrect`: `Spec => []TypeOK`.
* `RevisionsAreUnique`: `Spec => []RevisionNamesOneDocument`.  The statement is not
  inductive: nothing in it prevents a new row from taking an old number.  `RevisionInv`
  adds that every row ever named is at or below its scenario's mark (`MarksBound`), that
  the current row of a live scenario is named and lies exactly at the mark
  (`CurrentIsMark`), and that a captured view is at or below the mark and agrees with
  the current state whenever its revision does (`ViewsBound`).  Every operation that
  names a row places it strictly above the mark; `RevisionPlaced` is the common part.
* `EditsReplaceSeenState`: `Spec => EditsSeenState`, from `ViewsBound`: a view with the
  current revision is the current stamp, so comparing revisions is sufficient in undo
  and redo.

Each has one lemma per action.  `TypeOK` is inductive as it stands; its one delicate
part is `Undo`, where the entry at the cursor exists only because the history was
checked to be readable first (`EntryFound`).

`OperationRegistryProofs` proves, for every value of the constants that satisfies
`RegistryAssumption` (limits are positive, the operations of one execution are finitely
many):

* `WorkStaysCharged`: `Spec => []StillCharged`.  Busy work is bounded because it is held
  and the held entries are, so the bound is carried by `Charged` for all that is held,
  expired or not: `Reserve` counts only what is live, but drops what has expired in the
  same step, and an entry with a busy task is claimed and cannot expire (`EntriesShape`).
* `CommitsAreAnswered`: `Spec => []CommitAnswered`.  A call may be answered long after its
  task has committed and its entry is gone, so `Committed` follows the operation to its
  end: its result is no refusal and it is not of the kind that is answered at its
  deadline.  That this holds when it commits needs `Unanswered`: a task that still works
  has no result, and its call no answer unless it is of that kind.  A claim without a budget is
  no exception: its task never works.

The invariant of both is `RegistryInv`; one lemma for signals and one for the steps of a
task carry most of the actions.

`SolveRunProofs` adds, with `RunAssumption` (`NoRun` is no run):

* `ResultsKeepAuthority`, `RunsEndOnce`, `RecoveryWaits`.  Their invariant is `RunInv`:
  beside `ResultsHaveAuthority`, that identities of runs are issued once, and that a run a
  recovery pass holds as a candidate was expired when it was read.  A candidate may have
  been finished or deleted since, but an unfinished one is still expired, and so no owner
  can finish it any more.
* `RevisionsStayAvailable`, `SourcesStayExact`, `RetentionStaysMinimal`.  The three are
  proved together: `RetentionInv` says that the retained rows are exactly those rows,
  document included, that unfinished runs and results were computed from and that are not
  current, and that no two rows of one name differ.  Availability is not inductive without
  exactness: a row of the same name from another library would satisfy it.

`ScenarioHistoryProofs` proves `HistoryStaysIntact` and `HistoryStaysReplayable`.
`HistoryInv` gives every live scenario a length `n` such that its entries are numbered
1..n, each once, and the last is of the current branch; the entries are ordered in their
revisions; and consecutive entries meet in one row, from which each leads to the next by
the engine.  That undo runs against the very document needs `RevisionsAreUnique` as well:
an entry names its document by revision.

`OperationRegistryProofs` also proves `GroupsAreKept` and `GroupsHaveOneOwner`.  `GroupInv`
follows a group from the claim to the settled list: what is owed to a window is live or settled, and
nothing live is settled too.  What `forget_alternatives_window` leaves is a recursive
function of the settled list; what it computes is proved by induction over a set of
naturals, as for the engine.

`CounterfactualJobsProofs` proves `NoJobIsLeftRunning`, `ProofsAlwaysStand`,
`AnswersPrecedeRecovery` and `PromiseIsKept`, that every behaviour of the jobs is one of
`CounterfactualPromise`.  `JobInv` relates a row to its run, every worker record to the row
it was read from (what a worker remembers is still true, or the job is over), a recovery
pass to the rows it selected, and says who attends a running job.  Every action is shown to
move each row by a step that keeps its outcome, is a step of the promise or invisible to
it, and comes in time; `Attended` explains why the supervisor's single attempt suffices: it
is refused only for a job that is over, cancelled or attended by another worker.

`SolverRouterProofs` proves the seven safety properties of the router for any order of
backends, any candidates and any limits, from `RouterAssumption`:

* `SelectionIsRetained`, `OptimalityIsProved`, `PublishedNeverWorse`, `FailureEndsSolve`.
  `ReviewsOK` relates the early review to what the reviewer keeps: a good one means that
  the reviewer holds the first candidate and the preview, if any, is that one; any other
  means it holds none.  From there a later review has few cases (`LaterReview`), and each
  disposition selects what was retained (`DispositionKeeps`).  An optimal status needs
  `StopsOK` too: a run that was rejected or timed out is not `InTime`.
* `AllowanceIsShared`: of each output, what is recorded plus what remains never exceeds its
  limit; while
  an attempt is being concluded its output is in neither, which `AllowanceOK` adds.
* `TimeoutsAreExplained`: a timer that fired is a stop of the run, and a stop that is not
  one of the whole solve is the backend's limit, at every reading of the clock (`StopsOK`).
* `ReliableIsAdmitted`: a backend that is cut short may have failed with a candidate in the
  output; it is judged only if it was not (`CutShort`).

The sums of `SharedAllowance` are a recursive function, for the same reason as above.  The
proof of the allowance found an error of an earlier version of the model: an attempt that
ended in preflight was recorded with the output of the attempt before it, where
`preflight_attempt` records none.

`WorkerSessionProofs` proves, for every policy, every deadline and every set of frames a
misbehaving worker may write, the four safety properties of a session and
`ImplementsContract`, that the session takes only steps of `BackendSession`.  The last one
is what entitles `SolverRouter` to use that contract for a reliable backend.  Beside
`PolicyAssumption` it uses `LimitAssumption`: the backend's limit is within the deadline,
and the frames of a session cover its events, an answer to the handshake, the start and a
terminal frame.  The policy has 4096 events and 4099 frames (`protocol/version.json`), so
there is no frame to spare.  `SessionInv` has three sides:

* The parent's: each stage fixes the state of the process and the phase of
  `ParentProtocol`, and each phase fixes what the frames read so far are (`Admitted`).
  `SuccessIsCorroborated` and `AnswersWithoutProcess` need only this.
* The worker's: one that keeps the protocol has written what its place says, and the events
  written and those waiting in its slots are the ones it admitted (`Wrote`).  From both
  sides, the next frame of such a worker is the one the parent expects, within both
  ceilings (`ObedientReads`), and its output ends only where it may (`ObedientEof`).
  The request's limit is part of it: it is tightened before the request is written, so the
  terminal frame carries the limit the parent compares with.
* The adapter's: an incumbent that was read is retained, being observed or being announced
  (`DeliveryInv`), and a solution that was found is in a slot, being written or in the
  output (`EventsInv`).  Together they give `FirstSolutionFirst`.

Every failure of the supervisor has one lemma, `FailKeeps`; every step of the worker has
one for the parent's side (`WorkerKeepsSession`) and one of its own.

Only model-checked:

* the liveness properties (`EveryRunEnds`, `EveryJobEnds`, `RoutingEnds`, `SessionEnds`,
  `WaiterLeaves`, `BoundedAnswered`), which need fairness;
* the fairness part of `KeepsContract`, that a launched process always ends.

## Not modelled

* Domain packs, planning models, canonical encodings, verification arithmetic, export and
  the user interface make up most of the repository's lines.  They transform data in one
  thread and keep nothing between calls; a small instance of them would say little, and
  unit tests reach them well.  They enter as parameters: the command engine's pack, the
  verdict of a review, what a routed execution gives.
* Repeated solve requests (`headless_stored.rs`): they write nothing; what they find is
  decided by comparing request hashes, which the models do not keep.
* Private-history receipts, the identity-owner table and UUID collision checks, portable
  sections other than results, archival dependencies of results on native records,
  diagnostic copies, events, settings.
* The shrinking of explanations, which is a sequential loop over an oracle.
* The previews the desktop holds per window between two operations, and progress events.
* Build tooling, benchmarks, and crates that are placeholders.

## Next

Request retries over `SolveRuns`, the desktop's custodies, and the byte budgets of the
engine: whether an inverse that fits the leaf limit always fits those, too.
