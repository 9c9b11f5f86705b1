--------------------------- MODULE SolveRunProofs ---------------------------
(***************************************************************************)
(* Theorems about the solve runs of the scenario store: their outcomes,    *)
(* crash recovery by several store instances, and the scenario revisions   *)
(* that are retained for runs and results.                                 *)
(***************************************************************************)
EXTENDS ScenarioStoreProofs

-----------------------------------------------------------------------------
(***************************************************************************)
(* Outcomes.  A recovery pass works on what it read earlier, so that the   *)
(* runs it holds are unfinished, finished or gone by the time it writes.   *)
(* They were expired when they were read, which lasts, and no new run gets *)
(* the identity of one of them.                                            *)
(***************************************************************************)
Candidate(p, r) == r \in recovery[p].pending \/ (r = recovery[p].checked /\ r # Idle)

CandidatesExpired ==
    \A p \in StoreInstance, r \in RunId :
        Candidate(p, r) => r \in issued /\ (Unfinished(r) => runs[r].time = "expired")

RunsIssued == \A r \in RunId : runs[r] # NoRun => r \in issued

RunInv == ResultsHaveAuthority /\ RunsIssued /\ CandidatesExpired

LEMMA RunInit == Init => RunInv
  BY DEF Init, RunInv, ResultsHaveAuthority, RunsIssued, CandidatesExpired, Candidate, NotRecovering

\* Steps that leave the runs alone and remove no scenario.
LEMMA RunFrame ==
    ASSUME RunInv, UNCHANGED <<runs, solutions, issued, selected, recovery>>, live \subseteq live'
    PROVE  RunInv' /\ OutcomeKept /\ OwnerKeepsRun
  BY DEF RunInv, ResultsHaveAuthority, RunsIssued, CandidatesExpired, Candidate, Unfinished,
         OutcomeKept, OwnerKeepsRun

\* An unfinished run goes on or ends; recovery takes up no other run.
LEMMA RunUpdated ==
    ASSUME TypeOK, RunInv, NEW r \in RunId, Unfinished(r), NEW run \in Run,
           runs' = [runs EXCEPT ![r] = run],
           run.scenario = runs[r].scenario,
           runs[r].time = "expired" => run.time = "expired",
           run.status = "quarantined" => ~run.checkpoint,
           run.evidence => run.status = "no_result",
           solutions' = IF run.status = "accepted" THEN solutions \cup {r} ELSE solutions,
           UNCHANGED <<live, selected, issued>>,
           \A p \in StoreInstance, q \in RunId : Candidate(p, q)' => Candidate(p, q)
    PROVE  RunInv' /\ OutcomeKept
  <1>1. /\ runs'[r] = run /\ run # NoRun
        /\ \A q \in RunId \ {r} : runs'[q] = runs[q]
        /\ runs[r] # NoRun /\ runs[r].status = "running" /\ r \notin solutions
    BY RunAssumption DEF TypeOK, Unfinished, RunInv, ResultsHaveAuthority
  <1>2. ResultsHaveAuthority'
    <2>1. solutions' = {q \in RunId : runs'[q] # NoRun /\ runs'[q].status = "accepted"}
      BY <1>1 DEF RunInv, ResultsHaveAuthority
    <2>2. \A q \in RunId : runs'[q] # NoRun =>
             /\ runs'[q].scenario \in live'
             /\ runs'[q].status = "quarantined" => ~runs'[q].checkpoint
             /\ runs'[q].evidence => runs'[q].status = "no_result"
      BY <1>1 DEF RunInv, ResultsHaveAuthority
    <2>3. \A s \in ScenarioId : selected'[s] # NoRun =>
             selected'[s] \in solutions' /\ runs'[selected'[s]].scenario = s
      BY <1>1 DEF RunInv, ResultsHaveAuthority, TypeOK
    <2> QED
      BY <2>1, <2>2, <2>3 DEF ResultsHaveAuthority
  <1>3. RunsIssued'
    BY <1>1 DEF RunInv, RunsIssued
  <1>4. CandidatesExpired'
    BY <1>1 DEF RunInv, CandidatesExpired, Unfinished
  <1>5. OutcomeKept
    BY <1>1 DEF OutcomeKept, Terminal
  <1> QED
    BY <1>2, <1>3, <1>4, <1>5 DEF RunInv

LEMMA RunDelete ==
    ASSUME TypeOK, RunInv, NEW c \in Client, DeleteProject(c), UNCHANGED recovery
    PROVE  RunInv' /\ OutcomeKept /\ OwnerKeepsRun
  <1> DEFINE s == view[c].scenario
  <1>1. /\ s \in ScenarioId /\ live' = live \ {s}
        /\ selected' = [selected EXCEPT ![s] = NoRun]
        /\ runs' = CascadeRuns(s)
        /\ solutions' = {r \in solutions : CascadeRuns(s)[r] # NoRun}
        /\ issued' = issued
    BY ViewType DEF DeleteProject, Fresh
  <1> HIDE DEF s
  <1>2. \A r \in RunId :
           runs'[r] = IF runs[r] # NoRun /\ runs[r].scenario = s THEN NoRun ELSE runs[r]
    BY <1>1 DEF CascadeRuns
  <1>3. solutions' = {r \in solutions : runs[r].scenario # s}
    BY <1>1, <1>2 DEF RunInv, ResultsHaveAuthority
  <1>4. ResultsHaveAuthority'
    <2>1. solutions' = {q \in RunId : runs'[q] # NoRun /\ runs'[q].status = "accepted"}
      BY <1>2, <1>3 DEF RunInv, ResultsHaveAuthority
    <2>2. \A q \in RunId : runs'[q] # NoRun =>
             /\ runs'[q].scenario \in live'
             /\ runs'[q].status = "quarantined" => ~runs'[q].checkpoint
             /\ runs'[q].evidence => runs'[q].status = "no_result"
      BY <1>1, <1>2 DEF RunInv, ResultsHaveAuthority
    <2>3. \A t \in ScenarioId : selected'[t] # NoRun =>
             selected'[t] \in solutions' /\ runs'[selected'[t]].scenario = t
      <3> SUFFICES ASSUME NEW t \in ScenarioId, selected'[t] # NoRun
                   PROVE  selected'[t] \in solutions' /\ runs'[selected'[t]].scenario = t
        OBVIOUS
      <3>1. t # s /\ selected'[t] = selected[t]
        BY <1>1 DEF TypeOK
      <3>2. selected[t] \in solutions /\ runs[selected[t]].scenario = t /\ selected[t] \in RunId
        BY <3>1 DEF RunInv, ResultsHaveAuthority
      <3> QED
        BY <1>2, <1>3, <3>1, <3>2
    <2> QED
      BY <2>1, <2>2, <2>3 DEF ResultsHaveAuthority
  <1>5. RunsIssued' /\ CandidatesExpired'
    BY <1>1, <1>2 DEF RunInv, RunsIssued, CandidatesExpired, Candidate, Unfinished
  <1>6. OutcomeKept /\ OwnerKeepsRun
    BY <1>2 DEF OutcomeKept, OwnerKeepsRun
  <1> QED
    BY <1>4, <1>5, <1>6 DEF RunInv

LEMMA RunHistoryNext ==
    ASSUME TypeOK, RunInv, HistoryNext, UNCHANGED recovery
    PROVE  RunInv' /\ OutcomeKept /\ OwnerKeepsRun
  <1> DEFINE Goal == RunInv' /\ OutcomeKept /\ OwnerKeepsRun
  <1> USE DEF scenarioVars, runVars
  <1>1. ASSUME NEW c \in Client, NEW s \in ScenarioId,
               CaptureScenarioCustody(c, s) \/ DuplicateProject(c, s)
        PROVE  Goal
    BY <1>1, RunFrame DEF CaptureScenarioCustody, DuplicateProject, InsertProject
  <1>2. ASSUME NEW c \in Client, NEW s \in ScenarioId, Import(c, s)
        PROVE  Goal
    <2>1. PICK source \in ImportRevision, withResult \in BOOLEAN :
             \E doc : \/ ImportReplace(c, s, source, doc, withResult)
                      \/ ImportCreate(c, s, source, doc, withResult)
                      \/ ReplaceLibrary(c, s, source, doc, withResult)
      BY <1>2 DEF Import
    <2> PICK doc : \/ ImportReplace(c, s, source, doc, withResult)
                   \/ ImportCreate(c, s, source, doc, withResult)
                   \/ ReplaceLibrary(c, s, source, doc, withResult)
      BY <2>1
    <2>2. CASE ImportReplace(c, s, source, doc, withResult)
      BY <2>2, RunFrame DEF ImportReplace
    <2>3. CASE ImportCreate(c, s, source, doc, withResult)
      BY <2>3, RunFrame DEF ImportCreate, InsertProject
    <2>4. CASE ReplaceLibrary(c, s, source, doc, withResult)
      <3>1. /\ \A r \in RunId : runs'[r] = NoRun
            /\ \A t \in ScenarioId : selected'[t] = NoRun
            /\ solutions' = {} /\ issued' = issued
        BY <2>4 DEF ReplaceLibrary
      <3> QED
        BY <3>1 DEF RunInv, ResultsHaveAuthority, RunsIssued, CandidatesExpired, Candidate,
                    Unfinished, OutcomeKept, OwnerKeepsRun
    <2> QED
      BY <2>2, <2>3, <2>4
  <1>3. ASSUME NEW c \in Client, LibrarySnapshot(c) \/ ArchiveProject(c) \/ Edit(c)
        PROVE  Goal
    BY <1>3, RunFrame DEF LibrarySnapshot, ArchiveProject, Edit, ExecuteCommand, Undo, Redo
  <1>4. ASSUME NEW c \in Client, DeleteProject(c)
        PROVE  Goal
    BY <1>4, RunDelete
  <1>5. ASSUME NEW s \in ScenarioId, CreateProject(s) \/ OpenProject(s)
        PROVE  Goal
    BY <1>5, RunFrame DEF CreateProject, OpenProject, InsertProject
  <1> QED
    BY <1>1, <1>2, <1>3, <1>4, <1>5 DEF HistoryNext

\* What the operations make of an unfinished run.
RunChange(old, run) ==
    \/ \E time \in {"grace", "expired"} : run = [old EXCEPT !.time = time] /\ old.time # "expired"
    \/ run = [old EXCEPT !.checkpoint = TRUE]
    \/ run = [old EXCEPT !.status = "accepted"]
    \/ run = [old EXCEPT !.status = "quarantined", !.checkpoint = FALSE]
    \/ \E outcome \in {"no_result", "interrupted"}, evidence \in BOOLEAN :
           /\ run = [old EXCEPT !.status = outcome, !.evidence = evidence]
           /\ evidence => outcome = "no_result"

LEMMA RunRecords ==
    ASSUME TypeOK, RunInv, NEW r \in RunId, Unfinished(r), NEW run, RunChange(runs[r], run)
    PROVE  /\ run \in Run
           /\ run.scenario = runs[r].scenario
           /\ run.revision = runs[r].revision
           /\ run.document = runs[r].document
           /\ runs[r].time = "expired" => run.time = "expired"
           /\ run.status = "quarantined" => ~run.checkpoint
           /\ run.evidence => run.status = "no_result"
  <1>1. /\ runs[r] \in Run /\ runs[r].status = "running" /\ ~runs[r].evidence
    BY DEF TypeOK, Unfinished, RunInv, ResultsHaveAuthority
  <1>2. CASE \E time \in {"grace", "expired"} :
                  run = [runs[r] EXCEPT !.time = time] /\ runs[r].time # "expired"
    <2>1. PICK time \in {"grace", "expired"} : run = [runs[r] EXCEPT !.time = time]
      BY <1>2
    <2>2. run \in Run
      BY <1>1, <2>1, Zenon DEF Run
    <2>3. /\ run.scenario = runs[r].scenario /\ run.revision = runs[r].revision
          /\ run.document = runs[r].document
          /\ run.status = runs[r].status /\ run.evidence = runs[r].evidence
      BY <1>1, <2>1 DEF Run
    <2> QED
      BY <1>1, <1>2, <2>2, <2>3
  <1>3. CASE run = [runs[r] EXCEPT !.checkpoint = TRUE]
    BY <1>1, <1>3 DEF Run
  <1>4. CASE run = [runs[r] EXCEPT !.status = "accepted"]
    BY <1>1, <1>4 DEF Run, Terminal
  <1>5. CASE run = [runs[r] EXCEPT !.status = "quarantined", !.checkpoint = FALSE]
    BY <1>1, <1>5 DEF Run, Terminal
  <1>6. CASE \E outcome \in {"no_result", "interrupted"}, evidence \in BOOLEAN :
                  /\ run = [runs[r] EXCEPT !.status = outcome, !.evidence = evidence]
                  /\ evidence => outcome = "no_result"
    <2>1. PICK outcome \in {"no_result", "interrupted"}, evidence \in BOOLEAN :
                  /\ run = [runs[r] EXCEPT !.status = outcome, !.evidence = evidence]
                  /\ evidence => outcome = "no_result"
      BY <1>6
    <2>2. run \in Run
      BY <1>1, <2>1, Zenon DEF Run, Terminal
    <2>3. /\ run.scenario = runs[r].scenario /\ run.revision = runs[r].revision
          /\ run.document = runs[r].document
          /\ run.time = runs[r].time /\ run.status = outcome /\ run.evidence = evidence
      BY <1>1, <2>1 DEF Run
    <2> QED
      BY <2>1, <2>2, <2>3
  <1> QED
    BY <1>2, <1>3, <1>4, <1>5, <1>6, Zenon DEF RunChange

\* A run that is finished or goes on, as the operations on runs write it.
RunWritten(r, run) ==
    /\ Unfinished(r) /\ run \in Run
    /\ runs' = [runs EXCEPT ![r] = run]
    /\ run.scenario = runs[r].scenario
    /\ run.revision = runs[r].revision
    /\ run.document = runs[r].document
    /\ runs[r].time = "expired" => run.time = "expired"
    /\ run.status = "quarantined" => ~run.checkpoint
    /\ run.evidence => run.status = "no_result"
    /\ solutions' = IF run.status = "accepted" THEN solutions \cup {r} ELSE solutions
    /\ UNCHANGED <<scenarioVars, snapshots, issued, results, view, named>>

LEMMA WrittenByOwner ==
    ASSUME TypeOK, RunInv, NEW r \in RunId,
           \/ Elapse(r)
           \/ SaveVerifiedCheckpoint(r)
           \/ FinalizeAcceptedRun(r)
           \/ FinalizeQuarantinedRun(r)
           \/ \E outcome \in Terminal, evidence \in BOOLEAN : FinalizeTerminalRun(r, outcome, evidence)
    PROVE  UNCHANGED recovery /\ \E run : RunWritten(r, run)
  <1>0. runs \in [RunId -> Run \cup {NoRun}]
    BY DEF TypeOK
  <1>1. CASE Elapse(r)
    <2> DEFINE time == IF runs[r].time = "solving" THEN "grace" ELSE "expired"
               run == [runs[r] EXCEPT !.time = time]
    <2>1. Unfinished(r) /\ runs' = [runs EXCEPT ![r] = run] /\ runs[r].time # "expired"
      BY <1>0, <1>1 DEF Elapse, Unfinished
    <2>2. time \in {"grace", "expired"}
      OBVIOUS
    <2>3. run.status = runs[r].status
      BY <1>0, <2>1 DEF Run, Unfinished
    <2> HIDE DEF time
    <2>c. RunChange(runs[r], run)
      BY <2>1, <2>2, Zenon DEF RunChange
    <2>4. RunWritten(r, run)
      BY <1>1, <2>1, <2>2, <2>3, <2>c, RunRecords DEF RunWritten, Elapse, Unfinished
    <2> QED
      BY <1>1, <2>4 DEF Elapse
  <1>2. CASE SaveVerifiedCheckpoint(r)
    <2> DEFINE run == [runs[r] EXCEPT !.checkpoint = TRUE]
    <2>1. Unfinished(r) /\ runs' = [runs EXCEPT ![r] = run]
      BY <1>0, <1>2 DEF SaveVerifiedCheckpoint, Unfinished
    <2>3. run.status = runs[r].status
      BY <1>0, <2>1 DEF Run, Unfinished
    <2>c. RunChange(runs[r], run)
      BY <2>1, Zenon DEF RunChange
    <2>4. RunWritten(r, run)
      BY <1>2, <2>1, <2>3, <2>c, RunRecords DEF RunWritten, SaveVerifiedCheckpoint, Unfinished
    <2> QED
      BY <1>2, <2>4 DEF SaveVerifiedCheckpoint
  <1>3. CASE FinalizeAcceptedRun(r)
    <2> DEFINE run == [runs[r] EXCEPT !.status = "accepted"]
    <2>1. Unfinished(r) /\ runs' = [runs EXCEPT ![r] = run]
      BY <1>0, <1>3 DEF FinalizeAcceptedRun
    <2>3. run.status = "accepted"
      BY <1>0, <2>1 DEF Run, Unfinished
    <2>c. RunChange(runs[r], run)
      BY <2>1, Zenon DEF RunChange
    <2>4. RunWritten(r, run)
      BY <1>3, <2>1, <2>3, <2>c, RunRecords DEF RunWritten, FinalizeAcceptedRun
    <2> QED
      BY <1>3, <2>4 DEF FinalizeAcceptedRun
  <1>4. CASE FinalizeQuarantinedRun(r)
    <2> DEFINE run == [runs[r] EXCEPT !.status = "quarantined", !.checkpoint = FALSE]
    <2>1. Unfinished(r) /\ runs' = [runs EXCEPT ![r] = run]
      BY <1>0, <1>4 DEF FinalizeQuarantinedRun
    <2>3. run.status = "quarantined"
      BY <1>0, <2>1 DEF Run, Unfinished
    <2>c. RunChange(runs[r], run)
      BY <2>1, Zenon DEF RunChange
    <2>4. RunWritten(r, run)
      BY <1>4, <2>1, <2>3, <2>c, RunRecords DEF RunWritten, FinalizeQuarantinedRun
    <2> QED
      BY <1>4, <2>4 DEF FinalizeQuarantinedRun
  <1>5. ASSUME NEW outcome \in Terminal, NEW evidence \in BOOLEAN,
               FinalizeTerminalRun(r, outcome, evidence)
        PROVE  UNCHANGED recovery /\ \E run : RunWritten(r, run)
    <2> DEFINE run == [runs[r] EXCEPT !.status = outcome, !.evidence = evidence]
    <2>1. /\ Unfinished(r) /\ runs' = [runs EXCEPT ![r] = run]
          /\ outcome \in {"no_result", "interrupted"} /\ (evidence => outcome = "no_result")
      BY <1>0, <1>5 DEF FinalizeTerminalRun, Terminated
    <2>3. run.status = outcome
      BY <1>0, <2>1 DEF Run, Unfinished
    <2>c. RunChange(runs[r], run)
      BY <2>1, Zenon DEF RunChange
    <2>4. RunWritten(r, run)
      BY <1>5, <2>1, <2>3, <2>c, RunRecords DEF RunWritten, FinalizeTerminalRun
    <2> QED
      BY <1>5, <2>4 DEF FinalizeTerminalRun
  <1> QED
    BY <1>1, <1>2, <1>3, <1>4, <1>5

LEMMA WrittenByRecovery ==
    ASSUME TypeOK, RunInv, NEW p \in StoreInstance, InterruptCandidate(p)
    PROVE  /\ recovery[p].checked \in RunId
           /\ \E run : RunWritten(recovery[p].checked, run)
  <1> DEFINE r == recovery[p].checked
             run == [runs[r] EXCEPT !.status = "interrupted", !.evidence = FALSE]
  <1>1. r \in RunId /\ Unfinished(r) /\ runs \in [RunId -> Run \cup {NoRun}]
    BY DEF InterruptCandidate, TypeOK
  <1>2. runs' = [runs EXCEPT ![r] = run]
    BY <1>1 DEF InterruptCandidate, Terminated
  <1>3. run.status = "interrupted"
    BY <1>1 DEF Run, Unfinished
  <1>c. RunChange(runs[r], run)
    BY <1>1, Zenon DEF RunChange
  <1>4. RunWritten(r, run)
    BY <1>1, <1>2, <1>3, <1>c, RunRecords DEF RunWritten, InterruptCandidate
  <1> QED
    BY <1>1, <1>4

LEMMA WrittenKeepsInv ==
    ASSUME TypeOK, RunInv, NEW r \in RunId, NEW run, RunWritten(r, run),
           \A p \in StoreInstance, q \in RunId : Candidate(p, q)' => Candidate(p, q)
    PROVE  RunInv' /\ OutcomeKept
  BY RunUpdated DEF RunWritten, scenarioVars

LEMMA RunStart ==
    ASSUME TypeOK, RunInv, NEW c \in Client, NEW q \in RequestId, NEW r \in RunId,
           StartSolveRun(c, q, r)
    PROVE  RunInv' /\ OutcomeKept /\ OwnerKeepsRun
  <1> DEFINE s == view[c].scenario
             run == [request |-> q, scenario |-> s, revision |-> revision[s],
                     document |-> document[s], status |-> "running", time |-> "solving",
                     checkpoint |-> FALSE, evidence |-> FALSE]
  <1>1. /\ s \in live /\ s \in ScenarioId /\ r \notin issued /\ issued' = issued \cup {r}
        /\ runs' = [runs EXCEPT ![r] = run]
        /\ UNCHANGED <<live, selected, solutions, recovery>>
    BY ViewType DEF StartSolveRun, Fresh, scenarioVars
  <1>2. run \in Run
    BY <1>1 DEF Run, TypeOK
  <1>3. run.scenario = s /\ run.status = "running" /\ ~run.evidence
    OBVIOUS
  <1> HIDE DEF run, s
  <1>4. /\ runs'[r] = run /\ run # NoRun /\ runs[r] = NoRun /\ r \notin solutions
        /\ \A o \in RunId \ {r} : runs'[o] = runs[o]
    BY <1>1, <1>2, RunAssumption DEF TypeOK, RunInv, RunsIssued, ResultsHaveAuthority
  <1>5. ResultsHaveAuthority'
    <2>1. solutions' = {o \in RunId : runs'[o] # NoRun /\ runs'[o].status = "accepted"}
      BY <1>1, <1>3, <1>4 DEF RunInv, ResultsHaveAuthority
    <2>2. \A o \in RunId : runs'[o] # NoRun =>
             /\ runs'[o].scenario \in live'
             /\ runs'[o].status = "quarantined" => ~runs'[o].checkpoint
             /\ runs'[o].evidence => runs'[o].status = "no_result"
      BY <1>1, <1>3, <1>4 DEF RunInv, ResultsHaveAuthority
    <2>3. \A t \in ScenarioId : selected'[t] # NoRun =>
             selected'[t] \in solutions' /\ runs'[selected'[t]].scenario = t
      BY <1>1, <1>4 DEF RunInv, ResultsHaveAuthority, TypeOK
    <2> QED
      BY <2>1, <2>2, <2>3 DEF ResultsHaveAuthority
  <1>6. RunsIssued'
    BY <1>1, <1>4 DEF RunInv, RunsIssued
  <1>7. CandidatesExpired'
    BY <1>1, <1>4 DEF RunInv, CandidatesExpired, Candidate, Unfinished
  <1>8. OutcomeKept /\ OwnerKeepsRun
    BY <1>1, <1>4 DEF OutcomeKept, OwnerKeepsRun
  <1> QED
    BY <1>5, <1>6, <1>7, <1>8 DEF RunInv

LEMMA RunRunNext ==
    ASSUME TypeOK, RunInv, RunNext
    PROVE  RunInv' /\ OutcomeKept /\ OwnerKeepsRun
  <1>1. ASSUME NEW c \in Client, NEW r \in RunId, NEW q \in RequestId, StartSolveRun(c, q, r)
        PROVE  RunInv' /\ OutcomeKept /\ OwnerKeepsRun
    BY <1>1, RunStart
  <1>2. ASSUME NEW c \in Client, NEW r \in RunId, SelectAcceptedResult(c, r)
        PROVE  RunInv' /\ OutcomeKept /\ OwnerKeepsRun
    <2> DEFINE s == view[c].scenario
    <2>1. /\ s \in ScenarioId /\ r \in solutions /\ runs[r].scenario = s
          /\ selected' = [selected EXCEPT ![s] = r]
          /\ UNCHANGED <<live, runs, solutions, issued, recovery>>
      BY <1>2, ViewType DEF SelectAcceptedResult, Fresh, runVars
    <2> QED
      BY <2>1 DEF TypeOK, RunInv, ResultsHaveAuthority, RunsIssued, CandidatesExpired, Candidate,
                  Unfinished, OutcomeKept, OwnerKeepsRun
  <1>3. ASSUME NEW r \in RunId,
               \/ Elapse(r)
               \/ SaveVerifiedCheckpoint(r)
               \/ FinalizeAcceptedRun(r)
               \/ FinalizeQuarantinedRun(r)
               \/ \E outcome \in Terminal, evidence \in BOOLEAN :
                      FinalizeTerminalRun(r, outcome, evidence)
        PROVE  RunInv' /\ OutcomeKept /\ OwnerKeepsRun
    <2>1. UNCHANGED recovery /\ \E run : RunWritten(r, run)
      BY <1>3, WrittenByOwner
    <2>2. RunInv' /\ OutcomeKept
      BY <2>1, WrittenKeepsInv DEF Candidate
    <2> QED
      BY <2>1, <2>2 DEF OwnerKeepsRun
  <1> QED
    BY <1>1, <1>2, <1>3 DEF RunNext

LEMMA RunRecovery ==
    ASSUME TypeOK, RunInv, NEW p \in StoreInstance, RecoveryStep(p)
    PROVE  RunInv' /\ OutcomeKept /\ OwnerKeepsRun
  <1>0. recovery \in [StoreInstance -> [pass : {"none", "active", "failed"},
                                       pending : SUBSET RunId, checked : RunId \cup {Idle}]]
    BY DEF TypeOK
  \* Steps that only move a pass along.
  <1>1. ASSUME UNCHANGED tables,
               \A o \in StoreInstance, q \in RunId :
                   Candidate(o, q)' => Candidate(o, q) \/ (Unfinished(q) /\ PastRecoveryDeadline(q))
        PROVE  RunInv' /\ OutcomeKept /\ OwnerKeepsRun
    <2>1. UNCHANGED <<live, selected, runs, solutions, issued>>
      BY <1>1 DEF tables, scenarioVars, runVars
    <2>2. CandidatesExpired'
      BY <1>1, <2>1 DEF RunInv, CandidatesExpired, RunsIssued, Unfinished, PastRecoveryDeadline
    <2> QED
      BY <2>1, <2>2 DEF RunInv, ResultsHaveAuthority, RunsIssued, OutcomeKept, OwnerKeepsRun
  <1>2. CASE BeginRecovery(p)
    <2>1. UNCHANGED tables
      BY <1>2 DEF BeginRecovery
    <2>2. \A o \in StoreInstance, q \in RunId :
             Candidate(o, q)' => Candidate(o, q) \/ (Unfinished(q) /\ PastRecoveryDeadline(q))
      BY <1>0, <1>2 DEF BeginRecovery, Candidate
    <2> QED
      BY <1>1, <2>1, <2>2
  <1>3. ASSUME NEW r \in RunId, CheckCandidate(p, r)
        PROVE  RunInv' /\ OutcomeKept /\ OwnerKeepsRun
    <2>1. UNCHANGED tables
      BY <1>3 DEF CheckCandidate
    <2>2. /\ recovery'[p].pending = recovery[p].pending \ {r}
          /\ recovery'[p].checked \in {r, Idle} /\ r \in recovery[p].pending
          /\ \A o \in StoreInstance \ {p} : recovery'[o] = recovery[o]
      BY <1>0, <1>3 DEF CheckCandidate
    <2>3. \A o \in StoreInstance, q \in RunId : Candidate(o, q)' => Candidate(o, q)
      BY <2>2 DEF Candidate
    <2> QED
      BY <1>1, <2>1, <2>3
  <1>4. CASE InterruptCandidate(p)
    <2> DEFINE r == recovery[p].checked
    <2>1. PICK run : RunWritten(r, run)
      BY <1>4, WrittenByRecovery
    <2>2. /\ recovery'[p].pending = recovery[p].pending /\ recovery'[p].checked = Idle
          /\ \A o \in StoreInstance \ {p} : recovery'[o] = recovery[o]
      BY <1>0, <1>4 DEF InterruptCandidate
    <2>3. \A o \in StoreInstance, q \in RunId : Candidate(o, q)' => Candidate(o, q)
      BY <2>2 DEF Candidate
    <2>4. r \in RunId
      BY <1>4, WrittenByRecovery
    <2>5. RunInv' /\ OutcomeKept
      BY <2>1, <2>3, <2>4, WrittenKeepsInv
    <2>6. runs[r].time = "expired"
      BY <1>4, <2>4 DEF InterruptCandidate, RunInv, CandidatesExpired, Candidate
    <2>7. \A q \in RunId \ {r} : runs'[q] = runs[q]
      BY <2>1 DEF RunWritten, TypeOK
    <2> QED
      BY <2>5, <2>6, <2>7 DEF OwnerKeepsRun, BeforeCutoff
  <1>5. CASE LoseCandidate(p)
    <2>1. UNCHANGED tables
      BY <1>5 DEF LoseCandidate
    <2>2. \A o \in StoreInstance, q \in RunId : Candidate(o, q)' => Candidate(o, q)
      BY <1>0, <1>5 DEF LoseCandidate, NotRecovering, Candidate
    <2> QED
      BY <1>1, <2>1, <2>2
  <1>6. CASE EndRecovery(p)
    <2>1. UNCHANGED tables
      BY <1>6 DEF EndRecovery
    <2>2. \A o \in StoreInstance, q \in RunId : Candidate(o, q)' => Candidate(o, q)
      BY <1>0, <1>6 DEF EndRecovery, NotRecovering, Candidate
    <2> QED
      BY <1>1, <2>1, <2>2
  <1> QED
    BY <1>2, <1>3, <1>4, <1>5, <1>6 DEF RecoveryStep

LEMMA RunStep ==
    ASSUME TypeOK, RunInv, [Next]_vars
    PROVE  RunInv' /\ [OutcomeKept]_vars /\ [OwnerKeepsRun]_vars
  <1>1. CASE HistoryNext /\ UNCHANGED recovery
    BY <1>1, RunHistoryNext
  <1>2. CASE RunNext
    BY <1>2, RunRunNext
  <1>3. CASE \E p \in StoreInstance : RecoveryStep(p)
    BY <1>3, RunRecovery
  <1>4. CASE UNCHANGED vars
    <2>1. UNCHANGED <<runs, solutions, issued, selected, recovery, live>>
      BY <1>4 DEF vars, tables, scenarioVars, runVars
    <2> QED
      BY <1>4, <2>1, RunFrame
  <1> QED
    BY <1>1, <1>2, <1>3, <1>4 DEF Next

(***************************************************************************)
(* Exactly the accepted runs have a solution, nothing but an accepted      *)
(* result of its own is selected for a scenario, and no run outlives its   *)
(* scenario, through deletion, import and recovery.                        *)
(***************************************************************************)
THEOREM ResultsKeepAuthority == Spec => []ResultsHaveAuthority
  <1>1. TypeOK /\ RunInv /\ [Next]_vars => TypeOK' /\ RunInv'
    BY TypeNext, RunStep
  <1>2. RunInv => ResultsHaveAuthority
    BY DEF RunInv
  <1> QED
    BY <1>1, <1>2, TypeInit, RunInit, PTL DEF Spec

(***************************************************************************)
(* The outcome of a run never changes, although its owner and the recovery *)
(* passes of any number of store instances may all try to finish it.       *)
(***************************************************************************)
THEOREM RunsEndOnce == Spec => TerminalOnce
  <1>1. TypeOK /\ RunInv /\ [Next]_vars => TypeOK' /\ RunInv' /\ [OutcomeKept]_vars
    BY TypeNext, RunStep
  <1> QED
    BY <1>1, TypeInit, RunInit, PTL DEF Spec, TerminalOnce

(***************************************************************************)
(* Recovery takes no run from an owner that could still finalize it as     *)
(* accepted, although it reads its candidates before it writes them.       *)
(***************************************************************************)
THEOREM RecoveryWaits == Spec => RecoveryNeverPreempts
  <1>1. TypeOK /\ RunInv /\ [Next]_vars => TypeOK' /\ RunInv' /\ [OwnerKeepsRun]_vars
    BY TypeNext, RunStep
  <1> QED
    BY <1>1, TypeInit, RunInit, PTL DEF Spec, RecoveryNeverPreempts

-----------------------------------------------------------------------------
(***************************************************************************)
(* Retention.  The sources are the rows that runs and results need, with   *)
(* the content they were computed from.  RevisionsAvailable, SourcesExact  *)
(* and RetentionMinimal speak of names only and are not inductive: that a  *)
(* retained row, a current row and a source of the same name are one row   *)
(* follows from the agreement of all rows of a name, and that a new        *)
(* current row cannot be taken for a retained one from the marks.          *)
(***************************************************************************)
Needed(rs, sols, r) ==
    rs[r] # NoRun /\ (r \in sols \/ rs[r].status = "running" \/ rs[r].evidence)

SourceRow(run) == Row(run.scenario, run.revision, run.document)

SourcesOf(rs, sols, res) ==
    res \cup {SourceRow(rs[r]) : r \in {q \in RunId : Needed(rs, sols, q)}}

Sources == SourcesOf(runs, solutions, results)

RetentionInv ==
    /\ retained \subseteq Sources
    /\ Sources \subseteq retained \cup CurrentRows(live)
    /\ Coherent(retained \cup CurrentRows(live))
    /\ \A row \in retained : row.revision <= highWater[row.scenario]

NamesOf(rows) == {Named(row) : row \in rows}

LEMMA DependenciesNamed ==
    ASSUME NEW rs, NEW sols, NEW res
    PROVE  Dependencies(rs, sols, res) = NamesOf(SourcesOf(rs, sols, res))
  <1>1. \A run : Named(SourceRow(run)) = RunReference(run)
    BY DEF Named, SourceRow, RunReference, Row, Reference
  <1>2. \A dep : dep \in Dependencies(rs, sols, res) =>
                    dep \in NamesOf(SourcesOf(rs, sols, res))
    BY <1>1 DEF Dependencies, NamesOf, SourcesOf, Needed
  <1>3. \A dep : dep \in NamesOf(SourcesOf(rs, sols, res)) =>
                    dep \in Dependencies(rs, sols, res)
    BY <1>1 DEF Dependencies, NamesOf, SourcesOf, Needed
  <1> QED
    BY <1>2, <1>3

\* Synchronization keeps exactly the sources, as far as they are not current.
LEMMA SynchronizedExact ==
    ASSUME NEW rows, NEW current, NEW S,
           S \subseteq rows \cup current, Coherent(rows \cup current)
    PROVE  /\ Synchronized(rows, NamesOf(S), current) \subseteq S
           /\ S \subseteq Synchronized(rows, NamesOf(S), current) \cup current
           /\ Synchronized(rows, NamesOf(S), current) \subseteq rows \cup current
  <1>1. \A row \in rows \cup current : Named(row) \in NamesOf(S) => row \in S
    BY DEF NamesOf, Coherent
  <1>2. \A row \in S : Named(row) \in NamesOf(S)
    BY DEF NamesOf
  <1> QED
    BY <1>1, <1>2 DEF Synchronized

\* Rows have the same name if they are the same revision of a scenario.
LEMMA NameEquality ==
    ASSUME NEW a, NEW b
    PROVE  Named(a) = Named(b) <=> a.scenario = b.scenario /\ a.revision = b.revision
  BY DEF Named, Reference

LEMMA CoherentPart ==
    ASSUME NEW S, NEW T, T \subseteq S, Coherent(S)
    PROVE  Coherent(T)
  BY DEF Coherent

LEMMA RetentionInit == Init => RetentionInv
  <1> SUFFICES ASSUME Init PROVE RetentionInv
    OBVIOUS
  <1>1. retained = {} /\ Sources = {} /\ CurrentRows(live) = {}
    BY DEF Init, Sources, SourcesOf, Needed, CurrentRows
  <1> QED
    BY <1>1 DEF RetentionInv, Coherent

\* What the invariant says in the terms of the properties.
LEMMA RetentionProperties ==
    ASSUME RetentionInv
    PROVE  RevisionsAvailable /\ SourcesExact /\ RetentionMinimal
  <1>1. Dependencies(runs, solutions, results) = NamesOf(Sources)
    BY DependenciesNamed DEF Sources
  <1>2. RevisionsAvailable
    BY <1>1 DEF RevisionsAvailable, Available, NamesOf, RetentionInv
  <1>3. RetentionMinimal
    BY <1>1 DEF RetentionMinimal, NamesOf, RetentionInv
  <1>4. SourcesExact
    <2>1. \A row \in retained \cup CurrentRows(live), x \in Sources :
             Named(row) = Named(x) => row = x
      BY DEF RetentionInv, Coherent
    <2>2. \A r \in RunId : Needed(runs, solutions, r) => SourceRow(runs[r]) \in Sources
      BY DEF Sources, SourcesOf
    <2>3. \A r \in RunId : /\ Named(SourceRow(runs[r])) = RunReference(runs[r])
                           /\ SourceRow(runs[r]).document = runs[r].document
      BY DEF Named, SourceRow, RunReference, Row, Reference
    <2>4. results \subseteq Sources
      BY DEF Sources, SourcesOf
    <2>5. \A row \in retained \cup CurrentRows(live), r \in RunId :
             Needed(runs, solutions, r) /\ Named(row) = RunReference(runs[r]) =>
                 row.document = runs[r].document
      BY <2>1, <2>2, <2>3
    <2> QED
      BY <2>1, <2>4, <2>5 DEF SourcesExact, Needed
  <1> QED
    BY <1>2, <1>3, <1>4

\* Rows that exist are at or below the mark of their scenario.
LEMMA RowsBelow ==
    ASSUME TypeOK, RevisionInv, RetentionInv, NEW row \in retained \cup CurrentRows(live)
    PROVE  row \in Rows /\ row.scenario \in ScenarioId /\ row.revision \in Nat
           /\ row.revision <= highWater[row.scenario]
  <1>1. row \in Rows
    BY CurrentRowsType DEF TypeOK
  <1>2. row.scenario \in ScenarioId /\ row.revision \in Nat
    BY <1>1 DEF Rows
  <1>3. row.revision <= highWater[row.scenario]
    BY DEF RetentionInv, RevisionInv, CurrentIsMark, CurrentRows, CurrentRow, Row, TypeOK
  <1> QED
    BY <1>1, <1>2, <1>3

LEMMA OwnRow ==
    ASSUME NEW t, NEW ids
    PROVE  /\ CurrentRow(t).scenario = t /\ CurrentRow(t).revision = revision[t]
           /\ \A row \in CurrentRows(ids) : row.scenario \in ids
           /\ \A row \in CurrentRows(ids) : row.scenario = t => row = CurrentRow(t)
           /\ t \in ids => CurrentRow(t) \in CurrentRows(ids)
  BY DEF CurrentRow, CurrentRows, Row

\* The current row of s is retained exactly if it is a source.
LEMMA RetainedIfSource ==
    ASSUME RetentionInv, NEW s \in live
    PROVE  MustRetain(s) <=> CurrentRow(s) \in Sources
  <1>1. Reference(s, revision[s]) = Named(CurrentRow(s))
    BY DEF Reference, Named, CurrentRow, Row
  <1>2. MustRetain(s) <=> Named(CurrentRow(s)) \in NamesOf(Sources)
    BY <1>1, DependenciesNamed DEF MustRetain, Sources
  <1>3. CurrentRow(s) \in CurrentRows(live)
    BY OwnRow
  <1> QED
    BY <1>2, <1>3 DEF NamesOf, RetentionInv, Coherent

\* What remains when the revision of s is left for a new one.
Left(s) == IF s \in live THEN RetainCurrent(s) ELSE retained

LEMMA LeftForNew ==
    ASSUME TypeOK, RevisionInv, RetentionInv, NEW s \in ScenarioId, NEW r \in Nat,
           highWater[s] < r, NEW doc
    PROVE  /\ Left(s) \subseteq Sources
           /\ Left(s) \subseteq retained \cup CurrentRows(live)
           /\ Sources \subseteq Left(s) \cup CurrentRows(live \ {s})
           /\ Coherent(Left(s) \cup CurrentRows(live \ {s}) \cup {Row(s, r, doc)})
           /\ \A row \in Left(s) : row.scenario = s => row.revision < r
           /\ \A row \in Left(s) : row \in Rows /\ row.revision <= highWater[row.scenario]
  <1>1. Left(s) \subseteq Sources /\ Left(s) \subseteq retained \cup CurrentRows(live)
    BY RetainedIfSource, OwnRow DEF Left, RetainCurrent, RetentionInv
  <1>2. CurrentRows(live \ {s}) \subseteq CurrentRows(live)
    BY DEF CurrentRows
  <1>3. Sources \subseteq Left(s) \cup CurrentRows(live \ {s})
    <2> SUFFICES ASSUME NEW x \in Sources PROVE x \in Left(s) \cup CurrentRows(live \ {s})
      OBVIOUS
    <2>1. CASE x \in retained
      BY <2>1 DEF Left, RetainCurrent
    <2>2. CASE x \in CurrentRows(live) /\ x.scenario # s
      BY <2>2 DEF CurrentRows, CurrentRow, Row
    <2>3. CASE x \in CurrentRows(live) /\ x.scenario = s
      <3>1. x = CurrentRow(s) /\ s \in live
        BY <2>3, OwnRow
      <3> QED
        BY <3>1, RetainedIfSource DEF Left, RetainCurrent
    <2> QED
      BY <2>1, <2>2, <2>3 DEF RetentionInv
  <1>4. \A row \in Left(s) \cup CurrentRows(live \ {s}) :
           /\ row \in Rows /\ row.scenario \in ScenarioId /\ row.revision \in Nat
           /\ row.revision <= highWater[row.scenario]
    BY <1>1, <1>2, RowsBelow
  <1>5. \A row \in Left(s) \cup CurrentRows(live \ {s}) : row.scenario = s => row.revision < r
    BY <1>4 DEF TypeOK, Unseen
  <1>6. Row(s, r, doc).scenario = s /\ Row(s, r, doc).revision = r
    BY DEF Row
  <1>7. Coherent(Left(s) \cup CurrentRows(live \ {s}))
    BY <1>1, <1>2, CoherentPart DEF RetentionInv
  <1>8. \A row \in Left(s) \cup CurrentRows(live \ {s}) : Named(row) # Named(Row(s, r, doc))
    <2>1. \A row \in Left(s) \cup CurrentRows(live \ {s}) : row.scenario = s => row.revision # r
      <3> SUFFICES ASSUME NEW row \in Left(s) \cup CurrentRows(live \ {s}), row.scenario = s
                   PROVE  row.revision # r
        OBVIOUS
      <3>1. row.revision \in Nat /\ row.revision < r
        BY <1>4, <1>5
      <3> QED
        BY <3>1
    <2> QED
      BY <1>6, <2>1, NameEquality
  <1>9. Coherent(Left(s) \cup CurrentRows(live \ {s}) \cup {Row(s, r, doc)})
    BY <1>7, <1>8 DEF Coherent
  <1> QED
    BY <1>1, <1>3, <1>4, <1>5, <1>9

LEMMA CurrentPlaced ==
    ASSUME TypeOK, NEW s \in ScenarioId, NEW r, NEW doc,
           live' = live \cup {s},
           revision' = [revision EXCEPT ![s] = r],
           document' = [document EXCEPT ![s] = doc]
    PROVE  CurrentRows(live)' = CurrentRows(live \ {s}) \cup {Row(s, r, doc)}
  <1>1. CurrentRow(s)' = Row(s, r, doc)
    BY DEF CurrentRow, Row, TypeOK
  <1>2. \A t \in live \ {s} : CurrentRow(t)' = CurrentRow(t)
    BY DEF CurrentRow, Row, TypeOK
  <1>3. CurrentRows(live)' = {CurrentRow(t)' : t \in live \cup {s}}
    BY DEF CurrentRows
  <1>4. {CurrentRow(t)' : t \in live \cup {s}} = {CurrentRow(t)' : t \in live \ {s}} \cup {CurrentRow(s)'}
    OBVIOUS
  <1>5. {CurrentRow(t)' : t \in live \ {s}} = CurrentRows(live \ {s})
    BY <1>2 DEF CurrentRows
  <1> QED
    BY <1>1, <1>3, <1>4, <1>5

\* Steps that write neither scenarios nor what depends on them.
LEMMA RetentionFrame ==
    ASSUME RetentionInv,
           UNCHANGED <<live, revision, document, highWater, retained, runs, solutions, results>>
    PROVE  RetentionInv'
  <1>1. Sources' = Sources
    BY DEF Sources, SourcesOf, Needed
  <1>2. CurrentRows(live)' = CurrentRows(live)
    BY DEF CurrentRows, CurrentRow
  <1> QED
    BY <1>1, <1>2 DEF RetentionInv

\* A scenario moves on, or comes into being, and nothing else needs its rows.
LEMMA RetentionPlaced ==
    ASSUME TypeOK, RevisionInv, RetentionInv, NEW s \in ScenarioId, NEW r \in Nat,
           highWater[s] < r, NEW doc,
           live' = live \cup {s},
           revision' = [revision EXCEPT ![s] = r],
           document' = [document EXCEPT ![s] = doc],
           highWater' = [highWater EXCEPT ![s] = r],
           retained' = Left(s),
           UNCHANGED <<runs, solutions, results>>
    PROVE  RetentionInv'
  <1>1. Sources' = Sources
    BY DEF Sources, SourcesOf, Needed
  <1>2. CurrentRows(live)' = CurrentRows(live \ {s}) \cup {Row(s, r, doc)}
    BY CurrentPlaced
  <1>3. \A row \in Left(s) : row.revision <= highWater'[row.scenario]
    <2>1. \A row \in Left(s) :
             /\ row.scenario \in ScenarioId /\ row.revision \in Nat
             /\ row.revision <= highWater[row.scenario]
             /\ row.scenario = s => row.revision < r
      BY LeftForNew DEF Rows
    <2> QED
      BY <2>1 DEF TypeOK
  <1>4. Coherent(retained' \cup CurrentRows(live)')
    <2>1. retained' \cup CurrentRows(live)' = Left(s) \cup CurrentRows(live \ {s}) \cup {Row(s, r, doc)}
      BY <1>2
    <2> QED
      BY <2>1, LeftForNew
  <1>5. retained' \subseteq Sources' /\ Sources' \subseteq retained' \cup CurrentRows(live)'
    BY <1>1, <1>2, LeftForNew
  <1> QED
    BY <1>3, <1>4, <1>5 DEF RetentionInv

LEMMA RetentionInsert ==
    ASSUME TypeOK, RevisionInv, RetentionInv, NEW s \in ScenarioId, NEW r \in Nat,
           highWater[s] < r, NEW doc, InsertProject(s, r, doc), s \notin live,
           UNCHANGED <<retained, runVars>>
    PROVE  RetentionInv'
  <1>1. Raised(highWater[s], r) = r
    BY RaisedAbove DEF TypeOK
  <1> QED
    BY <1>1, RetentionPlaced DEF InsertProject, Left, runVars

LEMMA RetentionWrite ==
    ASSUME TypeOK, RevisionInv, RetentionInv, NEW s \in ScenarioId, s \in live, NEW doc,
           WriteRevision(s, doc), UNCHANGED <<live, runVars>>
    PROVE  RetentionInv'
  <1>1. revision[s] + 1 \in Nat /\ highWater[s] < revision[s] + 1
    BY DEF TypeOK, RevisionInv, CurrentIsMark
  <1>2. Raised(highWater[s], revision[s] + 1) = revision[s] + 1
    BY <1>1, RaisedAbove DEF TypeOK
  <1>3. /\ revision' = [revision EXCEPT ![s] = revision[s] + 1]
        /\ document' = [document EXCEPT ![s] = doc]
        /\ highWater' = [highWater EXCEPT ![s] = revision[s] + 1]
        /\ retained' = Left(s)
        /\ live' = live \cup {s}
        /\ UNCHANGED <<runs, solutions, results>>
    BY <1>2 DEF WriteRevision, Left, runVars
  <1> QED
    BY <1>1, <1>3, RetentionPlaced

\* Both ways to import a scenario, from the rows they start with.
LEMMA RetentionImport ==
    ASSUME TypeOK, RevisionInv, RetentionInv, NEW s \in ScenarioId, NEW source \in Nat,
           NEW doc \in Documents, NEW withResult \in BOOLEAN,
           NEW r, r = TargetRevision(s, source),
           Coherent(Left(s) \cup StagedRows(s, source, doc, withResult)),
           live' = live \cup {s},
           revision' = [revision EXCEPT ![s] = r],
           document' = [document EXCEPT ![s] = doc],
           highWater' = [highWater EXCEPT ![s] = r],
           results' = results \cup StagedResult(s, source, doc, withResult),
           retained' = Synchronized(Left(s) \cup StagedRows(s, source, doc, withResult),
                                    Dependencies(runs, solutions, results'),
                                    CurrentRows(live \ {s}) \cup {Row(s, r, doc)}),
           UNCHANGED <<runs, solutions>>
    PROVE  RetentionInv'
  <1> DEFINE staged == StagedRows(s, source, doc, withResult)
             rows == Left(s) \cup staged
             current == CurrentRows(live \ {s}) \cup {Row(s, r, doc)}
  <1>1. r \in Nat /\ highWater[s] < r /\ source <= r
    BY TargetAbove DEF TargetRevision, TypeOK, Unseen
  <1>2. CurrentRows(live)' = current
    BY CurrentPlaced
  <1>3. Sources' = Sources \cup StagedResult(s, source, doc, withResult)
    BY DEF Sources, SourcesOf, Needed
  <1>4. /\ \A row \in staged : row.scenario = s /\ row.revision <= r
        /\ Row(s, r, doc) \in staged
        /\ StagedResult(s, source, doc, withResult) \subseteq staged
    BY <1>1 DEF StagedRows, StagedResult, Row
  <1>5. Coherent(rows \cup current)
    <2> SUFFICES ASSUME NEW a \in rows \cup current, NEW b \in rows \cup current,
                        Named(a) = Named(b)
                 PROVE  a = b
      BY DEF Coherent
    <2>1. CASE a \in rows /\ b \in rows
      BY <2>1 DEF Coherent
    <2>2. CASE a \in Left(s) \cup current /\ b \in Left(s) \cup current
      BY <1>1, <2>2, LeftForNew DEF Coherent
    <2>3. \A row \in current : row \in rows \/ row.scenario # s
      BY <1>4, OwnRow
    <2> QED
      BY <2>1, <2>2, <2>3, <1>4, NameEquality
  <1>6. Sources' \subseteq rows \cup current
    BY <1>1, <1>3, <1>4, LeftForNew
  <1>7. Dependencies(runs, solutions, results') = NamesOf(Sources')
    BY DependenciesNamed DEF Sources
  <1>8. /\ retained' \subseteq Sources'
        /\ Sources' \subseteq retained' \cup current
        /\ retained' \subseteq rows \cup current
    <2>1. retained' = Synchronized(rows, NamesOf(Sources'), current)
      BY <1>7
    <2> DEFINE S == Sources'
    <2> HIDE DEF S, rows, current
    <2>a. S \subseteq rows \cup current
      BY <1>6 DEF S
    <2>2. /\ Synchronized(rows, NamesOf(S), current) \subseteq S
          /\ S \subseteq Synchronized(rows, NamesOf(S), current) \cup current
          /\ Synchronized(rows, NamesOf(S), current) \subseteq rows \cup current
      BY <1>5, <2>a, SynchronizedExact
    <2> QED
      BY <2>1, <2>2 DEF S
  <1>9. \A row \in retained' : row.revision <= highWater'[row.scenario]
    <2>1. \A row \in Left(s) \cup CurrentRows(live \ {s}) :
             /\ row.scenario \in ScenarioId /\ row.revision \in Nat
             /\ row.revision <= highWater[row.scenario]
      <3>1. CurrentRows(live \ {s}) \subseteq CurrentRows(live)
        BY DEF CurrentRows
      <3> QED
        BY <1>1, <3>1, LeftForNew, RowsBelow
    <2>2. \A row \in Left(s) \cup CurrentRows(live \ {s}) : row.revision <= highWater'[row.scenario]
      <3> SUFFICES ASSUME NEW row \in Left(s) \cup CurrentRows(live \ {s})
                   PROVE  row.revision <= highWater'[row.scenario]
        OBVIOUS
      <3> DEFINE t == row.scenario
                 mark == highWater[t]
                 n == row.revision
      <3>1. t \in ScenarioId /\ n \in Nat /\ n <= mark
        BY <2>1
      <3>2. mark \in Int
        BY <3>1 DEF TypeOK, Unseen
      <3>3. highWater'[t] = IF t = s THEN r ELSE mark
        BY <3>1 DEF TypeOK
      <3> HIDE DEF n
      <3> QED
        BY <1>1, <3>1, <3>2, <3>3 DEF n
    <2>3. \A row \in staged : row.revision <= highWater'[row.scenario]
      BY <1>4 DEF TypeOK
    <2>4. rows \cup current \subseteq Left(s) \cup CurrentRows(live \ {s}) \cup staged
      BY <1>4
    <2> QED
      BY <1>8, <2>2, <2>3, <2>4
  <1> HIDE DEF rows, current
  <1>10. Coherent(retained' \cup current)
    <2>1. retained' \cup current \subseteq rows \cup current
      BY <1>8
    <2> QED
      BY <1>5, <2>1, CoherentPart
  <1> QED
    BY <1>2, <1>8, <1>9, <1>10 DEF RetentionInv

LEMMA RetentionReplaceLibrary ==
    ASSUME TypeOK, NEW c \in Client, NEW s \in ScenarioId, NEW source \in Nat,
           NEW doc \in Documents, NEW withResult \in BOOLEAN,
           ReplaceLibrary(c, s, source, doc, withResult)
    PROVE  RetentionInv'
  <1> DEFINE r == TargetRevision(s, source)
             staged == StagedResult(s, source, doc, withResult)
  <1>1. r \in Nat /\ highWater[s] < r /\ source <= r
    BY TargetAbove DEF TargetRevision, TypeOK, Unseen
  <1>2. /\ live' = {s} /\ revision'[s] = r /\ document'[s] = doc
        /\ runs' = [q \in RunId |-> NoRun] /\ results' = staged /\ retained' = staged
        /\ highWater' = MarksAfterReplace(s, r)
    BY DEF ReplaceLibrary
  <1>3. Sources' = staged
    BY <1>2 DEF Sources, SourcesOf, Needed
  <1>4. CurrentRows(live)' = {Row(s, r, doc)}
    BY <1>2 DEF CurrentRows, CurrentRow
  <1>5. \A row \in staged : row = Row(s, source, doc)
    BY DEF StagedResult
  <1>6. highWater'[s] \in Nat /\ r <= highWater'[s]
    <2>1. Raised(highWater[s], IF s \in live THEN revision[s] ELSE Unseen) \in Nat \cup {Unseen}
      BY DEF TypeOK, Raised, Unseen
    <2>2. highWater'[s] = Raised(Raised(highWater[s], IF s \in live THEN revision[s] ELSE Unseen), r)
      BY <1>2 DEF MarksAfterReplace
    <2> QED
      BY <1>1, <2>1, <2>2, RaisedType
  <1>7. \A row \in staged : row.revision <= highWater'[row.scenario]
    BY <1>1, <1>5, <1>6 DEF Row
  <1>8. Coherent(staged \cup {Row(s, r, doc)})
    BY <1>5 DEF Coherent, Named, Reference, Row
  <1> QED
    BY <1>2, <1>3, <1>4, <1>7, <1>8 DEF RetentionInv

LEMMA RetentionDelete ==
    ASSUME TypeOK, RevisionInv, RetentionInv, NEW c \in Client, DeleteProject(c)
    PROVE  RetentionInv'
  <1> DEFINE s == view[c].scenario
             rows == {row \in retained : row.scenario # s}
             current == CurrentRows(live \ {s})
  <1>1. /\ s \in ScenarioId /\ s \in live /\ live' = live \ {s}
        /\ runs' = CascadeRuns(s)
        /\ solutions' = {r \in solutions : CascadeRuns(s)[r] # NoRun}
        /\ results' = {ref \in results : ref.scenario # s}
        /\ retained' = Synchronized(rows, Dependencies(runs', solutions', results'), current)
        /\ revision' = [revision EXCEPT ![s] = 0]
        /\ document' = [document EXCEPT ![s] = NewDocument(Blank, CreatedAt)]
        /\ highWater' = [highWater EXCEPT ![s] = Raised(highWater[s], revision[s])]
    BY ViewType DEF DeleteProject, Fresh
  <1> HIDE DEF s
  <1>2. highWater' = highWater
    BY <1>1 DEF TypeOK, RevisionInv, CurrentIsMark, Raised
  <1>3. CurrentRows(live)' = current
    <2>1. \A t \in live \ {s} : CurrentRow(t)' = CurrentRow(t)
      BY <1>1 DEF CurrentRow, Row, TypeOK
    <2>2. CurrentRows(live)' = {CurrentRow(t)' : t \in live \ {s}}
      BY <1>1 DEF CurrentRows
    <2> QED
      BY <2>1, <2>2 DEF CurrentRows
  <1>4. Sources' \subseteq {row \in Sources : row.scenario # s}
    <2>1. \A r \in RunId : runs'[r] # NoRun => runs'[r] = runs[r] /\ runs[r].scenario # s
      BY <1>1 DEF CascadeRuns
    <2>2. \A r \in RunId : Needed(runs', solutions', r) =>
             /\ Needed(runs, solutions, r) /\ SourceRow(runs'[r]) = SourceRow(runs[r])
             /\ SourceRow(runs[r]).scenario # s
      BY <1>1, <2>1 DEF Needed, SourceRow, Row
    <2>3. Sources' = results' \cup {SourceRow(runs'[r]) : r \in {q \in RunId : Needed(runs', solutions', q)}}
      BY DEF Sources, SourcesOf, Needed, SourceRow, Row
    <2> QED
      BY <1>1, <2>2, <2>3 DEF Sources, SourcesOf
  <1>5. Sources' \subseteq rows \cup current
    <2>1. \A row \in CurrentRows(live) : row.scenario # s => row \in current
      BY DEF CurrentRows, CurrentRow, Row
    <2> QED
      BY <1>4, <2>1 DEF RetentionInv
  <1>6. rows \cup current \subseteq retained \cup CurrentRows(live)
    BY DEF CurrentRows
  <1>7. Coherent(rows \cup current)
    BY <1>6, CoherentPart DEF RetentionInv
  <1>8. Dependencies(runs', solutions', results') = NamesOf(Sources')
    BY DependenciesNamed DEF Sources
  <1>9. /\ retained' \subseteq Sources'
        /\ Sources' \subseteq retained' \cup current
        /\ retained' \subseteq rows \cup current
    BY <1>1, <1>5, <1>7, <1>8, SynchronizedExact
  <1>10. Coherent(retained' \cup current)
    BY <1>7, <1>9, CoherentPart
  <1>11. \A row \in retained' : row.revision <= highWater'[row.scenario]
    BY <1>2, <1>6, <1>9, RowsBelow
  <1> QED
    BY <1>3, <1>9, <1>10, <1>11 DEF RetentionInv

LEMMA RetentionHistoryNext ==
    ASSUME TypeOK, RevisionInv, RetentionInv, HistoryNext
    PROVE  RetentionInv'
  <1> USE DEF scenarioVars, runVars
  <1>1. ASSUME NEW c \in Client, NEW s \in ScenarioId, CaptureScenarioCustody(c, s)
        PROVE  RetentionInv'
    BY <1>1, RetentionFrame DEF CaptureScenarioCustody
  <1>2. ASSUME NEW s \in ScenarioId, NEW doc, UnseenId(s), InsertProject(s, 0, doc),
               UNCHANGED <<retained, runVars>>
        PROVE  RetentionInv'
    <2>1. highWater[s] < 0 /\ s \notin live
      BY <1>2 DEF UnseenId, TypeOK, RevisionInv, CurrentIsMark, Unseen
    <2> QED
      BY <1>2, <2>1, RetentionInsert
  <1>3. ASSUME NEW c \in Client, NEW s \in ScenarioId, DuplicateProject(c, s)
        PROVE  RetentionInv'
    BY <1>2, <1>3 DEF DuplicateProject
  <1>4. ASSUME NEW c \in Client, NEW s \in ScenarioId, Import(c, s)
        PROVE  RetentionInv'
    <2>1. PICK source \in ImportRevision, data \in Data, withResult \in BOOLEAN :
             \E updated \in ImportStamp(source) :
                \/ ImportReplace(c, s, source, NewDocument(data, updated), withResult)
                \/ ImportCreate(c, s, source, NewDocument(data, updated), withResult)
                \/ ReplaceLibrary(c, s, source, NewDocument(data, updated), withResult)
      BY <1>4 DEF Import
    <2>2. PICK updated \in ImportStamp(source) :
                \/ ImportReplace(c, s, source, NewDocument(data, updated), withResult)
                \/ ImportCreate(c, s, source, NewDocument(data, updated), withResult)
                \/ ReplaceLibrary(c, s, source, NewDocument(data, updated), withResult)
      BY <2>1
    <2> DEFINE doc == NewDocument(data, updated)
               r == TargetRevision(s, source)
    <2>3. source \in Nat /\ doc \in Documents
      BY TableAssumption DEF NewDocument, Documents, ImportStamp, CreatedAt
    <2>4. Raised(highWater[s], r) = r
      BY <2>3, TargetAbove, RaisedAbove DEF TypeOK
    <2> HIDE DEF doc
    <2>5. CASE ImportReplace(c, s, source, doc, withResult)
      <3>1. /\ s \in live /\ live' = live \cup {s} /\ Left(s) = RetainCurrent(s)
            /\ Coherent(Left(s) \cup StagedRows(s, source, doc, withResult))
            /\ revision' = [revision EXCEPT ![s] = r]
            /\ document' = [document EXCEPT ![s] = doc]
            /\ highWater' = [highWater EXCEPT ![s] = r]
            /\ results' = results \cup StagedResult(s, source, doc, withResult)
            /\ retained' = Synchronized(Left(s) \cup StagedRows(s, source, doc, withResult),
                                        Dependencies(runs, solutions, results'),
                                        CurrentRows(live \ {s}) \cup {Row(s, r, doc)})
            /\ UNCHANGED <<runs, solutions>>
        BY <2>4, <2>5 DEF ImportReplace, Left
      <3> QED
        BY <2>3, <3>1, RetentionImport
    <2>6. CASE ImportCreate(c, s, source, doc, withResult)
      <3>1. /\ s \notin live /\ live' = live \cup {s} /\ Left(s) = retained /\ live \ {s} = live
            /\ Coherent(Left(s) \cup StagedRows(s, source, doc, withResult))
            /\ revision' = [revision EXCEPT ![s] = r]
            /\ document' = [document EXCEPT ![s] = doc]
            /\ highWater' = [highWater EXCEPT ![s] = r]
            /\ results' = results \cup StagedResult(s, source, doc, withResult)
            /\ retained' = Synchronized(Left(s) \cup StagedRows(s, source, doc, withResult),
                                        Dependencies(runs, solutions, results'),
                                        CurrentRows(live) \cup {Row(s, r, doc)})
            /\ UNCHANGED <<runs, solutions>>
        BY <2>4, <2>6 DEF ImportCreate, InsertProject, Left
      <3> QED
        BY <2>3, <3>1, RetentionImport
    <2>7. CASE ReplaceLibrary(c, s, source, doc, withResult)
      BY <2>3, <2>7, RetentionReplaceLibrary
    <2> QED
      BY <2>2, <2>5, <2>6, <2>7 DEF doc
  <1>5. ASSUME NEW c \in Client, LibrarySnapshot(c) \/ ArchiveProject(c)
        PROVE  RetentionInv'
    BY <1>5, RetentionFrame DEF LibrarySnapshot, ArchiveProject
  <1>6. ASSUME NEW c \in Client, DeleteProject(c)
        PROVE  RetentionInv'
    BY <1>6, RetentionDelete
  <1>7. ASSUME NEW c \in Client, Edit(c)
        PROVE  RetentionInv'
    <2>1. view[c].scenario \in ScenarioId /\ view[c].scenario \in live
      BY <1>7, ViewType DEF Edit, ExecuteCommand, Undo, Redo, CommandAuthorized, HistoryAuthorized, Fresh
    <2>2. /\ UNCHANGED <<live, runVars>>
          /\ \E doc : WriteRevision(view[c].scenario, doc)
      BY <1>7 DEF Edit, ExecuteCommand, Undo, Redo
    <2> QED
      BY <2>1, <2>2, RetentionWrite
  <1>8. ASSUME NEW s \in ScenarioId, CreateProject(s)
        PROVE  RetentionInv'
    BY <1>2, <1>8 DEF CreateProject
  <1>9. ASSUME NEW s \in ScenarioId, OpenProject(s)
        PROVE  RetentionInv'
    BY <1>9, RetentionFrame DEF OpenProject
  <1> QED
    BY <1>1, <1>3, <1>4, <1>5, <1>6, <1>7, <1>8, <1>9 DEF HistoryNext

\* A run that goes on, or is accepted, needs its revision as before; one that
\* ends otherwise may need it no longer.
LEMMA SourcesWritten ==
    ASSUME TypeOK, RunInv, NEW r \in RunId, NEW run, RunWritten(r, run)
    PROVE  /\ Sources' \subseteq Sources
           /\ run.status \in {"running", "accepted"} => Sources' = Sources
           /\ CurrentRows(live)' = CurrentRows(live)
           /\ highWater' = highWater
  <1>1. /\ runs'[r] = run /\ run # NoRun
        /\ \A q \in RunId \ {r} : runs'[q] = runs[q]
        /\ \A q \in RunId \ {r} : q \in solutions' <=> q \in solutions
        /\ results' = results
        /\ UNCHANGED <<live, revision, document, highWater>>
    BY RunAssumption DEF RunWritten, TypeOK, scenarioVars
  <1>2. Needed(runs, solutions, r) /\ SourceRow(run) = SourceRow(runs[r])
    BY DEF RunWritten, Unfinished, Needed, SourceRow
  <1>3. \A q \in RunId \ {r} : /\ Needed(runs', solutions', q) <=> Needed(runs, solutions, q)
                               /\ SourceRow(runs'[q]) = SourceRow(runs[q])
    BY <1>1 DEF Needed
  <1>4. Sources' = results' \cup
             {SourceRow(runs'[q]) : q \in {o \in RunId : Needed(runs', solutions', o)}}
    BY DEF Sources, SourcesOf, Needed, SourceRow, Row
  <1>5. Sources = results \cup {SourceRow(runs[q]) : q \in {o \in RunId : Needed(runs, solutions, o)}}
    BY DEF Sources, SourcesOf
  <1>6. run.status \in {"running", "accepted"} => Needed(runs', solutions', r)
    BY <1>1 DEF RunWritten, Needed
  <1>7. Sources' \subseteq Sources
    BY <1>1, <1>2, <1>3, <1>4, <1>5
  <1>8. run.status \in {"running", "accepted"} => Sources \subseteq Sources'
    BY <1>1, <1>2, <1>3, <1>4, <1>5, <1>6
  <1>9. CurrentRows(live)' = CurrentRows(live) /\ highWater' = highWater
    BY <1>1 DEF CurrentRows, CurrentRow
  <1> QED
    BY <1>7, <1>8, <1>9

LEMMA RetentionReleased ==
    ASSUME TypeOK, RunInv, RevisionInv, RetentionInv, NEW r \in RunId, NEW run, RunWritten(r, run),
           ReleaseRevisions(runs'), solutions' = solutions
    PROVE  RetentionInv'
  <1> DEFINE S == Sources'
             current == CurrentRows(live)
  <1>1. S \subseteq retained \cup current /\ Coherent(retained \cup current)
    BY SourcesWritten DEF RetentionInv
  <1>2. Dependencies(runs', solutions, results) = NamesOf(S)
    BY DependenciesNamed DEF Sources, RunWritten
  <1>3. retained' = Synchronized(retained, NamesOf(S), current)
    BY <1>2 DEF ReleaseRevisions
  <1> HIDE DEF S, current
  <1>4. /\ retained' \subseteq S /\ S \subseteq retained' \cup current
        /\ retained' \subseteq retained \cup current
    BY <1>1, <1>3, SynchronizedExact
  <1>5. Coherent(retained' \cup current)
    <2>1. retained' \cup current \subseteq retained \cup current
      BY <1>4
    <2> QED
      BY <1>1, <2>1, CoherentPart
  <1>6. \A row \in retained' : row.revision <= highWater[row.scenario]
    BY <1>4, RowsBelow DEF current
  <1> QED
    BY <1>4, <1>5, <1>6, SourcesWritten DEF RetentionInv, S, current

LEMMA RetentionRunNext ==
    ASSUME TypeOK, RunInv, RevisionInv, RetentionInv, RunNext
    PROVE  RetentionInv'
  <1>1. ASSUME NEW c \in Client, NEW r \in RunId, NEW q \in RequestId, StartSolveRun(c, q, r)
        PROVE  RetentionInv'
    <2> DEFINE s == view[c].scenario
               run == [request |-> q, scenario |-> s, revision |-> revision[s],
                       document |-> document[s], status |-> "running", time |-> "solving",
                       checkpoint |-> FALSE, evidence |-> FALSE]
    <2>1. /\ s \in live /\ r \notin issued
          /\ runs' = [runs EXCEPT ![r] = run]
          /\ UNCHANGED <<live, revision, document, highWater, solutions, results, retained>>
      BY <1>1 DEF StartSolveRun, Fresh, scenarioVars
    <2>2. runs'[r] = run /\ runs[r] = NoRun /\ \A o \in RunId \ {r} : runs'[o] = runs[o]
      BY <2>1 DEF TypeOK, RunInv, RunsIssued
    <2>3. SourceRow(run) = CurrentRow(s)
      BY DEF SourceRow, CurrentRow
    <2> HIDE DEF run, s
    <2>4. Sources' = results \cup {SourceRow(runs'[o]) : o \in {p \in RunId : Needed(runs', solutions, p)}}
      BY <2>1 DEF Sources, SourcesOf, Needed, SourceRow, Row
    <2>5. \A o \in RunId \ {r} : /\ Needed(runs', solutions, o) <=> Needed(runs, solutions, o)
                                 /\ SourceRow(runs'[o]) = SourceRow(runs[o])
      BY <2>2 DEF Needed
    <2>6. ~Needed(runs, solutions, r)
      BY <2>2 DEF Needed
    <2>7. Sources \subseteq Sources' /\ Sources' \subseteq Sources \cup {CurrentRow(s)}
      BY <2>2, <2>3, <2>4, <2>5, <2>6 DEF Sources, SourcesOf
    <2>8. CurrentRows(live)' = CurrentRows(live) /\ CurrentRow(s) \in CurrentRows(live)
      BY <2>1 DEF CurrentRows, CurrentRow
    <2> QED
      BY <2>1, <2>7, <2>8 DEF RetentionInv
  <1>2. ASSUME NEW c \in Client, NEW r \in RunId, SelectAcceptedResult(c, r)
        PROVE  RetentionInv'
    BY <1>2, RetentionFrame DEF SelectAcceptedResult, runVars
  <1>3. ASSUME NEW r \in RunId, Elapse(r) \/ SaveVerifiedCheckpoint(r) \/ FinalizeAcceptedRun(r)
        PROVE  RetentionInv'
    <2>1. PICK run : RunWritten(r, run)
      BY <1>3, WrittenByOwner
    <2>2. run.status \in {"running", "accepted"}
      <3>1. run = runs'[r] /\ runs[r] \in Run /\ runs[r].status = "running"
        BY <2>1 DEF RunWritten, TypeOK, Unfinished
      <3>2. runs'[r].status \in {"running", "accepted"}
        BY <1>3, <3>1 DEF Elapse, SaveVerifiedCheckpoint, FinalizeAcceptedRun, TypeOK, Run
      <3> QED
        BY <3>1, <3>2
    <2>3. retained' = retained
      BY <1>3 DEF Elapse, SaveVerifiedCheckpoint, FinalizeAcceptedRun
    <2> QED
      BY <2>1, <2>2, <2>3, SourcesWritten DEF RetentionInv
  <1>4. ASSUME NEW r \in RunId, FinalizeQuarantinedRun(r)
        PROVE  RetentionInv'
    <2>1. PICK run : RunWritten(r, run)
      BY <1>4, WrittenByOwner
    <2> QED
      BY <1>4, <2>1, RetentionReleased DEF FinalizeQuarantinedRun
  <1>5. ASSUME NEW r \in RunId, NEW outcome \in Terminal, NEW evidence \in BOOLEAN,
               FinalizeTerminalRun(r, outcome, evidence)
        PROVE  RetentionInv'
    <2>1. PICK run : RunWritten(r, run)
      BY <1>5, WrittenByOwner
    <2> QED
      BY <1>5, <2>1, RetentionReleased DEF FinalizeTerminalRun, Terminated
  <1> QED
    BY <1>1, <1>2, <1>3, <1>4, <1>5 DEF RunNext

LEMMA RetentionRecovery ==
    ASSUME TypeOK, RunInv, RevisionInv, RetentionInv, NEW p \in StoreInstance, RecoveryStep(p)
    PROVE  RetentionInv'
  <1>1. CASE InterruptCandidate(p)
    <2>1. recovery[p].checked \in RunId
      BY <1>1, WrittenByRecovery
    <2>2. PICK run : RunWritten(recovery[p].checked, run)
      BY <1>1, WrittenByRecovery
    <2> QED
      BY <1>1, <2>1, <2>2, RetentionReleased DEF InterruptCandidate, Terminated
  <1>2. CASE UNCHANGED tables
    BY <1>2, RetentionFrame DEF tables, scenarioVars, runVars
  <1> QED
    BY <1>1, <1>2 DEF RecoveryStep, BeginRecovery, CheckCandidate, LoseCandidate, EndRecovery

\* The invariant of the whole store.
StoreInv == TypeOK /\ RevisionInv /\ RunInv /\ RetentionInv

LEMMA StoreStep == StoreInv /\ [Next]_vars => StoreInv'
  <1> SUFFICES ASSUME StoreInv, [Next]_vars PROVE StoreInv'
    OBVIOUS
  <1>1. TypeOK' /\ RevisionInv' /\ RunInv'
    BY TypeNext, RevisionNext, RunStep DEF StoreInv
  <1>2. RetentionInv'
    <2>1. CASE HistoryNext
      BY <2>1, RetentionHistoryNext DEF StoreInv
    <2>2. CASE RunNext
      BY <2>2, RetentionRunNext DEF StoreInv
    <2>3. CASE \E p \in StoreInstance : RecoveryStep(p)
      BY <2>3, RetentionRecovery DEF StoreInv
    <2>4. CASE UNCHANGED vars
      BY <2>4, RetentionFrame DEF StoreInv, vars, tables, scenarioVars, runVars
    <2> QED
      BY <2>1, <2>2, <2>3, <2>4 DEF Next
  <1> QED
    BY <1>1, <1>2 DEF StoreInv

LEMMA StoreAlways == Spec => []StoreInv
  <1>1. Init => StoreInv
    BY TypeInit, RevisionInit, RunInit, RetentionInit DEF StoreInv
  <1> QED
    BY <1>1, StoreStep, PTL DEF Spec

(***************************************************************************)
(* The revision of every unfinished run, accepted or imported result and   *)
(* infeasibility proof can be read back, however the scenario was edited,  *)
(* undone, replaced or released by other runs since.                       *)
(***************************************************************************)
THEOREM RevisionsStayAvailable == Spec => []RevisionsAvailable
  <1>1. StoreInv => RevisionsAvailable
    BY RetentionProperties DEF StoreInv
  <1> QED
    BY <1>1, StoreAlways, PTL

(***************************************************************************)
(* What is read back is the document that was solved, also where two       *)
(* libraries gave one revision to different documents and one of them was  *)
(* imported into the other.                                                *)
(***************************************************************************)
THEOREM SourcesStayExact == Spec => []SourcesExact
  <1>1. StoreInv => SourcesExact
    BY RetentionProperties DEF StoreInv
  <1> QED
    BY <1>1, StoreAlways, PTL

(***************************************************************************)
(* No revision is kept that no run and no result needs any more.           *)
(***************************************************************************)
THEOREM RetentionStaysMinimal == Spec => []RetentionMinimal
  <1>1. StoreInv => RetentionMinimal
    BY RetentionProperties DEF StoreInv
  <1> QED
    BY <1>1, StoreAlways, PTL

=============================================================================
