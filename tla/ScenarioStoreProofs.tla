------------------------- MODULE ScenarioStoreProofs -------------------------
(***************************************************************************)
(* Theorems about ScenarioStore for any number of scenarios, clients,      *)
(* runs, requests, store instances and commands, and for any content the   *)
(* command engine of EngineAssumption works on.                            *)
(***************************************************************************)
EXTENDS ScenarioStore, TLAPS

-----------------------------------------------------------------------------
(***************************************************************************)
(* Facts about the helpers.                                                *)
(***************************************************************************)
\* A sequence number that occurs is found by EntryAt.
LEMMA EntryFound ==
    ASSUME NEW s, NEW n, ExactlyOne(s, n)
    PROVE  EntryAt(s, n) \in journal[s] /\ EntryAt(s, n).sequence = n
  <1>1. PICK e \in journal[s] : e.sequence = n
    BY DEF ExactlyOne
  <1> QED
    BY <1>1 DEF EntryAt

\* The high-water mark is the larger of the old mark and the revision.
LEMMA RaisedType ==
    ASSUME NEW mark \in Nat \cup {Unseen}, NEW r \in Nat
    PROVE  /\ Raised(mark, r) \in Nat
           /\ Raised(mark, r) >= mark
           /\ Raised(mark, r) >= r
           /\ Raised(mark, r) = mark \/ Raised(mark, r) = r
  BY DEF Raised, Unseen

\* Under TypeOK every current row is a row.
LEMMA CurrentRowType ==
    ASSUME TypeOK, NEW s \in ScenarioId
    PROVE  CurrentRow(s) \in Rows
  BY DEF TypeOK, CurrentRow, Row, Rows

LEMMA CurrentRowsType ==
    ASSUME TypeOK, NEW ids \in SUBSET ScenarioId
    PROVE  CurrentRows(ids) \subseteq Rows
  BY CurrentRowType DEF CurrentRows

-----------------------------------------------------------------------------
(***************************************************************************)
(* Type correctness.                                                       *)
(***************************************************************************)
LEMMA TypeInit == Init => TypeOK
  BY TableAssumption
  DEF Init, TypeOK, Documents, NewDocument, CreatedAt, NotRecovering, Unseen

\* The fields a captured view has.
LEMMA ViewType ==
    ASSUME TypeOK, NEW c \in Client, view[c] # NoView
    PROVE  view[c] \in Views /\ view[c].scenario \in ScenarioId
  BY DEF TypeOK, Views

LEMMA StampType ==
    ASSUME TypeOK, NEW s \in ScenarioId
    PROVE  Stamp(s) \in Views
  BY DEF TypeOK, Views, Stamp

LEMMA TypeCapture ==
    ASSUME TypeOK, NEW c \in Client, NEW s \in ScenarioId,
           CaptureScenarioCustody(c, s), UNCHANGED recovery
    PROVE  TypeOK'
  BY StampType DEF TypeOK, CaptureScenarioCustody, scenarioVars, runVars

LEMMA TypeInsert ==
    ASSUME TypeOK, NEW s \in ScenarioId, NEW r \in Nat, NEW doc \in Documents,
           InsertProject(s, r, doc)
    PROVE  /\ live' \subseteq ScenarioId
           /\ revision' \in [ScenarioId -> Nat]
           /\ document' \in [ScenarioId -> Documents]
           /\ cursor' \in [ScenarioId -> Nat]
           /\ generation' \in [ScenarioId -> Nat]
           /\ highWater' \in [ScenarioId -> Nat \cup {Unseen}]
           /\ named' \subseteq Rows
  <1>1. Raised(highWater[s], r) \in Nat
    BY RaisedType DEF TypeOK
  <1>2. Row(s, r, doc) \in Rows
    BY DEF Row, Rows
  <1> QED
    BY <1>1, <1>2 DEF TypeOK, InsertProject

LEMMA TypeCreate ==
    ASSUME TypeOK, NEW s \in ScenarioId, CreateProject(s), UNCHANGED recovery
    PROVE  TypeOK'
  <1>1. NewDocument(Blank, CreatedAt) \in Documents
    BY TableAssumption DEF NewDocument, Documents, CreatedAt
  <1> QED
    BY <1>1, TypeInsert DEF TypeOK, CreateProject, IncrementLibraryRevision, runVars

LEMMA TypeDuplicate ==
    ASSUME TypeOK, NEW c \in Client, NEW s \in ScenarioId, DuplicateProject(c, s),
           UNCHANGED recovery
    PROVE  TypeOK'
  <1>1. view[c].scenario \in ScenarioId
    BY ViewType DEF DuplicateProject, Fresh
  <1>2. NewDocument(document[view[c].scenario].data, CreatedAt) \in Documents
    BY <1>1 DEF TypeOK, NewDocument, Documents, CreatedAt
  <1> QED
    BY <1>2, TypeInsert DEF TypeOK, DuplicateProject, IncrementLibraryRevision, runVars

LEMMA TypeDelete ==
    ASSUME TypeOK, NEW c \in Client, DeleteProject(c), UNCHANGED recovery
    PROVE  TypeOK'
  <1> DEFINE s == view[c].scenario
             rows == {row \in retained : row.scenario # s}
             left == {r \in solutions : CascadeRuns(s)[r] # NoRun}
             refs == {ref \in results : ref.scenario # s}
             deps == Dependencies(CascadeRuns(s), left, refs)
  <1>1. s \in ScenarioId
    BY ViewType DEF DeleteProject, Fresh
  <1>2. NewDocument(Blank, CreatedAt) \in Documents
    BY TableAssumption DEF NewDocument, Documents, CreatedAt
  <1>3. Raised(highWater[s], revision[s]) \in Nat
    BY <1>1, RaisedType DEF TypeOK
  <1>4. Synchronized(rows, deps, CurrentRows(live \ {s})) \subseteq Rows
    <2>1. CurrentRows(live \ {s}) \subseteq Rows
      BY CurrentRowsType DEF TypeOK
    <2> QED
      BY <2>1 DEF TypeOK, Synchronized
  <1>5. CascadeRuns(s) \in [RunId -> Run \cup {NoRun}]
    BY DEF TypeOK, CascadeRuns
  <1>6. /\ live' \subseteq ScenarioId
        /\ revision' \in [ScenarioId -> Nat]
        /\ document' \in [ScenarioId -> Documents]
        /\ selected' \in [ScenarioId -> RunId \cup {NoRun}]
        /\ cursor' \in [ScenarioId -> Nat]
        /\ generation' \in [ScenarioId -> Nat]
        /\ journal' \in [ScenarioId -> SUBSET Entries]
        /\ highWater' \in [ScenarioId -> Nat \cup {Unseen}]
    BY <1>1, <1>2, <1>3 DEF TypeOK, DeleteProject
  <1>7. /\ snapshots' \subseteq Rows
        /\ retained' \subseteq Rows
        /\ results' \subseteq Rows
        /\ runs' \in [RunId -> Run \cup {NoRun}]
        /\ solutions' \subseteq RunId
    BY <1>4, <1>5 DEF TypeOK, DeleteProject
  <1> QED
    BY <1>6, <1>7 DEF TypeOK, DeleteProject, IncrementLibraryRevision

\* What a command, undo or redo writes.
LEMMA TypeWriteRevision ==
    ASSUME TypeOK, NEW s \in ScenarioId, NEW doc \in Documents, WriteRevision(s, doc)
    PROVE  /\ revision' \in [ScenarioId -> Nat]
           /\ document' \in [ScenarioId -> Documents]
           /\ highWater' \in [ScenarioId -> Nat \cup {Unseen}]
           /\ retained' \subseteq Rows
           /\ named' \subseteq Rows
           /\ bound' \subseteq Client
  <1>1. revision[s] + 1 \in Nat
    BY DEF TypeOK
  <1>2. Raised(highWater[s], revision[s] + 1) \in Nat
    BY <1>1, RaisedType DEF TypeOK
  <1>3. Row(s, revision[s] + 1, doc) \in Rows
    BY <1>1 DEF Row, Rows
  <1>4. RetainCurrent(s) \subseteq Rows
    BY CurrentRowType DEF RetainCurrent, TypeOK
  <1> QED
    BY <1>1, <1>2, <1>3, <1>4 DEF TypeOK, WriteRevision, IncrementLibraryRevision

LEMMA NextGenerationType ==
    ASSUME TypeOK, NEW s \in ScenarioId
    PROVE  NextGeneration(s) \in Nat /\ NextGeneration(s) >= generation[s]
  BY DEF NextGeneration, TypeOK

LEMMA JournalEntryType ==
    ASSUME TypeOK, NEW s \in ScenarioId, NEW command \in Command,
           Admits(command, document[s].data)
    PROVE  JournalEntry(s, command) \in Entries
  <1>1. document[s].data \in Data
    BY DEF TypeOK, Documents
  <1>2. Inverse(command, document[s].data) \in Command
    BY <1>1, EngineAssumption
  <1> QED
    BY <1>2, NextGenerationType DEF JournalEntry, Entries, TypeOK

LEMMA TypeExecute ==
    ASSUME TypeOK, NEW c \in Client, NEW command \in Command, NEW truncate \in BOOLEAN,
           ExecuteCommand(c, command, truncate), UNCHANGED recovery
    PROVE  TypeOK'
  <1> DEFINE s == view[c].scenario
             doc == NewDocument(Apply(command, document[s].data), revision[s] + 1)
  <1>1. s \in ScenarioId
    BY ViewType DEF ExecuteCommand, CommandAuthorized, Fresh
  <1>2. document[s].data \in Data
    BY <1>1 DEF TypeOK, Documents
  <1>3. Admits(command, document[s].data)
    BY DEF ExecuteCommand
  <1>4. doc \in Documents
    BY <1>1, <1>2, <1>3, EngineAssumption DEF TypeOK, NewDocument, Documents
  <1>5. WriteRevision(s, doc)
    BY DEF ExecuteCommand
  <1> HIDE DEF doc
  <1>6. /\ revision' \in [ScenarioId -> Nat]
        /\ document' \in [ScenarioId -> Documents]
        /\ highWater' \in [ScenarioId -> Nat \cup {Unseen}]
        /\ retained' \subseteq Rows
        /\ named' \subseteq Rows
        /\ bound' \subseteq Client
    BY <1>1, <1>4, <1>5, TypeWriteRevision
  <1>7. journal' \in [ScenarioId -> SUBSET Entries]
    <2>1. JournalEntry(s, command) \in Entries
      BY <1>1, <1>3, JournalEntryType
    <2>2. TruncateRedoBranch(s) \subseteq Entries
      BY <1>1 DEF TypeOK, TruncateRedoBranch
    <2> QED
      BY <1>1, <2>1, <2>2 DEF TypeOK, ExecuteCommand
  <1>8. snapshots' \subseteq Rows
    <2>1. Row(s, revision[s] + 1, doc) \in Rows
      BY <1>1, <1>4 DEF TypeOK, Row, Rows
    <2>2. snapshots' = PeriodicSnapshot(s, cursor[s] + 1, doc)
      BY DEF ExecuteCommand, doc
    <2> QED
      BY <2>1, <2>2 DEF TypeOK, PeriodicSnapshot
  <1>9. cursor' \in [ScenarioId -> Nat] /\ generation' \in [ScenarioId -> Nat]
    BY <1>1, NextGenerationType DEF TypeOK, ExecuteCommand
  <1> QED
    BY <1>6, <1>7, <1>8, <1>9 DEF TypeOK, ExecuteCommand, runVars

\* The entry undo takes, and the document it writes, are of the right type.
LEMMA UndoTypes ==
    ASSUME TypeOK, NEW c \in Client, Undo(c)
    PROVE  /\ view[c].scenario \in ScenarioId
           /\ EntryAt(view[c].scenario, cursor[view[c].scenario]) \in journal[view[c].scenario]
           /\ UndoCommand(view[c].scenario) \in Command
           /\ UndoStamp(view[c].scenario) \in Nat
           /\ NewDocument(Apply(UndoCommand(view[c].scenario), document[view[c].scenario].data),
                          UndoStamp(view[c].scenario)) \in Documents
  <1> DEFINE s == view[c].scenario
  <1>1. s \in ScenarioId
    BY ViewType DEF Undo, HistoryAuthorized, Fresh
  <1> HIDE DEF s
  <1>2. cursor[s] \in Nat /\ cursor[s] > 0 /\ HistoryReadable(s)
    BY <1>1 DEF Undo, TypeOK, s
  <1>3. \A n \in 1 .. cursor[s] : EntryAt(s, n) \in journal[s]
    BY <1>2, EntryFound DEF HistoryReadable, AppliedPrefixRetained
  <1>4. journal[s] \subseteq Entries
    BY <1>1 DEF TypeOK
  <1>5. EntryAt(s, cursor[s]) \in journal[s]
    BY <1>2, <1>3
  <1>6. UndoCommand(s) \in Command
    BY <1>4, <1>5 DEF UndoCommand, Entries
  <1>7. UndoStamp(s) \in Nat
    <2>1. CASE cursor[s] = 1
      BY <2>1 DEF UndoStamp, CreatedAt
    <2>2. CASE cursor[s] # 1
      <3>1. cursor[s] - 1 \in 1 .. cursor[s]
        BY <1>2, <2>2
      <3>2. EntryAt(s, cursor[s] - 1) \in Entries
        BY <1>3, <1>4, <3>1
      <3> QED
        BY <2>2, <3>2 DEF UndoStamp, Entries
    <2> QED
      BY <2>1, <2>2
  <1>8. document[s].data \in Data
    BY <1>1 DEF TypeOK, Documents
  <1>9. Apply(UndoCommand(s), document[s].data) \in Data
    BY <1>6, <1>8, EngineAssumption DEF Undo, s
  <1>10. NewDocument(Apply(UndoCommand(s), document[s].data), UndoStamp(s)) \in Documents
    BY <1>7, <1>9 DEF NewDocument, Documents
  <1> QED
    BY <1>1, <1>5, <1>6, <1>7, <1>10 DEF s

LEMMA TypeUndo ==
    ASSUME TypeOK, NEW c \in Client, Undo(c), UNCHANGED recovery
    PROVE  TypeOK'
  <1> DEFINE s == view[c].scenario
             doc == NewDocument(Apply(UndoCommand(s), document[s].data), UndoStamp(s))
  <1>1. s \in ScenarioId /\ doc \in Documents
    BY UndoTypes
  <1>2. WriteRevision(s, doc)
    BY DEF Undo
  <1>3. cursor' \in [ScenarioId -> Nat]
    BY <1>1 DEF Undo, TypeOK
  <1> HIDE DEF doc, s
  <1> QED
    BY <1>1, <1>2, <1>3, TypeWriteRevision DEF TypeOK, Undo, runVars

LEMMA RedoTypes ==
    ASSUME TypeOK, NEW c \in Client, Redo(c)
    PROVE  /\ view[c].scenario \in ScenarioId
           /\ EntryAt(view[c].scenario, cursor[view[c].scenario] + 1)
                  \in journal[view[c].scenario]
           /\ EntryAt(view[c].scenario, cursor[view[c].scenario] + 1).sequence
                  = cursor[view[c].scenario] + 1
           /\ NewDocument(Apply(EntryAt(view[c].scenario, cursor[view[c].scenario] + 1).command,
                                document[view[c].scenario].data),
                          EntryAt(view[c].scenario, cursor[view[c].scenario] + 1).created)
                  \in Documents
  <1> DEFINE s == view[c].scenario
             entry == EntryAt(s, cursor[s] + 1)
  <1>1. s \in ScenarioId
    BY ViewType DEF Redo, HistoryAuthorized, Fresh
  <1>2. entry \in journal[s] /\ entry.sequence = cursor[s] + 1
    <2>1. ExactlyOne(s, cursor[s] + 1)
      BY DEF Redo, HistoryReadable, HistoryAvailable
    <2> QED
      BY <2>1, EntryFound
  <1>3. entry \in Entries
    BY <1>1, <1>2 DEF TypeOK
  <1>4. Admits(entry.command, document[s].data)
    BY DEF Redo
  <1> HIDE DEF entry, s
  <1>5. document[s].data \in Data
    BY <1>1 DEF TypeOK, Documents
  <1>6. Apply(entry.command, document[s].data) \in Data
    BY <1>3, <1>4, <1>5, EngineAssumption DEF Entries
  <1>7. NewDocument(Apply(entry.command, document[s].data), entry.created) \in Documents
    BY <1>3, <1>6 DEF NewDocument, Documents, Entries
  <1> QED
    BY <1>1, <1>2, <1>7 DEF s, entry

LEMMA TypeRedo ==
    ASSUME TypeOK, NEW c \in Client, Redo(c), UNCHANGED recovery
    PROVE  TypeOK'
  <1> DEFINE s == view[c].scenario
             entry == EntryAt(s, cursor[s] + 1)
             doc == NewDocument(Apply(entry.command, document[s].data), entry.created)
  <1>1. s \in ScenarioId /\ doc \in Documents
    BY RedoTypes
  <1>2. WriteRevision(s, doc)
    BY DEF Redo
  <1>3. cursor' \in [ScenarioId -> Nat]
    BY <1>1 DEF Redo, TypeOK
  <1> HIDE DEF doc, s
  <1> QED
    BY <1>1, <1>2, <1>3, TypeWriteRevision DEF TypeOK, Redo, runVars

\* An import gets a revision above every earlier one of its identity.
LEMMA TargetAbove ==
    ASSUME TypeOK, NEW s \in ScenarioId, NEW source \in Nat
    PROVE  TargetRevision(s, source) \in Nat /\ highWater[s] < TargetRevision(s, source)
  BY DEF TypeOK, TargetRevision, Unseen

\* What an import puts into the retention and result tables.
LEMMA ImportTypes ==
    ASSUME TypeOK, NEW s \in ScenarioId, NEW source \in Nat, NEW doc \in Documents,
           NEW withResult \in BOOLEAN
    PROVE  /\ Row(s, TargetRevision(s, source), doc) \in Rows
           /\ StagedResult(s, source, doc, withResult) \subseteq Rows
           /\ StagedRows(s, source, doc, withResult) \subseteq Rows
           /\ RetainCurrent(s) \subseteq Rows
  <1>1. Row(s, TargetRevision(s, source), doc) \in Rows
    BY TargetAbove DEF Row, Rows
  <1>2. RetainCurrent(s) \subseteq Rows
    BY CurrentRowType DEF RetainCurrent, TypeOK
  <1>3. StagedResult(s, source, doc, withResult) \subseteq Rows
    BY DEF StagedResult, Row, Rows
  <1> QED
    BY <1>1, <1>2, <1>3 DEF StagedRows

LEMMA TypeImportReplace ==
    ASSUME TypeOK, NEW c \in Client, NEW s \in ScenarioId, NEW source \in Nat,
           NEW doc \in Documents, NEW withResult \in BOOLEAN,
           ImportReplace(c, s, source, doc, withResult), UNCHANGED recovery
    PROVE  TypeOK'
  <1> DEFINE r == TargetRevision(s, source)
             staged == StagedRows(s, source, doc, withResult)
  <1>1. r \in Nat /\ Raised(highWater[s], r) \in Nat
    BY TargetAbove, RaisedType DEF TypeOK
  <1>2. /\ revision' = [revision EXCEPT ![s] = r]
        /\ document' = [document EXCEPT ![s] = doc]
        /\ cursor' = [cursor EXCEPT ![s] = 0]
        /\ generation' = [generation EXCEPT ![s] = 0]
        /\ journal' = [journal EXCEPT ![s] = {}]
        /\ highWater' = [highWater EXCEPT ![s] = Raised(@, r)]
        /\ named' = named \cup {Row(s, r, doc)}
        /\ results' = results \cup StagedResult(s, source, doc, withResult)
    BY DEF ImportReplace
  <1>3. retained' \subseteq RetainCurrent(s) \cup staged \cup CurrentRows(live \ {s})
                              \cup {Row(s, r, doc)}
    BY DEF ImportReplace, Synchronized
  <1>4. /\ Row(s, r, doc) \in Rows
        /\ StagedResult(s, source, doc, withResult) \subseteq Rows
        /\ staged \subseteq Rows
        /\ RetainCurrent(s) \subseteq Rows
    BY ImportTypes
  <1>5. CurrentRows(live \ {s}) \subseteq Rows
    BY CurrentRowsType DEF TypeOK
  <1> HIDE DEF r, staged
  <1>6. /\ revision' \in [ScenarioId -> Nat]
        /\ document' \in [ScenarioId -> Documents]
        /\ cursor' \in [ScenarioId -> Nat]
        /\ generation' \in [ScenarioId -> Nat]
        /\ journal' \in [ScenarioId -> SUBSET Entries]
        /\ highWater' \in [ScenarioId -> Nat \cup {Unseen}]
    BY <1>1, <1>2 DEF TypeOK
  <1>7. named \subseteq Rows /\ results \subseteq Rows
    BY DEF TypeOK
  <1>8. /\ retained' \subseteq Rows
        /\ results' \subseteq Rows
        /\ named' \subseteq Rows
    BY <1>2, <1>3, <1>4, <1>5, <1>7
  <1> QED
    BY <1>6, <1>8 DEF TypeOK, ImportReplace, IncrementLibraryRevision

LEMMA TypeImportCreate ==
    ASSUME TypeOK, NEW c \in Client, NEW s \in ScenarioId, NEW source \in Nat,
           NEW doc \in Documents, NEW withResult \in BOOLEAN,
           ImportCreate(c, s, source, doc, withResult), UNCHANGED recovery
    PROVE  TypeOK'
  <1> DEFINE r == TargetRevision(s, source)
             staged == StagedRows(s, source, doc, withResult)
  <1>1. InsertProject(s, r, doc)
    BY DEF ImportCreate
  <1>2. results' = results \cup StagedResult(s, source, doc, withResult)
    BY DEF ImportCreate
  <1>3. retained' \subseteq retained \cup staged \cup CurrentRows(live) \cup {Row(s, r, doc)}
    BY DEF ImportCreate, Synchronized
  <1>4. /\ Row(s, r, doc) \in Rows
        /\ StagedResult(s, source, doc, withResult) \subseteq Rows
        /\ staged \subseteq Rows
    BY ImportTypes
  <1>5. CurrentRows(live) \subseteq Rows
    BY CurrentRowsType DEF TypeOK
  <1>6. r \in Nat
    BY TargetAbove
  <1> HIDE DEF r, staged
  <1>7. retained \subseteq Rows /\ results \subseteq Rows
    BY DEF TypeOK
  <1>8. retained' \subseteq Rows /\ results' \subseteq Rows
    BY <1>2, <1>3, <1>4, <1>5, <1>7
  <1> QED
    BY <1>1, <1>6, <1>8, TypeInsert DEF TypeOK, ImportCreate, IncrementLibraryRevision

LEMMA TypeReplaceLibrary ==
    ASSUME TypeOK, NEW c \in Client, NEW s \in ScenarioId, NEW source \in Nat,
           NEW doc \in Documents, NEW withResult \in BOOLEAN,
           ReplaceLibrary(c, s, source, doc, withResult), UNCHANGED recovery
    PROVE  TypeOK'
  <1> DEFINE r == TargetRevision(s, source)
  <1>1. NewDocument(Blank, CreatedAt) \in Documents
    BY TableAssumption DEF NewDocument, Documents, CreatedAt
  <1>2. r \in Nat
    BY TargetAbove
  <1>3. /\ live' = {s}
        /\ revision' = [t \in ScenarioId |-> IF t = s THEN r ELSE 0]
        /\ document' = [t \in ScenarioId |-> IF t = s THEN doc ELSE NewDocument(Blank, CreatedAt)]
        /\ selected' = [t \in ScenarioId |-> NoRun]
        /\ cursor' = [t \in ScenarioId |-> 0]
        /\ generation' = [t \in ScenarioId |-> 0]
        /\ journal' = [t \in ScenarioId |-> {}]
        /\ highWater' = MarksAfterReplace(s, r)
        /\ named' = named \cup {Row(s, r, doc)}
    BY DEF ReplaceLibrary
  <1>4. Row(s, r, doc) \in Rows /\ StagedResult(s, source, doc, withResult) \subseteq Rows
    BY ImportTypes
  <1> HIDE DEF r
  <1>5. MarksAfterReplace(s, r) \in [ScenarioId -> Nat \cup {Unseen}]
    BY <1>2 DEF TypeOK, MarksAfterReplace, Raised, Unseen
  <1>6. /\ live' \subseteq ScenarioId
        /\ revision' \in [ScenarioId -> Nat]
        /\ document' \in [ScenarioId -> Documents]
        /\ selected' \in [ScenarioId -> RunId \cup {NoRun}]
        /\ cursor' \in [ScenarioId -> Nat]
        /\ generation' \in [ScenarioId -> Nat]
        /\ journal' \in [ScenarioId -> SUBSET Entries]
        /\ highWater' \in [ScenarioId -> Nat \cup {Unseen}]
        /\ named' \subseteq Rows
    BY <1>1, <1>2, <1>3, <1>4, <1>5 DEF TypeOK
  <1> QED
    BY <1>4, <1>6 DEF TypeOK, ReplaceLibrary, IncrementLibraryRevision

LEMMA TypeHistoryNext ==
    ASSUME TypeOK, HistoryNext, UNCHANGED recovery
    PROVE  TypeOK'
  <1>1. ASSUME NEW c \in Client, NEW s \in ScenarioId, CaptureScenarioCustody(c, s)
        PROVE  TypeOK'
    BY <1>1, TypeCapture
  <1>2. ASSUME NEW c \in Client, NEW s \in ScenarioId, DuplicateProject(c, s)
        PROVE  TypeOK'
    BY <1>2, TypeDuplicate
  <1>3. ASSUME NEW c \in Client, NEW s \in ScenarioId, Import(c, s)
        PROVE  TypeOK'
    <2>1. PICK source \in ImportRevision, data \in Data, withResult \in BOOLEAN :
            \E updated \in ImportStamp(source) :
                \/ ImportReplace(c, s, source, NewDocument(data, updated), withResult)
                \/ ImportCreate(c, s, source, NewDocument(data, updated), withResult)
                \/ ReplaceLibrary(c, s, source, NewDocument(data, updated), withResult)
      BY <1>3 DEF Import
    <2>2. PICK updated \in ImportStamp(source) :
                \/ ImportReplace(c, s, source, NewDocument(data, updated), withResult)
                \/ ImportCreate(c, s, source, NewDocument(data, updated), withResult)
                \/ ReplaceLibrary(c, s, source, NewDocument(data, updated), withResult)
      BY <2>1
    <2>3. source \in Nat /\ NewDocument(data, updated) \in Documents
      BY TableAssumption DEF NewDocument, Documents, ImportStamp, CreatedAt
    <2> QED
      BY <2>2, <2>3, TypeImportReplace, TypeImportCreate, TypeReplaceLibrary
  <1>4. ASSUME NEW c \in Client, LibrarySnapshot(c)
        PROVE  TypeOK'
    BY <1>4 DEF TypeOK, LibrarySnapshot, scenarioVars, runVars
  <1>5. ASSUME NEW c \in Client, ArchiveProject(c)
        PROVE  TypeOK'
    BY <1>5 DEF TypeOK, ArchiveProject, IncrementLibraryRevision, scenarioVars, runVars
  <1>6. ASSUME NEW c \in Client, DeleteProject(c)
        PROVE  TypeOK'
    BY <1>6, TypeDelete
  <1>7. ASSUME NEW c \in Client, Edit(c)
        PROVE  TypeOK'
    BY <1>7, TypeExecute, TypeUndo, TypeRedo DEF Edit
  <1>8. ASSUME NEW s \in ScenarioId, CreateProject(s)
        PROVE  TypeOK'
    BY <1>8, TypeCreate
  <1>9. ASSUME NEW s \in ScenarioId, OpenProject(s)
        PROVE  TypeOK'
    BY <1>9 DEF TypeOK, OpenProject, IncrementLibraryRevision, scenarioVars, runVars
  <1> QED
    BY <1>1, <1>2, <1>3, <1>4, <1>5, <1>6, <1>7, <1>8, <1>9 DEF HistoryNext

-----------------------------------------------------------------------------
\* Releasing revisions keeps the type of the retention table.
LEMMA TypeRelease ==
    ASSUME TypeOK, NEW finished, ReleaseRevisions(finished)
    PROVE  retained' \subseteq Rows
  <1>1. CurrentRows(live) \subseteq Rows
    BY CurrentRowsType DEF TypeOK
  <1> QED
    BY <1>1 DEF TypeOK, ReleaseRevisions, Synchronized

LEMMA TypeStart ==
    ASSUME TypeOK, NEW c \in Client, NEW q \in RequestId, NEW r \in RunId,
           StartSolveRun(c, q, r)
    PROVE  TypeOK'
  <1> DEFINE s == view[c].scenario
  <1>1. s \in ScenarioId
    BY ViewType DEF StartSolveRun, Fresh
  <1>2. CurrentRow(s) \in Rows
    BY <1>1, CurrentRowType
  <1>3. [request |-> q, scenario |-> s, revision |-> revision[s],
         document |-> document[s], status |-> "running", time |-> "solving",
         checkpoint |-> FALSE, evidence |-> FALSE] \in Run
    BY <1>1 DEF TypeOK, Run
  <1> QED
    BY <1>1, <1>2, <1>3 DEF TypeOK, StartSolveRun, scenarioVars

LEMMA TypeRunNext ==
    ASSUME TypeOK, RunNext
    PROVE  TypeOK'
  <1>1. ASSUME NEW c \in Client, NEW q \in RequestId, NEW r \in RunId, StartSolveRun(c, q, r)
        PROVE  TypeOK'
    BY <1>1, TypeStart
  <1>2. ASSUME NEW c \in Client, NEW r \in RunId, SelectAcceptedResult(c, r)
        PROVE  TypeOK'
    BY <1>2, ViewType DEF TypeOK, SelectAcceptedResult, Fresh, runVars
  <1>3. ASSUME NEW r \in RunId, Elapse(r)
        PROVE  TypeOK'
    <2>1. runs' \in [RunId -> Run \cup {NoRun}]
      BY <1>3 DEF TypeOK, Elapse, Run
    <2> QED
      BY <1>3, <2>1 DEF TypeOK, Elapse, scenarioVars
  <1>4. ASSUME NEW r \in RunId, SaveVerifiedCheckpoint(r)
        PROVE  TypeOK'
    <2>1. runs[r] \in Run
      BY <1>4 DEF TypeOK, SaveVerifiedCheckpoint
    <2>2. [runs[r] EXCEPT !.checkpoint = TRUE] \in Run
      BY <2>1, Zenon DEF Run
    <2>3. runs' \in [RunId -> Run \cup {NoRun}]
      BY <1>4, <2>2 DEF TypeOK, SaveVerifiedCheckpoint
    <2> QED
      BY <1>4, <2>3 DEF TypeOK, SaveVerifiedCheckpoint, scenarioVars
  <1>5. ASSUME NEW r \in RunId, FinalizeAcceptedRun(r)
        PROVE  TypeOK'
    <2>1. runs' \in [RunId -> Run \cup {NoRun}]
      BY <1>5 DEF TypeOK, FinalizeAcceptedRun, Unfinished, Run, Terminal
    <2> QED
      BY <1>5, <2>1 DEF TypeOK, FinalizeAcceptedRun, scenarioVars
  <1>6. ASSUME NEW r \in RunId, FinalizeQuarantinedRun(r)
        PROVE  TypeOK'
    <2>1. runs' \in [RunId -> Run \cup {NoRun}]
      BY <1>6 DEF TypeOK, FinalizeQuarantinedRun, Unfinished, Run, Terminal
    <2>2. retained' \subseteq Rows
      BY <1>6, TypeRelease DEF FinalizeQuarantinedRun
    <2> QED
      BY <1>6, <2>1, <2>2 DEF TypeOK, FinalizeQuarantinedRun, scenarioVars
  <1>7. ASSUME NEW r \in RunId, NEW outcome \in Terminal, NEW evidence \in BOOLEAN,
               FinalizeTerminalRun(r, outcome, evidence)
        PROVE  TypeOK'
    <2>1. runs[r] \in Run
      BY <1>7 DEF TypeOK, FinalizeTerminalRun, Unfinished
    <2>2. [runs[r] EXCEPT !.status = outcome, !.evidence = evidence] \in Run
      BY <2>1, Zenon DEF Run
    <2>3. runs' \in [RunId -> Run \cup {NoRun}]
      BY <1>7, <2>2 DEF TypeOK, FinalizeTerminalRun, Terminated
    <2>4. retained' \subseteq Rows
      BY <1>7, TypeRelease DEF FinalizeTerminalRun, Terminated
    <2> QED
      BY <1>7, <2>3, <2>4 DEF TypeOK, FinalizeTerminalRun, Terminated, scenarioVars
  <1> QED
    BY <1>1, <1>2, <1>3, <1>4, <1>5, <1>6, <1>7 DEF RunNext

LEMMA TypeRecovery ==
    ASSUME TypeOK, NEW p \in StoreInstance, RecoveryStep(p)
    PROVE  TypeOK'
  <1> USE DEF NotRecovering
  <1>1. CASE BeginRecovery(p)
    BY <1>1 DEF TypeOK, BeginRecovery, tables, scenarioVars, runVars
  <1>2. ASSUME NEW r \in RunId, CheckCandidate(p, r)
        PROVE  TypeOK'
    <2> DEFINE Pass == [pass : {"none", "active", "failed"},
                        pending : SUBSET RunId, checked : RunId \cup {Idle}]
    <2>1. recovery[p] \in Pass
      BY DEF TypeOK
    <2>2. \A left \in SUBSET RunId, next \in RunId \cup {Idle} :
              [recovery[p] EXCEPT !.pending = left, !.checked = next] \in Pass
      BY <2>1
    <2>3. recovery[p].pending \ {r} \in SUBSET RunId
      BY <2>1
    <2>4. (IF Unfinished(r) THEN r ELSE Idle) \in RunId \cup {Idle}
      OBVIOUS
    <2> HIDE DEF Pass
    <2>5. recovery' = [recovery EXCEPT ![p] =
                          [recovery[p] EXCEPT !.pending = recovery[p].pending \ {r},
                                              !.checked = IF Unfinished(r) THEN r ELSE Idle]]
      BY <1>2, Zenon DEF CheckCandidate
    <2>6. recovery \in [StoreInstance -> Pass]
      BY DEF TypeOK, Pass
    <2>7. recovery' \in [StoreInstance -> Pass]
      BY <2>2, <2>3, <2>4, <2>5, <2>6
    <2> QED
      BY <1>2, <2>7 DEF TypeOK, CheckCandidate, tables, scenarioVars, runVars, Pass
  <1>3. CASE InterruptCandidate(p)
    <2> DEFINE r == recovery[p].checked
    <2>1. r \in RunId /\ runs[r] \in Run
      BY <1>3 DEF TypeOK, InterruptCandidate, Unfinished
    <2>2. runs' \in [RunId -> Run \cup {NoRun}]
      <3>1. [runs[r] EXCEPT !.status = "interrupted", !.evidence = FALSE] \in Run
        BY <2>1 DEF Run, Terminal
      <3>2. runs' = [runs EXCEPT ![r] = [runs[r] EXCEPT !.status = "interrupted", !.evidence = FALSE]]
        BY <1>3, <2>1 DEF InterruptCandidate, Terminated, TypeOK
      <3> QED
        BY <2>1, <3>1, <3>2 DEF TypeOK
    <2>3. retained' \subseteq Rows
      BY <1>3, TypeRelease DEF InterruptCandidate, Terminated
    <2> QED
      BY <1>3, <2>2, <2>3 DEF TypeOK, InterruptCandidate, scenarioVars
  <1>4. CASE LoseCandidate(p)
    BY <1>4 DEF TypeOK, LoseCandidate, tables, scenarioVars, runVars
  <1>5. CASE EndRecovery(p)
    BY <1>5 DEF TypeOK, EndRecovery, tables, scenarioVars, runVars
  <1> QED
    BY <1>1, <1>2, <1>3, <1>4, <1>5 DEF RecoveryStep

LEMMA TypeNext == TypeOK /\ [Next]_vars => TypeOK'
  <1> SUFFICES ASSUME TypeOK, [Next]_vars PROVE TypeOK'
    OBVIOUS
  <1>1. CASE HistoryNext /\ UNCHANGED recovery
    BY <1>1, TypeHistoryNext
  <1>2. CASE RunNext
    BY <1>2, TypeRunNext
  <1>3. CASE \E p \in StoreInstance : RecoveryStep(p)
    BY <1>3, TypeRecovery
  <1>4. CASE UNCHANGED vars
    BY <1>4 DEF TypeOK, vars, tables, scenarioVars, runVars
  <1> QED
    BY <1>1, <1>2, <1>3, <1>4 DEF Next

(***************************************************************************)
(* Every table of the store keeps its shape: after any history of          *)
(* operations each stored and captured value is of the type the store      *)
(* reads it back with.                                                     *)
(***************************************************************************)
THEOREM TypeCorrect == Spec => []TypeOK
  BY TypeInit, TypeNext, PTL DEF Spec

-----------------------------------------------------------------------------
(***************************************************************************)
(* Revisions.  RevisionNamesOneDocument is not inductive: nothing in it    *)
(* says that the next revision is unused.  The high-water mark does: it    *)
(* bounds every revision ever named and every revision a client may have   *)
(* captured, and equals the current revision of an existing scenario.      *)
(***************************************************************************)
MarksBound ==
    \A row \in named : row.revision <= highWater[row.scenario]

CurrentIsMark ==
    \A s \in live : highWater[s] = revision[s] /\ CurrentRow(s) \in named

ViewsBound ==
    \A c \in Client : view[c] # NoView =>
        /\ view[c].revision <= highWater[view[c].scenario]
        /\ view[c].scenario \in live /\ view[c].revision = revision[view[c].scenario] =>
               view[c] = Stamp(view[c].scenario)

RevisionInv == MarksBound /\ CurrentIsMark /\ ViewsBound /\ RevisionNamesOneDocument

\* The part of the state RevisionInv is about.
Identity == <<live, revision, document, cursor, generation, highWater, named, view>>

LEMMA RevisionInit == Init => RevisionInv
  BY DEF Init, RevisionInv, MarksBound, CurrentIsMark, ViewsBound, RevisionNamesOneDocument

LEMMA RevisionFrame ==
    ASSUME RevisionInv, UNCHANGED Identity
    PROVE  RevisionInv'
  BY DEF RevisionInv, MarksBound, CurrentIsMark, ViewsBound, RevisionNamesOneDocument,
         Identity, CurrentRow, Row, Stamp, Named, Reference

\* A revision above the mark is written: by a create, a command or an import.
LEMMA RevisionPlaced ==
    ASSUME TypeOK, RevisionInv, NEW s \in ScenarioId, NEW r \in Nat, NEW doc \in Documents,
           highWater[s] < r,
           live' = live \cup {s},
           revision' = [revision EXCEPT ![s] = r],
           document' = [document EXCEPT ![s] = doc],
           highWater' = [highWater EXCEPT ![s] = r],
           named' = named \cup {Row(s, r, doc)},
           \A t \in ScenarioId \ {s} : cursor'[t] = cursor[t] /\ generation'[t] = generation[t],
           view' = view
    PROVE  RevisionInv'
  <1>1. Row(s, r, doc).scenario = s /\ Row(s, r, doc).revision = r
    BY DEF Row
  <1>2. \A row \in named : row.scenario = s => row.revision < r
    BY DEF TypeOK, RevisionInv, MarksBound, Rows, Unseen
  <1>3. MarksBound'
    <2> SUFFICES ASSUME NEW row \in named' PROVE row.revision <= highWater'[row.scenario]
      BY DEF MarksBound
    <2>1. CASE row \in named
      <3>1. row.scenario \in ScenarioId /\ row.revision \in Nat
        BY <2>1 DEF TypeOK, Rows
      <3>2. row.revision <= highWater[row.scenario]
        BY <2>1 DEF RevisionInv, MarksBound
      <3> QED
        BY <2>1, <3>1, <3>2, <1>2 DEF TypeOK
    <2>2. CASE row = Row(s, r, doc)
      BY <2>2, <1>1 DEF TypeOK
    <2> QED
      BY <2>1, <2>2
  <1>4. CurrentIsMark'
    <2> SUFFICES ASSUME NEW t \in live'
                 PROVE  highWater'[t] = revision'[t] /\ CurrentRow(t)' \in named'
      BY DEF CurrentIsMark
    <2>1. CASE t = s
      BY <2>1 DEF TypeOK, CurrentRow
    <2>2. CASE t # s
      <3>1. t \in live /\ t \in ScenarioId
        BY <2>2 DEF TypeOK
      <3>2. CurrentRow(t)' = CurrentRow(t)
        BY <2>2, <3>1 DEF TypeOK, CurrentRow, Row
      <3> QED
        BY <2>2, <3>1, <3>2 DEF TypeOK, RevisionInv, CurrentIsMark
    <2> QED
      BY <2>1, <2>2
  <1>5. ViewsBound'
    <2> SUFFICES ASSUME NEW c \in Client, view[c] # NoView
                 PROVE  /\ view[c].revision <= highWater'[view[c].scenario]
                        /\ view[c].scenario \in live'
                           /\ view[c].revision = revision'[view[c].scenario] =>
                              view[c] = Stamp(view[c].scenario)'
      BY DEF ViewsBound
    <2>1. view[c].scenario \in ScenarioId /\ view[c].revision \in Nat
      BY ViewType DEF Views
    <2>2. view[c].revision <= highWater[view[c].scenario]
      BY DEF RevisionInv, ViewsBound
    <2>3. CASE view[c].scenario = s
      BY <2>1, <2>2, <2>3 DEF TypeOK, Unseen
    <2>4. CASE view[c].scenario # s
      <3>1. Stamp(view[c].scenario)' = Stamp(view[c].scenario)
        BY <2>1, <2>4 DEF TypeOK, Stamp
      <3> QED
        BY <2>1, <2>2, <2>4, <3>1 DEF TypeOK, RevisionInv, ViewsBound
    <2> QED
      BY <2>3, <2>4
  <1>6. RevisionNamesOneDocument'
    <2> SUFFICES ASSUME NEW a \in named', NEW b \in named', Named(a) = Named(b)
                 PROVE  a = b
      BY DEF RevisionNamesOneDocument, Named, Reference
    <2>1. a.scenario = b.scenario /\ a.revision = b.revision
      BY DEF Named, Reference
    <2>2. CASE a \in named /\ b \in named
      BY <2>2 DEF RevisionInv, RevisionNamesOneDocument
    <2>3. \A row \in named : row.revision \in Nat
      BY DEF TypeOK, Rows
    <2> QED
      BY <2>1, <2>2, <2>3, <1>1, <1>2
  <1> QED
    BY <1>3, <1>4, <1>5, <1>6 DEF RevisionInv

\* A mark that is exceeded becomes the revision that exceeds it.
LEMMA RaisedAbove ==
    ASSUME NEW mark \in Nat \cup {Unseen}, NEW r \in Nat, mark < r
    PROVE  Raised(mark, r) = r
  BY DEF Raised

LEMMA RevisionInsert ==
    ASSUME TypeOK, RevisionInv, NEW s \in ScenarioId, NEW r \in Nat, NEW doc \in Documents,
           highWater[s] < r, InsertProject(s, r, doc), view' = view
    PROVE  RevisionInv'
  <1>1. Raised(highWater[s], r) = r
    BY RaisedAbove DEF TypeOK
  <1>2. /\ live' = live \cup {s}
        /\ revision' = [revision EXCEPT ![s] = r]
        /\ document' = [document EXCEPT ![s] = doc]
        /\ highWater' = [highWater EXCEPT ![s] = r]
        /\ named' = named \cup {Row(s, r, doc)}
        /\ cursor' = [cursor EXCEPT ![s] = 0]
        /\ generation' = [generation EXCEPT ![s] = 0]
    BY <1>1 DEF InsertProject
  <1>3. \A t \in ScenarioId \ {s} : cursor'[t] = cursor[t] /\ generation'[t] = generation[t]
    BY <1>2 DEF TypeOK
  <1> QED
    BY <1>2, <1>3, RevisionPlaced

LEMMA RevisionWrite ==
    ASSUME TypeOK, RevisionInv, NEW s \in ScenarioId, NEW doc \in Documents, s \in live,
           WriteRevision(s, doc), live' = live, view' = view,
           \A t \in ScenarioId \ {s} : cursor'[t] = cursor[t] /\ generation'[t] = generation[t]
    PROVE  RevisionInv'
  <1>1. revision[s] + 1 \in Nat /\ highWater[s] < revision[s] + 1
    BY DEF TypeOK, RevisionInv, CurrentIsMark
  <1>2. Raised(highWater[s], revision[s] + 1) = revision[s] + 1
    BY <1>1, RaisedAbove DEF TypeOK
  <1>3. /\ live' = live \cup {s}
        /\ revision' = [revision EXCEPT ![s] = revision[s] + 1]
        /\ document' = [document EXCEPT ![s] = doc]
        /\ highWater' = [highWater EXCEPT ![s] = revision[s] + 1]
        /\ named' = named \cup {Row(s, revision[s] + 1, doc)}
    BY <1>2 DEF WriteRevision
  <1> QED
    BY <1>1, <1>3, RevisionPlaced

\* A command, undo or redo by a client that captured the revision.
LEMMA RevisionEdit ==
    ASSUME TypeOK, RevisionInv, NEW c \in Client, Edit(c)
    PROVE  /\ RevisionInv'
           /\ view[c] = Stamp(view[c].scenario)
           /\ \A t \in ScenarioId \ {view[c].scenario} : revision'[t] = revision[t]
  <1> DEFINE s == view[c].scenario
  <1>1. Fresh(c)
    BY DEF Edit, ExecuteCommand, Undo, Redo, CommandAuthorized, HistoryAuthorized
  <1>2. s \in live /\ s \in ScenarioId
    BY <1>1, ViewType DEF Fresh
  <1>3. view[c] = Stamp(s)
    BY <1>1 DEF RevisionInv, ViewsBound, Fresh
  <1>4. ASSUME NEW command \in Command, NEW truncate \in BOOLEAN,
               ExecuteCommand(c, command, truncate)
        PROVE  RevisionInv' /\ \A t \in ScenarioId \ {s} : revision'[t] = revision[t]
    <2> DEFINE doc == NewDocument(Apply(command, document[s].data), revision[s] + 1)
    <2>1. document[s].data \in Data /\ Admits(command, document[s].data)
      BY <1>2, <1>4 DEF ExecuteCommand, TypeOK, Documents
    <2>2. doc \in Documents
      BY <1>2, <2>1, EngineAssumption DEF TypeOK, NewDocument, Documents
    <2>3. WriteRevision(s, doc)
      BY <1>4 DEF ExecuteCommand
    <2>4. live' = live /\ view' = view
      BY <1>4 DEF ExecuteCommand
    <2>5. \A t \in ScenarioId \ {s} : cursor'[t] = cursor[t] /\ generation'[t] = generation[t]
      BY <1>2, <1>4 DEF ExecuteCommand, TypeOK
    <2>6. \A t \in ScenarioId \ {s} : revision'[t] = revision[t]
      BY <1>2, <2>3 DEF WriteRevision, TypeOK
    <2> HIDE DEF doc, s
    <2> QED
      BY <1>2, <2>2, <2>3, <2>4, <2>5, <2>6, RevisionWrite
  <1>5. ASSUME Undo(c)
        PROVE  RevisionInv' /\ \A t \in ScenarioId \ {s} : revision'[t] = revision[t]
    <2> DEFINE doc == NewDocument(Apply(UndoCommand(s), document[s].data), UndoStamp(s))
    <2>1. doc \in Documents
      BY <1>5, UndoTypes
    <2>2. WriteRevision(s, doc) /\ live' = live /\ view' = view
      BY <1>5 DEF Undo
    <2>3. \A t \in ScenarioId \ {s} : cursor'[t] = cursor[t] /\ generation'[t] = generation[t]
      BY <1>2, <1>5 DEF Undo, TypeOK
    <2>4. \A t \in ScenarioId \ {s} : revision'[t] = revision[t]
      BY <1>2, <2>2 DEF WriteRevision, TypeOK
    <2> HIDE DEF doc, s
    <2> QED
      BY <1>2, <2>1, <2>2, <2>3, <2>4, RevisionWrite
  <1>6. ASSUME Redo(c)
        PROVE  RevisionInv' /\ \A t \in ScenarioId \ {s} : revision'[t] = revision[t]
    <2> DEFINE entry == EntryAt(s, cursor[s] + 1)
               doc == NewDocument(Apply(entry.command, document[s].data), entry.created)
    <2>1. doc \in Documents
      BY <1>6, RedoTypes
    <2>2. WriteRevision(s, doc) /\ live' = live /\ view' = view
      BY <1>6 DEF Redo
    <2>3. \A t \in ScenarioId \ {s} : cursor'[t] = cursor[t] /\ generation'[t] = generation[t]
      BY <1>2, <1>6 DEF Redo, TypeOK
    <2>4. \A t \in ScenarioId \ {s} : revision'[t] = revision[t]
      BY <1>2, <2>2 DEF WriteRevision, TypeOK
    <2> HIDE DEF doc, s
    <2> QED
      BY <1>2, <2>1, <2>2, <2>3, <2>4, RevisionWrite
  <1> QED
    BY <1>3, <1>4, <1>5, <1>6 DEF Edit

LEMMA RevisionDelete ==
    ASSUME TypeOK, RevisionInv, NEW c \in Client, DeleteProject(c)
    PROVE  RevisionInv'
  <1> DEFINE s == view[c].scenario
  <1>1. s \in live /\ s \in ScenarioId
    BY ViewType DEF DeleteProject, Fresh
  <1>2. Raised(highWater[s], revision[s]) = highWater[s]
    BY <1>1 DEF TypeOK, RevisionInv, CurrentIsMark, Raised
  <1>3. highWater' = highWater
    BY <1>1, <1>2 DEF DeleteProject, TypeOK
  <1>4. live' = live \ {s} /\ named' = named /\ view' = view
    BY DEF DeleteProject
  <1>5. \A t \in ScenarioId \ {s} :
            /\ revision'[t] = revision[t] /\ document'[t] = document[t]
            /\ cursor'[t] = cursor[t] /\ generation'[t] = generation[t]
    BY <1>1 DEF DeleteProject, TypeOK
  <1>6. \A t \in live' : t \in live /\ t \in ScenarioId \ {s}
    BY <1>4 DEF TypeOK
  <1>7. MarksBound' /\ RevisionNamesOneDocument'
    BY <1>3, <1>4 DEF RevisionInv, MarksBound, RevisionNamesOneDocument, Named, Reference
  <1>8. CurrentIsMark'
    BY <1>3, <1>4, <1>5, <1>6 DEF RevisionInv, CurrentIsMark, CurrentRow
  <1>9. ViewsBound'
    BY <1>3, <1>4, <1>5, <1>6 DEF RevisionInv, ViewsBound, Stamp
  <1> QED
    BY <1>7, <1>8, <1>9 DEF RevisionInv

LEMMA RevisionReplaceLibrary ==
    ASSUME TypeOK, RevisionInv, NEW c \in Client, NEW s \in ScenarioId, NEW source \in Nat,
           NEW doc \in Documents, NEW withResult \in BOOLEAN,
           ReplaceLibrary(c, s, source, doc, withResult)
    PROVE  RevisionInv'
  <1> DEFINE r == TargetRevision(s, source)
  <1>0. /\ highWater' = MarksAfterReplace(s, r)
        /\ live' = {s}
        /\ revision'[s] = r
        /\ document'[s] = doc
        /\ named' = named \cup {Row(s, r, doc)}
        /\ view' = view
    BY DEF ReplaceLibrary
  <1>1. r \in Nat /\ highWater[s] < r
    BY TargetAbove
  <1> HIDE DEF r
  <1>2. highWater' = [highWater EXCEPT ![s] = r]
    <2>1. \A t \in ScenarioId : Raised(highWater[t], IF t \in live THEN revision[t] ELSE Unseen)
                                    = highWater[t]
      BY DEF TypeOK, RevisionInv, CurrentIsMark, Raised, Unseen
    <2>2. Raised(highWater[s], r) = r
      BY <1>1, RaisedAbove DEF TypeOK
    <2>3. \A t \in ScenarioId : Raised(highWater[t], Unseen) = highWater[t]
      BY DEF TypeOK, Raised, Unseen
    <2>4. MarksAfterReplace(s, r) = [t \in ScenarioId |-> IF t = s THEN r ELSE highWater[t]]
      BY <2>1, <2>2, <2>3 DEF MarksAfterReplace
    <2> QED
      BY <1>0, <2>4 DEF TypeOK
  <1>3. /\ live' = {s}
        /\ revision'[s] = r
        /\ document'[s] = doc
        /\ named' = named \cup {Row(s, r, doc)}
        /\ view' = view
    BY <1>0
  <1>4. Row(s, r, doc).scenario = s /\ Row(s, r, doc).revision = r
    BY DEF Row
  <1>5. \A row \in named : /\ row.scenario \in ScenarioId /\ row.revision \in Nat
                           /\ row.revision <= highWater[row.scenario]
    BY DEF TypeOK, Rows, RevisionInv, MarksBound
  <1>6. \A row \in named : row.scenario = s => row.revision < r
    BY <1>1, <1>5 DEF TypeOK, Unseen
  <1>7. MarksBound'
    <2>1. highWater'[s] = r /\ \A t \in ScenarioId : t # s => highWater'[t] = highWater[t]
      BY <1>2 DEF TypeOK
    <2>2. \A row \in named : row.revision <= highWater'[row.scenario]
      BY <1>1, <1>5, <1>6, <2>1
    <2> QED
      BY <1>1, <1>3, <1>4, <2>1, <2>2 DEF MarksBound
  <1>8. CurrentIsMark'
    BY <1>2, <1>3 DEF CurrentIsMark, CurrentRow, TypeOK
  <1>9. ViewsBound'
    <2> SUFFICES ASSUME NEW d \in Client, view[d] # NoView
                 PROVE  /\ view[d].revision <= highWater'[view[d].scenario]
                        /\ view[d].scenario \in live'
                           /\ view[d].revision = revision'[view[d].scenario] =>
                              view[d] = Stamp(view[d].scenario)'
      BY <1>3 DEF ViewsBound
    <2>1. view[d].scenario \in ScenarioId /\ view[d].revision \in Nat
      BY ViewType DEF Views
    <2>2. view[d].revision <= highWater[view[d].scenario]
      BY DEF RevisionInv, ViewsBound
    <2> QED
      BY <1>1, <1>2, <1>3, <2>1, <2>2 DEF TypeOK, Unseen
  <1>10. RevisionNamesOneDocument'
    <2> SUFFICES ASSUME NEW a \in named', NEW b \in named', Named(a) = Named(b)
                 PROVE  a = b
      BY DEF RevisionNamesOneDocument, Named, Reference
    <2>1. a.scenario = b.scenario /\ a.revision = b.revision
      BY DEF Named, Reference
    <2>2. CASE a \in named /\ b \in named
      BY <2>2 DEF RevisionInv, RevisionNamesOneDocument
    <2> QED
      BY <2>1, <2>2, <1>3, <1>4, <1>5, <1>6
  <1> QED
    BY <1>7, <1>8, <1>9, <1>10 DEF RevisionInv

\* Steps that write no revision are no edits.
LEMMA NoEdit ==
    ASSUME TypeOK, \A t \in live \cap live' : revision'[t] = revision[t] \/ journal'[t] = {}
    PROVE  EditSeen
  BY DEF EditSeen

LEMMA RevisionHistoryNext ==
    ASSUME TypeOK, RevisionInv, HistoryNext
    PROVE  RevisionInv' /\ EditSeen
  <1> USE DEF scenarioVars, runVars
  <1>0. live \subseteq ScenarioId
    BY DEF TypeOK
  <1>1. ASSUME NEW c \in Client, NEW s \in ScenarioId, CaptureScenarioCustody(c, s)
        PROVE  RevisionInv' /\ EditSeen
    <2>1. s \in live /\ view' = [view EXCEPT ![c] = Stamp(s)]
      BY <1>1 DEF CaptureScenarioCustody
    <2>2. UNCHANGED <<live, revision, document, cursor, generation, journal, highWater, named>>
      BY <1>1 DEF CaptureScenarioCustody
    <2>3. Stamp(s).scenario = s /\ Stamp(s).revision = revision[s] /\ Stamp(s)' = Stamp(s)
      BY <2>2 DEF Stamp
    <2>4. ViewsBound'
      <3> SUFFICES ASSUME NEW d \in Client, view'[d] # NoView
                   PROVE  /\ view'[d].revision <= highWater[view'[d].scenario]
                          /\ view'[d].scenario \in live
                             /\ view'[d].revision = revision[view'[d].scenario] =>
                                view'[d] = Stamp(view[d].scenario)'
        BY <2>2 DEF ViewsBound
      <3>1. CASE d = c
        <4>1. view'[d] = Stamp(s)
          BY <2>1, <3>1 DEF TypeOK
        <4>2. revision[s] <= highWater[s]
          BY <2>1 DEF TypeOK, RevisionInv, CurrentIsMark
        <4>3. Stamp(view[d].scenario)' = Stamp(s)
          BY <2>2, <2>3, <4>1 DEF Stamp
        <4> QED
          BY <2>3, <4>1, <4>2, <4>3
      <3>2. CASE d # c
        <4>1. view'[d] = view[d]
          BY <2>1, <3>2 DEF TypeOK
        <4>2. Stamp(view[d].scenario)' = Stamp(view[d].scenario)
          BY <2>2, <4>1 DEF Stamp
        <4> QED
          BY <4>1, <4>2 DEF RevisionInv, ViewsBound
      <3> QED
        BY <3>1, <3>2
    <2>5. MarksBound' /\ CurrentIsMark' /\ RevisionNamesOneDocument'
      BY <2>2 DEF RevisionInv, MarksBound, CurrentIsMark, RevisionNamesOneDocument,
                  CurrentRow, Row, Named, Reference
    <2> QED
      BY <2>2, <2>4, <2>5, NoEdit DEF RevisionInv
  <1>2. ASSUME NEW c \in Client, NEW s \in ScenarioId, DuplicateProject(c, s)
        PROVE  RevisionInv' /\ EditSeen
    <2> DEFINE doc == NewDocument(document[view[c].scenario].data, CreatedAt)
    <2>1. view[c].scenario \in ScenarioId
      BY <1>2, ViewType DEF DuplicateProject, Fresh
    <2>2. doc \in Documents
      BY <2>1 DEF TypeOK, NewDocument, Documents, CreatedAt
    <2>3. InsertProject(s, 0, doc) /\ view' = view /\ highWater[s] = Unseen
      BY <1>2 DEF DuplicateProject, UnseenId
    <2>4. highWater[s] < 0 /\ s \notin live
      BY <2>3 DEF TypeOK, RevisionInv, CurrentIsMark, Unseen
    <2> HIDE DEF doc
    <2>5. RevisionInv'
      BY <2>2, <2>3, <2>4, RevisionInsert
    <2>6. \A t \in live : revision'[t] = revision[t]
      BY <1>0, <2>3, <2>4 DEF InsertProject, TypeOK
    <2> QED
      BY <2>5, <2>6, NoEdit
  <1>3. ASSUME NEW c \in Client, NEW s \in ScenarioId, Import(c, s)
        PROVE  RevisionInv' /\ EditSeen
    <2>1. PICK source \in ImportRevision, data \in Data, withResult \in BOOLEAN :
            \E updated \in ImportStamp(source) :
                \/ ImportReplace(c, s, source, NewDocument(data, updated), withResult)
                \/ ImportCreate(c, s, source, NewDocument(data, updated), withResult)
                \/ ReplaceLibrary(c, s, source, NewDocument(data, updated), withResult)
      BY <1>3 DEF Import
    <2>2. PICK updated \in ImportStamp(source) :
                \/ ImportReplace(c, s, source, NewDocument(data, updated), withResult)
                \/ ImportCreate(c, s, source, NewDocument(data, updated), withResult)
                \/ ReplaceLibrary(c, s, source, NewDocument(data, updated), withResult)
      BY <2>1
    <2> DEFINE doc == NewDocument(data, updated)
               r == TargetRevision(s, source)
    <2>3. source \in Nat /\ doc \in Documents
      BY TableAssumption DEF NewDocument, Documents, ImportStamp, CreatedAt
    <2>0. r \in Nat /\ highWater[s] < r
      BY <2>3, TargetAbove
    <2> HIDE DEF doc
    <2>4. CASE ImportReplace(c, s, source, doc, withResult)
      <3>2. Raised(highWater[s], r) = r
        BY <2>0, RaisedAbove DEF TypeOK
      <3>3. /\ live' = live \cup {s}
            /\ revision' = [revision EXCEPT ![s] = r]
            /\ document' = [document EXCEPT ![s] = doc]
            /\ highWater' = [highWater EXCEPT ![s] = r]
            /\ named' = named \cup {Row(s, r, doc)}
            /\ cursor' = [cursor EXCEPT ![s] = 0]
            /\ generation' = [generation EXCEPT ![s] = 0]
            /\ journal' = [journal EXCEPT ![s] = {}]
            /\ view' = view
        BY <2>4, <3>2 DEF ImportReplace
      <3>4. \A t \in ScenarioId \ {s} : cursor'[t] = cursor[t] /\ generation'[t] = generation[t]
        BY <3>3 DEF TypeOK
      <3> HIDE DEF r
      <3>5. RevisionInv'
        BY <2>0, <2>3, <3>3, <3>4, RevisionPlaced
      <3>6. \A t \in live : revision'[t] = revision[t] \/ journal'[t] = {}
        BY <1>0, <3>3 DEF TypeOK
      <3> QED
        BY <3>5, <3>6, NoEdit
    <2>5. CASE ImportCreate(c, s, source, doc, withResult)
      <3>2. InsertProject(s, r, doc) /\ view' = view /\ s \notin live
        BY <2>5 DEF ImportCreate
      <3> HIDE DEF r
      <3>3. RevisionInv'
        BY <2>0, <2>3, <3>2, RevisionInsert
      <3>4. \A t \in live : revision'[t] = revision[t]
        BY <1>0, <3>2 DEF InsertProject, TypeOK
      <3> QED
        BY <3>3, <3>4, NoEdit
    <2>6. CASE ReplaceLibrary(c, s, source, doc, withResult)
      <3>1. live' = {s} /\ journal'[s] = {}
        BY <2>6 DEF ReplaceLibrary
      <3> QED
        BY <2>3, <2>6, <3>1, RevisionReplaceLibrary, NoEdit
    <2> QED
      BY <2>2, <2>4, <2>5, <2>6 DEF doc
  <1>4. ASSUME NEW c \in Client, LibrarySnapshot(c)
        PROVE  RevisionInv' /\ EditSeen
    BY <1>4, RevisionFrame, NoEdit DEF LibrarySnapshot, Identity
  <1>5. ASSUME NEW c \in Client, ArchiveProject(c)
        PROVE  RevisionInv' /\ EditSeen
    BY <1>5, RevisionFrame, NoEdit DEF ArchiveProject, Identity
  <1>6. ASSUME NEW c \in Client, DeleteProject(c)
        PROVE  RevisionInv' /\ EditSeen
    <2>1. view[c].scenario \in ScenarioId
      BY <1>6, ViewType DEF DeleteProject, Fresh
    <2>2. \A t \in live \cap live' : revision'[t] = revision[t]
      BY <1>0, <1>6, <2>1 DEF DeleteProject, TypeOK
    <2> QED
      BY <1>6, <2>2, RevisionDelete, NoEdit
  <1>7. ASSUME NEW c \in Client, Edit(c)
        PROVE  RevisionInv' /\ EditSeen
    <2>1. \A t \in live : revision'[t] # revision[t] => t = view[c].scenario
      BY <1>0, <1>7, RevisionEdit
    <2> QED
      BY <1>7, <2>1, RevisionEdit DEF EditSeen
  <1>8. ASSUME NEW s \in ScenarioId, CreateProject(s)
        PROVE  RevisionInv' /\ EditSeen
    <2> DEFINE doc == NewDocument(Blank, CreatedAt)
    <2>1. doc \in Documents
      BY TableAssumption DEF NewDocument, Documents, CreatedAt
    <2>2. InsertProject(s, 0, doc) /\ view' = view /\ highWater[s] = Unseen
      BY <1>8 DEF CreateProject, UnseenId
    <2>3. highWater[s] < 0 /\ s \notin live
      BY <2>2 DEF TypeOK, RevisionInv, CurrentIsMark, Unseen
    <2> HIDE DEF doc
    <2>4. RevisionInv'
      BY <2>1, <2>2, <2>3, RevisionInsert
    <2>5. \A t \in live : revision'[t] = revision[t]
      BY <1>0, <2>2, <2>3 DEF InsertProject, TypeOK
    <2> QED
      BY <2>4, <2>5, NoEdit
  <1>9. ASSUME NEW s \in ScenarioId, OpenProject(s)
        PROVE  RevisionInv' /\ EditSeen
    BY <1>9, RevisionFrame, NoEdit DEF OpenProject, Identity
  <1> QED
    BY <1>1, <1>2, <1>3, <1>4, <1>5, <1>6, <1>7, <1>8, <1>9 DEF HistoryNext

\* The operations on runs leave scenarios, their history and all views alone.
LEMMA RunsLeaveScenarios ==
    ASSUME RunNext \/ \E p \in StoreInstance : RecoveryStep(p)
    PROVE  UNCHANGED <<Identity, journal>>
  BY DEF RunNext, StartSolveRun, SelectAcceptedResult, Elapse, SaveVerifiedCheckpoint,
         FinalizeAcceptedRun, FinalizeQuarantinedRun, FinalizeTerminalRun, RecoveryStep,
         BeginRecovery, CheckCandidate, InterruptCandidate, LoseCandidate, EndRecovery,
         Identity, tables, scenarioVars, runVars

LEMMA RevisionNext ==
    ASSUME TypeOK, RevisionInv, [Next]_vars
    PROVE  RevisionInv' /\ [EditSeen]_vars
  <1>1. CASE HistoryNext
    BY <1>1, RevisionHistoryNext
  <1>2. CASE RunNext \/ \E p \in StoreInstance : RecoveryStep(p)
    <2>1. UNCHANGED <<Identity, journal>>
      BY <1>2, RunsLeaveScenarios
    <2>2. RevisionInv'
      BY <2>1, RevisionFrame
    <2>3. EditSeen
      BY <2>1, NoEdit DEF Identity
    <2> QED
      BY <2>2, <2>3
  <1>3. CASE UNCHANGED vars
    BY <1>3, RevisionFrame DEF vars, tables, scenarioVars, Identity
  <1> QED
    BY <1>1, <1>2, <1>3 DEF Next

(***************************************************************************)
(* In every library, a scenario revision names one document for ever: no   *)
(* create, duplicate, delete, command, undo, redo, import or library       *)
(* replacement gives a revision number of an identity a second meaning.    *)
(***************************************************************************)
THEOREM RevisionsAreUnique == Spec => []RevisionNamesOneDocument
  <1>1. TypeOK /\ RevisionInv /\ [Next]_vars => TypeOK' /\ RevisionInv'
    BY TypeNext, RevisionNext
  <1>2. RevisionInv => RevisionNamesOneDocument
    BY DEF RevisionInv
  <1> QED
    BY <1>1, <1>2, TypeInit, RevisionInit, PTL DEF Spec

(***************************************************************************)
(* A command, undo or redo replaces only a state that a client captured in *)
(* full, although undo and redo compare nothing but the revision.          *)
(***************************************************************************)
THEOREM EditsReplaceSeenState == Spec => EditsSeenState
  <1>1. TypeOK /\ RevisionInv /\ [Next]_vars => TypeOK' /\ RevisionInv' /\ [EditSeen]_vars
    BY TypeNext, RevisionNext
  <1> QED
    BY <1>1, TypeInit, RevisionInit, PTL DEF Spec, EditsSeenState

=============================================================================
