----------------------- MODULE ScenarioHistoryProofs -----------------------
(***************************************************************************)
(* Proofs about the command history of ScenarioStore: it stays intact, and *)
(* every entry keeps leading from one exact document to the next, for any  *)
(* set of scenarios and any engine that meets EngineAssumption.            *)
(***************************************************************************)
EXTENDS ScenarioStoreProofs

(***************************************************************************)
(* The inductive invariant.  HistoryIntact speaks of the rows the store    *)
(* reads with CHOOSE and set comprehensions; Numbered says the same with   *)
(* an explicit length, and HistoryReplays needs in addition that the rows  *)
(* an entry refers to exist and that an entry's time is the time of the    *)
(* document it produced.                                                   *)
(***************************************************************************)
\* The entries are numbered 1..n, one each, and n is of the current branch.
Numbered(s, n) ==
    /\ \A k \in 1 .. n : \E e \in journal[s] : e.sequence = k
    /\ \A e \in journal[s] : e.sequence \in 1 .. n
    /\ \A e, f \in journal[s] : e.sequence = f.sequence => e = f
    /\ \A e \in journal[s] : e.sequence = n => e.generation = generation[s]
    /\ cursor[s] <= n

EntriesOrdered(s) ==
    /\ cursor[s] <= revision[s]
    /\ \A e \in journal[s] :
           /\ e.sequence <= e.after
           /\ e.generation <= generation[s]
           /\ e.before < e.after
           /\ e.after <= revision[s]

\* Entry e leads from row p to row q.
Leads(s, e, p, q) ==
    /\ Named(p) = Reference(s, e.before)
    /\ Named(q) = Reference(s, e.after)
    /\ Admits(e.command, p.document.data)
    /\ Apply(e.command, p.document.data) = q.document.data
    /\ e.inverse = Inverse(e.command, p.document.data)
    /\ q.document.updated = e.created

\* Where the current document is, seen from e.
Reached(s, e, p, q) ==
    /\ e.sequence = cursor[s] => document[s] = q.document
    /\ e.sequence = cursor[s] + 1 => document[s].data = p.document.data

EntriesLead(s) ==
    \A e \in journal[s] : \E p, q \in named : Leads(s, e, p, q) /\ Reached(s, e, p, q)

\* Entry f starts from the document that entry e produced.
Meet(s, e, f) ==
    \E p, q \in named : /\ Named(p) = Reference(s, e.after)
                        /\ Named(q) = Reference(s, f.before)
                        /\ p.document = q.document

EntriesMeet(s) ==
    \A e, f \in journal[s] : f.sequence = e.sequence + 1 => Meet(s, e, f)

HistoryOf(s) ==
    /\ \E n \in Nat : Numbered(s, n)
    /\ EntriesOrdered(s)
    /\ EntriesLead(s)
    /\ EntriesMeet(s)

HistoryInv == \A s \in ScenarioId : IF s \in live THEN HistoryOf(s) ELSE journal[s] = {}

-----------------------------------------------------------------------------
(***************************************************************************)
(* What Numbered gives.                                                    *)
(***************************************************************************)
LEMMA NumberedExtent ==
    ASSUME NEW s, NEW n \in Nat, Numbered(s, n)
    PROVE  JournalSequences(s) = 1 .. n /\ MaxSequence(s) = n
  <1>1. JournalSequences(s) = 1 .. n
    BY DEF Numbered, JournalSequences
  <1>2. n \in {0} \cup 1 .. n /\ \A m \in 1 .. n : m <= n
    OBVIOUS
  <1>3. \A k \in {0} \cup 1 .. n : (\A m \in 1 .. n : m <= k) => k = n
    OBVIOUS
  <1> QED
    BY <1>1, <1>2, <1>3 DEF MaxSequence

LEMMA NumberedOne ==
    ASSUME NEW s, NEW n \in Nat, Numbered(s, n), NEW k \in 1 .. n
    PROVE  /\ ExactlyOne(s, k)
           /\ EntryAt(s, k) \in journal[s]
           /\ EntryAt(s, k).sequence = k
           /\ \A e \in journal[s] : e.sequence = k => e = EntryAt(s, k)
  <1>1. ExactlyOne(s, k)
    BY DEF Numbered, ExactlyOne
  <1>2. EntryAt(s, k) \in journal[s] /\ EntryAt(s, k).sequence = k
    BY <1>1, EntryFound
  <1> QED
    BY <1>1, <1>2 DEF ExactlyOne

LEMMA NumberedReadable ==
    ASSUME TypeOK, NEW s \in ScenarioId, NEW n \in Nat, Numbered(s, n)
    PROVE  HistoryReadable(s)
  <1>1. JournalSequences(s) = 1 .. n /\ MaxSequence(s) = n
    BY NumberedExtent
  <1>2. cursor[s] \in Nat /\ cursor[s] <= n
    BY DEF Numbered, TypeOK
  <1>3. \A k \in 1 .. n : ExactlyOne(s, k)
    BY NumberedOne
  <1>4. n > 0 => EntryAt(s, n).generation = generation[s]
    <2>1. n > 0 => EntryAt(s, n) \in journal[s] /\ EntryAt(s, n).sequence = n
      BY NumberedOne
    <2> QED
      BY <2>1 DEF Numbered
  <1>5. HistoryAvailable(s)
    BY <1>1, <1>2, <1>3, <1>4 DEF HistoryAvailable
  <1>6. AppliedPrefixRetained(s)
    BY <1>1, <1>2, <1>3 DEF AppliedPrefixRetained
  <1> QED
    BY <1>5, <1>6 DEF HistoryReadable

-----------------------------------------------------------------------------
(***************************************************************************)
(* Steps that leave a history alone, and steps that start one.             *)
(***************************************************************************)
LEMMA HistoryFrame ==
    ASSUME NEW s, HistoryOf(s), named \subseteq named',
           journal'[s] = journal[s], cursor'[s] = cursor[s], generation'[s] = generation[s],
           revision'[s] = revision[s], document'[s] = document[s]
    PROVE  HistoryOf(s)'
  <1>1. \A n \in Nat : Numbered(s, n) => Numbered(s, n)'
    BY DEF Numbered
  <1>2. EntriesOrdered(s)'
    BY DEF HistoryOf, EntriesOrdered
  <1>3. EntriesLead(s)'
    <2>1. \A e, p, q : (Leads(s, e, p, q) <=> Leads(s, e, p, q)')
      BY DEF Leads, Named, Reference
    <2>2. \A e, p, q : Reached(s, e, p, q) => Reached(s, e, p, q)'
      BY DEF Reached
    <2> QED
      BY <2>1, <2>2 DEF HistoryOf, EntriesLead
  <1>4. EntriesMeet(s)'
    <2>1. \A e, f : Meet(s, e, f) => Meet(s, e, f)'
      BY DEF Meet, Named, Reference
    <2> QED
      BY <2>1 DEF HistoryOf, EntriesMeet
  <1> QED
    BY <1>1, <1>2, <1>3, <1>4 DEF HistoryOf

LEMMA HistoryEmpty ==
    ASSUME NEW s, journal'[s] = {}, cursor'[s] = 0, revision'[s] \in Nat
    PROVE  HistoryOf(s)'
  <1>1. Numbered(s, 0)'
    BY DEF Numbered
  <1>2. EntriesOrdered(s)' /\ EntriesLead(s)' /\ EntriesMeet(s)'
    BY DEF EntriesOrdered, EntriesLead, EntriesMeet
  <1> QED
    BY <1>1, <1>2 DEF HistoryOf

-----------------------------------------------------------------------------
(***************************************************************************)
(* A command, an undo and a redo, each seen as what it writes.             *)
(***************************************************************************)
\* Rows with the same name are one row; the current row is one of them.
LEMMA SameRow ==
    ASSUME RevisionInv, NEW p \in named, NEW q \in named, Named(p) = Named(q)
    PROVE  p = q
  BY DEF RevisionInv, RevisionNamesOneDocument

LEMMA CurrentNamed ==
    ASSUME RevisionInv, NEW s \in live
    PROVE  /\ CurrentRow(s) \in named
           /\ Named(CurrentRow(s)) = Reference(s, revision[s])
           /\ CurrentRow(s).document = document[s]
  BY DEF RevisionInv, CurrentIsMark, CurrentRow, Row, Named

\* What the entry at a position leads from and to.
LEMMA EntryLeads ==
    ASSUME TypeOK, NEW s \in ScenarioId, HistoryOf(s), NEW e \in journal[s]
    PROVE  \E p, q \in named :
              /\ Leads(s, e, p, q) /\ Reached(s, e, p, q)
              /\ p.document \in Documents /\ q.document \in Documents
              /\ e.command \in Command
  <1>1. PICK p \in named, q \in named : Leads(s, e, p, q) /\ Reached(s, e, p, q)
    BY DEF HistoryOf, EntriesLead
  <1>2. p.document \in Documents /\ q.document \in Documents
    BY DEF TypeOK, Rows
  <1>3. e.command \in Command
    BY DEF TypeOK, Entries
  <1> QED
    BY <1>1, <1>2, <1>3

\* Two entries that follow each other share the document between them.
LEMMA EntriesShare ==
    ASSUME TypeOK, RevisionInv, NEW s \in ScenarioId, HistoryOf(s),
           NEW e \in journal[s], NEW f \in journal[s], f.sequence = e.sequence + 1,
           NEW q \in named, Named(q) = Reference(s, e.after),
           NEW p \in named, Named(p) = Reference(s, f.before)
    PROVE  q.document = p.document
  <1>1. PICK a \in named, b \in named : /\ Named(a) = Reference(s, e.after)
                                        /\ Named(b) = Reference(s, f.before)
                                        /\ a.document = b.document
    BY DEF HistoryOf, EntriesMeet, Meet
  <1> QED
    BY <1>1, SameRow

\* The rows an entry leads between do not depend on the current document.
LEMMA LeadsStable ==
    ASSUME NEW s, NEW e, NEW p, NEW q
    PROVE  Leads(s, e, p, q)' <=> Leads(s, e, p, q)
  BY DEF Leads, Named, Reference

LEMMA MeetStable ==
    ASSUME NEW s, NEW e, NEW f, Meet(s, e, f), named \subseteq named'
    PROVE  Meet(s, e, f)'
  BY DEF Meet, Named, Reference

(***************************************************************************)
(* Undo: the inverse takes the document back to the one the entry started  *)
(* from, and the time of the entry before it makes it that entry's own.    *)
(***************************************************************************)
LEMMA HistoryUndo ==
    ASSUME TypeOK, RevisionInv, NEW s \in ScenarioId, s \in live, HistoryOf(s),
           cursor[s] > 0,
           named \subseteq named', journal'[s] = journal[s], generation'[s] = generation[s],
           cursor'[s] = cursor[s] - 1, revision'[s] = revision[s] + 1,
           document'[s] = NewDocument(Apply(UndoCommand(s), document[s].data), UndoStamp(s))
    PROVE  HistoryOf(s)'
  <1> DEFINE k == cursor[s]
             e == EntryAt(s, k)
  <1>1. PICK n \in Nat : Numbered(s, n)
    BY DEF HistoryOf
  <1>2. k \in 1 .. n /\ k \in Nat /\ revision[s] \in Nat
    BY <1>1 DEF Numbered, TypeOK
  <1>3. e \in journal[s] /\ e.sequence = k /\ \A f \in journal[s] : f.sequence = k => f = e
    BY <1>1, <1>2, NumberedOne
  <1> HIDE DEF e
  <1>4. PICK p \in named, q \in named :
              /\ Leads(s, e, p, q) /\ Reached(s, e, p, q)
              /\ p.document \in Documents /\ q.document \in Documents
              /\ e.command \in Command
    BY <1>3, EntryLeads
  <1>5. document[s] = q.document
    BY <1>3, <1>4 DEF Reached
  <1>6. Apply(UndoCommand(s), document[s].data) = p.document.data
    <2>1. UndoCommand(s) = Inverse(e.command, p.document.data)
      BY <1>4 DEF UndoCommand, Leads, e
    <2>2. document[s].data = Apply(e.command, p.document.data)
      BY <1>4, <1>5 DEF Leads
    <2>3. Admits(e.command, p.document.data) /\ p.document.data \in Data
      BY <1>4 DEF Leads, Documents
    <2> QED
      BY <1>4, <2>1, <2>2, <2>3, EngineAssumption
  <1>7. document'[s] = NewDocument(p.document.data, UndoStamp(s))
    BY <1>6
  <1>8. Numbered(s, n)'
    BY <1>1, <1>2 DEF Numbered
  <1>9. EntriesOrdered(s)'
    <2>1. \A f \in journal[s] : f.after \in Nat
      BY DEF TypeOK, Entries
    <2> QED
      BY <1>2, <2>1 DEF HistoryOf, EntriesOrdered
  <1>10. EntriesMeet(s)'
    BY MeetStable DEF HistoryOf, EntriesMeet
  <1>11. EntriesLead(s)'
    <2> SUFFICES ASSUME NEW f \in journal[s]
                 PROVE  \E a, b \in named : Leads(s, f, a, b) /\ Reached(s, f, a, b)'
      BY LeadsStable DEF EntriesLead
    <2>0. f.sequence \in Nat
      BY DEF TypeOK, Entries
    <2>1. PICK a \in named, b \in named :
              /\ Leads(s, f, a, b) /\ Reached(s, f, a, b)
              /\ a.document \in Documents /\ b.document \in Documents
      BY EntryLeads
    <2>2. CASE f.sequence = k
      <3>1. f = e
        BY <1>3, <2>2
      <3>2. Reached(s, f, p, q)'
        BY <1>2, <1>7, <2>0, <2>2 DEF Reached, NewDocument
      <3> QED
        BY <1>4, <3>1, <3>2
    <2>3. CASE f.sequence = k - 1
      <3>1. k - 1 \in 1 .. n /\ k # 1
        BY <1>1, <1>2, <2>3 DEF Numbered
      <3>2. f = EntryAt(s, k - 1)
        BY <1>1, <2>3, <3>1, NumberedOne
      <3>3. UndoStamp(s) = f.created
        BY <3>1, <3>2 DEF UndoStamp
      <3>4. b.document = p.document
        <4>1. e.sequence = f.sequence + 1
          BY <1>2, <1>3, <2>3
        <4>2. Named(b) = Reference(s, f.after) /\ Named(p) = Reference(s, e.before)
          BY <1>4, <2>1 DEF Leads
        <4> QED
          BY <1>3, <4>1, <4>2, EntriesShare
      <3>5. b.document.updated = f.created
        BY <2>1 DEF Leads
      <3>6. document'[s] = b.document
        BY <1>7, <2>1, <3>3, <3>4, <3>5 DEF NewDocument, Documents
      <3>7. Reached(s, f, a, b)'
        BY <1>2, <2>0, <2>3, <3>6 DEF Reached
      <3> QED
        BY <2>1, <3>7
    <2>4. CASE f.sequence # k /\ f.sequence # k - 1
      <3>1. Reached(s, f, a, b)'
        BY <1>2, <2>0, <2>4 DEF Reached
      <3> QED
        BY <2>1, <3>1
    <2> QED
      BY <2>2, <2>3, <2>4
  <1> QED
    BY <1>8, <1>9, <1>10, <1>11 DEF HistoryOf

(***************************************************************************)
(* Redo: the entry after the cursor is applied to the document it started  *)
(* from and gives the document it gave before, its time included.          *)
(***************************************************************************)
LEMMA HistoryRedo ==
    ASSUME TypeOK, RevisionInv, NEW s \in ScenarioId, s \in live, HistoryOf(s),
           cursor[s] < MaxSequence(s),
           named \subseteq named', journal'[s] = journal[s], generation'[s] = generation[s],
           cursor'[s] = cursor[s] + 1, revision'[s] = revision[s] + 1,
           document'[s] = NewDocument(Apply(EntryAt(s, cursor[s] + 1).command, document[s].data),
                                      EntryAt(s, cursor[s] + 1).created)
    PROVE  HistoryOf(s)'
  <1> DEFINE k == cursor[s]
             e == EntryAt(s, k + 1)
  <1>1. PICK n \in Nat : Numbered(s, n)
    BY DEF HistoryOf
  <1>2. k + 1 \in 1 .. n /\ k \in Nat /\ revision[s] \in Nat
    <2>1. MaxSequence(s) = n
      BY <1>1, NumberedExtent
    <2> QED
      BY <2>1 DEF TypeOK
  <1>3. e \in journal[s] /\ e.sequence = k + 1 /\ \A f \in journal[s] : f.sequence = k + 1 => f = e
    BY <1>1, <1>2, NumberedOne
  <1>0. document'[s] = NewDocument(Apply(e.command, document[s].data), e.created)
    OBVIOUS
  <1> HIDE DEF e
  <1>4. PICK p \in named, q \in named :
              /\ Leads(s, e, p, q) /\ Reached(s, e, p, q)
              /\ p.document \in Documents /\ q.document \in Documents
    BY <1>3, EntryLeads
  <1>5. document'[s] = q.document
    <2>1. document[s].data = p.document.data
      BY <1>3, <1>4 DEF Reached
    <2>2. q.document.data = Apply(e.command, p.document.data) /\ q.document.updated = e.created
      BY <1>4 DEF Leads
    <2> QED
      BY <1>0, <1>4, <2>1, <2>2 DEF NewDocument, Documents
  <1>6. Numbered(s, n)'
    BY <1>1, <1>2 DEF Numbered
  <1>7. EntriesOrdered(s)'
    <2>1. \A f \in journal[s] : f.after \in Nat
      BY DEF TypeOK, Entries
    <2> QED
      BY <1>2, <2>1 DEF HistoryOf, EntriesOrdered
  <1>8. EntriesMeet(s)'
    BY MeetStable DEF HistoryOf, EntriesMeet
  <1>9. EntriesLead(s)'
    <2> SUFFICES ASSUME NEW f \in journal[s]
                 PROVE  \E a, b \in named : Leads(s, f, a, b) /\ Reached(s, f, a, b)'
      BY LeadsStable DEF EntriesLead
    <2>0. f.sequence \in Nat
      BY DEF TypeOK, Entries
    <2>1. PICK a \in named, b \in named : Leads(s, f, a, b) /\ Reached(s, f, a, b)
      BY EntryLeads
    <2>2. CASE f.sequence = k + 1
      <3>1. f = e
        BY <1>3, <2>2
      <3>2. Reached(s, f, p, q)'
        BY <1>2, <1>5, <2>0, <2>2 DEF Reached
      <3> QED
        BY <1>4, <3>1, <3>2
    <2>3. CASE f.sequence = k + 2
      <3>1. q.document = a.document
        <4>1. f.sequence = e.sequence + 1
          BY <1>2, <1>3, <2>3
        <4>2. Named(q) = Reference(s, e.after) /\ Named(a) = Reference(s, f.before)
          BY <1>4, <2>1 DEF Leads
        <4> QED
          BY <1>3, <4>1, <4>2, EntriesShare
      <3>2. Reached(s, f, a, b)'
        BY <1>2, <1>5, <2>0, <2>3, <3>1 DEF Reached
      <3> QED
        BY <2>1, <3>2
    <2>4. CASE f.sequence # k + 1 /\ f.sequence # k + 2
      <3>1. Reached(s, f, a, b)'
        BY <1>2, <2>0, <2>4 DEF Reached
      <3> QED
        BY <2>1, <3>1
    <2> QED
      BY <2>2, <2>3, <2>4
  <1> QED
    BY <1>6, <1>7, <1>8, <1>9 DEF HistoryOf

(***************************************************************************)
(* A command: whatever was undone is discarded, and the new entry leads    *)
(* from the current row to the row it writes.                              *)
(***************************************************************************)
LEMMA HistoryExecute ==
    ASSUME TypeOK, RevisionInv, NEW s \in ScenarioId, s \in live, HistoryOf(s),
           NEW command \in Command, Admits(command, document[s].data),
           NEW doc, doc = NewDocument(Apply(command, document[s].data), revision[s] + 1),
           named' = named \cup {Row(s, revision[s] + 1, doc)},
           journal'[s] = TruncateRedoBranch(s) \cup {JournalEntry(s, command)},
           generation'[s] = NextGeneration(s),
           cursor'[s] = cursor[s] + 1, revision'[s] = revision[s] + 1,
           document'[s] = doc
    PROVE  HistoryOf(s)'
  <1>k. PICK k \in Nat : k = cursor[s]
    BY DEF TypeOK
  <1>n. PICK new : new = JournalEntry(s, command)
    OBVIOUS
  <1>t. PICK kept : kept = TruncateRedoBranch(s)
    OBVIOUS
  <1>1. PICK n \in Nat : Numbered(s, n)
    BY DEF HistoryOf
  <1>2. k \in Nat /\ k <= n /\ revision[s] \in Nat /\ generation[s] \in Nat
    BY <1>1, <1>k DEF Numbered, TypeOK
  <1>3. /\ new.command = command /\ new.inverse = Inverse(command, document[s].data)
        /\ new.before = revision[s] /\ new.after = revision[s] + 1
        /\ new.sequence = k + 1 /\ new.generation = NextGeneration(s)
        /\ new.created = revision[s] + 1
    BY <1>k, <1>n DEF JournalEntry
  <1>4. \A e \in kept : e \in journal[s] /\ e.sequence <= k /\ e \in Entries
    BY <1>k, <1>t DEF TruncateRedoBranch, TypeOK
  <1>5. \A e \in journal[s] : e.sequence <= k => e \in kept
    BY <1>k, <1>t DEF TruncateRedoBranch
  <1>6. NextGeneration(s) \in Nat /\ NextGeneration(s) >= generation[s]
    BY NextGenerationType
  <1>7. journal'[s] = kept \cup {new} /\ cursor'[s] = k + 1
    BY <1>k, <1>n, <1>t
  <1>8. \A e \in kept : /\ e.sequence \in Nat /\ e.sequence \in 1 .. k
                        /\ e.after \in Nat /\ e.generation \in Nat
    BY <1>1, <1>2, <1>4 DEF Numbered, Entries
  <1>9. Numbered(s, k + 1)'
    <2>1. \A j \in 1 .. k + 1 : \E e \in journal'[s] : e.sequence = j
      <3> SUFFICES ASSUME NEW j \in 1 .. k + 1
                   PROVE  \E e \in kept \cup {new} : e.sequence = j
        BY <1>7
      <3>1. CASE j = k + 1
        BY <1>3, <3>1
      <3>2. CASE j # k + 1
        <4>1. j \in 1 .. n /\ j <= k
          BY <1>2, <3>2
        <4> QED
          BY <1>1, <1>5, <4>1 DEF Numbered
      <3> QED
        BY <3>1, <3>2
    <2>2. \A e \in journal'[s] : e.sequence \in 1 .. k + 1
      BY <1>2, <1>3, <1>7, <1>8
    <2>3. \A e, f \in journal'[s] : e.sequence = f.sequence => e = f
      BY <1>1, <1>2, <1>3, <1>4, <1>7, <1>8 DEF Numbered
    <2>4. \A e \in journal'[s] : e.sequence = k + 1 => e.generation = generation'[s]
      BY <1>2, <1>3, <1>7, <1>8
    <2> QED
      BY <1>2, <1>7, <2>1, <2>2, <2>3, <2>4 DEF Numbered
  <1>10. EntriesOrdered(s)'
    <2>1. k <= revision[s] /\ \A e \in kept : /\ e.sequence <= e.after
                                              /\ e.generation <= generation[s]
                                              /\ e.before < e.after
                                              /\ e.after <= revision[s]
      BY <1>k, <1>4 DEF HistoryOf, EntriesOrdered
    <2>2. \A e \in kept : e.generation <= generation'[s] /\ e.after <= revision'[s]
      BY <1>2, <1>6, <1>8, <2>1
    <2> QED
      BY <1>2, <1>3, <1>6, <1>7, <2>1, <2>2 DEF EntriesOrdered
  <1>r. PICK row : row = Row(s, revision[s] + 1, doc)
    OBVIOUS
  <1>11. /\ row.document = doc /\ Named(row) = Reference(s, revision[s] + 1)
         /\ doc.data = Apply(command, document[s].data) /\ doc.updated = revision[s] + 1
         /\ row \in named' /\ named \subseteq named'
    BY <1>r DEF Row, Named, NewDocument
  <1>12. EntriesLead(s)'
    <2>1. Leads(s, new, CurrentRow(s), row)
      BY <1>3, <1>11, CurrentNamed DEF Leads
    <2>2. \A p, q : q.document = doc => Reached(s, new, p, q)'
      BY <1>2, <1>3, <1>7 DEF Reached
    <2>3. \E p, q \in named' : Leads(s, new, p, q)' /\ Reached(s, new, p, q)'
      BY <1>11, <2>1, <2>2, CurrentNamed, LeadsStable
    <2>4. ASSUME NEW e \in kept
          PROVE  \E p, q \in named' : Leads(s, e, p, q)' /\ Reached(s, e, p, q)'
      <3>1. PICK p \in named, q \in named : Leads(s, e, p, q)
        BY <1>4 DEF HistoryOf, EntriesLead
      <3>2. Reached(s, e, p, q)'
        BY <1>2, <1>7, <1>8 DEF Reached
      <3> QED
        BY <1>11, <3>1, <3>2, LeadsStable
    <2> QED
      BY <1>7, <2>3, <2>4 DEF EntriesLead
  <1>13. EntriesMeet(s)'
    <2> SUFFICES ASSUME NEW e \in kept \cup {new}, NEW f \in kept \cup {new},
                        f.sequence = e.sequence + 1
                 PROVE  Meet(s, e, f)'
      BY <1>7 DEF EntriesMeet
    <2>1. CASE e \in kept /\ f \in kept
      BY <1>4, <1>11, <2>1, MeetStable DEF HistoryOf, EntriesMeet
    <2>2. CASE e \in kept /\ f = new
      <3>1. e \in journal[s] /\ e.sequence = k
        BY <1>2, <1>3, <1>4, <1>8, <2>2
      <3>2. PICK p \in named, q \in named : Leads(s, e, p, q) /\ Reached(s, e, p, q)
        BY <3>1 DEF HistoryOf, EntriesLead
      <3>3. q.document = document[s] /\ Named(q) = Reference(s, e.after)
        BY <1>k, <3>1, <3>2 DEF Leads, Reached
      <3>4. Meet(s, e, f)
        BY <1>3, <2>2, <3>3, CurrentNamed DEF Meet
      <3> QED
        BY <1>11, <3>4, MeetStable
    <2>3. CASE e = new
      BY <1>2, <1>3, <1>8, <2>3
    <2> QED
      BY <2>1, <2>2, <2>3
  <1>14. k + 1 \in Nat
    BY <1>2
  <1> QED
    BY <1>9, <1>10, <1>12, <1>13, <1>14 DEF HistoryOf

-----------------------------------------------------------------------------
(***************************************************************************)
(* The steps.                                                              *)
(***************************************************************************)
LEMMA HistoryInit == Init => HistoryInv
  BY DEF Init, HistoryInv

\* Nothing a history is made of changes.
LEMMA HistoryUnchanged ==
    ASSUME HistoryInv, UNCHANGED <<Identity, journal>>
    PROVE  HistoryInv'
  <1>1. \A s \in ScenarioId : HistoryOf(s) => HistoryOf(s)'
    BY HistoryFrame DEF Identity
  <1> QED
    BY <1>1 DEF HistoryInv, Identity

\* One scenario changes; the others keep theirs.
LEMMA HistoryElsewhere ==
    ASSUME TypeOK, HistoryInv, NEW s \in ScenarioId, named \subseteq named',
           \A t \in ScenarioId \ {s} :
               /\ journal'[t] = journal[t] /\ cursor'[t] = cursor[t]
               /\ generation'[t] = generation[t] /\ revision'[t] = revision[t]
               /\ document'[t] = document[t] /\ (t \in live' <=> t \in live),
           IF s \in live' THEN HistoryOf(s)' ELSE journal'[s] = {}
    PROVE  HistoryInv'
  <1> SUFFICES ASSUME NEW t \in ScenarioId
               PROVE  IF t \in live' THEN HistoryOf(t)' ELSE journal'[t] = {}
    BY DEF HistoryInv
  <1>1. CASE t = s
    BY <1>1
  <1>2. CASE t # s
    BY <1>2, HistoryFrame DEF HistoryInv
  <1> QED
    BY <1>1, <1>2

LEMMA HistoryInsert ==
    ASSUME TypeOK, HistoryInv, NEW s \in ScenarioId, s \notin live, NEW r \in Nat, NEW doc,
           InsertProject(s, r, doc), journal' = journal
    PROVE  HistoryInv'
  <1>1. journal'[s] = {} /\ cursor'[s] = 0 /\ revision'[s] \in Nat
    BY DEF HistoryInv, InsertProject, TypeOK
  <1>2. HistoryOf(s)'
    BY <1>1, HistoryEmpty
  <1>3. \A t \in ScenarioId \ {s} :
               /\ journal'[t] = journal[t] /\ cursor'[t] = cursor[t]
               /\ generation'[t] = generation[t] /\ revision'[t] = revision[t]
               /\ document'[t] = document[t] /\ (t \in live' <=> t \in live)
    BY DEF InsertProject, TypeOK
  <1>4. s \in live' /\ named \subseteq named'
    BY DEF InsertProject
  <1> QED
    BY <1>2, <1>3, <1>4, HistoryElsewhere

\* What a revision write changes, and what it leaves.
LEMMA Written ==
    ASSUME TypeOK, NEW s \in ScenarioId, NEW doc, WriteRevision(s, doc)
    PROVE  /\ revision'[s] = revision[s] + 1 /\ document'[s] = doc
           /\ named' = named \cup {Row(s, revision[s] + 1, doc)}
           /\ \A t \in ScenarioId \ {s} :
                  revision'[t] = revision[t] /\ document'[t] = document[t]
  BY DEF WriteRevision, TypeOK

LEMMA HistoryEdit ==
    ASSUME TypeOK, RevisionInv, HistoryInv, NEW c \in Client, Edit(c)
    PROVE  HistoryInv'
  <1>0. PICK s : s = view[c].scenario
    OBVIOUS
  <1>1. Fresh(c)
    BY DEF Edit, ExecuteCommand, Undo, Redo, CommandAuthorized, HistoryAuthorized
  <1>2. s \in live /\ s \in ScenarioId
    BY <1>0, <1>1, ViewType DEF Fresh
  <1>3. HistoryOf(s)
    BY <1>2 DEF HistoryInv
  <1>4. ASSUME NEW command \in Command, NEW truncate \in BOOLEAN,
               ExecuteCommand(c, command, truncate)
        PROVE  HistoryInv'
    <2> DEFINE doc == NewDocument(Apply(command, document[s].data), revision[s] + 1)
    <2>1. WriteRevision(s, doc) /\ live' = live /\ Admits(command, document[s].data)
      BY <1>0, <1>4 DEF ExecuteCommand
    <2>2. /\ journal'[s] = TruncateRedoBranch(s) \cup {JournalEntry(s, command)}
          /\ cursor'[s] = cursor[s] + 1 /\ generation'[s] = NextGeneration(s)
      BY <1>0, <1>2, <1>4 DEF ExecuteCommand, TypeOK
    <2>3. \A t \in ScenarioId \ {s} : /\ journal'[t] = journal[t] /\ cursor'[t] = cursor[t]
                                      /\ generation'[t] = generation[t]
      BY <1>0, <1>2, <1>4 DEF ExecuteCommand, TypeOK
    <2>4. /\ revision'[s] = revision[s] + 1 /\ document'[s] = doc
          /\ named' = named \cup {Row(s, revision[s] + 1, doc)}
          /\ \A t \in ScenarioId \ {s} :
                 revision'[t] = revision[t] /\ document'[t] = document[t]
      BY <1>2, <2>1, Written
    <2>5. HistoryOf(s)'
      BY <1>2, <1>3, <2>1, <2>2, <2>4, HistoryExecute
    <2> HIDE DEF doc
    <2>6. named \subseteq named'
      BY <2>4
    <2> QED
      BY <1>2, <2>1, <2>3, <2>4, <2>5, <2>6, HistoryElsewhere
  <1>5. ASSUME Undo(c)
        PROVE  HistoryInv'
    <2> DEFINE doc == NewDocument(Apply(UndoCommand(s), document[s].data), UndoStamp(s))
    <2>1. WriteRevision(s, doc) /\ live' = live /\ cursor[s] > 0
      BY <1>0, <1>5 DEF Undo
    <2>2. journal' = journal /\ generation' = generation /\ cursor'[s] = cursor[s] - 1
      BY <1>0, <1>2, <1>5 DEF Undo, TypeOK
    <2>3. \A t \in ScenarioId \ {s} : cursor'[t] = cursor[t]
      BY <1>0, <1>2, <1>5 DEF Undo, TypeOK
    <2>4. /\ revision'[s] = revision[s] + 1 /\ document'[s] = doc
          /\ named' = named \cup {Row(s, revision[s] + 1, doc)}
          /\ \A t \in ScenarioId \ {s} :
                 revision'[t] = revision[t] /\ document'[t] = document[t]
      BY <1>2, <2>1, Written
    <2>5. named \subseteq named'
      BY <2>4
    <2>6. HistoryOf(s)'
      BY <1>2, <1>3, <2>1, <2>2, <2>4, <2>5, HistoryUndo
    <2> HIDE DEF doc
    <2> QED
      BY <1>2, <2>1, <2>2, <2>3, <2>4, <2>5, <2>6, HistoryElsewhere
  <1>6. ASSUME Redo(c)
        PROVE  HistoryInv'
    <2> DEFINE entry == EntryAt(s, cursor[s] + 1)
               doc == NewDocument(Apply(entry.command, document[s].data), entry.created)
    <2>1. WriteRevision(s, doc) /\ live' = live /\ cursor[s] < MaxSequence(s)
      BY <1>0, <1>6 DEF Redo
    <2>2. journal' = journal /\ generation' = generation /\ cursor'[s] = cursor[s] + 1
      BY <1>0, <1>2, <1>6 DEF Redo, TypeOK
    <2>3. \A t \in ScenarioId \ {s} : cursor'[t] = cursor[t]
      BY <1>0, <1>2, <1>6 DEF Redo, TypeOK
    <2>4. /\ revision'[s] = revision[s] + 1 /\ document'[s] = doc
          /\ named' = named \cup {Row(s, revision[s] + 1, doc)}
          /\ \A t \in ScenarioId \ {s} :
                 revision'[t] = revision[t] /\ document'[t] = document[t]
      BY <1>2, <2>1, Written
    <2>5. named \subseteq named'
      BY <2>4
    <2>6. HistoryOf(s)'
      BY <1>2, <1>3, <2>1, <2>2, <2>4, <2>5, HistoryRedo
    <2> HIDE DEF doc
    <2> QED
      BY <1>2, <2>1, <2>2, <2>3, <2>4, <2>5, <2>6, HistoryElsewhere
  <1> QED
    BY <1>4, <1>5, <1>6 DEF Edit

LEMMA HistoryDelete ==
    ASSUME TypeOK, HistoryInv, NEW c \in Client, DeleteProject(c)
    PROVE  HistoryInv'
  <1>0. PICK s : s = view[c].scenario
    OBVIOUS
  <1>1. s \in ScenarioId
    BY <1>0, ViewType DEF DeleteProject, Fresh
  <1>2. \A t \in ScenarioId \ {s} :
               /\ journal'[t] = journal[t] /\ cursor'[t] = cursor[t]
               /\ generation'[t] = generation[t] /\ revision'[t] = revision[t]
               /\ document'[t] = document[t] /\ (t \in live' <=> t \in live)
    BY <1>0, <1>1 DEF DeleteProject, TypeOK
  <1>3. s \notin live' /\ journal'[s] = {} /\ named' = named
    BY <1>0, <1>1 DEF DeleteProject, TypeOK
  <1> QED
    BY <1>1, <1>2, <1>3, HistoryElsewhere

LEMMA HistoryImport ==
    ASSUME TypeOK, HistoryInv, NEW c \in Client, NEW s \in ScenarioId, Import(c, s)
    PROVE  HistoryInv'
  <1>1. PICK source \in ImportRevision, data \in Data, withResult \in BOOLEAN :
            \E updated \in ImportStamp(source) :
                \/ ImportReplace(c, s, source, NewDocument(data, updated), withResult)
                \/ ImportCreate(c, s, source, NewDocument(data, updated), withResult)
                \/ ReplaceLibrary(c, s, source, NewDocument(data, updated), withResult)
    BY DEF Import
  <1>2. PICK updated \in ImportStamp(source) :
                \/ ImportReplace(c, s, source, NewDocument(data, updated), withResult)
                \/ ImportCreate(c, s, source, NewDocument(data, updated), withResult)
                \/ ReplaceLibrary(c, s, source, NewDocument(data, updated), withResult)
    BY <1>1
  <1> DEFINE doc == NewDocument(data, updated)
             r == TargetRevision(s, source)
  <1>3. r \in Nat
    BY TableAssumption, TargetAbove
  <1> HIDE DEF doc
  <1>4. CASE ImportReplace(c, s, source, doc, withResult)
    <2>1. /\ live' = live /\ named \subseteq named' /\ s \in live
          /\ revision' = [revision EXCEPT ![s] = r]
          /\ document' = [document EXCEPT ![s] = doc]
          /\ cursor' = [cursor EXCEPT ![s] = 0]
          /\ generation' = [generation EXCEPT ![s] = 0]
          /\ journal' = [journal EXCEPT ![s] = {}]
      BY <1>4 DEF ImportReplace
    <2> HIDE DEF r
    <2>2. journal'[s] = {} /\ cursor'[s] = 0 /\ revision'[s] \in Nat
      BY <1>3, <2>1 DEF TypeOK
    <2>3. \A t \in ScenarioId \ {s} :
               /\ journal'[t] = journal[t] /\ cursor'[t] = cursor[t]
               /\ generation'[t] = generation[t] /\ revision'[t] = revision[t]
               /\ document'[t] = document[t] /\ (t \in live' <=> t \in live)
      BY <2>1 DEF TypeOK
    <2> QED
      BY <2>1, <2>2, <2>3, HistoryEmpty, HistoryElsewhere
  <1>5. CASE ImportCreate(c, s, source, doc, withResult)
    <2>1. InsertProject(s, r, doc) /\ s \notin live /\ journal' = journal
      BY <1>5 DEF ImportCreate
    <2> HIDE DEF r
    <2> QED
      BY <1>3, <2>1, HistoryInsert
  <1>6. CASE ReplaceLibrary(c, s, source, doc, withResult)
    <2>1. /\ live' = {s} /\ revision'[s] = r
          /\ cursor' = [t \in ScenarioId |-> 0]
          /\ journal' = [t \in ScenarioId |-> {}]
      BY <1>6 DEF ReplaceLibrary
    <2>2. HistoryOf(s)'
      BY <1>3, <2>1, HistoryEmpty
    <2> QED
      BY <2>1, <2>2 DEF HistoryInv
  <1> QED
    BY <1>2, <1>4, <1>5, <1>6 DEF doc

LEMMA HistoryStep ==
    ASSUME TypeOK, RevisionInv, HistoryInv, [Next]_vars
    PROVE  HistoryInv'
  <1> USE DEF scenarioVars, runVars
  <1>1. CASE HistoryNext
    <2>1. ASSUME NEW s \in ScenarioId, NEW doc, InsertProject(s, 0, doc), journal' = journal,
                 highWater[s] = Unseen
          PROVE  HistoryInv'
      <3>1. s \notin live
        BY <2>1 DEF TypeOK, RevisionInv, CurrentIsMark, Unseen
      <3> QED
        BY <2>1, <3>1, HistoryInsert
    <2>2. ASSUME NEW c \in Client, NEW s \in ScenarioId, CaptureScenarioCustody(c, s)
          PROVE  HistoryInv'
      <3>1. UNCHANGED <<live, revision, document, cursor, generation, journal, named>>
        BY <2>2 DEF CaptureScenarioCustody
      <3>2. \A t \in ScenarioId : HistoryOf(t) => HistoryOf(t)'
        BY <3>1, HistoryFrame
      <3> QED
        BY <3>1, <3>2 DEF HistoryInv
    <2>3. ASSUME NEW c \in Client, NEW s \in ScenarioId, DuplicateProject(c, s)
          PROVE  HistoryInv'
      BY <2>1, <2>3 DEF DuplicateProject, UnseenId
    <2>4. ASSUME NEW s \in ScenarioId, CreateProject(s)
          PROVE  HistoryInv'
      BY <2>1, <2>4 DEF CreateProject, UnseenId
    <2>5. ASSUME \/ \E c \in Client : LibrarySnapshot(c) \/ ArchiveProject(c)
                 \/ \E s \in ScenarioId : OpenProject(s)
          PROVE  HistoryInv'
      <3>1. UNCHANGED <<Identity, journal>>
        BY <2>5 DEF LibrarySnapshot, ArchiveProject, OpenProject, Identity
      <3> QED
        BY <3>1, HistoryUnchanged
    <2> QED
      BY <1>1, <2>2, <2>3, <2>4, <2>5, HistoryImport, HistoryDelete, HistoryEdit DEF HistoryNext
  <1>2. CASE RunNext \/ \E p \in StoreInstance : RecoveryStep(p)
    BY <1>2, RunsLeaveScenarios, HistoryUnchanged
  <1>3. CASE UNCHANGED vars
    BY <1>3, HistoryUnchanged DEF vars, tables, Identity
  <1> QED
    BY <1>1, <1>2, <1>3 DEF Next

LEMMA HistoryAlways == Spec => [](TypeOK /\ RevisionInv /\ HistoryInv)
  <1>1. Init => TypeOK /\ RevisionInv /\ HistoryInv
    BY TypeInit, RevisionInit, HistoryInit
  <1>2. TypeOK /\ RevisionInv /\ HistoryInv /\ [Next]_vars => (TypeOK /\ RevisionInv /\ HistoryInv)'
    BY TypeNext, RevisionNext, HistoryStep
  <1> QED
    BY <1>1, <1>2, PTL DEF Spec

(***************************************************************************)
(* No sequence of commands, undos, redos, imports, deletions and           *)
(* re-creations makes the store report a history as damaged, and every     *)
(* entry passes parse_history_summary_row.                                 *)
(***************************************************************************)
THEOREM HistoryStaysIntact == Spec => []HistoryIntact
  <1>1. TypeOK /\ HistoryInv => HistoryIntact
    <2> SUFFICES ASSUME TypeOK, HistoryInv, NEW s \in live
                 PROVE  /\ HistoryReadable(s)
                        /\ JournalSequences(s) = 1 .. MaxSequence(s)
                        /\ EntriesOrdered(s)
      BY DEF HistoryIntact, EntriesOrdered
    <2>1. s \in ScenarioId
      BY DEF TypeOK
    <2>2. HistoryOf(s)
      BY <2>1 DEF HistoryInv
    <2>3. PICK n \in Nat : Numbered(s, n)
      BY <2>2 DEF HistoryOf
    <2> QED
      BY <2>1, <2>2, <2>3, NumberedReadable, NumberedExtent DEF HistoryOf
  <1> QED
    BY <1>1, HistoryAlways, PTL

(***************************************************************************)
(* Whatever was done, undone, redone and discarded before, each entry      *)
(* leads from the document of its before-revision to that of its           *)
(* after-revision, neighbours meet in one document, and the current        *)
(* document is the one the cursor points at.                               *)
(***************************************************************************)
THEOREM HistoryStaysReplayable == Spec => []HistoryReplays
  <1>1. TypeOK /\ RevisionInv /\ HistoryInv => HistoryReplays
    <2> SUFFICES ASSUME TypeOK, RevisionInv, HistoryInv, NEW s \in live, NEW e \in journal[s]
                 PROVE  /\ \A b \in DocumentsNamed(s, e.before), a \in DocumentsNamed(s, e.after) :
                               /\ Admits(e.command, b.data)
                               /\ Apply(e.command, b.data) = a.data
                               /\ e.inverse = Inverse(e.command, b.data)
                               /\ e.sequence = cursor[s] => document[s] = a
                               /\ e.sequence = cursor[s] + 1 => document[s].data = b.data
                        /\ \A f \in journal[s] : f.sequence = e.sequence + 1 =>
                               DocumentsNamed(s, e.after) = DocumentsNamed(s, f.before)
      BY DEF HistoryReplays
    <2>1. s \in ScenarioId /\ HistoryOf(s)
      BY DEF TypeOK, HistoryInv
    <2>2. \A row \in named : \A r : Named(row) = Reference(s, r) =>
              DocumentsNamed(s, r) = {row.document}
      BY SameRow DEF DocumentsNamed
    <2>3. PICK p \in named, q \in named : Leads(s, e, p, q) /\ Reached(s, e, p, q)
      BY <2>1 DEF HistoryOf, EntriesLead
    <2>4. /\ DocumentsNamed(s, e.before) = {p.document}
          /\ DocumentsNamed(s, e.after) = {q.document}
      BY <2>2, <2>3 DEF Leads
    <2>5. \A f \in journal[s] : f.sequence = e.sequence + 1 =>
              DocumentsNamed(s, e.after) = DocumentsNamed(s, f.before)
      <3> SUFFICES ASSUME NEW f \in journal[s], f.sequence = e.sequence + 1
                   PROVE  DocumentsNamed(s, e.after) = DocumentsNamed(s, f.before)
        OBVIOUS
      <3>1. PICK a \in named, b \in named : /\ Named(a) = Reference(s, e.after)
                                            /\ Named(b) = Reference(s, f.before)
                                            /\ a.document = b.document
        BY <2>1 DEF HistoryOf, EntriesMeet, Meet
      <3> QED
        BY <2>2, <3>1
    <2> QED
      BY <2>3, <2>4, <2>5 DEF Leads, Reached
  <1> QED
    BY <1>1, HistoryAlways, PTL

=============================================================================
