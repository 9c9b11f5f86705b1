------------------------ MODULE CommandReplayProofs ------------------------
(***************************************************************************)
(* Proofs about the command engine: the inverse generated for an accepted  *)
(* command is accepted by the same engine and gives the document back, so  *)
(* that undo and redo are exact and never refused.                         *)
(***************************************************************************)
EXTENDS CommandReplay, WellFoundedInduction, TLAPS

(***************************************************************************)
(* Induction, as statements about sets of naturals.                        *)
(***************************************************************************)
LEMMA SetInduction ==
  ASSUME NEW S, 0 \in S, \A n \in Nat : n \in S => n + 1 \in S
  PROVE  Nat \subseteq S
<1> DEFINE T == Nat \ S
<1> SUFFICES ASSUME T # {} PROVE FALSE
  OBVIOUS
<1>1. PICK x \in T : \A y \in T : ~ (<<y, x>> \in OpToRel(<, Nat))
  <2>1. T \subseteq Nat
    OBVIOUS
  <2> HIDE DEF T
  <2> QED
    BY <2>1, NatLessThanWellFounded, WFMin
<1>2. \A y \in T : ~(y < x)
  BY <1>1 DEF OpToRel
<1>3. x # 0 /\ x - 1 \in Nat /\ (x - 1) + 1 = x
  OBVIOUS
<1> QED
  BY <1>2, <1>3

\* The same with every smaller number as hypothesis.
LEMMA StrongInduction ==
  ASSUME NEW S, \A n \in Nat : (\A i \in 0..n - 1 : i \in S) => n \in S
  PROVE  Nat \subseteq S
<1> DEFINE T == Nat \ S
<1> SUFFICES ASSUME T # {} PROVE FALSE
  OBVIOUS
<1>1. PICK x \in T : \A y \in T : ~ (<<y, x>> \in OpToRel(<, Nat))
  <2>1. T \subseteq Nat
    OBVIOUS
  <2> HIDE DEF T
  <2> QED
    BY <2>1, NatLessThanWellFounded, WFMin
<1>2. \A y \in T : ~(y < x)
  BY <1>1 DEF OpToRel
<1>3. \A i \in 0..x - 1 : i \in S
  BY <1>2
<1> QED
  BY <1>3

\* A set of numbers up to a bound has a maximum.
LEMMA MaxInSet ==
  ASSUME NEW m \in Nat, NEW A, A \subseteq 0..m, A # {}
  PROVE  Max(A) \in A /\ \A y \in A : Max(A) >= y
<1> DEFINE T == {i \in Nat : m - i \in A}
<1>1. T # {} /\ T \subseteq Nat
  <2>1. PICK a \in A : TRUE
    OBVIOUS
  <2>2. m - a \in Nat /\ m - (m - a) = a
    BY <2>1
  <2> QED
    BY <2>2
<1>2. PICK x \in T : \A y \in T : ~ (<<y, x>> \in OpToRel(<, Nat))
  <2> HIDE DEF T
  <2> QED
    BY <1>1, NatLessThanWellFounded, WFMin
<1>3. \A y \in T : ~(y < x)
  BY <1>2 DEF OpToRel
<1>4. m - x \in A
  OBVIOUS
<1>5. \A y \in A : m - x >= y
  <2> SUFFICES ASSUME NEW y \in A PROVE m - x >= y
    OBVIOUS
  <2>1. y \in 0..m /\ m - y \in Nat /\ m - (m - y) = y
    OBVIOUS
  <2>2. m - y \in T
    BY <2>1
  <2> QED
    BY <1>3, <2>1, <2>2
<1>6. \E a \in A : \A y \in A : a >= y
  BY <1>4, <1>5
<1> QED
  BY <1>6 DEF Max

LEMMA MinInSet ==
  ASSUME NEW A, A \subseteq Nat, A # {}
  PROVE  Min(A) \in A
<1>1. PICK x \in A : \A y \in A : ~ (<<y, x>> \in OpToRel(<, Nat))
  BY NatLessThanWellFounded, WFMin
<1>2. \A y \in A : ~(y < x)
  BY <1>1 DEF OpToRel
<1>3. \A y \in A : x =< y
  BY <1>2
<1> QED
  BY <1>3 DEF Min

\* The run that holds a domain command reaches from its start to the command,
\* and the pack batch that holds the command begins in between.
LEMMA PackStartInRun ==
  ASSUME NEW children, Len(children) \in Nat, NEW k \in 1..Len(children)
  PROVE  /\ RunStart(children, k) \in 0..k - 1
         /\ \A i \in RunStart(children, k) + 1..k - 1 : IsDomain(children[i])
         /\ PackStart(children, k) \in RunStart(children, k)..k - 1
<1> DEFINE starts == {i \in 0..k - 1 : i = 0 \/ ~IsDomain(children[i])}
           ends == {i \in k..Len(children) : i = Len(children) \/ ~IsDomain(children[i + 1])}
<1>1. RunStart(children, k) \in 0..k - 1 /\ \A i \in starts : RunStart(children, k) >= i
  <2>1. k - 1 \in Nat /\ starts \subseteq 0..k - 1 /\ 0 \in starts
    OBVIOUS
  <2>2. RunStart(children, k) = Max(starts)
    BY DEF RunStart
  <2> HIDE DEF starts
  <2> QED
    BY <2>1, <2>2, MaxInSet
<1>2. RunEnd(children, k) \in k..Len(children)
  <2>1. ends \subseteq Nat /\ ends \subseteq k..Len(children) /\ Len(children) \in ends
    OBVIOUS
  <2>2. RunEnd(children, k) = Min(ends)
    BY DEF RunEnd
  <2> HIDE DEF ends
  <2> QED
    BY <2>1, <2>2, MinInSet
<1>3. PICK first \in 0..k - 1 : first = RunStart(children, k)
  BY <1>1
<1>4. PICK n \in Nat \ {0} : n = RunEnd(children, k) - first
  BY <1>2
<1>5. 0 \in Cuts(n)
  <2>1. ChunkLimit \in Nat \ {0}
    BY CommandConstants
  <2>2. (n - 1) \div ChunkLimit \in Nat /\ n - 1 \in Nat
    BY <2>1
  <2>3. 0 \in 0..(n - 1) \div ChunkLimit /\ 0 = 0 * ChunkLimit + 0
    BY <2>1, <2>2
  <2> DEFINE pieces(chunk) ==
               {chunk * ChunkLimit + cut :
                    cut \in {0} \cup Halvings[Min({ChunkLimit, n - chunk * ChunkLimit})]}
  <2>4. 0 \in pieces(0)
    <3>1. 0 \in {0} \cup Halvings[Min({ChunkLimit, n - 0 * ChunkLimit})]
      OBVIOUS
    <3> QED
      BY <2>3, <3>1, Zenon
  <2>5. Cuts(n) = UNION {pieces(chunk) : chunk \in 0..(n - 1) \div ChunkLimit}
    BY Zenon DEF Cuts
  <2> HIDE DEF pieces
  <2> QED
    BY <2>3, <2>4, <2>5, Zenon
<1> DEFINE A == {first + cut : cut \in Cuts(n)} \cap first..k - 1
<1>6. first \in A
  <2>1. first + 0 = first
    OBVIOUS
  <2> QED
    BY <1>5, <2>1
<1>7. PackStart(children, k) = Max(A)
  BY <1>3, <1>4 DEF PackStart
<1>8. Max(A) \in first..k - 1
  <2>1. k - 1 \in Nat /\ A \subseteq 0..k - 1 /\ A \subseteq first..k - 1
    OBVIOUS
  <2> HIDE DEF A
  <2> QED
    BY <1>6, <2>1, MaxInSet
<1>9. \A i \in first + 1..k - 1 : IsDomain(children[i])
  BY <1>1, <1>3
<1> QED
  BY <1>3, <1>7, <1>8, <1>9

\* A child builds on what was applied before it, so BatchRun is a recursion.
LEMMA PrecedingBefore ==
  ASSUME NEW children, Len(children) \in Nat, NEW k \in 1..Len(children)
  PROVE  Preceding(children, k) \in 0..k - 1
BY PackStartInRun DEF Preceding

-----------------------------------------------------------------------------
(***************************************************************************)
(* The recursive functions of the engine exist, so that their defining     *)
(* equations hold.                                                         *)
(***************************************************************************)

\* One level of Tree.
TreeLevel(f, n) ==
    IF n = 0 THEN Leaf
    ELSE Leaf \cup [op : {"batch"}, commands : Seq(f[n - 1]) \ {<<>>}]

LEMMA TreeLevelLocal ==
  ASSUME NEW f, NEW g, NEW n \in Nat, n <= MaxBatchDepth, \A i \in 0..n - 1 : f[i] = g[i]
  PROVE  TreeLevel(f, n) = TreeLevel(g, n)
<1>1. n # 0 => n - 1 \in 0..n - 1
  OBVIOUS
<1>2. n # 0 => f[n - 1] = g[n - 1]
  BY <1>1
<1> QED
  BY <1>2, Zenon DEF TreeLevel

\* The recursion has a solution.
LEMMA TreeLevelExists ==
  ASSUME MaxBatchDepth \in Nat
  PROVE  \E f : f = [n \in 0..MaxBatchDepth |-> TreeLevel(f, n)]
<1> DEFINE T == {m \in Nat : m <= MaxBatchDepth => \E f : f = [n \in 0..m |-> TreeLevel(f, n)]}
<1>1. 0 \in T
  <2> DEFINE f == [n \in 0..0 |-> TreeLevel(<<>>, n)]
  <2>1. TreeLevel(<<>>, 0) = TreeLevel(f, 0)
    <3> HIDE DEF f
    <3> QED
      BY TreeLevelLocal
  <2>2. \A n \in 0..0 : n = 0
    OBVIOUS
  <2>3. f = [n \in 0..0 |-> TreeLevel(f, n)]
    BY <2>1, <2>2
  <2> HIDE DEF f
  <2> QED
    BY <2>3
<1>2. \A m \in Nat : m \in T => m + 1 \in T
  <2> SUFFICES ASSUME NEW m \in Nat, m + 1 <= MaxBatchDepth, m \in T
               PROVE  \E f : f = [n \in 0..m + 1 |-> TreeLevel(f, n)]
    OBVIOUS
  <2>0. PICK g : g = [n \in 0..m |-> TreeLevel(g, n)]
    OBVIOUS
  <2> DEFINE f == [n \in 0..m + 1 |-> IF n = m + 1 THEN TreeLevel(g, m + 1) ELSE g[n]]
  <2>1. \A n \in 0..m : f[n] = g[n]
    OBVIOUS
  <2>2. f[m + 1] = TreeLevel(g, m + 1)
    OBVIOUS
  <2>3. DOMAIN f = 0..m + 1 /\ f = [n \in 0..m + 1 |-> f[n]]
    OBVIOUS
  <2> HIDE DEF f
  <2>4. \A n \in 0..m + 1 : f[n] = TreeLevel(f, n)
    <3> SUFFICES ASSUME NEW n \in 0..m + 1 PROVE f[n] = TreeLevel(f, n)
      OBVIOUS
    <3>1. MaxBatchDepth \in Nat /\ n \in Nat /\ n <= MaxBatchDepth /\ \A i \in 0..n - 1 : f[i] = g[i]
      BY <2>1
    <3>2. TreeLevel(f, n) = TreeLevel(g, n)
      BY <3>1, TreeLevelLocal, Zenon
    <3>3. CASE n = m + 1
      BY <3>2, <3>3, <2>2
    <3>4. CASE n # m + 1
      <4>1. n \in 0..m
        BY <3>4
      <4>2. g[n] = TreeLevel(g, n)
        BY <4>1, <2>0
      <4> QED
        BY <4>1, <4>2, <3>2, <2>1
    <3> QED
      BY <3>3, <3>4
  <2>5. f = [n \in 0..m + 1 |-> TreeLevel(f, n)]
    BY <2>3, <2>4
  <2> QED
    BY <2>5
<1>3. Nat \subseteq T
  <2> HIDE DEF T
  <2> QED
    BY <1>1, <1>2, SetInduction
<1> QED
  BY <1>3

\* One level of Effects.
EffectsLevel(f, n) ==
    IF n = 0
    THEN [command \in Leaf |-> [d \in Document |-> ApplyLeaf(d, command)]]
    ELSE [command \in Tree[n] |-> [d \in Document |->
            IF IsBatch(command)
            THEN ApplyBatch(d, command.commands, f[n - 1])
            ELSE ApplyLeaf(d, command)]]

LEMMA EffectsLevelLocal ==
  ASSUME NEW f, NEW g, NEW n \in Nat, n <= MaxBatchDepth, \A i \in 0..n - 1 : f[i] = g[i]
  PROVE  EffectsLevel(f, n) = EffectsLevel(g, n)
<1>1. n # 0 => n - 1 \in 0..n - 1
  OBVIOUS
<1>2. n # 0 => f[n - 1] = g[n - 1]
  BY <1>1
<1> QED
  BY <1>2, Zenon DEF EffectsLevel

\* The recursion has a solution.
LEMMA EffectsLevelExists ==
  ASSUME MaxBatchDepth \in Nat
  PROVE  \E f : f = [n \in 0..MaxBatchDepth |-> EffectsLevel(f, n)]
<1> DEFINE T == {m \in Nat : m <= MaxBatchDepth => \E f : f = [n \in 0..m |-> EffectsLevel(f, n)]}
<1>1. 0 \in T
  <2> DEFINE f == [n \in 0..0 |-> EffectsLevel(<<>>, n)]
  <2>1. EffectsLevel(<<>>, 0) = EffectsLevel(f, 0)
    <3> HIDE DEF f
    <3> QED
      BY EffectsLevelLocal
  <2>2. \A n \in 0..0 : n = 0
    OBVIOUS
  <2>3. f = [n \in 0..0 |-> EffectsLevel(f, n)]
    BY <2>1, <2>2
  <2> HIDE DEF f
  <2> QED
    BY <2>3
<1>2. \A m \in Nat : m \in T => m + 1 \in T
  <2> SUFFICES ASSUME NEW m \in Nat, m + 1 <= MaxBatchDepth, m \in T
               PROVE  \E f : f = [n \in 0..m + 1 |-> EffectsLevel(f, n)]
    OBVIOUS
  <2>0. PICK g : g = [n \in 0..m |-> EffectsLevel(g, n)]
    OBVIOUS
  <2> DEFINE f == [n \in 0..m + 1 |-> IF n = m + 1 THEN EffectsLevel(g, m + 1) ELSE g[n]]
  <2>1. \A n \in 0..m : f[n] = g[n]
    OBVIOUS
  <2>2. f[m + 1] = EffectsLevel(g, m + 1)
    OBVIOUS
  <2>3. DOMAIN f = 0..m + 1 /\ f = [n \in 0..m + 1 |-> f[n]]
    OBVIOUS
  <2> HIDE DEF f
  <2>4. \A n \in 0..m + 1 : f[n] = EffectsLevel(f, n)
    <3> SUFFICES ASSUME NEW n \in 0..m + 1 PROVE f[n] = EffectsLevel(f, n)
      OBVIOUS
    <3>1. MaxBatchDepth \in Nat /\ n \in Nat /\ n <= MaxBatchDepth /\ \A i \in 0..n - 1 : f[i] = g[i]
      BY <2>1
    <3>2. EffectsLevel(f, n) = EffectsLevel(g, n)
      BY <3>1, EffectsLevelLocal, Zenon
    <3>3. CASE n = m + 1
      BY <3>2, <3>3, <2>2
    <3>4. CASE n # m + 1
      <4>1. n \in 0..m
        BY <3>4
      <4>2. g[n] = EffectsLevel(g, n)
        BY <4>1, <2>0
      <4> QED
        BY <4>1, <4>2, <3>2, <2>1
    <3> QED
      BY <3>3, <3>4
  <2>5. f = [n \in 0..m + 1 |-> EffectsLevel(f, n)]
    BY <2>3, <2>4
  <2> QED
    BY <2>5
<1>3. Nat \subseteq T
  <2> HIDE DEF T
  <2> QED
    BY <1>1, <1>2, SetInduction
<1> QED
  BY <1>3

\* One level of Leaves.
LeavesLevel(f, n) ==
    IF n = 0
    THEN [command \in Leaf |-> 1]
    ELSE [command \in Tree[n] |->
            IF IsBatch(command)
            THEN Sums(f[n - 1], command.commands)[Len(command.commands)]
            ELSE 1]

LEMMA LeavesLevelLocal ==
  ASSUME NEW f, NEW g, NEW n \in Nat, n <= MaxBatchDepth, \A i \in 0..n - 1 : f[i] = g[i]
  PROVE  LeavesLevel(f, n) = LeavesLevel(g, n)
<1>1. n # 0 => n - 1 \in 0..n - 1
  OBVIOUS
<1>2. n # 0 => f[n - 1] = g[n - 1]
  BY <1>1
<1> QED
  BY <1>2, Zenon DEF LeavesLevel

\* The recursion has a solution.
LEMMA LeavesLevelExists ==
  ASSUME MaxBatchDepth \in Nat
  PROVE  \E f : f = [n \in 0..MaxBatchDepth |-> LeavesLevel(f, n)]
<1> DEFINE T == {m \in Nat : m <= MaxBatchDepth => \E f : f = [n \in 0..m |-> LeavesLevel(f, n)]}
<1>1. 0 \in T
  <2> DEFINE f == [n \in 0..0 |-> LeavesLevel(<<>>, n)]
  <2>1. LeavesLevel(<<>>, 0) = LeavesLevel(f, 0)
    <3> HIDE DEF f
    <3> QED
      BY LeavesLevelLocal
  <2>2. \A n \in 0..0 : n = 0
    OBVIOUS
  <2>3. f = [n \in 0..0 |-> LeavesLevel(f, n)]
    BY <2>1, <2>2
  <2> HIDE DEF f
  <2> QED
    BY <2>3
<1>2. \A m \in Nat : m \in T => m + 1 \in T
  <2> SUFFICES ASSUME NEW m \in Nat, m + 1 <= MaxBatchDepth, m \in T
               PROVE  \E f : f = [n \in 0..m + 1 |-> LeavesLevel(f, n)]
    OBVIOUS
  <2>0. PICK g : g = [n \in 0..m |-> LeavesLevel(g, n)]
    OBVIOUS
  <2> DEFINE f == [n \in 0..m + 1 |-> IF n = m + 1 THEN LeavesLevel(g, m + 1) ELSE g[n]]
  <2>1. \A n \in 0..m : f[n] = g[n]
    OBVIOUS
  <2>2. f[m + 1] = LeavesLevel(g, m + 1)
    OBVIOUS
  <2>3. DOMAIN f = 0..m + 1 /\ f = [n \in 0..m + 1 |-> f[n]]
    OBVIOUS
  <2> HIDE DEF f
  <2>4. \A n \in 0..m + 1 : f[n] = LeavesLevel(f, n)
    <3> SUFFICES ASSUME NEW n \in 0..m + 1 PROVE f[n] = LeavesLevel(f, n)
      OBVIOUS
    <3>1. MaxBatchDepth \in Nat /\ n \in Nat /\ n <= MaxBatchDepth /\ \A i \in 0..n - 1 : f[i] = g[i]
      BY <2>1
    <3>2. LeavesLevel(f, n) = LeavesLevel(g, n)
      BY <3>1, LeavesLevelLocal, Zenon
    <3>3. CASE n = m + 1
      BY <3>2, <3>3, <2>2
    <3>4. CASE n # m + 1
      <4>1. n \in 0..m
        BY <3>4
      <4>2. g[n] = LeavesLevel(g, n)
        BY <4>1, <2>0
      <4> QED
        BY <4>1, <4>2, <3>2, <2>1
    <3> QED
      BY <3>3, <3>4
  <2>5. f = [n \in 0..m + 1 |-> LeavesLevel(f, n)]
    BY <2>3, <2>4
  <2> QED
    BY <2>5
<1>3. Nat \subseteq T
  <2> HIDE DEF T
  <2> QED
    BY <1>1, <1>2, SetInduction
<1> QED
  BY <1>3

\* One step of Sums.
SumStep(count, s, f, n) ==
    IF n = 0 THEN 0 ELSE f[n - 1] + count[s[n]]

LEMMA SumStepLocal ==
  ASSUME NEW count, NEW s, NEW f, NEW g, NEW n \in Nat, n <= Len(s), \A i \in 0..n - 1 : f[i] = g[i]
  PROVE  SumStep(count, s, f, n) = SumStep(count, s, g, n)
<1>1. n # 0 => n - 1 \in 0..n - 1
  OBVIOUS
<1>2. n # 0 => f[n - 1] = g[n - 1]
  BY <1>1
<1> QED
  BY <1>2, Zenon DEF SumStep

\* The recursion has a solution.
LEMMA SumStepExists ==
  ASSUME NEW count, NEW s, Len(s) \in Nat
  PROVE  \E f : f = [n \in 0..Len(s) |-> SumStep(count, s, f, n)]
<1> DEFINE T == {m \in Nat : m <= Len(s) => \E f : f = [n \in 0..m |-> SumStep(count, s, f, n)]}
<1>1. 0 \in T
  <2> DEFINE f == [n \in 0..0 |-> SumStep(count, s, <<>>, n)]
  <2>1. SumStep(count, s, <<>>, 0) = SumStep(count, s, f, 0)
    <3> HIDE DEF f
    <3> QED
      BY SumStepLocal
  <2>2. \A n \in 0..0 : n = 0
    OBVIOUS
  <2>3. f = [n \in 0..0 |-> SumStep(count, s, f, n)]
    BY <2>1, <2>2
  <2> HIDE DEF f
  <2> QED
    BY <2>3
<1>2. \A m \in Nat : m \in T => m + 1 \in T
  <2> SUFFICES ASSUME NEW m \in Nat, m + 1 <= Len(s), m \in T
               PROVE  \E f : f = [n \in 0..m + 1 |-> SumStep(count, s, f, n)]
    OBVIOUS
  <2>0. PICK g : g = [n \in 0..m |-> SumStep(count, s, g, n)]
    OBVIOUS
  <2> DEFINE f == [n \in 0..m + 1 |-> IF n = m + 1 THEN SumStep(count, s, g, m + 1) ELSE g[n]]
  <2>1. \A n \in 0..m : f[n] = g[n]
    OBVIOUS
  <2>2. f[m + 1] = SumStep(count, s, g, m + 1)
    OBVIOUS
  <2>3. DOMAIN f = 0..m + 1 /\ f = [n \in 0..m + 1 |-> f[n]]
    OBVIOUS
  <2> HIDE DEF f
  <2>4. \A n \in 0..m + 1 : f[n] = SumStep(count, s, f, n)
    <3> SUFFICES ASSUME NEW n \in 0..m + 1 PROVE f[n] = SumStep(count, s, f, n)
      OBVIOUS
    <3>1. Len(s) \in Nat /\ n \in Nat /\ n <= Len(s) /\ \A i \in 0..n - 1 : f[i] = g[i]
      BY <2>1
    <3>2. SumStep(count, s, f, n) = SumStep(count, s, g, n)
      BY <3>1, SumStepLocal, Zenon
    <3>3. CASE n = m + 1
      BY <3>2, <3>3, <2>2
    <3>4. CASE n # m + 1
      <4>1. n \in 0..m
        BY <3>4
      <4>2. g[n] = SumStep(count, s, g, n)
        BY <4>1, <2>0
      <4> QED
        BY <4>1, <4>2, <3>2, <2>1
    <3> QED
      BY <3>3, <3>4
  <2>5. f = [n \in 0..m + 1 |-> SumStep(count, s, f, n)]
    BY <2>3, <2>4
  <2> QED
    BY <2>5
<1>3. Nat \subseteq T
  <2> HIDE DEF T
  <2> QED
    BY <1>1, <1>2, SetInduction
<1> QED
  BY <1>3

\* One step of PackRun.
PackStep(d, s, f, n) ==
    IF n = 0 THEN [ok |-> TRUE, document |-> d, inverse |-> <<>>]
    ELSE Extended(f[n - 1], ApplyRecordLeaf(f[n - 1].document, s[n]))

LEMMA PackStepLocal ==
  ASSUME NEW d, NEW s, NEW f, NEW g, NEW n \in Nat, n <= Len(s), \A i \in 0..n - 1 : f[i] = g[i]
  PROVE  PackStep(d, s, f, n) = PackStep(d, s, g, n)
<1>1. n # 0 => n - 1 \in 0..n - 1
  OBVIOUS
<1>2. n # 0 => f[n - 1] = g[n - 1]
  BY <1>1
<1> QED
  BY <1>2, Zenon DEF PackStep

\* The recursion has a solution.
LEMMA PackStepExists ==
  ASSUME NEW d, NEW s, Len(s) \in Nat
  PROVE  \E f : f = [n \in 0..Len(s) |-> PackStep(d, s, f, n)]
<1> DEFINE T == {m \in Nat : m <= Len(s) => \E f : f = [n \in 0..m |-> PackStep(d, s, f, n)]}
<1>1. 0 \in T
  <2> DEFINE f == [n \in 0..0 |-> PackStep(d, s, <<>>, n)]
  <2>1. PackStep(d, s, <<>>, 0) = PackStep(d, s, f, 0)
    <3> HIDE DEF f
    <3> QED
      BY PackStepLocal
  <2>2. \A n \in 0..0 : n = 0
    OBVIOUS
  <2>3. f = [n \in 0..0 |-> PackStep(d, s, f, n)]
    BY <2>1, <2>2
  <2> HIDE DEF f
  <2> QED
    BY <2>3
<1>2. \A m \in Nat : m \in T => m + 1 \in T
  <2> SUFFICES ASSUME NEW m \in Nat, m + 1 <= Len(s), m \in T
               PROVE  \E f : f = [n \in 0..m + 1 |-> PackStep(d, s, f, n)]
    OBVIOUS
  <2>0. PICK g : g = [n \in 0..m |-> PackStep(d, s, g, n)]
    OBVIOUS
  <2> DEFINE f == [n \in 0..m + 1 |-> IF n = m + 1 THEN PackStep(d, s, g, m + 1) ELSE g[n]]
  <2>1. \A n \in 0..m : f[n] = g[n]
    OBVIOUS
  <2>2. f[m + 1] = PackStep(d, s, g, m + 1)
    OBVIOUS
  <2>3. DOMAIN f = 0..m + 1 /\ f = [n \in 0..m + 1 |-> f[n]]
    OBVIOUS
  <2> HIDE DEF f
  <2>4. \A n \in 0..m + 1 : f[n] = PackStep(d, s, f, n)
    <3> SUFFICES ASSUME NEW n \in 0..m + 1 PROVE f[n] = PackStep(d, s, f, n)
      OBVIOUS
    <3>1. Len(s) \in Nat /\ n \in Nat /\ n <= Len(s) /\ \A i \in 0..n - 1 : f[i] = g[i]
      BY <2>1
    <3>2. PackStep(d, s, f, n) = PackStep(d, s, g, n)
      BY <3>1, PackStepLocal, Zenon
    <3>3. CASE n = m + 1
      BY <3>2, <3>3, <2>2
    <3>4. CASE n # m + 1
      <4>1. n \in 0..m
        BY <3>4
      <4>2. g[n] = PackStep(d, s, g, n)
        BY <4>1, <2>0
      <4> QED
        BY <4>1, <4>2, <3>2, <2>1
    <3> QED
      BY <3>3, <3>4
  <2>5. f = [n \in 0..m + 1 |-> PackStep(d, s, f, n)]
    BY <2>3, <2>4
  <2> QED
    BY <2>5
<1>3. Nat \subseteq T
  <2> HIDE DEF T
  <2> QED
    BY <1>1, <1>2, SetInduction
<1> QED
  BY <1>3

\* One step of BatchRun.
RunStep(d, s, nested, f, n) ==
    IF n = 0 THEN [ok |-> TRUE, document |-> d, inverses |-> <<>>]
    ELSE AfterChild(f[Preceding(s, n)], s, n, nested)

LEMMA RunStepLocal ==
  ASSUME NEW d, NEW s, NEW nested, Len(s) \in Nat, NEW f, NEW g, NEW n \in Nat, n <= Len(s), \A i \in 0..n - 1 : f[i] = g[i]
  PROVE  RunStep(d, s, nested, f, n) = RunStep(d, s, nested, g, n)
<1>1. n # 0 => Preceding(s, n) \in 0..n - 1
  BY PrecedingBefore
<1>2. n # 0 => f[Preceding(s, n)] = g[Preceding(s, n)]
  BY <1>1
<1> QED
  BY <1>2, Zenon DEF RunStep

\* The recursion has a solution.
LEMMA RunStepExists ==
  ASSUME NEW d, NEW s, NEW nested, Len(s) \in Nat
  PROVE  \E f : f = [n \in 0..Len(s) |-> RunStep(d, s, nested, f, n)]
<1> DEFINE T == {m \in Nat : m <= Len(s) => \E f : f = [n \in 0..m |-> RunStep(d, s, nested, f, n)]}
<1>0. \A f, g : \A n \in 0..Len(s) : (\A i \in 0..n - 1 : f[i] = g[i]) => RunStep(d, s, nested, f, n) = RunStep(d, s, nested, g, n)
  <2> SUFFICES ASSUME NEW f, NEW g, NEW n \in 0..Len(s), \A i \in 0..n - 1 : f[i] = g[i]
               PROVE  RunStep(d, s, nested, f, n) = RunStep(d, s, nested, g, n)
    OBVIOUS
  <2>1. n \in Nat /\ n <= Len(s)
    OBVIOUS
  <2> QED
    BY <2>1, RunStepLocal
<1>1. 0 \in T
  <2> DEFINE f == [n \in 0..0 |-> RunStep(d, s, nested, <<>>, n)]
  <2>1. RunStep(d, s, nested, <<>>, 0) = RunStep(d, s, nested, f, 0)
    <3> HIDE DEF f
    <3> QED
      BY RunStepLocal
  <2>2. \A n \in 0..0 : n = 0
    OBVIOUS
  <2>3. f = [n \in 0..0 |-> RunStep(d, s, nested, f, n)]
    BY <2>1, <2>2
  <2> HIDE DEF f
  <2> QED
    BY <2>3
<1>2. \A m \in Nat : m \in T => m + 1 \in T
  <2> SUFFICES ASSUME NEW m \in Nat, m + 1 <= Len(s), m \in T
               PROVE  \E f : f = [n \in 0..m + 1 |-> RunStep(d, s, nested, f, n)]
    OBVIOUS
  <2>0. PICK g : g = [n \in 0..m |-> RunStep(d, s, nested, g, n)]
    OBVIOUS
  <2> DEFINE f == [n \in 0..m + 1 |-> IF n = m + 1 THEN RunStep(d, s, nested, g, m + 1) ELSE g[n]]
  <2>1. \A n \in 0..m : f[n] = g[n]
    OBVIOUS
  <2>2. f[m + 1] = RunStep(d, s, nested, g, m + 1)
    OBVIOUS
  <2>3. DOMAIN f = 0..m + 1 /\ f = [n \in 0..m + 1 |-> f[n]]
    OBVIOUS
  <2> HIDE DEF f
  <2>4. \A n \in 0..m + 1 : f[n] = RunStep(d, s, nested, f, n)
    <3> SUFFICES ASSUME NEW n \in 0..m + 1 PROVE f[n] = RunStep(d, s, nested, f, n)
      OBVIOUS
    <3>1. Len(s) \in Nat /\ n \in Nat /\ n <= Len(s) /\ \A i \in 0..n - 1 : f[i] = g[i]
      BY <2>1
    <3>2. RunStep(d, s, nested, f, n) = RunStep(d, s, nested, g, n)
      BY <3>1, <1>0
    <3>3. CASE n = m + 1
      BY <3>2, <3>3, <2>2
    <3>4. CASE n # m + 1
      <4>1. n \in 0..m
        BY <3>4
      <4>2. g[n] = RunStep(d, s, nested, g, n)
        BY <4>1, <2>0
      <4> QED
        BY <4>1, <4>2, <3>2, <2>1
    <3> QED
      BY <3>3, <3>4
  <2>5. f = [n \in 0..m + 1 |-> RunStep(d, s, nested, f, n)]
    BY <2>3, <2>4
  <2> QED
    BY <2>5
<1>3. Nat \subseteq T
  <2> HIDE DEF T
  <2> QED
    BY <1>1, <1>2, SetInduction
<1> QED
  BY <1>3

-----------------------------------------------------------------------------
(***************************************************************************)
(* The defining equations.                                                 *)
(***************************************************************************)
LEMMA DepthIsNat == MaxBatchDepth \in Nat
BY CommandConstants

LEMMA TreeEquation ==
  /\ Tree[0] = Leaf
  /\ \A n \in 0..MaxBatchDepth - 1 : Tree[n + 1] = Leaf \cup [op : {"batch"}, commands : Seq(Tree[n]) \ {<<>>}]
<1> DEFINE f == CHOOSE g : g = [n \in 0..MaxBatchDepth |-> TreeLevel(g, n)]
<1>1. f = [n \in 0..MaxBatchDepth |-> TreeLevel(f, n)]
  BY DepthIsNat, TreeLevelExists, Zenon
<1>2. Tree = f
  BY Zenon DEF Tree, TreeLevel
<1> HIDE DEF f
<1>3. \A n \in 0..MaxBatchDepth : Tree[n] = TreeLevel(Tree, n)
  BY <1>1, <1>2
<1>4. Tree[0] = TreeLevel(Tree, 0)
  BY <1>3, DepthIsNat
<1>5. \A n \in 0..MaxBatchDepth - 1 : n + 1 # 0 /\ (n + 1) - 1 = n /\ Tree[n + 1] = TreeLevel(Tree, n + 1)
  BY <1>3, DepthIsNat
<1>6. \A n \in 0..MaxBatchDepth - 1 : TreeLevel(Tree, n + 1) = Leaf \cup [op : {"batch"}, commands : Seq(Tree[n]) \ {<<>>}]
  <2> SUFFICES ASSUME NEW n \in 0..MaxBatchDepth - 1 PROVE TreeLevel(Tree, n + 1) = Leaf \cup [op : {"batch"}, commands : Seq(Tree[n]) \ {<<>>}]
    OBVIOUS
  <2>1. n + 1 # 0 /\ (n + 1) - 1 = n
    BY <1>5
  <2> QED
    BY <2>1, Zenon DEF TreeLevel
<1> QED
  BY <1>4, <1>5, <1>6, Zenon DEF TreeLevel

LEMMA EffectsEquation ==
  /\ Effects[0] = [command \in Leaf |-> [d \in Document |-> ApplyLeaf(d, command)]]
  /\ \A n \in 0..MaxBatchDepth - 1 : Effects[n + 1] = [command \in Tree[n + 1] |-> [d \in Document |->
        IF IsBatch(command)
        THEN ApplyBatch(d, command.commands, Effects[n])
        ELSE ApplyLeaf(d, command)]]
<1> DEFINE f == CHOOSE g : g = [n \in 0..MaxBatchDepth |-> EffectsLevel(g, n)]
<1>1. f = [n \in 0..MaxBatchDepth |-> EffectsLevel(f, n)]
  BY DepthIsNat, EffectsLevelExists, Zenon
<1>2. Effects = f
  BY Zenon DEF Effects, EffectsLevel
<1> HIDE DEF f
<1>3. \A n \in 0..MaxBatchDepth : Effects[n] = EffectsLevel(Effects, n)
  BY <1>1, <1>2
<1>4. Effects[0] = EffectsLevel(Effects, 0)
  BY <1>3, DepthIsNat
<1>5. \A n \in 0..MaxBatchDepth - 1 : n + 1 # 0 /\ (n + 1) - 1 = n /\ Effects[n + 1] = EffectsLevel(Effects, n + 1)
  BY <1>3, DepthIsNat
<1>6. \A n \in 0..MaxBatchDepth - 1 : EffectsLevel(Effects, n + 1) = [command \in Tree[n + 1] |-> [d \in Document |->
        IF IsBatch(command)
        THEN ApplyBatch(d, command.commands, Effects[n])
        ELSE ApplyLeaf(d, command)]]
  <2> SUFFICES ASSUME NEW n \in 0..MaxBatchDepth - 1 PROVE EffectsLevel(Effects, n + 1) = [command \in Tree[n + 1] |-> [d \in Document |->
        IF IsBatch(command)
        THEN ApplyBatch(d, command.commands, Effects[n])
        ELSE ApplyLeaf(d, command)]]
    OBVIOUS
  <2>1. n + 1 # 0 /\ (n + 1) - 1 = n
    BY <1>5
  <2> QED
    BY <2>1, Zenon DEF EffectsLevel
<1> QED
  BY <1>4, <1>5, <1>6, Zenon DEF EffectsLevel

LEMMA LeavesEquation ==
  /\ Leaves[0] = [command \in Leaf |-> 1]
  /\ \A n \in 0..MaxBatchDepth - 1 : Leaves[n + 1] = [command \in Tree[n + 1] |->
        IF IsBatch(command)
        THEN Sums(Leaves[n], command.commands)[Len(command.commands)]
        ELSE 1]
<1> DEFINE f == CHOOSE g : g = [n \in 0..MaxBatchDepth |-> LeavesLevel(g, n)]
<1>1. f = [n \in 0..MaxBatchDepth |-> LeavesLevel(f, n)]
  BY DepthIsNat, LeavesLevelExists, Zenon
<1>2. Leaves = f
  BY Zenon DEF Leaves, LeavesLevel
<1> HIDE DEF f
<1>3. \A n \in 0..MaxBatchDepth : Leaves[n] = LeavesLevel(Leaves, n)
  BY <1>1, <1>2
<1>4. Leaves[0] = LeavesLevel(Leaves, 0)
  BY <1>3, DepthIsNat
<1>5. \A n \in 0..MaxBatchDepth - 1 : n + 1 # 0 /\ (n + 1) - 1 = n /\ Leaves[n + 1] = LeavesLevel(Leaves, n + 1)
  BY <1>3, DepthIsNat
<1>6. \A n \in 0..MaxBatchDepth - 1 : LeavesLevel(Leaves, n + 1) = [command \in Tree[n + 1] |->
        IF IsBatch(command)
        THEN Sums(Leaves[n], command.commands)[Len(command.commands)]
        ELSE 1]
  <2> SUFFICES ASSUME NEW n \in 0..MaxBatchDepth - 1 PROVE LeavesLevel(Leaves, n + 1) = [command \in Tree[n + 1] |->
        IF IsBatch(command)
        THEN Sums(Leaves[n], command.commands)[Len(command.commands)]
        ELSE 1]
    OBVIOUS
  <2>1. n + 1 # 0 /\ (n + 1) - 1 = n
    BY <1>5
  <2> QED
    BY <2>1, Zenon DEF LeavesLevel
<1> QED
  BY <1>4, <1>5, <1>6, Zenon DEF LeavesLevel

LEMMA SumsEquation ==
  ASSUME NEW count, NEW s, Len(s) \in Nat
  PROVE  /\ Sums(count, s)[0] = 0
         /\ \A n \in 1..Len(s) : Sums(count, s)[n] = Sums(count, s)[n - 1] + count[s[n]]
<1> DEFINE f == CHOOSE g : g = [n \in 0..Len(s) |-> SumStep(count, s, g, n)]
<1>1. f = [n \in 0..Len(s) |-> SumStep(count, s, f, n)]
  BY SumStepExists, Zenon
<1>2. Sums(count, s) = f
  BY Zenon DEF Sums, SumStep
<1> HIDE DEF f
<1>3. PICK run : run = Sums(count, s)
  OBVIOUS
<1>4. \A n \in 0..Len(s) : run[n] = SumStep(count, s, run, n)
  BY <1>1, <1>2, <1>3
<1>5. 0 \in 0..Len(s) /\ \A n \in 1..Len(s) : n \in 0..Len(s) /\ n # 0
  OBVIOUS
<1>6. run[0] = 0
  BY <1>4, <1>5, Zenon DEF SumStep
<1>7. \A n \in 1..Len(s) : run[n] = run[n - 1] + count[s[n]]
  BY <1>4, <1>5, Zenon DEF SumStep
<1> QED
  BY <1>3, <1>6, <1>7, Zenon

LEMMA PackRunEquation ==
  ASSUME NEW d, NEW s, Len(s) \in Nat
  PROVE  /\ PackRun(d, s)[0] = [ok |-> TRUE, document |-> d, inverse |-> <<>>]
         /\ \A n \in 1..Len(s) : PackRun(d, s)[n] = Extended(PackRun(d, s)[n - 1], ApplyRecordLeaf(PackRun(d, s)[n - 1].document, s[n]))
<1> DEFINE f == CHOOSE g : g = [n \in 0..Len(s) |-> PackStep(d, s, g, n)]
<1>1. f = [n \in 0..Len(s) |-> PackStep(d, s, f, n)]
  BY PackStepExists, Zenon
<1>2. PackRun(d, s) = f
  BY Zenon DEF PackRun, PackStep
<1> HIDE DEF f
<1>3. PICK run : run = PackRun(d, s)
  OBVIOUS
<1>4. \A n \in 0..Len(s) : run[n] = PackStep(d, s, run, n)
  BY <1>1, <1>2, <1>3
<1>5. 0 \in 0..Len(s) /\ \A n \in 1..Len(s) : n \in 0..Len(s) /\ n # 0
  OBVIOUS
<1>6. run[0] = [ok |-> TRUE, document |-> d, inverse |-> <<>>]
  BY <1>4, <1>5, Zenon DEF PackStep
<1>7. \A n \in 1..Len(s) : run[n] = Extended(run[n - 1], ApplyRecordLeaf(run[n - 1].document, s[n]))
  BY <1>4, <1>5, Zenon DEF PackStep
<1> QED
  BY <1>3, <1>6, <1>7, Zenon

LEMMA BatchRunEquation ==
  ASSUME NEW d, NEW s, NEW nested, Len(s) \in Nat
  PROVE  /\ BatchRun(d, s, nested)[0] = [ok |-> TRUE, document |-> d, inverses |-> <<>>]
         /\ \A n \in 1..Len(s) : BatchRun(d, s, nested)[n] = AfterChild(BatchRun(d, s, nested)[Preceding(s, n)], s, n, nested)
<1> DEFINE f == CHOOSE g : g = [n \in 0..Len(s) |-> RunStep(d, s, nested, g, n)]
<1>0. \E g : g = [n \in 0..Len(s) |-> RunStep(d, s, nested, g, n)]
  BY RunStepExists, SMT
<1>1. f = [n \in 0..Len(s) |-> RunStep(d, s, nested, f, n)]
  BY <1>0, Zenon
<1>2. BatchRun(d, s, nested) = f
  BY Zenon DEF BatchRun, RunStep
<1> HIDE DEF f
<1>3. PICK run : run = BatchRun(d, s, nested)
  OBVIOUS
<1>4. \A n \in 0..Len(s) : run[n] = RunStep(d, s, nested, run, n)
  BY <1>1, <1>2, <1>3
<1>5. 0 \in 0..Len(s) /\ \A n \in 1..Len(s) : n \in 0..Len(s) /\ n # 0
  OBVIOUS
<1>6. run[0] = [ok |-> TRUE, document |-> d, inverses |-> <<>>]
  BY <1>4, <1>5, Zenon DEF RunStep
<1>7. \A n \in 1..Len(s) : run[n] = AfterChild(run[Preceding(s, n)], s, n, nested)
  BY <1>4, <1>5, Zenon DEF RunStep
<1> QED
  BY <1>3, <1>6, <1>7, Zenon

-----------------------------------------------------------------------------
(***************************************************************************)
(* Leaves: what a leaf does, its inverse undoes.                           *)
(***************************************************************************)
\* The effects of commands in T.
EffectOf(T) == [ok : BOOLEAN, document : Document, inverse : T \cup {<<>>}]

LEMMA LeafFields ==
  ASSUME NEW c \in Leaf
  PROVE  /\ c.op \in {"add", "update", "remove", "set", "lock", "unlock", "domain", "settings"}
         /\ c.op \in {"add", "update"} => c.key \in Record /\ c.value \in Value
         /\ c.op = "remove" => c.key \in Record /\ c.value = Absent
         /\ c.op = "set" => c.key \in Preference /\ c.value \in Value \cup {Absent}
         /\ c.op = "lock" => c.key \in Lock /\ c.value \in Value
         /\ c.op = "unlock" => c.key \in Lock /\ c.value = Absent
         /\ c.op = "domain" => c.key \in Record \cup Shift /\ c.value \in Value \cup {Absent}
         /\ c.op = "settings" => c.key \in Setting /\ c.value \in Zone /\ c.restored \in Spelling
BY DEF Leaf

LEMMA LeafIsNoBatch ==
  ASSUME NEW c \in Leaf
  PROVE  ~IsBatch(c)
BY LeafFields DEF IsBatch

LEMMA DocumentField ==
  ASSUME NEW d \in Document
  PROVE  d \in [Key -> Value \cup {Absent}] /\ Spelled(d)
BY DEF Document

LEMMA PlainKeyStored ==
  ASSUME NEW d \in Document, NEW k \in Record \cup Preference \cup Lock, NEW v \in Value \cup {Absent}
  PROVE  [d EXCEPT ![k] = v] \in Document
<1> DEFINE e == [d EXCEPT ![k] = v]
<1>1. k \in Key /\ k \notin Shift /\ k \notin Setting
  BY CommandConstants DEF Key
<1>2. e \in [Key -> Value \cup {Absent}] /\ \A i \in Key \ {k} : e[i] = d[i]
  BY <1>1, DocumentField
<1>3. \A i \in Shift \cup Setting : e[i] = d[i]
  BY <1>1, <1>2 DEF Key
<1> HIDE DEF e
<1>4. Spelled(e)
  BY <1>3, DocumentField DEF Spelled
<1> QED
  BY <1>2, <1>4 DEF Document, e

\* What an admitted record leaf stores is a document.
LEMMA RecordLeafStored ==
  ASSUME NEW d \in Document, NEW c \in Leaf, c.op # "settings", LeafAdmitted(d, c)
  PROVE  /\ c.key \in Key
         /\ c.value \in Value \cup {Absent}
         /\ [d EXCEPT ![c.key] = c.value] \in Document
<1>1. c.key \in Key /\ c.value \in Value \cup {Absent}
  BY LeafFields DEF Key
<1>2. CASE c.op = "domain"
  <2>1. Spelled([d EXCEPT ![c.key] = c.value])
    BY <1>2 DEF LeafAdmitted
  <2>2. [d EXCEPT ![c.key] = c.value] \in [Key -> Value \cup {Absent}]
    BY <1>1, DocumentField
  <2> QED
    BY <1>1, <2>1, <2>2 DEF Document
<1>3. CASE c.op # "domain"
  <2>1. c.key \in Record \cup Preference \cup Lock
    BY <1>3, LeafFields
  <2> QED
    BY <1>1, <2>1, PlainKeyStored
<1> QED
  BY <1>2, <1>3

LEMMA RecordInverseFields ==
  ASSUME NEW d \in Document, NEW c \in Leaf, c.op # "settings", LeafAdmitted(d, c)
  PROVE  /\ LeafInverse(d, c) \in Leaf
         /\ LeafInverse(d, c).op # "settings"
         /\ LeafInverse(d, c).key = c.key
         /\ LeafInverse(d, c).value = d[c.key]
<1>1. c.key \in Key /\ d[c.key] \in Value \cup {Absent}
  BY LeafFields, DocumentField DEF Key
<1>2. CASE c.op = "add"
  BY <1>1, <1>2, LeafFields DEF LeafAdmitted, LeafInverse, Leaf
<1>3. CASE c.op = "update"
  BY <1>1, <1>3, LeafFields DEF LeafAdmitted, LeafInverse, Leaf
<1>4. CASE c.op = "remove"
  BY <1>1, <1>4, LeafFields DEF LeafAdmitted, LeafInverse, Leaf
<1>5. CASE c.op = "set"
  BY <1>1, <1>5, LeafFields DEF LeafAdmitted, LeafInverse, Leaf
<1>6. CASE c.op = "lock"
  BY <1>1, <1>6, LeafFields DEF LeafAdmitted, LeafInverse, Leaf
<1>7. CASE c.op = "unlock"
  BY <1>1, <1>7, LeafFields DEF LeafAdmitted, LeafInverse, Leaf
<1>8. CASE c.op = "domain"
  BY <1>1, <1>8, LeafFields DEF LeafAdmitted, LeafInverse, Leaf
<1> QED
  BY <1>2, <1>3, <1>4, <1>5, <1>6, <1>7, <1>8, LeafFields

\* The inverse of a record leaf is admitted where the leaf leads.
LEMMA RecordInverseAdmitted ==
  ASSUME NEW d \in Document, NEW c \in Leaf, c.op # "settings", LeafAdmitted(d, c)
  PROVE  LeafAdmitted([d EXCEPT ![c.key] = c.value], LeafInverse(d, c))
<1> DEFINE e == [d EXCEPT ![c.key] = c.value]
           b == LeafInverse(d, c)
<1> SUFFICES LeafAdmitted(e, b)
  OBVIOUS
<1>1. c.key \in Key /\ d[c.key] \in Value \cup {Absent} /\ e[c.key] = c.value
      /\ [e EXCEPT ![c.key] = d[c.key]] = d
  BY LeafFields, DocumentField DEF Key
<1>2. b.key = c.key /\ b.value = d[c.key]
  BY RecordInverseFields
<1>3. Absent \notin Value
  BY CommandConstants
<1> HIDE DEF e
<1>4. CASE c.op = "add"
  <2>1. b.op = "remove"
    BY <1>4 DEF LeafInverse
  <2> HIDE DEF b
  <2> QED
    BY <1>1, <1>2, <1>3, <1>4, <2>1, LeafFields DEF LeafAdmitted
<1>5. CASE c.op = "update"
  <2>1. b.op = "update"
    BY <1>5 DEF LeafInverse
  <2> HIDE DEF b
  <2> QED
    BY <1>1, <1>2, <1>3, <1>5, <2>1, LeafFields DEF LeafAdmitted
<1>6. CASE c.op = "remove"
  <2>1. b.op = "add"
    BY <1>6 DEF LeafInverse
  <2> HIDE DEF b
  <2> QED
    BY <1>1, <1>2, <1>3, <1>6, <2>1, LeafFields DEF LeafAdmitted
<1>7. CASE c.op = "set"
  <2>1. b.op = "set"
    BY <1>7 DEF LeafInverse
  <2>2. c.value # Absent \/ d[c.key] # Absent
    BY <1>7 DEF LeafAdmitted
  <2> HIDE DEF b
  <2> QED
    BY <1>1, <1>2, <2>1, <2>2 DEF LeafAdmitted
<1>8. CASE c.op = "lock"
  <2>1. b.op = "unlock"
    BY <1>8 DEF LeafInverse
  <2> HIDE DEF b
  <2> QED
    BY <1>1, <1>2, <1>3, <1>8, <2>1, LeafFields DEF LeafAdmitted
<1>9. CASE c.op = "unlock"
  <2>1. b.op = "lock"
    BY <1>9 DEF LeafInverse
  <2> HIDE DEF b
  <2> QED
    BY <1>1, <1>2, <1>3, <1>9, <2>1, LeafFields DEF LeafAdmitted
<1>10. CASE c.op = "domain"
  <2>1. b.op = "domain"
    BY <1>10 DEF LeafInverse
  <2>2. c.value # Absent \/ d[c.key] # Absent
    BY <1>10 DEF LeafAdmitted
  <2>3. Spelled([e EXCEPT ![b.key] = b.value])
    BY <1>1, <1>2, DocumentField
  <2> HIDE DEF b
  <2> QED
    BY <1>1, <1>2, <2>1, <2>2, <2>3 DEF LeafAdmitted
<1> QED
  BY <1>4, <1>5, <1>6, <1>7, <1>8, <1>9, <1>10, LeafFields

\* A record leaf: the inverse finds its precondition and restores the record.
LEMMA RecordLeafUndone ==
  ASSUME NEW d \in Document, NEW c \in Leaf, c.op # "settings"
  PROVE  LET effect == ApplyRecordLeaf(d, c)
         IN  /\ effect \in EffectOf(Leaf)
             /\ effect.ok => /\ effect.inverse \in Leaf
                             /\ effect.inverse.op # "settings"
                             /\ ApplyRecordLeaf(effect.document, effect.inverse).ok
                             /\ ApplyRecordLeaf(effect.document, effect.inverse).document = d
<1>1. CASE ~LeafAdmitted(d, c)
  BY <1>1 DEF ApplyRecordLeaf, Refused, EffectOf
<1>2. CASE LeafAdmitted(d, c)
  <2>1. PICK e \in Document : e = [d EXCEPT ![c.key] = c.value]
    BY <1>2, RecordLeafStored
  <2>2. PICK b \in Leaf : b = LeafInverse(d, c)
    BY <1>2, RecordInverseFields
  <2>3. b.op # "settings" /\ b.key = c.key /\ b.value = d[c.key]
    BY <1>2, <2>2, RecordInverseFields
  <2>4. LeafAdmitted(e, b)
    BY <1>2, <2>1, <2>2, RecordInverseAdmitted
  <2>5. [e EXCEPT ![b.key] = b.value] = d
    BY <1>2, <2>1, <2>3, RecordLeafStored, DocumentField
  <2>6. ApplyRecordLeaf(d, c) = [ok |-> TRUE, document |-> e, inverse |-> b]
    BY <1>2, <2>1, <2>2 DEF ApplyRecordLeaf, Applied
  <2>7. ApplyRecordLeaf(e, b).ok /\ ApplyRecordLeaf(e, b).document = d
    BY <2>4, <2>5 DEF ApplyRecordLeaf, Applied
  <2> QED
    BY <2>3, <2>6, <2>7 DEF EffectOf
<1> QED
  BY <1>1, <1>2

\* Spellings after a change of the settings.
LEMMA ReconciledSpelling ==
  ASSUME NEW d \in Document, NEW c \in Leaf, c.op = "settings", RestorationAdmitted(d, c), NEW h \in Shift
  PROVE  /\ Reconciled(d, c, h) \in Value \cup {Absent}
         /\ Reconciled(d, c, h) # Absent => Fits(Reconciled(d, c, h), c.value)
         /\ Reconciled(d, c, h) # d[h] => d[h] # Absent /\ Reconciled(d, c, h) # Absent
<1>1. d[h] \in Value \cup {Absent}
  BY DocumentField DEF Key
<1>2. c.value \in Value /\ Fits(c.value, c.value) /\ Absent \notin Value
  BY LeafFields, CommandConstants
<1>3. PICK shifts \in SUBSET Shift : c.restored \in [shifts -> Value]
  BY LeafFields DEF Spelling
<1>4. CASE h \in DOMAIN c.restored
  <2>1. Reconciled(d, c, h) = c.restored[h]
    BY <1>4 DEF Reconciled
  <2>2. c.restored[h] \in Value
    BY <1>3, <1>4
  <2>3. d[h] # Absent /\ Fits(c.restored[h], c.value)
    BY <1>4 DEF RestorationAdmitted
  <2> QED
    BY <1>2, <2>1, <2>2, <2>3
<1>5. CASE h \notin DOMAIN c.restored /\ (d[h] = Absent \/ Fits(d[h], c.value))
  <2>1. Reconciled(d, c, h) = d[h]
    BY <1>5, Zenon DEF Reconciled
  <2> QED
    BY <1>1, <1>5, <2>1
<1>6. CASE h \notin DOMAIN c.restored /\ d[h] # Absent /\ ~Fits(d[h], c.value)
  <2>1. Reconciled(d, c, h) = c.value
    BY <1>6, Zenon DEF Reconciled
  <2> QED
    BY <1>2, <1>6, <2>1
<1> QED
  BY <1>4, <1>5, <1>6

\* A settings leaf: the zone and every spelling it displaced come back.
LEMMA SettingsUndone ==
  ASSUME NEW d \in Document, NEW c \in Leaf, c.op = "settings"
  PROVE  LET effect == SetScenarioSettings(d, c)
         IN  /\ effect \in EffectOf(Leaf)
             /\ effect.ok => /\ effect.inverse \in Leaf
                             /\ effect.inverse.op = "settings"
                             /\ SetScenarioSettings(effect.document, effect.inverse).ok
                             /\ SetScenarioSettings(effect.document, effect.inverse).document = d
<1>1. CASE ~RestorationAdmitted(d, c)
  BY <1>1 DEF SetScenarioSettings, Refused, EffectOf
<1>2. CASE RestorationAdmitted(d, c)
  <2> DEFINE e == [k \in Key |-> IF k \in Shift THEN Reconciled(d, c, k)
                                 ELSE IF k = c.key THEN c.value ELSE d[k]]
             b == [op |-> "settings", key |-> c.key, value |-> d[c.key],
                   restored |-> Restoration(d, c)]
             changed == {h \in Shift : Reconciled(d, c, h) # d[h]}
  <2>1. d \in [Key -> Value \cup {Absent}] /\ Spelled(d)
    BY DocumentField
  <2>2. c.key \in Setting /\ c.value \in Zone /\ c.key \in Key /\ c.key \notin Shift
        /\ (\A z \in Setting : z = c.key) /\ Zone \subseteq Value /\ Absent \notin Value
        /\ Shift \subseteq Key
    BY LeafFields, CommandConstants DEF Key
  <2>3. /\ \A h \in Shift : e[h] = Reconciled(d, c, h)
        /\ e[c.key] = c.value
        /\ \A k \in Key \ Shift : k # c.key => e[k] = d[k]
    BY <2>2
  <2>4. \A h \in Shift : /\ e[h] \in Value \cup {Absent}
                         /\ e[h] # Absent => Fits(e[h], c.value)
                         /\ e[h] # d[h] => d[h] # Absent /\ e[h] # Absent
    BY <1>2, <2>3, ReconciledSpelling
  <2>5. e \in Document
    <3>1. e \in [Key -> Value \cup {Absent}]
      BY <2>1, <2>2, <2>4
    <3> HIDE DEF e
    <3>2. Spelled(e)
      BY <2>2, <2>3, <2>4 DEF Spelled
    <3> QED
      BY <3>1, <3>2 DEF Document
  <2>6. \A h \in Shift : d[h] # Absent => Fits(d[h], d[c.key])
    BY <2>1, <2>2 DEF Spelled
  <2>7. d[c.key] \in Zone
    BY <2>1, <2>2 DEF Spelled
  <2>8. changed = {h \in Shift : e[h] # d[h]}
    BY <2>3
  <2>9. Restoration(d, c) = [h \in changed |-> d[h]]
    BY Zenon DEF Restoration
  <2>10. b \in Leaf
    <3>1. \A h \in changed : d[h] \in Value
      BY <2>1, <2>2, <2>4, <2>8
    <3>2. [h \in changed |-> d[h]] \in [changed -> Value] /\ changed \in SUBSET Shift
      BY <3>1
    <3>3. Restoration(d, c) \in Spelling
      BY <2>9, <3>2, Zenon DEF Spelling
    <3> HIDE DEF changed
    <3> QED
      BY <2>2, <2>7, <3>3 DEF Leaf
  <2>11. b.op = "settings" /\ b.key = c.key /\ b.value = d[c.key] /\ b.restored = [h \in changed |-> d[h]]
    BY <2>9
  <2>12. SetScenarioSettings(d, c) = [ok |-> TRUE, document |-> e, inverse |-> b]
    BY <1>2, Zenon DEF SetScenarioSettings, Applied
  <2> HIDE DEF b, e
  <2>13. RestorationAdmitted(e, b)
    BY <2>4, <2>6, <2>8, <2>11 DEF RestorationAdmitted
  <2>14. \A h \in Shift : Reconciled(e, b, h) = d[h]
    <3> SUFFICES ASSUME NEW h \in Shift PROVE Reconciled(e, b, h) = d[h]
      OBVIOUS
    <3>1. CASE h \in changed
      BY <2>11, <3>1 DEF Reconciled
    <3>2. CASE h \notin changed
      <4>1. e[h] = d[h] /\ h \notin DOMAIN b.restored
        BY <2>8, <2>11, <3>2
      <4>2. e[h] = Absent \/ Fits(e[h], b.value)
        BY <4>1, <2>6, <2>11
      <4> QED
        BY <4>1, <4>2, Zenon DEF Reconciled
    <3> QED
      BY <3>1, <3>2
  <2>15. [k \in Key |-> IF k \in Shift THEN Reconciled(e, b, k)
                        ELSE IF k = b.key THEN b.value ELSE e[k]] = d
    BY <2>1, <2>3, <2>11, <2>14
  <2>16. SetScenarioSettings(e, b).ok /\ SetScenarioSettings(e, b).document = d
    BY <2>13, <2>15 DEF SetScenarioSettings, Applied
  <2> QED
    BY <2>5, <2>10, <2>11, <2>12, <2>16 DEF EffectOf
<1> QED
  BY <1>1, <1>2

\* Any leaf.
LEMMA LeafUndone ==
  ASSUME NEW d \in Document, NEW c \in Leaf
  PROVE  LET effect == ApplyLeaf(d, c)
         IN  /\ effect \in EffectOf(Leaf)
             /\ effect.ok => /\ effect.inverse \in Leaf
                             /\ ApplyLeaf(effect.document, effect.inverse).ok
                             /\ ApplyLeaf(effect.document, effect.inverse).document = d
<1>1. CASE c.op = "settings"
  BY <1>1, SettingsUndone DEF ApplyLeaf
<1>2. CASE c.op # "settings"
  BY <1>2, RecordLeafUndone DEF ApplyLeaf
<1> QED
  BY <1>1, <1>2

-----------------------------------------------------------------------------
(***************************************************************************)
(* Batches.  The reference is a run that takes the children one by one,    *)
(* domain commands too; the engine's run, which hands the pack pieces of   *)
(* several, comes to the same.                                             *)
(***************************************************************************)
OneByOne(d, s, nested) ==
    LET run[k \in 0 .. Len(s)] ==
            IF k = 0 THEN [ok |-> TRUE, document |-> d, inverses |-> <<>>]
            ELSE IF ~run[k - 1].ok THEN run[k - 1]
            ELSE Extend(run[k - 1], nested[s[k]][run[k - 1].document])
    IN  run

\* One step of OneByOne.
SingleStep(d, s, nested, f, n) ==
    IF n = 0 THEN [ok |-> TRUE, document |-> d, inverses |-> <<>>]
    ELSE IF ~f[n - 1].ok THEN f[n - 1]
    ELSE Extend(f[n - 1], nested[s[n]][f[n - 1].document])

LEMMA SingleStepLocal ==
  ASSUME NEW d, NEW s, NEW nested, Len(s) \in Nat, NEW f, NEW g, NEW n \in Nat, n <= Len(s), \A i \in 0..n - 1 : f[i] = g[i]
  PROVE  SingleStep(d, s, nested, f, n) = SingleStep(d, s, nested, g, n)
<1>1. n # 0 => n - 1 \in 0..n - 1
  OBVIOUS
<1>2. n # 0 => f[n - 1] = g[n - 1]
  BY <1>1
<1> QED
  BY <1>2, Zenon DEF SingleStep

\* The recursion has a solution.
LEMMA SingleStepExists ==
  ASSUME NEW d, NEW s, NEW nested, Len(s) \in Nat
  PROVE  \E f : f = [n \in 0..Len(s) |-> SingleStep(d, s, nested, f, n)]
<1> DEFINE T == {m \in Nat : m <= Len(s) => \E f : f = [n \in 0..m |-> SingleStep(d, s, nested, f, n)]}
<1>0. \A f, g : \A n \in 0..Len(s) : (\A i \in 0..n - 1 : f[i] = g[i]) => SingleStep(d, s, nested, f, n) = SingleStep(d, s, nested, g, n)
  <2> SUFFICES ASSUME NEW f, NEW g, NEW n \in 0..Len(s), \A i \in 0..n - 1 : f[i] = g[i]
               PROVE  SingleStep(d, s, nested, f, n) = SingleStep(d, s, nested, g, n)
    OBVIOUS
  <2>1. n \in Nat /\ n <= Len(s)
    OBVIOUS
  <2> QED
    BY <2>1, SingleStepLocal
<1>1. 0 \in T
  <2> DEFINE f == [n \in 0..0 |-> SingleStep(d, s, nested, <<>>, n)]
  <2>1. SingleStep(d, s, nested, <<>>, 0) = SingleStep(d, s, nested, f, 0)
    <3> HIDE DEF f
    <3> QED
      BY SingleStepLocal
  <2>2. \A n \in 0..0 : n = 0
    OBVIOUS
  <2>3. f = [n \in 0..0 |-> SingleStep(d, s, nested, f, n)]
    BY <2>1, <2>2
  <2> HIDE DEF f
  <2> QED
    BY <2>3
<1>2. \A m \in Nat : m \in T => m + 1 \in T
  <2> SUFFICES ASSUME NEW m \in Nat, m + 1 <= Len(s), m \in T
               PROVE  \E f : f = [n \in 0..m + 1 |-> SingleStep(d, s, nested, f, n)]
    OBVIOUS
  <2>0. PICK g : g = [n \in 0..m |-> SingleStep(d, s, nested, g, n)]
    OBVIOUS
  <2> DEFINE f == [n \in 0..m + 1 |-> IF n = m + 1 THEN SingleStep(d, s, nested, g, m + 1) ELSE g[n]]
  <2>1. \A n \in 0..m : f[n] = g[n]
    OBVIOUS
  <2>2. f[m + 1] = SingleStep(d, s, nested, g, m + 1)
    OBVIOUS
  <2>3. DOMAIN f = 0..m + 1 /\ f = [n \in 0..m + 1 |-> f[n]]
    OBVIOUS
  <2> HIDE DEF f
  <2>4. \A n \in 0..m + 1 : f[n] = SingleStep(d, s, nested, f, n)
    <3> SUFFICES ASSUME NEW n \in 0..m + 1 PROVE f[n] = SingleStep(d, s, nested, f, n)
      OBVIOUS
    <3>1. Len(s) \in Nat /\ n \in Nat /\ n <= Len(s) /\ \A i \in 0..n - 1 : f[i] = g[i]
      BY <2>1
    <3>2. SingleStep(d, s, nested, f, n) = SingleStep(d, s, nested, g, n)
      BY <3>1, <1>0
    <3>3. CASE n = m + 1
      BY <3>2, <3>3, <2>2
    <3>4. CASE n # m + 1
      <4>1. n \in 0..m
        BY <3>4
      <4>2. g[n] = SingleStep(d, s, nested, g, n)
        BY <4>1, <2>0
      <4> QED
        BY <4>1, <4>2, <3>2, <2>1
    <3> QED
      BY <3>3, <3>4
  <2>5. f = [n \in 0..m + 1 |-> SingleStep(d, s, nested, f, n)]
    BY <2>3, <2>4
  <2> QED
    BY <2>5
<1>3. Nat \subseteq T
  <2> HIDE DEF T
  <2> QED
    BY <1>1, <1>2, SetInduction
<1> QED
  BY <1>3

LEMMA OneByOneEquation ==
  ASSUME NEW d, NEW s, NEW nested, Len(s) \in Nat
  PROVE  /\ OneByOne(d, s, nested)[0] = [ok |-> TRUE, document |-> d, inverses |-> <<>>]
         /\ \A n \in 1..Len(s) :
                OneByOne(d, s, nested)[n] =
                    IF ~OneByOne(d, s, nested)[n - 1].ok THEN OneByOne(d, s, nested)[n - 1]
                    ELSE Extend(OneByOne(d, s, nested)[n - 1],
                                nested[s[n]][OneByOne(d, s, nested)[n - 1].document])
<1> DEFINE f == CHOOSE g : g = [n \in 0..Len(s) |-> SingleStep(d, s, nested, g, n)]
<1>0. \E g : g = [n \in 0..Len(s) |-> SingleStep(d, s, nested, g, n)]
  BY SingleStepExists, SMT
<1>1. f = [n \in 0..Len(s) |-> SingleStep(d, s, nested, f, n)]
  BY <1>0, Zenon
<1>2. OneByOne(d, s, nested) = f
  BY Zenon DEF OneByOne, SingleStep
<1> HIDE DEF f
<1>3. PICK run : run = OneByOne(d, s, nested)
  OBVIOUS
<1>4. \A n \in 0..Len(s) : run[n] = SingleStep(d, s, nested, run, n)
  BY <1>1, <1>2, <1>3
<1>5. 0 \in 0..Len(s) /\ \A n \in 1..Len(s) : n \in 0..Len(s) /\ n # 0
  OBVIOUS
<1>6. run[0] = [ok |-> TRUE, document |-> d, inverses |-> <<>>]
  BY <1>4, <1>5, Zenon DEF SingleStep
<1>7. \A n \in 1..Len(s) : run[n] = IF ~run[n - 1].ok THEN run[n - 1]
                                    ELSE Extend(run[n - 1], nested[s[n]][run[n - 1].document])
  BY <1>4, <1>5, Zenon DEF SingleStep
<1> QED
  BY <1>3, <1>6, <1>7, Zenon

\* What a batch may rely on: its children are in T, nested gives their effects,
\* and domain commands are leaves.
Sound(T, nested) ==
    /\ Leaf \subseteq T
    /\ nested \in [T -> [Document -> EffectOf(T)]]
    /\ \A c \in Leaf, d \in Document : nested[c][d] = ApplyLeaf(d, c)
    /\ \A c \in T : IsDomain(c) => c \in Leaf

RunOf(T) == [ok : BOOLEAN, document : Document, inverses : Seq(T \cup {<<>>})]

\* A run with the effect of one more child, unless it was refused.
OneMore(before, effect, after) ==
    after.ok => /\ before.ok
                /\ effect.ok
                /\ after.document = effect.document
                /\ after.inverses = Append(before.inverses, effect.inverse)

LEMMA ExtendType ==
  ASSUME NEW T, NEW run \in RunOf(T), NEW effect \in EffectOf(T)
  PROVE  /\ Extend(run, effect) \in RunOf(T)
         /\ Extend(run, effect).ok = effect.ok
         /\ Extend(run, effect).document = effect.document
         /\ Extend(run, effect).inverses = Append(run.inverses, effect.inverse)
BY DEF Extend, RunOf, EffectOf

LEMMA OneByOneStep ==
  ASSUME NEW T, NEW before \in RunOf(T), NEW effect \in EffectOf(T)
  PROVE  LET after == IF ~before.ok THEN before ELSE Extend(before, effect)
         IN  after \in RunOf(T) /\ OneMore(before, effect, after)
<1>1. CASE before.ok
  BY <1>1, ExtendType DEF OneMore
<1>2. CASE ~before.ok
  BY <1>2 DEF OneMore
<1> QED
  BY <1>1, <1>2

LEMMA OneByOneType ==
  ASSUME NEW T, NEW nested, Sound(T, nested), NEW s \in Seq(T), NEW d \in Document
  PROVE  \A k \in 0..Len(s) : OneByOne(d, s, nested)[k] \in RunOf(T)
<1>0. Len(s) \in Nat
  OBVIOUS
<1>1. PICK run : run = OneByOne(d, s, nested)
  OBVIOUS
<1>2. /\ run[0] = [ok |-> TRUE, document |-> d, inverses |-> <<>>]
      /\ \A n \in 1..Len(s) : run[n] = IF ~run[n - 1].ok THEN run[n - 1]
                                       ELSE Extend(run[n - 1], nested[s[n]][run[n - 1].document])
  BY <1>0, <1>1, OneByOneEquation
<1> DEFINE S == {k \in Nat : k <= Len(s) => run[k] \in RunOf(T)}
<1>3. 0 \in S
  <2>1. <<>> \in Seq(T \cup {<<>>})
    OBVIOUS
  <2>2. [ok |-> TRUE, document |-> d, inverses |-> <<>>] \in RunOf(T)
    BY <2>1 DEF RunOf
  <2>3. run[0] \in RunOf(T)
    BY <1>2, <2>2, Zenon
  <2> QED
    BY <2>3
<1>4. \A k \in Nat : k \in S => k + 1 \in S
  <2> SUFFICES ASSUME NEW k \in Nat, run[k] \in RunOf(T), k + 1 <= Len(s) PROVE run[k + 1] \in RunOf(T)
    BY <1>0
  <2>1. k + 1 \in 1..Len(s) /\ (k + 1) - 1 = k
    BY <1>0
  <2>2. run[k + 1] = IF ~run[k].ok THEN run[k] ELSE Extend(run[k], nested[s[k + 1]][run[k].document])
    BY <1>2, <2>1
  <2>3. nested[s[k + 1]][run[k].document] \in EffectOf(T)
    <3>1. run[k].document \in Document /\ s[k + 1] \in T
      BY <2>1 DEF RunOf
    <3> QED
      BY <3>1 DEF Sound
  <2>4. PICK before \in RunOf(T), effect \in EffectOf(T) :
            before = run[k] /\ effect = nested[s[k + 1]][run[k].document]
    BY <2>3
  <2>5. run[k + 1] = IF ~before.ok THEN before ELSE Extend(before, effect)
    BY <2>2, <2>4, Zenon
  <2> QED
    BY <2>5, OneByOneStep, Zenon
<1>5. Nat \subseteq S
  <2> HIDE DEF S
  <2> QED
    BY <1>3, <1>4, SetInduction
<1> QED
  BY <1>0, <1>1, <1>5

\* The facts about the run one by one that the rest uses.
Traced(T, nested, s, d, run) ==
    /\ run[0] = [ok |-> TRUE, document |-> d, inverses |-> <<>>]
    /\ \A k \in 0..Len(s) : run[k] \in RunOf(T)
    /\ \A k \in 1..Len(s) :
            /\ nested[s[k]][run[k - 1].document] \in EffectOf(T)
            /\ OneMore(run[k - 1], nested[s[k]][run[k - 1].document], run[k])
            /\ run[k] = IF ~run[k - 1].ok THEN run[k - 1]
                        ELSE Extend(run[k - 1], nested[s[k]][run[k - 1].document])

\* The run one by one is Traced.
LEMMA OneByOneSteps ==
  ASSUME NEW T, NEW nested, Sound(T, nested), NEW s \in Seq(T), NEW d \in Document
  PROVE  Traced(T, nested, s, d, OneByOne(d, s, nested))
<1>4. PICK run : run = OneByOne(d, s, nested)
  OBVIOUS
<1>0. Len(s) \in Nat
  OBVIOUS
<1>1. /\ run[0] = [ok |-> TRUE, document |-> d, inverses |-> <<>>]
      /\ \A n \in 1..Len(s) : run[n] = IF ~run[n - 1].ok THEN run[n - 1]
                                       ELSE Extend(run[n - 1], nested[s[n]][run[n - 1].document])
  BY <1>0, <1>4, OneByOneEquation
<1>2. \A k \in 0..Len(s) : run[k] \in RunOf(T)
  BY <1>4, OneByOneType
<1>3. ASSUME NEW k \in 1..Len(s)
      PROVE  /\ nested[s[k]][run[k - 1].document] \in EffectOf(T)
             /\ OneMore(run[k - 1], nested[s[k]][run[k - 1].document], run[k])
  <2>1. run[k - 1] \in RunOf(T) /\ s[k] \in T
    BY <1>2
  <2>2. nested[s[k]][run[k - 1].document] \in EffectOf(T)
    <3>1. run[k - 1].document \in Document
      BY <2>1 DEF RunOf
    <3> QED
      BY <2>1, <3>1 DEF Sound
  <2>3. PICK before \in RunOf(T), effect \in EffectOf(T) :
            before = run[k - 1] /\ effect = nested[s[k]][run[k - 1].document]
    BY <2>1, <2>2
  <2>4. run[k] = IF ~before.ok THEN before ELSE Extend(before, effect)
    BY <1>1, <2>3, Zenon
  <2>5. OneMore(before, effect, run[k])
    BY <2>4, OneByOneStep, Zenon
  <2> QED
    BY <2>2, <2>3, <2>5, Zenon
<1> QED
  BY <1>4, <1>1, <1>2, <1>3, Zenon DEF Traced

\* A run that is fine after k children was fine before.
LEMMA OneByOneOk ==
  ASSUME NEW T, NEW nested, Sound(T, nested), NEW s \in Seq(T), NEW d \in Document,
         NEW run, run = OneByOne(d, s, nested), NEW k \in 0..Len(s), run[k].ok
  PROVE  \A j \in 0..k : run[j].ok
<1>0. Len(s) \in Nat
  OBVIOUS
<1>1. \A i \in 1..Len(s) : run[i].ok => run[i - 1].ok
  BY OneByOneSteps DEF OneMore, Traced
<1> DEFINE S == {i \in Nat : i <= k => run[k - i].ok}
<1>2. 0 \in S
  BY <1>0
<1>3. \A i \in Nat : i \in S => i + 1 \in S
  <2> SUFFICES ASSUME NEW i \in Nat, run[k - i].ok, i + 1 <= k PROVE run[k - (i + 1)].ok
    BY <1>0
  <2>1. k - i \in 1..Len(s) /\ (k - i) - 1 = k - (i + 1)
    BY <1>0
  <2> QED
    BY <1>1, <2>1
<1>4. Nat \subseteq S
  <2> HIDE DEF S
  <2> QED
    BY <1>2, <1>3, SetInduction
<1> QED
  <2> SUFFICES ASSUME NEW j \in 0..k PROVE run[j].ok
    OBVIOUS
  <2>1. k - j \in Nat /\ k - j <= k /\ k - (k - j) = j
    BY <1>0
  <2> QED
    BY <1>4, <2>1

LEMMA SameSequence ==
  ASSUME NEW X, NEW s \in Seq(X), NEW t \in Seq(X), Len(s) = Len(t), \A i \in 1..Len(s) : s[i] = t[i]
  PROVE  s = t
OBVIOUS

LEMMA ReverseElements ==
  ASSUME NEW X, NEW s \in Seq(X)
  PROVE  /\ Reverse(s) \in Seq(X)
         /\ Len(Reverse(s)) = Len(s)
         /\ \A i \in 1..Len(s) : Reverse(s)[i] = s[(Len(s) - i) + 1]
<1>1. Len(s) \in Nat /\ \A i \in 1..Len(s) : (Len(s) - i) + 1 \in 1..Len(s)
  OBVIOUS
<1>2. \A i \in 1..Len(s) : s[(Len(s) - i) + 1] \in X
  BY <1>1
<1>3. PICK n \in Nat : n = Len(s)
  BY <1>1
<1>4. Reverse(s) = [i \in 1..n |-> s[(n - i) + 1]]
  BY <1>3 DEF Reverse
<1>5. Reverse(s) \in [1..n -> X]
  BY <1>2, <1>3, <1>4
<1>6. Reverse(s) \in Seq(X) /\ Len(Reverse(s)) = n
  BY <1>5
<1> QED
  BY <1>3, <1>4, <1>6

LEMMA AppendElements ==
  ASSUME NEW X, NEW s \in Seq(X), NEW x \in X
  PROVE  /\ Append(s, x) \in Seq(X)
         /\ Len(Append(s, x)) = Len(s) + 1
         /\ Append(s, x)[Len(s) + 1] = x
         /\ \A i \in 1..Len(s) : Append(s, x)[i] = s[i]
OBVIOUS

LEMMA ConcatElements ==
  ASSUME NEW X, NEW s \in Seq(X), NEW t \in Seq(X)
  PROVE  /\ s \o t \in Seq(X)
         /\ Len(s \o t) = Len(s) + Len(t)
         /\ \A i \in 1..Len(s) : (s \o t)[i] = s[i]
         /\ \A i \in 1..Len(t) : (s \o t)[Len(s) + i] = t[i]
OBVIOUS

LEMMA ReverseCons ==
  ASSUME NEW X, NEW s \in Seq(X), NEW x \in X
  PROVE  Reverse(<<x>> \o s) = Append(Reverse(s), x)
<1>1. <<x>> \in Seq(X) /\ Len(<<x>>) = 1 /\ <<x>>[1] = x
  OBVIOUS
<1>2. PICK n \in Nat : n = Len(s)
  OBVIOUS
<1>3. PICK t \in Seq(X) : t = <<x>> \o s
  BY <1>1, ConcatElements
<1>4. Len(t) = n + 1 /\ t[1] = x /\ \A i \in 1..n : t[1 + i] = s[i]
  BY <1>1, <1>2, <1>3, ConcatElements
<1>5. PICK r \in Seq(X) : r = Reverse(s)
  BY ReverseElements
<1>6. Len(r) = n /\ \A i \in 1..n : r[i] = s[(n - i) + 1]
  BY <1>2, <1>5, ReverseElements
<1>7. PICK u \in Seq(X) : u = Reverse(t)
  BY ReverseElements
<1>8. Len(u) = n + 1 /\ \A i \in 1..n + 1 : u[i] = t[((n + 1) - i) + 1]
  BY <1>4, <1>7, ReverseElements
<1>9. PICK w \in Seq(X) : w = Append(r, x)
  BY AppendElements
<1>10. Len(w) = n + 1 /\ w[n + 1] = x /\ \A i \in 1..n : w[i] = r[i]
  BY <1>6, <1>9, AppendElements
<1>11. \A i \in 1..n + 1 : u[i] = w[i]
  <2> SUFFICES ASSUME NEW i \in 1..n + 1 PROVE u[i] = w[i]
    OBVIOUS
  <2>1. CASE i = n + 1
    <3>1. ((n + 1) - i) + 1 = 1
      BY <2>1
    <3> QED
      BY <1>4, <1>8, <1>10, <2>1, <3>1
  <2>2. CASE i # n + 1
    <3>1. i \in 1..n /\ (n - i) + 1 \in 1..n /\ ((n + 1) - i) + 1 = 1 + ((n - i) + 1)
      BY <2>2
    <3>2. u[i] = t[1 + ((n - i) + 1)]
      BY <1>8, <3>1
    <3>3. t[1 + ((n - i) + 1)] = s[(n - i) + 1]
      BY <1>4, <3>1
    <3> QED
      BY <1>6, <1>10, <3>1, <3>2, <3>3
  <2> QED
    BY <2>1, <2>2
<1>12. u = w
  BY <1>8, <1>10, <1>11, SameSequence
<1> QED
  BY <1>3, <1>5, <1>7, <1>9, <1>12

LEMMA ConcatAppend ==
  ASSUME NEW X, NEW s \in Seq(X), NEW t \in Seq(X), NEW x \in X
  PROVE  s \o Append(t, x) = Append(s \o t, x)
<1>1. PICK m \in Nat, n \in Nat : m = Len(s) /\ n = Len(t)
  OBVIOUS
<1>2. PICK a \in Seq(X) : a = Append(t, x)
  BY AppendElements
<1>3. Len(a) = n + 1 /\ a[n + 1] = x /\ \A i \in 1..n : a[i] = t[i]
  BY <1>1, <1>2, AppendElements
<1>4. PICK b \in Seq(X) : b = s \o t
  BY ConcatElements
<1>5. Len(b) = m + n /\ (\A i \in 1..m : b[i] = s[i]) /\ \A i \in 1..n : b[m + i] = t[i]
  BY <1>1, <1>4, ConcatElements
<1>6. PICK u \in Seq(X) : u = s \o a
  BY ConcatElements
<1>7. Len(u) = m + (n + 1) /\ (\A i \in 1..m : u[i] = s[i]) /\ \A i \in 1..n + 1 : u[m + i] = a[i]
  <2>1. Len(u) = Len(s) + Len(a) /\ (\A i \in 1..Len(s) : u[i] = s[i]) /\ \A i \in 1..Len(a) : u[Len(s) + i] = a[i]
    BY <1>6, ConcatElements
  <2> QED
    BY <2>1, <1>1, <1>3
<1>8. PICK w \in Seq(X) : w = Append(b, x)
  BY AppendElements
<1>9. Len(w) = (m + n) + 1 /\ w[(m + n) + 1] = x /\ \A i \in 1..m + n : w[i] = b[i]
  <2>1. Len(w) = Len(b) + 1 /\ w[Len(b) + 1] = x /\ \A i \in 1..Len(b) : w[i] = b[i]
    BY <1>8, AppendElements
  <2> QED
    BY <2>1, <1>5
<1>10. \A i \in 1..(m + n) + 1 : u[i] = w[i]
  <2> SUFFICES ASSUME NEW i \in 1..(m + n) + 1 PROVE u[i] = w[i]
    OBVIOUS
  <2>1. CASE i \in 1..m
    BY <1>5, <1>7, <1>9, <2>1
  <2>2. CASE i \notin 1..m
    <3>1. PICK j \in 1..n + 1 : i = m + j
      BY <2>2
    <3>2. u[i] = a[j]
      BY <1>7, <3>1
    <3>3. CASE j = n + 1
      <4>1. i = (m + n) + 1
        BY <3>1, <3>3
      <4> QED
        BY <1>3, <1>9, <3>2, <3>3, <4>1
    <3>4. CASE j # n + 1
      <4>1. j \in 1..n /\ m + j \in 1..m + n
        BY <3>4
      <4>2. w[i] = b[m + j]
        BY <1>9, <3>1, <4>1
      <4> QED
        BY <1>3, <1>5, <3>2, <4>1, <4>2
    <3> QED
      BY <3>3, <3>4
  <2> QED
    BY <2>1, <2>2
<1>11. u = w
  BY <1>7, <1>9, <1>10, SameSequence
<1> QED
  BY <1>2, <1>4, <1>6, <1>8, <1>11

\* What the pack has done with a piece of the children, and the run one by one
\* with the same piece.
PackedAs(T, start, done, run) ==
    done.ok \/ run.ok =>
        /\ done.ok = TRUE
        /\ run.ok
        /\ done.document = run.document
        /\ done.inverse \in Seq(T \cup {<<>>})
        /\ run.inverses = start.inverses \o Reverse(done.inverse)

\* A chunk with one more command.
LEMMA PackOneMore ==
  ASSUME NEW T, NEW start \in RunOf(T), NEW before \in RunOf(T), NEW effect \in EffectOf(T),
         NEW done, PackedAs(T, start, done, before), NEW e, before.ok => e = effect
  PROVE  PackedAs(T, start, Extended(done, e), IF ~before.ok THEN before ELSE Extend(before, effect))
<1>1. PICK more : more = Extended(done, e)
  OBVIOUS
<1>2. more.ok = (done.ok /\ e.ok) /\ more.document = e.document /\ more.inverse = <<e.inverse>> \o done.inverse
  BY <1>1 DEF Extended
<1>3. CASE ~before.ok
  <2>1. ~done.ok
    BY <1>3 DEF PackedAs
  <2>2. ~more.ok
    BY <1>2, <2>1
  <2> QED
    BY <1>1, <1>3, <2>2 DEF PackedAs
<1>4. CASE before.ok
  <2>1. done.ok /\ done.inverse \in Seq(T \cup {<<>>}) /\ before.inverses = start.inverses \o Reverse(done.inverse)
    BY <1>4 DEF PackedAs
  <2>2. PICK after \in RunOf(T) : after = Extend(before, effect)
    BY ExtendType
  <2>3. after.ok = effect.ok /\ after.document = effect.document
        /\ after.inverses = Append(before.inverses, effect.inverse)
    BY <2>2, ExtendType
  <2>4. effect.inverse \in T \cup {<<>>} /\ start.inverses \in Seq(T \cup {<<>>})
    BY DEF EffectOf, RunOf
  <2>5. PICK X : X = T \cup {<<>>}
    OBVIOUS
  <2>6. PICK x \in X, q \in Seq(X), r \in Seq(X) : x = effect.inverse /\ q = done.inverse /\ r = start.inverses
    BY <2>1, <2>4, <2>5
  <2>7. Reverse(q) \in Seq(X)
    BY ReverseElements
  <2>8. Reverse(<<x>> \o q) = Append(Reverse(q), x)
    BY ReverseCons
  <2>9. r \o Append(Reverse(q), x) = Append(r \o Reverse(q), x)
    BY <2>7, ConcatAppend
  <2>10. <<x>> \o q \in Seq(X)
    OBVIOUS
  <2>11. more.inverse = <<x>> \o q
    BY <1>2, <1>4, <2>6
  <2>12. more.inverse \in Seq(T \cup {<<>>})
    BY <2>5, <2>10, <2>11
  <2>13. after.inverses = start.inverses \o Reverse(more.inverse)
    BY <2>1, <2>3, <2>6, <2>8, <2>9, <2>11
  <2>14. more.ok <=> after.ok
    BY <1>2, <1>4, <2>1, <2>3
  <2>15. more.document = after.document
    BY <1>2, <1>4, <2>3
  <2>16. PackedAs(T, start, more, after)
    BY <2>12, <2>13, <2>14, <2>15 DEF PackedAs
  <2> QED
    BY <1>1, <1>4, <2>2, <2>16
<1> QED
  BY <1>3, <1>4

\* A chunk of domain commands, its inverse reversed, does what its commands do
\* one by one.
LEMMA PackAgrees ==
  ASSUME NEW T, NEW nested, Sound(T, nested), NEW s \in Seq(T), NEW d \in Document,
         NEW run, run = OneByOne(d, s, nested),
         NEW p \in 0..Len(s), NEW k \in p..Len(s), \A i \in p + 1..k : IsDomain(s[i]), run[p].ok
  PROVE  PackedAs(T, run[p], PackApply(run[p].document, SubSeq(s, p + 1, k)), run[k])
<1>0. Len(s) \in Nat /\ k - p \in Nat
  OBVIOUS
<1>1. PICK chunk : chunk = SubSeq(s, p + 1, k)
  OBVIOUS
<1>2. Len(chunk) = k - p /\ \A j \in 1..k - p : chunk[j] = s[p + j]
  BY <1>0, <1>1
<1>3. PICK pack : pack = PackRun(run[p].document, chunk)
  OBVIOUS
<1>4. /\ pack[0] = [ok |-> TRUE, document |-> run[p].document, inverse |-> <<>>]
      /\ \A j \in 1..k - p : pack[j] = Extended(pack[j - 1], ApplyRecordLeaf(pack[j - 1].document, chunk[j]))
  <2>1. Len(chunk) \in Nat
    BY <1>0, <1>2
  <2>2. PICK x : x = run[p].document
    OBVIOUS
  <2>3. /\ PackRun(x, chunk)[0] = [ok |-> TRUE, document |-> x, inverse |-> <<>>]
        /\ \A j \in 1..Len(chunk) :
             PackRun(x, chunk)[j] = Extended(PackRun(x, chunk)[j - 1], ApplyRecordLeaf(PackRun(x, chunk)[j - 1].document, chunk[j]))
    BY <2>1, PackRunEquation, Zenon
  <2> QED
    BY <1>2, <1>3, <2>2, <2>3, Zenon
<1>12. /\ \A i \in 0..Len(s) : run[i] \in RunOf(T)
      /\ \A i \in 1..Len(s) :
            /\ nested[s[i]][run[i - 1].document] \in EffectOf(T)
            /\ run[i] = IF ~run[i - 1].ok THEN run[i - 1]
                        ELSE Extend(run[i - 1], nested[s[i]][run[i - 1].document])
  <2>1. Traced(T, nested, s, d, run)
    BY OneByOneSteps
  <2> QED
    BY <2>1, Zenon DEF Traced
<1>5. PICK start \in RunOf(T) : start = run[p]
  BY <1>12
<1> DEFINE S == {j \in Nat : j <= k - p => PackedAs(T, start, pack[j], run[p + j])}
<1>6. 0 \in S
  <2>1. <<>> \in Seq(T \cup {<<>>}) /\ Reverse(<<>>) = <<>>
    <3>1. <<>> \in Seq({})
      OBVIOUS
    <3>2. Reverse(<<>>) \in Seq({}) /\ Len(Reverse(<<>>)) = 0
      BY <3>1, ReverseElements
    <3> QED
      BY <3>2
  <2>2. start.inverses \in Seq(T \cup {<<>>})
    BY DEF RunOf
  <2>3. start.inverses \o <<>> = start.inverses
    BY <2>2
  <2>4. p + 0 = p
    OBVIOUS
  <2>5. PackedAs(T, start, pack[0], run[p])
    <3>1. pack[0].ok /\ pack[0].document = run[p].document /\ pack[0].inverse = <<>>
      BY <1>4
    <3> QED
      BY <1>5, <2>1, <2>3, <3>1 DEF PackedAs
  <2> QED
    BY <2>4, <2>5
<1>7. \A j \in Nat : j \in S => j + 1 \in S
  <2> SUFFICES ASSUME NEW j \in Nat, PackedAs(T, start, pack[j], run[p + j]), j + 1 <= k - p
               PROVE  PackedAs(T, start, pack[j + 1], run[p + (j + 1)])
    BY <1>0
  <2>1. PICK i \in 1..Len(s) : i = p + (j + 1)
    BY <1>0
  <2>2. i - 1 = p + j /\ i \in p + 1..k /\ j + 1 \in 1..k - p /\ (j + 1) - 1 = j
    BY <1>0, <2>1
  <2>3. PICK before \in RunOf(T) : before = run[i - 1]
    <3>1. i - 1 \in 0..Len(s)
      BY <1>0
    <3> QED
      BY <1>12, <3>1
  <2>4. PICK effect \in EffectOf(T) : effect = nested[s[i]][before.document]
    BY <2>3, <1>12
  <2>5. run[i] = IF ~before.ok THEN before ELSE Extend(before, effect)
    BY <2>3, <2>4, <1>12, Zenon
  <2>6. pack[j + 1] = Extended(pack[j], ApplyRecordLeaf(pack[j].document, s[i]))
    BY <1>2, <1>4, <2>1, <2>2
  <2>7. before.ok => ApplyRecordLeaf(pack[j].document, s[i]) = effect
    <3> SUFFICES ASSUME before.ok PROVE ApplyRecordLeaf(pack[j].document, s[i]) = effect
      OBVIOUS
    <3>1. pack[j].document = before.document
      BY <2>2, <2>3 DEF PackedAs
    <3>2. before.document \in Document
      BY DEF RunOf
    <3>3. s[i] \in Leaf /\ IsDomain(s[i])
      BY <2>2 DEF Sound
    <3>4. effect = ApplyLeaf(before.document, s[i])
      BY <2>4, <3>2, <3>3 DEF Sound
    <3>5. ApplyLeaf(before.document, s[i]) = ApplyRecordLeaf(before.document, s[i])
      BY <3>3 DEF ApplyLeaf, IsDomain
    <3> QED
      BY <3>1, <3>4, <3>5
  <2>8. PackedAs(T, start, pack[j], before)
    BY <2>2, <2>3
  <2>9. PackedAs(T, start, Extended(pack[j], ApplyRecordLeaf(pack[j].document, s[i])),
                 IF ~before.ok THEN before ELSE Extend(before, effect))
    BY <2>7, <2>8, PackOneMore
  <2> QED
    BY <2>1, <2>5, <2>6, <2>9
<1>8. Nat \subseteq S
  <2> HIDE DEF S
  <2> QED
    BY <1>6, <1>7, SetInduction
<1>9. PackedAs(T, start, pack[k - p], run[p + (k - p)])
  BY <1>0, <1>8
<1>10. p + (k - p) = k
  BY <1>0
<1>11. PackApply(run[p].document, SubSeq(s, p + 1, k)) = pack[k - p]
  BY <1>1, <1>2, <1>3 DEF PackApply
<1> QED
  BY <1>5, <1>9, <1>10, <1>11

\* Cutting the domain commands into pack batches makes no difference.
LEMMA RunAgrees ==
  ASSUME NEW T, NEW nested, Sound(T, nested), NEW s \in Seq(T), NEW d \in Document,
         NEW run, run = OneByOne(d, s, nested), NEW eng, eng = BatchRun(d, s, nested)
  PROVE  \A k \in 0..Len(s) : eng[k].ok \/ run[k].ok => eng[k] = run[k]
<1>0. Len(s) \in Nat
  OBVIOUS
<1>1. Traced(T, nested, s, d, run)
  BY OneByOneSteps
<1>2. /\ eng[0] = [ok |-> TRUE, document |-> d, inverses |-> <<>>]
      /\ \A k \in 1..Len(s) : eng[k] = AfterChild(eng[Preceding(s, k)], s, k, nested)
  BY <1>0, BatchRunEquation
<1> DEFINE S == {k \in Nat : k <= Len(s) => (eng[k].ok \/ run[k].ok => eng[k] = run[k])}
<1>3. ASSUME NEW k \in 1..Len(s), \A i \in 0..k - 1 : eng[i].ok \/ run[i].ok => eng[i] = run[i],
             ~IsDomain(s[k]), eng[k].ok \/ run[k].ok
      PROVE  eng[k] = run[k]
  <2>1. eng[k] = AfterChild(eng[k - 1], s, k, nested)
    BY <1>2, <1>3 DEF Preceding
  <2>2. eng[k - 1].ok \/ run[k - 1].ok => eng[k - 1] = run[k - 1]
    BY <1>3
  <2>3. run[k] = IF ~run[k - 1].ok THEN run[k - 1] ELSE Extend(run[k - 1], nested[s[k]][run[k - 1].document])
    BY <1>1, Zenon DEF Traced
  <2>4. eng[k] = IF ~eng[k - 1].ok THEN eng[k - 1] ELSE Extend(eng[k - 1], nested[s[k]][eng[k - 1].document])
    BY <2>1, <1>3, Zenon DEF AfterChild
  <2> QED
    BY <1>3, <2>2, <2>3, <2>4, Zenon
<1>4. ASSUME NEW k \in 1..Len(s), \A i \in 0..k - 1 : eng[i].ok \/ run[i].ok => eng[i] = run[i],
             IsDomain(s[k]), eng[k].ok \/ run[k].ok
      PROVE  eng[k] = run[k]
  <2>1. PICK p \in 0..k - 1 : p = PackStart(s, k) /\ RunStart(s, k) <= p
    BY <1>0, PackStartInRun
  <2>2. \A i \in p + 1..k : IsDomain(s[i])
    <3>1. RunStart(s, k) \in 0..k - 1 /\ \A i \in RunStart(s, k) + 1..k - 1 : IsDomain(s[i])
      BY <1>0, PackStartInRun
    <3> QED
      BY <1>4, <2>1, <3>1
  <2>3. eng[k] = AfterChild(eng[p], s, k, nested)
    BY <1>2, <1>4, <2>1 DEF Preceding
  <2>4. eng[p].ok \/ run[p].ok => eng[p] = run[p]
    BY <1>4
  <2>5. eng[p].ok
    <3> SUFFICES ASSUME ~eng[p].ok PROVE FALSE
      OBVIOUS
    <3>1. ~run[p].ok
      BY <2>4
    <3>2. ~eng[k].ok
      BY <2>3, Zenon DEF AfterChild
    <3>3. run[k].ok /\ k \in 0..Len(s)
      BY <1>0, <1>4, <3>2
    <3>4. \A j \in 0..k : run[j].ok
      BY <3>3, OneByOneOk
    <3> QED
      BY <3>1, <3>4
  <2>6. run[p].ok /\ eng[p] = run[p]
    BY <2>4, <2>5
  <2>7. PICK m : m = PackApply(run[p].document, SubSeq(s, p + 1, k))
    OBVIOUS
  <2>8. eng[k] = ChunkEffect(run[p], m)
    BY <2>1, <2>3, <2>5, <2>6, <2>7, <1>4, Zenon DEF AfterChild
  <2>9. p \in 0..Len(s) /\ k \in p..Len(s)
    BY <1>0
  <2>10. PackedAs(T, run[p], m, run[k])
    BY <2>2, <2>6, <2>7, <2>9, PackAgrees
  <2>11. eng[k].ok = m.ok /\ eng[k] = [ok |-> m.ok, document |-> m.document,
                                       inverses |-> run[p].inverses \o Reverse(m.inverse)]
    BY <2>8 DEF ChunkEffect
  <2>12. m.ok = TRUE /\ run[k].ok /\ m.document = run[k].document
         /\ run[k].inverses = run[p].inverses \o Reverse(m.inverse)
    BY <1>4, <2>10, <2>11 DEF PackedAs
  <2>13. run[k] \in RunOf(T)
    BY <1>0, <1>1 DEF Traced
  <2>14. run[k] = [ok |-> TRUE, document |-> run[k].document, inverses |-> run[k].inverses]
    BY <2>12, <2>13 DEF RunOf
  <2> QED
    BY <2>11, <2>12, <2>14, Zenon
<1>5. \A k \in Nat : (\A i \in 0..k - 1 : i \in S) => k \in S
  <2> SUFFICES ASSUME NEW k \in Nat, \A i \in 0..k - 1 : i \in S, k <= Len(s), eng[k].ok \/ run[k].ok
               PROVE  eng[k] = run[k]
    OBVIOUS
  <2>1. CASE k = 0
    BY <1>1, <1>2, <2>1, Zenon DEF Traced
  <2>2. CASE k # 0
    <3>1. k \in 1..Len(s) /\ \A i \in 0..k - 1 : eng[i].ok \/ run[i].ok => eng[i] = run[i]
      BY <1>0, <2>2
    <3> QED
      BY <3>1, <1>3, <1>4
  <2> QED
    BY <2>1, <2>2
<1>6. Nat \subseteq S
  <2> HIDE DEF S
  <2> QED
    BY <1>5, StrongInduction
<1> QED
  BY <1>0, <1>6

\* The inverses that the run one by one has gathered.
Gathered(T, nested, s, run, k) ==
    /\ run[k].inverses \in Seq(T \cup {<<>>})
    /\ Len(run[k].inverses) = k
    /\ \A i \in 1..k : run[k].inverses[i] = nested[s[i]][run[i - 1].document].inverse

\* The inverses gathered are those of the children, each in its own document.
LEMMA GatheredInverses ==
  ASSUME NEW T, NEW nested, Sound(T, nested), NEW s \in Seq(T), NEW d \in Document,
         NEW run, run = OneByOne(d, s, nested)
  PROVE  \A k \in 0..Len(s) : run[k].ok => Gathered(T, nested, s, run, k)
<1>0. Len(s) \in Nat
  OBVIOUS
<1>1. Traced(T, nested, s, d, run)
  BY OneByOneSteps
<1> DEFINE S == {k \in Nat : k <= Len(s) => (run[k].ok => Gathered(T, nested, s, run, k))}
<1>2. 0 \in S
  <2>1. run[0].inverses = <<>>
    BY <1>1 DEF Traced
  <2>2. <<>> \in Seq(T \cup {<<>>}) /\ Len(<<>>) = 0
    OBVIOUS
  <2>3. Gathered(T, nested, s, run, 0)
    BY <2>1, <2>2 DEF Gathered
  <2> QED
    BY <2>3
<1>3. \A k \in Nat : k \in S => k + 1 \in S
  <2> SUFFICES ASSUME NEW k \in Nat, k \in S, k + 1 <= Len(s), run[k + 1].ok 
               PROVE  Gathered(T, nested, s, run, k + 1)
    OBVIOUS
  <2>1. PICK j \in 1..Len(s) : j = k + 1
    BY <1>0
  <2>2. j - 1 = k /\ \A i \in 1..k + 1 : i \in 1..k \/ i = k + 1
    BY <2>1
  <2>3. /\ nested[s[j]][run[j - 1].document] \in EffectOf(T)
        /\ OneMore(run[j - 1], nested[s[j]][run[j - 1].document], run[j])
    BY <1>1 DEF Traced
  <2>4. PICK e \in EffectOf(T) : e = nested[s[j]][run[k].document]
    BY <2>2, <2>3
  <2>5. run[k].ok /\ run[j].inverses = Append(run[k].inverses, e.inverse)
    BY <2>1, <2>2, <2>3, <2>4 DEF OneMore
  <2>6. Gathered(T, nested, s, run, k)
    BY <2>1, <2>5, <1>0
  <2>7. PICK X : X = T \cup {<<>>}
    OBVIOUS
  <2>8. e.inverse \in X
    BY <2>7 DEF EffectOf
  <2>9. PICK q \in Seq(X) : q = run[k].inverses
    BY <2>6, <2>7 DEF Gathered
  <2>10. Len(q) = k /\ \A i \in 1..k : q[i] = nested[s[i]][run[i - 1].document].inverse
    BY <2>6, <2>9 DEF Gathered
  <2>11. PICK r \in Seq(X) : r = Append(q, e.inverse)
    BY <2>8, AppendElements
  <2>12. Len(r) = k + 1 /\ r[k + 1] = e.inverse /\ \A i \in 1..k : r[i] = q[i]
    <3>1. Len(r) = Len(q) + 1 /\ r[Len(q) + 1] = e.inverse /\ \A i \in 1..Len(q) : r[i] = q[i]
      BY <2>8, <2>11, AppendElements
    <3> QED
      BY <2>10, <3>1
  <2>13. run[k + 1].inverses = r
    BY <2>1, <2>5, <2>9, <2>11
  <2>14. (k + 1) - 1 = k
    OBVIOUS
  <2>15. \A i \in 1..k + 1 : r[i] = nested[s[i]][run[i - 1].document].inverse
    BY <2>1, <2>2, <2>4, <2>10, <2>12, <2>14
  <2> QED
    BY <2>7, <2>12, <2>13, <2>15 DEF Gathered
<1>4. Nat \subseteq S
  <2> HIDE DEF S
  <2> QED
    BY <1>2, <1>3, SetInduction
<1> QED
  BY <1>0, <1>4

\* The sum over a sequence, and over one with the same counts in reverse order.
LEMMA SumsType ==
  ASSUME NEW T, NEW count \in [T -> Nat], NEW s \in Seq(T)
  PROVE  \A k \in 0..Len(s) : Sums(count, s)[k] \in Nat
<1>0. Len(s) \in Nat
  OBVIOUS
<1>1. PICK sum : sum = Sums(count, s)
  OBVIOUS
<1>2. sum[0] = 0 /\ \A k \in 1..Len(s) : sum[k] = sum[k - 1] + count[s[k]]
  BY <1>0, <1>1, SumsEquation
<1> DEFINE S == {k \in Nat : k <= Len(s) => sum[k] \in Nat}
<1>3. 0 \in S
  BY <1>2
<1>4. \A k \in Nat : k \in S => k + 1 \in S
  <2> SUFFICES ASSUME NEW k \in Nat, sum[k] \in Nat, k + 1 <= Len(s) PROVE sum[k + 1] \in Nat
    BY <1>0
  <2>1. k + 1 \in 1..Len(s) /\ (k + 1) - 1 = k
    BY <1>0
  <2>2. count[s[k + 1]] \in Nat
    BY <2>1
  <2>3. sum[k + 1] = sum[k] + count[s[k + 1]]
    BY <1>2, <2>1
  <2> QED
    BY <2>2, <2>3
<1>5. Nat \subseteq S
  <2> HIDE DEF S
  <2> QED
    BY <1>3, <1>4, SetInduction
<1> QED
  BY <1>0, <1>1, <1>5

Mirrored(count, s, t) ==
    \A i \in 1..Len(s) : count[t[i]] = count[s[(Len(s) - i) + 1]]

\* A batch of the mirrored children has as many leaves.
LEMMA SumsReversed ==
  ASSUME NEW T, NEW count \in [T -> Nat], NEW s \in Seq(T), NEW t \in Seq(T), Len(t) = Len(s), Mirrored(count, s, t)
  PROVE  Sums(count, t)[Len(t)] = Sums(count, s)[Len(s)]
<1>0. PICK n \in Nat : n = Len(s)
  OBVIOUS
<1>1. PICK f : f = Sums(count, s)
  OBVIOUS
<1>10. PICK g : g = Sums(count, t)
  OBVIOUS
<1>2. f[0] = 0 /\ \A k \in 1..n : f[k] = f[k - 1] + count[s[k]]
  <2>1. Len(s) \in Nat
    OBVIOUS
  <2>2. Sums(count, s)[0] = 0 /\ \A k \in 1..Len(s) : Sums(count, s)[k] = Sums(count, s)[k - 1] + count[s[k]]
    BY <2>1, SumsEquation
  <2> QED
    BY <1>0, <1>1, <2>2, Zenon
<1>3. g[0] = 0 /\ \A k \in 1..n : g[k] = g[k - 1] + count[t[k]]
  <2>1. Len(t) \in Nat /\ n = Len(t)
    BY <1>0
  <2>2. Sums(count, t)[0] = 0 /\ \A k \in 1..Len(t) : Sums(count, t)[k] = Sums(count, t)[k - 1] + count[t[k]]
    BY <2>1, SumsEquation
  <2> QED
    BY <2>1, <1>10, <2>2, Zenon
<1>4. \A k \in 0..n : f[k] \in Nat /\ g[k] \in Nat
  BY <1>0, <1>1, <1>10, SumsType
<1> DEFINE S == {k \in Nat : k <= n => g[k] + f[n - k] = f[n]}
<1>5. 0 \in S
  <2>1. n - 0 = n /\ f[n] \in Nat
    BY <1>4
  <2> QED
    BY <1>3, <2>1
<1>6. \A k \in Nat : k \in S => k + 1 \in S
  <2> SUFFICES ASSUME NEW k \in Nat, k \in S, k + 1 <= n PROVE g[k + 1] + f[n - (k + 1)] = f[n]
    OBVIOUS
  <2>0. g[k] + f[n - k] = f[n]
    OBVIOUS
  <2>1. k + 1 \in 1..n /\ (k + 1) - 1 = k /\ n - k \in 1..n /\ (n - k) - 1 = n - (k + 1)
        /\ (n - (k + 1)) + 1 = n - k /\ n - (k + 1) \in 0..n
    OBVIOUS
  <2>2. g[k + 1] = g[k] + count[t[k + 1]]
    BY <1>3, <2>1
  <2>3. f[n - k] = f[n - (k + 1)] + count[s[n - k]]
    BY <1>2, <2>1
  <2>4. count[t[k + 1]] = count[s[n - k]]
    BY <1>0, <2>1 DEF Mirrored
  <2>5. count[s[n - k]] \in Nat
    BY <1>0, <2>1
  <2>6. f[n] \in Nat /\ f[n - k] \in Nat /\ f[n - (k + 1)] \in Nat /\ g[k] \in Nat
    BY <1>4, <2>1
  <2> QED
    BY <2>0, <2>2, <2>3, <2>4, <2>5, <2>6
<1>7. Nat \subseteq S
  <2> HIDE DEF S
  <2> QED
    BY <1>5, <1>6, SetInduction
<1>8. g[n] + f[n - n] = f[n] /\ n - n = 0 /\ f[n] \in Nat /\ g[n] \in Nat
  BY <1>4, <1>7
<1>9. g[n] = f[n]
  BY <1>2, <1>8
<1> QED
  BY <1>0, <1>1, <1>10, <1>9

\* Every accepted command has an inverse in T with as many leaves, which is
\* accepted where the command leads and leads back.
Reversible(T, nested, count) ==
    \A c \in T, d \in Document :
        nested[c][d].ok =>
            /\ nested[c][d].inverse \in T
            /\ count[nested[c][d].inverse] = count[c]
            /\ nested[nested[c][d].inverse][nested[c][d].document].ok
            /\ nested[nested[c][d].inverse][nested[c][d].document].document = d

\* t undoes, in document effect.document, what s did in document d.
BatchUndoneBy(T, nested, count, s, d, effect, t) ==
    /\ t # <<>>
    /\ effect.document \in Document
    /\ effect = Applied(effect.document, Batch(t))
    /\ Sums(count, t)[Len(t)] = Sums(count, s)[Len(s)]
    /\ ApplyBatch(effect.document, t, nested).ok
    /\ ApplyBatch(effect.document, t, nested).document = d

\* A batch of reversible children is reversible.
LEMMA BatchUndone ==
  ASSUME NEW T, NEW nested, NEW count \in [T -> Nat], Sound(T, nested), Reversible(T, nested, count),
         NEW s \in Seq(T), s # <<>>, NEW d \in Document
  PROVE  ApplyBatch(d, s, nested).ok =>
            \E t \in Seq(T) : BatchUndoneBy(T, nested, count, s, d, ApplyBatch(d, s, nested), t)
<1>0. PICK n \in Nat : n = Len(s) /\ n # 0
  OBVIOUS
<1>1. PICK run, eng : run = OneByOne(d, s, nested) /\ eng = BatchRun(d, s, nested)
  OBVIOUS
<1>2. ApplyBatch(d, s, nested) = BatchEffect(d, eng[n])
  BY <1>0, <1>1 DEF ApplyBatch
<1> SUFFICES ASSUME ApplyBatch(d, s, nested).ok
             PROVE  \E t \in Seq(T) : BatchUndoneBy(T, nested, count, s, d, ApplyBatch(d, s, nested), t)
  OBVIOUS
<1>3. eng[n].ok
  BY <1>2 DEF BatchEffect, Refused
<1>4. eng[n] = run[n] /\ run[n].ok
  BY <1>0, <1>1, <1>3, RunAgrees
<1>5. Traced(T, nested, s, d, run)
  BY <1>1, OneByOneSteps
<1>6. \A j \in 0..n : run[j].ok
  BY <1>0, <1>1, <1>4, OneByOneOk
<1>28. Gathered(T, nested, s, run, n)
  BY <1>0, <1>1, <1>4, GatheredInverses
<1>7. PICK q \in Seq(T \cup {<<>>}) : q = run[n].inverses
  BY <1>28 DEF Gathered
<1>8. Len(q) = n /\ \A i \in 1..n : q[i] = nested[s[i]][run[i - 1].document].inverse
  BY <1>7, <1>28 DEF Gathered
<1>9. \A j \in 0..n : run[j].document \in Document
  BY <1>0, <1>5 DEF Traced, RunOf
\* Each step of the run, undone.
<1>10. ASSUME NEW i \in 1..n
       PROVE  /\ q[i] \in T
              /\ count[q[i]] = count[s[i]]
              /\ nested[q[i]][run[i].document].ok
              /\ nested[q[i]][run[i].document].document = run[i - 1].document
  <2>1. i - 1 \in 0..n /\ i \in 0..n /\ s[i] \in T
    BY <1>0
  <2>2. PICK e : e = nested[s[i]][run[i - 1].document]
    OBVIOUS
  <2>3. e.ok /\ run[i].document = e.document
    BY <1>0, <1>5, <1>6, <2>1, <2>2 DEF Traced, OneMore
  <2>4. q[i] = e.inverse
    BY <1>8, <2>2
  <2>5. run[i - 1].document \in Document
    BY <1>9, <2>1
  <2>6. /\ e.inverse \in T
        /\ count[e.inverse] = count[s[i]]
        /\ nested[e.inverse][e.document].ok
        /\ nested[e.inverse][e.document].document = run[i - 1].document
    BY <2>1, <2>2, <2>3, <2>5, Zenon DEF Reversible
  <2> QED
    BY <2>3, <2>4, <2>6, Zenon
<1>11. q \in Seq(T)
  BY <1>8, <1>10
<1>12. PICK t \in Seq(T) : t = Reverse(q)
  BY <1>11, ReverseElements
<1>13. Len(t) = n /\ \A i \in 1..n : t[i] = q[(n - i) + 1]
  <2>1. Len(t) = Len(q) /\ \A i \in 1..Len(q) : t[i] = q[(Len(q) - i) + 1]
    BY <1>11, <1>12, ReverseElements
  <2> QED
    BY <1>8, <2>1
<1>14. t # <<>>
  BY <1>0, <1>13
<1>15. Sums(count, t)[Len(t)] = Sums(count, s)[Len(s)]
  <2>1. \A i \in 1..n : count[t[i]] = count[s[(n - i) + 1]]
    <3> SUFFICES ASSUME NEW i \in 1..n PROVE count[t[i]] = count[s[(n - i) + 1]]
      OBVIOUS
    <3>1. PICK j \in 1..n : j = (n - i) + 1
      OBVIOUS
    <3> QED
      BY <1>10, <1>13, <3>1
  <2>2. Len(t) = Len(s) /\ Mirrored(count, s, t)
    BY <1>0, <1>13, <2>1 DEF Mirrored
  <2> QED
    BY <2>2, SumsReversed
<1>16. PICK e \in Document : e = run[n].document
  BY <1>9
<1>17. ApplyBatch(d, s, nested) = Applied(e, Batch(t))
  BY <1>2, <1>4, <1>7, <1>12, <1>16 DEF BatchEffect, BatchInverse
<1>18. ApplyBatch(d, s, nested).document = e
  BY <1>17 DEF Applied
<1>19. PICK back, again : back = OneByOne(e, t, nested) /\ again = BatchRun(e, t, nested)
  OBVIOUS
<1>20. Traced(T, nested, t, e, back)
  BY <1>19, OneByOneSteps
<1> DEFINE S == {j \in Nat : j <= n => back[j].ok /\ back[j].document = run[n - j].document}
<1>21. 0 \in S
  <2>1. n - 0 = n /\ back[0] = [ok |-> TRUE, document |-> e, inverses |-> <<>>]
    BY <1>20 DEF Traced
  <2> QED
    BY <1>16, <2>1
<1>22. \A j \in Nat : j \in S => j + 1 \in S
  <2> SUFFICES ASSUME NEW j \in Nat, back[j].ok, back[j].document = run[n - j].document, j + 1 <= n
               PROVE  back[j + 1].ok /\ back[j + 1].document = run[n - (j + 1)].document
    OBVIOUS
  <2>1. PICK k \in 1..n : k = j + 1
    OBVIOUS
  <2>2. PICK i \in 1..n : i = n - j
    BY <2>1
  <2>3. k - 1 = j /\ (n - k) + 1 = i /\ i - 1 = n - (j + 1)
    BY <2>1, <2>2
  <2>4. t[k] = q[i]
    BY <1>13, <2>3
  <2>5. PICK u : u = nested[t[k]][back[j].document]
    OBVIOUS
  <2>6. u.ok /\ u.document = run[i - 1].document
    BY <1>10, <2>2, <2>4, <2>5
  <2>7. u \in EffectOf(T) /\ back[k] = IF ~back[j].ok THEN back[j] ELSE Extend(back[j], u)
    BY <1>13, <1>20, <2>3, <2>5 DEF Traced
  <2>8. back[k] = Extend(back[j], u)
    BY <2>7
  <2>9. back[k].ok = u.ok /\ back[k].document = u.document
    BY <2>8 DEF Extend
  <2> QED
    BY <2>1, <2>3, <2>6, <2>9
<1>23. Nat \subseteq S
  <2> HIDE DEF S
  <2> QED
    BY <1>21, <1>22, SetInduction
<1>24. back[n].ok /\ back[n].document = d
  <2>1. n - n = 0 /\ run[0].document = d
    BY <1>5 DEF Traced
  <2>2. n \in S
    BY <1>23
  <2>3. back[n].ok /\ back[n].document = run[n - n].document
    BY <2>2
  <2> QED
    BY <2>1, <2>3
<1>25. again[n] = back[n]
  BY <1>13, <1>19, <1>24, RunAgrees
<1>26. ApplyBatch(e, t, nested) = BatchEffect(e, back[n])
  BY <1>13, <1>19, <1>25 DEF ApplyBatch
<1>27. ApplyBatch(e, t, nested).ok /\ ApplyBatch(e, t, nested).document = d
  BY <1>24, <1>26 DEF BatchEffect, Applied
<1> QED
  BY <1>14, <1>15, <1>17, <1>18, <1>27, Zenon DEF BatchUndoneBy

-----------------------------------------------------------------------------
(***************************************************************************)
(* Nesting: what holds of the commands of one depth holds of the batches   *)
(* of them.                                                                *)
(***************************************************************************)
BatchesOf(T) == [op : {"batch"}, commands : Seq(T) \ {<<>>}]

LEMMA BatchFields ==
  ASSUME NEW T, NEW c \in BatchesOf(T)
  PROVE  IsBatch(c) /\ ~IsDomain(c) /\ c.commands \in Seq(T) /\ c.commands # <<>> /\ c = Batch(c.commands)
BY DEF BatchesOf, IsBatch, IsDomain, Batch

LEMMA BatchOf ==
  ASSUME NEW T, NEW t \in Seq(T), t # <<>>
  PROVE  Batch(t) \in BatchesOf(T) /\ IsBatch(Batch(t)) /\ Batch(t).commands = t
BY DEF BatchesOf, IsBatch, Batch

DeeperEffects(U, nested) ==
    [c \in U |-> [d \in Document |->
        IF IsBatch(c) THEN ApplyBatch(d, c.commands, nested) ELSE ApplyLeaf(d, c)]]

DeeperLeaves(U, count) ==
    [c \in U |-> IF IsBatch(c) THEN Sums(count, c.commands)[Len(c.commands)] ELSE 1]

LEMMA AppliedType ==
  ASSUME NEW U, NEW e \in Document, NEW b \in U
  PROVE  /\ Applied(e, b) \in EffectOf(U)
         /\ Applied(e, b).ok = TRUE /\ Applied(e, b).document = e /\ Applied(e, b).inverse = b
BY DEF Applied, EffectOf

\* What holds of the commands in T holds of the leaves and the batches of T.
LEMMA OneDeeper ==
  ASSUME NEW T, NEW nested, NEW count \in [T -> Nat], Sound(T, nested), Reversible(T, nested, count),
         NEW U, U = Leaf \cup BatchesOf(T), NEW deeper, deeper = DeeperEffects(U, nested),
         NEW leaves, leaves = DeeperLeaves(U, count)
  PROVE  Sound(U, deeper) /\ leaves \in [U -> Nat] /\ Reversible(U, deeper, leaves)
<1>1. ASSUME NEW c \in Leaf, NEW d \in Document
      PROVE  deeper[c][d] = ApplyLeaf(d, c) /\ leaves[c] = 1
  BY LeafIsNoBatch DEF DeeperEffects, DeeperLeaves
<1>2. ASSUME NEW c \in BatchesOf(T), NEW d \in Document
      PROVE  /\ deeper[c][d] = ApplyBatch(d, c.commands, nested)
             /\ leaves[c] = Sums(count, c.commands)[Len(c.commands)]
  BY BatchFields DEF DeeperEffects, DeeperLeaves
<1>3. Leaf \subseteq U
  OBVIOUS
<1>4. ASSUME NEW c \in U, NEW d \in Document
      PROVE  deeper[c][d] \in EffectOf(U)
  <2>1. CASE c \in Leaf
    <3>1. ApplyLeaf(d, c) \in EffectOf(Leaf)
      BY <2>1, LeafUndone
    <3> QED
      BY <1>1, <1>3, <2>1, <3>1 DEF EffectOf
  <2>2. CASE c \in BatchesOf(T)
    <3>1. PICK effect : effect = ApplyBatch(d, c.commands, nested)
      OBVIOUS
    <3>2. ASSUME effect.ok PROVE effect \in EffectOf(U)
      <4>1. PICK s \in Seq(T) : s = c.commands /\ s # <<>>
        BY <2>2, BatchFields
      <4>2. PICK t \in Seq(T) : BatchUndoneBy(T, nested, count, s, d, effect, t)
        BY <3>1, <3>2, <4>1, BatchUndone
      <4>3. t # <<>> /\ effect.document \in Document /\ effect = Applied(effect.document, Batch(t))
        BY <4>2, Zenon DEF BatchUndoneBy
      <4>4. Batch(t) \in U
        BY <4>3, BatchOf
      <4>5. PICK e \in Document, b \in U : e = effect.document /\ b = Batch(t)
        BY <4>3, <4>4
      <4>6. Applied(e, b) \in EffectOf(U)
        BY AppliedType
      <4> QED
        BY <4>3, <4>5, <4>6, SMT
    <3>3. ASSUME ~effect.ok PROVE effect \in EffectOf(U)
      <4>1. effect = Refused(d)
        BY <3>1, <3>3 DEF ApplyBatch, BatchEffect, Applied
      <4> QED
        BY <4>1 DEF Refused, EffectOf
    <3>4. deeper[c][d] = effect
      BY <1>2, <2>2, <3>1
    <3> QED
      BY <3>2, <3>3, <3>4
  <2> QED
    BY <2>1, <2>2
<1>5. deeper \in [U -> [Document -> EffectOf(U)]]
  <2>1. \A c \in U : deeper[c] = [d \in Document |-> deeper[c][d]]
    BY DEF DeeperEffects
  <2>2. deeper = [c \in U |-> deeper[c]]
    BY DEF DeeperEffects
  <2>3. PICK F : F = [Document -> EffectOf(U)]
    OBVIOUS
  <2>4. \A c \in U : deeper[c] \in F
    BY <1>4, <2>1, <2>3
  <2>5. deeper \in [U -> F]
    BY <2>2, <2>4
  <2> QED
    BY <2>3, <2>5
<1>6. Sound(U, deeper)
  <2>1. \A c \in U : IsDomain(c) => c \in Leaf
    BY BatchFields
  <2> QED
    BY <1>1, <1>3, <1>5, <2>1 DEF Sound
<1>7. leaves \in [U -> Nat]
  <2>1. \A c \in BatchesOf(T) : leaves[c] \in Nat
    <3> SUFFICES ASSUME NEW c \in BatchesOf(T) PROVE Sums(count, c.commands)[Len(c.commands)] \in Nat
      BY BatchFields DEF DeeperLeaves
    <3>1. PICK s \in Seq(T) : s = c.commands
      BY BatchFields
    <3>2. Len(s) \in 0..Len(s)
      OBVIOUS
    <3> QED
      BY <3>1, <3>2, SumsType
  <2>2. \A c \in Leaf : leaves[c] \in Nat
    BY LeafIsNoBatch DEF DeeperLeaves
  <2> QED
    BY <2>1, <2>2 DEF DeeperLeaves
<1>8. ASSUME NEW c \in U, NEW d \in Document, deeper[c][d].ok
      PROVE  /\ deeper[c][d].inverse \in U
             /\ leaves[deeper[c][d].inverse] = leaves[c]
             /\ deeper[deeper[c][d].inverse][deeper[c][d].document].ok
             /\ deeper[deeper[c][d].inverse][deeper[c][d].document].document = d
  <2>1. CASE c \in Leaf
    <3>1. PICK effect \in EffectOf(Leaf) : effect = ApplyLeaf(d, c)
      BY <2>1, LeafUndone
    <3>2. deeper[c][d] = effect /\ leaves[c] = 1
      BY <1>1, <2>1, <3>1
    <3>3. effect.document \in Document
      BY DEF EffectOf
    <3>4. effect.inverse \in Leaf /\ ApplyLeaf(effect.document, effect.inverse).ok
          /\ ApplyLeaf(effect.document, effect.inverse).document = d
      BY <1>8, <2>1, <3>1, <3>2, LeafUndone
    <3>5. deeper[effect.inverse][effect.document] = ApplyLeaf(effect.document, effect.inverse)
          /\ leaves[effect.inverse] = 1
      BY <1>1, <3>3, <3>4
    <3> QED
      BY <1>3, <3>2, <3>4, <3>5, Zenon
  <2>2. CASE c \in BatchesOf(T)
    <3>1. PICK s \in Seq(T) : s = c.commands /\ s # <<>>
      BY <2>2, BatchFields
    <3>2. PICK effect : effect = ApplyBatch(d, s, nested)
      OBVIOUS
    <3>3. deeper[c][d] = effect /\ leaves[c] = Sums(count, s)[Len(s)]
      BY <1>2, <2>2, <3>1, <3>2
    <3>4. PICK t \in Seq(T) : BatchUndoneBy(T, nested, count, s, d, effect, t)
      BY <1>8, <3>1, <3>2, <3>3, BatchUndone
    <3>5. PICK e \in Document : e = effect.document
      BY <3>4, Zenon DEF BatchUndoneBy
    <3>6. /\ t # <<>> /\ effect = Applied(e, Batch(t))
          /\ Sums(count, t)[Len(t)] = Sums(count, s)[Len(s)]
          /\ ApplyBatch(e, t, nested).ok /\ ApplyBatch(e, t, nested).document = d
      BY <3>4, <3>5, Zenon DEF BatchUndoneBy
    <3>7. PICK b \in BatchesOf(T) : b = Batch(t) /\ b.commands = t
      BY <3>6, BatchOf
    <3>8. effect.inverse = b /\ b \in U
      BY <3>6, <3>7 DEF Applied
    <3>9. deeper[b][e] = ApplyBatch(e, t, nested) /\ leaves[b] = Sums(count, t)[Len(t)]
      BY <1>2, <3>7, Zenon
    <3> QED
      BY <3>3, <3>5, <3>6, <3>8, <3>9, Zenon
  <2> QED
    BY <2>1, <2>2
<1>9. Reversible(U, deeper, leaves)
  BY <1>8, Zenon DEF Reversible
<1> QED
  BY <1>6, <1>7, <1>9

\* What the engine does with the commands that nest at most n deep.
DepthCorrect(n) ==
    /\ Sound(Tree[n], Effects[n])
    /\ Leaves[n] \in [Tree[n] -> Nat]
    /\ Reversible(Tree[n], Effects[n], Leaves[n])

LEMMA LeavesCorrect == DepthCorrect(0)
<1>1. Tree[0] = Leaf
  BY TreeEquation
<1>2. PICK nested : nested = Effects[0]
  OBVIOUS
<1>3. nested = [c \in Leaf |-> [d \in Document |-> ApplyLeaf(d, c)]]
  BY <1>2, EffectsEquation
<1>4. PICK count : count = Leaves[0]
  OBVIOUS
<1>5. count = [c \in Leaf |-> 1]
  BY <1>4, LeavesEquation
<1>6. \A c \in Leaf, d \in Document : nested[c][d] = ApplyLeaf(d, c)
  BY <1>3
<1>7. \A c \in Leaf, d \in Document : ApplyLeaf(d, c) \in EffectOf(Leaf)
  BY LeafUndone
<1>8. nested \in [Leaf -> [Document -> EffectOf(Leaf)]]
  BY <1>3, <1>7
<1>9. Sound(Leaf, nested)
  BY <1>6, <1>8 DEF Sound
<1>10. ASSUME NEW c \in Leaf, NEW d \in Document, nested[c][d].ok
       PROVE  /\ nested[c][d].inverse \in Leaf
              /\ count[nested[c][d].inverse] = count[c]
              /\ nested[nested[c][d].inverse][nested[c][d].document].ok
              /\ nested[nested[c][d].inverse][nested[c][d].document].document = d
  <2>1. PICK effect \in EffectOf(Leaf) : effect = ApplyLeaf(d, c)
    BY <1>7
  <2>2. nested[c][d] = effect /\ effect.document \in Document
    BY <1>6, <2>1 DEF EffectOf
  <2>3. effect.inverse \in Leaf /\ ApplyLeaf(effect.document, effect.inverse).ok
        /\ ApplyLeaf(effect.document, effect.inverse).document = d
    BY <1>10, <2>1, <2>2, LeafUndone
  <2>4. nested[effect.inverse][effect.document] = ApplyLeaf(effect.document, effect.inverse)
    BY <1>6, <2>2, <2>3
  <2>5. count[effect.inverse] = 1 /\ count[c] = 1
    BY <1>5, <2>3
  <2> QED
    BY <2>2, <2>3, <2>4, <2>5, Zenon
<1>11. Reversible(Leaf, nested, count)
  BY <1>10, Zenon DEF Reversible
<1>12. count \in [Leaf -> Nat]
  BY <1>5
<1> QED
  BY <1>1, <1>2, <1>4, <1>9, <1>11, <1>12, Zenon DEF DepthCorrect

\* By induction on the depth.
LEMMA EveryDepthCorrect ==
  \A n \in 0..MaxBatchDepth : DepthCorrect(n)
<1> DEFINE S == {n \in Nat : n <= MaxBatchDepth => DepthCorrect(n)}
<1>1. 0 \in S
  BY LeavesCorrect
<1>2. \A n \in Nat : n \in S => n + 1 \in S
  <2> SUFFICES ASSUME NEW n \in Nat, n \in S, n + 1 <= MaxBatchDepth PROVE DepthCorrect(n + 1)
    OBVIOUS
  <2>1. DepthCorrect(n) /\ n \in 0..MaxBatchDepth - 1
    BY DepthIsNat
  <2>2. PICK T, nested, count : T = Tree[n] /\ nested = Effects[n] /\ count = Leaves[n]
    OBVIOUS
  <2>3. PICK U, deeper, leaves : U = Tree[n + 1] /\ deeper = Effects[n + 1] /\ leaves = Leaves[n + 1]
    OBVIOUS
  <2>4. count \in [T -> Nat] /\ Sound(T, nested) /\ Reversible(T, nested, count)
    BY <2>1, <2>2 DEF DepthCorrect
  <2>5. U = Leaf \cup BatchesOf(T)
    BY <2>1, <2>2, <2>3, TreeEquation, Zenon DEF BatchesOf
  <2>6. deeper = DeeperEffects(U, nested)
    <3>1. Effects[n + 1] = DeeperEffects(Tree[n + 1], Effects[n])
      BY <2>1, EffectsEquation, Zenon DEF DeeperEffects
    <3> QED
      BY <2>2, <2>3, <3>1, Zenon
  <2>7. leaves = DeeperLeaves(U, count)
    BY <2>1, <2>2, <2>3, LeavesEquation, Zenon DEF DeeperLeaves
  <2>8. Sound(U, deeper) /\ leaves \in [U -> Nat] /\ Reversible(U, deeper, leaves)
    BY <2>4, <2>5, <2>6, <2>7, OneDeeper
  <2> QED
    BY <2>3, <2>8, Zenon DEF DepthCorrect
<1>3. Nat \subseteq S
  <2> HIDE DEF S
  <2> QED
    BY <1>1, <1>2, SetInduction
<1> QED
  BY <1>3, DepthIsNat

\* Reversible at one command and one document.
LEMMA UndoneAt ==
  ASSUME NEW T, NEW nested, NEW count, Reversible(T, nested, count),
         NEW c \in T, NEW d \in Document, NEW effect, effect = nested[c][d], effect.ok
  PROVE  /\ effect.inverse \in T
         /\ count[effect.inverse] = count[c]
         /\ nested[effect.inverse][effect.document].ok
         /\ nested[effect.inverse][effect.document].document = d
BY Zenon DEF Reversible

(***************************************************************************)
(* An accepted command of any shape has an inverse that the same engine    *)
(* accepts in the resulting document, within every limit on batches, and   *)
(* that gives the original document back (apply_command_with_registry).    *)
(* This is what the store's model assumes of its command engine.           *)
(***************************************************************************)
THEOREM EngineIsReversible ==
  ASSUME NEW d \in Document, NEW c, ApplyCommand(d, c).ok
  PROVE  /\ ApplyCommand(d, c).document \in Document
         /\ Preflight(ApplyCommand(d, c).inverse)
         /\ ApplyCommand(ApplyCommand(d, c).document, ApplyCommand(d, c).inverse).ok
         /\ ApplyCommand(ApplyCommand(d, c).document, ApplyCommand(d, c).inverse).document = d
<1>1. PICK T, nested, count : /\ T = Tree[MaxBatchDepth]
                              /\ nested = Effects[MaxBatchDepth]
                              /\ count = Leaves[MaxBatchDepth]
  OBVIOUS
<1>2. Sound(T, nested) /\ count \in [T -> Nat] /\ Reversible(T, nested, count)
  BY <1>1, DepthIsNat, EveryDepthCorrect DEF DepthCorrect
<1>3. \A x : Preflight(x) <=> x \in T /\ count[x] <= MaxBatchCommands
  BY <1>1, Zenon DEF Preflight, WellNested, LeafCount
<1>4. MaxBatchDepth - 0 = MaxBatchDepth
  BY DepthIsNat
<1>5. \A x, e : ApplyCommand(e, x) = IF Preflight(x) THEN Finalized(e, nested[x][e]) ELSE Refused(e)
  BY <1>1, <1>4, Zenon DEF ApplyCommand, ApplyNested
<1>6. Preflight(c)
  BY <1>5 DEF Refused
<1>7. c \in T
  BY <1>3, <1>6
<1>8. PICK effect \in EffectOf(T) : effect = nested[c][d]
  BY <1>2, <1>7 DEF Sound
<1>9. effect.ok /\ Preflight(effect.inverse) /\ ApplyCommand(d, c) = effect
  BY <1>5, <1>6, <1>8 DEF Finalized, Refused
<1>10. PICK e \in Document : e = effect.document
  BY DEF EffectOf
<1>11. PICK b \in T : b = effect.inverse
  BY <1>3, <1>9
<1>12. nested[b][e].ok /\ nested[b][e].document = d
  <2>1. /\ nested[effect.inverse][effect.document].ok
        /\ nested[effect.inverse][effect.document].document = d
    BY <1>2, <1>7, <1>8, <1>9, UndoneAt
  <2> QED
    BY <1>10, <1>11, <2>1
<1>13. nested[b][e].inverse \in T /\ count[nested[b][e].inverse] = count[b]
  BY <1>2, <1>12, UndoneAt
<1>14. Preflight(nested[b][e].inverse)
  BY <1>3, <1>9, <1>11, <1>13
<1>15. ApplyCommand(e, b) = nested[b][e]
  BY <1>5, <1>9, <1>11, <1>12, <1>14 DEF Finalized
<1> QED
  BY <1>9, <1>10, <1>11, <1>12, <1>15, Zenon

-----------------------------------------------------------------------------
(***************************************************************************)
(* The depth at which a command is applied does not matter as long as it   *)
(* fits: only the effects of a batch's own children count.                 *)
(***************************************************************************)
LEMMA BatchLocal ==
  ASSUME NEW s, Len(s) \in Nat, NEW nested, NEW deeper, NEW d,
         \A k \in 1..Len(s) : nested[s[k]] = deeper[s[k]]
  PROVE  ApplyBatch(d, s, nested) = ApplyBatch(d, s, deeper)
<1>1. PICK f, g : f = BatchRun(d, s, nested) /\ g = BatchRun(d, s, deeper)
  OBVIOUS
<1>2. /\ f[0] = [ok |-> TRUE, document |-> d, inverses |-> <<>>]
      /\ \A k \in 1..Len(s) : f[k] = AfterChild(f[Preceding(s, k)], s, k, nested)
  BY <1>1, BatchRunEquation
<1>3. /\ g[0] = [ok |-> TRUE, document |-> d, inverses |-> <<>>]
      /\ \A k \in 1..Len(s) : g[k] = AfterChild(g[Preceding(s, k)], s, k, deeper)
  BY <1>1, BatchRunEquation
<1>4. /\ f[0] = g[0]
      /\ \A k \in 1..Len(s) : f[k] = AfterChild(f[Preceding(s, k)], s, k, nested)
      /\ \A k \in 1..Len(s) : g[k] = AfterChild(g[Preceding(s, k)], s, k, deeper)
  BY <1>2, <1>3, Zenon
<1>5. ASSUME NEW k \in 1..Len(s), NEW before
      PROVE  AfterChild(before, s, k, nested) = AfterChild(before, s, k, deeper)
  <2>1. nested[s[k]] = deeper[s[k]]
    OBVIOUS
  <2> QED
    BY <2>1, Zenon DEF AfterChild
<1> DEFINE S == {k \in Nat : k <= Len(s) => f[k] = g[k]}
<1>6. \A k \in Nat : (\A i \in 0..k - 1 : i \in S) => k \in S
  <2> SUFFICES ASSUME NEW k \in Nat, \A i \in 0..k - 1 : i \in S, k <= Len(s) PROVE f[k] = g[k]
    OBVIOUS
  <2>1. CASE k = 0
    BY <1>4, <2>1
  <2>2. CASE k # 0
    <3>1. k \in 1..Len(s)
      BY <2>2
    <3>2. PICK p \in 0..k - 1 : p = Preceding(s, k)
      BY <3>1, PrecedingBefore
    <3>3. f[p] = g[p]
      BY <3>1
    <3> QED
      BY <1>4, <1>5, <3>1, <3>2, <3>3, Zenon
  <2> QED
    BY <2>1, <2>2
<1>7. Nat \subseteq S
  <2> HIDE DEF S
  <2> QED
    BY <1>6, StrongInduction
<1>8. f[Len(s)] = g[Len(s)]
  BY <1>7
<1> QED
  BY <1>1, <1>8, Zenon DEF ApplyBatch

\* The same of the number of leaves.
LEMMA SumsLocal ==
  ASSUME NEW s, Len(s) \in Nat, NEW count, NEW deeper,
         \A k \in 1..Len(s) : count[s[k]] = deeper[s[k]]
  PROVE  Sums(count, s)[Len(s)] = Sums(deeper, s)[Len(s)]
<1>1. PICK f, g : f = Sums(count, s) /\ g = Sums(deeper, s)
  OBVIOUS
<1>2. /\ f[0] = g[0]
      /\ \A k \in 1..Len(s) : f[k] = f[k - 1] + count[s[k]]
      /\ \A k \in 1..Len(s) : g[k] = g[k - 1] + deeper[s[k]]
  BY <1>1, SumsEquation
<1> DEFINE S == {k \in Nat : k <= Len(s) => f[k] = g[k]}
<1>3. 0 \in S
  BY <1>2
<1>4. \A k \in Nat : k \in S => k + 1 \in S
  <2> SUFFICES ASSUME NEW k \in Nat, k \in S, k + 1 <= Len(s) PROVE f[k + 1] = g[k + 1]
    OBVIOUS
  <2>1. k + 1 \in 1..Len(s) /\ (k + 1) - 1 = k /\ f[k] = g[k]
    OBVIOUS
  <2>2. f[k + 1] = f[k] + count[s[k + 1]] /\ g[k + 1] = g[k] + deeper[s[k + 1]]
    BY <1>2, <2>1
  <2>3. count[s[k + 1]] = deeper[s[k + 1]]
    BY <2>1
  <2> QED
    BY <2>1, <2>2, <2>3
<1>5. Nat \subseteq S
  <2> HIDE DEF S
  <2> QED
    BY <1>3, <1>4, SetInduction
<1>6. f[Len(s)] = g[Len(s)]
  BY <1>5
<1> QED
  BY <1>1, <1>6, Zenon

\* The commands of T, their effects and their leaves are the same in U.
Included(T, nested, count, U, deeper, leaves) ==
    /\ T \subseteq U
    /\ \A c \in T : nested[c] = deeper[c]
    /\ \A c \in T : count[c] = leaves[c]

\* The defining equations once more, in the terms of this section.
LEMMA LevelFunctions ==
  ASSUME NEW n \in 0..MaxBatchDepth - 1
  PROVE  /\ Tree[n + 1] = Leaf \cup BatchesOf(Tree[n])
         /\ Effects[n + 1] = DeeperEffects(Tree[n + 1], Effects[n])
         /\ Leaves[n + 1] = DeeperLeaves(Tree[n + 1], Leaves[n])
<1>1. Tree[n + 1] = Leaf \cup BatchesOf(Tree[n])
  BY TreeEquation, Zenon DEF BatchesOf
<1>2. Effects[n + 1] = DeeperEffects(Tree[n + 1], Effects[n])
  BY EffectsEquation, Zenon DEF DeeperEffects
<1>3. Leaves[n + 1] = DeeperLeaves(Tree[n + 1], Leaves[n])
  BY LeavesEquation, Zenon DEF DeeperLeaves
<1> QED
  BY <1>1, <1>2, <1>3

\* Leaves are included in the next level,
LEMMA IncludedFirst ==
  ASSUME NEW T, NEW nested, NEW count,
         NEW U, U = Leaf \cup BatchesOf(T)
  PROVE  Included(Leaf, [c \in Leaf |-> [d \in Document |-> ApplyLeaf(d, c)]], [c \in Leaf |-> 1],
                  U, DeeperEffects(U, nested), DeeperLeaves(U, count))
<1>1. ASSUME NEW c \in Leaf
      PROVE  /\ DeeperEffects(U, nested)[c] = [d \in Document |-> ApplyLeaf(d, c)]
             /\ DeeperLeaves(U, count)[c] = 1
  BY LeafIsNoBatch DEF DeeperEffects, DeeperLeaves
<1>2. PICK first, ones : /\ first = [c \in Leaf |-> [d \in Document |-> ApplyLeaf(d, c)]]
                         /\ ones = [c \in Leaf |-> 1]
  OBVIOUS
<1>3. \A c \in Leaf : first[c] = [d \in Document |-> ApplyLeaf(d, c)] /\ ones[c] = 1
  BY <1>2
<1>4. Included(Leaf, first, ones, U, DeeperEffects(U, nested), DeeperLeaves(U, count))
  BY <1>1, <1>3, Zenon DEF Included
<1> QED
  BY <1>2, <1>4, Zenon

\* and inclusion carries over from one level to the next.
LEMMA IncludedNext ==
  ASSUME NEW T, NEW nested, NEW count, NEW U, NEW deeper, NEW leaves,
         Included(T, nested, count, U, deeper, leaves),
         NEW T1, T1 = Leaf \cup BatchesOf(T), NEW U1, U1 = Leaf \cup BatchesOf(U)
  PROVE  Included(T1, DeeperEffects(T1, nested), DeeperLeaves(T1, count),
                  U1, DeeperEffects(U1, deeper), DeeperLeaves(U1, leaves))
<1>1. ASSUME NEW c \in BatchesOf(T)
      PROVE  c \in BatchesOf(U)
  <2>1. T \subseteq U
    BY DEF Included
  <2> QED
    BY <2>1 DEF BatchesOf
<1>2. ASSUME NEW c \in Leaf
      PROVE  /\ DeeperEffects(T1, nested)[c] = DeeperEffects(U1, deeper)[c]
             /\ DeeperLeaves(T1, count)[c] = DeeperLeaves(U1, leaves)[c]
  BY LeafIsNoBatch DEF DeeperEffects, DeeperLeaves
<1>3. ASSUME NEW c \in BatchesOf(T)
      PROVE  /\ DeeperEffects(T1, nested)[c] = DeeperEffects(U1, deeper)[c]
             /\ DeeperLeaves(T1, count)[c] = DeeperLeaves(U1, leaves)[c]
  <2>1. PICK s \in Seq(T) : s = c.commands
    BY BatchFields
  <2>2. Len(s) \in Nat /\ \A k \in 1..Len(s) : s[k] \in T
    OBVIOUS
  <2>3. \A k \in 1..Len(s) : nested[s[k]] = deeper[s[k]] /\ count[s[k]] = leaves[s[k]]
    BY <2>2, Zenon DEF Included
  <2>4. \A d \in Document : ApplyBatch(d, s, nested) = ApplyBatch(d, s, deeper)
    BY <2>2, <2>3, BatchLocal
  <2>5. Sums(count, s)[Len(s)] = Sums(leaves, s)[Len(s)]
    BY <2>2, <2>3, SumsLocal
  <2>6. c \in T1 /\ c \in U1 /\ IsBatch(c)
    BY <1>1, BatchFields
  <2>7. /\ DeeperEffects(T1, nested)[c] = [d \in Document |-> ApplyBatch(d, s, nested)]
        /\ DeeperEffects(U1, deeper)[c] = [d \in Document |-> ApplyBatch(d, s, deeper)]
    BY <2>1, <2>6 DEF DeeperEffects
  <2>8. /\ DeeperLeaves(T1, count)[c] = Sums(count, s)[Len(s)]
        /\ DeeperLeaves(U1, leaves)[c] = Sums(leaves, s)[Len(s)]
    BY <2>1, <2>6 DEF DeeperLeaves
  <2> QED
    BY <2>4, <2>5, <2>7, <2>8
<1>4. T1 \subseteq U1
  BY <1>1
<1> QED
  BY <1>2, <1>3, <1>4, Zenon DEF Included

DepthIncluded(n) ==
    Included(Tree[n], Effects[n], Leaves[n], Tree[n + 1], Effects[n + 1], Leaves[n + 1])

\* By induction on the depth.
LEMMA EveryDepthIncluded ==
  \A n \in 0..MaxBatchDepth - 1 : DepthIncluded(n)
<1> DEFINE S == {n \in Nat : n + 1 <= MaxBatchDepth => DepthIncluded(n)}
<1>1. 0 \in S
  <2> SUFFICES ASSUME 1 <= MaxBatchDepth PROVE DepthIncluded(0)
    OBVIOUS
  <2>1. 0 \in 0..MaxBatchDepth - 1
    BY DepthIsNat
  <2>2. PICK T, nested, count : T = Tree[0] /\ nested = Effects[0] /\ count = Leaves[0]
    OBVIOUS
  <2>3. PICK U : U = Tree[0 + 1]
    OBVIOUS
  <2>4. /\ U = Leaf \cup BatchesOf(T)
        /\ Effects[0 + 1] = DeeperEffects(U, nested)
        /\ Leaves[0 + 1] = DeeperLeaves(U, count)
    BY <2>1, <2>2, <2>3, LevelFunctions, Zenon
  <2>5. /\ T = Leaf
        /\ nested = [c \in Leaf |-> [d \in Document |-> ApplyLeaf(d, c)]]
        /\ count = [c \in Leaf |-> 1]
    BY <2>2, TreeEquation, EffectsEquation, LeavesEquation, Zenon
  <2>6. Included(T, nested, count, U, DeeperEffects(U, nested), DeeperLeaves(U, count))
    BY <2>4, <2>5, IncludedFirst, Zenon
  <2> QED
    BY <2>2, <2>3, <2>4, <2>6, Zenon DEF DepthIncluded
<1>2. \A n \in Nat : n \in S => n + 1 \in S
  <2> SUFFICES ASSUME NEW n \in Nat, n \in S, (n + 1) + 1 <= MaxBatchDepth PROVE DepthIncluded(n + 1)
    OBVIOUS
  <2>1. PICK m \in 0..MaxBatchDepth - 1 : m = n + 1
    BY DepthIsNat
  <2>2. n \in 0..MaxBatchDepth - 1 /\ DepthIncluded(n)
    BY DepthIsNat
  <2>3. PICK T, nested, count : T = Tree[n] /\ nested = Effects[n] /\ count = Leaves[n]
    OBVIOUS
  <2>4. PICK U, deeper, leaves : U = Tree[m] /\ deeper = Effects[m] /\ leaves = Leaves[m]
    OBVIOUS
  <2>5. PICK V : V = Tree[m + 1]
    OBVIOUS
  <2>6. U = Leaf \cup BatchesOf(T) /\ deeper = DeeperEffects(U, nested) /\ leaves = DeeperLeaves(U, count)
    BY <2>1, <2>2, <2>3, <2>4, LevelFunctions, Zenon
  <2>7. V = Leaf \cup BatchesOf(U) /\ Effects[m + 1] = DeeperEffects(V, deeper)
        /\ Leaves[m + 1] = DeeperLeaves(V, leaves)
    BY <2>4, <2>5, LevelFunctions, Zenon
  <2>8. Included(T, nested, count, U, deeper, leaves)
    BY <2>1, <2>2, <2>3, <2>4, Zenon DEF DepthIncluded
  <2>9. Included(U, DeeperEffects(U, nested), DeeperLeaves(U, count),
                 V, DeeperEffects(V, deeper), DeeperLeaves(V, leaves))
    BY <2>6, <2>7, <2>8, IncludedNext, Zenon
  <2>10. DepthIncluded(m)
    BY <2>4, <2>5, <2>6, <2>7, <2>9, Zenon DEF DepthIncluded
  <2> QED
    BY <2>1, <2>10
<1>3. Nat \subseteq S
  <2> HIDE DEF S
  <2> QED
    BY <1>1, <1>2, SetInduction
<1> QED
  BY <1>3, DepthIsNat

-----------------------------------------------------------------------------
(***************************************************************************)
(* Reconciled commands.                                                    *)
(***************************************************************************)
LEMMA PairOf ==
  ASSUME NEW T, NEW a \in T, NEW b \in T
  PROVE  <<a, b>> \in Seq(T) /\ Len(<<a, b>>) = 2 /\ <<a, b>>[1] = a /\ <<a, b>>[2] = b
OBVIOUS

LEMMA PairElements ==
  ASSUME NEW T, NEW a, NEW b, <<a, b>> \in Seq(T)
  PROVE  a \in T /\ b \in T
<1>1. Len(<<a, b>>) = 2 /\ <<a, b>>[1] = a /\ <<a, b>>[2] = b
  OBVIOUS
<1>2. \A s \in Seq(T) : \A k \in 1..Len(s) : s[k] \in T
  OBVIOUS
<1>3. 1 \in 1..Len(<<a, b>>) /\ 2 \in 1..Len(<<a, b>>)
  BY <1>1
<1>4. <<a, b>>[1] \in T /\ <<a, b>>[2] \in T
  BY <1>2, <1>3, Zenon
<1> QED
  BY <1>1, <1>4, Zenon

LEMMA PairAppended ==
  ASSUME NEW a, NEW b
  PROVE  Append(<<a>>, b) = <<a, b>>
<1>1. PICK T : T = {a, b}
  OBVIOUS
<1>2. PICK p \in Seq(T), q \in Seq(T) : p = <<a>> /\ q = <<a, b>>
  <2>1. <<a, b>> \in Seq(T)
    BY <1>1, PairOf
  <2>2. <<a>> \in Seq(T)
    BY <1>1
  <2> QED
    BY <2>1, <2>2, Zenon
<1>3. Len(p) = 1 /\ p[1] = a
  BY <1>2
<1>4. Len(q) = 2 /\ q[1] = a /\ q[2] = b
  <2>1. Len(<<a, b>>) = 2 /\ <<a, b>>[1] = a /\ <<a, b>>[2] = b
    BY <1>1, PairOf
  <2> QED
    BY <1>2, <2>1, Zenon
<1>5. PICK r \in Seq(T) : r = Append(p, b)
  BY <1>1, AppendElements
<1>6. Len(r) = 2 /\ r[1] = a /\ r[2] = b
  <2>1. Len(r) = Len(p) + 1 /\ r[Len(p) + 1] = b /\ \A i \in 1..Len(p) : r[i] = p[i]
    BY <1>1, <1>5, AppendElements
  <2> QED
    BY <1>3, <2>1
<1>7. r = q
  BY <1>4, <1>6, SameSequence
<1> QED
  BY <1>2, <1>5, <1>7, Zenon

\* A batch of two children.
LEMMA TwoChildren ==
  ASSUME NEW T, NEW nested, Sound(T, nested), NEW a \in T, NEW b \in T, NEW d \in Document,
         NEW first, first = nested[a][d], NEW second, second = nested[b][first.document]
  PROVE  /\ first.ok /\ second.ok =>
                ApplyBatch(d, <<a, b>>, nested) = Applied(second.document, CombinedInverse(first, second))
         /\ ~(first.ok /\ second.ok) => ApplyBatch(d, <<a, b>>, nested) = Refused(d)
<1>1. PICK s \in Seq(T) : s = <<a, b>> /\ Len(s) = 2 /\ s[1] = a /\ s[2] = b
  <2>1. <<a, b>> \in Seq(T) /\ Len(<<a, b>>) = 2 /\ <<a, b>>[1] = a /\ <<a, b>>[2] = b
    BY PairOf
  <2> QED
    BY <2>1, Zenon
<1>2. PICK run, eng : run = OneByOne(d, s, nested) /\ eng = BatchRun(d, s, nested)
  OBVIOUS
<1>3. Traced(T, nested, s, d, run)
  BY <1>2, OneByOneSteps
<1>4. run[0] = [ok |-> TRUE, document |-> d, inverses |-> <<>>]
  BY <1>3, Zenon DEF Traced
<1>5. \A k \in 1..Len(s) : run[k] = IF ~run[k - 1].ok THEN run[k - 1]
                                    ELSE Extend(run[k - 1], nested[s[k]][run[k - 1].document])
  BY <1>3, Zenon DEF Traced
<1>6. 1 \in 1..Len(s) /\ 2 \in 1..Len(s) /\ 1 - 1 = 0 /\ 2 - 1 = 1
  BY <1>1
<1>7. run[1] = Extend(run[0], first)
  <2>1. run[1] = IF ~run[0].ok THEN run[0] ELSE Extend(run[0], nested[s[1]][run[0].document])
    BY <1>5, <1>6
  <2>2. run[0].ok /\ run[0].document = d
    BY <1>4
  <2> QED
    BY <1>1, <2>1, <2>2, Zenon
<1>8. run[1].ok = first.ok /\ run[1].document = first.document /\ run[1].inverses = <<first.inverse>>
  BY <1>4, <1>7 DEF Extend
<1>9. run[2] = IF ~run[1].ok THEN run[1] ELSE Extend(run[1], second)
  <2>1. run[2] = IF ~run[1].ok THEN run[1] ELSE Extend(run[1], nested[s[2]][run[1].document])
    BY <1>5, <1>6
  <2> QED
    BY <1>1, <1>8, <2>1, Zenon
<1>10. eng[2].ok \/ run[2].ok => eng[2] = run[2]
  <2>1. \A k \in 0..Len(s) : eng[k].ok \/ run[k].ok => eng[k] = run[k]
    BY <1>2, RunAgrees
  <2>2. 2 \in 0..Len(s)
    BY <1>1
  <2> QED
    BY <2>1, <2>2
<1>11. ApplyBatch(d, s, nested) = BatchEffect(d, eng[2])
  BY <1>1, <1>2, Zenon DEF ApplyBatch
<1>12. ASSUME first.ok, second.ok
       PROVE  ApplyBatch(d, s, nested) = Applied(second.document, CombinedInverse(first, second))
  <2>1. run[2] = Extend(run[1], second)
    BY <1>8, <1>9, <1>12
  <2>2. run[2].ok /\ run[2].document = second.document
        /\ run[2].inverses = Append(run[1].inverses, second.inverse)
    BY <1>12, <2>1 DEF Extend
  <2>3. run[2].inverses = <<first.inverse, second.inverse>>
    BY <1>8, <2>2, PairAppended
  <2> QED
    BY <1>10, <1>11, <2>2, <2>3, Zenon DEF BatchEffect, CombinedInverse
<1>13. ASSUME ~(first.ok /\ second.ok) PROVE ApplyBatch(d, s, nested) = Refused(d)
  <2>1. ~run[2].ok
    <3>1. CASE first.ok
      BY <1>8, <1>9, <1>13, <3>1 DEF Extend
    <3>2. CASE ~first.ok
      BY <1>8, <1>9, <3>2
    <3> QED
      BY <3>1, <3>2
  <2>2. ~eng[2].ok
    BY <1>10, <2>1
  <2> QED
    BY <1>11, <2>2, Zenon DEF BatchEffect
<1> QED
  BY <1>1, <1>12, <1>13, Zenon

\* The leaves of a batch of two children.
LEMMA TwoChildrenLeaves ==
  ASSUME NEW T, NEW count \in [T -> Nat], NEW a \in T, NEW b \in T
  PROVE  Sums(count, <<a, b>>)[Len(<<a, b>>)] = count[a] + count[b]
<1>1. PICK s \in Seq(T) : s = <<a, b>> /\ Len(s) = 2 /\ s[1] = a /\ s[2] = b
  <2>1. <<a, b>> \in Seq(T) /\ Len(<<a, b>>) = 2 /\ <<a, b>>[1] = a /\ <<a, b>>[2] = b
    BY PairOf
  <2> QED
    BY <2>1, Zenon
<1>2. PICK sum : sum = Sums(count, s)
  OBVIOUS
<1>3. sum[0] = 0 /\ \A n \in 1..Len(s) : sum[n] = sum[n - 1] + count[s[n]]
  <2>1. Len(s) \in Nat
    OBVIOUS
  <2> QED
    BY <1>2, <2>1, SumsEquation
<1>4. sum[1] = 0 + count[a] /\ sum[2] = sum[1] + count[b]
  BY <1>1, <1>3
<1>5. sum[2] = count[a] + count[b]
  BY <1>4
<1> QED
  BY <1>1, <1>2, <1>5, Zenon

\* A reconciliation is applied at all only when both parts pass the preflight
\* that the whole passes.
LEMMA PartsFit ==
  ASSUME NEW draft, NEW derived, Preflight(ReconciledCommand(draft, derived)),
         NEW T, T = Tree[MaxBatchDepth - 1]
  PROVE  /\ draft \in T
         /\ Batch(derived) \in T
         /\ Preflight(draft)
         /\ Preflight(Batch(derived))
         /\ ReconciledCommand(draft, derived) \in BatchesOf(T)
<1>1. PICK m \in 0..MaxBatchDepth - 1 : m = MaxBatchDepth - 1 /\ m + 1 = MaxBatchDepth
  BY CommandConstants
<1>2. PICK count, U, leaves : count = Leaves[m] /\ U = Tree[m + 1] /\ leaves = Leaves[m + 1]
  OBVIOUS
<1>3. T = Tree[m]
  BY <1>1
<1>4. U = Leaf \cup BatchesOf(T) /\ leaves = DeeperLeaves(U, count)
  BY <1>2, <1>3, LevelFunctions, Zenon
<1>5. \A x : Preflight(x) <=> x \in U /\ leaves[x] <= MaxBatchCommands
  BY <1>1, <1>2, Zenon DEF Preflight, WellNested, LeafCount
<1>6. T \subseteq U /\ \A x \in T : count[x] = leaves[x]
  BY <1>2, <1>3, EveryDepthIncluded, Zenon DEF DepthIncluded, Included
<1>7. count \in [T -> Nat]
  BY <1>1, <1>2, <1>3, EveryDepthCorrect DEF DepthCorrect
<1>8. PICK b, c : b = Batch(derived) /\ c = ReconciledCommand(draft, derived)
  OBVIOUS
<1>9. c.op = "batch" /\ c.commands = <<draft, b>>
  BY <1>8 DEF ReconciledCommand, Batch
<1>10. c \in U /\ leaves[c] <= MaxBatchCommands
  BY <1>5, <1>8
<1>11. c \in BatchesOf(T)
  BY <1>4, <1>9, <1>10, LeafIsNoBatch DEF IsBatch
<1>12. <<draft, b>> \in Seq(T)
  BY <1>9, <1>11, BatchFields
<1>13. draft \in T /\ b \in T
  BY <1>12, PairElements
<1>14. leaves[c] = count[draft] + count[b]
  <2>1. leaves[c] = Sums(count, <<draft, b>>)[Len(<<draft, b>>)]
    BY <1>4, <1>9, <1>10 DEF DeeperLeaves, IsBatch
  <2> QED
    BY <1>7, <1>13, <2>1, TwoChildrenLeaves
<1>15. MaxBatchCommands \in Nat
  BY CommandConstants
<1>16. leaves[draft] <= MaxBatchCommands /\ leaves[b] <= MaxBatchCommands
  <2>1. count[draft] \in Nat /\ count[b] \in Nat
    BY <1>7, <1>13
  <2> QED
    BY <1>6, <1>10, <1>13, <1>14, <1>15, <2>1
<1> QED
  BY <1>5, <1>6, <1>8, <1>11, <1>13, <1>16

(***************************************************************************)
(* A draft and the commands derived from its outcome are journalled as one *)
(* batch; applying them one after the other is exactly applying that       *)
(* batch, with the same outcome, the same inverse and the same refusals    *)
(* (apply_reconciled_command_with_registry).  So the redo of a             *)
(* reconciliation, which replays the batch, does what the first run did.   *)
(***************************************************************************)
THEOREM ReconciledIsOneBatch ==
  ASSUME NEW d \in Document, NEW draft, NEW derived
  PROVE  ApplyReconciled(d, draft, derived) = ApplyCommand(d, ReconciledCommand(draft, derived))
<1>1. PICK m \in 0..MaxBatchDepth - 1 : m = MaxBatchDepth - 1 /\ m + 1 = MaxBatchDepth
  BY CommandConstants
<1>2. PICK b, c : b = Batch(derived) /\ c = ReconciledCommand(draft, derived)
  OBVIOUS
<1>3. CASE ~Preflight(c)
  BY <1>2, <1>3, Zenon DEF ApplyReconciled, ApplyCommand
<1>4. CASE Preflight(c)
  <2>1. PICK T, nested : T = Tree[m] /\ nested = Effects[m]
    OBVIOUS
  <2>2. PICK U, deeper : U = Tree[m + 1] /\ deeper = Effects[m + 1]
    OBVIOUS
  <2>3. Sound(T, nested)
    BY <1>1, <2>1, EveryDepthCorrect DEF DepthCorrect
  <2>4. draft \in T /\ b \in T /\ Preflight(draft) /\ Preflight(b) /\ c \in BatchesOf(T)
    BY <1>1, <1>2, <1>4, <2>1, PartsFit
  <2>5. deeper = DeeperEffects(U, nested) /\ U = Leaf \cup BatchesOf(T)
    BY <2>1, <2>2, LevelFunctions, Zenon
  <2>6. deeper[draft] = nested[draft]
    BY <2>1, <2>2, <2>4, EveryDepthIncluded, Zenon DEF DepthIncluded, Included
  <2>7. \A e, x : ApplyNested(e, x, 0) = deeper[x][e] /\ ApplyNested(e, x, 1) = nested[x][e]
    <3>1. MaxBatchDepth - 0 = m + 1 /\ MaxBatchDepth - 1 = m
      BY <1>1, DepthIsNat
    <3> QED
      BY <2>1, <2>2, <3>1, Zenon DEF ApplyNested
  <2>8. PICK first : first = nested[draft][d]
    OBVIOUS
  <2>9. PICK second : second = nested[b][first.document]
    OBVIOUS
  <2>10. PICK joint : joint = ApplyBatch(d, <<draft, b>>, nested)
    OBVIOUS
  <2>11. ApplyCommand(d, c) = Finalized(d, joint)
    <3>1. IsBatch(c) /\ c.commands = <<draft, b>>
      BY <1>2 DEF ReconciledCommand, Batch, IsBatch
    <3>2. deeper[c][d] = joint
      BY <2>4, <2>5, <2>10, <3>1 DEF DeeperEffects
    <3> QED
      BY <1>4, <2>7, <3>2, Zenon DEF ApplyCommand
  <2>12. PICK outcome : outcome = IF first.ok THEN Combined(first, second) ELSE first
    OBVIOUS
  <2>13. ApplyReconciled(d, draft, derived) = Finalized(d, outcome)
    <3>1. ApplyNested(d, draft, 0) = first
      BY <2>6, <2>7, <2>8, Zenon
    <3>2. AfterDraft(first, derived) = outcome
      BY <1>2, <2>7, <2>9, <2>12, Zenon DEF AfterDraft
    <3> QED
      BY <1>2, <1>4, <2>4, <3>1, <3>2, Zenon DEF ApplyReconciled
  <2>14. CASE first.ok /\ second.ok
    <3>1. joint = Applied(second.document, CombinedInverse(first, second))
      BY <2>3, <2>4, <2>8, <2>9, <2>10, <2>14, TwoChildren
    <3>2. outcome = joint
      BY <2>12, <2>14, <3>1, Zenon DEF Combined
    <3> QED
      BY <1>2, <2>11, <2>13, <3>2, Zenon
  <2>15. CASE ~(first.ok /\ second.ok)
    <3>1. joint = Refused(d)
      BY <2>3, <2>4, <2>8, <2>9, <2>10, <2>15, TwoChildren
    <3>2. ~outcome.ok
      BY <2>12, <2>15, Zenon DEF Combined
    <3>3. Finalized(d, outcome) = Refused(d)
      BY <3>2, Zenon DEF Finalized
    <3>4. Finalized(d, joint) = Refused(d)
      BY <3>1, Zenon DEF Finalized
    <3> QED
      BY <1>2, <2>11, <2>13, <3>3, <3>4, Zenon
  <2> QED
    BY <2>14, <2>15
<1> QED
  BY <1>3, <1>4

-----------------------------------------------------------------------------
(***************************************************************************)
(* The application service's undo and redo.                                *)
(***************************************************************************)
\* The journal holds what the engine did when the command was first executed.
Recorded(record) ==
    /\ record.before \in Document
    /\ ApplyCommand(record.before, record.command).ok
    /\ ApplyCommand(record.before, record.command).document = record.after
    /\ ApplyCommand(record.before, record.command).inverse = record.inverse

\* The inductive invariant.
ReplayInv ==
    /\ document \in Document
    /\ stage \in {"fresh", "done", "undone"}
    /\ stage \in {"done", "undone"} => Recorded(entry)
    /\ ReplayIsExact

\* What is recorded can be undone and redone.
LEMMA RecordedReplays ==
  ASSUME NEW record, Recorded(record)
  PROVE  /\ record.after \in Document
         /\ ApplyCommand(record.after, record.inverse).ok
         /\ ApplyCommand(record.after, record.inverse).document = record.before
<1>1. PICK d \in Document : d = record.before
  BY Zenon DEF Recorded
<1>2. PICK c : c = record.command
  OBVIOUS
<1>3. ApplyCommand(d, c).ok /\ ApplyCommand(d, c).document = record.after
      /\ ApplyCommand(d, c).inverse = record.inverse
  BY <1>1, <1>2, Zenon DEF Recorded
<1>4. /\ ApplyCommand(d, c).document \in Document
      /\ ApplyCommand(ApplyCommand(d, c).document, ApplyCommand(d, c).inverse).ok
      /\ ApplyCommand(ApplyCommand(d, c).document, ApplyCommand(d, c).inverse).document = d
  BY <1>3, EngineIsReversible
<1> QED
  BY <1>1, <1>3, <1>4, Zenon

\* Executing a command records what replays need.
LEMMA JournalRecords ==
  ASSUME NEW command, document \in Document, Journal(command, ApplyCommand(document, command))
  PROVE  ReplayInv'
<1>1. PICK applied : applied = ApplyCommand(document, command)
  OBVIOUS
<1>2. /\ applied.ok
      /\ document' = applied.document
      /\ entry' = [command |-> command, inverse |-> applied.inverse,
                   before |-> document, after |-> applied.document]
      /\ stage' = "done"
  BY <1>1, Zenon DEF Journal
<1>3. PICK record : record = entry'
  OBVIOUS
<1>4. record.command = command /\ record.inverse = applied.inverse
      /\ record.before = document /\ record.after = applied.document
  BY <1>2, <1>3
<1>5. Recorded(record)
  BY <1>1, <1>2, <1>4, Zenon DEF Recorded
<1>6. document' \in Document /\ document' = record.after
  BY <1>2, <1>4, <1>5, RecordedReplays, Zenon
<1>7. Recorded(entry)'
  BY <1>3, <1>5 DEF Recorded
<1> QED
  BY <1>2, <1>3, <1>6, <1>7 DEF ReplayInv, ReplayIsExact

\* One case per action.
LEMMA ReplayStep == ReplayInv /\ [Next]_vars => ReplayInv'
<1> SUFFICES ASSUME ReplayInv, [Next]_vars PROVE ReplayInv'
  OBVIOUS
<1>1. ASSUME NEW command \in Command, Execute(command) PROVE ReplayInv'
  <2>1. document \in Document /\ Journal(command, ApplyCommand(document, command))
    BY <1>1 DEF Execute, ReplayInv
  <2> QED
    BY <2>1, JournalRecords, Zenon
<1>2. ASSUME NEW draft \in Draft, NEW derived \in Derived, ExecuteReconciled(draft, derived)
      PROVE  ReplayInv'
  <2>1. document \in Document
    BY DEF ReplayInv
  <2>2. PICK command : command = ReconciledCommand(draft, derived)
    OBVIOUS
  <2>3. ApplyReconciled(document, draft, derived) = ApplyCommand(document, command)
    BY <2>1, <2>2, ReconciledIsOneBatch, Zenon
  <2>4. Journal(command, ApplyCommand(document, command))
    BY <1>2, <2>2, <2>3, Zenon DEF ExecuteReconciled
  <2> QED
    BY <2>1, <2>4, JournalRecords, Zenon
<1>3. ASSUME Undo PROVE ReplayInv'
  <2>1. Recorded(entry) /\ document = entry.after
    BY <1>3, Zenon DEF Undo, ReplayInv, ReplayIsExact
  <2>2. /\ ApplyCommand(document, entry.inverse).ok
        /\ ApplyCommand(document, entry.inverse).document = entry.before
    BY <2>1, RecordedReplays, Zenon
  <2>3. document' = entry.before /\ stage' = "undone" /\ entry' = entry
    BY <1>3, <2>2, Zenon DEF Undo, Replay, Replayed
  <2>4. entry.before \in Document
    BY <2>1 DEF Recorded
  <2>5. Recorded(entry)'
    BY <2>1, <2>3 DEF Recorded
  <2> QED
    BY <2>3, <2>4, <2>5 DEF ReplayInv, ReplayIsExact
<1>4. ASSUME Redo PROVE ReplayInv'
  <2>1. Recorded(entry) /\ document = entry.before
    BY <1>4, Zenon DEF Redo, ReplayInv, ReplayIsExact
  <2>2. /\ ApplyCommand(document, entry.command).ok
        /\ ApplyCommand(document, entry.command).document = entry.after
    BY <2>1, Zenon DEF Recorded
  <2>3. document' = entry.after /\ stage' = "done" /\ entry' = entry
    BY <1>4, <2>2, Zenon DEF Redo, Replay, Replayed
  <2>4. entry.after \in Document
    BY <2>1, RecordedReplays, Zenon
  <2>5. Recorded(entry)'
    BY <2>1, <2>3 DEF Recorded
  <2> QED
    BY <2>3, <2>4, <2>5 DEF ReplayInv, ReplayIsExact
<1>5. ASSUME Close PROVE ReplayInv'
  BY <1>5 DEF Close, ReplayInv, ReplayIsExact
<1>6. ASSUME UNCHANGED vars PROVE ReplayInv'
  BY <1>6 DEF vars, ReplayInv, ReplayIsExact, Recorded
<1> QED
  BY <1>1, <1>2, <1>3, <1>4, <1>5, <1>6, Zenon DEF Next

LEMMA ReplayInvariant == Spec => []ReplayInv
<1>1. Init => ReplayInv
  BY DEF Init, ReplayInv, ReplayIsExact
<1> QED
  BY <1>1, ReplayStep, PTL DEF Spec

(***************************************************************************)
(* Undo and redo are exact (history_apply), for commands of every shape    *)
(* within the limits and for reconciled drafts.                            *)
(***************************************************************************)
THEOREM ReplayExact == Spec => []ReplayIsExact
<1>1. ReplayInv => ReplayIsExact
  BY DEF ReplayInv
<1> QED
  BY <1>1, ReplayInvariant, PTL

(***************************************************************************)
(* No undo and no redo is ever refused (history_apply).                    *)
(***************************************************************************)
THEOREM ReplayAccepted == Spec => []ReplayNeverRefused
<1>1. ReplayInv => ReplayNeverRefused
  BY DEF ReplayInv, ReplayNeverRefused
<1> QED
  BY <1>1, ReplayInvariant, PTL

=============================================================================
