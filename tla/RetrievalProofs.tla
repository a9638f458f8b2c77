--------------------------- MODULE RetrievalProofs ---------------------------
(***************************************************************************)
(* Theorems about the retrieval, for any finite sets of notes, chunks and  *)
(* answers, and any scores, texts, feedback and relaunches.                *)
(*                                                                         *)
(* The selection is a fold over the candidates: what it returns is shown   *)
(* with an invariant of its loop (LoopInv), by induction over the number   *)
(* of candidates looked at.  A candidate is left out by the state of the   *)
(* loop at its turn; that the reason still holds at the end is what        *)
(* Accounted says, and that the first candidate is always said is a fact   *)
(* about the seeds.  The candidates get to the loop in the order of their  *)
(* scores through a cut and a filter, which is a loop as well.             *)
(*                                                                         *)
(* That a boost is the sum of the feedback takes an induction over the     *)
(* set of answers: one feedback changes the sum by its two deltas          *)
(* (SumChange), and an answer that is only now cited has none (AskingOK,   *)
(* CitedOK).                                                               *)
(*                                                                         *)
(* Induction is over sets: a set of numbers that has 0 and every           *)
(* successor, or a set of subsets closed upwards, is everything.           *)
(***************************************************************************)
EXTENDS Retrieval, FiniteSetTheorems, SequenceTheorems, TLAPS

-----------------------------------------------------------------------------
(* Induction, over sets of numbers and finite sets. *)

\* A non-empty set of numbers has a least element.
LEMMA Least ==
  ASSUME NEW S \in SUBSET Nat, S # {}
  PROVE  \E n \in S : \A m \in S : n <= m
<1> DEFINE Below == {0..n : n \in S}
<1>1. Below \subseteq FiniteSubsetsOf(Nat) /\ Below # {}
  <2>1. \A n \in S : 0..n \in SUBSET Nat /\ IsFiniteSet(0..n)
    BY FS_Interval
  <2> QED
    BY <2>1 DEF FiniteSubsetsOf
<1>2. \E x \in Below : \A y \in Below : <<y, x>> \notin StrictSubsetOrdering(Nat)
  <2> HIDE DEF Below
  <2> QED
    BY <1>1, FS_StrictSubsetOrderingWellFounded, WFMin
<1>3. PICK n \in S : \A m \in S : <<0..m, 0..n>> \notin StrictSubsetOrdering(Nat)
  BY <1>2
<1>4. \A m \in S : ~(m < n)
  <2> SUFFICES ASSUME NEW m \in S, m < n PROVE <<0..m, 0..n>> \in StrictSubsetOrdering(Nat)
    BY <1>3
  <2>1. 0..m \in SUBSET Nat /\ 0..n \in SUBSET Nat /\ 0..m \subseteq 0..n
    OBVIOUS
  <2>2. n \in 0..n /\ n \notin 0..m
    OBVIOUS
  <2> QED
    BY <2>1, <2>2 DEF StrictSubsetOrdering
<1> QED
  BY <1>4

\* Induction over the numbers, for a set in the place of a predicate.
LEMMA AllNumbers ==
  ASSUME NEW S, 0 \in S, \A n \in Nat : n \in S => n + 1 \in S
  PROVE  \A n \in Nat : n \in S
<1> SUFFICES ASSUME Nat \ S # {} PROVE FALSE
  OBVIOUS
<1>1. PICK n \in Nat \ S : \A m \in Nat \ S : n <= m
  BY Least
<1>2. n # 0 /\ n - 1 \in Nat /\ n - 1 \in S
  BY <1>1
<1> QED
  BY <1>1, <1>2

\* Induction over the finite subsets of D: a set of them that has every one whose
\* subsets without one element it has, has them all.
LEMMA AllSubsets ==
  ASSUME NEW D, IsFiniteSet(D), NEW S,
         \A T \in SUBSET D : (\A x \in T : T \ {x} \in S) => T \in S
  PROVE  \A T \in SUBSET D : T \in S
<1> SUFFICES ASSUME (SUBSET D) \ S # {} PROVE FALSE
  OBVIOUS
<1> DEFINE Rest == (SUBSET D) \ S
<1>1. Rest \subseteq FiniteSubsetsOf(D)
  BY FS_FiniteSubsetsOfFinite
<1>2. \E T \in Rest : \A U \in Rest : <<U, T>> \notin StrictSubsetOrdering(D)
  <2> HIDE DEF Rest
  <2> QED
    BY <1>1, FS_StrictSubsetOrderingWellFounded, WFMin DEF Rest
<1>3. PICK T \in Rest : \A U \in Rest : <<U, T>> \notin StrictSubsetOrdering(D)
  BY <1>2
<1>4. PICK x \in T : T \ {x} \in Rest
  BY <1>3
<1>5. <<T \ {x}, T>> \in StrictSubsetOrdering(D)
  BY <1>3, <1>4 DEF StrictSubsetOrdering
<1> QED
  BY <1>3, <1>4, <1>5

-----------------------------------------------------------------------------
(* Folds: MapThenFoldSet defines a function on the subsets by recursion. *)

\* f takes the elements of D one after the other from b, c of those that are left last.
Folds(f, D, b, step, c) ==
  \A s \in SUBSET D : f[s] = IF s = {} THEN b ELSE step[<<f[s \ {c[s]}], c[s]>>]

\* There is such a function.
LEMMA FoldExists ==
  ASSUME NEW D, IsFiniteSet(D), NEW X, NEW b \in X, NEW step \in [X \X D -> X],
         NEW c \in [(SUBSET D) \ {{}} -> D], \A s \in (SUBSET D) \ {{}} : c[s] \in s
  PROVE  \E f \in [SUBSET D -> X] : Folds(f, D, b, step, c)
<1> DEFINE Up(k) == {s \in SUBSET D : Cardinality(s) <= k}
           Defines(f, k) ==
             \A s \in Up(k) : f[s] = IF s = {} THEN b ELSE step[<<f[s \ {c[s]}], c[s]>>]
           Good == {k \in Nat : \E f \in [Up(k) -> X] : Defines(f, k)}
<1>1. \A s \in SUBSET D : IsFiniteSet(s) /\ Cardinality(s) \in Nat
  BY FS_Subset, FS_CardinalityType
<1>2. \A s \in SUBSET D : Cardinality(s) = 0 <=> s = {}
  BY <1>1, FS_EmptySet
<1>3. \A s \in SUBSET D : s # {} =>
        /\ c[s] \in D /\ s \ {c[s]} \in SUBSET D
        /\ Cardinality(s \ {c[s]}) = Cardinality(s) - 1
  BY <1>1, FS_RemoveElement
<1>4. 0 \in Good
  <2>1. Up(0) = {{}}
    BY <1>1, <1>2
  <2>2. [s \in Up(0) |-> b] \in [Up(0) -> X] /\ Defines([s \in Up(0) |-> b], 0)
    BY <2>1
  <2> QED
    BY <2>2
<1>5. ASSUME NEW k \in Nat, k \in Good PROVE k + 1 \in Good
  <2>1. PICK f \in [Up(k) -> X] : Defines(f, k)
    BY <1>5
  <2> DEFINE g == [s \in Up(k + 1) |->
                     IF s = {} THEN b ELSE step[<<f[s \ {c[s]}], c[s]>>]]
  <2>2. \A s \in Up(k + 1) : s # {} => s \ {c[s]} \in Up(k) /\ c[s] \in D
    BY <1>1, <1>3
  <2>3. \A s \in Up(k + 1) : g[s] \in X
    <3> SUFFICES ASSUME NEW s \in Up(k + 1) PROVE g[s] \in X
      OBVIOUS
    <3>1. CASE s = {}
      BY <3>1
    <3>2. CASE s # {}
      <4>1. f[s \ {c[s]}] \in X /\ c[s] \in D
        BY <2>1, <2>2, <3>2
      <4>2. step[<<f[s \ {c[s]}], c[s]>>] \in X
        BY <4>1
      <4> QED
        BY <3>2, <4>2
    <3> QED
      BY <3>1, <3>2
  <2>4. \A s \in Up(k) : s \in Up(k + 1) /\ g[s] = f[s]
    BY <1>1, <2>1
  <2>5. Defines(g, k + 1)
    BY <2>2, <2>4
  <2> HIDE DEF g
  <2>6. g \in [Up(k + 1) -> X]
    <3>1. g = [s \in Up(k + 1) |-> g[s]]
      BY DEF g
    <3> QED
      BY <2>3, <3>1
  <2> HIDE DEF Up, Defines
  <2> QED
    BY <2>5, <2>6
<1>6. Cardinality(D) \in Good
  <2>1. Cardinality(D) \in Nat
    BY FS_CardinalityType
  <2>2. \A k \in Nat : k \in Good
    <3> HIDE DEF Good
    <3> QED
      BY <1>4, <1>5, AllNumbers
  <2> QED
    BY <2>1, <2>2
<1>7. Up(Cardinality(D)) = SUBSET D
  BY FS_Subset
<1>8. PICK f \in [SUBSET D -> X] : Defines(f, Cardinality(D))
  BY <1>6, <1>7
<1> QED
  BY <1>7, <1>8 DEF Folds

-----------------------------------------------------------------------------
(* The two loops of RAGPipelineService, as the sequences they go through. *)

\* The greatest of a non-empty set of numbers up to n.
LEMMA MaxIn ==
  ASSUME NEW n \in Nat, NEW S \in SUBSET (1..n), S # {}
  PROVE  Max(S) \in S /\ \A m \in S : m <= Max(S)
<1> DEFINE T == {n - m : m \in S}
<1>1. T \in SUBSET Nat /\ T # {}
  <2>1. PICK m \in S : TRUE
    OBVIOUS
  <2>2. n - m \in T
    BY <2>1
  <2>3. \A u \in T : u \in Nat
    OBVIOUS
  <2> QED
    BY <2>2, <2>3
<1>2. PICK t \in T : \A u \in T : t <= u
  <2> HIDE DEF T
  <2> QED
    BY <1>1, Least
<1>3. PICK x \in S : t = n - x
  BY <1>2
<1>4. \A m \in S : x >= m
  <2> SUFFICES ASSUME NEW m \in S PROVE x >= m
    OBVIOUS
  <2>1. n - x <= n - m
    BY <1>2, <1>3
  <2> QED
    BY <1>3, <2>1
<1>5. Max(S) \in S /\ \A m \in S : Max(S) >= m
  BY <1>3, <1>4 DEF Max
<1> QED
  BY <1>5

\* The elements 1..k are taken in their order.
LEMMA MaxPrefix ==
  ASSUME NEW k \in Nat \ {0}
  PROVE  Max(1..k) = k /\ (1..k) \ {k} = 1..(k - 1)
<1>1. k \in Nat /\ 1..k \in SUBSET (1..k) /\ k \in 1..k
  OBVIOUS
<1>2. Max(1..k) \in 1..k /\ k <= Max(1..k)
  BY <1>1, MaxIn
<1> QED
  BY <1>2

\* f makes a step at each place of a sequence of length n, from b, as FoldLeft does.
Loops(f, n, b, step) ==
  \A s \in SUBSET (1..n) : f[s] = IF s = {} THEN b ELSE step[<<f[s \ {Max(s)}], Max(s)>>]

\* There is such a function.
LEMMA LoopExists ==
  ASSUME NEW n \in Nat, NEW X, NEW b \in X, NEW step \in [X \X (1..n) -> X]
  PROVE  \E f \in [SUBSET (1..n) -> X] : Loops(f, n, b, step)
<1> DEFINE c == [s \in (SUBSET (1..n)) \ {{}} |-> Max(s)]
<1>1. IsFiniteSet(1..n)
  <2>1. 1 \in Int /\ n \in Int
    OBVIOUS
  <2> QED
    BY <2>1, FS_Interval
<1>2. \A s \in (SUBSET (1..n)) \ {{}} : c[s] = Max(s) /\ c[s] \in s
  BY MaxIn
<1>3. c \in [(SUBSET (1..n)) \ {{}} -> 1..n]
  BY MaxIn
<1> HIDE DEF c
<1>4. PICK f \in [SUBSET (1..n) -> X] : Folds(f, 1..n, b, step, c)
  BY <1>1, <1>2, <1>3, FoldExists
<1>5. Loops(f, n, b, step)
  BY <1>2, <1>4 DEF Folds, Loops
<1> QED
  BY <1>5

\* g makes such a step from 1..k - 1 to 1..k, wherever it is in X before it.
Steps(g, n, X, step) ==
  \A k \in 1..n : g[1..(k - 1)] \in X => g[1..k] = step[<<g[1..(k - 1)], k>>]

\* h is what the loop, of which g is the fold, makes of the first 0..n places.
Runs(h, g, n, b, step) ==
  h[0] = b /\ h[n] = g[1..n] /\ \A k \in 1..n : h[k] = step[<<h[k - 1], k>>]

LEMMA LoopValues ==
  ASSUME NEW n \in Nat, NEW X, NEW b \in X, NEW step \in [X \X (1..n) -> X],
         NEW g, g[{}] = b, Steps(g, n, X, step)
  PROVE  \E h \in [0..n -> X] : Runs(h, g, n, b, step)
<1> DEFINE h == [k \in 0..n |-> g[1..k]]
<1>1. /\ h = [k \in 0..n |-> h[k]] /\ h[n] = g[1..n] /\ h[0] = b
      /\ \A k \in 1..n : h[k - 1] \in X => h[k] = step[<<h[k - 1], k>>]
  <2>1. 1..0 = {} /\ 0 \in 0..n /\ n \in 0..n
    OBVIOUS
  <2>2. \A k \in 1..n : h[k] = g[1..k] /\ h[k - 1] = g[1..(k - 1)]
    OBVIOUS
  <2>3. \A k \in 1..n : g[1..(k - 1)] \in X => g[1..k] = step[<<g[1..(k - 1)], k>>]
    BY DEF Steps
  <2>4. \A k \in 1..n : h[k - 1] \in X => h[k] = step[<<h[k - 1], k>>]
    <3> HIDE DEF h
    <3> QED
      BY <2>2, <2>3
  <2> QED
    BY <2>1, <2>4
<1> HIDE DEF h
<1>2. \A k \in Nat : k \in {i \in Nat : i <= n => h[i] \in X}
  <2>1. ASSUME NEW k \in Nat, k \in {i \in Nat : i <= n => h[i] \in X}
        PROVE  k + 1 \in {i \in Nat : i <= n => h[i] \in X}
    <3> SUFFICES ASSUME k + 1 <= n PROVE h[k + 1] \in X
      OBVIOUS
    <3>1. k + 1 \in 1..n /\ h[k] \in X /\ (k + 1) - 1 = k
      BY <2>1
    <3>2. h[k + 1] = step[<<h[k], k + 1>>]
      BY <1>1, <3>1
    <3> QED
      BY <3>1, <3>2
  <2>2. 0 \in {i \in Nat : i <= n => h[i] \in X}
    BY <1>1
  <2> QED
    BY <2>1, <2>2, AllNumbers
<1>3. \A k \in 0..n : h[k] \in X
  BY <1>2
<1>4. h \in [0..n -> X]
  BY <1>1, <1>3
<1>5. \A k \in 1..n : h[k] = step[<<h[k - 1], k>>]
  <2>1. \A k \in 1..n : k - 1 \in 0..n
    OBVIOUS
  <2> QED
    BY <1>1, <1>3, <2>1
<1> QED
  BY <1>1, <1>4, <1>5 DEF Runs

\* The values the filter of the candidates goes through.
LEMMA FilterValues ==
  ASSUME NEW r \in Seq(Sources), NEW sc, NEW p
  PROVE  \E h \in [0..Len(r) -> Seq(Sources)] :
           /\ h[0] = <<>> /\ h[Len(r)] = Filtered(r, sc, p)
           /\ \A k \in 1..Len(r) :
                h[k] = IF sc[r[k]] >= p.minimumFusedScore THEN Append(h[k - 1], r[k])
                                                          ELSE h[k - 1]
<1> DEFINE n == Len(r)
           X == Seq(Sources)
           op(q, s) == IF sc[s] >= p.minimumFusedScore THEN Append(q, s) ELSE q
           step == [z \in X \X (1..n) |-> op(z[1], r[z[2]])]
           Def(g) == [s \in SUBSET (1..n) |->
                        IF s = {} THEN <<>> ELSE op(g[s \ {Max(s)}], r[Max(s)])]
           G == CHOOSE g : g = Def(g)
<1>1. n \in Nat /\ DOMAIN r = 1..n /\ \A k \in 1..n : r[k] \in Sources
  BY LenProperties
<1>2. \A q \in X, s \in Sources : op(q, s) \in X
  BY AppendProperties
<1>3. step \in [X \X (1..n) -> X] /\ <<>> \in X
  <2>1. \A z \in X \X (1..n) : op(z[1], r[z[2]]) \in X
    BY <1>1, <1>2
  <2> HIDE DEF op
  <2> QED
    BY <2>1
<1>4. \A q \in X, k \in 1..n : step[<<q, k>>] = op(q, r[k])
  <2> HIDE DEF op, X, n
  <2> QED
    OBVIOUS
<1>5. Filtered(r, sc, p) = G[1..n]
  BY <1>1 DEF Filtered, FoldLeft, MapThenFoldSet
<1> HIDE DEF step, X, n
<1>6. PICK f \in [SUBSET (1..n) -> X] : Loops(f, n, <<>>, step)
  BY <1>1, <1>3, LoopExists
<1>7. f = Def(f)
  <2>1. \A s \in SUBSET (1..n) : s # {} => Max(s) \in 1..n /\ f[s \ {Max(s)}] \in X
    BY <1>1, MaxIn
  <2> HIDE DEF op
  <2>2. \A s \in SUBSET (1..n) :
          f[s] = IF s = {} THEN <<>> ELSE op(f[s \ {Max(s)}], r[Max(s)])
    BY <1>4, <1>6, <2>1 DEF Loops
  <2> QED
    BY <2>2
<1>8. G = Def(G)
  <2> HIDE DEF Def
  <2> QED
    BY <1>7
<1>9. Steps(G, n, X, step)
  <2> HIDE DEF op, G
  <2> SUFFICES ASSUME NEW k \in 1..n, G[1..(k - 1)] \in X
               PROVE  G[1..k] = step[<<G[1..(k - 1)], k>>]
    BY DEF Steps
  <2>1. 1..k \in SUBSET (1..n) /\ 1 \in 1..k
    BY <1>1
  <2>2. Max(1..k) = k /\ (1..k) \ {k} = 1..(k - 1)
    BY <1>1, MaxPrefix
  <2>3. G[1..k] = op(G[1..(k - 1)], r[k])
    BY <1>8, <2>1, <2>2
  <2> QED
    BY <1>4, <2>3
<1>10. G[{}] = <<>>
  <2> HIDE DEF op, G
  <2>1. {} \in SUBSET (1..n)
    OBVIOUS
  <2> QED
    BY <1>8, <2>1
<1>11. PICK h \in [0..n -> X] : Runs(h, G, n, <<>>, step)
  <2> HIDE DEF G
  <2> QED
    BY <1>1, <1>3, <1>9, <1>10, LoopValues
<1>12. \A k \in 1..n : h[k] = op(h[k - 1], r[k])
  <2> HIDE DEF op, G
  <2>1. \A k \in 1..n : h[k - 1] \in X
    BY <1>1
  <2> QED
    BY <1>4, <1>11, <2>1 DEF Runs
<1>13. h[0] = <<>> /\ h[n] = Filtered(r, sc, p)
  BY <1>5, <1>11 DEF Runs
<1> QED
  BY <1>11, <1>12, <1>13 DEF n, X

-----------------------------------------------------------------------------
(* The best note and the best chunk. *)

\* Best is the first candidate in S, if there is one.
LEMMA BestIs ==
  ASSUME NEW a \in Seq(Sources), NEW S
  PROVE  \/ Best(a, S) = <<>> /\ \A i \in 1..Len(a) : a[i] \notin S
         \/ \E i \in 1..Len(a) : /\ Best(a, S) = <<a[i]>> /\ a[i] \in S
                                 /\ \A j \in 1..Len(a) : j < i => a[j] \notin S
<1> DEFINE mine == {i \in DOMAIN a : a[i] \in S}
<1>1. DOMAIN a = 1..Len(a) /\ Len(a) \in Nat
  BY LenProperties
<1>2. CASE mine = {}
  BY <1>1, <1>2 DEF Best
<1>3. CASE mine # {}
  <2>1. mine \in SUBSET Nat
    BY <1>1
  <2>2. \E n \in mine : \A m \in mine : n <= m
    <3> HIDE DEF mine
    <3> QED
      BY <1>3, <2>1, Least
  <2>3. Min(mine) \in mine /\ \A m \in mine : Min(mine) <= m
    <3> HIDE DEF mine
    <3> QED
      BY <2>2 DEF Min
  <2>4. Best(a, S) = <<a[Min(mine)]>>
    BY <1>3 DEF Best
  <2>5. PICK i \in mine : i = Min(mine)
    BY <2>3
  <2>6. \A j \in 1..Len(a) : j < i => a[j] \notin S
    <3> SUFFICES ASSUME NEW j \in 1..Len(a), j < i, a[j] \in S PROVE FALSE
      OBVIOUS
    <3>1. j \in mine
      BY <1>1
    <3> HIDE DEF mine
    <3>2. i <= j
      BY <2>3, <2>5, <3>1
    <3> QED
      BY <2>1, <3>1, <3>2
  <2> QED
    BY <1>1, <2>4, <2>5, <2>6
<1> QED
  BY <1>2, <1>3

\* The seeds are the best note, the best chunk or both; the top candidate is one of
\* them, or is a chunk that is left for the loop.
Seeding(a, e) ==
  \/ \E x \in NoteSources : /\ e = <<x>> /\ Best(a, NoteSources) = <<x>>
                            /\ a[1] \in NoteSources => a[1] = x
  \/ \E y \in ChunkSources : /\ e = <<y>> /\ Best(a, NoteSources) = <<>>
                             /\ Best(a, ChunkSources) = <<y>> /\ a[1] = y
  \/ \E x \in NoteSources, y \in ChunkSources :
       /\ e = <<x, y>> /\ Best(a, NoteSources) = <<x>> /\ Best(a, ChunkSources) = <<y>>
       /\ a[1] \in {x, y}

LEMMA SeedsAre ==
  ASSUME NEW a \in Seq(Sources), a # <<>>, NEW sc
  PROVE  Seeding(a, Seeds(a, sc))
<1> DEFINE note == Best(a, NoteSources)
           chunk == Best(a, ChunkSources)
           e == Seeds(a, sc)
<1>1. 1 \in 1..Len(a) /\ a[1] \in NoteSources \cup ChunkSources
  BY LenProperties, EmptySeq DEF Sources
<1>2. e \in {note \o chunk, note} /\ (note = <<>> \/ chunk = <<>> => e = note \o chunk)
  <2> DEFINE near == sc[note[1]] - sc[chunk[1]] \in -1800..1800
  <2>1. e = IF note = <<>> \/ chunk = <<>> \/ near THEN note \o chunk ELSE note
    BY Zenon DEF Seeds
  <2> HIDE DEF near, note, chunk, e
  <2> QED
    BY <2>1
<1>3. \/ note = <<>> /\ \A i \in 1..Len(a) : a[i] \notin NoteSources
      \/ \E i \in 1..Len(a) : /\ note = <<a[i]>> /\ a[i] \in NoteSources
                              /\ \A j \in 1..Len(a) : j < i => a[j] \notin NoteSources
  BY BestIs
<1>4. \/ chunk = <<>> /\ \A i \in 1..Len(a) : a[i] \notin ChunkSources
      \/ \E i \in 1..Len(a) : /\ chunk = <<a[i]>> /\ a[i] \in ChunkSources
                              /\ \A j \in 1..Len(a) : j < i => a[j] \notin ChunkSources
  BY BestIs
<1>5. \A x \in NoteSources : note = <<x>> => (a[1] \in NoteSources => a[1] = x)
  BY <1>1, <1>3, LenProperties
<1>6. \A y \in ChunkSources : chunk = <<y>> => (a[1] \in ChunkSources => a[1] = y)
  BY <1>1, <1>4, LenProperties
<1> HIDE DEF note, chunk, e
<1>7. CASE note = <<>>
  <2>1. PICK y \in ChunkSources : chunk = <<y>>
    BY <1>1, <1>3, <1>4, <1>7
  <2>2. e = <<y>> /\ a[1] = y
    BY <1>1, <1>2, <1>3, <1>6, <1>7, <2>1
  <2> QED
    BY <1>7, <2>1, <2>2 DEF Seeding, note, chunk, e
<1>8. CASE note # <<>> /\ chunk = <<>>
  <2>1. PICK x \in NoteSources : note = <<x>>
    BY <1>3, <1>8
  <2>2. e = <<x>>
    BY <1>2, <1>8, <2>1
  <2> QED
    BY <1>5, <2>1, <2>2 DEF Seeding, note, chunk, e
<1>9. CASE note # <<>> /\ chunk # <<>>
  <2>1. PICK x \in NoteSources : note = <<x>>
    BY <1>3, <1>9
  <2>2. PICK y \in ChunkSources : chunk = <<y>>
    BY <1>4, <1>9
  <2>3. e = <<x, y>> \/ e = <<x>>
    BY <1>2, <2>1, <2>2
  <2> QED
    BY <1>1, <1>5, <1>6, <2>1, <2>2, <2>3 DEF Seeding, note, chunk, e
<1> QED
  BY <1>7, <1>8, <1>9

\* They are one or two, and no two of them are chunks.
LEMMA SeedsShape ==
  ASSUME NEW a, NEW e, Seeding(a, e)
  PROVE  /\ e \in Seq(Sources) /\ Len(e) \in {1, 2} /\ DOMAIN e = 1..Len(e)
         /\ \A i, j \in 1..Len(e) : e[i] \in ChunkSources /\ e[j] \in ChunkSources => i = j
<1>1. \A s \in Sources, t \in Sources : <<s>> \in Seq(Sources) /\ <<s, t>> \in Seq(Sources)
  OBVIOUS
<1>2. NoteSources \subseteq Sources /\ ChunkSources \subseteq Sources
  BY DEF Sources
<1>3. NoteSources \cap ChunkSources = {}
  BY SourcesAssumption
<1> HIDE DEF Sources
<1>4. ASSUME NEW x \in Sources, e = <<x>>
      PROVE  /\ e \in Seq(Sources) /\ Len(e) = 1 /\ DOMAIN e = 1..Len(e)
             /\ \A i, j \in 1..Len(e) : i = j
  BY <1>1, <1>4
<1>5. ASSUME NEW x \in NoteSources, NEW y \in ChunkSources, e = <<x, y>>
      PROVE  /\ e \in Seq(Sources) /\ Len(e) = 2 /\ DOMAIN e = 1..Len(e)
             /\ e[1] \notin ChunkSources /\ \A i \in 1..Len(e) : i = 1 \/ i = 2
  <2>1. e \in Seq(Sources)
    BY <1>1, <1>2, <1>5
  <2> QED
    BY <1>3, <1>5, <2>1
<1>6. CASE \E x \in NoteSources : e = <<x>>
  <2>1. PICK x \in Sources : e = <<x>>
    BY <1>2, <1>6
  <2> QED
    BY <1>4, <2>1
<1>7. CASE \E y \in ChunkSources : e = <<y>>
  <2>1. PICK y \in Sources : e = <<y>>
    BY <1>2, <1>7
  <2> QED
    BY <1>4, <2>1
<1>8. CASE \E x \in NoteSources, y \in ChunkSources : e = <<x, y>>
  <2>1. PICK x \in NoteSources, y \in ChunkSources : e = <<x, y>>
    BY <1>8
  <2> QED
    BY <1>5, <2>1
<1> QED
  BY <1>6, <1>7, <1>8 DEF Seeding

\* The selections diversifyAndBalance goes through.
LEMMA DiversifyValues ==
  ASSUME NEW r \in Seq(Sources), r # <<>>, NEW sc, NEW D, NEW F, NEW p
  PROVE  \E h \in [0..Len(r) -> Seq(Sources)] :
           /\ h[0] = Seeds(r, sc) /\ h[Len(r)] = diversifyAndBalance(r, sc, D, F, p)
           /\ \A k \in 1..Len(r) : h[k] = Admit(h[k - 1], r[k], D, F, p)
<1> DEFINE n == Len(r)
           X == Seq(Sources)
           op(q, s) == Admit(q, s, D, F, p)
           e == Seeds(r, sc)
           step == [z \in X \X (1..n) |-> op(z[1], r[z[2]])]
           Def(g) == [s \in SUBSET (1..n) |->
                        IF s = {} THEN e ELSE op(g[s \ {Max(s)}], r[Max(s)])]
           G == CHOOSE g : g = Def(g)
<1>1. n \in Nat /\ DOMAIN r = 1..n /\ \A k \in 1..n : r[k] \in Sources
  BY LenProperties
<1>2. \A q \in X, s \in Sources : op(q, s) \in X
  BY AppendProperties DEF Admit
<1>3. step \in [X \X (1..n) -> X] /\ e \in X
  <2>1. \A z \in X \X (1..n) : op(z[1], r[z[2]]) \in X
    BY <1>1, <1>2
  <2>2. e \in X
    <3>1. Seeding(r, e)
      BY SeedsAre
    <3> HIDE DEF e
    <3> QED
      BY <3>1, SeedsShape
  <2> HIDE DEF op, e
  <2> QED
    BY <2>1, <2>2
<1>4. \A q \in X, k \in 1..n : step[<<q, k>>] = op(q, r[k])
  <2> HIDE DEF op, X, n
  <2> QED
    OBVIOUS
<1>5. diversifyAndBalance(r, sc, D, F, p) = G[1..n]
  BY <1>1 DEF diversifyAndBalance, FoldLeft, MapThenFoldSet
<1> HIDE DEF step, X, n
<1>6. PICK f \in [SUBSET (1..n) -> X] : Loops(f, n, e, step)
  BY <1>1, <1>3, LoopExists
<1>7. f = Def(f)
  <2>1. \A s \in SUBSET (1..n) : s # {} => Max(s) \in 1..n /\ f[s \ {Max(s)}] \in X
    BY <1>1, MaxIn
  <2> HIDE DEF op
  <2>2. \A s \in SUBSET (1..n) :
          f[s] = IF s = {} THEN e ELSE op(f[s \ {Max(s)}], r[Max(s)])
    BY <1>4, <1>6, <2>1 DEF Loops
  <2> QED
    BY <2>2
<1>8. G = Def(G)
  <2> HIDE DEF Def
  <2> QED
    BY <1>7
<1>9. Steps(G, n, X, step)
  <2> HIDE DEF op, G
  <2> SUFFICES ASSUME NEW k \in 1..n, G[1..(k - 1)] \in X
               PROVE  G[1..k] = step[<<G[1..(k - 1)], k>>]
    BY DEF Steps
  <2>1. 1..k \in SUBSET (1..n) /\ 1 \in 1..k
    BY <1>1
  <2>2. Max(1..k) = k /\ (1..k) \ {k} = 1..(k - 1)
    BY <1>1, MaxPrefix
  <2>3. G[1..k] = op(G[1..(k - 1)], r[k])
    BY <1>8, <2>1, <2>2
  <2> QED
    BY <1>4, <2>3
<1>10. G[{}] = e
  <2> HIDE DEF op, G
  <2>1. {} \in SUBSET (1..n)
    OBVIOUS
  <2> QED
    BY <1>8, <2>1
<1>11. PICK h \in [0..n -> X] : Runs(h, G, n, e, step)
  <2> HIDE DEF G
  <2> QED
    BY <1>1, <1>3, <1>9, <1>10, LoopValues
<1>12. \A k \in 1..n : h[k] = op(h[k - 1], r[k])
  <2> HIDE DEF op, G
  <2>1. \A k \in 1..n : h[k - 1] \in X
    BY <1>1
  <2> QED
    BY <1>4, <1>11, <2>1 DEF Runs
<1>13. h[0] = e /\ h[n] = diversifyAndBalance(r, sc, D, F, p)
  BY <1>5, <1>11 DEF Runs
<1> QED
  BY <1>11, <1>12, <1>13 DEF n, X

-----------------------------------------------------------------------------
(* The invariant of the loop of diversifyAndBalance. *)

\* What the loop is given: the candidates a in the order of their scores sc, and limits
\* that leave room for the seeds.
Given(a, sc, D, F, p) ==
  /\ a \in Seq(Sources) /\ a # <<>> /\ sc \in [Sources -> Int]
  /\ \A i, j \in 1..Len(a) : i < j => sc[a[i]] >= sc[a[j]]
  /\ D \in [ChunkSources -> ChunkSources] /\ F \in [Sources -> Sources]
  /\ p.maxResults \in Nat \ {0, 1, 2} /\ p.maxChunksPerDocument \in Nat \ {0}

\* A source said already, one of a document that has its share, and one for which there
\* is no room: every place behind the seeds e has one that is as good.
Said(q, s, F) == \E i \in DOMAIN q : F[q[i]] = F[s]
HasShare(q, s, D, p) ==
  s \in ChunkSources /\ Cardinality(OfDocument(q, D, D[s])) >= p.maxChunksPerDocument
NoRoom(q, s, e, sc, p) ==
  Len(q) = p.maxResults /\ \A i \in DOMAIN q : i > Len(e) => sc[q[i]] >= sc[s]

\* What holds of the selection q after the first k candidates, e being the seeds: the
\* limits; no text twice but in the seeds; where its sources come from; and that every
\* candidate so far is accounted for, the first one by its text.
Limits(q, D, p) ==
  /\ Len(q) <= p.maxResults
  /\ \A d \in ChunkSources : Cardinality(OfDocument(q, D, d)) <= p.maxChunksPerDocument
Begins(q, e) == Len(e) <= Len(q) /\ \A i \in 1..Len(e) : q[i] = e[i]
SaidOnce(q, e, F) == \A i, j \in DOMAIN q : i < j /\ F[q[i]] = F[q[j]] => j <= Len(e)
Taken(q, e, a, k) == \A i \in DOMAIN q : i > Len(e) => \E x \in 1..k : q[i] = a[x]
Accounted(q, e, a, k, sc, D, F, p) ==
  /\ \A x \in 1..k : Said(q, a[x], F) \/ HasShare(q, a[x], D, p) \/ NoRoom(q, a[x], e, sc, p)
  /\ k > 0 => Said(q, a[1], F)

LoopInv(q, k, e, a, sc, D, F, p) ==
  /\ q \in Seq(Sources) /\ Limits(q, D, p) /\ Begins(q, e) /\ SaidOnce(q, e, F)
  /\ Taken(q, e, a, k) /\ Accounted(q, e, a, k, sc, D, F, p)

\* The chunks of a document, before and after a source is put in.
LEMMA DocumentAppend ==
  ASSUME NEW q \in Seq(Sources), NEW s \in Sources, NEW D, NEW d
  PROVE  /\ IsFiniteSet(OfDocument(q, D, d)) /\ Cardinality(OfDocument(q, D, d)) \in Nat
         /\ Cardinality(OfDocument(Append(q, s), D, d)) =
              Cardinality(OfDocument(q, D, d)) + (IF s \in ChunkSources /\ D[s] = d THEN 1 ELSE 0)
<1> DEFINE I == OfDocument(q, D, d)
           r == Append(q, s)
<1>1. /\ r \in Seq(Sources) /\ Len(r) = Len(q) + 1
      /\ \A i \in 1..Len(q) : r[i] = q[i]
      /\ r[Len(q) + 1] = s
  BY AppendProperties
<1>2. DOMAIN q = 1..Len(q) /\ Len(q) \in Nat /\ DOMAIN r = 1..(Len(q) + 1)
  BY <1>1, LenProperties
<1>3. IsFiniteSet(I) /\ Cardinality(I) \in Nat
  <2>1. 1 \in Int /\ Len(q) \in Int
    BY <1>2
  <2>2. IsFiniteSet(1..Len(q))
    BY <2>1, FS_Interval
  <2>3. I \subseteq 1..Len(q)
    BY <1>2 DEF OfDocument
  <2> HIDE DEF I
  <2> QED
    BY <2>2, <2>3, FS_Subset, FS_CardinalityType
<1>4. Len(q) + 1 \notin I
  BY <1>2 DEF OfDocument
<1>5. CASE s \in ChunkSources /\ D[s] = d
  <2>1. OfDocument(r, D, d) = I \cup {Len(q) + 1}
    <3> HIDE DEF r
    <3> QED
      BY <1>1, <1>2, <1>5 DEF OfDocument
  <2>2. Cardinality(I \cup {Len(q) + 1}) = Cardinality(I) + 1
    <3> HIDE DEF I
    <3> QED
      BY <1>3, <1>4, FS_AddElement
  <2> QED
    BY <1>3, <1>5, <2>1, <2>2
<1>6. CASE ~(s \in ChunkSources /\ D[s] = d)
  <2>1. OfDocument(r, D, d) = I
    <3> HIDE DEF r
    <3> QED
      BY <1>1, <1>2, <1>6 DEF OfDocument
  <2> QED
    BY <1>3, <1>6, <2>1
<1> QED
  BY <1>3, <1>5, <1>6

\* The seeds alone have the loop's invariant.
LEMMA SeedsInv ==
  ASSUME NEW a, NEW sc, NEW D, NEW F, NEW p, Given(a, sc, D, F, p)
  PROVE  LET e == Seeds(a, sc) IN LoopInv(e, 0, e, a, sc, D, F, p)
<1> DEFINE e == Seeds(a, sc)
<1>1. Seeding(a, e)
  BY SeedsAre DEF Given
<1> HIDE DEF e
<1>2. /\ e \in Seq(Sources) /\ Len(e) \in {1, 2} /\ DOMAIN e = 1..Len(e)
      /\ \A i, j \in 1..Len(e) : e[i] \in ChunkSources /\ e[j] \in ChunkSources => i = j
  BY <1>1, SeedsShape
<1>3. \A i, j \in DOMAIN e : e[i] \in ChunkSources /\ e[j] \in ChunkSources => i = j
  BY <1>2
<1>4. \A d \in ChunkSources : Cardinality(OfDocument(e, D, d)) <= 1
  <2> SUFFICES ASSUME NEW d \in ChunkSources PROVE Cardinality(OfDocument(e, D, d)) <= 1
    OBVIOUS
  <2>1. CASE OfDocument(e, D, d) = {}
    BY <2>1, FS_EmptySet
  <2>2. CASE OfDocument(e, D, d) # {}
    <3>1. PICK i \in OfDocument(e, D, d) : TRUE
      BY <2>2
    <3>2. OfDocument(e, D, d) = {i}
      BY <1>3, <3>1 DEF OfDocument
    <3> QED
      BY <3>2, FS_Singleton
  <2> QED
    BY <2>1, <2>2
<1>5. Limits(e, D, p)
  <2>1. p.maxResults \in Nat \ {0, 1, 2} /\ p.maxChunksPerDocument \in Nat \ {0}
    BY DEF Given
  <2>2. PICK s \in Sources : s = e[1]
    BY <1>2
  <2>3. \A d \in ChunkSources : Cardinality(OfDocument(e, D, d)) \in Nat
    BY <1>2, <2>2, DocumentAppend
  <2>4. \A d \in ChunkSources : Cardinality(OfDocument(e, D, d)) <= p.maxChunksPerDocument
    BY <1>4, <2>1, <2>3
  <2> QED
    BY <1>2, <2>1, <2>4 DEF Limits
<1>6. Begins(e, e) /\ SaidOnce(e, e, F) /\ Taken(e, e, a, 0) /\ Accounted(e, e, a, 0, sc, D, F, p)
  BY <1>2 DEF Begins, SaidOnce, Taken, Accounted
<1> QED
  BY <1>2, <1>5, <1>6 DEF LoopInv, e

\* The loop keeps its invariant when the next candidate is put in ...
LEMMA AdmittedInv ==
  ASSUME NEW a, NEW sc, NEW D, NEW F, NEW p, Given(a, sc, D, F, p), NEW e,
         NEW k \in Nat, k + 1 <= Len(a), NEW q, LoopInv(q, k, e, a, sc, D, F, p),
         Len(q) < p.maxResults, ~Said(q, a[k + 1], F), ~HasShare(q, a[k + 1], D, p),
         Len(e) \in Nat
  PROVE  LoopInv(Append(q, a[k + 1]), k + 1, e, a, sc, D, F, p)
<1>1. PICK s \in Sources : s = a[k + 1]
  <2>1. a \in Seq(Sources)
    BY DEF Given
  <2> QED
    BY <2>1, LenProperties
<1>2. q \in Seq(Sources) /\ Len(q) \in Nat /\ DOMAIN q = 1..Len(q)
  BY LenProperties DEF LoopInv
<1>3. /\ Append(q, s) \in Seq(Sources) /\ Len(Append(q, s)) = Len(q) + 1
      /\ \A i \in 1..Len(q) : Append(q, s)[i] = q[i]
      /\ Append(q, s)[Len(q) + 1] = s
  BY <1>2, AppendProperties
<1> DEFINE r == Append(q, s)
<1> HIDE DEF r
<1>4. /\ r \in Seq(Sources) /\ Len(r) = Len(q) + 1 /\ DOMAIN r = 1..(Len(q) + 1)
      /\ \A i \in 1..Len(q) : r[i] = q[i]
      /\ r[Len(q) + 1] = s
  BY <1>3, LenProperties DEF r
<1>5. /\ \A d \in ChunkSources : /\ Cardinality(OfDocument(q, D, d)) \in Nat
                                 /\ Cardinality(OfDocument(r, D, d)) \in Nat
      /\ \A d \in ChunkSources : Cardinality(OfDocument(r, D, d)) =
           Cardinality(OfDocument(q, D, d)) + (IF s \in ChunkSources /\ D[s] = d THEN 1 ELSE 0)
  BY <1>2, <1>4, DocumentAppend DEF r
<1>6. p.maxResults \in Nat /\ p.maxChunksPerDocument \in Nat /\ \A y \in ChunkSources : D[y] \in ChunkSources
  BY DEF Given
<1>7. Limits(r, D, p)
  <2>1. \A d \in ChunkSources : Cardinality(OfDocument(q, D, d)) <= p.maxChunksPerDocument
    BY DEF LoopInv, Limits
  <2>2. s \in ChunkSources => Cardinality(OfDocument(q, D, D[s])) < p.maxChunksPerDocument
    BY <1>1, <1>5, <1>6 DEF HasShare
  <2>3. \A d \in ChunkSources : Cardinality(OfDocument(r, D, d)) <= p.maxChunksPerDocument
    BY <1>5, <1>6, <2>1, <2>2
  <2>4. Len(r) <= p.maxResults
    BY <1>2, <1>4, <1>6
  <2> QED
    BY <2>3, <2>4 DEF Limits
<1>8. Begins(r, e)
  BY <1>2, <1>4 DEF Begins, LoopInv
<1>9. SaidOnce(r, e, F)
  <2> SUFFICES ASSUME NEW i \in DOMAIN r, NEW j \in DOMAIN r, i < j, F[r[i]] = F[r[j]]
               PROVE  j <= Len(e)
    BY DEF SaidOnce
  <2>1. i \in 1..Len(q) /\ r[i] = q[i]
    BY <1>2, <1>4
  <2>2. CASE j = Len(q) + 1
    BY <1>1, <1>2, <1>4, <2>1, <2>2 DEF Said
  <2>3. CASE j # Len(q) + 1
    <3>1. j \in 1..Len(q) /\ r[j] = q[j]
      BY <1>2, <1>4, <2>3
    <3> QED
      BY <1>2, <2>1, <3>1 DEF LoopInv, SaidOnce
  <2> QED
    BY <2>2, <2>3
<1>10. Taken(r, e, a, k + 1)
  <2> SUFFICES ASSUME NEW i \in DOMAIN r, i > Len(e)
               PROVE  \E x \in 1..(k + 1) : r[i] = a[x]
    BY DEF Taken
  <2>1. CASE i = Len(q) + 1
    BY <1>1, <1>4, <2>1
  <2>2. CASE i # Len(q) + 1
    <3>1. i \in 1..Len(q) /\ r[i] = q[i]
      BY <1>2, <1>4, <2>2
    <3>2. PICK x \in 1..k : q[i] = a[x]
      BY <1>2, <3>1 DEF LoopInv, Taken
    <3> QED
      BY <3>1, <3>2
  <2> QED
    BY <2>1, <2>2
<1>11. \A t : Said(q, t, F) => Said(r, t, F)
  BY <1>2, <1>4 DEF Said
<1>12. \A t : HasShare(q, t, D, p) => HasShare(r, t, D, p)
  <2> SUFFICES ASSUME NEW t \in ChunkSources,
                      Cardinality(OfDocument(q, D, D[t])) >= p.maxChunksPerDocument
               PROVE  Cardinality(OfDocument(r, D, D[t])) >= p.maxChunksPerDocument
    BY DEF HasShare
  <2> QED
    BY <1>5, <1>6
<1>13. Said(r, s, F)
  BY <1>2, <1>4 DEF Said
<1>14. Accounted(r, e, a, k + 1, sc, D, F, p)
  <2>1. \A x \in 1..k : Said(q, a[x], F) \/ HasShare(q, a[x], D, p) \/ NoRoom(q, a[x], e, sc, p)
    BY DEF LoopInv, Accounted
  <2>2. \A x : ~NoRoom(q, a[x], e, sc, p)
    BY <1>2, <1>6 DEF NoRoom
  <2>3. \A x \in 1..k : Said(r, a[x], F) \/ HasShare(r, a[x], D, p)
    BY <1>11, <1>12, <2>1, <2>2
  <2>4. \A x \in 1..(k + 1) : x \in 1..k \/ x = k + 1
    OBVIOUS
  <2>5. Said(r, a[1], F)
    BY <1>1, <1>11, <1>13 DEF LoopInv, Accounted
  <2> QED
    BY <1>1, <1>13, <2>3, <2>4, <2>5 DEF Accounted
<1> QED
  BY <1>1, <1>4, <1>7, <1>8, <1>9, <1>10, <1>14 DEF LoopInv, r

\* ... and when it is not: a first candidate that is not put in is said by a seed.
LEMMA LeftOutInv ==
  ASSUME NEW a, NEW sc, NEW D, NEW F, NEW p, Given(a, sc, D, F, p), NEW e, Seeding(a, e),
         NEW k \in Nat, k + 1 <= Len(a), NEW q, LoopInv(q, k, e, a, sc, D, F, p),
         Len(q) >= p.maxResults \/ Said(q, a[k + 1], F) \/ HasShare(q, a[k + 1], D, p)
  PROVE  LoopInv(q, k + 1, e, a, sc, D, F, p)
<1>1. /\ a \in Seq(Sources) /\ Len(a) \in Nat /\ \A x \in 1..Len(a) : a[x] \in Sources
      /\ sc \in [Sources -> Int] /\ \A x, y \in 1..Len(a) : x < y => sc[a[x]] >= sc[a[y]]
      /\ p.maxResults \in Nat \ {0, 1, 2} /\ p.maxChunksPerDocument \in Nat \ {0}
  BY LenProperties DEF Given
<1>2. q \in Seq(Sources) /\ Len(q) \in Nat /\ DOMAIN q = 1..Len(q)
  BY LenProperties DEF LoopInv
<1>3. Limits(q, D, p) /\ Begins(q, e) /\ SaidOnce(q, e, F) /\ Taken(q, e, a, k + 1)
  <2>1. \A x \in 1..k : x \in 1..(k + 1)
    OBVIOUS
  <2> QED
    BY <2>1 DEF LoopInv, Taken
<1>4. Len(e) \in {1, 2} /\ e \in Seq(Sources)
      /\ \A i, j \in 1..Len(e) : e[i] \in ChunkSources /\ e[j] \in ChunkSources => i = j
  BY SeedsShape
<1>5. Len(q) >= p.maxResults => NoRoom(q, a[k + 1], e, sc, p)
  <2> SUFFICES ASSUME Len(q) >= p.maxResults, NEW i \in DOMAIN q, i > Len(e)
               PROVE  sc[q[i]] >= sc[a[k + 1]]
    BY <1>1, <1>2 DEF NoRoom, LoopInv, Limits
  <2>1. PICK x \in 1..k : q[i] = a[x]
    BY DEF LoopInv, Taken
  <2>2. x \in 1..Len(a) /\ k + 1 \in 1..Len(a) /\ x < k + 1
    BY <1>1
  <2> QED
    BY <1>1, <2>1, <2>2
<1>6. \A x \in 1..(k + 1) :
        Said(q, a[x], F) \/ HasShare(q, a[x], D, p) \/ NoRoom(q, a[x], e, sc, p)
  <2>1. \A x \in 1..(k + 1) : x \in 1..k \/ x = k + 1
    OBVIOUS
  <2>2. \A x \in 1..k : Said(q, a[x], F) \/ HasShare(q, a[x], D, p) \/ NoRoom(q, a[x], e, sc, p)
    BY DEF LoopInv, Accounted
  <2>3. Said(q, a[k + 1], F) \/ HasShare(q, a[k + 1], D, p) \/ NoRoom(q, a[k + 1], e, sc, p)
    BY <1>5
  <2> QED
    BY <2>1, <2>2, <2>3
<1>7. Said(q, a[1], F)
  <2>1. CASE k > 0
    BY <2>1 DEF LoopInv, Accounted
  <2>2. CASE k = 0
    <3>1. Len(q) = Len(e) /\ \A i \in 1..Len(q) : q[i] = e[i]
      <4>1. Len(e) <= Len(q) /\ \A i \in 1..Len(e) : q[i] = e[i]
        BY DEF LoopInv, Begins
      <4>2. ~(Len(q) > Len(e))
        <5> SUFFICES ASSUME Len(q) > Len(e) PROVE FALSE
          OBVIOUS
        <5>1. Len(q) \in DOMAIN q
          BY <1>2, <1>4
        <5> QED
          BY <2>2, <5>1 DEF LoopInv, Taken
      <4> QED
        BY <1>2, <1>4, <4>1, <4>2
    <3>2. CASE Said(q, a[1], F)
      BY <3>2
    <3>3. CASE HasShare(q, a[1], D, p)
      <4>1. PICK i \in OfDocument(q, D, D[a[1]]) : TRUE
        <5>1. Cardinality(OfDocument(q, D, D[a[1]])) >= p.maxChunksPerDocument
          BY <3>3 DEF HasShare
        <5>2. ~(0 >= p.maxChunksPerDocument)
          BY <1>1
        <5>3. Cardinality({}) = 0
          BY FS_EmptySet
        <5> QED
          BY <5>1, <5>2, <5>3
      <4>2. i \in 1..Len(e) /\ e[i] \in ChunkSources /\ a[1] \in ChunkSources
        BY <1>2, <3>1, <3>3, <4>1 DEF OfDocument, HasShare
      <4>3. \E j \in 1..Len(e) : e[j] = a[1]
        BY <4>2, SourcesAssumption DEF Seeding
      <4> QED
        BY <1>2, <3>1, <4>3 DEF Said
    <3>4. ~(Len(q) >= p.maxResults)
      BY <1>1, <1>4, <3>1
    <3> QED
      BY <2>2, <3>2, <3>3, <3>4
  <2> QED
    BY <2>1, <2>2
<1> QED
  BY <1>2, <1>3, <1>6, <1>7 DEF LoopInv, Accounted

\* So it holds at the end of the loop.
LEMMA DiversifyInv ==
  ASSUME NEW a, NEW sc, NEW D, NEW F, NEW p, Given(a, sc, D, F, p)
  PROVE  LoopInv(diversifyAndBalance(a, sc, D, F, p), Len(a), Seeds(a, sc), a, sc, D, F, p)
<1> DEFINE e == Seeds(a, sc)
           Inv(q, k) == LoopInv(q, k, e, a, sc, D, F, p)
<1>1. a \in Seq(Sources) /\ a # <<>> /\ Len(a) \in Nat
  BY LenProperties DEF Given
<1>2. Seeding(a, e) /\ Inv(e, 0)
  BY <1>1, SeedsAre, SeedsInv
<1>3. Len(e) \in Nat
  BY <1>2, SeedsShape
<1>4. PICK h \in [0..Len(a) -> Seq(Sources)] :
        /\ h[0] = e /\ h[Len(a)] = diversifyAndBalance(a, sc, D, F, p)
        /\ \A k \in 1..Len(a) : h[k] = Admit(h[k - 1], a[k], D, F, p)
  BY <1>1, DiversifyValues
<1> HIDE DEF e
<1>5. ASSUME NEW k \in Nat, k + 1 <= Len(a), Inv(h[k], k) PROVE Inv(h[k + 1], k + 1)
  <2>1. k + 1 \in 1..Len(a) /\ (k + 1) - 1 = k
    BY <1>1, <1>5
  <2>2. h[k + 1] = Admit(h[k], a[k + 1], D, F, p)
    BY <1>4, <2>1
  <2>3. Len(h[k]) \in Nat /\ p.maxResults \in Nat
    BY <1>5, LenProperties DEF LoopInv, Given
  <2>4. (\E i \in DOMAIN h[k] : h[k][i] = a[k + 1] \/ F[h[k][i]] = F[a[k + 1]])
          <=> Said(h[k], a[k + 1], F)
    BY Zenon DEF Said
  <2>5. CASE Len(h[k]) >= p.maxResults \/ Said(h[k], a[k + 1], F) \/ HasShare(h[k], a[k + 1], D, p)
    <3>1. h[k + 1] = h[k]
      BY <2>2, <2>4, <2>5, Zenon DEF Admit, HasShare
    <3> QED
      BY <1>2, <1>5, <2>5, <3>1, LeftOutInv
  <2>6. CASE ~(Len(h[k]) >= p.maxResults \/ Said(h[k], a[k + 1], F) \/ HasShare(h[k], a[k + 1], D, p))
    <3>1. h[k + 1] = Append(h[k], a[k + 1])
      BY <2>2, <2>4, <2>6, Zenon DEF Admit, HasShare
    <3>2. Len(h[k]) < p.maxResults
      BY <2>3, <2>6
    <3> QED
      BY <1>3, <1>5, <2>6, <3>1, <3>2, AdmittedInv
  <2> QED
    BY <2>5, <2>6
<1>6. \A k \in Nat : k \in {i \in Nat : i <= Len(a) => Inv(h[i], i)}
  <2>1. 0 \in {i \in Nat : i <= Len(a) => Inv(h[i], i)}
    BY <1>2, <1>4
  <2>2. ASSUME NEW k \in Nat, k \in {i \in Nat : i <= Len(a) => Inv(h[i], i)}
        PROVE  k + 1 \in {i \in Nat : i <= Len(a) => Inv(h[i], i)}
    <3> HIDE DEF Inv
    <3> QED
      BY <1>1, <1>5, <2>2
  <2> HIDE DEF Inv
  <2> QED
    BY <2>1, <2>2, AllNumbers
<1> QED
  BY <1>1, <1>4, <1>6 DEF e

-----------------------------------------------------------------------------
(* The candidates that get to the loop. *)

\* The values of the profiles are in the ranges the loop needs.
ProfileOK(p) ==
  /\ p.maxResults \in Nat \ {0, 1, 2} /\ p.maxChunksPerDocument \in Nat \ {0}
  /\ p.maxCandidates \in Nat /\ p.semanticWeight \in Int /\ p.minimumFusedScore \in Int

LEMMA ProfilesOK ==
  ASSUME NEW n \in DOMAIN Profiles
  PROVE  ProfileOK(Profiles[n])
<1>1. n \in {"fastRecommended", "balanced", "deepSearch"}
  BY DEF Profiles
<1>2. CASE n = "fastRecommended"
  BY <1>2 DEF Profiles, ProfileOK
<1>3. CASE n = "balanced"
  BY <1>3 DEF Profiles, ProfileOK
<1>4. CASE n = "deepSearch"
  BY <1>4 DEF Profiles, ProfileOK
<1> QED
  BY <1>1, <1>2, <1>3, <1>4

\* Scores are numbers.
LEMMA ScoreType ==
  ASSUME NEW sig \in Signals, NEW b \in Int, NEW p, ProfileOK(p)
  PROVE  Score(sig, b, p) \in Int
<1>1. sig.semantic \in (-100..100) \cup {None} /\ sig.lexical \in 0..100 /\ p.semanticWeight \in Int
  BY SignalsAssumption DEF ProfileOK
<1>2. FusedScore(sig, p) \in Int
  <2>1. \A x, y \in Int : x * y \in Int /\ x + y \in Int /\ x - y \in Int
    OBVIOUS
  <2>2. sig.semantic # None => sig.semantic * p.semanticWeight \in Int
    BY <1>1, <2>1
  <2>3. sig.lexical * (100 - p.semanticWeight) \in Int
    <3>1. 100 - p.semanticWeight \in Int
      BY <1>1
    <3> QED
      BY <1>1, <2>1, <3>1
  <2>4. sig.lexical * 65 \in Int
    BY <1>1
  <2> QED
    BY <2>1, <2>2, <2>3, <2>4 DEF FusedScore
<1>3. \A x, l, u \in Int : Clamped(x, l, u) \in Int
  BY DEF Clamped
<1>4. Clamped(b, -20, 20) \in Int
  BY <1>3
<1>5. FusedScore(sig, p) + 100 * Clamped(b, -20, 20) \in Int
  BY <1>2, <1>4
<1> QED
  BY <1>3, <1>5 DEF Score

\* q is in the order of the scores.
Sorted(q, sc) ==
  q \in Seq(Sources) /\ \A i, j \in 1..Len(q) : i < j => sc[q[i]] >= sc[q[j]]

\* A ranking is, ...
LEMMA RankingSorted ==
  ASSUME NEW sc \in [Sources -> Int], NEW sg, NEW r \in Rankings(sc, sg)
  PROVE  Sorted(r, sc)
<1> DEFINE C == {s \in Sources : IsCandidate(sg[s])}
<1>1. r \in SetToSeqs(C)
  BY DEF Rankings
<1>2. \A i, j \in DOMAIN r : i < j =>
        \/ sc[r[i]] > sc[r[j]]
        \/ sc[r[i]] = sc[r[j]] /\ sg[r[i]].lexical >= sg[r[j]].lexical
  BY DEF Rankings
<1>3. IsFiniteSet(Sources)
  BY SourcesAssumption, FS_Union DEF Sources
<1>4. Cardinality(C) \in Nat
  <2>1. C \subseteq Sources
    OBVIOUS
  <2> HIDE DEF C
  <2> QED
    BY <1>3, <2>1, FS_Subset, FS_CardinalityType
<1>5. r \in [1..Cardinality(C) -> C]
  <2> HIDE DEF C
  <2> QED
    BY <1>1 DEF SetToSeqs
<1>6. r \in Seq(Sources)
  <2> DEFINE n == Cardinality(C)
  <2>1. \A i \in 1..n : r[i] \in Sources
    BY <1>5
  <2>2. r = [i \in 1..n |-> r[i]]
    BY <1>5
  <2> HIDE DEF n, C, Sources
  <2>3. n \in Nat
    BY <1>4 DEF n
  <2>4. [i \in 1..n |-> r[i]] \in Seq(Sources)
    BY <2>1, <2>3, IsASeq
  <2> QED
    BY <2>2, <2>4
<1>7. DOMAIN r = 1..Len(r) /\ \A i \in 1..Len(r) : r[i] \in Sources
  BY <1>6, LenProperties
<1>8. ASSUME NEW i \in 1..Len(r), NEW j \in 1..Len(r), i < j PROVE sc[r[i]] >= sc[r[j]]
  <2>1. sc[r[i]] \in Int /\ sc[r[j]] \in Int
    BY <1>7
  <2> QED
    BY <1>2, <1>7, <1>8, <2>1
<1> QED
  BY <1>6, <1>8 DEF Sorted

\* ... its first maxCandidates are, ...
LEMMA PrefixSorted ==
  ASSUME NEW sc, NEW r, Sorted(r, sc), NEW m \in Nat
  PROVE  Sorted(SubSeq(r, 1, Min({Len(r), m})), sc)
<1>1. r \in Seq(Sources) /\ Len(r) \in Nat /\ \A i \in 1..Len(r) : r[i] \in Sources
  BY LenProperties DEF Sorted
<1>2. Min({Len(r), m}) \in Nat /\ Min({Len(r), m}) <= Len(r)
  <2>1. {Len(r), m} \in SUBSET Nat /\ {Len(r), m} # {}
    BY <1>1
  <2>2. PICK n \in {Len(r), m} : \A u \in {Len(r), m} : n <= u
    BY <2>1, Least
  <2>3. Min({Len(r), m}) \in {Len(r), m} /\ \A u \in {Len(r), m} : Min({Len(r), m}) <= u
    BY <2>2 DEF Min
  <2> QED
    BY <1>1, <2>3
<1> DEFINE n == Min({Len(r), m})
<1> HIDE DEF n
<1>3. n \in Nat /\ n <= Len(r)
  BY <1>2 DEF n
<1>4. /\ SubSeq(r, 1, n) \in Seq(Sources) /\ Len(SubSeq(r, 1, n)) = IF 1 <= n THEN n - 1 + 1 ELSE 0
      /\ \A i \in 1..(n - 1 + 1) : SubSeq(r, 1, n)[i] = r[1 + i - 1]
  <2>1. n \in Int /\ 1 \in Int /\ \A i \in 1..n : r[i] \in Sources
    BY <1>1, <1>3
  <2> QED
    BY <2>1, SubSeqProperties
<1>5. /\ SubSeq(r, 1, n) \in Seq(Sources) /\ Len(SubSeq(r, 1, n)) = n
      /\ \A i \in 1..n : SubSeq(r, 1, n)[i] = r[i]
  BY <1>3, <1>4
<1>6. Sorted(SubSeq(r, 1, n), sc)
  <2> DEFINE q == SubSeq(r, 1, n)
  <2>1. \A i \in 1..n : i \in 1..Len(r)
    BY <1>1, <1>3
  <2>2. q \in Seq(Sources) /\ Len(q) = n /\ \A i \in 1..n : q[i] = r[i]
    BY <1>5
  <2> HIDE DEF q
  <2>3. \A i, j \in 1..Len(q) : i < j => sc[q[i]] >= sc[q[j]]
    BY <2>1, <2>2 DEF Sorted
  <2>4. Sorted(q, sc)
    BY <2>2, <2>3 DEF Sorted
  <2> QED
    BY <2>4 DEF q
<1> QED
  BY <1>6 DEF n

\* ... and so are those of them that are above the threshold ...
LEMMA FilterSorted ==
  ASSUME NEW sc, NEW r, Sorted(r, sc), NEW p
  PROVE  Sorted(Filtered(r, sc, p), sc)
<1> DEFINE From(q, k) == \A x \in 1..Len(q) : \E y \in 1..k : q[x] = r[y]
<1>1. r \in Seq(Sources) /\ Len(r) \in Nat /\ \A i \in 1..Len(r) : r[i] \in Sources
  BY LenProperties DEF Sorted
<1>2. PICK h \in [0..Len(r) -> Seq(Sources)] :
        /\ h[0] = <<>> /\ h[Len(r)] = Filtered(r, sc, p)
        /\ \A k \in 1..Len(r) :
             h[k] = IF sc[r[k]] >= p.minimumFusedScore THEN Append(h[k - 1], r[k])
                                                       ELSE h[k - 1]
  <2>1. r \in Seq(Sources)
    BY <1>1
  <2> QED
    BY <2>1, FilterValues
<1>3. ASSUME NEW k \in Nat, k + 1 <= Len(r), Sorted(h[k], sc), From(h[k], k)
      PROVE  Sorted(h[k + 1], sc) /\ From(h[k + 1], k + 1)
  <2>1. k + 1 \in 1..Len(r) /\ (k + 1) - 1 = k /\ \A y \in 1..k : y \in 1..(k + 1) /\ y \in 1..Len(r) /\ y < k + 1
    BY <1>1, <1>3
  <2>2. h[k + 1] = Append(h[k], r[k + 1]) \/ h[k + 1] = h[k]
    BY <1>2, <2>1
  <2>3. CASE h[k + 1] = h[k]
    BY <1>3, <2>1, <2>3
  <2>4. CASE h[k + 1] = Append(h[k], r[k + 1])
    <3> DEFINE q == h[k]
               w == h[k + 1]
               s == r[k + 1]
    <3>1. q \in Seq(Sources) /\ s \in Sources /\ Len(q) \in Nat
      BY <1>1, <1>3, <2>1, LenProperties DEF Sorted
    <3>2. /\ w \in Seq(Sources) /\ Len(w) = Len(q) + 1 /\ w[Len(q) + 1] = s
          /\ \A i \in 1..Len(q) : w[i] = q[i]
      <4> HIDE DEF q, s
      <4> QED
        BY <2>4, <3>1, AppendProperties DEF q, s
    <3>3. \A i, j \in 1..Len(q) : i < j => sc[q[i]] >= sc[q[j]]
      BY <1>3 DEF Sorted
    <3>4. \A i \in 1..Len(q) : sc[q[i]] >= sc[s]
      BY <1>3, <2>1 DEF Sorted
    <3>5. \A i \in 1..Len(q) : \E y \in 1..k : q[i] = r[y]
      BY <1>3
    <3> HIDE DEF q, w
    <3>6. \A i \in 1..(Len(q) + 1) : i \in 1..Len(q) \/ i = Len(q) + 1
      BY <3>1
    <3>7. Sorted(w, sc)
      BY <3>1, <3>2, <3>3, <3>4, <3>6 DEF Sorted
    <3>8. ASSUME NEW i \in 1..Len(w) PROVE \E y \in 1..(k + 1) : w[i] = r[y]
      <4>1. CASE i \in 1..Len(q)
        <5>1. PICK y \in 1..k : q[i] = r[y]
          BY <3>5, <4>1
        <5> QED
          BY <2>1, <3>2, <4>1, <5>1
      <4>2. CASE i = Len(q) + 1
        BY <1>3, <3>2, <4>2
      <4> QED
        BY <3>2, <3>6, <3>8, <4>1, <4>2
    <3> QED
      BY <3>7, <3>8 DEF w
  <2> QED
    BY <2>2, <2>3, <2>4
<1>4. Sorted(h[0], sc) /\ From(h[0], 0)
  BY <1>2 DEF Sorted
<1>5. \A k \in Nat : k \in {i \in Nat : i <= Len(r) => Sorted(h[i], sc) /\ From(h[i], i)}
  <2> HIDE DEF From
  <2>1. 0 \in {i \in Nat : i <= Len(r) => Sorted(h[i], sc) /\ From(h[i], i)}
    BY <1>4
  <2>2. ASSUME NEW k \in Nat, k \in {i \in Nat : i <= Len(r) => Sorted(h[i], sc) /\ From(h[i], i)}
        PROVE  k + 1 \in {i \in Nat : i <= Len(r) => Sorted(h[i], sc) /\ From(h[i], i)}
    BY <1>1, <1>3, <2>2
  <2> QED
    BY <2>1, <2>2, AllNumbers
<1> QED
  BY <1>1, <1>2, <1>5

\* ... or the one that is taken when none is.
LEMMA ActiveSorted ==
  ASSUME NEW sc, NEW r, Sorted(r, sc), NEW sg, NEW p
  PROVE  Sorted(Active(r, sc, sg, p), sc)
<1> DEFINE f == Filtered(r, sc, p)
<1>1. Sorted(f, sc)
  BY FilterSorted
<1>2. Sorted(<<>>, sc)
  BY DEF Sorted
<1>3. r # <<>> => Sorted(<<r[1]>>, sc)
  <2> SUFFICES ASSUME r # <<>> PROVE Sorted(<<r[1]>>, sc)
    OBVIOUS
  <2>1. PICK s \in Sources : s = r[1]
    BY LenProperties, EmptySeq DEF Sorted
  <2>2. <<s>> \in Seq(Sources) /\ Len(<<s>>) = 1
    <3> HIDE DEF Sources
    <3> QED
      OBVIOUS
  <2> QED
    BY <2>1, <2>2 DEF Sorted
<1>4. \/ Active(r, sc, sg, p) = f
      \/ Active(r, sc, sg, p) = <<>>
      \/ r # <<>> /\ Active(r, sc, sg, p) = <<r[1]>>
  <2> HIDE DEF f
  <2>1. CASE f # <<>> \/ r = <<>>
    <3>1. Active(r, sc, sg, p) = f
      BY <2>1, Zenon DEF Active, f
    <3> QED
      BY <3>1, Zenon
  <2>2. CASE ~(f # <<>> \/ r = <<>>)
    <3>1. Active(r, sc, sg, p) = <<r[1]>> \/ Active(r, sc, sg, p) = <<>>
      BY <2>2, Zenon DEF Active, f
    <3> QED
      BY <2>2, <3>1, Zenon
  <2> QED
    BY <2>1, <2>2
<1> QED
  BY <1>1, <1>2, <1>3, <1>4

-----------------------------------------------------------------------------
(* What a question is answered from. *)

\* Nothing, or what the loop selects from candidates in their order.
Answered(res, D, F, p) ==
  \/ res.active = <<>> /\ res.selected = <<>> /\ res.confidence = 0
  \/ /\ Given(res.active, res.score, D, F, p)
     /\ LoopInv(res.selected, Len(res.active), Seeds(res.active, res.score),
                res.active, res.score, D, F, p)
     /\ res.confidence = confidenceLevel(res.score[res.selected[1]], Len(res.selected))

LEMMA NothingAnswered ==
  ASSUME NEW sc, NEW D, NEW F, NEW p
  PROVE  Answered(Nothing(sc), D, F, p)
BY DEF Answered, Nothing

LEMMA RetrieveAnswered ==
  ASSUME NEW sc \in [Sources -> Int], NEW sg, NEW r \in Rankings(sc, sg),
         NEW D \in [ChunkSources -> ChunkSources], NEW F \in [Sources -> Sources],
         NEW p, ProfileOK(p)
  PROVE  Answered(Retrieve(r, sc, sg, D, F, p), D, F, p)
<1> DEFINE a == Active(SubSeq(r, 1, Min({Len(r), p.maxCandidates})), sc, sg, p)
           q == diversifyAndBalance(a, sc, D, F, p)
           res == [score |-> sc, active |-> a, selected |-> q,
                   confidence |-> confidenceLevel(sc[q[1]], Len(q))]
<1>1. Sorted(a, sc)
  <2>1. Sorted(r, sc)
    BY RankingSorted
  <2>2. p.maxCandidates \in Nat
    BY DEF ProfileOK
  <2>3. Sorted(SubSeq(r, 1, Min({Len(r), p.maxCandidates})), sc)
    BY <2>1, <2>2, PrefixSorted
  <2> QED
    BY <2>3, ActiveSorted
<1>2. Retrieve(r, sc, sg, D, F, p) = IF a = <<>> THEN Nothing(sc) ELSE res
  BY Zenon DEF Retrieve
<1> HIDE DEF a
<1>3. CASE a = <<>>
  BY <1>2, <1>3, NothingAnswered
<1>4. CASE a # <<>>
  <2>1. Given(a, sc, D, F, p)
    BY <1>1, <1>4 DEF Sorted, Given, ProfileOK
  <2>2. LoopInv(q, Len(a), Seeds(a, sc), a, sc, D, F, p)
    BY <2>1, DiversifyInv
  <2> HIDE DEF q
  <2>3. Retrieve(r, sc, sg, D, F, p) = res
    BY <1>2, <1>4
  <2>4. /\ res.active = a /\ res.selected = q /\ res.score = sc
        /\ res.confidence = confidenceLevel(sc[q[1]], Len(q))
    OBVIOUS
  <2> HIDE DEF res
  <2>5. Answered(res, D, F, p)
    BY <2>1, <2>2, <2>4, Zenon DEF Answered
  <2> QED
    BY <2>3, <2>5
<1> QED
  BY <1>3, <1>4

\* What the loop's invariant says of an answer.
AnswerOK ==
  profile \in DOMAIN Profiles /\ Answered(result, documentOf, fingerprint, Profiles[profile])

\* The limits ...
LEMMA AnswerLimits ==
  ASSUME AnswerOK
  PROVE  /\ Len(selected) <= Profiles[profile].maxResults
         /\ CapPerDocument
<1> DEFINE p == Profiles[profile]
<1>1. ProfileOK(p)
  BY ProfilesOK DEF AnswerOK
<1> HIDE DEF p
<1>2. CASE selected = <<>>
  <2>1. \A d \in ChunkSources : OfDocument(selected, documentOf, d) = {}
    BY <1>2 DEF OfDocument
  <2>2. \A d \in ChunkSources : Cardinality(OfDocument(selected, documentOf, d)) = 0
    BY <2>1, FS_EmptySet
  <2>3. \A d \in ChunkSources :
          Cardinality(OfDocument(selected, documentOf, d)) <= p.maxChunksPerDocument
    BY <1>1, <2>2 DEF ProfileOK
  <2>4. Len(selected) <= p.maxResults
    BY <1>1, <1>2 DEF ProfileOK
  <2> QED
    BY <2>3, <2>4 DEF CapPerDocument, p
<1>3. CASE Limits(selected, documentOf, p)
  BY <1>3 DEF Limits, CapPerDocument, p
<1> QED
  BY <1>2, <1>3 DEF AnswerOK, Answered, LoopInv, selected, p

\* The sources that are cited.
LEMMA CitedIs ==
  ASSUME AnswerOK
  PROVE  /\ selected \in Seq(Sources) /\ Cited \in SUBSET Sources
         /\ Len(selected) \in Nat /\ DOMAIN selected = 1..Len(selected)
         /\ Cited = {selected[i] : i \in 1..Len(selected)}
<1>1. selected \in Seq(Sources)
  <2>1. <<>> \in Seq(Sources)
    BY EmptySeq
  <2> QED
    BY <2>1, Zenon DEF AnswerOK, Answered, LoopInv, selected
<1>2. /\ Len(selected) \in Nat /\ DOMAIN selected = 1..Len(selected)
      /\ \A i \in 1..Len(selected) : selected[i] \in Sources
  BY <1>1, LenProperties
<1>3. Cited = {selected[i] : i \in 1..Len(selected)}
  BY <1>2 DEF Cited, ToSet
<1> QED
  BY <1>1, <1>2, <1>3

\* ... the only texts that are cited twice ...
LEMMA AnswerSeeds ==
  ASSUME AnswerOK
  PROVE  OnlySeedsRepeat
<1> DEFINE q == selected
           e == Seeds(result.active, result.score)
<1>1. /\ q \in Seq(Sources) /\ Len(q) \in Nat /\ DOMAIN q = 1..Len(q)
      /\ Cited = {q[i] : i \in 1..Len(q)}
  BY CitedIs
<1>2. CASE q = <<>>
  BY <1>1, <1>2 DEF OnlySeedsRepeat
<1>3. CASE /\ SaidOnce(q, e, fingerprint) /\ Begins(q, e)
           /\ result.active \in Seq(Sources) /\ result.active # <<>>
  <2>1. Seeding(result.active, e)
    BY <1>3, SeedsAre
  <2> HIDE DEF q, e
  <2>2. e \in Seq(Sources) /\ Len(e) \in {1, 2}
    BY <2>1, SeedsShape
  <2>3. ASSUME NEW i \in 1..Len(q), NEW j \in 1..Len(q), i < j,
               fingerprint[q[i]] = fingerprint[q[j]]
        PROVE  {<<q[i]>>, <<q[j]>>} = Seeded
    <3>1. j <= Len(e)
      BY <1>1, <1>3, <2>3 DEF SaidOnce
    <3>2. i = 1 /\ j = 2 /\ Len(e) = 2
      <4>1. i \in Int /\ j \in Int /\ 1 <= i
        BY <1>1
      <4>2. i < j
        BY <2>3
      <4>3. CASE Len(e) = 1
        BY <3>1, <4>1, <4>2, <4>3
      <4>4. CASE Len(e) = 2
        BY <3>1, <4>1, <4>2, <4>4
      <4> QED
        BY <2>2, <4>3, <4>4
    <3>3. q[1] = e[1] /\ q[2] = e[2]
      BY <1>3, <3>2 DEF Begins
    <3>4. PICK x \in NoteSources, y \in ChunkSources :
            /\ e = <<x, y>> /\ Best(result.active, NoteSources) = <<x>>
            /\ Best(result.active, ChunkSources) = <<y>>
      BY <2>1, <3>2 DEF Seeding
    <3> QED
      BY <3>2, <3>3, <3>4 DEF Seeded
  <2>4. ASSUME NEW s \in Cited, NEW t \in Cited, s # t, fingerprint[s] = fingerprint[t]
        PROVE  {<<s>>, <<t>>} = Seeded
    <3>1. PICK i \in 1..Len(q) : q[i] = s
      BY <1>1
    <3>2. PICK j \in 1..Len(q) : q[j] = t
      BY <1>1
    <3>3. i < j \/ j < i
      BY <1>1, <2>4, <3>1, <3>2
    <3>4. CASE i < j
      BY <2>3, <2>4, <3>1, <3>2, <3>4
    <3>5. CASE j < i
      <4>1. {<<t>>, <<s>>} = Seeded
        BY <2>3, <2>4, <3>1, <3>2, <3>5
      <4> QED
        BY <4>1
    <3> QED
      BY <3>3, <3>4, <3>5
  <2> QED
    BY <2>4 DEF OnlySeedsRepeat
<1> QED
  BY <1>2, <1>3 DEF AnswerOK, Answered, LoopInv, Given, selected

\* ... that the best candidate is said ...
LEMMA AnswerTop ==
  ASSUME AnswerOK
  PROVE  TopOrItsTextIsCited
<1> SUFFICES ASSUME result.active # <<>>
             PROVE  \E s \in Cited : fingerprint[s] = fingerprint[result.active[1]]
  BY DEF TopOrItsTextIsCited
<1>1. Len(result.active) > 0
  BY EmptySeq, LenProperties DEF AnswerOK, Answered, Given
<1>2. Said(selected, result.active[1], fingerprint)
  BY <1>1 DEF AnswerOK, Answered, LoopInv, Accounted, selected
<1> QED
  BY <1>2 DEF Said, Cited, ToSet

\* ... that no better one is left out ...
LEMMA AnswerBest ==
  ASSUME AnswerOK
  PROVE  NothingBetterLeftOut
<1> DEFINE a == result.active
           q == selected
           e == Seeds(a, result.score)
           p == Profiles[profile]
<1>1. /\ q \in Seq(Sources) /\ Len(q) \in Nat /\ DOMAIN q = 1..Len(q)
      /\ Cited = {q[i] : i \in 1..Len(q)}
  BY CitedIs
<1>2. CASE a = <<>>
  BY <1>2 DEF NothingBetterLeftOut, ToSet
<1>3. CASE /\ a \in Seq(Sources) /\ a # <<>> /\ Begins(q, e)
           /\ Accounted(q, e, a, Len(a), result.score, documentOf, fingerprint, p)
  <2>1. Seeding(a, e)
    BY <1>3, SeedsAre
  <2>2. Len(e) \in {1, 2} /\ \A i \in 1..Len(e) : <<e[i]>> \in Seeded
    <3> HIDE DEF e
    <3>1. Len(e) \in {1, 2}
      BY <2>1, SeedsShape
    <3>2. \A i \in 1..Len(e) : <<e[i]>> \in Seeded
      BY <2>1 DEF Seeding, Seeded
    <3> QED
      BY <3>1, <3>2
  <2> HIDE DEF q, e, p
  <2>3. ASSUME NEW x \in 1..Len(a)
        PROVE  \/ \E t \in Cited : fingerprint[t] = fingerprint[a[x]]
               \/ HasShare(q, a[x], documentOf, p)
               \/ /\ Len(q) = p.maxResults
                  /\ \A t \in Cited : <<t>> \in Seeded \/ result.score[t] >= result.score[a[x]]
    <3>1. \/ Said(q, a[x], fingerprint) \/ HasShare(q, a[x], documentOf, p)
          \/ NoRoom(q, a[x], e, result.score, p)
      BY <1>3, <2>3 DEF Accounted
    <3>2. CASE Said(q, a[x], fingerprint)
      BY <1>1, <3>2 DEF Said
    <3>3. CASE NoRoom(q, a[x], e, result.score, p)
      <4>1. \A i \in 1..Len(q) : i > Len(e) => result.score[q[i]] >= result.score[a[x]]
        BY <1>1, <3>3 DEF NoRoom
      <4>2. \A i \in 1..Len(e) : q[i] = e[i]
        BY <1>3 DEF Begins
      <4>3. \A i \in 1..Len(q) : <<q[i]>> \in Seeded \/ result.score[q[i]] >= result.score[a[x]]
        <5> SUFFICES ASSUME NEW i \in 1..Len(q), ~(i > Len(e)) PROVE <<q[i]>> \in Seeded
          BY <4>1
        <5>1. i \in 1..Len(e)
          BY <1>1, <2>2
        <5> QED
          BY <2>2, <4>2, <5>1
      <4> QED
        BY <1>1, <3>3, <4>3 DEF NoRoom
    <3> QED
      BY <3>1, <3>2, <3>3
  <2>4. ToSet(a) = {a[x] : x \in 1..Len(a)}
    BY <1>3, LenProperties DEF ToSet
  <2> HIDE DEF a
  <2> QED
    BY <2>3, <2>4 DEF NothingBetterLeftOut, HasShare, a, p, q
<1> QED
  BY <1>2, <1>3 DEF AnswerOK, Answered, LoopInv, Given, selected

\* ... and what the confidence comes from.
LEMMA AnswerEarned ==
  ASSUME AnswerOK
  PROVE  ConfidenceIsEarned
<1> DEFINE q == selected
           e == Seeds(result.active, result.score)
<1>1. CASE result.confidence = 0
  BY <1>1 DEF ConfidenceIsEarned
<1>2. CASE /\ result.active \in Seq(Sources) /\ result.active # <<>> /\ Begins(q, e)
           /\ result.confidence = confidenceLevel(result.score[q[1]], Len(q))
  <2>1. Len(e) \in {1, 2}
    <3>1. Seeding(result.active, e)
      BY <1>2, SeedsAre
    <3> HIDE DEF e
    <3> QED
      BY <3>1, SeedsShape
  <2>2. 1 \in 1..Len(q) /\ q[1] \in Cited
    <3>1. Len(q) \in Nat /\ Cited = {q[i] : i \in 1..Len(q)}
      BY CitedIs
    <3>2. Len(e) <= Len(q)
      BY <1>2 DEF Begins
    <3> HIDE DEF q, e
    <3>3. 1 \in 1..Len(q)
      BY <2>1, <3>1, <3>2
    <3> QED
      BY <3>1, <3>3
  <2>3. result.confidence \in {0, 1, 2, 3}
    BY <1>2 DEF confidenceLevel
  <2>4. result.confidence <= confidenceLevel(result.score[q[1]], Len(q))
    BY <1>2, <2>3
  <2> QED
    BY <2>2, <2>4 DEF ConfidenceIsEarned
<1> QED
  BY <1>1, <1>2 DEF AnswerOK, Answered, LoopInv, Given, selected

-----------------------------------------------------------------------------
(* The sum of the feedback. *)

\* g adds the values v of the messages up, in the order FoldSet takes them in.
Picked(s) == CHOOSE m \in s : TRUE
Adds(g, v) ==
  \A s \in SUBSET Messages : g[s] = IF s = {} THEN 0 ELSE v[Picked(s)] + g[s \ {Picked(s)}]

IsSum(g, v) == g \in [SUBSET Messages -> Int] /\ Adds(g, v)

\* What the feedback f on an answer that cites c counts for a source s.
Counts(f, c, s) == IF f # None /\ s \in c THEN delta(f) ELSE 0
CountsOf(fb, ct, s) == [m \in Messages |-> Counts(fb[m], ct[m], s)]

\* The sum of the model is such a sum.
SumsTo(fb, ct, s) == \E g : IsSum(g, CountsOf(fb, ct, s)) /\ FeedbackSum(fb, ct, s) = g[Messages]

\* The deltas of GlobalViewModel.recordFeedback.
LEMMA DeltaType ==
  ASSUME NEW f \in Feedbacks
  PROVE  delta(f) \in {-6, -3, -1}
<1>1. f = "notRelevant" \/ f = "partlyWrong" \/ f = "missingSource"
  BY DEF Feedbacks
<1> QED
  BY <1>1 DEF delta

\* What feedback counts is a number.
LEMMA CountsType ==
  ASSUME NEW fb \in [Messages -> Feedbacks \cup {None}], NEW ct, NEW s
  PROVE  CountsOf(fb, ct, s) \in [Messages -> Int]
<1>1. \A m \in Messages : Counts(fb[m], ct[m], s) \in Int
  <2> SUFFICES ASSUME NEW m \in Messages PROVE Counts(fb[m], ct[m], s) \in Int
    OBVIOUS
  <2>1. CASE fb[m] # None
    <3>1. delta(fb[m]) \in Int
      BY <2>1, DeltaType
    <3> QED
      BY <3>1 DEF Counts
  <2>2. CASE fb[m] = None
    BY <2>2 DEF Counts
  <2> QED
    BY <2>1, <2>2
<1> QED
  BY <1>1 DEF CountsOf

\* The sum of the model is one of the values of the feedback.
LEMMA SumIs ==
  ASSUME NEW fb \in [Messages -> Feedbacks \cup {None}], NEW ct, NEW s
  PROVE  SumsTo(fb, ct, s)
<1> DEFINE v == CountsOf(fb, ct, s)
           Def(g) == [t \in SUBSET Messages |->
                        IF t = {} THEN 0
                        ELSE g[t \ {CHOOSE m \in t : TRUE}]
                               + (IF /\ fb[CHOOSE m \in t : TRUE] # None
                                     /\ s \in ct[CHOOSE m \in t : TRUE]
                                  THEN delta(fb[CHOOSE m \in t : TRUE]) ELSE 0)]
           G == CHOOSE g : g = Def(g)
           step == [z \in Int \X Messages |-> v[z[2]] + z[1]]
           c == [t \in (SUBSET Messages) \ {{}} |-> Picked(t)]
<1>1. v \in [Messages -> Int] /\ IsFiniteSet(Messages)
  BY CountsType, BoundsAssumption
<1>2. \A t \in SUBSET Messages : t # {} => Picked(t) \in t
  BY DEF Picked
<1>3. FeedbackSum(fb, ct, s) = G[Messages]
  BY DEF FeedbackSum, FoldSet, MapThenFoldSet
<1>4. \A t \in SUBSET Messages : t # {} =>
        v[Picked(t)] = IF /\ fb[CHOOSE m \in t : TRUE] # None
                          /\ s \in ct[CHOOSE m \in t : TRUE]
                       THEN delta(fb[CHOOSE m \in t : TRUE]) ELSE 0
  BY <1>2 DEF CountsOf, Counts, Picked
<1> HIDE DEF v, G
<1>5. PICK f \in [SUBSET Messages -> Int] : Folds(f, Messages, 0, step, c)
  <2>1. step \in [Int \X Messages -> Int]
    BY <1>1
  <2>2. c \in [(SUBSET Messages) \ {{}} -> Messages] /\ \A t \in (SUBSET Messages) \ {{}} : c[t] \in t
    BY <1>2
  <2>3. 0 \in Int
    OBVIOUS
  <2> HIDE DEF step, c
  <2> QED
    BY <1>1, <2>1, <2>2, <2>3, FoldExists
<1>6. \A t \in SUBSET Messages : t # {} => f[t] = v[Picked(t)] + f[t \ {Picked(t)}]
  <2> SUFFICES ASSUME NEW t \in SUBSET Messages, t # {}
               PROVE  f[t] = v[Picked(t)] + f[t \ {Picked(t)}]
    OBVIOUS
  <2>1. c[t] = Picked(t) /\ Picked(t) \in Messages /\ f[t \ {Picked(t)}] \in Int
    BY <1>2
  <2>2. step[<<f[t \ {Picked(t)}], Picked(t)>>] = v[Picked(t)] + f[t \ {Picked(t)}]
    BY <2>1
  <2> HIDE DEF step, c
  <2>3. f[t] = step[<<f[t \ {c[t]}], c[t]>>]
    BY <1>5 DEF Folds
  <2> QED
    BY <2>1, <2>2, <2>3
<1>7. f[{}] = 0
  BY <1>5 DEF Folds
<1>8. f = Def(f)
  <2>1. \A t \in SUBSET Messages : t # {} =>
          v[Picked(t)] \in Int /\ f[t \ {Picked(t)}] \in Int
    BY <1>1, <1>2
  <2>2. ASSUME NEW t \in SUBSET Messages PROVE Def(f)[t] = f[t]
    <3>1. CASE t = {}
      BY <1>7, <3>1
    <3>2. CASE t # {}
      <4>1. f[t] = f[t \ {Picked(t)}] + v[Picked(t)]
        BY <1>6, <2>1, <3>2
      <4>2. Def(f)[t] = f[t \ {Picked(t)}] + v[Picked(t)]
        BY <1>4, <3>2 DEF Picked
      <4> QED
        BY <4>1, <4>2
    <3> QED
      BY <3>1, <3>2
  <2> QED
    BY <2>2
<1>9. G = Def(G)
  <2> HIDE DEF Def
  <2> QED
    BY <1>8 DEF G
<1>10. G = [t \in SUBSET Messages |-> G[t]]
  BY <1>9
<1>11. \A t \in SUBSET Messages :
         G[t] = IF t = {} THEN 0
                ELSE G[t \ {Picked(t)}] + v[Picked(t)]
  BY <1>4, <1>9 DEF Picked
<1> DEFINE Numbers == {t \in SUBSET Messages : G[t] \in Int}
<1>12. \A t \in SUBSET Messages : t \in Numbers
  <2>1. ASSUME NEW t \in SUBSET Messages, \A m \in t : t \ {m} \in Numbers PROVE t \in Numbers
    <3>1. CASE t = {}
      <4>1. G[t] = 0
        BY <1>11, <3>1
      <4> QED
        BY <4>1
    <3>2. CASE t # {}
      <4>1. PICK x \in t : x = Picked(t)
        BY <1>2, <3>2
      <4>2. G[t \ {x}] \in Int /\ v[x] \in Int
        BY <1>1, <2>1
      <4>3. G[t] = G[t \ {x}] + v[x]
        BY <1>11, <3>2, <4>1
      <4>4. G[t] \in Int
        BY <4>2, <4>3
      <4> QED
        BY <4>4
    <3> QED
      BY <3>1, <3>2
  <2> HIDE DEF Numbers
  <2> QED
    BY <1>1, <2>1, AllSubsets
<1>13. G \in [SUBSET Messages -> Int]
  BY <1>10, <1>12
<1>14. Adds(G, v)
  <2> SUFFICES ASSUME NEW t \in SUBSET Messages
               PROVE  G[t] = IF t = {} THEN 0 ELSE v[Picked(t)] + G[t \ {Picked(t)}]
    BY DEF Adds
  <2>1. CASE t = {}
    BY <1>11, <2>1
  <2>2. CASE t # {}
    <3>1. G[t] = G[t \ {Picked(t)}] + v[Picked(t)]
      BY <1>11, <2>2
    <3>2. v[Picked(t)] \in Int /\ G[t \ {Picked(t)}] \in Int
      BY <1>1, <1>2, <1>13, <2>2
    <3> QED
      BY <2>2, <3>1, <3>2
  <2> QED
    BY <2>1, <2>2
<1> QED
  BY <1>3, <1>13, <1>14 DEF v, SumsTo, IsSum

SameBut(v, w, m) == \A n \in Messages : n # m => w[n] = v[n]

\* Two sums whose values differ for one message differ by that value.
LEMMA SumsDiffer ==
  ASSUME NEW v \in [Messages -> Int], NEW w \in [Messages -> Int], NEW m \in Messages,
         SameBut(v, w, m), NEW g, IsSum(g, v), NEW h, IsSum(h, w)
  PROVE  h[Messages] = g[Messages] + (w[m] - v[m])
<1> USE DEF IsSum, SameBut
<1> DEFINE S == {t \in SUBSET Messages :
                   h[t] = g[t] + (IF m \in t THEN w[m] - v[m] ELSE 0)}
<1>1. ASSUME NEW t \in SUBSET Messages, \A x \in t : t \ {x} \in S
      PROVE  t \in S
  <2>1. CASE t = {}
    <3>1. g[t] = 0 /\ h[t] = 0
      BY <2>1 DEF Adds
    <3> QED
      BY <2>1, <3>1
  <2>2. CASE t # {}
    <3>1. PICK x \in t : x = Picked(t)
      BY <2>2 DEF Picked
    <3>2. g[t] = v[x] + g[t \ {x}] /\ h[t] = w[x] + h[t \ {x}]
      BY <2>2, <3>1 DEF Adds
    <3>3. h[t \ {x}] = g[t \ {x}] + (IF m \in t \ {x} THEN w[m] - v[m] ELSE 0)
      BY <1>1
    <3>4. /\ g[t] \in Int /\ h[t] \in Int /\ v[x] \in Int /\ w[x] \in Int
          /\ g[t \ {x}] \in Int /\ h[t \ {x}] \in Int /\ v[m] \in Int /\ w[m] \in Int
      OBVIOUS
    <3>5. h[t] = g[t] + (IF m \in t THEN w[m] - v[m] ELSE 0)
      <4>1. CASE x = m
        BY <3>2, <3>3, <3>4, <4>1
      <4>2. CASE x # m
        <5>1. w[x] = v[x] /\ (m \in t \ {x} <=> m \in t)
          BY <4>2
        <5> QED
          BY <3>2, <3>3, <3>4, <5>1
      <4> QED
        BY <4>1, <4>2
    <3> QED
      BY <3>5
  <2> QED
    BY <2>1, <2>2
<1>2. IsFiniteSet(Messages)
  BY BoundsAssumption
<1>3. \A t \in SUBSET Messages : t \in S
  <2> HIDE DEF S
  <2> QED
    BY <1>1, <1>2, AllSubsets
<1> QED
  BY <1>3

SameElse(fb, ct, gb, dt, m) == \A n \in Messages : n # m => gb[n] = fb[n] /\ dt[n] = ct[n]

\* A feedback that changes on one answer, or a citation that does, changes the sum by
\* the difference of what they count.
LEMMA SumChange ==
  ASSUME NEW fb \in [Messages -> Feedbacks \cup {None}], NEW ct,
         NEW gb \in [Messages -> Feedbacks \cup {None}], NEW dt, NEW m \in Messages,
         SameElse(fb, ct, gb, dt, m), NEW s
  PROVE  /\ FeedbackSum(fb, ct, s) \in Int
         /\ FeedbackSum(gb, dt, s) =
              FeedbackSum(fb, ct, s) + (Counts(gb[m], dt[m], s) - Counts(fb[m], ct[m], s))
<1> DEFINE v == CountsOf(fb, ct, s)
           w == CountsOf(gb, dt, s)
<1>1. PICK g : IsSum(g, v) /\ FeedbackSum(fb, ct, s) = g[Messages]
  BY SumIs DEF SumsTo
<1>2. PICK h : IsSum(h, w) /\ FeedbackSum(gb, dt, s) = h[Messages]
  BY SumIs DEF SumsTo
<1>3. v \in [Messages -> Int] /\ w \in [Messages -> Int]
  BY CountsType
<1>4. SameBut(v, w, m)
  BY DEF CountsOf, SameBut, SameElse
<1>5. v[m] = Counts(fb[m], ct[m], s) /\ w[m] = Counts(gb[m], dt[m], s)
  BY DEF CountsOf
<1> HIDE DEF v, w
<1>6. h[Messages] = g[Messages] + (w[m] - v[m])
  BY <1>1, <1>2, <1>3, <1>4, SumsDiffer
<1> QED
  BY <1>1, <1>2, <1>5, <1>6 DEF IsSum

\* Without feedback it is nothing.
LEMMA SumNone ==
  ASSUME NEW fb, fb = [m \in Messages |-> None], NEW ct, NEW s
  PROVE  FeedbackSum(fb, ct, s) = 0
<1> DEFINE v == CountsOf(fb, ct, s)
<1>1. fb \in [Messages -> Feedbacks \cup {None}]
  OBVIOUS
<1>2. PICK g : /\ g \in [SUBSET Messages -> Int] /\ Adds(g, v)
               /\ FeedbackSum(fb, ct, s) = g[Messages]
  <2>1. SumsTo(fb, ct, s)
    BY <1>1, SumIs
  <2> QED
    BY <2>1 DEF SumsTo, IsSum
<1>3. \A m \in Messages : v[m] = 0
  BY DEF CountsOf, Counts
<1> HIDE DEF v
<1> DEFINE S == {t \in SUBSET Messages : g[t] = 0}
<1>4. ASSUME NEW t \in SUBSET Messages, \A x \in t : t \ {x} \in S PROVE t \in S
  <2>1. CASE t = {}
    BY <1>2, <2>1 DEF Adds
  <2>2. CASE t # {}
    <3>1. PICK x \in t : x = Picked(t)
      BY <2>2 DEF Picked
    <3>2. g[t] = v[x] + g[t \ {x}]
      BY <1>2, <2>2, <3>1 DEF Adds
    <3>3. g[t \ {x}] = 0
      BY <1>4
    <3> QED
      BY <1>3, <3>2, <3>3
  <2> QED
    BY <2>1, <2>2
<1>5. IsFiniteSet(Messages)
  BY BoundsAssumption
<1>6. \A t \in SUBSET Messages : t \in S
  <2> HIDE DEF S
  <2> QED
    BY <1>4, <1>5, AllSubsets
<1> QED
  BY <1>2, <1>6

-----------------------------------------------------------------------------
(* The invariant of the questions and the feedback. *)

AskingOK ==
  \/ asking = NotAsked
  \/ /\ asking.message \in Messages /\ asking.boosts \in [Sources -> -20..20]
     /\ cited[asking.message] = None

CitedOK ==
  /\ cited = [m \in Messages |-> cited[m]]
  /\ \A m \in Messages : cited[m] = None \/ cited[m] \in SUBSET Sources
  /\ \A m \in Messages : feedback[m] # None => cited[m] # None

Typed ==
  /\ boosts \in [Sources -> -20..20] /\ savedBoosts \in [Sources -> -20..20]
  /\ base \in [Sources -> -20..20] /\ clamped \in SUBSET Sources
  /\ feedback \in [Messages -> Feedbacks \cup {None}]
  /\ signal \in [Sources -> Signals]
  /\ documentOf \in [ChunkSources -> ChunkSources] /\ fingerprint \in [Sources -> Sources]
  /\ launches \in 1..MaxLaunches

IInv == Typed /\ CitedOK /\ AskingOK /\ AnswerOK /\ BoostIsSumOfFeedback

\* Clamped keeps to the range, and changes nothing within it.
LEMMA ClampedRange ==
  ASSUME NEW x \in Int
  PROVE  /\ Clamped(x, -20, 20) \in -20..20
         /\ x \in -20..20 => Clamped(x, -20, 20) = x
BY DEF Clamped

LEMMA ZeroBoosts == [s \in Sources |-> 0] \in [Sources -> -20..20]
OBVIOUS

LEMMA InitIInv == Init => IInv
<1> SUFFICES ASSUME Init PROVE IInv
  OBVIOUS
<1>1. boosts \in [Sources -> -20..20] /\ savedBoosts = boosts /\ base = boosts
  BY ZeroBoosts DEF Init
<1>2. feedback \in [Messages -> Feedbacks \cup {None}]
  BY DEF Init
<1>3. launches \in 1..MaxLaunches
  BY BoundsAssumption DEF Init
<1>4. Typed
  BY <1>1, <1>2, <1>3 DEF Typed, Init
<1>5. CitedOK /\ AskingOK
  BY DEF Init, CitedOK, AskingOK
<1>6. AnswerOK
  <2>1. result = Nothing([s \in Sources |-> 0]) /\ profile \in DOMAIN Profiles
    BY DEF Init
  <2> QED
    BY <2>1, NothingAnswered DEF AnswerOK
<1>7. BoostIsSumOfFeedback
  <2> SUFFICES ASSUME NEW s \in Sources PROVE boosts[s] = base[s] + FeedbackSum(feedback, cited, s)
    BY DEF BoostIsSumOfFeedback
  <2>1. feedback = [m \in Messages |-> None]
    BY DEF Init
  <2>2. FeedbackSum(feedback, cited, s) = 0
    BY <2>1, SumNone
  <2>3. boosts[s] = 0 /\ base[s] = 0
    BY DEF Init
  <2> QED
    BY <2>2, <2>3
<1> QED
  BY <1>4, <1>5, <1>6, <1>7 DEF IInv

LEMMA AskIInv ==
  ASSUME IInv, NEW m \in Messages, Ask(m)
  PROVE  IInv'
<1> USE DEF Ask, corpus, ratings
<1>1. Typed' /\ CitedOK'
  BY DEF IInv, Typed, CitedOK
<1>2. AskingOK'
  BY DEF IInv, Typed, AskingOK
<1>3. AnswerOK'
  BY DEF IInv, AnswerOK
<1>4. BoostIsSumOfFeedback'
  BY DEF IInv, BoostIsSumOfFeedback
<1> QED
  BY <1>1, <1>2, <1>3, <1>4 DEF IInv

\* The question is answered; its answer has no feedback yet.
LEMMA RetrievedIInv ==
  ASSUME IInv, Retrieved
  PROVE  IInv'
<1> DEFINE p == Profiles[profile]
           score == [s \in Sources |-> Score(signal[s], asking.boosts[s], p)]
<1>1. PICK r \in Rankings(score, signal) :
        /\ result' = Retrieve(r, score, signal, documentOf, fingerprint, p)
        /\ cited' = [cited EXCEPT ![asking.message] = ToSet(result'.selected)]
  BY DEF Retrieved
<1>2. PICK m \in Messages : m = asking.message
  BY DEF Retrieved, IInv, AskingOK
<1>3. /\ cited[m] = None /\ asking.boosts \in [Sources -> -20..20] /\ asking' = NotAsked
      /\ UNCHANGED <<profile, signal, documentOf, fingerprint, boosts, savedBoosts,
                     feedback, base, clamped, launches>>
  BY <1>2 DEF Retrieved, IInv, AskingOK, corpus, ratings
<1>4. ProfileOK(p)
  BY ProfilesOK DEF IInv, AnswerOK
<1>5. score \in [Sources -> Int]
  <2>1. \A s \in Sources : signal[s] \in Signals /\ asking.boosts[s] \in Int
    BY <1>3 DEF IInv, Typed
  <2>2. \A s \in Sources : Score(signal[s], asking.boosts[s], p) \in Int
    BY <1>4, <2>1, ScoreType
  <2> QED
    BY <2>2
<1> HIDE DEF score
<1>6. AnswerOK'
  <2>1. documentOf \in [ChunkSources -> ChunkSources] /\ fingerprint \in [Sources -> Sources]
    BY DEF IInv, Typed
  <2>2. Answered(result', documentOf, fingerprint, p)
    <3> HIDE DEF p
    <3> QED
      BY <1>1, <1>4, <1>5, <2>1, RetrieveAnswered
  <2> QED
    BY <1>3, <2>2 DEF IInv, AnswerOK
<1>7. Typed'
  BY <1>3 DEF IInv, Typed
<1>8. AskingOK'
  BY <1>3, Zenon DEF AskingOK, NotAsked
<1>9. ToSet(result'.selected) \in SUBSET Sources
  <2>1. (result'.selected) \in Seq(Sources)
    <3>1. <<>> \in Seq(Sources)
      BY EmptySeq
    <3> QED
      BY <1>6, <3>1 DEF AnswerOK, Answered, LoopInv
  <2> QED
    BY <2>1, LenProperties DEF ToSet
<1>10. \A n \in Messages : cited'[n] = IF n = m THEN ToSet(result'.selected) ELSE cited[n]
  BY <1>1, <1>2 DEF IInv, CitedOK
<1>11. CitedOK'
  <2>1. cited' = [n \in Messages |-> cited'[n]]
    BY <1>1, <1>2 DEF IInv, CitedOK
  <2>2. \A n \in Messages : cited'[n] = None \/ cited'[n] \in SUBSET Sources
    BY <1>9, <1>10 DEF IInv, CitedOK
  <2>3. feedback[m] = None
    BY <1>3 DEF IInv, CitedOK
  <2>4. \A n \in Messages : feedback'[n] # None => cited'[n] # None
    BY <1>3, <1>10, <2>3 DEF IInv, CitedOK
  <2> QED
    BY <2>1, <2>2, <2>4 DEF CitedOK
<1>12. BoostIsSumOfFeedback'
  <2> SUFFICES ASSUME NEW s \in Sources, s \notin clamped
               PROVE  boosts[s] = base[s] + FeedbackSum(feedback, cited', s)
    BY <1>3 DEF BoostIsSumOfFeedback
  <2>1. feedback \in [Messages -> Feedbacks \cup {None}] /\ feedback[m] = None
    BY <1>3 DEF IInv, Typed, CitedOK
  <2>2. SameElse(feedback, cited, feedback, cited', m)
    BY <1>10 DEF SameElse
  <2>3. Counts(feedback[m], cited'[m], s) = 0 /\ Counts(feedback[m], cited[m], s) = 0
    BY <2>1 DEF Counts
  <2>4. /\ FeedbackSum(feedback, cited, s) \in Int
        /\ FeedbackSum(feedback, cited', s) = FeedbackSum(feedback, cited, s)
             + (Counts(feedback[m], cited'[m], s) - Counts(feedback[m], cited[m], s))
    BY <2>1, <2>2, SumChange
  <2>5. boosts[s] = base[s] + FeedbackSum(feedback, cited, s)
    BY DEF IInv, BoostIsSumOfFeedback
  <2> QED
    BY <2>3, <2>4, <2>5
<1> QED
  BY <1>6, <1>7, <1>8, <1>11, <1>12 DEF IInv

\* The two deltas are the difference of what the answer counted and counts.
LEMMA RecordFeedbackIInv ==
  ASSUME IInv, NEW m \in Messages, NEW f \in Feedbacks, RecordFeedback(m, f)
  PROVE  IInv'
<1> DEFINE d == Deltas(m, f)
<1>1. /\ cited[m] # None /\ feedback' = [feedback EXCEPT ![m] = f]
      /\ boosts' = [s \in Sources |->
                      IF s \in cited[m] THEN Applied(boosts[s], d) ELSE boosts[s]]
      /\ clamped' = clamped \cup
           {s \in cited[m] : \/ boosts[s] + d[1] \notin -20..20
                             \/ Clamped(boosts[s] + d[1], -20, 20) + d[2] \notin -20..20}
      /\ savedBoosts' = boosts'
      /\ UNCHANGED <<profile, signal, documentOf, fingerprint, base, cited, asking, result, launches>>
  BY DEF RecordFeedback, corpus
<1>2. cited[m] \in SUBSET Sources
  BY <1>1 DEF IInv, CitedOK
<1>3. /\ feedback \in [Messages -> Feedbacks \cup {None}]
      /\ boosts \in [Sources -> -20..20] /\ base \in [Sources -> -20..20]
  BY DEF IInv, Typed
<1>4. \A s \in Sources : Counts(feedback[m], cited[m], s) \in Int
  <2> SUFFICES ASSUME NEW s \in Sources, feedback[m] # None PROVE delta(feedback[m]) \in Int
    BY DEF Counts
  <2>1. feedback[m] \in Feedbacks
    BY <1>3
  <2> QED
    BY <2>1, DeltaType
<1>5. /\ d[1] \in Int /\ d[2] \in Int /\ d[2] = delta(f)
      /\ d[1] = IF feedback[m] = None THEN 0 ELSE -delta(feedback[m])
  <2>1. delta(f) \in Int
    BY DeltaType
  <2>2. feedback[m] # None => delta(feedback[m]) \in Int
    <3>1. feedback[m] # None => feedback[m] \in Feedbacks
      BY <1>3
    <3> QED
      BY <3>1, DeltaType
  <2> QED
    BY <2>1, <2>2 DEF Deltas
<1> HIDE DEF d
<1>6. \A s \in Sources : boosts'[s] \in -20..20
  <2>1. ASSUME NEW s \in Sources PROVE Applied(boosts[s], d) \in -20..20
    <3>1. boosts[s] + d[1] \in Int
      BY <1>3, <1>5
    <3>2. Clamped(boosts[s] + d[1], -20, 20) \in Int
      BY <3>1, ClampedRange
    <3>3. Clamped(boosts[s] + d[1], -20, 20) + d[2] \in Int
      BY <1>5, <3>2
    <3> QED
      BY <3>3, ClampedRange DEF Applied
  <2> QED
    BY <1>1, <1>3, <2>1
<1>7. boosts' \in [Sources -> -20..20]
  <2>1. boosts' = [s \in Sources |-> boosts'[s]]
    BY <1>1
  <2> QED
    BY <1>6, <2>1
<1>8. feedback' \in [Messages -> Feedbacks \cup {None}] /\ feedback'[m] = f
      /\ \A n \in Messages : n # m => feedback'[n] = feedback[n]
  BY <1>1, <1>3
<1>9. clamped' \in SUBSET Sources
  BY <1>1, <1>2 DEF IInv, Typed
<1>10. Typed'
  BY <1>1, <1>7, <1>8, <1>9 DEF IInv, Typed
<1>11. CitedOK'
  BY <1>1, <1>8 DEF IInv, CitedOK
<1>12. AskingOK' /\ AnswerOK'
  BY <1>1 DEF IInv, AskingOK, AnswerOK
<1>13. BoostIsSumOfFeedback'
  <2> SUFFICES ASSUME NEW s \in Sources, s \notin clamped'
               PROVE  boosts'[s] = base[s] + FeedbackSum(feedback', cited, s)
    BY <1>1 DEF BoostIsSumOfFeedback
  <2>1. s \notin clamped
    BY <1>1
  <2>2. boosts[s] = base[s] + FeedbackSum(feedback, cited, s)
    BY <2>1 DEF IInv, BoostIsSumOfFeedback
  <2>3. SameElse(feedback, cited, feedback', cited, m)
    BY <1>8 DEF SameElse
  <2>4. /\ FeedbackSum(feedback, cited, s) \in Int
        /\ FeedbackSum(feedback', cited, s) = FeedbackSum(feedback, cited, s)
             + (Counts(feedback'[m], cited[m], s) - Counts(feedback[m], cited[m], s))
    BY <1>3, <1>8, <2>3, SumChange
  <2>5. Counts(feedback'[m], cited[m], s) = IF s \in cited[m] THEN d[2] ELSE 0
    <3>1. f # None
      BY SignalsAssumption DEF Feedbacks
    <3> QED
      BY <1>5, <1>8, <3>1 DEF Counts
  <2>6. Counts(feedback[m], cited[m], s) = IF s \in cited[m] THEN -d[1] ELSE 0
    <3>1. feedback[m] # None => delta(feedback[m]) \in Int
      <4>1. feedback[m] # None => feedback[m] \in Feedbacks
        BY <1>3
      <4> QED
        BY <4>1, DeltaType
    <3> QED
      BY <1>5, <3>1 DEF Counts
  <2>7. CASE s \in cited[m]
    <3>1. boosts'[s] = Applied(boosts[s], d)
      BY <1>1, <2>7
    <3>2. boosts[s] + d[1] \in -20..20 /\ Clamped(boosts[s] + d[1], -20, 20) + d[2] \in -20..20
      BY <1>1, <2>7
    <3>3. boosts'[s] = (boosts[s] + d[1]) + d[2]
      <4>1. Clamped(boosts[s] + d[1], -20, 20) = boosts[s] + d[1]
        BY <3>2, ClampedRange
      <4>2. (boosts[s] + d[1]) + d[2] \in -20..20
        BY <3>2, <4>1
      <4>3. Clamped((boosts[s] + d[1]) + d[2], -20, 20) = (boosts[s] + d[1]) + d[2]
        BY <4>2, ClampedRange
      <4> QED
        BY <3>1, <4>1, <4>3 DEF Applied
    <3>4. boosts[s] \in Int /\ base[s] \in Int
      BY <1>3
    <3> QED
      BY <1>5, <2>2, <2>4, <2>5, <2>6, <2>7, <3>3, <3>4
  <2>8. CASE s \notin cited[m]
    <3>1. boosts'[s] = boosts[s]
      BY <1>1, <2>8
    <3> QED
      BY <2>2, <2>4, <2>5, <2>6, <2>8, <3>1
  <2> QED
    BY <2>7, <2>8
<1> QED
  BY <1>10, <1>11, <1>12, <1>13 DEF IInv

\* The feedback is forgotten, the boosts are kept: the sum starts anew.
LEMMA RelaunchIInv ==
  ASSUME IInv, Relaunch
  PROVE  IInv'
<1>1. /\ boosts' = savedBoosts /\ base' = savedBoosts /\ clamped' = {} /\ asking' = NotAsked
      /\ feedback' = [m \in Messages |-> None] /\ result' = Nothing(result.score)
      /\ launches < MaxLaunches /\ launches' = launches + 1
      /\ UNCHANGED <<profile, signal, documentOf, fingerprint, savedBoosts, cited>>
  BY DEF Relaunch, corpus
<1>2. launches' \in 1..MaxLaunches
  BY <1>1, BoundsAssumption DEF IInv, Typed
<1>3. feedback' \in [Messages -> Feedbacks \cup {None}]
  BY <1>1
<1>4. Typed'
  BY <1>1, <1>2, <1>3 DEF IInv, Typed
<1>5. CitedOK'
  BY <1>1 DEF IInv, CitedOK
<1>6. AskingOK'
  BY <1>1, Zenon DEF AskingOK, NotAsked
<1>7. AnswerOK'
  <2>1. Answered(result', documentOf, fingerprint, Profiles[profile])
    BY <1>1, NothingAnswered
  <2> QED
    BY <1>1, <2>1 DEF IInv, AnswerOK
<1>8. BoostIsSumOfFeedback'
  <2> SUFFICES ASSUME NEW s \in Sources
               PROVE  boosts'[s] = base'[s] + FeedbackSum(feedback', cited', s)
    BY DEF BoostIsSumOfFeedback
  <2>1. FeedbackSum(feedback', cited', s) = 0
    BY <1>1, SumNone
  <2>2. savedBoosts[s] \in Int
    BY DEF IInv, Typed
  <2> QED
    BY <1>1, <2>1, <2>2
<1> QED
  BY <1>4, <1>5, <1>6, <1>7, <1>8 DEF IInv

LEMMA StepIInv ==
  ASSUME IInv, [Next]_vars
  PROVE  IInv'
<1>1. CASE UNCHANGED vars
  <2>1. UNCHANGED <<profile, signal, documentOf, fingerprint, boosts, savedBoosts, feedback,
                    base, clamped, cited, asking, result, launches>>
    BY <1>1 DEF vars, corpus, ratings
  <2> QED
    BY <2>1 DEF IInv, Typed, CitedOK, AskingOK, AnswerOK, BoostIsSumOfFeedback
<1>2. CASE \E m \in Messages : Ask(m)
  BY <1>2, AskIInv
<1>3. CASE \E m \in Messages, f \in Feedbacks : RecordFeedback(m, f)
  BY <1>3, RecordFeedbackIInv
<1>4. CASE Retrieved
  BY <1>4, RetrievedIInv
<1>5. CASE Relaunch
  BY <1>5, RelaunchIInv
<1> QED
  BY <1>1, <1>2, <1>3, <1>4, <1>5 DEF Next

LEMMA AlwaysIInv == Spec => []IInv
<1>1. Init => IInv
  BY InitIInv
<1>2. IInv /\ [Next]_vars => IInv'
  BY StepIInv
<1> QED
  BY <1>1, <1>2, PTL DEF Spec

\* Whatever the sources, their scores, the feedback and the threads' order: no answer cites
\* more than the profile's limits, and no text twice but as best note and best chunk.
THEOREM AlwaysSelectionLimits == Spec => []SelectionLimits
<1>1. IInv => SelectionLimits
  <2> SUFFICES ASSUME IInv PROVE SelectionLimits
    OBVIOUS
  <2>1. CapPerDocument /\ OnlySeedsRepeat /\ Len(result.selected) <= Profiles[profile].maxResults
    BY AnswerLimits, AnswerSeeds DEF IInv, selected
  <2>2. asking.message \in Messages \cup {None}
    BY DEF IInv, AskingOK, NotAsked
  <2>3. TypeOK
    BY <2>1, <2>2 DEF IInv, Typed, CitedOK, TypeOK
  <2> QED
    BY <2>1, <2>3 DEF SelectionLimits
<1> QED
  BY <1>1, AlwaysIInv, PTL

\* The loop never loses the best candidate: an answer cites it, or its text.
THEOREM AlwaysTopIsCited == Spec => []TopOrItsTextIsCited
<1>1. IInv => TopOrItsTextIsCited
  BY AnswerTop DEF IInv
<1> QED
  BY <1>1, AlwaysIInv, PTL

\* A candidate is left out only for room, for its text or for its document, and in favour
\* of none that is worse but the two seeds.
THEOREM AlwaysNothingBetterLeftOut == Spec => []NothingBetterLeftOut
<1>1. IInv => NothingBetterLeftOut
  BY AnswerBest DEF IInv
<1> QED
  BY <1>1, AlwaysIInv, PTL

\* The confidence shown is one a cited source deserves.
THEOREM AlwaysConfidenceIsEarned == Spec => []ConfidenceIsEarned
<1>1. IInv => ConfidenceIsEarned
  BY AnswerEarned DEF IInv
<1> QED
  BY <1>1, AlwaysIInv, PTL

\* For every set of messages and order of feedback, changes of mind and relaunches: a boost
\* that was never cut is the sum of what the answers' feedback is now.
THEOREM AlwaysBoostIsSum == Spec => []BoostIsSumOfFeedback
<1>1. IInv => BoostIsSumOfFeedback
  BY DEF IInv
<1> QED
  BY <1>1, AlwaysIInv, PTL
=============================================================================
