--------------------------- MODULE KVCacheProofs ----------------------------
(***************************************************************************)
(* Proofs about the memory of a context (KVCache): what the window cache   *)
(* knows of a sequence, the base cache knows (SwaWithinBase), for any      *)
(* number of sequences, sizes of the caches, windows, batches and calls.   *)
(* Positions alone are not enough, for a call looks at the cells: the      *)
(* inductive invariant is that a cell of the window cache in which a       *)
(* sequence is has a cell of the base cache that covers it, with the same  *)
(* position and all its sequences (Cov), unless one of its cells was moved *)
(* for another sequence.  Every change of cells keeps that (Covers...),    *)
(* and a decode is followed from the trial of a split, which leaves the    *)
(* base cache as it was and the window cache with less (TakenOutIs), to    *)
(* the slots that are filled (RunIs) and the rollback (CovRolledBack).     *)
(*                                                                         *)
(* A decode also does to the base cache what llama.h says                  *)
(* (DecodeContract).  A split consists of the tokens of the batch, and of  *)
(* two ubatches the later one has the later positions of a sequence        *)
(* (SplitsInto, InOrder), because a batch is numbered upwards              *)
(* (NumberedHas).  Slots of the base cache are empty, so that putting in   *)
(* ubatches adds their positions and takes none away (PosProcessed); a     *)
(* rollback takes those from the failed ubatch on (PosRolledBack), which   *)
(* leaves a beginning of what was coming (TakenFrom, EndsAt).              *)
(*                                                                         *)
(* A decode does not take from the window cache what is looked at behind   *)
(* it (DecodeKeepsWindow).  What putting in a ubatch takes or purges comes *)
(* before what a token behind it looks at (ApplyKeepsSeen,                 *)
(* ApplyLosesFirst), and so it is with all ubatches of a trial (Steps,     *)
(* TrialSeen).  Undoing a trial, and putting in again some of what was     *)
(* tried, leaves each cell as one of the caches of the trial had it        *)
(* (Mixed, MixedUndone, MixedApplied), and each of those had what is       *)
(* looked at behind the batch (DecodeSees).  If all that was tried is put  *)
(* in, the window of a sequence has no gap after it either, for only a     *)
(* beginning of it is taken (Closed, TrialClosed, ProcessedWhole,          *)
(* DecodeKeeps).                                                           *)
(***************************************************************************)
EXTENDS KVCache, FiniteSetTheorems, SequenceTheorems, TLAPS

-----------------------------------------------------------------------------
(* Numbers: least elements, induction, functions defined by recursion. *)

\* A non-empty set of numbers has a least element.
LEMMA Least ==
  ASSUME NEW S \in SUBSET Nat, S # {}
  PROVE  \E n \in S : \A m \in S : n <= m
<1> DEFINE Below == {0..n : n \in S}
<1>1. Below \subseteq FiniteSubsetsOf(Nat) /\ Below # {}
  <2>1. \A n \in S : 0..n \in SUBSET Nat /\ IsFiniteSet(0..n)
    BY FS_Interval
  <2> QED
    BY <2>1 DEF FiniteSubsetsOf
<1>2. \E x \in Below : \A y \in Below : <<y, x>> \notin StrictSubsetOrdering(Nat)
  <2> HIDE DEF Below
  <2> QED
    BY <1>1, FS_StrictSubsetOrderingWellFounded, WFMin
<1>3. PICK n \in S : \A m \in S : <<0..m, 0..n>> \notin StrictSubsetOrdering(Nat)
  BY <1>2
<1>4. \A m \in S : ~(m < n)
  <2> SUFFICES ASSUME NEW m \in S, m < n PROVE <<0..m, 0..n>> \in StrictSubsetOrdering(Nat)
    BY <1>3
  <2>1. 0..m \in SUBSET Nat /\ 0..n \in SUBSET Nat /\ 0..m \subseteq 0..n
    OBVIOUS
  <2>2. n \in 0..n /\ n \notin 0..m
    OBVIOUS
  <2> QED
    BY <2>1, <2>2 DEF StrictSubsetOrdering
<1> QED
  BY <1>4

\* Min is the least element of a set of numbers that is not empty.
LEMMA LeastIs ==
  ASSUME NEW S \in SUBSET Nat, S # {}
  PROVE  Min(S) \in S /\ \A m \in S : Min(S) <= m
BY Least DEF Min

\* The greatest of a non-empty set of numbers up to n.
LEMMA GreatestIs ==
  ASSUME NEW n \in Nat, NEW S \in SUBSET (0..n), S # {}
  PROVE  Max(S) \in S /\ \A m \in S : m <= Max(S)
<1> DEFINE T == {n - m : m \in S}
<1>1. T \in SUBSET Nat /\ T # {}
  <2>1. PICK m \in S : TRUE
    OBVIOUS
  <2>2. n - m \in T
    BY <2>1
  <2>3. \A u \in T : u \in Nat
    OBVIOUS
  <2> QED
    BY <2>2, <2>3
<1>2. PICK t \in T : \A u \in T : t <= u
  <2> HIDE DEF T
  <2> QED
    BY <1>1, Least
<1>3. PICK x \in S : t = n - x
  BY <1>2
<1>4. \A m \in S : x >= m
  <2> SUFFICES ASSUME NEW m \in S PROVE x >= m
    OBVIOUS
  <2>1. n - x <= n - m
    BY <1>2, <1>3
  <2> QED
    BY <1>3, <2>1
<1>5. Max(S) \in S /\ \A m \in S : Max(S) >= m
  BY <1>3, <1>4 DEF Max
<1> QED
  BY <1>5

\* Induction up to n, for a set in the place of a predicate.
LEMMA UpTo ==
  ASSUME NEW n \in Nat, NEW S, 0 \in S, \A k \in 1..n : k - 1 \in S => k \in S
  PROVE  \A k \in 0..n : k \in S
<1> SUFFICES ASSUME (0..n) \ S # {} PROVE FALSE
  OBVIOUS
<1>1. PICK k \in (0..n) \ S : \A m \in (0..n) \ S : k <= m
  <2>1. (0..n) \ S \in SUBSET Nat
    OBVIOUS
  <2> QED
    BY <2>1, Least
<1>2. k \in 1..n /\ k - 1 \in 0..n /\ k - 1 \in S
  BY <1>1
<1> QED
  BY <1>1, <1>2

\* g[0] is b, and g takes the next step wherever it is in the k-th set of X.
Follows(g, n, b, X, step) ==
  \A k \in 0..n : IF k = 0 THEN g[k] = b
                  ELSE g[k - 1] \in X[k - 1] => g[k] = step[<<g[k - 1], k>>]

\* There is such a function on 0..n, if each step leads from one set to the next.
LEMMA Recursion ==
  ASSUME NEW n \in Nat, NEW X, NEW b \in X[0], NEW step,
         \A k \in 1..n : \A x \in X[k - 1] : step[<<x, k>>] \in X[k]
  PROVE  \E h : /\ h = [k \in 0..n |-> h[k]] /\ \A k \in 0..n : h[k] \in X[k]
                /\ Follows(h, n, b, X, step)
<1> DEFINE Defines(h, m) ==
             /\ h = [k \in 0..m |-> h[k]]
             /\ \A k \in 0..m : /\ h[k] \in X[k]
                                /\ h[k] = IF k = 0 THEN b ELSE step[<<h[k - 1], k>>]
           Done == {m \in 0..n : \E h : Defines(h, m)}
<1>1. 0 \in Done
  <2> DEFINE g == [k \in 0..0 |-> b]
  <2>1. Defines(g, 0)
    OBVIOUS
  <2> HIDE DEF g, Defines
  <2> QED
    BY <2>1
<1>2. ASSUME NEW m \in 1..n, m - 1 \in Done PROVE m \in Done
  <2>1. PICK h : Defines(h, m - 1)
    BY <1>2
  <2> DEFINE g == [k \in 0..m |-> IF k = m THEN step[<<h[m - 1], m>>] ELSE h[k]]
  <2>2. h[m - 1] \in X[m - 1]
    <3>1. m - 1 \in 0..m - 1
      OBVIOUS
    <3> QED
      BY <2>1, <3>1
  <2>3. step[<<h[m - 1], m>>] \in X[m]
    BY <2>2
  <2>4. ASSUME NEW k \in 0..m
        PROVE  g[k] \in X[k] /\ g[k] = IF k = 0 THEN b ELSE step[<<g[k - 1], k>>]
    <3>1. CASE k = m
      <4>1. g[m] = step[<<h[m - 1], m>>] /\ g[m - 1] = h[m - 1] /\ m # 0
        OBVIOUS
      <4> HIDE DEF g
      <4> QED
        BY <2>3, <3>1, <4>1
    <3>2. CASE k # m
      <4>1. k \in 0..m - 1 /\ g[k] = h[k] /\ (k # 0 => g[k - 1] = h[k - 1])
        BY <3>2
      <4> HIDE DEF g
      <4> QED
        BY <2>1, <4>1
    <3> QED
      BY <3>1, <3>2
  <2>5. g = [k \in 0..m |-> g[k]]
    OBVIOUS
  <2> HIDE DEF g
  <2>6. Defines(g, m)
    BY <2>4, <2>5
  <2> HIDE DEF Defines
  <2> QED
    BY <2>6
<1>3. n \in Done
  <2> HIDE DEF Done
  <2> QED
    BY <1>1, <1>2, UpTo
<1>4. PICK h : Defines(h, n)
  BY <1>3
<1> QED
  BY <1>4 DEF Follows

\* A function that takes the steps is in the sets.
LEMMA FollowsIn ==
  ASSUME NEW n \in Nat, NEW X, NEW b \in X[0], NEW step, NEW g, Follows(g, n, b, X, step),
         \A k \in 1..n : \A x \in X[k - 1] : step[<<x, k>>] \in X[k]
  PROVE  /\ g[0] = b /\ \A k \in 0..n : g[k] \in X[k]
         /\ \A k \in 1..n : g[k] = step[<<g[k - 1], k>>]
<1> DEFINE S == {k \in 0..n : g[k] \in X[k]}
<1>1. 0 \in S /\ g[0] = b
  <2>1. 0 \in 0..n
    OBVIOUS
  <2>2. g[0] = b
    BY <2>1 DEF Follows
  <2> QED
    BY <2>1, <2>2
<1>2. ASSUME NEW k \in 1..n, k - 1 \in S PROVE k \in S
  <2>1. g[k - 1] \in X[k - 1] /\ k \in 0..n /\ k # 0
    BY <1>2
  <2>2. g[k] = step[<<g[k - 1], k>>]
    BY <2>1 DEF Follows
  <2> QED
    BY <2>1, <2>2
<1>3. \A k \in 0..n : k \in S
  <2> HIDE DEF S
  <2> QED
    BY <1>1, <1>2, UpTo
<1>4. \A k \in 1..n : k \in 0..n /\ k # 0 /\ g[k - 1] \in X[k - 1]
  <2>1. \A k \in 1..n : k - 1 \in 0..n
    OBVIOUS
  <2> QED
    BY <1>3, <2>1
<1> QED
  BY <1>1, <1>3, <1>4 DEF Follows

-----------------------------------------------------------------------------
(* The elements of a sequence at some places. *)

\* A finite set of numbers has an n-th one.
LEMMA NthIs ==
  ASSUME NEW P \in SUBSET Nat, IsFiniteSet(P), NEW n \in 1..Cardinality(P)
  PROVE  Nth(P, n) \in P /\ Cardinality({j \in P : j <= Nth(P, n)}) = n
<1> DEFINE Upto(i) == {j \in P : j <= i}
           N == Cardinality(P)
           S == {m \in 0..N : m = 0 \/ \E i \in P : Cardinality(Upto(i)) = m}
<1>0. \A i \in P : i \in Nat
  OBVIOUS
<1>1. N \in Nat /\ \A i \in P : IsFiniteSet(Upto(i))
  BY FS_CardinalityType, FS_Subset
<1>2. ASSUME NEW m \in 1..N, m - 1 \in S PROVE m \in S
  <2>1. CASE m - 1 = 0
    <3>1. P # {}
      BY <2>1, FS_EmptySet
    <3>2. PICK i \in P : \A j \in P : i <= j
      BY <3>1, Least
    <3>3. Upto(i) = {i}
      <4>1. i \in Nat
        BY <1>0
      <4>2. \A j \in P : j <= i <=> j = i
        BY <1>0, <3>2, <4>1
      <4> QED
        BY <4>2
    <3>4. Cardinality(Upto(i)) = 1
      BY <3>3, FS_Singleton
    <3> QED
      BY <2>1, <3>4
  <2>2. CASE m - 1 # 0
    <3>1. PICK i \in P : Cardinality(Upto(i)) = m - 1
      BY <1>2, <2>2
    <3> DEFINE Over == {j \in P : j > i}
    <3>2. Over # {}
      <4> SUFFICES ASSUME Over = {} PROVE FALSE
        OBVIOUS
      <4>1. \A j \in P : j <= i
        BY <1>0, <3>1
      <4>2. Upto(i) = P
        BY <4>1
      <4> QED
        BY <1>1, <3>1, <4>2
    <3>3. PICK k \in Over : \A j \in Over : k <= j
      BY <3>2, Least
    <3>4. k \in P /\ Upto(k) = Upto(i) \cup {k} /\ k \notin Upto(i)
      <4>1. i \in Nat /\ k \in Nat /\ k \in P /\ k > i
        BY <1>0, <3>1, <3>3
      <4>2. \A j \in P : j <= k <=> j <= i \/ j = k
        BY <1>0, <3>3, <4>1
      <4>3. ~(k <= i)
        BY <4>1
      <4> QED
        BY <4>1, <4>2, <4>3
    <3>5. Cardinality(Upto(k)) = m
      <4>1. IsFiniteSet(Upto(i))
        BY <1>1, <3>1
      <4>2. Cardinality(Upto(i) \cup {k}) = Cardinality(Upto(i)) + 1
        <5> HIDE DEF Upto
        <5> QED
          BY <3>4, <4>1, FS_AddElement
      <4> QED
        BY <3>1, <3>4, <4>2
    <3> HIDE DEF Upto
    <3> QED
      BY <3>4, <3>5
  <2> QED
    BY <2>1, <2>2
<1>3. 0 \in S
  BY <1>1
<1>4. \A m \in 0..N : m \in S
  <2> HIDE DEF S, N
  <2> QED
    BY <1>1, <1>2, <1>3, UpTo
<1>5. PICK i \in P : Cardinality(Upto(i)) = n
  BY <1>4
<1> QED
  BY <1>5 DEF Nth

\* Different places of a set of numbers hold different numbers.
LEMMA NthDiffer ==
  ASSUME NEW P \in SUBSET Nat, IsFiniteSet(P),
         NEW n \in 1..Cardinality(P), NEW m \in 1..Cardinality(P), Nth(P, n) = Nth(P, m)
  PROVE  n = m
<1>1. Cardinality({j \in P : j <= Nth(P, n)}) = n
  BY NthIs
<1>2. Cardinality({j \in P : j <= Nth(P, m)}) = m
  BY NthIs
<1> QED
  BY <1>1, <1>2

\* What At takes from a sequence: as many elements as there are places, each one of
\* them.
LEMMA AtIs ==
  ASSUME NEW T, NEW q \in Seq(T), NEW P \in SUBSET (DOMAIN q)
  PROVE  /\ At(q, P) \in Seq(T) /\ Len(At(q, P)) = Cardinality(P)
         /\ \A n \in 1..Len(At(q, P)) : \E i \in P : At(q, P)[n] = q[i]
<1>1. DOMAIN q = 1..Len(q) /\ Len(q) \in Nat /\ \A i \in DOMAIN q : q[i] \in T
  BY LenProperties
<1>2. IsFiniteSet(P) /\ P \in SUBSET Nat
  <2>1. IsFiniteSet(1..Len(q))
    <3>1. 1 \in Int /\ Len(q) \in Int
      BY <1>1
    <3> QED
      BY <3>1, FS_Interval
  <2> QED
    BY <1>1, <2>1, FS_Subset
<1>3. Cardinality(P) \in Nat
  BY <1>2, FS_CardinalityType
<1>4. \A n \in 1..Cardinality(P) : Nth(P, n) \in P
  BY <1>2, NthIs
<1>5. At(q, P) = [n \in 1..Cardinality(P) |-> q[Nth(P, n)]]
  BY DEF At
<1>6. At(q, P) \in [1..Cardinality(P) -> T]
  BY <1>1, <1>4, <1>5
<1>7. At(q, P) \in Seq(T) /\ Len(At(q, P)) = Cardinality(P)
  BY <1>3, <1>6
<1> QED
  BY <1>4, <1>5, <1>7

\* An element of a set of numbers is at the place that counts those up to it.
LEMMA NthIsOf ==
  ASSUME NEW P \in SUBSET Nat, IsFiniteSet(P), NEW i \in P
  PROVE  LET n == Cardinality({j \in P : j <= i}) IN n \in 1..Cardinality(P) /\ Nth(P, n) = i
<1> DEFINE Upto(k) == {j \in P : j <= k}
           n == Cardinality(Upto(i))
<1>0. \A k \in P : k \in Nat
  OBVIOUS
<1>1. \A k \in P : IsFiniteSet(Upto(k)) /\ Cardinality(Upto(k)) <= Cardinality(P)
  BY FS_Subset
<1>2. IsFiniteSet(Upto(i)) /\ i \in Upto(i)
  BY <1>0, <1>1
<1>3. n \in Nat /\ n # 0 /\ n <= Cardinality(P) /\ Cardinality(P) \in Nat
  <2>1. n \in Nat /\ Cardinality(P) \in Nat
    BY <1>2, FS_CardinalityType
  <2>2. n # 0
    <3> HIDE DEF Upto
    <3> QED
      BY <1>2, FS_EmptySet
  <2> QED
    BY <1>1, <2>1, <2>2
<1>4. ASSUME NEW k \in P, Cardinality(Upto(k)) = n PROVE k = i
  <2>1. \A a, b \in P : a < b => Cardinality(Upto(a)) # Cardinality(Upto(b))
    <3> SUFFICES ASSUME NEW a \in P, NEW b \in P, a < b,
                        Cardinality(Upto(a)) = Cardinality(Upto(b))
                 PROVE  FALSE
      OBVIOUS
    <3>1. a \in Nat /\ b \in Nat
      BY <1>0
    <3>2. Upto(a) \subseteq Upto(b)
      <4>1. \A j \in P : j <= a => j <= b
        BY <1>0, <3>1
      <4> QED
        BY <4>1
    <3>3. IsFiniteSet(Upto(b))
      BY <1>1
    <3>4. b \in Upto(b) /\ b \notin Upto(a)
      BY <3>1
    <3> HIDE DEF Upto
    <3>5. Upto(a) = Upto(b)
      BY <3>2, <3>3, FS_Subset
    <3> QED
      BY <3>4, <3>5
  <2>2. k \in Nat /\ i \in Nat
    BY <1>0
  <2>3. k < i \/ k = i \/ i < k
    BY <2>2
  <2> HIDE DEF Upto
  <2> QED
    BY <1>4, <2>1, <2>3 DEF n
<1>5. Nth(P, n) = CHOOSE k \in P : Cardinality(Upto(k)) = n
  BY DEF Nth
<1>6. Nth(P, n) \in P /\ Cardinality(Upto(Nth(P, n))) = n
  <2> HIDE DEF Upto
  <2> QED
    BY <1>5 DEF n
<1> HIDE DEF Upto, n
<1>7. n \in 1..Cardinality(P)
  BY <1>3
<1>8. Nth(P, n) = i
  BY <1>4, <1>6
<1> QED
  BY <1>7, <1>8 DEF n, Upto

\* Nth counts upwards.
LEMMA NthOrder ==
  ASSUME NEW P \in SUBSET Nat, IsFiniteSet(P),
         NEW n \in 1..Cardinality(P), NEW m \in 1..Cardinality(P), n < m
  PROVE  Nth(P, n) < Nth(P, m)
<1> DEFINE Upto(k) == {j \in P : j <= k}
           a == Nth(P, n)
           b == Nth(P, m)
<1>1. a \in P /\ Cardinality(Upto(a)) = n
  BY NthIs
<1>2. b \in P /\ Cardinality(Upto(b)) = m
  BY NthIs
<1>3. a \in Nat /\ b \in Nat /\ n \in Nat /\ m \in Nat
  <2>1. Cardinality(P) \in Nat
    BY FS_CardinalityType
  <2>2. n \in Nat /\ m \in Nat
    BY <2>1
  <2> QED
    BY <1>1, <1>2, <2>2
<1> HIDE DEF a, b
<1>4. b <= a => Upto(b) \subseteq Upto(a)
  <2>1. ASSUME b <= a PROVE \A j \in P : j <= b => j <= a
    <3>1. \A j \in P : j \in Nat
      OBVIOUS
    <3> QED
      BY <1>3, <2>1, <3>1
  <2> QED
    BY <2>1
<1>5. IsFiniteSet(Upto(a))
  BY FS_Subset
<1>6. Upto(b) \subseteq Upto(a) => m <= n
  <2> HIDE DEF Upto
  <2> QED
    BY <1>1, <1>2, <1>5, FS_Subset
<1>7. ~(b <= a)
  BY <1>3, <1>4, <1>6
<1> QED
  BY <1>3, <1>7 DEF a, b

\* At leaves out nothing, and keeps the order.
LEMMA AtHas ==
  ASSUME NEW T, NEW q \in Seq(T), NEW P \in SUBSET (DOMAIN q)
  PROVE  /\ \A i \in P : \E n \in 1..Len(At(q, P)) : At(q, P)[n] = q[i]
         /\ \A n, m \in 1..Len(At(q, P)) : n < m =>
              \E i, j \in P : i < j /\ At(q, P)[n] = q[i] /\ At(q, P)[m] = q[j]
<1>1. DOMAIN q = 1..Len(q) /\ Len(q) \in Nat
  BY LenProperties
<1>2. IsFiniteSet(P) /\ P \in SUBSET Nat
  <2>1. IsFiniteSet(1..Len(q))
    <3>1. 1 \in Int /\ Len(q) \in Int
      BY <1>1
    <3> QED
      BY <3>1, FS_Interval
  <2> QED
    BY <1>1, <2>1, FS_Subset
<1>3. At(q, P) = [n \in 1..Cardinality(P) |-> q[Nth(P, n)]] /\ Len(At(q, P)) = Cardinality(P)
  BY AtIs DEF At
<1>4. ASSUME NEW i \in P PROVE \E n \in 1..Len(At(q, P)) : At(q, P)[n] = q[i]
  <2>1. PICK n \in 1..Cardinality(P) : Nth(P, n) = i
    BY <1>2, NthIsOf
  <2> QED
    BY <1>3, <2>1
<1>5. ASSUME NEW n \in 1..Len(At(q, P)), NEW m \in 1..Len(At(q, P)), n < m
      PROVE  \E i, j \in P : i < j /\ At(q, P)[n] = q[i] /\ At(q, P)[m] = q[j]
  <2>1. n \in 1..Cardinality(P) /\ m \in 1..Cardinality(P)
    BY <1>3
  <2>2. Nth(P, n) \in P
    BY <1>2, <2>1, NthIs
  <2>3. Nth(P, m) \in P
    BY <1>2, <2>1, NthIs
  <2>4. Nth(P, n) < Nth(P, m)
    BY <1>2, <1>5, <2>1, NthOrder
  <2>5. At(q, P)[n] = q[Nth(P, n)] /\ At(q, P)[m] = q[Nth(P, m)]
    BY <1>3, <2>1
  <2> QED
    BY <2>2, <2>3, <2>4, <2>5
<1> QED
  BY <1>4, <1>5

\* The elements At takes are those at the places.
LEMMA AtSet ==
  ASSUME NEW T, NEW q \in Seq(T), NEW P \in SUBSET (DOMAIN q)
  PROVE  \A x : x \in ToSet(At(q, P)) <=> \E i \in P : x = q[i]
<1>1. DOMAIN At(q, P) = 1..Len(At(q, P))
  BY AtIs, LenProperties
<1>2. ASSUME NEW x \in ToSet(At(q, P)) PROVE \E i \in P : x = q[i]
  <2>1. PICK n \in 1..Len(At(q, P)) : x = At(q, P)[n]
    BY <1>1 DEF ToSet
  <2>2. \A k \in 1..Len(At(q, P)) : \E i \in P : At(q, P)[k] = q[i]
    BY AtIs
  <2> QED
    BY <2>1, <2>2
<1>3. ASSUME NEW i \in P PROVE q[i] \in ToSet(At(q, P))
  <2>1. \A k \in P : \E n \in 1..Len(At(q, P)) : At(q, P)[n] = q[k]
    BY AtHas
  <2>2. PICK n \in 1..Len(At(q, P)) : At(q, P)[n] = q[i]
    BY <2>1
  <2> QED
    BY <1>1, <2>2 DEF ToSet
<1> QED
  BY <1>2, <1>3

-----------------------------------------------------------------------------
(* Cells and streams of cells. *)

\* A cell, and a stream, as they are in a cache: positions of sequences of the stream
\* only.
CellOK(x, t) == x \in Cell /\ (\A s \in x.seqs : StreamOf(s) = t) /\ (x.pos = -1 <=> x.seqs = {})

StreamOK(k, size, t) == k \in Stream(size) /\ \A i \in 0..size - 1 : CellOK(k.cell[i], t)

\* CacheOK, stream by stream.
LEMMA CacheIs ==
  ASSUME NEW size, NEW c
  PROVE  CacheOK(c, size) <=> /\ c \in [Streams -> Stream(size)]
                              /\ \A t \in Streams : StreamOK(c[t], size, t)
<1>1. ASSUME c \in [Streams -> Stream(size)], NEW t \in Streams, NEW i \in 0..size - 1
      PROVE  c[t] \in Stream(size) /\ c[t].cell[i] \in Cell
  BY <1>1 DEF Stream
<1> QED
  BY <1>1 DEF CacheOK, StreamOK, CellOK

\* The sizes are numbers.
LEMMA Sizes == SizeBase \in Nat \ {0} /\ SizeSwa \in Nat \ {0}
<1>1. /\ SizeBase \in Nat \ {0} /\ Window \in Nat \ {0} /\ NUbatch \in Nat \ {0}
      /\ NSeqs \in Nat \ {0}
  BY SizesAssumption
<1>2. Window * (IF unified THEN NSeqs ELSE 1) \in Nat
  BY <1>1
<1> DEFINE size == Window * (IF unified THEN NSeqs ELSE 1) + NUbatch
<1>3. size \in Nat \ {0}
  BY <1>1, <1>2
<1>4. Min({SizeBase, size}) \in {SizeBase, size}
  <2> HIDE DEF size
  <2>1. {SizeBase, size} \in SUBSET Nat /\ {SizeBase, size} # {}
    BY <1>1, <1>3
  <2> QED
    BY <2>1, LeastIs
<1> QED
  BY <1>1, <1>3, <1>4 DEF SizeSwa

\* An empty cell is one of every stream.
LEMMA EmptyOK == ASSUME NEW t PROVE CellOK(EmptyCell, t)
<1>1. MaxPos \in Nat
  BY SizesAssumption
<1> QED
  BY <1>1 DEF CellOK, EmptyCell, Cell

\* The cells of a stream.
LEMMA CellsAre ==
  ASSUME NEW size, NEW k \in Stream(size)
  PROVE  /\ Cells(k) = 0..size - 1 /\ k.head \in 0..size
         /\ k = [cell |-> k.cell, head |-> k.head]
         /\ k.cell \in [0..size - 1 -> Cell]
BY DEF Stream, Cells

\* r is a stream in which some cells of k have become new.
Became(r, k, new, size) ==
  \A i \in 0..size - 1 : r.cell[i] = IF i \in DOMAIN new THEN new[i] ELSE k.cell[i]

\* Change puts the new cells in and leaves the others and the head.
LEMMA Changed ==
  ASSUME NEW size, NEW t, NEW k, StreamOK(k, size, t), NEW new,
         DOMAIN new \subseteq Cells(k), \A i \in DOMAIN new : CellOK(new[i], t)
  PROVE  /\ StreamOK(Change(k, new), size, t) /\ Became(Change(k, new), k, new, size)
         /\ Change(k, new).head = k.head
<1>1. k \in Stream(size) /\ Cells(k) = 0..size - 1 /\ k.cell \in [0..size - 1 -> Cell]
  BY CellsAre DEF StreamOK
<1> DEFINE f == [i \in 0..size - 1 |-> IF i \in DOMAIN new THEN new[i] ELSE k.cell[i]]
<1>2. Change(k, new) = [cell |-> f, head |-> k.head]
  <2>1. Change(k, new) = [k EXCEPT !.cell = f]
    BY <1>1 DEF Change
  <2> HIDE DEF f
  <2> QED
    BY <1>1, <2>1 DEF Stream
<1>3. \A i \in 0..size - 1 : CellOK(f[i], t)
  BY <1>1 DEF StreamOK
<1>4. \A i \in 0..size - 1 : f[i] \in Cell
  BY <1>3 DEF CellOK
<1>5. f \in [0..size - 1 -> Cell]
  <2>1. f = [i \in 0..size - 1 |-> f[i]]
    OBVIOUS
  <2> HIDE DEF f
  <2> QED
    BY <1>4, <2>1
<1>6. Became(Change(k, new), k, new, size)
  BY <1>2 DEF Became
<1> HIDE DEF f
<1>7. Change(k, new) \in Stream(size) /\ Change(k, new).head = k.head
  BY <1>1, <1>2, <1>5 DEF Stream
<1> QED
  BY <1>2, <1>3, <1>6, <1>7 DEF StreamOK

\* The head goes to a cell that was freed.
LEMMA HeadIs ==
  ASSUME NEW size \in Nat, NEW t, NEW k \in Stream(size), NEW r, StreamOK(r, size, t)
  PROVE  StreamOK(HeadToFreed(k, r), size, t) /\ HeadToFreed(k, r).cell = r.cell
<1>1. r \in Stream(size) /\ r.head \in 0..size /\ Cells(k) = 0..size - 1
  BY CellsAre DEF StreamOK
<1> DEFINE H == {r.head} \cup Freed(k, r)
<1>2. H \in SUBSET Nat /\ H # {} /\ H \subseteq 0..size
  BY <1>1 DEF Freed
<1>3. Min(H) \in 0..size
  <2> HIDE DEF H
  <2> QED
    BY <1>2, LeastIs
<1>4. HeadToFreed(k, r) = [cell |-> r.cell, head |-> Min(H)]
  BY <1>1 DEF HeadToFreed, Stream
<1>5. HeadToFreed(k, r) \in Stream(size) /\ HeadToFreed(k, r).cell = r.cell
  <2> HIDE DEF H
  <2> QED
    BY <1>1, <1>3, <1>4 DEF Stream
<1> QED
  BY <1>5 DEF StreamOK

\* So does a change that moves the head to a freed cell.
LEMMA ChangedAndFreed ==
  ASSUME NEW size \in Nat, NEW t, NEW k, StreamOK(k, size, t), NEW new,
         DOMAIN new \subseteq Cells(k), \A i \in DOMAIN new : CellOK(new[i], t)
  PROVE  /\ StreamOK(HeadToFreed(k, Change(k, new)), size, t)
         /\ Became(HeadToFreed(k, Change(k, new)), k, new, size)
<1> DEFINE r == Change(k, new)
<1>1. StreamOK(r, size, t) /\ Became(r, k, new, size)
  BY Changed
<1> HIDE DEF r
<1>2. k \in Stream(size)
  BY DEF StreamOK
<1>3. StreamOK(HeadToFreed(k, r), size, t) /\ HeadToFreed(k, r).cell = r.cell
  BY <1>1, <1>2, HeadIs
<1>4. Became(HeadToFreed(k, r), k, new, size)
  BY <1>1, <1>3 DEF Became
<1> QED
  BY <1>3, <1>4 DEF r

-----------------------------------------------------------------------------
(* What the operations do to one cell. *)

\* What each edit makes of one cell.
Held(x, s, p0, p1) == x.pos >= p0 /\ x.pos < p1 /\ ~IsEmpty(x) /\ s \in x.seqs

CellRm(x, s, p0, p1)    == IF Held(x, s, p0, p1) THEN Without(x, {s}) ELSE x
CellAnyRm(x, p0, p1)    == IF x.pos >= p0 /\ x.pos < p1 /\ ~IsEmpty(x) THEN EmptyCell ELSE x
CellCp(x, s, t, p0, p1) == IF Held(x, s, p0, p1) THEN [x EXCEPT !.seqs = @ \cup {t}] ELSE x
CellAdd(x, s, p0, p1, d) == IF Held(x, s, p0, p1) THEN Moved(x, d) ELSE x
CellDiv(x, s, p0, p1, d) == IF Held(x, s, p0, p1) THEN [x EXCEPT !.pos = @ \div d] ELSE x

\* The cells of a sequence in a range.
LEMMA HoldingIs ==
  ASSUME NEW k, NEW s, NEW p0, NEW p1
  PROVE  /\ Holding(k, s, p0, p1) \subseteq Cells(k)
         /\ \A i \in Cells(k) : i \in Holding(k, s, p0, p1) <=> Held(k.cell[i], s, p0, p1)
BY DEF Holding, InRange, Held

\* Taking sequences out of a cell; it keeps its position while one is left.
LEMMA WithoutOK ==
  ASSUME NEW t, NEW x, CellOK(x, t), NEW S
  PROVE  /\ CellOK(Without(x, S), t) /\ Without(x, S).seqs = x.seqs \ S
         /\ Without(x, S).seqs # {} => Without(x, S).pos = x.pos
<1>1. x \in Cell /\ x.pos \in -1..MaxPos /\ x.seqs \in SUBSET Seqs
  BY DEF CellOK, Cell
<1>2. CASE x.seqs \subseteq S
  <2>1. Without(x, S) = EmptyCell /\ EmptyCell.seqs = {} /\ x.seqs \ S = {}
    BY <1>2 DEF Without, EmptyCell
  <2> QED
    BY <2>1, EmptyOK
<1>3. CASE ~(x.seqs \subseteq S)
  <2>1. Without(x, S) = [pos |-> x.pos, seqs |-> x.seqs \ S]
    BY <1>1, <1>3 DEF Without, Cell
  <2>2. x.seqs \ S # {} /\ x.pos # -1
    BY <1>3 DEF CellOK
  <2> QED
    BY <1>1, <2>1, <2>2 DEF CellOK, Cell
<1> QED
  BY <1>2, <1>3

\* seq_rm works on each cell by itself.
LEMMA SeqRmIs ==
  ASSUME NEW size \in Nat, NEW t, NEW k, StreamOK(k, size, t), NEW s, NEW p0, NEW p1
  PROVE  /\ StreamOK(SeqRm(k, s, p0, p1), size, t)
         /\ \A i \in 0..size - 1 : SeqRm(k, s, p0, p1).cell[i] = CellRm(k.cell[i], s, p0, p1)
<1> DEFINE new == [i \in Holding(k, s, p0, p1) |-> Without(k.cell[i], {s})]
<1>1. k \in Stream(size) /\ Cells(k) = 0..size - 1
  BY CellsAre DEF StreamOK
<1>2. DOMAIN new \subseteq Cells(k)
  BY HoldingIs
<1>3. \A i \in DOMAIN new : CellOK(new[i], t)
  BY <1>1, <1>2, WithoutOK DEF StreamOK
<1>4. \A i \in 0..size - 1 :
        (IF i \in DOMAIN new THEN new[i] ELSE k.cell[i]) = CellRm(k.cell[i], s, p0, p1)
  BY <1>1, HoldingIs DEF CellRm
<1>5. SeqRm(k, s, p0, p1) = HeadToFreed(k, Change(k, new))
  BY DEF SeqRm
<1> HIDE DEF new
<1> QED
  BY <1>2, <1>3, <1>4, <1>5, ChangedAndFreed DEF Became

\* So does the removal from all sequences.
LEMMA AnyRmIs ==
  ASSUME NEW size \in Nat, NEW t, NEW k, StreamOK(k, size, t), NEW p0, NEW p1
  PROVE  /\ StreamOK(AnyRm(k, p0, p1), size, t)
         /\ \A i \in 0..size - 1 : AnyRm(k, p0, p1).cell[i] = CellAnyRm(k.cell[i], p0, p1)
<1> DEFINE new == [i \in InRange(k, p0, p1) |-> EmptyCell]
<1>1. k \in Stream(size) /\ Cells(k) = 0..size - 1
  BY CellsAre DEF StreamOK
<1>2. DOMAIN new \subseteq Cells(k)
  BY DEF InRange
<1>3. \A i \in DOMAIN new : CellOK(new[i], t)
  BY EmptyOK
<1>4. \A i \in 0..size - 1 :
        (IF i \in DOMAIN new THEN new[i] ELSE k.cell[i]) = CellAnyRm(k.cell[i], p0, p1)
  BY <1>1 DEF CellAnyRm, InRange
<1>5. AnyRm(k, p0, p1) = HeadToFreed(k, Change(k, new))
  BY DEF AnyRm
<1> HIDE DEF new
<1> QED
  BY <1>2, <1>3, <1>4, <1>5, ChangedAndFreed DEF Became

\* So does seq_cp within a stream.
LEMMA SeqCpIs ==
  ASSUME NEW size \in Nat, NEW u, NEW k, StreamOK(k, size, u), NEW s, NEW t \in Seqs,
         StreamOf(t) = u, NEW p0, NEW p1
  PROVE  /\ StreamOK(SeqCp(k, s, t, p0, p1), size, u)
         /\ \A i \in 0..size - 1 : SeqCp(k, s, t, p0, p1).cell[i] = CellCp(k.cell[i], s, t, p0, p1)
<1> DEFINE new == [i \in Holding(k, s, p0, p1) |-> [k.cell[i] EXCEPT !.seqs = @ \cup {t}]]
<1>1. k \in Stream(size) /\ Cells(k) = 0..size - 1
  BY CellsAre DEF StreamOK
<1>2. DOMAIN new \subseteq Cells(k)
  BY HoldingIs
<1>3. ASSUME NEW i \in DOMAIN new PROVE CellOK(new[i], u)
  <2>1. CellOK(k.cell[i], u) /\ i \in Cells(k) /\ Held(k.cell[i], s, p0, p1)
    BY <1>1, <1>2, HoldingIs DEF StreamOK
  <2> DEFINE x == k.cell[i]
  <2>2. new[i] = [x EXCEPT !.seqs = @ \cup {t}]
    OBVIOUS
  <2> HIDE DEF x, new
  <2>3. x \in Cell /\ x.pos # -1 /\ CellOK(x, u)
    BY <2>1 DEF x, Held, CellOK, IsEmpty
  <2>4. new[i] = [pos |-> x.pos, seqs |-> x.seqs \cup {t}]
    BY <2>2, <2>3 DEF Cell
  <2> QED
    BY <2>3, <2>4 DEF CellOK, Cell
<1>4. \A i \in 0..size - 1 :
        (IF i \in DOMAIN new THEN new[i] ELSE k.cell[i]) = CellCp(k.cell[i], s, t, p0, p1)
  BY <1>1, HoldingIs DEF CellCp
<1>5. SeqCp(k, s, t, p0, p1) = Change(k, new)
  BY DEF SeqCp
<1> HIDE DEF new
<1> QED
  BY <1>1, <1>2, <1>3, <1>4, <1>5, Changed DEF Became

\* A cell that is kept for one sequence is one of its stream.
LEMMA OnlyOK ==
  ASSUME NEW v, NEW x, CellOK(x, v), NEW s, NEW t \in Seqs
  PROVE  CellOK(Only(x, s, t), StreamOf(t))
<1>1. CASE s \in x.seqs
  <2>1. x \in Cell /\ x.pos # -1
    BY <1>1 DEF CellOK
  <2>2. Only(x, s, t) = [pos |-> x.pos, seqs |-> {t}]
    BY <1>1, <2>1 DEF Only, Cell
  <2> QED
    BY <2>1, <2>2 DEF CellOK, Cell
<1>2. CASE s \notin x.seqs
  BY <1>2, EmptyOK DEF Only
<1> QED
  BY <1>1, <1>2

\* So does seq_keep.
LEMMA SeqKeepIs ==
  ASSUME NEW size \in Nat, NEW k, NEW s \in Seqs, StreamOK(k, size, StreamOf(s))
  PROVE  /\ StreamOK(SeqKeep(k, s), size, StreamOf(s))
         /\ \A i \in 0..size - 1 : SeqKeep(k, s).cell[i] = Only(k.cell[i], s, s)
<1> DEFINE new == [i \in Cells(k) |-> Only(k.cell[i], s, s)]
<1>1. Cells(k) = 0..size - 1
  BY CellsAre DEF StreamOK
<1>2. DOMAIN new \subseteq Cells(k)
  OBVIOUS
<1>3. \A i \in DOMAIN new : CellOK(new[i], StreamOf(s))
  BY <1>1, OnlyOK DEF StreamOK
<1>4. \A i \in 0..size - 1 : (IF i \in DOMAIN new THEN new[i] ELSE k.cell[i]) = Only(k.cell[i], s, s)
  BY <1>1
<1>5. SeqKeep(k, s) = HeadToFreed(k, Change(k, new))
  BY DEF SeqKeep
<1> HIDE DEF new
<1> QED
  BY <1>2, <1>3, <1>4, <1>5, ChangedAndFreed DEF Became

\* Whatever stream the cells were in, they are for the stream of t.
LEMMA CopiedIs ==
  ASSUME NEW size \in Nat, NEW u, NEW k, StreamOK(k, size, u), NEW s, NEW t \in Seqs
  PROVE  /\ StreamOK(Copied(k, s, t), size, StreamOf(t))
         /\ \A i \in 0..size - 1 : Copied(k, s, t).cell[i] = Only(k.cell[i], s, t)
<1> DEFINE f == [i \in 0..size - 1 |-> Only(k.cell[i], s, t)]
           new == [i \in Cells(k) |-> Only(k.cell[i], s, t)]
<1>1. k \in Stream(size) /\ Cells(k) = 0..size - 1 /\ DOMAIN k.cell = 0..size - 1
  BY CellsAre DEF StreamOK, Cells
<1>2. Copied(k, s, t) = [cell |-> f, head |-> k.head]
  <2>1. \A i \in 0..size - 1 : i \in DOMAIN new /\ new[i] = f[i]
    BY <1>1
  <2>2. Copied(k, s, t) = Change(k, new)
    BY DEF Copied
  <2> HIDE DEF new, f
  <2>3. [i \in 0..size - 1 |-> IF i \in DOMAIN new THEN new[i] ELSE k.cell[i]]
          = [i \in 0..size - 1 |-> f[i]]
    BY <2>1
  <2>4. [i \in 0..size - 1 |-> f[i]] = f
    BY DEF f
  <2>5. Change(k, new) = [k EXCEPT !.cell = f]
    BY <1>1, <2>3, <2>4 DEF Change
  <2> QED
    BY <1>1, <2>2, <2>5 DEF Stream
<1>3. \A i \in 0..size - 1 : CellOK(f[i], StreamOf(t))
  BY OnlyOK DEF StreamOK
<1>4. f \in [0..size - 1 -> Cell]
  <2>1. f = [i \in 0..size - 1 |-> f[i]]
    OBVIOUS
  <2>2. \A i \in 0..size - 1 : f[i] \in Cell
    BY <1>3 DEF CellOK
  <2> HIDE DEF f
  <2> QED
    BY <2>1, <2>2
<1>5. \A i \in 0..size - 1 : f[i] = Only(k.cell[i], s, t)
  OBVIOUS
<1>6. k.head \in 0..size
  BY <1>1 DEF Stream
<1> HIDE DEF f
<1>7. Copied(k, s, t) \in Stream(size)
  BY <1>2, <1>4, <1>6 DEF Stream
<1> QED
  BY <1>2, <1>3, <1>5, <1>7 DEF StreamOK

\* A cell that is moved stays a cell.
LEMMA MovedOK ==
  ASSUME NEW t, NEW x, CellOK(x, t), NEW d \in Int, x.pos # -1, x.pos + d <= MaxPos
  PROVE  CellOK(Moved(x, d), t)
<1>1. x \in Cell /\ x.pos \in 0..MaxPos /\ x.pos + d \in Int /\ MaxPos \in Nat
  BY SizesAssumption DEF CellOK, Cell
<1>2. CASE x.pos + d < 0
  BY <1>2, EmptyOK DEF Moved
<1>3. CASE ~(x.pos + d < 0)
  <2>1. Moved(x, d) = [pos |-> x.pos + d, seqs |-> x.seqs]
    BY <1>1, <1>3 DEF Moved, Cell
  <2>2. x.pos + d \in 0..MaxPos
    BY <1>1, <1>3
  <2> QED
    BY <1>1, <2>1, <2>2 DEF CellOK, Cell
<1> QED
  BY <1>2, <1>3

\* So does seq_add.
LEMMA SeqAddIs ==
  ASSUME NEW size \in Nat, NEW t, NEW k, StreamOK(k, size, t), NEW s, NEW p0, NEW p1,
         NEW d \in Int, \A i \in 0..size - 1 : s \in k.cell[i].seqs => k.cell[i].pos + d <= MaxPos
  PROVE  /\ StreamOK(SeqAdd(k, s, p0, p1, d), size, t)
         /\ \A i \in 0..size - 1 : SeqAdd(k, s, p0, p1, d).cell[i] = CellAdd(k.cell[i], s, p0, p1, d)
<1> DEFINE new == [i \in Holding(k, s, p0, p1) |-> Moved(k.cell[i], d)]
           r == Change(k, new)
           F == Freed(k, r)
           h == IF F = {} THEN 0 ELSE Min(F)
<1>1. k \in Stream(size) /\ Cells(k) = 0..size - 1
  BY CellsAre DEF StreamOK
<1>2. DOMAIN new \subseteq Cells(k)
  BY HoldingIs
<1>3. ASSUME NEW i \in DOMAIN new PROVE CellOK(new[i], t)
  <2>1. i \in 0..size - 1 /\ CellOK(k.cell[i], t) /\ Held(k.cell[i], s, p0, p1)
    BY <1>1, <1>2, HoldingIs DEF StreamOK
  <2>2. k.cell[i].pos # -1 /\ k.cell[i].pos + d <= MaxPos
    BY <2>1 DEF Held, IsEmpty
  <2> QED
    BY <2>1, <2>2, MovedOK
<1>4. \A i \in 0..size - 1 :
        (IF i \in DOMAIN new THEN new[i] ELSE k.cell[i]) = CellAdd(k.cell[i], s, p0, p1, d)
  BY <1>1, HoldingIs DEF CellAdd
<1>5. SeqAdd(k, s, p0, p1, d) = [r EXCEPT !.head = h]
  BY DEF SeqAdd
<1> HIDE DEF new
<1>6. StreamOK(r, size, t) /\ Became(r, k, new, size)
  BY <1>2, <1>3, Changed
<1>7. F \subseteq 0..size - 1
  BY <1>1 DEF Freed
<1> HIDE DEF r, F
<1>8. h \in 0..size
  <2>1. CASE F = {}
    BY <2>1
  <2>2. CASE F # {}
    <3>1. F \in SUBSET Nat
      BY <1>7
    <3>2. Min(F) \in F
      BY <2>2, <3>1, LeastIs
    <3>3. h = Min(F)
      BY <2>2
    <3>4. Min(F) \in 0..size - 1
      BY <1>7, <3>2
    <3> HIDE DEF h
    <3>5. h \in 0..size - 1
      BY <3>3, <3>4
    <3> QED
      BY <3>5
  <2> QED
    BY <2>1, <2>2
<1> HIDE DEF h
<1>9. r \in Stream(size)
  BY <1>6 DEF StreamOK
<1>10. [r EXCEPT !.head = h] = [cell |-> r.cell, head |-> h]
  BY <1>9 DEF Stream
<1>11. StreamOK(SeqAdd(k, s, p0, p1, d), size, t) /\ SeqAdd(k, s, p0, p1, d).cell = r.cell
  BY <1>5, <1>6, <1>8, <1>9, <1>10 DEF StreamOK, Stream
<1> QED
  BY <1>4, <1>6, <1>11 DEF Became

\* So does seq_div.
LEMMA SeqDivIs ==
  ASSUME NEW size \in Nat, NEW t, NEW k, StreamOK(k, size, t), NEW s, NEW p0, NEW p1
  PROVE  /\ StreamOK(SeqDiv(k, s, p0, p1, 2), size, t)
         /\ \A i \in 0..size - 1 : SeqDiv(k, s, p0, p1, 2).cell[i] = CellDiv(k.cell[i], s, p0, p1, 2)
<1> DEFINE new == [i \in Holding(k, s, p0, p1) |-> [k.cell[i] EXCEPT !.pos = @ \div 2]]
<1>1. k \in Stream(size) /\ Cells(k) = 0..size - 1
  BY CellsAre DEF StreamOK
<1>2. DOMAIN new \subseteq Cells(k)
  BY HoldingIs
<1>3. ASSUME NEW i \in DOMAIN new PROVE CellOK(new[i], t)
  <2>1. CellOK(k.cell[i], t) /\ Held(k.cell[i], s, p0, p1)
    BY <1>1, <1>2, HoldingIs DEF StreamOK
  <2> DEFINE x == k.cell[i]
  <2>2. new[i] = [x EXCEPT !.pos = @ \div 2]
    OBVIOUS
  <2> HIDE DEF x, new
  <2>3. x \in Cell /\ x.pos # -1 /\ CellOK(x, t)
    BY <2>1 DEF x, Held, CellOK, IsEmpty
  <2>4. new[i] = [pos |-> x.pos \div 2, seqs |-> x.seqs]
    BY <2>2, <2>3 DEF Cell
  <2>5. x.pos \in 0..MaxPos /\ MaxPos \in Nat
    BY <2>3, SizesAssumption DEF Cell
  <2>6. x.pos \div 2 \in 0..MaxPos
    BY <2>5
  <2> QED
    BY <2>3, <2>4, <2>5, <2>6 DEF CellOK, Cell
<1>4. \A i \in 0..size - 1 :
        (IF i \in DOMAIN new THEN new[i] ELSE k.cell[i]) = CellDiv(k.cell[i], s, p0, p1, 2)
  BY <1>1, HoldingIs DEF CellDiv
<1>5. SeqDiv(k, s, p0, p1, 2) = Change(k, new)
  BY DEF SeqDiv
<1> HIDE DEF new
<1> QED
  BY <1>1, <1>2, <1>3, <1>4, <1>5, Changed DEF Became

-----------------------------------------------------------------------------
(* The cells of the window cache are covered. *)

\* A cell for the same position, for all the sequences.
Covers(x, y) == x.pos = y.pos /\ y.seqs \subseteq x.seqs

\* The cells of s in the stream k are covered by those in b.
Cov(s, b, k) ==
  \A i \in Cells(k) : s \in k.cell[i].seqs => \E j \in Cells(b) : Covers(b.cell[j], k.cell[i])

\* Two caches b and k are as they should be, and so are all sequences but those in E.
Good(b, k, E) ==
  /\ CacheOK(b, SizeBase) /\ CacheOK(k, SizeSwa)
  /\ \A s \in Seqs \ E : Cov(s, b[StreamOf(s)], k[StreamOf(s)])

\* A sequence has a stream.
LEMMA StreamType == \A s \in Seqs : StreamOf(s) \in Streams
BY DEF Streams

\* One stream is changed.
LEMMA OneStream ==
  ASSUME NEW b, NEW k, NEW E, Good(b, k, E), NEW t \in Streams,
         NEW b2, StreamOK(b2, SizeBase, t), NEW k2, StreamOK(k2, SizeSwa, t),
         NEW E2, E \subseteq E2, \A r \in Seqs \ E2 : StreamOf(r) = t => Cov(r, b2, k2)
  PROVE  Good([b EXCEPT ![t] = b2], [k EXCEPT ![t] = k2], E2)
<1> DEFINE bb == [b EXCEPT ![t] = b2]
           kk == [k EXCEPT ![t] = k2]
<1>1. /\ b \in [Streams -> Stream(SizeBase)] /\ \A u \in Streams : StreamOK(b[u], SizeBase, u)
      /\ k \in [Streams -> Stream(SizeSwa)] /\ \A u \in Streams : StreamOK(k[u], SizeSwa, u)
  BY CacheIs DEF Good
<1>2. b2 \in Stream(SizeBase) /\ k2 \in Stream(SizeSwa)
  BY DEF StreamOK
<1>3. bb \in [Streams -> Stream(SizeBase)] /\ kk \in [Streams -> Stream(SizeSwa)]
  BY <1>1, <1>2
<1>4. \A u \in Streams : bb[u] = (IF u = t THEN b2 ELSE b[u]) /\ kk[u] = (IF u = t THEN k2 ELSE k[u])
  BY <1>1
<1> HIDE DEF bb, kk
<1>5. \A u \in Streams : StreamOK(bb[u], SizeBase, u) /\ StreamOK(kk[u], SizeSwa, u)
  BY <1>1, <1>4
<1>6. CacheOK(bb, SizeBase) /\ CacheOK(kk, SizeSwa)
  BY <1>3, <1>5, CacheIs
<1>7. ASSUME NEW s \in Seqs \ E2 PROVE Cov(s, bb[StreamOf(s)], kk[StreamOf(s)])
  <2>1. StreamOf(s) \in Streams /\ Cov(s, b[StreamOf(s)], k[StreamOf(s)])
    BY StreamType DEF Good
  <2> QED
    BY <1>4, <2>1
<1> QED
  BY <1>6, <1>7 DEF Good, bb, kk

\* All streams are changed.
LEMMA AllStreams ==
  ASSUME NEW b, NEW k, NEW E,
         b = [t \in Streams |-> b[t]], k = [t \in Streams |-> k[t]],
         \A t \in Streams : StreamOK(b[t], SizeBase, t) /\ StreamOK(k[t], SizeSwa, t),
         \A s \in Seqs \ E : Cov(s, b[StreamOf(s)], k[StreamOf(s)])
  PROVE  Good(b, k, E)
<1>1. \A t \in Streams : b[t] \in Stream(SizeBase) /\ k[t] \in Stream(SizeSwa)
  BY DEF StreamOK
<1>2. b \in [Streams -> Stream(SizeBase)] /\ k \in [Streams -> Stream(SizeSwa)]
  BY <1>1
<1> QED
  BY <1>2, CacheIs DEF Good

\* What is covered stays covered if that is so cell by cell; a cell of r may be one that
\* was of another sequence.
LEMMA CovKept ==
  ASSUME NEW b, NEW k, NEW b2, NEW k2, NEW r,
         Cells(b2) = Cells(b), Cells(k2) = Cells(k),
         \A i \in Cells(k) : r \in k2.cell[i].seqs =>
           /\ \E q \in k.cell[i].seqs : Cov(q, b, k)
           /\ \A j \in Cells(b) : Covers(b.cell[j], k.cell[i]) =>
                Covers(b2.cell[j], k2.cell[i])
  PROVE  Cov(r, b2, k2)
BY DEF Cov

\* Removing the same range from two cells keeps that one covers the other.
LEMMA CoversRm ==
  ASSUME NEW t, NEW x, CellOK(x, t), NEW y, CellOK(y, t), Covers(x, y),
         NEW s, NEW p0, NEW p1, NEW r \in CellRm(y, s, p0, p1).seqs
  PROVE  r \in y.seqs /\ Covers(CellRm(x, s, p0, p1), CellRm(y, s, p0, p1))
<1>1. /\ Without(x, {s}).seqs = x.seqs \ {s} /\ Without(y, {s}).seqs = y.seqs \ {s}
      /\ Without(x, {s}).seqs # {} => Without(x, {s}).pos = x.pos
      /\ Without(y, {s}).seqs # {} => Without(y, {s}).pos = y.pos
  BY WithoutOK
<1>2. x.pos = y.pos /\ y.seqs \subseteq x.seqs
  BY DEF Covers
<1>3. CASE Held(y, s, p0, p1)
  <2>1. Held(x, s, p0, p1)
    BY <1>2, <1>3 DEF Held, IsEmpty
  <2>2. CellRm(x, s, p0, p1) = Without(x, {s}) /\ CellRm(y, s, p0, p1) = Without(y, {s})
    BY <1>3, <2>1 DEF CellRm
  <2> QED
    BY <1>1, <1>2, <2>2 DEF Covers
<1>4. CASE ~Held(y, s, p0, p1)
  <2>1. CellRm(y, s, p0, p1) = y
    BY <1>4 DEF CellRm
  <2>2. CASE ~Held(x, s, p0, p1)
    BY <2>1, <2>2 DEF CellRm
  <2>3. CASE Held(x, s, p0, p1)
    <3>1. s \notin y.seqs /\ CellRm(x, s, p0, p1) = Without(x, {s})
      BY <1>2, <1>4, <2>3 DEF Held, IsEmpty, CellRm
    <3> QED
      BY <1>1, <1>2, <2>1, <3>1 DEF Covers
  <2> QED
    BY <2>2, <2>3
<1> QED
  BY <1>3, <1>4

\* So does removing it from all sequences.
LEMMA CoversAnyRm ==
  ASSUME NEW x, NEW y, Covers(x, y),
         NEW p0, NEW p1, NEW r \in CellAnyRm(y, p0, p1).seqs
  PROVE  r \in y.seqs /\ Covers(CellAnyRm(x, p0, p1), CellAnyRm(y, p0, p1))
<1>1. EmptyCell.seqs = {}
  BY DEF EmptyCell
<1> QED
  BY <1>1 DEF CellAnyRm, Covers, IsEmpty

\* What a copy adds to a cell.
LEMMA CellCpSeqs ==
  ASSUME NEW t, NEW x, CellOK(x, t), NEW s, NEW u, NEW p0, NEW p1
  PROVE  /\ CellCp(x, s, u, p0, p1).pos = x.pos
         /\ CellCp(x, s, u, p0, p1).seqs = x.seqs \cup (IF Held(x, s, p0, p1) THEN {u} ELSE {})
BY DEF CellCp, CellOK, Cell

\* So does copying.
LEMMA CoversCp ==
  ASSUME NEW t, NEW x, CellOK(x, t), NEW y, CellOK(y, t), Covers(x, y),
         NEW s, NEW u, NEW p0, NEW p1
  PROVE  Covers(CellCp(x, s, u, p0, p1), CellCp(y, s, u, p0, p1))
BY CellCpSeqs DEF Covers, Held, IsEmpty

\* So does keeping one sequence.
LEMMA CoversOnly ==
  ASSUME NEW u, NEW x, CellOK(x, u), NEW y, CellOK(y, u), Covers(x, y),
         NEW s, NEW t, NEW r \in Only(y, s, t).seqs
  PROVE  r = t /\ s \in y.seqs /\ Covers(Only(x, s, t), Only(y, s, t))
<1>1. s \in y.seqs
  BY DEF Only, EmptyCell
<1>2. s \in x.seqs /\ x \in Cell /\ y \in Cell /\ x.pos = y.pos
  BY <1>1 DEF Covers, CellOK
<1>3. Only(x, s, t) = [pos |-> x.pos, seqs |-> {t}] /\ Only(y, s, t) = [pos |-> y.pos, seqs |-> {t}]
  BY <1>1, <1>2 DEF Only, Cell
<1> QED
  BY <1>1, <1>2, <1>3 DEF Covers

-----------------------------------------------------------------------------
(* The inductive invariant, and the edits. *)

CacheInv == KVTypeOK /\ (~unified => entangled = {}) /\ Good(base, swa, entangled)

\* What a step has to bring about.
After ==
  /\ Good(base', swa', entangled') /\ entangled' \in SUBSET Seqs
  /\ ~unified => entangled' = {}

\* What the invariant says of each stream and each sequence.
LEMMA Parts ==
  ASSUME CacheInv
  PROVE  /\ \A t \in Streams : StreamOK(base[t], SizeBase, t) /\ StreamOK(swa[t], SizeSwa, t)
         /\ \A t \in Streams : Cells(base[t]) = 0..SizeBase - 1 /\ Cells(swa[t]) = 0..SizeSwa - 1
         /\ base \in [Streams -> Stream(SizeBase)] /\ swa \in [Streams -> Stream(SizeSwa)]
         /\ \A s \in Seqs \ entangled : Cov(s, base[StreamOf(s)], swa[StreamOf(s)])
         /\ entangled \in SUBSET Seqs /\ (~unified => entangled = {})
         /\ SizeBase \in Nat /\ SizeSwa \in Nat
<1>1. /\ \A t \in Streams : StreamOK(base[t], SizeBase, t) /\ StreamOK(swa[t], SizeSwa, t)
      /\ base \in [Streams -> Stream(SizeBase)] /\ swa \in [Streams -> Stream(SizeSwa)]
  BY CacheIs DEF CacheInv, Good
<1>2. \A t \in Streams : Cells(base[t]) = 0..SizeBase - 1 /\ Cells(swa[t]) = 0..SizeSwa - 1
  BY <1>1, CellsAre
<1> QED
  BY <1>1, <1>2, Sizes DEF CacheInv, Good, KVTypeOK

\* A new cache is empty and well-formed.
LEMMA NewOK ==
  ASSUME NEW size \in Nat, NEW t
  PROVE  StreamOK(New(size), size, t) /\ \A i \in Cells(New(size)) : New(size).cell[i] = EmptyCell
<1>1. EmptyCell \in Cell /\ CellOK(EmptyCell, t)
  BY EmptyOK DEF CellOK
<1> QED
  BY <1>1 DEF StreamOK, New, Stream, Cells

\* In two new caches everything is covered.
LEMMA NewGood ==
  ASSUME NEW b, NEW k, b = [t \in Streams |-> New(SizeBase)], k = [t \in Streams |-> New(SizeSwa)]
  PROVE  Good(b, k, {})
<1>1. SizeBase \in Nat /\ SizeSwa \in Nat
  BY Sizes
<1>2. \A t \in Streams : StreamOK(b[t], SizeBase, t) /\ StreamOK(k[t], SizeSwa, t)
  BY <1>1, NewOK
<1>3. ASSUME NEW s \in Seqs \ {} PROVE Cov(s, b[StreamOf(s)], k[StreamOf(s)])
  <2>1. k[StreamOf(s)] = New(SizeSwa)
    BY StreamType
  <2>2. \A i \in Cells(New(SizeSwa)) : New(SizeSwa).cell[i].seqs = {}
    BY <1>1, NewOK DEF EmptyCell
  <2> QED
    BY <2>1, <2>2 DEF Cov
<1> QED
  BY <1>2, <1>3, AllStreams

\* Clearing keeps the invariant.
LEMMA ClearStep == ASSUME CacheInv, Clear PROVE After
BY NewGood DEF Clear, After

\* The cells of one stream are changed alike in both caches: those that are left to r were
\* for a sequence that is covered, and cells that cover them still do.
LEMMA EditOne ==
  ASSUME CacheInv, NEW t \in Streams, NEW b2, StreamOK(b2, SizeBase, t),
         NEW k2, StreamOK(k2, SizeSwa, t), NEW E \in SUBSET Seqs, entangled \subseteq E,
         \A i \in Cells(swa[t]) : \A r \in k2.cell[i].seqs \ E :
           /\ \E q \in swa[t].cell[i].seqs : q \notin entangled
           /\ \A j \in Cells(base[t]) : Covers(base[t].cell[j], swa[t].cell[i]) =>
                Covers(b2.cell[j], k2.cell[i])
  PROVE  Good([base EXCEPT ![t] = b2], [swa EXCEPT ![t] = k2], E)
<1> DEFINE b == base[t]
           k == swa[t]
<1>1. StreamOK(b, SizeBase, t) /\ StreamOK(k, SizeSwa, t)
  BY Parts
<1>2. Cells(b2) = Cells(b) /\ Cells(k2) = Cells(k)
  BY <1>1, CellsAre DEF StreamOK
<1>3. ASSUME NEW q \in Seqs \ entangled, StreamOf(q) = t PROVE Cov(q, b, k)
  BY <1>3, Parts
<1>4. ASSUME NEW r \in Seqs \ E, StreamOf(r) = t PROVE Cov(r, b2, k2)
  <2>1. ASSUME NEW i \in Cells(k), r \in k2.cell[i].seqs
        PROVE  /\ \E q \in k.cell[i].seqs : Cov(q, b, k)
               /\ \A j \in Cells(b) : Covers(b.cell[j], k.cell[i]) => Covers(b2.cell[j], k2.cell[i])
    <3>1. PICK q \in k.cell[i].seqs : q \notin entangled
      BY <2>1
    <3>2. CellOK(k.cell[i], t)
      BY <1>1, CellsAre DEF StreamOK
    <3>3. q \in Seqs /\ StreamOf(q) = t
      BY <3>1, <3>2 DEF CellOK, Cell
    <3>4. Cov(q, b, k)
      BY <1>3, <3>1, <3>3
    <3> QED
      BY <2>1, <3>1, <3>4
  <2> HIDE DEF b, k
  <2> QED
    BY <1>2, <2>1, CovKept
<1>5. Good(base, swa, entangled)
  BY DEF CacheInv
<1> QED
  BY <1>4, <1>5, OneStream

\* The streams of a sequence, for the lemmas about one edit.
LEMMA PartsOf ==
  ASSUME CacheInv, NEW t \in Streams
  PROVE  /\ StreamOK(base[t], SizeBase, t) /\ StreamOK(swa[t], SizeSwa, t)
         /\ Cells(base[t]) = 0..SizeBase - 1 /\ Cells(swa[t]) = 0..SizeSwa - 1
         /\ \A i \in Cells(base[t]) : CellOK(base[t].cell[i], t)
         /\ \A i \in Cells(swa[t]) : CellOK(swa[t].cell[i], t)
         /\ SizeBase \in Nat /\ SizeSwa \in Nat
<1>1. /\ StreamOK(base[t], SizeBase, t) /\ StreamOK(swa[t], SizeSwa, t)
      /\ Cells(base[t]) = 0..SizeBase - 1 /\ Cells(swa[t]) = 0..SizeSwa - 1
      /\ SizeBase \in Nat /\ SizeSwa \in Nat
  BY Parts
<1> QED
  BY <1>1 DEF StreamOK

\* Removing a range from a sequence keeps the invariant.
LEMMA RmStep ==
  ASSUME CacheInv, NEW s \in Seqs, NEW p0, NEW p1, Rm(s, p0, p1)
  PROVE  After
<1> DEFINE t  == StreamOf(s)
           b  == base[t]
           k  == swa[t]
           b2 == SeqRm(b, s, p0, p1)
           k2 == SeqRm(k, s, p0, p1)
<1>1. t \in Streams
  BY StreamType
<1>2. base' = [base EXCEPT ![t] = b2] /\ swa' = [swa EXCEPT ![t] = k2] /\ entangled' = entangled
  BY DEF Rm
<1> HIDE DEF t
<1>3. StreamOK(b2, SizeBase, t) /\ \A i \in Cells(b) : b2.cell[i] = CellRm(b.cell[i], s, p0, p1)
  BY <1>1, PartsOf, SeqRmIs
<1>4. StreamOK(k2, SizeSwa, t) /\ \A i \in Cells(k) : k2.cell[i] = CellRm(k.cell[i], s, p0, p1)
  BY <1>1, PartsOf, SeqRmIs
<1> HIDE DEF b2, k2
<1>5. ASSUME NEW i \in Cells(k), NEW r \in k2.cell[i].seqs \ entangled
      PROVE  /\ \E q \in k.cell[i].seqs : q \notin entangled
             /\ \A j \in Cells(b) : Covers(b.cell[j], k.cell[i]) => Covers(b2.cell[j], k2.cell[i])
  <2>1. r \in CellRm(k.cell[i], s, p0, p1).seqs /\ CellOK(k.cell[i], t)
    BY <1>1, <1>4, <1>5, PartsOf
  <2>2. r \in k.cell[i].seqs
    BY <2>1, WithoutOK DEF CellRm
  <2>3. ASSUME NEW j \in Cells(b), Covers(b.cell[j], k.cell[i])
        PROVE  Covers(b2.cell[j], k2.cell[i])
    <3>1. CellOK(b.cell[j], t)
      BY <1>1, PartsOf
    <3> QED
      BY <1>3, <1>4, <2>1, <2>3, <3>1, CoversRm
  <2> QED
    BY <2>2, <2>3
<1>6. entangled \in SUBSET Seqs
  BY Parts
<1>7. Good([base EXCEPT ![t] = b2], [swa EXCEPT ![t] = k2], entangled)
  BY <1>1, <1>3, <1>4, <1>5, <1>6, EditOne
<1> QED
  BY <1>2, <1>7, Parts DEF After

\* Copying within the unified stream keeps the invariant.
LEMMA CpSharedStep ==
  ASSUME CacheInv, NEW s \in Seqs, NEW u \in Seqs, NEW p0, NEW p1, CpShared(s, u, p0, p1)
  PROVE  After
<1> DEFINE t  == StreamOf(s)
           b  == base[t]
           k  == swa[t]
           b2 == SeqCp(b, s, u, p0, p1)
           k2 == SeqCp(k, s, u, p0, p1)
           E  == IF s \in entangled THEN entangled \cup {u} ELSE entangled
<1>1. t \in Streams /\ StreamOf(u) = t
  BY StreamType DEF CpShared
<1>2. base' = [base EXCEPT ![t] = b2] /\ swa' = [swa EXCEPT ![t] = k2] /\ entangled' = E
  BY DEF CpShared
<1> HIDE DEF t
<1>3. StreamOK(b2, SizeBase, t) /\ \A i \in Cells(b) : b2.cell[i] = CellCp(b.cell[i], s, u, p0, p1)
  BY <1>1, PartsOf, SeqCpIs
<1>4. StreamOK(k2, SizeSwa, t) /\ \A i \in Cells(k) : k2.cell[i] = CellCp(k.cell[i], s, u, p0, p1)
  BY <1>1, PartsOf, SeqCpIs
<1> HIDE DEF b2, k2
<1>5. ASSUME NEW i \in Cells(k), NEW r \in k2.cell[i].seqs \ E
      PROVE  /\ \E q \in k.cell[i].seqs : q \notin entangled
             /\ \A j \in Cells(b) : Covers(b.cell[j], k.cell[i]) => Covers(b2.cell[j], k2.cell[i])
  <2>1. CellOK(k.cell[i], t)
    BY <1>1, PartsOf
  <2>2. k2.cell[i].seqs = k.cell[i].seqs \cup (IF Held(k.cell[i], s, p0, p1) THEN {u} ELSE {})
    BY <1>4, <2>1, CellCpSeqs
  <2>3. r \in k.cell[i].seqs \/ (r = u /\ s \in k.cell[i].seqs)
    BY <2>2 DEF Held
  <2>4. \E q \in k.cell[i].seqs : q \notin entangled
    BY <1>5, <2>3
  <2>5. ASSUME NEW j \in Cells(b), Covers(b.cell[j], k.cell[i])
        PROVE  Covers(b2.cell[j], k2.cell[i])
    <3>1. CellOK(b.cell[j], t)
      BY <1>1, PartsOf
    <3> QED
      BY <1>3, <1>4, <2>1, <2>5, <3>1, CoversCp
  <2> QED
    BY <2>4, <2>5
<1>6. E \in SUBSET Seqs /\ entangled \subseteq E
  BY Parts
<1>7. Good([base EXCEPT ![t] = b2], [swa EXCEPT ![t] = k2], E)
  <2> HIDE DEF E, b, k
  <2> QED
    BY <1>1, <1>3, <1>4, <1>5, <1>6, EditOne DEF b, k
<1>8. ~unified => E = {}
  BY Parts
<1> QED
  BY <1>2, <1>6, <1>7, <1>8 DEF After

\* Keeping one sequence keeps the invariant.
LEMMA KeepStep ==
  ASSUME CacheInv, NEW s \in Seqs, Keep(s)
  PROVE  After
<1> DEFINE t  == StreamOf(s)
           b  == base[t]
           k  == swa[t]
           b2 == SeqKeep(b, s)
           k2 == SeqKeep(k, s)
<1>1. t \in Streams
  BY StreamType
<1>2. base' = [base EXCEPT ![t] = b2] /\ swa' = [swa EXCEPT ![t] = k2] /\ entangled' = entangled
  BY DEF Keep
<1>3. StreamOK(b2, SizeBase, t) /\ \A i \in Cells(b) : b2.cell[i] = Only(b.cell[i], s, s)
  BY <1>1, PartsOf, SeqKeepIs
<1>4. StreamOK(k2, SizeSwa, t) /\ \A i \in Cells(k) : k2.cell[i] = Only(k.cell[i], s, s)
  BY <1>1, PartsOf, SeqKeepIs
<1> HIDE DEF t, b2, k2
<1>5. ASSUME NEW i \in Cells(k), NEW r \in k2.cell[i].seqs \ entangled
      PROVE  /\ \E q \in k.cell[i].seqs : q \notin entangled
             /\ \A j \in Cells(b) : Covers(b.cell[j], k.cell[i]) => Covers(b2.cell[j], k2.cell[i])
  <2>1. r \in Only(k.cell[i], s, s).seqs /\ CellOK(k.cell[i], t)
    BY <1>1, <1>4, <1>5, PartsOf
  <2>2. r = s /\ s \in k.cell[i].seqs
    BY <2>1 DEF Only, EmptyCell
  <2>3. ASSUME NEW j \in Cells(b), Covers(b.cell[j], k.cell[i])
        PROVE  Covers(b2.cell[j], k2.cell[i])
    <3>1. CellOK(b.cell[j], t)
      BY <1>1, PartsOf
    <3> QED
      BY <1>3, <1>4, <2>1, <2>3, <3>1, CoversOnly
  <2> QED
    BY <2>2, <2>3
<1>6. entangled \in SUBSET Seqs
  BY Parts
<1>7. Good([base EXCEPT ![t] = b2], [swa EXCEPT ![t] = k2], entangled)
  BY <1>1, <1>3, <1>4, <1>5, <1>6, EditOne
<1> QED
  BY <1>2, <1>7, Parts DEF After

\* Streams are copied only where the sequences have each their own: nothing is entangled.
LEMMA CpStreamStep ==
  ASSUME CacheInv, NEW s \in Seqs, NEW u \in Seqs, CpStream(s, u)
  PROVE  After
<1> DEFINE v  == StreamOf(s)
           t  == StreamOf(u)
           b  == base[v]
           k  == swa[v]
           b2 == Copied(b, s, u)
           k2 == Copied(k, s, u)
<1>1. v \in Streams /\ t \in Streams
  BY StreamType
<1>2. base' = [base EXCEPT ![t] = b2] /\ swa' = [swa EXCEPT ![t] = k2] /\ entangled' = entangled
  BY DEF CpStream
<1>3. entangled = {}
  BY Parts DEF CpStream, StreamOf
<1>4. Cov(s, b, k)
  BY <1>3, Parts
<1>5. StreamOK(b2, SizeBase, t) /\ \A i \in Cells(b) : b2.cell[i] = Only(b.cell[i], s, u)
  BY <1>1, PartsOf, CopiedIs
<1>6. StreamOK(k2, SizeSwa, t) /\ \A i \in Cells(k) : k2.cell[i] = Only(k.cell[i], s, u)
  BY <1>1, PartsOf, CopiedIs
<1> HIDE DEF v, t, b2, k2
<1>7. ASSUME NEW r \in Seqs PROVE Cov(r, b2, k2)
  <2>1. ASSUME NEW i \in Cells(k), r \in k2.cell[i].seqs
        PROVE  /\ \E q \in k.cell[i].seqs : Cov(q, b, k)
               /\ \A j \in Cells(b) : Covers(b.cell[j], k.cell[i]) => Covers(b2.cell[j], k2.cell[i])
    <3>1. r \in Only(k.cell[i], s, u).seqs /\ CellOK(k.cell[i], v)
      BY <1>1, <1>6, <2>1, PartsOf
    <3>2. s \in k.cell[i].seqs
      BY <3>1 DEF Only, EmptyCell
    <3>3. ASSUME NEW j \in Cells(b), Covers(b.cell[j], k.cell[i])
          PROVE  Covers(b2.cell[j], k2.cell[i])
      <4>1. CellOK(b.cell[j], v)
        BY <1>1, PartsOf
      <4> QED
        BY <1>5, <1>6, <3>1, <3>3, <4>1, CoversOnly
    <3> QED
      BY <1>4, <3>2, <3>3
  <2>2. Cells(b2) = Cells(b) /\ Cells(k2) = Cells(k)
    BY <1>1, <1>5, <1>6, PartsOf, CellsAre DEF StreamOK
  <2> HIDE DEF b, k
  <2> QED
    BY <2>1, <2>2, CovKept
<1>8. Good(base, swa, entangled)
  BY DEF CacheInv
<1>9. Good([base EXCEPT ![t] = b2], [swa EXCEPT ![t] = k2], entangled)
  BY <1>1, <1>5, <1>6, <1>7, <1>8, OneStream
<1> QED
  BY <1>2, <1>9, Parts DEF After

\* Removing a range from all sequences keeps the invariant.
LEMMA RmAnyStep ==
  ASSUME CacheInv, NEW p0, NEW p1, RmAny(p0, p1)
  PROVE  After
<1> DEFINE bb == [t \in Streams |-> AnyRm(base[t], p0, p1)]
           kk == [t \in Streams |-> AnyRm(swa[t], p0, p1)]
<1>1. base' = bb /\ swa' = kk /\ entangled' = entangled
  BY DEF RmAny
<1>2. \A t \in Streams : bb[t] = AnyRm(base[t], p0, p1) /\ kk[t] = AnyRm(swa[t], p0, p1)
  OBVIOUS
<1>3. bb = [t \in Streams |-> bb[t]] /\ kk = [t \in Streams |-> kk[t]]
  OBVIOUS
<1> HIDE DEF bb, kk
<1>4. \A t \in Streams :
        /\ StreamOK(bb[t], SizeBase, t) /\ StreamOK(kk[t], SizeSwa, t)
        /\ \A i \in Cells(base[t]) : bb[t].cell[i] = CellAnyRm(base[t].cell[i], p0, p1)
        /\ \A i \in Cells(swa[t]) : kk[t].cell[i] = CellAnyRm(swa[t].cell[i], p0, p1)
  BY <1>2, Parts, AnyRmIs
<1>5. \A t \in Streams : Cells(bb[t]) = Cells(base[t]) /\ Cells(kk[t]) = Cells(swa[t])
  BY <1>4, Parts, CellsAre DEF StreamOK
<1>6. ASSUME NEW r \in Seqs \ entangled PROVE Cov(r, bb[StreamOf(r)], kk[StreamOf(r)])
  <2> DEFINE t == StreamOf(r)
             b == base[t]
             k == swa[t]
  <2>1. t \in Streams /\ Cov(r, b, k)
    BY Parts, StreamType
  <2>2. ASSUME NEW i \in Cells(k), r \in kk[t].cell[i].seqs
        PROVE  /\ \E q \in k.cell[i].seqs : Cov(q, b, k)
               /\ \A j \in Cells(b) : Covers(b.cell[j], k.cell[i]) =>
                    Covers(bb[t].cell[j], kk[t].cell[i])
    <3>1. r \in CellAnyRm(k.cell[i], p0, p1).seqs
      BY <1>4, <2>1, <2>2
    <3>2. r \in k.cell[i].seqs
      BY <3>1 DEF CellAnyRm, EmptyCell
    <3> QED
      BY <1>4, <2>1, <3>1, <3>2, CoversAnyRm
  <2> HIDE DEF t, b, k
  <2>3. Cells(bb[t]) = Cells(b) /\ Cells(kk[t]) = Cells(k)
    BY <1>5, <2>1 DEF b, k
  <2>4. Cov(r, bb[t], kk[t])
    BY <2>2, <2>3, CovKept
  <2> QED
    BY <2>4 DEF t
<1>7. Good(bb, kk, entangled)
  BY <1>3, <1>4, <1>6, AllStreams
<1> QED
  BY <1>1, <1>7, Parts DEF After

\* A sequence that is not entangled after a shift shares no cell of the base cache that
\* was moved.
LEMMA ShiftIs ==
  ASSUME CacheInv, NEW s \in Seqs, NEW p0, NEW p1, Shift(s, p0, p1)
  PROVE  /\ entangled' \in SUBSET Seqs /\ entangled \subseteq entangled'
         /\ ~unified => entangled' = {}
         /\ \A j \in Cells(base[StreamOf(s)]) :
              Held(base[StreamOf(s)].cell[j], s, p0, p1)
                => \/ base[StreamOf(s)].cell[j].seqs = {s}
                   \/ base[StreamOf(s)].cell[j].seqs \subseteq entangled'
<1> DEFINE t == StreamOf(s)
           b == base[t]
           moved == {S \in {b.cell[i].seqs : i \in Holding(b, s, p0, p1)} : S # {s}}
<1>1. t \in Streams
  BY StreamType
<1>2. entangled' = entangled \cup UNION moved
  BY DEF Shift
<1>3. \A i \in Holding(b, s, p0, p1) : i \in Cells(b) /\ Held(b.cell[i], s, p0, p1)
  BY HoldingIs
<1>4. \A i \in Cells(b) : CellOK(b.cell[i], t)
  BY <1>1, PartsOf
<1>5. UNION moved \subseteq Seqs
  <2>1. \A i \in Holding(b, s, p0, p1) : b.cell[i].seqs \subseteq Seqs
    BY <1>3, <1>4 DEF CellOK, Cell
  <2> QED
    BY <2>1
<1>6. ASSUME ~unified PROVE moved = {}
  <2> SUFFICES ASSUME NEW i \in Holding(b, s, p0, p1) PROVE b.cell[i].seqs = {s}
    OBVIOUS
  <2>1. CellOK(b.cell[i], t) /\ s \in b.cell[i].seqs
    BY <1>3, <1>4 DEF Held
  <2>2. \A r \in b.cell[i].seqs : r = s
    BY <1>6, <2>1 DEF CellOK, StreamOf
  <2> QED
    BY <2>1, <2>2
<1>7. ASSUME NEW j \in Cells(b), Held(b.cell[j], s, p0, p1), b.cell[j].seqs # {s}
      PROVE  b.cell[j].seqs \subseteq UNION moved
  <2>1. j \in Holding(b, s, p0, p1)
    BY <1>7, HoldingIs
  <2>2. b.cell[j].seqs \in moved
    BY <1>7, <2>1
  <2> QED
    BY <2>2
<1> HIDE DEF moved
<1> QED
  BY <1>2, <1>5, <1>6, <1>7, Parts

\* x and y are moved alike if x is not shared, or stays where it is.
LEMMA MovedAlike ==
  ASSUME NEW v, NEW x, CellOK(x, v), NEW y, CellOK(y, v), Covers(x, y), y.seqs # {},
         NEW s, NEW p0, NEW p1, Held(x, s, p0, p1) => x.seqs = {s}
  PROVE  /\ Held(x, s, p0, p1) <=> Held(y, s, p0, p1)
         /\ Held(x, s, p0, p1) => x = y
<1>1. x.pos = y.pos /\ y.seqs \subseteq x.seqs /\ x \in Cell /\ y \in Cell
  BY DEF Covers, CellOK
<1>2. CASE Held(x, s, p0, p1)
  <2>1. y.seqs = {s} /\ x.seqs = {s}
    BY <1>1, <1>2
  <2>2. x = [pos |-> x.pos, seqs |-> x.seqs] /\ y = [pos |-> y.pos, seqs |-> y.seqs]
    BY <1>1 DEF Cell
  <2>3. x = y
    BY <1>1, <2>1, <2>2
  <2> QED
    BY <1>2, <2>3
<1>3. CASE ~Held(x, s, p0, p1)
  BY <1>1, <1>3 DEF Held, IsEmpty
<1> QED
  BY <1>2, <1>3

\* Shifting a sequence keeps the invariant.
LEMMA AddStep ==
  ASSUME CacheInv, NEW s \in Seqs, NEW p0, NEW p1, NEW d \in Int, Add(s, p0, p1, d)
  PROVE  After
<1> DEFINE t  == StreamOf(s)
           b  == base[t]
           k  == swa[t]
           b2 == SeqAdd(b, s, p0, p1, d)
           k2 == SeqAdd(k, s, p0, p1, d)
<1>1. t \in Streams
  BY StreamType
<1>2. /\ base' = [base EXCEPT ![t] = b2] /\ swa' = [swa EXCEPT ![t] = k2]
      /\ Shift(s, p0, p1)
      /\ \A p \in PosOf(b, s) \cup PosOf(k, s) : p + d <= MaxPos
  BY DEF Add, BaseOf, SwaOf
<1>3. /\ entangled' \in SUBSET Seqs /\ entangled \subseteq entangled'
      /\ ~unified => entangled' = {}
      /\ \A j \in Cells(b) : Held(b.cell[j], s, p0, p1)
           => b.cell[j].seqs = {s} \/ b.cell[j].seqs \subseteq entangled'
  BY <1>2, ShiftIs
<1> HIDE DEF t
<1>4. StreamOK(b2, SizeBase, t) /\ \A i \in Cells(b) : b2.cell[i] = CellAdd(b.cell[i], s, p0, p1, d)
  <2>1. \A i \in 0..SizeBase - 1 : s \in b.cell[i].seqs => b.cell[i].pos + d <= MaxPos
    BY <1>1, <1>2, PartsOf DEF PosOf
  <2> HIDE DEF b
  <2> QED
    BY <1>1, <2>1, PartsOf, SeqAddIs DEF b
<1>5. StreamOK(k2, SizeSwa, t) /\ \A i \in Cells(k) : k2.cell[i] = CellAdd(k.cell[i], s, p0, p1, d)
  <2>1. \A i \in 0..SizeSwa - 1 : s \in k.cell[i].seqs => k.cell[i].pos + d <= MaxPos
    BY <1>1, <1>2, PartsOf DEF PosOf
  <2> HIDE DEF k
  <2> QED
    BY <1>1, <2>1, PartsOf, SeqAddIs DEF k
<1> HIDE DEF b2, k2
<1>6. PICK E \in SUBSET Seqs : E = entangled'
  BY <1>3
<1>7. ASSUME NEW i \in Cells(k), NEW r \in k2.cell[i].seqs \ E
      PROVE  /\ \E q \in k.cell[i].seqs : q \notin entangled
             /\ \A j \in Cells(b) : Covers(b.cell[j], k.cell[i]) => Covers(b2.cell[j], k2.cell[i])
  <2>1. r \in CellAdd(k.cell[i], s, p0, p1, d).seqs /\ CellOK(k.cell[i], t)
    BY <1>1, <1>5, <1>7, PartsOf
  <2>2. r \in k.cell[i].seqs
    BY <2>1 DEF CellAdd, Moved, EmptyCell, CellOK, Cell
  <2>3. ASSUME NEW j \in Cells(b), Covers(b.cell[j], k.cell[i])
        PROVE  Covers(b2.cell[j], k2.cell[i])
    <3>1. CellOK(b.cell[j], t)
      BY <1>1, PartsOf
    <3>2. Held(b.cell[j], s, p0, p1) => b.cell[j].seqs = {s}
      BY <1>3, <1>6, <1>7, <2>2, <2>3 DEF Covers
    <3>3. /\ Held(b.cell[j], s, p0, p1) <=> Held(k.cell[i], s, p0, p1)
          /\ Held(b.cell[j], s, p0, p1) => b.cell[j] = k.cell[i]
      BY <2>1, <2>2, <2>3, <3>1, <3>2, MovedAlike
    <3>4. b2.cell[j] = CellAdd(b.cell[j], s, p0, p1, d) /\ k2.cell[i] = CellAdd(k.cell[i], s, p0, p1, d)
      BY <1>4, <1>5
    <3> HIDE DEF b, k
    <3> QED
      BY <2>3, <3>3, <3>4 DEF CellAdd, Covers
  <2> QED
    BY <1>3, <1>6, <1>7, <2>2, <2>3
<1>8. Good([base EXCEPT ![t] = b2], [swa EXCEPT ![t] = k2], E)
  BY <1>1, <1>3, <1>4, <1>5, <1>6, <1>7, EditOne
<1> QED
  BY <1>2, <1>3, <1>6, <1>8 DEF After

\* Dividing the positions of a sequence keeps the invariant.
LEMMA DivStep ==
  ASSUME CacheInv, NEW s \in Seqs, NEW p0, NEW p1, Div(s, p0, p1)
  PROVE  After
<1> DEFINE t  == StreamOf(s)
           b  == base[t]
           k  == swa[t]
           b2 == SeqDiv(b, s, p0, p1, 2)
           k2 == SeqDiv(k, s, p0, p1, 2)
<1>1. t \in Streams
  BY StreamType
<1>2. /\ base' = [base EXCEPT ![t] = b2] /\ swa' = [swa EXCEPT ![t] = k2]
      /\ Shift(s, p0, p1)
  BY DEF Div
<1>3. /\ entangled' \in SUBSET Seqs /\ entangled \subseteq entangled'
      /\ ~unified => entangled' = {}
      /\ \A j \in Cells(b) : Held(b.cell[j], s, p0, p1)
           => b.cell[j].seqs = {s} \/ b.cell[j].seqs \subseteq entangled'
  BY <1>2, ShiftIs
<1> HIDE DEF t
<1>4. StreamOK(b2, SizeBase, t) /\ \A i \in Cells(b) : b2.cell[i] = CellDiv(b.cell[i], s, p0, p1, 2)
  BY <1>1, PartsOf, SeqDivIs
<1>5. StreamOK(k2, SizeSwa, t) /\ \A i \in Cells(k) : k2.cell[i] = CellDiv(k.cell[i], s, p0, p1, 2)
  BY <1>1, PartsOf, SeqDivIs
<1> HIDE DEF b2, k2
<1>6. PICK E \in SUBSET Seqs : E = entangled'
  BY <1>3
<1>7. ASSUME NEW i \in Cells(k), NEW r \in k2.cell[i].seqs \ E
      PROVE  /\ \E q \in k.cell[i].seqs : q \notin entangled
             /\ \A j \in Cells(b) : Covers(b.cell[j], k.cell[i]) => Covers(b2.cell[j], k2.cell[i])
  <2>1. r \in CellDiv(k.cell[i], s, p0, p1, 2).seqs /\ CellOK(k.cell[i], t)
    BY <1>1, <1>5, <1>7, PartsOf
  <2>2. r \in k.cell[i].seqs
    BY <2>1 DEF CellDiv, CellOK, Cell
  <2>3. ASSUME NEW j \in Cells(b), Covers(b.cell[j], k.cell[i])
        PROVE  Covers(b2.cell[j], k2.cell[i])
    <3>1. CellOK(b.cell[j], t)
      BY <1>1, PartsOf
    <3>2. Held(b.cell[j], s, p0, p1) => b.cell[j].seqs = {s}
      BY <1>3, <1>6, <1>7, <2>2, <2>3 DEF Covers
    <3>3. /\ Held(b.cell[j], s, p0, p1) <=> Held(k.cell[i], s, p0, p1)
          /\ Held(b.cell[j], s, p0, p1) => b.cell[j] = k.cell[i]
      BY <2>1, <2>2, <2>3, <3>1, <3>2, MovedAlike
    <3>4. b2.cell[j] = CellDiv(b.cell[j], s, p0, p1, 2) /\ k2.cell[i] = CellDiv(k.cell[i], s, p0, p1, 2)
      BY <1>4, <1>5
    <3> HIDE DEF b, k
    <3> QED
      BY <2>3, <3>3, <3>4 DEF CellDiv, Covers
  <2> QED
    BY <1>3, <1>6, <1>7, <2>2, <2>3
<1>8. Good([base EXCEPT ![t] = b2], [swa EXCEPT ![t] = k2], E)
  BY <1>1, <1>3, <1>4, <1>5, <1>6, <1>7, EditOne
<1> QED
  BY <1>2, <1>3, <1>6, <1>8 DEF After

-----------------------------------------------------------------------------
(* Slots, and what is put into them. *)

\* n different cells of a stream.
SlotOK(slot, n, size) ==
  /\ n \in Nat \ {0} /\ slot \in Seq(0..size - 1) /\ Len(slot) = n
  /\ \A i, j \in 1..n : slot[i] = slot[j] => i = j

\* A slot that is found has as many cells as asked for, which all can be used.
LEMMA FindSlotIs ==
  ASSUME NEW size \in Nat \ {0}, NEW t, NEW k, StreamOK(k, size, t), NEW n \in Nat, NEW w,
         FindSlot(k, n, w) # <<>>
  PROVE  /\ SlotOK(FindSlot(k, n, w), n, size)
         /\ \A i \in 1..n : CanUse(k, FindSlot(k, n, w)[i], w)
<1> DEFINE from == IF k.head > Used(k) + 2 * n THEN 0 ELSE k.head
           all == Cardinality(Cells(k))
           round == [j \in 0..all - 1 |-> IF from + j < all THEN from + j ELSE from + j - all]
           usable == {j \in 0..all - 1 : CanUse(k, round[j], w)}
           slot == [m \in 1..n |-> round[Nth(usable, m)]]
<1>1. k \in Stream(size) /\ Cells(k) = 0..size - 1 /\ k.head \in 0..size
  BY CellsAre DEF StreamOK
<1>2. all = size
  <2>1. 0 \in Int /\ size - 1 \in Int
    OBVIOUS
  <2>2. Cardinality(0..size - 1) = IF 0 > size - 1 THEN 0 ELSE (size - 1) - 0 + 1
    BY <2>1, FS_Interval
  <2> QED
    BY <1>1, <2>2
<1>3. FindSlot(k, n, w) = IF Cardinality(usable) < n THEN <<>> ELSE slot
  BY Zenon DEF FindSlot
<1>4. ~(Cardinality(usable) < n) /\ FindSlot(k, n, w) = slot
  BY <1>3
<1>5. from \in 0..size
  BY <1>1
<1> HIDE DEF from, all
<1>6. /\ \A j \in 0..size - 1 : round[j] \in 0..size - 1
      /\ \A i, j \in 0..size - 1 : round[i] = round[j] => i = j
  BY <1>2, <1>5
<1>7. IsFiniteSet(usable) /\ usable \in SUBSET Nat /\ usable \subseteq 0..size - 1
  <2>1. 0 \in Int /\ size - 1 \in Int
    OBVIOUS
  <2>2. IsFiniteSet(0..size - 1)
    BY <2>1, FS_Interval
  <2>3. usable \subseteq 0..size - 1
    BY <1>2
  <2> HIDE DEF usable
  <2>4. usable \in SUBSET (0..size - 1) /\ usable \in SUBSET Nat
    BY <2>3
  <2>5. IsFiniteSet(usable)
    BY <2>2, <2>4, FS_Subset
  <2> QED
    BY <2>3, <2>4, <2>5
<1>8. Cardinality(usable) \in Nat /\ \A m \in 1..n : m \in 1..Cardinality(usable)
  <2>1. Cardinality(usable) \in Nat
    BY <1>7, FS_CardinalityType
  <2> HIDE DEF usable
  <2> QED
    BY <1>4, <2>1
<1>9. \A m \in 1..n : Nth(usable, m) \in usable
  <2> HIDE DEF usable
  <2> QED
    BY <1>7, <1>8, NthIs
<1>10. \A l, m \in 1..n : Nth(usable, l) = Nth(usable, m) => l = m
  <2> HIDE DEF usable
  <2> QED
    BY <1>7, <1>8, NthDiffer
<1>11. \A m \in 1..n : CanUse(k, round[Nth(usable, m)], w)
  BY <1>9
<1> HIDE DEF round, usable
<1>12. /\ \A m \in 1..n : slot[m] \in 0..size - 1
       /\ \A l, m \in 1..n : slot[l] = slot[m] => l = m
  BY <1>6, <1>7, <1>9, <1>10
<1>13. slot \in [1..n -> 0..size - 1]
  BY <1>12
<1>14. slot \in Seq(0..size - 1) /\ Len(slot) = n
  BY <1>13
<1>15. n # 0
  <2> SUFFICES ASSUME n = 0 PROVE FALSE
    OBVIOUS
  <2>1. slot = <<>>
    BY <1>14, EmptySeq
  <2> QED
    BY <1>4, <2>1
<1> QED
  BY <1>4, <1>11, <1>12, <1>14, <1>15 DEF SlotOK

\* The tokens of a ubatch; those for several streams are not split.
Token == {x \in [seqs : Lists, pos : 0..MaxPos] :
            \A s \in ToSet(x.seqs) : StreamOf(s) = StreamOf(x.seqs[1])}

\* The cell a token is put into.
Placed(x) == [pos |-> x.pos, seqs |-> ToSet(x.seqs)]

\* A token has a first sequence, and makes a cell of its stream.
LEMMA TokenIs ==
  ASSUME NEW x \in Token
  PROVE  /\ x.seqs[1] \in Seqs /\ StreamOf(x.seqs[1]) \in Streams
         /\ Placed(x).seqs # {} /\ CellOK(Placed(x), StreamOf(x.seqs[1]))
<1>1. x.seqs \in [1..1 -> Seqs] \cup [1..2 -> Seqs] /\ x.pos \in 0..MaxPos /\ MaxPos \in Nat
  BY SizesAssumption DEF Token, Lists
<1>2. x.seqs[1] \in Seqs /\ x.seqs[1] \in ToSet(x.seqs) /\ ToSet(x.seqs) \subseteq Seqs
  BY <1>1 DEF ToSet
<1> QED
  BY <1>1, <1>2, StreamType DEF Placed, CellOK, Cell, Token

\* A cell of which some sequences were removed.
Less(y, x) == y.seqs \subseteq x.seqs /\ (y.seqs # {} => y.pos = x.pos)

\* r is a stream into which the tokens were put, and from which some were purged.
Applied(r, k, slot, tokens, size) ==
  \A i \in 0..size - 1 :
    IF i \in ToSet(slot) THEN \E j \in DOMAIN slot : slot[j] = i /\ Less(r.cell[i], Placed(tokens[j]))
                         ELSE Less(r.cell[i], k.cell[i])

\* None was purged.
AppliedExactly(r, k, slot, tokens, size) ==
  /\ \A j \in DOMAIN slot : r.cell[slot[j]] = Placed(tokens[j])
  /\ \A i \in 0..size - 1 : i \notin ToSet(slot) => r.cell[i] = k.cell[i]

\* Taking no sequence out of a cell changes nothing.
LEMMA WithoutNone ==
  ASSUME NEW t, NEW x, CellOK(x, t)
  PROVE  Without(x, {}) = x
<1>1. x \in Cell /\ x = [pos |-> x.pos, seqs |-> x.seqs] /\ (x.pos = -1 <=> x.seqs = {})
  BY DEF CellOK, Cell
<1>2. CASE x.seqs = {}
  <2>1. x = EmptyCell
    BY <1>1, <1>2, Zenon DEF EmptyCell
  <2> QED
    BY <1>2, <2>1 DEF Without
<1>3. CASE x.seqs # {}
  <2>1. Without(x, {}) = [x EXCEPT !.seqs = @ \ {}]
    BY <1>3 DEF Without
  <2>2. x.seqs \ {} = x.seqs
    OBVIOUS
  <2> QED
    BY <1>1, <2>1, <2>2 DEF Cell
<1> QED
  BY <1>2, <1>3

\* Placing puts each token into its cell and leaves the others.
LEMMA PlaceIs ==
  ASSUME NEW size \in Nat \ {0}, NEW t, NEW k, StreamOK(k, size, t), NEW slot, NEW tokens \in Seq(Token),
         SlotOK(slot, Len(tokens), size), \A j \in DOMAIN tokens : StreamOf(tokens[j].seqs[1]) = t
  PROVE  /\ \A j \in DOMAIN slot : Place(k, slot, tokens).cell[slot[j]] = Placed(tokens[j])
         /\ \A i \in 0..size - 1 : i \notin ToSet(slot) =>
              Place(k, slot, tokens).cell[i] = k.cell[i]
         /\ \A i \in 0..size - 1 : CellOK(Place(k, slot, tokens).cell[i], t)
         /\ DOMAIN slot = DOMAIN tokens /\ ToSet(slot) \subseteq 0..size - 1
<1> DEFINE f == [i \in 0..size - 1 |->
                   IF i \in ToSet(slot)
                     THEN LET j == CHOOSE j \in DOMAIN slot : slot[j] = i
                          IN [pos |-> tokens[j].pos, seqs |-> ToSet(tokens[j].seqs)]
                     ELSE k.cell[i]]
           r == Place(k, slot, tokens)
<1>1. k \in Stream(size) /\ Cells(k) = 0..size - 1
  BY CellsAre DEF StreamOK
<1>2. r = [k EXCEPT !.cell = f]
  BY <1>1, Zenon DEF Place
<1>3. /\ DOMAIN slot = 1..Len(tokens) /\ DOMAIN tokens = 1..Len(tokens)
      /\ \A j \in DOMAIN slot : slot[j] \in 0..size - 1
      /\ \A i, j \in DOMAIN slot : slot[i] = slot[j] => i = j
  <2>1. slot \in Seq(0..size - 1) /\ Len(slot) = Len(tokens)
    BY DEF SlotOK
  <2>2. DOMAIN slot = 1..Len(tokens) /\ DOMAIN tokens = 1..Len(tokens)
    BY <2>1
  <2>3. \A j \in DOMAIN slot : slot[j] \in 0..size - 1
    BY <2>1
  <2> QED
    BY <2>2, <2>3 DEF SlotOK
<1>4. ToSet(slot) \subseteq 0..size - 1 /\ \A j \in DOMAIN slot : slot[j] \in ToSet(slot)
  BY <1>3 DEF ToSet
<1>5. ASSUME NEW j \in DOMAIN slot PROVE f[slot[j]] = Placed(tokens[j])
  <2>1. (CHOOSE l \in DOMAIN slot : slot[l] = slot[j]) = j
    BY <1>3
  <2>2. slot[j] \in 0..size - 1 /\ slot[j] \in ToSet(slot)
    BY <1>4
  <2> QED
    BY <2>1, <2>2 DEF Placed
<1>6. \A i \in 0..size - 1 : i \notin ToSet(slot) => f[i] = k.cell[i]
  OBVIOUS
<1> HIDE DEF f
<1>7. r.cell = f
  BY <1>1, <1>2 DEF Stream
<1>8. ASSUME NEW i \in 0..size - 1 PROVE CellOK(f[i], t)
  <2>1. CASE i \in ToSet(slot)
    <3>1. PICK j \in DOMAIN slot : slot[j] = i
      BY <2>1 DEF ToSet
    <3>2. tokens[j] \in Token /\ StreamOf(tokens[j].seqs[1]) = t
      BY <1>3
    <3> QED
      BY <1>5, <3>1, <3>2, TokenIs
  <2>2. CASE i \notin ToSet(slot)
    BY <1>6, <2>2 DEF StreamOK
  <2> QED
    BY <2>1, <2>2
<1> QED
  BY <1>3, <1>4, <1>5, <1>6, <1>7, <1>8

\* apply_ubatch: the tokens are in their cells, and the others have lost no more than
\* what is purged; nothing when the slot was empty.
LEMMA ApplyIs ==
  ASSUME NEW size \in Nat \ {0}, NEW t, NEW k, StreamOK(k, size, t), NEW slot, NEW tokens \in Seq(Token),
         SlotOK(slot, Len(tokens), size), \A j \in DOMAIN tokens : StreamOf(tokens[j].seqs[1]) = t
  PROVE  /\ StreamOK(Apply(k, slot, tokens), size, t)
         /\ Applied(Apply(k, slot, tokens), k, slot, tokens, size)
         /\ (\A i \in ToSet(slot) : IsEmpty(k.cell[i]))
              => AppliedExactly(Apply(k, slot, tokens), k, slot, tokens, size)
<1> DEFINE p == Place(k, slot, tokens)
           taken == {k.cell[i] : i \in {i \in ToSet(slot) : ~IsEmpty(k.cell[i])}}
           lost(c) == {s \in c.seqs : \E d \in taken : d.seqs = {s} /\ c.pos <= d.pos}
           f == [i \in 0..size - 1 |-> Without(p.cell[i], lost(p.cell[i]))]
           r == Apply(k, slot, tokens)
<1>1. /\ \A j \in DOMAIN slot : p.cell[slot[j]] = Placed(tokens[j])
      /\ \A i \in 0..size - 1 : i \notin ToSet(slot) => p.cell[i] = k.cell[i]
      /\ \A i \in 0..size - 1 : CellOK(p.cell[i], t)
      /\ DOMAIN slot = DOMAIN tokens /\ ToSet(slot) \subseteq 0..size - 1
  BY PlaceIs
<1>2. Cells(k) = 0..size - 1
  BY CellsAre DEF StreamOK
<1>3. r = [cell |-> f, head |-> Last(slot) + 1]
  BY <1>2, Zenon DEF Apply
<1>4. Last(slot) + 1 \in 0..size
  <2>1. Len(slot) \in DOMAIN slot /\ \A j \in DOMAIN slot : slot[j] \in 0..size - 1
    BY DEF SlotOK
  <2> QED
    BY <2>1 DEF Last
<1> HIDE DEF p
<1>5. \A i \in 0..size - 1 : CellOK(f[i], t) /\ Less(f[i], p.cell[i])
  <2> HIDE DEF lost
  <2>1. ASSUME NEW i \in 0..size - 1 PROVE CellOK(f[i], t) /\ Less(f[i], p.cell[i])
    <3>1. f[i] = Without(p.cell[i], lost(p.cell[i]))
      OBVIOUS
    <3> HIDE DEF f
    <3> QED
      BY <1>1, <3>1, WithoutOK DEF Less
  <2> QED
    BY <2>1
<1>6. ASSUME \A i \in ToSet(slot) : IsEmpty(k.cell[i]), NEW i \in 0..size - 1
      PROVE  f[i] = p.cell[i]
  <2>1. taken = {}
    BY <1>6
  <2>2. lost(p.cell[i]) = {}
    BY <2>1
  <2>3. f[i] = Without(p.cell[i], {})
    BY <2>2
  <2> QED
    BY <1>1, <2>3, WithoutNone
<1>7. f \in [0..size - 1 -> Cell]
  <2>1. f = [i \in 0..size - 1 |-> f[i]]
    OBVIOUS
  <2> HIDE DEF f
  <2>2. \A i \in 0..size - 1 : f[i] \in Cell
    BY <1>5 DEF CellOK
  <2> QED
    BY <2>1, <2>2
<1> HIDE DEF f
<1>8. r.cell = f /\ r \in Stream(size)
  BY <1>3, <1>4, <1>7 DEF Stream
<1>9. StreamOK(r, size, t)
  BY <1>5, <1>8 DEF StreamOK
<1>10. Applied(r, k, slot, tokens, size)
  <2> SUFFICES ASSUME NEW i \in 0..size - 1
               PROVE  IF i \in ToSet(slot)
                        THEN \E j \in DOMAIN slot : slot[j] = i /\ Less(f[i], Placed(tokens[j]))
                        ELSE Less(f[i], k.cell[i])
    BY <1>8 DEF Applied
  <2>1. CASE i \in ToSet(slot)
    <3>1. PICK j \in DOMAIN slot : slot[j] = i
      BY <2>1 DEF ToSet
    <3> QED
      BY <1>1, <1>5, <2>1, <3>1
  <2>2. CASE i \notin ToSet(slot)
    BY <1>1, <1>5, <2>2
  <2> QED
    BY <2>1, <2>2
<1>11. ASSUME \A i \in ToSet(slot) : IsEmpty(k.cell[i])
       PROVE  AppliedExactly(r, k, slot, tokens, size)
  <2>1. \A i \in 0..size - 1 : f[i] = p.cell[i]
    BY <1>6, <1>11
  <2>2. \A j \in DOMAIN slot : slot[j] \in 0..size - 1
    BY DEF SlotOK
  <2> QED
    BY <1>1, <1>8, <2>1, <2>2 DEF AppliedExactly
<1> QED
  BY <1>9, <1>10, <1>11

-----------------------------------------------------------------------------
(* A ubatch in all its streams. *)

\* The part of a ubatch that is a stream's.
LEMMA PartIs ==
  ASSUME NEW u \in Seq(Token), NEW t
  PROVE  /\ PartOf(u, t) \in Seq(Token)
         /\ \A j \in DOMAIN PartOf(u, t) : StreamOf(PartOf(u, t)[j].seqs[1]) = t
<1> DEFINE P == {i \in DOMAIN u : StreamOf(u[i].seqs[1]) = t}
<1>1. P \in SUBSET (DOMAIN u) /\ PartOf(u, t) = At(u, P)
  BY DEF PartOf
<1>2. \A i \in P : StreamOf(u[i].seqs[1]) = t
  OBVIOUS
<1> HIDE DEF P
<1>3. /\ At(u, P) \in Seq(Token)
      /\ \A n \in 1..Len(At(u, P)) : \E i \in P : At(u, P)[n] = u[i]
  BY <1>1, AtIs
<1>4. DOMAIN At(u, P) = 1..Len(At(u, P))
  BY <1>3
<1> QED
  BY <1>1, <1>2, <1>3, <1>4

\* A slot in every stream of a ubatch.
SlotsOK(slots, u, size) ==
  /\ DOMAIN slots = StreamsOf(u)
  /\ \A t \in StreamsOf(u) : SlotOK(slots[t], Len(PartOf(u, t)), size)

\* The streams of a ubatch are streams.
LEMMA StreamsOfIs == ASSUME NEW u \in Seq(Token) PROVE StreamsOf(u) \subseteq Streams
<1>1. \A i \in DOMAIN u : u[i] \in Token
  OBVIOUS
<1> QED
  BY <1>1, TokenIs DEF StreamsOf

\* A cache of the given size.
CacheFits(c, size) == c \in [Streams -> Stream(size)] /\ \A t \in Streams : StreamOK(c[t], size, t)

\* What ApplyAll does to the stream t.
AppliedIn(r, c, u, slots, size, t) ==
  IF t \in StreamsOf(u) THEN Applied(r[t], c[t], slots[t], PartOf(u, t), size) ELSE r[t] = c[t]

\* Applying a ubatch to all of its streams.
LEMMA ApplyAllIs ==
  ASSUME NEW size \in Nat \ {0}, NEW c, CacheFits(c, size), NEW u \in Seq(Token),
         NEW slots, SlotsOK(slots, u, size)
  PROVE  /\ CacheFits(ApplyAll(c, u, slots), size)
         /\ \A t \in Streams : AppliedIn(ApplyAll(c, u, slots), c, u, slots, size, t)
<1> DEFINE r == ApplyAll(c, u, slots)
<1>1. r = [t \in Streams |->
             IF t \in StreamsOf(u) THEN Apply(c[t], slots[t], PartOf(u, t)) ELSE c[t]]
  BY DEF ApplyAll
<1> HIDE DEF r
<1>2. ASSUME NEW t \in Streams
      PROVE  StreamOK(r[t], size, t) /\ AppliedIn(r, c, u, slots, size, t)
  <2>1. CASE t \in StreamsOf(u)
    <3>1. /\ PartOf(u, t) \in Seq(Token) /\ SlotOK(slots[t], Len(PartOf(u, t)), size)
          /\ \A j \in DOMAIN PartOf(u, t) : StreamOf(PartOf(u, t)[j].seqs[1]) = t
          /\ StreamOK(c[t], size, t)
      BY <2>1, PartIs DEF SlotsOK, CacheFits
    <3>2. r[t] = Apply(c[t], slots[t], PartOf(u, t))
      BY <1>1, <2>1
    <3> QED
      BY <2>1, <3>1, <3>2, ApplyIs DEF AppliedIn
  <2>2. CASE t \notin StreamsOf(u)
    BY <1>1, <2>2 DEF AppliedIn, CacheFits
  <2> QED
    BY <2>1, <2>2
<1>3. r \in [Streams -> Stream(size)]
  BY <1>1, <1>2 DEF StreamOK
<1> QED
  BY <1>2, <1>3 DEF CacheFits, r

\* Only empty cells are used: nothing is purged.
Untaken(c, u, slots) ==
  \A t \in StreamsOf(u) : \A i \in ToSet(slots[t]) : IsEmpty(c[t].cell[i])

\* The streams of the ubatch have its tokens, the others are unchanged.
AppliedExactlyIn(r, c, u, slots, size, t) ==
  IF t \in StreamsOf(u) THEN AppliedExactly(r[t], c[t], slots[t], PartOf(u, t), size) ELSE r[t] = c[t]

\* Applying a ubatch to empty slots purges nothing.
LEMMA ApplyAllExact ==
  ASSUME NEW size \in Nat \ {0}, NEW c, CacheFits(c, size), NEW u \in Seq(Token),
         NEW slots, SlotsOK(slots, u, size), Untaken(c, u, slots)
  PROVE  \A t \in Streams : AppliedExactlyIn(ApplyAll(c, u, slots), c, u, slots, size, t)
<1> DEFINE r == ApplyAll(c, u, slots)
<1>1. r = [t \in Streams |->
             IF t \in StreamsOf(u) THEN Apply(c[t], slots[t], PartOf(u, t)) ELSE c[t]]
  BY DEF ApplyAll
<1> HIDE DEF r
<1>2. ASSUME NEW t \in Streams PROVE AppliedExactlyIn(r, c, u, slots, size, t)
  <2>1. CASE t \in StreamsOf(u)
    <3>1. /\ PartOf(u, t) \in Seq(Token) /\ SlotOK(slots[t], Len(PartOf(u, t)), size)
          /\ \A j \in DOMAIN PartOf(u, t) : StreamOf(PartOf(u, t)[j].seqs[1]) = t
          /\ StreamOK(c[t], size, t)
      BY <2>1, PartIs DEF SlotsOK, CacheFits
    <3>2. r[t] = Apply(c[t], slots[t], PartOf(u, t))
      BY <1>1, <2>1
    <3>3. \A i \in ToSet(slots[t]) : IsEmpty(c[t].cell[i])
      BY <2>1 DEF Untaken
    <3> QED
      BY <2>1, <3>1, <3>2, <3>3, ApplyIs DEF AppliedExactlyIn
  <2>2. CASE t \notin StreamsOf(u)
    BY <1>1, <2>2 DEF AppliedExactlyIn
  <2> QED
    BY <2>1, <2>2
<1> QED
  BY <1>2 DEF r

\* The slots of a ubatch fit, and are empty when there is no window.
LEMMA SlotsAre ==
  ASSUME NEW size \in Nat \ {0}, NEW c, CacheFits(c, size), NEW u \in Seq(Token), NEW w,
         \A t \in DOMAIN Slots(c, u, w) : Slots(c, u, w)[t] # <<>>
  PROVE  SlotsOK(Slots(c, u, w), u, size) /\ (w = 0 => Untaken(c, u, Slots(c, u, w)))
<1> DEFINE slots == Slots(c, u, w)
<1>1. DOMAIN slots = StreamsOf(u)
  BY DEF Slots
<1>2. \A t \in StreamsOf(u) : slots[t] = FindSlot(c[t], Len(PartOf(u, t)), w) /\ slots[t] # <<>>
  BY DEF Slots
<1> HIDE DEF slots
<1>3. ASSUME NEW t \in StreamsOf(u)
      PROVE  /\ SlotOK(slots[t], Len(PartOf(u, t)), size)
             /\ w = 0 => \A i \in ToSet(slots[t]) : IsEmpty(c[t].cell[i])
  <2>1. t \in Streams /\ StreamOK(c[t], size, t) /\ Len(PartOf(u, t)) \in Nat
    BY StreamsOfIs, PartIs, LenProperties DEF CacheFits
  <2>2. /\ SlotOK(slots[t], Len(PartOf(u, t)), size)
        /\ \A i \in 1..Len(PartOf(u, t)) : CanUse(c[t], slots[t][i], w)
    BY <1>2, <2>1, FindSlotIs
  <2>3. ASSUME w = 0, NEW i \in ToSet(slots[t]) PROVE IsEmpty(c[t].cell[i])
    <3>1. DOMAIN slots[t] = 1..Len(PartOf(u, t))
      BY <2>2 DEF SlotOK
    <3>2. PICK j \in 1..Len(PartOf(u, t)) : slots[t][j] = i
      BY <3>1 DEF ToSet
    <3>3. CanUse(c[t], i, w)
      BY <2>2, <3>2
    <3> QED
      BY <2>3, <3>3 DEF CanUse, IsMasked
  <2> QED
    BY <2>2, <2>3
<1> QED
  BY <1>1, <1>3 DEF SlotsOK, Untaken, slots

-----------------------------------------------------------------------------
(* The ubatches are put in for trial, and taken out. *)

\* What a trial is made of.
SlotSets(size) == UNION {[T -> Seq(0..size - 1)] : T \in SUBSET Streams}

Trials(size) == [ok : BOOLEAN, caches : Seq([Streams -> Stream(size)]), slots : Seq(SlotSets(size))]

\* The caches and the slots the trial q has gone through.
Tried(q, c, us, w, size) ==
  /\ Len(q.caches) = Len(q.slots) + 1 /\ q.caches[1] = c /\ Len(q.slots) <= Len(us)
  /\ \A k \in DOMAIN q.caches : CacheFits(q.caches[k], size)
  /\ \A k \in DOMAIN q.slots :
       /\ q.slots[k] = Slots(q.caches[k], us[k], w)
       /\ SlotsOK(q.slots[k], us[k], size)
       /\ w = 0 => Untaken(q.caches[k], us[k], q.slots[k])
       /\ q.caches[k + 1] = ApplyAll(q.caches[k], us[k], q.slots[k])

\* One ubatch of a trial.
Tries(q, u, w) ==
  LET cache == Last(q.caches)
      slots == Slots(cache, u, w)
  IN IF ~q.ok \/ \E t \in DOMAIN slots : slots[t] = <<>> THEN [q EXCEPT !.ok = FALSE]
     ELSE [ok |-> TRUE, slots |-> Append(q.slots, slots),
           caches |-> Append(q.caches, ApplyAll(cache, u, slots))]

\* One ubatch of a trial is applied to what the ones before have left.
LEMMA TriesIs ==
  ASSUME NEW size \in Nat \ {0}, NEW c, NEW us \in Seq(Seq(Token)), NEW w,
         NEW k \in 1..Len(us), NEW q \in Trials(size), Tried(q, c, us, w, size),
         q.ok => Len(q.slots) = k - 1
  PROVE  /\ Tries(q, us[k], w) \in Trials(size) /\ Tried(Tries(q, us[k], w), c, us, w, size)
         /\ Tries(q, us[k], w).ok => Len(Tries(q, us[k], w).slots) = k
<1> DEFINE u == us[k]
           cache == Last(q.caches)
           slots == Slots(cache, u, w)
           r == Tries(q, u, w)
<1>1. /\ q.ok \in BOOLEAN /\ q.caches \in Seq([Streams -> Stream(size)])
      /\ q.slots \in Seq(SlotSets(size)) /\ u \in Seq(Token)
      /\ q = [ok |-> q.ok, caches |-> q.caches, slots |-> q.slots]
  BY DEF Trials
<1>2. CASE ~q.ok \/ \E t \in DOMAIN slots : slots[t] = <<>>
  <2>1. r = [q EXCEPT !.ok = FALSE]
    BY <1>2 DEF Tries
  <2>2. r = [ok |-> FALSE, caches |-> q.caches, slots |-> q.slots]
    BY <1>1, <2>1 DEF Trials
  <2> HIDE DEF r
  <2>3. r \in Trials(size) /\ ~r.ok /\ r.caches = q.caches /\ r.slots = q.slots
    BY <1>1, <2>2 DEF Trials
  <2> QED
    BY <2>3 DEF Tried, r
<1>3. CASE q.ok /\ \A t \in DOMAIN slots : slots[t] # <<>>
  <2> DEFINE L == Len(q.slots)
             next == ApplyAll(cache, u, slots)
  <2>1. L = k - 1 /\ Len(q.caches) = k /\ L \in Nat
    BY <1>1, <1>3 DEF Tried
  <2>2. cache = q.caches[k] /\ k \in DOMAIN q.caches
    BY <1>1, <2>1 DEF Last
  <2>3. CacheFits(cache, size)
    BY <2>2 DEF Tried
  <2> HIDE DEF cache
  <2>4. SlotsOK(slots, u, size) /\ (w = 0 => Untaken(cache, u, slots))
    BY <1>1, <1>3, <2>3, SlotsAre
  <2>41. slots = Slots(cache, us[k], w)
    OBVIOUS
  <2>5. slots \in SlotSets(size)
    <3>1. slots = [t \in StreamsOf(u) |-> slots[t]]
      BY DEF Slots
    <3>2. StreamsOf(u) \in SUBSET Streams
      BY <1>1, StreamsOfIs
    <3> HIDE DEF slots, u
    <3>3. slots \in [StreamsOf(u) -> Seq(0..size - 1)]
      BY <2>4, <3>1 DEF SlotsOK, SlotOK
    <3> QED
      BY <3>2, <3>3 DEF SlotSets
  <2>6. r = [ok |-> TRUE, slots |-> Append(q.slots, slots), caches |-> Append(q.caches, next)]
    BY <1>3 DEF Tries, cache
  <2> HIDE DEF slots, u
  <2>7. CacheFits(next, size)
    BY <1>1, <2>3, <2>4, ApplyAllIs
  <2>8. next \in [Streams -> Stream(size)]
    BY <2>7 DEF CacheFits
  <2> HIDE DEF next, r
  <2>9. /\ r.ok = TRUE /\ r.slots = Append(q.slots, slots) /\ r.caches = Append(q.caches, next)
        /\ r.slots \in Seq(SlotSets(size)) /\ r.caches \in Seq([Streams -> Stream(size)])
        /\ r \in Trials(size)
    <3>1. Append(q.slots, slots) \in Seq(SlotSets(size))
      BY <1>1, <2>5, AppendProperties
    <3>2. Append(q.caches, next) \in Seq([Streams -> Stream(size)])
      BY <1>1, <2>8, AppendProperties
    <3> QED
      BY <2>6, <3>1, <3>2 DEF Trials
  <2>10. /\ Len(r.slots) = k /\ Len(r.caches) = k + 1
         /\ \A i \in 1..k - 1 : r.slots[i] = q.slots[i]
         /\ \A i \in 1..k : r.caches[i] = q.caches[i]
         /\ DOMAIN r.slots = 1..k /\ DOMAIN r.caches = 1..k + 1
         /\ DOMAIN q.slots = 1..k - 1 /\ DOMAIN q.caches = 1..k
         /\ r.slots[k] = slots /\ r.caches[k + 1] = next
    <3>1. /\ Len(r.slots) = k /\ r.slots[k] = slots
          /\ \A i \in 1..k - 1 : r.slots[i] = q.slots[i]
      BY <1>1, <2>1, <2>5, <2>9, AppendProperties
    <3>2. /\ Len(r.caches) = k + 1 /\ r.caches[k + 1] = next
          /\ \A i \in 1..k : r.caches[i] = q.caches[i]
      BY <1>1, <2>1, <2>8, <2>9, AppendProperties
    <3> QED
      BY <1>1, <2>1, <2>9, <3>1, <3>2, LenProperties
  <2>11. r.caches[1] = c
    <3>1. 1 \in 1..k
      OBVIOUS
    <3> QED
      BY <2>10, <3>1 DEF Tried
  <2>12. \A i \in DOMAIN r.caches : CacheFits(r.caches[i], size)
    <3> SUFFICES ASSUME NEW i \in 1..k + 1 PROVE CacheFits(r.caches[i], size)
      BY <2>10
    <3>1. CASE i = k + 1
      BY <2>7, <2>10, <3>1
    <3>2. CASE i # k + 1
      <4>1. i \in 1..k
        BY <3>2
      <4> QED
        BY <2>10, <4>1 DEF Tried
    <3> QED
      BY <3>1, <3>2
  <2>13. ASSUME NEW i \in DOMAIN r.slots
         PROVE  /\ r.slots[i] = Slots(r.caches[i], us[i], w)
                /\ SlotsOK(r.slots[i], us[i], size)
                /\ w = 0 => Untaken(r.caches[i], us[i], r.slots[i])
                /\ r.caches[i + 1] = ApplyAll(r.caches[i], us[i], r.slots[i])
    <3>1. CASE i = k
      <4>1. r.caches[i] = cache /\ r.slots[i] = slots
        BY <2>2, <2>10, <3>1
      <4>2. r.slots[i] = Slots(r.caches[i], us[i], w)
        BY <2>41, <3>1, <4>1
      <4> QED
        BY <2>4, <2>10, <3>1, <4>1, <4>2 DEF next, u
    <3>2. CASE i # k
      <4>1. i \in 1..k /\ k \in Nat
        BY <1>1, <2>1, <2>10
      <4>2. i \in 1..k - 1 /\ i + 1 \in 1..k
        BY <3>2, <4>1
      <4> QED
        BY <2>10, <4>1, <4>2 DEF Tried
    <3> QED
      BY <3>1, <3>2
  <2>14. Len(r.slots) <= Len(us) /\ Len(r.caches) = Len(r.slots) + 1
    BY <2>10, LenProperties
  <2>15. Tried(r, c, us, w, size)
    BY <2>11, <2>12, <2>13, <2>14 DEF Tried
  <2> QED
    BY <2>9, <2>10, <2>15 DEF r, u
<1> QED
  BY <1>1, <1>2, <1>3

\* A trial has slots for every ubatch, or stops at the first that does not fit.
LEMMA TrialIs ==
  ASSUME NEW size \in Nat \ {0}, NEW c, CacheFits(c, size), NEW us \in Seq(Seq(Token)), NEW w
  PROVE  /\ Trial(c, us, w) \in Trials(size) /\ Tried(Trial(c, us, w), c, us, w, size)
         /\ Trial(c, us, w).ok => Len(Trial(c, us, w).slots) = Len(us)
<1> DEFINE n == Len(us)
           b == [ok |-> TRUE, caches |-> <<c>>, slots |-> <<>>]
           In(q, k) == Tried(q, c, us, w, size) /\ (q.ok => Len(q.slots) = k)
           X == [k \in 0..n |-> {q \in Trials(size) : In(q, k)}]
           op(q, k) == Tries(q, us[k], w)
           step == [z \in Trials(size) \X (1..n) |-> op(z[1], z[2])]
           Def(g) == [k \in 0..n |-> IF k = 0 THEN b ELSE op(g[k - 1], k)]
           G == CHOOSE g : g = Def(g)
<1>1. n \in Nat
  BY LenProperties
<1>2. Trial(c, us, w) = G[n]
  BY DEF Trial, Tries
<1>3. b \in X[0]
  <2>1. c \in [Streams -> Stream(size)]
    BY DEF CacheFits
  <2>2. <<>> \in Seq(SlotSets(size)) /\ Len(<<>>) = 0
    BY EmptySeq
  <2>3. <<c>> \in Seq([Streams -> Stream(size)]) /\ Len(<<c>>) = 1 /\ <<c>>[1] = c
        /\ DOMAIN <<c>> = 1..1
    BY <2>1
  <2>4. b \in Trials(size) /\ b.caches = <<c>> /\ b.slots = <<>>
    BY <2>2, <2>3 DEF Trials
  <2> HIDE DEF b
  <2>5. DOMAIN b.slots = {}
    BY <2>4
  <2>6. Tried(b, c, us, w, size) /\ Len(b.slots) = 0
    BY <1>1, <2>2, <2>3, <2>4, <2>5 DEF Tried
  <2> QED
    BY <1>1, <2>4, <2>6
<1>4. ASSUME NEW k \in 1..n, NEW q \in X[k - 1] PROVE step[<<q, k>>] = op(q, k) /\ op(q, k) \in X[k]
  <2>1. k - 1 \in 0..n /\ k \in 0..n
    BY <1>1
  <2>2. q \in Trials(size) /\ In(q, k - 1)
    BY <2>1
  <2>3. op(q, k) \in Trials(size) /\ In(op(q, k), k)
    BY <2>2, TriesIs
  <2>4. step[<<q, k>>] = op(q, k)
    <3> HIDE DEF op, n
    <3> QED
      BY <2>2
  <2> HIDE DEF op, In
  <2> QED
    BY <2>1, <2>3, <2>4
<1> HIDE DEF b, step, op, n
<1>41. \A k \in 1..n : \A q \in X[k - 1] : step[<<q, k>>] \in X[k]
  BY <1>4
<1>5. PICK h : /\ h = [k \in 0..n |-> h[k]] /\ \A k \in 0..n : h[k] \in X[k]
               /\ Follows(h, n, b, X, step)
  <2> HIDE DEF X
  <2> QED
    BY <1>1, <1>3, <1>41, Recursion
<1>6. h = Def(h)
  <2>1. ASSUME NEW k \in 0..n PROVE h[k] = IF k = 0 THEN b ELSE op(h[k - 1], k)
    <3>1. CASE k = 0
      BY <1>5, <3>1 DEF Follows
    <3>2. CASE k # 0
      <4>1. k \in 1..n /\ k - 1 \in 0..n
        BY <1>1, <3>2
      <4> HIDE DEF X
      <4>2. h[k - 1] \in X[k - 1]
        BY <1>5, <4>1
      <4> QED
        BY <1>4, <1>5, <3>2, <4>1, <4>2 DEF Follows
    <3> QED
      BY <3>1, <3>2
  <2> HIDE DEF X
  <2> QED
    BY <1>5, <2>1
<1>7. G = Def(G)
  <2> HIDE DEF Def
  <2> QED
    BY <1>6
<1>8. Follows(G, n, b, X, step)
  <2> HIDE DEF G
  <2> SUFFICES ASSUME NEW k \in 0..n
               PROVE  IF k = 0 THEN G[k] = b
                      ELSE G[k - 1] \in X[k - 1] => G[k] = step[<<G[k - 1], k>>]
    BY DEF Follows
  <2>1. G[k] = IF k = 0 THEN b ELSE op(G[k - 1], k)
    BY <1>7
  <2>2. k # 0 => k \in 1..n
    BY <1>1
  <2> HIDE DEF X
  <2> QED
    BY <1>4, <2>1, <2>2
<1>9. G[n] \in X[n]
  <2> HIDE DEF G, X
  <2>1. n \in 0..n
    BY <1>1
  <2> QED
    BY <1>1, <1>3, <1>41, <1>8, <2>1, FollowsIn
<1>10. n \in 0..n
  BY <1>1
<1> HIDE DEF G
<1> QED
  BY <1>2, <1>9, <1>10 DEF n

\* The cells of x are those of c; or, where there is a window, some are lost.
Within(x, c, w, size) ==
  \A t \in Streams, i \in 0..size - 1 :
    IF w = 0 THEN x[t].cell[i] = c[t].cell[i] ELSE Less(x[t].cell[i], c[t].cell[i])

\* Within is reflexive and transitive.
LEMMA WithinSelf == ASSUME NEW c, NEW w, NEW size PROVE Within(c, c, w, size)
BY DEF Within, Less

LEMMA WithinTwice ==
  ASSUME NEW x, NEW y, NEW c, NEW w, NEW size, Within(x, y, w, size), Within(y, c, w, size)
  PROVE  Within(x, c, w, size)
BY DEF Within, Less

\* A stream's place among those of a ubatch is a stream's number.
LEMMA NumberOfPart ==
  ASSUME NEW S \in SUBSET Streams, NEW t \in Streams
  PROVE  Cardinality({r \in S : r < t}) \in Streams
<1> DEFINE B == {r \in S : r < t}
<1>1. NSeqs \in Nat \ {0} /\ Seqs = 0..NSeqs - 1
  BY SizesAssumption DEF Seqs
<1>2. CASE unified
  <2>1. Streams = {0}
    BY <1>1, <1>2 DEF Streams, StreamOf
  <2>2. B = {}
    <3>1. t = 0 /\ \A r \in S : r = 0
      BY <2>1
    <3>2. ASSUME NEW r \in S PROVE ~(r < t)
      BY <3>1
    <3> QED
      BY <3>2
  <2> QED
    BY <2>1, <2>2, FS_EmptySet
<1>3. CASE ~unified
  <2>1. Streams = 0..NSeqs - 1
    BY <1>1, <1>3 DEF Streams, StreamOf
  <2>2. t \in Nat /\ t <= NSeqs - 1 /\ B \subseteq 0..t - 1
    <3>1. t \in 0..NSeqs - 1 /\ \A r \in S : r \in 0..NSeqs - 1
      BY <2>1
    <3>2. t \in Nat /\ t <= NSeqs - 1
      BY <1>1, <3>1
    <3>3. ASSUME NEW r \in B PROVE r \in 0..t - 1
      <4>1. r \in Nat /\ r < t
        BY <1>1, <3>1
      <4> QED
        BY <3>2, <4>1
    <3> QED
      BY <3>2, <3>3
  <2>3. IsFiniteSet(0..t - 1) /\ Cardinality(0..t - 1) = t
    <3>1. 0 \in Int /\ t - 1 \in Int
      BY <2>2
    <3>2. /\ IsFiniteSet(0..t - 1)
          /\ Cardinality(0..t - 1) = IF 0 > t - 1 THEN 0 ELSE (t - 1) - 0 + 1
      BY <3>1, FS_Interval
    <3> QED
      BY <2>2, <3>2
  <2>4. Cardinality(B) \in Nat /\ Cardinality(B) <= t
    BY <2>2, <2>3, FS_Subset, FS_CardinalityType
  <2> QED
    BY <1>1, <2>1, <2>2, <2>4
<1> QED
  BY <1>2, <1>3

\* Undoing a ubatch of a trial leaves at most what was there before it.
LEMMA UndoneIs ==
  ASSUME NEW size \in Nat \ {0}, NEW x, CacheFits(x, size), NEW old, CacheFits(old, size),
         NEW u \in Seq(Token), NEW slots, SlotsOK(slots, u, size), NEW w,
         w = 0 => Untaken(old, u, slots), Within(x, ApplyAll(old, u, slots), w, size)
  PROVE  /\ CacheFits(Undone(x, slots, old), size)
         /\ Within(Undone(x, slots, old), old, w, size)
<1> DEFINE y == ApplyAll(old, u, slots)
           z == Undone(x, slots, old)
           head(t) == old[Cardinality({r \in DOMAIN slots : r < t})].head
           cell(t) == [i \in 0..size - 1 |-> IF i \in ToSet(slots[t])
                                               THEN old[t].cell[i] ELSE x[t].cell[i]]
<1>1. DOMAIN slots = StreamsOf(u) /\ StreamsOf(u) \in SUBSET Streams
  BY StreamsOfIs DEF SlotsOK
<1>2. \A t \in Streams : /\ Cells(x[t]) = 0..size - 1 /\ x[t] \in Stream(size)
                         /\ \A i \in 0..size - 1 : CellOK(x[t].cell[i], t) /\ CellOK(old[t].cell[i], t)
  BY CellsAre DEF CacheFits, StreamOK
<1>3. z = [t \in Streams |-> IF t \notin StreamsOf(u) THEN x[t]
                             ELSE [cell |-> cell(t), head |-> head(t)]]
  BY <1>1, <1>2, Zenon DEF Undone
<1>4. \A t \in Streams : head(t) \in 0..size
  <2> SUFFICES ASSUME NEW t \in Streams PROVE head(t) \in 0..size
    OBVIOUS
  <2>1. PICK m \in Streams : m = Cardinality({r \in DOMAIN slots : r < t})
    BY <1>1, NumberOfPart
  <2>2. old[m] \in Stream(size)
    BY DEF CacheFits
  <2> QED
    BY <2>1, <2>2 DEF Stream
<1>5. \A t \in Streams : AppliedIn(y, old, u, slots, size, t)
  BY ApplyAllIs
<1>6. w = 0 => \A t \in Streams : AppliedExactlyIn(y, old, u, slots, size, t)
  BY ApplyAllExact
<1>7. \A t \in Streams, i \in 0..size - 1 :
        IF w = 0 THEN x[t].cell[i] = y[t].cell[i] ELSE Less(x[t].cell[i], y[t].cell[i])
  BY DEF Within
<1> HIDE DEF y, z, head
<1>8. ASSUME NEW t \in Streams
      PROVE  /\ StreamOK(z[t], size, t)
             /\ \A i \in 0..size - 1 :
                  IF w = 0 THEN z[t].cell[i] = old[t].cell[i] ELSE Less(z[t].cell[i], old[t].cell[i])
  <2>1. CASE t \in StreamsOf(u)
    <3>1. z[t] = [cell |-> cell(t), head |-> head(t)]
      BY <1>3, <2>1
    <3>2. \A i \in 0..size - 1 :
            cell(t)[i] = IF i \in ToSet(slots[t]) THEN old[t].cell[i] ELSE x[t].cell[i]
      OBVIOUS
    <3>3. \A i \in 0..size - 1 : CellOK(cell(t)[i], t)
      BY <1>2
    <3>4. cell(t) \in [0..size - 1 -> Cell]
      <4>1. \A i \in 0..size - 1 : cell(t)[i] \in Cell
        BY <3>3 DEF CellOK
      <4> QED
        BY <4>1
    <3> HIDE DEF cell
    <3>5. z[t].cell = cell(t) /\ z[t] \in Stream(size)
      BY <1>4, <3>1, <3>4 DEF Stream
    <3>6. StreamOK(z[t], size, t)
      BY <3>3, <3>5 DEF StreamOK
    <3>7. ASSUME NEW i \in 0..size - 1
          PROVE  IF w = 0 THEN cell(t)[i] = old[t].cell[i] ELSE Less(cell(t)[i], old[t].cell[i])
      <4>1. CASE i \in ToSet(slots[t])
        BY <3>2, <4>1 DEF Less
      <4>2. CASE i \notin ToSet(slots[t])
        <5>1. cell(t)[i] = x[t].cell[i]
          BY <3>2, <4>2
        <5>2. Less(y[t].cell[i], old[t].cell[i])
          BY <1>5, <2>1, <4>2 DEF AppliedIn, Applied
        <5>3. w = 0 => y[t].cell[i] = old[t].cell[i]
          BY <1>6, <2>1, <4>2 DEF AppliedExactlyIn, AppliedExactly
        <5> QED
          BY <1>7, <5>1, <5>2, <5>3 DEF Less
      <4> QED
        BY <4>1, <4>2
    <3> QED
      BY <3>5, <3>6, <3>7
  <2>2. CASE t \notin StreamsOf(u)
    <3>1. z[t] = x[t] /\ y[t] = old[t]
      BY <1>3, <1>5, <2>2 DEF AppliedIn
    <3>2. StreamOK(z[t], size, t)
      BY <3>1 DEF CacheFits
    <3> QED
      BY <1>7, <3>1, <3>2
  <2> QED
    BY <2>1, <2>2
<1>9. z \in [Streams -> Stream(size)]
  BY <1>3, <1>8 DEF StreamOK
<1> QED
  BY <1>8, <1>9 DEF CacheFits, Within, z

\* Of the ubatches of the trial q, those from m + 1 to j do not take the cell i of t.
Stays(q, m, j, t, i) ==
  \A k \in m + 1..j : t \in DOMAIN q.slots[k] => i \notin ToSet(q.slots[k][t])

\* A cell of x holds what it held in the trial q after ubatch m, or after a later one if
\* it was not taken in between.
HeldFrom(x, q, m, t, i) ==
  \E j \in m..Len(q.slots) : x[t].cell[i] = q.caches[j + 1][t].cell[i] /\ Stays(q, m, j, t, i)

Mixed(x, q, m, size) == \A t \in Streams, i \in 0..size - 1 : HeldFrom(x, q, m, t, i)

\* Undoing ubatch m gives the cells of its slots what they held before it.
LEMMA MixedUndone ==
  ASSUME NEW size \in Nat \ {0}, NEW x, CacheFits(x, size), NEW q, Len(q.slots) \in Nat,
         NEW m \in 1..Len(q.slots), Mixed(x, q, m, size)
  PROVE  Mixed(Undone(x, q.slots[m], q.caches[m]), q, m - 1, size)
<1> DEFINE L == Len(q.slots)
           slots == q.slots[m]
           old == q.caches[m]
           z == Undone(x, slots, old)
           head(t) == old[Cardinality({r \in DOMAIN slots : r < t})].head
           cell(t) == [i \in 0..size - 1 |-> IF i \in ToSet(slots[t])
                                               THEN old[t].cell[i] ELSE x[t].cell[i]]
<1>1. m \in Nat /\ m - 1 \in m - 1..L /\ m - 1 + 1 = m /\ L \in Nat
  OBVIOUS
<1>2. z = [t \in Streams |-> IF t \notin DOMAIN slots THEN x[t]
                             ELSE [cell |-> cell(t), head |-> head(t)]]
  <2>1. \A t \in Streams : Cells(x[t]) = 0..size - 1
    BY CellsAre DEF CacheFits, StreamOK
  <2> QED
    BY <2>1, Zenon DEF Undone
<1> HIDE DEF z, head
<1>3. ASSUME NEW t \in Streams, NEW i \in 0..size - 1
      PROVE  HeldFrom(z, q, m - 1, t, i)
  <2>1. CASE t \in DOMAIN slots /\ i \in ToSet(slots[t])
    <3>1. z[t].cell[i] = q.caches[m - 1 + 1][t].cell[i]
      BY <1>1, <1>2, <2>1
    <3>2. Stays(q, m - 1, m - 1, t, i)
      BY <1>1 DEF Stays
    <3> QED
      BY <1>1, <3>1, <3>2 DEF HeldFrom
  <2>2. CASE ~(t \in DOMAIN slots /\ i \in ToSet(slots[t]))
    <3>1. z[t].cell[i] = x[t].cell[i]
      BY <1>2, <2>2
    <3>2. PICK j \in m..L : x[t].cell[i] = q.caches[j + 1][t].cell[i] /\ Stays(q, m, j, t, i)
      BY DEF Mixed, HeldFrom
    <3>3. j \in m - 1..L
      BY <1>1
    <3>4. Stays(q, m - 1, j, t, i)
      <4> SUFFICES ASSUME NEW k \in m - 1 + 1..j, t \in DOMAIN q.slots[k]
                   PROVE  i \notin ToSet(q.slots[k][t])
        BY DEF Stays
      <4>1. k = m \/ k \in m + 1..j
        BY <1>1
      <4> QED
        BY <2>2, <3>2, <4>1 DEF Stays
    <3> QED
      BY <3>1, <3>2, <3>3, <3>4 DEF HeldFrom
  <2> QED
    BY <2>1, <2>2
<1> QED
  BY <1>3 DEF Mixed, z

\* Undoing a trial leaves at most what was there before it, and all of it without a
\* window, and each cell with what it held before it was first taken.
LEMMA TakenOutIs ==
  ASSUME NEW size \in Nat \ {0}, NEW c, NEW us \in Seq(Seq(Token)), NEW w,
         NEW r \in Trials(size), Tried(r, c, us, w, size)
  PROVE  /\ CacheFits(TakenOut(r), size) /\ Within(TakenOut(r), c, w, size)
         /\ Mixed(TakenOut(r), r, 0, size)
<1> DEFINE n == Len(r.slots)
           b == Last(r.caches)
           In(x, k) == /\ CacheFits(x, size) /\ Within(x, r.caches[n - k + 1], w, size)
                       /\ Mixed(x, r, n - k, size)
           C == [Streams -> Stream(size)]
           X == [k \in 0..n |-> {x \in C : In(x, k)}]
           op(x, k) == Undone(x, r.slots[n - k + 1], r.caches[n - k + 1])
           step == [z \in C \X (1..n) |-> op(z[1], z[2])]
           Def(g) == [k \in 0..n |-> IF k = 0 THEN b ELSE op(g[k - 1], k)]
           G == CHOOSE g : g = Def(g)
<1>1. n \in Nat /\ r.slots \in Seq(SlotSets(size)) /\ r.caches \in Seq(C) /\ Len(r.caches) = n + 1
  BY LenProperties DEF Trials, Tried
<1>2. TakenOut(r) = G[n]
  BY DEF TakenOut
<1>3. b \in X[0]
  <2>1. b = r.caches[n + 1] /\ n + 1 \in DOMAIN r.caches
    BY <1>1 DEF Last
  <2>2. CacheFits(b, size) /\ b \in C
    BY <2>1 DEF Tried, CacheFits
  <2>3. Mixed(b, r, n, size)
    <3>1. n \in n..n /\ n \in Nat
      BY <1>1
    <3> SUFFICES ASSUME NEW t \in Streams, NEW i \in 0..size - 1 PROVE HeldFrom(b, r, n, t, i)
      BY DEF Mixed
    <3>2. Stays(r, n, n, t, i)
      BY <1>1 DEF Stays
    <3> HIDE DEF b
    <3> QED
      BY <2>1, <3>1, <3>2 DEF HeldFrom
  <2>4. In(b, 0)
    <3>1. n - 0 = n /\ n - 0 + 1 = n + 1
      BY <1>1
    <3> HIDE DEF b, n
    <3> QED
      BY <2>1, <2>2, <2>3, <3>1, WithinSelf
  <2> HIDE DEF b, In
  <2> QED
    BY <1>1, <2>2, <2>4
<1>4. ASSUME NEW k \in 1..n, NEW x \in X[k - 1] PROVE step[<<x, k>>] = op(x, k) /\ op(x, k) \in X[k]
  <2> DEFINE m == n - k + 1
             old == r.caches[m]
             u == us[m]
             slots == r.slots[m]
  <2>1. k - 1 \in 0..n /\ k \in 0..n
    BY <1>1
  <2>2. x \in C /\ In(x, k - 1)
    BY <2>1
  <2>3. /\ m \in 1..n /\ n - (k - 1) + 1 = m + 1
        /\ n - (k - 1) = m /\ n - k = m - 1
    <3>1. n \in Nat
      BY <1>1
    <3> HIDE DEF n
    <3> QED
      BY <3>1
  <2>4. m \in DOMAIN r.slots /\ m \in DOMAIN r.caches /\ m \in 1..Len(us)
    <3>1. n <= Len(us) /\ Len(us) \in Nat
      BY LenProperties DEF Tried
    <3>2. DOMAIN r.slots = 1..n /\ DOMAIN r.caches = 1..n + 1
      BY <1>1, LenProperties
    <3> HIDE DEF n, m
    <3> QED
      BY <1>1, <2>3, <3>1, <3>2
  <2>5. u \in Seq(Token)
    BY <2>4
  <2> HIDE DEF m
  <2>6. /\ CacheFits(old, size) /\ SlotsOK(slots, u, size) /\ (w = 0 => Untaken(old, u, slots))
        /\ r.caches[m + 1] = ApplyAll(old, u, slots)
    BY <2>4 DEF Tried
  <2>7. CacheFits(x, size) /\ Within(x, ApplyAll(old, u, slots), w, size)
    BY <2>2, <2>3, <2>6
  <2>8. CacheFits(Undone(x, slots, old), size) /\ Within(Undone(x, slots, old), old, w, size)
    BY <2>5, <2>6, <2>7, UndoneIs
  <2>81. Mixed(op(x, k), r, n - k, size)
    <3>1. CacheFits(x, size) /\ Mixed(x, r, m, size)
      BY <2>2, <2>3
    <3>2. Mixed(Undone(x, slots, old), r, m - 1, size)
      BY <1>1, <2>3, <3>1, MixedUndone
    <3> QED
      BY <2>3, <3>2 DEF m
  <2>9. In(op(x, k), k) /\ op(x, k) \in C
    BY <2>8, <2>81 DEF m, CacheFits
  <2>10. step[<<x, k>>] = op(x, k)
    <3> HIDE DEF op, n, C
    <3> QED
      BY <2>2
  <2> HIDE DEF op, In, C
  <2> QED
    BY <2>1, <2>9, <2>10
<1> HIDE DEF b, step, op, n, C
<1>5. \A k \in 1..n : \A x \in X[k - 1] : step[<<x, k>>] \in X[k]
  BY <1>4
<1>6. PICK h : /\ h = [k \in 0..n |-> h[k]] /\ \A k \in 0..n : h[k] \in X[k]
               /\ Follows(h, n, b, X, step)
  <2> HIDE DEF X
  <2> QED
    BY <1>1, <1>3, <1>5, Recursion
<1>7. h = Def(h)
  <2>1. ASSUME NEW k \in 0..n PROVE h[k] = IF k = 0 THEN b ELSE op(h[k - 1], k)
    <3>1. CASE k = 0
      BY <1>6, <3>1 DEF Follows
    <3>2. CASE k # 0
      <4>1. k \in 1..n /\ k - 1 \in 0..n
        BY <1>1, <3>2
      <4> HIDE DEF X
      <4>2. h[k - 1] \in X[k - 1]
        BY <1>6, <4>1
      <4> QED
        BY <1>4, <1>6, <3>2, <4>1, <4>2 DEF Follows
    <3> QED
      BY <3>1, <3>2
  <2> HIDE DEF X
  <2> QED
    BY <1>6, <2>1
<1>8. G = Def(G)
  <2> HIDE DEF Def
  <2> QED
    BY <1>7
<1>9. Follows(G, n, b, X, step)
  <2> HIDE DEF G
  <2> SUFFICES ASSUME NEW k \in 0..n
               PROVE  IF k = 0 THEN G[k] = b
                      ELSE G[k - 1] \in X[k - 1] => G[k] = step[<<G[k - 1], k>>]
    BY DEF Follows
  <2>1. G[k] = IF k = 0 THEN b ELSE op(G[k - 1], k)
    BY <1>8
  <2>2. k # 0 => k \in 1..n
    BY <1>1
  <2> HIDE DEF X
  <2> QED
    BY <1>4, <2>1, <2>2
<1>10. n \in 0..n
  BY <1>1
<1>11. G[n] \in X[n]
  <2> HIDE DEF G, X
  <2> QED
    BY <1>1, <1>3, <1>5, <1>9, <1>10, FollowsIn
<1> HIDE DEF G, In
<1>12. In(G[n], n)
  BY <1>10, <1>11
<1>13. n - n + 1 = 1 /\ n - n = 0
  BY <1>1
<1> QED
  BY <1>2, <1>12, <1>13 DEF In, Tried

\* What a call of prepare for the cache c has found.
Prepared(p, c, us, w, size) ==
  /\ CacheFits(p.cache, size) /\ Within(p.cache, c, w, size)
  /\ p.ok => \E q \in Trials(size) : /\ Tried(q, c, us, w, size) /\ Len(q.slots) = Len(us)
                                     /\ p.slots = q.slots /\ us # <<>>

\* prepare: its slots are those of the trial, and the cache is what undoing leaves.
LEMMA PrepareIs ==
  ASSUME NEW size \in Nat \ {0}, NEW c, CacheFits(c, size), NEW us \in Seq(Seq(Token)), NEW w
  PROVE  Prepared(Prepare(c, us, w), c, us, w, size)
<1> DEFINE r == Trial(c, us, w)
           p == Prepare(c, us, w)
<1>1. /\ r \in Trials(size) /\ Tried(r, c, us, w, size)
      /\ r.ok => Len(r.slots) = Len(us)
  BY TrialIs
<1>2. p = [ok |-> r.ok /\ us # <<>>, slots |-> r.slots, cache |-> TakenOut(r)]
  BY Zenon DEF Prepare
<1> HIDE DEF r, p
<1>3. CacheFits(TakenOut(r), size) /\ Within(TakenOut(r), c, w, size)
  BY <1>1, TakenOutIs
<1>4. p.cache = TakenOut(r) /\ p.slots = r.slots /\ p.ok = (r.ok /\ us # <<>>)
  BY <1>2
<1> QED
  BY <1>1, <1>3, <1>4 DEF Prepared, p

-----------------------------------------------------------------------------
(* The ubatches are put in. *)

\* The caches of g, one after the other, are those after each ubatch.
Run(g, c, us, slots, n, size) ==
  /\ g[0] = c /\ \A m \in 0..n : CacheFits(g[m], size)
  /\ \A m \in 1..n : g[m] = ApplyAll(g[m - 1], us[m], slots[m])

\* The caches while the ubatches are put in, one after the other.
LEMMA ProcessedIs ==
  ASSUME NEW size \in Nat \ {0}, NEW p, CacheFits(p.cache, size), NEW us \in Seq(Seq(Token)),
         NEW n \in 0..Len(us), \A m \in 1..n : SlotsOK(p.slots[m], us[m], size)
  PROVE  \E g : Run(g, p.cache, us, p.slots, n, size) /\ Processed(p, us, n) = g[n]
<1> DEFINE b == p.cache
           C == [Streams -> Stream(size)]
           X == [k \in 0..n |-> {x \in C : CacheFits(x, size)}]
           op(x, k) == ApplyAll(x, us[k], p.slots[k])
           step == [z \in C \X (1..n) |-> op(z[1], z[2])]
           Def(g) == [k \in 0..n |-> IF k = 0 THEN b ELSE op(g[k - 1], k)]
           G == CHOOSE g : g = Def(g)
<1>1. n \in Nat /\ Len(us) \in Nat /\ n <= Len(us)
  BY LenProperties
<1>2. Processed(p, us, n) = G[n]
  BY DEF Processed
<1>3. b \in X[0]
  BY <1>1 DEF CacheFits
<1>4. ASSUME NEW k \in 1..n, NEW x \in X[k - 1] PROVE step[<<x, k>>] = op(x, k) /\ op(x, k) \in X[k]
  <2>1. k - 1 \in 0..n /\ k \in 0..n /\ k \in 1..Len(us)
    BY <1>1
  <2>2. x \in C /\ CacheFits(x, size) /\ us[k] \in Seq(Token)
    BY <2>1
  <2>3. CacheFits(op(x, k), size)
    BY <2>2, ApplyAllIs
  <2>4. op(x, k) \in C
    BY <2>3 DEF CacheFits
  <2>5. step[<<x, k>>] = op(x, k)
    <3> HIDE DEF op, C
    <3> QED
      BY <2>2
  <2> HIDE DEF op, C
  <2> QED
    BY <2>1, <2>3, <2>4, <2>5
<1> HIDE DEF b, step, op, C
<1>5. \A k \in 1..n : \A x \in X[k - 1] : step[<<x, k>>] \in X[k]
  BY <1>4
<1>6. PICK h : /\ h = [k \in 0..n |-> h[k]] /\ \A k \in 0..n : h[k] \in X[k]
               /\ Follows(h, n, b, X, step)
  <2> HIDE DEF X
  <2> QED
    BY <1>1, <1>3, <1>5, Recursion
<1>7. h = Def(h)
  <2>1. ASSUME NEW k \in 0..n PROVE h[k] = IF k = 0 THEN b ELSE op(h[k - 1], k)
    <3>1. CASE k = 0
      BY <1>6, <3>1 DEF Follows
    <3>2. CASE k # 0
      <4>1. k \in 1..n /\ k - 1 \in 0..n
        BY <1>1, <3>2
      <4> HIDE DEF X
      <4>2. h[k - 1] \in X[k - 1]
        BY <1>6, <4>1
      <4> QED
        BY <1>4, <1>6, <3>2, <4>1, <4>2 DEF Follows
    <3> QED
      BY <3>1, <3>2
  <2> HIDE DEF X
  <2> QED
    BY <1>6, <2>1
<1>8. G = Def(G)
  <2> HIDE DEF Def
  <2> QED
    BY <1>7
<1>9. Follows(G, n, b, X, step)
  <2> HIDE DEF G
  <2> SUFFICES ASSUME NEW k \in 0..n
               PROVE  IF k = 0 THEN G[k] = b
                      ELSE G[k - 1] \in X[k - 1] => G[k] = step[<<G[k - 1], k>>]
    BY DEF Follows
  <2>1. G[k] = IF k = 0 THEN b ELSE op(G[k - 1], k)
    BY <1>8
  <2>2. k # 0 => k \in 1..n
    BY <1>1
  <2> HIDE DEF X
  <2> QED
    BY <1>4, <2>1, <2>2
<1>10. /\ G[0] = b /\ \A k \in 0..n : G[k] \in X[k]
       /\ \A k \in 1..n : G[k] = step[<<G[k - 1], k>>]
  <2> HIDE DEF G, X
  <2>1. G[0] = b
    BY <1>1, <1>3, <1>5, <1>9, FollowsIn
  <2>2. \A k \in 0..n : G[k] \in X[k]
    BY <1>1, <1>3, <1>5, <1>9, FollowsIn
  <2>3. ASSUME NEW k \in 1..n PROVE G[k] = step[<<G[k - 1], k>>]
    <3>1. k - 1 \in 0..n /\ k \in 0..n /\ k # 0
      BY <1>1
    <3> QED
      BY <1>9, <2>2, <3>1 DEF Follows
  <2> QED
    BY <2>1, <2>2, <2>3
<1> HIDE DEF G
<1>11. \A k \in 1..n : k - 1 \in 0..n
  BY <1>1
<1>12. \A k \in 1..n : G[k] = op(G[k - 1], k)
  <2> HIDE DEF X
  <2> QED
    BY <1>4, <1>10, <1>11
<1>13. \A k \in 0..n : CacheFits(G[k], size)
  BY <1>10
<1>14. Run(G, p.cache, us, p.slots, n, size)
  BY <1>10, <1>12, <1>13 DEF Run, op, b
<1> QED
  BY <1>2, <1>14

\* The same slots change two caches with the same cells alike.
LEMMA SameApplied ==
  ASSUME NEW size \in Nat \ {0}, NEW c, CacheFits(c, size), NEW d, CacheFits(d, size),
         Within(c, d, 0, size), NEW u \in Seq(Token), NEW slots, SlotsOK(slots, u, size),
         Untaken(d, u, slots)
  PROVE  /\ Untaken(c, u, slots)
         /\ Within(ApplyAll(c, u, slots), ApplyAll(d, u, slots), 0, size)
<1> DEFINE x == ApplyAll(c, u, slots)
           y == ApplyAll(d, u, slots)
<1>1. \A t \in Streams, i \in 0..size - 1 : c[t].cell[i] = d[t].cell[i]
  BY DEF Within
<1>2. \A t \in StreamsOf(u) : /\ t \in Streams /\ ToSet(slots[t]) \subseteq 0..size - 1
  <2> SUFFICES ASSUME NEW t \in StreamsOf(u)
               PROVE  t \in Streams /\ ToSet(slots[t]) \subseteq 0..size - 1
    OBVIOUS
  <2>1. slots[t] \in Seq(0..size - 1)
    BY DEF SlotsOK, SlotOK
  <2> QED
    BY <2>1, StreamsOfIs DEF ToSet
<1>3. Untaken(c, u, slots)
  BY <1>1, <1>2 DEF Untaken
<1>4. \A t \in Streams : AppliedExactlyIn(x, c, u, slots, size, t)
  BY <1>3, ApplyAllExact
<1>5. \A t \in Streams : AppliedExactlyIn(y, d, u, slots, size, t)
  BY ApplyAllExact
<1> HIDE DEF x, y
<1>6. ASSUME NEW t \in Streams, NEW i \in 0..size - 1 PROVE x[t].cell[i] = y[t].cell[i]
  <2>1. CASE t \in StreamsOf(u)
    <3>1. AppliedExactly(x[t], c[t], slots[t], PartOf(u, t), size)
      BY <1>4, <2>1 DEF AppliedExactlyIn
    <3>2. AppliedExactly(y[t], d[t], slots[t], PartOf(u, t), size)
      BY <1>5, <2>1 DEF AppliedExactlyIn
    <3>3. CASE i \in ToSet(slots[t])
      <4>1. PICK j \in DOMAIN slots[t] : slots[t][j] = i
        BY <3>3 DEF ToSet
      <4> QED
        BY <3>1, <3>2, <4>1 DEF AppliedExactly
    <3>4. CASE i \notin ToSet(slots[t])
      BY <1>1, <3>1, <3>2, <3>4 DEF AppliedExactly
    <3> QED
      BY <3>3, <3>4
  <2>2. CASE t \notin StreamsOf(u)
    BY <1>1, <1>4, <1>5, <2>2 DEF AppliedExactlyIn
  <2> QED
    BY <2>1, <2>2
<1> QED
  BY <1>3, <1>6 DEF Within, x, y

\* A ubatch is put into both caches: what covered goes on covering.
LEMMA CovApplied ==
  ASSUME NEW b, CacheFits(b, SizeBase), NEW k, CacheFits(k, SizeSwa), NEW u \in Seq(Token),
         NEW sb, SlotsOK(sb, u, SizeBase), Untaken(b, u, sb), NEW ss, SlotsOK(ss, u, SizeSwa),
         NEW s \in Seqs, Cov(s, b[StreamOf(s)], k[StreamOf(s)])
  PROVE  Cov(s, ApplyAll(b, u, sb)[StreamOf(s)], ApplyAll(k, u, ss)[StreamOf(s)])
<1> DEFINE t == StreamOf(s)
           b2 == ApplyAll(b, u, sb)
           k2 == ApplyAll(k, u, ss)
<1>1. t \in Streams /\ SizeBase \in Nat \ {0} /\ SizeSwa \in Nat \ {0}
  BY StreamType, Sizes
<1>2. /\ CacheFits(b2, SizeBase) /\ AppliedExactlyIn(b2, b, u, sb, SizeBase, t)
  BY <1>1, ApplyAllIs, ApplyAllExact
<1>3. /\ CacheFits(k2, SizeSwa) /\ AppliedIn(k2, k, u, ss, SizeSwa, t)
  BY <1>1, ApplyAllIs
<1> HIDE DEF b2, k2
<1>4. /\ Cells(b[t]) = 0..SizeBase - 1 /\ Cells(b2[t]) = 0..SizeBase - 1
      /\ Cells(k[t]) = 0..SizeSwa - 1 /\ Cells(k2[t]) = 0..SizeSwa - 1
  BY <1>1, <1>2, <1>3, CellsAre DEF CacheFits
<1>5. \A i \in 0..SizeBase - 1 : CellOK(b[t].cell[i], t)
  BY <1>1 DEF CacheFits, StreamOK
<1>6. Cov(s, b[t], k[t])
  OBVIOUS
<1> SUFFICES Cov(s, b2[t], k2[t])
  BY DEF b2, k2
<1> HIDE DEF t
<1>7. CASE t \in StreamsOf(u)
  <2>1. /\ AppliedExactly(b2[t], b[t], sb[t], PartOf(u, t), SizeBase)
        /\ Applied(k2[t], k[t], ss[t], PartOf(u, t), SizeSwa)
    BY <1>2, <1>3, <1>7 DEF AppliedExactlyIn, AppliedIn
  <2>2. /\ sb[t] \in Seq(0..SizeBase - 1) /\ DOMAIN sb[t] = DOMAIN ss[t]
        /\ \A i \in ToSet(sb[t]) : IsEmpty(b[t].cell[i])
    <3>1. SlotOK(sb[t], Len(PartOf(u, t)), SizeBase) /\ SlotOK(ss[t], Len(PartOf(u, t)), SizeSwa)
      BY <1>7 DEF SlotsOK
    <3> QED
      BY <1>7, <3>1 DEF SlotOK, Untaken
  <2>3. \A j \in DOMAIN sb[t] : sb[t][j] \in 0..SizeBase - 1
    <3> DEFINE slot == sb[t]
    <3>1. slot \in Seq(0..SizeBase - 1)
      BY <2>2
    <3> HIDE DEF slot
    <3>2. \A j \in DOMAIN slot : slot[j] \in 0..SizeBase - 1
      BY <3>1, LenProperties, ElementOfSeq
    <3> QED
      BY <3>2 DEF slot
  <2> SUFFICES ASSUME NEW i \in 0..SizeSwa - 1, s \in k2[t].cell[i].seqs
               PROVE  \E j \in 0..SizeBase - 1 : Covers(b2[t].cell[j], k2[t].cell[i])
    BY <1>4 DEF Cov
  <2>4. CASE i \in ToSet(ss[t])
    <3>1. PICK j \in DOMAIN ss[t] : Less(k2[t].cell[i], Placed(PartOf(u, t)[j]))
      BY <2>1, <2>4 DEF Applied
    <3>2. b2[t].cell[sb[t][j]] = Placed(PartOf(u, t)[j]) /\ sb[t][j] \in 0..SizeBase - 1
      BY <2>1, <2>2, <2>3, <3>1 DEF AppliedExactly
    <3> QED
      BY <3>1, <3>2 DEF Covers, Less
  <2>5. CASE i \notin ToSet(ss[t])
    <3>1. Less(k2[t].cell[i], k[t].cell[i])
      BY <2>1, <2>5 DEF Applied
    <3>2. PICK j \in 0..SizeBase - 1 : Covers(b[t].cell[j], k[t].cell[i])
      BY <1>4, <1>6, <3>1 DEF Cov, Less
    <3>3. s \in b[t].cell[j].seqs
      BY <3>1, <3>2 DEF Covers, Less
    <3>4. j \notin ToSet(sb[t])
      BY <1>5, <2>2, <3>3 DEF CellOK, IsEmpty
    <3>5. b2[t].cell[j] = b[t].cell[j]
      BY <2>1, <3>4 DEF AppliedExactly
    <3> QED
      BY <3>1, <3>2, <3>5 DEF Covers, Less
  <2> QED
    BY <2>4, <2>5
<1>8. CASE t \notin StreamsOf(u)
  BY <1>2, <1>3, <1>6, <1>8 DEF AppliedExactlyIn, AppliedIn
<1> QED
  BY <1>7, <1>8

\* Ubatches that were prepared for both caches are put into both.
LEMMA RunIs ==
  ASSUME NEW us \in Seq(Seq(Token)), NEW n \in 0..Len(us), NEW b0, NEW k0, NEW pb, NEW ps,
         Prepared(pb, b0, us, 0, SizeBase), pb.ok, Prepared(ps, k0, us, Window, SizeSwa), ps.ok,
         NEW E, \A s \in Seqs \ E : Cov(s, pb.cache[StreamOf(s)], ps.cache[StreamOf(s)])
  PROVE  LET b == Processed(pb, us, n)
             k == Processed(ps, us, n)
         IN /\ CacheFits(b, SizeBase) /\ CacheFits(k, SizeSwa)
            /\ \A s \in Seqs \ E : Cov(s, b[StreamOf(s)], k[StreamOf(s)])
<1>1. SizeBase \in Nat \ {0} /\ SizeSwa \in Nat \ {0} /\ Len(us) \in Nat /\ n \in Nat /\ n <= Len(us)
  BY Sizes, LenProperties
<1>2. PICK q \in Trials(SizeBase) : /\ Tried(q, b0, us, 0, SizeBase) /\ Len(q.slots) = Len(us)
                                    /\ pb.slots = q.slots
  BY DEF Prepared
<1>3. PICK r \in Trials(SizeSwa) : /\ Tried(r, k0, us, Window, SizeSwa) /\ Len(r.slots) = Len(us)
                                   /\ ps.slots = r.slots
  BY DEF Prepared
<1>4. DOMAIN q.slots = 1..Len(us) /\ DOMAIN r.slots = 1..Len(us) /\ DOMAIN q.caches = 1..Len(us) + 1
  <2>1. /\ q.slots \in Seq(SlotSets(SizeBase)) /\ r.slots \in Seq(SlotSets(SizeSwa))
        /\ q.caches \in Seq([Streams -> Stream(SizeBase)]) /\ Len(q.caches) = Len(q.slots) + 1
    BY <1>2 DEF Trials, Tried
  <2> QED
    BY <1>2, <1>3, <2>1, LenProperties
<1>5. \A m \in 1..n : /\ us[m] \in Seq(Token) /\ m \in 1..Len(us)
                      /\ SlotsOK(pb.slots[m], us[m], SizeBase) /\ SlotsOK(ps.slots[m], us[m], SizeSwa)
                      /\ Untaken(q.caches[m], us[m], pb.slots[m])
                      /\ q.caches[m + 1] = ApplyAll(q.caches[m], us[m], pb.slots[m])
                      /\ CacheFits(q.caches[m], SizeBase)
  <2> SUFFICES ASSUME NEW m \in 1..n
               PROVE  /\ us[m] \in Seq(Token) /\ m \in 1..Len(us)
                      /\ SlotsOK(pb.slots[m], us[m], SizeBase) /\ SlotsOK(ps.slots[m], us[m], SizeSwa)
                      /\ Untaken(q.caches[m], us[m], pb.slots[m])
                      /\ q.caches[m + 1] = ApplyAll(q.caches[m], us[m], pb.slots[m])
                      /\ CacheFits(q.caches[m], SizeBase)
    OBVIOUS
  <2>1. m \in 1..Len(us) /\ m \in 1..Len(us) + 1
    BY <1>1
  <2>2. us[m] \in Seq(Token)
    BY <2>1
  <2> QED
    BY <1>2, <1>3, <1>4, <2>1, <2>2 DEF Tried
<1>6. PICK g : Run(g, pb.cache, us, pb.slots, n, SizeBase) /\ Processed(pb, us, n) = g[n]
  BY <1>1, <1>5, ProcessedIs DEF Prepared
<1>7. PICK h : Run(h, ps.cache, us, ps.slots, n, SizeSwa) /\ Processed(ps, us, n) = h[n]
  BY <1>1, <1>5, ProcessedIs DEF Prepared
<1> DEFINE S == {m \in 0..n : /\ Within(g[m], q.caches[m + 1], 0, SizeBase)
                              /\ \A s \in Seqs \ E : Cov(s, g[m][StreamOf(s)], h[m][StreamOf(s)])}
<1>8. 0 \in S
  <2>1. g[0] = pb.cache /\ h[0] = ps.cache /\ q.caches[1] = b0
    BY <1>2, <1>6, <1>7 DEF Run, Tried
  <2>2. Within(pb.cache, b0, 0, SizeBase)
    BY DEF Prepared
  <2> QED
    BY <1>1, <2>1, <2>2
<1>9. ASSUME NEW m \in 1..n, m - 1 \in S PROVE m \in S
  <2>1. m - 1 \in 0..n /\ m \in 0..n /\ m - 1 + 1 = m
    BY <1>1
  <2>2. /\ Within(g[m - 1], q.caches[m], 0, SizeBase)
        /\ \A s \in Seqs \ E : Cov(s, g[m - 1][StreamOf(s)], h[m - 1][StreamOf(s)])
    BY <1>9, <2>1
  <2>3. CacheFits(g[m - 1], SizeBase) /\ CacheFits(h[m - 1], SizeSwa)
    BY <1>6, <1>7, <2>1 DEF Run
  <2>4. g[m] = ApplyAll(g[m - 1], us[m], pb.slots[m]) /\ h[m] = ApplyAll(h[m - 1], us[m], ps.slots[m])
    BY <1>6, <1>7 DEF Run
  <2>5. /\ Untaken(g[m - 1], us[m], pb.slots[m])
        /\ Within(g[m], q.caches[m + 1], 0, SizeBase)
    BY <1>1, <1>5, <2>2, <2>3, <2>4, SameApplied
  <2>6. ASSUME NEW s \in Seqs \ E PROVE Cov(s, g[m][StreamOf(s)], h[m][StreamOf(s)])
    <3>1. Cov(s, g[m - 1][StreamOf(s)], h[m - 1][StreamOf(s)])
      BY <2>2
    <3> HIDE DEF S
    <3>2. /\ us[m] \in Seq(Token)
          /\ SlotsOK(pb.slots[m], us[m], SizeBase) /\ SlotsOK(ps.slots[m], us[m], SizeSwa)
      BY <1>5
    <3> QED
      BY <2>3, <2>4, <2>5, <3>1, <3>2, CovApplied
  <2> QED
    BY <2>1, <2>5, <2>6
<1>10. \A m \in 0..n : m \in S
  <2> HIDE DEF S
  <2> QED
    BY <1>1, <1>8, <1>9, UpTo
<1>11. n \in 0..n
  BY <1>1
<1>12. n \in S
  <2> HIDE DEF S
  <2> QED
    BY <1>10, <1>11
<1> QED
  BY <1>6, <1>7, <1>11, <1>12 DEF Run

-----------------------------------------------------------------------------
(* What a decode leaves. *)

\* Two caches that fit are good when the window is covered.
LEMMA FitsGood ==
  ASSUME NEW b, CacheFits(b, SizeBase), NEW k, CacheFits(k, SizeSwa),
         NEW E, \A s \in Seqs \ E : Cov(s, b[StreamOf(s)], k[StreamOf(s)])
  PROVE  Good(b, k, E)
BY CacheIs DEF CacheFits, Good

\* Good caches fit.
LEMMA GoodFits ==
  ASSUME NEW b, NEW k, NEW E, Good(b, k, E)
  PROVE  CacheFits(b, SizeBase) /\ CacheFits(k, SizeSwa)
BY CacheIs DEF CacheFits, Good

\* What was only prepared is still covered.
LEMMA CovWithin ==
  ASSUME NEW b, CacheFits(b, SizeBase), NEW k, CacheFits(k, SizeSwa),
         NEW b2, CacheFits(b2, SizeBase), NEW k2, CacheFits(k2, SizeSwa),
         Within(b2, b, 0, SizeBase), Within(k2, k, Window, SizeSwa),
         NEW s \in Seqs, Cov(s, b[StreamOf(s)], k[StreamOf(s)])
  PROVE  Cov(s, b2[StreamOf(s)], k2[StreamOf(s)])
<1> DEFINE t == StreamOf(s)
<1>1. t \in Streams /\ Window # 0
  BY StreamType, SizesAssumption
<1>2. /\ Cells(b[t]) = 0..SizeBase - 1 /\ Cells(b2[t]) = 0..SizeBase - 1
      /\ Cells(k[t]) = 0..SizeSwa - 1 /\ Cells(k2[t]) = 0..SizeSwa - 1
  BY <1>1, CellsAre DEF CacheFits
<1>3. /\ \A i \in 0..SizeBase - 1 : b2[t].cell[i] = b[t].cell[i]
      /\ \A i \in 0..SizeSwa - 1 : Less(k2[t].cell[i], k[t].cell[i])
  BY <1>1 DEF Within
<1>4. Cov(s, b[t], k[t])
  OBVIOUS
<1> SUFFICES Cov(s, b2[t], k2[t])
  OBVIOUS
<1> HIDE DEF t
<1> SUFFICES ASSUME NEW i \in 0..SizeSwa - 1, s \in k2[t].cell[i].seqs
             PROVE  \E j \in 0..SizeBase - 1 : Covers(b2[t].cell[j], k2[t].cell[i])
  BY <1>2 DEF Cov
<1>5. Less(k2[t].cell[i], k[t].cell[i])
  BY <1>3
<1>6. PICK j \in 0..SizeBase - 1 : Covers(b[t].cell[j], k[t].cell[i])
  BY <1>2, <1>4, <1>5 DEF Cov, Less
<1> QED
  BY <1>3, <1>5, <1>6 DEF Covers, Less

\* The sequences of a cell from which a failed ubatch is taken out.
Failed(x, u) == {s \in x.seqs : \E i \in DOMAIN u : u[i].seqs[1] = s /\ u[i].pos <= x.pos}

\* The rollback works on each cell by itself.
LEMMA RolledBackIs ==
  ASSUME NEW size \in Nat, NEW c, CacheFits(c, size), NEW u
  PROVE  /\ CacheFits(RolledBack(c, u), size)
         /\ \A t \in Streams, i \in 0..size - 1 :
              RolledBack(c, u)[t].cell[i] = Without(c[t].cell[i], Failed(c[t].cell[i], u))
<1> DEFINE new(t) == [i \in Cells(c[t]) |-> Without(c[t].cell[i], Failed(c[t].cell[i], u))]
           r == RolledBack(c, u)
<1>1. r = [t \in Streams |-> HeadToFreed(c[t], Change(c[t], new(t)))]
  BY Zenon DEF RolledBack, Failed
<1> HIDE DEF r
<1>2. ASSUME NEW t \in Streams
      PROVE  /\ StreamOK(r[t], size, t)
             /\ \A i \in 0..size - 1 : r[t].cell[i] = Without(c[t].cell[i], Failed(c[t].cell[i], u))
  <2>1. StreamOK(c[t], size, t) /\ Cells(c[t]) = 0..size - 1
    BY CellsAre DEF CacheFits
  <2> DEFINE n == new(t)
  <2>2. /\ DOMAIN n = 0..size - 1
        /\ \A i \in 0..size - 1 : n[i] = Without(c[t].cell[i], Failed(c[t].cell[i], u))
    BY <2>1
  <2>3. r[t] = HeadToFreed(c[t], Change(c[t], n))
    BY <1>1
  <2> HIDE DEF n
  <2>4. \A i \in DOMAIN n : CellOK(n[i], t)
    BY <2>1, <2>2, WithoutOK DEF StreamOK
  <2>5. DOMAIN n \subseteq Cells(c[t])
    BY <2>1, <2>2
  <2>6. StreamOK(r[t], size, t) /\ Became(r[t], c[t], n, size)
    BY <2>1, <2>3, <2>4, <2>5, ChangedAndFreed
  <2> QED
    BY <2>2, <2>6 DEF Became
<1>3. r = [t \in Streams |-> r[t]]
  BY <1>1
<1>4. r \in [Streams -> Stream(size)]
  BY <1>2, <1>3 DEF StreamOK
<1> QED
  BY <1>2, <1>4 DEF CacheFits, r

\* A sequence that stays in a cell of the window cache stays in the one that covers it.
LEMMA CoversFailed ==
  ASSUME NEW t, NEW x, CellOK(x, t), NEW y, CellOK(y, t), Covers(x, y), NEW u,
         NEW r \in Without(y, Failed(y, u)).seqs
  PROVE  r \in y.seqs /\ Covers(Without(x, Failed(x, u)), Without(y, Failed(y, u)))
<1>1. /\ Without(y, Failed(y, u)).seqs = y.seqs \ Failed(y, u)
      /\ Without(y, Failed(y, u)).seqs # {} => Without(y, Failed(y, u)).pos = y.pos
  BY WithoutOK
<1>2. /\ Without(x, Failed(x, u)).seqs = x.seqs \ Failed(x, u)
      /\ Without(x, Failed(x, u)).seqs # {} => Without(x, Failed(x, u)).pos = x.pos
  BY WithoutOK
<1>3. \A s \in y.seqs : s \in Failed(x, u) <=> s \in Failed(y, u)
  BY DEF Failed, Covers
<1>4. y.seqs \ Failed(y, u) \subseteq x.seqs \ Failed(x, u)
  BY <1>3 DEF Covers
<1> QED
  BY <1>1, <1>2, <1>4 DEF Covers

\* The rollback keeps what is covered, for it looks at positions and sequences only.
LEMMA CovRolledBack ==
  ASSUME NEW b, CacheFits(b, SizeBase), NEW k, CacheFits(k, SizeSwa), NEW u,
         NEW s \in Seqs, Cov(s, b[StreamOf(s)], k[StreamOf(s)])
  PROVE  Cov(s, RolledBack(b, u)[StreamOf(s)], RolledBack(k, u)[StreamOf(s)])
<1> DEFINE t == StreamOf(s)
           b2 == RolledBack(b, u)
           k2 == RolledBack(k, u)
<1>1. t \in Streams /\ SizeBase \in Nat /\ SizeSwa \in Nat
  BY StreamType, Sizes
<1>2. /\ CacheFits(b2, SizeBase)
      /\ \A i \in 0..SizeBase - 1 : b2[t].cell[i] = Without(b[t].cell[i], Failed(b[t].cell[i], u))
  BY <1>1, RolledBackIs
<1>3. /\ CacheFits(k2, SizeSwa)
      /\ \A i \in 0..SizeSwa - 1 : k2[t].cell[i] = Without(k[t].cell[i], Failed(k[t].cell[i], u))
  BY <1>1, RolledBackIs
<1> HIDE DEF b2, k2
<1>4. /\ Cells(b[t]) = 0..SizeBase - 1 /\ Cells(b2[t]) = 0..SizeBase - 1
      /\ Cells(k[t]) = 0..SizeSwa - 1 /\ Cells(k2[t]) = 0..SizeSwa - 1
  BY <1>1, <1>2, <1>3, CellsAre DEF CacheFits
<1>5. /\ \A i \in 0..SizeBase - 1 : CellOK(b[t].cell[i], t)
      /\ \A i \in 0..SizeSwa - 1 : CellOK(k[t].cell[i], t)
  BY <1>1 DEF CacheFits, StreamOK
<1>6. Cov(s, b[t], k[t])
  OBVIOUS
<1> SUFFICES Cov(s, b2[t], k2[t])
  BY DEF b2, k2
<1> HIDE DEF t
<1> SUFFICES ASSUME NEW i \in 0..SizeSwa - 1, s \in k2[t].cell[i].seqs
             PROVE  \E j \in 0..SizeBase - 1 : Covers(b2[t].cell[j], k2[t].cell[i])
  BY <1>4 DEF Cov
<1>7. s \in k[t].cell[i].seqs
  <2>1. k2[t].cell[i].seqs = k[t].cell[i].seqs \ Failed(k[t].cell[i], u)
    BY <1>3, <1>5, WithoutOK
  <2> QED
    BY <2>1
<1>8. PICK j \in 0..SizeBase - 1 : Covers(b[t].cell[j], k[t].cell[i])
  BY <1>4, <1>6, <1>7 DEF Cov
<1> QED
  BY <1>2, <1>3, <1>5, <1>8, CoversFailed

-----------------------------------------------------------------------------
(* The positions of a sequence. *)

\* The positions of a sequence in a cache.
LEMMA PosOfIs ==
  ASSUME NEW size \in Nat \ {0}, NEW c, CacheFits(c, size), NEW s \in Seqs
  PROVE  LET P == PosOf(c[StreamOf(s)], s)
             m == PosMax(c[StreamOf(s)], s)
         IN /\ P \in SUBSET (0..MaxPos) /\ m \in Int
            /\ IF P = {} THEN m = -1 ELSE m \in P /\ \A p \in P : p <= m
<1> DEFINE t == StreamOf(s)
           k == c[t]
           P == PosOf(k, s)
           m == PosMax(k, s)
<1>1. t \in Streams /\ MaxPos \in Nat
  BY StreamType, SizesAssumption
<1>2. Cells(k) = 0..size - 1 /\ \A i \in 0..size - 1 : CellOK(k.cell[i], t)
  BY <1>1, CellsAre DEF CacheFits, StreamOK
<1>3. m = IF P = {} THEN -1 ELSE Max(P)
  BY DEF PosMax
<1> HIDE DEF k, m
<1>4. ASSUME NEW p \in P PROVE p \in 0..MaxPos
  <2>1. PICK i \in 0..size - 1 : s \in k.cell[i].seqs /\ k.cell[i].pos = p
    BY <1>2 DEF PosOf
  <2>2. p \in -1..MaxPos /\ p # -1
    BY <1>2, <2>1 DEF CellOK, Cell
  <2> QED
    BY <1>1, <2>2
<1> HIDE DEF P
<1>5. P \in SUBSET (0..MaxPos)
  BY <1>4
<1>6. P # {} => Max(P) \in P /\ \A p \in P : p <= Max(P)
  BY <1>1, <1>5, GreatestIs
<1>7. m \in Int
  <2>1. P # {} => Max(P) \in Int
    BY <1>1, <1>4, <1>6
  <2> QED
    BY <1>3, <2>1
<1>8. IF P = {} THEN m = -1 ELSE m \in P /\ \A p \in P : p <= m
  BY <1>3, <1>6
<1> QED
  BY <1>5, <1>7, <1>8 DEF P, m, k

\* The positions of s in a batch, token by token.
LEMMA PosInIs ==
  ASSUME NEW T, NEW u \in Seq(T), NEW s
  PROVE  \A p : p \in PosIn(u, s) <=> \E x \in ToSet(u) : s \in ToSet(x.seqs) /\ p = x.pos
  BY DEF PosIn, ToSet

\* A token is in a list of them.
HasToken(q, x) == \E j \in DOMAIN q : q[j] = x

\* A token of a ubatch is in the part of each of its sequences' streams.
LEMMA PartHas ==
  ASSUME NEW u \in Seq(Token), NEW s, NEW x \in ToSet(u), s \in ToSet(x.seqs)
  PROVE  StreamOf(s) \in StreamsOf(u) /\ HasToken(PartOf(u, StreamOf(s)), x)
<1> DEFINE t == StreamOf(s)
           P == {i \in DOMAIN u : StreamOf(u[i].seqs[1]) = t}
<1>1. PICK i \in DOMAIN u : u[i] = x
  BY DEF ToSet
<1>2. x \in Token
  BY <1>1
<1>3. StreamOf(x.seqs[1]) = t
  BY <1>2 DEF Token
<1>4. i \in P /\ P \in SUBSET (DOMAIN u)
  BY <1>1, <1>3
<1>5. PartOf(u, t) = At(u, P)
  BY DEF PartOf
<1>6. t \in StreamsOf(u)
  BY <1>1, <1>3 DEF StreamsOf
<1> HIDE DEF P
<1>7. At(u, P) \in Seq(Token) /\ \E n \in 1..Len(At(u, P)) : At(u, P)[n] = u[i]
  BY <1>4, AtIs, AtHas
<1> QED
  BY <1>1, <1>5, <1>6, <1>7 DEF HasToken

\* A ubatch that takes only empty cells adds its positions, and nothing else changes.
LEMMA PosApplied ==
  ASSUME NEW size \in Nat \ {0}, NEW c, CacheFits(c, size), NEW u \in Seq(Token),
         NEW slots, SlotsOK(slots, u, size), Untaken(c, u, slots), NEW s \in Seqs
  PROVE  PosOf(ApplyAll(c, u, slots)[StreamOf(s)], s) = PosOf(c[StreamOf(s)], s) \cup PosIn(u, s)
<1> DEFINE t == StreamOf(s)
           a == ApplyAll(c, u, slots)
           r == a[t]
           k == c[t]
           slot == slots[t]
           part == PartOf(u, t)
<1>1. t \in Streams
  BY StreamType
<1>2. CacheFits(a, size) /\ AppliedExactlyIn(a, c, u, slots, size, t)
  BY <1>1, ApplyAllIs, ApplyAllExact
<1>3. Cells(r) = 0..size - 1 /\ Cells(k) = 0..size - 1
  BY <1>1, <1>2, CellsAre DEF CacheFits, StreamOK
<1>4. \A i \in 0..size - 1 : CellOK(k.cell[i], t)
  BY <1>1 DEF CacheFits, StreamOK
<1>5. \A p : p \in PosIn(u, s) <=> \E x \in ToSet(u) : s \in ToSet(x.seqs) /\ p = x.pos
  BY PosInIs
<1> HIDE DEF a
<1>6. CASE t \in StreamsOf(u)
  <2>1. AppliedExactly(r, k, slot, part, size) /\ SlotOK(slot, Len(part), size)
    BY <1>2, <1>6 DEF AppliedExactlyIn, SlotsOK
  <2>2. part \in Seq(Token) /\ DOMAIN part = 1..Len(part)
    BY PartIs, LenProperties
  <2>3. slot \in Seq(0..size - 1) /\ DOMAIN slot = DOMAIN part
    <3>1. slot \in Seq(0..size - 1) /\ Len(slot) = Len(part)
      BY <2>1 DEF SlotOK
    <3> QED
      BY <2>2, <3>1, LenProperties
  <2>4. \A j \in DOMAIN part : part[j] \in ToSet(u)
    <3> DEFINE P == {i \in DOMAIN u : StreamOf(u[i].seqs[1]) = t}
    <3>1. P \in SUBSET (DOMAIN u) /\ part = At(u, P)
      BY DEF PartOf
    <3> HIDE DEF P
    <3>2. \A n \in 1..Len(part) : \E i \in P : part[n] = u[i]
      BY <3>1, AtIs
    <3> QED
      BY <2>2, <3>1, <3>2 DEF ToSet
  <2>5. \A i \in ToSet(slot) : k.cell[i].seqs = {} /\ i \in 0..size - 1
    <3> SUFFICES ASSUME NEW i \in ToSet(slot) PROVE k.cell[i].seqs = {} /\ i \in 0..size - 1
      OBVIOUS
    <3>1. i \in 0..size - 1
      BY <2>3 DEF ToSet
    <3>2. IsEmpty(k.cell[i])
      BY <1>6 DEF Untaken
    <3> QED
      BY <1>4, <3>1, <3>2 DEF CellOK, IsEmpty
  <2> HIDE DEF r, k, slot, part
  <2>6. ASSUME NEW p \in PosOf(r, s) PROVE p \in PosOf(k, s) \cup PosIn(u, s)
    <3>1. PICK i \in 0..size - 1 : s \in r.cell[i].seqs /\ r.cell[i].pos = p
      BY <1>3 DEF PosOf
    <3>2. CASE i \in ToSet(slot)
      <4>1. PICK j \in DOMAIN slot : slot[j] = i
        BY <3>2 DEF ToSet
      <4>2. r.cell[i] = Placed(part[j])
        BY <2>1, <4>1 DEF AppliedExactly
      <4>3. s \in ToSet(part[j].seqs) /\ p = part[j].pos /\ part[j] \in ToSet(u)
        BY <2>3, <2>4, <3>1, <4>2 DEF Placed
      <4> QED
        BY <1>5, <4>3
    <3>3. CASE i \notin ToSet(slot)
      <4>1. r.cell[i] = k.cell[i]
        BY <2>1, <3>3 DEF AppliedExactly
      <4> QED
        BY <1>3, <3>1, <4>1 DEF PosOf
    <3> QED
      BY <3>2, <3>3
  <2>7. ASSUME NEW p \in PosOf(k, s) PROVE p \in PosOf(r, s)
    <3>1. PICK i \in 0..size - 1 : s \in k.cell[i].seqs /\ k.cell[i].pos = p
      BY <1>3 DEF PosOf
    <3>2. i \notin ToSet(slot)
      BY <2>5, <3>1
    <3>3. r.cell[i] = k.cell[i]
      BY <2>1, <3>2 DEF AppliedExactly
    <3> QED
      BY <1>3, <3>1, <3>3 DEF PosOf
  <2>8. ASSUME NEW p \in PosIn(u, s) PROVE p \in PosOf(r, s)
    <3>1. PICK x \in ToSet(u) : s \in ToSet(x.seqs) /\ p = x.pos
      BY <1>5
    <3>2. \E j \in DOMAIN part : part[j] = x
      <4>1. HasToken(PartOf(u, StreamOf(s)), x)
        BY <3>1, PartHas, Zenon
      <4> QED
        BY <4>1 DEF part, HasToken
    <3>3. PICK j \in DOMAIN part : part[j] = x
      BY <3>2
    <3>4. r.cell[slot[j]] = Placed(x) /\ slot[j] \in 0..size - 1
      BY <2>1, <2>3, <3>3 DEF AppliedExactly
    <3> QED
      BY <1>3, <3>1, <3>4 DEF PosOf, Placed
  <2>9. PosOf(r, s) = PosOf(k, s) \cup PosIn(u, s)
    BY <2>6, <2>7, <2>8
  <2> QED
    BY <2>9 DEF r, k, a
<1>7. CASE t \notin StreamsOf(u)
  <2>1. r = k
    BY <1>2, <1>7 DEF AppliedExactlyIn
  <2>2. PosIn(u, s) = {}
    BY <1>5, <1>7, PartHas
  <2> QED
    BY <2>1, <2>2 DEF a
<1> QED
  BY <1>6, <1>7

\* Undoing a trial leaves the positions of the base cache.
LEMMA PosWithin ==
  ASSUME NEW size \in Nat \ {0}, NEW x, CacheFits(x, size), NEW c, CacheFits(c, size),
         Within(x, c, 0, size), NEW s \in Seqs
  PROVE  PosOf(x[StreamOf(s)], s) = PosOf(c[StreamOf(s)], s)
<1> DEFINE t == StreamOf(s)
<1>1. t \in Streams
  BY StreamType
<1>2. Cells(x[t]) = 0..size - 1 /\ Cells(c[t]) = 0..size - 1
  BY <1>1, CellsAre DEF CacheFits, StreamOK
<1>3. \A i \in 0..size - 1 : x[t].cell[i] = c[t].cell[i]
  BY <1>1 DEF Within
<1> HIDE DEF t
<1>4. PosOf(x[t], s) = PosOf(c[t], s)
  BY <1>2, <1>3 DEF PosOf
<1> QED
  BY <1>4 DEF t

\* The positions of s in the first n ubatches.
PosUpTo(us, n, s) == UNION {PosIn(us[m], s) : m \in 1..n}

\* Ubatches that were prepared for the base cache add their positions to those before.
LEMMA PosProcessed ==
  ASSUME NEW us \in Seq(Seq(Token)), NEW n \in 0..Len(us), NEW c, CacheFits(c, SizeBase),
         NEW b0, NEW p, Prepared(p, b0, us, 0, SizeBase), p.ok,
         Within(p.cache, c, 0, SizeBase), NEW s \in Seqs
  PROVE  /\ CacheFits(Processed(p, us, n), SizeBase)
         /\ PosOf(Processed(p, us, n)[StreamOf(s)], s) = PosOf(c[StreamOf(s)], s) \cup PosUpTo(us, n, s)
<1>1. SizeBase \in Nat \ {0} /\ Len(us) \in Nat /\ n \in Nat /\ n <= Len(us)
  BY Sizes, LenProperties
<1>2. PICK q \in Trials(SizeBase) : /\ Tried(q, b0, us, 0, SizeBase) /\ Len(q.slots) = Len(us)
                                    /\ p.slots = q.slots
  BY DEF Prepared
<1>3. DOMAIN q.slots = 1..Len(us) /\ DOMAIN q.caches = 1..Len(us) + 1
  <2>1. /\ q.slots \in Seq(SlotSets(SizeBase))
        /\ q.caches \in Seq([Streams -> Stream(SizeBase)]) /\ Len(q.caches) = Len(q.slots) + 1
    BY <1>2 DEF Trials, Tried
  <2> QED
    BY <1>2, <2>1, LenProperties
<1>4. ASSUME NEW m \in 1..n
      PROVE  /\ us[m] \in Seq(Token) /\ m \in 1..Len(us) /\ SlotsOK(p.slots[m], us[m], SizeBase)
             /\ Untaken(q.caches[m], us[m], p.slots[m])
             /\ q.caches[m + 1] = ApplyAll(q.caches[m], us[m], p.slots[m])
             /\ CacheFits(q.caches[m], SizeBase)
  <2>1. m \in 1..Len(us) /\ m \in 1..Len(us) + 1
    BY <1>1
  <2>2. us[m] \in Seq(Token)
    BY <2>1
  <2> QED
    BY <1>2, <1>3, <2>1, <2>2 DEF Tried
<1>5. PICK g : Run(g, p.cache, us, p.slots, n, SizeBase) /\ Processed(p, us, n) = g[n]
  BY <1>1, <1>4, ProcessedIs DEF Prepared
<1> DEFINE t == StreamOf(s)
           S == {m \in 0..n : /\ Within(g[m], q.caches[m + 1], 0, SizeBase)
                              /\ PosOf(g[m][t], s) = PosOf(c[t], s) \cup PosUpTo(us, m, s)}
<1>6. 0 \in S
  <2>1. g[0] = p.cache /\ q.caches[1] = b0 /\ CacheFits(g[0], SizeBase)
    BY <1>1, <1>2, <1>5 DEF Run, Tried
  <2>2. Within(p.cache, b0, 0, SizeBase)
    BY DEF Prepared
  <2>3. PosOf(g[0][t], s) = PosOf(c[t], s)
    BY <1>1, <2>1, PosWithin
  <2>4. PosUpTo(us, 0, s) = {}
    BY DEF PosUpTo
  <2> QED
    BY <1>1, <2>1, <2>2, <2>3, <2>4
<1>7. ASSUME NEW m \in 1..n, m - 1 \in S PROVE m \in S
  <2>1. m - 1 \in 0..n /\ m \in 0..n /\ m - 1 + 1 = m
    BY <1>1
  <2>2. /\ Within(g[m - 1], q.caches[m], 0, SizeBase)
        /\ PosOf(g[m - 1][t], s) = PosOf(c[t], s) \cup PosUpTo(us, m - 1, s)
    BY <1>7, <2>1
  <2>3. CacheFits(g[m - 1], SizeBase)
    BY <1>5, <2>1 DEF Run
  <2>4. g[m] = ApplyAll(g[m - 1], us[m], p.slots[m])
    BY <1>5 DEF Run
  <2>5. /\ Untaken(g[m - 1], us[m], p.slots[m])
        /\ Within(g[m], q.caches[m + 1], 0, SizeBase)
    BY <1>1, <1>4, <2>2, <2>3, <2>4, SameApplied
  <2> HIDE DEF S
  <2>6. us[m] \in Seq(Token) /\ SlotsOK(p.slots[m], us[m], SizeBase)
    BY <1>4
  <2>7. PosOf(g[m][t], s) = PosOf(g[m - 1][t], s) \cup PosIn(us[m], s)
    <3>1. PosOf(ApplyAll(g[m - 1], us[m], p.slots[m])[t], s)
            = PosOf(g[m - 1][t], s) \cup PosIn(us[m], s)
      BY <1>1, <2>3, <2>5, <2>6, PosApplied
    <3> QED
      BY <2>4, <3>1
  <2>8. PosUpTo(us, m, s) = PosUpTo(us, m - 1, s) \cup PosIn(us[m], s)
    <3>1. \A k : k \in 1..m <=> k \in 1..m - 1 \/ k = m
      BY <1>1
    <3> QED
      BY <3>1 DEF PosUpTo
  <2> QED
    BY <2>1, <2>2, <2>5, <2>7, <2>8 DEF S
<1>8. \A m \in 0..n : m \in S
  <2> HIDE DEF S
  <2> QED
    BY <1>1, <1>6, <1>7, UpTo
<1>9. n \in 0..n
  BY <1>1
<1>10. n \in S
  <2> HIDE DEF S
  <2> QED
    BY <1>8, <1>9
<1> QED
  BY <1>5, <1>9, <1>10 DEF Run

\* What is taken out of a cache when a ubatch fails: from its first position on.
LEMMA PosRolledBack ==
  ASSUME NEW size \in Nat, NEW c, CacheFits(c, size), NEW u, NEW s \in Seqs
  PROVE  \A p : p \in PosOf(RolledBack(c, u)[StreamOf(s)], s) <=>
           /\ p \in PosOf(c[StreamOf(s)], s)
           /\ \A i \in DOMAIN u : u[i].seqs[1] = s => ~(u[i].pos <= p)
<1> DEFINE t == StreamOf(s)
           k == c[t]
           r == RolledBack(c, u)[t]
<1>1. t \in Streams
  BY StreamType
<1>2. /\ CacheFits(RolledBack(c, u), size)
      /\ \A i \in 0..size - 1 : r.cell[i] = Without(k.cell[i], Failed(k.cell[i], u))
  BY <1>1, RolledBackIs
<1>3. Cells(r) = 0..size - 1 /\ Cells(k) = 0..size - 1
  BY <1>1, <1>2, CellsAre DEF CacheFits, StreamOK
<1>4. \A i \in 0..size - 1 : CellOK(k.cell[i], t)
  BY <1>1 DEF CacheFits, StreamOK
<1> HIDE DEF r, k
<1>5. ASSUME NEW i \in 0..size - 1
      PROVE  /\ s \in r.cell[i].seqs <=>
                  /\ s \in k.cell[i].seqs
                  /\ \A j \in DOMAIN u : u[j].seqs[1] = s => ~(u[j].pos <= k.cell[i].pos)
             /\ s \in r.cell[i].seqs => r.cell[i].pos = k.cell[i].pos
  <2> DEFINE x == k.cell[i]
             y == Without(x, Failed(x, u))
  <2>1. y.seqs = x.seqs \ Failed(x, u) /\ (y.seqs # {} => y.pos = x.pos)
    BY <1>4, WithoutOK
  <2>2. r.cell[i] = y
    BY <1>2
  <2> HIDE DEF x, y
  <2>3. s \in y.seqs <=> /\ s \in x.seqs
                         /\ \A j \in DOMAIN u : u[j].seqs[1] = s => ~(u[j].pos <= x.pos)
    BY <2>1 DEF Failed
  <2> QED
    BY <2>1, <2>2, <2>3 DEF x
<1>6. \A p : p \in PosOf(r, s) <=>
           /\ p \in PosOf(k, s)
           /\ \A i \in DOMAIN u : u[i].seqs[1] = s => ~(u[i].pos <= p)
  <2>1. \A p : p \in PosOf(r, s) <=> \E i \in 0..size - 1 : s \in r.cell[i].seqs /\ r.cell[i].pos = p
    BY <1>3 DEF PosOf
  <2>2. \A p : p \in PosOf(k, s) <=> \E i \in 0..size - 1 : s \in k.cell[i].seqs /\ k.cell[i].pos = p
    BY <1>3 DEF PosOf
  <2> QED
    BY <1>5, <2>1, <2>2
<1> QED
  BY <1>6 DEF r, k

-----------------------------------------------------------------------------
(* The splits of a batch. *)

\* The ubatches us have the tokens of the batch and no others.
SplitsInto(tokens, us) ==
  /\ \A m \in DOMAIN us : \A x \in ToSet(us[m]) : x \in ToSet(tokens)
  /\ \A x \in ToSet(tokens) : \E m \in DOMAIN us : x \in ToSet(us[m])

\* The tokens with the same sequences come one after the other; in ubatches likewise.
Sorted(q) == \A i, j \in DOMAIN q : i < j /\ q[i].seqs = q[j].seqs => q[i].pos < q[j].pos

\* Of two ubatches the later one has the later tokens of a sequence.
InOrder(us) ==
  \A m, k \in DOMAIN us : m < k =>
    \A x \in ToSet(us[m]), y \in ToSet(us[k]) : x.seqs = y.seqs => x.pos < y.pos

\* Multiplying keeps the order.
LEMMA TimesOrder ==
  ASSUME NEW a \in Nat, NEW b \in Nat, a <= b, NEW u \in Nat
  PROVE  a * u <= b * u
  OBVIOUS

\* The part of a sequence that is divided by u in which its i-th element is.
LEMMA Division ==
  ASSUME NEW i \in Nat \ {0}, NEW u \in Nat \ {0}
  PROVE  \E m \in Nat \ {0} : (m - 1) * u < i /\ i <= m * u
<1> DEFINE m == (i + u - 1) \div u
<1>1. m \in Nat \ {0}
  OBVIOUS
<1>2. (m - 1) * u < i /\ i <= m * u
  OBVIOUS
<1> QED
  BY <1>1, <1>2

LEMMA DivisionEnds ==
  ASSUME NEW n \in Nat, NEW u \in Nat \ {0}
  PROVE  (n + u - 1) \div u \in Nat /\ n <= ((n + u - 1) \div u) * u
  OBVIOUS

\* split_simple makes ubatches of tokens.
LEMMA SplitSimpleIs ==
  ASSUME NEW tokens \in Seq(Token)
  PROVE  SplitSimple(tokens) \in Seq(Seq(Token))
<1> DEFINE N == (Len(tokens) + NUbatch - 1) \div NUbatch
           part(u) == SubSeq(tokens, (u - 1) * NUbatch + 1, Min({u * NUbatch, Len(tokens)}))
<1>1. NUbatch \in Nat \ {0} /\ Len(tokens) \in Nat
  BY SizesAssumption, LenProperties
<1>2. N \in Nat
  BY <1>1
<1>3. ASSUME NEW u \in 1..N PROVE part(u) \in Seq(Token)
  <2>1. u \in Nat /\ u - 1 \in Nat
    BY <1>2
  <2> DEFINE m == (u - 1) * NUbatch
             S == {u * NUbatch, Len(tokens)}
  <2>2. m \in Nat /\ u * NUbatch \in Nat
    BY <1>1, <2>1
  <2>3. S \in SUBSET Nat /\ S # {} /\ Len(tokens) \in S
    BY <1>1, <2>2
  <2>4. Min(S) \in Nat /\ Min(S) <= Len(tokens)
    <3> HIDE DEF S
    <3> QED
      BY <2>3, LeastIs
  <2> HIDE DEF S, m
  <2>5. \A i \in m + 1..Min(S) : tokens[i] \in Token
    <3>1. \A i \in m + 1..Min(S) : i \in 1..Len(tokens)
      BY <1>1, <2>2, <2>4
    <3> QED
      BY <3>1, ElementOfSeq
  <2>6. m + 1 \in Int /\ Min(S) \in Int
    BY <2>2, <2>4
  <2>7. SubSeq(tokens, m + 1, Min(S)) \in Seq(Token)
    BY <2>5, <2>6, SubSeqProperties
  <2> QED
    BY <2>7 DEF S, m
<1>4. SplitSimple(tokens) = [u \in 1..N |-> part(u)]
  BY DEF SplitSimple
<1> HIDE DEF N, part
<1> QED
  BY <1>2, <1>3, <1>4

\* split_simple leaves out no token and keeps their order.
LEMMA SplitSimpleHas ==
  ASSUME NEW tokens \in Seq(Token)
  PROVE  /\ SplitsInto(tokens, SplitSimple(tokens))
         /\ Sorted(tokens) => InOrder(SplitSimple(tokens))
<1> DEFINE L == Len(tokens)
           U == NUbatch
           N == (L + U - 1) \div U
           upto(m) == Min({m * U, L})
           part(m) == SubSeq(tokens, (m - 1) * U + 1, upto(m))
           us == SplitSimple(tokens)
<1>1. U \in Nat \ {0} /\ L \in Nat /\ DOMAIN tokens = 1..L
  BY SizesAssumption, LenProperties
<1>2. N \in Nat /\ L <= N * U
  <2> HIDE DEF L, U
  <2> QED
    BY <1>1, DivisionEnds
<1>3. us = [m \in 1..N |-> part(m)]
  BY DEF SplitSimple
<1> HIDE DEF us, N
<1>4. ASSUME NEW m \in 1..N
      PROVE  /\ m \in Nat \ {0} /\ upto(m) \in Nat /\ upto(m) <= L /\ upto(m) <= m * U
             /\ upto(m) = L \/ upto(m) = m * U
             /\ (m - 1) * U \in Nat
  <2> DEFINE S == {m * U, L}
  <2>1. m \in Nat \ {0} /\ m - 1 \in Nat
    BY <1>2
  <2>2. m * U \in Nat /\ (m - 1) * U \in Nat
    BY <1>1, <2>1
  <2>3. S \in SUBSET Nat /\ S # {} /\ L \in S /\ m * U \in S
    BY <1>1, <2>2
  <2>4. Min(S) \in S /\ Min(S) <= L /\ Min(S) <= m * U
    <3> HIDE DEF S
    <3>1. Min(S) \in S /\ \A k \in S : Min(S) <= k
      BY <2>3, LeastIs
    <3> QED
      BY <2>3, <3>1
  <2>5. Min(S) = L \/ Min(S) = m * U
    BY <2>4
  <2>6. upto(m) = Min(S)
    OBVIOUS
  <2> HIDE DEF S, upto, L, U
  <2> QED
    BY <1>1, <2>1, <2>2, <2>4, <2>5, <2>6
<1>5. ASSUME NEW m \in 1..N, NEW x
      PROVE  x \in ToSet(us[m]) <=> \E i \in (m - 1) * U + 1..upto(m) : x = tokens[i]
  <2> DEFINE a == (m - 1) * U
             z == upto(m)
  <2>1. a \in Nat /\ z \in Nat /\ z <= L
    BY <1>4
  <2> HIDE DEF a, z, L
  <2>2. us[m] = SubSeq(tokens, a + 1, z)
    BY <1>3 DEF a, z
  <2>3. SubSeq(tokens, a + 1, z) = [i \in 1..z - a |-> tokens[i + a]]
    BY <1>1, <2>1
  <2>4. x \in ToSet(us[m]) <=> \E j \in 1..z - a : x = tokens[j + a]
    <3> DEFINE q == [i \in 1..z - a |-> tokens[i + a]]
    <3>1. DOMAIN q = 1..z - a /\ \A j \in 1..z - a : q[j] = tokens[j + a]
      OBVIOUS
    <3>2. us[m] = q
      BY <2>2, <2>3
    <3> HIDE DEF q
    <3> QED
      BY <3>1, <3>2 DEF ToSet
  <2>5. ASSUME NEW j \in 1..z - a PROVE j + a \in a + 1..z
    BY <2>1
  <2>6. ASSUME NEW i \in a + 1..z PROVE i - a \in 1..z - a /\ i - a + a = i
    BY <2>1
  <2>7. (\E j \in 1..z - a : x = tokens[j + a]) <=> \E i \in a + 1..z : x = tokens[i]
    <3>1. ASSUME NEW j \in 1..z - a, x = tokens[j + a] PROVE \E i \in a + 1..z : x = tokens[i]
      BY <2>5, <3>1
    <3>2. ASSUME NEW i \in a + 1..z, x = tokens[i] PROVE \E j \in 1..z - a : x = tokens[j + a]
      <4>1. i - a \in 1..z - a /\ tokens[i - a + a] = x
        BY <2>6, <3>2
      <4> QED
        BY <4>1
    <3> QED
      BY <3>1, <3>2
  <2> QED
    BY <2>4, <2>7 DEF a, z
<1>6. DOMAIN us = 1..N
  BY <1>3
<1> HIDE DEF upto, part, L, U
<1>7. ASSUME NEW m \in 1..N, NEW i \in (m - 1) * U + 1..upto(m)
      PROVE  /\ i \in 1..L /\ m \in Nat \ {0} /\ (m - 1) * U < i /\ i <= m * U
             /\ m * U \in Nat /\ (m - 1) * U \in Nat /\ i \in Nat
  <2> DEFINE a == (m - 1) * U
             b == m * U
  <2>1. a \in Nat /\ upto(m) \in Nat /\ upto(m) <= L /\ upto(m) <= b /\ m \in Nat \ {0}
    BY <1>4
  <2>2. b \in Nat
    BY <1>1, <2>1
  <2> HIDE DEF a, b
  <2>3. i \in a + 1..upto(m)
    BY DEF a
  <2>4. i \in 1..L /\ a < i /\ i <= b /\ i \in Nat
    BY <1>1, <2>1, <2>2, <2>3
  <2> QED
    BY <2>1, <2>2, <2>4 DEF a, b
<1>8. ASSUME NEW m \in DOMAIN us, NEW x \in ToSet(us[m]) PROVE x \in ToSet(tokens)
  <2>1. PICK i \in (m - 1) * U + 1..upto(m) : x = tokens[i]
    BY <1>5, <1>6
  <2>2. i \in 1..L
    BY <1>6, <1>7
  <2> QED
    BY <1>1, <2>1, <2>2 DEF ToSet
<1>9. ASSUME NEW x \in ToSet(tokens) PROVE \E m \in DOMAIN us : x \in ToSet(us[m])
  <2>1. PICK i \in 1..L : x = tokens[i]
    BY <1>1 DEF ToSet
  <2>2. i \in Nat \ {0} /\ i <= L
    BY <1>1
  <2>3. PICK m \in Nat \ {0} : (m - 1) * U < i /\ i <= m * U
    BY <1>1, <2>2, Division
  <2>4. m \in 1..N
    <3>1. ASSUME N < m PROVE FALSE
      <4>1. N \in Nat /\ m - 1 \in Nat /\ N <= m - 1
        BY <1>2, <2>3, <3>1
      <4>2. N * U <= (m - 1) * U
        BY <1>1, <4>1, TimesOrder
      <4> DEFINE a == N * U
                 b == (m - 1) * U
      <4>3. a \in Nat /\ b \in Nat
        BY <1>1, <1>2, <4>1
      <4>4. a <= b /\ L <= a /\ b < i
        BY <1>2, <2>3, <4>2
      <4> HIDE DEF a, b
      <4> QED
        BY <1>1, <2>2, <4>3, <4>4
    <3> QED
      BY <1>2, <2>3, <3>1
  <2>5. i \in (m - 1) * U + 1..upto(m)
    <3> DEFINE a == (m - 1) * U
               b == m * U
    <3>1. a \in Nat /\ upto(m) \in Nat /\ (upto(m) = L \/ upto(m) = b)
      BY <1>4, <2>4
    <3>2. a < i /\ i <= b
      BY <2>3
    <3> HIDE DEF a, b
    <3>3. i \in a + 1..upto(m)
      BY <1>1, <2>2, <3>1, <3>2
    <3> QED
      BY <3>3 DEF a
  <2> QED
    BY <1>5, <1>6, <2>1, <2>4, <2>5
<1>10. ASSUME Sorted(tokens), NEW m \in 1..N, NEW k \in 1..N, m < k, NEW x \in ToSet(us[m]),
              NEW y \in ToSet(us[k]), x.seqs = y.seqs
       PROVE  x.pos < y.pos
  <2>1. PICK i \in (m - 1) * U + 1..upto(m) : x = tokens[i]
    BY <1>5
  <2>2. PICK j \in (k - 1) * U + 1..upto(k) : y = tokens[j]
    BY <1>5
  <2>3. i \in 1..L /\ i <= m * U /\ i \in Nat /\ m * U \in Nat /\ m \in Nat
    BY <1>7
  <2>4. j \in 1..L /\ (k - 1) * U < j /\ j \in Nat /\ (k - 1) * U \in Nat /\ k \in Nat \ {0}
    BY <1>7
  <2>5. m * U <= (k - 1) * U
    <3>1. k - 1 \in Nat /\ m <= k - 1
      BY <1>10, <2>3, <2>4
    <3> QED
      BY <1>1, <2>3, <3>1, TimesOrder
  <2>6. i < j
    <3> DEFINE a == (k - 1) * U
               b == m * U
    <3>1. a \in Nat /\ b \in Nat /\ b <= a /\ i <= b /\ a < j
      BY <2>3, <2>4, <2>5
    <3> HIDE DEF a, b
    <3> QED
      BY <2>3, <2>4, <3>1
  <2> QED
    BY <1>1, <1>10, <2>1, <2>2, <2>3, <2>4, <2>6 DEF Sorted
<1>11. SplitsInto(tokens, us)
  BY <1>8, <1>9 DEF SplitsInto
<1>12. Sorted(tokens) => InOrder(us)
  BY <1>6, <1>10 DEF InOrder
<1> QED
  BY <1>11, <1>12 DEF us

\* The elements of x are those of the first n sequences of q.
HasAll(x, q, n) == \A y : y \in ToSet(x) <=> \E i \in 1..n : y \in ToSet(q[i])

\* The elements of two sequences, one after the other.
LEMMA ConcatHas ==
  ASSUME NEW T, NEW x \in Seq(T), NEW y \in Seq(T)
  PROVE  ToSet(x \o y) = ToSet(x) \cup ToSet(y)
<1> DEFINE z == x \o y
<1>1. /\ z \in Seq(T) /\ Len(z) = Len(x) + Len(y)
      /\ \A i \in 1..Len(z) : z[i] = IF i <= Len(x) THEN x[i] ELSE y[i - Len(x)]
  BY ConcatProperties
<1>2. /\ Len(x) \in Nat /\ Len(y) \in Nat /\ DOMAIN x = 1..Len(x) /\ DOMAIN y = 1..Len(y)
      /\ DOMAIN z = 1..Len(x) + Len(y)
  BY <1>1, LenProperties
<1> HIDE DEF z
<1>3. ASSUME NEW v \in ToSet(z) PROVE v \in ToSet(x) \cup ToSet(y)
  <2>1. PICK i \in DOMAIN z : v = z[i]
    BY DEF ToSet
  <2>2. CASE i <= Len(x)
    <3>1. i \in DOMAIN x /\ v = x[i]
      BY <1>1, <1>2, <2>1, <2>2
    <3> QED
      BY <3>1 DEF ToSet
  <2>3. CASE ~(i <= Len(x))
    <3>1. i - Len(x) \in DOMAIN y /\ v = y[i - Len(x)]
      BY <1>1, <1>2, <2>1, <2>3
    <3> QED
      BY <3>1 DEF ToSet
  <2> QED
    BY <2>2, <2>3
<1>4. ASSUME NEW v \in ToSet(x) PROVE v \in ToSet(z)
  <2>1. PICK i \in DOMAIN x : v = x[i]
    BY DEF ToSet
  <2>2. i \in DOMAIN z /\ z[i] = x[i]
    BY <1>1, <1>2, <2>1
  <2> QED
    BY <2>1, <2>2 DEF ToSet
<1>5. ASSUME NEW v \in ToSet(y) PROVE v \in ToSet(z)
  <2>1. PICK i \in DOMAIN y : v = y[i]
    BY DEF ToSet
  <2>2. /\ i + Len(x) \in DOMAIN z /\ i + Len(x) \in 1..Len(z) /\ ~(i + Len(x) <= Len(x))
        /\ i + Len(x) - Len(x) = i
    BY <1>1, <1>2, <2>1
  <2>3. z[i + Len(x)] = y[i]
    BY <1>1, <2>2
  <2> QED
    BY <2>1, <2>2, <2>3 DEF ToSet
<1> QED
  BY <1>3, <1>4, <1>5 DEF z

\* Sequences one after the other.
LEMMA Flattened ==
  ASSUME NEW T, NEW q \in Seq(Seq(T))
  PROVE  FlattenSeq(q) \in Seq(T) /\ HasAll(FlattenSeq(q), q, Len(q))
<1>1. Len(q) \in Nat /\ \A i \in 1..Len(q) : q[i] \in Seq(T)
  BY LenProperties, ElementOfSeq
<1>2. CASE Len(q) = 0
  <2>1. q = <<>>
    BY <1>2, EmptySeq
  <2>2. FlattenSeq(q) = <<>>
    BY <1>2, <2>1 DEF FlattenSeq
  <2>3. ToSet(<<>>) = {}
    BY DEF ToSet
  <2> QED
    BY <1>2, <2>2, <2>3, EmptySeq DEF HasAll
<1>3. CASE Len(q) # 0
  <2> DEFINE n == Len(q) - 1
             X == [k \in 0..n |-> Seq(T)]
             op(x, k) == x \o q[k + 1]
             step == [z \in Seq(T) \X (1..n) |-> op(z[1], z[2])]
             Def(g) == [i \in 1..Len(q) |-> IF i = 1 THEN q[i] ELSE g[i - 1] \o q[i]]
             G == CHOOSE g : g = Def(g)
  <2>1. n \in Nat /\ n + 1 = Len(q)
    BY <1>1, <1>3
  <2>2. q[1] \in X[0]
    BY <1>1, <2>1
  <2>3. ASSUME NEW k \in 1..n, NEW x \in Seq(T) PROVE step[<<x, k>>] = op(x, k) /\ op(x, k) \in Seq(T)
    <3>1. k + 1 \in 1..Len(q)
      BY <2>1
    <3>2. op(x, k) \in Seq(T)
      BY <1>1, <3>1, ConcatProperties
    <3> HIDE DEF op, n
    <3> QED
      BY <3>2
  <2>4. \A k \in 0..n : X[k] = Seq(T)
    OBVIOUS
  <2>5. \A k \in 1..n : k \in 0..n /\ k - 1 \in 0..n
    BY <2>1
  <2> HIDE DEF X, step
  <2>6. \A k \in 1..n : \A x \in X[k - 1] : step[<<x, k>>] \in X[k]
    <3> SUFFICES ASSUME NEW k \in 1..n, NEW x \in X[k - 1] PROVE step[<<x, k>>] \in X[k]
      OBVIOUS
    <3>1. X[k - 1] = Seq(T) /\ X[k] = Seq(T)
      BY <2>4, <2>5
    <3>2. x \in Seq(T)
      BY <3>1
    <3> HIDE DEF op, n
    <3> QED
      BY <2>3, <3>1, <3>2
  <2>7. PICK h : /\ h = [k \in 0..n |-> h[k]] /\ \A k \in 0..n : h[k] \in X[k]
                 /\ Follows(h, n, q[1], X, step)
    <3> HIDE DEF n
    <3> QED
      BY <2>1, <2>2, <2>6, Recursion
  <2> DEFINE f == [i \in 1..Len(q) |-> h[i - 1]]
  <2>8. f = Def(f)
    <3>1. ASSUME NEW i \in 1..Len(q) PROVE f[i] = IF i = 1 THEN q[i] ELSE f[i - 1] \o q[i]
      <4>1. CASE i = 1
        <5>1. f[i] = h[0] /\ 0 \in 0..n
          BY <2>1, <4>1
        <5> QED
          BY <2>7, <4>1, <5>1 DEF Follows
      <4>2. CASE i # 1
        <5>1. /\ i - 1 \in 1..n /\ i - 1 \in 0..n /\ i - 1 - 1 \in 0..n /\ i - 1 # 0
              /\ i - 1 + 1 = i /\ i - 1 \in 1..Len(q)
          BY <2>1, <4>2
        <5>2. f[i] = h[i - 1] /\ f[i - 1] = h[i - 1 - 1]
          BY <5>1
        <5> HIDE DEF f, n
        <5>3. h[i - 1 - 1] \in X[i - 1 - 1] /\ h[i - 1 - 1] \in Seq(T)
          BY <2>4, <2>7, <5>1
        <5>4. h[i - 1] = step[<<h[i - 1 - 1], i - 1>>]
          BY <2>7, <5>1, <5>3 DEF Follows
        <5> QED
          BY <2>3, <4>2, <5>1, <5>2, <5>3, <5>4
      <4> QED
        BY <4>1, <4>2
    <3> HIDE DEF f
    <3>2. f = [i \in 1..Len(q) |-> f[i]]
      BY DEF f
    <3> QED
      BY <3>1, <3>2
  <2>9. G = Def(G)
    <3> HIDE DEF Def, f
    <3> QED
      BY <2>8
  <2> DEFINE S == {k \in 0..n : G[k + 1] \in Seq(T) /\ HasAll(G[k + 1], q, k + 1)}
  <2>10. 0 \in S
    <3>1. G[1] = q[1]
      <4> HIDE DEF G
      <4>1. 1 \in 1..Len(q)
        BY <1>1, <1>3
      <4> QED
        BY <2>9, <4>1
    <3> HIDE DEF G
    <3>2. HasAll(G[0 + 1], q, 0 + 1)
      BY <3>1 DEF HasAll
    <3> QED
      BY <1>1, <2>1, <3>1, <3>2
  <2>11. ASSUME NEW k \in 1..n, k - 1 \in S PROVE k \in S
    <3> HIDE DEF G
    <3>1. k + 1 \in 1..Len(q) /\ k + 1 # 1 /\ k + 1 - 1 = k /\ k - 1 + 1 = k /\ k \in 0..n
      BY <2>1
    <3>2. G[k + 1] = G[k] \o q[k + 1]
      <4>1. \A i \in 1..Len(q) : G[i] = IF i = 1 THEN q[i] ELSE G[i - 1] \o q[i]
        BY <2>9
      <4>2. PICK i \in 1..Len(q) : i = k + 1
        BY <3>1
      <4>3. i # 1 /\ i - 1 = k
        BY <3>1, <4>2
      <4>4. G[i] = G[i - 1] \o q[i]
        BY <4>1, <4>3
      <4> QED
        BY <4>2, <4>3, <4>4
    <3>3. G[k] \in Seq(T) /\ HasAll(G[k], q, k)
      BY <2>11, <3>1
    <3>4. q[k + 1] \in Seq(T)
      BY <1>1, <3>1
    <3>5. G[k + 1] \in Seq(T) /\ ToSet(G[k + 1]) = ToSet(G[k]) \cup ToSet(q[k + 1])
      BY <3>2, <3>3, <3>4, ConcatProperties, ConcatHas
    <3>6. \A i : i \in 1..k + 1 <=> i \in 1..k \/ i = k + 1
      BY <2>1
    <3>7. HasAll(G[k + 1], q, k + 1)
      BY <3>3, <3>5, <3>6 DEF HasAll
    <3> QED
      BY <3>1, <3>5, <3>7
  <2>12. \A k \in 0..n : k \in S
    <3> HIDE DEF S, n
    <3> QED
      BY <2>1, <2>10, <2>11, UpTo
  <2>13. G[Len(q)] \in Seq(T) /\ HasAll(G[Len(q)], q, Len(q))
    <3> HIDE DEF G
    <3>1. n \in 0..n
      BY <2>1
    <3>2. n \in S
      BY <2>12, <3>1
    <3> QED
      BY <2>1, <3>2
  <2>14. FlattenSeq(q) = G[Len(q)]
    BY <1>3, Zenon DEF FlattenSeq
  <2> QED
    BY <2>13, <2>14
<1> QED
  BY <1>2, <1>3


\* Each list is that of a token that is left.
OfTokens(lists, left) == \A i \in DOMAIN lists : \E j \in 1..Len(left) : lists[i] = left[j].seqs

\* The lists of sequences a ubatch of split_equal takes are lists of tokens that are
\* left; there is one while a token is left.
LEMMA NextListsIs ==
  ASSUME NEW left \in Seq(Token)
  PROVE  /\ NextLists(left) \in Seq(Lists) /\ OfTokens(NextLists(left), left)
         /\ left # <<>> => NextLists(left) # <<>>
<1> DEFINE n == Len(left)
           b == <<>>
           C == {x \in Seq(Lists) : OfTokens(x, left)}
           op(x, k) == IF /\ Len(x) <= NUbatch
                          /\ \A i \in DOMAIN x : ToSet(x[i]) \cap ToSet(left[k].seqs) = {}
                          /\ unified \/ x = <<>> \/ left[k].seqs[1] = Last(x)[1] + 1
                       THEN Append(x, left[k].seqs) ELSE x
           X == [k \in 0..n |-> C]
           step == [z \in C \X (1..n) |-> op(z[1], z[2])]
           Def(g) == [k \in 0..n |-> IF k = 0 THEN b ELSE op(g[k - 1], k)]
           G == CHOOSE g : g = Def(g)
<1>0. NextLists(left) = G[n]
  BY DEF NextLists
<1>1. n \in Nat /\ b \in C
  <2>1. b \in Seq(Lists) /\ OfTokens(b, left)
    BY EmptySeq DEF OfTokens
  <2> QED
    BY <2>1, LenProperties
<1>2. ASSUME NEW k \in 1..n, NEW x \in C PROVE op(x, k) \in C /\ op(x, k) # <<>>
  <2>1. left[k] \in Token
    BY ElementOfSeq
  <2>2. left[k].seqs \in Lists
    BY <2>1 DEF Token
  <2> DEFINE y == Append(x, left[k].seqs)
  <2>3. /\ y \in Seq(Lists) /\ DOMAIN y = 1..Len(x) + 1 /\ Len(x) \in Nat /\ DOMAIN x = 1..Len(x)
        /\ \A i \in 1..Len(x) : y[i] = x[i]
        /\ y[Len(x) + 1] = left[k].seqs /\ y # <<>>
    BY <2>2, AppendProperties, LenProperties
  <2>4. OfTokens(x, left)
    OBVIOUS
  <2>5. OfTokens(y, left)
    <3> HIDE DEF y, n
    <3>1. \A i \in DOMAIN y : i \in DOMAIN x \/ i = Len(x) + 1
      BY <2>3
    <3>2. k \in 1..Len(left)
      BY DEF n
    <3> QED
      BY <2>3, <2>4, <3>1, <3>2 DEF OfTokens
  <2>6. x = <<>> => op(x, k) = y
    <3>1. Len(<<>>) = 0 /\ DOMAIN <<>> = {} /\ NUbatch \in Nat
      BY SizesAssumption
    <3> HIDE DEF y
    <3> QED
      BY <3>1 DEF y
  <2>7. op(x, k) = x \/ op(x, k) = y
    OBVIOUS
  <2> HIDE DEF op, y
  <2> QED
    BY <2>3, <2>5, <2>6, <2>7
<1>3. ASSUME NEW k \in 1..n, NEW x \in C PROVE step[<<x, k>>] = op(x, k) /\ step[<<x, k>>] \in C
  <2>1. op(x, k) \in C
    BY <1>2
  <2> HIDE DEF op, n, C
  <2> QED
    BY <2>1
<1> HIDE DEF step, op, n, C, b
<1>4. \A k \in 0..n : X[k] = C
  OBVIOUS
<1>5. \A k \in 1..n : k \in 0..n /\ k - 1 \in 0..n
  BY <1>1
<1>6. b \in X[0]
  BY <1>1, <1>4
<1> HIDE DEF X
<1>7. \A k \in 1..n : \A x \in X[k - 1] : step[<<x, k>>] \in X[k]
  BY <1>3, <1>4, <1>5
<1>8. PICK h : /\ h = [k \in 0..n |-> h[k]] /\ \A k \in 0..n : h[k] \in X[k]
               /\ Follows(h, n, b, X, step)
  BY <1>1, <1>6, <1>7, Recursion
<1>9. h = Def(h)
  <2>1. ASSUME NEW k \in 0..n PROVE h[k] = IF k = 0 THEN b ELSE op(h[k - 1], k)
    <3>1. CASE k = 0
      BY <1>8, <3>1 DEF Follows
    <3>2. CASE k # 0
      <4>1. k \in 1..n /\ k - 1 \in 0..n
        BY <1>1, <3>2
      <4>2. h[k - 1] \in X[k - 1] /\ h[k - 1] \in C
        BY <1>4, <1>8, <4>1
      <4>3. h[k] = step[<<h[k - 1], k>>]
        BY <1>8, <3>2, <4>2 DEF Follows
      <4> QED
        BY <1>3, <3>2, <4>1, <4>2, <4>3
    <3> QED
      BY <3>1, <3>2
  <2> QED
    BY <1>8, <2>1
<1>10. G = Def(G)
  <2> HIDE DEF Def
  <2> QED
    BY <1>9
<1>11. Follows(G, n, b, X, step)
  <2> HIDE DEF G
  <2> SUFFICES ASSUME NEW k \in 0..n
               PROVE  IF k = 0 THEN G[k] = b
                      ELSE G[k - 1] \in X[k - 1] => G[k] = step[<<G[k - 1], k>>]
    BY DEF Follows
  <2>1. G[k] = IF k = 0 THEN b ELSE op(G[k - 1], k)
    BY <1>10
  <2>2. k # 0 => k \in 1..n /\ X[k - 1] = C
    BY <1>1, <1>4, <1>5
  <2> QED
    BY <1>3, <2>1, <2>2
<1>12. G[n] \in C
  <2> HIDE DEF G
  <2>1. n \in 0..n
    BY <1>1
  <2>2. G[n] \in X[n]
    BY <1>1, <1>6, <1>7, <1>11, <2>1, FollowsIn
  <2> QED
    BY <1>4, <2>1, <2>2
<1>13. n # 0 => G[n] # <<>>
  <2> HIDE DEF G
  <2> SUFFICES ASSUME n # 0 PROVE G[n] # <<>>
    OBVIOUS
  <2>1. n \in 1..n /\ n - 1 \in 0..n
    BY <1>1
  <2>2. G[n - 1] \in X[n - 1] /\ G[n] = step[<<G[n - 1], n>>]
    BY <1>1, <1>6, <1>7, <1>11, <2>1, FollowsIn
  <2>3. G[n - 1] \in C
    BY <1>4, <2>1, <2>2
  <2>4. step[<<G[n - 1], n>>] = op(G[n - 1], n)
    BY <1>3, <2>1, <2>3
  <2> QED
    BY <1>2, <2>1, <2>2, <2>3, <2>4
<1>14. left # <<>> => n # 0
  BY EmptySeq DEF n
<1> QED
  BY <1>0, <1>12, <1>13, <1>14 DEF C

\* Some places of a sorted list are sorted.
LEMMA AtSorted ==
  ASSUME NEW T, NEW q \in Seq(T), NEW P \in SUBSET (DOMAIN q), Sorted(q)
  PROVE  Sorted(At(q, P))
<1>1. DOMAIN At(q, P) = 1..Len(At(q, P))
  BY AtIs, LenProperties
<1> SUFFICES ASSUME NEW n \in 1..Len(At(q, P)), NEW m \in 1..Len(At(q, P)), n < m,
                    At(q, P)[n].seqs = At(q, P)[m].seqs
             PROVE  At(q, P)[n].pos < At(q, P)[m].pos
  BY <1>1 DEF Sorted
<1>2. PICK i \in P, j \in P : i < j /\ At(q, P)[n] = q[i] /\ At(q, P)[m] = q[j]
  BY AtHas
<1> QED
  BY <1>2 DEF Sorted

\* The tokens of a list of sequences, in their order.
LEMMA OfListHas ==
  ASSUME NEW left \in Seq(Token), NEW l
  PROVE  /\ OfList(left, l) \in Seq(Token)
         /\ \A x : x \in ToSet(OfList(left, l)) <=> x \in ToSet(left) /\ ToSet(x.seqs) = ToSet(l)
         /\ Sorted(left) => Sorted(OfList(left, l))
<1> DEFINE P == {i \in DOMAIN left : ToSet(left[i].seqs) = ToSet(l)}
<1>1. P \in SUBSET (DOMAIN left) /\ OfList(left, l) = At(left, P)
  BY DEF OfList
<1>2. \A i : i \in P <=> i \in DOMAIN left /\ ToSet(left[i].seqs) = ToSet(l)
  OBVIOUS
<1> HIDE DEF P
<1>3. At(left, P) \in Seq(Token)
  BY <1>1, AtIs
<1>4. \A x : x \in ToSet(At(left, P)) <=> \E i \in P : x = left[i]
  BY <1>1, AtSet
<1>5. Sorted(left) => Sorted(At(left, P))
  BY <1>1, AtSorted
<1>6. \A x : x \in ToSet(left) <=> \E i \in DOMAIN left : x = left[i]
  BY DEF ToSet
<1>7. \A x : x \in ToSet(At(left, P)) <=> x \in ToSet(left) /\ ToSet(x.seqs) = ToSet(l)
  BY <1>2, <1>4, <1>6
<1> QED
  BY <1>1, <1>3, <1>5, <1>7

\* The next ubatch v has some of the tokens that are left, and no token comes before one of
\* the same sequences that has to wait.
Takes(v, left) ==
  /\ \A x \in ToSet(v) : x \in ToSet(left)
  /\ left # <<>> => \E x \in ToSet(left) : x \in ToSet(v)
  /\ Sorted(left) => \A x \in ToSet(v), y \in ToSet(left) :
       x.seqs = y.seqs /\ y \notin ToSet(v) => x.pos < y.pos

\* A ubatch of split_equal takes the first tokens of its lists, and at least one.
LEMMA NextEqualTakes ==
  ASSUME NEW left \in Seq(Token)
  PROVE  NextEqual(left) \in Seq(Token) /\ Takes(NextEqual(left), left)
<1> DEFINE lists == NextLists(left)
           N == {n \in 0..NUbatch :
                   /\ n <= 1 \/ n * Len(lists) <= NUbatch
                   /\ \A i \in DOMAIN lists : n <= Len(OfList(left, lists[i]))}
           m == Max(N)
           of(i) == OfList(left, lists[i])
           part(i) == SubSeq(of(i), 1, m)
           parts == [i \in DOMAIN lists |-> part(i)]
           v == NextEqual(left)
<1>1. v = FlattenSeq(parts)
  BY Zenon DEF NextEqual
<1>2. /\ lists \in Seq(Lists) /\ OfTokens(lists, left)
      /\ left # <<>> => lists # <<>>
  BY NextListsIs
<1> HIDE DEF lists
<1>3. Len(lists) \in Nat /\ DOMAIN lists = 1..Len(lists) /\ NUbatch \in Nat \ {0}
  BY <1>2, LenProperties, SizesAssumption
<1>4. \A i \in DOMAIN lists :
        /\ of(i) \in Seq(Token) /\ Len(of(i)) \in Nat /\ DOMAIN of(i) = 1..Len(of(i))
        /\ \A x : x \in ToSet(of(i)) <=> x \in ToSet(left) /\ ToSet(x.seqs) = ToSet(lists[i])
        /\ Sorted(left) => Sorted(of(i))
  BY OfListHas, LenProperties
<1>5. \A i \in DOMAIN lists : 1 <= Len(of(i))
  <2> SUFFICES ASSUME NEW i \in DOMAIN lists PROVE 1 <= Len(of(i))
    OBVIOUS
  <2>1. PICK j \in 1..Len(left) : lists[i] = left[j].seqs
    BY <1>2 DEF OfTokens
  <2>2. left[j] \in ToSet(left)
    BY LenProperties DEF ToSet
  <2>3. left[j] \in ToSet(of(i))
    BY <1>4, <2>1, <2>2
  <2>4. DOMAIN of(i) # {}
    BY <2>3 DEF ToSet
  <2> HIDE DEF of
  <2> QED
    BY <1>4, <2>4
<1>6. N \in SUBSET (0..NUbatch) /\ 1 \in N
  <2>1. \A i \in DOMAIN lists : 1 <= Len(OfList(left, lists[i]))
    BY <1>5
  <2> HIDE DEF of
  <2> QED
    BY <1>3, <2>1
<1>7. m \in N /\ 1 <= m
  <2> HIDE DEF N
  <2>1. N # {} /\ NUbatch \in Nat
    BY <1>3, <1>6
  <2>2. Max(N) \in N /\ \A k \in N : k <= Max(N)
    BY <1>6, <2>1, GreatestIs
  <2> QED
    BY <1>6, <2>2
<1>8. m \in Nat /\ \A i \in DOMAIN lists : m <= Len(of(i))
  <2>1. m \in 0..NUbatch /\ \A i \in DOMAIN lists : m <= Len(OfList(left, lists[i]))
    <3> HIDE DEF m
    <3> QED
      BY <1>7
  <2> HIDE DEF m
  <2> QED
    BY <2>1
<1> HIDE DEF m, N
<1>9. ASSUME NEW i \in DOMAIN lists
      PROVE  /\ part(i) \in Seq(Token) /\ DOMAIN part(i) = 1..m
             /\ \A j \in 1..m : part(i)[j] = of(i)[j] /\ j \in DOMAIN of(i)
  <2> DEFINE q == of(i)
  <2>1. q \in Seq(Token) /\ Len(q) \in Nat /\ m \in Nat /\ m <= Len(q) /\ DOMAIN q = 1..Len(q)
    BY <1>4, <1>8
  <2> HIDE DEF q
  <2>2. \A j \in 1..m : q[j] \in Token /\ j \in DOMAIN q
    <3>1. \A j \in 1..m : j \in 1..Len(q)
      BY <2>1
    <3> QED
      BY <2>1, <3>1, ElementOfSeq
  <2>3. 1 \in Int /\ m \in Int
    BY <2>1
  <2>4. SubSeq(q, 1, m) \in Seq(Token)
    BY <2>2, <2>3, SubSeqProperties
  <2>5. DOMAIN SubSeq(q, 1, m) = 1..m /\ \A j \in 1..m : SubSeq(q, 1, m)[j] = q[j]
    <3>1. SubSeq(q, 1, m) = [j \in 1..m |-> q[j]]
      BY <2>1
    <3> QED
      BY <3>1
  <2> QED
    BY <2>2, <2>4, <2>5 DEF q
<1> HIDE DEF part
<1>10. parts \in Seq(Seq(Token)) /\ Len(parts) = Len(lists) /\ \A i \in DOMAIN lists : parts[i] = part(i)
  <2>1. parts = [i \in 1..Len(lists) |-> part(i)]
    BY <1>3
  <2>2. \A i \in DOMAIN lists : parts[i] = part(i)
    OBVIOUS
  <2> HIDE DEF parts
  <2> QED
    BY <1>3, <1>9, <2>1, <2>2
<1> HIDE DEF parts
<1>11. v \in Seq(Token) /\ HasAll(v, parts, Len(parts))
  <2> HIDE DEF v
  <2> QED
    BY <1>1, <1>10, Flattened
<1> HIDE DEF v
<1>12. \A x : x \in ToSet(v) <=> \E i \in DOMAIN lists : x \in ToSet(part(i))
  BY <1>3, <1>10, <1>11 DEF HasAll
<1>13. \A i \in DOMAIN lists : \A x : x \in ToSet(part(i)) <=> \E j \in 1..m : x = of(i)[j]
  <2> SUFFICES ASSUME NEW i \in DOMAIN lists, NEW x
               PROVE  x \in ToSet(part(i)) <=> \E j \in 1..m : x = of(i)[j]
    OBVIOUS
  <2>1. DOMAIN part(i) = 1..m /\ \A j \in 1..m : part(i)[j] = of(i)[j]
    BY <1>9
  <2> HIDE DEF of
  <2> QED
    BY <2>1 DEF ToSet
<1>14. ASSUME NEW x \in ToSet(v) PROVE x \in ToSet(left)
  <2>1. PICK i \in DOMAIN lists : x \in ToSet(part(i))
    BY <1>12
  <2>2. PICK j \in 1..m : x = of(i)[j] /\ j \in DOMAIN of(i)
    BY <1>9, <1>13, <2>1
  <2>3. x \in ToSet(of(i))
    BY <2>2 DEF ToSet
  <2> QED
    BY <1>4, <2>3
<1>15. ASSUME left # <<>> PROVE \E x \in ToSet(left) : x \in ToSet(v)
  <2>1. 1 \in DOMAIN lists
    <3>1. Len(lists) # 0
      BY <1>2, <1>15, EmptySeq
    <3> QED
      BY <1>3, <3>1
  <2>2. 1 \in 1..m
    BY <1>7, <1>8
  <2>3. of(1)[1] \in ToSet(part(1))
    BY <1>13, <2>1, <2>2
  <2>4. of(1)[1] \in ToSet(v)
    BY <1>12, <2>1, <2>3
  <2> HIDE DEF of
  <2> QED
    BY <1>14, <2>4
<1>16. ASSUME Sorted(left), NEW x \in ToSet(v), NEW y \in ToSet(left), x.seqs = y.seqs, y \notin ToSet(v)
       PROVE  x.pos < y.pos
  <2>1. PICK i \in DOMAIN lists : x \in ToSet(part(i))
    BY <1>12
  <2>2. PICK j \in 1..m : x = of(i)[j] /\ j \in DOMAIN of(i)
    BY <1>9, <1>13, <2>1
  <2>3. x \in ToSet(of(i))
    BY <2>2 DEF ToSet
  <2>4. ToSet(x.seqs) = ToSet(lists[i])
    BY <1>4, <2>3
  <2>5. y \in ToSet(of(i))
    BY <1>4, <1>16, <2>4
  <2>6. PICK k \in DOMAIN of(i) : y = of(i)[k]
    BY <2>5 DEF ToSet
  <2>7. k \notin 1..m
    <3> SUFFICES ASSUME k \in 1..m PROVE FALSE
      OBVIOUS
    <3>1. y \in ToSet(part(i))
      BY <1>13, <2>6
    <3> QED
      BY <1>12, <1>16, <3>1
  <2>8. j < k
    <3>1. k \in 1..Len(of(i)) /\ Len(of(i)) \in Nat
      BY <1>4, <2>6
    <3> HIDE DEF of
    <3> QED
      BY <1>8, <2>2, <2>7, <3>1
  <2>9. Sorted(of(i))
    BY <1>4, <1>16
  <2> HIDE DEF of
  <2> QED
    BY <1>16, <2>2, <2>6, <2>8, <2>9 DEF Sorted
<1>17. Takes(v, left)
  BY <1>14, <1>15, <1>16 DEF Takes
<1> QED
  BY <1>11, <1>17 DEF v

\* The tokens of a batch, before it is split.
Numbers == [seqs : Lists, pos : 0..MaxPos]

\* If tokens are for several sequences, these share a stream.
LEMMA NumbersAre ==
  ASSUME NEW tokens \in Seq(Numbers), unified \/ ~IsCoupled(tokens)
  PROVE  tokens \in Seq(Token)
<1>1. ASSUME NEW i \in 1..Len(tokens) PROVE tokens[i] \in Token
  <2> DEFINE x == tokens[i]
  <2>1. x \in Numbers /\ i \in DOMAIN tokens
    BY ElementOfSeq, LenProperties
  <2>2. unified \/ ~(Len(x.seqs) > 1)
    BY <2>1 DEF IsCoupled
  <2> HIDE DEF x
  <2>3. x.seqs \in [1..1 -> Seqs] \cup [1..2 -> Seqs]
    BY <2>1 DEF Numbers, Lists
  <2>4. ASSUME NEW s \in ToSet(x.seqs) PROVE StreamOf(s) = StreamOf(x.seqs[1])
    <3>1. CASE unified
      BY <3>1 DEF StreamOf
    <3>2. CASE x.seqs \in [1..1 -> Seqs]
      BY <3>2 DEF ToSet
    <3>3. CASE ~unified /\ x.seqs \in [1..2 -> Seqs]
      <4>1. Len(x.seqs) = 2
        BY <3>3
      <4> QED
        BY <2>2, <3>3, <4>1
    <3> QED
      BY <2>3, <3>1, <3>2, <3>3
  <2> QED
    BY <2>1, <2>4 DEF Token, Numbers, x
<1>2. tokens = [i \in 1..Len(tokens) |-> tokens[i]] /\ Len(tokens) \in Nat
  BY LenProperties
<1> QED
  BY <1>1, <1>2

\* The tokens that are in none of the ubatches.
Rest(tokens, us) == {i \in DOMAIN tokens : \A m \in DOMAIN us : tokens[i] \notin ToSet(us[m])}

\* What holds of the ubatches that were split off so far.
SplitSoFar(tokens, us) ==
  /\ \A m \in DOMAIN us : \A x \in ToSet(us[m]) : x \in ToSet(tokens)
  /\ Sorted(tokens) =>
       /\ InOrder(us)
       /\ \A m \in DOMAIN us : \A x \in ToSet(us[m]), i \in Rest(tokens, us) :
            x.seqs = tokens[i].seqs => x.pos < tokens[i].pos

\* What is left of a batch is what no ubatch has taken.
LEMMA RestIs ==
  ASSUME NEW tokens \in Seq(Token), NEW us
  PROVE  /\ Left(tokens, us) \in Seq(Token) /\ (Sorted(tokens) => Sorted(Left(tokens, us)))
         /\ \A x : x \in ToSet(Left(tokens, us)) <=> \E i \in Rest(tokens, us) : x = tokens[i]
         /\ Left(tokens, us) = <<>> => Rest(tokens, us) = {}
         /\ IsFiniteSet(Rest(tokens, us)) /\ Cardinality(Rest(tokens, us)) <= Len(tokens)
<1> DEFINE P == Rest(tokens, us)
<1>1. P \in SUBSET (DOMAIN tokens) /\ Left(tokens, us) = At(tokens, P)
  BY DEF Rest, Left
<1> HIDE DEF P
<1>2. At(tokens, P) \in Seq(Token)
  BY <1>1, AtIs
<1>3. \A x : x \in ToSet(At(tokens, P)) <=> \E i \in P : x = tokens[i]
  BY <1>1, AtSet
<1>4. Sorted(tokens) => Sorted(At(tokens, P))
  BY <1>1, AtSorted
<1>5. At(tokens, P) = <<>> => P = {}
  <2>1. ToSet(<<>>) = {}
    BY DEF ToSet
  <2> QED
    BY <1>3, <2>1
<1>6. IsFiniteSet(P) /\ Cardinality(P) <= Len(tokens)
  <2>1. DOMAIN tokens = 1..Len(tokens) /\ Len(tokens) \in Nat
    BY LenProperties
  <2>2. 1 \in Int /\ Len(tokens) \in Int
    BY <2>1
  <2>3. IsFiniteSet(1..Len(tokens)) /\ Cardinality(1..Len(tokens)) = Len(tokens)
    <3>1. /\ IsFiniteSet(1..Len(tokens))
          /\ Cardinality(1..Len(tokens)) = IF 1 > Len(tokens) THEN 0 ELSE Len(tokens) - 1 + 1
      BY <2>2, FS_Interval
    <3> QED
      BY <2>1, <3>1
  <2>4. P \in SUBSET (1..Len(tokens))
    BY <1>1, <2>1
  <2> QED
    BY <2>3, <2>4, FS_Subset
<1> QED
  BY <1>1, <1>2, <1>3, <1>4, <1>5, <1>6 DEF P

\* One more ubatch.
LEMMA SplitEqualStep ==
  ASSUME NEW tokens \in Seq(Token), NEW us \in Seq(Seq(Token)), SplitSoFar(tokens, us),
         Left(tokens, us) # <<>>
  PROVE  LET v == Append(us, NextEqual(Left(tokens, us)))
         IN /\ v \in Seq(Seq(Token)) /\ SplitSoFar(tokens, v)
            /\ Cardinality(Rest(tokens, v)) + 1 <= Cardinality(Rest(tokens, us))
<1> DEFINE left == Left(tokens, us)
           u == NextEqual(left)
           v == Append(us, u)
           n == Len(us) + 1
           P == Rest(tokens, us)
           Q == Rest(tokens, v)
<1>1. /\ left \in Seq(Token) /\ (Sorted(tokens) => Sorted(left))
      /\ \A x : x \in ToSet(left) <=> \E i \in P : x = tokens[i]
      /\ IsFiniteSet(P)
  BY RestIs
<1>2. u \in Seq(Token) /\ Takes(u, left)
  <2> HIDE DEF left
  <2> QED
    BY <1>1, NextEqualTakes
<1>3. left # <<>>
  OBVIOUS
<1> HIDE DEF left, u
<1>4. /\ v \in Seq(Seq(Token)) /\ DOMAIN v = 1..n /\ DOMAIN us = 1..Len(us) /\ Len(us) \in Nat
      /\ \A m \in DOMAIN us : v[m] = us[m]
      /\ v[n] = u
  BY <1>2, AppendProperties, LenProperties
<1> HIDE DEF v
<1>5. \A m : m \in DOMAIN v <=> m \in DOMAIN us \/ m = n
  <2> HIDE DEF n
  <2>1. n = Len(us) + 1
    BY DEF n
  <2> QED
    BY <1>4, <2>1
<1>6. \A i : i \in P <=> i \in DOMAIN tokens /\ \A m \in DOMAIN us : tokens[i] \notin ToSet(us[m])
  BY DEF Rest
<1>7. \A i : i \in Q <=> i \in DOMAIN tokens /\ \A m \in DOMAIN v : tokens[i] \notin ToSet(v[m])
  BY DEF Rest
<1>8. n \in DOMAIN v /\ \A m \in DOMAIN us : m \in DOMAIN v /\ m < n
  <2>1. \A m \in 1..Len(us) : m < Len(us) + 1
    BY <1>4
  <2> QED
    BY <1>4, <1>5, <2>1 DEF n
<1> HIDE DEF P, Q, n
<1>9. \A i : i \in Q <=> i \in P /\ tokens[i] \notin ToSet(u)
  BY <1>4, <1>5, <1>6, <1>7
<1>10. \A m \in DOMAIN v : \A x \in ToSet(v[m]) : x \in ToSet(tokens)
  <2>1. \A x \in ToSet(u) : x \in ToSet(tokens)
    <3> SUFFICES ASSUME NEW x \in ToSet(u) PROVE x \in ToSet(tokens)
      OBVIOUS
    <3>1. PICK i \in P : x = tokens[i]
      BY <1>1, <1>2 DEF Takes
    <3> QED
      BY <1>6, <3>1 DEF ToSet
  <2> QED
    BY <1>4, <1>5, <2>1 DEF SplitSoFar
<1>11. ASSUME Sorted(tokens), NEW m \in DOMAIN us, NEW x \in ToSet(us[m]), NEW i \in P,
              x.seqs = tokens[i].seqs
       PROVE  x.pos < tokens[i].pos
  BY <1>11 DEF SplitSoFar, P
<1>12. ASSUME Sorted(tokens) PROVE InOrder(v)
  <2> SUFFICES ASSUME NEW m \in DOMAIN v, NEW k \in DOMAIN v, m < k,
                      NEW x \in ToSet(v[m]), NEW y \in ToSet(v[k]), x.seqs = y.seqs
               PROVE  x.pos < y.pos
    BY DEF InOrder
  <2>1. CASE k \in DOMAIN us
    <3>1. m \in DOMAIN us
      <4>1. ~(n < k)
        BY <1>4, <2>1 DEF n
      <4> QED
        BY <1>5, <4>1
    <3> QED
      BY <1>4, <1>12, <2>1, <3>1 DEF SplitSoFar, InOrder
  <2>2. CASE k = n
    <3>1. m \in DOMAIN us
      <4>1. ~(n < n)
        BY <1>4 DEF n
      <4> QED
        BY <1>5, <2>2, <4>1
    <3>2. y \in ToSet(left)
      BY <1>2, <1>4, <2>2 DEF Takes
    <3>3. PICK i \in P : y = tokens[i]
      BY <1>1, <3>2
    <3>4. x \in ToSet(us[m])
      BY <1>4, <3>1
    <3> QED
      BY <1>11, <1>12, <3>1, <3>3, <3>4
  <2> QED
    BY <1>5, <2>1, <2>2
<1>13. ASSUME Sorted(tokens), NEW m \in DOMAIN v, NEW x \in ToSet(v[m]), NEW i \in Q,
              x.seqs = tokens[i].seqs
       PROVE  x.pos < tokens[i].pos
  <2>1. i \in P /\ tokens[i] \notin ToSet(u)
    BY <1>9
  <2>2. CASE m \in DOMAIN us
    <3>1. x \in ToSet(us[m])
      BY <1>4, <2>2
    <3> QED
      BY <1>11, <1>13, <2>1, <2>2, <3>1
  <2>3. CASE m = n
    <3>1. x \in ToSet(u) /\ tokens[i] \in ToSet(left) /\ Sorted(left)
      BY <1>1, <1>4, <1>13, <2>1, <2>3
    <3> QED
      BY <1>2, <1>13, <2>1, <3>1 DEF Takes
  <2> QED
    BY <1>5, <2>2, <2>3
<1>14. SplitSoFar(tokens, v)
  BY <1>10, <1>12, <1>13 DEF SplitSoFar, Q
<1>15. Cardinality(Q) + 1 <= Cardinality(P)
  <2>1. PICK x \in ToSet(left) : x \in ToSet(u)
    BY <1>2, <1>3 DEF Takes
  <2>2. PICK i \in P : x = tokens[i]
    BY <1>1
  <2>3. i \notin Q /\ Q \subseteq P
    BY <1>9, <2>1, <2>2
  <2>4. Q \in SUBSET (P \ {i})
    BY <2>3
  <2>5. IsFiniteSet(P \ {i}) /\ Cardinality(P \ {i}) = Cardinality(P) - 1
    BY <1>1, <2>2, FS_RemoveElement
  <2>6. Cardinality(Q) <= Cardinality(P \ {i}) /\ IsFiniteSet(Q)
    BY <2>4, <2>5, FS_Subset
  <2>7. Cardinality(P) \in Nat /\ Cardinality(Q) \in Nat
    BY <1>1, <2>6, FS_CardinalityType
  <2> QED
    BY <2>5, <2>6, <2>7
<1> QED
  BY <1>4, <1>14, <1>15 DEF v, u, left, P, Q

\* split_equal leaves out no token and keeps their order, unless a token is in several
\* sequences that have streams of their own.
LEMMA SplitEqualHas ==
  ASSUME NEW tokens \in Seq(Numbers)
  PROVE  /\ SplitEqual(tokens) \in Seq(Seq(Token))
         /\ unified \/ ~IsCoupled(tokens) =>
              /\ SplitsInto(tokens, SplitEqual(tokens))
              /\ Sorted(tokens) => InOrder(SplitEqual(tokens))
<1> DEFINE n == Len(tokens)
           b == <<>>
           C == Seq(Seq(Token))
           Upto(k) == {x \in Seq(Seq(Token)) : /\ SplitSoFar(tokens, x)
                                              /\ Cardinality(Rest(tokens, x)) <= Len(tokens) - k}
           op(x, k) == IF Left(tokens, x) = <<>> THEN x ELSE Append(x, NextEqual(Left(tokens, x)))
           X == [k \in 0..n |-> Upto(k)]
           step == [z \in C \X (1..n) |-> op(z[1], z[2])]
           Def(g) == [k \in 0..n |-> IF k = 0 THEN b ELSE op(g[k - 1], k)]
           G == CHOOSE g : g = Def(g)
<1>0. SplitEqual(tokens) = IF ~unified /\ IsCoupled(tokens) THEN <<>> ELSE G[n]
  BY DEF SplitEqual
<1> SUFFICES ASSUME unified \/ ~IsCoupled(tokens)
             PROVE  /\ G[n] \in Seq(Seq(Token)) /\ SplitsInto(tokens, G[n])
                    /\ Sorted(tokens) => InOrder(G[n])
  BY <1>0, EmptySeq, Zenon
<1>1. n \in Nat /\ b \in C /\ tokens \in Seq(Token)
  BY LenProperties, EmptySeq, NumbersAre
<1>2. ASSUME NEW k \in 1..n, NEW x \in Upto(k - 1) PROVE op(x, k) \in Upto(k)
  <2>1. x \in Seq(Seq(Token)) /\ SplitSoFar(tokens, x) /\ Cardinality(Rest(tokens, x)) <= n - (k - 1)
    OBVIOUS
  <2>2. CASE Left(tokens, x) = <<>>
    <3>1. Rest(tokens, x) = {}
      BY <1>1, <2>2, RestIs
    <3>2. Cardinality(Rest(tokens, x)) = 0
      BY <3>1, FS_EmptySet
    <3>3. 0 <= n - k
      BY <1>1
    <3> QED
      BY <2>1, <2>2, <3>2, <3>3
  <2>3. CASE Left(tokens, x) # <<>>
    <3> DEFINE v == Append(x, NextEqual(Left(tokens, x)))
               c == Cardinality(Rest(tokens, v))
               d == Cardinality(Rest(tokens, x))
    <3>1. v \in Seq(Seq(Token)) /\ SplitSoFar(tokens, v) /\ c + 1 <= d
      BY <1>1, <2>1, <2>3, SplitEqualStep
    <3>2. op(x, k) = v
      BY <2>3
    <3>3. c \in Nat /\ d \in Nat
      <4> HIDE DEF v
      <4> QED
        BY <1>1, RestIs, FS_CardinalityType
    <3>4. d <= n - (k - 1)
      BY <2>1
    <3>5. c <= n - k
      <4> HIDE DEF c, d, n
      <4> QED
        BY <1>1, <3>1, <3>3, <3>4
    <3>6. v \in Upto(k)
      <4> HIDE DEF v
      <4> QED
        BY <3>1, <3>5
    <3> QED
      BY <3>2, <3>6
  <2> QED
    BY <2>2, <2>3
<1>3. ASSUME NEW k \in 1..n, NEW x \in Upto(k - 1)
      PROVE  step[<<x, k>>] = op(x, k) /\ step[<<x, k>>] \in Upto(k)
  <2>1. op(x, k) \in Upto(k) /\ x \in C
    BY <1>2
  <2> HIDE DEF op, n, C, Upto
  <2> QED
    BY <2>1
<1>b. b \in Upto(0)
  <2>1. DOMAIN b = {}
    OBVIOUS
  <2> HIDE DEF b
  <2>2. SplitSoFar(tokens, b)
    BY <2>1 DEF SplitSoFar, InOrder
  <2>3. Cardinality(Rest(tokens, b)) <= Len(tokens) /\ Len(tokens) - 0 = Len(tokens)
    BY <1>1, RestIs
  <2> QED
    BY <1>1, <2>2, <2>3
<1> HIDE DEF step, op, n, C, b, Upto
<1>4. \A k \in 0..n : X[k] = Upto(k)
  OBVIOUS
<1>5. \A k \in 1..n : k \in 0..n /\ k - 1 \in 0..n
  BY <1>1
<1>6. b \in X[0]
  <2>1. 0 \in 0..n
    BY <1>1
  <2> QED
    BY <1>b, <1>4, <2>1
<1> HIDE DEF X
<1>7. \A k \in 1..n : \A x \in X[k - 1] : step[<<x, k>>] \in X[k]
  BY <1>3, <1>4, <1>5
<1>8. PICK h : /\ h = [k \in 0..n |-> h[k]] /\ \A k \in 0..n : h[k] \in X[k]
               /\ Follows(h, n, b, X, step)
  BY <1>1, <1>6, <1>7, Recursion
<1>9. h = Def(h)
  <2>1. ASSUME NEW k \in 0..n PROVE h[k] = IF k = 0 THEN b ELSE op(h[k - 1], k)
    <3>1. CASE k = 0
      BY <1>8, <3>1 DEF Follows
    <3>2. CASE k # 0
      <4>1. k \in 1..n /\ k - 1 \in 0..n
        BY <1>1, <3>2
      <4>2. h[k - 1] \in X[k - 1] /\ h[k - 1] \in Upto(k - 1)
        BY <1>4, <1>8, <4>1
      <4>3. h[k] = step[<<h[k - 1], k>>]
        BY <1>8, <3>2, <4>2 DEF Follows
      <4> QED
        BY <1>3, <3>2, <4>1, <4>2, <4>3
    <3> QED
      BY <3>1, <3>2
  <2> QED
    BY <1>8, <2>1
<1>10. G = Def(G)
  <2> HIDE DEF Def
  <2> QED
    BY <1>9
<1>11. Follows(G, n, b, X, step)
  <2> HIDE DEF G
  <2> SUFFICES ASSUME NEW k \in 0..n
               PROVE  IF k = 0 THEN G[k] = b
                      ELSE G[k - 1] \in X[k - 1] => G[k] = step[<<G[k - 1], k>>]
    BY DEF Follows
  <2>1. G[k] = IF k = 0 THEN b ELSE op(G[k - 1], k)
    BY <1>10
  <2>2. k # 0 => k \in 1..n /\ X[k - 1] = Upto(k - 1)
    BY <1>1, <1>4, <1>5
  <2> QED
    BY <1>3, <2>1, <2>2
<1>12. G[n] \in Upto(n)
  <2> HIDE DEF G
  <2>1. n \in 0..n
    BY <1>1
  <2>2. G[n] \in X[n]
    BY <1>1, <1>6, <1>7, <1>11, <2>1, FollowsIn
  <2> QED
    BY <1>4, <2>1, <2>2
<1> HIDE DEF G
<1>13. /\ G[n] \in Seq(Seq(Token)) /\ SplitSoFar(tokens, G[n])
       /\ Cardinality(Rest(tokens, G[n])) <= n - n
  BY <1>12 DEF Upto, n
<1>14. Rest(tokens, G[n]) = {}
  <2> DEFINE P == Rest(tokens, G[n])
  <2>1. IsFiniteSet(P) /\ Cardinality(P) <= 0
    BY <1>1, <1>13, RestIs
  <2> HIDE DEF P
  <2>2. Cardinality(P) = 0
    <3>1. Cardinality(P) \in Nat
      BY <2>1, FS_CardinalityType
    <3> QED
      BY <2>1, <3>1
  <2> QED
    BY <2>1, <2>2, FS_EmptySet DEF P
<1>15. SplitsInto(tokens, G[n])
  <2>1. ASSUME NEW x \in ToSet(tokens) PROVE \E m \in DOMAIN G[n] : x \in ToSet(G[n][m])
    <3>1. PICK i \in DOMAIN tokens : x = tokens[i]
      BY DEF ToSet
    <3> QED
      BY <1>14, <3>1 DEF Rest
  <2> QED
    BY <1>13, <2>1 DEF SplitsInto, SplitSoFar
<1> QED
  BY <1>13, <1>15 DEF SplitSoFar

-----------------------------------------------------------------------------
(* The decode. *)

\* The tokens so far, and where each sequence goes on.
Numbering == [tokens : Seq([seqs : Lists, pos : Int]), p0 : [Seqs -> Int]]

\* The first k tokens have a position; if each is for one sequence, they are in order.
NumberedUpTo(q, lists, k) ==
  /\ DOMAIN q.tokens = 1..k /\ \A i \in 1..k : q.tokens[i].seqs = lists[i]
  /\ (\A i \in DOMAIN lists : Len(lists[i]) = 1) =>
       /\ Sorted(q.tokens)
       /\ \A i \in 1..k : q.tokens[i].pos < q.p0[q.tokens[i].seqs[1]]

\* A list of sequences has a first one, and only that or several.
LEMMA ListIs ==
  ASSUME NEW l \in Lists
  PROVE  /\ l[1] \in Seqs /\ l[1] \in ToSet(l) /\ ToSet(l) \subseteq Seqs
         /\ Len(l) = 1 => ToSet(l) = {l[1]} /\ l = <<l[1]>>
         /\ Len(l) = 1 \/ Len(l) > 1
<1>1. l \in [1..1 -> Seqs] \/ l \in [1..2 -> Seqs]
  BY DEF Lists
<1>2. CASE l \in [1..1 -> Seqs]
  <2>1. DOMAIN l = 1..1 /\ Len(l) = 1 /\ l[1] \in Seqs
    BY <1>2
  <2>2. \A i : i \in 1..1 <=> i = 1
    OBVIOUS
  <2>3. ToSet(l) = {l[1]}
    BY <2>1, <2>2 DEF ToSet
  <2>4. l = <<l[1]>>
    BY <1>2
  <2> QED
    BY <2>1, <2>3, <2>4
<1>3. CASE l \in [1..2 -> Seqs]
  <2>1. DOMAIN l = 1..2 /\ Len(l) = 2 /\ l[1] \in Seqs /\ l[2] \in Seqs
    BY <1>3
  <2>2. l[1] \in ToSet(l) /\ ToSet(l) \subseteq Seqs
    BY <1>3, <2>1 DEF ToSet
  <2> QED
    BY <2>1, <2>2
<1> QED
  BY <1>1, <1>2, <1>3

\* A token that is numbered follows those before it.
LEMMA NumberIs ==
  ASSUME NEW n \in Nat, NEW lists \in [1..n -> Lists], NEW k \in 1..n, NEW q \in Numbering,
         NumberedUpTo(q, lists, k - 1)
  PROVE  Number(q, lists[k]) \in Numbering /\ NumberedUpTo(Number(q, lists[k]), lists, k)
<1> DEFINE l == lists[k]
           p == q.p0[l[1]]
           x == [seqs |-> l, pos |-> p]
           r == Number(q, l)
<1>1. /\ l \in Lists /\ l[1] \in Seqs /\ l[1] \in ToSet(l)
      /\ Len(l) = 1 => ToSet(l) = {l[1]}
  BY ListIs
<1>2. q.tokens \in Seq([seqs : Lists, pos : Int]) /\ q.p0 \in [Seqs -> Int]
  BY DEF Numbering
<1>3. p \in Int /\ x \in [seqs : Lists, pos : Int]
  BY <1>1, <1>2
<1>4. Len(q.tokens) = k - 1 /\ k \in Nat /\ k - 1 \in Nat
  <2>1. DOMAIN q.tokens = 1..k - 1
    BY DEF NumberedUpTo
  <2>2. k \in Nat /\ k - 1 \in Nat /\ Len(q.tokens) \in Nat /\ DOMAIN q.tokens = 1..Len(q.tokens)
    BY <1>2, LenProperties
  <2> QED
    BY <2>1, <2>2
<1>5. /\ r.tokens = Append(q.tokens, x)
      /\ r.p0 = [s \in Seqs |-> IF s \in ToSet(l) THEN p + 1 ELSE q.p0[s]]
      /\ r = [tokens |-> r.tokens, p0 |-> r.p0]
  BY DEF Number
<1> HIDE DEF r, x
<1>6. /\ r.tokens \in Seq([seqs : Lists, pos : Int])
      /\ DOMAIN r.tokens = 1..k
      /\ \A i \in 1..k - 1 : r.tokens[i] = q.tokens[i]
      /\ r.tokens[k] = x
  <2>1. /\ Append(q.tokens, x) \in Seq([seqs : Lists, pos : Int])
        /\ Len(Append(q.tokens, x)) = Len(q.tokens) + 1
        /\ \A i \in 1..Len(q.tokens) : Append(q.tokens, x)[i] = q.tokens[i]
        /\ Append(q.tokens, x)[Len(q.tokens) + 1] = x
    BY <1>2, <1>3, AppendProperties
  <2>2. Len(q.tokens) + 1 = k
    BY <1>4
  <2> QED
    BY <1>4, <1>5, <2>1, <2>2, LenProperties
<1>7. r.p0 \in [Seqs -> Int]
  BY <1>2, <1>3, <1>5
<1>8. r \in Numbering
  BY <1>5, <1>6, <1>7 DEF Numbering
<1>9. \A i : i \in 1..k <=> i \in 1..k - 1 \/ i = k
  BY <1>4
<1>10. \A i \in 1..k - 1 : i < k /\ ~(k < i) /\ i \in 1..n
  BY <1>4
<1>11. x.seqs = l /\ x.pos = p
  BY DEF x
<1>12. \A i \in 1..k - 1 : q.tokens[i].seqs = lists[i]
  BY DEF NumberedUpTo
<1>13. \A i \in 1..k : r.tokens[i].seqs = lists[i]
  BY <1>6, <1>9, <1>11, <1>12
<1>14. ASSUME \A i \in DOMAIN lists : Len(lists[i]) = 1
       PROVE  Sorted(r.tokens) /\ \A i \in 1..k : r.tokens[i].pos < r.p0[r.tokens[i].seqs[1]]
  <2>1. Sorted(q.tokens) /\ \A i \in 1..k - 1 : q.tokens[i].pos < q.p0[q.tokens[i].seqs[1]]
    BY <1>14 DEF NumberedUpTo
  <2>2. ToSet(l) = {l[1]}
    BY <1>1, <1>14
  <2>3. \A i \in 1..k - 1 : q.tokens[i].pos \in Int /\ q.tokens[i].seqs \in Lists
    <3>1. \A i \in 1..Len(q.tokens) : q.tokens[i] \in [seqs : Lists, pos : Int]
      BY <1>2, ElementOfSeq
    <3> QED
      BY <1>4, <3>1
  <2>4. ASSUME NEW i \in 1..k, NEW j \in 1..k, i < j, r.tokens[i].seqs = r.tokens[j].seqs
        PROVE  r.tokens[i].pos < r.tokens[j].pos
    <3>1. i \in 1..k - 1
      BY <1>4, <2>4
    <3>2. CASE j \in 1..k - 1
      <4>1. i \in DOMAIN q.tokens /\ j \in DOMAIN q.tokens
        BY <3>1, <3>2 DEF NumberedUpTo
      <4> QED
        BY <1>6, <2>1, <2>4, <3>1, <3>2, <4>1 DEF Sorted
    <3>3. CASE j = k
      <4>1. q.tokens[i].seqs = l
        BY <1>6, <1>11, <2>4, <3>1, <3>3
      <4> QED
        BY <1>6, <1>11, <2>1, <3>1, <3>3, <4>1
    <3> QED
      BY <1>9, <3>2, <3>3
  <2>5. ASSUME NEW i \in 1..k PROVE r.tokens[i].pos < r.p0[r.tokens[i].seqs[1]]
    <3>1. CASE i = k
      <4>1. r.p0[l[1]] = p + 1
        BY <1>1, <1>5
      <4> QED
        BY <1>3, <1>6, <1>11, <3>1, <4>1
    <3>2. CASE i \in 1..k - 1
      <4> DEFINE s == q.tokens[i].seqs[1]
      <4>1. q.tokens[i].pos < q.p0[s] /\ s \in Seqs /\ q.tokens[i].pos \in Int /\ r.tokens[i] = q.tokens[i]
        BY <1>6, <2>1, <2>3, <3>2, ListIs
      <4> HIDE DEF s
      <4>2. CASE s \in ToSet(l)
        <5>1. s = l[1] /\ r.p0[s] = p + 1
          BY <1>5, <2>2, <4>1, <4>2
        <5>2. q.tokens[i].pos < p + 1
          BY <1>3, <4>1, <5>1
        <5> QED
          BY <4>1, <5>1, <5>2 DEF s
      <4>3. CASE s \notin ToSet(l)
        <5>1. r.p0[s] = q.p0[s]
          BY <1>5, <4>1, <4>3
        <5> QED
          BY <4>1, <5>1 DEF s
      <4> QED
        BY <4>2, <4>3
    <3> QED
      BY <1>9, <3>1, <3>2
  <2> QED
    BY <1>6, <2>4, <2>5 DEF Sorted
<1>15. NumberedUpTo(r, lists, k)
  BY <1>6, <1>13, <1>14 DEF NumberedUpTo
<1> QED
  BY <1>8, <1>15 DEF r

\* The tokens of a batch are numbered upwards in each sequence.
LEMMA NumberedHas ==
  ASSUME NEW lists \in Batches, NEW tokens, tokens = Numbered(lists), CacheFits(swa, SizeSwa),
         \A i \in DOMAIN tokens : tokens[i].pos \in 0..MaxPos
  PROVE  tokens \in Seq(Numbers) /\ (~IsCoupled(tokens) => Sorted(tokens))
<1>p. PICK N \in 1..MaxBatch : lists \in [1..N -> Lists]
  BY DEF Batches
<1> DEFINE n == Len(lists)
           b == [tokens |-> <<>>, p0 |-> [s \in Seqs |-> PosMax(swa[StreamOf(s)], s) + 1]]
           Upto(k) == {q \in Numbering : NumberedUpTo(q, lists, k)}
           op(x, k) == Number(x, lists[k])
           X == [k \in 0..n |-> Upto(k)]
           step == [z \in Numbering \X (1..n) |-> op(z[1], z[2])]
           Def(g) == [k \in 0..n |-> IF k = 0 THEN b ELSE op(g[k - 1], k)]
           G == CHOOSE g : g = Def(g)
<1>0. tokens = G[n].tokens
  BY DEF Numbered
<1>1. n \in Nat /\ n = N /\ lists \in [1..n -> Lists]
  <2>1. N \in Nat
    BY SizesAssumption
  <2> QED
    BY <1>p, <2>1
<1>b. b \in Upto(0)
  <2>1. \A s \in Seqs : PosMax(swa[StreamOf(s)], s) + 1 \in Int
    <3> SUFFICES ASSUME NEW s \in Seqs PROVE PosMax(swa[StreamOf(s)], s) + 1 \in Int
      OBVIOUS
    <3>1. PosMax(swa[StreamOf(s)], s) \in Int
      BY Sizes, PosOfIs
    <3> QED
      BY <3>1
  <2>2. b.tokens = <<>> /\ b.p0 \in [Seqs -> Int] /\ b = [tokens |-> b.tokens, p0 |-> b.p0]
    BY <2>1
  <2> HIDE DEF b
  <2>3. b \in Numbering
    BY <2>2, EmptySeq DEF Numbering
  <2>4. DOMAIN b.tokens = {} /\ 1..0 = {}
    BY <2>2
  <2>5. NumberedUpTo(b, lists, 0)
    BY <2>4 DEF NumberedUpTo, Sorted
  <2> QED
    BY <2>3, <2>5
<1>2. ASSUME NEW k \in 1..n, NEW x \in Upto(k - 1) PROVE op(x, k) \in Upto(k)
  <2>1. op(x, k) = Number(x, lists[k])
    OBVIOUS
  <2> HIDE DEF op, n
  <2>2. Number(x, lists[k]) \in Numbering /\ NumberedUpTo(Number(x, lists[k]), lists, k)
    BY <1>1, NumberIs
  <2> QED
    BY <2>1, <2>2
<1>3. ASSUME NEW k \in 1..n, NEW x \in Upto(k - 1)
      PROVE  step[<<x, k>>] = op(x, k) /\ step[<<x, k>>] \in Upto(k)
  <2>1. op(x, k) \in Upto(k) /\ x \in Numbering
    BY <1>2
  <2> HIDE DEF op, n, Upto
  <2> QED
    BY <2>1
<1> HIDE DEF step, op, n, b, Upto
<1>4. \A k \in 0..n : X[k] = Upto(k)
  OBVIOUS
<1>5. \A k \in 1..n : k \in 0..n /\ k - 1 \in 0..n
  BY <1>1
<1>6. b \in X[0]
  <2>1. 0 \in 0..n
    BY <1>1
  <2> QED
    BY <1>b, <1>4, <2>1
<1> HIDE DEF X
<1>7. \A k \in 1..n : \A x \in X[k - 1] : step[<<x, k>>] \in X[k]
  BY <1>3, <1>4, <1>5
<1>8. PICK h : /\ h = [k \in 0..n |-> h[k]] /\ \A k \in 0..n : h[k] \in X[k]
               /\ Follows(h, n, b, X, step)
  BY <1>1, <1>6, <1>7, Recursion
<1>9. h = Def(h)
  <2>1. ASSUME NEW k \in 0..n PROVE h[k] = IF k = 0 THEN b ELSE op(h[k - 1], k)
    <3>1. CASE k = 0
      BY <1>8, <3>1 DEF Follows
    <3>2. CASE k # 0
      <4>1. k \in 1..n /\ k - 1 \in 0..n
        BY <1>1, <3>2
      <4>2. h[k - 1] \in X[k - 1] /\ h[k - 1] \in Upto(k - 1)
        BY <1>4, <1>8, <4>1
      <4>3. h[k] = step[<<h[k - 1], k>>]
        BY <1>8, <3>2, <4>2 DEF Follows
      <4> QED
        BY <1>3, <3>2, <4>1, <4>2, <4>3
    <3> QED
      BY <3>1, <3>2
  <2> QED
    BY <1>8, <2>1
<1>10. G = Def(G)
  <2> HIDE DEF Def
  <2> QED
    BY <1>9
<1>11. Follows(G, n, b, X, step)
  <2> HIDE DEF G
  <2> SUFFICES ASSUME NEW k \in 0..n
               PROVE  IF k = 0 THEN G[k] = b
                      ELSE G[k - 1] \in X[k - 1] => G[k] = step[<<G[k - 1], k>>]
    BY DEF Follows
  <2>1. G[k] = IF k = 0 THEN b ELSE op(G[k - 1], k)
    BY <1>10
  <2>2. k # 0 => k \in 1..n /\ X[k - 1] = Upto(k - 1)
    BY <1>1, <1>4, <1>5
  <2> QED
    BY <1>3, <2>1, <2>2
<1>12. G[n] \in Upto(n)
  <2> HIDE DEF G
  <2>1. n \in 0..n
    BY <1>1
  <2>2. G[n] \in X[n]
    BY <1>1, <1>6, <1>7, <1>11, <2>1, FollowsIn
  <2> QED
    BY <1>4, <2>1, <2>2
<1> HIDE DEF G
<1>13. G[n] \in Numbering /\ NumberedUpTo(G[n], lists, n)
  BY <1>12 DEF Upto
<1>14. /\ tokens \in Seq([seqs : Lists, pos : Int]) /\ DOMAIN tokens = 1..n
       /\ \A i \in 1..n : tokens[i].seqs = lists[i]
       /\ (\A i \in DOMAIN lists : Len(lists[i]) = 1) => Sorted(tokens)
  BY <1>0, <1>13 DEF Numbering, NumberedUpTo
<1>15. tokens \in Seq(Numbers)
  <2>1. ASSUME NEW i \in 1..n PROVE tokens[i] \in Numbers
    <3>1. i \in DOMAIN tokens /\ Len(tokens) \in Nat /\ DOMAIN tokens = 1..Len(tokens)
      BY <1>14, LenProperties
    <3>2. tokens[i] \in [seqs : Lists, pos : Int]
      BY <1>14, <3>1, ElementOfSeq
    <3>3. tokens[i].pos \in 0..MaxPos
      BY <3>1
    <3> QED
      BY <3>2, <3>3 DEF Numbers
  <2>2. tokens = [i \in 1..n |-> tokens[i]]
    BY <1>14
  <2> QED
    BY <1>1, <2>1, <2>2
<1>16. ASSUME ~IsCoupled(tokens) PROVE \A i \in DOMAIN lists : Len(lists[i]) = 1
  <2> SUFFICES ASSUME NEW i \in DOMAIN lists PROVE Len(lists[i]) = 1
    OBVIOUS
  <2>1. i \in 1..n /\ lists[i] \in Lists
    BY <1>1
  <2>2. ~(Len(lists[i]) > 1)
    BY <1>14, <1>16, <2>1 DEF IsCoupled
  <2> QED
    BY <2>1, <2>2, ListIs
<1> QED
  BY <1>14, <1>15, <1>16

\* What a search for room in both caches has found.
Found(r, b, k) ==
  /\ CacheFits(r.b.cache, SizeBase) /\ CacheFits(r.s.cache, SizeSwa)
  /\ Within(r.b.cache, b, 0, SizeBase) /\ Within(r.s.cache, k, Window, SizeSwa)
  /\ r.ok => /\ r.us \in Seq(Seq(Token)) /\ r.b.ok /\ r.s.ok
             /\ \E b0 : Prepared(r.b, b0, r.us, 0, SizeBase)
             /\ \E k0 : Prepared(r.s, k0, r.us, Window, SizeSwa)

\* A split that fits has slots in both caches; one that does not takes nothing from the
\* base cache.
LEMMA TryIs ==
  ASSUME NEW b, CacheFits(b, SizeBase), NEW k, CacheFits(k, SizeSwa), NEW us \in Seq(Seq(Token))
  PROVE  Found(Try(b, k, us), b, k)
<1> DEFINE pb == Prepare(b, us, 0)
           ps == Prepare(k, us, Window)
           r == Try(b, k, us)
<1>1. r = IF pb.ok THEN [ok |-> ps.ok, us |-> us, b |-> pb, s |-> ps]
          ELSE [ok |-> FALSE, us |-> us, b |-> pb, s |-> NotAsked(k)]
  BY Zenon DEF Try
<1>2. Prepared(pb, b, us, 0, SizeBase) /\ Prepared(ps, k, us, Window, SizeSwa)
  BY Sizes, PrepareIs
<1> HIDE DEF pb, ps, r
<1>3. CASE pb.ok
  <2>1. r = [ok |-> ps.ok, us |-> us, b |-> pb, s |-> ps]
    BY <1>1, <1>3
  <2>2. r.ok = ps.ok /\ r.us = us /\ r.b = pb /\ r.s = ps
    BY <2>1
  <2>3. Found(r, b, k)
    BY <1>2, <1>3, <2>2 DEF Found, Prepared
  <2> QED
    BY <2>3 DEF r
<1>4. CASE ~pb.ok
  <2>1. r = [ok |-> FALSE, us |-> us, b |-> pb, s |-> NotAsked(k)]
    BY <1>1, <1>4
  <2>2. ~r.ok /\ r.b = pb /\ r.s.cache = k
    BY <2>1 DEF NotAsked
  <2>3. Found(r, b, k)
    BY <1>2, <2>2, WithinSelf DEF Found, Prepared
  <2> QED
    BY <2>3 DEF r
<1> QED
  BY <1>3, <1>4

\* init_batch finds slots with one of the two splits, or none.
LEMMA InitBatchIs ==
  ASSUME CacheFits(base, SizeBase), CacheFits(swa, SizeSwa), NEW tokens \in Seq(Numbers)
  PROVE  Found(InitBatch(tokens), base, swa)
<1> DEFINE simple == IF unified THEN Try(base, swa, SplitSimple(tokens))
                     ELSE [ok |-> FALSE, us |-> <<>>, b |-> NotAsked(base), s |-> NotAsked(swa)]
           again == Try(simple.b.cache, simple.s.cache, SplitEqual(tokens))
<1>1. InitBatch(tokens) = IF simple.ok THEN simple ELSE again
  BY Zenon DEF InitBatch
<1>2. Found(simple, base, swa)
  <2>1. CASE unified
    <3>1. SplitSimple(tokens) \in Seq(Seq(Token))
      BY <2>1, NumbersAre, SplitSimpleIs
    <3> QED
      BY <2>1, <3>1, TryIs
  <2>2. CASE ~unified
    <3>1. ~simple.ok /\ simple.b.cache = base /\ simple.s.cache = swa
      BY <2>2 DEF NotAsked
    <3> HIDE DEF simple
    <3> QED
      BY <3>1, WithinSelf DEF Found
  <2> QED
    BY <2>1, <2>2
<1> HIDE DEF simple
<1>3. /\ CacheFits(simple.b.cache, SizeBase) /\ CacheFits(simple.s.cache, SizeSwa)
      /\ Within(simple.b.cache, base, 0, SizeBase) /\ Within(simple.s.cache, swa, Window, SizeSwa)
  BY <1>2 DEF Found
<1>4. Found(again, simple.b.cache, simple.s.cache)
  BY <1>3, SplitEqualHas, TryIs
<1> HIDE DEF again
<1>5. Within(again.b.cache, base, 0, SizeBase) /\ Within(again.s.cache, swa, Window, SizeSwa)
  BY <1>3, <1>4, WithinTwice DEF Found
<1>6. Found(again, base, swa)
  BY <1>4, <1>5 DEF Found
<1> QED
  BY <1>1, <1>2, <1>6

\* What was found goes into both caches, as far as the n-th ubatch.
LEMMA FoundRun ==
  ASSUME NEW E, Good(base, swa, E), NEW r, Found(r, base, swa), r.ok, NEW n \in 0..Len(r.us)
  PROVE  LET b == Processed(r.b, r.us, n)
             k == Processed(r.s, r.us, n)
         IN /\ CacheFits(b, SizeBase) /\ CacheFits(k, SizeSwa)
            /\ \A s \in Seqs \ E : Cov(s, b[StreamOf(s)], k[StreamOf(s)])
<1>1. CacheFits(base, SizeBase) /\ CacheFits(swa, SizeSwa)
  BY GoodFits
<1>2. ASSUME NEW s \in Seqs \ E
      PROVE  Cov(s, r.b.cache[StreamOf(s)], r.s.cache[StreamOf(s)])
  <2>1. Cov(s, base[StreamOf(s)], swa[StreamOf(s)])
    BY DEF Good
  <2>2. /\ CacheFits(r.b.cache, SizeBase) /\ CacheFits(r.s.cache, SizeSwa)
        /\ Within(r.b.cache, base, 0, SizeBase) /\ Within(r.s.cache, swa, Window, SizeSwa)
    BY DEF Found
  <2> QED
    BY <1>1, <2>1, <2>2, CovWithin
<1>3. /\ r.us \in Seq(Seq(Token)) /\ r.b.ok /\ r.s.ok
      /\ \E b0 : Prepared(r.b, b0, r.us, 0, SizeBase)
      /\ \E k0 : Prepared(r.s, k0, r.us, Window, SizeSwa)
  BY DEF Found
<1>4. PICK b0 : Prepared(r.b, b0, r.us, 0, SizeBase)
  BY <1>3
<1>5. PICK k0 : Prepared(r.s, k0, r.us, Window, SizeSwa)
  BY <1>3
<1> QED
  BY <1>2, <1>3, <1>4, <1>5, RunIs

\* A decode keeps the invariant, however it ends.
LEMMA DecodeStep ==
  ASSUME CacheInv, NEW lists \in Batches, Decode(lists)
  PROVE  After /\ unified' = unified /\ outcome'.ret \in {0, 1, 2, -1} /\ edits' = edits
<1>1. Good(base, swa, entangled) /\ entangled \in SUBSET Seqs /\ (~unified => entangled = {})
  BY DEF CacheInv, KVTypeOK
<1>2. PICK tokens \in {Numbered(lists)} :
        /\ \A i \in DOMAIN tokens : tokens[i].pos \in 0..MaxPos
        /\ \/ Invalid(tokens)
           \/ \E init \in {InitBatch(tokens)} :
                NoSlot(tokens, init) \/ Success(tokens, init) \/ Aborted(tokens, init)
  BY DEF Decode
<1>3. ASSUME NEW ret \in {0, 1, 2, -1}, Returned(tokens, ret)
      PROVE  /\ unified' = unified /\ outcome'.ret \in {0, 1, 2, -1} /\ edits' = edits
             /\ entangled' = entangled
  BY <1>3 DEF Returned
<1>4. CacheFits(base, SizeBase) /\ CacheFits(swa, SizeSwa)
  BY <1>1, GoodFits
<1>5. tokens \in Seq(Numbers)
  BY <1>2, <1>4, NumberedHas
<1>6. CASE Invalid(tokens)
  BY <1>1, <1>3, <1>6 DEF Invalid, After
<1>7. ASSUME NEW init, init = InitBatch(tokens),
             NoSlot(tokens, init) \/ Success(tokens, init) \/ Aborted(tokens, init)
      PROVE  After /\ unified' = unified /\ outcome'.ret \in {0, 1, 2, -1} /\ edits' = edits
  <2>1. Found(init, base, swa)
    BY <1>5, <1>4, <1>7, InitBatchIs
  <2>2. CASE NoSlot(tokens, init)
    <3>1. base' = init.b.cache /\ swa' = init.s.cache /\ Returned(tokens, 1)
      BY <2>2 DEF NoSlot
    <3>2. /\ CacheFits(base', SizeBase) /\ CacheFits(swa', SizeSwa)
          /\ Within(base', base, 0, SizeBase) /\ Within(swa', swa, Window, SizeSwa)
      BY <2>1, <3>1 DEF Found
    <3>3. ASSUME NEW s \in Seqs \ entangled PROVE Cov(s, base'[StreamOf(s)], swa'[StreamOf(s)])
      <4>1. Cov(s, base[StreamOf(s)], swa[StreamOf(s)])
        BY <1>1 DEF Good
      <4> QED
        BY <1>4, <3>2, <4>1, CovWithin
    <3>4. Good(base', swa', entangled)
      BY <3>2, <3>3, FitsGood
    <3> QED
      BY <1>1, <1>3, <3>1, <3>4 DEF After
  <2>3. CASE Success(tokens, init)
    <3> DEFINE n == Len(init.us)
    <3>1. /\ init.ok /\ base' = Processed(init.b, init.us, n) /\ swa' = Processed(init.s, init.us, n)
          /\ Returned(tokens, 0)
      BY <2>3 DEF Success
    <3>2. n \in 0..Len(init.us)
      <4>1. init.us \in Seq(Seq(Token))
        BY <2>1, <3>1 DEF Found
      <4>2. n \in Nat
        BY <4>1, LenProperties
      <4> QED
        BY <4>2
    <3> HIDE DEF n
    <3>3. /\ CacheFits(base', SizeBase) /\ CacheFits(swa', SizeSwa)
          /\ \A s \in Seqs \ entangled : Cov(s, base'[StreamOf(s)], swa'[StreamOf(s)])
      BY <1>1, <2>1, <3>1, <3>2, FoundRun
    <3>4. Good(base', swa', entangled)
      BY <3>3, FitsGood
    <3> QED
      BY <1>1, <1>3, <3>1, <3>4 DEF After
  <2>4. CASE Aborted(tokens, init)
    <3>1. init.ok /\ Returned(tokens, 2)
      BY <2>4 DEF Aborted
    <3>2. PICK n \in 1..Len(init.us) :
            /\ base' = RolledBack(Processed(init.b, init.us, n), init.us[n])
            /\ swa' = RolledBack(Processed(init.s, init.us, n), init.us[n])
      BY <2>4 DEF Aborted
    <3> DEFINE b == Processed(init.b, init.us, n)
               k == Processed(init.s, init.us, n)
    <3>3. n \in 0..Len(init.us)
      OBVIOUS
    <3>4. /\ CacheFits(b, SizeBase) /\ CacheFits(k, SizeSwa)
          /\ \A s \in Seqs \ entangled : Cov(s, b[StreamOf(s)], k[StreamOf(s)])
      BY <1>1, <2>1, <3>1, <3>3, FoundRun
    <3>5. base' = RolledBack(b, init.us[n]) /\ swa' = RolledBack(k, init.us[n])
      BY <3>2
    <3> HIDE DEF b, k
    <3>6. CacheFits(base', SizeBase) /\ CacheFits(swa', SizeSwa)
      BY <3>4, <3>5, RolledBackIs, Sizes
    <3>7. \A s \in Seqs \ entangled : Cov(s, base'[StreamOf(s)], swa'[StreamOf(s)])
      BY <3>4, <3>5, CovRolledBack
    <3>8. Good(base', swa', entangled)
      BY <3>6, <3>7, FitsGood
    <3> QED
      BY <1>1, <1>3, <3>1, <3>8 DEF After
  <2> QED
    BY <1>7, <2>2, <2>3, <2>4
<1> QED
  BY <1>2, <1>6, <1>7

\* A split that fits is not empty.
LEMMA TryHas ==
  ASSUME NEW b, NEW k, NEW us
  PROVE  Try(b, k, us).us = us /\ (Try(b, k, us).ok => us # <<>>)
<1> DEFINE pb == Prepare(b, us, 0)
           ps == Prepare(k, us, Window)
           r == Try(b, k, us)
<1>1. r = IF pb.ok THEN [ok |-> ps.ok, us |-> us, b |-> pb, s |-> ps]
          ELSE [ok |-> FALSE, us |-> us, b |-> pb, s |-> NotAsked(k)]
  BY Zenon DEF Try
<1>2. pb.ok => us # <<>>
  BY DEF Prepare
<1> HIDE DEF pb, ps, r
<1>3. r.us = us /\ (r.ok => us # <<>>)
  BY <1>1, <1>2
<1> QED
  BY <1>3 DEF r

\* What goes into the caches is the batch.
LEMMA InitBatchHas ==
  ASSUME NEW tokens \in Seq(Numbers), InitBatch(tokens).ok
  PROVE  /\ tokens \in Seq(Token) /\ SplitsInto(tokens, InitBatch(tokens).us)
         /\ Sorted(tokens) => InOrder(InitBatch(tokens).us)
<1> DEFINE simple == IF unified THEN Try(base, swa, SplitSimple(tokens))
                     ELSE [ok |-> FALSE, us |-> <<>>, b |-> NotAsked(base), s |-> NotAsked(swa)]
           again == Try(simple.b.cache, simple.s.cache, SplitEqual(tokens))
           r == InitBatch(tokens)
<1>1. r = IF simple.ok THEN simple ELSE again
  BY Zenon DEF InitBatch
<1>2. simple.ok => unified /\ simple.us = SplitSimple(tokens)
  <2>1. CASE unified
    <3>1. simple = Try(base, swa, SplitSimple(tokens))
      BY <2>1
    <3> QED
      BY <2>1, <3>1, TryHas
  <2>2. CASE ~unified
    <3>1. ~simple.ok
      BY <2>2
    <3> QED
      BY <3>1
  <2> QED
    BY <2>1, <2>2
<1> HIDE DEF simple
<1>3. again.us = SplitEqual(tokens) /\ (again.ok => SplitEqual(tokens) # <<>>)
  BY TryHas
<1> HIDE DEF again, r
<1>4. CASE simple.ok
  <2>1. unified /\ r.us = SplitSimple(tokens)
    BY <1>1, <1>2, <1>4
  <2>2. tokens \in Seq(Token)
    BY <2>1, NumbersAre
  <2> QED
    BY <2>1, <2>2, SplitSimpleHas DEF r
<1>5. CASE ~simple.ok
  <2>1. r = again
    BY <1>1, <1>5
  <2>2. again.ok
    BY <2>1 DEF r
  <2>3. r.us = SplitEqual(tokens) /\ SplitEqual(tokens) # <<>>
    BY <1>3, <2>1, <2>2
  <2>4. unified \/ ~IsCoupled(tokens)
    BY <2>3 DEF SplitEqual
  <2>5. tokens \in Seq(Token)
    BY <2>4, NumbersAre
  <2> QED
    BY <2>3, <2>4, <2>5, SplitEqualHas DEF r
<1> QED
  BY <1>4, <1>5

\* The positions of a batch are those of its ubatches.
LEMMA PosInSplit ==
  ASSUME NEW tokens \in Seq(Token), NEW us \in Seq(Seq(Token)), SplitsInto(tokens, us), NEW s
  PROVE  PosUpTo(us, Len(us), s) = PosIn(tokens, s)
<1>1. DOMAIN us = 1..Len(us) /\ \A m \in 1..Len(us) : us[m] \in Seq(Token)
  BY LenProperties, ElementOfSeq
<1>2. \A p : p \in PosIn(tokens, s) <=> \E x \in ToSet(tokens) : s \in ToSet(x.seqs) /\ p = x.pos
  BY PosInIs
<1>3. \A m \in 1..Len(us) : \A p : p \in PosIn(us[m], s) <=>
        \E x \in ToSet(us[m]) : s \in ToSet(x.seqs) /\ p = x.pos
  BY <1>1, PosInIs
<1>4. \A p : p \in PosUpTo(us, Len(us), s) <=> \E m \in 1..Len(us) : p \in PosIn(us[m], s)
  BY DEF PosUpTo
<1>5. ASSUME NEW p \in PosIn(tokens, s) PROVE p \in PosUpTo(us, Len(us), s)
  <2>1. PICK x \in ToSet(tokens) : s \in ToSet(x.seqs) /\ p = x.pos
    BY <1>2
  <2>2. PICK m \in 1..Len(us) : x \in ToSet(us[m])
    BY <1>1 DEF SplitsInto
  <2> QED
    BY <1>3, <1>4, <2>1, <2>2
<1>6. ASSUME NEW p \in PosUpTo(us, Len(us), s) PROVE p \in PosIn(tokens, s)
  <2>1. PICK m \in 1..Len(us) : p \in PosIn(us[m], s)
    BY <1>4
  <2>2. PICK x \in ToSet(us[m]) : s \in ToSet(x.seqs) /\ p = x.pos
    BY <1>3, <2>1
  <2>3. x \in ToSet(tokens)
    BY <1>1 DEF SplitsInto
  <2> QED
    BY <1>2, <2>2, <2>3
<1> QED
  BY <1>5, <1>6

\* What the base cache has of s after the first n ubatches of what was found.
LEMMA FoundPos ==
  ASSUME CacheFits(base, SizeBase), NEW k, NEW r, Found(r, base, k), r.ok, NEW n \in 0..Len(r.us),
         NEW s \in Seqs
  PROVE  /\ CacheFits(Processed(r.b, r.us, n), SizeBase)
         /\ PosOf(Processed(r.b, r.us, n)[StreamOf(s)], s) = BaseOf(s) \cup PosUpTo(r.us, n, s)
<1>1. /\ r.us \in Seq(Seq(Token)) /\ r.b.ok /\ Within(r.b.cache, base, 0, SizeBase)
      /\ \E b0 : Prepared(r.b, b0, r.us, 0, SizeBase)
  BY DEF Found
<1>2. PICK b0 : Prepared(r.b, b0, r.us, 0, SizeBase)
  BY <1>1
<1> QED
  BY <1>1, <1>2, PosProcessed DEF BaseOf

\* A valid batch goes on after everything the base cache has of s.
LEMMA ComesAfter ==
  ASSUME CacheFits(base, SizeBase), NEW tokens \in Seq(Token), IsValid(tokens), NEW s \in Seqs, InStep(s),
         NEW b \in BaseOf(s), NEW q \in PosIn(tokens, s)
  PROVE  b < q
<1> DEFINE P == PosIn(tokens, s)
           m == PosMax(base[StreamOf(s)], s)
<1>1. BaseOf(s) \in SUBSET (0..MaxPos) /\ m \in BaseOf(s) /\ \A p \in BaseOf(s) : p <= m
  <2>1. BaseOf(s) = PosOf(base[StreamOf(s)], s) /\ BaseOf(s) # {}
    BY DEF BaseOf
  <2>2. PosOf(base[StreamOf(s)], s) \in SUBSET (0..MaxPos)
    BY Sizes, PosOfIs
  <2>3. IF PosOf(base[StreamOf(s)], s) = {} THEN m = -1
        ELSE m \in PosOf(base[StreamOf(s)], s) /\ \A p \in PosOf(base[StreamOf(s)], s) : p <= m
    BY Sizes, PosOfIs
  <2> HIDE DEF m
  <2> QED
    BY <2>1, <2>2, <2>3
<1>2. b \in Nat /\ m \in Nat /\ b <= m
  <2> HIDE DEF m
  <2> QED
    BY <1>1, SizesAssumption
<1>3. Latest(s) = m
  BY DEF InStep
<1>4. P \in SUBSET Nat
  <2>1. \A p : p \in P <=> \E x \in ToSet(tokens) : s \in ToSet(x.seqs) /\ p = x.pos
    BY PosInIs
  <2>2. \A x \in ToSet(tokens) : x.pos \in Nat
    <3>1. \A x \in ToSet(tokens) : x \in Token
      BY DEF ToSet
    <3> QED
      BY <3>1, SizesAssumption DEF Token
  <2> QED
    BY <2>1, <2>2
<1>5. s \in SeqsOf(tokens)
  BY DEF SeqsOf, PosIn
<1> HIDE DEF m
<1>6. Min(P) = m + 1
  BY <1>2, <1>3, <1>5 DEF IsValid
<1> HIDE DEF P
<1>7. Min(P) <= q /\ q \in Nat
  <2>1. q \in P
    BY DEF P
  <2> QED
    BY <1>4, <2>1, LeastIs
<1> QED
  BY <1>2, <1>6, <1>7

\* The numbers in f come part after part, and after those in B.
Ascending(B, f, L) ==
  /\ \A m, k \in 1..L : m < k => \A a \in f[m], c \in f[k] : a < c
  /\ \A m \in 1..L : \A b \in B, c \in f[m] : b < c

\* What is left of B and the first n parts, without what is from the n-th part on, are B and
\* the numbers up to p.
EndsAt(B, f, L, n, p) ==
  \A x : (/\ x \in B \/ \E m \in 1..n : x \in f[m]
          /\ \A q \in f[n] : ~(q <= x))
         <=> x \in B \/ ((\E m \in 1..L : x \in f[m]) /\ x < p)

\* When the n-th of ascending parts is taken out again, what is left ends at one
\* position.
LEMMA TakenFrom ==
  ASSUME NEW L \in Nat, NEW n \in 1..L, NEW top \in Nat, NEW f \in [1..L -> SUBSET (0..top)],
         NEW B \in SUBSET (0..top), Ascending(B, f, L)
  PROVE  \E p \in 0..top + 1 : EndsAt(B, f, L, n, p)
<1>0. /\ \A m, k \in 1..L : m < k => \A a \in f[m], c \in f[k] : a < c
      /\ \A m \in 1..L : \A b \in B, c \in f[m] : b < c
  BY DEF Ascending
<1> DEFINE R == {x \in 0..top : \E m \in n..L : x \in f[m]}
<1>1. /\ n \in Nat /\ n <= L /\ n \in n..L /\ n \in 1..L
      /\ \A m : m \in 1..L <=> (\E k \in 1..n : m = k /\ k # n) \/ m \in n..L
      /\ \A m \in 1..n : m = n \/ m < n
      /\ \A m \in 1..n : m \in 1..L
      /\ \A m \in n..L : m \in 1..L
  OBVIOUS
<1>2. \A m \in 1..L : \A x \in f[m] : x \in 0..top
  OBVIOUS
<1>3. \A x : x \in R <=> \E m \in n..L : x \in f[m]
  BY <1>1, <1>2
<1>4. PICK p \in 0..top + 1 : /\ \A x \in R : p <= x
                              /\ p \in R \/ p = top + 1
  <2>1. CASE R = {}
    BY <2>1
  <2>2. CASE R # {}
    <3>1. R \in SUBSET Nat
      OBVIOUS
    <3>2. PICK p \in R : \A x \in R : p <= x
      <4> HIDE DEF R
      <4> QED
        BY <2>2, <3>1, Least
    <3>3. p \in 0..top + 1
      OBVIOUS
    <3> QED
      BY <3>2, <3>3
  <2> QED
    BY <2>1, <2>2
<1> HIDE DEF R
<1>5. ASSUME NEW x \in B PROVE \A q \in f[n] : ~(q <= x)
  <2>1. x \in 0..top /\ \A q \in f[n] : x < q /\ q \in 0..top
    BY <1>0, <1>1, <1>2
  <2> QED
    BY <2>1
<1>6. ASSUME NEW m \in 1..n, NEW x \in f[m], \A q \in f[n] : ~(q <= x)
      PROVE  x < p /\ m \in 1..L
  <2>1. x \in 0..top /\ m \in 1..L
    BY <1>1, <1>2
  <2>2. m < n
    <3>1. m # n
      <4>1. x <= x
        BY <2>1
      <4> QED
        BY <1>6, <4>1
    <3> QED
      BY <1>1, <3>1
  <2>3. CASE p \in R
    <3>1. PICK k \in n..L : p \in f[k]
      BY <1>3, <2>3
    <3>2. k \in 1..L /\ m < k
      BY <1>1, <2>1, <2>2
    <3> QED
      BY <1>0, <2>1, <3>1, <3>2
  <2>4. CASE p = top + 1
    BY <2>1, <2>4
  <2> QED
    BY <1>4, <2>1, <2>3, <2>4
<1>7. ASSUME NEW m \in 1..L, NEW x \in f[m], x < p
      PROVE  (\E k \in 1..n : x \in f[k]) /\ \A q \in f[n] : ~(q <= x)
  <2>1. x \in 0..top
    BY <1>2
  <2>2. x \notin R
    <3> SUFFICES ASSUME x \in R PROVE FALSE
      OBVIOUS
    <3>1. p <= x
      BY <1>4
    <3> QED
      BY <1>7, <2>1, <3>1
  <2>3. m \in 1..n
    <3>1. m \notin n..L
      BY <1>3, <2>2
    <3> QED
      BY <1>1, <3>1
  <2>4. ASSUME NEW q \in f[n] PROVE ~(q <= x)
    <3>1. q \in R /\ q \in 0..top
      BY <1>1, <1>2, <1>3
    <3>2. p <= q
      BY <1>4, <3>1
    <3> QED
      BY <1>7, <2>1, <3>1, <3>2
  <2> QED
    BY <2>3, <2>4
<1> QED
  BY <1>5, <1>6, <1>7 DEF EndsAt

\* An aborted batch, no token of which is for several sequences: what came before the
\* aborted ubatch stays.
LEMMA AbortedPos ==
  ASSUME CacheFits(base, SizeBase), NEW tokens \in Seq(Token), IsValid(tokens), ~IsCoupled(tokens),
         NEW k, NEW r, Found(r, base, k), r.ok, SplitsInto(tokens, r.us), InOrder(r.us),
         NEW n \in 1..Len(r.us), NEW s \in Seqs, InStep(s)
  PROVE  \E p \in 0..End :
           PosOf(RolledBack(Processed(r.b, r.us, n), r.us[n])[StreamOf(s)], s)
             = BaseOf(s) \cup {q \in PosIn(tokens, s) : q < p}
<1> DEFINE us == r.us
           L == Len(us)
           c == Processed(r.b, us, n)
           B == BaseOf(s)
           P == PosIn(tokens, s)
           f == [m \in 1..L |-> PosIn(us[m], s)]
           A == PosOf(RolledBack(c, us[n])[StreamOf(s)], s)
<1>1. us \in Seq(Seq(Token)) /\ L \in Nat /\ DOMAIN us = 1..L /\ MaxPos \in Nat
  <2>1. us \in Seq(Seq(Token))
    BY DEF Found
  <2> QED
    BY <2>1, LenProperties, SizesAssumption
<1>2. \A m \in 1..L : us[m] \in Seq(Token)
  BY <1>1, ElementOfSeq
<1>3. n \in 0..L /\ n \in 1..L /\ n \in Nat /\ \A m \in 1..n : m \in 1..L
  BY <1>1
<1>4. CacheFits(c, SizeBase) /\ PosOf(c[StreamOf(s)], s) = B \cup PosUpTo(us, n, s)
  <2>1. n \in 0..Len(r.us)
    BY <1>3
  <2> QED
    BY <2>1, FoundPos
<1>5. PosUpTo(us, L, s) = P
  BY <1>1, PosInSplit
<1>6. \A m \in 1..L : \A x \in ToSet(us[m]) : x \in ToSet(tokens)
  BY <1>1 DEF SplitsInto
<1>7. \A x \in ToSet(tokens) : /\ x \in Token
                               /\ s \in ToSet(x.seqs) => x.seqs = <<s>>
                               /\ x.seqs[1] = s <=> s \in ToSet(x.seqs)
  <2> SUFFICES ASSUME NEW x \in ToSet(tokens)
               PROVE  /\ x \in Token
                      /\ s \in ToSet(x.seqs) => x.seqs = <<s>>
                      /\ x.seqs[1] = s <=> s \in ToSet(x.seqs)
    OBVIOUS
  <2>1. PICK i \in DOMAIN tokens : x = tokens[i]
    BY DEF ToSet
  <2>2. x \in Token /\ x.seqs \in Lists
    BY <2>1 DEF Token
  <2>3. Len(x.seqs) = 1
    BY <2>1, <2>2, ListIs DEF IsCoupled
  <2>4. ToSet(x.seqs) = {x.seqs[1]} /\ x.seqs = <<x.seqs[1]>>
    BY <2>2, <2>3, ListIs
  <2> QED
    BY <2>2, <2>4
<1>8. \A m \in 1..L : \A p : p \in f[m] <=> \E x \in ToSet(us[m]) : s \in ToSet(x.seqs) /\ p = x.pos
  <2>1. \A m \in 1..L : \A p : p \in PosIn(us[m], s) <=>
          \E x \in ToSet(us[m]) : s \in ToSet(x.seqs) /\ p = x.pos
    BY <1>2, PosInIs
  <2>2. \A m \in 1..L : f[m] = PosIn(us[m], s)
    OBVIOUS
  <2> HIDE DEF f, us, L
  <2> QED
    BY <2>1, <2>2
<1>9. \A p : p \in A <=> p \in B \cup PosUpTo(us, n, s) /\ \A i \in DOMAIN us[n] : us[n][i].seqs[1] = s => ~(us[n][i].pos <= p)
  <2>1. \A p : p \in PosOf(RolledBack(c, us[n])[StreamOf(s)], s) <=>
           /\ p \in PosOf(c[StreamOf(s)], s)
           /\ \A i \in DOMAIN us[n] : us[n][i].seqs[1] = s => ~(us[n][i].pos <= p)
    <3> HIDE DEF c, us
    <3> QED
      BY <1>4, Sizes, PosRolledBack
  <2> QED
    BY <1>4, <2>1
<1>10. DOMAIN f = 1..L /\ \A m \in 1..L : f[m] = PosIn(us[m], s)
  OBVIOUS
<1>11. B \in SUBSET (0..MaxPos)
  <2>1. PosOf(base[StreamOf(s)], s) \in SUBSET (0..MaxPos)
    BY Sizes, PosOfIs
  <2> QED
    BY <2>1 DEF BaseOf
<1>12. \A b \in B, q \in P : b < q
  BY ComesAfter
<1>13. \A p : p \in P <=> \E m \in 1..L : p \in f[m]
  <2> HIDE DEF f, us, L, P
  <2> QED
    BY <1>5, <1>10 DEF PosUpTo
<1>14. \A p : p \in PosUpTo(us, n, s) <=> \E m \in 1..n : p \in f[m]
  <2> HIDE DEF f, us, L, P
  <2> QED
    BY <1>3, <1>10 DEF PosUpTo
<1>15. \A i \in DOMAIN us[n] : us[n][i] \in ToSet(us[n])
  BY DEF ToSet
<1>16. \A x \in ToSet(us[n]) : \E i \in DOMAIN us[n] : us[n][i] = x
  BY DEF ToSet
<1>17. InOrder(us) /\ \A m, l \in 1..L : m < l => m \in DOMAIN us /\ l \in DOMAIN us
  BY <1>1
<1> HIDE DEF f, us, L, c, B, P, A
<1>18. \A p : (\A i \in DOMAIN us[n] : us[n][i].seqs[1] = s => ~(us[n][i].pos <= p))
              <=> \A q \in f[n] : ~(q <= p)
  <2>1. \A x \in ToSet(us[n]) : x.seqs[1] = s <=> s \in ToSet(x.seqs)
    BY <1>3, <1>6, <1>7
  <2>2. \A p : p \in f[n] <=> \E x \in ToSet(us[n]) : s \in ToSet(x.seqs) /\ p = x.pos
    BY <1>3, <1>8
  <2> QED
    BY <1>15, <1>16, <2>1, <2>2
<1>19. f \in [1..L -> SUBSET (0..MaxPos)]
  <2>1. ASSUME NEW m \in 1..L PROVE f[m] \in SUBSET (0..MaxPos)
    <3> SUFFICES ASSUME NEW p \in f[m] PROVE p \in 0..MaxPos
      OBVIOUS
    <3>1. PICK x \in ToSet(us[m]) : s \in ToSet(x.seqs) /\ p = x.pos
      BY <1>8
    <3>2. x \in Token
      BY <1>6, <1>7
    <3> QED
      BY <3>1, <3>2 DEF Token
  <2>2. f = [m \in 1..L |-> f[m]]
    BY <1>10 DEF f
  <2> QED
    BY <2>1, <2>2
<1>20. \A m, l \in 1..L : m < l => \A a \in f[m], d \in f[l] : a < d
  <2> SUFFICES ASSUME NEW m \in 1..L, NEW l \in 1..L, m < l, NEW a \in f[m], NEW d \in f[l]
               PROVE  a < d
    OBVIOUS
  <2>1. PICK x \in ToSet(us[m]) : s \in ToSet(x.seqs) /\ a = x.pos
    BY <1>8
  <2>2. PICK y \in ToSet(us[l]) : s \in ToSet(y.seqs) /\ d = y.pos
    BY <1>8
  <2>3. x.seqs = y.seqs
    BY <1>6, <1>7, <2>1, <2>2
  <2> QED
    BY <1>17, <2>1, <2>2, <2>3 DEF InOrder
<1>21. \A m \in 1..L : \A b \in B, d \in f[m] : b < d
  BY <1>12, <1>13
<1>22. PICK p \in 0..MaxPos + 1 : EndsAt(B, f, L, n, p)
  <2>1. Ascending(B, f, L)
    BY <1>20, <1>21 DEF Ascending
  <2> QED
    BY <1>1, <1>3, <1>11, <1>19, <2>1, TakenFrom
<1>23. \A x : x \in A <=> x \in B \/ (x \in P /\ x < p)
  BY <1>9, <1>13, <1>14, <1>18, <1>22 DEF EndsAt
<1>24. A = B \cup {q \in P : q < p}
  BY <1>23
<1>25. p \in 0..End
  BY <1>22 DEF End
<1> QED
  BY <1>24, <1>25 DEF A, B, P, c, us

\* What a decode leaves of s in the base cache.
LEMMA DecodeLeaves ==
  ASSUME CacheInv, NEW lists \in Batches, Decode(lists), NEW s \in Seqs, InStep(s)
  PROVE  LET batch == outcome'.batch
             B == PosOf(base'[StreamOf(s)], s)
         IN CASE outcome'.ret = 0 -> B = BaseOf(s) \cup PosIn(batch, s)
              [] outcome'.ret \in {1, -1} -> B = BaseOf(s)
              [] outcome'.ret = 2 ->
                   \/ \E p \in 0..End : B = BaseOf(s) \cup {q \in PosIn(batch, s) : q < p}
                   \/ IsCoupled(batch)
<1>1. CacheFits(base, SizeBase) /\ CacheFits(swa, SizeSwa)
  BY GoodFits DEF CacheInv
<1>2. PICK tokens \in {Numbered(lists)} :
        /\ \A i \in DOMAIN tokens : tokens[i].pos \in 0..MaxPos
        /\ \/ Invalid(tokens)
           \/ \E init \in {InitBatch(tokens)} :
                NoSlot(tokens, init) \/ Success(tokens, init) \/ Aborted(tokens, init)
  BY DEF Decode
<1>3. tokens \in Seq(Numbers) /\ (~IsCoupled(tokens) => Sorted(tokens))
  BY <1>1, <1>2, NumberedHas
<1>4. ASSUME NEW ret, Returned(tokens, ret) PROVE outcome'.batch = tokens /\ outcome'.ret = ret
  BY <1>4 DEF Returned
<1> DEFINE init == InitBatch(tokens)
           B == PosOf(base'[StreamOf(s)], s)
<1>5. Found(init, base, swa)
  BY <1>1, <1>3, InitBatchIs
<1>6. init.ok => /\ tokens \in Seq(Token) /\ SplitsInto(tokens, init.us)
                 /\ Sorted(tokens) => InOrder(init.us)
  BY <1>3, InitBatchHas
<1>7. Invalid(tokens) \/ NoSlot(tokens, init) \/ Success(tokens, init) \/ Aborted(tokens, init)
  BY <1>2
<1> HIDE DEF init
<1>8. init.ok => init.us \in Seq(Seq(Token)) /\ Len(init.us) \in Nat
  <2>1. init.ok => init.us \in Seq(Seq(Token))
    BY <1>5 DEF Found
  <2> QED
    BY <2>1, LenProperties
<1>9. CASE Invalid(tokens)
  <2>1. outcome'.ret = -1 /\ B = BaseOf(s)
    BY <1>4, <1>9 DEF Invalid, BaseOf
  <2> QED
    BY <2>1
<1>10. CASE NoSlot(tokens, init)
  <2>1. base' = init.b.cache /\ outcome'.ret = 1
    BY <1>4, <1>10 DEF NoSlot
  <2>2. CacheFits(init.b.cache, SizeBase) /\ Within(init.b.cache, base, 0, SizeBase)
    BY <1>5 DEF Found
  <2>3. B = BaseOf(s)
    BY <1>1, <2>1, <2>2, Sizes, PosWithin DEF BaseOf
  <2> QED
    BY <2>1, <2>3
<1>11. CASE Success(tokens, init)
  <2>1. /\ base' = Processed(init.b, init.us, Len(init.us)) /\ init.ok
        /\ outcome'.ret = 0 /\ outcome'.batch = tokens
    BY <1>4, <1>11 DEF Success
  <2>2. Len(init.us) \in 0..Len(init.us)
    BY <1>8, <2>1
  <2>3. B = BaseOf(s) \cup PosUpTo(init.us, Len(init.us), s)
    BY <1>1, <1>5, <2>1, <2>2, FoundPos
  <2>4. PosUpTo(init.us, Len(init.us), s) = PosIn(tokens, s)
    BY <1>6, <1>8, <2>1, PosInSplit
  <2> QED
    BY <2>1, <2>3, <2>4
<1>12. CASE Aborted(tokens, init)
  <2>1. init.ok /\ IsValid(tokens) /\ outcome'.ret = 2 /\ outcome'.batch = tokens
    BY <1>4, <1>12 DEF Aborted
  <2>2. PICK n \in 1..Len(init.us) :
          base' = RolledBack(Processed(init.b, init.us, n), init.us[n])
    BY <1>12 DEF Aborted
  <2>3. CASE ~IsCoupled(tokens)
    <3>1. \E p \in 0..End :
            PosOf(RolledBack(Processed(init.b, init.us, n), init.us[n])[StreamOf(s)], s)
              = BaseOf(s) \cup {q \in PosIn(tokens, s) : q < p}
      BY <1>1, <1>3, <1>5, <1>6, <2>1, <2>3, AbortedPos
    <3>2. PICK p \in 0..End : B = BaseOf(s) \cup {q \in PosIn(tokens, s) : q < p}
      BY <2>2, <3>1
    <3> HIDE DEF B
    <3>3. /\ outcome'.ret = 2
          /\ \E z \in 0..End : B = BaseOf(s) \cup {q \in PosIn(outcome'.batch, s) : q < z}
      BY <2>1, <3>2
    <3> QED
      BY <3>3 DEF B
  <2>4. CASE IsCoupled(tokens)
    BY <2>1, <2>4
  <2> QED
    BY <2>3, <2>4
<1> QED
  BY <1>7, <1>9, <1>10, <1>11, <1>12

-----------------------------------------------------------------------------
(* The invariant. *)

\* Whether the stream is shared never changes; so what After says is said of the new state.
LEMMA Later ==
  ASSUME CacheInv, After, unified' = unified, outcome'.ret \in {0, 1, 2, -1}, edits' \in 0..MaxEdits
  PROVE  CacheInv'
<1>1. \A s \in Seqs : StreamOf(s)' = StreamOf(s)
  BY DEF StreamOf
<1>2. Streams' = Streams
  BY <1>1 DEF Streams
<1>3. SizeSwa' = SizeSwa
  BY DEF SizeSwa
<1>4. /\ CacheOK(base', SizeBase) /\ CacheOK(swa', SizeSwa)
      /\ \A s \in Seqs \ entangled' : Cov(s, base'[StreamOf(s)], swa'[StreamOf(s)])
  BY DEF After, Good
<1>5. CacheOK(base, SizeBase)' /\ CacheOK(swa, SizeSwa)'
  <2>1. CacheOK(base, SizeBase)'
    BY <1>2, <1>4 DEF CacheOK, StreamOf
  <2>2. CacheOK(swa, SizeSwa)'
    BY <1>2, <1>3, <1>4 DEF CacheOK, StreamOf
  <2> QED
    BY <2>1, <2>2
<1>6. \A s \in Seqs \ entangled' : Cov(s, base[StreamOf(s)], swa[StreamOf(s)])'
  BY <1>1, <1>4 DEF Cov
<1>7. Good(base, swa, entangled)'
  BY <1>5, <1>6 DEF Good
<1>8. unified' \in BOOLEAN /\ entangled' \in SUBSET Seqs /\ (~unified' => entangled' = {})
  BY DEF After, CacheInv, KVTypeOK
<1> QED
  BY <1>5, <1>7, <1>8 DEF CacheInv, KVTypeOK

\* The invariant holds at first.
LEMMA CacheInvAtFirst == ASSUME KVInit PROVE CacheInv
<1>1. Good(base, swa, {})
  BY NewGood DEF KVInit
<1>2. CacheOK(base, SizeBase) /\ CacheOK(swa, SizeSwa)
  BY <1>1 DEF Good
<1>3. outcome.ret \in {0, 1, 2, -1} /\ edits \in 0..MaxEdits
  BY SizesAssumption DEF KVInit, NoCall
<1> QED
  BY <1>1, <1>2, <1>3 DEF CacheInv, KVTypeOK, KVInit

\* What all edits have in common.
LEMMA EditIs ==
  ASSUME CacheInv, Edit
  PROVE  unified' = unified /\ outcome'.ret \in {0, 1, 2, -1} /\ edits' \in 0..MaxEdits
BY SizesAssumption DEF CacheInv, KVTypeOK, Edit, NoCall

\* Every step keeps the invariant.
LEMMA CacheInvKept ==
  ASSUME CacheInv, [KVNext]_kvVars
  PROVE  CacheInv'
<1>1. ASSUME After, Edit PROVE CacheInv'
  BY <1>1, EditIs, Later
<1>2. CASE Clear
  <2>1. Edit
    BY <1>2 DEF Clear
  <2> QED
    BY <1>1, <1>2, <2>1, ClearStep
<1>3. ASSUME NEW p0, NEW p1, RmAny(p0, p1) PROVE CacheInv'
  <2>1. Edit
    BY <1>3 DEF RmAny
  <2> QED
    BY <1>1, <1>3, <2>1, RmAnyStep
<1>4. ASSUME NEW s \in Seqs, NEW p0, NEW p1, Rm(s, p0, p1) PROVE CacheInv'
  <2>1. Edit
    BY <1>4 DEF Rm
  <2> QED
    BY <1>1, <1>4, <2>1, RmStep
<1>5. ASSUME NEW s \in Seqs, NEW t \in Seqs, NEW p0, NEW p1, CpShared(s, t, p0, p1) PROVE CacheInv'
  <2>1. Edit
    BY <1>5 DEF CpShared
  <2> QED
    BY <1>1, <1>5, <2>1, CpSharedStep
<1>6. ASSUME NEW s \in Seqs, NEW p0, NEW p1, NEW d \in {-2, -1, 1}, Add(s, p0, p1, d) PROVE CacheInv'
  <2>1. Edit
    BY <1>6 DEF Add, Shift
  <2>2. d \in Int
    OBVIOUS
  <2> QED
    BY <1>1, <1>6, <2>1, <2>2, AddStep
<1>7. ASSUME NEW s \in Seqs, NEW p0, NEW p1, Div(s, p0, p1) PROVE CacheInv'
  <2>1. Edit
    BY <1>7 DEF Div, Shift
  <2> QED
    BY <1>1, <1>7, <2>1, DivStep
<1>8. ASSUME NEW s \in Seqs, Keep(s) PROVE CacheInv'
  <2>1. Edit
    BY <1>8 DEF Keep
  <2> QED
    BY <1>1, <1>8, <2>1, KeepStep
<1>9. ASSUME NEW s \in Seqs, NEW t \in Seqs, CpStream(s, t) PROVE CacheInv'
  <2>1. Edit
    BY <1>9 DEF CpStream
  <2> QED
    BY <1>1, <1>9, <2>1, CpStreamStep
<1>10. ASSUME NEW lists \in Batches, Decode(lists) PROVE CacheInv'
  <2>1. After /\ unified' = unified /\ outcome'.ret \in {0, 1, 2, -1} /\ edits' = edits
    BY <1>10, DecodeStep
  <2>2. edits' \in 0..MaxEdits
    BY <2>1 DEF CacheInv, KVTypeOK
  <2> QED
    BY <2>1, <2>2, Later
<1>11. CASE UNCHANGED kvVars
  <2>1. After /\ unified' = unified /\ outcome'.ret \in {0, 1, 2, -1} /\ edits' \in 0..MaxEdits
    BY <1>11 DEF kvVars, After, CacheInv, KVTypeOK
  <2> QED
    BY <2>1, Later
<1>12. CASE KVNext
  BY <1>2, <1>3, <1>4, <1>5, <1>6, <1>7, <1>8, <1>9, <1>10, <1>12, Zenon DEF KVNext
<1> QED
  BY <1>11, <1>12

\* The invariant implies the property.
LEMMA CacheInvSwa == ASSUME CacheInv PROVE SwaWithinBase
<1> SUFFICES ASSUME NEW s \in Seqs \ entangled, NEW p \in SwaOf(s) PROVE p \in BaseOf(s)
  BY DEF SwaWithinBase, CacheInv
<1> DEFINE b == base[StreamOf(s)]
           k == swa[StreamOf(s)]
<1>1. Cov(s, b, k)
  BY DEF CacheInv, Good
<1>2. PICK i \in Cells(k) : s \in k.cell[i].seqs /\ k.cell[i].pos = p
  BY DEF SwaOf, PosOf
<1>3. PICK j \in Cells(b) : Covers(b.cell[j], k.cell[i])
  BY <1>1, <1>2 DEF Cov
<1>4. s \in b.cell[j].seqs /\ b.cell[j].pos = p
  BY <1>2, <1>3 DEF Covers
<1> QED
  BY <1>4 DEF BaseOf, PosOf

\* Whatever is removed, copied, kept, moved, decoded or refused, in any number of calls,
\* and whatever fails: each position of the window cache is one of the base cache.
THEOREM AlwaysSwaWithinBase == KVSpec => []SwaWithinBase
<1>1. KVInit => CacheInv
  BY CacheInvAtFirst
<1>2. CacheInv /\ [KVNext]_kvVars => CacheInv'
  BY CacheInvKept
<1>3. CacheInv => SwaWithinBase
  BY CacheInvSwa
<1> QED
  BY <1>1, <1>2, <1>3, PTL DEF KVSpec

\* Only a decode leaves a batch behind.
LEMMA DecodeOnly ==
  ASSUME KVNext, Decoded
  PROVE  \E lists \in Batches : Decode(lists)
<1>1. Edit => ~Decoded
  BY DEF Edit, Decoded, NoCall
<1>2. Clear => Edit
  BY DEF Clear
<1>3. ASSUME NEW p0, NEW p1 PROVE RmAny(p0, p1) => Edit
  BY DEF RmAny
<1>4. ASSUME NEW s, NEW p0, NEW p1 PROVE Rm(s, p0, p1) => Edit
  BY DEF Rm
<1>5. ASSUME NEW s, NEW t, NEW p0, NEW p1 PROVE CpShared(s, t, p0, p1) => Edit
  BY DEF CpShared
<1>6. ASSUME NEW s, NEW p0, NEW p1, NEW d PROVE Add(s, p0, p1, d) => Edit
  BY DEF Add, Shift
<1>7. ASSUME NEW s, NEW p0, NEW p1 PROVE Div(s, p0, p1) => Edit
  BY DEF Div, Shift
<1>8. ASSUME NEW s PROVE Keep(s) => Edit
  BY DEF Keep
<1>9. ASSUME NEW s, NEW t PROVE CpStream(s, t) => Edit
  BY DEF CpStream
<1> QED
  BY <1>1, <1>2, <1>3, <1>4, <1>5, <1>6, <1>7, <1>8, <1>9 DEF KVNext

\* One step of the contract.
Contract ==
  Decoded => \A s \in Seqs : InStep(s) =>
    CASE outcome'.ret = 0 -> BaseOf(s)' = BaseOf(s) \cup Coming(s)
      [] outcome'.ret \in {1, -1} -> BaseOf(s)' = BaseOf(s)
      [] outcome'.ret = 2 ->
           \/ \E p \in 0..End : BaseOf(s)' = BaseOf(s) \cup {q \in Coming(s) : q < p}
           \/ IsCoupled(outcome'.batch)

\* A decode keeps the contract, whatever it returns.
LEMMA ContractKept ==
  ASSUME CacheInv, KVNext
  PROVE  Contract
<1> SUFFICES ASSUME Decoded, NEW s \in Seqs, InStep(s)
             PROVE  CASE outcome'.ret = 0 -> BaseOf(s)' = BaseOf(s) \cup Coming(s)
                      [] outcome'.ret \in {1, -1} -> BaseOf(s)' = BaseOf(s)
                      [] outcome'.ret = 2 ->
                           \/ \E p \in 0..End : BaseOf(s)' = BaseOf(s) \cup {q \in Coming(s) : q < p}
                           \/ IsCoupled(outcome'.batch)
  BY DEF Contract
<1>1. PICK lists \in Batches : Decode(lists)
  BY DecodeOnly
<1>2. unified' = unified
  BY <1>1, DecodeStep
<1>3. BaseOf(s)' = PosOf(base'[StreamOf(s)], s)
  BY <1>2 DEF BaseOf, StreamOf, PosOf, Cells
<1>4. Coming(s) = PosIn(outcome'.batch, s)
  BY DEF Coming
<1> QED
  BY <1>1, <1>3, <1>4, DecodeLeaves, Zenon

\* What llama.h says of the memory after llama_decode is so of the base cache: a batch that
\* was decoded is in it, one that was refused is not, and of one that was aborted the part
\* before the aborted ubatch is, for every size of batch, ubatch and cache.
THEOREM AlwaysDecodeContract == KVSpec => DecodeContract
<1>1. KVInit => CacheInv
  BY CacheInvAtFirst
<1>2. CacheInv /\ [KVNext]_kvVars => CacheInv'
  BY CacheInvKept
<1>3. CacheInv /\ [KVNext]_kvVars => [Contract]_kvVars
  BY ContractKept
<1> QED
  BY <1>1, <1>2, <1>3, PTL DEF KVSpec, DecodeContract, Contract

-----------------------------------------------------------------------------
(* What a ubatch takes from the window cache. *)

\* The sequences of x that are purged when the cells of the slot are taken.
Lost(k, slot, x) ==
  {s \in x.seqs : \E j \in ToSet(slot) :
     ~IsEmpty(k.cell[j]) /\ k.cell[j].seqs = {s} /\ x.pos <= k.cell[j].pos}

\* apply_ubatch cell by cell: the tokens are placed and what is lost is purged.
LEMMA ApplyCell ==
  ASSUME NEW size \in Nat \ {0}, NEW t, NEW k, StreamOK(k, size, t), NEW slot, NEW tokens,
         NEW i \in 0..size - 1
  PROVE  Apply(k, slot, tokens).cell[i]
           = Without(Place(k, slot, tokens).cell[i], Lost(k, slot, Place(k, slot, tokens).cell[i]))
<1> DEFINE p == Place(k, slot, tokens)
           taken == {k.cell[j] : j \in {j \in ToSet(slot) : ~IsEmpty(k.cell[j])}}
           lost(c) == {s \in c.seqs : \E d \in taken : d.seqs = {s} /\ c.pos <= d.pos}
           f == [j \in 0..size - 1 |-> Without(p.cell[j], lost(p.cell[j]))]
<1>1. Cells(k) = 0..size - 1
  BY CellsAre DEF StreamOK
<1>2. Apply(k, slot, tokens) = [cell |-> f, head |-> Last(slot) + 1]
  BY <1>1, Zenon DEF Apply
<1>3. lost(p.cell[i]) = Lost(k, slot, p.cell[i])
  <2> HIDE DEF p
  <2> QED
    BY Zenon DEF Lost
<1>4. f[i] = Without(p.cell[i], lost(p.cell[i]))
  OBVIOUS
<1>5. Apply(k, slot, tokens).cell = f
  <2> HIDE DEF f
  <2> QED
    BY <1>2
<1> HIDE DEF f, lost
<1> QED
  BY <1>3, <1>4, <1>5

\* Every cell of the slot can be used where there is a window.
Usable(k, slot) == \A i \in ToSet(slot) : CanUse(k, i, Window)

\* The positions of a sequence lie before h.
Before(k, s, h) == \A p \in PosOf(k, s) : p < h

\* A cell that is taken from s was for s only, and a token at h does not look at it.
LEMMA TakenIsMasked ==
  ASSUME NEW size \in Nat \ {0}, NEW t, NEW k, StreamOK(k, size, t), NEW slot, Usable(k, slot),
         NEW s, NEW h \in Int, Before(k, s, h),
         NEW i \in ToSet(slot), i \in 0..size - 1, s \in k.cell[i].seqs
  PROVE  /\ k.cell[i].seqs = {s} /\ ~IsEmpty(k.cell[i])
         /\ IsMasked(k.cell[i].pos, h, Window)
<1> DEFINE P == PosOf(k, s)
<1>1. /\ Cells(k) = 0..size - 1 /\ \A j \in 0..size - 1 : CellOK(k.cell[j], t)
      /\ MaxPos \in Nat /\ Window \in Nat \ {0}
  BY CellsAre, SizesAssumption DEF StreamOK
<1>2. ~IsEmpty(k.cell[i]) /\ k.cell[i].pos \in 0..MaxPos
  <2>1. k.cell[i].pos \in -1..MaxPos /\ k.cell[i].pos # -1
    BY <1>1 DEF CellOK, Cell
  <2> QED
    BY <1>1, <2>1 DEF IsEmpty
<1>3. k.cell[i].seqs = {s} /\ IsMasked(k.cell[i].pos, PosMax(k, s) + 1, Window)
  BY <1>2 DEF Usable, CanUse
<1>4. P \in SUBSET (0..MaxPos) /\ P # {}
  <2>1. ASSUME NEW p \in P PROVE p \in 0..MaxPos
    <3>1. PICK j \in 0..size - 1 : s \in k.cell[j].seqs /\ k.cell[j].pos = p
      BY <1>1 DEF PosOf
    <3>2. p \in -1..MaxPos /\ p # -1
      BY <1>1, <3>1 DEF CellOK, Cell
    <3> QED
      BY <1>1, <3>2
  <2>2. k.cell[i].pos \in P
    BY <1>1 DEF PosOf
  <2> QED
    BY <2>1, <2>2
<1>5. PosMax(k, s) = Max(P)
  BY <1>4 DEF PosMax
<1>6. PosMax(k, s) < h /\ PosMax(k, s) \in Int
  <2> HIDE DEF P
  <2>1. Max(P) \in P
    BY <1>1, <1>4, GreatestIs
  <2> QED
    BY <1>4, <1>5, <2>1 DEF Before, P
<1>7. IsMasked(k.cell[i].pos, h, Window)
  BY <1>1, <1>2, <1>3, <1>6 DEF IsMasked
<1> QED
  BY <1>2, <1>3, <1>7

\* What a token at h looks at of s stays.
KeepsSeen(k, r, s, h) ==
  \A i \in Cells(k) : s \in k.cell[i].seqs /\ ~IsMasked(k.cell[i].pos, h, Window)
    => s \in r.cell[i].seqs /\ r.cell[i].pos = k.cell[i].pos

\* What is lost of the positions P of s lies before all that stays.
LosesFirst(r, s, P) == \A p \in P : p \in PosOf(r, s) \/ \A q \in PosOf(r, s) : p < q

\* A slot of the window cache is taken: what a token at h looks at stays, of the cells and
\* of the ubatch.
LEMMA ApplyKeepsSeen ==
  ASSUME NEW size \in Nat \ {0}, NEW t, NEW k, StreamOK(k, size, t), NEW slot, NEW tokens \in Seq(Token),
         SlotOK(slot, Len(tokens), size), \A j \in DOMAIN tokens : StreamOf(tokens[j].seqs[1]) = t,
         Usable(k, slot), NEW s, NEW h \in Int, Before(k, s, h)
  PROVE  /\ KeepsSeen(k, Apply(k, slot, tokens), s, h)
         /\ \A p \in PosIn(tokens, s) : ~IsMasked(p, h, Window) => p \in PosOf(Apply(k, slot, tokens), s)
<1> DEFINE a == Place(k, slot, tokens)
           r == Apply(k, slot, tokens)
<1>1. /\ \A j \in DOMAIN slot : a.cell[slot[j]] = Placed(tokens[j])
      /\ \A i \in 0..size - 1 : i \notin ToSet(slot) => a.cell[i] = k.cell[i]
      /\ \A i \in 0..size - 1 : CellOK(a.cell[i], t)
      /\ DOMAIN slot = DOMAIN tokens /\ ToSet(slot) \subseteq 0..size - 1
  BY PlaceIs
<1>2. StreamOK(r, size, t)
  BY ApplyIs
<1>3. Cells(k) = 0..size - 1 /\ Cells(r) = 0..size - 1 /\ MaxPos \in Nat /\ Window \in Nat \ {0}
  BY <1>2, CellsAre, SizesAssumption DEF StreamOK
<1>4. \A i \in 0..size - 1 : r.cell[i] = Without(a.cell[i], Lost(k, slot, a.cell[i]))
  BY ApplyCell
<1>5. \A i \in 0..size - 1 : CellOK(k.cell[i], t)
  BY DEF StreamOK
<1> HIDE DEF a, r
<1>6. ASSUME NEW i \in 0..size - 1, s \in a.cell[i].seqs, ~IsMasked(a.cell[i].pos, h, Window)
      PROVE  s \in r.cell[i].seqs /\ r.cell[i].pos = a.cell[i].pos
  <2>1. s \notin Lost(k, slot, a.cell[i])
    <3> SUFFICES ASSUME s \in Lost(k, slot, a.cell[i]) PROVE FALSE
      OBVIOUS
    <3>1. PICK j \in ToSet(slot) : k.cell[j].seqs = {s} /\ a.cell[i].pos <= k.cell[j].pos
      BY DEF Lost
    <3>2. j \in 0..size - 1 /\ s \in k.cell[j].seqs
      BY <1>1, <3>1
    <3>3. IsMasked(k.cell[j].pos, h, Window)
      BY <3>1, <3>2, TakenIsMasked
    <3>4. k.cell[j].pos \in Int /\ a.cell[i].pos \in Int
      BY <1>1, <1>3, <1>5, <3>2 DEF CellOK, Cell
    <3>5. IsMasked(a.cell[i].pos, h, Window)
      BY <1>3, <3>1, <3>3, <3>4 DEF IsMasked
    <3> QED
      BY <1>6, <3>5
  <2>2. /\ Without(a.cell[i], Lost(k, slot, a.cell[i])).seqs = a.cell[i].seqs \ Lost(k, slot, a.cell[i])
        /\ Without(a.cell[i], Lost(k, slot, a.cell[i])).seqs # {}
             => Without(a.cell[i], Lost(k, slot, a.cell[i])).pos = a.cell[i].pos
    BY <1>1, WithoutOK
  <2> QED
    BY <1>4, <1>6, <2>1, <2>2
<1>7. KeepsSeen(k, r, s, h)
  <2> SUFFICES ASSUME NEW i \in 0..size - 1, s \in k.cell[i].seqs, ~IsMasked(k.cell[i].pos, h, Window)
               PROVE  s \in r.cell[i].seqs /\ r.cell[i].pos = k.cell[i].pos
    BY <1>3 DEF KeepsSeen
  <2>1. i \notin ToSet(slot)
    BY TakenIsMasked
  <2> QED
    BY <1>1, <1>6, <2>1
<1>8. ASSUME NEW p \in PosIn(tokens, s), ~IsMasked(p, h, Window) PROVE p \in PosOf(r, s)
  <2>1. PICK j \in DOMAIN tokens : s \in ToSet(tokens[j].seqs) /\ p = tokens[j].pos
    BY DEF PosIn
  <2>2. slot[j] \in 0..size - 1 /\ a.cell[slot[j]] = Placed(tokens[j])
    BY <1>1, <2>1 DEF ToSet
  <2>3. s \in a.cell[slot[j]].seqs /\ a.cell[slot[j]].pos = p
    BY <2>1, <2>2 DEF Placed
  <2>4. s \in r.cell[slot[j]].seqs /\ r.cell[slot[j]].pos = p
    BY <1>6, <1>8, <2>2, <2>3
  <2> QED
    BY <1>3, <2>2, <2>4 DEF PosOf
<1> QED
  BY <1>7, <1>8 DEF r

\* A slot of the window cache is taken: only positions of s come in that the ubatch has,
\* and those that are lost lie before all that stay.
LEMMA ApplyLosesFirst ==
  ASSUME NEW size \in Nat \ {0}, NEW t, NEW k, StreamOK(k, size, t), NEW slot, NEW tokens \in Seq(Token),
         SlotOK(slot, Len(tokens), size), \A j \in DOMAIN tokens : StreamOf(tokens[j].seqs[1]) = t,
         Usable(k, slot), NEW s
  PROVE  /\ PosOf(Apply(k, slot, tokens), s) \subseteq PosOf(k, s) \cup PosIn(tokens, s)
         /\ LosesFirst(Apply(k, slot, tokens), s, PosOf(k, s) \cup PosIn(tokens, s))
<1> DEFINE a == Place(k, slot, tokens)
           r == Apply(k, slot, tokens)
<1>1. /\ \A j \in DOMAIN slot : a.cell[slot[j]] = Placed(tokens[j])
      /\ \A i \in 0..size - 1 : i \notin ToSet(slot) => a.cell[i] = k.cell[i]
      /\ \A i \in 0..size - 1 : CellOK(a.cell[i], t)
      /\ DOMAIN slot = DOMAIN tokens /\ ToSet(slot) \subseteq 0..size - 1
  BY PlaceIs
<1>2. StreamOK(r, size, t)
  BY ApplyIs
<1>3. Cells(k) = 0..size - 1 /\ Cells(r) = 0..size - 1 /\ MaxPos \in Nat
  BY <1>2, CellsAre, SizesAssumption DEF StreamOK
<1>0. \A i \in 0..size - 1 : r.cell[i] = Without(a.cell[i], Lost(k, slot, a.cell[i]))
  BY ApplyCell
<1>4. ASSUME NEW i \in 0..size - 1
      PROVE  /\ r.cell[i].seqs = a.cell[i].seqs \ Lost(k, slot, a.cell[i])
             /\ r.cell[i].seqs # {} => r.cell[i].pos = a.cell[i].pos
             /\ a.cell[i].pos \in Int /\ k.cell[i].pos \in Int
  <2>1. r.cell[i] = Without(a.cell[i], Lost(k, slot, a.cell[i]))
    BY <1>0
  <2>2. CellOK(a.cell[i], t) /\ CellOK(k.cell[i], t)
    BY <1>1 DEF StreamOK
  <2> HIDE DEF a, r
  <2>3. a.cell[i].pos \in Int /\ k.cell[i].pos \in Int
    BY <1>3, <2>2 DEF CellOK, Cell
  <2> QED
    BY <2>1, <2>2, <2>3, WithoutOK
<1> HIDE DEF a, r
<1>5. ASSUME NEW p \in PosOf(r, s) PROVE p \in PosOf(k, s) \cup PosIn(tokens, s)
  <2>1. PICK i \in 0..size - 1 : s \in r.cell[i].seqs /\ r.cell[i].pos = p
    BY <1>3 DEF PosOf
  <2>2. s \in a.cell[i].seqs /\ a.cell[i].pos = p
    BY <1>4, <2>1
  <2>3. CASE i \in ToSet(slot)
    <3>1. PICK j \in DOMAIN slot : slot[j] = i
      BY <2>3 DEF ToSet
    <3>2. a.cell[i] = Placed(tokens[j]) /\ j \in DOMAIN tokens
      BY <1>1, <3>1
    <3> QED
      BY <2>2, <3>2 DEF Placed, PosIn
  <2>4. CASE i \notin ToSet(slot)
    BY <1>1, <1>3, <2>2, <2>4 DEF PosOf
  <2> QED
    BY <2>3, <2>4
<1>6. ASSUME NEW j \in ToSet(slot), ~IsEmpty(k.cell[j]), k.cell[j].seqs = {s}, NEW q \in PosOf(r, s)
      PROVE  k.cell[j].pos < q
  <2>1. PICK i \in 0..size - 1 : s \in r.cell[i].seqs /\ r.cell[i].pos = q
    BY <1>3 DEF PosOf
  <2>2. s \in a.cell[i].seqs /\ a.cell[i].pos = q /\ s \notin Lost(k, slot, a.cell[i])
    BY <1>4, <2>1
  <2>3. ~(a.cell[i].pos <= k.cell[j].pos)
    BY <1>6, <2>2 DEF Lost
  <2>4. j \in 0..size - 1 /\ k.cell[j].pos \in Int /\ q \in Int
    BY <1>1, <1>4, <2>2
  <2>5. ~(q <= k.cell[j].pos)
    BY <2>2, <2>3
  <2> QED
    BY <2>4, <2>5
<1>7. ASSUME NEW i \in 0..size - 1, s \in a.cell[i].seqs, a.cell[i].pos \notin PosOf(r, s),
             NEW q \in PosOf(r, s)
      PROVE  a.cell[i].pos < q
  <2>1. s \in Lost(k, slot, a.cell[i])
    <3> SUFFICES ASSUME s \notin Lost(k, slot, a.cell[i]) PROVE FALSE
      OBVIOUS
    <3>1. s \in r.cell[i].seqs /\ r.cell[i].pos = a.cell[i].pos
      BY <1>4, <1>7
    <3> QED
      BY <1>3, <1>7, <3>1 DEF PosOf
  <2>2. PICK j \in ToSet(slot) : /\ ~IsEmpty(k.cell[j]) /\ k.cell[j].seqs = {s}
                                 /\ a.cell[i].pos <= k.cell[j].pos
    BY <2>1 DEF Lost
  <2>3. k.cell[j].pos < q /\ j \in 0..size - 1
    BY <1>1, <1>6, <2>2
  <2>4. q \in Int
    <3>1. PICK m \in 0..size - 1 : s \in r.cell[m].seqs /\ r.cell[m].pos = q
      BY <1>3 DEF PosOf
    <3> QED
      BY <1>4, <3>1
  <2> QED
    BY <1>4, <2>2, <2>3, <2>4
<1>8. ASSUME NEW p \in PosOf(k, s) \cup PosIn(tokens, s), p \notin PosOf(r, s), NEW q \in PosOf(r, s)
      PROVE  p < q
  <2>1. CASE p \in PosOf(k, s)
    <3>1. PICK i \in 0..size - 1 : s \in k.cell[i].seqs /\ k.cell[i].pos = p
      BY <1>3, <2>1 DEF PosOf
    <3>2. CASE i \in ToSet(slot)
      <4>1. k.cell[i].seqs = {s} /\ ~IsEmpty(k.cell[i])
        <5>1. CanUse(k, i, Window)
          BY <3>2 DEF Usable
        <5>2. k.cell[i].pos # -1
          <6>1. CellOK(k.cell[i], t)
            BY DEF StreamOK
          <6> QED
            BY <3>1, <6>1 DEF CellOK
        <5> QED
          BY <3>1, <5>1, <5>2 DEF CanUse, IsEmpty
      <4> QED
        BY <1>6, <3>1, <3>2, <4>1
    <3>3. CASE i \notin ToSet(slot)
      <4>1. a.cell[i] = k.cell[i]
        BY <1>1, <3>3
      <4> QED
        BY <1>7, <1>8, <3>1, <4>1
    <3> QED
      BY <3>2, <3>3
  <2>2. CASE p \in PosIn(tokens, s)
    <3>1. PICK j \in DOMAIN tokens : s \in ToSet(tokens[j].seqs) /\ p = tokens[j].pos
      BY <2>2 DEF PosIn
    <3>2. slot[j] \in 0..size - 1 /\ a.cell[slot[j]] = Placed(tokens[j])
      BY <1>1, <3>1 DEF ToSet
    <3>3. s \in a.cell[slot[j]].seqs /\ a.cell[slot[j]].pos = p
      BY <3>1, <3>2 DEF Placed
    <3> QED
      BY <1>7, <1>8, <3>2, <3>3
  <2> QED
    BY <2>1, <2>2
<1> QED
  BY <1>5, <1>8 DEF r, LosesFirst

\* The slots that find_slot gives where there is a window can be used.
LEMMA SlotsUsable ==
  ASSUME NEW size \in Nat \ {0}, NEW c, CacheFits(c, size), NEW u \in Seq(Token),
         NEW slots, slots = Slots(c, u, Window), SlotsOK(slots, u, size), NEW t \in StreamsOf(u)
  PROVE  Usable(c[t], slots[t])
<1> DEFINE n == Len(PartOf(u, t))
<1>1. t \in Streams /\ StreamOK(c[t], size, t) /\ n \in Nat
  BY StreamsOfIs, PartIs, LenProperties DEF CacheFits
<1>2. slots[t] = FindSlot(c[t], n, Window) /\ SlotOK(slots[t], n, size)
  BY DEF Slots, SlotsOK
<1>3. slots[t] # <<>>
  <2>1. Len(slots[t]) = n /\ n # 0
    BY <1>2 DEF SlotOK
  <2>2. Len(<<>>) = 0
    OBVIOUS
  <2> QED
    BY <2>1, <2>2
<1> HIDE DEF n
<1>4. \A i \in 1..n : CanUse(c[t], slots[t][i], Window)
  BY <1>1, <1>2, <1>3, FindSlotIs
<1>5. DOMAIN slots[t] = 1..n
  BY <1>2 DEF SlotOK
<1> SUFFICES ASSUME NEW i \in ToSet(slots[t]) PROVE CanUse(c[t], i, Window)
  BY DEF Usable
<1>6. PICK j \in DOMAIN slots[t] : slots[t][j] = i
  BY DEF ToSet
<1> QED
  BY <1>4, <1>5, <1>6

\* The positions of s in a ubatch are those in the part for its stream.
LEMMA PosInPart ==
  ASSUME NEW u \in Seq(Token), NEW s
  PROVE  PosIn(PartOf(u, StreamOf(s)), s) = PosIn(u, s)
<1> DEFINE part == PartOf(u, StreamOf(s))
<1>1. part \in Seq(Token) /\ DOMAIN part = 1..Len(part)
  BY PartIs, LenProperties
<1>2. \A j \in DOMAIN part : part[j] \in ToSet(u)
  <2> DEFINE P == {i \in DOMAIN u : StreamOf(u[i].seqs[1]) = StreamOf(s)}
  <2>1. P \in SUBSET (DOMAIN u) /\ part = At(u, P)
    BY DEF PartOf
  <2> HIDE DEF P
  <2>2. \A n \in 1..Len(part) : \E i \in P : part[n] = u[i]
    BY <2>1, AtIs
  <2> QED
    BY <1>1, <2>1, <2>2 DEF ToSet
<1>3. ASSUME NEW x \in ToSet(u), s \in ToSet(x.seqs) PROVE x \in ToSet(part)
  <2>1. HasToken(part, x)
    BY <1>3, PartHas, Zenon
  <2> QED
    BY <2>1 DEF HasToken, ToSet
<1> HIDE DEF part
<1>4. \A p : p \in PosIn(u, s) <=> \E x \in ToSet(u) : s \in ToSet(x.seqs) /\ p = x.pos
  BY PosInIs
<1>5. \A p : p \in PosIn(part, s) <=> \E x \in ToSet(part) : s \in ToSet(x.seqs) /\ p = x.pos
  BY <1>1, PosInIs
<1>6. \A x \in ToSet(part) : x \in ToSet(u)
  BY <1>2 DEF ToSet
<1>7. \A p : p \in PosIn(part, s) <=> p \in PosIn(u, s)
  BY <1>3, <1>4, <1>5, <1>6
<1> QED
  BY <1>7 DEF part

\* What of the positions P a token at h looks at is there.
Sees(r, s, h, P) == \A p \in P : ~IsMasked(p, h, Window) => p \in PosOf(r, s)

\* A stream k of s becomes r when a ubatch with the positions P is put in.
Steps(k, r, s, P) ==
  /\ PosOf(r, s) \subseteq PosOf(k, s) \cup P
  /\ LosesFirst(r, s, PosOf(k, s) \cup P)
  /\ \A h \in Int : Before(k, s, h) => KeepsSeen(k, r, s, h) /\ Sees(r, s, h, P)

\* A ubatch is put into the window cache.
LEMMA ApplyAllSteps ==
  ASSUME NEW size \in Nat \ {0}, NEW c, CacheFits(c, size), NEW u \in Seq(Token),
         NEW slots, slots = Slots(c, u, Window), SlotsOK(slots, u, size), NEW s \in Seqs
  PROVE  Steps(c[StreamOf(s)], ApplyAll(c, u, slots)[StreamOf(s)], s, PosIn(u, s))
<1> DEFINE t == StreamOf(s)
           k == c[t]
           r == ApplyAll(c, u, slots)[t]
           slot == slots[t]
           part == PartOf(u, t)
<1>1. t \in Streams /\ StreamOK(k, size, t)
  BY StreamType DEF CacheFits
<1>2. CASE t \in StreamsOf(u)
  <2>1. r = Apply(k, slot, part)
    BY <1>1, <1>2 DEF ApplyAll
  <2>2. SlotOK(slot, Len(part), size) /\ Usable(k, slot)
    BY <1>2, SlotsUsable DEF SlotsOK
  <2>3. part \in Seq(Token) /\ \A j \in DOMAIN part : StreamOf(part[j].seqs[1]) = t
    BY PartIs
  <2>4. PosIn(part, s) = PosIn(u, s)
    BY PosInPart
  <2> HIDE DEF r, slot, part, k, t
  <2>5. /\ PosOf(r, s) \subseteq PosOf(k, s) \cup PosIn(part, s)
        /\ LosesFirst(r, s, PosOf(k, s) \cup PosIn(part, s))
    BY <1>1, <2>1, <2>2, <2>3, ApplyLosesFirst
  <2>6. ASSUME NEW h \in Int, Before(k, s, h)
        PROVE  KeepsSeen(k, r, s, h) /\ Sees(r, s, h, PosIn(part, s))
    BY <1>1, <2>1, <2>2, <2>3, <2>6, ApplyKeepsSeen DEF Sees
  <2> QED
    BY <2>4, <2>5, <2>6 DEF Steps, k, r, t
<1>3. CASE t \notin StreamsOf(u)
  <2>1. r = k
    BY <1>1, <1>3 DEF ApplyAll
  <2>2. PosIn(u, s) = {}
    BY <1>3, PosInIs, PartHas
  <2> QED
    BY <2>1, <2>2 DEF Steps, LosesFirst, KeepsSeen, Sees
<1> QED
  BY <1>2, <1>3

\* What is seen stays over two steps, and so do its positions.
LEMMA KeepsSeenTwice ==
  ASSUME NEW k, NEW r, NEW v, NEW s, NEW h, Cells(k) = Cells(r),
         KeepsSeen(k, r, s, h), KeepsSeen(r, v, s, h)
  PROVE  KeepsSeen(k, v, s, h)
<1> SUFFICES ASSUME NEW i \in Cells(k), s \in k.cell[i].seqs, ~IsMasked(k.cell[i].pos, h, Window)
             PROVE  s \in v.cell[i].seqs /\ v.cell[i].pos = k.cell[i].pos
  BY DEF KeepsSeen
<1>1. s \in r.cell[i].seqs /\ r.cell[i].pos = k.cell[i].pos /\ i \in Cells(r)
  BY DEF KeepsSeen
<1> QED
  BY <1>1 DEF KeepsSeen

LEMMA SeesKept ==
  ASSUME NEW k, NEW r, NEW s, NEW h, Cells(k) = Cells(r), KeepsSeen(k, r, s, h)
  PROVE  Sees(r, s, h, PosOf(k, s))
<1> SUFFICES ASSUME NEW p \in PosOf(k, s), ~IsMasked(p, h, Window) PROVE p \in PosOf(r, s)
  BY DEF Sees
<1>1. PICK i \in Cells(k) : s \in k.cell[i].seqs /\ k.cell[i].pos = p
  BY DEF PosOf
<1>2. s \in r.cell[i].seqs /\ r.cell[i].pos = p /\ i \in Cells(r)
  BY <1>1 DEF KeepsSeen
<1> QED
  BY <1>2 DEF PosOf

\* The stream of s after the first j ubatches of a trial.
OnTrial(q, j, s) == q.caches[j + 1][StreamOf(s)]

\* What a trial goes through fits.
LEMMA TrialFits ==
  ASSUME NEW size \in Nat \ {0}, NEW c, NEW us \in Seq(Seq(Token)), NEW q \in Trials(size),
         Tried(q, c, us, Window, size)
  PROVE  /\ Len(q.slots) \in Nat /\ Len(q.slots) <= Len(us) /\ Len(us) \in Nat
         /\ DOMAIN q.slots = 1..Len(q.slots)
         /\ \A j \in 0..Len(q.slots) : CacheFits(q.caches[j + 1], size)
         /\ \A s \in Seqs : \A j \in 0..Len(q.slots) : Cells(OnTrial(q, j, s)) = 0..size - 1
<1> DEFINE L == Len(q.slots)
<1>1. /\ q.slots \in Seq(SlotSets(size)) /\ q.caches \in Seq([Streams -> Stream(size)])
      /\ Len(q.caches) = L + 1 /\ L <= Len(us)
  BY DEF Trials, Tried
<1>2. L \in Nat /\ DOMAIN q.slots = 1..L /\ DOMAIN q.caches = 1..L + 1 /\ Len(us) \in Nat
  BY <1>1, LenProperties
<1> HIDE DEF L
<1>3. ASSUME NEW j \in 0..L PROVE CacheFits(q.caches[j + 1], size)
  <2>1. j + 1 \in DOMAIN q.caches
    BY <1>2
  <2> QED
    BY <2>1 DEF Tried
<1>4. ASSUME NEW s \in Seqs, NEW j \in 0..L PROVE Cells(OnTrial(q, j, s)) = 0..size - 1
  <2>1. CacheFits(q.caches[j + 1], size) /\ StreamOf(s) \in Streams
    BY <1>3, StreamType
  <2> QED
    BY <2>1, CellsAre DEF CacheFits, StreamOK, OnTrial
<1> QED
  BY <1>1, <1>2, <1>3, <1>4 DEF L

\* One ubatch of a trial.
LEMMA TrialSteps ==
  ASSUME NEW size \in Nat \ {0}, NEW c, NEW us \in Seq(Seq(Token)), NEW q \in Trials(size),
         Tried(q, c, us, Window, size), NEW s \in Seqs, NEW j \in 1..Len(q.slots)
  PROVE  Steps(OnTrial(q, j - 1, s), OnTrial(q, j, s), s, PosIn(us[j], s))
<1> DEFINE L == Len(q.slots)
<1>0. /\ L \in Nat /\ L <= Len(us) /\ Len(us) \in Nat /\ DOMAIN q.slots = 1..L
      /\ \A m \in 0..L : CacheFits(q.caches[m + 1], size)
  BY TrialFits
<1>1. /\ j \in Nat /\ j - 1 \in 0..L /\ j - 1 + 1 = j /\ j \in DOMAIN q.slots
      /\ j \in 1..Len(us)
  <2>1. j \in 1..L
    OBVIOUS
  <2> HIDE DEF L
  <2> QED
    BY <1>0, <2>1
<1>2. CacheFits(q.caches[j], size) /\ us[j] \in Seq(Token)
  <2>1. CacheFits(q.caches[j - 1 + 1], size)
    BY <1>0, <1>1
  <2> QED
    BY <1>1, <2>1
<1>3. /\ q.slots[j] = Slots(q.caches[j], us[j], Window) /\ SlotsOK(q.slots[j], us[j], size)
      /\ q.caches[j + 1] = ApplyAll(q.caches[j], us[j], q.slots[j])
  BY <1>1 DEF Tried
<1>4. Steps(q.caches[j][StreamOf(s)], ApplyAll(q.caches[j], us[j], q.slots[j])[StreamOf(s)], s,
            PosIn(us[j], s))
  BY <1>2, <1>3, ApplyAllSteps
<1> QED
  BY <1>1, <1>3, <1>4 DEF OnTrial

\* After j ubatches of a trial: what a token at h looks at is there, whenever it came.
SeenOnTrial(q, us, s, h, j) ==
  /\ Before(OnTrial(q, j, s), s, h)
  /\ PosOf(OnTrial(q, j, s), s) \subseteq PosOf(OnTrial(q, 0, s), s) \cup PosUpTo(us, j, s)
  /\ \A m \in 0..j : KeepsSeen(OnTrial(q, m, s), OnTrial(q, j, s), s, h)
  /\ Sees(OnTrial(q, j, s), s, h, PosUpTo(us, j, s))

\* No position of the ubatches is as far as h.
ComesBefore(us, s, h) == \A m \in DOMAIN us : \A p \in PosIn(us[m], s) : p < h

\* A position came with the last ubatch or before it.
LEMMA PosUpToNext ==
  ASSUME NEW us, NEW j \in Nat \ {0}, NEW s
  PROVE  PosUpTo(us, j, s) = PosUpTo(us, j - 1, s) \cup PosIn(us[j], s)
<1>1. \A m : m \in 1..j <=> m \in 1..j - 1 \/ m = j
  OBVIOUS
<1>2. \A p : p \in PosUpTo(us, j, s) <=> \E m \in 1..j : p \in PosIn(us[m], s)
  BY DEF PosUpTo
<1>3. \A p : p \in PosUpTo(us, j - 1, s) <=> \E m \in 1..j - 1 : p \in PosIn(us[m], s)
  BY DEF PosUpTo
<1>4. \A p : p \in PosUpTo(us, j, s) <=> p \in PosUpTo(us, j - 1, s) \/ p \in PosIn(us[j], s)
  BY <1>1, <1>2, <1>3
<1> QED
  BY <1>4

\* A trial keeps what a token at h looks at.
LEMMA TrialSeen ==
  ASSUME NEW size \in Nat \ {0}, NEW c, NEW us \in Seq(Seq(Token)), NEW q \in Trials(size),
         Tried(q, c, us, Window, size), NEW s \in Seqs, NEW h \in Int,
         Before(c[StreamOf(s)], s, h), ComesBefore(us, s, h)
  PROVE  \A j \in 0..Len(q.slots) : SeenOnTrial(q, us, s, h, j)
<1> DEFINE L == Len(q.slots)
           S == {j \in 0..L : SeenOnTrial(q, us, s, h, j)}
<1>1. /\ L \in Nat /\ L <= Len(us) /\ Len(us) \in Nat
      /\ \A j \in 0..L : Cells(OnTrial(q, j, s)) = 0..size - 1
  BY TrialFits
<1> HIDE DEF L
<1>2. 0 \in S
  <2>1. OnTrial(q, 0, s) = c[StreamOf(s)]
    BY DEF OnTrial, Tried
  <2>2. \A m \in 0..0 : m = 0
    OBVIOUS
  <2>3. PosUpTo(us, 0, s) = {}
    BY DEF PosUpTo
  <2>4. KeepsSeen(OnTrial(q, 0, s), OnTrial(q, 0, s), s, h)
    BY DEF KeepsSeen
  <2>5. SeenOnTrial(q, us, s, h, 0)
    BY <2>1, <2>2, <2>3, <2>4 DEF SeenOnTrial, Sees
  <2>6. 0 \in 0..L
    BY <1>1
  <2> QED
    BY <2>5, <2>6
<1>3. ASSUME NEW j \in 1..L, j - 1 \in S PROVE j \in S
  <2> DEFINE k == OnTrial(q, j - 1, s)
             r == OnTrial(q, j, s)
             P == PosIn(us[j], s)
  <2>1. j - 1 \in 0..L /\ j \in 0..L /\ j \in DOMAIN us /\ j \in Nat \ {0}
    BY <1>1
  <2>2. SeenOnTrial(q, us, s, h, j - 1)
    BY <1>3
  <2>3. Steps(k, r, s, P)
    BY TrialSteps DEF L
  <2>4. Cells(k) = 0..size - 1 /\ Cells(r) = 0..size - 1
    BY <1>1, <2>1
  <2>5. /\ Before(k, s, h) /\ \A m \in 0..j - 1 : KeepsSeen(OnTrial(q, m, s), k, s, h)
        /\ PosOf(k, s) \subseteq PosOf(OnTrial(q, 0, s), s) \cup PosUpTo(us, j - 1, s)
        /\ Sees(k, s, h, PosUpTo(us, j - 1, s))
    BY <2>2 DEF SeenOnTrial
  <2>6. \A p \in P : p < h
    BY <2>1 DEF ComesBefore
  <2>7. PosUpTo(us, j, s) = PosUpTo(us, j - 1, s) \cup P
    BY <2>1, PosUpToNext
  <2> HIDE DEF k, r, P
  <2>8. KeepsSeen(k, r, s, h) /\ Sees(r, s, h, P)
    BY <2>3, <2>5 DEF Steps
  <2>9. PosOf(r, s) \subseteq PosOf(k, s) \cup P
    BY <2>3 DEF Steps
  <2>10. Before(r, s, h)
    BY <2>5, <2>6, <2>9 DEF Before
  <2>11. PosOf(r, s) \subseteq PosOf(OnTrial(q, 0, s), s) \cup PosUpTo(us, j, s)
    BY <2>5, <2>7, <2>9
  <2>12. ASSUME NEW m \in 0..j PROVE KeepsSeen(OnTrial(q, m, s), r, s, h)
    <3>1. CASE m = j
      BY <3>1 DEF KeepsSeen, r
    <3>2. CASE m # j
      <4>1. m \in 0..j - 1 /\ m \in 0..L
        BY <1>1, <2>1, <3>2
      <4>2. KeepsSeen(OnTrial(q, m, s), k, s, h) /\ Cells(OnTrial(q, m, s)) = Cells(k)
        BY <1>1, <2>4, <2>5, <4>1
      <4> QED
        BY <2>8, <4>2, KeepsSeenTwice
    <3> QED
      BY <3>1, <3>2
  <2>13. Sees(r, s, h, PosUpTo(us, j, s))
    <3>1. Sees(r, s, h, PosOf(k, s))
      BY <2>4, <2>8, SeesKept
    <3> QED
      BY <2>5, <2>7, <2>8, <3>1 DEF Sees
  <2>14. SeenOnTrial(q, us, s, h, j)
    BY <2>10, <2>11, <2>12, <2>13 DEF SeenOnTrial, r
  <2> QED
    BY <2>1, <2>14
<1> HIDE DEF S
<1>4. \A j \in 0..L : j \in S
  BY <1>1, <1>2, <1>3, UpTo
<1> QED
  BY <1>4 DEF S, L

\* What a token at h looks at is in a cache that is mixed from a trial.
LEMMA MixedSees ==
  ASSUME NEW size \in Nat \ {0}, NEW c, NEW us \in Seq(Seq(Token)), NEW q \in Trials(size),
         Tried(q, c, us, Window, size), NEW s \in Seqs, NEW h \in Int,
         Before(c[StreamOf(s)], s, h), ComesBefore(us, s, h),
         NEW m \in 0..Len(q.slots), NEW x, CacheFits(x, size), Mixed(x, q, m, size)
  PROVE  Sees(x[StreamOf(s)], s, h, PosOf(c[StreamOf(s)], s) \cup PosUpTo(us, m, s))
<1> DEFINE L == Len(q.slots)
           t == StreamOf(s)
           k == OnTrial(q, m, s)
<1>1. /\ L \in Nat /\ \A j \in 0..L : Cells(OnTrial(q, j, s)) = 0..size - 1
      /\ \A j \in 0..L : SeenOnTrial(q, us, s, h, j)
  BY TrialFits, TrialSeen
<1>2. t \in Streams /\ Cells(x[t]) = 0..size - 1
  BY StreamType, CellsAre DEF CacheFits, StreamOK
<1>3. OnTrial(q, 0, s) = c[t] /\ 0 \in 0..m
  BY DEF OnTrial, Tried
<1>4. Cells(k) = 0..size - 1 /\ Cells(c[t]) = 0..size - 1
  <2>1. 0 \in 0..L /\ m \in 0..L
    BY <1>1
  <2> QED
    BY <1>1, <1>3, <2>1
<1>5. SeenOnTrial(q, us, s, h, m)
  BY <1>1
<1>6. Sees(k, s, h, PosOf(c[t], s)) /\ Sees(k, s, h, PosUpTo(us, m, s))
  <2>1. KeepsSeen(c[t], k, s, h)
    BY <1>3, <1>5 DEF SeenOnTrial
  <2>2. Sees(k, s, h, PosUpTo(us, m, s))
    BY <1>5 DEF SeenOnTrial
  <2> HIDE DEF k, t
  <2> QED
    BY <1>4, <2>1, <2>2, SeesKept
<1>7. KeepsSeen(k, x[t], s, h)
  <2> SUFFICES ASSUME NEW i \in 0..size - 1, s \in k.cell[i].seqs, ~IsMasked(k.cell[i].pos, h, Window)
               PROVE  s \in x[t].cell[i].seqs /\ x[t].cell[i].pos = k.cell[i].pos
    BY <1>4 DEF KeepsSeen
  <2>1. PICK j \in m..L : x[t].cell[i] = q.caches[j + 1][t].cell[i]
    BY <1>2 DEF Mixed, HeldFrom
  <2>2. j \in 0..L /\ m \in 0..j
    BY <1>1, <2>1
  <2>3. KeepsSeen(k, OnTrial(q, j, s), s, h)
    BY <1>1, <2>2 DEF SeenOnTrial
  <2>4. x[t].cell[i] = OnTrial(q, j, s).cell[i]
    BY <2>1 DEF OnTrial
  <2> QED
    BY <1>4, <2>3, <2>4 DEF KeepsSeen
<1> HIDE DEF k, t
<1>8. Sees(x[t], s, h, PosOf(k, s))
  BY <1>2, <1>4, <1>7, SeesKept
<1>9. Sees(x[t], s, h, PosOf(c[t], s) \cup PosUpTo(us, m, s))
  BY <1>6, <1>8 DEF Sees
<1> QED
  BY <1>9 DEF t

\* A cell that is not taken in between has only lost sequences.
LEMMA StaysLess ==
  ASSUME NEW size \in Nat \ {0}, NEW c, NEW us \in Seq(Seq(Token)), NEW q \in Trials(size),
         Tried(q, c, us, Window, size), NEW m \in 0..Len(q.slots), NEW t \in Streams,
         NEW i \in 0..size - 1, NEW j \in m..Len(q.slots), Stays(q, m, j, t, i)
  PROVE  Less(q.caches[j + 1][t].cell[i], q.caches[m + 1][t].cell[i])
<1> DEFINE L == Len(q.slots)
           x(n) == q.caches[n + 1][t].cell[i]
           S == {n \in 0..L : m <= n /\ n <= j => Less(x(n), x(m))}
<1>1. /\ L \in Nat /\ L <= Len(us) /\ Len(us) \in Nat /\ DOMAIN q.slots = 1..L
      /\ \A n \in 0..L : CacheFits(q.caches[n + 1], size)
  BY TrialFits
<1>2. m \in 0..L /\ j \in m..L
  OBVIOUS
<1> HIDE DEF L
<1>3. 0 \in S
  <2>1. 0 \in 0..L /\ (m <= 0 => m = 0)
    BY <1>1, <1>2
  <2>2. Less(x(0), x(0))
    BY DEF Less
  <2> HIDE DEF x
  <2> QED
    BY <2>1, <2>2
<1>4. ASSUME NEW n \in 1..L, n - 1 \in S PROVE n \in S
  <2>1. n \in 0..L /\ n - 1 \in 0..L /\ n - 1 + 1 = n /\ n \in DOMAIN q.slots /\ n \in 1..Len(us)
    BY <1>1
  <2>2. ASSUME m <= n, n <= j PROVE Less(x(n), x(m))
    <3>1. CASE m = n
      BY <3>1 DEF Less
    <3>2. CASE m # n
      <4>1. n \in m + 1..j /\ m <= n - 1 /\ n - 1 <= j
        BY <1>1, <1>2, <2>2, <3>2
      <4>2. Less(x(n - 1), x(m))
        BY <1>4, <4>1
      <4>3. CacheFits(q.caches[n], size) /\ us[n] \in Seq(Token)
        <5>1. CacheFits(q.caches[n - 1 + 1], size)
          BY <1>1, <2>1
        <5> QED
          BY <2>1, <5>1
      <4>4. /\ SlotsOK(q.slots[n], us[n], size) /\ DOMAIN q.slots[n] = StreamsOf(us[n])
            /\ q.caches[n + 1] = ApplyAll(q.caches[n], us[n], q.slots[n])
        BY <2>1 DEF Tried, SlotsOK
      <4>5. AppliedIn(q.caches[n + 1], q.caches[n], us[n], q.slots[n], size, t)
        BY <4>3, <4>4, ApplyAllIs
      <4>6. t \in StreamsOf(us[n]) => i \notin ToSet(q.slots[n][t])
        BY <4>1, <4>4 DEF Stays
      <4>7. Less(q.caches[n + 1][t].cell[i], q.caches[n][t].cell[i])
        BY <4>5, <4>6 DEF AppliedIn, Applied, Less
      <4>8. Less(x(n), x(n - 1))
        BY <2>1, <4>7
      <4> HIDE DEF x
      <4> QED
        BY <4>2, <4>8 DEF Less
    <3> QED
      BY <3>1, <3>2
  <2> QED
    BY <2>1, <2>2
<1> HIDE DEF S
<1>5. \A n \in 0..L : n \in S
  BY <1>1, <1>3, <1>4, UpTo
<1>6. j \in 0..L /\ m <= j /\ j <= j
  BY <1>1, <1>2
<1> QED
  BY <1>5, <1>6 DEF S

\* What a purge has left is not purged again.
LEMMA PurgedOnce ==
  ASSUME NEW t, NEW v, CellOK(v, t), NEW y, CellOK(y, t), NEW k, NEW slot,
         Less(y, Without(v, Lost(k, slot, v)))
  PROVE  Without(y, Lost(k, slot, y)) = y
<1> DEFINE z == Without(v, Lost(k, slot, v))
<1>1. z.seqs = v.seqs \ Lost(k, slot, v) /\ (z.seqs # {} => z.pos = v.pos)
  BY WithoutOK
<1> HIDE DEF z
<1>2. y.seqs \subseteq z.seqs /\ (y.seqs # {} => y.pos = z.pos)
  BY DEF Less, z
<1>3. Lost(k, slot, y) = {}
  <2> SUFFICES ASSUME NEW s \in Lost(k, slot, y) PROVE FALSE
    OBVIOUS
  <2>1. s \in y.seqs
    BY DEF Lost
  <2>2. y.pos = v.pos /\ s \in v.seqs /\ s \notin Lost(k, slot, v)
    BY <1>1, <1>2, <2>1
  <2> QED
    BY <2>2 DEF Lost
<1> QED
  BY <1>3, WithoutNone

\* Two streams whose cells of a slot are the same lose the same there.
SameIn(slot, k, r) == \A j \in ToSet(slot) : k.cell[j] = r.cell[j]

LEMMA SameLost ==
  ASSUME NEW k, NEW r, NEW slot, SameIn(slot, k, r), NEW x
  PROVE  Lost(k, slot, x) = Lost(r, slot, x)
BY Zenon DEF Lost, SameIn

\* Putting ubatch m + 1 in again takes and purges what it did on trial.
LEMMA MixedApplied ==
  ASSUME NEW size \in Nat \ {0}, NEW c, NEW us \in Seq(Seq(Token)), NEW q \in Trials(size),
         Tried(q, c, us, Window, size), NEW m \in 1..Len(q.slots), NEW x, CacheFits(x, size),
         Mixed(x, q, m - 1, size)
  PROVE  Mixed(ApplyAll(x, us[m], q.slots[m]), q, m, size)
<1> DEFINE L == Len(q.slots)
           u == us[m]
           slots == q.slots[m]
           old == q.caches[m]
           new == q.caches[m + 1]
           z == ApplyAll(x, u, slots)
<1>0. /\ L \in Nat /\ L <= Len(us) /\ Len(us) \in Nat /\ DOMAIN q.slots = 1..L
      /\ \A n \in 0..L : CacheFits(q.caches[n + 1], size)
  BY TrialFits
<1>1. /\ m \in 1..L /\ m \in Nat /\ m - 1 + 1 = m /\ m \in DOMAIN q.slots /\ m \in 1..Len(us)
      /\ m \in m..L /\ m - 1 \in 0..L /\ m \in 0..L
  <2>1. m \in 1..L
    OBVIOUS
  <2> HIDE DEF L
  <2> QED
    BY <1>0, <2>1
<1>2. CacheFits(old, size) /\ CacheFits(new, size) /\ u \in Seq(Token)
  <2>1. CacheFits(q.caches[m - 1 + 1], size) /\ CacheFits(q.caches[m + 1], size)
    BY <1>0, <1>1
  <2> QED
    BY <1>1, <2>1
<1>3. SlotsOK(slots, u, size) /\ DOMAIN slots = StreamsOf(u) /\ new = ApplyAll(old, u, slots)
  BY <1>1 DEF Tried, SlotsOK
<1>4. ASSUME NEW t \in Streams, NEW i \in 0..size - 1
      PROVE  \E j \in m - 1..L : /\ x[t].cell[i] = q.caches[j + 1][t].cell[i] /\ Stays(q, m - 1, j, t, i)
                                 /\ j = m - 1 \/ (j \in m..L /\ Stays(q, m, j, t, i))
  <2>1. PICK j \in m - 1..L : x[t].cell[i] = q.caches[j + 1][t].cell[i] /\ Stays(q, m - 1, j, t, i)
    BY DEF Mixed, HeldFrom
  <2>2. j = m - 1 \/ j \in m..L
    BY <1>0, <1>1
  <2>3. \A k \in m + 1..j : k \in m - 1 + 1..j
    BY <1>1
  <2>4. Stays(q, m, j, t, i)
    BY <2>1, <2>3 DEF Stays
  <2> QED
    BY <2>1, <2>2, <2>4
<1> HIDE DEF L, z
<1>5. ASSUME NEW t \in Streams, NEW i \in 0..size - 1
      PROVE  HeldFrom(z, q, m, t, i)
  <2>1. PICK j \in m - 1..L : /\ x[t].cell[i] = q.caches[j + 1][t].cell[i] /\ Stays(q, m - 1, j, t, i)
                              /\ j = m - 1 \/ (j \in m..L /\ Stays(q, m, j, t, i))
    BY <1>4
  <2>2. Stays(q, m, m, t, i)
    BY <1>1 DEF Stays
  <2>3. CASE t \notin StreamsOf(u)
    <3>1. z[t] = x[t] /\ new[t] = old[t]
      BY <1>3, <2>3 DEF ApplyAll, z
    <3>2. CASE j = m - 1
      <4>1. z[t].cell[i] = q.caches[m + 1][t].cell[i]
        BY <1>1, <2>1, <3>1, <3>2
      <4> QED
        BY <1>1, <2>2, <4>1 DEF HeldFrom, L
    <3>3. CASE j \in m..L /\ Stays(q, m, j, t, i)
      BY <2>1, <3>1, <3>3 DEF HeldFrom, L
    <3> QED
      BY <2>1, <3>2, <3>3
  <2>4. CASE t \in StreamsOf(u)
    <3> DEFINE part == PartOf(u, t)
               slot == slots[t]
               a == Place(x[t], slot, part)
               b == Place(old[t], slot, part)
    <3>1. /\ z[t] = Apply(x[t], slot, part) /\ new[t] = Apply(old[t], slot, part)
          /\ StreamOK(x[t], size, t) /\ StreamOK(old[t], size, t)
      BY <1>2, <1>3, <2>4 DEF ApplyAll, z, CacheFits
    <3>2. /\ SlotOK(slot, Len(part), size) /\ part \in Seq(Token)
          /\ \A n \in DOMAIN part : StreamOf(part[n].seqs[1]) = t
      <4>1. SlotOK(slot, Len(part), size)
        BY <1>3, <2>4 DEF SlotsOK
      <4>2. part \in Seq(Token) /\ \A n \in DOMAIN part : StreamOf(part[n].seqs[1]) = t
        BY <1>2, PartIs
      <4> QED
        BY <4>1, <4>2
    <3> HIDE DEF slot, part
    <3>3. /\ \A n \in DOMAIN slot : a.cell[slot[n]] = Placed(part[n]) /\ b.cell[slot[n]] = Placed(part[n])
          /\ \A n \in 0..size - 1 : n \notin ToSet(slot) => a.cell[n] = x[t].cell[n]
          /\ \A n \in 0..size - 1 : n \notin ToSet(slot) => b.cell[n] = old[t].cell[n]
          /\ ToSet(slot) \subseteq 0..size - 1
      <4>1. /\ \A n \in DOMAIN slot : a.cell[slot[n]] = Placed(part[n])
            /\ \A n \in 0..size - 1 : n \notin ToSet(slot) => a.cell[n] = x[t].cell[n]
            /\ ToSet(slot) \subseteq 0..size - 1
        <5> HIDE DEF old, u, slots
        <5> QED
          BY <3>1, <3>2, PlaceIs
      <4>2. /\ \A n \in DOMAIN slot : b.cell[slot[n]] = Placed(part[n])
            /\ \A n \in 0..size - 1 : n \notin ToSet(slot) => b.cell[n] = old[t].cell[n]
        <5> HIDE DEF old, a
        <5> QED
          BY <3>1, <3>2, PlaceIs, SMTT(60)
      <4> QED
        BY <4>1, <4>2
    <3> HIDE DEF a, b
    <3>4. /\ z[t].cell[i] = Without(a.cell[i], Lost(x[t], slot, a.cell[i]))
          /\ new[t].cell[i] = Without(b.cell[i], Lost(old[t], slot, b.cell[i]))
      BY <3>1, ApplyCell DEF a, b
    <3>5. ASSUME NEW n \in ToSet(slot) PROVE x[t].cell[n] = old[t].cell[n]
      <4>1. n \in 0..size - 1
        BY <3>3
      <4>2. PICK k \in m - 1..L : /\ x[t].cell[n] = q.caches[k + 1][t].cell[n] /\ Stays(q, m - 1, k, t, n)
                                  /\ k = m - 1 \/ (k \in m..L /\ Stays(q, m, k, t, n))
        BY <1>4, <4>1
      <4>3. k = m - 1
        <5> SUFFICES ASSUME k \in m..L PROVE FALSE
          BY <4>2
        <5>1. m \in m - 1 + 1..k
          BY <1>1
        <5>2. n \notin ToSet(q.slots[m][t])
          BY <1>3, <2>4, <4>2, <5>1 DEF Stays
        <5> QED
          BY <5>2 DEF slot
      <4> QED
        BY <1>1, <4>2, <4>3
    <3>6. ASSUME NEW y PROVE Lost(x[t], slot, y) = Lost(old[t], slot, y)
      <4>1. \A n \in ToSet(slot) : x[t].cell[n] = old[t].cell[n]
        BY <3>5
      <4>2. SameIn(slot, x[t], old[t])
        BY <4>1 DEF SameIn
      <4> HIDE DEF old
      <4> QED
        BY <4>2, SameLost
    <3>7. CASE i \in ToSet(slot) \/ j = m - 1
      <4>1. a.cell[i] = b.cell[i]
        <5>1. CASE i \in ToSet(slot)
          <6>1. PICK n \in DOMAIN slot : slot[n] = i
            BY <5>1 DEF ToSet
          <6> QED
            BY <3>3, <6>1
        <5>2. CASE i \notin ToSet(slot)
          <6>1. x[t].cell[i] = old[t].cell[i]
            BY <1>1, <2>1, <3>7, <5>2
          <6> QED
            BY <3>3, <5>2, <6>1
        <5> QED
          BY <5>1, <5>2
      <4>2. z[t].cell[i] = q.caches[m + 1][t].cell[i]
        BY <3>4, <3>6, <4>1
      <4> QED
        BY <1>1, <2>2, <4>2 DEF HeldFrom, L
    <3>8. CASE i \notin ToSet(slot) /\ j # m - 1
      <4> DEFINE y == q.caches[j + 1][t].cell[i]
      <4>1. j \in m..L /\ Stays(q, m, j, t, i)
        BY <2>1, <3>8
      <4>2. Less(y, new[t].cell[i])
        BY <1>1, <4>1, StaysLess DEF L
      <4>3. CellOK(y, t) /\ CellOK(old[t].cell[i], t)
        <5>1. j \in 0..L
          BY <1>0, <1>1, <4>1
        <5>2. CacheFits(q.caches[j + 1], size)
          BY <1>0, <5>1
        <5> QED
          BY <1>2, <5>2 DEF CacheFits, StreamOK
      <4>4. a.cell[i] = y /\ b.cell[i] = old[t].cell[i]
        BY <2>1, <3>3, <3>8
      <4> HIDE DEF y
      <4>5. Without(y, Lost(old[t], slot, y)) = y
        BY <3>4, <4>2, <4>3, <4>4, PurgedOnce
      <4>6. z[t].cell[i] = y
        BY <3>4, <3>6, <4>4, <4>5
      <4> QED
        BY <4>1, <4>6 DEF HeldFrom, L, y
    <3> QED
      BY <3>7, <3>8
  <2> QED
    BY <2>3, <2>4
<1> QED
  BY <1>5 DEF Mixed, z

-----------------------------------------------------------------------------
(* What was prepared is put in. *)

\* As the ubatches go in, the cache stays mixed from the trial.
LEMMA MixedRun ==
  ASSUME NEW size \in Nat \ {0}, NEW c, NEW us \in Seq(Seq(Token)), NEW q \in Trials(size),
         Tried(q, c, us, Window, size), NEW n \in 0..Len(q.slots), NEW g, NEW x,
         Run(g, x, us, q.slots, n, size), Mixed(x, q, 0, size)
  PROVE  Mixed(g[n], q, n, size)
<1> DEFINE S == {m \in 0..n : Mixed(g[m], q, m, size)}
<1>1. /\ Len(q.slots) \in Nat /\ n \in Nat /\ n \in 0..n
      /\ \A m \in 1..n : m \in 1..Len(q.slots) /\ m - 1 \in 0..n /\ m \in 0..n
  <2>1. Len(q.slots) \in Nat
    BY TrialFits
  <2> QED
    BY <2>1
<1>2. 0 \in S
  <2>1. g[0] = x /\ 0 \in 0..n
    BY <1>1 DEF Run
  <2> QED
    BY <2>1
<1>3. ASSUME NEW m \in 1..n, m - 1 \in S PROVE m \in S
  <2>1. CacheFits(g[m - 1], size) /\ Mixed(g[m - 1], q, m - 1, size)
    BY <1>1, <1>3 DEF Run
  <2>2. g[m] = ApplyAll(g[m - 1], us[m], q.slots[m]) /\ m \in 1..Len(q.slots)
    BY <1>1 DEF Run
  <2>3. Mixed(g[m], q, m, size)
    BY <2>1, <2>2, MixedApplied
  <2> QED
    BY <1>1, <2>3
<1> HIDE DEF S
<1>4. \A m \in 0..n : m \in S
  BY <1>1, <1>2, <1>3, UpTo
<1> QED
  BY <1>1, <1>4 DEF S

\* What prepare has found for the window cache c: the cache is mixed from a trial, whose
\* slots it gives.
TriedFor(q, p, c, us, size) ==
  /\ Tried(q, c, us, Window, size) /\ p.slots = q.slots
  /\ CacheFits(p.cache, size) /\ Mixed(p.cache, q, 0, size)
  /\ p.ok => Len(q.slots) = Len(us)

LEMMA PrepareTried ==
  ASSUME NEW size \in Nat \ {0}, NEW c, CacheFits(c, size), NEW us \in Seq(Seq(Token))
  PROVE  \E q \in Trials(size) : TriedFor(q, Prepare(c, us, Window), c, us, size)
<1> DEFINE r == Trial(c, us, Window)
           p == Prepare(c, us, Window)
<1>1. /\ r \in Trials(size) /\ Tried(r, c, us, Window, size)
      /\ r.ok => Len(r.slots) = Len(us)
  BY TrialIs
<1>2. p = [ok |-> r.ok /\ us # <<>>, slots |-> r.slots, cache |-> TakenOut(r)]
  BY Zenon DEF Prepare
<1> HIDE DEF r, p
<1>3. CacheFits(TakenOut(r), size) /\ Mixed(TakenOut(r), r, 0, size)
  BY <1>1, TakenOutIs
<1>4. p.cache = TakenOut(r) /\ p.slots = r.slots /\ p.ok = (r.ok /\ us # <<>>)
  BY <1>2
<1>5. TriedFor(r, p, c, us, size)
  BY <1>1, <1>3, <1>4 DEF TriedFor
<1> QED
  BY <1>1, <1>5 DEF p

\* What a token at h looks at is not purged on trial.
LEMMA PreparedSees ==
  ASSUME NEW size \in Nat \ {0}, NEW c, NEW us \in Seq(Seq(Token)), NEW q \in Trials(size), NEW p,
         TriedFor(q, p, c, us, size), NEW s \in Seqs, NEW h \in Int,
         Before(c[StreamOf(s)], s, h), ComesBefore(us, s, h)
  PROVE  Sees(p.cache[StreamOf(s)], s, h, PosOf(c[StreamOf(s)], s))
<1>1. /\ Tried(q, c, us, Window, size) /\ CacheFits(p.cache, size) /\ Mixed(p.cache, q, 0, size)
  BY DEF TriedFor
<1>2. 0 \in 0..Len(q.slots)
  <2>1. Len(q.slots) \in Nat
    BY <1>1, TrialFits
  <2> QED
    BY <2>1
<1>3. Sees(p.cache[StreamOf(s)], s, h, PosOf(c[StreamOf(s)], s) \cup PosUpTo(us, 0, s))
  BY <1>1, <1>2, MixedSees
<1> QED
  BY <1>3 DEF Sees

\* After n ubatches the cache is mixed from the trial.
LEMMA ProcessedMixed ==
  ASSUME NEW size \in Nat \ {0}, NEW c, NEW us \in Seq(Seq(Token)), NEW q \in Trials(size), NEW p,
         TriedFor(q, p, c, us, size), p.ok, NEW n \in 0..Len(us)
  PROVE  CacheFits(Processed(p, us, n), size) /\ Mixed(Processed(p, us, n), q, n, size)
<1>1. /\ Tried(q, c, us, Window, size) /\ CacheFits(p.cache, size) /\ Mixed(p.cache, q, 0, size)
      /\ Len(q.slots) = Len(us) /\ p.slots = q.slots
  BY DEF TriedFor
<1>2. DOMAIN q.slots = 1..Len(us) /\ Len(us) \in Nat
  BY <1>1, TrialFits
<1>3. n \in 0..Len(q.slots) /\ n \in 0..n /\ \A m \in 1..n : m \in DOMAIN q.slots
  BY <1>1, <1>2
<1>4. \A m \in 1..n : SlotsOK(p.slots[m], us[m], size)
  BY <1>1, <1>3 DEF Tried
<1>5. PICK g : Run(g, p.cache, us, p.slots, n, size) /\ Processed(p, us, n) = g[n]
  BY <1>1, <1>4, ProcessedIs
<1>6. Mixed(g[n], q, n, size)
  BY <1>1, <1>3, <1>5, MixedRun
<1>7. CacheFits(g[n], size)
  BY <1>3, <1>5 DEF Run
<1> QED
  BY <1>5, <1>6, <1>7

\* What a token at h looks at is there after n ubatches.
LEMMA ProcessedSees ==
  ASSUME NEW size \in Nat \ {0}, NEW c, NEW us \in Seq(Seq(Token)), NEW q \in Trials(size), NEW p,
         TriedFor(q, p, c, us, size), p.ok, NEW n \in 0..Len(us), NEW s \in Seqs, NEW h \in Int,
         Before(c[StreamOf(s)], s, h), ComesBefore(us, s, h)
  PROVE  Sees(Processed(p, us, n)[StreamOf(s)], s, h,
              PosOf(c[StreamOf(s)], s) \cup PosUpTo(us, n, s))
<1>1. Tried(q, c, us, Window, size) /\ Len(q.slots) = Len(us)
  BY DEF TriedFor
<1>2. n \in 0..Len(q.slots)
  BY <1>1
<1>3. CacheFits(Processed(p, us, n), size) /\ Mixed(Processed(p, us, n), q, n, size)
  BY ProcessedMixed
<1> QED
  BY <1>1, <1>2, <1>3, MixedSees

\* When all ubatches are in, the cache holds what it did on trial.
LEMMA ProcessedWhole ==
  ASSUME NEW size \in Nat \ {0}, NEW c, NEW us \in Seq(Seq(Token)), NEW q \in Trials(size), NEW p,
         TriedFor(q, p, c, us, size), p.ok, NEW s \in Seqs
  PROVE  PosOf(Processed(p, us, Len(us))[StreamOf(s)], s) = PosOf(OnTrial(q, Len(us), s), s)
<1> DEFINE L == Len(us)
           t == StreamOf(s)
           x == Processed(p, us, L)
<1>1. /\ Tried(q, c, us, Window, size) /\ Len(q.slots) = L
  BY DEF TriedFor
<1>2. L \in Nat /\ Cells(OnTrial(q, L, s)) = 0..size - 1
  <2>1. Len(us) \in Nat /\ Len(q.slots) \in 0..Len(q.slots)
    BY <1>1, TrialFits
  <2>2. Cells(OnTrial(q, Len(q.slots), s)) = 0..size - 1
    BY <1>1, <2>1, TrialFits
  <2> QED
    BY <1>1, <2>1, <2>2
<1>3. CacheFits(x, size) /\ Mixed(x, q, L, size)
  <2>1. L \in 0..Len(us)
    BY <1>2
  <2> HIDE DEF L
  <2> QED
    BY <2>1, ProcessedMixed
<1> HIDE DEF L, x
<1>4. t \in Streams /\ Cells(x[t]) = 0..size - 1
  BY <1>3, StreamType, CellsAre DEF CacheFits, StreamOK
<1>5. \A i \in 0..size - 1 : x[t].cell[i] = OnTrial(q, L, s).cell[i]
  <2> SUFFICES ASSUME NEW i \in 0..size - 1
               PROVE  x[t].cell[i] = q.caches[L + 1][t].cell[i]
    BY DEF OnTrial
  <2>1. PICK j \in L..Len(q.slots) : x[t].cell[i] = q.caches[j + 1][t].cell[i]
    BY <1>3, <1>4 DEF Mixed, HeldFrom
  <2>2. j = L
    BY <1>1, <1>2, <2>1
  <2> QED
    BY <2>1, <2>2
<1> HIDE DEF t
<1>6. PosOf(x[t], s) = PosOf(OnTrial(q, L, s), s)
  BY <1>2, <1>4, <1>5 DEF PosOf
<1> QED
  BY <1>6 DEF x, t, L

-----------------------------------------------------------------------------
(* What is seen after a search for room. *)

\* x has some of the positions of s in k, among them all that a token at h looks at.
SeesFrom(x, k, s, h) ==
  /\ CacheFits(x, SizeSwa)
  /\ PosOf(x[StreamOf(s)], s) \subseteq PosOf(k[StreamOf(s)], s)
  /\ Sees(x[StreamOf(s)], s, h, PosOf(k[StreamOf(s)], s))

LEMMA SeesFromSelf ==
  ASSUME NEW k, CacheFits(k, SizeSwa), NEW s, NEW h
  PROVE  SeesFrom(k, k, s, h)
BY DEF SeesFrom, Sees

LEMMA SeesFromTwice ==
  ASSUME NEW x, NEW y, NEW k, NEW s, NEW h, SeesFrom(x, y, s, h), SeesFrom(y, k, s, h)
  PROVE  SeesFrom(x, k, s, h)
BY DEF SeesFrom, Sees

\* A cache whose cells have only lost sequences has only lost positions.
LEMMA PosWithinWindow ==
  ASSUME NEW size \in Nat \ {0}, NEW x, CacheFits(x, size), NEW c, CacheFits(c, size),
         Within(x, c, Window, size), NEW s \in Seqs
  PROVE  PosOf(x[StreamOf(s)], s) \subseteq PosOf(c[StreamOf(s)], s)
<1> DEFINE t == StreamOf(s)
<1>1. t \in Streams /\ Window # 0
  BY StreamType, SizesAssumption
<1>2. Cells(x[t]) = 0..size - 1 /\ Cells(c[t]) = 0..size - 1
  BY <1>1, CellsAre DEF CacheFits, StreamOK
<1>3. \A i \in 0..size - 1 : Less(x[t].cell[i], c[t].cell[i])
  BY <1>1 DEF Within
<1> HIDE DEF t
<1>4. ASSUME NEW p \in PosOf(x[t], s) PROVE p \in PosOf(c[t], s)
  <2>1. PICK i \in 0..size - 1 : s \in x[t].cell[i].seqs /\ x[t].cell[i].pos = p
    BY <1>2 DEF PosOf
  <2>2. s \in c[t].cell[i].seqs /\ c[t].cell[i].pos = p
    BY <1>3, <2>1 DEF Less
  <2> QED
    BY <1>2, <2>2 DEF PosOf
<1> QED
  BY <1>4 DEF t

\* The ubatches of a batch come before h if the batch does.
LEMMA SplitBefore ==
  ASSUME NEW tokens \in Seq(Numbers), NEW us \in Seq(Seq(Token)), SplitsInto(tokens, us),
         NEW s, NEW h, \A p \in PosIn(tokens, s) : p < h
  PROVE  ComesBefore(us, s, h)
<1> SUFFICES ASSUME NEW m \in DOMAIN us, NEW p \in PosIn(us[m], s) PROVE p < h
  BY DEF ComesBefore
<1>1. us[m] \in Seq(Token)
  BY ElementOfSeq, LenProperties
<1>2. PICK x \in ToSet(us[m]) : s \in ToSet(x.seqs) /\ p = x.pos
  BY <1>1, PosInIs
<1>3. x \in ToSet(tokens)
  BY <1>2 DEF SplitsInto
<1>4. p \in PosIn(tokens, s)
  BY <1>2, <1>3, PosInIs
<1> QED
  BY <1>4

\* What a search for room in both caches has found, for s and a token at h.
FoundSees(r, k, s, h) ==
  /\ SeesFrom(r.s.cache, k, s, h)
  /\ r.ok => /\ r.s.ok /\ r.us \in Seq(Seq(Token)) /\ ComesBefore(r.us, s, h)
             /\ \E x : /\ SeesFrom(x, k, s, h)
                       /\ \E q \in Trials(SizeSwa) : TriedFor(q, r.s, x, r.us, SizeSwa)

\* What s has before h stays before h.
LEMMA BeforeFrom ==
  ASSUME NEW x, NEW k, NEW s, NEW h, SeesFrom(x, k, s, h), Before(k[StreamOf(s)], s, h)
  PROVE  Before(x[StreamOf(s)], s, h)
BY DEF SeesFrom, Before

\* One split.
LEMMA TrySees ==
  ASSUME NEW b, CacheFits(b, SizeBase), NEW k, CacheFits(k, SizeSwa), NEW us \in Seq(Seq(Token)),
         NEW s \in Seqs, NEW h \in Int, Before(k[StreamOf(s)], s, h), ComesBefore(us, s, h)
  PROVE  FoundSees(Try(b, k, us), k, s, h)
<1> DEFINE pb == Prepare(b, us, 0)
           ps == Prepare(k, us, Window)
           r == Try(b, k, us)
<1>1. r = IF pb.ok THEN [ok |-> ps.ok, us |-> us, b |-> pb, s |-> ps]
          ELSE [ok |-> FALSE, us |-> us, b |-> pb, s |-> NotAsked(k)]
  BY Zenon DEF Try
<1>2. SizeSwa \in Nat \ {0} /\ Found(r, b, k)
  BY Sizes, TryIs
<1>3. PICK q \in Trials(SizeSwa) : TriedFor(q, ps, k, us, SizeSwa)
  BY <1>2, PrepareTried
<1> HIDE DEF pb, ps, r
<1>4. SeesFrom(k, k, s, h)
  BY SeesFromSelf
<1>5. CASE pb.ok
  <2>1. r = [ok |-> ps.ok, us |-> us, b |-> pb, s |-> ps]
    BY <1>1, <1>5
  <2>2. r.ok = ps.ok /\ r.us = us /\ r.s = ps
    BY <2>1
  <2>3. Sees(ps.cache[StreamOf(s)], s, h, PosOf(k[StreamOf(s)], s))
    BY <1>2, <1>3, PreparedSees
  <2>4. CacheFits(ps.cache, SizeSwa) /\ Within(ps.cache, k, Window, SizeSwa)
    BY <1>2, <2>2 DEF Found
  <2>5. SeesFrom(ps.cache, k, s, h)
    BY <1>2, <2>3, <2>4, PosWithinWindow DEF SeesFrom
  <2>6. FoundSees(r, k, s, h)
    BY <1>3, <1>4, <2>2, <2>5 DEF FoundSees
  <2> QED
    BY <2>6 DEF r
<1>6. CASE ~pb.ok
  <2>1. r = [ok |-> FALSE, us |-> us, b |-> pb, s |-> NotAsked(k)]
    BY <1>1, <1>6
  <2>2. ~r.ok /\ r.s.cache = k
    BY <2>1 DEF NotAsked
  <2>3. FoundSees(r, k, s, h)
    BY <1>4, <2>2 DEF FoundSees
  <2> QED
    BY <2>3 DEF r
<1> QED
  BY <1>5, <1>6

\* A search in a cache that x has become.
LEMMA FoundSeesFrom ==
  ASSUME NEW r, NEW x, NEW k, NEW s, NEW h, FoundSees(r, x, s, h), SeesFrom(x, k, s, h)
  PROVE  FoundSees(r, k, s, h)
<1>1. SeesFrom(r.s.cache, k, s, h)
  BY SeesFromTwice DEF FoundSees
<1>2. ASSUME r.ok
      PROVE  \E y : /\ SeesFrom(y, k, s, h)
                    /\ \E q \in Trials(SizeSwa) : TriedFor(q, r.s, y, r.us, SizeSwa)
  <2>1. PICK y : /\ SeesFrom(y, x, s, h)
                 /\ \E q \in Trials(SizeSwa) : TriedFor(q, r.s, y, r.us, SizeSwa)
    BY <1>2 DEF FoundSees
  <2>2. SeesFrom(y, k, s, h)
    BY <2>1, SeesFromTwice
  <2> QED
    BY <2>1, <2>2
<1> QED
  BY <1>1, <1>2 DEF FoundSees

\* init_batch tries one split, and then the other.
LEMMA InitBatchSees ==
  ASSUME CacheFits(base, SizeBase), CacheFits(swa, SizeSwa), NEW tokens \in Seq(Numbers),
         NEW s \in Seqs, NEW h \in Int, Before(swa[StreamOf(s)], s, h),
         \A p \in PosIn(tokens, s) : p < h
  PROVE  FoundSees(InitBatch(tokens), swa, s, h)
<1> DEFINE simple == IF unified THEN Try(base, swa, SplitSimple(tokens))
                     ELSE [ok |-> FALSE, us |-> <<>>, b |-> NotAsked(base), s |-> NotAsked(swa)]
           again == Try(simple.b.cache, simple.s.cache, SplitEqual(tokens))
<1>1. InitBatch(tokens) = IF simple.ok THEN simple ELSE again
  BY Zenon DEF InitBatch
<1>2. FoundSees(simple, swa, s, h) /\ CacheFits(simple.b.cache, SizeBase)
  <2>1. CASE unified
    <3>1. tokens \in Seq(Token)
      BY <2>1, NumbersAre
    <3>2. SplitSimple(tokens) \in Seq(Seq(Token)) /\ SplitsInto(tokens, SplitSimple(tokens))
      BY <3>1, SplitSimpleIs, SplitSimpleHas
    <3>3. ComesBefore(SplitSimple(tokens), s, h)
      BY <3>2, SplitBefore
    <3>4. simple = Try(base, swa, SplitSimple(tokens))
      BY <2>1
    <3> HIDE DEF simple
    <3>5. FoundSees(simple, swa, s, h) /\ Found(simple, base, swa)
      BY <3>2, <3>3, <3>4, TrySees, TryIs
    <3> QED
      BY <3>5 DEF Found
  <2>2. CASE ~unified
    <3>1. ~simple.ok /\ simple.b.cache = base /\ simple.s.cache = swa
      BY <2>2 DEF NotAsked
    <3> HIDE DEF simple
    <3> QED
      BY <3>1, SeesFromSelf DEF FoundSees
  <2> QED
    BY <2>1, <2>2
<1> HIDE DEF simple
<1>3. SeesFrom(simple.s.cache, swa, s, h) /\ CacheFits(simple.s.cache, SizeSwa)
  BY <1>2 DEF FoundSees, SeesFrom
<1>4. SplitEqual(tokens) \in Seq(Seq(Token)) /\ ComesBefore(SplitEqual(tokens), s, h)
  <2>1. SplitEqual(tokens) \in Seq(Seq(Token))
    BY SplitEqualHas
  <2>2. CASE unified \/ ~IsCoupled(tokens)
    BY <2>1, <2>2, SplitEqualHas, SplitBefore
  <2>3. CASE ~(unified \/ ~IsCoupled(tokens))
    <3>1. SplitEqual(tokens) = <<>>
      BY <2>3 DEF SplitEqual
    <3> QED
      BY <2>1, <3>1 DEF ComesBefore
  <2> QED
    BY <2>1, <2>2, <2>3
<1>5. Before(simple.s.cache[StreamOf(s)], s, h)
  BY <1>3, BeforeFrom
<1>6. FoundSees(again, simple.s.cache, s, h)
  BY <1>2, <1>3, <1>4, <1>5, TrySees
<1> HIDE DEF again
<1>7. FoundSees(again, swa, s, h)
  BY <1>3, <1>6, FoundSeesFrom
<1> QED
  BY <1>1, <1>2, <1>7

\* What was found goes into the window cache as far as the n-th ubatch.
LEMMA FoundWindow ==
  ASSUME NEW k, NEW r, NEW s \in Seqs, NEW h \in Int, FoundSees(r, k, s, h), r.ok,
         NEW n \in 0..Len(r.us), Before(k[StreamOf(s)], s, h)
  PROVE  /\ CacheFits(Processed(r.s, r.us, n), SizeSwa)
         /\ Sees(Processed(r.s, r.us, n)[StreamOf(s)], s, h,
                 PosOf(k[StreamOf(s)], s) \cup PosUpTo(r.us, n, s))
<1>1. r.s.ok /\ r.us \in Seq(Seq(Token)) /\ ComesBefore(r.us, s, h) /\ SizeSwa \in Nat \ {0}
  BY Sizes DEF FoundSees
<1>2. PICK x : /\ SeesFrom(x, k, s, h)
               /\ \E q \in Trials(SizeSwa) : TriedFor(q, r.s, x, r.us, SizeSwa)
  BY DEF FoundSees
<1>3. PICK q \in Trials(SizeSwa) : TriedFor(q, r.s, x, r.us, SizeSwa)
  BY <1>2
<1>4. Before(x[StreamOf(s)], s, h)
  BY <1>2, BeforeFrom
<1>5. Sees(Processed(r.s, r.us, n)[StreamOf(s)], s, h,
           PosOf(x[StreamOf(s)], s) \cup PosUpTo(r.us, n, s))
  BY <1>1, <1>3, <1>4, ProcessedSees
<1>6. CacheFits(Processed(r.s, r.us, n), SizeSwa)
  BY <1>1, <1>3, ProcessedMixed
<1>7. Sees(x[StreamOf(s)], s, h, PosOf(k[StreamOf(s)], s))
  BY <1>2 DEF SeesFrom
<1> QED
  BY <1>5, <1>6, <1>7 DEF Sees

-----------------------------------------------------------------------------
(* The window after a decode. *)

\* What a token looks at, one further behind does, or has left behind.
LEMMA MaskedLater ==
  ASSUME NEW p \in Int, NEW m \in Int, NEW h \in Int, m <= h, ~IsMasked(p, h, Window)
  PROVE  ~IsMasked(p, m, Window)
<1>1. Window \in Nat
  BY SizesAssumption
<1> QED
  BY <1>1 DEF IsMasked

\* Where s goes on lies behind all that it has.
LEMMA NextIs ==
  ASSUME CacheFits(base, SizeBase), NEW s \in Seqs
  PROVE  /\ BaseOf(s) \in SUBSET (0..MaxPos) /\ NextOf(s) \in 0..MaxPos + 1
         /\ \A p \in BaseOf(s) : p < NextOf(s)
<1> DEFINE B == PosOf(base[StreamOf(s)], s)
           m == PosMax(base[StreamOf(s)], s)
<1>1. /\ B \in SUBSET (0..MaxPos) /\ m \in Int
      /\ IF B = {} THEN m = -1 ELSE m \in B /\ \A p \in B : p <= m
  BY Sizes, PosOfIs
<1>2. MaxPos \in Nat /\ BaseOf(s) = B /\ NextOf(s) = m + 1
  BY SizesAssumption DEF BaseOf, NextOf
<1> HIDE DEF B, m
<1>3. m + 1 \in 0..MaxPos + 1 /\ \A p \in B : p < m + 1
  BY <1>1, <1>2
<1> QED
  BY <1>1, <1>2, <1>3

\* ... and behind the batch it lies behind that, too.
LEMMA BehindIs ==
  ASSUME CacheFits(base, SizeBase), NEW s \in Seqs, Coming(s) \in SUBSET (0..MaxPos)
  PROVE  /\ Behind(s) \in Nat /\ NextOf(s) <= Behind(s)
         /\ \A p \in Coming(s) : p < Behind(s)
         /\ Behind(s) = NextOf(s) \/ \E p \in Coming(s) : Behind(s) = p + 1
<1> DEFINE S == {NextOf(s)} \cup {p + 1 : p \in Coming(s)}
<1>1. NextOf(s) \in 0..MaxPos + 1 /\ MaxPos \in Nat
  BY NextIs, SizesAssumption
<1>2. S \in SUBSET (0..MaxPos + 1) /\ S # {} /\ NextOf(s) \in S /\ \A p \in Coming(s) : p + 1 \in S
  BY <1>1
<1>3. Behind(s) = Max(S) /\ \A p \in S : p = NextOf(s) \/ \E x \in Coming(s) : p = x + 1
  BY DEF Behind
<1> HIDE DEF S
<1>4. Max(S) \in S /\ \A p \in S : p <= Max(S)
  <2>1. MaxPos + 1 \in Nat
    BY <1>1
  <2> QED
    BY <1>2, <2>1, GreatestIs
<1>5. Max(S) \in 0..MaxPos + 1
  BY <1>2, <1>4
<1>6. \A p \in Coming(s) : p \in Int /\ p + 1 <= Max(S)
  BY <1>2, <1>4
<1> QED
  BY <1>1, <1>2, <1>3, <1>4, <1>5, <1>6

\* The positions of s in a batch.
LEMMA PosInBatch ==
  ASSUME NEW tokens \in Seq(Numbers), NEW s
  PROVE  PosIn(tokens, s) \in SUBSET (0..MaxPos)
<1> SUFFICES ASSUME NEW p \in PosIn(tokens, s) PROVE p \in 0..MaxPos
  OBVIOUS
<1>1. PICK i \in DOMAIN tokens : p = tokens[i].pos
  BY DEF PosIn
<1>2. tokens[i] \in Numbers
  BY ElementOfSeq, LenProperties
<1> QED
  BY <1>1, <1>2 DEF Numbers

\* What s has in the window cache lies before where it goes on.
LEMMA WindowBefore ==
  ASSUME CacheInv, NEW s \in Seqs \ entangled, NEW h \in Int, NextOf(s) <= h
  PROVE  Before(swa[StreamOf(s)], s, h)
<1>1. SwaOf(s) \subseteq BaseOf(s)
  BY CacheInvSwa DEF SwaWithinBase
<1>2. CacheFits(base, SizeBase)
  BY GoodFits DEF CacheInv
<1>3. MaxPos \in Nat /\ NextOf(s) \in 0..MaxPos + 1 /\ BaseOf(s) \in SUBSET (0..MaxPos)
      /\ \A p \in BaseOf(s) : p < NextOf(s)
  BY <1>2, NextIs, SizesAssumption
<1>4. \A p \in BaseOf(s) : p < h
  BY <1>3
<1>5. SwaOf(s) = PosOf(swa[StreamOf(s)], s)
  BY DEF SwaOf
<1> QED
  BY <1>1, <1>4, <1>5 DEF Before

\* The positions of s in both caches after a decode: those in k that a token at h looks
\* at are in w.
Shows(w, k, s, h) ==
  \A p \in PosOf(k[StreamOf(s)], s) : ~IsMasked(p, h, Window) => p \in PosOf(w[StreamOf(s)], s)

\* However a decode ends, what a token behind the batch looks at is in the window.
LEMMA DecodeSees ==
  ASSUME CacheInv, NEW lists \in Batches, Decode(lists), NEW s \in Seqs \ entangled, InWindow(s)
  PROVE  Shows(swa', base', s, Behind(s))
<1>1. CacheFits(base, SizeBase) /\ CacheFits(swa, SizeSwa)
  BY GoodFits DEF CacheInv
<1>2. PICK tokens \in {Numbered(lists)} :
        /\ \A i \in DOMAIN tokens : tokens[i].pos \in 0..MaxPos
        /\ \/ Invalid(tokens)
           \/ \E init \in {InitBatch(tokens)} :
                NoSlot(tokens, init) \/ Success(tokens, init) \/ Aborted(tokens, init)
  BY DEF Decode
<1>3. tokens \in Seq(Numbers)
  BY <1>1, <1>2, NumberedHas
<1> DEFINE init == InitBatch(tokens)
           h == Behind(s)
           t == StreamOf(s)
           U(n) == PosUpTo(init.us, n, s)
<1>4. Invalid(tokens) \/ NoSlot(tokens, init) \/ Success(tokens, init) \/ Aborted(tokens, init)
  BY <1>2
<1>5. outcome'.batch = tokens
  <2>1. \A ret : Returned(tokens, ret) => outcome'.batch = tokens
    BY DEF Returned
  <2> QED
    BY <1>4, <2>1 DEF Invalid, NoSlot, Success, Aborted
<1>6. Coming(s) = PosIn(tokens, s) /\ Coming(s) \in SUBSET (0..MaxPos)
  BY <1>3, <1>5, PosInBatch DEF Coming
<1>7. h \in Int /\ NextOf(s) <= h /\ \A p \in PosIn(tokens, s) : p < h
  BY <1>1, <1>6, BehindIs
<1>8. BaseOf(s) \in SUBSET (0..MaxPos) /\ NextOf(s) \in 0..MaxPos + 1 /\ MaxPos \in Nat
  BY <1>1, NextIs, SizesAssumption
<1>9. Before(swa[t], s, h)
  BY <1>7, WindowBefore
<1>10. Found(init, base, swa) /\ FoundSees(init, swa, s, h)
  BY <1>1, <1>3, <1>7, <1>9, InitBatchIs, InitBatchSees
<1> HIDE DEF init, h
<1>11. \A p \in BaseOf(s) : ~IsMasked(p, h, Window) => p \in PosOf(swa[t], s)
  <2> SUFFICES ASSUME NEW p \in BaseOf(s), ~IsMasked(p, h, Window) PROVE p \in PosOf(swa[t], s)
    OBVIOUS
  <2>1. p \in Int /\ NextOf(s) \in Int
    BY <1>8
  <2>2. ~IsMasked(p, NextOf(s), Window)
    BY <1>7, <2>1, MaskedLater
  <2>3. p \in SwaOf(s)
    BY <2>2 DEF InWindow
  <2> QED
    BY <2>3 DEF SwaOf
<1>12. CASE Invalid(tokens)
  <2>1. base' = base /\ swa' = swa
    BY <1>12 DEF Invalid
  <2> QED
    BY <1>11, <2>1 DEF Shows, BaseOf, h
<1>13. CASE NoSlot(tokens, init)
  <2>1. base' = init.b.cache /\ swa' = init.s.cache
    BY <1>13 DEF NoSlot
  <2>2. CacheFits(init.b.cache, SizeBase) /\ Within(init.b.cache, base, 0, SizeBase)
    BY <1>10 DEF Found
  <2>3. PosOf(base'[t], s) = BaseOf(s)
    BY <1>1, <2>1, <2>2, Sizes, PosWithin DEF BaseOf
  <2>4. Sees(swa'[t], s, h, PosOf(swa[t], s))
    BY <1>10, <2>1 DEF FoundSees, SeesFrom
  <2> QED
    BY <1>11, <2>3, <2>4 DEF Shows, Sees, h
<1>14. ASSUME init.ok, NEW n \in 0..Len(init.us)
       PROVE  /\ Shows(Processed(init.s, init.us, n), Processed(init.b, init.us, n), s, h)
              /\ CacheFits(Processed(init.s, init.us, n), SizeSwa)
              /\ CacheFits(Processed(init.b, init.us, n), SizeBase)
  <2> DEFINE w == Processed(init.s, init.us, n)
             k == Processed(init.b, init.us, n)
  <2>1. CacheFits(k, SizeBase) /\ PosOf(k[t], s) = BaseOf(s) \cup U(n)
    BY <1>1, <1>10, <1>14, FoundPos
  <2>2. CacheFits(w, SizeSwa) /\ Sees(w[t], s, h, PosOf(swa[t], s) \cup U(n))
    BY <1>7, <1>9, <1>10, <1>14, FoundWindow
  <2> HIDE DEF w, k, U
  <2>3. Shows(w, k, s, h)
    BY <1>11, <2>1, <2>2 DEF Shows, Sees
  <2> QED
    BY <2>1, <2>2, <2>3 DEF w, k
<1>15. CASE Success(tokens, init)
  <2>1. /\ base' = Processed(init.b, init.us, Len(init.us)) /\ init.ok
        /\ swa' = Processed(init.s, init.us, Len(init.us))
    BY <1>15 DEF Success
  <2>2. Len(init.us) \in 0..Len(init.us)
    <3>1. init.us \in Seq(Seq(Token))
      BY <1>10, <2>1 DEF Found
    <3>2. Len(init.us) \in Nat
      BY <3>1, LenProperties
    <3> QED
      BY <3>2
  <2> QED
    BY <1>14, <2>1, <2>2 DEF h
<1>16. CASE Aborted(tokens, init)
  <2>1. init.ok
    BY <1>16 DEF Aborted
  <2>2. PICK n \in 1..Len(init.us) :
          /\ base' = RolledBack(Processed(init.b, init.us, n), init.us[n])
          /\ swa' = RolledBack(Processed(init.s, init.us, n), init.us[n])
    BY <1>16 DEF Aborted
  <2> DEFINE w == Processed(init.s, init.us, n)
             k == Processed(init.b, init.us, n)
             u == init.us[n]
             In(p) == \A i \in DOMAIN u : u[i].seqs[1] = s => ~(u[i].pos <= p)
  <2>3. n \in 0..Len(init.us)
    OBVIOUS
  <2>4. Shows(w, k, s, h) /\ CacheFits(w, SizeSwa) /\ CacheFits(k, SizeBase)
    BY <1>14, <2>1, <2>3
  <2>5. base' = RolledBack(k, u) /\ swa' = RolledBack(w, u)
    BY <2>2
  <2> HIDE DEF w, k, u
  <2>6. \A p : p \in PosOf(base'[t], s) <=> p \in PosOf(k[t], s) /\ In(p)
    BY <2>4, <2>5, Sizes, PosRolledBack
  <2>7. \A p : p \in PosOf(swa'[t], s) <=> p \in PosOf(w[t], s) /\ In(p)
    BY <2>4, <2>5, Sizes, PosRolledBack
  <2> HIDE DEF In
  <2> QED
    BY <2>4, <2>6, <2>7 DEF Shows, h
<1> QED
  BY <1>4, <1>12, <1>13, <1>15, <1>16

-----------------------------------------------------------------------------
(* The window has no gap. *)

\* Of the positions B the stream k has all behind the first one that it has.
Closed(k, s, B) == \A p \in B, x \in PosOf(k, s) : x <= p => p \in PosOf(k, s)

\* Each ubatch goes on behind the positions B and the ubatches before it.
ComesInTurn(B, us, s) ==
  \A j \in DOMAIN us : \A p \in B \cup PosUpTo(us, j - 1, s), x \in PosIn(us[j], s) : p < x

\* The positions of s in a ubatch.
LEMMA PosInUbatch ==
  ASSUME NEW u \in Seq(Token), NEW s
  PROVE  PosIn(u, s) \in SUBSET Int
<1> SUFFICES ASSUME NEW p \in PosIn(u, s) PROVE p \in Int
  OBVIOUS
<1>1. PICK i \in DOMAIN u : p = u[i].pos
  BY DEF PosIn
<1>2. u[i] \in Token
  BY ElementOfSeq, LenProperties
<1> QED
  BY <1>1, <1>2, SizesAssumption DEF Token

\* A valid batch that shares no token is split in turn.
LEMMA InTurn ==
  ASSUME CacheFits(base, SizeBase), NEW tokens \in Seq(Token), IsValid(tokens), ~IsCoupled(tokens),
         NEW us \in Seq(Seq(Token)), SplitsInto(tokens, us), InOrder(us), NEW s \in Seqs, InStep(s)
  PROVE  ComesInTurn(BaseOf(s), us, s)
<1>1. DOMAIN us = 1..Len(us) /\ Len(us) \in Nat /\ \A m \in DOMAIN us : us[m] \in Seq(Token)
  BY LenProperties, ElementOfSeq
<1>2. \A m \in DOMAIN us : \A p \in PosIn(us[m], s) :
        \E x \in ToSet(us[m]) : x \in ToSet(tokens) /\ s \in ToSet(x.seqs) /\ p = x.pos
  BY <1>1, PosInIs DEF SplitsInto
<1>3. \A x \in ToSet(tokens) : s \in ToSet(x.seqs) => x.seqs = <<s>>
  <2> SUFFICES ASSUME NEW x \in ToSet(tokens), s \in ToSet(x.seqs) PROVE x.seqs = <<s>>
    OBVIOUS
  <2>1. PICK i \in DOMAIN tokens : x = tokens[i]
    BY DEF ToSet
  <2>2. x.seqs \in Lists
    BY <2>1 DEF Token
  <2>3. Len(x.seqs) = 1
    BY <2>1, <2>2, ListIs DEF IsCoupled
  <2> QED
    BY <2>2, <2>3, ListIs
<1>4. \A p : (\E x \in ToSet(tokens) : s \in ToSet(x.seqs) /\ p = x.pos) => p \in PosIn(tokens, s)
  BY PosInIs
<1> SUFFICES ASSUME NEW j \in DOMAIN us, NEW p \in BaseOf(s) \cup PosUpTo(us, j - 1, s),
                    NEW x \in PosIn(us[j], s)
             PROVE  p < x
  BY DEF ComesInTurn
<1>5. PICK y \in ToSet(us[j]) : y \in ToSet(tokens) /\ s \in ToSet(y.seqs) /\ x = y.pos
  BY <1>2
<1>6. CASE p \in BaseOf(s)
  <2>1. x \in PosIn(tokens, s)
    BY <1>4, <1>5
  <2> QED
    BY <1>6, <2>1, ComesAfter
<1>7. CASE p \in PosUpTo(us, j - 1, s)
  <2>1. PICK m \in 1..j - 1 : p \in PosIn(us[m], s)
    BY <1>7 DEF PosUpTo
  <2>2. m \in DOMAIN us /\ m < j
    BY <1>1, <2>1
  <2>3. PICK z \in ToSet(us[m]) : z \in ToSet(tokens) /\ s \in ToSet(z.seqs) /\ p = z.pos
    BY <1>2, <2>1, <2>2
  <2>4. z.seqs = y.seqs
    BY <1>3, <1>5, <2>3
  <2> QED
    BY <1>5, <2>2, <2>3, <2>4 DEF InOrder
<1> QED
  BY <1>6, <1>7

\* After j ubatches of a trial, in turn behind B.
ClosedOnTrial(q, us, s, B, j) ==
  /\ Closed(OnTrial(q, j, s), s, B \cup PosUpTo(us, j, s))
  /\ PosOf(OnTrial(q, j, s), s) \subseteq B \cup PosUpTo(us, j, s)

\* A trial leaves no gap.
LEMMA TrialClosed ==
  ASSUME NEW size \in Nat \ {0}, NEW c, NEW us \in Seq(Seq(Token)), NEW q \in Trials(size),
         Tried(q, c, us, Window, size), NEW s \in Seqs, NEW B \in SUBSET Int,
         Closed(c[StreamOf(s)], s, B), PosOf(c[StreamOf(s)], s) \subseteq B, ComesInTurn(B, us, s)
  PROVE  \A j \in 0..Len(q.slots) : ClosedOnTrial(q, us, s, B, j)
<1> DEFINE L == Len(q.slots)
           S == {j \in 0..L : ClosedOnTrial(q, us, s, B, j)}
<1>1. /\ L \in Nat /\ L <= Len(us) /\ Len(us) \in Nat /\ DOMAIN us = 1..Len(us)
      /\ \A j \in 0..L : CacheFits(q.caches[j + 1], size)
  BY TrialFits, LenProperties
<1> HIDE DEF L
<1>2. 0 \in S
  <2>1. OnTrial(q, 0, s) = c[StreamOf(s)]
    BY DEF OnTrial, Tried
  <2>2. PosUpTo(us, 0, s) = {} /\ 0 \in 0..L
    BY <1>1 DEF PosUpTo
  <2>3. ClosedOnTrial(q, us, s, B, 0)
    BY <2>1, <2>2 DEF ClosedOnTrial
  <2> QED
    BY <2>2, <2>3
<1>3. ASSUME NEW j \in 1..L, j - 1 \in S PROVE j \in S
  <2> DEFINE k == OnTrial(q, j - 1, s)
             r == OnTrial(q, j, s)
             P == PosIn(us[j], s)
             A == B \cup PosUpTo(us, j - 1, s)
  <2>1. j - 1 \in 0..L /\ j \in 0..L /\ j \in DOMAIN us /\ j \in Nat \ {0}
    BY <1>1
  <2>2. Closed(k, s, A) /\ PosOf(k, s) \subseteq A
    BY <1>3 DEF ClosedOnTrial
  <2>3. Steps(k, r, s, P)
    BY TrialSteps DEF L
  <2>4. \A p \in A, x \in P : p < x
    BY <2>1 DEF ComesInTurn
  <2>5. B \cup PosUpTo(us, j, s) = A \cup P
    <3>1. PosUpTo(us, j, s) = PosUpTo(us, j - 1, s) \cup P
      BY <2>1, PosUpToNext
    <3> QED
      BY <3>1
  <2>6. PosOf(r, s) \in SUBSET Int
    <3>1. CacheFits(q.caches[j + 1], size)
      BY <1>1, <2>1
    <3>2. PosOf(q.caches[j + 1][StreamOf(s)], s) \in SUBSET (0..MaxPos)
      BY <3>1, PosOfIs
    <3> QED
      BY <3>2 DEF OnTrial
  <2> HIDE DEF k, r, P, A
  <2>7. PosOf(r, s) \subseteq PosOf(k, s) \cup P
    BY <2>3 DEF Steps
  <2>8. \A p \in PosOf(k, s) \cup P : p \in PosOf(r, s) \/ \A x \in PosOf(r, s) : p < x
    BY <2>3 DEF Steps, LosesFirst
  <2>9. P \in SUBSET Int
    <3>1. us[j] \in Seq(Token)
      BY <2>1, ElementOfSeq
    <3> QED
      BY <3>1, PosInUbatch DEF P
  <2>10. PosOf(k, s) \in SUBSET Int /\ A \in SUBSET Int
    <3>1. CacheFits(q.caches[j - 1 + 1], size)
      BY <1>1, <2>1
    <3>2. PosOf(q.caches[j - 1 + 1][StreamOf(s)], s) \in SUBSET (0..MaxPos)
      BY <3>1, PosOfIs
    <3>3. PosUpTo(us, j - 1, s) \in SUBSET Int
      <4> SUFFICES ASSUME NEW x \in PosUpTo(us, j - 1, s) PROVE x \in Int
        OBVIOUS
      <4>1. PICK m \in 1..j - 1 : x \in PosIn(us[m], s)
        BY DEF PosUpTo
      <4>2. us[m] \in Seq(Token)
        <5>1. m \in DOMAIN us
          BY <1>1, <2>1, <4>1
        <5> QED
          BY <5>1, ElementOfSeq
      <4> QED
        BY <4>1, <4>2, PosInUbatch
    <3> QED
      <4>1. 0..MaxPos \subseteq Int /\ k = q.caches[j - 1 + 1][StreamOf(s)]
        BY SizesAssumption DEF OnTrial, k
      <4> QED
        BY <3>2, <3>3, <4>1 DEF A
  <2>11. ASSUME NEW p \in A \cup P, NEW x \in PosOf(r, s), x <= p, p \notin PosOf(r, s) PROVE FALSE
    <3>1. x \in Int /\ p \in Int
      BY <2>6, <2>9, <2>10
    <3>2. p \notin PosOf(k, s) \cup P
      BY <2>8, <2>11, <3>1
    <3>3. p \in A /\ (x \in PosOf(k, s) \/ x \in P)
      BY <2>7, <3>2
    <3>4. x \notin PosOf(k, s)
      BY <2>2, <2>11, <3>2, <3>3 DEF Closed
    <3>5. p < x
      BY <2>4, <3>3, <3>4
    <3> QED
      BY <2>11, <3>1, <3>5
  <2>12. Closed(r, s, A \cup P)
    BY <2>11 DEF Closed
  <2>13. PosOf(r, s) \subseteq A \cup P
    BY <2>2, <2>7
  <2>14. ClosedOnTrial(q, us, s, B, j)
    BY <2>5, <2>12, <2>13 DEF ClosedOnTrial, r
  <2> QED
    BY <2>1, <2>14
<1> HIDE DEF S
<1>4. \A j \in 0..L : j \in S
  BY <1>1, <1>2, <1>3, UpTo
<1> QED
  BY <1>4 DEF S, L

-----------------------------------------------------------------------------
(* A decode keeps the window. *)

\* A window cache that is not asked stays as it is, one that has room goes through a trial.
AskedOnce(r, k, us) ==
  /\ r.ok => r.s.ok /\ r.us = us /\ \E q \in Trials(SizeSwa) : TriedFor(q, r.s, k, us, SizeSwa)
  /\ ~r.b.ok => r.s.cache = k /\ ~r.ok

LEMMA TryAsks ==
  ASSUME NEW b, NEW k, CacheFits(k, SizeSwa), NEW us \in Seq(Seq(Token))
  PROVE  AskedOnce(Try(b, k, us), k, us)
<1> DEFINE pb == Prepare(b, us, 0)
           ps == Prepare(k, us, Window)
           r == Try(b, k, us)
<1>1. r = IF pb.ok THEN [ok |-> ps.ok, us |-> us, b |-> pb, s |-> ps]
          ELSE [ok |-> FALSE, us |-> us, b |-> pb, s |-> NotAsked(k)]
  BY Zenon DEF Try
<1>2. PICK q \in Trials(SizeSwa) : TriedFor(q, ps, k, us, SizeSwa)
  BY Sizes, PrepareTried
<1> HIDE DEF pb, ps, r
<1>3. CASE pb.ok
  <2>1. r = [ok |-> ps.ok, us |-> us, b |-> pb, s |-> ps]
    BY <1>1, <1>3
  <2>2. r.ok = ps.ok /\ r.us = us /\ r.s = ps /\ r.b = pb
    BY <2>1
  <2>3. AskedOnce(r, k, us)
    BY <1>2, <1>3, <2>2 DEF AskedOnce
  <2> QED
    BY <2>3 DEF r
<1>4. CASE ~pb.ok
  <2>1. r = [ok |-> FALSE, us |-> us, b |-> pb, s |-> NotAsked(k)]
    BY <1>1, <1>4
  <2>2. ~r.ok /\ r.s.cache = k
    BY <2>1 DEF NotAsked
  <2>3. AskedOnce(r, k, us)
    BY <2>2 DEF AskedOnce
  <2> QED
    BY <2>3 DEF r
<1> QED
  BY <1>3, <1>4

\* The simple split did not fit into the window cache alone.
SimpleTooMuch(tokens) ==
  unified /\ \E simple \in {Try(base, swa, SplitSimple(tokens))} : simple.b.ok /\ ~simple.ok

\* Then no split before it has changed the window cache.
LEMMA InitBatchAsks ==
  ASSUME CacheFits(swa, SizeSwa), NEW tokens \in Seq(Numbers), ~SimpleTooMuch(tokens)
  PROVE  \E us : AskedOnce(InitBatch(tokens), swa, us)
<1> DEFINE simple == IF unified THEN Try(base, swa, SplitSimple(tokens))
                     ELSE [ok |-> FALSE, us |-> <<>>, b |-> NotAsked(base), s |-> NotAsked(swa)]
           again == Try(simple.b.cache, simple.s.cache, SplitEqual(tokens))
<1>1. InitBatch(tokens) = IF simple.ok THEN simple ELSE again
  BY Zenon DEF InitBatch
<1>2. /\ simple.ok => AskedOnce(simple, swa, SplitSimple(tokens))
      /\ ~simple.ok => simple.s.cache = swa
  <2>1. CASE unified
    <3>1. SplitSimple(tokens) \in Seq(Seq(Token))
      BY <2>1, NumbersAre, SplitSimpleIs
    <3>2. simple = Try(base, swa, SplitSimple(tokens))
      BY <2>1
    <3>3. simple.b.ok => simple.ok
      BY <2>1, <3>2 DEF SimpleTooMuch
    <3> HIDE DEF simple
    <3>4. AskedOnce(simple, swa, SplitSimple(tokens))
      BY <3>1, <3>2, TryAsks
    <3> QED
      BY <3>3, <3>4 DEF AskedOnce
  <2>2. CASE ~unified
    <3>1. ~simple.ok /\ simple.s.cache = swa
      BY <2>2 DEF NotAsked
    <3> QED
      BY <3>1
  <2> QED
    BY <2>1, <2>2
<1> HIDE DEF simple
<1>3. ~simple.ok => AskedOnce(again, swa, SplitEqual(tokens))
  BY <1>2, SplitEqualHas, TryAsks
<1> QED
  BY <1>1, <1>2, <1>3

\* The caches b and k hold of s what the next token looks at, and without a gap.
WindowKept(k, b, s) ==
  /\ Shows(k, b, s, PosMax(b[StreamOf(s)], s) + 1)
  /\ Closed(k[StreamOf(s)], s, PosOf(b[StreamOf(s)], s))

\* That is what the properties say of the two caches.
LEMMA NoGapIs ==
  ASSUME NEW size \in Nat \ {0}, NEW k, CacheFits(k, size), NEW s \in Seqs, NEW B \in SUBSET Int
  PROVE  Closed(k[StreamOf(s)], s, B)
           <=> (PosOf(k[StreamOf(s)], s) # {}
                  => {p \in B : p >= PosMin(k[StreamOf(s)], s)} \subseteq PosOf(k[StreamOf(s)], s))
<1> DEFINE K == PosOf(k[StreamOf(s)], s)
           m == PosMin(k[StreamOf(s)], s)
<1>1. K \in SUBSET Nat /\ (\A x \in K : x \in Int) /\ \A p \in B : p \in Int
  <2>1. K \in SUBSET (0..MaxPos) /\ MaxPos \in Nat
    BY PosOfIs, SizesAssumption
  <2> HIDE DEF K
  <2> QED
    BY <2>1
<1>2. m = IF K = {} THEN -1 ELSE Min(K)
  BY DEF PosMin
<1> HIDE DEF K, m
<1>3. K # {} => m \in K /\ \A x \in K : m <= x
  BY <1>1, <1>2, LeastIs
<1>4. ASSUME \A p \in B, x \in K : x <= p => p \in K, NEW p \in B, K # {}, p >= m PROVE p \in K
  <2>1. m \in K /\ m \in Int /\ p \in Int
    BY <1>1, <1>3, <1>4
  <2>2. m <= p
    BY <1>4, <2>1
  <2> QED
    BY <1>4, <2>1, <2>2
<1>5. ASSUME K # {} => {p \in B : p >= m} \subseteq K, NEW p \in B, NEW x \in K, x <= p PROVE p \in K
  <2>1. m <= x /\ m \in Int /\ x \in Int /\ p \in Int
    BY <1>1, <1>3
  <2>2. p >= m
    BY <1>5, <2>1
  <2> QED
    BY <1>5, <2>2
<1>6. (\A p \in B, x \in K : x <= p => p \in K) <=> (K # {} => {p \in B : p >= m} \subseteq K)
  BY <1>4, <1>5
<1> QED
  BY <1>6 DEF K, m, Closed

LEMMA WindowBoth ==
  ASSUME CacheFits(base, SizeBase), CacheFits(swa, SizeSwa), NEW s \in Seqs
  PROVE  InWindow(s) /\ NoGap(s) <=> WindowKept(swa, base, s)
<1>1. BaseOf(s) \in SUBSET Int
  BY NextIs, SizesAssumption
<1>2. /\ BaseOf(s) = PosOf(base[StreamOf(s)], s) /\ SwaOf(s) = PosOf(swa[StreamOf(s)], s)
      /\ First(s) = PosMin(swa[StreamOf(s)], s)
      /\ NextOf(s) = PosMax(base[StreamOf(s)], s) + 1
  BY DEF BaseOf, SwaOf, First, NextOf
<1>3. NoGap(s) <=> Closed(swa[StreamOf(s)], s, BaseOf(s))
  <2>1. Closed(swa[StreamOf(s)], s, BaseOf(s))
          <=> (PosOf(swa[StreamOf(s)], s) # {}
                 => {p \in BaseOf(s) : p >= PosMin(swa[StreamOf(s)], s)}
                      \subseteq PosOf(swa[StreamOf(s)], s))
    BY <1>1, Sizes, NoGapIs
  <2> QED
    BY <2>1 DEF NoGap, First, SwaOf
<1>4. InWindow(s) <=> Shows(swa, base, s, NextOf(s))
  BY <1>2 DEF InWindow, Shows
<1> QED
  BY <1>2, <1>3, <1>4 DEF WindowKept

\* Only the positions of s count.
LEMMA WindowSame ==
  ASSUME NEW k, NEW b, NEW s, WindowKept(k, b, s), NEW w, NEW c,
         PosOf(w[StreamOf(s)], s) = PosOf(k[StreamOf(s)], s),
         PosOf(c[StreamOf(s)], s) = PosOf(b[StreamOf(s)], s)
  PROVE  WindowKept(w, c, s)
<1>1. PosMax(c[StreamOf(s)], s) = PosMax(b[StreamOf(s)], s)
  BY DEF PosMax
<1> QED
  BY <1>1 DEF WindowKept, Shows, Closed

\* All ubatches are in: the window has no gap, and no position that the base cache has not.
LEMMA ProcessedClosed ==
  ASSUME NEW us \in Seq(Seq(Token)), NEW q \in Trials(SizeSwa), NEW p, TriedFor(q, p, swa, us, SizeSwa),
         p.ok, NEW s \in Seqs, NEW B \in SUBSET Int, Closed(swa[StreamOf(s)], s, B),
         SwaOf(s) \subseteq B, ComesInTurn(B, us, s)
  PROVE  /\ CacheFits(Processed(p, us, Len(us)), SizeSwa)
         /\ Closed(Processed(p, us, Len(us))[StreamOf(s)], s, B \cup PosUpTo(us, Len(us), s))
         /\ PosOf(Processed(p, us, Len(us))[StreamOf(s)], s) \subseteq B \cup PosUpTo(us, Len(us), s)
<1> DEFINE L == Len(us)
<1>1. Tried(q, swa, us, Window, SizeSwa) /\ Len(q.slots) = L /\ SizeSwa \in Nat \ {0}
  BY Sizes DEF TriedFor
<1>2. L \in Nat /\ L \in 0..Len(q.slots) /\ L \in 0..Len(us)
  <2>1. L \in Nat
    BY LenProperties
  <2> QED
    BY <1>1, <2>1
<1>3. ClosedOnTrial(q, us, s, B, L)
  <2> HIDE DEF L
  <2> QED
    BY <1>1, <1>2, TrialClosed DEF SwaOf
<1>4. PosOf(Processed(p, us, L)[StreamOf(s)], s) = PosOf(OnTrial(q, L, s), s)
  BY <1>1, ProcessedWhole
<1>5. CacheFits(Processed(p, us, L), SizeSwa)
  <2> HIDE DEF L
  <2> QED
    BY <1>1, <1>2, ProcessedMixed
<1> QED
  BY <1>3, <1>4, <1>5 DEF ClosedOnTrial, Closed, L

\* The only ubatch is aborted: what the next token looks at was not purged for it.
LEMMA OnlyOneSees ==
  ASSUME NEW us \in Seq(Seq(Token)), NEW q \in Trials(SizeSwa), NEW p,
         TriedFor(q, p, swa, us, SizeSwa), p.ok, NEW s \in Seqs, NEW h \in Int,
         Before(swa[StreamOf(s)], s, h)
  PROVE  Len(us) = 1 => Sees(Processed(p, us, 1)[StreamOf(s)], s, h, SwaOf(s))
<1> DEFINE L == Len(us)
<1>1. Tried(q, swa, us, Window, SizeSwa) /\ Len(q.slots) = L /\ SizeSwa \in Nat \ {0}
  BY Sizes DEF TriedFor
<1>2. PosOf(Processed(p, us, L)[StreamOf(s)], s) = PosOf(OnTrial(q, L, s), s)
  BY <1>1, ProcessedWhole
<1>3. \A j \in 0..L : Cells(OnTrial(q, j, s)) = 0..SizeSwa - 1
  BY <1>1, TrialFits
<1>4. \A j \in 1..L : Steps(OnTrial(q, j - 1, s), OnTrial(q, j, s), s, PosIn(us[j], s))
  <2>1. \A j \in 1..Len(q.slots) :
          Steps(OnTrial(q, j - 1, s), OnTrial(q, j, s), s, PosIn(us[j], s))
    BY <1>1, TrialSteps
  <2> QED
    BY <1>1, <2>1
<1>5. OnTrial(q, 0, s) = swa[StreamOf(s)]
  BY <1>1 DEF OnTrial, Tried
<1> HIDE DEF L
<1>6. ASSUME L = 1 PROVE Sees(Processed(p, us, 1)[StreamOf(s)], s, h, SwaOf(s))
  <2>1. 0 \in 0..L /\ 1 \in 0..L /\ 1 \in 1..L /\ 1 - 1 = 0
    BY <1>6
  <2>2. Steps(OnTrial(q, 0, s), OnTrial(q, 1, s), s, PosIn(us[1], s))
    <3>1. Steps(OnTrial(q, 1 - 1, s), OnTrial(q, 1, s), s, PosIn(us[1], s))
      BY <1>4, <2>1
    <3> QED
      BY <2>1, <3>1
  <2>3. Cells(OnTrial(q, 0, s)) = 0..SizeSwa - 1 /\ Cells(OnTrial(q, 1, s)) = 0..SizeSwa - 1
    BY <1>3, <2>1
  <2>4. KeepsSeen(OnTrial(q, 0, s), OnTrial(q, 1, s), s, h)
    BY <1>5, <2>2 DEF Steps
  <2>5. Sees(OnTrial(q, 1, s), s, h, PosOf(OnTrial(q, 0, s), s))
    BY <2>3, <2>4, SeesKept
  <2> QED
    BY <1>2, <1>5, <1>6, <2>5 DEF Sees, SwaOf
<1> QED
  BY <1>6 DEF L

\* What is taken out of the n-th ubatch for s, if it shares no token.
LEMMA FailedHere ==
  ASSUME NEW tokens \in Seq(Token), ~IsCoupled(tokens), NEW u \in Seq(Token),
         \A x \in ToSet(u) : x \in ToSet(tokens), NEW s
  PROVE  \A p : (\A i \in DOMAIN u : u[i].seqs[1] = s => ~(u[i].pos <= p))
                  <=> \A x \in PosIn(u, s) : ~(x <= p)
<1>1. \A i \in DOMAIN u : u[i].seqs[1] = s <=> s \in ToSet(u[i].seqs)
  <2> SUFFICES ASSUME NEW i \in DOMAIN u PROVE u[i].seqs[1] = s <=> s \in ToSet(u[i].seqs)
    OBVIOUS
  <2>1. u[i] \in ToSet(tokens)
    BY DEF ToSet
  <2>2. PICK j \in DOMAIN tokens : u[i] = tokens[j]
    BY <2>1 DEF ToSet
  <2>3. u[i].seqs \in Lists
    BY <2>2 DEF Token
  <2>4. Len(u[i].seqs) = 1
    BY <2>2, <2>3, ListIs DEF IsCoupled
  <2>5. ToSet(u[i].seqs) = {u[i].seqs[1]}
    BY <2>3, <2>4, ListIs
  <2> QED
    BY <2>5
<1>2. \A x : x \in PosIn(u, s) <=> \E i \in DOMAIN u : s \in ToSet(u[i].seqs) /\ x = u[i].pos
  BY DEF PosIn
<1> QED
  BY <1>1, <1>2

\* A decode keeps what the next token looks at, unless more was put in for trial than was
\* computed then.
LEMMA DecodeKeeps ==
  ASSUME CacheInv, NEW lists \in Batches, Decode(lists), NEW s \in Seqs \ entangled,
         InStep(s), InWindow(s), NoGap(s), ~MoreOnTrial, ~IsCoupled(outcome'.batch)
  PROVE  WindowKept(swa', base', s)
<1>1. CacheFits(base, SizeBase) /\ CacheFits(swa, SizeSwa) /\ SizeSwa \in Nat \ {0}
  BY GoodFits, Sizes DEF CacheInv
<1>2. PICK tokens \in {Numbered(lists)} :
        /\ \A i \in DOMAIN tokens : tokens[i].pos \in 0..MaxPos
        /\ \/ Invalid(tokens)
           \/ \E init \in {InitBatch(tokens)} :
                NoSlot(tokens, init) \/ Success(tokens, init) \/ Aborted(tokens, init)
  BY DEF Decode
<1>3. tokens \in Seq(Numbers) /\ (~IsCoupled(tokens) => Sorted(tokens))
  BY <1>1, <1>2, NumberedHas
<1> DEFINE init == InitBatch(tokens)
           us == init.us
           L == Len(us)
           t == StreamOf(s)
           B == BaseOf(s)
<1>4. Invalid(tokens) \/ NoSlot(tokens, init) \/ Success(tokens, init) \/ Aborted(tokens, init)
  BY <1>2
<1>5. ASSUME NEW ret, Returned(tokens, ret) PROVE outcome'.batch = tokens /\ outcome'.ret = ret
  BY <1>5 DEF Returned
<1>6. outcome'.batch = tokens
  BY <1>4, <1>5 DEF Invalid, NoSlot, Success, Aborted
<1>7. /\ ~IsCoupled(tokens) /\ Sorted(tokens) /\ ~SimpleTooMuch(tokens)
      /\ ~(init.b.ok /\ ~init.ok) /\ ~(outcome'.ret = 2 /\ L > 1)
  <2>1. ~IsCoupled(tokens) /\ Sorted(tokens)
    BY <1>3, <1>6
  <2>2. ~\/ \E x \in {InitBatch(tokens)} :
              (x.b.ok /\ ~x.ok) \/ (outcome'.ret = 2 /\ Len(x.us) > 1)
         \/ unified /\ \E simple \in {Try(base, swa, SplitSimple(tokens))} :
                         simple.b.ok /\ ~simple.ok
    BY <1>6, Zenon DEF MoreOnTrial
  <2>3. ~SimpleTooMuch(tokens)
    BY <2>2, Zenon DEF SimpleTooMuch
  <2>4. ~(init.b.ok /\ ~init.ok) /\ ~(outcome'.ret = 2 /\ L > 1)
    BY <2>2
  <2> QED
    BY <2>1, <2>3, <2>4
<1>8. Found(init, base, swa)
  BY <1>1, <1>3, InitBatchIs
<1>9. init.ok => tokens \in Seq(Token) /\ SplitsInto(tokens, us) /\ InOrder(us)
  BY <1>3, <1>7, InitBatchHas
<1>10. PICK vs : AskedOnce(init, swa, vs)
  BY <1>1, <1>3, <1>7, InitBatchAsks
<1> HIDE DEF init
<1>11. init.ok => us \in Seq(Seq(Token)) /\ L \in Nat
  <2>1. init.ok => us \in Seq(Seq(Token))
    BY <1>8 DEF Found
  <2> QED
    BY <2>1, LenProperties
<1>12. WindowKept(swa, base, s)
  BY <1>1, WindowBoth
<1>13. CASE Invalid(tokens)
  <2>1. base' = base /\ swa' = swa
    BY <1>13 DEF Invalid
  <2> QED
    BY <1>12, <2>1
<1>14. CASE NoSlot(tokens, init)
  <2>1. base' = init.b.cache /\ swa' = init.s.cache /\ ~init.ok
    BY <1>14 DEF NoSlot
  <2>2. swa' = swa
    BY <1>7, <1>10, <2>1 DEF AskedOnce
  <2>3. CacheFits(init.b.cache, SizeBase) /\ Within(init.b.cache, base, 0, SizeBase)
    BY <1>8 DEF Found
  <2>4. PosOf(base'[t], s) = PosOf(base[t], s)
    BY <1>1, <2>1, <2>3, Sizes, PosWithin
  <2> QED
    BY <1>12, <2>2, <2>4, WindowSame
\* What both caches hold when the batch is in.
<1>15. ASSUME init.ok, IsValid(tokens)
       PROVE  LET b == Processed(init.b, us, L)
                  w == Processed(init.s, us, L)
                  P == PosIn(tokens, s)
              IN /\ CacheFits(b, SizeBase) /\ PosOf(b[t], s) = B \cup P
                 /\ CacheFits(w, SizeSwa) /\ Closed(w[t], s, B \cup P)
                 /\ PosOf(w[t], s) \subseteq B \cup P
                 /\ \A p \in B, x \in P : p < x
                 /\ init.s.ok /\ \E q \in Trials(SizeSwa) : TriedFor(q, init.s, swa, us, SizeSwa)
  <2>1. /\ tokens \in Seq(Token) /\ SplitsInto(tokens, us) /\ InOrder(us)
        /\ us \in Seq(Seq(Token)) /\ L \in Nat /\ L \in 0..Len(us)
    BY <1>9, <1>11, <1>15
  <2>2. init.s.ok /\ \E q \in Trials(SizeSwa) : TriedFor(q, init.s, swa, us, SizeSwa)
    BY <1>10, <1>15 DEF AskedOnce
  <2>3. PICK q \in Trials(SizeSwa) : TriedFor(q, init.s, swa, us, SizeSwa)
    BY <2>2
  <2>4. PosUpTo(us, L, s) = PosIn(tokens, s)
    BY <2>1, PosInSplit
  <2>5. /\ CacheFits(Processed(init.b, us, L), SizeBase)
        /\ PosOf(Processed(init.b, us, L)[t], s) = B \cup PosUpTo(us, L, s)
    BY <1>1, <1>8, <1>15, <2>1, FoundPos
  <2>6. ComesInTurn(B, us, s)
    BY <1>1, <1>7, <1>15, <2>1, InTurn
  <2>7. B \in SUBSET Int /\ Closed(swa[t], s, B) /\ SwaOf(s) \subseteq B
    <3>1. B \in SUBSET Int
      BY <1>1, NextIs, SizesAssumption
    <3>2. Closed(swa[t], s, B)
      BY <1>12 DEF WindowKept, BaseOf
    <3>3. SwaOf(s) \subseteq B
      BY CacheInvSwa DEF SwaWithinBase
    <3> QED
      BY <3>1, <3>2, <3>3
  <2>8. /\ CacheFits(Processed(init.s, us, L), SizeSwa)
        /\ Closed(Processed(init.s, us, L)[t], s, B \cup PosUpTo(us, L, s))
        /\ PosOf(Processed(init.s, us, L)[t], s) \subseteq B \cup PosUpTo(us, L, s)
    <3> HIDE DEF us, B
    <3> QED
      BY <2>1, <2>2, <2>3, <2>6, <2>7, ProcessedClosed
  <2>9. \A p \in B, x \in PosIn(tokens, s) : p < x
    BY <1>1, <1>15, <2>1, ComesAfter
  <2> QED
    BY <2>2, <2>4, <2>5, <2>8, <2>9
<1>16. CASE Success(tokens, init)
  <2>1. /\ base' = Processed(init.b, us, L) /\ swa' = Processed(init.s, us, L)
        /\ init.ok /\ IsValid(tokens)
    BY <1>16 DEF Success
  <2>2. /\ CacheFits(base', SizeBase) /\ PosOf(base'[t], s) = B \cup PosIn(tokens, s)
        /\ Closed(swa'[t], s, B \cup PosIn(tokens, s))
    BY <1>15, <2>1
  <2>3. Shows(swa', base', s, Behind(s))
    BY DecodeSees
  <2> DEFINE n == PosMax(base'[t], s) + 1
  <2>4. PosOf(base'[t], s) \in SUBSET (0..MaxPos) /\ MaxPos \in Nat /\ n \in Int /\ 0 <= n
        /\ \A p \in PosOf(base'[t], s) : p + 1 <= n
    <3> DEFINE m == PosMax(base'[t], s)
               A == PosOf(base'[t], s)
    <3>1. A \in SUBSET (0..MaxPos) /\ m \in Int /\ IF A = {} THEN m = -1 ELSE m \in A /\ \A p \in A : p <= m
      BY <2>2, Sizes, PosOfIs
    <3> HIDE DEF m, A
    <3>2. MaxPos \in Nat /\ n = m + 1
      BY SizesAssumption DEF m
    <3> HIDE DEF n
    <3>3. n \in Int /\ 0 <= n /\ \A p \in A : p + 1 <= n
      BY <3>1, <3>2
    <3> QED
      BY <3>1, <3>2, <3>3 DEF A
  <2> HIDE DEF n
  <2>5. Behind(s) <= n /\ Behind(s) \in Int
    <3>1. Coming(s) = PosIn(tokens, s) /\ Coming(s) \in SUBSET (0..MaxPos)
      BY <1>3, <1>6, PosInBatch DEF Coming
    <3>2. Behind(s) \in Nat /\ (Behind(s) = NextOf(s) \/ \E p \in Coming(s) : Behind(s) = p + 1)
      BY <1>1, <3>1, BehindIs
    <3>3. NextOf(s) = 0 \/ \E p \in B : NextOf(s) = p + 1
      <4>1. IF PosOf(base[t], s) = {} THEN PosMax(base[t], s) = -1
            ELSE PosMax(base[t], s) \in PosOf(base[t], s)
        BY <1>1, Sizes, PosOfIs
      <4> QED
        BY <4>1 DEF NextOf, BaseOf
    <3> HIDE DEF B
    <3> QED
      BY <2>2, <2>4, <3>1, <3>2, <3>3
  <2>6. Shows(swa', base', s, n)
    <3> SUFFICES ASSUME NEW p \in PosOf(base'[t], s), ~IsMasked(p, n, Window)
                 PROVE  p \in PosOf(swa'[t], s)
      BY DEF Shows
    <3>1. p \in Int
      BY <2>4
    <3>2. ~IsMasked(p, Behind(s), Window)
      BY <2>4, <2>5, <3>1, MaskedLater
    <3> QED
      BY <2>3, <3>2 DEF Shows
  <2> QED
    BY <2>2, <2>6 DEF WindowKept, n
<1>17. CASE Aborted(tokens, init)
  <2>1. init.ok /\ IsValid(tokens) /\ outcome'.ret = 2
    BY <1>5, <1>17 DEF Aborted
  <2>2. PICK n \in 1..L : /\ base' = RolledBack(Processed(init.b, us, n), us[n])
                          /\ swa' = RolledBack(Processed(init.s, us, n), us[n])
    BY <1>17 DEF Aborted
  <2>3. n = 1 /\ L = 1
    <3>1. L \in Nat /\ ~(L > 1) /\ n \in 1..L
      BY <1>7, <1>11, <2>1
    <3> HIDE DEF L
    <3> QED
      BY <3>1
  <2> DEFINE b == Processed(init.b, us, 1)
             w == Processed(init.s, us, 1)
             u == us[1]
             P == PosIn(tokens, s)
  <2>4. base' = RolledBack(b, u) /\ swa' = RolledBack(w, u)
    BY <2>2, <2>3
  <2>5. /\ CacheFits(b, SizeBase) /\ PosOf(b[t], s) = B \cup P
        /\ CacheFits(w, SizeSwa) /\ Closed(w[t], s, B \cup P) /\ PosOf(w[t], s) \subseteq B \cup P
        /\ \A p \in B, x \in P : p < x
        /\ init.s.ok /\ \E q \in Trials(SizeSwa) : TriedFor(q, init.s, swa, us, SizeSwa)
    BY <1>15, <2>1, <2>3
  <2>6. /\ us \in Seq(Seq(Token)) /\ u \in Seq(Token) /\ PosIn(u, s) = P
        /\ tokens \in Seq(Token) /\ \A x \in ToSet(u) : x \in ToSet(tokens)
    <3>1. us \in Seq(Seq(Token)) /\ SplitsInto(tokens, us) /\ tokens \in Seq(Token) /\ DOMAIN us = 1..1
      BY <1>9, <1>11, <2>1, <2>3, LenProperties
    <3>2. u \in Seq(Token) /\ \A x \in ToSet(u) : x \in ToSet(tokens)
      BY <3>1, ElementOfSeq DEF SplitsInto
    <3>3. PosUpTo(us, 1, s) = P
      BY <2>3, <3>1, PosInSplit
    <3>4. PosUpTo(us, 1, s) = PosIn(us[1], s)
      BY DEF PosUpTo
    <3> QED
      BY <3>1, <3>2, <3>3, <3>4
  <2>7. Before(swa[t], s, NextOf(s)) /\ NextOf(s) \in Int
    <3>1. NextOf(s) \in Int /\ NextOf(s) <= NextOf(s)
      BY <1>1, NextIs, SizesAssumption
    <3> QED
      BY <3>1, WindowBefore
  <2>8. Sees(w[t], s, NextOf(s), SwaOf(s))
    <3>1. PICK q \in Trials(SizeSwa) : TriedFor(q, init.s, swa, us, SizeSwa)
      BY <2>5
    <3> HIDE DEF us
    <3> QED
      BY <2>3, <2>5, <2>6, <2>7, <3>1, OnlyOneSees DEF L
  <2> HIDE DEF b, w, u, us, P, B
  <2>9. \A p : (\A i \in DOMAIN u : u[i].seqs[1] = s => ~(u[i].pos <= p)) <=> \A x \in P : ~(x <= p)
    BY <1>7, <2>6, FailedHere
  <2>10. \A p : p \in PosOf(base'[t], s) <=> p \in B \cup P /\ \A x \in P : ~(x <= p)
    <3>1. \A p : p \in PosOf(RolledBack(b, u)[t], s) <=>
             /\ p \in PosOf(b[t], s)
             /\ \A i \in DOMAIN u : u[i].seqs[1] = s => ~(u[i].pos <= p)
      BY <2>5, Sizes, PosRolledBack
    <3> QED
      BY <2>4, <2>5, <2>9, <3>1
  <2>11. \A p : p \in PosOf(swa'[t], s) <=> p \in PosOf(w[t], s) /\ \A x \in P : ~(x <= p)
    <3>1. \A p : p \in PosOf(RolledBack(w, u)[t], s) <=>
             /\ p \in PosOf(w[t], s)
             /\ \A i \in DOMAIN u : u[i].seqs[1] = s => ~(u[i].pos <= p)
      BY <2>5, Sizes, PosRolledBack
    <3> QED
      BY <2>4, <2>9, <3>1
  <2>12. B \in SUBSET Int /\ P \in SUBSET Int
    <3>1. B \in SUBSET Int
      BY <1>1, NextIs, SizesAssumption DEF B
    <3> QED
      BY <2>6, <3>1, PosInUbatch
  <2>13. \A p \in B : \A x \in P : ~(x <= p)
    <3> SUFFICES ASSUME NEW p \in B, NEW x \in P PROVE ~(x <= p)
      OBVIOUS
    <3>1. p < x /\ p \in Int /\ x \in Int
      BY <2>5, <2>12
    <3> QED
      BY <3>1
  <2>14. \A x \in P : x <= x
    BY <2>12
  <2>15. PosOf(base'[t], s) = B
    <3>1. \A p : p \in PosOf(base'[t], s) <=> p \in B
      BY <2>10, <2>13, <2>14
    <3> QED
      BY <3>1
  <2>16. Closed(swa'[t], s, B)
    <3> SUFFICES ASSUME NEW p \in B, NEW x \in PosOf(swa'[t], s), x <= p PROVE p \in PosOf(swa'[t], s)
      BY DEF Closed
    <3>1. x \in PosOf(w[t], s)
      BY <2>11
    <3>2. p \in PosOf(w[t], s)
      BY <2>5, <3>1 DEF Closed
    <3> QED
      BY <2>11, <2>13, <3>2
  <2>17. PosMax(base'[t], s) + 1 = NextOf(s)
    <3>1. PosOf(base'[t], s) = PosOf(base[t], s)
      BY <2>15 DEF B, BaseOf
    <3> QED
      BY <3>1 DEF PosMax, NextOf
  <2>18. Shows(swa', base', s, NextOf(s))
    <3> SUFFICES ASSUME NEW p \in PosOf(base'[t], s), ~IsMasked(p, NextOf(s), Window)
                 PROVE  p \in PosOf(swa'[t], s)
      BY DEF Shows
    <3>1. p \in B
      BY <2>15
    <3>2. p \in SwaOf(s)
      BY <3>1 DEF InWindow, B
    <3>3. p \in PosOf(w[t], s)
      BY <2>8, <3>2 DEF Sees
    <3> QED
      BY <2>11, <2>13, <3>1, <3>3
  <2> QED
    BY <2>15, <2>16, <2>17, <2>18 DEF WindowKept
<1> QED
  BY <1>4, <1>13, <1>14, <1>16, <1>17

\* One step of DecodeKeepsWindow.
KeepsWindow ==
  Decoded => \A s \in Seqs \ entangled :
    /\ InWindow(s) => {p \in BaseOf(s)' : ~IsMasked(p, Behind(s), Window)} \subseteq SwaOf(s)'
    /\ InStep(s) /\ InWindow(s) /\ NoGap(s) =>
         (InWindow(s) /\ NoGap(s))' \/ MoreOnTrial \/ IsCoupled(outcome'.batch)

\* What holds of the caches that a decode leaves holds in the new state.
LEMMA WindowThen ==
  ASSUME After, unified' = unified, NEW s \in Seqs, WindowKept(swa', base', s)
  PROVE  (InWindow(s) /\ NoGap(s))'
<1> DEFINE b == base'[StreamOf(s)]
           k == swa'[StreamOf(s)]
<1>1. CacheFits(base', SizeBase) /\ CacheFits(swa', SizeSwa)
  BY GoodFits DEF After
<1>2. PosOf(b, s) \in SUBSET Int
  <2>1. PosOf(b, s) \in SUBSET (0..MaxPos) /\ MaxPos \in Nat
    BY <1>1, Sizes, PosOfIs, SizesAssumption
  <2> HIDE DEF b
  <2> QED
    BY <2>1
<1>3. StreamOf(s)' = StreamOf(s)
  BY DEF StreamOf
<1>4. /\ BaseOf(s)' = PosOf(b, s) /\ SwaOf(s)' = PosOf(k, s)
      /\ NextOf(s)' = PosMax(b, s) + 1 /\ First(s)' = PosMin(k, s)
  BY <1>3 DEF BaseOf, SwaOf, NextOf, First, PosMin, PosMax, PosOf, Cells
<1>5. PosOf(k, s) # {} => {p \in PosOf(b, s) : p >= PosMin(k, s)} \subseteq PosOf(k, s)
  BY <1>1, <1>2, Sizes, NoGapIs DEF WindowKept
<1>6. {p \in PosOf(b, s) : ~IsMasked(p, PosMax(b, s) + 1, Window)} \subseteq PosOf(k, s)
  BY DEF WindowKept, Shows
<1> HIDE DEF b, k
<1>7. NoGap(s)'
  BY <1>4, <1>5 DEF NoGap
<1>8. InWindow(s)'
  BY <1>4, <1>6 DEF InWindow, IsMasked
<1> QED
  BY <1>7, <1>8

LEMMA WindowStays ==
  ASSUME CacheInv, KVNext
  PROVE  KeepsWindow
<1> SUFFICES ASSUME Decoded, NEW s \in Seqs \ entangled
             PROVE  /\ InWindow(s) => {p \in BaseOf(s)' : ~IsMasked(p, Behind(s), Window)} \subseteq SwaOf(s)'
                    /\ InStep(s) /\ InWindow(s) /\ NoGap(s) =>
                         (InWindow(s) /\ NoGap(s))' \/ MoreOnTrial \/ IsCoupled(outcome'.batch)
  BY DEF KeepsWindow
<1>1. PICK lists \in Batches : Decode(lists)
  BY DecodeOnly
<1>2. unified' = unified /\ After
  BY <1>1, DecodeStep
<1>3. BaseOf(s)' = PosOf(base'[StreamOf(s)], s) /\ SwaOf(s)' = PosOf(swa'[StreamOf(s)], s)
  BY <1>2 DEF BaseOf, SwaOf, StreamOf, PosOf, Cells
<1>4. ASSUME InWindow(s)
      PROVE  {p \in BaseOf(s)' : ~IsMasked(p, Behind(s), Window)} \subseteq SwaOf(s)'
  <2>1. Shows(swa', base', s, Behind(s))
    BY <1>1, <1>4, DecodeSees
  <2> QED
    BY <1>3, <2>1 DEF Shows
<1>5. ASSUME InStep(s), InWindow(s), NoGap(s), ~MoreOnTrial, ~IsCoupled(outcome'.batch)
      PROVE  (InWindow(s) /\ NoGap(s))'
  <2>1. WindowKept(swa', base', s)
    BY <1>1, <1>5, DecodeKeeps
  <2> QED
    BY <1>2, <2>1, WindowThen
<1> QED
  BY <1>4, <1>5

\* A decode never takes from the window of a sequence what a token behind the batch looks
\* at; and it keeps what the next token looks at, without a gap, unless the batch was put in
\* for trial beyond what was computed or shares tokens; whatever the sizes are.
THEOREM AlwaysDecodeKeepsWindow == KVSpec => DecodeKeepsWindow
<1>1. KVInit => CacheInv
  BY CacheInvAtFirst
<1>2. CacheInv /\ [KVNext]_kvVars => CacheInv'
  BY CacheInvKept
<1>3. CacheInv /\ [KVNext]_kvVars => [KeepsWindow]_kvVars
  BY WindowStays
<1> QED
  BY <1>1, <1>2, <1>3, PTL DEF KVSpec, DecodeKeepsWindow, KeepsWindow
=============================================================================
