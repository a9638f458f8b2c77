------------------------------ MODULE KVCells ------------------------------
(***************************************************************************)
(* One stream of a llama.cpp KV cache as pure operators: the cells of      *)
(* llama_kv_cells and the head at which the next search begins.            *)
(*                                                                         *)
(* A cell holds one position, for a set of sequences.  The tensors behind  *)
(* the cells, and the shift a key still has to be rotated by, are left     *)
(* out; so are the positions a sequence has, which the code keeps counted  *)
(* (seq_pos) and which are read off the cells here.                        *)
(***************************************************************************)
EXTENDS Integers, Sequences, FiniteSetsExt, SequencesExt

\* The n-th of the numbers in P, and what a sequence has at these places.
Nth(P, n) == CHOOSE i \in P : Cardinality({j \in P : j <= i}) = n
At(q, P)  == [n \in 1..Cardinality(P) |-> q[Nth(P, n)]]

EmptyCell == [pos |-> -1, seqs |-> {}]
New(n)    == [cell |-> [i \in 0..n - 1 |-> EmptyCell], head |-> 0]

Cells(k)   == DOMAIN k.cell
IsEmpty(c) == c.pos = -1
Used(k)    == Cardinality({i \in Cells(k) : ~IsEmpty(k.cell[i])})

PosOf(k, s)  == {k.cell[i].pos : i \in {i \in Cells(k) : s \in k.cell[i].seqs}}
PosMin(k, s) == IF PosOf(k, s) = {} THEN -1 ELSE Min(PosOf(k, s))
PosMax(k, s) == IF PosOf(k, s) = {} THEN -1 ELSE Max(PosOf(k, s))

\* Some of the cells are new.
Change(k, new) ==
  [k EXCEPT !.cell = [i \in DOMAIN @ |-> IF i \in DOMAIN new THEN new[i] ELSE @[i]]]

\* The cells of s, or of anybody, with a position from p0 up to p1.
InRange(k, p0, p1)    == {i \in Cells(k) : k.cell[i].pos >= p0 /\ k.cell[i].pos < p1
                                             /\ ~IsEmpty(k.cell[i])}
Holding(k, s, p0, p1) == {i \in InRange(k, p0, p1) : s \in k.cell[i].seqs}

-----------------------------------------------------------------------------
(***************************************************************************)
(* llama_kv_cache::seq_* for the stream of the sequence.                   *)
(***************************************************************************)
Freed(k, r) == {i \in Cells(k) : IsEmpty(r.cell[i]) /\ ~IsEmpty(k.cell[i])}

\* The search goes on at the first cell that was freed, if it is before the head.
HeadToFreed(k, r) == [r EXCEPT !.head = Min({@} \cup Freed(k, r))]

Without(c, S) == IF c.seqs \subseteq S THEN EmptyCell ELSE [c EXCEPT !.seqs = @ \ S]

SeqRm(k, s, p0, p1) ==
  HeadToFreed(k, Change(k, [i \in Holding(k, s, p0, p1) |-> Without(k.cell[i], {s})]))

AnyRm(k, p0, p1) ==
  HeadToFreed(k, Change(k, [i \in InRange(k, p0, p1) |-> EmptyCell]))

SeqCp(k, s, t, p0, p1) ==
  Change(k, [i \in Holding(k, s, p0, p1) |-> [k.cell[i] EXCEPT !.seqs = @ \cup {t}]])

\* The cells of s in its stream become those of t in another; only the head is
\* what it is there.
Only(c, s, t) == IF s \in c.seqs THEN [c EXCEPT !.seqs = {t}] ELSE EmptyCell

Copied(k, s, t) == Change(k, [i \in Cells(k) |-> Only(k.cell[i], s, t)])

SeqKeep(k, s) ==
  HeadToFreed(k, Change(k, [i \in Cells(k) |-> Only(k.cell[i], s, s)]))

\* A cell that is moved below zero is given up.
Moved(c, d) == IF c.pos + d < 0 THEN EmptyCell ELSE [c EXCEPT !.pos = @ + d]

\* The next search begins at the first cell that was freed, or at the beginning.
SeqAdd(k, s, p0, p1, d) ==
  LET r == Change(k, [i \in Holding(k, s, p0, p1) |-> Moved(k.cell[i], d)])
  IN [r EXCEPT !.head = IF Freed(k, r) = {} THEN 0 ELSE Min(Freed(k, r))]

SeqDiv(k, s, p0, p1, d) ==
  Change(k, [i \in Holding(k, s, p0, p1) |-> [k.cell[i] EXCEPT !.pos = @ \div d]])

-----------------------------------------------------------------------------
(***************************************************************************)
(* find_slot and apply_ubatch, for the tokens that go to the stream.  A    *)
(* token has a position and a list of sequences; w is the attention window *)
(* or 0 where there is none.                                               *)
(***************************************************************************)
IsMasked(p, next, w) == w > 0 /\ next - p >= w

\* Mistake to catch: cells are not used again.
CanUseEmpty(k, i, w) == IsEmpty(k.cell[i])

\* A cell is empty, or the only sequence it is for does not look at it any more.
CanUse(k, i, w) ==
  LET c == k.cell[i]
  IN \/ IsEmpty(c)
     \/ \E s \in c.seqs : c.seqs = {s} /\ IsMasked(c.pos, PosMax(k, s) + 1, w)

\* The first n cells that can be used, round from the head; none if there are fewer.
FindSlot(k, n, w) ==
  LET size == Cardinality(Cells(k))
      from == IF k.head > Used(k) + 2 * n THEN 0 ELSE k.head
      round == [j \in 0..size - 1 |-> IF from + j < size THEN from + j ELSE from + j - size]
      usable == {j \in 0..size - 1 : CanUse(k, round[j], w)}
  IN IF Cardinality(usable) < n THEN <<>> ELSE [m \in 1..n |-> round[Nth(usable, m)]]

Place(k, slot, tokens) ==
  [k EXCEPT !.cell = [i \in Cells(k) |->
     IF i \in ToSet(slot)
       THEN LET j == CHOOSE j \in DOMAIN slot : slot[j] = i
            IN [pos |-> tokens[j].pos, seqs |-> ToSet(tokens[j].seqs)]
       ELSE k.cell[i]]]

\* Mistake to catch: what is before an overwritten position stays.
ApplyUnpurged(k, slot, tokens) == [Place(k, slot, tokens) EXCEPT !.head = Last(slot) + 1]

\* What comes before an overwritten position of a sequence is purged.
Apply(k, slot, tokens) ==
  LET taken == {k.cell[i] : i \in {i \in ToSet(slot) : ~IsEmpty(k.cell[i])}}
      lost(c) == {s \in c.seqs : \E d \in taken : d.seqs = {s} /\ c.pos <= d.pos}
      r == Place(k, slot, tokens)
  IN [cell |-> [i \in Cells(k) |-> Without(r.cell[i], lost(r.cell[i]))],
      head |-> Last(slot) + 1]
=============================================================================
