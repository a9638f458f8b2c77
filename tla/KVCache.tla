------------------------------ MODULE KVCache ------------------------------
(***************************************************************************)
(* The memory of a llama.cpp context whose model has sliding-window        *)
(* layers: llama_kv_cache_iswa, two caches of cells (KVCells) that are     *)
(* changed alike, and llama_context::decode, which puts a batch into both. *)
(* The base cache forgets nothing by itself; the window cache has fewer    *)
(* cells and uses those again that no token looks at any more.             *)
(*                                                                         *)
(* An operation is one call: a context is used by one thread.  What a      *)
(* token is, and what is computed for it, is left out; so are saving and   *)
(* loading.  A batch gives the sequences of its tokens and lets the        *)
(* context number them.                                                    *)
(***************************************************************************)
EXTENDS KVCells

CONSTANTS NSeqs,     \* n_seq_max
          SizeBase,  \* cells of a stream of the base cache
          Window,    \* n_swa
          NUbatch,   \* n_ubatch
          MaxPos,    \* bound: the last position
          MaxBatch,  \* bound: tokens of a batch
          MaxEdits   \* bound: calls of llama_memory_seq_*

ASSUME SizesAssumption ==
  /\ {NSeqs, SizeBase, Window, NUbatch} \subseteq Nat \ {0}
  /\ MaxPos \in Nat /\ MaxBatch \in Nat \ {0} /\ MaxEdits \in Nat

VARIABLES
  unified,    \* whether the sequences share one stream (kv_unified)
  base, swa,  \* kv_base and kv_swa: the cells of every stream
  outcome,    \* the last call, if it was a decode: its batch and what it returned
  edits,
  entangled   \* history: sequences some of whose cells were moved for another one

kvVars == <<unified, base, swa, outcome, edits, entangled>>

Seqs        == 0..NSeqs - 1
End         == MaxPos + 1  \* no position is as high: p1 < 0
StreamOf(s) == IF unified THEN 0 ELSE s
Streams     == {StreamOf(s) : s \in Seqs}

\* The window cache is padded to a multiple of 256, here of 1.
SizeSwa == Min({SizeBase, Window * (IF unified THEN NSeqs ELSE 1) + NUbatch})

BaseOf(s) == PosOf(base[StreamOf(s)], s)
SwaOf(s)  == PosOf(swa[StreamOf(s)], s)

NoCall == [batch |-> <<>>, ret |-> 0]

Cell         == [pos : -1..MaxPos, seqs : SUBSET Seqs]
Stream(size) == [cell : [0..size - 1 -> Cell], head : 0..size]

CacheOK(c, size) ==
  /\ c \in [Streams -> Stream(size)]
  /\ \A t \in Streams : \A i \in 0..size - 1 :
       LET x == c[t].cell[i]
       IN (\A s \in x.seqs : StreamOf(s) = t) /\ (x.pos = -1 <=> x.seqs = {})

KVTypeOK ==
  /\ unified \in BOOLEAN
  /\ CacheOK(base, SizeBase) /\ CacheOK(swa, SizeSwa)
  /\ outcome.ret \in {0, 1, 2, -1}
  /\ edits \in 0..MaxEdits /\ entangled \in SUBSET Seqs

-----------------------------------------------------------------------------
(***************************************************************************)
(* llama_memory_*: the call goes to both caches.                           *)
(***************************************************************************)
Edit == edits < MaxEdits /\ edits' = edits + 1 /\ outcome' = NoCall /\ UNCHANGED unified

Clear ==
  /\ base' = [t \in Streams |-> New(SizeBase)] /\ swa' = [t \in Streams |-> New(SizeSwa)]
  /\ entangled' = {} /\ Edit

Rm(s, p0, p1) ==
  /\ base' = [base EXCEPT ![StreamOf(s)] = SeqRm(@, s, p0, p1)]
  /\ swa'  = [swa EXCEPT ![StreamOf(s)] = SeqRm(@, s, p0, p1)]
  /\ UNCHANGED entangled /\ Edit

RmAny(p0, p1) ==
  /\ base' = [t \in Streams |-> AnyRm(base[t], p0, p1)]
  /\ swa'  = [t \in Streams |-> AnyRm(swa[t], p0, p1)]
  /\ UNCHANGED entangled /\ Edit

\* Within a stream the cells are shared.  None of them may be shared already.
CpShared(s, t, p0, p1) ==
  /\ s # t /\ StreamOf(s) = StreamOf(t)
  /\ \A i \in Holding(base[StreamOf(s)], s, p0, p1) : t \notin base[StreamOf(s)].cell[i].seqs
  /\ base' = [base EXCEPT ![StreamOf(s)] = SeqCp(@, s, t, p0, p1)]
  /\ swa'  = [swa EXCEPT ![StreamOf(s)] = SeqCp(@, s, t, p0, p1)]
  /\ entangled' = IF s \in entangled THEN entangled \cup {t} ELSE entangled
  /\ Edit

\* Between streams a sequence is copied as a whole, over what is there.
CpStream(s, t) ==
  /\ StreamOf(s) # StreamOf(t)
  /\ base' = [base EXCEPT ![StreamOf(t)] = Copied(base[StreamOf(s)], s, t)]
  /\ swa'  = [swa EXCEPT ![StreamOf(t)] = Copied(swa[StreamOf(s)], s, t)]
  /\ UNCHANGED entangled /\ Edit

\* Mistake to catch: the window cache is forgotten about.
KeepInBase(s) ==
  /\ base' = [base EXCEPT ![StreamOf(s)] = SeqKeep(@, s)]
  /\ UNCHANGED <<swa, entangled>> /\ Edit

\* Other streams are left as they are.
Keep(s) ==
  /\ base' = [base EXCEPT ![StreamOf(s)] = SeqKeep(@, s)]
  /\ swa'  = [swa EXCEPT ![StreamOf(s)] = SeqKeep(@, s)]
  /\ UNCHANGED entangled /\ Edit

\* A shared cell moves for all its sequences.  Callers ask llama_memory_can_shift.
Shift(s, p0, p1) ==
  /\ SizeSwa = SizeBase
  /\ LET k == base[StreamOf(s)]
     IN entangled' = entangled \cup UNION {S \in {k.cell[i].seqs : i \in Holding(k, s, p0, p1)} :
                                             S # {s}}
  /\ Edit

Add(s, p0, p1, d) ==
  /\ \A p \in BaseOf(s) \cup SwaOf(s) : p + d <= MaxPos
  /\ base' = [base EXCEPT ![StreamOf(s)] = SeqAdd(@, s, p0, p1, d)]
  /\ swa'  = [swa EXCEPT ![StreamOf(s)] = SeqAdd(@, s, p0, p1, d)]
  /\ Shift(s, p0, p1)

Div(s, p0, p1) ==
  /\ base' = [base EXCEPT ![StreamOf(s)] = SeqDiv(@, s, p0, p1, 2)]
  /\ swa'  = [swa EXCEPT ![StreamOf(s)] = SeqDiv(@, s, p0, p1, 2)]
  /\ Shift(s, p0, p1)

-----------------------------------------------------------------------------
(***************************************************************************)
(* The batch: llama_batch_allocr.                                          *)
(***************************************************************************)
SeqsOf(tokens)  == UNION {ToSet(tokens[i].seqs) : i \in DOMAIN tokens}
IsCoupled(tokens) == \E i \in DOMAIN tokens : Len(tokens[i].seqs) > 1
PosIn(tokens, s) == {tokens[i].pos : i \in {i \in DOMAIN tokens : s \in ToSet(tokens[i].seqs)}}

\* A token follows the last one of its first sequence, in the batch or in memory; p0 is
\* where each sequence goes on.
Number(q, l) ==
  LET p == q.p0[l[1]]
  IN [tokens |-> Append(q.tokens, [seqs |-> l, pos |-> p]),
      p0 |-> [s \in Seqs |-> IF s \in ToSet(l) THEN p + 1 ELSE q.p0[s]]]

Numbered(lists) ==
  LET q[n \in 0..Len(lists)] ==
        IF n = 0 THEN [tokens |-> <<>>,
                       p0 |-> [s \in Seqs |-> PosMax(swa[StreamOf(s)], s) + 1]]
        ELSE Number(q[n - 1], lists[n])
  IN q[Len(lists)].tokens

First(s)   == PosMin(swa[StreamOf(s)], s)
Latest(s)  == PosMax(swa[StreamOf(s)], s)

\* The checks of init: each sequence goes on without a gap, and sequences with a
\* common token are as far as each other.
IsValid(tokens) ==
  /\ \A s \in SeqsOf(tokens) :
       LET P == PosIn(tokens, s)
       IN /\ Latest(s) >= 0 => Min(P) = Latest(s) + 1
          /\ Max(P) - Min(P) + 1 <= Cardinality(P)
  /\ \A i \in DOMAIN tokens : \A s \in ToSet(tokens[i].seqs) :
       First(s) = First(tokens[i].seqs[1]) /\ Latest(s) = Latest(tokens[i].seqs[1])

SplitSimple(tokens) ==
  [u \in 1..((Len(tokens) + NUbatch - 1) \div NUbatch) |->
     SubSeq(tokens, (u - 1) * NUbatch + 1, Min({u * NUbatch, Len(tokens)}))]

\* The disjoint sequence lists that take part in the next ubatch, of the tokens that
\* are left; one after the other if the ubatch is for streams.  One too many can get in.
NextLists(left) ==
  LET lists[n \in 0..Len(left)] ==
        IF n = 0 THEN <<>>
        ELSE LET sofar == lists[n - 1]
                 l == left[n].seqs
             IN IF /\ Len(sofar) <= NUbatch
                   /\ \A i \in DOMAIN sofar : ToSet(sofar[i]) \cap ToSet(l) = {}
                   /\ unified \/ sofar = <<>> \/ l[1] = Last(sofar)[1] + 1
                THEN Append(sofar, l) ELSE sofar
  IN lists[Len(left)]

OfList(left, l) == At(left, {i \in DOMAIN left : ToSet(left[i].seqs) = ToSet(l)})

\* As many tokens of each list as all of them have and the ubatch takes, but one.
NextEqual(left) ==
  LET lists == NextLists(left)
      n == Max({n \in 0..NUbatch :
                  /\ n <= 1 \/ n * Len(lists) <= NUbatch
                  /\ \A i \in DOMAIN lists : n <= Len(OfList(left, lists[i]))})
  IN FlattenSeq([i \in DOMAIN lists |-> SubSeq(OfList(left, lists[i]), 1, n)])

Left(tokens, us) ==
  At(tokens, {i \in DOMAIN tokens : \A u \in DOMAIN us : tokens[i] \notin ToSet(us[u])})

\* For streams no token may be for several sequences: nothing is split then.
SplitEqual(tokens) ==
  LET us[n \in 0..Len(tokens)] ==
        IF n = 0 THEN <<>>
        ELSE LET sofar == us[n - 1]
                 left  == Left(tokens, sofar)
             IN IF left = <<>> THEN sofar ELSE Append(sofar, NextEqual(left))
  IN IF ~unified /\ IsCoupled(tokens) THEN <<>> ELSE us[Len(tokens)]

-----------------------------------------------------------------------------
(***************************************************************************)
(* llama_kv_cache::prepare, and a ubatch in all its streams.               *)
(***************************************************************************)
PartOf(u, t) == At(u, {i \in DOMAIN u : StreamOf(u[i].seqs[1]) = t})
StreamsOf(u) == {StreamOf(u[i].seqs[1]) : i \in DOMAIN u}

Slots(c, u, w)      == [t \in StreamsOf(u) |-> FindSlot(c[t], Len(PartOf(u, t)), w)]
ApplyAll(c, u, slots) ==
  [t \in Streams |-> IF t \in StreamsOf(u) THEN Apply(c[t], slots[t], PartOf(u, t)) ELSE c[t]]

\* The ubatches are put in one after the other, each where there is room.
Trial(c, us, w) ==
  LET r[n \in 0..Len(us)] ==
        IF n = 0 THEN [ok |-> TRUE, caches |-> <<c>>, slots |-> <<>>]
        ELSE LET q == r[n - 1]
                 cache == Last(q.caches)
                 slots == Slots(cache, us[n], w)
             IN IF ~q.ok \/ \E t \in DOMAIN slots : slots[t] = <<>> THEN [q EXCEPT !.ok = FALSE]
                ELSE [ok |-> TRUE, slots |-> Append(q.slots, slots),
                      caches |-> Append(q.caches, ApplyAll(cache, us[n], slots))]
  IN r[Len(us)]

\* The cells of a slot get back what they held in old, not those that were purged; the
\* head comes from the stream with the number of the part.
Undone(c, slots, old) ==
  [t \in Streams |->
     IF t \notin DOMAIN slots THEN c[t]
     ELSE [cell |-> [i \in Cells(c[t]) |-> IF i \in ToSet(slots[t])
                                              THEN old[t].cell[i] ELSE c[t].cell[i]],
           head |-> old[Cardinality({r \in DOMAIN slots : r < t})].head]]

\* The slots are undone, the latest first.
TakenOut(r) ==
  LET L == Len(r.slots)
      c[n \in 0..L] ==
        IF n = 0 THEN Last(r.caches)
        ELSE Undone(c[n - 1], r.slots[L - n + 1], r.caches[L - n + 1])
  IN c[L]

\* Mistake to catch: what was put in for trial is taken out only if all of it fits.
PrepareKept(c, us, w) ==
  LET r == Trial(c, us, w)
  IN [ok |-> r.ok /\ us # <<>>, slots |-> r.slots,
      cache |-> IF r.ok THEN TakenOut(r) ELSE Last(r.caches)]

Prepare(c, us, w) ==
  LET r == Trial(c, us, w)
  IN [ok |-> r.ok /\ us # <<>>, slots |-> r.slots, cache |-> TakenOut(r)]

NotAsked(c) == [ok |-> FALSE, slots |-> <<>>, cache |-> c]

\* Both caches have room for a split; the window cache is asked if the base cache has.
Try(b, s, us) ==
  LET pb == Prepare(b, us, 0)
      ps == Prepare(s, us, Window)
  IN IF pb.ok THEN [ok |-> ps.ok, us |-> us, b |-> pb, s |-> ps]
     ELSE [ok |-> FALSE, us |-> us, b |-> pb, s |-> NotAsked(s)]

\* init_batch: a simple split if the stream is shared, then an equal one.
InitBatch(tokens) ==
  LET simple == IF unified THEN Try(base, swa, SplitSimple(tokens))
                ELSE [ok |-> FALSE, us |-> <<>>, b |-> NotAsked(base), s |-> NotAsked(swa)]
  IN IF simple.ok THEN simple ELSE Try(simple.b.cache, simple.s.cache, SplitEqual(tokens))

\* The first n ubatches are in.
Processed(prepared, us, n) ==
  LET c[m \in 0..n] ==
        IF m = 0 THEN prepared.cache ELSE ApplyAll(c[m - 1], us[m], prepared.slots[m])
  IN c[n]

\* The failed ubatch is taken out, for the first sequence of each of its tokens.
RolledBack(c, u) ==
  LET failed(x) == {s \in x.seqs : \E i \in DOMAIN u : u[i].seqs[1] = s /\ u[i].pos <= x.pos}
  IN [t \in Streams |->
        HeadToFreed(c[t], Change(c[t], [i \in Cells(c[t]) |->
                                          Without(c[t].cell[i], failed(c[t].cell[i]))]))]

-----------------------------------------------------------------------------
(***************************************************************************)
(* llama_context::decode.                                                  *)
(***************************************************************************)
Lists   == {l \in [1..1 -> Seqs] \cup [1..2 -> Seqs] : IsInjective(l)}
Batches == UNION {[1..n -> Lists] : n \in 1..MaxBatch}

Returned(tokens, ret) ==
  outcome' = [batch |-> tokens, ret |-> ret] /\ UNCHANGED <<unified, edits, entangled>>

Invalid(tokens) == ~IsValid(tokens) /\ Returned(tokens, -1) /\ UNCHANGED <<base, swa>>

NoSlot(tokens, init) ==
  /\ IsValid(tokens) /\ ~init.ok
  /\ base' = init.b.cache /\ swa' = init.s.cache
  /\ Returned(tokens, 1)

Success(tokens, init) ==
  /\ IsValid(tokens) /\ init.ok
  /\ base' = Processed(init.b, init.us, Len(init.us))
  /\ swa'  = Processed(init.s, init.us, Len(init.us))
  /\ Returned(tokens, 0)

\* The computation of a ubatch is aborted or fails.
Aborted(tokens, init) ==
  /\ IsValid(tokens) /\ init.ok
  /\ \E n \in 1..Len(init.us) :
       /\ base' = RolledBack(Processed(init.b, init.us, n), init.us[n])
       /\ swa'  = RolledBack(Processed(init.s, init.us, n), init.us[n])
  /\ Returned(tokens, 2)

Decode(lists) ==
  \E tokens \in {Numbered(lists)} :
    /\ \A i \in DOMAIN tokens : tokens[i].pos \in 0..MaxPos
    /\ \/ Invalid(tokens)
       \/ \E init \in {InitBatch(tokens)} :
            NoSlot(tokens, init) \/ Success(tokens, init) \/ Aborted(tokens, init)

-----------------------------------------------------------------------------
KVInit ==
  /\ unified \in BOOLEAN
  /\ base = [t \in Streams |-> New(SizeBase)] /\ swa = [t \in Streams |-> New(SizeSwa)]
  /\ outcome = NoCall /\ edits = 0 /\ entangled = {}

\* A range ends or begins with the sequence.
Ranges == {r \in (0..MaxPos) \X (1..End) : r[1] < r[2] /\ (r[1] = 0 \/ r[2] = End)}

KVNext ==
  \/ Clear
  \/ \E r \in Ranges :
       \/ RmAny(r[1], r[2])
       \/ \E s \in Seqs : \/ Rm(s, r[1], r[2])
                          \/ \E t \in Seqs : CpShared(s, t, r[1], r[2])
                          \/ \E d \in {-2, -1, 1} : Add(s, r[1], r[2], d)
                          \/ Div(s, r[1], r[2])
  \/ \E s \in Seqs : Keep(s) \/ \E t \in Seqs : CpStream(s, t)
  \/ \E lists \in Batches : Decode(lists)

KVSpec == KVInit /\ [][KVNext]_kvVars

-----------------------------------------------------------------------------
(***************************************************************************)
(* Properties.                                                             *)
(***************************************************************************)
\* "The base cache is a superset of the SWA cache": whatever is removed, copied, kept,
\* moved, aborted or purged, a position of a sequence in the window cache is one in the
\* base cache; unless a shared cell was moved, in which only one cache may still know
\* that it is shared.
SwaWithinBase == KVTypeOK /\ \A s \in Seqs \ entangled : SwaOf(s) \subseteq BaseOf(s)

\* Both caches end at the same position, which is the one the batch is numbered from.
InStep(s) == Latest(s) = PosMax(base[StreamOf(s)], s)

Decoded == outcome'.batch # <<>>

Coming(s) == PosIn(outcome'.batch, s)

\* What llama.h says of the memory after llama_decode: with 0 the batch is in it; with 1
\* and -1 it is as before; with 2 the ubatches before the aborted one are in it, for a
\* sequence that shares no token of the batch.
DecodeContract ==
  [][Decoded => \A s \in Seqs : InStep(s) =>
       CASE outcome'.ret = 0 -> BaseOf(s)' = BaseOf(s) \cup Coming(s)
         [] outcome'.ret \in {1, -1} -> BaseOf(s)' = BaseOf(s)
         [] outcome'.ret = 2 ->
              \/ \E p \in 0..End : BaseOf(s)' = BaseOf(s) \cup {q \in Coming(s) : q < p}
              \/ IsCoupled(outcome'.batch)]_kvVars

\* Everything the next token of s looks at is in the window cache.
NextOf(s)   == PosMax(base[StreamOf(s)], s) + 1
InWindow(s) == {p \in BaseOf(s) : ~IsMasked(p, NextOf(s), Window)} \subseteq SwaOf(s)

\* "All positions between [pos_min, pos_max] will be present in the cache."
NoGap(s) == SwaOf(s) # {} => {p \in BaseOf(s) : p >= First(s)} \subseteq SwaOf(s)

\* Where s goes on behind the batch.
Behind(s) == Max({NextOf(s)} \cup {p + 1 : p \in Coming(s)})

\* More was put into the window cache for trial than was computed then.
MoreOnTrial ==
  \/ \E init \in {InitBatch(outcome'.batch)} :
       (init.b.ok /\ ~init.ok) \/ (outcome'.ret = 2 /\ Len(init.us) > 1)
  \/ unified /\ \E simple \in {Try(base, swa, SplitSimple(outcome'.batch))} :
                  simple.b.ok /\ ~simple.ok

\* However a decode ends, what a token behind the batch looks at is not taken from the
\* window of any sequence.  What the next token looks at is not either, and the window
\* has no gap; unless the batch was put in for trial beyond what was computed, for what
\* is purged on trial is not put back, or has tokens of several sequences.
DecodeKeepsWindow ==
  [][Decoded => \A s \in Seqs \ entangled :
       /\ InWindow(s) => {p \in BaseOf(s)' : ~IsMasked(p, Behind(s), Window)} \subseteq SwaOf(s)'
       /\ InStep(s) /\ InWindow(s) /\ NoGap(s) =>
            (InWindow(s) /\ NoGap(s))' \/ MoreOnTrial \/ IsCoupled(outcome'.batch)]_kvVars

SharesCells(c) == \E t \in Streams : \E i \in Cells(c[t]) : Cardinality(c[t].cell[i].seqs) > 1

\* A sequence has two cells for one position.
Doubled(c) == \E t \in Streams : \E i, j \in Cells(c[t]) :
                /\ i # j /\ c[t].cell[i].pos = c[t].cell[j].pos
                /\ c[t].cell[i].seqs \cap c[t].cell[j].seqs # {}

\* A batch is refused only if the base cache has no room for it: the window cache,
\* small as it is, always has; unless cells are shared, positions are doubled or a shared
\* cell was moved, after which the window cache may hold more cells than the base cache.
RefusedOnlyWhenFull ==
  [][Decoded /\ outcome'.ret = 1 =>
       \/ SharesCells(swa) \/ IsCoupled(outcome'.batch) \/ Doubled(swa) \/ entangled # {}
       \/ \E t \in Streams : Len(PartOf(outcome'.batch, t)) > SizeBase - Used(base[t])]_kvVars
=============================================================================
