----------------------------- MODULE NoteProofs ------------------------------
(***************************************************************************)
(* Proofs about the two parts of the app that change notes.                *)
(*                                                                         *)
(* The freshness of embeddings (NoteIndexing), for any number of notes,    *)
(* chunks, embedding models, texts, edits, tasks and loads.  An answer is  *)
(* stored with what its requester captured when it asked.  That it belongs *)
(* together takes an invariant about all requesters: each has one question *)
(* under way while its flag or its state says so and none otherwise        *)
(* (Asked), so that no capture is replaced under a question (Captured).    *)
(* The model id captured is one because no text is sent before a model was *)
(* loaded (HasModel).                                                      *)
(*                                                                         *)
(* The suggestions of the note editor (NoteEditorAI), for any number of    *)
(* runs, tokens, changes and undo steps.  RunsInv adds to the invariants   *)
(* about runs what makes them inductive: the handle is there only while    *)
(* the controller is busy, and every run that is in a draft has been       *)
(* started. DraftInv adds that the handle is that of a run of the pending  *)
(* request.                                                                *)
(***************************************************************************)
EXTENDS NoteIndexing, NoteEditorAI, FiniteSetTheorems, SequenceTheorems, TLAPS

(***************************************************************************)
(* What is in a queue, and how many of its entries are for a requester,    *)
(* when one is put in at the end or taken out at the front.                *)
(***************************************************************************)
Rng(s) == {s[i] : i \in DOMAIN s}

\* The places of s that are for q.
For(s, q) == {i \in DOMAIN s : s[i].to = q}

Count(s, q) == Cardinality(For(s, q))

\* Append puts one entry in.
LEMMA RngAppend ==
  ASSUME NEW S, NEW s \in Seq(S), NEW e \in S
  PROVE  Append(s, e) \in Seq(S) /\ Rng(Append(s, e)) = Rng(s) \cup {e}
<1>1. /\ Append(s, e) \in Seq(S) /\ Len(Append(s, e)) = Len(s) + 1
      /\ \A i \in 1..Len(s) : Append(s, e)[i] = s[i]
      /\ Append(s, e)[Len(s) + 1] = e
  BY AppendProperties
<1>2. DOMAIN s = 1..Len(s) /\ Len(s) \in Nat /\ DOMAIN Append(s, e) = 1..(Len(s) + 1)
  BY <1>1, LenProperties
<1> QED BY <1>1, <1>2 DEF Rng

\* Tail leaves what was there, and the head was.
LEMMA RngTail ==
  ASSUME NEW S, NEW s \in Seq(S), s # <<>>
  PROVE  /\ Tail(s) \in Seq(S) /\ Rng(Tail(s)) \subseteq Rng(s)
         /\ Head(s) \in S /\ Head(s) \in Rng(s)
<1>1. /\ Tail(s) \in Seq(S) /\ Len(Tail(s)) = Len(s) - 1
      /\ \A i \in 1..Len(Tail(s)) : Tail(s)[i] = s[i + 1]
      /\ Head(s) = s[1] /\ Head(s) \in S
  BY HeadTailProperties
<1>2. DOMAIN s = 1..Len(s) /\ Len(s) \in Nat \ {0} /\ DOMAIN Tail(s) = 1..(Len(s) - 1)
  BY <1>1, LenProperties, EmptySeq
<1> QED BY <1>1, <1>2 DEF Rng

\* An entry is of the queue's type.
LEMMA InRange ==
  ASSUME NEW S, NEW s \in Seq(S), NEW c \in Rng(s)
  PROVE  c \in S
BY LenProperties DEF Rng

\* Only finitely many entries are for q.
LEMMA ForFinite ==
  ASSUME NEW S, NEW s \in Seq(S), NEW q
  PROVE  IsFiniteSet(For(s, q)) /\ Count(s, q) \in Nat
<1>1. DOMAIN s = 1..Len(s) /\ Len(s) \in Nat
  BY LenProperties
<1>2. IsFiniteSet(1..Len(s))
  <2>1. 1 \in Int /\ Len(s) \in Int
    BY <1>1
  <2> QED BY <2>1, FS_Interval
<1>3. For(s, q) \subseteq 1..Len(s)
  BY <1>1 DEF For
<1>4. IsFiniteSet(For(s, q))
  BY <1>2, <1>3, FS_Subset
<1> QED BY <1>4, FS_CardinalityType DEF Count

\* If none is counted, none is there.
LEMMA CountNone ==
  ASSUME NEW S, NEW s \in Seq(S), NEW q, Count(s, q) = 0
  PROVE  \A c \in Rng(s) : c.to # q
<1>1. For(s, q) = {}
  BY ForFinite, FS_EmptySet DEF Count
<1> QED BY <1>1 DEF For, Rng

\* The empty queue has none.
LEMMA CountEmpty ==
  ASSUME NEW q
  PROVE  Count(<<>>, q) = 0 /\ Rng(<<>>) = {}
<1>1. For(<<>>, q) = {} /\ Rng(<<>>) = {}
  BY DEF For, Rng
<1> QED BY <1>1, FS_EmptySet DEF Count

\* Append counts its entry.
LEMMA CountAppend ==
  ASSUME NEW S, NEW s \in Seq(S), NEW e \in S, NEW q
  PROVE  Count(Append(s, e), q) = Count(s, q) + (IF e.to = q THEN 1 ELSE 0)
<1>1. /\ Len(Append(s, e)) = Len(s) + 1 /\ Append(s, e) \in Seq(S)
      /\ \A i \in 1..Len(s) : Append(s, e)[i] = s[i]
      /\ Append(s, e)[Len(s) + 1] = e
  BY AppendProperties
<1>2. DOMAIN s = 1..Len(s) /\ Len(s) \in Nat /\ DOMAIN Append(s, e) = 1..(Len(s) + 1)
  BY <1>1, LenProperties
<1>3. Len(s) + 1 \notin For(s, q)
  BY <1>2 DEF For
<1>4. CASE e.to = q
  <2>1. For(Append(s, e), q) = For(s, q) \cup {Len(s) + 1}
    BY <1>1, <1>2, <1>4 DEF For
  <2>2. Cardinality(For(s, q) \cup {Len(s) + 1}) = Cardinality(For(s, q)) + 1
    BY <1>3, ForFinite, FS_AddElement
  <2> QED BY <1>4, <2>1, <2>2 DEF Count
<1>5. CASE e.to # q
  <2>1. For(Append(s, e), q) = For(s, q)
    BY <1>1, <1>2, <1>5 DEF For
  <2>2. Count(s, q) \in Nat
    BY ForFinite
  <2> QED BY <1>5, <2>1, <2>2 DEF Count
<1> QED BY <1>4, <1>5

\* Tail no longer counts the head.
LEMMA CountTail ==
  ASSUME NEW S, NEW s \in Seq(S), s # <<>>, NEW q
  PROVE  Count(s, q) = Count(Tail(s), q) + (IF Head(s).to = q THEN 1 ELSE 0)
<1>1. /\ Tail(s) \in Seq(S) /\ Len(Tail(s)) = Len(s) - 1
      /\ \A i \in 1..Len(Tail(s)) : Tail(s)[i] = s[i + 1]
      /\ Head(s) = s[1]
  BY HeadTailProperties
<1>2. DOMAIN s = 1..Len(s) /\ Len(s) \in Nat \ {0} /\ DOMAIN Tail(s) = 1..(Len(s) - 1)
  BY <1>1, LenProperties, EmptySeq
<1> DEFINE I == For(Tail(s), q)
           K == {i + 1 : i \in I}
           f == [i \in I |-> i + 1]
<1>3. I \subseteq 1..(Len(s) - 1)
  BY <1>2 DEF For
<1>4. f \in [I -> K] /\ \A a, b \in I : f[a] = f[b] => a = b
  BY <1>2, <1>3
<1>5. \A k \in K : \E i \in I : f[i] = k
  OBVIOUS
<1>6. ExistsBijection(I, K)
  <2> HIDE DEF f, K, I
  <2>1. f \in Injection(I, K) /\ f \in Surjection(I, K)
    BY <1>4, <1>5 DEF Injection, Surjection, IsInjective
  <2> QED BY <2>1 DEF ExistsBijection, Bijection
<1>7. IsFiniteSet(I) /\ Count(Tail(s), q) \in Nat
  BY <1>1, ForFinite
<1>8. IsFiniteSet(K) /\ Cardinality(K) = Count(Tail(s), q)
  <2> HIDE DEF K
  <2> QED BY <1>6, <1>7, FS_Bijection DEF Count
<1>9. 1 \notin K
  BY <1>2, <1>3
<1>10. For(s, q) = IF Head(s).to = q THEN K \cup {1} ELSE K
  <2>1. \A i \in 1..Len(s) : i # 1 => i - 1 \in 1..(Len(s) - 1) /\ s[i] = Tail(s)[i - 1]
    BY <1>1, <1>2
  <2>2. \A i \in K : i \in DOMAIN s /\ s[i].to = q
    BY <1>1, <1>2 DEF For
  <2>3. \A i \in For(s, q) : i # 1 => i - 1 \in I /\ i = (i - 1) + 1
    BY <1>2, <2>1 DEF For
  <2>4. \A i \in For(s, q) : i # 1 => i \in K
    BY <2>3
  <2>5. 1 \in For(s, q) <=> Head(s).to = q
    BY <1>1, <1>2 DEF For
  <2>6. K \subseteq For(s, q)
    BY <2>2 DEF For
  <2> HIDE DEF K
  <2>7. CASE Head(s).to = q
    <3>1. For(s, q) = K \cup {1}
      BY <2>4, <2>5, <2>6, <2>7
    <3> QED BY <3>1, <2>7
  <2>8. CASE Head(s).to # q
    <3>1. For(s, q) = K
      BY <2>4, <2>5, <2>6, <2>8
    <3> QED BY <3>1, <2>8
  <2> QED BY <2>7, <2>8
<1>11. Cardinality(K \cup {1}) = Cardinality(K) + 1
  <2> HIDE DEF K
  <2> QED BY <1>8, <1>9, FS_AddElement
<1> HIDE DEF K, I
<1> QED BY <1>7, <1>8, <1>10, <1>11 DEF Count

-----------------------------------------------------------------------------
\* Questions a requester has under way.
Due(q) == IF q = Batch
            THEN IF isIndexing THEN 1 ELSE 0
            ELSE IF debounced[q].state = "embedding" THEN 1 ELSE 0

Asked == \A q \in Requesters : Outstanding(q) = Due(q)

Matches(c) == c.op = "embed" => capture[c.to] # NoCapture /\ capture[c.to].hash = c.text

Captured == /\ \A c \in Rng(engineQ) : Matches(c)
            /\ \A c \in Rng(mainQ) : Matches(c)

HasModel == loaded \/ isIndexing => current # None

TextIsHash == \A x \in Items : embedding[x].text = embedding[x].hash

IInv == TypeOK /\ HasModel /\ Asked /\ Captured /\ TextIsHash

-----------------------------------------------------------------------------
(***************************************************************************)
(* Numbers, questions and answers.                                         *)
(***************************************************************************)
LEMMA Bounds ==
  /\ 1 \in Texts /\ 0 \notin Texts /\ Batch \notin Tasks /\ None \notin Requesters
  /\ Batch \in Requesters /\ Tasks \subseteq Requesters
BY ItemsAssumption, BoundsAssumption DEF Texts, Tasks, Batch, Requesters

LEMMA OutstandingIsCount == \A q : Outstanding(q) = Count(engineQ, q) + Count(mainQ, q)
BY DEF Outstanding, Count, For

LEMMA QueuesTyped ==
  ASSUME TypeOK
  PROVE  /\ engineQ \in Seq(Calls) /\ mainQ \in Seq(Answers)
         /\ \A q : Count(engineQ, q) \in Nat /\ Count(mainQ, q) \in Nat
BY ForFinite DEF TypeOK

LEMMA AnswerTyped ==
  ASSUME NEW a \in Answers, a.op = "embed"
  PROVE  a.to \in Requesters /\ a.text \in Texts /\ a.model \in EmbeddingModels \cup {None}
BY DEF Answers

\* An answer that is taken was the only question of its requester.
LEMMA Taken ==
  ASSUME IInv, NEW q \in Requesters, AnswerTo(q), mainQ' = Tail(mainQ)
  PROVE  /\ mainQ' \in Seq(Answers) /\ Rng(mainQ') \subseteq Rng(mainQ)
         /\ Head(mainQ) \in Answers /\ Head(mainQ) \in Rng(mainQ)
         /\ Due(q) = 1 /\ Count(engineQ, q) = 0 /\ Count(mainQ', q) = 0
         /\ \A p : p # q => Count(mainQ', p) = Count(mainQ, p)
<1>1. mainQ \in Seq(Answers) /\ mainQ # <<>> /\ Head(mainQ).to = q
  BY DEF IInv, TypeOK, AnswerTo
<1>2. /\ Tail(mainQ) \in Seq(Answers) /\ Rng(Tail(mainQ)) \subseteq Rng(mainQ)
      /\ Head(mainQ) \in Answers /\ Head(mainQ) \in Rng(mainQ)
  BY <1>1, RngTail
<1> DEFINE rest == Tail(mainQ)
<1>3. \A p : Count(mainQ, p) = Count(rest, p) + (IF q = p THEN 1 ELSE 0)
  BY <1>1, CountTail
<1>4. \A p : Count(rest, p) \in Nat /\ Count(engineQ, p) \in Nat
  BY <1>2, ForFinite, QueuesTyped DEF IInv
<1>5. Count(engineQ, q) + Count(mainQ, q) = Due(q) /\ (Due(q) = 1 \/ Due(q) = 0)
  BY OutstandingIsCount DEF IInv, Asked, Due
<1> HIDE DEF rest
<1>6. Due(q) = 1 /\ Count(engineQ, q) = 0 /\ Count(rest, q) = 0
  BY <1>3, <1>4, <1>5
<1>7. \A p : p # q => Count(rest, p) = Count(mainQ, p)
  BY <1>3, <1>4
<1> QED BY <1>2, <1>6, <1>7 DEF rest

\* What it brings is stored with what was captured.
LEMMA StoredKeeps ==
  ASSUME IInv, NEW q \in Requesters, AnswerTo(q)
  PROVE  /\ Stored(Head(mainQ)) \in [Items -> Embeddings]
         /\ \A x \in Items : Stored(Head(mainQ))[x].text = Stored(Head(mainQ))[x].hash
<1> DEFINE a == Head(mainQ)
           c == capture[q]
<1>1. a \in Answers /\ a \in Rng(mainQ) /\ a.op = "embed" /\ a.to = q
  BY RngTail DEF IInv, TypeOK, AnswerTo
<1>2. a.text \in Texts /\ a.model \in EmbeddingModels \cup {None}
  BY <1>1, AnswerTyped
<1>3. c # NoCapture /\ c.hash = a.text
  BY <1>1 DEF IInv, Captured, Matches
<1>4. c.item \in Items /\ c.modelId \in EmbeddingModels
  BY <1>3 DEF IInv, TypeOK, Captures
<1>5. embedding \in [Items -> Embeddings] /\ \A x \in Items : embedding[x].text = embedding[x].hash
  BY DEF IInv, TypeOK, TextIsHash
<1> DEFINE e == [text |-> a.text, by |-> a.model, modelId |-> c.modelId, hash |-> c.hash]
<1>6. Stored(a) = IF a.model = None THEN embedding ELSE [embedding EXCEPT ![c.item] = e]
  BY <1>1 DEF Stored
<1>7. a.model # None => e \in Embeddings /\ e.text = e.hash
  BY <1>2, <1>3, <1>4 DEF Embeddings
<1> HIDE DEF a, c, e
<1>8. Stored(a) \in [Items -> Embeddings] /\ \A x \in Items : Stored(a)[x].text = Stored(a)[x].hash
  BY <1>4, <1>5, <1>6, <1>7
<1> QED BY <1>8 DEF a

\* A requester with nothing under way asks: its question is the only one for it, and
\* no other capture is touched.
LEMMA Asking ==
  ASSUME IInv, NEW q \in Requesters, NEW x \in Items, current # None, Request(q, x),
         mainQ' \in Seq(Answers), Rng(mainQ') \subseteq Rng(mainQ),
         Count(engineQ, q) = 0, Count(mainQ', q) = 0
  PROVE  /\ capture' \in [Requesters -> Captures] /\ engineQ' \in Seq(Calls)
         /\ Count(engineQ', q) = 1 /\ \A p : p # q => Count(engineQ', p) = Count(engineQ, p)
         /\ Captured'
<1> DEFINE call == Call("embed", q, content[x], None)
           new  == [item |-> x, modelId |-> current, hash |-> content[x]]
<1>1. content[x] \in Texts /\ current \in EmbeddingModels /\ engineQ \in Seq(Calls)
      /\ capture \in [Requesters -> Captures]
  BY DEF IInv, TypeOK
<1>2. call \in Calls /\ call.to = q /\ call.op = "embed" /\ call.text = content[x]
  BY <1>1 DEF Calls, Call
<1>3. new \in Captures /\ new # NoCapture /\ new.hash = content[x]
  BY <1>1, Bounds DEF Captures, NoCapture
<1>4. engineQ' = Append(engineQ, call) /\ capture' = [capture EXCEPT ![q] = new]
  BY DEF Request
<1> HIDE DEF call, new
<1>5. engineQ' \in Seq(Calls) /\ Rng(engineQ') = Rng(engineQ) \cup {call}
  BY <1>1, <1>2, <1>4, RngAppend
<1>6. \A p : Count(engineQ', p) = Count(engineQ, p) + (IF q = p THEN 1 ELSE 0)
  BY <1>1, <1>2, <1>4, CountAppend
<1>7. \A p : Count(engineQ, p) \in Nat
  BY QueuesTyped DEF IInv
<1>8. Count(engineQ', q) = 1 /\ \A p : p # q => Count(engineQ', p) = Count(engineQ, p)
  BY <1>6, <1>7
<1>9. ASSUME NEW c \in Rng(engineQ) \cup Rng(mainQ'), c.op = "embed"
      PROVE  capture'[c.to] # NoCapture /\ capture'[c.to].hash = c.text
  <2>1. c.to # q
    BY <1>1, CountNone
  <2>2. capture[c.to] # NoCapture /\ capture[c.to].hash = c.text
    BY <1>9 DEF IInv, Captured, Matches
  <2>3. c \in Calls \cup Answers
    BY <1>1, InRange
  <2>4. c.to \in Requesters
    BY <1>9, <2>3 DEF Calls, Answers
  <2> QED BY <1>1, <1>4, <2>1, <2>2, <2>4
<1>10. capture'[call.to] # NoCapture /\ capture'[call.to].hash = call.text
  BY <1>1, <1>2, <1>3, <1>4
<1>11. Captured'
  BY <1>5, <1>9, <1>10 DEF Captured, Matches
<1> QED BY <1>1, <1>3, <1>4, <1>5, <1>8, <1>11

\* A requester that has nothing under way may forget what it captured.
LEMMA Forgetting ==
  ASSUME IInv, NEW q \in Requesters, capture' = [capture EXCEPT ![q] = NoCapture],
         engineQ' = engineQ, mainQ' \in Seq(Answers), Rng(mainQ') \subseteq Rng(mainQ),
         Count(engineQ, q) = 0, Count(mainQ', q) = 0
  PROVE  capture' \in [Requesters -> Captures] /\ Captured'
<1>1. engineQ \in Seq(Calls) /\ capture \in [Requesters -> Captures]
  BY DEF IInv, TypeOK
<1>2. ASSUME NEW c \in Rng(engineQ) \cup Rng(mainQ'), c.op = "embed"
      PROVE  capture'[c.to] # NoCapture /\ capture'[c.to].hash = c.text
  <2>1. c.to # q
    BY <1>1, CountNone
  <2>2. capture[c.to] # NoCapture /\ capture[c.to].hash = c.text
    BY <1>2 DEF IInv, Captured, Matches
  <2>3. c \in Calls \cup Answers
    BY <1>1, InRange
  <2>4. c.to \in Requesters
    BY <1>2, <2>3 DEF Calls, Answers
  <2> QED BY <1>1, <2>1, <2>2, <2>4
<1>3. Captured'
  BY <1>2 DEF Captured, Matches, Rng
<1> QED BY <1>1, <1>3 DEF Captures

-----------------------------------------------------------------------------
(***************************************************************************)
(* Batches.                                                                *)
(***************************************************************************)
\* What a turn of a batch leaves behind, its questions included.
BatchTurn ==
  /\ isIndexing' \in BOOLEAN /\ batch' \in Batches
  /\ capture' \in [Requesters -> Captures] /\ engineQ' \in Seq(Calls)
  /\ Count(engineQ', Batch) = IF isIndexing' THEN 1 ELSE 0
  /\ \A p : p # Batch => Count(engineQ', p) = Count(engineQ, p)
  /\ Captured'
  /\ isIndexing' => current # None

\* The batch has no question under way, and the queue of answers is what is left of it.
BatchFree ==
  /\ Count(engineQ, Batch) = 0 /\ Count(mainQ', Batch) = 0
  /\ mainQ' \in Seq(Answers) /\ Rng(mainQ') \subseteq Rng(mainQ)

LEMMA BatchAsks ==
  ASSUME IInv, BatchFree, current # None, isIndexing' = TRUE, NEW x \in Items, Request(Batch, x),
         NEW owner \in {"auto", "reindex", "send"}, NEW kind \in {"note", "chunk"},
         NEW todo \in SUBSET Items,
         batch' = [owner |-> owner, kind |-> kind, todo |-> todo]
  PROVE  BatchTurn
<1>1. batch' \in Batches
  BY DEF Batches
<1>2. /\ capture' \in [Requesters -> Captures] /\ engineQ' \in Seq(Calls)
      /\ Count(engineQ', Batch) = 1
      /\ \A p : p # Batch => Count(engineQ', p) = Count(engineQ, p)
      /\ Captured'
  BY Asking, Bounds DEF BatchFree
<1> QED BY <1>1, <1>2 DEF BatchTurn

LEMMA BatchStarts ==
  ASSUME IInv, BatchFree, current # None,
         NEW owner \in {"auto", "reindex", "send"}, NEW kind \in {"note", "chunk"},
         NEW items \in SUBSET Items, StartBatch(owner, kind, items)
  PROVE  BatchTurn
<1>1. PICK x \in items :
        /\ batch' = [owner |-> owner, kind |-> kind, todo |-> items \ {x}]
        /\ Request(Batch, x)
  BY DEF StartBatch
<1>2. isIndexing' = TRUE /\ x \in Items /\ items \ {x} \in SUBSET Items
  BY DEF StartBatch
<1> QED BY <1>1, <1>2, BatchAsks

LEMMA BatchStops ==
  ASSUME IInv, BatchFree, NoNewBatch
  PROVE  BatchTurn
<1>1. capture' \in [Requesters -> Captures] /\ Captured'
  BY Forgetting, Bounds DEF NoNewBatch, BatchFree
<1> QED BY <1>1 DEF NoNewBatch, BatchTurn, BatchFree, Batches, IInv, TypeOK

LEMMA BatchPrepares ==
  ASSUME IInv, BatchFree, NEW emb, NEW kinds \in SUBSET {"note", "chunk"}, Prepare(emb, kinds)
  PROVE  BatchTurn /\ send' \in {"idle", "waiting", "batch"}
<1> DEFINE stale == {k \in kinds : loaded /\ Stale(emb, k) # {}}
           first == IF "note" \in stale THEN "note" ELSE "chunk"
<1>1. CASE stale = {}
  BY <1>1, BatchStops DEF Prepare
<1>2. CASE stale # {}
  <2>1. StartBatch("send", first, Stale(emb, first)) /\ send' = "batch"
    BY <1>2 DEF Prepare
  <2>2. current # None
    BY <1>2 DEF IInv, HasModel
  <2>3. first \in {"note", "chunk"} /\ Stale(emb, first) \in SUBSET Items
    BY DEF Stale
  <2> HIDE DEF first
  <2> QED BY <2>1, <2>2, <2>3, BatchStarts
<1> QED BY <1>1, <1>2

\* While no batch is at work it has no question under way.
LEMMA FreeWhenIdle ==
  ASSUME IInv, ~isIndexing, mainQ' = mainQ
  PROVE  BatchFree
<1>1. Count(engineQ, Batch) \in Nat /\ Count(mainQ, Batch) \in Nat /\ mainQ \in Seq(Answers)
  BY QueuesTyped DEF IInv
<1>2. Count(engineQ, Batch) + Count(mainQ, Batch) = 0
  BY OutstandingIsCount, Bounds DEF IInv, Asked, Due
<1> QED BY <1>1, <1>2 DEF BatchFree

\* A turn of a batch keeps the invariant if it leaves the rest alone, or has taken the
\* answer to its question.
LEMMA BatchTurnInv ==
  ASSUME IInv, BatchTurn, BatchFree,
         \A p : p # Batch => Count(mainQ', p) = Count(mainQ, p),
         embedding' \in [Items -> Embeddings],
         \A x \in Items : embedding'[x].text = embedding'[x].hash,
         UNCHANGED <<model, tasks, content, edits, engineModel>>,
         send' \in {"idle", "waiting", "batch"}, autoQ' \in SUBSET {"note", "chunk"}
  PROVE  IInv'
<1> USE DEF IInv, BatchTurn, BatchFree, model, tasks
<1>1. TypeOK'
  BY DEF TypeOK
<1>2. HasModel'
  BY DEF HasModel
<1>3. Asked'
  <2> SUFFICES ASSUME NEW q \in Requesters PROVE Outstanding(q)' = Due(q)'
    BY DEF Asked
  <2>1. Outstanding(q)' = Count(engineQ', q) + Count(mainQ', q)
    BY DEF Outstanding, Count, For
  <2>2. CASE q = Batch
    BY <2>1, <2>2 DEF Due
  <2>3. CASE q # Batch
    <3>1. Outstanding(q) = Due(q) /\ Outstanding(q) = Count(engineQ, q) + Count(mainQ, q)
      BY OutstandingIsCount DEF Asked
    <3>2. Due(q)' = Due(q)
      BY <2>3 DEF Due
    <3> QED BY <2>1, <2>3, <3>1, <3>2
  <2> QED BY <2>2, <2>3
<1>4. TextIsHash'
  BY DEF TextIsHash
<1> QED BY <1>1, <1>2, <1>3, <1>4

\* ... and one that starts from nothing need not say so.
LEMMA StartTurnInv ==
  ASSUME IInv, ~isIndexing, BatchTurn, UNCHANGED <<model, data, tasks, engineModel, mainQ>>,
         send' \in {"idle", "waiting", "batch"}, autoQ' \in SUBSET {"note", "chunk"}
  PROVE  IInv'
<1>1. BatchFree
  BY FreeWhenIdle
<1>2. embedding' = embedding /\ embedding \in [Items -> Embeddings]
      /\ \A x \in Items : embedding[x].text = embedding[x].hash
  BY DEF IInv, TypeOK, TextIsHash, data
<1> QED BY <1>1, <1>2, BatchTurnInv DEF data

\* Nothing under way, no model and no embedding changes.
LEMMA QuietInv ==
  ASSUME IInv, UNCHANGED <<model, data, tasks, isIndexing, batch, capture, queues>>,
         send' \in {"idle", "waiting", "batch"}, autoQ' \in SUBSET {"note", "chunk"}
  PROVE  IInv'
<1> USE DEF IInv, model, data, tasks, queues
<1>1. TypeOK'
  BY DEF TypeOK
<1>2. Asked'
  BY DEF Asked, Outstanding, Due
<1> QED BY <1>1, <1>2 DEF HasModel, Captured, Matches, Rng, TextIsHash

LEMMA StartAutoInv ==
  ASSUME IInv, NEW kind \in {"note", "chunk"}, StartAuto(kind)
  PROVE  IInv'
BY QuietInv DEF StartAuto, IInv, TypeOK

LEMMA RunAutoInv ==
  ASSUME IInv, NEW kind \in {"note", "chunk"}, RunAuto(kind)
  PROVE  IInv'
<1>0. send \in {"idle", "waiting", "batch"} /\ autoQ' \in SUBSET {"note", "chunk"}
  BY DEF RunAuto, IInv, TypeOK
<1>1. CASE loaded /\ ~isIndexing /\ Stale(embedding, kind) # {}
  <2>1. StartBatch("auto", kind, Stale(embedding, kind))
    BY <1>1 DEF RunAuto
  <2>2. BatchFree /\ current # None
    BY <1>1, FreeWhenIdle DEF RunAuto, IInv, HasModel
  <2>3. Stale(embedding, kind) \in SUBSET Items
    BY DEF Stale
  <2>4. BatchTurn
    BY <2>1, <2>2, <2>3, BatchStarts
  <2> QED BY <1>0, <1>1, <2>4, StartTurnInv DEF RunAuto
<1>2. CASE ~(loaded /\ ~isIndexing /\ Stale(embedding, kind) # {})
  BY <1>0, <1>2, QuietInv DEF RunAuto, queues
<1> QED BY <1>1, <1>2

LEMMA ReindexInv == ASSUME IInv, Reindex PROVE IInv'
<1>1. BatchFree /\ current # None /\ ~isIndexing
  BY FreeWhenIdle DEF Reindex, IInv, HasModel
<1>2. BatchTurn
  BY <1>1, BatchStarts DEF Reindex, Items
<1> QED BY <1>1, <1>2, StartTurnInv DEF Reindex, IInv, TypeOK

LEMMA SendStartInv == ASSUME IInv, SendStart PROVE IInv'
<1>0. autoQ' \in SUBSET {"note", "chunk"}
  BY DEF SendStart, IInv, TypeOK
<1>1. CASE isIndexing
  BY <1>0, <1>1, QuietInv DEF SendStart, queues
<1>2. CASE ~isIndexing
  <2>1. BatchFree /\ Prepare(embedding, {"note", "chunk"})
    BY <1>2, FreeWhenIdle DEF SendStart
  <2>2. BatchTurn /\ send' \in {"idle", "waiting", "batch"}
    BY <2>1, BatchPrepares
  <2> QED BY <1>0, <1>2, <2>2, StartTurnInv DEF SendStart
<1> QED BY <1>1, <1>2

LEMMA SendWaitedInv == ASSUME IInv, SendWaited PROVE IInv'
<1>0. autoQ' \in SUBSET {"note", "chunk"}
  BY DEF SendWaited, IInv, TypeOK
<1>1. CASE ~isIndexing /\ Prepare(embedding, {"note", "chunk"})
  <2>1. BatchFree
    BY <1>1, FreeWhenIdle DEF SendWaited
  <2>2. BatchTurn /\ send' \in {"idle", "waiting", "batch"}
    BY <1>1, <2>1, BatchPrepares
  <2> QED BY <1>0, <1>1, <2>2, StartTurnInv DEF SendWaited
<1>2. CASE send' = "idle" /\ UNCHANGED <<isIndexing, batch, capture, engineQ>>
  BY <1>0, <1>2, QuietInv DEF SendWaited, queues
<1> QED BY <1>1, <1>2 DEF SendWaited

\* The batch has taken its answer.
LEMMA BatchTook ==
  ASSUME IInv, AnswerTo(Batch), mainQ' = Tail(mainQ), embedding' = Stored(Head(mainQ))
  PROVE  /\ BatchFree /\ isIndexing /\ current # None
         /\ \A p : p # Batch => Count(mainQ', p) = Count(mainQ, p)
         /\ embedding' \in [Items -> Embeddings]
         /\ \A x \in Items : embedding'[x].text = embedding'[x].hash
<1>1. Batch \in Requesters
  BY Bounds
<1>2. /\ Due(Batch) = 1 /\ BatchFree
      /\ \A p : p # Batch => Count(mainQ', p) = Count(mainQ, p)
  BY <1>1, Taken DEF BatchFree
<1>3. isIndexing /\ current # None
  BY <1>2 DEF Due, IInv, HasModel
<1> QED BY <1>1, <1>2, <1>3, StoredKeeps

LEMMA BatchNextInv == ASSUME IInv, BatchNext PROVE IInv'
<1>1. /\ BatchFree /\ isIndexing /\ current # None
      /\ \A p : p # Batch => Count(mainQ', p) = Count(mainQ, p)
      /\ embedding' \in [Items -> Embeddings]
      /\ \A x \in Items : embedding'[x].text = embedding'[x].hash
  BY BatchTook DEF BatchNext
<1>2. PICK x \in batch.todo :
        /\ batch' = [owner |-> batch.owner, kind |-> batch.kind, todo |-> batch.todo \ {x}]
        /\ Request(Batch, x)
  BY DEF BatchNext
<1>3. batch # NoBatch
  BY <1>2 DEF NoBatch
<1>4. /\ batch.owner \in {"auto", "reindex", "send"} /\ batch.kind \in {"note", "chunk"}
      /\ x \in Items /\ batch.todo \ {x} \in SUBSET Items
  BY <1>2, <1>3 DEF IInv, TypeOK, Batches
<1>5. BatchTurn
  BY <1>1, <1>2, <1>4, BatchAsks DEF BatchNext
<1> QED BY <1>1, <1>5, BatchTurnInv DEF BatchNext, IInv, TypeOK

LEMMA BatchEndInv == ASSUME IInv, BatchEnd PROVE IInv'
<1>1. /\ BatchFree
      /\ \A p : p # Batch => Count(mainQ', p) = Count(mainQ, p)
      /\ embedding' \in [Items -> Embeddings]
      /\ \A x \in Items : embedding'[x].text = embedding'[x].hash
  BY BatchTook DEF BatchEnd
<1>2. BatchTurn /\ send' \in {"idle", "waiting", "batch"}
  <2>1. ASSUME NEW kinds \in SUBSET {"note", "chunk"}, Prepare(embedding', kinds)
        PROVE  BatchTurn /\ send' \in {"idle", "waiting", "batch"}
    BY <1>1, <2>1, BatchPrepares
  <2>2. ASSUME NoNewBatch PROVE BatchTurn
    BY <1>1, <2>2, BatchStops
  <2> QED BY <2>1, <2>2 DEF BatchEnd, IInv, TypeOK
<1> QED BY <1>1, <1>2, BatchTurnInv DEF BatchEnd, IInv, TypeOK

-----------------------------------------------------------------------------
(***************************************************************************)
(* Debounced tasks.                                                        *)
(***************************************************************************)
LEMMA DebouncedTyped ==
  ASSUME TypeOK, NEW t \in Tasks
  PROVE  /\ debounced[t].state # "free" => debounced[t].note \in Notes
         /\ debounced[t] \in Debounced
BY DEF TypeOK, Debounced, NoTask

LEMMA EditInv == ASSUME IInv, NEW n \in Notes, Edit(n) PROVE IInv'
<1> USE DEF IInv
<1>1. PICK t \in Tasks :
        /\ debounced[t] = NoTask
        /\ debounced' = [u \in Tasks |->
             IF u = t THEN [note |-> n, state |-> "sleeping"]
             ELSE IF u = pending[n] /\ debounced[u].state = "sleeping"
             THEN [note |-> n, state |-> "cancelled"]
             ELSE debounced[u]]
        /\ pending' = [pending EXCEPT ![n] = t]
  BY DEF Edit
<1>2. /\ edits' = [edits EXCEPT ![n] = @ + 1] /\ edits[n] < MaxEdits
      /\ embedding' = [embedding EXCEPT ![n] = NoEmbedding]
      /\ UNCHANGED <<model, batchV, capture, queues>>
  BY DEF Edit
<1>3. PICK text \in Texts : content' = [content EXCEPT ![n] = text]
  BY DEF Edit
<1>4. n \in Items /\ edits[n] + 1 \in 0..MaxEdits
  BY <1>2, BoundsAssumption DEF TypeOK, Items
<1>5. debounced' \in [Tasks -> Debounced]
  BY <1>1 DEF TypeOK, Debounced
<1>6. embedding' \in [Items -> Embeddings]
  BY <1>2 DEF TypeOK, Embeddings
<1>7. TypeOK'
  BY <1>1, <1>2, <1>3, <1>4, <1>5, <1>6 DEF TypeOK, model, batchV, queues
<1>8. \A q \in Requesters : Due(q)' = Due(q)
  BY <1>1, <1>2 DEF Due, NoTask, Requesters, batchV
<1>9. Asked'
  BY <1>2, <1>8 DEF Asked, Outstanding, queues
<1>10. TextIsHash'
  BY <1>2, <1>4 DEF TextIsHash, NoEmbedding, TypeOK
<1> QED BY <1>2, <1>7, <1>9, <1>10 DEF HasModel, Captured, Matches, Rng, model, batchV, queues

LEMMA GiveUpInv == ASSUME IInv, NEW t \in Tasks, GiveUp(t) PROVE IInv'
<1> USE DEF IInv, GiveUp, data, batchV, queues, model
<1>1. TypeOK'
  BY DEF TypeOK, Debounced
<1>2. \A q \in Requesters : Due(q)' = Due(q)
  BY DEF Due, NoTask, Requesters, TypeOK
<1>3. Asked'
  BY <1>2 DEF Asked, Outstanding
<1> QED BY <1>1, <1>3 DEF HasModel, Captured, Matches, Rng, TextIsHash

\* A change of one requester's questions and of its state goes together.
LEMMA AskedKeeps ==
  ASSUME IInv, NEW q \in Requesters,
         \A p : p # q => Count(engineQ', p) + Count(mainQ', p) = Count(engineQ, p) + Count(mainQ, p),
         \A p \in Requesters : p # q => Due(p)' = Due(p),
         Count(engineQ', q) + Count(mainQ', q) = Due(q)'
  PROVE  Asked'
<1> SUFFICES ASSUME NEW p \in Requesters PROVE Outstanding(p)' = Due(p)'
  BY DEF Asked
<1>1. Outstanding(p)' = Count(engineQ', p) + Count(mainQ', p)
  BY DEF Outstanding, Count, For
<1>2. Outstanding(p) = Due(p) /\ Outstanding(p) = Count(engineQ, p) + Count(mainQ, p)
  BY OutstandingIsCount DEF IInv, Asked
<1>3. CASE p = q
  BY <1>1, <1>3
<1>4. CASE p # q
  <2>1. Due(p)' = Due(p)
    BY <1>4
  <2>2. Count(engineQ', p) + Count(mainQ', p) = Count(engineQ, p) + Count(mainQ, p)
    BY <1>4
  <2> QED BY <1>1, <1>2, <2>1, <2>2
<1> QED BY <1>3, <1>4

LEMMA WakeInv == ASSUME IInv, NEW t \in Tasks, Wake(t) PROVE IInv'
<1>0. t \in Requesters /\ t # Batch
  BY Bounds
<1>1. current # None /\ debounced[t].note \in Items
  BY DebouncedTyped DEF Wake, IInv, HasModel, Items
<1>2. mainQ' = mainQ /\ mainQ \in Seq(Answers)
      /\ Count(engineQ, t) \in Nat /\ Count(mainQ, t) \in Nat
  BY QueuesTyped DEF Wake, IInv
<1>3. Count(engineQ, t) = 0 /\ Count(mainQ, t) = 0
  <2>1. Count(engineQ, t) + Count(mainQ, t) = 0
    BY <1>0, OutstandingIsCount DEF IInv, Asked, Due, Wake
  <2> QED BY <1>2, <2>1
<1>4. /\ capture' \in [Requesters -> Captures] /\ engineQ' \in Seq(Calls)
      /\ Count(engineQ', t) = 1 /\ \A p : p # t => Count(engineQ', p) = Count(engineQ, p)
      /\ Captured'
  BY <1>0, <1>1, <1>2, <1>3, Asking DEF Wake
<1>5. debounced' = [debounced EXCEPT ![t] = [note |-> debounced[t].note, state |-> "embedding"]]
      /\ debounced[t].note \in Notes
  BY DebouncedTyped DEF Wake, IInv
<1>6. TypeOK'
  BY <1>2, <1>4, <1>5 DEF IInv, TypeOK, Debounced, Wake, model, data, batchV
<1>7. Due(t)' = 1 /\ \A p \in Requesters : p # t => Due(p)' = Due(p)
  BY <1>0, <1>5 DEF IInv, TypeOK, Due, Requesters, Wake, batchV
<1>8. Asked'
  BY <1>0, <1>2, <1>3, <1>4, <1>7, AskedKeeps
<1> QED BY <1>4, <1>6, <1>8 DEF IInv, HasModel, TextIsHash, Wake, model, data, batchV

LEMMA EmbedNoteInv == ASSUME IInv, NEW t \in Tasks, EmbedNote(t) PROVE IInv'
<1>0. t \in Requesters /\ t # Batch
  BY Bounds
<1>1. /\ mainQ' \in Seq(Answers) /\ Rng(mainQ') \subseteq Rng(mainQ)
      /\ Due(t) = 1 /\ Count(engineQ, t) = 0 /\ Count(mainQ', t) = 0
      /\ \A p : p # t => Count(mainQ', p) = Count(mainQ, p)
  BY <1>0, Taken DEF EmbedNote
<1>2. embedding' \in [Items -> Embeddings] /\ \A x \in Items : embedding'[x].text = embedding'[x].hash
  BY <1>0, StoredKeeps DEF EmbedNote
<1>3. debounced[t].state = "embedding"
  BY <1>0, <1>1 DEF Due
<1>4. debounced[t].note \in Notes
  BY <1>3, DebouncedTyped DEF IInv
<1>5. capture' \in [Requesters -> Captures] /\ Captured'
  BY <1>0, <1>1, Forgetting DEF EmbedNote
<1>6. TypeOK'
  BY <1>1, <1>2, <1>4, <1>5 DEF IInv, TypeOK, Debounced, EmbedNote, model, batchV
<1>7. Due(t)' = 0 /\ \A p \in Requesters : p # t => Due(p)' = Due(p)
  BY <1>0 DEF IInv, TypeOK, Due, NoTask, Requesters, EmbedNote, batchV
<1>8. engineQ' = engineQ
  BY DEF EmbedNote
<1>9. Asked'
  BY <1>0, <1>1, <1>7, <1>8, AskedKeeps
<1> QED BY <1>2, <1>5, <1>6, <1>9 DEF IInv, HasModel, TextIsHash, EmbedNote, model, batchV

-----------------------------------------------------------------------------
(***************************************************************************)
(* The model and the engine.                                               *)
(***************************************************************************)
\* A call of nobody: no requester has more questions by it.
LEMMA CallOfNobody ==
  ASSUME IInv, NEW c \in Calls, c.op # "embed", engineQ' = Append(engineQ, c), mainQ' = mainQ,
         capture' = capture, UNCHANGED <<isIndexing, debounced>>
  PROVE  engineQ' \in Seq(Calls) /\ Asked' /\ Captured'
<1>1. engineQ \in Seq(Calls)
  BY DEF IInv, TypeOK
<1>2. engineQ' \in Seq(Calls) /\ Rng(engineQ') = Rng(engineQ) \cup {c}
  BY <1>1, RngAppend
<1>3. \A p \in Requesters : c.to # p
  BY Bounds DEF Calls
<1>4. \A p : Count(engineQ', p) = Count(engineQ, p) + (IF c.to = p THEN 1 ELSE 0)
  BY <1>1, CountAppend
<1>5. ASSUME NEW p \in Requesters PROVE Outstanding(p)' = Due(p)'
  <2>1. Count(engineQ', p) = Count(engineQ, p) /\ mainQ' = mainQ
    BY <1>3, <1>4, QueuesTyped DEF IInv
  <2>2. Outstanding(p)' = Count(engineQ', p) + Count(mainQ', p)
    BY DEF Outstanding, Count, For
  <2>3. Due(p)' = Due(p)
    BY DEF Due
  <2> QED BY <2>1, <2>2, <2>3, OutstandingIsCount DEF IInv, Asked
<1>6. Captured'
  BY <1>2 DEF IInv, Captured, Matches
<1> QED BY <1>2, <1>5, <1>6 DEF Asked

LEMMA LoadModelInv == ASSUME IInv, NEW m \in EmbeddingModels, LoadModel(m) PROVE IInv'
<1> DEFINE c == Call("load", None, 0, m)
<1>1. c \in Calls /\ c.op # "embed" /\ engineQ' = Append(engineQ, c)
  BY DEF Calls, Call, LoadModel
<1> HIDE DEF c
<1>2. engineQ' \in Seq(Calls) /\ Asked' /\ Captured'
  BY <1>1, CallOfNobody DEF LoadModel, batchV, tasks
<1>3. loads + 1 \in 0..MaxLoads
  BY BoundsAssumption DEF LoadModel, IInv, TypeOK
<1>4. TypeOK'
  BY <1>2, <1>3 DEF LoadModel, IInv, TypeOK, data, tasks, batchV
<1> QED BY <1>2, <1>4 DEF IInv, HasModel, TextIsHash, LoadModel, data, batchV

LEMMA OffloadInv == ASSUME IInv, Offload PROVE IInv'
<1> DEFINE c == Call("unload", None, 0, None)
<1>1. c \in Calls /\ c.op # "embed" /\ engineQ' = Append(engineQ, c)
  BY DEF Calls, Call, Offload
<1> HIDE DEF c
<1>2. engineQ' \in Seq(Calls) /\ Asked' /\ Captured'
  BY <1>1, CallOfNobody DEF Offload, batchV, tasks
<1>3. loads + 1 \in 0..MaxLoads
  BY BoundsAssumption DEF Offload, IInv, TypeOK
<1>4. TypeOK'
  BY <1>2, <1>3 DEF Offload, IInv, TypeOK, data, tasks, batchV
<1> QED BY <1>2, <1>4 DEF IInv, HasModel, TextIsHash, Offload, data, batchV

LEMMA ModelAnswerInv == ASSUME IInv, ModelAnswer PROVE IInv'
<1>1. mainQ \in Seq(Answers) /\ mainQ # <<>> /\ mainQ' = Tail(mainQ)
  BY DEF ModelAnswer, IInv, TypeOK
<1> DEFINE a == Head(mainQ)
           rest == Tail(mainQ)
<1>2. rest \in Seq(Answers) /\ Rng(rest) \subseteq Rng(mainQ) /\ a \in Answers
  BY <1>1, RngTail
<1>3. a.op \in {"load", "unload"} /\ a.model \in EmbeddingModels \cup {None}
      /\ \A p \in Requesters : a.to # p
  BY <1>2, Bounds DEF Answers, ModelAnswer
<1>4. \A p : Count(mainQ, p) = Count(rest, p) + (IF a.to = p THEN 1 ELSE 0)
  BY <1>1, CountTail
<1>5. \A p : Count(rest, p) \in Nat
  BY <1>2, ForFinite
<1>6. mainQ' = rest /\ loaded' = (a.model # None)
      /\ current' = (IF a.model # None THEN a.model ELSE current) /\ loading' = FALSE
      /\ UNCHANGED <<loads, data, tasks, batchV, capture, engineModel, engineQ>>
  BY DEF ModelAnswer
<1> HIDE DEF a, rest
<1>7. TypeOK'
  BY <1>2, <1>3, <1>6 DEF IInv, TypeOK, data, tasks, batchV
<1>8. HasModel'
  BY <1>6 DEF IInv, HasModel, batchV
<1>9. ASSUME NEW p \in Requesters PROVE Outstanding(p)' = Due(p)'
  <2>1. Count(rest, p) = Count(mainQ, p)
    BY <1>3, <1>4, <1>5
  <2>2. Outstanding(p)' = Count(engineQ, p) + Count(rest, p)
    BY <1>6 DEF Outstanding, Count, For
  <2>3. Due(p)' = Due(p)
    BY <1>6 DEF Due, batchV, tasks
  <2> QED BY <2>1, <2>2, <2>3, OutstandingIsCount DEF IInv, Asked
<1>10. Captured'
  BY <1>2, <1>6 DEF IInv, Captured, Matches
<1> QED BY <1>6, <1>7, <1>8, <1>9, <1>10 DEF IInv, Asked, TextIsHash, data

\* The engine answers a call under the name and with the text it came with.
LEMMA Served ==
  ASSUME IInv, engineQ # <<>>, engineQ' = Tail(engineQ), NEW a \in Answers,
         a.op = Head(engineQ).op, a.to = Head(engineQ).to, a.text = Head(engineQ).text,
         mainQ' = Append(mainQ, a), engineModel' \in EmbeddingModels \cup {None},
         UNCHANGED <<model, data, tasks, batchV, capture>>
  PROVE  IInv'
<1>1. engineQ \in Seq(Calls) /\ mainQ \in Seq(Answers)
  BY DEF IInv, TypeOK
<1> DEFINE c == Head(engineQ)
           rest == Tail(engineQ)
<1>2. rest \in Seq(Calls) /\ Rng(rest) \subseteq Rng(engineQ) /\ c \in Rng(engineQ)
  BY <1>1, RngTail
<1>3. mainQ' \in Seq(Answers) /\ Rng(mainQ') = Rng(mainQ) \cup {a}
  BY <1>1, RngAppend
<1>4. \A p : Count(engineQ, p) = Count(rest, p) + (IF c.to = p THEN 1 ELSE 0)
  BY <1>1, CountTail
<1>5. \A p : Count(mainQ', p) = Count(mainQ, p) + (IF a.to = p THEN 1 ELSE 0)
  BY <1>1, CountAppend
<1>6. \A p : Count(rest, p) \in Nat /\ Count(mainQ, p) \in Nat
  BY <1>1, <1>2, ForFinite
<1>7. engineQ' = rest /\ a.to = c.to /\ a.op = c.op /\ a.text = c.text
  OBVIOUS
<1> HIDE DEF c, rest
<1>8. TypeOK'
  BY <1>2, <1>3, <1>7 DEF IInv, TypeOK, model, data, tasks, batchV
<1>9. ASSUME NEW p \in Requesters PROVE Outstanding(p)' = Due(p)'
  <2>1. Count(rest, p) + Count(mainQ', p) = Count(engineQ, p) + Count(mainQ, p)
    BY <1>4, <1>5, <1>6, <1>7
  <2>2. Outstanding(p)' = Count(rest, p) + Count(mainQ', p)
    BY <1>7 DEF Outstanding, Count, For
  <2>3. Due(p)' = Due(p)
    BY DEF Due, batchV, tasks
  <2> QED BY <2>1, <2>2, <2>3, OutstandingIsCount DEF IInv, Asked
<1>10. Captured'
  BY <1>2, <1>3, <1>7 DEF IInv, Captured, Matches
<1> QED BY <1>8, <1>9, <1>10 DEF IInv, Asked, HasModel, TextIsHash, model, data, batchV

LEMMA ServeInv == ASSUME IInv, Serve PROVE IInv'
<1>1. engineQ # <<>> => Head(engineQ) \in Calls
  BY RngTail DEF IInv, TypeOK
<1>2. engineModel \in EmbeddingModels \cup {None}
  BY DEF IInv, TypeOK
<1>3. ASSUME ServeEmbed PROVE IInv'
  <2> DEFINE c == Head(engineQ)
  <2>1. PICK m \in {engineModel, None} : mainQ' = Append(mainQ, Call("embed", c.to, c.text, m))
    BY <1>3 DEF ServeEmbed, Answer
  <2>2. c.op = "embed" /\ c.to \in Requesters /\ c.text \in Texts
    BY <1>1, <1>3 DEF ServeEmbed, Calls
  <2> DEFINE a == Call("embed", c.to, c.text, m)
  <2>3. a \in Answers /\ a.op = c.op /\ a.to = c.to /\ a.text = c.text
    BY <1>2, <2>2 DEF Call, Answers
  <2> QED BY <1>2, <1>3, <2>1, <2>3, Served DEF ServeEmbed
<1>4. ASSUME ServeLoad PROVE IInv'
  <2>1. Head(engineQ).op = "load" /\ Head(engineQ).to = None /\ Head(engineQ).text = 0
        /\ Head(engineQ).model \in EmbeddingModels
    BY <1>1, <1>4 DEF ServeLoad, Calls
  <2>2. PICK m \in EmbeddingModels \cup {None} :
          /\ mainQ' = Append(mainQ, Call("load", None, 0, m))
          /\ engineModel' \in EmbeddingModels \cup {None}
    BY <1>2, <1>4, <2>1 DEF ServeLoad, Answer
  <2> DEFINE a == Call("load", None, 0, m)
  <2>3. a \in Answers /\ a.op = "load" /\ a.to = None /\ a.text = 0
    BY DEF Call, Answers
  <2> QED BY <1>4, <2>1, <2>2, <2>3, Served DEF ServeLoad
<1>5. ASSUME ServeUnload PROVE IInv'
  <2>1. Head(engineQ).op = "unload" /\ Head(engineQ).to = None /\ Head(engineQ).text = 0
    BY <1>1, <1>5 DEF ServeUnload, Calls
  <2> DEFINE a == Call("unload", None, 0, None)
  <2>2. a \in Answers /\ a.op = "unload" /\ a.to = None /\ a.text = 0
    BY DEF Call, Answers
  <2> QED BY <1>5, <2>1, <2>2, Served DEF ServeUnload, Answer
<1> QED BY <1>3, <1>4, <1>5 DEF Serve

-----------------------------------------------------------------------------
(***************************************************************************)
(* The invariant and the theorems.                                         *)
(***************************************************************************)
LEMMA InvInit == Init => IInv
<1> SUFFICES ASSUME Init PROVE IInv
  OBVIOUS
<1>1. <<>> \in Seq(Calls) /\ <<>> \in Seq(Answers)
  BY EmptySeq
<1>2. 0 \in 0..MaxEdits /\ 0 \in 0..MaxLoads
  BY BoundsAssumption
<1>3. TypeOK
  BY <1>1, <1>2, Bounds DEF Init, TypeOK, Embeddings, Debounced, Batches, Captures
<1>4. \A q : Count(engineQ, q) = 0 /\ Count(mainQ, q) = 0
  BY CountEmpty DEF Init
<1>5. Rng(engineQ) = {} /\ Rng(mainQ) = {}
  BY CountEmpty DEF Init
<1>6. \A q \in Requesters : Due(q) = 0
  BY DEF Init, Due, NoTask, Requesters
<1>7. Asked
  BY <1>4, <1>6, OutstandingIsCount DEF Asked
<1> QED BY <1>3, <1>5, <1>7 DEF Init, IInv, HasModel, Captured, TextIsHash, NoEmbedding

LEMMA InvStep == IInv /\ [Next]_vars => IInv'
<1> SUFFICES ASSUME IInv, [Next]_vars PROVE IInv'
  OBVIOUS
<1>1. CASE MainTurn
  BY <1>1, BatchNextInv, BatchEndInv, ModelAnswerInv, EmbedNoteInv DEF MainTurn
<1>2. CASE \E t \in Tasks : Timer(t)
  BY <1>2, GiveUpInv, WakeInv DEF Timer
<1>3. CASE UNCHANGED vars
  <2>1. send' = send /\ autoQ' = autoQ
    BY <1>3 DEF vars, batchV
  <2> QED BY <1>3, <2>1, QuietInv DEF vars, batchV, IInv, TypeOK
<1> QED BY <1>1, <1>2, <1>3, ServeInv, EditInv, StartAutoInv, RunAutoInv, ReindexInv, SendStartInv,
         SendWaitedInv, LoadModelInv, OffloadInv DEF Next

\* The strengthened invariant holds in every state.
THEOREM Invariant == Spec => []IInv
BY InvInit, InvStep, PTL DEF Spec

\* isIndexing is up exactly while one loop has one text at the engine: automatic, manual
\* and send-time indexing exclude one another (the checks of isIndexing in GlobalViewModel).
THEOREM AlwaysIndexInv == Spec => []IndexInv
<1>1. IInv => IndexInv
  BY Bounds DEF IInv, IndexInv, OneIndexer, Asked, Due
<1> QED BY <1>1, Invariant, PTL

\* What passes for fresh was computed from the text the item has now: the hash stored is
\* that of the text that was sent, whatever was edited, stored or loaded meanwhile
\* (indexSingleNote, indexSingleKnowledgeChunk).
THEOREM AlwaysFreshMeansCurrentText == Spec => []FreshMeansCurrentText
<1>1. IInv => FreshMeansCurrentText
  BY DEF IInv, FreshMeansCurrentText, Fresh, FreshIn, TextIsHash
<1> QED BY <1>1, Invariant, PTL

-----------------------------------------------------------------------------
(***************************************************************************)
(* The suggestions of the note editor.                                     *)
(***************************************************************************)

\* Unless an orphan wrote into it, text t consists of tokens of the pending request.
OfRequest(t) == Rng(t) \cap orphans = {} => \A q \in Rng(t) : requestOf[q] = request

Started(t) == \A q \in Rng(t) : phase[q] # "unused"

HandleMeansBusy == generationTask # NoRun => isGenerating
HandleOfRequest ==
  generationTask # NoRun =>
    /\ requestOf[generationTask] = request
    /\ OfRequest(prefix[generationTask])
AllStarted ==
  /\ \A r \in cancelled : phase[r] # "unused"
  /\ Started(previewText)
  /\ \A r \in Runs : Started(prefix[r])

-----------------------------------------------------------------------------
(***************************************************************************)
(* What a token does to the text.                                          *)
(***************************************************************************)
LEMMA TokensText ==
  ASSUME NEW S, NEW s \in Seq(S), NEW r \in S, NEW k \in Nat,
         NEW t, t = s \o [n \in 1..k |-> r]
  PROVE  t \in Seq(S) /\ Rng(s) \subseteq Rng(t) /\ Rng(t) \subseteq Rng(s) \cup {r}
<1> DEFINE u == [n \in 1..k |-> r]
<1>1. u \in Seq(S) /\ Len(u) = k
  BY IsASeq
<1>2. /\ t \in Seq(S) /\ Len(t) = Len(s) + Len(u)
      /\ \A i \in 1..Len(s) : t[i] = s[i]
      /\ \A i \in 1..Len(u) : t[Len(s) + i] = u[i]
  BY <1>1, ConcatProperties
<1>3. DOMAIN s = 1..Len(s) /\ DOMAIN t = 1..(Len(s) + k) /\ Len(s) \in Nat
  BY <1>1, <1>2, LenProperties
<1>4. Rng(s) \subseteq Rng(t)
  BY <1>2, <1>3 DEF Rng
<1>5. ASSUME NEW i \in DOMAIN t PROVE t[i] \in Rng(s) \cup {r}
  <2>1. CASE i \in 1..Len(s)
    BY <2>1, <1>2, <1>3 DEF Rng
  <2>2. CASE i \notin 1..Len(s)
    <3>1. i - Len(s) \in 1..k
      BY <2>2, <1>3
    <3>2. t[Len(s) + (i - Len(s))] = r
      BY <3>1, <1>1, <1>2
    <3> QED BY <3>2, <1>3, <3>1
  <2> QED BY <2>1, <2>2
<1> QED BY <1>2, <1>4, <1>5 DEF Rng

LEMMA TokensLast ==
  ASSUME NEW S, NEW s \in Seq(S), NEW r \in S, NEW k \in Nat, k > 0,
         NEW t, t = s \o [n \in 1..k |-> r]
  PROVE  r \in Rng(t)
<1> DEFINE u == [n \in 1..k |-> r]
<1>1. u \in Seq(S) /\ Len(u) = k /\ u[1] = r
  BY IsASeq
<1>2. /\ Len(t) = Len(s) + k /\ t \in Seq(S)
      /\ t[Len(s) + 1] = u[1]
  BY <1>1, ConcatProperties
<1>3. Len(s) + 1 \in DOMAIN t
  BY <1>2, LenProperties
<1> QED BY <1>1, <1>2, <1>3 DEF Rng

-----------------------------------------------------------------------------
(***************************************************************************)
(* Type correctness.                                                       *)
(***************************************************************************)
LEMMA ChangesAreTexts ==
  ASSUME NEW t \in Contents
  PROVE  /\ \A e \in 1..MaxTyped : t \cup {<<"typed", e>>} \in Contents
         /\ \A r \in Runs : t \cup {<<"draft", r>>} \in Contents
         /\ {} \in Contents
BY DEF Contents, Typed, Drafts

LEMMA RunGenerationType ==
  ASSUME EditorTypeOK, NEW r \in Runs, NEW req \in Runs, NEW text \in Seq(Runs),
         RunGeneration(r, req, text)
  PROVE  /\ cancelled' \in SUBSET Runs
         /\ isGenerating' \in BOOLEAN /\ generationTask' \in Runs \cup {NoRun}
         /\ previewText' \in Seq(Runs)
         /\ phase' \in [Runs -> {"unused", "opening", "stream", "done"}]
         /\ requestOf' \in [Runs -> Runs \cup {NoRun}]
         /\ prefix' \in [Runs -> Seq(Runs)]
BY DEF EditorTypeOK, RunGeneration, AliveRuns

LEMMA TypeInit == EditorInit => EditorTypeOK
<1> SUFFICES ASSUME EditorInit PROVE EditorTypeOK
  OBVIOUS
<1>1. <<>> \in Seq(Runs) /\ <<>> \in Seq(Contents) /\ {} \in Contents
  BY EmptySeq DEF Contents
<1>2. 0 \in 0..MaxTokens /\ 0 \in 0..MaxTyped /\ 0 \in 0..MaxUndos
  BY EditorBounds
<1> QED BY <1>1, <1>2 DEF EditorInit, EditorTypeOK

LEMMA TypeStep == EditorTypeOK /\ [EditorNext]_editorVars => EditorTypeOK'
<1> SUFFICES ASSUME EditorTypeOK, [EditorNext]_editorVars PROVE EditorTypeOK'
  OBVIOUS
<1> USE EditorBounds, NoRunAssumption
<1>0. <<>> \in Seq(Runs) /\ <<>> \in Seq(Contents)
  BY EmptySeq
<1>1. CASE Start
  <2>1. PICK r \in Runs : RunGeneration(r, r, <<>>) /\ request' = r
    BY <1>1 DEF Start
  <2> QED BY <2>1, <1>0, <1>1, RunGenerationType DEF Start, EditorTypeOK, note, editorVars
<1>2. CASE Resume
  <2>1. request \in Runs
    BY <1>2 DEF Resume, hasPendingPreview, EditorTypeOK
  <2>2. PICK r \in Runs : RunGeneration(r, request, previewText)
    BY <1>2 DEF Resume
  <2>3. previewText \in Seq(Runs)
    BY DEF EditorTypeOK
  <2> QED BY <2>1, <2>2, <2>3, <1>2, RunGenerationType DEF Resume, EditorTypeOK, note
<1>3. CASE Stop
  BY <1>3 DEF Stop, StopEffect, EditorTypeOK, note, draft, locals, AliveRuns
<1>4. CASE Accept
  <2>1. request \in Runs
    BY <1>4 DEF Accept, hasPendingPreview, EditorTypeOK
  <2>2. noteContent' \in Contents /\ base' \in Contents
    BY <1>4, <2>1, ChangesAreTexts DEF Accept, ClearState, EditorTypeOK
  <2>3. <<noteContent>> \in Seq(Contents)
    BY DEF EditorTypeOK
  <2>4. undoStack' \in Seq(Contents) /\ redoStack' \in Seq(Contents)
    BY <1>4, <2>3, <1>0, ConcatProperties DEF Accept, EditorTypeOK
  <2> QED BY <1>4, <1>0, <2>2, <2>4 DEF Accept, ClearState, StopEffect, EditorTypeOK, locals, AliveRuns
<1>5. CASE Discard
  <2>1. noteContent' \in Contents /\ base' \in Contents
    BY <1>5, ChangesAreTexts DEF Discard, ClearState, EditorTypeOK
  <2> QED BY <1>5, <1>0, <2>1 DEF Discard, ClearState, StopEffect, EditorTypeOK, locals, AliveRuns
<1>6. CASE Type
  <2>1. typedCount' \in 1..MaxTyped
    BY <1>6 DEF Type, EditorTypeOK
  <2>2. noteContent' \in Contents
    BY <1>6, <2>1, ChangesAreTexts DEF Type, EditorTypeOK
  <2> QED BY <1>6, <2>1, <2>2 DEF Type, EditorTypeOK, draft, handle, locals
<1>7. CASE Undo
  <2>1. noteContent' \in Contents /\ undoStack' \in Seq(Contents)
    BY <1>7, HeadTailProperties DEF Undo, EditorTypeOK
  <2>2. <<noteContent>> \in Seq(Contents)
    BY DEF EditorTypeOK
  <2>3. redoStack' \in Seq(Contents)
    BY <1>7, <2>2, ConcatProperties DEF Undo, EditorTypeOK
  <2> QED BY <1>7, <2>1, <2>3 DEF Undo, EditorTypeOK, handle, locals, hasPendingPreview
<1>8. CASE Redo
  <2>1. noteContent' \in Contents /\ redoStack' \in Seq(Contents)
    BY <1>8, HeadTailProperties DEF Redo, EditorTypeOK
  <2> QED BY <1>8, <2>1 DEF Redo, EditorTypeOK, handle, locals, hasPendingPreview
<1>9. CASE Reopen
  <2>1. base' \in Contents
    BY <1>9 DEF Reopen, Contents
  <2> QED BY <1>9, <1>0, <2>1 DEF Reopen, EditorTypeOK, note, locals, AliveRuns
<1>10. ASSUME NEW r \in Runs, RunStep(r) PROVE EditorTypeOK'
  <2>1. CASE Open(r)
    BY <2>1 DEF Open, EditorTypeOK, note, draft, handle, locals
  <2>2. CASE TakeToken(r)
    <3>1. out'[r] \in Nat /\ out' \in [Runs -> 0..MaxTokens]
      BY <2>2 DEF TakeToken, EditorTypeOK
    <3>2. prefix[r] \in Seq(Runs) /\ previewText' = prefix[r] \o [n \in 1..out'[r] |-> r]
      BY <2>2 DEF TakeToken, EditorTypeOK
    <3>3. PICK k, t : k \in Nat /\ k = out'[r] /\ t = previewText'
      BY <3>1
    <3>4. k \in Nat /\ t = prefix[r] \o [n \in 1..k |-> r]
      BY <3>2, <3>3
    <3>5. t \in Seq(Runs)
      BY <3>2, <3>4, TokensText
    <3>6. previewText' \in Seq(Runs)
      BY <3>3, <3>5
    <3> QED BY <2>2, <3>1, <3>6 DEF TakeToken, EditorTypeOK, note, handle, locals
  <2>3. CASE EndRun(r)
    BY <2>3 DEF EndRun, EditorTypeOK, note, draft, locals, Writers, AliveRuns
  <2> QED BY <1>10, <2>1, <2>2, <2>3 DEF RunStep
<1>11. CASE UNCHANGED editorVars
  BY <1>11 DEF editorVars, note, draft, handle, locals, EditorTypeOK
<1> QED BY <1>1, <1>2, <1>3, <1>4, <1>5, <1>6, <1>7, <1>8, <1>9, <1>10, <1>11 DEF EditorNext

\* The variables keep their types, whatever the user and the streams do.
THEOREM EditorTypeCorrect == EditorSpec => []EditorTypeOK
BY TypeInit, TypeStep, PTL DEF EditorSpec

-----------------------------------------------------------------------------
(***************************************************************************)
(* The runs and the handle.                                                *)
(***************************************************************************)
RunsInv == EditorTypeOK /\ PauseHasATask /\ HandleMeansBusy /\ OneWriter /\ AllStarted

\* A new run cancels the one before, so that it is the only one that writes.
LEMMA RunGenerationRuns ==
  ASSUME RunsInv, NEW r \in Runs, NEW req \in Runs, NEW text,
         RunGeneration(r, req, text), text = <<>> \/ text = previewText,
         orphans' = orphans
  PROVE  PauseHasATask' /\ HandleMeansBusy' /\ OneWriter' /\ AllStarted'
<1> USE NoRunAssumption DEF RunsInv
<1>1. /\ phase[r] = "unused" /\ r \notin cancelled /\ r \notin Rng(previewText)
      /\ \A q \in Runs : r \notin Rng(prefix[q])
  BY DEF RunGeneration, AllStarted, Started
<1>2. /\ phase' = [phase EXCEPT ![r] = "opening"] /\ prefix' = [prefix EXCEPT ![r] = text]
      /\ generationTask' = r /\ isGenerating' = TRUE /\ previewText' = text
      /\ cancelled' = cancelled \cup ({generationTask} \cap AliveRuns)
  BY DEF RunGeneration
<1>3. /\ AliveRuns' = AliveRuns \cup {r} /\ r \notin AliveRuns
  BY <1>1, <1>2 DEF AliveRuns, EditorTypeOK
<1>4. r \notin cancelled'
  BY <1>1, <1>2, <1>3
<1>5. Writers' \subseteq {r} \cup orphans
  BY <1>2, <1>3 DEF Writers, OneWriter
<1>6. \A q \in cancelled' : q \in Runs /\ phase[q] # "unused"
  BY <1>2 DEF AllStarted, AliveRuns, EditorTypeOK
<1>7. \A q \in Runs : phase[q] # "unused" => phase'[q] # "unused"
  BY <1>2 DEF EditorTypeOK
<1>8. Rng(<<>>) = {}
  BY DEF Rng
<1>9. \A i \in DOMAIN previewText : previewText[i] \in Runs
  BY DEF EditorTypeOK
<1>10. \A q \in Rng(text) : q \in Runs /\ phase[q] # "unused"
  BY <1>8, <1>9 DEF AllStarted, Started, Rng
<1>11. \A q \in Runs : \A i \in DOMAIN prefix[q] : prefix[q][i] \in Runs
  BY DEF EditorTypeOK
<1>12. \A q \in Runs : \A w \in Rng(prefix[q]) : w \in Runs /\ phase[w] # "unused"
  BY <1>11 DEF AllStarted, Started, Rng
<1>13. \A q \in Runs : \A w \in Rng(prefix'[q]) : w \in Runs /\ phase[w] # "unused"
  BY <1>2, <1>10, <1>12 DEF EditorTypeOK
<1>14. AllStarted'
  BY <1>2, <1>6, <1>7, <1>10, <1>13 DEF AllStarted, Started
<1>15. PauseHasATask' /\ HandleMeansBusy' /\ OneWriter'
  BY <1>2, <1>3, <1>4, <1>5 DEF PauseHasATask, HandleMeansBusy, OneWriter, Writers
<1> QED BY <1>14, <1>15

\* Stopping cancels the run the handle is for.
LEMMA StopEffectRuns ==
  ASSUME RunsInv, StopEffect, UNCHANGED <<phase, locals, orphans>>,
         previewText' = <<>> \/ previewText' = previewText
  PROVE  PauseHasATask' /\ HandleMeansBusy' /\ OneWriter' /\ AllStarted'
<1> USE DEF RunsInv
<1>1. /\ phase' = phase /\ prefix' = prefix /\ orphans' = orphans
      /\ generationTask' = NoRun /\ isGenerating' = FALSE
      /\ cancelled' = cancelled \cup ({generationTask} \cap AliveRuns)
  BY DEF StopEffect, locals
<1>2. AliveRuns' = AliveRuns
  BY <1>1 DEF AliveRuns
<1>3. Writers' \subseteq orphans
  BY <1>1, <1>2 DEF Writers, OneWriter
<1>4. \A q \in cancelled' : phase[q] # "unused"
  BY <1>1 DEF AllStarted, AliveRuns
<1>5. Started(previewText')
  BY DEF AllStarted, Started, Rng
<1> QED BY <1>1, <1>3, <1>4, <1>5 DEF PauseHasATask, HandleMeansBusy, OneWriter, AllStarted, Started

\* Steps that leave the runs alone.
LEMMA OtherStepRuns ==
  ASSUME RunsInv, UNCHANGED <<handle, phase, locals, cancelled, orphans, previewText>>
  PROVE  PauseHasATask' /\ HandleMeansBusy' /\ OneWriter' /\ AllStarted'
BY DEF RunsInv, handle, locals, PauseHasATask, HandleMeansBusy, OneWriter, AllStarted,
       Started, Writers, AliveRuns

LEMMA RunsStep == RunsInv /\ [EditorNext]_editorVars => RunsInv'
<1> SUFFICES ASSUME RunsInv, [EditorNext]_editorVars PROVE RunsInv'
  OBVIOUS
<1> DEFINE Goal == PauseHasATask' /\ HandleMeansBusy' /\ OneWriter' /\ AllStarted'
<1>t. EditorTypeOK /\ EditorTypeOK'
  BY TypeStep DEF RunsInv
<1>1. CASE Start
  <2>1. PICK r \in Runs : RunGeneration(r, r, <<>>)
    BY <1>1 DEF Start
  <2>2. orphans' = orphans
    BY <1>1 DEF Start
  <2>3. Goal
    BY <2>1, <2>2, RunGenerationRuns
  <2> QED BY <1>t, <2>3 DEF RunsInv
<1>2. CASE Resume
  <2>1. request \in Runs /\ orphans' = orphans
    BY <1>2, <1>t DEF Resume, hasPendingPreview, EditorTypeOK
  <2>2. PICK r \in Runs : RunGeneration(r, request, previewText)
    BY <1>2 DEF Resume
  <2>3. Goal
    BY <2>1, <2>2, RunGenerationRuns
  <2> QED BY <1>t, <2>3 DEF RunsInv
<1>3. CASE Stop \/ Accept \/ Discard
  <2>1. /\ StopEffect /\ UNCHANGED <<phase, locals, orphans>>
        /\ previewText' = <<>> \/ previewText' = previewText
    BY <1>3 DEF Stop, Accept, Discard, ClearState, draft
  <2>2. Goal
    BY <2>1, StopEffectRuns
  <2> QED BY <1>t, <2>2 DEF RunsInv
<1>4. CASE Type \/ Undo \/ Redo \/ UNCHANGED editorVars
  <2>1. UNCHANGED <<handle, phase, locals, cancelled, orphans, previewText>>
    BY <1>4 DEF Type, Undo, Redo, editorVars, draft, handle, locals
  <2>2. Goal
    BY <2>1, OtherStepRuns
  <2> QED BY <1>t, <2>2 DEF RunsInv
<1>5. CASE Reopen
  <2>1. /\ AliveRuns' = {} /\ generationTask' = NoRun /\ isGenerating' = FALSE
        /\ previewText' = <<>> /\ cancelled' = cancelled /\ prefix' = prefix
    BY <1>5, <1>t DEF Reopen, AliveRuns, EditorTypeOK, locals
  <2>2. Rng(previewText') = {}
    BY <2>1 DEF Rng
  <2>3. \A q \in Runs : phase[q] # "unused" => phase'[q] # "unused"
    BY <1>5, <1>t DEF Reopen, EditorTypeOK
  <2>4. \A q \in Runs : \A i \in DOMAIN prefix[q] : prefix[q][i] \in Runs
    BY <1>t DEF EditorTypeOK
  <2>5. AllStarted'
    <3>1. \A r \in cancelled' : phase'[r] # "unused"
      BY <2>1, <2>3, <1>t DEF RunsInv, AllStarted, EditorTypeOK
    <3>2. ASSUME NEW r \in Runs PROVE Started(prefix[r])'
      BY <2>1, <2>3, <2>4 DEF RunsInv, AllStarted, Started, Rng
    <3> QED BY <2>1, <2>2, <3>1, <3>2 DEF AllStarted, Started
  <2> QED BY <1>t, <2>1, <2>5 DEF RunsInv, PauseHasATask, HandleMeansBusy, OneWriter, Writers
<1>6. ASSUME NEW r \in Runs, RunStep(r) PROVE RunsInv'
  <2>0. /\ \A q \in Runs : \A i \in DOMAIN prefix[q] : prefix[q][i] \in Runs
        /\ \A i \in DOMAIN previewText : previewText[i] \in Runs
        /\ cancelled \subseteq Runs
    <3>1. \A q \in Runs : \A i \in DOMAIN prefix[q] : prefix[q][i] \in Runs
      BY <1>t DEF EditorTypeOK
    <3>2. \A i \in DOMAIN previewText : previewText[i] \in Runs
      BY <1>t DEF EditorTypeOK
    <3> QED BY <3>1, <3>2, <1>t DEF EditorTypeOK
  <2>1. CASE Open(r)
    <3>1. /\ UNCHANGED <<previewText, isGenerating, generationTask, prefix, cancelled, orphans>>
          /\ phase[r] = "opening" /\ phase' = [phase EXCEPT ![r] = "stream"]
      BY <2>1 DEF Open, draft, handle, locals
    <3>2. AliveRuns' = AliveRuns
      BY <3>1, <1>t DEF AliveRuns, EditorTypeOK
    <3>3. \A q \in Runs : phase[q] # "unused" => phase'[q] # "unused"
      BY <3>1, <1>t DEF EditorTypeOK
    <3>4. AllStarted'
      BY <3>1, <3>3, <2>0 DEF RunsInv, AllStarted, Started, Rng
    <3> QED BY <1>t, <3>1, <3>2, <3>4 DEF RunsInv, PauseHasATask, HandleMeansBusy, OneWriter, Writers
  <2>2. CASE TakeToken(r)
    <3>1. /\ UNCHANGED <<phase, isGenerating, generationTask, prefix, cancelled, orphans>>
          /\ phase[r] = "stream" /\ out' = [out EXCEPT ![r] = @ + 1] /\ out[r] < MaxTokens
          /\ previewText' = prefix[r] \o [n \in 1..out'[r] |-> r]
      BY <2>2 DEF TakeToken, handle, locals
    <3>2. prefix[r] \in Seq(Runs) /\ out'[r] \in Nat
      BY <3>1, <1>t, EditorBounds DEF EditorTypeOK
    <3>p. PICK k, t : k \in Nat /\ k = out'[r] /\ t = previewText'
      BY <3>2
    <3>q. k \in Nat /\ t = prefix[r] \o [n \in 1..k |-> r]
      BY <3>1, <3>p
    <3>s. Rng(t) \subseteq Rng(prefix[r]) \cup {r}
      BY <3>2, <3>q, TokensText DEF Rng
    <3>3. Rng(previewText)' \subseteq Rng(prefix[r]) \cup {r}
      BY <3>p, <3>s DEF Rng
    <3>4. Started(previewText)'
      BY <3>1, <3>3 DEF RunsInv, AllStarted, Started
    <3>5. AllStarted'
      BY <3>1, <3>4 DEF RunsInv, AllStarted, Started
    <3> QED BY <1>t, <3>1, <3>5 DEF RunsInv, PauseHasATask, HandleMeansBusy, OneWriter, Writers, AliveRuns
  <2>3. CASE EndRun(r)
    <3>1. /\ UNCHANGED <<previewText, prefix, cancelled>>
          /\ isGenerating' = FALSE /\ generationTask' = NoRun
          /\ phase' = [phase EXCEPT ![r] = "done"]
          /\ orphans' = orphans \cup ({generationTask} \cap (Writers \ {r}))
      BY <2>3 DEF EndRun, draft, locals
    <3>2. Writers' = Writers \ {r}
      BY <3>1, <1>t DEF Writers, AliveRuns, EditorTypeOK
    <3>3. \A q \in Runs : phase[q] # "unused" => phase'[q] # "unused"
      BY <3>1, <1>t DEF EditorTypeOK
    <3>4. AllStarted'
      BY <3>1, <3>3, <2>0 DEF RunsInv, AllStarted, Started, Rng
    <3>5. Writers' \subseteq orphans'
      BY <3>1, <3>2 DEF RunsInv, OneWriter
    <3> QED BY <1>t, <3>1, <3>4, <3>5 DEF RunsInv, PauseHasATask, HandleMeansBusy, OneWriter
  <2> QED BY <1>6, <2>1, <2>2, <2>3 DEF RunStep
<1> QED BY <1>1, <1>2, <1>3, <1>4, <1>5, <1>6 DEF EditorNext

LEMMA RunsInit == EditorInit => RunsInv
<1> SUFFICES ASSUME EditorInit PROVE RunsInv
  OBVIOUS
<1>1. Rng(<<>>) = {}
  BY DEF Rng
<1>2. AliveRuns = {}
  BY DEF EditorInit, AliveRuns
<1> QED BY <1>1, <1>2, TypeInit, NoRunAssumption
        DEF EditorInit, RunsInv, PauseHasATask, HandleMeansBusy, OneWriter, AllStarted, Started, Writers

\* While Pause is shown, there is a run that goes on and that it stops.
THEOREM PauseAlwaysHasATask == EditorSpec => []PauseHasATask
<1>1. RunsInv => PauseHasATask
  BY DEF RunsInv
<1> QED BY <1>1, RunsInit, RunsStep, PTL DEF EditorSpec

\* Only the run of the handle writes into the draft, orphans apart.
THEOREM AlwaysOneWriter == EditorSpec => []OneWriter
<1>1. RunsInv => OneWriter
  BY DEF RunsInv
<1> QED BY <1>1, RunsInit, RunsStep, PTL DEF EditorSpec

-----------------------------------------------------------------------------
(***************************************************************************)
(* What is in the draft.                                                   *)
(***************************************************************************)
DraftInv == RunsInv /\ HandleOfRequest /\ OfRequest(previewText)

\* A new run writes after a text of its own request.
LEMMA RunGenerationDraft ==
  ASSUME DraftInv, NEW r \in Runs, NEW req \in Runs, NEW text \in Seq(Runs),
         RunGeneration(r, req, text), request' = req, orphans' = orphans,
         text = <<>> \/ (text = previewText /\ req = request)
  PROVE  HandleOfRequest' /\ OfRequest(previewText)'
<1>1. /\ generationTask' = r /\ previewText' = text
      /\ requestOf' = [requestOf EXCEPT ![r] = req] /\ prefix' = [prefix EXCEPT ![r] = text]
  BY DEF RunGeneration
<1>2. /\ requestOf'[r] = req /\ prefix'[r] = text
      /\ \A q \in Runs \ {r} : requestOf'[q] = requestOf[q]
  BY <1>1 DEF DraftInv, RunsInv, EditorTypeOK
<1>3. r \notin Rng(previewText)
  BY DEF RunGeneration, DraftInv, RunsInv, AllStarted, Started
<1>4. Rng(<<>>) = {}
  BY DEF Rng
<1>5. \A q \in Rng(text) : q \in Runs
  BY DEF Rng
<1>6. Rng(text) \cap orphans = {} => \A q \in Rng(text) : requestOf'[q] = req
  <2>1. CASE text = <<>>
    BY <2>1, <1>4
  <2>2. CASE text = previewText /\ req = request
    BY <2>2, <1>2, <1>3, <1>5 DEF DraftInv, OfRequest
  <2> QED BY <2>1, <2>2
<1>7. /\ OfRequest(previewText)' 
      /\ Rng(prefix'[r]) \cap orphans' = {} =>
            \A q \in Rng(prefix'[r]) : requestOf'[q] = request'
  BY <1>1, <1>2, <1>6 DEF OfRequest
<1> QED BY <1>1, <1>2, <1>7 DEF HandleOfRequest, OfRequest

LEMMA DraftStep == DraftInv /\ [EditorNext]_editorVars => DraftInv'
<1> SUFFICES ASSUME DraftInv, [EditorNext]_editorVars PROVE DraftInv'
  OBVIOUS
<1> DEFINE Goal == HandleOfRequest' /\ OfRequest(previewText)'
<1>r. RunsInv /\ RunsInv' /\ EditorTypeOK
  BY RunsStep DEF DraftInv, RunsInv
<1>0. Rng(<<>>) = {}
  BY DEF Rng
<1>1. CASE Start
  <2>1. PICK r \in Runs : RunGeneration(r, r, <<>>) /\ request' = r
    BY <1>1 DEF Start
  <2>2. orphans' = orphans /\ <<>> \in Seq(Runs)
    BY <1>1, EmptySeq DEF Start
  <2>3. Goal
    BY <2>1, <2>2, RunGenerationDraft
  <2> QED BY <1>r, <2>3 DEF DraftInv
<1>2. CASE Resume
  <2>1. request \in Runs /\ orphans' = orphans /\ request' = request
    BY <1>2, <1>r DEF Resume, hasPendingPreview, EditorTypeOK
  <2>2. PICK r \in Runs : RunGeneration(r, request, previewText)
    BY <1>2 DEF Resume
  <2>3. previewText \in Seq(Runs)
    BY <1>r DEF EditorTypeOK
  <2>4. Goal
    BY <2>1, <2>2, <2>3, RunGenerationDraft
  <2> QED BY <1>r, <2>4 DEF DraftInv
<1>3. CASE Stop
  <2>1. generationTask' = NoRun /\ UNCHANGED <<previewText, request, requestOf, orphans>>
    BY <1>3 DEF Stop, StopEffect, draft, locals
  <2> QED BY <1>r, <2>1 DEF DraftInv, HandleOfRequest, OfRequest
<1>4. CASE Accept \/ Discard \/ Reopen
  <2>1. generationTask' = NoRun /\ previewText' = <<>>
    BY <1>4 DEF Accept, Discard, Reopen, ClearState, StopEffect
  <2>2. Rng(previewText)' = {}
    BY <2>1 DEF Rng
  <2> QED BY <1>r, <2>1, <2>2 DEF DraftInv, HandleOfRequest, OfRequest
<1>5. CASE Type \/ Undo \/ Redo \/ UNCHANGED editorVars
  <2>1. UNCHANGED <<generationTask, previewText, request, requestOf, prefix, orphans>>
    BY <1>5 DEF Type, Undo, Redo, editorVars, draft, handle, locals
  <2> QED BY <1>r, <2>1 DEF DraftInv, HandleOfRequest, OfRequest
<1>6. ASSUME NEW r \in Runs, RunStep(r) PROVE DraftInv'
  <2>1. CASE Open(r)
    <3>1. UNCHANGED <<generationTask, previewText, request, requestOf, prefix, orphans>>
      BY <2>1 DEF Open, draft, handle, locals
    <3> QED BY <1>r, <3>1 DEF DraftInv, HandleOfRequest, OfRequest
  <2>2. CASE TakeToken(r)
    <3>1. /\ UNCHANGED <<generationTask, request, requestOf, prefix, orphans>>
          /\ r \in Writers /\ out' = [out EXCEPT ![r] = @ + 1]
          /\ previewText' = prefix[r] \o [n \in 1..out'[r] |-> r]
      BY <2>2 DEF TakeToken, handle, locals, Writers, AliveRuns
    <3>2. prefix[r] \in Seq(Runs) /\ out'[r] \in Nat /\ out'[r] > 0
      BY <3>1, <1>r, EditorBounds DEF EditorTypeOK
    <3>3. PICK k, s, t : /\ k \in Nat /\ k = out'[r]
                             /\ s \in Seq(Runs) /\ s = prefix[r] /\ t = previewText'
      BY <3>2
    <3>4. s \in Seq(Runs) /\ k \in Nat /\ t = s \o [n \in 1..k |-> r] /\ k > 0
      BY <3>1, <3>2, <3>3
    <3>t. Rng(s) \subseteq Rng(t)
      BY <3>4, TokensText DEF Rng
    <3>v. Rng(t) \subseteq Rng(s) \cup {r}
      BY <3>4, TokensText DEF Rng
    <3>w. r \in Rng(t)
      BY <3>4, TokensLast DEF Rng
    <3>5. /\ Rng(prefix[r]) \subseteq Rng(t) /\ Rng(t) \subseteq Rng(prefix[r]) \cup {r}
          /\ r \in Rng(t)
      BY <3>3, <3>4, <3>t, <3>v, <3>w DEF Rng
    <3>6. Rng(previewText)' = Rng(t)
      BY <3>3 DEF Rng
    <3>7. r = generationTask \/ r \in orphans
      BY <3>1, <1>r DEF RunsInv, OneWriter
    <3>8. ASSUME Rng(t) \cap orphans = {} PROVE \A q \in Rng(t) : requestOf[q] = request
      <4>1. r = generationTask /\ r # NoRun
        BY <3>5, <3>7, <3>8, NoRunAssumption
      <4>2. requestOf[r] = request /\ OfRequest(prefix[r])
        BY <4>1 DEF DraftInv, HandleOfRequest
      <4>3. Rng(prefix[r]) \cap orphans = {}
        BY <3>5, <3>8
      <4> QED BY <3>5, <4>2, <4>3 DEF OfRequest
    <3>9. OfRequest(previewText)'
      BY <3>1, <3>6, <3>8 DEF OfRequest
    <3>10. HandleOfRequest'
      BY <3>1 DEF DraftInv, HandleOfRequest, OfRequest
    <3> QED BY <1>r, <3>9, <3>10 DEF DraftInv
  <2>3. CASE EndRun(r)
    <3>1. /\ UNCHANGED <<previewText, request, requestOf>>
          /\ generationTask' = NoRun /\ orphans \subseteq orphans'
      BY <2>3 DEF EndRun, draft, locals
    <3> QED BY <1>r, <3>1 DEF DraftInv, HandleOfRequest, OfRequest
  <2> QED BY <1>6, <2>1, <2>2, <2>3 DEF RunStep
<1> QED BY <1>1, <1>2, <1>3, <1>4, <1>5, <1>6 DEF EditorNext

LEMMA DraftInit == EditorInit => DraftInv
<1>1. Rng(<<>>) = {}
  BY DEF Rng
<1> QED BY <1>1, RunsInit DEF EditorInit, DraftInv, HandleOfRequest, OfRequest

\* The draft under Accept is of the pending request, unless an orphan wrote into it.
THEOREM DraftAlwaysOfThisRequest == EditorSpec => []DraftOfThisRequest
<1>1. DraftInv => DraftOfThisRequest
  BY DEF DraftInv, OfRequest, Rng, DraftOfThisRequest
<1> QED BY <1>1, DraftInit, DraftStep, PTL DEF EditorSpec

-----------------------------------------------------------------------------
(***************************************************************************)
(* The snapshot, and the promise to the user.                              *)
(***************************************************************************)
LEMMA SnapshotStep == SnapshotIsCurrent /\ [EditorNext]_editorVars => SnapshotIsCurrent'
<1> SUFFICES ASSUME SnapshotIsCurrent, [EditorNext]_editorVars PROVE SnapshotIsCurrent'
  OBVIOUS
<1> USE DEF SnapshotIsCurrent, hasPendingPreview
<1>1. CASE Start
  BY <1>1 DEF Start, note
<1>2. CASE Resume \/ Stop
  BY <1>2 DEF Resume, Stop, note, draft
<1>3. CASE Accept \/ Discard \/ Reopen
  BY <1>3 DEF Accept, Discard, Reopen, ClearState
<1>4. CASE Type
  BY <1>4 DEF Type, draft
<1>5. CASE Undo \/ Redo
  BY <1>5 DEF Undo, Redo
<1>6. ASSUME NEW r \in Runs, RunStep(r) PROVE SnapshotIsCurrent'
  BY <1>6 DEF RunStep, Open, TakeToken, EndRun, note, draft
<1>7. CASE UNCHANGED editorVars
  BY <1>7 DEF editorVars, note, draft
<1> QED BY <1>1, <1>2, <1>3, <1>4, <1>5, <1>6, <1>7 DEF EditorNext

LEMMA SnapshotInit == EditorInit => SnapshotIsCurrent
BY DEF EditorInit, SnapshotIsCurrent, hasPendingPreview

\* What Accept and Discard write over is the text the request was started on.
THEOREM SnapshotAlwaysCurrent == EditorSpec => []SnapshotIsCurrent
BY SnapshotInit, SnapshotStep, PTL DEF EditorSpec

\* Every step of the editor is one of the promise, or none of its business.
LEMMA PromiseStep ==
  ASSUME EditorTypeOK, SnapshotIsCurrent, [EditorNext]_editorVars
  PROVE  [Promise!Next]_(Promise!vars)
<1> USE DEF Promise!Next, Promise!vars, hasPendingPreview
<1>1. CASE Start
  BY <1>1 DEF Start, note, Promise!Ask
<1>2. CASE Resume \/ Stop
  BY <1>2 DEF Resume, Stop, note, draft
<1>3. CASE Accept
  <2>1. request # NoRun /\ request' = NoRun /\ reverted' = FALSE
    BY <1>3 DEF Accept, ClearState
  <2>2. noteContent' = base \cup {<<"draft", request>>}
    BY <1>3 DEF Accept
  <2>3. ~reverted => base = noteContent
    BY <2>1 DEF SnapshotIsCurrent
  <2> QED BY <2>1, <2>2, <2>3 DEF Promise!Accept
<1>4. CASE Discard
  BY <1>4 DEF Discard, ClearState, SnapshotIsCurrent, Promise!Decline
<1>5. CASE Reopen
  BY <1>5 DEF Reopen, note, Promise!Decline
<1>6. CASE Type
  BY <1>6 DEF Type, draft, Promise!Edit
<1>7. CASE Undo \/ Redo
  BY <1>7 DEF Undo, Redo, Promise!Revert
<1>8. ASSUME NEW r \in Runs, RunStep(r) PROVE [Promise!Next]_(Promise!vars)
  BY <1>8 DEF RunStep, Open, TakeToken, EndRun, note, draft
<1>9. CASE UNCHANGED editorVars
  BY <1>9 DEF editorVars, note, draft
<1> QED BY <1>1, <1>2, <1>3, <1>4, <1>5, <1>6, <1>7, <1>8, <1>9 DEF EditorNext

\* The editor implements SuggestedEdit: accepting adds the draft to the user's text
\* and declining leaves it alone, for any number of runs and tokens.
THEOREM EditorKeepsPromise == EditorSpec => KeepsPromise
<1>1. EditorInit => Promise!Init
  BY DEF EditorInit, Promise!Init
<1>2. EditorTypeOK /\ SnapshotIsCurrent /\ [EditorNext]_editorVars => [Promise!Next]_(Promise!vars)
  BY PromiseStep
<1> QED BY <1>1, <1>2, EditorTypeCorrect, SnapshotAlwaysCurrent, PTL
        DEF EditorSpec, KeepsPromise, Promise!Spec
=============================================================================
