---------------------------- MODULE NoteIndexing ----------------------------
(***************************************************************************)
(* Keeping the embeddings of notes and knowledge chunks fresh: debounced   *)
(* tasks after an edit, batches under isIndexing, and the preparation of a *)
(* send, while the active embedding model may be changed.                  *)
(*                                                                         *)
(* Main-actor turns are atomic; answers come back in the order in which    *)
(* the LlamaContext actor served the calls.  A text is a version number,   *)
(* its hash is the version (SHA-256 taken as injective), and an embedding  *)
(* remembers which text went into it and which model computed it.          *)
(*                                                                         *)
(* A turn of a load or an unload before its engine call is folded into the *)
(* user's event (ModelLifecycle has it in full); indexAllNotes has no      *)
(* caller.                                                                 *)
(***************************************************************************)
EXTENDS Naturals, Sequences, FiniteSets

CONSTANTS Notes, Chunks,
          EmbeddingModels,
          None,          \* Swift nil
          MaxVersion,    \* bound: different texts of a note
          MaxEdits,      \* bound: edits of a note
          MaxTasks,      \* bound: debounced tasks alive at once
          MaxLoads,      \* bound: model loads and unloads
          Faults         \* whether embedding a text may fail

Items == Notes \cup Chunks
Tasks == 1..MaxTasks
Texts == 1..MaxVersion

ASSUME ItemsAssumption ==
  /\ Notes \cap Chunks = {} /\ None \notin EmbeddingModels /\ None \notin Nat
  /\ Faults \in BOOLEAN
ASSUME BoundsAssumption ==
  /\ MaxVersion \in Nat \ {0} /\ MaxTasks \in Nat \ {0}
  /\ MaxEdits \in Nat /\ MaxLoads \in Nat

VARIABLES
  content,      \* the text of each note and chunk
  embedding,    \* the embedding columns of each note and chunk
  current,      \* currentEmbeddingModelId
  loaded,       \* isEmbeddingModelLoaded
  loading,      \* isEmbeddingModelLoading
  debounced,    \* the debounced tasks
  pending,      \* pendingAutoIndexTasks
  isIndexing,
  batch,        \* the loop that set isIndexing
  send,         \* ensureRAGReadyBeforeSend of the message being sent
  autoQ,        \* startAutoIndex* tasks that have not run yet
  capture,      \* locals of indexSingleNote and indexSingleKnowledgeChunk
  engineModel,  \* the model whose context the engine holds
  engineQ,      \* calls waiting for the engine
  mainQ,        \* its answers
  edits, loads  \* counters of the bounds

model  == <<current, loaded, loading, loads>>
data   == <<content, embedding, edits>>
tasks  == <<debounced, pending>>
batchV == <<isIndexing, batch, send, autoQ>>
queues == <<engineModel, engineQ, mainQ>>

vars == <<model, data, tasks, batchV, capture, queues>>

-----------------------------------------------------------------------------
NoEmbedding == [text |-> 0, by |-> None, modelId |-> None, hash |-> 0]
Embeddings  == [text : Texts, by : EmbeddingModels, modelId : EmbeddingModels, hash : Texts]
                 \cup {NoEmbedding}

NoCapture == [item |-> None, modelId |-> None, hash |-> 0]
Captures  == [item : Items, modelId : EmbeddingModels, hash : Texts] \cup {NoCapture}

NoTask == [note |-> None, state |-> "free"]
Debounced == [note : Notes, state : {"sleeping", "cancelled", "embedding"}] \cup {NoTask}

Batch      == 0                 \* the batch, where tasks count from 1
Requesters == Tasks \cup {Batch}

NoBatch == [owner |-> None, kind |-> None, todo |-> {}]
Batches == [owner : {"auto", "reindex", "send"}, kind : {"note", "chunk"},
            todo : SUBSET Items] \cup {NoBatch}

Call(op, to, text, m) == [op |-> op, to |-> to, text |-> text, model |-> m]
Calls == [op : {"embed"}, to : Requesters, text : Texts, model : {None}]
           \cup [op : {"load"}, to : {None}, text : {0}, model : EmbeddingModels]
           \cup [op : {"unload"}, to : {None}, text : {0}, model : {None}]

\* An answer names the model that did the work, or nil after an error.
Answers == [op : {"embed"}, to : Requesters, text : Texts, model : EmbeddingModels \cup {None}]
             \cup [op : {"load", "unload"}, to : {None}, text : {0},
                   model : EmbeddingModels \cup {None}]

TypeOK ==
  /\ content \in [Items -> Texts] /\ embedding \in [Items -> Embeddings]
  /\ current \in EmbeddingModels \cup {None}
  /\ loaded \in BOOLEAN /\ loading \in BOOLEAN
  /\ debounced \in [Tasks -> Debounced]
  /\ pending \in [Notes -> Tasks \cup {None}]
  /\ isIndexing \in BOOLEAN /\ batch \in Batches
  /\ send \in {"idle", "waiting", "batch"}
  /\ autoQ \in SUBSET {"note", "chunk"}
  /\ capture \in [Requesters -> Captures]
  /\ engineModel \in EmbeddingModels \cup {None}
  /\ engineQ \in Seq(Calls) /\ mainQ \in Seq(Answers)
  /\ edits \in [Notes -> 0..MaxEdits] /\ loads \in 0..MaxLoads

KindOf(x)   == IF x \in Notes THEN "note" ELSE "chunk"

\* isNoteEmbeddingFresh, isKnowledgeChunkEmbeddingFresh.
FreshIn(emb, x) == /\ emb[x] # NoEmbedding
                   /\ emb[x].modelId = current
                   /\ emb[x].hash = content[x]
Fresh(x) == FreshIn(embedding, x)

\* notesNeedingEmbedding, knowledgeChunksNeedingEmbedding.
Stale(emb, kind) == {x \in Items : KindOf(x) = kind /\ ~FreshIn(emb, x)}

\* indexSingleNote up to its await: text, hash and model id are read at once.
Request(q, x) ==
  /\ capture' = [capture EXCEPT ![q] = [item |-> x, modelId |-> current,
                                        hash |-> content[x]]]
  /\ engineQ' = Append(engineQ, Call("embed", q, content[x], None))

\* Mistake to catch: the hash is taken after the await.
StoredLateHash(answer) ==
  LET c == capture[answer.to]
  IN IF answer.model = None THEN embedding
     ELSE [embedding EXCEPT ![c.item] = [text |-> answer.text, by |-> answer.model,
                                         modelId |-> c.modelId, hash |-> content[c.item]]]

\* indexSingleNote after its await; an error leaves the item as it is.
Stored(answer) ==
  LET c == capture[answer.to]
  IN IF answer.model = None THEN embedding
     ELSE [embedding EXCEPT ![c.item] = [text |-> answer.text, by |-> answer.model,
                                         modelId |-> c.modelId, hash |-> c.hash]]

AnswerTo(q) == mainQ # <<>> /\ Head(mainQ).op = "embed" /\ Head(mainQ).to = q

-----------------------------------------------------------------------------
(* Batches: ensureIndexedForRAG, ensureKnowledgeChunksIndexedForRAG and     *)
(* reindexKnowledgeBase.                                                    *)

StartBatch(owner, kind, items) ==
  /\ isIndexing' = TRUE
  /\ \E x \in items :
       /\ batch' = [owner |-> owner, kind |-> kind, todo |-> items \ {x}]
       /\ Request(Batch, x)

NoNewBatch ==
  /\ isIndexing' = FALSE
  /\ batch' = NoBatch
  /\ capture' = [capture EXCEPT ![Batch] = NoCapture]
  /\ UNCHANGED engineQ

\* ensureRAGReadyBeforeSend from the index check on, with no indexing going on:
\* notes first, then chunks, each only if some are stale.
Prepare(emb, kinds) ==
  LET stale == {k \in kinds : loaded /\ Stale(emb, k) # {}}
      first == IF "note" \in stale THEN "note" ELSE "chunk"
  IN IF stale = {}
     THEN NoNewBatch /\ send' = "idle"
     ELSE StartBatch("send", first, Stale(emb, first)) /\ send' = "batch"

\* startAutoIndexIfNeeded, startAutoIndexKnowledgeIfNeeded.
StartAuto(kind) ==
  /\ loaded /\ ~isIndexing /\ Stale(embedding, kind) # {}
  /\ autoQ' = autoQ \cup {kind}
  /\ UNCHANGED <<model, data, tasks, isIndexing, batch, send, capture, queues>>

\* Mistake to catch: the task relies on the check made when it was created.
RunAutoUnchecked(kind) ==
  /\ kind \in autoQ
  /\ autoQ' = autoQ \ {kind}
  /\ IF loaded /\ Stale(embedding, kind) # {}
     THEN StartBatch("auto", kind, Stale(embedding, kind))
     ELSE UNCHANGED <<isIndexing, batch, capture, engineQ>>
  /\ UNCHANGED <<model, data, tasks, send, engineModel, mainQ>>

\* Their Task checks again when it runs.
RunAuto(kind) ==
  /\ kind \in autoQ
  /\ autoQ' = autoQ \ {kind}
  /\ IF loaded /\ ~isIndexing /\ Stale(embedding, kind) # {}
     THEN StartBatch("auto", kind, Stale(embedding, kind))
     ELSE UNCHANGED <<isIndexing, batch, capture, engineQ>>
  /\ UNCHANGED <<model, data, tasks, send, engineModel, mainQ>>

\* reindexKnowledgeBase raises isIndexing before its Task runs; nothing can
\* come between, as every other loop checks isIndexing.
Reindex ==
  /\ loaded /\ ~isIndexing /\ Chunks # {}
  /\ StartBatch("reindex", "chunk", Chunks)
  /\ UNCHANGED <<model, data, tasks, send, autoQ, engineModel, mainQ>>

SendStart ==
  /\ send = "idle" /\ loaded
  /\ IF isIndexing
     THEN send' = "waiting" /\ UNCHANGED <<isIndexing, batch, capture, engineQ>>
     ELSE Prepare(embedding, {"note", "chunk"})
  /\ UNCHANGED <<model, data, tasks, autoQ, engineModel, mainQ>>

\* Mistake to catch: the wait has no deadline.
SendWaitedForEver ==
  /\ send = "waiting"
  /\ ~isIndexing /\ Prepare(embedding, {"note", "chunk"})
  /\ UNCHANGED <<model, data, tasks, autoQ, engineModel, mainQ>>

\* waitForIndexingToFinish polls isIndexing until the deadline.
SendWaited ==
  /\ send = "waiting"
  /\ \/ ~isIndexing /\ Prepare(embedding, {"note", "chunk"})
     \/ send' = "idle" /\ UNCHANGED <<isIndexing, batch, capture, engineQ>>
  /\ UNCHANGED <<model, data, tasks, autoQ, engineModel, mainQ>>

\* The batch takes an answer and asks for the next item.
BatchNext ==
  /\ AnswerTo(Batch)
  /\ embedding' = Stored(Head(mainQ))
  /\ mainQ' = Tail(mainQ)
  /\ \E x \in batch.todo :
       /\ batch' = [owner |-> batch.owner, kind |-> batch.kind, todo |-> batch.todo \ {x}]
       /\ Request(Batch, x)
  /\ UNCHANGED <<model, content, edits, tasks, isIndexing, send, autoQ, engineModel>>

\* Mistake to catch: isIndexing is not lowered when the deadline cuts the list
\* short.
BatchEndNoDefer ==
  /\ AnswerTo(Batch)
  /\ embedding' = Stored(Head(mainQ))
  /\ mainQ' = Tail(mainQ)
  /\ \/ /\ batch.owner = "send" /\ batch.todo = {}
        /\ Prepare(embedding', IF batch.kind = "note" THEN {"chunk"} ELSE {})
     \/ /\ batch.owner = "send"
        /\ batch' = NoBatch /\ send' = "idle"
        /\ capture' = [capture EXCEPT ![Batch] = NoCapture]
        /\ UNCHANGED <<isIndexing, engineQ>>
     \/ /\ batch.owner # "send" /\ batch.todo = {}
        /\ NoNewBatch /\ UNCHANGED send
  /\ UNCHANGED <<model, content, edits, tasks, autoQ, engineModel>>

\* The batch takes its last answer.  A send goes on from the notes to the
\* chunks in the same turn, and stops anywhere once its deadline has passed.
BatchEnd ==
  /\ AnswerTo(Batch)
  /\ embedding' = Stored(Head(mainQ))
  /\ mainQ' = Tail(mainQ)
  /\ \/ /\ batch.owner = "send" /\ batch.todo = {}
        /\ Prepare(embedding', IF batch.kind = "note" THEN {"chunk"} ELSE {})
     \/ /\ batch.owner = "send"
        /\ NoNewBatch /\ send' = "idle"
     \/ /\ batch.owner # "send" /\ batch.todo = {}
        /\ NoNewBatch /\ UNCHANGED send
  /\ UNCHANGED <<model, content, edits, tasks, autoQ, engineModel>>

-----------------------------------------------------------------------------
(* handleNoteEdited and the debounced task it schedules. *)

\* Mistake to catch: an edit that finds a task leaves it to that task, which
\* may have read the old text already.
EditUnscheduled(n) ==
  /\ edits[n] < MaxEdits
  /\ edits' = [edits EXCEPT ![n] = @ + 1]
  /\ \E text \in Texts \ {content[n]} : content' = [content EXCEPT ![n] = text]
  /\ embedding' = [embedding EXCEPT ![n] = NoEmbedding]
  /\ IF pending[n] # None
     THEN UNCHANGED tasks
     ELSE \E t \in Tasks :
            /\ debounced[t] = NoTask
            /\ debounced' = [debounced EXCEPT ![t] = [note |-> n, state |-> "sleeping"]]
            /\ pending' = [pending EXCEPT ![n] = t]
  /\ UNCHANGED <<model, batchV, capture, queues>>

Edit(n) ==
  /\ edits[n] < MaxEdits
  /\ edits' = [edits EXCEPT ![n] = @ + 1]
  /\ \E text \in Texts \ {content[n]} : content' = [content EXCEPT ![n] = text]
  /\ embedding' = [embedding EXCEPT ![n] = NoEmbedding]
  /\ \E t \in Tasks :
       /\ debounced[t] = NoTask
       /\ debounced' = [u \in Tasks |->
            IF u = t THEN [note |-> n, state |-> "sleeping"]
            ELSE IF u = pending[n] /\ debounced[u].state = "sleeping"
            THEN [note |-> n, state |-> "cancelled"]
            ELSE debounced[u]]
       /\ pending' = [pending EXCEPT ![n] = t]
  /\ UNCHANGED <<model, batchV, capture, queues>>

\* The sleep is over, or was cut short by the cancellation.
GiveUp(t) ==
  /\ debounced[t] # NoTask
  /\ \/ debounced[t].state = "cancelled"
     \/ debounced[t].state = "sleeping" /\ ~loaded
  /\ debounced' = [debounced EXCEPT ![t] = NoTask]
  /\ UNCHANGED <<model, data, pending, batchV, capture, queues>>

Wake(t) ==
  /\ debounced[t].state = "sleeping" /\ loaded
  /\ debounced' = [debounced EXCEPT ![t] = [note |-> debounced[t].note,
                                            state |-> "embedding"]]
  /\ Request(t, debounced[t].note)
  /\ UNCHANGED <<model, data, pending, batchV, engineModel, mainQ>>

\* The entry in pendingAutoIndexTasks is removed whosever it is by now.
EmbedNote(t) ==
  /\ AnswerTo(t)
  /\ embedding' = Stored(Head(mainQ))
  /\ mainQ' = Tail(mainQ)
  /\ pending' = [pending EXCEPT ![debounced[t].note] = None]
  /\ debounced' = [debounced EXCEPT ![t] = NoTask]
  /\ capture' = [capture EXCEPT ![t] = NoCapture]
  /\ UNCHANGED <<model, content, edits, batchV, engineModel, engineQ>>

-----------------------------------------------------------------------------
(* The active embedding model and the engine. *)

Busy == loading \/ isIndexing \/ send # "idle"

LoadModel(m) ==
  /\ ~Busy /\ loads < MaxLoads /\ ~(m = current /\ loaded)
  /\ loads' = loads + 1
  /\ loading' = TRUE
  /\ engineQ' = Append(engineQ, Call("load", None, 0, m))
  /\ UNCHANGED <<current, loaded, data, tasks, batchV, capture, engineModel, mainQ>>

Offload ==
  /\ ~Busy /\ loads < MaxLoads
  /\ loads' = loads + 1
  /\ engineQ' = Append(engineQ, Call("unload", None, 0, None))
  /\ UNCHANGED <<current, loaded, loading, data, tasks, batchV, capture, engineModel,
                 mainQ>>

\* The turn of load- or unloadEmbeddingModelAsync after its await.
ModelAnswer ==
  /\ mainQ # <<>> /\ Head(mainQ).op \in {"load", "unload"}
  /\ LET m == Head(mainQ).model IN
       /\ loaded' = (m # None)
       /\ current' = IF m # None THEN m ELSE current
  /\ loading' = FALSE
  /\ mainQ' = Tail(mainQ)
  /\ UNCHANGED <<loads, data, tasks, batchV, capture, engineModel, engineQ>>

Answer(op, to, text, m) == mainQ' = Append(mainQ, Call(op, to, text, m))

ServeEmbed ==
  /\ engineQ # <<>> /\ Head(engineQ).op = "embed"
  /\ LET c == Head(engineQ) IN
       \/ Answer("embed", c.to, c.text, engineModel)
       \/ Faults /\ Answer("embed", c.to, c.text, None)
  /\ engineQ' = Tail(engineQ)
  /\ UNCHANGED <<model, data, tasks, batchV, capture, engineModel>>

ServeLoad ==
  /\ engineQ # <<>> /\ Head(engineQ).op = "load"
  /\ LET m == Head(engineQ).model IN
       \/ engineModel' = m /\ Answer("load", None, 0, m)
       \/ engineModel' \in {None, engineModel} /\ Answer("load", None, 0, None)
  /\ engineQ' = Tail(engineQ)
  /\ UNCHANGED <<model, data, tasks, batchV, capture>>

ServeUnload ==
  /\ engineQ # <<>> /\ Head(engineQ).op = "unload"
  /\ engineModel' = None
  /\ Answer("unload", None, 0, None)
  /\ engineQ' = Tail(engineQ)
  /\ UNCHANGED <<model, data, tasks, batchV, capture>>

-----------------------------------------------------------------------------
Init ==
  /\ content = [x \in Items |-> 1]
  /\ embedding = [x \in Items |-> NoEmbedding]
  /\ \E m \in EmbeddingModels \cup {None} :
       current = m /\ engineModel = m /\ loaded = (m # None)
  /\ loading = FALSE
  /\ debounced = [t \in Tasks |-> NoTask]
  /\ pending = [n \in Notes |-> None]
  /\ isIndexing = FALSE /\ batch = NoBatch /\ send = "idle" /\ autoQ = {}
  /\ capture = [q \in Requesters |-> NoCapture]
  /\ engineQ = <<>> /\ mainQ = <<>>
  /\ edits = [n \in Notes |-> 0] /\ loads = 0

MainTurn == BatchNext \/ BatchEnd \/ ModelAnswer \/ \E t \in Tasks : EmbedNote(t)
Serve    == ServeEmbed \/ ServeLoad \/ ServeUnload
Timer(t) == GiveUp(t) \/ Wake(t)

Next == \/ MainTurn \/ Serve
        \/ \E t \in Tasks : Timer(t)
        \/ \E n \in Notes : Edit(n)
        \/ \E kind \in {"note", "chunk"} : StartAuto(kind) \/ RunAuto(kind)
        \/ Reindex \/ SendStart \/ SendWaited
        \/ \E m \in EmbeddingModels : LoadModel(m)
        \/ Offload

\* Both actors serve their queues and sleeping tasks wake up.
Fairness == /\ WF_vars(MainTurn) /\ WF_vars(Serve)
            /\ \A t \in Tasks : WF_vars(Timer(t))
            /\ WF_vars(SendWaited)

Spec == Init /\ [][Next]_vars /\ Fairness

-----------------------------------------------------------------------------
(* Properties *)

\* An embedding that passes for fresh was computed from the text the item has
\* now, however edits and answers interleave.
FreshMeansCurrentText ==
  \A x \in Items : Fresh(x) => embedding[x].text = content[x]

Outstanding(q) ==
  Cardinality({i \in DOMAIN engineQ : engineQ[i].to = q})
    + Cardinality({i \in DOMAIN mainQ : mainQ[i].to = q})

\* isIndexing is up exactly while one loop is at work, and never two of them
\* share it: automatic, manual and send-time indexing exclude one another.
OneIndexer == Outstanding(Batch) = IF isIndexing THEN 1 ELSE 0

\* The state is well typed and its flag tells the truth about the loop.
IndexInv == TypeOK /\ OneIndexer

\* Indexing never stays on, whatever fails or times out.
IndexingEnds == isIndexing ~> ~isIndexing

\* A send is not held up for ever by indexing.
SendPrepared == send # "idle" ~> send = "idle"

\* The engine's answer says that it could not embed the text.
EmbedFailed ==
  \E i \in DOMAIN mainQ : mainQ[i].op = "embed" /\ mainQ[i].model = None

\* A note becomes and stays fresh after its last edit without any further user
\* action, unless an embedding fails or the model is loaded or unloaded: no late
\* answer of an older task replaces the newest embedding, and none is lost.
EditedBecomesFresh ==
  \A n \in Notes : \/ <>[](edits[n] = MaxEdits => Fresh(n))
                   \/ <>(edits[n] = MaxEdits /\ EmbedFailed)
                   \/ <>(loads > 0 \/ ~loaded)

\* CHANGE_LIST.md, section 3: retrieval is restricted to embeddings that match
\* the active embedding model.  So what passes for fresh was computed by it.
FreshMeansActiveModel ==
  \A x \in Items : Fresh(x) => embedding[x].by = current
=============================================================================
