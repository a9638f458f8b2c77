# Verification of the on-device notes assistant (iOS)

TLA+ models of the app under `src/ios`: what is modelled, what TLC checks on
small instances, what TLAPS proves for every instance, and what is left out.

## 1. The system

A SwiftUI app keeps notes, chats and a knowledge base in SwiftData, runs
llama.cpp models on the device to answer questions about them, and backs them up
to Google Drive. The app's logic is in `src/ios` (about 11,000 lines of Swift);
`src/ios/llama` is a vendored copy of llama.cpp, of which two parts with a
state and a protocol of their own are modelled: the memory of a context and
the threads that compute a graph.

Two actors carry the app:

* the **main actor**: `GlobalViewModel` (`Core/GlobalViewModel.swift`), the
  views, the SwiftData context. A method runs without interruption from one
  `await` to the next; other turns, user events and scene changes run in between;
* the **engine**, `LlamaContext` (`Core/AI/LlamaContext.swift`): a Swift actor
  whose methods contain no `await`, so each call is atomic, and so is the whole
  decoding loop of `completion()`. Calls are served in the order they arrive.

| Component | State | Operations | What is hard |
|---|---|---|---|
| Model lifecycle | loaded/loading flags, current and stored model ids; the engine's contexts | load, reload, unload, offload, delete, rehydrate on foreground, shutdown on background, relaunch | flags set after an await describe an engine that other calls have changed; background transition during a load |
| Chat sessions and generation | sessions, selected session, messages on screen, `isGenerating`, stage, `generationTask`; token streams; `stopRequested` | send, stop, select, create, delete, relaunch; template, decode, stop | overlapping runs after a stop; a run's session against the selected one; stop against an actor that is busy; crash before a save |
| Indexing for retrieval | embeddings with model id and content hash, `isIndexing`, `pendingAutoIndexTasks` | edit, debounce, automatic/manual/send-time batches | text and model change while an embedding is computed; one flag shared by several loops; deadlines |
| Retrieval pipeline | none (pure) | score, threshold, diversify, confidence | balance and caps under ties and duplicates |
| Answer feedback | boosts per note and chunk (persisted), feedback per answer (not persisted) | record | clamping makes undo path dependent; map lost at relaunch |
| Model downloads | background URLSession tasks (survive the process), resume data, files, UI state | start, cancel, resume, delete, delegate callbacks, restore | duplicated tasks, stale resume data, primary then auxiliary file, relaunch |
| Note editor AI | snapshot, preview, `isGenerating`, `generationTask` | start, stop, resume, accept, discard, undo | an old task's `defer` against a newer run |
| Knowledge import | stored files, documents, chunks, `isImportingKnowledge` | import file/image/Drive file, delete, reindex | partial failure between copy, extraction and save; deletion during indexing |
| Drive sync and backup | connection, cached folder id, `didAttemptAutoRestore`, backups in Drive | connect, auto-restore, sync, list, disconnect | emptiness checked long before the import; folder created twice; flag set before the attempt |
| llama.cpp: memory | cells of the base and of the window cache, which position of which sequences each holds | batch checks, splitting, finding cells, decode with rollback; remove, copy, keep, add, divide | two caches of different size that must stay in step; cells that several sequences share; reuse of cells out of the window; a computation that stops in the middle |
| llama.cpp: threads | graph and thread count, barrier counters, chunk counter, `abort`, `pause`, `stop`; per thread the node and the graph it saw last | kickoff, pause, resume, free; poll, sleep; barrier; chunks | a thread late at a barrier, late to see a graph, asleep when it is started; fewer threads for the next graph; giving up in the middle |
| Text chunking, catalog, schema migrations, OCR and extraction, screens, scripts | - | - | not modelled, see section 8 |

Interactions: the chat asks the lifecycle for an embedding model and the indexer
for fresh embeddings before it searches; every inference (embedding, template,
decoding) and every load goes through the engine's one queue; the background
handler stops the chat and shuts the engine down; downloads and deletions change
which files a load finds; a restore inserts notes, sessions and messages under
the running app.

## 2. Modules

| Module | Models | State and actions against the code |
|---|---|---|
| `ModelLifecycle` | flags of `GlobalViewModel` against the contexts of `LlamaContext` | `vm` is the view model's flags and ids, `engine` the contexts. A Swift `Task` is a job that travels between `mainQ` and `engineQ`; `CallFirst`, `CallSecond`, `Finish` are its turns, `Serve*` the engine's methods. User events and scene changes are the remaining actions. `crossed` is a history variable |
| `ChatGeneration` | from send to saved answer | each `sendMessage` is a run with a `phase`; `StartSearch` ... `EndRun` are the turns of its Task; `EngineStep` is the actor, which keeps `decoding` until the loop ends; `Stop`, `SelectSession`, `DeleteSession`, `NewSession`, `Relaunch` interfere; a new session, the one that replaces the last deleted one included, is selected at once (`Select`) |
| `NoteIndexing` | freshness of embeddings | `embedding` holds the columns of a note or chunk plus, as ghost fields, the text and the model that really produced the vector; `batch` is the loop that owns `isIndexing`, `debounced` the tasks of `scheduleAutoIndex`, `send` the preparation of a message |
| `ModelDownload` | downloads of models and the files they leave | `tasks` are the tasks of the background URLSession, which survive the process; `StartDownload`, `CancelDownload`, `DeleteDownloaded` are the user's; `CancelTasks`, `RestoreTasks`, `Cancelled` the completion handlers of getAllTasks and cancel; `Progress`, `Fail`, `Rejected`, `NotMoved`, `Move`, `CheckFails`, `CheckSucceeds`, `Completed` the delegate; `Turn` a job of the main actor; `file` and `resume` are what is on disk |
| `RagSelection` | the pure part of `RAGPipelineService` | fusion, boost, threshold, order, seeds, cap per document, duplicates and confidence as operators on scores in hundredths |
| `Retrieval` | questions, selections and feedback on the answers; EXTENDS `RagSelection` | `asking` is a question in the ranking with the boosts it captured, `result` what the last one selected; `boosts` and `savedBoosts` the two maps in memory and in the defaults; `Ask`, `Retrieved`, `RecordFeedback`, `Relaunch` |
| `NoteEditorAI` | `NoteEditorAIController` and the note editor around it | `runs` are the Tasks of `startGeneration`, `generationTask` the handle, `base` the snapshot, `previewText` the draft (a sequence of the runs that wrote it), `noteContent` the set of changes in the note; `Start`, `Stop`, `Resume`, `Accept`, `Discard`, `Type`, `Undo`, `Redo`, `Reopen` are the user's, `Open`, `TakeToken` and `EndRun` the Tasks'; `orphans` is a history variable |
| `SuggestedEdit` | what the editor promises, abstractly | ask, accept, decline, edit, revert; `NoteEditorAI` implements it under the mapping `text <- noteContent`, `pending <- request`, `disturbed <- reverted` |
| `KnowledgeImport` | the import Tasks with `KnowledgeIngestionService`, and deletion | `job` is the Task and its locals, `files` the directory, `store` and `saved` the SwiftData context and the disk |
| `DriveSync` | `DriveSyncService`, its client and the backups | `call` holds each call with the locals it carries over its awaits, `folders` and `backups` what is in the Drive, `prefs` the defaults |
| `Library` | composition: notes, knowledge base, import, Drive, the end of the process and a new installation | INSTANCEs both over one store; adds `WriteNote`, saving by SwiftData, `Relaunch` after the end of the process and `Reinstall` |
| `KVCells` | `llama_kv_cells` and one `llama_kv_cache` | a stream is cells (`pos`, `seqs`) and a `head`; `SeqRm`, `SeqCp`, `SeqKeep`, `SeqAdd`, `SeqDiv`, `FindSlot`, `Apply`... are operators on it |
| `KVCache` | `llama_kv_cache_iswa`, `llama_batch_allocr`, `llama_context::decode` over it | `base` and `swa` are the two caches; `Decode` is the whole call: checks, splitting, preparing with undo, applying, and the rollback when the computation is aborted; edits are the `llama_memory_seq_*` functions on both |
| `ThreadPool` | `ggml_threadpool`, `ggml_barrier`, `ggml_graph_compute_thread`, the chunks of `mul_mat` | one action per access to what the threads share; `pc`, `node`, `n_passed` are a thread's locals, `then` where the barrier returns to |
| `*Proofs` | proofs about the module of that name; `NoteProofs` about `NoteIndexing` and `NoteEditorAI` | section 6 |
| `MC*` | instances for TLC | constants, bounds and views |

Definitions whose comment begins "Mistake to catch" are not part of a
specification. They are wrong variants of the definition that follows, each a
plausible slip; putting one in its place makes TLC report the property it is
paired with in `PROJECT.json`, which shows that the property can fail.

### Abstractions

* A text is a version number and its hash is that version; models, sessions,
  notes and chunks are opaque values; tokens are counted.
* `ModelLifecycle`: the OCR slot is left out, because `useModelOCRForImports` is
  forced to `false` at start and by its setter and no screen calls
  `loadOCRModel`. The chat part of the background handler is in
  `ChatGeneration`. The inactive phase counts as active, and the handler of the
  foreground may run again in it. Queues are first-in-first-out, which is how the main queue
  and an actor serve jobs of equal priority.
* `ChatGeneration`: whether a model is loaded is left open. Runs are not ordered
  against each other. A message of a session that was deleted meanwhile stays in
  the store without being listed. A relaunch keeps what was saved and, since
  SwiftData saves on its own too, possibly more.
* `NoteIndexing`: the synchronous part of a load is merged with the user's event;
  which candidate comes next is left open.
* `ModelDownload`: queued and downloading are one state, `underway`; a file
  without the GGUF header counts as absent, which is how `isGGUF` treats it
  everywhere; digests exist only where the catalog gives one (`Hashed`). The
  delegate's queue is serial and also serves the completion handlers, so a
  callback that has moved its file keeps every other callback waiting
  (`DelegateFree`). Two-file models (OCR and vision) are in the catalog although
  the settings list only chat and embedding models. Left out: byte counts,
  malformed URLs, a delete that fails, and the completion handler of the
  background session. `restored` and `torn` are history variables: they name the
  rows and checks that a property makes an exception for, and no action reads
  them.
* `RagSelection`: a source is a semantic and a lexical score; rounding of floats
  is left out, and so is what the lexical score is computed from.
* `NoteEditorAI`: the note is a set of changes; where in the text a change lies
  is left out, and the replaced range of an accepted draft counts as a change.
* `Library`: saves succeed; a request is answered from what the Drive holds when
  it is answered; renewing a token may succeed whenever it is tried; connecting
  without a window to present the sheet is left out.
* `KVCache`: which position of which sequences a cell holds, not the tensors; the
  window is the one mask modelled (`LLAMA_SWA_TYPE_STANDARD`); batches are
  numbered from the last position, as the app's are; sizes are not padded to
  256; a computation that fails is one that is aborted before some part.
  Saved states, copies between streams that are still queued, and the rotation
  after a shift are left out.
* `ThreadPool`: memory is sequentially consistent, which the fences of kickoff,
  barrier and `thread_sync` provide where the data of a node is handed over. A
  node is `nop`, `plain` (each thread computes its share) or `matmul` (a barrier,
  then chunks from a counter); the return status, priorities, affinities, OpenMP
  and the paths that multiply without chunks are left out. The number of a graph
  does not wrap: the code keeps 16 bits of it, so a worker that is not scheduled
  at all for 65536 graphs would take a new graph for the one it has seen.

## 3. Runs that pass

| Run | Instance | Shows |
|---|---|---|
| `lifecycle` | 2 chat models, one of which comes and goes, 1 embedding model, 2 jobs | `FlagsTruthful`: a flag describes the engine unless an answer is pending; `OneRehydrate`; `RehydrateEnds`; `LoadingEnds` |
| `chat` | 2 sessions, 2 runs, 1 token, 1 stop under way | `RunInv`: the stop button has a task it can stop, the progress line a run, and the session on the screen exists; `AnswersSaved`; `QuestionsLast`; `StoppedTextFrozen`; `GenerationEnds` |
| `indexing` | 1 note, 2 chunks, 2 texts, 2 edits, 2 debounced tasks, 1 load or unload, failures | `IndexInv`: loops exclude each other; `FreshMeansCurrentText`; `IndexingEnds`; `SendPrepared`; `EditedBecomesFresh` |
| `download` | 1 two-file model with a digest, 2 downloads started, 1 death of the process, user events while at most 1 job waits | `BadFilesAreRemoved`; `CompletedIsThere`; `SpinnerEnds` |
| `retrieval` | 2 notes, 2 chunks, 4 kinds of scores, 3 profiles, 2 questions, 2 launches | `SelectionLimits`: cap per document, repetition only of the two seeds; `TopOrItsTextIsCited`; `NothingBetterLeftOut`; `ConfidenceIsEarned`; `BoostIsSumOfFeedback` |
| `note_editor` | 3 runs of 1 token, 2 changes, 2 undo steps | `PauseHasATask`; `OneWriter`; `DraftOfThisRequest`; `KeepsPromise` (refinement of `SuggestedEdit`); `GenerationEnds` |
| `library` | 1 note, 1 document of 2 chunks, 2 overlapping Drive calls, 2 folders, 1 backup, 1 death, 1 new installation, files that are not packed, copied or removed | `LibraryInv`: documents have files and files documents, but for the exceptions of section 4; `ChunksMatchDocuments`; `RestoredOnce`; `OneFolder`; `RestoreAdds`; `ImportEnds` |
| `kv_cache` | 2 sequences, base cache of 4 cells, window 2, parts of 1 token, positions up to 4, batches of 2, 1 edit | `SwaWithinBase`; `DecodeContract`: what llama.h says of the memory after each return value; `DecodeKeepsWindow`: a decode does not take from the window cache what is looked at behind it; `RefusedOnlyWhenFull` |
| `threads` | 3 threads, 4 nodes (matmul, nop, matmul, plain), 8 chunks before rechunking, 3 graphs | `Separated`; `ChunksOnce`; `CallsReturn` |

Why the bounds are enough for the interesting cases: every hazard of the
lifecycle is a pair of jobs (a load and the thing that overtakes it), and a job
makes at most two calls, so two jobs give every pair; two models of a kind are
needed for "the flag names another model than the engine's". In the chat, two
runs are needed for an old epilogue to meet a new run; a second session to switch
to, which also serves as the replacement of the last deleted one; one token to
tell "text grew" from "did not". In the indexer, two edits make two debounced
tasks overlap and let the text return to an earlier version; one batch at a time
exists by the property being checked. A download needs two starts so that two
tasks of one file overlap or a retry meets resume data, two files so that one
follows the other, and one relaunch so that transfers outlive the view model's
states. In the editor three runs are one whose `defer` is late, one whose handle
it clears, and one started meanwhile. Two chunks let an import be cut between
them; two calls are enough for two lookups of the folder. Four sources with equal
and different texts give every combination of best note, best chunk, duplicate and
full document. Two sequences share cells or do not; a base cache of 4 cells and a
window of 2 make the window cache the smaller one and both of them full. Three
threads are needed for one to be late, one early and one left out of a graph;
three graphs for one with more threads to follow one with fewer and the reverse;
8 chunks are more than threads and few enough for two threads not to be chunked
again while three are.

Larger instances that were run by hand without a new result: the lifecycle without its
bound (1.8 million states); downloads with a second, one-file model (3.0 million); the caches with 5 cells (52,000), with one stream for both sequences and
6 cells (102,000), and with two edits (131,000).

Some instances restrict the steps, not only the constants, by an action constraint
`Bound` whose comment says what it leaves out. `MCLibrary`: two Drive calls overlap
only before the document is imported and the process ended; notes are written before
the import; the app is installed again only when there is a backup; the process is
ended when something is lost by it; the Drive is listed only before a document is
stored, for a listing keeps nothing; the removal of a file fails only in the last
installation, where no backup is made any more; a backup misses a file only if nothing
is imported while it is made. `MCModelLifecycle`: one of the chat models is downloaded
and deleted, the other models are installed. `MCRetrieval`: four patterns of equal
texts and two of documents; words in common against the meaning in one source or in
all; feedback on both answers and relaunches only over one corpus. `MCChatGeneration`
and `MCRetrieval` restrict the initial states: the name of the first session, the
corpora. `MCKVCache` has a view without the record of the last call, which only the
action properties read.

`CHECK_DEADLOCK FALSE` is given where all bounds can be used up (messages, edits,
loads, downloads, positions, graphs); the lifecycle and the library have no such
end and are checked for deadlock.

## 4. Runs that must fail, and exceptions

| Run | Statement of the repository | What the code does |
|---|---|---|
| `lifecycle_resume` | `CHANGE_LIST.md:40`, foreground resume reloads both models deterministically | an answer that was pending when the app went to the background raises the flag again after the shutdown; the next resume skips the model |
| `chat_stop` | `LlamaContext.swift:455`, generation stopped | the flag can be set only when no loop runs, and each loop resets it |
| `indexing_model` | `CHANGE_LIST.md:26`, embeddings match the active model | model id read before the await, vector computed by the model loaded meanwhile |

Behaviours of the same kind that no document contradicts are exceptions written
into the properties, or are stated here because no property is about them.

* `SpinnerEnds` leaves out rows that `restorePendingTasks` set last: it may read a
  task as running whose end the main actor has already shown.
  `BadFilesAreRemoved` leaves out files whose check the death of the process cut
  short: they are in their place and are not checked again. A retry starts from
  the resume data of the transfer that failed (`ModelDownloadManager.swift:291`).
* An answer is appended to the list of whichever session is on the screen
  (`GlobalViewModel.swift:567`), though saved in its own.
* `OneWriter` and `DraftOfThisRequest` leave out orphans: runs whose handle the
  `defer` of an older run has cleared, which no button stops any more. `KeepsPromise`
  leaves out a suggestion under which the user has undone an earlier one: accepting
  then writes the old snapshot back.
* A file whose error is swallowed is missing, or left, without anybody being told. A
  backup is uploaded without the files that could not be packed
  (`BackupExporter.swift:155`); a restore inserts a document whose file could not be
  copied, and may first have removed the file it was to replace
  (`BackupImporter.swift:147`); a deletion whose file cannot be removed leaves a
  file that belongs to nothing (`KnowledgeStorage.swift:63`). So the knowledge base can hold
  documents without files and files without documents.
* `LibraryInv` leaves out files whose extraction failed, which could not be removed, whose
  save was lost or which came from such a backup (`leaked`), and documents whose deletion
  the death of the process cut in two or whose file a backup or its restore left out
  (`torn`); `RestoreAdds` leaves out the files of `torn` too. `ChunksMatchDocuments`
  leaves out chunks inserted for a document that was deleted during its import (`cut`) and
  documents that were saved or backed up in the middle of it (`partial`); `OneFolder` two
  lookups at once (`raced`). The flag of the automatic restore is set before the attempt
  (`DriveSyncService.swift:45`), and nothing takes it back: a restore whose requests fail,
  and one that is killed before SwiftData saves, is never tried again. A call that renews the
  token may leave the app connected after the user has disconnected.
* `BoostIsSumOfFeedback` leaves out sources whose boost was cut to its range: after
  five answers on one source, taking feedback back leaves it with a boost no
  feedback accounts for. The confidence is that of the first selected source, which
  a seed may have put there.
* `SwaWithinBase` and `DecodeKeepsWindow` leave out sequences with a shared cell
  that was moved (`entangled`): `seq_add` on one of them moves it for all. Where only one
  cache still knows that the cell is shared, the other sequence can lose it from the base
  cache and keep it in the window cache, which may then be the fuller one and refuse a batch
  the base cache has room for; so `RefusedOnlyWhenFull` leaves out what follows such a move.
  After an aborted computation only the first sequence of a token of several is looked
  up, so others may keep positions that were not computed (`llama-context.cpp:1627`).
  Shared cells are never reused in the window cache, so `decode` may return 1 while
  the base cache has room. Removing the end of a sequence beyond its window empties
  the window cache and the next batch is numbered from 0.
* What is purged while a batch is put in for trial is not put back by `prepare`
  (`llama-kv-cache.cpp:603`), which gives only the cells of the slots what they held. A
  batch that is refused or aborted may therefore have taken from the window what the next
  token looks at, although `llama.h:932` says the memory is restored, and leave a gap
  between the positions the comment at `llama-kv-cache.cpp:940` says are all present. It
  takes cells that are shared, or a batch of several ubatches of at least two tokens: after
  an edit the cell of position 2 may lie before that of position 1, and the ubatch {4, 5},
  put in for trial behind {2, 3}, takes it and purges 1, which 2 still has to look at.
  `DecodeKeepsWindow` excepts these cases (`MoreOnTrial`) from its second part. Its first
  part holds whatever happens: what a token *behind* the batch looks at is never lost.
* Two checks of a batch can never fail: "partial sequence sub-sets" and "decreasing
  positions" (`llama-batch.cpp:337`); `pos_div` adds to a cell's shift with the
  opposite sign of `pos_add`, read only by the rotation, which is left out.
* `TextChunkingService` cuts a merged chunk back to the maximal length, and the
  words lost begin no later chunk; its test expects at most 140 characters while
  the code uses at least 200.

## 5. Fairness

Liveness needs that work already queued is done, nothing more:

* `ModelLifecycle`: weak fairness of the main actor's turns and of the engine's;
  both executors run queued jobs until none is left, and no method of either
  waits for the other while holding its actor.
* `ChatGeneration`: weak fairness of each run's Task, of the stop task and of the
  engine. The decoding loop ends because `max_tokens` and `n_ctx` bound it.
* `NoteIndexing`: weak fairness of turns, engine, timers (`Task.sleep` returns)
  and of the poll that waits for indexing.
* `ModelDownload`: weak fairness of the main actor's turns, of the completion
  handlers and of each task's callbacks. A transfer ends, for want of anything
  else because of `timeoutIntervalForResource`.
* `NoteEditorAI`: weak fairness of each run's `Open` (the stream is got) and `EndRun`
  (a stream ends).
* `Library`: weak fairness of the import's turns and of each Drive call's next
  step, which is an answer or a failure.
* `ThreadPool`: weak fairness of each thread and of the caller's `Kickoff` and
  `Joined`: the operating system schedules every thread. No condition variable is
  assumed to wake up by itself.

User events, scene changes, failures and relaunches are never fair.

## 6. Theorems

`ModelLifecycleProofs` proves, for any two disjoint sets of models and any bound
on the jobs, from `ModelsAssumption` and `MaxJobsAssumption`:

* `TypeCorrect`: `Spec => []TypeOK`;
* `FlagsAreTruthful`: `Spec => []FlagsTruthful`;
* `AlwaysOneRehydrate`: `Spec => []OneRehydrate`.

`FlagsTruthful` is not inductive: it speaks only of moments when no answer is
pending. The inductive invariant `IInv` adds `WellFormed` (which steps a job of
either queue can carry, and that a selection has the kind of its slot) and, per
slot that no background transition overtook (`SlotInv`):

* `BehindShutdown`: while a shutdown is outstanding the slot is not marked loaded
  and all its work is queued behind the shutdown;
* `YoungestAnswer`: otherwise the youngest pending answer describes the engine,
  and without a pending answer the flag does.

The proof goes action by action; the lemmas on queues (`Enqueue`, `Dequeue`,
`EnqueueAll`) and on the turns (`Turns`, `Serves`, `Backgrounds`, `QuietEvents`)
say what a step does to the queues, and are cited by name.

`OneRehydrate` compares a flag with the Tasks that go on under it. `OneInv` follows
the one rehydrate through both queues: the flag is up exactly while a job of a
rehydrate that has passed the guard is in one of them, there is at most one such job
in all, and it never asks for the shutdown, so that it is always answered (`Answered`).
The turn that lowers the flag is then that job's last.

`ModelDownloadProofs` proves, for any catalog, any choice of two-file models and
digests and any bounds, from `ItemsAssumption` and `BoundsAssumption`:

* `DownloadTypes`: `Spec => []TypeOK`, which includes that a state job always
  names an item of the catalog and a state;
* `BadFilesDoNotStay`: `Spec => []BadFilesAreRemoved`;
* `AlwaysCompletedIsThere`: `Spec => []CompletedIsThere`.

The invariant adds only `LiveHasFile` (a task the session still works on has a
file of the catalog). `BadKept` says when a step keeps the property: it brings in
no bad file and keeps every moved task whose file stays bad; `Move` is the one
step it does not cover. The proof does not use `DelegateFree`: the check removes
the file of its own task whichever task put it there.

`CompletedIsThere` looks at a row at rest and is not inductive: a job that says
"completed" may wait on the main queue while the file is removed. What is inductive is
that the last word on a row is true (`LastIsThere`): the last state queued for it, or
the one it shows if none is queued. Every step that touches the files of a row queues
another state behind (`LastWord`), and the others say nothing of it (`NothingSaid`).

`NoteProofs` proves of `NoteEditorAI`, for any number of runs, tokens, changes and undo
steps, `EditorTypeCorrect`, `PauseAlwaysHasATask`, `AlwaysOneWriter`,
`DraftAlwaysOfThisRequest` and `SnapshotAlwaysCurrent`, and from them
`EditorKeepsPromise`: `EditorSpec => Promise!Spec`, the refinement of `SuggestedEdit`. The
invariant adds that the handle exists only while the controller is busy and is
that of a run of the pending request (`HandleOfRequest`, with what the run had
before it as `prefix`), and that every run in a draft was started. Accepting is the
step the refinement rests on: it writes the snapshot with the draft, which is the
text with the draft because the snapshot is current.

`ThreadPoolProofs` proves, for any number of threads, any graph, chunking and
number of graphs, `AlwaysSeparated`: `Spec => []Separated`, and `AlwaysOnce`:
`Spec => []ChunksOnce`. The inductive invariant (`AlwaysCounted`) adds

* `TakesPart`: the threads in a graph are among its first `n` and have seen it, and
  one that was released from a barrier stands where the last barrier was;
* `OnTheWay`: every other thread has come from the barrier that was passed last over
  nodes that all of them skip. So two threads in a barrier are in the same one
  (`SameBarrier`), and nobody passes a node that is not skipped (`NobodyPasses`).
  Thread 0 can tell the others to give up at `node + 1` because none has come so far;
* `Counted`: `n_barrier` is the number of those that wait, who are among the first
  `n`. So when the last one arrives, all are there (`AllThere`), nobody else can
  arrive before it has reset the counter, and everybody it leaves behind is
  released.

`ChunksOnce` needs more (`ChunkInv`): a thread in a graph divides by the number of
threads of that graph (`Told`), and between the barrier before the chunks and the one
after them every chunk below the counter is computed or in the hands of exactly one
thread, every other one untouched (`SharedOut`). The first chunks are not drawn from
the counter: thread t takes chunk t, which is why the counter starts at the number of
threads, before the barrier.

`ChatGenerationProofs` proves, for any number of sessions, runs, tokens and stops,
from `SessionsAssumption` and `BoundsAssumption`: `AlwaysRunInv`,
`AlwaysAnswersSaved`, `AlwaysQuestionsLast` and `AlwaysStoppedTextFrozen`. That an
ended answer is saved is not inductive, because the epilogue saves what it finds in
the store; so `Kept` follows a run from its start: its question is in the store and on
disk, and from drafting on its answer is in the store, as long as its session exists.
`OpenAfterDraft` (only a run that has drafted waits for its stream) brings that to
the token loop, and `CancelledStarted` keeps a run that begins later apart from those
that were stopped. The session on the screen exists (`SelectedExists`), because every
step that takes it away selects another one in the same turn.

`NoteProofs` proves of `NoteIndexing`, for any notes, chunks, models, texts, tasks and loads,
from `ItemsAssumption` and `BoundsAssumption`: `AlwaysIndexInv` and
`AlwaysFreshMeansCurrentText`. An answer is stored with the hash its requester took
when it asked, so the invariant is about requesters: each has exactly one text
under way, in either queue, while its flag says so (`Asked`, by counting), so that
nothing is captured over a question whose answer is to come (`Captured`); and no
text is sent before some model was loaded (`HasModel`). From these every stored text
has the stored hash (`TextIsHash`). Nothing of the sort holds of the model, which is
what the run `indexing_model` shows.

`LibraryProofs` proves, for any number of notes, documents, chunks, files, calls,
folders, backups, deaths and installations, from `LibraryAssumption`:
`AlwaysLibraryInv`, `AlwaysChunksMatchDocuments`, `AlwaysRestoredOnce`,
`AlwaysOneFolder` and `AlwaysRestoreAdds`. What is true of the store must be true of
every copy of it, for a relaunch goes back to the saved one and a restore adds one
from the Drive: `Content` says `Good` of the store, of what was saved, and of every
backup on the Drive or carried by a call. `Good` mentions what may not grow under a
copy: a document that is being extracted is known to none (`Pending`), so that the
number of its chunks can be set; and a backup that could not pack a file says so
(`missed`), so that its restore can record the document as `torn` (`Taken`). `GoodKeeps` and `GoodAdds` say when it goes on to
hold. `RestoreInv` says that one call at most is on the way to a restore and that
nothing was restored before it; `FolderInv` that without a race only one call looks
for the folder, and creates it only where there is none. The side of the Drive is
done once for all calls (`DriveSide`, `QuietSteps`), the chunks once for both turns
that insert them (`Inserts`).

`RetrievalProofs` proves, for any finite sets of notes, chunks and answers, any scores,
texts, feedback and relaunches, from `SourcesAssumption`, `SignalsAssumption` and
`BoundsAssumption`: `AlwaysSelectionLimits`, `AlwaysTopIsCited`,
`AlwaysNothingBetterLeftOut`, `AlwaysConfidenceIsEarned` and `AlwaysBoostIsSum`. The
first four are about what a loop returns. `LoopInv` is the invariant of the loop of
`diversifyAndBalance`: the limits; that it begins with the seeds and says nothing twice
behind them; where the other sources come from; and that every candidate looked at so
far is accounted for (`Accounted`): its text is said, its document has its share, or the
selection is full of sources that are as good. That the first candidate is always said
is the one thing the loop does not show by itself: it is a seed, or a chunk too far
behind no note, for which there is room (`SeedsAre`, `LeftOutInv`). The candidates come
to the loop sorted, through the cut and the filter (`PrefixSorted`, `FilterSorted`). The
fifth is about a sum over the answers: `SumChange` says that changing the feedback of
one answer changes the sum by what it counts now less what it counted before, which is
what the two deltas of `recordFeedback` add as long as nothing is cut.

The loops are folds of the community modules, which define functions on sets by
recursion. The prover has no induction for them: the library's theorems take a predicate
as a parameter. `RetrievalProofs` gets it from the well-founded order of finite sets, with
a set in the place of the predicate (`Least`, `AllNumbers`, `AllSubsets`), shows that the
functions exist (`FoldExists`, `LoopExists`) and what values they take (`LoopValues`,
`FilterValues`, `DiversifyValues`, `SumIs`).

`KVCacheProofs` proves, for any number of sequences, size of the caches,
window, `n_ubatch`, batches and calls, from `SizesAssumption`: `AlwaysSwaWithinBase`,
`KVSpec => []SwaWithinBase`, which includes the type invariant. That the positions of
one cache are among those of the other is not inductive: the calls look at cells, and
a cell is emptied when its last sequence leaves. The inductive invariant
(`CacheInv`) is about cells: each cell of the window cache in which a sequence is has a
cell of the base cache that covers it (`Cov`), with the same position and at least its
sequences, unless one of the sequence's cells was moved for another sequence
(`entangled`); and where sequences have a stream each, none is entangled. Each change
of a cell keeps what covers it (`CoversRm`, `CoversCp`, `CoversOnly`, `MovedAlike`).
A decode is followed through its parts. `FindSlotIs`: a slot is cells of the stream, all
different, that can be used, which in the base cache means empty. `TrialIs` and
`TakenOutIs`: preparing a split leaves the base cache's cells as they were and takes at
most sequences from those of the window cache, whether it fits or not. `RunIs`: when
both caches have slots for every ubatch, putting them in covers what is put into the
window cache, because the slots of the base cache are empty then as they were on trial
and nothing is purged from it (`SameApplied`, `CovApplied`). `CovRolledBack`: so does
taking out a ubatch that failed. `SplitSimpleIs` and `SplitEqualIs` say that a split
consists of tokens whose sequences share a stream.

The ubatches, caches and lists of such a call come from functions defined by recursion
over numbers. `Recursion` shows once that they exist, for a step that leads from one set
to the next, and `FollowsIn` where their values lie.

`AlwaysDecodeContract`, `KVSpec => DecodeContract`, follows the positions of a sequence
in the base cache through the same parts, from `CacheInv`. The batch: a token is
numbered after the last one of its sequence (`NumberedHas`). The split: its ubatches
hold the tokens of the batch, no more and no fewer, and of two ubatches the later one
has the later positions of a sequence (`SplitsInto`, `InOrder`), by `SplitSimpleHas` and
`SplitEqualHas`; the second goes through the lists of sequences a ubatch takes, and
shows that each takes a token while one is left, which ends the loop. It fails for
tokens of several sequences that have a stream each, which such a batch is refused for.
Putting ubatches into empty slots adds their positions and takes none away
(`PosProcessed`), so a decode that ends has all of the batch. A refused one leaves the
base cache as the trials do (`TryIs`). An aborted one loses the positions from the first
of the failed ubatch on (`PosRolledBack`), and because the ubatches ascend what is left
is a beginning of what was coming (`TakenFrom`).

`AlwaysDecodeKeepsWindow`, `KVSpec => DecodeKeepsWindow`, follows what a sequence can look
at in the window cache, from `CacheInv` again. What putting in a ubatch takes or purges of
a sequence comes before everything a token behind that ubatch looks at (`ApplyKeepsSeen`,
`ApplyLosesFirst`), and the ubatches of a split ascend, so every cache a trial goes through
has what is looked at behind the batch (`TrialSeen`). The caches a decode can leave are not
among these: undoing puts back the cells of the slots and not what was purged, and an
aborted decode puts in again only some of what was tried. But each of their cells is one
that some cache of the trial had, at a point from which on the trial does not touch it
(`Mixed`, `MixedUndone`, `MixedApplied`), and that is enough for them to have what is
looked at behind the batch (`MixedSees`, `DecodeSees`): the first part, which holds however
the decode ends. For the second part, a decode that puts in all that was tried ends with the
cache the trial ended with (`ProcessedWhole`), and a trial takes only the beginning of a
window, so one without a gap has none afterwards (`Closed`, `TrialClosed`, `DecodeKeeps`).
Working on this proof showed that the property had to speak of the token behind the *batch*,
and which refused and aborted batches it has to leave out (section 4).

Only model-checked: liveness (out of the prover's reach), and of the safety properties
`RefusedOnlyWhenFull`. It counts the cells a trial leaves free, which takes an injection of
the cells of the window cache into those of the base cache that every call keeps, and the
cardinalities of the sets of cells a trial takes. Planning that proof showed that the
property is false for larger caches once a shared cell was moved, which TLC confirmed; it is
stated without these cases now. Beside the run, random behaviours of up to 40 steps with
2 and 3 sequences, base caches of up to 7 cells, windows of up to 3 and 20 edits found no
other exception.

## 7. What could come next

1. Abstract specifications: a slot (`Empty`, `Loading`, `Loaded`) implemented by
   `ModelLifecycle` between background transitions; a conversation (question,
   answer, stop) implemented by `ChatGeneration`.
2. Composition: chat, indexer and lifecycle over one engine queue, for the time a
   question may wait behind a stopped generation.
3. Saved states of the cache and the queue of copies between streams.
4. Proofs: when a decode is refused (`RefusedOnlyWhenFull`).

## 8. Not modelled, and why

Text extraction, OCR and vision (calls of system frameworks without state of
their own); text chunking (a pure function whose result is lengths of strings);
schema migrations (declared, not programmed); layout of the screens (the operations
they start are modelled with their component); the model catalog (a list, a constant
of the models); build scripts. Of llama.cpp everything but the two parts above:
kernels, tokenizers, samplers, model files and the backends for other devices are
arithmetic and I/O, and make up nearly all of its 350,000 lines, which is why the
lines the models stand for are a small part of the repository.
