-------------------------- MODULE KnowledgeImport --------------------------
(***************************************************************************)
(* Importing files into the knowledge base: the import Tasks of            *)
(* GlobalViewModel with KnowledgeIngestionService and KnowledgeStorage.    *)
(*                                                                         *)
(* A file is copied under a fresh UUID and its document is known by that:  *)
(* both are a member of Docs.  Extraction is a number of chunks or an      *)
(* error.  The store is what the SwiftData context holds, saved what is on *)
(* disk of it; files are on disk at once.  An image is a list of one file. *)
(* The OCR model is never used (ModelLifecycle).                           *)
(***************************************************************************)
EXTENDS Naturals, FiniteSets

CONSTANTS Docs,       \* stored files and their documents
          MaxChunks,  \* bound: chunks of a document
          MaxFiles,   \* bound: files of one import
          None

VARIABLES
  files,                 \* Documents/KnowledgeBase
  store,                 \* notes, documents and chunks in the context
  saved,                 \* what a save has put on disk
  isImportingKnowledge,
  job,                   \* the import Task and its locals
  stored,                \* history: UUIDs given out
  size,                  \* ghost: chunks the text of each document was split into
  leaked,                \* history: files left by a failure or cut off from their document
  cut                    \* history: documents deleted while they were imported

import  == <<isImportingKnowledge, job>>
history == <<stored, size, leaked, cut>>
vars    == <<files, store, saved, import, history>>

Chunks == Docs \X (1..MaxChunks)
Idle   == [phase |-> "idle", doc |-> None, chunk |-> 0, left |-> 0]
Job(phase, d, c, n) == [phase |-> phase, doc |-> d, chunk |-> c, left |-> n]

\* Documents have no chunk before their text is extracted.
ChunksOf(d, from, to) == {d} \X (from..to)

TypeOK ==
  /\ files \in SUBSET Docs
  /\ store.documents \in SUBSET Docs /\ store.chunks \in SUBSET Chunks
  /\ saved.documents \in SUBSET Docs /\ saved.chunks \in SUBSET Chunks
  /\ isImportingKnowledge \in BOOLEAN
  /\ job \in [phase : {"idle", "fetching", "next", "extracting", "indexing"},
              doc : Docs \cup {None}, chunk : 0..MaxChunks, left : 0..MaxFiles]
  /\ size \in [Docs -> 0..MaxChunks]
  /\ stored \in SUBSET Docs /\ leaked \in SUBSET Docs /\ cut \in SUBSET Docs

-----------------------------------------------------------------------------
\* importKnowledgeFiles, importKnowledgeImageData.
ImportFiles ==
  /\ ~isImportingKnowledge
  /\ isImportingKnowledge' = TRUE
  /\ \E n \in 1..MaxFiles : job' = Job("next", None, 0, n)
  /\ UNCHANGED <<files, store, saved, history>>

\* importKnowledgeDriveFile: first the file is downloaded.
ImportDriveFile ==
  /\ ~isImportingKnowledge
  /\ isImportingKnowledge' = TRUE
  /\ job' = Job("fetching", None, 0, 1)
  /\ UNCHANGED <<files, store, saved, history>>

DriveFileArrives ==
  /\ job.phase = "fetching"
  /\ job' = Job("next", None, 0, 1)
  /\ UNCHANGED <<files, store, saved, isImportingKnowledge, history>>

\* Mistake to catch: the flag is lowered only after a file that was imported.
FileDoneUnlessFailed(left) ==
  /\ job' = IF left = 0 THEN Idle ELSE Job("next", None, 0, left)
  /\ isImportingKnowledge' = (left > 0 \/ job.phase \in {"next", "extracting"})

\* The file is dealt with: the loop goes on, or the Task ends.
FileDone(left) ==
  /\ job' = IF left = 0 THEN Idle ELSE Job("next", None, 0, left)
  /\ isImportingKnowledge' = (left > 0)

DriveFileFails ==
  /\ job.phase = "fetching"
  /\ FileDone(0)
  /\ UNCHANGED <<files, store, saved, history>>

\* storeImportedFile; the copy may fail.
StoreFile ==
  /\ job.phase = "next"
  /\ \/ /\ FileDone(job.left - 1)
        /\ UNCHANGED <<files, stored>>
     \/ \E d \in Docs \ stored :
          /\ files' = files \cup {d} /\ stored' = stored \cup {d}
          /\ job' = Job("extracting", d, 0, job.left)
          /\ UNCHANGED isImportingKnowledge
  /\ UNCHANGED <<store, saved, size, leaked, cut>>

\* The error leaves the copy where it is.
ExtractionFails ==
  /\ job.phase = "extracting"
  /\ FileDone(job.left - 1)
  /\ leaked' = leaked \cup {job.doc}
  /\ UNCHANGED <<files, store, saved, stored, size, cut>>

\* Mistake to catch: an early return before the save skips the remaining chunks.
PersistUpTo(d, n, from, to, onDisk) ==
  /\ store' = [store EXCEPT !.documents = IF from = 1 THEN @ \cup {d} ELSE @,
                            !.chunks = @ \cup ChunksOf(d, from, to)]
  /\ \/ /\ FileDone(job.left - 1)
        /\ saved' = store'
     \/ /\ to >= from
        /\ job' = Job("indexing", d, to, job.left)
        /\ saved' = onDisk
        /\ UNCHANGED isImportingKnowledge

\* One turn of persistIngestedDocument: chunks are inserted until one of them is
\* sent to be embedded, for which a loaded model is needed, or until the last.
\* Before that the context was saved as onDisk.
Persist(d, n, from, to, onDisk) ==
  /\ store' = [store EXCEPT !.documents = IF from = 1 THEN @ \cup {d} ELSE @,
                            !.chunks = @ \cup ChunksOf(d, from, to)]
  /\ \/ /\ to = n
        /\ FileDone(job.left - 1)
        /\ saved' = store'
     \/ /\ to >= from
        /\ job' = Job("indexing", d, to, job.left)
        /\ saved' = onDisk
        /\ UNCHANGED isImportingKnowledge

Extracted ==
  /\ job.phase = "extracting"
  /\ \E n \in 0..MaxChunks :
       /\ size' = [size EXCEPT ![job.doc] = n]
       /\ \E to \in 0..n : Persist(job.doc, n, 1, to, saved)
  /\ UNCHANGED <<files, stored, leaked, cut>>

\* The embedding is there, which is saved, or failed; the document may have been
\* deleted.
ChunkIndexed ==
  /\ job.phase = "indexing"
  /\ \E to \in job.chunk..size[job.doc], onDisk \in {saved, store} :
       Persist(job.doc, size[job.doc], job.chunk + 1, to, onDisk)
  /\ UNCHANGED <<files, history>>

ImportTurn == StoreFile \/ ExtractionFails \/ Extracted \/ ChunkIndexed

\* deleteKnowledgeDocument; its chunks are deleted by the cascade rule.  A file that
\* cannot be removed stays, without an error.
DeleteDocument(d) ==
  /\ d \in store.documents
  /\ \/ files' = files \ {d} /\ UNCHANGED leaked
     \/ leaked' = leaked \cup {d} /\ UNCHANGED files
  /\ store' = [store EXCEPT !.documents = @ \ {d},
                            !.chunks = @ \ ChunksOf(d, 1, MaxChunks)]
  /\ saved' = store'
  /\ cut' = IF job.doc = d THEN cut \cup {d} ELSE cut
  /\ UNCHANGED <<import, stored, size>>

-----------------------------------------------------------------------------
Init ==
  /\ files = {} /\ stored = {} /\ leaked = {} /\ cut = {}
  /\ store = [notes |-> {}, documents |-> {}, chunks |-> {}] /\ saved = store
  /\ isImportingKnowledge = FALSE /\ job = Idle
  /\ size = [d \in Docs |-> 0]
=============================================================================
