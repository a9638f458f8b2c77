------------------------------ MODULE Library ------------------------------
(***************************************************************************)
(* What the app keeps: the notes and the knowledge base, imports into it   *)
(* (KnowledgeImport), its backup and restore over Google Drive (DriveSync),*)
(* and the end of the process.                                             *)
(*                                                                         *)
(* The store is saved where the code saves, and by SwiftData when it       *)
(* chooses to, which matters when the process ends and is chosen there;    *)
(* files and the defaults of DriveSyncService are on disk at once.         *)
(* A new installation has none of them, the Drive keeps what it has.       *)
(***************************************************************************)
EXTENDS Naturals, Sequences, FiniteSets

CONSTANTS Notes, Docs, MaxChunks, MaxFiles, Calls, MaxFolders, MaxBackups, None,
          MaxKills,    \* bound: times the process is ended
          MaxInstalls  \* bound: times the app is installed again

ASSUME LibraryAssumption ==
  /\ MaxChunks \in Nat /\ MaxFiles \in Nat \ {0} /\ MaxFolders \in Nat \ {0}
  /\ MaxBackups \in Nat /\ MaxKills \in Nat /\ MaxInstalls \in Nat
  /\ None \notin Docs

VARIABLES
  files, store, saved, isImportingKnowledge, job, stored, size, leaked, cut,
  isConnected, accessToken, folderId, didAttemptAutoRestore, isSyncing, call,
  folders, backups, restores, raced, torn,
  partial,         \* history: documents left with some of their chunks
  kills, installs

Import == INSTANCE KnowledgeImport
Drive  == INSTANCE DriveSync WITH
            importing <- IF job.phase = "indexing" THEN {job.doc} ELSE {}

imports == <<saved, isImportingKnowledge, job, stored, size, leaked, cut>>
prefs   == <<folderId, didAttemptAutoRestore>>
local   == <<isConnected, accessToken, prefs, isSyncing, call>>
remote  == <<folders, backups>>
past    == <<restores, raced, torn>>
faults  == <<partial, kills, installs>>
vars    == <<files, store, imports, local, remote, past, faults>>

\* Notes and chunks, files and documents that are there.
Empty == [notes |-> {}, documents |-> {}, chunks |-> {}]

LibraryTypeOK ==
  /\ Import!TypeOK /\ Drive!DriveTypeOK
  /\ store.notes \in SUBSET Notes /\ saved.notes \in SUBSET Notes
  /\ torn \in SUBSET Docs /\ partial \in SUBSET Docs
  /\ kills \in 0..MaxKills /\ installs \in 0..MaxInstalls

-----------------------------------------------------------------------------
Written == store.notes \cup saved.notes
             \cup UNION {backups[i].store.notes : i \in DOMAIN backups}

WriteNote ==
  /\ \E n \in Notes \ Written : store' = [store EXCEPT !.notes = @ \cup {n}]
  /\ UNCHANGED <<files, imports, local, remote, past, faults>>

\* An import from a file or a picture, its turns, and a deletion.
ImportStep ==
  /\ Import!ImportFiles \/ Import!ImportTurn \/ \E d \in Docs : Import!DeleteDocument(d)
  /\ UNCHANGED <<local, remote, past, faults>>

\* importKnowledgeDriveFile: the import Task begins the download.
ImportDriveFile(c) ==
  /\ Import!ImportDriveFile
  /\ Drive!Begin(c, "fetch")
  /\ UNCHANGED faults

BeginCall(c) ==
  /\ Drive!Connect(c) \/ Drive!PressSync(c) \/ Drive!Begin(c, "list")
  /\ UNCHANGED <<imports, faults>>

DriveStep(c) == Drive!Answered(c) /\ UNCHANGED <<imports, faults>>

\* A backup may hold a document, or a file, that was being imported.
RestoreStep(c) ==
  /\ Drive!Restore(c)
  /\ LET b == call[c].backup
     IN /\ partial' = partial \cup b.importing
        /\ leaked'  = leaked \cup (b.files \ b.store.documents)
  /\ UNCHANGED <<saved, isImportingKnowledge, job, stored, size, cut, kills, installs>>

FetchStep(c) ==
  /\ call[c].op = "fetch"
  /\ \/ Drive!Refreshed(c) /\ call'[c] # Drive!NoCall /\ UNCHANGED imports
     \/ Drive!Refreshed(c) /\ call'[c] = Drive!NoCall /\ Import!DriveFileFails
     \/ Drive!Fetched(c) /\ Import!DriveFileArrives
     \/ Drive!RequestFails(c) /\ Import!DriveFileFails
  /\ UNCHANGED faults

CallStep(c) == DriveStep(c) \/ RestoreStep(c) \/ FetchStep(c)

Disconnect == Drive!Disconnect /\ UNCHANGED <<imports, faults>>

-----------------------------------------------------------------------------
(***************************************************************************)
(* The process ends, and the app starts again.                             *)
(***************************************************************************)
\* A process has no Task and nobody signed in when it starts.
Fresh ==
  /\ isImportingKnowledge' = FALSE /\ job' = Import!Idle
  /\ call' = [c \in Calls |-> Drive!NoCall]
  /\ isSyncing' = FALSE /\ isConnected' = FALSE /\ accessToken' = FALSE
  /\ UNCHANGED <<stored, size, cut, remote, raced>>

\* What was not saved is lost; the context may have saved itself before.  A deletion
\* may end between the file and the save.
Relaunch ==
  /\ kills < MaxKills /\ kills' = kills + 1
  /\ Fresh
  /\ store' \in {saved, store} /\ saved' = store'
  /\ \/ UNCHANGED <<files, torn>>
     \/ \E d \in store.documents \cap files : files' = files \ {d} /\ torn' = torn \cup {d}
  /\ partial' = IF job.phase = "indexing" THEN partial \cup {job.doc} ELSE partial
  /\ leaked' = leaked \cup (files' \ store'.documents)
  /\ UNCHANGED <<prefs, restores, installs>>

Reinstall ==
  /\ installs < MaxInstalls /\ installs' = installs + 1
  /\ Fresh
  /\ files' = {} /\ store' = Empty /\ saved' = Empty
  /\ folderId' = None /\ didAttemptAutoRestore' = FALSE /\ restores' = 0
  /\ UNCHANGED <<torn, partial, leaked, kills>>

Init ==
  /\ Import!Init /\ Drive!DriveInit
  /\ partial = {} /\ kills = 0 /\ installs = 0

Next ==
  \/ WriteNote \/ ImportStep \/ Disconnect \/ Relaunch \/ Reinstall
  \/ \E c \in Calls : ImportDriveFile(c) \/ BeginCall(c) \/ CallStep(c)

\* The Tasks go on; every request is answered or fails.
Fairness ==
  /\ WF_vars(Import!ImportTurn /\ UNCHANGED <<local, remote, past, faults>>)
  /\ \A c \in Calls : WF_vars(CallStep(c))

Spec == Init /\ [][Next]_vars /\ Fairness

-----------------------------------------------------------------------------
(***************************************************************************)
(* Properties.                                                             *)
(***************************************************************************)
\* A document has its stored file, unless the process ended inside its deletion, or
\* a backup or its restore left the file out.
DocumentsHaveFiles == store.documents \ torn \subseteq files

\* A stored file has a document, or is the one being imported, or has been left by
\* a failed extraction, a failed removal, a lost save or a backup of these.
FilesAreOwned == files \subseteq store.documents \cup leaked \cup {job.doc}

\* Store and files go together, through imports, deletions, restores and the end of
\* the process, but for the files an interruption or a swallowed error has touched.
LibraryInv == LibraryTypeOK /\ DocumentsHaveFiles /\ FilesAreOwned

\* Every document that is not being imported has all the chunks of its text, unless
\* the process ended, or a backup was taken, inside its import.
DocumentsAreComplete ==
  \A d \in store.documents \ partial :
    job.doc = d \/ Import!ChunksOf(d, 1, size[d]) \subseteq store.chunks

\* No chunk is left of a document that is gone, unless it was deleted while its
\* import went on.
NoStrayChunks == \A k \in store.chunks : k[1] \in store.documents \cup cut

\* The chunks in the store are those of its documents, all of them and no others.
ChunksMatchDocuments == DocumentsAreComplete /\ NoStrayChunks

\* An installation restores at most one backup, whatever is relaunched or retried.
RestoredOnce == restores <= 1

\* The Drive has one folder of the app, created by an installation or by one before,
\* its id heard of or not, unless two calls have looked for it at once.
OneFolder == Cardinality(folders) <= 1 \/ raced

\* A restore adds to what the user has made while it was downloaded; only a file of
\* the backup may be removed and not be replaced.
RestoreAdds ==
  [][restores' > restores =>
       /\ files \ torn' \subseteq files'
       /\ \A part \in DOMAIN store : store[part] \subseteq store'[part]]_vars

\* An import ends, whatever it fails at.
ImportEnds == isImportingKnowledge ~> ~isImportingKnowledge
=============================================================================
