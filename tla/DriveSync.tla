----------------------------- MODULE DriveSync -----------------------------
(***************************************************************************)
(* Google Drive: DriveSyncService with DriveAuthManager, DriveAPIClient,   *)
(* BackupExporter and BackupImporter.                                      *)
(*                                                                         *)
(* Every operation is a call that runs on the main actor from one request  *)
(* to the next; calls overlap.  A request may fail, and a request that     *)
(* changes the Drive may fail after it has done so.  A backup is the store *)
(* and the files as they were exported, in one turn, but for files whose   *)
(* error is swallowed, which restores may leave out as well.  The Drive    *)
(* lists backups by their creation; which of two folders of one name it    *)
(* finds is left open.  One account is used.                               *)
(***************************************************************************)
EXTENDS Naturals, Sequences, FiniteSets

CONSTANTS Calls,       \* bound: calls under way at once
          MaxFolders,  \* bound: folders created
          MaxBackups,  \* bound: backups uploaded
          None

VARIABLES
  files, store,      \* Documents and the SwiftData context
  importing,         \* the document an import is inserting the chunks of, if any
  isConnected,
  accessToken,       \* whether there is one
  folderId,          \* the cached folder
  didAttemptAutoRestore,
  isSyncing,
  call,              \* where each call is, and its locals
  folders, backups,  \* on the Drive
  restores,          \* history: backups imported since the app was installed
  raced,             \* history: two calls were looking for the folder at once
  torn               \* history: documents whose file was lost without an error

auth   == <<isConnected, accessToken>>
prefs  == <<folderId, didAttemptAutoRestore>>
local  == <<auth, prefs, isSyncing, call>>
remote == <<folders, backups>>
past   == <<restores, raced, torn>>

Folders  == 1..MaxFolders
NoBackup == [folder |-> None]
NoCall   == [op |-> "none", at |-> "idle", folder |-> None, backup |-> NoBackup]
Call(op, at, f, b) == [op |-> op, at |-> at, folder |-> f, backup |-> b]

\* A backup as it is exported for folder f: it holds the files that could be
\* packed; the errors of the others are swallowed.
Export(f, packed) == [folder |-> f, store |-> store, files |-> packed,
                      missed |-> files \ packed, importing |-> importing]

DriveTypeOK ==
  /\ {isConnected, accessToken, didAttemptAutoRestore, isSyncing} \subseteq BOOLEAN
  /\ folderId \in Folders \cup {None}
  /\ \A c \in Calls :
       /\ call[c].op \in {"none", "connect", "sync", "list", "fetch"}
       /\ call[c].at \in {"idle", "signIn", "spawned", "refresh", "find", "create",
                          "list", "download", "upload"}
       /\ call[c].folder \in Folders \cup {None}
       /\ call[c].at = "upload" => call[c].backup.folder = call[c].folder
  /\ folders \in SUBSET Folders
  /\ \A i \in DOMAIN backups : backups[i].folder \in Folders
  /\ Len(backups) <= MaxBackups
  /\ restores \in Nat /\ raced \in BOOLEAN

LocalIsEmpty == store.notes = {} /\ store.documents = {} /\ files = {}

Looking(c) == call[c].at \in {"find", "create"}

\* The call returns or throws; a sync lowers its flag on every path.
End(c) ==
  /\ call' = [call EXCEPT ![c] = NoCall]
  /\ isSyncing' = IF call[c].op = "sync" THEN FALSE ELSE isSyncing

GoTo(c, at, f, b) ==
  /\ call' = [call EXCEPT ![c] = Call(call[c].op, at, f, b)]
  /\ UNCHANGED isSyncing

-----------------------------------------------------------------------------
(***************************************************************************)
(* The calls begin.                                                        *)
(***************************************************************************)
\* The button is there when nobody is connected.
Connect(c) ==
  /\ ~isConnected /\ call[c] = NoCall
  /\ call' = [call EXCEPT ![c] = Call("connect", "signIn", None, NoBackup)]
  /\ UNCHANGED <<files, store, auth, prefs, isSyncing, remote, past>>

\* The Sync now button: the flag is raised in the turn of its Task.
PressSync(c) ==
  /\ isConnected /\ ~isSyncing /\ call[c] = NoCall
  /\ call' = [call EXCEPT ![c] = Call("sync", "spawned", None, NoBackup)]
  /\ UNCHANGED <<files, store, auth, prefs, isSyncing, remote, past>>

BeginSync(c) ==
  /\ call[c].at = "spawned"
  /\ IF isConnected
       THEN /\ isSyncing' = TRUE
            /\ call' = [call EXCEPT ![c] = Call("sync", "refresh", None, NoBackup)]
       ELSE call' = [call EXCEPT ![c] = NoCall] /\ UNCHANGED isSyncing
  /\ UNCHANGED <<files, store, auth, prefs, remote, past>>

\* listFilesInSynapsFolder, downloadFileFromSynapsFolder.
Begin(c, op) ==
  /\ isConnected /\ call[c] = NoCall
  /\ call' = [call EXCEPT ![c] = Call(op, "refresh", None, NoBackup)]
  /\ UNCHANGED <<files, store, auth, prefs, isSyncing, remote, past>>

\* Mistake to catch: the flag is set after the attempt (never, if it fails).
SignedInNotMarked(c) ==
  /\ call[c].at = "signIn"
  /\ isConnected' = TRUE /\ accessToken' = TRUE
  /\ IF ~didAttemptAutoRestore /\ LocalIsEmpty
       THEN GoTo(c, "refresh", None, NoBackup)
       ELSE End(c)
  /\ UNCHANGED <<files, store, didAttemptAutoRestore, folderId, remote, past>>

\* The sheet is answered, and the one restore is tried if there is nothing yet.
SignedIn(c) ==
  /\ call[c].at = "signIn"
  /\ isConnected' = TRUE /\ accessToken' = TRUE
  /\ didAttemptAutoRestore' = TRUE
  /\ IF ~didAttemptAutoRestore /\ LocalIsEmpty
       THEN GoTo(c, "refresh", None, NoBackup)
       ELSE End(c)
  /\ UNCHANGED <<files, store, folderId, remote, past>>

SignInFails(c) ==
  /\ call[c].at = "signIn"
  /\ isConnected' = FALSE
  /\ End(c)
  /\ UNCHANGED <<files, store, accessToken, folderId, didAttemptAutoRestore, remote, past>>

Disconnect ==
  /\ isConnected
  /\ isConnected' = FALSE /\ accessToken' = FALSE
  /\ UNCHANGED <<files, store, folderId, didAttemptAutoRestore, isSyncing, call, remote, past>>

-----------------------------------------------------------------------------
(***************************************************************************)
(* The requests of a call are answered.                                    *)
(***************************************************************************)
\* What a call does in the turn that has the folder.
UseFolder(c, f) ==
  IF call[c].op = "sync"
    THEN \/ \E packed \in SUBSET files : GoTo(c, "upload", f, Export(f, packed))
         \/ End(c)  \* the export fails
    ELSE GoTo(c, "list", f, NoBackup)

\* The user who was signed in is renewed, disconnected in between or not; a
\* renewal that fails leaves the token as it is.
Refreshed(c) ==
  /\ call[c].at = "refresh"
  /\ \/ isConnected' = TRUE /\ accessToken' = TRUE
     \/ UNCHANGED auth
  /\ IF ~accessToken' THEN End(c)
     ELSE IF call[c].op = "fetch" THEN GoTo(c, "download", None, NoBackup)
     ELSE IF folderId # None THEN UseFolder(c, folderId)
     ELSE GoTo(c, "find", None, NoBackup)
  /\ raced' = (raced \/ (call'[c].at = "find" /\ \E o \in Calls \ {c} : Looking(o)))
  /\ UNCHANGED <<files, store, folderId, didAttemptAutoRestore, remote, restores, torn>>

\* Mistake to catch: a folder is created without one being looked for.
FolderNeverFound(c) ==
  /\ call[c].at = "find"
  /\ GoTo(c, "create", None, NoBackup)
  /\ UNCHANGED <<files, store, auth, prefs, remote, past>>

FolderFound(c) ==
  /\ call[c].at = "find"
  /\ \/ /\ folders = {}
        /\ GoTo(c, "create", None, NoBackup)
        /\ UNCHANGED folderId
     \/ \E f \in folders : folderId' = f /\ UseFolder(c, f)
  /\ UNCHANGED <<files, store, auth, didAttemptAutoRestore, remote, past>>

\* The folder is created; its id may not arrive.
FolderCreated(c) ==
  /\ call[c].at = "create"
  /\ \E f \in Folders \ folders :
       /\ folders' = folders \cup {f}
       /\ \/ folderId' = f /\ UseFolder(c, f)
          \/ End(c) /\ UNCHANGED folderId
  /\ UNCHANGED <<files, store, auth, didAttemptAutoRestore, backups, past>>

\* listBackups, newest first, or listFiles.
Listed(c) ==
  /\ call[c].at = "list"
  /\ LET mine == {i \in DOMAIN backups : backups[i].folder = call[c].folder}
     IN IF call[c].op = "connect" /\ mine # {}
          THEN \E i \in mine : /\ \A j \in mine : j <= i
                               /\ GoTo(c, "download", call[c].folder, backups[i])
          ELSE End(c)
  /\ UNCHANGED <<files, store, auth, prefs, remote, past>>

\* The files of a backup replace those of their names.  An error is swallowed: the
\* file is left out, or removed and not replaced.
CopyFiles(b) ==
  \E there \in SUBSET b.files :
    /\ files' = (files \ b.files) \cup there
    /\ torn' = torn \cup b.missed \cup (b.files \ there)

\* Mistake to catch: the store is cleared for the backup.
RestoreReplacing(c) ==
  /\ call[c].at = "download" /\ call[c].op = "connect"
  /\ store' = call[c].backup.store
  /\ CopyFiles(call[c].backup)
  /\ restores' = restores + 1
  /\ End(c)
  /\ UNCHANGED <<auth, prefs, remote, raced>>

\* Mistake to catch: the files of the backup are not copied.
RestoreStoreOnly(c) ==
  /\ call[c].at = "download" /\ call[c].op = "connect"
  /\ store' = [part \in DOMAIN store |-> store[part] \cup call[c].backup.store[part]]
  /\ torn' = torn \cup call[c].backup.missed
  /\ restores' = restores + 1
  /\ End(c)
  /\ UNCHANGED <<files, auth, prefs, remote, raced>>

\* importZip, after the download and in the same turn; what it inserts is not saved.
Restore(c) ==
  /\ call[c].at = "download" /\ call[c].op = "connect"
  /\ store' = [part \in DOMAIN store |-> store[part] \cup call[c].backup.store[part]]
  /\ CopyFiles(call[c].backup)
  /\ restores' = restores + 1
  /\ End(c)
  /\ UNCHANGED <<auth, prefs, remote, raced>>

\* The file of a Drive import is there.
Fetched(c) ==
  /\ call[c].at = "download" /\ call[c].op = "fetch"
  /\ End(c)
  /\ UNCHANGED <<files, store, auth, prefs, remote, past>>

\* The backup is on the Drive; the answer that says so may be lost.
Uploaded(c) ==
  /\ call[c].at = "upload"
  /\ Len(backups) < MaxBackups
  /\ backups' = Append(backups, call[c].backup)
  /\ End(c)
  /\ UNCHANGED <<files, store, auth, prefs, folders, past>>

RequestFails(c) ==
  /\ call[c].at \in {"find", "create", "list", "download", "upload"}
  /\ End(c)
  /\ UNCHANGED <<files, store, auth, prefs, remote, past>>

\* What a call waits for, a restore and the answers of a Drive import apart.
Answered(c) ==
  \/ BeginSync(c) \/ SignedIn(c) \/ SignInFails(c) \/ FolderFound(c) \/ FolderCreated(c)
  \/ Listed(c) \/ Uploaded(c)
  \/ call[c].op # "fetch" /\ (Refreshed(c) \/ RequestFails(c))

DriveInit ==
  /\ isConnected = FALSE /\ accessToken = FALSE
  /\ folderId = None /\ didAttemptAutoRestore = FALSE
  /\ isSyncing = FALSE
  /\ call = [c \in Calls |-> NoCall]
  /\ folders = {} /\ backups = <<>>
  /\ restores = 0 /\ raced = FALSE /\ torn = {}
=============================================================================
