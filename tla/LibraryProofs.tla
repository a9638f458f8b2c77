---------------------------- MODULE LibraryProofs ----------------------------
(***************************************************************************)
(* Theorems about what the app keeps, for any number of notes, documents,  *)
(* chunks, calls, folders, backups, ends of the process and installations. *)
(*                                                                         *)
(* What holds of the store holds of what was saved of it, for a relaunch   *)
(* goes back to that, and of every backup on the Drive or on its way, for  *)
(* a restore adds it (Good).  The document being imported is known to none *)
(* of them before its text is there, so that the number of its chunks can  *)
(* be set then (Pending).  RestoreInv and FolderInv follow the calls that  *)
(* may restore or create a folder.                                         *)
(***************************************************************************)
EXTENDS Library, FiniteSetTheorems, SequenceTheorems, TLAPS

\* What is in a queue when an entry is put in at the end or taken out at the front.
Rng(s) == {s[i] : i \in DOMAIN s}

\* Append puts one entry in.
LEMMA RngAppend ==
  ASSUME NEW S, NEW s \in Seq(S), NEW e \in S
  PROVE  Append(s, e) \in Seq(S) /\ Rng(Append(s, e)) = Rng(s) \cup {e}
<1>1. /\ Append(s, e) \in Seq(S) /\ Len(Append(s, e)) = Len(s) + 1
      /\ \A i \in 1..Len(s) : Append(s, e)[i] = s[i]
      /\ Append(s, e)[Len(s) + 1] = e
  BY AppendProperties
<1>2. DOMAIN s = 1..Len(s) /\ Len(s) \in Nat /\ DOMAIN Append(s, e) = 1..(Len(s) + 1)
  BY <1>1, LenProperties
<1> QED BY <1>1, <1>2 DEF Rng

\* An entry is of the queue's type.
LEMMA InRange ==
  ASSUME NEW S, NEW s \in Seq(S), NEW c \in Rng(s)
  PROVE  c \in S
BY LenProperties DEF Rng

-----------------------------------------------------------------------------
Importing == IF job.phase = "indexing" THEN {job.doc} ELSE {}
Pending   == IF job.phase = "extracting" THEN {job.doc} ELSE {}

Stores  == [notes : SUBSET Notes, documents : SUBSET Docs, chunks : SUBSET Import!Chunks]
Folders == 1..MaxFolders
Backups == [folder : Folders, store : Stores, files : SUBSET Docs, missed : SUBSET Docs,
            importing : SUBSET Docs]
Jobs    == [phase : {"idle", "fetching", "next", "extracting", "indexing"},
            doc : Docs \cup {None}, chunk : 0..MaxChunks, left : 0..MaxFiles]
CallRecords ==
  [op : {"none", "connect", "sync", "list", "fetch"},
   at : {"idle", "signIn", "spawned", "refresh", "find", "create", "list", "download", "upload"},
   folder : Folders \cup {None}, backup : Backups \cup {Drive!NoBackup}]

\* A call that uploads or restores has something to.
Legal(r) ==
  /\ r.at = "upload" => r.backup # Drive!NoBackup /\ r.backup.folder = r.folder
  /\ r.at = "download" /\ r.op = "connect" => r.backup # Drive!NoBackup

ImportTypes ==
  /\ store \in Stores /\ saved \in Stores
  /\ files \in SUBSET Docs /\ stored \in SUBSET Docs /\ leaked \in SUBSET Docs
  /\ cut \in SUBSET Docs /\ torn \in SUBSET Docs /\ partial \in SUBSET Docs
  /\ isImportingKnowledge \in BOOLEAN /\ job \in Jobs
  /\ size \in [Docs -> 0..MaxChunks]

DriveTypes ==
  /\ isConnected \in BOOLEAN /\ accessToken \in BOOLEAN /\ isSyncing \in BOOLEAN
  /\ didAttemptAutoRestore \in BOOLEAN /\ raced \in BOOLEAN
  /\ folderId \in Folders \cup {None} /\ folders \in SUBSET Folders
  /\ call \in [Calls -> CallRecords] /\ \A c \in Calls : Legal(call[c])
  /\ backups \in Seq(Backups) /\ Len(backups) <= MaxBackups
  /\ restores \in Nat

Counters == kills \in 0..MaxKills /\ installs \in 0..MaxInstalls

JobInv ==
  /\ ~isImportingKnowledge => job.phase = "idle"
  /\ job.phase # "idle" => job.left >= 1
  /\ job.phase \notin {"extracting", "indexing"} => job.doc = None
  /\ job.phase = "extracting" => job.doc \in stored /\ job.doc \in files \cup torn
  /\ job.phase = "indexing" =>
       /\ job.doc \in stored /\ job.doc \in store.documents \cup cut
       /\ 1 <= job.chunk /\ job.chunk <= size[job.doc]
       /\ job.doc \in store.documents \ partial =>
            Import!ChunksOf(job.doc, 1, job.chunk) \subseteq store.chunks

Past == [torn |-> torn, partial |-> partial, cut |-> cut, size |-> size,
         known |-> stored \ Pending]

\* Contents st, taken while imp was imported, with files fs.
Good(st, fs, imp, h) ==
  /\ st.documents \ h.torn \subseteq fs
  /\ \A d \in st.documents \ (h.partial \cup imp) :
       Import!ChunksOf(d, 1, h.size[d]) \subseteq st.chunks
  /\ \A k \in st.chunks : k[1] \in st.documents \cup h.cut
  /\ st.documents \subseteq h.known

\* The files there were when a backup was exported.
Taken(b) == b.files \cup b.missed

\* Backups on the Drive and on their way.
Copies == Rng(backups) \cup {b \in Backups : \E c \in Calls : call[c].backup = b}

Content ==
  /\ Good(store, files, Importing, Past)
  /\ Good(saved, files, Importing, Past)
  /\ \A b \in Copies : Good(b.store, Taken(b), b.importing, Past)

Owned == files \subseteq store.documents \cup leaked \cup Pending

\* A call that will restore, unless it fails.
Restoring(r) == r.op = "connect" /\ r.at # "signIn"

RestoreInv ==
  /\ restores <= 1
  /\ ~didAttemptAutoRestore => restores = 0 /\ \A c \in Calls : ~Restoring(call[c])
  /\ \A c \in Calls : Restoring(call[c]) =>
       restores = 0 /\ \A o \in Calls : Restoring(call[o]) => o = c

Searching(r) == r.at \in {"find", "create"}

FolderInv ==
  ~raced => /\ Cardinality(folders) <= 1
            /\ \A c, o \in Calls : Searching(call[c]) /\ Searching(call[o]) => c = o
            /\ \A c \in Calls : call[c].at = "create" => folders = {}

IInv == /\ ImportTypes /\ DriveTypes /\ Counters
        /\ JobInv /\ Content /\ Owned /\ RestoreInv /\ FolderInv

-----------------------------------------------------------------------------
(***************************************************************************)
(* What holds of a copy goes on to hold.                                   *)
(***************************************************************************)
LEMMA GoodKeeps ==
  ASSUME NEW st, NEW fs, NEW fs2, NEW imp, NEW imp2, NEW h, NEW h2,
         Good(st, fs, imp, h),
         fs \subseteq fs2 \cup h2.torn, imp \subseteq imp2 \cup h2.partial,
         h.torn \subseteq h2.torn, h.partial \subseteq h2.partial, h.cut \subseteq h2.cut,
         st.documents \subseteq h2.known, \A d \in st.documents : h2.size[d] = h.size[d]
  PROVE  Good(st, fs2, imp2, h2)
BY DEF Good

\* A restore adds a copy: both were good, so are they together.
LEMMA GoodAdds ==
  ASSUME NEW st, NEW fs, NEW imp, NEW bt, NEW bs, NEW bimp, NEW h, NEW h2, NEW both, NEW fs2,
         Good(st, fs, imp, h), Good(bt, bs, bimp, h),
         h.torn \subseteq h2.torn, fs \cup bs \subseteq fs2 \cup h2.torn, h2.cut = h.cut, h2.size = h.size, h2.known = h.known,
         h2.partial = h.partial \cup bimp,
         both.documents = st.documents \cup bt.documents,
         both.chunks = st.chunks \cup bt.chunks
  PROVE  Good(both, fs2, imp, h2)
<1>1. both.documents \ h2.torn \subseteq fs2
  BY DEF Good
<1>2. ASSUME NEW d \in both.documents \ (h2.partial \cup imp)
      PROVE  Import!ChunksOf(d, 1, h2.size[d]) \subseteq both.chunks
  <2>1. CASE d \in st.documents
    BY <1>2, <2>1 DEF Good
  <2>2. CASE d \in bt.documents
    BY <1>2, <2>2 DEF Good
  <2> QED BY <1>2, <2>1, <2>2
<1>3. \A k \in both.chunks : k[1] \in both.documents \cup h2.cut
  BY DEF Good
<1>4. both.documents \subseteq h2.known
  BY DEF Good
<1> QED BY <1>1, <1>2, <1>3, <1>4 DEF Good

LEMMA TypesEnough == IInv => LibraryTypeOK
<1> SUFFICES ASSUME IInv PROVE LibraryTypeOK
  OBVIOUS
<1>1. Import!TypeOK
  BY DEF IInv, ImportTypes, Stores, Jobs, Import!TypeOK
<1>2. Drive!DriveTypeOK
  <2>1. \A c \in Calls :
       /\ call[c].op \in {"none", "connect", "sync", "list", "fetch"}
       /\ call[c].at \in {"idle", "signIn", "spawned", "refresh", "find", "create",
                          "list", "download", "upload"}
       /\ call[c].folder \in Drive!Folders \cup {None}
       /\ call[c].at = "upload" => call[c].backup.folder = call[c].folder
    BY DEF IInv, DriveTypes, CallRecords, Legal, Folders, Drive!Folders
  <2>2. \A i \in DOMAIN backups : backups[i].folder \in Drive!Folders
    <3>1. \A i \in DOMAIN backups : backups[i] \in Rng(backups)
      BY DEF Rng
    <3>2. \A i \in DOMAIN backups : backups[i] \in Backups
      BY <3>1, InRange DEF IInv, DriveTypes
    <3> QED BY <3>2 DEF Backups, Folders, Drive!Folders
  <2> QED BY <2>1, <2>2 DEF IInv, DriveTypes, Folders, Drive!Folders, Drive!DriveTypeOK
<1>3. store.notes \in SUBSET Notes /\ saved.notes \in SUBSET Notes
  BY DEF IInv, ImportTypes, Stores
<1> QED BY <1>1, <1>2, <1>3 DEF LibraryTypeOK, IInv, ImportTypes, Counters

LEMMA NoBackupIsNone == Drive!NoBackup \notin Backups
<1>1. DOMAIN Drive!NoBackup = {"folder"}
  BY DEF Drive!NoBackup
<1> QED BY <1>1 DEF Backups

LEMMA InvInit == Init => IInv
<1> SUFFICES ASSUME Init PROVE IInv
  OBVIOUS
<1> USE LibraryAssumption DEF Init, Import!Init, Drive!DriveInit
<1>1. /\ store \in Stores /\ saved \in Stores /\ store.documents = {} /\ store.chunks = {}
      /\ saved = store
  BY DEF Stores
<1>2. job \in Jobs /\ job.phase = "idle" /\ job.doc = None
  BY DEF Jobs, Import!Idle
<1>3. ImportTypes
  <2>1. size \in [Docs -> 0..MaxChunks]
    BY DEF Init
  <2>2. isImportingKnowledge \in BOOLEAN
    OBVIOUS
  <2>3. /\ files \in SUBSET Docs /\ stored \in SUBSET Docs /\ leaked \in SUBSET Docs
        /\ cut \in SUBSET Docs /\ torn \in SUBSET Docs /\ partial \in SUBSET Docs
    OBVIOUS
  <2> QED BY <1>1, <1>2, <2>1, <2>2, <2>3 DEF ImportTypes
<1>4. \A c \in Calls : call[c] = Drive!NoCall
  OBVIOUS
<1>5. Drive!NoCall \in CallRecords /\ Legal(Drive!NoCall)
  BY DEF CallRecords, Legal, Drive!NoCall, Drive!NoBackup
<1>6. <<>> \in Seq(Backups) /\ Len(<<>>) = 0 /\ Rng(<<>>) = {}
  BY EmptySeq DEF Rng
<1>7. DriveTypes
  <2>1. /\ isConnected \in BOOLEAN /\ accessToken \in BOOLEAN /\ isSyncing \in BOOLEAN
        /\ didAttemptAutoRestore \in BOOLEAN /\ raced \in BOOLEAN
    OBVIOUS
  <2>2. call \in [Calls -> CallRecords] /\ \A c \in Calls : Legal(call[c])
    BY <1>4, <1>5
  <2>3. folderId \in Folders \cup {None} /\ folders \in SUBSET Folders /\ restores \in Nat
    OBVIOUS
  <2> HIDE DEF Init
  <2>4. backups \in Seq(Backups) /\ Len(backups) <= MaxBackups
    BY <1>6 DEF Init
  <2> QED BY <2>1, <2>2, <2>3, <2>4 DEF DriveTypes
<1>8. JobInv
  BY <1>2 DEF JobInv
<1>9. Content
  <2>1. Good(store, files, Importing, Past) /\ Good(saved, files, Importing, Past)
    BY <1>1 DEF Good
  <2>2. Copies \subseteq {Drive!NoBackup} \cap Backups
    BY <1>4, <1>6 DEF Copies, Drive!NoCall
  <2> QED BY <2>1, <2>2, NoBackupIsNone DEF Content
<1>10. \A c \in Calls : ~Restoring(call[c]) /\ ~Searching(call[c])
  BY <1>4 DEF Restoring, Searching, Drive!NoCall
<1>11. RestoreInv
  BY <1>10 DEF RestoreInv
<1>12. FolderInv
  BY <1>10, FS_EmptySet DEF FolderInv, Searching
<1> QED BY <1>3, <1>7, <1>8, <1>9, <1>11, <1>12 DEF IInv, Counters, Owned

-----------------------------------------------------------------------------
(***************************************************************************)
(* Calls.                                                                  *)
(***************************************************************************)
\* A backup a call may be given: one that is around, or one of the present store.
Given(b) == b \in Copies \/ \E f \in Folders, packed \in SUBSET files : b = Drive!Export(f, packed)

Moves(c, r) ==
  /\ call' = [call EXCEPT ![c] = r]
  /\ r \in CallRecords /\ Legal(r)
  /\ r.backup = Drive!NoBackup \/ Given(r.backup)

\* A move that brings no new restore and no second search for the folder.
Quietly(c, r) ==
  /\ Moves(c, r)
  /\ Restoring(r) => Restoring(call[c])
  /\ Searching(r) =>
       Searching(call[c]) \/ raced' \/ \A o \in Calls \ {c} : ~Searching(call[o])
  /\ r.at = "create" => call[c].at = "create" \/ folders = {}

LEMMA ExportIsBackup ==
  ASSUME IInv, NEW f \in Folders, NEW packed \in SUBSET files
  PROVE  LET b == Drive!Export(f, packed)
         IN b \in Backups /\ b.folder = f /\ Good(b.store, Taken(b), b.importing, Past)
<1> DEFINE b == Drive!Export(f, packed)
<1>1. b = [folder |-> f, store |-> store, files |-> packed, missed |-> files \ packed,
           importing |-> Importing]
  BY DEF Drive!Export, Importing
<1>2. Importing \in SUBSET Docs /\ store \in Stores /\ files \in SUBSET Docs
  BY DEF IInv, ImportTypes, JobInv, Importing
<1>3. Good(store, files, Importing, Past)
  BY DEF IInv, Content
<1>4. Taken(b) = files
  BY <1>1 DEF Taken
<1> QED BY <1>1, <1>2, <1>3, <1>4 DEF Backups

LEMMA GivenIsBackup ==
  ASSUME IInv, NEW b, Given(b)
  PROVE  b \in Backups /\ b # Drive!NoBackup /\ Good(b.store, Taken(b), b.importing, Past)
<1>1. CASE b \in Copies
  <2>1. b \in Backups
    BY <1>1, InRange DEF Copies, IInv, DriveTypes
  <2> QED BY <1>1, <2>1, NoBackupIsNone DEF IInv, Content
<1>2. CASE \E f \in Folders, packed \in SUBSET files : b = Drive!Export(f, packed)
  BY <1>2, ExportIsBackup, NoBackupIsNone
<1> QED BY <1>1, <1>2 DEF Given

\* A call's own backup is around.
LEMMA OwnCopy ==
  ASSUME IInv, NEW c \in Calls, call[c].backup # Drive!NoBackup
  PROVE  call[c].backup \in Copies /\ call[c].backup \in Backups
BY DEF IInv, DriveTypes, CallRecords, Copies

LEMMA EndMoves ==
  ASSUME IInv, NEW c \in Calls, Drive!End(c)
  PROVE  Quietly(c, Drive!NoCall) /\ ~Searching(Drive!NoCall) /\ isSyncing' \in BOOLEAN
<1>1. isSyncing' \in BOOLEAN
  <2>1. isSyncing \in BOOLEAN
    BY DEF IInv, DriveTypes
  <2>2. CASE call[c].op = "sync"
    BY <2>2 DEF Drive!End
  <2>3. CASE call[c].op # "sync"
    BY <2>1, <2>3 DEF Drive!End
  <2> QED BY <2>2, <2>3
<1>2. Drive!NoCall \in CallRecords /\ Legal(Drive!NoCall) /\ Drive!NoCall.backup = Drive!NoBackup
  BY DEF CallRecords, Legal, Drive!NoCall, Drive!NoBackup
<1>3. ~Restoring(Drive!NoCall) /\ ~Searching(Drive!NoCall) /\ Drive!NoCall.at # "create"
  BY DEF Restoring, Searching, Drive!NoCall
<1> QED BY <1>1, <1>2, <1>3 DEF Drive!End, Moves, Quietly

LEMMA CallIsRecord ==
  ASSUME NEW op \in {"none", "connect", "sync", "list", "fetch"},
         NEW at \in {"idle", "signIn", "spawned", "refresh", "find", "create", "list",
                     "download", "upload"},
         NEW f \in Folders \cup {None}, NEW b \in Backups \cup {Drive!NoBackup}
  PROVE  /\ Drive!Call(op, at, f, b) \in CallRecords
         /\ Drive!Call(op, at, f, b).op = op /\ Drive!Call(op, at, f, b).at = at
         /\ Drive!Call(op, at, f, b).folder = f /\ Drive!Call(op, at, f, b).backup = b
BY DEF Drive!Call, CallRecords

LEMMA GoToMoves ==
  ASSUME IInv, NEW c \in Calls,
         NEW at \in {"refresh", "find", "create", "list", "download", "upload"},
         NEW f \in Folders \cup {None}, NEW b, b = Drive!NoBackup \/ Given(b),
         at = "upload" => b # Drive!NoBackup /\ b.folder = f,
         at = "download" /\ call[c].op = "connect" => b # Drive!NoBackup,
         Drive!GoTo(c, at, f, b)
  PROVE  /\ Moves(c, Drive!Call(call[c].op, at, f, b)) /\ isSyncing' \in BOOLEAN
         /\ Drive!Call(call[c].op, at, f, b).at = at
         /\ Restoring(Drive!Call(call[c].op, at, f, b)) => call[c].op = "connect"
<1> DEFINE op == call[c].op
           r  == Drive!Call(op, at, f, b)
<1>1. /\ op \in {"none", "connect", "sync", "list", "fetch"}
      /\ at \in {"idle", "signIn", "spawned", "refresh", "find", "create", "list",
                 "download", "upload"}
  BY DEF IInv, DriveTypes, CallRecords
<1>2. b \in Backups \cup {Drive!NoBackup}
  BY GivenIsBackup
<1> HIDE DEF op
<1>3. r \in CallRecords /\ r.op = op /\ r.at = at /\ r.folder = f /\ r.backup = b
  BY <1>1, <1>2, CallIsRecord
<1> USE DEF op
<1>4. call' = [call EXCEPT ![c] = r] /\ isSyncing' = isSyncing
  BY DEF Drive!GoTo
<1>5. isSyncing' \in BOOLEAN
  BY <1>4 DEF IInv, DriveTypes
<1> HIDE DEF r
<1>6. Moves(c, r)
  BY <1>3, <1>4 DEF Moves, Legal
<1>7. Restoring(r) => call[c].op = "connect"
  BY <1>3 DEF Restoring
<1> QED BY <1>3, <1>5, <1>6, <1>7 DEF r

\* What a call that goes on may come to.
LEMMA GoesOn ==
  ASSUME IInv, NEW c \in Calls,
         NEW at \in {"refresh", "list", "download", "upload"},
         NEW f \in Folders \cup {None}, NEW b, b = Drive!NoBackup \/ Given(b),
         at = "upload" => b # Drive!NoBackup /\ b.folder = f,
         at = "download" /\ call[c].op = "connect" => b # Drive!NoBackup,
         call[c].at # "signIn", Drive!GoTo(c, at, f, b)
  PROVE  (\E r : Quietly(c, r) /\ ~Searching(r)) /\ isSyncing' \in BOOLEAN
<1> DEFINE r == Drive!Call(call[c].op, at, f, b)
<1>1. Moves(c, r) /\ isSyncing' \in BOOLEAN /\ r.at = at /\ (Restoring(r) => call[c].op = "connect")
  BY GoToMoves
<1> HIDE DEF r
<1>2. Quietly(c, r) /\ ~Searching(r)
  BY <1>1 DEF Quietly, Restoring, Searching
<1> QED BY <1>1, <1>2

LEMMA UseFolderMoves ==
  ASSUME IInv, NEW c \in Calls, NEW f \in Folders, call[c].at # "signIn", Drive!UseFolder(c, f)
  PROVE  (\E r : Quietly(c, r) /\ ~Searching(r)) /\ isSyncing' \in BOOLEAN
<1>1. ASSUME NEW packed \in SUBSET files,
             Drive!GoTo(c, "upload", f, Drive!Export(f, packed))
      PROVE  (\E r : Quietly(c, r) /\ ~Searching(r)) /\ isSyncing' \in BOOLEAN
  <2> DEFINE b == Drive!Export(f, packed)
  <2>1. b.folder = f /\ Given(b) /\ b # Drive!NoBackup
    BY ExportIsBackup, NoBackupIsNone DEF Given
  <2>2. Drive!GoTo(c, "upload", f, b)
    BY <1>1
  <2> HIDE DEF b
  <2> QED BY <2>1, <2>2, GoesOn
<1>2. CASE Drive!GoTo(c, "list", f, Drive!NoBackup)
  BY <1>2, GoesOn
<1>3. CASE Drive!End(c)
  BY <1>3, EndMoves
<1> QED BY <1>1, <1>2, <1>3 DEF Drive!UseFolder

-----------------------------------------------------------------------------
(***************************************************************************)
(* What a quiet move keeps.                                                *)
(***************************************************************************)
LEMMA QuietCalls ==
  ASSUME IInv, NEW c \in Calls, NEW r, Moves(c, r)
  PROVE  /\ call' \in [Calls -> CallRecords] /\ \A o \in Calls : Legal(call'[o])
         /\ call'[c] = r /\ \A o \in Calls : o # c => call'[o] = call[o]
BY DEF IInv, DriveTypes, Moves

LEMMA QuietRestores ==
  ASSUME IInv, NEW c \in Calls, NEW r, Moves(c, r), Restoring(r) => Restoring(call[c]),
         restores' = restores, ~didAttemptAutoRestore' => ~didAttemptAutoRestore
  PROVE  RestoreInv'
BY QuietCalls DEF IInv, RestoreInv

LEMMA QuietFolders ==
  ASSUME IInv, NEW c \in Calls, NEW r, Quietly(c, r), folders' = folders, ~raced' => ~raced
  PROVE  FolderInv'
<1> SUFFICES ASSUME ~raced' PROVE FolderInv'
  BY DEF FolderInv
<1>1. /\ Cardinality(folders) <= 1
      /\ \A d, o \in Calls : Searching(call[d]) /\ Searching(call[o]) => d = o
      /\ \A d \in Calls : call[d].at = "create" => folders = {}
  BY DEF IInv, FolderInv
<1>2. call'[c] = r /\ \A o \in Calls : o # c => call'[o] = call[o]
  BY QuietCalls DEF Quietly
<1>3. ASSUME NEW d \in Calls, NEW o \in Calls, Searching(call'[d]), Searching(call'[o])
      PROVE  d = o
  BY <1>1, <1>2, <1>3 DEF Quietly
<1>4. \A d \in Calls : call'[d].at = "create" => folders = {}
  BY <1>1, <1>2 DEF Quietly
<1> QED BY <1>1, <1>3, <1>4 DEF FolderInv

\* The backups that are around after a move.
LEMMA CopiesAfter ==
  ASSUME IInv, NEW c \in Calls, NEW r, Moves(c, r),
         \/ backups' = backups
         \/ backups' = Append(backups, call[c].backup) /\ call[c].backup # Drive!NoBackup
  PROVE  \A b \in Copies' : Given(b)
<1>1. backups \in Seq(Backups)
  BY DEF IInv, DriveTypes
<1>2. Rng(backups') \subseteq Copies
  <2>1. CASE backups' = backups
    BY <2>1 DEF Copies
  <2>2. CASE backups' = Append(backups, call[c].backup) /\ call[c].backup # Drive!NoBackup
    <3>1. call[c].backup \in Copies /\ call[c].backup \in Backups
      BY <2>2, OwnCopy
    <3>2. Rng(backups') = Rng(backups) \cup {call[c].backup}
      BY <1>1, <2>2, <3>1, RngAppend
    <3> QED BY <3>1, <3>2 DEF Copies
  <2> QED BY <2>1, <2>2
<1>3. ASSUME NEW b \in Backups, NEW o \in Calls, call'[o].backup = b
      PROVE  Given(b)
  <2>1. CASE o = c
    BY <2>1, <1>3, QuietCalls, NoBackupIsNone DEF Moves
  <2>2. CASE o # c
    BY <2>2, <1>3, QuietCalls DEF Given, Copies
  <2> QED BY <2>1, <2>2
<1> QED BY <1>2, <1>3 DEF Copies, Given

\* A step of the calls that leaves the store alone.
LEMMA QuietLibrary ==
  ASSUME IInv, NEW c \in Calls, NEW r, Moves(c, r),
         \/ backups' = backups
         \/ backups' = Append(backups, call[c].backup) /\ call[c].backup # Drive!NoBackup,
         UNCHANGED <<files, store, imports, torn, partial, kills, installs>>
  PROVE  ImportTypes' /\ Counters' /\ JobInv' /\ Content' /\ Owned'
<1> USE DEF imports
<1>1. Past' = Past /\ Importing' = Importing /\ Pending' = Pending
  BY DEF Past, Importing, Pending
<1>2. \A b \in Copies' : Good(b.store, Taken(b), b.importing, Past)
  BY CopiesAfter, GivenIsBackup
<1>3. Content'
  BY <1>1, <1>2 DEF IInv, Content
<1> QED BY <1>1, <1>3 DEF IInv, ImportTypes, Counters, JobInv, Owned

\* The Drive side of the invariant, after a step of call c.
DriveSide(c) ==
  /\ DriveTypes' /\ RestoreInv' /\ FolderInv'
  /\ \E r : Moves(c, r)
  /\ \/ backups' = backups
     \/ backups' = Append(backups, call[c].backup) /\ call[c].backup # Drive!NoBackup

Flags == /\ isConnected \in BOOLEAN /\ accessToken \in BOOLEAN /\ isSyncing \in BOOLEAN
         /\ didAttemptAutoRestore \in BOOLEAN /\ raced \in BOOLEAN

LEMMA FlagsTyped == IInv => Flags
BY DEF IInv, DriveTypes, Flags

LEMMA QuietDrive ==
  ASSUME IInv, NEW c \in Calls, \E r : Quietly(c, r), Flags',
         folderId' \in Folders \cup {None},
         UNCHANGED <<folders, restores, backups>>,
         ~raced' => ~raced, ~didAttemptAutoRestore' => ~didAttemptAutoRestore
  PROVE  DriveSide(c)
<1>1. PICK r : Quietly(c, r)
  OBVIOUS
<1>2. Moves(c, r)
  BY <1>1 DEF Quietly
<1>3. RestoreInv'
  BY <1>1, <1>2, QuietRestores DEF Quietly
<1>4. FolderInv'
  BY <1>1, QuietFolders
<1>5. call' \in [Calls -> CallRecords] /\ \A o \in Calls : Legal(call'[o])
  BY <1>2, QuietCalls
<1>6. DriveTypes'
  BY <1>5 DEF IInv, DriveTypes, Flags
<1> QED BY <1>2, <1>3, <1>4, <1>6 DEF DriveSide

LEMMA BeginsCall ==
  ASSUME IInv, NEW c \in Calls,
         NEW op \in {"connect", "sync", "list", "fetch"}, NEW at \in {"signIn", "spawned", "refresh"},
         op = "connect" => at = "signIn",
         call' = [call EXCEPT ![c] = Drive!Call(op, at, None, Drive!NoBackup)],
         UNCHANGED <<isConnected, accessToken, folderId, didAttemptAutoRestore, isSyncing,
                     folders, backups, restores, raced>>
  PROVE  DriveSide(c)
<1> DEFINE r == Drive!Call(op, at, None, Drive!NoBackup)
<1>1. r \in CallRecords /\ r.op = op /\ r.at = at /\ r.backup = Drive!NoBackup
  BY CallIsRecord
<1> HIDE DEF r
<1>2. Moves(c, r)
  BY <1>1 DEF Moves, Legal, r
<1>3. Quietly(c, r)
  BY <1>1, <1>2 DEF Quietly, Restoring, Searching
<1>4. Flags'
  BY FlagsTyped DEF Flags
<1>5. folderId' \in Folders \cup {None}
  BY DEF IInv, DriveTypes
<1> QED BY <1>3, <1>4, <1>5, QuietDrive

LEMMA ConnectSide == ASSUME IInv, NEW c \in Calls, Drive!Connect(c) PROVE DriveSide(c)
BY BeginsCall DEF Drive!Connect, Drive!auth, Drive!prefs, Drive!remote, Drive!past

LEMMA PressSyncSide == ASSUME IInv, NEW c \in Calls, Drive!PressSync(c) PROVE DriveSide(c)
BY BeginsCall DEF Drive!PressSync, Drive!auth, Drive!prefs, Drive!remote, Drive!past

LEMMA BeginSide ==
  ASSUME IInv, NEW c \in Calls, NEW op \in {"list", "fetch"}, Drive!Begin(c, op)
  PROVE  DriveSide(c)
BY BeginsCall DEF Drive!Begin, Drive!auth, Drive!prefs, Drive!remote, Drive!past

LEMMA BeginSyncSide == ASSUME IInv, NEW c \in Calls, Drive!BeginSync(c) PROVE DriveSide(c)
<1> USE DEF Drive!BeginSync, Drive!auth, Drive!prefs, Drive!remote, Drive!past
<1> DEFINE on == Drive!Call("sync", "refresh", None, Drive!NoBackup)
<1>1. on \in CallRecords /\ on.op = "sync" /\ on.at = "refresh" /\ on.backup = Drive!NoBackup
  BY CallIsRecord
<1>2. Drive!NoCall \in CallRecords /\ Drive!NoCall.op = "none" /\ Drive!NoCall.at = "idle"
      /\ Drive!NoCall.backup = Drive!NoBackup
  BY DEF CallRecords, Drive!NoCall
<1>3. \E r \in {on, Drive!NoCall} : call' = [call EXCEPT ![c] = r]
  OBVIOUS
<1> HIDE DEF on
<1>4. \E r : Quietly(c, r)
  BY <1>1, <1>2, <1>3 DEF Quietly, Moves, Legal, Restoring, Searching
<1>5. isSyncing' = TRUE \/ isSyncing' = isSyncing
  OBVIOUS
<1>6. Flags'
  BY <1>5, FlagsTyped, Zenon DEF Flags
<1>7. folderId' \in Folders \cup {None}
  BY DEF IInv, DriveTypes
<1> QED BY <1>4, <1>6, <1>7, QuietDrive

LEMMA SignedInSide == ASSUME IInv, NEW c \in Calls, Drive!SignedIn(c) PROVE DriveSide(c)
<1> USE DEF Drive!SignedIn, Drive!remote, Drive!past
<1>1. CASE ~didAttemptAutoRestore /\ Drive!LocalIsEmpty
  <2> DEFINE r == Drive!Call(call[c].op, "refresh", None, Drive!NoBackup)
  <2>1. Moves(c, r) /\ isSyncing' \in BOOLEAN /\ r.at = "refresh"
    BY <1>1, GoToMoves
  <2> HIDE DEF r
  <2>2. /\ call' \in [Calls -> CallRecords] /\ \A o \in Calls : Legal(call'[o])
        /\ call'[c] = r /\ \A o \in Calls : o # c => call'[o] = call[o]
    BY <2>1, QuietCalls
  <2>3. restores = 0 /\ \A o \in Calls : ~Restoring(call[o])
    BY <1>1 DEF IInv, RestoreInv
  <2>4. didAttemptAutoRestore' /\ restores' = restores
    OBVIOUS
  <2>5. RestoreInv'
    BY <2>2, <2>3, <2>4 DEF RestoreInv
  <2>6. ~Searching(r) /\ r.at # "create"
    BY <2>1 DEF Searching
  <2>7. FolderInv'
    BY <2>2, <2>6 DEF FolderInv, IInv
  <2>8. Flags'
    <3>1. isConnected' \in BOOLEAN /\ accessToken' \in BOOLEAN /\ didAttemptAutoRestore' \in BOOLEAN
      OBVIOUS
    <3>2. raced' = raced
      OBVIOUS
    <3> QED BY <2>1, <3>1, <3>2, FlagsTyped DEF Flags
  <2>9. DriveTypes'
    BY <2>2, <2>8 DEF IInv, DriveTypes, Flags
  <2> QED BY <2>1, <2>5, <2>7, <2>9 DEF DriveSide
<1>2. CASE ~(~didAttemptAutoRestore /\ Drive!LocalIsEmpty)
  <2>1. Quietly(c, Drive!NoCall) /\ isSyncing' \in BOOLEAN
    BY <1>2, EndMoves
  <2>2. Flags'
    <3>1. isConnected' \in BOOLEAN /\ accessToken' \in BOOLEAN /\ didAttemptAutoRestore' \in BOOLEAN
      OBVIOUS
    <3>2. raced' = raced
      OBVIOUS
    <3> QED BY <2>1, <3>1, <3>2, FlagsTyped DEF Flags
  <2>3. folderId' \in Folders \cup {None}
    BY DEF IInv, DriveTypes
  <2>4. didAttemptAutoRestore' /\ (~raced' => ~raced) /\ UNCHANGED <<folders, restores, backups>>
    OBVIOUS
  <2> QED BY <2>1, <2>2, <2>3, <2>4, QuietDrive
<1> QED BY <1>1, <1>2

\* A step after which the call has ended or gone on, and the flags of the user are as
\* they were or say that nobody, or somebody, is signed in.
LEMMA MovedSide ==
  ASSUME IInv, NEW c \in Calls, (\E r : Quietly(c, r)) /\ isSyncing' \in BOOLEAN,
         \/ UNCHANGED <<isConnected, accessToken>>
         \/ isConnected' = TRUE /\ accessToken' = TRUE
         \/ isConnected' = FALSE /\ UNCHANGED accessToken,
         folderId' \in Folders \cup {None}, ~raced' => ~raced, raced' \in BOOLEAN,
         UNCHANGED <<folders, restores, backups, didAttemptAutoRestore>>
  PROVE  DriveSide(c)
<1>1. isConnected' \in BOOLEAN /\ accessToken' \in BOOLEAN /\ didAttemptAutoRestore' \in BOOLEAN
  BY FlagsTyped, Zenon DEF Flags
<1>2. Flags'
  BY <1>1 DEF Flags
<1> QED BY <1>2, QuietDrive

LEMMA SignInFailsSide == ASSUME IInv, NEW c \in Calls, Drive!SignInFails(c) PROVE DriveSide(c)
<1> USE DEF Drive!SignInFails, Drive!remote, Drive!past
<1>1. Quietly(c, Drive!NoCall) /\ isSyncing' \in BOOLEAN
  BY EndMoves
<1>2. folderId' \in Folders \cup {None} /\ raced' \in BOOLEAN
  BY FlagsTyped DEF IInv, DriveTypes, Flags
<1> QED BY <1>1, <1>2, MovedSide

LEMMA RefreshedSide == ASSUME IInv, NEW c \in Calls, Drive!Refreshed(c) PROVE DriveSide(c)
<1> USE DEF Drive!Refreshed, Drive!remote
<1> DEFINE race == call'[c].at = "find" /\ \E o \in Calls \ {c} : Drive!Looking(o)
<1>1. raced' = (raced \/ race)
  OBVIOUS
<1>2. raced' \in BOOLEAN /\ (~raced' => ~raced) /\ (race => raced')
  <2> HIDE DEF race
  <2> QED BY <1>1, FlagsTyped DEF Flags
<1>3. (\E r : Quietly(c, r)) /\ isSyncing' \in BOOLEAN
  <2>1. CASE Drive!End(c)
    BY <2>1, EndMoves
  <2>2. CASE call[c].op = "fetch" /\ Drive!GoTo(c, "download", None, Drive!NoBackup)
    BY <2>2, GoesOn
  <2>3. CASE folderId # None /\ Drive!UseFolder(c, folderId)
    <3>1. folderId \in Folders
      BY <2>3 DEF IInv, DriveTypes
    <3> QED BY <2>3, <3>1, UseFolderMoves
  <2>4. CASE Drive!GoTo(c, "find", None, Drive!NoBackup)
    <3> DEFINE r == Drive!Call(call[c].op, "find", None, Drive!NoBackup)
    <3>1. /\ Moves(c, r) /\ isSyncing' \in BOOLEAN /\ r.at = "find"
          /\ Restoring(r) => call[c].op = "connect"
      BY <2>4, GoToMoves
    <3> HIDE DEF r
    <3>2. call'[c] = r
      BY <3>1, QuietCalls
    <3>3. raced' \/ \A o \in Calls \ {c} : ~Searching(call[o])
      BY <1>2, <3>1, <3>2 DEF Searching, Drive!Looking
    <3>4. Quietly(c, r)
      BY <3>1, <3>3 DEF Quietly, Restoring
    <3> QED BY <3>1, <3>4
  <2> QED BY <2>1, <2>2, <2>3, <2>4
<1>4. folderId' \in Folders \cup {None}
  BY DEF IInv, DriveTypes
<1> QED BY <1>2, <1>3, <1>4, MovedSide DEF Drive!auth

LEMMA FolderFoundSide == ASSUME IInv, NEW c \in Calls, Drive!FolderFound(c) PROVE DriveSide(c)
<1> USE DEF Drive!FolderFound, Drive!remote, Drive!past, Drive!auth
<1>0. raced' \in BOOLEAN
  BY FlagsTyped DEF Flags
<1>1. CASE folders = {} /\ Drive!GoTo(c, "create", None, Drive!NoBackup) /\ UNCHANGED folderId
  <2> DEFINE r == Drive!Call(call[c].op, "create", None, Drive!NoBackup)
  <2>1. /\ Moves(c, r) /\ isSyncing' \in BOOLEAN /\ r.at = "create"
        /\ Restoring(r) => call[c].op = "connect"
    BY <1>1, GoToMoves
  <2> HIDE DEF r
  <2>2. Quietly(c, r)
    BY <1>1, <2>1 DEF Quietly, Restoring, Searching
  <2>3. folderId' \in Folders \cup {None}
    BY <1>1 DEF IInv, DriveTypes
  <2> QED BY <1>0, <2>1, <2>2, <2>3, MovedSide
<1>2. ASSUME NEW f \in folders, folderId' = f, Drive!UseFolder(c, f) PROVE DriveSide(c)
  <2>1. f \in Folders
    BY DEF IInv, DriveTypes
  <2>2. (\E r : Quietly(c, r)) /\ isSyncing' \in BOOLEAN
    BY <1>2, <2>1, UseFolderMoves
  <2> QED BY <1>0, <1>2, <2>1, <2>2, MovedSide
<1> QED BY <1>1, <1>2

LEMMA FolderCreatedSide == ASSUME IInv, NEW c \in Calls, Drive!FolderCreated(c) PROVE DriveSide(c)
<1> USE DEF Drive!FolderCreated, Drive!past, Drive!auth
<1>1. PICK f \in Folders \ folders :
        /\ folders' = folders \cup {f}
        /\ \/ folderId' = f /\ Drive!UseFolder(c, f)
           \/ Drive!End(c) /\ UNCHANGED folderId
  BY DEF Folders, Drive!Folders
<1>2. PICK r : Quietly(c, r) /\ ~Searching(r)
  BY <1>1, UseFolderMoves, EndMoves
<1>3. isSyncing' \in BOOLEAN
  BY <1>1, UseFolderMoves, EndMoves
<1>4. Moves(c, r) /\ (Restoring(r) => Restoring(call[c]))
  BY <1>2 DEF Quietly
<1>5. RestoreInv'
  BY <1>4, QuietRestores
<1>6. FolderInv'
  <2> SUFFICES ASSUME ~raced' PROVE FolderInv'
    BY DEF FolderInv
  <2>1. /\ \A d, o \in Calls : Searching(call[d]) /\ Searching(call[o]) => d = o
        /\ call[c].at = "create" => folders = {}
    BY DEF IInv, FolderInv
  <2>2. folders' = {f}
    BY <1>1, <2>1
  <2>3. Cardinality(folders') = 1
    BY <2>2, FS_Singleton
  <2>4. call'[c] = r /\ \A o \in Calls : o # c => call'[o] = call[o]
    BY <1>4, QuietCalls
  <2>5. \A o \in Calls : ~Searching(call'[o])
    BY <1>2, <2>1, <2>4 DEF Searching
  <2>6. \A o \in Calls : call'[o].at # "create"
    BY <2>5 DEF Searching
  <2> QED BY <2>3, <2>5, <2>6 DEF FolderInv
<1>7. call' \in [Calls -> CallRecords] /\ \A o \in Calls : Legal(call'[o])
  BY <1>4, QuietCalls
<1>8. folderId' \in Folders \cup {None} /\ folders' \in SUBSET Folders
  BY <1>1 DEF IInv, DriveTypes
<1>9. Flags'
  BY <1>3, FlagsTyped DEF Flags
<1>10. DriveTypes'
  BY <1>7, <1>8, <1>9 DEF IInv, DriveTypes, Flags
<1> QED BY <1>4, <1>5, <1>6, <1>10 DEF DriveSide

\* Steps that end a call, or go on with it, and change nothing else.
LEMMA OnlyCallSide ==
  ASSUME IInv, NEW c \in Calls, (\E r : Quietly(c, r)) /\ isSyncing' \in BOOLEAN,
         UNCHANGED <<isConnected, accessToken, folderId, didAttemptAutoRestore, folders, backups,
                     restores, raced>>
  PROVE  DriveSide(c)
<1>1. folderId' \in Folders \cup {None} /\ raced' \in BOOLEAN
  BY FlagsTyped DEF IInv, DriveTypes, Flags
<1> QED BY <1>1, MovedSide

LEMMA ListedSide == ASSUME IInv, NEW c \in Calls, Drive!Listed(c) PROVE DriveSide(c)
<1> USE DEF Drive!Listed, Drive!remote, Drive!past, Drive!auth, Drive!prefs
<1>1. (\E r : Quietly(c, r)) /\ isSyncing' \in BOOLEAN
  <2>1. CASE Drive!End(c)
    BY <2>1, EndMoves
  <2>2. ASSUME NEW i \in DOMAIN backups,
               Drive!GoTo(c, "download", call[c].folder, backups[i])
        PROVE  (\E r : Quietly(c, r)) /\ isSyncing' \in BOOLEAN
    <3> DEFINE b == backups[i]
               f == call[c].folder
    <3>1. f \in Folders \cup {None} /\ call[c].at # "signIn"
      BY DEF IInv, DriveTypes, CallRecords
    <3>2. Given(b)
      BY DEF Given, Copies, Rng
    <3>3. b # Drive!NoBackup
      BY <3>2, GivenIsBackup
    <3>4. Drive!GoTo(c, "download", f, b)
      BY <2>2
    <3> HIDE DEF b, f
    <3> QED BY <3>1, <3>2, <3>3, <3>4, GoesOn
  <2> QED BY <2>1, <2>2
<1> QED BY <1>1, OnlyCallSide

LEMMA FetchedSide == ASSUME IInv, NEW c \in Calls, Drive!Fetched(c) PROVE DriveSide(c)
BY EndMoves, OnlyCallSide DEF Drive!Fetched, Drive!remote, Drive!past, Drive!auth, Drive!prefs

LEMMA RequestFailsSide == ASSUME IInv, NEW c \in Calls, Drive!RequestFails(c) PROVE DriveSide(c)
BY EndMoves, OnlyCallSide DEF Drive!RequestFails, Drive!remote, Drive!past, Drive!auth, Drive!prefs

LEMMA UploadedSide == ASSUME IInv, NEW c \in Calls, Drive!Uploaded(c) PROVE DriveSide(c)
<1> USE DEF Drive!Uploaded, Drive!past, Drive!auth, Drive!prefs
<1> DEFINE b == call[c].backup
<1>1. b # Drive!NoBackup
  BY DEF IInv, DriveTypes, Legal
<1>2. b \in Backups /\ backups \in Seq(Backups) /\ backups' = Append(backups, b)
      /\ Len(backups) < MaxBackups
  BY <1>1, OwnCopy DEF IInv, DriveTypes
<1>3. Quietly(c, Drive!NoCall) /\ isSyncing' \in BOOLEAN
  BY EndMoves
<1>4. Moves(c, Drive!NoCall)
  BY <1>3 DEF Quietly
<1>5. RestoreInv'
  BY <1>3, <1>4, QuietRestores DEF Quietly
<1>6. FolderInv'
  BY <1>3, QuietFolders
<1>7. backups' \in Seq(Backups) /\ Len(backups') <= MaxBackups
  <2> HIDE DEF b
  <2>1. backups' \in Seq(Backups) /\ Len(backups') = Len(backups) + 1 /\ Len(backups) \in Nat
    BY <1>2, AppendProperties, LenProperties
  <2> QED BY <1>2, <2>1, LibraryAssumption
<1>8. call' \in [Calls -> CallRecords] /\ \A o \in Calls : Legal(call'[o])
  BY <1>4, QuietCalls
<1>9. Flags'
  BY <1>3, FlagsTyped DEF Flags
<1>10. DriveTypes'
  BY <1>7, <1>8, <1>9 DEF IInv, DriveTypes, Flags
<1> QED BY <1>1, <1>4, <1>5, <1>6, <1>10 DEF DriveSide

LEMMA QuietSteps ==
  ASSUME IInv, NEW c \in Calls, DriveSide(c),
         UNCHANGED <<files, store, imports, torn, partial, kills, installs>>
  PROVE  IInv'
<1>1. PICK r : Moves(c, r)
  BY DEF DriveSide
<1>2. ImportTypes' /\ Counters' /\ JobInv' /\ Content' /\ Owned'
  BY <1>1, QuietLibrary DEF DriveSide
<1> QED BY <1>2 DEF DriveSide, IInv

LEMMA DriveStepInv == ASSUME IInv, NEW c \in Calls, DriveStep(c) PROVE IInv'
<1>1. DriveSide(c)
  BY BeginSyncSide, SignedInSide, SignInFailsSide, RefreshedSide, FolderFoundSide, FolderCreatedSide,
     ListedSide, UploadedSide, RequestFailsSide DEF DriveStep, Drive!Answered
<1>2. UNCHANGED <<files, store, torn>>
  BY DEF DriveStep, Drive!Answered, Drive!BeginSync, Drive!SignedIn, Drive!SignInFails,
     Drive!Refreshed, Drive!FolderFound, Drive!FolderCreated, Drive!Listed, Drive!Uploaded,
     Drive!RequestFails, Drive!past
<1>3. UNCHANGED <<imports, partial, kills, installs>>
  BY DEF DriveStep, faults
<1> QED BY <1>1, <1>2, <1>3, QuietSteps

LEMMA BeginCallInv == ASSUME IInv, NEW c \in Calls, BeginCall(c) PROVE IInv'
<1>1. DriveSide(c)
  BY ConnectSide, PressSyncSide, BeginSide DEF BeginCall
<1>2. UNCHANGED <<files, store, imports, torn, partial, kills, installs>>
  BY DEF BeginCall, Drive!Connect, Drive!PressSync, Drive!Begin, Drive!past, faults
<1> QED BY <1>1, <1>2, QuietSteps

LEMMA DisconnectInv == ASSUME IInv, Disconnect PROVE IInv'
<1> USE DEF Disconnect, Drive!Disconnect, Drive!remote, Drive!past, faults, imports
<1>1. isConnected' \in BOOLEAN /\ accessToken' \in BOOLEAN
  OBVIOUS
<1>2. DriveTypes' /\ RestoreInv' /\ FolderInv'
  BY <1>1 DEF IInv, DriveTypes, RestoreInv, FolderInv
<1>3. Past' = Past /\ Importing' = Importing /\ Pending' = Pending /\ Copies' = Copies
  BY DEF Past, Importing, Pending, Copies
<1>4. ImportTypes' /\ Counters' /\ JobInv' /\ Content' /\ Owned'
  BY <1>3 DEF IInv, ImportTypes, Counters, JobInv, Content, Owned
<1> QED BY <1>2, <1>4 DEF IInv

\* The job changes while no document is under way.
LEMMA OutsideJob ==
  ASSUME IInv, NEW c \in Calls, DriveSide(c),
         job.phase \notin {"extracting", "indexing"}, job'.phase \notin {"extracting", "indexing"},
         job' \in Jobs, job'.doc = None, isImportingKnowledge' \in BOOLEAN,
         ~isImportingKnowledge' => job'.phase = "idle", job'.phase # "idle" => job'.left >= 1,
         UNCHANGED <<files, store, saved, stored, size, leaked, cut, torn, partial, kills, installs>>
  PROVE  IInv'
<1>1. Past' = Past /\ Importing' = Importing /\ Pending' = Pending
  BY DEF Past, Importing, Pending
<1>2. \A b \in Copies' : Good(b.store, Taken(b), b.importing, Past)
  BY CopiesAfter, GivenIsBackup DEF DriveSide
<1>3. Content'
  BY <1>1, <1>2 DEF IInv, Content
<1>4. JobInv'
  BY DEF JobInv
<1>5. ImportTypes' /\ Counters' /\ Owned'
  BY <1>1 DEF IInv, ImportTypes, Counters, Owned
<1> QED BY <1>3, <1>4, <1>5 DEF DriveSide, IInv

LEMMA ImportDriveFileInv == ASSUME IInv, NEW c \in Calls, ImportDriveFile(c) PROVE IInv'
<1> USE DEF ImportDriveFile, Import!ImportDriveFile, Import!history, faults
<1>0. torn' = torn
  BY DEF Drive!Begin, Drive!past
<1>1. DriveSide(c)
  BY BeginSide
<1>2. job.phase = "idle"
  BY DEF IInv, JobInv
<1>3. job' \in Jobs /\ job'.phase = "fetching" /\ job'.doc = None /\ job'.left = 1
  BY LibraryAssumption DEF Import!Job, Jobs
<1>4. isImportingKnowledge' = TRUE
  OBVIOUS
<1> QED BY <1>0, <1>1, <1>2, <1>3, <1>4, OutsideJob

LEMMA FetchStepInv == ASSUME IInv, NEW c \in Calls, FetchStep(c) PROVE IInv'
<1>1. DriveSide(c)
  BY RefreshedSide, FetchedSide, RequestFailsSide DEF FetchStep
<1>2. UNCHANGED <<files, store, torn, partial, kills, installs>>
  BY DEF FetchStep, Drive!Refreshed, Drive!Fetched, Drive!RequestFails, Drive!past, faults
<1>3. CASE UNCHANGED imports
  BY <1>1, <1>2, <1>3, QuietSteps
<1>4. CASE Import!DriveFileFails
  <2> USE <1>4 DEF Import!DriveFileFails, Import!FileDone, Import!history
  <2>1. job' = Import!Idle /\ ~isImportingKnowledge' /\ isImportingKnowledge' \in BOOLEAN
    <3>1. job' = Import!Idle /\ isImportingKnowledge' = (0 > 0)
      OBVIOUS
    <3>2. (0 > 0) = FALSE
      BY SMT
    <3> QED BY <3>1, <3>2
  <2>2. job' \in Jobs /\ job'.phase = "idle" /\ job'.doc = None
    BY <2>1, LibraryAssumption DEF Import!Idle, Jobs
  <2> QED BY <1>1, <1>2, <2>1, <2>2, OutsideJob
<1>5. CASE Import!DriveFileArrives
  <2> USE <1>5 DEF Import!DriveFileArrives, Import!history
  <2>1. job' \in Jobs /\ job'.phase = "next" /\ job'.doc = None /\ job'.left = 1
    BY LibraryAssumption DEF Import!Job, Jobs
  <2>2. isImportingKnowledge' \in BOOLEAN /\ isImportingKnowledge'
    BY DEF IInv, ImportTypes, JobInv
  <2> QED BY <1>1, <1>2, <2>1, <2>2, OutsideJob
<1> QED BY <1>3, <1>4, <1>5 DEF FetchStep

LEMMA WriteNoteInv == ASSUME IInv, WriteNote PROVE IInv'
<1> USE DEF WriteNote, imports, local, prefs, remote, past, faults
<1>1. store' \in Stores /\ store'.documents = store.documents /\ store'.chunks = store.chunks
  BY DEF IInv, ImportTypes, Stores
<1>2. DriveTypes' /\ RestoreInv' /\ FolderInv'
  BY DEF IInv, DriveTypes, RestoreInv, FolderInv
<1>3. Past' = Past /\ Importing' = Importing /\ Pending' = Pending /\ Copies' = Copies
  BY DEF Past, Importing, Pending, Copies
<1>4. Content'
  BY <1>1, <1>3 DEF IInv, Content, Good
<1> QED BY <1>1, <1>2, <1>3, <1>4 DEF IInv, ImportTypes, Counters, JobInv, Owned

-----------------------------------------------------------------------------
(***************************************************************************)
(* A restore.                                                              *)
(***************************************************************************)
LEMMA RestoreStepInv == ASSUME IInv, NEW c \in Calls, RestoreStep(c) PROVE IInv'
<1> DEFINE b == call[c].backup
<1> USE DEF Drive!auth, Drive!prefs, Drive!remote
<1>1. /\ call[c].at = "download" /\ call[c].op = "connect"
      /\ store' = [part \in DOMAIN store |-> store[part] \cup b.store[part]]
      /\ restores' = restores + 1
      /\ Drive!End(c)
      /\ UNCHANGED <<isConnected, accessToken, folderId, didAttemptAutoRestore, folders, backups, raced>>
  BY DEF RestoreStep, Drive!Restore
<1>0. PICK there \in SUBSET b.files :
        /\ files' = (files \ b.files) \cup there
        /\ torn' = torn \cup b.missed \cup (b.files \ there)
  BY DEF RestoreStep, Drive!Restore, Drive!CopyFiles
<1>2. /\ partial' = partial \cup b.importing
      /\ leaked' = leaked \cup (b.files \ b.store.documents)
      /\ UNCHANGED <<saved, isImportingKnowledge, job, stored, size, cut, kills, installs>>
  BY DEF RestoreStep
<1>3. b # Drive!NoBackup /\ b \in Copies /\ b \in Backups
  BY <1>1, OwnCopy DEF IInv, DriveTypes, Legal
<1>4. /\ b.store \in Stores /\ b.files \in SUBSET Docs /\ b.missed \in SUBSET Docs
      /\ b.importing \in SUBSET Docs
  BY <1>3 DEF Backups
<1>5. Good(b.store, Taken(b), b.importing, Past)
  BY <1>3 DEF IInv, Content
<1>kept. files \cup Taken(b) \subseteq files' \cup torn'
  BY <1>0 DEF Taken
<1>6. Quietly(c, Drive!NoCall) /\ isSyncing' \in BOOLEAN
  BY <1>1, EndMoves
<1>7. Moves(c, Drive!NoCall)
  BY <1>6 DEF Quietly
<1>8. \A k \in Copies' : Given(k)
  BY <1>1, <1>7, CopiesAfter
<1> HIDE DEF b
<1>9. /\ store' \in Stores
      /\ store'.documents = store.documents \cup b.store.documents
      /\ store'.chunks = store.chunks \cup b.store.chunks
  <2>1. store \in Stores /\ DOMAIN store = {"notes", "documents", "chunks"}
    BY DEF IInv, ImportTypes, Stores
  <2>2. store' = [notes |-> store.notes \cup b.store.notes,
                  documents |-> store.documents \cup b.store.documents,
                  chunks |-> store.chunks \cup b.store.chunks]
    BY <1>1, <2>1
  <2> QED BY <1>4, <2>1, <2>2 DEF Stores
<1>10. /\ Past.torn \subseteq Past'.torn /\ Past'.torn = torn' /\ Past'.cut = Past.cut /\ Past'.size = Past.size
       /\ Past'.known = Past.known /\ Past'.partial = Past.partial \cup b.importing
       /\ Importing' = Importing /\ Pending' = Pending
  BY <1>0, <1>2 DEF Past, Importing, Pending
<1>11. Good(store', files', Importing', Past')
  <2> DEFINE st == store
             h  == Past
             h2 == Past'
             both == store'
             fs2  == files'
  <2>1. Good(st, files, Importing, h)
    BY DEF IInv, Content
  <2>2. /\ h.torn \subseteq h2.torn /\ files \cup Taken(b) \subseteq fs2 \cup h2.torn
        /\ h2.cut = h.cut /\ h2.size = h.size /\ h2.known = h.known
        /\ h2.partial = h.partial \cup b.importing
        /\ both.documents = st.documents \cup b.store.documents
        /\ both.chunks = st.chunks \cup b.store.chunks
    BY <1>9, <1>10, <1>kept
  <2> HIDE DEF st, h, h2, both, fs2
  <2>3. Good(both, fs2, Importing, h2)
    BY <1>5, <2>1, <2>2, GoodAdds DEF h
  <2> QED BY <1>10, <2>3 DEF both, h2, fs2
<1>12. \A st, fs, imp : Good(st, fs, imp, Past) => Good(st, fs, imp, Past')
  BY <1>10 DEF Good
<1>13. Good(saved', files', Importing', Past')
  <2>1. Good(saved, files, Importing, Past')
    BY <1>12 DEF IInv, Content
  <2>2. Good(saved, files', Importing, Past')
    BY <1>10, <1>kept, <2>1 DEF Good
  <2> QED BY <1>2, <1>10, <2>2
<1>14. \A k \in Copies' : Good(k.store, Taken(k), k.importing, Past')
  BY <1>8, <1>12, GivenIsBackup
<1>15. Content'
  BY <1>11, <1>13, <1>14 DEF Content
<1>16. JobInv'
  <2>1. ASSUME job.phase = "indexing", job.doc \in store'.documents \ partial'
        PROVE  Import!ChunksOf(job.doc, 1, job.chunk) \subseteq store'.chunks
    <3>1. CASE job.doc \in store.documents
      BY <1>2, <1>9, <2>1, <3>1 DEF IInv, JobInv
    <3>2. CASE job.doc \notin store.documents
      <4>1. job.doc \in b.store.documents \ (partial \cup b.importing)
        BY <1>2, <1>9, <2>1, <3>2
      <4>2. Import!ChunksOf(job.doc, 1, size[job.doc]) \subseteq b.store.chunks
        BY <1>5, <4>1 DEF Good, Past
      <4>3. job.chunk <= size[job.doc] /\ job.chunk \in Nat /\ size[job.doc] \in Nat
        BY <2>1, LibraryAssumption DEF IInv, JobInv, ImportTypes, Jobs
      <4>4. Import!ChunksOf(job.doc, 1, job.chunk) \subseteq Import!ChunksOf(job.doc, 1, size[job.doc])
        BY <4>3 DEF Import!ChunksOf
      <4> QED BY <1>9, <4>2, <4>4
    <3> QED BY <3>1, <3>2
  <2> QED BY <1>0, <1>1, <1>2, <1>9, <2>1 DEF IInv, JobInv
<1>17. ImportTypes' /\ Counters' /\ Owned'
  BY <1>0, <1>1, <1>2, <1>4, <1>9, <1>10 DEF IInv, ImportTypes, Counters, Owned
<1>18. RestoreInv'
  <2>1. restores = 0 /\ didAttemptAutoRestore /\ \A o \in Calls : Restoring(call[o]) => o = c
    BY <1>1 DEF IInv, RestoreInv, Restoring
  <2>2. call'[c] = Drive!NoCall /\ \A o \in Calls : o # c => call'[o] = call[o]
    BY <1>7, QuietCalls
  <2>3. \A o \in Calls : ~Restoring(call'[o])
    BY <2>1, <2>2 DEF Restoring, Drive!NoCall
  <2> QED BY <1>1, <2>1, <2>3 DEF RestoreInv
<1>19. FolderInv'
  BY <1>1, <1>6, QuietFolders
<1>20. call' \in [Calls -> CallRecords] /\ \A o \in Calls : Legal(call'[o])
  BY <1>7, QuietCalls
<1>21. DriveTypes'
  <2>1. restores' \in Nat
    BY <1>1 DEF IInv, DriveTypes
  <2> QED BY <1>1, <1>6, <1>20, <2>1 DEF IInv, DriveTypes
<1> QED BY <1>15, <1>16, <1>17, <1>18, <1>19, <1>21 DEF IInv

-----------------------------------------------------------------------------
(***************************************************************************)
(* The turns of an import.                                                 *)
(***************************************************************************)
Apart == UNCHANGED <<local, remote, past, faults>>

LEMMA ImportFrame ==
  ASSUME IInv, Apart
  PROVE  /\ DriveTypes' /\ RestoreInv' /\ FolderInv' /\ Counters' /\ Copies' = Copies
         /\ UNCHANGED <<torn, partial>>
<1> USE DEF Apart, local, prefs, remote, past, faults
<1>1. DriveTypes' /\ RestoreInv' /\ FolderInv' /\ Counters'
  BY DEF IInv, DriveTypes, RestoreInv, FolderInv, Counters
<1>2. Copies' = Copies /\ UNCHANGED <<torn, partial>>
  BY DEF Copies
<1> QED BY <1>1, <1>2

LEMMA CopiesKeep ==
  ASSUME IInv, Apart, cut \subseteq cut', stored \ Pending \subseteq stored' \ Pending',
         \A d \in stored \ Pending : size'[d] = size[d]
  PROVE  \A b \in Copies' : Good(b.store, Taken(b), b.importing, Past')
<1> SUFFICES ASSUME NEW b \in Copies PROVE Good(b.store, Taken(b), b.importing, Past')
  BY ImportFrame
<1> DEFINE st == b.store
           fs == Taken(b)
           imp == b.importing
           h == Past
           h2 == Past'
<1>1. Good(st, fs, imp, h)
  BY DEF IInv, Content
<1>2. /\ h.torn = h2.torn /\ h.partial = h2.partial /\ h.cut \subseteq h2.cut
      /\ h.known \subseteq h2.known /\ \A d \in h.known : h2.size[d] = h.size[d]
  BY ImportFrame DEF Past
<1> HIDE DEF st, fs, imp, h, h2
<1>3. st.documents \subseteq h.known
  BY <1>1 DEF Good
<1>4. Good(st, fs, imp, h2)
  BY <1>1, <1>2, <1>3, GoodKeeps
<1> QED BY <1>4 DEF st, fs, imp, h2

LEMMA FileDoneTyped ==
  ASSUME IInv, job.phase # "idle", Import!FileDone(job.left - 1)
  PROVE  /\ job' \in Jobs /\ job'.phase \in {"idle", "next"} /\ job'.doc = None
         /\ job'.phase # "idle" => job'.left >= 1
         /\ isImportingKnowledge' \in BOOLEAN /\ (~isImportingKnowledge' => job'.phase = "idle")
<1>1. job.left \in 1..MaxFiles
  BY LibraryAssumption DEF IInv, ImportTypes, JobInv, Jobs
<1>2. job.left - 1 \in 0..MaxFiles /\ job.left \in Int
  BY <1>1, LibraryAssumption
<1>3. isImportingKnowledge' = (job.left - 1 > 0)
  BY DEF Import!FileDone
<1>4. CASE job.left - 1 = 0
  <2>1. job' = Import!Idle
    BY <1>4 DEF Import!FileDone
  <2>2. (job.left - 1 > 0) = FALSE
    BY <1>2, <1>4
  <2>3. isImportingKnowledge' = FALSE
    BY <1>3, <2>2, Zenon
  <2>4. job' \in Jobs /\ job'.phase = "idle" /\ job'.doc = None
    BY <2>1, LibraryAssumption DEF Import!Idle, Jobs
  <2> QED BY <2>3, <2>4
<1>5. CASE job.left - 1 # 0
  <2>1. job' = Import!Job("next", None, 0, job.left - 1)
    BY <1>5 DEF Import!FileDone
  <2>2. (job.left - 1 > 0) = TRUE
    BY <1>2, <1>5
  <2>3. isImportingKnowledge' = TRUE
    BY <1>3, <2>2, Zenon
  <2>4. job' \in Jobs /\ job'.phase = "next" /\ job'.doc = None /\ job'.left >= 1
    BY <1>2, <1>5, <2>1, LibraryAssumption DEF Import!Job, Jobs
  <2> QED BY <2>3, <2>4
<1> QED BY <1>4, <1>5

\* Between files nothing of the store changes.
LEMMA ImportFilesInv == ASSUME IInv, Apart, Import!ImportFiles PROVE IInv'
<1> USE DEF Import!ImportFiles, Import!history
<1>1. job.phase = "idle"
  BY DEF IInv, JobInv
<1>2. PICK n \in 1..MaxFiles : job' = Import!Job("next", None, 0, n)
  OBVIOUS
<1>3. job' \in Jobs /\ job'.phase = "next" /\ job'.doc = None /\ job'.left >= 1
  BY <1>2, LibraryAssumption DEF Import!Job, Jobs
<1>4. Past' = Past /\ Importing' = Importing /\ Pending' = Pending
  BY <1>1, <1>3, ImportFrame DEF Past, Importing, Pending
<1>5. Content'
  BY <1>4, ImportFrame DEF IInv, Content
<1>6. isImportingKnowledge' = TRUE
  OBVIOUS
<1>7. ImportTypes' /\ JobInv' /\ Owned'
  BY <1>3, <1>4, <1>6, ImportFrame DEF IInv, ImportTypes, JobInv, Owned
<1> QED BY <1>5, <1>7, ImportFrame DEF IInv

LEMMA StoreFileInv == ASSUME IInv, Apart, Import!StoreFile PROVE IInv'
<1> USE DEF Import!StoreFile
<1>1. job.phase = "next" /\ Importing = {} /\ Pending = {}
  BY DEF Importing, Pending
<1>2. CASE Import!FileDone(job.left - 1) /\ UNCHANGED <<files, stored>>
  <2>1. /\ job' \in Jobs /\ job'.phase \in {"idle", "next"} /\ job'.doc = None
        /\ job'.phase # "idle" => job'.left >= 1
        /\ isImportingKnowledge' \in BOOLEAN /\ (~isImportingKnowledge' => job'.phase = "idle")
    BY <1>1, <1>2, FileDoneTyped
  <2>2. Past' = Past /\ Importing' = Importing /\ Pending' = Pending
    BY <1>1, <1>2, <2>1, ImportFrame DEF Past, Importing, Pending
  <2>3. Content'
    BY <1>2, <2>2, ImportFrame DEF IInv, Content
  <2>4. ImportTypes' /\ JobInv' /\ Owned'
    BY <1>2, <2>1, <2>2, ImportFrame DEF IInv, ImportTypes, JobInv, Owned
  <2> QED BY <2>3, <2>4, ImportFrame DEF IInv
<1>3. ASSUME NEW d \in Docs \ stored, files' = files \cup {d}, stored' = stored \cup {d},
             job' = Import!Job("extracting", d, 0, job.left), UNCHANGED isImportingKnowledge
      PROVE  IInv'
  <2>1. /\ job' \in Jobs /\ job'.phase = "extracting" /\ job'.doc = d /\ job'.left >= 1
    BY <1>1, <1>3, LibraryAssumption DEF IInv, ImportTypes, JobInv, Jobs, Import!Job
  <2>2. Importing' = {} /\ Pending' = {d}
    BY <2>1 DEF Importing, Pending
  <2>3. /\ Past'.known = Past.known /\ Past'.torn = Past.torn /\ Past'.partial = Past.partial
        /\ Past'.cut = Past.cut /\ Past'.size = Past.size
    BY <1>1, <1>3, <2>2, ImportFrame DEF Past
  <2>4. \A st, imp : Good(st, files, imp, Past) => Good(st, files', imp, Past')
    BY <1>3, <2>3 DEF Good
  <2>5. Good(store', files', Importing', Past') /\ Good(saved', files', Importing', Past')
    BY <1>1, <2>2, <2>4 DEF IInv, Content
  <2>6. \A b \in Copies' : Good(b.store, Taken(b), b.importing, Past')
    <3>1. \A b \in Copies : Good(b.store, Taken(b), b.importing, Past)
      BY DEF IInv, Content
    <3>2. \A st, fs, imp : Good(st, fs, imp, Past) => Good(st, fs, imp, Past')
      BY <2>3 DEF Good
    <3> QED BY <3>1, <3>2, ImportFrame
  <2>7. isImportingKnowledge
    BY <1>1 DEF IInv, JobInv
  <2>8. ImportTypes'
    BY <1>3, <2>1, ImportFrame DEF IInv, ImportTypes
  <2>9. JobInv'
    BY <1>3, <2>1, <2>7 DEF JobInv
  <2>10. Owned'
    BY <1>1, <1>3, <2>2 DEF IInv, Owned
  <2> QED BY <2>5, <2>6, <2>8, <2>9, <2>10, ImportFrame DEF IInv, Content
<1> QED BY <1>2, <1>3

LEMMA ExtractionFailsInv == ASSUME IInv, Apart, Import!ExtractionFails PROVE IInv'
<1> USE DEF Import!ExtractionFails
<1>1. /\ job' \in Jobs /\ job'.phase \in {"idle", "next"} /\ job'.doc = None
      /\ job'.phase # "idle" => job'.left >= 1
      /\ isImportingKnowledge' \in BOOLEAN /\ (~isImportingKnowledge' => job'.phase = "idle")
  BY FileDoneTyped
<1>2. /\ Importing = {} /\ Pending = {job.doc}
      /\ Importing' = {} /\ Pending' = {}
  BY <1>1 DEF Importing, Pending, IInv, JobInv
<1>3. /\ Past.known \subseteq Past'.known /\ Past'.torn = Past.torn /\ Past'.partial = Past.partial
      /\ Past'.cut = Past.cut /\ Past'.size = Past.size
  BY <1>2, ImportFrame DEF Past
<1>4. \A st, fs, imp : Good(st, fs, imp, Past) => Good(st, fs, imp, Past')
  BY <1>3 DEF Good
<1>5. Content'
  BY <1>2, <1>4, ImportFrame DEF IInv, Content
<1>6. ImportTypes' /\ JobInv' /\ Owned'
  BY <1>1, <1>2, ImportFrame DEF IInv, ImportTypes, JobInv, Owned
<1> QED BY <1>5, <1>6, ImportFrame DEF IInv

\* A turn that inserts chunks from ... to of the n of the document.
Inserts(n, from, to) ==
  /\ \E onDisk \in {saved, store} : Import!Persist(job.doc, n, from, to, onDisk)
  /\ size' = [size EXCEPT ![job.doc] = n]
  /\ UNCHANGED <<files, stored, leaked, cut>>
  /\ \/ job.phase = "extracting" /\ from = 1
     \/ job.phase = "indexing" /\ from = job.chunk + 1 /\ n = size[job.doc] /\ job.chunk <= to

LEMMA InsertsStore ==
  ASSUME IInv, Apart, NEW n \in 0..MaxChunks, NEW from, NEW to \in 0..n, Inserts(n, from, to)
  PROVE  /\ job.doc \in Docs \cap stored /\ from \in Nat \ {0}
         /\ store' \in Stores /\ store.documents \subseteq store'.documents
         /\ store'.documents \subseteq store.documents \cup {job.doc}
         /\ job.phase = "indexing" => store'.documents = store.documents
         /\ store'.chunks = store.chunks \cup Import!ChunksOf(job.doc, from, to)
         /\ job.doc \in store'.documents \cup cut
         /\ job.doc \in store'.documents \ partial =>
              Import!ChunksOf(job.doc, 1, to) \subseteq store'.chunks
<1> USE DEF Inserts
<1>1. job.doc \in Docs \cap stored
  BY LibraryAssumption DEF IInv, ImportTypes, JobInv, Jobs
<1>2. from \in Nat \ {0} /\ to \in 0..MaxChunks /\ to \in Nat
  <2>1. job.chunk \in Nat
    BY LibraryAssumption DEF IInv, ImportTypes, Jobs
  <2> QED BY <2>1, LibraryAssumption
<1>3. store' = [store EXCEPT !.documents = IF from = 1 THEN @ \cup {job.doc} ELSE @,
                             !.chunks = @ \cup Import!ChunksOf(job.doc, from, to)]
  BY DEF Import!Persist
<1>4. Import!ChunksOf(job.doc, from, to) \subseteq Import!Chunks
  BY <1>1, <1>2, LibraryAssumption DEF Import!ChunksOf, Import!Chunks
<1>5. /\ store'.notes = store.notes
      /\ store'.documents = IF from = 1 THEN store.documents \cup {job.doc} ELSE store.documents
      /\ store'.chunks = store.chunks \cup Import!ChunksOf(job.doc, from, to)
      /\ store' \in Stores
  BY <1>1, <1>3, <1>4 DEF IInv, ImportTypes, Stores
<1>6. CASE job.phase = "extracting" /\ from = 1
  BY <1>1, <1>2, <1>5, <1>6
<1>7. CASE job.phase = "indexing" /\ from = job.chunk + 1 /\ job.chunk <= to
  <2>1. job.chunk \in Nat /\ job.chunk >= 1 /\ from # 1
    BY <1>7, LibraryAssumption DEF IInv, ImportTypes, Jobs, JobInv
  <2>2. store'.documents = store.documents /\ job.doc \in store'.documents \cup cut
    BY <1>5, <1>7, <2>1 DEF IInv, JobInv
  <2>3. Import!ChunksOf(job.doc, 1, to)
          \subseteq Import!ChunksOf(job.doc, 1, job.chunk) \cup Import!ChunksOf(job.doc, from, to)
    BY <1>2, <1>7, <2>1 DEF Import!ChunksOf
  <2>4. job.doc \in store'.documents \ partial =>
          Import!ChunksOf(job.doc, 1, to) \subseteq store'.chunks
    BY <1>5, <1>7, <2>2, <2>3 DEF IInv, JobInv
  <2> QED BY <1>1, <1>2, <1>5, <2>2, <2>4
<1> QED BY <1>6, <1>7

\* What the turn leaves is good, the document itself apart unless it is all there.
LEMMA InsertsGood ==
  ASSUME IInv, Apart, NEW n \in 0..MaxChunks, NEW from, NEW to \in 0..n, Inserts(n, from, to),
         Pending' = {}
  PROVE  /\ Good(store', files', {job.doc}, Past')
         /\ Good(saved, files', {job.doc}, Past') /\ Good(store, files', {job.doc}, Past')
         /\ to = n => Good(store', files', {}, Past')
         /\ \A b \in Copies' : Good(b.store, Taken(b), b.importing, Past')
<1>0. /\ store.documents \subseteq store'.documents
      /\ store'.documents \subseteq store.documents \cup {job.doc}
      /\ store'.chunks = store.chunks \cup Import!ChunksOf(job.doc, from, to)
      /\ job.doc \in stored /\ job.doc \in store'.documents \cup cut
      /\ job.doc \in store'.documents \ partial =>
           Import!ChunksOf(job.doc, 1, to) \subseteq store'.chunks
  BY InsertsStore
<1> USE DEF Inserts
<1>1. /\ Past'.torn = torn /\ Past'.partial = partial /\ Past'.cut = cut /\ Past'.known = stored
      /\ Past'.size = size' /\ size'[job.doc] = n /\ \A e \in Docs \ {job.doc} : size'[e] = size[e]
  <2>1. size \in [Docs -> 0..MaxChunks] /\ job.doc \in Docs
    BY InsertsStore DEF IInv, ImportTypes
  <2>2. size'[job.doc] = n /\ \A e \in Docs \ {job.doc} : size'[e] = size[e]
    BY <2>1
  <2> QED BY <2>2, ImportFrame DEF Past
<1>2. /\ store.documents \ torn \subseteq files /\ store.documents \subseteq stored
      /\ \A e \in store.documents \ (partial \cup Importing) :
           Import!ChunksOf(e, 1, size[e]) \subseteq store.chunks
      /\ \A k \in store.chunks : k[1] \in store.documents \cup cut
      /\ store.documents \subseteq Docs
  BY DEF IInv, ImportTypes, Stores, Content, Good, Past
<1>3. /\ Importing \subseteq {job.doc}
      /\ store.documents \subseteq store'.documents
      /\ store'.documents \subseteq store.documents \cup {job.doc}
      /\ store'.chunks = store.chunks \cup Import!ChunksOf(job.doc, from, to)
      /\ job.doc \in stored /\ job.doc \in store'.documents \cup cut
      /\ job.doc \in store'.documents \ partial =>
           Import!ChunksOf(job.doc, 1, to) \subseteq store'.chunks
  BY <1>0 DEF Importing
<1>4. \A d \in stored \ Pending : size'[d] = size[d]
  <2>1. CASE job.phase = "extracting"
    BY <1>1, <2>1 DEF Pending, IInv, ImportTypes
  <2>2. CASE job.phase = "indexing" /\ n = size[job.doc]
    BY <1>1, <2>2 DEF IInv, ImportTypes
  <2> QED BY <2>1, <2>2
<1>5. /\ store'.documents \ torn \subseteq files /\ store'.documents \subseteq stored
      /\ \A k \in store'.chunks : k[1] \in store'.documents \cup cut
  <2>1. job.doc \in store'.documents => job.doc \in store.documents \cup files \cup torn
    BY InsertsStore DEF IInv, JobInv
  <2>2. \A k \in Import!ChunksOf(job.doc, from, to) : k[1] = job.doc
    BY DEF Import!ChunksOf
  <2>3. store'.documents \ torn \subseteq files
    BY <1>2, <1>3, <2>1
  <2>4. \A k \in store'.chunks : k[1] \in store'.documents \cup cut
    BY <1>2, <1>3, <2>2
  <2> QED BY <1>2, <1>3, <2>3, <2>4
<1>6. \A e \in store'.documents \ (partial \cup {job.doc}) :
        Import!ChunksOf(e, 1, size'[e]) \subseteq store'.chunks
  <2> SUFFICES ASSUME NEW e \in store'.documents \ (partial \cup {job.doc})
               PROVE  Import!ChunksOf(e, 1, size'[e]) \subseteq store'.chunks
    OBVIOUS
  <2>1. e \in store.documents \ (partial \cup Importing) /\ e \in Docs \ {job.doc}
    BY <1>2, <1>3
  <2>2. Import!ChunksOf(e, 1, size[e]) \subseteq store.chunks /\ size'[e] = size[e]
    BY <1>1, <1>2, <2>1
  <2> QED BY <1>3, <2>2
<1>7. Good(store', files', {job.doc}, Past')
  BY <1>1, <1>5, <1>6 DEF Good
<1>8. to = n => Good(store', files', {}, Past')
  <2> SUFFICES ASSUME to = n PROVE Good(store', files', {}, Past')
    OBVIOUS
  <2>1. job.doc \in store'.documents \ partial =>
          Import!ChunksOf(job.doc, 1, size'[job.doc]) \subseteq store'.chunks
    BY <1>1, <1>3
  <2>2. \A e \in store'.documents \ partial :
          Import!ChunksOf(e, 1, size'[e]) \subseteq store'.chunks
    BY <1>6, <2>1
  <2> QED BY <1>1, <1>5, <2>2 DEF Good
<1>9. ASSUME NEW st \in {saved, store} PROVE Good(st, files', {job.doc}, Past')
  <2>1. Good(st, files, Importing, Past)
    BY DEF IInv, Content
  <2>2. st.documents \subseteq stored \ Pending
    BY <2>1 DEF Good, Past
  <2>3. \A e \in st.documents : size'[e] = size[e]
    BY <1>4, <2>2
  <2> QED BY <1>1, <1>3, <2>1, <2>2, <2>3 DEF Good, Past
<1>10. \A b \in Copies' : Good(b.store, Taken(b), b.importing, Past')
  BY <1>4, CopiesKeep
<1> QED BY <1>7, <1>8, <1>9, <1>10

LEMMA InsertsInv ==
  ASSUME IInv, Apart, NEW n \in 0..MaxChunks, NEW from, NEW to \in 0..n, Inserts(n, from, to)
  PROVE  IInv'
<1>1. /\ job.doc \in Docs \cap stored /\ from \in Nat \ {0}
      /\ store' \in Stores /\ store.documents \subseteq store'.documents
      /\ job.doc \in store'.documents \cup cut
      /\ job.doc \in store'.documents \ partial =>
           Import!ChunksOf(job.doc, 1, to) \subseteq store'.chunks
  BY InsertsStore
<1> USE DEF Inserts
<1>2. size' \in [Docs -> 0..MaxChunks] /\ size'[job.doc] = n
  BY <1>1 DEF IInv, ImportTypes
<1>3. Pending \subseteq store'.documents
  BY DEF Pending, Import!Persist, IInv, ImportTypes, Stores
<1>4. ASSUME Pending' = {} PROVE Owned'
  BY <1>1, <1>3, <1>4 DEF IInv, Owned
<1>5. CASE to = n /\ Import!FileDone(job.left - 1) /\ saved' = store'
  <2>1. /\ job' \in Jobs /\ job'.phase \in {"idle", "next"} /\ job'.doc = None
        /\ job'.phase # "idle" => job'.left >= 1
        /\ isImportingKnowledge' \in BOOLEAN /\ (~isImportingKnowledge' => job'.phase = "idle")
    BY <1>5, FileDoneTyped
  <2>2. Importing' = {} /\ Pending' = {}
    BY <2>1 DEF Importing, Pending
  <2>3. Content'
    BY <1>5, <2>2, InsertsGood DEF Content
  <2>4. ImportTypes' /\ JobInv'
    BY <1>1, <1>2, <1>5, <2>1, ImportFrame DEF IInv, ImportTypes, JobInv
  <2> QED BY <1>4, <2>2, <2>3, <2>4, ImportFrame DEF IInv
<1>6. CASE /\ to >= from
           /\ job' = Import!Job("indexing", job.doc, to, job.left)
           /\ saved' \in {saved, store}
           /\ UNCHANGED isImportingKnowledge
  <2>1. to \in 0..MaxChunks /\ 1 <= to /\ to <= n
    BY <1>1, <1>6, LibraryAssumption
  <2>2. /\ job' \in Jobs /\ job'.phase = "indexing" /\ job'.doc = job.doc /\ job'.chunk = to
        /\ job'.left = job.left /\ job.left >= 1
    BY <1>6, <2>1 DEF IInv, ImportTypes, JobInv, Jobs, Import!Job
  <2>3. Importing' = {job.doc} /\ Pending' = {}
    BY <2>2 DEF Importing, Pending
  <2>4. Content'
    BY <1>6, <2>3, InsertsGood DEF Content
  <2>5. isImportingKnowledge
    BY DEF IInv, JobInv
  <2>6. ImportTypes'
    BY <1>1, <1>2, <1>6, <2>2, ImportFrame DEF IInv, ImportTypes
  <2>7. JobInv'
    BY <1>1, <1>2, <1>6, <2>1, <2>2, <2>5, ImportFrame DEF JobInv
  <2> QED BY <1>4, <2>3, <2>4, <2>6, <2>7, ImportFrame DEF IInv
<1> QED BY <1>5, <1>6 DEF Import!Persist

LEMMA ExtractedInv == ASSUME IInv, Apart, Import!Extracted PROVE IInv'
<1>1. PICK n \in 0..MaxChunks :
        /\ size' = [size EXCEPT ![job.doc] = n]
        /\ \E to \in 0..n : Import!Persist(job.doc, n, 1, to, saved)
  BY DEF Import!Extracted
<1>2. PICK to \in 0..n : Import!Persist(job.doc, n, 1, to, saved)
  BY <1>1
<1>3. Inserts(n, 1, to)
  BY <1>1, <1>2 DEF Inserts, Import!Extracted
<1> QED BY <1>3, InsertsInv

LEMMA ChunkIndexedInv == ASSUME IInv, Apart, Import!ChunkIndexed PROVE IInv'
<1>1. PICK to \in job.chunk..size[job.doc], onDisk \in {saved, store} :
        Import!Persist(job.doc, size[job.doc], job.chunk + 1, to, onDisk)
  BY DEF Import!ChunkIndexed
<1>2. /\ job.doc \in Docs /\ job.chunk \in Nat /\ size \in [Docs -> 0..MaxChunks]
      /\ job.phase = "indexing" /\ UNCHANGED <<files, stored, size, leaked, cut>>
  BY LibraryAssumption DEF Import!ChunkIndexed, Import!history, IInv, ImportTypes, JobInv, Jobs
<1>3. size[job.doc] \in 0..MaxChunks /\ to \in 0..size[job.doc] /\ job.chunk <= to
  BY <1>1, <1>2, LibraryAssumption
<1>4. size' = [size EXCEPT ![job.doc] = size[job.doc]]
  BY <1>2
<1>5. Inserts(size[job.doc], job.chunk + 1, to)
  BY <1>1, <1>2, <1>3, <1>4 DEF Inserts
<1> QED BY <1>3, <1>5, InsertsInv

LEMMA DeleteDocumentInv ==
  ASSUME IInv, Apart, NEW d \in Docs, Import!DeleteDocument(d) PROVE IInv'
<1> USE DEF Import!DeleteDocument, Import!import
<1>1. Importing' = Importing /\ Pending' = Pending
  BY DEF Importing, Pending
<1>2. Past'.known = Past.known /\ d \in Past.known
  <2>1. Past'.known = Past.known
    BY <1>1 DEF Past
  <2> QED BY <2>1 DEF IInv, Content, Good
<1>3. d \notin Pending
  BY <1>2 DEF Past
<1>4. /\ store'.notes = store.notes /\ store'.documents = store.documents \ {d}
      /\ store'.chunks = store.chunks \ Import!ChunksOf(d, 1, MaxChunks)
      /\ store' \in Stores /\ saved' = store'
  BY DEF IInv, ImportTypes, Stores
<1>5. cut \subseteq cut' /\ cut' \subseteq cut \cup {d} /\ (job.doc = d => d \in cut')
  OBVIOUS
<1>6. \A e \in Docs \ {d}, n \in Nat :
        Import!ChunksOf(e, 1, n) \subseteq store.chunks =>
          Import!ChunksOf(e, 1, n) \subseteq store'.chunks
  BY <1>4 DEF Import!ChunksOf
<1>7. Good(store', files', Importing', Past')
  <2>1. /\ store.documents \ torn \subseteq files /\ store.documents \subseteq Past.known
        /\ \A e \in store.documents \ (partial \cup Importing) :
             Import!ChunksOf(e, 1, size[e]) \subseteq store.chunks
        /\ \A k \in store.chunks : k[1] \in store.documents \cup cut
    BY DEF IInv, Content, Good, Past
  <2>2. \A e \in store'.documents \ (partial \cup Importing) :
          Import!ChunksOf(e, 1, size[e]) \subseteq store'.chunks
    <3> SUFFICES ASSUME NEW e \in store'.documents \ (partial \cup Importing)
                 PROVE  Import!ChunksOf(e, 1, size[e]) \subseteq store'.chunks
      OBVIOUS
    <3>1. e \in Docs \ {d} /\ size[e] \in Nat
      BY <1>4, LibraryAssumption DEF IInv, ImportTypes, Stores
    <3> QED BY <1>4, <1>6, <2>1, <3>1
  <2>3. \A k \in store'.chunks : k[1] \in store'.documents \cup cut'
    <3> SUFFICES ASSUME NEW k \in store'.chunks PROVE k[1] \in store'.documents \cup cut'
      OBVIOUS
    <3>1. k \in store.chunks /\ k \in Import!Chunks
      BY <1>4 DEF IInv, ImportTypes, Stores
    <3>2. k[1] # d
      BY <1>4, <3>1 DEF Import!Chunks, Import!ChunksOf
    <3> QED BY <1>4, <1>5, <2>1, <3>1, <3>2
  <2>4. /\ Past'.torn = torn /\ Past'.partial = partial /\ Past'.cut = cut' /\ Past'.size = size
    BY ImportFrame DEF Past
  <2>5. store'.documents \ torn \subseteq files' /\ store'.documents \subseteq Past'.known
    BY <1>2, <1>4, <2>1
  <2> QED BY <1>1, <2>2, <2>3, <2>4, <2>5 DEF Good
<1>8. Content'
  <2>1. \A e \in stored \ Pending : size'[e] = size[e]
    OBVIOUS
  <2>2. stored \ Pending \subseteq stored' \ Pending'
    BY <1>1
  <2>3. \A b \in Copies' : Good(b.store, Taken(b), b.importing, Past')
    BY <1>5, <2>1, <2>2, CopiesKeep
  <2> QED BY <1>4, <1>7, <2>3 DEF Content
<1>9. ImportTypes'
  BY <1>4, <1>5, ImportFrame DEF IInv, ImportTypes
<1>10. JobInv'
  <2>1. job.phase = "extracting" => job.doc \in stored /\ job.doc \in files' \cup torn
    BY <1>3 DEF Pending, IInv, JobInv
  <2>2. job.phase = "indexing" => job.doc \in store'.documents \cup cut'
    BY <1>4, <1>5 DEF IInv, JobInv
  <2>3. ASSUME job.phase = "indexing", job.doc \in store'.documents \ partial
        PROVE  Import!ChunksOf(job.doc, 1, job.chunk) \subseteq store'.chunks
    <3>1. job.doc \in Docs \ {d} /\ job.chunk \in Nat
      BY <1>4, <2>3, LibraryAssumption DEF IInv, ImportTypes, Jobs, Stores
    <3> QED BY <1>4, <1>6, <2>3, <3>1 DEF IInv, JobInv
  <2> QED BY <2>1, <2>2, <2>3, ImportFrame DEF IInv, JobInv
<1>11. Owned'
  BY <1>1, <1>4 DEF IInv, Owned
<1> QED BY <1>8, <1>9, <1>10, <1>11, ImportFrame DEF IInv

LEMMA ImportStepInv == ASSUME IInv, ImportStep PROVE IInv'
<1>1. Apart
  BY DEF ImportStep, Apart
<1>2. \/ Import!ImportFiles \/ Import!StoreFile \/ Import!ExtractionFails \/ Import!Extracted
      \/ Import!ChunkIndexed \/ \E d \in Docs : Import!DeleteDocument(d)
  BY DEF ImportStep, Import!ImportTurn
<1> QED BY <1>1, <1>2, ImportFilesInv, StoreFileInv, ExtractionFailsInv, ExtractedInv,
           ChunkIndexedInv, DeleteDocumentInv

-----------------------------------------------------------------------------
(***************************************************************************)
(* The end of the process.                                                 *)
(***************************************************************************)
\* No call is left, so that none will restore or create a folder, and no job.
LEMMA FreshProcess ==
  ASSUME IInv, Fresh, restores' \in Nat,
         folderId' \in Folders \cup {None}, didAttemptAutoRestore' \in BOOLEAN,
         restores' <= 1, ~didAttemptAutoRestore' => restores' = 0
  PROVE  /\ DriveTypes' /\ RestoreInv' /\ FolderInv' /\ JobInv'
         /\ job' \in Jobs /\ isImportingKnowledge' \in BOOLEAN
         /\ Importing' = {} /\ Pending' = {} /\ Copies' \subseteq Copies
         /\ UNCHANGED <<stored, size, cut>>
<1> USE DEF Fresh, remote
<1>1. job' = Import!Idle /\ job' \in Jobs /\ job'.phase = "idle" /\ job'.doc = None
  BY LibraryAssumption DEF Import!Idle, Jobs
<1>2. isImportingKnowledge' = FALSE /\ isSyncing' = FALSE /\ isConnected' = FALSE
      /\ accessToken' = FALSE
  OBVIOUS
<1>3. \A c \in Calls : call'[c] = Drive!NoCall
  OBVIOUS
<1>4. Drive!NoCall \in CallRecords /\ Legal(Drive!NoCall)
  BY DEF CallRecords, Legal, Drive!NoCall, Drive!NoBackup
<1>5. call' \in [Calls -> CallRecords] /\ \A c \in Calls : Legal(call'[c])
  BY <1>3, <1>4
<1>6. DriveTypes'
  BY <1>2, <1>5 DEF IInv, DriveTypes
<1>7. \A c \in Calls : ~Restoring(call'[c]) /\ ~Searching(call'[c]) /\ call'[c].at # "create"
  BY <1>3 DEF Restoring, Searching, Drive!NoCall
<1>8. RestoreInv'
  BY <1>7 DEF RestoreInv
<1>9. FolderInv'
  BY <1>7 DEF IInv, FolderInv
<1>10. JobInv' /\ Importing' = {} /\ Pending' = {}
  BY <1>1 DEF JobInv, Importing, Pending
<1>11. Copies' \subseteq Copies
  <2>1. \A c \in Calls : call'[c].backup = Drive!NoBackup
    BY <1>3 DEF Drive!NoCall
  <2>2. \A c \in Calls : call'[c].backup \notin Backups
    BY <2>1, NoBackupIsNone
  <2> QED BY <2>2 DEF Copies
<1> QED BY <1>1, <1>2, <1>6, <1>8, <1>9, <1>10, <1>11

LEMMA RelaunchInv == ASSUME IInv, Relaunch PROVE IInv'
<1> USE DEF Relaunch, prefs
<1>1. restores' \in Nat /\ restores' <= 1 /\ (~didAttemptAutoRestore' => restores' = 0)
      /\ folderId' \in Folders \cup {None} /\ didAttemptAutoRestore' \in BOOLEAN
  BY DEF IInv, DriveTypes, RestoreInv
<1>2. /\ DriveTypes' /\ RestoreInv' /\ FolderInv' /\ JobInv'
      /\ job' \in Jobs /\ isImportingKnowledge' \in BOOLEAN
      /\ Importing' = {} /\ Pending' = {} /\ Copies' \subseteq Copies
      /\ UNCHANGED <<stored, size, cut>>
  BY <1>1, FreshProcess
<1>3. /\ store' \in {saved, store} /\ saved' = store'
      /\ files' \subseteq files /\ files \subseteq files' \cup torn'
      /\ torn \subseteq torn' /\ torn' \subseteq torn \cup store.documents
      /\ leaked' = leaked \cup (files' \ store'.documents)
  OBVIOUS
<1>4. partial' = partial \cup Importing
  BY DEF Importing
<1>5. Importing \subseteq Docs
  BY DEF Importing, IInv, ImportTypes, JobInv
<1>6. /\ Past.torn \subseteq Past'.torn /\ Past'.partial = Past.partial \cup Importing
      /\ Past'.cut = Past.cut /\ Past'.size = Past.size /\ Past.known \subseteq Past'.known
      /\ Past'.torn = torn'
  BY <1>2, <1>3, <1>4 DEF Past
<1>7. \A st, imp : Good(st, files, imp, Past) =>
                     Good(st, files', imp \ Importing, Past')
  BY <1>3, <1>6 DEF Good
<1>8. Good(store, files', {}, Past') /\ Good(saved, files', {}, Past')
  <2>1. Good(store, files', Importing \ Importing, Past')
        /\ Good(saved, files', Importing \ Importing, Past')
    BY <1>7 DEF IInv, Content
  <2>2. Importing \ Importing = {}
    OBVIOUS
  <2> QED BY <2>1, <2>2
<1>9. \A b \in Copies' : Good(b.store, Taken(b), b.importing, Past')
  <2>1. \A b \in Copies : Good(b.store, Taken(b), b.importing, Past)
    BY DEF IInv, Content
  <2>2. \A st, fs, imp : Good(st, fs, imp, Past) => Good(st, fs, imp, Past')
    BY <1>6 DEF Good
  <2> QED BY <1>2, <2>1, <2>2
<1>10. Content'
  BY <1>2, <1>3, <1>8, <1>9 DEF Content
<1>11. ImportTypes'
  BY <1>2, <1>3, <1>4, <1>5 DEF IInv, ImportTypes, Stores
<1>12. Owned' /\ Counters'
  BY <1>2, <1>3, LibraryAssumption DEF IInv, Owned, Counters
<1> QED BY <1>2, <1>10, <1>11, <1>12 DEF IInv

LEMMA ReinstallInv == ASSUME IInv, Reinstall PROVE IInv'
<1> USE DEF Reinstall
<1>1. restores' \in Nat /\ restores' <= 1 /\ (~didAttemptAutoRestore' => restores' = 0)
      /\ folderId' \in Folders \cup {None} /\ didAttemptAutoRestore' \in BOOLEAN
  <2>1. restores' \in Nat /\ restores' <= 1 /\ restores' = 0 /\ folderId' = None
    OBVIOUS
  <2>2. didAttemptAutoRestore' \in BOOLEAN
    OBVIOUS
  <2> QED BY <2>1, <2>2
<1>2. /\ DriveTypes' /\ RestoreInv' /\ FolderInv' /\ JobInv'
      /\ job' \in Jobs /\ isImportingKnowledge' \in BOOLEAN
      /\ Importing' = {} /\ Pending' = {} /\ Copies' \subseteq Copies
      /\ UNCHANGED <<stored, size, cut>>
  BY <1>1, FreshProcess
<1>3. /\ store' \in Stores /\ saved' = store' /\ files' = {}
      /\ store'.documents = {} /\ store'.chunks = {}
      /\ UNCHANGED <<torn, partial, leaked>>
  BY DEF Empty, Stores
<1>4. Good(store', files', {}, Past')
  BY <1>3 DEF Good
<1>5. \A b \in Copies' : Good(b.store, Taken(b), b.importing, Past')
  <2>1. \A b \in Copies : Good(b.store, Taken(b), b.importing, Past)
    BY DEF IInv, Content
  <2>2. /\ Past'.torn = Past.torn /\ Past'.partial = Past.partial /\ Past'.cut = Past.cut
        /\ Past'.size = Past.size /\ Past.known \subseteq Past'.known
    BY <1>2, <1>3 DEF Past
  <2>3. \A st, fs, imp : Good(st, fs, imp, Past) => Good(st, fs, imp, Past')
    BY <2>2 DEF Good
  <2> QED BY <1>2, <2>1, <2>3
<1>6. Content'
  BY <1>2, <1>3, <1>4, <1>5 DEF Content
<1>7. ImportTypes'
  BY <1>2, <1>3 DEF IInv, ImportTypes
<1>8. Owned' /\ Counters'
  BY <1>3, LibraryAssumption DEF IInv, Owned, Counters
<1> QED BY <1>2, <1>6, <1>7, <1>8 DEF IInv

-----------------------------------------------------------------------------
(***************************************************************************)
(* The theorems.                                                           *)
(***************************************************************************)
LEMMA InvStep == IInv /\ [Next]_vars => IInv'
<1> SUFFICES ASSUME IInv, [Next]_vars PROVE IInv'
  OBVIOUS
<1>1. CASE WriteNote
  BY <1>1, WriteNoteInv
<1>2. CASE ImportStep
  BY <1>2, ImportStepInv
<1>3. CASE Disconnect
  BY <1>3, DisconnectInv
<1>4. CASE Relaunch
  BY <1>4, RelaunchInv
<1>5. CASE Reinstall
  BY <1>5, ReinstallInv
<1>6. ASSUME NEW c \in Calls, ImportDriveFile(c) \/ BeginCall(c) \/ CallStep(c) PROVE IInv'
  BY <1>6, ImportDriveFileInv, BeginCallInv, DriveStepInv, RestoreStepInv, FetchStepInv
     DEF CallStep
<1>7. CASE UNCHANGED vars
  <2>1. UNCHANGED <<store, files, Past, Importing, Pending, Copies>>
    BY <1>7 DEF vars, imports, local, prefs, remote, past, faults, Past, Importing, Pending, Copies
  <2>2. ImportTypes' /\ Counters' /\ JobInv' /\ Content' /\ Owned'
    BY <1>7, <2>1 DEF vars, imports, past, faults, IInv, ImportTypes, Counters, JobInv, Content, Owned
  <2>3. DriveTypes' /\ RestoreInv' /\ FolderInv'
    BY <1>7 DEF vars, local, prefs, remote, past, IInv, DriveTypes, RestoreInv, FolderInv
  <2> QED BY <2>2, <2>3 DEF IInv
<1> QED BY <1>1, <1>2, <1>3, <1>4, <1>5, <1>6, <1>7 DEF Next

\* The inductive invariant: whatever is imported, deleted, backed up and restored in
\* whatever order, and wherever the process ends, the store, its saved state and every
\* backup are good, and the calls under way may do what they are about to.
THEOREM Invariant == Spec => []IInv
<1>1. IInv /\ [Next]_vars => IInv'
  BY InvStep
<1> QED BY <1>1, InvInit, PTL DEF Spec

\* A document has its stored file and a stored file its document, through imports that
\* fail, deletions, restores and the end of the process (LibraryInv).
THEOREM AlwaysLibraryInv == Spec => []LibraryInv
<1>1. IInv => LibraryInv
  <2> SUFFICES ASSUME IInv PROVE LibraryInv
    OBVIOUS
  <2>1. DocumentsHaveFiles
    BY DEF IInv, Content, Good, Past, DocumentsHaveFiles
  <2>2. FilesAreOwned
    BY DEF IInv, Owned, Pending, FilesAreOwned
  <2> QED BY <2>1, <2>2, TypesEnough DEF LibraryInv
<1> QED BY <1>1, Invariant, PTL

\* The chunks that retrieval reads are those of the documents, all of them and no
\* others, but for what an interruption left (ChunksMatchDocuments).
THEOREM AlwaysChunksMatchDocuments == Spec => []ChunksMatchDocuments
<1>1. IInv => ChunksMatchDocuments
  <2> SUFFICES ASSUME IInv PROVE ChunksMatchDocuments
    OBVIOUS
  <2>1. Good(store, files, Importing, Past)
    BY DEF IInv, Content
  <2>2. \A d \in store.documents \ partial :
          job.doc = d \/ Import!ChunksOf(d, 1, size[d]) \subseteq store.chunks
    <3> SUFFICES ASSUME NEW d \in store.documents \ partial, job.doc # d
                 PROVE  Import!ChunksOf(d, 1, size[d]) \subseteq store.chunks
      OBVIOUS
    <3>1. d \notin Importing
      BY DEF Importing
    <3> QED BY <2>1, <3>1 DEF Good, Past
  <2>3. NoStrayChunks
    BY <2>1 DEF Good, Past, NoStrayChunks
  <2> QED BY <2>2, <2>3 DEF ChunksMatchDocuments, DocumentsAreComplete
<1> QED BY <1>1, Invariant, PTL

\* An installation restores at most one backup, however often it is relaunched, and
\* however many sign-ins are open at once (RestoredOnce).
THEOREM AlwaysRestoredOnce == Spec => []RestoredOnce
<1>1. IInv => RestoredOnce
  BY DEF IInv, RestoreInv, RestoredOnce
<1> QED BY <1>1, Invariant, PTL

\* The Drive gets a second folder of the app only when two calls have looked for the
\* first at once (OneFolder).
THEOREM AlwaysOneFolder == Spec => []OneFolder
<1>1. IInv => OneFolder
  BY DEF IInv, FolderInv, OneFolder
<1> QED BY <1>1, Invariant, PTL

\* A restore takes nothing away of what is in the store or among the files when the
\* backup arrives, but for a file of the backup that it fails to replace (RestoreAdds).
THEOREM AlwaysRestoreAdds == Spec => RestoreAdds
<1> DEFINE Adds == restores' > restores =>
                     /\ files \ torn' \subseteq files'
                     /\ \A part \in DOMAIN store : store[part] \subseteq store'[part]
<1>1. ASSUME IInv, [Next]_vars, restores' > restores
      PROVE  \E c \in Calls : RestoreStep(c)
  <2>1. restores \in Nat
    BY <1>1 DEF IInv, DriveTypes
  <2>2. restores' # restores /\ ~(restores' = 0)
    BY <1>1, <2>1
  <2> USE <2>2 DEF past
  <2>3. ~WriteNote /\ ~ImportStep /\ ~Relaunch /\ ~Reinstall /\ ~(UNCHANGED vars)
    BY DEF WriteNote, ImportStep, Relaunch, Reinstall, vars
  <2>4. ~Disconnect
    BY DEF Disconnect, Drive!Disconnect, Drive!past
  <2>5. \A c \in Calls : ~ImportDriveFile(c) /\ ~BeginCall(c)
    BY DEF ImportDriveFile, BeginCall, Drive!Connect, Drive!PressSync, Drive!Begin, Drive!past
  <2>6. \A c \in Calls : ~Drive!Refreshed(c) /\ ~Drive!RequestFails(c) /\ ~Drive!Fetched(c)
    BY DEF Drive!Refreshed, Drive!RequestFails, Drive!Fetched, Drive!past
  <2>7. \A c \in Calls : ~FetchStep(c) /\ ~DriveStep(c)
    BY <2>6 DEF FetchStep, DriveStep, Drive!Answered, Drive!BeginSync, Drive!SignedIn,
       Drive!SignInFails, Drive!FolderFound, Drive!FolderCreated, Drive!Listed, Drive!Uploaded,
       Drive!past
  <2> QED BY <1>1, <2>3, <2>4, <2>5, <2>7 DEF Next, CallStep
<1>2. IInv /\ [Next]_vars => [Adds]_vars
  <2> SUFFICES ASSUME IInv, [Next]_vars, restores' > restores
               PROVE  /\ files \ torn' \subseteq files'
                      /\ \A part \in DOMAIN store : store[part] \subseteq store'[part]
    OBVIOUS
  <2>1. PICK c \in Calls : Drive!Restore(c)
    BY <1>1 DEF RestoreStep
  <2> QED BY <2>1 DEF Drive!Restore, Drive!CopyFiles
<1> QED BY <1>2, Invariant, PTL DEF Spec, RestoreAdds
=============================================================================
