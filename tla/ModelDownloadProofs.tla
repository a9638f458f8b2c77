------------------------- MODULE ModelDownloadProofs -------------------------
(* For any catalog and any bounds: the types, that a file that failed its     *)
(* check does not stay, and that a row that says completed has its file.      *)
EXTENDS ModelDownload, FiniteSetTheorems, SequenceTheorems, TLAPS

\* A task the session still works on has a file of the catalog.
LiveHasFile == \A t \in Tasks : tasks[t].phase \in Live => tasks[t].file \in Files

IInv == TypeOK /\ LiveHasFile /\ BadFilesAreRemoved

TaskRecords == [phase : Live \cup {"unused", "done"}, file : Files \cup {None},
                resumed : BOOLEAN]
Jobs == [op : {"state"}, item : Items, state : States, tasks : {{}}] \cup
        [op : {"restore"}, item : {None}, state : {None}, tasks : SUBSET Tasks]

-----------------------------------------------------------------------------
(* Files and jobs. *)

\* The item of a file is in the catalog, and Primary and Auxiliary name files.
LEMMA FilesAndItems ==
  /\ \A f \in Files : f[1] \in Items
  /\ \A i \in Items : Primary(i) \in Files
  /\ \A i \in TwoFile : Auxiliary(i) \in Files
  /\ \A i \in Items : ~Installed(i) /\ Present(Primary(i)) => i \in TwoFile
BY ItemsAssumption DEF Files, FilesOf, Primary, Auxiliary, Installed, Present

\* setState jobs are well typed.
LEMMA SetStateType ==
  ASSUME NEW i \in Items, NEW s \in States PROVE SetState(i, s) \in Jobs
BY DEF SetState, Job, Jobs

\* Moving a task to another phase keeps its other fields and the other tasks.
LEMMA Moved ==
  ASSUME TypeOK, NEW t \in Tasks, NEW p \in Live \cup {"unused", "done"}
  PROVE  /\ In(t, p) \in [Tasks -> TaskRecords]
         /\ In(t, p)[t] = [phase |-> p, file |-> tasks[t].file,
                           resumed |-> tasks[t].resumed]
         /\ \A u \in Tasks \ {t} : In(t, p)[u] = tasks[u]
BY DEF In, TypeOK, TaskRecords

\* Enqueue starts a task for its file and leaves the others alone.
LEMMA Enqueued ==
  ASSUME NEW f \in Files, NEW others \in [Tasks -> TaskRecords], Enqueue(f, others)
  PROVE  /\ tasks' \in [Tasks -> TaskRecords]
         /\ \E t \in Tasks : /\ tasks[t].phase = "unused"
                             /\ tasks'[t].phase = "running" /\ tasks'[t].file = f
                             /\ \A u \in Tasks \ {t} : tasks'[u] = others[u]
<1>1. PICK t \in TasksIn({"unused"}) :
        tasks' = [others EXCEPT ![t] = [phase |-> "running", file |-> f,
                                        resumed |-> f \in resume]]
  BY DEF Enqueue
<1>2. t \in Tasks /\ tasks[t].phase = "unused"
  BY DEF TasksIn
<1>3. [phase |-> "running", file |-> f, resumed |-> f \in resume] \in TaskRecords
  BY DEF TaskRecords, Live
<1> QED
  BY <1>1, <1>2, <1>3

-----------------------------------------------------------------------------
(* The initial states and the steps that only move a task on. *)

\* The invariant holds at launch.
LEMMA InitIInv == Init => IInv
<1> SUFFICES ASSUME Init PROVE IInv
  OBVIOUS
<1>1. tasks \in [Tasks -> TaskRecords]
  BY DEF Init, NoTask, TaskRecords
<1>2. TypeOK
  BY <1>1, BoundsAssumption DEF Init, TypeOK, Request, States, Live, TaskRecords
<1>3. LiveHasFile
  BY DEF Init, LiveHasFile, NoTask, Live
<1>4. BadFilesAreRemoved
  BY DEF Init, BadFilesAreRemoved
<1> QED
  BY <1>2, <1>3, <1>4 DEF IInv

\* Appending well-typed jobs keeps the queue well typed.
LEMMA QueueTypes ==
  ASSUME TypeOK
  PROVE  /\ mainQ \in Seq(Jobs)
         /\ \A j \in Jobs : Append(mainQ, j) \in Seq(Jobs)
         /\ \A j, k \in Jobs : mainQ \o <<j, k>> \in Seq(Jobs)
         /\ mainQ # <<>> => Head(mainQ) \in Jobs /\ Tail(mainQ) \in Seq(Jobs)
<1>1. mainQ \in Seq(Jobs)
  BY DEF TypeOK, Jobs
<1>2. \A j, k \in Jobs : <<j, k>> \in Seq(Jobs)
  OBVIOUS
<1> HIDE DEF Jobs
<1> QED
  BY <1>1, <1>2

\* A step that moves one live task to another phase keeps LiveHasFile.
LEMMA MovedLive ==
  ASSUME TypeOK, LiveHasFile, NEW t \in Tasks, tasks[t].phase \in Live,
         NEW p \in Live \cup {"done"}, tasks' = In(t, p)
  PROVE  /\ tasks' \in [Tasks -> TaskRecords]
         /\ LiveHasFile'
         /\ tasks[t].file \in Files /\ tasks[t].file[1] \in Items
         /\ tasks'[t].phase = p /\ tasks'[t].file = tasks[t].file
         /\ \A u \in Tasks \ {t} : tasks'[u] = tasks[u]
<1>1. tasks[t].file \in Files /\ tasks[t].file[1] \in Items
  BY FilesAndItems DEF LiveHasFile
<1>2. /\ In(t, p) \in [Tasks -> TaskRecords]
      /\ In(t, p)[t] = [phase |-> p, file |-> tasks[t].file,
                        resumed |-> tasks[t].resumed]
      /\ \A u \in Tasks \ {t} : In(t, p)[u] = tasks[u]
  BY Moved
<1>3. tasks' \in [Tasks -> TaskRecords]
  BY <1>2
<1>4. tasks'[t].file = tasks[t].file /\ tasks'[t].phase = p
  BY <1>2
<1>5. \A u \in Tasks \ {t} : tasks'[u] = tasks[u]
  BY <1>2
<1>6. LiveHasFile'
  BY <1>1, <1>4, <1>5 DEF LiveHasFile
<1> QED
  BY <1>1, <1>3, <1>4, <1>5, <1>6

\* BadFilesAreRemoved outlasts a step that brings in no bad file, and keeps every
\* moved task whose file stays bad.
LEMMA BadKept ==
  ASSUME BadFilesAreRemoved,
         \A f \in Files : file'[f] = "bad" => file[f] = "bad",
         \A f \in Files : file'[f] = "bad" /\ f \notin torn' => f \notin torn,
         \A t \in Tasks : /\ tasks[t].phase = "moved"
                          /\ file'[tasks[t].file] = "bad"
                          /\ tasks[t].file \notin torn'
                          => /\ tasks'[t].phase = "moved"
                             /\ tasks'[t].file = tasks[t].file
  PROVE  BadFilesAreRemoved'
<1> SUFFICES ASSUME NEW f \in Files, file'[f] = "bad", f \notin torn'
             PROVE  \E t \in Tasks : tasks'[t].phase = "moved" /\ tasks'[t].file = f
  BY DEF BadFilesAreRemoved, TasksIn
<1>1. PICK t \in Tasks : tasks[t].phase = "moved" /\ tasks[t].file = f
  BY DEF BadFilesAreRemoved, TasksIn
<1> QED
  BY <1>1

-----------------------------------------------------------------------------
(* The user's steps, death and relaunch. *)

\* A step that leaves tasks, file and torn alone keeps the parts of the
\* invariant about them.
LEMMA NothingMoved ==
  ASSUME IInv, UNCHANGED <<tasks, file, torn>>
  PROVE  LiveHasFile' /\ BadFilesAreRemoved'
BY DEF IInv, LiveHasFile, BadFilesAreRemoved, TasksIn

\* A download started, cancelled or deleted keeps the invariant.
LEMMA UserSteps ==
  ASSUME IInv, NEW i \in Items,
         StartDownload(i) \/ CancelDownload(i) \/ DeleteDownloaded(i)
  PROVE  IInv'
<1>1. TypeOK /\ LiveHasFile /\ BadFilesAreRemoved
  BY DEF IInv
<1>2. tasks \in [Tasks -> TaskRecords]
  BY <1>1 DEF TypeOK, TaskRecords
<1>3. TasksIn(Live) \in SUBSET Tasks
  BY DEF TasksIn
<1>4. \A s \in States : SetState(i, s) \in Jobs
  BY SetStateType
<1>5. /\ \A j \in Jobs : Append(mainQ, j) \in Seq(Jobs)
      /\ \A j, k \in Jobs : mainQ \o <<j, k>> \in Seq(Jobs)
  BY <1>1, QueueTypes
<1>6. CASE StartDownload(i)
  <2>0. /\ starts' \in 0..MaxStarts
        /\ UNCHANGED <<file, resume, requests, state, kills, restored, torn>>
    BY <1>1, <1>6, BoundsAssumption DEF StartDownload, TypeOK, disk
  <2>1. CASE Installed(i)
    <3>1. mainQ' \in Seq(Jobs) /\ UNCHANGED tasks
      BY <1>4, <1>5, <1>6, <2>1 DEF StartDownload, States
    <3>2. TypeOK'
      BY <1>1, <2>0, <3>1 DEF TypeOK, Jobs
    <3> QED
      BY <2>0, <3>1, <3>2, NothingMoved DEF IInv
  <2>2. CASE ~Installed(i)
    <3> DEFINE f == IF Present(Primary(i)) THEN Auxiliary(i) ELSE Primary(i)
    <3>1. f \in Files
      BY <2>2, FilesAndItems
    <3>2. Enqueue(f, tasks) /\ mainQ' \in Seq(Jobs)
      BY <1>4, <1>5, <1>6, <2>2 DEF StartDownload, States
    <3> HIDE DEF f
    <3>3. /\ tasks' \in [Tasks -> TaskRecords]
          /\ \E t \in Tasks : /\ tasks[t].phase = "unused"
                              /\ tasks'[t].phase = "running" /\ tasks'[t].file = f
                              /\ \A u \in Tasks \ {t} : tasks'[u] = tasks[u]
      BY <1>2, <3>1, <3>2, Enqueued
    <3>4. TypeOK'
      BY <1>1, <2>0, <3>2, <3>3 DEF TypeOK, Jobs, TaskRecords
    <3>5. LiveHasFile'
      BY <1>1, <3>1, <3>3 DEF LiveHasFile
    <3>6. BadFilesAreRemoved'
      BY <1>1, <2>0, <3>3, BadKept
    <3> QED
      BY <3>4, <3>5, <3>6 DEF IInv
  <2> QED
    BY <2>1, <2>2
<1>7. CASE CancelDownload(i)
  <2>1. TypeOK'
    BY <1>1, <1>3, <1>7 DEF TypeOK, CancelDownload, Request, disk
  <2> QED
    BY <1>7, <2>1, NothingMoved DEF CancelDownload, disk, IInv
<1>8. CASE DeleteDownloaded(i)
  <2>1. mainQ' \in Seq(Jobs)
    BY <1>4, <1>5, <1>8 DEF DeleteDownloaded, States
  <2>2. TypeOK'
    BY <1>1, <1>8, <2>1 DEF TypeOK, DeleteDownloaded, Jobs
  <2>3. UNCHANGED tasks
    BY <1>8 DEF DeleteDownloaded
  <2>4. LiveHasFile'
    BY <1>1, <2>3 DEF LiveHasFile
  <2>5. \A f \in Files : /\ file'[f] = "bad" => file[f] = "bad"
                         /\ file'[f] = "bad" /\ f \notin torn' => f \notin torn
    BY <1>8 DEF DeleteDownloaded
  <2>6. BadFilesAreRemoved'
    BY <1>1, <2>3, <2>5, BadKept
  <2> QED
    BY <2>2, <2>4, <2>6 DEF IInv
<1> QED
  BY <1>6, <1>7, <1>8

\* So does the death of the process: the moved tasks it drops are in torn.
LEMMA RelaunchStep ==
  ASSUME IInv, Relaunch PROVE IInv'
<1>1. TypeOK /\ LiveHasFile /\ BadFilesAreRemoved
  BY DEF IInv
<1>2. tasks \in [Tasks -> TaskRecords]
  BY <1>1 DEF TypeOK, TaskRecords
<1>3. \A t \in Tasks : tasks'[t].file = tasks[t].file
  BY <1>2 DEF Relaunch, TaskRecords
<1>4. \A t \in Tasks : tasks'[t].phase \in Live => tasks[t].phase \in Live
  BY <1>2 DEF Relaunch, TaskRecords, Live
<1>5. tasks' \in [Tasks -> TaskRecords]
  BY <1>2 DEF Relaunch, TaskRecords
<1>6. LiveHasFile'
  BY <1>1, <1>3, <1>4 DEF LiveHasFile
<1>7. {tasks[t].file : t \in TasksIn({"moved"})} \subseteq Files
  BY <1>1 DEF LiveHasFile, TasksIn, Live
<1>8. TypeOK'
  <2>1. requests' \subseteq [op : {"cancel", "restore"}, item : Items \cup {None},
                            tasks : SUBSET Tasks]
    BY DEF Relaunch, Request
  <2>2. kills' \in 0..MaxKills
    BY <1>1, BoundsAssumption DEF Relaunch, TypeOK
  <2>3. mainQ' \in Seq(Jobs)
    BY DEF Relaunch
  <2> QED
    BY <1>1, <1>5, <1>7, <2>1, <2>2, <2>3
    DEF TypeOK, Relaunch, States, disk, TaskRecords, Jobs
<1>9. file' = file /\ torn \subseteq torn'
      /\ \A t \in Tasks : tasks[t].phase = "moved" => tasks[t].file \in torn'
  BY DEF Relaunch, disk, TasksIn
<1>10. BadFilesAreRemoved'
  BY <1>1, <1>9, BadKept
<1> QED
  BY <1>6, <1>8, <1>10 DEF IInv

-----------------------------------------------------------------------------
(* Handlers, and the turns of the main actor. *)

\* So do the handlers of getAllTasks: a cancel stops running tasks only.
LEMMA AnswerStep ==
  ASSUME IInv, NEW r \in requests, CancelTasks(r) \/ RestoreTasks(r)
  PROVE  IInv'
<1>1. TypeOK /\ LiveHasFile /\ BadFilesAreRemoved
  BY DEF IInv
<1>2. tasks \in [Tasks -> TaskRecords]
  BY <1>1 DEF TypeOK, TaskRecords
<1>3. requests' \subseteq [op : {"cancel", "restore"}, item : Items \cup {None},
                           tasks : SUBSET Tasks]
  BY <1>1 DEF TypeOK, CancelTasks, RestoreTasks, Answered
<1>4. CASE CancelTasks(r)
  <2>1. UNCHANGED <<file, resume, mainQ, state, starts, kills, restored, torn>>
    BY <1>4 DEF CancelTasks, disk
  <2> DEFINE Gone(t) == [phase |-> "cancelling", file |-> tasks[t].file,
                         resumed |-> tasks[t].resumed]
  <2>0. PICK list \in {r.tasks, TasksIn(Live)} :
          tasks' = [t \in Tasks |->
                     IF t \in list \cap TaskOf(r.item) /\ tasks[t].phase = "running"
                     THEN Gone(t) ELSE tasks[t]]
    BY <1>4 DEF CancelTasks
  <2>2. tasks' \in [Tasks -> TaskRecords]
    <3>1. \A t \in Tasks : Gone(t) \in TaskRecords
      BY <1>2 DEF TaskRecords, Live
    <3> QED
      BY <1>2, <2>0, <3>1
  <2>3. \A t \in Tasks : /\ tasks'[t].file = tasks[t].file
                         /\ tasks'[t].phase \in Live => tasks[t].phase \in Live
                         /\ tasks[t].phase = "moved" => tasks'[t].phase = "moved"
    BY <1>2, <2>0 DEF TaskRecords, Live
  <2>4. TypeOK'
    BY <1>1, <1>3, <2>1, <2>2 DEF TypeOK, TaskRecords
  <2>5. LiveHasFile'
    BY <1>1, <2>3 DEF LiveHasFile
  <2>6. BadFilesAreRemoved'
    BY <1>1, <2>1, <2>3, BadKept
  <2> QED
    BY <2>4, <2>5, <2>6 DEF IInv
<1>5. CASE RestoreTasks(r)
  <2>1. UNCHANGED <<file, resume, tasks, state, starts, kills, restored, torn>>
    BY <1>5 DEF RestoreTasks, disk
  <2>2. Job("restore", None, None, TasksIn(Live)) \in Jobs
    BY DEF Job, Jobs, TasksIn
  <2>3. \A j \in Jobs : Append(mainQ, j) \in Seq(Jobs)
    BY <1>1, QueueTypes
  <2>4. mainQ' = Append(mainQ, Job("restore", None, None, TasksIn(Live)))
    BY <1>5 DEF RestoreTasks
  <2>5. mainQ' \in Seq(Jobs)
    BY <2>2, <2>3, <2>4
  <2>6. TypeOK'
    BY <1>1, <1>3, <2>1, <2>5 DEF TypeOK, Jobs
  <2> QED
    BY <2>1, <2>6, NothingMoved DEF IInv
<1> QED
  BY <1>4, <1>5

\* So does a turn of the main actor, whose jobs are well typed.
LEMMA TurnStep ==
  ASSUME IInv, Turn PROVE IInv'
<1>1. TypeOK /\ LiveHasFile /\ BadFilesAreRemoved
  BY DEF IInv
<1>2. mainQ # <<>> /\ Head(mainQ) \in Jobs /\ mainQ' \in Seq(Jobs)
  BY <1>1, QueueTypes DEF Turn
<1>3. UNCHANGED <<file, resume, tasks, requests, starts, kills, torn>>
  BY DEF Turn, disk
<1>4. state' \in [Items -> States] /\ restored' \in SUBSET Items
  <2>1. CASE Head(mainQ).op = "state"
    <3>1. Head(mainQ).item \in Items /\ Head(mainQ).state \in States
      BY <1>2, <2>1 DEF Jobs
    <3>2. /\ state' = [state EXCEPT ![Head(mainQ).item] = Head(mainQ).state]
          /\ restored' = restored \ {Head(mainQ).item}
      BY <2>1 DEF Turn
    <3> QED
      BY <1>1, <3>1, <3>2 DEF TypeOK
  <2>2. CASE Head(mainQ).op # "state"
    <3> DEFINE pending == {tasks[t].file[1] :
                  t \in Head(mainQ).tasks \cap TasksIn({"running", "moved", "finished"})}
    <3>1. /\ state' = [i \in Items |-> IF i \in pending THEN "underway" ELSE state[i]]
          /\ restored' = restored \cup pending
      BY <2>2 DEF Turn
    <3>2. pending \subseteq Items
      BY <1>1, FilesAndItems DEF LiveHasFile, TasksIn, Live
    <3> HIDE DEF pending
    <3> QED
      BY <1>1, <3>1, <3>2 DEF TypeOK, States
  <2> QED
    BY <2>1, <2>2
<1>5. TypeOK'
  BY <1>1, <1>2, <1>3, <1>4 DEF TypeOK, Jobs
<1> QED
  BY <1>3, <1>5, NothingMoved DEF IInv

-----------------------------------------------------------------------------
(* The delegate. *)

\* A step that moves task t on keeps the invariant if it keeps the types of what
\* else it changes, and BadFilesAreRemoved.
LEMMA TaskStep ==
  ASSUME IInv, NEW t \in Tasks, tasks[t].phase \in Live,
         NEW p \in Live \cup {"done"}, tasks' = In(t, p),
         mainQ' \in Seq(Jobs), file' \in [Files -> {"absent", "good", "bad"}],
         resume' \subseteq Files, torn' \subseteq Files,
         UNCHANGED <<requests, state, starts, kills, restored>>,
         BadFilesAreRemoved'
  PROVE  IInv'
<1>1. TypeOK /\ LiveHasFile
  BY DEF IInv
<1>2. tasks' \in [Tasks -> TaskRecords] /\ LiveHasFile'
  BY <1>1, MovedLive
<1>3. TypeOK'
  BY <1>1, <1>2 DEF TypeOK, TaskRecords, Jobs
<1> QED
  BY <1>2, <1>3 DEF IInv

\* What the tasks' steps have in common.
LEMMA TaskFacts ==
  ASSUME IInv, NEW t \in Tasks, tasks[t].phase \in Live
  PROVE  /\ TypeOK /\ LiveHasFile /\ BadFilesAreRemoved
         /\ tasks[t].file \in Files
         /\ \A s \in States : SetState(tasks[t].file[1], s) \in Jobs
         /\ \A j \in Jobs : Append(mainQ, j) \in Seq(Jobs)
         /\ \A j, k \in Jobs : mainQ \o <<j, k>> \in Seq(Jobs)
         /\ \A p \in Live \cup {"done"} : tasks' = In(t, p)
              => /\ tasks'[t].phase = p /\ tasks'[t].file = tasks[t].file
                 /\ \A u \in Tasks \ {t} : tasks'[u] = tasks[u]
<1>1. TypeOK /\ LiveHasFile /\ BadFilesAreRemoved
  BY DEF IInv
<1>2. tasks[t].file \in Files /\ tasks[t].file[1] \in Items
  BY <1>1, FilesAndItems DEF LiveHasFile
<1>3. \A s \in States : SetState(tasks[t].file[1], s) \in Jobs
  BY <1>2, SetStateType
<1>4. /\ \A j \in Jobs : Append(mainQ, j) \in Seq(Jobs)
      /\ \A j, k \in Jobs : mainQ \o <<j, k>> \in Seq(Jobs)
  BY <1>1, QueueTypes
<1>5. ASSUME NEW p \in Live \cup {"done"}, tasks' = In(t, p)
      PROVE  /\ tasks'[t].phase = p /\ tasks'[t].file = tasks[t].file
             /\ \A u \in Tasks \ {t} : tasks'[u] = tasks[u]
  BY <1>1, <1>5, MovedLive
<1> QED
  BY <1>1, <1>2, <1>3, <1>4, <1>5

\* didWriteData only queues a state.
LEMMA ProgressStep ==
  ASSUME IInv, NEW t \in Tasks, Progress(t) PROVE IInv'
<1>1. tasks[t].phase \in Live
  BY DEF Progress, Live
<1>2. UNCHANGED <<file, resume, tasks, requests, state, starts, kills, restored, torn>>
  BY DEF Progress, disk
<1>3. mainQ' \in Seq(Jobs)
  <2>1. "underway" \in States /\ mainQ' = Append(mainQ, SetState(tasks[t].file[1], "underway"))
    BY DEF Progress, States
  <2> QED
    BY <1>1, <2>1, TaskFacts
<1>4. TypeOK'
  BY <1>2, <1>3 DEF IInv, TypeOK, Jobs
<1> QED
  BY <1>2, <1>4, NothingMoved DEF IInv

\* The steps that end a transfer without a file, and those after the check.
LEMMA EndSteps ==
  ASSUME IInv, NEW t \in Tasks,
         Fail(t) \/ Rejected(t) \/ Completed(t) \/ Cancelled(t)
  PROVE  IInv'
<1>1. tasks[t].phase \in Live \ {"moved"}
  BY DEF Fail, Rejected, Transferred, Completed, Cancelled, Live
<1>2. PICK p \in {"done", "finished"} : tasks' = In(t, p)
  BY DEF Fail, Rejected, Completed, Cancelled
<1>3. UNCHANGED <<file, requests, state, starts, kills, restored, torn>>
  BY DEF Fail, Rejected, Completed, Cancelled, disk
<1>4. /\ TypeOK /\ BadFilesAreRemoved
      /\ tasks[t].file \in Files
      /\ \A s \in States : SetState(tasks[t].file[1], s) \in Jobs
      /\ \A j \in Jobs : Append(mainQ, j) \in Seq(Jobs)
      /\ \A j, k \in Jobs : mainQ \o <<j, k>> \in Seq(Jobs)
      /\ \A u \in Tasks \ {t} : tasks'[u] = tasks[u]
  BY <1>1, <1>2, TaskFacts DEF Live
<1>5. mainQ' \in Seq(Jobs)
  <2>1. \/ mainQ' = mainQ
        \/ \E s \in States : mainQ' = Append(mainQ, SetState(tasks[t].file[1], s))
        \/ mainQ' = mainQ \o <<SetState(tasks[t].file[1], "underway"),
                               SetState(tasks[t].file[1], "failed")>>
    BY DEF Fail, Rejected, GivenUp, Completed, Cancelled, States
  <2>2. mainQ \in Seq(Jobs)
    BY <1>4 DEF TypeOK, Jobs
  <2>3. "underway" \in States /\ "failed" \in States
    BY DEF States
  <2> QED
    BY <1>4, <2>1, <2>2, <2>3
<1>6. resume' \subseteq Files
  BY <1>4 DEF TypeOK, Fail, Rejected, Completed, Cancelled, disk
<1>7. file' \in [Files -> {"absent", "good", "bad"}] /\ torn' \subseteq Files
  BY <1>3, <1>4 DEF TypeOK
<1>8. \A u \in Tasks : tasks[u].phase = "moved" => tasks'[u] = tasks[u]
  BY <1>1, <1>4
<1>9. BadFilesAreRemoved'
  BY <1>3, <1>4, <1>8, BadKept
<1>10. p \in Live \cup {"done"} /\ tasks[t].phase \in Live
  BY <1>1 DEF Live
<1> QED
  BY <1>2, <1>3, <1>5, <1>6, <1>7, <1>9, <1>10, TaskStep

\* didFinishDownloadingTo up to the check: the file that comes may be bad, and
\* its task is then moved.
LEMMA MoveSteps ==
  ASSUME IInv, NEW t \in Tasks, NotMoved(t) \/ Move(t) PROVE IInv'
<1> DEFINE f == tasks[t].file
<1>1. tasks[t].phase \in Live /\ tasks[t].phase # "moved"
  BY DEF NotMoved, Move, Transferred, Live
<1>2. PICK p \in {"finished", "moved"} : tasks' = In(t, p) /\ (Move(t) => p = "moved")
  BY DEF NotMoved, Move
<1>3. p \in Live \cup {"done"}
  BY DEF Live
<1>4. /\ TypeOK /\ BadFilesAreRemoved
      /\ f \in Files
      /\ \A s \in States : SetState(f[1], s) \in Jobs
      /\ \A j \in Jobs : Append(mainQ, j) \in Seq(Jobs)
      /\ \A j, k \in Jobs : mainQ \o <<j, k>> \in Seq(Jobs)
      /\ tasks'[t].phase = p /\ tasks'[t].file = f
      /\ \A u \in Tasks \ {t} : tasks'[u] = tasks[u]
  BY <1>1, <1>2, <1>3, TaskFacts
<1>5. UNCHANGED <<resume, requests, state, starts, kills, restored>>
      /\ (torn' = torn \/ torn' = torn \ {f})
  BY DEF NotMoved, Move
<1>6. mainQ' \in Seq(Jobs)
  <2>1. \/ mainQ' = Append(mainQ, SetState(f[1], "underway"))
        \/ mainQ' = mainQ \o <<SetState(f[1], "underway"), SetState(f[1], "failed")>>
    BY DEF NotMoved, Move, GivenUp
  <2>2. "underway" \in States /\ "failed" \in States
    BY DEF States
  <2> HIDE DEF f
  <2> QED
    BY <1>4, <2>1, <2>2
<1>7. PICK content \in {"absent", "good", "bad"} :
        /\ file' = [file EXCEPT ![f] = content]
        /\ Move(t) \/ content = "absent" \/ (content = file[f] /\ torn' = torn)
  <2>1. CASE UNCHANGED <<file, torn>>
    <3>1. file[f] \in {"absent", "good", "bad"} /\ file = [file EXCEPT ![f] = file[f]]
      BY <1>4 DEF TypeOK
    <3> QED
      BY <2>1, <3>1
  <2>2. CASE ~UNCHANGED <<file, torn>>
    BY <2>2 DEF NotMoved, Move
  <2> QED
    BY <2>1, <2>2
<1>8. file' \in [Files -> {"absent", "good", "bad"}]
      /\ torn' \subseteq Files
  BY <1>4, <1>5, <1>7 DEF TypeOK, NotMoved, Move
<1>9. \A g \in Files \ {f} : file'[g] = file[g] /\ (g \in torn' <=> g \in torn)
  BY <1>4, <1>5, <1>7 DEF TypeOK
<1>10. file'[f] = "bad" =>
         \/ tasks'[t].phase = "moved"
         \/ file[f] = "bad" /\ torn' = torn
  BY <1>2, <1>4, <1>7 DEF TypeOK
<1>11. BadFilesAreRemoved'
  <2> SUFFICES ASSUME NEW g \in Files, file'[g] = "bad", g \notin torn'
               PROVE  \E u \in Tasks : tasks'[u].phase = "moved" /\ tasks'[u].file = g
    BY DEF BadFilesAreRemoved, TasksIn
  <2>1. CASE g = f
    <3>1. CASE file[f] = "bad" /\ torn' = torn
      <4>1. PICK u \in Tasks : tasks[u].phase = "moved" /\ tasks[u].file = g
        BY <1>4, <2>1, <3>1 DEF BadFilesAreRemoved, TasksIn
      <4> QED
        BY <1>1, <1>4, <4>1
    <3>2. CASE tasks'[t].phase = "moved"
      BY <1>4, <2>1, <3>2
    <3> QED
      BY <1>10, <2>1, <3>1, <3>2
  <2>2. CASE g # f
    <3>1. PICK u \in Tasks : tasks[u].phase = "moved" /\ tasks[u].file = g
      BY <1>4, <1>9, <2>2 DEF BadFilesAreRemoved, TasksIn
    <3> QED
      BY <1>1, <1>4, <3>1
  <2> QED
    BY <2>1, <2>2
<1>12. resume' \subseteq Files
  BY <1>4, <1>5 DEF TypeOK
<1> QED
  BY <1>1, <1>2, <1>3, <1>5, <1>6, <1>8, <1>11, <1>12, TaskStep

\* The check removes the file that fails it,
LEMMA CheckFailsStep ==
  ASSUME IInv, NEW t \in Tasks, CheckFails(t) PROVE IInv'
<1> DEFINE f == tasks[t].file
<1>1. tasks[t].phase \in Live /\ "finished" \in Live \cup {"done"}
  BY DEF CheckFails, Live
<1>2. tasks' = In(t, "finished") /\ file' = [file EXCEPT ![f] = "absent"]
      /\ mainQ' = Append(mainQ, SetState(f[1], "failed"))
      /\ UNCHANGED <<resume, requests, state, starts, kills, restored, torn>>
  BY DEF CheckFails
<1>3. /\ TypeOK /\ BadFilesAreRemoved
      /\ f \in Files
      /\ \A s \in States : SetState(f[1], s) \in Jobs
      /\ \A j \in Jobs : Append(mainQ, j) \in Seq(Jobs)
      /\ \A u \in Tasks \ {t} : tasks'[u] = tasks[u]
  BY <1>1, <1>2, TaskFacts
<1>4. mainQ' \in Seq(Jobs)
  <2>1. "failed" \in States
    BY DEF States
  <2> HIDE DEF f
  <2> QED
    BY <1>2, <1>3, <2>1
<1>5. /\ file' \in [Files -> {"absent", "good", "bad"}]
      /\ resume' \subseteq Files /\ torn' \subseteq Files
  BY <1>2, <1>3 DEF TypeOK, CheckFails
<1>6. file'[f] = "absent" /\ \A g \in Files \ {f} : file'[g] = file[g]
  BY <1>2, <1>3 DEF TypeOK
<1>7. BadFilesAreRemoved'
  BY <1>2, <1>3, <1>6, BadKept
<1> QED
  BY <1>1, <1>2, <1>4, <1>5, <1>7, TaskStep

\* and a file that passes it is good, whether the auxiliary file follows or not.
LEMMA CheckSucceedsStep ==
  ASSUME IInv, NEW t \in Tasks, CheckSucceeds(t) PROVE IInv'
<1> DEFINE f == tasks[t].file
           i == f[1]
           next == f = Primary(i) /\ i \in TwoFile /\ ~Present(Auxiliary(i))
<1>1. tasks[t].phase = "moved" /\ tasks[t].phase \in Live
      /\ "finished" \in Live \cup {"done"}
  BY DEF CheckSucceeds, Live
<1>2. file[f] = "good" /\ resume' = resume \ {f}
      /\ UNCHANGED <<file, requests, state, starts, kills, restored, torn>>
  BY DEF CheckSucceeds
<1>3. /\ TypeOK /\ LiveHasFile /\ BadFilesAreRemoved
      /\ f \in Files
      /\ \A s \in States : SetState(i, s) \in Jobs
      /\ \A j \in Jobs : Append(mainQ, j) \in Seq(Jobs)
  BY <1>1, TaskFacts
<1>4. /\ resume' \subseteq Files /\ torn' \subseteq Files
      /\ file' \in [Files -> {"absent", "good", "bad"}]
  BY <1>2, <1>3 DEF TypeOK
<1>5. "underway" \in States /\ "completed" \in States
  BY DEF States
<1>6. CASE next
  <2>1. mainQ' = Append(mainQ, SetState(i, "underway"))
        /\ Enqueue(Auxiliary(i), In(t, "finished"))
    BY <1>6 DEF CheckSucceeds
  <2>2. mainQ' \in Seq(Jobs)
    <3> HIDE DEF i
    <3> QED
      BY <1>3, <1>5, <2>1
  <2>3. Auxiliary(i) \in Files
    BY <1>6, FilesAndItems
  <2>4. /\ In(t, "finished") \in [Tasks -> TaskRecords]
        /\ In(t, "finished")[t] = [phase |-> "finished", file |-> f,
                                  resumed |-> tasks[t].resumed]
        /\ \A u \in Tasks \ {t} : In(t, "finished")[u] = tasks[u]
    BY <1>1, <1>3, Moved
  <2>5. /\ tasks' \in [Tasks -> TaskRecords]
        /\ \E n \in Tasks : /\ tasks[n].phase = "unused"
                            /\ tasks'[n].phase = "running"
                            /\ tasks'[n].file = Auxiliary(i)
                            /\ \A u \in Tasks \ {n} : tasks'[u] = In(t, "finished")[u]
    BY <2>1, <2>3, <2>4, Enqueued
  <2>6. PICK n \in Tasks : /\ tasks[n].phase = "unused"
                          /\ tasks'[n].phase = "running"
                          /\ tasks'[n].file = Auxiliary(i)
                          /\ \A u \in Tasks \ {n} : tasks'[u] = In(t, "finished")[u]
    BY <2>5
  <2>7. /\ tasks'[t].file = f
        /\ \A u \in Tasks \ {n, t} : tasks'[u] = tasks[u]
    BY <1>1, <2>4, <2>6
  <2>8. TypeOK'
    BY <1>2, <1>3, <1>4, <2>2, <2>5 DEF TypeOK, TaskRecords, Jobs
  <2>9. LiveHasFile'
    BY <1>3, <2>3, <2>6, <2>7 DEF LiveHasFile
  <2>10. BadFilesAreRemoved'
    <3>1. \A u \in Tasks : /\ tasks[u].phase = "moved"
                           /\ file'[tasks[u].file] = "bad"
                           => tasks'[u] = tasks[u]
      BY <1>2, <2>6, <2>7
    <3> QED
      BY <1>2, <1>3, <3>1, BadKept
  <2> QED
    BY <2>8, <2>9, <2>10 DEF IInv
<1>7. CASE ~next
  <2>1. mainQ' = Append(mainQ, SetState(i, "completed")) /\ tasks' = In(t, "finished")
    BY <1>7 DEF CheckSucceeds
  <2>2. mainQ' \in Seq(Jobs)
    <3> HIDE DEF i
    <3> QED
      BY <1>3, <1>5, <2>1
  <2>3. \A u \in Tasks \ {t} : tasks'[u] = tasks[u]
    BY <1>1, <2>1, TaskFacts
  <2>4. BadFilesAreRemoved'
    BY <1>2, <1>3, <2>3, BadKept
  <2> QED
    BY <1>1, <1>2, <1>4, <2>1, <2>2, <2>4, TaskStep
<1> QED
  BY <1>6, <1>7

-----------------------------------------------------------------------------
(* Types, and files that failed their check. *)

\* Every step keeps the invariant.
LEMMA StepIInv == IInv /\ [Next]_vars => IInv'
<1> SUFFICES ASSUME IInv, [Next]_vars PROVE IInv'
  OBVIOUS
<1>1. ASSUME NEW i \in Items, StartDownload(i) \/ CancelDownload(i) \/ DeleteDownloaded(i)
      PROVE  IInv'
  BY <1>1, UserSteps
<1>2. CASE Activate
  <2>1. TypeOK'
    BY <1>2 DEF IInv, TypeOK, Activate, Request, disk
  <2> QED
    BY <1>2, <2>1, NothingMoved DEF Activate, disk, IInv
<1>3. CASE Relaunch
  BY <1>3, RelaunchStep
<1>4. CASE Answer
  BY <1>4, AnswerStep DEF Answer
<1>5. CASE Turn
  BY <1>5, TurnStep
<1>6. ASSUME NEW t \in Tasks,
             Progress(t) \/ Transfer(t) \/ Check(t) \/ Completed(t) \/ Cancelled(t)
      PROVE  IInv'
  BY <1>6, ProgressStep, EndSteps, MoveSteps, CheckFailsStep, CheckSucceedsStep
  DEF Transfer, Check
<1>7. CASE UNCHANGED vars
  <2>1. TypeOK'
    BY <1>7 DEF IInv, TypeOK, vars, disk
  <2> QED
    BY <1>7, <2>1, NothingMoved DEF vars, disk, IInv
<1> QED
  BY <1>1, <1>2, <1>3, <1>4, <1>5, <1>6, <1>7 DEF Next

\* The invariant holds in every reachable state.
LEMMA Invariance == Spec => []IInv
BY InitIInv, StepIInv, PTL DEF Spec

\* Downloads keep the types of ModelDownloadManager's and the session's state; the
\* queue carries no state job without an item and a state.
THEOREM DownloadTypes == Spec => []TypeOK
<1>1. IInv => TypeOK
  BY DEF IInv
<1> QED
  BY <1>1, Invariance, PTL

\* For any catalog, any number of downloads and any number of relaunches, a file
\* that fails the check of didFinishDownloadingTo stays in the models directory
\* only if the process died between the move and the check.
THEOREM BadFilesDoNotStay == Spec => []BadFilesAreRemoved
<1>1. IInv => BadFilesAreRemoved
  BY DEF IInv
<1> QED
  BY <1>1, Invariance, PTL

-----------------------------------------------------------------------------
(* The last job for a row. *)

IsFor(j, i)   == j.op = "state" /\ j.item = i
JobsFor(q, i) == {n \in DOMAIN q : IsFor(q[n], i)}

\* What the row of i shows, from s, once the jobs of q are done.
Outcome(q, i, s) ==
  IF JobsFor(q, i) = {} THEN s
  ELSE q[CHOOSE n \in JobsFor(q, i) : \A m \in JobsFor(q, i) : m <= n].state

\* LastState, for any queue.
LEMMA LastStateIsOutcome ==
  \A i \in Items : /\ LastState(i) = Outcome(mainQ, i, state[i])
                   /\ LastState(i)' = Outcome(mainQ', i, state'[i])
BY DEF LastState, Outcome, JobsFor, IsFor

\* A non-empty set of numbers up to b has a greatest element: the set of its upper
\* bounds has a least one.
LEMMA Greatest ==
  ASSUME NEW S \in SUBSET Nat, S # {}, NEW b \in Nat, \A n \in S : n <= b
  PROVE  \E n \in S : \A m \in S : m <= n
<1> DEFINE Bounds == {k \in Nat : \A m \in S : m <= k}
           Below  == {0..k : k \in Bounds}
<1>1. Below \subseteq FiniteSubsetsOf(Nat) /\ Below # {}
  <2>1. \A k \in Bounds : 0..k \in SUBSET Nat /\ IsFiniteSet(0..k)
    BY FS_Interval
  <2>2. b \in Bounds
    OBVIOUS
  <2> QED
    BY <2>1, <2>2 DEF FiniteSubsetsOf
<1>2. \E x \in Below : \A y \in Below : <<y, x>> \notin StrictSubsetOrdering(Nat)
  <2> HIDE DEF Below
  <2> QED
    BY <1>1, FS_StrictSubsetOrderingWellFounded, WFMin
<1>3. PICK n \in Bounds : \A k \in Bounds : <<0..k, 0..n>> \notin StrictSubsetOrdering(Nat)
  BY <1>2
<1>4. n \in S
  <2> SUFFICES ASSUME n \notin S PROVE FALSE
    OBVIOUS
  <2>1. \A m \in S : m \in Nat /\ m < n
    BY <1>3
  <2>2. n - 1 \in Bounds
    <3>1. PICK m \in S : TRUE
      OBVIOUS
    <3>2. n \in Nat /\ m \in Nat /\ m < n
      BY <1>3, <2>1
    <3> QED
      BY <2>1, <3>2
  <2>3. 0..(n - 1) \in SUBSET Nat /\ 0..n \in SUBSET Nat /\ 0..(n - 1) \subseteq 0..n
    BY <1>3, <2>2
  <2>4. n \in 0..n /\ n \notin 0..(n - 1)
    BY <1>3
  <2>5. <<0..(n - 1), 0..n>> \in StrictSubsetOrdering(Nat)
    BY <2>3, <2>4 DEF StrictSubsetOrdering
  <2> QED
    BY <1>3, <2>2, <2>5
<1> QED
  BY <1>3, <1>4

\* The job that counts is the one with no other for the row after it, and there is one.
LEMMA OutcomeOf ==
  ASSUME NEW q \in Seq(Jobs), NEW i, NEW s
  PROVE  /\ JobsFor(q, i) = {} => Outcome(q, i, s) = s
         /\ \A n \in JobsFor(q, i) :
              (\A m \in JobsFor(q, i) : m <= n) => Outcome(q, i, s) = q[n].state
         /\ JobsFor(q, i) # {} =>
              \E n \in JobsFor(q, i) : \A m \in JobsFor(q, i) : m <= n
<1>1. DOMAIN q = 1..Len(q) /\ Len(q) \in Nat
  BY LenProperties
<1>2. JobsFor(q, i) \in SUBSET Nat /\ \A n \in JobsFor(q, i) : n <= Len(q)
  BY <1>1 DEF JobsFor
<1>3. JobsFor(q, i) # {} => \E n \in JobsFor(q, i) : \A m \in JobsFor(q, i) : m <= n
  BY <1>1, <1>2, Greatest
<1>4. ASSUME NEW n \in JobsFor(q, i), \A m \in JobsFor(q, i) : m <= n
      PROVE  Outcome(q, i, s) = q[n].state
  <2> DEFINE last == CHOOSE k \in JobsFor(q, i) : \A m \in JobsFor(q, i) : m <= k
  <2>1. last \in JobsFor(q, i) /\ \A m \in JobsFor(q, i) : m <= last
    BY <1>4
  <2>2. last = n
    BY <1>2, <1>4, <2>1
  <2> QED
    BY <1>4, <2>2 DEF Outcome
<1> QED
  BY <1>3, <1>4 DEF Outcome

\* A job put in at the end decides for its row, and for no other.
LEMMA OutcomeAppend ==
  ASSUME NEW q \in Seq(Jobs), NEW j \in Jobs, NEW i, NEW s
  PROVE  Outcome(Append(q, j), i, s) = IF IsFor(j, i) THEN j.state ELSE Outcome(q, i, s)
<1> DEFINE r == Append(q, j)
<1>1. /\ r \in Seq(Jobs) /\ Len(r) = Len(q) + 1
      /\ \A n \in 1..Len(q) : r[n] = q[n]
      /\ r[Len(q) + 1] = j
  BY AppendProperties
<1>2. DOMAIN q = 1..Len(q) /\ Len(q) \in Nat /\ DOMAIN r = 1..(Len(q) + 1)
  BY <1>1, LenProperties
<1> HIDE DEF r
<1>3. CASE IsFor(j, i)
  <2>1. Len(q) + 1 \in JobsFor(r, i) /\ \A m \in JobsFor(r, i) : m <= Len(q) + 1
    BY <1>1, <1>2, <1>3 DEF JobsFor
  <2>2. Outcome(r, i, s) = r[Len(q) + 1].state
    BY <1>1, <2>1, OutcomeOf
  <2> QED
    BY <1>1, <1>3, <2>2 DEF r
<1>4. CASE ~IsFor(j, i)
  <2>1. JobsFor(r, i) = JobsFor(q, i)
    BY <1>1, <1>2, <1>4 DEF JobsFor
  <2>2. CASE JobsFor(q, i) = {}
    BY <1>4, <2>1, <2>2 DEF Outcome, r
  <2>3. CASE JobsFor(q, i) # {}
    <3>1. PICK n \in JobsFor(q, i) : \A m \in JobsFor(q, i) : m <= n
      BY <2>3, OutcomeOf
    <3>2. Outcome(q, i, s) = q[n].state /\ Outcome(r, i, s) = r[n].state
      BY <1>1, <2>1, <3>1, OutcomeOf
    <3>3. r[n] = q[n]
      BY <1>1, <1>2 DEF JobsFor
    <3> QED
      BY <1>4, <3>2, <3>3 DEF r
  <2> QED
    BY <2>2, <2>3
<1> QED
  BY <1>3, <1>4

\* Doing the first job changes no outcome.
LEMMA OutcomeTail ==
  ASSUME NEW q \in Seq(Jobs), q # <<>>, NEW i, NEW s
  PROVE  Outcome(q, i, s) =
           Outcome(Tail(q), i, IF IsFor(Head(q), i) THEN Head(q).state ELSE s)
<1> DEFINE r == Tail(q)
           t == IF IsFor(Head(q), i) THEN Head(q).state ELSE s
<1>1. /\ r \in Seq(Jobs) /\ Len(r) = Len(q) - 1
      /\ \A n \in 1..Len(r) : r[n] = q[n + 1]
      /\ Head(q) = q[1]
  BY HeadTailProperties
<1>2. DOMAIN q = 1..Len(q) /\ Len(q) \in Nat \ {0} /\ DOMAIN r = 1..(Len(q) - 1)
  BY <1>1, LenProperties, EmptySeq
<1> HIDE DEF r
<1>3. \A n \in 1..(Len(q) - 1) : n \in JobsFor(r, i) <=> n + 1 \in JobsFor(q, i)
  BY <1>1, <1>2 DEF JobsFor
<1>4. 1 \in JobsFor(q, i) <=> IsFor(Head(q), i)
  BY <1>1, <1>2 DEF JobsFor
<1>5. \A n \in JobsFor(q, i) : n # 1 => n - 1 \in JobsFor(r, i) /\ n = (n - 1) + 1
  BY <1>2, <1>3 DEF JobsFor
<1>6. JobsFor(r, i) \subseteq 1..(Len(q) - 1) /\ JobsFor(q, i) \subseteq 1..Len(q)
  BY <1>2 DEF JobsFor
<1>7. CASE JobsFor(r, i) = {}
  <2>1. Outcome(r, i, t) = t
    BY <1>7 DEF Outcome
  <2>2. CASE IsFor(Head(q), i)
    <3>1. 1 \in JobsFor(q, i) /\ \A m \in JobsFor(q, i) : m <= 1
      BY <1>4, <1>5, <1>7, <2>2
    <3>2. Outcome(q, i, s) = q[1].state
      BY <3>1, OutcomeOf
    <3> QED
      BY <1>1, <2>1, <2>2, <3>2 DEF r
  <2>3. CASE ~IsFor(Head(q), i)
    <3>1. JobsFor(q, i) = {}
      BY <1>4, <1>5, <1>7, <2>3
    <3> QED
      BY <2>1, <2>3, <3>1 DEF Outcome, r
  <2> QED
    BY <2>2, <2>3
<1>8. CASE JobsFor(r, i) # {}
  <2>1. PICK n \in JobsFor(r, i) : \A m \in JobsFor(r, i) : m <= n
    BY <1>1, <1>8, OutcomeOf
  <2>2. n + 1 \in JobsFor(q, i) /\ \A m \in JobsFor(q, i) : m <= n + 1
    BY <1>3, <1>5, <1>6, <2>1
  <2>3. Outcome(q, i, s) = q[n + 1].state /\ Outcome(r, i, t) = r[n].state
    BY <1>1, <2>1, <2>2, OutcomeOf
  <2> QED
    BY <1>1, <1>2, <1>6, <2>3 DEF r
<1> QED
  BY <1>7, <1>8

-----------------------------------------------------------------------------
(* What a row will say last is true. *)

\* The file of i that comes last is there.
There(i) == Present(IF i \in TwoFile THEN Auxiliary(i) ELSE Primary(i))

\* CompletedIsThere looks at rows at rest, which is not inductive: a job that says
\* completed may wait while the file is removed or replaced.  Every step that touches
\* a file of i queues another state for i behind it, so that whatever is queued, the
\* last word on i is true.
LastIsThere == \A i \in Items : LastState(i) = "completed" => There(i)

\* A step that queues a state of k as the last one, true if it is completed, and
\* touches files of k only, keeps it.
LEMMA LastWord ==
  ASSUME TypeOK, LastIsThere, NEW k \in Items, NEW s \in States,
         \/ mainQ' = Append(mainQ, SetState(k, s))
         \/ \E r \in States : mainQ' = mainQ \o <<SetState(k, r), SetState(k, s)>>,
         state' = state, s = "completed" => There(k)',
         \A f \in Files \ FilesOf(k) : file'[f] = file[f]
  PROVE  LastIsThere'
<1> SUFFICES ASSUME NEW i \in Items, LastState(i)' = "completed" PROVE There(i)'
  BY DEF LastIsThere
<1>1. mainQ \in Seq(Jobs) /\ \A r \in States : SetState(k, r) \in Jobs
  BY QueueTypes, SetStateType
<1>2. \A r \in States : /\ IsFor(SetState(k, r), i) <=> i = k
                        /\ SetState(k, r).state = r
  BY DEF IsFor, SetState, Job
<1>3. LastState(i)' = IF i = k THEN s ELSE LastState(i)
  <2>1. CASE mainQ' = Append(mainQ, SetState(k, s))
    <3>1. Outcome(mainQ', i, state[i]) =
            IF IsFor(SetState(k, s), i) THEN SetState(k, s).state
            ELSE Outcome(mainQ, i, state[i])
      BY <1>1, <2>1, OutcomeAppend
    <3> QED
      BY <1>2, <3>1, LastStateIsOutcome
  <2>2. CASE \E r \in States : mainQ' = mainQ \o <<SetState(k, r), SetState(k, s)>>
    <3>1. PICK r \in States : mainQ' = mainQ \o <<SetState(k, r), SetState(k, s)>>
      BY <2>2
    <3> DEFINE q == Append(mainQ, SetState(k, r))
    <3>2. q \in Seq(Jobs) /\ mainQ' = Append(q, SetState(k, s))
      <4>1. \A j, l \in Jobs : mainQ \o <<j, l>> = Append(Append(mainQ, j), l)
        <5> HIDE DEF Jobs
        <5> QED
          BY <1>1
      <4> QED
        BY <1>1, <3>1, <4>1, QueueTypes
    <3>3. Outcome(q, i, state[i]) =
            IF IsFor(SetState(k, r), i) THEN SetState(k, r).state
            ELSE Outcome(mainQ, i, state[i])
      BY <1>1, OutcomeAppend
    <3> HIDE DEF q
    <3>4. Outcome(mainQ', i, state[i]) =
            IF IsFor(SetState(k, s), i) THEN SetState(k, s).state
            ELSE Outcome(q, i, state[i])
      BY <1>1, <3>2, OutcomeAppend
    <3> QED
      BY <1>2, <3>3, <3>4, LastStateIsOutcome
  <2> QED
    BY <2>1, <2>2
<1>4. CASE i = k
  BY <1>3, <1>4
<1>5. CASE i # k
  <2>1. There(i)
    BY <1>3, <1>5 DEF LastIsThere
  <2>2. /\ Primary(i) \in Files \ FilesOf(k)
        /\ i \in TwoFile => Auxiliary(i) \in Files \ FilesOf(k)
    BY <1>5, FilesAndItems DEF FilesOf, Primary, Auxiliary
  <2> QED
    BY <2>1, <2>2 DEF There, Present
<1> QED
  BY <1>4, <1>5

\* So does one that leaves the rows' last words and the files alone,
LEMMA NothingSaid ==
  ASSUME LastIsThere, UNCHANGED <<file, mainQ, state>>
  PROVE  LastIsThere'
BY DEF LastIsThere, LastState, There, Present

\* and the request for the pending tasks, which is for no row yet.
LEMMA RestoreSays ==
  ASSUME TypeOK, LastIsThere, UNCHANGED <<file, state>>, NEW ts \in SUBSET Tasks,
         mainQ' = Append(mainQ, Job("restore", None, None, ts))
  PROVE  LastIsThere'
<1> DEFINE j == Job("restore", None, None, ts)
<1>1. mainQ \in Seq(Jobs) /\ j \in Jobs
  BY QueueTypes DEF Job, Jobs
<1>2. \A i \in Items : ~IsFor(j, i)
  BY DEF IsFor, Job
<1> HIDE DEF j
<1>3. \A i \in Items : Outcome(Append(mainQ, j), i, state[i]) = Outcome(mainQ, i, state[i])
  BY <1>1, <1>2, OutcomeAppend
<1>4. \A i \in Items : LastState(i)' = LastState(i)
  BY <1>3, LastStateIsOutcome DEF j
<1> QED
  BY <1>4 DEF LastIsThere, There, Present

\* A turn does what the first job says, or shows pending downloads as under way.
LEMMA TurnSays ==
  ASSUME TypeOK, LastIsThere, Turn
  PROVE  LastIsThere'
<1>1. /\ mainQ \in Seq(Jobs) /\ mainQ # <<>>
      /\ Head(mainQ) \in Jobs /\ Tail(mainQ) \in Seq(Jobs)
  BY QueueTypes DEF Turn
<1>2. mainQ' = Tail(mainQ) /\ UNCHANGED file
  BY DEF Turn, disk
<1>3. \A i \in Items : LastState(i)' \in {LastState(i), "underway"}
  <2> SUFFICES ASSUME NEW i \in Items PROVE LastState(i)' \in {LastState(i), "underway"}
    OBVIOUS
  <2> DEFINE t == IF IsFor(Head(mainQ), i) THEN Head(mainQ).state ELSE state[i]
  <2>1. LastState(i) = Outcome(Tail(mainQ), i, t)
    BY <1>1, OutcomeTail, LastStateIsOutcome
  <2>2. LastState(i)' = Outcome(Tail(mainQ), i, state'[i])
    BY <1>2, LastStateIsOutcome
  <2>3. state'[i] \in {t, "underway"}
    <3>1. CASE Head(mainQ).op = "state"
      <4>1. state' = [state EXCEPT ![Head(mainQ).item] = Head(mainQ).state]
        BY <3>1 DEF Turn
      <4>2. Head(mainQ).item \in Items
        BY <1>1, <3>1 DEF Jobs
      <4> QED
        BY <3>1, <4>1, <4>2 DEF TypeOK, IsFor
    <3>2. CASE Head(mainQ).op # "state"
      <4> DEFINE pending == {tasks[u].file[1] :
                    u \in Head(mainQ).tasks \cap TasksIn({"running", "moved", "finished"})}
      <4>1. state' = [k \in Items |-> IF k \in pending THEN "underway" ELSE state[k]]
        BY <3>2 DEF Turn
      <4> HIDE DEF pending
      <4> QED
        BY <3>2, <4>1 DEF IsFor
    <3> QED
      BY <3>1, <3>2
  <2> HIDE DEF t
  <2>4. CASE JobsFor(Tail(mainQ), i) = {}
    BY <2>1, <2>2, <2>3, <2>4 DEF Outcome
  <2>5. CASE JobsFor(Tail(mainQ), i) # {}
    BY <2>1, <2>2, <2>5 DEF Outcome
  <2> QED
    BY <2>4, <2>5
<1>4. \A i \in Items : There(i) => There(i)'
  BY <1>2 DEF There, Present
<1> QED
  BY <1>3, <1>4 DEF LastIsThere

\* The last word stays true over every step: a state is queued as completed only when
\* the files are there (startDownload) or the one that was to come last has passed its
\* check.
LEMMA StepLastIsThere == IInv /\ LastIsThere /\ [Next]_vars => LastIsThere'
<1> SUFFICES ASSUME IInv, LastIsThere, [Next]_vars PROVE LastIsThere'
  OBVIOUS
<1>1. TypeOK /\ LiveHasFile
  BY DEF IInv
<1>2. {"notStarted", "underway", "paused", "failed", "completed"} \subseteq States
  BY DEF States
<1>3. ASSUME NEW i \in Items, StartDownload(i) PROVE LastIsThere'
  <2>1. UNCHANGED <<file, state>>
    BY <1>3 DEF StartDownload, disk
  <2>2. CASE Installed(i)
    <3>1. mainQ' = mainQ \o <<SetState(i, "underway"), SetState(i, "completed")>>
      BY <1>3, <2>2 DEF StartDownload
    <3>2. There(i)'
      BY <2>1, <2>2 DEF Installed, There, Present, FilesOf, Primary, Auxiliary
    <3> QED
      BY <1>1, <1>2, <2>1, <3>1, <3>2, LastWord
  <2>3. CASE ~Installed(i)
    <3>1. mainQ' = Append(mainQ, SetState(i, "underway"))
      BY <1>3, <2>3 DEF StartDownload
    <3> QED
      BY <1>1, <1>2, <2>1, <3>1, LastWord
  <2> QED
    BY <2>2, <2>3
<1>4. ASSUME NEW i \in Items, DeleteDownloaded(i) PROVE LastIsThere'
  <2>1. /\ mainQ' = Append(mainQ, SetState(i, "notStarted")) /\ state' = state
        /\ \A f \in Files \ FilesOf(i) : file'[f] = file[f]
    BY <1>4 DEF DeleteDownloaded
  <2> QED
    BY <1>1, <1>2, <2>1, LastWord
<1>5. CASE Relaunch
  <2>1. mainQ' = <<>> /\ state' = [i \in Items |-> "notStarted"]
    BY <1>5 DEF Relaunch
  <2>2. \A i \in Items : LastState(i)' = "notStarted"
    <3>1. \A i \in Items : Outcome(mainQ', i, state'[i]) = "notStarted"
      BY <2>1 DEF Outcome, JobsFor
    <3> QED
      BY <3>1, LastStateIsOutcome
  <2> QED
    BY <2>2 DEF LastIsThere
<1>6. ASSUME NEW r \in requests, RestoreTasks(r) PROVE LastIsThere'
  <2>1. /\ UNCHANGED <<file, state>> /\ TasksIn(Live) \in SUBSET Tasks
        /\ mainQ' = Append(mainQ, Job("restore", None, None, TasksIn(Live)))
    BY <1>6 DEF RestoreTasks, disk, TasksIn
  <2> QED
    BY <1>1, <2>1, RestoreSays
<1>7. CASE Turn
  BY <1>1, <1>7, TurnSays
<1>8. ASSUME NEW t \in Tasks, tasks[t].phase \in Live
      PROVE  /\ tasks[t].file \in Files /\ tasks[t].file[1] \in Items
             /\ tasks[t].file \in FilesOf(tasks[t].file[1])
  <2>1. tasks[t].file \in Files
    BY <1>1, <1>8 DEF LiveHasFile
  <2> QED
    BY <2>1, FilesAndItems DEF Files, FilesOf
<1>9. ASSUME NEW t \in Tasks, Progress(t) \/ Fail(t) \/ Cancelled(t) PROVE LastIsThere'
  <2>1. tasks[t].phase \in Live
    BY <1>9 DEF Progress, Fail, Cancelled, Live
  <2>2. PICK s \in States \ {"completed"} :
          mainQ' = Append(mainQ, SetState(tasks[t].file[1], s))
    BY <1>9 DEF Progress, Fail, Cancelled, States
  <2>3. UNCHANGED <<file, state>>
    BY <1>9 DEF Progress, Fail, Cancelled, disk
  <2> QED
    BY <1>1, <1>8, <2>1, <2>2, <2>3, LastWord
<1>10. ASSUME NEW t \in Tasks,
              Rejected(t) \/ NotMoved(t) \/ Move(t) \/ CheckFails(t)
       PROVE  LastIsThere'
  <2> DEFINE i == tasks[t].file[1]
  <2>1. tasks[t].phase \in Live
    BY <1>10 DEF Rejected, NotMoved, Move, CheckFails, Transferred, Live
  <2>2. i \in Items /\ tasks[t].file \in FilesOf(i)
    BY <1>8, <2>1
  <2>3. \E s \in States \ {"completed"} :
          \/ mainQ' = Append(mainQ, SetState(i, s))
          \/ \E r \in States : mainQ' = mainQ \o <<SetState(i, r), SetState(i, s)>>
    <3>1. CASE Move(t)
      BY <3>1 DEF Move, States
    <3>2. CASE CheckFails(t)
      BY <3>2 DEF CheckFails, States
    <3>3. CASE Rejected(t) \/ NotMoved(t)
      BY <3>3 DEF Rejected, NotMoved, GivenUp, States
    <3> QED
      BY <1>10, <3>1, <3>2, <3>3
  <2>4. state' = state
    BY <1>10 DEF Rejected, NotMoved, Move, CheckFails
  <2>5. \A f \in Files \ FilesOf(i) : file'[f] = file[f]
    <3>1. \A f \in Files \ {tasks[t].file} : file'[f] = file[f]
      BY <1>1, <1>10 DEF TypeOK, Rejected, NotMoved, Move, CheckFails
    <3> QED
      BY <2>2, <3>1
  <2> HIDE DEF i
  <2>6. PICK s \in States \ {"completed"} :
          \/ mainQ' = Append(mainQ, SetState(i, s))
          \/ \E r \in States : mainQ' = mainQ \o <<SetState(i, r), SetState(i, s)>>
    BY <2>3
  <2> QED
    BY <1>1, <2>2, <2>4, <2>5, <2>6, LastWord
<1>11. ASSUME NEW t \in Tasks, CheckSucceeds(t) PROVE LastIsThere'
  <2> DEFINE f == tasks[t].file
  <2>1. tasks[t].phase \in Live
    BY <1>11 DEF CheckSucceeds, Live
  <2>2. PICK i \in Items : i = f[1] /\ f \in FilesOf(i)
    BY <1>8, <2>1
  <2>3. UNCHANGED <<file, state>> /\ file[f] = "good"
    BY <1>11 DEF CheckSucceeds
  <2>4. CASE f = Primary(i) /\ i \in TwoFile /\ ~Present(Auxiliary(i))
    <3>1. mainQ' = Append(mainQ, SetState(i, "underway"))
      BY <1>11, <2>2, <2>4 DEF CheckSucceeds
    <3> QED
      BY <1>1, <1>2, <2>2, <2>3, <3>1, LastWord
  <2>5. CASE ~(f = Primary(i) /\ i \in TwoFile /\ ~Present(Auxiliary(i)))
    <3>1. mainQ' = Append(mainQ, SetState(i, "completed"))
      BY <1>11, <2>2, <2>5 DEF CheckSucceeds
    <3>2. There(i)
      BY <2>2, <2>3, <2>5 DEF FilesOf, There, Present, Primary, Auxiliary
    <3>3. There(i)'
      BY <2>3, <3>2 DEF There, Present
    <3> QED
      BY <1>1, <1>2, <2>2, <2>3, <3>1, <3>3, LastWord
  <2> QED
    BY <2>4, <2>5
<1>12. CASE UNCHANGED <<file, mainQ, state>>
  BY <1>12, NothingSaid
<1>13. ASSUME NEW i \in Items, CancelDownload(i) PROVE LastIsThere'
  BY <1>13, <1>12 DEF CancelDownload, disk
<1>14. CASE Activate
  BY <1>14, <1>12 DEF Activate, disk
<1>15. ASSUME NEW r \in requests, CancelTasks(r) PROVE LastIsThere'
  BY <1>15, <1>12 DEF CancelTasks, disk
<1>16. ASSUME NEW t \in Tasks, Completed(t) PROVE LastIsThere'
  BY <1>16, <1>12 DEF Completed, disk
<1>17. CASE UNCHANGED vars
  BY <1>17, <1>12 DEF vars, disk
<1>18. CASE Answer
  BY <1>6, <1>15, <1>18 DEF Answer
<1>19. ASSUME NEW t \in Tasks,
              Progress(t) \/ Transfer(t) \/ Check(t) \/ Completed(t) \/ Cancelled(t)
       PROVE  LastIsThere'
  BY <1>9, <1>10, <1>11, <1>16, <1>19 DEF Transfer, Check
<1> QED
  BY <1>3, <1>4, <1>5, <1>7, <1>13, <1>14, <1>17, <1>18, <1>19 DEF Next

\* For any catalog, any number of downloads and any number of relaunches, a row that
\* says completed with nothing on its way that will change it has the file that was to
\* come last, however downloads, cancels, deletions and relaunches follow each other.
THEOREM AlwaysCompletedIsThere == Spec => []CompletedIsThere
<1>1. Init => LastIsThere
  <2>1. Init => \A i \in Items : LastState(i) = "notStarted"
    BY LastStateIsOutcome DEF Init, Outcome, JobsFor
  <2> QED
    BY <2>1 DEF LastIsThere
<1>2. LastIsThere => CompletedIsThere
  BY DEF LastIsThere, CompletedIsThere, There
<1> QED
  BY <1>1, <1>2, Invariance, StepLastIsThere, PTL DEF Spec
=============================================================================
