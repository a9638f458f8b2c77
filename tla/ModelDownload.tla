---------------------------- MODULE ModelDownload ----------------------------
(* Downloads of models: ModelDownloadManager with the files of ModelStorage.  *)
(* The transfers belong to a background URLSession and survive the process.   *)
(* The session calls the delegate, and answers getAllTasks and cancel, on one *)
(* serial queue (external).  The delegate and the view model's states meet    *)
(* only through jobs for the main actor, which are served in order.           *)
EXTENDS Naturals, Sequences, FiniteSets

CONSTANTS Items,      \* models of the catalog
          TwoFile,    \* those with an auxiliary file
          Hashed,     \* files whose SHA-256 the catalog gives
          None,
          MaxStarts,  \* bound: downloads started
          MaxQueue,   \* bound: jobs waiting when a user event comes
          MaxKills    \* bound: deaths of the process

FilesOf(i) == {<<i, "primary">>} \cup (IF i \in TwoFile THEN {<<i, "auxiliary">>} ELSE {})
Files == UNION {FilesOf(i) : i \in Items}
Primary(i) == <<i, "primary">>
Auxiliary(i) == <<i, "auxiliary">>
Tasks == 1..(2 * MaxStarts)

ASSUME ItemsAssumption == TwoFile \subseteq Items /\ Hashed \subseteq Files /\ None \notin Items
ASSUME BoundsAssumption == MaxStarts \in Nat \ {0} /\ MaxKills \in Nat

VARIABLES
  file,      \* what is in the models directory; a file that is not GGUF counts
             \* as absent everywhere, one with a wrong digest is "bad"
  resume,    \* files with stored resume data
  tasks,     \* the session's tasks, in the order of their creation
  requests,  \* getAllTasks calls not answered yet; a cancel with the tasks of
             \* that moment
  mainQ,     \* jobs for the main actor
  state,     \* ModelDownloadsViewModel.states
  starts, kills,
  restored,  \* history: items whose state was last set by restorePendingTasks
  torn       \* history: files whose check was cut short by the process's death

disk    == <<file, resume>>
vars == <<disk, tasks, requests, mainQ, state, starts, kills, restored, torn>>

\* A row that is queued or downloading is under way: both offer only Cancel.
States == {"notStarted", "underway", "paused", "failed", "completed"}
Live   == {"running", "moved", "finished", "cancelling"}
NoTask == [phase |-> "unused", file |-> None, resumed |-> FALSE]

Request(op, i, ts) == [op |-> op, item |-> i, tasks |-> ts]
Job(op, i, s, ts) == [op |-> op, item |-> i, state |-> s, tasks |-> ts]
SetState(i, s) == Job("state", i, s, {})

TypeOK ==
  /\ file \in [Files -> {"absent", "good", "bad"}]
  /\ resume \in SUBSET Files
  /\ tasks \in [Tasks -> [phase : Live \cup {"unused", "done"},
                          file : Files \cup {None}, resumed : BOOLEAN]]
  /\ requests \subseteq [op : {"cancel", "restore"}, item : Items \cup {None},
                         tasks : SUBSET Tasks]
  /\ mainQ \in Seq([op : {"state"}, item : Items, state : States, tasks : {{}}] \cup
                   [op : {"restore"}, item : {None}, state : {None},
                    tasks : SUBSET Tasks])
  /\ state \in [Items -> States]
  /\ starts \in 0..MaxStarts /\ kills \in 0..MaxKills
  /\ restored \in SUBSET Items
  /\ torn \in SUBSET Files

Present(f) == file[f] # "absent"
Installed(i) == \A f \in FilesOf(i) : Present(f)

TasksIn(phases) == {t \in Tasks : tasks[t].phase \in phases}
TaskOf(i) == {t \in TasksIn(Live) : tasks[t].file[1] = i}

\* The delegate's queue is free: no didFinishDownloadingTo is under way.
DelegateFree == TasksIn({"moved"}) = {}

-----------------------------------------------------------------------------
(* The user, in SettingsView and OnboardingView. *)

\* A new task takes the stored resume data of its file, which stay stored.
Enqueue(f, others) ==
  \E t \in TasksIn({"unused"}) :
    /\ \A u \in TasksIn({"unused"}) : t <= u
    /\ tasks' = [others EXCEPT ![t] = [phase |-> "running", file |-> f,
                                       resumed |-> f \in resume]]

\* The rows offer Get, Resume or Retry.
Offered(i) == \/ state[i] \in {"paused", "failed"}
              \/ state[i] \in {"notStarted", "completed"} /\ ~Installed(i)

StartDownload(i) ==
  /\ Len(mainQ) < MaxQueue
  /\ starts < MaxStarts /\ Offered(i)
  /\ starts' = starts + 1
  /\ IF Installed(i)
     THEN /\ mainQ' = mainQ \o <<SetState(i, "underway"), SetState(i, "completed")>>
          /\ UNCHANGED tasks
     ELSE /\ mainQ' = Append(mainQ, SetState(i, "underway"))
          /\ Enqueue(IF Present(Primary(i)) THEN Auxiliary(i) ELSE Primary(i), tasks)
  /\ UNCHANGED <<disk, requests, state, kills, restored, torn>>

\* Bound: one cancel of an item at a time.
CancelDownload(i) ==
  /\ Len(mainQ) < MaxQueue
  /\ state[i] = "underway"
  /\ \A r \in requests : r.item # i
  /\ requests' = requests \cup {Request("cancel", i, TasksIn(Live))}
  /\ UNCHANGED <<disk, tasks, mainQ, state, starts, kills, restored, torn>>

DeleteDownloaded(i) ==
  /\ Len(mainQ) < MaxQueue
  /\ Installed(i) /\ state[i] \in {"notStarted", "completed"}
  /\ file' = [f \in Files |-> IF f \in FilesOf(i) THEN "absent" ELSE file[f]]
  /\ resume' = resume \ FilesOf(i)
  /\ torn' = torn \ FilesOf(i)
  /\ mainQ' = Append(mainQ, SetState(i, "notStarted"))
  /\ UNCHANGED <<tasks, requests, state, starts, kills, restored>>

\* handleSceneDidBecomeActive asks for the pending tasks again.  Bound: one such
\* request at a time.
Activate ==
  /\ Len(mainQ) < MaxQueue
  /\ \A r \in requests : r.op # "restore"
  /\ \A n \in DOMAIN mainQ : mainQ[n].op # "restore"
  /\ requests' = requests \cup {Request("restore", None, {})}
  /\ UNCHANGED <<disk, tasks, mainQ, state, starts, kills, restored, torn>>

\* The process dies and is launched again.  The transfers go on; jobs, callbacks
\* under way and the states shown are lost.
Relaunch ==
  /\ kills < MaxKills
  /\ kills' = kills + 1
  /\ tasks' = [t \in Tasks |->
       IF tasks[t].phase \in {"moved", "finished", "cancelling"}
       THEN [phase |-> "done", file |-> tasks[t].file, resumed |-> tasks[t].resumed]
       ELSE tasks[t]]
  /\ torn' = torn \cup {tasks[t].file : t \in TasksIn({"moved"})}
  /\ requests' = {Request("restore", None, {})}
  /\ mainQ' = <<>>
  /\ state' = [i \in Items |-> "notStarted"]
  /\ restored' = {}
  /\ UNCHANGED <<disk, starts>>

-----------------------------------------------------------------------------
(* Handlers of getAllTasks and cancel. *)

Answered(r) == requests' = requests \ {r}

\* The list is that of the call or of the answer, so that a task created between
\* the two may be missed.  Tasks that have ended are not affected by a cancel.
CancelTasks(r) ==
  /\ DelegateFree /\ r.op = "cancel" /\ Answered(r)
  /\ \E list \in {r.tasks, TasksIn(Live)} :
       tasks' = [t \in Tasks |->
         IF t \in list \cap TaskOf(r.item) /\ tasks[t].phase = "running"
         THEN [phase |-> "cancelling", file |-> tasks[t].file, resumed |-> tasks[t].resumed]
         ELSE tasks[t]]
  /\ UNCHANGED <<disk, mainQ, state, starts, kills, restored, torn>>

RestoreTasks(r) ==
  /\ DelegateFree /\ r.op = "restore" /\ Answered(r)
  /\ mainQ' = Append(mainQ, Job("restore", None, None, TasksIn(Live)))
  /\ UNCHANGED <<disk, tasks, state, starts, kills, restored, torn>>

\* Task t goes on to a phase; file is what its record names.
In(t, phase) == [tasks EXCEPT ![t].phase = phase]

Cancelled(t) ==
  LET f == tasks[t].file IN
  /\ DelegateFree /\ tasks[t].phase = "cancelling"
  /\ tasks' = In(t, "done")
  /\ \/ /\ resume' = resume \cup {f}
        /\ mainQ' = Append(mainQ, SetState(f[1], "paused"))
     \/ /\ resume' = resume \ {f}
        /\ mainQ' = Append(mainQ, SetState(f[1], "notStarted"))
  /\ UNCHANGED <<file, requests, state, starts, kills, restored, torn>>

-----------------------------------------------------------------------------
(* The URLSessionDownloadDelegate. *)

\* What the row of item i shows once all jobs for it are done.
LastState(i) ==
  LET jobs == {n \in DOMAIN mainQ : mainQ[n].op = "state" /\ mainQ[n].item = i}
  IN IF jobs = {} THEN state[i]
     ELSE mainQ[CHOOSE n \in jobs : \A m \in jobs : m <= n].state

\* didWriteData; a repetition of the same state is left out.
Progress(t) ==
  LET i == tasks[t].file[1] IN
  /\ DelegateFree /\ tasks[t].phase = "running"
  /\ Len(mainQ) < MaxQueue
  /\ LastState(i) # "underway"
  /\ mainQ' = Append(mainQ, SetState(i, "underway"))
  /\ UNCHANGED <<disk, tasks, requests, state, starts, kills, restored, torn>>

\* Mistake to catch: only didFinishDownloadingTo tells the row.
FailSilently(t) ==
  /\ DelegateFree /\ tasks[t].phase = "running"
  /\ tasks' = In(t, "done")
  /\ UNCHANGED <<disk, requests, mainQ, state, starts, kills, restored, torn>>

\* didCompleteWithError.
Fail(t) ==
  /\ DelegateFree /\ tasks[t].phase = "running"
  /\ tasks' = In(t, "done")
  /\ mainQ' = Append(mainQ, SetState(tasks[t].file[1], "failed"))
  /\ UNCHANGED <<disk, requests, state, starts, kills, restored, torn>>

Transferred(t) == DelegateFree /\ tasks[t].phase = "running"
GivenUp(t) == mainQ' = mainQ \o <<SetState(tasks[t].file[1], "underway"),
                                  SetState(tasks[t].file[1], "failed")>>

\* didFinishDownloadingTo with an HTTP error.
Rejected(t) ==
  /\ Transferred(t)
  /\ tasks' = In(t, "finished")
  /\ resume' = resume \ {tasks[t].file}
  /\ GivenUp(t)
  /\ UNCHANGED <<file, requests, state, starts, kills, restored, torn>>

\* The move may fail, after the file that is there was removed or before that.
NotMoved(t) ==
  /\ Transferred(t)
  /\ tasks' = In(t, "finished")
  /\ \/ /\ file' = [file EXCEPT ![tasks[t].file] = "absent"]
        /\ torn' = torn \ {tasks[t].file}
     \/ UNCHANGED <<file, torn>>
  /\ GivenUp(t)
  /\ UNCHANGED <<resume, requests, state, starts, kills, restored>>

\* The file is in its place before it is checked.
Move(t) ==
  LET f == tasks[t].file IN
  /\ Transferred(t)
  /\ tasks' = In(t, "moved")
  /\ \E content \in {"good", "absent"} \cup (IF f \in Hashed THEN {"bad"} ELSE {}) :
       file' = [file EXCEPT ![f] = content]
  /\ mainQ' = Append(mainQ, SetState(f[1], "underway"))
  /\ torn' = torn \ {f}
  /\ UNCHANGED <<resume, requests, state, starts, kills, restored>>

\* Mistake to catch: the file that failed its check is left in its place.
CheckFailsKeepingFile(t) ==
  LET f == tasks[t].file IN
  /\ tasks[t].phase = "moved" /\ file[f] # "good"
  /\ tasks' = In(t, "finished")
  /\ mainQ' = Append(mainQ, SetState(f[1], "failed"))
  /\ UNCHANGED <<disk, requests, state, starts, kills, restored, torn>>

\* The GGUF header and the digest are checked.
CheckFails(t) ==
  LET f == tasks[t].file IN
  /\ tasks[t].phase = "moved" /\ file[f] # "good"
  /\ tasks' = In(t, "finished")
  /\ file' = [file EXCEPT ![f] = "absent"]
  /\ mainQ' = Append(mainQ, SetState(f[1], "failed"))
  /\ UNCHANGED <<resume, requests, state, starts, kills, restored, torn>>

\* Mistake to catch: the auxiliary file is left for later.
CheckSucceedsAlone(t) ==
  LET f == tasks[t].file
      i == f[1] IN
  /\ tasks[t].phase = "moved" /\ file[f] = "good"
  /\ resume' = resume \ {f}
  /\ mainQ' = Append(mainQ, SetState(i, "completed"))
  /\ tasks' = In(t, "finished")
  /\ UNCHANGED <<file, requests, state, starts, kills, restored, torn>>

\* A primary file is followed by its auxiliary file.
CheckSucceeds(t) ==
  LET f == tasks[t].file
      i == f[1] IN
  /\ tasks[t].phase = "moved" /\ file[f] = "good"
  /\ resume' = resume \ {f}
  /\ IF f = Primary(i) /\ i \in TwoFile /\ ~Present(Auxiliary(i))
     THEN /\ mainQ' = Append(mainQ, SetState(i, "underway"))
          /\ Enqueue(Auxiliary(i), In(t, "finished"))
     ELSE /\ mainQ' = Append(mainQ, SetState(i, "completed"))
          /\ tasks' = In(t, "finished")
  /\ UNCHANGED <<file, requests, state, starts, kills, restored, torn>>

\* didCompleteWithError without an error: only now the task is not running.
Completed(t) ==
  /\ DelegateFree /\ tasks[t].phase = "finished"
  /\ tasks' = In(t, "done")
  /\ UNCHANGED <<disk, requests, mainQ, state, starts, kills, restored, torn>>

-----------------------------------------------------------------------------
(* Jobs of the main actor. *)

\* restorePendingTasks looks at the tasks' states in this turn, not before.
Turn ==
  /\ mainQ # <<>> /\ mainQ' = Tail(mainQ)
  /\ LET job == Head(mainQ)
         pending == {tasks[t].file[1] :
                       t \in job.tasks \cap TasksIn({"running", "moved", "finished"})}
     IN IF job.op = "state"
        THEN /\ state' = [state EXCEPT ![job.item] = job.state]
             /\ restored' = restored \ {job.item}
        ELSE /\ state' = [i \in Items |-> IF i \in pending THEN "underway" ELSE state[i]]
             /\ restored' = restored \cup pending
  /\ UNCHANGED <<disk, tasks, requests, starts, kills, torn>>

-----------------------------------------------------------------------------
Init ==
  /\ file = [f \in Files |-> "absent"]
  /\ resume = {}
  /\ tasks = [t \in Tasks |-> NoTask]
  /\ requests = {Request("restore", None, {})} /\ mainQ = <<>>
  /\ state = [i \in Items |-> "notStarted"]
  /\ starts = 0 /\ kills = 0
  /\ restored = {} /\ torn = {}

Answer == \E r \in requests : CancelTasks(r) \/ RestoreTasks(r)
Transfer(t) == Fail(t) \/ Rejected(t) \/ NotMoved(t) \/ Move(t)
Check(t) == CheckFails(t) \/ CheckSucceeds(t)

Next ==
  \/ \E i \in Items : StartDownload(i) \/ CancelDownload(i) \/ DeleteDownloaded(i)
  \/ Activate \/ Relaunch \/ Answer \/ Turn
  \/ \E t \in Tasks : \/ Progress(t) \/ Transfer(t) \/ Check(t)
                      \/ Completed(t) \/ Cancelled(t)

\* Every transfer ends, for want of anything else by timeoutIntervalForResource,
\* and both queues are served.
Fairness ==
  /\ WF_vars(Turn) /\ WF_vars(Answer)
  /\ \A t \in Tasks : /\ WF_vars(Transfer(t)) /\ WF_vars(Check(t))
                      /\ WF_vars(Completed(t)) /\ WF_vars(Cancelled(t))

Spec == Init /\ [][Next]_vars /\ Fairness

-----------------------------------------------------------------------------
(* Properties *)

\* No file stays in the models directory that failed its check, however
\* downloads of it are repeated, cancelled or deleted: didFinishDownloadingTo
\* moves first and checks afterwards, so only the death of the process between
\* the two can leave one behind.
BadFilesAreRemoved ==
  \A f \in Files : file[f] = "bad" /\ f \notin torn
                     => \E t \in TasksIn({"moved"}) : tasks[t].file = f

\* A row that says completed, with no job left for it and no callback under way,
\* has the file that was to come last.
CompletedIsThere ==
  \A i \in Items :
    state[i] = "completed" /\ LastState(i) = "completed" /\ DelegateFree
      => Present(IF i \in TwoFile THEN Auxiliary(i) ELSE Primary(i))

\* A download shown as under way comes to an end, unless restorePendingTasks set
\* its row last.
SpinnerEnds == \A i \in Items : state[i] = "underway" ~> (state[i] # "underway" \/ i \in restored)
=============================================================================
