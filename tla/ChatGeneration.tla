--------------------------- MODULE ChatGeneration ---------------------------
(***************************************************************************)
(* A chat answer from the send button to the saved message: the generation *)
(* tasks of GlobalViewModel (main actor), the sessions the user may switch *)
(* or delete meanwhile, and the LlamaContext actor that decodes.           *)
(*                                                                         *)
(* Each sendMessage starts a run: a main-actor Task that runs without      *)
(* interruption between two awaits.  Nothing orders the turns of different *)
(* runs.  The engine serves one job at a time, in order; the loop of       *)
(* completion() has no await, so it keeps the actor until the last token.  *)
(*                                                                         *)
(* Whether the chat model is loaded is left open (ModelLifecycle): a send  *)
(* may happen at any time and a generation may fail at any time.  Titles,  *)
(* the text of messages and the sources found are data.  vm.sessions is    *)
(* fetched again after every change, so it is the same as the store's.     *)
(***************************************************************************)
EXTENDS Naturals, Sequences, FiniteSets

CONSTANTS ChatSessions,  \* identifiers a ChatSession may be given
          None,          \* Swift nil
          MaxRuns,       \* bound: messages sent
          MaxTokens,     \* bound: tokens of one answer
          MaxStops       \* bound: stop tasks on their way to the engine

ASSUME SessionsAssumption == None \notin ChatSessions
ASSUME BoundsAssumption == /\ MaxRuns \in Nat \ {0}
                           /\ MaxTokens \in Nat /\ MaxStops \in Nat \ {0}

Runs     == 1..MaxRuns
Messages == Runs \X {"user", "assistant"}

VARIABLES
  sessions,         \* sessions in the store
  deleted,          \* sessions that were deleted, whose UUIDs never return
  activeSessionId,  \* kept in the user defaults as well
  chatMessages,     \* messages on the screen
  store,            \* messages in the model context
  saved,            \* those a save has put on disk
  isGenerating, generationStage, generationTask,
  phase,            \* where each run's Task is
  session,          \* the session each run captured
  cancelled,        \* runs whose Task was cancelled
  text,             \* tokens in the run's fullResponse
  yielded,          \* tokens the engine put into the run's stream
  closed,           \* runs whose stream was finished, with or without an error
  stopTasks,        \* stop tasks not yet run by the main actor
  engineQ, decoding, stopRequested

chat   == <<sessions, deleted, activeSessionId, chatMessages>>
disk   == <<store, saved>>
flags  == <<isGenerating, generationStage, generationTask>>
task   == <<phase, session, cancelled, text>>
engine == <<yielded, closed, engineQ, decoding, stopRequested>>

vars == <<chat, disk, flags, task, stopTasks, engine>>

\* Suspended at an await of an engine call (template, open) or of other work.
Waiting == {"preparing", "ranking", "template", "open", "stream"}
Alive   == {"spawned"} \cup Waiting
Phases  == {"unused", "done", "dead"} \cup Alive

EngineJobs == [op : {"template", "open", "generate"}, run : Runs]
                \cup [op : {"stop"}, run : {None}]
EngineJob(op, r) == [op |-> op, run |-> r]

TypeOK ==
  /\ sessions \in SUBSET ChatSessions /\ deleted \in SUBSET ChatSessions
  /\ activeSessionId \in ChatSessions \cup {None}
  /\ chatMessages \in SUBSET Messages
  /\ store \in SUBSET Messages /\ saved \in SUBSET Messages
  /\ isGenerating \in BOOLEAN
  /\ generationStage \in {None, "searching", "ranking", "drafting"}
  /\ generationTask \in Runs \cup {None}
  /\ phase \in [Runs -> Phases]
  /\ session \in [Runs -> ChatSessions \cup {None}]
  /\ cancelled \in SUBSET Runs
  /\ text \in [Runs -> 0..MaxTokens] /\ yielded \in [Runs -> 0..MaxTokens]
  /\ closed \in SUBSET Runs
  /\ stopTasks \in 0..MaxStops
  /\ engineQ \in Seq(EngineJobs)
  /\ decoding \in Runs \cup {None}
  /\ stopRequested \in BOOLEAN

MessagesOf(s) == {m \in store : session[m[1]] = s}

AliveRuns == {r \in Runs : phase[r] \in Alive}

-----------------------------------------------------------------------------
(* The run's Task on the main actor. *)

\* Mistake to catch: the question is not saved before the answer is.
SendWithoutSave(s) ==
  /\ ~isGenerating
  /\ s \in sessions
  /\ activeSessionId \in sessions => s = activeSessionId
  /\ \E r \in Runs :
       /\ phase[r] = "unused"
       /\ \A q \in Runs : q < r => phase[q] # "unused"
       /\ chatMessages' = (IF s = activeSessionId THEN chatMessages ELSE MessagesOf(s))
                            \cup {<<r, "user">>}
       /\ store' = store \cup {<<r, "user">>}
       /\ generationTask' = r
       /\ phase' = [phase EXCEPT ![r] = "spawned"]
       /\ session' = [session EXCEPT ![r] = s]
  /\ activeSessionId' = s
  /\ isGenerating' = TRUE
  /\ generationStage' = "searching"
  /\ UNCHANGED <<sessions, deleted, saved, cancelled, text, stopTasks, engine>>

\* sendMessage, up to the creation of the Task.  Without a selected session
\* the first one of the list is selected.
Send(s) ==
  /\ ~isGenerating
  /\ s \in sessions
  /\ activeSessionId \in sessions => s = activeSessionId
  /\ \E r \in Runs :
       /\ phase[r] = "unused"
       /\ \A q \in Runs : q < r => phase[q] # "unused"
       /\ chatMessages' = (IF s = activeSessionId THEN chatMessages ELSE MessagesOf(s))
                            \cup {<<r, "user">>}
       /\ store' = store \cup {<<r, "user">>}
       /\ generationTask' = r
       /\ phase' = [phase EXCEPT ![r] = "spawned"]
       /\ session' = [session EXCEPT ![r] = s]
  /\ activeSessionId' = s
  /\ saved' = store'
  /\ isGenerating' = TRUE
  /\ generationStage' = "searching"
  /\ UNCHANGED <<sessions, deleted, cancelled, text, stopTasks, engine>>

\* With notes or chunks to search the Task first prepares the index.
StartSearch(r) ==
  /\ phase[r] = "spawned"
  /\ phase' = [phase EXCEPT ![r] = "preparing"]
  /\ generationStage' = "searching"
  /\ UNCHANGED <<chat, disk, isGenerating, generationTask, session, cancelled,
                 text, stopTasks, engine>>

StartRanking(r) ==
  /\ phase[r] = "preparing"
  /\ phase' = [phase EXCEPT ![r] = "ranking"]
  /\ generationStage' = "ranking"
  /\ UNCHANGED <<chat, disk, isGenerating, generationTask, session, cancelled,
                 text, stopTasks, engine>>

\* The prompt is built and the engine is asked to apply its template.
BuildPrompt(r) ==
  /\ phase[r] \in {"spawned", "ranking"}
  /\ phase' = [phase EXCEPT ![r] = "template"]
  /\ engineQ' = Append(engineQ, EngineJob("template", r))
  /\ UNCHANGED <<chat, disk, flags, session, cancelled, text, stopTasks,
                 yielded, closed, decoding, stopRequested>>

\* The template is back: the empty answer is shown and completion() is called.
Draft(r) ==
  /\ phase[r] = "template"
  /\ \A i \in DOMAIN engineQ : engineQ[i] # EngineJob("template", r)
  /\ store' = store \cup {<<r, "assistant">>}
  /\ chatMessages' = chatMessages \cup {<<r, "assistant">>}
  /\ generationStage' = "drafting"
  /\ phase' = [phase EXCEPT ![r] = "open"]
  /\ engineQ' = Append(engineQ, EngineJob("open", r))
  /\ UNCHANGED <<sessions, deleted, activeSessionId, saved, isGenerating, generationTask,
                 session, cancelled, text, stopTasks,
                 yielded, closed, decoding, stopRequested>>

\* Mistake to catch: the loop does not look at Task.isCancelled.
TakeTokenAnyway(r) ==
  /\ phase[r] = "stream"
  /\ text[r] < yielded[r]
  /\ text' = [text EXCEPT ![r] = @ + 1]
  /\ UNCHANGED <<chat, disk, flags, phase, session, cancelled,
                 stopTasks, engine>>

TakeToken(r) ==
  /\ phase[r] = "stream" /\ r \notin cancelled
  /\ text[r] < yielded[r]
  /\ text' = [text EXCEPT ![r] = @ + 1]
  /\ UNCHANGED <<chat, disk, flags, phase, session, cancelled,
                 stopTasks, engine>>

\* The loop over the stream is over: it is finished and drained, or the Task
\* is cancelled, which ends the iteration at the next token or at once.
StreamOver(r) ==
  /\ phase[r] = "stream"
  /\ \/ r \in cancelled
     \/ text[r] = yielded[r] /\ r \in closed

\* Mistake to catch: the epilogue leaves the answer to the next save.
EndRunUnsaved(r) ==
  /\ StreamOver(r)
  /\ phase' = [phase EXCEPT ![r] = "done"]
  /\ isGenerating' = FALSE
  /\ generationStage' = None
  /\ UNCHANGED <<chat, disk, generationTask, session, cancelled, text,
                 stopTasks, engine>>

\* Mistake to catch: isGenerating is not reset.
EndRunStillBusy(r) ==
  /\ StreamOver(r)
  /\ phase' = [phase EXCEPT ![r] = "done"]
  /\ saved' = store
  /\ generationStage' = None
  /\ UNCHANGED <<chat, store, isGenerating, generationTask, session, cancelled, text,
                 stopTasks, engine>>

\* The epilogue: it does not ask whether the run is still the current one.
EndRun(r) ==
  /\ StreamOver(r)
  /\ phase' = [phase EXCEPT ![r] = "done"]
  /\ saved' = store
  /\ isGenerating' = FALSE
  /\ generationStage' = None
  /\ UNCHANGED <<chat, store, generationTask, session, cancelled, text,
                 stopTasks, engine>>

RunStep(r) == \/ StartSearch(r) \/ StartRanking(r) \/ BuildPrompt(r)
              \/ Draft(r) \/ TakeToken(r) \/ EndRun(r)

-----------------------------------------------------------------------------
(* stopGeneration and its callers. *)

\* Mistake to catch: the flag is left to the epilogue of the stopped task.
StopEffectLate ==
  /\ stopTasks + Cardinality({i \in DOMAIN engineQ : engineQ[i].op = "stop"}) < MaxStops
  /\ cancelled' = cancelled \cup ({generationTask} \cap AliveRuns)
  /\ generationTask' = None
  /\ stopTasks' = stopTasks + 1
  /\ generationStage' = None
  /\ UNCHANGED isGenerating

StopEffect ==
  /\ stopTasks + Cardinality({i \in DOMAIN engineQ : engineQ[i].op = "stop"}) < MaxStops
  /\ cancelled' = cancelled \cup ({generationTask} \cap AliveRuns)
  /\ generationTask' = None
  /\ stopTasks' = stopTasks + 1
  /\ isGenerating' = FALSE
  /\ generationStage' = None

\* The stop button and handleSceneDidEnterBackground.
Stop ==
  /\ StopEffect
  /\ UNCHANGED <<chat, disk, phase, session, text, engine>>

PostStop ==
  /\ stopTasks > 0
  /\ stopTasks' = stopTasks - 1
  /\ engineQ' = Append(engineQ, EngineJob("stop", None))
  /\ UNCHANGED <<chat, disk, flags, task, yielded, closed, decoding, stopRequested>>

\* selectSession: the messages shown are fetched from the store.
Select(s) ==
  /\ activeSessionId' = s
  /\ chatMessages' = MessagesOf(s)

\* createNewChatSession selects the session it adds.  A run of the session
\* selected before goes on: nothing stops it.
NewSession(s) ==
  /\ s \notin sessions \cup deleted
  /\ sessions' = sessions \cup {s}
  /\ Select(s)
  /\ saved' = store
  /\ UNCHANGED <<deleted, store, flags, task, stopTasks, engine>>

SelectSession(s) ==
  /\ s \in sessions
  /\ Select(s)
  /\ UNCHANGED <<sessions, deleted, disk, flags, task, stopTasks, engine>>

\* The messages go with their session; the run is stopped if the session was
\* the selected one.  A new session replaces the last one and is selected;
\* otherwise a session left takes the place of the selected one.
DeleteSession(s) ==
  /\ s \in sessions
  /\ deleted' = deleted \cup {s}
  /\ store' = store \ MessagesOf(s)
  /\ saved' = store'
  /\ IF sessions = {s}
     THEN \E fresh \in ChatSessions \ (sessions \cup deleted) :
            /\ sessions' = {fresh}
            /\ Select(fresh)
     ELSE /\ sessions' = sessions \ {s}
          /\ IF activeSessionId = s
             THEN \E first \in sessions' : Select(first)
             ELSE UNCHANGED <<activeSessionId, chatMessages>>
  /\ IF activeSessionId = s
     THEN StopEffect
     ELSE UNCHANGED <<flags, cancelled, stopTasks>>
  /\ UNCHANGED <<phase, session, text, engine>>

\* The process dies; what was not saved may or may not have been autosaved.
\* bootstrapIfNeeded then shows the stored selection, or another session.
Relaunch ==
  /\ \E onDisk \in SUBSET store : saved \subseteq onDisk /\ store' = onDisk
  /\ saved' = store'
  /\ \E s \in sessions :
       /\ activeSessionId \in sessions => s = activeSessionId
       /\ activeSessionId' = s
       /\ chatMessages' = {m \in store' : session[m[1]] = s}
  /\ isGenerating' = FALSE /\ generationStage' = None /\ generationTask' = None
  /\ phase' = [r \in Runs |-> IF r \in AliveRuns THEN "dead" ELSE phase[r]]
  /\ stopTasks' = 0
  /\ engineQ' = <<>> /\ decoding' = None /\ stopRequested' = FALSE
  /\ cancelled' = {} /\ closed' = {}
  /\ text' = [r \in Runs |-> 0] /\ yielded' = [r \in Runs |-> 0]
  /\ UNCHANGED <<sessions, deleted, session>>

-----------------------------------------------------------------------------
(* The LlamaContext actor. *)

Serving(op) == decoding = None /\ engineQ # <<>> /\ Head(engineQ).op = op

\* The answer of applyTemplate is ready (a failed template has a fallback).
ServeTemplate ==
  /\ Serving("template")
  /\ engineQ' = Tail(engineQ)
  /\ UNCHANGED <<chat, disk, flags, task, stopTasks, yielded, closed, decoding,
                 stopRequested>>

\* completion() returns its stream and queues the loop as a task of its own.
ServeOpen ==
  /\ Serving("open")
  /\ LET r == Head(engineQ).run IN
       /\ engineQ' = Append(Tail(engineQ), EngineJob("generate", r))
       /\ phase' = [phase EXCEPT ![r] = "stream"]
  /\ UNCHANGED <<chat, disk, flags, session, cancelled, text, stopTasks,
                 yielded, closed, decoding, stopRequested>>

StartDecoding ==
  /\ Serving("generate")
  /\ engineQ' = Tail(engineQ)
  /\ decoding' = Head(engineQ).run
  /\ stopRequested' = FALSE
  /\ UNCHANGED <<chat, disk, flags, task, stopTasks, yielded, closed>>

NotLoaded ==
  /\ Serving("generate")
  /\ engineQ' = Tail(engineQ)
  /\ closed' = closed \cup {Head(engineQ).run}
  /\ UNCHANGED <<chat, disk, flags, task, stopTasks, yielded, decoding, stopRequested>>

DecodeToken ==
  /\ decoding # None
  /\ ~stopRequested
  /\ yielded[decoding] < MaxTokens
  /\ yielded' = [yielded EXCEPT ![decoding] = @ + 1]
  /\ UNCHANGED <<chat, disk, flags, task, stopTasks, closed, engineQ, decoding,
                 stopRequested>>

\* End of text, a stop sequence, the token limit, a stop, or a decoding error.
EndDecoding ==
  /\ decoding # None
  /\ closed' = closed \cup {decoding}
  /\ decoding' = None
  /\ UNCHANGED <<chat, disk, flags, task, stopTasks, yielded, engineQ, stopRequested>>

ServeStop ==
  /\ Serving("stop")
  /\ engineQ' = Tail(engineQ)
  /\ stopRequested' = TRUE
  /\ UNCHANGED <<chat, disk, flags, task, stopTasks, yielded, closed, decoding>>

EngineStep == \/ ServeTemplate \/ ServeOpen \/ StartDecoding \/ NotLoaded
              \/ DecodeToken \/ EndDecoding \/ ServeStop

-----------------------------------------------------------------------------
Init ==
  /\ \E s \in ChatSessions : sessions = {s} /\ activeSessionId = s
  /\ deleted = {}
  /\ chatMessages = {} /\ store = {} /\ saved = {}
  /\ isGenerating = FALSE /\ generationStage = None /\ generationTask = None
  /\ phase = [r \in Runs |-> "unused"]
  /\ session = [r \in Runs |-> None]
  /\ cancelled = {}
  /\ text = [r \in Runs |-> 0] /\ yielded = [r \in Runs |-> 0]
  /\ closed = {}
  /\ stopTasks = 0
  /\ engineQ = <<>> /\ decoding = None /\ stopRequested = FALSE

UserStep == \/ \E s \in ChatSessions :
                 Send(s) \/ NewSession(s) \/ SelectSession(s) \/ DeleteSession(s)
            \/ Stop \/ Relaunch

Next == UserStep \/ PostStop \/ EngineStep \/ \E r \in Runs : RunStep(r)

\* Tasks that can go on do, and the engine serves its queue.
Fairness == /\ \A r \in Runs : WF_vars(RunStep(r))
            /\ WF_vars(PostStop) /\ WF_vars(EngineStep)

Spec == Init /\ [][Next]_vars /\ Fairness

-----------------------------------------------------------------------------
(* Properties *)

\* While the stop button is shown, generationTask is a run that is still going
\* on and that the button has not stopped yet: the epilogue of an older run
\* never leaves the button without its task (stopGeneration, sendMessage).
StopButtonHasATask ==
  isGenerating => generationTask \in AliveRuns \ cancelled

\* The progress line (generationStage) is never left over: some run that will
\* clear it again is still going on.
StageHasARun == generationStage # None => AliveRuns # {}

\* The session on the screen is one that exists, so that a question is never
\* sent to another one (activeSessionId, ensureActiveSession).
SelectedExists == activeSessionId \in sessions

\* What the composer shows is true: its session exists, the button and the
\* line have a run.
RunInv == TypeOK /\ StopButtonHasATask /\ StageHasARun /\ SelectedExists

\* Whatever was stopped, switched or deleted meanwhile, an answer that came to
\* its end is saved together with its question, unless its session is gone.
AnswersSaved ==
  \A r \in Runs : phase[r] = "done" /\ session[r] \notin deleted
                    => {<<r, "user">>, <<r, "assistant">>} \subseteq saved

\* A question once sent leaves the store only with its session, even if the
\* process dies.
QuestionsLast ==
  [][\A m \in store \ store' : m[2] = "user" => session[m[1]] \in deleted']_vars

\* After a stop the text on the screen does not grow any more, whatever the
\* engine goes on to decode.
StoppedTextFrozen ==
  [][\A r \in cancelled : text'[r] <= text[r]]_vars

\* The composer is never locked for good.
GenerationEnds == isGenerating ~> ~isGenerating

\* LlamaContext's loop reports "Generation stopped" once a stop is requested.
\* So after the engine has taken the stop of a run, it decodes no token of it.
StopStopsEngine ==
  [][\A r \in cancelled :
       stopTasks = 0 /\ (\A i \in DOMAIN engineQ : engineQ[i].op # "stop")
         => yielded'[r] <= yielded[r]]_vars
=============================================================================
