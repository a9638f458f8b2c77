--------------------------- MODULE ModelLifecycle ---------------------------
(***************************************************************************)
(* Loading and unloading of the chat and embedding models: the flags of    *)
(* GlobalViewModel (main actor) against the contexts the LlamaContext      *)
(* actor really holds.                                                     *)
(*                                                                         *)
(* Both actors run one job at a time, in the order the jobs were queued    *)
(* (the main actor is the main dispatch queue; the engine's jobs all have  *)
(* the priority of the user's actions).  A main-actor job runs without     *)
(* interruption from one `await llamaContext...' to the next, so a Swift   *)
(* Task is a job that travels between mainQ and engineQ.  User events and  *)
(* scene changes run on the main actor between any two jobs.               *)
(*                                                                         *)
(* The OCR slot is left out: useModelOCRForImports is forced to false, so  *)
(* no call ever loads it and its flags never change.                       *)
(***************************************************************************)
EXTENDS Naturals, Sequences

CONSTANTS ChatModels,       \* catalog entries of kind .chat
          EmbeddingModels,  \* catalog entries of kind .embedding
          None,             \* Swift nil
          MaxJobs           \* bound: jobs queued on the two actors together

Models == ChatModels \cup EmbeddingModels

ASSUME ModelsAssumption == /\ ChatModels \cap EmbeddingModels = {}
                           /\ None \notin Models \cup {"chat", "embedding"}
ASSUME MaxJobsAssumption == MaxJobs \in Nat \ {0}

Slots == {"chat", "embedding"}
ModelsOf(s) == IF s = "chat" THEN ChatModels ELSE EmbeddingModels
SlotOf(m)   == IF m \in ChatModels THEN "chat" ELSE "embedding"

VARIABLES
  scene,        \* scenePhase; "active" stands for .inactive as well
  installed,    \* models whose file is complete on disk
  vm,           \* slots loaded and loading, current*ModelId and the stored ids
  rehydrating,  \* isModelRehydrateInProgress
  mainQ,        \* jobs ready on the main actor
  engine,       \* the model whose context the engine holds, per slot
  engineQ,      \* calls waiting for the LlamaContext actor
  crossed       \* history: slots whose work a background transition overtook

vars == <<scene, installed, vm, rehydrating, mainQ, engine, engineQ, crossed>>

-----------------------------------------------------------------------------
(* Steps of an async function, each of which may call the engine once. *)

Step(op, s, m, mark) == [op |-> op, slot |-> s, model |-> m, mark |-> mark]

Load(m, persist) == Step("load", SlotOf(m), m, persist)
Unload(s, clear) == Step("unload", s, None, clear)
Restore(s)       == Step("restore", s, None, FALSE)
Fallback(s)      == Step("fallback", s, None, TRUE)
Shutdown         == Step("shutdown", None, None, FALSE)
NoStep           == Step("none", None, None, FALSE)

Steps == [op : {"load", "unload", "restore", "fallback", "shutdown", "none"},
          slot : Slots \cup {None}, model : Models \cup {None}, mark : BOOLEAN]

Job(first, second) ==
  [state |-> "start", call |-> first, next |-> second, rehydrate |-> FALSE]

RehydrateJob == [state |-> "start", call |-> Restore("chat"),
                 next |-> Restore("embedding"), rehydrate |-> TRUE]

Jobs == [state : {"start", "posted", "ok", "failed"},
         call : Steps, next : Steps, rehydrate : BOOLEAN]

VM == [loaded : SUBSET Slots, loading : SUBSET Slots,
       current : [Slots -> Models \cup {None}],
       stored : [Slots -> Models \cup {None}]]

TypeOK == /\ scene \in {"active", "background"}
          /\ installed \in SUBSET Models
          /\ vm \in VM
          /\ rehydrating \in BOOLEAN
          /\ mainQ \in Seq(Jobs)
          /\ engine \in [Slots -> Models \cup {None}]
          /\ engineQ \in Seq(Jobs)
          /\ crossed \in SUBSET Slots

JobsIn(q) == {q[i] : i \in DOMAIN q}

\* The job has work left, or a reply to hand over, on slot s.
Touches(job, s) == job.call.slot = s \/ job.next.slot = s

ShutdownIn(q) == \E job \in JobsIn(q) : job.call = Shutdown

-----------------------------------------------------------------------------
(* What a main-actor turn does to the view model. *)

\* The engine calls step st makes when it is reached with view model v: none
\* when a guard returns early, several when the choice of model is left open.
Calls(v, st) ==
  CASE st.op = "load" -> {c \in {st} : st.model \in installed /\ st.slot \notin v.loading}
    [] st.op = "restore" ->
         {Load(m, FALSE) : m \in {m \in installed : /\ m = v.current[st.slot]
                                                    /\ st.slot \notin v.loaded
                                                    /\ st.slot \notin v.loading}}
    [] st.op = "fallback" ->
         {Load(m, TRUE) : m \in {m \in installed \cap ModelsOf(st.slot) :
                                      /\ st.slot \notin v.loaded
                                      /\ st.slot \notin v.loading}}
    [] st.op \in {"unload", "shutdown"} -> {st}
    [] st.op = "none" -> {}

\* The code after the await: the flags as the engine's answer sets them.
Settled(v, s, isLoaded, id, storedId) ==
  [loaded  |-> IF isLoaded THEN v.loaded \cup {s} ELSE v.loaded \ {s},
   loading |-> v.loading \ {s},
   current |-> [v.current EXCEPT ![s] = id],
   stored  |-> [v.stored EXCEPT ![s] = storedId]]

\* Mistake to catch: the catch block of a load resets nothing.
AppliedWithoutCatch(v, job) ==
  LET s == job.call.slot
      m == job.call.model
  IN CASE job.state = "ok" /\ job.call.op = "load" ->
            Settled(v, s, TRUE, m, IF job.call.mark THEN m ELSE v.stored[s])
       [] job.state = "ok" /\ job.call.op = "unload" ->
            Settled(v, s, FALSE, IF job.call.mark THEN None ELSE v.current[s],
                                 IF job.call.mark THEN None ELSE v.stored[s])
       [] OTHER -> v

\* Mistake to catch: a failed load leaves the slot's loaded flag as it was.
AppliedKeepingLoaded(v, job) ==
  IF job.state = "failed"
  THEN [v EXCEPT !.loading = @ \ {job.call.slot}]
  ELSE AppliedWithoutCatch(v, job)

Applied(v, job) ==
  LET s == job.call.slot
      m == job.call.model
  IN CASE job.state = "ok" /\ job.call.op = "load" ->
            Settled(v, s, TRUE, m, IF job.call.mark THEN m ELSE v.stored[s])
       [] job.state = "failed" /\ job.call.op = "load" ->
            Settled(v, s, FALSE, v.current[s], v.stored[s])
       [] job.state = "ok" /\ job.call.op = "unload" ->
            IF job.call.mark
            THEN Settled(v, s, FALSE, None, None)
            ELSE Settled(v, s, FALSE, v.current[s], v.stored[s])
       [] OTHER -> v

\* The code before the await of a call.
Started(v, c) == IF c.op = "load" THEN [v EXCEPT !.loading = @ \cup {c.slot}] ELSE v

Post(v, job, c, next) ==
  /\ vm' = Started(v, c)
  /\ engineQ' = Append(engineQ, [state |-> "posted", call |-> c, next |-> next,
                                 rehydrate |-> job.rehydrate])
  /\ rehydrating' = (rehydrating \/ job.rehydrate)

-----------------------------------------------------------------------------
(* Main-actor turns: the job at the head of mainQ runs up to its next await. *)

\* Mistake to catch: the guard on a second rehydrate is forgotten.
NeverRefused(job) == FALSE

\* A second rehydrate finds the first one in progress and returns.
Refused(job) == job.rehydrate /\ job.state = "start" /\ rehydrating

RehydrateRefused ==
  /\ mainQ # <<>>
  /\ Refused(Head(mainQ))
  /\ mainQ' = Tail(mainQ)
  /\ UNCHANGED <<scene, installed, vm, rehydrating, engine, engineQ, crossed>>

\* A new job makes its first call.
CallFirst ==
  /\ mainQ # <<>>
  /\ LET job == Head(mainQ) IN
       /\ job.state = "start"
       /\ ~Refused(job)
       /\ \E c \in Calls(vm, job.call) : Post(vm, job, c, job.next)
  /\ mainQ' = Tail(mainQ)
  /\ UNCHANGED <<scene, installed, engine, crossed>>

\* The first call is over, or was skipped, and the job makes its second one.
CallSecond ==
  /\ mainQ # <<>>
  /\ LET job == Head(mainQ)
         v   == Applied(vm, job)
     IN /\ ~Refused(job)
        /\ job.state = "start" => Calls(vm, job.call) = {}
        /\ \E c \in Calls(v, job.next) : Post(v, job, c, NoStep)
  /\ mainQ' = Tail(mainQ)
  /\ UNCHANGED <<scene, installed, engine, crossed>>

\* Mistake to catch: no `defer', so rehydrating is not reset at the end.
FinishWithoutDefer ==
  /\ mainQ # <<>>
  /\ LET job == Head(mainQ)
         v   == Applied(vm, job)
     IN /\ ~Refused(job)
        /\ job.state = "start" => Calls(vm, job.call) = {}
        /\ Calls(v, job.next) = {}
        /\ vm' = v
  /\ mainQ' = Tail(mainQ)
  /\ UNCHANGED <<scene, installed, rehydrating, engine, engineQ, crossed>>

\* The job has no further call to make and ends.
Finish ==
  /\ mainQ # <<>>
  /\ LET job == Head(mainQ)
         v   == Applied(vm, job)
     IN /\ ~Refused(job)
        /\ job.state = "start" => Calls(vm, job.call) = {}
        /\ Calls(v, job.next) = {}
        /\ vm' = v
        /\ rehydrating' = (rehydrating /\ ~job.rehydrate)
  /\ mainQ' = Tail(mainQ)
  /\ UNCHANGED <<scene, installed, engine, engineQ, crossed>>

Turn == RehydrateRefused \/ CallFirst \/ CallSecond \/ Finish

-----------------------------------------------------------------------------
(* The LlamaContext actor serves the call at the head of engineQ. *)

\* The call returns to its job; the slot's flags will be set by an answer that
\* is younger than every background transition, unless one is still to come.
Reply(job, outcome) ==
  /\ engineQ' = Tail(engineQ)
  /\ mainQ' = Append(mainQ, [job EXCEPT !.state = outcome])
  /\ crossed' = IF ShutdownIn(mainQ) \/ ShutdownIn(Tail(engineQ))
                THEN crossed
                ELSE crossed \ {job.call.slot}
  /\ UNCHANGED <<scene, installed, vm, rehydrating>>

\* loadModel / loadEmbeddingModel succeed on a file that is there.
ServeLoad ==
  /\ engineQ # <<>>
  /\ LET job == Head(engineQ) IN
       /\ job.call.op = "load"
       /\ job.call.model \in installed
       /\ engine' = [engine EXCEPT ![job.call.slot] = job.call.model]
       /\ Reply(job, "ok")

\* They throw: before touching anything if the file is missing or is no GGUF
\* file, after freeing the old model if llama.cpp cannot build the new one.
ServeLoadFails ==
  /\ engineQ # <<>>
  /\ LET job == Head(engineQ) IN
       /\ job.call.op = "load"
       /\ \/ UNCHANGED engine
          \/ /\ job.call.model \in installed
             /\ engine' = [engine EXCEPT ![job.call.slot] = None]
       /\ Reply(job, "failed")

ServeUnload ==
  /\ engineQ # <<>>
  /\ LET job == Head(engineQ) IN
       /\ job.call.op = "unload"
       /\ engine' = [engine EXCEPT ![job.call.slot] = None]
       /\ Reply(job, "ok")

\* unload() of the background handler: nobody waits for its return.
ServeShutdown ==
  /\ engineQ # <<>>
  /\ Head(engineQ).call.op = "shutdown"
  /\ engine' = [s \in Slots |-> None]
  /\ engineQ' = Tail(engineQ)
  /\ UNCHANGED <<scene, installed, vm, rehydrating, mainQ, crossed>>

Serve == ServeLoad \/ ServeLoadFails \/ ServeUnload \/ ServeShutdown

-----------------------------------------------------------------------------
(* User actions and the operating system's events. *)

\* isBusy, as far as this component can tell: it disables the model menus.
Busy == vm.loading # {}

Room(n) == Len(mainQ) + Len(engineQ) + n <= MaxJobs

Spawn(jobs) == /\ Room(Len(jobs))
               /\ mainQ' = mainQ \o jobs

UserLoad(m) ==
  /\ scene = "active" /\ ~Busy /\ m \in installed
  /\ ~(vm.current[SlotOf(m)] = m /\ SlotOf(m) \in vm.loaded)
  /\ Spawn(<<Job(Load(m, TRUE), NoStep)>>)
  /\ UNCHANGED <<scene, installed, vm, rehydrating, engine, engineQ, crossed>>

UserReload(m) ==
  /\ scene = "active" /\ ~Busy /\ m \in installed
  /\ Spawn(<<Job(Unload(SlotOf(m), FALSE), Load(m, TRUE))>>)
  /\ UNCHANGED <<scene, installed, vm, rehydrating, engine, engineQ, crossed>>

UserOffloadAll ==
  /\ scene = "active" /\ ~Busy /\ installed # {}
  /\ Spawn(<<Job(Unload("chat", FALSE), Unload("embedding", FALSE))>>)
  /\ UNCHANGED <<scene, installed, vm, rehydrating, engine, engineQ, crossed>>

\* The menu entry is disabled while busy, the alert that confirms it is not.
\* Removing the file may fail; the unload has been queued by then.
UserDelete(m) ==
  /\ scene = "active" /\ m \in installed
  /\ IF vm.current[SlotOf(m)] = m
     THEN Spawn(<<Job(Unload(SlotOf(m), TRUE), NoStep)>>)
     ELSE UNCHANGED mainQ
  /\ \/ installed' = installed \ {m}
     \/ vm.current[SlotOf(m)] = m /\ UNCHANGED installed
  /\ UNCHANGED <<scene, vm, rehydrating, engine, engineQ, crossed>>

DownloadFinished(m) ==
  /\ m \notin installed
  /\ installed' = installed \cup {m}
  /\ UNCHANGED <<scene, vm, rehydrating, mainQ, engine, engineQ, crossed>>

\* The last onboarding page loads one downloaded model per unselected slot.
OnboardingAppears ==
  /\ scene = "active"
  /\ \E c \in ChatModels \cap installed, e \in EmbeddingModels \cap installed :
       LET chat == IF vm.current["chat"] = None
                   THEN <<Job(Load(c, TRUE), NoStep)>> ELSE <<>>
           emb  == IF vm.current["embedding"] = None
                   THEN <<Job(Load(e, TRUE), NoStep)>> ELSE <<>>
       IN chat \o emb # <<>> /\ Spawn(chat \o emb)
  /\ UNCHANGED <<scene, installed, vm, rehydrating, engine, engineQ, crossed>>

\* A message is sent with notes to search: the generation task makes sure an
\* embedding model is loaded.
SendWithNotes ==
  /\ scene = "active" /\ "chat" \in vm.loaded
  /\ Spawn(<<Job(Restore("embedding"), Fallback("embedding"))>>)
  /\ UNCHANGED <<scene, installed, vm, rehydrating, engine, engineQ, crossed>>

\* The phase becomes .active, from .background or from .inactive alone.
BecomeActive ==
  /\ scene' = "active"
  /\ Spawn(<<RehydrateJob>>)
  /\ UNCHANGED <<installed, vm, rehydrating, engine, engineQ, crossed>>

EnterBackground ==
  /\ scene = "active"
  /\ scene' = "background"
  /\ Spawn(<<Job(Shutdown, NoStep)>>)
  /\ vm' = [vm EXCEPT !.loaded = {}, !.loading = {}]
  /\ crossed' = crossed \cup
                  {s \in Slots : \E job \in JobsIn(mainQ) \cup JobsIn(engineQ) : Touches(job, s)}
  /\ UNCHANGED <<installed, rehydrating, engine, engineQ>>

\* The process dies and is started again: only files and defaults survive.
\* normalizeStoredModelSelections keeps every id the catalog knows.
Relaunch ==
  /\ scene' = "background"
  /\ vm' = [vm EXCEPT !.loaded = {}, !.loading = {}, !.current = vm.stored]
  /\ rehydrating' = FALSE
  /\ mainQ' = <<>> /\ engineQ' = <<>>
  /\ engine' = [s \in Slots |-> None]
  /\ crossed' = {}
  /\ UNCHANGED installed

Init ==
  /\ scene = "background"
  /\ installed \in SUBSET Models
  /\ vm = [loaded |-> {}, loading |-> {},
           current |-> [s \in Slots |-> None], stored |-> [s \in Slots |-> None]]
  /\ rehydrating = FALSE
  /\ mainQ = <<>> /\ engineQ = <<>>
  /\ engine = [s \in Slots |-> None]
  /\ crossed = {}

UserEvent == \/ \E m \in Models : UserLoad(m) \/ UserReload(m) \/ UserDelete(m)
             \/ UserOffloadAll \/ OnboardingAppears \/ SendWithNotes

SystemEvent == \/ \E m \in Models : DownloadFinished(m)
               \/ BecomeActive \/ EnterBackground \/ Relaunch

Next == Turn \/ Serve \/ UserEvent \/ SystemEvent

\* Both actors keep running their queued jobs; nothing else is promised.
Fairness == WF_vars(Turn) /\ WF_vars(Serve)

Spec == Init /\ [][Next]_vars /\ Fairness

-----------------------------------------------------------------------------
(* Properties *)

\* The answer for slot s is still on its way to the view model.
AnswerPending(s) == \E job \in JobsIn(mainQ) :
                      job.call.slot = s /\ job.state \in {"ok", "failed"}

\* GlobalViewModel never claims a model the engine does not hold, except
\* between the engine's answer and the turn that reads it, and after a
\* background transition overtook a load: the flags set after each await of
\* load*ModelAsync and unload*ModelAsync agree with what LlamaContext did,
\* whatever loads, reloads, deletions and retries were queued meanwhile.
FlagsTruthful ==
  \A s \in Slots :
    s \in vm.loaded \ crossed /\ ~AnswerPending(s)
      => engine[s] # None /\ engine[s] = vm.current[s]

\* isModelRehydrateInProgress is up exactly while one rehydrate is past its
\* guard, so the next return to the foreground is never locked out.
OneRehydrate ==
  rehydrating <=> \E job \in JobsIn(mainQ) \cup JobsIn(engineQ) :
                    job.rehydrate /\ job.state # "start"

\* The guard of handleSceneDidBecomeActive is always lifted again.
RehydrateEnds == rehydrating ~> ~rehydrating

\* Every load the view model announces comes to an end.
LoadingEnds == \A s \in Slots : s \in vm.loading ~> s \notin vm.loading

\* CHANGE_LIST.md, section 5: the foreground resume flow reloads both models
\* deterministically.  So once both actors are idle in the foreground, a model
\* the app shows as loaded is in the engine.
ResumeReloads ==
  scene = "active" /\ mainQ = <<>> /\ engineQ = <<>>
    => \A s \in vm.loaded : engine[s] = vm.current[s]
=============================================================================
