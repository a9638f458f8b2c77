------------------------ MODULE ModelLifecycleProofs ------------------------
(***************************************************************************)
(* Proofs about ModelLifecycle: its types, that the loaded flags tell the  *)
(* truth (FlagsTruthful), and that rehydrating is up for one rehydrate at  *)
(* a time (OneRehydrate).                                                  *)
(*                                                                         *)
(* FlagsTruthful speaks of the moment no answer is pending.  It is made    *)
(* inductive by saying what holds before: the youngest answer for a slot   *)
(* describes the engine (YoungestAnswer), and as long as a background      *)
(* shutdown is outstanding the work on a slot it did not overtake is       *)
(* queued behind it (BehindShutdown).                                      *)
(***************************************************************************)
EXTENDS ModelLifecycle, TLAPS

Replied(job) == job.state \in {"ok", "failed"}

ShutdownOutstanding == ShutdownIn(mainQ) \/ ShutdownIn(engineQ)

\* A step has the slot of its model.
StepOK(st) ==
  /\ st \in Steps
  /\ st.op = "load" => st.model \in Models /\ st.slot = SlotOf(st.model)
  /\ st.op \in {"unload", "restore", "fallback"} => st.slot \in Slots
  /\ st.op = "shutdown" => st = Shutdown
  /\ st.op = "none" => st = NoStep

JobOK(job) ==
  /\ job \in Jobs
  /\ StepOK(job.call) /\ StepOK(job.next)
  /\ job.next.op # "shutdown"
  /\ job.call.op = "shutdown" => job.next = NoStep
  /\ Replied(job) => job.call.op \in {"load", "unload"}
  /\ job.state = "failed" => job.call.op = "load"
  /\ job.state = "posted" => job.call.op \in {"load", "unload", "shutdown"}

\* Selections are models of the slot they select for.
Kinds(v) == \A s \in Slots : /\ v.current[s] \in ModelsOf(s) \cup {None}
                             /\ v.stored[s] \in ModelsOf(s) \cup {None}

WellFormed ==
  /\ \A i \in DOMAIN mainQ : JobOK(mainQ[i]) /\ mainQ[i].state # "posted"
  /\ \A i \in DOMAIN engineQ : JobOK(engineQ[i]) /\ engineQ[i].state = "posted"
  /\ Kinds(vm)

BehindShutdown(s) ==
  /\ ShutdownOutstanding => s \notin vm.loaded
  /\ \A i \in DOMAIN mainQ :
       Touches(mainQ[i], s) =>
         /\ Replied(mainQ[i]) => ~ShutdownOutstanding
         /\ \A j \in DOMAIN mainQ : j > i => mainQ[j].call # Shutdown
  /\ \A i \in DOMAIN engineQ :
       Touches(engineQ[i], s) =>
         /\ ~ShutdownIn(mainQ)
         /\ \A j \in DOMAIN engineQ : j > i => engineQ[j].call # Shutdown

AnswerFor(job, s) == Replied(job) /\ job.call.slot = s

YoungestAnswer(s) ==
  /\ \A i \in DOMAIN mainQ :
       /\ AnswerFor(mainQ[i], s)
       /\ \A j \in DOMAIN mainQ : j > i => ~AnswerFor(mainQ[j], s)
       /\ mainQ[i].state = "ok" /\ mainQ[i].call.op = "load"
       => engine[s] = mainQ[i].call.model
  /\ (\A i \in DOMAIN mainQ : ~AnswerFor(mainQ[i], s)) /\ s \in vm.loaded
       => engine[s] # None /\ engine[s] = vm.current[s]

SlotInv(s) ==
  s \notin crossed => /\ BehindShutdown(s)
                      /\ ~ShutdownOutstanding => YoungestAnswer(s)

IInv == TypeOK /\ WellFormed /\ \A s \in Slots : SlotInv(s)

-----------------------------------------------------------------------------
(* Facts about the operators. *)

\* A queue after an enqueue, element by element.
LEMMA Enqueue ==
  ASSUME NEW S, NEW q \in Seq(S), NEW e \in S
  PROVE  /\ Append(q, e) \in Seq(S)
         /\ Len(Append(q, e)) = Len(q) + 1
         /\ DOMAIN q = 1..Len(q)
         /\ DOMAIN Append(q, e) = 1..(Len(q) + 1)
         /\ \A i \in 1..Len(q) : Append(q, e)[i] = q[i]
         /\ Append(q, e)[Len(q) + 1] = e
         /\ Len(q) \in Nat
  OBVIOUS

\* A queue after a dequeue, element by element.
LEMMA Dequeue ==
  ASSUME NEW S, NEW q \in Seq(S), q # <<>>
  PROVE  /\ Tail(q) \in Seq(S)
         /\ Head(q) \in S
         /\ Head(q) = q[1]
         /\ Len(q) \in Nat \ {0}
         /\ DOMAIN q = 1..Len(q)
         /\ 1 \in DOMAIN q
         /\ DOMAIN Tail(q) = 1..(Len(q) - 1)
         /\ \A i \in DOMAIN Tail(q) : Tail(q)[i] = q[i + 1] /\ i + 1 \in DOMAIN q
  OBVIOUS

\* Engine calls have the slot of the step that makes them, and only the
\* background handler's step shuts the engine down.
LEMMA CallsOK ==
  ASSUME NEW v \in VM, Kinds(v),
         installed \in SUBSET Models,
         NEW st, StepOK(st), NEW c \in Calls(v, st)
  PROVE  /\ StepOK(c)
         /\ c.op \in {"load", "unload", "shutdown"}
         /\ c.slot = st.slot
         /\ c.op = "shutdown" <=> st.op = "shutdown"
  <1>1. ASSUME NEW m \in Models, NEW p \in BOOLEAN, c = Load(m, p), st.slot = SlotOf(m),
               st.op # "shutdown"
        PROVE  /\ StepOK(c)
               /\ c.op \in {"load", "unload", "shutdown"}
               /\ c.slot = st.slot
               /\ c.op = "shutdown" <=> st.op = "shutdown"
    BY <1>1 DEF StepOK, Steps, Load, Step, SlotOf, Slots
  <1>2. CASE st.op \in {"load", "unload", "shutdown"}
    BY <1>2 DEF Calls, StepOK
  <1>3. CASE st.op = "restore"
    <2>1. PICK m \in installed : c = Load(m, FALSE) /\ m = v.current[st.slot]
      BY <1>3 DEF Calls
    <2>2. st.slot = SlotOf(m)
      BY <2>1, <1>3, ModelsAssumption DEF StepOK, ModelsOf, SlotOf, Models, Slots, Kinds
    <2>3. QED
      BY <1>1, <1>3, <2>1, <2>2
  <1>4. CASE st.op = "fallback"
    <2>1. PICK m \in installed : c = Load(m, TRUE) /\ m \in ModelsOf(st.slot)
      BY <1>4 DEF Calls
    <2>2. st.slot = SlotOf(m)
      BY <2>1, <1>4, ModelsAssumption DEF StepOK, ModelsOf, SlotOf, Models, Slots
    <2>3. QED
      BY <1>1, <1>4, <2>1, <2>2
  <1>5. CASE st.op = "none"
    BY <1>5 DEF Calls
  <1>6. QED
    BY <1>2, <1>3, <1>4, <1>5 DEF StepOK, Steps

\* The code after an await keeps the view model well-typed, changes no flag but
\* its slot's, and never raises `loaded' without a successful load.
LEMMA AppliedOK ==
  ASSUME NEW v \in VM, Kinds(v),
         NEW job, JobOK(job)
  PROVE  /\ Applied(v, job) \in VM
         /\ Kinds(Applied(v, job))
         /\ \A s \in Slots :
              ~AnswerFor(job, s) => /\ (s \in Applied(v, job).loaded <=> s \in v.loaded)
                                    /\ Applied(v, job).current[s] = v.current[s]
         /\ \A s \in Slots :
              AnswerFor(job, s) /\ s \in Applied(v, job).loaded
                => /\ job.state = "ok" /\ job.call.op = "load"
                   /\ Applied(v, job).current[s] = job.call.model
                   /\ Applied(v, job).current[s] # None
  <1> DEFINE s == job.call.slot
             m == job.call.model
  <1>0. /\ s \in Slots => v.current[s] \in Models \cup {None} /\ v.stored[s] \in Models \cup {None}
        /\ m \in Models \cup {None} /\ job.call.mark \in BOOLEAN
    BY DEF VM, JobOK, StepOK, Steps
  <1>1. CASE job.state = "ok" /\ job.call.op = "load"
    <2>1. PICK n \in {m, v.stored[s]} : Applied(v, job) = Settled(v, s, TRUE, m, n)
      <3>1. Applied(v, job) = Settled(v, s, TRUE, m, IF job.call.mark THEN m ELSE v.stored[s])
        BY <1>1 DEF Applied
      <3>2. s \in Slots
        BY <1>1 DEF JobOK, StepOK, Slots, SlotOf
      <3>3. QED
        BY <1>0, <3>1, <3>2
    <2>2. s \in Slots /\ m \in Models /\ m \in ModelsOf(s) /\ m # None
      BY <1>1, ModelsAssumption DEF JobOK, StepOK, Slots, SlotOf, Models, ModelsOf
    <2>3. /\ Applied(v, job) \in VM
          /\ Applied(v, job).current[s] = m
          /\ Applied(v, job).stored[s] = n
          /\ \A r \in Slots \ {s} : /\ (r \in Applied(v, job).loaded <=> r \in v.loaded)
                                   /\ Applied(v, job).current[r] = v.current[r]
                                   /\ Applied(v, job).stored[r] = v.stored[r]
      BY <1>0, <2>1, <2>2 DEF Settled, VM
    <2>4. \A r \in Slots : AnswerFor(job, r) <=> r = s
      BY <1>1 DEF AnswerFor, Replied
    <2>5. QED
      BY <1>0, <1>1, <2>1, <2>2, <2>3, <2>4 DEF Kinds
  <1>2. CASE job.state = "failed" /\ job.call.op = "load"
    <2>1. Applied(v, job) = Settled(v, s, FALSE, v.current[s], v.stored[s])
      BY <1>2 DEF Applied
    <2>2. s \in Slots
      BY <1>2 DEF JobOK, StepOK, Slots, SlotOf
    <2>3. /\ Applied(v, job) \in VM
          /\ s \notin Applied(v, job).loaded
          /\ Applied(v, job).current[s] = v.current[s]
          /\ Applied(v, job).stored[s] = v.stored[s]
          /\ \A r \in Slots \ {s} : /\ (r \in Applied(v, job).loaded <=> r \in v.loaded)
                                   /\ Applied(v, job).current[r] = v.current[r]
                                   /\ Applied(v, job).stored[r] = v.stored[r]
      BY <1>0, <2>1, <2>2 DEF Settled, VM
    <2>4. \A r \in Slots : AnswerFor(job, r) <=> r = s
      BY <1>2 DEF AnswerFor, Replied
    <2>5. QED
      BY <1>0, <1>2, <2>2, <2>3, <2>4 DEF Kinds
  <1>3. CASE job.state = "ok" /\ job.call.op = "unload"
    <2>1. PICK i \in {v.current[s], None}, n \in {v.stored[s], None} :
             Applied(v, job) = Settled(v, s, FALSE, i, n)
      <3>1. Applied(v, job) = IF job.call.mark
                              THEN Settled(v, s, FALSE, None, None)
                              ELSE Settled(v, s, FALSE, v.current[s], v.stored[s])
        BY <1>3 DEF Applied
      <3>2. s \in Slots
        BY <1>3 DEF JobOK, StepOK
      <3>3. QED
        BY <1>0, <3>1, <3>2
    <2>2. s \in Slots
      BY <1>3 DEF JobOK, StepOK
    <2>3. /\ Applied(v, job) \in VM
          /\ s \notin Applied(v, job).loaded
          /\ Applied(v, job).current[s] = i
          /\ Applied(v, job).stored[s] = n
          /\ \A r \in Slots \ {s} : /\ (r \in Applied(v, job).loaded <=> r \in v.loaded)
                                   /\ Applied(v, job).current[r] = v.current[r]
                                   /\ Applied(v, job).stored[r] = v.stored[r]
      BY <1>0, <2>1, <2>2 DEF Settled, VM
    <2>4. \A r \in Slots : AnswerFor(job, r) <=> r = s
      BY <1>3 DEF AnswerFor, Replied
    <2>5. QED
      BY <1>0, <1>3, <2>1, <2>2, <2>3, <2>4 DEF Kinds
  <1>4. CASE ~ \/ job.state = "ok" /\ job.call.op = "load"
               \/ job.state = "failed" /\ job.call.op = "load"
               \/ job.state = "ok" /\ job.call.op = "unload"
    <2>1. Applied(v, job) = v
      BY <1>4 DEF Applied
    <2>2. ~Replied(job)
      BY <1>4 DEF JobOK, Replied
    <2>3. QED
      BY <2>1, <2>2 DEF AnswerFor
  <1>5. QED
    BY <1>1, <1>2, <1>3, <1>4

\* The code before an await raises a loading flag and nothing else.
LEMMA StartedOK ==
  ASSUME NEW v \in VM, NEW c, StepOK(c)
  PROVE  /\ Started(v, c) \in VM
         /\ Started(v, c).loaded = v.loaded
         /\ Started(v, c).current = v.current
         /\ Started(v, c).stored = v.stored
  <1>1. c.op = "load" => c.slot \in Slots
    BY DEF StepOK, SlotOf, Slots
  <1>2. QED
    BY <1>1 DEF Started, VM

\* Two queues in a row, element by element.
LEMMA EnqueueAll ==
  ASSUME NEW S, NEW q \in Seq(S), NEW t \in Seq(S)
  PROVE  /\ q \o t \in Seq(S)
         /\ Len(q \o t) = Len(q) + Len(t)
         /\ DOMAIN q = 1..Len(q) /\ DOMAIN t = 1..Len(t)
         /\ Len(q) \in Nat /\ Len(t) \in Nat
         /\ \A i \in 1..Len(q) : (q \o t)[i] = q[i]
         /\ \A i \in 1..(Len(q) + Len(t)) :
              i > Len(q) => i - Len(q) \in DOMAIN t /\ (q \o t)[i] = t[i - Len(q)]
  OBVIOUS

-----------------------------------------------------------------------------
(* What the steps do, in the terms of the invariant. *)

\* Jobs that are new and do not shut the engine down.
QuietJobs(jobs) ==
  /\ jobs \in Seq(Jobs)
  /\ \A i \in DOMAIN jobs :
       JobOK(jobs[i]) /\ jobs[i].state = "start" /\ jobs[i].call # Shutdown

\* The steps jobs are made of are well-formed.
LEMMA StepsOK ==
  /\ StepOK(NoStep) /\ NoStep.op = "none" /\ StepOK(Shutdown) /\ Shutdown.op = "shutdown"
  /\ \A s \in Slots, b \in BOOLEAN : StepOK(Unload(s, b)) /\ Unload(s, b).op = "unload"
  /\ \A s \in Slots : StepOK(Restore(s)) /\ Restore(s).op = "restore"
  /\ \A s \in Slots : StepOK(Fallback(s)) /\ Fallback(s).op = "fallback"
  /\ \A m \in Models, b \in BOOLEAN : StepOK(Load(m, b)) /\ Load(m, b).op = "load"
  /\ \A m \in Models : SlotOf(m) \in Slots
  <1>1. \A m \in Models : SlotOf(m) \in Slots
    BY DEF SlotOf, Slots
  <1>2. QED
    BY <1>1 DEF StepOK, NoStep, Shutdown, Unload, Restore, Fallback, Load, Step, Steps

\* A new job of quiet steps is quiet.
LEMMA JobsOK ==
  /\ \A first, second :
       /\ StepOK(first) /\ StepOK(second)
       /\ first.op \in {"load", "unload", "restore", "fallback"} /\ second.op # "shutdown"
       => QuietJobs(<<Job(first, second)>>)
  /\ QuietJobs(<<RehydrateJob>>)
  <1>1. ASSUME NEW first, NEW second, StepOK(first), StepOK(second),
               first.op \in {"load", "unload", "restore", "fallback"}, second.op # "shutdown",
               NEW b \in BOOLEAN,
               NEW j, j = [state |-> "start", call |-> first, next |-> second, rehydrate |-> b]
        PROVE  QuietJobs(<<j>>)
    <2>1. j \in Jobs
      BY <1>1 DEF Jobs, StepOK
    <2>2. JobOK(j) /\ j.state = "start"
      BY <1>1, <2>1 DEF JobOK, Replied
    <2>3. j.call # Shutdown
      BY <1>1 DEF Shutdown, Step
    <2>4. <<j>> \in Seq(Jobs) /\ DOMAIN <<j>> = {1} /\ <<j>>[1] = j
      BY <2>1
    <2>5. QED
      BY <2>2, <2>3, <2>4 DEF QuietJobs
  <1>2. QuietJobs(<<RehydrateJob>>)
    BY <1>1, StepsOK DEF RehydrateJob, Slots
  <1>3. QED
    BY <1>1, <1>2 DEF Job

\* Quiet jobs can be queued one after the other.
LEMMA JobsConcat ==
  /\ QuietJobs(<<>>)
  /\ \A t, u : QuietJobs(t) /\ QuietJobs(u) => QuietJobs(t \o u)
  <1>1. QuietJobs(<<>>)
    BY DEF QuietJobs
  <1>2. ASSUME NEW t, NEW u, QuietJobs(t), QuietJobs(u)
        PROVE  QuietJobs(t \o u)
    <2>1. t \in Seq(Jobs) /\ u \in Seq(Jobs)
      BY <1>2 DEF QuietJobs
    <2>2. t \o u \in Seq(Jobs) /\ DOMAIN (t \o u) = 1..(Len(t) + Len(u))
      BY <2>1, EnqueueAll
    <2>3. ASSUME NEW i \in DOMAIN (t \o u)
          PROVE  (t \o u)[i] \in {t[k] : k \in DOMAIN t} \cup {u[k] : k \in DOMAIN u}
      BY <2>1, <2>2, EnqueueAll
    <2>4. QED
      BY <1>2, <2>2, <2>3 DEF QuietJobs
  <1>3. QED
    BY <1>1, <1>2

Typed == TypeOK /\ WellFormed

\* User actions, downloads and the return to the foreground only queue new
\* jobs, none of which shuts the engine down.
LEMMA QuietEvents ==
  ASSUME Typed,
         \/ UserEvent
         \/ \E m \in Models : DownloadFinished(m)
         \/ BecomeActive
  PROVE  /\ \E jobs : QuietJobs(jobs) /\ mainQ' = mainQ \o jobs
         /\ UNCHANGED <<vm, rehydrating, engine, engineQ, crossed>>
         /\ scene' \in {"active", "background"} /\ installed' \in SUBSET Models
  <1> DEFINE Quiet == \E jobs : QuietJobs(jobs) /\ mainQ' = mainQ \o jobs
  <1>1. ASSUME NEW m \in Models, UserLoad(m)
        PROVE  Quiet
    <2>1. mainQ' = mainQ \o <<Job(Load(m, TRUE), NoStep)>>
      BY <1>1 DEF UserLoad, Spawn
    <2>2. QED
      BY <2>1, JobsOK, StepsOK
  <1>2. ASSUME NEW m \in Models, UserReload(m)
        PROVE  Quiet
    <2>1. mainQ' = mainQ \o <<Job(Unload(SlotOf(m), FALSE), Load(m, TRUE))>>
      BY <1>2 DEF UserReload, Spawn
    <2>2. QED
      BY <2>1, JobsOK, StepsOK
  <1>3. ASSUME UNCHANGED mainQ
        PROVE  Quiet
    <2>1. mainQ' = mainQ \o <<>>
      BY <1>3 DEF Typed, TypeOK
    <2>2. QED
      BY <2>1, JobsConcat
  <1>4. ASSUME NEW m \in Models, UserDelete(m)
        PROVE  Quiet
    <2>1. CASE vm.current[SlotOf(m)] = m
      <3>1. mainQ' = mainQ \o <<Job(Unload(SlotOf(m), TRUE), NoStep)>>
        BY <1>4, <2>1 DEF UserDelete, Spawn
      <3>2. QED
        BY <3>1, JobsOK, StepsOK
    <2>2. CASE vm.current[SlotOf(m)] # m
      BY <1>3, <1>4, <2>2 DEF UserDelete
    <2>3. QED
      BY <2>1, <2>2
  <1>5. ASSUME UserOffloadAll
        PROVE  Quiet
    <2>1. mainQ' = mainQ \o <<Job(Unload("chat", FALSE), Unload("embedding", FALSE))>>
      BY <1>5 DEF UserOffloadAll, Spawn
    <2>2. "chat" \in Slots /\ "embedding" \in Slots
      BY DEF Slots
    <2>3. QED
      BY <2>1, <2>2, JobsOK, StepsOK
  <1>6. ASSUME SendWithNotes
        PROVE  Quiet
    <2>1. mainQ' = mainQ \o <<Job(Restore("embedding"), Fallback("embedding"))>>
      BY <1>6 DEF SendWithNotes, Spawn
    <2>2. "embedding" \in Slots
      BY DEF Slots
    <2>3. QED
      BY <2>1, <2>2, JobsOK, StepsOK
  <1>7. ASSUME BecomeActive
        PROVE  Quiet
    <2>1. mainQ' = mainQ \o <<RehydrateJob>>
      BY <1>7 DEF BecomeActive, Spawn
    <2>2. "chat" \in Slots /\ "embedding" \in Slots
      BY DEF Slots
    <2>3. QED
      BY <2>1, <2>2, JobsOK, StepsOK
  <1>8. ASSUME OnboardingAppears
        PROVE  Quiet
    <2>1. PICK c \in ChatModels, e \in EmbeddingModels :
            mainQ' = mainQ \o ((IF vm.current["chat"] = None
                                THEN <<Job(Load(c, TRUE), NoStep)>> ELSE <<>>)
                               \o (IF vm.current["embedding"] = None
                                   THEN <<Job(Load(e, TRUE), NoStep)>> ELSE <<>>))
      BY <1>8, Zenon DEF OnboardingAppears, Spawn
    <2>2. c \in Models /\ e \in Models
      BY DEF Models
    <2>3. QuietJobs(<<Job(Load(c, TRUE), NoStep)>>) /\ QuietJobs(<<Job(Load(e, TRUE), NoStep)>>)
      BY <2>2, JobsOK, StepsOK
    <2>4. QED
      BY <2>1, <2>3, JobsConcat
  <1>9. Quiet
    BY <1>1, <1>2, <1>3, <1>4, <1>5, <1>6, <1>7, <1>8 DEF UserEvent, DownloadFinished
  <1>10. QED
    BY <1>9 DEF UserEvent, UserLoad, UserReload, UserDelete, UserOffloadAll, SendWithNotes,
                OnboardingAppears, DownloadFinished, BecomeActive, Typed, TypeOK

\* A turn takes the head of mainQ, hands its answer over, and at most queues
\* one call that carries on the same job.
LEMMA Turns ==
  ASSUME Typed, Turn
  PROVE  LET job == Head(mainQ)
             v   == Applied(vm, job)
         IN /\ mainQ # <<>> /\ mainQ' = Tail(mainQ)
            /\ UNCHANGED <<scene, installed, engine, crossed>>
            /\ rehydrating' \in BOOLEAN
            /\ vm' \in VM /\ vm'.loaded = v.loaded /\ vm'.current = v.current /\ vm'.stored = v.stored
            /\ \/ UNCHANGED engineQ
               \/ \E e : /\ engineQ' = Append(engineQ, e)
                         /\ JobOK(e) /\ e.state = "posted"
                         /\ \A s \in Slots : Touches(e, s) => Touches(job, s)
                         /\ e.call = Shutdown => job.call = Shutdown
  <1> DEFINE job == Head(mainQ)
             v   == Applied(vm, job)
             Posted(e) == /\ engineQ' = Append(engineQ, e)
                          /\ JobOK(e) /\ e.state = "posted"
                          /\ \A s \in Slots : Touches(e, s) => Touches(job, s)
                          /\ e.call = Shutdown => job.call = Shutdown
  <1>1. mainQ # <<>> /\ mainQ' = Tail(mainQ) /\ UNCHANGED <<scene, installed, engine, crossed>>
    BY DEF Turn, RehydrateRefused, CallFirst, CallSecond, Finish
  <1>2. JobOK(job) /\ job.state # "posted"
    BY <1>1, Dequeue DEF Typed, TypeOK, WellFormed
  <1>3. /\ vm \in VM /\ installed \in SUBSET Models /\ rehydrating \in BOOLEAN
        /\ Kinds(vm)
    BY DEF Typed, TypeOK, WellFormed
  <1>4. /\ v \in VM
        /\ Kinds(v)
    BY <1>2, <1>3, AppliedOK
  <1>5. job.state = "start" => v = vm
    BY DEF Applied
  <1>6. job.rehydrate \in BOOLEAN
    BY <1>2 DEF JobOK, Jobs
  <1>7. ASSUME NEW st \in {job.call, job.next}, NEW next \in {job.next, NoStep},
               NEW w \in {vm, v}, w = v,
               NEW c \in Calls(w, st), Post(w, job, c, next)
        PROVE  /\ rehydrating' \in BOOLEAN
               /\ vm' \in VM /\ vm'.loaded = v.loaded /\ vm'.current = v.current /\ vm'.stored = v.stored
               /\ \E e : Posted(e)
    <2> DEFINE e == [state |-> "posted", call |-> c, next |-> next, rehydrate |-> job.rehydrate]
    <2>1. StepOK(st) /\ StepOK(next) /\ next.op # "shutdown"
      BY <1>2, StepsOK DEF JobOK
    <2>2. /\ StepOK(c) /\ c.op \in {"load", "unload", "shutdown"} /\ c.slot = st.slot
          /\ c.op = "shutdown" <=> st.op = "shutdown"
      BY <1>3, <1>4, <1>7, <2>1, CallsOK
    <2>3. /\ rehydrating' \in BOOLEAN
          /\ vm' \in VM /\ vm'.loaded = v.loaded /\ vm'.current = v.current /\ vm'.stored = v.stored
      BY <1>3, <1>4, <1>6, <1>7, <2>2, StartedOK DEF Post
    <2>4. engineQ' = Append(engineQ, e)
      BY <1>7 DEF Post
    <2>5. e \in Jobs
      BY <1>6, <2>1, <2>2 DEF Jobs, StepOK
    <2>6. c.op = "shutdown" => st = job.call /\ job.call = Shutdown /\ job.next = NoStep
      BY <1>2, <2>2, StepsOK DEF JobOK, StepOK
    <2>7. JobOK(e) /\ e.state = "posted"
      BY <2>1, <2>2, <2>5, <2>6 DEF JobOK, Replied
    <2>8. ASSUME NEW s \in Slots, Touches(e, s)
          PROVE  Touches(job, s)
      <3>1. s # NoStep.slot
        BY ModelsAssumption DEF NoStep, Step, Slots
      <3>2. QED
        BY <2>2, <2>8, <3>1 DEF Touches
    <2>9. e.call = Shutdown => job.call = Shutdown
      BY <2>6 DEF Shutdown, Step
    <2>10. QED
      BY <2>3, <2>4, <2>7, <2>8, <2>9
  <1>8. CASE RehydrateRefused
    <2>1. job.state = "start" /\ vm' = vm /\ rehydrating' = rehydrating /\ engineQ' = engineQ
      BY <1>8 DEF RehydrateRefused, Refused
    <2>2. QED
      BY <1>1, <1>3, <1>5, <2>1
  <1>9. CASE CallFirst
    <2>1. PICK c \in Calls(vm, job.call) : Post(vm, job, c, job.next)
      BY <1>9 DEF CallFirst
    <2>2. vm = v
      BY <1>5, <1>9 DEF CallFirst
    <2>3. QED
      BY <1>1, <1>7, <2>1, <2>2
  <1>10. CASE CallSecond
    <2>1. PICK c \in Calls(v, job.next) : Post(v, job, c, NoStep)
      BY <1>10 DEF CallSecond
    <2>2. QED
      BY <1>1, <1>7, <2>1
  <1>11. CASE Finish
    <2>1. vm' = v /\ rehydrating' = (rehydrating /\ ~job.rehydrate) /\ engineQ' = engineQ
      BY <1>11 DEF Finish
    <2>2. QED
      BY <1>1, <1>3, <1>4, <2>1
  <1>12. QED
    BY <1>8, <1>9, <1>10, <1>11 DEF Turn

\* The engine takes the head of engineQ.  It answers on mainQ, and then the slot
\* of the call is what the answer says; or it shuts down and answers nobody.
LEMMA Serves ==
  ASSUME Typed, Serve
  PROVE  LET job == Head(engineQ)
             s   == job.call.slot
         IN /\ engineQ # <<>> /\ engineQ' = Tail(engineQ)
            /\ UNCHANGED <<scene, installed, vm, rehydrating>>
            /\ engine' \in [Slots -> Models \cup {None}]
            /\ \/ \E r : /\ mainQ' = Append(mainQ, r)
                         /\ JobOK(r) /\ Replied(r)
                         /\ r.call = job.call /\ r.next = job.next
                         /\ s \in Slots
                         /\ \A t \in Slots \ {s} : engine'[t] = engine[t]
                         /\ r.state = "ok" /\ r.call.op = "load" => engine'[s] = r.call.model
                         /\ crossed' = IF ShutdownIn(mainQ) \/ ShutdownIn(Tail(engineQ))
                                       THEN crossed ELSE crossed \ {s}
               \/ /\ job.call = Shutdown
                  /\ UNCHANGED <<mainQ, crossed>>
  <1> DEFINE job == Head(engineQ)
             s   == job.call.slot
             Answered(o) == [state |-> o, call |-> job.call, next |-> job.next,
                             rehydrate |-> job.rehydrate]
  <1>1. engineQ # <<>>
    BY DEF Serve, ServeLoad, ServeLoadFails, ServeUnload, ServeShutdown
  <1>2. JobOK(job) /\ job.state = "posted"
    BY <1>1, Dequeue DEF Typed, TypeOK, WellFormed
  <1>3. engine \in [Slots -> Models \cup {None}]
    BY DEF Typed, TypeOK
  <1>4. ASSUME NEW o \in {"ok", "failed"}, Reply(job, o), job.call.op \in {"load", "unload"},
               o = "failed" => job.call.op = "load"
        PROVE  /\ engineQ' = Tail(engineQ)
               /\ UNCHANGED <<scene, installed, vm, rehydrating>>
               /\ mainQ' = Append(mainQ, Answered(o))
               /\ JobOK(Answered(o)) /\ Replied(Answered(o))
               /\ s \in Slots
               /\ crossed' = IF ShutdownIn(mainQ) \/ ShutdownIn(Tail(engineQ))
                             THEN crossed ELSE crossed \ {s}
    <2>1. mainQ' = Append(mainQ, Answered(o))
      BY <1>2, <1>4 DEF Reply, JobOK, Jobs
    <2>2. Answered(o) \in Jobs
      BY <1>2, <1>4 DEF JobOK, Jobs
    <2>3. JobOK(Answered(o)) /\ Replied(Answered(o))
      BY <1>2, <1>4, <2>2 DEF JobOK, Replied
    <2>4. s \in Slots
      BY <1>2, <1>4 DEF JobOK, StepOK, SlotOf, Slots
    <2>5. QED
      BY <1>4, <2>1, <2>3, <2>4 DEF Reply
  <1>5. CASE ServeLoad
    <2>1. /\ job.call.op = "load" /\ Reply(job, "ok")
          /\ engine' = [engine EXCEPT ![s] = job.call.model]
          /\ job.call.model \in Models
      BY <1>2, <1>5 DEF ServeLoad, JobOK, StepOK
    <2>2. QED
      BY <1>1, <1>3, <1>4, <2>1
  <1>6. CASE ServeLoadFails
    <2>1. /\ job.call.op = "load" /\ Reply(job, "failed")
          /\ engine' = engine \/ engine' = [engine EXCEPT ![s] = None]
      BY <1>6 DEF ServeLoadFails
    <2>2. QED
      BY <1>1, <1>3, <1>4, <2>1
  <1>7. CASE ServeUnload
    <2>1. /\ job.call.op = "unload" /\ Reply(job, "ok")
          /\ engine' = [engine EXCEPT ![s] = None]
      BY <1>7 DEF ServeUnload
    <2>2. QED
      BY <1>1, <1>3, <1>4, <2>1
  <1>8. CASE ServeShutdown
    BY <1>1, <1>2, <1>8 DEF ServeShutdown, JobOK, StepOK
  <1>9. QED
    BY <1>5, <1>6, <1>7, <1>8 DEF Serve

\* Going to the background queues the shutdown and lowers every flag.
LEMMA Backgrounds ==
  ASSUME EnterBackground
  PROVE  /\ mainQ' = mainQ \o <<Job(Shutdown, NoStep)>>
         /\ vm' = [vm EXCEPT !.loaded = {}, !.loading = {}]
         /\ UNCHANGED <<installed, rehydrating, engine, engineQ>>
         /\ scene' = "background"
         /\ crossed' = crossed \cup
              {s \in Slots : \E job \in JobsIn(mainQ) \cup JobsIn(engineQ) : Touches(job, s)}
  BY DEF EnterBackground, Spawn

LEMMA ShutdownJobOK ==
  LET job == Job(Shutdown, NoStep)
  IN /\ JobOK(job) /\ job.state = "start" /\ job.call = Shutdown
     /\ <<job>> \in Seq(Jobs) /\ DOMAIN <<job>> = {1} /\ <<job>>[1] = job /\ Len(<<job>>) = 1
     /\ \A s \in Slots : ~Touches(job, s)
  <1> DEFINE job == Job(Shutdown, NoStep)
  <1>1. job \in Jobs /\ job.state = "start" /\ job.call = Shutdown /\ job.next = NoStep
    BY StepsOK DEF Job, Jobs, StepOK
  <1>2. JobOK(job)
    BY <1>1, StepsOK DEF JobOK, Replied
  <1>3. ASSUME NEW s \in Slots PROVE ~Touches(job, s)
    BY <1>1, ModelsAssumption DEF Touches, Shutdown, NoStep, Step, Slots
  <1>4. QED
    BY <1>1, <1>2, <1>3

-----------------------------------------------------------------------------
(* Type correctness *)

LEMMA TypedNext == Typed /\ [Next]_vars => Typed'
  <1> SUFFICES ASSUME Typed, [Next]_vars PROVE Typed'
    OBVIOUS
  <1>0. /\ mainQ \in Seq(Jobs) /\ engineQ \in Seq(Jobs) /\ vm \in VM
        /\ engine \in [Slots -> Models \cup {None}] /\ crossed \in SUBSET Slots
        /\ installed \in SUBSET Models /\ rehydrating \in BOOLEAN
        /\ scene \in {"active", "background"}
    BY DEF Typed, TypeOK
  <1>1. /\ \A i \in DOMAIN mainQ : JobOK(mainQ[i]) /\ mainQ[i].state # "posted"
        /\ \A i \in DOMAIN engineQ : JobOK(engineQ[i]) /\ engineQ[i].state = "posted"
        /\ Kinds(vm)
    BY DEF Typed, WellFormed
  <1> DEFINE MainOK == /\ mainQ' \in Seq(Jobs)
                       /\ \A i \in DOMAIN mainQ' : JobOK(mainQ'[i]) /\ mainQ'[i].state # "posted"
             EngineOK == /\ engineQ' \in Seq(Jobs)
                         /\ \A i \in DOMAIN engineQ' :
                              JobOK(engineQ'[i]) /\ engineQ'[i].state = "posted"
             RestOK == /\ vm' \in VM /\ engine' \in [Slots -> Models \cup {None}]
                       /\ crossed' \in SUBSET Slots /\ installed' \in SUBSET Models
                       /\ rehydrating' \in BOOLEAN /\ scene' \in {"active", "background"}
                       /\ Kinds(vm')
  <1>2. ASSUME NEW jobs \in Seq(Jobs), mainQ' = mainQ \o jobs,
               \A i \in DOMAIN jobs : JobOK(jobs[i]) /\ jobs[i].state = "start"
        PROVE  MainOK
    BY <1>0, <1>1, <1>2, EnqueueAll
  <1>3. CASE Turn
    <2>1. MainOK
      <3>1. mainQ # <<>> /\ mainQ' = Tail(mainQ)
        BY <1>3, Turns
      <3>2. QED
        BY <1>0, <1>1, <3>1, Dequeue
    <2>2. EngineOK
      <3>1. CASE engineQ' = engineQ
        BY <1>0, <1>1, <3>1
      <3>2. CASE \E e : engineQ' = Append(engineQ, e) /\ JobOK(e) /\ e.state = "posted"
        BY <1>0, <1>1, <3>2, Enqueue DEF JobOK
      <3>3. QED
        BY <1>3, <3>1, <3>2, Turns
    <2>3. Head(mainQ) \in Jobs /\ JobOK(Head(mainQ))
      BY <1>0, <1>1, <1>3, Turns, Dequeue
    <2>4. RestOK
      BY <1>0, <1>1, <1>3, <2>3, Turns, AppliedOK DEF Kinds
    <2>5. QED
      BY <2>1, <2>2, <2>4 DEF Typed, TypeOK, WellFormed
  <1>4. CASE Serve
    <2>1. EngineOK
      <3>1. engineQ # <<>> /\ engineQ' = Tail(engineQ)
        BY <1>4, Serves
      <3>2. QED
        BY <1>0, <1>1, <3>1, Dequeue
    <2>2. MainOK
      <3>1. CASE UNCHANGED mainQ
        BY <1>0, <1>1, <3>1
      <3>2. CASE \E r : mainQ' = Append(mainQ, r) /\ JobOK(r) /\ Replied(r)
        BY <1>0, <1>1, <3>2, Enqueue DEF JobOK, Replied
      <3>3. QED
        BY <1>4, <3>1, <3>2, Serves
    <2>3. RestOK
      BY <1>0, <1>1, <1>4, Serves
    <2>4. QED
      BY <2>1, <2>2, <2>3 DEF Typed, TypeOK, WellFormed
  <1>5. CASE UserEvent \/ (\E m \in Models : DownloadFinished(m)) \/ BecomeActive
    <2>1. MainOK
      BY <1>2, <1>5, QuietEvents DEF QuietJobs
    <2>2. EngineOK /\ RestOK
      BY <1>0, <1>1, <1>5, QuietEvents
    <2>3. QED
      BY <2>1, <2>2 DEF Typed, TypeOK, WellFormed
  <1>6. CASE EnterBackground
    <2>1. MainOK
      BY <1>2, <1>6, Backgrounds, ShutdownJobOK
    <2>2. EngineOK /\ RestOK
      BY <1>0, <1>1, <1>6, Backgrounds DEF VM, Kinds
    <2>3. QED
      BY <2>1, <2>2 DEF Typed, TypeOK, WellFormed
  <1>7. CASE Relaunch
    <2>1. MainOK /\ EngineOK
      BY <1>7 DEF Relaunch
    <2>2. RestOK
      BY <1>0, <1>1, <1>7 DEF Relaunch, VM, Kinds
    <2>3. QED
      BY <2>1, <2>2 DEF Typed, TypeOK, WellFormed
  <1>8. CASE UNCHANGED vars
    BY <1>8 DEF vars, Typed, TypeOK, WellFormed
  <1>9. QED
    BY <1>3, <1>4, <1>5, <1>6, <1>7, <1>8 DEF Next, SystemEvent

LEMMA TypedInit == Init => Typed
  <1> SUFFICES ASSUME Init PROVE Typed
    OBVIOUS
  <1>1. vm \in VM /\ Kinds(vm)
    BY DEF Init, VM, Kinds
  <1>2. mainQ \in Seq(Jobs) /\ engineQ \in Seq(Jobs) /\ DOMAIN mainQ = {} /\ DOMAIN engineQ = {}
    BY DEF Init
  <1>3. QED
    BY <1>1, <1>2 DEF Init, Typed, TypeOK, WellFormed

\* Types: queues hold well-formed jobs, flags and selections are of their kind.
THEOREM TypeCorrect == Spec => []TypeOK
  <1>1. Typed => TypeOK
    BY DEF Typed
  <1>2. QED
    BY TypedInit, TypedNext, <1>1, PTL DEF Spec

-----------------------------------------------------------------------------
(* The flags tell the truth *)

LEMMA ShutdownInQueue ==
  ASSUME NEW q
  PROVE  ShutdownIn(q) <=> \E i \in DOMAIN q : q[i].call = Shutdown
  BY DEF ShutdownIn, JobsIn

LEMMA AnswersTouch ==
  ASSUME NEW job, NEW s, AnswerFor(job, s)
  PROVE  Touches(job, s) /\ Replied(job)
  BY DEF AnswerFor, Touches

\* While a shutdown is outstanding an untouched slot has no answer under way.
LEMMA QuietSlot ==
  ASSUME NEW s \in Slots, BehindShutdown(s), ShutdownOutstanding
  PROVE  s \notin vm.loaded /\ \A i \in DOMAIN mainQ : ~AnswerFor(mainQ[i], s)
  BY AnswersTouch DEF BehindShutdown

LEMMA SlotInvTurn ==
  ASSUME Typed, NEW s \in Slots, SlotInv(s), s \notin crossed', Turn
  PROVE  BehindShutdown(s)' /\ (~ShutdownOutstanding' => YoungestAnswer(s)')
  <1> DEFINE job == Head(mainQ)
             v   == Applied(vm, job)
  <1>1. /\ mainQ # <<>> /\ mainQ' = Tail(mainQ) /\ crossed' = crossed /\ engine' = engine
        /\ vm'.loaded = v.loaded /\ vm'.current = v.current
    BY Turns
  <1>2. /\ mainQ \in Seq(Jobs) /\ engineQ \in Seq(Jobs)
        /\ job = mainQ[1] /\ 1 \in DOMAIN mainQ
        /\ \A i \in DOMAIN mainQ' : mainQ'[i] = mainQ[i + 1] /\ i + 1 \in DOMAIN mainQ
        /\ DOMAIN mainQ = 1..Len(mainQ) /\ DOMAIN mainQ' = 1..(Len(mainQ) - 1)
        /\ Len(mainQ) \in Nat
    BY <1>1, Dequeue DEF Typed, TypeOK
  <1>3. BehindShutdown(s) /\ (~ShutdownOutstanding => YoungestAnswer(s))
    BY <1>1 DEF SlotInv
  <1>4. /\ ~AnswerFor(job, s) => (s \in vm'.loaded <=> s \in vm.loaded)
                                 /\ vm'.current[s] = vm.current[s]
        /\ AnswerFor(job, s) /\ s \in vm'.loaded
             => /\ job.state = "ok" /\ job.call.op = "load"
                /\ vm'.current[s] = job.call.model /\ vm'.current[s] # None
    <2>1. vm \in VM /\ Kinds(vm) /\ JobOK(job)
      BY <1>2 DEF Typed, TypeOK, WellFormed
    <2>2. /\ ~AnswerFor(job, s) => (s \in v.loaded <=> s \in vm.loaded)
                                   /\ v.current[s] = vm.current[s]
          /\ AnswerFor(job, s) /\ s \in v.loaded
               => /\ job.state = "ok" /\ job.call.op = "load"
                  /\ v.current[s] = job.call.model /\ v.current[s] # None
      BY <2>1, AppliedOK
    <2>3. QED
      BY <1>1, <2>2
  <1>5. \/ engineQ' = engineQ
        \/ \E e \in Jobs : /\ engineQ' = Append(engineQ, e)
                           /\ Touches(e, s) => Touches(job, s)
                           /\ e.call = Shutdown => job.call = Shutdown
    BY Turns DEF JobOK
  <1>6. /\ ShutdownIn(mainQ') => ShutdownIn(mainQ)
        /\ ShutdownIn(engineQ') => ShutdownIn(engineQ) \/ job.call = Shutdown
    <2>1. ShutdownIn(mainQ') => ShutdownIn(mainQ)
      BY <1>2, ShutdownInQueue
    <2>2. CASE engineQ' = engineQ
      BY <2>1, <2>2
    <2>3. ASSUME NEW e \in Jobs, engineQ' = Append(engineQ, e), e.call = Shutdown => job.call = Shutdown
          PROVE  ShutdownIn(engineQ') => ShutdownIn(engineQ) \/ job.call = Shutdown
      <3>1. /\ DOMAIN engineQ = 1..Len(engineQ) /\ Len(engineQ) \in Nat
            /\ DOMAIN engineQ' = 1..(Len(engineQ) + 1)
            /\ \A k \in 1..Len(engineQ) : engineQ'[k] = engineQ[k]
            /\ engineQ'[Len(engineQ) + 1] = e
        BY <1>2, <2>3, Enqueue
      <3>2. ASSUME NEW k \in DOMAIN engineQ', engineQ'[k].call = Shutdown
            PROVE  ShutdownIn(engineQ) \/ job.call = Shutdown
        <4>1. k \in DOMAIN engineQ \/ k = Len(engineQ) + 1
          BY <3>1
        <4>2. QED
          BY <2>3, <3>1, <3>2, <4>1, ShutdownInQueue
      <3>3. QED
        BY <3>2, ShutdownInQueue
    <2>4. QED
      BY <1>5, <2>1, <2>2, <2>3
  <1>7. ShutdownOutstanding' => ShutdownOutstanding
    BY <1>2, <1>6, ShutdownInQueue DEF ShutdownOutstanding
  <1>8. AnswerFor(job, s) => ~ShutdownOutstanding
    BY <1>2, <1>3, AnswersTouch DEF BehindShutdown
  <1>9. BehindShutdown(s)'
    <2>1. ShutdownOutstanding' => s \notin vm'.loaded
      BY <1>3, <1>4, <1>7, <1>8 DEF BehindShutdown
    <2>2. ASSUME NEW i \in DOMAIN mainQ', Touches(mainQ'[i], s)
          PROVE  /\ Replied(mainQ'[i]) => ~ShutdownOutstanding'
                 /\ \A j \in DOMAIN mainQ' : j > i => mainQ'[j].call # Shutdown
      <3>1. \A j \in DOMAIN mainQ' : j > i => j + 1 > i + 1
        BY <1>2
      <3>2. QED
        BY <1>2, <1>3, <1>7, <2>2, <3>1 DEF BehindShutdown
    <2>3. ASSUME NEW i \in DOMAIN engineQ', Touches(engineQ'[i], s)
          PROVE  /\ ~ShutdownIn(mainQ')
                 /\ \A j \in DOMAIN engineQ' : j > i => engineQ'[j].call # Shutdown
      <3>1. CASE engineQ' = engineQ
        BY <1>3, <1>6, <2>3, <3>1 DEF BehindShutdown
      <3>2. ASSUME NEW e \in Jobs, engineQ' = Append(engineQ, e),
                   Touches(e, s) => Touches(job, s), e.call = Shutdown => job.call = Shutdown
            PROVE  /\ ~ShutdownIn(mainQ')
                   /\ \A j \in DOMAIN engineQ' : j > i => engineQ'[j].call # Shutdown
        <4>1. /\ DOMAIN engineQ = 1..Len(engineQ) /\ Len(engineQ) \in Nat
              /\ DOMAIN engineQ' = 1..(Len(engineQ) + 1)
              /\ \A k \in 1..Len(engineQ) : engineQ'[k] = engineQ[k]
              /\ engineQ'[Len(engineQ) + 1] = e
          BY <1>2, <3>2, Enqueue
        <4>2. CASE i \in 1..Len(engineQ)
          <5>1. ~ShutdownIn(mainQ) /\ \A j \in DOMAIN engineQ : j > i => engineQ[j].call # Shutdown
            BY <1>3, <2>3, <4>1, <4>2 DEF BehindShutdown
          <5>2. job.call # Shutdown
            BY <1>2, <5>1, ShutdownInQueue
          <5>3. QED
            BY <1>6, <3>2, <4>1, <5>1, <5>2
        <4>3. CASE i = Len(engineQ) + 1
          <5>1. Touches(mainQ[1], s)
            BY <1>2, <2>3, <3>2, <4>1, <4>3
          <5>2. \A j \in DOMAIN mainQ : j > 1 => mainQ[j].call # Shutdown
            BY <1>2, <1>3, <5>1 DEF BehindShutdown
          <5>3. \A j \in DOMAIN mainQ' : mainQ'[j].call # Shutdown
            <6>1. \A j \in DOMAIN mainQ' : j + 1 > 1
              BY <1>2
            <6>2. QED
              BY <1>2, <5>2, <6>1
          <5>4. QED
            BY <4>1, <4>3, <5>3, ShutdownInQueue
        <4>4. QED
          BY <4>1, <4>2, <4>3
      <3>3. QED
        BY <1>5, <3>1, <3>2
    <2>4. QED
      BY <2>1, <2>2, <2>3 DEF BehindShutdown
  <1>10. ASSUME ShutdownOutstanding
         PROVE  YoungestAnswer(s)'
    BY <1>2, <1>3, <1>4, <1>8, <1>10, QuietSlot DEF YoungestAnswer
  <1>11. ASSUME ~ShutdownOutstanding
         PROVE  YoungestAnswer(s)'
    <2>0. YoungestAnswer(s)
      BY <1>3, <1>11
    <2>1. ASSUME NEW i \in DOMAIN mainQ', AnswerFor(mainQ'[i], s),
                 \A j \in DOMAIN mainQ' : j > i => ~AnswerFor(mainQ'[j], s),
                 mainQ'[i].state = "ok", mainQ'[i].call.op = "load"
          PROVE  engine'[s] = mainQ'[i].call.model
      <3>1. ASSUME NEW k \in DOMAIN mainQ, k > i + 1
            PROVE  ~AnswerFor(mainQ[k], s)
        <4>1. k - 1 \in DOMAIN mainQ' /\ k - 1 > i /\ (k - 1) + 1 = k
          BY <1>2, <3>1
        <4>2. QED
          BY <1>2, <2>1, <4>1
      <3>2. i + 1 \in DOMAIN mainQ /\ mainQ'[i] = mainQ[i + 1]
        BY <1>2
      <3>3. QED
        BY <1>1, <2>0, <2>1, <3>1, <3>2 DEF YoungestAnswer
    <2>2. ASSUME \A i \in DOMAIN mainQ' : ~AnswerFor(mainQ'[i], s), s \in vm'.loaded
          PROVE  engine'[s] # None /\ engine'[s] = vm'.current[s]
      <3>1. ASSUME NEW k \in DOMAIN mainQ, k > 1
            PROVE  ~AnswerFor(mainQ[k], s)
        <4>1. k - 1 \in DOMAIN mainQ' /\ (k - 1) + 1 = k
          BY <1>2, <3>1
        <4>2. QED
          BY <1>2, <2>2, <4>1
      <3>2. CASE AnswerFor(job, s)
        <4>1. engine[s] = job.call.model
          BY <1>2, <1>4, <2>0, <2>2, <3>1, <3>2 DEF YoungestAnswer
        <4>2. QED
          BY <1>1, <1>4, <2>2, <3>2, <4>1
      <3>3. CASE ~AnswerFor(job, s)
        <4>1. \A i \in DOMAIN mainQ : ~AnswerFor(mainQ[i], s)
          <5>1. \A i \in DOMAIN mainQ : i = 1 \/ i > 1
            BY <1>2
          <5>2. QED
            BY <1>2, <3>1, <3>3, <5>1
        <4>2. QED
          BY <1>1, <1>4, <2>0, <2>2, <3>3, <4>1 DEF YoungestAnswer
      <3>4. QED
        BY <3>2, <3>3
    <2>3. QED
      BY <2>1, <2>2 DEF YoungestAnswer
  <1>12. QED
    BY <1>9, <1>10, <1>11

LEMMA SlotInvServe ==
  ASSUME Typed, NEW s \in Slots, SlotInv(s), s \notin crossed', Serve
  PROVE  BehindShutdown(s)' /\ (~ShutdownOutstanding' => YoungestAnswer(s)')
  <1> DEFINE job == Head(engineQ)
  <1>1. /\ engineQ # <<>> /\ engineQ' = Tail(engineQ) /\ vm' = vm
    BY Serves
  <1>2. /\ mainQ \in Seq(Jobs) /\ engineQ \in Seq(Jobs)
        /\ job = engineQ[1] /\ 1 \in DOMAIN engineQ
        /\ \A i \in DOMAIN engineQ' : engineQ'[i] = engineQ[i + 1] /\ i + 1 \in DOMAIN engineQ
        /\ DOMAIN engineQ = 1..Len(engineQ) /\ DOMAIN engineQ' = 1..(Len(engineQ) - 1)
        /\ Len(engineQ) \in Nat
    BY <1>1, Dequeue DEF Typed, TypeOK
  <1>3. ShutdownIn(engineQ') => ShutdownIn(engineQ)
    BY <1>2, ShutdownInQueue
  <1>4. ASSUME s \notin crossed
        PROVE  /\ BehindShutdown(s) /\ (~ShutdownOutstanding => YoungestAnswer(s))
               /\ \A i \in DOMAIN engineQ' :
                    Touches(engineQ'[i], s) =>
                      /\ ~ShutdownIn(mainQ)
                      /\ \A j \in DOMAIN engineQ' : j > i => engineQ'[j].call # Shutdown
    <2>1. BehindShutdown(s) /\ (~ShutdownOutstanding => YoungestAnswer(s))
      BY <1>4 DEF SlotInv
    <2>2. \A i \in DOMAIN engineQ' : \A j \in DOMAIN engineQ' : j > i => j + 1 > i + 1
      BY <1>2
    <2>3. QED
      BY <1>2, <2>1, <2>2 DEF BehindShutdown
  <1>5. CASE job.call = Shutdown /\ UNCHANGED <<mainQ, crossed>>
    <2>1. ShutdownOutstanding
      BY <1>2, <1>5, ShutdownInQueue DEF ShutdownOutstanding
    <2>2. BehindShutdown(s)
      BY <1>4, <1>5
    <2>3. s \notin vm'.loaded /\ \A i \in DOMAIN mainQ' : ~AnswerFor(mainQ'[i], s)
      BY <1>1, <1>5, <2>1, <2>2, QuietSlot
    <2>4. YoungestAnswer(s)'
      BY <2>3 DEF YoungestAnswer
    <2>5. \A i \in DOMAIN mainQ' :
            Touches(mainQ'[i], s) =>
              /\ ~Replied(mainQ'[i])
              /\ \A j \in DOMAIN mainQ' : j > i => mainQ'[j].call # Shutdown
      BY <1>5, <2>1, <2>2 DEF BehindShutdown
    <2>6. BehindShutdown(s)'
      BY <1>4, <1>5, <2>3, <2>5 DEF BehindShutdown
    <2>7. QED
      BY <2>4, <2>6
  <1>6. ASSUME NEW r \in Jobs, mainQ' = Append(mainQ, r), JobOK(r), Replied(r),
               r.call = job.call, r.next = job.next, job.call.slot \in Slots,
               \A t \in Slots \ {job.call.slot} : engine'[t] = engine[t],
               r.state = "ok" /\ r.call.op = "load" => engine'[job.call.slot] = r.call.model,
               crossed' = IF ShutdownIn(mainQ) \/ ShutdownIn(Tail(engineQ))
                          THEN crossed ELSE crossed \ {job.call.slot}
        PROVE  BehindShutdown(s)' /\ (~ShutdownOutstanding' => YoungestAnswer(s)')
    <2>1. /\ DOMAIN mainQ = 1..Len(mainQ) /\ Len(mainQ) \in Nat
          /\ DOMAIN mainQ' = 1..(Len(mainQ) + 1)
          /\ \A k \in 1..Len(mainQ) : mainQ'[k] = mainQ[k]
          /\ mainQ'[Len(mainQ) + 1] = r
          /\ \A k \in DOMAIN mainQ' : k \in DOMAIN mainQ \/ k = Len(mainQ) + 1
      BY <1>2, <1>6, Enqueue
    <2>2. r.call # Shutdown
      BY <1>6 DEF JobOK, Shutdown, Step
    <2>3. ShutdownIn(mainQ') <=> ShutdownIn(mainQ)
      BY <2>1, <2>2, ShutdownInQueue
    <2>4. ShutdownIn(engineQ) <=> ShutdownIn(engineQ')
      <3>1. ASSUME NEW k \in DOMAIN engineQ, engineQ[k].call = Shutdown
            PROVE  ShutdownIn(engineQ')
        <4>1. k # 1
          BY <1>2, <1>6, <2>2, <3>1
        <4>2. k - 1 \in DOMAIN engineQ' /\ (k - 1) + 1 = k
          BY <1>2, <4>1
        <4>3. QED
          BY <1>2, <3>1, <4>2, ShutdownInQueue
      <3>2. QED
        BY <1>3, <3>1, ShutdownInQueue
    <2>5. ShutdownOutstanding' <=> ShutdownOutstanding
      BY <2>3, <2>4 DEF ShutdownOutstanding
    <2>6. CASE s \in crossed
      <3>1. job.call.slot = s /\ ~ShutdownIn(mainQ) /\ ~ShutdownIn(engineQ')
        BY <1>1, <1>6, <2>6
      <3>2. ~ShutdownOutstanding'
        BY <2>3, <3>1 DEF ShutdownOutstanding
      <3>3. BehindShutdown(s)'
        BY <3>2, ShutdownInQueue DEF BehindShutdown, ShutdownOutstanding
      <3>4. AnswerFor(mainQ'[Len(mainQ) + 1], s)
        BY <1>6, <2>1, <3>1 DEF AnswerFor
      <3>5. \A k \in DOMAIN mainQ : Len(mainQ) + 1 > k
        BY <2>1
      <3>6. YoungestAnswer(s)'
        BY <1>6, <2>1, <3>1, <3>4, <3>5 DEF YoungestAnswer
      <3>7. QED
        BY <3>3, <3>6
    <2>7. CASE s \notin crossed
      <3>1. BehindShutdown(s) /\ (~ShutdownOutstanding => YoungestAnswer(s))
        BY <1>4, <2>7
      <3>2. Touches(r, s) => ~ShutdownOutstanding
        <4>1. ASSUME Touches(r, s)
              PROVE  ~ShutdownIn(mainQ) /\ \A j \in DOMAIN engineQ : j > 1 => engineQ[j].call # Shutdown
          <5>1. Touches(engineQ[1], s)
            BY <1>2, <1>6, <4>1 DEF Touches
          <5>2. QED
            BY <1>2, <3>1, <5>1 DEF BehindShutdown
        <4>2. \A j \in DOMAIN engineQ : j = 1 \/ j > 1
          BY <1>2
        <4>3. QED
          BY <1>2, <1>6, <2>2, <4>1, <4>2, ShutdownInQueue DEF ShutdownOutstanding
      <3>3. ShutdownOutstanding' => s \notin vm'.loaded
        BY <1>1, <2>5, <3>1 DEF BehindShutdown
      <3>4. ASSUME NEW i \in DOMAIN mainQ', Touches(mainQ'[i], s)
            PROVE  /\ Replied(mainQ'[i]) => ~ShutdownOutstanding'
                   /\ \A j \in DOMAIN mainQ' : j > i => mainQ'[j].call # Shutdown
        <4>1. CASE i \in DOMAIN mainQ
          BY <2>1, <2>2, <2>5, <3>1, <3>4, <4>1 DEF BehindShutdown
        <4>2. CASE i = Len(mainQ) + 1
          BY <2>1, <2>5, <3>2, <3>4, <4>2
        <4>3. QED
          BY <2>1, <4>1, <4>2
      <3>5. BehindShutdown(s)'
        BY <1>4, <2>3, <2>7, <3>3, <3>4 DEF BehindShutdown
      <3>6. ASSUME ~ShutdownOutstanding'
            PROVE  YoungestAnswer(s)'
        <4>0. YoungestAnswer(s)
          BY <2>5, <3>1, <3>6
        <4>1. CASE job.call.slot = s
          <5>1. AnswerFor(mainQ'[Len(mainQ) + 1], s)
            BY <1>6, <2>1, <4>1 DEF AnswerFor
          <5>2. \A k \in DOMAIN mainQ : Len(mainQ) + 1 > k
            BY <2>1
          <5>3. QED
            BY <1>6, <2>1, <4>1, <5>1, <5>2 DEF YoungestAnswer
        <4>2. CASE job.call.slot # s
          <5>1. ~AnswerFor(r, s) /\ engine'[s] = engine[s]
            BY <1>6, <4>2 DEF AnswerFor
          <5>2. QED
            BY <1>1, <2>1, <4>0, <5>1 DEF YoungestAnswer
        <4>3. QED
          BY <4>1, <4>2
      <3>7. QED
        BY <3>5, <3>6
    <2>8. QED
      BY <2>6, <2>7
  <1>7. QED
    BY <1>5, <1>6, Serves DEF JobOK

LEMMA SlotInvEvents ==
  ASSUME Typed, NEW s \in Slots, SlotInv(s), s \notin crossed',
         \/ UserEvent
         \/ \E m \in Models : DownloadFinished(m)
         \/ BecomeActive
  PROVE  BehindShutdown(s)' /\ (~ShutdownOutstanding' => YoungestAnswer(s)')
  <1>1. PICK jobs : QuietJobs(jobs) /\ mainQ' = mainQ \o jobs
    BY QuietEvents
  <1>2. vm' = vm /\ engine' = engine /\ engineQ' = engineQ /\ crossed' = crossed
    BY QuietEvents
  <1>3. BehindShutdown(s) /\ (~ShutdownOutstanding => YoungestAnswer(s))
    BY <1>2 DEF SlotInv
  <1>4. /\ DOMAIN mainQ = 1..Len(mainQ) /\ Len(mainQ) \in Nat
        /\ \A i \in DOMAIN mainQ : i \in DOMAIN mainQ' /\ mainQ'[i] = mainQ[i]
        /\ \A i \in DOMAIN mainQ' :
             i \notin DOMAIN mainQ =>
               /\ mainQ'[i].call # Shutdown
               /\ ~Replied(mainQ'[i])
               /\ \A j \in DOMAIN mainQ' : j > i => j \notin DOMAIN mainQ
    <2>1. mainQ \in Seq(Jobs) /\ jobs \in Seq(Jobs)
      BY <1>1 DEF Typed, TypeOK, QuietJobs
    <2>2. QED
      BY <1>1, <2>1, EnqueueAll DEF QuietJobs, Replied
  <1>5. ShutdownIn(mainQ') <=> ShutdownIn(mainQ)
    BY <1>4, ShutdownInQueue
  <1>6. ShutdownOutstanding' <=> ShutdownOutstanding
    BY <1>2, <1>5 DEF ShutdownOutstanding
  <1>7. \A i \in DOMAIN mainQ' : AnswerFor(mainQ'[i], s) => i \in DOMAIN mainQ
    BY <1>4 DEF AnswerFor
  <1>8. BehindShutdown(s)'
    BY <1>2, <1>3, <1>4, <1>5, <1>6 DEF BehindShutdown
  <1>9. YoungestAnswer(s) => YoungestAnswer(s)'
    BY <1>2, <1>4, <1>7 DEF YoungestAnswer
  <1>10. QED
    BY <1>3, <1>6, <1>8, <1>9

LEMMA SlotInvBackground ==
  ASSUME Typed, NEW s \in Slots, s \notin crossed', EnterBackground
  PROVE  BehindShutdown(s)' /\ (~ShutdownOutstanding' => YoungestAnswer(s)')
  <1>1. /\ mainQ' = mainQ \o <<Job(Shutdown, NoStep)>> /\ engineQ' = engineQ
        /\ vm'.loaded = {}
    BY Backgrounds DEF Typed, TypeOK, VM
  <1>2. /\ \A i \in DOMAIN mainQ : ~Touches(mainQ[i], s)
        /\ \A i \in DOMAIN engineQ : ~Touches(engineQ[i], s)
    BY Backgrounds DEF JobsIn
  <1>3. \A i \in DOMAIN mainQ' : ~Touches(mainQ'[i], s)
    <2>1. mainQ \in Seq(Jobs)
      BY DEF Typed, TypeOK
    <2>2. QED
      BY <1>1, <1>2, <2>1, ShutdownJobOK, EnqueueAll
  <1>4. BehindShutdown(s)'
    BY <1>1, <1>2, <1>3 DEF BehindShutdown
  <1>5. YoungestAnswer(s)'
    BY <1>1, <1>3, AnswersTouch DEF YoungestAnswer
  <1>6. QED
    BY <1>4, <1>5

LEMMA SlotInvNext ==
  ASSUME Typed, NEW s \in Slots, SlotInv(s), [Next]_vars
  PROVE  SlotInv(s)'
  <1> SUFFICES ASSUME s \notin crossed'
               PROVE  BehindShutdown(s)' /\ (~ShutdownOutstanding' => YoungestAnswer(s)')
    BY DEF SlotInv
  <1>1. CASE Relaunch
    <2>1. DOMAIN mainQ' = {} /\ DOMAIN engineQ' = {} /\ vm'.loaded = {}
      BY <1>1 DEF Relaunch, Typed, TypeOK, VM
    <2>2. QED
      BY <2>1 DEF BehindShutdown, YoungestAnswer
  <1>2. CASE UNCHANGED vars
    <2>1. /\ mainQ' = mainQ /\ engineQ' = engineQ /\ vm' = vm /\ engine' = engine
          /\ crossed' = crossed
      BY <1>2 DEF vars
    <2>2. ShutdownOutstanding' = ShutdownOutstanding
      BY <2>1 DEF ShutdownOutstanding
    <2>3. BehindShutdown(s) /\ (~ShutdownOutstanding => YoungestAnswer(s))
      BY <2>1 DEF SlotInv
    <2>4. QED
      BY <2>1, <2>2, <2>3 DEF BehindShutdown, YoungestAnswer
  <1>3. QED
    BY <1>1, <1>2, SlotInvTurn, SlotInvServe, SlotInvEvents, SlotInvBackground
       DEF Next, SystemEvent

LEMMA IInvImplies == IInv => FlagsTruthful
  <1> SUFFICES ASSUME IInv, NEW s \in Slots, s \in vm.loaded \ crossed, ~AnswerPending(s)
               PROVE  engine[s] # None /\ engine[s] = vm.current[s]
    BY DEF FlagsTruthful
  <1>1. BehindShutdown(s) /\ (~ShutdownOutstanding => YoungestAnswer(s))
    BY DEF IInv, SlotInv
  <1>2. YoungestAnswer(s)
    BY <1>1 DEF BehindShutdown
  <1>3. \A i \in DOMAIN mainQ : ~AnswerFor(mainQ[i], s)
    BY DEF AnswerPending, AnswerFor, Replied, JobsIn
  <1>4. QED
    BY <1>2, <1>3 DEF YoungestAnswer

\* A model shown as loaded is the one in the engine, whatever the order of
\* loads, unloads, answers, deletions, restarts and background transitions, as
\* long as no background transition overtook work on its slot.
THEOREM FlagsAreTruthful == Spec => []FlagsTruthful
  <1>1. Init => IInv
    <2>1. ASSUME Init, NEW s \in Slots
          PROVE  SlotInv(s)
      <3>1. DOMAIN mainQ = {} /\ DOMAIN engineQ = {} /\ vm.loaded = {}
        BY <2>1 DEF Init
      <3>2. QED
        BY <3>1 DEF SlotInv, BehindShutdown, YoungestAnswer
    <2>2. QED
      BY <2>1, TypedInit DEF IInv, Typed
  <1>2. IInv /\ [Next]_vars => IInv'
    <2>1. ASSUME IInv, [Next]_vars
          PROVE  IInv'
      <3>1. Typed /\ \A s \in Slots : SlotInv(s)
        BY <2>1 DEF IInv, Typed
      <3>2. Typed'
        BY <2>1, <3>1, TypedNext
      <3>3. \A s \in Slots : SlotInv(s)'
        BY <2>1, <3>1, SlotInvNext
      <3>4. QED
        BY <3>2, <3>3 DEF IInv, Typed
    <2>2. QED
      BY <2>1
  <1>3. QED
    BY <1>1, <1>2, IInvImplies, PTL DEF Spec

-----------------------------------------------------------------------------
(* One rehydrate at a time *)

\* The job is a rehydrate that has gone past its guard.
Past(job) == job.rehydrate /\ job.state # "start"

SomePast(q) == \E i \in DOMAIN q : Past(q[i])
OnePast(q)  == \A i, j \in DOMAIN q : Past(q[i]) /\ Past(q[j]) => i = j

\* A rehydrate is answered: it never asks for the shutdown.
Answered(q) == \A i \in DOMAIN q : q[i].rehydrate => q[i].call.op # "shutdown"

\* OneRehydrate says that the flag and the queues agree; that the flag may be lowered when
\* a rehydrate ends follows from there being no second one, on either actor.
OneInv ==
  /\ rehydrating <=> SomePast(mainQ) \/ SomePast(engineQ)
  /\ ~(SomePast(mainQ) /\ SomePast(engineQ))
  /\ OnePast(mainQ) /\ OnePast(engineQ)
  /\ Answered(mainQ) /\ Answered(engineQ)

LEMMA PastAppend ==
  ASSUME NEW q \in Seq(Jobs), NEW e \in Jobs
  PROVE  /\ SomePast(Append(q, e)) <=> SomePast(q) \/ Past(e)
         /\ OnePast(q) /\ ~(SomePast(q) /\ Past(e)) => OnePast(Append(q, e))
         /\ Answered(q) /\ (e.rehydrate => e.call.op # "shutdown") => Answered(Append(q, e))
  <1> DEFINE r == Append(q, e)
             n == Len(q)
  <1>1. /\ DOMAIN q = 1..n /\ DOMAIN r = 1..(n + 1) /\ n \in Nat
        /\ \A i \in 1..n : r[i] = q[i]
        /\ r[n + 1] = e
    BY Enqueue
  <1> HIDE DEF r, n
  <1>2. SomePast(r) <=> SomePast(q) \/ Past(e)
    <2>1. SomePast(r) => SomePast(q) \/ Past(e)
      <3>1. ASSUME NEW i \in DOMAIN r, Past(r[i]) PROVE SomePast(q) \/ Past(e)
        <4>1. i \in 1..n \/ i = n + 1
          BY <1>1
        <4>2. QED
          BY <1>1, <3>1, <4>1 DEF SomePast
      <3>2. QED
        BY <3>1 DEF SomePast
    <2>2. SomePast(q) => SomePast(r)
      BY <1>1 DEF SomePast
    <2>3. Past(e) => SomePast(r)
      <3>1. n + 1 \in DOMAIN r
        BY <1>1
      <3>2. QED
        BY <1>1, <3>1 DEF SomePast
    <2>4. QED
      BY <2>1, <2>2, <2>3
  <1>3. ASSUME OnePast(q), ~(SomePast(q) /\ Past(e)) PROVE OnePast(r)
    <2>1. ASSUME NEW i \in DOMAIN r, NEW j \in DOMAIN r, Past(r[i]), Past(r[j]) PROVE i = j
      <3>1. (i \in 1..n \/ i = n + 1) /\ (j \in 1..n \/ j = n + 1)
        BY <1>1
      <3>2. CASE i \in 1..n /\ j \in 1..n
        BY <1>1, <1>3, <2>1, <3>2 DEF OnePast
      <3>3. CASE i \in 1..n /\ j = n + 1
        BY <1>1, <1>3, <2>1, <3>3 DEF SomePast
      <3>4. CASE i = n + 1 /\ j \in 1..n
        BY <1>1, <1>3, <2>1, <3>4 DEF SomePast
      <3>5. QED
        BY <3>1, <3>2, <3>3, <3>4
    <2>2. QED
      BY <2>1 DEF OnePast
  <1>4. ASSUME Answered(q), e.rehydrate => e.call.op # "shutdown" PROVE Answered(r)
    <2>1. ASSUME NEW i \in DOMAIN r, r[i].rehydrate PROVE r[i].call.op # "shutdown"
      <3>1. i \in 1..n \/ i = n + 1
        BY <1>1
      <3>2. QED
        BY <1>1, <1>4, <2>1, <3>1 DEF Answered
    <2>2. QED
      BY <2>1 DEF Answered
  <1>5. QED
    BY <1>2, <1>3, <1>4 DEF r

LEMMA PastTail ==
  ASSUME NEW q \in Seq(Jobs), q # <<>>
  PROVE  /\ SomePast(q) <=> Past(Head(q)) \/ SomePast(Tail(q))
         /\ OnePast(q) => OnePast(Tail(q)) /\ ~(Past(Head(q)) /\ SomePast(Tail(q)))
         /\ Answered(q) => /\ Answered(Tail(q))
                           /\ Head(q).rehydrate => Head(q).call.op # "shutdown"
  <1> DEFINE r == Tail(q)
             n == Len(q)
             h == Head(q)
  <1>1. /\ DOMAIN q = 1..n /\ DOMAIN r = 1..(n - 1) /\ n \in Nat \ {0}
        /\ \A i \in DOMAIN r : r[i] = q[i + 1] /\ i + 1 \in DOMAIN q
        /\ h = q[1] /\ 1 \in DOMAIN q
    BY Dequeue
  <1> HIDE DEF r, n, h
  <1>2. \A i \in DOMAIN q : i = 1 \/ (i - 1 \in DOMAIN r /\ q[i] = r[i - 1])
    <2>1. ASSUME NEW i \in DOMAIN q, i # 1 PROVE i - 1 \in DOMAIN r /\ q[i] = r[i - 1]
      <3>1. i - 1 \in DOMAIN r /\ (i - 1) + 1 = i
        BY <1>1, <2>1
      <3>2. QED
        BY <1>1, <3>1
    <2>2. QED
      BY <2>1
  <1>3. SomePast(q) <=> Past(h) \/ SomePast(r)
    <2>1. SomePast(q) => Past(h) \/ SomePast(r)
      BY <1>1, <1>2 DEF SomePast
    <2>2. Past(h) => SomePast(q)
      BY <1>1 DEF SomePast
    <2>3. SomePast(r) => SomePast(q)
      BY <1>1 DEF SomePast
    <2>4. QED
      BY <2>1, <2>2, <2>3
  <1>4. ASSUME OnePast(q) PROVE OnePast(r) /\ ~(Past(h) /\ SomePast(r))
    <2>1. ASSUME NEW i \in DOMAIN r, NEW j \in DOMAIN r, Past(r[i]), Past(r[j]) PROVE i = j
      <3>1. i + 1 = j + 1
        BY <1>1, <1>4, <2>1 DEF OnePast
      <3>2. QED
        BY <1>1, <3>1
    <2>2. ASSUME Past(h), NEW i \in DOMAIN r, Past(r[i]) PROVE FALSE
      <3>1. i + 1 = 1
        BY <1>1, <1>4, <2>2 DEF OnePast
      <3>2. QED
        BY <1>1, <3>1
    <2>3. QED
      BY <2>1, <2>2 DEF OnePast, SomePast
  <1>5. ASSUME Answered(q) PROVE Answered(r) /\ (h.rehydrate => h.call.op # "shutdown")
    BY <1>1, <1>5 DEF Answered
  <1>6. QED
    BY <1>3, <1>4, <1>5 DEF r, h

LEMMA PastConcat ==
  ASSUME NEW q \in Seq(Jobs), NEW t \in Seq(Jobs),
         \A i \in DOMAIN t : t[i].state = "start" /\ (t[i].rehydrate => t[i].call.op # "shutdown")
  PROVE  /\ SomePast(q \o t) <=> SomePast(q)
         /\ OnePast(q) => OnePast(q \o t)
         /\ Answered(q) => Answered(q \o t)
  <1> DEFINE r == q \o t
             n == Len(q)
  <1>1. /\ DOMAIN q = 1..n /\ DOMAIN r = 1..(n + Len(t)) /\ n \in Nat /\ Len(t) \in Nat
        /\ \A i \in 1..n : r[i] = q[i]
        /\ \A i \in 1..(n + Len(t)) : i > n => i - n \in DOMAIN t /\ r[i] = t[i - n]
    BY EnqueueAll
  <1> HIDE DEF r, n
  <1>2. \A i \in DOMAIN r : \/ i \in DOMAIN q /\ r[i] = q[i]
                            \/ /\ ~Past(r[i])
                               /\ r[i].rehydrate => r[i].call.op # "shutdown"
    <2>1. ASSUME NEW i \in DOMAIN r, ~(i \in DOMAIN q)
          PROVE  r[i].state = "start" /\ (r[i].rehydrate => r[i].call.op # "shutdown")
      <3>1. i - n \in DOMAIN t /\ r[i] = t[i - n]
        BY <1>1, <2>1
      <3>2. QED
        BY <3>1
    <2>2. QED
      BY <1>1, <2>1 DEF Past
  <1>3. DOMAIN q \subseteq DOMAIN r /\ \A i \in DOMAIN q : r[i] = q[i]
    BY <1>1
  <1>4. SomePast(r) <=> SomePast(q)
    BY <1>2, <1>3 DEF SomePast
  <1>5. OnePast(q) => OnePast(r)
    BY <1>2 DEF OnePast
  <1>6. Answered(q) => Answered(r)
    BY <1>2 DEF Answered
  <1>7. QED
    BY <1>4, <1>5, <1>6 DEF r

\* A turn, as far as rehydrates are concerned.
LEMMA RehydrateTurn ==
  ASSUME Typed, Turn, Answered(mainQ)
  PROVE  LET job == Head(mainQ)
         IN /\ mainQ # <<>> /\ mainQ' = Tail(mainQ) /\ JobOK(job)
            /\ \/ /\ job.state = "start"
                  /\ UNCHANGED <<engineQ, rehydrating>>
               \/ /\ ~Refused(job) /\ UNCHANGED engineQ
                  /\ rehydrating' <=> rehydrating /\ ~job.rehydrate
               \/ /\ ~Refused(job)
                  /\ rehydrating' <=> rehydrating \/ job.rehydrate
                  /\ \E e \in Jobs : /\ engineQ' = Append(engineQ, e)
                                     /\ Past(e) <=> job.rehydrate
                                     /\ e.rehydrate => e.call.op # "shutdown"
  <1> DEFINE job == Head(mainQ)
             v   == Applied(vm, job)
  <1>1. mainQ # <<>> /\ mainQ' = Tail(mainQ)
    BY DEF Turn, RehydrateRefused, CallFirst, CallSecond, Finish
  <1>2. /\ JobOK(job) /\ job.rehydrate \in BOOLEAN /\ rehydrating \in BOOLEAN
        /\ job.rehydrate => job.call.op # "shutdown"
    <2>1. JobOK(job) /\ (job.rehydrate => job.call.op # "shutdown")
      BY <1>1, Dequeue DEF Typed, TypeOK, WellFormed, Answered
    <2>2. QED
      BY <2>1 DEF JobOK, Jobs, Typed, TypeOK
  <1>3. /\ vm \in VM /\ installed \in SUBSET Models /\ Kinds(vm)
        /\ v \in VM /\ Kinds(v)
    BY <1>2, AppliedOK DEF Typed, TypeOK, WellFormed
  <1>4. ASSUME NEW w \in VM, Kinds(w), NEW st \in {job.call, job.next}, NEW next, StepOK(next),
               NEW c \in Calls(w, st), Post(w, job, c, next)
        PROVE  /\ rehydrating' <=> rehydrating \/ job.rehydrate
               /\ \E e \in Jobs : /\ engineQ' = Append(engineQ, e)
                                  /\ Past(e) <=> job.rehydrate
                                  /\ e.rehydrate => e.call.op # "shutdown"
    <2> DEFINE e == [state |-> "posted", call |-> c, next |-> next, rehydrate |-> job.rehydrate]
    <2>1. StepOK(st)
      BY <1>2 DEF JobOK
    <2>2. StepOK(c) /\ (c.op = "shutdown" <=> st.op = "shutdown")
      BY <1>3, <1>4, <2>1, CallsOK
    <2>3. e \in Jobs
      BY <1>2, <1>4, <2>2 DEF Jobs, StepOK
    <2>4. engineQ' = Append(engineQ, e)
      BY <1>4 DEF Post
    <2>5. e.rehydrate => e.call.op # "shutdown"
      BY <1>2, <2>2 DEF JobOK
    <2>6. Past(e) <=> job.rehydrate
      BY DEF Past
    <2>7. rehydrating' <=> rehydrating \/ job.rehydrate
      BY <1>4, Zenon DEF Post
    <2>8. QED
      BY <2>3, <2>4, <2>5, <2>6, <2>7
  <1>5. CASE RehydrateRefused
    <2>1. job.state = "start" /\ UNCHANGED <<engineQ, rehydrating>>
      BY <1>5 DEF RehydrateRefused, Refused
    <2>2. QED
      BY <1>1, <1>2, <2>1
  <1>6. CASE CallFirst
    <2>1. PICK c \in Calls(vm, job.call) : Post(vm, job, c, job.next)
      BY <1>6 DEF CallFirst
    <2>2. ~Refused(job) /\ StepOK(job.next)
      BY <1>2, <1>6 DEF CallFirst, JobOK
    <2>3. /\ rehydrating' <=> rehydrating \/ job.rehydrate
          /\ \E e \in Jobs : /\ engineQ' = Append(engineQ, e)
                             /\ Past(e) <=> job.rehydrate
                             /\ e.rehydrate => e.call.op # "shutdown"
      BY <1>3, <1>4, <2>1, <2>2
    <2>4. QED
      BY <1>1, <1>2, <2>2, <2>3
  <1>7. CASE CallSecond
    <2>1. PICK c \in Calls(v, job.next) : Post(v, job, c, NoStep)
      BY <1>7 DEF CallSecond
    <2>2. ~Refused(job) /\ StepOK(NoStep)
      BY <1>7, StepsOK DEF CallSecond
    <2>3. /\ rehydrating' <=> rehydrating \/ job.rehydrate
          /\ \E e \in Jobs : /\ engineQ' = Append(engineQ, e)
                             /\ Past(e) <=> job.rehydrate
                             /\ e.rehydrate => e.call.op # "shutdown"
      BY <1>3, <1>4, <2>1, <2>2
    <2>4. QED
      BY <1>1, <1>2, <2>2, <2>3
  <1>8. CASE Finish
    <2>1. ~Refused(job) /\ UNCHANGED engineQ
      BY <1>8 DEF Finish
    <2>2. rehydrating' <=> rehydrating /\ ~job.rehydrate
      BY <1>8, Zenon DEF Finish
    <2>3. QED
      BY <1>1, <1>2, <2>1, <2>2
  <1>9. QED
    BY <1>5, <1>6, <1>7, <1>8 DEF Turn

LEMMA OneInvTurn ==
  ASSUME Typed, OneInv, Turn
  PROVE  OneInv'
  <1> DEFINE job == Head(mainQ)
  <1>1. mainQ \in Seq(Jobs) /\ engineQ \in Seq(Jobs)
    BY DEF Typed, TypeOK
  <1>2. mainQ # <<>> /\ mainQ' = Tail(mainQ) /\ JobOK(job)
    BY RehydrateTurn DEF OneInv
  <1>3. /\ SomePast(mainQ) <=> Past(job) \/ SomePast(mainQ')
        /\ OnePast(mainQ') /\ ~(Past(job) /\ SomePast(mainQ'))
        /\ Answered(mainQ')
    BY <1>1, <1>2, PastTail DEF OneInv
  <1>4. Past(job) <=> job.rehydrate /\ job.state # "start"
    BY DEF Past
  <1>5. CASE job.state = "start" /\ UNCHANGED <<engineQ, rehydrating>>
    BY <1>3, <1>4, <1>5 DEF OneInv
  <1>6. CASE /\ ~Refused(job) /\ UNCHANGED engineQ
             /\ rehydrating' <=> rehydrating /\ ~job.rehydrate
    <2>1. job.rehydrate => Past(job) \/ ~rehydrating
      BY <1>4, <1>6 DEF Refused
    <2>2. rehydrating' <=> SomePast(mainQ') \/ SomePast(engineQ')
      BY <1>3, <1>4, <1>6, <2>1 DEF OneInv
    <2>3. QED
      BY <1>3, <1>6, <2>2 DEF OneInv
  <1>7. ASSUME ~Refused(job), rehydrating' <=> rehydrating \/ job.rehydrate,
               NEW e \in Jobs, engineQ' = Append(engineQ, e),
               Past(e) <=> job.rehydrate, e.rehydrate => e.call.op # "shutdown"
        PROVE  OneInv'
    <2>1. job.rehydrate => Past(job) \/ ~rehydrating
      BY <1>4, <1>7 DEF Refused
    <2>2. /\ SomePast(engineQ') <=> SomePast(engineQ) \/ Past(e)
          /\ OnePast(engineQ) /\ ~(SomePast(engineQ) /\ Past(e)) => OnePast(engineQ')
          /\ Answered(engineQ')
      BY <1>1, <1>7, PastAppend DEF OneInv
    <2>3. job.rehydrate => ~SomePast(engineQ) /\ ~SomePast(mainQ')
      BY <1>3, <2>1 DEF OneInv
    <2>4. rehydrating' <=> SomePast(mainQ') \/ SomePast(engineQ')
      BY <1>3, <1>4, <1>7, <2>1, <2>2, <2>3 DEF OneInv
    <2>5. ~(SomePast(mainQ') /\ SomePast(engineQ')) /\ OnePast(engineQ')
      BY <1>3, <1>7, <2>2, <2>3 DEF OneInv
    <2>6. QED
      BY <1>3, <2>2, <2>4, <2>5 DEF OneInv
  <1>8. \/ job.state = "start" /\ UNCHANGED <<engineQ, rehydrating>>
        \/ /\ ~Refused(job) /\ UNCHANGED engineQ
           /\ rehydrating' <=> rehydrating /\ ~job.rehydrate
        \/ /\ ~Refused(job)
           /\ rehydrating' <=> rehydrating \/ job.rehydrate
           /\ \E e \in Jobs : /\ engineQ' = Append(engineQ, e)
                              /\ Past(e) <=> job.rehydrate
                              /\ e.rehydrate => e.call.op # "shutdown"
    BY RehydrateTurn DEF OneInv
  <1>9. QED
    BY <1>5, <1>6, <1>7, <1>8

LEMMA OneInvServe ==
  ASSUME Typed, OneInv, Serve
  PROVE  OneInv'
  <1> DEFINE job == Head(engineQ)
  <1>1. mainQ \in Seq(Jobs) /\ engineQ \in Seq(Jobs)
    BY DEF Typed, TypeOK
  <1>2. engineQ # <<>> /\ engineQ' = Tail(engineQ) /\ UNCHANGED rehydrating
    BY Serves
  <1>3. /\ SomePast(engineQ) <=> Past(job) \/ SomePast(engineQ')
        /\ OnePast(engineQ') /\ ~(Past(job) /\ SomePast(engineQ'))
        /\ Answered(engineQ') /\ (job.rehydrate => job.call.op # "shutdown")
    BY <1>1, <1>2, PastTail DEF OneInv
  <1>4. job \in Jobs /\ job.state = "posted"
    BY <1>1, <1>2, Dequeue DEF Typed, WellFormed
  <1>5. ASSUME NEW o \in {"ok", "failed"}, Reply(job, o) PROVE OneInv'
    <2> DEFINE r == [job EXCEPT !.state = o]
    <2>1. /\ r \in Jobs /\ mainQ' = Append(mainQ, r)
          /\ r.state = o /\ r.rehydrate = job.rehydrate /\ r.call = job.call
      BY <1>4, <1>5 DEF Reply, Jobs
    <2> HIDE DEF r
    <2>2. Past(r) <=> Past(job)
      BY <1>4, <2>1 DEF Past
    <2>3. /\ SomePast(mainQ') <=> SomePast(mainQ) \/ Past(r)
          /\ OnePast(mainQ) /\ ~(SomePast(mainQ) /\ Past(r)) => OnePast(mainQ')
          /\ Answered(mainQ')
      BY <1>1, <1>3, <2>1, PastAppend DEF OneInv
    <2>4. rehydrating' <=> SomePast(mainQ') \/ SomePast(engineQ')
      BY <1>2, <1>3, <2>2, <2>3 DEF OneInv
    <2>5. ~(SomePast(mainQ') /\ SomePast(engineQ')) /\ OnePast(mainQ')
      BY <1>3, <2>2, <2>3 DEF OneInv
    <2>6. QED
      BY <1>3, <2>3, <2>4, <2>5 DEF OneInv
  <1>6. CASE ServeShutdown
    <2>1. ~Past(job) /\ mainQ' = mainQ
      BY <1>3, <1>6 DEF ServeShutdown, Past
    <2>2. QED
      BY <1>2, <1>3, <2>1 DEF OneInv
  <1>7. QED
    BY <1>5, <1>6 DEF Serve, ServeLoad, ServeLoadFails, ServeUnload

LEMMA OneInvNext ==
  ASSUME Typed, OneInv, [Next]_vars
  PROVE  OneInv'
  <1>1. mainQ \in Seq(Jobs) /\ engineQ \in Seq(Jobs)
    BY DEF Typed, TypeOK
  <1>2. ASSUME NEW jobs \in Seq(Jobs), mainQ' = mainQ \o jobs, UNCHANGED <<engineQ, rehydrating>>,
               \A i \in DOMAIN jobs : /\ jobs[i].state = "start"
                                      /\ jobs[i].rehydrate => jobs[i].call.op # "shutdown"
        PROVE  OneInv'
    <2>1. /\ SomePast(mainQ') <=> SomePast(mainQ)
          /\ OnePast(mainQ') /\ Answered(mainQ')
      BY <1>1, <1>2, PastConcat DEF OneInv
    <2>2. QED
      BY <1>2, <2>1 DEF OneInv
  <1>3. CASE UserEvent \/ (\E m \in Models : DownloadFinished(m)) \/ BecomeActive
    <2>1. PICK jobs : QuietJobs(jobs) /\ mainQ' = mainQ \o jobs
      BY <1>3, QuietEvents
    <2>2. UNCHANGED <<engineQ, rehydrating>>
      BY <1>3, QuietEvents
    <2>3. ASSUME NEW i \in DOMAIN jobs
          PROVE  jobs[i].state = "start" /\ jobs[i].call.op # "shutdown"
      BY <2>1 DEF QuietJobs, JobOK, StepOK
    <2>4. QED
      BY <1>2, <2>1, <2>2, <2>3 DEF QuietJobs
  <1>4. CASE EnterBackground
    <2> DEFINE job == Job(Shutdown, NoStep)
    <2>1. /\ mainQ' = mainQ \o <<job>> /\ UNCHANGED <<engineQ, rehydrating>>
          /\ <<job>> \in Seq(Jobs) /\ DOMAIN <<job>> = {1} /\ <<job>>[1] = job
          /\ job.state = "start"
      BY <1>4, Backgrounds, ShutdownJobOK
    <2>2. ~job.rehydrate
      BY DEF Job
    <2> HIDE DEF job
    <2>3. QED
      BY <1>2, <2>1, <2>2
  <1>5. CASE Relaunch
    <2>1. DOMAIN mainQ' = {} /\ DOMAIN engineQ' = {} /\ ~rehydrating'
      BY <1>5 DEF Relaunch
    <2>2. QED
      BY <2>1 DEF OneInv, SomePast, OnePast, Answered
  <1>6. CASE UNCHANGED vars
    BY <1>6 DEF vars, OneInv
  <1>7. QED
    BY <1>3, <1>4, <1>5, <1>6, OneInvTurn, OneInvServe DEF Next, SystemEvent

\* isModelRehydrateInProgress is up exactly while one rehydrate is past its guard: when it
\* is lowered none is left, and no return to the foreground finds it up for nothing.
THEOREM AlwaysOneRehydrate == Spec => []OneRehydrate
  <1>1. Init => Typed /\ OneInv
    <2>1. ASSUME Init PROVE OneInv
      <3>1. DOMAIN mainQ = {} /\ DOMAIN engineQ = {} /\ ~rehydrating
        BY <2>1 DEF Init
      <3>2. QED
        BY <3>1 DEF OneInv, SomePast, OnePast, Answered
    <2>2. QED
      BY <2>1, TypedInit
  <1>2. (Typed /\ OneInv) /\ [Next]_vars => (Typed /\ OneInv)'
    BY TypedNext, OneInvNext
  <1>3. Typed /\ OneInv => OneRehydrate
    BY DEF OneInv, OneRehydrate, SomePast, Past, JobsIn
  <1>4. QED
    BY <1>1, <1>2, <1>3, PTL DEF Spec
=============================================================================
