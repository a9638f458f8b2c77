------------------------ MODULE ChatGenerationProofs ------------------------
(***************************************************************************)
(* Theorems about the runs of the chat, for any number of sessions, runs,  *)
(* tokens and stops.                                                       *)
(*                                                                         *)
(* What has to be added to make them inductive: a run that was cancelled   *)
(* has been started (CancelledStarted); only a run that has inserted its   *)
(* answer waits for its stream (OpenAfterDraft); and every run that has    *)
(* got so far finds what it has inserted in the store, the question on     *)
(* disk as well, unless its session is gone (Kept).                        *)
(***************************************************************************)
EXTENDS ChatGeneration, FiniteSetTheorems, SequenceTheorems, TLAPS

\* What is in a queue when an entry is put in at the end or taken out at the front.
Rng(s) == {s[i] : i \in DOMAIN s}

\* Append puts one entry in.
LEMMA RngAppend ==
  ASSUME NEW S, NEW s \in Seq(S), NEW e \in S
  PROVE  Append(s, e) \in Seq(S) /\ Rng(Append(s, e)) = Rng(s) \cup {e}
<1>1. /\ Append(s, e) \in Seq(S) /\ Len(Append(s, e)) = Len(s) + 1
      /\ \A i \in 1..Len(s) : Append(s, e)[i] = s[i]
      /\ Append(s, e)[Len(s) + 1] = e
  BY AppendProperties
<1>2. DOMAIN s = 1..Len(s) /\ Len(s) \in Nat /\ DOMAIN Append(s, e) = 1..(Len(s) + 1)
  BY <1>1, LenProperties
<1> QED BY <1>1, <1>2 DEF Rng

\* Tail leaves what was there, and the head was.
LEMMA RngTail ==
  ASSUME NEW S, NEW s \in Seq(S), s # <<>>
  PROVE  /\ Tail(s) \in Seq(S) /\ Rng(Tail(s)) \subseteq Rng(s)
         /\ Head(s) \in S /\ Head(s) \in Rng(s)
<1>1. /\ Tail(s) \in Seq(S) /\ Len(Tail(s)) = Len(s) - 1
      /\ \A i \in 1..Len(Tail(s)) : Tail(s)[i] = s[i + 1]
      /\ Head(s) = s[1] /\ Head(s) \in S
  BY HeadTailProperties
<1>2. DOMAIN s = 1..Len(s) /\ Len(s) \in Nat \ {0} /\ DOMAIN Tail(s) = 1..(Len(s) - 1)
  BY <1>1, LenProperties, EmptySeq
<1> QED BY <1>1, <1>2 DEF Rng

-----------------------------------------------------------------------------
Drafted == {"open", "stream", "done"}

Gone(r) == session[r] \in deleted

CancelledStarted == \A r \in cancelled : phase[r] # "unused"

OpenAfterDraft == \A j \in Rng(engineQ) : j.op = "open" => phase[j.run] \in Drafted

Kept ==
  /\ saved \subseteq store
  /\ \A m \in store : m[2] = "user" => m \in saved
  /\ \A r \in Runs : phase[r] \in Alive \cup {"done"} /\ ~Gone(r) => <<r, "user">> \in store
  /\ \A r \in Runs : phase[r] \in Drafted /\ ~Gone(r) => <<r, "assistant">> \in store

IInv == RunInv /\ CancelledStarted /\ OpenAfterDraft /\ Kept /\ AnswersSaved

-----------------------------------------------------------------------------
(***************************************************************************)
(* The queue of the engine.                                                *)
(***************************************************************************)
LEMMA StopsCounted ==
  ASSUME TypeOK
  PROVE  Cardinality({i \in DOMAIN engineQ : engineQ[i].op = "stop"}) \in Nat
<1>1. DOMAIN engineQ = 1..Len(engineQ) /\ Len(engineQ) \in Nat
  BY LenProperties DEF TypeOK
<1>2. IsFiniteSet(1..Len(engineQ))
  BY <1>1, FS_Interval
<1> QED BY <1>1, <1>2, FS_Subset, FS_CardinalityType

LEMMA JobsTyped ==
  ASSUME NEW r \in Runs
  PROVE  /\ EngineJob("template", r) \in EngineJobs /\ EngineJob("open", r) \in EngineJobs
         /\ EngineJob("generate", r) \in EngineJobs
BY DEF EngineJob, EngineJobs

LEMMA StopTyped == EngineJob("stop", None) \in EngineJobs
BY DEF EngineJob, EngineJobs

\* A job that is served is a run's.
LEMMA ServedRun ==
  ASSUME TypeOK, NEW op \in {"template", "open", "generate"}, Serving(op)
  PROVE  Head(engineQ).run \in Runs
<1>1. Head(engineQ) \in EngineJobs /\ Head(engineQ).op = op
  BY RngTail DEF TypeOK, Serving
<1> QED BY <1>1 DEF EngineJobs

-----------------------------------------------------------------------------
(***************************************************************************)
(* Type correctness.                                                       *)
(***************************************************************************)
LEMMA StopEffectType ==
  ASSUME TypeOK, StopEffect
  PROVE  /\ cancelled' \in SUBSET Runs /\ generationTask' \in Runs \cup {None}
         /\ stopTasks' \in 0..MaxStops
         /\ isGenerating' \in BOOLEAN
         /\ generationStage' \in {None, "searching", "ranking", "drafting"}
<1> DEFINE n == Cardinality({i \in DOMAIN engineQ : engineQ[i].op = "stop"})
<1>1. n \in Nat /\ stopTasks + n < MaxStops /\ stopTasks \in 0..MaxStops
  BY StopsCounted DEF StopEffect, TypeOK
<1> HIDE DEF n
<1>2. stopTasks + 1 \in 0..MaxStops
  BY <1>1, BoundsAssumption
<1> QED BY <1>2 DEF StopEffect, TypeOK, AliveRuns

LEMMA TypeInit == Init => TypeOK
<1> SUFFICES ASSUME Init PROVE TypeOK
  OBVIOUS
<1>1. 0 \in 0..MaxTokens /\ 0 \in 0..MaxStops /\ <<>> \in Seq(EngineJobs)
  BY BoundsAssumption, EmptySeq
<1> QED BY <1>1 DEF Init, TypeOK, Phases

LEMMA RunStepType == ASSUME TypeOK, NEW r \in Runs, RunStep(r) PROVE TypeOK'
<1> USE DEF TypeOK, Phases, Alive, Waiting, vars, chat, disk, flags, task, engine
<1>1. CASE StartSearch(r)  BY <1>1 DEF StartSearch
<1>2. CASE StartRanking(r) BY <1>2 DEF StartRanking
<1>3. CASE BuildPrompt(r)
  <2>1. engineQ' \in Seq(EngineJobs)
    BY <1>3, JobsTyped, RngAppend DEF BuildPrompt
  <2> QED BY <1>3, <2>1 DEF BuildPrompt
<1>4. CASE Draft(r)
  <2>1. engineQ' \in Seq(EngineJobs)
    BY <1>4, JobsTyped, RngAppend DEF Draft
  <2>2. <<r, "assistant">> \in Messages
    BY DEF Messages
  <2> QED BY <1>4, <2>1, <2>2 DEF Draft
<1>5. CASE TakeToken(r)
  <2>1. text[r] + 1 \in 0..MaxTokens
    BY <1>5, BoundsAssumption DEF TakeToken
  <2> QED BY <1>5, <2>1 DEF TakeToken
<1>6. CASE EndRun(r) BY <1>6 DEF EndRun
<1> QED BY <1>1, <1>2, <1>3, <1>4, <1>5, <1>6 DEF RunStep

LEMMA EngineStepType == ASSUME TypeOK, EngineStep PROVE TypeOK'
<1> USE DEF TypeOK, vars, chat, disk, flags, task, engine
<1>1. CASE ServeTemplate
  BY <1>1, RngTail DEF ServeTemplate, Serving
<1>2. CASE ServeOpen
  <2>1. Head(engineQ).run \in Runs
    BY <1>2, ServedRun DEF ServeOpen
  <2>2. Tail(engineQ) \in Seq(EngineJobs)
    BY <1>2, RngTail DEF ServeOpen, Serving
  <2>3. engineQ' \in Seq(EngineJobs)
    BY <1>2, <2>1, <2>2, JobsTyped, RngAppend DEF ServeOpen
  <2> QED BY <1>2, <2>1, <2>3 DEF ServeOpen, Phases, Alive, Waiting
<1>3. CASE StartDecoding
  BY <1>3, ServedRun, RngTail DEF StartDecoding, Serving
<1>4. CASE NotLoaded
  BY <1>4, ServedRun, RngTail DEF NotLoaded, Serving
<1>5. CASE DecodeToken
  <2>1. decoding \in Runs
    BY <1>5 DEF DecodeToken
  <2>2. yielded[decoding] + 1 \in 0..MaxTokens
    BY <1>5, <2>1, BoundsAssumption DEF DecodeToken
  <2> QED BY <1>5, <2>1, <2>2 DEF DecodeToken
<1>6. CASE EndDecoding BY <1>6 DEF EndDecoding
<1>7. CASE ServeStop
  BY <1>7, RngTail DEF ServeStop, Serving
<1> QED BY <1>1, <1>2, <1>3, <1>4, <1>5, <1>6, <1>7 DEF EngineStep

LEMMA UserStepType == ASSUME TypeOK, UserStep PROVE TypeOK'
<1> USE DEF TypeOK, vars, chat, disk, flags, task, engine
<1>1. ASSUME NEW s \in ChatSessions, Send(s) PROVE TypeOK'
  <2>1. PICK r \in Runs :
          /\ chatMessages' = (IF s = activeSessionId THEN chatMessages ELSE MessagesOf(s))
                               \cup {<<r, "user">>}
          /\ store' = store \cup {<<r, "user">>}
          /\ generationTask' = r
          /\ phase' = [phase EXCEPT ![r] = "spawned"]
          /\ session' = [session EXCEPT ![r] = s]
    BY <1>1 DEF Send
  <2>2. <<r, "user">> \in Messages /\ MessagesOf(s) \subseteq Messages
    BY DEF Messages, MessagesOf
  <2> QED BY <1>1, <2>1, <2>2 DEF Send, Phases, Alive
<1>2. ASSUME NEW s \in ChatSessions, NewSession(s) PROVE TypeOK'
  BY <1>2 DEF NewSession, Select, MessagesOf
<1>3. ASSUME NEW s \in ChatSessions, SelectSession(s) PROVE TypeOK'
  BY <1>3 DEF SelectSession, Select, MessagesOf
<1>4. ASSUME NEW s \in ChatSessions, DeleteSession(s) PROVE TypeOK'
  <2>1. /\ cancelled' \in SUBSET Runs /\ generationTask' \in Runs \cup {None}
        /\ stopTasks' \in 0..MaxStops
        /\ isGenerating' \in BOOLEAN
        /\ generationStage' \in {None, "searching", "ranking", "drafting"}
    <3>1. CASE StopEffect BY <3>1, StopEffectType
    <3>2. CASE UNCHANGED <<flags, cancelled, stopTasks>> BY <3>2
    <3> QED BY <1>4, <3>1, <3>2 DEF DeleteSession
  <2>2. /\ sessions' \in SUBSET ChatSessions
        /\ activeSessionId' \in ChatSessions \cup {None}
        /\ chatMessages' \in SUBSET Messages
    BY <1>4 DEF DeleteSession, Select, MessagesOf
  <2> QED BY <1>4, <2>1, <2>2 DEF DeleteSession
<1>5. CASE Stop
  BY <1>5, StopEffectType DEF Stop
<1>6. CASE Relaunch
  <2>1. 0 \in 0..MaxTokens /\ 0 \in 0..MaxStops /\ <<>> \in Seq(EngineJobs)
    BY BoundsAssumption, EmptySeq
  <2>2. store' \in SUBSET Messages /\ chatMessages' \in SUBSET Messages
    BY <1>6 DEF Relaunch
  <2>3. phase' \in [Runs -> Phases]
    BY <1>6 DEF Relaunch, Phases
  <2> QED BY <1>6, <2>1, <2>2, <2>3 DEF Relaunch
<1> QED BY <1>1, <1>2, <1>3, <1>4, <1>5, <1>6 DEF UserStep

LEMMA PostStopType == ASSUME TypeOK, PostStop PROVE TypeOK'
<1>1. engineQ' \in Seq(EngineJobs)
  BY StopTyped, RngAppend DEF PostStop, TypeOK
<1> QED BY <1>1, BoundsAssumption DEF PostStop, TypeOK, chat, disk, flags, task

LEMMA TypeStep == TypeOK /\ [Next]_vars => TypeOK'
<1> SUFFICES ASSUME TypeOK, [Next]_vars PROVE TypeOK'
  OBVIOUS
<1>1. CASE UNCHANGED vars
  BY <1>1 DEF TypeOK, vars, chat, disk, flags, task, engine
<1> QED BY <1>1, RunStepType, EngineStepType, UserStepType, PostStopType DEF Next

-----------------------------------------------------------------------------
(***************************************************************************)
(* The invariant.                                                          *)
(***************************************************************************)
LEMMA InvInit == Init => IInv
<1> SUFFICES ASSUME Init PROVE IInv
  OBVIOUS
<1>1. TypeOK
  BY TypeInit
<1>2. Rng(engineQ) = {}
  BY DEF Init, Rng
<1> QED BY <1>1, <1>2 DEF Init, IInv, RunInv, StopButtonHasATask, StageHasARun, SelectedExists,
           CancelledStarted, OpenAfterDraft, Kept, AnswersSaved, Drafted, Alive, Waiting

\* A run's turn, seen from the store: its phase goes on, and what it inserts is added.
RunTurn(r) ==
  /\ UNCHANGED <<session, deleted, cancelled>>
  /\ phase[r] \in Alive /\ phase'[r] # "unused"
  /\ \A q \in Runs : q # r => phase'[q] = phase[q]
  /\ phase[r] \in Drafted => phase'[r] \in Drafted
  /\ phase'[r] \in Drafted => phase[r] \in Drafted \/ <<r, "assistant">> \in store'
  /\ store' \in {store, store \cup {<<r, "assistant">>}}
  /\ \/ phase'[r] # "done" /\ saved' = saved
     \/ phase[r] = "stream" /\ saved' = store /\ store' = store

LEMMA RunTurnKeeps ==
  ASSUME IInv, NEW r \in Runs, RunTurn(r)
  PROVE  CancelledStarted' /\ Kept' /\ AnswersSaved'
<1> USE DEF IInv, RunInv, RunTurn, TypeOK
<1>1. CancelledStarted'
  BY DEF CancelledStarted
<1>2. saved \subseteq saved' /\ saved' \subseteq store' /\ store \subseteq store'
  BY DEF Kept
<1>3. \A m \in store' : m[2] = "user" => m \in saved'
  BY <1>2 DEF Kept
<1>4. ASSUME NEW q \in Runs, phase'[q] \in Alive \cup {"done"}, ~Gone(q)'
      PROVE  <<q, "user">> \in store'
  BY <1>2, <1>4 DEF Kept, Gone
<1>5. ASSUME NEW q \in Runs, phase'[q] \in Drafted, ~Gone(q)'
      PROVE  <<q, "assistant">> \in store'
  BY <1>2, <1>5 DEF Kept, Gone
<1>6. Kept'
  BY <1>2, <1>3, <1>4, <1>5 DEF Kept
<1>7. ASSUME NEW q \in Runs, phase'[q] = "done", session[q] \notin deleted
      PROVE  <<q, "user">> \in saved' /\ <<q, "assistant">> \in saved'
  <2>1. CASE phase[q] = "done"
    BY <2>1, <1>2, <1>7 DEF AnswersSaved
  <2>2. CASE phase[q] # "done"
    <3>1. q = r /\ phase[q] = "stream" /\ saved' = store
      BY <2>2, <1>7
    <3> QED BY <3>1, <1>7 DEF Kept, Gone, Drafted, Alive, Waiting
  <2> QED BY <2>1, <2>2
<1>8. AnswersSaved'
  BY <1>7 DEF AnswersSaved
<1> QED BY <1>1, <1>6, <1>8

LEMMA RunStepInv == ASSUME IInv, NEW r \in Runs, RunStep(r) PROVE IInv'
<1>0. TypeOK /\ TypeOK'
  BY RunStepType DEF IInv, RunInv
<1>1. RunTurn(r)
  <2> USE <1>0 DEF RunTurn, TypeOK, Alive, Waiting, Drafted, chat, disk, flags, task, engine
  <2>1. CASE StartSearch(r)  BY <2>1 DEF StartSearch
  <2>2. CASE StartRanking(r) BY <2>2 DEF StartRanking
  <2>3. CASE BuildPrompt(r)  BY <2>3 DEF BuildPrompt
  <2>4. CASE Draft(r)        BY <2>4 DEF Draft
  <2>5. CASE TakeToken(r)    BY <2>5 DEF TakeToken
  <2>6. CASE EndRun(r)       BY <2>6 DEF EndRun, StreamOver
  <2> QED BY <2>1, <2>2, <2>3, <2>4, <2>5, <2>6 DEF RunStep
<1>2. CancelledStarted' /\ Kept' /\ AnswersSaved'
  BY <1>1, RunTurnKeeps
<1>3. \A j \in Rng(engineQ)' : j \in Rng(engineQ) \/ j.op = "template"
                                 \/ (j.op = "open" /\ j.run = r /\ phase'[r] = "open")
  <2> USE <1>0 DEF TypeOK, flags, task, engine
  <2>1. CASE BuildPrompt(r)
    <3>1. Rng(engineQ') = Rng(engineQ) \cup {EngineJob("template", r)}
      BY <2>1, JobsTyped, RngAppend DEF BuildPrompt
    <3> QED BY <3>1 DEF EngineJob
  <2>2. CASE Draft(r)
    <3>1. Rng(engineQ') = Rng(engineQ) \cup {EngineJob("open", r)}
      BY <2>2, JobsTyped, RngAppend DEF Draft
    <3> QED BY <3>1, <2>2 DEF EngineJob, Draft
  <2>3. CASE engineQ' = engineQ
    BY <2>3
  <2> QED BY <2>1, <2>2, <2>3 DEF RunStep, StartSearch, StartRanking, TakeToken, EndRun
<1>4. OpenAfterDraft'
  <2> SUFFICES ASSUME NEW j \in Rng(engineQ)', j.op = "open" PROVE phase'[j.run] \in Drafted
    BY DEF OpenAfterDraft
  <2>1. CASE j \in Rng(engineQ)
    <3>1. phase[j.run] \in Drafted
      BY <2>1 DEF IInv, OpenAfterDraft
    <3>2. j \in EngineJobs
      BY <1>0, <2>1, LenProperties DEF TypeOK, Rng
    <3>3. j.run \in Runs
      BY <3>2 DEF EngineJobs
    <3> QED BY <3>1, <3>3, <1>1 DEF RunTurn
  <2>2. CASE j.run = r /\ phase'[r] = "open"
    BY <2>2 DEF Drafted
  <2> QED BY <2>1, <2>2, <1>3
<1>5. StopButtonHasATask' /\ StageHasARun'
  <2>1. CASE EndRun(r)
    BY <2>1 DEF EndRun, StopButtonHasATask, StageHasARun
  <2>2. CASE ~EndRun(r)
    <3>1. /\ isGenerating' = isGenerating /\ generationTask' = generationTask
          /\ cancelled' = cancelled
          /\ phase[r] \in Alive /\ phase'[r] \in Alive
      BY <1>0, <2>2 DEF RunStep, StartSearch, StartRanking, BuildPrompt, Draft, TakeToken,
         flags, task, TypeOK, Alive, Waiting
    <3>2. r \in AliveRuns' /\ AliveRuns \subseteq AliveRuns'
      BY <1>1, <3>1 DEF RunTurn, AliveRuns
    <3>3. StopButtonHasATask
      BY DEF IInv, RunInv
    <3> QED BY <3>1, <3>2, <3>3 DEF StopButtonHasATask, StageHasARun
  <2> QED BY <2>1, <2>2
<1>6. SelectedExists'
  BY DEF IInv, RunInv, SelectedExists, RunStep, StartSearch, StartRanking, BuildPrompt, Draft,
     TakeToken, EndRun, chat
<1> QED BY <1>0, <1>2, <1>4, <1>5, <1>6 DEF IInv, RunInv

\* The engine's turn: it takes the head of its queue, opens streams and fills them.
LEMMA EngineStepInv == ASSUME IInv, EngineStep PROVE IInv'
<1>0. TypeOK /\ TypeOK'
  BY EngineStepType DEF IInv, RunInv
<1> USE DEF chat, disk, flags, task, engine
<1>1. UNCHANGED <<chat, disk, flags, session, cancelled>>
  BY DEF EngineStep, ServeTemplate, ServeOpen, StartDecoding, NotLoaded, DecodeToken,
     EndDecoding, ServeStop
<1>2. \A j \in Rng(engineQ)' : j.op = "open" => j \in Rng(engineQ)
  <2>1. CASE ServeOpen
    <3>1. Head(engineQ).run \in Runs
      BY <1>0, <2>1, ServedRun DEF ServeOpen
    <3> DEFINE rest == Tail(engineQ)
                job  == EngineJob("generate", Head(engineQ).run)
    <3>2. rest \in Seq(EngineJobs) /\ Rng(rest) \subseteq Rng(engineQ)
      BY <1>0, <2>1, RngTail DEF ServeOpen, Serving, TypeOK
    <3>3. job \in EngineJobs /\ engineQ' = Append(rest, job)
      BY <2>1, <3>1, JobsTyped DEF ServeOpen
    <3>4. job.op # "open"
      BY DEF EngineJob
    <3> HIDE DEF rest, job
    <3>5. Rng(engineQ') = Rng(rest) \cup {job}
      BY <3>2, <3>3, RngAppend
    <3> QED BY <3>2, <3>4, <3>5
  <2>2. CASE engineQ # <<>> /\ engineQ' = Tail(engineQ)
    BY <1>0, <2>2, RngTail DEF TypeOK
  <2>3. CASE engineQ' = engineQ
    BY <2>3
  <2> QED BY <2>1, <2>2, <2>3 DEF EngineStep, ServeTemplate, StartDecoding, NotLoaded, DecodeToken,
           EndDecoding, ServeStop, Serving
<1>3. \/ phase' = phase
      \/ \E r \in Runs : phase[r] \in Drafted /\ phase' = [phase EXCEPT ![r] = "stream"]
  <2>1. CASE ServeOpen
    <3>1. Head(engineQ).run \in Runs
      BY <1>0, <2>1, ServedRun DEF ServeOpen
    <3>2. Head(engineQ) \in Rng(engineQ) /\ Head(engineQ).op = "open"
      BY <1>0, <2>1, RngTail DEF ServeOpen, Serving, TypeOK
    <3>3. phase[Head(engineQ).run] \in Drafted
      BY <3>2 DEF IInv, OpenAfterDraft
    <3> QED BY <2>1, <3>1, <3>3 DEF ServeOpen
  <2> QED BY <2>1 DEF EngineStep, ServeTemplate, StartDecoding, NotLoaded, DecodeToken,
           EndDecoding, ServeStop
<1>4. \A q \in Runs : /\ phase[q] # "unused" => phase'[q] # "unused"
                      /\ phase[q] \in Alive => phase'[q] \in Alive
                      /\ phase[q] \in Drafted => phase'[q] \in Drafted
                      /\ phase'[q] \in Drafted => phase[q] \in Drafted
                      /\ phase'[q] \in Alive \cup {"done"} => phase[q] \in Alive \cup {"done"}
                      /\ phase'[q] = "done" => phase[q] = "done"
  BY <1>0, <1>3 DEF TypeOK, Alive, Waiting, Drafted
<1>5. StopButtonHasATask' /\ StageHasARun' /\ SelectedExists' /\ CancelledStarted'
  BY <1>0, <1>1, <1>4 DEF IInv, RunInv, StopButtonHasATask, StageHasARun, SelectedExists,
     CancelledStarted, AliveRuns, TypeOK
<1>6. Kept' /\ AnswersSaved'
  BY <1>1, <1>4 DEF IInv, Kept, AnswersSaved, Gone
<1>7. OpenAfterDraft'
  <2> SUFFICES ASSUME NEW j \in Rng(engineQ)', j.op = "open" PROVE phase'[j.run] \in Drafted
    BY DEF OpenAfterDraft
  <2>1. j \in Rng(engineQ)
    BY <1>2
  <2>2. phase[j.run] \in Drafted
    BY <2>1 DEF IInv, OpenAfterDraft
  <2>3. j \in EngineJobs
    BY <1>0, <2>1, LenProperties DEF TypeOK, Rng
  <2>4. j.run \in Runs
    BY <2>3 DEF EngineJobs
  <2> QED BY <2>2, <2>4, <1>4
<1> QED BY <1>0, <1>5, <1>6, <1>7 DEF IInv, RunInv

LEMMA PostStopInv == ASSUME IInv, PostStop PROVE IInv'
<1>1. TypeOK /\ TypeOK'
  BY PostStopType DEF IInv, RunInv
<1>2. Rng(engineQ') = Rng(engineQ) \cup {EngineJob("stop", None)}
  BY <1>1, StopTyped, RngAppend DEF PostStop, TypeOK
<1>3. \A j \in Rng(engineQ') : j.op = "open" => j \in Rng(engineQ)
  BY <1>2 DEF EngineJob
<1>4. UNCHANGED <<chat, disk, flags, task>>
  BY DEF PostStop
<1> QED BY <1>1, <1>3, <1>4 DEF IInv, RunInv, StopButtonHasATask, StageHasARun, SelectedExists,
           CancelledStarted, OpenAfterDraft, Kept, AnswersSaved, AliveRuns, Gone, chat, disk, flags, task

LEMMA SendInv == ASSUME IInv, NEW s \in ChatSessions, Send(s) PROVE IInv'
<1>0. TypeOK /\ TypeOK'
  BY UserStepType DEF IInv, RunInv, UserStep
<1>1. PICK r \in Runs :
        /\ phase[r] = "unused"
        /\ store' = store \cup {<<r, "user">>}
        /\ generationTask' = r
        /\ phase' = [phase EXCEPT ![r] = "spawned"]
        /\ session' = [session EXCEPT ![r] = s]
  BY DEF Send
<1>2. saved' = store' /\ UNCHANGED <<deleted, cancelled, engineQ>>
  BY DEF Send, engine
<1>3. r \notin cancelled
  BY <1>1 DEF IInv, CancelledStarted
<1>4. /\ phase'[r] = "spawned" /\ \A q \in Runs : q # r => phase'[q] = phase[q]
      /\ \A q \in Runs : q # r => session'[q] = session[q]
  BY <1>0, <1>1 DEF TypeOK
<1>5. StopButtonHasATask' /\ StageHasARun' /\ CancelledStarted'
  BY <1>0, <1>1, <1>2, <1>3, <1>4 DEF IInv, CancelledStarted, StopButtonHasATask, StageHasARun, AliveRuns,
     Alive, TypeOK
<1>6. OpenAfterDraft'
  <2> SUFFICES ASSUME NEW j \in Rng(engineQ), j.op = "open" PROVE phase'[j.run] \in Drafted
    BY <1>2 DEF OpenAfterDraft, Rng
  <2>1. phase[j.run] \in Drafted
    BY DEF IInv, OpenAfterDraft
  <2>2. j \in EngineJobs
    BY <1>0, LenProperties DEF TypeOK, Rng
  <2>3. j.run \in Runs /\ j.run # r
    BY <1>1, <2>1, <2>2 DEF EngineJobs, Drafted
  <2> QED BY <2>1, <2>3, <1>4
<1>7. \A q \in Runs : phase'[q] \in Alive \cup {"done"} /\ ~Gone(q)' => <<q, "user">> \in store'
  <2> SUFFICES ASSUME NEW q \in Runs, q # r, phase'[q] \in Alive \cup {"done"}, ~Gone(q)'
               PROVE  <<q, "user">> \in store'
    BY <1>1
  <2>1. phase[q] \in Alive \cup {"done"} /\ ~Gone(q)
    BY <1>2, <1>4 DEF Gone
  <2> QED BY <2>1, <1>1 DEF IInv, Kept
<1>8. \A q \in Runs : phase'[q] \in Drafted /\ ~Gone(q)' => <<q, "assistant">> \in store'
  <2> SUFFICES ASSUME NEW q \in Runs, phase'[q] \in Drafted, ~Gone(q)'
               PROVE  <<q, "assistant">> \in store'
    OBVIOUS
  <2>1. q # r
    BY <1>4 DEF Drafted
  <2>2. phase[q] \in Drafted /\ ~Gone(q)
    BY <2>1, <1>2, <1>4 DEF Gone
  <2> QED BY <2>2, <1>1 DEF IInv, Kept
<1>9. Kept'
  BY <1>2, <1>7, <1>8 DEF Kept
<1>10. AnswersSaved'
  BY <1>2, <1>7, <1>8 DEF AnswersSaved, Gone, Drafted
<1>11. SelectedExists'
  BY DEF Send, SelectedExists
<1> QED BY <1>0, <1>5, <1>6, <1>9, <1>10, <1>11 DEF IInv, RunInv

\* What stops a run says so everywhere at once.
LEMMA StopEffectInv ==
  ASSUME IInv, StopEffect, phase' = phase
  PROVE  StopButtonHasATask' /\ StageHasARun' /\ CancelledStarted'
<1>1. \A q \in AliveRuns : phase[q] # "unused"
  BY DEF AliveRuns, Alive, Waiting
<1> QED BY <1>1 DEF StopEffect, StopButtonHasATask, StageHasARun, CancelledStarted, IInv

LEMMA DeleteInv == ASSUME IInv, NEW s \in ChatSessions, DeleteSession(s) PROVE IInv'
<1>0. TypeOK /\ TypeOK'
  BY UserStepType DEF IInv, RunInv, UserStep
<1>1. /\ store' = store \ MessagesOf(s) /\ saved' = store' /\ deleted' = deleted \cup {s}
      /\ UNCHANGED <<phase, session, engineQ>>
  BY DEF DeleteSession, engine
<1>2. StopButtonHasATask' /\ StageHasARun' /\ CancelledStarted'
  <2>1. CASE StopEffect
    BY <2>1, <1>1, StopEffectInv
  <2>2. CASE UNCHANGED <<flags, cancelled>>
    BY <2>2, <1>1 DEF flags, IInv, RunInv, StopButtonHasATask, StageHasARun, CancelledStarted, AliveRuns
  <2> QED BY <2>1, <2>2 DEF DeleteSession
<1>3. OpenAfterDraft'
  BY <1>1 DEF IInv, OpenAfterDraft, Rng
<1>4. \A r \in Runs : ~Gone(r)' =>
        ~Gone(r) /\ \A who \in {"user", "assistant"} : <<r, who>> \in store => <<r, who>> \in store'
  BY <1>1 DEF Gone, MessagesOf
<1>5. Kept'
  BY <1>1, <1>4 DEF IInv, Kept
<1>6. AnswersSaved'
  BY <1>1, <1>4 DEF IInv, Kept, AnswersSaved, Gone, Drafted
<1>7. SelectedExists'
  BY DEF DeleteSession, Select, SelectedExists, IInv, RunInv
<1> QED BY <1>0, <1>2, <1>3, <1>5, <1>6, <1>7 DEF IInv, RunInv

LEMMA RelaunchInv == ASSUME IInv, Relaunch PROVE IInv'
<1>0. TypeOK /\ TypeOK'
  BY UserStepType DEF IInv, RunInv, UserStep
<1>1. /\ saved \subseteq store' /\ store' \subseteq store /\ saved' = store'
      /\ cancelled' = {} /\ ~isGenerating' /\ generationStage' = None
      /\ engineQ' = <<>>
      /\ UNCHANGED <<deleted, session>>
  BY DEF Relaunch
<1>2. \A r \in Runs : phase'[r] \in Alive \cup Drafted => phase'[r] = "done" /\ phase[r] = "done"
  BY DEF Relaunch, AliveRuns, Alive, Waiting, Drafted
<1>3. StopButtonHasATask' /\ StageHasARun' /\ CancelledStarted' /\ OpenAfterDraft'
  BY <1>1 DEF StopButtonHasATask, StageHasARun, CancelledStarted, OpenAfterDraft, Rng
<1>4. \A r \in Runs : phase'[r] = "done" /\ session[r] \notin deleted
                        => {<<r, "user">>, <<r, "assistant">>} \subseteq store'
  BY <1>1, <1>2 DEF IInv, AnswersSaved, Drafted
<1>5. Kept'
  <2>1. \A m \in store' : m[2] = "user" => m \in saved'
    BY <1>1
  <2> QED BY <1>1, <1>2, <1>4, <2>1 DEF Kept, Gone, Drafted
<1>6. AnswersSaved'
  BY <1>1, <1>4 DEF AnswersSaved
<1>7. SelectedExists'
  BY DEF Relaunch, SelectedExists
<1> QED BY <1>0, <1>3, <1>5, <1>6, <1>7 DEF IInv, RunInv

LEMMA UserStepInv == ASSUME IInv, UserStep PROVE IInv'
<1>0. TypeOK'
  BY UserStepType DEF IInv, RunInv
<1> DEFINE quiet == /\ UNCHANGED <<deleted, store, flags, task, engineQ>>
                    /\ saved' \in {saved, store}
                    /\ SelectedExists'
<1>1. ASSUME quiet PROVE IInv'
  <2>1. Kept' /\ AnswersSaved'
    BY <1>1 DEF IInv, Kept, AnswersSaved, Gone, Drafted, task
  <2> QED BY <1>0, <1>1, <2>1 DEF IInv, RunInv, StopButtonHasATask, StageHasARun, CancelledStarted, AliveRuns,
             OpenAfterDraft, Rng, flags, task
<1>2. ASSUME NEW s \in ChatSessions, NewSession(s) PROVE IInv'
  BY <1>1, <1>2 DEF NewSession, Select, SelectedExists, engine
<1>3. ASSUME NEW s \in ChatSessions, SelectSession(s) PROVE IInv'
  BY <1>1, <1>3 DEF SelectSession, Select, SelectedExists, disk, engine
<1>4. CASE Stop
  <2>1. StopButtonHasATask' /\ StageHasARun' /\ CancelledStarted'
    BY <1>4, StopEffectInv DEF Stop
  <2> QED BY <1>0, <1>4, <2>1 DEF Stop, IInv, RunInv, SelectedExists, OpenAfterDraft, Kept, AnswersSaved, Gone, Rng,
             chat, disk, engine
<1> QED BY <1>2, <1>3, <1>4, SendInv, DeleteInv, RelaunchInv DEF UserStep

LEMMA InvStep == IInv /\ [Next]_vars => IInv'
<1> SUFFICES ASSUME IInv, [Next]_vars PROVE IInv'
  OBVIOUS
<1>1. CASE UNCHANGED vars
  <2>1. TypeOK'
    BY <1>1, TypeStep DEF IInv, RunInv
  <2> QED BY <1>1, <2>1 DEF IInv, RunInv, StopButtonHasATask, StageHasARun, SelectedExists,
             CancelledStarted, AliveRuns, OpenAfterDraft, Kept, AnswersSaved, Gone, Rng, vars, chat, disk, flags, task, engine
<1> QED BY <1>1, RunStepInv, EngineStepInv, UserStepInv, PostStopInv DEF Next

-----------------------------------------------------------------------------
(***************************************************************************)
(* Theorems.                                                               *)
(***************************************************************************)
\* The strengthened invariant holds in every state.
THEOREM Invariant == Spec => []IInv
BY InvInit, InvStep, PTL DEF Spec

\* The stop button always has a run to stop, the progress line a run that clears it, and
\* the session on the screen exists (isGenerating, generationStage, generationTask and
\* activeSessionId of GlobalViewModel).
THEOREM AlwaysRunInv == Spec => []RunInv
<1>1. IInv => RunInv
  BY DEF IInv
<1> QED BY <1>1, Invariant, PTL

\* However stops, switches, deletions and the end of the process come between, an answer
\* that came to its end is saved with its question (the epilogue of sendMessage's Task).
THEOREM AlwaysAnswersSaved == Spec => []AnswersSaved
<1>1. IInv => AnswersSaved
  BY DEF IInv
<1> QED BY <1>1, Invariant, PTL

\* A step takes a question out of the store only together with its session: sendMessage
\* has saved it before anything can kill the process.
LEMMA QuestionsStep ==
  ASSUME IInv, [Next]_vars
  PROVE  \A m \in store \ store' : m[2] = "user" => session[m[1]] \in deleted'
<1>1. CASE store \subseteq store'
  BY <1>1
<1>2. ASSUME NEW s \in ChatSessions, DeleteSession(s)
      PROVE  \A m \in store \ store' : m[2] = "user" => session[m[1]] \in deleted'
  BY <1>2 DEF DeleteSession, MessagesOf
<1>3. CASE Relaunch
  BY <1>3 DEF Relaunch, IInv, Kept
<1>4. ASSUME EngineStep PROVE store' = store
  BY <1>4 DEF EngineStep, ServeTemplate, ServeOpen, StartDecoding, NotLoaded, DecodeToken,
     EndDecoding, ServeStop, disk
<1>5. ASSUME NEW r \in Runs, RunStep(r) PROVE store \subseteq store'
  BY <1>5 DEF RunStep, StartSearch, StartRanking, BuildPrompt, Draft, TakeToken, EndRun, disk
<1>6. ASSUME NEW s \in ChatSessions, Send(s) \/ NewSession(s) \/ SelectSession(s)
      PROVE  store \subseteq store'
  BY <1>6 DEF Send, NewSession, SelectSession, disk
<1>7. ASSUME Stop \/ PostStop \/ UNCHANGED vars PROVE store' = store
  BY <1>7 DEF Stop, PostStop, disk, vars
<1> QED BY <1>1, <1>2, <1>3, <1>4, <1>5, <1>6, <1>7 DEF Next, UserStep

\* A question that was sent is not lost again, whatever is stopped, switched or killed,
\* except with its session (QuestionsLast).
THEOREM AlwaysQuestionsLast == Spec => QuestionsLast
<1>1. IInv /\ [Next]_vars =>
        [\A m \in store \ store' : m[2] = "user" => session[m[1]] \in deleted']_vars
  BY QuestionsStep
<1> QED BY <1>1, Invariant, PTL DEF Spec, QuestionsLast

\* No step adds a token to the text of a run that was stopped, although the engine may
\* go on with it (the check of Task.isCancelled in the loop over the stream).
LEMMA FrozenStep ==
  ASSUME IInv, [Next]_vars
  PROVE  \A r \in cancelled : text'[r] <= text[r]
<1>0. \A r \in cancelled : r \in Runs /\ text[r] \in 0..MaxTokens
  BY DEF IInv, RunInv, TypeOK
<1>1. CASE text' = text
  BY <1>0, <1>1, BoundsAssumption
<1>2. ASSUME NEW r \in Runs, TakeToken(r)
      PROVE  \A q \in cancelled : text'[q] <= text[q]
  <2>1. \A q \in cancelled : text'[q] = text[q]
    BY <1>0, <1>2 DEF TakeToken, IInv, RunInv, TypeOK
  <2> QED BY <1>0, <2>1, BoundsAssumption
<1>3. CASE Relaunch
  BY <1>0, <1>3, BoundsAssumption DEF Relaunch
<1>4. ASSUME EngineStep \/ PostStop \/ Stop \/ UNCHANGED vars PROVE text' = text
  BY <1>4 DEF EngineStep, ServeTemplate, ServeOpen, StartDecoding, NotLoaded, DecodeToken,
     EndDecoding, ServeStop, PostStop, Stop, task, vars
<1>5. ASSUME NEW r \in Runs, RunStep(r), ~TakeToken(r) PROVE text' = text
  BY <1>5 DEF RunStep, StartSearch, StartRanking, BuildPrompt, Draft, EndRun
<1>6. ASSUME NEW s \in ChatSessions,
             Send(s) \/ NewSession(s) \/ SelectSession(s) \/ DeleteSession(s)
      PROVE  text' = text
  BY <1>6 DEF Send, NewSession, SelectSession, DeleteSession, task
<1> QED BY <1>1, <1>2, <1>3, <1>4, <1>5, <1>6 DEF Next, UserStep

\* The text of a stopped run never grows, while the engine goes on decoding for it or
\* begins another run (StoppedTextFrozen).
THEOREM AlwaysStoppedTextFrozen == Spec => StoppedTextFrozen
<1>1. IInv /\ [Next]_vars => [\A r \in cancelled : text'[r] <= text[r]]_vars
  BY FrozenStep
<1> QED BY <1>1, Invariant, PTL DEF Spec, StoppedTextFrozen
=============================================================================
