----------------------------- MODULE Retrieval -----------------------------
(***************************************************************************)
(* Questions, the sources RAGPipelineService selects for them, and what    *)
(* the feedback on the answers does to the next questions                  *)
(* (GlobalViewModel.recordFeedback).                                       *)
(*                                                                         *)
(* The boosts are captured when a question reaches the ranking, which runs *)
(* on another thread; feedback is recorded meanwhile.  Boosts are kept     *)
(* over a relaunch, the feedback that led to them is not.  Boosts are in   *)
(* hundredths; notes and chunks have a map each, here it is one.  Every    *)
(* question of a behaviour meets the same signals.                         *)
(***************************************************************************)
EXTENDS RagSelection

CONSTANTS Messages,     \* bound: assistant messages
          Signals,      \* semantic and lexical scores a source may have
          MaxLaunches   \* bound: times the app is started

ASSUME SignalsAssumption ==
  /\ \A sig \in Signals : sig.semantic \in (-100..100) \cup {None} /\ sig.lexical \in 0..100
  /\ None \notin Int \cup {"notRelevant", "partlyWrong", "missingSource"}
ASSUME BoundsAssumption ==
  IsFiniteSet(Messages) /\ None \notin Messages /\ MaxLaunches \in Nat \ {0}

VARIABLES
  profile, signal, documentOf, fingerprint,  \* the question and the sources
  boosts,      \* noteFeedbackBoosts, chunkFeedbackBoosts
  savedBoosts, \* ... in the defaults
  feedback,    \* feedbackByAssistantMessageId
  cited,       \* sourceNoteIds and sourceKnowledgeChunkIds of the saved answers
  asking,      \* the question in the ranking, with the boosts it has captured
  result,      \* what the last one was answered from, and the scores
  launches,
  base,        \* ghost: boosts when the app was started
  clamped      \* history: sources one of whose boosts was cut to the range

corpus  == <<profile, signal, documentOf, fingerprint>>
ratings == <<boosts, savedBoosts, feedback, base, clamped>>
vars    == <<corpus, ratings, cited, asking, result, launches>>

Feedbacks == {"notRelevant", "partlyWrong", "missingSource"}
delta(f)  == [notRelevant |-> -6, partlyWrong |-> -3, missingSource |-> -1][f]
NotAsked  == [message |-> None]

TypeOK ==
  /\ boosts \in [Sources -> -20..20] /\ savedBoosts \in [Sources -> -20..20]
  /\ feedback \in [Messages -> Feedbacks \cup {None}]
  /\ \A m \in Messages : cited[m] = None \/ cited[m] \in SUBSET Sources
  /\ \A m \in Messages : feedback[m] # None => cited[m] # None
  /\ asking.message \in Messages \cup {None}
  /\ launches \in 1..MaxLaunches
  /\ clamped \in SUBSET Sources
  /\ Len(result.selected) <= Profiles[profile].maxResults

-----------------------------------------------------------------------------
\* The message is sent, up to the ranking.
Ask(m) ==
  /\ asking = NotAsked /\ cited[m] = None
  /\ asking' = [message |-> m, boosts |-> boosts]
  /\ UNCHANGED <<corpus, ratings, cited, result, launches>>

\* The ranking is done; the answer is inserted with the sources it is given.
Retrieved ==
  /\ asking # NotAsked
  /\ LET p == Profiles[profile]
         score == [s \in Sources |-> Score(signal[s], asking.boosts[s], p)]
     IN \E r \in Rankings(score, signal) :
          /\ result' = Retrieve(r, score, signal, documentOf, fingerprint, p)
          /\ cited' = [cited EXCEPT ![asking.message] = ToSet(result'.selected)]
  /\ asking' = NotAsked
  /\ UNCHANGED <<corpus, ratings, launches>>

\* One delta after the other, each clamped.
Applied(b, d) == Clamped(Clamped(b + d[1], -20, 20) + d[2], -20, 20)

\* Mistake to catch: an earlier feedback is not taken back.
DeltasAdded(m, f) == <<0, delta(f)>>

\* What an answer's feedback was is taken back, then the new one counts.
Deltas(m, f) == <<IF feedback[m] = None THEN 0 ELSE -delta(feedback[m]), delta(f)>>

RecordFeedback(m, f) ==
  /\ cited[m] # None
  /\ feedback' = [feedback EXCEPT ![m] = f]
  /\ LET d == Deltas(m, f)
     IN /\ boosts' = [s \in Sources |->
                        IF s \in cited[m] THEN Applied(boosts[s], d) ELSE boosts[s]]
        /\ clamped' = clamped \cup
             {s \in cited[m] : \/ boosts[s] + d[1] \notin -20..20
                               \/ Clamped(boosts[s] + d[1], -20, 20) + d[2] \notin -20..20}
  /\ savedBoosts' = boosts'
  /\ UNCHANGED <<corpus, base, cited, asking, result, launches>>

\* A question that was in the ranking is gone.
Relaunch ==
  /\ launches < MaxLaunches /\ launches' = launches + 1
  /\ boosts' = savedBoosts /\ base' = savedBoosts
  /\ feedback' = [m \in Messages |-> None]
  /\ clamped' = {}
  /\ asking' = NotAsked
  /\ result' = Nothing(result.score)
  /\ UNCHANGED <<corpus, savedBoosts, cited>>

Init ==
  /\ profile \in DOMAIN Profiles
  /\ signal \in [Sources -> Signals]
  /\ documentOf \in [ChunkSources -> ChunkSources]
  /\ fingerprint \in [Sources -> Sources]
  /\ boosts = [s \in Sources |-> 0] /\ savedBoosts = boosts /\ base = boosts
  /\ feedback = [m \in Messages |-> None] /\ cited = [m \in Messages |-> None]
  /\ asking = NotAsked
  /\ result = Nothing([s \in Sources |-> 0])
  /\ launches = 1 /\ clamped = {}

Next ==
  \/ \E m \in Messages : Ask(m) \/ \E f \in Feedbacks : RecordFeedback(m, f)
  \/ Retrieved \/ Relaunch

Spec == Init /\ [][Next]_vars

-----------------------------------------------------------------------------
(***************************************************************************)
(* Properties.                                                             *)
(***************************************************************************)
selected == result.selected
Cited    == ToSet(selected)
Seeded   == {Best(result.active, NoteSources), Best(result.active, ChunkSources)}

\* The best candidate is cited, or a source that says the same is.
TopOrItsTextIsCited ==
  result.active # <<>> =>
    \E s \in Cited : fingerprint[s] = fingerprint[result.active[1]]

\* No document gives more than its share of chunks, seeds included.
CapPerDocument ==
  \A d \in ChunkSources :
    Cardinality(OfDocument(selected, documentOf, d)) <= Profiles[profile].maxChunksPerDocument

\* Two sources that say the same are cited only as the best note and the best chunk.
OnlySeedsRepeat ==
  \A s, t \in Cited : s # t /\ fingerprint[s] = fingerprint[t] => {<<s>>, <<t>>} = Seeded

\* What is cited keeps to the limits, on every path that cites.
SelectionLimits == TypeOK /\ CapPerDocument /\ OnlySeedsRepeat

\* A candidate above the threshold is left out only when there is no room, when its
\* text is cited, or when its document has its share; and no source that is worse is
\* cited in its place, the best note and the best chunk apart.
NothingBetterLeftOut ==
  \A s \in ToSet(result.active) \ Cited :
    LET said == \E t \in Cited : fingerprint[t] = fingerprint[s]
        full == /\ s \in ChunkSources
                /\ Cardinality(OfDocument(selected, documentOf, documentOf[s]))
                     >= Profiles[profile].maxChunksPerDocument
    IN \/ said \/ full
       \/ /\ Len(selected) = Profiles[profile].maxResults
          /\ \A t \in Cited : <<t>> \in Seeded \/ result.score[t] >= result.score[s]

\* The confidence shown is never above what the best cited source deserves.
ConfidenceIsEarned ==
  result.confidence > 0 =>
    \E s \in Cited : result.confidence <= confidenceLevel(result.score[s], Len(selected))

\* What the feedback fb on the answers that cite ct comes to for a source.
FeedbackSum(fb, ct, s) ==
  FoldSet(LAMBDA m, n : n + (IF fb[m] # None /\ s \in ct[m] THEN delta(fb[m]) ELSE 0), 0, Messages)

\* While it was never cut to the range, a boost is what it was at the start of the app
\* and the feedback the answers have now, whatever they had before.
BoostIsSumOfFeedback ==
  \A s \in Sources \ clamped : boosts[s] = base[s] + FeedbackSum(feedback, cited, s)
=============================================================================
