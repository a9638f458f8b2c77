---------------------------- MODULE RagSelection ----------------------------
(***************************************************************************)
(* RAGPipelineService: which notes and chunks are put before the model for *)
(* a question.                                                             *)
(*                                                                         *)
(* Texts are abstracted to what the scoring makes of them: a source has a  *)
(* semantic score, or None where it has no embedding that can be compared, *)
(* and a lexical score, both in hundredths; fused scores are in            *)
(* ten-thousandths.  A source without a semantic score and without a       *)
(* common word is no candidate.  Rounding of Float is left out.            *)
(***************************************************************************)
EXTENDS Integers, Sequences, FiniteSets, SequencesExt, FiniteSetsExt

CONSTANTS NoteSources,   \* notes
          ChunkSources,  \* chunks of documents
          None

ASSUME SourcesAssumption ==
  /\ NoteSources \cap ChunkSources = {}
  /\ IsFiniteSet(NoteSources) /\ IsFiniteSet(ChunkSources)

Sources == NoteSources \cup ChunkSources

\* RAGRetrievalProfile.
Profiles == [
  fastRecommended |-> [maxCandidates |-> 20, maxResults |-> 3, semanticWeight |-> 78,
                       minimumFusedScore |-> 4200, maxChunksPerDocument |-> 1],
  balanced        |-> [maxCandidates |-> 40, maxResults |-> 4, semanticWeight |-> 75,
                       minimumFusedScore |-> 3400, maxChunksPerDocument |-> 2],
  deepSearch      |-> [maxCandidates |-> 80, maxResults |-> 5, semanticWeight |-> 70,
                       minimumFusedScore |-> 2800, maxChunksPerDocument |-> 2]]

Clamped(x, low, high) == IF x < low THEN low ELSE IF x > high THEN high ELSE x

IsCandidate(sig) == sig.lexical > 0 \/ (sig.semantic # None /\ sig.semantic >= 65)

\* fusedScore of a candidate.
FusedScore(sig, p) ==
  LET fused == sig.semantic * p.semanticWeight + sig.lexical * (100 - p.semanticWeight)
  IN IF sig.semantic = None THEN sig.lexical * 65
     ELSE IF fused > 0 THEN fused ELSE 0

\* adjustedFusedScore; boosts are in hundredths.
Score(sig, boost, p) ==
  Clamped(FusedScore(sig, p) + 100 * Clamped(boost, -20, 20), 0, 12000)

\* The orders in which a sort may leave the candidates.
Rankings(score, signal) ==
  {r \in SetToSeqs({s \in Sources : IsCandidate(signal[s])}) :
     \A i, j \in DOMAIN r : i < j =>
       \/ score[r[i]] > score[r[j]]
       \/ score[r[i]] = score[r[j]] /\ signal[r[i]].lexical >= signal[r[j]].lexical}

\* The candidates above the threshold, in their order.
Filtered(ranked, score, p) ==
  FoldLeft(LAMBDA kept, s : IF score[s] >= p.minimumFusedScore THEN Append(kept, s) ELSE kept,
           <<>>, ranked)

\* Those, or the best one if it is nearly there or is supported by both signals.
Active(ranked, score, signal, p) ==
  LET filtered == Filtered(ranked, score, p)
  IN IF filtered # <<>> \/ ranked = <<>> THEN filtered
     ELSE LET top == ranked[1]
          IN IF \/ 4 * score[top] >= 3 * p.minimumFusedScore
                \/ signal[top].semantic # None /\ signal[top].lexical >= 45
               THEN <<top>> ELSE <<>>

\* The first of a ranking that is in S, as a sequence of one or none.
Best(ranked, S) == LET mine == {i \in DOMAIN ranked : ranked[i] \in S}
                   IN IF mine = {} THEN <<>> ELSE <<ranked[Min(mine)]>>

\* The best note, and the best chunk if it is alone or not far from it.
Seeds(active, score) ==
  LET note == Best(active, NoteSources)
      chunk == Best(active, ChunkSources)
      gap == score[note[1]] - score[chunk[1]]
  IN IF note = <<>> \/ chunk = <<>> \/ (gap \in -1800..1800)
       THEN note \o chunk ELSE note

OfDocument(selected, documentOf, d) ==
  {i \in DOMAIN selected : selected[i] \in ChunkSources /\ documentOf[selected[i]] = d}

\* Mistake to catch: the loop goes by what is said, not by where it stands.
AdmitAnyDocument(selected, s, documentOf, fingerprint, p) ==
  IF \/ Len(selected) >= p.maxResults
     \/ \E i \in DOMAIN selected : selected[i] = s \/ fingerprint[selected[i]] = fingerprint[s]
    THEN selected ELSE Append(selected, s)

\* Mistake to catch: a place is kept free.
AdmitLess(selected, s, documentOf, fingerprint, p) ==
  IF \/ Len(selected) >= p.maxResults - 1
     \/ \E i \in DOMAIN selected : selected[i] = s \/ fingerprint[selected[i]] = fingerprint[s]
     \/ /\ s \in ChunkSources
        /\ Cardinality(OfDocument(selected, documentOf, documentOf[s])) >= p.maxChunksPerDocument
    THEN selected ELSE Append(selected, s)

\* What the loop does with one candidate.
Admit(selected, s, documentOf, fingerprint, p) ==
  IF \/ Len(selected) >= p.maxResults
     \/ \E i \in DOMAIN selected : selected[i] = s \/ fingerprint[selected[i]] = fingerprint[s]
     \/ /\ s \in ChunkSources
        /\ Cardinality(OfDocument(selected, documentOf, documentOf[s])) >= p.maxChunksPerDocument
    THEN selected ELSE Append(selected, s)

\* Mistake to catch: the loop leaves out the first, as if it were always a seed.
diversifyTheRest(active, score, documentOf, fingerprint, p) ==
  FoldLeft(LAMBDA selected, s : Admit(selected, s, documentOf, fingerprint, p),
           Seeds(active, score), IF active = <<>> THEN active ELSE Tail(active))

\* The seeds, and the others in their order.
diversifyAndBalance(active, score, documentOf, fingerprint, p) ==
  FoldLeft(LAMBDA selected, s : Admit(selected, s, documentOf, fingerprint, p),
           Seeds(active, score), active)

\* 3 is high, 2 medium, 1 low, 0 none.
confidenceLevel(topScore, count) ==
  IF topScore >= 7400 \/ (topScore >= 6600 /\ count >= 2) THEN 3
  ELSE IF topScore >= 5400 THEN 2
  ELSE IF topScore >= 4000 THEN 1 ELSE 0

Nothing(score) == [score |-> score, active |-> <<>>, selected |-> <<>>, confidence |-> 0]

\* Mistake to catch: the confidence is that of the best candidate, cited or not.
RetrieveConfident(ranked, score, signal, documentOf, fingerprint, p) ==
  LET active   == Active(SubSeq(ranked, 1, Min({Len(ranked), p.maxCandidates})), score, signal, p)
      selected == diversifyAndBalance(active, score, documentOf, fingerprint, p)
  IN IF active = <<>> THEN Nothing(score)
     ELSE [score |-> score, active |-> active, selected |-> selected,
           confidence |-> confidenceLevel(score[active[1]], Len(selected))]

\* retrieveContext, for one order of the candidates.
Retrieve(ranked, score, signal, documentOf, fingerprint, p) ==
  LET active   == Active(SubSeq(ranked, 1, Min({Len(ranked), p.maxCandidates})), score, signal, p)
      selected == diversifyAndBalance(active, score, documentOf, fingerprint, p)
  IN IF active = <<>> THEN Nothing(score)
     ELSE [score |-> score, active |-> active, selected |-> selected,
           confidence |-> confidenceLevel(score[selected[1]], Len(selected))]
=============================================================================
