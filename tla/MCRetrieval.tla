---------------------------- MODULE MCRetrieval ----------------------------
\* The instance of Retrieval that TLC checks.
EXTENDS Retrieval

CONSTANTS n1, n2, k1, k2, m1, m2

\* Well above the threshold by both signals; above it by one; words in common, which is
\* near the threshold for the fast profile only; and words in common against the meaning.
MCSignals == {[semantic |-> 90, lexical |-> 50], [semantic |-> 70, lexical |-> 0],
              [semantic |-> None, lexical |-> 60], [semantic |-> -40, lexical |-> 50]}

\* At most two sources say the same, a document is named after one of its chunks, and
\* one source or all have words in common against the meaning.
Alike(s, t) == [r \in Sources |-> IF r = t THEN s ELSE r]
Against == {s \in Sources : signal[s].semantic = -40}

Corpora == /\ Against \subseteq {n2} \/ Against = Sources
           /\ fingerprint \in {Alike(n1, n1), Alike(n1, k1), Alike(k1, k2), Alike(n1, n2)}
           /\ documentOf \in {[k \in ChunkSources |-> k], [k \in ChunkSources |-> k1]}

\* Bounds of the instance.  m1 is asked first; all corpora meet two questions and the
\* feedback on the first, one of them feedback on both and relaunches.
Plain == /\ signal = [s \in Sources |-> [semantic |-> 90, lexical |-> 50]]
         /\ fingerprint = Alike(n1, n1) /\ profile = "balanced"
Bound == /\ asking'.message = m2 => cited[m1] # None
         /\ launches' > 1 \/ feedback'[m2] # None => Plain

MCInit == Init /\ Corpora

MCSpec == MCInit /\ [][Next]_vars
=============================================================================
