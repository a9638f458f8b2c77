-------------------------- MODULE MCChatGeneration --------------------------
EXTENDS ChatGeneration

CONSTANTS s1, s2

MCSessions == {s1, s2}

\* The two initial states differ in the name of the only session: one of them
\* is enough, and symmetry would not be sound for liveness.
MCInit == Init /\ activeSessionId = s1

MCSpec == MCInit /\ [][Next]_vars /\ Fairness
=============================================================================
