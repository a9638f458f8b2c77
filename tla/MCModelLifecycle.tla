-------------------------- MODULE MCModelLifecycle --------------------------
EXTENDS ModelLifecycle, TLC

CONSTANTS c1, c2, e1

MCChatModels      == {c1, c2}
MCEmbeddingModels == {e1}

\* Bound of the run: one chat model comes and goes, the other models are installed.
Bound == {c2, e1} \subseteq installed'
=============================================================================
