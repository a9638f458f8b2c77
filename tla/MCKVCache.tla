----------------------------- MODULE MCKVCache -----------------------------
\* The instance of KVCache that TLC checks.
EXTENDS KVCache

\* No step depends on what the last call returned.
View == <<unified, base, swa, edits, entangled>>
=============================================================================
