--------------------------- MODULE MCThreadPool ---------------------------
\* The instance of ThreadPool that TLC checks.
EXTENDS ThreadPool, TLC

\* A node of every kind, and a multiplication after another one.
MCKind == 0 :> "matmul" @@ 1 :> "nop" @@ 2 :> "matmul" @@ 3 :> "plain"
=============================================================================
