-------------------------- MODULE ThreadPoolProofs --------------------------
(***************************************************************************)
(* Proofs about the threads (ThreadPool): they are kept apart (Separated)  *)
(* and compute every chunk once (ChunksOnce), for every number of threads, *)
(* every graph and every number of graphs.  What has to be added: a        *)
(* barrier is passed when as many threads have arrived as take part, which *)
(* are all of them because only those that take part can arrive (Counted); *)
(* and all that wait at a barrier wait at the same one, because each       *)
(* thread has come there from the barrier that was passed last over nodes  *)
(* that all of them skip (OnTheWay).  The last barrier of a graph then     *)
(* leaves no thread behind that could take the next graph for this one     *)
(* (TakesPart).                                                            *)
(***************************************************************************)
EXTENDS ThreadPool, FiniteSetTheorems, SequenceTheorems, TLAPS

InGraph(t)  == pc[t] \in Barrier \cup Compute
\* Where a thread is: in the graph, let go by the barrier, waiting at it, or about to
\* open it.
Released(t) == pc[t] = "spin" /\ n_passed[t] # n_barrier_passed
Current(t)  == InGraph(t) /\ ~Released(t)
Waiting(t)  == pc[t] \in Arrived /\ ~Released(t)
Closing(t)  == pc[t] \in {"reset", "release"}

\* The caller never sleeps in the pool, and the others never set up a graph.
Roles ==
  /\ pc[0] \notin {"top", "asleep", "exited"}
  /\ \A t \in Threads \ {0} : pc[t] \notin {"idle", "kickoff", "join", "freed"}

\* The threads that are in the graph are among those that take part, and have seen it;
\* one that was released is where the last barrier was, or done.
TakesPart ==
  /\ \A t \in Threads : Current(t) =>
       /\ t < n_graph.n /\ last.then # "return"
       /\ t # 0 => last_graph[t] = n_graph
  /\ \A t \in Threads : Released(t) /\ then[t] # "return" =>
       /\ t < n_graph.n /\ then[t] = last.then /\ node[t] = last.node
       /\ t # 0 => last_graph[t] = n_graph
  /\ last.then # "return" => Current(0) \/ (Released(0) /\ then[0] # "return")
  /\ last.node = -1 => last.then = "next"
  /\ last.node # -1 => \A t \in Threads : t # 0 /\ t < n_graph.n => last_graph[t] = n_graph

\* Every node up to j was skipped, or was the last one and is done.
Path(j) == \A i \in last.node + 1..j - 1 :
             abort # i /\ (Kind[i] = "nop" \/ (Kind[i] = "plain" /\ i + 1 = NNodes))

\* The thread is at a node of this kind that is not given up.
Here(t, k) == node[t] < NNodes /\ abort # node[t] /\ Kind[node[t]] = k

\* The thread is in the barrier that leads to l.
AtBarrier(t, l) == pc[t] \in Barrier /\ then[t] = l

\* Where the barrier of a node that was not skipped leaves the thread.
InMatmul(t) == Here(t, "matmul") /\ (pc[t] = "prepare" \/ AtBarrier(t, "chunk"))

\* The thread is at a node that every thread computes a share of.
InPlain(t) ==
  /\ Here(t, "plain")
  /\ pc[t] \in {"plain", "done"} \/ (AtBarrier(t, "next") /\ node[t] + 1 < NNodes)

\* The thread is in the barrier at the end of the graph.
AtEnd(t) == (node[t] = NNodes \/ abort = node[t]) /\ AtBarrier(t, "return")

\* Where a thread can be when the last barrier led to the next node.
AfterNext(t) ==
  \/ pc[t] = "start" /\ last.node = -1
  \/ /\ node[t] > last.node /\ Path(node[t])
     /\ pc[t] = "loop" \/ InMatmul(t) \/ InPlain(t) \/ AtEnd(t)

\* Where a thread can be when the last barrier let it compute chunks.
AfterChunk(t) ==
  \/ node[t] = last.node /\ pc[t] \in {"chunk", "done"}
  \/ node[t] = last.node /\ node[t] + 1 < NNodes /\ AtBarrier(t, "next")
  \/ node[t] = NNodes /\ last.node + 1 = NNodes /\ (pc[t] = "loop" \/ AtBarrier(t, "return"))

\* A thread in the graph is on the way from the last barrier to the next.
OnTheWay ==
  /\ last.then # "return" => last.node < NNodes
  /\ \A t \in Threads : Current(t) =>
       /\ last.then = "next" => AfterNext(t)
       /\ last.then = "chunk" => AfterChunk(t)

\* The threads that the barrier counts.
Crowd == {t \in Threads : Waiting(t)}

\* The barrier counts those that wait at it, and opens when all that take part do.
Counted ==
  /\ \A t \in Threads : /\ pc[t] = "arrive" => n_passed[t] = n_barrier_passed
                        /\ pc[t] \in Arrived => n_passed[t] <= n_barrier_passed
  /\ \A t \in Threads : Closing(t) =>
       /\ \A u \in Threads : u < n_graph.n => Waiting(u)
       /\ \A u \in Threads : Closing(u) => u = t
       /\ pc[t] = "release" => n_barrier = 0
  /\ (\A t \in Threads : ~Closing(t)) => n_barrier = Cardinality(Crowd)
  /\ (\A t \in Threads : ~Closing(t)) => Crowd = {} \/ n_barrier < n_graph.n

\* The inductive invariant of the pool.
PoolInv == TypeOK /\ Roles /\ TakesPart /\ OnTheWay /\ Counted

-----------------------------------------------------------------------------
(***************************************************************************)
(* What the invariant says of two threads at the same time.                *)
(***************************************************************************)
LEMMA Values ==
  ASSUME TypeOK
  PROVE  /\ NNodes \in Nat /\ NThreads \in Nat \ {0} /\ 0 \in Threads
         /\ \A t \in Threads : node[t] \in 0..NNodes /\ t \in Nat
         /\ last.node \in -1..NNodes /\ last.then \in {"chunk", "next", "return"}
         /\ abort \in -1..NNodes /\ n_graph.n \in 0..NThreads
         /\ n_barrier \in Nat /\ n_barrier_passed \in Nat
         /\ \A t \in Threads : n_passed[t] \in Nat
         /\ \A t \in Threads : then[t] \in {"chunk", "next", "return"}
<1>1. /\ NNodes \in Nat /\ NThreads \in Nat \ {0}
  BY PoolAssumption
<1>2. 0 \in Threads /\ \A t \in Threads : t \in Nat
  BY <1>1 DEF Threads
<1>3. /\ last \in [then : {"chunk", "next", "return"}, node : -1..NNodes]
      /\ n_graph \in [count : Nat, n : 0..NThreads]
  BY DEF TypeOK
<1>4. /\ last.node \in -1..NNodes /\ last.then \in {"chunk", "next", "return"}
      /\ n_graph.n \in 0..NThreads
  BY <1>3
<1>5. n_barrier \in Nat /\ n_barrier_passed \in Nat /\ abort \in -1..NNodes
  BY <1>1 DEF TypeOK
<1>6. /\ \A t \in Threads : node[t] \in 0..NNodes
      /\ \A t \in Threads : n_passed[t] \in Nat
      /\ \A t \in Threads : then[t] \in {"chunk", "next", "return"}
  BY DEF TypeOK
<1> QED
  BY <1>1, <1>2, <1>4, <1>5, <1>6

\* Nobody goes past a node that is not skipped before the barrier that follows it.
LEMMA NobodyPasses ==
  ASSUME TypeOK, NEW t \in Threads, NEW u \in Threads,
         node[t] > last.node, Path(node[u]), node[t] < node[u],
         InMatmul(t) \/ InPlain(t) \/ AtEnd(t)
  PROVE  /\ pc[t] \in {"plain", "done"}
         /\ node[t] + 1 = NNodes /\ node[u] = NNodes
<1>1. /\ NNodes \in Nat /\ node[t] \in 0..NNodes /\ node[u] \in 0..NNodes
      /\ last.node \in Int
  BY Values
<1>2. node[t] \in last.node + 1..node[u] - 1
  BY <1>1
<1>3. /\ abort # node[t]
      /\ Kind[node[t]] = "nop" \/ (Kind[node[t]] = "plain" /\ node[t] + 1 = NNodes)
  BY <1>2 DEF Path
<1>4. InPlain(t)
  BY <1>1, <1>3 DEF InMatmul, AtEnd, Here
<1> QED
  BY <1>1, <1>3, <1>4 DEF InPlain, Here

\* All that are in a barrier are in the same one.
LEMMA SameBarrier ==
  ASSUME PoolInv, NEW t \in Threads, NEW u \in Threads,
         Current(t), Current(u), pc[t] \in Barrier, pc[u] \in Barrier
  PROVE  then[t] = then[u] /\ node[t] = node[u]
<1> USE Values DEF PoolInv
<1>1. CASE last.then = "chunk"
  <2>1. AfterChunk(t) /\ AfterChunk(u)
    BY <1>1 DEF OnTheWay
  <2> QED
    BY <2>1 DEF AfterChunk, AtBarrier, Barrier, Arrived
<1>2. CASE last.then = "next"
  <2>1. /\ node[t] > last.node /\ node[u] > last.node /\ Path(node[t]) /\ Path(node[u])
        /\ InMatmul(t) \/ InPlain(t) \/ AtEnd(t)
        /\ InMatmul(u) \/ InPlain(u) \/ AtEnd(u)
    BY <1>2 DEF OnTheWay, AfterNext, Barrier, Arrived
  <2>2. node[t] \in Int /\ node[u] \in Int
    OBVIOUS
  <2>3. node[t] = node[u]
    BY <2>1, <2>2, NobodyPasses DEF Barrier, Arrived
  <2> QED
    BY <2>1, <2>3 DEF InMatmul, InPlain, AtEnd, Here, AtBarrier, Barrier, Arrived
<1> QED
  BY <1>1, <1>2 DEF TakesPart

\* Separated follows from the invariant.
LEMMA PoolInvSeparates == PoolInv => Separated
<1> SUFFICES ASSUME PoolInv PROVE Separated
  OBVIOUS
<1> USE Values DEF PoolInv
<1>1. ASSUME NEW t \in Threads, NEW u \in Threads,
             pc[t] \in {"prepare", "plain", "chunk"}, pc[u] \in {"prepare", "plain", "chunk"}
      PROVE  node[t] = node[u] /\ pc[t] = pc[u]
  <2>1. Current(t) /\ Current(u)
    BY <1>1 DEF Current, InGraph, Released, Compute
  <2>2. CASE last.then = "chunk"
    <3>1. AfterChunk(t) /\ AfterChunk(u)
      BY <2>1, <2>2 DEF OnTheWay
    <3> QED
      BY <1>1, <3>1 DEF AfterChunk, AtBarrier, Barrier, Arrived
  <2>3. CASE last.then = "next"
    <3>1. /\ node[t] > last.node /\ node[u] > last.node /\ Path(node[t]) /\ Path(node[u])
          /\ InMatmul(t) \/ InPlain(t)
          /\ InMatmul(u) \/ InPlain(u)
      BY <1>1, <2>1, <2>3 DEF OnTheWay, AfterNext, AtEnd, AtBarrier, Barrier, Arrived
    <3>2. node[t] < NNodes /\ node[u] < NNodes /\ node[t] \in Int /\ node[u] \in Int
      BY <3>1 DEF InMatmul, InPlain, Here
    <3>3. node[t] = node[u]
      BY <3>1, <3>2, NobodyPasses
    <3> QED
      BY <1>1, <3>1, <3>3 DEF InMatmul, InPlain, Here, AtBarrier, Barrier, Arrived
  <2> QED
    BY <2>1, <2>2, <2>3 DEF TakesPart
<1>2. ASSUME pc[0] \in Between, NEW t \in Threads, pc[t] \in Compute
      PROVE  FALSE
  <2>1. last.then # "return"
    BY <1>2 DEF TakesPart, Current, InGraph, Released, Compute
  <2>2. pc[0] \in Barrier \cup Compute
    BY <2>1 DEF TakesPart, Current, InGraph, Released, Barrier, Arrived
  <2> QED
    BY <1>2, <2>2 DEF Between, Barrier, Compute, Arrived
<1> QED
  BY <1>1, <1>2 DEF Separated

\* A node that is being ended is one of the graph's.
LEMMA NodeToEnd ==
  ASSUME PoolInv, NEW t \in Threads,
         pc[t] = "done" \/ (pc[t] \in Barrier /\ then[t] = "next")
  PROVE  node[t] < NNodes
<1> USE Values DEF PoolInv
<1>1. CASE Released(t)
  BY <1>1 DEF Released, TakesPart, OnTheWay
<1>2. CASE ~Released(t)
  <2>1. Current(t)
    BY <1>2 DEF Current, InGraph, Compute
  <2>2. CASE last.then = "chunk"
    <3>1. AfterChunk(t) /\ last.node < NNodes
      BY <2>1, <2>2 DEF OnTheWay
    <3> QED
      BY <3>1 DEF AfterChunk, AtBarrier, Barrier, Arrived
  <2>3. CASE last.then = "next"
    <3>1. AfterNext(t)
      BY <2>1, <2>3 DEF OnTheWay
    <3> QED
      BY <3>1 DEF AfterNext, InMatmul, InPlain, AtEnd, Here, AtBarrier, Barrier, Arrived
  <2> QED
    BY <2>1, <2>2, <2>3 DEF TakesPart
<1> QED
  BY <1>1, <1>2

-----------------------------------------------------------------------------
(***************************************************************************)
(* Types.                                                                  *)
(***************************************************************************)
LEMMA TypesAtFirst == Init => TypeOK
<1> SUFFICES ASSUME Init PROVE TypeOK
  OBVIOUS
<1>0. NNodes \in Nat /\ NThreads \in Nat \ {0}
  BY PoolAssumption
<1> USE <1>0 DEF Init
<1>1. NoGraph \in [count : Nat, n : 0..NThreads]
  BY DEF NoGraph
<1>2. last \in [then : {"chunk", "next", "return"}, node : -1..NNodes] /\ abort \in -1..NNodes
  OBVIOUS
<1>3. /\ pc \in [Threads -> Barrier \cup Compute \cup Between]
      /\ last_graph \in [Threads -> [count : Nat, n : 0..NThreads]]
  BY <1>1 DEF Between
<1>4. /\ node \in [Threads -> 0..NNodes] /\ nth \in [Threads -> 0..NThreads]
      /\ chunk \in [Threads -> Nat] /\ n_passed \in [Threads -> Nat]
      /\ then \in [Threads -> {"chunk", "next", "return"}]
      /\ computed \in [AllChunks -> Nat]
  OBVIOUS
<1> QED
  BY <1>1, <1>2, <1>3, <1>4 DEF TypeOK

\* Every step keeps the types.
LEMMA TypesKept == PoolInv /\ [Next]_vars => TypeOK'
<1> SUFFICES ASSUME PoolInv, [Next]_vars PROVE TypeOK'
  OBVIOUS
<1> USE DEF PoolInv, TypeOK, Barrier, Arrived, Compute, Between
<1>0. /\ NNodes \in Nat /\ NThreads \in Nat \ {0}
      /\ \A t \in Threads : t \in Nat
      /\ 0 \in Threads
  BY PoolAssumption DEF Threads
<1>1. ASSUME NEW t \in Threads, Enter(t) PROVE TypeOK'
  BY <1>0, <1>1 DEF Enter, Goto, shared
<1>2. ASSUME NEW t \in Threads, Arrive(t) PROVE TypeOK'
  BY <1>0, <1>2 DEF Arrive, Goto
<1>3. ASSUME NEW t \in Threads, Reset(t) PROVE TypeOK'
  BY <1>0, <1>3 DEF Reset, Goto
<1>4. ASSUME NEW t \in Threads, Leave(t), pc[t] \in Barrier
      PROVE  /\ pc' \in [Threads -> Barrier \cup Compute \cup Between]
             /\ node' \in [Threads -> 0..NNodes]
             /\ chunk' \in [Threads -> Nat]
             /\ UNCHANGED <<nth, n_passed, then, last_graph, computed>>
  <2>1. then[t] = "next" => node[t] < NNodes
    BY <1>4, NodeToEnd
  <2> QED
    BY <1>0, <1>4, <2>1 DEF Leave
<1>5. ASSUME NEW t \in Threads, pc[t] \in Barrier
      PROVE  [then |-> then[t], node |-> node[t]]
               \in [then : {"chunk", "next", "return"}, node : -1..NNodes]
  BY <1>0, <1>5
<1>6. ASSUME NEW t \in Threads, PassAlone(t) PROVE TypeOK'
  BY <1>0, <1>4, <1>5, <1>6 DEF PassAlone, shared
<1>7. ASSUME NEW t \in Threads, Release(t) PROVE TypeOK'
  BY <1>0, <1>4, <1>5, <1>7 DEF Release
<1>8. ASSUME NEW t \in Threads, Spin(t) PROVE TypeOK'
  BY <1>0, <1>4, <1>8 DEF Spin, shared
<1>9. ASSUME NEW t \in Threads, Start(t) PROVE TypeOK'
  BY <1>0, <1>9 DEF Start, Goto, shared
<1>10. ASSUME NEW t \in Threads, EndLoop(t) PROVE TypeOK'
  BY <1>0, <1>10 DEF EndLoop, Call, Goto, shared
<1>11. ASSUME NEW t \in Threads, Skip(t) PROVE TypeOK'
  BY <1>0, <1>11 DEF Skip, AtNode, shared
<1>12. ASSUME NEW t \in Threads, BeginNode(t) PROVE TypeOK'
  BY <1>0, <1>12 DEF BeginNode, Goto, shared
<1>13. ASSUME NEW t \in Threads, PrepareMatmul(t) PROVE TypeOK'
  BY <1>0, <1>13 DEF PrepareMatmul, Call, Goto
<1>14. ASSUME NEW t \in Threads, ComputeChunk(t) PROVE TypeOK'
  <2>1. computed[chunk[t]] + 1 \in Nat \/ chunk[t] \notin AllChunks
    OBVIOUS
  <2>2. computed' \in [AllChunks -> Nat]
    BY <1>14, <2>1 DEF ComputeChunk
  <2>3. chunk' \in [Threads -> Nat] /\ current_chunk' \in Nat
    BY <1>14 DEF ComputeChunk
  <2>4. pc' \in [Threads -> Barrier \cup Compute \cup Between]
    BY <1>14 DEF ComputeChunk, Goto
  <2> QED
    BY <1>14, <2>2, <2>3, <2>4 DEF ComputeChunk
<1>15. ASSUME NEW t \in Threads, NoChunkLeft(t) PROVE TypeOK'
  BY <1>0, <1>15 DEF NoChunkLeft, Goto, shared
<1>16. ASSUME NEW t \in Threads, ComputePlain(t) PROVE TypeOK'
  BY <1>0, <1>16 DEF ComputePlain, Goto, shared
<1>17. ASSUME NEW t \in Threads, EndNode(t) PROVE TypeOK'
  <2>1. node[t] < NNodes
    BY <1>17, NodeToEnd DEF EndNode
  <2>2. abort' \in -1..NNodes
    BY <1>0, <1>17, <2>1 DEF EndNode
  <2>3. node' \in [Threads -> 0..NNodes]
    BY <1>0, <1>17, <2>1 DEF EndNode
  <2>4. /\ pc' \in [Threads -> Barrier \cup Compute \cup Between]
        /\ then' \in [Threads -> {"chunk", "next", "return"}]
    BY <1>17 DEF EndNode, Call, Goto
  <2> QED
    BY <1>17, <2>2, <2>3, <2>4 DEF EndNode
<1>18. ASSUME NEW t \in Threads \ {0}, WaitStep(t) \/ Wake(t) PROVE TypeOK'
  <2>1. pc' \in [Threads -> Barrier \cup Compute \cup Between]
    BY <1>18 DEF WaitStep, Sleep, Exit, SeeGraph, Wake
  <2>2. last_graph' \in [Threads -> [count : Nat, n : 0..NThreads]]
    BY <1>18 DEF WaitStep, Sleep, Exit, SeeGraph, Wake
  <2> QED
    BY <1>18, <2>1, <2>2 DEF WaitStep, Sleep, Exit, SeeGraph, Wake, shared
<1>19. CASE BeginCompute
  BY <1>0, <1>19 DEF BeginCompute
<1>20. ASSUME NEW n \in 1..NThreads, Kickoff(n) PROVE TypeOK'
  <2>1. n_graph' \in [count : Nat, n : 0..NThreads]
    <3>1. n_graph.count \in Nat
      OBVIOUS
    <3> QED
      BY <1>0, <1>20, <3>1 DEF Kickoff
  <2>2. last' \in [then : {"chunk", "next", "return"}, node : -1..NNodes]
    BY <1>0, <1>20 DEF Kickoff
  <2>3. pc' \in [Threads -> Barrier \cup Compute \cup Between]
    BY <1>20 DEF Kickoff, Awake
  <2>4. computed' \in [AllChunks -> Nat] /\ pause' \in BOOLEAN
    BY <1>20 DEF Kickoff
  <2> QED
    BY <1>20, <2>1, <2>2, <2>3, <2>4 DEF Kickoff
<1>21. CASE Joined
  BY <1>0, <1>21 DEF Joined, shared
<1>22. ASSUME NEW b \in BOOLEAN, SetPause(b) PROVE TypeOK'
  BY <1>0, <1>22 DEF SetPause, Awake
<1>23. CASE Free
  BY <1>0, <1>23 DEF Free, Awake
<1>24. CASE UNCHANGED vars
  BY <1>24 DEF vars, shared, locals
<1> QED
  BY <1>1, <1>2, <1>3, <1>6, <1>7, <1>8, <1>9, <1>10, <1>11, <1>12, <1>13, <1>14, <1>15,
     <1>16, <1>17, <1>18, <1>19, <1>20, <1>21, <1>22, <1>23, <1>24
  DEF Next, Begin, BarrierStep, ComputeStep

-----------------------------------------------------------------------------
(***************************************************************************)
(* Steps of a thread between two barriers.                                 *)
(***************************************************************************)
Others(t) ==
  \A u \in Threads \ {t} : /\ pc'[u] = pc[u] /\ node'[u] = node[u]
                           /\ then'[u] = then[u] /\ n_passed'[u] = n_passed[u]

\* A step of one thread that does not touch the barrier.
Moves(t) ==
  /\ pc[t] \in Compute \cup {"enter"} /\ pc'[t] \in Compute \cup {"enter", "arrive"}
  /\ pc'[t] = "arrive" => n_passed'[t] = n_barrier_passed
  /\ Others(t)
  /\ UNCHANGED <<n_graph, n_barrier, n_barrier_passed, last, last_graph>>

\* While a thread is on its way to the barrier nobody leaves it.
LEMMA NobodyCloses ==
  ASSUME PoolInv, NEW t \in Threads, pc[t] \in Compute \cup {"enter", "arrive"}
  PROVE  /\ \A u \in Threads : ~Closing(u)
         /\ Current(t) /\ t < n_graph.n /\ last.then # "return"
<1>1. Current(t) /\ ~Waiting(t)
  BY DEF Current, InGraph, Released, Waiting, Barrier, Compute, Arrived
<1>2. t < n_graph.n /\ last.then # "return"
  BY <1>1 DEF PoolInv, TakesPart
<1> QED
  BY <1>1, <1>2 DEF PoolInv, Counted

\* Such a step keeps who takes part and who is counted.
LEMMA MovesKeep ==
  ASSUME PoolInv, NEW t \in Threads, Moves(t)
  PROVE  Roles' /\ TakesPart' /\ Counted'
<1>1. /\ \A u \in Threads : ~Closing(u)
      /\ Current(t) /\ t < n_graph.n /\ last.then # "return"
  BY NobodyCloses DEF Moves
<1>2. /\ Current(t)' /\ ~Released(t)' /\ ~Waiting(t)' /\ ~Closing(t)'
      /\ ~Waiting(t)
  BY DEF Moves, Current, InGraph, Released, Waiting, Closing, Barrier, Compute, Arrived
<1>3. ASSUME NEW u \in Threads, u # t
      PROVE  /\ Current(u)' = Current(u) /\ Released(u)' = Released(u)
             /\ Waiting(u)' = Waiting(u) /\ Closing(u)' = Closing(u)
  <2>1. pc'[u] = pc[u] /\ n_passed'[u] = n_passed[u] /\ n_barrier_passed' = n_barrier_passed
    BY <1>3 DEF Moves, Others
  <2> QED
    BY <2>1 DEF Current, InGraph, Released, Waiting, Closing
<1>4. Roles'
  <2>1. pc'[0] \notin {"top", "asleep", "exited"}
    BY Values DEF PoolInv, Roles, Moves, Others, Compute
  <2>2. \A u \in Threads \ {0} : pc'[u] \notin {"idle", "kickoff", "join", "freed"}
    BY DEF PoolInv, Roles, Moves, Others, Compute
  <2> QED
    BY <2>1, <2>2 DEF Roles
<1>5. TakesPart'
  <2>1. /\ n_graph' = n_graph /\ last' = last /\ last_graph' = last_graph
        /\ \A u \in Threads : u # t => then'[u] = then[u] /\ node'[u] = node[u]
        /\ 0 \in Threads
    BY Values DEF Moves, Others, PoolInv
  <2>2. t # 0 => last_graph[t] = n_graph
    BY <1>1 DEF PoolInv, TakesPart
  <2>3. ASSUME NEW u \in Threads, Current(u)'
        PROVE  (u < n_graph.n /\ last.then # "return" /\ (u # 0 => last_graph[u] = n_graph))'
    BY <1>1, <1>3, <2>1, <2>2, <2>3 DEF PoolInv, TakesPart
  <2>4. ASSUME NEW u \in Threads, Released(u)', then'[u] # "return"
        PROVE  (/\ u < n_graph.n /\ then[u] = last.then /\ node[u] = last.node
                /\ u # 0 => last_graph[u] = n_graph)'
    BY <1>2, <1>3, <2>1, <2>4 DEF PoolInv, TakesPart
  <2>5. Current(0)' \/ (Released(0)' /\ then'[0] # "return")
    BY <1>1, <1>2, <1>3, <2>1 DEF PoolInv, TakesPart
  <2> QED
    BY <2>1, <2>3, <2>4, <2>5 DEF PoolInv, TakesPart
<1>6. Counted'
  <2>1. Crowd' = Crowd
    BY <1>2, <1>3 DEF Crowd
  <2>2. \A u \in Threads : ~Closing(u)'
    BY <1>1, <1>2, <1>3
  <2>3. \A u \in Threads : /\ pc'[u] = "arrive" => n_passed'[u] = n_barrier_passed'
                           /\ pc'[u] \in Arrived => n_passed'[u] <= n_barrier_passed'
    BY DEF PoolInv, Counted, Moves, Others, Arrived, Compute
  <2> QED
    BY <1>1, <2>1, <2>2, <2>3 DEF PoolInv, Counted, Moves
<1> QED
  BY <1>4, <1>5, <1>6

\* Where the others are does not change, as long as the same graph is computed on.
LEMMA OthersStay ==
  ASSUME PoolInv, NEW t \in Threads, Moves(t), abort' = abort,
         last.then = "next" => AfterNext(t)',
         last.then = "chunk" => AfterChunk(t)'
  PROVE  OnTheWay'
<1>1. ASSUME NEW u \in Threads, u # t
      PROVE  /\ Current(u)' = Current(u)
             /\ AfterNext(u)' = AfterNext(u) /\ AfterChunk(u)' = AfterChunk(u)
  <2>1. /\ pc'[u] = pc[u] /\ node'[u] = node[u] /\ then'[u] = then[u]
        /\ n_passed'[u] = n_passed[u] /\ n_barrier_passed' = n_barrier_passed
        /\ abort' = abort /\ last' = last
    BY <1>1 DEF Moves, Others
  <2> QED
    BY <2>1 DEF Current, InGraph, Released, AfterNext, AfterChunk, Path, InMatmul, InPlain, AtEnd,
                Here, AtBarrier
<1> QED
  BY <1>1 DEF PoolInv, OnTheWay, Moves

\* The steps of that kind.
Quiet(t) ==
  \/ Enter(t) \/ Start(t) \/ EndLoop(t) \/ Skip(t) \/ BeginNode(t) \/ PrepareMatmul(t)
  \/ ComputeChunk(t) \/ NoChunkLeft(t) \/ ComputePlain(t) \/ EndNode(t)

\* They are such steps.
LEMMA QuietMoves ==
  ASSUME PoolInv, NEW t \in Threads, Quiet(t)
  PROVE  Moves(t)
<1>1. /\ pc \in [Threads -> Barrier \cup Compute \cup Between] /\ node \in [Threads -> 0..NNodes]
      /\ then \in [Threads -> {"chunk", "next", "return"}] /\ n_passed \in [Threads -> Nat]
  BY DEF PoolInv, TypeOK
<1> USE <1>1 DEF Moves, Others, Goto, Call, Compute, shared
<1>2. CASE Enter(t)
  BY <1>2 DEF Enter
<1>3. CASE Start(t)
  BY <1>3 DEF Start
<1>4. CASE EndLoop(t)
  BY <1>4 DEF EndLoop
<1>5. CASE Skip(t)
  BY <1>5 DEF Skip, AtNode
<1>6. CASE BeginNode(t)
  BY <1>6 DEF BeginNode, AtNode
<1>7. CASE PrepareMatmul(t)
  BY <1>7 DEF PrepareMatmul
<1>8. CASE ComputeChunk(t)
  BY <1>8 DEF ComputeChunk
<1>9. CASE NoChunkLeft(t)
  BY <1>9 DEF NoChunkLeft
<1>10. CASE ComputePlain(t)
  BY <1>10 DEF ComputePlain
<1>11. CASE EndNode(t)
  BY <1>11 DEF EndNode
<1> QED
  BY <1>2, <1>3, <1>4, <1>5, <1>6, <1>7, <1>8, <1>9, <1>10, <1>11 DEF Quiet

\* All but the end of a node.
LEMMA QuietOnTheWay ==
  ASSUME PoolInv, NEW t \in Threads, Quiet(t), ~EndNode(t)
  PROVE  OnTheWay'
<1>1. /\ pc \in [Threads -> Barrier \cup Compute \cup Between] /\ node \in [Threads -> 0..NNodes]
      /\ then \in [Threads -> {"chunk", "next", "return"}] /\ n_passed \in [Threads -> Nat]
  BY DEF PoolInv, TypeOK
<1>2. Moves(t) /\ abort' = abort /\ last' = last
  BY QuietMoves DEF Quiet, Moves, Enter, Start, EndLoop, Skip, BeginNode, PrepareMatmul, ComputeChunk,
                    NoChunkLeft, ComputePlain, shared
<1>3. /\ Current(t)
      /\ last.then = "next" => AfterNext(t)
      /\ last.then = "chunk" => AfterChunk(t) /\ last.node < NNodes
  BY <1>2, NobodyCloses DEF Moves, PoolInv, OnTheWay
<1>4. /\ NNodes \in Nat /\ node[t] \in 0..NNodes /\ last.node \in -1..NNodes
      /\ abort \in -1..NNodes
  BY Values DEF PoolInv
<1>5. (last.then = "next" => AfterNext(t)') /\ (last.then = "chunk" => AfterChunk(t)')
  <2> USE <1>1, <1>2, <1>3, <1>4
      DEF Goto, Call, AfterNext, AfterChunk, InMatmul, InPlain, AtEnd, Here, AtBarrier, Barrier, Arrived
  <2>1. CASE Enter(t)
    BY <2>1 DEF Enter, Path
  <2>2. CASE Start(t)
    BY <2>2 DEF Start, Path
  <2>3. CASE EndLoop(t)
    BY <2>3 DEF EndLoop, Path
  <2>4. CASE Skip(t)
    BY <2>4 DEF Skip, AtNode, Path
  <2>5. CASE BeginNode(t)
    <3>1. Kind[node[t]] \in {"plain", "matmul"}
      BY <2>5, PoolAssumption DEF BeginNode, AtNode
    <3> QED
      BY <2>5, <3>1 DEF BeginNode, AtNode, Path
  <2>6. CASE PrepareMatmul(t)
    BY <2>6 DEF PrepareMatmul, Path
  <2>7. CASE ComputeChunk(t)
    BY <2>7 DEF ComputeChunk, Path
  <2>8. CASE NoChunkLeft(t)
    BY <2>8 DEF NoChunkLeft, Path
  <2>9. CASE ComputePlain(t)
    BY <2>9 DEF ComputePlain, Path
  <2> QED
    BY <2>1, <2>2, <2>3, <2>4, <2>5, <2>6, <2>7, <2>8, <2>9 DEF Quiet
<1> QED
  BY <1>2, <1>5, OthersStay

\* The end of a node, after which thread 0 may have told the others to give up: none of
\* them has come as far as the node at which they are to do so.
LEMMA EndOnTheWay ==
  ASSUME PoolInv, NEW t \in Threads, EndNode(t)
  PROVE  OnTheWay'
<1>1. /\ pc \in [Threads -> Barrier \cup Compute \cup Between] /\ node \in [Threads -> 0..NNodes]
      /\ then \in [Threads -> {"chunk", "next", "return"}]
  BY DEF PoolInv, TypeOK
<1>2. /\ Moves(t) /\ last' = last /\ n_barrier_passed' = n_barrier_passed
      /\ abort' \in {abort, node[t] + 1}
  BY QuietMoves DEF Quiet, Moves, EndNode
<1>3. /\ Current(t)
      /\ last.then = "next" => AfterNext(t)
      /\ last.then = "chunk" => AfterChunk(t) /\ last.node < NNodes
  BY <1>2, NobodyCloses DEF Moves, PoolInv, OnTheWay
<1>4. /\ NNodes \in Nat /\ last.node \in -1..NNodes /\ abort \in -1..NNodes
      /\ \A u \in Threads : node[u] \in 0..NNodes
  BY Values DEF PoolInv
<1>5. ASSUME last.then = "next"
      PROVE  /\ node[t] > last.node /\ Path(node[t]) /\ InPlain(t)
             /\ node[t] < NNodes /\ abort # node[t] /\ Kind[node[t]] = "plain"
  BY <1>3, <1>5 DEF EndNode, AfterNext, InMatmul, InPlain, AtEnd, Here, AtBarrier, Barrier, Arrived
<1>6. ASSUME last.then = "next" PROVE AfterNext(t)'
  <2>1. CASE node[t] + 1 < NNodes
    <3>1. /\ node'[t] = node[t] /\ pc'[t] = "enter" /\ then'[t] = "next" /\ abort' # node[t]
      BY <1>1, <1>4, <1>5, <1>6, <2>1 DEF EndNode, Call, Goto
    <3>2. Path(node[t])'
      BY <1>2, <1>4, <1>5, <1>6, <3>1 DEF Path
    <3> QED
      BY <1>2, <1>4, <1>5, <1>6, <2>1, <3>1, <3>2
      DEF AfterNext, InPlain, Here, AtBarrier, Barrier
  <2>2. CASE node[t] + 1 = NNodes
    <3>1. node'[t] = NNodes /\ pc'[t] = "loop"
      BY <1>1, <1>4, <2>2 DEF EndNode, Goto
    <3>2. ASSUME NEW i \in last.node + 1..NNodes - 1
          PROVE  abort' # i /\ (Kind[i] = "nop" \/ (Kind[i] = "plain" /\ i + 1 = NNodes))
      <4>1. i \in last.node + 1..node[t] - 1 \/ i = node[t]
        BY <1>4, <2>2
      <4> QED
        BY <1>2, <1>4, <1>5, <1>6, <2>2, <4>1 DEF Path
    <3> QED
      BY <1>2, <1>4, <1>5, <1>6, <2>2, <3>1, <3>2 DEF AfterNext, Path
  <2> QED
    BY <1>4, <1>5, <1>6, <2>1, <2>2
<1>7. ASSUME last.then = "chunk" PROVE AfterChunk(t)'
  <2>1. node[t] = last.node
    BY <1>3, <1>7 DEF EndNode, AfterChunk, AtBarrier, Barrier, Arrived
  <2> QED
    BY <1>1, <1>2, <1>3, <1>4, <1>7, <2>1 DEF EndNode, Call, Goto, AfterChunk, AtBarrier, Barrier
<1>8. ASSUME NEW u \in Threads, u # t, Current(u)'
      PROVE  /\ last.then = "next" => AfterNext(u)'
             /\ last.then = "chunk" => AfterChunk(u)'
  <2>1. /\ pc'[u] = pc[u] /\ node'[u] = node[u] /\ then'[u] = then[u]
        /\ n_passed'[u] = n_passed[u]
    BY <1>2, <1>8 DEF Moves, Others
  <2>2. Current(u)
    BY <1>2, <1>8, <2>1 DEF Current, InGraph, Released
  <2>3. /\ last.then = "next" => AfterNext(u)
        /\ last.then = "chunk" => AfterChunk(u)
    BY <2>2 DEF PoolInv, OnTheWay
  <2>4. last.then = "chunk" => AfterChunk(u)'
    BY <1>2, <2>1, <2>3 DEF AfterChunk, AtBarrier
  <2>5. ASSUME last.then = "next", pc[u] # "start" PROVE AfterNext(u)'
    <3>1. /\ node[u] > last.node /\ Path(node[u])
          /\ pc[u] = "loop" \/ InMatmul(u) \/ InPlain(u) \/ AtEnd(u)
      BY <2>3, <2>5 DEF AfterNext
    <3>2. node[u] <= node[t] \/ node[u] = NNodes
      BY <1>4, <1>5, <2>5, <3>1, NobodyPasses DEF PoolInv
    <3>3. node[u] <= node[t] \/ node[t] + 1 = NNodes
      BY <1>4, <1>5, <2>5, <3>1, NobodyPasses DEF PoolInv
    <3>4. Path(node[u])'
      <4>1. ASSUME NEW i \in last.node + 1..node[u] - 1
            PROVE  abort' # i /\ (Kind[i] = "nop" \/ (Kind[i] = "plain" /\ i + 1 = NNodes))
        BY <1>2, <1>4, <3>1, <3>3 DEF Path
      <4> QED
        BY <1>2, <2>1, <4>1 DEF Path
    <3>5. ASSUME node[u] < NNodes, abort # node[u] PROVE abort' # node[u]
      BY <1>2, <1>4, <3>2, <3>5
    <3>6. InMatmul(u) => InMatmul(u)'
      BY <2>1, <3>5 DEF InMatmul, Here, AtBarrier
    <3>7. InPlain(u) => InPlain(u)'
      BY <2>1, <3>5 DEF InPlain, Here, AtBarrier
    <3>8. AtEnd(u) => AtEnd(u)'
      <4>1. ASSUME abort = node[u] PROVE node[u] = NNodes
        <5>1. ~(node[u] \in last.node + 1..node[t] - 1)
          BY <1>5, <2>5, <4>1 DEF Path
        <5>2. node[u] # node[t]
          BY <1>5, <2>5, <4>1
        <5> QED
          BY <1>4, <3>1, <3>2, <5>1, <5>2
      <4> QED
        BY <2>1, <4>1 DEF AtEnd, AtBarrier
    <3> QED
      BY <1>2, <2>1, <3>1, <3>4, <3>6, <3>7, <3>8 DEF AfterNext
  <2>6. last.then = "next" /\ pc[u] = "start" => AfterNext(u)'
    BY <1>2, <2>1, <2>3 DEF AfterNext, InMatmul, InPlain, AtEnd, AtBarrier, Barrier, Arrived
  <2> QED
    BY <2>4, <2>5, <2>6
<1>9. last'.then # "return" => last'.node < NNodes
  BY <1>2 DEF PoolInv, OnTheWay
<1> QED
  BY <1>2, <1>6, <1>7, <1>8, <1>9 DEF OnTheWay

-----------------------------------------------------------------------------
(***************************************************************************)
(* The barrier.                                                            *)
(***************************************************************************)
\* The threads that wait are among those that take part.
LEMMA CrowdTakesPart ==
  ASSUME PoolInv
  PROVE  Crowd \subseteq 0..n_graph.n - 1 /\ IsFiniteSet(Crowd)
<1>1. Crowd \subseteq 0..n_graph.n - 1
  <2>1. ASSUME NEW t \in Threads, Waiting(t) PROVE t < n_graph.n
    BY <2>1 DEF PoolInv, TakesPart, Current, InGraph, Waiting, Released, Barrier
  <2> QED
    BY <2>1, Values DEF PoolInv, Crowd
<1>2. IsFiniteSet(0..n_graph.n - 1)
  <2>1. n_graph.n - 1 \in Int /\ 0 \in Int
    BY Values DEF PoolInv
  <2> QED
    BY <2>1, FS_Interval
<1> QED
  BY <1>1, <1>2, FS_Subset

\* When as many wait as take part, all that take part wait.
LEMMA AllThere ==
  ASSUME NEW n \in Nat, NEW W, W \subseteq 0..n - 1, Cardinality(W) = n
  PROVE  W = 0..n - 1
<1>1. IsFiniteSet(0..n - 1) /\ Cardinality(0..n - 1) = n
  <2>1. n - 1 \in Int /\ 0 \in Int /\ (0 > n - 1 => n = 0) /\ n - 1 - 0 + 1 = n
    OBVIOUS
  <2> QED
    BY <2>1, FS_Interval
<1> QED
  BY <1>1, FS_Subset

\* Arriving at the barrier keeps the invariant.
LEMMA ArriveKeeps ==
  ASSUME PoolInv, NEW t \in Threads, Arrive(t)
  PROVE  Roles' /\ TakesPart' /\ OnTheWay' /\ Counted'
<1>1. /\ pc \in [Threads -> Barrier \cup Compute \cup Between]
      /\ pc[t] = "arrive" /\ pc'[t] \in {"reset", "spin"}
      /\ \A u \in Threads : u # t => pc'[u] = pc[u]
      /\ n_passed[t] = n_barrier_passed
  BY DEF PoolInv, TypeOK, Arrive, Goto, Counted
<1>2. /\ n_barrier' = n_barrier + 1
      /\ UNCHANGED <<n_graph, n_barrier_passed, abort, node, n_passed, then, last_graph, last>>
  BY DEF Arrive
<1>3. /\ \A u \in Threads : ~Closing(u)
      /\ Current(t) /\ t < n_graph.n
  BY <1>1, NobodyCloses
<1>4. Current(t)' /\ ~Released(t)' /\ Waiting(t)' /\ ~Waiting(t)
  BY <1>1, <1>2 DEF Current, InGraph, Released, Waiting, Barrier, Arrived
<1>5. ASSUME NEW u \in Threads, u # t
      PROVE  /\ Current(u)' = Current(u) /\ Released(u)' = Released(u)
             /\ Waiting(u)' = Waiting(u) /\ Closing(u)' = Closing(u)
  BY <1>1, <1>2, <1>5 DEF Current, InGraph, Released, Waiting, Closing
<1>6. Roles'
  BY <1>1, Values DEF PoolInv, Roles
<1>7. TakesPart'
  <2>1. 0 \in Threads
    BY Values DEF PoolInv
  <2>2. ASSUME NEW u \in Threads PROVE Current(u)' = Current(u) /\ Released(u)' = Released(u)
    BY <1>1, <1>2 DEF Current, InGraph, Released, Barrier, Arrived
  <2> QED
    BY <1>2, <2>1, <2>2 DEF PoolInv, TakesPart
<1>8. OnTheWay'
  <2>1. ASSUME NEW u \in Threads
        PROVE  AfterNext(u) => AfterNext(u)'
    BY <1>1, <1>2 DEF AfterNext, Path, InMatmul, InPlain, AtEnd, Here, AtBarrier, Barrier, Arrived
  <2>2. ASSUME NEW u \in Threads
        PROVE  AfterChunk(u) => AfterChunk(u)'
    BY <1>1, <1>2 DEF AfterChunk, AtBarrier, Barrier, Arrived
  <2>3. ASSUME NEW u \in Threads PROVE Current(u)' = Current(u)
    BY <1>1, <1>2 DEF Current, InGraph, Released, Barrier, Arrived
  <2> QED
    BY <1>2, <2>1, <2>2, <2>3 DEF PoolInv, OnTheWay
<1>9. Counted'
  <2>1. /\ n_barrier \in Nat /\ n_graph.n \in Nat /\ t \in Nat /\ n_barrier_passed \in Nat
        /\ Crowd \subseteq 0..n_graph.n - 1 /\ IsFiniteSet(Crowd)
        /\ n_barrier = Cardinality(Crowd) /\ (Crowd = {} \/ n_barrier < n_graph.n)
    BY <1>3, CrowdTakesPart, Values DEF PoolInv, Counted
  <2>2. Crowd' = Crowd \cup {t} /\ t \notin Crowd
    BY <1>4, <1>5 DEF Crowd
  <2>3. n_barrier' = Cardinality(Crowd')
    BY <1>2, <2>1, <2>2, FS_AddElement
  <2>4. Crowd' \subseteq 0..n_graph.n - 1
    BY <1>3, <2>1, <2>2
  <2>5. \A u \in Threads : /\ pc'[u] = "arrive" => n_passed'[u] = n_barrier_passed'
                           /\ pc'[u] \in Arrived => n_passed'[u] <= n_barrier_passed'
    BY <1>1, <1>2, <2>1 DEF PoolInv, Counted
  <2>6. CASE n_barrier = n_graph.n - 1
    <3>1. pc'[t] = "reset"
      BY <1>1, <2>6 DEF Arrive, Goto
    <3>2. Crowd' = 0..n_graph.n - 1
      <4>1. Cardinality(Crowd') = n_graph.n
        BY <1>2, <2>1, <2>3, <2>6
      <4> QED
        BY <2>1, <2>4, <4>1, AllThere
    <3>3. \A u \in Threads : u < n_graph.n => Waiting(u)'
      BY <3>2, Values DEF PoolInv, Crowd
    <3>4. \A u \in Threads : Closing(u)' => u = t
      BY <1>3, <1>5
    <3>5. Closing(t)'
      BY <3>1 DEF Closing
    <3> QED
      BY <1>2, <2>5, <3>1, <3>3, <3>4, <3>5 DEF Counted
  <2>7. CASE n_barrier # n_graph.n - 1
    <3>1. pc'[t] = "spin"
      BY <1>1, <2>7 DEF Arrive, Goto
    <3>2. \A u \in Threads : ~Closing(u)'
      BY <1>3, <1>5, <3>1 DEF Closing
    <3>3. n_barrier' < n_graph.n
      <4>1. n_barrier = 0 \/ n_barrier < n_graph.n
        BY <2>1, FS_EmptySet
      <4> QED
        BY <1>2, <1>3, <2>1, <2>7, <4>1
    <3> QED
      BY <1>2, <2>3, <2>5, <3>2, <3>3 DEF Counted
  <2> QED
    BY <2>6, <2>7
<1> QED
  BY <1>6, <1>7, <1>8, <1>9

\* Resetting the counter keeps the invariant.
LEMMA ResetKeeps ==
  ASSUME PoolInv, NEW t \in Threads, Reset(t)
  PROVE  Roles' /\ TakesPart' /\ OnTheWay' /\ Counted'
<1>1. /\ pc[t] = "reset" /\ pc'[t] = "release"
      /\ \A u \in Threads : u # t => pc'[u] = pc[u]
      /\ n_barrier' = 0
      /\ UNCHANGED <<n_graph, n_barrier_passed, abort, node, n_passed, then, last_graph, last>>
  BY DEF PoolInv, TypeOK, Reset, Goto
<1>2. ASSUME NEW u \in Threads
      PROVE  /\ Current(u)' = Current(u) /\ Released(u)' = Released(u)
             /\ Waiting(u)' = Waiting(u) /\ Closing(u)' = Closing(u)
  BY <1>1 DEF Current, InGraph, Released, Waiting, Closing, Barrier, Arrived
<1>3. Roles'
  BY <1>1, Values DEF PoolInv, Roles
<1>4. TakesPart'
  <2>1. 0 \in Threads
    BY Values DEF PoolInv
  <2> QED
    BY <1>1, <1>2, <2>1 DEF PoolInv, TakesPart
<1>5. OnTheWay'
  <2>1. ASSUME NEW u \in Threads
        PROVE  AfterNext(u) => AfterNext(u)'
    BY <1>1 DEF AfterNext, Path, InMatmul, InPlain, AtEnd, Here, AtBarrier, Barrier, Arrived
  <2>2. ASSUME NEW u \in Threads
        PROVE  AfterChunk(u) => AfterChunk(u)'
    BY <1>1 DEF AfterChunk, AtBarrier, Barrier, Arrived
  <2> QED
    BY <1>1, <1>2, <2>1, <2>2 DEF PoolInv, OnTheWay
<1>6. Counted'
  <2>1. Closing(t) /\ Closing(t)'
    BY <1>1 DEF Closing
  <2>2. \A u \in Threads : /\ pc'[u] = "arrive" => n_passed'[u] = n_barrier_passed'
                           /\ pc'[u] \in Arrived => n_passed'[u] <= n_barrier_passed'
    BY <1>1 DEF PoolInv, Counted, Arrived
  <2> QED
    BY <1>1, <1>2, <2>1, <2>2 DEF PoolInv, Counted
<1> QED
  BY <1>3, <1>4, <1>5, <1>6

\* What a thread does that leaves a barrier.
LEMMA Leaves ==
  ASSUME PoolInv, NEW t \in Threads, Leave(t)
  PROVE  /\ then[t] = "chunk" => pc'[t] = "chunk" /\ node'[t] = node[t]
         /\ then[t] = "next" => pc'[t] = "loop" /\ node'[t] = node[t] + 1
         /\ then[t] = "return" => pc'[t] = IF t = 0 THEN "idle" ELSE "top"
         /\ Others(t)
         /\ UNCHANGED <<then, n_passed, last_graph>>
  BY DEF Leave, PoolInv, TypeOK, Others

\* Leaving the barrier keeps the invariant.
LEMMA SpinKeeps ==
  ASSUME PoolInv, NEW t \in Threads, Spin(t)
  PROVE  Roles' /\ TakesPart' /\ OnTheWay' /\ Counted'
<1>1. /\ then[t] = "chunk" => pc'[t] = "chunk" /\ node'[t] = node[t]
      /\ then[t] = "next" => pc'[t] = "loop" /\ node'[t] = node[t] + 1
      /\ then[t] = "return" => pc'[t] = IF t = 0 THEN "idle" ELSE "top"
      /\ Others(t)
      /\ UNCHANGED <<then, n_passed, last_graph, n_graph, n_barrier, n_barrier_passed, abort, last>>
  BY Leaves DEF Spin, shared
<1>2. Released(t) /\ ~Waiting(t) /\ ~Closing(t)
  BY DEF Spin, Released, Waiting, Closing
<1>3. then[t] \in {"chunk", "next", "return"} /\ 0 \in Threads
  BY Values DEF PoolInv
<1>4. /\ pc'[t] \in {"chunk", "loop", "idle", "top"}
      /\ ~Released(t)' /\ ~Waiting(t)' /\ ~Closing(t)'
      /\ Current(t)' => then[t] # "return"
  BY <1>1, <1>3 DEF Current, InGraph, Released, Waiting, Closing, Arrived, Barrier, Compute
<1>5. ASSUME NEW u \in Threads, u # t
      PROVE  /\ pc'[u] = pc[u] /\ node'[u] = node[u]
             /\ Current(u)' = Current(u) /\ Released(u)' = Released(u)
             /\ Waiting(u)' = Waiting(u) /\ Closing(u)' = Closing(u)
  <2>1. pc'[u] = pc[u] /\ node'[u] = node[u] /\ n_passed'[u] = n_passed[u]
    BY <1>1, <1>5 DEF Others
  <2> QED
    BY <1>1, <2>1 DEF Current, InGraph, Released, Waiting, Closing
<1>6. Roles'
  BY <1>1, <1>3, <1>4, <1>5 DEF PoolInv, Roles
<1>7. TakesPart'
  <2>1. ASSUME NEW u \in Threads, Current(u)'
        PROVE  (u < n_graph.n /\ last.then # "return" /\ (u # 0 => last_graph[u] = n_graph))'
    <3>1. CASE u = t
      BY <1>1, <1>2, <1>4, <2>1, <3>1 DEF PoolInv, TakesPart
    <3>2. CASE u # t
      BY <1>1, <1>5, <2>1, <3>2 DEF PoolInv, TakesPart
    <3> QED
      BY <3>1, <3>2
  <2>2. ASSUME NEW u \in Threads, Released(u)', then'[u] # "return"
        PROVE  (/\ u < n_graph.n /\ then[u] = last.then /\ node[u] = last.node
                /\ u # 0 => last_graph[u] = n_graph)'
    <3>1. u # t
      BY <1>4, <2>2
    <3> QED
      BY <1>1, <1>5, <2>2, <3>1 DEF PoolInv, TakesPart
  <2>3. last.then # "return" => Current(0)' \/ (Released(0)' /\ then'[0] # "return")
    <3>1. CASE t = 0
      <4>1. ASSUME last.then # "return" PROVE then[0] # "return"
        BY <1>2, <3>1, <4>1 DEF PoolInv, TakesPart, Current
      <4>2. ASSUME last.then # "return" PROVE Current(0)'
        BY <1>1, <1>3, <3>1, <4>1, <4>2 DEF Current, InGraph, Released, Compute
      <4> QED
        BY <4>2
    <3>2. CASE t # 0
      BY <1>1, <1>3, <1>5, <3>2 DEF PoolInv, TakesPart
    <3> QED
      BY <3>1, <3>2
  <2> QED
    BY <1>1, <2>1, <2>2, <2>3 DEF PoolInv, TakesPart
<1>8. OnTheWay'
  <2>1. ASSUME NEW u \in Threads, Current(u)'
        PROVE  /\ last.then = "next" => AfterNext(u)'
               /\ last.then = "chunk" => AfterChunk(u)'
    <3>1. CASE u = t
      <4>1. then[t] = last.then /\ node[t] = last.node /\ then[t] # "return"
        BY <1>2, <1>4, <2>1, <3>1 DEF PoolInv, TakesPart
      <4>2. /\ last.node \in -1..NNodes
            /\ last' = last /\ abort' = abort
        BY <1>1, Values DEF PoolInv
      <4> QED
        BY <1>1, <3>1, <4>1, <4>2 DEF AfterNext, AfterChunk, Path
    <3>2. CASE u # t
      <4>1. /\ Current(u) /\ pc'[u] = pc[u] /\ node'[u] = node[u] /\ then'[u] = then[u]
            /\ last' = last /\ abort' = abort
        BY <1>1, <1>5, <2>1, <3>2
      <4>2. /\ last.then = "next" => AfterNext(u)
            /\ last.then = "chunk" => AfterChunk(u)
        BY <4>1 DEF PoolInv, OnTheWay
      <4> QED
        BY <4>1, <4>2 DEF AfterNext, AfterChunk, Path, InMatmul, InPlain, AtEnd, Here, AtBarrier
    <3> QED
      BY <3>1, <3>2
  <2> QED
    BY <1>1, <2>1 DEF PoolInv, OnTheWay
<1>9. Counted'
  <2>1. Crowd' = Crowd
    BY <1>2, <1>4, <1>5 DEF Crowd
  <2>2. \A u \in Threads : /\ pc'[u] = "arrive" => n_passed'[u] = n_barrier_passed'
                           /\ pc'[u] \in Arrived => n_passed'[u] <= n_barrier_passed'
    BY <1>1, <1>4, <1>5 DEF PoolInv, Counted, Arrived
  <2>3. ASSUME NEW u \in Threads, Closing(u)'
        PROVE  /\ \A v \in Threads : v < n_graph'.n => Waiting(v)'
               /\ \A v \in Threads : Closing(v)' => v = u
               /\ pc'[u] = "release" => n_barrier' = 0
    <3>1. u # t /\ Closing(u)
      BY <1>4, <1>5, <2>3
    <3>2. ~(t < n_graph.n)
      BY <1>2, <3>1 DEF PoolInv, Counted
    <3>3. \A v \in Threads : v < n_graph'.n => Waiting(v)'
      BY <1>1, <1>5, <3>1, <3>2 DEF PoolInv, Counted
    <3>4. \A v \in Threads : Closing(v)' => v = u
      BY <1>4, <1>5, <3>1 DEF PoolInv, Counted
    <3> QED
      BY <1>1, <1>5, <3>1, <3>3, <3>4 DEF PoolInv, Counted
  <2>4. (\A u \in Threads : ~Closing(u)') => \A u \in Threads : ~Closing(u)
    BY <1>2, <1>5
  <2> QED
    BY <1>1, <2>1, <2>2, <2>3, <2>4 DEF PoolInv, Counted
<1> QED
  BY <1>6, <1>7, <1>8, <1>9

\* When a thread passes the barrier.
LEMMA PassKeeps ==
  ASSUME PoolInv, NEW t \in Threads, pc[t] \in Barrier, Current(t), Leave(t),
         last' = [then |-> then[t], node |-> node[t]],
         UNCHANGED <<n_graph, abort>>, n_barrier' = 0,
         n_barrier_passed' \in Nat, n_barrier_passed <= n_barrier_passed',
         \A u \in Threads : u < n_graph.n => Current(u) /\ pc[u] \in Barrier,
         \A u \in Threads : u # t /\ InGraph(u) => pc[u] = "spin" /\ n_passed[u] # n_barrier_passed'
  PROVE  Roles' /\ TakesPart' /\ OnTheWay' /\ Counted'
<1>1. /\ then[t] = "chunk" => pc'[t] = "chunk" /\ node'[t] = node[t]
      /\ then[t] = "next" => pc'[t] = "loop" /\ node'[t] = node[t] + 1
      /\ then[t] = "return" => pc'[t] = IF t = 0 THEN "idle" ELSE "top"
      /\ Others(t)
      /\ UNCHANGED <<then, n_passed, last_graph>>
  BY Leaves
<1>2. /\ then[t] \in {"chunk", "next", "return"} /\ node[t] \in 0..NNodes /\ 0 \in Threads
      /\ n_graph.n \in Nat /\ t \in Nat /\ NNodes \in Nat /\ n_barrier_passed \in Nat
      /\ \A u \in Threads : u \in Nat /\ n_passed[u] \in Nat
  BY Values DEF PoolInv
<1>3. last'.then = then[t] /\ last'.node = node[t]
  OBVIOUS
<1>4. t < n_graph.n
  BY DEF PoolInv, TakesPart
<1>5. /\ pc'[t] \in {"chunk", "loop", "idle", "top"}
      /\ ~Released(t)' /\ ~Waiting(t)' /\ ~Closing(t)'
      /\ then[t] # "return" <=> Current(t)'
  BY <1>1, <1>2 DEF Current, InGraph, Released, Waiting, Closing, Arrived, Barrier, Compute
<1>6. ASSUME NEW u \in Threads, u # t
      PROVE  /\ pc'[u] = pc[u] /\ node'[u] = node[u] /\ n_passed'[u] = n_passed[u]
             /\ ~Current(u)' /\ ~Waiting(u)' /\ ~Closing(u)'
  <2>1. pc'[u] = pc[u] /\ node'[u] = node[u] /\ n_passed'[u] = n_passed[u]
    BY <1>1, <1>6 DEF Others
  <2>2. InGraph(u) => pc[u] = "spin" /\ n_passed[u] # n_barrier_passed'
    BY <1>6
  <2>3. ~Current(u)' /\ ~Waiting(u)'
    BY <2>1, <2>2 DEF Current, Released, Waiting, InGraph, Barrier
  <2>4. ~Closing(u)'
    BY <2>1, <2>2 DEF Closing, InGraph, Barrier, Arrived
  <2> QED
    BY <2>1, <2>3, <2>4
<1>7. ASSUME NEW u \in Threads, u < n_graph.n
      PROVE  then[u] = then[t] /\ node[u] = node[t] /\ (u # 0 => last_graph[u] = n_graph)
  <2>1. Current(u) /\ pc[u] \in Barrier
    BY <1>7
  <2>2. then[u] = then[t] /\ node[u] = node[t]
    BY <2>1, SameBarrier
  <2> QED
    BY <2>1, <2>2 DEF PoolInv, TakesPart
<1>8. ASSUME NEW u \in Threads, u # t, Released(u)', then[u] # "return"
      PROVE  u < n_graph.n
  <2>1. Current(u) \/ Released(u)
    BY <1>6, <1>8 DEF Current, InGraph, Released, Barrier, Arrived
  <2> QED
    BY <1>8, <2>1 DEF PoolInv, TakesPart
<1>9. Roles'
  BY <1>1, <1>2, <1>6 DEF PoolInv, Roles
<1>10. TakesPart'
  <2>1. ASSUME NEW u \in Threads, Current(u)'
        PROVE  (u < n_graph.n /\ last.then # "return" /\ (u # 0 => last_graph[u] = n_graph))'
    BY <1>1, <1>3, <1>4, <1>5, <1>6, <1>7, <2>1
  <2>2. ASSUME NEW u \in Threads, Released(u)', then'[u] # "return"
        PROVE  (/\ u < n_graph.n /\ then[u] = last.then /\ node[u] = last.node
                /\ u # 0 => last_graph[u] = n_graph)'
    <3>1. u # t
      BY <1>5, <2>2
    <3>2. u < n_graph.n
      BY <1>1, <1>8, <2>2, <3>1
    <3>3. node'[u] = node[u] /\ then' = then /\ last_graph' = last_graph /\ n_graph' = n_graph
      BY <1>1, <1>6, <3>1
    <3> QED
      BY <1>3, <1>7, <3>2, <3>3
  <2>3. last'.then # "return" => Current(0)' \/ (Released(0)' /\ then'[0] # "return")
    <3>1. CASE t = 0
      <4>1. then[t] # "return" => pc'[0] \in {"chunk", "loop"}
        BY <1>1, <1>2, <3>1
      <4>2. pc'[0] \in {"chunk", "loop"} => Current(0)'
        BY DEF Current, InGraph, Released, Compute
      <4> QED
        BY <1>3, <4>1, <4>2
    <3>2. CASE t # 0
      <4>1. 0 < n_graph.n
        BY <1>2, <1>4, <3>2
      <4>2. Current(0) /\ then[0] = then[t]
        BY <1>2, <1>7, <4>1
      <4>3. pc[0] = "spin" /\ n_passed[0] # n_barrier_passed'
        BY <1>2, <3>2, <4>2 DEF Current
      <4>4. Released(0)'
        BY <1>2, <1>6, <3>2, <4>3 DEF Released
      <4> QED
        BY <1>1, <1>3, <4>2, <4>4
    <3> QED
      BY <3>1, <3>2
  <2>4. last'.node # -1
    BY <1>2, <1>3
  <2>5. \A u \in Threads : u # 0 /\ u < n_graph'.n => last_graph'[u] = n_graph'
    BY <1>1, <1>7
  <2> QED
    BY <2>1, <2>2, <2>3, <2>4, <2>5 DEF TakesPart
<1>11. OnTheWay'
  <2>1. then[t] # "return" => node[t] < NNodes
    <3>1. then[t] = "next" => node[t] < NNodes
      BY NodeToEnd
    <3>2. ASSUME then[t] = "chunk" PROVE node[t] < NNodes
      <4>1. last.then = "next" => AfterNext(t)
        BY DEF PoolInv, OnTheWay
      <4>2. last.then = "chunk" => AfterChunk(t)
        BY DEF PoolInv, OnTheWay
      <4>3. last.then \in {"next", "chunk"}
        BY Values DEF PoolInv, TakesPart
      <4>4. ~AfterChunk(t)
        BY <3>2 DEF AfterChunk, AtBarrier, Barrier, Arrived
      <4>5. AfterNext(t)
        BY <4>1, <4>2, <4>3, <4>4
      <4>6. InMatmul(t)
        BY <3>2, <4>5 DEF AfterNext, InPlain, AtEnd, AtBarrier, Barrier, Arrived
      <4> QED
        BY <4>6 DEF InMatmul, Here
    <3> QED
      BY <1>2, <3>1, <3>2
  <2>2. ASSUME then[t] = "next" PROVE AfterNext(t)'
    <3>1. pc'[t] = "loop" /\ node'[t] = node[t] + 1
      BY <1>1, <2>2
    <3>2. last'.node + 1..node'[t] - 1 = {}
      BY <1>2, <1>3, <3>1
    <3> QED
      BY <1>2, <1>3, <3>1, <3>2 DEF AfterNext, Path
  <2>3. ASSUME then[t] = "chunk" PROVE AfterChunk(t)'
    BY <1>1, <1>3, <2>3 DEF AfterChunk
  <2> QED
    BY <1>3, <1>6, <2>1, <2>2, <2>3 DEF OnTheWay
<1>12. Counted'
  <2>1. Crowd' = {}
    BY <1>5, <1>6 DEF Crowd
  <2>2. n_barrier' = Cardinality(Crowd')
    BY <2>1, FS_EmptySet
  <2>3. \A u \in Threads : ~Closing(u)'
    BY <1>5, <1>6
  <2>4. ASSUME NEW u \in Threads
        PROVE  /\ pc'[u] = "arrive" => n_passed'[u] = n_barrier_passed'
               /\ pc'[u] \in Arrived => n_passed'[u] <= n_barrier_passed'
    <3>1. CASE u = t
      BY <1>5, <3>1 DEF Arrived
    <3>2. CASE u # t
      <4>1. pc'[u] = pc[u] /\ n_passed'[u] = n_passed[u] /\ pc[u] # "arrive"
        BY <1>6, <3>2 DEF InGraph, Barrier
      <4>2. pc[u] \in Arrived => n_passed[u] <= n_barrier_passed
        BY DEF PoolInv, Counted
      <4> QED
        BY <1>2, <4>1, <4>2
    <3> QED
      BY <3>1, <3>2
  <2> QED
    BY <2>1, <2>2, <2>3, <2>4 DEF Counted
<1> QED
  BY <1>9, <1>10, <1>11, <1>12

\* What holds when a thread passes the barrier for all, or alone.
Passes(t) ==
  /\ pc[t] \in Barrier /\ Current(t) /\ Leave(t)
  /\ last' = [then |-> then[t], node |-> node[t]]
  /\ UNCHANGED <<n_graph, abort, current_chunk>> /\ n_barrier' = 0
  /\ n_barrier_passed' \in Nat /\ n_barrier_passed <= n_barrier_passed'
  /\ \A u \in Threads : u < n_graph.n => Current(u) /\ pc[u] \in Barrier
  /\ \A u \in Threads : u # t /\ InGraph(u) => pc[u] = "spin" /\ n_passed[u] # n_barrier_passed'

\* Opening the barrier passes it.
LEMMA ReleasePasses ==
  ASSUME PoolInv, NEW t \in Threads, Release(t)
  PROVE  Passes(t)
<1>1. /\ pc[t] = "release" /\ Closing(t) /\ pc[t] \in Barrier
      /\ n_barrier_passed' = n_barrier_passed + 1 /\ n_barrier_passed \in Nat
      /\ last' = [then |-> then[t], node |-> node[t]]
      /\ Leave(t) /\ UNCHANGED <<n_graph, abort, current_chunk, n_barrier>>
  BY Values DEF PoolInv, Release, Closing, Barrier, Arrived
<1>2. /\ \A u \in Threads : u < n_graph.n => Waiting(u)
      /\ \A u \in Threads : Closing(u) => u = t
      /\ n_barrier = 0
  BY <1>1 DEF PoolInv, Counted
<1>3. \A u \in Threads : u < n_graph.n => Current(u) /\ pc[u] \in Barrier
  BY <1>2 DEF Waiting, Current, InGraph, Barrier
<1>4. Current(t)
  BY <1>1 DEF Current, InGraph, Released
<1>5. ASSUME NEW u \in Threads, u # t, InGraph(u)
      PROVE  pc[u] = "spin" /\ n_passed[u] # n_barrier_passed'
  <2>1. n_passed[u] \in Nat /\ (pc[u] \in Arrived => n_passed[u] <= n_barrier_passed)
    BY Values DEF PoolInv, Counted
  <2>2. CASE Released(u)
    BY <1>1, <2>1, <2>2 DEF Released, Arrived
  <2>3. CASE ~Released(u)
    <3>1. Waiting(u)
      BY <1>2, <1>5, <2>3 DEF PoolInv, TakesPart, Current
    <3> QED
      BY <1>1, <1>2, <1>5, <2>1, <3>1 DEF Waiting, Released, Closing, Arrived
  <2> QED
    BY <2>2, <2>3
<1>6. n_barrier_passed' \in Nat /\ n_barrier_passed <= n_barrier_passed' /\ n_barrier' = 0
  BY <1>1, <1>2
<1> QED
  BY <1>1, <1>3, <1>4, <1>5, <1>6 DEF Passes

\* A thread that is alone passes it at once.
LEMMA AlonePasses ==
  ASSUME PoolInv, NEW t \in Threads, PassAlone(t)
  PROVE  Passes(t)
<1>1. /\ pc[t] = "enter" /\ pc[t] \in Barrier /\ n_graph.n = 1
      /\ last' = [then |-> then[t], node |-> node[t]]
      /\ Leave(t) /\ UNCHANGED <<n_graph, abort, current_chunk, n_barrier, n_barrier_passed>>
  BY DEF PassAlone, shared, Barrier
<1>2. /\ \A u \in Threads : ~Closing(u)
      /\ Current(t) /\ t < n_graph.n
  BY <1>1, NobodyCloses
<1>3. \A u \in Threads : u < n_graph.n => u = t
  BY <1>1, <1>2, Values DEF PoolInv
<1>4. Crowd = {}
  <2>1. ASSUME NEW u \in Threads, Waiting(u) PROVE FALSE
    <3>1. u < n_graph.n
      BY <2>1 DEF PoolInv, TakesPart, Current, InGraph, Waiting, Released, Barrier
    <3> QED
      BY <1>1, <1>3, <2>1, <3>1 DEF Waiting, Arrived
  <2> QED
    BY <2>1 DEF Crowd
<1>5. n_barrier' = 0
  BY <1>1, <1>2, <1>4, FS_EmptySet DEF PoolInv, Counted
<1>6. ASSUME NEW u \in Threads, u # t, InGraph(u)
      PROVE  pc[u] = "spin" /\ n_passed[u] # n_barrier_passed'
  <2>1. ~Current(u)
    BY <1>3, <1>6 DEF PoolInv, TakesPart
  <2> QED
    BY <1>1, <1>6, <2>1 DEF Current, Released
<1>7. n_barrier_passed' \in Nat /\ n_barrier_passed <= n_barrier_passed'
  BY <1>1, Values DEF PoolInv
<1> QED
  BY <1>1, <1>2, <1>3, <1>5, <1>6, <1>7 DEF Passes

-----------------------------------------------------------------------------
(***************************************************************************)
(* Between graphs.                                                         *)
(***************************************************************************)
\* While the caller is outside nobody computes.
LEMMA CallerOutside ==
  ASSUME PoolInv, pc[0] \notin Barrier \cup Compute
  PROVE  last.then = "return" /\ \A t \in Threads : ~Current(t)
<1>1. last.then = "return"
  BY DEF PoolInv, TakesPart, Current, InGraph, Released, Barrier, Arrived
<1> QED
  BY <1>1 DEF PoolInv, TakesPart

\* Steps of threads that are not in the graph and do not come into it.
LEMMA OutsideKeeps ==
  ASSUME PoolInv, Roles',
         \A t \in Threads : InGraph(t) => pc'[t] = pc[t],
         \A t \in Threads : ~InGraph(t) => pc'[t] \notin Barrier \cup Compute,
         \A t \in Threads : last_graph'[t] \in {last_graph[t], n_graph},
         abort' = abort \/ last.then = "return",
         UNCHANGED <<n_graph, n_barrier, n_barrier_passed, node, n_passed, then, last>>
  PROVE  Roles' /\ TakesPart' /\ OnTheWay' /\ Counted'
<1>1. ASSUME NEW u \in Threads
      PROVE  /\ Current(u)' = Current(u) /\ Released(u)' = Released(u)
             /\ Waiting(u)' = Waiting(u) /\ Closing(u)' = Closing(u)
             /\ (pc[u] \in Barrier \cup Compute \/ pc'[u] \in Barrier \cup Compute) => pc'[u] = pc[u]
  <2>1. /\ n_passed' = n_passed /\ n_barrier_passed' = n_barrier_passed
        /\ InGraph(u) => pc'[u] = pc[u]
        /\ ~InGraph(u) => pc'[u] \notin Barrier \cup Compute
    OBVIOUS
  <2>2. CASE InGraph(u)
    BY <2>1, <2>2 DEF InGraph, Current, Released, Waiting, Closing
  <2>3. CASE ~InGraph(u)
    BY <2>1, <2>3 DEF InGraph, Current, Released, Waiting, Closing, Barrier, Arrived
  <2> QED
    BY <2>2, <2>3
<1>2. 0 \in Threads
  BY Values DEF PoolInv
<1>3. TakesPart'
  <2>1. ASSUME NEW u \in Threads, last_graph[u] = n_graph PROVE last_graph'[u] = n_graph
    BY <2>1
  <2> QED
    BY <1>1, <1>2, <2>1 DEF PoolInv, TakesPart
<1>4. OnTheWay'
  <2>1. ASSUME NEW u \in Threads, Current(u)'
        PROVE  /\ last.then = "next" => AfterNext(u)'
               /\ last.then = "chunk" => AfterChunk(u)'
    <3>1. Current(u) /\ pc'[u] = pc[u] /\ node' = node /\ then' = then /\ last' = last
      BY <1>1, <2>1 DEF Current, InGraph
    <3>2. abort' = abort
      BY <3>1 DEF PoolInv, TakesPart
    <3>3. /\ last.then = "next" => AfterNext(u)
          /\ last.then = "chunk" => AfterChunk(u)
      BY <3>1 DEF PoolInv, OnTheWay
    <3> QED
      BY <3>1, <3>2, <3>3 DEF AfterNext, AfterChunk, Path, InMatmul, InPlain, AtEnd, Here, AtBarrier
  <2> QED
    BY <2>1 DEF PoolInv, OnTheWay
<1>5. Counted'
  <2>1. Crowd' = Crowd
    BY <1>1 DEF Crowd
  <2>2. \A u \in Threads : /\ pc'[u] = "arrive" => n_passed'[u] = n_barrier_passed'
                           /\ pc'[u] \in Arrived => n_passed'[u] <= n_barrier_passed'
    BY <1>1 DEF PoolInv, Counted, Barrier, Arrived
  <2>3. ASSUME NEW u \in Threads, Closing(u)' PROVE pc'[u] = pc[u]
    BY <1>1, <2>3 DEF Closing, Barrier, Arrived
  <2> QED
    BY <1>1, <2>1, <2>2, <2>3 DEF PoolInv, Counted
<1> QED
  BY <1>3, <1>4, <1>5

\* A thread takes the graph: no barrier has been passed yet.
LEMMA SeeGraphKeeps ==
  ASSUME PoolInv, NEW t \in Threads \ {0}, SeeGraph(t), t < n_graph.n
  PROVE  Roles' /\ TakesPart' /\ OnTheWay' /\ Counted'
<1>1. /\ pc[t] = "top" /\ pc'[t] = "start" /\ n_graph # last_graph[t]
      /\ last_graph'[t] = n_graph
      /\ \A u \in Threads : u # t => pc'[u] = pc[u] /\ last_graph'[u] = last_graph[u]
      /\ UNCHANGED <<n_graph, n_barrier, n_barrier_passed, abort, node, n_passed, then, last>>
  BY DEF PoolInv, TypeOK, SeeGraph, shared
<1>2. last.node = -1 /\ last.then = "next" /\ 0 \in Threads
  BY <1>1, Values DEF PoolInv, TakesPart
<1>3. /\ Current(t)' /\ ~Released(t)' /\ ~Waiting(t)' /\ ~Closing(t)'
      /\ ~Waiting(t) /\ ~Closing(t) /\ AfterNext(t)'
  BY <1>1, <1>2 DEF Current, InGraph, Released, Waiting, Closing, Compute, Arrived, AfterNext
<1>4. ASSUME NEW u \in Threads, u # t
      PROVE  /\ Current(u)' = Current(u) /\ Released(u)' = Released(u)
             /\ Waiting(u)' = Waiting(u) /\ Closing(u)' = Closing(u)
             /\ AfterNext(u)' = AfterNext(u)
  <2>1. pc'[u] = pc[u] /\ last' = last /\ abort' = abort /\ node' = node /\ then' = then
    BY <1>1, <1>4
  <2> QED
    BY <1>1, <2>1 DEF Current, InGraph, Released, Waiting, Closing,
                      AfterNext, Path, InMatmul, InPlain, AtEnd, Here, AtBarrier
<1>5. Roles'
  BY <1>1, <1>2 DEF PoolInv, Roles
<1>6. TakesPart'
  BY <1>1, <1>2, <1>3, <1>4 DEF PoolInv, TakesPart
<1>7. OnTheWay'
  BY <1>1, <1>2, <1>3, <1>4 DEF PoolInv, OnTheWay
<1>8. Counted'
  <2>1. Crowd' = Crowd
    BY <1>3, <1>4 DEF Crowd
  <2>2. \A u \in Threads : /\ pc'[u] = "arrive" => n_passed'[u] = n_barrier_passed'
                           /\ pc'[u] \in Arrived => n_passed'[u] <= n_barrier_passed'
    BY <1>1 DEF PoolInv, Counted, Arrived
  <2>3. \A u \in Threads : ~Closing(u)
    BY <1>3 DEF PoolInv, Counted
  <2>4. \A u \in Threads : ~Closing(u)'
    BY <1>3, <1>4, <2>3
  <2> QED
    BY <1>1, <2>1, <2>2, <2>3, <2>4 DEF PoolInv, Counted
<1> QED
  BY <1>5, <1>6, <1>7, <1>8

\* The caller begins a graph: whoever is still at the last barrier of the one before is
\* free to leave it, and there is nobody else.
LEMMA KickoffKeeps ==
  ASSUME PoolInv, NEW n \in 1..NThreads, Kickoff(n)
  PROVE  Roles' /\ TakesPart' /\ OnTheWay' /\ Counted'
<1>1. /\ pc[0] = "kickoff" /\ pc' = Awake("start") /\ n_graph'.n = n
      /\ last'.then = "next" /\ last'.node = -1
      /\ UNCHANGED <<n_barrier, n_barrier_passed, n_passed, then>>
  BY DEF Kickoff
<1>2. /\ 0 \in Threads /\ NThreads \in Nat /\ pc[0] \notin Barrier \cup Compute
  BY <1>1, Values DEF PoolInv, Barrier, Arrived, Compute
<1>3. last.then = "return" /\ \A t \in Threads : ~Current(t)
  BY <1>2, CallerOutside
<1>4. /\ pc'[0] = "start"
      /\ \A t \in Threads : t # 0 => pc'[t] = IF pc[t] = "asleep" THEN "top" ELSE pc[t]
  BY <1>1, <1>2 DEF Awake
<1>5. /\ Current(0)' /\ ~Released(0)' /\ ~Waiting(0)' /\ ~Closing(0)' /\ AfterNext(0)'
  BY <1>1, <1>4 DEF Current, InGraph, Released, Waiting, Closing, Compute, Arrived, AfterNext
<1>6. ASSUME NEW t \in Threads, t # 0
      PROVE  /\ ~Current(t)' /\ ~Waiting(t)' /\ ~Closing(t)'
             /\ Released(t)' => Released(t)
  <2>1. ~Current(t)
    BY <1>3
  <2> QED
    BY <1>1, <1>4, <1>6, <2>1
    DEF Current, InGraph, Released, Waiting, Closing, Barrier, Arrived, Compute
<1>7. Roles'
  BY <1>2, <1>4 DEF PoolInv, Roles
<1>8. TakesPart'
  <2>1. ASSUME NEW t \in Threads, Released(t)' PROVE then[t] = "return"
    BY <1>3, <1>5, <1>6, <2>1, Values DEF PoolInv, TakesPart
  <2> QED
    BY <1>1, <1>2, <1>5, <1>6, <2>1 DEF TakesPart
<1>9. OnTheWay'
  BY <1>1, <1>5, <1>6, Values DEF PoolInv, OnTheWay
<1>10. Counted'
  <2>1. Crowd = {} /\ \A t \in Threads : ~Closing(t)
    BY <1>3 DEF Crowd, Waiting, Current, InGraph, Closing, Released, Barrier, Arrived
  <2>2. Crowd' = {} /\ \A t \in Threads : ~Closing(t)'
    BY <1>5, <1>6 DEF Crowd
  <2>3. \A u \in Threads : /\ pc'[u] = "arrive" => n_passed'[u] = n_barrier_passed'
                           /\ pc'[u] \in Arrived => n_passed'[u] <= n_barrier_passed'
    BY <1>1, <1>4 DEF PoolInv, Counted, Arrived
  <2> QED
    BY <1>1, <2>1, <2>2, <2>3 DEF PoolInv, Counted
<1> QED
  BY <1>7, <1>8, <1>9, <1>10

-----------------------------------------------------------------------------

\* The invariant holds at first.
LEMMA PoolInvAtFirst == Init => PoolInv
<1> SUFFICES ASSUME Init PROVE PoolInv
  OBVIOUS
<1>1. /\ \A t \in Threads : pc[t] = IF t = 0 THEN "idle" ELSE "top"
      /\ last.then = "return" /\ last.node = 0 /\ n_barrier = 0
  BY DEF Init
<1>2. TypeOK
  BY TypesAtFirst
<1>3. \A t \in Threads : ~Current(t) /\ ~Released(t) /\ ~Waiting(t) /\ ~Closing(t)
  BY <1>1 DEF Current, InGraph, Released, Waiting, Closing, Barrier, Arrived, Compute
<1>4. Roles
  BY <1>1, <1>2, Values DEF Roles
<1>5. TakesPart
  <2>1. n_graph = NoGraph /\ \A t \in Threads : last_graph[t] = NoGraph
    BY DEF Init
  <2> QED
    BY <1>1, <1>3, <2>1 DEF TakesPart
<1>6. OnTheWay
  BY <1>1, <1>3 DEF OnTheWay
<1>7. Counted
  <2>1. Crowd = {}
    BY <1>3 DEF Crowd
  <2> QED
    BY <1>1, <1>3, <2>1, FS_EmptySet DEF Counted, Arrived
<1> QED
  BY <1>2, <1>4, <1>5, <1>6, <1>7 DEF PoolInv

\* Every step keeps the invariant.
LEMMA PoolInvKept == PoolInv /\ [Next]_vars => PoolInv'
<1> SUFFICES ASSUME PoolInv, [Next]_vars PROVE PoolInv'
  OBVIOUS
<1>1. TypeOK'
  BY TypesKept
<1>2. ASSUME NEW t \in Threads, Quiet(t) PROVE PoolInv'
  <2>1. Roles' /\ TakesPart' /\ Counted'
    BY <1>2, QuietMoves, MovesKeep
  <2>2. OnTheWay'
    BY <1>2, QuietOnTheWay, EndOnTheWay
  <2> QED
    BY <1>1, <2>1, <2>2 DEF PoolInv
<1>3. ASSUME NEW t \in Threads, BarrierStep(t) \/ ComputeStep(t) PROVE PoolInv'
  BY <1>1, <1>2, <1>3, ArriveKeeps, ResetKeeps, ReleasePasses, AlonePasses, PassKeeps, SpinKeeps
  DEF BarrierStep, ComputeStep, Quiet, PoolInv, Passes
<1>4. /\ pc \in [Threads -> Barrier \cup Compute \cup Between] /\ 0 \in Threads
      /\ last_graph \in [Threads -> [count : Nat, n : 0..NThreads]]
      /\ \A t \in Threads : t \in Nat
      /\ n_graph.n \in Nat
  BY Values DEF PoolInv, TypeOK
<1>5. ASSUME NEW t \in Threads \ {0}, WaitStep(t) \/ Wake(t) PROVE PoolInv'
  <2>1. CASE SeeGraph(t) /\ t < n_graph.n
    BY <1>1, <2>1, SeeGraphKeeps DEF PoolInv
  <2>2. CASE ~(SeeGraph(t) /\ t < n_graph.n)
    <3>1. /\ pc[t] \in {"top", "asleep"} /\ pc'[t] \in {"top", "asleep", "exited"}
          /\ \A u \in Threads : u # t => pc'[u] = pc[u]
          /\ \A u \in Threads : last_graph'[u] \in {last_graph[u], n_graph}
          /\ UNCHANGED <<n_graph, n_barrier, n_barrier_passed, abort, node, n_passed, then, last>>
      BY <1>4, <1>5, <2>2 DEF WaitStep, Wake, Sleep, Exit, SeeGraph, shared
    <3>2. Roles'
      BY <1>4, <3>1 DEF PoolInv, Roles
    <3>3. /\ \A u \in Threads : InGraph(u) => pc'[u] = pc[u]
          /\ \A u \in Threads : ~InGraph(u) => pc'[u] \notin Barrier \cup Compute
      BY <3>1 DEF InGraph, Barrier, Arrived, Compute
    <3> QED
      BY <1>1, <3>1, <3>2, <3>3, OutsideKeeps DEF PoolInv
  <2> QED
    BY <2>1, <2>2
<1>6. CASE BeginCompute \/ Joined \/ Free \/ \E b \in BOOLEAN : SetPause(b)
  <2>1. /\ pc[0] \in {"idle", "join"} /\ pc'[0] \in {"idle", "kickoff", "join", "freed"}
        /\ \A u \in Threads : u # 0 => pc'[u] \in {pc[u], IF pc[u] = "asleep" THEN "top" ELSE pc[u]}
        /\ UNCHANGED <<n_graph, n_barrier, n_barrier_passed, node, n_passed, then, last, last_graph>>
    BY <1>4, <1>6 DEF BeginCompute, Joined, Free, SetPause, Awake, shared
  <2>2. last.then = "return"
    BY <2>1, CallerOutside DEF Barrier, Arrived, Compute
  <2>3. Roles'
    BY <1>4, <2>1 DEF PoolInv, Roles
  <2>4. /\ \A u \in Threads : InGraph(u) => pc'[u] = pc[u]
        /\ \A u \in Threads : ~InGraph(u) => pc'[u] \notin Barrier \cup Compute
    BY <2>1 DEF InGraph, Barrier, Arrived, Compute
  <2> QED
    BY <1>1, <2>1, <2>2, <2>3, <2>4, OutsideKeeps DEF PoolInv
<1>7. CASE Begin
  BY <1>1, <1>7, KickoffKeeps DEF Begin, PoolInv
<1>8. CASE UNCHANGED vars
  <2>1. /\ pc' = pc /\ last_graph' = last_graph /\ abort' = abort
        /\ UNCHANGED <<n_graph, n_barrier, n_barrier_passed, node, n_passed, then, last>>
    BY <1>8 DEF vars, shared, locals
  <2>2. Roles'
    BY <2>1 DEF PoolInv, Roles
  <2>3. \A u \in Threads : ~InGraph(u) => pc'[u] \notin Barrier \cup Compute
    BY <2>1 DEF InGraph
  <2> QED
    BY <1>1, <2>1, <2>2, <2>3, OutsideKeeps DEF PoolInv
<1> QED
  BY <1>3, <1>5, <1>6, <1>7, <1>8 DEF Next

\* The invariant above holds in every state.
THEOREM AlwaysCounted == Spec => []PoolInv
  BY PoolInvAtFirst, PoolInvKept, PTL DEF Spec

\* Threads that compute at the same time compute the same half of the same node, and none
\* computes while the caller sets up the next graph (ggml_barrier and
\* ggml_graph_compute_thread): for every pool, every graph and whenever it is given up.
THEOREM AlwaysSeparated == Spec => []Separated
  BY AlwaysCounted, PoolInvSeparates, PTL

-----------------------------------------------------------------------------
(***************************************************************************)
(* The chunks of a multiplication (ChunksOnce).  A thread that was let     *)
(* through the barrier in the middle holds the chunk of its own number,    *)
(* even before it has left the barrier; from then on it holds the one it   *)
(* took.  A chunk below the counter is held by one thread or computed, and *)
(* a thread holds none only when the counter has gone past the last chunk. *)
(***************************************************************************)
EndOfChunks == NChunks(n_graph.n)

\* The chunk a thread has taken and not computed.
HoldsChunk(t) == pc[t] = "chunk" \/ (Released(t) /\ then[t] = "chunk")
ItsChunk(t)    == IF pc[t] = "chunk" THEN chunk[t] ELSE t

\* A thread of the graph knows how many take part.
Told ==
  \A t \in Threads : (Current(t) /\ pc[t] # "start") \/ (Released(t) /\ then[t] # "return")
    => nth[t] = n_graph.n

\* A chunk is held by one thread, and is not computed yet.
HeldOnce ==
  /\ \A t \in Threads : HoldsChunk(t) =>
       ItsChunk(t) < current_chunk /\ (ItsChunk(t) < EndOfChunks => computed[ItsChunk(t)] = 0)
  /\ \A t, u \in Threads : HoldsChunk(t) /\ HoldsChunk(u) /\ ItsChunk(t) = ItsChunk(u) => t = u

\* While chunks are computed, each one taken is held or computed, once.
Sharing ==
  /\ n_graph.n <= current_chunk
  /\ HeldOnce
  /\ \A c \in AllChunks : computed[c] # 0 => computed[c] = 1 /\ c < current_chunk /\ c < EndOfChunks
  /\ \A c \in AllChunks : c < EndOfChunks /\ c < current_chunk =>
       computed[c] = 1 \/ \E t \in Threads : HoldsChunk(t) /\ ItsChunk(t) = c
  /\ \A t \in Threads : t < n_graph.n /\ ~HoldsChunk(t) => EndOfChunks <= current_chunk

\* Before the multiplication, and after it.
NoneComputed == \A c \in AllChunks : computed[c] = 0
AllComputed  == \A c \in AllChunks : computed[c] = IF c < EndOfChunks THEN 1 ELSE 0

\* Before the multiplication is begun thread 0 has set the counter.
SharedOut ==
  /\ last.then = "chunk" => Sharing
  /\ last.then # "chunk" => NoneComputed \/ AllComputed
  /\ last.then = "next" /\ Current(0) /\ AtBarrier(0, "chunk")
       => NoneComputed /\ current_chunk = n_graph.n

\* The inductive invariant of the chunks.
ChunkInv == Told /\ SharedOut

-----------------------------------------------------------------------------
(***************************************************************************)
(* What holds of the chunks implies ChunksOnce.                            *)
(***************************************************************************)
LEMMA ChunkRanges ==
  ASSUME TypeOK
  PROVE  /\ EndOfChunks \in Nat /\ n_graph.n \in Nat /\ n_graph.n <= EndOfChunks
         /\ current_chunk \in Nat
         /\ \A t \in Threads : chunk[t] \in Nat /\ ItsChunk(t) \in Nat
         /\ \A c \in AllChunks : c \in Nat /\ computed[c] \in Nat
         /\ \A c \in Nat : c < EndOfChunks => c \in AllChunks
<1>1. n_graph.n \in 0..NThreads /\ NThreads \in Nat /\ \A t \in Threads : t \in Nat
  BY Values DEF Threads
<1>2. Rows \in Nat
  BY PoolAssumption
<1>3. EndOfChunks \in Nat /\ n_graph.n <= EndOfChunks /\ EndOfChunks <= Rows + NThreads
  BY <1>1, <1>2 DEF EndOfChunks, NChunks
<1>4. \A c \in Nat : c < EndOfChunks => c \in AllChunks
  BY <1>1, <1>2, <1>3 DEF AllChunks
<1>5. /\ current_chunk \in Nat /\ \A t \in Threads : chunk[t] \in Nat
      /\ \A c \in AllChunks : computed[c] \in Nat
  BY DEF TypeOK
<1>6. \A t \in Threads : ItsChunk(t) \in Nat
  BY <1>1, <1>5 DEF ItsChunk
<1>7. \A c \in AllChunks : c \in Nat
  BY <1>2, <1>1 DEF AllChunks
<1> QED
  BY <1>1, <1>3, <1>4, <1>5, <1>6, <1>7

\* The invariant implies the property.
LEMMA ChunkInvImplies == TypeOK /\ ChunkInv => ChunksOnce
<1> SUFFICES ASSUME TypeOK, ChunkInv PROVE ChunksOnce
  OBVIOUS
<1>1. /\ EndOfChunks \in Nat /\ \A c \in AllChunks : c \in Nat /\ computed[c] \in Nat
      /\ \A c \in Nat : c < EndOfChunks => c \in AllChunks
  BY ChunkRanges
<1>2. \A c \in AllChunks : computed[c] <= 1
  <2>1. CASE last.then = "chunk"
    BY <1>1, <2>1 DEF ChunkInv, SharedOut, Sharing
  <2>2. CASE last.then # "chunk"
    BY <1>1, <2>2 DEF ChunkInv, SharedOut, NoneComputed, AllComputed
  <2> QED
    BY <2>1, <2>2
<1>3. ASSUME last.then # "chunk", NEW d \in AllChunks, computed[d] = 1, NEW c \in 0..EndOfChunks - 1
      PROVE  computed[c] = 1
  <2>1. AllComputed
    BY <1>3 DEF ChunkInv, SharedOut, NoneComputed
  <2>2. c \in AllChunks /\ c < EndOfChunks
    BY <1>1
  <2> QED
    BY <2>1, <2>2 DEF AllComputed
<1> QED
  BY <1>2, <1>3 DEF ChunksOnce, EndOfChunks

-----------------------------------------------------------------------------
(***************************************************************************)
(* Steps that leave the chunks alone.                                      *)
(***************************************************************************)
LEMMA ChunksStay ==
  ASSUME SharedOut, n_graph'.n = n_graph.n, last'.then = last.then,
         UNCHANGED <<current_chunk, computed>>,
         \A u \in Threads : HoldsChunk(u)' = HoldsChunk(u) /\ (HoldsChunk(u) => ItsChunk(u)' = ItsChunk(u)),
         last.then = "next" /\ Current(0)' /\ AtBarrier(0, "chunk")'
           => Current(0) /\ AtBarrier(0, "chunk")
  PROVE  SharedOut'
<1>1. EndOfChunks' = EndOfChunks
  BY DEF EndOfChunks, NChunks
<1>2. NoneComputed' = NoneComputed /\ AllComputed' = AllComputed
  BY <1>1 DEF NoneComputed, AllComputed
<1>3. Sharing => Sharing'
  <2> SUFFICES ASSUME Sharing PROVE Sharing'
    OBVIOUS
  <2>1. HeldOnce'
    <3>1. ASSUME NEW t \in Threads, HoldsChunk(t)'
          PROVE  (ItsChunk(t) < current_chunk /\ (ItsChunk(t) < EndOfChunks => computed[ItsChunk(t)] = 0))'
      <4>1. ItsChunk(t)' = ItsChunk(t) /\ HoldsChunk(t)
        BY <3>1
      <4>2. ItsChunk(t) < current_chunk /\ (ItsChunk(t) < EndOfChunks => computed[ItsChunk(t)] = 0)
        BY <4>1 DEF Sharing, HeldOnce
      <4> QED
        BY <1>1, <4>1, <4>2
    <3>2. ASSUME NEW t \in Threads, NEW u \in Threads,
                 HoldsChunk(t)', HoldsChunk(u)', ItsChunk(t)' = ItsChunk(u)'
          PROVE  t = u
      BY <3>2 DEF Sharing, HeldOnce
    <3> QED
      BY <3>1, <3>2 DEF HeldOnce
  <2>2. \A c \in AllChunks : (c < EndOfChunks /\ c < current_chunk =>
          computed[c] = 1 \/ \E t \in Threads : HoldsChunk(t) /\ ItsChunk(t) = c)'
    BY <1>1 DEF Sharing
  <2>3. \A t \in Threads : (t < n_graph.n /\ ~HoldsChunk(t) => EndOfChunks <= current_chunk)'
    BY <1>1 DEF Sharing
  <2> QED
    BY <1>1, <2>1, <2>2, <2>3 DEF Sharing
<1> QED
  BY <1>2, <1>3 DEF SharedOut

\* A step of one thread leaves the others where they are.
LEMMA OthersUnmoved ==
  ASSUME NEW t \in Threads, Moves(t), NEW u \in Threads, u # t
  PROVE  /\ pc'[u] = pc[u] /\ then'[u] = then[u]
         /\ Current(u)' = Current(u) /\ Released(u)' = Released(u)
<1>1. pc'[u] = pc[u] /\ then'[u] = then[u] /\ n_passed'[u] = n_passed[u]
      /\ n_barrier_passed' = n_barrier_passed
  BY DEF Moves, Others
<1> QED
  BY <1>1 DEF Current, Released, InGraph

\* A thread between barriers: what the last one was.
LEMMA WhereItIs ==
  ASSUME PoolInv, NEW t \in Threads
  PROVE  /\ pc[t] = "chunk" => last.then = "chunk"
         /\ pc[t] = "prepare" => last.then = "next"
         /\ Current(t) /\ AtBarrier(t, "chunk") => last.then = "next"
         /\ HoldsChunk(t) => last.then = "chunk" /\ t < n_graph.n
<1>1. pc[t] \in {"chunk", "prepare"} => Current(t)
  BY DEF Current, InGraph, Released, Compute
<1>2. last.then \in {"chunk", "next", "return"}
  BY Values DEF PoolInv
<1>3. Current(t) => /\ last.then # "return" /\ t < n_graph.n
                    /\ last.then = "next" => AfterNext(t)
                    /\ last.then = "chunk" => AfterChunk(t)
  BY DEF PoolInv, TakesPart, OnTheWay
<1>4. AfterNext(t) => pc[t] # "chunk"
  BY DEF AfterNext, InMatmul, InPlain, AtEnd, AtBarrier, Barrier, Arrived
<1>5. AfterChunk(t) => pc[t] # "prepare" /\ ~AtBarrier(t, "chunk")
  BY DEF AfterChunk, AtBarrier, Barrier, Arrived
<1>6. Released(t) /\ then[t] = "chunk" => last.then = "chunk" /\ t < n_graph.n
  BY DEF PoolInv, TakesPart
<1> QED
  BY <1>1, <1>2, <1>3, <1>4, <1>5, <1>6 DEF HoldsChunk

\* Quiet steps other than those that compute a chunk, or set the counter.
LEMMA QuietTold ==
  ASSUME PoolInv, ChunkInv, NEW t \in Threads, Quiet(t)
  PROVE  Told'
<1>1. Moves(t) /\ nth \in [Threads -> 0..NThreads] /\ n_graph' = n_graph
  BY QuietMoves DEF Moves, PoolInv, TypeOK
<1>2. Current(t) /\ ~Released(t) /\ ~Released(t)'
  BY <1>1 DEF Moves, Current, InGraph, Released, Barrier, Compute, Arrived
<1>3. /\ \A u \in Threads : u # t => nth'[u] = nth[u]
      /\ nth'[t] = n_graph.n
  <2>1. CASE Start(t)
    BY <1>1, <2>1 DEF Start
  <2>2. CASE ~Start(t)
    <3>1. nth' = nth /\ pc[t] # "start"
      BY <2>2 DEF Quiet, Enter, EndLoop, Skip, AtNode, BeginNode, PrepareMatmul, ComputeChunk,
                  NoChunkLeft, ComputePlain, EndNode
    <3> QED
      BY <1>2, <3>1 DEF ChunkInv, Told
  <2> QED
    BY <2>1, <2>2
<1> QED
  BY <1>1, <1>2, <1>3, OthersUnmoved DEF ChunkInv, Told

\* The steps that do not touch chunks keep how they are shared.
LEMMA QuietShares ==
  ASSUME PoolInv, ChunkInv, NEW t \in Threads, Quiet(t), pc[t] # "chunk", pc[t] # "prepare" \/ t # 0
  PROVE  SharedOut'
<1>1. /\ Moves(t) /\ n_graph' = n_graph /\ last' = last
      /\ UNCHANGED <<current_chunk, computed, chunk>>
  BY QuietMoves DEF Moves, Quiet, Enter, Start, EndLoop, Skip, BeginNode, PrepareMatmul, ComputeChunk,
                    NoChunkLeft, ComputePlain, EndNode, shared
<1>2. pc[t] \in Compute \cup {"enter"} /\ pc'[t] # "chunk"
  <2>1. pc \in [Threads -> Barrier \cup Compute \cup Between]
    BY DEF PoolInv, TypeOK
  <2> QED
    BY <1>1, <2>1 DEF Moves, Quiet, Enter, Start, EndLoop, Skip, AtNode, BeginNode, PrepareMatmul,
                      ComputeChunk, NoChunkLeft, ComputePlain, EndNode, Call, Goto
<1>3. ~HoldsChunk(t) /\ ~HoldsChunk(t)'
  BY <1>1, <1>2 DEF HoldsChunk, Released, Moves, Compute
<1>4. ASSUME NEW u \in Threads
      PROVE  HoldsChunk(u)' = HoldsChunk(u) /\ (HoldsChunk(u) => ItsChunk(u)' = ItsChunk(u))
  <2>1. CASE u = t
    BY <1>3, <2>1 DEF HoldsChunk
  <2>2. CASE u # t
    <3>1. /\ pc'[u] = pc[u] /\ then'[u] = then[u] /\ Released(u)' = Released(u)
          /\ chunk' = chunk
      BY <1>1, <2>2, OthersUnmoved
    <3> QED
      BY <3>1 DEF HoldsChunk, ItsChunk
  <2> QED
    BY <2>1, <2>2
<1>5. ASSUME Current(0)', AtBarrier(0, "chunk")'
      PROVE  Current(0) /\ AtBarrier(0, "chunk")
  <2>0. 0 \in Threads
    BY Values DEF PoolInv
  <2>1. CASE t # 0
    BY <1>1, <1>5, <2>0, <2>1, OthersUnmoved DEF AtBarrier
  <2>2. CASE t = 0
    <3>1. /\ pc \in [Threads -> Barrier \cup Compute \cup Between]
          /\ then \in [Threads -> {"chunk", "next", "return"}]
      BY DEF PoolInv, TypeOK
    <3>2. pc'[0] \in Barrier /\ then'[0] = "chunk"
      BY <1>5 DEF AtBarrier
    <3>3. Enter(0)
      BY <2>0, <2>2, <3>1, <3>2
      DEF Quiet, Enter, Start, EndLoop, Skip, AtNode, BeginNode, PrepareMatmul, ComputeChunk, NoChunkLeft,
          ComputePlain, EndNode, Call, Goto, Barrier, Arrived
    <3> QED
      BY <2>0, <3>2, <3>3 DEF Enter, AtBarrier, Barrier, Current, InGraph, Released
  <2> QED
    BY <2>1, <2>2
<1> QED
  BY <1>1, <1>4, <1>5, ChunksStay DEF ChunkInv

\* Thread 0 begins a multiplication.
LEMMA PrepareShares ==
  ASSUME PoolInv, ChunkInv, PrepareMatmul(0)
  PROVE  SharedOut'
<1>1. pc[0] = "prepare" /\ 0 \in Threads
  BY Values DEF PrepareMatmul, PoolInv
<1>2. last.then = "next" /\ last' = last /\ n_graph' = n_graph
  BY <1>1, WhereItIs DEF PrepareMatmul
<1>3. nth[0] = n_graph.n
  BY <1>1 DEF ChunkInv, Told, Current, InGraph, Released, Compute
<1>4. NoneComputed' /\ current_chunk' = nth[0]
  BY DEF PrepareMatmul, NoneComputed
<1> QED
  BY <1>2, <1>3, <1>4 DEF SharedOut

\* A thread that computes a chunk held it alone, and takes the next one or none.
LEMMA ComputeShares ==
  ASSUME PoolInv, ChunkInv, NEW t \in Threads, ComputeChunk(t)
  PROVE  SharedOut'
<1>1. pc[t] = "chunk" /\ last.then = "chunk" /\ last' = last /\ n_graph' = n_graph
  BY WhereItIs DEF ComputeChunk
<1>2. /\ HoldsChunk(t) /\ ItsChunk(t) = chunk[t] /\ nth[t] = n_graph.n
      /\ Sharing
  BY <1>1 DEF HoldsChunk, ItsChunk, ChunkInv, Told, SharedOut, Current, InGraph, Released, Compute
<1>3. /\ EndOfChunks \in Nat /\ n_graph.n \in Nat /\ n_graph.n <= EndOfChunks /\ EndOfChunks' = EndOfChunks
      /\ current_chunk \in Nat
      /\ \A u \in Threads : chunk[u] \in Nat /\ ItsChunk(u) \in Nat
      /\ \A c \in AllChunks : c \in Nat /\ computed[c] \in Nat
      /\ \A c \in Nat : c < EndOfChunks => c \in AllChunks
      /\ computed \in [AllChunks -> Nat] /\ chunk \in [Threads -> Nat]
      /\ pc \in [Threads -> Barrier \cup Compute \cup Between]
  BY <1>1, ChunkRanges DEF PoolInv, TypeOK, EndOfChunks
<1>4. chunk[t] < EndOfChunks /\ chunk[t] \in AllChunks
  BY <1>2, <1>3 DEF ComputeChunk, EndOfChunks
<1>5. computed[chunk[t]] = 0 /\ chunk[t] < current_chunk
  BY <1>2, <1>4 DEF Sharing, HeldOnce
<1>6. /\ computed'[chunk[t]] = 1
      /\ \A c \in AllChunks : c # chunk[t] => computed'[c] = computed[c]
  BY <1>3, <1>4, <1>5 DEF ComputeChunk
<1>7. ASSUME NEW u \in Threads, u # t
      PROVE  /\ HoldsChunk(u)' = HoldsChunk(u) /\ (HoldsChunk(u) => ItsChunk(u)' = ItsChunk(u))
             /\ HoldsChunk(u) => ItsChunk(u) # chunk[t]
  <2>1. Released(u)' = Released(u) /\ pc'[u] = pc[u] /\ then'[u] = then[u]
    BY <1>7, OthersUnmoved, QuietMoves DEF Quiet
  <2>2. chunk'[u] = chunk[u]
    BY <1>3, <1>7 DEF ComputeChunk
  <2>3. HoldsChunk(u) => ItsChunk(u) # chunk[t]
    BY <1>2, <1>7 DEF Sharing, HeldOnce
  <2> QED
    BY <2>1, <2>2, <2>3 DEF HoldsChunk, ItsChunk
<1>8. \A c \in AllChunks : computed'[c] # 0 =>
        computed'[c] = 1 /\ (c < current_chunk \/ c = chunk[t]) /\ c < EndOfChunks
  BY <1>2, <1>3, <1>4, <1>6 DEF Sharing
<1>9. CASE n_graph.n >= EndOfChunks
  <2>1. ~HoldsChunk(t)' /\ current_chunk' = current_chunk /\ EndOfChunks <= current_chunk
    <3>1. pc'[t] = "done" /\ current_chunk' = current_chunk
      BY <1>2, <1>3, <1>9 DEF ComputeChunk, Goto, EndOfChunks
    <3>2. EndOfChunks <= current_chunk
      BY <1>2, <1>3, <1>9 DEF Sharing
    <3> QED
      BY <3>1, <3>2 DEF HoldsChunk, Released
  <2>2. HeldOnce'
    <3>1. ASSUME NEW u \in Threads, HoldsChunk(u)'
          PROVE  (ItsChunk(u) < current_chunk /\ (ItsChunk(u) < EndOfChunks => computed[ItsChunk(u)] = 0))'
      <4>1. u # t
        BY <2>1, <3>1
      <4>2. HoldsChunk(u) /\ ItsChunk(u)' = ItsChunk(u) /\ ItsChunk(u) # chunk[t]
        BY <1>7, <3>1, <4>1
      <4>3. ItsChunk(u) < current_chunk /\ (ItsChunk(u) < EndOfChunks => computed[ItsChunk(u)] = 0)
        BY <1>2, <4>2 DEF Sharing, HeldOnce
      <4> QED
        BY <1>3, <1>6, <2>1, <4>2, <4>3
    <3>2. ASSUME NEW u \in Threads, NEW v \in Threads, HoldsChunk(u)', HoldsChunk(v)', ItsChunk(u)' = ItsChunk(v)'
          PROVE  u = v
      <4>1. u # t /\ v # t
        BY <2>1, <3>2
      <4>2. HoldsChunk(u) /\ HoldsChunk(v) /\ ItsChunk(u) = ItsChunk(v)
        BY <1>7, <3>2, <4>1
      <4> QED
        BY <1>2, <4>2 DEF Sharing, HeldOnce
    <3> QED
      BY <3>1, <3>2 DEF HeldOnce
  <2>3. ASSUME NEW c \in AllChunks, c < EndOfChunks, c < current_chunk
        PROVE  computed'[c] = 1 \/ \E u \in Threads : HoldsChunk(u)' /\ ItsChunk(u)' = c
    <3>1. CASE c = chunk[t]
      BY <1>6, <3>1
    <3>2. CASE c # chunk[t]
      <4>1. computed[c] = 1 \/ \E u \in Threads : HoldsChunk(u) /\ ItsChunk(u) = c
        BY <1>2, <2>3 DEF Sharing
      <4> QED
        BY <1>2, <1>6, <1>7, <3>2, <4>1
    <3> QED
      BY <3>1, <3>2
  <2>4. Sharing'
    BY <1>1, <1>2, <1>3, <1>5, <1>8, <2>1, <2>2, <2>3 DEF Sharing
  <2> QED
    BY <1>1, <2>4 DEF SharedOut
<1>10. CASE n_graph.n < EndOfChunks
  <2>1. /\ chunk'[t] = current_chunk /\ current_chunk' = current_chunk + 1
        /\ pc'[t] = "chunk" /\ HoldsChunk(t)' /\ ItsChunk(t)' = current_chunk
    <3>1. /\ chunk'[t] = current_chunk /\ current_chunk' = current_chunk + 1
          /\ pc'[t] = "chunk"
      BY <1>1, <1>2, <1>3, <1>10 DEF ComputeChunk, EndOfChunks
    <3> QED
      BY <3>1 DEF HoldsChunk, ItsChunk
  <2>2. current_chunk \in AllChunks => computed'[current_chunk] = 0
    <3>1. current_chunk \in AllChunks => computed[current_chunk] = 0
      BY <1>2, <1>3 DEF Sharing
    <3> QED
      BY <1>3, <1>5, <1>6, <3>1
  <2>3. ASSUME NEW u \in Threads, u # t, HoldsChunk(u)
        PROVE  ItsChunk(u) < current_chunk /\ (ItsChunk(u) < EndOfChunks => computed'[ItsChunk(u)] = 0)
    <3>1. ItsChunk(u) < current_chunk /\ (ItsChunk(u) < EndOfChunks => computed[ItsChunk(u)] = 0)
      BY <1>2, <2>3 DEF Sharing, HeldOnce
    <3> QED
      BY <1>3, <1>6, <1>7, <2>3, <3>1
  <2>4. HeldOnce'
    <3>1. ASSUME NEW u \in Threads, HoldsChunk(u)'
          PROVE  (ItsChunk(u) < current_chunk /\ (ItsChunk(u) < EndOfChunks => computed[ItsChunk(u)] = 0))'
      <4>1. CASE u = t
        BY <1>3, <2>1, <2>2, <4>1
      <4>2. CASE u # t
        <5>1. HoldsChunk(u) /\ ItsChunk(u)' = ItsChunk(u)
          BY <1>7, <3>1, <4>2
        <5> QED
          BY <1>3, <2>1, <2>3, <4>2, <5>1
      <4> QED
        BY <4>1, <4>2
    <3>2. ASSUME NEW u \in Threads, NEW v \in Threads, HoldsChunk(u)', HoldsChunk(v)', ItsChunk(u)' = ItsChunk(v)'
          PROVE  u = v
      <4>1. ASSUME NEW w \in Threads, w # t, HoldsChunk(w)'
            PROVE  HoldsChunk(w) /\ ItsChunk(w)' = ItsChunk(w) /\ ItsChunk(w)' # current_chunk
        <5>1. HoldsChunk(w) /\ ItsChunk(w)' = ItsChunk(w)
          BY <1>7, <4>1
        <5>2. ItsChunk(w) < current_chunk
          BY <2>3, <4>1, <5>1
        <5> QED
          BY <1>3, <5>1, <5>2
      <4>2. CASE u = t \/ v = t
        BY <2>1, <3>2, <4>1, <4>2
      <4>3. CASE u # t /\ v # t
        <5>1. HoldsChunk(u) /\ HoldsChunk(v) /\ ItsChunk(u) = ItsChunk(v)
          BY <3>2, <4>1, <4>3
        <5> QED
          BY <1>2, <5>1 DEF Sharing, HeldOnce
      <4> QED
        BY <4>2, <4>3
    <3> QED
      BY <3>1, <3>2 DEF HeldOnce
  <2>5. ASSUME NEW c \in AllChunks, c < EndOfChunks, c < current_chunk'
        PROVE  computed'[c] = 1 \/ \E u \in Threads : HoldsChunk(u)' /\ ItsChunk(u)' = c
    <3>1. CASE c = chunk[t]
      BY <1>6, <3>1
    <3>2. CASE c = current_chunk
      BY <2>1, <3>2
    <3>3. CASE c # chunk[t] /\ c # current_chunk
      <4>1. computed[c] = 1 \/ \E u \in Threads : HoldsChunk(u) /\ ItsChunk(u) = c
        BY <1>2, <1>3, <2>1, <2>5, <3>3 DEF Sharing
      <4> QED
        BY <1>2, <1>6, <1>7, <3>3, <4>1
    <3> QED
      BY <3>1, <3>2, <3>3
  <2>6. ASSUME NEW u \in Threads, u < n_graph.n, ~HoldsChunk(u)'
        PROVE  EndOfChunks <= current_chunk'
    <3>1. ~HoldsChunk(u)
      BY <1>7, <2>1, <2>6
    <3>2. EndOfChunks <= current_chunk
      BY <1>2, <2>6, <3>1 DEF Sharing
    <3> QED
      BY <1>3, <2>1, <3>2
  <2>7. \A c \in AllChunks : computed'[c] # 0 =>
          computed'[c] = 1 /\ c < current_chunk' /\ c < EndOfChunks
    BY <1>3, <1>5, <1>8, <2>1
  <2>8. n_graph.n <= current_chunk'
    BY <1>2, <1>3, <2>1 DEF Sharing
  <2>9. Sharing'
    BY <1>1, <1>3, <2>4, <2>5, <2>6, <2>7, <2>8 DEF Sharing
  <2> QED
    BY <1>1, <2>9 DEF SharedOut
<1> QED
  BY <1>3, <1>9, <1>10

\* A thread for which no chunk is left.
LEMMA NoChunkShares ==
  ASSUME PoolInv, ChunkInv, NEW t \in Threads, NoChunkLeft(t)
  PROVE  SharedOut'
<1>1. /\ pc[t] = "chunk" /\ last.then = "chunk" /\ last' = last /\ n_graph' = n_graph
      /\ UNCHANGED <<current_chunk, computed, chunk>>
  BY WhereItIs DEF NoChunkLeft, shared
<1>2. /\ HoldsChunk(t) /\ ItsChunk(t) = chunk[t] /\ nth[t] = n_graph.n
      /\ Sharing
  BY <1>1 DEF HoldsChunk, ItsChunk, ChunkInv, Told, SharedOut, Current, InGraph, Released, Compute
<1>3. /\ EndOfChunks \in Nat /\ EndOfChunks' = EndOfChunks /\ current_chunk \in Nat /\ chunk[t] \in Nat
      /\ \A c \in AllChunks : c \in Nat
      /\ pc \in [Threads -> Barrier \cup Compute \cup Between]
  BY <1>1, ChunkRanges DEF PoolInv, TypeOK, EndOfChunks
<1>4. EndOfChunks <= chunk[t] /\ chunk[t] < current_chunk
  BY <1>2, <1>3 DEF Sharing, HeldOnce, NoChunkLeft, EndOfChunks
<1>5. ~HoldsChunk(t)'
  <2>1. pc'[t] = "done"
    BY <1>3 DEF NoChunkLeft, Goto
  <2> QED
    BY <2>1 DEF HoldsChunk, Released
<1>6. ASSUME NEW u \in Threads, u # t
      PROVE  HoldsChunk(u)' = HoldsChunk(u) /\ ItsChunk(u)' = ItsChunk(u)
  <2>1. Released(u)' = Released(u) /\ pc'[u] = pc[u] /\ then'[u] = then[u]
    BY <1>6, OthersUnmoved, QuietMoves DEF Quiet
  <2> QED
    BY <1>1, <2>1 DEF HoldsChunk, ItsChunk
<1>7. HeldOnce'
  <2>1. ASSUME NEW u \in Threads, HoldsChunk(u)'
        PROVE  (ItsChunk(u) < current_chunk /\ (ItsChunk(u) < EndOfChunks => computed[ItsChunk(u)] = 0))'
    <3>1. HoldsChunk(u) /\ ItsChunk(u)' = ItsChunk(u)
      BY <1>5, <1>6, <2>1
    <3>2. ItsChunk(u) < current_chunk /\ (ItsChunk(u) < EndOfChunks => computed[ItsChunk(u)] = 0)
      BY <1>2, <3>1 DEF Sharing, HeldOnce
    <3> QED
      BY <1>1, <1>3, <3>1, <3>2
  <2>2. ASSUME NEW u \in Threads, NEW v \in Threads, HoldsChunk(u)', HoldsChunk(v)', ItsChunk(u)' = ItsChunk(v)'
        PROVE  u = v
    <3>1. HoldsChunk(u) /\ HoldsChunk(v) /\ ItsChunk(u) = ItsChunk(v)
      BY <1>5, <1>6, <2>2
    <3> QED
      BY <1>2, <3>1 DEF Sharing, HeldOnce
  <2> QED
    BY <2>1, <2>2 DEF HeldOnce
<1>8. ASSUME NEW c \in AllChunks, c < EndOfChunks, c < current_chunk
      PROVE  computed[c] = 1 \/ \E u \in Threads : HoldsChunk(u)' /\ ItsChunk(u)' = c
  <2>1. computed[c] = 1 \/ \E u \in Threads : HoldsChunk(u) /\ ItsChunk(u) = c
    BY <1>2, <1>8 DEF Sharing
  <2>2. c # ItsChunk(t)
    BY <1>2, <1>3, <1>4, <1>8
  <2> QED
    BY <1>6, <2>1, <2>2
<1>9. EndOfChunks <= current_chunk
  BY <1>3, <1>4
<1>10. Sharing'
  BY <1>1, <1>2, <1>3, <1>7, <1>8, <1>9 DEF Sharing
<1> QED
  BY <1>1, <1>10 DEF SharedOut

-----------------------------------------------------------------------------
(***************************************************************************)
(* The barriers.                                                           *)
(***************************************************************************)
\* A thread arrives, or resets the counter of the barrier.
LEMMA ArriveShares ==
  ASSUME PoolInv, ChunkInv, NEW t \in Threads, Arrive(t) \/ Reset(t)
  PROVE  ChunkInv'
<1>1. /\ pc[t] \in {"arrive", "reset"} /\ pc'[t] \in {"reset", "spin", "release"}
      /\ \A u \in Threads : u # t => pc'[u] = pc[u]
      /\ pc[t] = "arrive" => n_passed[t] = n_barrier_passed
      /\ pc[t] = "reset" => pc'[t] = "release"
      /\ UNCHANGED <<n_graph, n_barrier_passed, current_chunk, n_passed, then, last, computed, nth,
                     chunk>>
  BY DEF PoolInv, TypeOK, Arrive, Reset, Goto, Counted
<1>2. ASSUME NEW u \in Threads
      PROVE  /\ Current(u)' = Current(u) /\ Released(u)' = Released(u)
             /\ HoldsChunk(u)' = HoldsChunk(u) /\ ItsChunk(u)' = ItsChunk(u)
             /\ pc'[u] = "start" <=> pc[u] = "start"
             /\ pc'[u] \in Barrier <=> pc[u] \in Barrier
  BY <1>1 DEF Current, InGraph, Released, HoldsChunk, ItsChunk, Barrier, Arrived
<1>3. Told'
  BY <1>1, <1>2 DEF ChunkInv, Told
<1>4. SharedOut'
  <2>1. 0 \in Threads
    BY Values DEF PoolInv
  <2>2. AtBarrier(0, "chunk")' => AtBarrier(0, "chunk")
    BY <1>1, <1>2, <2>1 DEF AtBarrier
  <2> QED
    BY <1>1, <1>2, <2>1, <2>2, ChunksStay DEF ChunkInv
<1> QED
  BY <1>3, <1>4 DEF ChunkInv

\* A thread leaves a barrier: the chunk it holds is the same.
LEMMA SpinShares ==
  ASSUME PoolInv, ChunkInv, NEW t \in Threads, Spin(t)
  PROVE  ChunkInv'
<1>1. /\ pc[t] = "spin" /\ Released(t) /\ then[t] \in {"chunk", "next", "return"}
      /\ pc'[t] = CASE then[t] = "chunk"  -> "chunk"
                    [] then[t] = "next"   -> "loop"
                    [] then[t] = "return" -> IF t = 0 THEN "idle" ELSE "top"
      /\ then[t] = "chunk" => chunk'[t] = t
      /\ \A u \in Threads : u # t => /\ pc'[u] = pc[u] /\ n_passed'[u] = n_passed[u]
                                     /\ chunk'[u] = chunk[u]
      /\ UNCHANGED <<n_graph, n_barrier_passed, current_chunk, then, last, computed, nth>>
  BY DEF PoolInv, TypeOK, Spin, Leave, Released, shared
<1>2. /\ then[t] = "chunk" => pc'[t] = "chunk"
      /\ then[t] # "chunk" => pc'[t] \in {"loop", "idle", "top"}
      /\ then[t] = "return" => pc'[t] \in {"idle", "top"}
  BY <1>1
<1>3. ASSUME NEW u \in Threads, u # t
      PROVE  /\ Current(u)' = Current(u) /\ Released(u)' = Released(u) /\ pc'[u] = pc[u]
             /\ HoldsChunk(u)' = HoldsChunk(u) /\ ItsChunk(u)' = ItsChunk(u)
  <2>1. /\ pc'[u] = pc[u] /\ n_passed'[u] = n_passed[u] /\ chunk'[u] = chunk[u]
        /\ n_barrier_passed' = n_barrier_passed /\ then' = then
    BY <1>1, <1>3
  <2> QED
    BY <2>1 DEF Current, InGraph, Released, HoldsChunk, ItsChunk
<1>4. HoldsChunk(t)' = HoldsChunk(t) /\ (HoldsChunk(t) => ItsChunk(t)' = ItsChunk(t))
  BY <1>1, <1>2 DEF HoldsChunk, ItsChunk, Released
<1>5. Told'
  <2>1. Current(t)' => then[t] # "return"
    BY <1>1, <1>2 DEF Current, InGraph, Barrier, Arrived, Compute
  <2>2. ~Released(t)'
    BY <1>2 DEF Released
  <2> QED
    BY <1>1, <1>3, <2>1, <2>2 DEF ChunkInv, Told
<1>6. SharedOut'
  <2>1. 0 \in Threads
    BY Values DEF PoolInv
  <2>2. AtBarrier(0, "chunk")' => t # 0
    BY <1>2 DEF AtBarrier, Barrier, Arrived
  <2>3. Current(0)' /\ AtBarrier(0, "chunk")' => Current(0) /\ AtBarrier(0, "chunk")
    BY <1>1, <1>3, <2>1, <2>2 DEF AtBarrier
  <2>4. /\ n_graph'.n = n_graph.n /\ last'.then = last.then
        /\ UNCHANGED <<current_chunk, computed>>
    BY <1>1
  <2>5. \A u \in Threads : HoldsChunk(u)' = HoldsChunk(u) /\ (HoldsChunk(u) => ItsChunk(u)' = ItsChunk(u))
    BY <1>3, <1>4
  <2> QED
    BY <2>3, <2>4, <2>5, ChunksStay DEF ChunkInv
<1> QED
  BY <1>5, <1>6 DEF ChunkInv

\* The barrier is passed: in the middle of a multiplication every thread then holds the
\* chunk of its own number, and after it nobody holds one.
LEMMA PassShares ==
  ASSUME PoolInv, ChunkInv, NEW t \in Threads, pc[t] \in Barrier, Current(t), Leave(t),
         last' = [then |-> then[t], node |-> node[t]],
         UNCHANGED <<n_graph, current_chunk>>,
         n_barrier_passed' \in Nat, n_barrier_passed <= n_barrier_passed',
         \A u \in Threads : u < n_graph.n => Current(u) /\ pc[u] \in Barrier,
         \A u \in Threads : u # t /\ InGraph(u) => pc[u] = "spin" /\ n_passed[u] # n_barrier_passed'
  PROVE  ChunkInv'
<1>1. /\ then[t] = "chunk" => pc'[t] = "chunk" /\ chunk'[t] = t
      /\ then[t] = "next" => pc'[t] = "loop"
      /\ then[t] = "return" => pc'[t] \in {"idle", "top"}
      /\ then[t] \in {"chunk", "next", "return"}
      /\ last'.then = then[t] /\ t < n_graph.n /\ pc[t] # "start"
      /\ \A u \in Threads : u # t => /\ pc'[u] = pc[u] /\ n_passed'[u] = n_passed[u]
                                     /\ chunk'[u] = chunk[u]
      /\ UNCHANGED <<then, computed, nth>>
  BY DEF PoolInv, TypeOK, TakesPart, Leave, Barrier, Arrived
<1>2. /\ EndOfChunks \in Nat /\ n_graph.n \in Nat /\ n_graph.n <= EndOfChunks /\ EndOfChunks' = EndOfChunks
      /\ current_chunk \in Nat /\ t \in Nat /\ 0 \in Threads
      /\ \A c \in AllChunks : c \in Nat /\ computed[c] \in Nat
      /\ \A u \in Threads : u \in Nat
      /\ \A c \in Nat : c < n_graph.n => c \in Threads
  <2>1. n_graph.n \in 0..NThreads /\ NThreads \in Nat
    BY Values DEF PoolInv
  <2> QED
    BY <2>1, ChunkRanges, Values DEF PoolInv, EndOfChunks, Threads
<1>3. ~Released(t)' /\ (Current(t)' => then[t] # "return")
  BY <1>1 DEF Released, Current, InGraph, Barrier, Arrived, Compute
<1>4. ASSUME NEW u \in Threads, u # t
      PROVE  /\ ~Current(u)' /\ pc'[u] # "chunk"
             /\ Released(u)' /\ then[u] # "return" => u < n_graph.n
  <2>1. pc'[u] = pc[u] /\ n_passed'[u] = n_passed[u] /\ then' = then
    BY <1>1, <1>4
  <2>2. InGraph(u) => pc[u] = "spin" /\ n_passed[u] # n_barrier_passed'
    BY <1>4
  <2>3. ~Current(u)' /\ pc'[u] # "chunk"
    BY <2>1, <2>2 DEF Current, Released, InGraph, Barrier, Compute
  <2>4. ASSUME Released(u)', then[u] # "return" PROVE u < n_graph.n
    <3>1. Current(u) \/ Released(u)
      BY <2>1, <2>4 DEF Current, InGraph, Released, Barrier, Arrived
    <3> QED
      BY <2>4, <3>1 DEF PoolInv, TakesPart
  <2> QED
    BY <2>3, <2>4
<1>5. Told'
  <2>1. ASSUME NEW u \in Threads, u < n_graph.n PROVE nth[u] = n_graph.n
    <3>1. Current(u) /\ pc[u] # "start"
      BY <2>1 DEF Barrier, Arrived
    <3> QED
      BY <3>1 DEF ChunkInv, Told
  <2>2. ASSUME NEW u \in Threads,
               (Current(u)' /\ pc'[u] # "start") \/ (Released(u)' /\ then'[u] # "return")
        PROVE  nth'[u] = n_graph'.n
    <3>1. CASE u = t
      BY <1>1, <2>1, <3>1
    <3>2. CASE u # t
      BY <1>1, <1>4, <2>1, <2>2, <3>2
    <3> QED
      BY <3>1, <3>2
  <2> QED
    BY <2>2 DEF Told
<1>6. ASSUME then[t] = "chunk" PROVE SharedOut'
  <2>1. 0 < n_graph.n
    BY <1>1, <1>2
  <2>2. ASSUME NEW u \in Threads, u < n_graph.n PROVE then[u] = "chunk"
    BY <1>6, <2>2, SameBarrier
  <2>3. Current(0) /\ AtBarrier(0, "chunk")
    BY <1>2, <2>1, <2>2 DEF AtBarrier
  <2>4. NoneComputed /\ current_chunk = n_graph.n
    BY <1>2, <2>3, WhereItIs DEF ChunkInv, SharedOut
  <2>5. ASSUME NEW u \in Threads
        PROVE  (HoldsChunk(u)' <=> u < n_graph.n) /\ (u < n_graph.n => ItsChunk(u)' = u)
    <3>1. CASE u = t
      <4>1. pc'[t] = "chunk" /\ chunk'[t] = t
        BY <1>1, <1>6
      <4> QED
        BY <1>1, <3>1, <4>1 DEF HoldsChunk, ItsChunk
    <3>2. CASE u # t
      <4>1. pc'[u] # "chunk" /\ pc'[u] = pc[u] /\ n_passed'[u] = n_passed[u] /\ then' = then
        BY <1>1, <1>4, <3>2
      <4>2. u < n_graph.n => HoldsChunk(u)'
        <5>1. ASSUME u < n_graph.n PROVE Released(u)'
          <6>1. Current(u)
            BY <5>1
          <6>2. pc[u] = "spin" /\ n_passed[u] # n_barrier_passed'
            BY <3>2, <6>1 DEF Current
          <6> QED
            BY <4>1, <6>2 DEF Released
        <5> QED
          BY <2>2, <4>1, <5>1 DEF HoldsChunk
      <4>3. HoldsChunk(u)' => u < n_graph.n
        BY <1>4, <3>2, <4>1 DEF HoldsChunk
      <4> QED
        BY <4>1, <4>2, <4>3 DEF ItsChunk
    <3> QED
      BY <3>1, <3>2
  <2>6. HeldOnce'
    <3>1. ASSUME NEW u \in Threads, HoldsChunk(u)'
          PROVE  (ItsChunk(u) < current_chunk /\ (ItsChunk(u) < EndOfChunks => computed[ItsChunk(u)] = 0))'
      <4>1. u < n_graph.n /\ ItsChunk(u)' = u /\ u \in Nat
        BY <1>2, <2>5, <3>1
      <4>2. u \in AllChunks
        BY <1>2, <4>1, ChunkRanges DEF PoolInv
      <4> QED
        BY <1>1, <1>2, <2>4, <4>1, <4>2 DEF NoneComputed
    <3>2. ASSUME NEW u \in Threads, NEW v \in Threads, HoldsChunk(u)', HoldsChunk(v)', ItsChunk(u)' = ItsChunk(v)'
          PROVE  u = v
      BY <2>5, <3>2
    <3> QED
      BY <3>1, <3>2 DEF HeldOnce
  <2>7. ASSUME NEW c \in AllChunks, c < current_chunk'
        PROVE  \E u \in Threads : HoldsChunk(u)' /\ ItsChunk(u)' = c
    <3>1. c \in Threads /\ c < n_graph.n
      BY <1>2, <2>4, <2>7
    <3> QED
      BY <2>5, <3>1
  <2>8. Sharing'
    BY <1>1, <1>2, <2>4, <2>5, <2>6, <2>7 DEF Sharing, NoneComputed
  <2> QED
    BY <1>1, <1>6, <2>8 DEF SharedOut
<1>7. ASSUME then[t] # "chunk" PROVE SharedOut'
  <2>1. NoneComputed \/ AllComputed
    <3>1. CASE last.then # "chunk"
      BY <3>1 DEF ChunkInv, SharedOut
    <3>2. CASE last.then = "chunk"
      <4>1. ASSUME NEW u \in Threads, HoldsChunk(u) PROVE FALSE
        <5>1. Current(u) /\ pc[u] \in Barrier
          BY <4>1, WhereItIs
        <5> QED
          BY <4>1, <5>1 DEF HoldsChunk, Current, Barrier, Arrived
      <4>2. Sharing /\ EndOfChunks <= current_chunk
        BY <1>1, <3>2, <4>1 DEF ChunkInv, SharedOut, Sharing
      <4>3. ASSUME NEW c \in AllChunks PROVE computed[c] = IF c < EndOfChunks THEN 1 ELSE 0
        <5>1. CASE c < EndOfChunks
          BY <1>2, <4>1, <4>2, <5>1 DEF Sharing
        <5>2. CASE ~(c < EndOfChunks)
          BY <4>2, <5>2 DEF Sharing
        <5> QED
          BY <5>1, <5>2
      <4> QED
        BY <4>3 DEF AllComputed
    <3> QED
      BY <3>1, <3>2
  <2>2. NoneComputed' = NoneComputed /\ AllComputed' = AllComputed
    BY <1>1, <1>2 DEF NoneComputed, AllComputed
  <2>3. ~(Current(0)' /\ AtBarrier(0, "chunk")')
    <3>1. CASE t = 0
      BY <1>1, <1>7, <3>1 DEF AtBarrier, Barrier, Arrived
    <3>2. CASE t # 0
      BY <1>2, <1>4, <3>2
    <3> QED
      BY <3>1, <3>2
  <2> QED
    BY <1>1, <1>7, <2>1, <2>2, <2>3 DEF SharedOut
<1> QED
  BY <1>5, <1>6, <1>7 DEF ChunkInv

-----------------------------------------------------------------------------
(***************************************************************************)
(* Between graphs.                                                         *)
(***************************************************************************)
\* Steps of threads that are outside and stay there, or take the graph.
LEMMA OutsideShares ==
  ASSUME PoolInv, ChunkInv,
         \A t \in Threads : InGraph(t) => pc'[t] = pc[t],
         \A t \in Threads : ~InGraph(t) => pc'[t] \notin (Barrier \cup Compute) \ {"start"},
         current_chunk' = current_chunk \/ last.then = "return",
         UNCHANGED <<n_graph, n_barrier_passed, n_passed, nth, chunk, then, last, computed>>
  PROVE  ChunkInv'
<1>1. ASSUME NEW u \in Threads
      PROVE  /\ Released(u)' = Released(u)
             /\ Current(u)' /\ pc'[u] # "start" => Current(u) /\ pc[u] # "start"
             /\ pc'[u] = "chunk" <=> pc[u] = "chunk"
             /\ Current(u)' /\ pc'[u] \in Barrier => Current(u) /\ pc[u] \in Barrier
  <2>1. /\ InGraph(u) => pc'[u] = pc[u]
        /\ ~InGraph(u) => pc'[u] \notin (Barrier \cup Compute) \ {"start"}
    OBVIOUS
  <2>2. CASE InGraph(u)
    BY <2>1, <2>2 DEF InGraph, Current, Released
  <2>3. CASE ~InGraph(u)
    BY <2>1, <2>3 DEF InGraph, Current, Released, Barrier, Arrived, Compute
  <2> QED
    BY <2>2, <2>3
<1>2. Told'
  <2>1. nth' = nth /\ n_graph' = n_graph /\ then' = then
    OBVIOUS
  <2> QED
    BY <1>1, <2>1 DEF ChunkInv, Told
<1>3. SharedOut'
  <2>1. 0 \in Threads
    BY Values DEF PoolInv
  <2>2. Current(0)' /\ AtBarrier(0, "chunk")' => Current(0) /\ AtBarrier(0, "chunk")
    BY <1>1, <2>1 DEF AtBarrier
  <2>3. \A u \in Threads : HoldsChunk(u)' = HoldsChunk(u) /\ (HoldsChunk(u) => ItsChunk(u)' = ItsChunk(u))
    BY <1>1 DEF HoldsChunk, ItsChunk
  <2>4. CASE current_chunk' = current_chunk
    BY <2>2, <2>3, <2>4, ChunksStay DEF ChunkInv
  <2>5. CASE last.then = "return"
    BY <2>5 DEF ChunkInv, SharedOut, NoneComputed, AllComputed, EndOfChunks, NChunks
  <2> QED
    BY <2>4, <2>5
<1> QED
  BY <1>2, <1>3 DEF ChunkInv

\* A new graph begins with no chunk shared.
LEMMA KickoffShares ==
  ASSUME PoolInv, ChunkInv, NEW n \in 1..NThreads, Kickoff(n)
  PROVE  ChunkInv'
<1>1. /\ pc[0] = "kickoff" /\ pc' = Awake("start") /\ last'.then = "next"
      /\ UNCHANGED <<n_barrier_passed, n_passed, then>>
      /\ NoneComputed'
  BY DEF Kickoff, NoneComputed
<1>2. 0 \in Threads /\ pc[0] \notin Barrier \cup Compute
  BY <1>1, Values DEF PoolInv, Barrier, Arrived, Compute
<1>3. last.then = "return" /\ \A t \in Threads : ~Current(t)
  BY <1>2, CallerOutside
<1>4. /\ pc'[0] = "start"
      /\ \A t \in Threads : t # 0 => pc'[t] = IF pc[t] = "asleep" THEN "top" ELSE pc[t]
  BY <1>1, <1>2 DEF Awake
<1>5. ASSUME NEW t \in Threads
      PROVE  /\ Current(t)' => pc'[t] = "start"
             /\ Released(t)' => then'[t] = "return"
  <2>1. ~Current(t)
    BY <1>3
  <2>2. Released(t)' => Released(t)
    BY <1>1, <1>4 DEF Released
  <2>3. Released(t) => then[t] = "return"
    BY <1>3, Values DEF PoolInv, TakesPart
  <2>4. Current(t)' => pc'[t] = "start"
    BY <1>1, <1>4, <2>1 DEF Current, InGraph, Released, Barrier, Arrived, Compute
  <2> QED
    BY <1>1, <2>2, <2>3, <2>4
<1>6. Told'
  BY <1>5 DEF Told
<1>7. SharedOut'
  BY <1>1, <1>4 DEF SharedOut, AtBarrier, Barrier, Arrived
<1> QED
  BY <1>6, <1>7 DEF ChunkInv

-----------------------------------------------------------------------------

\* The invariant holds at first.
LEMMA ChunkInvAtFirst == Init => ChunkInv
<1> SUFFICES ASSUME Init PROVE ChunkInv
  OBVIOUS
<1>1. /\ \A t \in Threads : pc[t] \in {"idle", "top"}
      /\ last.then = "return" /\ NoneComputed
  BY DEF Init, NoneComputed
<1> QED
  BY <1>1 DEF ChunkInv, Told, SharedOut, Current, Released, InGraph, Barrier, Arrived, Compute

\* Every step keeps the invariant.
LEMMA ChunkInvKept == PoolInv /\ ChunkInv /\ [Next]_vars => ChunkInv'
<1> SUFFICES ASSUME PoolInv, ChunkInv, [Next]_vars PROVE ChunkInv'
  OBVIOUS
<1>1. ASSUME NEW t \in Threads, Quiet(t) PROVE ChunkInv'
  <2>1. Told'
    BY <1>1, QuietTold
  <2>2. SharedOut'
    <3>1. CASE pc[t] = "chunk"
      BY <1>1, <3>1, ComputeShares, NoChunkShares
      DEF Quiet, Enter, Start, EndLoop, Skip, AtNode, BeginNode, PrepareMatmul, ComputePlain, EndNode
    <3>2. CASE pc[t] = "prepare" /\ t = 0
      BY <1>1, <3>2, PrepareShares
      DEF Quiet, Enter, Start, EndLoop, Skip, AtNode, BeginNode, ComputeChunk, NoChunkLeft,
          ComputePlain, EndNode
    <3> QED
      BY <1>1, <3>1, <3>2, QuietShares
  <2> QED
    BY <2>1, <2>2 DEF ChunkInv
<1>2. ASSUME NEW t \in Threads, Release(t) \/ PassAlone(t) PROVE ChunkInv'
  BY <1>2, ReleasePasses, AlonePasses, PassShares DEF Passes
<1>3. ASSUME NEW t \in Threads, BarrierStep(t) \/ ComputeStep(t) PROVE ChunkInv'
  BY <1>1, <1>2, <1>3, ArriveShares, SpinShares DEF BarrierStep, ComputeStep, Quiet
<1>4. pc \in [Threads -> Barrier \cup Compute \cup Between] /\ 0 \in Threads
  BY Values DEF PoolInv, TypeOK
<1>5. ASSUME NEW t \in Threads \ {0}, WaitStep(t) \/ Wake(t) PROVE ChunkInv'
  <2>1. /\ pc[t] \in {"top", "asleep"} /\ pc'[t] \in {"top", "asleep", "exited", "start"}
        /\ \A u \in Threads : u # t => pc'[u] = pc[u]
        /\ UNCHANGED <<n_graph, n_barrier_passed, current_chunk, n_passed, nth, chunk, then, last,
                       computed>>
    BY <1>4, <1>5 DEF WaitStep, Wake, Sleep, Exit, SeeGraph, shared
  <2>2. /\ \A u \in Threads : InGraph(u) => pc'[u] = pc[u]
        /\ \A u \in Threads : ~InGraph(u) => pc'[u] \notin (Barrier \cup Compute) \ {"start"}
    BY <2>1 DEF InGraph, Barrier, Arrived, Compute
  <2> QED
    BY <2>1, <2>2, OutsideShares
<1>6. CASE BeginCompute \/ Joined \/ Free \/ \E b \in BOOLEAN : SetPause(b)
  <2>1. /\ pc[0] \in {"idle", "join"} /\ pc'[0] \in {"idle", "kickoff", "join", "freed"}
        /\ \A u \in Threads : u # 0 => pc'[u] \in {pc[u], IF pc[u] = "asleep" THEN "top" ELSE pc[u]}
        /\ UNCHANGED <<n_graph, n_barrier_passed, n_passed, nth, chunk, then, last, computed>>
    BY <1>4, <1>6 DEF BeginCompute, Joined, Free, SetPause, Awake, shared
  <2>2. last.then = "return"
    BY <2>1, CallerOutside DEF Barrier, Arrived, Compute
  <2>3. /\ \A u \in Threads : InGraph(u) => pc'[u] = pc[u]
        /\ \A u \in Threads : ~InGraph(u) => pc'[u] \notin (Barrier \cup Compute) \ {"start"}
    BY <2>1 DEF InGraph, Barrier, Arrived, Compute
  <2> QED
    BY <2>1, <2>2, <2>3, OutsideShares
<1>7. CASE Begin
  BY <1>7, KickoffShares DEF Begin
<1>8. CASE UNCHANGED vars
  <2>1. /\ pc' = pc
        /\ UNCHANGED <<n_graph, n_barrier_passed, current_chunk, n_passed, nth, chunk, then, last,
                       computed>>
    BY <1>8 DEF vars, shared, locals
  <2>2. \A u \in Threads : ~InGraph(u) => pc'[u] \notin (Barrier \cup Compute) \ {"start"}
    BY <2>1 DEF InGraph
  <2> QED
    BY <2>1, <2>2, OutsideShares
<1> QED
  BY <1>3, <1>5, <1>6, <1>7, <1>8 DEF Next

\* No chunk of a multiplication is computed by two threads, and no thread goes past the
\* multiplication before all are computed (current_chunk and the barrier in
\* ggml_compute_forward_mul_mat): for every number of threads and of chunks.
THEOREM AlwaysOnce == Spec => []ChunksOnce
<1>1. Init => PoolInv /\ ChunkInv
  BY PoolInvAtFirst, ChunkInvAtFirst
<1>2. (PoolInv /\ ChunkInv) /\ [Next]_vars => (PoolInv /\ ChunkInv)'
  BY PoolInvKept, ChunkInvKept
<1>3. PoolInv /\ ChunkInv => ChunksOnce
  BY ChunkInvImplies DEF PoolInv
<1> QED
  BY <1>1, <1>2, <1>3, PTL DEF Spec
=============================================================================
