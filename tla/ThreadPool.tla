---------------------------- MODULE ThreadPool ----------------------------
(***************************************************************************)
(* The threads with which ggml computes a graph on the CPU (ggml-cpu.c,    *)
(* without OpenMP).  Thread 0 is the caller; the others wait for a graph,  *)
(* by polling and then asleep.  All that take part walk over the nodes and *)
(* meet at barriers, one after every node that is not the last, one in the *)
(* middle of every matrix multiplication, whose chunks they then share     *)
(* out, and one at the end.                                                *)
(*                                                                         *)
(* A step is one access to what the threads share.  What is computed, the  *)
(* status that is returned, priorities and affinities are left out.        *)
(***************************************************************************)
EXTENDS Integers

CONSTANTS
  NThreads,  \* threads of the pool, with the caller
  NNodes,    \* cgraph->n_nodes
  Kind,      \* of every node: "nop", "plain" or "matmul"
  Rows,      \* nchunk0 * nchunk1 of a matrix multiplication, before it is chunked again
  MaxGraphs  \* bound: graphs that are computed

ASSUME PoolAssumption ==
  /\ NThreads \in Nat \ {0} /\ NNodes \in Nat
  /\ Kind \in [0..NNodes - 1 -> {"nop", "plain", "matmul"}]
  /\ Rows \in Nat \ {0} /\ MaxGraphs \in Nat

VARIABLES
  n_graph,          \* number of the graph and of the threads that take part
  n_barrier,        \* threads that have arrived at the barrier
  n_barrier_passed, \* barriers that were passed
  current_chunk,    \* the next chunk to be taken
  abort,            \* the node at which the graph is abandoned, or -1
  pause, stop,
  pc,               \* where a thread is
  node,             \* node_n
  nth,              \* params.nth
  chunk,            \* the chunk a thread is at
  n_passed,         \* n_barrier_passed when the barrier was entered
  then,             \* where the barrier returns to
  last_graph,       \* the graph a thread saw last
  last,             \* history: the barrier that was passed last
  computed          \* history: how often each chunk of the last multiplication was computed

shared == <<n_graph, n_barrier, n_barrier_passed, current_chunk, abort, pause, stop>>
locals == <<pc, node, nth, chunk, n_passed, then, last_graph>>
vars   == <<shared, locals, last, computed>>

Threads == 0..NThreads - 1

\* A multiplication with too few chunks is chunked again, one for every thread.
NChunks(n) == IF Rows < 4 * n THEN n ELSE Rows

AllChunks == 0..Rows + NThreads

Arrived == {"reset", "release", "spin"}
Barrier == {"enter", "arrive"} \cup Arrived
Compute == {"start", "loop", "prepare", "plain", "chunk", "done"}
Between == {"idle", "kickoff", "join", "freed", "top", "asleep", "exited"}

TypeOK ==
  /\ n_graph \in [count : Nat, n : 0..NThreads]
  /\ n_barrier \in Nat /\ n_barrier_passed \in Nat
  /\ current_chunk \in Nat /\ abort \in -1..NNodes
  /\ pause \in BOOLEAN /\ stop \in BOOLEAN
  /\ pc \in [Threads -> Barrier \cup Compute \cup Between]
  /\ node \in [Threads -> 0..NNodes]
  /\ nth \in [Threads -> 0..NThreads]
  /\ chunk \in [Threads -> Nat] /\ n_passed \in [Threads -> Nat]
  /\ then \in [Threads -> {"chunk", "next", "return"}]
  /\ last_graph \in [Threads -> [count : Nat, n : 0..NThreads]]
  /\ last \in [then : {"chunk", "next", "return"}, node : -1..NNodes]
  /\ computed \in [AllChunks -> Nat]

NoGraph == [count |-> 0, n |-> 0]

Init ==
  /\ n_graph = NoGraph /\ n_barrier = 0 /\ n_barrier_passed = 0
  /\ current_chunk = 0 /\ abort = -1 /\ pause \in BOOLEAN /\ stop = FALSE
  /\ pc = [t \in Threads |-> IF t = 0 THEN "idle" ELSE "top"]
  /\ node = [t \in Threads |-> 0] /\ nth = [t \in Threads |-> 0]
  /\ chunk = [t \in Threads |-> 0] /\ n_passed = [t \in Threads |-> 0]
  /\ then = [t \in Threads |-> "return"] /\ last_graph = [t \in Threads |-> NoGraph]
  /\ last = [then |-> "return", node |-> 0] /\ computed = [c \in AllChunks |-> 0]

Goto(t, l) == pc' = [pc EXCEPT ![t] = l]

-----------------------------------------------------------------------------
(***************************************************************************)
(* The caller.  What it changes under the mutex it announces to all that   *)
(* sleep.                                                                  *)
(***************************************************************************)
Awake(l) == [t \in Threads |-> IF t = 0 THEN l ELSE IF pc[t] = "asleep" THEN "top" ELSE pc[t]]

\* ggml_graph_compute: the parameters of the graph are set.
BeginCompute ==
  /\ pc[0] = "idle" /\ n_graph.count < MaxGraphs
  /\ current_chunk' = 0 /\ abort' = -1
  /\ pc' = [pc EXCEPT ![0] = "kickoff"]
  /\ UNCHANGED <<n_graph, n_barrier, n_barrier_passed, pause, stop, node, nth, chunk,
                 n_passed, then, last_graph, last, computed>>

\* Mistake to catch: sleepers are woken up only to be resumed.
KickoffUnheard(n) ==
  /\ pc[0] = "kickoff"
  /\ n_graph' = [count |-> n_graph.count + 1, n |-> n] /\ pause' = FALSE
  /\ pc' = IF pause THEN Awake("start") ELSE [pc EXCEPT ![0] = "start"]
  /\ last' = [then |-> "next", node |-> -1] /\ computed' = [c \in AllChunks |-> 0]
  /\ UNCHANGED <<n_barrier, n_barrier_passed, current_chunk, abort, stop, node, nth, chunk,
                 n_passed, then, last_graph>>

Kickoff(n) ==
  /\ pc[0] = "kickoff"
  /\ n_graph' = [count |-> n_graph.count + 1, n |-> n] /\ pause' = FALSE
  /\ pc' = Awake("start")
  /\ last' = [then |-> "next", node |-> -1] /\ computed' = [c \in AllChunks |-> 0]
  /\ UNCHANGED <<n_barrier, n_barrier_passed, current_chunk, abort, stop, node, nth, chunk,
                 n_passed, then, last_graph>>

SetPause(b) ==
  /\ pc[0] = "idle" /\ pause # b /\ pause' = b
  /\ pc' = Awake("idle")
  /\ UNCHANGED <<n_graph, n_barrier, n_barrier_passed, current_chunk, abort, stop, node, nth,
                 chunk, n_passed, then, last_graph, last, computed>>

Free ==
  /\ pc[0] = "idle" /\ stop' = TRUE /\ pause' = FALSE
  /\ pc' = Awake("join")
  /\ UNCHANGED <<n_graph, n_barrier, n_barrier_passed, current_chunk, abort, node, nth, chunk,
                 n_passed, then, last_graph, last, computed>>

Joined ==
  /\ pc[0] = "join" /\ \A t \in Threads \ {0} : pc[t] = "exited"
  /\ pc' = [pc EXCEPT ![0] = "freed"]
  /\ UNCHANGED <<shared, node, nth, chunk, n_passed, then, last_graph, last, computed>>

-----------------------------------------------------------------------------
(***************************************************************************)
(* The other threads between graphs.  The mutex makes looking and falling  *)
(* asleep one step.                                                        *)
(***************************************************************************)
Sleep(t) ==
  /\ pc[t] = "top" /\ (pause \/ (~stop /\ n_graph = last_graph[t]))
  /\ pc' = [pc EXCEPT ![t] = "asleep"]
  /\ UNCHANGED <<shared, node, nth, chunk, n_passed, then, last_graph, last, computed>>

\* A condition variable may wake up for nothing.
Wake(t) ==
  /\ pc[t] = "asleep"
  /\ pc' = [pc EXCEPT ![t] = "top"]
  /\ UNCHANGED <<shared, node, nth, chunk, n_passed, then, last_graph, last, computed>>

Exit(t) ==
  /\ pc[t] = "top" /\ ~pause /\ stop
  /\ pc' = [pc EXCEPT ![t] = "exited"]
  /\ UNCHANGED <<shared, node, nth, chunk, n_passed, then, last_graph, last, computed>>

\* ggml_graph_compute_thread_ready: a graph is taken, or left to the first threads.
SeeGraph(t) ==
  /\ pc[t] = "top" /\ ~pause /\ ~stop /\ n_graph # last_graph[t]
  /\ last_graph' = [last_graph EXCEPT ![t] = n_graph]
  /\ pc' = [pc EXCEPT ![t] = IF t < n_graph.n THEN "start" ELSE "top"]
  /\ UNCHANGED <<shared, node, nth, chunk, n_passed, then, last, computed>>

-----------------------------------------------------------------------------
(***************************************************************************)
(* ggml_barrier.                                                           *)
(***************************************************************************)
Call(t, l) == Goto(t, "enter") /\ then' = [then EXCEPT ![t] = l]

\* What comes after the barrier.
Leave(t) ==
  /\ pc' = [pc EXCEPT ![t] = CASE then[t] = "chunk"  -> "chunk"
                               [] then[t] = "next"   -> "loop"
                               [] then[t] = "return" -> IF t = 0 THEN "idle" ELSE "top"]
  /\ node' = [node EXCEPT ![t] = IF then[t] = "next" THEN @ + 1 ELSE @]
  /\ chunk' = [chunk EXCEPT ![t] = IF then[t] = "chunk" THEN t ELSE @]
  /\ UNCHANGED <<nth, n_passed, then, last_graph, computed>>

Enter(t) ==
  /\ pc[t] = "enter" /\ n_graph.n # 1
  /\ n_passed' = [n_passed EXCEPT ![t] = n_barrier_passed]
  /\ Goto(t, "arrive")
  /\ UNCHANGED <<shared, node, nth, chunk, then, last_graph, last, computed>>

\* There is nobody to wait for.
PassAlone(t) ==
  /\ pc[t] = "enter" /\ n_graph.n = 1
  /\ last' = [then |-> then[t], node |-> node[t]]
  /\ Leave(t) /\ UNCHANGED shared

Arrive(t) ==
  /\ pc[t] = "arrive"
  /\ n_barrier' = n_barrier + 1
  /\ Goto(t, IF n_barrier = n_graph.n - 1 THEN "reset" ELSE "spin")
  /\ UNCHANGED <<n_graph, n_barrier_passed, current_chunk, abort, pause, stop,
                 node, nth, chunk, n_passed, then, last_graph, last, computed>>

Reset(t) ==
  /\ pc[t] = "reset" /\ n_barrier' = 0
  /\ Goto(t, "release")
  /\ UNCHANGED <<n_graph, n_barrier_passed, current_chunk, abort, pause, stop,
                 node, nth, chunk, n_passed, then, last_graph, last, computed>>

Release(t) ==
  /\ pc[t] = "release" /\ n_barrier_passed' = n_barrier_passed + 1
  /\ last' = [then |-> then[t], node |-> node[t]]
  /\ Leave(t)
  /\ UNCHANGED <<n_graph, n_barrier, current_chunk, abort, pause, stop>>

Spin(t) ==
  /\ pc[t] = "spin" /\ n_barrier_passed # n_passed[t]
  /\ Leave(t) /\ UNCHANGED <<shared, last>>

-----------------------------------------------------------------------------
(***************************************************************************)
(* ggml_graph_compute_thread.                                              *)
(***************************************************************************)
Start(t) ==
  /\ pc[t] = "start"
  /\ nth' = [nth EXCEPT ![t] = n_graph.n] /\ node' = [node EXCEPT ![t] = 0]
  /\ Goto(t, "loop")
  /\ UNCHANGED <<shared, chunk, n_passed, then, last_graph, last, computed>>

\* Mistake to catch: a thread that is done does not wait for the others.
EndLoopUnmet(t) ==
  /\ pc[t] = "loop" /\ (node[t] = NNodes \/ abort = node[t])
  /\ Goto(t, IF t = 0 THEN "idle" ELSE "top")
  /\ UNCHANGED <<shared, node, nth, chunk, n_passed, then, last_graph, last, computed>>

\* The nodes are done, or given up.
EndLoop(t) ==
  /\ pc[t] = "loop" /\ (node[t] = NNodes \/ abort = node[t])
  /\ Call(t, "return")
  /\ UNCHANGED <<shared, node, nth, chunk, n_passed, last_graph, last, computed>>

AtNode(t) == pc[t] = "loop" /\ node[t] < NNodes /\ abort # node[t]

Skip(t) ==
  /\ AtNode(t) /\ Kind[node[t]] = "nop"
  /\ node' = [node EXCEPT ![t] = @ + 1]
  /\ UNCHANGED <<shared, pc, nth, chunk, n_passed, then, last_graph, last, computed>>

BeginNode(t) ==
  /\ AtNode(t) /\ Kind[node[t]] # "nop"
  /\ Goto(t, IF Kind[node[t]] = "matmul" THEN "prepare" ELSE "plain")
  /\ UNCHANGED <<shared, node, nth, chunk, n_passed, then, last_graph, last, computed>>

\* Mistake to catch: the threads do not meet before they share out the chunks.
PrepareUnmet(t) ==
  /\ pc[t] = "prepare" /\ Goto(t, "chunk")
  /\ chunk' = [chunk EXCEPT ![t] = t]
  /\ IF t = 0 THEN /\ current_chunk' = nth[t]
                   /\ computed' = [c \in AllChunks |-> 0]
              ELSE UNCHANGED <<current_chunk, computed>>
  /\ UNCHANGED <<n_graph, n_barrier, n_barrier_passed, abort, pause, stop, node, nth,
                 then, n_passed, last_graph, last>>

\* The first half of a multiplication.  Thread 0 says which chunk is the first that is
\* not anybody's.
PrepareMatmul(t) ==
  /\ pc[t] = "prepare" /\ Call(t, "chunk")
  /\ IF t = 0 THEN /\ current_chunk' = nth[t]
                   /\ computed' = [c \in AllChunks |-> 0]
              ELSE UNCHANGED <<current_chunk, computed>>
  /\ UNCHANGED <<n_graph, n_barrier, n_barrier_passed, abort, pause, stop, node, nth, chunk,
                 n_passed, last_graph, last>>

\* A chunk is computed and the next one taken, unless every thread has its own.
ComputeChunk(t) ==
  /\ pc[t] = "chunk" /\ chunk[t] < NChunks(nth[t])
  /\ computed' = [computed EXCEPT ![chunk[t]] = @ + 1]
  /\ IF nth[t] >= NChunks(nth[t])
       THEN Goto(t, "done") /\ UNCHANGED <<current_chunk, chunk>>
       ELSE /\ chunk' = [chunk EXCEPT ![t] = current_chunk]
            /\ current_chunk' = current_chunk + 1 /\ UNCHANGED pc
  /\ UNCHANGED <<n_graph, n_barrier, n_barrier_passed, abort, pause, stop, node, nth,
                 n_passed, then, last_graph, last>>

NoChunkLeft(t) ==
  /\ pc[t] = "chunk" /\ chunk[t] >= NChunks(nth[t])
  /\ Goto(t, "done")
  /\ UNCHANGED <<shared, node, nth, chunk, n_passed, then, last_graph, last, computed>>

ComputePlain(t) ==
  /\ pc[t] = "plain" /\ Goto(t, "done")
  /\ UNCHANGED <<shared, node, nth, chunk, n_passed, then, last_graph, last, computed>>

\* The callback may tell thread 0 to give up.  There is no barrier after the last node.
EndNode(t) ==
  /\ pc[t] = "done"
  /\ abort' \in IF t = 0 THEN {abort, node[t] + 1} ELSE {abort}
  /\ IF node[t] + 1 < NNodes
       THEN Call(t, "next") /\ UNCHANGED node
       ELSE Goto(t, "loop") /\ node' = [node EXCEPT ![t] = @ + 1] /\ UNCHANGED then
  /\ UNCHANGED <<n_graph, n_barrier, n_barrier_passed, current_chunk, pause, stop, nth, chunk,
                 n_passed, last_graph, last, computed>>

-----------------------------------------------------------------------------
BarrierStep(t) ==
  \/ Enter(t) \/ PassAlone(t) \/ Arrive(t) \/ Reset(t) \/ Release(t) \/ Spin(t)

ComputeStep(t) ==
  \/ Start(t) \/ EndLoop(t) \/ Skip(t) \/ BeginNode(t) \/ PrepareMatmul(t)
  \/ ComputeChunk(t) \/ NoChunkLeft(t) \/ ComputePlain(t) \/ EndNode(t)

WaitStep(t) == Sleep(t) \/ Exit(t) \/ SeeGraph(t)

Begin == \E n \in 1..NThreads : Kickoff(n)

Next ==
  \/ BeginCompute \/ Begin \/ Joined
  \/ \E b \in BOOLEAN : SetPause(b)
  \/ Free
  \/ \E t \in Threads : BarrierStep(t) \/ ComputeStep(t)
  \/ \E t \in Threads \ {0} : WaitStep(t) \/ Wake(t)

\* Every thread is scheduled, and a call that has begun goes on.
Fairness ==
  /\ WF_vars(Begin \/ Joined)
  /\ \A t \in Threads : WF_vars(BarrierStep(t) \/ ComputeStep(t))
  /\ \A t \in Threads \ {0} : WF_vars(WaitStep(t))

Spec == Init /\ [][Next]_vars /\ Fairness

-----------------------------------------------------------------------------
(***************************************************************************)
(* Properties.                                                             *)
(***************************************************************************)
\* Threads that compute at the same time compute the same half of the same node, and
\* while the caller sets a graph up "no worker threads should be accessing the
\* parameters": the barrier holds everybody back until all have come, graph after graph,
\* with more or fewer threads.
Separated ==
  /\ TypeOK
  /\ \A t, u \in Threads : pc[t] \in {"prepare", "plain", "chunk"}
                             /\ pc[u] \in {"prepare", "plain", "chunk"}
       => node[t] = node[u] /\ pc[t] = pc[u]
  /\ pc[0] \in Between => \A t \in Threads : pc[t] \notin Compute

\* No chunk of a multiplication is computed twice, and when a thread has gone past it all
\* are computed: the counter is set before anybody takes from it and by no later
\* multiplication while somebody still does.
ChunksOnce ==
  /\ \A c \in AllChunks : computed[c] <= 1
  /\ last.then # "chunk" /\ (\E c \in AllChunks : computed[c] = 1)
       => \A c \in 0..NChunks(n_graph.n) - 1 : computed[c] = 1

\* A graph that is begun is computed or given up by all its threads, and a pool that is
\* freed is left by all: nobody misses the start, sleeps through it, waits at a barrier
\* for a thread that has given up, or counts for the wrong barrier.
CallsReturn == pc[0] \notin {"idle", "freed"} ~> pc[0] \in {"idle", "freed"}
=============================================================================
