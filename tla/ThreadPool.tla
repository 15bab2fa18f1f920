------------------------------ MODULE ThreadPool ------------------------------
(***************************************************************************)
(* The CPU thread pool of ggml (ggml/src/ggml-cpu/ggml-cpu.c, without      *)
(* OpenMP): the thread that computes a graph is thread 0 of the pool; it   *)
(* kicks off the others, which poll for a new graph for a while and then   *)
(* sleep, and all go through the nodes together, with a barrier of two     *)
(* counters after each.  The chunks of a matrix product are handed out     *)
(* with a third counter.                                                   *)
(*                                                                         *)
(* A step has one access to what the threads share, or is one critical     *)
(* section of the mutex.  The memory is sequentially consistent.           *)
(***************************************************************************)
EXTENDS Integers, Sequences

CONSTANTS
    NThreads,       \* of the pool
    Active,         \* the numbers of threads that graphs ask for
    Work,           \* a sequence of nodes: the chunks a matrix product would best be
                    \* cut into, 0 for a node that computes nothing
    Spread,         \* chunks per thread that make it worth it (4)
    Graphs,         \* how many graphs are computed (bound)
    MayAbort,       \* whether abort_callback may return true
    MayPause        \* whether the pool is paused and resumed between graphs

ASSUME PoolAssumption ==
    /\ NThreads \in Nat \ {0} /\ Active \subseteq Nat \ {0} /\ Graphs \in Nat
    /\ Work \in Seq(Nat) /\ Spread \in Nat \ {0} /\ {MayAbort, MayPause} \subseteq BOOLEAN

Thread == 0 .. NThreads - 1
Worker == Thread \ {0}
NNodes == Len(Work)
Node == 0 .. NNodes - 1

VARIABLES
    n_graph,        \* [id, n]: the count of graphs and the number of active threads
    n_barrier, n_barrier_passed,
    current_chunk,
    stop, pause, abort,
    waiting,        \* the threads in ggml_cond_wait
    pc,             \* where each thread is
    last_graph, pending,    \* of each worker
    node, chunk,    \* of each thread: node_n, current_chunk
    n_passed,       \* of each thread: n_barrier_passed when it came to the barrier
    back,           \* of each thread: where it goes after the barrier
    computed,       \* history: of each node of this graph, how often each chunk was computed
    aborted         \* history: the node at which abort_callback returned true, or NNodes

poolVars == <<n_graph, stop, pause, waiting>>
barrierVars == <<n_barrier, n_barrier_passed, n_passed, back>>
workVars == <<current_chunk, chunk, computed>>
workerVars == <<last_graph, pending>>
vars == <<poolVars, barrierVars, workVars, workerVars, abort, aborted, pc, node>>

NoGraph == [id |-> 0, n |-> 0]
Nth == n_graph.n
\* The number of chunks: by thread, if the plan is too coarse for so many threads.
NChunks(n) == IF Work[n + 1] < Nth * Spread THEN Nth ELSE Work[n + 1]
NothingComputed == [n \in Node |-> [c \in {} |-> 0]]

Init ==
    /\ n_graph = NoGraph /\ n_barrier = 0 /\ n_barrier_passed = 0 /\ current_chunk = 0
    /\ stop = FALSE /\ pause \in {FALSE, MayPause} /\ abort = -1 /\ waiting = {}
    /\ pc = [t \in Thread |-> IF t = 0 THEN "idle" ELSE "loop"]
    /\ last_graph = [t \in Worker |-> NoGraph] /\ pending = [t \in Worker |-> FALSE]
    /\ node = [t \in Thread |-> 0] /\ chunk = [t \in Thread |-> 0]
    /\ n_passed = [t \in Thread |-> 0] /\ back = [t \in Thread |-> "idle"]
    /\ computed = NothingComputed /\ aborted = NNodes

Goto(t, where) == pc' = [pc EXCEPT ![t] = where]

-----------------------------------------------------------------------------
(* The owner, thread 0, between graphs                                     *)

\* mutant: the sleeping threads are not woken up
KickoffSilent(n) ==
    /\ pc[0] = "idle" /\ n_graph.id < Graphs
    /\ current_chunk' = 0 /\ abort' = -1 /\ Goto(0, "compute")
    /\ n_graph' = [id |-> n_graph.id + 1, n |-> IF n < NThreads THEN n ELSE NThreads]
    /\ pause' = FALSE /\ waiting' = IF pause THEN {} ELSE waiting
    /\ computed' = NothingComputed /\ aborted' = NNodes
    /\ UNCHANGED <<stop, barrierVars, chunk, workerVars, node>>

\* ggml_graph_compute, with ggml_graph_compute_kickoff: a paused pool is resumed.
Kickoff(n) ==
    /\ pc[0] = "idle" /\ n_graph.id < Graphs
    /\ current_chunk' = 0 /\ abort' = -1 /\ Goto(0, "compute")
    /\ n_graph' = [id |-> n_graph.id + 1, n |-> IF n < NThreads THEN n ELSE NThreads]
    /\ pause' = FALSE /\ waiting' = {}
    /\ computed' = NothingComputed /\ aborted' = NNodes
    /\ UNCHANGED <<stop, barrierVars, chunk, workerVars, node>>

\* ggml_threadpool_pause (when another pool takes over) and ggml_threadpool_resume
SetPause ==
    /\ pc[0] = "idle" /\ MayPause
    /\ pause' = ~pause /\ waiting' = {}
    /\ UNCHANGED <<n_graph, stop, barrierVars, workVars, workerVars, abort, aborted, pc, node>>

\* ggml_threadpool_free, up to the joins ...
Free ==
    /\ pc[0] = "idle" /\ Goto(0, "join")
    /\ stop' = TRUE /\ pause' = FALSE /\ waiting' = {}
    /\ UNCHANGED <<n_graph, barrierVars, workVars, workerVars, abort, aborted, node>>
\* ... and after them.
Join ==
    /\ pc[0] = "join" /\ \A w \in Worker : pc[w] = "exit"
    /\ Goto(0, "freed")
    /\ UNCHANGED <<poolVars, barrierVars, workVars, workerVars, abort, aborted, node>>

-----------------------------------------------------------------------------
(* The workers: ggml_graph_compute_secondary_thread                        *)

WorkerStays == UNCHANGED <<n_graph, stop, pause, barrierVars, workVars, abort, aborted, node>>

\* while (threadpool->pause), read without the mutex
Loop(w) ==
    /\ pc[w] = "loop" /\ Goto(w, IF pause THEN "paused" ELSE IF stop THEN "exit" ELSE "poll")
    /\ WorkerStays /\ UNCHANGED <<waiting, workerVars>>
Paused(w) ==
    /\ pc[w] = "paused" /\ w \notin waiting
    /\ IF pause THEN waiting' = waiting \cup {w} /\ UNCHANGED pc
       ELSE UNCHANGED waiting /\ Goto(w, "loop")
    /\ WorkerStays /\ UNCHANGED workerVars

\* ggml_graph_compute_thread_ready sees a new graph.
NewGraph(w) == n_graph # last_graph[w]
TakeGraph(w) ==
    /\ pending' = [pending EXCEPT ![w] = w < n_graph.n]
    /\ last_graph' = [last_graph EXCEPT ![w] = n_graph]

\* ggml_graph_compute_poll_for_work: stop and pause are read before n_graph, and after
\* some rounds it gives up.
Poll(w) ==
    /\ pc[w] = "poll" /\ Goto(w, IF stop \/ pause THEN "lock" ELSE "pollgraph")
    /\ WorkerStays /\ UNCHANGED <<waiting, workerVars>>
PollGraph(w) ==
    /\ pc[w] = "pollgraph"
    /\ IF NewGraph(w)
       THEN TakeGraph(w) /\ Goto(w, IF w < n_graph.n THEN "begin" ELSE "lock")
       ELSE UNCHANGED workerVars /\ \E next \in {"poll", "lock"} : Goto(w, next)
    /\ WorkerStays /\ UNCHANGED waiting

\* ggml_graph_compute_check_for_work, with the mutex: leaves, or sleeps and looks again.
Lock(w) ==
    /\ pc[w] = "lock" /\ w \notin waiting
    /\ \/ /\ stop \/ pause
          /\ Goto(w, "loop") /\ UNCHANGED <<waiting, workerVars>>
       \/ /\ ~stop /\ ~pause /\ NewGraph(w)
          /\ TakeGraph(w) /\ Goto(w, IF w < n_graph.n THEN "begin" ELSE "loop")
          /\ UNCHANGED waiting
       \/ /\ ~stop /\ ~pause /\ ~NewGraph(w)
          /\ waiting' = waiting \cup {w} /\ UNCHANGED <<pc, workerVars>>
    /\ WorkerStays

Begin(w) ==
    /\ pc[w] = "begin" /\ pending' = [pending EXCEPT ![w] = FALSE] /\ Goto(w, "compute")
    /\ WorkerStays /\ UNCHANGED <<waiting, last_graph>>

WorkerStep(w) == Loop(w) \/ Paused(w) \/ Poll(w) \/ PollGraph(w) \/ Lock(w) \/ Begin(w)

-----------------------------------------------------------------------------
(* ggml_graph_compute_thread, all active threads                           *)

Barrier(t, ret) == Goto(t, "enter") /\ back' = [back EXCEPT ![t] = ret]

Compute(t) ==
    /\ pc[t] = "compute" /\ Goto(t, "node") /\ node' = [node EXCEPT ![t] = 0]
    /\ UNCHANGED <<poolVars, barrierVars, workVars, workerVars, abort, aborted>>

\* The loop over the nodes: a node that computes nothing is passed over, without a barrier.
NodeLoop(t) ==
    /\ pc[t] = "node"
    /\ IF node[t] = NNodes \/ abort = node[t]
       THEN Barrier(t, IF t = 0 THEN "idle" ELSE "loop") /\ UNCHANGED node
       ELSE IF Work[node[t] + 1] = 0
       THEN node' = [node EXCEPT ![t] = @ + 1] /\ UNCHANGED <<pc, back>>
       ELSE Goto(t, "product") /\ UNCHANGED <<node, back>>
    /\ UNCHANGED <<poolVars, n_barrier, n_barrier_passed, n_passed, workVars, workerVars, abort, aborted>>

\* mutant: every thread starts the count of the chunks
ProductEach(t) ==
    /\ pc[t] = "product" /\ chunk' = [chunk EXCEPT ![t] = t]
    /\ current_chunk' = Nth
    /\ Goto(t, "chunk") /\ UNCHANGED back
    /\ UNCHANGED <<poolVars, n_barrier, n_barrier_passed, n_passed, computed, workerVars, abort, aborted, node>>
\* ggml_compute_forward_mul_mat: the first chunk comes from the id of the thread, the
\* rest from current_chunk.
Product(t) ==
    /\ pc[t] = "product" /\ chunk' = [chunk EXCEPT ![t] = t]
    /\ current_chunk' = IF t = 0 THEN Nth ELSE current_chunk
    /\ Barrier(t, "chunk")
    /\ UNCHANGED <<poolVars, n_barrier, n_barrier_passed, n_passed, computed, workerVars, abort, aborted, node>>
Counted(f, c) == [d \in DOMAIN f \cup {c} |-> (IF d \in DOMAIN f THEN f[d] ELSE 0) + (IF d = c THEN 1 ELSE 0)]
ComputeChunk(t) ==
    /\ pc[t] = "chunk"
    /\ IF chunk[t] < NChunks(node[t])
       THEN /\ computed' = [computed EXCEPT ![node[t]] = Counted(@, chunk[t])]
            /\ Goto(t, IF Nth >= NChunks(node[t]) THEN "after" ELSE "next")
       ELSE Goto(t, "after") /\ UNCHANGED computed
    /\ UNCHANGED <<poolVars, barrierVars, current_chunk, chunk, workerVars, abort, aborted, node>>
NextChunk(t) ==
    /\ pc[t] = "next" /\ Goto(t, "chunk")
    /\ chunk' = [chunk EXCEPT ![t] = current_chunk] /\ current_chunk' = current_chunk + 1
    /\ UNCHANGED <<poolVars, barrierVars, computed, workerVars, abort, aborted, node>>

\* mutant: the node just computed
AbortHere(t) == abort' = node[t]
\* abort_callback, called by thread 0
AbortNext(t) == abort' = node[t] + 1
\* After a node: abort, and the barrier unless this is the last node.
After(t) ==
    /\ pc[t] = "after"
    /\ \/ UNCHANGED <<abort, aborted>>
       \/ t = 0 /\ MayAbort /\ AbortNext(t) /\ aborted' = IF aborted = NNodes THEN node[t] ELSE aborted
    /\ IF node[t] + 1 < NNodes THEN Barrier(t, "advance") ELSE Goto(t, "advance") /\ UNCHANGED back
    /\ UNCHANGED <<poolVars, n_barrier, n_barrier_passed, n_passed, workVars, workerVars, node>>
Advance(t) ==
    /\ pc[t] = "advance" /\ Goto(t, "node") /\ node' = [node EXCEPT ![t] = @ + 1]
    /\ UNCHANGED <<poolVars, barrierVars, workVars, workerVars, abort, aborted>>

\* ggml_barrier
Enter(t) ==
    /\ pc[t] = "enter"
    /\ IF Nth = 1 THEN Goto(t, back[t]) /\ UNCHANGED n_passed
       ELSE Goto(t, "arrive") /\ n_passed' = [n_passed EXCEPT ![t] = n_barrier_passed]
    /\ UNCHANGED <<poolVars, n_barrier, n_barrier_passed, back, workVars, workerVars, abort, aborted, node>>
Arrive(t) ==
    /\ pc[t] = "arrive" /\ n_barrier' = n_barrier + 1
    /\ Goto(t, IF n_barrier = Nth - 1 THEN "reset" ELSE "spin")
    /\ UNCHANGED <<poolVars, n_barrier_passed, n_passed, back, workVars, workerVars, abort, aborted, node>>
Reset(t) ==
    /\ pc[t] = "reset" /\ n_barrier' = 0 /\ Goto(t, "release")
    /\ UNCHANGED <<poolVars, n_barrier_passed, n_passed, back, workVars, workerVars, abort, aborted, node>>
Release(t) ==
    /\ pc[t] = "release" /\ n_barrier_passed' = n_barrier_passed + 1 /\ Goto(t, back[t])
    /\ UNCHANGED <<poolVars, n_barrier, n_passed, back, workVars, workerVars, abort, aborted, node>>
Spin(t) ==
    /\ pc[t] = "spin" /\ n_barrier_passed # n_passed[t] /\ Goto(t, back[t])
    /\ UNCHANGED <<poolVars, barrierVars, workVars, workerVars, abort, aborted, node>>

ThreadStep(t) ==
    \/ Compute(t) \/ NodeLoop(t) \/ Product(t) \/ ComputeChunk(t) \/ NextChunk(t) \/ After(t)
    \/ Advance(t) \/ Enter(t) \/ Arrive(t) \/ Reset(t) \/ Release(t) \/ Spin(t)

-----------------------------------------------------------------------------

Next ==
    \/ \E n \in Active : Kickoff(n)
    \/ SetPause \/ Free \/ Join
    \/ \E w \in Worker : WorkerStep(w)
    \/ \E t \in Thread : ThreadStep(t)

\* Threads run; the owner computes, pauses and frees when it likes.
Fairness ==
    /\ WF_vars(Join)
    /\ \A w \in Worker : WF_vars(WorkerStep(w))
    /\ \A t \in Thread : WF_vars(ThreadStep(t))

Spec == Init /\ [][Next]_vars
FairSpec == Spec /\ Fairness

-----------------------------------------------------------------------------
(* Properties                                                              *)

ComputePC == {"compute", "node", "product", "chunk", "next", "after", "advance"}
BarrierPC == {"enter", "arrive", "reset", "release", "spin"}
InGraph(t) == pc[t] \in {"begin"} \cup ComputePC \cup BarrierPC

\* Types; a worker that is owed a graph has seen the latest one.
TypeOK ==
    /\ pc \in [Thread -> {"idle", "join", "freed", "loop", "paused", "poll", "pollgraph", "lock",
                          "begin", "exit"} \cup ComputePC \cup BarrierPC]
    /\ node \in [Thread -> 0 .. NNodes] /\ abort \in -1 .. NNodes
    /\ n_barrier \in 0 .. Nth
    /\ \A w \in Worker : (pending[w] <=> pc[w] = "begin") /\ (pending[w] => last_graph[w] = n_graph)

\* The result of a node is complete before any thread starts the next one, and no chunk
\* is computed twice (barriers at 1364 and 3116, current_chunk at 1361 and 1450).
Complete(n) == DOMAIN computed[n] = 0 .. NChunks(n) - 1
NodesInOrder ==
    /\ TypeOK
    /\ \A n \in Node :
          /\ \A c \in DOMAIN computed[n] : computed[n][c] = 1
          /\ computed[n] # NothingComputed[n] =>
                \A m \in 0 .. n - 1 : Work[m + 1] > 0 => Complete(m)

\* "No worker threads should be accessing the parameters below at this stage"
\* (ggml-cpu.c:3370): a worker may still be on its way out of the last barrier.
HasLeft(w) == ~InGraph(w) \/ (pc[w] = "spin" /\ n_barrier_passed # n_passed[w])

\* When the owner has its graph back, no worker has it any more, every node was computed
\* up to the one where it was aborted, and none after it.
GraphIsComputed ==
    /\ pc[0] \in {"idle", "join"} => \A w \in Worker : HasLeft(w)
    /\ pc[0] = "idle" /\ n_graph # NoGraph =>
          \A n \in Node : Work[n + 1] > 0 =>
             IF n <= aborted THEN Complete(n) ELSE computed[n] = NothingComputed[n]

\* A graph is computed to its end, and the pool can be freed: no wakeup is lost and no
\* thread is left behind in a barrier.
GraphsEnd == pc[0] \in ComputePC \cup BarrierPC ~> pc[0] = "idle"
FreeEnds == pc[0] = "join" ~> pc[0] = "freed"
PoolServes == GraphsEnd /\ FreeEnds

=============================================================================
