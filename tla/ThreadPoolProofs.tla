--------------------------- MODULE ThreadPoolProofs ---------------------------
(***************************************************************************)
(* Proofs about ThreadPool, for any number of threads, graphs and nodes:   *)
(* the barrier of two counters keeps all threads of a graph in one         *)
(* interval, and the chunks of a product are handed out once each.         *)
(***************************************************************************)
EXTENDS ThreadPool, FiniteSetTheorems, TLAPS

-----------------------------------------------------------------------------
(* The inductive invariant                                                 *)

Graph == [id : Nat, n : 0 .. NThreads]
Final(t) == IF t = 0 THEN "idle" ELSE "loop"
\* The threads that compute the graph.
Team == {t \in Thread : t < Nth}

\* At the barrier and counted, or through the barrier but not yet aware of it.
Waits(t) == pc[t] = "spin" /\ n_passed[t] = n_barrier_passed
Through(t) == pc[t] = "spin" /\ n_passed[t] # n_barrier_passed
AtBarrier(t) == pc[t] \in {"enter", "arrive", "reset", "release"} \/ Waits(t)
\* Has no part in a graph, or is on its way out of the last barrier.
Out(t) == ~InGraph(t) \/ (Through(t) /\ back[t] = Final(t))
Has(t) == t # 0 => last_graph[t] = n_graph

OutPC == {"idle", "join", "freed", "loop", "paused", "poll", "pollgraph", "lock", "exit"}
TypeInv ==
    /\ pc \in [Thread -> OutPC \cup {"begin"} \cup ComputePC \cup BarrierPC]
    /\ n_graph \in Graph /\ last_graph \in [Worker -> Graph] /\ pending \in [Worker -> BOOLEAN]
    /\ node \in [Thread -> 0 .. NNodes] /\ chunk \in [Thread -> Nat] /\ current_chunk \in Nat
    /\ n_barrier \in Nat /\ n_barrier_passed \in Nat /\ n_passed \in [Thread -> Nat]
    /\ back \in [Thread -> {"idle", "loop", "chunk", "advance"}]
    /\ abort \in -1 .. NNodes /\ aborted \in 0 .. NNodes
    /\ DOMAIN computed = Node
    /\ \A w \in Worker : (pending[w] <=> pc[w] = "begin") /\ last_graph[w].id <= n_graph.id

\* The barrier: who waits is counted, and the last to come has all others waiting.
Waiting == {t \in Thread : Waits(t)}
Last(t) == pc[t] \in {"reset", "release"}
BarrierInv ==
    /\ \A t \in Thread : n_passed[t] <= n_barrier_passed
    /\ \A t \in Thread : pc[t] = "arrive" => n_passed[t] = n_barrier_passed
    /\ Waiting \subseteq Team
    /\ \A t \in Thread : Last(t) => Waiting = Team \ {t}
    /\ \A t \in Thread : pc[t] = "reset" => n_barrier = Nth
    /\ \A t \in Thread : pc[t] = "release" => n_barrier = 0
    /\ (\A t \in Thread : ~Last(t)) => n_barrier = Cardinality(Waiting) /\ (Team # {} => Waiting # Team)

\* The nodes from k to j - 1 are passed over.
Skipped(k, j) == k <= j /\ \A i \in k .. j - 1 : Work[i + 1] = 0 /\ abort # i
ToCompute(t) == node[t] < NNodes /\ Work[node[t] + 1] > 0 /\ abort # node[t]
GraphEnds(t) == node[t] = NNodes \/ abort = node[t]

\* A thread of the team between the end of node k - 1 and the barrier in the next product,
\* or the last barrier: it may not have seen the graph yet.
InPre(t, k) ==
    \/ k = 0 /\ t # 0 /\ Out(t) /\ last_graph[t] # n_graph
    \/ k = 0 /\ Has(t) /\ pc[t] \in {"begin", "compute"}
    \/ k > 0 /\ Has(t) /\ node[t] = k - 1 /\ (pc[t] = "advance" \/ (Through(t) /\ back[t] = "advance"))
    \/ /\ Has(t) /\ Skipped(k, node[t])
       /\ \/ pc[t] = "node"
          \/ pc[t] = "product" /\ ToCompute(t)
          \/ AtBarrier(t) /\ back[t] = "chunk" /\ ToCompute(t)
          \/ AtBarrier(t) /\ back[t] = Final(t) /\ GraphEnds(t)
\* A thread of the team between the barriers in and after the product k, or after the
\* first of them if k is the last node.
InMid(t, k) ==
    \/ Has(t) /\ node[t] = k /\ pc[t] \in {"chunk", "next", "after"}
    \/ Has(t) /\ node[t] = k /\ Through(t) /\ back[t] = "chunk"
    \/ Has(t) /\ node[t] = k /\ k + 1 < NNodes /\ AtBarrier(t) /\ back[t] = "advance"
    \/ Has(t) /\ node[t] = k /\ k + 1 = NNodes /\ pc[t] = "advance"
    \/ Has(t) /\ node[t] = NNodes /\ k + 1 = NNodes /\ (pc[t] = "node" \/ (AtBarrier(t) /\ back[t] = Final(t)))

DoneBefore(k) == \A m \in Node : m < k /\ Work[m + 1] > 0 => Complete(m)
NothingFrom(k) == \A n \in Node : k <= n => computed[n] = NothingComputed[n]
AbortedBefore(k) == (abort = -1 /\ aborted = NNodes) \/ (k > 0 /\ abort = k /\ aborted = k - 1)

\* The chunks that were handed out are computed or in the hands of one thread.
Holds(t) == pc[t] = "chunk" \/ (Through(t) /\ back[t] = "chunk")
Past(t) == pc[t] # "next" /\ ~Holds(t)
ChunksInv(k) ==
    /\ Nth <= current_chunk
    /\ \A t \in Team : Holds(t) => chunk[t] < current_chunk /\ chunk[t] \notin DOMAIN computed[k]
    /\ \A t, u \in Team : Holds(t) /\ Holds(u) /\ chunk[t] = chunk[u] => t = u
    /\ \A c \in DOMAIN computed[k] : c \in 0 .. NChunks(k) - 1 /\ c < current_chunk
    /\ \A c \in 0 .. NChunks(k) - 1 : c < current_chunk =>
          c \in DOMAIN computed[k] \/ \E t \in Team : Holds(t) /\ chunk[t] = c
    /\ \A t \in Team : Past(t) => NChunks(k) <= current_chunk

TeamInPre(k) ==
    /\ Team # {} /\ \A t \in Team : InPre(t, k)
    /\ DoneBefore(k) /\ NothingFrom(k) /\ AbortedBefore(k)
    /\ \A t \in Team : AtBarrier(t) /\ back[t] = "chunk" =>
          chunk[t] = t /\ (t = 0 => current_chunk = Nth)
TeamInMid(k) ==
    /\ Team # {} /\ \A t \in Team : InMid(t, k)
    /\ Work[k + 1] > 0 /\ DoneBefore(k) /\ NothingFrom(k + 1)
    /\ (abort = -1 /\ aborted = NNodes) \/ (abort = k + 1 /\ aborted = k)
    /\ ChunksInv(k)
TeamIsDone ==
    /\ \A t \in Team : Out(t) /\ Has(t)
    /\ \A n \in Node : computed[n] # NothingComputed[n] => DoneBefore(n)
    /\ n_graph # NoGraph => \A n \in Node : Work[n + 1] > 0 =>
          IF n <= aborted THEN Complete(n) ELSE computed[n] = NothingComputed[n]

\* All threads of the team are in the same interval, and the others have left.
TeamInv ==
    /\ \A t \in Thread \ Team : Out(t)
    /\ \A n \in Node : \A c \in DOMAIN computed[n] : computed[n][c] = 1
    /\ \/ \E k \in 0 .. NNodes : TeamInPre(k)
       \/ \E k \in Node : TeamInMid(k)
       \/ TeamIsDone

Inv == TypeInv /\ BarrierInv /\ TeamInv

-----------------------------------------------------------------------------
(* Facts about the constants and the team                                  *)

\* Threads and nodes are numbers, the owner is thread 0.
LEMMA Constants ==
    /\ NThreads \in Nat /\ NThreads > 0 /\ NNodes \in Nat /\ Thread \subseteq Nat /\ 0 \in Thread
    /\ Worker \subseteq Thread
    /\ \A n \in Node : n \in 0 .. NNodes /\ Work[n + 1] \in Nat
<1>1. Work \in Seq(Nat) /\ Len(Work) \in Nat /\ \A i \in 1 .. Len(Work) : Work[i] \in Nat
  BY PoolAssumption
<1> QED
  BY <1>1, PoolAssumption DEF Thread, Worker, Node, NNodes

\* There are as many threads in the team as the graph asks for.
LEMMA TeamSize ==
    ASSUME TypeInv
    PROVE  /\ Nth \in Nat /\ IsFiniteSet(Team) /\ Cardinality(Team) = Nth
           /\ (Team # {} => 0 \in Team) /\ Team \subseteq Thread
<1>1. Nth \in Nat /\ Nth <= NThreads
  BY Constants DEF TypeInv, Graph, Nth
<1>2. Team = 0 .. Nth - 1
  BY <1>1, Constants DEF Team, Thread
<1>3. IsFiniteSet(0 .. Nth - 1) /\ Cardinality(0 .. Nth - 1) = Nth
  BY <1>1, FS_Interval
<1>4. Team # {} => 0 \in Team
  BY <1>1, <1>2
<1>5. Team \subseteq Thread
  BY DEF Team
<1> QED
  BY <1>1, <1>2, <1>3, <1>4, <1>5

\* A node has a number of chunks.
LEMMA ChunksType ==
    ASSUME TypeInv, NEW n \in Node
    PROVE  NChunks(n) \in Nat
<1>1. Nth \in Nat /\ Work[n + 1] \in Nat
  BY TeamSize, Constants
<1> QED
  BY <1>1 DEF NChunks

-----------------------------------------------------------------------------
(* What a step of a thread leaves to the others                            *)

\* The position of a thread depends on its own variables, the count of graphs and the
\* count of barriers passed; before a product, on abort as well.
LEMMA PositionKept ==
    ASSUME NEW u \in Thread, UNCHANGED <<n_graph, n_barrier_passed>>,
           pc'[u] = pc[u], node'[u] = node[u], back'[u] = back[u], n_passed'[u] = n_passed[u],
           u # 0 => last_graph'[u] = last_graph[u]
    PROVE  /\ Out(u)' <=> Out(u)
           /\ Has(u)' <=> Has(u)
           /\ Holds(u)' <=> Holds(u)
           /\ Past(u)' <=> Past(u)
           /\ AtBarrier(u)' <=> AtBarrier(u)
           /\ \A k : InMid(u, k)' <=> InMid(u, k)
           /\ abort' = abort => \A k : InPre(u, k)' <=> InPre(u, k)
<1>1. Through(u)' <=> Through(u)
  BY DEF Through
<1>2. AtBarrier(u)' <=> AtBarrier(u)
  BY DEF AtBarrier, Waits
<1>3. Out(u)' <=> Out(u)
  BY <1>1 DEF Out, InGraph, Final
<1>4. Has(u)' <=> Has(u)
  BY DEF Has
<1>5. (Holds(u)' <=> Holds(u)) /\ (Past(u)' <=> Past(u))
  BY <1>1 DEF Holds, Past
<1>6. \A k : InMid(u, k)' <=> InMid(u, k)
  BY <1>1, <1>2, <1>4 DEF InMid, Final
<1>7. ASSUME abort' = abort, NEW k PROVE InPre(u, k)' <=> InPre(u, k)
  <2>1. Skipped(k, node[u])' <=> Skipped(k, node[u])
    BY <1>7 DEF Skipped
  <2>2. (ToCompute(u)' <=> ToCompute(u)) /\ (GraphEnds(u)' <=> GraphEnds(u))
    BY <1>7 DEF ToCompute, GraphEnds
  <2> QED
    BY <1>1, <1>2, <1>3, <1>4, <2>1, <2>2 DEF InPre, Final
<1> QED
  BY <1>2, <1>3, <1>4, <1>5, <1>6, <1>7

\* What was computed is judged by n_graph and computed.
LEMMA WorkKept ==
    ASSUME UNCHANGED <<n_graph, computed>>
    PROVE  /\ Team' = Team
           /\ \A n : Complete(n)' <=> Complete(n)
           /\ \A k : (DoneBefore(k)' <=> DoneBefore(k)) /\ (NothingFrom(k)' <=> NothingFrom(k))
<1>1. Team' = Team
  BY DEF Team, Nth
<1>2. \A n : Complete(n)' <=> Complete(n)
  BY DEF Complete, NChunks, Nth
<1> QED
  BY <1>1, <1>2 DEF DoneBefore, NothingFrom

\* Steps away from the counting of the barrier leave it alone.
LEMMA BarrierKept ==
    ASSUME TypeInv, BarrierInv, UNCHANGED <<n_graph, n_barrier, n_barrier_passed, n_passed>>,
           \A u \in Thread : \/ pc'[u] = pc[u]
                             \/ /\ pc'[u] \notin {"arrive", "spin", "reset", "release"}
                                /\ ~Waits(u) /\ ~Last(u)
    PROVE  BarrierInv'
<1>1. Team' = Team
  BY DEF Team, Nth
<1>2. \A u \in Thread : (Waits(u)' <=> Waits(u)) /\ (Last(u)' <=> Last(u))
  BY DEF Waits, Last
<1>3. Waiting' = Waiting
  BY <1>2 DEF Waiting
<1>4. Nth' = Nth
  BY DEF Nth
<1>5. \A u \in Thread : pc'[u] \in {"arrive", "reset", "release"} => pc'[u] = pc[u]
  OBVIOUS
<1> QED
  BY <1>1, <1>2, <1>3, <1>4, <1>5 DEF BarrierInv

-----------------------------------------------------------------------------
(* Steps within an interval                                                *)

OthersStay(t) == \A u \in Thread \ {t} :
    /\ pc'[u] = pc[u] /\ node'[u] = node[u] /\ back'[u] = back[u] /\ n_passed'[u] = n_passed[u]
    /\ chunk'[u] = chunk[u] /\ (u # 0 => last_graph'[u] = last_graph[u])
EachOnce == \A n \in Node : \A c \in DOMAIN computed[n] : computed[n][c] = 1
AbortedAt(k) == (abort = -1 /\ aborted = NNodes) \/ (abort = k + 1 /\ aborted = k)

\* A thread moves on before the product.
LEMMA PreStep ==
    ASSUME Inv, NEW k \in 0 .. NNodes, TeamInPre(k), NEW t \in Team,
           UNCHANGED <<n_graph, n_barrier_passed, abort, aborted, computed>>, OthersStay(t),
           InPre(t, k)', t = 0 \/ current_chunk' = current_chunk,
           AtBarrier(t)' /\ back'[t] = "chunk" => chunk'[t] = t /\ (t = 0 => current_chunk' = Nth)
    PROVE  TeamInv'
<1>1. t \in Thread /\ Team' = Team /\ Nth' = Nth
  BY WorkKept DEF Team, Nth
<1>2. \A u \in Thread \ {t} : /\ Out(u)' <=> Out(u)
                              /\ AtBarrier(u)' <=> AtBarrier(u)
                              /\ InPre(u, k)' <=> InPre(u, k)
  BY PositionKept DEF OthersStay
<1>3. \A u \in Thread \ Team : Out(u)'
  BY <1>1, <1>2 DEF Inv, TeamInv
<1>4. (\A n \in Node : \A c \in DOMAIN computed[n] : computed[n][c] = 1)'
  BY DEF Inv, TeamInv
<1>5. \A u \in Team : InPre(u, k)'
  BY <1>1, <1>2 DEF TeamInPre, Team
<1>6. DoneBefore(k)' /\ NothingFrom(k)' /\ AbortedBefore(k)'
  BY WorkKept DEF TeamInPre, AbortedBefore
<1>7. ASSUME NEW u \in Team, AtBarrier(u)', back'[u] = "chunk"
      PROVE  chunk'[u] = u /\ (u = 0 => current_chunk' = Nth)
  <2>1. CASE u = t
    BY <1>7, <2>1
  <2>2. CASE u # t
    <3>1. u \in Thread \ {t}
      BY <2>2 DEF Team
    <3>2. AtBarrier(u) /\ back[u] = "chunk" /\ chunk'[u] = chunk[u]
      BY <1>2, <1>7, <3>1 DEF OthersStay
    <3>3. u = 0 => current_chunk' = current_chunk
      BY <2>2
    <3> QED
      BY <3>2, <3>3 DEF TeamInPre
  <2> QED
    BY <2>1, <2>2
<1>8. TeamInPre(k)'
  BY <1>1, <1>5, <1>6, <1>7 DEF TeamInPre
<1> QED
  BY <1>1, <1>3, <1>4, <1>8 DEF TeamInv

\* A thread moves on between the barriers of a product.
LEMMA MidStep ==
    ASSUME Inv, NEW k \in Node, TeamInMid(k), NEW t \in Team,
           UNCHANGED <<n_graph, n_barrier_passed>>, OthersStay(t),
           InMid(t, k)', DoneBefore(k)', NothingFrom(k + 1)', AbortedAt(k)', ChunksInv(k)', EachOnce'
    PROVE  TeamInv'
<1>1. t \in Thread /\ Team' = Team
  BY DEF Team, Nth
<1>2. \A u \in Thread \ {t} : (Out(u)' <=> Out(u)) /\ (InMid(u, k)' <=> InMid(u, k))
  BY PositionKept DEF OthersStay
<1>3. \A u \in Thread \ Team : Out(u)'
  BY <1>1, <1>2 DEF Inv, TeamInv
<1>4. \A u \in Team : InMid(u, k)'
  BY <1>1, <1>2 DEF TeamInMid, Team
<1>5. TeamInMid(k)'
  BY <1>1, <1>4 DEF TeamInMid, AbortedAt
<1> QED
  BY <1>1, <1>3, <1>5 DEF TeamInv, EachOnce

\* A step that neither takes nor computes a chunk.
LEMMA MidMove ==
    ASSUME Inv, NEW k \in Node, TeamInMid(k), NEW t \in Team,
           UNCHANGED <<n_graph, n_barrier_passed, current_chunk, computed>>, OthersStay(t),
           chunk'[t] = chunk[t], InMid(t, k)', AbortedAt(k)', Holds(t)' <=> Holds(t),
           Past(t)' => Past(t)
    PROVE  TeamInv'
<1>1. Team' = Team /\ Team \subseteq Thread /\ Nth' = Nth /\ NChunks(k)' = NChunks(k)
  BY DEF Team, Nth, NChunks
<1>2. \A u \in Thread \ {t} : (Holds(u)' <=> Holds(u)) /\ (Past(u)' <=> Past(u))
  BY PositionKept DEF OthersStay
<1>3. \A u \in Team : /\ Holds(u)' <=> Holds(u)
                      /\ Past(u)' => Past(u)
                      /\ chunk'[u] = chunk[u]
  BY <1>1, <1>2 DEF OthersStay
<1>4. ChunksInv(k)
  BY DEF TeamInMid
<1>5. ChunksInv(k)'
  BY <1>1, <1>3, <1>4 DEF ChunksInv
<1>6. DoneBefore(k)' /\ NothingFrom(k + 1)'
  BY WorkKept DEF TeamInMid
<1>7. EachOnce'
  BY DEF Inv, TeamInv, EachOnce
<1> QED
  BY <1>5, <1>6, <1>7, MidStep

-----------------------------------------------------------------------------
(* The end of an interval                                                  *)

\* All threads of the team go on from the barrier, or may.
TeamGoes ==
    /\ \A u \in Team : AtBarrier(u)
    /\ \A u \in Team : /\ node'[u] = node[u] /\ back'[u] = back[u] /\ chunk'[u] = chunk[u]
                       /\ u # 0 => last_graph'[u] = last_graph[u]
                       /\ pc'[u] = back[u] \/ Through(u)'
    /\ \A u \in Thread \ Team : Out(u)'
    /\ UNCHANGED <<n_graph, abort, aborted, computed, current_chunk>>

\* Before a product all have come to the same node, or to the end of the graph.
LEMMA PreAgrees ==
    ASSUME Inv, NEW k \in 0 .. NNodes, TeamInPre(k), NEW u \in Team, AtBarrier(u)
    PROVE  /\ Has(u) /\ Skipped(k, node[u])
           /\ \/ back[u] = "chunk" /\ ToCompute(u)
              \/ back[u] = Final(u) /\ GraphEnds(u)
<1>1. InPre(u, k)
  BY DEF TeamInPre
<1>2. pc[u] \notin {"begin", "compute", "advance", "node", "product"} /\ InGraph(u) /\ ~Through(u)
  BY DEF AtBarrier, Waits, Through, InGraph, BarrierPC
<1> QED
  BY <1>1, <1>2 DEF InPre, Out

\* The barrier before node k opens: the team is at work on it.
LEMMA PreEnds ==
    ASSUME Inv, NEW k \in 0 .. NNodes, TeamInPre(k), TeamGoes
    PROVE  TeamInv'
<1>1. TypeInv /\ 0 \in Team /\ Team \subseteq Thread /\ Team' = Team /\ Nth' = Nth /\ Nth \in Nat
  BY TeamSize, WorkKept DEF Inv, TeamInPre, TeamGoes, Nth
<1>2. \A u \in Team : /\ Has(u) /\ Skipped(k, node[u])
                      /\ \/ back[u] = "chunk" /\ ToCompute(u)
                         \/ back[u] = Final(u) /\ GraphEnds(u)
  BY PreAgrees DEF TeamGoes
<1>3. \A u \in Team : node[u] \in 0 .. NNodes
  BY <1>1 DEF TypeInv
<1>4. AbortedBefore(k) /\ DoneBefore(k) /\ NothingFrom(k)
  BY DEF TeamInPre
<1>5. \A n \in Node : \A c \in DOMAIN computed[n] : computed[n][c] = 1
  BY DEF Inv, TeamInv
<1>6. \A u \in Team : Has(u)'
  BY <1>2 DEF Has, TeamGoes
<1>7. CASE back[0] = "chunk"
  <2>0. Skipped(k, node[0]) /\ ToCompute(0) /\ node[0] \in Node
    BY <1>1, <1>2, <1>3, <1>7, Constants DEF Final, ToCompute, Node
  <2> PICK j \in Node : j = node[0]
    BY <2>0
  <2>1. /\ Skipped(k, j) /\ ToCompute(0) /\ k <= j /\ k \in Int /\ j \in Int
        /\ j < NNodes /\ Work[j + 1] > 0 /\ abort # j
    BY <2>0, Constants DEF Node, Skipped, ToCompute
  <2>2. abort = -1 /\ aborted = NNodes
    BY <1>4, <2>1 DEF AbortedBefore, Skipped, ToCompute
  <2>3. ASSUME NEW u \in Team PROVE back[u] = "chunk" /\ node[u] = j
    <3>1. node[u] \in Int /\ Skipped(k, node[u]) /\ NNodes \in Int
      BY <1>2, <1>3, Constants
    <3>2. ~GraphEnds(u)
      <4>1. node[u] # NNodes
        <5>1. j \in k .. NNodes - 1 /\ Work[j + 1] > 0
          BY <2>1, <3>1, Constants DEF ToCompute
        <5>2. Work[j + 1] \in Nat
          BY <2>1, Constants
        <5> QED
          BY <3>1, <5>1, <5>2 DEF Skipped
      <4>2. abort # node[u]
        BY <1>3, <2>2
      <4> QED
        BY <4>1, <4>2 DEF GraphEnds
    <3>3. back[u] = "chunk" /\ ToCompute(u)
      BY <1>2, <3>2
    <3>4. Work[node[u] + 1] \in Nat /\ Work[j + 1] \in Nat
      <4>1. node[u] \in Node
        BY <1>3, <3>3, Constants DEF ToCompute, Node
      <4> QED
        BY <2>1, <4>1, Constants
    <3>5. ~(node[u] < j)
      BY <2>1, <3>1, <3>3, <3>4 DEF Skipped, ToCompute
    <3>6. ~(j < node[u])
      BY <2>1, <3>1, <3>3, <3>4 DEF Skipped, ToCompute
    <3> QED
      BY <2>1, <3>1, <3>3, <3>5, <3>6
  <2>4. \A u \in Team : pc'[u] = "chunk" \/ (Through(u)' /\ back'[u] = "chunk")
    BY <2>3 DEF TeamGoes
  <2>5. \A u \in Team : Holds(u)' /\ InMid(u, j)'
    BY <1>6, <2>3, <2>4 DEF Holds, InMid, TeamGoes
  <2>6. DoneBefore(j)' /\ NothingFrom(j + 1)'
    <3>1. ASSUME NEW m \in Node, m < j, Work[m + 1] > 0 PROVE Complete(m)
      <4>1. m < k
        BY <2>1, <3>1, Constants DEF Skipped, Node
      <4> QED
        BY <1>4, <3>1, <4>1 DEF DoneBefore
    <3>2. DoneBefore(j) /\ NothingFrom(j + 1)
      BY <1>4, <2>1, <3>1, Constants DEF DoneBefore, NothingFrom, Node
    <3> QED
      BY <3>2, WorkKept DEF TeamGoes
  <2>7. ChunksInv(j)'
    <3>1. \A u \in Team : chunk'[u] = u
      BY <2>3 DEF TeamGoes, TeamInPre
    <3>2. current_chunk' = Nth
      BY <1>1, <1>7 DEF TeamGoes, TeamInPre
    <3>3. DOMAIN computed'[j] = {}
      BY <1>4, <2>1 DEF TeamGoes, NothingFrom, NothingComputed
    <3>4. \A u \in Team : ~Past(u)'
      BY <2>5 DEF Past
    <3>5. \A u \in Team : u \in Nat /\ u < Nth
      BY Constants DEF Team
    <3>6. \A c \in 0 .. NChunks(j)' - 1 : c < Nth => c \in Team
      BY <1>1, Constants DEF Team, TypeInv, Graph, Nth, Thread
    <3> QED
      BY <1>1, <2>5, <3>1, <3>2, <3>3, <3>4, <3>5, <3>6 DEF ChunksInv
  <2>8. TeamInMid(j)'
    BY <1>1, <2>1, <2>2, <2>5, <2>6, <2>7 DEF TeamInMid, TeamGoes, ToCompute
  <2> QED
    BY <1>1, <1>5, <2>1, <2>8 DEF TeamInv, TeamGoes
<1>8. CASE back[0] # "chunk"
  <2>1. Skipped(k, node[0]) /\ GraphEnds(0) /\ node[0] \in Int /\ k \in Int /\ NNodes \in Nat
    BY <1>1, <1>2, <1>3, <1>8, Constants
  <2>2. \/ abort = k /\ aborted = k - 1 /\ k > 0
        \/ aborted = NNodes /\ Skipped(k, NNodes)
    BY <1>3, <1>1, <1>4, <2>1 DEF AbortedBefore, GraphEnds
  <2>3. ASSUME NEW u \in Team PROVE back[u] = Final(u)
    <3>1. CASE u = 0
      BY <1>1, <1>2, <1>8, <3>1
    <3>2. ASSUME back[u] = "chunk" PROVE FALSE
      <4>1. ToCompute(u) /\ Skipped(k, node[u]) /\ node[u] \in Node
        BY <1>2, <1>3, <3>2, Constants DEF Final, ToCompute, Node
      <4>2. Work[node[u] + 1] \in Nat
        BY <4>1, Constants
      <4>3. abort # k
        BY <2>1, <4>1, <1>3 DEF ToCompute, Skipped
      <4>4. Skipped(k, NNodes)
        BY <2>2, <4>3
      <4> QED
        BY <2>1, <4>1, <4>2, <4>4 DEF ToCompute, Skipped, Node
    <3> QED
      BY <1>2, <3>2
  <2>4. \A u \in Team : Out(u)'
    BY <2>3 DEF TeamGoes, Out, InGraph, Final, ComputePC, BarrierPC
  <2>5. ASSUME NEW n \in Node, computed[n] # NothingComputed[n] PROVE DoneBefore(n)
    BY <1>4, <2>1, <2>5, Constants DEF NothingFrom, DoneBefore, Node
  <2>6. ASSUME NEW n \in Node, Work[n + 1] > 0
        PROVE  IF n <= aborted THEN Complete(n) ELSE computed[n] = NothingComputed[n]
    <3>1. n \in Int /\ n < NNodes /\ Work[n + 1] \in Nat /\ n >= 0
      BY <2>1, Constants DEF Node
    <3>2. CASE abort = k /\ aborted = k - 1 /\ k > 0
      BY <1>4, <2>1, <2>6, <3>1, <3>2 DEF DoneBefore, NothingFrom
    <3>3. CASE aborted = NNodes /\ Skipped(k, NNodes)
      BY <1>4, <2>1, <2>6, <3>1, <3>3 DEF DoneBefore, Skipped
    <3> QED
      BY <2>2, <3>2, <3>3
  <2>7. TeamIsDone'
    <3>1. (\A n \in Node : computed[n] # NothingComputed[n] => DoneBefore(n))'
      BY <2>5, WorkKept DEF TeamGoes
    <3>2. (\A n \in Node : Work[n + 1] > 0 =>
              IF n <= aborted THEN Complete(n) ELSE computed[n] = NothingComputed[n])'
      BY <2>6, WorkKept DEF TeamGoes
    <3> QED
      BY <1>1, <1>6, <2>4, <3>1, <3>2 DEF TeamIsDone
  <2> QED
    BY <1>1, <1>5, <2>7 DEF TeamInv, TeamGoes
<1> QED
  BY <1>7, <1>8
\* When all have come to the barrier after a product, no chunk is missing.
LEMMA ProductIsComplete ==
    ASSUME Inv, NEW k \in Node, TeamInMid(k), \A u \in Team : AtBarrier(u)
    PROVE  Complete(k) /\ DoneBefore(k + 1)
<1>1. TypeInv /\ 0 \in Team /\ NChunks(k) \in Nat
  BY TeamSize, ChunksType DEF Inv, TeamInMid
<1>2. \A u \in Team : ~Holds(u) /\ Past(u)
  BY DEF AtBarrier, Waits, Through, Holds, Past
<1>3. NChunks(k) <= current_chunk /\ current_chunk \in Nat
  BY <1>1, <1>2 DEF TeamInMid, ChunksInv, TypeInv
<1>4. \A c \in 0 .. NChunks(k) - 1 : c \in DOMAIN computed[k]
  BY <1>1, <1>2, <1>3 DEF TeamInMid, ChunksInv
<1>5. DOMAIN computed[k] \subseteq 0 .. NChunks(k) - 1
  BY DEF TeamInMid, ChunksInv
<1>6. Complete(k)
  BY <1>4, <1>5 DEF Complete
<1>7. ASSUME NEW m \in Node, m < k + 1, Work[m + 1] > 0 PROVE Complete(m)
  <2>1. m < k \/ m = k
    BY <1>7, Constants DEF Node
  <2> QED
    BY <1>6, <1>7, <2>1 DEF TeamInMid, DoneBefore
<1> QED
  BY <1>6, <1>7 DEF DoneBefore

\* The barrier inside node k opens: its chunk counter is set.
LEMMA MidEnds ==
    ASSUME Inv, NEW k \in Node, TeamInMid(k), TeamGoes
    PROVE  TeamInv'
<1>1. TypeInv /\ 0 \in Team /\ Team' = Team
  BY TeamSize, WorkKept DEF Inv, TeamInMid, TeamGoes
<1>2. /\ k \in Nat /\ k < NNodes /\ NNodes \in Nat /\ k + 1 \in 0 .. NNodes
      /\ Complete(k) /\ DoneBefore(k + 1) /\ NothingFrom(k + 1) /\ Work[k + 1] > 0
  BY ProductIsComplete, Constants DEF Node, TeamGoes, TeamInMid
<1>3. \A n \in Node : \A c \in DOMAIN computed[n] : computed[n][c] = 1
  BY DEF Inv, TeamInv
<1>4. ASSUME NEW u \in Team
      PROVE  /\ Has(u)
             /\ \/ k + 1 < NNodes /\ node[u] = k /\ back[u] = "advance"
                \/ k + 1 = NNodes /\ back[u] = Final(u)
  <2>1. AtBarrier(u) /\ InMid(u, k)
    BY DEF TeamGoes, TeamInMid
  <2>2. pc[u] \notin {"chunk", "next", "after", "advance", "node"} /\ ~Through(u)
    BY <2>1 DEF AtBarrier, Waits, Through
  <2> QED
    BY <2>1, <2>2 DEF InMid
<1>5. \A u \in Team : Has(u)'
  BY <1>4 DEF Has, TeamGoes
<1>6. CASE k + 1 < NNodes
  <2>1. \A u \in Team : node[u] = k /\ back[u] = "advance"
    BY <1>2, <1>4, <1>6
  <2>2. \A u \in Team : InPre(u, k + 1)'
    BY <1>2, <1>5, <2>1 DEF InPre, TeamGoes
  <2>3. \A u \in Team : back'[u] # "chunk"
    BY <2>1 DEF TeamGoes
  <2>4. AbortedBefore(k + 1)'
    BY <1>2 DEF TeamInMid, AbortedBefore, TeamGoes
  <2>5. DoneBefore(k + 1)' /\ NothingFrom(k + 1)'
    BY <1>2, WorkKept DEF TeamGoes
  <2>6. TeamInPre(k + 1)'
    BY <1>1, <2>2, <2>3, <2>4, <2>5 DEF TeamInPre
  <2> QED
    BY <1>1, <1>2, <1>3, <2>6 DEF TeamInv, TeamGoes
<1>7. CASE k + 1 = NNodes
  <2>1. \A u \in Team : Out(u)'
    BY <1>2, <1>4, <1>7 DEF TeamGoes, Out, InGraph, Final, ComputePC, BarrierPC
  <2>2. ASSUME NEW n \in Node PROVE DoneBefore(n) /\ (Work[n + 1] > 0 => Complete(n)) /\ n <= aborted
    <3>1. n \in Int /\ n < k + 1
      BY <1>7, Constants DEF Node
    <3> QED
      BY <1>2, <1>7, <3>1 DEF DoneBefore, Node, TeamInMid
  <2>3. /\ (\A n \in Node : computed[n] # NothingComputed[n] => DoneBefore(n))'
        /\ (\A n \in Node : Work[n + 1] > 0 =>
               IF n <= aborted THEN Complete(n) ELSE computed[n] = NothingComputed[n])'
    BY <2>2, WorkKept DEF TeamGoes
  <2>4. TeamIsDone'
    BY <1>1, <1>5, <2>1, <2>3 DEF TeamIsDone
  <2> QED
    BY <1>1, <1>3, <2>4 DEF TeamInv, TeamGoes
<1> QED
  BY <1>2, <1>6, <1>7

\* The end of an interval is the start of the next one.
LEMMA IntervalEnds ==
    ASSUME Inv, Team # {}, TeamGoes
    PROVE  TeamInv'
<1>1. ASSUME TeamIsDone PROVE FALSE
  <2>1. 0 \in Team
    BY TeamSize DEF Inv
  <2>2. AtBarrier(0) /\ Out(0)
    BY <1>1, <2>1 DEF TeamGoes, TeamIsDone
  <2> QED
    BY <2>2 DEF AtBarrier, Waits, Out, Through, InGraph, BarrierPC
<1> QED
  BY <1>1, PreEnds, MidEnds DEF Inv, TeamInv

-----------------------------------------------------------------------------
(* The steps of Next                                                       *)

\* The invariant holds for a pool just created.
LEMMA InitInv == Init => Inv
<1> SUFFICES ASSUME Init PROVE Inv
  OBVIOUS
<1>1. n_graph = NoGraph /\ Nth = 0 /\ Team = {} /\ NoGraph \in Graph
  <2>1. n_graph = NoGraph /\ Nth = 0
    BY DEF Init, Nth, NoGraph
  <2>2. \A t \in Thread : ~(t < 0)
    BY Constants
  <2>3. NoGraph \in Graph
    BY Constants DEF NoGraph, Graph
  <2> QED
    BY <2>1, <2>2, <2>3 DEF Team
<1>2. TypeInv
  BY <1>1, Constants DEF Init, TypeInv, OutPC, NothingComputed, ComputePC, BarrierPC, Graph
<1>3. BarrierInv
  <2>1. \A t \in Thread : pc[t] \in {"idle", "loop"} /\ n_passed[t] = 0
    BY DEF Init
  <2>2. Waiting = {}
    BY <2>1 DEF Waiting, Waits
  <2>3. Cardinality({}) = 0
    BY FS_EmptySet
  <2> QED
    BY <1>1, <2>1, <2>2, <2>3 DEF BarrierInv, Last, Init
<1>4. TeamInv
  <2>1. \A t \in Thread : Out(t)
    BY DEF Init, Out, InGraph, ComputePC, BarrierPC
  <2>2. \A n \in Node : computed[n] = NothingComputed[n] /\ DOMAIN computed[n] = {}
    BY DEF Init, NothingComputed
  <2>3. TeamIsDone
    BY <1>1, <2>2 DEF TeamIsDone
  <2> QED
    BY <2>1, <2>2, <2>3 DEF TeamInv
<1> QED
  BY <1>2, <1>3, <1>4 DEF Inv

\* A thread that has no part in the graph, or is leaving the last barrier, moves on.
LEMMA OutStep ==
    ASSUME Inv, NEW t \in Thread, Out(t), Out(t)', OthersStay(t), chunk'[t] = chunk[t],
           UNCHANGED <<n_graph, n_barrier_passed, abort, aborted, computed, current_chunk>>,
           t \in Team /\ t # 0 => last_graph'[t] = last_graph[t]
    PROVE  TeamInv'
<1>1. Team' = Team /\ Nth' = Nth
  BY DEF Team, Nth
<1>2. \A u \in Thread \ {t} : /\ Out(u)' <=> Out(u)
                              /\ Has(u)' <=> Has(u)
  BY PositionKept DEF OthersStay
<1>3. \A u \in Thread \ Team : Out(u)'
  BY <1>2 DEF Inv, TeamInv
<1>4. (\A n \in Node : \A c \in DOMAIN computed[n] : computed[n][c] = 1)'
  BY DEF Inv, TeamInv
<1>5. CASE t \in Team
  <2>1. ~AtBarrier(t)' /\ (Has(t)' <=> Has(t))
    BY <1>5 DEF Out, InGraph, AtBarrier, Waits, Through, BarrierPC, Has
  <2>2. ASSUME NEW k \in 0 .. NNodes, TeamInPre(k) PROVE TeamInv'
    <3>1. InPre(t, k) /\ ~AtBarrier(t)
      BY <1>5, <2>2 DEF TeamInPre, Out, InGraph, AtBarrier, Waits, Through, BarrierPC
    <3>2. k = 0 /\ t # 0 /\ last_graph[t] # n_graph
      BY <3>1 DEF InPre, Out, InGraph, Through, ComputePC, BarrierPC, Final
    <3>3. InPre(t, k)'
      BY <1>5, <3>2 DEF InPre
    <3> QED
      BY <1>5, <2>1, <2>2, <3>3, PreStep
  <2>3. ASSUME NEW k \in Node, TeamInMid(k) PROVE FALSE
    BY <1>5, <2>3 DEF TeamInMid, InMid, Out, InGraph, Through, AtBarrier, Waits, ComputePC,
                      BarrierPC, Final
  <2>4. ASSUME TeamIsDone PROVE TeamIsDone'
    <3>1. \A u \in Team : Out(u)' /\ Has(u)'
      BY <1>2, <2>1, <2>4 DEF TeamIsDone, Team
    <3> QED
      BY <1>1, <2>4, <3>1, WorkKept DEF TeamIsDone
  <2> QED
    BY <1>1, <1>3, <1>4, <2>2, <2>3, <2>4 DEF Inv, TeamInv
<1>6. CASE t \notin Team
  <2>1. \A u \in Team : u \in Thread \ {t} /\ chunk'[u] = chunk[u]
    BY <1>6 DEF Team, OthersStay
  <2>2. \A u \in Team : /\ Has(u)' <=> Has(u)
                        /\ Out(u)' <=> Out(u)
                        /\ Holds(u)' <=> Holds(u)
                        /\ Past(u)' <=> Past(u)
                        /\ AtBarrier(u)' <=> AtBarrier(u)
                        /\ \A k : InMid(u, k)' <=> InMid(u, k)
                        /\ \A k : InPre(u, k)' <=> InPre(u, k)
                        /\ back'[u] = back[u]
    BY <2>1, PositionKept DEF OthersStay
  <2>3. ASSUME NEW k \in 0 .. NNodes, TeamInPre(k) PROVE TeamInPre(k)'
    <3>1. DoneBefore(k)' /\ NothingFrom(k)' /\ AbortedBefore(k)'
      BY <2>3, WorkKept DEF TeamInPre, AbortedBefore
    <3> QED
      BY <1>1, <2>1, <2>2, <2>3, <3>1 DEF TeamInPre
  <2>4. ASSUME NEW k \in Node, TeamInMid(k) PROVE TeamInMid(k)'
    <3>1. DoneBefore(k)' /\ NothingFrom(k + 1)' /\ NChunks(k)' = NChunks(k)
      BY <2>4, WorkKept DEF TeamInMid, NChunks, Nth
    <3>2. ChunksInv(k)'
      <4>1. ChunksInv(k)
        BY <2>4 DEF TeamInMid
      <4> QED
        BY <1>1, <2>1, <2>2, <3>1, <4>1 DEF ChunksInv
    <3> QED
      BY <1>1, <2>2, <2>4, <3>1, <3>2 DEF TeamInMid
  <2>5. ASSUME TeamIsDone PROVE TeamIsDone'
    BY <1>1, <2>2, <2>5, WorkKept DEF TeamIsDone
  <2> QED
    BY <1>1, <1>3, <1>4, <1>6, <2>3, <2>4, <2>5 DEF Inv, TeamInv
<1> QED
  BY <1>5, <1>6

\* A worker or the owner between graphs, or a worker that does not take part in one.
LEMMA OutsideStep ==
    ASSUME Inv, NEW t \in Thread, NEW where \in OutPC,
           pc[t] \in OutPC, pc' = [pc EXCEPT ![t] = where],
           UNCHANGED <<n_graph, barrierVars, workVars, abort, aborted, node, pending>>,
           last_graph' \in [Worker -> Graph], \A w \in Worker : last_graph'[w].id <= n_graph.id,
           \A u \in Thread \ {t} : u # 0 => last_graph'[u] = last_graph[u],
           t \in Team /\ t # 0 => last_graph'[t] = last_graph[t]
    PROVE  Inv'
<1>1. \A u \in Thread : u # t => pc'[u] = pc[u]
  BY DEF Inv, TypeInv
<1>2. pc'[t] = where
  BY DEF Inv, TypeInv
<1>3. OutPC \cap ({"begin"} \cup ComputePC \cup BarrierPC) = {}
  BY DEF OutPC, ComputePC, BarrierPC
<1>4. TypeInv'
  BY <1>1, <1>2, <1>3, Constants DEF Inv, TypeInv, barrierVars, workVars
<1>5. BarrierInv'
  BY <1>1, <1>2, <1>3, BarrierKept DEF Inv, barrierVars, Waits, Last, BarrierPC
<1>6. Out(t) /\ Out(t)'
  BY <1>2, <1>3 DEF Out, InGraph
<1>7. TeamInv'
  BY <1>1, <1>6, OutStep DEF OthersStay, barrierVars, workVars
<1> QED
  BY <1>4, <1>5, <1>7 DEF Inv

\* A worker sees a graph that it has a part in.
LEMMA TakesPart ==
    ASSUME Inv, NEW w \in Worker, pc[w] \in OutPC, w < n_graph.n, NewGraph(w), TakeGraph(w),
           pc' = [pc EXCEPT ![w] = "begin"],
           UNCHANGED <<n_graph, barrierVars, workVars, abort, aborted, node>>
    PROVE  Inv'
<1>1. w \in Thread /\ w # 0 /\ w \in Team
  BY Constants DEF Worker, Team, Nth
<1>2. (\A u \in Thread : u # w => pc'[u] = pc[u]) /\ pc'[w] = "begin"
  BY <1>1 DEF Inv, TypeInv
<1>3. OutPC \cap ({"begin"} \cup ComputePC \cup BarrierPC) = {}
  BY DEF OutPC, ComputePC, BarrierPC
<1>4. /\ last_graph' \in [Worker -> Graph] /\ last_graph'[w] = n_graph
      /\ \A v \in Worker : v # w => last_graph'[v] = last_graph[v]
      /\ pending' \in [Worker -> BOOLEAN] /\ pending'[w] = TRUE
      /\ \A v \in Worker : v # w => pending'[v] = pending[v]
  BY DEF Inv, TypeInv, TakeGraph
<1>5. n_graph.id <= n_graph.id
  BY DEF Inv, TypeInv, Graph
<1>6. TypeInv'
  <2>1. pc' \in [Thread -> OutPC \cup {"begin"} \cup ComputePC \cup BarrierPC]
    BY <1>1, <1>2 DEF Inv, TypeInv
  <2>2. \A v \in Worker : (pending'[v] <=> pc'[v] = "begin") /\ last_graph'[v].id <= n_graph.id
    BY <1>2, <1>4, <1>5, Constants DEF Inv, TypeInv
  <2> QED
    BY <1>4, <2>1, <2>2 DEF Inv, TypeInv, barrierVars, workVars
<1>7. BarrierInv'
  BY <1>2, <1>3, BarrierKept DEF Inv, barrierVars, Waits, Last, BarrierPC
<1>8. OthersStay(w)
  <2>1. \A u \in Thread \ {w} : u # 0 => u \in Worker
    BY DEF Worker
  <2> QED
    BY <1>2, <1>4, <2>1 DEF OthersStay, barrierVars, workVars
<1>9. Out(w) /\ ~Has(w) /\ ~AtBarrier(w)'
  BY <1>1, <1>2, <1>3 DEF Out, InGraph, NewGraph, Has, AtBarrier, Waits
<1>10. ASSUME NEW k \in 0 .. NNodes, TeamInPre(k) PROVE TeamInv'
  <2>1. k = 0
    BY <1>1, <1>9, <1>10 DEF TeamInPre, InPre
  <2>2. InPre(w, k)'
    BY <1>2, <1>4, <2>1 DEF InPre, Has
  <2> QED
    BY <1>1, <1>8, <1>9, <1>10, <2>2, PreStep DEF barrierVars, workVars
<1>11. ASSUME NEW k \in Node PROVE ~TeamInMid(k)
  BY <1>1, <1>9 DEF TeamInMid, InMid
<1>12. ~TeamIsDone
  BY <1>1, <1>9 DEF TeamIsDone
<1> QED
  BY <1>6, <1>7, <1>10, <1>11, <1>12 DEF Inv, TeamInv

\* A worker that polls, waits, pauses or begins a graph keeps the invariant.
LEMMA WorkerInv ==
    ASSUME Inv, NEW w \in Worker, WorkerStep(w)
    PROVE  Inv'
<1>1. w \in Thread /\ w # 0 /\ (w \in Team <=> w < n_graph.n)
  BY Constants DEF Worker, Team, Nth
<1>2. {"loop", "paused", "poll", "pollgraph", "lock", "exit"} \subseteq OutPC
  BY DEF OutPC
<1>3. ASSUME UNCHANGED workerVars
      PROVE  /\ last_graph' \in [Worker -> Graph]
             /\ \A v \in Worker : last_graph'[v].id <= n_graph.id
             /\ UNCHANGED <<last_graph, pending>>
  BY <1>3 DEF workerVars, Inv, TypeInv
\* A graph that the worker has no part in is only noted.
<1>4. ASSUME TakeGraph(w), ~(w < n_graph.n), pc[w] # "begin"
      PROVE  /\ last_graph' \in [Worker -> Graph]
             /\ \A v \in Worker : last_graph'[v].id <= n_graph.id
             /\ \A u \in Thread \ {w} : u # 0 => last_graph'[u] = last_graph[u]
             /\ UNCHANGED pending
  <2>1. n_graph \in Graph /\ n_graph.id <= n_graph.id
    BY DEF Inv, TypeInv, Graph
  <2>2. pending[w] = FALSE /\ pending \in [Worker -> BOOLEAN]
    BY <1>4 DEF Inv, TypeInv
  <2>3. pending' = pending
    BY <1>4, <2>2 DEF TakeGraph
  <2>4. \A u \in Thread \ {w} : u # 0 => u \in Worker
    BY DEF Worker
  <2> QED
    BY <1>4, <2>1, <2>3, <2>4 DEF TakeGraph, Inv, TypeInv
<1>5. CASE Loop(w)
  <2>1. PICK where \in {"paused", "exit", "poll"} : pc' = [pc EXCEPT ![w] = where]
    BY <1>5 DEF Loop, Goto
  <2> QED
    BY <1>1, <1>2, <1>3, <1>5, <2>1, OutsideStep DEF Loop, WorkerStays, workerVars
<1>6. CASE Paused(w)
  <2>1. PICK where \in {"paused", "loop"} : pc' = [pc EXCEPT ![w] = where]
    <3>1. pc = [pc EXCEPT ![w] = "paused"]
      BY <1>6 DEF Paused, Inv, TypeInv
    <3> QED
      BY <1>6, <3>1 DEF Paused, Goto
  <2> QED
    BY <1>1, <1>2, <1>3, <1>6, <2>1, OutsideStep DEF Paused, WorkerStays, workerVars
<1>7. CASE Poll(w)
  <2>1. PICK where \in {"lock", "pollgraph"} : pc' = [pc EXCEPT ![w] = where]
    BY <1>7 DEF Poll, Goto
  <2> QED
    BY <1>1, <1>2, <1>3, <1>7, <2>1, OutsideStep DEF Poll, WorkerStays, workerVars
<1>8. CASE PollGraph(w)
  <2>1. CASE NewGraph(w) /\ w < n_graph.n
    BY <1>2, <1>8, <2>1, TakesPart DEF PollGraph, Goto, WorkerStays
  <2>2. CASE NewGraph(w) /\ ~(w < n_graph.n)
    BY <1>1, <1>2, <1>4, <1>8, <2>2, OutsideStep DEF PollGraph, Goto, WorkerStays
  <2>3. CASE ~NewGraph(w)
    <3>1. PICK where \in {"poll", "lock"} : pc' = [pc EXCEPT ![w] = where]
      BY <1>8, <2>3 DEF PollGraph, Goto
    <3> QED
      BY <1>1, <1>2, <1>3, <1>8, <2>3, <3>1, OutsideStep DEF PollGraph, WorkerStays, workerVars
  <2> QED
    BY <2>1, <2>2, <2>3
<1>9. CASE Lock(w)
  <2>1. CASE NewGraph(w) /\ w < n_graph.n /\ TakeGraph(w) /\ Goto(w, "begin")
    BY <1>2, <1>9, <2>1, TakesPart DEF Lock, Goto, WorkerStays
  <2>2. CASE NewGraph(w) /\ ~(w < n_graph.n) /\ TakeGraph(w) /\ Goto(w, "loop")
    BY <1>1, <1>2, <1>4, <1>9, <2>2, OutsideStep DEF Lock, Goto, WorkerStays
  <2>3. CASE UNCHANGED workerVars /\ (Goto(w, "loop") \/ UNCHANGED pc)
    <3>1. pc = [pc EXCEPT ![w] = "lock"]
      BY <1>9 DEF Lock, Inv, TypeInv
    <3>2. PICK where \in {"loop", "lock"} : pc' = [pc EXCEPT ![w] = where]
      BY <2>3, <3>1 DEF Goto
    <3> QED
      BY <1>1, <1>2, <1>3, <1>9, <2>3, <3>2, OutsideStep DEF Lock, WorkerStays, workerVars
  <2> QED
    BY <1>9, <2>1, <2>2, <2>3 DEF Lock
<1>10. CASE Begin(w)
  <2>1. (\A u \in Thread : u # w => pc'[u] = pc[u]) /\ pc'[w] = "compute" /\ pc[w] = "begin"
    BY <1>1, <1>10 DEF Begin, Goto, Inv, TypeInv
  <2>2. UNCHANGED <<n_graph, barrierVars, workVars, abort, aborted, node, last_graph>>
    BY <1>10 DEF Begin, WorkerStays
  <2>3. TypeInv'
    <3>1. pc' \in [Thread -> OutPC \cup {"begin"} \cup ComputePC \cup BarrierPC]
      BY <1>10 DEF Begin, Goto, Inv, TypeInv, ComputePC
    <3>2. /\ pending' \in [Worker -> BOOLEAN] /\ pending'[w] = FALSE
          /\ \A v \in Worker : v # w => pending'[v] = pending[v]
      BY <1>10 DEF Begin, Inv, TypeInv
    <3>3. \A v \in Worker : (pending'[v] <=> pc'[v] = "begin") /\ last_graph[v].id <= n_graph.id
      BY <2>1, <3>2, Constants DEF Inv, TypeInv
    <3> QED
      BY <2>2, <3>1, <3>2, <3>3 DEF Inv, TypeInv, barrierVars, workVars
  <2>4. BarrierInv'
    BY <2>1, <2>2, BarrierKept DEF Inv, barrierVars, Waits, Last
  <2>5. ~Out(w) /\ OthersStay(w) /\ ~AtBarrier(w)'
    BY <2>1, <2>2 DEF Out, InGraph, Through, OthersStay, barrierVars, workVars, AtBarrier, Waits
  <2>6. w \in Team /\ ~TeamIsDone
    BY <1>1, <2>5 DEF Inv, TeamInv, TeamIsDone
  <2>7. ASSUME NEW k \in 0 .. NNodes, TeamInPre(k) PROVE TeamInv'
    <3>1. k = 0 /\ Has(w)
      BY <2>1, <2>5, <2>6, <2>7 DEF TeamInPre, InPre, Out, InGraph, AtBarrier, Waits, Through
    <3>2. InPre(w, k)'
      BY <2>1, <2>2, <3>1 DEF InPre, Has
    <3> QED
      BY <2>2, <2>5, <2>6, <2>7, <3>2, PreStep DEF barrierVars, workVars
  <2>8. ASSUME NEW k \in Node PROVE ~TeamInMid(k)
    BY <2>1, <2>6 DEF TeamInMid, InMid, Through, AtBarrier, Waits
  <2> QED
    BY <2>3, <2>4, <2>6, <2>7, <2>8 DEF Inv, TeamInv
<1> QED
  BY <1>5, <1>6, <1>7, <1>8, <1>9, <1>10 DEF WorkerStep

\* The owner has its graph back when it is between graphs, and so have the workers.
LEMMA OwnerIsOut ==
    ASSUME Inv, ~InGraph(0)
    PROVE  TeamIsDone /\ \A t \in Thread : Out(t)
<1>1. 0 \in Thread /\ Out(0) /\ (Team # {} => 0 \in Team)
  BY TeamSize, Constants DEF Inv, Out
<1>2. ASSUME NEW k \in 0 .. NNodes, TeamInPre(k) PROVE FALSE
  BY <1>1, <1>2 DEF TeamInPre, InPre, InGraph, AtBarrier, Waits, Through, ComputePC, BarrierPC
<1>3. ASSUME NEW k \in Node, TeamInMid(k) PROVE FALSE
  BY <1>1, <1>3 DEF TeamInMid, InMid, InGraph, AtBarrier, Waits, Through, ComputePC, BarrierPC
<1>4. TeamIsDone
  BY <1>2, <1>3 DEF Inv, TeamInv
<1> QED
  BY <1>4 DEF Inv, TeamInv, TeamIsDone

\* Kicking off a graph, for any number of active threads, keeps the invariant.
LEMMA KickoffInv ==
    ASSUME Inv, NEW n \in Active, Kickoff(n)
    PROVE  Inv'
<1>1. 0 \in Thread /\ ~InGraph(0)
  BY Constants DEF Kickoff, InGraph, ComputePC, BarrierPC
<1>2. TeamIsDone /\ \A t \in Thread : Out(t)
  BY <1>1, OwnerIsOut
<1>3. n \in Nat /\ n > 0 /\ NThreads \in Nat /\ NThreads > 0
  BY PoolAssumption
<1>4. /\ n_graph'.id = n_graph.id + 1 /\ n_graph' \in Graph /\ n_graph'.n > 0
      /\ n_graph.id \in Nat /\ \A w \in Worker : last_graph[w] \in Graph /\ last_graph[w].id <= n_graph.id
  BY <1>3 DEF Kickoff, Inv, TypeInv, Graph
<1>5. (\A u \in Thread : u # 0 => pc'[u] = pc[u]) /\ pc'[0] = "compute"
  BY <1>1 DEF Kickoff, Goto, Inv, TypeInv
<1>6. TypeInv'
  <2>1. pc' \in [Thread -> OutPC \cup {"begin"} \cup ComputePC \cup BarrierPC]
    BY DEF Kickoff, Goto, Inv, TypeInv, ComputePC
  <2>2. \A w \in Worker : (pending'[w] <=> pc'[w] = "begin") /\ last_graph'[w].id <= n_graph'.id
    <3>1. \A w \in Worker : w \in Thread /\ w # 0 /\ last_graph[w].id \in Nat
      BY <1>4, Constants DEF Worker, Graph
    <3> QED
      BY <1>4, <1>5, <3>1 DEF Kickoff, workerVars, Inv, TypeInv
  <2>3. /\ DOMAIN computed' = Node /\ abort' \in -1 .. NNodes /\ aborted' \in 0 .. NNodes
        /\ current_chunk' \in Nat
    BY Constants DEF Kickoff, NothingComputed
  <2> QED
    BY <1>4, <2>1, <2>2, <2>3 DEF Kickoff, barrierVars, workerVars, Inv, TypeInv
<1>7. BarrierInv'
  <2>1. \A u \in Thread : ~Waits(u) /\ ~Last(u)
    BY <1>2 DEF Out, InGraph, Through, Waits, Last, BarrierPC
  <2>2. \A u \in Thread : ~Waits(u)' /\ ~Last(u)' /\ (pc'[u] = "arrive" => pc[u] = "arrive")
    BY <1>5, <2>1 DEF Waits, Last, Kickoff, barrierVars
  <2>3. Waiting = {} /\ Waiting' = {}
    BY <2>1, <2>2 DEF Waiting
  <2> QED
    BY <2>1, <2>2, <2>3 DEF BarrierInv, Inv, Kickoff, barrierVars, Last
<1>8. TeamInv'
  <2>1. Team' \subseteq Thread /\ 0 \in Team'
    BY <1>1, <1>4 DEF Team, Nth
  <2>2. \A u \in Thread : u # 0 => Out(u)'
    BY <1>2, <1>5 DEF Out, InGraph, Through, Kickoff, barrierVars, Final
  <2>3. \A u \in Thread : u # 0 => last_graph'[u] # n_graph'
    <3>1. \A u \in Thread : u # 0 => u \in Worker
      BY DEF Worker
    <3>2. \A w \in Worker : last_graph[w].id # n_graph'.id
      BY <1>4 DEF Graph
    <3> QED
      BY <3>1, <3>2 DEF Kickoff, workerVars
  <2>4. \A u \in Team' : InPre(u, 0)'
    BY <1>5, <2>1, <2>2, <2>3 DEF InPre, Has
  <2>5. \A u \in Team' : ~AtBarrier(u)'
    BY <1>5, <2>1, <2>2 DEF Out, AtBarrier, InGraph, Waits, Through, BarrierPC
  <2>6. DoneBefore(0)' /\ NothingFrom(0)' /\ AbortedBefore(0)'
    BY Constants DEF Kickoff, DoneBefore, NothingFrom, AbortedBefore, Node
  <2>7. TeamInPre(0)'
    BY <2>1, <2>4, <2>5, <2>6 DEF TeamInPre
  <2>8. \A m \in Node : DOMAIN computed'[m] = {}
    BY DEF Kickoff, NothingComputed
  <2>9. 0 \in 0 .. NNodes /\ \A u \in Thread \ Team' : u # 0
    BY <2>1, Constants
  <2> QED
    BY <2>2, <2>7, <2>8, <2>9 DEF TeamInv
<1> QED
  BY <1>6, <1>7, <1>8 DEF Inv

\* Pausing, freeing and joining the pool keeps the invariant.
LEMMA OwnerInv ==
    ASSUME Inv, SetPause \/ Free \/ Join
    PROVE  Inv'
<1>1. 0 \in Thread /\ pc[0] \in OutPC
  BY Constants DEF SetPause, Free, Join, OutPC
<1>2. PICK where \in {"idle", "join", "freed"} : pc' = [pc EXCEPT ![0] = where]
  <2>1. pc = [pc EXCEPT ![0] = pc[0]]
    BY DEF Inv, TypeInv
  <2> QED
    BY <2>1 DEF SetPause, Free, Join, Goto
<1>3. /\ UNCHANGED <<n_graph, barrierVars, workVars, abort, aborted, node, workerVars>>
      /\ where \in OutPC
  BY DEF SetPause, Free, Join, poolVars, OutPC
<1>4. last_graph \in [Worker -> Graph] /\ \A w \in Worker : last_graph[w].id <= n_graph.id
  BY DEF Inv, TypeInv
<1> QED
  BY <1>1, <1>2, <1>3, <1>4, OutsideStep DEF workerVars

-----------------------------------------------------------------------------
(* The steps of ggml_graph_compute_thread                                  *)

GraphPC == ComputePC \cup BarrierPC

\* The types, after a step of a thread in a graph.
LEMMA TypeKept ==
    ASSUME TypeInv, NEW t \in Thread, pc[t] \in GraphPC, NEW where \in OutPC \cup GraphPC,
           pc' = [pc EXCEPT ![t] = where], UNCHANGED <<n_graph, last_graph, pending>>,
           node' \in [Thread -> 0 .. NNodes], chunk' \in [Thread -> Nat], current_chunk' \in Nat,
           n_barrier' \in Nat, n_barrier_passed' \in Nat, n_passed' \in [Thread -> Nat],
           back' \in [Thread -> {"idle", "loop", "chunk", "advance"}],
           abort' \in -1 .. NNodes, aborted' \in 0 .. NNodes, DOMAIN computed' = Node
    PROVE  /\ TypeInv'
           /\ pc'[t] = where /\ \A u \in Thread \ {t} : pc'[u] = pc[u]
<1>1. pc'[t] = where /\ \A u \in Thread \ {t} : pc'[u] = pc[u]
  BY DEF TypeInv
<1>2. pc[t] # "begin" /\ where # "begin"
  BY DEF GraphPC, OutPC, ComputePC, BarrierPC
<1>3. pc' \in [Thread -> OutPC \cup {"begin"} \cup ComputePC \cup BarrierPC]
  BY DEF TypeInv, GraphPC
<1>4. \A w \in Worker : (pending'[w] <=> pc'[w] = "begin") /\ last_graph'[w].id <= n_graph'.id
  BY <1>1, <1>2, Constants DEF TypeInv
<1> QED
  BY <1>1, <1>3, <1>4 DEF TypeInv

\* A thread that is not at the barrier is in the team, between the nodes of an interval.
LEMMA InTeam ==
    ASSUME Inv, NEW t \in Thread, pc[t] \in GraphPC \ {"spin"}
    PROVE  /\ t \in Team /\ ~TeamIsDone
           /\ (\E k \in 0 .. NNodes : TeamInPre(k)) \/ (\E k \in Node : TeamInMid(k))
<1>1. ~Out(t)
  BY DEF Out, InGraph, Through, GraphPC
<1> QED
  BY <1>1 DEF Inv, TeamInv, TeamIsDone

\* A thread that starts to compute the graph keeps the invariant.
LEMMA ComputeInv ==
    ASSUME Inv, NEW t \in Thread, Compute(t)
    PROVE  Inv'
<1>1. pc[t] = "compute" /\ t \in Team
  BY InTeam DEF Compute, GraphPC, ComputePC
<1>2. TypeInv' /\ pc'[t] = "node" /\ \A u \in Thread \ {t} : pc'[u] = pc[u]
  <2>1. node' \in [Thread -> 0 .. NNodes]
    BY Constants DEF Compute, Inv, TypeInv
  <2> QED
    BY <1>1, <2>1, TypeKept DEF Compute, Goto, Inv, TypeInv, GraphPC, ComputePC, barrierVars, workVars, workerVars,
                                poolVars
<1>3. BarrierInv'
  BY <1>1, <1>2, BarrierKept DEF Compute, Inv, barrierVars, poolVars, Waits, Last
<1>4. OthersStay(t) /\ node'[t] = 0 /\ ~AtBarrier(t)'
  BY <1>2 DEF Compute, Inv, TypeInv, OthersStay, barrierVars, workVars, workerVars, AtBarrier, Waits
<1>5. ASSUME NEW k \in 0 .. NNodes, TeamInPre(k) PROVE TeamInv'
  <2>1. k = 0 /\ Has(t)
    BY <1>1, <1>5 DEF TeamInPre, InPre, Out, InGraph, AtBarrier, Waits, Through, ComputePC
  <2>2. InPre(t, k)'
    BY <1>2, <1>4, <2>1 DEF InPre, Has, Skipped, Compute, workerVars, poolVars
  <2> QED
    BY <1>1, <1>4, <1>5, <2>2, PreStep DEF Compute, barrierVars, workVars, poolVars
<1>6. ASSUME NEW k \in Node PROVE ~TeamInMid(k)
  BY <1>1 DEF TeamInMid, InMid, AtBarrier, Waits, Through
<1> QED
  BY <1>1, <1>2, <1>3, <1>5, <1>6, InTeam DEF Inv, GraphPC, ComputePC

\* The test of the loop over the nodes, with the abort read there, keeps the invariant.
LEMMA NodeLoopInv ==
    ASSUME Inv, NEW t \in Thread, NodeLoop(t)
    PROVE  Inv'
<1>1. pc[t] = "node" /\ t \in Team
  BY InTeam DEF NodeLoop, GraphPC, ComputePC
<1>2. node[t] \in 0 .. NNodes /\ NNodes \in Nat /\ (node[t] # NNodes => Work[node[t] + 1] \in Nat)
  <2>1. node[t] \in 0 .. NNodes
    BY DEF Inv, TypeInv
  <2>2. node[t] # NNodes => node[t] \in Node
    BY <2>1, Constants DEF Node
  <2> QED
    BY <2>1, <2>2, Constants
<1>3. PICK where \in {"enter", "node", "product"} :
         /\ pc' = [pc EXCEPT ![t] = where]
         /\ \/ /\ where = "enter" /\ GraphEnds(t)
               /\ node' = node /\ back' = [back EXCEPT ![t] = Final(t)]
            \/ /\ where = "node" /\ ~GraphEnds(t) /\ Work[node[t] + 1] = 0
               /\ node' = [node EXCEPT ![t] = @ + 1] /\ back' = back
            \/ where = "product" /\ ToCompute(t) /\ node' = node /\ back' = back
  <2>1. pc = [pc EXCEPT ![t] = "node"]
    BY <1>1 DEF Inv, TypeInv
  <2>2. CASE GraphEnds(t)
    BY <2>2 DEF NodeLoop, Barrier, Goto, GraphEnds, Final
  <2>3. CASE ~GraphEnds(t) /\ Work[node[t] + 1] = 0
    BY <2>1, <2>3 DEF NodeLoop, GraphEnds
  <2>4. CASE ~GraphEnds(t) /\ Work[node[t] + 1] # 0
    BY <1>2, <2>4 DEF NodeLoop, Goto, GraphEnds, ToCompute
  <2> QED
    BY <2>2, <2>3, <2>4
<1>4. UNCHANGED <<poolVars, n_barrier, n_barrier_passed, n_passed, workVars, workerVars, abort, aborted>>
  BY DEF NodeLoop
<1>5. /\ TypeInv' /\ pc'[t] = where /\ \A u \in Thread \ {t} : pc'[u] = pc[u]
      /\ node' \in [Thread -> 0 .. NNodes]
      /\ back' \in [Thread -> {"idle", "loop", "chunk", "advance"}]
  <2>1. node' \in [Thread -> 0 .. NNodes]
    <3>1. CASE node' = node
      BY <3>1 DEF Inv, TypeInv
    <3>2. CASE ~GraphEnds(t) /\ node' = [node EXCEPT ![t] = @ + 1]
      <4>1. node[t] + 1 \in 0 .. NNodes
        BY <1>2, <3>2 DEF GraphEnds
      <4>2. node \in [Thread -> 0 .. NNodes]
        BY DEF Inv, TypeInv
      <4> QED
        BY <3>2, <4>1, <4>2
    <3> QED
      BY <1>3, <3>1, <3>2
  <2>2. back' \in [Thread -> {"idle", "loop", "chunk", "advance"}]
    BY <1>3 DEF Inv, TypeInv, Final
  <2>3. pc[t] \in GraphPC /\ where \in OutPC \cup GraphPC
    BY <1>1 DEF GraphPC, ComputePC, BarrierPC
  <2> QED
    BY <1>3, <1>4, <2>1, <2>2, <2>3, TypeKept DEF Inv, TypeInv, workVars, workerVars, poolVars
<1>6. BarrierInv'
  BY <1>1, <1>4, <1>5, BarrierKept DEF Inv, poolVars, Waits, Last
<1>7. OthersStay(t)
  <2>1. \A u \in Thread \ {t} : node'[u] = node[u] /\ back'[u] = back[u]
    BY <1>3 DEF Inv, TypeInv
  <2> QED
    BY <1>4, <1>5, <2>1 DEF OthersStay, workVars, workerVars
<1>8. Has(t)' <=> Has(t)
  BY <1>4 DEF Has, workerVars, poolVars
<1>9. ASSUME NEW k \in 0 .. NNodes, TeamInPre(k) PROVE TeamInv'
  <2>1. Has(t) /\ Skipped(k, node[t])
    BY <1>1, <1>9 DEF TeamInPre, InPre, Out, InGraph, AtBarrier, Waits, Through, ComputePC
  <2>2. CASE where = "enter"
    <3>1. node'[t] = node[t] /\ back'[t] = Final(t) /\ GraphEnds(t) /\ pc'[t] = "enter"
      BY <1>3, <1>5, <2>2 DEF Inv, TypeInv
    <3>2. InPre(t, k)' /\ back'[t] # "chunk"
      BY <1>4, <1>8, <2>1, <3>1 DEF InPre, Skipped, GraphEnds, AtBarrier, Final
    <3> QED
      BY <1>1, <1>4, <1>7, <1>9, <3>2, PreStep DEF workVars, poolVars
  <2>3. CASE where = "node"
    <3>1. /\ node'[t] = node[t] + 1 /\ pc'[t] = "node"
          /\ Work[node[t] + 1] = 0 /\ abort # node[t]
      BY <1>3, <1>5, <2>3 DEF Inv, TypeInv, GraphEnds
    <3>2. Skipped(k, node[t] + 1)
      <4>1. \A i \in k .. (node[t] + 1) - 1 : i \in k .. node[t] - 1 \/ i = node[t]
        BY <1>2
      <4> QED
        BY <1>2, <2>1, <3>1, <4>1 DEF Skipped
    <3>3. InPre(t, k)' /\ ~AtBarrier(t)'
      <4>1. Skipped(k, node[t])'
        BY <1>4, <3>1, <3>2 DEF Skipped
      <4> QED
        BY <1>8, <2>1, <3>1, <4>1 DEF InPre, AtBarrier, Waits
    <3> QED
      BY <1>1, <1>4, <1>7, <1>9, <3>3, PreStep DEF workVars, poolVars
  <2>4. CASE where = "product"
    <3>1. node'[t] = node[t] /\ ToCompute(t) /\ pc'[t] = "product"
      BY <1>3, <1>5, <2>4
    <3>2. InPre(t, k)' /\ ~AtBarrier(t)'
      BY <1>4, <1>8, <2>1, <3>1 DEF InPre, Skipped, ToCompute, AtBarrier, Waits
    <3> QED
      BY <1>1, <1>4, <1>7, <1>9, <3>2, PreStep DEF workVars, poolVars
  <2> QED
    BY <2>2, <2>3, <2>4
<1>10. ASSUME NEW k \in Node, TeamInMid(k) PROVE TeamInv'
  <2>1. Has(t) /\ node[t] = NNodes /\ k + 1 = NNodes /\ k < NNodes
    BY <1>1, <1>10, Constants DEF TeamInMid, InMid, AtBarrier, Waits, Through, Node
  <2>2. where = "enter" /\ node'[t] = NNodes /\ back'[t] = Final(t)
    BY <1>2, <1>3, <2>1 DEF GraphEnds, ToCompute, Inv, TypeInv
  <2>3. InMid(t, k)' /\ ~Holds(t) /\ ~Holds(t)' /\ Past(t)
    BY <1>1, <1>5, <1>8, <2>1, <2>2 DEF InMid, AtBarrier, Holds, Past, Through, Final
  <2>4. AbortedAt(k)'
    BY <1>4, <1>10 DEF TeamInMid, AbortedAt
  <2> QED
    BY <1>1, <1>4, <1>7, <1>10, <2>3, <2>4, MidMove DEF workVars, poolVars
<1> QED
  BY <1>1, <1>5, <1>6, <1>9, <1>10, InTeam DEF Inv, GraphPC, ComputePC

\* Starting a matrix product keeps the invariant.
LEMMA ProductInv ==
    ASSUME Inv, NEW t \in Thread, Product(t)
    PROVE  Inv'
<1>1. pc[t] = "product" /\ t \in Team /\ pc' = [pc EXCEPT ![t] = "enter"]
  BY InTeam DEF Product, Barrier, Goto, GraphPC, ComputePC
<1>2. UNCHANGED <<poolVars, n_barrier, n_barrier_passed, n_passed, computed, workerVars, abort, aborted, node>>
  BY DEF Product
<1>3. /\ chunk' \in [Thread -> Nat] /\ current_chunk' \in Nat
      /\ back' \in [Thread -> {"idle", "loop", "chunk", "advance"}]
      /\ chunk'[t] = t /\ back'[t] = "chunk"
      /\ \A u \in Thread \ {t} : chunk'[u] = chunk[u] /\ back'[u] = back[u]
  <2>1. t \in Nat /\ Nth \in Nat
    BY TeamSize, Constants DEF Inv
  <2> QED
    BY <2>1 DEF Product, Barrier, Inv, TypeInv
<1>4. TypeInv' /\ pc'[t] = "enter" /\ \A u \in Thread \ {t} : pc'[u] = pc[u]
  <2>1. pc[t] \in GraphPC /\ "enter" \in OutPC \cup GraphPC
    BY <1>1 DEF GraphPC, ComputePC, BarrierPC
  <2> QED
    BY <1>1, <1>2, <1>3, <2>1, TypeKept, ZenonT(40) DEF Inv, TypeInv, workerVars, poolVars
<1>5. BarrierInv'
  BY <1>1, <1>2, <1>4, BarrierKept DEF Inv, poolVars, Waits, Last
<1>6. OthersStay(t)
  BY <1>2, <1>3, <1>4 DEF OthersStay, workerVars
<1>7. ASSUME NEW k \in 0 .. NNodes, TeamInPre(k) PROVE TeamInv'
  <2>1. Has(t) /\ Skipped(k, node[t]) /\ ToCompute(t)
    BY <1>1, <1>7 DEF TeamInPre, InPre, Out, InGraph, AtBarrier, Waits, Through, ComputePC
  <2>2. InPre(t, k)'
    BY <1>2, <1>3, <1>4, <2>1 DEF InPre, Has, Skipped, ToCompute, AtBarrier, workerVars, poolVars
  <2>3. (t = 0 \/ current_chunk' = current_chunk) /\ (t = 0 => current_chunk' = Nth')
    BY <1>2 DEF Product, Nth, poolVars
  <2>4. Nth' = Nth
    BY <1>2 DEF Nth, poolVars
  <2> QED
    BY <1>1, <1>2, <1>3, <1>6, <1>7, <2>2, <2>3, <2>4, PreStep DEF poolVars
<1>8. ASSUME NEW k \in Node PROVE ~TeamInMid(k)
  BY <1>1 DEF TeamInMid, InMid, AtBarrier, Waits, Through
<1> QED
  BY <1>1, <1>4, <1>5, <1>7, <1>8, InTeam DEF Inv, GraphPC, ComputePC

\* A thread that is in a product is in the same one as the others.
LEMMA InProduct ==
    ASSUME Inv, NEW t \in Thread, pc[t] \in {"chunk", "next", "after"}
    PROVE  /\ t \in Team /\ Has(t) /\ node[t] \in Node /\ TeamInMid(node[t])
           /\ pc[t] \in GraphPC /\ ~Waits(t) /\ ~Last(t)
<1>1. t \in Team /\ ((\E k \in 0 .. NNodes : TeamInPre(k)) \/ (\E k \in Node : TeamInMid(k)))
  BY InTeam DEF GraphPC, ComputePC
<1>2. ASSUME NEW k \in 0 .. NNodes, TeamInPre(k) PROVE FALSE
  BY <1>1, <1>2 DEF TeamInPre, InPre, Out, InGraph, AtBarrier, Waits, Through, ComputePC
<1>3. ASSUME NEW k \in Node, TeamInMid(k) PROVE node[t] = k /\ Has(t)
  BY <1>1, <1>3 DEF TeamInMid, InMid, AtBarrier, Waits, Through
<1> QED
  BY <1>1, <1>2, <1>3 DEF GraphPC, ComputePC, Waits, Last

\* The chunk that a thread computes was not computed before.
LEMMA ComputeChunkInv ==
    ASSUME Inv, NEW t \in Thread, ComputeChunk(t)
    PROVE  Inv'
<1> PICK k \in Node : k = node[t]
  BY InProduct DEF ComputeChunk
<1> PICK c \in Nat : c = chunk[t]
  BY DEF Inv, TypeInv
<1>1. /\ pc[t] = "chunk" /\ t \in Team /\ Has(t) /\ TeamInMid(k) /\ ChunksInv(k)
      /\ pc[t] \in GraphPC /\ ~Waits(t) /\ ~Last(t) /\ Holds(t)
  BY InProduct DEF ComputeChunk, TeamInMid, Holds
<1>2. UNCHANGED <<poolVars, barrierVars, current_chunk, chunk, workerVars, abort, aborted, node>>
  BY DEF ComputeChunk
<1>3. NChunks(k) \in Nat /\ NChunks(k)' = NChunks(k) /\ Nth' = Nth /\ Nth \in Nat /\ current_chunk \in Nat
  BY <1>2, ChunksType, TeamSize DEF Inv, TypeInv, NChunks, Nth, poolVars
<1>4. PICK where \in {"after", "next"} :
         /\ pc' = [pc EXCEPT ![t] = where]
         /\ \/ c < NChunks(k) /\ computed' = [computed EXCEPT ![k] = Counted(@, c)]
            \/ ~(c < NChunks(k)) /\ computed' = computed /\ where = "after"
         /\ where = "after" => ~(c < NChunks(k)) \/ Nth >= NChunks(k)
  BY DEF ComputeChunk, Goto
<1>5. TypeInv' /\ pc'[t] = where /\ \A u \in Thread \ {t} : pc'[u] = pc[u]
  <2>1. DOMAIN computed' = Node
    BY <1>4 DEF Inv, TypeInv
  <2>2. where \in OutPC \cup GraphPC
    BY DEF GraphPC, ComputePC
  <2> QED
    BY <1>1, <1>2, <1>4, <2>1, <2>2, TypeKept DEF Inv, TypeInv, barrierVars, workerVars, poolVars
<1>6. BarrierInv'
  BY <1>1, <1>2, <1>5, BarrierKept DEF Inv, barrierVars, poolVars
<1>7. OthersStay(t)
  BY <1>2, <1>5 DEF OthersStay, barrierVars, workerVars
<1>8. InMid(t, k)' /\ ~Holds(t)' /\ (Past(t)' <=> where = "after")
  BY <1>1, <1>2, <1>5 DEF InMid, Has, Holds, Past, Through, workerVars, poolVars
<1>9. \A u \in Team \ {t} : /\ Holds(u)' <=> Holds(u)
                            /\ Past(u)' <=> Past(u)
                            /\ u \in Thread
  BY <1>2, <1>7, PositionKept DEF OthersStay, Team, poolVars, barrierVars
<1>10. Team' = Team
  BY <1>2 DEF Team, Nth, poolVars
<1>11. where = "after" => NChunks(k) <= current_chunk
  BY <1>1, <1>3, <1>4 DEF ChunksInv
<1>12. c \notin DOMAIN computed[k] /\ c < current_chunk
  BY <1>1 DEF ChunksInv
<1>13. EachOnce
  BY DEF Inv, TeamInv, EachOnce
<1>14. CASE c < NChunks(k)
  <2>1. DOMAIN computed'[k] = DOMAIN computed[k] \cup {c} /\ \A d \in DOMAIN computed'[k] : computed'[k][d] = 1
    <3>1. computed'[k] = Counted(computed[k], c)
      BY <1>4, <1>14 DEF Inv, TypeInv
    <3>2. computed'[k] = [d \in DOMAIN computed[k] \cup {c} |->
              (IF d \in DOMAIN computed[k] THEN computed[k][d] ELSE 0) + (IF d = c THEN 1 ELSE 0)]
      BY <3>1 DEF Counted
    <3>3. \A d \in DOMAIN computed[k] : computed[k][d] = 1 /\ d # c
      BY <1>12, <1>13 DEF EachOnce
    <3>4. c \notin DOMAIN computed[k]
      BY <1>12
    <3> QED
      BY <3>2, <3>3, <3>4
  <2>2. \A n \in Node : n # k => computed'[n] = computed[n]
    BY <1>4, <1>14 DEF Inv, TypeInv
  <2>3. EachOnce'
    BY <1>13, <2>1, <2>2 DEF EachOnce
  <2>4. DoneBefore(k)' /\ NothingFrom(k + 1)'
    <3>1. \A n \in Node : n < k \/ k + 1 <= n => n # k /\ (Complete(n)' <=> Complete(n))
      BY <1>2, <2>2, Constants DEF Node, Complete, NChunks, Nth, poolVars
    <3> QED
      BY <1>1, <2>2, <3>1 DEF TeamInMid, DoneBefore, NothingFrom, NothingComputed
  <2>5. ChunksInv(k)'
    <3>1. ASSUME NEW u \in Team, Holds(u)'
          PROVE  chunk[u] < current_chunk /\ chunk[u] \notin DOMAIN computed'[k] /\ u # t /\ Holds(u)
      <4>1. u # t /\ Holds(u)
        BY <1>8, <1>9, <3>1
      <4>2. chunk[u] # c
        BY <1>1, <4>1 DEF ChunksInv
      <4> QED
        BY <1>1, <2>1, <4>1, <4>2 DEF ChunksInv
    <3>2. \A d \in DOMAIN computed'[k] : d \in 0 .. NChunks(k) - 1 /\ d < current_chunk
      BY <1>1, <1>3, <1>12, <1>14, <2>1 DEF ChunksInv
    <3>3. ASSUME NEW d \in 0 .. NChunks(k) - 1, d < current_chunk
          PROVE  d \in DOMAIN computed'[k] \/ \E u \in Team : Holds(u)' /\ chunk[u] = d
      <4>1. CASE d \in DOMAIN computed[k]
        BY <2>1, <4>1
      <4>2. CASE d \notin DOMAIN computed[k]
        <5>1. PICK u \in Team : Holds(u) /\ chunk[u] = d
          BY <1>1, <3>3, <4>2 DEF ChunksInv
        <5> QED
          BY <1>9, <2>1, <5>1
      <4> QED
        BY <4>1, <4>2
    <3>4. \A u \in Team : Past(u)' => NChunks(k) <= current_chunk
      BY <1>1, <1>8, <1>9, <1>11 DEF ChunksInv
    <3>5. \A u, v \in Team : Holds(u)' /\ Holds(v)' /\ chunk[u] = chunk[v] => u = v
      BY <1>1, <3>1 DEF ChunksInv
    <3>6. Nth <= current_chunk /\ chunk' = chunk /\ current_chunk' = current_chunk
      BY <1>1, <1>2 DEF ChunksInv
    <3> QED
      BY <1>3, <1>10, <3>1, <3>2, <3>3, <3>4, <3>5, <3>6 DEF ChunksInv
  <2>6. AbortedAt(k)'
    BY <1>1, <1>2 DEF TeamInMid, AbortedAt
  <2>7. TeamInv'
    BY <1>1, <1>2, <1>7, <1>8, <2>3, <2>4, <2>5, <2>6, MidStep DEF poolVars, barrierVars
  <2> QED
    BY <1>5, <1>6, <2>7 DEF Inv
<1>15. CASE ~(c < NChunks(k))
  <2>1. computed' = computed /\ where = "after"
    BY <1>4, <1>15
  <2>2. EachOnce' /\ DoneBefore(k)' /\ NothingFrom(k + 1)' /\ AbortedAt(k)'
    BY <1>1, <1>2, <1>13, <2>1, WorkKept DEF TeamInMid, EachOnce, AbortedAt, poolVars
  <2>3. ChunksInv(k)'
    <3>1. \A u \in Team : Holds(u)' => Holds(u)
      BY <1>8, <1>9
    <3>2. ASSUME NEW d \in 0 .. NChunks(k) - 1, d < current_chunk
          PROVE  d \in DOMAIN computed[k] \/ \E u \in Team : Holds(u)' /\ chunk[u] = d
      <4>1. c # d
        BY <1>3, <1>15
      <4> QED
        BY <1>1, <1>9, <3>2, <4>1 DEF ChunksInv
    <3>3. \A u \in Team : Past(u)' => NChunks(k) <= current_chunk
      BY <1>1, <1>8, <1>9, <1>11 DEF ChunksInv
    <3> QED
      BY <1>1, <1>2, <1>3, <1>10, <2>1, <3>1, <3>2, <3>3 DEF ChunksInv
  <2>4. TeamInv'
    BY <1>1, <1>2, <1>7, <1>8, <2>2, <2>3, MidStep DEF poolVars, barrierVars
  <2> QED
    BY <1>5, <1>6, <2>4 DEF Inv
<1> QED
  BY <1>14, <1>15

\* Taking the next chunk of a product keeps the invariant.
LEMMA NextChunkInv ==
    ASSUME Inv, NEW t \in Thread, NextChunk(t)
    PROVE  Inv'
<1> PICK k \in Node : k = node[t]
  BY InProduct DEF NextChunk
<1>1. /\ pc[t] = "next" /\ t \in Team /\ Has(t) /\ TeamInMid(k) /\ ChunksInv(k)
      /\ pc[t] \in GraphPC /\ ~Waits(t) /\ ~Last(t) /\ pc' = [pc EXCEPT ![t] = "chunk"]
  BY InProduct DEF NextChunk, TeamInMid, Goto
<1>2. UNCHANGED <<poolVars, barrierVars, computed, workerVars, abort, aborted, node>>
  BY DEF NextChunk
<1>3. /\ NChunks(k) \in Nat /\ NChunks(k)' = NChunks(k) /\ Nth' = Nth /\ Nth \in Nat
      /\ current_chunk \in Nat /\ current_chunk' = current_chunk + 1
      /\ chunk' \in [Thread -> Nat] /\ chunk'[t] = current_chunk
      /\ \A u \in Thread \ {t} : chunk'[u] = chunk[u]
  BY <1>2, ChunksType, TeamSize DEF NextChunk, Inv, TypeInv, NChunks, Nth, poolVars
<1>4. TypeInv' /\ pc'[t] = "chunk" /\ \A u \in Thread \ {t} : pc'[u] = pc[u]
  <2>1. "chunk" \in OutPC \cup GraphPC
    BY DEF GraphPC, ComputePC
  <2> QED
    <3>1. current_chunk' \in Nat /\ DOMAIN computed' = Node
      BY <1>2, <1>3 DEF Inv, TypeInv
    <3> QED
      BY <1>1, <1>2, <1>3, <2>1, <3>1, TypeKept, ZenonT(40) DEF Inv, TypeInv, barrierVars, workerVars, poolVars
<1>5. BarrierInv'
  BY <1>1, <1>2, <1>4, BarrierKept DEF Inv, barrierVars, poolVars
<1>6. OthersStay(t)
  BY <1>2, <1>3, <1>4 DEF OthersStay, barrierVars, workerVars
<1>7. InMid(t, k)' /\ Holds(t)' /\ ~Past(t)' /\ ~Holds(t)
  BY <1>1, <1>2, <1>4 DEF InMid, Has, Holds, Past, Through, workerVars, poolVars
<1>8. \A u \in Team \ {t} : /\ Holds(u)' <=> Holds(u)
                            /\ Past(u)' <=> Past(u)
                            /\ u \in Thread /\ chunk'[u] = chunk[u]
  BY <1>2, <1>3, <1>6, PositionKept DEF OthersStay, Team, poolVars, barrierVars
<1>9. Team' = Team
  BY <1>2 DEF Team, Nth, poolVars
<1>10. ChunksInv(k)'
  <2>1. \A u \in Team : Holds(u)' /\ u # t => chunk'[u] = chunk[u] /\ chunk[u] < current_chunk /\ chunk[u] \in Nat
    BY <1>1, <1>8 DEF ChunksInv, Inv, TypeInv
  <2>2. \A u \in Team : Holds(u)' => chunk'[u] < current_chunk' /\ chunk'[u] \notin DOMAIN computed[k]
    <3>1. current_chunk \notin DOMAIN computed[k]
      BY <1>1, <1>3 DEF ChunksInv
    <3> QED
      BY <1>1, <1>3, <1>8, <2>1, <3>1 DEF ChunksInv
  <2>3. \A u, v \in Team : Holds(u)' /\ Holds(v)' /\ chunk'[u] = chunk'[v] => u = v
    BY <1>1, <1>3, <1>8, <2>1 DEF ChunksInv
  <2>4. ASSUME NEW d \in 0 .. NChunks(k) - 1, d < current_chunk + 1
        PROVE  d \in DOMAIN computed[k] \/ \E u \in Team : Holds(u)' /\ chunk'[u] = d
    <3>1. CASE d = current_chunk
      BY <1>1, <1>3, <1>7, <3>1
    <3>2. CASE d < current_chunk
      BY <1>1, <1>7, <1>8, <3>2 DEF ChunksInv
    <3> QED
      BY <1>3, <2>4, <3>1, <3>2
  <2>5. \A u \in Team : Past(u)' => NChunks(k) <= current_chunk'
    BY <1>1, <1>3, <1>7, <1>8 DEF ChunksInv
  <2>6. \A d \in DOMAIN computed[k] : d \in 0 .. NChunks(k) - 1 /\ d < current_chunk'
    BY <1>1, <1>3 DEF ChunksInv
  <2>7. Nth <= current_chunk'
    BY <1>1, <1>3 DEF ChunksInv
  <2> QED
    BY <1>2, <1>3, <1>9, <2>2, <2>3, <2>4, <2>5, <2>6, <2>7 DEF ChunksInv
<1>11. EachOnce' /\ DoneBefore(k)' /\ NothingFrom(k + 1)' /\ AbortedAt(k)'
  BY <1>1, <1>2, WorkKept DEF Inv, TeamInv, TeamInMid, EachOnce, AbortedAt, poolVars
<1>12. TeamInv'
  BY <1>1, <1>2, <1>6, <1>7, <1>10, <1>11, MidStep DEF poolVars, barrierVars
<1> QED
  BY <1>4, <1>5, <1>12 DEF Inv

\* The end of a node, where thread 0 asks the abort callback, keeps the invariant.
LEMMA AfterInv ==
    ASSUME Inv, NEW t \in Thread, After(t)
    PROVE  Inv'
<1> PICK k \in Node : k = node[t]
  BY InProduct DEF After
<1>1. /\ pc[t] = "after" /\ t \in Team /\ Has(t) /\ TeamInMid(k)
      /\ pc[t] \in GraphPC /\ ~Waits(t) /\ ~Last(t) /\ k \in Nat /\ k + 1 \in 0 .. NNodes /\ k \in 0 .. NNodes
  BY InProduct, Constants DEF After, Node
<1>2. UNCHANGED <<poolVars, n_barrier, n_barrier_passed, n_passed, workVars, workerVars, node>>
  BY DEF After
<1>3. AbortedAt(k)' /\ abort' \in -1 .. NNodes /\ aborted' \in 0 .. NNodes
  <2>1. AbortedAt(k) /\ abort \in -1 .. NNodes /\ aborted \in 0 .. NNodes
    BY <1>1 DEF TeamInMid, AbortedAt, Inv, TypeInv
  <2>2. CASE UNCHANGED <<abort, aborted>>
    BY <2>1, <2>2 DEF AbortedAt
  <2>3. CASE abort' = k + 1 /\ aborted' = IF aborted = NNodes THEN k ELSE aborted
    BY <1>1, <2>1, <2>3 DEF AbortedAt
  <2> QED
    BY <2>2, <2>3 DEF After, AbortNext
<1>4. PICK where \in {"enter", "advance"} :
         /\ pc' = [pc EXCEPT ![t] = where]
         /\ \/ where = "enter" /\ k + 1 < NNodes /\ back' = [back EXCEPT ![t] = "advance"]
            \/ where = "advance" /\ k + 1 = NNodes /\ back' = back
  BY <1>1, Constants DEF After, Barrier, Goto
<1>5. TypeInv' /\ pc'[t] = where /\ \A u \in Thread \ {t} : pc'[u] = pc[u]
  <2>1. back' \in [Thread -> {"idle", "loop", "chunk", "advance"}]
    BY <1>4 DEF Inv, TypeInv
  <2>2. where \in OutPC \cup GraphPC
    BY DEF GraphPC, ComputePC, BarrierPC
  <2> QED
    BY <1>1, <1>2, <1>3, <1>4, <2>1, <2>2, TypeKept DEF Inv, TypeInv, workVars, workerVars, poolVars
<1>6. BarrierInv'
  BY <1>1, <1>2, <1>5, BarrierKept DEF Inv, poolVars
<1>7. OthersStay(t)
  <2>1. \A u \in Thread \ {t} : back'[u] = back[u]
    BY <1>4 DEF Inv, TypeInv
  <2> QED
    BY <1>2, <1>5, <2>1 DEF OthersStay, workVars, workerVars
<1>8. InMid(t, k)' /\ ~Holds(t) /\ ~Holds(t)' /\ Past(t)
  <2>1. Has(t)' /\ node'[t] = k
    BY <1>1, <1>2 DEF Has, workerVars, poolVars
  <2>2. where = "enter" => back'[t] = "advance"
    BY <1>4 DEF Inv, TypeInv
  <2> QED
    BY <1>1, <1>4, <1>5, <2>1, <2>2 DEF InMid, AtBarrier, Holds, Past, Through
<1>9. TeamInv'
  BY <1>1, <1>2, <1>3, <1>7, <1>8, MidMove DEF poolVars, workVars
<1> QED
  BY <1>5, <1>6, <1>9 DEF Inv

\* Going on to the next node keeps the invariant.
LEMMA AdvanceInv ==
    ASSUME Inv, NEW t \in Thread, Advance(t)
    PROVE  Inv'
<1>1. pc[t] = "advance" /\ t \in Team /\ pc[t] \in GraphPC /\ pc' = [pc EXCEPT ![t] = "node"]
  BY InTeam DEF Advance, Goto, GraphPC, ComputePC
<1>2. UNCHANGED <<poolVars, barrierVars, workVars, workerVars, abort, aborted>>
  BY DEF Advance
<1>3. /\ \A k \in 0 .. NNodes : TeamInPre(k) => k > 0 /\ Has(t) /\ node[t] = k - 1
      /\ \A k \in Node : TeamInMid(k) => Has(t) /\ node[t] = k /\ k + 1 = NNodes
  <2>1. ASSUME NEW k \in 0 .. NNodes, TeamInPre(k) PROVE k > 0 /\ Has(t) /\ node[t] = k - 1
    BY <1>1, <2>1 DEF TeamInPre, InPre, Out, InGraph, AtBarrier, Waits, Through, ComputePC
  <2>2. ASSUME NEW k \in Node, TeamInMid(k) PROVE Has(t) /\ node[t] = k /\ k + 1 = NNodes
    BY <1>1, <2>2 DEF TeamInMid, InMid, AtBarrier, Waits, Through
  <2> QED
    BY <2>1, <2>2
<1>4. node[t] + 1 \in 0 .. NNodes
  <2>1. ASSUME NEW k \in 0 .. NNodes, TeamInPre(k) PROVE node[t] + 1 \in 0 .. NNodes
    BY <1>3, <2>1, Constants
  <2>2. ASSUME NEW k \in Node, TeamInMid(k) PROVE node[t] + 1 \in 0 .. NNodes
    BY <1>3, <2>2, Constants
  <2> QED
    BY <1>1, <2>1, <2>2, InTeam DEF GraphPC, ComputePC
<1>5. /\ node' \in [Thread -> 0 .. NNodes] /\ node'[t] = node[t] + 1
      /\ \A u \in Thread \ {t} : node'[u] = node[u]
  <2>1. node \in [Thread -> 0 .. NNodes]
    BY DEF Inv, TypeInv
  <2> QED
    BY <1>4, <2>1 DEF Advance
<1>6. TypeInv' /\ pc'[t] = "node" /\ \A u \in Thread \ {t} : pc'[u] = pc[u]
  <2>1. "node" \in OutPC \cup GraphPC
    BY DEF GraphPC, ComputePC
  <2> QED
    BY <1>1, <1>2, <1>5, <2>1, TypeKept DEF Inv, TypeInv, barrierVars, workVars, workerVars, poolVars
<1>7. BarrierInv'
  BY <1>1, <1>2, <1>6, BarrierKept DEF Inv, barrierVars, poolVars, Waits, Last
<1>8. OthersStay(t) /\ (Has(t)' <=> Has(t))
  BY <1>2, <1>5, <1>6 DEF OthersStay, Has, barrierVars, workVars, workerVars, poolVars
<1>9. ASSUME NEW k \in 0 .. NNodes, TeamInPre(k) PROVE TeamInv'
  <2>1. node'[t] = k /\ Has(t)' /\ Skipped(k, k)'
    BY <1>3, <1>5, <1>8, <1>9 DEF Skipped
  <2>2. InPre(t, k)' /\ ~AtBarrier(t)'
    BY <1>6, <2>1 DEF InPre, AtBarrier, Waits
  <2> QED
    BY <1>1, <1>2, <1>8, <1>9, <2>2, PreStep DEF poolVars, barrierVars, workVars
<1>10. ASSUME NEW k \in Node, TeamInMid(k) PROVE TeamInv'
  <2>1. InMid(t, k)' /\ ~Holds(t) /\ ~Holds(t)' /\ Past(t)
    BY <1>1, <1>3, <1>5, <1>6, <1>8, <1>10 DEF InMid, Holds, Past, Through
  <2>2. AbortedAt(k)'
    BY <1>2, <1>10 DEF TeamInMid, AbortedAt
  <2> QED
    BY <1>1, <1>2, <1>8, <1>10, <2>1, <2>2, MidMove DEF poolVars, barrierVars, workVars
<1> QED
  BY <1>1, <1>6, <1>7, <1>9, <1>10, InTeam DEF Inv, GraphPC, ComputePC

-----------------------------------------------------------------------------
(* The steps of ggml_barrier                                               *)

\* A thread moves on within the barrier.
LEMMA AtBarrierStep ==
    ASSUME Inv, NEW t \in Thread, pc[t] \in {"enter", "arrive", "reset"}, AtBarrier(t)',
           OthersStay(t), pc'[t] \in {"arrive", "reset", "release", "spin"},
           UNCHANGED <<n_graph, n_barrier_passed, abort, aborted, node, back, workVars, workerVars>>
    PROVE  TeamInv'
<1>1. t \in Team /\ AtBarrier(t) /\ pc[t] \in GraphPC
  BY InTeam DEF GraphPC, BarrierPC, AtBarrier
<1>2. Has(t)' <=> Has(t)
  BY DEF Has, workerVars
<1>3. ASSUME NEW k \in 0 .. NNodes, TeamInPre(k) PROVE TeamInv'
  <2>1. /\ Has(t) /\ Skipped(k, node[t])
        /\ \/ back[t] = "chunk" /\ ToCompute(t)
           \/ back[t] = Final(t) /\ GraphEnds(t)
    BY <1>1, <1>3, PreAgrees
  <2>2. InPre(t, k)'
    BY <1>2, <2>1 DEF InPre, Skipped, ToCompute, GraphEnds, Final
  <2>3. back[t] = "chunk" => chunk'[t] = t /\ (t = 0 => current_chunk' = Nth)
    BY <1>1, <1>3 DEF TeamInPre, workVars
  <2> QED
    BY <1>1, <1>3, <2>2, <2>3, PreStep DEF workVars
<1>4. ASSUME NEW k \in Node, TeamInMid(k) PROVE TeamInv'
  <2>1. Has(t) /\ \/ node[t] = k /\ k + 1 < NNodes /\ back[t] = "advance"
                  \/ node[t] = NNodes /\ k + 1 = NNodes /\ back[t] = Final(t)
    BY <1>1, <1>4 DEF TeamInMid, InMid, Through
  <2>2. InMid(t, k)'
    BY <1>2, <2>1 DEF InMid, Final
  <2>3. ~Holds(t) /\ ~Holds(t)' /\ Past(t)
    BY <1>1 DEF Holds, Past, Through, AtBarrier, Waits
  <2>4. AbortedAt(k)'
    BY <1>4 DEF TeamInMid, AbortedAt
  <2> QED
    BY <1>1, <1>4, <2>2, <2>3, <2>4, MidMove DEF workVars
<1> QED
  BY <1>1, <1>3, <1>4, InTeam DEF GraphPC, BarrierPC

\* Where a thread goes on after a barrier is no place inside the barrier.
LEMMA BackIsPC ==
    ASSUME Inv, NEW t \in Thread
    PROVE  /\ back[t] \in {"idle", "loop", "chunk", "advance"} /\ back[t] \in OutPC \cup GraphPC
           /\ back[t] \notin {"arrive", "spin", "reset", "release"}
<1>1. back[t] \in {"idle", "loop", "chunk", "advance"}
  BY DEF Inv, TypeInv
<1> QED
  BY <1>1 DEF OutPC, GraphPC, ComputePC

\* Entering the barrier keeps the invariant.
LEMMA EnterInv ==
    ASSUME Inv, NEW t \in Thread, Enter(t)
    PROVE  Inv'
<1>1. pc[t] = "enter" /\ t \in Team /\ pc[t] \in GraphPC /\ AtBarrier(t)
  BY InTeam DEF Enter, GraphPC, BarrierPC, AtBarrier
<1>2. UNCHANGED <<poolVars, n_barrier, n_barrier_passed, back, workVars, workerVars, abort, aborted, node>>
  BY DEF Enter
<1>3. CASE Nth = 1
  <2>1. pc' = [pc EXCEPT ![t] = back[t]] /\ n_passed' = n_passed
    BY <1>3 DEF Enter, Goto
  <2>2. TypeInv' /\ pc'[t] = back[t] /\ \A u \in Thread \ {t} : pc'[u] = pc[u]
    BY <1>1, <1>2, <2>1, BackIsPC, TypeKept DEF Inv, TypeInv, workVars, workerVars, poolVars
  <2>3. BarrierInv'
    BY <1>1, <1>2, <2>1, <2>2, BackIsPC, BarrierKept DEF Inv, poolVars, Waits, Last
  <2>4. Team = {t}
    <3>1. \A u \in Thread : u < 1 => u = 0
      BY Constants
    <3> QED
      BY <1>1, <1>3, <3>1 DEF Team
  <2>5. \A u \in Thread \ {t} : Out(u)' <=> Out(u)
    BY <1>2, <2>1, <2>2, PositionKept DEF workerVars, poolVars
  <2>6. TeamGoes
    BY <1>1, <1>2, <2>1, <2>2, <2>4, <2>5 DEF TeamGoes, Inv, TeamInv, workVars, workerVars, poolVars
  <2> QED
    BY <1>1, <2>2, <2>3, <2>6, IntervalEnds DEF Inv
<1>4. CASE Nth # 1
  <2>1. /\ pc' = [pc EXCEPT ![t] = "arrive"] /\ n_passed' = [n_passed EXCEPT ![t] = n_barrier_passed]
        /\ n_passed' \in [Thread -> Nat] /\ n_passed'[t] = n_barrier_passed
        /\ \A u \in Thread \ {t} : n_passed'[u] = n_passed[u]
    BY <1>4 DEF Enter, Goto, Inv, TypeInv
  <2>2. TypeInv' /\ pc'[t] = "arrive" /\ \A u \in Thread \ {t} : pc'[u] = pc[u]
    <3>1. "arrive" \in OutPC \cup GraphPC
      BY DEF GraphPC, BarrierPC
    <3> QED
      BY <1>1, <1>2, <2>1, <3>1, TypeKept DEF Inv, TypeInv, workVars, workerVars, poolVars
  <2>3. BarrierInv'
    <3>1. \A u \in Thread : (Waits(u)' <=> Waits(u)) /\ (Last(u)' <=> Last(u))
      BY <1>1, <1>2, <2>1, <2>2 DEF Waits, Last
    <3>2. Waiting' = Waiting /\ Team' = Team /\ Nth' = Nth
      BY <1>2, <3>1 DEF Waiting, Team, Nth, poolVars
    <3>3. \A u \in Thread : n_passed'[u] <= n_barrier_passed
      BY <2>1 DEF Inv, TypeInv, BarrierInv
    <3>4. \A u \in Thread : pc'[u] = "arrive" => n_passed'[u] = n_barrier_passed
      BY <2>1, <2>2 DEF Inv, BarrierInv
    <3>5. \A u \in Thread : pc'[u] \in {"reset", "release"} => pc'[u] = pc[u]
      BY <2>2
    <3> QED
      BY <1>2, <3>1, <3>2, <3>3, <3>4, <3>5 DEF Inv, BarrierInv, poolVars
  <2>4. OthersStay(t) /\ AtBarrier(t)'
    BY <1>2, <2>1, <2>2 DEF OthersStay, AtBarrier, workVars, workerVars
  <2>5. TeamInv'
    BY <1>1, <1>2, <2>2, <2>4, AtBarrierStep DEF poolVars
  <2> QED
    BY <2>2, <2>3, <2>5 DEF Inv
<1> QED
  BY <1>3, <1>4

\* While a thread of the team is not waiting, only that thread may be the last.
LEMMA LastIsAlone ==
    ASSUME Inv, NEW t \in Team, ~Waits(t), NEW u \in Thread, Last(u)
    PROVE  u = t
<1>1. Waiting = Team \ {u}
  BY DEF Inv, BarrierInv
<1>2. t \notin Waiting
  BY DEF Waiting
<1> QED
  BY <1>1, <1>2

\* Being counted at the barrier keeps the invariant.
LEMMA ArriveInv ==
    ASSUME Inv, NEW t \in Thread, Arrive(t)
    PROVE  Inv'
<1>1. pc[t] = "arrive" /\ t \in Team /\ pc[t] \in GraphPC /\ ~Waits(t) /\ n_passed[t] = n_barrier_passed
  BY InTeam DEF Arrive, GraphPC, BarrierPC, Waits, Inv, BarrierInv
<1>2. UNCHANGED <<poolVars, n_barrier_passed, n_passed, back, workVars, workerVars, abort, aborted, node>>
  BY DEF Arrive
<1>3. PICK where \in {"reset", "spin"} :
         /\ pc' = [pc EXCEPT ![t] = where]
         /\ where = "reset" <=> n_barrier = Nth - 1
  BY DEF Arrive, Goto
<1>4. TypeInv' /\ pc'[t] = where /\ \A u \in Thread \ {t} : pc'[u] = pc[u]
  <2>1. n_barrier' \in Nat /\ where \in OutPC \cup GraphPC
    BY DEF Arrive, Inv, TypeInv, GraphPC, BarrierPC
  <2> QED
    BY <1>1, <1>2, <1>3, <2>1, TypeKept DEF Inv, TypeInv, workVars, workerVars, poolVars
<1>5. \A u \in Thread : ~Last(u)
  BY <1>1, LastIsAlone DEF Last
<1>6. /\ Waiting \subseteq Team \ {t} /\ Waiting \subseteq Team
      /\ Nth \in Nat /\ IsFiniteSet(Team) /\ Cardinality(Team) = Nth
      /\ n_barrier = Cardinality(Waiting) /\ n_barrier \in Nat
  BY <1>1, <1>5, TeamSize DEF Inv, TypeInv, BarrierInv, Waiting
<1>7. IsFiniteSet(Waiting) /\ IsFiniteSet(Team \ {t}) /\ Cardinality(Team \ {t}) = Nth - 1
  BY <1>1, <1>6, FS_Subset, FS_RemoveElement
<1>8. Team' = Team /\ Nth' = Nth /\ n_barrier' = n_barrier + 1
  BY <1>2 DEF Arrive, Team, Nth, poolVars
<1>9. \A u \in Thread \ {t} : (Waits(u)' <=> Waits(u)) /\ ~Last(u)'
  BY <1>2, <1>4, <1>5 DEF Waits, Last
<1>10. /\ \A u \in Thread : n_passed'[u] <= n_barrier_passed'
       /\ \A u \in Thread : pc'[u] = "arrive" => n_passed'[u] = n_barrier_passed'
  BY <1>2, <1>3, <1>4 DEF Inv, BarrierInv
<1>11. BarrierInv'
  <2>1. CASE where = "reset"
    <3>1. Waiting = Team \ {t}
      BY <1>3, <1>6, <1>7, <2>1, FS_Subset
    <3>2. Waiting' = Waiting
      <4>1. ~Waits(t)'
        BY <1>4, <2>1 DEF Waits
      <4> QED
        BY <1>1, <1>9, <4>1 DEF Waiting
    <3>3. Last(t)' /\ n_barrier' = Nth
      BY <1>3, <1>4, <1>6, <1>8, <2>1 DEF Last
    <3>4. \A u \in Thread : pc'[u] # "release"
      BY <1>4, <1>9, <2>1 DEF Last
    <3> QED
      BY <1>6, <1>8, <1>9, <1>10, <3>1, <3>2, <3>3, <3>4 DEF BarrierInv, Last
  <2>2. CASE where = "spin"
    <3>1. Waits(t)' /\ ~Last(t)'
      BY <1>1, <1>2, <1>4, <2>2 DEF Waits, Last
    <3>2. Waiting' = Waiting \cup {t}
      BY <1>9, <3>1 DEF Waiting
    <3>3. Cardinality(Waiting') = n_barrier + 1 /\ Waiting' \subseteq Team
      BY <1>1, <1>6, <1>7, <3>2, FS_AddElement
    <3>4. Waiting' # Team
      BY <1>3, <1>6, <2>2, <3>3
    <3>5. \A u \in Thread : ~Last(u)' /\ pc'[u] # "reset" /\ pc'[u] # "release"
      BY <1>9, <3>1 DEF Last
    <3> QED
      BY <1>8, <1>10, <3>3, <3>4, <3>5 DEF BarrierInv
  <2> QED
    BY <2>1, <2>2
<1>12. OthersStay(t) /\ AtBarrier(t)'
  BY <1>1, <1>2, <1>4 DEF OthersStay, AtBarrier, Waits, workVars, workerVars
<1>13. TeamInv'
  BY <1>1, <1>2, <1>4, <1>12, AtBarrierStep DEF poolVars
<1> QED
  BY <1>4, <1>11, <1>13 DEF Inv

\* The last thread resetting the counter of the barrier keeps the invariant.
LEMMA ResetInv ==
    ASSUME Inv, NEW t \in Thread, Reset(t)
    PROVE  Inv'
<1>1. pc[t] = "reset" /\ t \in Team /\ pc[t] \in GraphPC /\ ~Waits(t) /\ Last(t)
  BY InTeam DEF Reset, GraphPC, BarrierPC, Waits, Last
<1>2. /\ UNCHANGED <<poolVars, n_barrier_passed, n_passed, back, workVars, workerVars, abort, aborted, node>>
      /\ n_barrier' = 0 /\ pc' = [pc EXCEPT ![t] = "release"]
  BY DEF Reset, Goto
<1>3. TypeInv' /\ pc'[t] = "release" /\ \A u \in Thread \ {t} : pc'[u] = pc[u]
  <2>1. 0 \in Nat /\ "release" \in OutPC \cup GraphPC
    BY DEF GraphPC, BarrierPC
  <2> QED
    BY <1>1, <1>2, <2>1, TypeKept DEF Inv, TypeInv, workVars, workerVars, poolVars
<1>4. \A u \in Thread : (Waits(u)' <=> Waits(u)) /\ (Last(u)' <=> Last(u))
  BY <1>1, <1>2, <1>3 DEF Waits, Last
<1>5. Waiting' = Waiting /\ Team' = Team
  BY <1>2, <1>4 DEF Waiting, Team, Nth, poolVars
<1>6. \A u \in Thread : pc'[u] # "reset" /\ (pc'[u] = "arrive" => pc[u] = "arrive")
  BY <1>1, <1>3, <1>4, LastIsAlone DEF Last
<1>7. BarrierInv'
  BY <1>1, <1>2, <1>4, <1>5, <1>6 DEF Inv, BarrierInv
<1>8. OthersStay(t) /\ AtBarrier(t)'
  BY <1>2, <1>3 DEF OthersStay, AtBarrier, workVars, workerVars
<1>9. TeamInv'
  BY <1>1, <1>2, <1>3, <1>8, AtBarrierStep DEF poolVars
<1> QED
  BY <1>3, <1>7, <1>9 DEF Inv

\* The last thread opening the barrier keeps the invariant.
LEMMA ReleaseInv ==
    ASSUME Inv, NEW t \in Thread, Release(t)
    PROVE  Inv'
<1>1. pc[t] = "release" /\ t \in Team /\ pc[t] \in GraphPC /\ ~Waits(t) /\ Last(t) /\ n_barrier = 0
  BY InTeam DEF Release, GraphPC, BarrierPC, Waits, Last, Inv, BarrierInv
<1>2. /\ UNCHANGED <<poolVars, n_barrier, n_passed, back, workVars, workerVars, abort, aborted, node>>
      /\ n_barrier_passed' = n_barrier_passed + 1 /\ pc' = [pc EXCEPT ![t] = back[t]]
      /\ n_barrier_passed \in Nat
  BY DEF Release, Goto, Inv, TypeInv
<1>3. TypeInv' /\ pc'[t] = back[t] /\ \A u \in Thread \ {t} : pc'[u] = pc[u]
  <2>1. n_barrier_passed' \in Nat
    BY <1>2
  <2> QED
    BY <1>1, <1>2, <2>1, BackIsPC, TypeKept DEF Inv, TypeInv, workVars, workerVars, poolVars
<1>4. Waiting = Team \ {t} /\ \A u \in Thread : n_passed[u] \in Nat /\ n_passed[u] <= n_barrier_passed
  BY <1>1 DEF Inv, TypeInv, BarrierInv
<1>5. Team' = Team
  BY <1>2 DEF Team, Nth, poolVars
<1>6. \A u \in Thread : ~Waits(u)' /\ ~Last(u)'
  BY <1>1, <1>2, <1>3, <1>4, LastIsAlone, BackIsPC DEF Waits, Last
<1>7. \A u \in Thread : pc'[u] # "arrive"
  <2>1. ASSUME NEW u \in Thread, pc[u] = "arrive" PROVE FALSE
    <3>1. u \in Team /\ u # t
      BY <1>1, <2>1, InTeam DEF GraphPC, BarrierPC
    <3> QED
      BY <1>4, <2>1, <3>1 DEF Waiting, Waits
  <2> QED
    BY <1>3, <2>1, BackIsPC
<1>8. BarrierInv'
  <2>1. Waiting' = {} /\ Cardinality({}) = 0
    BY <1>6, FS_EmptySet DEF Waiting
  <2>2. \A u \in Thread : n_passed'[u] <= n_barrier_passed'
    BY <1>2, <1>4
  <2>3. \A u \in Thread : pc'[u] # "reset" /\ pc'[u] # "release"
    BY <1>6 DEF Last
  <2> QED
    BY <1>1, <1>2, <1>6, <1>7, <2>1, <2>2, <2>3 DEF BarrierInv
<1>9. TeamGoes
  <2>1. \A u \in Team : AtBarrier(u)
    BY <1>1, <1>4 DEF AtBarrier, Waiting
  <2>2. ASSUME NEW u \in Team PROVE pc'[u] = back[u] \/ Through(u)'
    <3>1. CASE u = t
      BY <1>3, <3>1
    <3>2. CASE u # t
      <4>1. u \in Thread \ {t} /\ Waits(u)
        BY <1>4, <3>2 DEF Team, Waiting
      <4> QED
        BY <1>2, <1>3, <4>1 DEF Waits, Through
    <3> QED
      BY <3>1, <3>2
  <2>3. ASSUME NEW u \in Thread \ Team PROVE Out(u)'
    <3>1. Out(u) /\ u # t /\ pc'[u] = pc[u]
      BY <1>1, <1>3 DEF Inv, TeamInv
    <3>2. Through(u) => Through(u)'
      BY <1>2, <1>4, <3>1 DEF Through
    <3> QED
      BY <1>2, <3>1, <3>2 DEF Out, InGraph, Final
  <2> QED
    BY <1>2, <2>1, <2>2, <2>3 DEF TeamGoes, workVars, workerVars, poolVars
<1> QED
  BY <1>1, <1>3, <1>8, <1>9, IntervalEnds DEF Inv

\* Leaving the barrier keeps the invariant.
LEMMA SpinInv ==
    ASSUME Inv, NEW t \in Thread, Spin(t)
    PROVE  Inv'
<1>1. pc[t] = "spin" /\ Through(t) /\ ~Waits(t) /\ ~Last(t) /\ ~AtBarrier(t) /\ pc[t] \in GraphPC
  BY DEF Spin, Through, Waits, Last, AtBarrier, GraphPC, BarrierPC
<1>2. /\ UNCHANGED <<poolVars, barrierVars, workVars, workerVars, abort, aborted, node>>
      /\ pc' = [pc EXCEPT ![t] = back[t]]
  BY DEF Spin, Goto
<1>3. TypeInv' /\ pc'[t] = back[t] /\ \A u \in Thread \ {t} : pc'[u] = pc[u]
  BY <1>1, <1>2, BackIsPC, TypeKept DEF Inv, TypeInv, barrierVars, workVars, workerVars, poolVars
<1>4. BarrierInv'
  BY <1>1, <1>2, <1>3, BackIsPC, BarrierKept DEF Inv, barrierVars, poolVars
<1>5. OthersStay(t) /\ ~AtBarrier(t)' /\ (Has(t)' <=> Has(t))
  BY <1>2, <1>3, BackIsPC DEF OthersStay, AtBarrier, Waits, Has, barrierVars, workVars, workerVars, poolVars
<1>6. CASE Out(t)
  <2>1. Out(t)'
    BY <1>1, <1>3, <1>6 DEF Out, InGraph, Final, ComputePC, BarrierPC
  <2>2. TeamInv'
    BY <1>2, <1>5, <1>6, <2>1, OutStep DEF barrierVars, workVars, workerVars, poolVars
  <2> QED
    BY <1>3, <1>4, <2>2 DEF Inv
<1>7. CASE ~Out(t)
  <2>1. t \in Team /\ ~TeamIsDone
    BY <1>7 DEF Inv, TeamInv, TeamIsDone
  <2>2. ASSUME NEW k \in 0 .. NNodes, TeamInPre(k) PROVE TeamInv'
    <3>1. k > 0 /\ Has(t) /\ node[t] = k - 1 /\ back[t] = "advance"
      BY <1>1, <1>7, <2>1, <2>2 DEF TeamInPre, InPre
    <3>2. InPre(t, k)'
      BY <1>2, <1>3, <1>5, <3>1 DEF InPre
    <3> QED
      BY <1>2, <1>5, <2>1, <2>2, <3>2, PreStep DEF poolVars, barrierVars, workVars
  <2>3. ASSUME NEW k \in Node, TeamInMid(k) PROVE TeamInv'
    <3>1. Has(t) /\ node[t] = k /\ back[t] = "chunk"
      BY <1>1, <2>1, <2>3 DEF TeamInMid, InMid
    <3>2. InMid(t, k)' /\ Holds(t) /\ Holds(t)' /\ ~Past(t)'
      BY <1>1, <1>2, <1>3, <1>5, <3>1 DEF InMid, Holds, Past
    <3>3. AbortedAt(k)'
      BY <1>2, <2>3 DEF TeamInMid, AbortedAt
    <3> QED
      BY <1>2, <1>5, <2>1, <2>3, <3>2, <3>3, MidMove DEF poolVars, barrierVars, workVars
  <2> QED
    BY <1>3, <1>4, <2>1, <2>2, <2>3 DEF Inv, TeamInv
<1> QED
  BY <1>6, <1>7

-----------------------------------------------------------------------------
(* The theorems                                                            *)

\* Every step of owner and workers keeps the invariant.
LEMMA StepInv == Inv /\ [Next]_vars => Inv'
<1> SUFFICES ASSUME Inv, [Next]_vars PROVE Inv'
  OBVIOUS
<1>1. ASSUME NEW t \in Thread, ThreadStep(t) PROVE Inv'
  BY <1>1, ComputeInv, NodeLoopInv, ProductInv, ComputeChunkInv, NextChunkInv, AfterInv,
     AdvanceInv, EnterInv, ArriveInv, ResetInv, ReleaseInv, SpinInv DEF ThreadStep
<1>2. ASSUME UNCHANGED vars PROVE Inv'
  <2>1. /\ UNCHANGED <<pc, n_graph, last_graph, pending, node, chunk, current_chunk, n_barrier,
                       n_barrier_passed, n_passed, back, abort, aborted, computed>>
    BY <1>2 DEF vars, poolVars, barrierVars, workVars, workerVars
  <2>2. TypeInv'
    BY <2>1 DEF Inv, TypeInv
  <2>3. BarrierInv'
    BY <2>1, BarrierKept, <2>2 DEF Inv
  <2>4. TeamInv'
    <3>1. 0 \in Thread /\ OthersStay(0)
      BY <2>1, Constants DEF OthersStay
    <3>2. \A u \in Thread : /\ Out(u)' <=> Out(u)
                            /\ Has(u)' <=> Has(u)
                            /\ Holds(u)' <=> Holds(u)
                            /\ Past(u)' <=> Past(u)
                            /\ AtBarrier(u)' <=> AtBarrier(u)
                            /\ \A k : InMid(u, k)' <=> InMid(u, k)
                            /\ \A k : InPre(u, k)' <=> InPre(u, k)
      BY <2>1, PositionKept
    <3>3. Team' = Team /\ Team \subseteq Thread /\ Nth' = Nth /\ \A k : NChunks(k)' = NChunks(k)
      BY <2>1 DEF Team, Nth, NChunks
    <3>4. \A k : /\ DoneBefore(k)' <=> DoneBefore(k)
                 /\ NothingFrom(k)' <=> NothingFrom(k)
                 /\ Complete(k)' <=> Complete(k)
                 /\ AbortedBefore(k)' <=> AbortedBefore(k)
      BY <2>1, WorkKept DEF AbortedBefore
    <3>5. \A k : ChunksInv(k) => ChunksInv(k)'
      BY <2>1, <3>2, <3>3 DEF ChunksInv
    <3>6. \A k : TeamInPre(k) => TeamInPre(k)'
      BY <2>1, <3>2, <3>3, <3>4 DEF TeamInPre
    <3>7. \A k : TeamInMid(k) => TeamInMid(k)'
      BY <2>1, <3>2, <3>3, <3>4, <3>5 DEF TeamInMid
    <3>8. TeamIsDone => TeamIsDone'
      BY <2>1, <3>2, <3>3, <3>4 DEF TeamIsDone
    <3> QED
      BY <2>1, <3>2, <3>3, <3>6, <3>7, <3>8 DEF Inv, TeamInv
  <2> QED
    BY <2>2, <2>3, <2>4 DEF Inv
<1> QED
  BY <1>1, <1>2, KickoffInv, OwnerInv, WorkerInv DEF Next

\* All threads that compute a graph are between the same two barriers, each waiting
\* thread is counted once, and each chunk of a product is in one hand.
THEOREM InvCorrect == Spec => []Inv
<1> QED
  BY InitInv, StepInv, PTL DEF Spec

\* The invariant has the type invariant of the module as a part.
LEMMA InvTypes ==
    ASSUME Inv
    PROVE  TypeOK
<1>1. n_barrier \in 0 .. Nth
  <2>1. Nth \in Nat /\ IsFiniteSet(Team) /\ Cardinality(Team) = Nth /\ n_barrier \in Nat
    BY TeamSize DEF Inv, TypeInv
  <2>2. CASE \E t \in Thread : Last(t)
    BY <2>1, <2>2 DEF Inv, BarrierInv, Last
  <2>3. CASE \A t \in Thread : ~Last(t)
    <3>1. n_barrier = Cardinality(Waiting) /\ Waiting \subseteq Team
      BY <2>3 DEF Inv, BarrierInv
    <3>2. Cardinality(Waiting) <= Nth
      BY <2>1, <3>1, FS_Subset
    <3> QED
      BY <2>1, <3>1, <3>2
  <2> QED
    BY <2>2, <2>3
<1>2. ASSUME NEW w \in Worker, pc[w] = "begin" PROVE last_graph[w] = n_graph
  <2>1. w \in Thread /\ w # 0 /\ ~Out(w)
    BY <1>2, Constants DEF Worker, Out, InGraph, Through
  <2>2. w \in Team /\ ~TeamIsDone
    BY <2>1 DEF Inv, TeamInv, TeamIsDone
  <2>3. ASSUME NEW k \in 0 .. NNodes, TeamInPre(k) PROVE Has(w)
    BY <1>2, <2>1, <2>2, <2>3 DEF TeamInPre, InPre, AtBarrier, Waits, Through
  <2>4. ASSUME NEW k \in Node, TeamInMid(k) PROVE Has(w)
    BY <2>2, <2>4 DEF TeamInMid, InMid
  <2> QED
    BY <2>1, <2>2, <2>3, <2>4 DEF Inv, TeamInv, Has
<1>3. pc \in [Thread -> {"idle", "join", "freed", "loop", "paused", "poll", "pollgraph", "lock",
                         "begin", "exit"} \cup ComputePC \cup BarrierPC]
  <2>1. OutPC \cup {"begin"} = {"idle", "join", "freed", "loop", "paused", "poll", "pollgraph",
                                "lock", "begin", "exit"}
    BY DEF OutPC
  <2> QED
    BY <2>1 DEF Inv, TypeInv
<1> QED
  BY <1>1, <1>2, <1>3 DEF TypeOK, Inv, TypeInv

\* For any number of threads: no thread starts a node before the ones it depends on are
\* complete, and no chunk is computed twice.
THEOREM NodesInOrderCorrect == Spec => []NodesInOrder
<1>1. Inv => NodesInOrder
  <2> SUFFICES ASSUME Inv PROVE NodesInOrder
    OBVIOUS
  <2>1. ASSUME NEW n \in Node, computed[n] # NothingComputed[n] PROVE DoneBefore(n)
    <3>1. ASSUME NEW k \in 0 .. NNodes, DoneBefore(k), NothingFrom(k) PROVE DoneBefore(n)
      BY <2>1, <3>1, Constants DEF DoneBefore, NothingFrom, Node
    <3>2. ASSUME NEW k \in Node, TeamInMid(k) PROVE DoneBefore(n)
      BY <2>1, <3>2, Constants DEF TeamInMid, DoneBefore, NothingFrom, Node
    <3> QED
      BY <2>1, <3>1, <3>2 DEF Inv, TeamInv, TeamInPre, TeamIsDone
  <2>2. \A n \in Node : \A m \in 0 .. n - 1 : m \in Node /\ m < n
    BY Constants DEF Node
  <2> QED
    BY <2>1, <2>2, InvTypes DEF NodesInOrder, DoneBefore, Inv, TeamInv
<1> QED
  BY <1>1, InvCorrect, PTL

\* For any number of threads: when the owner has its graph back no worker has it any
\* more, and exactly the nodes up to an abort were computed.
THEOREM GraphIsComputedCorrect == Spec => []GraphIsComputed
<1>1. Inv => GraphIsComputed
  <2> SUFFICES ASSUME Inv PROVE GraphIsComputed
    OBVIOUS
  <2>1. ASSUME pc[0] \in {"idle", "join"} PROVE TeamIsDone /\ \A t \in Thread : Out(t)
    BY <2>1, OwnerIsOut DEF InGraph, ComputePC, BarrierPC
  <2>2. \A w \in Worker : Out(w) => HasLeft(w)
    BY DEF Out, HasLeft, Through
  <2> QED
    BY <2>1, <2>2, Constants DEF GraphIsComputed, TeamIsDone
<1> QED
  BY <1>1, InvCorrect, PTL

=============================================================================
