------------------------- MODULE RecurrentMemoryProofs -------------------------
(***************************************************************************)
(* Proofs about the memory of recurrent models, for any number of cells,   *)
(* any batches and any calls: the tails, the sets of the cells, the rows   *)
(* and their number belong together, find_slot finds cells for every       *)
(* ubatch, so that none of its assertions fails, and every sequence is in  *)
(* the state after its own tokens.                                         *)
(*                                                                         *)
(* find_slot is three loops and a final pass.  Each loop is a recursive    *)
(* function in the model; LoopExists and LoopReaches (SequenceProofs) give  *)
(* its value and carry an invariant of its steps to the end.  The invariants say where   *)
(* the state of a sequence is while cells are left (Without), taken        *)
(* (InTaking), swapped (IsGathered) and filled (FilledIn), and SlotOK what *)
(* that comes to.                                                          *)
(*                                                                         *)
(* The second half is about the rows.  SInv says which states are in them  *)
(* between two calls; Evaluate and Fail are followed from the slot that    *)
(* find_slot returns to the rows that the graph reads and writes; and      *)
(* TailsTogether says what a split leaves for the last ubatch of each      *)
(* sequence, which has to write all the snapshots of it.                   *)
(***************************************************************************)
EXTENDS RecurrentMemory, SequenceProofs

-----------------------------------------------------------------------------
(* The memory: sound memories, and sequences that leave them               *)

\* What a cell is
CellState == [pos : -1 .. MaxPos, src : -1 .. Size - 1, seq_id : SUBSET SeqId]
Memories == [cells : [Cell -> CellState], tail : [SeqId -> -1 .. Size - 1], head : Cell, used : Int,
             rs_idx : [SeqId -> Nat]]

\* The tails name the cells that have the sequences.
Linked(m) == \A s \in SeqId, i \in Cell : m.tail[s] = i <=> s \in m.cells[i].seq_id
\* A cell has a position if it is in use, and its state is in its own row.
Settles(m) ==
    \A i \in Cell : /\ m.cells[i].seq_id = {} <=> m.cells[i].pos = -1
                    /\ m.cells[i].src \in {-1, i}
                    /\ m.cells[i].seq_id # {} => m.cells[i].src = i
\* used is the number of the cells in use.
Counted(m) == m.used = Cardinality(InUse(m.cells))
\* A memory in which the tails, the sets and the rows belong together
Sound(m) == m \in Memories /\ Linked(m) /\ Settles(m)

\* n is m without the sequences in S: cells that have lost all of theirs are blank.
Emptied(m, S, i) == m.cells[i].seq_id \subseteq S /\ m.cells[i].seq_id # {}
\* Two cells have the same position and row.
SameState(a, b) == a.pos = b.pos /\ a.src = b.src
NoState(a) == a.pos = -1 /\ a.src = -1
\* n is m after the sequences in S have left.
Without(m, n, S) ==
    /\ n.head = m.head /\ n.rs_idx = m.rs_idx
    /\ \A s \in SeqId : (s \in S => n.tail[s] = -1) /\ (s \notin S => n.tail[s] = m.tail[s])
    /\ \A i \in Cell : n.cells[i].seq_id = m.cells[i].seq_id \ S
    /\ \A i \in Cell : Emptied(m, S, i) => NoState(n.cells[i])
    /\ \A i \in Cell : ~Emptied(m, S, i) => SameState(n.cells[i], m.cells[i])

\* Every memory has a cell and a sequence of each number.
LEMMA SizeIs == /\ Size \in Nat \ {0} /\ MaxPos \in Nat /\ Blank \in CellState
                /\ \A n \in 1 .. Size : n - 1 \in SeqId /\ n - 1 \in Cell /\ n \in 0 .. Size /\ n - 1 \in 0 .. Size
  BY RecurrentAssumption DEF SeqId, Cell, Blank, CellState

\* There are as many cells as the memory has, at most.
LEMMA CellsAreFinite ==
    ASSUME NEW S \in SUBSET Cell
    PROVE  IsFiniteSet(S) /\ Cardinality(S) \in 0 .. Size
<1>1. IsFiniteSet(Cell) /\ Cardinality(Cell) = Size
  BY SizeIs, FS_Interval DEF Cell
<1>2. IsFiniteSet(S) /\ Cardinality(S) <= Cardinality(Cell)
  BY <1>1, FS_Subset
<1> QED
  BY <1>1, <1>2, FS_CardinalityType, SizeIs

\* A memory that some sequences have left is sound if it was.
LEMMA WithoutIsSound ==
    ASSUME NEW m, Sound(m), NEW n \in Memories, NEW S \in SUBSET SeqId, Without(m, n, S)
    PROVE  Sound(n)
<1>1. ASSUME NEW i \in Cell
      PROVE  /\ n.cells[i].seq_id = {} <=> n.cells[i].pos = -1
             /\ n.cells[i].src \in {-1, i}
             /\ n.cells[i].seq_id # {} => n.cells[i].src = i
  <2>1. /\ m.cells[i].seq_id = {} <=> m.cells[i].pos = -1
        /\ m.cells[i].src \in {-1, i}
        /\ m.cells[i].seq_id # {} => m.cells[i].src = i
    BY DEF Sound, Settles
  <2>2. n.cells[i].seq_id = m.cells[i].seq_id \ S
    BY DEF Without
  <2>3. CASE Emptied(m, S, i)
    <3>1. n.cells[i].pos = -1 /\ n.cells[i].src = -1
      BY <2>3 DEF Without, NoState
    <3>2. n.cells[i].seq_id = {}
      BY <2>2, <2>3 DEF Emptied
    <3> QED
      BY <3>1, <3>2
  <2>4. CASE ~Emptied(m, S, i)
    <3>1. n.cells[i].pos = m.cells[i].pos /\ n.cells[i].src = m.cells[i].src
      BY <2>4 DEF Without, SameState
    <3>2. n.cells[i].seq_id = {} <=> m.cells[i].seq_id = {}
      BY <2>2, <2>4 DEF Emptied
    <3> QED
      BY <2>1, <3>1, <3>2
  <2> QED
    BY <2>3, <2>4
<1>2. ASSUME NEW s \in SeqId, NEW i \in Cell PROVE n.tail[s] = i <=> s \in n.cells[i].seq_id
  <2>1. m.tail[s] = i <=> s \in m.cells[i].seq_id
    BY DEF Sound, Linked
  <2>2. n.cells[i].seq_id = m.cells[i].seq_id \ S /\ i # -1
    BY DEF Without, Cell
  <2>3. (s \in S => n.tail[s] = -1) /\ (s \notin S => n.tail[s] = m.tail[s])
    BY DEF Without
  <2> QED
    BY <2>1, <2>2, <2>3
<1> QED
  BY <1>1, <1>2 DEF Sound, Linked, Settles

\* Nobody leaves a memory where nobody of them was.
LEMMA WithoutNobody ==
    ASSUME NEW m, NEW S, \A s \in SeqId : s \in S => m.tail[s] = -1, \A i \in Cell : m.cells[i].seq_id \cap S = {}
    PROVE  Without(m, m, S)
<1>1. ASSUME NEW i \in Cell PROVE m.cells[i].seq_id = m.cells[i].seq_id \ S /\ ~Emptied(m, S, i)
  BY DEF Emptied
<1> QED
  BY <1>1 DEF Without, SameState

\* Leave() makes one sequence leave, and counts the cell that it leaves empty.
LEMMA LeaveIs ==
    ASSUME NEW m, Sound(m), NEW s \in SeqId
    PROVE  Leave(m, s) \in Memories /\ Without(m, Leave(m, s), {s}) /\ (Counted(m) => Counted(Leave(m, s)))
<1> DEFINE i == m.tail[s]
           n == Leave(m, s)
<1>1. m \in Memories /\ m.cells \in [Cell -> CellState] /\ m.tail \in [SeqId -> -1 .. Size - 1] /\ i \in -1 .. Size - 1
  BY DEF Sound, Memories
<1>2. CASE i < 0
  <2>1. n = m
    BY <1>2 DEF Leave
  <2>2. \A j \in Cell : s \notin m.cells[j].seq_id
    BY <1>1, <1>2 DEF Sound, Linked, Cell
  <2>3. Without(m, m, {s})
    BY <1>1, <1>2, <2>2, WithoutNobody
  <2> QED
    BY <1>1, <2>1, <2>3
<1>3. CASE i >= 0
  <2>1. i \in Cell /\ s \in m.cells[i].seq_id /\ \A j \in Cell : j # i => s \notin m.cells[j].seq_id
    BY <1>1, <1>3 DEF Sound, Linked, Cell
  <2> DEFINE c == IF m.cells[i].seq_id = {s} THEN Blank ELSE Named(m.cells[i], m.cells[i].seq_id \ {s})
  <2>2. n = [m EXCEPT !.tail = [m.tail EXCEPT ![s] = -1], !.cells = [m.cells EXCEPT ![i] = c],
                      !.used = IF m.cells[i].seq_id = {s} THEN @ - 1 ELSE @]
    BY <1>1, <1>3 DEF Leave, Memories
  <2>3. c \in CellState /\ c.seq_id = m.cells[i].seq_id \ {s}
        /\ c.pos = (IF m.cells[i].seq_id = {s} THEN -1 ELSE m.cells[i].pos)
        /\ c.src = (IF m.cells[i].seq_id = {s} THEN -1 ELSE m.cells[i].src)
    BY <1>1, <2>1, SizeIs DEF CellState, Blank, Named
  <2> HIDE DEF n
  <2>4. n \in Memories /\ n.head = m.head /\ n.rs_idx = m.rs_idx /\ n.tail = [m.tail EXCEPT ![s] = -1]
        /\ n.cells = [m.cells EXCEPT ![i] = c] /\ n.used = IF m.cells[i].seq_id = {s} THEN m.used - 1 ELSE m.used
    <3> HIDE DEF c, i
    <3>1. c \in CellState /\ -1 \in -1 .. Size - 1
      BY <2>3, SizeIs
    <3>2. [m.cells EXCEPT ![i] = c] \in [Cell -> CellState]
      BY <1>1, <3>1
    <3>3. [m.tail EXCEPT ![s] = -1] \in [SeqId -> -1 .. Size - 1]
      BY <1>1, <3>1
    <3>4. m.used - 1 \in Int /\ m.used \in Int
      BY <1>1 DEF Memories
    <3> QED
      BY <1>1, <2>2, <3>2, <3>3, <3>4 DEF Memories
  <2>5. n.tail[s] = -1 /\ \A z \in SeqId : z # s => n.tail[z] = m.tail[z]
    BY <1>1, <2>4
  <2>6. n.cells[i] = c /\ \A j \in Cell : j # i => n.cells[j] = m.cells[j]
    BY <1>1, <2>1, <2>4
  <2>7. Emptied(m, {s}, i) <=> m.cells[i].seq_id = {s}
    BY <2>1 DEF Emptied
  <2> HIDE DEF i, c
  <2>8. Without(m, n, {s})
    <3>1. ASSUME NEW j \in Cell
          PROVE  /\ n.cells[j].seq_id = m.cells[j].seq_id \ {s}
                 /\ Emptied(m, {s}, j) => NoState(n.cells[j])
                 /\ ~Emptied(m, {s}, j) => SameState(n.cells[j], m.cells[j])
      <4>1. CASE j = i
        BY <2>3, <2>6, <2>7, <4>1 DEF NoState, SameState
      <4>2. CASE j # i
        <5>1. m.cells[j].seq_id \ {s} = m.cells[j].seq_id /\ ~Emptied(m, {s}, j)
          BY <2>1, <4>2 DEF Emptied
        <5> QED
          BY <2>6, <4>2, <5>1 DEF SameState
      <4> QED
        BY <4>1, <4>2
    <3> QED
      BY <2>4, <2>5, <3>1 DEF Without
  <2>9. InUse(n.cells) = IF m.cells[i].seq_id = {s} THEN InUse(m.cells) \ {i} ELSE InUse(m.cells)
    BY <2>1, <2>3, <2>6 DEF InUse
  <2>10. IsFiniteSet(InUse(m.cells)) /\ i \in InUse(m.cells)
    BY <2>1, CellsAreFinite DEF InUse
  <2>11. Cardinality(InUse(m.cells) \ {i}) = Cardinality(InUse(m.cells)) - 1
    BY <2>10, FS_RemoveElement
  <2>12. Counted(m) => Counted(n)
    BY <2>4, <2>9, <2>11 DEF Counted
  <2> QED
    BY <2>4, <2>8, <2>12 DEF n
<1> QED
  BY <1>1, <1>2, <1>3

\* Those that leave one after the other leave together.
LEMMA WithoutTransitive ==
    ASSUME NEW m, NEW n, NEW o, NEW S \in SUBSET SeqId, NEW T \in SUBSET SeqId, Without(m, n, S), Without(n, o, T)
    PROVE  Without(m, o, S \cup T)
<1>1. \A s \in SeqId : (s \in S \cup T => o.tail[s] = -1) /\ (s \notin S \cup T => o.tail[s] = m.tail[s])
  BY DEF Without
<1>2. ASSUME NEW i \in Cell
      PROVE  /\ o.cells[i].seq_id = m.cells[i].seq_id \ (S \cup T)
             /\ Emptied(m, S \cup T, i) => NoState(o.cells[i])
             /\ ~Emptied(m, S \cup T, i) => SameState(o.cells[i], m.cells[i])
  <2>1. n.cells[i].seq_id = m.cells[i].seq_id \ S /\ o.cells[i].seq_id = n.cells[i].seq_id \ T
    BY DEF Without
  <2>2. /\ Emptied(m, S, i) => NoState(n.cells[i])
        /\ ~Emptied(m, S, i) => SameState(n.cells[i], m.cells[i])
        /\ Emptied(n, T, i) => NoState(o.cells[i])
        /\ ~Emptied(n, T, i) => SameState(o.cells[i], n.cells[i])
    BY DEF Without
  <2>3. Emptied(m, S \cup T, i) <=> Emptied(m, S, i) \/ Emptied(n, T, i)
    BY <2>1 DEF Emptied
  <2>4. o.cells[i].seq_id = m.cells[i].seq_id \ (S \cup T)
    BY <2>1
  <2>5. Emptied(m, S, i) => ~Emptied(n, T, i)
    BY <2>1 DEF Emptied
  <2> QED
    BY <2>2, <2>3, <2>4, <2>5 DEF NoState, SameState
<1> QED
  BY <1>1, <1>2 DEF Without

\* The first loop of find_slot: all that join another sequence leave.
LEMMA UnsharedIs ==
    ASSUME NEW m, Sound(m), NEW sets
    PROVE  LET n == Unshared(m, sets)
           IN Sound(n) /\ Without(m, n, Joining(sets) \cap SeqId)
<1> DEFINE N == Size
           Step(n, x) == IF n - 1 \in Joining(sets) THEN Leave(x, n - 1) ELSE x
           J(n) == Joining(sets) \cap (0 .. n - 1)
           G == [n \in 0 .. N |-> {x \in Memories : Sound(x) /\ Without(m, x, J(n))}]
           h == [n \in 1 .. N |-> [x \in G[n - 1] |-> Step(n, x)]]
           f == CHOOSE f : f = [n \in 0 .. N |-> IF n = 0 THEN m ELSE Step(n, f[n - 1])]
<1>1. m \in G[0] /\ N \in Nat
  <2>1. J(0) = {}
    OBVIOUS
  <2>2. Without(m, m, {})
    BY WithoutNobody
  <2> QED
    BY <2>1, <2>2, SizeIs DEF Sound
<1>2. ASSUME NEW n \in 1 .. N, NEW x \in G[n - 1] PROVE Step(n, x) \in G[n]
  <2>1. n \in 0 .. N /\ n - 1 \in 0 .. N /\ n - 1 \in SeqId
    BY SizeIs
  <2>2. x \in Memories /\ Sound(x) /\ Without(m, x, J(n - 1))
    BY <2>1
  <2>3. J(n - 1) \in SUBSET SeqId
    <3>1. 0 .. ((n - 1) - 1) \subseteq SeqId
      BY <2>1, SizeIs DEF SeqId
    <3> QED
      BY <3>1
  <2>4. CASE n - 1 \in Joining(sets)
    <3>1. J(n) = J(n - 1) \cup {n - 1}
      BY <2>1, <2>4
    <3> HIDE DEF J
    <3>2. Leave(x, n - 1) \in Memories /\ Without(x, Leave(x, n - 1), {n - 1})
      BY <2>1, <2>2, LeaveIs
    <3>3. Sound(Leave(x, n - 1)) /\ Without(m, Leave(x, n - 1), J(n))
      BY <2>1, <2>2, <2>3, <3>1, <3>2, WithoutIsSound, WithoutTransitive
    <3> QED
      BY <2>1, <2>4, <3>2, <3>3
  <2>5. CASE n - 1 \notin Joining(sets)
    <3>1. J(n) = J(n - 1)
      BY <2>1, <2>5
    <3> QED
      BY <2>1, <2>2, <2>5, <3>1
  <2> QED
    BY <2>4, <2>5
<1> HIDE DEF Step, G
<1>3. \A n \in 1 .. N : \A x \in G[n - 1] : h[n][x] = Step(n, x) /\ h[n][x] \in G[n]
  BY <1>2
<1> HIDE DEF h
<1>4. PICK g : IsLoop(g, m, h, G, N)
  BY <1>1, <1>3, LoopExists
<1>5. ASSUME NEW n \in 0 .. N PROVE g[n] = IF n = 0 THEN m ELSE Step(n, g[n - 1])
  <2>1. n # 0 => n \in 1 .. N
    BY <1>1
  <2> QED
    BY <1>3, <1>4, <2>1 DEF IsLoop, Runs
<1>6. f = [n \in 0 .. N |-> IF n = 0 THEN m ELSE Step(n, f[n - 1])]
  <2>1. g = [n \in 0 .. N |-> IF n = 0 THEN m ELSE Step(n, g[n - 1])]
    BY <1>4, <1>5 DEF IsLoop
  <2> QED
    BY <2>1
<1> HIDE DEF f
<1>7. f[0] \in G[0] /\ \A n \in 1 .. N : f[n - 1] \in G[n - 1] => f[n] \in G[n]
  <2>1. f[0] = m
    BY <1>1, <1>6
  <2>2. ASSUME NEW n \in 1 .. N PROVE f[n] = Step(n, f[n - 1])
    <3>1. n \in 0 .. N /\ n # 0
      BY <1>1
    <3> QED
      BY <1>6, <3>1
  <2> QED
    BY <1>1, <1>2, <2>1, <2>2
<1>8. f[N] \in G[N]
  BY <1>1, <1>7, LoopReaches
<1>9. Unshared(m, sets) = f[N]
  BY DEF Unshared, f, Step
<1>10. Sound(f[N]) /\ Without(m, f[N], J(N)) /\ J(N) = Joining(sets) \cap SeqId
  BY <1>1, <1>8 DEF G, SeqId
<1> QED
  BY <1>9, <1>10

-----------------------------------------------------------------------------
(* find_slot, second loop: every first sequence gets a cell of its own     *)

\* The row of an empty cell that is not going to be zeroed
Spare(b, r) == r \in Cell /\ b.cells[r].seq_id = {} /\ b.cells[r].src = r
\* Cell i of n has the state that its sequences have in b, or is empty.
TracedCell(b, n, i) ==
    /\ \A s \in SeqId : s \in n.cells[i].seq_id =>
          n.tail[s] = i /\ b.tail[s] >= 0 /\ n.cells[i].src = b.tail[s] /\ n.cells[i].pos = b.cells[b.tail[s]].pos
    /\ n.cells[i].seq_id = {} => n.cells[i].pos = -1 /\ (n.cells[i].src = -1 \/ Spare(b, n.cells[i].src))
Traced(b, n) == \A i \in Cell : TracedCell(b, n, i)
\* The tails of n: those in D have a cell of their own, and the others had one in b if they have one.
Tailed(b, n, D) ==
    /\ \A s \in SeqId : b.tail[s] >= 0 => n.tail[s] >= 0 /\ s \in n.cells[n.tail[s]].seq_id
    /\ \A s \in SeqId \ D : b.tail[s] < 0 => n.tail[s] < 0
    /\ \A s \in D : n.tail[s] >= 0 /\ n.cells[n.tail[s]].seq_id \subseteq {s}
    /\ \A s \in D : \A z \in SeqId \ {s} : n.tail[z] # n.tail[s]
\* n has every state that b has, and those in D have a cell of their own.
Holds(b, n, D) ==
    /\ n \in Memories /\ n.head = b.head /\ n.rs_idx = b.rs_idx
    /\ Traced(b, n) /\ Tailed(b, n, D)

\* The types of the cells and of the tails
LEMMA CellTypes ==
    ASSUME NEW n \in Memories
    PROVE  /\ \A i \in Cell : n.cells[i] \in CellState /\ n.cells[i].seq_id \in SUBSET SeqId
                              /\ n.cells[i].src \in -1 .. Size - 1 /\ n.cells[i].pos \in -1 .. MaxPos
           /\ \A s \in SeqId : n.tail[s] \in -1 .. Size - 1 /\ (n.tail[s] >= 0 <=> n.tail[s] \in Cell)
                               /\ (n.tail[s] < 0 <=> n.tail[s] \notin Cell)
<1>1. n.cells \in [Cell -> CellState] /\ n.tail \in [SeqId -> -1 .. Size - 1]
  BY DEF Memories
<1>2. ASSUME NEW i \in Cell
      PROVE  n.cells[i] \in CellState /\ n.cells[i].seq_id \in SUBSET SeqId
             /\ n.cells[i].src \in -1 .. Size - 1 /\ n.cells[i].pos \in -1 .. MaxPos
  <2>1. n.cells[i] \in CellState
    BY <1>1
  <2> QED
    BY <2>1 DEF CellState
<1>3. ASSUME NEW s \in SeqId
      PROVE  n.tail[s] \in -1 .. Size - 1 /\ (n.tail[s] >= 0 <=> n.tail[s] \in Cell) /\ (n.tail[s] < 0 <=> n.tail[s] \notin Cell)
  <2>1. n.tail[s] \in -1 .. Size - 1
    BY <1>1
  <2> QED
    BY <2>1, SizeIs DEF Cell
<1> QED
  BY <1>2, <1>3

\* At the start every state is where it was.
LEMMA SoundHolds == ASSUME NEW b, Sound(b) PROVE Holds(b, b, {})
<1>1. b \in Memories
  BY DEF Sound
<1>2. ASSUME NEW i \in Cell PROVE TracedCell(b, b, i)
  <2>1. ASSUME NEW s \in SeqId, s \in b.cells[i].seq_id PROVE b.tail[s] = i /\ b.tail[s] >= 0 /\ b.cells[i].src = b.tail[s]
    <3>1. b.tail[s] = i
      BY <2>1 DEF Sound, Linked
    <3>2. b.cells[i].src = i
      BY <2>1 DEF Sound, Settles
    <3> QED
      BY <3>1, <3>2 DEF Cell
  <2>2. b.cells[i].seq_id = {} => b.cells[i].pos = -1 /\ (b.cells[i].src = -1 \/ Spare(b, b.cells[i].src))
    BY DEF Sound, Settles, Spare
  <2> QED
    BY <2>1, <2>2 DEF TracedCell
<1>3. \A s \in SeqId : b.tail[s] >= 0 => s \in b.cells[b.tail[s]].seq_id
  BY <1>1, CellTypes DEF Sound, Linked
<1> QED
  BY <1>1, <1>2, <1>3 DEF Holds, Traced, Tailed

\* The cells that are the tail of a sequence
Occupied(n) == {i \in Cell : \E s \in SeqId : n.tail[s] = i}

\* A cell that a sequence is in is the tail of that sequence.
LEMMA MembersOccupy ==
    ASSUME NEW b, NEW n, NEW D, Holds(b, n, D), NEW i \in Cell, n.cells[i].seq_id # {}
    PROVE  i \in Occupied(n)
<1>1. PICK s \in SeqId : s \in n.cells[i].seq_id
  BY CellTypes DEF Holds
<1>2. n.tail[s] = i
  BY <1>1 DEF Holds, Traced, TracedCell
<1> QED
  BY <1>2 DEF Occupied

\* If every cell is the tail of a sequence, each sequence has one of its own.
LEMMA FullMeansOwn ==
    ASSUME NEW b \in Memories, NEW n, NEW D \in SUBSET SeqId, Holds(b, n, D), Cell \subseteq Occupied(n), NEW s \in SeqId \ D
    PROVE  n.tail[s] >= 0 /\ n.cells[n.tail[s]].seq_id = {s}
<1> DEFINE S == {z \in SeqId : n.tail[z] \in Cell}
           g == [z \in S |-> n.tail[z]]
<1>1. IsFiniteSet(SeqId) /\ Cardinality(SeqId) = Cardinality(Cell)
  BY SizeIs, FS_Interval DEF SeqId, Cell
<1>2. g \in [S -> Cell] /\ \A i \in Cell : \E z \in S : g[z] = i
  BY DEF Occupied
<1>3. g \in Surjection(S, Cell)
  BY <1>2 DEF Surjection
<1>4. S \in SUBSET SeqId
  OBVIOUS
<1>5. IsFiniteSet(S) /\ Cardinality(S) <= Cardinality(SeqId) /\ (Cardinality(SeqId) = Cardinality(S) => SeqId = S)
  BY <1>1, <1>4, FS_Subset
<1> HIDE DEF S, g
<1>6. IsFiniteSet(Cell) /\ Cardinality(Cell) <= Cardinality(S) /\ (Cardinality(Cell) = Cardinality(S) <=> g \in Injection(S, Cell))
  BY <1>3, <1>5, FS_Surjection
<1>7. Cardinality(S) \in Nat /\ Cardinality(Cell) \in Nat
  BY <1>5, <1>6, FS_CardinalityType
<1>8. S = SeqId /\ g \in Injection(S, Cell)
  BY <1>1, <1>5, <1>6, <1>7
<1>9. \A y, z \in SeqId : n.tail[y] = n.tail[z] => y = z
  <2>1. \A y, z \in S : g[y] = g[z] => y = z
    BY <1>8 DEF Injection, IsInjective
  <2> QED
    BY <1>8, <2>1 DEF g
<1>10. n.tail[s] \in Cell
  BY <1>8 DEF S
<1>11. s \in n.cells[n.tail[s]].seq_id
  <2>1. n.tail[s] >= 0
    BY <1>10 DEF Cell
  <2>2. b.tail[s] >= 0 \/ b.tail[s] < 0
    BY CellTypes
  <2> QED
    BY <1>10, <2>1, <2>2 DEF Holds, Tailed, Cell
<1>12. \A z \in SeqId : z \in n.cells[n.tail[s]].seq_id => z = s
  BY <1>9, <1>10 DEF Holds, Traced, TracedCell
<1>13. n.cells[n.tail[s]].seq_id \in SUBSET SeqId
  BY <1>10, CellTypes DEF Holds
<1> QED
  BY <1>10, <1>11, <1>12, <1>13 DEF Cell

\* How far cell i is from cell a, going up and around
Dist(a, i) == IF i >= a THEN i - a ELSE i - a + Size

\* The search returns the first empty cell that it comes to, or a cell in use if there is none.
LEMMA NextEmptyIs ==
    ASSUME NEW c, NEW from \in 0 .. Size
    PROVE  LET r == NextEmpty(c, from)
           IN  /\ r \in Cell
               /\ \/ \A i \in Cell : c[i].seq_id # {}
                  \/ /\ c[r].seq_id = {}
                     /\ \A i \in Cell : Dist(from, i) < Dist(from, r) => c[i].seq_id # {}
<1> DEFINE empty == {k \in 0 .. Size - 1 : c[Around(from + k)].seq_id = {}}
           r == NextEmpty(c, from)
<1>1. \A k \in 0 .. Size - 1 : Around(from + k) \in Cell /\ Dist(from, Around(from + k)) = k
  BY SizeIs DEF Around, Cell, Dist
<1>2. \A i \in Cell : Dist(from, i) \in 0 .. Size - 1 /\ Around(from + Dist(from, i)) = i
  BY SizeIs DEF Around, Cell, Dist
<1>3. CASE empty = {}
  <2>1. r = Around(from) /\ Around(from) = Around(from + 0) /\ 0 \in 0 .. Size - 1
    BY <1>3, SizeIs DEF NextEmpty
  <2>2. \A i \in Cell : c[i].seq_id # {}
    BY <1>2, <1>3
  <2> QED
    BY <1>1, <2>1, <2>2
<1>4. CASE empty # {}
  <2>1. empty \in SUBSET Nat
    BY SizeIs
  <2>2. Min(empty) \in empty /\ \A k \in empty : Min(empty) <= k
    BY <1>4, <2>1, MinIsLeast
  <2>3. r = Around(from + Min(empty))
    BY <1>4 DEF NextEmpty
  <2>4. r \in Cell /\ Dist(from, r) = Min(empty) /\ c[r].seq_id = {}
    BY <1>1, <2>2, <2>3
  <2>5. ASSUME NEW i \in Cell, Dist(from, i) < Dist(from, r) PROVE c[i].seq_id # {}
    <3>1. Dist(from, i) \notin empty
      BY <1>2, <2>1, <2>2, <2>4, <2>5
    <3> QED
      BY <1>2, <3>1
  <2> QED
    BY <2>4, <2>5
<1> QED
  BY <1>3, <1>4

\* There is an empty cell, next the first one from a on, or nobody needs one.
Room(n, a, next) ==
    \/ Cell \subseteq Occupied(n)
    \/ /\ next \notin Occupied(n)
       /\ \A i \in Cell : Dist(a, i) < Dist(a, next) => i \in Occupied(n)
       /\ \A i \in Occupied(n) : n.cells[i].seq_id = {} => Dist(a, i) < Dist(a, next)
\* The cells that those in D have not taken have their state in their own row.
AtHome(n, D) == \A i \in Cell : (\A s \in D : n.tail[s] # i) => n.cells[i].src \in {-1, i}
\* The second loop of find_slot, when those in D have got their cells: nothing was asserted in vain.
InTaking(b, f, D) ==
    /\ f.next \in Cell /\ f.ok = TRUE
    /\ Holds(b, f.m, D) /\ AtHome(f.m, D)
    /\ \A s \in SeqId \ D : f.m.tail[s] = b.tail[s]

\* o is n after sequence s has got cell i.
HasGot(n, o, s, i) ==
    /\ o \in Memories /\ o.head = n.head /\ o.rs_idx = n.rs_idx
    /\ o.tail[s] = i /\ \A z \in SeqId \ {s} : o.tail[z] = n.tail[z]
    /\ \A j \in Cell \ {i, n.tail[s]} : o.cells[j] = n.cells[j]
    /\ n.tail[s] < 0 => o.cells[i] = n.cells[i]
    /\ n.tail[s] >= 0 => /\ o.cells[i].seq_id = {s} /\ SameState(o.cells[i], n.cells[n.tail[s]])
                         /\ o.cells[n.tail[s]].seq_id = n.cells[n.tail[s]].seq_id \ {s}
                         /\ SameState(o.cells[n.tail[s]], n.cells[n.tail[s]])

\* A sequence takes a cell: the tail and the two cells change, and nothing else.
LEMMA TookIs ==
    ASSUME NEW n \in Memories, NEW s \in SeqId, NEW i \in Cell, n.tail[s] # i
    PROVE  HasGot(n, Took(n, s, i), s, i)
<1> DEFINE old == n.tail[s]
           o == Took(n, s, i)
           tail == [n.tail EXCEPT ![s] = i]
<1>1. n.cells \in [Cell -> CellState] /\ n.tail \in [SeqId -> -1 .. Size - 1] /\ old \in -1 .. Size - 1 /\ i \in -1 .. Size - 1
      /\ n.head \in Cell /\ n.rs_idx \in [SeqId -> Nat] /\ n.used \in Int
  BY DEF Memories, Cell
<1>2. tail \in [SeqId -> -1 .. Size - 1] /\ tail[s] = i /\ \A z \in SeqId \ {s} : tail[z] = n.tail[z]
  BY <1>1
<1>3. CASE old < 0
  <2>1. o = [n EXCEPT !.tail = tail, !.cells = [n.cells EXCEPT ![i] = n.cells[i]]]
    BY <1>3 DEF Took, Memories
  <2>2. [n.cells EXCEPT ![i] = n.cells[i]] = n.cells
    BY <1>1
  <2> HIDE DEF o, tail
  <2>3. o.tail = tail /\ o.cells = n.cells /\ o.head = n.head /\ o.rs_idx = n.rs_idx /\ o \in Memories
    BY <1>1, <1>2, <2>1, <2>2 DEF Memories
  <2>4. o.tail[s] = i /\ \A z \in SeqId \ {s} : o.tail[z] = n.tail[z]
    BY <1>2, <2>3
  <2>5. HasGot(n, o, s, i)
    <3>1. ~(old >= 0)
      BY <1>1, <1>3
    <3> HIDE DEF old
    <3>2. o \in Memories /\ o.head = n.head /\ o.rs_idx = n.rs_idx /\ o.cells = n.cells
      BY <2>3
    <3> QED
      BY <2>4, <3>1, <3>2 DEF HasGot, old
  <2> QED
    BY <2>5 DEF o
<1>4. CASE old >= 0
  <2> DEFINE a == Named(n.cells[old], {s})
             e == Named(n.cells[old], n.cells[old].seq_id \ {s})
             cells == [n.cells EXCEPT ![i] = a, ![old] = e]
  <2>1. old \in Cell /\ old # i
    BY <1>1, <1>4 DEF Cell
  <2>2. /\ a \in CellState /\ a.seq_id = {s} /\ SameState(a, n.cells[old])
        /\ e \in CellState /\ e.seq_id = n.cells[old].seq_id \ {s} /\ SameState(e, n.cells[old])
    <3>1. n.cells[old] \in CellState
      BY <1>1, <2>1
    <3> HIDE DEF old
    <3> QED
      BY <3>1 DEF Named, SameState, CellState
  <2>3. o = [n EXCEPT !.tail = tail, !.cells = cells]
    <3>1. [n.cells EXCEPT ![i] = a][old] = n.cells[old]
      BY <1>1, <2>1
    <3>2. o = [[n EXCEPT !.tail = tail, !.cells = [n.cells EXCEPT ![i] = a]]
                  EXCEPT !.cells = [[n.cells EXCEPT ![i] = a] EXCEPT ![old] = Named(n.cells[old], n.cells[old].seq_id \ {s})]]
      BY <1>1, <1>4, <2>1 DEF Took, Memories, Named
    <3> QED
      BY <3>2
  <2>4. cells \in [Cell -> CellState] /\ cells[i] = a /\ cells[old] = e /\ \A j \in Cell \ {i, old} : cells[j] = n.cells[j]
    BY <1>1, <2>1, <2>2
  <2> HIDE DEF o, tail, cells
  <2>5. o.tail = tail /\ o.cells = cells /\ o.head = n.head /\ o.rs_idx = n.rs_idx /\ o \in Memories
    BY <1>1, <1>2, <2>3, <2>4 DEF Memories
  <2>6. o.tail[s] = i /\ \A z \in SeqId \ {s} : o.tail[z] = n.tail[z]
    BY <1>2, <2>5
  <2> HIDE DEF a, e, old
  <2>7. /\ o.cells[i].seq_id = {s} /\ SameState(o.cells[i], n.cells[old])
        /\ o.cells[old].seq_id = n.cells[old].seq_id \ {s} /\ SameState(o.cells[old], n.cells[old])
        /\ \A j \in Cell \ {i, old} : o.cells[j] = n.cells[j]
    BY <2>2, <2>4, <2>5
  <2>8. HasGot(n, o, s, i)
    BY <1>1, <1>4, <2>5, <2>6, <2>7 DEF HasGot, old
  <2> QED
    BY <2>8 DEF o
<1> QED
  BY <1>1, <1>3, <1>4

\* o is n after a sequence that is then in D has got cell i.
GetsOwn(b, n, o, D, i) ==
    /\ Holds(b, o, D) /\ AtHome(o, D)
    /\ \A z \in SeqId \ D : o.tail[z] = b.tail[z]
    /\ Occupied(o) = Occupied(n) \cup {i}
    /\ \A j \in Cell : o.cells[j].seq_id = {} => n.cells[j].seq_id = {}

\* A sequence that takes a cell that nobody occupies has it to itself, with the state it had.
LEMMA FreshlyTaken ==
    ASSUME NEW b, Sound(b), NEW n, NEW D \in SUBSET SeqId, NEW s \in SeqId \ D, NEW i \in Cell,
           Holds(b, n, D), AtHome(n, D), \A z \in SeqId \ D : n.tail[z] = b.tail[z],
           i \notin Occupied(n), n.tail[s] >= 0 => n.cells[n.tail[s]].seq_id # {s}
    PROVE  GetsOwn(b, n, Took(n, s, i), D \cup {s}, i)
<1> DEFINE o == Took(n, s, i)
           old == n.tail[s]
<1>1. n \in Memories /\ b \in Memories /\ n.tail[s] # i /\ s \in SeqId
  BY DEF Holds, Sound, Occupied
<1>2. HasGot(n, o, s, i)
  BY <1>1, TookIs
<1> HIDE DEF o
<1>3. n.cells[i].seq_id = {}
  BY MembersOccupy
<1>4. old \in -1 .. Size - 1 /\ (old >= 0 <=> old \in Cell) /\ (old < 0 <=> old \notin Cell)
  BY <1>1, CellTypes
<1>5. old >= 0 => s \in n.cells[old].seq_id
  BY <1>1, <1>4, CellTypes DEF Holds, Tailed
<1>6. old = b.tail[s]
  OBVIOUS
<1>7. ASSUME old >= 0 PROVE \E z \in SeqId : z # s /\ z \in n.cells[old].seq_id /\ n.tail[z] = old
  <2>1. n.cells[old].seq_id \in SUBSET SeqId
    BY <1>1, <1>4, <1>7, CellTypes
  <2>2. PICK z \in SeqId : z # s /\ z \in n.cells[old].seq_id
    BY <1>5, <1>7, <2>1
  <2>3. n.tail[z] = old
    BY <1>4, <1>7, <2>2 DEF Holds, Traced, TracedCell
  <2> QED
    BY <2>2, <2>3
<1>8. ASSUME NEW j \in Cell PROVE TracedCell(b, o, j)
  <2>1. TracedCell(b, n, j)
    BY DEF Holds, Traced
  <2>2. CASE j # i /\ j # old
    <3>1. o.cells[j] = n.cells[j]
      BY <1>2, <2>2 DEF HasGot
    <3>2. \A z \in SeqId : z \in o.cells[j].seq_id => o.tail[z] = n.tail[z]
      BY <1>2, <2>1, <2>2, <3>1 DEF HasGot, TracedCell
    <3> QED
      BY <2>1, <3>1, <3>2 DEF TracedCell
  <2>3. CASE j = i /\ old < 0
    <3>1. o.cells[j] = n.cells[j]
      BY <1>2, <2>3 DEF HasGot
    <3> QED
      BY <1>3, <2>1, <2>3, <3>1 DEF TracedCell
  <2>4. CASE j = i /\ old >= 0
    <3>1. o.cells[j].seq_id = {s} /\ o.cells[j].pos = n.cells[old].pos /\ o.cells[j].src = n.cells[old].src /\ o.tail[s] = j
      BY <1>2, <2>4 DEF HasGot, SameState
    <3>2. TracedCell(b, n, old)
      BY <1>4, <2>4 DEF Holds, Traced
    <3>3. n.cells[old].src = b.tail[s] /\ n.cells[old].pos = b.cells[b.tail[s]].pos
      BY <1>1, <1>5, <2>4, <3>2 DEF TracedCell
    <3> QED
      BY <1>6, <2>4, <3>1, <3>3 DEF TracedCell
  <2>5. CASE j = old /\ j # i
    <3>1. old >= 0
      BY <1>4, <2>5
    <3>2. o.cells[j].seq_id = n.cells[j].seq_id \ {s} /\ o.cells[j].pos = n.cells[j].pos /\ o.cells[j].src = n.cells[j].src
      BY <1>2, <2>5, <3>1 DEF HasGot, SameState
    <3>3. o.cells[j].seq_id # {}
      BY <1>7, <2>5, <3>1, <3>2
    <3>4. \A z \in SeqId \ {s} : o.tail[z] = n.tail[z]
      BY <1>2 DEF HasGot
    <3> QED
      BY <2>1, <3>2, <3>3, <3>4 DEF TracedCell
  <2>6. old < 0 \/ old >= 0
    BY <1>4
  <2> HIDE DEF old
  <2> QED
    BY <2>2, <2>3, <2>4, <2>5, <2>6
<1>9. Occupied(o) = Occupied(n) \cup {i}
  <2>1. ASSUME NEW j \in Occupied(n) PROVE j \in Occupied(o)
    <3>1. PICK z \in SeqId : n.tail[z] = j
      BY DEF Occupied
    <3>2. CASE z # s
      BY <1>2, <3>1, <3>2 DEF HasGot, Occupied
    <3>3. CASE z = s
      <4>1. old >= 0
        BY <1>4, <3>1, <3>3 DEF Occupied
      <4>2. PICK y \in SeqId : y # s /\ n.tail[y] = old
        BY <1>7, <4>1
      <4> QED
        BY <1>2, <3>1, <3>3, <4>2 DEF HasGot, Occupied
    <3> QED
      BY <3>2, <3>3
  <2>2. i \in Occupied(o)
    BY <1>2 DEF HasGot, Occupied
  <2>3. ASSUME NEW j \in Occupied(o), j # i PROVE j \in Occupied(n)
    BY <1>2, <2>3 DEF HasGot, Occupied
  <2> QED
    BY <2>1, <2>2, <2>3
<1>10. Tailed(b, o, D \cup {s})
  <2>1. ASSUME NEW z \in SeqId, b.tail[z] >= 0 PROVE o.tail[z] >= 0 /\ z \in o.cells[o.tail[z]].seq_id
    <3>1. n.tail[z] >= 0 /\ z \in n.cells[n.tail[z]].seq_id /\ n.tail[z] \in Cell
      BY <1>1, <2>1, CellTypes DEF Holds, Tailed
    <3>2. CASE z = s
      BY <1>2, <1>6, <2>1, <3>2, SizeIs DEF HasGot, Cell
    <3>3. CASE z # s
      <4>1. o.tail[z] = n.tail[z] /\ n.tail[z] # i
        BY <1>2, <3>1, <3>3 DEF HasGot, Occupied
      <4>2. CASE n.tail[z] = old
        BY <1>2, <3>1, <3>3, <4>1, <4>2 DEF HasGot
      <4>3. CASE n.tail[z] # old
        BY <1>2, <3>1, <4>1, <4>3 DEF HasGot
      <4> QED
        BY <4>2, <4>3
    <3> QED
      BY <3>2, <3>3
  <2>2. ASSUME NEW z \in SeqId \ (D \cup {s}), b.tail[z] < 0 PROVE o.tail[z] < 0
    BY <1>2, <2>2 DEF HasGot
  <2>3. ASSUME NEW z \in SeqId \ {s} PROVE o.tail[z] # o.tail[s]
    BY <1>2 DEF HasGot, Occupied
  <2>4. o.tail[s] >= 0 /\ o.cells[o.tail[s]].seq_id \subseteq {s}
    BY <1>2, <1>3, <1>4 DEF HasGot, Cell
  <2>5. ASSUME NEW z \in D PROVE o.tail[z] >= 0 /\ o.cells[o.tail[z]].seq_id \subseteq {z}
    <3>1. n.tail[z] >= 0 /\ n.cells[n.tail[z]].seq_id \subseteq {z} /\ n.tail[s] # n.tail[z] /\ z # s /\ n.tail[z] \in Cell
      BY <1>1, CellTypes DEF Holds, Tailed
    <3>2. o.tail[z] = n.tail[z] /\ n.tail[z] # i
      BY <1>2, <3>1 DEF HasGot, Occupied
    <3>3. o.cells[n.tail[z]] = n.cells[n.tail[z]]
      BY <1>2, <3>1, <3>2 DEF HasGot
    <3> QED
      BY <3>1, <3>2, <3>3
  <2>6. ASSUME NEW z \in D, NEW y \in SeqId \ {z} PROVE o.tail[y] # o.tail[z]
    <3>1. n.tail[y] # n.tail[z] /\ o.tail[z] = n.tail[z]
      BY <1>2 DEF Holds, Tailed, HasGot
    <3>2. CASE y = s
      BY <2>3, <3>2
    <3>3. CASE y # s
      BY <1>2, <3>1, <3>3 DEF HasGot
    <3> QED
      BY <3>2, <3>3
  <2> QED
    BY <2>1, <2>2, <2>3, <2>4, <2>5, <2>6 DEF Tailed
<1>11. AtHome(o, D \cup {s})
  <2> SUFFICES ASSUME NEW j \in Cell, \A z \in D \cup {s} : o.tail[z] # j PROVE o.cells[j].src \in {-1, j}
    BY DEF AtHome
  <2>1. j # i
    BY <1>2 DEF HasGot
  <2>2. \A z \in D : n.tail[z] # j
    BY <1>2 DEF HasGot
  <2>3. n.cells[j].src \in {-1, j}
    BY <2>2 DEF AtHome
  <2>4. CASE j = old
    BY <1>2, <1>4, <2>3, <2>4 DEF HasGot, SameState
  <2>5. CASE j # old
    BY <1>2, <2>1, <2>3, <2>5 DEF HasGot
  <2> QED
    BY <2>4, <2>5
<1>12. ASSUME NEW j \in Cell, o.cells[j].seq_id = {} PROVE n.cells[j].seq_id = {}
  <2>1. CASE j = i
    BY <1>3, <2>1
  <2>2. CASE j = old /\ j # i
    <3>1. o.cells[old].seq_id = n.cells[old].seq_id \ {s}
      BY <1>2, <1>4, <2>2 DEF HasGot
    <3> QED
      BY <1>4, <1>7, <1>12, <2>2, <3>1
  <2>3. CASE j # old /\ j # i
    BY <1>2, <1>12, <2>3 DEF HasGot
  <2> QED
    BY <2>1, <2>2, <2>3
<1>13. \A z \in SeqId \ (D \cup {s}) : o.tail[z] = b.tail[z]
  BY <1>2 DEF HasGot
<1>14. Holds(b, o, D \cup {s})
  BY <1>2, <1>8, <1>10 DEF Holds, Traced, HasGot
<1> QED
  BY <1>9, <1>11, <1>12, <1>13, <1>14 DEF o, GetsOwn

\* The first search finds room.
LEMMA RoomFound ==
    ASSUME NEW b, Sound(b), NEW a \in Cell
    PROVE  NextEmpty(b.cells, a) \in Cell /\ Room(b, a, NextEmpty(b.cells, a))
<1> DEFINE r == NextEmpty(b.cells, a)
<1>1. a \in 0 .. Size
  BY SizeIs DEF Cell
<1>2. /\ r \in Cell
      /\ \/ \A i \in Cell : b.cells[i].seq_id # {}
         \/ /\ b.cells[r].seq_id = {}
            /\ \A i \in Cell : Dist(a, i) < Dist(a, r) => b.cells[i].seq_id # {}
  BY <1>1, NextEmptyIs
<1> HIDE DEF r
<1>3. Holds(b, b, {})
  BY SoundHolds
<1>4. \A i \in Cell : b.cells[i].seq_id # {} => i \in Occupied(b)
  BY <1>3, MembersOccupy
<1>5. ASSUME NEW i \in Occupied(b) PROVE b.cells[i].seq_id # {}
  BY DEF Occupied, Sound, Linked
<1>6. Room(b, a, r)
  <2>1. CASE \A i \in Cell : b.cells[i].seq_id # {}
    BY <1>4, <2>1 DEF Room
  <2>2. CASE b.cells[r].seq_id = {} /\ \A i \in Cell : Dist(a, i) < Dist(a, r) => b.cells[i].seq_id # {}
    BY <1>4, <1>5, <2>2 DEF Room
  <2> QED
    BY <1>2, <2>1, <2>2
<1> QED
  BY <1>2, <1>6 DEF r

\* The distances from a and from the cell behind i agree on the cells behind i.
LEMMA DistFrom ==
    ASSUME NEW a \in Cell, NEW i \in Cell, NEW j \in Cell
    PROVE  /\ Dist(a, j) \in 0 .. Size - 1 /\ (Dist(a, j) = Dist(a, i) <=> j = i)
           /\ Dist(a, j) > Dist(a, i) => Dist(i + 1, j) = Dist(a, j) - Dist(a, i) - 1
           /\ Dist(a, j) <= Dist(a, i) => Dist(i + 1, j) = Dist(a, j) - Dist(a, i) - 1 + Size
  BY SizeIs DEF Dist, Cell

\* After a cell was taken, the search goes on from there and finds room again.
LEMMA RoomKept ==
    ASSUME NEW n, NEW o, NEW a \in Cell, NEW i \in Cell, Room(n, a, i), i \notin Occupied(n),
           Occupied(o) = Occupied(n) \cup {i},
           \A j \in Cell : o.cells[j].seq_id = {} => n.cells[j].seq_id = {},
           \A j \in Cell : o.cells[j].seq_id # {} => j \in Occupied(o)
    PROVE  NextEmpty(o.cells, i + 1) \in Cell /\ Room(o, a, NextEmpty(o.cells, i + 1))
<1> DEFINE r == NextEmpty(o.cells, i + 1)
<1>1. i + 1 \in 0 .. Size
  BY SizeIs DEF Cell
<1>2. /\ r \in Cell
      /\ \/ \A j \in Cell : o.cells[j].seq_id # {}
         \/ /\ o.cells[r].seq_id = {}
            /\ \A j \in Cell : Dist(i + 1, j) < Dist(i + 1, r) => o.cells[j].seq_id # {}
  BY <1>1, NextEmptyIs
<1> HIDE DEF r
<1>3. /\ \A j \in Cell : Dist(a, j) < Dist(a, i) => j \in Occupied(n)
      /\ \A j \in Occupied(n) : n.cells[j].seq_id = {} => Dist(a, j) < Dist(a, i)
  BY DEF Room
<1>4. CASE \A j \in Cell : o.cells[j].seq_id # {}
  BY <1>2, <1>4 DEF Room, r
<1>5. CASE o.cells[r].seq_id = {} /\ \A j \in Cell : Dist(i + 1, j) < Dist(i + 1, r) => o.cells[j].seq_id # {}
  <2>1. CASE Dist(a, r) <= Dist(a, i)
    <3>1. ASSUME NEW j \in Cell PROVE j \in Occupied(o)
      <4>1. CASE Dist(a, j) < Dist(a, i)
        BY <1>3, <4>1
      <4>2. CASE j = i
        BY <4>2
      <4>3. CASE Dist(a, j) > Dist(a, i)
        <5>1. Dist(i + 1, j) < Dist(i + 1, r)
          <6>1. Dist(i + 1, j) = Dist(a, j) - Dist(a, i) - 1 /\ Dist(a, j) \in 0 .. Size - 1
            BY <4>3, DistFrom
          <6>2. Dist(i + 1, r) = Dist(a, r) - Dist(a, i) - 1 + Size /\ Dist(a, r) \in 0 .. Size - 1 /\ Dist(a, i) \in 0 .. Size - 1
            BY <1>2, <2>1, DistFrom
          <6> QED
            BY <6>1, <6>2, SizeIs
        <5> QED
          BY <1>5, <5>1
      <4>4. Dist(a, j) \in Int /\ Dist(a, i) \in Int /\ (Dist(a, j) = Dist(a, i) <=> j = i)
        BY DistFrom
      <4> QED
        BY <4>1, <4>2, <4>3, <4>4
    <3> QED
      BY <1>2, <3>1 DEF Room, r
  <2>2. CASE Dist(a, r) > Dist(a, i)
    <3>1. Dist(a, r) \in Int /\ Dist(a, i) \in Int /\ r # i
      BY <1>2, <2>2, DistFrom
    <3>2. r \notin Occupied(o)
      BY <1>2, <1>3, <1>5, <2>2, <3>1
    <3>3. ASSUME NEW j \in Cell, Dist(a, j) < Dist(a, r) PROVE j \in Occupied(o)
      <4>1. CASE Dist(a, j) < Dist(a, i)
        BY <1>3, <4>1
      <4>2. CASE j = i
        BY <4>2
      <4>3. CASE Dist(a, j) > Dist(a, i)
        <5>1. Dist(i + 1, j) < Dist(i + 1, r)
          <6>1. Dist(i + 1, j) = Dist(a, j) - Dist(a, i) - 1 /\ Dist(a, j) \in 0 .. Size - 1
            BY <4>3, DistFrom
          <6>2. Dist(i + 1, r) = Dist(a, r) - Dist(a, i) - 1
            BY <1>2, <2>2, DistFrom
          <6> QED
            BY <3>1, <3>3, <6>1, <6>2, SizeIs
        <5> QED
          BY <1>5, <5>1
      <4>4. Dist(a, j) \in Int /\ (Dist(a, j) = Dist(a, i) <=> j = i)
        BY DistFrom
      <4> QED
        BY <3>1, <4>1, <4>2, <4>3, <4>4
    <3>4. ASSUME NEW j \in Occupied(o), o.cells[j].seq_id = {} PROVE Dist(a, j) < Dist(a, r)
      <4>1. j \in Cell
        BY DEF Occupied
      <4>2. Dist(a, j) \in Int
        BY <4>1, DistFrom
      <4>3. CASE j = i
        BY <2>2, <4>3
      <4>4. CASE j # i
        <5>1. Dist(a, j) < Dist(a, i)
          BY <1>3, <3>4, <4>1, <4>4
        <5> QED
          BY <2>2, <3>1, <4>2, <5>1
      <4> QED
        BY <4>3, <4>4
    <3> QED
      BY <1>2, <3>2, <3>3, <3>4 DEF Room, r
  <2>3. Dist(a, r) \in Int /\ Dist(a, i) \in Int
    BY <1>2, DistFrom
  <2> QED
    BY <2>1, <2>2, <2>3
<1> QED
  BY <1>2, <1>4, <1>5

\* What that loop carries along
Fetches == [m : Memories, next : Cell, ok : BOOLEAN]

\* One round of the second loop of find_slot: the sequence has a cell of its own afterwards.
LEMMA TakenIs ==
    ASSUME NEW b, Sound(b), NEW f \in Fetches, NEW D \in SUBSET SeqId, NEW s \in SeqId \ D, NEW more \in BOOLEAN, NEW a \in Cell,
           InTaking(b, f, D), Room(f.m, a, f.next)
    PROVE  LET g == Taken(f, s, more)
           IN g \in Fetches /\ InTaking(b, g, D \cup {s}) /\ (more => Room(g.m, a, g.next))
<1> DEFINE n == f.m
           i == f.next
           old == n.tail[s]
           o == Took(n, s, i)
           g == Taken(f, s, more)
<1>1. n \in Memories /\ i \in Cell /\ b \in Memories /\ f.ok = TRUE /\ Holds(b, n, D) /\ AtHome(n, D)
      /\ \A z \in SeqId \ D : n.tail[z] = b.tail[z]
  BY DEF InTaking, Fetches, Sound
<1>2. CASE old >= 0 /\ n.cells[old].seq_id = {s}
  <2>1. g = f
    BY <1>2 DEF Taken
  <2>2. old \in Cell
    BY <1>1, <1>2, CellTypes
  <2>3. ASSUME NEW z \in SeqId \ {s} PROVE n.tail[z] # old
    <3>1. CASE b.tail[z] >= 0 \/ z \in D
      <4>1. n.tail[z] >= 0 /\ (z \in n.cells[n.tail[z]].seq_id \/ n.cells[n.tail[z]].seq_id \subseteq {z})
        BY <1>1, <3>1 DEF Holds, Tailed
      <4> QED
        BY <1>2, <4>1
    <3>2. CASE b.tail[z] < 0 /\ z \notin D
      BY <1>1, <1>2, <2>2, <3>2, CellTypes DEF Holds, Tailed
    <3>3. b.tail[z] >= 0 \/ b.tail[z] < 0
      BY <1>1, CellTypes
    <3> QED
      BY <3>1, <3>2, <3>3
  <2>4. Tailed(b, n, D \cup {s})
    <3>1. Tailed(b, n, D)
      BY <1>1 DEF Holds
    <3>2. \A y \in D \cup {s} : n.tail[y] >= 0 /\ n.cells[n.tail[y]].seq_id \subseteq {y}
      BY <1>2, <3>1 DEF Tailed
    <3>3. ASSUME NEW y \in D \cup {s}, NEW z \in SeqId \ {y} PROVE n.tail[z] # n.tail[y]
      BY <2>3, <3>1 DEF Tailed
    <3> QED
      BY <3>1, <3>2, <3>3 DEF Tailed
  <2>5. Holds(b, n, D \cup {s}) /\ AtHome(n, D \cup {s})
    BY <1>1, <2>4 DEF Holds, AtHome
  <2> QED
    BY <1>1, <2>1, <2>5 DEF InTaking
<1>3. CASE ~(old >= 0 /\ n.cells[old].seq_id = {s})
  <2>1. ~(Cell \subseteq Occupied(n))
    BY <1>1, <1>3, FullMeansOwn
  <2>2. i \notin Occupied(n)
    BY <2>1 DEF Room
  <2>3. n.cells[i].seq_id = {}
    BY <1>1, <2>2, MembersOccupy
  <2>4. /\ Holds(b, o, D \cup {s}) /\ AtHome(o, D \cup {s})
        /\ \A z \in SeqId \ (D \cup {s}) : o.tail[z] = b.tail[z]
        /\ Occupied(o) = Occupied(n) \cup {i}
        /\ \A j \in Cell : o.cells[j].seq_id = {} => n.cells[j].seq_id = {}
    <3>1. n.tail[s] >= 0 => n.cells[n.tail[s]].seq_id # {s}
      BY <1>3
    <3>2. Holds(b, n, D) /\ AtHome(n, D) /\ \A z \in SeqId \ D : n.tail[z] = b.tail[z]
      BY <1>1
    <3> HIDE DEF n, i
    <3>3. GetsOwn(b, n, Took(n, s, i), D \cup {s}, i)
      BY <1>1, <2>2, <3>1, <3>2, FreshlyTaken
    <3> QED
      BY <3>3 DEF GetsOwn
  <2>5. old >= 0 => s \in n.cells[old].seq_id
    <3>1. b.tail[s] >= 0 \/ b.tail[s] < 0
      BY <1>1, CellTypes
    <3> QED
      BY <1>1, <3>1 DEF Holds, Tailed
  <2> DEFINE next == NextEmpty(o.cells, i + 1)
  <2>6. g = [m |-> o, next |-> IF more THEN next ELSE i, ok |-> TRUE]
    BY <1>1, <1>3, <2>3, <2>5 DEF Taken
  <2>7. \A j \in Cell : o.cells[j].seq_id # {} => j \in Occupied(o)
    BY <2>4, MembersOccupy
  <2>8. next \in Cell /\ Room(o, a, next)
    BY <1>1, <2>2, <2>4, <2>7, RoomKept
  <2>9. o \in Memories
    BY <2>4 DEF Holds
  <2> HIDE DEF o, next, g
  <2>10. g \in Fetches /\ g.m = o /\ g.ok = TRUE /\ g.next \in Cell /\ (more => g.next = next)
    BY <1>1, <2>6, <2>8, <2>9 DEF Fetches
  <2> QED
    BY <2>4, <2>8, <2>10 DEF InTaking, g
<1> QED
  BY <1>2, <1>3

\* NoRepeats sequences
Ranked(firsts) == firsts \in Seq(SeqId) /\ \A j, k \in DOMAIN firsts : firsts[j] = firsts[k] => j = k
\* The first n of them
UpToNth(firsts, n) == {firsts[k] : k \in 1 .. n}

\* The next of the first sequences is not among those before it.
LEMMA RankedStep ==
    ASSUME NEW firsts, Ranked(firsts), NEW n \in 1 .. Len(firsts)
    PROVE  /\ firsts[n] \in SeqId \ UpToNth(firsts, n - 1) /\ UpToNth(firsts, n - 1) \in SUBSET SeqId
           /\ UpToNth(firsts, n) = UpToNth(firsts, n - 1) \cup {firsts[n]}
<1>1. firsts \in Seq(SeqId) /\ Len(firsts) \in Nat /\ DOMAIN firsts = 1 .. Len(firsts)
  BY DEF Ranked
<1>2. 1 .. n = (1 .. (n - 1)) \cup {n} /\ n \notin 1 .. (n - 1) /\ 1 .. n \subseteq DOMAIN firsts
  BY <1>1
<1>3. \A k \in 1 .. n : firsts[k] \in SeqId
  BY <1>1, <1>2
<1> QED
  BY <1>1, <1>2, <1>3 DEF UpToNth, Ranked

\* The second loop: every first sequence has a cell of its own, found empty (llama-memory-recurrent.cpp:575).
LEMMA AllTakenIs ==
    ASSUME NEW b, Sound(b), NEW firsts, Ranked(firsts)
    PROVE  AllTaken(b, firsts) \in Fetches /\ InTaking(b, AllTaken(b, firsts), UpToNth(firsts, Len(firsts)))
<1> DEFINE N == Len(firsts)
           a == Start(b, N)
           c0 == [m |-> b, next |-> NextEmpty(b.cells, a), ok |-> TRUE]
           Step(n, x) == Taken(x, firsts[n], n < N)
           Fits(x, n) == InTaking(b, x, UpToNth(firsts, n)) /\ (n < N => Room(x.m, a, x.next))
           G == [n \in 0 .. N |-> {x \in Fetches : Fits(x, n)}]
           h == [n \in 1 .. N |-> [x \in G[n - 1] |-> Step(n, x)]]
           f == CHOOSE f : f = [n \in 0 .. N |-> IF n = 0 THEN c0 ELSE Step(n, f[n - 1])]
<1>1. N \in Nat /\ a \in Cell /\ b \in Memories
  BY SizeIs DEF Ranked, Start, Sound, Memories, Cell
<1> HIDE DEF N, a
<1>2. c0 \in G[0]
  <2>1. NextEmpty(b.cells, a) \in Cell /\ Room(b, a, NextEmpty(b.cells, a))
    BY <1>1, RoomFound
  <2>2. Holds(b, b, {}) /\ AtHome(b, {})
    BY SoundHolds DEF Sound, Settles, AtHome
  <2>3. UpToNth(firsts, 0) = {}
    BY DEF UpToNth
  <2>4. c0 \in Fetches
    BY <1>1, <2>1 DEF Fetches
  <2>5. Fits(c0, 0)
    BY <2>1, <2>2, <2>3 DEF InTaking
  <2> QED
    BY <1>1, <2>4, <2>5
<1> HIDE DEF c0
<1>3. ASSUME NEW n \in 1 .. N, NEW x \in G[n - 1] PROVE Step(n, x) \in G[n]
  <2>1. n \in 0 .. N /\ n - 1 \in 0 .. N /\ n - 1 < N /\ n \in 1 .. Len(firsts)
    BY <1>1 DEF N
  <2>2. x \in Fetches /\ InTaking(b, x, UpToNth(firsts, n - 1)) /\ Room(x.m, a, x.next)
    BY <2>1
  <2>3. /\ firsts[n] \in SeqId \ UpToNth(firsts, n - 1) /\ UpToNth(firsts, n - 1) \in SUBSET SeqId
        /\ UpToNth(firsts, n) = UpToNth(firsts, n - 1) \cup {firsts[n]}
    BY <2>1, RankedStep
  <2> DEFINE D == UpToNth(firsts, n - 1)
             s == firsts[n]
             more == n < N
  <2>4. D \in SUBSET SeqId /\ s \in SeqId \ D /\ more \in BOOLEAN /\ InTaking(b, x, D)
    BY <2>2, <2>3
  <2> HIDE DEF D, s, more
  <2>5. Taken(x, s, more) \in Fetches /\ InTaking(b, Taken(x, s, more), D \cup {s})
        /\ (more => Room(Taken(x, s, more).m, a, Taken(x, s, more).next))
    BY <1>1, <2>2, <2>4, TakenIs
  <2>6. Step(n, x) \in Fetches /\ Fits(Step(n, x), n)
    BY <2>3, <2>5 DEF D, s, more
  <2> QED
    BY <2>1, <2>6
<1> HIDE DEF Step, G
<1>4. \A n \in 1 .. N : \A x \in G[n - 1] : h[n][x] = Step(n, x) /\ h[n][x] \in G[n]
  BY <1>3
<1> HIDE DEF h
<1>5. PICK g : IsLoop(g, c0, h, G, N)
  BY <1>1, <1>2, <1>4, LoopExists
<1>6. ASSUME NEW n \in 0 .. N PROVE g[n] = IF n = 0 THEN c0 ELSE Step(n, g[n - 1])
  <2>1. n # 0 => n \in 1 .. N
    BY <1>1
  <2> QED
    BY <1>4, <1>5, <2>1 DEF IsLoop, Runs
<1>7. f = [n \in 0 .. N |-> IF n = 0 THEN c0 ELSE Step(n, f[n - 1])]
  <2>1. g = [n \in 0 .. N |-> IF n = 0 THEN c0 ELSE Step(n, g[n - 1])]
    BY <1>5, <1>6 DEF IsLoop
  <2> QED
    BY <2>1
<1> HIDE DEF f
<1>8. f[0] \in G[0] /\ \A n \in 1 .. N : f[n - 1] \in G[n - 1] => f[n] \in G[n]
  BY <1>1, <1>2, <1>3, <1>7
<1>9. f[N] \in G[N]
  BY <1>1, <1>8, LoopReaches
<1>10. AllTaken(b, firsts) = f[N]
  BY DEF AllTaken, f, Step, c0, a, N
<1>11. f[N] \in Fetches /\ InTaking(b, f[N], UpToNth(firsts, N))
  BY <1>1, <1>9 DEF G
<1> QED
  BY <1>10, <1>11 DEF N

-----------------------------------------------------------------------------
(* find_slot, third loop: the cells are put side by side                   *)

\* The number that x becomes when i and j are swapped
Swap(i, j, x) == IF x = i THEN j ELSE IF x = j THEN i ELSE x
\* o is n after cells i and j have changed places.
HasSwapped(n, o, i, j) ==
    /\ o \in Memories /\ o.head = n.head /\ o.rs_idx = n.rs_idx
    /\ \A s \in SeqId : o.tail[s] = Swap(i, j, n.tail[s])
    /\ \A x \in Cell : o.cells[Swap(i, j, x)] = n.cells[x] /\ o.cells[x] = n.cells[Swap(i, j, x)]

\* Swapping two numbers is one to one, and its own inverse.
LEMMA SwapIs ==
    ASSUME NEW i \in Cell, NEW j \in Cell
    PROVE  /\ \A x \in Cell : Swap(i, j, x) \in Cell /\ Swap(i, j, Swap(i, j, x)) = x
           /\ \A x : x \notin Cell => Swap(i, j, x) = x
           /\ \A x, y : Swap(i, j, x) = Swap(i, j, y) => x = y
           /\ Swap(i, j, j) = i /\ Swap(i, j, i) = j
           /\ \A x : x \notin {i, j} => Swap(i, j, x) = x
  BY DEF Swap

\* Two cells change places, with the tails that name them.
LEMMA SwappedIs ==
    ASSUME NEW n \in Memories, NEW i \in Cell, NEW j \in Cell
    PROVE  HasSwapped(n, Swapped(n, i, j), i, j)
<1> DEFINE o == Swapped(n, i, j)
           cells == [n.cells EXCEPT ![i] = n.cells[j], ![j] = n.cells[i]]
           tail == [s \in SeqId |-> IF n.tail[s] = i THEN j ELSE IF n.tail[s] = j THEN i ELSE n.tail[s]]
<1>1. n.cells \in [Cell -> CellState] /\ n.tail \in [SeqId -> -1 .. Size - 1] /\ i \in -1 .. Size - 1 /\ j \in -1 .. Size - 1
      /\ n.head \in Cell /\ n.rs_idx \in [SeqId -> Nat] /\ n.used \in Int
  BY DEF Memories, Cell
<1>2. o = [n EXCEPT !.cells = cells, !.tail = tail]
  BY DEF Swapped, Memories
<1>3. cells \in [Cell -> CellState] /\ cells[i] = n.cells[j] /\ cells[j] = n.cells[i] /\ \A x \in Cell \ {i, j} : cells[x] = n.cells[x]
  BY <1>1
<1>4. tail \in [SeqId -> -1 .. Size - 1] /\ \A s \in SeqId : tail[s] = Swap(i, j, n.tail[s])
  BY <1>1 DEF Swap
<1> HIDE DEF o, cells, tail
<1>5. o.cells = cells /\ o.tail = tail /\ o.head = n.head /\ o.rs_idx = n.rs_idx /\ o \in Memories
  BY <1>1, <1>2, <1>3, <1>4 DEF Memories
<1>6. ASSUME NEW x \in Cell PROVE cells[Swap(i, j, x)] = n.cells[x] /\ cells[x] = n.cells[Swap(i, j, x)]
  BY <1>3 DEF Swap
<1> QED
  BY <1>4, <1>5, <1>6 DEF HasSwapped, o

\* Cells that change places keep their states and their owners.
LEMMA SwapKeeps ==
    ASSUME NEW b, NEW n, NEW o, NEW D \in SUBSET SeqId, NEW i \in Cell, NEW j \in Cell, Holds(b, n, D), HasSwapped(n, o, i, j)
    PROVE  Holds(b, o, D)
<1>1. n \in Memories
  BY DEF Holds
<1>2. ASSUME NEW x \in Cell PROVE TracedCell(b, o, x)
  <2> DEFINE y == Swap(i, j, x)
  <2>1. y \in Cell /\ Swap(i, j, y) = x
    BY SwapIs
  <2>2. o.cells[x] = n.cells[y] /\ TracedCell(b, n, y)
    BY <2>1 DEF HasSwapped, Holds, Traced
  <2>3. \A s \in SeqId : n.tail[s] = y => o.tail[s] = x
    BY <2>1 DEF HasSwapped
  <2> HIDE DEF y
  <2> QED
    BY <2>2, <2>3 DEF TracedCell
<1>3. ASSUME NEW s \in SeqId
      PROVE  /\ n.tail[s] >= 0 => o.tail[s] >= 0 /\ o.cells[o.tail[s]] = n.cells[n.tail[s]]
             /\ n.tail[s] < 0 => o.tail[s] < 0
  <2>0. o.tail[s] = Swap(i, j, n.tail[s])
    BY DEF HasSwapped
  <2>1. n.tail[s] \in -1 .. Size - 1 /\ (n.tail[s] >= 0 <=> n.tail[s] \in Cell) /\ (n.tail[s] < 0 <=> n.tail[s] \notin Cell)
    BY <1>1, CellTypes
  <2>2. CASE n.tail[s] \in Cell
    <3>1. o.tail[s] = Swap(i, j, n.tail[s]) /\ o.tail[s] \in Cell
      <4>1. Swap(i, j, n.tail[s]) \in Cell
        BY <2>2, SwapIs
      <4> QED
        BY <2>0, <4>1
    <3>2. o.cells[o.tail[s]] = n.cells[n.tail[s]]
      BY <2>2, <3>1 DEF HasSwapped
    <3> QED
      BY <2>1, <2>2, <3>1, <3>2 DEF Cell
  <2>3. CASE n.tail[s] \notin Cell
    <3>1. o.tail[s] = n.tail[s]
      <4>1. Swap(i, j, n.tail[s]) = n.tail[s]
        BY <2>3, SwapIs
      <4> QED
        BY <2>0, <4>1
    <3> QED
      BY <2>1, <2>3, <3>1
  <2> QED
    BY <2>2, <2>3
<1>4. ASSUME NEW s \in SeqId, NEW z \in SeqId, o.tail[s] = o.tail[z] PROVE n.tail[s] = n.tail[z]
  BY <1>4, SwapIs DEF HasSwapped
<1>5. Tailed(b, n, D)
  BY DEF Holds
<1>6. Tailed(b, o, D)
  <2>1. \A s \in SeqId : b.tail[s] >= 0 => o.tail[s] >= 0 /\ s \in o.cells[o.tail[s]].seq_id
    BY <1>3, <1>5 DEF Tailed
  <2>2. \A s \in SeqId \ D : b.tail[s] < 0 => o.tail[s] < 0
    BY <1>3, <1>5 DEF Tailed
  <2>3. \A s \in D : o.tail[s] >= 0 /\ o.cells[o.tail[s]].seq_id \subseteq {s}
    BY <1>3, <1>5 DEF Tailed
  <2>4. \A s \in D : \A z \in SeqId \ {s} : o.tail[z] # o.tail[s]
    BY <1>4, <1>5 DEF Tailed
  <2> QED
    BY <2>1, <2>2, <2>3, <2>4 DEF Tailed
<1> QED
  BY <1>2, <1>6 DEF Holds, Traced, HasSwapped

\* The cells of the sequences up to the k-th are side by side.
Lined(o, firsts, min, k) == \A j \in 1 .. k : o.tail[firsts[j]] = min + j - 1
\* o is m but for the cells in the range, in which all of the sequences have theirs.
Within(m, o, firsts, range) ==
    /\ \A j \in DOMAIN firsts : o.tail[firsts[j]] \in range
    /\ \A i \in Cell \ range : o.cells[i] = m.cells[i]
    /\ \A s \in SeqId : (o.tail[s] \notin range \/ m.tail[s] \notin range) => o.tail[s] = m.tail[s]

\* One round of the third loop: the next sequence is in its place, those before it stay in theirs.
LEMMA GatheredStep ==
    ASSUME NEW b, NEW m, NEW x, NEW firsts, Ranked(firsts), NEW min \in Nat, NEW range \in SUBSET Cell,
           NEW n \in 1 .. Len(firsts), min + n - 1 \in range,
           Holds(b, x, UpToNth(firsts, Len(firsts))), Within(m, x, firsts, range), Lined(x, firsts, min, n - 1)
    PROVE  LET o == Swapped(x, min + n - 1, x.tail[firsts[n]])
           IN  Holds(b, o, UpToNth(firsts, Len(firsts))) /\ Within(m, o, firsts, range) /\ Lined(o, firsts, min, n)
<1> DEFINE i == min + n - 1
           j == x.tail[firsts[n]]
           o == Swapped(x, i, j)
           D == UpToNth(firsts, Len(firsts))
<1>1. firsts \in Seq(SeqId) /\ Len(firsts) \in Nat /\ DOMAIN firsts = 1 .. Len(firsts) /\ n \in DOMAIN firsts /\ x \in Memories
      /\ \A k \in DOMAIN firsts : firsts[k] \in SeqId
  BY DEF Ranked, Holds
<1>2. i \in Cell /\ i \in range /\ j \in Cell /\ j \in range
  BY <1>1 DEF Within
<1> HIDE DEF i, j
<1>3. HasSwapped(x, o, i, j)
  BY <1>1, <1>2, SwappedIs
<1> HIDE DEF o
<1>4. D \in SUBSET SeqId
  BY <1>1 DEF UpToNth
<1>5. Holds(b, o, D)
  BY <1>2, <1>3, <1>4, SwapKeeps
<1>6. \A y \in range : Swap(i, j, y) \in range
  BY <1>2 DEF Swap
<1>7. \A y : y \notin range => Swap(i, j, y) = y
  BY <1>2 DEF Swap
<1>8. Within(m, o, firsts, range)
  <2>1. \A k \in DOMAIN firsts : o.tail[firsts[k]] \in range
    BY <1>1, <1>3, <1>6 DEF HasSwapped, Within
  <2>2. ASSUME NEW y \in Cell \ range PROVE o.cells[y] = m.cells[y]
    BY <1>3, <1>7 DEF HasSwapped, Within
  <2>3. ASSUME NEW s \in SeqId, o.tail[s] \notin range \/ m.tail[s] \notin range PROVE o.tail[s] = m.tail[s]
    <3>1. x.tail[s] \notin range
      BY <1>3, <1>6, <2>3 DEF HasSwapped, Within
    <3> QED
      BY <1>3, <1>7, <3>1 DEF HasSwapped, Within
  <2> QED
    BY <2>1, <2>2, <2>3 DEF Within
<1>9. ASSUME NEW k \in 1 .. n PROVE o.tail[firsts[k]] = min + k - 1
  <2>1. k \in DOMAIN firsts /\ firsts[k] \in SeqId
    BY <1>1
  <2>2. CASE k = n
    <3>1. o.tail[firsts[n]] = Swap(i, j, j)
      BY <1>3, <2>1, <2>2 DEF HasSwapped, j
    <3> QED
      BY <1>2, <2>2, <3>1, SwapIs DEF i
  <2>3. CASE k # n
    <3>1. x.tail[firsts[k]] = min + k - 1 /\ x.tail[firsts[k]] # i
      <4>1. k \in 1 .. (n - 1) /\ min + k - 1 # min + n - 1
        BY <2>3
      <4> QED
        BY <4>1 DEF Lined, i
    <3>2. x.tail[firsts[k]] # j
      <4>1. firsts[k] # firsts[n] /\ firsts[n] \in D
        BY <1>1, <2>1, <2>3 DEF Ranked, UpToNth
      <4> QED
        BY <2>1, <4>1 DEF Holds, Tailed, j
    <3> QED
      BY <1>2, <1>3, <2>1, <3>1, <3>2, SwapIs DEF HasSwapped
  <2> QED
    BY <2>2, <2>3
<1> QED
  BY <1>5, <1>8, <1>9 DEF Lined, o, i, j

\* A nonempty set of cells has a last one.
LEMMA MaxIsGreatest ==
    ASSUME NEW S \in SUBSET Cell, S # {}
    PROVE  Max(S) \in S /\ \A n \in S : n <= Max(S)
<1> DEFINE T == {Size - 1 - x : x \in S}
<1>1. T \in SUBSET Nat /\ T # {}
  <2>1. \A x \in S : Size - 1 - x \in Nat
    BY SizeIs DEF Cell
  <2> QED
    BY <2>1
<1>2. Min(T) \in T /\ \A n \in T : Min(T) <= n
  BY <1>1, MinIsLeast
<1>3. PICK x \in S : Min(T) = Size - 1 - x
  BY <1>2
<1>4. ASSUME NEW y \in S PROVE x >= y
  <2>1. Size - 1 - y \in T
    OBVIOUS
  <2>2. Size - 1 - x <= Size - 1 - y /\ x \in Int /\ y \in Int
    BY <1>2, <1>3, <2>1, SizeIs DEF Cell
  <2> QED
    BY <2>2, SizeIs
<1>5. \E z \in S : \A y \in S : z >= y
  BY <1>4
<1>6. Max(S) \in S /\ \A y \in S : Max(S) >= y
  BY <1>5 DEF Max
<1> QED
  BY <1>6 DEF Cell

\* The span of a set of cells reaches from its first to its last.
LEMMA SpanIs ==
    ASSUME NEW S \in SUBSET Cell, S # {}
    PROVE  /\ Span(S) \in SUBSET Cell /\ S \subseteq Span(S) /\ Span(S) # {}
           /\ Min(Span(S)) = Min(S) /\ Span(S) = Min(S) .. Max(S) /\ Min(S) \in Cell /\ Max(S) \in Cell
<1>1. S \in SUBSET Nat
  BY DEF Cell
<1>2. Min(S) \in S /\ \A n \in S : Min(S) <= n
  BY <1>1, MinIsLeast
<1>3. Max(S) \in S /\ \A n \in S : n <= Max(S)
  BY MaxIsGreatest
<1>4. Min(S) \in Cell /\ Max(S) \in Cell /\ Span(S) = Min(S) .. Max(S)
  BY <1>2, <1>3 DEF Span
<1>5. Span(S) \in SUBSET Cell /\ S \subseteq Span(S) /\ Min(S) \in Span(S)
  BY <1>1, <1>2, <1>3, <1>4, SizeIs DEF Cell
<1>6. Span(S) \in SUBSET Nat
  BY <1>5 DEF Cell
<1>7. Min(Span(S)) \in Span(S) /\ \A n \in Span(S) : Min(Span(S)) <= n
  BY <1>5, <1>6, MinIsLeast
<1>8. Min(Span(S)) = Min(S)
  BY <1>1, <1>2, <1>4, <1>5, <1>6, <1>7
<1> QED
  BY <1>4, <1>5, <1>8

\* The cells of the first sequences
TailsOf(m, firsts) == {m.tail[firsts[k]] : k \in DOMAIN firsts}
\* The range has those cells, and room for one after the other from its start.
Lies(m, firsts, range) ==
    /\ range \in SUBSET Cell /\ range # {} /\ Min(range) \in Cell
    /\ \A k \in DOMAIN firsts : m.tail[firsts[k]] \in range
    /\ \A k \in DOMAIN firsts : Min(range) + k - 1 \in range
    /\ \A i \in range : Min(range) <= i

\* There is room for the cells of the sequences in the range from the first to the last of them.
LEMMA RangeIsWide ==
    ASSUME NEW b, NEW m, NEW firsts, Ranked(firsts), firsts # <<>>, Holds(b, m, UpToNth(firsts, Len(firsts)))
    PROVE  Lies(m, firsts, Span(TailsOf(m, firsts)))
<1> DEFINE T == TailsOf(m, firsts)
           g == [k \in DOMAIN firsts |-> m.tail[firsts[k]]]
<1>1. firsts \in Seq(SeqId) /\ Len(firsts) \in Nat /\ DOMAIN firsts = 1 .. Len(firsts)
      /\ (\A k \in DOMAIN firsts : firsts[k] \in SeqId /\ firsts[k] \in UpToNth(firsts, Len(firsts))) /\ 1 \in DOMAIN firsts
  BY DEF Ranked, UpToNth
<1>2. m \in Memories
  BY DEF Holds
<1>3. \A k \in DOMAIN firsts : m.tail[firsts[k]] \in Cell
  BY <1>1, <1>2, CellTypes DEF Holds, Tailed
<1>4. T \in SUBSET Cell /\ T # {} /\ \A k \in DOMAIN firsts : m.tail[firsts[k]] \in T
  BY <1>1, <1>3 DEF TailsOf
<1> HIDE DEF T
<1>5. /\ Span(T) \in SUBSET Cell /\ T \subseteq Span(T) /\ Span(T) # {}
      /\ Min(Span(T)) = Min(T) /\ Span(T) = Min(T) .. Max(T) /\ Min(T) \in Cell /\ Max(T) \in Cell
  BY <1>4, SpanIs
<1>6. g \in Injection(DOMAIN firsts, Span(T))
  <2>1. g \in [DOMAIN firsts -> Span(T)]
    BY <1>4, <1>5
  <2>2. ASSUME NEW j \in DOMAIN firsts, NEW k \in DOMAIN firsts, g[j] = g[k] PROVE j = k
    <3>1. m.tail[firsts[j]] = m.tail[firsts[k]]
      BY <2>2
    <3>2. firsts[j] = firsts[k]
      BY <1>1, <3>1 DEF Holds, Tailed
    <3> QED
      BY <3>2 DEF Ranked
  <2> HIDE DEF g
  <2> QED
    BY <2>1, <2>2 DEF Injection, IsInjective
<1>7. IsFiniteSet(Span(T)) /\ Cardinality(Span(T)) = (IF Min(T) > Max(T) THEN 0 ELSE Max(T) - Min(T) + 1)
  <2>1. Min(T) \in Int /\ Max(T) \in Int
    BY <1>5 DEF Cell
  <2>2. IsFiniteSet(Min(T) .. Max(T)) /\ Cardinality(Min(T) .. Max(T)) = (IF Min(T) > Max(T) THEN 0 ELSE Max(T) - Min(T) + 1)
    BY <2>1, FS_Interval
  <2> QED
    BY <1>5, <2>2
<1>8. Cardinality(DOMAIN firsts) = Len(firsts)
  BY <1>1, FS_Interval
<1>9. Cardinality(DOMAIN firsts) <= Cardinality(Span(T))
  BY <1>6, <1>7, FS_Injection
<1>10. Len(firsts) <= Max(T) - Min(T) + 1
  BY <1>1, <1>5, <1>7, <1>8, <1>9 DEF Cell
<1>11. \A k \in DOMAIN firsts : Min(T) + k - 1 \in Min(T) .. Max(T)
  BY <1>1, <1>5, <1>10 DEF Cell
<1>12. \A i \in Span(T) : Min(T) <= i
  BY <1>5
<1> QED
  BY <1>4, <1>5, <1>11, <1>12 DEF Lies, T

\* o is m after n sequences were put in their places.
IsGathered(b, m, o, firsts, range, n) ==
    Holds(b, o, UpToNth(firsts, Len(firsts))) /\ Within(m, o, firsts, range) /\ Lined(o, firsts, Min(range), n)

\* The third loop: the sequences have their cells side by side at the start of the range.
LEMMA GatheredIs ==
    ASSUME NEW b, NEW m, NEW firsts, Ranked(firsts), NEW range,
           Holds(b, m, UpToNth(firsts, Len(firsts))), Lies(m, firsts, range)
    PROVE  IsGathered(b, m, Gathered(m, firsts, Min(range)), firsts, range, Len(firsts))
<1> DEFINE N == Len(firsts)
           min == Min(range)
           Step(n, x) == Swapped(x, min + n - 1, x.tail[firsts[n]])
           Fits(x, n) == IsGathered(b, m, x, firsts, range, n)
           G == [n \in 0 .. N |-> {x \in Memories : Fits(x, n)}]
           h == [n \in 1 .. N |-> [x \in G[n - 1] |-> Step(n, x)]]
           f == CHOOSE f : f = [n \in 0 .. N |-> IF n = 0 THEN m ELSE Step(n, f[n - 1])]
<1>1. N \in Nat /\ min \in Nat /\ range \in SUBSET Cell /\ m \in Memories /\ DOMAIN firsts = 1 .. N
  BY SizeIs DEF Ranked, Lies, Holds, Cell
<1>2. m \in G[0]
  <2>1. Within(m, m, firsts, range) /\ Lined(m, firsts, min, 0)
    BY DEF Within, Lined, Lies
  <2>2. Fits(m, 0)
    BY <2>1 DEF IsGathered
  <2> QED
    BY <1>1, <2>2
<1>3. ASSUME NEW n \in 1 .. N, NEW x \in G[n - 1] PROVE Step(n, x) \in G[n]
  <2>1. n \in 0 .. N /\ n - 1 \in 0 .. N /\ n \in 1 .. Len(firsts) /\ min + n - 1 \in range
    BY <1>1 DEF Lies
  <2>2. x \in Memories /\ Fits(x, n - 1)
    BY <2>1
  <2>3. Holds(b, x, UpToNth(firsts, Len(firsts))) /\ Within(m, x, firsts, range) /\ Lined(x, firsts, min, n - 1)
    BY <2>2 DEF IsGathered
  <2> HIDE DEF min
  <2>4. /\ Holds(b, Step(n, x), UpToNth(firsts, Len(firsts))) /\ Within(m, Step(n, x), firsts, range)
        /\ Lined(Step(n, x), firsts, min, n)
    BY <1>1, <2>1, <2>3, GatheredStep
  <2>5. Step(n, x) \in Memories
    BY <2>4 DEF Holds
  <2> HIDE DEF Step
  <2>6. Fits(Step(n, x), n)
    BY <2>4 DEF IsGathered, min
  <2> QED
    BY <2>1, <2>5, <2>6
<1> HIDE DEF Step, G, min, N
<1>4. \A n \in 1 .. N : \A x \in G[n - 1] : h[n][x] = Step(n, x) /\ h[n][x] \in G[n]
  BY <1>3
<1> HIDE DEF h
<1>5. PICK g : IsLoop(g, m, h, G, N)
  BY <1>1, <1>2, <1>4, LoopExists
<1>6. ASSUME NEW n \in 0 .. N PROVE g[n] = IF n = 0 THEN m ELSE Step(n, g[n - 1])
  <2>1. n # 0 => n \in 1 .. N
    BY <1>1
  <2> QED
    BY <1>4, <1>5, <2>1 DEF IsLoop, Runs
<1>7. f = [n \in 0 .. N |-> IF n = 0 THEN m ELSE Step(n, f[n - 1])]
  <2>1. g = [n \in 0 .. N |-> IF n = 0 THEN m ELSE Step(n, g[n - 1])]
    BY <1>5, <1>6 DEF IsLoop
  <2> QED
    BY <2>1
<1> HIDE DEF f
<1>8. f[0] \in G[0] /\ \A n \in 1 .. N : f[n - 1] \in G[n - 1] => f[n] \in G[n]
  BY <1>1, <1>2, <1>3, <1>7
<1>9. f[N] \in G[N]
  BY <1>1, <1>8, LoopReaches
<1>10. Gathered(m, firsts, Min(range)) = f[N]
  BY DEF Gathered, f, Step, min, N
<1>11. Fits(f[N], N)
  BY <1>1, <1>9 DEF G
<1> QED
  BY <1>10, <1>11 DEF N

-----------------------------------------------------------------------------
(* The cells are filled and staged                                         *)

\* A ubatch: sets of sequences that have none in common, and where their positions begin and end
UbatchOK(u) ==
    /\ u.sets \in Seq((SUBSET SeqId) \ {{}}) /\ u.sets # <<>>
    /\ \A j, k \in DOMAIN u.sets : j # k => u.sets[j] \cap u.sets[k] = {}
    /\ \A k \in DOMAIN u.sets : u.first[k] \in 0 .. MaxPos /\ u.last[k] \in 0 .. MaxPos
\* The first sequence of each set
FirstsOf(u) == [k \in DOMAIN u.sets |-> FirstId(u.sets[k])]

\* The first sequences of the sets of a ubatch differ, and each is in its set.
LEMMA UbatchFirsts ==
    ASSUME NEW u, UbatchOK(u)
    PROVE  /\ Ranked(FirstsOf(u)) /\ DOMAIN FirstsOf(u) = DOMAIN u.sets /\ Len(FirstsOf(u)) = Len(u.sets) /\ FirstsOf(u) # <<>>
           /\ DOMAIN u.sets = 1 .. Len(u.sets) /\ Len(u.sets) \in Nat \ {0}
           /\ \A k \in DOMAIN u.sets : FirstsOf(u)[k] \in u.sets[k] /\ u.sets[k] \in SUBSET SeqId /\ u.sets[k] # {}
<1>1. DOMAIN u.sets = 1 .. Len(u.sets) /\ Len(u.sets) \in Nat \ {0} /\ \A k \in DOMAIN u.sets : u.sets[k] \in SUBSET SeqId /\ u.sets[k] # {}
  BY DEF UbatchOK
<1>2. ASSUME NEW k \in DOMAIN u.sets PROVE FirstsOf(u)[k] \in u.sets[k]
  <2>1. u.sets[k] \in SUBSET Nat
    BY <1>1, SizeIs DEF SeqId
  <2>2. Min(u.sets[k]) \in u.sets[k]
    BY <1>1, <2>1, MinIsLeast
  <2> QED
    BY <2>2 DEF FirstsOf, FirstId
<1>3. DOMAIN FirstsOf(u) = 1 .. Len(u.sets)
  BY <1>1 DEF FirstsOf
<1>4. FirstsOf(u) \in Seq(SeqId) /\ Len(FirstsOf(u)) = Len(u.sets)
  <2>1. \A k \in 1 .. Len(u.sets) : FirstsOf(u)[k] \in SeqId
    BY <1>1, <1>2
  <2>2. FirstsOf(u) = [k \in 1 .. Len(u.sets) |-> FirstsOf(u)[k]]
    BY <1>1 DEF FirstsOf
  <2> HIDE DEF FirstsOf
  <2>3. FirstsOf(u) \in [1 .. Len(u.sets) -> SeqId]
    BY <2>1, <2>2
  <2> QED
    BY <1>1, <2>3
<1>5. ASSUME NEW j \in DOMAIN u.sets, NEW k \in DOMAIN u.sets, FirstsOf(u)[j] = FirstsOf(u)[k] PROVE j = k
  BY <1>2, <1>5 DEF UbatchOK
<1>6. Ranked(FirstsOf(u))
  BY <1>1, <1>3, <1>4, <1>5 DEF Ranked
<1>7. FirstsOf(u) # <<>>
  BY <1>1, <1>4
<1> QED
  BY <1>1, <1>2, <1>3, <1>4, <1>6, <1>7

\* The sequences of a set have the cell of its first one.
FilledIn(g, c, u, min) ==
    /\ c \in Memories /\ c.head = g.head /\ c.rs_idx = g.rs_idx
    /\ \A i \in Cell : c.cells[i].src = g.cells[i].src
    /\ \A k \in DOMAIN u.sets : c.cells[min + k - 1].seq_id = u.sets[k] /\ c.cells[min + k - 1].pos = u.last[k]
    /\ \A i \in Cell : i - min + 1 \notin DOMAIN u.sets => c.cells[i] = g.cells[i]
    /\ \A k \in DOMAIN u.sets : \A s \in u.sets[k] : c.tail[s] = min + k - 1
    /\ \A s \in SeqId \ SeqsIn(u) : c.tail[s] = g.tail[s]

\* Filling the cells of a ubatch sets their positions, their sets and the tails, and nothing else.
LEMMA FilledIs ==
    ASSUME NEW u, UbatchOK(u), NEW g \in Memories, NEW min \in Cell, \A k \in DOMAIN u.sets : min + k - 1 \in Cell
    PROVE  FilledIn(g, Filled(g, u, min), u, min)
<1> DEFINE c == Filled(g, u, min)
           cells == [i \in Cell |-> IF i - min + 1 \in DOMAIN u.sets
                                    THEN [g.cells[i] EXCEPT !.pos = u.last[i - min + 1], !.seq_id = u.sets[i - min + 1]]
                                    ELSE g.cells[i]]
           SetWith(s) == CHOOSE k \in DOMAIN u.sets : s \in u.sets[k]
           tail == [s \in SeqId |-> IF \E k \in DOMAIN u.sets : s \in u.sets[k] THEN min - 1 + SetWith(s) ELSE g.tail[s]]
<1>1. g.cells \in [Cell -> CellState] /\ g.tail \in [SeqId -> -1 .. Size - 1]
      /\ g.head \in Cell /\ g.rs_idx \in [SeqId -> Nat] /\ g.used \in Int /\ min \in Int
  BY DEF Memories, Cell
<1>2. /\ DOMAIN u.sets = 1 .. Len(u.sets) /\ Len(u.sets) \in Nat
      /\ \A k \in DOMAIN u.sets : u.sets[k] \in SUBSET SeqId
      /\ \A j, k \in DOMAIN u.sets : j # k => u.sets[j] \cap u.sets[k] = {}
      /\ \A k \in DOMAIN u.sets : u.last[k] \in -1 .. MaxPos
  BY SizeIs DEF UbatchOK
<1>3. c = [g EXCEPT !.cells = cells, !.tail = tail]
  BY DEF Filled, Memories
<1>4. ASSUME NEW i \in Cell
      PROVE  /\ cells[i] \in CellState /\ cells[i].src = g.cells[i].src
             /\ i - min + 1 \in DOMAIN u.sets => cells[i].seq_id = u.sets[i - min + 1] /\ cells[i].pos = u.last[i - min + 1]
             /\ i - min + 1 \notin DOMAIN u.sets => cells[i] = g.cells[i]
  <2>1. g.cells[i] \in CellState
    BY <1>1
  <2>2. CASE i - min + 1 \in DOMAIN u.sets
    <3>1. cells[i] = [g.cells[i] EXCEPT !.pos = u.last[i - min + 1], !.seq_id = u.sets[i - min + 1]]
      BY <2>2
    <3>2. u.sets[i - min + 1] \in SUBSET SeqId /\ u.last[i - min + 1] \in -1 .. MaxPos
      BY <1>2, <2>2
    <3> HIDE DEF cells
    <3> QED
      BY <2>1, <2>2, <3>1, <3>2 DEF CellState
  <2>3. CASE i - min + 1 \notin DOMAIN u.sets
    BY <2>1, <2>3
  <2> QED
    BY <2>2, <2>3
<1>5. cells \in [Cell -> CellState]
  <2>1. cells = [i \in Cell |-> cells[i]]
    OBVIOUS
  <2> HIDE DEF cells
  <2> QED
    BY <1>4, <2>1
<1>6. ASSUME NEW k \in DOMAIN u.sets, NEW s \in u.sets[k] PROVE tail[s] = min + k - 1
  <2>1. s \in SeqId /\ SetWith(s) \in DOMAIN u.sets /\ s \in u.sets[SetWith(s)]
    BY <1>2
  <2>2. SetWith(s) = k
    BY <1>2, <2>1
  <2>3. tail[s] = min - 1 + SetWith(s)
    BY <2>1
  <2> QED
    <3>1. tail[s] = min - 1 + k /\ k \in Int
      BY <1>2, <2>2, <2>3
    <3> HIDE DEF tail, SetWith
    <3> QED
      BY <1>1, <3>1
<1>7. \A s \in SeqId \ SeqsIn(u) : tail[s] = g.tail[s]
  BY DEF SeqsIn
<1>8. tail \in [SeqId -> -1 .. Size - 1]
  <2>1. ASSUME NEW s \in SeqId PROVE tail[s] \in -1 .. Size - 1
    <3>1. CASE s \in SeqsIn(u)
      <4>1. PICK k \in DOMAIN u.sets : s \in u.sets[k]
        BY <3>1 DEF SeqsIn
      <4>2. tail[s] = min + k - 1
        BY <1>6, <4>1
      <4> QED
        BY <4>2 DEF Cell
    <3>2. CASE s \notin SeqsIn(u)
      BY <1>1, <1>7, <3>2
    <3> QED
      BY <3>1, <3>2
  <2>2. tail = [s \in SeqId |-> tail[s]]
    OBVIOUS
  <2> HIDE DEF tail
  <2> QED
    BY <2>1, <2>2
<1> HIDE DEF cells, tail, c
<1>9. c.cells = cells /\ c.tail = tail /\ c.head = g.head /\ c.rs_idx = g.rs_idx /\ c \in Memories
  BY <1>1, <1>3, <1>5, <1>8 DEF Memories
<1>10. ASSUME NEW k \in DOMAIN u.sets PROVE cells[min + k - 1].seq_id = u.sets[k] /\ cells[min + k - 1].pos = u.last[k]
  <2>1. min + k - 1 \in Cell /\ (min + k - 1) - min + 1 = k
    BY <1>1, <1>2
  <2> QED
    BY <1>4, <2>1
<1> QED
  BY <1>4, <1>6, <1>7, <1>9, <1>10 DEF FilledIn, c

\* The first sequences of a ubatch
Leaders(u) == UpToNth(FirstsOf(u), Len(u.sets))

\* The leaders of a ubatch are the first sequences of its sets.
LEMMA LeadersAre ==
    ASSUME NEW u, UbatchOK(u)
    PROVE  /\ Leaders(u) = {FirstsOf(u)[k] : k \in DOMAIN u.sets} /\ Leaders(u) \in SUBSET SeqId
           /\ Leaders(u) \subseteq SeqsIn(u)
           /\ \A s \in SeqsIn(u) : \E k \in DOMAIN u.sets : s \in u.sets[k]
  BY UbatchFirsts DEF Leaders, UpToNth, SeqsIn

\* After the cells were filled the tails and the sets belong together again.
LEMMA FilledIsLinked ==
    ASSUME NEW u, UbatchOK(u), NEW b, Sound(b), NEW g, NEW c, NEW min \in Cell, \A k \in DOMAIN u.sets : min + k - 1 \in Cell,
           Holds(b, g, Leaders(u)), Lined(g, FirstsOf(u), min, Len(u.sets)), FilledIn(g, c, u, min),
           \A s \in SeqsIn(u) \ Leaders(u) : b.tail[s] < 0
    PROVE  /\ Linked(c)
           /\ \A i \in Cell : c.cells[i].seq_id = {} <=> c.cells[i].pos = -1
           /\ \A i \in Cell : i - min + 1 \notin DOMAIN u.sets /\ c.cells[i].seq_id # {} => c.cells[i].src # -1
<1> DEFINE Nth(i) == i - min + 1
           firsts == FirstsOf(u)
<1>1. /\ DOMAIN firsts = DOMAIN u.sets /\ DOMAIN u.sets = 1 .. Len(u.sets) /\ Len(u.sets) \in Nat /\ min \in Int
      /\ \A k \in DOMAIN u.sets : firsts[k] \in u.sets[k] /\ u.sets[k] \in SUBSET SeqId /\ u.sets[k] # {}
      /\ \A j, k \in DOMAIN u.sets : j # k => u.sets[j] \cap u.sets[k] = {}
      /\ \A k \in DOMAIN u.sets : u.last[k] \in 0 .. MaxPos
  <2>1. /\ DOMAIN firsts = DOMAIN u.sets /\ DOMAIN u.sets = 1 .. Len(u.sets) /\ Len(u.sets) \in Nat
        /\ \A k \in DOMAIN u.sets : firsts[k] \in u.sets[k] /\ u.sets[k] \in SUBSET SeqId /\ u.sets[k] # {}
    BY UbatchFirsts
  <2>2. min \in Int
    BY DEF Cell
  <2> HIDE DEF firsts
  <2>3. /\ \A j, k \in DOMAIN u.sets : j # k => u.sets[j] \cap u.sets[k] = {}
        /\ \A k \in DOMAIN u.sets : u.last[k] \in 0 .. MaxPos
    BY DEF UbatchOK
  <2> QED
    BY <2>1, <2>2, <2>3
<1>2. \A i \in Cell : i = min + Nth(i) - 1
  BY <1>1 DEF Cell
<1>3. \A k \in DOMAIN u.sets : g.tail[firsts[k]] = min + k - 1 /\ firsts[k] \in Leaders(u)
  BY <1>1, LeadersAre DEF Lined
<1>4. b \in Memories /\ g \in Memories /\ Leaders(u) \in SUBSET SeqId /\ Leaders(u) \subseteq SeqsIn(u)
  BY LeadersAre DEF Sound, Holds
<1>5. ASSUME NEW s \in SeqId, s \in SeqsIn(u), NEW i \in Cell, g.tail[s] = i PROVE Nth(i) \in DOMAIN u.sets
  <2>1. CASE s \in Leaders(u)
    <3>1. PICK k \in DOMAIN u.sets : s = firsts[k]
      BY <2>1, LeadersAre
    <3>2. i = min + k - 1
      BY <1>3, <1>5, <3>1
    <3> QED
      BY <1>1, <3>2
  <2>2. CASE s \notin Leaders(u)
    <3>1. g.tail[s] < 0
      BY <1>5, <2>2 DEF Holds, Tailed
    <3> QED
      BY <1>5, <3>1 DEF Cell
  <2> QED
    BY <2>1, <2>2
<1>6. ASSUME NEW s \in SeqId \ SeqsIn(u), NEW k \in DOMAIN u.sets PROVE g.tail[s] # min + k - 1
  <2>1. firsts[k] # s
    BY <1>3, <1>4
  <2>2. g.tail[s] # g.tail[firsts[k]]
    BY <1>3, <2>1 DEF Holds, Tailed
  <2> QED
    BY <1>3, <2>2
<1>7. ASSUME NEW s \in SeqId, NEW i \in Cell PROVE c.tail[s] = i <=> s \in c.cells[i].seq_id
  <2>1. CASE Nth(i) \in DOMAIN u.sets
    <3>1. c.cells[i].seq_id = u.sets[Nth(i)]
      <4>1. i = min + Nth(i) - 1
        BY <1>2
      <4>2. c.cells[min + Nth(i) - 1].seq_id = u.sets[Nth(i)]
        BY <2>1 DEF FilledIn
      <4> HIDE DEF Nth
      <4> QED
        BY <4>1, <4>2
    <3>2. CASE s \in u.sets[Nth(i)]
      <4>1. c.tail[s] = min + Nth(i) - 1
        BY <2>1, <3>2 DEF FilledIn
      <4> QED
        BY <1>2, <3>1, <3>2, <4>1
    <3>3. CASE s \in SeqsIn(u) /\ s \notin u.sets[Nth(i)]
      <4>1. PICK k \in DOMAIN u.sets : s \in u.sets[k]
        BY <3>3, LeadersAre
      <4>2. c.tail[s] = min + k - 1 /\ k # Nth(i)
        BY <3>3, <4>1 DEF FilledIn
      <4>3. c.tail[s] # i
        BY <1>1, <2>1, <4>1, <4>2 DEF Cell
      <4> QED
        BY <3>1, <3>3, <4>3
    <3>4. CASE s \notin SeqsIn(u)
      <4>1. c.tail[s] = g.tail[s]
        BY <3>4 DEF FilledIn
      <4>2. g.tail[s] # min + Nth(i) - 1
        BY <1>6, <2>1, <3>4
      <4>3. s \notin u.sets[Nth(i)]
        BY <2>1, <3>4 DEF SeqsIn
      <4> QED
        BY <1>2, <3>1, <4>1, <4>2, <4>3
    <3> QED
      BY <3>2, <3>3, <3>4
  <2>2. CASE Nth(i) \notin DOMAIN u.sets
    <3>1. c.cells[i] = g.cells[i]
      BY <2>2 DEF FilledIn
    <3>2. CASE s \in SeqsIn(u)
      <4>1. g.tail[s] # i
        BY <1>5, <2>2, <3>2
      <4>2. s \notin g.cells[i].seq_id
        BY <4>1 DEF Holds, Traced, TracedCell
      <4>3. PICK k \in DOMAIN u.sets : s \in u.sets[k]
        BY <3>2, LeadersAre
      <4>4. c.tail[s] = min + k - 1
        BY <4>3 DEF FilledIn
      <4>5. c.tail[s] # i
        BY <1>1, <2>2, <4>3, <4>4 DEF Cell
      <4> QED
        BY <3>1, <4>2, <4>5
    <3>3. CASE s \notin SeqsIn(u)
      <4>1. c.tail[s] = g.tail[s]
        BY <3>3 DEF FilledIn
      <4>2. s \in g.cells[i].seq_id => g.tail[s] = i
        BY DEF Holds, Traced, TracedCell
      <4>3. ASSUME g.tail[s] = i PROVE s \in g.cells[i].seq_id
        <5>1. ~(g.tail[s] < 0) /\ s \notin Leaders(u)
          BY <1>4, <3>3, <4>3 DEF Cell
        <5>2. b.tail[s] < 0 \/ b.tail[s] >= 0
          BY <1>4, CellTypes
        <5> QED
          BY <4>3, <5>1, <5>2 DEF Holds, Tailed
      <4> QED
        BY <3>1, <4>1, <4>2, <4>3
    <3> QED
      BY <3>2, <3>3
  <2> QED
    BY <2>1, <2>2
<1>8. ASSUME NEW i \in Cell, g.cells[i].seq_id # {} PROVE g.cells[i].pos # -1 /\ g.cells[i].src # -1
  <2>1. PICK s \in SeqId : s \in g.cells[i].seq_id
    BY <1>4, <1>8, CellTypes
  <2>2. b.tail[s] >= 0 /\ g.cells[i].src = b.tail[s] /\ g.cells[i].pos = b.cells[b.tail[s]].pos
    BY <2>1 DEF Holds, Traced, TracedCell
  <2>3. b.tail[s] \in Cell
    BY <1>4, <2>2, CellTypes
  <2>4. s \in b.cells[b.tail[s]].seq_id
    BY <2>3 DEF Sound, Linked
  <2>5. b.cells[b.tail[s]].pos # -1
    BY <2>3, <2>4 DEF Sound, Settles
  <2> QED
    BY <2>2, <2>3, <2>5 DEF Cell
<1>9. ASSUME NEW i \in Cell
      PROVE  /\ c.cells[i].seq_id = {} <=> c.cells[i].pos = -1
             /\ Nth(i) \notin DOMAIN u.sets /\ c.cells[i].seq_id # {} => c.cells[i].src # -1
  <2>1. CASE Nth(i) \in DOMAIN u.sets
    <3>1. c.cells[i].seq_id = u.sets[Nth(i)] /\ c.cells[i].pos = u.last[Nth(i)]
      <4>1. i = min + Nth(i) - 1
        BY <1>2
      <4>2. c.cells[min + Nth(i) - 1].seq_id = u.sets[Nth(i)] /\ c.cells[min + Nth(i) - 1].pos = u.last[Nth(i)]
        BY <2>1 DEF FilledIn
      <4> HIDE DEF Nth
      <4> QED
        BY <4>1, <4>2
    <3>2. u.last[Nth(i)] \in 0 .. MaxPos /\ u.sets[Nth(i)] # {}
      BY <1>1, <2>1
    <3>3. c.cells[i].pos # -1
      BY <3>1, <3>2, SizeIs
    <3> QED
      BY <2>1, <3>1, <3>2, <3>3
  <2>2. CASE Nth(i) \notin DOMAIN u.sets
    <3>1. c.cells[i] = g.cells[i]
      BY <2>2 DEF FilledIn
    <3>2. g.cells[i].seq_id = {} => g.cells[i].pos = -1
      BY DEF Holds, Traced, TracedCell
    <3> QED
      BY <1>8, <3>1, <3>2
  <2> QED
    BY <2>1, <2>2
<1> QED
  BY <1>7, <1>9 DEF Linked

\* Some cell of the range has no other cell's state in its row, if some cell of it has no state.
LEMMA ZeroFound ==
    ASSUME NEW c \in Memories, NEW range \in SUBSET Cell, \A i \in Cell \ range : c.cells[i].src \in {-1, i},
           NEW i \in range, c.cells[i].src < 0
    PROVE  \E z \in range : \A j \in Cell : c.cells[j].src # z
<1> SUFFICES ASSUME \A z \in range : \E j \in Cell : c.cells[j].src = z PROVE FALSE
  OBVIOUS
<1> DEFINE S == {j \in range : c.cells[j].src \in range}
           f == [j \in S |-> c.cells[j].src]
<1>1. \A z \in range : \E j \in S : f[j] = z
  <2> SUFFICES ASSUME NEW z \in range PROVE \E j \in S : f[j] = z
    OBVIOUS
  <2>1. PICK j \in Cell : c.cells[j].src = z
    OBVIOUS
  <2>2. j \in range
    <3>1. z # -1
      BY DEF Cell
    <3> QED
      BY <2>1, <3>1
  <2> QED
    BY <2>1, <2>2
<1>2. f \in Surjection(S, range)
  BY <1>1 DEF Surjection
<1>3. IsFiniteSet(range)
  BY CellsAreFinite
<1>4. i \notin S /\ S \in SUBSET range
  <2>1. \A x \in Cell : ~(x < 0)
    BY SizeIs DEF Cell
  <2>2. c.cells[i].src \notin range
    BY <2>1
  <2> QED
    BY <2>2
<1> HIDE DEF S, f
<1>5. IsFiniteSet(S) /\ Cardinality(S) <= Cardinality(range) /\ (Cardinality(range) = Cardinality(S) => range = S)
  BY <1>3, <1>4, FS_Subset
<1>6. Cardinality(range) <= Cardinality(S)
  BY <1>2, <1>5, FS_Surjection
<1>7. Cardinality(S) \in Nat /\ Cardinality(range) \in Nat
  BY <1>3, <1>5, FS_CardinalityType
<1> QED
  BY <1>4, <1>5, <1>6, <1>7

\* The cells of the range have their state in their own row, and where it comes from is noted.
StagedFrom(c, slot, range) ==
    /\ slot.range = range /\ slot.memory \in Memories
    /\ slot.memory.head = Min(range) /\ slot.memory.tail = c.tail /\ slot.memory.rs_idx = c.rs_idx
    /\ \A i \in Cell : /\ slot.memory.cells[i].seq_id = c.cells[i].seq_id /\ slot.memory.cells[i].pos = c.cells[i].pos
                       /\ slot.memory.cells[i].src = IF i \in range THEN i ELSE c.cells[i].src
    /\ \A i \in range : slot.src0[i] = IF c.cells[i].src < 0 THEN slot.rs_z ELSE c.cells[i].src
    /\ slot.rs_z \in range \cup {Size} /\ \A j \in Cell : c.cells[j].src # slot.rs_z
    /\ (\E i \in range : c.cells[i].src < 0) => slot.rs_z \in range

\* Staging gives every cell of the range its own row and says where its state comes from.
LEMMA StagedIs ==
    ASSUME NEW c \in Memories, NEW range \in SUBSET Cell, Min(range) \in Cell, NEW ok \in BOOLEAN,
           \A i \in Cell \ range : c.cells[i].src \in {-1, i}
    PROVE  StagedFrom(c, Staged(c, range, ok), range) /\ Counted(Staged(c, range, ok).memory) /\ Staged(c, range, ok).ok = ok
<1> DEFINE slot == Staged(c, range, ok)
           zeros == {i \in range : \A j \in Cell : c.cells[j].src # i}
           rs_z == Min(zeros \cup {Size})
           cells == [i \in Cell |-> IF i \in range THEN [c.cells[i] EXCEPT !.src = i] ELSE c.cells[i]]
           o == [c EXCEPT !.cells = cells, !.head = Min(range), !.used = Cardinality(InUse(c.cells))]
           src0 == [i \in range |-> IF c.cells[i].src < 0 THEN rs_z ELSE c.cells[i].src]
<1>1. c.cells \in [Cell -> CellState] /\ c.tail \in [SeqId -> -1 .. Size - 1] /\ c.rs_idx \in [SeqId -> Nat] /\ c.head \in Cell /\ c.used \in Int
  BY DEF Memories
<1>2. slot = [memory |-> o, range |-> range, rs_z |-> rs_z, src0 |-> src0,
              ok |-> ok /\ ((\E i \in range : c.cells[i].src < 0) => zeros # {})]
  BY DEF Staged, Memories
<1>3. ASSUME NEW i \in Cell
      PROVE  /\ cells[i] \in CellState /\ cells[i].seq_id = c.cells[i].seq_id /\ cells[i].pos = c.cells[i].pos
             /\ cells[i].src = IF i \in range THEN i ELSE c.cells[i].src
  <2>1. c.cells[i] \in CellState
    BY <1>1
  <2>2. CASE i \in range
    <3>1. cells[i] = [c.cells[i] EXCEPT !.src = i] /\ i \in -1 .. Size - 1
      BY <2>2 DEF Cell
    <3> HIDE DEF cells
    <3> QED
      BY <2>1, <2>2, <3>1 DEF CellState
  <2>3. CASE i \notin range
    BY <2>1, <2>3
  <2> QED
    BY <2>2, <2>3
<1>4. cells \in [Cell -> CellState]
  <2>1. cells = [i \in Cell |-> cells[i]]
    OBVIOUS
  <2> HIDE DEF cells
  <2> QED
    BY <1>3, <2>1
<1>5. Cardinality(InUse(c.cells)) \in Int
  BY CellsAreFinite DEF InUse
<1>6. zeros \cup {Size} \in SUBSET Nat /\ zeros \cup {Size} # {}
  BY SizeIs DEF Cell
<1>7. rs_z \in zeros \cup {Size} /\ \A n \in zeros \cup {Size} : rs_z <= n
  BY <1>6, MinIsLeast
<1>8. \A j \in Cell : c.cells[j].src # rs_z
  <2>1. \A j \in Cell : c.cells[j].src # Size
    BY CellTypes, SizeIs
  <2> QED
    BY <1>7, <2>1
<1>9. (\E i \in range : c.cells[i].src < 0) => zeros # {}
  BY ZeroFound
<1>10. zeros # {} => rs_z \in range
  <2> SUFFICES ASSUME NEW z \in zeros PROVE rs_z \in range
    OBVIOUS
  <2>1. rs_z <= z /\ z < Size /\ z \in Int /\ Size \in Int
    BY <1>7, SizeIs DEF Cell
  <2>2. rs_z # Size
    BY <2>1
  <2> QED
    BY <1>7, <2>2
<1> HIDE DEF cells, slot, o, rs_z
<1>11. o.cells = cells /\ o.head = Min(range) /\ o.tail = c.tail /\ o.rs_idx = c.rs_idx /\ o.used = Cardinality(InUse(c.cells)) /\ o \in Memories
  BY <1>1, <1>4, <1>5 DEF Memories, o
<1>12. slot.memory = o /\ slot.range = range /\ slot.rs_z = rs_z /\ slot.src0 = src0 /\ slot.ok = ok
  BY <1>2, <1>9
<1>13. InUse(o.cells) = InUse(c.cells)
  BY <1>3, <1>11 DEF InUse
<1>14. StagedFrom(c, slot, range)
  <2>1. \A i \in range : slot.src0[i] = IF c.cells[i].src < 0 THEN slot.rs_z ELSE c.cells[i].src
    BY <1>12
  <2>2. slot.rs_z \in range \cup {Size} /\ \A j \in Cell : c.cells[j].src # slot.rs_z
    BY <1>7, <1>8, <1>12
  <2>3. (\E i \in range : c.cells[i].src < 0) => slot.rs_z \in range
    BY <1>9, <1>10, <1>12
  <2>4. \A i \in Cell : /\ slot.memory.cells[i].seq_id = c.cells[i].seq_id /\ slot.memory.cells[i].pos = c.cells[i].pos
                        /\ slot.memory.cells[i].src = IF i \in range THEN i ELSE c.cells[i].src
    BY <1>3, <1>11, <1>12
  <2> HIDE DEF src0, zeros
  <2> QED
    BY <1>11, <1>12, <2>1, <2>2, <2>3, <2>4 DEF StagedFrom
<1> QED
  BY <1>11, <1>12, <1>13, <1>14 DEF Counted, slot

-----------------------------------------------------------------------------
(* find_slot as a whole                                                    *)

\* The memory with which find_slot starts its second loop
Base(m, u) == [Unshared(m, u.sets) EXCEPT !.head = m.head, !.used = m.used]
\* b is m without the sequences that are not the first of their set.
IsBase(m, u, b) ==
    /\ Sound(b) /\ b.rs_idx = m.rs_idx
    /\ \A s \in SeqsIn(u) \ Leaders(u) : b.tail[s] < 0
    /\ \A s \in SeqId : (s \notin SeqsIn(u) \/ s \in Leaders(u)) => b.tail[s] = m.tail[s]
    /\ \A s \in SeqId : b.tail[s] >= 0 => b.tail[s] = m.tail[s] /\ b.cells[b.tail[s]].pos = m.cells[m.tail[s]].pos
    /\ \A r : Spare(b, r) => Spare(m, r)

\* The memory without those that join others is a base to start from.
LEMMA BaseIs == ASSUME NEW m, Sound(m), NEW u, UbatchOK(u) PROVE IsBase(m, u, Base(m, u))
<1> DEFINE n == Unshared(m, u.sets)
           b == Base(m, u)
           J == Joining(u.sets) \cap SeqId
<1>1. Sound(n) /\ Without(m, n, J)
  BY UnsharedIs
<1> HIDE DEF n
<1>2. n \in Memories /\ m \in Memories
  BY <1>1 DEF Sound
<1>3. b \in Memories /\ b.cells = n.cells /\ b.tail = n.tail /\ b.rs_idx = n.rs_idx
  BY <1>2 DEF Base, Memories, n
<1> HIDE DEF b
<1>4. Sound(b)
  BY <1>1, <1>3 DEF Sound, Linked, Settles
<1>5. \A s \in SeqId : s \in J <=> s \in SeqsIn(u) /\ s \notin Leaders(u)
  <2> SUFFICES ASSUME NEW s \in SeqId PROVE s \in J <=> s \in SeqsIn(u) /\ s \notin Leaders(u)
    OBVIOUS
  <2>1. \A k \in DOMAIN u.sets : FirstsOf(u)[k] = FirstId(u.sets[k]) /\ FirstsOf(u)[k] \in u.sets[k]
    BY UbatchFirsts DEF FirstsOf
  <2>2. s \in J <=> \E k \in DOMAIN u.sets : s \in u.sets[k] /\ s # FirstsOf(u)[k]
    BY <2>1 DEF Joining
  <2>3. s \in Leaders(u) <=> \E k \in DOMAIN u.sets : s = FirstsOf(u)[k]
    BY LeadersAre
  <2>4. s \in SeqsIn(u) <=> \E k \in DOMAIN u.sets : s \in u.sets[k]
    BY DEF SeqsIn
  <2>5. \A j, k \in DOMAIN u.sets : s \in u.sets[j] /\ s \in u.sets[k] => j = k
    BY DEF UbatchOK
  <2> QED
    BY <2>1, <2>2, <2>3, <2>4, <2>5
<1>6. \A s \in SeqId : (s \in J => b.tail[s] = -1) /\ (s \notin J => b.tail[s] = m.tail[s])
  BY <1>1, <1>3 DEF Without
<1>7. \A s \in SeqsIn(u) \ Leaders(u) : b.tail[s] < 0
  <2>1. \A s \in SeqsIn(u) : s \in SeqId
    BY LeadersAre, UbatchFirsts
  <2> QED
    BY <1>5, <1>6, <2>1
<1>8. ASSUME NEW i \in Cell, b.cells[i].seq_id # {} PROVE SameState(b.cells[i], m.cells[i])
  BY <1>1, <1>3, <1>8 DEF Without, Emptied
<1>9. ASSUME NEW s \in SeqId, b.tail[s] >= 0 PROVE b.tail[s] = m.tail[s] /\ b.cells[b.tail[s]].pos = m.cells[m.tail[s]].pos
  <2>1. b.tail[s] = m.tail[s]
    BY <1>6, <1>9
  <2>2. b.tail[s] \in Cell
    BY <1>3, <1>9, CellTypes
  <2>3. s \in b.cells[b.tail[s]].seq_id
    BY <1>4, <2>2 DEF Sound, Linked
  <2> QED
    BY <1>8, <2>1, <2>2, <2>3 DEF SameState
<1>10. ASSUME NEW r, Spare(b, r) PROVE Spare(m, r)
  <2>1. r \in Cell /\ b.cells[r].seq_id = {} /\ b.cells[r].src = r /\ r # -1
    BY <1>10 DEF Spare, Cell
  <2>2. ~Emptied(m, J, r)
    BY <1>1, <1>3, <2>1 DEF Without, NoState
  <2> QED
    BY <1>1, <1>3, <2>1, <2>2 DEF Without, Emptied, SameState, Spare
<1>11. b.rs_idx = m.rs_idx
  BY <1>1, <1>3 DEF Without
<1> QED
  BY <1>4, <1>5, <1>6, <1>7, <1>9, <1>10, <1>11 DEF IsBase, b

\* Where the state of the cell of s comes from, and that of an empty cell
Follows(m, slot, s, i) ==
    /\ i \in slot.range => slot.src0[i] = m.tail[s] /\ slot.src0[i] # slot.rs_z
    /\ i \notin slot.range => i = m.tail[s]
\* The state of cell i is taken from a row that is zeroed, or from that of a spare cell.
StartsEmpty(m, slot, i) ==
    \/ slot.src0[i] = slot.rs_z /\ slot.rs_z \in slot.range
    \/ Spare(m, slot.src0[i]) /\ slot.src0[i] # slot.rs_z
\* What find_slot gives to a ubatch
SlotOK(m, u, slot) ==
    /\ Sound(slot.memory) /\ Counted(slot.memory) /\ slot.ok = TRUE
    /\ slot.range \in SUBSET Cell /\ slot.rs_z \in slot.range \cup {Size} /\ slot.memory.rs_idx = m.rs_idx
    /\ \A i \in slot.range : slot.memory.cells[i].src = i
    /\ \A k \in DOMAIN u.sets : /\ slot.memory.head + k - 1 \in slot.range
                                /\ slot.memory.cells[slot.memory.head + k - 1].seq_id = u.sets[k]
                                /\ slot.memory.cells[slot.memory.head + k - 1].pos = u.last[k]
    /\ \A s \in SeqId \ SeqsIn(u) :
          /\ m.tail[s] < 0 => slot.memory.tail[s] < 0
          /\ m.tail[s] >= 0 => /\ slot.memory.tail[s] \in Cell
                               /\ slot.memory.cells[slot.memory.tail[s]].pos = m.cells[m.tail[s]].pos
                               /\ Follows(m, slot, s, slot.memory.tail[s])
    /\ \A k \in DOMAIN u.sets :
          /\ m.tail[FirstsOf(u)[k]] >= 0 => Follows(m, slot, FirstsOf(u)[k], slot.memory.head + k - 1)
          /\ m.tail[FirstsOf(u)[k]] < 0 => StartsEmpty(m, slot, slot.memory.head + k - 1)
    /\ \A i \in slot.range : slot.memory.cells[i].seq_id = {} => StartsEmpty(m, slot, i)
    /\ \A i \in Cell \ slot.range : slot.memory.cells[i].seq_id = {} /\ slot.memory.cells[i].src = i => Spare(m, i)

\* What find_slot leaves, put together from its loops
LEMMA SlotIs ==
    ASSUME NEW m, Sound(m), NEW u, UbatchOK(u), NEW b, IsBase(m, u, b), NEW g, NEW c, NEW slot, NEW range \in SUBSET Cell,
           Min(range) \in Cell, \A k \in DOMAIN u.sets : Min(range) + k - 1 \in range,
           Holds(b, g, Leaders(u)), Lined(g, FirstsOf(u), Min(range), Len(u.sets)), FilledIn(g, c, u, Min(range)),
           \A i \in Cell \ range : g.cells[i].src \in {-1, i},
           StagedFrom(c, slot, range), Counted(slot.memory), slot.ok = TRUE
    PROVE  SlotOK(m, u, slot)
<1> DEFINE min == Min(range)
           o == slot.memory
<1>1. /\ Sound(b) /\ b \in Memories /\ g \in Memories /\ m \in Memories /\ c \in Memories /\ o \in Memories
      /\ Leaders(u) \in SUBSET SeqId /\ Leaders(u) \subseteq SeqsIn(u) /\ min \in Int
      /\ g.rs_idx = b.rs_idx /\ o.rs_idx = m.rs_idx /\ o.head = min /\ slot.range = range /\ o.tail = c.tail
  BY LeadersAre DEF IsBase, Sound, Holds, FilledIn, StagedFrom, Cell
<1>2. /\ DOMAIN u.sets = 1 .. Len(u.sets) /\ Len(u.sets) \in Nat
      /\ \A k \in DOMAIN u.sets : FirstsOf(u)[k] \in u.sets[k] /\ FirstsOf(u)[k] \in Leaders(u) /\ FirstsOf(u)[k] \in SeqId
  BY UbatchFirsts, LeadersAre
<1>3. \A i \in Cell : /\ o.cells[i].seq_id = c.cells[i].seq_id /\ o.cells[i].pos = c.cells[i].pos
                      /\ i \in range => o.cells[i].src = i
                      /\ i \notin range => o.cells[i].src = g.cells[i].src
                      /\ c.cells[i].src = g.cells[i].src
  BY DEF StagedFrom, FilledIn
<1>4. \A s \in SeqsIn(u) \ Leaders(u) : b.tail[s] < 0
  BY DEF IsBase
<1>5. /\ Linked(c)
      /\ \A i \in Cell : c.cells[i].seq_id = {} <=> c.cells[i].pos = -1
      /\ \A i \in Cell : i - min + 1 \notin DOMAIN u.sets /\ c.cells[i].seq_id # {} => c.cells[i].src # -1
  <2>1. \A k \in DOMAIN u.sets : min + k - 1 \in Cell
    OBVIOUS
  <2> HIDE DEF min
  <2> QED
    BY <1>1, <1>4, <2>1, FilledIsLinked DEF min
<1>6. ASSUME NEW i \in Cell \ range PROVE i - min + 1 \notin DOMAIN u.sets /\ c.cells[i] = g.cells[i]
  <2>1. ASSUME i - min + 1 \in DOMAIN u.sets PROVE FALSE
    <3>1. min + (i - min + 1) - 1 \in range
      BY <2>1
    <3>2. min + (i - min + 1) - 1 = i
      BY <1>1 DEF Cell
    <3> QED
      BY <3>1, <3>2
  <2> QED
    BY <2>1 DEF FilledIn
<1> HIDE DEF min, o
<1>7. Sound(o)
  <2>1. Linked(o)
    BY <1>1, <1>3, <1>5 DEF Linked
  <2>2. ASSUME NEW i \in Cell
        PROVE  /\ o.cells[i].seq_id = {} <=> o.cells[i].pos = -1
               /\ o.cells[i].src \in {-1, i}
               /\ o.cells[i].seq_id # {} => o.cells[i].src = i
    <3>1. CASE i \in range
      BY <1>3, <1>5, <3>1
    <3>2. CASE i \notin range
      <4>1. o.cells[i].src = c.cells[i].src /\ c.cells[i].src \in {-1, i} /\ i - min + 1 \notin DOMAIN u.sets
        BY <1>3, <1>6, <3>2
      <4> QED
        BY <1>3, <1>5, <4>1
    <3> QED
      BY <3>1, <3>2
  <2> QED
    BY <1>1, <2>1, <2>2 DEF Sound, Settles
<1>8. ASSUME NEW i \in range
      PROVE  /\ g.cells[i].src < 0 => slot.src0[i] = slot.rs_z /\ slot.rs_z \in range
             /\ ~(g.cells[i].src < 0) => slot.src0[i] = g.cells[i].src /\ slot.src0[i] # slot.rs_z
  BY <1>3 DEF StagedFrom
<1>9. ASSUME NEW i \in Cell, g.cells[i].seq_id = {} PROVE g.cells[i].src = -1 \/ Spare(m, g.cells[i].src)
  <2>1. g.cells[i].src = -1 \/ Spare(b, g.cells[i].src)
    BY <1>9 DEF Holds, Traced, TracedCell
  <2> QED
    BY <2>1 DEF IsBase
<1>10. ASSUME NEW i \in range, g.cells[i].seq_id = {} PROVE StartsEmpty(m, slot, i)
  <2>1. CASE g.cells[i].src = -1
    BY <1>1, <1>8, <2>1 DEF StartsEmpty
  <2>2. CASE Spare(m, g.cells[i].src)
    <3>1. ~(g.cells[i].src < 0)
      BY <2>2 DEF Spare, Cell
    <3>2. slot.src0[i] = g.cells[i].src /\ slot.src0[i] # slot.rs_z
      BY <1>8, <3>1
    <3> QED
      BY <2>2, <3>2 DEF StartsEmpty
  <2> QED
    BY <1>9, <1>10, <2>1, <2>2
\* The cell of a sequence has its state.
<1>11. ASSUME NEW s \in SeqId, s \notin SeqsIn(u) \/ s \in Leaders(u), m.tail[s] >= 0, g.tail[s] \in Cell
       PROVE  /\ g.cells[g.tail[s]].pos = m.cells[m.tail[s]].pos
              /\ g.cells[g.tail[s]].src = m.tail[s] /\ Follows(m, slot, s, g.tail[s])
  <2>1. b.tail[s] = m.tail[s] /\ b.tail[s] >= 0 /\ b.cells[b.tail[s]].pos = m.cells[m.tail[s]].pos
    BY <1>11 DEF IsBase
  <2>2. s \in g.cells[g.tail[s]].seq_id
    BY <2>1 DEF Holds, Tailed
  <2>3. g.cells[g.tail[s]].src = b.tail[s] /\ g.cells[g.tail[s]].pos = b.cells[b.tail[s]].pos
    BY <1>11, <2>2 DEF Holds, Traced, TracedCell
  <2>4. ASSUME g.tail[s] \in range PROVE slot.src0[g.tail[s]] = m.tail[s] /\ slot.src0[g.tail[s]] # slot.rs_z
    <3>1. ~(g.cells[g.tail[s]].src < 0)
      <4>1. m.tail[s] \in Cell
        BY <1>1, <1>11, CellTypes
      <4> QED
        BY <2>1, <2>3, <4>1 DEF Cell
    <3>2. slot.src0[g.tail[s]] = g.cells[g.tail[s]].src /\ slot.src0[g.tail[s]] # slot.rs_z
      BY <1>8, <2>4, <3>1
    <3> QED
      BY <2>1, <2>3, <3>2
  <2>5. ASSUME g.tail[s] \notin range PROVE g.tail[s] = m.tail[s]
    <3>1. g.cells[g.tail[s]].src \in {-1, g.tail[s]}
      BY <1>11, <2>5
    <3> QED
      BY <1>11, <2>1, <2>3, <3>1
  <2> QED
    BY <1>1, <2>1, <2>3, <2>4, <2>5 DEF Follows
<1>12. ASSUME NEW s \in SeqId \ SeqsIn(u)
       PROVE  /\ m.tail[s] < 0 => o.tail[s] < 0
              /\ m.tail[s] >= 0 => /\ o.tail[s] \in Cell /\ o.cells[o.tail[s]].pos = m.cells[m.tail[s]].pos
                                   /\ Follows(m, slot, s, o.tail[s])
  <2>1. o.tail[s] = g.tail[s] /\ b.tail[s] = m.tail[s] /\ s \notin Leaders(u)
    BY <1>1 DEF FilledIn, IsBase
  <2>2. m.tail[s] < 0 => g.tail[s] < 0
    BY <2>1 DEF Holds, Tailed
  <2>3. ASSUME m.tail[s] >= 0
        PROVE  /\ g.tail[s] \in Cell /\ o.cells[g.tail[s]].pos = m.cells[m.tail[s]].pos /\ Follows(m, slot, s, g.tail[s])
    <3>1. g.tail[s] \in Cell
      BY <1>1, <2>1, <2>3, CellTypes DEF Holds, Tailed
    <3>2. g.cells[g.tail[s]].pos = m.cells[m.tail[s]].pos /\ Follows(m, slot, s, g.tail[s])
      BY <1>11, <2>3, <3>1
    <3>3. g.tail[s] - min + 1 \notin DOMAIN u.sets
      <4> SUFFICES ASSUME g.tail[s] - min + 1 \in DOMAIN u.sets PROVE FALSE
        OBVIOUS
      <4> DEFINE k == g.tail[s] - min + 1
      <4>1. g.tail[FirstsOf(u)[k]] = min + k - 1 /\ FirstsOf(u)[k] \in Leaders(u) /\ FirstsOf(u)[k] # s
        BY <1>1, <1>2 DEF Lined, min
      <4>2. min + k - 1 = g.tail[s]
        BY <1>1, <3>1 DEF Cell
      <4> QED
        BY <1>1, <4>1, <4>2 DEF Holds, Tailed
    <3>4. c.cells[g.tail[s]] = g.cells[g.tail[s]]
      BY <3>1, <3>3 DEF FilledIn, min
    <3> QED
      BY <1>3, <3>1, <3>2, <3>4
  <2> QED
    BY <2>1, <2>2, <2>3
<1>13. ASSUME NEW k \in DOMAIN u.sets
       PROVE  /\ m.tail[FirstsOf(u)[k]] >= 0 => Follows(m, slot, FirstsOf(u)[k], min + k - 1)
              /\ m.tail[FirstsOf(u)[k]] < 0 => StartsEmpty(m, slot, min + k - 1)
  <2> DEFINE s == FirstsOf(u)[k]
             i == min + k - 1
  <2>1. s \in Leaders(u) /\ s \in SeqId /\ g.tail[s] = i /\ i \in range /\ i \in Cell
    BY <1>2 DEF Lined, min
  <2> HIDE DEF s, i
  <2>2. m.tail[s] >= 0 => Follows(m, slot, s, i)
    BY <1>11, <2>1
  <2>3. ASSUME m.tail[s] < 0 PROVE StartsEmpty(m, slot, i)
    <3>1. b.tail[s] = m.tail[s]
      BY <2>1 DEF IsBase
    <3>2. ~(b.tail[s] >= 0)
      BY <1>1, <2>1, <2>3, <3>1, CellTypes
    <3>3. s \notin g.cells[i].seq_id
      BY <2>1, <3>2 DEF Holds, Traced, TracedCell
    <3>4. g.cells[i].seq_id = {}
      <4>1. g.cells[g.tail[s]].seq_id \subseteq {s}
        BY <2>1 DEF Holds, Tailed
      <4>2. g.cells[i].seq_id \subseteq {s}
        BY <2>1, <4>1
      <4> QED
        BY <3>3, <4>2
    <3> QED
      BY <1>10, <2>1, <3>4
  <2> QED
    BY <2>2, <2>3 DEF s, i
<1>14. ASSUME NEW i \in range, o.cells[i].seq_id = {} PROVE StartsEmpty(m, slot, i)
  <2>1. CASE i - min + 1 \in DOMAIN u.sets
    <3>1. i = min + (i - min + 1) - 1 /\ i \in Cell
      BY <1>1 DEF Cell
    <3>2. c.cells[min + (i - min + 1) - 1].seq_id = u.sets[i - min + 1]
      BY <2>1 DEF FilledIn, min
    <3>3. u.sets[i - min + 1] # {}
      BY <2>1, UbatchFirsts
    <3> QED
      BY <1>3, <1>14, <3>1, <3>2, <3>3
  <2>2. CASE i - min + 1 \notin DOMAIN u.sets
    <3>1. c.cells[i] = g.cells[i]
      BY <2>2 DEF FilledIn, min
    <3>2. g.cells[i].seq_id = {}
      <4>1. i \in Cell /\ o.cells[i].seq_id = c.cells[i].seq_id
        BY <1>3
      <4> QED
        BY <1>14, <3>1, <4>1
    <3> QED
      BY <1>10, <3>2
  <2> QED
    BY <2>1, <2>2
<1>15. ASSUME NEW i \in Cell \ range, o.cells[i].seq_id = {}, o.cells[i].src = i PROVE Spare(m, i)
  <2>1. g.cells[i].seq_id = {} /\ g.cells[i].src = i /\ i # -1
    BY <1>3, <1>6, <1>15 DEF Cell
  <2> QED
    BY <1>9, <2>1
<1>16. \A k \in DOMAIN u.sets : min + k - 1 \in range /\ o.cells[min + k - 1].seq_id = u.sets[k] /\ o.cells[min + k - 1].pos = u.last[k]
  <2>1. \A k \in DOMAIN u.sets : min + k - 1 \in range
    BY DEF min
  <2>2. \A k \in DOMAIN u.sets : c.cells[min + k - 1].seq_id = u.sets[k] /\ c.cells[min + k - 1].pos = u.last[k]
    BY DEF FilledIn, min
  <2> QED
    BY <1>3, <2>1, <2>2
<1>17. slot.rs_z \in slot.range \cup {Size} /\ \A i \in slot.range : slot.memory.cells[i].src = i
  BY <1>1, <1>3 DEF StagedFrom, o
<1>18. Counted(o) /\ slot.ok = TRUE /\ slot.range \in SUBSET Cell
  BY <1>1 DEF o
<1> QED
  BY <1>1, <1>7, <1>12, <1>13, <1>14, <1>15, <1>16, <1>17, <1>18 DEF SlotOK, o

\* find_slot finds cells for every ubatch, in every sound memory, and says of each where its state is.
LEMMA FindSlotIs ==
    ASSUME NEW m, Sound(m), NEW u, UbatchOK(u)
    PROVE  /\ SlotOK(m, u, FindSlot(m, u))
           /\ DOMAIN u.sets = {1} => FindSlot(m, u).range = {FindSlot(m, u).memory.head}
<1> DEFINE b == Base(m, u)
           firsts == FirstsOf(u)
           f == AllTaken(b, firsts)
           range == Span(TailsOf(f.m, firsts))
           g == Gathered(f.m, firsts, Min(range))
           c == Filled(g, u, Min(range))
           slot == Staged(c, range, f.ok)
<1>1. IsBase(m, u, b) /\ Sound(b)
  BY BaseIs DEF IsBase
<1>2. Ranked(firsts) /\ firsts # <<>> /\ Len(firsts) = Len(u.sets) /\ DOMAIN firsts = DOMAIN u.sets
      /\ UpToNth(firsts, Len(firsts)) = Leaders(u)
  BY UbatchFirsts DEF Leaders
<1>3. FindSlot(m, u) = slot
  BY DEF FindSlot, Placed, PlacedIn, Base, FirstsOf, TailsOf
<1> HIDE DEF b, firsts
<1>4. f \in Fetches /\ InTaking(b, f, Leaders(u))
  BY <1>1, <1>2, AllTakenIs
<1> HIDE DEF f
<1>5. Holds(b, f.m, Leaders(u)) /\ AtHome(f.m, Leaders(u)) /\ f.ok = TRUE
  BY <1>4 DEF InTaking
<1>6. Lies(f.m, firsts, range)
  BY <1>2, <1>5, RangeIsWide
<1>16. DOMAIN u.sets = {1} => range = {Min(range)}
  <2> SUFFICES ASSUME DOMAIN u.sets = {1} PROVE range = {Min(range)}
    OBVIOUS
  <2>1. PICK t \in Cell : TailsOf(f.m, firsts) = {t}
    <3>1. f.m.tail[firsts[1]] \in Cell
      BY <1>2, <1>6 DEF Lies
    <3>2. TailsOf(f.m, firsts) = {f.m.tail[firsts[1]]}
      BY <1>2 DEF TailsOf
    <3> QED
      BY <3>1, <3>2
  <2>2. {t} \in SUBSET Cell /\ {t} # {} /\ {t} \in SUBSET Nat
    BY DEF Cell
  <2>3. Min({t}) = t /\ Max({t}) = t
    BY <2>2, MinIsLeast, MaxIsGreatest
  <2>4. range = t .. t /\ Min(range) = t
    BY <2>1, <2>2, <2>3, SpanIs
  <2> QED
    BY <2>4 DEF Cell
<1> HIDE DEF range
<1>7. IsGathered(b, f.m, g, firsts, range, Len(firsts))
  BY <1>2, <1>5, <1>6, GatheredIs
<1> HIDE DEF g
<1>8. Holds(b, g, Leaders(u)) /\ Within(f.m, g, firsts, range) /\ Lined(g, firsts, Min(range), Len(u.sets)) /\ g \in Memories
  BY <1>2, <1>7 DEF IsGathered, Holds
<1>9. /\ range \in SUBSET Cell /\ Min(range) \in Cell /\ \A k \in DOMAIN u.sets : Min(range) + k - 1 \in range
      /\ \A k \in DOMAIN firsts : f.m.tail[firsts[k]] \in range
  BY <1>2, <1>6 DEF Lies
<1>10. FilledIn(g, c, u, Min(range))
  BY <1>8, <1>9, FilledIs
<1> HIDE DEF c
<1>11. c \in Memories
  BY <1>10 DEF FilledIn
<1>12. ASSUME NEW i \in Cell \ range PROVE g.cells[i].src \in {-1, i}
  <2>1. \A s \in Leaders(u) : f.m.tail[s] # i
    BY <1>2, <1>9, LeadersAre DEF firsts
  <2>2. f.m.cells[i].src \in {-1, i}
    BY <1>5, <2>1 DEF AtHome
  <2> QED
    BY <1>8, <2>2 DEF Within
<1>13. \A i \in Cell \ range : c.cells[i].src \in {-1, i}
  BY <1>10, <1>12 DEF FilledIn
<1>14. StagedFrom(c, slot, range) /\ Counted(slot.memory) /\ slot.ok = TRUE
  BY <1>5, <1>9, <1>11, <1>13, StagedIs
<1> HIDE DEF slot
<1>15. SlotOK(m, u, slot)
  BY <1>1, <1>8, <1>9, <1>10, <1>12, <1>14, SlotIs DEF firsts
<1>17. slot.range = range /\ slot.memory.head = Min(range)
  BY <1>14 DEF StagedFrom
<1> QED
  BY <1>3, <1>15, <1>16, <1>17

-----------------------------------------------------------------------------
(* The ubatches of a batch                                                 *)

\* The sets of a ubatch are those of its entries, each of them once.
LEMMA SetsOfIs ==
    ASSUME NEW batch, NEW part \in Seq(DOMAIN batch), part # <<>>
    PROVE  /\ SetsOf(batch, part) \in Seq({batch[part[j]].seqs : j \in DOMAIN part})
           /\ SetsOf(batch, part) # <<>>
           /\ \A j, k \in DOMAIN SetsOf(batch, part) : j # k => SetsOf(batch, part)[j] # SetsOf(batch, part)[k]
           /\ \A j \in DOMAIN part : batch[part[j]].seqs \in ToSet(SetsOf(batch, part))
<1> DEFINE N == Len(part)
           T == {batch[part[j]].seqs : j \in DOMAIN part}
           c0 == <<>>
           Apiece(x) == \A j, k \in DOMAIN x : j # k => x[j] # x[k]
           Covers(x, n) == \A j \in 1 .. n : batch[part[j]].seqs \in ToSet(x)
           Step(n, x) == IF batch[part[n]].seqs \in ToSet(x) THEN x ELSE Append(x, batch[part[n]].seqs)
           G == [n \in 0 .. N |-> {x \in Seq(T) : Apiece(x) /\ Covers(x, n) /\ (n > 0 => x # <<>>)}]
           h == [n \in 1 .. N |-> [x \in G[n - 1] |-> Step(n, x)]]
           f == CHOOSE f : f = [n \in 0 .. N |-> IF n = 0 THEN c0 ELSE Step(n, f[n - 1])]
<1>0. N \in Nat /\ N > 0 /\ DOMAIN part = 1 .. N
  OBVIOUS
<1>1. c0 \in G[0] /\ N \in Nat
  BY <1>0
<1>2. ASSUME NEW n \in 1 .. N, NEW x \in G[n - 1] PROVE Step(n, x) \in G[n]
  <2> DEFINE S == batch[part[n]].seqs
  <2>1. n \in 0 .. N /\ n - 1 \in 0 .. N /\ x \in Seq(T) /\ Apiece(x) /\ Covers(x, n - 1) /\ S \in T
    <3>1. n \in DOMAIN part /\ n \in 0 .. N /\ n - 1 \in 0 .. N
      BY <1>0
    <3>2. S \in T
      BY <3>1
    <3> HIDE DEF T, S, N
    <3> HIDE DEF Apiece, Covers
    <3>3. x \in {y \in Seq(T) : Apiece(y) /\ Covers(y, n - 1) /\ (n - 1 > 0 => y # <<>>)}
      BY <3>1
    <3> QED
      BY <3>1, <3>2, <3>3
  <2>2. Step(n, x) = IF S \in ToSet(x) THEN x ELSE Append(x, S)
    OBVIOUS
  <2>6. ASSUME NEW y, S \in ToSet(y), \A j \in 1 .. n - 1 : batch[part[j]].seqs \in ToSet(y) PROVE Covers(y, n)
    <3>1. \A j \in 1 .. n : j \in 1 .. n - 1 \/ j = n
      BY <1>0
    <3> QED
      BY <2>6, <3>1
  <2>7. Covers(x, n - 1) => \A j \in 1 .. n - 1 : batch[part[j]].seqs \in ToSet(x)
    OBVIOUS
  <2> HIDE DEF Step, S, T, Covers
  <2>3. Append(x, S) \in Seq(T) /\ Append(x, S) # <<>> /\ Len(x) \in Nat
        /\ DOMAIN x = 1 .. Len(x) /\ DOMAIN Append(x, S) = 1 .. Len(x) + 1
        /\ (\A k \in 1 .. Len(x) : Append(x, S)[k] = x[k]) /\ Append(x, S)[Len(x) + 1] = S
    BY <2>1
  <2>4. CASE S \in ToSet(x)
    <3>1. x # <<>>
      BY <2>4 DEF ToSet
    <3>2. Covers(x, n)
      BY <2>1, <2>4, <2>6, <2>7
    <3> QED
      BY <2>1, <2>2, <2>4, <3>1, <3>2
  <2>5. CASE S \notin ToSet(x)
    <3>1. \A k \in DOMAIN x : x[k] # S
      BY <2>5 DEF ToSet
    <3>2. Apiece(Append(x, S))
      BY <2>1, <2>3, <3>1
    <3>3. S \in ToSet(Append(x, S)) /\ \A j \in 1 .. n - 1 : batch[part[j]].seqs \in ToSet(Append(x, S))
      <4>1. Len(x) + 1 \in DOMAIN Append(x, S)
        BY <2>3
      <4>2. S \in ToSet(Append(x, S))
        BY <2>3, <4>1 DEF ToSet
      <4>3. \A k \in DOMAIN x : k \in DOMAIN Append(x, S) /\ Append(x, S)[k] = x[k]
        BY <2>3
      <4>4. \A e \in ToSet(x) : e \in ToSet(Append(x, S))
        BY <4>3 DEF ToSet
      <4> QED
        BY <2>1, <2>7, <4>2, <4>4
    <3>4. Covers(Append(x, S), n)
      BY <2>6, <3>3
    <3> QED
      BY <2>1, <2>2, <2>3, <2>5, <3>2, <3>4
  <2> QED
    BY <2>4, <2>5
<1> HIDE DEF N, c0
<1> HIDE DEF Step, G
<1>3. \A n \in 1 .. N : \A x \in G[n - 1] : h[n][x] = Step(n, x) /\ h[n][x] \in G[n]
  BY <1>2
<1> HIDE DEF h
<1>4. PICK g : IsLoop(g, c0, h, G, N)
  BY <1>1, <1>3, LoopExists
<1>5. ASSUME NEW n \in 0 .. N PROVE g[n] = IF n = 0 THEN c0 ELSE Step(n, g[n - 1])
  <2>1. n # 0 => n \in 1 .. N
    BY <1>1
  <2> QED
    BY <1>3, <1>4, <2>1 DEF IsLoop, Runs
<1>6. f = [n \in 0 .. N |-> IF n = 0 THEN c0 ELSE Step(n, f[n - 1])]
  <2>1. g = [n \in 0 .. N |-> IF n = 0 THEN c0 ELSE Step(n, g[n - 1])]
    BY <1>4, <1>5 DEF IsLoop
  <2> QED
    BY <2>1
<1> HIDE DEF f
<1>7. f[0] \in G[0] /\ \A n \in 1 .. N : f[n - 1] \in G[n - 1] => f[n] \in G[n]
  <2>1. f[0] = c0
    BY <1>1, <1>6
  <2>2. ASSUME NEW n \in 1 .. N PROVE f[n] = Step(n, f[n - 1])
    <3>1. n \in 0 .. N /\ n # 0
      BY <1>1
    <3> QED
      BY <1>6, <3>1
  <2> QED
    BY <1>1, <1>2, <2>1, <2>2
<1>8. f[N] \in G[N]
  BY <1>1, <1>7, LoopReaches
<1>9. SetsOf(batch, part) = f[N]
  BY DEF SetsOf, f, Step, N, c0
<1>10. f[N] \in Seq(T) /\ f[N] # <<>> /\ Apiece(f[N]) /\ Covers(f[N], N)
  <2>1. N > 0 /\ N \in 0 .. N
    BY <1>0 DEF N
  <2> HIDE DEF Apiece, T, Covers
  <2> QED
    BY <1>8, <2>1 DEF G
<1>11. \A j \in DOMAIN part : batch[part[j]].seqs \in ToSet(f[N])
  BY <1>0, <1>10 DEF N
<1> QED
  BY <1>9, <1>10, <1>11

\* A batch of llama_decode: positions that fit, and a sequence for each entry
Batches == Seq([pos : 0 .. MaxPos, seqs : (SUBSET SeqId) \ {{}}])

\* The ubatches of the splits are such as find_slot() expects.
LEMMA UbatchOfIs ==
    ASSUME NEW batch \in Batches, NEW part \in Seq(DOMAIN batch), part # <<>>, Together(batch, part)
    PROVE  UbatchOK(UbatchOf(batch, part))
<1> DEFINE sets == SetsOf(batch, part)
           T == {batch[part[j]].seqs : j \in DOMAIN part}
           Entries(S) == Among(part, {k \in DOMAIN batch : batch[k].seqs = S})
           u == UbatchOf(batch, part)
<1>1. \A i \in DOMAIN batch : batch[i].pos \in 0 .. MaxPos /\ batch[i].seqs \in (SUBSET SeqId) \ {{}}
  <2> DEFINE R == [pos : 0 .. MaxPos, seqs : (SUBSET SeqId) \ {{}}]
  <2>0. batch \in Seq(R)
    BY DEF Batches
  <2> HIDE DEF R
  <2>1. \A i \in DOMAIN batch : batch[i] \in R
    BY <2>0
  <2> QED
    BY <2>1 DEF R
<1>2. \A j \in DOMAIN part : part[j] \in DOMAIN batch
  OBVIOUS
<1>3. sets \in Seq(T) /\ sets # <<>> /\ \A j, k \in DOMAIN sets : j # k => sets[j] # sets[k]
  BY SetsOfIs
<1>4. u.sets = sets /\ \A j \in DOMAIN sets : /\ u.first[j] = batch[Head(Entries(sets[j]))].pos
                                              /\ u.last[j] = batch[Last(Entries(sets[j]))].pos
  BY DEF UbatchOf
<1> HIDE DEF sets, u
<1>5. T \subseteq (SUBSET SeqId) \ {{}} /\ \A R, S \in T : R = S \/ R \cap S = {}
  BY <1>1, <1>2 DEF Together
<1>6. \A j \in DOMAIN sets : sets[j] \in T
  BY <1>3
<1>7. sets \in Seq((SUBSET SeqId) \ {{}})
  <2> HIDE DEF T
  <2> QED
    BY <1>3, <1>5
<1>8. ASSUME NEW j \in DOMAIN sets
      PROVE  Head(Entries(sets[j])) \in DOMAIN batch /\ Last(Entries(sets[j])) \in DOMAIN batch
  <2> DEFINE W == {k \in DOMAIN batch : batch[k].seqs = sets[j]}
             e == Entries(sets[j])
  <2>1. PICK i \in DOMAIN part : batch[part[i]].seqs = sets[j]
    BY <1>6
  <2>2. part[i] \in W
    BY <1>2, <2>1
  <2> HIDE DEF W
  <2>3. e \in Seq({t \in DOMAIN batch : t \in W}) /\ e # <<>>
    BY <2>2, AmongIs, AmongHas DEF W
  <2> HIDE DEF e
  <2>4. e \in Seq(DOMAIN batch) /\ e # <<>>
    BY <2>3
  <2>5. Len(e) \in Nat /\ DOMAIN e = 1 .. Len(e) /\ Len(e) # 0 /\ \A k \in DOMAIN e : e[k] \in DOMAIN batch
    BY <2>4
  <2>6. Head(e) = e[1] /\ Last(e) = e[Len(e)]
    BY <2>4 DEF Last
  <2> QED
    BY <2>5, <2>6 DEF e
<1>9. \A j, k \in DOMAIN sets : j # k => sets[j] \cap sets[k] = {}
  BY <1>3, <1>5, <1>6
<1>10. \A j \in DOMAIN sets : u.first[j] \in 0 .. MaxPos /\ u.last[j] \in 0 .. MaxPos
  BY <1>1, <1>4, <1>8
<1>11. UbatchOK(u)
  BY <1>3, <1>4, <1>7, <1>9, <1>10 DEF UbatchOK
<1> QED
  BY <1>11 DEF u

-----------------------------------------------------------------------------
(* The calls of the owner leave a good memory                              *)

\* What every operation of the memory keeps
Good(m) == Sound(m) /\ Counted(m) /\ m.rs_idx \in [SeqId -> Group]
\* o has the cells and the tails of n.
LEMMA SameCells ==
    ASSUME NEW n, Good(n), NEW o \in Memories, o.cells = n.cells, o.tail = n.tail, o.used = n.used,
           o.rs_idx \in [SeqId -> Group]
    PROVE  Good(o)
<1>1. Linked(o) /\ Settles(o)
  BY DEF Good, Sound, Linked, Settles
<1> QED
  BY <1>1 DEF Good, Sound, Counted

\* The new head of the search is a cell.
LEMMA HeadIs ==
    ASSUME NEW h \in Cell, NEW S \in SUBSET Cell
    PROVE  Min({h} \cup S) \in Cell
<1>1. {h} \cup S \in SUBSET Nat /\ {h} \cup S # {}
  BY DEF Cell
<1> QED
  BY <1>1, MinIsLeast

\* The groups are numbers, and 0 is one of them.
LEMMA GroupIs == ASSUME NEW n \in Nat, setup.n_rs_seq = n PROVE 0 \in Group /\ Group \subseteq Nat /\ [SeqId -> Group] \subseteq [SeqId -> Nat]
<1>1. 0 \in Group /\ Group \subseteq Nat
  BY DEF Group
<1> QED
  BY <1>1

\* clear() leaves a good memory.
LEMMA ClearedIs == ASSUME setup.n_rs_seq \in Nat PROVE Good(Cleared)
<1>1. Cleared.cells = [i \in Cell |-> Blank] /\ Cleared.tail = [s \in SeqId |-> -1] /\ Cleared.head = 0 /\ Cleared.used = 0
      /\ Cleared.rs_idx = [s \in SeqId |-> 0]
  BY DEF Cleared
<1>2. Cleared \in Memories
  <2>1. [i \in Cell |-> Blank] \in [Cell -> CellState]
    BY SizeIs
  <2>2. [s \in SeqId |-> -1] \in [SeqId -> -1 .. Size - 1] /\ 0 \in Cell
    BY SizeIs DEF Cell
  <2> QED
    BY <2>1, <2>2 DEF Cleared, Memories
<1>3. Linked(Cleared) /\ Settles(Cleared)
  <2>1. \A i \in Cell : Cleared.cells[i] = Blank
    BY <1>1
  <2>2. \A s \in SeqId, i \in Cell : Cleared.tail[s] # i
    BY <1>1 DEF Cell
  <2> QED
    BY <2>1, <2>2 DEF Linked, Settles, Blank
<1>4. InUse(Cleared.cells) = {}
  BY <1>1 DEF InUse, Blank
<1>5. Counted(Cleared)
  BY <1>1, <1>4, FS_EmptySet DEF Counted
<1>6. Cleared.rs_idx \in [SeqId -> Group]
  BY <1>1, GroupIs
<1> QED
  BY <1>2, <1>3, <1>5, <1>6 DEF Good, Sound

\* So does a sequence that leaves.
LEMMA LeftIs ==
    ASSUME NEW m, Good(m), NEW s \in SeqId
    PROVE  Good(Leave(m, s)) /\ Without(m, Leave(m, s), {s})
<1>1. Leave(m, s) \in Memories /\ Without(m, Leave(m, s), {s}) /\ Counted(Leave(m, s))
  BY LeaveIs DEF Good
<1>2. Sound(Leave(m, s))
  BY <1>1, WithoutIsSound DEF Good
<1> QED
  BY <1>1, <1>2 DEF Good, Without

\* o has the cells and the tails of n, and the index x.
HasIndex(n, o, x) == o.cells = n.cells /\ o.tail = n.tail /\ o.rs_idx = x

\* So does seq_rm() of all positions,
LEMMA RemovedAllIs ==
    ASSUME NEW m, Good(m), NEW s \in SeqId, setup.n_rs_seq \in Nat
    PROVE  Good(RemovedAll(m, s)) /\ HasIndex(Leave(m, s), RemovedAll(m, s), [m.rs_idx EXCEPT ![s] = 0])
<1> DEFINE n == Leave(m, s)
           p == Freed(m, n)
           o == RemovedAll(m, s)
<1>1. Good(n) /\ n \in Memories
  BY LeftIs DEF Good, Sound
<1> HIDE DEF n
<1>2. Min({n.head} \cup (InUse(m.cells) \ InUse(n.cells))) \in Cell
  <2>1. n.head \in Cell /\ InUse(m.cells) \ InUse(n.cells) \in SUBSET Cell
    BY <1>1 DEF Memories, InUse
  <2> QED
    BY <2>1, HeadIs
<1>3. p = [n EXCEPT !.head = Min({@} \cup (InUse(m.cells) \ InUse(n.cells)))]
  BY DEF Freed
<1>4. p \in Memories /\ p.cells = n.cells /\ p.tail = n.tail /\ p.used = n.used /\ p.rs_idx = n.rs_idx
  BY <1>1, <1>2, <1>3 DEF Memories
<1> HIDE DEF p
<1>5. o = [p EXCEPT !.rs_idx = [p.rs_idx EXCEPT ![s] = 0]]
  BY <1>4 DEF RemovedAll, p, n, Memories
<1> HIDE DEF o
<1>6. p.rs_idx \in [SeqId -> Group]
  BY <1>1, <1>4 DEF Good
<1>7. [p.rs_idx EXCEPT ![s] = 0] \in [SeqId -> Group]
  BY <1>6, GroupIs
<1>8. [p.rs_idx EXCEPT ![s] = 0] \in [SeqId -> Nat]
  BY <1>7, GroupIs
<1>9. o \in Memories /\ o.cells = n.cells /\ o.tail = n.tail /\ o.used = n.used /\ o.rs_idx = [p.rs_idx EXCEPT ![s] = 0]
  BY <1>4, <1>5, <1>8 DEF Memories
<1>10. n.rs_idx = m.rs_idx
  BY LeftIs DEF n, Without
<1>11. Good(o) /\ HasIndex(n, o, [m.rs_idx EXCEPT ![s] = 0])
  BY <1>1, <1>4, <1>7, <1>9, <1>10, SameCells DEF HasIndex
<1> QED
  BY <1>11 DEF o, n

\* o is m with position p in cell i.
HasPos(m, o, i, p) ==
    /\ o.tail = m.tail /\ \A j \in Cell : o.cells[j].seq_id = m.cells[j].seq_id /\ o.cells[j].src = m.cells[j].src
    /\ o.cells[i].pos = p /\ \A j \in Cell : j # i => o.cells[j].pos = m.cells[j].pos

\* m with another position in the cell of s
LEMMA MovedIs ==
    ASSUME NEW m, Good(m), NEW s \in SeqId, m.tail[s] >= 0, NEW p \in 0 .. MaxPos
    PROVE  LET o == [m EXCEPT !.cells[m.tail[s]].pos = p]
           IN Good(o) /\ HasPos(m, o, m.tail[s], p) /\ o.rs_idx = m.rs_idx
<1> DEFINE i == m.tail[s]
           c == [m.cells[i] EXCEPT !.pos = p]
           o == [m EXCEPT !.cells = [m.cells EXCEPT ![i] = c]]
<1>1. m \in Memories /\ m.cells \in [Cell -> CellState] /\ i \in Cell
  BY CellTypes DEF Good, Sound, Memories
<1>2. c \in CellState /\ c.seq_id = m.cells[i].seq_id /\ c.src = m.cells[i].src /\ c.pos = p
  BY <1>1 DEF CellState
<1>3. s \in m.cells[i].seq_id
  BY <1>1 DEF Good, Sound, Linked
<1>4. [m EXCEPT !.cells[m.tail[s]].pos = p] = o
  BY <1>1 DEF Memories
<1> HIDE DEF i, c
<1>5. [m.cells EXCEPT ![i] = c] \in [Cell -> CellState]
  BY <1>1, <1>2
<1>6. o \in Memories /\ o.tail = m.tail /\ o.used = m.used /\ o.rs_idx = m.rs_idx /\ o.cells = [m.cells EXCEPT ![i] = c]
  BY <1>1, <1>5 DEF Memories
<1> HIDE DEF o
<1>7. o.cells[i] = c /\ \A j \in Cell : j # i => o.cells[j] = m.cells[j]
  BY <1>1, <1>6
<1>8. \A j \in Cell : o.cells[j].seq_id = m.cells[j].seq_id /\ o.cells[j].src = m.cells[j].src
  BY <1>2, <1>7
<1>9. \A j \in Cell : o.cells[j].pos = m.cells[j].pos \/ (o.cells[j].pos # -1 /\ m.cells[j].pos # -1)
  <2>1. m.cells[i].pos # -1 /\ p # -1
    BY <1>1, <1>3 DEF Good, Sound, Settles
  <2> SUFFICES ASSUME NEW j \in Cell PROVE o.cells[j].pos = m.cells[j].pos \/ (o.cells[j].pos # -1 /\ m.cells[j].pos # -1)
    OBVIOUS
  <2>2. CASE j = i
    <3>1. o.cells[i] = c /\ c.pos = p
      BY <1>2, <1>7
    <3>2. o.cells[j].pos = p
      BY <2>2, <3>1
    <3>3. m.cells[j].pos # -1
      BY <2>1, <2>2
    <3> QED
      BY <2>1, <3>2, <3>3
  <2>3. CASE j # i
    BY <1>7, <2>3
  <2> QED
    BY <2>2, <2>3
<1>10. Linked(o) /\ Settles(o)
  BY <1>6, <1>8, <1>9 DEF Good, Sound, Linked, Settles
<1>11. InUse(o.cells) = InUse(m.cells)
  BY <1>8 DEF InUse
<1>12. Good(o)
  BY <1>6, <1>10, <1>11 DEF Good, Sound, Counted
<1>13. HasPos(m, o, i, p)
  BY <1>1, <1>2, <1>6, <1>7, <1>8 DEF HasPos
<1> QED
  BY <1>4, <1>6, <1>12, <1>13 DEF i

\* and a rollback, whether it is refused or not.
LEMMA RolledBackIs ==
    ASSUME NEW m, Good(m), NEW s \in SeqId, NEW p0 \in Nat \ {0}, setup.n_rs_seq \in Nat
    PROVE  LET o == RolledBack(m, s, p0)
           IN /\ Good(o)
              /\ Steps(m, s, p0) <= 0 \/ Refused(m, s, p0) => o = m
              /\ ~(Steps(m, s, p0) <= 0 \/ Refused(m, s, p0)) =>
                    /\ m.tail[s] \in Cell /\ Steps(m, s, p0) \in Group
                    /\ HasPos(m, o, m.tail[s], p0 - 1) /\ o.rs_idx = [m.rs_idx EXCEPT ![s] = Steps(m, s, p0)]
<1> DEFINE r == Steps(m, s, p0)
           n == [m EXCEPT !.cells[m.tail[s]].pos = p0 - 1]
           o == [n EXCEPT !.rs_idx = [n.rs_idx EXCEPT ![s] = r]]
<1>1. CASE r <= 0 \/ Refused(m, s, p0)
  BY <1>1 DEF RolledBack
<1>2. CASE ~(r <= 0 \/ Refused(m, s, p0))
  <2>0. m \in Memories
    BY DEF Good, Sound
  <2>1. m.tail[s] \in Cell /\ m.tail[s] >= 0 /\ m.cells[m.tail[s]].pos \in -1 .. MaxPos
    BY <1>2, <2>0, CellTypes DEF Steps, PosOf
  <2>2. r = m.cells[m.tail[s]].pos - p0 + 1 /\ r \in Group /\ r \in Nat /\ p0 - 1 \in 0 .. MaxPos
    BY <1>2, <2>1, SizeIs DEF Steps, PosOf, Refused, Group
  <2>3. Good(n) /\ n \in Memories /\ HasPos(m, n, m.tail[s], p0 - 1) /\ n.rs_idx = m.rs_idx
    BY <2>1, <2>2, MovedIs DEF Good, Sound
  <2>4. RolledBack(m, s, p0) = o
    BY <1>2, <2>0, <2>1 DEF RolledBack, Memories
  <2> HIDE DEF n, r
  <2>5. [n.rs_idx EXCEPT ![s] = r] \in [SeqId -> Group]
    BY <2>2, <2>3 DEF Good
  <2>6. [n.rs_idx EXCEPT ![s] = r] \in [SeqId -> Nat]
    BY <2>5, GroupIs
  <2>7. o \in Memories /\ o.cells = n.cells /\ o.tail = n.tail /\ o.used = n.used /\ o.rs_idx = [n.rs_idx EXCEPT ![s] = r]
    BY <2>3, <2>6 DEF Memories
  <2> HIDE DEF o
  <2>8. Good(o)
    BY <2>3, <2>5, <2>7, SameCells
  <2>9. HasPos(m, o, m.tail[s], p0 - 1)
    BY <2>3, <2>7 DEF HasPos
  <2> QED
    BY <1>2, <2>1, <2>2, <2>3, <2>4, <2>7, <2>8, <2>9 DEF r
<1> QED
  BY <1>1, <1>2

\* So seq_rm() of one sequence always does.
LEMMA SeqRmIs ==
    ASSUME NEW m, Good(m), NEW s \in SeqId, NEW p0 \in Nat, setup.n_rs_seq \in Nat
    PROVE  Good(SeqRm(m, s, p0))
BY RemovedAllIs, RolledBackIs DEF SeqRm

\* o is n, which d is not in, with d in cell i.
HasJoined(n, o, d, i) ==
    /\ o.rs_idx = n.rs_idx /\ o.tail[d] = i /\ \A z \in SeqId : z # d => o.tail[z] = n.tail[z]
    /\ \A j \in Cell : /\ o.cells[j].seq_id = {} <=> n.cells[j].seq_id = {}
                       /\ o.cells[j].pos = n.cells[j].pos /\ o.cells[j].src = n.cells[j].src

\* seq_cp() leaves a good memory.
LEMMA CopiedIs ==
    ASSUME NEW m, Good(m), NEW s \in SeqId, NEW d \in SeqId, s # d
    PROVE  /\ Good(Copied(m, s, d))
           /\ m.tail[s] < 0 => Copied(m, s, d) = Leave(m, d)
           /\ ~(m.tail[s] < 0) => HasJoined(Leave(m, d), Copied(m, s, d), d, m.tail[s])
<1> DEFINE n == Leave(m, d)
           i == m.tail[s]
           c == [n.cells[i] EXCEPT !.seq_id = @ \cup {d}]
           o == [n EXCEPT !.tail = [n.tail EXCEPT ![d] = i], !.cells = [n.cells EXCEPT ![i] = c]]
<1>1. Good(n) /\ Without(m, n, {d}) /\ n \in Memories /\ n.cells \in [Cell -> CellState] /\ n.tail \in [SeqId -> -1 .. Size - 1]
  BY LeftIs DEF Good, Sound, Memories
<1>2. CASE m.tail[s] < 0
  BY <1>1, <1>2 DEF Copied
<1>3. CASE ~(m.tail[s] < 0)
  <2>0. Copied(m, s, d) = [n EXCEPT !.tail[d] = i, !.cells[i].seq_id = @ \cup {d}]
    BY <1>3 DEF Copied
  <2> HIDE DEF n
  <2>1. i \in Cell /\ i \in -1 .. Size - 1
    BY <1>3, CellTypes DEF Good, Sound
  <2>2. n.tail[s] = i /\ n.tail[d] = -1 /\ s \in n.cells[i].seq_id /\ \A j \in Cell : d \notin n.cells[j].seq_id
    <3>1. n.tail[s] = m.tail[s] /\ n.tail[d] = -1 /\ \A j \in Cell : n.cells[j].seq_id = m.cells[j].seq_id \ {d}
      BY <1>1 DEF Without
    <3>2. n.tail[s] = i
      BY <3>1
    <3> HIDE DEF i
    <3>3. s \in n.cells[i].seq_id
      BY <1>1, <2>1, <3>2 DEF Good, Sound, Linked
    <3> QED
      BY <3>1, <3>2, <3>3
  <2>3. c \in CellState /\ c.seq_id = n.cells[i].seq_id \cup {d} /\ c.pos = n.cells[i].pos /\ c.src = n.cells[i].src
    BY <1>1, <2>1 DEF CellState
  <2>4. Copied(m, s, d) = o
    <3>1. Copied(m, s, d) = [n EXCEPT !.tail[d] = i, !.cells[i].seq_id = @ \cup {d}]
      BY <2>0
    <3> QED
      BY <1>1, <2>1, <3>1 DEF Memories
  <2> HIDE DEF i, c
  <2>5. [n.cells EXCEPT ![i] = c] \in [Cell -> CellState] /\ [n.tail EXCEPT ![d] = i] \in [SeqId -> -1 .. Size - 1]
    BY <1>1, <2>1, <2>3
  <2>6. o \in Memories /\ o.tail = [n.tail EXCEPT ![d] = i] /\ o.cells = [n.cells EXCEPT ![i] = c] /\ o.used = n.used /\ o.rs_idx = n.rs_idx
    BY <1>1, <2>5 DEF Memories
  <2> HIDE DEF o
  <2>7. o.tail[d] = i /\ (\A z \in SeqId : z # d => o.tail[z] = n.tail[z]) /\ o.cells[i] = c /\ \A j \in Cell : j # i => o.cells[j] = n.cells[j]
    BY <1>1, <2>1, <2>6
  <2>8. Linked(o)
    <3> SUFFICES ASSUME NEW z \in SeqId, NEW j \in Cell PROVE o.tail[z] = j <=> z \in o.cells[j].seq_id
      BY DEF Linked
    <3>1. n.tail[z] = j <=> z \in n.cells[j].seq_id
      BY <1>1 DEF Good, Sound, Linked
    <3>2. CASE z = d
      BY <2>2, <2>3, <2>7, <3>2
    <3>3. CASE z # d
      BY <2>3, <2>7, <3>1, <3>3
    <3> QED
      BY <3>2, <3>3
  <2>9. \A j \in Cell : /\ o.cells[j].seq_id = {} <=> n.cells[j].seq_id = {}
                        /\ o.cells[j].pos = n.cells[j].pos /\ o.cells[j].src = n.cells[j].src
    BY <2>2, <2>3, <2>7
  <2>10. Settles(o)
    BY <1>1, <2>9 DEF Good, Sound, Settles
  <2>11. InUse(o.cells) = InUse(n.cells)
    BY <2>9 DEF InUse
  <2>12. Good(o)
    BY <1>1, <2>6, <2>8, <2>10, <2>11 DEF Good, Sound, Counted
  <2>13. HasJoined(n, o, d, i)
    BY <2>6, <2>7, <2>9 DEF HasJoined
  <2> QED
    BY <1>3, <2>4, <2>12, <2>13 DEF n, i
<1> QED
  BY <1>2, <1>3

\* seq_keep() leaves a good memory.
LEMMA KeptIs ==
    ASSUME NEW m, Good(m), NEW s \in SeqId
    PROVE  /\ Good(OnlyKept(m, s)) /\ OnlyKept(m, s).rs_idx = m.rs_idx
           /\ OnlyKept(m, s).tail[s] = m.tail[s] /\ \A z \in SeqId : z # s => OnlyKept(m, s).tail[z] = -1
           /\ \A i \in Cell : /\ s \notin m.cells[i].seq_id => OnlyKept(m, s).cells[i] = Blank
                              /\ s \in m.cells[i].seq_id => /\ OnlyKept(m, s).cells[i].seq_id = {s}
                                                            /\ SameState(OnlyKept(m, s).cells[i], m.cells[i])
<1> DEFINE others == {i \in Cell : s \notin m.cells[i].seq_id}
           o == OnlyKept(m, s)
           out == {i \in others : m.cells[i].pos >= 0}
           tail == [z \in SeqId |-> IF z = s THEN m.tail[z] ELSE -1]
           cells == [i \in Cell |-> IF i \in others THEN Blank ELSE Named(m.cells[i], {s})]
<1>1. m \in Memories /\ m.cells \in [Cell -> CellState] /\ m.tail \in [SeqId -> -1 .. Size - 1]
  BY DEF Good, Sound, Memories
<1>2. o = [m EXCEPT !.tail = tail, !.cells = cells, !.used = m.used - Cardinality(out), !.head = Min({m.head} \cup others)]
  BY <1>1 DEF OnlyKept, Memories
<1>3. ASSUME NEW i \in Cell
      PROVE  /\ cells[i] \in CellState
             /\ i \in others => cells[i] = Blank
             /\ i \notin others => cells[i].seq_id = {s} /\ SameState(cells[i], m.cells[i])
  <2>1. m.cells[i] \in CellState /\ {s} \in SUBSET SeqId
    BY <1>1
  <2>2. Named(m.cells[i], {s}) \in CellState /\ Named(m.cells[i], {s}).seq_id = {s} /\ SameState(Named(m.cells[i], {s}), m.cells[i])
    BY <2>1 DEF Named, CellState, SameState
  <2>3. cells[i] = IF i \in others THEN Blank ELSE Named(m.cells[i], {s})
    OBVIOUS
  <2> HIDE DEF cells, others
  <2> QED
    BY <2>2, <2>3, SizeIs
<1>4. cells \in [Cell -> CellState]
  BY <1>3
<1> HIDE DEF cells
<1>5. tail \in [SeqId -> -1 .. Size - 1] /\ tail[s] = m.tail[s] /\ \A z \in SeqId : z # s => tail[z] = -1
  BY <1>1, SizeIs
<1> HIDE DEF tail
<1>6. Min({m.head} \cup others) \in Cell
  BY <1>1, HeadIs DEF Memories
<1>7. out \in SUBSET Cell /\ Cardinality(out) \in Int /\ m.used \in Int /\ InUse(m.cells) \in SUBSET Cell
  <2>1. out \in SUBSET Cell /\ InUse(m.cells) \in SUBSET Cell
    BY DEF InUse
  <2> QED
    BY <1>1, <2>1, CellsAreFinite DEF Memories
<1>8. \A i \in Cell : i \in others <=> s \notin m.cells[i].seq_id
  OBVIOUS
<1>9. out = InUse(m.cells) \cap others
  <2>1. \A i \in Cell : m.cells[i].pos \in -1 .. MaxPos /\ (m.cells[i].seq_id = {} <=> m.cells[i].pos = -1)
    BY CellTypes DEF Good, Sound, Settles
  <2>2. \A i \in Cell : m.cells[i].pos >= 0 <=> m.cells[i].seq_id # {}
    BY <2>1, SizeIs
  <2> QED
    BY <2>2 DEF InUse
<1> HIDE DEF others, out
<1>10. o \in Memories /\ o.tail = tail /\ o.cells = cells /\ o.used = m.used - Cardinality(out) /\ o.rs_idx = m.rs_idx
  <2>1. m.used - Cardinality(out) \in Int
    BY <1>7
  <2> QED
    BY <1>1, <1>2, <1>4, <1>5, <1>6, <2>1 DEF Memories
<1> HIDE DEF o
<1>11. Linked(o)
  <2> SUFFICES ASSUME NEW z \in SeqId, NEW j \in Cell PROVE o.tail[z] = j <=> z \in o.cells[j].seq_id
    BY DEF Linked
  <2>1. m.tail[s] = j <=> s \in m.cells[j].seq_id
    BY DEF Good, Sound, Linked
  <2>2. j \in others => o.cells[j].seq_id = {}
    BY <1>3, <1>10 DEF Blank
  <2>3. j \notin others => o.cells[j].seq_id = {s}
    BY <1>3, <1>10
  <2>4. z # s => o.tail[z] # j
    BY <1>5, <1>10 DEF Cell
  <2> QED
    BY <1>5, <1>8, <1>10, <2>1, <2>2, <2>3, <2>4
<1>12. Settles(o)
  <2> SUFFICES ASSUME NEW i \in Cell
               PROVE  /\ o.cells[i].seq_id = {} <=> o.cells[i].pos = -1
                      /\ o.cells[i].src \in {-1, i}
                      /\ o.cells[i].seq_id # {} => o.cells[i].src = i
    BY DEF Settles
  <2>1. CASE i \in others
    BY <1>3, <1>10, <2>1 DEF Blank
  <2>2. CASE i \notin others
    <3>1. m.cells[i].seq_id # {} /\ m.cells[i].pos # -1 /\ m.cells[i].src = i
      BY <1>8, <2>2 DEF Good, Sound, Settles
    <3> QED
      BY <1>3, <1>10, <2>2, <3>1 DEF SameState
  <2> QED
    BY <2>1, <2>2
<1>13. InUse(o.cells) = InUse(m.cells) \ out
  <2>1. \A i \in Cell : o.cells[i].seq_id # {} <=> i \notin others
    BY <1>3, <1>10 DEF Blank
  <2>2. \A i \in Cell : i \notin others => m.cells[i].seq_id # {}
    BY <1>8
  <2> QED
    BY <1>9, <2>1, <2>2 DEF InUse
<1>14. Counted(o)
  <2>1. IsFiniteSet(InUse(m.cells)) /\ InUse(m.cells) \cap out = out
    BY <1>7, <1>9, CellsAreFinite
  <2>2. Cardinality(InUse(m.cells) \ out) = Cardinality(InUse(m.cells)) - Cardinality(InUse(m.cells) \cap out)
    BY <2>1, FS_Difference
  <2> QED
    BY <1>10, <1>13, <2>1, <2>2 DEF Good, Counted
<1> QED
  BY <1>3, <1>5, <1>8, <1>10, <1>11, <1>12, <1>14 DEF Good, Sound, o

\* Where no cell is in use there is nothing to remove.
LEMMA RemovedAnyIs ==
    ASSUME NEW m, Good(m), InUse(m.cells) = {}, setup.n_rs_seq \in Nat
    PROVE  Good(RemovedAny(m)) /\ HasIndex(m, RemovedAny(m), [s \in SeqId |-> 0])
<1> DEFINE out == {i \in Cell : m.cells[i].pos >= 0}
           o == RemovedAny(m)
           zero == [s \in SeqId |-> 0]
<1>1. m \in Memories /\ m.cells \in [Cell -> CellState]
  BY DEF Good, Sound, Memories
<1>2. out = {}
  BY CellTypes, SizeIs DEF Good, Sound, Settles, InUse
<1>3. [i \in Cell |-> IF m.cells[i].pos >= 0 THEN Blank ELSE m.cells[i]] = m.cells
  <2>1. \A i \in Cell : ~(m.cells[i].pos >= 0)
    BY <1>2
  <2> HIDE DEF out
  <2> QED
    BY <1>1, <2>1
<1>4. o = [m EXCEPT !.cells = [i \in Cell |-> IF m.cells[i].pos >= 0 THEN Blank ELSE m.cells[i]],
                   !.used = m.used - Cardinality(out), !.head = Min({m.head} \cup out), !.rs_idx = zero]
  BY <1>1 DEF RemovedAny, Memories
<1>5. o = [m EXCEPT !.cells = m.cells, !.used = m.used - Cardinality(out), !.head = Min({m.head} \cup out), !.rs_idx = zero]
  BY <1>3, <1>4
<1> HIDE DEF o
<1>6. Cardinality(out) = 0 /\ m.used - Cardinality(out) = m.used
  <2> HIDE DEF out
  <2>1. Cardinality(out) = 0
    BY <1>2, FS_EmptySet
  <2>2. m.used \in Int
    BY <1>1 DEF Memories
  <2> QED
    BY <2>1, <2>2
<1>7. Min({m.head} \cup out) \in Cell
  BY <1>1, <1>2, HeadIs DEF Memories
<1>8. zero \in [SeqId -> Group] /\ zero \in [SeqId -> Nat]
  BY GroupIs
<1> HIDE DEF out, zero
<1>9. o \in Memories /\ o.cells = m.cells /\ o.tail = m.tail /\ o.used = m.used /\ o.rs_idx = zero
  BY <1>1, <1>5, <1>6, <1>7, <1>8 DEF Memories
<1>10. Good(o) /\ HasIndex(m, o, zero)
  BY <1>8, <1>9, SameCells DEF HasIndex
<1> QED
  BY <1>10 DEF o, zero

\* set_inputs() takes the rollbacks and changes no cell.
LEMMA IndexTakenIs ==
    ASSUME NEW m, Good(m), NEW range, setup.n_rs_seq \in Nat
    PROVE  /\ Good(IndexTaken(m, range)) /\ IndexTaken(m, range).cells = m.cells /\ IndexTaken(m, range).tail = m.tail
           /\ \A s \in SeqId : IndexTaken(m, range).rs_idx[s] =
                  IF \E i \in range : m.cells[i].seq_id # {} /\ s = Min(m.cells[i].seq_id) THEN 0 ELSE m.rs_idx[s]
<1> DEFINE x == [s \in SeqId |-> IF \E i \in range : m.cells[i].seq_id # {} /\ s = Min(m.cells[i].seq_id) THEN 0 ELSE m.rs_idx[s]]
           o == IndexTaken(m, range)
<1>1. x \in [SeqId -> Group]
  BY GroupIs DEF Good
<1>2. x \in [SeqId -> Nat]
  BY <1>1, GroupIs
<1>3. m \in Memories
  BY DEF Good, Sound
<1>4. o = [m EXCEPT !.rs_idx = x]
  BY <1>3 DEF IndexTaken, Memories
<1> HIDE DEF x, o
<1>5. o \in Memories /\ o.cells = m.cells /\ o.tail = m.tail /\ o.used = m.used /\ o.rs_idx = x
  BY <1>2, <1>3, <1>4 DEF Memories
<1>6. Good(o)
  BY <1>1, <1>5, SameCells
<1>7. \A s \in SeqId : x[s] = IF \E i \in range : m.cells[i].seq_id # {} /\ s = Min(m.cells[i].seq_id) THEN 0 ELSE m.rs_idx[s]
  BY DEF x
<1> QED
  BY <1>5, <1>6, <1>7 DEF o

\* What llama_decode does after a failed graph leaves a good memory.
LEMMA UbatchRemovedIs ==
    ASSUME NEW m, Good(m), NEW u, UbatchOK(u), setup.n_rs_seq \in Nat
    PROVE  Good(UbatchRemoved(m, u))
<1> DEFINE N == Len(u.sets)
           Step(n, x) == SeqRm(x, FirstId(u.sets[n]), u.first[n])
           G == [n \in 0 .. N |-> {x \in Memories : Good(x)}]
           h == [n \in 1 .. N |-> [x \in G[n - 1] |-> Step(n, x)]]
           f == CHOOSE f : f = [n \in 0 .. N |-> IF n = 0 THEN m ELSE Step(n, f[n - 1])]
<1>1. m \in G[0] /\ N \in Nat
  BY UbatchFirsts DEF Good, Sound
<1>2. ASSUME NEW n \in 1 .. N, NEW x \in G[n - 1] PROVE Step(n, x) \in G[n]
  <2>1. n \in 0 .. N /\ n - 1 \in 0 .. N /\ n \in DOMAIN u.sets
    BY <1>1, UbatchFirsts
  <2>2. Good(x)
    BY <2>1
  <2>3. FirstId(u.sets[n]) \in SeqId /\ u.first[n] \in Nat
    <3>1. FirstsOf(u)[n] = FirstId(u.sets[n]) /\ FirstsOf(u)[n] \in u.sets[n] /\ u.sets[n] \in SUBSET SeqId
      BY <2>1, UbatchFirsts DEF FirstsOf
    <3>2. u.first[n] \in 0 .. MaxPos
      BY <2>1 DEF UbatchOK
    <3> QED
      BY <3>1, <3>2, SizeIs
  <2>4. Good(Step(n, x))
    BY <2>2, <2>3, SeqRmIs
  <2> HIDE DEF Step
  <2> QED
    BY <2>1, <2>4 DEF Good, Sound
<1> HIDE DEF N
<1> HIDE DEF Step, G
<1>3. \A n \in 1 .. N : \A x \in G[n - 1] : h[n][x] = Step(n, x) /\ h[n][x] \in G[n]
  BY <1>2
<1> HIDE DEF h
<1>4. PICK g : IsLoop(g, m, h, G, N)
  BY <1>1, <1>3, LoopExists
<1>5. ASSUME NEW n \in 0 .. N PROVE g[n] = IF n = 0 THEN m ELSE Step(n, g[n - 1])
  <2>1. n # 0 => n \in 1 .. N
    BY <1>1
  <2> QED
    BY <1>3, <1>4, <2>1 DEF IsLoop, Runs
<1>6. f = [n \in 0 .. N |-> IF n = 0 THEN m ELSE Step(n, f[n - 1])]
  <2>1. g = [n \in 0 .. N |-> IF n = 0 THEN m ELSE Step(n, g[n - 1])]
    BY <1>4, <1>5 DEF IsLoop
  <2> QED
    BY <2>1
<1> HIDE DEF f
<1>7. f[0] \in G[0] /\ \A n \in 1 .. N : f[n - 1] \in G[n - 1] => f[n] \in G[n]
  <2>1. f[0] = m
    BY <1>1, <1>6
  <2>2. ASSUME NEW n \in 1 .. N PROVE f[n] = Step(n, f[n - 1])
    <3>1. n \in 0 .. N /\ n # 0
      BY <1>1
    <3> QED
      BY <1>6, <3>1
  <2> QED
    BY <1>1, <1>2, <2>1, <2>2
<1>8. f[N] \in G[N]
  BY <1>1, <1>7, LoopReaches
<1>9. UbatchRemoved(m, u) = f[N]
  BY DEF UbatchRemoved, f, Step, N
<1>10. Good(f[N])
  BY <1>1, <1>8 DEF G
<1> QED
  BY <1>9, <1>10

-----------------------------------------------------------------------------
(* llama_decode                                                            *)

\* The ubatches that llama_decode has still to process are such as find_slot() expects.
UbatchesOK(us) == \E T : us \in Seq(T) /\ \A u \in T : UbatchOK(u)

\* The inductive invariant
RInv ==
    /\ setup \in Setups
    /\ Good(memory)
    /\ UbatchesOK(ubatches)
    /\ saved # <<>> => saved.pos \in -1 .. MaxPos
    /\ at \in [SeqId -> -1 .. MaxPos] /\ fresh \in [SeqId -> Nat]

\* What is known of a setup
LEMMA SetupIs ==
    ASSUME setup \in Setups
    PROVE  /\ setup.n_rs_seq \in Nat /\ setup.n_ubatch \in Nat /\ setup.n_ubatch > setup.n_rs_seq + 1
           /\ setup.shapes \subseteq Seq((SUBSET SeqId) \ {{}})
  BY RecurrentAssumption DEF SetupOK

\* Sets of sequences are finite.
LEMMA FiniteSeqs ==
    ASSUME NEW S \in SUBSET SeqId
    PROVE  IsFiniteSet(S) /\ Cardinality(S) \in Nat
<1>1. SeqId = Cell
  BY DEF SeqId, Cell
<1> QED
  BY <1>1, CellsAreFinite, SizeIs

\* What llama_decode makes of a shape is a batch.
LEMMA BatchOfIs ==
    ASSUME NEW shape \in Seq((SUBSET SeqId) \ {{}}), at \in [SeqId -> -1 .. MaxPos], NEW batch, batch = BatchOf(shape),
           \A k \in DOMAIN batch : batch[k].pos <= MaxPos
    PROVE  batch \in Batches
<1> DEFINE Same(k) == {l \in 1 .. k : FirstId(shape[k]) \in shape[l]}
           E == [pos : 0 .. MaxPos, seqs : (SUBSET SeqId) \ {{}}]
<1>1. DOMAIN batch = DOMAIN shape /\ Len(shape) \in Nat /\ DOMAIN shape = 1 .. Len(shape)
      /\ \A k \in DOMAIN shape : batch[k] = [pos |-> at[FirstId(shape[k])] + Cardinality(Same(k)), seqs |-> shape[k]]
  BY DEF BatchOf
<1>4. batch = [k \in DOMAIN batch |-> batch[k]]
  BY DEF BatchOf
<1>2. ASSUME NEW k \in DOMAIN shape PROVE batch[k] \in E
  <2>1. shape[k] \in SUBSET SeqId /\ shape[k] # {} /\ shape[k] \in SUBSET Nat
    <3> HIDE DEF Same, E
    <3>1. shape[k] \in (SUBSET SeqId) \ {{}}
      OBVIOUS
    <3>2. shape[k] \in SUBSET SeqId /\ shape[k] # {}
      BY <3>1
    <3> QED
      BY <3>2, SizeIs DEF SeqId
  <2>2. FirstId(shape[k]) \in shape[k]
    BY <2>1, MinIsLeast DEF FirstId
  <2>3. at[FirstId(shape[k])] \in -1 .. MaxPos
    BY <2>1, <2>2
  <2>4. Cardinality(Same(k)) \in Nat \ {0}
    <3>1. IsFiniteSet(1 .. k) /\ Same(k) \in SUBSET (1 .. k)
      <4>1. k \in Int /\ 1 \in Int
        BY <1>1
      <4>2. IsFiniteSet(1 .. k)
        BY <4>1, FS_Interval
      <4> QED
        BY <4>2
    <3>2. k \in Same(k)
      BY <1>1, <2>2
    <3> HIDE DEF Same
    <3>3. IsFiniteSet(Same(k)) /\ Same(k) # {}
      BY <3>1, <3>2, FS_Subset
    <3>4. Cardinality(Same(k)) \in Nat
      BY <3>3, FS_CardinalityType
    <3>5. Cardinality(Same(k)) # 0
      BY <3>3, FS_EmptySet
    <3> QED
      BY <3>4, <3>5
  <2> HIDE DEF Same
  <2>5. batch[k].pos = at[FirstId(shape[k])] + Cardinality(Same(k)) /\ batch[k].pos <= MaxPos
    BY <1>1
  <2>6. at[FirstId(shape[k])] + Cardinality(Same(k)) \in 0 .. MaxPos
    BY <2>3, <2>4, <2>5, SizeIs
  <2> QED
    BY <1>1, <2>1, <2>6
<1> HIDE DEF E
<1>3. batch \in Seq(E)
  <2>1. \A k \in 1 .. Len(shape) : batch[k] \in E
    BY <1>1, <1>2
  <2>2. Len(shape) \in Nat /\ batch = [k \in 1 .. Len(shape) |-> batch[k]]
    BY <1>1, <1>4
  <2> QED
    BY <2>1, <2>2
<1> QED
  BY <1>3 DEF Batches, E

\* Every ubatch of a batch that llama_decode accepts is such as find_slot() expects.
LEMMA SplitIs ==
    ASSUME setup \in Setups, NEW batch \in Batches, NEW all \in BOOLEAN, all => ~Coupled(batch)
    PROVE  Split(batch, all) \in TogetherParts(batch)
<1>1. setup.n_rs_seq \in Nat /\ setup.n_ubatch \in Nat /\ setup.n_ubatch > setup.n_rs_seq + 1
  BY SetupIs
<1>2. ASSUME all PROVE Uncut(batch)
  <2>1. \A i \in DOMAIN batch : batch[i].seqs \in (SUBSET SeqId) /\ batch[i].seqs # {}
    <3> DEFINE E == [pos : 0 .. MaxPos, seqs : (SUBSET SeqId) \ {{}}]
    <3>1. batch \in Seq(E)
      BY DEF Batches
    <3> HIDE DEF E
    <3>2. \A i \in DOMAIN batch : batch[i] \in E
      BY <3>1
    <3> QED
      BY <3>2 DEF E
  <2> SUFFICES ASSUME NEW i \in DOMAIN batch, NEW j \in DOMAIN batch, batch[i].seqs \subseteq batch[j].seqs
               PROVE  batch[i].seqs = batch[j].seqs
    BY DEF Uncut
  <2> DEFINE A == batch[i].seqs
             B == batch[j].seqs
  <2>2. IsFiniteSet(A) /\ IsFiniteSet(B) /\ Cardinality(A) \in Nat /\ Cardinality(B) \in Nat /\ A # {} /\ B # {}
    BY <2>1, FiniteSeqs
  <2>3. ~(Cardinality(A) > 1) /\ ~(Cardinality(B) > 1)
    BY <1>2 DEF Coupled
  <2>4. A \in SUBSET B
    OBVIOUS
  <2> HIDE DEF A, B
  <2>5. Cardinality(A) # 0 /\ Cardinality(B) # 0
    BY <2>2, FS_EmptySet
  <2>6. Cardinality(A) = Cardinality(B)
    BY <2>2, <2>3, <2>5
  <2>7. A = B
    BY <2>2, <2>4, <2>6, FS_Subset
  <2> QED
    BY <2>7 DEF A, B
<1>3. CASE all
  <2>1. Split(batch, all) = AllSeq(batch, setup.n_ubatch)
    BY <1>3 DEF Split
  <2> QED
    BY <1>2, <1>3, <2>1, AllSeqIsTogether DEF Batches
<1>4. CASE ~all
  <2> DEFINE tail == IF setup.n_rs_seq > 0 THEN setup.n_rs_seq + 1 ELSE 0
  <2>1. tail \in 0 .. setup.n_ubatch
    BY <1>1
  <2>2. Split(batch, all) = AllEqual(batch, setup.n_ubatch, setup.sequential, tail)
    BY <1>4 DEF Split
  <2> HIDE DEF tail
  <2> QED
    BY <1>1, <2>1, <2>2, AllEqualIsTogether DEF Batches
<1> QED
  BY <1>3, <1>4

\* The ubatches of its parts are such as find_slot() expects,
LEMMA SplitIsOK ==
    ASSUME NEW batch \in Batches, NEW parts \in TogetherParts(batch)
    PROVE  UbatchesOK([n \in DOMAIN parts |-> UbatchOf(batch, parts[n])])
<1> DEFINE T == {UbatchOf(batch, parts[n]) : n \in DOMAIN parts}
           us == [n \in DOMAIN parts |-> UbatchOf(batch, parts[n])]
           Q == {p \in Seq(DOMAIN batch) : p # <<>> /\ Together(batch, p)}
<1>1. parts \in Seq(Q)
  BY DEF TogetherParts
<1> HIDE DEF Q
<1>2. DOMAIN parts = 1 .. Len(parts) /\ Len(parts) \in Nat /\ \A n \in DOMAIN parts : parts[n] \in Q
  BY <1>1
<1>3. \A n \in DOMAIN parts : UbatchOK(UbatchOf(batch, parts[n]))
  BY <1>2, UbatchOfIs DEF Q
<1>4. \A u \in T : UbatchOK(u)
  BY <1>3
<1>5. \A n \in DOMAIN parts : us[n] \in T
  OBVIOUS
<1>6. us = [n \in 1 .. Len(parts) |-> us[n]]
  BY <1>2
<1> HIDE DEF T, us
<1>7. us \in Seq(T)
  BY <1>2, <1>5, <1>6
<1> QED
  BY <1>4, <1>7 DEF UbatchesOK, us

\* and so are the next one and those that remain after it.
LEMMA RestIsOK ==
    ASSUME NEW us, UbatchesOK(us), us # <<>>
    PROVE  UbatchOK(Head(us)) /\ UbatchesOK(Tail(us))
<1>1. PICK T : us \in Seq(T) /\ \A u \in T : UbatchOK(u)
  BY DEF UbatchesOK
<1>2. Head(us) \in T /\ Tail(us) \in Seq(T)
  BY <1>1
<1> QED
  BY <1>1, <1>2 DEF UbatchesOK

\* No ubatches are.
LEMMA NoneIsOK == UbatchesOK(<<>>)
<1> DEFINE T == {}
<1>1. <<>> \in Seq(T)
  OBVIOUS
<1>2. \A u \in T : UbatchOK(u)
  OBVIOUS
<1> HIDE DEF T
<1> QED
  BY <1>1, <1>2 DEF UbatchesOK

-----------------------------------------------------------------------------
(* The invariant, step by step                                             *)

\* The owners of every setup are careful.
CarefulOwners == \A x \in Setups : x.careful

\* Forgetting a sequence keeps the types of the history.
LEMMA ForgetIs ==
    ASSUME NEW S, at \in [SeqId -> -1 .. MaxPos], fresh \in [SeqId -> Nat], Forget(S)
    PROVE  at' \in [SeqId -> -1 .. MaxPos] /\ fresh' \in [SeqId -> Nat]
<1>1. -1 \in -1 .. MaxPos
  BY SizeIs
<1> QED
  BY <1>1 DEF Forget

\* A call changes no setup and finds no ubatches.
LEMMA CallIs == ASSUME NEW name, Call(name), setup \in Setups PROVE setup' \in Setups /\ setup' = setup /\ ubatches = <<>>
  BY DEF Call

\* The group of a memory depends on the setup only, which no step changes.
LEMMA GoodNext ==
    ASSUME NEW m, Good(m), setup' = setup, memory' = m
    PROVE  Good(memory)'
  BY DEF Good, Group, Sound, Linked, Settles, Counted, Memories, InUse, CellState, SeqId, Cell

\* The invariant holds at the start.
LEMMA RInvInit == Init => RInv
<1> SUFFICES ASSUME Init PROVE RInv
  OBVIOUS
<1>1. setup \in Setups
  BY DEF Init
<1>2. Good(memory)
  BY <1>1, SetupIs, ClearedIs DEF Init
<1>3. UbatchesOK(ubatches)
  BY NoneIsOK DEF Init
<1>4. at \in [SeqId -> -1 .. MaxPos] /\ fresh \in [SeqId -> Nat]
  BY SizeIs DEF Init
<1> QED
  BY <1>1, <1>2, <1>3, <1>4 DEF RInv, Init

\* clear() keeps the invariant.
LEMMA ClearStep == ASSUME RInv, NEW zero \in BOOLEAN, Clear(zero) PROVE RInv'
<1>1. setup' \in Setups /\ setup' = setup
  BY CallIs DEF Clear, RInv
<1>2. Good(memory)'
  BY <1>1, SetupIs, ClearedIs, GoodNext DEF Clear, RInv
<1>3. at' \in [SeqId -> -1 .. MaxPos] /\ fresh' \in [SeqId -> Nat]
  BY ForgetIs DEF Clear, RInv
<1> QED
  BY <1>1, <1>2, <1>3 DEF RInv, Clear

\* seq_rm() keeps the invariant.
LEMMA RemoveSeqStep == ASSUME RInv, NEW s \in SeqId, RemoveSeq(s) PROVE RInv'
<1>1. setup' \in Setups /\ setup' = setup
  BY CallIs DEF RemoveSeq, RInv
<1>2. Good(memory)'
  BY <1>1, SetupIs, SeqRmIs, GoodNext DEF RemoveSeq, RInv
<1>3. at' \in [SeqId -> -1 .. MaxPos] /\ fresh' \in [SeqId -> Nat]
  BY ForgetIs DEF RemoveSeq, RInv
<1> QED
  BY <1>1, <1>2, <1>3 DEF RInv, RemoveSeq

\* seq_rm() of any sequence, where there is none, keeps the invariant.
LEMMA RemoveAnyStep == ASSUME CarefulOwners, RInv, RemoveAny PROVE RInv'
<1>1. setup' \in Setups /\ setup' = setup
  BY CallIs DEF RemoveAny, RInv
<1>2. Good(memory)'
  BY <1>1, SetupIs, RemovedAnyIs, GoodNext DEF RemoveAny, RInv, CarefulOwners
<1>3. at' \in [SeqId -> -1 .. MaxPos] /\ fresh' \in [SeqId -> Nat]
  BY ForgetIs DEF RemoveAny, RInv
<1> QED
  BY <1>1, <1>2, <1>3 DEF RInv, RemoveAny

\* A rollback keeps the invariant.
LEMMA RollbackStep == ASSUME CarefulOwners, RInv, NEW s \in SeqId, NEW p0 \in 1 .. MaxPos, Rollback(s, p0) PROVE RInv'
<1> DEFINE r == Steps(memory, s, p0)
<1>1. setup' \in Setups /\ setup' = setup
  BY CallIs DEF Rollback, RInv
<1>2. Good(memory)'
  BY <1>1, SetupIs, SeqRmIs, GoodNext DEF Rollback, RInv
<1>3. at' \in [SeqId -> -1 .. MaxPos] /\ fresh' \in [SeqId -> Nat]
  <2>1. memory \in Memories /\ memory.tail[s] >= 0 /\ r > 0 /\ r <= fresh[s] /\ fresh[s] \in Nat
    BY DEF Rollback, RInv, CarefulOwners, Good, Sound
  <2>2. memory.cells[memory.tail[s]].pos \in -1 .. MaxPos
    BY <2>1, CellTypes
  <2>3. r \in Int
    BY <2>1, <2>2, SizeIs DEF Steps, PosOf
  <2> HIDE DEF r
  <2>4. fresh[s] - r \in Nat /\ p0 - 1 \in -1 .. MaxPos
    BY <2>1, <2>3, SizeIs
  <2>5. \/ at' = at /\ fresh' = fresh
        \/ at' = [at EXCEPT ![s] = p0 - 1] /\ fresh' = [fresh EXCEPT ![s] = fresh[s] - r]
    BY DEF Rollback, RInv, history, r
  <2> QED
    BY <2>4, <2>5 DEF RInv
<1> QED
  BY <1>1, <1>2, <1>3 DEF RInv, Rollback

\* seq_cp() keeps the invariant.
LEMMA CopyStep == ASSUME RInv, NEW s \in SeqId, NEW d \in SeqId, Copy(s, d) PROVE RInv'
<1>1. setup' \in Setups /\ setup' = setup
  BY CallIs DEF Copy, RInv
<1>2. Good(memory)'
  BY <1>1, CopiedIs, GoodNext DEF Copy, RInv
<1>3. at' \in [SeqId -> -1 .. MaxPos] /\ fresh' \in [SeqId -> Nat]
  BY DEF Copy, RInv
<1> QED
  BY <1>1, <1>2, <1>3 DEF RInv, Copy

\* seq_keep() keeps the invariant.
LEMMA KeepStep == ASSUME RInv, NEW s \in SeqId, Keep(s) PROVE RInv'
<1>1. setup' \in Setups /\ setup' = setup
  BY CallIs DEF Keep, RInv
<1>2. Good(memory)'
  BY <1>1, KeptIs, GoodNext DEF Keep, RInv
<1>3. at' \in [SeqId -> -1 .. MaxPos] /\ fresh' \in [SeqId -> Nat]
  BY ForgetIs DEF Keep, RInv
<1> QED
  BY <1>1, <1>2, <1>3 DEF RInv, Keep

\* seq_add() and seq_div() keep the invariant.
LEMMA ShiftStep == ASSUME RInv, NEW s \in SeqId, NEW p, Shift(s, p) PROVE RInv'
<1>1. setup' \in Setups /\ setup' = setup
  BY CallIs DEF Shift, RInv
<1>2. Good(memory)'
  <2>1. p \in 0 .. MaxPos /\ memory.tail[s] >= 0 /\ memory' = Moved(memory, s, p)
    BY DEF Shift
  <2>2. memory.tail[s] \in Cell
    BY <2>1, CellTypes DEF RInv, Good, Sound
  <2>3. Moved(memory, s, p) = [memory EXCEPT !.cells[memory.tail[s]].pos = p]
    BY <2>2 DEF Moved, Cell
  <2> QED
    <3>1. Good(memory) /\ setup \in Setups /\ setup' = setup
      BY <1>1 DEF RInv
    <3>2. Good([memory EXCEPT !.cells[memory.tail[s]].pos = p])
      BY <2>1, <2>2, <3>1, MovedIs
    <3> QED
      BY <2>1, <2>3, <3>1, <3>2, GoodNext
<1>3. at' \in [SeqId -> -1 .. MaxPos] /\ fresh' \in [SeqId -> Nat]
  <2>1. p \in -1 .. MaxPos
    BY SizeIs DEF Shift
  <2> QED
    BY <2>1 DEF Shift, RInv
<1> QED
  BY <1>1, <1>2, <1>3 DEF RInv, Shift

\* state_write() keeps the invariant.
LEMMA SaveStep == ASSUME RInv, NEW s \in SeqId, Save(s) PROVE RInv'
<1>1. setup' \in Setups /\ setup' = setup
  BY CallIs DEF Save, RInv
<1>2. Good(memory)'
  BY <1>1, GoodNext DEF Save, RInv
<1>3. at' \in [SeqId -> -1 .. MaxPos] /\ fresh' \in [SeqId -> Nat]
  BY DEF Save, RInv, history
<1>4. saved'.pos \in -1 .. MaxPos
  <2>1. CASE memory.tail[s] < 0
    BY <2>1, SizeIs DEF Save
  <2>2. CASE ~(memory.tail[s] < 0)
    <3>1. saved'.pos = memory.cells[memory.tail[s]].pos /\ memory.tail[s] \in Cell
      BY <2>2, CellTypes DEF Save, PosOf, RInv, Good, Sound
    <3> QED
      BY <3>1, CellTypes DEF RInv, Good, Sound
  <2> QED
    BY <2>1, <2>2
<1> QED
  BY <1>1, <1>2, <1>3, <1>4 DEF RInv, Save

\* What a sequence that is loaded takes: the slot of one token.
OneUbatch(s, p) == [sets |-> <<{s}>>, k |-> 1, first |-> <<p>>, last |-> <<p>>]
\* Such a ubatch is one that find_slot() expects.
LEMMA OneUbatchIs == ASSUME NEW s \in SeqId, NEW p \in 0 .. MaxPos PROVE UbatchOK(OneUbatch(s, p))
<1> DEFINE u == OneUbatch(s, p)
<1>1. u.sets = <<{s}>> /\ u.first = <<p>> /\ u.last = <<p>>
  BY DEF OneUbatch
<1>2. {s} \in (SUBSET SeqId) \ {{}}
  OBVIOUS
<1>3. u.sets \in Seq((SUBSET SeqId) \ {{}}) /\ u.sets # <<>> /\ DOMAIN u.sets = {1} /\ u.first[1] = p /\ u.last[1] = p
  BY <1>1, <1>2
<1> QED
  BY <1>3 DEF UbatchOK

\* state_read() keeps the invariant.
LEMMA LoadStep == ASSUME RInv, NEW s \in SeqId, Load(s) PROVE RInv'
<1>1. setup' \in Setups /\ setup' = setup
  BY CallIs DEF Load, RInv
<1> DEFINE m == SeqRm(memory, s, 0)
<1>2. Good(m)
  BY SetupIs, SeqRmIs DEF RInv
<1>3. saved.pos \in -1 .. MaxPos
  BY DEF Load, RInv
<1>4. Good(memory)'
  <2>1. CASE saved.pos < 0
    BY <1>1, <1>2, <2>1, GoodNext DEF Load
  <2>2. CASE ~(saved.pos < 0)
    <3> DEFINE u == OneUbatch(s, saved.pos)
               slot == FindSlot(m, u)
               n == slot.memory
               o == [n EXCEPT !.cells[n.head].src = n.head, !.rs_idx[s] = 0]
               x == [n.rs_idx EXCEPT ![s] = 0]
    <3>1. UbatchOK(u) /\ u.sets = <<{s}>>
      <4>1. saved.pos \in 0 .. MaxPos
        BY <1>3, <2>2, SizeIs
      <4> QED
        BY <4>1, OneUbatchIs DEF OneUbatch
    <3>2. memory' = o
      BY <2>2 DEF Load, OneUbatch
    <3> HIDE DEF m, u
    <3>3. SlotOK(m, u, slot)
      BY <1>2, <3>1, FindSlotIs DEF Good
    <3>4. Sound(n) /\ Counted(n) /\ n.rs_idx = m.rs_idx /\ n \in Memories /\ n.head \in Cell
      BY <3>3 DEF SlotOK, Sound, Memories
    <3>5. n.cells[n.head].src = n.head
      <4>1. 1 \in DOMAIN u.sets
        BY <3>1
      <4>2. n.head + 1 - 1 \in slot.range /\ \A i \in slot.range : n.cells[i].src = i
        BY <3>3, <4>1 DEF SlotOK
      <4> QED
        BY <3>4, <4>2 DEF Cell
    <3> HIDE DEF slot, n
    <3>6. n.cells \in [Cell -> CellState] /\ n.cells[n.head] \in CellState
      BY <3>4 DEF Memories
    <3>7. [n.cells EXCEPT ![n.head] = [n.cells[n.head] EXCEPT !.src = n.head]] = n.cells
      <4>1. [n.cells[n.head] EXCEPT !.src = n.head] = n.cells[n.head]
        BY <3>5, <3>6 DEF CellState
      <4> QED
        BY <3>4, <3>6, <4>1
    <3>8. o = [n EXCEPT !.cells = n.cells, !.rs_idx = x]
      BY <3>4, <3>7 DEF Memories
    <3>9. x \in [SeqId -> Group]
      BY <1>2, <3>4, SetupIs, GroupIs DEF Good, RInv
    <3>10. x \in [SeqId -> Nat]
      BY <3>9, SetupIs, GroupIs DEF RInv
    <3> HIDE DEF o, x
    <3>11. o \in Memories /\ o.cells = n.cells /\ o.tail = n.tail /\ o.used = n.used /\ o.rs_idx = x
      BY <3>4, <3>8, <3>10 DEF Memories
    <3>12. Good(n)
      BY <1>2, <3>4 DEF Good
    <3>13. Good(o)
      BY <3>9, <3>11, <3>12, SameCells
    <3> QED
      BY <1>1, <3>2, <3>13, GoodNext
  <2> QED
    BY <2>1, <2>2
<1>5. at' \in [SeqId -> -1 .. MaxPos] /\ fresh' \in [SeqId -> Nat]
  BY <1>3 DEF Load, RInv
<1> QED
  BY <1>1, <1>4, <1>5 DEF RInv, Load

\* llama_decode, up to its first ubatch, keeps the invariant.
LEMMA DecodeStep == ASSUME RInv, NEW shape \in setup.shapes, NEW all \in BOOLEAN, Decode(shape, all) PROVE RInv'
<1> DEFINE batch == BatchOf(shape)
           parts == Split(batch, all)
<1>1. /\ Call("decode")
      /\ \A k \in DOMAIN batch : batch[k].pos <= MaxPos
      /\ all => ~Coupled(batch)
      /\ ubatches' = [n \in DOMAIN parts |-> UbatchOf(batch, parts[n])]
      /\ fresh' = [s \in SeqId |-> Max({1, Cardinality(TokensOf(batch, s))}) - 1]
      /\ UNCHANGED <<memory, saved, at>>
  BY DEF Decode
<1>2. setup' \in Setups /\ setup' = setup
  BY <1>1, CallIs DEF RInv
<1>3. shape \in Seq((SUBSET SeqId) \ {{}})
  BY SetupIs DEF RInv
<1> HIDE DEF parts
<1>4. batch \in Batches
  BY <1>1, <1>3, BatchOfIs DEF RInv
<1> HIDE DEF batch
<1>5. parts \in TogetherParts(batch)
  BY <1>1, <1>4, SplitIs DEF RInv, parts
<1>6. UbatchesOK(ubatches')
  BY <1>1, <1>4, <1>5, SplitIsOK
<1>7. Good(memory)'
  BY <1>1, <1>2, GoodNext DEF RInv
<1>8. fresh' \in [SeqId -> Nat]
  <2> SUFFICES ASSUME NEW s \in SeqId PROVE Max({1, Cardinality(TokensOf(batch, s))}) - 1 \in Nat
    BY <1>1
  <2>1. IsFiniteSet(DOMAIN batch) /\ TokensOf(batch, s) \in SUBSET DOMAIN batch
    <3>1. Len(batch) \in Nat /\ DOMAIN batch = 1 .. Len(batch)
      BY <1>4 DEF Batches
    <3>2. IsFiniteSet(1 .. Len(batch))
      <4>1. 1 \in Int /\ Len(batch) \in Int
        BY <3>1
      <4> QED
        BY <4>1, FS_Interval
    <3> QED
      BY <3>1, <3>2 DEF TokensOf
  <2>2. Cardinality(TokensOf(batch, s)) \in Nat
    BY <2>1, FS_Subset, FS_CardinalityType
  <2> QED
    BY <2>2, MaxWithOne
<1>9. UbatchesOK(ubatches)'
  BY <1>6 DEF UbatchesOK, UbatchOK, SeqId
<1> QED
  BY <1>1, <1>2, <1>7, <1>8, <1>9 DEF RInv

\* A ubatch keeps the invariant.
LEMMA EvaluateStep == ASSUME RInv, Evaluate PROVE RInv'
<1> DEFINE u == Head(ubatches)
           slot == FindSlot(memory, u)
<1>1. UbatchOK(u) /\ UbatchesOK(Tail(ubatches))
  BY RestIsOK DEF Evaluate, RInv
<1>2. /\ setup' = setup /\ saved' = saved /\ fresh' = fresh /\ ubatches' = Tail(ubatches)
      /\ memory' = IndexTaken(slot.memory, slot.range)
      /\ at' = [s \in SeqId |-> IF s \in SeqsIn(u) THEN PosOf(slot.memory, s) ELSE at[s]]
  BY DEF Evaluate
<1> HIDE DEF u
<1>3. SlotOK(memory, u, slot)
  BY <1>1, FindSlotIs DEF RInv, Good
<1> HIDE DEF slot
<1>4. Good(slot.memory)
  BY <1>3 DEF SlotOK, RInv, Good
<1>5. Good(memory)'
  BY <1>2, <1>4, SetupIs, IndexTakenIs, GoodNext DEF RInv
<1>6. at' \in [SeqId -> -1 .. MaxPos]
  <2> SUFFICES ASSUME NEW s \in SeqId PROVE PosOf(slot.memory, s) \in -1 .. MaxPos
    BY <1>2 DEF RInv
  <2> QED
    BY <1>4, CellTypes, SizeIs DEF PosOf, Good, Sound
<1>7. UbatchesOK(ubatches)'
  BY <1>1, <1>2 DEF UbatchesOK, UbatchOK, SeqId
<1> QED
  BY <1>2, <1>5, <1>6, <1>7 DEF RInv

\* A failed graph keeps the invariant.
LEMMA FailStep == ASSUME RInv, Fail PROVE RInv'
<1> DEFINE u == Head(ubatches)
           slot == FindSlot(memory, u)
           m == UbatchRemoved(IndexTaken(slot.memory, slot.range), u)
<1>1. UbatchOK(u)
  BY RestIsOK DEF Fail, RInv
<1>2. /\ setup' = setup /\ saved' = saved /\ ubatches' = <<>> /\ memory' = m
      /\ at' = [s \in SeqId |-> IF s \in {z \in SeqId : m.tail[z] < 0} THEN -1 ELSE at[s]]
      /\ fresh' = [s \in SeqId |-> 0]
  BY DEF Fail
<1> HIDE DEF u
<1>3. SlotOK(memory, u, slot)
  BY <1>1, FindSlotIs DEF RInv, Good
<1> HIDE DEF slot
<1>4. Good(slot.memory)
  BY <1>3 DEF SlotOK, RInv, Good
<1>5. Good(m)
  BY <1>1, <1>4, SetupIs, IndexTakenIs, UbatchRemovedIs DEF RInv
<1> HIDE DEF m
<1>6. Good(memory)'
  BY <1>2, <1>5, GoodNext
<1>7. at' \in [SeqId -> -1 .. MaxPos] /\ fresh' \in [SeqId -> Nat]
  BY <1>2, SizeIs DEF RInv
<1>8. UbatchesOK(ubatches)'
  BY <1>2, NoneIsOK DEF UbatchesOK, UbatchOK, SeqId
<1> QED
  BY <1>2, <1>6, <1>7, <1>8 DEF RInv

\* Every step keeps the invariant.
LEMMA RInvNext == ASSUME CarefulOwners PROVE RInv /\ [Next]_vars => RInv'
<1> SUFFICES ASSUME RInv, [Next]_vars PROVE RInv'
  OBVIOUS
<1>1. CASE UNCHANGED vars
  <2>1. Good(memory)'
    BY <1>1, GoodNext DEF vars, RInv
  <2>2. UbatchesOK(ubatches)'
    BY <1>1 DEF vars, RInv, UbatchesOK, UbatchOK, SeqId
  <2> QED
    BY <1>1, <2>1, <2>2 DEF vars, RInv
<1>2. CASE Next
  BY <1>2, ClearStep, RemoveAnyStep, RemoveSeqStep, KeepStep, SaveStep, LoadStep, RollbackStep, CopyStep, ShiftStep,
     DecodeStep, EvaluateStep, FailStep DEF Next
<1> QED
  BY <1>1, <1>2

\* The invariant implies the property.
LEMMA RInvBelongs == ASSUME RInv PROVE CellsBelong
<1>1. memory \in Memories /\ Linked(memory) /\ Settles(memory) /\ Counted(memory) /\ memory.rs_idx \in [SeqId -> Group]
  BY DEF RInv, Good, Sound
<1>2. memory.used \in 0 .. Size
  <2>1. InUse(memory.cells) \in SUBSET Cell
    BY DEF InUse
  <2> QED
    BY <1>1, <2>1, CellsAreFinite DEF Counted
<1>3. TypeOK
  <2>1. \A s \in SeqId : at[s] \in -1 .. MaxPos /\ fresh[s] \in Nat
    BY DEF RInv
  <2> QED
    BY <1>1, <1>2, <2>1 DEF TypeOK, Memories, CellState
<1>4. ubatches # <<>> => FindSlot(memory, Head(ubatches)).ok
  BY RestIsOK, FindSlotIs DEF RInv, Good, SlotOK
<1>5. \A i \in Cell : memory.cells[i].src \in {-1, i} /\ (i \in InUse(memory.cells) => memory.cells[i].src = i)
  BY <1>1 DEF Settles, InUse
<1> QED
  BY <1>1, <1>3, <1>4, <1>5 DEF CellsBelong, Linked, Counted

\* Whatever the owners call and whichever graphs fail, the tails, the cells and their number belong
\* together and find_slot finds cells (llama-memory-recurrent.cpp:575-674), if nobody removes any sequence
\* (seq_id = -1) while there are some: that leaves the tails behind.
THEOREM CellsBelongAlways == CarefulOwners => (Spec => []CellsBelong)
<1> SUFFICES ASSUME CarefulOwners PROVE Spec => []CellsBelong
  OBVIOUS
<1>1. RInv /\ [Next]_vars => RInv'
  BY RInvNext
<1>2. RInv => CellsBelong
  BY RInvBelongs
<1> QED
  BY <1>1, <1>2, RInvInit, PTL DEF Spec

-----------------------------------------------------------------------------
(* The state of every sequence: the invariant                              *)

\* The tokens that a state has seen
Past == Seq(SeqId \X Nat)
Cut(q, r) == SubSeq(q, 1, Len(q) - r)
\* Sequence s is in a ubatch of us.
Pending(us, s) == \E n \in DOMAIN us : s \in SeqsIn(us[n])

\* Sequences that share a cell, and those that have none, have no rollback pending.
IndexOK(m) ==
    /\ \A s, z \in SeqId : s # z /\ m.tail[s] >= 0 /\ m.tail[s] = m.tail[z] => m.rs_idx[s] = 0
    /\ \A s \in SeqId : m.tail[s] < 0 => m.rs_idx[s] = 0
\* The state of s in m and d is the one after the tokens q[s], at position p[s].
StateHeld(m, d, q, p, s) ==
    IF m.tail[s] < 0 THEN q[s] = <<>>
    ELSE d[m.rs_idx[s]][m.tail[s]] = q[s] /\ m.cells[m.tail[s]].pos = p[s]
\* The snapshots of s are the states after all its tokens but the last ones.
SnapshotsHeld(m, d, q, f, s) == \A r \in Group : r <= f[s] => d[r][m.tail[s]] = Cut(q[s], r)
\* Empty cells that are not zeroed again have a row that is zeroed, but for those in X.
RowsAreZeroed(m, d, X) == \A i \in Cell \ X : Spare(m, i) => d[0][i] = <<>>

\* What is saved has its own past.
SavedOK ==
    saved # <<>> => /\ saved.seen \in Past /\ saved.row \in Past
                    /\ saved.pos < 0 => saved.seen = <<>>
                    /\ saved.pos >= 0 => saved.row = saved.seen
\* What is to come of a batch: rollbacks are taken, the last ubatch of a sequence leaves all the
\* snapshots that may be asked for, and a token of a draft has one sequence.
RestOK(us, m, f) ==
    /\ us # <<>> => \A s \in SeqId : ~Pending(us, s) /\ f[s] > 0 => m.rs_idx[s] = 0
    /\ \A n \in DOMAIN us : us[n].k \in Nat \ {0}
    /\ \A n \in DOMAIN us : \A s \in SeqsIn(us[n]) :
          (\A l \in DOMAIN us : l > n => s \notin SeqsIn(us[l])) => \A r \in Group : r <= f[s] => r < us[n].k
    /\ setup.n_rs_seq > 0 => \A n \in DOMAIN us : \A k \in DOMAIN us[n].sets : \E s \in SeqId : us[n].sets[k] = {s}

TypesOK == data \in [Group -> [Cell -> Past]] /\ seen \in [SeqId -> Past] /\ called \in Nat
StatesOK == \A s \in SeqId \ (failed \cup astray) : StateHeld(memory, data, seen, at, s)
SnapshotsOK ==
    \A s \in SeqId \ (failed \cup astray \cup swept) :
        memory.tail[s] >= 0 /\ memory.rs_idx[s] = 0 /\ ~Pending(ubatches, s) => SnapshotsHeld(memory, data, seen, fresh, s)

SInv ==
    /\ TypesOK /\ SavedOK /\ IndexOK(memory) /\ RestOK(ubatches, memory, fresh)
    /\ StatesOK /\ SnapshotsOK /\ RowsAreZeroed(memory, data, soiled)

\* A past without its last 0 tokens is itself.
LEMMA PastIs == <<>> \in Past /\ \A q \in Past : Len(q) \in Nat /\ Cut(q, 0) = q
<1>1. ASSUME NEW q \in Past PROVE Len(q) \in Nat /\ Cut(q, 0) = q
  <2> DEFINE T == SeqId \X Nat
  <2>1. q \in Seq(T)
    BY DEF Past
  <2> HIDE DEF T
  <2>2. Len(q) \in Nat
    BY <2>1
  <2>3. SubSeq(q, 1, Len(q)) = q
    BY <2>1
  <2>4. Len(q) - 0 = Len(q)
    BY <2>2
  <2> QED
    BY <2>2, <2>3, <2>4 DEF Cut
<1>2. <<>> \in Past
  BY DEF Past
<1> QED
  BY <1>1, <1>2

\* Nothing is pending between two calls.
LEMMA NonePending == ASSUME NEW m, NEW f PROVE RestOK(<<>>, m, f) /\ \A s : ~Pending(<<>>, s)
<1>1. DOMAIN <<>> = {}
  OBVIOUS
<1> QED
  BY <1>1 DEF RestOK, Pending

\* The invariant implies the property.
LEMMA SInvTrue == ASSUME RInv, SInv PROVE StateIsTrue
<1> SUFFICES ASSUME NEW s \in SeqId \ (failed \cup astray) PROVE StateIs(s)
  BY DEF StateIsTrue
<1>1. StateHeld(memory, data, seen, at, s)
  BY DEF SInv, StatesOK
<1>2. CASE memory.tail[s] < 0
  BY <1>1, <1>2 DEF StateIs, StateHeld
<1>3. CASE ~(memory.tail[s] < 0)
  <2>1. memory.tail[s] \in Cell /\ memory.tail[s] >= 0
    BY <1>3, CellTypes DEF RInv, Good, Sound
  <2>2. s \in memory.cells[memory.tail[s]].seq_id
    BY <2>1 DEF RInv, Good, Sound, Linked
  <2>3. memory.cells[memory.tail[s]].src = memory.tail[s]
    BY <2>1, <2>2 DEF RInv, Good, Sound, Settles
  <2>4. RowOf(memory, s) = memory.tail[s]
    BY <2>1, <2>3 DEF RowOf
  <2> QED
    BY <1>1, <1>3, <2>4 DEF StateIs, StateHeld, PosOf
<1> QED
  BY <1>2, <1>3

\* A memory that is cleared has no states,
LEMMA ClearedStates ==
    ASSUME setup.n_rs_seq \in Nat
    PROVE  /\ IndexOK(Cleared) /\ Zeroed \in [Group -> [Cell -> Past]] /\ \A s \in SeqId : Cleared.tail[s] = -1
           /\ \A i : ~Spare(Cleared, i)
<1>1. Cleared.cells = [i \in Cell |-> Blank] /\ Cleared.tail = [s \in SeqId |-> -1] /\ Cleared.rs_idx = [s \in SeqId |-> 0]
  BY DEF Cleared
<1>2. \A i \in Cell : i # -1
  BY DEF Cell
<1>3. Zeroed \in [Group -> [Cell -> Past]]
  BY PastIs DEF Zeroed
<1>4. \A i : ~Spare(Cleared, i)
  BY <1>1, <1>2 DEF Spare, Blank
<1> QED
  BY <1>1, <1>3, <1>4 DEF IndexOK

\* so the invariant holds at the beginning.
LEMMA SInvInit == Init => SInv
<1> SUFFICES ASSUME Init PROVE SInv
  OBVIOUS
<1>1. setup.n_rs_seq \in Nat
  BY SetupIs DEF Init
<1>2. TypesOK
  BY <1>1, ClearedStates, PastIs DEF Init, TypesOK
<1>3. IndexOK(memory) /\ \A i : ~Spare(memory, i)
  BY <1>1, ClearedStates DEF Init
<1>4. RestOK(ubatches, memory, fresh)
  BY NonePending DEF Init
<1>5. \A s \in SeqId : memory.tail[s] = -1 /\ seen[s] = <<>>
  BY <1>1, ClearedStates DEF Init
<1>6. StatesOK /\ SnapshotsOK
  BY <1>5 DEF StatesOK, SnapshotsOK, StateHeld
<1> QED
  BY <1>2, <1>3, <1>4, <1>6 DEF SInv, RowsAreZeroed, SavedOK, Init

-----------------------------------------------------------------------------
(* The calls of the owner                                                  *)

\* o is m without the sequences in S, as far as the states go.
Shrunk(m, o, S) ==
    /\ \A s \in SeqId : s \in S => o.tail[s] < 0 /\ o.rs_idx[s] = 0
    /\ \A s \in SeqId \ S : /\ o.tail[s] = m.tail[s] /\ o.rs_idx[s] = m.rs_idx[s]
                            /\ m.tail[s] >= 0 => o.cells[m.tail[s]].pos = m.cells[m.tail[s]].pos
    /\ \A i \in Cell : Spare(o, i) => Spare(m, i)

\* What only takes sequences away leaves the others in their states.
LEMMA ShrinkKeeps ==
    ASSUME RInv, SInv, setup' = setup, NEW S \in SUBSET SeqId, Good(memory)', Shrunk(memory, memory', S),
           data' = data \/ (S = SeqId /\ data' \in [Group -> [Cell -> Past]] /\ \A i \in Cell : ~Spare(memory', i)),
           saved' = saved, called' \in Nat, ubatches' = <<>>, ubatches = <<>>, Forget(S),
           soiled' = soiled \/ \A i \in Cell : ~Spare(memory', i)
    PROVE  SInv'
<1>0. Group' = Group /\ Cell' = Cell /\ setup.n_rs_seq \in Nat
  BY SetupIs DEF Group, RInv
<1>1. TypesOK'
  <2>1. data' \in [Group -> [Cell -> Past]]
    BY DEF SInv, TypesOK
  <2>2. seen' \in [SeqId -> Past]
    BY PastIs DEF SInv, TypesOK, Forget
  <2> QED
    BY <1>0, <2>1, <2>2 DEF TypesOK
<1>2. SavedOK'
  BY DEF SInv, SavedOK
<1>3. IndexOK(memory)'
  <2>1. memory \in Memories /\ memory' \in Memories
    BY DEF RInv, Good, Sound, Memories, CellState, SeqId, Cell
  <2>2. ASSUME NEW s \in SeqId, memory'.tail[s] < 0 PROVE memory'.rs_idx[s] = 0
    BY <2>2 DEF Shrunk, SInv, IndexOK
  <2>3. ASSUME NEW s \in SeqId, NEW z \in SeqId, s # z, memory'.tail[s] >= 0, memory'.tail[s] = memory'.tail[z]
        PROVE  memory'.rs_idx[s] = 0
    <3>1. CASE s \in S
      BY <3>1 DEF Shrunk
    <3>2. CASE s \notin S
      <4>1. z \notin S
        <5>1. memory'.tail[z] >= 0 /\ memory'.tail[z] \in -1 .. Size - 1
          BY <2>1, <2>3, CellTypes
        <5>2. ~(memory'.tail[z] < 0)
          BY <5>1, SizeIs
        <5> QED
          BY <5>2 DEF Shrunk
      <4> QED
        BY <2>3, <3>2, <4>1 DEF Shrunk, SInv, IndexOK
    <3> QED
      BY <3>1, <3>2
  <2> QED
    BY <2>2, <2>3 DEF IndexOK
<1>4. RestOK(ubatches, memory, fresh)'
  <2>1. DOMAIN ubatches' = {} /\ ubatches' = <<>>
    OBVIOUS
  <2> QED
    BY <2>1 DEF RestOK
<1>5. /\ \A s \in S : seen'[s] = <<>>
      /\ \A s \in SeqId \ S : seen'[s] = seen[s] /\ at'[s] = at[s] /\ fresh'[s] = fresh[s]
      /\ swept' = swept \ S /\ astray' = astray \ S /\ failed' = failed \ S
  BY DEF Forget
<1>6. ASSUME NEW s \in SeqId \ S, memory'.tail[s] >= 0
      PROVE  data' = data /\ memory'.tail[s] = memory.tail[s] /\ memory'.rs_idx[s] = memory.rs_idx[s]
             /\ memory'.cells[memory'.tail[s]].pos = memory.cells[memory.tail[s]].pos
  BY <1>6 DEF Shrunk
<1>7. StatesOK'
  <2> SUFFICES ASSUME NEW s \in SeqId \ (failed' \cup astray') PROVE StateHeld(memory', data', seen', at', s)
    BY DEF StatesOK, StateHeld
  <2>1. CASE s \in S
    BY <1>5, <2>1 DEF StateHeld, Shrunk
  <2>2. CASE s \notin S
    <3>1. StateHeld(memory, data, seen, at, s)
      BY <1>5, <2>2 DEF SInv, StatesOK
    <3>2. CASE memory'.tail[s] < 0
      BY <1>5, <2>2, <3>1, <3>2 DEF StateHeld, Shrunk
    <3>3. CASE ~(memory'.tail[s] < 0)
      <4>1. memory'.tail[s] >= 0
        BY <3>3, CellTypes DEF Good, Sound, Memories, CellState, SeqId, Cell
      <4> QED
        BY <1>5, <1>6, <2>2, <3>1, <3>3, <4>1 DEF StateHeld
    <3> QED
      BY <3>2, <3>3
  <2> QED
    BY <2>1, <2>2
<1>8. SnapshotsOK'
  <2> SUFFICES ASSUME NEW s \in SeqId \ (failed' \cup astray' \cup swept'), memory'.tail[s] >= 0, memory'.rs_idx[s] = 0
               PROVE  SnapshotsHeld(memory', data', seen', fresh', s)
    BY <1>0 DEF SnapshotsOK, SnapshotsHeld
  <2>1. s \notin S
    <3>1. ~(memory'.tail[s] < 0)
      BY CellTypes, SizeIs DEF Good, Sound, Memories, CellState, SeqId, Cell
    <3> QED
      BY <3>1 DEF Shrunk
  <2>2. ~Pending(ubatches, s)
    BY NonePending
  <2>3. SnapshotsHeld(memory, data, seen, fresh, s)
    BY <1>5, <1>6, <2>1, <2>2 DEF SInv, SnapshotsOK
  <2> QED
    BY <1>5, <1>6, <2>1, <2>3 DEF SnapshotsHeld
<1>9. RowsAreZeroed(memory, data, soiled)'
  BY <1>0 DEF RowsAreZeroed, SInv, Shrunk
<1> QED
  BY <1>1, <1>2, <1>3, <1>4, <1>7, <1>8, <1>9 DEF SInv

\* What a removal of all positions of s leaves of the states: those of the other sequences.
LEMMA RemovedAllShrinks ==
    ASSUME NEW m, Good(m), NEW s \in SeqId, setup.n_rs_seq \in Nat
    PROVE  Shrunk(m, RemovedAll(m, s), {s})
<1> DEFINE n == Leave(m, s)
           o == RemovedAll(m, s)
<1>1. Without(m, n, {s}) /\ HasIndex(n, o, [m.rs_idx EXCEPT ![s] = 0])
  BY LeftIs, RemovedAllIs
<1>2. m \in Memories /\ m.rs_idx \in [SeqId -> Group] /\ Linked(m)
  BY DEF Good, Sound
<1> HIDE DEF n, o
<1>3. o.tail[s] < 0 /\ o.rs_idx[s] = 0
  BY <1>1, <1>2 DEF Without, HasIndex
<1>4. ASSUME NEW z \in SeqId \ {s}
      PROVE  /\ o.tail[z] = m.tail[z] /\ o.rs_idx[z] = m.rs_idx[z]
             /\ m.tail[z] >= 0 => o.cells[m.tail[z]].pos = m.cells[m.tail[z]].pos
  <2>1. o.tail[z] = m.tail[z] /\ o.rs_idx[z] = m.rs_idx[z]
    BY <1>1, <1>2 DEF Without, HasIndex
  <2>2. ASSUME m.tail[z] >= 0 PROVE o.cells[m.tail[z]].pos = m.cells[m.tail[z]].pos
    <3>1. m.tail[z] \in Cell
      BY <1>2, <2>2, CellTypes
    <3>2. z \in m.cells[m.tail[z]].seq_id
      BY <1>2, <3>1 DEF Linked
    <3>3. ~Emptied(m, {s}, m.tail[z])
      BY <3>2 DEF Emptied
    <3> QED
      BY <1>1, <3>1, <3>3 DEF Without, HasIndex, SameState
  <2> QED
    BY <2>1, <2>2
<1>5. ASSUME NEW i \in Cell, Spare(o, i) PROVE Spare(m, i)
  <2>1. n.cells[i].seq_id = {} /\ n.cells[i].src = i /\ i # -1
    BY <1>1, <1>5 DEF Spare, HasIndex, Cell
  <2>2. ~Emptied(m, {s}, i)
    BY <1>1, <2>1 DEF Without, NoState
  <2>3. m.cells[i].src = i
    BY <1>1, <2>1, <2>2 DEF Without, SameState
  <2>4. m.cells[i].seq_id = {}
    BY <1>1, <2>1, <2>2 DEF Without, Emptied
  <2> QED
    BY <2>3, <2>4 DEF Spare
<1> QED
  BY <1>3, <1>4, <1>5 DEF Shrunk, o

\* clear() leaves no state.
LEMMA ClearTrue == ASSUME RInv, SInv, NEW zero \in BOOLEAN, Clear(zero) PROVE SInv'
<1>1. setup \in Setups /\ setup' = setup /\ ubatches = <<>> /\ called' \in Nat /\ ubatches' = <<>> /\ saved' = saved
  BY CallIs DEF Clear, RInv, Call, SInv, TypesOK
<1>2. setup.n_rs_seq \in Nat
  BY <1>1, SetupIs
<1>3. RInv'
  BY ClearStep
<1>4. memory' = Cleared /\ soiled' = {} /\ Forget(SeqId) /\ data' \in [Group -> [Cell -> Past]]
  BY <1>2, ClearedStates DEF Clear, SInv, TypesOK
<1>5. \A i \in Cell : ~Spare(memory', i)
  BY <1>2, <1>4, ClearedStates
<1>6. Shrunk(memory, memory', SeqId)
  <2>1. \A s \in SeqId : memory'.tail[s] = -1 /\ memory'.rs_idx[s] = 0
    BY <1>4 DEF Cleared
  <2> QED
    BY <1>5, <2>1 DEF Shrunk
<1> QED
  BY <1>1, <1>3, <1>4, <1>5, <1>6, ShrinkKeeps DEF RInv

\* seq_rm() of a whole sequence leaves the states of the others.
LEMMA RemoveSeqTrue == ASSUME RInv, SInv, NEW s \in SeqId, RemoveSeq(s) PROVE SInv'
<1>1. setup \in Setups /\ setup' = setup /\ ubatches = <<>> /\ called' \in Nat /\ ubatches' = <<>> /\ saved' = saved
  BY CallIs DEF RemoveSeq, RInv, Call, SInv, TypesOK
<1>2. RInv'
  BY RemoveSeqStep
<1>3. memory' = RemovedAll(memory, s) /\ soiled' = soiled /\ data' = data /\ Forget({s})
  BY DEF RemoveSeq, SeqRm
<1>4. Shrunk(memory, memory', {s})
  BY <1>1, <1>3, SetupIs, RemovedAllShrinks DEF RInv
<1> QED
  BY <1>1, <1>2, <1>3, <1>4, ShrinkKeeps DEF RInv

\* seq_rm() of any sequence finds none.
LEMMA RemoveAnyTrue == ASSUME CarefulOwners, RInv, SInv, RemoveAny PROVE SInv'
<1>1. setup \in Setups /\ setup' = setup /\ ubatches = <<>> /\ called' \in Nat /\ ubatches' = <<>> /\ saved' = saved
  BY CallIs DEF RemoveAny, RInv, Call, SInv, TypesOK
<1>2. RInv'
  BY RemoveAnyStep
<1>3. memory' = RemovedAny(memory) /\ soiled' = soiled /\ data' = data /\ Forget(SeqId) /\ InUse(memory.cells) = {}
  BY DEF RemoveAny, CarefulOwners, RInv
<1>4. HasIndex(memory, memory', [s \in SeqId |-> 0])
  BY <1>1, <1>3, SetupIs, RemovedAnyIs DEF RInv
<1>5. \A s \in SeqId : memory.tail[s] < 0
  <2> SUFFICES ASSUME NEW s \in SeqId, ~(memory.tail[s] < 0) PROVE FALSE
    OBVIOUS
  <2>1. memory.tail[s] \in Cell
    BY CellTypes DEF RInv, Good, Sound
  <2> QED
    BY <1>3, <2>1 DEF RInv, Good, Sound, Linked, InUse
<1>6. Shrunk(memory, memory', SeqId)
  BY <1>4, <1>5 DEF Shrunk, HasIndex, Spare
<1> QED
  BY <1>1, <1>2, <1>3, <1>6, ShrinkKeeps DEF RInv

\* seq_keep() leaves one state.
LEMMA KeepTrue == ASSUME CarefulOwners, RInv, SInv, NEW s \in SeqId, Keep(s) PROVE SInv'
<1>1. setup \in Setups /\ setup' = setup /\ ubatches = <<>> /\ called' \in Nat /\ ubatches' = <<>> /\ saved' = saved
  BY CallIs DEF Keep, RInv, Call, SInv, TypesOK
<1>2. RInv'
  BY KeepStep
<1>3. memory' = OnlyKept(memory, s) /\ soiled' = {} /\ data' = data /\ Forget(SeqId \ {s})
      /\ \A z \in SeqId \ {s} : memory.rs_idx[z] = 0
  BY DEF Keep, CarefulOwners, RInv
<1>4. /\ memory'.rs_idx = memory.rs_idx
      /\ memory'.tail[s] = memory.tail[s] /\ \A z \in SeqId : z # s => memory'.tail[z] = -1
      /\ \A i \in Cell : /\ s \notin memory.cells[i].seq_id => memory'.cells[i] = Blank
                         /\ s \in memory.cells[i].seq_id => /\ memory'.cells[i].seq_id = {s}
                                                            /\ SameState(memory'.cells[i], memory.cells[i])
  BY <1>3, KeptIs DEF RInv
<1>5. \A i \in Cell : ~Spare(memory', i)
  <2> SUFFICES ASSUME NEW i \in Cell PROVE ~Spare(memory', i)
    OBVIOUS
  <2>1. i # -1
    BY DEF Cell
  <2> QED
    BY <1>4, <2>1 DEF Spare, Blank
<1>6. memory.tail[s] >= 0 => memory'.cells[memory.tail[s]].pos = memory.cells[memory.tail[s]].pos
  <2> SUFFICES ASSUME memory.tail[s] >= 0 PROVE memory'.cells[memory.tail[s]].pos = memory.cells[memory.tail[s]].pos
    OBVIOUS
  <2>1. memory.tail[s] \in Cell
    BY CellTypes DEF RInv, Good, Sound
  <2>2. s \in memory.cells[memory.tail[s]].seq_id
    BY <2>1 DEF RInv, Good, Sound, Linked
  <2> QED
    BY <1>4, <2>1, <2>2 DEF SameState
<1>7. Shrunk(memory, memory', SeqId \ {s})
  <2>1. \A z \in SeqId \ (SeqId \ {s}) : z = s
    OBVIOUS
  <2> QED
    BY <1>3, <1>4, <1>5, <1>6, <2>1 DEF Shrunk
<1> QED
  BY <1>1, <1>2, <1>3, <1>5, <1>7, ShrinkKeeps DEF RInv

\* What is in use: the cell of a sequence that has one is in use and has a position.
LEMMA TailIs ==
    ASSUME NEW m, Good(m), NEW s \in SeqId, ~(m.tail[s] < 0)
    PROVE  /\ m.tail[s] \in Cell /\ m.tail[s] >= 0 /\ s \in m.cells[m.tail[s]].seq_id
           /\ m.cells[m.tail[s]].src = m.tail[s] /\ m.cells[m.tail[s]].pos \in 0 .. MaxPos
<1>1. m \in Memories
  BY DEF Good, Sound
<1>2. m.tail[s] \in Cell /\ m.tail[s] >= 0 /\ m.cells[m.tail[s]].pos \in -1 .. MaxPos
  BY <1>1, CellTypes
<1>3. s \in m.cells[m.tail[s]].seq_id
  BY <1>2 DEF Good, Sound, Linked
<1>4. m.cells[m.tail[s]].src = m.tail[s] /\ m.cells[m.tail[s]].pos # -1
  BY <1>2, <1>3 DEF Good, Sound, Settles
<1> QED
  BY <1>2, <1>3, <1>4, SizeIs

\* state_write() saves the state after the tokens of the sequence.
LEMMA SaveTrue == ASSUME RInv, SInv, NEW s \in SeqId, Save(s) PROVE SInv'
<1>1. /\ setup' = setup /\ ubatches = <<>> /\ called' \in Nat
      /\ UNCHANGED <<memory, data, ubatches, seen, at, fresh, swept, astray, failed, soiled>>
  BY DEF Save, Call, SInv, TypesOK, history
<1>2. Group' = Group
  BY <1>1 DEF Group
<1>3. SavedOK'
  <2>1. StateHeld(memory, data, seen, at, s) /\ seen[s] \in Past
    BY DEF Save, SInv, StatesOK, TypesOK
  <2>2. CASE memory.tail[s] < 0
    <3>1. saved' = [pos |-> -1, row |-> <<>>, seen |-> <<>>]
      BY <2>2 DEF Save
    <3> QED
      BY <3>1, PastIs DEF SavedOK
  <2>3. CASE ~(memory.tail[s] < 0)
    <3>1. saved' = [pos |-> PosOf(memory, s), seen |-> seen[s], row |-> data[memory.rs_idx[s]][RowOf(memory, s)]]
      BY <2>3 DEF Save
    <3>2. memory.tail[s] >= 0 /\ memory.cells[memory.tail[s]].src = memory.tail[s] /\ PosOf(memory, s) \in 0 .. MaxPos
      BY <2>3, TailIs DEF RInv, PosOf
    <3>3. RowOf(memory, s) = memory.tail[s]
      BY <3>2 DEF RowOf
    <3>4. data[memory.rs_idx[s]][RowOf(memory, s)] = seen[s]
      BY <2>1, <2>3, <3>3 DEF StateHeld
    <3>5. ~(PosOf(memory, s) < 0)
      BY <3>2, SizeIs
    <3> QED
      BY <2>1, <3>1, <3>4, <3>5 DEF SavedOK
  <2> QED
    BY <2>2, <2>3
<1>4. TypesOK'
  BY <1>1, <1>2 DEF SInv, TypesOK
<1>5. IndexOK(memory)'
  BY <1>1 DEF SInv, IndexOK
<1>6. RestOK(ubatches, memory, fresh)'
  BY <1>1, <1>2 DEF SInv, RestOK, Pending, SeqsIn
<1>7. StatesOK'
  BY <1>1 DEF SInv, StatesOK, StateHeld
<1>8. SnapshotsOK'
  BY <1>1, <1>2 DEF SInv, SnapshotsOK, SnapshotsHeld, Pending, SeqsIn
<1>9. RowsAreZeroed(memory, data, soiled)'
  BY <1>1 DEF SInv, RowsAreZeroed, Spare
<1> QED
  BY <1>3, <1>4, <1>5, <1>6, <1>7, <1>8, <1>9 DEF SInv

\* Between two calls the invariant says this much of the history that follows.
LEMMA BetweenCalls ==
    ASSUME setup' = setup, ubatches' = <<>>, saved' = saved, TypesOK', SavedOK, IndexOK(memory)',
           \A s \in SeqId \ (failed' \cup astray') : StateHeld(memory', data', seen', at', s),
           \A s \in SeqId \ (failed' \cup astray' \cup swept') :
               memory'.tail[s] >= 0 /\ memory'.rs_idx[s] = 0 => SnapshotsHeld(memory', data', seen', fresh', s),
           \A i \in Cell \ soiled' : Spare(memory', i) => data'[0][i] = <<>>
    PROVE  SInv'
<1>1. Group' = Group
  BY DEF Group
<1>2. DOMAIN ubatches' = {}
  OBVIOUS
<1>3. RestOK(ubatches, memory, fresh)'
  BY <1>2 DEF RestOK
<1>4. StatesOK' /\ RowsAreZeroed(memory, data, soiled)'
  BY DEF StatesOK, StateHeld, RowsAreZeroed, Spare
<1>5. SnapshotsOK'
  BY <1>1 DEF SnapshotsOK, SnapshotsHeld
<1>6. SavedOK'
  BY DEF SavedOK
<1> QED
  BY <1>3, <1>4, <1>5, <1>6 DEF SInv

\* seq_add() and seq_div() change the position of one state.
LEMMA ShiftTrue == ASSUME CarefulOwners, RInv, SInv, NEW s \in SeqId, NEW p, Shift(s, p) PROVE SInv'
<1>1. /\ setup' = setup /\ ubatches = <<>> /\ ubatches' = <<>> /\ called' \in Nat /\ setup.n_rs_seq \in Nat
      /\ UNCHANGED <<data, saved, seen, fresh, swept, astray, failed, soiled>>
      /\ at' = [at EXCEPT ![s] = p] /\ at \in [SeqId -> -1 .. MaxPos]
      /\ Alone(s) /\ memory.tail[s] >= 0 /\ p \in 0 .. MaxPos
  BY SetupIs DEF Shift, Call, SInv, TypesOK, RInv
<1>2. memory.tail[s] \in Cell /\ memory.cells[memory.tail[s]].seq_id = {s}
  <2>1. memory.tail[s] \in Cell
    BY <1>1, CellTypes DEF RInv, Good, Sound
  <2> QED
    BY <1>1, <2>1 DEF Alone, CarefulOwners, RInv
<1>3. memory' = [memory EXCEPT !.cells[memory.tail[s]].pos = p]
  BY <1>2 DEF Moved, Cell, Shift
<1>4. HasPos(memory, memory', memory.tail[s], p) /\ memory'.rs_idx = memory.rs_idx
  BY <1>1, <1>3, MovedIs DEF RInv
<1>5. ASSUME NEW z \in SeqId, z # s, ~(memory.tail[z] < 0)
      PROVE  memory.tail[z] # memory.tail[s] /\ memory'.cells[memory.tail[z]].pos = memory.cells[memory.tail[z]].pos
  <2>1. memory.tail[z] \in Cell /\ z \in memory.cells[memory.tail[z]].seq_id
    BY <1>5, TailIs DEF RInv
  <2>2. memory.tail[z] # memory.tail[s]
    BY <1>2, <1>5, <2>1
  <2> QED
    BY <1>4, <2>1, <2>2 DEF HasPos
<1>6. TypesOK'
  <2>1. Group' = Group
    BY <1>1 DEF Group
  <2> QED
    BY <1>1, <2>1 DEF SInv, TypesOK
<1>7. IndexOK(memory)'
  BY <1>4 DEF SInv, IndexOK, HasPos
<1>8. ASSUME NEW z \in SeqId \ (failed' \cup astray') PROVE StateHeld(memory', data', seen', at', z)
  <2>1. StateHeld(memory, data, seen, at, z)
    BY <1>1 DEF SInv, StatesOK
  <2>2. CASE z = s
    <3>1. at'[z] = p /\ memory'.cells[memory.tail[s]].pos = p /\ ~(memory.tail[s] < 0)
      BY <1>1, <1>2, <1>4, <2>2, SizeIs DEF HasPos, Cell
    <3> QED
      BY <1>1, <1>4, <2>1, <2>2, <3>1 DEF StateHeld, HasPos
  <2>3. CASE z # s
    <3>1. at'[z] = at[z]
      BY <1>1, <2>3
    <3> QED
      BY <1>1, <1>4, <1>5, <2>1, <2>3, <3>1 DEF StateHeld, HasPos
  <2> QED
    BY <2>2, <2>3
<1>9. ASSUME NEW z \in SeqId \ (failed' \cup astray' \cup swept'), memory'.tail[z] >= 0, memory'.rs_idx[z] = 0
      PROVE  SnapshotsHeld(memory', data', seen', fresh', z)
  <2>1. ~Pending(ubatches, z)
    BY <1>1, NonePending
  <2>2. SnapshotsHeld(memory, data, seen, fresh, z)
    BY <1>1, <1>4, <1>9, <2>1 DEF SInv, SnapshotsOK, HasPos
  <2> QED
    BY <1>1, <1>4, <2>2 DEF SnapshotsHeld, HasPos
<1>10. \A i \in Cell \ soiled' : Spare(memory', i) => data'[0][i] = <<>>
  BY <1>1, <1>4 DEF SInv, RowsAreZeroed, Spare, HasPos
<1> QED
  BY <1>1, <1>6, <1>7, <1>8, <1>9, <1>10, BetweenCalls DEF SInv

\* A past can be cut, and goes on with other tokens.
LEMMA CutIs == ASSUME NEW q \in Past, NEW r \in Nat PROVE Cut(q, r) \in Past
<1> DEFINE T == SeqId \X Nat
           n == Len(q) - r
<1>1. q \in Seq(T) /\ Len(q) \in Nat
  BY PastIs DEF Past
<1> HIDE DEF T
<1>2. CASE n >= 1
  <2>1. n \in Nat /\ n <= Len(q)
    BY <1>1, <1>2
  <2>2. \A i \in 1 .. n : i \in 1 .. Len(q)
    BY <1>1, <2>1
  <2> HIDE DEF n
  <2>3. SubSeq(q, 1, n) \in Seq(T)
    BY <1>1, <2>1, <2>2
  <2> QED
    BY <2>3 DEF Past, Cut, n, T
<1>3. CASE n < 1
  <2>1. SubSeq(q, 1, n) = <<>>
    BY <1>1, <1>3
  <2> QED
    BY <2>1, PastIs DEF Cut, n
<1> QED
  BY <1>1, <1>2, <1>3

\* A rollback of the last tokens finds the snapshot that was taken before them.
LEMMA RollbackTrue ==
    ASSUME CarefulOwners, RInv, SInv, NEW s \in SeqId, NEW p0 \in 1 .. MaxPos, Rollback(s, p0)
    PROVE  SInv'
<1> DEFINE r == Steps(memory, s, p0)
           refused == Refused(memory, s, p0)
<1>1. /\ setup' = setup /\ ubatches = <<>> /\ ubatches' = <<>> /\ called' \in Nat /\ setup.n_rs_seq \in Nat
      /\ data' = data /\ saved' = saved /\ p0 \in Nat \ {0} /\ Group' = Group
  BY SetupIs DEF Rollback, Call, SInv, TypesOK, RInv, Group
<1>2. memory' = RolledBack(memory, s, p0)
  BY <1>1 DEF Rollback, SeqRm
<1>3. ~(memory.tail[s] < 0) /\ r > 0 /\ r <= fresh[s] /\ memory.rs_idx[s] = 0 /\ Alone(s)
  BY CellTypes, SizeIs DEF Rollback, RInv, CarefulOwners, Good, Sound, Cell
<1>4. /\ memory.tail[s] \in Cell /\ memory.tail[s] >= 0 /\ memory.cells[memory.tail[s]].pos \in 0 .. MaxPos
      /\ memory.cells[memory.tail[s]].seq_id = {s}
  BY <1>3, TailIs DEF RInv, Alone, CarefulOwners
<1>5. r \in Int /\ ~(r <= 0)
  BY <1>3, <1>4, SizeIs DEF Steps, PosOf
<1>6. CASE refused
  <2>1. memory' = memory
    BY <1>1, <1>2, <1>6, RolledBackIs DEF RInv
  <2>2. UNCHANGED <<seen, at, fresh, swept, astray, failed, soiled>>
    BY <1>6 DEF Rollback, history
  <2>3. TypesOK'
    BY <1>1, <2>2 DEF SInv, TypesOK
  <2>4. IndexOK(memory)'
    BY <2>1 DEF SInv, IndexOK
  <2>5. \A z \in SeqId \ (failed' \cup astray') : StateHeld(memory', data', seen', at', z)
    BY <1>1, <2>1, <2>2 DEF SInv, StatesOK
  <2>6. ASSUME NEW z \in SeqId \ (failed' \cup astray' \cup swept'), memory'.tail[z] >= 0, memory'.rs_idx[z] = 0
        PROVE  SnapshotsHeld(memory', data', seen', fresh', z)
    <3>1. SnapshotsHeld(memory, data, seen, fresh, z)
      BY <1>1, <2>1, <2>2, <2>6, NonePending DEF SInv, SnapshotsOK
    <3> QED
      BY <1>1, <2>1, <2>2, <3>1 DEF SnapshotsHeld
  <2>7. \A i \in Cell \ soiled' : Spare(memory', i) => data'[0][i] = <<>>
    BY <1>1, <2>1, <2>2 DEF SInv, RowsAreZeroed
  <2> QED
    BY <1>1, <2>3, <2>4, <2>5, <2>6, <2>7, BetweenCalls DEF SInv
<1>7. CASE ~refused
  <2>1. /\ HasPos(memory, memory', memory.tail[s], p0 - 1) /\ memory'.rs_idx = [memory.rs_idx EXCEPT ![s] = r]
        /\ r \in Group
    BY <1>1, <1>2, <1>5, <1>7, RolledBackIs DEF RInv
  <2>2. /\ seen' = [seen EXCEPT ![s] = Cut(seen[s], r)] /\ at' = [at EXCEPT ![s] = p0 - 1]
        /\ astray' = (IF s \in swept THEN astray \cup {s} ELSE astray)
        /\ fresh' = [fresh EXCEPT ![s] = fresh[s] - r] /\ UNCHANGED <<swept, failed, soiled>>
    BY <1>7 DEF Rollback, Cut, SInv, TypesOK, RInv
  <2>3. r \in Nat /\ memory.rs_idx \in [SeqId -> Group] /\ seen \in [SeqId -> Past] /\ at \in [SeqId -> -1 .. MaxPos] /\ fresh \in [SeqId -> Nat]
    BY <1>5 DEF RInv, Good, SInv, TypesOK
  <2> HIDE DEF r, refused
  <2>4. TypesOK'
    <3>1. Cut(seen[s], r) \in Past
      BY <2>3, CutIs
    <3>2. seen' \in [SeqId -> Past]
      BY <2>2, <2>3, <3>1
    <3> QED
      BY <1>1, <3>2 DEF SInv, TypesOK
  <2>5. ASSUME NEW z \in SeqId, z # s
        PROVE  /\ memory'.tail[z] = memory.tail[z] /\ memory'.rs_idx[z] = memory.rs_idx[z]
               /\ seen'[z] = seen[z] /\ at'[z] = at[z] /\ fresh'[z] = fresh[z]
               /\ ~(memory.tail[z] < 0) => /\ memory.tail[z] # memory.tail[s]
                                           /\ memory'.cells[memory.tail[z]].pos = memory.cells[memory.tail[z]].pos
    <3>1. ASSUME ~(memory.tail[z] < 0) PROVE memory.tail[z] # memory.tail[s] /\ memory.tail[z] \in Cell
      BY <1>4, <2>5, <3>1, TailIs DEF RInv
    <3>2. /\ memory'.tail[z] = memory.tail[z] /\ memory'.rs_idx[z] = memory.rs_idx[z]
          /\ seen'[z] = seen[z] /\ at'[z] = at[z] /\ fresh'[z] = fresh[z]
      BY <2>1, <2>2, <2>3, <2>5 DEF HasPos
    <3> QED
      BY <2>1, <3>1, <3>2 DEF HasPos
  <2>6. /\ memory'.tail = memory.tail /\ memory'.rs_idx[s] = r /\ memory'.cells[memory.tail[s]].pos = p0 - 1
        /\ seen'[s] = Cut(seen[s], r) /\ at'[s] = p0 - 1
    BY <2>1, <2>2, <2>3 DEF HasPos
  <2>7. IndexOK(memory)'
    <3>1. ASSUME NEW y \in SeqId, NEW z \in SeqId, y # z, memory'.tail[y] >= 0, memory'.tail[y] = memory'.tail[z]
          PROVE  memory'.rs_idx[y] = 0
      <4>1. ~(memory.tail[y] < 0) /\ ~(memory.tail[z] < 0)
        BY <2>6, <3>1, CellTypes, SizeIs DEF RInv, Good, Sound
      <4>2. y # s
        BY <2>5, <2>6, <3>1, <4>1
      <4>3. memory.rs_idx[y] = 0
        BY <2>6, <3>1 DEF SInv, IndexOK
      <4> QED
        BY <2>5, <4>2, <4>3
    <3>2. ASSUME NEW y \in SeqId, memory'.tail[y] < 0 PROVE memory'.rs_idx[y] = 0
      BY <1>3, <2>5, <2>6, <3>2 DEF SInv, IndexOK
    <3> QED
      BY <3>1, <3>2 DEF IndexOK
  <2>8. ASSUME NEW z \in SeqId \ (failed' \cup astray') PROVE StateHeld(memory', data', seen', at', z)
    <3>1. z \notin failed /\ z \notin astray /\ (z = s => s \notin swept)
      BY <2>2, <2>8
    <3>2. CASE z = s
      <4>1. SnapshotsHeld(memory, data, seen, fresh, s)
        BY <1>1, <1>3, <1>4, <3>1, <3>2, NonePending DEF SInv, SnapshotsOK
      <4>2. data[r][memory.tail[s]] = Cut(seen[s], r)
        BY <1>3, <2>1, <4>1 DEF SnapshotsHeld, r
      <4> QED
        BY <1>1, <1>3, <2>6, <3>2, <4>2 DEF StateHeld
    <3>3. CASE z # s
      <4>1. StateHeld(memory, data, seen, at, z)
        BY <3>1 DEF SInv, StatesOK
      <4> QED
        BY <1>1, <2>5, <3>3, <4>1 DEF StateHeld
    <3> QED
      BY <3>2, <3>3
  <2>9. ASSUME NEW z \in SeqId \ (failed' \cup astray' \cup swept'), memory'.tail[z] >= 0, memory'.rs_idx[z] = 0
        PROVE  SnapshotsHeld(memory', data', seen', fresh', z)
    <3>1. z # s /\ z \notin failed /\ z \notin astray /\ z \notin swept
      BY <1>5, <2>2, <2>6, <2>9 DEF r
    <3>2. SnapshotsHeld(memory, data, seen, fresh, z)
      BY <1>1, <2>5, <2>9, <3>1, NonePending DEF SInv, SnapshotsOK
    <3> QED
      BY <1>1, <2>5, <3>1, <3>2 DEF SnapshotsHeld
  <2>10. \A i \in Cell \ soiled' : Spare(memory', i) => data'[0][i] = <<>>
    BY <1>1, <2>1, <2>2 DEF SInv, RowsAreZeroed, Spare, HasPos
  <2> QED
    BY <1>1, <2>4, <2>7, <2>8, <2>9, <2>10, BetweenCalls DEF SInv
<1> QED
  BY <1>6, <1>7

\* o is m with d where s is, as far as the states go.
Doubled(m, o, s, d) ==
    /\ o.rs_idx = m.rs_idx
    /\ \A z \in SeqId \ {d} : o.tail[z] = m.tail[z]
    /\ IF m.tail[s] < 0 THEN o.tail[d] < 0 ELSE o.tail[d] = m.tail[s]
    /\ \A z \in SeqId \ {d} : ~(m.tail[z] < 0) => o.cells[m.tail[z]].pos = m.cells[m.tail[z]].pos
    /\ \A i \in Cell : Spare(o, i) => Spare(m, i)

\* seq_cp() doubles a state.
LEMMA CopiedDoubles ==
    ASSUME NEW m, Good(m), NEW s \in SeqId, NEW d \in SeqId, s # d
    PROVE  Doubled(m, Copied(m, s, d), s, d)
<1> DEFINE n == Leave(m, d)
           o == Copied(m, s, d)
<1>1. Without(m, n, {d})
  BY LeftIs
<1>2. /\ m.tail[s] < 0 => o = n
      /\ ~(m.tail[s] < 0) => HasJoined(n, o, d, m.tail[s])
  BY CopiedIs
<1> HIDE DEF n, o
<1>3. /\ o.rs_idx = n.rs_idx /\ \A z \in SeqId \ {d} : o.tail[z] = n.tail[z]
      /\ \A j \in Cell : /\ o.cells[j].seq_id = {} <=> n.cells[j].seq_id = {}
                         /\ o.cells[j].pos = n.cells[j].pos /\ o.cells[j].src = n.cells[j].src
  BY <1>2 DEF HasJoined
<1>4. o.rs_idx = m.rs_idx /\ \A z \in SeqId \ {d} : o.tail[z] = m.tail[z]
  BY <1>1, <1>3 DEF Without
<1>5. IF m.tail[s] < 0 THEN o.tail[d] < 0 ELSE o.tail[d] = m.tail[s]
  BY <1>1, <1>2 DEF Without, HasJoined
<1>6. ASSUME NEW z \in SeqId \ {d}, ~(m.tail[z] < 0) PROVE o.cells[m.tail[z]].pos = m.cells[m.tail[z]].pos
  <2>1. m.tail[z] \in Cell /\ z \in m.cells[m.tail[z]].seq_id
    BY <1>6, TailIs
  <2>2. ~Emptied(m, {d}, m.tail[z])
    BY <2>1 DEF Emptied
  <2> QED
    BY <1>1, <1>3, <2>1, <2>2 DEF Without, SameState
<1>7. ASSUME NEW i \in Cell, Spare(o, i) PROVE Spare(m, i)
  <2>1. n.cells[i].seq_id = {} /\ n.cells[i].src = i /\ i # -1
    BY <1>3, <1>7 DEF Spare, Cell
  <2>2. ~Emptied(m, {d}, i)
    BY <1>1, <2>1 DEF Without, NoState
  <2>3. m.cells[i].src = i
    BY <1>1, <2>1, <2>2 DEF Without, SameState
  <2>4. m.cells[i].seq_id = {}
    BY <1>1, <2>1, <2>2 DEF Without, Emptied
  <2> QED
    BY <2>3, <2>4 DEF Spare
<1> QED
  BY <1>4, <1>5, <1>6, <1>7 DEF Doubled, o

\* A copy has the state of the sequence that it is made of.
LEMMA CopyTrue ==
    ASSUME CarefulOwners, RInv, SInv, NEW s \in SeqId, NEW d \in SeqId, Copy(s, d)
    PROVE  SInv'
<1>1. /\ setup' = setup /\ ubatches = <<>> /\ ubatches' = <<>> /\ called' \in Nat
      /\ UNCHANGED <<data, saved, fresh, swept, soiled>> /\ Group' = Group /\ s # d
  BY DEF Copy, Call, SInv, TypesOK, RInv, Group
<1>0. \A x \in SeqId : memory'.tail[x] \in -1 .. Size - 1
  <2>1. Good(memory)'
    BY CopyStep DEF RInv
  <2>2. memory' \in Memories
    BY <2>1 DEF Good, Sound, Memories, CellState, SeqId, Cell
  <2> QED
    BY <2>2, CellTypes
<1>2. /\ memory.rs_idx[s] = 0 /\ fresh[s] = 0 /\ memory.rs_idx[d] = 0 /\ fresh[d] = 0
  BY DEF Copy, Settled, RInv, CarefulOwners
<1>3. Doubled(memory, memory', s, d)
  BY CopiedDoubles DEF Copy, RInv
<1>4. /\ seen' = [seen EXCEPT ![d] = seen[s]] /\ at' = [at EXCEPT ![d] = at[s]]
      /\ seen \in [SeqId -> Past] /\ at \in [SeqId -> -1 .. MaxPos]
  BY DEF Copy, SInv, TypesOK, RInv
<1>5. \A z \in SeqId \ (failed' \cup astray') : /\ z # d => z \in SeqId \ (failed \cup astray)
                                                /\ z = d => s \in SeqId \ (failed \cup astray)
  BY <1>1 DEF Copy
<1>6. TypesOK'
  BY <1>1, <1>4 DEF SInv, TypesOK
<1>7. ASSUME NEW z \in SeqId, z # d
      PROVE  /\ memory'.tail[z] = memory.tail[z] /\ seen'[z] = seen[z] /\ at'[z] = at[z]
             /\ ~(memory.tail[z] < 0) => memory'.cells[memory.tail[z]].pos = memory.cells[memory.tail[z]].pos
  BY <1>3, <1>4, <1>7 DEF Doubled
<1>8. /\ memory'.rs_idx = memory.rs_idx /\ seen'[d] = seen[s] /\ at'[d] = at[s]
      /\ IF memory.tail[s] < 0 THEN memory'.tail[d] < 0 ELSE memory'.tail[d] = memory.tail[s]
  BY <1>3, <1>4 DEF Doubled
<1>9. IndexOK(memory)'
  <2>1. ASSUME NEW y \in SeqId, NEW z \in SeqId, y # z, memory'.tail[y] >= 0, memory'.tail[y] = memory'.tail[z]
        PROVE  memory'.rs_idx[y] = 0
    <3>1. ~(memory'.tail[y] < 0) /\ ~(memory'.tail[z] < 0)
      BY <1>0, <2>1, SizeIs
    <3>2. CASE y = d
      BY <1>2, <1>8, <3>2
    <3>3. CASE z = d
      <4>1. memory.tail[y] = memory.tail[s] /\ memory.tail[y] >= 0
        BY <1>7, <1>8, <2>1, <3>1, <3>3
      <4> QED
        BY <1>2, <1>8, <4>1 DEF SInv, IndexOK
    <3>4. CASE y # d /\ z # d
      BY <1>7, <1>8, <2>1, <3>4 DEF SInv, IndexOK
    <3> QED
      BY <3>2, <3>3, <3>4
  <2>2. ASSUME NEW y \in SeqId, memory'.tail[y] < 0 PROVE memory'.rs_idx[y] = 0
    BY <1>2, <1>7, <1>8, <2>2 DEF SInv, IndexOK
  <2> QED
    BY <2>1, <2>2 DEF IndexOK
<1>10. ASSUME NEW z \in SeqId \ (failed' \cup astray') PROVE StateHeld(memory', data', seen', at', z)
  <2>1. CASE z = d
    <3>1. StateHeld(memory, data, seen, at, s)
      BY <1>5, <2>1 DEF SInv, StatesOK
    <3> QED
      BY <1>1, <1>2, <1>7, <1>8, <2>1, <3>1 DEF StateHeld
  <2>2. CASE z # d
    <3>1. StateHeld(memory, data, seen, at, z)
      BY <1>5, <2>2 DEF SInv, StatesOK
    <3> QED
      BY <1>1, <1>7, <1>8, <2>2, <3>1 DEF StateHeld
  <2> QED
    BY <2>1, <2>2
<1>11. ASSUME NEW z \in SeqId \ (failed' \cup astray' \cup swept'), memory'.tail[z] >= 0, memory'.rs_idx[z] = 0
       PROVE  SnapshotsHeld(memory', data', seen', fresh', z)
  <2>1. CASE z = d
    <3>1. StateHeld(memory', data', seen', at', z) /\ ~(memory'.tail[z] < 0)
      <4>1. memory'.tail[z] \in -1 .. Size - 1 /\ z \in SeqId \ (failed' \cup astray')
        BY <1>0, <1>11
      <4> QED
        BY <1>10, <1>11, <4>1, SizeIs
    <3>2. data'[0][memory'.tail[z]] = seen'[z] /\ seen'[z] \in Past
      BY <1>4, <1>11, <3>1 DEF StateHeld
    <3>3. \A r \in Group : r <= fresh'[z] => r = 0
      <4>1. fresh'[z] = 0 /\ setup.n_rs_seq \in Nat
        BY <1>1, <1>2, <2>1, SetupIs DEF RInv
      <4> QED
        BY <4>1 DEF Group
    <3> QED
      BY <1>1, <3>2, <3>3, PastIs DEF SnapshotsHeld
  <2>2. CASE z # d
    <3>0. z \in SeqId \ (failed \cup astray \cup swept)
      BY <1>1, <1>5, <1>11, <2>2
    <3>1. SnapshotsHeld(memory, data, seen, fresh, z)
      BY <1>1, <1>7, <1>8, <1>11, <2>2, <3>0, NonePending DEF SInv, SnapshotsOK
    <3> QED
      BY <1>1, <1>7, <2>2, <3>1 DEF SnapshotsHeld
  <2> QED
    BY <2>1, <2>2
<1>12. \A i \in Cell \ soiled' : Spare(memory', i) => data'[0][i] = <<>>
  BY <1>1, <1>3 DEF SInv, RowsAreZeroed, Doubled
<1> QED
  BY <1>1, <1>6, <1>9, <1>10, <1>11, <1>12, BetweenCalls DEF SInv

\* Loading a sequence that was saved without a cell removes it.
LEMMA LoadNothingTrue ==
    ASSUME RInv, SInv, NEW s \in SeqId, Load(s), saved.pos < 0
    PROVE  SInv'
<1>1. setup \in Setups /\ setup' = setup /\ ubatches = <<>> /\ called' \in Nat /\ ubatches' = <<>> /\ saved' = saved
  BY CallIs DEF Load, RInv, Call, SInv, TypesOK
<1>2. RInv'
  BY LoadStep
<1>3. memory' = RemovedAll(memory, s) /\ soiled' = soiled /\ data' = data
  BY DEF Load, SeqRm
<1>4. Shrunk(memory, memory', {s})
  BY <1>1, <1>3, SetupIs, RemovedAllShrinks DEF RInv
<1>5. saved.seen = <<>> /\ saved.pos = -1
  <2>1. saved # <<>>
    BY DEF Load
  <2>2. saved.pos \in -1 .. MaxPos
    BY <2>1 DEF RInv
  <2>3. saved.pos = -1
    BY <2>2, SizeIs
  <2> QED
    BY <2>1, <2>3 DEF SInv, SavedOK
<1>6. Forget({s})
  <2>1. /\ seen' = [seen EXCEPT ![s] = <<>>] /\ at' = [at EXCEPT ![s] = -1] /\ fresh' = [fresh EXCEPT ![s] = 0]
        /\ swept' = swept \ {s} /\ astray' = astray \ {s} /\ failed' = failed \ {s}
    BY <1>5 DEF Load
  <2>2. seen \in [SeqId -> Past] /\ at \in [SeqId -> -1 .. MaxPos] /\ fresh \in [SeqId -> Nat]
    BY DEF SInv, TypesOK, RInv
  <2> QED
    BY <2>1, <2>2 DEF Forget
<1> QED
  BY <1>1, <1>2, <1>3, <1>4, <1>6, ShrinkKeeps DEF RInv

\* The memory that a sequence is loaded into: s has a cell of its own, with position p.
HasLoaded(m, o, s, p) ==
    /\ o.head \in Cell /\ o.tail[s] = o.head /\ o.rs_idx[s] = 0 /\ o.cells[o.head].pos = p
    /\ \A z \in SeqId \ {s} : /\ o.tail[z] # o.head /\ o.rs_idx[z] = m.rs_idx[z]
                              /\ m.tail[z] < 0 => o.tail[z] < 0
                              /\ ~(m.tail[z] < 0) => /\ o.tail[z] = m.tail[z]
                                                     /\ o.cells[m.tail[z]].pos = m.cells[m.tail[z]].pos
    /\ \A i \in Cell : i # o.head /\ Spare(o, i) => Spare(m, i)

\* What state_read() makes of the memory with that cell
Loaded(n, s) == [n EXCEPT !.cells[n.head].src = n.head, !.rs_idx[s] = 0]

\* Finding a slot for one sequence that was removed moves no other sequence.
LEMMA OneIsLoaded ==
    ASSUME NEW m, Good(m), NEW s \in SeqId, setup.n_rs_seq \in Nat, NEW p \in 0 .. MaxPos,
           NEW n, n = FindSlot(SeqRm(m, s, 0), OneUbatch(s, p)).memory,
           NEW o, o = Loaded(n, s)
    PROVE  HasLoaded(m, o, s, p) /\ o.head = n.head
<1> DEFINE b == SeqRm(m, s, 0)
           u == OneUbatch(s, p)
           slot == FindSlot(b, u)
<1>1. Good(b) /\ Shrunk(m, b, {s})
  BY SeqRmIs, RemovedAllShrinks DEF SeqRm
<1>2. UbatchOK(u) /\ u.sets = <<{s}>> /\ u.last = <<p>>
  BY OneUbatchIs DEF OneUbatch
<1>3. DOMAIN u.sets = {1} /\ u.sets[1] = {s} /\ u.last[1] = p
  BY <1>2
<1>4. SeqsIn(u) = {s}
  BY <1>3 DEF SeqsIn
<1>5. n = slot.memory
  OBVIOUS
<1> HIDE DEF b, u
<1>6. SlotOK(b, u, slot) /\ slot.range = {slot.memory.head}
  BY <1>1, <1>2, <1>3, FindSlotIs DEF Good
<1> HIDE DEF slot
<1>7. Sound(n) /\ n \in Memories /\ n.head \in Cell /\ n.rs_idx = b.rs_idx /\ slot.range = {n.head}
  BY <1>5, <1>6 DEF SlotOK, Sound, Memories
<1>8. n.cells[n.head].src = n.head /\ n.cells[n.head].seq_id = {s} /\ n.cells[n.head].pos = p
  <2>1. 1 \in DOMAIN u.sets /\ n.head + 1 - 1 = n.head
    BY <1>3, <1>7 DEF Cell
  <2>2. n.cells[n.head + 1 - 1].seq_id = u.sets[1] /\ n.cells[n.head + 1 - 1].pos = u.last[1]
    BY <1>5, <1>6, <2>1 DEF SlotOK
  <2>3. \A i \in slot.range : n.cells[i].src = i
    BY <1>5, <1>6 DEF SlotOK
  <2> QED
    BY <1>3, <1>7, <2>1, <2>2, <2>3
<1>9. n.cells \in [Cell -> CellState] /\ n.cells[n.head] \in CellState
  BY <1>7 DEF Memories
<1>10. [n.cells EXCEPT ![n.head] = [n.cells[n.head] EXCEPT !.src = n.head]] = n.cells
  <2>1. [n.cells[n.head] EXCEPT !.src = n.head] = n.cells[n.head]
    BY <1>8, <1>9 DEF CellState
  <2> QED
    BY <1>7, <1>9, <2>1
<1>11. o = [n EXCEPT !.cells = n.cells, !.rs_idx = [n.rs_idx EXCEPT ![s] = 0]]
  BY <1>7, <1>10 DEF Memories, Loaded
<1>12. o.cells = n.cells /\ o.tail = n.tail /\ o.head = n.head /\ o.rs_idx = [n.rs_idx EXCEPT ![s] = 0]
  BY <1>7, <1>11 DEF Memories
<1>13. b.rs_idx \in [SeqId -> Group]
  BY <1>1 DEF Good
<1>14. o.rs_idx[s] = 0 /\ \A z \in SeqId \ {s} : o.rs_idx[z] = m.rs_idx[z]
  BY <1>1, <1>7, <1>12, <1>13 DEF Shrunk
<1>15. o.tail[s] = o.head
  BY <1>7, <1>8, <1>12 DEF Sound, Linked
<1>16. ASSUME NEW z \in SeqId \ {s}
       PROVE  /\ o.tail[z] # o.head
              /\ m.tail[z] < 0 => o.tail[z] < 0
              /\ ~(m.tail[z] < 0) => /\ o.tail[z] = m.tail[z]
                                     /\ o.cells[m.tail[z]].pos = m.cells[m.tail[z]].pos
  <2>1. n.tail[z] # n.head
    BY <1>7, <1>8 DEF Sound, Linked
  <2>2. b.tail[z] = m.tail[z] /\ (m.tail[z] >= 0 => b.cells[m.tail[z]].pos = m.cells[m.tail[z]].pos)
    BY <1>1 DEF Shrunk
  <2>3. /\ b.tail[z] < 0 => n.tail[z] < 0
        /\ b.tail[z] >= 0 => /\ n.tail[z] \in Cell
                             /\ n.cells[n.tail[z]].pos = b.cells[b.tail[z]].pos
                             /\ Follows(b, slot, z, n.tail[z])
    BY <1>4, <1>5, <1>6 DEF SlotOK
  <2>4. ASSUME ~(m.tail[z] < 0) PROVE n.tail[z] = m.tail[z] /\ n.cells[m.tail[z]].pos = m.cells[m.tail[z]].pos
    <3>1. m.tail[z] >= 0
      BY <2>4, TailIs
    <3>2. n.tail[z] \notin slot.range
      BY <1>7, <2>1
    <3> QED
      BY <2>2, <2>3, <3>1, <3>2 DEF Follows
  <2> QED
    BY <1>12, <2>1, <2>2, <2>3, <2>4
<1>17. ASSUME NEW i \in Cell, i # o.head, Spare(o, i) PROVE Spare(m, i)
  <2>1. i \in Cell \ slot.range /\ n.cells[i].seq_id = {} /\ n.cells[i].src = i
    BY <1>7, <1>12, <1>17 DEF Spare
  <2>2. Spare(b, i)
    BY <1>5, <1>6, <2>1 DEF SlotOK
  <2> QED
    BY <1>1, <2>2 DEF Shrunk
<1> QED
  BY <1>7, <1>8, <1>12, <1>14, <1>15, <1>16, <1>17 DEF HasLoaded

\* A sequence that is loaded has the state that was saved.
LEMMA LoadStateTrue ==
    ASSUME RInv, SInv, NEW s \in SeqId, Load(s), ~(saved.pos < 0)
    PROVE  SInv'
<1> DEFINE p == saved.pos
           n == FindSlot(SeqRm(memory, s, 0), OneUbatch(s, p)).memory
<1>1. /\ setup' = setup /\ ubatches = <<>> /\ ubatches' = <<>> /\ called' \in Nat /\ saved' = saved /\ setup.n_rs_seq \in Nat
      /\ Group' = Group
  <2>1. Call("save") /\ ubatches' = ubatches /\ saved' = saved
    BY DEF Load
  <2>2. setup' = setup /\ ubatches = <<>> /\ called' \in Nat
    BY <2>1 DEF Call, SInv, TypesOK
  <2>3. setup.n_rs_seq \in Nat /\ Group' = Group
    BY <2>2, SetupIs DEF RInv, Group
  <2> QED
    BY <2>1, <2>2, <2>3
<1>2. saved # <<>> /\ p \in 0 .. MaxPos /\ saved.seen \in Past /\ saved.row = saved.seen
  <2>1. saved # <<>>
    BY DEF Load
  <2>2. p \in -1 .. MaxPos
    BY <2>1 DEF RInv
  <2>3. p \in 0 .. MaxPos /\ p >= 0
    BY <2>2, SizeIs
  <2> QED
    BY <2>1, <2>3 DEF SInv, SavedOK
<1>3. /\ memory' = [n EXCEPT !.cells[n.head].src = n.head, !.rs_idx[s] = 0]
      /\ data' = [data EXCEPT ![0][n.head] = saved.row] /\ soiled' = soiled \ {n.head}
      /\ seen' = [seen EXCEPT ![s] = saved.seen] /\ at' = [at EXCEPT ![s] = p] /\ fresh' = [fresh EXCEPT ![s] = 0]
      /\ swept' = swept \ {s} /\ astray' = astray \ {s} /\ failed' = failed \ {s}
  BY DEF Load, OneUbatch
<1>14. n = FindSlot(SeqRm(memory, s, 0), OneUbatch(s, p)).memory /\ Good(memory)
  BY DEF RInv
<1> HIDE DEF n, p
<1>4. HasLoaded(memory, memory', s, p) /\ memory'.head = n.head
  <2>1. memory' = Loaded(n, s)
    BY <1>3 DEF Loaded
  <2>2. setup.n_rs_seq \in Nat /\ p \in 0 .. MaxPos
    BY <1>1, <1>2
  <2> QED
    BY <1>14, <2>1, <2>2, OneIsLoaded
<1>15. Linked(memory') /\ \A z \in SeqId : memory'.tail[z] \in -1 .. Size - 1
  <2>1. Good(memory)'
    BY LoadStep DEF RInv
  <2>2. memory' \in Memories /\ Linked(memory')
    BY <2>1 DEF Good, Sound, Memories, CellState, SeqId, Cell, Linked
  <2> QED
    BY <2>2, CellTypes
<1>5. /\ seen \in [SeqId -> Past] /\ at \in [SeqId -> -1 .. MaxPos] /\ fresh \in [SeqId -> Nat] /\ data \in [Group -> [Cell -> Past]]
      /\ n.head \in Cell /\ 0 \in Group
  BY <1>1, <1>4, GroupIs DEF RInv, SInv, TypesOK, HasLoaded
<1>6. data' \in [Group -> [Cell -> Past]] /\ data'[0][n.head] = saved.row
      /\ \A g \in Group, i \in Cell : i # n.head => data'[g][i] = data[g][i]
  <2> DEFINE row == [data[0] EXCEPT ![n.head] = saved.row]
  <2>1. row \in [Cell -> Past] /\ row[n.head] = saved.row /\ \A i \in Cell : i # n.head => row[i] = data[0][i]
    BY <1>2, <1>5
  <2>2. data' = [data EXCEPT ![0] = row]
    BY <1>3, <1>5
  <2> HIDE DEF row
  <2>3. data' \in [Group -> [Cell -> Past]] /\ data'[0] = row /\ \A g \in Group : g # 0 => data'[g] = data[g]
    BY <1>5, <2>1, <2>2
  <2> QED
    BY <2>1, <2>3
<1>7. TypesOK'
  <2>1. seen' \in [SeqId -> Past]
    BY <1>2, <1>3, <1>5
  <2> QED
    BY <1>1, <1>6, <2>1 DEF TypesOK
<1>8. seen'[s] = saved.seen /\ at'[s] = p /\ fresh'[s] = 0
      /\ memory'.tail[s] = n.head /\ memory'.rs_idx[s] = 0 /\ memory'.cells[n.head].pos = p
  BY <1>3, <1>4, <1>5 DEF HasLoaded
<1>9. ASSUME NEW z \in SeqId, z # s
      PROVE  /\ seen'[z] = seen[z] /\ at'[z] = at[z] /\ fresh'[z] = fresh[z]
             /\ memory'.tail[z] # n.head /\ memory'.rs_idx[z] = memory.rs_idx[z]
             /\ memory.tail[z] < 0 => memory'.tail[z] < 0
             /\ ~(memory.tail[z] < 0) => /\ memory'.tail[z] = memory.tail[z] /\ memory.tail[z] \in Cell
                                         /\ memory'.cells[memory.tail[z]].pos = memory.cells[memory.tail[z]].pos
  <2>1. seen'[z] = seen[z] /\ at'[z] = at[z] /\ fresh'[z] = fresh[z]
    BY <1>3, <1>5, <1>9
  <2> QED
    BY <1>4, <1>9, <2>1, TailIs DEF HasLoaded, RInv
<1>10. IndexOK(memory)'
  <2>1. ASSUME NEW y \in SeqId, NEW z \in SeqId, y # z, memory'.tail[y] >= 0, memory'.tail[y] = memory'.tail[z]
        PROVE  memory'.rs_idx[y] = 0
    <3>1. CASE y = s
      BY <1>8, <3>1
    <3>2. CASE y # s
      <4>1. z # s
        BY <1>8, <1>9, <2>1, <3>2
      <4>2. \A x \in SeqId : x # s => memory.tail[x] = memory'.tail[x] \/ (memory.tail[x] < 0 /\ memory'.tail[x] < 0)
        BY <1>9
      <4>3. memory'.tail[y] \in -1 .. Size - 1
        BY <1>15
      <4>4. memory.tail[y] = memory'.tail[y] /\ memory.tail[z] = memory'.tail[z]
        BY <2>1, <3>2, <4>1, <4>2, <4>3, SizeIs
      <4> QED
        BY <1>9, <2>1, <3>2, <4>4 DEF SInv, IndexOK
    <3> QED
      BY <3>1, <3>2
  <2>2. ASSUME NEW y \in SeqId, memory'.tail[y] < 0 PROVE memory'.rs_idx[y] = 0
    BY <1>8, <1>9, <2>2 DEF SInv, IndexOK
  <2> QED
    BY <2>1, <2>2 DEF IndexOK
<1>11. ASSUME NEW z \in SeqId \ (failed' \cup astray') PROVE StateHeld(memory', data', seen', at', z)
  <2>1. CASE z = s
    <3>1. ~(n.head < 0)
      BY <1>5, SizeIs DEF Cell
    <3> QED
      BY <1>2, <1>6, <1>8, <2>1, <3>1 DEF StateHeld
  <2>2. CASE z # s
    <3>1. StateHeld(memory, data, seen, at, z)
      BY <1>3, <1>11, <2>2 DEF SInv, StatesOK
    <3>2. memory.rs_idx[z] \in Group
      BY DEF RInv, Good
    <3> QED
      BY <1>6, <1>9, <2>2, <3>1, <3>2 DEF StateHeld
  <2> QED
    BY <2>1, <2>2
<1>12. ASSUME NEW z \in SeqId \ (failed' \cup astray' \cup swept'), memory'.tail[z] >= 0, memory'.rs_idx[z] = 0
       PROVE  SnapshotsHeld(memory', data', seen', fresh', z)
  <2>1. CASE z = s
    <3>1. \A r \in Group : r <= fresh'[z] => r = 0
      BY <1>1, <1>8, <2>1 DEF Group
    <3> QED
      BY <1>1, <1>2, <1>6, <1>8, <2>1, <3>1, PastIs DEF SnapshotsHeld
  <2>2. CASE z # s
    <3>1. z \in SeqId \ (failed \cup astray \cup swept)
      BY <1>3, <1>12, <2>2
    <3>2. ~(memory.tail[z] < 0)
      <4>1. memory'.tail[z] \in -1 .. Size - 1
        BY <1>15
      <4> QED
        BY <1>9, <1>12, <2>2, <4>1, SizeIs
    <3>3. memory.tail[z] >= 0
      BY <3>2, TailIs DEF RInv
    <3>4. SnapshotsHeld(memory, data, seen, fresh, z)
      BY <1>1, <1>9, <1>12, <2>2, <3>1, <3>3, NonePending DEF SInv, SnapshotsOK
    <3> QED
      BY <1>1, <1>6, <1>9, <2>2, <3>2, <3>4 DEF SnapshotsHeld
  <2> QED
    BY <2>1, <2>2
<1>13. ASSUME NEW i \in Cell \ soiled', Spare(memory', i) PROVE data'[0][i] = <<>>
  <2>1. i # n.head
    BY <1>5, <1>8, <1>13, <1>15 DEF Spare, Linked
  <2> QED
    BY <1>3, <1>4, <1>5, <1>6, <1>13, <2>1 DEF SInv, RowsAreZeroed, HasLoaded
<1> QED
  BY <1>1, <1>7, <1>10, <1>11, <1>12, <1>13, BetweenCalls DEF SInv

\* With rollbacks, a token has one sequence.
Single(u) == setup.n_rs_seq > 0 => \A k \in DOMAIN u.sets : \E s \in SeqId : u.sets[k] = {s}

\* Where a sequence is that is not in the ubatch: it is where it was, or its state is copied.
Elsewhere(m, u, slot, z) ==
    LET n == slot.memory
        x == IndexTaken(n, slot.range)
        i == n.tail[z]
    IN /\ i \in Cell /\ z \in n.cells[i].seq_id /\ n.cells[i].pos = m.cells[m.tail[z]].pos
       /\ i - n.head + 1 \notin DOMAIN u.sets
       /\ i \in slot.range => /\ slot.src0[i] = m.tail[z] /\ slot.src0[i] # slot.rs_z
                              /\ GroupOf(n, i) = m.rs_idx[z] /\ x.rs_idx[z] = 0
       /\ i \notin slot.range => i = m.tail[z] /\ x.rs_idx[z] = m.rs_idx[z]
       /\ m.rs_idx[z] = 0 => x.rs_idx[z] = 0

\* The least sequence of a cell in use is in it.
LEMMA LeastIs ==
    ASSUME NEW n \in Memories, NEW i \in Cell, n.cells[i].seq_id # {}
    PROVE  Min(n.cells[i].seq_id) \in n.cells[i].seq_id /\ Min(n.cells[i].seq_id) \in SeqId
<1>1. n.cells[i].seq_id \in SUBSET SeqId
  BY CellTypes
<1>2. n.cells[i].seq_id \in SUBSET Nat
  BY <1>1 DEF SeqId
<1> QED
  BY <1>1, <1>2, MinIsLeast

\* A sequence that is in the cell of one that is not in the ubatch is not in it either.
LEMMA MatesAreElsewhere ==
    ASSUME NEW m, NEW u, NEW slot, SlotOK(m, u, slot), NEW z \in SeqId \ SeqsIn(u), NEW i \in Cell,
           z \in slot.memory.cells[i].seq_id
    PROVE  /\ \A k \in DOMAIN u.sets : slot.memory.head + k - 1 # i
           /\ i - slot.memory.head + 1 \notin DOMAIN u.sets
           /\ \A y \in slot.memory.cells[i].seq_id : y \in SeqId => y \notin SeqsIn(u)
<1> DEFINE n == slot.memory
<1>1. Sound(n) /\ n.head \in Cell
  BY DEF SlotOK, Sound, Memories
<1>2. ASSUME NEW k \in DOMAIN u.sets PROVE n.head + k - 1 # i
  <2>1. n.cells[n.head + k - 1].seq_id = u.sets[k]
    BY DEF SlotOK
  <2>2. z \notin u.sets[k]
    BY DEF SeqsIn
  <2> QED
    BY <2>1, <2>2
<1>3. ASSUME i - n.head + 1 \in DOMAIN u.sets PROVE FALSE
  <2>1. n.head + (i - n.head + 1) - 1 = i
    BY <1>1 DEF Cell
  <2> QED
    BY <1>2, <1>3, <2>1
<1>4. ASSUME NEW y \in SeqId, y \in n.cells[i].seq_id, y \in SeqsIn(u) PROVE FALSE
  <2>1. PICK k \in DOMAIN u.sets : y \in u.sets[k]
    BY <1>4 DEF SeqsIn
  <2>2. n.head + k - 1 \in Cell /\ y \in n.cells[n.head + k - 1].seq_id
    BY <2>1 DEF SlotOK
  <2>3. n.tail[y] = n.head + k - 1 /\ n.tail[y] = i
    BY <1>1, <1>4, <2>2 DEF Sound, Linked
  <2> QED
    BY <1>2, <2>3
<1> QED
  BY <1>2, <1>3, <1>4

\* A sequence that is not in the ubatch is where find_slot has put it.
LEMMA ElsewhereIs ==
    ASSUME NEW m, Good(m), IndexOK(m), NEW u, UbatchOK(u), NEW slot, SlotOK(m, u, slot), setup.n_rs_seq \in Nat,
           NEW z \in SeqId \ SeqsIn(u), ~(m.tail[z] < 0)
    PROVE  Elsewhere(m, u, slot, z)
<1> DEFINE n == slot.memory
           x == IndexTaken(n, slot.range)
           i == n.tail[z]
<1>1. Sound(n) /\ n \in Memories /\ n.rs_idx = m.rs_idx /\ slot.range \in SUBSET Cell
  BY DEF SlotOK, Sound
<1>2. /\ i \in Cell /\ n.cells[i].pos = m.cells[m.tail[z]].pos /\ Follows(m, slot, z, i)
  <2>1. m.tail[z] >= 0
    BY TailIs
  <2> QED
    BY <2>1 DEF SlotOK
<1>3. z \in n.cells[i].seq_id
  BY <1>1, <1>2 DEF Sound, Linked
<1>4. i - n.head + 1 \notin DOMAIN u.sets /\ \A y \in n.cells[i].seq_id : y \in SeqId => y \notin SeqsIn(u)
  BY <1>2, <1>3, MatesAreElsewhere
<1>5. \A s \in SeqId : x.rs_idx[s] = IF \E j \in slot.range : n.cells[j].seq_id # {} /\ s = Min(n.cells[j].seq_id)
                                     THEN 0 ELSE n.rs_idx[s]
  <2>1. Good(n)
    BY <1>1 DEF SlotOK, Good
  <2> QED
    BY <2>1, IndexTakenIs
<1> HIDE DEF n, x
<1>6. CASE i \in slot.range
  <2> DEFINE y == Min(n.cells[i].seq_id)
  <2>1. y \in n.cells[i].seq_id /\ y \in SeqId /\ GroupOf(n, i) = n.rs_idx[y]
    BY <1>1, <1>2, <1>3, LeastIs DEF GroupOf
  <2>2. slot.src0[i] = m.tail[z] /\ slot.src0[i] # slot.rs_z
    BY <1>2, <1>6 DEF Follows
  <2>3. x.rs_idx[y] = 0
    BY <1>3, <1>5, <1>6, <2>1
  <2>4. CASE y = z
    BY <1>1, <1>2, <1>3, <1>4, <1>6, <2>1, <2>2, <2>3, <2>4 DEF Elsewhere, n, x
  <2>5. CASE y # z
    <3> HIDE DEF y
    <3>1. n.tail[y] = i /\ y \notin SeqsIn(u) /\ i >= 0
      BY <1>1, <1>2, <1>4, <2>1 DEF Sound, Linked, Cell
    <3>2. ~(m.tail[y] < 0)
      <4> SUFFICES ASSUME m.tail[y] < 0 PROVE FALSE
        OBVIOUS
      <4>1. n.tail[y] < 0
        BY <2>1, <3>1 DEF SlotOK, n
      <4> QED
        BY <1>2, <3>1, <4>1 DEF Cell
    <3>3. m.tail[y] >= 0
      BY <2>1, <3>2, TailIs
    <3>4. Follows(m, slot, y, i)
      BY <2>1, <3>1, <3>3 DEF SlotOK, n
    <3>5. m.tail[y] = m.tail[z]
      BY <1>6, <2>2, <3>4 DEF Follows
    <3>6. m.rs_idx[y] = 0 /\ m.rs_idx[z] = 0
      BY <2>1, <2>5, <3>3, <3>5 DEF IndexOK
    <3>7. x.rs_idx[z] = 0
      BY <1>1, <1>5, <3>6
    <3> QED
      BY <1>1, <1>2, <1>3, <1>4, <1>6, <2>1, <2>2, <3>6, <3>7 DEF Elsewhere, n, x
  <2> QED
    BY <2>4, <2>5
<1>7. CASE i \notin slot.range
  <2>1. i = m.tail[z]
    BY <1>2, <1>7 DEF Follows
  <2>2. \A j \in slot.range : n.cells[j].seq_id # {} => z # Min(n.cells[j].seq_id)
    <3> SUFFICES ASSUME NEW j \in slot.range, n.cells[j].seq_id # {}, z = Min(n.cells[j].seq_id) PROVE FALSE
      OBVIOUS
    <3>1. j \in Cell /\ z \in n.cells[j].seq_id
      BY <1>1, LeastIs
    <3> QED
      BY <1>1, <1>7, <3>1 DEF Sound, Linked
  <2>3. x.rs_idx[z] = m.rs_idx[z]
    BY <1>1, <1>5, <2>2
  <2> QED
    BY <1>2, <1>3, <1>4, <1>7, <2>1, <2>3 DEF Elsewhere, n, x
<1> QED
  BY <1>6, <1>7

\* Where a sequence of the k-th set of the ubatch is: in the k-th cell, and its rollback is taken.
Inside(m, u, slot, k, s) ==
    LET n == slot.memory
        i == n.head + k - 1
    IN /\ i \in slot.range /\ i - n.head + 1 = k /\ n.tail[s] = i /\ n.cells[i].pos = u.last[k]
       /\ IndexTaken(n, slot.range).rs_idx[s] = 0
       /\ GroupOf(n, i) = m.rs_idx[FirstsOf(u)[k]] /\ FirstOf(u, s) = FirstsOf(u)[k]

\* find_slot puts it there.
LEMMA WithinIs ==
    ASSUME NEW m, Good(m), NEW u, UbatchOK(u), NEW slot, SlotOK(m, u, slot), setup.n_rs_seq \in Nat, Single(u),
           NEW k \in DOMAIN u.sets, NEW s \in u.sets[k]
    PROVE  Inside(m, u, slot, k, s)
<1> DEFINE n == slot.memory
           x == IndexTaken(n, slot.range)
           i == n.head + k - 1
           l == FirstsOf(u)[k]
<1>1. /\ Sound(n) /\ n \in Memories /\ n.rs_idx = m.rs_idx /\ slot.range \in SUBSET Cell /\ n.head \in Cell
      /\ i \in slot.range /\ n.cells[i].seq_id = u.sets[k] /\ n.cells[i].pos = u.last[k]
  BY DEF SlotOK, Sound, Memories
<1>2. s \in SeqId /\ k \in Nat /\ u.sets[k] # {} /\ u.sets[k] \in SUBSET SeqId /\ l \in u.sets[k]
  BY UbatchFirsts
<1>3. n.tail[s] = i /\ i \in Cell /\ i - n.head + 1 = k
  <2>1. i - n.head + 1 = k
    BY <1>1, <1>2 DEF Cell
  <2> QED
    BY <1>1, <1>2, <2>1 DEF Sound, Linked
<1>4. l = Min(n.cells[i].seq_id)
  BY <1>1 DEF FirstsOf, FirstId
<1>5. GroupOf(n, i) = m.rs_idx[l]
  BY <1>1, <1>2, <1>4 DEF GroupOf
<1>6. FirstOf(u, s) = l
  <2>1. \A j \in DOMAIN u.sets : s \in u.sets[j] => j = k
    BY DEF UbatchOK
  <2>2. (CHOOSE j \in DOMAIN u.sets : s \in u.sets[j]) = k
    BY <2>1
  <2>3. FirstOf(u, s) = FirstId(u.sets[k])
    BY <2>2 DEF FirstOf
  <2> QED
    BY <2>3 DEF FirstsOf
<1>7. \A z \in SeqId : x.rs_idx[z] = IF \E j \in slot.range : n.cells[j].seq_id # {} /\ z = Min(n.cells[j].seq_id)
                                     THEN 0 ELSE n.rs_idx[z]
  <2>1. Good(n)
    BY <1>1 DEF SlotOK, Good
  <2> QED
    BY <2>1, IndexTakenIs
<1> HIDE DEF x
<1>8. x.rs_idx[s] = 0
  <2>1. CASE setup.n_rs_seq = 0
    <3>1. m.rs_idx[s] = 0
      BY <1>2, <2>1 DEF Good, Group
    <3> QED
      BY <1>1, <1>2, <1>7, <3>1
  <2>2. CASE setup.n_rs_seq # 0
    <3>1. s = l
      <4>1. setup.n_rs_seq > 0
        BY <2>2
      <4>2. PICK y \in SeqId : u.sets[k] = {y}
        BY <4>1 DEF Single
      <4> QED
        BY <1>2, <4>2
    <3>2. n.cells[i].seq_id # {} /\ s = Min(n.cells[i].seq_id) /\ i \in slot.range
      BY <1>1, <1>2, <1>4, <3>1
    <3> HIDE DEF i, n, l
    <3> QED
      BY <1>2, <1>7, <3>2
  <2> QED
    BY <2>1, <2>2
<1> QED
  BY <1>1, <1>3, <1>5, <1>6, <1>8 DEF Inside, x

\* Taking the rollbacks keeps apart those that share a cell from those that were rolled back.
LEMMA IndexStaysOK ==
    ASSUME NEW m, Good(m), IndexOK(m), NEW u, UbatchOK(u), NEW slot, SlotOK(m, u, slot), setup.n_rs_seq \in Nat, Single(u)
    PROVE  IndexOK(IndexTaken(slot.memory, slot.range))
<1> DEFINE n == slot.memory
           x == IndexTaken(n, slot.range)
<1>1. Sound(n) /\ n \in Memories /\ Good(n) /\ n.rs_idx = m.rs_idx /\ x.tail = n.tail /\ x.cells = n.cells
  <2>1. Sound(n) /\ n \in Memories /\ Good(n) /\ n.rs_idx = m.rs_idx
    BY DEF SlotOK, Sound, Good
  <2> QED
    BY <2>1, IndexTakenIs
<1>2. \A z \in SeqId : x.rs_idx[z] = IF \E j \in slot.range : n.cells[j].seq_id # {} /\ z = Min(n.cells[j].seq_id)
                                     THEN 0 ELSE m.rs_idx[z]
  BY <1>1, IndexTakenIs
<1>3. ASSUME NEW s \in SeqsIn(u) PROVE x.rs_idx[s] = 0 /\ n.tail[s] \in Cell /\ s \in SeqId
  <2>1. PICK k \in DOMAIN u.sets : s \in u.sets[k]
    BY DEF SeqsIn
  <2>2. Inside(m, u, slot, k, s) /\ s \in SeqId
    BY <2>1, WithinIs, UbatchFirsts
  <2> QED
    BY <2>2 DEF Inside, SlotOK
<1>4. ASSUME NEW s \in SeqId, n.tail[s] < 0 PROVE x.rs_idx[s] = 0
  <2>1. s \notin SeqsIn(u)
    BY <1>3, <1>4 DEF Cell
  <2>2. m.tail[s] < 0
    <3> SUFFICES ASSUME ~(m.tail[s] < 0) PROVE FALSE
      OBVIOUS
    <3>1. Elsewhere(m, u, slot, s)
      BY <2>1, ElsewhereIs
    <3> QED
      BY <1>4, <3>1 DEF Elsewhere, Cell
  <2>3. m.rs_idx[s] = 0
    BY <2>2 DEF IndexOK
  <2> HIDE DEF x, n
  <2> QED
    BY <1>2, <2>3
<1>5. ASSUME NEW s \in SeqId, NEW z \in SeqId, s # z, n.tail[s] >= 0, n.tail[s] = n.tail[z] PROVE x.rs_idx[s] = 0
  <2>1. CASE s \in SeqsIn(u)
    BY <1>3, <2>1
  <2>2. CASE s \notin SeqsIn(u)
    <3>1. n.tail[s] \in Cell
      BY <1>1, <1>5, CellTypes
    <3>2. s \in n.cells[n.tail[s]].seq_id /\ z \in n.cells[n.tail[s]].seq_id
      BY <1>1, <1>5, <3>1 DEF Sound, Linked
    <3>3. z \notin SeqsIn(u)
      BY <2>2, <3>1, <3>2, MatesAreElsewhere
    <3>4. ~(m.tail[s] < 0) /\ ~(m.tail[z] < 0)
      <4>1. ASSUME NEW y \in SeqId \ SeqsIn(u), n.tail[y] = n.tail[s] PROVE ~(m.tail[y] < 0)
        <5> SUFFICES ASSUME m.tail[y] < 0 PROVE FALSE
          OBVIOUS
        <5>1. n.tail[y] < 0
          BY DEF SlotOK
        <5> QED
          BY <3>1, <4>1, <5>1 DEF Cell
      <4> QED
        BY <1>5, <2>2, <3>3, <4>1
    <3>5. Elsewhere(m, u, slot, s) /\ Elsewhere(m, u, slot, z)
      BY <2>2, <3>3, <3>4, ElsewhereIs
    <3>6. m.tail[s] = m.tail[z]
      BY <1>5, <3>5 DEF Elsewhere
    <3>7. m.tail[s] >= 0
      BY <3>4, TailIs
    <3>8. m.rs_idx[s] = 0
      BY <1>5, <3>6, <3>7 DEF IndexOK
    <3> QED
      BY <3>5, <3>8 DEF Elsewhere
  <2> QED
    BY <2>1, <2>2
<1> HIDE DEF x, n
<1>6. IndexOK(x)
  BY <1>1, <1>4, <1>5 DEF IndexOK
<1> QED
  BY <1>6 DEF x, n

\* An empty cell after find_slot: it was spare, or it is in the range and starts empty.
LEMMA SpareAfterwards ==
    ASSUME NEW m, NEW u, UbatchOK(u), NEW slot, SlotOK(m, u, slot), NEW i \in Cell, Spare(slot.memory, i)
    PROVE  /\ i \notin slot.range => Spare(m, i)
           /\ i \in slot.range => StartsEmpty(m, slot, i)
           /\ i - slot.memory.head + 1 \notin DOMAIN u.sets /\ GroupOf(slot.memory, i) = 0
<1> DEFINE n == slot.memory
<1>1. n.cells[i].seq_id = {} /\ n.cells[i].src = i
  BY DEF Spare
<1>2. ASSUME i - n.head + 1 \in DOMAIN u.sets PROVE FALSE
  <2>1. n.head \in Cell
    BY DEF SlotOK, Sound, Memories
  <2>2. n.head + (i - n.head + 1) - 1 = i
    BY <2>1 DEF Cell
  <2>3. n.cells[i].seq_id = u.sets[i - n.head + 1]
    BY <1>2, <2>2 DEF SlotOK
  <2> QED
    BY <1>1, <1>2, <2>3, UbatchFirsts
<1>3. i \notin slot.range => Spare(m, i)
  BY <1>1 DEF SlotOK
<1>4. i \in slot.range => StartsEmpty(m, slot, i)
  BY <1>1 DEF SlotOK
<1>5. GroupOf(n, i) = 0
  BY <1>1 DEF GroupOf
<1> QED
  BY <1>2, <1>3, <1>4, <1>5

-----------------------------------------------------------------------------
(* A ubatch: what the graph finds and what it leaves                       *)

\* The data after the row that is to be zeroed has been
Rinsed(d, slot) == IF slot.rs_z \in Cell THEN [d EXCEPT ![0][slot.rs_z] = <<>>] ELSE d

\* Only that row changes.
LEMMA RinsedIs ==
    ASSUME setup.n_rs_seq \in Nat, NEW d \in [Group -> [Cell -> Past]], NEW slot, slot.rs_z \in Cell \cup {Size}
    PROVE  /\ Rinsed(d, slot) \in [Group -> [Cell -> Past]]
           /\ \A g \in Group : \A i \in Cell : i # slot.rs_z => Rinsed(d, slot)[g][i] = d[g][i]
           /\ slot.rs_z # Size => slot.rs_z \in Cell /\ Rinsed(d, slot)[0][slot.rs_z] = <<>>
<1>1. 0 \in Group /\ Size \notin Cell
  BY GroupIs, SizeIs DEF Cell
<1>2. <<>> \in Past
  BY PastIs
<1> QED
  BY <1>1, <1>2 DEF Rinsed

\* What the graph of a ubatch leaves in a row
ComputedCell(d, slot, u, toks, g, i) ==
    LET zeroed == Rinsed(d, slot)
        Found == zeroed[GroupOf(slot.memory, i)][slot.src0[i]]
        k == i - slot.memory.head + 1
    IN /\ i \notin slot.range => Computed(slot, u, toks)[g][i] = zeroed[g][i]
       /\ i \in slot.range /\ k \in DOMAIN u.sets /\ g < u.k =>
              Computed(slot, u, toks)[g][i] = Found \o SubSeq(toks[k], 1, u.k - g)
       /\ i \in slot.range /\ k \in DOMAIN u.sets /\ ~(g < u.k) => Computed(slot, u, toks)[g][i] = zeroed[g][i]
       /\ i \in slot.range /\ k \notin DOMAIN u.sets =>
              Computed(slot, u, toks)[g][i] = IF g = 0 THEN Found ELSE zeroed[g][i]

\* The graph computes each of the cells.
LEMMA ComputedIs ==
    ASSUME NEW slot, NEW u, NEW toks
    PROVE  /\ Computed(slot, u, toks) = [g \in Group |-> [i \in Cell |-> Computed(slot, u, toks)[g][i]]]
           /\ \A g \in Group : \A i \in Cell : ComputedCell(data, slot, u, toks, g, i)
<1> DEFINE zeroed == Rinsed(data, slot)
           Found(i) == zeroed[GroupOf(slot.memory, i)][slot.src0[i]]
           Nth(i) == i - slot.memory.head + 1
           Row(g, i) == IF i \notin slot.range THEN zeroed[g][i]
                        ELSE IF Nth(i) \in DOMAIN u.sets
                             THEN IF g < u.k THEN Found(i) \o SubSeq(toks[Nth(i)], 1, u.k - g) ELSE zeroed[g][i]
                             ELSE IF g = 0 THEN Found(i) ELSE zeroed[g][i]
           c == Computed(slot, u, toks)
<1>1. c = [g \in Group |-> [i \in Cell |-> Row(g, i)]]
  BY DEF Computed, Rinsed
<1> HIDE DEF c
<1>2. ASSUME NEW g \in Group, NEW i \in Cell PROVE c[g][i] = Row(g, i)
  <2> HIDE DEF Row
  <2> QED
    BY <1>1
<1>3. c = [g \in Group |-> [i \in Cell |-> c[g][i]]]
  <2> HIDE DEF Row
  <2> QED
    BY <1>1
<1>4. ASSUME NEW g \in Group, NEW i \in Cell PROVE ComputedCell(data, slot, u, toks, g, i)
  <2>1. c[g][i] = Row(g, i)
    BY <1>2
  <2> HIDE DEF zeroed
  <2> QED
    BY <2>1 DEF ComputedCell, c, zeroed
<1> QED
  BY <1>3, <1>4 DEF c

\* The state that a cell of the range is computed from is in a row and a group of the memory.
LEMMA SourceIs ==
    ASSUME NEW m, Good(m), NEW u, UbatchOK(u), NEW slot, SlotOK(m, u, slot), setup.n_rs_seq \in Nat, NEW i \in slot.range
    PROVE  slot.src0[i] \in Cell /\ GroupOf(slot.memory, i) \in Group
<1> DEFINE n == slot.memory
<1>1. /\ Sound(n) /\ n \in Memories /\ n.rs_idx = m.rs_idx /\ slot.range \in SUBSET Cell /\ i \in Cell
      /\ m \in Memories /\ n.head \in Cell
  BY DEF SlotOK, Sound, Good, Memories
<1>2. GroupOf(n, i) \in Group
  <2>1. CASE n.cells[i].seq_id = {}
    BY <2>1, GroupIs DEF GroupOf
  <2>2. CASE n.cells[i].seq_id # {}
    <3>1. Min(n.cells[i].seq_id) \in SeqId
      BY <1>1, <2>2, LeastIs
    <3> QED
      BY <1>1, <2>2, <3>1 DEF GroupOf, Good
  <2> QED
    BY <2>1, <2>2
<1>3. StartsEmpty(m, slot, i) => slot.src0[i] \in Cell
  BY <1>1 DEF StartsEmpty, Spare
<1>4. ASSUME NEW s \in SeqId, m.tail[s] >= 0, Follows(m, slot, s, i) PROVE slot.src0[i] \in Cell
  <2>1. m.tail[s] \in Cell
    BY <1>1, <1>4, CellTypes
  <2> QED
    BY <1>4, <2>1 DEF Follows
<1>5. ASSUME NEW s \in SeqId, s \in n.cells[i].seq_id PROVE slot.src0[i] \in Cell
  <2>1. n.tail[s] = i
    BY <1>1, <1>5 DEF Sound, Linked
  <2>2. CASE s \notin SeqsIn(u)
    <3>1. ~(m.tail[s] < 0)
      <4> SUFFICES ASSUME m.tail[s] < 0 PROVE FALSE
        OBVIOUS
      <4>1. n.tail[s] < 0
        BY <2>2 DEF SlotOK
      <4> QED
        BY <1>1, <2>1, <4>1 DEF Cell
    <3>2. m.tail[s] >= 0
      BY <3>1, TailIs
    <3>3. Follows(m, slot, s, i)
      BY <2>1, <2>2, <3>2 DEF SlotOK
    <3> QED
      BY <1>4, <3>2, <3>3
  <2>3. CASE s \in SeqsIn(u)
    <3>1. PICK k \in DOMAIN u.sets : s \in u.sets[k]
      BY <2>3 DEF SeqsIn
    <3> DEFINE l == FirstsOf(u)[k]
    <3>2. l \in SeqId /\ n.head + k - 1 = i
      <4>1. n.head + k - 1 \in Cell /\ s \in n.cells[n.head + k - 1].seq_id
        BY <1>1, <3>1 DEF SlotOK
      <4>2. n.tail[s] = n.head + k - 1
        BY <1>1, <4>1 DEF Sound, Linked
      <4> QED
        BY <2>1, <4>2, UbatchFirsts
    <3>3. /\ m.tail[l] >= 0 => Follows(m, slot, l, i)
          /\ m.tail[l] < 0 => StartsEmpty(m, slot, i)
      BY <3>2 DEF SlotOK
    <3> HIDE DEF l
    <3>4. m.tail[l] >= 0 \/ m.tail[l] < 0
      BY <3>2, TailIs
    <3> QED
      BY <1>3, <1>4, <3>2, <3>3, <3>4
  <2> QED
    BY <2>2, <2>3
<1>6. CASE n.cells[i].seq_id = {}
  <2>1. StartsEmpty(m, slot, i)
    BY <1>6 DEF SlotOK
  <2> QED
    BY <1>2, <1>3, <2>1
<1>7. CASE n.cells[i].seq_id # {}
  <2>1. Min(n.cells[i].seq_id) \in n.cells[i].seq_id /\ Min(n.cells[i].seq_id) \in SeqId
    BY <1>1, <1>7, LeastIs
  <2> QED
    BY <1>2, <1>5, <2>1
<1> QED
  BY <1>6, <1>7

\* The tokens of sequence l in a ubatch with k for each
New(l, k) == [j \in 1 .. k |-> Token(l)]

\* A past goes on with them, and is cut among them.
LEMMA GrownIs ==
    ASSUME NEW q \in Past, NEW l \in SeqId, NEW k \in Nat \ {0}, called \in Nat
    PROVE  /\ q \o New(l, k) \in Past
           /\ \A r \in Nat : r < k => /\ Cut(q \o New(l, k), r) = q \o SubSeq(New(l, k), 1, k - r)
                                      /\ q \o SubSeq(New(l, k), 1, k - r) \in Past
<1> DEFINE T == SeqId \X Nat
           t == New(l, k)
<1>1. Token(l) \in T
  BY DEF Token
<1> HIDE DEF T
<1>2. q \in Seq(T) /\ t \in Seq(T) /\ Len(t) = k /\ Len(q) \in Nat
  <2>1. t \in Seq(T) /\ Len(t) = k
    BY <1>1 DEF New
  <2>2. q \in Seq(T)
    BY DEF Past, T
  <2> QED
    BY <2>1, <2>2
<1> HIDE DEF t
<1>3. ASSUME NEW r \in Nat, r < k PROVE Cut(q \o t, r) = q \o SubSeq(t, 1, k - r) /\ q \o SubSeq(t, 1, k - r) \in Seq(T)
  <2> DEFINE j == k - r
             h == SubSeq(t, 1, j)
             a == q \o t
  <2>1. j \in Nat /\ j <= k /\ j >= 1 /\ h \in Seq(T) /\ Len(h) = j /\ \A i \in 1 .. j : h[i] = t[i]
    BY <1>2, <1>3
  <2>2. a \in Seq(T) /\ Len(a) = Len(q) + k /\ \A i \in 1 .. Len(a) : a[i] = IF i <= Len(q) THEN q[i] ELSE t[i - Len(q)]
    BY <1>2
  <2> HIDE DEF h, a
  <2>3. Len(a) - r = Len(q) + j /\ Len(a) - r >= 1 /\ Len(a) - r <= Len(a)
    BY <1>2, <1>3, <2>1, <2>2
  <2> HIDE DEF j
  <2> DEFINE c == SubSeq(a, 1, Len(q) + j)
             e == q \o h
  <2>4. c \in Seq(T) /\ Len(c) = Len(q) + j /\ \A i \in 1 .. Len(q) + j : c[i] = a[i]
    BY <1>2, <2>1, <2>2, <2>3
  <2>5. e \in Seq(T) /\ Len(e) = Len(q) + j /\ \A i \in 1 .. Len(q) + j : e[i] = IF i <= Len(q) THEN q[i] ELSE h[i - Len(q)]
    BY <1>2, <2>1
  <2> HIDE DEF c, e
  <2>6. ASSUME NEW i \in 1 .. Len(q) + j PROVE c[i] = e[i]
    <3>1. i \in 1 .. Len(a) /\ c[i] = a[i] /\ a[i] = IF i <= Len(q) THEN q[i] ELSE t[i - Len(q)]
      BY <1>2, <2>1, <2>2, <2>3, <2>4
    <3>2. ~(i <= Len(q)) => i - Len(q) \in 1 .. j /\ h[i - Len(q)] = t[i - Len(q)]
      BY <1>2, <2>1
    <3>3. e[i] = IF i <= Len(q) THEN q[i] ELSE h[i - Len(q)]
      BY <2>5
    <3> QED
      BY <3>1, <3>2, <3>3
  <2>7. c = e
    BY <2>4, <2>5, <2>6
  <2>8. Cut(a, r) = c
    BY <2>3 DEF Cut, c
  <2> QED
    BY <2>5, <2>7, <2>8 DEF a, e, h, j
<1>4. q \o t \in Seq(T)
  BY <1>2
<1> QED
  BY <1>3, <1>4 DEF Past, T, t

\* The body of Evaluate, for a ubatch and the slot that find_slot returns
GraphComputed(u, slot) ==
    /\ memory' = IndexTaken(slot.memory, slot.range)
    /\ data' = Computed(slot, u, [k \in DOMAIN u.sets |-> [j \in 1 .. u.k |-> Token(FirstId(u.sets[k]))]])
    /\ seen' = [s \in SeqId |-> IF s \in SeqsIn(u)
                                THEN seen[FirstOf(u, s)] \o [j \in 1 .. u.k |-> Token(FirstOf(u, s))] ELSE seen[s]]
    /\ at' = [s \in SeqId |-> IF s \in SeqsIn(u) THEN PosOf(slot.memory, s) ELSE at[s]]
    /\ swept' = swept \cup {s \in SeqId \ SeqsIn(u) : slot.memory.tail[s] # memory.tail[s]}
    /\ LET foul == {i \in slot.range : slot.src0[i] \in soiled \ {slot.rs_z}}
       IN /\ failed' = Inherit(failed, u) \cup {s \in SeqsIn(u) : slot.memory.tail[s] \in foul}
          /\ soiled' = (soiled \ slot.range) \cup (foul \ InUse(slot.memory.cells))
    /\ astray' = Inherit(astray, u)

\* What it does to the memory and the rows, cell by cell
EvaluatedBy(u, slot) ==
    /\ setup.n_rs_seq \in Nat /\ Group' = Group /\ ubatches' = Tail(ubatches) /\ saved' = saved /\ fresh' = fresh /\ called' = called
    /\ Good(memory) /\ UbatchOK(u) /\ Single(u) /\ u.k \in Nat \ {0} /\ SlotOK(memory, u, slot)
    /\ memory'.tail = slot.memory.tail /\ memory'.cells = slot.memory.cells
    /\ memory'.rs_idx = IndexTaken(slot.memory, slot.range).rs_idx /\ IndexOK(memory')
    /\ data' = [g \in Group |-> [i \in Cell |-> data'[g][i]]]
    /\ \A g \in Group : \A i \in Cell : i \notin slot.range => data'[g][i] = Rinsed(data, slot)[g][i]
    /\ \A g \in Group : \A k \in DOMAIN u.sets : g < u.k =>
          data'[g][slot.memory.head + k - 1] =
              Rinsed(data, slot)[GroupOf(slot.memory, slot.memory.head + k - 1)][slot.src0[slot.memory.head + k - 1]]
                  \o SubSeq(New(FirstsOf(u)[k], u.k), 1, u.k - g)
    /\ \A g \in Group : \A i \in slot.range : i - slot.memory.head + 1 \in DOMAIN u.sets /\ ~(g < u.k) =>
          data'[g][i] = Rinsed(data, slot)[g][i]
    /\ \A g \in Group : \A i \in slot.range : i - slot.memory.head + 1 \notin DOMAIN u.sets =>
          data'[g][i] = IF g = 0 THEN Rinsed(data, slot)[GroupOf(slot.memory, i)][slot.src0[i]] ELSE Rinsed(data, slot)[g][i]
    /\ seen' = [s \in SeqId |-> IF s \in SeqsIn(u) THEN seen[FirstOf(u, s)] \o New(FirstOf(u, s), u.k) ELSE seen[s]]
    /\ at' = [s \in SeqId |-> IF s \in SeqsIn(u) THEN PosOf(slot.memory, s) ELSE at[s]]
    /\ swept' = swept \cup {s \in SeqId \ SeqsIn(u) : slot.memory.tail[s] # memory.tail[s]}
    /\ astray' = Inherit(astray, u)
    /\ failed' = Inherit(failed, u) \cup {s \in SeqsIn(u) : /\ slot.memory.tail[s] \in slot.range
                                                           /\ slot.src0[slot.memory.tail[s]] \in soiled \ {slot.rs_z}}
    /\ \A i \in slot.range : slot.memory.cells[i].seq_id = {} /\ slot.src0[i] \in soiled \ {slot.rs_z} => i \in soiled'
    /\ soiled \ slot.range \subseteq soiled'

\* A step of llama_decode whose graph is computed does this.
LEMMA EvaluateIs ==
    ASSUME RInv, SInv, Evaluate
    PROVE  \E u, slot : ubatches # <<>> /\ u = Head(ubatches) /\ EvaluatedBy(u, slot)
<1> DEFINE u == Head(ubatches)
           slot == FindSlot(memory, u)
           foul == {i \in slot.range : slot.src0[i] \in soiled \ {slot.rs_z}}
           toks == [k \in DOMAIN u.sets |-> [j \in 1 .. u.k |-> Token(FirstId(u.sets[k]))]]
           n == slot.memory
<1>1. /\ setup' = setup /\ saved' = saved /\ fresh' = fresh /\ called' = called /\ ubatches' = Tail(ubatches) /\ ubatches # <<>>
      /\ memory' = IndexTaken(n, slot.range) /\ data' = Computed(slot, u, toks)
      /\ seen' = [s \in SeqId |-> IF s \in SeqsIn(u)
                                  THEN seen[FirstOf(u, s)] \o [j \in 1 .. u.k |-> Token(FirstOf(u, s))] ELSE seen[s]]
      /\ at' = [s \in SeqId |-> IF s \in SeqsIn(u) THEN PosOf(n, s) ELSE at[s]]
      /\ swept' = swept \cup {s \in SeqId \ SeqsIn(u) : n.tail[s] # memory.tail[s]}
      /\ failed' = Inherit(failed, u) \cup {s \in SeqsIn(u) : n.tail[s] \in foul}
      /\ soiled' = (soiled \ slot.range) \cup (foul \ InUse(n.cells)) /\ astray' = Inherit(astray, u)
  <2>1. ubatches # <<>> /\ \E v \in {u} : \E w \in {FindSlot(memory, v)} : GraphComputed(v, w)
    BY DEF Evaluate, GraphComputed
  <2>2. GraphComputed(u, slot)
    BY <2>1
  <2>3. setup' = setup /\ saved' = saved /\ fresh' = fresh /\ called' = called /\ ubatches' = Tail(ubatches) /\ ubatches # <<>>
    BY DEF Evaluate
  <2> HIDE DEF u, slot
  <2> QED
    BY <2>2, <2>3 DEF GraphComputed
<1>2. UbatchOK(u)
  BY RestIsOK DEF Evaluate, RInv
<1>3. PICK T : ubatches \in Seq(T)
  BY DEF RInv, UbatchesOK
<1>4. 1 \in DOMAIN ubatches /\ u = ubatches[1]
  <2>1. u = Head(ubatches) /\ ubatches # <<>>
    BY <1>1
  <2> HIDE DEF u
  <2> QED
    BY <1>3, <2>1
<1>5. Single(u) /\ u.k \in Nat \ {0}
  BY <1>4 DEF SInv, RestOK, Single
<1>6. setup.n_rs_seq \in Nat /\ Good(memory) /\ IndexOK(memory) /\ Group' = Group
  BY <1>1, SetupIs DEF RInv, SInv, Group
<1> HIDE DEF u
<1>7. SlotOK(memory, u, slot)
  BY <1>2, <1>6, FindSlotIs DEF Good
<1> HIDE DEF slot
<1>8. Good(n) /\ memory'.tail = n.tail /\ memory'.cells = n.cells /\ IndexOK(memory')
      /\ memory'.rs_idx = IndexTaken(n, slot.range).rs_idx
  <2>1. Good(n)
    BY <1>6, <1>7 DEF SlotOK, Good
  <2> QED
    BY <1>1, <1>2, <1>5, <1>6, <1>7, <2>1, IndexTakenIs, IndexStaysOK
<1>9. /\ data' = [g \in Group |-> [i \in Cell |-> data'[g][i]]]
      /\ \A g \in Group : \A i \in Cell : ComputedCell(data, slot, u, toks, g, i)
  <2> HIDE DEF toks
  <2>1. /\ Computed(slot, u, toks) = [g \in Group |-> [i \in Cell |-> Computed(slot, u, toks)[g][i]]]
        /\ \A g \in Group : \A i \in Cell : ComputedCell(data, slot, u, toks, g, i)
    BY ComputedIs
  <2> QED
    BY <1>1, <2>1
<1>10. slot.range \in SUBSET Cell /\ n.head \in Cell
  BY <1>7 DEF SlotOK, Sound, Memories
<1>11. \A k \in DOMAIN u.sets : toks[k] = New(FirstsOf(u)[k], u.k) /\ n.head + k - 1 \in slot.range /\ n.head + k - 1 - n.head + 1 = k
  <2>1. \A k \in DOMAIN u.sets : n.head + k - 1 \in slot.range /\ n.head + k - 1 - n.head + 1 = k
    BY <1>2, <1>7, <1>10, UbatchFirsts DEF SlotOK, Cell
  <2> QED
    BY <2>1 DEF New, FirstsOf
<1> HIDE DEF toks
<1>12. \A g \in Group : \A i \in Cell : i \notin slot.range => data'[g][i] = Rinsed(data, slot)[g][i]
  BY <1>1, <1>9 DEF ComputedCell
<1>13. ASSUME NEW g \in Group, NEW k \in DOMAIN u.sets, g < u.k
       PROVE  data'[g][n.head + k - 1] =
              Rinsed(data, slot)[GroupOf(n, n.head + k - 1)][slot.src0[n.head + k - 1]] \o SubSeq(New(FirstsOf(u)[k], u.k), 1, u.k - g)
  <2> DEFINE i == n.head + k - 1
  <2>1. i \in slot.range /\ i \in Cell /\ i - n.head + 1 = k /\ toks[k] = New(FirstsOf(u)[k], u.k)
    <3>1. i \in slot.range /\ toks[k] = New(FirstsOf(u)[k], u.k)
      BY <1>11
    <3>2. i - n.head + 1 = k
      BY <1>2, <1>10, UbatchFirsts DEF Cell
    <3> QED
      BY <1>10, <3>1, <3>2
  <2> HIDE DEF i
  <2>2. ComputedCell(data, slot, u, toks, g, i)
    BY <1>9, <2>1
  <2>3. data'[g][i] = Rinsed(data, slot)[GroupOf(n, i)][slot.src0[i]] \o SubSeq(New(FirstsOf(u)[k], u.k), 1, u.k - g)
    BY <1>1, <1>13, <2>1, <2>2 DEF ComputedCell
  <2> QED
    BY <2>3 DEF i
<1>14. \A g \in Group : \A i \in slot.range : i - n.head + 1 \notin DOMAIN u.sets =>
          data'[g][i] = IF g = 0 THEN Rinsed(data, slot)[GroupOf(n, i)][slot.src0[i]] ELSE Rinsed(data, slot)[g][i]
  BY <1>1, <1>9, <1>10 DEF ComputedCell
<1>20. \A g \in Group : \A i \in slot.range : i - n.head + 1 \in DOMAIN u.sets /\ ~(g < u.k) =>
          data'[g][i] = Rinsed(data, slot)[g][i]
  BY <1>1, <1>9, <1>10 DEF ComputedCell
<1>15. seen' = [s \in SeqId |-> IF s \in SeqsIn(u) THEN seen[FirstOf(u, s)] \o New(FirstOf(u, s), u.k) ELSE seen[s]]
  BY <1>1 DEF New
<1>16. \A i \in slot.range : n.cells[i].seq_id = {} /\ slot.src0[i] \in soiled \ {slot.rs_z} => i \in soiled'
  BY <1>1 DEF InUse
<1>17. soiled \ slot.range \subseteq soiled'
  BY <1>1
<1>18. failed' = Inherit(failed, u) \cup {s \in SeqsIn(u) : n.tail[s] \in slot.range /\ slot.src0[n.tail[s]] \in soiled \ {slot.rs_z}}
  BY <1>1
<1>19. EvaluatedBy(u, slot)
  BY <1>1, <1>2, <1>5, <1>6, <1>7, <1>8, <1>9, <1>12, <1>13, <1>14, <1>15, <1>16, <1>17, <1>18, <1>20 DEF EvaluatedBy
<1> QED
  BY <1>1, <1>19 DEF u

\* A row that starts empty does, unless a failed graph has left it otherwise.
LEMMA StartsEmptyIs ==
    ASSUME NEW slot, setup.n_rs_seq \in Nat, TypesOK, RowsAreZeroed(memory, data, soiled), slot.range \in SUBSET Cell,
           slot.rs_z \in slot.range \cup {Size},
           NEW i, StartsEmpty(memory, slot, i), slot.src0[i] \notin soiled \ {slot.rs_z}
    PROVE  Rinsed(data, slot)[0][slot.src0[i]] = <<>>
<1>1. slot.rs_z \in Cell \cup {Size} /\ data \in [Group -> [Cell -> Past]] /\ 0 \in Group /\ Size \notin Cell
  BY GroupIs, SizeIs DEF TypesOK, Cell
<1>2. CASE slot.src0[i] = slot.rs_z /\ slot.rs_z \in slot.range
  BY <1>1, <1>2, RinsedIs
<1>3. CASE Spare(memory, slot.src0[i]) /\ slot.src0[i] # slot.rs_z
  <2>1. slot.src0[i] \in Cell \ soiled
    BY <1>3 DEF Spare
  <2>2. data[0][slot.src0[i]] = <<>>
    BY <1>3, <2>1 DEF RowsAreZeroed
  <2> QED
    BY <1>1, <1>3, <2>1, <2>2, RinsedIs
<1> QED
  BY <1>2, <1>3 DEF StartsEmpty

\* The state that is found for a set of the ubatch is that of its first sequence.
LEMMA FoundIs ==
    ASSUME RInv, SInv, NEW u, NEW slot, EvaluatedBy(u, slot), NEW k \in DOMAIN u.sets, NEW s \in u.sets[k],
           s \notin failed' \cup astray'
    PROVE  LET i == slot.memory.head + k - 1
               l == FirstsOf(u)[k]
           IN /\ Rinsed(data, slot)[GroupOf(slot.memory, i)][slot.src0[i]] = seen[l]
              /\ l \in SeqId /\ seen[l] \in Past /\ Inside(memory, u, slot, k, s) /\ s \in SeqId /\ s \in SeqsIn(u)
<1> DEFINE n == slot.memory
           i == n.head + k - 1
           l == FirstsOf(u)[k]
<1>1. /\ setup.n_rs_seq \in Nat /\ Good(memory) /\ UbatchOK(u) /\ Single(u) /\ SlotOK(memory, u, slot)
      /\ TypesOK /\ RowsAreZeroed(memory, data, soiled) /\ IndexOK(memory) /\ StatesOK
  BY DEF EvaluatedBy, SInv
<1>2. Inside(memory, u, slot, k, s)
  BY <1>1, WithinIs
<1>3. s \in SeqId /\ s \in SeqsIn(u) /\ l \in SeqId
  BY <1>1, UbatchFirsts DEF SeqsIn
<1>4. /\ GroupOf(n, i) = memory.rs_idx[l] /\ FirstOf(u, s) = l /\ n.tail[s] = i /\ i \in slot.range
      /\ slot.range \in SUBSET Cell /\ slot.rs_z \in slot.range \cup {Size}
  BY <1>1, <1>2 DEF Inside, SlotOK
<1>5. l \notin failed \cup astray
  <2>1. failed' = Inherit(failed, u) \cup {z \in SeqsIn(u) : n.tail[z] \in slot.range /\ slot.src0[n.tail[z]] \in soiled \ {slot.rs_z}}
    BY DEF EvaluatedBy
  <2>2. astray' = Inherit(astray, u)
    BY DEF EvaluatedBy
  <2> QED
    BY <1>3, <1>4, <2>1, <2>2 DEF Inherit
<1>6. slot.src0[i] \notin soiled \ {slot.rs_z}
  <2>1. failed' = Inherit(failed, u) \cup {z \in SeqsIn(u) : n.tail[z] \in slot.range /\ slot.src0[n.tail[z]] \in soiled \ {slot.rs_z}}
    BY DEF EvaluatedBy
  <2> QED
    BY <1>3, <1>4, <2>1
<1>7. StateHeld(memory, data, seen, at, l) /\ seen[l] \in Past
  BY <1>1, <1>3, <1>5 DEF StatesOK, TypesOK
<1>8. /\ memory.tail[l] >= 0 => Follows(memory, slot, l, i)
      /\ memory.tail[l] < 0 => StartsEmpty(memory, slot, i)
  BY <1>1 DEF SlotOK
<1> HIDE DEF l
<1>9. CASE memory.tail[l] < 0
  <2>1. seen[l] = <<>> /\ memory.rs_idx[l] = 0
    BY <1>1, <1>3, <1>7, <1>9 DEF StateHeld, IndexOK
  <2>2. Rinsed(data, slot)[0][slot.src0[i]] = <<>>
    BY <1>1, <1>4, <1>6, <1>8, <1>9, StartsEmptyIs
  <2> QED
    BY <1>2, <1>3, <1>4, <1>7, <2>1, <2>2 DEF l
<1>10. CASE ~(memory.tail[l] < 0)
  <2>1. memory.tail[l] \in Cell /\ memory.tail[l] >= 0
    BY <1>1, <1>3, <1>10, TailIs
  <2>2. slot.src0[i] = memory.tail[l] /\ slot.src0[i] # slot.rs_z
    BY <1>4, <1>8, <2>1 DEF Follows
  <2>3. memory.rs_idx[l] \in Group
    BY <1>1, <1>3 DEF Good
  <2>4. Rinsed(data, slot)[memory.rs_idx[l]][memory.tail[l]] = data[memory.rs_idx[l]][memory.tail[l]]
    BY <1>1, <1>4, <2>1, <2>2, <2>3, RinsedIs DEF TypesOK
  <2>5. data[memory.rs_idx[l]][memory.tail[l]] = seen[l]
    BY <1>7, <1>10 DEF StateHeld
  <2> QED
    BY <1>2, <1>3, <1>4, <1>7, <2>2, <2>4, <2>5 DEF l
<1> QED
  BY <1>9, <1>10

\* The first sequence of a set of the ubatch that has sequence s
LEMMA LeaderIs ==
    ASSUME NEW u, UbatchOK(u), NEW s \in SeqsIn(u)
    PROVE  \E k \in DOMAIN u.sets : s \in u.sets[k] /\ s \in SeqId /\ FirstOf(u, s) = FirstsOf(u)[k] /\ FirstOf(u, s) \in SeqId
<1>1. PICK k \in DOMAIN u.sets : s \in u.sets[k]
  BY DEF SeqsIn
<1>2. \A j \in DOMAIN u.sets : s \in u.sets[j] => j = k
  BY <1>1 DEF UbatchOK
<1>3. (CHOOSE j \in DOMAIN u.sets : s \in u.sets[j]) = k
  BY <1>1, <1>2
<1>4. FirstOf(u, s) = FirstId(u.sets[k])
  BY <1>3 DEF FirstOf
<1> QED
  BY <1>1, <1>4, UbatchFirsts DEF FirstsOf

\* The states are again states after tokens.
LEMMA EvaluateTypes ==
    ASSUME RInv, SInv, NEW u, NEW slot, EvaluatedBy(u, slot)
    PROVE  TypesOK'
<1>1. /\ setup.n_rs_seq \in Nat /\ Good(memory) /\ UbatchOK(u) /\ Single(u) /\ SlotOK(memory, u, slot) /\ u.k \in Nat \ {0}
      /\ Group' = Group /\ called' = called
      /\ data \in [Group -> [Cell -> Past]] /\ seen \in [SeqId -> Past] /\ called \in Nat
  BY DEF EvaluatedBy, SInv, TypesOK
<1>2. Rinsed(data, slot) \in [Group -> [Cell -> Past]] /\ slot.range \in SUBSET Cell
  BY <1>1, RinsedIs DEF SlotOK
<1>3. ASSUME NEW i \in slot.range PROVE Rinsed(data, slot)[GroupOf(slot.memory, i)][slot.src0[i]] \in Past
  BY <1>1, <1>2, SourceIs
<1>4. ASSUME NEW g \in Group, NEW i \in Cell PROVE data'[g][i] \in Past
  <2>1. CASE i \notin slot.range
    <3>1. data'[g][i] = Rinsed(data, slot)[g][i]
      BY <2>1 DEF EvaluatedBy
    <3> QED
      BY <1>2, <3>1
  <2>2. CASE i \in slot.range /\ i - slot.memory.head + 1 \notin DOMAIN u.sets
    <3> DEFINE k == i - slot.memory.head + 1
               found == Rinsed(data, slot)[GroupOf(slot.memory, i)][slot.src0[i]]
    <3>1. k \notin DOMAIN u.sets /\ i \in slot.range /\ found \in Past
      BY <1>3, <2>2
    <3>2. Rinsed(data, slot)[g][i] \in Past
      BY <1>2
    <3>3. data'[g][i] = IF g = 0 THEN found ELSE Rinsed(data, slot)[g][i]
      BY <3>1 DEF EvaluatedBy
    <3> HIDE DEF found
    <3> QED
      BY <3>1, <3>2, <3>3
  <2>3. CASE i \in slot.range /\ i - slot.memory.head + 1 \in DOMAIN u.sets
    <3> DEFINE k == i - slot.memory.head + 1
    <3>1. slot.memory.head + k - 1 = i /\ FirstsOf(u)[k] \in SeqId
      <4>1. slot.memory.head \in Cell
        BY <1>1 DEF SlotOK, Sound, Memories
      <4> QED
        BY <1>1, <2>3, <4>1, UbatchFirsts DEF Cell
    <3>2. CASE ~(g < u.k)
      <4>1. data'[g][i] = Rinsed(data, slot)[g][i]
        BY <2>3, <3>2 DEF EvaluatedBy
      <4> QED
        BY <1>2, <4>1
    <3>3. CASE g < u.k
      <4>1. k \in DOMAIN u.sets
        BY <2>3
      <4> DEFINE Found(j) == Rinsed(data, slot)[GroupOf(slot.memory, j)][slot.src0[j]]
                 q == Found(i)
                 l == FirstsOf(u)[k]
      <4>2. q \in Past /\ l \in SeqId /\ g \in Nat
        BY <1>1, <1>3, <2>3, <3>1, GroupIs
      <4> HIDE DEF k
      <4>3. data'[g][slot.memory.head + k - 1] = Found(slot.memory.head + k - 1) \o SubSeq(New(l, u.k), 1, u.k - g)
        BY <3>3, <4>1 DEF EvaluatedBy
      <4>4. data'[g][i] = q \o SubSeq(New(l, u.k), 1, u.k - g)
        BY <3>1, <4>3
      <4> HIDE DEF q, l
      <4>5. q \o SubSeq(New(l, u.k), 1, u.k - g) \in Past
        BY <1>1, <3>3, <4>2, GrownIs
      <4> QED
        BY <4>4, <4>5
    <3> QED
      BY <3>2, <3>3
  <2> QED
    BY <2>1, <2>2, <2>3
<1>5. data' \in [Group -> [Cell -> Past]]
  <2>1. data' = [g \in Group |-> [i \in Cell |-> data'[g][i]]]
    BY DEF EvaluatedBy
  <2> QED
    BY <1>4, <2>1
<1>6. seen' \in [SeqId -> Past]
  <2>1. \A s \in SeqId : s \in SeqsIn(u) => seen[FirstOf(u, s)] \o New(FirstOf(u, s), u.k) \in Past
    BY <1>1, LeaderIs, GrownIs
  <2>2. seen' = [s \in SeqId |-> IF s \in SeqsIn(u) THEN seen[FirstOf(u, s)] \o New(FirstOf(u, s), u.k) ELSE seen[s]]
    BY DEF EvaluatedBy
  <2> QED
    BY <1>1, <2>1, <2>2
<1> QED
  BY <1>1, <1>5, <1>6 DEF TypesOK

\* A sequence that is not in the ubatch is still in its state.
LEMMA OtherHeld ==
    ASSUME RInv, SInv, NEW u, NEW slot, EvaluatedBy(u, slot), NEW s \in SeqId \ SeqsIn(u), s \notin failed' \cup astray'
    PROVE  /\ StateHeld(memory', data', seen', at', s) /\ s \notin failed \cup astray /\ seen'[s] = seen[s]
           /\ memory'.tail[s] >= 0 => Elsewhere(memory, u, slot, s) /\ ~(memory.tail[s] < 0)
<1> DEFINE n == slot.memory
           i == n.tail[s]
<1>1. /\ setup.n_rs_seq \in Nat /\ Good(memory) /\ UbatchOK(u) /\ Single(u) /\ SlotOK(memory, u, slot)
      /\ data \in [Group -> [Cell -> Past]] /\ IndexOK(memory) /\ StatesOK /\ 0 \in Group
      /\ slot.range \in SUBSET Cell /\ slot.rs_z \in slot.range \cup {Size} /\ slot.rs_z \in Cell \cup {Size}
      /\ memory'.tail = n.tail /\ memory'.cells = n.cells /\ memory'.rs_idx = IndexTaken(n, slot.range).rs_idx
  BY GroupIs DEF EvaluatedBy, SInv, TypesOK, SlotOK
<1>2. s \notin failed \cup astray
  <2>1. failed' = Inherit(failed, u) \cup {z \in SeqsIn(u) : n.tail[z] \in slot.range /\ slot.src0[n.tail[z]] \in soiled \ {slot.rs_z}}
    BY DEF EvaluatedBy
  <2>2. astray' = Inherit(astray, u)
    BY DEF EvaluatedBy
  <2> QED
    BY <2>1, <2>2 DEF Inherit
<1>3. StateHeld(memory, data, seen, at, s) /\ seen'[s] = seen[s] /\ at'[s] = at[s]
  <2>1. seen' = [z \in SeqId |-> IF z \in SeqsIn(u) THEN seen[FirstOf(u, z)] \o New(FirstOf(u, z), u.k) ELSE seen[z]]
    BY DEF EvaluatedBy
  <2>2. at' = [z \in SeqId |-> IF z \in SeqsIn(u) THEN PosOf(n, z) ELSE at[z]]
    BY DEF EvaluatedBy
  <2> QED
    BY <1>1, <1>2, <2>1, <2>2 DEF StatesOK
<1>4. CASE memory.tail[s] < 0
  <2>1. n.tail[s] < 0
    BY <1>1, <1>4 DEF SlotOK
  <2>2. ~(n.tail[s] >= 0)
    <3>1. n.tail[s] \in -1 .. Size - 1
      BY <1>1 DEF SlotOK, Sound, Memories
    <3> QED
      BY <2>1, <3>1, SizeIs
  <2> QED
    BY <1>1, <1>2, <1>3, <1>4, <2>1, <2>2 DEF StateHeld
<1>5. CASE ~(memory.tail[s] < 0)
  <2>1. Elsewhere(memory, u, slot, s)
    BY <1>1, <1>5, ElsewhereIs
  <2>2. memory.tail[s] \in Cell /\ memory.rs_idx[s] \in Group /\ i \in Cell /\ ~(i < 0)
    <3>1. memory.tail[s] \in Cell
      BY <1>1, <1>5, TailIs
    <3>2. memory.rs_idx[s] \in Group
      BY <1>1 DEF Good
    <3>3. i \in Cell /\ ~(i < 0)
      BY SizeIs, <2>1 DEF Elsewhere, Cell
    <3> QED
      BY <3>1, <3>2, <3>3
  <2>3. data[memory.rs_idx[s]][memory.tail[s]] = seen[s] /\ n.cells[i].pos = at[s]
    BY <1>3, <1>5, <2>1 DEF StateHeld, Elsewhere
  <2>4. memory'.rs_idx[s] \in Group /\ data'[memory'.rs_idx[s]][i] = seen[s]
    <3>1. CASE i \in slot.range
      <4>1. /\ slot.src0[i] = memory.tail[s] /\ slot.src0[i] # slot.rs_z /\ GroupOf(n, i) = memory.rs_idx[s]
            /\ memory'.rs_idx[s] = 0 /\ i - n.head + 1 \notin DOMAIN u.sets
        BY <1>1, <2>1, <3>1 DEF Elsewhere
      <4>2. data'[0][i] = Rinsed(data, slot)[GroupOf(n, i)][slot.src0[i]]
        BY <1>1, <3>1, <4>1 DEF EvaluatedBy
      <4>3. Rinsed(data, slot)[memory.rs_idx[s]][memory.tail[s]] = data[memory.rs_idx[s]][memory.tail[s]]
        BY <1>1, <2>2, <4>1, RinsedIs
      <4> QED
        BY <1>1, <2>3, <4>1, <4>2, <4>3
    <3>2. CASE i \notin slot.range
      <4>1. i = memory.tail[s] /\ memory'.rs_idx[s] = memory.rs_idx[s]
        BY <1>1, <2>1, <3>2 DEF Elsewhere
      <4>2. data'[memory.rs_idx[s]][i] = Rinsed(data, slot)[memory.rs_idx[s]][i]
        BY <2>2, <3>2 DEF EvaluatedBy
      <4>3. i # slot.rs_z
        BY <1>1, <2>2, <3>2, SizeIs DEF Cell
      <4>4. Rinsed(data, slot)[memory.rs_idx[s]][i] = data[memory.rs_idx[s]][i]
        BY <1>1, <2>2, <4>3, RinsedIs
      <4> QED
        BY <2>2, <2>3, <4>1, <4>2, <4>4
    <3> QED
      BY <3>1, <3>2
  <2> QED
    BY <1>1, <1>2, <1>3, <1>5, <2>1, <2>2, <2>3, <2>4 DEF StateHeld
<1> QED
  BY <1>4, <1>5

\* A sequence of the ubatch is in the state after its tokens, and the snapshots are of the states before.
LEMMA InsideHeld ==
    ASSUME RInv, SInv, NEW u, NEW slot, EvaluatedBy(u, slot), NEW s \in SeqsIn(u), s \notin failed' \cup astray'
    PROVE  /\ StateHeld(memory', data', seen', at', s)
           /\ \A r \in Group : r < u.k => data'[r][memory'.tail[s]] = Cut(seen'[s], r)
<1>1. /\ UbatchOK(u) /\ u.k \in Nat \ {0} /\ called \in Nat /\ 0 \in Group /\ Group \subseteq Nat /\ SlotOK(memory, u, slot)
      /\ memory'.tail = slot.memory.tail /\ memory'.cells = slot.memory.cells
      /\ memory'.rs_idx = IndexTaken(slot.memory, slot.range).rs_idx
  BY GroupIs DEF EvaluatedBy, SInv, TypesOK
<1>2. PICK k \in DOMAIN u.sets : s \in u.sets[k]
  BY DEF SeqsIn
<1> DEFINE n == slot.memory
           i == n.head + k - 1
           l == FirstsOf(u)[k]
<1>3. /\ Rinsed(data, slot)[GroupOf(n, i)][slot.src0[i]] = seen[l]
      /\ l \in SeqId /\ seen[l] \in Past /\ Inside(memory, u, slot, k, s) /\ s \in SeqId
  BY <1>2, FoundIs
<1>4. /\ n.tail[s] = i /\ i \in Cell /\ memory'.rs_idx[s] = 0 /\ FirstOf(u, s) = l
  BY <1>1, <1>3 DEF Inside, SlotOK
<1>5. seen'[s] = seen[l] \o New(l, u.k)
  <2>1. seen' = [z \in SeqId |-> IF z \in SeqsIn(u) THEN seen[FirstOf(u, z)] \o New(FirstOf(u, z), u.k) ELSE seen[z]]
    BY DEF EvaluatedBy
  <2> QED
    BY <1>3, <1>4, <2>1
<1>6. at'[s] = PosOf(n, s)
  <2>1. at' = [z \in SeqId |-> IF z \in SeqsIn(u) THEN PosOf(n, z) ELSE at[z]]
    BY DEF EvaluatedBy
  <2> QED
    BY <1>3, <2>1
<1>11. \A q \in Past : \A z \in SeqId :
          /\ q \o New(z, u.k) \in Past
          /\ \A r \in Nat : r < u.k => Cut(q \o New(z, u.k), r) = q \o SubSeq(New(z, u.k), 1, u.k - r)
  <2> DEFINE w == u.k
  <2>1. w \in Nat \ {0} /\ called \in Nat
    BY <1>1
  <2> HIDE DEF w
  <2>2. ASSUME NEW q \in Past, NEW z \in SeqId
        PROVE  /\ q \o New(z, w) \in Past
               /\ \A r \in Nat : r < w => Cut(q \o New(z, w), r) = q \o SubSeq(New(z, w), 1, w - r)
    BY <2>1, GrownIs
  <2> QED
    BY <2>2 DEF w
<1>12. l \in SeqId /\ seen[l] \in Past
  BY <1>3
<1>7. ASSUME NEW r \in Group, r < u.k PROVE data'[r][i] = Cut(seen'[s], r)
  <2>1. data'[r][i] = Rinsed(data, slot)[GroupOf(n, i)][slot.src0[i]] \o SubSeq(New(l, u.k), 1, u.k - r)
    BY <1>7 DEF EvaluatedBy
  <2>2. Cut(seen[l] \o New(l, u.k), r) = seen[l] \o SubSeq(New(l, u.k), 1, u.k - r)
    <3>1. r \in Nat
      BY <1>1
    <3> HIDE DEF l
    <3> QED
      BY <1>7, <1>11, <1>12, <3>1
  <2> QED
    BY <1>3, <1>5, <2>1, <2>2
<1>8. data'[0][i] = seen'[s]
  <2>1. data'[0][i] = Cut(seen'[s], 0)
    BY <1>1, <1>7
  <2>2. seen'[s] \in Past
    <3> HIDE DEF l
    <3> QED
      BY <1>5, <1>11, <1>12
  <2> QED
    BY <2>1, <2>2, PastIs
<1>9. ~(i < 0)
  BY <1>4 DEF Cell
<1>10. StateHeld(memory', data', seen', at', s)
  BY <1>1, <1>4, <1>6, <1>8, <1>9 DEF StateHeld, PosOf
<1> QED
  BY <1>1, <1>4, <1>7, <1>10

\* Empty cells that are not zeroed again are still zeroed.
LEMMA EvaluateRows ==
    ASSUME RInv, SInv, NEW u, NEW slot, EvaluatedBy(u, slot)
    PROVE  RowsAreZeroed(memory', data', soiled')
<1> DEFINE n == slot.memory
<1>1. /\ setup.n_rs_seq \in Nat /\ Good(memory) /\ UbatchOK(u) /\ SlotOK(memory, u, slot)
      /\ data \in [Group -> [Cell -> Past]] /\ TypesOK /\ RowsAreZeroed(memory, data, soiled) /\ 0 \in Group
      /\ slot.range \in SUBSET Cell /\ slot.rs_z \in slot.range \cup {Size} /\ slot.rs_z \in Cell \cup {Size}
      /\ memory'.cells = n.cells
  BY GroupIs DEF EvaluatedBy, SInv, TypesOK, SlotOK
<1> SUFFICES ASSUME NEW i \in Cell \ soiled', Spare(memory', i) PROVE data'[0][i] = <<>>
  BY DEF RowsAreZeroed
<1>2. Spare(n, i) /\ n.cells[i].seq_id = {}
  BY <1>1 DEF Spare
<1>3. /\ i \notin slot.range => Spare(memory, i)
      /\ i \in slot.range => StartsEmpty(memory, slot, i)
      /\ i - n.head + 1 \notin DOMAIN u.sets /\ GroupOf(n, i) = 0
  BY <1>1, <1>2, SpareAfterwards
<1>4. CASE i \in slot.range
  <2>1. slot.src0[i] \notin soiled \ {slot.rs_z}
    BY <1>2, <1>4 DEF EvaluatedBy
  <2>2. Rinsed(data, slot)[0][slot.src0[i]] = <<>>
    BY <1>1, <1>3, <1>4, <2>1, StartsEmptyIs
  <2>3. data'[0][i] = Rinsed(data, slot)[GroupOf(n, i)][slot.src0[i]]
    BY <1>1, <1>3, <1>4 DEF EvaluatedBy
  <2> QED
    BY <1>3, <2>2, <2>3
<1>5. CASE i \notin slot.range
  <2>1. i \notin soiled
    BY <1>5 DEF EvaluatedBy
  <2>2. data[0][i] = <<>>
    BY <1>1, <1>3, <1>5, <2>1 DEF RowsAreZeroed
  <2>3. i # slot.rs_z
    BY <1>1, <1>5, SizeIs DEF Cell
  <2>4. Rinsed(data, slot)[0][i] = data[0][i]
    BY <1>1, <2>3, RinsedIs
  <2>5. data'[0][i] = Rinsed(data, slot)[0][i]
    BY <1>1, <1>5 DEF EvaluatedBy
  <2> QED
    BY <2>2, <2>4, <2>5
<1> QED
  BY <1>4, <1>5

\* What is to come after the first ubatch
LEMMA TailOf ==
    ASSUME NEW T, NEW us \in Seq(T), us # <<>>
    PROVE  /\ Head(us) = us[1] /\ 1 \in DOMAIN us
           /\ \A n \in DOMAIN Tail(us) : n \in Nat /\ n + 1 \in DOMAIN us /\ Tail(us)[n] = us[n + 1]
           /\ \A n \in DOMAIN us : n # 1 => n \in Nat /\ n - 1 \in DOMAIN Tail(us) /\ Tail(us)[n - 1] = us[n] /\ n > 1
<1>1. Len(us) \in Nat \ {0} /\ DOMAIN us = 1 .. Len(us) /\ Head(us) = us[1]
  OBVIOUS
<1>2. Len(Tail(us)) = Len(us) - 1 /\ DOMAIN Tail(us) = 1 .. Len(us) - 1 /\ \A n \in 1 .. Len(us) - 1 : Tail(us)[n] = us[n + 1]
  OBVIOUS
<1>3. ASSUME NEW n \in DOMAIN us, n # 1 PROVE n \in Nat /\ n - 1 \in DOMAIN Tail(us) /\ Tail(us)[n - 1] = us[n] /\ n > 1
  <2>1. n \in Nat /\ n > 1 /\ n - 1 \in 1 .. Len(us) - 1 /\ (n - 1) + 1 = n
    BY <1>1, <1>3
  <2> QED
    BY <1>2, <2>1
<1>4. ASSUME NEW n \in DOMAIN Tail(us) PROVE n \in Nat /\ n + 1 \in DOMAIN us /\ Tail(us)[n] = us[n + 1]
  BY <1>1, <1>2
<1> QED
  BY <1>1, <1>3, <1>4

\* A sequence is in the first ubatch, or in a later one.
LEMMA PendingIs ==
    ASSUME NEW T, NEW us \in Seq(T), us # <<>>, NEW s
    PROVE  Pending(us, s) <=> s \in SeqsIn(Head(us)) \/ Pending(Tail(us), s)
<1>1. ASSUME Pending(us, s) PROVE s \in SeqsIn(Head(us)) \/ Pending(Tail(us), s)
  <2>1. PICK n \in DOMAIN us : s \in SeqsIn(us[n])
    BY <1>1 DEF Pending
  <2>2. CASE n = 1
    BY <2>1, <2>2, TailOf
  <2>3. CASE n # 1
    <3>1. n - 1 \in DOMAIN Tail(us) /\ Tail(us)[n - 1] = us[n]
      BY <2>1, <2>3, TailOf
    <3> QED
      BY <2>1, <3>1 DEF Pending
  <2> QED
    BY <2>2, <2>3
<1>2. ASSUME s \in SeqsIn(Head(us)) PROVE Pending(us, s)
  <2>1. Head(us) = us[1] /\ 1 \in DOMAIN us
    BY TailOf
  <2> QED
    BY <1>2, <2>1 DEF Pending
<1>3. ASSUME Pending(Tail(us), s) PROVE Pending(us, s)
  <2>1. PICK n \in DOMAIN Tail(us) : s \in SeqsIn(Tail(us)[n])
    BY <1>3 DEF Pending
  <2>2. n + 1 \in DOMAIN us /\ Tail(us)[n] = us[n + 1]
    BY <2>1, TailOf
  <2> QED
    BY <2>1, <2>2 DEF Pending
<1> QED
  BY <1>1, <1>2, <1>3

\* The last ubatch of a sequence leaves the snapshots that may be asked for, as one of those to come.
LEMMA LaterIs ==
    ASSUME NEW T, NEW us \in Seq(T), us # <<>>, NEW m, NEW f, RestOK(us, m, f)
    PROVE  /\ \A n \in DOMAIN Tail(us) : Tail(us)[n].k \in Nat \ {0}
           /\ \A n \in DOMAIN Tail(us) : \A s \in SeqsIn(Tail(us)[n]) :
                 (\A l \in DOMAIN Tail(us) : l > n => s \notin SeqsIn(Tail(us)[l])) => \A r \in Group : r <= f[s] => r < Tail(us)[n].k
           /\ setup.n_rs_seq > 0 => \A n \in DOMAIN Tail(us) : \A k \in DOMAIN Tail(us)[n].sets : \E s \in SeqId : Tail(us)[n].sets[k] = {s}
           /\ \A s \in SeqsIn(Head(us)) : ~Pending(Tail(us), s) => \A r \in Group : r <= f[s] => r < Head(us).k
<1>1. ASSUME NEW n \in DOMAIN Tail(us), NEW s \in SeqsIn(Tail(us)[n]), \A l \in DOMAIN Tail(us) : l > n => s \notin SeqsIn(Tail(us)[l]),
             NEW r \in Group, r <= f[s]
      PROVE  r < Tail(us)[n].k
  <2>1. n \in Nat /\ n + 1 \in DOMAIN us /\ Tail(us)[n] = us[n + 1]
    BY TailOf
  <2>2. ASSUME NEW l \in DOMAIN us, l > n + 1 PROVE s \notin SeqsIn(us[l])
    <3>1. l # 1
      BY <2>1, <2>2
    <3>2. l \in Nat /\ l - 1 \in DOMAIN Tail(us) /\ Tail(us)[l - 1] = us[l]
      BY <3>1, TailOf
    <3>3. l - 1 > n
      BY <2>1, <2>2, <3>2
    <3> QED
      BY <1>1, <3>2, <3>3
  <2> QED
    BY <1>1, <2>1, <2>2 DEF RestOK
<1>2. ASSUME NEW s \in SeqsIn(Head(us)), ~Pending(Tail(us), s), NEW r \in Group, r <= f[s] PROVE r < Head(us).k
  <2>1. Head(us) = us[1] /\ 1 \in DOMAIN us
    BY TailOf
  <2>2. ASSUME NEW l \in DOMAIN us, l > 1 PROVE s \notin SeqsIn(us[l])
    <3>1. l # 1
      BY <2>2
    <3>2. l - 1 \in DOMAIN Tail(us) /\ Tail(us)[l - 1] = us[l]
      BY <3>1, TailOf
    <3> QED
      BY <1>2, <3>2 DEF Pending
  <2> QED
    BY <1>2, <2>1, <2>2 DEF RestOK
<1>3. \A n \in DOMAIN Tail(us) : Tail(us)[n].k \in Nat \ {0}
  BY TailOf DEF RestOK
<1>4. setup.n_rs_seq > 0 => \A n \in DOMAIN Tail(us) : \A k \in DOMAIN Tail(us)[n].sets : \E s \in SeqId : Tail(us)[n].sets[k] = {s}
  <2> SUFFICES ASSUME setup.n_rs_seq > 0, NEW n \in DOMAIN Tail(us), NEW k \in DOMAIN Tail(us)[n].sets
               PROVE  \E s \in SeqId : Tail(us)[n].sets[k] = {s}
    OBVIOUS
  <2>1. n + 1 \in DOMAIN us /\ Tail(us)[n] = us[n + 1]
    BY TailOf
  <2> QED
    BY <2>1 DEF RestOK
<1> QED
  BY <1>1, <1>2, <1>3, <1>4

\* A ubatch leaves every sequence in its state.
LEMMA EvaluateTrue == ASSUME RInv, SInv, Evaluate PROVE SInv'
<1>1. PICK u, slot : ubatches # <<>> /\ u = Head(ubatches) /\ EvaluatedBy(u, slot)
  BY EvaluateIs
<1>2. /\ setup.n_rs_seq \in Nat /\ Group' = Group /\ Good(memory) /\ UbatchOK(u) /\ SlotOK(memory, u, slot) /\ IndexOK(memory')
      /\ ubatches' = Tail(ubatches) /\ saved' = saved /\ fresh' = fresh /\ called' = called /\ setup' = setup
      /\ memory'.tail = slot.memory.tail /\ memory'.cells = slot.memory.cells /\ StatesOK /\ IndexOK(memory)
      /\ memory'.rs_idx = IndexTaken(slot.memory, slot.range).rs_idx /\ slot.memory \in Memories
      /\ RestOK(ubatches, memory, fresh) /\ SnapshotsOK /\ fresh \in [SeqId -> Nat] /\ seen' \in [SeqId -> Past]
      /\ data \in [Group -> [Cell -> Past]] /\ 0 \in Group
  <2>1. setup' = setup
    BY DEF Evaluate
  <2>2. seen' \in [SeqId -> Past]
    BY <1>1, EvaluateTypes DEF TypesOK
  <2>3. setup.n_rs_seq \in Nat /\ 0 \in Group
    BY <1>1, GroupIs DEF EvaluatedBy
  <2> QED
    BY <1>1, <2>1, <2>2, <2>3 DEF EvaluatedBy, SInv, TypesOK, SlotOK, Sound, RInv
<1>3. PICK T : ubatches \in Seq(T)
  BY DEF RInv, UbatchesOK
<1>4. \A s : Pending(ubatches, s) <=> s \in SeqsIn(u) \/ Pending(Tail(ubatches), s)
  BY <1>1, <1>3, PendingIs
<1>5. StatesOK'
  <2> SUFFICES ASSUME NEW s \in SeqId \ (failed' \cup astray') PROVE StateHeld(memory', data', seen', at', s)
    BY <1>2 DEF StatesOK, StateHeld
  <2>1. CASE s \in SeqsIn(u)
    BY <1>1, <2>1, InsideHeld
  <2>2. CASE s \notin SeqsIn(u)
    BY <1>1, <2>2, OtherHeld
  <2> QED
    BY <2>1, <2>2
<1>6. SnapshotsOK'
  <2> SUFFICES ASSUME NEW s \in SeqId \ (failed' \cup astray' \cup swept'), memory'.tail[s] >= 0, memory'.rs_idx[s] = 0,
                      ~Pending(Tail(ubatches), s), NEW r \in Group, r <= fresh[s]
               PROVE  data'[r][memory'.tail[s]] = Cut(seen'[s], r)
    BY <1>2 DEF SnapshotsOK, SnapshotsHeld
  <2>1. CASE s \in SeqsIn(u)
    <3>1. r < u.k
      BY <1>1, <1>2, <1>3, <2>1, LaterIs
    <3> QED
      BY <1>1, <2>1, <3>1, InsideHeld
  <2>2. CASE s \notin SeqsIn(u)
    <3>1. /\ StateHeld(memory', data', seen', at', s) /\ s \notin failed \cup astray /\ seen'[s] = seen[s]
          /\ Elsewhere(memory, u, slot, s) /\ ~(memory.tail[s] < 0)
      BY <1>1, <2>2, OtherHeld
    <3>2. ~(memory'.tail[s] < 0)
      BY <1>2, <3>1 DEF Elsewhere, Cell
    <3>3. CASE r = 0
      <4>1. data'[0][memory'.tail[s]] = seen'[s]
        BY <3>1, <3>2 DEF StateHeld
      <4>2. seen'[s] \in Past
        BY <1>2
      <4> QED
        BY <3>3, <4>1, <4>2, PastIs
    <3>4. CASE r # 0
      <4>1. fresh[s] > 0 /\ r \in Nat
        BY <1>2, <3>4, GroupIs
      <4>2. ~Pending(ubatches, s)
        BY <1>4, <2>2
      <4>3. memory.rs_idx[s] = 0
        BY <1>1, <1>2, <4>1, <4>2 DEF RestOK
      <4>4. s \notin swept /\ memory'.tail[s] = memory.tail[s]
        BY <1>1, <1>2, <2>2 DEF EvaluatedBy
      <4>5. memory.tail[s] \in Cell /\ memory.tail[s] >= 0
        BY <1>2, <3>1, TailIs
      <4>6. data[r][memory.tail[s]] = Cut(seen[s], r)
        BY <1>2, <3>1, <4>2, <4>3, <4>4, <4>5 DEF SnapshotsOK, SnapshotsHeld
      <4> DEFINE i == memory.tail[s]
      <4>7. Rinsed(data, slot)[r][i] = data[r][i]
        <5>1. slot.rs_z \in Cell \cup {Size}
          BY <1>2 DEF SlotOK
        <5> QED
          BY <1>2, <3>4, <4>5, <5>1 DEF Rinsed
      <4>8. data'[r][i] = Rinsed(data, slot)[r][i]
        <5>3. /\ \A g \in Group : \A j \in Cell : j \notin slot.range => data'[g][j] = Rinsed(data, slot)[g][j]
              /\ \A g \in Group : \A j \in slot.range : j - slot.memory.head + 1 \notin DOMAIN u.sets /\ g # 0 =>
                    data'[g][j] = Rinsed(data, slot)[g][j]
          <6>1. \A g \in Group : \A j \in Cell : j \notin slot.range => data'[g][j] = Rinsed(data, slot)[g][j]
            BY <1>1 DEF EvaluatedBy
          <6>2. \A g \in Group : \A j \in slot.range : j - slot.memory.head + 1 \notin DOMAIN u.sets =>
                   data'[g][j] = IF g = 0 THEN Rinsed(data, slot)[GroupOf(slot.memory, j)][slot.src0[j]] ELSE Rinsed(data, slot)[g][j]
            BY <1>1 DEF EvaluatedBy
          <6> QED
            BY <6>1, <6>2
        <5>1. CASE i \in slot.range
          <6>1. i - slot.memory.head + 1 \notin DOMAIN u.sets
            BY <1>2, <3>1, <4>4 DEF Elsewhere
          <6> HIDE DEF i
          <6> QED
            BY <3>4, <5>1, <5>3, <6>1
        <5>2. CASE i \notin slot.range
          BY <4>5, <5>2, <5>3
        <5> QED
          BY <5>1, <5>2
      <4> QED
        BY <3>1, <4>4, <4>6, <4>7, <4>8
    <3> QED
      BY <3>3, <3>4
  <2> QED
    BY <2>1, <2>2
<1>7. RestOK(ubatches, memory, fresh)'
  <2>1. ASSUME Tail(ubatches) # <<>>, NEW s \in SeqId, ~Pending(Tail(ubatches), s), fresh[s] > 0 PROVE memory'.rs_idx[s] = 0
    <3>1. CASE s \in SeqsIn(u)
      <4>1. PICK k \in DOMAIN u.sets : s \in u.sets[k]
        BY <3>1 DEF SeqsIn
      <4>2. Inside(memory, u, slot, k, s)
        BY <1>1, <1>2, <4>1, WithinIs DEF EvaluatedBy
      <4> QED
        BY <1>2, <4>2 DEF Inside
    <3>2. CASE s \notin SeqsIn(u)
      <4>1. memory.rs_idx[s] = 0
        BY <1>1, <1>2, <1>4, <2>1, <3>2 DEF RestOK
      <4>2. CASE memory.tail[s] < 0
        <5>1. memory'.tail[s] < 0
          BY <1>2, <3>2, <4>2 DEF SlotOK
        <5> QED
          BY <1>2, <5>1 DEF IndexOK
      <4>3. CASE ~(memory.tail[s] < 0)
        <5>1. Elsewhere(memory, u, slot, s)
          BY <1>2, <3>2, <4>3, ElsewhereIs
        <5> QED
          BY <1>2, <4>1, <5>1 DEF Elsewhere
      <4> QED
        BY <4>2, <4>3
    <3> QED
      BY <3>1, <3>2
  <2>2. /\ \A n \in DOMAIN Tail(ubatches) : Tail(ubatches)[n].k \in Nat \ {0}
        /\ \A n \in DOMAIN Tail(ubatches) : \A s \in SeqsIn(Tail(ubatches)[n]) :
              (\A l \in DOMAIN Tail(ubatches) : l > n => s \notin SeqsIn(Tail(ubatches)[l])) =>
                 \A r \in Group : r <= fresh[s] => r < Tail(ubatches)[n].k
        /\ setup.n_rs_seq > 0 => \A n \in DOMAIN Tail(ubatches) : \A k \in DOMAIN Tail(ubatches)[n].sets :
                                    \E s \in SeqId : Tail(ubatches)[n].sets[k] = {s}
    <3>1. RestOK(ubatches, memory, fresh) /\ ubatches # <<>>
      BY <1>1, <1>2
    <3> QED
      BY <1>3, <3>1, LaterIs
  <2>3. RestOK(Tail(ubatches), memory', fresh)
    BY <2>1, <2>2 DEF RestOK
  <2>4. /\ \A n \in DOMAIN ubatches' : ubatches'[n].k \in Nat \ {0}
        /\ \A n \in DOMAIN ubatches' : \A s \in SeqsIn(ubatches'[n]) :
              (\A l \in DOMAIN ubatches' : l > n => s \notin SeqsIn(ubatches'[l])) =>
                 \A r \in Group' : r <= fresh'[s] => r < ubatches'[n].k
    BY <1>2, <2>2
  <2>5. setup'.n_rs_seq > 0 => \A n \in DOMAIN ubatches' : \A k \in DOMAIN ubatches'[n].sets : \E s \in SeqId : ubatches'[n].sets[k] = {s}
    BY <1>2, <2>2
  <2>6. ubatches' # <<>> => \A s \in SeqId : ~Pending(ubatches', s) /\ fresh'[s] > 0 => memory'.rs_idx[s] = 0
    BY <1>2, <2>1
  <2> QED
    BY <2>4, <2>5, <2>6 DEF RestOK
<1>8. TypesOK'
  BY <1>1, EvaluateTypes
<1>9. RowsAreZeroed(memory, data, soiled)'
  <2>1. RowsAreZeroed(memory', data', soiled')
    BY <1>1, EvaluateRows
  <2> QED
    BY <2>1 DEF RowsAreZeroed
<1>10. SavedOK' /\ IndexOK(memory)'
  BY <1>2 DEF SInv, SavedOK, IndexOK
<1> QED
  BY <1>5, <1>6, <1>7, <1>8, <1>9, <1>10 DEF SInv

-----------------------------------------------------------------------------
(* A graph that fails                                                      *)

\* The sequences in W share no cell with others, and with rollbacks none at all.
Parted(m, W) ==
    /\ IndexOK(m)
    /\ \A s \in W : \A z \in SeqId \ W : m.tail[s] >= 0 => m.tail[z] # m.tail[s]
    /\ setup.n_rs_seq > 0 => \A s \in W : \A z \in SeqId \ {s} : m.tail[s] >= 0 => m.tail[z] # m.tail[s]
\* The sequences that are not in W are in o what they are in m.
Unharmed(m, o, W) ==
    /\ \A s \in SeqId \ W : /\ o.tail[s] = m.tail[s] /\ o.rs_idx[s] = m.rs_idx[s]
                            /\ m.tail[s] >= 0 => o.cells[m.tail[s]].pos = m.cells[m.tail[s]].pos
    /\ \A i \in Cell : Spare(o, i) => Spare(m, i)

\* Without rollbacks there is nothing to take.
LEMMA NoIndex == ASSUME NEW m, Good(m), setup.n_rs_seq = 0 PROVE IndexOK(m)
<1>1. Group = {0}
  BY DEF Group
<1> QED
  BY <1>1 DEF IndexOK, Good

\* seq_rm() of a sequence in W does no harm to the others.
LEMMA SeqRmUnharmed ==
    ASSUME NEW m, Good(m), NEW W \in SUBSET SeqId, NEW s \in W, NEW p0 \in Nat, setup.n_rs_seq \in Nat, Parted(m, W)
    PROVE  Good(SeqRm(m, s, p0)) /\ Parted(SeqRm(m, s, p0), W) /\ Unharmed(m, SeqRm(m, s, p0), W)
<1> DEFINE o == SeqRm(m, s, p0)
<1>1. s \in SeqId /\ Good(o) /\ m \in Memories /\ o \in Memories
  BY SeqRmIs DEF Good, Sound
<1>2. CASE p0 = 0
  <2>1. o = RemovedAll(m, s)
    BY <1>2 DEF SeqRm
  <2>2. Shrunk(m, o, {s})
    BY <1>1, <2>1, RemovedAllShrinks
  <2> HIDE DEF o
  <2>3. Unharmed(m, o, W)
    BY <2>2 DEF Shrunk, Unharmed
  <2>4. o.tail[s] < 0 /\ o.rs_idx[s] = 0 /\ \A z \in SeqId \ {s} : o.tail[z] = m.tail[z] /\ o.rs_idx[z] = m.rs_idx[z]
    BY <1>1, <2>2 DEF Shrunk
  <2>5. \A z \in SeqId : o.tail[z] >= 0 => ~(o.tail[z] < 0)
    BY <1>1, CellTypes, SizeIs
  <2>6. o.tail[s] \in -1 .. Size - 1 /\ ~(o.tail[s] >= 0)
    BY <1>1, <2>4, <2>5, CellTypes
  <2>7. IndexOK(o)
    BY <1>1, <2>4, <2>6 DEF Parted, IndexOK
  <2>8. Parted(o, W)
    BY <1>1, <2>4, <2>6, <2>7 DEF Parted
  <2> QED
    BY <1>1, <2>3, <2>8 DEF o
<1>3. CASE p0 # 0
  <2> DEFINE r == Steps(m, s, p0)
  <2>1. /\ r <= 0 \/ Refused(m, s, p0) => o = m
        /\ ~(r <= 0 \/ Refused(m, s, p0)) =>
               /\ m.tail[s] \in Cell /\ r \in Group
               /\ HasPos(m, o, m.tail[s], p0 - 1) /\ o.rs_idx = [m.rs_idx EXCEPT ![s] = r]
    <3>1. o = RolledBack(m, s, p0)
      BY <1>3 DEF SeqRm
    <3> QED
      BY <1>1, <1>3, <3>1, RolledBackIs
  <2> HIDE DEF o
  <2>2. CASE r <= 0 \/ Refused(m, s, p0)
    <3>1. o = m
      BY <2>1, <2>2
    <3>2. Unharmed(m, o, W)
      BY <3>1 DEF Unharmed
    <3> QED
      BY <1>1, <3>1, <3>2 DEF o
  <2>3. CASE ~(r <= 0 \/ Refused(m, s, p0))
    <3>1. /\ m.tail[s] \in Cell /\ m.tail[s] >= 0 /\ o.tail = m.tail /\ HasPos(m, o, m.tail[s], p0 - 1)
          /\ \A z \in SeqId \ {s} : o.rs_idx[z] = m.rs_idx[z]
      <4>1. m.rs_idx \in [SeqId -> Group]
        BY DEF Good
      <4> QED
        BY <2>1, <2>3, <4>1 DEF HasPos, Cell
    <3>2. \A i \in Cell : Spare(o, i) => Spare(m, i)
      BY <3>1 DEF HasPos, Spare
    <3>3. ASSUME NEW z \in SeqId \ W, m.tail[z] >= 0 PROVE o.cells[m.tail[z]].pos = m.cells[m.tail[z]].pos
      <4>1. m.tail[z] \in Cell
        BY <1>1, <3>3, CellTypes
      <4>2. m.tail[z] # m.tail[s]
        BY <3>1 DEF Parted
      <4> QED
        BY <3>1, <4>1, <4>2 DEF HasPos
    <3>4. Unharmed(m, o, W)
      BY <3>1, <3>2, <3>3 DEF Unharmed
    <3>5. IndexOK(o)
      <4>1. CASE setup.n_rs_seq = 0
        BY <1>1, <4>1, NoIndex DEF o
      <4>2. CASE setup.n_rs_seq # 0
        <5>1. \A z \in SeqId \ {s} : m.tail[z] # m.tail[s]
          BY <3>1, <4>2 DEF Parted
        <5>2. ~(m.tail[s] < 0)
          BY <3>1 DEF Cell
        <5> QED
          BY <3>1, <5>1, <5>2 DEF Parted, IndexOK
      <4> QED
        BY <4>1, <4>2
    <3>6. Parted(o, W)
      BY <3>1, <3>5 DEF Parted
    <3> QED
      BY <1>1, <3>4, <3>6 DEF o
  <2> QED
    BY <2>2, <2>3
<1> QED
  BY <1>2, <1>3

\* Nor does that of the positions of a ubatch.
LEMMA UbatchUnharmed ==
    ASSUME NEW m, Good(m), NEW u, UbatchOK(u), setup.n_rs_seq \in Nat, Parted(m, SeqsIn(u))
    PROVE  Good(UbatchRemoved(m, u)) /\ Parted(UbatchRemoved(m, u), SeqsIn(u)) /\ Unharmed(m, UbatchRemoved(m, u), SeqsIn(u))
<1> DEFINE N == Len(u.sets)
           W == SeqsIn(u)
           Step(n, x) == SeqRm(x, FirstId(u.sets[n]), u.first[n])
           G == [n \in 0 .. N |-> {x \in Memories : Good(x) /\ Parted(x, W) /\ Unharmed(m, x, W)}]
           h == [n \in 1 .. N |-> [x \in G[n - 1] |-> Step(n, x)]]
           f == CHOOSE f : f = [n \in 0 .. N |-> IF n = 0 THEN m ELSE Step(n, f[n - 1])]
<1>0. W \in SUBSET SeqId
  BY UbatchFirsts DEF SeqsIn
<1>1. m \in G[0] /\ N \in Nat
  <2>1. Unharmed(m, m, W)
    BY DEF Unharmed
  <2> QED
    BY <2>1, UbatchFirsts DEF Good, Sound
<1>2. ASSUME NEW n \in 1 .. N, NEW x \in G[n - 1] PROVE Step(n, x) \in G[n]
  <2>1. n \in 0 .. N /\ n - 1 \in 0 .. N /\ n \in DOMAIN u.sets
    BY <1>1, UbatchFirsts
  <2>2. Good(x) /\ Parted(x, W) /\ Unharmed(m, x, W) /\ x \in Memories
    BY <2>1
  <2>3. FirstId(u.sets[n]) \in W /\ u.first[n] \in Nat
    <3>1. FirstsOf(u)[n] = FirstId(u.sets[n]) /\ FirstsOf(u)[n] \in u.sets[n] /\ u.sets[n] \in SUBSET SeqId
      BY <2>1, UbatchFirsts DEF FirstsOf
    <3>2. u.first[n] \in 0 .. MaxPos
      BY <2>1 DEF UbatchOK
    <3> QED
      BY <2>1, <3>1, <3>2, SizeIs DEF SeqsIn
  <2> HIDE DEF W
  <2>4. Good(Step(n, x)) /\ Parted(Step(n, x), W) /\ Unharmed(x, Step(n, x), W)
    BY <1>0, <2>2, <2>3, SeqRmUnharmed
  <2> HIDE DEF Step
  <2>5. Unharmed(m, Step(n, x), W)
    BY <2>2, <2>4 DEF Unharmed
  <2> QED
    BY <2>1, <2>4, <2>5 DEF Good, Sound
<1> HIDE DEF N
<1> HIDE DEF Step, G
<1>3. \A n \in 1 .. N : \A x \in G[n - 1] : h[n][x] = Step(n, x) /\ h[n][x] \in G[n]
  BY <1>2
<1> HIDE DEF h
<1>4. PICK g : IsLoop(g, m, h, G, N)
  BY <1>1, <1>3, LoopExists
<1>5. ASSUME NEW n \in 0 .. N PROVE g[n] = IF n = 0 THEN m ELSE Step(n, g[n - 1])
  <2>1. n # 0 => n \in 1 .. N
    BY <1>1
  <2> QED
    BY <1>3, <1>4, <2>1 DEF IsLoop, Runs
<1>6. f = [n \in 0 .. N |-> IF n = 0 THEN m ELSE Step(n, f[n - 1])]
  <2>1. g = [n \in 0 .. N |-> IF n = 0 THEN m ELSE Step(n, g[n - 1])]
    BY <1>4, <1>5 DEF IsLoop
  <2> QED
    BY <2>1
<1> HIDE DEF f
<1>7. f[0] \in G[0] /\ \A n \in 1 .. N : f[n - 1] \in G[n - 1] => f[n] \in G[n]
  <2>1. f[0] = m
    BY <1>1, <1>6
  <2>2. ASSUME NEW n \in 1 .. N PROVE f[n] = Step(n, f[n - 1])
    <3>1. n \in 0 .. N /\ n # 0
      BY <1>1
    <3> QED
      BY <1>6, <3>1
  <2> QED
    BY <1>1, <1>2, <2>1, <2>2
<1>8. f[N] \in G[N]
  BY <1>1, <1>7, LoopReaches
<1>9. UbatchRemoved(m, u) = f[N]
  BY DEF UbatchRemoved, f, Step, N
<1>10. Good(f[N]) /\ Parted(f[N], W) /\ Unharmed(m, f[N], W)
  BY <1>1, <1>8 DEF G
<1> QED
  BY <1>9, <1>10

\* After find_slot, the sequences of the ubatch share no cell with others.
LEMMA SlotParts ==
    ASSUME NEW m, Good(m), IndexOK(m), NEW u, UbatchOK(u), NEW slot, SlotOK(m, u, slot), setup.n_rs_seq \in Nat, Single(u)
    PROVE  Parted(IndexTaken(slot.memory, slot.range), SeqsIn(u))
<1> DEFINE n == slot.memory
           x == IndexTaken(n, slot.range)
<1>1. Sound(n) /\ n \in Memories /\ Good(n) /\ x.tail = n.tail
  <2>1. Sound(n) /\ n \in Memories /\ Good(n)
    BY DEF SlotOK, Sound, Good
  <2> QED
    BY <2>1, IndexTakenIs
<1>2. IndexOK(x)
  BY IndexStaysOK
<1> HIDE DEF x
<1>3. ASSUME NEW s \in SeqsIn(u), NEW z \in SeqId, n.tail[s] >= 0, n.tail[z] = n.tail[s]
      PROVE  z \in SeqsIn(u) /\ (setup.n_rs_seq > 0 => z = s)
  <2>1. PICK k \in DOMAIN u.sets : s \in u.sets[k]
    BY DEF SeqsIn
  <2>2. s \in SeqId /\ n.tail[s] = n.head + k - 1 /\ n.head + k - 1 \in Cell /\ n.cells[n.head + k - 1].seq_id = u.sets[k]
    <3>1. Inside(m, u, slot, k, s)
      BY <2>1, WithinIs
    <3> QED
      BY <2>1, <3>1, UbatchFirsts DEF Inside, SlotOK
  <2>3. z \in u.sets[k]
    BY <1>1, <1>3, <2>2 DEF Sound, Linked
  <2> QED
    BY <2>1, <2>3 DEF SeqsIn, Single
<1>4. Parted(x, SeqsIn(u))
  BY <1>1, <1>2, <1>3 DEF Parted
<1> QED
  BY <1>4 DEF x

\* The body of Fail
GraphFailed(u, slot, m) ==
    LET zeroed == {i \in slot.range : slot.src0[i] = slot.rs_z}
        stale == zeroed \cup {i \in slot.range : slot.src0[i] # i \/ GroupOf(slot.memory, i) # 0}
        spoiled == SeqsIn(u) \cup UNION {slot.memory.cells[i].seq_id : i \in stale}
        gone == {s \in SeqId : m.tail[s] < 0}
    IN /\ memory' = m
       /\ seen' = [s \in SeqId |-> IF s \in gone THEN <<>> ELSE seen[s]]
       /\ at' = [s \in SeqId |-> IF s \in gone THEN -1 ELSE at[s]]
       /\ failed' = (failed \cup spoiled) \ gone /\ astray' = astray \ gone
       /\ soiled' = soiled \cup (stale \ InUse(slot.memory.cells))
       /\ fresh' = [s \in SeqId |-> 0] /\ swept' = {}

\* It leaves the sequences in their states that are in cells whose state would not have moved.
LEMMA FailTrue == ASSUME RInv, SInv, Fail PROVE SInv'
<1> DEFINE u == Head(ubatches)
           slot == FindSlot(memory, u)
           n == slot.memory
           x == IndexTaken(n, slot.range)
           m == UbatchRemoved(x, u)
           stale == {i \in slot.range : slot.src0[i] = slot.rs_z \/ slot.src0[i] # i \/ GroupOf(n, i) # 0}
           gone == {s \in SeqId : m.tail[s] < 0}
<1>1. /\ ubatches # <<>> /\ setup' = setup /\ data' = data /\ saved' = saved /\ called' = called /\ ubatches' = <<>>
      /\ GraphFailed(u, slot, m)
  <2>1. ubatches # <<>> /\ setup' = setup /\ data' = data /\ saved' = saved /\ called' = called /\ ubatches' = <<>>
    BY DEF Fail
  <2>2. \E v \in {u} : \E w \in {FindSlot(memory, v)} : \E o \in {UbatchRemoved(IndexTaken(w.memory, w.range), v)} : GraphFailed(v, w, o)
    BY DEF Fail, GraphFailed
  <2> QED
    BY <2>1, <2>2
<1>2. UbatchOK(u)
  BY RestIsOK DEF Fail, RInv
<1>3. PICK T : ubatches \in Seq(T)
  BY DEF RInv, UbatchesOK
<1>4. Single(u)
  <2>1. 1 \in DOMAIN ubatches /\ u = ubatches[1]
    BY <1>1, <1>3
  <2> QED
    BY <2>1 DEF SInv, RestOK, Single
<1>5. setup.n_rs_seq \in Nat /\ Good(memory) /\ IndexOK(memory) /\ Group' = Group /\ 0 \in Group
  BY <1>1, SetupIs, GroupIs DEF RInv, SInv, Group
<1> HIDE DEF u
<1>6. SlotOK(memory, u, slot)
  BY <1>2, <1>5, FindSlotIs DEF Good
<1> HIDE DEF slot
<1>7. Good(n) /\ Good(x) /\ x.tail = n.tail /\ x.cells = n.cells /\ Parted(x, SeqsIn(u)) /\ n \in Memories /\ Linked(n)
  <2>1. Good(n)
    BY <1>5, <1>6 DEF SlotOK, Good
  <2> QED
    BY <1>2, <1>4, <1>5, <1>6, <2>1, IndexTakenIs, SlotParts DEF Good, Sound
<1> HIDE DEF x
<1>8. Good(m) /\ IndexOK(m) /\ Unharmed(x, m, SeqsIn(u))
  BY <1>2, <1>5, <1>7, UbatchUnharmed DEF Parted
<1> HIDE DEF m
<1>9. /\ memory' = m
      /\ seen' = [s \in SeqId |-> IF s \in gone THEN <<>> ELSE seen[s]]
      /\ at' = [s \in SeqId |-> IF s \in gone THEN -1 ELSE at[s]]
      /\ failed' = (failed \cup SeqsIn(u) \cup UNION {n.cells[i].seq_id : i \in stale}) \ gone
      /\ astray' = astray \ gone /\ soiled' = soiled \cup (stale \ InUse(n.cells))
      /\ fresh' = [s \in SeqId |-> 0] /\ swept' = {}
  <2>1. stale = {i \in slot.range : slot.src0[i] = slot.rs_z} \cup {i \in slot.range : slot.src0[i] # i \/ GroupOf(n, i) # 0}
    OBVIOUS
  <2> HIDE DEF stale
  <2> QED
    BY <1>1, <2>1 DEF GraphFailed
<1>10. slot.range \in SUBSET Cell
  BY <1>6 DEF SlotOK
<1>11. ASSUME NEW s \in SeqId \ (failed' \cup astray') PROVE StateHeld(memory', data', seen', at', s)
  <2>1. CASE m.tail[s] < 0
    BY <1>9, <2>1 DEF StateHeld
  <2>2. CASE ~(m.tail[s] < 0)
    <3>1. s \notin gone /\ s \notin failed \cup astray /\ s \notin SeqsIn(u) /\ s \notin UNION {n.cells[i].seq_id : i \in stale}
      BY <1>9, <2>2
    <3>2. m.tail[s] = n.tail[s] /\ m.rs_idx[s] = x.rs_idx[s] /\ (n.tail[s] >= 0 => m.cells[n.tail[s]].pos = n.cells[n.tail[s]].pos)
      BY <1>7, <1>8, <3>1 DEF Unharmed
    <3>3. ~(memory.tail[s] < 0)
      <4> SUFFICES ASSUME memory.tail[s] < 0 PROVE FALSE
        OBVIOUS
      <4>1. n.tail[s] < 0
        BY <1>6, <3>1 DEF SlotOK
      <4> QED
        BY <2>2, <3>2, <4>1
    <3>4. Elsewhere(memory, u, slot, s)
      BY <1>2, <1>5, <1>6, <3>1, <3>3, ElsewhereIs
    <3> DEFINE i == n.tail[s]
    <3>5. /\ i \in Cell /\ i >= 0 /\ s \in n.cells[i].seq_id /\ n.cells[i].pos = memory.cells[memory.tail[s]].pos
          /\ i \in slot.range => slot.src0[i] = memory.tail[s] /\ GroupOf(n, i) = memory.rs_idx[s] /\ x.rs_idx[s] = 0
          /\ i \notin slot.range => i = memory.tail[s] /\ x.rs_idx[s] = memory.rs_idx[s]
      BY <3>4 DEF Elsewhere, Cell, x
    <3>6. i \notin stale
      BY <3>1, <3>5
    <3>7. i = memory.tail[s] /\ m.rs_idx[s] = memory.rs_idx[s]
      BY <3>2, <3>5, <3>6
    <3>8. StateHeld(memory, data, seen, at, s)
      BY <3>1 DEF SInv, StatesOK
    <3>9. data[memory.rs_idx[s]][memory.tail[s]] = seen[s] /\ memory.cells[memory.tail[s]].pos = at[s]
      BY <3>3, <3>8 DEF StateHeld
    <3>10. seen'[s] = seen[s] /\ at'[s] = at[s]
      BY <1>9, <3>1
    <3> QED
      BY <1>1, <1>9, <2>2, <3>2, <3>5, <3>7, <3>9, <3>10 DEF StateHeld
  <2> QED
    BY <2>1, <2>2
<1>12. StatesOK'
  BY <1>11 DEF StatesOK, StateHeld
<1>13. TypesOK'
  <2>1. seen' \in [SeqId -> Past]
    BY <1>9, PastIs DEF SInv, TypesOK
  <2> QED
    BY <1>1, <1>5, <2>1 DEF SInv, TypesOK
<1>14. SnapshotsOK'
  <2> SUFFICES ASSUME NEW s \in SeqId \ (failed' \cup astray' \cup swept'), memory'.tail[s] >= 0, memory'.rs_idx[s] = 0,
                      NEW r \in Group, r <= fresh'[s]
               PROVE  data'[r][memory'.tail[s]] = Cut(seen'[s], r)
    BY <1>5 DEF SnapshotsOK, SnapshotsHeld
  <2>1. r = 0
    BY <1>5, <1>9, GroupIs
  <2>2. memory'.tail[s] \in Cell /\ ~(memory'.tail[s] < 0)
    BY <1>8, <1>9, CellTypes, SizeIs DEF Good, Sound, Cell
  <2>3. data'[0][memory'.tail[s]] = seen'[s]
    BY <1>11, <2>2 DEF StateHeld
  <2>4. seen'[s] \in Past
    BY <1>13 DEF TypesOK
  <2> QED
    BY <2>1, <2>3, <2>4, PastIs
<1>15. RowsAreZeroed(memory, data, soiled)'
  <2> SUFFICES ASSUME NEW i \in Cell \ soiled', Spare(m, i) PROVE data[0][i] = <<>>
    BY <1>1, <1>9 DEF RowsAreZeroed, Spare
  <2>1. Spare(n, i) /\ n.cells[i].seq_id = {} /\ i \notin InUse(n.cells)
    BY <1>7, <1>8 DEF Unharmed, Spare, InUse
  <2>2. /\ i \notin slot.range => Spare(memory, i)
        /\ i \in slot.range => StartsEmpty(memory, slot, i)
    BY <1>2, <1>6, <2>1, SpareAfterwards
  <2>3. i \notin stale /\ i \notin soiled
    BY <1>9, <2>1
  <2>4. Spare(memory, i)
    BY <2>2, <2>3 DEF StartsEmpty
  <2> QED
    BY <2>3, <2>4 DEF SInv, RowsAreZeroed
<1>16. RestOK(ubatches, memory, fresh)'
  <2>1. DOMAIN ubatches' = {} /\ ubatches' = <<>>
    BY <1>1
  <2> QED
    BY <2>1 DEF RestOK
<1>17. SavedOK' /\ IndexOK(memory)'
  BY <1>1, <1>8, <1>9 DEF SInv, SavedOK, IndexOK
<1> QED
  BY <1>12, <1>13, <1>14, <1>15, <1>16, <1>17 DEF SInv

-----------------------------------------------------------------------------
(* A batch: the last ubatch of each sequence                               *)

\* What is new with a batch of n tokens, but for the first
LEMMA FreshIs ==
    ASSUME NEW n \in Nat
    PROVE  /\ Max({1, n}) - 1 \in Nat /\ (n = 0 => Max({1, n}) - 1 = 0)
           /\ n > 0 => Max({1, n}) - 1 = n - 1
<1> DEFINE S == {1, n}
<1>1. \E x \in S : \A y \in S : x >= y
  <2>1. CASE n = 0
    BY <2>1
  <2>2. CASE n # 0
    BY <2>2
  <2> QED
    BY <2>1, <2>2
<1> HIDE DEF S
<1>2. Max(S) \in S /\ \A y \in S : Max(S) >= y
  BY <1>1 DEF Max
<1> QED
  BY <1>2 DEF S

\* A ubatch has the sequences of its entries, and so many tokens of each as it has entries with the
\* sequences of one of them.
UbatchHas(batch, part, u) ==
    /\ u.k \in Nat \ {0}
    /\ \A i \in ToSet(part) : \A s \in batch[i].seqs : s \in SeqsIn(u)
    /\ \A j \in DOMAIN u.sets : \E i \in ToSet(part) : u.sets[j] = batch[i].seqs
    /\ NoRepeats(part) => \E i \in ToSet(part) : u.k = Cardinality(Share(batch, part, batch[i].seqs))

\* So have the ubatches of a split.
LEMMA UbatchOfHas ==
    ASSUME NEW batch, NEW part \in Seq(DOMAIN batch), part # <<>>
    PROVE  UbatchHas(batch, part, UbatchOf(batch, part))
<1> DEFINE D == DOMAIN batch
           sets == SetsOf(batch, part)
           T == {batch[part[j]].seqs : j \in DOMAIN part}
           first == Among(part, Of(batch, sets[1]))
           u == UbatchOf(batch, part)
<1>1. sets \in Seq(T) /\ sets # <<>> /\ \A j \in DOMAIN part : batch[part[j]].seqs \in ToSet(sets)
  BY SetsOfIs
<1>2. u.sets = sets /\ u.k = Len(first)
  BY DEF UbatchOf, Of
<1>3. T = {batch[i].seqs : i \in ToSet(part)}
  BY DEF ToSet
<1>4. \A j \in DOMAIN part : part[j] \in D /\ part[j] \in ToSet(part)
  BY DEF ToSet
<1> HIDE DEF sets, u, T, D
<1>5. 1 \in DOMAIN sets /\ \A j \in DOMAIN sets : sets[j] \in T
  BY <1>1
<1>6. PICK j \in DOMAIN part : batch[part[j]].seqs = sets[1]
  BY <1>5 DEF T
<1>7. part[j] \in Of(batch, sets[1])
  BY <1>4, <1>6 DEF Of, D
<1>8. first # <<>> /\ first \in Seq({t \in D : t \in Of(batch, sets[1])})
  BY <1>7, AmongHas, AmongIs DEF D
<1>9. u.k \in Nat \ {0}
  <2> DEFINE R == {t \in D : t \in Of(batch, sets[1])}
  <2>1. first # <<>> /\ first \in Seq(R)
    BY <1>8
  <2> HIDE DEF R, first
  <2>2. Len(first) \in Nat \ {0}
    BY <2>1
  <2> QED
    BY <1>2, <2>2
<1>10. ASSUME NEW i \in ToSet(part), NEW s \in batch[i].seqs PROVE s \in SeqsIn(u)
  <2>1. PICK l \in DOMAIN part : i = part[l]
    BY DEF ToSet
  <2>2. PICK k \in DOMAIN sets : sets[k] = batch[i].seqs
    BY <1>1, <2>1 DEF ToSet
  <2> QED
    BY <1>2, <1>10, <2>2 DEF SeqsIn
<1>11. \A k \in DOMAIN u.sets : \E i \in ToSet(part) : u.sets[k] = batch[i].seqs
  BY <1>2, <1>3, <1>5
<1>12. ASSUME NoRepeats(part) PROVE \E i \in ToSet(part) : u.k = Cardinality(Share(batch, part, batch[i].seqs))
  <2>1. Len(first) = Cardinality(ToSet(part) \cap Of(batch, sets[1]))
    BY <1>12, AmongKeeps
  <2> QED
    BY <1>2, <1>4, <1>6, <2>1 DEF Share
<1> QED
  BY <1>9, <1>10, <1>11, <1>12 DEF UbatchHas, u

\* The last ubatch of a sequence has its last n_rs_seq + 1 tokens, or all of them.
LEMMA LastUbatchHas ==
    ASSUME NEW E, NEW batch \in Seq(E), NEW parts, NEW n_rs_seq \in Nat, TailsTogether(batch, parts, n_rs_seq + 1),
           UsedIn(parts) = DOMAIN batch, \A i \in DOMAIN batch : \E s \in SeqId : batch[i].seqs = {s},
           NEW us, DOMAIN us = DOMAIN parts, \A n \in DOMAIN parts : UbatchHas(batch, parts[n], us[n]),
           NEW n \in DOMAIN parts, NEW s \in SeqsIn(us[n]), \A l \in DOMAIN parts : l > n => s \notin SeqsIn(us[l]),
           NEW r \in Nat, r <= n_rs_seq, r <= Max({1, Cardinality(TokensOf(batch, s))}) - 1
    PROVE  r < us[n].k
<1>1. \A i \in DOMAIN batch : s \in batch[i].seqs => batch[i].seqs = {s}
  OBVIOUS
<1>2. \A l \in DOMAIN parts : ToSet(parts[l]) \subseteq DOMAIN batch
  BY DEF UsedIn
<1>3. TokensOf(batch, s) = Of(batch, {s})
  BY <1>1 DEF TokensOf, Of
<1>4. PICK i \in ToSet(parts[n]) : s \in batch[i].seqs
  BY DEF UbatchHas, SeqsIn
<1>5. i \in Share(batch, parts[n], {s})
  BY <1>1, <1>2, <1>4 DEF Share, Of
<1>6. ASSUME NEW l \in DOMAIN parts, l > n PROVE Share(batch, parts[l], {s}) = {}
  <2>1. \A j \in Share(batch, parts[l], {s}) : j \in ToSet(parts[l]) /\ s \in batch[j].seqs
    BY DEF Share, Of
  <2> QED
    BY <1>6, <2>1 DEF UbatchHas
<1>7. Of(batch, {s}) \subseteq UsedIn(parts)
  BY DEF Of
<1>8. \/ Share(batch, parts[n], {s}) = Of(batch, {s})
      \/ Cardinality(Share(batch, parts[n], {s})) >= n_rs_seq + 1
  BY <1>5, <1>6, <1>7 DEF TailsTogether
<1>9. us[n].k = Cardinality(Share(batch, parts[n], {s})) /\ us[n].k \in Nat \ {0}
  <2>1. Even(batch, parts[n]) /\ UbatchHas(batch, parts[n], us[n])
    BY DEF TailsTogether
  <2>2. PICK j \in ToSet(parts[n]) : us[n].k = Cardinality(Share(batch, parts[n], batch[j].seqs))
    BY <2>1 DEF UbatchHas, Even
  <2>3. j \in Share(batch, parts[n], batch[j].seqs)
    BY <1>2 DEF Share, Of
  <2>4. Cardinality(Share(batch, parts[n], batch[j].seqs)) = Cardinality(Share(batch, parts[n], {s}))
    BY <1>5, <2>1, <2>3 DEF Even
  <2> QED
    BY <2>1, <2>2, <2>4 DEF UbatchHas
<1>10. CASE Share(batch, parts[n], {s}) = Of(batch, {s})
  <2> DEFINE k == us[n].k
  <2>1. k \in Nat \ {0} /\ Cardinality(TokensOf(batch, s)) = k
    BY <1>3, <1>9, <1>10
  <2> HIDE DEF k
  <2>2. Max({1, k}) - 1 = k - 1
    BY <2>1, FreshIs
  <2>3. r <= k - 1
    BY <2>1, <2>2
  <2>4. r < k
    BY <2>1, <2>3
  <2> QED
    BY <2>4 DEF k
<1>11. CASE Cardinality(Share(batch, parts[n], {s})) >= n_rs_seq + 1
  BY <1>9, <1>11
<1> QED
  BY <1>8, <1>10, <1>11

\* Where there are rollbacks, the tokens of a batch have one sequence each.
DraftsAreApart ==
    \A x \in Setups : x.n_rs_seq > 0 => \A shape \in x.shapes : \A k \in DOMAIN shape : \E s \in SeqId : shape[k] = {s}

\* What llama_decode plans keeps the snapshots that may be asked for.
LEMMA PlanIsOK ==
    ASSUME DraftsAreApart, RInv, NEW shape \in setup.shapes, NEW all \in BOOLEAN, Decode(shape, all)
    PROVE  /\ RestOK(ubatches', memory, fresh') /\ fresh' \in [SeqId -> Nat]
           /\ \A s \in SeqId : ~Pending(ubatches', s) => fresh'[s] = 0
<1> DEFINE batch == BatchOf(shape)
           parts == Split(batch, all)
           us == [n \in DOMAIN parts |-> UbatchOf(batch, parts[n])]
           D == DOMAIN batch
<1>1. /\ \A k \in D : batch[k].pos <= MaxPos
      /\ all => ~Coupled(batch) /\ setup.n_rs_seq = 0
      /\ UNION {ToSet(parts[n]) : n \in DOMAIN parts} = D
      /\ ubatches' = us
      /\ fresh' = [s \in SeqId |-> Max({1, Cardinality(TokensOf(batch, s))}) - 1]
  BY DEF Decode
<1>2. /\ shape \in Seq((SUBSET SeqId) \ {{}}) /\ setup \in Setups /\ setup.n_rs_seq \in Nat /\ setup.n_ubatch \in Nat
      /\ setup.n_ubatch > setup.n_rs_seq + 1
  BY SetupIs DEF RInv
<1>3. D = DOMAIN shape /\ \A k \in D : batch[k].seqs = shape[k]
  BY DEF BatchOf
<1>p. parts = Split(batch, all)
  OBVIOUS
<1>u. DOMAIN us = DOMAIN parts /\ \A n \in DOMAIN parts : us[n] = UbatchOf(batch, parts[n])
  OBVIOUS
<1> HIDE DEF parts, us
<1>4. batch \in Batches
  BY <1>1, <1>2, BatchOfIs DEF RInv
<1> HIDE DEF batch
<1>5. parts \in TogetherParts(batch)
  BY <1>1, <1>2, <1>4, <1>p, SplitIs
<1>6. ASSUME NEW n \in DOMAIN parts PROVE UbatchHas(batch, parts[n], us[n])
  <2> DEFINE Q == {p \in Seq(DOMAIN batch) : p # <<>> /\ Together(batch, p)}
  <2>1. parts \in Seq(Q)
    BY <1>5 DEF TogetherParts
  <2> HIDE DEF Q
  <2>2. parts[n] \in Q
    BY <1>6, <2>1
  <2>3. parts[n] \in Seq(DOMAIN batch) /\ parts[n] # <<>>
    BY <2>2 DEF Q
  <2> QED
    BY <1>6, <1>u, <2>3, UbatchOfHas
<1>7. UsedIn(parts) = D
  BY <1>1 DEF UsedIn
<1>8. ASSUME NEW s \in SeqId PROVE Cardinality(TokensOf(batch, s)) \in Nat /\ (~Pending(us, s) => Cardinality(TokensOf(batch, s)) = 0)
  <2>1. IsFiniteSet(D) /\ TokensOf(batch, s) \in SUBSET D
    <3>1. Len(batch) \in Nat /\ D = 1 .. Len(batch)
      BY <1>4 DEF Batches
    <3>2. IsFiniteSet(1 .. Len(batch))
      <4>1. 1 \in Int /\ Len(batch) \in Int
        BY <3>1
      <4> QED
        BY <4>1, FS_Interval
    <3> QED
      BY <3>1, <3>2 DEF TokensOf
  <2>2. Cardinality(TokensOf(batch, s)) \in Nat
    BY <2>1, FS_Subset, FS_CardinalityType
  <2>3. ASSUME ~Pending(us, s) PROVE TokensOf(batch, s) = {}
    <3> SUFFICES ASSUME NEW k \in TokensOf(batch, s) PROVE FALSE
      OBVIOUS
    <3>1. k \in D /\ s \in batch[k].seqs
      BY DEF TokensOf
    <3>2. PICK n \in DOMAIN parts : k \in ToSet(parts[n])
      BY <1>7, <3>1 DEF UsedIn
    <3>3. s \in SeqsIn(us[n])
      BY <1>6, <3>1, <3>2 DEF UbatchHas
    <3> QED
      BY <1>u, <2>3, <3>3 DEF Pending
  <2> QED
    BY <2>2, <2>3, FS_EmptySet
<1>9. fresh' \in [SeqId -> Nat] /\ \A s \in SeqId : ~Pending(us, s) => fresh'[s] = 0
  <2> SUFFICES ASSUME NEW s \in SeqId
               PROVE  /\ Max({1, Cardinality(TokensOf(batch, s))}) - 1 \in Nat
                      /\ ~Pending(us, s) => Max({1, Cardinality(TokensOf(batch, s))}) - 1 = 0
    BY <1>1
  <2> QED
    BY <1>8, FreshIs
<1>10. \A n \in DOMAIN us : us[n].k \in Nat \ {0}
  BY <1>6, <1>u DEF UbatchHas
<1>11. ASSUME setup.n_rs_seq > 0 PROVE \A i \in D : \E s \in SeqId : batch[i].seqs = {s}
  BY <1>2, <1>3, <1>11 DEF DraftsAreApart
<1>12. ASSUME setup.n_rs_seq > 0, NEW n \in DOMAIN us, NEW k \in DOMAIN us[n].sets PROVE \E s \in SeqId : us[n].sets[k] = {s}
  <2>1. PICK i \in ToSet(parts[n]) : us[n].sets[k] = batch[i].seqs
    BY <1>6, <1>u, <1>12 DEF UbatchHas
  <2>2. i \in D
    BY <1>7, <1>u, <2>1 DEF UsedIn
  <2> QED
    BY <1>11, <1>12, <2>1, <2>2
<1>13. ASSUME NEW n \in DOMAIN us, NEW s \in SeqsIn(us[n]), \A l \in DOMAIN us : l > n => s \notin SeqsIn(us[l]),
              NEW r \in Group, r <= fresh'[s]
       PROVE  r < us[n].k
  <2>1. CASE setup.n_rs_seq = 0
    BY <1>10, <2>1 DEF Group
  <2>2. CASE setup.n_rs_seq > 0
    <3> DEFINE tail == IF setup.n_rs_seq > 0 THEN setup.n_rs_seq + 1 ELSE 0
    <3>1. ~all /\ tail = setup.n_rs_seq + 1 /\ tail \in 1 .. setup.n_ubatch
      BY <1>1, <1>2, <2>2
    <3>2. parts = AllEqual(batch, setup.n_ubatch, setup.sequential, tail)
      BY <1>p, <3>1 DEF Split
    <3> HIDE DEF tail
    <3>3. Owned(batch)
      BY <1>11, <2>2 DEF Owned
    <3>4. PICK E : batch \in Seq(E)
      BY <1>4 DEF Batches
    <3>5. TailsTogether(batch, parts, tail)
      BY <1>2, <3>1, <3>2, <3>3, <3>4, AllEqualKeepsTails
    <3>6. s \in SeqId
      <4>1. PICK k \in DOMAIN us[n].sets : s \in us[n].sets[k]
        BY DEF SeqsIn
      <4> QED
        BY <1>12, <2>2, <4>1
    <3>7. r \in Nat /\ r <= setup.n_rs_seq
      BY <1>2 DEF Group
    <3>8. r <= Max({1, Cardinality(TokensOf(batch, s))}) - 1
      BY <1>1, <1>13, <3>6
    <3>9. \A l \in DOMAIN parts : l > n => s \notin SeqsIn(us[l])
      BY <1>13, <1>u
    <3>10. UsedIn(parts) = DOMAIN batch /\ n \in DOMAIN parts /\ \A i \in DOMAIN batch : \E z \in SeqId : batch[i].seqs = {z}
      BY <1>7, <1>11, <1>13, <1>u, <2>2
    <3> DEFINE g == setup.n_rs_seq
    <3>11. g \in Nat /\ TailsTogether(batch, parts, g + 1) /\ r <= g
      BY <1>2, <3>1, <3>5, <3>7
    <3> HIDE DEF g, D
    <3> QED
      BY <1>6, <1>u, <3>4, <3>7, <3>8, <3>9, <3>10, <3>11, LastUbatchHas
  <2> QED
    BY <1>2, <2>1, <2>2
<1>14. RestOK(us, memory, fresh')
  BY <1>9, <1>10, <1>12, <1>13 DEF RestOK
<1> QED
  BY <1>1, <1>9, <1>14

\* A batch finds every sequence in its state.
LEMMA DecodeTrue ==
    ASSUME DraftsAreApart, RInv, SInv, NEW shape \in setup.shapes, NEW all \in BOOLEAN, Decode(shape, all)
    PROVE  SInv'
<1>1. /\ setup' = setup /\ called' \in Nat /\ UNCHANGED <<memory, data, saved, seen, at, astray, failed, soiled>> /\ swept' = {}
  BY DEF Decode, Call, SInv, TypesOK
<1>2. Group' = Group /\ setup.n_rs_seq \in Nat
  BY <1>1, SetupIs DEF Group, RInv
<1>3. /\ RestOK(ubatches', memory, fresh')
      /\ \A s \in SeqId : ~Pending(ubatches', s) => fresh'[s] = 0
  BY PlanIsOK
<1>4. TypesOK' /\ SavedOK'
  BY <1>1, <1>2 DEF SInv, TypesOK, SavedOK
<1>5. IndexOK(memory)'
  BY <1>1 DEF SInv, IndexOK
<1>6. RestOK(ubatches, memory, fresh)'
  BY <1>1, <1>2, <1>3 DEF RestOK, Pending, SeqsIn
<1>7. StatesOK'
  BY <1>1 DEF SInv, StatesOK, StateHeld
<1>8. SnapshotsOK'
  <2> SUFFICES ASSUME NEW s \in SeqId \ (failed \cup astray), memory.tail[s] >= 0, memory.rs_idx[s] = 0, ~Pending(ubatches', s),
                      NEW r \in Group, r <= fresh'[s]
               PROVE  data[r][memory.tail[s]] = Cut(seen[s], r)
    BY <1>1, <1>2 DEF SnapshotsOK, SnapshotsHeld, Pending, SeqsIn
  <2>1. r = 0
    BY <1>2, <1>3 DEF Group
  <2>2. StateHeld(memory, data, seen, at, s) /\ seen[s] \in Past
    BY DEF SInv, StatesOK, TypesOK
  <2>3. ~(memory.tail[s] < 0)
    BY CellTypes, SizeIs DEF RInv, Good, Sound
  <2>4. data[0][memory.tail[s]] = seen[s]
    BY <2>2, <2>3 DEF StateHeld
  <2> QED
    BY <2>1, <2>2, <2>4, PastIs
<1>9. RowsAreZeroed(memory, data, soiled)'
  BY <1>1 DEF SInv, RowsAreZeroed, Spare
<1> QED
  BY <1>4, <1>5, <1>6, <1>7, <1>8, <1>9 DEF SInv

\* Every step keeps every sequence in its state.
LEMMA SInvNext == ASSUME CarefulOwners, DraftsAreApart PROVE RInv /\ SInv /\ [Next]_vars => SInv'
<1> SUFFICES ASSUME RInv, SInv, [Next]_vars PROVE SInv'
  OBVIOUS
<1>1. CASE UNCHANGED vars
  <2>1. UNCHANGED <<setup, memory, data, ubatches, saved, seen, at, fresh, swept, astray, failed, soiled, called>>
    BY <1>1 DEF vars
  <2>2. Group' = Group
    BY <2>1 DEF Group
  <2>3. TypesOK' /\ SavedOK'
    BY <2>1, <2>2 DEF SInv, TypesOK, SavedOK
  <2>4. IndexOK(memory)' /\ StatesOK'
    BY <2>1 DEF SInv, IndexOK, StatesOK, StateHeld
  <2>5. RestOK(ubatches, memory, fresh)'
    BY <2>1, <2>2 DEF SInv, RestOK, Pending, SeqsIn
  <2>6. SnapshotsOK' /\ RowsAreZeroed(memory, data, soiled)'
    BY <2>1, <2>2 DEF SInv, SnapshotsOK, SnapshotsHeld, Pending, SeqsIn, RowsAreZeroed, Spare
  <2> QED
    BY <2>3, <2>4, <2>5, <2>6 DEF SInv
<1>2. ASSUME NEW s \in SeqId, Load(s) PROVE SInv'
  BY <1>2, LoadNothingTrue, LoadStateTrue
<1>3. CASE Next
  BY <1>2, <1>3, ClearTrue, RemoveAnyTrue, RemoveSeqTrue, KeepTrue, SaveTrue, RollbackTrue, CopyTrue, ShiftTrue,
     DecodeTrue, EvaluateTrue, FailTrue DEF Next
<1> QED
  BY <1>1, <1>3

\* Whatever the owners call and whichever graphs fail, every sequence is in the state after its own tokens,
\* but for those that a failed graph has spoiled or a rollback after a move of their cell has led astray
\* (the findings), if the owners are careful and the tokens of a draft have one sequence each.
THEOREM StateIsTrueAlways == CarefulOwners /\ DraftsAreApart => (Spec => []StateIsTrue)
<1> SUFFICES ASSUME CarefulOwners, DraftsAreApart PROVE Spec => []StateIsTrue
  OBVIOUS
<1>1. RInv /\ SInv /\ [Next]_vars => RInv' /\ SInv'
  BY RInvNext, SInvNext
<1>2. RInv /\ SInv => StateIsTrue
  BY SInvTrue
<1>3. Init => RInv /\ SInv
  BY RInvInit, SInvInit
<1> QED
  BY <1>1, <1>2, <1>3, PTL DEF Spec

=============================================================================
