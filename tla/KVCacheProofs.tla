---------------------------- MODULE KVCacheProofs ----------------------------
(***************************************************************************)
(* In every stream of the KV cache, the used cells and the counts of       *)
(* positions are what the cells say, for any number of cells, sequences,   *)
(* positions and tokens, any batches and any calls (CellsAgree).           *)
(*                                                                         *)
(* The member functions of llama_kv_cells each change one cell.  Whether   *)
(* that cell counts at a position of a sequence is a bit, and a count that *)
(* changes by the difference of the bits before and after is right again.  *)
(* The cache calls them in loops over cells, sequences and tokens.  A loop *)
(* is a recursive function; LoopExists and LoopReaches (SequenceProofs)    *)
(* give its value.  Each loop of the cache has a lemma, each action of the *)
(* model one for the invariant.                                            *)
(***************************************************************************)
EXTENDS KVCache, SequenceProofs

-----------------------------------------------------------------------------
(* The member functions of llama_kv_cells                                  *)

\* What cell i adds to the count of position p of sequence s
Bit(c, i, s, p) == IF s \in c.seq[i] /\ c.pos[i] = p THEN 1 ELSE 0

\* The cells of a sequence at a position are finitely many.
LEMMA CellsAtIsFinite ==
    ASSUME NEW c, NEW s, NEW p
    PROVE  IsFiniteSet(CellsAt(c, s, p)) /\ Cardinality(CellsAt(c, s, p)) \in Nat
<1>1. IsFiniteSet(Cell)
  BY FS_Interval, CellsAssumption DEF Cell
<1>2. CellsAt(c, s, p) \subseteq Cell
  BY DEF CellsAt
<1> QED
  BY <1>1, <1>2, FS_Subset, FS_CardinalityType

\* Taking cell i out of a count lowers it by one exactly when i was in it.
LEMMA CountWithout ==
    ASSUME NEW c, NEW i \in Cell, NEW s, NEW p
    PROVE  Cardinality(CellsAt(c, s, p) \ {i}) = Cardinality(CellsAt(c, s, p)) - Bit(c, i, s, p)
<1>1. Cardinality(CellsAt(c, s, p) \ {i}) =
         IF i \in CellsAt(c, s, p) THEN Cardinality(CellsAt(c, s, p)) - 1
                                   ELSE Cardinality(CellsAt(c, s, p))
  BY CellsAtIsFinite, FS_RemoveElement
<1>2. i \in CellsAt(c, s, p) <=> Bit(c, i, s, p) = 1
  BY DEF CellsAt, Bit
<1>3. Bit(c, i, s, p) \in {0, 1}
  BY DEF Bit
<1> QED
  BY <1>1, <1>2, <1>3, CellsAtIsFinite

\* Cells other than i are the same in c and d.
SameBut(c, d, i) == \A j \in Cell \ {i} : d.pos[j] = c.pos[j] /\ d.seq[j] = c.seq[j] /\ d.shift[j] = c.shift[j]

\* From c to d only cell i changes, and a shift that is not lost stays with its position.
Touches(c, d, i) ==
    /\ SameBut(c, d, i) /\ d.has_shift = c.has_shift
    /\ d.shift[i] = 0 \/ (d.shift[i] = c.shift[i] /\ d.pos[i] = c.pos[i])

\* The counts of c, less what cell i was, plus what it is in d
Recounted(c, d, i) ==
    \A s \in SeqId : \A p \in Pos :
        d.seq_pos[s][p] = c.seq_pos[s][p] - Bit(c, i, s, p) + Bit(d, i, s, p)

\* An operation that touches cell i only, and corrects the counters of the positions for
\* it, leaves every counter equal to the number of cells it counts.
LEMMA OneCell ==
    ASSUME NEW c, NEW d, NEW i \in Cell, CellsOK(c), SameBut(c, d, i), Recounted(c, d, i)
    PROVE  \A s \in SeqId : \A p \in Pos : d.seq_pos[s][p] = Cardinality(CellsAt(d, s, p))
<1> TAKE s \in SeqId
<1> TAKE p \in Pos
<1>1. CellsAt(d, s, p) \ {i} = CellsAt(c, s, p) \ {i}
  BY DEF CellsAt, SameBut
<1>2. Cardinality(CellsAt(d, s, p)) - Bit(d, i, s, p) = Cardinality(CellsAt(c, s, p)) - Bit(c, i, s, p)
  <2>1. Cardinality(CellsAt(c, s, p) \ {i}) = Cardinality(CellsAt(c, s, p)) - Bit(c, i, s, p)
    BY CountWithout
  <2>2. Cardinality(CellsAt(d, s, p) \ {i}) = Cardinality(CellsAt(d, s, p)) - Bit(d, i, s, p)
    BY CountWithout
  <2> QED
    BY <1>1, <2>1, <2>2
<1>3. c.seq_pos[s][p] = Cardinality(CellsAt(c, s, p))
  BY DEF CellsOK
<1>4. Bit(c, i, s, p) \in Int /\ Bit(d, i, s, p) \in Int
  BY DEF Bit
<1> QED
  BY <1>2, <1>3, <1>4, CellsAtIsFinite DEF Recounted

\* What the record has in the middle of a function, where a count may be behind
LooseCells ==
    [pos : [Cell -> Int], shift : [Cell -> Int], seq : [Cell -> SUBSET SeqId],
     used : SUBSET Cell, seq_pos : [SeqId -> [Pos -> Int]], has_shift : BOOLEAN]

\* Sound cells have fields of the types the operations below start from.
LEMMA CellsAreLoose == ASSUME NEW c, CellsOK(c) PROVE c \in LooseCells
<1>1. c \in CellsRecord
  BY DEF CellsOK
<1>2. c.pos \in [Cell -> Int] /\ c.seq_pos \in [SeqId -> [Pos -> Int]]
  BY <1>1 DEF CellsRecord, Pos
<1> QED
  BY <1>1, <1>2 DEF CellsRecord, LooseCells

\* A change of one cell that recounts its position keeps the record right.
LEMMA ChangeOfCell ==
    ASSUME NEW c, NEW d \in LooseCells, NEW i \in Cell, CellsOK(c),
           SameBut(c, d, i), Recounted(c, d, i),
           d.pos[i] \in {-1} \cup Pos,
           d.used = IF d.pos[i] = -1 THEN c.used \ {i} ELSE c.used \cup {i},
           d.pos[i] = -1 => d.seq[i] = {} /\ d.shift[i] = 0
    PROVE  CellsOK(d)
<1>1. \A s \in SeqId : \A p \in Pos : d.seq_pos[s][p] = Cardinality(CellsAt(d, s, p))
  BY OneCell
<1>2. d.seq_pos \in [SeqId -> [Pos -> Nat]]
  <2>1. \A s \in SeqId : \A p \in Pos : d.seq_pos[s][p] \in Nat
    BY <1>1, CellsAtIsFinite
  <2>2. \A s \in SeqId : d.seq_pos[s] \in [Pos -> Nat]
    BY <2>1 DEF LooseCells
  <2> QED
    BY <2>2 DEF LooseCells
<1>3. d.used = {j \in Cell : ~IsEmpty(d, j)}
  BY DEF CellsOK, IsEmpty, SameBut
<1>4. \A j \in Cell : IsEmpty(d, j) => d.seq[j] = {} /\ d.shift[j] = 0
  BY DEF CellsOK, IsEmpty, SameBut
<1>5. d.pos \in [Cell -> {-1} \cup Pos]
  BY DEF CellsOK, CellsRecord, SameBut, LooseCells
<1>6. d \in CellsRecord
  BY <1>2, <1>5 DEF CellsRecord, LooseCells
<1> QED
  BY <1>1, <1>3, <1>4, <1>6 DEF CellsOK

-----------------------------------------------------------------------------
(* The steps the member functions are made of                              *)

\* Position q counts n more for the sequences in S, and nothing else changes.
CountedCells(c, d, S, q, n) ==
    /\ d \in LooseCells
    /\ d.pos = c.pos /\ d.shift = c.shift /\ d.seq = c.seq /\ d.used = c.used /\ d.has_shift = c.has_shift
    /\ \A s \in SeqId : \A p \in Pos :
          d.seq_pos[s][p] = c.seq_pos[s][p] + (IF s \in S /\ p = q THEN n ELSE 0)

\* Counted changes the counters of the given sequences at one position, and nothing else.
LEMMA CountCells ==
    ASSUME NEW c \in LooseCells, NEW S, NEW q \in Pos, NEW n \in Int
    PROVE  CountedCells(c, [c EXCEPT !.seq_pos = Counted(c.seq_pos, S, q, n)], S, q, n)
<1> DEFINE d == [c EXCEPT !.seq_pos = Counted(c.seq_pos, S, q, n)]
<1> DEFINE f == Counted(c.seq_pos, S, q, n)
<1>1. c.seq_pos \in [SeqId -> [Pos -> Int]]
  BY DEF LooseCells
<1>2. /\ f \in [SeqId -> [Pos -> Int]]
      /\ \A s \in SeqId : \A p \in Pos :
            f[s][p] = c.seq_pos[s][p] + (IF s \in S /\ p = q THEN n ELSE 0)
  <2>1. \A s \in SeqId : [c.seq_pos[s] EXCEPT ![q] = @ + n] \in [Pos -> Int]
    BY <1>1
  <2>2. f = [s \in SeqId |-> IF s \in S THEN [c.seq_pos[s] EXCEPT ![q] = @ + n] ELSE c.seq_pos[s]]
    BY DEF Counted
  <2> QED
    BY <1>1, <2>1, <2>2
<1>3. d = [c EXCEPT !.seq_pos = f]
  OBVIOUS
<1> HIDE DEF f, d
<1>4. d.seq_pos = f
  BY <1>3 DEF LooseCells
<1>5. CountedCells(c, d, S, q, n)
  BY <1>2, <1>3, <1>4 DEF LooseCells, CountedCells
<1> QED
  BY <1>5 DEF d

\* What Emptied leaves of a cell, and of the others.
LEMMA EmptiedIs ==
    ASSUME NEW c \in LooseCells, NEW i \in Cell
    PROVE  /\ Emptied(c, i) \in LooseCells
           /\ Emptied(c, i).pos[i] = -1 /\ Emptied(c, i).shift[i] = 0 /\ Emptied(c, i).seq[i] = {}
           /\ SameBut(c, Emptied(c, i), i)
           /\ Emptied(c, i).used = c.used \ {i} /\ Emptied(c, i).seq_pos = c.seq_pos
           /\ Emptied(c, i).has_shift = c.has_shift
<1> DEFINE d == Emptied(c, i)
<1>1. d = [c EXCEPT !.pos = [c.pos EXCEPT ![i] = -1], !.shift = [c.shift EXCEPT ![i] = 0],
                    !.seq = [c.seq EXCEPT ![i] = {}], !.used = c.used \ {i}]
  BY DEF Emptied
<1> HIDE DEF d
<1>2. /\ d.pos = [c.pos EXCEPT ![i] = -1] /\ d.shift = [c.shift EXCEPT ![i] = 0]
      /\ d.seq = [c.seq EXCEPT ![i] = {}] /\ d.used = c.used \ {i}
      /\ d.seq_pos = c.seq_pos /\ d.has_shift = c.has_shift
  BY <1>1 DEF LooseCells
<1>3. d = [pos |-> d.pos, shift |-> d.shift, seq |-> d.seq, used |-> d.used,
           seq_pos |-> d.seq_pos, has_shift |-> d.has_shift]
  BY <1>1 DEF LooseCells
<1>4. d \in LooseCells
  BY <1>2, <1>3 DEF LooseCells
<1>5. d.pos[i] = -1 /\ d.shift[i] = 0 /\ d.seq[i] = {} /\ SameBut(c, d, i)
  BY <1>2 DEF SameBut, LooseCells
<1> QED
  BY <1>2, <1>4, <1>5 DEF d

\* Cell i has the sequences T, and nothing else changes.
Resequenced(c, d, i, T) ==
    /\ d \in LooseCells /\ SameBut(c, d, i)
    /\ d.seq[i] = T /\ d.pos[i] = c.pos[i] /\ d.shift[i] = c.shift[i]
    /\ d.used = c.used /\ d.seq_pos = c.seq_pos /\ d.has_shift = c.has_shift

\* Replacing the sequences of one cell changes nothing else.
LEMMA SetSequences ==
    ASSUME NEW c \in LooseCells, NEW i \in Cell, NEW T \in SUBSET SeqId
    PROVE  Resequenced(c, [c EXCEPT !.seq[i] = T], i, T)
<1> DEFINE d == [c EXCEPT !.seq[i] = T]
<1>1. d = [c EXCEPT !.seq = [c.seq EXCEPT ![i] = T]]
  OBVIOUS
<1> HIDE DEF d
<1>2. /\ d.pos = c.pos /\ d.shift = c.shift /\ d.seq = [c.seq EXCEPT ![i] = T]
      /\ d.used = c.used /\ d.seq_pos = c.seq_pos /\ d.has_shift = c.has_shift /\ d \in LooseCells
  BY <1>1 DEF LooseCells
<1>3. Resequenced(c, d, i, T)
  BY <1>2 DEF LooseCells, Resequenced, SameBut
<1> QED
  BY <1>3 DEF d

-----------------------------------------------------------------------------
(* The member functions, under what they assert                            *)

\* rm of a cell that is in use (llama-kv-cells.h:222-235)
THEOREM RmKeepsCells ==
    ASSUME NEW c, CellsOK(c), NEW i \in Cell, ~IsEmpty(c, i)
    PROVE  CellsOK(Rm(c, i)) /\ Touches(c, Rm(c, i), i) /\ IsEmpty(Rm(c, i), i)
<1> DEFINE e == SeqPosRm(c, i)
           d == Rm(c, i)
<1>1. c \in LooseCells /\ c.pos[i] \in Pos /\ c.pos[i] # -1
  BY CellsAreLoose DEF CellsOK, CellsRecord, IsEmpty
<1>2. CountedCells(c, e, c.seq[i], c.pos[i], -1)
  BY <1>1, CountCells, -1 \in Int DEF SeqPosRm
<1>3. d = Emptied(e, i)
  BY DEF Rm
<1> HIDE DEF d, e
<1>4. /\ d \in LooseCells
      /\ d.pos[i] = -1 /\ d.shift[i] = 0 /\ d.seq[i] = {}
      /\ SameBut(e, d, i) /\ d.used = e.used \ {i} /\ d.seq_pos = e.seq_pos /\ d.has_shift = e.has_shift
  BY <1>2, <1>3, EmptiedIs DEF CountedCells
<1>5. Recounted(c, d, i)
  BY <1>1, <1>2, <1>4 DEF Recounted, Bit, LooseCells, CountedCells
<1>6. SameBut(c, d, i)
  BY <1>2, <1>4 DEF SameBut, CountedCells
<1>7. CellsOK(d) /\ Touches(c, d, i) /\ IsEmpty(d, i)
  BY <1>2, <1>4, <1>5, <1>6, ChangeOfCell DEF CountedCells, Touches, IsEmpty
<1> QED
  BY <1>7 DEF d

\* seq_rm of a sequence that the cell has (llama-kv-cells.h:238-258)
THEOREM SeqRmKeepsCells ==
    ASSUME NEW c, CellsOK(c), NEW i \in Cell, ~IsEmpty(c, i), NEW s \in c.seq[i]
    PROVE  CellsOK(SeqRm(c, i, s)) /\ Touches(c, SeqRm(c, i, s), i)
<1> DEFINE f == Counted(c.seq_pos, {s}, c.pos[i], -1)
           e == [c EXCEPT !.seq_pos = f]
           T == c.seq[i] \ {s}
           g == [e EXCEPT !.seq[i] = T]
           d == SeqRm(c, i, s)
<1>1. c \in LooseCells /\ c.pos[i] \in Pos /\ c.pos[i] # -1 /\ T \in SUBSET SeqId
      /\ i \in c.used
  BY CellsAreLoose DEF CellsOK, CellsRecord, IsEmpty
<1>2. CountedCells(c, e, {s}, c.pos[i], -1)
  BY <1>1, CountCells, -1 \in Int
<1>3. d = IF g.seq[i] = {} THEN Emptied(g, i) ELSE g
  <2>1. [c EXCEPT !.seq[i] = T, !.seq_pos = f] = g
    <3> HIDE DEF f, T
    <3> QED
      BY <1>1 DEF LooseCells
  <2> QED
    BY <2>1 DEF SeqRm
<1>4. Resequenced(e, g, i, T)
  <2> HIDE DEF e, T
  <2> QED
    BY <1>1, <1>2, SetSequences DEF CountedCells
<1> HIDE DEF d, e, f, g
<1>5. CASE g.seq[i] = {}
  <2>1. /\ d \in LooseCells
        /\ d.pos[i] = -1 /\ d.shift[i] = 0 /\ d.seq[i] = {}
        /\ SameBut(g, d, i) /\ d.used = g.used \ {i} /\ d.seq_pos = g.seq_pos /\ d.has_shift = g.has_shift
    BY <1>3, <1>4, <1>5, EmptiedIs DEF Resequenced
  <2>2. Recounted(c, d, i)
    BY <1>1, <1>2, <1>4, <1>5, <2>1 DEF Recounted, Bit, LooseCells, CountedCells, Resequenced
  <2>3. SameBut(c, d, i) /\ d.used = c.used \ {i} /\ d.has_shift = c.has_shift
    BY <1>2, <1>4, <2>1 DEF SameBut, CountedCells, Resequenced
  <2>4. CellsOK(d) /\ Touches(c, d, i)
    BY <2>1, <2>2, <2>3, ChangeOfCell DEF Touches
  <2> QED
    BY <2>4 DEF d
<1>6. CASE g.seq[i] # {}
  <2>1. d = g
    BY <1>3, <1>6
  <2>2. Recounted(c, g, i)
    BY <1>1, <1>2, <1>4 DEF Recounted, Bit, LooseCells, CountedCells, Resequenced
  <2>3. /\ SameBut(c, g, i) /\ g.used = c.used /\ g.pos[i] = c.pos[i]
        /\ g.shift[i] = c.shift[i] /\ g.has_shift = c.has_shift
    BY <1>2, <1>4 DEF SameBut, CountedCells, Resequenced
  <2>4. CellsOK(g) /\ Touches(c, g, i)
    BY <1>1, <1>4, <2>2, <2>3, ChangeOfCell DEF Resequenced, Touches
  <2> QED
    BY <2>1, <2>4 DEF d
<1> QED
  BY <1>5, <1>6

\* seq_add of sequences that the cell does not have (llama-kv-cells.h:309-316), as often as
\* there are
THEOREM SeqsAddKeepsCells ==
    ASSUME NEW c, CellsOK(c), NEW i \in Cell, ~IsEmpty(c, i), NEW S \in SUBSET SeqId,
           S \cap c.seq[i] = {}
    PROVE  CellsOK(SeqsAdd(c, i, S)) /\ Touches(c, SeqsAdd(c, i, S), i) /\ SeqsAdd(c, i, S).pos[i] = c.pos[i]
<1> DEFINE f == Counted(c.seq_pos, S, c.pos[i], 1)
           e == [c EXCEPT !.seq_pos = f]
           T == c.seq[i] \cup S
           d == [e EXCEPT !.seq[i] = T]
<1>1. c \in LooseCells /\ c.pos[i] \in Pos /\ c.pos[i] # -1 /\ T \in SUBSET SeqId
      /\ i \in c.used
  BY CellsAreLoose DEF CellsOK, CellsRecord, IsEmpty
<1>2. CountedCells(c, e, S, c.pos[i], 1)
  BY <1>1, CountCells
<1>3. SeqsAdd(c, i, S) = d
  <2>1. SeqsAdd(c, i, S) = [c EXCEPT !.seq[i] = T, !.seq_pos = f]
    BY DEF SeqsAdd
  <2> HIDE DEF f, T
  <2> QED
    BY <1>1, <2>1 DEF LooseCells
<1>4. Resequenced(e, d, i, T)
  <2> HIDE DEF e, T
  <2> QED
    BY <1>1, <1>2, SetSequences DEF CountedCells
<1> HIDE DEF d, e, f
<1>5. Recounted(c, d, i)
  BY <1>1, <1>2, <1>4 DEF Recounted, Bit, LooseCells, CountedCells, Resequenced
<1>6. /\ SameBut(c, d, i) /\ d.used = c.used /\ d.pos[i] = c.pos[i]
      /\ d.shift[i] = c.shift[i] /\ d.has_shift = c.has_shift
  BY <1>2, <1>4 DEF SameBut, CountedCells, Resequenced
<1>7. d \in LooseCells /\ d.seq[i] = T
  BY <1>4 DEF Resequenced
<1>8. CellsOK(d)
  BY <1>1, <1>5, <1>6, <1>7, ChangeOfCell
<1>9. Touches(c, d, i)
  BY <1>6 DEF Touches
<1> QED
  BY <1>3, <1>6, <1>8, <1>9

\* seq_keep of any cell (llama-kv-cells.h:261-292)
THEOREM SeqKeepKeepsCells ==
    ASSUME NEW c, CellsOK(c), NEW i \in Cell, NEW s \in SeqId
    PROVE  CellsOK(SeqKeep(c, i, s)) /\ Touches(c, SeqKeep(c, i, s), i)
<1>1. c \in LooseCells
  BY CellsAreLoose
<1>2. CASE s \notin c.seq[i] /\ c.seq[i] = {}
  BY <1>2 DEF SeqKeep, Touches, SameBut
<1>3. CASE s \notin c.seq[i] /\ c.seq[i] # {}
  BY <1>3, RmKeepsCells DEF SeqKeep, CellsOK
<1>4. CASE s \in c.seq[i]
  <2> DEFINE b == SeqPosRm(c, i)
             f == Counted(b.seq_pos, {s}, c.pos[i], 1)
             e == [b EXCEPT !.seq_pos = f]
             T == {s}
             d == [e EXCEPT !.seq[i] = T]
  <2>1. c.pos[i] \in Pos /\ c.pos[i] # -1 /\ i \in c.used
    BY <1>4 DEF CellsOK, CellsRecord, IsEmpty
  <2>2. CountedCells(c, b, c.seq[i], c.pos[i], -1)
    BY <1>1, <2>1, CountCells, -1 \in Int DEF SeqPosRm
  <2>3. SeqKeep(c, i, s) = [b EXCEPT !.seq[i] = T, !.seq_pos = f]
    BY <1>4 DEF SeqKeep
  <2> HIDE DEF b
  <2>4. CountedCells(b, e, {s}, c.pos[i], 1)
    <3>1. b \in LooseCells /\ 1 \in Int
      BY <2>2 DEF CountedCells
    <3> QED
      BY <2>1, <3>1, CountCells
  <2>5. SeqKeep(c, i, s) = d
    <3> HIDE DEF f, T
    <3> QED
      BY <2>2, <2>3 DEF LooseCells, CountedCells
  <2>6. Resequenced(e, d, i, T)
    <3>1. e \in LooseCells /\ T \in SUBSET SeqId
      BY <2>4 DEF CountedCells
    <3> HIDE DEF e, T
    <3> QED
      BY <3>1, SetSequences
  <2> HIDE DEF d, e, f
  <2>7. Recounted(c, d, i)
    BY <1>1, <1>4, <2>1, <2>2, <2>4, <2>6
       DEF Recounted, Bit, LooseCells, CountedCells, Resequenced
  <2>8. /\ SameBut(c, d, i) /\ d.used = c.used /\ d.pos[i] = c.pos[i]
        /\ d.shift[i] = c.shift[i] /\ d.has_shift = c.has_shift
    BY <2>2, <2>4, <2>6 DEF SameBut, CountedCells, Resequenced
  <2>9. d \in LooseCells /\ d.seq[i] = T
    BY <2>6 DEF Resequenced
  <2>10. CellsOK(d)
    BY <2>1, <2>7, <2>8, <2>9, ChangeOfCell
  <2>11. Touches(c, d, i)
    BY <2>8 DEF Touches
  <2> QED
    BY <2>5, <2>10, <2>11
<1> QED
  BY <1>2, <1>3, <1>4

\* Cell i has the position p and the shift h, and nothing else changes but has_shift.
Moved(c, d, i, p, h) ==
    /\ d \in LooseCells /\ SameBut(c, d, i)
    /\ d.pos[i] = p /\ d.shift[i] = h /\ d.seq[i] = c.seq[i]
    /\ d.used = c.used /\ d.seq_pos = c.seq_pos /\ d.has_shift = TRUE

\* Changing position and shift of one cell changes nothing else.
LEMMA MoveCell ==
    ASSUME NEW c \in LooseCells, NEW i \in Cell, NEW p \in Int, NEW h \in Int
    PROVE  Moved(c, [c EXCEPT !.pos[i] = p, !.shift[i] = h, !.has_shift = TRUE], i, p, h)
<1> DEFINE d == [c EXCEPT !.pos[i] = p, !.shift[i] = h, !.has_shift = TRUE]
<1>1. d = [c EXCEPT !.pos = [c.pos EXCEPT ![i] = p], !.shift = [c.shift EXCEPT ![i] = h],
                    !.has_shift = TRUE]
  OBVIOUS
<1> HIDE DEF d
<1>2. /\ d.pos = [c.pos EXCEPT ![i] = p] /\ d.shift = [c.shift EXCEPT ![i] = h]
      /\ d.seq = c.seq /\ d.used = c.used /\ d.seq_pos = c.seq_pos /\ d.has_shift = TRUE /\ d \in LooseCells
  BY <1>1 DEF LooseCells
<1>3. Moved(c, d, i, p, h)
  BY <1>2 DEF LooseCells, Moved, SameBut
<1> QED
  BY <1>3 DEF d

\* A cell that was taken out of the counts, moved, and is counted where it is now
LEMMA MovedIsCounted ==
    ASSUME NEW c, CellsOK(c), NEW i \in Cell, ~IsEmpty(c, i), NEW b, NEW e, NEW p \in Pos, NEW h,
           CountedCells(c, b, c.seq[i], c.pos[i], -1), Moved(b, e, i, p, h)
    PROVE  /\ CellsOK(SeqPosAdd(e, i)) /\ SameBut(c, SeqPosAdd(e, i), i)
           /\ SeqPosAdd(e, i).pos[i] = p /\ SeqPosAdd(e, i).shift[i] = h /\ SeqPosAdd(e, i).has_shift = TRUE
<1> DEFINE d == SeqPosAdd(e, i)
<1>1. c \in LooseCells /\ c.pos[i] \in Pos /\ i \in c.used
  BY CellsAreLoose DEF CellsOK, CellsRecord, IsEmpty
<1>2. e \in LooseCells /\ e.pos[i] = p /\ p # -1 /\ 1 \in Int
  BY CellsAssumption DEF Moved, Pos
<1>3. CountedCells(e, d, e.seq[i], e.pos[i], 1)
  BY <1>2, CountCells DEF SeqPosAdd
<1> HIDE DEF d
<1>4. Recounted(c, d, i)
  BY <1>1, <1>2, <1>3 DEF Recounted, Bit, LooseCells, CountedCells, Moved
<1>5. SameBut(c, d, i) /\ d.used = c.used /\ d.pos[i] = p /\ d.shift[i] = h /\ d.has_shift = TRUE
  BY <1>2, <1>3 DEF SameBut, CountedCells, Moved
<1>6. d \in LooseCells /\ d.used = c.used \cup {i} /\ d.pos[i] # -1 /\ d.pos[i] \in Pos
  BY <1>1, <1>2, <1>3, <1>5 DEF CountedCells
<1>7. CellsOK(d)
  BY <1>4, <1>5, <1>6, ChangeOfCell
<1> QED
  BY <1>5, <1>7 DEF d

\* pos_set of an empty cell (llama-kv-cells.h:395-403)
THEOREM PosSetKeepsCells ==
    ASSUME NEW c, CellsOK(c), NEW i \in Cell, IsEmpty(c, i), NEW p \in Pos
    PROVE  /\ CellsOK(PosSet(c, i, p)) /\ Touches(c, PosSet(c, i, p), i)
           /\ PosSet(c, i, p).pos[i] = p /\ PosSet(c, i, p).seq[i] = {} /\ PosSet(c, i, p).shift[i] = 0
<1> DEFINE d == PosSet(c, i, p)
<1>1. c \in LooseCells /\ p \in Int /\ p # -1 /\ c.seq[i] = {} /\ c.shift[i] = 0
  BY CellsAreLoose, CellsAssumption DEF Pos, CellsOK
<1>2. d = [c EXCEPT !.pos = [c.pos EXCEPT ![i] = p], !.used = c.used \cup {i}]
  BY DEF PosSet
<1> HIDE DEF d
<1>3. /\ d.pos = [c.pos EXCEPT ![i] = p] /\ d.shift = c.shift /\ d.seq = c.seq
      /\ d.used = c.used \cup {i} /\ d.seq_pos = c.seq_pos /\ d.has_shift = c.has_shift /\ d \in LooseCells
  BY <1>1, <1>2 DEF LooseCells
<1>4. SameBut(c, d, i) /\ d.pos[i] = p /\ d.seq[i] = {} /\ d.shift[i] = 0
  BY <1>1, <1>3 DEF SameBut, LooseCells
<1>5. Recounted(c, d, i)
  BY <1>1, <1>3 DEF Recounted, Bit, LooseCells
<1>6. CellsOK(d)
  BY <1>1, <1>3, <1>4, <1>5, ChangeOfCell
<1>7. Touches(c, d, i)
  BY <1>3, <1>4 DEF Touches
<1> QED
  BY <1>4, <1>6, <1>7 DEF d

\* From c to d only cell i changes: it has moved by n, or is empty.
Shifts(c, d, i, n) ==
    /\ SameBut(c, d, i) /\ d.has_shift = TRUE
    /\ IsEmpty(d, i) \/ (d.pos[i] = c.pos[i] + n /\ d.shift[i] = c.shift[i] + n)

\* pos_add of a cell that is in use: one whose position becomes negative is emptied
\* (llama-kv-cells.h:413-437)
THEOREM PosAddKeepsCells ==
    ASSUME NEW c, CellsOK(c), NEW i \in Cell, ~IsEmpty(c, i), NEW n \in Int, c.pos[i] + n <= MaxPos
    PROVE  CellsOK(PosAdd(c, i, n)) /\ Shifts(c, PosAdd(c, i, n), i, n)
<1> DEFINE b == SeqPosRm(c, i)
           p == c.pos[i] + n
           h == c.shift[i] + n
           e == [b EXCEPT !.pos[i] = p, !.shift[i] = h, !.has_shift = TRUE]
           d == Emptied(e, i)
<1>1. c \in LooseCells /\ c.pos[i] \in Pos /\ c.pos[i] # -1 /\ i \in c.used
  BY CellsAreLoose DEF CellsOK, CellsRecord, IsEmpty
<1>2. p \in Int /\ h \in Int
  BY <1>1 DEF LooseCells, Pos
<1>3. CountedCells(c, b, c.seq[i], c.pos[i], -1)
  BY <1>1, CountCells, -1 \in Int DEF SeqPosRm
<1>4. PosAdd(c, i, n) = IF e.pos[i] < 0 THEN d ELSE SeqPosAdd(e, i)
  BY DEF PosAdd
<1> HIDE DEF b
<1>5. Moved(b, e, i, p, h)
  <2>1. b \in LooseCells
    BY <1>3 DEF CountedCells
  <2> HIDE DEF p, h
  <2> QED
    BY <1>2, <2>1, MoveCell
<1> HIDE DEF e
<1>6. CASE e.pos[i] < 0
  <2>1. e \in LooseCells
    BY <1>5 DEF Moved
  <2>2. /\ d \in LooseCells
        /\ d.pos[i] = -1 /\ d.shift[i] = 0 /\ d.seq[i] = {}
        /\ SameBut(e, d, i) /\ d.used = e.used \ {i} /\ d.seq_pos = e.seq_pos /\ d.has_shift = e.has_shift
    BY <2>1, EmptiedIs
  <2> HIDE DEF d
  <2>3. Recounted(c, d, i)
    BY <1>1, <1>3, <1>5, <2>2 DEF Recounted, Bit, LooseCells, CountedCells, Moved
  <2>4. SameBut(c, d, i) /\ d.used = c.used \ {i} /\ d.has_shift = TRUE
    BY <1>3, <1>5, <2>2 DEF SameBut, CountedCells, Moved
  <2>5. CellsOK(d) /\ Shifts(c, d, i, n)
    BY <2>2, <2>3, <2>4, ChangeOfCell DEF Shifts, IsEmpty
  <2> QED
    BY <1>4, <1>6, <2>5
<1>7. CASE ~(e.pos[i] < 0)
  <2>1. p \in Pos
    BY <1>2, <1>5, <1>7, CellsAssumption DEF Moved, Pos
  <2>2. /\ CellsOK(SeqPosAdd(e, i)) /\ SameBut(c, SeqPosAdd(e, i), i)
        /\ SeqPosAdd(e, i).pos[i] = p /\ SeqPosAdd(e, i).shift[i] = h /\ SeqPosAdd(e, i).has_shift = TRUE
    <3> HIDE DEF p, h
    <3> QED
      BY <1>3, <1>5, <2>1, MovedIsCounted
  <2> QED
    BY <1>4, <1>7, <2>2 DEF Shifts
<1> QED
  BY <1>6, <1>7

\* pos_div of a cell that is in use (llama-kv-cells.h:442-456)
THEOREM PosDivKeepsCells ==
    ASSUME NEW c, CellsOK(c), NEW i \in Cell, ~IsEmpty(c, i), NEW n \in Nat \ {0}
    PROVE  CellsOK(PosDiv(c, i, n)) /\ SameBut(c, PosDiv(c, i, n), i) /\ PosDiv(c, i, n).has_shift = TRUE
<1> DEFINE b == SeqPosRm(c, i)
           p == c.pos[i] \div n
           h == c.shift[i] + (c.pos[i] - p)
           e == [b EXCEPT !.pos[i] = p, !.shift[i] = h, !.has_shift = TRUE]
<1>1. c \in LooseCells /\ c.pos[i] \in Pos
  BY CellsAreLoose DEF CellsOK, CellsRecord, IsEmpty
<1>2. p \in Pos
  BY <1>1, DivBound, CellsAssumption DEF Pos
<1>3. PosDiv(c, i, n) = SeqPosAdd(e, i)
  BY DEF PosDiv
<1> HIDE DEF p
<1>4. p \in Int /\ h \in Int
  BY <1>1, <1>2 DEF LooseCells, Pos
<1>5. CountedCells(c, b, c.seq[i], c.pos[i], -1)
  BY <1>1, CountCells, -1 \in Int DEF SeqPosRm
<1> HIDE DEF b
<1>6. Moved(b, e, i, p, h)
  <2>1. b \in LooseCells
    BY <1>5 DEF CountedCells
  <2> HIDE DEF h
  <2> QED
    BY <1>4, <2>1, MoveCell
<1> HIDE DEF e, h
<1>7. /\ CellsOK(SeqPosAdd(e, i)) /\ SameBut(c, SeqPosAdd(e, i), i)
      /\ SeqPosAdd(e, i).has_shift = TRUE
  BY <1>2, <1>5, <1>6, MovedIsCounted
<1> QED
  BY <1>3, <1>7

\* set of a cell without a shift, to what it is in from (llama-kv-cells.h:191-219): the cell is taken
\* out of the counts, replaced and counted again.
THEOREM SetCellKeepsCells ==
    ASSUME NEW c, CellsOK(c), NEW i \in Cell, c.shift[i] = 0,
           NEW from, CellsOK(from)
    PROVE  CellsOK(SetCell(c, i, from)) /\ Touches(c, SetCell(c, i, from), i)
<1> DEFINE o == [pos |-> from.pos[i], seq |-> from.seq[i]]
           b == IF c.pos[i] # -1 THEN SeqPosRm(c, i) ELSE c
           u == IF o.pos = -1 THEN c.used \ {i} ELSE c.used \cup {i}
           e == [b EXCEPT !.pos[i] = o.pos, !.seq[i] = o.seq, !.used = u]
           d == IF o.pos # -1 THEN SeqPosAdd(e, i) ELSE e
<1>1. c \in LooseCells /\ c.pos[i] \in {-1} \cup Pos /\ (c.pos[i] = -1 => c.seq[i] = {})
  BY CellsAreLoose DEF CellsOK, CellsRecord, IsEmpty
<1>10. o \in [pos : {-1} \cup Pos, seq : SUBSET SeqId] /\ (o.pos = -1 => o.seq = {})
  BY DEF CellsOK, CellsRecord, IsEmpty
<1>2. u \in SUBSET Cell /\ o.pos \in Int /\ (o.pos # -1 => o.pos \in Pos) /\ -1 \notin Pos
  BY <1>1, <1>10, CellsAssumption DEF LooseCells, Pos
<1>3. SetCell(c, i, from) = d
  BY DEF SetCell
<1> HIDE DEF o
<1>4. /\ b \in LooseCells /\ b.pos = c.pos /\ b.shift = c.shift /\ b.seq = c.seq /\ b.has_shift = c.has_shift
      /\ \A s \in SeqId : \A p \in Pos : b.seq_pos[s][p] = c.seq_pos[s][p] - Bit(c, i, s, p)
  <2>1. CASE c.pos[i] # -1
    <3>1. CountedCells(c, SeqPosRm(c, i), c.seq[i], c.pos[i], -1)
      BY <1>1, <2>1, CountCells, -1 \in Int DEF SeqPosRm
    <3>2. b = SeqPosRm(c, i)
      BY <2>1
    <3> HIDE DEF b
    <3> QED
      BY <1>1, <3>1, <3>2 DEF CountedCells, Bit, LooseCells
  <2>2. CASE c.pos[i] = -1
    BY <1>1, <2>2 DEF Bit, LooseCells
  <2> QED
    BY <2>1, <2>2
<1> HIDE DEF b, u
<1>5. /\ e \in LooseCells /\ SameBut(b, e, i) /\ e.pos[i] = o.pos /\ e.seq[i] = o.seq
      /\ e.shift = b.shift /\ e.used = u /\ e.seq_pos = b.seq_pos /\ e.has_shift = b.has_shift
  <2>1. e = [b EXCEPT !.pos = [b.pos EXCEPT ![i] = o.pos], !.seq = [b.seq EXCEPT ![i] = o.seq],
                      !.used = u]
    OBVIOUS
  <2> HIDE DEF e
  <2>2. /\ e.pos = [b.pos EXCEPT ![i] = o.pos] /\ e.seq = [b.seq EXCEPT ![i] = o.seq]
        /\ e.shift = b.shift /\ e.used = u /\ e.seq_pos = b.seq_pos /\ e.has_shift = b.has_shift
        /\ e \in LooseCells
    BY <1>2, <1>4, <1>10, <2>1 DEF LooseCells
  <2> QED
    BY <1>4, <2>2 DEF LooseCells, SameBut
<1> HIDE DEF e
<1>6. /\ d \in LooseCells /\ d.pos = e.pos /\ d.shift = e.shift /\ d.seq = e.seq /\ d.used = u
      /\ d.has_shift = e.has_shift /\ Recounted(c, d, i)
  <2>1. CASE o.pos # -1
    <3>1. CountedCells(e, SeqPosAdd(e, i), e.seq[i], e.pos[i], 1)
      BY <1>2, <1>5, <2>1, CountCells DEF SeqPosAdd
    <3>2. d = SeqPosAdd(e, i)
      BY <2>1
    <3> HIDE DEF d
    <3> QED
      BY <1>1, <1>4, <1>5, <3>1, <3>2 DEF CountedCells, Recounted, Bit, LooseCells
  <2>2. CASE o.pos = -1
    <3>1. \A s \in SeqId : \A p \in Pos : Bit(e, i, s, p) = 0
      BY <1>5, <1>10, <2>2 DEF Bit
    <3>2. d = e
      BY <2>2
    <3> HIDE DEF d
    <3>3. \A s \in SeqId : \A p \in Pos : c.seq_pos[s][p] \in Int /\ Bit(c, i, s, p) \in Int
      BY <1>1 DEF LooseCells, Bit
    <3>4. Recounted(c, d, i)
      BY <1>4, <1>5, <3>1, <3>2, <3>3 DEF Recounted
    <3> QED
      BY <1>5, <3>2, <3>4
  <2> QED
    BY <2>1, <2>2
<1> HIDE DEF d
<1>7. SameBut(c, d, i)
  BY <1>4, <1>5, <1>6 DEF SameBut
<1>8. d.pos[i] = o.pos /\ d.seq[i] = o.seq /\ d.shift[i] = 0 /\ d.has_shift = c.has_shift
  BY <1>4, <1>5, <1>6
<1>9. CellsOK(d)
  BY <1>6, <1>7, <1>8, <1>10, ChangeOfCell DEF u
<1> QED
  BY <1>3, <1>7, <1>8, <1>9 DEF Touches

-----------------------------------------------------------------------------
(* Loops over the cells of a stream: the operations on sequences           *)

\* The cells from n on are in d what they are in c.
Ahead(c, d, n) ==
    \A i \in Cell : i >= n => d.pos[i] = c.pos[i] /\ d.seq[i] = c.seq[i] /\ d.shift[i] = c.shift[i]

\* d is sound, and has no shift but those that c has, at the positions they have there.
Follows(c, d) ==
    /\ CellsOK(d) /\ d.has_shift = c.has_shift
    /\ \A i \in Cell : d.shift[i] = 0 \/ (d.shift[i] = c.shift[i] /\ d.pos[i] = c.pos[i])

\* Cells that no operation changed: where a loop over the cells starts.
LEMMA FollowsItself == ASSUME NEW c, CellsOK(c) PROVE Follows(c, c) /\ Ahead(c, c, 0)
  BY DEF Follows, Ahead

\* One operation after another keeps what each of them keeps.
LEMMA FollowsTransitive ==
    ASSUME NEW b, NEW c, NEW d, Follows(b, c), Follows(c, d) PROVE Follows(b, d)
  BY DEF Follows

\* A loop over the cells goes on to the next cell.
LEMMA CellStep ==
    ASSUME NEW b, NEW c, NEW d, NEW n \in 1 .. Size, Ahead(b, c, n - 1), SameBut(c, d, n - 1)
    PROVE  Ahead(b, d, n)
<1> SUFFICES ASSUME NEW i \in Cell, i >= n
             PROVE  d.pos[i] = b.pos[i] /\ d.seq[i] = b.seq[i] /\ d.shift[i] = b.shift[i]
  BY DEF Ahead
<1>1. i >= n - 1 /\ i \in Cell \ {n - 1}
  BY DEF Cell
<1> QED
  BY <1>1 DEF Ahead, SameBut

\* A sound change of one cell that moves no position keeps the rest of the stream.
LEMMA TouchFollows ==
    ASSUME NEW b, NEW c, NEW d, NEW n \in Cell, Follows(b, c), Touches(c, d, n), CellsOK(d)
    PROVE  Follows(b, d)
  BY DEF Follows, Touches, SameBut

\* A cell that is in use, or has a sequence, is not empty.
LEMMA SeqMeansUsed ==
    ASSUME NEW c, CellsOK(c), NEW i \in Cell, NEW s \in c.seq[i]
    PROVE  ~IsEmpty(c, i) /\ s \in SeqId
  BY DEF CellsOK, CellsRecord

\* Cells are counted from 0: the n-th step of a loop is for cell n - 1.
LEMMA SizeIsNat == Size \in Nat /\ \A n \in 1 .. Size : n - 1 \in Cell /\ n \in 0 .. Size /\ n - 1 \in 0 .. Size
  BY CellsAssumption DEF Cell

\* Removing a sequence from a range of positions: seq_rm() for one sequence.
LEMMA RemovedFollows ==
    ASSUME NEW c, CellsOK(c), NEW s, NEW p0, NEW p1
    PROVE  Follows(c, Removed(c, s, p0, p1))
<1> DEFINE I == InSeq(c, s, p0, p1)
           Step(n, x) == IF n - 1 \in I THEN SeqRm(x, n - 1, s) ELSE x
           G == [n \in 0 .. Size |-> {d \in CellsRecord : Follows(c, d) /\ Ahead(c, d, n)}]
           h == [n \in 1 .. Size |-> [x \in G[n - 1] |-> Step(n, x)]]
           f == CHOOSE f : f = [n \in 0 .. Size |-> IF n = 0 THEN c ELSE Step(n, f[n - 1])]
<1>1. c \in G[0] /\ Size \in Nat
  BY FollowsItself, SizeIsNat DEF CellsOK
<1>2. ASSUME NEW n \in 1 .. Size, NEW x \in G[n - 1] PROVE Step(n, x) \in G[n]
  <2>1. n - 1 \in Cell /\ n \in 0 .. Size /\ x \in CellsRecord /\ Follows(c, x) /\ Ahead(c, x, n - 1)
    BY SizeIsNat
  <2>2. CASE n - 1 \in I
    <3>1. s \in x.seq[n - 1] /\ ~IsEmpty(x, n - 1)
      BY <2>1, <2>2, SeqMeansUsed DEF InSeq, SeqHas, Ahead, Follows, Cell
    <3>2. CellsOK(SeqRm(x, n - 1, s)) /\ Touches(x, SeqRm(x, n - 1, s), n - 1)
      BY <2>1, <3>1, SeqRmKeepsCells DEF Follows
    <3>3. Follows(c, SeqRm(x, n - 1, s)) /\ Ahead(c, SeqRm(x, n - 1, s), n)
      BY <2>1, <3>2, TouchFollows, CellStep DEF Touches
    <3> QED
      BY <2>1, <2>2, <3>2, <3>3 DEF CellsOK
  <2>3. CASE n - 1 \notin I
    BY <2>1, <2>3 DEF Ahead, Cell
  <2> QED
    BY <2>2, <2>3
<1> HIDE DEF Step, G
<1>3. \A n \in 1 .. Size : \A x \in G[n - 1] : h[n][x] = Step(n, x) /\ h[n][x] \in G[n]
  BY <1>2
<1> HIDE DEF h
<1>4. PICK g : IsLoop(g, c, h, G, Size)
  BY <1>1, <1>3, LoopExists
<1>5. ASSUME NEW n \in 0 .. Size PROVE g[n] = IF n = 0 THEN c ELSE Step(n, g[n - 1])
  <2>1. n # 0 => n \in 1 .. Size
    BY <1>1
  <2> QED
    BY <1>3, <1>4, <2>1 DEF IsLoop, Runs
<1>6. f = [n \in 0 .. Size |-> IF n = 0 THEN c ELSE Step(n, f[n - 1])]
  <2>1. g = [n \in 0 .. Size |-> IF n = 0 THEN c ELSE Step(n, g[n - 1])]
    BY <1>4, <1>5 DEF IsLoop
  <2> QED
    BY <2>1
<1> HIDE DEF f
<1>7. f[0] \in G[0] /\ \A n \in 1 .. Size : f[n - 1] \in G[n - 1] => f[n] \in G[n]
  <2>1. f[0] = c
    BY <1>1, <1>6
  <2>2. ASSUME NEW n \in 1 .. Size PROVE f[n] = Step(n, f[n - 1])
    <3>1. n \in 0 .. Size /\ n # 0
      BY <1>1
    <3> QED
      BY <1>6, <3>1
  <2> QED
    BY <1>1, <1>2, <2>1, <2>2
<1>8. f[Size] \in G[Size]
  BY <1>1, <1>7, LoopReaches
<1>9. Removed(c, s, p0, p1) = f[Size]
  BY DEF Removed, Over, f, Step
<1> QED
  BY <1>1, <1>8, <1>9 DEF G

\* seq_rm() for any sequence
LEMMA AnyRemovedFollows ==
    ASSUME NEW c, CellsOK(c), NEW p0 \in Nat, NEW p1
    PROVE  Follows(c, AllRemoved(c, p0, p1))
<1> DEFINE I == {i \in Cell : PosIn(c, i, p0, p1)}
           Step(n, x) == IF n - 1 \in I THEN Rm(x, n - 1) ELSE x
           G == [n \in 0 .. Size |-> {d \in CellsRecord : Follows(c, d) /\ Ahead(c, d, n)}]
           h == [n \in 1 .. Size |-> [x \in G[n - 1] |-> Step(n, x)]]
           f == CHOOSE f : f = [n \in 0 .. Size |-> IF n = 0 THEN c ELSE Step(n, f[n - 1])]
<1>1. c \in G[0] /\ Size \in Nat
  BY FollowsItself, SizeIsNat DEF CellsOK
<1>2. ASSUME NEW n \in 1 .. Size, NEW x \in G[n - 1] PROVE Step(n, x) \in G[n]
  <2>1. n - 1 \in Cell /\ n \in 0 .. Size /\ x \in CellsRecord /\ Follows(c, x) /\ Ahead(c, x, n - 1)
    BY SizeIsNat
  <2>2. CASE n - 1 \in I
    <3>1. ~IsEmpty(x, n - 1)
      BY <2>1, <2>2 DEF IsEmpty, Ahead, Cell, PosIn
    <3>2. CellsOK(Rm(x, n - 1)) /\ Touches(x, Rm(x, n - 1), n - 1)
      BY <2>1, <3>1, RmKeepsCells DEF Follows
    <3>3. Follows(c, Rm(x, n - 1)) /\ Ahead(c, Rm(x, n - 1), n)
      BY <2>1, <3>2, TouchFollows, CellStep DEF Touches
    <3> QED
      BY <2>1, <2>2, <3>2, <3>3 DEF CellsOK
  <2>3. CASE n - 1 \notin I
    BY <2>1, <2>3 DEF Ahead, Cell
  <2> QED
    BY <2>2, <2>3
<1> HIDE DEF Step, G
<1>3. \A n \in 1 .. Size : \A x \in G[n - 1] : h[n][x] = Step(n, x) /\ h[n][x] \in G[n]
  BY <1>2
<1> HIDE DEF h
<1>4. PICK g : IsLoop(g, c, h, G, Size)
  BY <1>1, <1>3, LoopExists
<1>5. ASSUME NEW n \in 0 .. Size PROVE g[n] = IF n = 0 THEN c ELSE Step(n, g[n - 1])
  <2>1. n # 0 => n \in 1 .. Size
    BY <1>1
  <2> QED
    BY <1>3, <1>4, <2>1 DEF IsLoop, Runs
<1>6. f = [n \in 0 .. Size |-> IF n = 0 THEN c ELSE Step(n, f[n - 1])]
  <2>1. g = [n \in 0 .. Size |-> IF n = 0 THEN c ELSE Step(n, g[n - 1])]
    BY <1>4, <1>5 DEF IsLoop
  <2> QED
    BY <2>1
<1> HIDE DEF f
<1>7. f[0] \in G[0] /\ \A n \in 1 .. Size : f[n - 1] \in G[n - 1] => f[n] \in G[n]
  <2>1. f[0] = c
    BY <1>1, <1>6
  <2>2. ASSUME NEW n \in 1 .. Size PROVE f[n] = Step(n, f[n - 1])
    <3>1. n \in 0 .. Size /\ n # 0
      BY <1>1
    <3> QED
      BY <1>6, <3>1
  <2> QED
    BY <1>1, <1>2, <2>1, <2>2
<1>8. f[Size] \in G[Size]
  BY <1>1, <1>7, LoopReaches
<1>9. AllRemoved(c, p0, p1) = f[Size]
  BY DEF AllRemoved, Over, f, Step
<1> QED
  BY <1>1, <1>8, <1>9 DEF G

\* seq_cp() within a stream, to a sequence that no cell has
LEMMA AddedFollows ==
    ASSUME NEW c, CellsOK(c), NEW b \in SeqId, \A i \in Cell : b \notin c.seq[i],
           NEW a, NEW p0, NEW p1
    PROVE  Follows(c, Shared(c, a, b, p0, p1))
<1> DEFINE I == InSeq(c, a, p0, p1)
           Step(n, x) == IF n - 1 \in I THEN SeqAdd(x, n - 1, b) ELSE x
           G == [n \in 0 .. Size |-> {d \in CellsRecord : Follows(c, d) /\ Ahead(c, d, n)}]
           h == [n \in 1 .. Size |-> [x \in G[n - 1] |-> Step(n, x)]]
           f == CHOOSE f : f = [n \in 0 .. Size |-> IF n = 0 THEN c ELSE Step(n, f[n - 1])]
<1>1. c \in G[0] /\ Size \in Nat
  BY FollowsItself, SizeIsNat DEF CellsOK
<1>2. ASSUME NEW n \in 1 .. Size, NEW x \in G[n - 1] PROVE Step(n, x) \in G[n]
  <2>1. n - 1 \in Cell /\ n \in 0 .. Size /\ x \in CellsRecord /\ Follows(c, x) /\ Ahead(c, x, n - 1)
    BY SizeIsNat
  <2>2. CASE n - 1 \in I
    <3>1. ~IsEmpty(x, n - 1) /\ {b} \cap x.seq[n - 1] = {} /\ {b} \in SUBSET SeqId
      BY <2>1, <2>2, SeqMeansUsed DEF IsEmpty, Ahead, Cell, InSeq, SeqHas
    <3>2. CellsOK(SeqAdd(x, n - 1, b)) /\ Touches(x, SeqAdd(x, n - 1, b), n - 1)
      BY <2>1, <3>1, SeqsAddKeepsCells DEF Follows, SeqAdd
    <3>3. Follows(c, SeqAdd(x, n - 1, b)) /\ Ahead(c, SeqAdd(x, n - 1, b), n)
      BY <2>1, <3>2, TouchFollows, CellStep DEF Touches
    <3> QED
      BY <2>1, <2>2, <3>2, <3>3 DEF CellsOK
  <2>3. CASE n - 1 \notin I
    BY <2>1, <2>3 DEF Ahead, Cell
  <2> QED
    BY <2>2, <2>3
<1> HIDE DEF Step, G
<1>3. \A n \in 1 .. Size : \A x \in G[n - 1] : h[n][x] = Step(n, x) /\ h[n][x] \in G[n]
  BY <1>2
<1> HIDE DEF h
<1>4. PICK g : IsLoop(g, c, h, G, Size)
  BY <1>1, <1>3, LoopExists
<1>5. ASSUME NEW n \in 0 .. Size PROVE g[n] = IF n = 0 THEN c ELSE Step(n, g[n - 1])
  <2>1. n # 0 => n \in 1 .. Size
    BY <1>1
  <2> QED
    BY <1>3, <1>4, <2>1 DEF IsLoop, Runs
<1>6. f = [n \in 0 .. Size |-> IF n = 0 THEN c ELSE Step(n, f[n - 1])]
  <2>1. g = [n \in 0 .. Size |-> IF n = 0 THEN c ELSE Step(n, g[n - 1])]
    BY <1>4, <1>5 DEF IsLoop
  <2> QED
    BY <2>1
<1> HIDE DEF f
<1>7. f[0] \in G[0] /\ \A n \in 1 .. Size : f[n - 1] \in G[n - 1] => f[n] \in G[n]
  <2>1. f[0] = c
    BY <1>1, <1>6
  <2>2. ASSUME NEW n \in 1 .. Size PROVE f[n] = Step(n, f[n - 1])
    <3>1. n \in 0 .. Size /\ n # 0
      BY <1>1
    <3> QED
      BY <1>6, <3>1
  <2> QED
    BY <1>1, <1>2, <2>1, <2>2
<1>8. f[Size] \in G[Size]
  BY <1>1, <1>7, LoopReaches
<1>9. Shared(c, a, b, p0, p1) = f[Size]
  BY DEF Shared, Over, f, Step
<1> QED
  BY <1>1, <1>8, <1>9 DEF G

\* seq_keep()
LEMMA KeptFollows ==
    ASSUME NEW c, CellsOK(c), NEW s \in SeqId
    PROVE  Follows(c, OnlyKept(c, s))
<1> DEFINE Step(n, x) == IF n - 1 \in Cell THEN SeqKeep(x, n - 1, s) ELSE x
           G == [n \in 0 .. Size |-> {d \in CellsRecord : Follows(c, d)}]
           h == [n \in 1 .. Size |-> [x \in G[n - 1] |-> Step(n, x)]]
           f == CHOOSE f : f = [n \in 0 .. Size |-> IF n = 0 THEN c ELSE Step(n, f[n - 1])]
<1>1. c \in G[0] /\ Size \in Nat
  BY FollowsItself, SizeIsNat DEF CellsOK
<1>2. ASSUME NEW n \in 1 .. Size, NEW x \in G[n - 1] PROVE Step(n, x) \in G[n]
  <2>1. n - 1 \in Cell /\ n \in 0 .. Size /\ x \in CellsRecord /\ Follows(c, x)
    BY SizeIsNat
  <2>2. CellsOK(SeqKeep(x, n - 1, s)) /\ Touches(x, SeqKeep(x, n - 1, s), n - 1)
    BY <2>1, SeqKeepKeepsCells DEF Follows
  <2>3. Follows(c, SeqKeep(x, n - 1, s))
    BY <2>1, <2>2, TouchFollows
  <2> QED
    BY <2>1, <2>2, <2>3 DEF CellsOK
<1> HIDE DEF Step, G
<1>3. \A n \in 1 .. Size : \A x \in G[n - 1] : h[n][x] = Step(n, x) /\ h[n][x] \in G[n]
  BY <1>2
<1> HIDE DEF h
<1>4. PICK g : IsLoop(g, c, h, G, Size)
  BY <1>1, <1>3, LoopExists
<1>5. ASSUME NEW n \in 0 .. Size PROVE g[n] = IF n = 0 THEN c ELSE Step(n, g[n - 1])
  <2>1. n # 0 => n \in 1 .. Size
    BY <1>1
  <2> QED
    BY <1>3, <1>4, <2>1 DEF IsLoop, Runs
<1>6. f = [n \in 0 .. Size |-> IF n = 0 THEN c ELSE Step(n, f[n - 1])]
  <2>1. g = [n \in 0 .. Size |-> IF n = 0 THEN c ELSE Step(n, g[n - 1])]
    BY <1>4, <1>5 DEF IsLoop
  <2> QED
    BY <2>1
<1> HIDE DEF f
<1>7. f[0] \in G[0] /\ \A n \in 1 .. Size : f[n - 1] \in G[n - 1] => f[n] \in G[n]
  <2>1. f[0] = c
    BY <1>1, <1>6
  <2>2. ASSUME NEW n \in 1 .. Size PROVE f[n] = Step(n, f[n - 1])
    <3>1. n \in 0 .. Size /\ n # 0
      BY <1>1
    <3> QED
      BY <1>6, <3>1
  <2> QED
    BY <1>1, <1>2, <2>1, <2>2
<1>8. f[Size] \in G[Size]
  BY <1>1, <1>7, LoopReaches
<1>9. OnlyKept(c, s) = f[Size]
  BY DEF OnlyKept, Over, f, Step
<1> QED
  BY <1>1, <1>8, <1>9 DEF G

\* The removals for several sequences
LEMMA RemovedOfFollows ==
    ASSUME NEW c, CellsOK(c), NEW S, NEW lo, NEW hi
    PROVE  Follows(c, RemovedOf(c, S, lo, hi))
<1> DEFINE Step(n, x) == IF n - 1 \in S THEN Removed(x, n - 1, lo[n - 1], hi[n - 1]) ELSE x
           G == [n \in 0 .. NSeqs |-> {d \in CellsRecord : Follows(c, d)}]
           h == [n \in 1 .. NSeqs |-> [x \in G[n - 1] |-> Step(n, x)]]
           f == CHOOSE f : f = [n \in 0 .. NSeqs |-> IF n = 0 THEN c ELSE Step(n, f[n - 1])]
<1>1. c \in G[0] /\ NSeqs \in Nat
  BY FollowsItself, CellsAssumption DEF CellsOK
<1>2. ASSUME NEW n \in 1 .. NSeqs, NEW x \in G[n - 1] PROVE Step(n, x) \in G[n]
  <2>1. n \in 0 .. NSeqs /\ x \in CellsRecord /\ Follows(c, x)
    BY CellsAssumption
  <2>2. Follows(x, Removed(x, n - 1, lo[n - 1], hi[n - 1]))
    BY <2>1, RemovedFollows DEF Follows
  <2>3. Follows(c, Step(n, x))
    BY <2>1, <2>2, FollowsTransitive
  <2> HIDE DEF Step
  <2>4. Step(n, x) \in CellsRecord
    BY <2>3 DEF Follows, CellsOK
  <2> QED
    BY <2>1, <2>3, <2>4
<1> HIDE DEF Step, G
<1>3. \A n \in 1 .. NSeqs : \A x \in G[n - 1] : h[n][x] = Step(n, x) /\ h[n][x] \in G[n]
  BY <1>2
<1> HIDE DEF h
<1>4. PICK g : IsLoop(g, c, h, G, NSeqs)
  BY <1>1, <1>3, LoopExists
<1>5. ASSUME NEW n \in 0 .. NSeqs PROVE g[n] = IF n = 0 THEN c ELSE Step(n, g[n - 1])
  <2>1. n # 0 => n \in 1 .. NSeqs
    BY <1>1
  <2> QED
    BY <1>3, <1>4, <2>1 DEF IsLoop, Runs
<1>6. f = [n \in 0 .. NSeqs |-> IF n = 0 THEN c ELSE Step(n, f[n - 1])]
  <2>1. g = [n \in 0 .. NSeqs |-> IF n = 0 THEN c ELSE Step(n, g[n - 1])]
    BY <1>4, <1>5 DEF IsLoop
  <2> QED
    BY <2>1
<1> HIDE DEF f
<1>7. f[0] \in G[0] /\ \A n \in 1 .. NSeqs : f[n - 1] \in G[n - 1] => f[n] \in G[n]
  <2>1. f[0] = c
    BY <1>1, <1>6
  <2>2. ASSUME NEW n \in 1 .. NSeqs PROVE f[n] = Step(n, f[n - 1])
    <3>1. n \in 0 .. NSeqs /\ n # 0
      BY <1>1
    <3> QED
      BY <1>6, <3>1
  <2> QED
    BY <1>1, <1>2, <2>1, <2>2
<1>8. f[NSeqs] \in G[NSeqs]
  BY <1>1, <1>7, LoopReaches
<1>9. RemovedOf(c, S, lo, hi) = f[NSeqs]
  BY DEF RemovedOf, f, Step
<1> QED
  BY <1>1, <1>8, <1>9 DEF G

\* A cell with a shift is one that has_shift tells of.
Marked(c) == \A i \in Cell : c.shift[i] = 0 \/ c.has_shift

\* Without its shift, a cell has the position that it was given at first.
Original(c) == \A i \in Cell : ~IsEmpty(c, i) => c.pos[i] - c.shift[i] \in Pos

\* What cells that follow others inherit
LEMMA FollowsMarked ==
    ASSUME NEW c, NEW d, CellsOK(c), Follows(c, d)
    PROVE  (Marked(c) => Marked(d)) /\ (Original(c) => Original(d))
<1>1. ASSUME Marked(c) PROVE Marked(d)
  BY <1>1 DEF Follows, Marked
<1>2. ASSUME Original(c), NEW i \in Cell, ~IsEmpty(d, i) PROVE d.pos[i] - d.shift[i] \in Pos
  <2>1. d.pos[i] \in Pos /\ (d.shift[i] = 0 \/ (d.shift[i] = c.shift[i] /\ d.pos[i] = c.pos[i]))
    BY <1>2 DEF Follows, CellsOK, CellsRecord, IsEmpty
  <2>2. CASE d.shift[i] = 0
    BY <2>1, <2>2, CellsAssumption DEF Pos
  <2>3. CASE d.shift[i] = c.shift[i] /\ d.pos[i] = c.pos[i]
    BY <1>2, <2>3 DEF Original, IsEmpty
  <2> QED
    BY <2>1, <2>2, <2>3
<1> QED
  BY <1>1, <1>2 DEF Original

\* seq_add()
LEMMA ShiftedKeepsCells ==
    ASSUME NEW c, CellsOK(c), NEW s, NEW p0, NEW p1, NEW m \in Int,
           \A i \in InSeq(c, s, p0, p1) : c.pos[i] + m <= MaxPos
    PROVE  LET d == Shifted(c, s, p0, p1, m)
           IN CellsOK(d) /\ (Marked(c) => Marked(d)) /\ (Original(c) => Original(d))
<1> DEFINE I == InSeq(c, s, p0, p1)
           Inherits(d) == (Marked(c) => Marked(d)) /\ (Original(c) => Original(d))
           Step(n, x) == IF n - 1 \in I THEN PosAdd(x, n - 1, m) ELSE x
           G == [n \in 0 .. Size |-> {d \in CellsRecord : CellsOK(d) /\ Inherits(d) /\ Ahead(c, d, n)}]
           h == [n \in 1 .. Size |-> [x \in G[n - 1] |-> Step(n, x)]]
           f == CHOOSE f : f = [n \in 0 .. Size |-> IF n = 0 THEN c ELSE Step(n, f[n - 1])]
<1>1. c \in G[0] /\ Size \in Nat
  BY FollowsItself, SizeIsNat DEF CellsOK
<1>2. ASSUME NEW n \in 1 .. Size, NEW x \in G[n - 1] PROVE Step(n, x) \in G[n]
  <2>1. n - 1 \in Cell /\ n \in 0 .. Size /\ x \in CellsRecord /\ CellsOK(x) /\ Inherits(x) /\ Ahead(c, x, n - 1)
    BY SizeIsNat
  <2>2. CASE n - 1 \in I
    <3> DEFINE d == PosAdd(x, n - 1, m)
    <3>1. ~IsEmpty(x, n - 1) /\ x.pos[n - 1] + m <= MaxPos
      BY <2>1, <2>2, SeqMeansUsed DEF IsEmpty, Ahead, Cell, InSeq, SeqHas
    <3>2. CellsOK(d) /\ Shifts(x, d, n - 1, m)
      BY <2>1, <3>1, PosAddKeepsCells
    <3> HIDE DEF d
    <3>3. Ahead(c, d, n)
      BY <2>1, <3>2, CellStep DEF Shifts
    <3>4. Marked(d)
      BY <3>2 DEF Shifts, Marked
    <3>5. ASSUME Original(x) PROVE Original(d)
      <4> SUFFICES ASSUME NEW i \in Cell, ~IsEmpty(d, i) PROVE d.pos[i] - d.shift[i] \in Pos
        BY DEF Original
      <4>1. CASE i = n - 1
        <5>1. d.pos[i] = x.pos[i] + m /\ d.shift[i] = x.shift[i] + m
          BY <3>2, <4>1 DEF Shifts
        <5>2. x.pos[i] \in Int /\ x.shift[i] \in Int /\ x.pos[i] - x.shift[i] \in Pos
          BY <3>1, <3>5, <2>1, <4>1 DEF Original, CellsOK, CellsRecord, Pos
        <5> QED
          BY <5>1, <5>2
      <4>2. CASE i # n - 1
        BY <3>2, <3>5, <4>2 DEF Shifts, SameBut, Original, IsEmpty
      <4> QED
        BY <4>1, <4>2
    <3> QED
      BY <2>1, <2>2, <3>2, <3>3, <3>4, <3>5 DEF CellsOK, d
  <2>3. CASE n - 1 \notin I
    BY <2>1, <2>3 DEF Ahead, Cell
  <2> QED
    BY <2>2, <2>3
<1> HIDE DEF Step, G
<1>3. \A n \in 1 .. Size : \A x \in G[n - 1] : h[n][x] = Step(n, x) /\ h[n][x] \in G[n]
  BY <1>2
<1> HIDE DEF h
<1>4. PICK g : IsLoop(g, c, h, G, Size)
  BY <1>1, <1>3, LoopExists
<1>5. ASSUME NEW n \in 0 .. Size PROVE g[n] = IF n = 0 THEN c ELSE Step(n, g[n - 1])
  <2>1. n # 0 => n \in 1 .. Size
    BY <1>1
  <2> QED
    BY <1>3, <1>4, <2>1 DEF IsLoop, Runs
<1>6. f = [n \in 0 .. Size |-> IF n = 0 THEN c ELSE Step(n, f[n - 1])]
  <2>1. g = [n \in 0 .. Size |-> IF n = 0 THEN c ELSE Step(n, g[n - 1])]
    BY <1>4, <1>5 DEF IsLoop
  <2> QED
    BY <2>1
<1> HIDE DEF f
<1>7. f[0] \in G[0] /\ \A n \in 1 .. Size : f[n - 1] \in G[n - 1] => f[n] \in G[n]
  <2>1. f[0] = c
    BY <1>1, <1>6
  <2>2. ASSUME NEW n \in 1 .. Size PROVE f[n] = Step(n, f[n - 1])
    <3>1. n \in 0 .. Size /\ n # 0
      BY <1>1
    <3> QED
      BY <1>6, <3>1
  <2> QED
    BY <1>1, <1>2, <2>1, <2>2
<1>8. f[Size] \in G[Size]
  BY <1>1, <1>7, LoopReaches
<1>9. Shifted(c, s, p0, p1, m) = f[Size]
  BY DEF Shifted, Over, f, Step
<1> QED
  BY <1>1, <1>8, <1>9 DEF G

\* seq_div()
LEMMA HalvedKeepsCells ==
    ASSUME NEW c, CellsOK(c), NEW s, NEW p0, NEW p1
    PROVE  CellsOK(Halved(c, s, p0, p1)) /\ (Marked(c) => Marked(Halved(c, s, p0, p1)))
<1> DEFINE I == InSeq(c, s, p0, p1)
           Step(n, x) == IF n - 1 \in I THEN PosDiv(x, n - 1, 2) ELSE x
           G == [n \in 0 .. Size |-> {d \in CellsRecord : CellsOK(d) /\ (Marked(c) => Marked(d)) /\ Ahead(c, d, n)}]
           h == [n \in 1 .. Size |-> [x \in G[n - 1] |-> Step(n, x)]]
           f == CHOOSE f : f = [n \in 0 .. Size |-> IF n = 0 THEN c ELSE Step(n, f[n - 1])]
<1>1. c \in G[0] /\ Size \in Nat
  BY FollowsItself, SizeIsNat DEF CellsOK
<1>2. ASSUME NEW n \in 1 .. Size, NEW x \in G[n - 1] PROVE Step(n, x) \in G[n]
  <2>1. /\ n - 1 \in Cell /\ n \in 0 .. Size /\ x \in CellsRecord /\ CellsOK(x)
        /\ (Marked(c) => Marked(x)) /\ Ahead(c, x, n - 1)
    BY SizeIsNat
  <2>2. CASE n - 1 \in I
    <3> DEFINE d == PosDiv(x, n - 1, 2)
    <3>1. ~IsEmpty(x, n - 1)
      BY <2>1, <2>2, SeqMeansUsed DEF IsEmpty, Ahead, Cell, InSeq, SeqHas
    <3>2. CellsOK(d) /\ SameBut(x, d, n - 1) /\ d.has_shift = TRUE
      BY <2>1, <3>1, 2 \in Nat \ {0}, PosDivKeepsCells
    <3> HIDE DEF d
    <3>3. Ahead(c, d, n) /\ Marked(d)
      BY <2>1, <3>2, CellStep DEF Marked
    <3> QED
      BY <2>1, <2>2, <3>2, <3>3 DEF CellsOK, d
  <2>3. CASE n - 1 \notin I
    BY <2>1, <2>3 DEF Ahead, Cell
  <2> QED
    BY <2>2, <2>3
<1> HIDE DEF Step, G
<1>3. \A n \in 1 .. Size : \A x \in G[n - 1] : h[n][x] = Step(n, x) /\ h[n][x] \in G[n]
  BY <1>2
<1> HIDE DEF h
<1>4. PICK g : IsLoop(g, c, h, G, Size)
  BY <1>1, <1>3, LoopExists
<1>5. ASSUME NEW n \in 0 .. Size PROVE g[n] = IF n = 0 THEN c ELSE Step(n, g[n - 1])
  <2>1. n # 0 => n \in 1 .. Size
    BY <1>1
  <2> QED
    BY <1>3, <1>4, <2>1 DEF IsLoop, Runs
<1>6. f = [n \in 0 .. Size |-> IF n = 0 THEN c ELSE Step(n, f[n - 1])]
  <2>1. g = [n \in 0 .. Size |-> IF n = 0 THEN c ELSE Step(n, g[n - 1])]
    BY <1>4, <1>5 DEF IsLoop
  <2> QED
    BY <2>1
<1> HIDE DEF f
<1>7. f[0] \in G[0] /\ \A n \in 1 .. Size : f[n - 1] \in G[n - 1] => f[n] \in G[n]
  <2>1. f[0] = c
    BY <1>1, <1>6
  <2>2. ASSUME NEW n \in 1 .. Size PROVE f[n] = Step(n, f[n - 1])
    <3>1. n \in 0 .. Size /\ n # 0
      BY <1>1
    <3> QED
      BY <1>6, <3>1
  <2> QED
    BY <1>1, <1>2, <2>1, <2>2
<1>8. f[Size] \in G[Size]
  BY <1>1, <1>7, LoopReaches
<1>9. Halved(c, s, p0, p1) = f[Size]
  BY DEF Halved, Over, f, Step
<1> QED
  BY <1>1, <1>8, <1>9 DEF G

\* Empty cells are sound.
LEMMA ResetIsOK == CellsOK(ResetCells) /\ \A i \in Cell : IsEmpty(ResetCells, i) /\ ResetCells.shift[i] = 0
<1> DEFINE c == ResetCells
<1>1. c \in CellsRecord
  BY DEF ResetCells, CellsRecord
<1>2. \A i \in Cell : c.pos[i] = -1 /\ c.seq[i] = {} /\ c.shift[i] = 0
  BY DEF ResetCells
<1>3. c.used = {} /\ \A s \in SeqId : \A p \in Pos : c.seq_pos[s][p] = 0
  BY DEF ResetCells
<1> HIDE DEF c
<1>4. \A s, p : CellsAt(c, s, p) = {}
  BY <1>2 DEF CellsAt
<1>5. \A s \in SeqId : \A p \in Pos : c.seq_pos[s][p] = Cardinality(CellsAt(c, s, p))
  BY <1>3, <1>4, FS_EmptySet
<1>6. CellsOK(c)
  BY <1>1, <1>2, <1>3, <1>5 DEF CellsOK, IsEmpty
<1> QED
  BY <1>2, <1>6 DEF c, IsEmpty

\* seq_cp() of a whole sequence to another stream
LEMMA CopiedKeepsCells ==
    ASSUME NEW src, CellsOK(src), Original(src), NEW a, NEW b \in SeqId
    PROVE  CellsOK(CopiedFrom(src, a, b)) /\ Marked(CopiedFrom(src, a, b)) /\ Original(CopiedFrom(src, a, b))
<1> DEFINE c == ResetCells
           I == {i \in Cell : SeqHas(src, i, a)}
           Step(n, x) == IF n - 1 \in I THEN CopiedCell(src, x, n - 1, b) ELSE x
           G == [n \in 0 .. Size |-> {d \in CellsRecord : CellsOK(d) /\ Marked(d) /\ Original(d) /\ Ahead(c, d, n)}]
           h == [n \in 1 .. Size |-> [x \in G[n - 1] |-> Step(n, x)]]
           f == CHOOSE f : f = [n \in 0 .. Size |-> IF n = 0 THEN c ELSE Step(n, f[n - 1])]
<1>1. c \in G[0] /\ Size \in Nat
  BY FollowsItself, SizeIsNat, ResetIsOK DEF CellsOK, Marked, Original
<1> HIDE DEF c
<1>2. ASSUME NEW n \in 1 .. Size, NEW x \in G[n - 1] PROVE Step(n, x) \in G[n]
  <2>1. /\ n - 1 \in Cell /\ n \in 0 .. Size /\ x \in CellsRecord /\ CellsOK(x)
        /\ Marked(x) /\ Original(x) /\ Ahead(c, x, n - 1)
    BY SizeIsNat
  <2>2. CASE n - 1 \in I
    <3> DEFINE i == n - 1
               p == src.pos[i] - src.shift[i]
               e == PosSet(x, i, p)
               g == SeqAdd(e, i, b)
               d == PosAdd(g, i, src.shift[i])
    <3>1. p \in Pos /\ IsEmpty(x, i) /\ src.pos[i] \in Pos /\ src.shift[i] \in Int
      <4>1. ~IsEmpty(src, i) /\ i \in Cell
        BY <2>1, <2>2, SeqMeansUsed DEF SeqHas
      <4>2. p \in Pos
        BY <4>1 DEF Original
      <4>3. src.pos[i] \in Pos /\ src.shift[i] \in Int
        BY <4>1 DEF CellsOK, CellsRecord, IsEmpty
      <4>4. IsEmpty(x, i)
        BY <2>1, ResetIsOK DEF Ahead, c, IsEmpty, Cell
      <4> QED
        BY <4>2, <4>3, <4>4
    <3> HIDE DEF p
    <3>2. CellsOK(e) /\ Touches(x, e, i) /\ e.pos[i] = p /\ e.seq[i] = {} /\ e.shift[i] = 0
      BY <2>1, <3>1, PosSetKeepsCells
    <3> HIDE DEF e
    <3>3. CellsOK(g) /\ Touches(e, g, i) /\ g.pos[i] = p
      <4>1. ~IsEmpty(e, i) /\ {b} \in SUBSET SeqId /\ {b} \cap e.seq[i] = {} /\ i \in Cell
        BY <2>1, <3>1, <3>2 DEF IsEmpty, Pos
      <4> QED
        BY <3>2, <4>1, SeqsAddKeepsCells DEF SeqAdd
    <3> HIDE DEF g
    <3>4. SameBut(x, g, i) /\ g.has_shift = x.has_shift /\ g.shift[i] = 0
      BY <3>2, <3>3 DEF Touches, SameBut
    <3>5. Ahead(c, g, n)
      BY <2>1, <3>4, CellStep
    <3>6. Marked(g) /\ Original(g)
      <4>1. \A j \in Cell : j = i \/ (g.shift[j] = x.shift[j] /\ g.pos[j] = x.pos[j])
        BY <3>4 DEF SameBut
      <4>2. p - 0 = p
        BY <3>1 DEF Pos
      <4> QED
        BY <2>1, <3>1, <3>3, <3>4, <4>1, <4>2 DEF Marked, Original, IsEmpty
    <3>7. CASE src.shift[i] = 0
      <4>1. Step(n, x) = g
        BY <2>2, <3>7 DEF CopiedCell, g, e, p
      <4> QED
        BY <2>1, <3>3, <3>5, <3>6, <4>1 DEF CellsOK
    <3>8. CASE src.shift[i] # 0
      <4>1. Step(n, x) = d
        BY <2>2, <3>8 DEF CopiedCell, g, e, p
      <4>2. ~IsEmpty(g, i) /\ g.pos[i] + src.shift[i] <= MaxPos /\ i \in Cell
        BY <2>1, <3>1, <3>3, CellsAssumption DEF p, Pos, IsEmpty
      <4>3. CellsOK(d) /\ Shifts(g, d, i, src.shift[i])
        BY <3>1, <3>3, <4>2, PosAddKeepsCells
      <4> HIDE DEF d
      <4>4. SameBut(x, d, i) /\ d.has_shift = TRUE
        BY <3>4, <4>3 DEF Shifts, SameBut
      <4>5. Ahead(c, d, n) /\ Marked(d)
        BY <2>1, <4>4, CellStep DEF Marked
      <4>6. ASSUME NEW j \in Cell, ~IsEmpty(d, j) PROVE d.pos[j] - d.shift[j] \in Pos
        <5>1. CASE j = i
          <6>1. d.pos[j] = p + src.shift[i] /\ d.shift[j] = 0 + src.shift[i]
            BY <3>3, <3>4, <4>3, <4>6, <5>1 DEF Shifts
          <6> QED
            BY <3>1, <6>1 DEF Pos
        <5>2. CASE j # i
          <6>1. d.pos[j] = g.pos[j] /\ d.shift[j] = g.shift[j]
            BY <4>3, <5>2 DEF Shifts, SameBut
          <6> QED
            BY <3>6, <4>6, <6>1 DEF Original, IsEmpty
        <5> QED
          BY <5>1, <5>2
      <4> QED
        BY <2>1, <4>1, <4>3, <4>5, <4>6 DEF CellsOK, Original
    <3> QED
      BY <3>7, <3>8
  <2>3. CASE n - 1 \notin I
    BY <2>1, <2>3 DEF Ahead, Cell
  <2> QED
    BY <2>2, <2>3
<1> HIDE DEF Step, G
<1>3. \A n \in 1 .. Size : \A x \in G[n - 1] : h[n][x] = Step(n, x) /\ h[n][x] \in G[n]
  BY <1>2
<1> HIDE DEF h
<1>4. PICK g : IsLoop(g, c, h, G, Size)
  BY <1>1, <1>3, LoopExists
<1>5. ASSUME NEW n \in 0 .. Size PROVE g[n] = IF n = 0 THEN c ELSE Step(n, g[n - 1])
  <2>1. n # 0 => n \in 1 .. Size
    BY <1>1
  <2> QED
    BY <1>3, <1>4, <2>1 DEF IsLoop, Runs
<1>6. f = [n \in 0 .. Size |-> IF n = 0 THEN c ELSE Step(n, f[n - 1])]
  <2>1. g = [n \in 0 .. Size |-> IF n = 0 THEN c ELSE Step(n, g[n - 1])]
    BY <1>4, <1>5 DEF IsLoop
  <2> QED
    BY <2>1
<1> HIDE DEF f
<1>7. f[0] \in G[0] /\ \A n \in 1 .. Size : f[n - 1] \in G[n - 1] => f[n] \in G[n]
  <2>1. f[0] = c
    BY <1>1, <1>6
  <2>2. ASSUME NEW n \in 1 .. Size PROVE f[n] = Step(n, f[n - 1])
    <3>1. n \in 0 .. Size /\ n # 0
      BY <1>1
    <3> QED
      BY <1>6, <3>1
  <2> QED
    BY <1>1, <1>2, <2>1, <2>2
<1>8. f[Size] \in G[Size]
  BY <1>1, <1>7, LoopReaches
<1>9. CopiedFrom(src, a, b) = f[Size]
  BY DEF CopiedFrom, Over, f, Step, c
<1> QED
  BY <1>1, <1>8, <1>9 DEF G

-----------------------------------------------------------------------------
(* Slots                                                                   *)

\* The head moves back to a cell, or stays.
LEMMA HeadInRange ==
    ASSUME NEW c, NEW d, NEW head \in 0 .. Size
    PROVE  HeadAfter(c, d, head) \in 0 .. Size
<1>1. {head} \cup FreedCells(c, d) \in SUBSET (0 .. Size)
  BY CellsAssumption DEF FreedCells, Cell
<1>2. HeadAfter(c, d, head) \in {head} \cup FreedCells(c, d)
  BY <1>1, MinIsLeast DEF HeadAfter
<1> QED
  BY <1>1, <1>2

\* A token that is placed in a cell
PlaceableIn(idx, e) == idx \in Cell /\ e.pos \in Pos /\ e.seqs \in SUBSET SeqId

\* Placing a token leaves sound cells: the cell is emptied first.
LEMMA PlaceFollows ==
    ASSUME NEW x, CellsOK(x.c), x.rm \in [SeqId -> Int], NEW idx, NEW e, PlaceableIn(idx, e)
    PROVE  Follows(x.c, Place(x, idx, e).c) /\ Place(x, idx, e).rm \in [SeqId -> Int]
<1> DEFINE c == x.c
           free == IF IsEmpty(c, idx) THEN c ELSE Rm(c, idx)
           put == PosSet(free, idx, e.pos)
           d == SeqsAdd(put, idx, e.seqs)
<1>1. idx \in Cell /\ e.pos \in Pos /\ e.seqs \in SUBSET SeqId
  BY DEF PlaceableIn
<1>2. CellsOK(free) /\ Follows(c, free) /\ IsEmpty(free, idx)
  <2>1. CASE IsEmpty(c, idx)
    BY <2>1, FollowsItself
  <2>2. CASE ~IsEmpty(c, idx)
    BY <1>1, <2>2, RmKeepsCells, FollowsItself, TouchFollows
  <2> QED
    BY <2>1, <2>2
<1> HIDE DEF free
<1>3. CellsOK(put) /\ Follows(c, put) /\ put.pos[idx] = e.pos /\ put.seq[idx] = {}
  BY <1>1, <1>2, PosSetKeepsCells, TouchFollows
<1> HIDE DEF put
<1>4. ~IsEmpty(put, idx)
  BY <1>1, <1>3 DEF IsEmpty, Pos
<1>5. CellsOK(d) /\ Follows(c, d)
  BY <1>1, <1>3, <1>4, SeqsAddKeepsCells, TouchFollows
<1>6. Place(x, idx, e).c = d
  BY DEF Place, d, put, free
<1>7. Place(x, idx, e).rm \in [SeqId -> Int]
  <2>1. c.pos[idx] \in Int
    BY <1>1 DEF CellsOK, CellsRecord, Pos
  <2>2. \A s \in SeqId : Max({x.rm[s], c.pos[idx]}) \in Int
    BY <2>1, MaxOfTwo
  <2>3. Place(x, idx, e).rm = [s \in SeqId |-> IF s \in c.seq[idx] THEN Max({x.rm[s], c.pos[idx]}) ELSE x.rm[s]]
    BY DEF Place
  <2> QED
    BY <2>2, <2>3
<1> QED
  BY <1>5, <1>6, <1>7

\* apply_ubatch()
LEMMA AppliedFollows ==
    ASSUME NEW c, CellsOK(c), NEW idxs, Len(idxs) \in Nat, NEW entries,
           \A n \in 1 .. Len(idxs) : PlaceableIn(idxs[n], entries[n])
    PROVE  Follows(c, Applied(c, idxs, entries))
<1> DEFINE N == Len(idxs)
           x0 == [c |-> c, rm |-> [s \in SeqId |-> -1]]
           Step(n, x) == Place(x, idxs[n], entries[n])
           G == [n \in 0 .. N |-> {x \in [c : CellsRecord, rm : [SeqId -> Int]] : Follows(c, x.c)}]
           h == [n \in 1 .. N |-> [x \in G[n - 1] |-> Step(n, x)]]
           f == CHOOSE f : f = [n \in 0 .. N |-> IF n = 0 THEN x0 ELSE Step(n, f[n - 1])]
<1>1. x0 \in G[0] /\ N \in Nat
  BY FollowsItself DEF CellsOK
<1>2. ASSUME NEW n \in 1 .. N, NEW x \in G[n - 1] PROVE Step(n, x) \in G[n]
  <2>1. n \in 0 .. N /\ x.rm \in [SeqId -> Int] /\ Follows(c, x.c) /\ CellsOK(x.c)
    BY <1>1 DEF Follows
  <2> DEFINE y == Place(x, idxs[n], entries[n])
  <2>2. Follows(x.c, y.c) /\ y.rm \in [SeqId -> Int]
    BY <2>1, PlaceFollows
  <2>4. y = [c |-> y.c, rm |-> y.rm]
    BY DEF Place
  <2> HIDE DEF y
  <2>3. Follows(c, y.c) /\ y.c \in CellsRecord
    <3>1. Follows(c, y.c)
      BY <2>1, <2>2, FollowsTransitive
    <3> QED
      BY <3>1 DEF Follows, CellsOK
  <2>5. y \in [c : CellsRecord, rm : [SeqId -> Int]]
    BY <2>2, <2>3, <2>4
  <2>6. y \in G[n]
    BY <2>1, <2>3, <2>5
  <2> QED
    BY <2>6 DEF y
<1> HIDE DEF x0, N
<1> HIDE DEF Step, G
<1>3. \A n \in 1 .. N : \A x \in G[n - 1] : h[n][x] = Step(n, x) /\ h[n][x] \in G[n]
  BY <1>2
<1> HIDE DEF h
<1>4. PICK g : IsLoop(g, x0, h, G, N)
  BY <1>1, <1>3, LoopExists
<1>5. ASSUME NEW n \in 0 .. N PROVE g[n] = IF n = 0 THEN x0 ELSE Step(n, g[n - 1])
  <2>1. n # 0 => n \in 1 .. N
    BY <1>1
  <2> QED
    BY <1>3, <1>4, <2>1 DEF IsLoop, Runs
<1>6. f = [n \in 0 .. N |-> IF n = 0 THEN x0 ELSE Step(n, f[n - 1])]
  <2>1. g = [n \in 0 .. N |-> IF n = 0 THEN x0 ELSE Step(n, g[n - 1])]
    BY <1>4, <1>5 DEF IsLoop
  <2> QED
    BY <2>1
<1> HIDE DEF f
<1>7. f[0] \in G[0] /\ \A n \in 1 .. N : f[n - 1] \in G[n - 1] => f[n] \in G[n]
  <2>1. f[0] = x0
    BY <1>1, <1>6
  <2>2. ASSUME NEW n \in 1 .. N PROVE f[n] = Step(n, f[n - 1])
    <3>1. n \in 0 .. N /\ n # 0
      BY <1>1
    <3> QED
      BY <1>6, <3>1
  <2> QED
    BY <1>1, <1>2, <2>1, <2>2
<1>8. f[N] \in G[N]
  BY <1>1, <1>7, LoopReaches
<1>9. Applied(c, idxs, entries) = Purged(f[N])
  BY DEF Applied, f, Step, x0, N
<1>10. Follows(c, f[N].c)
  BY <1>1, <1>8 DEF G
<1>11. Follows(f[N].c, Purged(f[N]))
  <2>1. CellsOK(f[N].c)
    BY <1>10 DEF Follows
  <2>2. \A S, lo, hi : Follows(f[N].c, RemovedOf(f[N].c, S, lo, hi))
    BY <2>1, RemovedOfFollows
  <2> QED
    BY <2>2 DEF Purged
<1> QED
  BY <1>9, <1>10, <1>11, FollowsTransitive

\* Cells without a shift, as llama_decode leaves them
CleanCells == {c \in CellsRecord : CellsOK(c) /\ ~c.has_shift /\ \A i \in Cell : c.shift[i] = 0}

\* Cells without a shift keep none after an operation that shifts nothing.
LEMMA FollowsClean ==
    ASSUME NEW c \in CleanCells, NEW d, Follows(c, d) PROVE d \in CleanCells
  BY DEF Follows, CleanCells, CellsOK

\* Restoring cells of a stream, as prepare() does
LEMMA PutBackIsClean ==
    ASSUME NEW c \in CleanCells, NEW from \in CleanCells, NEW idxs \in Seq(Cell)
    PROVE  PutBack(c, idxs, from) \in CleanCells
<1> DEFINE N == Len(idxs)
           Step(n, x) == SetCell(x, idxs[n], from)
           G == [n \in 0 .. N |-> CleanCells]
           h == [n \in 1 .. N |-> [x \in G[n - 1] |-> Step(n, x)]]
           f == CHOOSE f : f = [n \in 0 .. N |-> IF n = 0 THEN c ELSE Step(n, f[n - 1])]
<1>1. c \in G[0] /\ N \in Nat
  OBVIOUS
<1>2. ASSUME NEW n \in 1 .. N, NEW x \in G[n - 1] PROVE Step(n, x) \in G[n]
  <2>1. n \in 0 .. N /\ x \in CleanCells /\ idxs[n] \in Cell
    BY <1>1
  <2>2. CellsOK(SetCell(x, idxs[n], from)) /\ Touches(x, SetCell(x, idxs[n], from), idxs[n])
    BY <2>1, SetCellKeepsCells DEF CleanCells
  <2>3. SetCell(x, idxs[n], from) \in CleanCells
    BY <2>1, <2>2, FollowsItself, TouchFollows, FollowsClean DEF CleanCells
  <2> QED
    BY <2>1, <2>3
<1> HIDE DEF N
<1> HIDE DEF Step, G
<1>3. \A n \in 1 .. N : \A x \in G[n - 1] : h[n][x] = Step(n, x) /\ h[n][x] \in G[n]
  BY <1>2
<1> HIDE DEF h
<1>4. PICK g : IsLoop(g, c, h, G, N)
  BY <1>1, <1>3, LoopExists
<1>5. ASSUME NEW n \in 0 .. N PROVE g[n] = IF n = 0 THEN c ELSE Step(n, g[n - 1])
  <2>1. n # 0 => n \in 1 .. N
    BY <1>1
  <2> QED
    BY <1>3, <1>4, <2>1 DEF IsLoop, Runs
<1>6. f = [n \in 0 .. N |-> IF n = 0 THEN c ELSE Step(n, f[n - 1])]
  <2>1. g = [n \in 0 .. N |-> IF n = 0 THEN c ELSE Step(n, g[n - 1])]
    BY <1>4, <1>5 DEF IsLoop
  <2> QED
    BY <2>1
<1> HIDE DEF f
<1>7. f[0] \in G[0] /\ \A n \in 1 .. N : f[n - 1] \in G[n - 1] => f[n] \in G[n]
  <2>1. f[0] = c
    BY <1>1, <1>6
  <2>2. ASSUME NEW n \in 1 .. N PROVE f[n] = Step(n, f[n - 1])
    <3>1. n \in 0 .. N /\ n # 0
      BY <1>1
    <3> QED
      BY <1>6, <3>1
  <2> QED
    BY <1>1, <1>2, <2>1, <2>2
<1>8. f[N] \in G[N]
  BY <1>1, <1>7, LoopReaches
<1>9. PutBack(c, idxs, from) = f[N]
  BY DEF PutBack, f, Step, N
<1> QED
  BY <1>1, <1>8, <1>9 DEF G

\* Slots: as many different cells as there are tokens, or none
SlotsFor(n) == {s \in Seq(Cell) : Len(s) = n /\ IsInjective(s)}

\* find_slot()
LEMMA FindSlotFinds ==
    ASSUME NEW c, NEW head \in 0 .. Size, NEW m \in Nat
    PROVE  FindSlot(c, head, m) = <<>> \/ FindSlot(c, head, m) \in SlotsFor(m)
<1> DEFINE start == IF head > Cardinality(c.used) + 2 * m THEN 0 ELSE head
           i(n) == Around(start + n - 1)
           c0 == <<>>
           Step(n, x) == IF Len(x) < m /\ CanUse(c, i(n)) THEN Append(x, i(n)) ELSE x
           G == [n \in 0 .. Size |->
                   {x \in Seq(Cell) : /\ Len(x) <= m /\ IsInjective(x)
                                      /\ \A k \in DOMAIN x : \E j \in 1 .. n : x[k] = i(j)}]
           h == [n \in 1 .. Size |-> [x \in G[n - 1] |-> Step(n, x)]]
           f == CHOOSE f : f = [n \in 0 .. Size |-> IF n = 0 THEN c0 ELSE Step(n, f[n - 1])]
<1> HIDE DEF start
<1>1. c0 \in G[0] /\ Size \in Nat
  BY CellsAssumption DEF IsInjective
<1>a. start \in 0 .. Size
  BY CellsAssumption DEF start
<1>b. \A n \in 1 .. Size : i(n) \in Cell /\ \A j \in 1 .. Size : j # n => i(j) # i(n)
  BY <1>a, CellsAssumption DEF Around, Cell
<1> HIDE DEF i
<1>2. ASSUME NEW n \in 1 .. Size, NEW x \in G[n - 1] PROVE Step(n, x) \in G[n]
  <2>1. /\ n \in 0 .. Size /\ x \in Seq(Cell) /\ Len(x) <= m /\ IsInjective(x)
        /\ \A k \in DOMAIN x : \E j \in 1 .. (n - 1) : x[k] = i(j)
    BY SizeIsNat
  <2>2. \A k \in DOMAIN x : \E j \in 1 .. n : x[k] = i(j) /\ j # n
    BY <2>1, <1>1
  <2>3. CASE Len(x) < m /\ CanUse(c, i(n))
    <3> DEFINE y == Append(x, i(n))
    <3>1. y \in Seq(Cell) /\ Len(y) = Len(x) + 1 /\ DOMAIN y = 1 .. (Len(x) + 1) /\ DOMAIN x = 1 .. Len(x) /\ Len(x) \in Nat
      BY <1>b, <2>1
    <3>2. y[Len(x) + 1] = i(n) /\ \A k \in DOMAIN x : y[k] = x[k]
      BY <2>1
    <3> HIDE DEF y
    <3>3. \A k \in DOMAIN x : y[k] # i(n)
      BY <1>1, <1>b, <2>2, <3>2
    <3>4. \A k \in DOMAIN y : k = Len(x) + 1 \/ k \in DOMAIN x
      BY <3>1
    <3>5. IsInjective(y)
      BY <2>1, <3>2, <3>3, <3>4 DEF IsInjective
    <3>6. \A k \in DOMAIN y : \E j \in 1 .. n : y[k] = i(j)
      BY <2>2, <3>2, <3>4
    <3>7. Len(y) <= m
      BY <2>3, <3>1
    <3>8. y \in G[n]
      BY <2>1, <3>1, <3>5, <3>6, <3>7
    <3> QED
      BY <2>3, <3>8 DEF y
  <2>4. CASE ~(Len(x) < m /\ CanUse(c, i(n)))
    BY <2>1, <2>2, <2>4
  <2> QED
    BY <2>3, <2>4
<1> HIDE DEF c0
<1> HIDE DEF Step, G
<1>3. \A n \in 1 .. Size : \A x \in G[n - 1] : h[n][x] = Step(n, x) /\ h[n][x] \in G[n]
  BY <1>2
<1> HIDE DEF h
<1>4. PICK g : IsLoop(g, c0, h, G, Size)
  BY <1>1, <1>3, LoopExists
<1>5. ASSUME NEW n \in 0 .. Size PROVE g[n] = IF n = 0 THEN c0 ELSE Step(n, g[n - 1])
  <2>1. n # 0 => n \in 1 .. Size
    BY <1>1
  <2> QED
    BY <1>3, <1>4, <2>1 DEF IsLoop, Runs
<1>6. f = [n \in 0 .. Size |-> IF n = 0 THEN c0 ELSE Step(n, f[n - 1])]
  <2>1. g = [n \in 0 .. Size |-> IF n = 0 THEN c0 ELSE Step(n, g[n - 1])]
    BY <1>4, <1>5 DEF IsLoop
  <2> QED
    BY <2>1
<1> HIDE DEF f
<1>7. f[0] \in G[0] /\ \A n \in 1 .. Size : f[n - 1] \in G[n - 1] => f[n] \in G[n]
  <2>1. f[0] = c0
    BY <1>1, <1>6
  <2>2. ASSUME NEW n \in 1 .. Size PROVE f[n] = Step(n, f[n - 1])
    <3>1. n \in 0 .. Size /\ n # 0
      BY <1>1
    <3> QED
      BY <1>6, <3>1
  <2> QED
    BY <1>1, <1>2, <2>1, <2>2
<1>8. f[Size] \in G[Size]
  BY <1>1, <1>7, LoopReaches
<1>9. FindSlot(c, head, m) = IF Len(f[Size]) < m THEN <<>> ELSE f[Size]
  BY DEF FindSlot, f, Step, start, i, c0
<1>10. f[Size] \in Seq(Cell) /\ Len(f[Size]) <= m /\ IsInjective(f[Size])
  BY <1>1, <1>8 DEF G
<1> QED
  BY <1>9, <1>10 DEF SlotsFor

-----------------------------------------------------------------------------
(* Cutting a batch into ubatches                                           *)

\* split_simple() returns entries of the batch.
LEMMA SplitSimpleIs ==
    ASSUME NEW E, NEW batch \in Seq(E), NEW used, NEW n_ubatch \in Nat
    PROVE  SplitSimple(batch, used, n_ubatch) \in Seq(DOMAIN batch)
<1> DEFINE left == Unused(batch, used)
           k == Min({n_ubatch, Len(left)})
<1>1. left \in Seq(DOMAIN batch)
  BY UnusedIs
<1> HIDE DEF left
<1>2. k \in {n_ubatch, Len(left)} /\ k <= Len(left) /\ k \in Nat
  <2>1. {n_ubatch, Len(left)} \in SUBSET Nat
    BY <1>1
  <2> QED
    BY <2>1, MinIsLeast
<1> HIDE DEF k
<1>3. SubSeq(left, 1, k) \in Seq(DOMAIN batch)
  BY <1>1, <1>2
<1> QED
  BY <1>3 DEF SplitSimple, left, k

\* The ubatches that a batch is cut into
Parts(batch) == Seq(Seq(DOMAIN batch) \ {<<>>})
SplitSoFar(batch) == [parts : Parts(batch), used : SUBSET DOMAIN batch]

\* Ubatches of split_simple() are not empty and have entries of the batch.
LEMMA AllSimpleIs ==
    ASSUME NEW E, NEW batch \in Seq(E), NEW n_ubatch \in Nat
    PROVE  AllSimple(batch, n_ubatch) \in Parts(batch)
<1> DEFINE N == Len(batch)
           c0 == [parts |-> <<>>, used |-> {}]
           Cut(used) == SplitSimple(batch, used, n_ubatch)
           Step(n, x) == IF Cut(x.used) = <<>> THEN x
                         ELSE [parts |-> Append(x.parts, Cut(x.used)), used |-> x.used \cup ToSet(Cut(x.used))]
           G == [n \in 0 .. N |-> SplitSoFar(batch)]
           h == [n \in 1 .. N |-> [x \in G[n - 1] |-> Step(n, x)]]
           f == CHOOSE f : f = [n \in 0 .. N |-> IF n = 0 THEN c0 ELSE Step(n, f[n - 1])]
<1>1. c0 \in G[0] /\ N \in Nat
  <2>1. <<>> \in Parts(batch) /\ N \in Nat
    BY DEF Parts
  <2>2. c0 \in SplitSoFar(batch)
    BY <2>1 DEF SplitSoFar
  <2> QED
    BY <2>1, <2>2
<1>2. ASSUME NEW n \in 1 .. N, NEW x \in G[n - 1] PROVE Step(n, x) \in G[n]
  <2>1. n \in 0 .. N /\ x \in SplitSoFar(batch)
    BY <1>1
  <2> DEFINE next == Cut(x.used)
  <2>2. next \in Seq(DOMAIN batch)
    BY SplitSimpleIs
  <2>3. Step(n, x) = IF next = <<>> THEN x ELSE [parts |-> Append(x.parts, next), used |-> x.used \cup ToSet(next)]
    OBVIOUS
  <2> HIDE DEF Step, next
  <2>4. CASE next # <<>>
    <3>1. Append(x.parts, next) \in Parts(batch)
      BY <2>1, <2>2, <2>4 DEF Parts, SplitSoFar
    <3>2. ToSet(next) \in SUBSET DOMAIN batch
      BY <2>2 DEF ToSet
    <3>3. Step(n, x) \in SplitSoFar(batch)
      BY <2>1, <2>3, <2>4, <3>1, <3>2 DEF SplitSoFar
    <3> QED
      BY <2>1, <3>3
  <2>5. CASE next = <<>>
    BY <2>1, <2>3, <2>5
  <2> QED
    BY <2>4, <2>5
<1> HIDE DEF N, c0, Cut
<1> HIDE DEF Step, G
<1>3. \A n \in 1 .. N : \A x \in G[n - 1] : h[n][x] = Step(n, x) /\ h[n][x] \in G[n]
  BY <1>2
<1> HIDE DEF h
<1>4. PICK g : IsLoop(g, c0, h, G, N)
  BY <1>1, <1>3, LoopExists
<1>5. ASSUME NEW n \in 0 .. N PROVE g[n] = IF n = 0 THEN c0 ELSE Step(n, g[n - 1])
  <2>1. n # 0 => n \in 1 .. N
    BY <1>1
  <2> QED
    BY <1>3, <1>4, <2>1 DEF IsLoop, Runs
<1>6. f = [n \in 0 .. N |-> IF n = 0 THEN c0 ELSE Step(n, f[n - 1])]
  <2>1. g = [n \in 0 .. N |-> IF n = 0 THEN c0 ELSE Step(n, g[n - 1])]
    BY <1>4, <1>5 DEF IsLoop
  <2> QED
    BY <2>1
<1> HIDE DEF f
<1>7. f[0] \in G[0] /\ \A n \in 1 .. N : f[n - 1] \in G[n - 1] => f[n] \in G[n]
  <2>1. f[0] = c0
    BY <1>1, <1>6
  <2>2. ASSUME NEW n \in 1 .. N PROVE f[n] = Step(n, f[n - 1])
    <3>1. n \in 0 .. N /\ n # 0
      BY <1>1
    <3> QED
      BY <1>6, <3>1
  <2> QED
    BY <1>1, <1>2, <2>1, <2>2
<1>8. f[N] \in G[N]
  BY <1>1, <1>7, LoopReaches
<1>9. AllSimple(batch, n_ubatch) = f[N].parts
  BY DEF AllSimple, Ubatches, f, Step, N, c0, Cut
<1>10. f[N] \in SplitSoFar(batch)
  BY <1>1, <1>8 DEF G
<1> QED
  BY <1>9, <1>10 DEF SplitSoFar

\* So are those of split_equal().
LEMMA AllEqualIs ==
    ASSUME NEW E, NEW batch \in Seq(E), NEW n_ubatch \in Nat, NEW sequential
    PROVE  AllEqual(batch, n_ubatch, sequential, 0) \in Parts(batch)
<1> DEFINE N == Len(batch)
           c0 == [parts |-> <<>>, used |-> {}]
           Cut(used) == SplitEqual(batch, used, n_ubatch, sequential, 0)
           Step(n, x) == IF Cut(x.used) = <<>> THEN x
                         ELSE [parts |-> Append(x.parts, Cut(x.used)), used |-> x.used \cup ToSet(Cut(x.used))]
           G == [n \in 0 .. N |-> SplitSoFar(batch)]
           h == [n \in 1 .. N |-> [x \in G[n - 1] |-> Step(n, x)]]
           f == CHOOSE f : f = [n \in 0 .. N |-> IF n = 0 THEN c0 ELSE Step(n, f[n - 1])]
<1>1. c0 \in G[0] /\ N \in Nat
  <2>1. <<>> \in Parts(batch) /\ N \in Nat
    BY DEF Parts
  <2>2. c0 \in SplitSoFar(batch)
    BY <2>1 DEF SplitSoFar
  <2> QED
    BY <2>1, <2>2
<1>2. ASSUME NEW n \in 1 .. N, NEW x \in G[n - 1] PROVE Step(n, x) \in G[n]
  <2>1. n \in 0 .. N /\ x \in SplitSoFar(batch)
    BY <1>1
  <2> DEFINE next == Cut(x.used)
  <2>2. next \in Seq(DOMAIN batch)
    <3>1. 0 \in 0 .. n_ubatch
      OBVIOUS
    <3> QED
      BY <3>1, SplitEqualIs
  <2>3. Step(n, x) = IF next = <<>> THEN x ELSE [parts |-> Append(x.parts, next), used |-> x.used \cup ToSet(next)]
    OBVIOUS
  <2> HIDE DEF Step, next
  <2>4. CASE next # <<>>
    <3>1. Append(x.parts, next) \in Parts(batch)
      BY <2>1, <2>2, <2>4 DEF Parts, SplitSoFar
    <3>2. ToSet(next) \in SUBSET DOMAIN batch
      BY <2>2 DEF ToSet
    <3>3. Step(n, x) \in SplitSoFar(batch)
      BY <2>1, <2>3, <2>4, <3>1, <3>2 DEF SplitSoFar
    <3> QED
      BY <2>1, <3>3
  <2>5. CASE next = <<>>
    BY <2>1, <2>3, <2>5
  <2> QED
    BY <2>4, <2>5
<1> HIDE DEF N, c0, Cut
<1> HIDE DEF Step, G
<1>3. \A n \in 1 .. N : \A x \in G[n - 1] : h[n][x] = Step(n, x) /\ h[n][x] \in G[n]
  BY <1>2
<1> HIDE DEF h
<1>4. PICK g : IsLoop(g, c0, h, G, N)
  BY <1>1, <1>3, LoopExists
<1>5. ASSUME NEW n \in 0 .. N PROVE g[n] = IF n = 0 THEN c0 ELSE Step(n, g[n - 1])
  <2>1. n # 0 => n \in 1 .. N
    BY <1>1
  <2> QED
    BY <1>3, <1>4, <2>1 DEF IsLoop, Runs
<1>6. f = [n \in 0 .. N |-> IF n = 0 THEN c0 ELSE Step(n, f[n - 1])]
  <2>1. g = [n \in 0 .. N |-> IF n = 0 THEN c0 ELSE Step(n, g[n - 1])]
    BY <1>4, <1>5 DEF IsLoop
  <2> QED
    BY <2>1
<1> HIDE DEF f
<1>7. f[0] \in G[0] /\ \A n \in 1 .. N : f[n - 1] \in G[n - 1] => f[n] \in G[n]
  <2>1. f[0] = c0
    BY <1>1, <1>6
  <2>2. ASSUME NEW n \in 1 .. N PROVE f[n] = Step(n, f[n - 1])
    <3>1. n \in 0 .. N /\ n # 0
      BY <1>1
    <3> QED
      BY <1>6, <3>1
  <2> QED
    BY <1>1, <1>2, <2>1, <2>2
<1>8. f[N] \in G[N]
  BY <1>1, <1>7, LoopReaches
<1>9. AllEqual(batch, n_ubatch, sequential, 0) = f[N].parts
  BY DEF AllEqual, Ubatches, f, Step, N, c0, Cut
<1>10. f[N] \in SplitSoFar(batch)
  BY <1>1, <1>8 DEF G
<1> QED
  BY <1>9, <1>10 DEF SplitSoFar

\* The entries of batches, and the groups of a ubatch
Entry == [pos : Pos, seqs : SUBSET SeqId, tok : Tok]
EntryGroup == [strm : Stream, entries : Seq(Entry) \ {<<>>}]

\* Every sequence has a stream.
LEMMA StreamsAre ==
    ASSUME SetupOK(setup)
    PROVE  /\ setup.streams \in {1, NSeqs} /\ setup.streams \in Nat \ {0}
           /\ 0 \in Stream /\ \A s \in SeqId : StreamOf(s) \in Stream
  BY CellsAssumption DEF SetupOK, Stream, StreamOf, SeqId

\* The groups of a ubatch have entries, each in a stream, and are no more than there are
\* streams.
LEMMA GroupsAre ==
    ASSUME SetupOK(setup), NEW batch \in Seq(Entry), NEW idxs \in Seq(DOMAIN batch), idxs # <<>>
    PROVE  Groups(batch, idxs) \in Seq(EntryGroup) /\ Len(Groups(batch, idxs)) <= setup.streams
<1>a. ASSUME NEW m \in Stream, NEW is \in Seq(DOMAIN batch), is # <<>>
      PROVE  Group(batch, is, m) \in EntryGroup
  <2> DEFINE es == [k \in DOMAIN is |-> batch[is[k]]]
  <2>1. es \in Seq(Entry) /\ Len(es) = Len(is) /\ Len(is) # 0
    <3>1. DOMAIN is = 1 .. Len(is) /\ Len(is) \in Nat /\ Len(is) # 0
      BY <1>a
    <3>2. \A k \in DOMAIN is : batch[is[k]] \in Entry
      <4>1. \A k \in DOMAIN is : is[k] \in DOMAIN batch
        BY <3>1
      <4> QED
        BY <4>1
    <3> HIDE DEF Entry
    <3> QED
      BY <3>1, <3>2
  <2>2. es # <<>>
    BY <2>1
  <2> HIDE DEF es
  <2>3. [strm |-> m, entries |-> es] \in EntryGroup
    BY <2>1, <2>2 DEF EntryGroup
  <2> QED
    BY <2>3 DEF Group, es
<1> DEFINE c0 == <<>>
           mine(n) == Among(idxs, {i \in DOMAIN batch : n - 1 \in batch[i].seqs})
           Step(n, x) == IF mine(n) = <<>> THEN x ELSE Append(x, Group(batch, mine(n), StreamOf(n - 1)))
           G == [n \in 0 .. NSeqs |-> {x \in Seq(EntryGroup) : Len(x) <= n}]
           h == [n \in 1 .. NSeqs |-> [x \in G[n - 1] |-> Step(n, x)]]
           f == CHOOSE f : f = [n \in 0 .. NSeqs |-> IF n = 0 THEN c0 ELSE Step(n, f[n - 1])]
<1>1. c0 \in G[0] /\ NSeqs \in Nat
  BY CellsAssumption
<1>2. ASSUME NEW n \in 1 .. NSeqs, NEW x \in G[n - 1] PROVE Step(n, x) \in G[n]
  <2>1. n \in 0 .. NSeqs /\ x \in Seq(EntryGroup) /\ Len(x) <= n - 1 /\ n - 1 \in SeqId
    BY <1>1 DEF SeqId
  <2>2. mine(n) \in Seq(DOMAIN batch)
    <3> DEFINE S == {i \in DOMAIN batch : n - 1 \in batch[i].seqs}
    <3> HIDE DEF S
    <3>1. Among(idxs, S) \in Seq({t \in DOMAIN batch : t \in S})
      BY AmongIs
    <3>2. Seq({t \in DOMAIN batch : t \in S}) \subseteq Seq(DOMAIN batch)
      OBVIOUS
    <3>3. Among(idxs, S) \in Seq(DOMAIN batch)
      BY <3>1, <3>2
    <3> QED
      BY <3>3 DEF S
  <2> HIDE DEF mine
  <2>3. CASE mine(n) # <<>>
    <3> DEFINE g == Group(batch, mine(n), StreamOf(n - 1))
    <3>1. g \in EntryGroup
      BY <1>a, <2>1, <2>2, <2>3, StreamsAre
    <3> HIDE DEF g
    <3>2. Append(x, g) \in Seq(EntryGroup) /\ Len(Append(x, g)) <= n
      BY <2>1, <3>1
    <3> QED
      BY <2>1, <2>3, <3>2 DEF g
  <2>4. CASE mine(n) = <<>>
    BY <2>1, <2>4
  <2> QED
    BY <2>3, <2>4
<1> HIDE DEF c0, mine
<1> HIDE DEF Step, G
<1>3. \A n \in 1 .. NSeqs : \A x \in G[n - 1] : h[n][x] = Step(n, x) /\ h[n][x] \in G[n]
  BY <1>2
<1> HIDE DEF h
<1>4. PICK g : IsLoop(g, c0, h, G, NSeqs)
  BY <1>1, <1>3, LoopExists
<1>5. ASSUME NEW n \in 0 .. NSeqs PROVE g[n] = IF n = 0 THEN c0 ELSE Step(n, g[n - 1])
  <2>1. n # 0 => n \in 1 .. NSeqs
    BY <1>1
  <2> QED
    BY <1>3, <1>4, <2>1 DEF IsLoop, Runs
<1>6. f = [n \in 0 .. NSeqs |-> IF n = 0 THEN c0 ELSE Step(n, f[n - 1])]
  <2>1. g = [n \in 0 .. NSeqs |-> IF n = 0 THEN c0 ELSE Step(n, g[n - 1])]
    BY <1>4, <1>5 DEF IsLoop
  <2> QED
    BY <2>1
<1> HIDE DEF f
<1>7. f[0] \in G[0] /\ \A n \in 1 .. NSeqs : f[n - 1] \in G[n - 1] => f[n] \in G[n]
  <2>1. f[0] = c0
    BY <1>1, <1>6
  <2>2. ASSUME NEW n \in 1 .. NSeqs PROVE f[n] = Step(n, f[n - 1])
    <3>1. n \in 0 .. NSeqs /\ n # 0
      BY <1>1
    <3> QED
      BY <1>6, <3>1
  <2> QED
    BY <1>1, <1>2, <2>1, <2>2
<1>8. f[NSeqs] \in G[NSeqs]
  BY <1>1, <1>7, LoopReaches
<1>9. Groups(batch, idxs) = IF setup.streams = 1 THEN <<Group(batch, idxs, 0)>> ELSE f[NSeqs]
  BY DEF Groups, f, Step, mine, c0
<1>10. f[NSeqs] \in Seq(EntryGroup) /\ Len(f[NSeqs]) <= NSeqs
  BY <1>1, <1>8 DEF G
<1>11. CASE setup.streams = 1
  <2> DEFINE only == Group(batch, idxs, 0)
  <2>1. only \in EntryGroup
    BY <1>a, StreamsAre
  <2> HIDE DEF only
  <2>2. <<only>> \in Seq(EntryGroup) /\ Len(<<only>>) = 1
    BY <2>1
  <2> QED
    BY <1>9, <1>11, <2>2 DEF only
<1>12. CASE setup.streams # 1
  BY <1>9, <1>10, <1>12, StreamsAre
<1> QED
  BY <1>11, <1>12

\* A ubatch whose groups have slots
SlottedUbatch ==
    {u \in [groups : Seq(EntryGroup), sinfo : Seq(Seq(Cell))] :
        /\ Len(u.groups) <= setup.streams /\ DOMAIN u.sinfo = DOMAIN u.groups
        /\ \A g \in DOMAIN u.groups : u.sinfo[g] \in SlotsFor(Len(u.groups[g].entries))}

\* The group of a stream, and what is known of it
LEMMA GroupOfStream ==
    ASSUME SetupOK(setup), NEW u \in SlottedUbatch, NEW m \in Stream, InUbatch(u, m)
    PROVE  LET g == GroupOf(u, m)
           IN /\ g \in DOMAIN u.groups /\ g \in DOMAIN u.sinfo /\ g - 1 \in Stream
              /\ u.groups[g].entries \in Seq(Entry) /\ Len(u.groups[g].entries) # 0
              /\ u.sinfo[g] \in Seq(Cell) /\ Len(u.sinfo[g]) = Len(u.groups[g].entries)
<1> DEFINE g == GroupOf(u, m)
<1>1. g \in DOMAIN u.groups
  BY DEF InUbatch, GroupOf
<1> HIDE DEF g
<1>2. u.groups \in Seq(EntryGroup) /\ Len(u.groups) <= setup.streams
  BY DEF SlottedUbatch
<1>3. g \in 1 .. setup.streams /\ g - 1 \in Stream
  BY <1>1, <1>2, StreamsAre DEF Stream
<1>4. u.groups[g] \in EntryGroup
  BY <1>1, <1>2
<1>5. u.groups[g].entries \in Seq(Entry) /\ Len(u.groups[g].entries) # 0
  BY <1>4 DEF EntryGroup
<1>6. g \in DOMAIN u.sinfo /\ u.sinfo[g] \in SlotsFor(Len(u.groups[g].entries))
  BY <1>1 DEF SlottedUbatch
<1> QED
  BY <1>1, <1>3, <1>5, <1>6 DEF SlotsFor, g

\* Cells and heads after a ubatch
LEMMA AfterUbatch ==
    ASSUME SetupOK(setup), NEW u \in SlottedUbatch
    PROVE  /\ \A cells : (\A m \in Stream : CellsOK(cells[m])) =>
                 \A m \in Stream : Follows(cells[m], CellsAfter(cells, u)[m])
           /\ \A heads \in [Stream -> 0 .. Size] : HeadsAfter(heads, u) \in [Stream -> 0 .. Size]
<1>1. ASSUME NEW cells, \A m \in Stream : CellsOK(cells[m]), NEW m \in Stream
      PROVE  Follows(cells[m], CellsAfter(cells, u)[m])
  <2>1. CASE InUbatch(u, m)
    <3> DEFINE idxs == u.sinfo[GroupOf(u, m)]
               entries == u.groups[GroupOf(u, m)].entries
    <3>1. idxs \in Seq(Cell) /\ entries \in Seq(Entry) /\ Len(entries) = Len(idxs)
      BY <2>1, GroupOfStream
    <3>2. CellsAfter(cells, u)[m] = Applied(cells[m], idxs, entries)
      BY <2>1 DEF CellsAfter
    <3> HIDE DEF idxs, entries
    <3>3. \A n \in 1 .. Len(idxs) : PlaceableIn(idxs[n], entries[n])
      <4>1. \A n \in 1 .. Len(idxs) : idxs[n] \in Cell /\ entries[n] \in Entry
        BY <3>1
      <4> QED
        BY <4>1 DEF PlaceableIn, Entry
    <3> QED
      BY <1>1, <3>1, <3>2, <3>3, AppliedFollows
  <2>2. CASE ~InUbatch(u, m)
    <3>1. CellsAfter(cells, u)[m] = cells[m]
      BY <2>2 DEF CellsAfter
    <3> QED
      BY <1>1, <3>1, FollowsItself
  <2> QED
    BY <2>1, <2>2
<1>2. ASSUME NEW heads \in [Stream -> 0 .. Size] PROVE HeadsAfter(heads, u) \in [Stream -> 0 .. Size]
  <2>1. ASSUME NEW m \in Stream, InUbatch(u, m) PROVE Last(u.sinfo[GroupOf(u, m)]) + 1 \in 0 .. Size
    <3> DEFINE idxs == u.sinfo[GroupOf(u, m)]
    <3>1. idxs \in Seq(Cell) /\ Len(idxs) # 0
      BY <2>1, GroupOfStream
    <3> HIDE DEF idxs
    <3>2. Last(idxs) \in Cell
      BY <3>1 DEF Last
    <3>3. Last(idxs) + 1 \in 0 .. Size
      BY <3>2, CellsAssumption DEF Cell
    <3> QED
      BY <3>3 DEF idxs
  <2> QED
    BY <2>1 DEF HeadsAfter
<1> QED
  BY <1>1, <1>2
-----------------------------------------------------------------------------
(* Placing ubatches and updating keys                                      *)

Heads == [Stream -> 0 .. Size]
CleanStreams == [Stream -> CleanCells]

\* Groups that all find slots are a ubatch.
LEMMA SlotsMakeUbatch ==
    ASSUME SetupOK(setup), NEW groups \in Seq(EntryGroup), Len(groups) <= setup.streams,
           NEW cells, NEW heads \in Heads,
           \A g \in DOMAIN groups : Sinfo(cells, heads, groups)[g] # <<>>
    PROVE  [groups |-> groups, sinfo |-> Sinfo(cells, heads, groups)] \in SlottedUbatch
<1> DEFINE sinfo == Sinfo(cells, heads, groups)
           u == [groups |-> groups, sinfo |-> sinfo]
<1>1. DOMAIN sinfo = DOMAIN groups /\ DOMAIN groups = 1 .. Len(groups) /\ Len(groups) \in Nat
  BY DEF Sinfo
<1>2. ASSUME NEW g \in DOMAIN groups PROVE sinfo[g] \in SlotsFor(Len(groups[g].entries))
  <2>1. groups[g].strm \in Stream /\ groups[g].entries \in Seq(Entry)
    <3>1. groups[g] \in EntryGroup
      OBVIOUS
    <3> QED
      BY <3>1 DEF EntryGroup
  <2>2. sinfo[g] = FindSlot(cells[groups[g].strm], heads[groups[g].strm], Len(groups[g].entries))
    BY DEF Sinfo
  <2>3. heads[groups[g].strm] \in 0 .. Size /\ Len(groups[g].entries) \in Nat
    BY <2>1 DEF Heads
  <2> QED
    BY <2>2, <2>3, FindSlotFinds
<1>3. sinfo = [g \in 1 .. Len(groups) |-> sinfo[g]]
  BY <1>1 DEF Sinfo
<1> HIDE DEF sinfo
<1>4. \A g \in DOMAIN groups : sinfo[g] \in Seq(Cell)
  BY <1>2 DEF SlotsFor
<1>5. sinfo \in Seq(Seq(Cell))
  BY <1>1, <1>3, <1>4
<1>6. u \in [groups : Seq(EntryGroup), sinfo : Seq(Seq(Cell))]
  BY <1>5
<1>7. u \in SlottedUbatch
  BY <1>1, <1>2, <1>6 DEF SlottedUbatch
<1> QED
  BY <1>7 DEF sinfo

\* What prepare() remembers of a ubatch that it has placed
Remembered == [u : SlottedUbatch, cells : CleanStreams, heads : Heads]
Placed == [ok : BOOLEAN, states : Seq(Remembered), cells : CleanStreams, heads : Heads]

\* Placing the ubatches one after the other
LEMMA EmplacedIs ==
    ASSUME SetupOK(setup), NEW batch \in Seq(Entry), NEW splits \in Parts(batch),
           NEW cells \in CleanStreams, NEW heads \in Heads
    PROVE  Emplaced(batch, splits, cells, heads) \in Placed
<1> DEFINE N == Len(splits)
           c0 == [ok |-> TRUE, states |-> <<>>, cells |-> cells, heads |-> heads]
           groups(n) == Groups(batch, splits[n])
           u(n, x) == [groups |-> groups(n), sinfo |-> Sinfo(x.cells, x.heads, groups(n))]
           Step(n, x) ==
             IF ~x.ok \/ \E g \in DOMAIN groups(n) : u(n, x).sinfo[g] = <<>>
             THEN [x EXCEPT !.ok = FALSE]
             ELSE [ok |-> TRUE, cells |-> CellsAfter(x.cells, u(n, x)), heads |-> HeadsAfter(x.heads, u(n, x)),
                   states |-> Append(x.states, [u |-> u(n, x), cells |-> x.cells, heads |-> x.heads])]
           G == [n \in 0 .. N |-> Placed]
           h == [n \in 1 .. N |-> [x \in G[n - 1] |-> Step(n, x)]]
           f == CHOOSE f : f = [n \in 0 .. N |-> IF n = 0 THEN c0 ELSE Step(n, f[n - 1])]
<1>1. c0 \in G[0] /\ N \in Nat
  <2>1. N \in Nat /\ <<>> \in Seq(Remembered)
    BY DEF Parts
  <2>2. c0 \in Placed
    BY <2>1 DEF Placed
  <2> QED
    BY <2>1, <2>2
<1>2. ASSUME NEW n \in 1 .. N, NEW x \in G[n - 1] PROVE Step(n, x) \in G[n]
  <2>1. n \in 0 .. N /\ x \in Placed /\ splits[n] \in Seq(DOMAIN batch) /\ splits[n] # <<>>
    BY <1>1 DEF Parts
  <2>2. x.ok \in BOOLEAN /\ x.states \in Seq(Remembered) /\ x.cells \in CleanStreams /\ x.heads \in Heads
    BY <2>1 DEF Placed
  <2>3. groups(n) \in Seq(EntryGroup) /\ Len(groups(n)) <= setup.streams
    BY <2>1, GroupsAre
  <2> DEFINE v == u(n, x)
  <2>4. v.sinfo = Sinfo(x.cells, x.heads, groups(n)) /\ v.groups = groups(n)
    OBVIOUS
  <2>5. CASE ~x.ok \/ \E g \in DOMAIN groups(n) : v.sinfo[g] = <<>>
    <3>1. [x EXCEPT !.ok = FALSE] \in Placed
      BY <2>1 DEF Placed
    <3> HIDE DEF groups
    <3> QED
      BY <2>1, <2>5, <3>1
  <2>6. CASE ~(~x.ok \/ \E g \in DOMAIN groups(n) : v.sinfo[g] = <<>>)
    <3>1. v \in SlottedUbatch
      <4> HIDE DEF groups
      <4> QED
        BY <2>2, <2>3, <2>4, <2>6, SlotsMakeUbatch
    <3>2. Step(n, x) = [ok |-> TRUE, cells |-> CellsAfter(x.cells, v), heads |-> HeadsAfter(x.heads, v),
                        states |-> Append(x.states, [u |-> v, cells |-> x.cells, heads |-> x.heads])]
      BY <2>6
    <3> HIDE DEF v, Step
    <3>3. HeadsAfter(x.heads, v) \in Heads
      BY <2>2, <3>1, AfterUbatch DEF Heads
    <3>4. CellsAfter(x.cells, v) \in CleanStreams
      <4>1. \A m \in Stream : x.cells[m] \in CleanCells
        BY <2>2 DEF CleanStreams
      <4>2. \A m \in Stream : Follows(x.cells[m], CellsAfter(x.cells, v)[m])
        BY <3>1, <4>1, AfterUbatch DEF CleanCells
      <4>3. \A m \in Stream : CellsAfter(x.cells, v)[m] \in CleanCells
        BY <4>1, <4>2, FollowsClean
      <4>4. CellsAfter(x.cells, v) = [m \in Stream |-> CellsAfter(x.cells, v)[m]]
        BY DEF CellsAfter
      <4> QED
        BY <4>3, <4>4 DEF CleanStreams
    <3>5. Append(x.states, [u |-> v, cells |-> x.cells, heads |-> x.heads]) \in Seq(Remembered)
      BY <2>2, <3>1 DEF Remembered
    <3>6. Step(n, x) \in Placed
      BY <3>2, <3>3, <3>4, <3>5 DEF Placed
    <3> QED
      BY <2>1, <3>6
  <2> QED
    BY <2>5, <2>6
<1> HIDE DEF N, c0, groups, u
<1> HIDE DEF Step, G
<1>3. \A n \in 1 .. N : \A x \in G[n - 1] : h[n][x] = Step(n, x) /\ h[n][x] \in G[n]
  BY <1>2
<1> HIDE DEF h
<1>4. PICK g : IsLoop(g, c0, h, G, N)
  BY <1>1, <1>3, LoopExists
<1>5. ASSUME NEW n \in 0 .. N PROVE g[n] = IF n = 0 THEN c0 ELSE Step(n, g[n - 1])
  <2>1. n # 0 => n \in 1 .. N
    BY <1>1
  <2> QED
    BY <1>3, <1>4, <2>1 DEF IsLoop, Runs
<1>6. f = [n \in 0 .. N |-> IF n = 0 THEN c0 ELSE Step(n, f[n - 1])]
  <2>1. g = [n \in 0 .. N |-> IF n = 0 THEN c0 ELSE Step(n, g[n - 1])]
    BY <1>4, <1>5 DEF IsLoop
  <2> QED
    BY <2>1
<1> HIDE DEF f
<1>7. f[0] \in G[0] /\ \A n \in 1 .. N : f[n - 1] \in G[n - 1] => f[n] \in G[n]
  <2>1. f[0] = c0
    BY <1>1, <1>6
  <2>2. ASSUME NEW n \in 1 .. N PROVE f[n] = Step(n, f[n - 1])
    <3>1. n \in 0 .. N /\ n # 0
      BY <1>1
    <3> QED
      BY <1>6, <3>1
  <2> QED
    BY <1>1, <1>2, <2>1, <2>2
<1>8. f[N] \in G[N]
  BY <1>1, <1>7, LoopReaches
<1>9. Emplaced(batch, splits, cells, heads) = f[N]
  BY DEF Emplaced, f, Step, N, c0, groups, u
<1> QED
  BY <1>1, <1>8, <1>9 DEF G

\* Undoing one ubatch
LEMMA RestoredIs ==
    ASSUME SetupOK(setup), NEW x \in [cells : CleanStreams, heads : Heads], NEW was \in Remembered
    PROVE  Restored(x, was) \in [cells : CleanStreams, heads : Heads]
<1>1. /\ x.cells \in CleanStreams /\ x.heads \in Heads
      /\ was.u \in SlottedUbatch /\ was.cells \in CleanStreams /\ was.heads \in Heads
  BY DEF Remembered
<1> DEFINE cs == [m \in Stream |-> IF InUbatch(was.u, m)
                                  THEN PutBack(x.cells[m], was.u.sinfo[GroupOf(was.u, m)], was.cells[m])
                                  ELSE x.cells[m]]
           hs == [m \in Stream |-> IF InUbatch(was.u, m) THEN was.heads[GroupOf(was.u, m) - 1] ELSE x.heads[m]]
<1>2. ASSUME NEW m \in Stream, InUbatch(was.u, m)
      PROVE  /\ PutBack(x.cells[m], was.u.sinfo[GroupOf(was.u, m)], was.cells[m]) \in CleanCells
             /\ was.heads[GroupOf(was.u, m) - 1] \in 0 .. Size
  <2> DEFINE idxs == was.u.sinfo[GroupOf(was.u, m)]
  <2>1. idxs \in Seq(Cell) /\ GroupOf(was.u, m) - 1 \in Stream
    BY <1>1, <1>2, GroupOfStream
  <2> HIDE DEF idxs
  <2>2. PutBack(x.cells[m], idxs, was.cells[m]) \in CleanCells
    BY <1>1, <2>1, PutBackIsClean DEF CleanStreams
  <2>3. was.heads[GroupOf(was.u, m) - 1] \in 0 .. Size
    BY <1>1, <2>1 DEF Heads
  <2> QED
    BY <2>2, <2>3 DEF idxs
<1>3. cs \in CleanStreams
  BY <1>1, <1>2 DEF CleanStreams
<1>4. hs \in Heads
  BY <1>1, <1>2 DEF Heads
<1>5. Restored(x, was) = [cells |-> cs, heads |-> hs]
  BY DEF Restored
<1> QED
  BY <1>3, <1>4, <1>5

\* prepare()
LEMMA PrepareIs ==
    ASSUME SetupOK(setup), NEW batch \in Seq(Entry), NEW splits \in Parts(batch),
           NEW cells \in CleanStreams, NEW heads \in Heads
    PROVE  LET p == Prepare(batch, splits, cells, heads)
           IN p.cells \in CleanStreams /\ p.heads \in Heads /\ p.ubatches \in Seq(SlottedUbatch)
<1> DEFINE z == Emplaced(batch, splits, cells, heads)
           N == Len(z.states)
           c0 == [cells |-> z.cells, heads |-> z.heads]
           Step(n, y) == Restored(y, z.states[N - n + 1])
           G == [n \in 0 .. N |-> [cells : CleanStreams, heads : Heads]]
           h == [n \in 1 .. N |-> [x \in G[n - 1] |-> Step(n, x)]]
           f == CHOOSE f : f = [n \in 0 .. N |-> IF n = 0 THEN c0 ELSE Step(n, f[n - 1])]
<1>a. z.states \in Seq(Remembered) /\ z.cells \in CleanStreams /\ z.heads \in Heads
  BY EmplacedIs DEF Placed
<1> HIDE DEF z
<1>1. c0 \in G[0] /\ N \in Nat
  <2>1. N \in Nat /\ c0 \in [cells : CleanStreams, heads : Heads]
    BY <1>a
  <2> HIDE DEF c0, N
  <2>2. 0 \in 0 .. N
    BY <2>1
  <2> QED
    BY <2>1, <2>2
<1>2. ASSUME NEW n \in 1 .. N, NEW y \in G[n - 1] PROVE Step(n, y) \in G[n]
  <2>1. n \in 0 .. N /\ y \in [cells : CleanStreams, heads : Heads] /\ N - n + 1 \in 1 .. N
    BY <1>1
  <2>2. z.states[N - n + 1] \in Remembered
    BY <1>a, <2>1
  <2> QED
    BY <2>1, <2>2, RestoredIs
<1> HIDE DEF N, c0
<1> HIDE DEF Step, G
<1>3. \A n \in 1 .. N : \A x \in G[n - 1] : h[n][x] = Step(n, x) /\ h[n][x] \in G[n]
  BY <1>2
<1> HIDE DEF h
<1>4. PICK g : IsLoop(g, c0, h, G, N)
  BY <1>1, <1>3, LoopExists
<1>5. ASSUME NEW n \in 0 .. N PROVE g[n] = IF n = 0 THEN c0 ELSE Step(n, g[n - 1])
  <2>1. n # 0 => n \in 1 .. N
    BY <1>1
  <2> QED
    BY <1>3, <1>4, <2>1 DEF IsLoop, Runs
<1>6. f = [n \in 0 .. N |-> IF n = 0 THEN c0 ELSE Step(n, f[n - 1])]
  <2>1. g = [n \in 0 .. N |-> IF n = 0 THEN c0 ELSE Step(n, g[n - 1])]
    BY <1>4, <1>5 DEF IsLoop
  <2> QED
    BY <2>1
<1> HIDE DEF f
<1>7. f[0] \in G[0] /\ \A n \in 1 .. N : f[n - 1] \in G[n - 1] => f[n] \in G[n]
  <2>1. f[0] = c0
    BY <1>1, <1>6
  <2>2. ASSUME NEW n \in 1 .. N PROVE f[n] = Step(n, f[n - 1])
    <3>1. n \in 0 .. N /\ n # 0
      BY <1>1
    <3> QED
      BY <1>6, <3>1
  <2> QED
    BY <1>1, <1>2, <2>1, <2>2
<1>8. f[N] \in G[N]
  BY <1>1, <1>7, LoopReaches
<1>9. /\ Prepare(batch, splits, cells, heads).cells = f[N].cells
      /\ Prepare(batch, splits, cells, heads).heads = f[N].heads
      /\ Prepare(batch, splits, cells, heads).ubatches = [k \in DOMAIN z.states |-> z.states[k].u]
  BY DEF Prepare, f, Step, N, c0, z
<1>10. [k \in DOMAIN z.states |-> z.states[k].u] \in Seq(SlottedUbatch)
  <2>1. \A k \in DOMAIN z.states : z.states[k] \in Remembered
    BY <1>a
  <2>2. \A k \in DOMAIN z.states : z.states[k].u \in SlottedUbatch
    BY <2>1 DEF Remembered
  <2> QED
    BY <1>a, <2>2
<1>11. f[N] \in [cells : CleanStreams, heads : Heads]
  BY <1>1, <1>8 DEF G
<1> HIDE DEF z
<1> QED
  BY <1>9, <1>10, <1>11

\* The copies of streams keep keys keys.
Key == [tok : Tok \cup {0}, at : Int]
Keys == [Stream -> [Cell -> Key]]

\* Copying the keys of a stream to another one (llama-kv-cache.cpp:823-850) leaves keys.
LEMMA CopiedKeysAre ==
    ASSUME data \in Keys, sc_info \in Seq(Stream \X Stream)
    PROVE  CopiedKeys \in Keys
<1> DEFINE N == Len(sc_info)
           c0 == data
           Step(n, x) == [x EXCEPT ![sc_info[n][2]] = x[sc_info[n][1]]]
           G == [n \in 0 .. N |-> Keys]
           h == [n \in 1 .. N |-> [x \in G[n - 1] |-> Step(n, x)]]
           f == CHOOSE f : f = [n \in 0 .. N |-> IF n = 0 THEN c0 ELSE Step(n, f[n - 1])]
<1>1. c0 \in G[0] /\ N \in Nat
  OBVIOUS
<1>2. ASSUME NEW n \in 1 .. N, NEW x \in G[n - 1] PROVE Step(n, x) \in G[n]
  <2>1. n \in 0 .. N /\ x \in Keys /\ sc_info[n] \in Stream \X Stream
    BY <1>1
  <2>2. sc_info[n][1] \in Stream /\ sc_info[n][2] \in Stream
    BY <2>1
  <2>3. Step(n, x) \in Keys
    BY <2>1, <2>2 DEF Keys
  <2> QED
    BY <2>1, <2>3
<1> HIDE DEF N, c0
<1> HIDE DEF Step, G
<1>3. \A n \in 1 .. N : \A x \in G[n - 1] : h[n][x] = Step(n, x) /\ h[n][x] \in G[n]
  BY <1>2
<1> HIDE DEF h
<1>4. PICK g : IsLoop(g, c0, h, G, N)
  BY <1>1, <1>3, LoopExists
<1>5. ASSUME NEW n \in 0 .. N PROVE g[n] = IF n = 0 THEN c0 ELSE Step(n, g[n - 1])
  <2>1. n # 0 => n \in 1 .. N
    BY <1>1
  <2> QED
    BY <1>3, <1>4, <2>1 DEF IsLoop, Runs
<1>6. f = [n \in 0 .. N |-> IF n = 0 THEN c0 ELSE Step(n, f[n - 1])]
  <2>1. g = [n \in 0 .. N |-> IF n = 0 THEN c0 ELSE Step(n, g[n - 1])]
    BY <1>4, <1>5 DEF IsLoop
  <2> QED
    BY <2>1
<1> HIDE DEF f
<1>7. f[0] \in G[0] /\ \A n \in 1 .. N : f[n - 1] \in G[n - 1] => f[n] \in G[n]
  <2>1. f[0] = c0
    BY <1>1, <1>6
  <2>2. ASSUME NEW n \in 1 .. N PROVE f[n] = Step(n, f[n - 1])
    <3>1. n \in 0 .. N /\ n # 0
      BY <1>1
    <3> QED
      BY <1>6, <3>1
  <2> QED
    BY <1>1, <1>2, <2>1, <2>2
<1>8. f[N] \in G[N]
  BY <1>1, <1>7, LoopReaches
<1>9. CopiedKeys = f[N]
  BY DEF CopiedKeys, f, Step, N, c0
<1> QED
  BY <1>1, <1>8, <1>9 DEF G
-----------------------------------------------------------------------------
(* The invariant                                                           *)

\* The cells of a stream between two calls.  With one stream no cell is copied, and a
\* position need not be what it was at first.
FineCells == {c \in CellsRecord : CellsOK(c) /\ Marked(c) /\ (setup.streams = 1 \/ Original(c))}

SavedEntry == [pos : Pos, tok : Tok \cup {0}, at : Int]

\* The inductive invariant
Inv ==
    /\ SetupOK(setup)
    /\ v_cells \in [Stream -> FineCells] /\ v_heads \in Heads
    /\ data \in Keys
    /\ sc_info \in Seq(Stream \X Stream)
    /\ ubatches \in Seq(SlottedUbatch)
    /\ saved \in Seq(SavedEntry)

\* What the invariant promises
LEMMA InvImpliesCellsAgree == Inv => CellsAgree
<1> SUFFICES ASSUME Inv PROVE CellsAgree
  OBVIOUS
<1>1. \A m \in Stream : v_heads[m] \in 0 .. Size
  BY DEF Inv, Heads
<1>2. \A m \in Stream : v_cells[m] \in FineCells
  BY DEF Inv
<1>3. ASSUME NEW m \in Stream, NEW i \in Cell
      PROVE  data[m][i].tok \in Tok \cup {0} /\ (v_cells[m].shift[i] # 0 => v_cells[m].has_shift)
  <2>1. data[m][i] \in Key
    BY DEF Inv, Keys
  <2> QED
    BY <1>2, <2>1 DEF FineCells, Marked, Key
<1>4. ASSUME NEW n \in DOMAIN ubatches, NEW g \in DOMAIN ubatches[n].groups
      PROVE  /\ Len(ubatches[n].sinfo[g]) = Len(ubatches[n].groups[g].entries)
             /\ IsInjective(ubatches[n].sinfo[g])
  <2>1. ubatches[n] \in SlottedUbatch
    BY DEF Inv
  <2> QED
    BY <2>1 DEF SlottedUbatch, SlotsFor
<1> QED
  BY <1>1, <1>2, <1>3, <1>4 DEF CellsAgree, TypeOK, FineCells

\* A new cache has empty cells, no keys and nothing to process.
LEMMA InitEstablishesInv == Init => Inv
<1> SUFFICES ASSUME Init PROVE Inv
  OBVIOUS
<1>1. SetupOK(setup)
  BY CacheAssumption DEF Init
<1>2. ResetCells \in FineCells
  BY ResetIsOK DEF FineCells, Marked, Original, CellsOK
<1>3. v_cells \in [Stream -> FineCells]
  BY <1>2 DEF Init
<1>4. v_heads \in Heads
  <2>1. 0 \in 0 .. Size
    BY CellsAssumption
  <2> QED
    BY <2>1 DEF Init, Heads
<1>5. Blank \in Key
  BY DEF Blank, Key
<1>6. data \in Keys
  BY <1>5 DEF Init, Keys
<1>7. sc_info = <<>> /\ ubatches = <<>> /\ saved = <<>>
  BY DEF Init
<1>8. \A T : <<>> \in Seq(T)
  OBVIOUS
<1> QED
  BY <1>1, <1>3, <1>4, <1>6, <1>7, <1>8 DEF Inv

\* The number of streams does not change; the sets above are then the same after a step.
LEMMA InvAfter ==
    ASSUME SetupOK(setup)', setup'.streams = setup.streams,
           v_cells' \in [Stream -> FineCells], v_heads' \in Heads, data' \in Keys,
           sc_info' \in Seq(Stream \X Stream), ubatches' \in Seq(SlottedUbatch),
           saved' \in Seq(SavedEntry)
    PROVE  Inv'
<1>1. Stream' = Stream
  BY DEF Stream
<1>2. FineCells' = FineCells
  BY DEF FineCells
<1>3. Heads' = Heads /\ Keys' = Keys
  BY <1>1 DEF Heads, Keys
<1>4. EntryGroup' = EntryGroup
  BY <1>1 DEF EntryGroup
<1>5. SlottedUbatch' = SlottedUbatch
  BY <1>4 DEF SlottedUbatch
<1> QED
  BY <1>1, <1>2, <1>3, <1>5 DEF Inv

\* A call of the owner is one less that it makes.
LEMMA CallCounts ==
    ASSUME SetupOK(setup), setup.calls > 0, setup' = [setup EXCEPT !.calls = @ - 1]
    PROVE  SetupOK(setup)' /\ setup'.streams = setup.streams
<1>1. setup.calls - 1 \in Nat
  BY DEF SetupOK
<1> QED
  BY <1>1 DEF SetupOK

\* Replacing one stream by fine cells, its head by a head, leaves all of them fine.
LEMMA BecomesFine ==
    ASSUME Inv, NEW m \in Stream, NEW d \in FineCells, NEW head \in 0 .. Size, Becomes(m, d, head)
    PROVE  v_cells' \in [Stream -> FineCells] /\ v_heads' \in Heads
  BY DEF Inv, Becomes, Heads

\* What follows from fine cells is fine.
LEMMA FollowsFine == ASSUME NEW c \in FineCells, NEW d, Follows(c, d) PROVE d \in FineCells
<1>1. CellsOK(c) /\ CellsOK(d) /\ d \in CellsRecord
  BY DEF FineCells, Follows, CellsOK
<1> QED
  BY <1>1, FollowsMarked DEF FineCells

\* Cells of streams
LEMMA CellsAreFine ==
    ASSUME Inv, NEW s \in SeqId
    PROVE  /\ StreamOf(s) \in Stream /\ Cells(s) = v_cells[StreamOf(s)]
           /\ Cells(s) \in FineCells /\ CellsOK(Cells(s)) /\ v_heads[StreamOf(s)] \in 0 .. Size
  BY StreamsAre DEF Inv, Cells, FineCells, Heads

\* The position of a cell is one of each of its sequences.
LEMMA PositionIsCounted ==
    ASSUME NEW c, CellsOK(c), NEW i \in Cell, NEW s \in c.seq[i]
    PROVE  s \in SeqId /\ c.pos[i] \in PosOf(c, s)
<1>1. s \in SeqId /\ c.pos[i] \in Pos
  BY SeqMeansUsed DEF CellsOK, CellsRecord, IsEmpty
<1>2. i \in CellsAt(c, s, c.pos[i])
  BY DEF CellsAt
<1>3. Cardinality(CellsAt(c, s, c.pos[i])) # 0
  BY <1>2, CellsAtIsFinite, FS_EmptySet
<1>4. Cardinality(CellsAt(c, s, c.pos[i])) > 0
  BY <1>3, CellsAtIsFinite
<1>5. c.seq_pos[s][c.pos[i]] > 0
  BY <1>1, <1>4 DEF CellsOK
<1> QED
  BY <1>1, <1>5 DEF PosOf

\* seq_rm() of one sequence (llama-kv-cache.cpp:379-414)
LEMMA SeqRmInv == ASSUME Inv, NEW s \in SeqId, NEW r \in Ranges, SeqRmCall(s, r) PROVE Inv'
<1> DEFINE m == StreamOf(s)
           d == Removed(v_cells[m], s, r[1], r[2])
           head == HeadAfter(v_cells[m], d, v_heads[m])
<1>1. m \in Stream /\ v_cells[m] \in FineCells /\ CellsOK(v_cells[m]) /\ v_heads[m] \in 0 .. Size
  BY CellsAreFine
<1>2. d \in FineCells
  <2>1. Follows(v_cells[m], d)
    BY <1>1, RemovedFollows
  <2> QED
    BY <1>1, <2>1, FollowsFine
<1>3. head \in 0 .. Size
  BY <1>1, HeadInRange
<1>4. /\ Becomes(m, d, head) /\ UNCHANGED <<data, sc_info, saved, ubatches>>
      /\ setup.calls > 0 /\ setup' = [setup EXCEPT !.calls = @ - 1]
  BY DEF SeqRmCall, Call
<1> HIDE DEF m, d, head
<1>5. v_cells' \in [Stream -> FineCells] /\ v_heads' \in Heads
  BY <1>1, <1>2, <1>3, <1>4, BecomesFine
<1> QED
  BY <1>4, <1>5, CallCounts, InvAfter DEF Inv

\* seq_rm() of every sequence (llama-kv-cache.cpp:415-445)
LEMMA AnySeqRmInv == ASSUME Inv, NEW r \in Ranges, AnySeqRmCall(r) PROVE Inv'
<1> DEFINE d == [m \in Stream |-> AllRemoved(v_cells[m], r[1], r[2])]
           heads == [m \in Stream |-> HeadAfter(v_cells[m], d[m], v_heads[m])]
<1>1. ASSUME NEW m \in Stream PROVE d[m] \in FineCells /\ heads[m] \in 0 .. Size
  <2>1. v_cells[m] \in FineCells /\ CellsOK(v_cells[m]) /\ v_heads[m] \in 0 .. Size
    BY DEF Inv, FineCells, Heads
  <2>2. Follows(v_cells[m], AllRemoved(v_cells[m], r[1], r[2]))
    BY <2>1, CacheAssumption, AnyRemovedFollows
  <2>3. d[m] \in FineCells
    BY <2>1, <2>2, FollowsFine
  <2> HIDE DEF d
  <2> QED
    BY <2>1, <2>3, HeadInRange
<1>2. v_cells' = d /\ v_heads' = heads
  BY DEF AnySeqRmCall
<1>3. UNCHANGED <<data, sc_info, saved, ubatches>> /\ setup.calls > 0 /\ setup' = [setup EXCEPT !.calls = @ - 1]
  BY DEF AnySeqRmCall, Call
<1>4. v_cells' \in [Stream -> FineCells] /\ v_heads' \in Heads
  BY <1>1, <1>2 DEF Heads
<1> QED
  BY <1>3, <1>4, CallCounts, InvAfter DEF Inv

\* seq_cp() within a stream (llama-kv-cache.cpp:452-491)
LEMMA SeqCpSameInv ==
    ASSUME Inv, NEW a \in SeqId, NEW b \in SeqId, NEW r \in Ranges, SeqCpSame(a, b, r)
    PROVE  Inv'
<1> DEFINE m == StreamOf(a)
           c == Cells(a)
           d == Shared(c, a, b, r[1], r[2])
           head == v_heads[m]
<1>1. m \in Stream /\ c \in FineCells /\ CellsOK(c) /\ head \in 0 .. Size
  BY CellsAreFine
<1>2. Cells(b) = c
  BY DEF SeqCpSame, Cells
<1>3. Becomes(m, d, head) /\ PosOf(c, b) = {}
  BY <1>2 DEF SeqCpSame
<1> HIDE DEF m, c, head
<1>4. \A i \in Cell : b \notin c.seq[i]
  BY <1>1, <1>3, PositionIsCounted
<1>5. Follows(c, d)
  BY <1>1, <1>4, AddedFollows
<1>6. d \in FineCells
  BY <1>1, <1>5, FollowsFine
<1>7. UNCHANGED <<data, sc_info, saved, ubatches>> /\ setup.calls > 0 /\ setup' = [setup EXCEPT !.calls = @ - 1]
  BY DEF SeqCpSame, Call
<1> HIDE DEF d
<1>8. v_cells' \in [Stream -> FineCells] /\ v_heads' \in Heads
  BY <1>1, <1>3, <1>6, BecomesFine
<1> QED
  BY <1>7, <1>8, CallCounts, InvAfter DEF Inv

\* seq_cp() of a whole sequence to another stream (llama-kv-cache.cpp:493-537)
LEMMA SeqCpOtherInv == ASSUME Inv, NEW a \in SeqId, NEW b \in SeqId, SeqCpOther(a, b) PROVE Inv'
<1> DEFINE m == StreamOf(b)
           d == CopiedFrom(Cells(a), a, b)
           head == v_heads[StreamOf(a)]
<1>1. m \in Stream /\ StreamOf(a) \in Stream /\ Cells(a) \in FineCells /\ CellsOK(Cells(a)) /\ head \in 0 .. Size
  BY CellsAreFine
<1>2. setup.streams # 1
  BY DEF SeqCpOther, StreamOf
<1>3. Original(Cells(a))
  BY <1>1, <1>2 DEF FineCells
<1>4. CellsOK(d) /\ Marked(d) /\ Original(d)
  BY <1>1, <1>3, CopiedKeepsCells
<1>5. d \in FineCells
  BY <1>4 DEF FineCells, CellsOK
<1>6. /\ UNCHANGED <<data, saved, ubatches>> /\ setup.calls > 0 /\ setup' = [setup EXCEPT !.calls = @ - 1]
      /\ sc_info' = Append(sc_info, <<StreamOf(a), m>>)
      /\ Becomes(m, d, head)
  BY DEF SeqCpOther, Call
<1>7. sc_info' \in Seq(Stream \X Stream)
  BY <1>1, <1>6 DEF Inv
<1> HIDE DEF m, d, head
<1>8. v_cells' \in [Stream -> FineCells] /\ v_heads' \in Heads
  BY <1>1, <1>5, <1>6, BecomesFine
<1> QED
  BY <1>6, <1>7, <1>8, CallCounts, InvAfter DEF Inv

\* seq_keep() (llama-kv-cache.cpp:539-564)
LEMMA SeqKeepInv == ASSUME Inv, NEW s \in SeqId, SeqKeepCall(s) PROVE Inv'
<1> DEFINE m == StreamOf(s)
           c == Cells(s)
           d == OnlyKept(c, s)
           head == HeadAfter(c, d, v_heads[m])
<1>1. m \in Stream /\ c \in FineCells /\ CellsOK(c) /\ v_heads[m] \in 0 .. Size
  BY CellsAreFine
<1>2. d \in FineCells
  <2>1. Follows(c, d)
    BY <1>1, KeptFollows
  <2> QED
    BY <1>1, <2>1, FollowsFine
<1>3. head \in 0 .. Size
  BY <1>1, HeadInRange
<1>4. /\ Becomes(m, d, head) /\ UNCHANGED <<data, sc_info, saved, ubatches>>
      /\ setup.calls > 0 /\ setup' = [setup EXCEPT !.calls = @ - 1]
  BY DEF SeqKeepCall, Call
<1> HIDE DEF m, d, head
<1>5. v_cells' \in [Stream -> FineCells] /\ v_heads' \in Heads
  BY <1>1, <1>2, <1>3, <1>4, BecomesFine
<1> QED
  BY <1>4, <1>5, CallCounts, InvAfter DEF Inv

\* seq_add() (llama-kv-cache.cpp:566-614)
LEMMA SeqAddInv ==
    ASSUME Inv, NEW s \in SeqId, NEW r \in Ranges, NEW n \in Delta, SeqAddCall(s, r, n)
    PROVE  Inv'
<1> DEFINE m == StreamOf(s)
           c == Cells(s)
           d == Shifted(c, s, r[1], r[2], n)
           freed == FreedCells(c, d)
           head == IF freed = {} THEN 0 ELSE Min(freed)
<1>1. m \in Stream /\ c \in FineCells /\ CellsOK(c) /\ n \in Int
  BY CellsAreFine, CacheAssumption
<1>2. /\ Becomes(m, d, head) /\ UNCHANGED <<data, sc_info, saved, ubatches>>
      /\ setup.calls > 0 /\ setup' = [setup EXCEPT !.calls = @ - 1]
  BY DEF SeqAddCall, Call
<1>3. \A p \in PosOf(c, s) : r[1] <= p /\ p < r[2] => p + n <= MaxPos
  BY DEF SeqAddCall, MoveIsFree
<1> HIDE DEF c
<1>4. \A i \in InSeq(c, s, r[1], r[2]) : c.pos[i] + n <= MaxPos
  <2> SUFFICES ASSUME NEW i \in InSeq(c, s, r[1], r[2]) PROVE c.pos[i] + n <= MaxPos
    OBVIOUS
  <2>1. i \in Cell /\ s \in c.seq[i] /\ r[1] <= c.pos[i] /\ c.pos[i] < r[2]
    BY DEF InSeq, PosIn, SeqHas
  <2>2. c.pos[i] \in PosOf(c, s)
    BY <1>1, <2>1, PositionIsCounted
  <2> QED
    BY <1>3, <2>1, <2>2
<1>5. d \in FineCells
  <2>1. CellsOK(d) /\ (Marked(c) => Marked(d)) /\ (Original(c) => Original(d))
    BY <1>1, <1>4, ShiftedKeepsCells
  <2> HIDE DEF d
  <2> QED
    BY <1>1, <2>1 DEF FineCells, CellsOK
<1>6. head \in 0 .. Size
  <2>1. freed \in SUBSET Nat /\ freed \in SUBSET (0 .. Size) /\ 0 \in 0 .. Size
    BY CellsAssumption DEF FreedCells, Cell
  <2> HIDE DEF freed
  <2> QED
    BY <2>1, MinIsLeast
<1> HIDE DEF m, d, head
<1>7. v_cells' \in [Stream -> FineCells] /\ v_heads' \in Heads
  BY <1>1, <1>2, <1>5, <1>6, BecomesFine
<1> QED
  BY <1>2, <1>7, CallCounts, InvAfter DEF Inv

\* seq_div() (llama-kv-cache.cpp:616-658)
LEMMA SeqDivInv == ASSUME Inv, NEW s \in SeqId, NEW r \in Ranges, SeqDivCall(s, r) PROVE Inv'
<1> DEFINE m == StreamOf(s)
           c == Cells(s)
           d == Halved(c, s, r[1], r[2])
           head == v_heads[m]
<1>1. m \in Stream /\ c \in FineCells /\ CellsOK(c) /\ head \in 0 .. Size
  BY CellsAreFine
<1>2. /\ Becomes(m, d, head) /\ UNCHANGED <<data, sc_info, saved, ubatches>> /\ setup.div
      /\ setup.calls > 0 /\ setup' = [setup EXCEPT !.calls = @ - 1]
  BY DEF SeqDivCall, Call
<1>3. setup.streams = 1
  BY <1>2 DEF Inv, SetupOK
<1> HIDE DEF c
<1>4. CellsOK(d) /\ (Marked(c) => Marked(d))
  BY <1>1, HalvedKeepsCells
<1>5. d \in FineCells
  BY <1>1, <1>3, <1>4 DEF FineCells, CellsOK
<1> HIDE DEF m, d, head
<1>6. v_cells' \in [Stream -> FineCells] /\ v_heads' \in Heads
  BY <1>1, <1>2, <1>5, BecomesFine
<1> QED
  BY <1>2, <1>6, CallCounts, InvAfter DEF Inv

\* clear() makes every stream empty.
LEMMA ClearInv == ASSUME Inv, ClearCall PROVE Inv'
<1>1. ResetCells \in FineCells
  BY ResetIsOK DEF FineCells, Marked, Original, CellsOK
<1>2. 0 \in 0 .. Size
  BY CellsAssumption
<1>3. Blank \in Key
  BY DEF Blank, Key
<1>4. v_cells' \in [Stream -> FineCells] /\ v_heads' \in Heads /\ data' \in Keys
  BY <1>1, <1>2, <1>3 DEF ClearCall, Heads, Keys
<1>5. UNCHANGED <<sc_info, saved, ubatches>> /\ setup.calls > 0 /\ setup' = [setup EXCEPT !.calls = @ - 1]
  BY DEF ClearCall, Call
<1> QED
  BY <1>4, <1>5, CallCounts, InvAfter DEF Inv

\* state_write() changes no cell; what it saves can be restored.
LEMMA StateGetInv == ASSUME Inv, NEW s \in SeqId, StateGet(s) PROVE Inv'
<1> DEFINE c == Cells(s)
           S == {i \in Cell : SeqHas(c, i, s) /\ ~Masked(c.pos[i], SeqPosMax(c, s))}
           all == [k \in 1 .. Size |-> k - 1]
           kept == Among(all, S)
           key(k) == data[StreamOf(s)][kept[k]]
           new == [k \in DOMAIN kept |-> [pos |-> c.pos[kept[k]], tok |-> key(k).tok, at |-> key(k).at]]
<1>1. StreamOf(s) \in Stream /\ CellsOK(c)
  BY CellsAreFine
<1>2. /\ saved' = new /\ UNCHANGED <<v_cells, v_heads, data, sc_info, ubatches>>
      /\ setup.calls > 0 /\ setup' = [setup EXCEPT !.calls = @ - 1]
  BY DEF StateGet, Call
<1>3. kept \in Seq(S)
  <2>1. all \in Seq(Cell)
    BY SizeIsNat
  <2>2. S \subseteq Cell
    OBVIOUS
  <2> HIDE DEF S, all
  <2>3. kept \in Seq({t \in Cell : t \in S})
    BY <2>1, AmongIs
  <2>4. {t \in Cell : t \in S} = S
    BY <2>2
  <2> QED
    BY <2>3, <2>4
<1> HIDE DEF kept
<1>4. new \in Seq(SavedEntry)
  <2>1. ASSUME NEW k \in DOMAIN kept
        PROVE  [pos |-> c.pos[kept[k]], tok |-> key(k).tok, at |-> key(k).at] \in SavedEntry
    <3>1. kept[k] \in S
      BY <1>3
    <3>2. kept[k] \in Cell /\ s \in c.seq[kept[k]]
      BY <3>1 DEF SeqHas
    <3>3. c.pos[kept[k]] \in Pos
      BY <1>1, <3>2, SeqMeansUsed DEF CellsOK, CellsRecord, IsEmpty
    <3>4. key(k) \in Key
      BY <1>1, <3>2 DEF Inv, Keys
    <3> HIDE DEF c, key
    <3> QED
      BY <3>3, <3>4 DEF Key, SavedEntry
  <2> HIDE DEF c, key
  <2>2. DOMAIN kept = 1 .. Len(kept) /\ Len(kept) \in Nat
    BY <1>3
  <2> QED
    BY <2>1, <2>2
<1> HIDE DEF new
<1> QED
  BY <1>2, <1>4, CallCounts, InvAfter DEF Inv

\* state_read() removes the sequence, finds a slot and fills it with what was saved.
LEMMA StateSetInv == ASSUME Inv, NEW s \in SeqId, StateSet(s) PROVE Inv'
<1> DEFINE m == StreamOf(s)
           c == Removed(v_cells[m], s, 0, MaxPos + 1)
           head == HeadAfter(v_cells[m], c, v_heads[m])
           idxs == FindSlot(c, head, Len(saved))
           entries == [k \in DOMAIN saved |-> [pos |-> saved[k].pos, seqs |-> {s}, tok |-> saved[k].tok]]
           slot(i) == CHOOSE n \in DOMAIN idxs : idxs[n] = i
           written == [i \in Cell |-> IF i \in ToSet(idxs)
                                      THEN [tok |-> saved[slot(i)].tok, at |-> saved[slot(i)].at]
                                      ELSE data[m][i]]
<1>1. m \in Stream /\ v_cells[m] \in FineCells /\ CellsOK(v_cells[m]) /\ v_heads[m] \in 0 .. Size
  BY CellsAreFine
<1>2. c \in FineCells /\ CellsOK(c)
  <2>1. Follows(v_cells[m], c)
    BY <1>1, RemovedFollows
  <2> QED
    BY <1>1, <2>1, FollowsFine DEF Follows
<1>3. head \in 0 .. Size
  BY <1>1, HeadInRange
<1>4. /\ UNCHANGED <<sc_info, saved, ubatches>> /\ saved # <<>>
      /\ setup.calls > 0 /\ setup' = [setup EXCEPT !.calls = @ - 1]
  BY DEF StateSet, Call
<1>5. saved \in Seq(SavedEntry) /\ Len(saved) \in Nat /\ Len(saved) # 0 /\ data \in Keys
  BY <1>4 DEF Inv
<1>6. IF idxs = <<>> THEN Becomes(m, c, head) /\ UNCHANGED data
      ELSE Becomes(m, Applied(c, idxs, entries), Last(idxs) + 1) /\ data' = [data EXCEPT ![m] = written]
  <2>1. data[m] = data[m]
    OBVIOUS
  <2> QED
    BY <1>1, <1>5 DEF StateSet, Keys
<1> HIDE DEF m, c, head
<1>7. CASE idxs = <<>>
  <2>1. Becomes(m, c, head) /\ UNCHANGED data
    BY <1>6, <1>7
  <2>2. v_cells' \in [Stream -> FineCells] /\ v_heads' \in Heads
    BY <1>1, <1>2, <1>3, <2>1, BecomesFine
  <2> QED
    BY <1>4, <2>1, <2>2, CallCounts, InvAfter DEF Inv
<1>8. CASE idxs # <<>>
  <2>1. idxs \in Seq(Cell) /\ Len(idxs) = Len(saved)
    BY <1>3, <1>5, <1>8, FindSlotFinds DEF SlotsFor
  <2> HIDE DEF idxs
  <2>2. \A n \in 1 .. Len(idxs) : PlaceableIn(idxs[n], entries[n])
    <3> SUFFICES ASSUME NEW n \in 1 .. Len(idxs) PROVE PlaceableIn(idxs[n], entries[n])
      OBVIOUS
    <3>1. idxs[n] \in Cell /\ saved[n] \in SavedEntry /\ n \in DOMAIN saved
      BY <1>5, <2>1
    <3>2. entries[n].pos = saved[n].pos /\ entries[n].seqs = {s}
      BY <3>1
    <3> HIDE DEF entries
    <3> QED
      BY <3>1, <3>2 DEF PlaceableIn, SavedEntry
  <2> HIDE DEF entries
  <2>3. Applied(c, idxs, entries) \in FineCells
    <3>1. Follows(c, Applied(c, idxs, entries))
      BY <1>2, <1>5, <2>1, <2>2, AppliedFollows
    <3> QED
      BY <1>2, <3>1, FollowsFine
  <2>4. Last(idxs) + 1 \in 0 .. Size
    <3>1. Last(idxs) \in Cell
      BY <1>5, <2>1 DEF Last
    <3> QED
      BY <3>1, CellsAssumption DEF Cell
  <2>5. v_cells' \in [Stream -> FineCells] /\ v_heads' \in Heads
    BY <1>1, <1>6, <1>8, <2>3, <2>4, BecomesFine
  <2>6. \A i \in Cell : data[m][i] \in Key
    BY <1>1, <1>5 DEF Keys
  <2>7. ASSUME NEW i \in ToSet(idxs) PROVE [tok |-> saved[slot(i)].tok, at |-> saved[slot(i)].at] \in Key
    <3>1. slot(i) \in DOMAIN idxs
      BY DEF ToSet
    <3> HIDE DEF slot
    <3>2. saved[slot(i)] \in SavedEntry
      BY <1>5, <2>1, <3>1
    <3> QED
      BY <3>2 DEF SavedEntry, Key
  <2> HIDE DEF slot
  <2>8. written \in [Cell -> Key]
    BY <2>6, <2>7
  <2> HIDE DEF written
  <2>9. data' \in Keys
    BY <1>1, <1>5, <1>6, <1>8, <2>8 DEF Keys
  <2> QED
    BY <1>4, <2>5, <2>9, CallCounts, InvAfter DEF Inv
<1> QED
  BY <1>7, <1>8

\* The greatest position of a sequence is a position, or -1.
LEMMA SeqPosMaxIs == ASSUME NEW c, NEW s PROVE SeqPosMax(c, s) \in {-1} \cup Pos
<1> DEFINE P == PosOf(c, s)
           T == {MaxPos - p : p \in P}
<1>1. P \subseteq Pos
  BY DEF PosOf
<1> HIDE DEF P
<1>2. CASE P = {}
  BY <1>2 DEF SeqPosMax, P
<1>3. CASE P # {}
  <2>1. T \in SUBSET Nat /\ T # {}
    <3>1. \A p \in P : MaxPos - p \in Nat
      BY <1>1, CellsAssumption DEF Pos
    <3> QED
      BY <1>3, <3>1
  <2>2. Min(T) \in T /\ \A t \in T : Min(T) <= t
    BY <2>1, MinIsLeast
  <2>3. PICK p \in P : Min(T) = MaxPos - p
    BY <2>2
  <2>4. \A q \in P : q <= p
    <3> SUFFICES ASSUME NEW q \in P PROVE q <= p
      OBVIOUS
    <3>1. MaxPos - p <= MaxPos - q
      BY <2>2, <2>3
    <3> QED
      BY <1>1, <3>1, CellsAssumption DEF Pos
  <2>5. SeqPosMax(c, s) \in P
    BY <1>3, <2>4 DEF SeqPosMax, P
  <2> QED
    BY <1>1, <2>5
<1> QED
  BY <1>2, <1>3

\* The tokens that the owner appends are entries.
LEMMA BatchIs ==
    ASSUME Inv, NEW shape \in Shapes, NEW tok \in Tok,
           \A k \in DOMAIN Batch(shape, tok) : Batch(shape, tok)[k].pos <= MaxPos
    PROVE  Batch(shape, tok) \in Seq(Entry)
<1> DEFINE first(k) == FirstId(shape[k])
           nth(k) == {l \in 1 .. k : first(k) \in shape[l]}
           p(k) == SeqPosMax(Cells(first(k)), first(k)) + Cardinality(nth(k))
<1>1. shape \in Seq((SUBSET SeqId) \ {{}}) /\ DOMAIN shape = 1 .. Len(shape) /\ Len(shape) \in Nat
  BY CacheAssumption
<1>2. Batch(shape, tok) = [k \in DOMAIN shape |-> [pos |-> p(k), seqs |-> shape[k], tok |-> tok]]
  BY DEF Batch
<1>3. ASSUME NEW k \in DOMAIN shape PROVE [pos |-> p(k), seqs |-> shape[k], tok |-> tok] \in Entry
  <2>1. shape[k] \in SUBSET SeqId /\ shape[k] # {}
    BY <1>1
  <2>2. first(k) \in shape[k]
    <3>1. shape[k] \in SUBSET Nat
      BY <2>1 DEF SeqId
    <3> QED
      BY <2>1, <3>1, MinIsLeast DEF FirstId
  <2>3. k \in 1 .. k /\ k \in Nat
    BY <1>1
  <2> HIDE DEF first
  <2>4. k \in nth(k) /\ nth(k) \subseteq 1 .. k
    BY <2>2, <2>3
  <2> HIDE DEF nth
  <2>5. IsFiniteSet(nth(k)) /\ nth(k) # {}
    <3>1. IsFiniteSet(1 .. k)
      BY <2>3, FS_Interval
    <3> QED
      BY <2>4, <3>1, FS_Subset
  <2>6. Cardinality(nth(k)) \in Nat /\ Cardinality(nth(k)) # 0
    BY <2>5, FS_CardinalityType, FS_EmptySet
  <2>7. SeqPosMax(Cells(first(k)), first(k)) \in {-1} \cup Pos
    BY SeqPosMaxIs
  <2>8. p(k) \in Int /\ p(k) >= 0
    BY <2>6, <2>7, CellsAssumption DEF Pos
  <2>9. p(k) <= MaxPos
    BY <1>2
  <2>10. p(k) \in Pos
    BY <2>8, <2>9, CellsAssumption DEF Pos
  <2> HIDE DEF p
  <2> QED
    BY <2>1, <2>10 DEF Entry
<1> HIDE DEF p, Entry
<1> QED
  BY <1>1, <1>2, <1>3

\* The ubatches of a batch
LEMMA SplitsAre == ASSUME SetupOK(setup), NEW batch \in Seq(Entry) PROVE Splits(batch) \in Parts(batch)
<1>1. setup.n_ubatch \in Nat
  BY DEF SetupOK
<1> QED
  BY <1>1, AllSimpleIs, AllEqualIs DEF Splits

\* The update before a batch leaves no shift.
LEMMA UpdatedCellsAre == Inv => UpdatedCells \in CleanStreams
<1> SUFFICES ASSUME Inv PROVE UpdatedCells \in CleanStreams
  OBVIOUS
<1>1. ASSUME NEW m \in Stream PROVE ResetShift(v_cells[m]) \in CleanCells
  <2> DEFINE c == v_cells[m]
             d == ResetShift(c)
  <2>1. CellsOK(c) /\ c \in CellsRecord
    BY DEF Inv, FineCells
  <2> HIDE DEF c
  <2>2. /\ d.pos = c.pos /\ d.seq = c.seq /\ d.used = c.used /\ d.seq_pos = c.seq_pos
        /\ d.shift = [i \in Cell |-> 0] /\ d.has_shift = FALSE
    BY <2>1 DEF ResetShift, CellsRecord
  <2>3. d \in CellsRecord
    <3>1. d = [c EXCEPT !.shift = [i \in Cell |-> 0], !.has_shift = FALSE]
      BY DEF ResetShift
    <3>2. [i \in Cell |-> 0] \in [Cell -> Int]
      OBVIOUS
    <3> QED
      BY <2>1, <3>1, <3>2 DEF CellsRecord
  <2> HIDE DEF d
  <2>4. \A s, p : CellsAt(d, s, p) = CellsAt(c, s, p)
    BY <2>2 DEF CellsAt
  <2>5. \A i \in Cell : IsEmpty(d, i) = IsEmpty(c, i)
    BY <2>2 DEF IsEmpty
  <2>6. CellsOK(d)
    BY <2>1, <2>2, <2>3, <2>4, <2>5 DEF CellsOK
  <2>7. d \in CleanCells
    BY <2>2, <2>3, <2>6 DEF CleanCells
  <2> QED
    BY <2>7 DEF c, d
<1>2. CASE \E m \in Stream : v_cells[m].has_shift
  BY <1>1, <1>2 DEF UpdatedCells, CleanStreams
<1>3. CASE ~\E m \in Stream : v_cells[m].has_shift
  <2>1. \A m \in Stream : v_cells[m] \in FineCells
    BY DEF Inv
  <2>2. \A m \in Stream : v_cells[m] \in CleanCells
    BY <1>3, <2>1 DEF FineCells, CleanCells, Marked
  <2>3. v_cells = [m \in Stream |-> v_cells[m]]
    BY DEF Inv
  <2> QED
    BY <1>3, <2>2, <2>3 DEF UpdatedCells, CleanStreams
<1> QED
  BY <1>2, <1>3

\* The update before a batch leaves keys.
LEMMA UpdatedKeysAre == Inv => UpdatedKeys \in Keys
<1> SUFFICES ASSUME Inv PROVE UpdatedKeys \in Keys
  OBVIOUS
<1>1. CopiedKeys \in Keys
  BY CopiedKeysAre DEF Inv
<1>2. ASSUME NEW m \in Stream, NEW i \in Cell
      PROVE  [CopiedKeys[m][i] EXCEPT !.at = @ + v_cells[m].shift[i]] \in Key
  <2>1. CopiedKeys[m][i] \in Key
    BY <1>1 DEF Keys
  <2>2. v_cells[m].shift[i] \in Int
    <3>1. v_cells[m] \in CellsRecord
      BY DEF Inv, FineCells
    <3> QED
      BY <3>1 DEF CellsRecord
  <2> QED
    BY <2>1, <2>2 DEF Key
<1> QED
  BY <1>1, <1>2 DEF UpdatedKeys, Keys

\* Clean cells are fine ones.
LEMMA CleanIsFine == CleanStreams \subseteq [Stream -> FineCells]
<1>1. ASSUME NEW c \in CleanCells PROVE c \in FineCells
  <2>1. \A i \in Cell : c.pos[i] \in {-1} \cup Pos /\ c.shift[i] = 0
    BY DEF CleanCells, CellsRecord
  <2>2. Original(c)
    BY <2>1, CellsAssumption DEF Original, IsEmpty, Pos
  <2> QED
    BY <2>2 DEF CleanCells, FineCells, Marked
<1> QED
  BY <1>1 DEF CleanStreams

\* llama_decode(): update, cut the batch and prepare slots for all of it, or refuse it.
LEMMA DecodeInv == ASSUME Inv, NEW shape \in Shapes, NEW tok \in Tok, Decode(shape, tok) PROVE Inv'
<1> DEFINE batch == Batch(shape, tok)
           splits == Splits(batch)
           p == Prepare(batch, splits, UpdatedCells, v_heads)
<1>1. /\ setup.calls > 0 /\ setup' = [setup EXCEPT !.calls = @ - 1]
      /\ \A k \in DOMAIN batch : batch[k].pos <= MaxPos
      /\ data' = UpdatedKeys /\ sc_info' = <<>> /\ saved' = saved
      /\ IF Len(FlattenSeq(splits)) < Len(batch)
         THEN v_cells' = UpdatedCells /\ UNCHANGED <<v_heads, ubatches>>
         ELSE v_cells' = p.cells /\ v_heads' = p.heads /\ ubatches' = IF p.ok THEN p.ubatches ELSE <<>>
  BY DEF Decode, MayDecode
<1>2. batch \in Seq(Entry)
  BY <1>1, BatchIs
<1> HIDE DEF batch
<1>3. splits \in Parts(batch)
  BY <1>2, SplitsAre DEF Inv
<1> HIDE DEF splits
<1>4. UpdatedCells \in CleanStreams /\ UpdatedKeys \in Keys /\ v_heads \in Heads
  BY UpdatedCellsAre, UpdatedKeysAre DEF Inv
<1>5. p.cells \in CleanStreams /\ p.heads \in Heads /\ p.ubatches \in Seq(SlottedUbatch)
  BY <1>2, <1>3, <1>4, PrepareIs DEF Inv
<1> HIDE DEF p
<1>6. v_cells' \in [Stream -> FineCells] /\ v_heads' \in Heads /\ ubatches' \in Seq(SlottedUbatch)
  <2>1. <<>> \in Seq(SlottedUbatch) /\ ubatches \in Seq(SlottedUbatch)
    BY DEF Inv
  <2>2. v_cells' \in CleanStreams /\ v_heads' \in Heads /\ ubatches' \in Seq(SlottedUbatch)
    BY <1>1, <1>4, <1>5, <2>1
  <2> QED
    BY <2>2, CleanIsFine
<1>7. sc_info' \in Seq(Stream \X Stream)
  BY <1>1
<1> QED
  BY <1>1, <1>4, <1>6, <1>7, CallCounts, InvAfter DEF Inv

\* A ubatch that is to be processed
LEMMA HeadIsSlotted ==
    ASSUME Inv, ubatches # <<>>
    PROVE  Head(ubatches) \in SlottedUbatch /\ Tail(ubatches) \in Seq(SlottedUbatch)
  BY DEF Inv

\* What it makes of cells and heads
LEMMA CellsAfterAreFine ==
    ASSUME Inv, NEW u \in SlottedUbatch
    PROVE  CellsAfter(v_cells, u) \in [Stream -> FineCells] /\ HeadsAfter(v_heads, u) \in Heads
<1>1. SetupOK(setup) /\ v_heads \in [Stream -> 0 .. Size] /\ \A m \in Stream : v_cells[m] \in FineCells
  BY DEF Inv, Heads
<1>2. \A m \in Stream : CellsOK(v_cells[m])
  BY <1>1 DEF FineCells
<1>3. \A m \in Stream : Follows(v_cells[m], CellsAfter(v_cells, u)[m])
  BY <1>1, <1>2, AfterUbatch
<1>4. \A m \in Stream : CellsAfter(v_cells, u)[m] \in FineCells
  BY <1>1, <1>3, FollowsFine
<1>5. CellsAfter(v_cells, u) = [m \in Stream |-> CellsAfter(v_cells, u)[m]]
  BY DEF CellsAfter
<1>6. HeadsAfter(v_heads, u) \in [Stream -> 0 .. Size]
  BY <1>1, AfterUbatch
<1> QED
  BY <1>4, <1>5, <1>6 DEF Heads

\* A ubatch that is placed and processed
LEMMA UbatchInv == ASSUME Inv, Ubatch PROVE Inv'
<1> DEFINE u == Head(ubatches)
<1>1. /\ ubatches # <<>> /\ ubatches' = Tail(ubatches) /\ UNCHANGED <<setup, sc_info, saved>>
      /\ v_cells' = CellsAfter(v_cells, u) /\ v_heads' = HeadsAfter(v_heads, u) /\ data' = Written(u)
  BY DEF Ubatch
<1>2. u \in SlottedUbatch /\ Tail(ubatches) \in Seq(SlottedUbatch)
  BY <1>1, HeadIsSlotted
<1> HIDE DEF u
<1>3. v_cells' \in [Stream -> FineCells] /\ v_heads' \in Heads
  BY <1>1, <1>2, CellsAfterAreFine
<1>4. Written(u) \in Keys
  <2> DEFINE idxs(m) == u.sinfo[GroupOf(u, m)]
             entries(m) == u.groups[GroupOf(u, m)].entries
             entry(m, i) == entries(m)[CHOOSE k \in DOMAIN idxs(m) : idxs(m)[k] = i]
             key(m, i) == [tok |-> entry(m, i).tok, at |-> entry(m, i).pos]
             row(m) == IF ~InUbatch(u, m) THEN data[m]
                       ELSE [i \in Cell |-> IF i \in ToSet(idxs(m)) THEN key(m, i) ELSE data[m][i]]
  <2>1. ASSUME NEW m \in Stream, InUbatch(u, m), NEW i \in ToSet(idxs(m)) PROVE key(m, i) \in Key
    <3>1. entries(m) \in Seq(Entry) /\ idxs(m) \in Seq(Cell) /\ Len(idxs(m)) = Len(entries(m))
      BY <1>2, <2>1, GroupOfStream DEF Inv
    <3> HIDE DEF entries, idxs
    <3>2. (CHOOSE k \in DOMAIN idxs(m) : idxs(m)[k] = i) \in DOMAIN idxs(m)
      BY DEF ToSet
    <3>3. entry(m, i) \in Entry
      BY <3>1, <3>2
    <3> HIDE DEF entry
    <3> QED
      BY <3>3, CellsAssumption DEF Entry, Key, Pos
  <2> HIDE DEF idxs, entry, key
  <2>2. \A m \in Stream : data[m] \in [Cell -> Key]
    BY DEF Inv, Keys
  <2>3. \A m \in Stream : row(m) \in [Cell -> Key]
    BY <2>1, <2>2
  <2>4. Written(u) = [m \in Stream |-> row(m)]
    BY DEF Written, idxs, entry, key
  <2> QED
    BY <2>3, <2>4 DEF Keys
<1>5. SetupOK(setup)' /\ setup'.streams = setup.streams /\ sc_info' \in Seq(Stream \X Stream) /\ saved' \in Seq(SavedEntry)
  BY <1>1 DEF Inv, SetupOK
<1> QED
  BY <1>1, <1>2, <1>3, <1>4, <1>5, InvAfter

\* A ubatch that fails: the positions of its tokens and of those after it are removed again.
LEMMA UbatchFailsInv == ASSUME Inv, UbatchFails PROVE Inv'
<1> DEFINE u == Head(ubatches)
           First(s) == {e.pos : e \in {f \in EntriesOf(u) : FirstId(f.seqs) = s}}
           of(m) == {s \in SeqId : StreamOf(s) = m /\ First(s) # {}}
           Undone(c, m) == RemovedOf(c, of(m), [s \in of(m) |-> Min(First(s))], [s \in of(m) |-> MaxPos + 1])
           after == CellsAfter(v_cells, u)
           cells == [m \in Stream |-> Undone(after[m], m)]
           heads == [m \in Stream |-> HeadAfter(after[m], Undone(after[m], m), HeadsAfter(v_heads, u)[m])]
<1>1. /\ ubatches # <<>> /\ ubatches' = <<>> /\ UNCHANGED <<setup, data, sc_info, saved>>
      /\ v_cells' = cells /\ v_heads' = heads
  BY DEF UbatchFails
<1>2. u \in SlottedUbatch
  BY <1>1, HeadIsSlotted
<1> HIDE DEF u
<1>3. after \in [Stream -> FineCells] /\ HeadsAfter(v_heads, u) \in Heads
  BY <1>2, CellsAfterAreFine
<1> HIDE DEF of, after
<1>4. \A m \in Stream : Undone(after[m], m) \in FineCells
  <2> SUFFICES ASSUME NEW m \in Stream PROVE Undone(after[m], m) \in FineCells
    OBVIOUS
  <2>1. after[m] \in FineCells /\ CellsOK(after[m])
    BY <1>3 DEF FineCells
  <2>2. Follows(after[m], Undone(after[m], m))
    BY <2>1, RemovedOfFollows
  <2> HIDE DEF Undone
  <2> QED
    BY <2>1, <2>2, FollowsFine
<1> HIDE DEF Undone
<1>5. v_cells' \in [Stream -> FineCells]
  BY <1>1, <1>4
<1>6. \A m \in Stream : heads[m] \in 0 .. Size
  BY <1>3, HeadInRange DEF Heads
<1>7. v_heads' \in Heads
  BY <1>1, <1>6 DEF Heads
<1>8. /\ SetupOK(setup)' /\ setup'.streams = setup.streams /\ sc_info' \in Seq(Stream \X Stream)
      /\ saved' \in Seq(SavedEntry) /\ data' \in Keys /\ ubatches' \in Seq(SlottedUbatch)
  BY <1>1 DEF Inv, SetupOK
<1> QED
  BY <1>5, <1>7, <1>8, InvAfter

\* A step that changes nothing
LEMMA StutterInv == ASSUME Inv, UNCHANGED vars PROVE Inv'
<1>1. UNCHANGED <<setup, v_cells, v_heads, data, sc_info, ubatches, saved>>
  BY DEF vars
<1> QED
  BY <1>1, InvAfter DEF Inv, SetupOK

\* The inductive invariant: in every reachable state the cells of every stream are sound, the
\* ones in use are marked and have positions once their shift is undone, and a slot that was
\* found is one for the tokens that will be placed in it.
THEOREM CellsInvariant == Spec => []Inv
<1>1. Init => Inv
  BY InitEstablishesInv
<1>2. Inv /\ [Next]_vars => Inv'
  <2> SUFFICES ASSUME Inv, [Next]_vars PROVE Inv'
    OBVIOUS
  <2>1. CASE UNCHANGED vars
    BY <2>1, StutterInv
  <2>2. ASSUME NEW s \in SeqId, NEW r \in Ranges, SeqRmCall(s, r) \/ SeqDivCall(s, r) PROVE Inv'
    BY <2>2, SeqRmInv, SeqDivInv
  <2>3. ASSUME NEW r \in Ranges, AnySeqRmCall(r) PROVE Inv'
    BY <2>3, AnySeqRmInv
  <2>4. ASSUME NEW a \in SeqId, NEW b \in SeqId, SeqCpOther(a, b) \/ \E r \in Ranges : SeqCpSame(a, b, r)
        PROVE  Inv'
    BY <2>4, SeqCpOtherInv, SeqCpSameInv
  <2>5. ASSUME NEW s \in SeqId, SeqKeepCall(s) \/ StateGet(s) \/ StateSet(s) PROVE Inv'
    BY <2>5, SeqKeepInv, StateGetInv, StateSetInv
  <2>6. ASSUME NEW s \in SeqId, NEW r \in Ranges, NEW d \in Delta, SeqAddCall(s, r, d) PROVE Inv'
    BY <2>6, SeqAddInv
  <2>7. CASE ClearCall
    BY <2>7, ClearInv
  <2>8. ASSUME NEW shape \in Shapes, NEW tok \in Tok, Decode(shape, tok) PROVE Inv'
    BY <2>8, DecodeInv
  <2>9. CASE Ubatch \/ UbatchFails
    BY <2>9, UbatchInv, UbatchFailsInv
  <2> QED
    BY <2>1, <2>2, <2>3, <2>4, <2>5, <2>6, <2>7, <2>8, <2>9 DEF Next
<1> QED
  BY <1>1, <1>2, PTL DEF Spec

\* In every stream the used cells are exactly those that have a position, seq_pos counts for
\* each sequence and position the cells that have both (llama-kv-cells.h:490-495), an empty cell
\* has no sequence and no shift, and no shift goes unmarked.
THEOREM CellsAgreeAlways == Spec => []CellsAgree
  BY CellsInvariant, InvImpliesCellsAgree, PTL

\* Every batch that is as llama_batch_allocr::init asks is cut into ubatches that fit, that hold each
\* of its entries once, and that keep the order of each sequence, whatever the size of a ubatch;
\* split_equal() leaves whole tails (llama-batch.cpp:477-708).
THEOREM SplitsAreWholeAlways == Spec => []SplitsAreWhole
<1>1. ASSUME NEW b \in SplitBatches, Acceptable(b), NEW n \in 1 .. Len(b)
      PROVE  KeepsEntries(b, n) /\ \A tail \in 1 .. n - 1 : KeepsTails(b, n, tail)
  <2>1. IsBatch(b)
    BY CacheAssumption
  <2>2. Len(b) \in Nat
    BY <2>1 DEF IsBatch
  <2>3. n \in Nat \ {0}
    BY <2>2
  <2>4. KeepsEntries(b, n)
    BY <1>1, <2>1, <2>3, SplitsKeepEntries
  <2>5. ASSUME NEW tail \in 1 .. n - 1 PROVE KeepsTails(b, n, tail)
    <3>1. n \in Nat /\ tail \in 1 .. n
      BY <2>3
    <3> QED
      BY <1>1, <2>1, <3>1, SplitsKeepTails
  <2> QED
    BY <2>4, <2>5
<1>2. SplitsAreWhole
  BY <1>1 DEF SplitsAreWhole
<1> QED
  BY <1>2, PTL
=============================================================================
