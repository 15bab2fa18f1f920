------------------------------- MODULE KVCells -------------------------------
(***************************************************************************)
(* The cells of a KV cache (src/llama-kv-cells.h).  A cell holds the keys  *)
(* and values of one token at one position, for one or more sequences.     *)
(* The class keeps what it could count again from the cells: the set of    *)
(* used cells and, for every sequence, how often it has each position.     *)
(*                                                                         *)
(* The operators are the member functions: a value of the class in, one    *)
(* out.  What they assert of their arguments is written before each.       *)
(***************************************************************************)
EXTENDS Integers, FiniteSets

CONSTANTS
    NSeqs,      \* sequences, at most LLAMA_MAX_SEQ
    Size,       \* the number of cells
    MaxPos      \* no position is larger (a bound; the code has 32 bits)

ASSUME CellsAssumption == NSeqs \in Nat \ {0} /\ Size \in Nat \ {0} /\ MaxPos \in Nat

SeqId == 0 .. NSeqs - 1
Cell == 0 .. Size - 1
Pos == 0 .. MaxPos

\* seq_pos[s] maps a position that the sequence does not have to 0: the code has no entry.
CellsRecord ==
    [pos : [Cell -> {-1} \cup Pos], shift : [Cell -> Int], seq : [Cell -> SUBSET SeqId],
     used : SUBSET Cell, seq_pos : [SeqId -> [Pos -> Nat]], has_shift : BOOLEAN]

ResetCells ==
    [pos |-> [i \in Cell |-> -1], shift |-> [i \in Cell |-> 0], seq |-> [i \in Cell |-> {}],
     used |-> {}, seq_pos |-> [s \in SeqId |-> [p \in Pos |-> 0]], has_shift |-> FALSE]
ResetShift(c) == [c EXCEPT !.shift = [i \in Cell |-> 0], !.has_shift = FALSE]

IsEmpty(c, i) == c.pos[i] = -1
PosIn(c, i, p0, p1) == p0 <= c.pos[i] /\ c.pos[i] < p1
SeqHas(c, i, s) == s \in c.seq[i]

\* The cells of sequence s at position p
CellsAt(c, s, p) == {i \in Cell : s \in c.seq[i] /\ c.pos[i] = p}

PosOf(c, s) == {p \in Pos : c.seq_pos[s][p] > 0}
SeqPosMin(c, s) ==
    IF PosOf(c, s) = {} THEN -1 ELSE CHOOSE p \in PosOf(c, s) : \A q \in PosOf(c, s) : p <= q
SeqPosMax(c, s) ==
    IF PosOf(c, s) = {} THEN -1 ELSE CHOOSE p \in PosOf(c, s) : \A q \in PosOf(c, s) : q <= p

-----------------------------------------------------------------------------
(* One cell at a time                                                      *)

\* One more, or one less, of position p for every sequence in S
Counted(seq_pos, S, p, n) ==
    [s \in SeqId |-> IF s \in S THEN [seq_pos[s] EXCEPT ![p] = @ + n] ELSE seq_pos[s]]
SeqPosRm(c, i) == [c EXCEPT !.seq_pos = Counted(c.seq_pos, c.seq[i], c.pos[i], -1)]
SeqPosAdd(c, i) == [c EXCEPT !.seq_pos = Counted(c.seq_pos, c.seq[i], c.pos[i], 1)]

Emptied(c, i) ==
    [c EXCEPT !.pos[i] = -1, !.shift[i] = 0, !.seq[i] = {}, !.used = c.used \ {i}]

\* rm, of a cell that is not empty
Rm(c, i) == Emptied(SeqPosRm(c, i), i)

\* seq_rm, of a cell that has s
SeqRm(c, i, s) ==
    LET d == [c EXCEPT !.seq[i] = c.seq[i] \ {s},
                       !.seq_pos = Counted(c.seq_pos, {s}, c.pos[i], -1)]
    IN IF d.seq[i] = {} THEN Emptied(d, i) ELSE d

\* mutant: the positions of the other sequences stay
SeqKeepUncounted(c, i, s) ==
    IF s \in c.seq[i] THEN [c EXCEPT !.seq[i] = {s}]
    ELSE IF c.seq[i] # {} THEN Rm(c, i) ELSE c
\* seq_keep
SeqKeep(c, i, s) ==
    IF s \in c.seq[i]
    THEN [SeqPosRm(c, i) EXCEPT !.seq[i] = {s},
                                !.seq_pos = Counted(SeqPosRm(c, i).seq_pos, {s}, c.pos[i], 1)]
    ELSE IF c.seq[i] # {} THEN Rm(c, i) ELSE c

\* seq_add, of a cell that is not empty and has not s; and for all sequences in S
SeqsAdd(c, i, S) ==
    [c EXCEPT !.seq[i] = c.seq[i] \cup S, !.seq_pos = Counted(c.seq_pos, S, c.pos[i], 1)]
SeqAdd(c, i, s) == SeqsAdd(c, i, {s})

\* pos_set, of an empty cell
PosSet(c, i, p) == [c EXCEPT !.pos[i] = p, !.used = c.used \cup {i}]

\* pos_add, of a cell that is not empty
PosAdd(c, i, d) ==
    LET e == [SeqPosRm(c, i) EXCEPT !.pos[i] = c.pos[i] + d, !.shift[i] = c.shift[i] + d,
                                    !.has_shift = TRUE]
    IN IF e.pos[i] < 0 THEN Emptied(e, i) ELSE SeqPosAdd(e, i)

\* pos_div, of a cell that is not empty.  The shift has the sign of old minus new.
PosDiv(c, i, d) ==
    LET e == [SeqPosRm(c, i) EXCEPT !.pos[i] = c.pos[i] \div d,
                                    !.shift[i] = c.shift[i] + (c.pos[i] - (c.pos[i] \div d)),
                                    !.has_shift = TRUE]
    IN SeqPosAdd(e, i)

\* set(i, cp(i)): cell i as it is in o, for cells without a shift
SetCell(c, i, o) ==
    LET d == IF c.pos[i] # -1 THEN SeqPosRm(c, i) ELSE c
        e == [d EXCEPT !.pos[i] = o.pos[i], !.seq[i] = o.seq[i],
                       !.used = IF o.pos[i] = -1 THEN c.used \ {i} ELSE c.used \cup {i}]
    IN IF o.pos[i] # -1 THEN SeqPosAdd(e, i) ELSE e

-----------------------------------------------------------------------------
(* Properties                                                              *)

\* The sets and counts that the class keeps are those of its cells; an empty cell has
\* neither a sequence nor a shift.
CellsOK(c) ==
    /\ c \in CellsRecord
    /\ c.used = {i \in Cell : ~IsEmpty(c, i)}
    /\ \A s \in SeqId : \A p \in Pos : c.seq_pos[s][p] = Cardinality(CellsAt(c, s, p))
    /\ \A i \in Cell : IsEmpty(c, i) => c.seq[i] = {} /\ c.shift[i] = 0

=============================================================================
