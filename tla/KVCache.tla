------------------------------- MODULE KVCache -------------------------------
(***************************************************************************)
(* The KV cache of a context (src/llama-kv-cache.cpp) under the calls of   *)
(* its owner: operations on sequences, which change the cells at once and  *)
(* leave copies and shifts of the keys for the next llama_decode; the save *)
(* and restore of a sequence; and llama_decode itself                      *)
(* (src/llama-context.cpp), which updates the keys, finds slots for all    *)
(* ubatches and then processes them one by one.                            *)
(*                                                                         *)
(* A key is the token that it was computed for, and the position that was  *)
(* roped into it.                                                          *)
(***************************************************************************)
EXTENDS KVCells, UbatchSplit

CONSTANTS
    Tok,            \* tokens
    Ranges,         \* <<p0, p1>> of the calls (p1 = -1 is MaxPos + 1 here)
    Delta,          \* shifts
    Shapes,         \* batches: for each entry the set of its sequences
    SplitBatches,   \* batches to be cut, whatever is in the cache
    Setups

\* What the setup is: div only with one stream, as in the programs that call seq_div.
SetupOK(x) ==
    /\ x \in [streams : {1, NSeqs}, swa : Nat, rope : BOOLEAN, n_ubatch : Nat \ {0}, careful : BOOLEAN,
              div : BOOLEAN, fails : BOOLEAN, share : BOOLEAN, calls : Nat]
    /\ x.div => x.streams = 1

\* A range begins at 0 or later (seq_rm() and the others see to it), a token of a batch has
\* a sequence (llama_batch_allocr::init).
ASSUME CacheAssumption ==
    /\ \A r \in Ranges : r[1] \in Nat
    /\ Delta \subseteq Int
    /\ Shapes \subseteq Seq((SUBSET SeqId) \ {{}})
    /\ \A b \in SplitBatches : IsBatch(b)
    /\ \A x \in Setups : SetupOK(x)

VARIABLES
    setup,      \* streams: 1 if unified, else one for each sequence; swa: n_swa or 0;
                \* rope: keys have positions; n_ubatch; careful: the owner does not save
                \* or restore a sequence while an update is pending; div: it calls seq_div;
                \* fails: a graph may fail; share: cells that several sequences have may be
                \* moved; calls: how many calls it makes (bound)
    v_cells, v_heads,   \* per stream
    data,       \* per stream and cell: the key
    sc_info,    \* sequence of <<source, destination>>: streams still to be copied
    ubatches,   \* what llama_decode has still to process: [groups, sinfo]
    saved,      \* sequence of [pos, tok, at]: a sequence that was saved
    call        \* history: the last call

vars == <<setup, v_cells, v_heads, data, sc_info, ubatches, saved, call>>

Stream == 0 .. setup.streams - 1
StreamOf(s) == IF setup.streams = 1 THEN 0 ELSE s
Cells(s) == v_cells[StreamOf(s)]
Blank == [tok |-> 0, at |-> 0]

Init ==
    /\ setup \in Setups
    /\ v_cells = [m \in Stream |-> ResetCells] /\ v_heads = [m \in Stream |-> 0]
    /\ data = [m \in Stream |-> [i \in Cell |-> Blank]]
    /\ sc_info = <<>> /\ ubatches = <<>> /\ saved = <<>> /\ call = [name |-> ""]

Masked(p0, p1) == setup.swa > 0 /\ p1 - p0 >= setup.swa

\* A loop over the cells of c, of which Op changes those in I
Over(c, Op(_, _), I) ==
    LET f[n \in 0 .. Size] ==
          IF n = 0 THEN c
          ELSE LET was == f[n - 1] IN IF n - 1 \in I THEN Op(was, n - 1) ELSE was
    IN f[Size]
InSeq(c, s, p0, p1) == {i \in Cell : PosIn(c, i, p0, p1) /\ SeqHas(c, i, s)}
Removed(c, s, p0, p1) == Over(c, LAMBDA d, i : SeqRm(d, i, s), InSeq(c, s, p0, p1))
AllRemoved(c, p0, p1) == Over(c, Rm, {i \in Cell : PosIn(c, i, p0, p1)})
Shared(c, a, b, p0, p1) == Over(c, LAMBDA d, i : SeqAdd(d, i, b), InSeq(c, a, p0, p1))
OnlyKept(c, s) == Over(c, LAMBDA d, i : SeqKeep(d, i, s), Cell)
Shifted(c, s, p0, p1, n) == Over(c, LAMBDA d, i : PosAdd(d, i, n), InSeq(c, s, p0, p1))
Halved(c, s, p0, p1) == Over(c, LAMBDA d, i : PosDiv(d, i, 2), InSeq(c, s, p0, p1))

\* A loop over the sequences of c, of which those in S lose the positions from lo[s] up to,
\* not including, hi[s]
RemovedOf(c, S, lo, hi) ==
    LET f[n \in 0 .. NSeqs] ==
          IF n = 0 THEN c
          ELSE LET was == f[n - 1] IN IF n - 1 \in S THEN Removed(was, n - 1, lo[n - 1], hi[n - 1]) ELSE was
    IN f[NSeqs]

\* The next search starts at the first cell that was freed, if that is before the head.
FreedCells(c, d) == {i \in Cell : ~IsEmpty(c, i) /\ IsEmpty(d, i)}
HeadAfter(c, d, head) == Min({head} \cup FreedCells(c, d))

-----------------------------------------------------------------------------
(* Operations on sequences                                                 *)

Call(c) ==
    /\ ubatches = <<>> /\ UNCHANGED ubatches
    /\ call' = c
    /\ setup.calls > 0 /\ setup' = [setup EXCEPT !.calls = @ - 1]
\* Stream m has the cells d, and a head of its own.
Becomes(m, d, head) ==
    /\ v_cells' = [v_cells EXCEPT ![m] = d]
    /\ v_heads' = [v_heads EXCEPT ![m] = head]

SeqRmCall(s, r) ==
    LET m == StreamOf(s)
        d == Removed(v_cells[m], s, r[1], r[2])
    IN /\ Call([name |-> "seq_rm", seqs |-> {s}, p0 |-> r[1], p1 |-> r[2]])
       /\ Becomes(m, d, HeadAfter(v_cells[m], d, v_heads[m]))
       /\ UNCHANGED <<data, sc_info, saved>>
AnySeqRmCall(r) ==
    LET d == [m \in Stream |-> AllRemoved(v_cells[m], r[1], r[2])]
    IN /\ Call([name |-> "seq_rm", seqs |-> SeqId, p0 |-> r[1], p1 |-> r[2]])
       /\ v_cells' = d /\ v_heads' = [m \in Stream |-> HeadAfter(v_cells[m], d[m], v_heads[m])]
       /\ UNCHANGED <<data, sc_info, saved>>

\* To a sequence that has been removed: in one stream both have the cells, else those of
\* the other stream are written anew and the keys follow later.
SeqCpSame(a, b, r) ==
    /\ Call([name |-> "seq_cp", from |-> a, to |-> b, p0 |-> r[1], p1 |-> r[2]]) /\ a # b /\ StreamOf(a) = StreamOf(b)
    /\ PosOf(Cells(b), b) = {}
    /\ Becomes(StreamOf(a), Shared(Cells(a), a, b, r[1], r[2]), v_heads[StreamOf(a)])
    /\ UNCHANGED <<data, sc_info, saved>>
CopiedCell(src, d, i, b) ==
    LET e == SeqAdd(PosSet(d, i, src.pos[i] - src.shift[i]), i, b)
    IN IF src.shift[i] = 0 THEN e ELSE PosAdd(e, i, src.shift[i])
CopiedFrom(src, a, b) ==
    Over(ResetCells, LAMBDA d, i : CopiedCell(src, d, i, b), {i \in Cell : SeqHas(src, i, a)})
SeqCpOther(a, b) ==
    /\ Call([name |-> "seq_cp", from |-> a, to |-> b, p0 |-> 0, p1 |-> MaxPos + 1]) /\ StreamOf(a) # StreamOf(b)
    /\ sc_info' = Append(sc_info, <<StreamOf(a), StreamOf(b)>>)
    /\ Becomes(StreamOf(b), CopiedFrom(Cells(a), a, b), v_heads[StreamOf(a)])
    /\ UNCHANGED <<data, saved>>

\* Only the stream of s is looked at.
SeqKeepCall(s) ==
    LET d == OnlyKept(Cells(s), s)
    IN /\ Call([name |-> "seq_rm", seqs |-> {z \in SeqId \ {s} : StreamOf(z) = StreamOf(s)},
                p0 |-> 0, p1 |-> MaxPos + 1])
       /\ Becomes(StreamOf(s), d, HeadAfter(Cells(s), d, v_heads[StreamOf(s)]))
       /\ UNCHANGED <<data, sc_info, saved>>

\* A cell moves for all of its sequences.
MayMove(s, r) == setup.share \/ \A i \in InSeq(Cells(s), s, r[1], r[2]) : Cells(s).seq[i] = {s}
\* The owner makes room first, as update_slots does: what is moved meets no other token.
MoveIsFree(s, r, d) ==
    LET moved == {p \in PosOf(Cells(s), s) : r[1] <= p /\ p < r[2]}
    IN /\ moved # {} /\ MayMove(s, r)
       /\ \A p \in moved : p + d <= MaxPos /\ p + d \notin PosOf(Cells(s), s) \ moved
SeqAddCall(s, r, d) ==
    LET e == Shifted(Cells(s), s, r[1], r[2], d)
        freed == FreedCells(Cells(s), e)
    IN /\ Call([name |-> "seq_add", seq |-> s, p0 |-> r[1], p1 |-> r[2], d |-> d]) /\ MoveIsFree(s, r, d)
       /\ Becomes(StreamOf(s), e, IF freed = {} THEN 0 ELSE Min(freed))
       /\ UNCHANGED <<data, sc_info, saved>>
SeqDivCall(s, r) ==
    /\ Call([name |-> "seq_div", seq |-> s, p0 |-> r[1], p1 |-> r[2]]) /\ setup.div
    /\ MayMove(s, r)
    /\ Becomes(StreamOf(s), Halved(Cells(s), s, r[1], r[2]), v_heads[StreamOf(s)])
    /\ UNCHANGED <<data, sc_info, saved>>

\* clear(): the pending copies stay.
ClearCall ==
    /\ Call([name |-> "seq_rm", seqs |-> SeqId, p0 |-> 0, p1 |-> MaxPos + 1])
    /\ v_cells' = [m \in Stream |-> ResetCells] /\ v_heads' = [m \in Stream |-> 0]
    /\ data' = [m \in Stream |-> [i \in Cell |-> Blank]]
    /\ UNCHANGED <<sc_info, saved>>

-----------------------------------------------------------------------------
(* Slots                                                                   *)

\* A cell is free, or its only sequence does not attend to it any more.
\* mutant: as if the batch had been processed already
CanUseLate(c, i) ==
    \/ IsEmpty(c, i)
    \/ \E s \in SeqId : c.seq[i] = {s} /\ Masked(c.pos[i], SeqPosMax(c, s) + 2)
CanUse(c, i) ==
    \/ IsEmpty(c, i)
    \/ \E s \in SeqId : c.seq[i] = {s} /\ Masked(c.pos[i], SeqPosMax(c, s) + 1)

\* The search goes on with the first cell after the last.
Around(i) == IF i < Size THEN i ELSE i - Size
\* find_slot for n tokens, not contiguous: <<>> if there are not as many cells.
FindSlot(c, head, n) ==
    LET start == IF head > Cardinality(c.used) + 2 * n THEN 0 ELSE head
        f[k \in 0 .. Size] ==
          IF k = 0 THEN <<>>
          ELSE LET was == f[k - 1]
               IN IF Len(was) < n /\ CanUse(c, Around(start + k - 1)) THEN Append(was, Around(start + k - 1)) ELSE was
    IN IF Len(f[Size]) < n THEN <<>> ELSE f[Size]

\* A cell that is overwritten is removed first: rm has the last such position of every
\* sequence, and what it has before that is purged.
Place(x, idx, e) ==
    LET old == x.c.seq[idx]
        free == IF IsEmpty(x.c, idx) THEN x.c ELSE Rm(x.c, idx)
    IN [c |-> SeqsAdd(PosSet(free, idx, e.pos), idx, e.seqs),
        rm |-> [s \in SeqId |-> IF s \in old THEN Max({x.rm[s], x.c.pos[idx]}) ELSE x.rm[s]]]
\* mutant: no purge
PurgedNothing(x) == x.c
Purged(x) ==
    LET S == {s \in SeqId : x.rm[s] # -1 /\ SeqPosMin(x.c, s) # -1 /\ SeqPosMin(x.c, s) <= x.rm[s]}
    IN RemovedOf(x.c, S, [s \in S |-> SeqPosMin(x.c, s)], [s \in S |-> x.rm[s] + 1])
\* apply_ubatch, for the tokens of one stream
Applied(c, idxs, entries) ==
    LET f[n \in 0 .. Len(idxs)] ==
          IF n = 0 THEN [c |-> c, rm |-> [s \in SeqId |-> -1]]
          ELSE Place(f[n - 1], idxs[n], entries[n])
    IN Purged(f[Len(idxs)])

\* The entries of a ubatch by stream: with several streams, by sequence
Group(batch, idxs, m) == [strm |-> m, entries |-> [k \in DOMAIN idxs |-> batch[idxs[k]]]]
Groups(batch, idxs) ==
    LET f[n \in 0 .. NSeqs] ==
          IF n = 0 THEN <<>>
          ELSE LET was == f[n - 1]
                   mine == Among(idxs, {i \in DOMAIN batch : n - 1 \in batch[i].seqs})
               IN IF mine = <<>> THEN was ELSE Append(was, Group(batch, mine, StreamOf(n - 1)))
    IN IF setup.streams = 1 THEN <<Group(batch, idxs, 0)>> ELSE f[NSeqs]

Sinfo(cells, heads, groups) ==
    [g \in DOMAIN groups |-> FindSlot(cells[groups[g].strm], heads[groups[g].strm], Len(groups[g].entries))]
\* Cells and heads after a ubatch with the slots sinfo
GroupOf(u, m) == CHOOSE g \in DOMAIN u.groups : u.groups[g].strm = m
InUbatch(u, m) == \E g \in DOMAIN u.groups : u.groups[g].strm = m
CellsAfter(cells, u) ==
    [m \in Stream |-> IF InUbatch(u, m)
                      THEN Applied(cells[m], u.sinfo[GroupOf(u, m)], u.groups[GroupOf(u, m)].entries)
                      ELSE cells[m]]
HeadsAfter(heads, u) ==
    [m \in Stream |-> IF InUbatch(u, m) THEN Last(u.sinfo[GroupOf(u, m)]) + 1 ELSE heads[m]]

\* prepare: finds slots for each of the splits and places it, to see where the next ones
\* go; x has the cells and heads so far, and those from before each ubatch.
Emplaced(batch, splits, cells, heads) ==
    LET f[n \in 0 .. Len(splits)] ==
          IF n = 0 THEN [ok |-> TRUE, states |-> <<>>, cells |-> cells, heads |-> heads]
          ELSE LET x == f[n - 1]
                   groups == Groups(batch, splits[n])
                   u == [groups |-> groups, sinfo |-> Sinfo(x.cells, x.heads, groups)]
               IN IF ~x.ok \/ \E g \in DOMAIN groups : u.sinfo[g] = <<>>
                  THEN [x EXCEPT !.ok = FALSE]
                  ELSE [ok |-> TRUE, cells |-> CellsAfter(x.cells, u), heads |-> HeadsAfter(x.heads, u),
                        states |-> Append(x.states, [u |-> u, cells |-> x.cells, heads |-> x.heads])]
    IN f[Len(splits)]

\* The cells idxs of c as they are in from
PutBack(c, idxs, from) ==
    LET f[n \in 0 .. Len(idxs)] == IF n = 0 THEN c ELSE SetCell(f[n - 1], idxs[n], from)
    IN f[Len(idxs)]
\* The cells of a ubatch as they were, and the heads: that of the k-th stream of the ubatch
\* is restored from the k-th of all.
Restored(x, was) ==
    [cells |-> [m \in Stream |-> IF InUbatch(was.u, m)
                                 THEN PutBack(x.cells[m], was.u.sinfo[GroupOf(was.u, m)], was.cells[m])
                                 ELSE x.cells[m]],
     heads |-> [m \in Stream |-> IF InUbatch(was.u, m) THEN was.heads[GroupOf(was.u, m) - 1] ELSE x.heads[m]]]
\* Backwards, everything is restored.
Prepare(batch, splits, cells, heads) ==
    LET x == Emplaced(batch, splits, cells, heads)
        len == Len(x.states)
        b[n \in 0 .. len] ==
          IF n = 0 THEN [cells |-> x.cells, heads |-> x.heads] ELSE Restored(b[n - 1], x.states[len - n + 1])
    IN [ok |-> x.ok, ubatches |-> [k \in DOMAIN x.states |-> x.states[k].u],
        cells |-> b[len].cells, heads |-> b[len].heads]

-----------------------------------------------------------------------------
(* llama_decode                                                            *)

\* Copies of streams first, then the shifts: in the keys of all streams
CopiedKeys ==
    LET f[n \in 0 .. Len(sc_info)] ==
          IF n = 0 THEN data
          ELSE LET was == f[n - 1] IN [was EXCEPT ![sc_info[n][2]] = was[sc_info[n][1]]]
    IN f[Len(sc_info)]
UpdatedKeys ==
    IF \E m \in Stream : v_cells[m].has_shift
    THEN [m \in Stream |-> [i \in Cell |-> [CopiedKeys[m][i] EXCEPT !.at = @ + v_cells[m].shift[i]]]]
    ELSE CopiedKeys
UpdatedCells ==
    IF \E m \in Stream : v_cells[m].has_shift THEN [m \in Stream |-> ResetShift(v_cells[m])] ELSE v_cells

\* The owner appends: token tok for the sequences of shape, each after its last position.
Batch(shape, tok) ==
    [k \in DOMAIN shape |->
        LET s == FirstId(shape[k])
        IN [pos |-> SeqPosMax(Cells(s), s) + Cardinality({l \in 1 .. k : s \in shape[l]}),
            seqs |-> shape[k], tok |-> tok]]
MayDecode(batch) ==
    /\ Acceptable(batch)
    /\ \A k \in DOMAIN batch : batch[k].pos <= MaxPos
    /\ \A k \in DOMAIN batch : \A s, z \in batch[k].seqs :
          /\ SeqPosMin(Cells(s), s) = SeqPosMin(Cells(z), z)
          /\ SeqPosMax(Cells(s), s) = SeqPosMax(Cells(z), z)

Splits(batch) ==
    IF setup.streams = 1 THEN AllSimple(batch, setup.n_ubatch) ELSE AllEqual(batch, setup.n_ubatch, TRUE, 0)
\* The call, with the number of tokens that each sequence gets, and the sequences that have
\* lost one before the first of the batch is decoded: prepare() puts back the cells that
\* its trial took, not those that it only purged.
Decoding(batch, cells) ==
    [name |-> "decode", tokens |-> [s \in SeqId |-> Cardinality({k \in DOMAIN batch : s \in batch[k].seqs})],
     torn |-> {s \in SeqId : PosOf(cells[StreamOf(s)], s) # PosOf(Cells(s), s)}]
Decode(shape, tok) ==
    \E batch \in {Batch(shape, tok)} : \E splits \in {Splits(batch)} :
       /\ ubatches = <<>> /\ setup.calls > 0 /\ setup' = [setup EXCEPT !.calls = @ - 1]
       /\ MayDecode(batch)
       /\ data' = UpdatedKeys /\ sc_info' = <<>>
       /\ IF Len(FlattenSeq(splits)) < Len(batch)
          THEN v_cells' = UpdatedCells /\ UNCHANGED <<v_heads, ubatches>> /\ call' = Decoding(batch, UpdatedCells)
          ELSE \E p \in {Prepare(batch, splits, UpdatedCells, v_heads)} :
                 /\ v_cells' = p.cells /\ v_heads' = p.heads
                 /\ ubatches' = IF p.ok THEN p.ubatches ELSE <<>>
                 /\ call' = Decoding(batch, p.cells)
       /\ UNCHANGED saved

\* The keys of a ubatch are written to its slots.
Written(u) ==
    [m \in Stream |->
        IF ~InUbatch(u, m) THEN data[m]
        ELSE LET idxs == u.sinfo[GroupOf(u, m)]
                 entries == u.groups[GroupOf(u, m)].entries
             IN [i \in Cell |-> IF i \in ToSet(idxs)
                                THEN LET e == entries[CHOOSE k \in DOMAIN idxs : idxs[k] = i]
                                     IN [tok |-> e.tok, at |-> e.pos]
                                ELSE data[m][i]]]
Ubatch ==
    /\ ubatches # <<>> /\ ubatches' = Tail(ubatches)
    /\ v_cells' = CellsAfter(v_cells, Head(ubatches))
    /\ v_heads' = HeadsAfter(v_heads, Head(ubatches))
    /\ data' = Written(Head(ubatches))
    /\ UNCHANGED <<setup, sc_info, saved, call>>

\* The graph fails or is aborted: what it was for is removed, from the first sequence of
\* each token.
EntriesOf(u) == UNION {ToSet(u.groups[g].entries) : g \in DOMAIN u.groups}
UbatchFails ==
    LET u == Head(ubatches)
        First(s) == {e.pos : e \in {f \in EntriesOf(u) : FirstId(f.seqs) = s}}
        Undone(c, m) ==
            LET S == {s \in SeqId : StreamOf(s) = m /\ First(s) # {}}
            IN RemovedOf(c, S, [s \in S |-> Min(First(s))], [s \in S |-> MaxPos + 1])
        after == CellsAfter(v_cells, u)
    IN /\ ubatches # <<>> /\ ubatches' = <<>>
       /\ setup.fails
       /\ v_cells' = [m \in Stream |-> Undone(after[m], m)]
       /\ v_heads' = [m \in Stream |-> HeadAfter(after[m], Undone(after[m], m), HeadsAfter(v_heads, u)[m])]
       /\ UNCHANGED <<setup, data, sc_info, saved, call>>

-----------------------------------------------------------------------------
(* llama_state_seq_get_data and llama_state_seq_set_data                   *)

UpdatePending == sc_info # <<>> \/ \E m \in Stream : v_cells[m].has_shift

StateGet(s) ==
    LET c == Cells(s)
        kept == Among([k \in 1 .. Size |-> k - 1],
                      {i \in Cell : SeqHas(c, i, s) /\ ~Masked(c.pos[i], SeqPosMax(c, s))})
    IN /\ Call([name |-> "get_data", seq |-> s]) /\ (setup.careful => ~UpdatePending)
       /\ kept # <<>>
       /\ saved' = [k \in DOMAIN kept |-> [pos |-> c.pos[kept[k]], tok |-> data[StreamOf(s)][kept[k]].tok,
                                           at |-> data[StreamOf(s)][kept[k]].at]]
       /\ UNCHANGED <<v_cells, v_heads, data, sc_info>>

StateSet(s) ==
    LET m == StreamOf(s)
        c == Removed(v_cells[m], s, 0, MaxPos + 1)
        head == HeadAfter(v_cells[m], c, v_heads[m])
        idxs == FindSlot(c, head, Len(saved))
        entries == [k \in DOMAIN saved |-> [pos |-> saved[k].pos, seqs |-> {s}, tok |-> saved[k].tok]]
    IN /\ Call([name |-> "set_data", seq |-> s]) /\ (setup.careful => ~UpdatePending)
       /\ saved # <<>>
       /\ IF idxs = <<>> THEN Becomes(m, c, head) /\ UNCHANGED data
          ELSE /\ Becomes(m, Applied(c, idxs, entries), Last(idxs) + 1)
               /\ data' = [data EXCEPT ![m] = [i \in Cell |->
                             IF i \in ToSet(idxs)
                             THEN LET k == CHOOSE n \in DOMAIN idxs : idxs[n] = i
                                  IN [tok |-> saved[k].tok, at |-> saved[k].at]
                             ELSE @[i]]]
       /\ UNCHANGED <<sc_info, saved>>

-----------------------------------------------------------------------------

Next ==
    \/ \E s \in SeqId, r \in Ranges : SeqRmCall(s, r) \/ SeqDivCall(s, r)
    \/ \E r \in Ranges : AnySeqRmCall(r)
    \/ \E a, b \in SeqId : SeqCpOther(a, b) \/ \E r \in Ranges : SeqCpSame(a, b, r)
    \/ \E s \in SeqId : SeqKeepCall(s) \/ StateGet(s) \/ StateSet(s)
    \/ \E s \in SeqId, r \in Ranges, d \in Delta : SeqAddCall(s, r, d)
    \/ ClearCall
    \/ \E shape \in Shapes, tok \in Tok : Decode(shape, tok)
    \/ Ubatch \/ UbatchFails

Spec == Init /\ [][Next]_vars

-----------------------------------------------------------------------------
(* Properties                                                              *)

\* Types; no shift is forgotten; the entries of a ubatch have cells of their own.
TypeOK ==
    /\ \A m \in Stream : v_heads[m] \in 0 .. Size
    /\ \A m \in Stream, i \in Cell :
          /\ data[m][i].tok \in Tok \cup {0}
          /\ v_cells[m].shift[i] # 0 => v_cells[m].has_shift
    /\ \A u \in DOMAIN ubatches : \A g \in DOMAIN ubatches[u].groups :
          /\ Len(ubatches[u].sinfo[g]) = Len(ubatches[u].groups[g].entries)
          /\ IsInjective(ubatches[u].sinfo[g])

\* In every stream the used cells and the positions of the sequences are what the cells
\* themselves say.
CellsAgree == TypeOK /\ \A m \in Stream : CellsOK(v_cells[m])

\* Each way to cut an acceptable batch yields ubatches that fit, that hold every entry
\* once, and that keep the order of every sequence; split_equal can leave whole tails
\* (llama-batch.cpp:477-708).  It does not depend on the memory, so one look, before the
\* first call, is enough.
SplitsAreWhole ==
    call.name = "" =>
       \A b \in SplitBatches : Acceptable(b) =>
          \A n \in 1 .. Len(b) : KeepsEntries(b, n) /\ \A tail \in 1 .. n - 1 : KeepsTails(b, n, tail)

\* A ubatch leaves no hole between the first and the last position of a sequence
\* (llama-kv-cache.cpp:1142, "we want to preserve the invariant that all positions
\* between [pos_min, pos_max] for each sequence will be present in the cache"), unless the
\* llama_decode that it belongs to has torn the sequence.
Contiguous(c, s) == PosOf(c, s) = SeqPosMin(c, s) .. SeqPosMax(c, s) \/ PosOf(c, s) = {}
NoHoles ==
    [][ubatches' # ubatches =>
         \A s \in SeqId : Contiguous(Cells(s), s) =>
            Contiguous(v_cells'[StreamOf(s)], s) \/ s \in call'.torn]_vars

\* What the cells say and what the keys are, once the pending copies and shifts are done:
\* a key with the wrong position is no token at all.
KeyAt(m, i) ==
    LET key == CopiedKeys[m][i]
    IN IF setup.rope => key.at + v_cells[m].shift[i] = v_cells[m].pos[i] THEN key.tok ELSE 0
MemoryOf(s) ==
    {<<Cells(s).pos[i], KeyAt(StreamOf(s), i)>> : i \in {j \in Cell : SeqHas(Cells(s), j, s)}}
Memory == INSTANCE SequenceMemory WITH
    memory <- [s \in SeqId |-> MemoryOf(s)],
    saved <- {<<saved[k].pos, IF setup.rope => saved[k].at = saved[k].pos THEN saved[k].tok ELSE 0>> :
                k \in DOMAIN saved},
    todo <- UNION {EntriesOf(ubatches[u]) : u \in DOMAIN ubatches},
    window <- setup.swa

\* The memory is what llama.h promises: each operation does to the tokens of its sequence
\* what it says, and a token that is attended to is never lost.  There are two exceptions.
\* A llama_decode that finds no room changes nothing (llama.h:990), except that it may tear a
\* sequence; a graph that fails leaves a token of several sequences to all but the first.
KeepsSequences == Memory!MemorySpec

\* What the two properties would say without torn sequences.  The invariant that the code
\* wants to preserve (llama-kv-cache.cpp:1142):
NeverHoles ==
    [][ubatches' # ubatches =>
         \A s \in SeqId : Contiguous(Cells(s), s) => Contiguous(v_cells'[StreamOf(s)], s)]_vars
\* prepare() places the ubatches only to find their slots, "remember the old state of the
\* cells so we can restore it in the end" (llama-kv-cache.cpp:758), and a llama_decode that
\* finds no room leaves the memory as it was (llama.h:990).
PrepareRestores ==
    [][ubatches = <<>> /\ call'.name = "decode" /\ setup' # setup => v_cells' = UpdatedCells]_vars

=============================================================================
