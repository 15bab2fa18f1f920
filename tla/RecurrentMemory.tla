--------------------------- MODULE RecurrentMemory ---------------------------
(***************************************************************************)
(* The memory of recurrent models (src/llama-memory-recurrent.cpp): one    *)
(* cell for the whole state of a sequence, which sequences share after a   *)
(* copy, and snapshots of the last states for rolling back rejected        *)
(* drafts.  llama_decode (src/llama-context.cpp) cuts a batch into         *)
(* ubatches; for each one it gathers the cells of its sequences side by    *)
(* side and lets the graph (src/llama-graph.cpp) carry the data along.     *)
(*                                                                         *)
(* A state is represented by the tokens it has seen, each token by its     *)
(* sequence and the call that brought it.  Row i of group g of the data    *)
(* belongs to cell i: group 0 has its state, group g the state g tokens    *)
(* earlier.                                                                *)
(***************************************************************************)
EXTENDS UbatchSplit

CONSTANTS
    Size,           \* cells, and sequences: one for each
    MaxPos,         \* bound: positions
    Delta,          \* shifts of positions
    Setups

SeqId == 0 .. Size - 1
Cell == 0 .. Size - 1

\* A ubatch has room for more tokens than must stay together, a token of a batch has a
\* sequence (llama_batch_allocr::init).
SetupOK(x) ==
    /\ x.n_rs_seq \in Nat /\ x.n_ubatch \in Nat /\ x.n_ubatch > x.n_rs_seq + 1
    /\ x.sequential \in BOOLEAN /\ x.careful \in BOOLEAN /\ x.calls \in Nat
    /\ x.shapes \subseteq Seq((SUBSET SeqId) \ {{}})

ASSUME RecurrentAssumption ==
    /\ Size \in Nat \ {0} /\ MaxPos \in Nat /\ Delta \subseteq Int
    /\ \A x \in Setups : SetupOK(x)

VARIABLES
    setup,      \* n_rs_seq, n_ubatch; sequential: how split_equal cuts (not for a hybrid
                \* memory with a unified cache); shapes: the batches, for each entry the set
                \* of its sequences; ops: the calls of the owner; careful: it rolls back
                \* tokens of the last batch only, once, and copies or keeps no sequence
                \* while a rollback is pending; calls: how many it makes (bound)
    memory,     \* cells: [pos, src, seq_id] each, src the row its state is in, or -1;
                \* tail: the cell of each sequence, or -1; head; used;
                \* rs_idx: for each sequence the group that its state is in
    data,       \* of each group and cell: the tokens that the state has seen
    ubatches,   \* what llama_decode has still to process
    saved,      \* a sequence that was saved: [pos, row, seen], or <<>>
    seen, at,   \* history: the tokens of each sequence, and its position
    fresh,      \* history: how many of its tokens came with the last batch, but for the first
    swept,      \* history: sequences whose cell was moved after their part of the batch
    astray,     \* history: those of them that were rolled back
    failed,     \* history: sequences that a failed graph has left with another state
    soiled,     \* history: empty cells that it has left with a row that is not zeroed
    called      \* history: calls so far

vars == <<setup, memory, data, ubatches, saved, seen, at, fresh, swept, astray, failed, soiled, called>>
history == <<seen, at, fresh, swept, astray, failed, soiled>>

Group == 0 .. setup.n_rs_seq
Blank == [pos |-> -1, src |-> -1, seq_id |-> {}]
Named(cell, S) == [cell EXCEPT !.seq_id = S]
InUse(c) == {i \in Cell : c[i].seq_id # {}}

\* clear()
Cleared == [cells |-> [i \in Cell |-> Blank], tail |-> [s \in SeqId |-> -1], head |-> 0, used |-> 0,
            rs_idx |-> [s \in SeqId |-> 0]]
Zeroed == [g \in Group |-> [i \in Cell |-> <<>>]]

Init ==
    /\ setup \in Setups
    /\ memory = Cleared /\ data = Zeroed /\ ubatches = <<>> /\ saved = <<>>
    /\ seen = [s \in SeqId |-> <<>>] /\ at = [s \in SeqId |-> -1]
    /\ fresh = [s \in SeqId |-> 0] /\ swept = {} /\ astray = {} /\ failed = {}
    /\ soiled = {} /\ called = 0

-----------------------------------------------------------------------------
(* Operations on sequences.                                                *)

\* Sequence s leaves its cell, which may be left empty.
Leave(m, s) ==
    LET i == m.tail[s]
    IN IF i < 0 THEN m
       ELSE [m EXCEPT !.tail[s] = -1,
                      !.cells[i] = IF @.seq_id = {s} THEN Blank ELSE Named(@, @.seq_id \ {s}),
                      !.used = IF m.cells[i].seq_id = {s} THEN @ - 1 ELSE @]
\* The next search begins at the first cell that was freed, if that is before the head.
Freed(m, n) == [n EXCEPT !.head = Min({@} \cup (InUse(m.cells) \ InUse(n.cells)))]

\* seq_rm(s, 0, -1)
RemovedAll(m, s) == [Freed(m, Leave(m, s)) EXCEPT !.rs_idx[s] = 0]

\* seq_rm(s, p0, -1) with p0 > 0: a rollback by as many tokens as there are snapshots, at most
PosOf(m, s) == IF m.tail[s] < 0 THEN -1 ELSE m.cells[m.tail[s]].pos
Steps(m, s, p0) == PosOf(m, s) - p0 + 1
Refused(m, s, p0) == p0 > 0 /\ Steps(m, s, p0) > setup.n_rs_seq
RolledBack(m, s, p0) ==
    IF Steps(m, s, p0) <= 0 \/ Refused(m, s, p0) THEN m
    ELSE [m EXCEPT !.rs_idx[s] = Steps(m, s, p0), !.cells[m.tail[s]].pos = p0 - 1]

SeqRm(m, s, p0) == IF p0 = 0 THEN RemovedAll(m, s) ELSE RolledBack(m, s, p0)

\* seq_rm(-1, 0, -1): the tails stay
RemovedAny(m) ==
    [m EXCEPT !.cells = [i \in Cell |-> IF @[i].pos >= 0 THEN Blank ELSE @[i]],
              !.used = @ - Cardinality({i \in Cell : m.cells[i].pos >= 0}),
              !.head = Min({@} \cup {i \in Cell : m.cells[i].pos >= 0}),
              !.rs_idx = [s \in SeqId |-> 0]]

\* seq_cp(s, d)
\* mutant: the old cell of d keeps d
CopiedOver(m, s, d) ==
    IF s = d \/ m.tail[s] < 0 THEN m
    ELSE [m EXCEPT !.tail[d] = m.tail[s], !.cells[m.tail[s]].seq_id = @ \cup {d}]
Copied(m, s, d) ==
    LET n == Leave(m, d)
    IN IF s = d THEN m
       ELSE IF m.tail[s] < 0 THEN n
       ELSE [n EXCEPT !.tail[d] = m.tail[s], !.cells[m.tail[s]].seq_id = @ \cup {d}]

\* seq_keep(s)
OnlyKept(m, s) ==
    LET others == {i \in Cell : s \notin m.cells[i].seq_id}
    IN [m EXCEPT !.tail = [z \in SeqId |-> IF z = s THEN @[z] ELSE -1],
                 !.cells = [i \in Cell |-> IF i \in others THEN Blank ELSE Named(@[i], {s})],
                 !.used = @ - Cardinality({i \in others : m.cells[i].pos >= 0}),
                 !.head = Min({@} \cup others)]

\* seq_add and seq_div of a whole sequence: only the position changes.
Moved(m, s, p) == IF m.tail[s] < 0 THEN m ELSE [m EXCEPT !.cells[m.tail[s]].pos = p]

-----------------------------------------------------------------------------
(* find_slot: the cells of the sequences of a ubatch.  A ubatch is         *)
(* [sets, k, first, last]: the sequence sets, the tokens of each, and the  *)
(* positions of the first and of the last token of each.                   *)

\* The search goes round: cells that come before its start are behind all the others.
Around(i) == IF i < Size THEN i ELSE i - Size
NextEmpty(c, from) ==
    LET empty == {k \in 0 .. Size - 1 : c[Around(from + k)].seq_id = {}}
    IN IF empty = {} THEN Around(from) ELSE Around(from + Min(empty))

\* "Clear cells from seq_ids that become shared."
Joining(sets) == UNION {sets[k] \ {FirstId(sets[k])} : k \in DOMAIN sets}
Unshared(m, sets) ==
    LET f[n \in 0 .. Size] ==
          IF n = 0 THEN m
          ELSE LET was == f[n - 1] IN IF n - 1 \in Joining(sets) THEN Leave(was, n - 1) ELSE was
    IN f[Size]

\* Sequence s gets cell i, with what it had.
Took(m, s, i) ==
    LET old == m.tail[s]
        new == [m EXCEPT !.tail[s] = i, !.cells[i] = IF old < 0 THEN @ ELSE Named(m.cells[old], {s})]
    IN IF old < 0 THEN new ELSE [new EXCEPT !.cells[old].seq_id = @ \ {s}]
\* Each first sequence gets a cell of its own: f is [m, next, ok], next the next empty cell.
Taken(f, s, more) ==
    LET old == f.m.tail[s]
        taken == Took(f.m, s, f.next)
    IN IF old >= 0 /\ f.m.cells[old].seq_id = {s} THEN f
       ELSE [m |-> taken, next |-> IF more THEN NextEmpty(taken.cells, f.next + 1) ELSE f.next,
             ok |-> f.ok /\ f.m.cells[f.next].seq_id = {} /\ (old >= 0 => s \in f.m.cells[old].seq_id)]
Start(m, n) == IF m.head > m.used + 2 * n THEN 0 ELSE m.head
AllTaken(m, firsts) ==
    LET f[n \in 0 .. Len(firsts)] ==
          IF n = 0 THEN [m |-> m, next |-> NextEmpty(m.cells, Start(m, Len(firsts))), ok |-> TRUE]
          ELSE LET was == f[n - 1] IN Taken(was, firsts[n], n < Len(firsts))
    IN f[Len(firsts)]

\* "Gather and re-order": two cells change places, with the tails that name them.
Swapped(m, i, j) ==
    [m EXCEPT !.cells[i] = m.cells[j], !.cells[j] = m.cells[i],
              !.tail = [s \in SeqId |-> IF @[s] = i THEN j ELSE IF @[s] = j THEN i ELSE @[s]]]
Gathered(m, firsts, min) ==
    LET f[n \in 0 .. Len(firsts)] ==
          IF n = 0 THEN m
          ELSE LET was == f[n - 1] IN Swapped(was, min + n - 1, was.tail[firsts[n]])
    IN f[Len(firsts)]

Filled(m, u, min) ==
    LET Nth(i) == i - min + 1
    IN [m EXCEPT !.cells = [i \in Cell |-> IF Nth(i) \in DOMAIN u.sets
                                           THEN [@[i] EXCEPT !.pos = u.last[Nth(i)], !.seq_id = u.sets[Nth(i)]]
                                           ELSE @[i]],
                 !.tail = [s \in SeqId |-> IF \E k \in DOMAIN u.sets : s \in u.sets[k]
                                           THEN min - 1 + CHOOSE k \in DOMAIN u.sets : s \in u.sets[k]
                                           ELSE @[s]]]

\* What find_slot leaves: the memory, the range of cells, and for each of them the row its
\* state is to be copied from (src0); row rs_z is to be zeroed for those that have none.
Staged(g, range, ok) ==
    LET zeros == {i \in range : \A j \in Cell : g.cells[j].src # i}
        rs_z == Min(zeros \cup {Size})
    IN [memory |-> [g EXCEPT !.cells = [i \in Cell |-> IF i \in range THEN [@[i] EXCEPT !.src = i] ELSE @[i]],
                             !.head = Min(range), !.used = Cardinality(InUse(g.cells))],
        range |-> range, rs_z |-> rs_z,
        src0 |-> [i \in range |-> IF g.cells[i].src < 0 THEN rs_z ELSE g.cells[i].src],
        ok |-> ok /\ ((\E i \in range : g.cells[i].src < 0) => zeros # {})]
Span(tails) == Min(tails) .. Max(tails)
PlacedIn(f, u, firsts, range) ==
    Staged(Filled(Gathered(f.m, firsts, Min(range)), u, Min(range)), range, f.ok)
Placed(f, u, firsts) == PlacedIn(f, u, firsts, Span({f.m.tail[firsts[k]] : k \in DOMAIN firsts}))
FindSlot(m, u) ==
    LET firsts == [k \in DOMAIN u.sets |-> FirstId(u.sets[k])]
        unshared == [Unshared(m, u.sets) EXCEPT !.head = m.head, !.used = m.used]
    IN Placed(AllTaken(unshared, firsts), u, firsts)

-----------------------------------------------------------------------------
(* The graph of a ubatch: set_inputs() takes the rollbacks, build_rs()     *)
(* zeroes and copies rows, and the model writes the new states.            *)

\* s_copy(): the group that the state of a cell is in, by its first sequence
GroupOf(m, i) == IF m.cells[i].seq_id = {} THEN 0 ELSE m.rs_idx[Min(m.cells[i].seq_id)]
IndexTaken(m, range) ==
    [m EXCEPT !.rs_idx = [s \in SeqId |-> IF \E i \in range : m.cells[i].seq_id # {} /\ s = Min(m.cells[i].seq_id)
                                          THEN 0 ELSE @[s]]]

\* The states that a ubatch finds, and those it leaves: the cells of its sequences come
\* first in the range, the others get their state copied.
Computed(slot, u, toks) ==
    LET zeroed == IF slot.rs_z \in Cell THEN [data EXCEPT ![0][slot.rs_z] = <<>>] ELSE data
        Found(i) == zeroed[GroupOf(slot.memory, i)][slot.src0[i]]
        Nth(i) == i - slot.memory.head + 1
    IN [g \in Group |-> [i \in Cell |->
          IF i \notin slot.range THEN zeroed[g][i]
          ELSE IF Nth(i) \in DOMAIN u.sets
               THEN IF g < u.k THEN Found(i) \o SubSeq(toks[Nth(i)], 1, u.k - g) ELSE zeroed[g][i]
               ELSE IF g = 0 THEN Found(i) ELSE zeroed[g][i]]]

-----------------------------------------------------------------------------
(* The calls of the owner.                                                 *)

Call(name) ==
    /\ ubatches = <<>> /\ name \in setup.ops /\ called < setup.calls /\ called' = called + 1
    /\ UNCHANGED setup
Settled(s) == setup.careful => memory.rs_idx[s] = 0 /\ fresh[s] = 0
Alone(s) == setup.careful /\ memory.tail[s] >= 0 => memory.cells[memory.tail[s]].seq_id = {s}

\* The history of the sequences in S is over.
Forget(S) ==
    /\ seen' = [s \in SeqId |-> IF s \in S THEN <<>> ELSE seen[s]]
    /\ at' = [s \in SeqId |-> IF s \in S THEN -1 ELSE at[s]]
    /\ fresh' = [s \in SeqId |-> IF s \in S THEN 0 ELSE fresh[s]]
    /\ swept' = swept \ S /\ astray' = astray \ S /\ failed' = failed \ S

Clear(zero) ==
    /\ Call("clear") /\ memory' = Cleared /\ data' = IF zero THEN Zeroed ELSE data
    /\ Forget(SeqId) /\ soiled' = {} /\ UNCHANGED <<ubatches, saved>>

RemoveSeq(s) ==
    /\ Call("seq_rm") /\ memory' = SeqRm(memory, s, 0)
    /\ Forget({s}) /\ UNCHANGED <<data, ubatches, saved, soiled>>
\* Careful owners remove any sequence only where there is none, as nobody in src/ does it.
RemoveAny ==
    /\ Call("seq_rm")
    /\ setup.careful => InUse(memory.cells) = {}
    /\ memory' = RemovedAny(memory)
    /\ Forget(SeqId) /\ UNCHANGED <<data, ubatches, saved, soiled>>

Rollback(s, p0) ==
    LET r == Steps(memory, s, p0)
    IN /\ Call("rollback") /\ memory.tail[s] >= 0 /\ r > 0
       /\ setup.careful => r <= fresh[s] /\ memory.rs_idx[s] = 0
       /\ Alone(s)
       /\ memory' = SeqRm(memory, s, p0)
       /\ IF Refused(memory, s, p0) THEN UNCHANGED history
          ELSE /\ seen' = [seen EXCEPT ![s] = SubSeq(@, 1, Len(@) - r)] /\ at' = [at EXCEPT ![s] = p0 - 1]
               /\ astray' = IF s \in swept THEN astray \cup {s} ELSE astray
               /\ fresh' = [fresh EXCEPT ![s] = @ - r] /\ UNCHANGED <<swept, failed, soiled>>
       /\ UNCHANGED <<data, ubatches, saved>>

Copy(s, d) ==
    /\ Call("seq_cp") /\ s # d /\ Settled(s) /\ Settled(d)
    /\ memory' = Copied(memory, s, d)
    /\ seen' = [seen EXCEPT ![d] = seen[s]] /\ at' = [at EXCEPT ![d] = at[s]]
    /\ astray' = IF s \in astray THEN astray \cup {d} ELSE astray \ {d}
    /\ failed' = IF s \in failed THEN failed \cup {d} ELSE failed \ {d}
    /\ UNCHANGED <<data, ubatches, saved, fresh, swept, soiled>>

Keep(s) ==
    /\ Call("seq_keep") /\ \A z \in SeqId \ {s} : setup.careful => memory.rs_idx[z] = 0
    /\ memory' = OnlyKept(memory, s)
    /\ Forget(SeqId \ {s}) /\ soiled' = {} /\ UNCHANGED <<data, ubatches, saved>>

Shift(s, p) ==
    /\ Call("seq_add") /\ Alone(s) /\ memory.tail[s] >= 0 /\ p \in 0 .. MaxPos
    /\ memory' = Moved(memory, s, p) /\ at' = [at EXCEPT ![s] = p]
    /\ UNCHANGED <<data, ubatches, saved, seen, fresh, swept, astray, failed, soiled>>

\* state_write of one sequence, and state_read into one
RowOf(m, s) == LET i == m.tail[s] IN IF m.cells[i].src >= 0 THEN m.cells[i].src ELSE i
Save(s) ==
    /\ Call("save") /\ s \notin astray \cup failed
    /\ saved' = IF memory.tail[s] < 0 THEN [pos |-> -1, row |-> <<>>, seen |-> <<>>]
                ELSE [pos |-> PosOf(memory, s), seen |-> seen[s],
                      row |-> data[memory.rs_idx[s]][RowOf(memory, s)]]
    /\ UNCHANGED <<memory, data, ubatches, history>>
Load(s) ==
    /\ Call("save") /\ saved # <<>>
    /\ IF saved.pos < 0 THEN memory' = SeqRm(memory, s, 0) /\ UNCHANGED <<data, soiled>>
       ELSE \E m \in {FindSlot(SeqRm(memory, s, 0), [sets |-> <<{s}>>, k |-> 1, first |-> <<saved.pos>>, last |-> <<saved.pos>>]).memory} :
              /\ memory' = [m EXCEPT !.cells[m.head].src = m.head, !.rs_idx[s] = 0]
              /\ data' = [data EXCEPT ![0][m.head] = saved.row] /\ soiled' = soiled \ {m.head}
    /\ seen' = [seen EXCEPT ![s] = saved.seen] /\ at' = [at EXCEPT ![s] = saved.pos]
    /\ fresh' = [fresh EXCEPT ![s] = 0]
    /\ swept' = swept \ {s} /\ astray' = astray \ {s} /\ failed' = failed \ {s}
    /\ UNCHANGED <<ubatches, saved>>

-----------------------------------------------------------------------------
(* llama_decode.                                                           *)

BatchOf(shape) ==
    [k \in DOMAIN shape |->
       [pos |-> at[FirstId(shape[k])] + Cardinality({l \in 1 .. k : FirstId(shape[k]) \in shape[l]}),
        seqs |-> shape[k]]]
TokensOf(batch, s) == {k \in DOMAIN batch : s \in batch[k].seqs}

\* init_batch: split_equal, or split_seq if all tokens are output.  With rollbacks the last
\* tokens of a sequence must stay in one ubatch, "so that the rollback snapshots remain valid".
\* mutant: a draft may be cut
SplitAnywhere(batch, all) ==
    IF all THEN AllSeq(batch, setup.n_ubatch) ELSE AllEqual(batch, setup.n_ubatch, setup.sequential, 0)
Split(batch, all) ==
    IF all THEN AllSeq(batch, setup.n_ubatch)
    ELSE AllEqual(batch, setup.n_ubatch, setup.sequential,
                  IF setup.n_rs_seq > 0 THEN setup.n_rs_seq + 1 ELSE 0)
SetsOf(batch, part) ==
    LET f[n \in 0 .. Len(part)] ==
          IF n = 0 THEN <<>>
          ELSE LET was == f[n - 1]
                   S == batch[part[n]].seqs
               IN IF S \in ToSet(was) THEN was ELSE Append(was, S)
    IN f[Len(part)]
UbatchOf(batch, part) ==
    LET Entries(S) == Among(part, {k \in DOMAIN batch : batch[k].seqs = S})
        sets == SetsOf(batch, part)
    IN [sets |-> sets, k |-> Len(Entries(sets[1])),
        first |-> [j \in DOMAIN sets |-> batch[Head(Entries(sets[j]))].pos],
        last |-> [j \in DOMAIN sets |-> batch[Last(Entries(sets[j]))].pos]]

\* Sequences that share a token have the same past.
Sharable(S) == \A s, z \in S : seen[s] = seen[z] /\ at[s] = at[z] /\ Settled(s)
Decode(shape, all) ==
    \E batch \in {BatchOf(shape)} : \E parts \in {Split(batch, all)} :
       /\ Call("decode")
       /\ \A k \in DOMAIN shape : Cardinality(shape[k]) > 1 => Sharable(shape[k])
       /\ \A k \in DOMAIN batch : batch[k].pos <= MaxPos
       /\ all => ~Coupled(batch) /\ setup.n_rs_seq = 0
       /\ UNION {ToSet(parts[n]) : n \in DOMAIN parts} = DOMAIN batch
       /\ ubatches' = [n \in DOMAIN parts |-> UbatchOf(batch, parts[n])]
       /\ fresh' = [s \in SeqId |-> Max({1, Cardinality(TokensOf(batch, s))}) - 1] /\ swept' = {}
       /\ UNCHANGED <<memory, data, saved, seen, at, astray, failed, soiled>>

Token(s) == <<s, called>>
SeqsIn(u) == UNION {u.sets[k] : k \in DOMAIN u.sets}
FirstOf(u, s) == FirstId(u.sets[CHOOSE k \in DOMAIN u.sets : s \in u.sets[k]])
Inherit(S, u) == {s \in SeqId : IF s \in SeqsIn(u) THEN FirstOf(u, s) \in S ELSE s \in S}

Evaluate ==
    /\ ubatches # <<>>
    /\ \E u \in {Head(ubatches)} : \E slot \in {FindSlot(memory, u)} :
          /\ memory' = IndexTaken(slot.memory, slot.range)
          /\ data' = Computed(slot, u, [k \in DOMAIN u.sets |-> [j \in 1 .. u.k |-> Token(FirstId(u.sets[k]))]])
          /\ seen' = [s \in SeqId |-> IF s \in SeqsIn(u)
                                      THEN seen[FirstOf(u, s)] \o [j \in 1 .. u.k |-> Token(FirstOf(u, s))] ELSE seen[s]]
          /\ at' = [s \in SeqId |-> IF s \in SeqsIn(u) THEN PosOf(slot.memory, s) ELSE at[s]]
          /\ swept' = swept \cup {s \in SeqId \ SeqsIn(u) : slot.memory.tail[s] # memory.tail[s]}
          /\ LET foul == {i \in slot.range : slot.src0[i] \in soiled \ {slot.rs_z}}
             IN /\ failed' = Inherit(failed, u) \cup {s \in SeqsIn(u) : slot.memory.tail[s] \in foul}
                /\ soiled' = (soiled \ slot.range) \cup (foul \ InUse(slot.memory.cells))
          /\ astray' = Inherit(astray, u)
    /\ ubatches' = Tail(ubatches) /\ UNCHANGED <<setup, saved, fresh, called>>

\* The graph is not computed, and the positions of the ubatch are removed: a removal that
\* is refused is not noticed.  Cells that were to be zeroed, copied or rolled back have not been.
UbatchRemoved(m, u) ==
    LET f[n \in 0 .. Len(u.sets)] ==
          IF n = 0 THEN m
          ELSE LET was == f[n - 1] IN SeqRm(was, FirstId(u.sets[n]), u.first[n])
    IN f[Len(u.sets)]
Fail ==
    /\ ubatches # <<>> /\ "fail" \in setup.ops
    /\ \E u \in {Head(ubatches)} : \E slot \in {FindSlot(memory, u)} :
       \E m \in {UbatchRemoved(IndexTaken(slot.memory, slot.range), u)} :
       LET zeroed == {i \in slot.range : slot.src0[i] = slot.rs_z}
           stale == zeroed \cup {i \in slot.range : slot.src0[i] # i \/ GroupOf(slot.memory, i) # 0}
           spoiled == SeqsIn(u) \cup UNION {slot.memory.cells[i].seq_id : i \in stale}
           gone == {s \in SeqId : m.tail[s] < 0}
       IN /\ memory' = m
          /\ seen' = [s \in SeqId |-> IF s \in gone THEN <<>> ELSE seen[s]]
          /\ at' = [s \in SeqId |-> IF s \in gone THEN -1 ELSE at[s]]
          /\ failed' = (failed \cup spoiled) \ gone /\ astray' = astray \ gone
          /\ soiled' = soiled \cup (stale \ InUse(slot.memory.cells))
          /\ fresh' = [s \in SeqId |-> 0] /\ swept' = {}
    /\ ubatches' = <<>> /\ UNCHANGED <<setup, data, saved, called>>

Next ==
    \/ \E zero \in BOOLEAN : Clear(zero)
    \/ RemoveAny
    \/ \E s \in SeqId : RemoveSeq(s) \/ Keep(s) \/ Save(s) \/ Load(s)
    \/ \E s \in SeqId, p0 \in 1 .. MaxPos : Rollback(s, p0)
    \/ \E s, d \in SeqId : Copy(s, d)
    \/ \E s \in SeqId, d \in Delta : Shift(s, PosOf(memory, s) + d)
    \/ \E s \in SeqId : Shift(s, PosOf(memory, s) \div 2)
    \/ \E shape \in setup.shapes, all \in BOOLEAN : Decode(shape, all)
    \/ Evaluate \/ Fail

Spec == Init /\ [][Next]_vars

-----------------------------------------------------------------------------
(* Properties.                                                             *)

TypeOK ==
    /\ memory.cells \in [Cell -> [pos : -1 .. MaxPos, src : -1 .. Size - 1, seq_id : SUBSET SeqId]]
    /\ memory.tail \in [SeqId -> -1 .. Size - 1] /\ memory.head \in Cell /\ memory.used \in 0 .. Size
    /\ memory.rs_idx \in [SeqId -> Group]
    /\ \A s \in SeqId : at[s] \in -1 .. MaxPos /\ fresh[s] \in Nat

\* The tails, the sets of the cells and their number belong together, and every ubatch that
\* was accepted finds cells: the assertions of find_slot hold
\* (llama-memory-recurrent.cpp:575, 581, 589, 674).
CellsBelong ==
    /\ TypeOK
    /\ \A s \in SeqId, i \in Cell : memory.tail[s] = i <=> s \in memory.cells[i].seq_id
    /\ memory.used = Cardinality(InUse(memory.cells))
    /\ \A i \in Cell : memory.cells[i].src \in {-1, i} /\ (i \in InUse(memory.cells) => memory.cells[i].src = i)
    /\ ubatches # <<>> => FindSlot(memory, Head(ubatches)).ok

StateIs(s) ==
    IF memory.tail[s] < 0 THEN seen[s] = <<>>
    ELSE /\ data[memory.rs_idx[s]][RowOf(memory, s)] = seen[s]
         /\ PosOf(memory, s) = at[s]

\* The next ubatch of a sequence goes on from the state after exactly its own tokens: cells
\* are shared, taken, moved and rolled back, and rows and snapshots have to follow.
\* Excepted are what a failed graph leaves, and the rollback of a sequence whose cell was
\* moved by a later ubatch of its batch.
StateIsTrue == \A s \in SeqId \ (failed \cup astray) : StateIs(s)

\* "Find first cell without src refs, to use as the zero-ed state" (llama-memory-recurrent.cpp:672):
\* an empty cell that is not going to be zeroed again is zeroed.
EmptyIsZeroed ==
    \A i \in Cell \ InUse(memory.cells) : memory.cells[i].src = i => data[0][i] = <<>>

\* "The trailing (1 + n_rs_seq) tokens of each seq must stay in the same ubatch so that the
\* rollback snapshots remain valid" (llama-memory-recurrent.cpp:422): then they are valid.
SnapshotsStayValid == \A s \in SeqId \ failed : StateIs(s)

=============================================================================
