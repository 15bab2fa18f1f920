----------------------------- MODULE UbatchSplit -----------------------------
(***************************************************************************)
(* How llama_batch_allocr cuts a batch into ubatches (src/llama-batch.cpp).*)
(* A batch is a sequence of entries [pos, seqs, tok], seqs the set of the  *)
(* sequences that the token belongs to.  A ubatch is given by the indices  *)
(* of its entries, in order.  Each operator takes the indices that are     *)
(* used and returns those of the next ubatch, <<>> when there is none.     *)
(***************************************************************************)
EXTENDS Integers, Sequences, SequencesExt, FiniteSets, FiniteSetsExt

SeqsOf(batch) == UNION {batch[i].seqs : i \in DOMAIN batch}

\* The elements of s that are in S, in their order
Among(s, S) ==
    LET f[n \in 0 .. Len(s)] ==
          IF n = 0 THEN <<>>
          ELSE LET was == f[n - 1] IN IF s[n] \in S THEN Append(was, s[n]) ELSE was
    IN f[Len(s)]
\* The first k elements of each of the sequences
Firsts(seqs, k) ==
    LET f[n \in 0 .. Len(seqs)] == IF n = 0 THEN <<>> ELSE f[n - 1] \o SubSeq(seqs[n], 1, k)
    IN f[Len(seqs)]

Unused(batch, used) == Among([i \in DOMAIN batch |-> i], DOMAIN batch \ used)
\* has_cpl: a token of several sequences
Coupled(batch) == \E i \in DOMAIN batch : Cardinality(batch[i].seqs) > 1

FirstId(seqs) == Min(seqs)

SplitSimple(batch, used, n_ubatch) ==
    LET left == Unused(batch, used) IN SubSeq(left, 1, Min({n_ubatch, Len(left)}))

\* The sequence sets of the next ubatch of split_equal, which have no sequence in common:
\* the ids go up by one if the split is sequential.
\* mutant: sets that overlap
OverlappingSets(batch, used, n_ubatch, sequential) ==
    FoldLeft(LAMBDA sets, i :
               IF batch[i].seqs \in ToSet(sets) THEN sets ELSE Append(sets, batch[i].seqs),
             <<>>, Unused(batch, used))
Participating(batch, used, n_ubatch, sequential) ==
    LET left == Unused(batch, used)
        Joins(sets, S) ==
            /\ Len(sets) <= n_ubatch
            /\ \A k \in DOMAIN sets : sets[k] \cap S = {}
            /\ sequential /\ sets # <<>> => FirstId(S) = FirstId(Last(sets)) + 1
        f[n \in 0 .. Len(left)] ==
          IF n = 0 THEN <<>>
          ELSE LET was == f[n - 1]
               IN IF Joins(was, batch[left[n]].seqs) THEN Append(was, batch[left[n]].seqs) ELSE was
    IN f[Len(left)]

\* How many sets remain, and how many entries of each: a set either ends in this ubatch or
\* keeps at least its last tail entries for later ones.
WholeTails(sizes, k, tail, n_ubatch) ==
    LET Whole(s) == sizes[s] - k = 0 \/ sizes[s] - k >= tail
        kept == Min({s \in DOMAIN sizes : ~Whole(s)} \cup {Len(sizes) + 1}) - 1
    IN IF kept > 0 THEN [n_seqs |-> kept, k |-> k]
       ELSE [n_seqs |-> 1, k |-> IF sizes[1] <= n_ubatch THEN sizes[1] ELSE sizes[1] - tail]

SplitEqual(batch, used, n_ubatch, sequential, tail) ==
    LET sets == Participating(batch, used, n_ubatch, sequential)
        left == [s \in DOMAIN sets |-> Among(Unused(batch, used), {i \in DOMAIN batch : batch[i].seqs = sets[s]})]
        sizes == [s \in DOMAIN sets |-> Len(left[s])]
        k == Min(ToSet(sizes) \cup {Max({1, n_ubatch \div Max({1, Len(sets)})})})
        r == IF tail > 0 THEN WholeTails(sizes, k, tail, n_ubatch) ELSE [n_seqs |-> Len(sets), k |-> k]
    IN IF (sequential /\ Coupled(batch)) \/ sets = <<>> THEN <<>>
       ELSE Firsts([s \in 1 .. r.n_seqs |-> left[s]], r.k)

\* From the first unused entry, those of the same sequences, or of fewer and fewer
SplitSeq(batch, used, n_ubatch) ==
    LET left == Unused(batch, used)
        Goes(idxs, i) == \/ idxs = <<>>
                         \/ Len(idxs) < n_ubatch /\ batch[i].seqs \subseteq batch[Last(idxs)].seqs
        f[n \in 0 .. Len(left)] ==
          IF n = 0 THEN <<>>
          ELSE LET was == f[n - 1] IN IF Goes(was, left[n]) THEN Append(was, left[n]) ELSE was
    IN f[Len(left)]

\* The loops of the memory modules: ubatches until one is empty; Cut(used) is a split.
Ubatches(batch, Cut(_)) ==
    LET f[n \in 0 .. Len(batch)] ==
          IF n = 0 THEN [parts |-> <<>>, used |-> {}]
          ELSE LET was == f[n - 1]
                   next == Cut(was.used)
               IN IF next = <<>> THEN was
                  ELSE [parts |-> Append(was.parts, next), used |-> was.used \cup ToSet(next)]
    IN f[Len(batch)].parts

AllSimple(batch, n_ubatch) == Ubatches(batch, LAMBDA used : SplitSimple(batch, used, n_ubatch))
AllEqual(batch, n_ubatch, sequential, tail) ==
    Ubatches(batch, LAMBDA used : SplitEqual(batch, used, n_ubatch, sequential, tail))
AllSeq(batch, n_ubatch) == Ubatches(batch, LAMBDA used : SplitSeq(batch, used, n_ubatch))

-----------------------------------------------------------------------------
(* What init() means to let through: positions of a sequence that go up by *)
(* one, sets of sequences that only get smaller.  (Its check for the sets  *)
(* never fails; such a batch is cut out of order by split_seq.)            *)

\* Every token has a sequence, and finitely many.
IsBatch(batch) ==
    /\ batch \in Seq(ToSet(batch))
    /\ \A i \in DOMAIN batch : batch[i].seqs # {} /\ IsFiniteSet(batch[i].seqs)
PositionsOf(batch, s) == {batch[i].pos : i \in {j \in DOMAIN batch : s \in batch[j].seqs}}
Narrowing(batch) ==
    \A i, j \in DOMAIN batch :
        i < j /\ batch[i].seqs \cap batch[j].seqs # {} => /\ batch[j].seqs \subseteq batch[i].seqs
                                                       /\ batch[i].pos < batch[j].pos
Acceptable(batch) ==
    /\ batch # <<>> /\ Narrowing(batch)
    /\ \A s \in SeqsOf(batch) :
          Max(PositionsOf(batch, s)) - Min(PositionsOf(batch, s)) < Cardinality(PositionsOf(batch, s))

\* Every entry is in one ubatch, and no sequence has its entries out of order.
UsedIn(parts) == UNION {ToSet(parts[u]) : u \in DOMAIN parts}
Places(parts) == UNION {{u} \X DOMAIN parts[u] : u \in DOMAIN parts}
Earlier(x, y) == x[1] < y[1] \/ (x[1] = y[1] /\ x[2] < y[2])
IsSplit(batch, parts) ==
    /\ UsedIn(parts) = DOMAIN batch
    /\ \A x, y \in Places(parts) :
          LET i == parts[x[1]][x[2]]
              j == parts[y[1]][y[2]]
          IN Earlier(x, y) => i # j /\ (batch[i].seqs \cap batch[j].seqs # {} => i < j)
FitsIn(parts, n_ubatch) == \A u \in DOMAIN parts : Len(parts[u]) <= n_ubatch

\* After each ubatch, a sequence set has no entries left or at least tail of them, and
\* what is in the ubatch is as long for each.
UbatchWhole(batch, done, p, tail) ==
    LET sets == {batch[i].seqs : i \in ToSet(p)}
        With(S, I) == {i \in I : batch[i].seqs = S}
    IN \A S \in sets :
          /\ Cardinality(With(S, DOMAIN batch \ done)) \in {0} \cup tail .. Len(batch)
          /\ \A R \in sets : Cardinality(With(S, ToSet(p))) = Cardinality(With(R, ToSet(p)))
TailsWhole(batch, parts, tail) ==
    \A u \in DOMAIN parts : UbatchWhole(batch, UsedIn(SubSeq(parts, 1, u)), parts[u], tail)

\* What the three splits promise for ubatches of n entries.  split_equal looks at one set
\* of sequences more than fit, so that its ubatches fit only if the batch has no more.
SetsIn(batch) == {batch[i].seqs : i \in DOMAIN batch}
KeepsEntries(batch, n) ==
    /\ IsSplit(batch, AllSimple(batch, n)) /\ FitsIn(AllSimple(batch, n), n)
    /\ IsSplit(batch, AllSeq(batch, n)) /\ FitsIn(AllSeq(batch, n), n)
    /\ \A sequential \in BOOLEAN :
          \E parts \in {AllEqual(batch, n, sequential, 0)} :
             IF sequential /\ Coupled(batch) THEN parts = <<>>
             ELSE IsSplit(batch, parts) /\ (Cardinality(SetsIn(batch)) <= n => FitsIn(parts, n))
KeepsTails(batch, n, tail) ==
    Cardinality(SetsIn(batch)) <= n =>
       \E parts \in {AllEqual(batch, n, FALSE, tail)} :
          IsSplit(batch, parts) /\ FitsIn(parts, n) /\ TailsWhole(batch, parts, tail)

=============================================================================
