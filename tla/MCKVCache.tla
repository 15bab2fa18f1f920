------------------------------ MODULE MCKVCache ------------------------------
(* Two sequences in four cells, in one stream or in two.                   *)
EXTENDS KVCache, TLC

CONSTANTS t1, t2
Tokens == {t1, t2}
SameTokens == Permutations(Tokens)

MCRanges == {<<0, MaxPos + 1>>, <<1, MaxPos + 1>>, <<0, 1>>, <<1, 2>>}
MCDelta == {-1, 1}
MCShapes ==
    {<<{0}>>, <<{1}, {1}>>, <<{0, 1}, {0, 1}>>, <<{0, 1}, {0}, {1}>>,
     <<{0}, {1}, {1}>>, <<{1}, {1}, {1}, {1}>>}

Base == [streams |-> 1, swa |-> 0, rope |-> TRUE, n_ubatch |-> 2, careful |-> TRUE, div |-> FALSE,
         fails |-> FALSE, share |-> FALSE, calls |-> 4]
Unified == [Base EXCEPT !.fails = TRUE]
Streams == [Base EXCEPT !.streams = 2, !.fails = TRUE]
Window == [Base EXCEPT !.swa = 2, !.fails = TRUE]
NoRope == [Base EXCEPT !.rope = FALSE, !.div = TRUE]
MCSetups == {Unified, Streams, Window, NoRope}

\* For MCKVCache_open.cfg
WindowOnly == {Window}
RopeDiv == {[Base EXCEPT !.div = TRUE]}
SharedShift == {[Base EXCEPT !.share = TRUE]}
Careless == {[Base EXCEPT !.careful = FALSE], [Streams EXCEPT !.careful = FALSE]}

\* Batches of up to four entries that three sequences begin with
SplitShapes == {sh \in BoundedSeq((SUBSET {0, 1, 2}) \ {{}}, 4) : sh # <<>>}
BatchOf(sh) ==
    [k \in DOMAIN sh |-> [pos |-> Cardinality({l \in 1 .. k : FirstId(sh[k]) \in sh[l]}) - 1,
                          seqs |-> sh[k], tok |-> 1]]
MCSplitBatches == {BatchOf(sh) : sh \in SplitShapes}

==============================================================================
