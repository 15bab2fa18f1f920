---------------------------- MODULE SequenceCounts ----------------------------
(***************************************************************************)
(* What the queues of the server need to know of sequences: how often an   *)
(* entry occurs, and what is left when entries are erased in place, the    *)
(* others keeping their order.  (SelectSeq would say the latter too, but   *)
(* nothing can be proved of it.)                                           *)
(***************************************************************************)
EXTENDS Integers, Sequences, FiniteSets, SequencesExt

Occurrences(seq, e) == Cardinality({i \in DOMAIN seq : seq[i] = e})

\* std::remove_if and erase: the elements of seq at the positions in kept, in order.
Kept(seq, kept) ==
    FlattenSeq([i \in DOMAIN seq |-> IF i \in kept THEN <<seq[i]>> ELSE <<>>])

=============================================================================
