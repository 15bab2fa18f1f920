--------------------------- MODULE SequenceMemory ----------------------------
(***************************************************************************)
(* What the memory of a context promises (include/llama.h, 717-790 and     *)
(* 984-998): every sequence is a set of tokens at positions.  There are no *)
(* cells, streams, heads or pending updates.                               *)
(***************************************************************************)
EXTENDS Integers, FiniteSets

CONSTANTS
    SeqId

VARIABLES
    window,         \* the attention window, 0: all tokens; never changes
    memory,         \* [SeqId -> set of <<position, token>>]
    saved,          \* a sequence that was saved, a set of <<position, token>>
    call,           \* the last call of the owner, with its arguments
    todo            \* entries of the batch that llama_decode has still to process

mvars == <<window, memory, saved, call, todo>>

InRange(x, p0, p1) == p0 <= x[1] /\ x[1] < p1
LastPos(M) == IF M = {} THEN -1 ELSE CHOOSE p \in {x[1] : x \in M} : \A x \in M : x[1] <= p
\* No token after the last one of M attends to position p.
OutOfWindow(p, M) == window > 0 /\ LastPos(M) + 1 - p >= window
\* The old tokens of M may be forgotten by the time it is N.
Forgets(M, N) == \A x \in M \ N : OutOfWindow(x[1], M)

MInit == memory = [s \in SeqId |-> {}] /\ saved = {} /\ todo = {}

\* The calls.  A range of positions goes from p0 up to, not including, p1.
Called(name) == todo = {} /\ todo' = {} /\ call'.name = name

Remove ==
    /\ Called("seq_rm") /\ UNCHANGED saved
    /\ memory' = [s \in SeqId |-> IF s \in call'.seqs THEN {x \in memory[s] : ~InRange(x, call'.p0, call'.p1)}
                                 ELSE memory[s]]
Copy ==
    /\ Called("seq_cp") /\ UNCHANGED saved
    /\ memory' = [memory EXCEPT ![call'.to] = {x \in memory[call'.from] : InRange(x, call'.p0, call'.p1)}]
\* seq_add and seq_div: the tokens in the range get other positions; those below 0 go.
Moved(M, p0, p1, To(_)) ==
    {x \in M : ~InRange(x, p0, p1)}
    \cup {<<To(x[1]), x[2]>> : x \in {y \in M : InRange(y, p0, p1) /\ To(y[1]) >= 0}}
Add ==
    /\ Called("seq_add") /\ UNCHANGED saved
    /\ memory' = [memory EXCEPT ![call'.seq] = Moved(@, call'.p0, call'.p1, LAMBDA p : p + call'.d)]
Divide ==
    /\ Called("seq_div") /\ UNCHANGED saved
    /\ memory' = [memory EXCEPT ![call'.seq] = Moved(@, call'.p0, call'.p1, LAMBDA p : p \div 2)]

Save ==
    /\ Called("get_data") /\ UNCHANGED memory
    /\ saved' \subseteq memory[call'.seq] /\ Forgets(memory[call'.seq], saved')
\* It fails when there is no room: then nothing is left of the sequence.
Load ==
    /\ Called("set_data") /\ UNCHANGED saved
    /\ memory'[call'.seq] \in {saved, {}}
    /\ \A z \in SeqId \ {call'.seq} : memory'[z] \subseteq memory[z] /\ Forgets(memory[z], memory'[z])

\* A batch is taken whole or, if there is no room for it, refused.  Either way a sequence
\* may already lose tokens that those after the batch do not attend to: it is torn.  Until
\* the batch is done, it may go on to lose such tokens.
Ahead(s) == IF s \in call'.torn THEN call'.tokens[s] ELSE 0
LosesOld(s, N) == \A x \in memory[s] \ N : OutOfWindow(x[1] - Ahead(s), memory[s])
Decode ==
    /\ todo = {} /\ call'.name = "decode" /\ UNCHANGED saved
    /\ \A s \in SeqId :
          /\ memory'[s] \subseteq memory[s] /\ LosesOld(s, memory'[s])
          /\ s \notin call'.torn => memory'[s] = memory[s]
\* A part of the batch that leaves out nothing before it.
IsPrefix(E) ==
    \A e \in E : \A f \in todo \ E : e.seqs \cap f.seqs # {} => e.pos <= f.pos
Evaluate ==
    /\ todo' # todo /\ todo' \subseteq todo /\ IsPrefix(todo \ todo')
    /\ \A s \in SeqId :
          LET new == {<<e.pos, e.tok>> : e \in {f \in todo \ todo' : s \in f.seqs}}
          IN /\ new \subseteq memory'[s] /\ memory'[s] \subseteq memory[s] \cup new
             /\ LosesOld(s, memory'[s])
    /\ UNCHANGED <<saved, call>>
\* "Upon fatal-error or abort, the ubatches that managed to be processed will remain."  The
\* rest is removed from the first sequence of each token only: another that shares it keeps
\* a position that was never evaluated.
Fail ==
    /\ todo # {} /\ todo' = {} /\ UNCHANGED <<saved, call>>
    /\ \A s \in SeqId :
          LET shared == {e.pos : e \in {f \in todo : s \in f.seqs /\ \E z \in f.seqs : z < s}}
          IN /\ \A x \in memory'[s] \ memory[s] : x[1] \in shared
             /\ LosesOld(s, memory'[s])

MNext ==
    /\ Remove \/ Copy \/ Add \/ Divide \/ Save \/ Load \/ Decode \/ Evaluate \/ Fail
    /\ UNCHANGED window

MemorySpec == MInit /\ [][MNext]_mvars

=============================================================================
