------------------------------ MODULE SlotMemory ------------------------------
(***************************************************************************)
(* What a slot of the server keeps of a sequence, and the prompt cache     *)
(* (tools/server/server-context.cpp, server-task.cpp), over the memory of  *)
(* a context.  The memory of a sequence, kv, maps positions to the tokens  *)
(* that were decoded there, each with the adapters that were set: <<token, *)
(* lora>>.  A recurrent memory cannot forget a part of a sequence; it is   *)
(* called full here after COMMON_CONTEXT_SEQ_RM_TYPE_FULL.                 *)
(***************************************************************************)
LOCAL INSTANCE Integers
LOCAL INSTANCE Sequences
LOCAL INSTANCE SequencesExt
LOCAL INSTANCE FiniteSetsExt

(* The memory of a sequence *)

Cells(tokens, lora) == [p \in 0 .. Len(tokens) - 1 |-> <<tokens[p + 1], lora>>]
\* seq_rm of the positions from p0 (to p1)
RmFrom(kv, p0) == [p \in {q \in DOMAIN kv : q < p0} |-> kv[p]]
RmRange(kv, p0, p1) == [p \in {q \in DOMAIN kv : q < p0 \/ q >= p1} |-> kv[p]]
\* seq_add to the positions from p0 to p1, after those they move to were removed
Moved(kv, p0, p1, delta) ==
    LET from == {q \in DOMAIN kv : p0 <= q /\ q < p1}
    IN [p \in (DOMAIN kv \ from) \cup {q + delta : q \in from} |->
          IF p - delta \in from THEN kv[p - delta] ELSE kv[p]]
PosMax(kv) == IF DOMAIN kv = {} THEN -1 ELSE Max(DOMAIN kv)
PosMin(kv, full) == IF DOMAIN kv = {} \/ full THEN PosMax(kv) ELSE Min(DOMAIN kv)
\* A recurrent memory forgets all of a sequence or nothing: common_context_seq_rm aborts
\* if it is asked for a part.
CanRmFrom(kv, p0, full) == full => p0 = 0 \/ p0 > PosMax(kv)

\* What kv says of the tokens of a prompt, all of them decoded with the same adapters
Holds(kv, tokens) ==
    \E lora \in {kv[p][2] : p \in DOMAIN kv} \cup {0} :
        \A p \in 0 .. Len(tokens) - 1 : p \in DOMAIN kv /\ kv[p] = <<tokens[p + 1], lora>>

-----------------------------------------------------------------------------
(* The prompt cache: a sequence of [prompt, checkpoints, kv]               *)

CommonPrefix(a, b) ==
    CHOOSE n \in 0 .. Len(a) :
        /\ n <= Len(b) /\ \A i \in 1 .. n : a[i] = b[i]
        /\ n < Len(a) /\ n < Len(b) => a[n + 1] # b[n + 1]
Within(a, b) == CommonPrefix(a, b) = Len(a)

\* prompt_save, server_prompt_cache::alloc: nothing that another entry contains; the
\* entries that the new one contains go, and the oldest ones for want of room.
Save(cache, new, room) ==
    LET others == SelectSeq(cache, LAMBDA e : ~Within(e.prompt, new.prompt))
        kept == IF Len(others) < room THEN others ELSE Tail(others)
    IN IF \/ room = 0 \/ new.prompt = <<>>
          \/ \E i \in DOMAIN cache : Within(new.prompt, cache[i].prompt)
       THEN cache ELSE Append(kept, new)

\* server_prompt_cache::load: the entry that shares most with the new prompt and keeps
\* most of itself; 0 if that is none, or the slot already does as well.
Better(tokens, a, b) ==
    LET la == CommonPrefix(a, tokens)
        lb == CommonPrefix(b, tokens)
    IN la < lb /\ (a # <<>> => la * Len(b) < lb * Len(a)) /\ 4 * lb >= Len(b)
Best(cache, own, tokens) ==
    FoldLeft(LAMBDA best, i : IF Better(tokens, IF best = 0 THEN own ELSE cache[best].prompt,
                                        cache[i].prompt) THEN i ELSE best,
             0, [i \in DOMAIN cache |-> i])

-----------------------------------------------------------------------------
(* Reuse of chunks of the cached prompt (n_cache_reuse)                    *)

Match(a, i, b, j) == CommonPrefix(SubSeq(a, i + 1, Len(a)), SubSeq(b, j + 1, Len(b)))

\* x = [kv, prompt, c, p]: c in the cached prompt, p in the new one; all that was reused
\* lies before p.
RECURSIVE Reuse(_, _, _)
Reuse(x, tokens, least) ==
    IF x.c >= Len(x.prompt) \/ x.p >= Len(tokens) THEN x
    ELSE LET n == Match(x.prompt, x.c, tokens, x.p)
         IN IF n < least THEN Reuse([x EXCEPT !.c = @ + 1], tokens, least)
            ELSE Reuse([kv |-> Moved(RmRange(x.kv, x.p, x.c), x.c, x.c + n, x.p - x.c),
                        prompt |-> [i \in DOMAIN x.prompt |->
                                      IF x.p < i /\ i <= x.p + n THEN x.prompt[i + x.c - x.p]
                                                                ELSE x.prompt[i]],
                        c |-> x.c + n, p |-> x.p + n], tokens, least)

=============================================================================
