----------------------------- MODULE MCSlotBatch -----------------------------
(* Servers of two slots with small settings and a few requests each.       *)
EXTENDS SlotBatch

MCToken == {0, 1, 2}
\* A network that depends on every token and its place, and seldom ends the text.
MCContinue(tokens, lora) ==
    LET sum == FoldLeftDomain(LAMBDA n, i : n + i * tokens[i], lora + 1, tokens)
    IN IF sum % 5 = 0 THEN 0 ELSE 1 + (sum % 2)
MCOffsets == {1, 3}

Ask(tokens, predict) ==
    [tokens |-> tokens, lora |-> 0, parent |-> 0, slot |-> 0, predict |-> predict, keep |-> 0,
     cache |-> TRUE]
With(tasks) ==
    [tasks |-> tasks, full |-> FALSE, spec |-> FALSE, shift |-> FALSE, unified |-> FALSE,
     idle |-> FALSE, cached |-> 0, reuse |-> 0, failures |-> 0, cancels |-> 0]

Long == <<1, 2, 2, 1, 1>>
Alike == <<1, 2, 2, 1, 2>>
Short == <<2, 2>>

\* Three requests for two slots: the third finds a prompt like its own in a slot or in
\* the prompt cache.
Cached == [With(<<Ask(Long, 2), Ask(Alike, 2), Ask(Short, 2)>>) EXCEPT !.cached = 1, !.cancels = 1]
Refused == [With(<<Ask(<<>>, 1), Ask(<<1, 1, 2, 2, 1, 1, 2, 2>>, 1), Ask(Long, 2)>>) EXCEPT !.cached = 2]
\* One memory for all slots, which is too small for what they ask
Unified == [With(<<Ask(Long, 3), Ask(Short, 3), Ask(Alike, 1)>>)
              EXCEPT !.unified = TRUE, !.cached = 2, !.idle = TRUE]
Purged == [With(<<Ask(Long, 1), Ask(<<2, 2, 1, 2>>, 3), Ask(Short, 3)>>) EXCEPT !.unified = TRUE]
\* Drafts of two slots do not fit into it at once.
Crowded == [With(<<Ask(<<1, 2, 1>>, 4), Ask(<<2>>, 5)>>) EXCEPT !.spec = TRUE, !.unified = TRUE]
\* The answer is longer than the context.
Shift == [With(<<[Ask(Long, 7) EXCEPT !.keep = 1], Ask(Short, 2)>>) EXCEPT !.shift = TRUE, !.spec = TRUE]
\* Chunks of the cached prompt are found at other places of the new one.
Chunks == [With(<<Ask(<<1, 1, 2, 2, 1>>, 1), [Ask(<<1, 2, 2, 1, 1>>, 2) EXCEPT !.slot = 2]>>)
             EXCEPT !.reuse = 2]
\* A recurrent memory, with checkpoints of the prompts
Recurrent == [With(<<Ask(Long, 2), Ask(Alike, 2), Ask(<<1, 2, 2, 2, 2, 1>>, 1)>>)
                EXCEPT !.full = TRUE, !.cached = 1, !.cancels = 1]
Again == [With(<<Ask(Long, 2), Ask(Long, 1)>>) EXCEPT !.full = TRUE]
RecurrentDraft == [With(<<Ask(Short, 4), Ask(<<1>>, 3)>>) EXCEPT !.full = TRUE, !.spec = TRUE]
Draft == [With(<<Ask(Long, 3), Ask(Short, 4)>>) EXCEPT !.spec = TRUE, !.failures = 1]
\* Two answers to one prompt
Children == [With(<<Ask(Short, 2), [Ask(Short, 3) EXCEPT !.parent = 1], Ask(Short, 2)>>)
               EXCEPT !.cancels = 1, !.failures = 1]
ChildrenShift == [With(<<Ask(Long, 5), [Ask(Long, 2) EXCEPT !.parent = 1]>>) EXCEPT !.shift = TRUE]
Adapters == [With(<<[Ask(Long, 2) EXCEPT !.lora = 1], [Ask(Long, 2) EXCEPT !.lora = 2], Ask(Short, 1)>>)
               EXCEPT !.cancels = 1]

MCSetups == {Cached, Refused, Unified, Purged, Crowded, Shift, Chunks, Recurrent, Again,
             RecurrentDraft, Draft, Children, ChildrenShift, Adapters}

\* A request for a slot that is busy
AskForBusy == {[With(<<[Ask(<<2, 2>>, 1) EXCEPT !.slot = 2], [Ask(Long, 3) EXCEPT !.slot = 2],
                       [Ask(<<2, 2, 2>>, 1) EXCEPT !.slot = 2]>>) EXCEPT !.cached = 2]}
\* Drafts in a hybrid memory that has no room for all of them
HybridDraft == {[With(<<Ask(Long, 4), Ask(Short, 4)>>)
                   EXCEPT !.spec = TRUE, !.unified = TRUE, !.full = TRUE]}
\* Context shift and reuse of chunks with a recurrent memory
RecurrentShift == {[With(<<[Ask(Long, 7) EXCEPT !.keep = 1], Ask(Short, 2)>>)
                      EXCEPT !.shift = TRUE, !.full = TRUE]}
RecurrentReuse == {[With(<<Ask(<<1, 1, 2, 2, 1>>, 1), [Ask(<<1, 2, 2, 1, 1>>, 2) EXCEPT !.slot = 2]>>)
                      EXCEPT !.reuse = 2, !.full = TRUE]}

=============================================================================
