------------------------------ MODULE SlotBatch ------------------------------
(***************************************************************************)
(* What update_slots() does to the tokens (tools/server/server-context.cpp)*)
(* : pre_decode() fills one batch from all slots, decode() evaluates it in *)
(* views, again with smaller ones when the memory is full, post_decode()   *)
(* samples.  Between two updates tasks are given slots, whose prompts are  *)
(* saved and loaded, and are cancelled.  Which task waits for which slot   *)
(* is the subject of ServerTasks.                                          *)
(*                                                                         *)
(* One thread does all this.  An update is taken in the steps of its loops *)
(* over the slots: pc names the loop, cur the slot.  Indices into the      *)
(* batch are those of the code, from 0.                                    *)
(***************************************************************************)
EXTENDS Integers, Sequences, SequencesExt, FiniteSets, FiniteSetsExt, SlotMemory

CONSTANTS
    NSlots, NCtx,       \* the slots, the context size of each (of all, if unified)
    NBatch, NUbatch,    \* llama_n_batch, llama_n_ubatch
    Token, Eos,         \* Eos \in Token
    Continue(_, _),     \* the token that the network gives for tokens and adapters
    Wrong,              \* ... and for a memory that is not what it should be, or the mark of it
    MaxDraft,           \* the longest draft
    CheckpointOffsets,  \* checkpoint_offsets: tokens that are left for later batches
    MaxCheckpoints, CheckpointStep,     \* n_ctx_checkpoints, checkpoint_min_step
    Setups              \* the requests and the settings of a server

Slot == 1 .. NSlots
Tokens == Seq(Token)

\* A request: its prompt; its adapters, 0: it names none; the requests it shares its
\* prompt with (n_cmpl), 0: none; the slot it asks for, 0: any; n_predict, n_keep,
\* cache_prompt.
Task == [tokens : Tokens, lora : Nat, parent : Nat, slot : Nat, predict : Nat, keep : Nat,
         cache : BOOLEAN]

ASSUME BatchAssumption ==
    /\ NSlots \in Nat \ {0} /\ NBatch \in Nat \ {0} /\ NSlots * (MaxDraft + 1) <= NBatch
    /\ NCtx \in Nat /\ NCtx > 4
    /\ Eos \in Token /\ Wrong \notin Token
    /\ \A u \in Setups :
          /\ u.tasks \in Seq(Task)
          /\ {u.full, u.spec, u.shift, u.unified} \subseteq BOOLEAN

VARIABLES
    setup,          \* tasks; full: the memory is recurrent, or in part (hybrid); spec: drafts
                    \* are made; shift: --context-shift; unified: --kv-unified, of a memory
                    \* that has KV cells, all for one; idle: --cache-idle-slots;
                    \* cached: room of the prompt cache, 0: none; reuse: n_cache_reuse;
                    \* failures, cancels: how often a decode fails, a client leaves (bounds)
    slots,          \* [Slot -> SlotRecord]
    released,       \* the slots in the order of t_last_used
    prompt_cache,   \* sequence of [prompt, checkpoints, kv]
    waiting,        \* requests without a slot
    deferred,       \* those among them that wait for a slot to be released
    pc, cur,        \* "idle", "generate", "prompt", "decode", "sample"
    batch,          \* sequence of [slot, tok, pos]
    slot_batched,   \* a slot, or 0
    off, view,      \* the view: off, and how many tokens were evaluated
    n_batch,        \* the size of the next view
    output,         \* [task -> tokens sent]
    ended,          \* [task -> how it ended, "" while it has not]
    aborted,        \* a GGML_ASSERT or GGML_ABORT ends the process
    cut             \* history: tasks whose context has been full: cut, or shifted

scheduling == <<waiting, deferred, prompt_cache>>
filling == <<batch, slot_batched>>
viewing == <<off, view, n_batch>>
vars == <<setup, slots, released, scheduling, pc, cur, filling, viewing, output, ended,
          aborted, cut>>

-----------------------------------------------------------------------------
(* Slots                                                                   *)

\* prompt, checkpoints: slot.prompt; kv: its sequence in the memory of the context.
SlotRecord(x) ==
    /\ x.state \in {"idle", "wait_other", "started", "processing", "done_prompt", "generating"}
    /\ x.task \in {0} \cup DOMAIN setup.tasks /\ x.lora \in Nat
    /\ x.prompt \in Tokens /\ Len(x.prompt) <= NCtx
    /\ \A i \in DOMAIN x.kv : i \in 0 .. NCtx - 1 /\ x.kv[i] \in (Token \cup {Wrong}) \X Nat
    /\ Len(x.checkpoints) <= MaxCheckpoints
    /\ x.sampled \in Token \cup {Wrong} /\ x.n_decoded \in Nat
    /\ x.i_batch \in -1 .. NBatch - 1
    /\ Len(x.spec_draft) <= MaxDraft + 1 /\ Len(x.spec_i_batch) \in {0, Len(x.spec_draft) + 1}

Init ==
    /\ setup \in Setups
    /\ slots = [s \in Slot |->
          [state |-> "idle", task |-> 0, lora |-> 0, prompt |-> <<>>, checkpoints |-> <<>>,
           kv |-> <<>>, sampled |-> Eos, n_decoded |-> 0, i_batch |-> -1,
           spec_draft |-> <<>>, spec_i_batch |-> <<>>, spec_ckpt |-> [n_tokens |-> 0, kv |-> <<>>]]]
    /\ released = <<>> /\ prompt_cache = <<>>
    /\ waiting = DOMAIN setup.tasks /\ deferred = {}
    /\ pc = "idle" /\ cur = 1
    /\ batch = <<>> /\ slot_batched = 0
    /\ off = 0 /\ view = 0 /\ n_batch = NBatch
    /\ output = [t \in DOMAIN setup.tasks |-> <<>>]
    /\ ended = [t \in DOMAIN setup.tasks |-> ""]
    /\ aborted = FALSE /\ cut = {}

T(s) == setup.tasks[slots[s].task]
Processing(s) == slots[s].state # "idle"
Idle == {s \in Slot : ~Processing(s)}
ChildrenOf(t) == {u \in DOMAIN setup.tasks : setup.tasks[u].parent = t}
IsChild(t) == setup.tasks[t].parent # 0
\* mutant: whatever the adapters are
CanBatchWithAny(s, z) == TRUE
CanBatchWith(s, z) == slots[s].lora = slots[z].lora

\* mutant: the prompt outlives its memory
PromptKept(x) == [x EXCEPT !.kv = <<>>, !.checkpoints = <<>>]
PromptClear(x) == [x EXCEPT !.kv = <<>>, !.prompt = <<>>, !.checkpoints = <<>>]

\* release() and reset(): the slot keeps its prompt for the next task, unless it had it
\* from a parent.
Freed(x) ==
    LET y == [x EXCEPT !.state = "idle", !.task = 0, !.spec_draft = <<>>, !.spec_i_batch = <<>>,
                       !.spec_ckpt = [n_tokens |-> 0, kv |-> <<>>]]
    IN IF IsChild(x.task) THEN PromptClear(y) ELSE y

\* Slot s ends as x, after a result or an error; every release lets deferred tasks try
\* again.
Release(s, x, how) ==
    /\ slots' = [slots EXCEPT ![s] = Freed(x)]
    /\ released' = Append(SelectSeq(released, LAMBDA z : z # s), s)
    /\ ended' = [ended EXCEPT ![x.task] = how]
    /\ deferred' = {}
Keep(s, x) ==
    /\ slots' = [slots EXCEPT ![s] = x]
    /\ UNCHANGED <<released, ended, deferred>>

\* send_error to all that are being processed, their sequences forgotten
FailAll ==
    /\ slots' = [s \in Slot |-> IF Processing(s) THEN PromptClear(Freed(slots[s])) ELSE slots[s]]
    /\ released' = SelectSeq(released, LAMBDA z : ~Processing(z))
                   \o SetToSortSeq(Slot \ Idle, LAMBDA a, b : a < b)
    /\ ended' = [t \in DOMAIN ended |-> IF \E s \in Slot : slots[s].task = t THEN "error" ELSE ended[t]]
    /\ deferred' = {}

-----------------------------------------------------------------------------
(* Tasks: get_available_slot, process_single_task, launch_slot_with_task   *)

Lcp(t, s) == CommonPrefix(slots[s].prompt, setup.tasks[t].tokens)
\* slot_prompt_similarity is 0.1.
Similar(t) == {s \in Idle : /\ setup.tasks[t].slot \in {0, s}
                            /\ 10 * Lcp(t, s) > Len(setup.tasks[t].tokens)}
BySimilarity(t) ==
    CHOOSE s \in Similar(t) :
        \A z \in Similar(t) : Lcp(t, z) < Lcp(t, s) \/ (Lcp(t, z) = Lcp(t, s) /\ s <= z)
ByAge ==
    LET fresh == Idle \ ToSet(released)
        old == SelectSeq(released, LAMBDA s : s \in Idle)
    IN IF fresh # {} THEN Max(fresh) ELSE IF old # <<>> THEN Head(old) ELSE 0

\* The slot for task t, or 0.  A slot that is asked for may be busy.
Available(t) ==
    IF Similar(t) # {} THEN BySimilarity(t)
    ELSE IF setup.tasks[t].slot # 0 THEN setup.tasks[t].slot ELSE ByAge
\* Whether the prompt of the slot is saved, and one that fits better is loaded
UpdatesCache(t) ==
    /\ setup.cached > 0 /\ Available(t) # 0
    /\ \/ Similar(t) = {} /\ setup.tasks[t].slot = 0
       \/ 2 * (IF Similar(t) = {} THEN 0 ELSE Lcp(t, Available(t))) < Len(slots[Available(t)].prompt)
Entry(x) == [prompt |-> x.prompt, checkpoints |-> x.checkpoints, kv |-> x.kv]
Load(x, e) == [x EXCEPT !.prompt = e.prompt, !.checkpoints = e.checkpoints, !.kv = e.kv]

\* launch_slot_with_task: with other adapters than the task before, the prompt is of no
\* use; a task that names none gets those of the server.
Launched(x, t) ==
    LET lora == setup.tasks[t].lora
        useless == lora # 0 /\ lora # x.lora
    IN [x EXCEPT !.state = IF IsChild(t) THEN "wait_other" ELSE "started", !.task = t,
                 !.lora = lora, !.prompt = IF useless THEN <<>> ELSE @,
                 !.checkpoints = IF useless THEN <<>> ELSE @]

\* cache_idle_slots: the slots that are idle after the launch are saved, and cleared if
\* the memory is one for all.
SaveIdle(cache, after) ==
    FoldLeft(LAMBDA c, s : IF after[s].state = "idle" THEN Save(c, Entry(after[s]), setup.cached) ELSE c,
             cache, [s \in Slot |-> s])
ClearIdle(after) ==
    [s \in Slot |-> IF after[s].state = "idle" /\ setup.unified THEN PromptClear(after[s]) ELSE after[s]]

Launch(t) ==
    LET s == Available(t)
        saved == IF UpdatesCache(t) THEN Save(prompt_cache, Entry(slots[s]), setup.cached) ELSE prompt_cache
        i == IF UpdatesCache(t) THEN Best(saved, slots[s].prompt, setup.tasks[t].tokens) ELSE 0
        cache == IF i = 0 THEN saved ELSE RemoveAt(saved, i)
        ready == IF i = 0 THEN slots ELSE [slots EXCEPT ![s] = Load(@, saved[i])]
        kids == SetToSortSeq(ChildrenOf(t), LAMBDA a, b : a < b)
        others == SetToSortSeq(Idle \ {s}, LAMBDA a, b : a < b)
        Family(z) == IF z = s THEN t ELSE kids[CHOOSE k \in DOMAIN kids : others[k] = z]
        taken == {s} \cup {others[k] : k \in DOMAIN kids \cap DOMAIN others}
        after == [z \in Slot |-> IF z \in taken THEN Launched(ready[z], Family(z)) ELSE ready[z]]
    IN /\ pc = "idle" /\ ~aborted
       /\ t \in waiting \ deferred /\ ~IsChild(t)
       /\ IF s = 0 \/ s \notin Idle \/ Len(others) < Len(kids)
          THEN /\ deferred' = deferred \cup {t}
               /\ slots' = ready /\ prompt_cache' = cache
               /\ UNCHANGED waiting
          ELSE /\ waiting' = waiting \ ({t} \cup ChildrenOf(t))
               /\ IF setup.idle
                  THEN slots' = ClearIdle(after) /\ prompt_cache' = SaveIdle(cache, after)
                  ELSE slots' = after /\ prompt_cache' = cache
               /\ UNCHANGED deferred
       /\ UNCHANGED <<setup, released, pc, cur, filling, viewing, output, ended, aborted, cut>>

\* A CANCEL: the client leaves, or reads no further after one of its tasks failed.
Siblings(t) == IF IsChild(t) THEN {setup.tasks[t].parent} \cup ChildrenOf(setup.tasks[t].parent)
               ELSE ChildrenOf(t)
Cancel(t) ==
    /\ pc = "idle" /\ ~aborted
    /\ \/ setup.cancels > 0 /\ setup' = [setup EXCEPT !.cancels = @ - 1]
       \/ (\E u \in Siblings(t) : ended[u] \in {"error", "cancelled"}) /\ UNCHANGED setup
    /\ \E s \in Slot : slots[s].task = t /\ Release(s, slots[s], "cancelled")
    /\ UNCHANGED <<waiting, prompt_cache, pc, cur, filling, viewing, output, aborted, cut>>

-----------------------------------------------------------------------------
(* An update: pre_decode                                                   *)

\* The loop pc is done with slot cur.
Advance(next) ==
    /\ cur' = IF cur < NSlots THEN cur + 1 ELSE 1
    /\ pc' = IF cur < NSlots THEN pc ELSE next

StartUpdate ==
    /\ pc = "idle" /\ ~aborted /\ Idle # Slot
    /\ pc' = "generate" /\ cur' = 1
    /\ batch' = <<>> /\ slot_batched' = 0
    /\ UNCHANGED <<setup, slots, released, scheduling, viewing, output, ended, aborted, cut>>

ContextFull(x) == Len(x.prompt) + 1 >= NCtx

\* x, after tokens were taken out of the middle of its sequence.  A recurrent memory has one
\* state for all tokens: seq_rm and seq_add of such a range succeed (get_can_shift is true),
\* but only the position follows, and the state has still seen the tokens that were removed.
Torn(x) ==
    IF setup.full THEN [x EXCEPT !.kv = [p \in DOMAIN x.kv |-> <<Wrong, x.kv[p][2]>>]] ELSE x

\* Context shift: half of what follows the first n_keep tokens is discarded.
Shifted(x) ==
    LET keep == Min({NCtx - 4, setup.tasks[x.task].keep})
        left == Len(x.prompt) - keep
        discard == Min({left \div 2, Max({0, left - 1})})
    IN Torn([x EXCEPT !.kv = Moved(RmRange(@, keep, keep + discard), keep + discard, Len(x.prompt), -discard),
                      !.prompt = SubSeq(@, 1, keep) \o SubSeq(@, keep + discard + 1, Len(@)),
                      !.checkpoints = <<>>])

\* What may be drafted: a draft that was accepted in part is used again.
NDraftMax(x) == Min({NCtx - Len(x.prompt) - 2, setup.tasks[x.task].predict - x.n_decoded - 1})
Drafts(x) ==
    IF x.spec_draft # <<>> THEN {x.spec_draft}
    ELSE IF ~setup.spec THEN {<<>>}
    ELSE UNION {[1 .. n -> Token] : n \in 0 .. Min({MaxDraft, Max({0, NDraftMax(x)})})}

Entries(s, tokens, pos) == [i \in DOMAIN tokens |-> [slot |-> s, tok |-> tokens[i], pos |-> pos + i - 1]]

\* handle_last_sampled_token, the checkpoint of the draft being made before
Drafted(x, draft) ==
    [x EXCEPT !.prompt = @ \o <<x.sampled>> \o draft,
              !.i_batch = IF draft = <<>> THEN Len(batch) ELSE @,
              !.spec_i_batch = IF draft = <<>> THEN <<>> ELSE [i \in 1 .. Len(draft) + 1 |-> Len(batch) + i - 1],
              !.spec_draft = draft,
              !.spec_ckpt = IF setup.full /\ draft # <<>> /\ x.spec_draft = <<>>
                            THEN [n_tokens |-> Len(x.prompt), kv |-> x.kv] ELSE @]

Generate(s) ==
    LET x == IF ContextFull(slots[s]) THEN Shifted(slots[s]) ELSE slots[s]
        shared == IsChild(slots[s].task) \/ ChildrenOf(slots[s].task) # {}
    IN /\ pc = "generate" /\ cur = s
       /\ \/ /\ slots[s].state # "generating"
             /\ Keep(s, slots[s])
             /\ UNCHANGED <<filling, cut>>
          \/ /\ slots[s].state = "generating"
             /\ ContextFull(slots[s]) /\ (shared \/ ~setup.shift)
             /\ Release(s, slots[s], "error")
             /\ UNCHANGED <<filling, cut>>
          \/ /\ slots[s].state = "generating"
             /\ ContextFull(slots[s]) => ~shared /\ setup.shift
             /\ cut' = IF ContextFull(slots[s]) THEN cut \cup {x.task} ELSE cut
             /\ IF slot_batched = 0 \/ CanBatchWith(slot_batched, s)
                THEN /\ \E draft \in Drafts(x) :
                           /\ Keep(s, Drafted(x, draft))
                           /\ batch' = batch \o Entries(s, <<x.sampled>> \o draft, Len(x.prompt))
                     /\ slot_batched' = IF slot_batched = 0 THEN s ELSE slot_batched
                ELSE Keep(s, x) /\ UNCHANGED filling
       /\ Advance("prompt")
       /\ UNCHANGED <<setup, waiting, prompt_cache, viewing, output, aborted>>

\* A slot that has just started: what of its prompt need not be processed again.  n is the
\* part in common; a recurrent memory that is further than that goes back to a checkpoint
\* [n_tokens, pos, task, kv], the last that is of use, or to nothing.
\* mutant: without the token that has to be evaluated
ThresholdOfAll(n, tokens) == n
Threshold(n, tokens) == Max({0, n - (IF n < Len(tokens) THEN 0 ELSE 1)})
Usable(x, n, tokens) ==
    SelectSeq(x.checkpoints, LAMBDA c : c.pos <= n /\ (c.pos < Threshold(n, tokens) \/ c.pos = 0))
Valid(checkpoints, pos_next) == SelectSeq(checkpoints, LAMBDA c : c.pos <= pos_next)
GoneTo(x, pos_next, n) ==
    [x EXCEPT !.prompt = SubSeq(@, 1, n), !.checkpoints = Valid(@, pos_next)]

Reused(x) ==
    LET t == setup.tasks[x.task]
        n == IF t.cache THEN CommonPrefix(x.prompt, t.tokens) ELSE 0
        r == Reuse([kv |-> x.kv, prompt |-> x.prompt, c |-> n, p |-> n], t.tokens, setup.reuse)
    IN IF t.cache /\ setup.reuse > 0 /\ r.p > n
       THEN [at |-> r.p, x |-> Torn([x EXCEPT !.kv = r.kv, !.prompt = r.prompt])]
       ELSE [at |-> n, x |-> x]

Started(y, n, tokens) ==
    LET behind == n > 0 /\ n <= Len(y.prompt) /\ PosMin(y.kv, setup.full) >= Threshold(n, tokens)
        usable == Usable(y, n, tokens)
        c == Last(usable)
        pos_next == Min({n, c.pos + 1})
        \* at least one token has to be evaluated
        Some(k) == IF k = Len(tokens) THEN k - 1 ELSE k
    IN IF ~behind THEN GoneTo(y, n, Some(n))
       ELSE IF usable = <<>> THEN GoneTo(y, 0, 0)
       ELSE GoneTo([y EXCEPT !.kv = c.kv], pos_next, Some(Min({pos_next, c.n_tokens})))

\* How many tokens of the prompt go into this batch: for checkpoints, the last few of them
\* are left for later batches.
Checkpoints == setup.full /\ MaxCheckpoints > 0
NextTokens(left) ==
    Min({Max({0, left}), NBatch - Len(batch)}
        \cup {k \in 1 .. left : Checkpoints /\ \E o \in CheckpointOffsets : left - k = Min({NBatch, o})})

\* create_checkpoint, before the tokens of this batch are decoded
Thinned(checkpoints, t) ==
    FoldLeft(LAMBDA kept, c : IF /\ c.task # t /\ kept # <<>>
                                 /\ c.n_tokens <= Last(kept).n_tokens + CheckpointStep
                              THEN kept ELSE Append(kept, c), <<>>, checkpoints)
Checkpointed(x) ==
    LET all == Append(Thinned(x.checkpoints, x.task),
                      [n_tokens |-> Len(x.prompt), pos |-> PosMax(x.kv), task |-> x.task, kv |-> x.kv])
    IN [x EXCEPT !.checkpoints = SubSeq(all, Max({1, Len(all) - MaxCheckpoints + 1}), Len(all))]

\* x, of which the memory holds what it needs, with its next n tokens in the batch
Filled(x, n) ==
    LET tokens == setup.tasks[x.task].tokens
        to == Len(x.prompt) + n
        y == IF Checkpoints /\ Len(tokens) < to + NUbatch /\ DOMAIN x.kv # {} THEN Checkpointed(x) ELSE x
        next == y.prompt \o SubSeq(tokens, Len(x.prompt) + 1, to)
    IN IF to # Len(tokens) THEN [y EXCEPT !.state = "processing", !.prompt = next]
       ELSE [y EXCEPT !.state = "done_prompt", !.prompt = next, !.n_decoded = 0,
                      !.i_batch = Len(batch) + n - 1]

FillPrompt(s, x) ==
    LET tokens == setup.tasks[x.task].tokens
        at == Len(x.prompt)
        n == NextTokens(Len(tokens) - at)
    IN IF CanRmFrom(x.kv, at, setup.full)
       THEN /\ Keep(s, Filled([x EXCEPT !.kv = RmFrom(@, at)], n))
            /\ batch' = batch \o Entries(s, SubSeq(tokens, at + 1, at + n), at)
            /\ slot_batched' = IF slot_batched = 0 THEN s ELSE slot_batched
            /\ UNCHANGED aborted
       ELSE /\ aborted' = TRUE
            /\ Keep(s, slots[s]) /\ UNCHANGED filling

\* The second loop of pre_decode
SkipsPrompt(s) ==
    \/ Len(batch) >= NBatch
    \/ slots[s].state \in {"idle", "wait_other"}
    \/ slot_batched # 0 /\ ~CanBatchWith(slot_batched, s)
Prompt(s) ==
    LET tokens == T(s).tokens
    IN /\ pc = "prompt" /\ cur = s /\ ~aborted
       /\ CASE SkipsPrompt(s) -> Keep(s, slots[s]) /\ UNCHANGED <<filling, aborted>>
            [] ~SkipsPrompt(s) /\ slots[s].state \in {"generating", "done_prompt"} ->
                  /\ slot_batched' = IF slot_batched = 0 THEN s ELSE slot_batched
                  /\ Keep(s, slots[s]) /\ UNCHANGED <<batch, aborted>>
            [] ~SkipsPrompt(s) /\ slots[s].state = "started" /\ tokens = <<>> ->
                  Release(s, slots[s], "empty") /\ UNCHANGED <<filling, aborted>>
            [] ~SkipsPrompt(s) /\ slots[s].state = "started" /\ Len(tokens) >= NCtx ->
                  Release(s, slots[s], "error") /\ UNCHANGED <<filling, aborted>>
            [] ~SkipsPrompt(s) /\ slots[s].state = "started" /\ Len(tokens) \in 1 .. NCtx - 1 ->
                  \E r \in {Reused(slots[s])} :
                     \* GGML_ABORT("pos_min == -1, but n_past > 0 ...")
                     IF r.at \in 1 .. Len(r.x.prompt) /\ DOMAIN r.x.kv = {}
                     THEN aborted' = TRUE /\ Keep(s, slots[s]) /\ UNCHANGED filling
                     ELSE \E x \in {Started(r.x, r.at, tokens)} : FillPrompt(s, x)
            [] ~SkipsPrompt(s) /\ slots[s].state = "processing" -> FillPrompt(s, slots[s])
       /\ Advance(IF batch' = <<>> THEN "idle" ELSE "decode")
       /\ off' = 0 /\ n_batch' = NBatch /\ view' = 0
       /\ UNCHANGED <<setup, waiting, prompt_cache, output, cut>>

-----------------------------------------------------------------------------
(* An update: decode                                                       *)

NextView == SubSeq(batch, off + 1, Min({off + n_batch, Len(batch)}))
Positions(s, entries) == {entries[i].pos : i \in {j \in DOMAIN entries : entries[j].slot = s}}

\* The check of llama_decode: every sequence continues where its memory ends.
Consecutive(entries) ==
    \A s \in {entries[i].slot : i \in DOMAIN entries} :
        LET new == Positions(s, entries)
            last == PosMax(slots[s].kv)
        IN /\ last >= 0 => Min(new) = last + 1
           /\ Max(new) - Min(new) + 1 = Cardinality(new)
\* The KV cells are those of all slots if the memory is unified.
Used == FoldSet(LAMBDA s, n : Cardinality(DOMAIN slots[s].kv) + n, 0, Slot)
Fits(entries) == setup.unified => Used + Len(entries) <= NCtx

\* All tokens of a batch are decoded with the adapters of slot_batched.
Decoded(x, s, entries) ==
    LET new == Positions(s, entries)
        Tok(p) == entries[CHOOSE i \in DOMAIN entries : entries[i].slot = s /\ entries[i].pos = p].tok
    IN [x EXCEPT !.kv = [p \in DOMAIN @ \cup new |->
                           IF p \in new THEN <<Tok(p), slots[slot_batched].lora>> ELSE @[p]]]

\* copy_state_to: the requests that share the prompt go on from it.
ParentOf(s) == {p \in Slot : /\ slots[s].state = "wait_other" /\ slots[p].state = "done_prompt"
                             /\ setup.tasks[slots[s].task].parent = slots[p].task}
Copied(child, parent) ==
    [child EXCEPT !.state = "done_prompt", !.kv = parent.kv, !.prompt = parent.prompt,
                  !.checkpoints = parent.checkpoints, !.n_decoded = parent.n_decoded,
                  !.i_batch = parent.i_batch]

Decode ==
    /\ pc = "decode" /\ Consecutive(NextView) /\ Fits(NextView)
    /\ LET after == [s \in Slot |-> Decoded(slots[s], s, NextView)]
       IN slots' = [s \in Slot |-> IF ParentOf(s) = {} THEN after[s]
                                   ELSE Copied(after[s], after[CHOOSE p \in ParentOf(s) : TRUE])]
    /\ view' = Len(NextView) /\ n_batch' = NBatch
    /\ pc' = "sample" /\ cur' = 1
    /\ UNCHANGED <<setup, released, scheduling, filling, off, output, ended, aborted, cut>>

\* mutant: not below the size of a ubatch
SmallerToUbatch(n) == Max({n \div 2, NUbatch})
Smaller(n) == n \div 2
\* Not enough room: an idle slot is cleared, or the next view is smaller.
Purgeable == {s \in Idle : setup.unified /\ slots[s].prompt # <<>>}
DecodeLess ==
    /\ pc = "decode" /\ Consecutive(NextView) /\ ~Fits(NextView) /\ n_batch > 1
    /\ IF Purgeable # {}
       THEN /\ slots' = [slots EXCEPT ![Min(Purgeable)] = PromptClear(@)]
            /\ UNCHANGED n_batch
       ELSE n_batch' = Smaller(n_batch) /\ UNCHANGED slots
    /\ UNCHANGED <<setup, released, scheduling, pc, cur, filling, off, view, output, ended,
                   aborted, cut>>

\* "Invalid input batch.", "Context size has been exceeded.", "Compute error."
DecodeFails ==
    /\ pc = "decode"
    /\ \/ ~Consecutive(NextView) /\ UNCHANGED setup
       \/ Consecutive(NextView) /\ ~Fits(NextView) /\ n_batch = 1 /\ UNCHANGED setup
       \/ setup.failures > 0 /\ setup' = [setup EXCEPT !.failures = @ - 1]
    /\ FailAll
    /\ pc' = "idle" /\ cur' = 1
    /\ UNCHANGED <<waiting, prompt_cache, filling, viewing, output, aborted, cut>>

-----------------------------------------------------------------------------
(* An update: post_decode                                                  *)

Inside(i) == off <= i /\ i < off + view

\* What the network makes of the i-th token of the batch: nothing sensible, if the memory
\* has not all tokens before it, or others.
Sampled(i) ==
    LET e == batch[i + 1]
        kv == slots[e.slot].kv
        before == [p \in 1 .. e.pos + 1 |-> kv[p - 1][1]]
    IN IF \A p \in 0 .. e.pos : p \in DOMAIN kv /\ kv[p][1] # Wrong /\ kv[p][2] = kv[e.pos][2]
       THEN Continue(before, kv[e.pos][2]) ELSE Wrong

\* process_token for each of ids, until one of them is the last: x has all their
\* predecessors in its prompt.
Ends(x, id, n) ==
    \/ ~setup.shift /\ ContextFull(x)
    \/ n >= setup.tasks[x.task].predict
    \/ id = Eos
Send(s, x, ids) ==
    LET t == x.task
        ends == {i \in DOMAIN ids : Ends(x, ids[i], x.n_decoded + i)}
        n == IF ends = {} THEN Len(ids) ELSE Min(ends)
    IN /\ output' = [output EXCEPT ![t] = @ \o SubSeq(ids, 1, n)]
       /\ cut' = IF ~setup.shift /\ ContextFull(x) THEN cut \cup {t} ELSE cut
       /\ IF ends = {} THEN Keep(s, [x EXCEPT !.n_decoded = @ + n, !.sampled = Last(ids)])
          ELSE Release(s, x, "done")

\* common_sampler_sample_and_accept_n: the tokens up to the first that was not drafted
Accepted(x) ==
    LET n == Len(x.spec_draft)
        agreed == {i \in 0 .. n : \A j \in 1 .. i : Sampled(x.spec_i_batch[j]) = x.spec_draft[j]}
    IN [j \in 1 .. Max(agreed) + 1 |-> Sampled(x.spec_i_batch[j])]

\* A recurrent memory goes back to the checkpoint, to decode the accepted part again.
AcceptDraft(s, x) ==
    LET ids == Accepted(x)
        n == Len(x.prompt) - Len(x.spec_draft) + Len(ids) - 1
        y == [x EXCEPT !.spec_i_batch = <<>>]
    IN IF setup.full /\ Len(ids) <= Len(x.spec_draft)
       THEN /\ Keep(s, [y EXCEPT !.spec_draft = ids, !.kv = x.spec_ckpt.kv,
                                 !.prompt = SubSeq(@, 1, x.spec_ckpt.n_tokens)])
            /\ UNCHANGED <<output, cut>>
       ELSE Send(s, [y EXCEPT !.spec_draft = <<>>, !.kv = RmFrom(@, n), !.prompt = SubSeq(@, 1, n)], ids)

Outside(x) == \E j \in DOMAIN x.spec_i_batch : ~Inside(x.spec_i_batch[j])
SamplesOne(x) ==
    ~Outside(x) /\ Inside(x.i_batch) /\ x.state \in {"done_prompt", "generating"} /\ x.spec_draft = <<>>
SamplesDraft(x) == ~Outside(x) /\ x.state = "generating" /\ x.spec_draft # <<>>

Sample(s) ==
    LET x == slots[s]
        more == off + view < Len(batch)
    IN /\ pc = "sample" /\ cur = s /\ ~aborted
       /\ \/ /\ Outside(x)
             /\ Release(s, x, "error") /\ UNCHANGED <<output, cut, aborted>>
          \/ /\ SamplesOne(x)
             /\ Send(s, [x EXCEPT !.state = "generating", !.i_batch = -1], <<Sampled(x.i_batch)>>)
             /\ UNCHANGED aborted
          \/ /\ SamplesDraft(x)
             \* GGML_ASSERT(slot.spec_i_batch.size() == n_draft + 1)
             /\ aborted' = (x.spec_i_batch = <<>>)
             /\ IF aborted' THEN Keep(s, x) /\ UNCHANGED <<output, cut>> ELSE AcceptDraft(s, x)
          \/ /\ ~Outside(x) /\ ~SamplesOne(x) /\ ~SamplesDraft(x)
             /\ Keep(s, x) /\ UNCHANGED <<output, cut, aborted>>
       /\ Advance(IF more THEN "decode" ELSE "idle")
       /\ off' = IF cur = NSlots THEN off + view ELSE off
       /\ UNCHANGED <<setup, waiting, prompt_cache, filling, view, n_batch>>

-----------------------------------------------------------------------------

Update ==
    \/ StartUpdate \/ Decode \/ DecodeLess \/ DecodeFails
    \/ \E s \in Slot : Generate(s) \/ Prompt(s) \/ Sample(s)

\* The process ends, or has nothing more to do.
Rest ==
    /\ aborted \/ (pc = "idle" /\ Idle = Slot /\ waiting = {})
    /\ UNCHANGED vars

Next ==
    \/ Update
    \/ \E t \in DOMAIN setup.tasks : Launch(t) \/ Cancel(t)
    \/ Rest

Spec == Init /\ [][Next]_vars

\* The thread goes on, and takes its tasks between updates; the reader of a client cancels
\* what remains when one of its tasks has failed.  A decode need not fail.
Fairness ==
    /\ WF_vars(Update)
    /\ SF_vars(\E t \in DOMAIN setup.tasks : Launch(t))
    /\ SF_vars(\E t \in DOMAIN setup.tasks : Cancel(t) /\ setup' = setup)
FairSpec == Spec /\ Fairness

-----------------------------------------------------------------------------
(* Properties                                                              *)

\* Types of the state of update_slots() and of the slots.
TypeOK ==
    /\ \A s \in Slot : SlotRecord(slots[s])
    /\ released \in Seq(Slot) /\ Len(prompt_cache) <= setup.cached
    /\ deferred \subseteq waiting /\ waiting \subseteq DOMAIN setup.tasks
    /\ pc \in {"idle", "generate", "prompt", "decode", "sample"} /\ cur \in Slot
    /\ Len(batch) <= NBatch /\ slot_batched \in {0} \cup Slot
    /\ off \in 0 .. NBatch /\ view \in 0 .. NBatch /\ n_batch \in 1 .. NBatch
    /\ \A t \in DOMAIN output : Len(output[t]) <= setup.tasks[t].predict
    /\ aborted \in BOOLEAN /\ cut \subseteq DOMAIN setup.tasks

\* A checkpoint that is kept is one of the prompt of its slot: going back to it leaves
\* the memory as it was after the first n_tokens tokens.
CheckpointsOfPrompt ==
    pc = "idle" => \A s \in Slot : \A i \in DOMAIN slots[s].checkpoints :
        LET c == slots[s].checkpoints[i]
        IN c.n_tokens <= Len(slots[s].prompt) /\ DOMAIN c.kv = 0 .. c.n_tokens - 1
           /\ Holds(c.kv, SubSeq(slots[s].prompt, 1, c.n_tokens))

\* Between updates, what a slot, its checkpoints and the prompt cache say is in the memory
\* is there, decoded with one set of adapters; a slot that generates has nothing else.
CacheIsTrue ==
    /\ TypeOK /\ CheckpointsOfPrompt
    /\ pc = "idle" => \A s \in Slot :
          /\ Holds(slots[s].kv, slots[s].prompt)
          /\ slots[s].state = "generating" => slots[s].kv = Cells(slots[s].prompt, slots[s].lora)
    /\ \A i \in DOMAIN prompt_cache : Holds(prompt_cache[i].kv, prompt_cache[i].prompt)

\* What is left of the batch continues the memory of every sequence in it: llama_decode
\* never says "Invalid input batch."
BatchContinuesMemory ==
    pc = "decode" => Consecutive(SubSeq(batch, off + 1, Len(batch)))

\* Neither an assertion nor an abort of the update is reached, nor a batch that is refused.
NothingAborts == ~aborted /\ BatchContinuesMemory

\* A request that is deferred leaves the slots that are being processed alone.
DeferredTouchesNoBusySlot ==
    [][deferred' \ deferred # {} => \A s \in Slot : Processing(s) => slots'[s] = slots[s]]_vars

\* Every request comes to an end.
EveryRequestEnds == <>(\A t \in DOMAIN ended : ended[t] # "")

\* The answers are those of a server that has no cache, batch or draft.
Completions == INSTANCE GreedyCompletions WITH tasks <- setup.tasks, full <- cut
Refines == Completions!GreedySpec

=============================================================================
