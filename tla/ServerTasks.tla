----------------------------- MODULE ServerTasks -----------------------------
(***************************************************************************)
(* How a request travels through the server: an HTTP thread posts its      *)
(* tasks through a server_response_reader, the main loop takes them from   *)
(* server_queue, gives them slots or defers them, update_slots produces    *)
(* results, the reader receives them or gives up and cancels               *)
(* (tools/server/server-queue.cpp, tools/server/server-context.cpp).       *)
(*                                                                         *)
(* Slots, cur and ops belong to the main thread alone; the two queues and  *)
(* the results are shared, and every step below makes at most one critical *)
(* section on each.  What process_single_task and update_slots do to the   *)
(* slots is computed in one step and the calls they make on the shared     *)
(* structures are left, in program order, in ops: another thread may run   *)
(* between any two of them, and between taking a task and deferring it.    *)
(***************************************************************************)
EXTENDS ServerQueue, ServerResponse, FiniteSets

CONSTANTS
    Request,        \* one reader (one HTTP request) each
    TasksOf,        \* [Request -> Seq(Task)]: the vector it posts
    ChildTasks,     \* [Task -> Seq(Task)]: n_cmpl > 1 children inside a parent
    Kind,           \* [Task -> "completion" | "slotop" | "query"]
    BatchGroup,     \* [Task -> ...]: what can_batch_with compares
    NSlots,         \* --parallel
    NPrompt,        \* batches a prompt takes at most (bound)
    NPredict,       \* tokens a completion generates at most (n_predict, bound)
    Streaming,      \* the tasks with params.stream
    Rejected,       \* the tasks launch_slot_with_task, or a slot action, may refuse
    Refusable,      \* the tasks pre_decode may refuse: prompt too long, or a
                    \* shared prompt that would need a context shift
    DecodeMayFail,  \* whether llama_decode may fail fatally
    MayLeave        \* the requests whose client may disconnect

Slot == 0 .. (NSlots - 1)

\* server_task::get_list_id: the tasks of the vector and their children.
IdsOf(r) == UNION {{t} \cup ToSet(ChildTasks[t]) : t \in ToSet(TasksOf[r])}

ParentOf(t) ==
    IF \E p \in Task : t \in ToSet(ChildTasks[p])
    THEN CHOOSE p \in Task : t \in ToSet(ChildTasks[p]) ELSE NoTask

IsParent(t) == ChildTasks[t] # <<>>
IsChild(t)  == ParentOf(t) # NoTask

\* Ids are unique (get_new_id), belong to one reader, and are handed out once: to a
\* task of a vector or to a child of one, which has no children itself (add_child).
ASSUME RequestAssumption ==
    /\ NSlots \in Nat \ {0} /\ NPrompt \in Nat \ {0} /\ NPredict \in Nat \ {0}
    /\ TasksOf \in [Request -> Seq(Task)]
    /\ ChildTasks \in [Task -> Seq(Task)]
    /\ Kind \in [Task -> {"completion", "slotop", "query"}]
    /\ \A r1, r2 \in Request : r1 # r2 => IdsOf(r1) \cap IdsOf(r2) = {}
    /\ \A r \in Request : IsInjective(TasksOf[r])
    /\ \A p \in Task : IsInjective(ChildTasks[p])
    /\ \A p \in Task : \A c \in ToSet(ChildTasks[p]) :
          /\ ~IsParent(c)
          /\ \A r \in Request : c \notin ToSet(TasksOf[r])
          /\ \A q \in Task \ {p} : c \notin ToSet(ChildTasks[q])
    /\ ResultTask = Task
    /\ Streaming \subseteq Task /\ Rejected \subseteq Task
    /\ Refusable \subseteq Task /\ MayLeave \subseteq Request
    /\ DecodeMayFail \in BOOLEAN
    \* one completion never wants more slots than there are, and slot actions
    \* name a slot: otherwise the request is malformed for this server
    /\ \A t \in Task : /\ Len(ChildTasks[t]) < NSlots
                       /\ Kind[t] = "slotop" => IdSlot[t] >= 0

VARIABLES
    slots,      \* [Slot -> [task, state, left]]
    main,       \* where start_loop is: "wait", "pop", "process", "update"
    cur,        \* the entry taken from the queue and not yet processed, if any
    ops,        \* the calls process_single_task / update_slots still make
    pc,         \* [Request -> where the HTTP thread is in the reader's life]
    received,   \* [Request -> received_count]
    delivered,  \* history: [Task -> the kinds of result next() returned for it]
    overtaken   \* history: the tasks the main loop was about to defer when their
                \* CANCEL was posted

mainVars == <<slots, main, cur, ops>>
readerVars == <<pc, received, delivered, overtaken>>
vars == <<queueVars, responseVars, mainVars, readerVars>>

SlotState == {"IDLE", "WAIT_OTHER", "PROMPT", "GENERATING"}
IdleSlot == [task |-> NoTask, state |-> "IDLE", left |-> 0]

Op == [op : {"next"}] \cup [op : {"defer"}, task : Task]
      \cup [op : {"popdef"}, slot : Slot] \cup [op : {"send"}, result : Result]

NextOp         == [op |-> "next"]
DeferOp(t)     == [op |-> "defer",  task |-> t]
PopDeferOp(s)  == [op |-> "popdef", slot |-> s]
SendOp(t, k)   == [op |-> "send",   result |-> [id |-> t, kind |-> k]]

ReaderPC == {"idle", "registered", "waiting", "stopping", "cancelling", "done"}

TypeOK ==
    /\ QueueTypeOK
    /\ ResponseTypeOK
    /\ slots \in [Slot -> [task : Task \cup {NoTask}, state : SlotState,
                           left : 0 .. (NPrompt + NPredict)]]
    /\ main \in {"wait", "pop", "process", "update"}
    /\ cur \in Entry
    /\ ops \in Seq(Op)
    /\ pc \in [Request -> ReaderPC]
    /\ received \in [Request -> Nat]
    /\ delivered \in [Task -> Seq(ResultKind)]
    /\ overtaken \subseteq Task

Init ==
    /\ QueueInit
    /\ ResponseInit
    /\ slots = [s \in Slot |-> IdleSlot]
    /\ main = "wait"
    /\ cur = NextEntry
    /\ ops = <<>>
    /\ pc = [r \in Request |-> "idle"]
    /\ received = [r \in Request |-> 0]
    /\ delivered = [t \in Task |-> <<>>]
    /\ overtaken = {}

IsProcessing(s) == slots[s].state # "IDLE"

-----------------------------------------------------------------------------
(* The HTTP threads: server_response_reader                                *)

\* post_task / post_tasks, first half: the ids are registered before the tasks
\* are posted, so that no result can be dropped.
Register(r) ==
    /\ pc[r] = "idle"
    /\ pc' = [pc EXCEPT ![r] = "registered"]
    /\ AddWaitingTaskIds(IdsOf(r))
    /\ UNCHANGED <<queueVars, mainVars, received, delivered, overtaken>>

\* post_task / post_tasks, second half; a query (metrics, slots) goes to the front.
PostTasks(r) ==
    /\ pc[r] = "registered"
    /\ pc' = [pc EXCEPT ![r] = "waiting"]
    /\ Post([i \in DOMAIN TasksOf[r] |-> TaskEntry(TasksOf[r][i])],
            \E t \in ToSet(TasksOf[r]) : Kind[t] = "query")
    /\ UNCHANGED <<responseVars, mainVars, received, delivered, overtaken>>

HasNext(r) == received[r] < Cardinality(IdsOf(r))

\* next(): an error stops the reader, a final result is counted; the reader is
\* destroyed (stop()) when there is no next.
Next_Receive(r) ==
    /\ pc[r] = "waiting"
    /\ TakeResult(IdsOf(r))
    /\ LET res == queue_results[FirstResultOf(IdsOf(r))]
           n   == received[r] + (IF res.kind = "final" THEN 1 ELSE 0)
       IN  /\ received' = [received EXCEPT ![r] = n]
           /\ delivered' = [delivered EXCEPT ![res.id] = Append(@, res.kind)]
           /\ pc' = [pc EXCEPT ![r] =
                        IF res.kind = "error" \/ n = Cardinality(IdsOf(r))
                        THEN "stopping" ELSE "waiting"]
    /\ UNCHANGED <<queueVars, mainVars, overtaken>>

\* recv_with_timeout timing out (even if a result arrived meanwhile: it is not
\* looked for again) with should_stop() true: next() returns null and the
\* handler destroys the reader.
Next_Timeout(r) ==
    /\ pc[r] = "waiting"
    /\ r \in MayLeave
    /\ pc' = [pc EXCEPT ![r] = "stopping"]
    /\ UNCHANGED <<queueVars, responseVars, mainVars, received, delivered, overtaken>>

\* stop(), on mutex_results: with tasks unfinished their results are dropped too.
\* (remove_waiting_task_ids and the remove_waiting_task_id calls that follow it
\* are one step: once an id is gone no result of it can be queued between them.)
Stop_Results(r) ==
    /\ pc[r] = "stopping"
    /\ IF HasNext(r)
       THEN /\ RemoveWaitingAndResults(IdsOf(r))
            /\ pc' = [pc EXCEPT ![r] = "cancelling"]
       ELSE /\ RemoveWaitingTaskIds(IdsOf(r))
            /\ pc' = [pc EXCEPT ![r] = "done"]
    /\ UNCHANGED <<queueVars, mainVars, received, delivered, overtaken>>

\* Taken from the queue, and neither deferred nor given a slot yet.
InHand(t) == cur = TaskEntry(t) \/ DeferOp(t) \in ToSet(ops)

Stop_CancelTopLevel(r) ==                \* mutant: the children are not cancelled
    /\ pc[r] = "cancelling"
    /\ pc' = [pc EXCEPT ![r] = "done"]
    /\ Post([i \in DOMAIN TasksOf[r] |-> CancelEntry(TasksOf[r][i])], TRUE)
    /\ overtaken' = overtaken \cup {t \in IdsOf(r) : InHand(t)}
    /\ UNCHANGED <<responseVars, mainVars, received, delivered>>

\* stop(), on mutex_tasks: one CANCEL per id, in the order of an unordered_set,
\* to the front of the queue.
Stop_Cancel(r) ==
    /\ pc[r] = "cancelling"
    /\ pc' = [pc EXCEPT ![r] = "done"]
    /\ \E ids \in SetToSeqs(IdsOf(r)) :
          Post([i \in DOMAIN ids |-> CancelEntry(ids[i])], TRUE)
    /\ overtaken' = overtaken \cup {t \in IdsOf(r) : InHand(t)}
    /\ UNCHANGED <<responseVars, mainVars, received, delivered>>

Reader(r) ==
    \/ Register(r) \/ PostTasks(r) \/ Next_Receive(r) \/ Next_Timeout(r)
    \/ Stop_Results(r) \/ Stop_Cancel(r)

-----------------------------------------------------------------------------
(* The main loop: server_queue::start_loop                                 *)

\* The next call on a shared structure that the running callback makes.
ExecOp ==
    /\ ops # <<>>
    /\ ops' = Tail(ops)
    /\ LET o == Head(ops)
       IN  \/ o.op = "next"   /\ Post(<<NextEntry>>, FALSE)    /\ UNCHANGED responseVars
           \/ o.op = "defer"  /\ Defer(TaskEntry(o.task))      /\ UNCHANGED responseVars
           \/ o.op = "popdef" /\ PopDeferredTask(o.slot)       /\ UNCHANGED responseVars
           \/ o.op = "send"   /\ Send(o.result)                /\ UNCHANGED queueVars
    /\ UNCHANGED <<slots, main, cur, readerVars>>

\* The wait ends as soon as a task is queued.
Loop_Wake ==
    /\ main = "wait" /\ ops = <<>>
    /\ queue_tasks # <<>>
    /\ main' = "pop"
    /\ UNCHANGED <<queueVars, responseVars, slots, cur, ops, readerVars>>

\* The inner loop takes the tasks one by one; when there is none left, the slots
\* are updated.
Loop_Pop ==
    /\ main = "pop" /\ ops = <<>>
    /\ \/ /\ TakeFront
          /\ cur' = Head(queue_tasks)
          /\ main' = "process"
       \/ /\ queue_tasks = <<>>
          /\ main' = "update"
          /\ UNCHANGED <<queueVars, cur>>
    /\ UNCHANGED <<responseVars, slots, ops, readerVars>>

Free == {s \in Slot : ~IsProcessing(s)}

\* get_available_slot: the requested slot, busy or not (get_slot_by_id wraps the
\* id around); else some free slot (prompt similarity and LRU only choose which).
AvailableSlots(t) ==
    IF IdSlot[t] # -1 THEN {IdSlot[t] % NSlots} ELSE Free

\* The slots of S in index order.
InOrder(S) == Kept([i \in 1 .. NSlots |-> i - 1], {i \in 1 .. NSlots : i - 1 \in S})

\* get_free_slots(n, exclude): the first n free slots in index order.
FreeSlots(n, exclude) == SubSeq(InOrder(Free \ {exclude}), 1, n)

\* The slot is free, and so are enough others for the children.
CanLaunch(t, s) ==
    /\ ~IsProcessing(s)
    /\ Cardinality(Free \ {s}) >= Len(ChildTasks[t])

Launched(t) ==
    [task  |-> t,
     state |-> IF IsChild(t) THEN "WAIT_OTHER" ELSE "PROMPT",
     left  |-> NPrompt + NPredict]

\* launch_slots_with_parent_task launches the children first.
LaunchOrder(t) == ChildTasks[t] \o <<t>>

\* Where in this order launch_slot_with_task may fail first.
FirstFailures(t) == {k \in DOMAIN LaunchOrder(t) : LaunchOrder(t)[k] \in Rejected}

\* process_single_task, completions: no usable slot, so defer.
Completion_Defer(t) ==
    /\ \A s \in AvailableSlots(t) : ~CanLaunch(t, s)
    /\ ops' = <<DeferOp(t)>>
    /\ UNCHANGED slots

\* launch_slot_with_task, or launch_slots_with_parent_task for a parent.
Completion_Launch(t) ==
    /\ \E s \in AvailableSlots(t) :
          /\ CanLaunch(t, s)
          /\ LET kids == FreeSlots(Len(ChildTasks[t]), s)
             IN  slots' = [x \in Slot |->
                    IF x = s THEN Launched(t)
                    ELSE IF \E i \in DOMAIN kids : kids[i] = x
                    THEN Launched(ChildTasks[t][CHOOSE i \in DOMAIN kids : kids[i] = x])
                    ELSE slots[x]]
    /\ ops' = <<>>

\* A launch that fails answers with an error; for a parent the children launched
\* before the failure are released again.  The task is dropped.
Completion_Reject(t) ==
    /\ \E s \in AvailableSlots(t), k \in FirstFailures(t) :
          /\ CanLaunch(t, s)
          /\ LET kids == FreeSlots(Len(ChildTasks[t]), s)
             IN  ops' = <<SendOp(LaunchOrder(t)[k], "error")>>
                        \o [i \in 1 .. (k - 1) |-> PopDeferOp(kids[i])]
    /\ UNCHANGED slots

\* SLOT_SAVE / SLOT_RESTORE / SLOT_ERASE: deferred while the slot is busy, else
\* done at once; saving and restoring may fail.
SlotOp(t) ==
    /\ UNCHANGED slots
    /\ IF IsProcessing(IdSlot[t] % NSlots)
       THEN ops' = <<DeferOp(t)>>
       ELSE \E k \in {"final"} \cup (IF t \in Rejected THEN {"error"} ELSE {}) :
               ops' = <<SendOp(t, k)>>

\* METRICS, CONTROL, GET_LORA, SET_LORA: answered at once.
Query(t) ==
    /\ ops' = <<SendOp(t, "final")>>
    /\ UNCHANGED slots

\* CANCEL: release the slot that runs the task, if any.
Cancel(t) ==
    IF \E s \in Slot : slots[s].task = t
    THEN LET s == CHOOSE s \in Slot : slots[s].task = t
         IN  /\ slots' = [slots EXCEPT ![s] = IdleSlot]
             /\ ops' = <<PopDeferOp(s)>>
    ELSE /\ ops' = <<>>
         /\ UNCHANGED slots

\* process_single_task
Loop_Process ==
    /\ main = "process" /\ ops = <<>>
    /\ main' = "pop"
    /\ \/ /\ cur.type = "next"
          /\ UNCHANGED <<slots, ops>>
       \/ cur.type = "cancel" /\ Cancel(cur.id)
       \/ cur.type = "task" /\ Kind[cur.id] = "query"  /\ Query(cur.id)
       \/ cur.type = "task" /\ Kind[cur.id] = "slotop" /\ SlotOp(cur.id)
       \/ /\ cur.type = "task" /\ Kind[cur.id] = "completion"
          /\ \/ Completion_Defer(cur.id)
             \/ Completion_Launch(cur.id)
             \/ Completion_Reject(cur.id)
    /\ cur' = NextEntry
    /\ UNCHANGED <<queueVars, responseVars, readerVars>>

-----------------------------------------------------------------------------
(* update_slots                                                            *)

InState(st) == {s \in Slot : slots[s].state = st}

Group(s) == BatchGroup[slots[s].task]

\* slot_batched: the first generating slot, else the first slot with a prompt
\* (a slot refused by pre_decode is passed over); every other slot in the batch
\* must be batchable with it.
Leader(refused) ==
    LET gen == InState("GENERATING") \ refused
    IN  IF gen # {} THEN Min(gen) ELSE Min(InState("PROMPT") \ refused)

HasLeader(refused) == (InState("GENERATING") \cup InState("PROMPT")) \ refused # {}

\* The slots pre_decode answers with an error and releases: a generating slot
\* before anything is batched, a prompt when it is first looked at.
MayRefuse(refused) ==
    \A s \in refused :
        /\ slots[s].task \in Refusable
        /\ \/ /\ slots[s].state = "GENERATING"
              /\ IsParent(slots[s].task) \/ IsChild(slots[s].task)
           \/ /\ slots[s].state = "PROMPT"
              /\ slots[s].left = NPrompt + NPredict
              /\ HasLeader(refused) =>
                    \/ Group(s) = Group(Leader(refused))
                    \/ InState("GENERATING") \ refused = {} /\ s < Leader(refused)

InBatch(s, refused) ==
    /\ s \in (InState("GENERATING") \cup InState("PROMPT")) \ refused
    /\ Group(s) = Group(Leader(refused))

\* A sampled token: the last one ends the completion, any other may (stop words,
\* end of generation).
TokenOutcome(left) == IF left = 1 THEN {"final"} ELSE {"partial", "final"}

\* What one update may do to slot s, its children apart: a prompt may need more
\* batches, and may find the batch full unless it leads it.
Outcome(s, refused) ==
    IF s \in refused THEN {"error"}
    ELSE IF ~InBatch(s, refused) THEN {"stay"}
    ELSE IF slots[s].state = "GENERATING" THEN TokenOutcome(slots[s].left)
    ELSE TokenOutcome(NPredict)
         \cup (IF slots[s].left > NPredict + 1 THEN {"chunk"} ELSE {})
         \cup (IF s # Leader(refused) THEN {"stay"} ELSE {})

\* decode() activates the children of a parent whose prompt is done; they are
\* then sampled like it.
ChildOutcome(s, out) ==
    IF \E p \in InState("PROMPT") : /\ slots[p].task = ParentOf(slots[s].task)
                                    /\ out[p] \in {"partial", "final"}
    THEN TokenOutcome(NPredict) ELSE {"stay"}

Outcomes(refused) ==
    {out \in [Slot -> {"stay", "chunk", "partial", "final", "error"}] :
        \A s \in Slot : out[s] \in IF slots[s].state = "WAIT_OTHER"
                                   THEN ChildOutcome(s, out)
                                   ELSE Outcome(s, refused)}

AfterUpdate(s, o) ==
    CASE o = "stay"    -> slots[s]
      [] o = "chunk"   -> [slots[s] EXCEPT !.left = @ - 1]
      [] o = "partial" -> [slots[s] EXCEPT !.state = "GENERATING",
                              !.left = IF slots[s].state = "GENERATING"
                                       THEN @ - 1 ELSE NPredict - 1]
      [] OTHER         -> IdleSlot

CallsOfSilent(s, o) ==                   \* mutant: release wakes up nobody
    CASE o = "partial" /\ slots[s].task \in Streaming -> <<SendOp(slots[s].task, "partial")>>
      [] o \in {"final", "error"} -> <<SendOp(slots[s].task, o)>>
      [] OTHER -> <<>>

\* The calls slot s makes: a chunk is sent only to a streaming client; the answer
\* is sent before the slot is released and wakes up a deferred task.
CallsOf(s, o) ==
    CASE o = "partial" /\ slots[s].task \in Streaming -> <<SendOp(slots[s].task, "partial")>>
      [] o \in {"final", "error"} -> <<SendOp(slots[s].task, o), PopDeferOp(s)>>
      [] OTHER -> <<>>

Calls(S, out) == LET ord == InOrder(S)
                 IN  FlattenSeq([i \in DOMAIN ord |-> CallsOf(ord[i], out[ord[i]])])

\* All slots idle: nothing to do.  Otherwise NEXT_RESPONSE is posted so that the
\* loop comes back, then the batch is built, decoded and sampled.
Loop_Update ==
    /\ main = "update" /\ ops = <<>>
    /\ main' = "wait"
    /\ \/ /\ Free = Slot
          /\ UNCHANGED <<slots, ops>>
       \/ /\ Free # Slot
          /\ \E refused \in SUBSET Slot :
                /\ MayRefuse(refused)
                /\ \E out \in Outcomes(refused) :
                      /\ slots' = [s \in Slot |-> AfterUpdate(s, out[s])]
                      /\ ops' = <<NextOp>>
                                \o Calls(refused \cap InState("GENERATING"), out)
                                \o Calls(refused \cap InState("PROMPT"), out)
                                \o Calls(Slot \ refused, out)
       \/ \* llama_decode fails fatally: every running slot is answered with an
          \* error and released, none is sampled
          /\ DecodeMayFail
          /\ HasLeader({})
          /\ LET out == [s \in Slot |-> IF IsProcessing(s) THEN "error" ELSE "stay"]
             IN  /\ slots' = [s \in Slot |-> AfterUpdate(s, out[s])]
                 /\ ops' = <<NextOp>> \o Calls(Slot, out)
    /\ UNCHANGED <<queueVars, responseVars, cur, readerVars>>

MainLoop == ExecOp \/ Loop_Wake \/ Loop_Pop \/ Loop_Process \/ Loop_Update

\* Every request served, nothing queued: the server waits for requests that this
\* instance does not have.
AllServed ==
    /\ \A r \in Request : pc[r] = "done"
    /\ main = "wait" /\ ops = <<>> /\ queue_tasks = <<>>
    /\ UNCHANGED vars

Next == (\E r \in Request : Reader(r)) \/ MainLoop \/ AllServed

\* The main thread runs whenever it can; so does an HTTP thread, except that a
\* client need not disconnect.
Fairness ==
    /\ WF_vars(MainLoop)
    /\ \A r \in Request :
          WF_vars(Register(r) \/ PostTasks(r) \/ Next_Receive(r)
                  \/ Stop_Results(r) \/ Stop_Cancel(r))

Spec == Init /\ [][Next]_vars
FairSpec == Spec /\ Fairness

-----------------------------------------------------------------------------
(* Properties                                                              *)

Owner(t) == CHOOSE r \in Request : t \in IdsOf(r)

\* How many copies of task t the server holds: queued, deferred, in the main
\* loop's hands, or running.
Copies(t) ==
    LET e == TaskEntry(t)
    IN  Occurrences(queue_tasks, e) + Occurrences(queue_tasks_deferred, e)
        + (IF cur = e THEN 1 ELSE 0)
        + Occurrences(ops, DeferOp(t))
        + Cardinality({s \in Slot : slots[s].task = t})

\* Deferring, waking up, launching and cancelling move a task, never copy it; and
\* a child runs only after its parent has left the queue.
TaskInOnePlace ==
    /\ TypeOK
    /\ \A t \in Task : Copies(t) <= 1
    /\ \A s \in Slot : slots[s].state # "IDLE" /\ IsChild(slots[s].task) =>
          LET e == TaskEntry(ParentOf(slots[s].task))
          IN  /\ e \notin ToSet(queue_tasks) \cup ToSet(queue_tasks_deferred)
              /\ DeferOp(ParentOf(slots[s].task)) \notin ToSet(ops)

\* No result is left behind in the result queue: whatever is there belongs to a
\* reader that still receives, or that will purge it (a reader that has all its
\* answers leaves with remove_waiting_task_ids, which purges nothing).
ResultsHaveReaders ==
    \A i \in DOMAIN queue_results :
        LET r == Owner(queue_results[i].id)
        IN  pc[r] = "waiting" \/ (pc[r] = "stopping" /\ HasNext(r))

\* A slot that waits for its parent while no slot runs the parent is about to be
\* cancelled: the reader has an error to read, or is stopping, or its CANCEL is
\* on the way - unless the parent has been overtaken by its own CANCEL.  (Otherwise
\* it waits for ever and the main loop spins.)
StrandedChildIsCancelled ==
    \A s \in Slot : slots[s].state = "WAIT_OTHER" =>
        LET c == slots[s].task
            r == Owner(c)
            isError(x) == x.id \in IdsOf(r) /\ x.kind = "error"
        IN  \/ \E p \in InState("PROMPT") : slots[p].task = ParentOf(c)
            \/ /\ pc[r] = "waiting"
               /\ \/ \E i \in DOMAIN queue_results : isError(queue_results[i])
                  \/ \E i \in DOMAIN ops : ops[i].op = "send" /\ isError(ops[i].result)
            \/ pc[r] \in {"stopping", "cancelling"}
            \/ CancelEntry(c) \in ToSet(queue_tasks)
            \/ cur = CancelEntry(c)
            \/ ParentOf(c) \in overtaken

\* What the server still holds for a reader that is gone, though the CANCEL of the
\* task has been processed: queued, deferred, or running.
AbandonedWork ==
    {t \in Task : /\ pc[Owner(t)] = "done"
                  /\ CancelEntry(t) \notin ToSet(queue_tasks) /\ cur # CancelEntry(t)
                  /\ Copies(t) > 0}

\* A CANCEL, posted with its clean-up and then processed on the slots, misses a task in
\* one window only: between the pop of the task and its deferral.
OnlyOvertakenSurvive ==
    \A t \in AbandonedWork : t \in overtaken \/ ParentOf(t) \in overtaken

\* A CANCEL cleans up what it cancels.
AbandonedWorkIsGone == AbandonedWork = {}

Settled == main = "wait" /\ ops = <<>> /\ queue_tasks = <<>>

\* A task is deferred because some slot is busy, so when the loop goes to wait
\* with tasks deferred, some slot is running that will wake one up.
DeferredWaitsForBusySlot ==
    Settled /\ queue_tasks_deferred # <<>> => Free # Slot

\* Every request that does not leave is answered.
EveryRequestServed == \A r \in Request : pc[r] = "registered" ~> pc[r] = "done"

\* The server implements RequestLifecycle: a request is open while its reader
\* receives, closed from the moment it stops.
Life == INSTANCE RequestLifecycle WITH
            Ids <- IdsOf,
            phase <- [r \in Request |->
                        CASE pc[r] \in {"idle", "registered"} -> "new"
                          [] pc[r] = "waiting" -> "open"
                          [] OTHER -> "closed"]

KeepsItsPromise == Life!LifeSpec

=============================================================================
