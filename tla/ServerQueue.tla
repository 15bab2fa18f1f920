----------------------------- MODULE ServerQueue -----------------------------
(***************************************************************************)
(* struct server_queue (tools/server/server-queue.{h,cpp}): the two deques *)
(* behind mutex_tasks.  Every operation below is one critical section of   *)
(* that mutex, so it is one atomic step whoever calls it: an HTTP thread   *)
(* through server_response_reader, the main loop, or a slot being          *)
(* released.  The sleeping half of the class is in ServerSleep.            *)
(*                                                                         *)
(* A queued entry keeps what the operations look at: its type and the id   *)
(* it carries (its own id for a task, id_target for a cancel).             *)
(***************************************************************************)
EXTENDS Integers, Sequences, SequencesExt, SequenceCounts

CONSTANTS
    Task,       \* ids handed out by get_new_id() to the tasks of the requests
    NoTask,     \* "no id"
    IdSlot      \* [Task -> Int]: task.id_slot, -1 when no slot is requested

ASSUME TaskAssumption == NoTask \notin Task /\ IdSlot \in [Task -> Int]

VARIABLES
    queue_tasks,
    queue_tasks_deferred

queueVars == <<queue_tasks, queue_tasks_deferred>>

Entry == [type : {"task", "cancel", "next"}, id : Task \cup {NoTask}]

TaskEntry(t)   == [type |-> "task",   id |-> t]
CancelEntry(t) == [type |-> "cancel", id |-> t]
NextEntry      == [type |-> "next",   id |-> NoTask]

QueueTypeOK ==
    /\ queue_tasks \in Seq(Entry)
    /\ queue_tasks_deferred \in Seq([type : {"task"}, id : Task])

QueueInit ==
    /\ queue_tasks = <<>>
    /\ queue_tasks_deferred = <<>>

(***************************************************************************)
(* cleanup_pending_task for every id of targets: a queued task with that   *)
(* id disappears from both deques (a cancel entry has an id of its own).   *)
(***************************************************************************)
CleanupNothing(q, targets) == q         \* mutant: cancel leaves the queues alone

Cleanup(q, targets) ==
    Kept(q, {i \in DOMAIN q : ~(q[i].type = "task" /\ q[i].id \in targets)})

CancelTargets(es) == {e.id : e \in {x \in ToSet(es) : x.type = "cancel"}}

\* post(tasks, front): entries are pushed one by one, so a vector posted to the
\* front ends up in reverse order; cancels first remove what they cancel.
Post(es, front) ==
    LET q == Cleanup(queue_tasks, CancelTargets(es))
    IN  /\ queue_tasks' = IF front THEN Reverse(es) \o q ELSE q \o es
        /\ queue_tasks_deferred' = Cleanup(queue_tasks_deferred, CancelTargets(es))

Defer(e) ==
    /\ queue_tasks_deferred' = Append(queue_tasks_deferred, e)
    /\ UNCHANGED queue_tasks

\* The deferred task a released slot wakes up: the first that asked for this
\* very slot, else the oldest one.
DeferredFor(slot) ==
    LET i == SelectInSeq(queue_tasks_deferred, LAMBDA e : IdSlot[e.id] = slot)
    IN  IF i = 0 THEN 1 ELSE i

PopDeferredTaskCopies(slot) ==          \* mutant: the task is not erased
    IF queue_tasks_deferred = <<>>
    THEN UNCHANGED queueVars
    ELSE /\ queue_tasks' = <<queue_tasks_deferred[DeferredFor(slot)]>> \o queue_tasks
         /\ UNCHANGED queue_tasks_deferred

PopDeferredTaskOfSlot(slot) ==          \* mutant: without "else the first one"
    LET i == SelectInSeq(queue_tasks_deferred, LAMBDA e : IdSlot[e.id] = slot)
    IN  IF i = 0 THEN UNCHANGED queueVars
        ELSE /\ queue_tasks' = <<queue_tasks_deferred[i]>> \o queue_tasks
             /\ queue_tasks_deferred' = RemoveAt(queue_tasks_deferred, i)

PopDeferredTask(slot) ==
    IF queue_tasks_deferred = <<>>
    THEN UNCHANGED queueVars
    ELSE LET i == DeferredFor(slot)
         IN  /\ queue_tasks' = <<queue_tasks_deferred[i]>> \o queue_tasks
             /\ queue_tasks_deferred' = RemoveAt(queue_tasks_deferred, i)

\* start_loop takes the head of the queue and unlocks before processing it.
TakeFront ==
    /\ queue_tasks # <<>>
    /\ queue_tasks' = Tail(queue_tasks)
    /\ UNCHANGED queue_tasks_deferred

=============================================================================
