---------------------------- MODULE PrefillWorker ----------------------------
(***************************************************************************)
(* Disaggregated prefill (struct server_prefill_worker and its callers in  *)
(* tools/server/server-context.cpp): the main loop hands a completion to a *)
(* worker thread, the worker processes the prompt on its own devices and   *)
(* posts the task back to server_queue, the main loop then runs it on a    *)
(* slot.  A client may cancel at any moment; the server may go to sleep,   *)
(* which destroys the workers while the main thread holds mutex_tasks.     *)
(*                                                                         *)
(* Slots are unlimited here (ServerTasks has their scheduling), so nothing *)
(* is deferred.  Every step is one critical section of mutex_tasks or of   *)
(* one worker's mutex, with the thread-local code around it.               *)
(***************************************************************************)
EXTENDS ServerQueue, FiniteSets

CONSTANTS
    Worker,         \* one per --prefill-devices entry
    Eligible,       \* the tasks try_dispatch_prefill accepts
    MayCancel,      \* the tasks whose client may stop
    MaySleep,       \* whether the idle timeout may expire (sleep_idle_seconds)
    MaySleepAtWork  \* ... while a worker still has a task

ASSUME PrefillAssumption ==
    /\ Eligible \subseteq Task /\ MayCancel \subseteq Task
    /\ {MaySleep, MaySleepAtWork} \subseteq BOOLEAN
    /\ Worker # {} /\ NoTask \notin Worker

VARIABLES
    tasks,              \* [Worker -> Seq(Task)]
    cancelled,          \* [Worker -> SUBSET Task]
    id_active,          \* [Worker -> Task or NoTask]
    id_returning,       \* [Worker -> Task or NoTask]
    running,            \* [Worker -> BOOLEAN]
    wpc,                \* [Worker -> where loop() is]
    prefill_pending,    \* [Task -> Worker or NoTask]: the map of the main thread
    prefill_cancelled,  \* the set of the main thread
    attempted,          \* the tasks with task.prefill_attempted
    marked,             \* the tasks with task.prefill_cancelled
    main,               \* the main thread: "pop", "process", "return", "destroy"
    cur,                \* the entry it processes, or the task cancel() gives back
    slotted,            \* the tasks running on a slot
    posted,             \* history: tasks whose client has posted them
    stopped,            \* history: tasks whose client has posted CANCEL
    caught,             \* history: those whose CANCEL found them at a worker
    answered            \* history: tasks that finished on a slot

workerVars == <<tasks, cancelled, id_active, id_returning, running, wpc>>
serverVars == <<prefill_pending, prefill_cancelled, attempted, marked, main, cur, slotted>>
clientVars == <<posted, stopped, caught, answered>>
vars == <<queueVars, workerVars, serverVars, clientVars>>

TypeOK ==
    /\ QueueTypeOK
    /\ tasks \in [Worker -> Seq(Task)]
    /\ cancelled \in [Worker -> SUBSET Task]
    /\ id_active \in [Worker -> Task \cup {NoTask}]
    /\ id_returning \in [Worker -> Task \cup {NoTask}]
    /\ running \in [Worker -> BOOLEAN]
    /\ wpc \in [Worker -> {"wait", "process", "return", "clear", "exit"}]
    /\ prefill_pending \in [Task -> Worker \cup {NoTask}]
    /\ prefill_cancelled \subseteq Task
    /\ attempted \subseteq Task /\ marked \subseteq Task
    /\ main \in {"pop", "process", "return", "destroy"}
    /\ cur \in Entry
    /\ slotted \subseteq Task /\ posted \subseteq Task /\ stopped \subseteq Task
    /\ caught \subseteq Task /\ answered \subseteq Task

\* The fields init() gives a new worker, its thread started.
WorkersInit ==
    /\ tasks = [w \in Worker |-> <<>>]
    /\ cancelled = [w \in Worker |-> {}]
    /\ id_active = [w \in Worker |-> NoTask]
    /\ id_returning = [w \in Worker |-> NoTask]
    /\ running = [w \in Worker |-> TRUE]
    /\ wpc = [w \in Worker |-> "wait"]

Init ==
    /\ QueueInit
    /\ WorkersInit
    /\ prefill_pending = [t \in Task |-> NoTask]
    /\ prefill_cancelled = {} /\ attempted = {} /\ marked = {}
    /\ main = "pop" /\ cur = NextEntry /\ slotted = {}
    /\ posted = {} /\ stopped = {} /\ caught = {} /\ answered = {}

\* mutex_tasks is held by the main thread while it destroys the workers, and by
\* nobody else for longer than a step.
QueueUnlocked == main # "destroy"

-----------------------------------------------------------------------------
(* The client                                                              *)

Client_Post(t) ==
    /\ t \notin posted
    /\ QueueUnlocked
    /\ Post(<<TaskEntry(t)>>, FALSE)
    /\ posted' = posted \cup {t}
    /\ UNCHANGED <<workerVars, serverVars, stopped, caught, answered>>

Client_Stop(t) ==
    /\ t \in MayCancel /\ t \in posted \ (stopped \cup answered)
    /\ QueueUnlocked
    /\ Post(<<CancelEntry(t)>>, TRUE)
    /\ stopped' = stopped \cup {t}
    /\ UNCHANGED <<workerVars, serverVars, posted, caught, answered>>

-----------------------------------------------------------------------------
(* The worker thread: loop()                                               *)

Worker_TakeKeeps(w) ==                   \* mutant: the task is not popped
    /\ wpc[w] = "wait"
    /\ IF running[w]
       THEN /\ tasks[w] # <<>>
            /\ id_active' = [id_active EXCEPT ![w] = Head(tasks[w])]
            /\ wpc' = [wpc EXCEPT ![w] = "process"]
       ELSE wpc' = [wpc EXCEPT ![w] = "exit"] /\ UNCHANGED id_active
    /\ UNCHANGED <<queueVars, tasks, cancelled, id_returning, running, serverVars, clientVars>>

Worker_TakeDeaf(w) ==                    \* mutant: the wait does not look at running
    /\ wpc[w] = "wait" /\ tasks[w] # <<>>
    /\ id_active' = [id_active EXCEPT ![w] = Head(tasks[w])]
    /\ tasks' = [tasks EXCEPT ![w] = Tail(@)]
    /\ wpc' = [wpc EXCEPT ![w] = "process"]
    /\ UNCHANGED <<queueVars, cancelled, id_returning, running, serverVars, clientVars>>

\* Under the worker's mutex: wait for a task or for stop().
Worker_Take(w) ==
    /\ wpc[w] = "wait"
    /\ \/ /\ ~running[w]
          /\ wpc' = [wpc EXCEPT ![w] = "exit"]
          /\ UNCHANGED <<tasks, id_active>>
       \/ /\ running[w] /\ tasks[w] # <<>>
          /\ id_active' = [id_active EXCEPT ![w] = Head(tasks[w])]
          /\ tasks' = [tasks EXCEPT ![w] = Tail(@)]
          /\ wpc' = [wpc EXCEPT ![w] = "process"]
    /\ UNCHANGED <<queueVars, cancelled, id_returning, running, serverVars, clientVars>>

\* process() has ended - done, failed or cut short, which makes no difference to
\* who owns the task - and the task is marked under the mutex.
Worker_Finish(w) ==
    /\ wpc[w] = "process"
    /\ LET t == id_active[w]
       IN  /\ marked' = IF t \in cancelled[w] THEN marked \cup {t} ELSE marked
           /\ cancelled' = [cancelled EXCEPT ![w] = @ \ {t}]
           /\ id_returning' = [id_returning EXCEPT ![w] = t]
    /\ id_active' = [id_active EXCEPT ![w] = NoTask]
    /\ wpc' = [wpc EXCEPT ![w] = "return"]
    /\ UNCHANGED <<queueVars, tasks, running, clientVars, prefill_pending,
                   prefill_cancelled, attempted, main, cur, slotted>>

\* callback: server_queue::post, which needs mutex_tasks.
Worker_Return(w) ==
    /\ wpc[w] = "return"
    /\ QueueUnlocked
    /\ Post(<<TaskEntry(id_returning[w])>>, FALSE)
    /\ wpc' = [wpc EXCEPT ![w] = "clear"]
    /\ UNCHANGED <<tasks, cancelled, id_active, id_returning, running, serverVars, clientVars>>

Worker_ClearExits(w) ==                  \* mutant: the loop ends after one task
    /\ wpc[w] = "clear"
    /\ cancelled' = [cancelled EXCEPT ![w] = @ \ {id_returning[w]}]
    /\ id_returning' = [id_returning EXCEPT ![w] = NoTask]
    /\ wpc' = [wpc EXCEPT ![w] = "exit"]
    /\ UNCHANGED <<queueVars, tasks, id_active, running, serverVars, clientVars>>

Worker_Clear(w) ==
    /\ wpc[w] = "clear"
    /\ cancelled' = [cancelled EXCEPT ![w] = @ \ {id_returning[w]}]
    /\ id_returning' = [id_returning EXCEPT ![w] = NoTask]
    /\ wpc' = [wpc EXCEPT ![w] = "wait"]
    /\ UNCHANGED <<queueVars, tasks, id_active, running, serverVars, clientVars>>

WorkerLoop(w) == Worker_Take(w) \/ Worker_Finish(w) \/ Worker_Return(w) \/ Worker_Clear(w)

-----------------------------------------------------------------------------
(* The main thread                                                         *)

Main_Pop ==
    /\ main = "pop"
    /\ TakeFront
    /\ cur' = Head(queue_tasks)
    /\ main' = "process"
    /\ UNCHANGED <<workerVars, prefill_pending, prefill_cancelled, attempted, marked,
                   slotted, clientVars>>

\* The callback is over.
BackToPop == main' = "pop" /\ cur' = NextEntry

Main_ReturnedMarkOnly ==                 \* mutant: only the worker's mark counts
    /\ main = "process" /\ cur.type = "task" /\ cur.id \in attempted
    /\ prefill_pending' = [prefill_pending EXCEPT ![cur.id] = NoTask]
    /\ slotted' = IF cur.id \in marked THEN slotted ELSE slotted \cup {cur.id}
    /\ BackToPop
    /\ UNCHANGED <<queueVars, workerVars, attempted, marked, prefill_cancelled, clientVars>>

\* A task that comes back from a worker is dropped if it was cancelled meanwhile
\* (the second test, and its erase, is not evaluated when the first one holds),
\* else it runs.
Main_Returned ==
    /\ main = "process" /\ cur.type = "task" /\ cur.id \in attempted
    /\ LET t == cur.id
       IN  /\ prefill_pending' = [prefill_pending EXCEPT ![t] = NoTask]
           /\ prefill_cancelled' = IF t \in marked THEN prefill_cancelled
                                   ELSE prefill_cancelled \ {t}
           /\ slotted' = IF t \in marked \cup prefill_cancelled
                         THEN slotted ELSE slotted \cup {t}
    /\ BackToPop
    /\ UNCHANGED <<queueVars, workerVars, attempted, marked, clientVars>>

\* try_dispatch_prefill to some worker (the least loaded, by counts read without
\* a common lock); a worker that is stopped refuses, and the task runs locally.
Main_Dispatch ==
    /\ main = "process" /\ cur.type = "task" /\ cur.id \notin attempted
    /\ LET t == cur.id
       IN  \/ /\ t \in Eligible
              /\ \E w \in Worker :
                    /\ running[w]
                    /\ tasks' = [tasks EXCEPT ![w] = Append(@, t)]
                    /\ prefill_pending' = [prefill_pending EXCEPT ![t] = w]
              /\ attempted' = attempted \cup {t}
              /\ UNCHANGED slotted
           \/ /\ t \notin Eligible
              /\ slotted' = slotted \cup {t}
              /\ UNCHANGED <<tasks, prefill_pending, attempted>>
    /\ BackToPop
    /\ UNCHANGED <<queueVars, cancelled, id_active, id_returning, running, wpc,
                   prefill_cancelled, marked, clientVars>>

\* CANCEL.  For a task at a worker: server_prefill_worker::cancel takes it out of
\* the worker's queue, to be posted back by this thread once the mutex is free
\* ("return"), or marks it if the worker has it in hand, or reports that the worker
\* does not have it.  Then the slot that runs the task is released, if any.
Main_Cancel ==
    /\ main = "process" /\ cur.type = "cancel"
    /\ LET t == cur.id
           w == prefill_pending[t]
       IN  \/ /\ w = NoTask
              /\ BackToPop
              /\ UNCHANGED <<tasks, cancelled, prefill_pending, prefill_cancelled, marked, caught>>
           \/ /\ w # NoTask /\ t \in ToSet(tasks[w])
              /\ caught' = caught \cup {t}
              /\ tasks' = [tasks EXCEPT ![w] = Kept(@, {i \in DOMAIN @ : @[i] # t})]
              /\ cancelled' = [cancelled EXCEPT ![w] = @ \ {t}]
              /\ prefill_cancelled' = prefill_cancelled \cup {t}
              /\ marked' = marked \cup {t}
              /\ main' = "return"
              /\ UNCHANGED <<cur, prefill_pending>>
           \/ /\ w # NoTask /\ t \notin ToSet(tasks[w])
              /\ t \in {id_active[w], id_returning[w]}
              /\ caught' = caught \cup {t}
              /\ cancelled' = [cancelled EXCEPT ![w] = @ \cup {t}]
              /\ prefill_cancelled' = prefill_cancelled \cup {t}
              /\ BackToPop
              /\ UNCHANGED <<tasks, prefill_pending, marked>>
           \/ /\ w # NoTask /\ t \notin ToSet(tasks[w])
              /\ t \notin {id_active[w], id_returning[w]}
              /\ prefill_pending' = [prefill_pending EXCEPT ![t] = NoTask]
              /\ prefill_cancelled' = prefill_cancelled \ {t}
              /\ BackToPop
              /\ UNCHANGED <<tasks, cancelled, marked, caught>>
    /\ slotted' = slotted \ {cur.id}
    /\ UNCHANGED <<queueVars, id_active, id_returning, running, wpc, attempted,
                   posted, stopped, answered>>

\* The callback of cancel(), outside the worker's mutex.
Main_CancelReturn ==
    /\ main = "return"
    /\ Post(<<TaskEntry(cur.id)>>, FALSE)
    /\ BackToPop
    /\ UNCHANGED <<workerVars, prefill_pending, prefill_cancelled, attempted, marked,
                   slotted, posted, stopped, caught, answered>>

\* update_slots: a running task finishes.
Main_Answer(t) ==
    /\ main = "pop" /\ queue_tasks = <<>>
    /\ t \in slotted
    /\ slotted' = slotted \ {t}
    /\ answered' = answered \cup {t}
    /\ UNCHANGED <<queueVars, workerVars, prefill_pending, prefill_cancelled, attempted,
                   marked, main, cur, posted, stopped, caught>>

\* The idle timeout expires with nothing queued and no slot busy (every pass with a
\* busy slot posts NEXT_RESPONSE): handle_sleeping_state(true) runs under mutex_tasks.
Main_Sleep ==
    /\ MaySleep
    /\ main = "pop" /\ queue_tasks = <<>> /\ slotted = {}
    /\ MaySleepAtWork \/ \A w \in Worker : wpc[w] \in {"wait", "clear"} /\ tasks[w] = <<>>
    /\ main' = "destroy"
    /\ UNCHANGED <<queueVars, workerVars, prefill_pending, prefill_cancelled, attempted,
                   marked, cur, slotted, clientVars>>

\* destroy() deletes the workers one after the other: stop(), up to the join.
Main_StopWorker(w) ==
    /\ main = "destroy"
    /\ running[w]
    /\ \A v \in Worker : running[v] \/ wpc[v] = "exit"
    /\ running' = [running EXCEPT ![w] = FALSE]
    /\ cancelled' = [cancelled EXCEPT ![w] = @ \cup ({id_active[w]} \ {NoTask})]
    /\ tasks' = [tasks EXCEPT ![w] = <<>>]
    /\ UNCHANGED <<queueVars, id_active, id_returning, wpc, serverVars, clientVars>>

\* Every worker thread joined: destroy() clears the bookkeeping; the server sleeps,
\* is woken up and loads the model and new workers again.
Main_Awake ==
    /\ main = "destroy"
    /\ \A w \in Worker : wpc[w] = "exit"
    /\ main' = "pop"
    /\ tasks' = [w \in Worker |-> <<>>]
    /\ cancelled' = [w \in Worker |-> {}]
    /\ id_active' = [w \in Worker |-> NoTask]
    /\ id_returning' = [w \in Worker |-> NoTask]
    /\ running' = [w \in Worker |-> TRUE]
    /\ wpc' = [w \in Worker |-> "wait"]
    /\ prefill_pending' = [t \in Task |-> NoTask]
    /\ prefill_cancelled' = {}
    /\ UNCHANGED <<queueVars, attempted, marked, cur, slotted, clientVars>>

MainLoop ==
    \/ Main_Pop \/ Main_Returned \/ Main_Dispatch \/ Main_Cancel \/ Main_CancelReturn
    \/ \E t \in Task : Main_Answer(t)

AllServed ==
    /\ posted = Task /\ queue_tasks = <<>> /\ main = "pop" /\ slotted = {}
    /\ \A w \in Worker : wpc[w] = "wait" /\ tasks[w] = <<>>
    /\ UNCHANGED vars

Next ==
    \/ \E t \in Task : Client_Post(t) \/ Client_Stop(t)
    \/ \E w \in Worker : WorkerLoop(w)
    \/ \E w \in Worker : Main_StopWorker(w)
    \/ MainLoop \/ Main_Sleep \/ Main_Awake
    \/ AllServed

\* Threads run whenever they can; no client need stop, no timeout need expire.
Fairness ==
    /\ WF_vars(MainLoop) /\ WF_vars(Main_Awake)
    /\ WF_vars(\E w \in Worker : Main_StopWorker(w))
    /\ \A w \in Worker : WF_vars(WorkerLoop(w))

Spec == Init /\ [][Next]_vars
FairSpec == Spec /\ Fairness

-----------------------------------------------------------------------------
(* Properties                                                              *)

\* How many copies of task t there are, from the client's post to its slot.
Copies(t) ==
    Occurrences(queue_tasks, TaskEntry(t))
    + (IF cur = TaskEntry(t) \/ (main = "return" /\ cur.id = t) THEN 1 ELSE 0)
    + Cardinality({w \in Worker : t \in ToSet(tasks[w])})
    + Cardinality({w \in Worker : id_active[w] = t})
    + Cardinality({w \in Worker : wpc[w] = "return" /\ id_returning[w] = t})
    + (IF t \in slotted \cup answered THEN 1 ELSE 0)

\* prefill_pending, which CANCEL consults, names exactly the worker a task has been
\* given to, until the main thread takes it back.
PendingIsAtWorker ==
    \A t \in posted \ stopped :
        LET w == prefill_pending[t]
        IN  /\ w = NoTask => \A v \in Worker :
                  /\ t \notin ToSet(tasks[v]) \cup {id_active[v]}
                  /\ wpc[v] = "return" => id_returning[v] # t
            /\ w # NoTask => \/ t \in ToSet(tasks[w]) \cup {id_active[w]}
                             \/ wpc[w] = "return" /\ id_returning[w] = t
                             \/ TaskEntry(t) \in ToSet(queue_tasks) \/ cur = TaskEntry(t)

\* The task moves between server_queue, the workers and the main thread without
\* ever being in two hands, or in none before it is cancelled, and CANCEL is told the right
\* one: submit, cancel and the two callbacks hand it over under different locks.
TaskInOneHand ==
    /\ TypeOK /\ PendingIsAtWorker
    /\ \A t \in Task : Copies(t) <= 1 /\ (t \in posted \ stopped => Copies(t) = 1)

\* A task whose CANCEL finds it at a worker - queued, in process, or on its way back -
\* never gets a slot, though neither thread's mark alone says so in every case: the
\* worker may have looked at its set before the CANCEL, and clears it afterwards.
CaughtNeverRuns == caught \cap (slotted \cup answered) = {}

\* A task that is not cancelled is answered, though it visits a worker.
EveryTaskAnswered == \A t \in Task : t \in posted ~> t \in answered \cup stopped

\* Entering the sleeping state ends: the workers are joined and the server can be
\* woken up again.
DestroyEnds == main = "destroy" ~> main # "destroy"

=============================================================================
