----------------------------- MODULE ServerSleep -----------------------------
(***************************************************************************)
(* The sleeping half of struct server_queue (tools/server/server-queue.cpp *)
(* start_loop, wait_until_no_sleep, terminate, post): after an idle time   *)
(* the main thread unloads the model and waits; an HTTP handler that comes *)
(* in asks it to wake up and waits until it has.  One condition variable,  *)
(* condition_tasks, serves the main thread and the handlers, and the two   *)
(* wait for different predicates.                                          *)
(*                                                                         *)
(* Every step is one critical section of mutex_tasks; the callbacks that   *)
(* destroy and load the model run inside it.  A task is served in the step *)
(* that pops it: while a slot is busy NEXT_RESPONSE keeps the queue from   *)
(* being empty, so the server is not idle in between (see ServerTasks).    *)
(* Spurious wakeups only test a predicate again and are left out.          *)
(***************************************************************************)
EXTENDS Naturals, Sequences, SequencesExt

CONSTANTS
    Handler,        \* the HTTP threads, one request each
    Main,           \* the thread in start_loop
    AtBoundary,     \* the choices for boundary
    SleepsOver,     \* whether it may expire again before a handler that was
                    \* notified has got the mutex back
    MayTerminate,   \* whether terminate() may be called (SIGINT, SIGTERM)
    MayTerminateEarly   \* ... even before start_loop is entered

ASSUME SleepAssumption ==
    /\ Main \notin Handler
    /\ AtBoundary \subseteq BOOLEAN
    /\ {SleepsOver, MayTerminate, MayTerminateEarly} \subseteq BOOLEAN

VARIABLES
    running,
    sleeping,
    req_stop_sleeping,
    queue_tasks,        \* the handlers' tasks
    waiting,            \* the threads in condition_tasks.wait
    main,               \* where start_loop is
    model,              \* whether the model is loaded
    pc,                 \* [Handler -> where the request is]
    terminated,         \* history: terminate() was called
    boundary            \* whether the idle time may expire between a handler's
                        \* wait_until_no_sleep and its post; never changes

sleep_vars == <<running, sleeping, req_stop_sleeping, queue_tasks, waiting, main, model, pc,
          terminated, boundary>>

SleepTypeOK ==
    /\ {running, sleeping, req_stop_sleeping, model, terminated, boundary} \subseteq BOOLEAN
    /\ queue_tasks \in Seq(Handler) /\ \A h \in ToSet(queue_tasks) : pc[h] = "await"
    /\ waiting \subseteq Handler \cup {Main}
    /\ main \in {"start", "pop", "idle", "timed", "asleep", "exit"}
    /\ pc \in [Handler -> {"new", "blocked", "use", "post", "await", "done"}]

SleepInit ==
    /\ running = FALSE /\ sleeping = FALSE /\ req_stop_sleeping = FALSE
    /\ queue_tasks = <<>> /\ waiting = {} /\ main = "start" /\ model = TRUE
    /\ pc = [h \in Handler |-> "new"]
    /\ terminated = FALSE /\ boundary \in AtBoundary

\* condition_variable::notify_one on a wait set: any of the waiting threads.
Notified(W) == IF W = {} THEN {W} ELSE {W \ {x} : x \in W}

-----------------------------------------------------------------------------
(* The handlers                                                            *)

GateSilent(h) ==                         \* mutant: the wakeup is not signalled
    /\ pc[h] = "new"
    /\ IF sleeping
       THEN /\ pc' = [pc EXCEPT ![h] = "blocked"]
            /\ req_stop_sleeping' = TRUE
            /\ waiting' = waiting \cup {h}
       ELSE /\ pc' = [pc EXCEPT ![h] = "use"]
            /\ UNCHANGED <<req_stop_sleeping, waiting>>
    /\ UNCHANGED <<running, sleeping, queue_tasks, main, model, terminated, boundary>>

GateReturns(h) ==                        \* mutant: requests the wakeup, does not wait
    /\ pc[h] = "new"
    /\ pc' = [pc EXCEPT ![h] = "use"]
    /\ req_stop_sleeping' = (req_stop_sleeping \/ sleeping)
    /\ waiting' \in IF sleeping /\ ~req_stop_sleeping THEN Notified(waiting) ELSE {waiting}
    /\ UNCHANGED <<running, sleeping, queue_tasks, main, model, terminated, boundary>>

\* wait_until_no_sleep, up to its wait.
Gate(h) ==
    /\ pc[h] = "new"
    /\ IF sleeping
       THEN /\ pc' = [pc EXCEPT ![h] = "blocked"]
            /\ req_stop_sleeping' = TRUE
            /\ \E W \in IF req_stop_sleeping THEN {waiting} ELSE Notified(waiting) :
                  waiting' = W \cup {h}
       ELSE /\ pc' = [pc EXCEPT ![h] = "use"]
            /\ UNCHANGED <<req_stop_sleeping, waiting>>
    /\ UNCHANGED <<running, sleeping, queue_tasks, main, model, terminated, boundary>>

\* The wait of wait_until_no_sleep, notified: nothing is requested a second time.
GateAgain(h) ==
    /\ pc[h] = "blocked" /\ h \notin waiting
    /\ IF sleeping
       THEN waiting' = waiting \cup {h} /\ UNCHANGED pc
       ELSE pc' = [pc EXCEPT ![h] = "use"] /\ UNCHANGED waiting
    /\ UNCHANGED <<running, sleeping, req_stop_sleeping, queue_tasks, main, model, terminated, boundary>>

\* The handler reads the vocabulary of the model: it tokenizes its prompt.
Tokenize(h) ==
    /\ pc[h] = "use"
    /\ pc' = [pc EXCEPT ![h] = "post"]
    /\ UNCHANGED <<running, sleeping, req_stop_sleeping, queue_tasks, waiting, main, model,
                   terminated, boundary>>

\* post
PostTask(h) ==
    /\ pc[h] = "post"
    /\ pc' = [pc EXCEPT ![h] = "await"]
    /\ queue_tasks' = Append(queue_tasks, h)
    /\ waiting' \in Notified(waiting)
    /\ UNCHANGED <<running, sleeping, req_stop_sleeping, main, model, terminated, boundary>>

HandlerStep(h) == Gate(h) \/ GateAgain(h) \/ Tokenize(h) \/ PostTask(h)

\* terminate(), from the signal handler or when the server shuts down.
Terminate ==
    /\ MayTerminate /\ ~terminated
    /\ main # "start" \/ MayTerminateEarly
    /\ terminated' = TRUE
    /\ running' = FALSE
    /\ waiting' = {}
    /\ UNCHANGED <<sleeping, req_stop_sleeping, queue_tasks, main, model, pc, boundary>>

-----------------------------------------------------------------------------
(* The main thread: start_loop                                             *)

Main_Start ==
    /\ main = "start"
    /\ running' = TRUE
    /\ main' = "pop"
    /\ UNCHANGED <<sleeping, req_stop_sleeping, queue_tasks, waiting, model, pc, terminated, boundary>>

\* The inner loop: leave, take the next task, or go on to update_slots.
Main_Pop ==
    /\ main = "pop"
    /\ IF ~running THEN main' = "exit" /\ UNCHANGED <<queue_tasks, pc>>
       ELSE IF queue_tasks = <<>> THEN main' = "idle" /\ UNCHANGED <<queue_tasks, pc>>
       ELSE /\ queue_tasks' = Tail(queue_tasks)
            /\ pc' = [pc EXCEPT ![Head(queue_tasks)] = "done"]
            /\ UNCHANGED main
    /\ UNCHANGED <<running, sleeping, req_stop_sleeping, waiting, model, terminated, boundary>>

\* should_sleep(): time has passed, as far as the run lets it.
IdleTimeExpired ==
    /\ boundary \/ \A h \in Handler : pc[h] \notin {"use", "post"}
    /\ SleepsOver \/ \A h \in Handler : pc[h] = "blocked" => h \in waiting

Main_CheckOnlyTime ==                    \* mutant: sleeps with tasks in the queue
    /\ main = "idle"
    /\ IF IdleTimeExpired /\ running
       THEN /\ sleeping' = TRUE /\ model' = FALSE /\ req_stop_sleeping' = FALSE
            /\ main' = "asleep" /\ waiting' = waiting \cup {Main}
       ELSE /\ main' = "pop"
            /\ UNCHANGED <<sleeping, model, req_stop_sleeping, waiting>>
    /\ UNCHANGED <<running, queue_tasks, pc, terminated, boundary>>

\* The second loop, under the lock: back to work, to sleep, or wait for one second.
Main_Check ==
    /\ main = "idle"
    /\ \/ /\ ~running \/ queue_tasks # <<>>
          /\ main' = "pop"
          /\ UNCHANGED <<sleeping, model, req_stop_sleeping, waiting>>
       \/ /\ running /\ queue_tasks = <<>> /\ IdleTimeExpired
          /\ sleeping' = TRUE /\ model' = FALSE /\ req_stop_sleeping' = FALSE
          /\ main' = "asleep" /\ waiting' = waiting \cup {Main}
       \/ /\ running /\ queue_tasks = <<>>
          /\ main' = "timed" /\ waiting' = waiting \cup {Main}
          /\ UNCHANGED <<sleeping, model, req_stop_sleeping>>
    /\ UNCHANGED <<running, queue_tasks, pc, terminated, boundary>>

\* wait_for: notified or timed out, back to work or to the check.
Main_Timed ==
    /\ main = "timed"
    /\ waiting' = waiting \ {Main}
    /\ main' = IF queue_tasks # <<>> \/ ~running THEN "pop" ELSE "idle"
    /\ UNCHANGED <<running, sleeping, req_stop_sleeping, queue_tasks, model, pc, terminated, boundary>>

Main_WakeOne ==                          \* mutant: notify_one for notify_all
    /\ main = "asleep" /\ Main \notin waiting
    /\ running /\ req_stop_sleeping
    /\ req_stop_sleeping' = FALSE /\ model' = TRUE /\ sleeping' = FALSE
    /\ waiting' \in Notified(waiting) /\ main' = "pop"
    /\ UNCHANGED <<running, queue_tasks, pc, terminated, boundary>>

\* The wait of the sleeping state, notified: wake up and load the model ...
Main_Wake ==
    /\ main = "asleep" /\ Main \notin waiting
    /\ running /\ req_stop_sleeping
    /\ req_stop_sleeping' = FALSE /\ model' = TRUE /\ sleeping' = FALSE
    /\ waiting' = {} /\ main' = "pop"
    /\ UNCHANGED <<running, queue_tasks, pc, terminated, boundary>>

Main_AsleepOnlyRequest ==                \* mutant: the wait does not look at running
    /\ main = "asleep" /\ Main \notin waiting
    /\ ~req_stop_sleeping
    /\ UNCHANGED main /\ waiting' = waiting \cup {Main}
    /\ UNCHANGED <<running, sleeping, req_stop_sleeping, queue_tasks, model, pc, terminated, boundary>>

\* ... or leave, still sleeping, or wait again: a posted task alone wakes up nobody.
Main_Asleep ==
    /\ main = "asleep" /\ Main \notin waiting
    /\ ~running \/ ~req_stop_sleeping
    /\ IF ~running THEN main' = "pop" /\ UNCHANGED waiting
       ELSE UNCHANGED main /\ waiting' = waiting \cup {Main}
    /\ UNCHANGED <<running, sleeping, req_stop_sleeping, queue_tasks, model, pc, terminated, boundary>>

MainLoop ==
    Main_Start \/ Main_Pop \/ Main_Check \/ Main_Timed \/ Main_Wake \/ Main_Asleep

\* Every request done and the server asleep: it waits for the next one.
AllQuiet ==
    /\ main = "asleep" /\ Main \in waiting
    /\ \A h \in Handler : pc[h] = "done"
    /\ UNCHANGED sleep_vars

SleepNext == (\E h \in Handler : HandlerStep(h)) \/ MainLoop \/ Terminate \/ AllQuiet

\* Threads run; a waiting thread that is notified gets the mutex in the end.
\* Nobody need call terminate().
SleepFairness == WF_sleep_vars(MainLoop) /\ \A h \in Handler : WF_sleep_vars(HandlerStep(h))

SleepSpec == SleepInit /\ [][SleepNext]_sleep_vars
SleepFairSpec == SleepSpec /\ SleepFairness

-----------------------------------------------------------------------------
(* Properties                                                              *)

\* notify_one in wait_until_no_sleep and in post reaches the thread it is meant for:
\* while a wakeup is requested the main thread is not left waiting.
NoLostWakeup == main = "asleep" /\ req_stop_sleeping => Main \notin waiting

\* A handler that passed the gate finds the model, if the idle time does not expire
\* behind its back, and the main thread always does.
ModelIsThere ==
    /\ ~boundary => \A h \in Handler : pc[h] = "use" => model
    /\ main = "pop" /\ running => model

\* wait_until_no_sleep returns, unless the server is terminated.
GateOpens == \A h \in Handler : pc[h] = "blocked" ~> pc[h] # "blocked" \/ terminated

\* A task that is in the queue of a server that is awake is processed.  (One that is
\* posted while the server sleeps waits until another request wakes it up.)
EveryTaskProcessed ==
    \A h \in Handler : pc[h] = "await" /\ ~sleeping ~> pc[h] = "done" \/ terminated

\* terminate() ends start_loop.
TerminateEnds == terminated ~> main = "exit"

=============================================================================
