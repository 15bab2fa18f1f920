-------------------------- MODULE PrefillWorkerProofs --------------------------
(***************************************************************************)
(* Proofs about PrefillWorker, for any number of tasks and workers: no task*)
(* is ever in two hands, none is lost unless the server goes to sleep while*)
(* a worker has it, and one whose CANCEL found it at a worker never runs.  *)
(***************************************************************************)
EXTENDS PrefillWorker, SequenceProofs

-----------------------------------------------------------------------------
(* The queue                                                               *)

\* cleanup_pending_task takes every copy of its targets and leaves other tasks, and cancels.
LEMMA CleanupCounts ==
    ASSUME NEW S \in SUBSET Entry, NEW q \in Seq(S), NEW targets, NEW t, NEW e
    PROVE  /\ Cleanup(q, targets) \in Seq(S)
           /\ Occurrences(Cleanup(q, targets), e) \in Nat
           /\ Occurrences(Cleanup(q, targets), e) <= Occurrences(q, e)
           /\ Occurrences(Cleanup(q, targets), TaskEntry(t))
                 = IF t \in targets THEN 0 ELSE Occurrences(q, TaskEntry(t))
           /\ Occurrences(Cleanup(q, targets), CancelEntry(t)) = Occurrences(q, CancelEntry(t))
<1> DEFINE pos == {i \in DOMAIN q : ~(q[i].type = "task" /\ q[i].id \in targets)}
<1>1. DOMAIN q = 1 .. Len(q) /\ pos \in SUBSET (1 .. Len(q))
  OBVIOUS
<1>2. Cleanup(q, targets) = Kept(q, pos)
  BY DEF Cleanup
<1>3. t \in targets => \A p \in pos : q[p] # TaskEntry(t)
  BY DEF TaskEntry
<1>4. t \notin targets => \A i \in 1 .. Len(q) : q[i] = TaskEntry(t) => i \in pos
  BY <1>1 DEF TaskEntry
<1>5. \A i \in 1 .. Len(q) : q[i] = CancelEntry(t) => i \in pos
  BY <1>1 DEF CancelEntry
<1> HIDE DEF pos
<1> QED
  BY <1>1, <1>2, <1>3, <1>4, <1>5, KeptErases, KeptSelects

\* What post does to the counts: the entries posted are added, tasks that are
\* cancelled by them are gone from both queues, cancels stay.
LEMMA PostCounts ==
    ASSUME QueueTypeOK, NEW es \in Seq(Entry), NEW front \in BOOLEAN, Post(es, front)
    PROVE  /\ QueueTypeOK'
           /\ \A e : Occurrences(queue_tasks', e)
                        <= Occurrences(es, e) + Occurrences(queue_tasks, e)
           /\ \A t :
                 /\ Occurrences(queue_tasks', TaskEntry(t)) = Occurrences(es, TaskEntry(t))
                       + (IF t \in CancelTargets(es) THEN 0
                          ELSE Occurrences(queue_tasks, TaskEntry(t)))
                 /\ Occurrences(queue_tasks_deferred', TaskEntry(t))
                       = IF t \in CancelTargets(es) THEN 0
                         ELSE Occurrences(queue_tasks_deferred, TaskEntry(t))
                 /\ Occurrences(queue_tasks', CancelEntry(t))
                       = Occurrences(es, CancelEntry(t)) + Occurrences(queue_tasks, CancelEntry(t))
<1> SUFFICES ASSUME NEW t, NEW e
    PROVE  /\ QueueTypeOK'
           /\ Occurrences(queue_tasks', e) <= Occurrences(es, e) + Occurrences(queue_tasks, e)
           /\ Occurrences(queue_tasks', TaskEntry(t)) = Occurrences(es, TaskEntry(t))
                 + (IF t \in CancelTargets(es) THEN 0 ELSE Occurrences(queue_tasks, TaskEntry(t)))
           /\ Occurrences(queue_tasks_deferred', TaskEntry(t))
                 = IF t \in CancelTargets(es) THEN 0
                   ELSE Occurrences(queue_tasks_deferred, TaskEntry(t))
           /\ Occurrences(queue_tasks', CancelEntry(t))
                 = Occurrences(es, CancelEntry(t)) + Occurrences(queue_tasks, CancelEntry(t))
  OBVIOUS
<1> DEFINE q == Cleanup(queue_tasks, CancelTargets(es))
           D == [type : {"task"}, id : Task]
<1>1. queue_tasks \in Seq(Entry) /\ queue_tasks_deferred \in Seq(D) /\ D \subseteq Entry
  BY DEF QueueTypeOK, Entry
<1>2. /\ q \in Seq(Entry)
      /\ \A x : /\ Occurrences(q, x) \in Nat
                /\ Occurrences(q, x) <= Occurrences(queue_tasks, x)
      /\ Occurrences(q, TaskEntry(t)) = IF t \in CancelTargets(es) THEN 0
                                       ELSE Occurrences(queue_tasks, TaskEntry(t))
      /\ Occurrences(q, CancelEntry(t)) = Occurrences(queue_tasks, CancelEntry(t))
  <2>1. q \in Seq(Entry)
    BY <1>1, CleanupCounts
  <2>2. ASSUME NEW x
        PROVE  /\ Occurrences(q, x) \in Nat
               /\ Occurrences(q, x) <= Occurrences(queue_tasks, x)
    BY <1>1, CleanupCounts
  <2>3. /\ Occurrences(q, TaskEntry(t)) = IF t \in CancelTargets(es) THEN 0
                                          ELSE Occurrences(queue_tasks, TaskEntry(t))
        /\ Occurrences(q, CancelEntry(t)) = Occurrences(queue_tasks, CancelEntry(t))
    BY <1>1, CleanupCounts
  <2> QED
    BY <2>1, <2>2, <2>3
<1>3. /\ queue_tasks_deferred' \in Seq(D)
      /\ Occurrences(queue_tasks_deferred', TaskEntry(t))
            = IF t \in CancelTargets(es) THEN 0
              ELSE Occurrences(queue_tasks_deferred, TaskEntry(t))
  <2>1. queue_tasks_deferred' = Cleanup(queue_tasks_deferred, CancelTargets(es))
    BY DEF Post
  <2>2. D \in SUBSET Entry /\ queue_tasks_deferred \in Seq(D)
    BY <1>1
  <2> HIDE DEF D
  <2> DEFINE d == queue_tasks_deferred
             ts == CancelTargets(es)
  <2>3. d \in Seq(D)
    BY <2>2
  <2> HIDE DEF d, ts
  <2>4. Cleanup(d, ts) \in Seq(D)
    BY <2>2, <2>3, CleanupCounts
  <2>5. Occurrences(Cleanup(d, ts), TaskEntry(t))
           = IF t \in ts THEN 0 ELSE Occurrences(d, TaskEntry(t))
    BY <2>2, <2>3, CleanupCounts
  <2> QED
    BY <2>1, <2>4, <2>5 DEF d, ts
<1> HIDE DEF q, D
<1>4. Reverse(es) \in Seq(Entry)
  BY ReverseProperties
<1>5. queue_tasks' \in Seq(Entry) /\ \A x : Occurrences(queue_tasks', x) = Occurrences(es, x) + Occurrences(q, x)
  <2>1. CASE front
    <3>1. queue_tasks' = Reverse(es) \o q
      BY <2>1 DEF Post, q
    <3>2. \A x : Occurrences(Reverse(es) \o q, x) = Occurrences(Reverse(es), x) + Occurrences(q, x)
      BY <1>2, <1>4, OccurrencesConcat
    <3>3. \A x : Occurrences(Reverse(es), x) = Occurrences(es, x)
      BY OccurrencesReverse
    <3> QED
      BY <1>2, <1>4, <3>1, <3>2, <3>3, ConcatProperties
  <2>2. CASE ~front
    <3>1. queue_tasks' = q \o es
      BY <2>2 DEF Post, q
    <3>2. \A x : Occurrences(q \o es, x) = Occurrences(q, x) + Occurrences(es, x)
      BY <1>2, OccurrencesConcat
    <3>3. \A x : Occurrences(es, x) \in Nat /\ Occurrences(q, x) \in Nat
      BY <1>2, OccurrencesType
    <3> QED
      BY <1>2, <3>1, <3>2, <3>3, ConcatProperties
  <2> QED
    BY <2>1, <2>2
<1>6. \A x : /\ Occurrences(es, x) \in Nat /\ Occurrences(queue_tasks, x) \in Nat
            /\ Occurrences(q, x) \in Nat
  BY <1>1, <1>2, OccurrencesType
<1>7. Occurrences(queue_tasks', e) <= Occurrences(es, e) + Occurrences(queue_tasks, e)
  <2>1. /\ Occurrences(queue_tasks', e) = Occurrences(es, e) + Occurrences(q, e)
        /\ Occurrences(q, e) <= Occurrences(queue_tasks, e)
    BY <1>2, <1>5
  <2>2. /\ Occurrences(es, e) \in Nat /\ Occurrences(queue_tasks, e) \in Nat
        /\ Occurrences(q, e) \in Nat
    BY <1>6
  <2> QED
    BY <2>1, <2>2
<1> QED
  BY <1>2, <1>3, <1>5, <1>7 DEF QueueTypeOK, D


-----------------------------------------------------------------------------
(* The inductive invariant                                                 *)

InQueue(t) == Occurrences(queue_tasks, TaskEntry(t))
Cancels(t) == Occurrences(queue_tasks, CancelEntry(t))
Cancelling(t) == main = "process" /\ cur = CancelEntry(t)
InMain(t) == cur = TaskEntry(t) \/ (main = "return" /\ cur.id = t)
Waiting(w, t) == Occurrences(tasks[w], t)
InHand(w, t) == id_active[w] = t \/ (wpc[w] = "return" /\ id_returning[w] = t)
AtWorker(w, t) == Waiting(w, t) > 0 \/ InHand(w, t)
OnSlot(t) == t \in slotted \cup answered

Held(t) ==
    InQueue(t) > 0 \/ InMain(t) \/ OnSlot(t) \/ \E w \in Worker : AtWorker(w, t)

\* Where the threads are determines which of their variables are set.
Request == [type : {"task", "cancel"}, id : Task]
ThreadsAgree ==
    /\ queue_tasks \in Seq(Request)
    /\ cur \in Request \cup {NextEntry}
    /\ main \in {"process", "return"} <=> cur # NextEntry
    /\ main = "return" => cur.type = "cancel"
    /\ main = "destroy" => queue_tasks = <<>>
    /\ \A w \in Worker :
          /\ wpc[w] = "process" <=> id_active[w] # NoTask
          /\ wpc[w] \in {"return", "clear"} <=> id_returning[w] # NoTask
          /\ ~running[w] => tasks[w] = <<>> /\ main = "destroy"
          /\ wpc[w] = "exit" => ~running[w]

\* No two hands hold t, and prefill_pending names the worker that does.
OneHand(t) ==
    /\ InQueue(t) <= 1
    /\ InQueue(t) > 0 => ~InMain(t) /\ ~OnSlot(t)
    /\ InMain(t) => ~OnSlot(t)
    /\ \A w \in Worker :
          /\ Waiting(w, t) <= 1
          /\ Waiting(w, t) > 0 => ~InHand(w, t)
          /\ AtWorker(w, t) => prefill_pending[t] = w /\ InQueue(t) = 0 /\ ~InMain(t)
    /\ prefill_pending[t] # NoTask => t \in attempted /\ ~OnSlot(t)
    /\ Held(t) => t \in posted

\* A client cancels at most once, and the main loop has not acted on that CANCEL
\* before it processes it.
OneCancel(t) ==
    /\ Cancels(t) <= 1
    /\ Cancels(t) > 0 => ~Cancelling(t) /\ t \in stopped \ caught
    /\ Cancelling(t) => t \in stopped \ caught
    /\ t \in stopped => t \in posted

\* While a copy of a caught task is around, a mark the main thread looks at is.
CaughtIsMarked(t) ==
    t \in caught => /\ t \in stopped /\ t \in attempted /\ ~OnSlot(t)
                    /\ Held(t) => t \in marked \cup prefill_cancelled

\* A task that is not cancelled carries no mark and is somewhere; what prefill_pending
\* says of it is true.
NotLost(t) ==
    t \in posted \ stopped =>
        /\ Held(t)
        /\ t \notin marked \cup prefill_cancelled
        /\ \A w \in Worker : t \notin cancelled[w]
        /\ prefill_pending[t] # NoTask => \/ AtWorker(prefill_pending[t], t)
                                          \/ InQueue(t) > 0 \/ cur = TaskEntry(t)

\* Workers that are destroyed have nothing.
DestroyedIdle ==
    main = "destroy" => \A w \in Worker : wpc[w] \in {"wait", "clear", "exit"} /\ tasks[w] = <<>>

\* A task that has not been posted carries no mark either.
Unmarked(t) ==
    t \notin posted => /\ t \notin marked \cup prefill_cancelled
                       /\ \A w \in Worker : t \notin cancelled[w]

TaskInv(t) == OneHand(t) /\ OneCancel(t) /\ CaughtIsMarked(t)

Inv ==
    /\ TypeOK /\ ThreadsAgree
    /\ \A t \in Task : TaskInv(t)

\* What holds besides if the server sleeps only when the workers have nothing.
Careful == DestroyedIdle /\ \A t \in Task : NotLost(t) /\ Unmarked(t)

\* A worker's queue, and the counts of its tasks.
LEMMA Numbers ==
    ASSUME TypeOK, ThreadsAgree
    PROVE  /\ \A e : Occurrences(queue_tasks, e) \in Nat
           /\ \A w \in Worker : \A e : Occurrences(tasks[w], e) \in Nat
           /\ \A w \in Worker : tasks[w] \in Seq(Task)
<1>1. queue_tasks \in Seq(Request) /\ \A w \in Worker : tasks[w] \in Seq(Task)
  BY DEF TypeOK, ThreadsAgree
<1> QED
  BY <1>1, OccurrencesType

-----------------------------------------------------------------------------
(* The worker threads                                                      *)

\* A finished task goes from one hand of the worker to the other.
LEMMA FinishInv ==
    ASSUME Inv, NEW w \in Worker, Worker_Finish(w)
    PROVE  Inv' /\ (~MaySleepAtWork /\ Careful => Careful')
<1>1. TypeOK /\ ThreadsAgree /\ TypeOK'
  BY PrefillAssumption, TaskAssumption DEF Inv, TypeOK, Worker_Finish, QueueTypeOK, queueVars, clientVars, ThreadsAgree, NextEntry
<1>2. id_active[w] \in Task /\ id_returning[w] = NoTask
  BY <1>1 DEF Worker_Finish, TypeOK, ThreadsAgree
<1>3. ThreadsAgree'
  BY <1>1, <1>2, TaskAssumption DEF Worker_Finish, ThreadsAgree, TypeOK, queueVars
<1>4. ASSUME NEW t \in Task
      PROVE  TaskInv(t)'
  <2>1. TaskInv(t)
    BY DEF Inv
  <2>2. OneHand(t)'
    BY <2>1, <1>1, <1>2, TaskAssumption DEF TaskInv, OneHand, Held, InQueue, InMain, Waiting, InHand, AtWorker, OnSlot, Worker_Finish, queueVars, clientVars, TypeOK
  <2>3. OneCancel(t)'
    BY <2>1, <1>1, <1>2 DEF TaskInv, OneCancel, Cancels, Cancelling, Worker_Finish, queueVars, clientVars
  <2>4. CaughtIsMarked(t)'
    BY <2>1, <1>1, <1>2, TaskAssumption DEF TaskInv, CaughtIsMarked, Held, InQueue, InMain, Waiting, InHand, AtWorker, OnSlot, Worker_Finish, queueVars, clientVars, TypeOK
  <2> QED
    BY <2>2, <2>3, <2>4 DEF TaskInv
<1>5. Careful => Careful'
  BY <1>1, <1>2 DEF Careful, DestroyedIdle, NotLost, Unmarked, Held, InQueue, InMain, Waiting, InHand, AtWorker, OnSlot, Worker_Finish, queueVars, clientVars, TypeOK
<1> QED
  BY <1>1, <1>3, <1>4, <1>5 DEF Inv

-----------------------------------------------------------------------------
(* Posting                                                                 *)

\* The type of a posted queue.
LEMMA PostRequests ==
    ASSUME TypeOK, ThreadsAgree, NEW x \in Request, NEW front \in BOOLEAN, Post(<<x>>, front)
    PROVE  queue_tasks' \in Seq(Request)
<1> DEFINE q == Cleanup(queue_tasks, CancelTargets(<<x>>))
<1>1. queue_tasks \in Seq(Request) /\ Request \in SUBSET Entry
  BY DEF ThreadsAgree, Request, Entry
<1>2. q \in Seq(Request)
  BY <1>1, CleanupCounts
<1>3. queue_tasks' = IF front THEN Reverse(<<x>>) \o q ELSE q \o <<x>>
  BY DEF Post
<1> HIDE DEF q
<1>4. <<x>> \in Seq(Request)
  OBVIOUS
<1>5. Reverse(<<x>>) \in Seq(Request)
  BY <1>4, ReverseProperties
<1> QED
  BY <1>2, <1>3, <1>4, <1>5

\* A task posted to the back is one more of it, and changes no other count.
LEMMA PostTask ==
    ASSUME TypeOK, ThreadsAgree, NEW x \in Task, Post(<<TaskEntry(x)>>, FALSE)
    PROVE  /\ QueueTypeOK' /\ queue_tasks' \in Seq(Request)
           /\ \A t : /\ InQueue(t)' = InQueue(t) + (IF t = x THEN 1 ELSE 0)
                     /\ Cancels(t)' = Cancels(t)
<1> DEFINE es == <<TaskEntry(x)>>
<1>1. /\ TaskEntry(x) \in Request /\ TaskEntry(x) \in Entry
      /\ \A t : (TaskEntry(x) = TaskEntry(t) <=> x = t) /\ TaskEntry(x) # CancelEntry(t)
  BY DEF Request, TaskEntry, CancelEntry, Entry
<1>2. es \in Seq(Entry) /\ QueueTypeOK
  BY <1>1 DEF TypeOK
<1>3. CancelTargets(es) = {}
  BY DEF CancelTargets, ToSet, TaskEntry
<1>4. \A e : Occurrences(es, e) = IF TaskEntry(x) = e THEN 1 ELSE 0
  BY OccurrencesSingleton
<1>5. \A e : Occurrences(queue_tasks, e) \in Nat
  BY Numbers
<1>6. queue_tasks' \in Seq(Request)
  BY <1>1, PostRequests
<1> HIDE DEF es
<1>7. /\ QueueTypeOK'
      /\ \A t : /\ Occurrences(queue_tasks', TaskEntry(t)) = Occurrences(es, TaskEntry(t))
                     + (IF t \in CancelTargets(es) THEN 0 ELSE Occurrences(queue_tasks, TaskEntry(t)))
                /\ Occurrences(queue_tasks', CancelEntry(t))
                     = Occurrences(es, CancelEntry(t)) + Occurrences(queue_tasks, CancelEntry(t))
  BY <1>2, PostCounts DEF es
<1> QED
  BY <1>1, <1>3, <1>4, <1>5, <1>6, <1>7 DEF InQueue, Cancels

\* A CANCEL posted to the front takes the queued copies of its task.
LEMMA PostCancel ==
    ASSUME TypeOK, ThreadsAgree, NEW x \in Task, Post(<<CancelEntry(x)>>, TRUE)
    PROVE  /\ QueueTypeOK' /\ queue_tasks' \in Seq(Request)
           /\ \A t : /\ InQueue(t)' = IF t = x THEN 0 ELSE InQueue(t)
                     /\ Cancels(t)' = Cancels(t) + (IF t = x THEN 1 ELSE 0)
<1> DEFINE es == <<CancelEntry(x)>>
<1>1. /\ CancelEntry(x) \in Request /\ CancelEntry(x) \in Entry
      /\ \A t : (CancelEntry(x) = CancelEntry(t) <=> x = t) /\ CancelEntry(x) # TaskEntry(t)
  BY DEF Request, TaskEntry, CancelEntry, Entry
<1>2. es \in Seq(Entry) /\ QueueTypeOK
  BY <1>1 DEF TypeOK
<1>3. CancelTargets(es) = {x}
  BY DEF CancelTargets, ToSet, CancelEntry
<1>4. \A e : Occurrences(es, e) = IF CancelEntry(x) = e THEN 1 ELSE 0
  BY OccurrencesSingleton
<1>5. \A e : Occurrences(queue_tasks, e) \in Nat
  BY Numbers
<1>6. queue_tasks' \in Seq(Request)
  BY <1>1, PostRequests
<1> HIDE DEF es
<1>7. /\ QueueTypeOK'
      /\ \A t : /\ Occurrences(queue_tasks', TaskEntry(t)) = Occurrences(es, TaskEntry(t))
                     + (IF t \in CancelTargets(es) THEN 0 ELSE Occurrences(queue_tasks, TaskEntry(t)))
                /\ Occurrences(queue_tasks', CancelEntry(t))
                     = Occurrences(es, CancelEntry(t)) + Occurrences(queue_tasks, CancelEntry(t))
  BY <1>2, PostCounts DEF es
<1> QED
  BY <1>1, <1>3, <1>4, <1>5, <1>6, <1>7 DEF InQueue, Cancels

-----------------------------------------------------------------------------
(* The client                                                              *)

\* A task is posted once: nothing holds it before.
LEMMA ClientPostInv ==
    ASSUME Inv, NEW x \in Task, Client_Post(x)
    PROVE  Inv' /\ (~MaySleepAtWork /\ Careful => Careful')
<1>1. TypeOK /\ ThreadsAgree
  BY DEF Inv
<1>2. /\ QueueTypeOK' /\ queue_tasks' \in Seq(Request)
      /\ \A t : /\ InQueue(t)' = InQueue(t) + (IF t = x THEN 1 ELSE 0)
                /\ Cancels(t)' = Cancels(t)
  BY <1>1, PostTask DEF Client_Post
<1>3. TypeOK'
  BY <1>1, <1>2 DEF TypeOK, Client_Post, workerVars, serverVars
<1>4. ThreadsAgree'
  BY <1>1, <1>2 DEF ThreadsAgree, Client_Post, QueueUnlocked, workerVars, serverVars
<1>5. \A t : InQueue(t) \in Nat
  BY <1>1, Numbers DEF InQueue
<1>6. ASSUME NEW t \in Task
      PROVE  TaskInv(t)'
  <2>1. TaskInv(t)
    BY DEF Inv
  <2>2. OneHand(t)'
    BY <2>1, <1>2, <1>5 DEF TaskInv, OneHand, Held, InMain, Waiting, InHand, AtWorker, OnSlot, Client_Post, workerVars, serverVars
  <2>3. OneCancel(t)'
    BY <2>1, <1>2 DEF TaskInv, OneCancel, Cancelling, Client_Post, workerVars, serverVars
  <2>4. CaughtIsMarked(t)'
    BY <2>1, <1>2, <1>5 DEF TaskInv, CaughtIsMarked, OneCancel, Held, InMain, Waiting, InHand, AtWorker, OnSlot, Client_Post, workerVars, serverVars
  <2> QED
    BY <2>2, <2>3, <2>4 DEF TaskInv
<1>7. Careful => Careful'
  BY <1>1, <1>2, <1>5 DEF Inv, TaskInv, OneHand, Careful, DestroyedIdle, NotLost, Unmarked, Held, InMain, Waiting, InHand, AtWorker, OnSlot, Client_Post, workerVars, serverVars
<1> QED
  BY <1>3, <1>4, <1>6, <1>7 DEF Inv

\* A client that stops takes its task out of the queue.
LEMMA ClientStopInv ==
    ASSUME Inv, NEW x \in Task, Client_Stop(x)
    PROVE  Inv' /\ (~MaySleepAtWork /\ Careful => Careful')
<1>1. TypeOK /\ ThreadsAgree
  BY DEF Inv
<1>2. /\ QueueTypeOK' /\ queue_tasks' \in Seq(Request)
      /\ \A t : /\ InQueue(t)' = IF t = x THEN 0 ELSE InQueue(t)
                /\ Cancels(t)' = Cancels(t) + (IF t = x THEN 1 ELSE 0)
  BY <1>1, PostCancel DEF Client_Stop
<1>3. TypeOK'
  BY <1>1, <1>2 DEF TypeOK, Client_Stop, workerVars, serverVars
<1>4. ThreadsAgree'
  BY <1>1, <1>2 DEF ThreadsAgree, Client_Stop, QueueUnlocked, workerVars, serverVars
<1>5. \A t : InQueue(t) \in Nat /\ Cancels(t) \in Nat
  BY <1>1, Numbers DEF InQueue, Cancels
<1>6. ASSUME NEW t \in Task
      PROVE  TaskInv(t)'
  <2>1. TaskInv(t)
    BY DEF Inv
  <2>2. OneHand(t)'
    BY <2>1, <1>2, <1>5 DEF TaskInv, OneHand, Held, InMain, Waiting, InHand, AtWorker, OnSlot, Client_Stop, workerVars, serverVars
  <2>3. OneCancel(t)'
    BY <2>1, <1>2, <1>5 DEF TaskInv, OneCancel, CaughtIsMarked, Cancelling, Client_Stop, workerVars, serverVars
  <2>4. CaughtIsMarked(t)'
    BY <2>1, <1>2, <1>5 DEF TaskInv, CaughtIsMarked, OneCancel, Held, InMain, Waiting, InHand, AtWorker, OnSlot, Client_Stop, workerVars, serverVars
  <2> QED
    BY <2>2, <2>3, <2>4 DEF TaskInv
<1>7. Careful => Careful'
  BY <1>1, <1>2, <1>5 DEF Careful, DestroyedIdle, NotLost, Unmarked, Held, InMain, Waiting, InHand, AtWorker, OnSlot, Client_Stop, workerVars, serverVars
<1> QED
  BY <1>3, <1>4, <1>6, <1>7 DEF Inv

-----------------------------------------------------------------------------
(* The worker threads, continued                                           *)

\* The first task of the worker's queue passes to its hand.
LEMMA TakeInv ==
    ASSUME Inv, NEW w \in Worker, Worker_Take(w)
    PROVE  Inv' /\ (~MaySleepAtWork /\ Careful => Careful')
<1>1. TypeOK /\ ThreadsAgree
  BY DEF Inv
<1>2. CASE wpc' = [wpc EXCEPT ![w] = "exit"] /\ ~running[w] /\ UNCHANGED <<tasks, id_active>>
  <2>1. TypeOK'
    BY <1>1, <1>2 DEF TypeOK, QueueTypeOK, Worker_Take, queueVars, serverVars, clientVars
  <2>2. ThreadsAgree'
    BY <1>1, <1>2 DEF ThreadsAgree, TypeOK, Worker_Take, queueVars, serverVars, clientVars
  <2>3. ASSUME NEW t \in Task
        PROVE  TaskInv(t)'
    <3>1. TaskInv(t)
      BY DEF Inv
    <3>2. OneHand(t)'
      BY <3>1, <1>1, <1>2 DEF TaskInv, OneHand, Held, InQueue, InMain, Waiting, InHand, AtWorker, OnSlot, Worker_Take, TypeOK, queueVars, serverVars, clientVars
    <3>3. OneCancel(t)'
      BY <3>1, <1>1, <1>2 DEF TaskInv, OneCancel, Cancels, Cancelling, Worker_Take, queueVars, serverVars, clientVars
    <3>4. CaughtIsMarked(t)'
      BY <3>1, <1>1, <1>2 DEF TaskInv, CaughtIsMarked, Held, InQueue, InMain, Waiting, InHand, AtWorker, OnSlot, Worker_Take, TypeOK, queueVars, serverVars, clientVars
    <3> QED
      BY <3>2, <3>3, <3>4 DEF TaskInv
  <2>4. Careful => Careful'
    BY <1>1, <1>2 DEF Careful, DestroyedIdle, NotLost, Unmarked, Held, InQueue, InMain, Waiting, InHand, AtWorker, OnSlot, Worker_Take, TypeOK, queueVars, serverVars, clientVars
  <2> QED
    BY <2>1, <2>2, <2>3, <2>4 DEF Inv
<1>3. CASE /\ running[w] /\ tasks[w] # <<>>
           /\ id_active' = [id_active EXCEPT ![w] = Head(tasks[w])]
           /\ tasks' = [tasks EXCEPT ![w] = Tail(@)]
           /\ wpc' = [wpc EXCEPT ![w] = "process"]
  <2>1. PICK x \in Task : x = Head(tasks[w])
    BY <1>1, <1>3, Numbers, HeadTailProperties
  <2>2. /\ tasks[w] \in Seq(Task) /\ Tail(tasks[w]) \in Seq(Task)
        /\ \A t : /\ Waiting(w, t) \in Nat
                  /\ Occurrences(Tail(tasks[w]), t) \in Nat
                  /\ Waiting(w, t) = (IF x = t THEN 1 ELSE 0) + Occurrences(Tail(tasks[w]), t)
    <3>1. tasks[w] \in Seq(Task) /\ Tail(tasks[w]) \in Seq(Task)
      BY <1>1, <1>3, Numbers, HeadTailProperties
    <3> QED
      BY <3>1, <2>1, <1>3, OccurrencesTail, OccurrencesType DEF Waiting
  <2>3. TypeOK'
    BY <1>1, <1>3, <2>1, <2>2 DEF TypeOK, QueueTypeOK, Worker_Take, queueVars, serverVars, clientVars
  <2>4. wpc[w] = "wait" /\ id_active[w] = NoTask /\ id_returning[w] = NoTask
    BY <1>1 DEF Worker_Take, ThreadsAgree
  <2>5. ThreadsAgree'
    BY <1>1, <1>3, <2>1, <2>4, TaskAssumption DEF ThreadsAgree, TypeOK, Worker_Take, queueVars, serverVars, clientVars
  <2>6. \A v \in Worker : \A t : Waiting(v, t)' = IF v = w THEN Waiting(w, t) - (IF x = t THEN 1 ELSE 0)
                                                ELSE Waiting(v, t)
    BY <1>1, <1>3, <2>2 DEF Waiting, TypeOK
  <2>7. ASSUME NEW t \in Task
        PROVE  TaskInv(t)'
    <3>1. TaskInv(t)
      BY DEF Inv
    <3>2. OneHand(t)'
      BY <3>1, <1>1, <1>3, <2>1, <2>2, <2>4, <2>6, TaskAssumption DEF TaskInv, OneHand, Held, InQueue, InMain, InHand, AtWorker, OnSlot, Worker_Take, TypeOK, queueVars, serverVars, clientVars
    <3>3. OneCancel(t)'
      BY <3>1, <1>1 DEF TaskInv, OneCancel, Cancels, Cancelling, Worker_Take, queueVars, serverVars, clientVars
    <3>4. CaughtIsMarked(t)'
      BY <3>1, <1>1, <1>3, <2>1, <2>2, <2>4, <2>6, TaskAssumption DEF TaskInv, CaughtIsMarked, Held, InQueue, InMain, InHand, AtWorker, OnSlot, Worker_Take, TypeOK, queueVars, serverVars, clientVars
    <3> QED
      BY <3>2, <3>3, <3>4 DEF TaskInv
  <2>8. Careful => Careful'
    <3>1. SUFFICES ASSUME Careful PROVE Careful'
      OBVIOUS
    <3>2. DestroyedIdle'
      BY <3>1, <1>1, <1>3 DEF Careful, DestroyedIdle, Worker_Take, TypeOK, queueVars, serverVars, clientVars
    <3>3. ASSUME NEW t \in Task
          PROVE  NotLost(t)' /\ Unmarked(t)'
      <4>1. NotLost(t) /\ Unmarked(t)
        BY <3>1 DEF Careful
      <4>2. NotLost(t)'
        <5>1. \A v \in Worker : AtWorker(v, t) => AtWorker(v, t)'
          BY <1>1, <1>3, <2>1, <2>2, <2>4, <2>6, TaskAssumption DEF InHand, AtWorker, TypeOK, Worker_Take
        <5>2. Held(t) => Held(t)'
          BY <5>1 DEF Held, InQueue, InMain, OnSlot, Worker_Take, queueVars, serverVars, clientVars
        <5>3. prefill_pending[t] \in Worker \cup {NoTask}
          BY <1>1 DEF TypeOK
        <5> QED
          BY <4>1, <5>1, <5>2, <5>3 DEF NotLost, InQueue, Worker_Take, queueVars, serverVars, clientVars
      <4>3. Unmarked(t)'
        BY <4>1, <1>1, <1>3, <2>1, <2>2, <2>4, <2>6, TaskAssumption DEF Unmarked, Worker_Take, TypeOK, queueVars, serverVars, clientVars
      <4> QED
        BY <4>2, <4>3
    <3> QED
      BY <3>2, <3>3 DEF Careful
  <2> QED
    BY <2>3, <2>5, <2>7, <2>8 DEF Inv
<1> QED
  BY <1>2, <1>3 DEF Worker_Take

\* The task goes from the worker's hand to the queue.
LEMMA ReturnInv ==
    ASSUME Inv, NEW w \in Worker, Worker_Return(w)
    PROVE  Inv' /\ (~MaySleepAtWork /\ Careful => Careful')
<1>1. TypeOK /\ ThreadsAgree
  BY DEF Inv
<1>2. PICK x \in Task : x = id_returning[w]
  BY <1>1 DEF Worker_Return, ThreadsAgree, TypeOK
<1>3. /\ QueueTypeOK' /\ queue_tasks' \in Seq(Request)
      /\ \A t : /\ InQueue(t)' = InQueue(t) + (IF t = x THEN 1 ELSE 0)
                /\ Cancels(t)' = Cancels(t)
  BY <1>1, <1>2, PostTask DEF Worker_Return
<1>4. TypeOK'
  BY <1>1, <1>3 DEF TypeOK, Worker_Return, serverVars, clientVars
<1>5. ThreadsAgree'
  BY <1>1, <1>3 DEF ThreadsAgree, TypeOK, Worker_Return, QueueUnlocked, serverVars, clientVars
<1>6. \A t : InQueue(t) \in Nat /\ \A v \in Worker : Waiting(v, t) \in Nat
  BY <1>1, Numbers DEF InQueue, Waiting
<1>7. wpc[w] = "return" /\ id_active[w] = NoTask
  BY <1>1 DEF Worker_Return, ThreadsAgree
<1>8. ASSUME NEW t \in Task
      PROVE  TaskInv(t)'
  <2>1. TaskInv(t)
    BY DEF Inv
  <2>2. OneHand(t)'
    BY <2>1, <1>1, <1>2, <1>3, <1>6, <1>7, TaskAssumption, PrefillAssumption DEF TaskInv, OneHand, Held, InMain, Waiting, InHand, AtWorker, OnSlot, Worker_Return, TypeOK, serverVars, clientVars
  <2>3. OneCancel(t)'
    BY <2>1, <1>3 DEF TaskInv, OneCancel, Cancelling, Worker_Return, serverVars, clientVars
  <2>4. CaughtIsMarked(t)'
    BY <2>1, <1>1, <1>2, <1>3, <1>6, <1>7 DEF TaskInv, CaughtIsMarked, Held, InMain, Waiting, InHand, AtWorker, OnSlot, Worker_Return, TypeOK, serverVars, clientVars
  <2> QED
    BY <2>2, <2>3, <2>4 DEF TaskInv
<1>9. Careful => Careful'
  <2>1. SUFFICES ASSUME Careful PROVE Careful'
    OBVIOUS
  <2>2. DestroyedIdle'
    BY <2>1, <1>1 DEF Careful, DestroyedIdle, Worker_Return, QueueUnlocked, Waiting, TypeOK, serverVars, clientVars
  <2>3. ASSUME NEW t \in Task
        PROVE  NotLost(t)' /\ Unmarked(t)'
    <3>1. NotLost(t) /\ Unmarked(t)
      BY <2>1 DEF Careful
    <3>2. NotLost(t)'
      <4>1. \A v \in Worker : AtWorker(v, t) => AtWorker(v, t)' \/ InQueue(t)' > 0
        BY <1>1, <1>2, <1>3, <1>6, <1>7 DEF InHand, AtWorker, Waiting, TypeOK, Worker_Return
      <4>2. InQueue(t) > 0 => InQueue(t)' > 0
        BY <1>3, <1>6
      <4>3. Held(t) => Held(t)'
        BY <4>1, <4>2 DEF Held, InMain, OnSlot, Worker_Return, serverVars, clientVars
      <4>4. prefill_pending[t] \in Worker \cup {NoTask}
        BY <1>1 DEF TypeOK
      <4> QED
        BY <3>1, <4>1, <4>2, <4>3, <4>4 DEF NotLost, Worker_Return, serverVars, clientVars
    <3>3. Unmarked(t)'
      BY <3>1, <1>1, <1>2, <1>3, <1>6, <1>7 DEF Unmarked, Worker_Return, QueueUnlocked, Waiting, TypeOK, serverVars, clientVars
    <3> QED
      BY <3>2, <3>3
  <2> QED
    BY <2>2, <2>3 DEF Careful
<1> QED
  BY <1>4, <1>5, <1>8, <1>9 DEF Inv

\* A worker that has given its task back forgets it.
LEMMA ClearInv ==
    ASSUME Inv, NEW w \in Worker, Worker_Clear(w)
    PROVE  Inv' /\ (~MaySleepAtWork /\ Careful => Careful')
<1>1. TypeOK /\ ThreadsAgree
  BY DEF Inv
<1>2. TypeOK'
  BY <1>1 DEF TypeOK, QueueTypeOK, Worker_Clear, queueVars, serverVars, clientVars
<1>3. ThreadsAgree'
  BY <1>1 DEF ThreadsAgree, TypeOK, Worker_Clear, queueVars, serverVars, clientVars
<1>4. ASSUME NEW t \in Task
      PROVE  TaskInv(t)'
  <2>1. TaskInv(t)
    BY DEF Inv
  <2>2. OneHand(t)'
    BY <2>1, <1>1, TaskAssumption DEF TaskInv, OneHand, Held, InQueue, InMain, Waiting, InHand, AtWorker, OnSlot, Worker_Clear, TypeOK, queueVars, serverVars, clientVars
  <2>3. OneCancel(t)'
    BY <2>1 DEF TaskInv, OneCancel, Cancels, Cancelling, Worker_Clear, queueVars, serverVars, clientVars
  <2>4. CaughtIsMarked(t)'
    BY <2>1, <1>1, TaskAssumption DEF TaskInv, CaughtIsMarked, Held, InQueue, InMain, Waiting, InHand, AtWorker, OnSlot, Worker_Clear, TypeOK, queueVars, serverVars, clientVars
  <2> QED
    BY <2>2, <2>3, <2>4 DEF TaskInv
<1>5. Careful => Careful'
  BY <1>1, TaskAssumption DEF Careful, DestroyedIdle, NotLost, Unmarked, Held, InQueue, InMain, Waiting, InHand, AtWorker, OnSlot, Worker_Clear, TypeOK, queueVars, serverVars, clientVars
<1> QED
  BY <1>2, <1>3, <1>4, <1>5 DEF Inv

-----------------------------------------------------------------------------
(* The main thread                                                         *)

\* The first entry of the queue passes to the main thread.
LEMMA PopInv ==
    ASSUME Inv, Main_Pop
    PROVE  Inv' /\ (~MaySleepAtWork /\ Careful => Careful')
<1>1. TypeOK /\ ThreadsAgree
  BY DEF Inv
<1>2. /\ queue_tasks \in Seq(Request) /\ queue_tasks # <<>> /\ queue_tasks' = Tail(queue_tasks)
      /\ queue_tasks \in Seq(Entry)
  BY <1>1 DEF Main_Pop, TakeFront, ThreadsAgree, TypeOK, QueueTypeOK
<1>3. PICK x \in Request : x = Head(queue_tasks)
  BY <1>2, HeadTailProperties
<1>4. queue_tasks' \in Seq(Request) /\ queue_tasks' \in Seq(Entry)
  BY <1>2, HeadTailProperties
<1>5. \A e : /\ Occurrences(queue_tasks', e) \in Nat /\ Occurrences(queue_tasks, e) \in Nat
             /\ Occurrences(queue_tasks, e) = (IF x = e THEN 1 ELSE 0) + Occurrences(queue_tasks', e)
  BY <1>2, <1>3, <1>4, OccurrencesTail, OccurrencesType
<1>6. /\ \A t : InQueue(t) = (IF x = TaskEntry(t) THEN 1 ELSE 0) + InQueue(t)'
      /\ \A t : Cancels(t) = (IF x = CancelEntry(t) THEN 1 ELSE 0) + Cancels(t)'
      /\ \A t : InQueue(t)' \in Nat /\ Cancels(t)' \in Nat
  BY <1>5 DEF InQueue, Cancels
<1>7. /\ main = "pop" /\ main' = "process" /\ cur = NextEntry /\ cur' = x
      /\ \A t : ~InMain(t) /\ ~Cancelling(t)
      /\ \A t : InMain(t)' <=> x = TaskEntry(t)
      /\ \A t : Cancelling(t)' <=> x = CancelEntry(t)
  BY <1>1, <1>3 DEF Main_Pop, ThreadsAgree, InMain, Cancelling, NextEntry, TaskEntry
<1>8. TypeOK'
  <2>1. x \in Entry
    BY DEF Request, Entry
  <2> QED
    BY <1>1, <1>4, <1>7, <2>1 DEF TypeOK, QueueTypeOK, Main_Pop, TakeFront, workerVars, clientVars
<1>9. ThreadsAgree'
  <2>1. x # NextEntry
    BY DEF Request, NextEntry
  <2> QED
    BY <1>1, <1>4, <1>7, <2>1 DEF ThreadsAgree, Main_Pop, workerVars
<1>10. ASSUME NEW t \in Task
       PROVE  TaskInv(t)'
  <2>1. TaskInv(t)
    BY DEF Inv
  <2>2. \A w \in Worker : /\ AtWorker(w, t)' <=> AtWorker(w, t)
                          /\ InHand(w, t)' <=> InHand(w, t)
                          /\ Waiting(w, t)' = Waiting(w, t)
    BY DEF AtWorker, InHand, Waiting, Main_Pop, workerVars
  <2>3. Held(t)' => Held(t)
    BY <1>6, <1>7, <2>2 DEF Held, OnSlot, Main_Pop, clientVars
  <2>4. OneHand(t)'
    BY <2>1, <2>2, <2>3, <1>6, <1>7 DEF TaskInv, OneHand, OnSlot, Main_Pop, clientVars
  <2>5. OneCancel(t)'
    BY <2>1, <1>6, <1>7 DEF TaskInv, OneCancel, Main_Pop, clientVars
  <2>6. CaughtIsMarked(t)'
    BY <2>1, <2>3 DEF TaskInv, CaughtIsMarked, OnSlot, Main_Pop, clientVars
  <2> QED
    BY <2>4, <2>5, <2>6 DEF TaskInv
<1>11. Careful => Careful'
  <2>1. SUFFICES ASSUME Careful PROVE Careful'
    OBVIOUS
  <2>2. DestroyedIdle'
    BY <1>7 DEF DestroyedIdle
  <2>3. ASSUME NEW t \in Task
        PROVE  NotLost(t)' /\ Unmarked(t)'
    <3>1. NotLost(t) /\ Unmarked(t)
      BY <2>1 DEF Careful
    <3>2. \A w \in Worker : AtWorker(w, t)' <=> AtWorker(w, t)
      BY DEF AtWorker, InHand, Waiting, Main_Pop, workerVars
    <3>3. Held(t) => Held(t)'
      BY <1>6, <1>7, <3>2 DEF Held, OnSlot, Main_Pop, clientVars
    <3>4. InQueue(t) > 0 => InQueue(t)' > 0 \/ cur' = TaskEntry(t)
      BY <1>6, <1>7
    <3>5. cur # TaskEntry(t)
      BY <1>7 DEF InMain
    <3>6. prefill_pending[t] \in Worker \cup {NoTask}
      BY <1>1 DEF TypeOK
    <3> QED
      BY <3>1, <3>2, <3>3, <3>4, <3>5, <3>6 DEF NotLost, Unmarked, Main_Pop, workerVars, clientVars
  <2> QED
    BY <2>2, <2>3 DEF Careful
<1> QED
  BY <1>8, <1>9, <1>10, <1>11 DEF Inv

\* A task that comes back runs, unless it is marked; either way no worker has it.
LEMMA ReturnedInv ==
    ASSUME Inv, Main_Returned
    PROVE  Inv' /\ (~MaySleepAtWork /\ Careful => Careful')
<1>1. TypeOK /\ ThreadsAgree
  BY DEF Inv
<1>2. PICK x \in Task : cur = TaskEntry(x)
  BY <1>1 DEF Main_Returned, ThreadsAgree, Request, NextEntry, TaskEntry
<1>3. /\ main = "process" /\ main' = "pop" /\ cur' = NextEntry /\ cur.id = x /\ x \in attempted
      /\ \A t : (cur = TaskEntry(t) <=> t = x) /\ cur # CancelEntry(t)
      /\ \A t : cur' # TaskEntry(t) /\ cur' # CancelEntry(t)
  BY <1>2 DEF Main_Returned, BackToPop, TaskEntry, CancelEntry, NextEntry
<1>4. /\ prefill_pending' = [prefill_pending EXCEPT ![x] = NoTask]
      /\ prefill_cancelled' = IF x \in marked THEN prefill_cancelled ELSE prefill_cancelled \ {x}
      /\ slotted' = IF x \in marked \cup prefill_cancelled THEN slotted ELSE slotted \cup {x}
  BY <1>3 DEF Main_Returned
<1>5. TypeOK'
  BY <1>1, <1>3, <1>4 DEF TypeOK, QueueTypeOK, Main_Returned, Entry, NextEntry, queueVars, workerVars, clientVars
<1>6. ThreadsAgree'
  BY <1>1, <1>3 DEF ThreadsAgree, Main_Returned, queueVars, workerVars
<1>7. \A t \in Task : /\ InMain(t) <=> t = x
                      /\ ~InMain(t)' /\ ~Cancelling(t) /\ ~Cancelling(t)'
                      /\ InQueue(t)' = InQueue(t) /\ Cancels(t)' = Cancels(t)
                      /\ OnSlot(t)' <=> OnSlot(t) \/ (t = x /\ x \notin marked \cup prefill_cancelled)
                      /\ \A w \in Worker : /\ AtWorker(w, t)' <=> AtWorker(w, t)
                                           /\ InHand(w, t)' <=> InHand(w, t)
                                           /\ Waiting(w, t)' = Waiting(w, t)
  BY <1>3, <1>4 DEF InMain, InQueue, Cancels, Cancelling, OnSlot, AtWorker, InHand, Waiting,
     Main_Returned, queueVars, workerVars, clientVars
<1>8. ASSUME NEW t \in Task
      PROVE  TaskInv(t)'
  <2>1. TaskInv(t)
    BY DEF Inv
  <2>2. Held(t)' => Held(t)
    BY <1>7 DEF Held
  <2>3. OneHand(t)'
    BY <2>1, <2>2, <1>1, <1>4, <1>7 DEF TaskInv, OneHand, Main_Returned, clientVars, TypeOK
  <2>4. OneCancel(t)'
    BY <2>1, <1>7 DEF TaskInv, OneCancel, Main_Returned, clientVars
  <2>5. CaughtIsMarked(t)'
    BY <2>1, <2>2, <1>4, <1>7 DEF TaskInv, CaughtIsMarked, OneHand, Held, Main_Returned, clientVars
  <2> QED
    BY <2>3, <2>4, <2>5 DEF TaskInv
<1>9. Careful => Careful'
  <2>1. SUFFICES ASSUME Careful PROVE Careful'
    OBVIOUS
  <2>2. DestroyedIdle'
    BY <1>3 DEF DestroyedIdle
  <2>3. ASSUME NEW t \in Task
        PROVE  NotLost(t)' /\ Unmarked(t)'
    <3>1. NotLost(t) /\ Unmarked(t)
      BY <2>1 DEF Careful
    <3>2. t \in posted \ stopped => Held(t)'
      BY <3>1, <1>7 DEF Held, NotLost
    <3>3. prefill_pending[t] \in Worker \cup {NoTask}
      BY <1>1 DEF TypeOK
    <3>4. t # x => prefill_pending'[t] = prefill_pending[t] /\ cur # TaskEntry(t)
      BY <1>1, <1>3, <1>4 DEF TypeOK
    <3>5. prefill_pending'[x] = NoTask
      BY <1>1, <1>4 DEF TypeOK
    <3> QED
      BY <3>1, <3>2, <3>3, <3>4, <3>5, <1>4, <1>7 DEF NotLost, Unmarked, Main_Returned, workerVars, clientVars
  <2> QED
    BY <2>2, <2>3 DEF Careful
<1> QED
  BY <1>5, <1>6, <1>8, <1>9 DEF Inv

\* A new task goes to a worker that runs, or to a slot.
LEMMA DispatchInv ==
    ASSUME Inv, Main_Dispatch
    PROVE  Inv' /\ (~MaySleepAtWork /\ Careful => Careful')
<1>1. TypeOK /\ ThreadsAgree
  BY DEF Inv
<1>2. PICK x \in Task : cur = TaskEntry(x)
  BY <1>1 DEF Main_Dispatch, ThreadsAgree, Request, NextEntry, TaskEntry
<1>3. /\ main = "process" /\ main' = "pop" /\ cur' = NextEntry /\ cur.id = x /\ x \notin attempted
      /\ \A t : (cur = TaskEntry(t) <=> t = x) /\ cur # CancelEntry(t)
      /\ \A t : cur' # TaskEntry(t) /\ cur' # CancelEntry(t)
  BY <1>2 DEF Main_Dispatch, BackToPop, TaskEntry, CancelEntry, NextEntry
<1>4. \A t \in Task : /\ InMain(t) <=> t = x
                      /\ ~InMain(t)' /\ ~Cancelling(t) /\ ~Cancelling(t)'
                      /\ InQueue(t)' = InQueue(t) /\ Cancels(t)' = Cancels(t)
  BY <1>3 DEF InMain, InQueue, Cancels, Cancelling, Main_Dispatch, queueVars
<1>5. \A w \in Worker : tasks[w] \in Seq(Task) /\ \A e : Occurrences(tasks[w], e) \in Nat
  BY <1>1, Numbers
<1>6. \A t \in Task : InQueue(t) \in Nat
  BY <1>1, Numbers DEF InQueue
<1>7. CASE x \in Eligible
  <2>1. PICK w \in Worker : /\ running[w]
                            /\ tasks' = [tasks EXCEPT ![w] = Append(@, x)]
                            /\ prefill_pending' = [prefill_pending EXCEPT ![x] = w]
    BY <1>3, <1>7 DEF Main_Dispatch
  <2>2. attempted' = attempted \cup {x} /\ slotted' = slotted
    BY <1>3, <1>7 DEF Main_Dispatch
  <2>3. /\ tasks' \in [Worker -> Seq(Task)]
        /\ \A v \in Worker : tasks'[v] = IF v = w THEN Append(tasks[w], x) ELSE tasks[v]
    BY <2>1, <1>1, <1>5 DEF TypeOK
  <2>4. \A v \in Worker : \A t :
           Waiting(v, t)' = Waiting(v, t) + (IF v = w /\ t = x THEN 1 ELSE 0)
    <3>1. \A t : Occurrences(Append(tasks[w], x), t)
                     = Occurrences(tasks[w], t) + (IF x = t THEN 1 ELSE 0)
      BY <1>5, OccurrencesAppend
    <3>2. ASSUME NEW v \in Worker, NEW t
          PROVE  Occurrences(tasks'[v], t)
                    = Occurrences(tasks[v], t) + (IF v = w /\ t = x THEN 1 ELSE 0)
      <4>1. Occurrences(tasks[v], t) \in Nat
        BY <1>5
      <4>2. CASE v = w
        BY <4>2, <2>3, <3>1
      <4>3. CASE v # w
        BY <4>1, <4>3, <2>3
      <4> QED
        BY <4>2, <4>3
    <3> QED
      BY <3>2 DEF Waiting
  <2>5. \A v \in Worker : \A t : /\ Waiting(v, t) \in Nat
                                 /\ InHand(v, t)' <=> InHand(v, t)
    BY <1>5 DEF Waiting, InHand, Main_Dispatch
  <2>6. TypeOK'
    BY <1>1, <1>3, <2>1, <2>2, <2>3, PrefillAssumption DEF TypeOK, QueueTypeOK, Main_Dispatch, Entry, NextEntry, queueVars, clientVars
  <2>7. ThreadsAgree'
    BY <1>1, <1>3, <2>1, <2>3 DEF ThreadsAgree, Main_Dispatch, queueVars
  <2>8. \A v \in Worker : \A t : AtWorker(v, t)' <=> AtWorker(v, t) \/ (v = w /\ t = x)
    BY <2>4, <2>5 DEF AtWorker
  <2>9. \A t \in Task : OnSlot(t)' <=> OnSlot(t)
    BY <2>2 DEF OnSlot, Main_Dispatch, clientVars
  <2>10. \A t \in Task : prefill_pending'[t] = IF t = x THEN w ELSE prefill_pending[t]
    BY <2>1, <1>1 DEF TypeOK
  <2>11. ASSUME NEW t \in Task
         PROVE  TaskInv(t)'
    <3>1. TaskInv(t)
      BY DEF Inv
    <3>2. Held(t)' => Held(t)
      BY <1>4, <2>8, <2>9 DEF Held
    <3>3. OneHand(t)'
      <4>1. CASE t = x
        <5>1. /\ InQueue(t) <= 1 /\ InQueue(t)' = InQueue(t) /\ ~(InQueue(t) > 0)
              /\ ~OnSlot(t) /\ t \in posted
              /\ \A v \in Worker : ~AtWorker(v, t)
          BY <3>1, <4>1, <1>4 DEF TaskInv, OneHand, Held
        <5>2. \A v \in Worker : ~(Waiting(v, t) > 0) /\ ~InHand(v, t)
          BY <5>1 DEF AtWorker
        <5>3. \A v \in Worker : /\ Waiting(v, t)' <= 1 /\ ~InHand(v, t)'
                                /\ AtWorker(v, t)' => v = w
          BY <5>1, <5>2, <2>4, <2>5, <2>8
        <5>4. InQueue(t)' = 0 /\ ~InMain(t)' /\ ~OnSlot(t)'
          BY <5>1, <1>4, <1>6, <2>9
        <5> QED
          BY <5>1, <5>3, <5>4, <4>1, <2>2, <2>10 DEF OneHand, Main_Dispatch, clientVars
      <4>2. CASE t # x
        BY <4>2, <3>1, <3>2, <1>4, <2>2, <2>4, <2>5, <2>8, <2>9, <2>10 DEF TaskInv, OneHand, Main_Dispatch, clientVars
      <4> QED
        BY <4>1, <4>2
    <3>4. OneCancel(t)'
      BY <3>1, <1>4 DEF TaskInv, OneCancel, Main_Dispatch, clientVars
    <3>5. CaughtIsMarked(t)'
      BY <3>1, <3>2, <2>2, <2>9 DEF TaskInv, CaughtIsMarked, Main_Dispatch, clientVars
    <3> QED
      BY <3>3, <3>4, <3>5 DEF TaskInv
  <2>12. Careful => Careful'
    <3>1. SUFFICES ASSUME Careful PROVE Careful'
      OBVIOUS
    <3>2. DestroyedIdle'
      BY <1>3 DEF DestroyedIdle
    <3>3. ASSUME NEW t \in Task
          PROVE  NotLost(t)' /\ Unmarked(t)'
      <4>1. NotLost(t) /\ Unmarked(t)
        BY <3>1 DEF Careful
      <4>2. Held(t) => Held(t)'
        BY <1>4, <2>8, <2>9 DEF Held
      <4>3. prefill_pending[t] \in Worker \cup {NoTask}
        BY <1>1 DEF TypeOK
      <4> QED
        BY <4>1, <4>2, <4>3, <1>3, <1>4, <2>8, <2>10 DEF NotLost, Unmarked, Main_Dispatch, clientVars
    <3> QED
      BY <3>2, <3>3 DEF Careful
  <2> QED
    BY <2>6, <2>7, <2>11, <2>12 DEF Inv
<1>8. CASE x \notin Eligible
  <2>1. slotted' = slotted \cup {x} /\ UNCHANGED <<tasks, prefill_pending, attempted>>
    BY <1>3, <1>8 DEF Main_Dispatch
  <2>2. TypeOK'
    BY <1>1, <1>3, <2>1 DEF TypeOK, QueueTypeOK, Main_Dispatch, Entry, NextEntry, queueVars, clientVars
  <2>3. ThreadsAgree'
    BY <1>1, <1>3, <2>1 DEF ThreadsAgree, Main_Dispatch, queueVars
  <2>4. \A v \in Worker : \A t : /\ AtWorker(v, t)' <=> AtWorker(v, t)
                                 /\ InHand(v, t)' <=> InHand(v, t)
                                 /\ Waiting(v, t)' = Waiting(v, t)
    BY <2>1 DEF AtWorker, InHand, Waiting, Main_Dispatch
  <2>5. \A t \in Task : OnSlot(t)' <=> OnSlot(t) \/ t = x
    BY <2>1 DEF OnSlot, Main_Dispatch, clientVars
  <2>6. ASSUME NEW t \in Task
        PROVE  TaskInv(t)'
    <3>1. TaskInv(t)
      BY DEF Inv
    <3>2. Held(t)' => Held(t)
      BY <1>4, <2>4, <2>5 DEF Held
    <3>3. OneHand(t)'
      BY <3>1, <3>2, <1>3, <1>4, <2>1, <2>4, <2>5 DEF TaskInv, OneHand, Main_Dispatch, clientVars
    <3>4. OneCancel(t)'
      BY <3>1, <1>4 DEF TaskInv, OneCancel, Main_Dispatch, clientVars
    <3>5. CaughtIsMarked(t)'
      BY <3>1, <3>2, <1>3, <2>1, <2>5 DEF TaskInv, CaughtIsMarked, Main_Dispatch, clientVars
    <3> QED
      BY <3>3, <3>4, <3>5 DEF TaskInv
  <2>7. Careful => Careful'
    <3>1. SUFFICES ASSUME Careful PROVE Careful'
      OBVIOUS
    <3>2. DestroyedIdle'
      BY <1>3 DEF DestroyedIdle
    <3>3. ASSUME NEW t \in Task
          PROVE  NotLost(t)' /\ Unmarked(t)'
      <4>1. NotLost(t) /\ Unmarked(t) /\ OneHand(t)
        BY <3>1 DEF Careful, Inv, TaskInv
      <4>2. Held(t) => Held(t)'
        BY <1>4, <2>4, <2>5 DEF Held
      <4>3. prefill_pending[t] \in Worker \cup {NoTask}
        BY <1>1 DEF TypeOK
      <4>4. t = x => prefill_pending[t] = NoTask
        BY <4>1, <1>3 DEF OneHand
      <4> QED
        BY <4>1, <4>2, <4>3, <4>4, <1>3, <1>4, <2>1, <2>4 DEF NotLost, Unmarked, Main_Dispatch, clientVars
    <3> QED
      BY <3>2, <3>3 DEF Careful
  <2> QED
    BY <2>2, <2>3, <2>6, <2>7 DEF Inv
<1> QED
  BY <1>7, <1>8

\* The task that cancel() took from a worker's queue goes back to the queue.
LEMMA CancelReturnInv ==
    ASSUME Inv, Main_CancelReturn
    PROVE  Inv' /\ (~MaySleepAtWork /\ Careful => Careful')
<1>1. TypeOK /\ ThreadsAgree
  BY DEF Inv
<1>2. PICK x \in Task : cur = CancelEntry(x)
  BY <1>1 DEF Main_CancelReturn, ThreadsAgree, Request, NextEntry, CancelEntry
<1>3. /\ main = "return" /\ main' = "pop" /\ cur' = NextEntry /\ cur.id = x
      /\ \A t : cur # TaskEntry(t) /\ cur' # TaskEntry(t) /\ cur' # CancelEntry(t)
  BY <1>2 DEF Main_CancelReturn, BackToPop, TaskEntry, CancelEntry, NextEntry
<1>4. /\ QueueTypeOK' /\ queue_tasks' \in Seq(Request)
      /\ \A t : /\ InQueue(t)' = InQueue(t) + (IF t = x THEN 1 ELSE 0)
                /\ Cancels(t)' = Cancels(t)
  BY <1>1, <1>3, PostTask DEF Main_CancelReturn
<1>5. \A t : InQueue(t) \in Nat
  BY <1>1, Numbers DEF InQueue
<1>6. TypeOK'
  BY <1>1, <1>3, <1>4 DEF TypeOK, Main_CancelReturn, Entry, NextEntry, workerVars
<1>7. ThreadsAgree'
  BY <1>1, <1>3, <1>4 DEF ThreadsAgree, Main_CancelReturn, workerVars
<1>8. \A t \in Task : /\ InMain(t) <=> t = x
                      /\ ~InMain(t)' /\ ~Cancelling(t) /\ ~Cancelling(t)'
                      /\ OnSlot(t)' <=> OnSlot(t)
                      /\ \A w \in Worker : /\ AtWorker(w, t)' <=> AtWorker(w, t)
                                           /\ InHand(w, t)' <=> InHand(w, t)
                                           /\ Waiting(w, t)' = Waiting(w, t)
  BY <1>3 DEF InMain, Cancelling, OnSlot, AtWorker, InHand, Waiting, Main_CancelReturn, workerVars
<1>9. ASSUME NEW t \in Task
      PROVE  TaskInv(t)'
  <2>1. TaskInv(t)
    BY DEF Inv
  <2>2. Held(t)' => Held(t)
    BY <1>4, <1>5, <1>8 DEF Held
  <2>3. OneHand(t)'
    BY <2>1, <2>2, <1>4, <1>5, <1>8 DEF TaskInv, OneHand, Main_CancelReturn
  <2>4. OneCancel(t)'
    BY <2>1, <1>4, <1>8 DEF TaskInv, OneCancel, Main_CancelReturn
  <2>5. CaughtIsMarked(t)'
    BY <2>1, <2>2, <1>8 DEF TaskInv, CaughtIsMarked, Main_CancelReturn
  <2> QED
    BY <2>3, <2>4, <2>5 DEF TaskInv
<1>10. Careful => Careful'
  <2>1. SUFFICES ASSUME Careful PROVE Careful'
    OBVIOUS
  <2>2. DestroyedIdle'
    BY <1>3 DEF DestroyedIdle
  <2>3. ASSUME NEW t \in Task
        PROVE  NotLost(t)' /\ Unmarked(t)'
    <3>1. NotLost(t) /\ Unmarked(t)
      BY <2>1 DEF Careful
    <3>2. Held(t) => Held(t)'
      BY <1>4, <1>5, <1>8 DEF Held
    <3>3. prefill_pending[t] \in Worker \cup {NoTask}
      BY <1>1 DEF TypeOK
    <3>4. InQueue(t) > 0 => InQueue(t)' > 0
      BY <1>4, <1>5
    <3> QED
      BY <3>1, <3>2, <3>3, <3>4, <1>3, <1>8 DEF NotLost, Unmarked, Main_CancelReturn, workerVars
  <2> QED
    BY <2>2, <2>3 DEF Careful
<1> QED
  BY <1>6, <1>7, <1>9, <1>10 DEF Inv

\* A task that is answered leaves its slot.
LEMMA MainAnswerInv ==
    ASSUME Inv, NEW x \in Task, Main_Answer(x)
    PROVE  Inv' /\ (~MaySleepAtWork /\ Careful => Careful')
<1>1. TypeOK /\ ThreadsAgree
  BY DEF Inv
<1>2. TypeOK'
  BY <1>1 DEF TypeOK, QueueTypeOK, Main_Answer, queueVars, workerVars
<1>3. ThreadsAgree'
  BY <1>1 DEF ThreadsAgree, Main_Answer, queueVars, workerVars
<1>4. \A t \in Task : /\ InMain(t)' <=> InMain(t)
                      /\ Cancelling(t)' <=> Cancelling(t)
                      /\ InQueue(t)' = InQueue(t) /\ Cancels(t)' = Cancels(t)
                      /\ OnSlot(t)' <=> OnSlot(t)
                      /\ \A w \in Worker : /\ AtWorker(w, t)' <=> AtWorker(w, t)
                                           /\ InHand(w, t)' <=> InHand(w, t)
                                           /\ Waiting(w, t)' = Waiting(w, t)
  BY DEF InMain, InQueue, Cancels, Cancelling, OnSlot, AtWorker, InHand, Waiting, Main_Answer, queueVars, workerVars
<1>5. \A t \in Task : Held(t)' <=> Held(t)
  BY <1>4 DEF Held
<1>6. ASSUME NEW t \in Task
      PROVE  TaskInv(t)'
  <2>1. TaskInv(t)
    BY DEF Inv
  <2> QED
    BY <2>1, <1>4, <1>5 DEF TaskInv, OneHand, OneCancel, CaughtIsMarked, Main_Answer
<1>7. Careful => Careful'
  <2>1. ASSUME NEW t \in Task, NotLost(t), Unmarked(t)
        PROVE  NotLost(t)' /\ Unmarked(t)'
    <3>1. prefill_pending[t] \in Worker \cup {NoTask}
      BY <1>1 DEF TypeOK
    <3> QED
      BY <2>1, <3>1, <1>4, <1>5 DEF NotLost, Unmarked, Main_Answer, workerVars
  <2>2. DestroyedIdle => DestroyedIdle'
    BY DEF DestroyedIdle, Main_Answer, workerVars
  <2> QED
    BY <2>1, <2>2 DEF Careful
<1> QED
  BY <1>2, <1>3, <1>6, <1>7 DEF Inv

\* What every CANCEL does: its task leaves its slot, and the callback ends.
CancelStep(x) ==
    /\ cur = CancelEntry(x) /\ main = "process" /\ main' # "destroy"
    /\ slotted' = slotted \ {x}
    /\ UNCHANGED <<queueVars, id_active, id_returning, running, wpc, attempted,
                   posted, stopped, answered>>
    /\ \/ main' = "pop" /\ cur' = NextEntry
       \/ main' = "return" /\ cur' = cur

\* The task that a CANCEL names, and the four things it may find.
LEMMA CancelForms ==
    ASSUME TypeOK, ThreadsAgree, Main_Cancel
    PROVE  \E x \in Task :
              /\ CancelStep(x)
              /\ \/ /\ BackToPop
                    /\ UNCHANGED <<tasks, cancelled, prefill_pending, prefill_cancelled, marked, caught>>
                 \/ \E w \in Worker :
                       /\ prefill_pending[x] = w /\ x \in ToSet(tasks[w])
                       /\ caught' = caught \cup {x}
                       /\ tasks' = [tasks EXCEPT ![w] = Kept(@, {i \in DOMAIN @ : @[i] # x})]
                       /\ cancelled' = [cancelled EXCEPT ![w] = @ \ {x}]
                       /\ prefill_cancelled' = prefill_cancelled \cup {x}
                       /\ marked' = marked \cup {x}
                       /\ main' = "return"
                       /\ UNCHANGED <<cur, prefill_pending>>
                 \/ \E w \in Worker :
                       /\ prefill_pending[x] = w
                       /\ x \in {id_active[w], id_returning[w]}
                       /\ caught' = caught \cup {x}
                       /\ cancelled' = [cancelled EXCEPT ![w] = @ \cup {x}]
                       /\ prefill_cancelled' = prefill_cancelled \cup {x}
                       /\ BackToPop
                       /\ UNCHANGED <<tasks, prefill_pending, marked>>
                 \/ \E w \in Worker :
                       /\ prefill_pending[x] = w /\ x \notin ToSet(tasks[w])
                       /\ x \notin {id_active[w], id_returning[w]}
                       /\ prefill_pending' = [prefill_pending EXCEPT ![x] = NoTask]
                       /\ prefill_cancelled' = prefill_cancelled \ {x}
                       /\ BackToPop
                       /\ UNCHANGED <<tasks, cancelled, marked, caught>>
<1>1. PICK x \in Task : cur = CancelEntry(x) /\ cur.id = x /\ main = "process"
  BY DEF Main_Cancel, ThreadsAgree, Request, NextEntry, CancelEntry
<1>2. prefill_pending[x] \in Worker \cup {NoTask}
  BY <1>1 DEF TypeOK
<1>3. CancelStep(x)
  BY <1>1 DEF Main_Cancel, CancelStep, BackToPop
<1>4. CASE prefill_pending[x] = NoTask
  BY <1>1, <1>3, <1>4 DEF Main_Cancel
<1>5. CASE prefill_pending[x] # NoTask
  <2>1. PICK w \in Worker : prefill_pending[x] = w
    BY <1>2, <1>5
  <2>2. w # NoTask
    BY <1>5, <2>1
  <2>3. CASE x \in ToSet(tasks[w])
    BY <1>1, <1>3, <2>1, <2>2, <2>3 DEF Main_Cancel
  <2>4. CASE x \notin ToSet(tasks[w]) /\ x \in {id_active[w], id_returning[w]}
    BY <1>1, <1>3, <2>1, <2>2, <2>4 DEF Main_Cancel
  <2>5. CASE x \notin ToSet(tasks[w]) /\ x \notin {id_active[w], id_returning[w]}
    BY <1>1, <1>3, <2>1, <2>2, <2>5 DEF Main_Cancel
  <2> QED
    BY <2>3, <2>4, <2>5
<1> QED
  BY <1>4, <1>5

\* The main thread after a CANCEL, and what it did not touch.
LEMMA CancelStepFacts ==
    ASSUME TypeOK, ThreadsAgree, NEW x \in Task, CancelStep(x)
    PROVE  /\ QueueTypeOK' /\ cur' \in Entry /\ slotted' \subseteq Task
           /\ main' \in {"pop", "return"}
           /\ cur' \in Request \cup {NextEntry}
           /\ main' \in {"process", "return"} <=> cur' # NextEntry
           /\ main' = "return" => cur'.type = "cancel"
           /\ \A t \in Task :
                 /\ ~InMain(t) /\ (InMain(t)' <=> t = x /\ main' = "return")
                 /\ (Cancelling(t) <=> t = x) /\ ~Cancelling(t)'
                 /\ InQueue(t)' = InQueue(t) /\ Cancels(t)' = Cancels(t)
                 /\ cur' # TaskEntry(t) /\ cur # TaskEntry(t)
                 /\ OnSlot(t)' => OnSlot(t)
                 /\ t # x => (OnSlot(t)' <=> OnSlot(t))
                 /\ \A w \in Worker : InHand(w, t)' <=> InHand(w, t)
<1>1. \A t \in Task : /\ cur # TaskEntry(t) /\ (cur = CancelEntry(t) <=> t = x)
                      /\ cur.id = x /\ cur # NextEntry /\ cur.type = "cancel"
                      /\ NextEntry # TaskEntry(t)
  BY DEF CancelStep, TaskEntry, CancelEntry, NextEntry
<1>2. /\ QueueTypeOK' /\ cur' \in Entry /\ slotted' \subseteq Task
      /\ main' \in {"pop", "return"}
      /\ cur' \in Request \cup {NextEntry}
      /\ main' \in {"process", "return"} <=> cur' # NextEntry
      /\ main' = "return" => cur'.type = "cancel"
  BY <1>1 DEF CancelStep, TypeOK, ThreadsAgree, QueueTypeOK, Entry, NextEntry, queueVars
<1>3. ASSUME NEW t \in Task
      PROVE  /\ ~InMain(t) /\ (InMain(t)' <=> t = x /\ main' = "return")
             /\ (Cancelling(t) <=> t = x) /\ ~Cancelling(t)'
             /\ cur' # TaskEntry(t) /\ cur # TaskEntry(t)
  BY <1>1 DEF CancelStep, InMain, Cancelling
<1>4. ASSUME NEW t \in Task
      PROVE  /\ InQueue(t)' = InQueue(t) /\ Cancels(t)' = Cancels(t)
             /\ OnSlot(t)' => OnSlot(t)
             /\ t # x => (OnSlot(t)' <=> OnSlot(t))
             /\ \A w \in Worker : InHand(w, t)' <=> InHand(w, t)
  BY DEF CancelStep, InQueue, Cancels, OnSlot, InHand, queueVars
<1> QED
  BY <1>2, <1>3, <1>4

\* CANCEL finds no worker with the task, or one that has it no more.
LEMMA CancelMissesInv ==
    ASSUME Inv, NEW x \in Task, CancelStep(x), BackToPop,
           UNCHANGED <<tasks, cancelled, marked, caught>>,
           \/ UNCHANGED <<prefill_pending, prefill_cancelled>>
           \/ \E w \in Worker :
                 /\ prefill_pending[x] = w /\ x \notin ToSet(tasks[w])
                 /\ x \notin {id_active[w], id_returning[w]}
                 /\ prefill_pending' = [prefill_pending EXCEPT ![x] = NoTask]
                 /\ prefill_cancelled' = prefill_cancelled \ {x}
    PROVE  Inv' /\ (~MaySleepAtWork /\ Careful => Careful')
<1>1. TypeOK /\ ThreadsAgree
  BY DEF Inv
<1>2. /\ QueueTypeOK' /\ cur' \in Entry /\ slotted' \subseteq Task
      /\ main' = "pop" /\ cur' = NextEntry
      /\ \A t \in Task :
            /\ ~InMain(t) /\ ~InMain(t)'
            /\ (Cancelling(t) <=> t = x) /\ ~Cancelling(t)'
            /\ InQueue(t)' = InQueue(t) /\ Cancels(t)' = Cancels(t)
            /\ cur # TaskEntry(t)
            /\ OnSlot(t)' => OnSlot(t)
            /\ t # x => (OnSlot(t)' <=> OnSlot(t))
            /\ \A w \in Worker : InHand(w, t)' <=> InHand(w, t)
  BY <1>1, CancelStepFacts DEF BackToPop
<1>3. \A w \in Worker : \A t \in Task : /\ Waiting(w, t)' = Waiting(w, t)
                                        /\ AtWorker(w, t)' <=> AtWorker(w, t)
  BY <1>2 DEF Waiting, AtWorker
<1>4. \A t \in Task : /\ Held(t)' => Held(t)
                      /\ t # x => (Held(t)' <=> Held(t))
  BY <1>2, <1>3 DEF Held
<1>5. /\ prefill_cancelled' \subseteq prefill_cancelled
      /\ \A t \in Task : /\ t # x => /\ prefill_pending'[t] = prefill_pending[t]
                                     /\ t \in prefill_cancelled' <=> t \in prefill_cancelled
                         /\ prefill_pending'[t] \in {prefill_pending[t], NoTask}
      /\ prefill_pending' \in [Task -> Worker \cup {NoTask}]
  BY <1>1 DEF TypeOK
<1>6. (\A w \in Worker : ~AtWorker(w, x)) \/ prefill_pending'[x] = prefill_pending[x]
  <2>1. CASE UNCHANGED <<prefill_pending, prefill_cancelled>>
    BY <2>1
  <2>2. CASE \E w \in Worker :
                /\ prefill_pending[x] = w /\ x \notin ToSet(tasks[w])
                /\ x \notin {id_active[w], id_returning[w]}
    <3>1. PICK w \in Worker : /\ prefill_pending[x] = w /\ x \notin ToSet(tasks[w])
                              /\ x \notin {id_active[w], id_returning[w]}
      BY <2>2
    <3>2. ~(Waiting(w, x) > 0)
      BY <3>1, <1>1, Numbers, OccursIn DEF Waiting
    <3>3. \A v \in Worker : AtWorker(v, x) => v = w
      BY <3>1 DEF Inv, TaskInv, OneHand
    <3> QED
      BY <3>1, <3>2, <3>3 DEF AtWorker, InHand
  <2> QED
    BY <2>1, <2>2
<1>7. TypeOK'
  BY <1>1, <1>2, <1>5 DEF TypeOK, CancelStep
<1>8. ThreadsAgree'
  BY <1>1, <1>2 DEF ThreadsAgree, CancelStep, queueVars
<1>9. x \in stopped /\ x \notin caught
  BY <1>2 DEF Inv, TaskInv, OneCancel
<1>10. ASSUME NEW t \in Task
       PROVE  TaskInv(t)'
  <2>1. TaskInv(t)
    BY DEF Inv
  <2>2. OneHand(t)'
    <3>1. ASSUME NEW w \in Worker
          PROVE  /\ Waiting(w, t)' <= 1
                 /\ Waiting(w, t)' > 0 => ~InHand(w, t)'
                 /\ AtWorker(w, t)' => prefill_pending'[t] = w /\ InQueue(t)' = 0 /\ ~InMain(t)'
      BY <2>1, <1>2, <1>3, <1>5, <1>6 DEF TaskInv, OneHand
    <3>2. prefill_pending'[t] # NoTask => t \in attempted' /\ ~OnSlot(t)'
      BY <2>1, <1>2, <1>5 DEF TaskInv, OneHand, CancelStep
    <3>3. /\ InQueue(t)' <= 1
          /\ InQueue(t)' > 0 => ~InMain(t)' /\ ~OnSlot(t)'
          /\ InMain(t)' => ~OnSlot(t)'
          /\ Held(t)' => t \in posted'
      BY <2>1, <1>2, <1>4 DEF TaskInv, OneHand, CancelStep
    <3> QED
      BY <3>1, <3>2, <3>3 DEF OneHand
  <2>3. OneCancel(t)'
    BY <2>1, <1>2 DEF TaskInv, OneCancel, CancelStep
  <2>4. CaughtIsMarked(t)'
    BY <2>1, <1>2, <1>4, <1>5, <1>9 DEF TaskInv, CaughtIsMarked, CancelStep
  <2> QED
    BY <2>2, <2>3, <2>4 DEF TaskInv
<1>11. Careful => Careful'
  <2>1. ASSUME NEW t \in Task, NotLost(t), Unmarked(t)
        PROVE  NotLost(t)' /\ Unmarked(t)'
    <3>1. prefill_pending[t] \in Worker \cup {NoTask}
      BY <1>1 DEF TypeOK
    <3> QED
      BY <2>1, <3>1, <1>2, <1>3, <1>4, <1>5, <1>9 DEF NotLost, Unmarked, CancelStep
  <2>2. DestroyedIdle'
    BY <1>2 DEF DestroyedIdle
  <2> QED
    BY <2>1, <2>2 DEF Careful
<1> QED
  BY <1>7, <1>8, <1>10, <1>11 DEF Inv

\* CANCEL takes the task out of the queue of its worker.
LEMMA CancelTakesInv ==
    ASSUME Inv, NEW x \in Task, CancelStep(x), NEW w \in Worker,
           prefill_pending[x] = w, x \in ToSet(tasks[w]),
           caught' = caught \cup {x},
           tasks' = [tasks EXCEPT ![w] = Kept(@, {i \in DOMAIN @ : @[i] # x})],
           cancelled' = [cancelled EXCEPT ![w] = @ \ {x}],
           prefill_cancelled' = prefill_cancelled \cup {x},
           marked' = marked \cup {x},
           main' = "return",
           UNCHANGED <<cur, prefill_pending>>
    PROVE  Inv' /\ (~MaySleepAtWork /\ Careful => Careful')
<1>1. TypeOK /\ ThreadsAgree
  BY DEF Inv
<1>2. /\ QueueTypeOK' /\ cur' \in Entry /\ slotted' \subseteq Task
      /\ cur' \in Request \cup {NextEntry}
      /\ cur' # NextEntry /\ cur'.type = "cancel"
      /\ \A t \in Task :
            /\ ~InMain(t) /\ (InMain(t)' <=> t = x)
            /\ (Cancelling(t) <=> t = x) /\ ~Cancelling(t)'
            /\ InQueue(t)' = InQueue(t) /\ Cancels(t)' = Cancels(t)
            /\ cur # TaskEntry(t) /\ cur' # TaskEntry(t)
            /\ OnSlot(t)' => OnSlot(t)
            /\ t # x => (OnSlot(t)' <=> OnSlot(t))
            /\ \A v \in Worker : InHand(v, t)' <=> InHand(v, t)
  BY <1>1, CancelStepFacts
<1>3. PICK pos \in SUBSET (1 .. Len(tasks[w])) : pos = {i \in DOMAIN tasks[w] : tasks[w][i] # x}
  <2>1. DOMAIN tasks[w] = 1 .. Len(tasks[w])
    BY <1>1 DEF TypeOK
  <2> QED
    BY <2>1
<1>4. tasks[w] \in Seq(Task)
  BY <1>1 DEF TypeOK
<1>5. /\ tasks' \in [Worker -> Seq(Task)]
      /\ \A v \in Worker : tasks'[v] = IF v = w THEN Kept(tasks[w], pos) ELSE tasks[v]
  <2>1. PICK k \in Seq(Task) : k = Kept(tasks[w], pos)
    BY <1>4, KeptSelects
  <2>2. tasks' = [tasks EXCEPT ![w] = k]
    BY <1>3, <2>1
  <2>3. tasks \in [Worker -> Seq(Task)]
    BY <1>1 DEF TypeOK
  <2> QED
    BY ONLY <2>1, <2>2, <2>3
<1>6. /\ \A v \in Worker : \A t : Waiting(v, t) \in Nat
      /\ Waiting(w, x) > 0
  <2>1. \A v \in Worker : \A t : Waiting(v, t) \in Nat
    BY <1>1, Numbers DEF Waiting
  <2>2. Occurrences(tasks[w], x) > 0
    BY <1>4, OccursIn
  <2> QED
    BY <2>1, <2>2 DEF Waiting
<1>7. ASSUME NEW t \in Task
      PROVE  Occurrences(Kept(tasks[w], pos), t)
                = IF t = x THEN 0 ELSE Occurrences(tasks[w], t)
  <2>1. t = x => \A p \in pos : tasks[w][p] # t
    BY <1>3
  <2>2. t # x => \A i \in 1 .. Len(tasks[w]) : tasks[w][i] = t => i \in pos
    <3>1. DOMAIN tasks[w] = 1 .. Len(tasks[w])
      BY <1>4
    <3> QED
      BY <3>1, <1>3
  <2> QED
    BY <1>4, <2>1, <2>2, KeptErases
<1>8. \A v \in Worker : \A t \in Task :
         Waiting(v, t)' = IF v = w /\ t = x THEN 0 ELSE Waiting(v, t)
  BY <1>5, <1>7 DEF Waiting
<1>9. TaskInv(x)
  BY DEF Inv
<1>10. /\ x \in attempted /\ ~OnSlot(x) /\ x \in posted /\ InQueue(x) = 0
       /\ x \in stopped /\ x \notin caught
       /\ \A v \in Worker : ~AtWorker(v, x)'
  <2>1. AtWorker(w, x) /\ ~InHand(w, x) /\ \A v \in Worker : AtWorker(v, x) => v = w
    BY <1>6, <1>9 DEF TaskInv, OneHand, AtWorker
  <2>2. x \in stopped /\ x \notin caught
    BY <1>2, <1>9 DEF TaskInv, OneCancel
  <2>3. prefill_pending[x] # NoTask
    BY PrefillAssumption
  <2>4. InQueue(x) = 0
    BY <1>9, <2>1 DEF TaskInv, OneHand
  <2>5. ASSUME NEW v \in Worker PROVE ~AtWorker(v, x)'
    <3>1. CASE v = w
      BY <3>1, <2>1, <1>2, <1>8 DEF AtWorker
    <3>2. CASE v # w
      BY <3>2, <2>1, <1>2, <1>8 DEF AtWorker
    <3> QED
      BY <3>1, <3>2
  <2> QED
    BY <1>9, <2>1, <2>2, <2>3, <2>4, <2>5 DEF TaskInv, OneHand, Held
<1>11. \A v \in Worker : \A t \in Task : t # x => (AtWorker(v, t)' <=> AtWorker(v, t))
  BY <1>2, <1>8 DEF AtWorker
<1>12. TypeOK'
  BY <1>1, <1>2, <1>5 DEF TypeOK, CancelStep
<1>13. ThreadsAgree'
  BY <1>1, <1>2, <1>5 DEF ThreadsAgree, CancelStep, queueVars
<1>14. ASSUME NEW t \in Task
       PROVE  TaskInv(t)'
  <2>1. TaskInv(t)
    BY DEF Inv
  <2>2. CASE t = x
    <3>1. ~OnSlot(t)'
      BY <2>2, <1>2, <1>10
    <3>2. \A v \in Worker : ~(Waiting(v, t)' > 0) /\ Waiting(v, t)' <= 1
      BY <2>1, <2>2, <1>6, <1>8, <1>10 DEF AtWorker, TaskInv, OneHand
    <3>3. OneHand(t)'
      BY <2>2, <3>1, <3>2, <1>2, <1>10 DEF OneHand, CancelStep
    <3>4. Cancels(t) = Cancels(t)' /\ ~(Cancels(t)' > 0) /\ Cancels(t)' <= 1
      BY <2>1, <2>2, <1>2 DEF TaskInv, OneCancel
    <3>5. OneCancel(t)'
      BY <2>2, <3>4, <1>2, <1>10 DEF OneCancel, CancelStep
    <3>6. CaughtIsMarked(t)'
      BY <2>2, <3>1, <1>10 DEF CaughtIsMarked, CancelStep
    <3> QED
      BY <3>3, <3>5, <3>6 DEF TaskInv
  <2>3. CASE t # x
    <3>1. Held(t)' <=> Held(t)
      BY <2>3, <1>2, <1>11 DEF Held
    <3>2. OneHand(t)'
      BY <2>1, <2>3, <3>1, <1>2, <1>8, <1>11 DEF TaskInv, OneHand, CancelStep
    <3>3. OneCancel(t)'
      BY <2>1, <2>3, <1>2 DEF TaskInv, OneCancel, CancelStep
    <3>4. CaughtIsMarked(t)'
      BY <2>1, <2>3, <3>1, <1>2 DEF TaskInv, CaughtIsMarked, CancelStep
    <3> QED
      BY <3>2, <3>3, <3>4 DEF TaskInv
  <2> QED
    BY <2>2, <2>3
<1>15. Careful => Careful'
  <2>1. ASSUME NEW t \in Task, NotLost(t), Unmarked(t)
        PROVE  NotLost(t)' /\ Unmarked(t)'
    <3>1. prefill_pending[t] \in Worker \cup {NoTask}
      BY <1>1 DEF TypeOK
    <3>2. t # x => (Held(t)' <=> Held(t))
      BY <1>2, <1>11 DEF Held
    <3>3. \A v \in Worker : cancelled'[v] \subseteq cancelled[v]
      BY <1>1 DEF TypeOK
    <3> QED
      BY <2>1, <3>1, <3>2, <3>3, <1>2, <1>10, <1>11 DEF NotLost, Unmarked, CancelStep
  <2>2. DestroyedIdle'
    BY DEF DestroyedIdle
  <2> QED
    BY <2>1, <2>2 DEF Careful
<1> QED
  BY <1>12, <1>13, <1>14, <1>15 DEF Inv

\* CANCEL marks the task that its worker has in hand.
LEMMA CancelMarksInv ==
    ASSUME Inv, NEW x \in Task, CancelStep(x), NEW w \in Worker,
           prefill_pending[x] = w, x \in {id_active[w], id_returning[w]},
           caught' = caught \cup {x},
           cancelled' = [cancelled EXCEPT ![w] = @ \cup {x}],
           prefill_cancelled' = prefill_cancelled \cup {x},
           BackToPop,
           UNCHANGED <<tasks, prefill_pending, marked>>
    PROVE  Inv' /\ (~MaySleepAtWork /\ Careful => Careful')
<1>1. TypeOK /\ ThreadsAgree
  BY DEF Inv
<1>2. /\ QueueTypeOK' /\ cur' \in Entry /\ slotted' \subseteq Task
      /\ main' = "pop" /\ cur' = NextEntry
      /\ \A t \in Task :
            /\ ~InMain(t) /\ ~InMain(t)'
            /\ (Cancelling(t) <=> t = x) /\ ~Cancelling(t)'
            /\ InQueue(t)' = InQueue(t) /\ Cancels(t)' = Cancels(t)
            /\ cur # TaskEntry(t)
            /\ OnSlot(t)' => OnSlot(t)
            /\ t # x => (OnSlot(t)' <=> OnSlot(t))
            /\ \A v \in Worker : InHand(v, t)' <=> InHand(v, t)
  BY <1>1, CancelStepFacts DEF BackToPop
<1>3. \A v \in Worker : \A t \in Task : /\ Waiting(v, t)' = Waiting(v, t)
                                        /\ AtWorker(v, t)' <=> AtWorker(v, t)
  BY <1>2 DEF Waiting, AtWorker
<1>4. \A t \in Task : /\ Held(t)' => Held(t)
                      /\ t # x => (Held(t)' <=> Held(t))
  BY <1>2, <1>3 DEF Held
<1>5. x \in stopped /\ x \notin caught /\ x \in attempted /\ ~OnSlot(x)
  <2>1. prefill_pending[x] # NoTask
    BY PrefillAssumption
  <2> QED
    BY <2>1, <1>2 DEF Inv, TaskInv, OneCancel, OneHand
<1>6. TypeOK'
  BY <1>1, <1>2 DEF TypeOK, CancelStep
<1>7. ThreadsAgree'
  BY <1>1, <1>2 DEF ThreadsAgree, CancelStep, queueVars
<1>8. ASSUME NEW t \in Task
      PROVE  TaskInv(t)'
  <2>1. TaskInv(t)
    BY DEF Inv
  <2>2. OneHand(t)'
    BY <2>1, <1>2, <1>3, <1>4 DEF TaskInv, OneHand, CancelStep
  <2>3. OneCancel(t)'
    BY <2>1, <1>2 DEF TaskInv, OneCancel, CancelStep
  <2>4. CaughtIsMarked(t)'
    BY <2>1, <1>2, <1>4, <1>5 DEF TaskInv, CaughtIsMarked, CancelStep
  <2> QED
    BY <2>2, <2>3, <2>4 DEF TaskInv
<1>9. Careful => Careful'
  <2>1. ASSUME NEW t \in Task, NotLost(t), Unmarked(t)
        PROVE  NotLost(t)' /\ Unmarked(t)'
    <3>1. prefill_pending[t] \in Worker \cup {NoTask}
      BY <1>1 DEF TypeOK
    <3>2. \A v \in Worker : cancelled'[v] \subseteq cancelled[v] \cup {x}
      BY <1>1 DEF TypeOK
    <3>3. x \in posted
      BY <1>5 DEF Inv, TaskInv, OneCancel
    <3> QED
      BY <2>1, <3>1, <3>2, <3>3, <1>2, <1>3, <1>4, <1>5 DEF NotLost, Unmarked, CancelStep
  <2>2. DestroyedIdle'
    BY <1>2 DEF DestroyedIdle
  <2> QED
    BY <2>1, <2>2 DEF Careful
<1> QED
  BY <1>6, <1>7, <1>8, <1>9 DEF Inv

\* A cancel, wherever it finds the task, keeps the invariant.
LEMMA CancelInv ==
    ASSUME Inv, Main_Cancel
    PROVE  Inv' /\ (~MaySleepAtWork /\ Careful => Careful')
<1>1. TypeOK /\ ThreadsAgree
  BY DEF Inv
<1>2. PICK x \in Task :
              /\ CancelStep(x)
              /\ \/ /\ BackToPop
                    /\ UNCHANGED <<tasks, cancelled, prefill_pending, prefill_cancelled, marked, caught>>
                 \/ \E w \in Worker :
                       /\ prefill_pending[x] = w /\ x \in ToSet(tasks[w])
                       /\ caught' = caught \cup {x}
                       /\ tasks' = [tasks EXCEPT ![w] = Kept(@, {i \in DOMAIN @ : @[i] # x})]
                       /\ cancelled' = [cancelled EXCEPT ![w] = @ \ {x}]
                       /\ prefill_cancelled' = prefill_cancelled \cup {x}
                       /\ marked' = marked \cup {x}
                       /\ main' = "return"
                       /\ UNCHANGED <<cur, prefill_pending>>
                 \/ \E w \in Worker :
                       /\ prefill_pending[x] = w
                       /\ x \in {id_active[w], id_returning[w]}
                       /\ caught' = caught \cup {x}
                       /\ cancelled' = [cancelled EXCEPT ![w] = @ \cup {x}]
                       /\ prefill_cancelled' = prefill_cancelled \cup {x}
                       /\ BackToPop
                       /\ UNCHANGED <<tasks, prefill_pending, marked>>
                 \/ \E w \in Worker :
                       /\ prefill_pending[x] = w /\ x \notin ToSet(tasks[w])
                       /\ x \notin {id_active[w], id_returning[w]}
                       /\ prefill_pending' = [prefill_pending EXCEPT ![x] = NoTask]
                       /\ prefill_cancelled' = prefill_cancelled \ {x}
                       /\ BackToPop
                       /\ UNCHANGED <<tasks, cancelled, marked, caught>>
  BY <1>1, CancelForms
<1> QED
  BY <1>2, CancelMissesInv, CancelTakesInv, CancelMarksInv

-----------------------------------------------------------------------------
(* Sleeping                                                                *)

\* Nothing is queued and no thread moves when the server goes to sleep.
LEMMA SleepInv ==
    ASSUME Inv, Main_Sleep
    PROVE  Inv' /\ (~MaySleepAtWork /\ Careful => Careful')
<1>1. TypeOK /\ ThreadsAgree
  BY DEF Inv
<1>2. TypeOK'
  BY <1>1 DEF TypeOK, QueueTypeOK, Main_Sleep, queueVars, workerVars, clientVars
<1>3. ThreadsAgree'
  BY <1>1 DEF ThreadsAgree, Main_Sleep, queueVars, workerVars
<1>4. \A t \in Task : /\ InMain(t)' <=> InMain(t)
                      /\ Cancelling(t)' <=> Cancelling(t)
                      /\ InQueue(t)' = InQueue(t) /\ Cancels(t)' = Cancels(t)
                      /\ OnSlot(t)' <=> OnSlot(t)
                      /\ \A w \in Worker : /\ AtWorker(w, t)' <=> AtWorker(w, t)
                                           /\ InHand(w, t)' <=> InHand(w, t)
                                           /\ Waiting(w, t)' = Waiting(w, t)
  BY DEF InMain, InQueue, Cancels, Cancelling, OnSlot, AtWorker, InHand, Waiting, Main_Sleep, queueVars, workerVars, clientVars
<1>5. \A t \in Task : Held(t)' <=> Held(t)
  BY <1>4 DEF Held
<1>6. ASSUME NEW t \in Task
      PROVE  TaskInv(t)'
  <2>1. TaskInv(t)
    BY DEF Inv
  <2> QED
    BY <2>1, <1>4, <1>5 DEF TaskInv, OneHand, OneCancel, CaughtIsMarked, Main_Sleep, clientVars
<1>7. ~MaySleepAtWork /\ Careful => Careful'
  <2>1. ASSUME NEW t \in Task, NotLost(t), Unmarked(t)
        PROVE  NotLost(t)' /\ Unmarked(t)'
    <3>1. prefill_pending[t] \in Worker \cup {NoTask}
      BY <1>1 DEF TypeOK
    <3> QED
      BY <2>1, <3>1, <1>4, <1>5 DEF NotLost, Unmarked, Main_Sleep, workerVars, clientVars
  <2>2. ~MaySleepAtWork => DestroyedIdle'
    BY DEF DestroyedIdle, Main_Sleep, workerVars
  <2> QED
    BY <2>1, <2>2 DEF Careful
<1> QED
  BY <1>2, <1>3, <1>6, <1>7 DEF Inv

\* Stopping a worker empties its queue: what it held there is lost.
LEMMA StopWorkerInv ==
    ASSUME Inv, NEW w \in Worker, Main_StopWorker(w)
    PROVE  Inv' /\ (~MaySleepAtWork /\ Careful => Careful')
<1>1. TypeOK /\ ThreadsAgree
  BY DEF Inv
<1>2. TypeOK'
  BY <1>1 DEF TypeOK, QueueTypeOK, Main_StopWorker, queueVars, serverVars, clientVars
<1>3. ThreadsAgree'
  BY <1>1 DEF ThreadsAgree, Main_StopWorker, TypeOK, queueVars, serverVars
<1>4. \A t \in Task : /\ InMain(t)' <=> InMain(t)
                      /\ Cancelling(t)' <=> Cancelling(t)
                      /\ InQueue(t)' = InQueue(t) /\ Cancels(t)' = Cancels(t)
                      /\ OnSlot(t)' <=> OnSlot(t)
  BY DEF InMain, InQueue, Cancels, Cancelling, OnSlot, Main_StopWorker, queueVars, serverVars, clientVars
<1>5. \A v \in Worker : \A t : Waiting(v, t)' = IF v = w THEN 0 ELSE Waiting(v, t)
  BY <1>1, OccurrencesEmpty DEF Waiting, Main_StopWorker, TypeOK
<1>6. \A v \in Worker : \A t : /\ InHand(v, t)' <=> InHand(v, t)
                               /\ AtWorker(v, t)' => AtWorker(v, t)
  BY <1>5 DEF InHand, AtWorker, Main_StopWorker
<1>7. \A t \in Task : Held(t)' => Held(t)
  BY <1>4, <1>6 DEF Held
<1>8. ASSUME NEW t \in Task
      PROVE  TaskInv(t)'
  <2>1. TaskInv(t)
    BY DEF Inv
  <2>2. OneHand(t)'
    BY <2>1, <1>4, <1>5, <1>6, <1>7 DEF TaskInv, OneHand, Main_StopWorker, serverVars, clientVars
  <2>3. OneCancel(t)' /\ CaughtIsMarked(t)'
    BY <2>1, <1>4, <1>7 DEF TaskInv, OneCancel, CaughtIsMarked, Main_StopWorker, serverVars, clientVars
  <2> QED
    BY <2>2, <2>3 DEF TaskInv
<1>9. Careful => Careful'
  <2>1. SUFFICES ASSUME Careful PROVE Careful'
    OBVIOUS
  <2>2. tasks[w] = <<>> /\ wpc[w] \in {"wait", "clear", "exit"} /\ id_active[w] = NoTask
    BY <2>1, <1>1 DEF Careful, DestroyedIdle, Main_StopWorker, ThreadsAgree
  <2>3. UNCHANGED <<tasks, cancelled>>
    BY <2>2, <1>1 DEF Main_StopWorker, TypeOK
  <2>4. DestroyedIdle'
    BY <2>1, <2>3 DEF Careful, DestroyedIdle, Main_StopWorker, serverVars
  <2>5. ASSUME NEW t \in Task
        PROVE  NotLost(t)' /\ Unmarked(t)'
    <3>1. NotLost(t) /\ Unmarked(t)
      BY <2>1 DEF Careful
    <3>2. \A v \in Worker : AtWorker(v, t)' <=> AtWorker(v, t)
      BY <2>3 DEF AtWorker, Waiting, InHand, Main_StopWorker
    <3>3. Held(t)' <=> Held(t)
      BY <3>2, <1>4 DEF Held
    <3>4. prefill_pending[t] \in Worker \cup {NoTask}
      BY <1>1 DEF TypeOK
    <3> QED
      BY <3>1, <3>2, <3>3, <3>4, <2>3, <1>4 DEF NotLost, Unmarked, Main_StopWorker, serverVars, clientVars
  <2> QED
    BY <2>4, <2>5 DEF Careful
<1> QED
  BY <1>2, <1>3, <1>8, <1>9 DEF Inv

\* When every worker has ended, nothing but a slot's answer holds a task.
LEMMA AwakeInv ==
    ASSUME Inv, Main_Awake
    PROVE  Inv' /\ (~MaySleepAtWork /\ Careful => Careful')
<1>1. TypeOK /\ ThreadsAgree
  BY DEF Inv
<1>2. TypeOK'
  BY <1>1 DEF TypeOK, QueueTypeOK, Main_Awake, queueVars, clientVars
<1>3. ThreadsAgree'
  BY <1>1 DEF ThreadsAgree, Main_Awake, queueVars
<1>4. /\ main = "destroy" /\ main' = "pop" /\ cur = NextEntry /\ cur' = NextEntry
      /\ queue_tasks = <<>> /\ queue_tasks' = <<>>
      /\ \A w \in Worker : /\ tasks[w] = <<>> /\ id_active[w] = NoTask /\ wpc[w] = "exit"
                           /\ tasks'[w] = <<>> /\ id_active'[w] = NoTask /\ wpc'[w] = "wait"
  BY <1>1 DEF Main_Awake, ThreadsAgree, queueVars
<1>5. \A t \in Task : /\ ~InMain(t) /\ ~InMain(t)' /\ ~Cancelling(t) /\ ~Cancelling(t)'
                      /\ InQueue(t) = 0 /\ InQueue(t)' = 0 /\ Cancels(t)' = 0
                      /\ OnSlot(t)' <=> OnSlot(t)
  BY <1>4, OccurrencesEmpty DEF InMain, Cancelling, InQueue, Cancels, OnSlot, Main_Awake, clientVars, NextEntry, TaskEntry
<1>6. \A w \in Worker : \A t \in Task :
         /\ Waiting(w, t)' = 0 /\ ~InHand(w, t)'
         /\ ~AtWorker(w, t) /\ ~AtWorker(w, t)'
  BY <1>4, OccurrencesEmpty, TaskAssumption DEF Waiting, InHand, AtWorker
<1>7. \A t \in Task : (Held(t) <=> OnSlot(t)) /\ (Held(t)' <=> OnSlot(t))
  BY <1>5, <1>6 DEF Held
<1>8. ASSUME NEW t \in Task
      PROVE  TaskInv(t)'
  <2>1. TaskInv(t)
    BY DEF Inv
  <2>2. OneHand(t)'
    BY <2>1, <1>5, <1>6, <1>7 DEF TaskInv, OneHand, Main_Awake, clientVars
  <2>3. OneCancel(t)' /\ CaughtIsMarked(t)'
    BY <2>1, <1>5, <1>7 DEF TaskInv, OneCancel, CaughtIsMarked, Main_Awake, clientVars
  <2> QED
    BY <2>2, <2>3 DEF TaskInv
<1>9. Careful => Careful'
  <2>1. ASSUME NEW t \in Task, NotLost(t), Unmarked(t)
        PROVE  NotLost(t)' /\ Unmarked(t)'
    BY <2>1, <1>5, <1>6, <1>7 DEF NotLost, Unmarked, Main_Awake, clientVars
  <2>2. DestroyedIdle'
    BY <1>4 DEF DestroyedIdle
  <2> QED
    BY <2>1, <2>2 DEF Careful
<1> QED
  BY <1>2, <1>3, <1>8, <1>9 DEF Inv

-----------------------------------------------------------------------------
(* The theorems                                                            *)

\* Before anything is posted there is nothing to hold.
LEMMA InitInv == Init => Inv /\ Careful
<1> SUFFICES ASSUME Init PROVE Inv /\ Careful
  OBVIOUS
<1>1. /\ queue_tasks = <<>> /\ \A w \in Worker : tasks[w] = <<>>
      /\ main = "pop" /\ cur = NextEntry
  BY DEF Init, QueueInit, WorkersInit
<1>2. TypeOK
  BY DEF Init, QueueInit, WorkersInit, TypeOK, QueueTypeOK, Entry, NextEntry
<1>3. ThreadsAgree
  BY DEF Init, QueueInit, WorkersInit, ThreadsAgree
<1>4. ASSUME NEW t \in Task
      PROVE  /\ InQueue(t) = 0 /\ Cancels(t) = 0 /\ ~InMain(t) /\ ~Cancelling(t) /\ ~OnSlot(t)
             /\ \A w \in Worker : Waiting(w, t) = 0 /\ ~InHand(w, t) /\ ~AtWorker(w, t)
  <2>1. InQueue(t) = 0 /\ Cancels(t) = 0 /\ \A w \in Worker : Waiting(w, t) = 0
    BY <1>1, OccurrencesEmpty DEF InQueue, Cancels, Waiting
  <2>2. ~InMain(t) /\ ~Cancelling(t) /\ ~OnSlot(t)
    BY <1>1 DEF Init, InMain, Cancelling, OnSlot, TaskEntry, NextEntry
  <2>3. \A w \in Worker : ~InHand(w, t)
    BY TaskAssumption DEF Init, WorkersInit, InHand
  <2> QED
    BY <2>1, <2>2, <2>3 DEF AtWorker
<1>5. \A t \in Task : ~Held(t)
  BY <1>4 DEF Held
<1>6. \A t \in Task : TaskInv(t)
  BY <1>4, <1>5 DEF Init, WorkersInit, TaskInv, OneHand, OneCancel, CaughtIsMarked
<1>7. Careful
  BY <1>1 DEF Init, WorkersInit, Careful, DestroyedIdle, NotLost, Unmarked
<1> QED
  BY <1>2, <1>3, <1>6, <1>7 DEF Inv

\* Nothing moves in a step of other variables.
LEMMA StutterInv ==
    ASSUME Inv, UNCHANGED vars
    PROVE  Inv' /\ (~MaySleepAtWork /\ Careful => Careful')
<1>1. \A t : /\ InMain(t)' <=> InMain(t)
             /\ Cancelling(t)' <=> Cancelling(t)
             /\ InQueue(t)' = InQueue(t) /\ Cancels(t)' = Cancels(t)
             /\ OnSlot(t)' <=> OnSlot(t)
             /\ \A w \in Worker : /\ AtWorker(w, t)' <=> AtWorker(w, t)
                                  /\ InHand(w, t)' <=> InHand(w, t)
                                  /\ Waiting(w, t)' = Waiting(w, t)
             /\ Held(t)' <=> Held(t)
  BY DEF vars, queueVars, workerVars, serverVars, clientVars, InMain, InQueue, Cancels, Cancelling, OnSlot, AtWorker, InHand, Waiting, Held
<1>2. TypeOK' /\ ThreadsAgree'
  BY DEF Inv, TypeOK, QueueTypeOK, ThreadsAgree, vars, queueVars, workerVars, serverVars, clientVars
<1>3. \A t \in Task : TaskInv(t)'
  BY <1>1 DEF Inv, TaskInv, OneHand, OneCancel, CaughtIsMarked, vars, serverVars, clientVars
<1>4. Careful => Careful'
  <2>1. ASSUME NEW t \in Task, NotLost(t), Unmarked(t)
        PROVE  NotLost(t)' /\ Unmarked(t)'
    <3>1. prefill_pending[t] \in Worker \cup {NoTask}
      BY DEF Inv, TypeOK
    <3> QED
      BY <2>1, <3>1, <1>1 DEF NotLost, Unmarked, vars, workerVars, serverVars, clientVars
  <2>2. DestroyedIdle => DestroyedIdle'
    BY DEF DestroyedIdle, vars, workerVars, serverVars
  <2> QED
    BY <2>1, <2>2 DEF Careful
<1> QED
  BY <1>2, <1>3, <1>4 DEF Inv

\* Every step keeps the invariant.
LEMMA NextInv ==
    ASSUME Inv, [Next]_vars
    PROVE  Inv' /\ (~MaySleepAtWork /\ Careful => Careful')
<1>1. CASE \E t \in Task : Client_Post(t) \/ Client_Stop(t)
  BY <1>1, ClientPostInv, ClientStopInv
<1>2. CASE \E w \in Worker : WorkerLoop(w)
  BY <1>2, TakeInv, FinishInv, ReturnInv, ClearInv DEF WorkerLoop
<1>3. CASE \E w \in Worker : Main_StopWorker(w)
  BY <1>3, StopWorkerInv
<1>4. CASE MainLoop
  BY <1>4, PopInv, ReturnedInv, DispatchInv, CancelInv, CancelReturnInv, MainAnswerInv DEF MainLoop
<1>5. CASE Main_Sleep
  BY <1>5, SleepInv
<1>6. CASE Main_Awake
  BY <1>6, AwakeInv
<1>7. CASE AllServed \/ UNCHANGED vars
  BY <1>7, StutterInv DEF AllServed
<1> QED
  BY <1>1, <1>2, <1>3, <1>4, <1>5, <1>6, <1>7 DEF Next

\* At most one worker has a copy of a task, and one such copy.
LEMMA WorkersHoldOne ==
    ASSUME Inv, NEW t \in Task, NEW A, NEW B, NEW C,
           A = {w \in Worker : Waiting(w, t) > 0},
           B = {w \in Worker : id_active[w] = t},
           C = {w \in Worker : wpc[w] = "return" /\ id_returning[w] = t}
    PROVE  Cardinality(A) + Cardinality(B) + Cardinality(C)
               = IF \E w \in Worker : AtWorker(w, t) THEN 1 ELSE 0
<1>1. \A w \in Worker : AtWorker(w, t) <=> w \in A \/ w \in B \/ w \in C
  BY DEF AtWorker, InHand
<1>2. \A v, w \in Worker : AtWorker(v, t) /\ AtWorker(w, t) => v = w
  BY DEF Inv, TaskInv, OneHand
<1>3. \A w \in Worker : /\ w \in A => w \notin B /\ w \notin C
                        /\ w \in B => w \notin C
  <2>1. \A w \in Worker : w \in A => w \notin B /\ w \notin C
    BY DEF Inv, TaskInv, OneHand, InHand
  <2>2. \A w \in Worker : w \in B => w \notin C
    BY TaskAssumption DEF Inv, ThreadsAgree
  <2> QED
    BY <2>1, <2>2
<1>4. A \subseteq Worker /\ B \subseteq Worker /\ C \subseteq Worker
  OBVIOUS
<1>5. Cardinality({}) = 0 /\ \A w : Cardinality({w}) = 1
  BY FS_EmptySet, FS_Singleton
<1>6. CASE \E w \in Worker : AtWorker(w, t)
  <2>1. PICK w \in Worker : AtWorker(w, t)
    BY <1>6
  <2>2. CASE w \in A
    <3>1. A = {w} /\ B = {} /\ C = {}
      BY ONLY <2>1, <2>2, <1>1, <1>2, <1>3, <1>4
    <3>2. Cardinality(A) = 1 /\ Cardinality(B) = 0 /\ Cardinality(C) = 0
      BY ONLY <3>1, <1>5
    <3> QED
      BY ONLY <3>2, <1>6
  <2>3. CASE w \in B
    <3>1. A = {} /\ B = {w} /\ C = {}
      BY ONLY <2>1, <2>3, <1>1, <1>2, <1>3, <1>4
    <3>2. Cardinality(A) = 0 /\ Cardinality(B) = 1 /\ Cardinality(C) = 0
      BY ONLY <3>1, <1>5
    <3> QED
      BY ONLY <3>2, <1>6
  <2>4. CASE w \in C
    <3>1. A = {} /\ B = {} /\ C = {w}
      BY ONLY <2>1, <2>4, <1>1, <1>2, <1>3, <1>4
    <3>2. Cardinality(A) = 0 /\ Cardinality(B) = 0 /\ Cardinality(C) = 1
      BY ONLY <3>1, <1>5
    <3> QED
      BY ONLY <3>2, <1>6
  <2> QED
    BY <2>1, <2>2, <2>3, <2>4, <1>1
<1>7. CASE ~\E w \in Worker : AtWorker(w, t)
  <2>1. A = {} /\ B = {} /\ C = {}
    BY ONLY <1>1, <1>4, <1>7
  <2> QED
    BY ONLY <2>1, <1>5, <1>7
<1> QED
  BY <1>6, <1>7

\* A task that is held is held once.
LEMMA CopiesCount ==
    ASSUME Inv, NEW t \in Task
    PROVE  Copies(t) = IF Held(t) THEN 1 ELSE 0
<1>1. TypeOK /\ ThreadsAgree /\ TaskInv(t)
  BY DEF Inv
<1>2. PICK A : A = {w \in Worker : Waiting(w, t) > 0}
  OBVIOUS
<1>3. PICK B : B = {w \in Worker : id_active[w] = t}
  OBVIOUS
<1>4. PICK C : C = {w \in Worker : wpc[w] = "return" /\ id_returning[w] = t}
  OBVIOUS
<1>5. {w \in Worker : t \in ToSet(tasks[w])} = A
  <2>1. \A w \in Worker : t \in ToSet(tasks[w]) <=> Waiting(w, t) > 0
    BY <1>1, Numbers, OccursIn DEF Waiting
  <2> QED
    BY <1>2, <2>1
<1>6. PICK n : n = Cardinality(A) + Cardinality(B) + Cardinality(C)
  OBVIOUS
<1>7. n = IF \E w \in Worker : AtWorker(w, t) THEN 1 ELSE 0
  BY <1>2, <1>3, <1>4, <1>6, WorkersHoldOne
<1>8. Cardinality(A) \in Nat /\ Cardinality(B) \in Nat /\ Cardinality(C) \in Nat
  <2>1. \A S \in {A, B, C} : S = {} \/ \E w : S = {w}
    <3>1. \A v, w \in Worker : AtWorker(v, t) /\ AtWorker(w, t) => v = w
      BY <1>1 DEF TaskInv, OneHand
    <3>2. \A S \in {A, B, C} : \A w \in S : w \in Worker /\ AtWorker(w, t)
      BY <1>2, <1>3, <1>4 DEF AtWorker, InHand
    <3> QED
      BY ONLY <3>1, <3>2
  <2>2. Cardinality({}) = 0 /\ \A w : Cardinality({w}) = 1
    BY FS_EmptySet, FS_Singleton
  <2>3. ASSUME NEW S \in {A, B, C} PROVE Cardinality(S) \in Nat
    <3>1. CASE S = {}
      BY ONLY <3>1, <2>2
    <3>2. CASE \E w : S = {w}
      <4>1. PICK w : S = {w}
        BY <3>2
      <4>2. Cardinality({w}) = 1
        BY FS_Singleton
      <4> QED
        BY ONLY <4>1, <4>2
    <3> QED
      BY <3>1, <3>2, <2>1
  <2> QED
    BY ONLY <2>3
<1>9. /\ InQueue(t) \in Nat /\ InQueue(t) <= 1
      /\ InQueue(t) > 0 => ~InMain(t) /\ ~OnSlot(t)
      /\ InMain(t) => ~OnSlot(t)
      /\ (\E w \in Worker : AtWorker(w, t)) => InQueue(t) = 0 /\ ~InMain(t) /\ ~OnSlot(t)
  <2>1. InQueue(t) \in Nat
    BY <1>1, Numbers DEF InQueue
  <2>2. (\E w \in Worker : AtWorker(w, t)) => InQueue(t) = 0 /\ ~InMain(t) /\ ~OnSlot(t)
    BY <1>1, PrefillAssumption DEF TaskInv, OneHand
  <2> QED
    BY <1>1, <2>1, <2>2 DEF TaskInv, OneHand
<1>10. Copies(t) = InQueue(t) + (IF InMain(t) THEN 1 ELSE 0) + Cardinality(A) + Cardinality(B)
                       + Cardinality(C) + (IF OnSlot(t) THEN 1 ELSE 0)
  BY <1>3, <1>4, <1>5 DEF Copies, InQueue, InMain, OnSlot
<1>11. Copies(t) = InQueue(t) + (IF InMain(t) THEN 1 ELSE 0) + n + (IF OnSlot(t) THEN 1 ELSE 0)
  BY ONLY <1>6, <1>8, <1>9, <1>10
<1> QED
  BY ONLY <1>7, <1>9, <1>11 DEF Held

\* The variables have their types, the program counters of the threads determine
\* which fields are set, and no task is in two hands.
THEOREM PrefillInvariant == Spec => []Inv
<1>1. Init => Inv
  BY InitInv
<1>2. Inv /\ [Next]_vars => Inv'
  BY NextInv
<1> QED
  BY <1>1, <1>2, PTL DEF Spec

\* Whatever the order of submit, cancel, the two callbacks and going to sleep: there are
\* never two copies of a task that could both run, even if the server goes to sleep while
\* a worker has one.
THEOREM NeverTwoCopies == Spec => [](\A t \in Task : Copies(t) <= 1)
<1>1. Inv => \A t \in Task : Copies(t) <= 1
  BY CopiesCount
<1> QED
  BY <1>1, PrefillInvariant, PTL

\* If CANCEL finds the task at a worker, one of the two marks that
\* process_single_task looks at stands until it drops the task.
THEOREM CaughtTasksNeverRun == Spec => []CaughtNeverRuns
<1>1. Inv => CaughtNeverRuns
  BY DEF Inv, TypeOK, TaskInv, CaughtIsMarked, OnSlot, CaughtNeverRuns
<1> QED
  BY <1>1, PrefillInvariant, PTL

\* If the server only goes to sleep when the workers have nothing, then a task that is
\* not cancelled is in exactly one hand, and prefill_pending knows the worker's.
THEOREM TasksAreInOneHand == ~MaySleepAtWork => (Spec => []TaskInOneHand)
<1> SUFFICES ASSUME ~MaySleepAtWork PROVE Spec => []TaskInOneHand
  OBVIOUS
<1>1. Init => Inv /\ Careful
  BY InitInv
<1>2. Inv /\ Careful /\ [Next]_vars => (Inv /\ Careful)'
  BY NextInv
<1>3. Inv /\ Careful => TaskInOneHand
  <2> SUFFICES ASSUME Inv, Careful PROVE TaskInOneHand
    OBVIOUS
  <2>1. TypeOK /\ ThreadsAgree
    BY DEF Inv
  <2>2. ASSUME NEW t \in Task
        PROVE  Copies(t) <= 1 /\ (t \in posted \ stopped => Copies(t) = 1)
    BY CopiesCount DEF Careful, NotLost
  <2>3. PendingIsAtWorker
    <3> SUFFICES ASSUME NEW t \in posted \ stopped, NEW p, p = prefill_pending[t]
                 PROVE  /\ p = NoTask => \A v \in Worker :
                             /\ t \notin ToSet(tasks[v]) \cup {id_active[v]}
                             /\ wpc[v] = "return" => id_returning[v] # t
                        /\ p # NoTask => \/ t \in ToSet(tasks[p]) \cup {id_active[p]}
                                         \/ wpc[p] = "return" /\ id_returning[p] = t
                                         \/ TaskEntry(t) \in ToSet(queue_tasks) \/ cur = TaskEntry(t)
      BY DEF PendingIsAtWorker
    <3>1. t \in Task /\ p \in Worker \cup {NoTask}
      BY <2>1 DEF TypeOK
    <3>2. TaskInv(t) /\ NotLost(t)
      BY <3>1 DEF Inv, Careful
    <3>3. \A v \in Worker : t \in ToSet(tasks[v]) <=> Waiting(v, t) > 0
      BY <2>1, Numbers, OccursIn DEF Waiting
    <3>4. InQueue(t) > 0 => TaskEntry(t) \in ToSet(queue_tasks)
      BY <2>1, OccursIn DEF InQueue, ThreadsAgree
    <3>5. \A v \in Worker : AtWorker(v, t) <=>
             \/ t \in ToSet(tasks[v]) \cup {id_active[v]}
             \/ wpc[v] = "return" /\ id_returning[v] = t
      BY <3>3 DEF AtWorker, InHand
    <3>6. p = NoTask => \A v \in Worker : ~AtWorker(v, t)
      BY <3>2, PrefillAssumption DEF TaskInv, OneHand
    <3>7. p # NoTask => AtWorker(p, t) \/ InQueue(t) > 0 \/ cur = TaskEntry(t)
      BY <3>2 DEF NotLost
    <3> QED
      BY <3>1, <3>4, <3>5, <3>6, <3>7
  <2> QED
    BY <2>1, <2>2, <2>3 DEF TaskInOneHand
<1> QED
  BY <1>1, <1>2, <1>3, PTL DEF Spec

=============================================================================
