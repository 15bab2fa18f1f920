--------------------------- MODULE ServerTasksProofs ---------------------------
(***************************************************************************)
(* Proofs about ServerTasks, for any number of requests, tasks and slots:  *)
(* where a task is, who reads its results, what a CANCEL reaches.          *)
(*                                                                         *)
(* The invariant gives every task a weight: 1 for each of its copies       *)
(* (queued, deferred, in the main loop's hands, on a slot), for each answer*)
(* on its way to the reader (an operation of the main loop, a queued       *)
(* result, a delivered one) and, for a child, for each copy of its parent  *)
(* that may still be launched.  No step raises a weight but the post.      *)
(***************************************************************************)
EXTENDS ServerTasks, SequenceProofs

-----------------------------------------------------------------------------
(* The queue                                                               *)

\* cleanup_pending_task takes every copy of its targets and leaves other tasks, and cancels.
LEMMA CleanupCounts ==
    ASSUME NEW S \in SUBSET Entry, NEW q \in Seq(S), NEW targets, NEW t, NEW e
    PROVE  /\ Cleanup(q, targets) \in Seq(S)
           /\ Occurrences(Cleanup(q, targets), e) \in Nat
           /\ Occurrences(Cleanup(q, targets), e) <= Occurrences(q, e)
           /\ Occurrences(Cleanup(q, targets), TaskEntry(t))
                 = IF t \in targets THEN 0 ELSE Occurrences(q, TaskEntry(t))
           /\ Occurrences(Cleanup(q, targets), CancelEntry(t)) = Occurrences(q, CancelEntry(t))
<1> DEFINE pos == {i \in DOMAIN q : ~(q[i].type = "task" /\ q[i].id \in targets)}
<1>1. DOMAIN q = 1 .. Len(q) /\ pos \in SUBSET (1 .. Len(q))
  OBVIOUS
<1>2. Cleanup(q, targets) = Kept(q, pos)
  BY DEF Cleanup
<1>3. t \in targets => \A p \in pos : q[p] # TaskEntry(t)
  BY DEF TaskEntry
<1>4. t \notin targets => \A i \in 1 .. Len(q) : q[i] = TaskEntry(t) => i \in pos
  BY <1>1 DEF TaskEntry
<1>5. \A i \in 1 .. Len(q) : q[i] = CancelEntry(t) => i \in pos
  BY <1>1 DEF CancelEntry
<1> HIDE DEF pos
<1> QED
  BY <1>1, <1>2, <1>3, <1>4, <1>5, KeptErases, KeptSelects

\* What post does to the counts: the entries posted are added, tasks that are
\* cancelled by them are gone from both queues, cancels stay.
LEMMA PostCounts ==
    ASSUME QueueTypeOK, NEW es \in Seq(Entry), NEW front \in BOOLEAN, Post(es, front)
    PROVE  /\ QueueTypeOK'
           /\ \A e : Occurrences(queue_tasks', e)
                        <= Occurrences(es, e) + Occurrences(queue_tasks, e)
           /\ \A t :
                 /\ Occurrences(queue_tasks', TaskEntry(t)) = Occurrences(es, TaskEntry(t))
                       + (IF t \in CancelTargets(es) THEN 0
                          ELSE Occurrences(queue_tasks, TaskEntry(t)))
                 /\ Occurrences(queue_tasks_deferred', TaskEntry(t))
                       = IF t \in CancelTargets(es) THEN 0
                         ELSE Occurrences(queue_tasks_deferred, TaskEntry(t))
                 /\ Occurrences(queue_tasks', CancelEntry(t))
                       = Occurrences(es, CancelEntry(t)) + Occurrences(queue_tasks, CancelEntry(t))
<1> SUFFICES ASSUME NEW t, NEW e
    PROVE  /\ QueueTypeOK'
           /\ Occurrences(queue_tasks', e) <= Occurrences(es, e) + Occurrences(queue_tasks, e)
           /\ Occurrences(queue_tasks', TaskEntry(t)) = Occurrences(es, TaskEntry(t))
                 + (IF t \in CancelTargets(es) THEN 0 ELSE Occurrences(queue_tasks, TaskEntry(t)))
           /\ Occurrences(queue_tasks_deferred', TaskEntry(t))
                 = IF t \in CancelTargets(es) THEN 0
                   ELSE Occurrences(queue_tasks_deferred, TaskEntry(t))
           /\ Occurrences(queue_tasks', CancelEntry(t))
                 = Occurrences(es, CancelEntry(t)) + Occurrences(queue_tasks, CancelEntry(t))
  OBVIOUS
<1> DEFINE q == Cleanup(queue_tasks, CancelTargets(es))
           D == [type : {"task"}, id : Task]
<1>1. queue_tasks \in Seq(Entry) /\ queue_tasks_deferred \in Seq(D) /\ D \subseteq Entry
  BY DEF QueueTypeOK, Entry
<1>2. /\ q \in Seq(Entry)
      /\ \A x : /\ Occurrences(q, x) \in Nat
                /\ Occurrences(q, x) <= Occurrences(queue_tasks, x)
      /\ Occurrences(q, TaskEntry(t)) = IF t \in CancelTargets(es) THEN 0
                                       ELSE Occurrences(queue_tasks, TaskEntry(t))
      /\ Occurrences(q, CancelEntry(t)) = Occurrences(queue_tasks, CancelEntry(t))
  <2>1. q \in Seq(Entry)
    BY <1>1, CleanupCounts
  <2>2. ASSUME NEW x
        PROVE  /\ Occurrences(q, x) \in Nat
               /\ Occurrences(q, x) <= Occurrences(queue_tasks, x)
    BY <1>1, CleanupCounts
  <2>3. /\ Occurrences(q, TaskEntry(t)) = IF t \in CancelTargets(es) THEN 0
                                          ELSE Occurrences(queue_tasks, TaskEntry(t))
        /\ Occurrences(q, CancelEntry(t)) = Occurrences(queue_tasks, CancelEntry(t))
    BY <1>1, CleanupCounts
  <2> QED
    BY <2>1, <2>2, <2>3
<1>3. /\ queue_tasks_deferred' \in Seq(D)
      /\ Occurrences(queue_tasks_deferred', TaskEntry(t))
            = IF t \in CancelTargets(es) THEN 0
              ELSE Occurrences(queue_tasks_deferred, TaskEntry(t))
  <2>1. queue_tasks_deferred' = Cleanup(queue_tasks_deferred, CancelTargets(es))
    BY DEF Post
  <2>2. D \in SUBSET Entry /\ queue_tasks_deferred \in Seq(D)
    BY <1>1
  <2> HIDE DEF D
  <2> DEFINE d == queue_tasks_deferred
             ts == CancelTargets(es)
  <2>3. d \in Seq(D)
    BY <2>2
  <2> HIDE DEF d, ts
  <2>4. Cleanup(d, ts) \in Seq(D)
    BY <2>2, <2>3, CleanupCounts
  <2>5. Occurrences(Cleanup(d, ts), TaskEntry(t))
           = IF t \in ts THEN 0 ELSE Occurrences(d, TaskEntry(t))
    BY <2>2, <2>3, CleanupCounts
  <2> QED
    BY <2>1, <2>4, <2>5 DEF d, ts
<1> HIDE DEF q, D
<1>4. Reverse(es) \in Seq(Entry)
  BY ReverseProperties
<1>5. queue_tasks' \in Seq(Entry) /\ \A x : Occurrences(queue_tasks', x) = Occurrences(es, x) + Occurrences(q, x)
  <2>1. CASE front
    <3>1. queue_tasks' = Reverse(es) \o q
      BY <2>1 DEF Post, q
    <3>2. \A x : Occurrences(Reverse(es) \o q, x) = Occurrences(Reverse(es), x) + Occurrences(q, x)
      BY <1>2, <1>4, OccurrencesConcat
    <3>3. \A x : Occurrences(Reverse(es), x) = Occurrences(es, x)
      BY OccurrencesReverse
    <3> QED
      BY <1>2, <1>4, <3>1, <3>2, <3>3, ConcatProperties
  <2>2. CASE ~front
    <3>1. queue_tasks' = q \o es
      BY <2>2 DEF Post, q
    <3>2. \A x : Occurrences(q \o es, x) = Occurrences(q, x) + Occurrences(es, x)
      BY <1>2, OccurrencesConcat
    <3>3. \A x : Occurrences(es, x) \in Nat /\ Occurrences(q, x) \in Nat
      BY <1>2, OccurrencesType
    <3> QED
      BY <1>2, <3>1, <3>2, <3>3, ConcatProperties
  <2> QED
    BY <2>1, <2>2
<1>6. \A x : /\ Occurrences(es, x) \in Nat /\ Occurrences(queue_tasks, x) \in Nat
            /\ Occurrences(q, x) \in Nat
  BY <1>1, <1>2, OccurrencesType
<1>7. Occurrences(queue_tasks', e) <= Occurrences(es, e) + Occurrences(queue_tasks, e)
  <2>1. /\ Occurrences(queue_tasks', e) = Occurrences(es, e) + Occurrences(q, e)
        /\ Occurrences(q, e) <= Occurrences(queue_tasks, e)
    BY <1>2, <1>5
  <2>2. /\ Occurrences(es, e) \in Nat /\ Occurrences(queue_tasks, e) \in Nat
        /\ Occurrences(q, e) \in Nat
    BY <1>6
  <2> QED
    BY <2>1, <2>2
<1> QED
  BY <1>2, <1>3, <1>5, <1>7 DEF QueueTypeOK, D

\* pop_deferred_task erases an entry that is there.
LEMMA DeferredForRange ==
    ASSUME QueueTypeOK, queue_tasks_deferred # <<>>, NEW slot
    PROVE  DeferredFor(slot) \in 1 .. Len(queue_tasks_deferred)
<1> DEFINE I == {i \in 1 .. Len(queue_tasks_deferred) : IdSlot[queue_tasks_deferred[i].id] = slot}
<1>1. DeferredFor(slot) = IF I # {} /\ Min(I) # 0 THEN Min(I) ELSE 1
  BY DEF DeferredFor, SelectInSeq
<1>2. I \in SUBSET Nat
  OBVIOUS
<1>3. I # {} => Min(I) \in I
  <2> HIDE DEF I
  <2> QED
    BY <1>2, MinIsLeast
<1>4. Len(queue_tasks_deferred) \in Nat \ {0}
  <2>1. queue_tasks_deferred \in Seq([type : {"task"}, id : Task])
    BY DEF QueueTypeOK
  <2> QED
    BY <2>1, EmptySeq
<1> QED
  BY <1>1, <1>3, <1>4


-----------------------------------------------------------------------------
(* The inductive invariant                                                 *)

Res(t, k) == [id |-> t, kind |-> k]

\* The copies of t that no slot runs yet, and those that a slot runs.
Hand(t) ==
    Occurrences(queue_tasks, TaskEntry(t)) + Occurrences(queue_tasks_deferred, TaskEntry(t))
    + (IF cur = TaskEntry(t) THEN 1 ELSE 0) + Occurrences(ops, DeferOp(t))

ParentHand(t) == IF IsChild(t) THEN Hand(ParentOf(t)) ELSE 0

OnSlots(t) == Cardinality({s \in Slot : slots[s].task = t})

\* The answers of kind k to t that are on their way or have arrived.
AnswersOf(t, k) ==
    Occurrences(ops, SendOp(t, k)) + Occurrences(queue_results, Res(t, k))
    + Occurrences(delivered[t], k)

Weight(t) ==
    Hand(t) + ParentHand(t) + OnSlots(t) + AnswersOf(t, "final") + AnswersOf(t, "error")

\* The task, or its parent, has been posted.
Posted(t) == \E r \in Request : t \in IdsOf(r) /\ pc[r] \notin {"idle", "registered"}

\* A slot has a task, and something left to do, exactly when it is not idle; a child
\* waits for its parent on it;
\* entries that concern a task name one, and cur is set while it is processed only.
Shapes ==
    /\ \A s \in Slot : slots[s].task = NoTask <=> slots[s].state = "IDLE"
    /\ \A s \in Slot : slots[s].state # "IDLE" => slots[s].left > 0
    /\ \A s \in Slot : slots[s].state = "WAIT_OTHER" => IsChild(slots[s].task)
    /\ \A e \in {TaskEntry(NoTask), CancelEntry(NoTask)} :
          Occurrences(queue_tasks, e) = 0 /\ cur # e
    /\ main # "process" => cur = NextEntry

OneWeight ==
    \A t \in Task :
        /\ Weight(t) <= 1
        /\ ~Posted(t) => Weight(t) = 0
        /\ IsChild(t) => Hand(t) = 0

\* A chunk on its way is of a task that still runs.
ChunksOfRunning == \A t \in Task : Occurrences(ops, SendOp(t, "partial")) > 0 => OnSlots(t) > 0

Finished(t) == Occurrences(delivered[t], "final") > 0
Ended(t) == Finished(t) \/ Occurrences(delivered[t], "error") > 0

\* The results of a task arrive in order: nothing follows its answer.
AnswerIsLast ==
    /\ \A i, j \in 1 .. Len(queue_results) :
          i < j /\ queue_results[i].id = queue_results[j].id => queue_results[i].kind = "partial"
    /\ \A i \in 1 .. Len(queue_results) : ~Ended(queue_results[i].id)

\* What a reader has counted, and what it waits for.
ReadersCount ==
    \A r \in Request :
        /\ received[r] = Cardinality({t \in IdsOf(r) : Finished(t)})
        /\ pc[r] \in {"idle", "registered", "waiting"} =>
              /\ \A t \in IdsOf(r) : Occurrences(delivered[t], "error") = 0
              /\ IdsOf(r) # {} => HasNext(r)

IdsAreWaiting ==
    \A t \in Task : t \in waiting_task_ids <=>
        \E r \in Request : t \in IdsOf(r) /\ pc[r] \in {"registered", "waiting", "stopping"}

\* Each queued result is of a task of some reader that receives or will purge it.
ResultsAreRead ==
    \A i \in 1 .. Len(queue_results) : \E r \in Request :
        /\ queue_results[i].id \in IdsOf(r)
        /\ pc[r] = "waiting" \/ (pc[r] = "stopping" /\ HasNext(r))

CancelPending(t) == Occurrences(queue_tasks, CancelEntry(t)) > 0 \/ cur = CancelEntry(t)

\* After a reader is gone, its tasks are in no queue unless they were overtaken, a
\* CANCEL is on its way to each that still runs, and there is none before.
GoneIsCancelled ==
    \A r \in Request : \A t \in IdsOf(r) :
        /\ pc[r] = "done" /\ t \notin overtaken => Hand(t) = 0
        /\ pc[r] = "done" /\ OnSlots(t) > 0 =>
              CancelPending(t) \/ t \in overtaken \/ ParentOf(t) \in overtaken
        /\ CancelPending(t) => pc[r] = "done"
        /\ IsChild(t) => t \notin overtaken

\* An error for a task of r is on its way to the reader.
ErrorComing(r) ==
    \E t \in IdsOf(r) : \/ Occurrences(queue_results, Res(t, "error")) > 0
                        \/ Occurrences(ops, SendOp(t, "error")) > 0

\* What ends the wait of child c, which belongs to r.
Rescue(c, r) ==
    \/ pc[r] = "waiting" /\ ErrorComing(r)
    \/ pc[r] \in {"stopping", "cancelling"}
    \/ CancelPending(c)
    \/ ParentOf(c) \in overtaken

\* StrandedChildIsCancelled, by counts.
ChildrenAreRescued ==
    \A s \in Slot : slots[s].state = "WAIT_OTHER" =>
        \/ \E p \in Slot : /\ slots[p].state = "PROMPT"
                           /\ slots[p].task = ParentOf(slots[s].task)
        \/ \A r \in Request : slots[s].task \in IdsOf(r) => Rescue(slots[s].task, r)

Inv ==
    /\ TypeOK /\ Shapes /\ OneWeight /\ ChunksOfRunning /\ AnswerIsLast
    /\ ReadersCount /\ IdsAreWaiting /\ ResultsAreRead
    /\ GoneIsCancelled /\ ChildrenAreRescued

-----------------------------------------------------------------------------
(* The constants                                                           *)

\* A child has one parent, which is no child; the others have none.
LEMMA Children ==
    ASSUME NEW p \in Task
    PROVE  /\ \A c \in ToSet(ChildTasks[p]) :
                 c \in Task /\ IsChild(c) /\ ParentOf(c) = p /\ c # p
           /\ IsChild(p) => /\ ParentOf(p) \in Task /\ p \in ToSet(ChildTasks[ParentOf(p)])
                            /\ ParentOf(p) # p
           /\ ChildTasks[p] \in Seq(Task)
           /\ \A c \in ToSet(ChildTasks[p]) : ~IsParent(c)
<1>1. /\ \A q \in Task : ChildTasks[q] \in Seq(Task)
      /\ \A q \in Task : \A c \in ToSet(ChildTasks[q]) :
            ~IsParent(c) /\ \A o \in Task \ {q} : c \notin ToSet(ChildTasks[o])
  BY RequestAssumption
<1>2. ASSUME NEW q \in Task, NEW c \in ToSet(ChildTasks[q])
      PROVE  c \in Task /\ IsChild(c) /\ ParentOf(c) = q /\ c # q
  <2>1. c \in Task
    BY <1>1 DEF ToSet
  <2>2. \A o \in Task : c \in ToSet(ChildTasks[o]) => o = q
    BY <1>1
  <2>3. ParentOf(c) = q
    BY <2>2 DEF ParentOf
  <2>4. IsChild(c)
    BY <2>3, TaskAssumption DEF IsChild
  <2>5. c # q
    <3>1. ChildTasks[q] # <<>>
      BY DEF ToSet
    <3> QED
      BY <1>1, <3>1 DEF IsParent
  <2> QED
    BY <2>1, <2>3, <2>4, <2>5
<1>3. ASSUME IsChild(p)
      PROVE  ParentOf(p) \in Task /\ p \in ToSet(ChildTasks[ParentOf(p)])
  BY <1>3 DEF IsChild, ParentOf
<1> QED
  BY <1>1, <1>2, <1>3

\* The ids of a request are finitely many tasks, those of its vector and their children; with
\* a child comes its parent.
LEMMA Ids ==
    ASSUME NEW r \in Request
    PROVE  /\ IdsOf(r) \subseteq Task
           /\ IsFiniteSet(IdsOf(r))
           /\ Cardinality(IdsOf(r)) \in Nat
           /\ TasksOf[r] \in Seq(Task)
           /\ \A t \in ToSet(TasksOf[r]) : t \in IdsOf(r) /\ ~IsChild(t)
           /\ \A t \in IdsOf(r) : IsChild(t) => ParentOf(t) \in IdsOf(r)
           /\ \A p \in IdsOf(r) : \A c \in ToSet(ChildTasks[p]) : c \in IdsOf(r)
<1>1. TasksOf[r] \in Seq(Task) /\ ToSet(TasksOf[r]) \subseteq Task
  BY RequestAssumption DEF ToSet
<1>2. \A t \in Task : ChildTasks[t] \in Seq(Task) /\ ToSet(ChildTasks[t]) \subseteq Task
  BY Children DEF ToSet
<1>3. IdsOf(r) \subseteq Task
  BY <1>1, <1>2 DEF IdsOf
<1>4. \A t \in ToSet(TasksOf[r]) : t \in IdsOf(r) /\ \A c \in ToSet(ChildTasks[t]) : c \in IdsOf(r)
  BY DEF IdsOf
<1>5. ASSUME NEW t \in ToSet(TasksOf[r]) PROVE ~IsChild(t)
  <2>1. \A p \in Task : t \notin ToSet(ChildTasks[p])
    BY RequestAssumption
  <2> QED
    BY <1>1, <2>1, Children
<1>6. ASSUME NEW t \in IdsOf(r)
      PROVE  \/ t \in ToSet(TasksOf[r])
             \/ \E p \in ToSet(TasksOf[r]) : t \in ToSet(ChildTasks[p])
  BY DEF IdsOf
<1>7. ASSUME NEW t \in IdsOf(r), IsChild(t) PROVE ParentOf(t) \in IdsOf(r)
  <2>1. PICK p \in ToSet(TasksOf[r]) : t \in ToSet(ChildTasks[p])
    BY <1>5, <1>6, <1>7
  <2>2. ParentOf(t) = p
    BY <1>1, <2>1, Children
  <2> QED
    BY <1>4, <2>2
<1>8. ASSUME NEW p \in IdsOf(r), NEW c \in ToSet(ChildTasks[p]) PROVE c \in IdsOf(r)
  <2>1. CASE p \in ToSet(TasksOf[r])
    BY <1>4, <2>1
  <2>2. CASE \E q \in ToSet(TasksOf[r]) : p \in ToSet(ChildTasks[q])
    <3>1. ~IsParent(p)
      BY <1>1, <2>2, Children
    <3>2. ToSet(ChildTasks[p]) = {}
      BY <3>1 DEF IsParent, ToSet
    <3> QED
      BY <3>2
  <2> QED
    BY <1>6, <2>1, <2>2
<1>9. ASSUME NEW s \in Seq(Task) PROVE IsFiniteSet(ToSet(s))
  <2> DEFINE f == [i \in 1 .. Len(s) |-> s[i]]
  <2>1. Len(s) \in Nat /\ DOMAIN s = 1 .. Len(s)
    OBVIOUS
  <2>2. ToSet(s) = {f[i] : i \in 1 .. Len(s)}
    BY <2>1 DEF ToSet
  <2>3. f \in Surjection(1 .. Len(s), ToSet(s))
    <3> HIDE DEF f
    <3>1. f \in [1 .. Len(s) -> ToSet(s)]
      BY <2>2 DEF f
    <3> QED
      BY <2>2, <3>1 DEF Surjection
  <2>4. IsFiniteSet(1 .. Len(s))
    BY <2>1, FS_Interval
  <2> QED
    BY <2>3, <2>4, FS_Surjection
<1>10. IsFiniteSet(IdsOf(r))
  <2> DEFINE T == ToSet(TasksOf[r])
             F == {{t} \cup ToSet(ChildTasks[t]) : t \in T}
             f == [t \in T |-> {t} \cup ToSet(ChildTasks[t])]
  <2>1. IsFiniteSet(T)
    BY <1>1, <1>9
  <2>2. f \in Surjection(T, F)
    BY DEF Surjection
  <2>3. IsFiniteSet(F)
    <3> HIDE DEF f, F, T
    <3> QED
      BY <2>1, <2>2, FS_Surjection
  <2>4. \A t \in T : IsFiniteSet({t} \cup ToSet(ChildTasks[t]))
    BY <1>1, <1>2, <1>9, FS_Singleton, FS_Union
  <2>5. \A A \in F : IsFiniteSet(A)
    BY <2>4
  <2>6. IsFiniteSet(UNION F)
    <3> HIDE DEF F
    <3> QED
      BY <2>3, <2>5, FS_UNION
  <2> QED
    BY <2>6 DEF IdsOf
<1> QED
  BY <1>1, <1>3, <1>4, <1>5, <1>7, <1>8, <1>10, FS_CardinalityType

\* An id belongs to one request.
LEMMA OneOwner ==
    ASSUME NEW r \in Request, NEW t \in IdsOf(r)
    PROVE  Owner(t) = r /\ \A q \in Request : t \in IdsOf(q) => q = r
<1>1. \A q \in Request : t \in IdsOf(q) => q = r
  BY RequestAssumption
<1> QED
  BY <1>1 DEF Owner

-----------------------------------------------------------------------------
(* Counting                                                                *)

\* The result that recv finds is the first that belongs to its ids.
LEMMA FirstResultMeaning ==
    ASSUME ResponseTypeOK, NEW ids
    PROVE  LET i == FirstResultOf(ids)
           IN  i # 0 => /\ i \in 1 .. Len(queue_results)
                        /\ queue_results[i].id \in ids
                        /\ \A j \in 1 .. Len(queue_results) :
                              j < i => queue_results[j].id \notin ids
<1> DEFINE I == {i \in 1 .. Len(queue_results) : queue_results[i].id \in ids}
<1>1. FirstResultOf(ids) = IF I # {} THEN Min(I) ELSE 0
  BY DEF FirstResultOf, SelectInSeq
<1>2. I \in SUBSET Nat
  OBVIOUS
<1>3. I # {} => Min(I) \in I /\ \A y \in I : ~(y < Min(I))
  <2> HIDE DEF I
  <2>1. I # {} => Min(I) \in I /\ \A y \in I : Min(I) <= y
    BY <1>2, MinIsLeast
  <2>2. \A x, y \in I : x <= y => ~(y < x)
    BY <1>2
  <2> QED
    BY <2>1, <2>2
<1>4. I # {} => \A j \in 1 .. Len(queue_results) : j < Min(I) => j \notin I
  <2> HIDE DEF I
  <2> QED
    BY <1>3
<1>5. FirstResultOf(ids) # 0 => I # {} /\ FirstResultOf(ids) = Min(I)
  BY <1>1
<1> QED
  BY <1>3, <1>4, <1>5

\* Sets of slots are finite.
LEMMA SlotsFinite ==
    /\ IsFiniteSet(Slot)
    /\ \A S : S \subseteq Slot => IsFiniteSet(S) /\ Cardinality(S) \in Nat
<1>1. NSlots \in Nat
  BY RequestAssumption
<1>2. IsFiniteSet(Slot)
  BY <1>1, FS_Interval DEF Slot
<1> QED
  BY <1>2, FS_Subset, FS_CardinalityType

Counts ==
    /\ \A e : /\ Occurrences(queue_tasks, e) \in Nat
              /\ Occurrences(queue_tasks_deferred, e) \in Nat
              /\ Occurrences(ops, e) \in Nat
              /\ Occurrences(queue_results, e) \in Nat
    /\ \A t \in Task : \A e : Occurrences(delivered[t], e) \in Nat
    /\ \A t \in Task :
          /\ Hand(t) \in Nat /\ ParentHand(t) \in Nat /\ OnSlots(t) \in Nat
          /\ \A k : AnswersOf(t, k) \in Nat
          /\ Weight(t) \in Nat

\* What is counted below is a number in every state of the right type.
LEMMA CountsType == TypeOK => Counts
<1> SUFFICES ASSUME TypeOK PROVE Counts
  OBVIOUS
<1>1. \A e : /\ Occurrences(queue_tasks, e) \in Nat
             /\ Occurrences(queue_tasks_deferred, e) \in Nat
             /\ Occurrences(ops, e) \in Nat
             /\ Occurrences(queue_results, e) \in Nat
  BY OccurrencesType DEF TypeOK, QueueTypeOK, ResponseTypeOK
<1>2. \A t \in Task : \A e : Occurrences(delivered[t], e) \in Nat
  BY OccurrencesType DEF TypeOK
<1>3. \A t : Hand(t) \in Nat
  BY <1>1 DEF Hand
<1>4. \A t \in Task : ParentHand(t) \in Nat
  BY <1>3 DEF ParentHand
<1>5. \A t : OnSlots(t) \in Nat
  BY SlotsFinite DEF OnSlots
<1>6. ASSUME NEW t \in Task, NEW k PROVE AnswersOf(t, k) \in Nat
  <2>1. /\ Occurrences(ops, SendOp(t, k)) \in Nat
        /\ Occurrences(queue_results, Res(t, k)) \in Nat
        /\ Occurrences(delivered[t], k) \in Nat
    BY <1>1, <1>2
  <2> QED
    BY <2>1 DEF AnswersOf
<1>7. \A t \in Task : Weight(t) \in Nat
  BY <1>3, <1>4, <1>5, <1>6 DEF Weight
<1> QED
  BY <1>1, <1>2, <1>3, <1>4, <1>5, <1>6, <1>7 DEF Counts

\* The same after a step.
LEMMA CountsTypeNext == TypeOK' => Counts'
  BY CountsType, PTL

\* Entries, operations and results are told apart by what they carry.
LEMMA Distinct ==
    /\ \A t, u : TaskEntry(t) = TaskEntry(u) <=> t = u
    /\ \A t, u : CancelEntry(t) = CancelEntry(u) <=> t = u
    /\ \A t, u : TaskEntry(t) # CancelEntry(u)
    /\ \A t : TaskEntry(t) # NextEntry /\ CancelEntry(t) # NextEntry
    /\ \A t, u : DeferOp(t) = DeferOp(u) <=> t = u
    /\ \A t, u, k, j : SendOp(t, k) = SendOp(u, j) <=> t = u /\ k = j
    /\ \A t, u, k, s : /\ DeferOp(t) # SendOp(u, k) /\ DeferOp(t) # PopDeferOp(s)
                       /\ SendOp(t, k) # PopDeferOp(s)
    /\ \A t, k : DeferOp(t) # NextOp /\ SendOp(t, k) # NextOp
    /\ \A t, u, k, j : Res(t, k) = Res(u, j) <=> t = u /\ k = j
<1>1. /\ \A t, u : TaskEntry(t) = TaskEntry(u) <=> t = u
      /\ \A t, u : CancelEntry(t) = CancelEntry(u) <=> t = u
      /\ \A t, u : TaskEntry(t) # CancelEntry(u)
      /\ \A t : TaskEntry(t) # NextEntry /\ CancelEntry(t) # NextEntry
  <2>1. \A t, u : /\ TaskEntry(t).type = "task" /\ CancelEntry(u).type = "cancel"
                  /\ TaskEntry(t).id = t /\ CancelEntry(u).id = u /\ NextEntry.type = "next"
    BY DEF TaskEntry, CancelEntry, NextEntry
  <2> QED
    BY <2>1
<1>2. /\ \A t, u : DeferOp(t) = DeferOp(u) <=> t = u
      /\ \A t, u, k, s : /\ DeferOp(t) # SendOp(u, k) /\ DeferOp(t) # PopDeferOp(s)
                         /\ SendOp(t, k) # PopDeferOp(s)
      /\ \A t, k : DeferOp(t) # NextOp /\ SendOp(t, k) # NextOp
      /\ \A t, u, k, j : SendOp(t, k) = SendOp(u, j) <=> t = u /\ k = j
  <2>1. \A t, u, k, s : /\ DeferOp(t).op = "defer" /\ SendOp(u, k).op = "send"
                        /\ PopDeferOp(s).op = "popdef" /\ NextOp.op = "next"
                        /\ DeferOp(t).task = t /\ SendOp(u, k).result.id = u
                        /\ SendOp(u, k).result.kind = k
    BY DEF DeferOp, SendOp, PopDeferOp, NextOp
  <2> QED
    BY <2>1
<1>3. \A t, u, k, j : Res(t, k) = Res(u, j) <=> t = u /\ k = j
  <2>1. \A t, k : Res(t, k).id = t /\ Res(t, k).kind = k
    BY DEF Res
  <2> QED
    BY <2>1
<1> QED
  BY <1>1, <1>2, <1>3

\* A result is its id and its kind.
LEMMA ResultForms ==
    ASSUME NEW x \in Result
    PROVE  x.id \in Task /\ x.kind \in ResultKind /\ x = Res(x.id, x.kind)
  BY RequestAssumption DEF Result, Res

\* The operations of the main loop, by their form.
LEMMA OpForms ==
    ASSUME NEW o \in Op
    PROVE  \/ o.op = "next" /\ o = NextOp
           \/ o.op = "defer" /\ o.task \in Task /\ o = DeferOp(o.task)
           \/ o.op = "popdef" /\ o.slot \in Slot /\ o = PopDeferOp(o.slot)
           \/ /\ o.op = "send" /\ o.result \in Result
              /\ o = SendOp(o.result.id, o.result.kind)
<1>1. CASE o \in [op : {"next"}]
  BY <1>1 DEF NextOp
<1>2. CASE o \in [op : {"defer"}, task : Task]
  BY <1>2 DEF DeferOp
<1>3. CASE o \in [op : {"popdef"}, slot : Slot]
  BY <1>3 DEF PopDeferOp
<1>4. CASE o \in [op : {"send"}, result : Result]
  <2>1. o.op = "send" /\ o.result \in Result /\ o = [op |-> "send", result |-> o.result]
    BY <1>4
  <2>2. o.result = [id |-> o.result.id, kind |-> o.result.kind]
    BY <2>1, ResultForms DEF Res
  <2> QED
    BY <2>1, <2>2 DEF SendOp
<1> QED
  BY <1>1, <1>2, <1>3, <1>4 DEF Op

\* The entries of the queues, by their form.
LEMMA EntryForms ==
    ASSUME NEW e \in Entry
    PROVE  \/ e.type = "task" /\ e.id \in Task \cup {NoTask} /\ e = TaskEntry(e.id)
           \/ e.type = "cancel" /\ e.id \in Task \cup {NoTask} /\ e = CancelEntry(e.id)
           \/ e.type = "next"
  BY DEF Entry, TaskEntry, CancelEntry

\* Entries, operations and results of tasks have the right types.
LEMMA EntryTypes ==
    /\ NextEntry \in Entry
    /\ \A t \in Task : TaskEntry(t) \in Entry /\ CancelEntry(t) \in Entry
                       /\ TaskEntry(t) \in [type : {"task"}, id : Task]
    /\ NextOp \in Op
    /\ \A t \in Task : DeferOp(t) \in Op
    /\ \A s \in Slot : PopDeferOp(s) \in Op
    /\ \A t \in Task, k \in ResultKind : SendOp(t, k) \in Op /\ Res(t, k) \in Result
  BY RequestAssumption DEF Entry, NextEntry, TaskEntry, CancelEntry, Op, NextOp, DeferOp,
     PopDeferOp, SendOp, Res, Result

-----------------------------------------------------------------------------
(* Weights                                                                 *)

\* The weight of a task that the step moves nowhere new does not grow.
LEMMA WeightFalls ==
    ASSUME Counts, Counts', NEW t \in Task, \A u \in Task : Hand(u)' <= Hand(u),
           OnSlots(t)' + AnswersOf(t, "final")' + AnswersOf(t, "error")'
              <= OnSlots(t) + AnswersOf(t, "final") + AnswersOf(t, "error")
    PROVE  Weight(t)' <= Weight(t)
<1>1. /\ Hand(t) \in Nat /\ Hand(t)' \in Nat /\ Hand(t)' <= Hand(t)
      /\ OnSlots(t) \in Nat /\ OnSlots(t)' \in Nat
  BY DEF Counts
<1>2. /\ AnswersOf(t, "final") \in Nat /\ AnswersOf(t, "final")' \in Nat
      /\ AnswersOf(t, "error") \in Nat /\ AnswersOf(t, "error")' \in Nat
  BY DEF Counts
<1>3. ParentHand(t) \in Nat /\ ParentHand(t)' \in Nat /\ ParentHand(t)' <= ParentHand(t)
  <2>1. ParentHand(t) \in Nat /\ ParentHand(t)' \in Nat
    BY DEF Counts
  <2>2. CASE IsChild(t)
    <3>1. ParentOf(t) \in Task
      BY <2>2, Children
    <3> QED
      BY <2>1, <2>2, <3>1 DEF ParentHand
  <2>3. CASE ~IsChild(t)
    BY <2>1, <2>3 DEF ParentHand
  <2> QED
    BY <2>1, <2>2, <2>3
<1> QED
  BY <1>1, <1>2, <1>3 DEF Weight

\* A step that raises no weight, and takes back no post, keeps one weight per task.
LEMMA OneWeightKept ==
    ASSUME Counts, Counts', OneWeight,
           \A t \in Task : Hand(t)' <= Hand(t) /\ Weight(t)' <= Weight(t),
           \A r \in Request : pc[r] \notin {"idle", "registered"}
                                 => pc'[r] \notin {"idle", "registered"}
    PROVE  OneWeight'
<1>1. ASSUME NEW t \in Task
      PROVE  /\ Weight(t) \in Nat /\ Weight(t)' \in Nat /\ Weight(t)' <= Weight(t)
             /\ Hand(t) \in Nat /\ Hand(t)' \in Nat /\ Hand(t)' <= Hand(t)
  BY DEF Counts
<1>2. \A t \in Task : Posted(t) => Posted(t)'
  BY DEF Posted
<1> QED
  BY <1>1, <1>2 DEF OneWeight

\* What a weight of at most one says of a task.
LEMMA OneThing ==
    ASSUME Counts, OneWeight, NEW t \in Task
    PROVE  /\ Hand(t) + ParentHand(t) + OnSlots(t) + AnswersOf(t, "final")
                 + AnswersOf(t, "error") <= 1
           /\ Hand(t) \in Nat /\ ParentHand(t) \in Nat /\ OnSlots(t) \in Nat
           /\ AnswersOf(t, "final") \in Nat /\ AnswersOf(t, "error") \in Nat
           /\ \A k : /\ Occurrences(ops, SendOp(t, k)) \in Nat
                     /\ Occurrences(queue_results, Res(t, k)) \in Nat
                     /\ Occurrences(delivered[t], k) \in Nat
                     /\ Occurrences(ops, SendOp(t, k)) <= AnswersOf(t, k)
                     /\ Occurrences(queue_results, Res(t, k)) <= AnswersOf(t, k)
                     /\ Occurrences(delivered[t], k) <= AnswersOf(t, k)
           /\ (Hand(t) > 0 \/ ParentHand(t) > 0 \/ OnSlots(t) > 0
                  \/ AnswersOf(t, "final") > 0 \/ AnswersOf(t, "error") > 0) => Posted(t)
           /\ IsChild(t) => Hand(t) = 0
<1>1. /\ Hand(t) \in Nat /\ ParentHand(t) \in Nat /\ OnSlots(t) \in Nat
      /\ AnswersOf(t, "final") \in Nat /\ AnswersOf(t, "error") \in Nat
  BY DEF Counts
<1>2. Weight(t) <= 1 /\ (~Posted(t) => Weight(t) = 0) /\ (IsChild(t) => Hand(t) = 0)
  BY DEF OneWeight
<1>3. ASSUME NEW k
      PROVE  /\ Occurrences(ops, SendOp(t, k)) \in Nat
             /\ Occurrences(queue_results, Res(t, k)) \in Nat
             /\ Occurrences(delivered[t], k) \in Nat
             /\ Occurrences(ops, SendOp(t, k)) <= AnswersOf(t, k)
             /\ Occurrences(queue_results, Res(t, k)) <= AnswersOf(t, k)
             /\ Occurrences(delivered[t], k) <= AnswersOf(t, k)
  <2>1. /\ Occurrences(ops, SendOp(t, k)) \in Nat
        /\ Occurrences(queue_results, Res(t, k)) \in Nat
        /\ Occurrences(delivered[t], k) \in Nat
    BY DEF Counts
  <2> QED
    BY <2>1 DEF AnswersOf
<1>4. Weight(t) = Hand(t) + ParentHand(t) + OnSlots(t) + AnswersOf(t, "final") + AnswersOf(t, "error")
  BY DEF Weight
<1>5. (Hand(t) > 0 \/ ParentHand(t) > 0 \/ OnSlots(t) > 0
          \/ AnswersOf(t, "final") > 0 \/ AnswersOf(t, "error") > 0) => Posted(t)
  BY <1>1, <1>2, <1>4
<1> QED
  BY <1>1, <1>2, <1>3, <1>4, <1>5

\* What the number of slots that run t says of the slots.
LEMMA SlotCount ==
    ASSUME NEW f, NEW t
    PROVE  LET I == {s \in Slot : f[s].task = t}
               n == Cardinality(I)
           IN  /\ n \in Nat
               /\ n = 0 <=> \A s \in Slot : f[s].task # t
               /\ n > 0 <=> \E s \in Slot : f[s].task = t
               /\ n <= 1 <=> \A a, b \in Slot : f[a].task = t /\ f[b].task = t => a = b
<1> DEFINE I == {s \in Slot : f[s].task = t}
           n == Cardinality(I)
<1>1. IsFiniteSet(I) /\ n \in Nat
  BY SlotsFinite
<1>2. n = 0 <=> I = {}
  <2> HIDE DEF I
  <2> QED
    BY <1>1, FS_EmptySet
<1>3. ASSUME n <= 1, NEW a \in I, NEW b \in I PROVE a = b
  <2> HIDE DEF I
  <2>1. n = 1
    BY <1>1, <1>2, <1>3
  <2>2. PICK x : I = {x}
    BY <1>1, <2>1, FS_Singleton
  <2> QED
    BY <2>2
<1>4. ASSUME \A a, b \in I : a = b PROVE n <= 1
  <2> HIDE DEF I
  <2>1. CASE I = {}
    BY <1>2, <2>1
  <2>2. ASSUME NEW x \in I PROVE n = 1
    <3>1. I = {x}
      BY <1>4
    <3> QED
      BY <3>1, FS_Singleton
  <2> QED
    BY <2>1, <2>2
<1>5. n <= 1 <=> \A a, b \in I : a = b
  BY <1>3, <1>4
<1>6. n > 0 <=> I # {}
  <2> HIDE DEF I
  <2> QED
    BY <1>1, <1>2
<1> QED
  BY <1>1, <1>2, <1>5, <1>6

\* How many slots run a task, in terms of the slots.
LEMMA OnSlotsMeaning ==
    ASSUME NEW t
    PROVE  /\ OnSlots(t) \in Nat
           /\ OnSlots(t) = 0 <=> \A s \in Slot : slots[s].task # t
           /\ OnSlots(t) > 0 <=> \E s \in Slot : slots[s].task = t
           /\ OnSlots(t) <= 1 <=>
                 \A a, b \in Slot : slots[a].task = t /\ slots[b].task = t => a = b
  BY SlotCount DEF OnSlots

\* The same after a step.
LEMMA OnSlotsMeaningNext ==
    ASSUME NEW t
    PROVE  /\ OnSlots(t)' \in Nat
           /\ OnSlots(t)' = 0 <=> \A s \in Slot : slots'[s].task # t
           /\ OnSlots(t)' > 0 <=> \E s \in Slot : slots'[s].task = t
           /\ OnSlots(t)' <= 1 <=>
                 \A a, b \in Slot : slots'[a].task = t /\ slots'[b].task = t => a = b
  BY SlotCount DEF OnSlots

\* A slot that keeps its task or gives it up.
LEMMA OnSlotsFalls ==
    ASSUME NEW t, \A s \in Slot : slots'[s].task = t => slots[s].task = t
    PROVE  OnSlots(t)' <= OnSlots(t)
<1> DEFINE I == {s \in Slot : slots[s].task = t}
           J == {s \in Slot : slots'[s].task = t}
<1>1. J \in SUBSET I /\ IsFiniteSet(I)
  BY SlotsFinite
<1>2. Cardinality(J) <= Cardinality(I)
  <2> HIDE DEF I, J
  <2> QED
    BY <1>1, FS_Subset
<1> QED
  BY <1>2 DEF OnSlots

-----------------------------------------------------------------------------
(* The calls of a callback                                                 *)

\* The slots of a set in order are its elements, each once.
LEMMA InOrderProperties ==
    ASSUME NEW S \in SUBSET Slot
    PROVE  /\ InOrder(S) \in Seq(Slot)
           /\ Len(InOrder(S)) = Cardinality(S)
           /\ \A i \in 1 .. Len(InOrder(S)) : InOrder(S)[i] \in S
           /\ \A i, j \in 1 .. Len(InOrder(S)) : InOrder(S)[i] = InOrder(S)[j] => i = j
           /\ \A s \in S : \E i \in 1 .. Len(InOrder(S)) : InOrder(S)[i] = s
<1> DEFINE all == [i \in 1 .. NSlots |-> i - 1]
           pos == {i \in 1 .. NSlots : i - 1 \in S}
           r == InOrder(S)
<1>1. NSlots \in Nat
  BY RequestAssumption
<1>2. /\ all \in Seq(Slot) /\ Len(all) = NSlots
      /\ \A i \in 1 .. NSlots : all[i] = i - 1
  BY <1>1 DEF Slot
<1>3. r = Kept(all, pos)
  BY DEF InOrder
<1>4. pos \in SUBSET (1 .. Len(all))
  BY <1>2
<1>5. r \in Seq(Slot) /\ \E b : Selects(r, all, pos, b)
  <2> HIDE DEF all, pos, r
  <2> QED
    BY <1>2, <1>3, <1>4, KeptSelects
<1>6. PICK b : Selects(r, all, pos, b)
  BY <1>5
<1>7. Len(r) \in Nat
  BY <1>5
<1> HIDE DEF r
<1>8. \A i \in 1 .. Len(r) : b[i] \in pos /\ r[i] = b[i] - 1
  BY <1>2, <1>6 DEF Selects
<1>9. \A i \in 1 .. Len(r) : r[i] \in S
  BY <1>8
<1>10. \A i, j \in 1 .. Len(r) : r[i] = r[j] => i = j
  <2> SUFFICES ASSUME NEW i \in 1 .. Len(r), NEW j \in 1 .. Len(r), i < j PROVE r[i] # r[j]
    BY <1>7
  <2>1. b[i] < b[j] /\ b[i] \in Nat /\ b[j] \in Nat
    BY <1>6, <1>8 DEF Selects
  <2> QED
    BY <1>8, <2>1
<1>11. ASSUME NEW s \in S PROVE \E i \in 1 .. Len(r) : r[i] = s
  <2>1. s + 1 \in pos /\ (s + 1) - 1 = s
    BY <1>1 DEF Slot
  <2>2. PICK i \in 1 .. Len(r) : b[i] = s + 1
    BY <1>6, <2>1 DEF Selects
  <2> QED
    BY <1>8, <2>1, <2>2
<1>12. Len(r) = Cardinality(S)
  <2> DEFINE f == [i \in 1 .. Len(r) |-> r[i]]
  <2>1. f \in [1 .. Len(r) -> S]
    BY <1>9
  <2>2. f \in Bijection(1 .. Len(r), S)
    <3> DEFINE D == 1 .. Len(r)
    <3>1. \A i \in D : f[i] = r[i]
      OBVIOUS
    <3>2. f \in [D -> S] /\ (\A i, j \in D : f[i] = f[j] => i = j)
          /\ \A s \in S : \E i \in D : f[i] = s
      BY <1>10, <1>11, <2>1
    <3> HIDE DEF D, f
    <3>3. f \in Injection(D, S) /\ f \in Surjection(D, S)
      BY <3>2 DEF Injection, Surjection, IsInjective
    <3> QED
      BY <3>3 DEF Bijection, D
  <2>3. ASSUME NEW m \in Nat PROVE IsFiniteSet(1 .. m) /\ Cardinality(1 .. m) = m
    BY FS_Interval
  <2>4. IsFiniteSet(1 .. Len(r)) /\ Cardinality(1 .. Len(r)) = Len(r)
    BY <1>7, <2>3
  <2> QED
    BY <2>2, <2>4, FS_Bijection DEF ExistsBijection
<1> QED
  BY <1>5, <1>9, <1>10, <1>11, <1>12 DEF r

UpdateOutcome == {"stay", "chunk", "partial", "final", "error"}

\* An answer is sent once, for the slot's own task.
LEMMA CallsOfCounts ==
    ASSUME NEW s \in Slot, NEW o \in UpdateOutcome, slots[s].task \in Task \/ o = "stay"
    PROVE  /\ CallsOf(s, o) \in Seq(Op)
           /\ \A t : Occurrences(CallsOf(s, o), DeferOp(t)) = 0
           /\ \A t, k : Occurrences(CallsOf(s, o), SendOp(t, k))
                 = IF /\ slots[s].task = t
                      /\ \/ k = "partial" /\ o = "partial" /\ t \in Streaming
                         \/ k = o /\ o \in {"final", "error"}
                   THEN 1 ELSE 0
<1> DEFINE u == slots[s].task
<1>1. CASE o = "partial" /\ u \in Streaming
  <2>1. CallsOf(s, o) = <<SendOp(u, "partial")>>
    BY <1>1 DEF CallsOf
  <2>2. SendOp(u, "partial") \in Op
    BY <1>1, EntryTypes DEF ResultKind
  <2> HIDE DEF u
  <2>5. CallsOf(s, o) \in Seq(Op)
    BY <2>1, <2>2
  <2>3. \A t : Occurrences(CallsOf(s, o), DeferOp(t)) = 0
    BY <2>1, OccurrencesSingleton, Distinct
  <2>4. \A t, k : Occurrences(CallsOf(s, o), SendOp(t, k))
                     = IF u = t /\ k = "partial" THEN 1 ELSE 0
    BY <2>1, OccurrencesSingleton, Distinct
  <2> QED
    BY <1>1, <2>3, <2>4, <2>5 DEF u
<1>2. CASE o \in {"final", "error"}
  <2>1. CallsOf(s, o) = <<SendOp(u, o), PopDeferOp(s)>>
    BY <1>2 DEF CallsOf
  <2>2. SendOp(u, o) \in Op /\ PopDeferOp(s) \in Op
    BY <1>2, EntryTypes DEF ResultKind
  <2> HIDE DEF u
  <2>3. \A e : Occurrences(CallsOf(s, o), e)
                  = (IF SendOp(u, o) = e THEN 1 ELSE 0) + (IF PopDeferOp(s) = e THEN 1 ELSE 0)
    BY <2>1, <2>2, OccurrencesPair
  <2>4. \A t : Occurrences(CallsOf(s, o), DeferOp(t)) = 0
    BY <2>3, Distinct
  <2>5. \A t, k : Occurrences(CallsOf(s, o), SendOp(t, k)) = IF u = t /\ k = o THEN 1 ELSE 0
    BY <2>3, Distinct
  <2>6. CallsOf(s, o) \in Seq(Op)
    BY <2>1, <2>2
  <2>7. ASSUME NEW t, NEW k
        PROVE  (u = t /\ k = o) <=>
                  /\ u = t
                  /\ \/ k = "partial" /\ o = "partial" /\ t \in Streaming
                     \/ k = o /\ o \in {"final", "error"}
    BY <1>2
  <2>8. ASSUME NEW t, NEW k
        PROVE  Occurrences(CallsOf(s, o), SendOp(t, k))
                 = IF /\ slots[s].task = t
                      /\ \/ k = "partial" /\ o = "partial" /\ t \in Streaming
                         \/ k = o /\ o \in {"final", "error"}
                   THEN 1 ELSE 0
    BY <2>5, <2>7 DEF u
  <2> QED
    BY <2>4, <2>6, <2>8
<1>3. CASE ~(o = "partial" /\ u \in Streaming) /\ o \notin {"final", "error"}
  <2>1. CallsOf(s, o) = <<>>
    BY <1>3 DEF CallsOf
  <2>2. <<>> \in Seq(Op) /\ \A e : Occurrences(<<>>, e) = 0
    BY OccurrencesEmpty
  <2>3. ASSUME NEW t, NEW k
        PROVE  ~(/\ slots[s].task = t
                 /\ \/ k = "partial" /\ o = "partial" /\ t \in Streaming
                    \/ k = o /\ o \in {"final", "error"})
    BY <1>3
  <2>4. ASSUME NEW t, NEW k
        PROVE  Occurrences(CallsOf(s, o), SendOp(t, k))
                 = IF /\ slots[s].task = t
                      /\ \/ k = "partial" /\ o = "partial" /\ t \in Streaming
                         \/ k = o /\ o \in {"final", "error"}
                   THEN 1 ELSE 0
    <3>1. Occurrences(CallsOf(s, o), SendOp(t, k)) = 0
      BY <2>1, OccurrencesEmpty
    <3>2. ~(/\ slots[s].task = t
            /\ \/ k = "partial" /\ o = "partial" /\ t \in Streaming
               \/ k = o /\ o \in {"final", "error"})
      BY <2>3
    <3> QED
      BY <3>1, <3>2
  <2> QED
    BY <2>1, <2>2, <2>4
<1> QED
  BY <1>1, <1>2, <1>3

\* The calls of a set of slots defer nothing, and answer a task that one of them runs as
\* that slot does.
LEMMA CallsCounts ==
    ASSUME NEW S \in SUBSET Slot, NEW out \in [Slot -> UpdateOutcome],
           \A s \in S : slots[s].task \in Task \/ out[s] = "stay"
    PROVE  /\ Calls(S, out) \in Seq(Op)
           /\ \A t : Occurrences(Calls(S, out), DeferOp(t)) = 0
           /\ \A t, k : (\A s \in S : slots[s].task # t)
                           => Occurrences(Calls(S, out), SendOp(t, k)) = 0
           /\ \A t, k : \A s \in S : (\A x \in S : slots[x].task = t => x = s)
                 => Occurrences(Calls(S, out), SendOp(t, k))
                       = Occurrences(CallsOf(s, out[s]), SendOp(t, k))
<1> DEFINE ord == InOrder(S)
           N == Len(ord)
           seqs == [i \in 1 .. N |-> CallsOf(ord[i], out[ord[i]])]
<1>1. /\ ord \in Seq(Slot) /\ N \in Nat /\ DOMAIN ord = 1 .. N
      /\ \A i \in 1 .. N : ord[i] \in S /\ ord[i] \in Slot
      /\ \A i, j \in 1 .. N : ord[i] = ord[j] => i = j
      /\ \A s \in S : \E i \in 1 .. N : ord[i] = s
  <2>1. /\ ord \in Seq(Slot)
        /\ \A i \in 1 .. Len(ord) : ord[i] \in S
        /\ \A i, j \in 1 .. Len(ord) : ord[i] = ord[j] => i = j
        /\ \A s \in S : \E i \in 1 .. Len(ord) : ord[i] = s
    BY ONLY S \in SUBSET Slot, InOrderProperties
  <2> HIDE DEF ord
  <2> QED
    BY <2>1
<1>0. N \in Nat
  BY <1>1
<1>2. Calls(S, out) = FlattenSeq(seqs)
  BY <1>1 DEF Calls
<1> HIDE DEF ord, N
<1>3. \A i \in 1 .. N : out[ord[i]] \in UpdateOutcome
  BY <1>1
<1>4. \A i \in 1 .. N : slots[ord[i]].task \in Task \/ out[ord[i]] = "stay"
  BY <1>1
<1>5. \A i \in 1 .. N :
         /\ seqs[i] = CallsOf(ord[i], out[ord[i]])
         /\ seqs[i] \in Seq(Op)
         /\ \A t : Occurrences(seqs[i], DeferOp(t)) = 0
         /\ \A t, k : slots[ord[i]].task # t => Occurrences(seqs[i], SendOp(t, k)) = 0
  BY <1>1, <1>3, <1>4, CallsOfCounts
<1>6. seqs \in [1 .. N -> Seq(Op)]
  BY <1>5
<1> HIDE DEF seqs
<1>7. FlattenSeq(seqs) \in Seq(Op)
  BY <1>1, <1>6, FlattenType
<1>8. ASSUME NEW t PROVE Occurrences(FlattenSeq(seqs), DeferOp(t)) = 0
  BY <1>1, <1>5, <1>6, FlattenWithout
<1>9. ASSUME NEW t, NEW k, \A s \in S : slots[s].task # t
      PROVE  Occurrences(FlattenSeq(seqs), SendOp(t, k)) = 0
  <2>1. \A i \in 1 .. N : Occurrences(seqs[i], SendOp(t, k)) = 0
    BY <1>1, <1>5, <1>9
  <2> DEFINE e == SendOp(t, k)
  <2> HIDE DEF e
  <2>2. \A i \in 1 .. N : Occurrences(seqs[i], e) = 0
    BY <2>1 DEF e
  <2>3. Occurrences(FlattenSeq(seqs), e) = 0
    BY <1>0, <1>6, <2>2, FlattenWithout
  <2> QED
    BY <2>3 DEF e
<1>10. ASSUME NEW t, NEW k, NEW s \in S, \A x \in S : slots[x].task = t => x = s
       PROVE  Occurrences(FlattenSeq(seqs), SendOp(t, k))
                 = Occurrences(CallsOf(s, out[s]), SendOp(t, k))
  <2>1. PICK m \in 1 .. N : ord[m] = s
    BY <1>1
  <2>2. \A i \in 1 .. N : i # m => Occurrences(seqs[i], SendOp(t, k)) = 0
    BY <1>1, <1>5, <1>10, <2>1
  <2> DEFINE e == SendOp(t, k)
  <2> HIDE DEF e
  <2>3. \A i \in 1 .. N : i # m => Occurrences(seqs[i], e) = 0
    BY <2>2 DEF e
  <2>4. Occurrences(FlattenSeq(seqs), e) = Occurrences(seqs[m], e)
    <3>1. \A n \in 1 .. N : (\A j \in 1 .. N : j # n => Occurrences(seqs[j], e) = 0)
             => Occurrences(FlattenSeq(seqs), e) = Occurrences(seqs[n], e)
      BY ONLY <1>0, <1>6, FlattenOnce
    <3> QED
      BY <2>1, <2>3, <3>1
  <2> QED
    BY <1>5, <2>1, <2>4 DEF e
<1> QED
  BY <1>2, <1>7, <1>8, <1>9, <1>10

-----------------------------------------------------------------------------
(* The readers' steps                                                      *)

\* Registering the ids of a request (post_tasks, first half) keeps the invariant.
LEMMA RegisterInv ==
    ASSUME Inv, NEW q \in Request, Register(q)
    PROVE  Inv'
<1>1. /\ TypeOK /\ Shapes /\ OneWeight /\ ChunksOfRunning /\ AnswerIsLast
      /\ ReadersCount /\ IdsAreWaiting /\ ResultsAreRead
      /\ GoneIsCancelled /\ ChildrenAreRescued
  BY DEF Inv
<1>2. /\ pc[q] = "idle" /\ pc' = [pc EXCEPT ![q] = "registered"]
      /\ waiting_task_ids' = waiting_task_ids \cup IdsOf(q)
      /\ UNCHANGED <<queue_tasks, queue_tasks_deferred, queue_results, slots, main, cur, ops,
                     received, delivered, overtaken>>
  BY DEF Register, AddWaitingTaskIds, queueVars, mainVars
<1>3. pc \in [Request -> ReaderPC] /\ pc'[q] = "registered" /\ \A r \in Request \ {q} : pc'[r] = pc[r]
  BY <1>1, <1>2 DEF TypeOK
<1>4. TypeOK'
  <2>1. waiting_task_ids' \subseteq ResultTask
    BY <1>1, <1>2, Ids, RequestAssumption DEF TypeOK, ResponseTypeOK
  <2>2. pc' \in [Request -> ReaderPC]
    BY <1>2, <1>3 DEF ReaderPC
  <2> QED
    BY <1>1, <1>2, <2>1, <2>2 DEF TypeOK, QueueTypeOK, ResponseTypeOK
<1>5. Counts /\ Counts'
  BY <1>1, <1>4, CountsType, CountsTypeNext
<1>6. /\ \A t : Hand(t)' = Hand(t) /\ ParentHand(t)' = ParentHand(t) /\ OnSlots(t)' = OnSlots(t)
      /\ \A t, k : AnswersOf(t, k)' = AnswersOf(t, k)
      /\ \A t : Weight(t)' = Weight(t)
      /\ \A t : CancelPending(t)' = CancelPending(t) /\ Finished(t)' = Finished(t) /\ Ended(t)' = Ended(t)
  BY <1>2 DEF Hand, ParentHand, OnSlots, AnswersOf, Weight, CancelPending, Finished, Ended
<1>7. Shapes' /\ ChunksOfRunning' /\ AnswerIsLast'
  BY <1>1, <1>2 DEF Shapes, ChunksOfRunning, AnswerIsLast, OnSlots, Ended, Finished
<1>8. OneWeight'
  <2>1. \A t \in Task : Hand(t)' <= Hand(t) /\ Weight(t)' <= Weight(t)
    BY <1>5, <1>6 DEF Counts
  <2> QED
    BY <1>1, <1>2, <1>3, <1>5, <2>1, OneWeightKept
<1>9. ReadersCount'
  BY <1>1, <1>2, <1>3 DEF ReadersCount, Finished, HasNext
<1>10. IdsAreWaiting'
  BY <1>1, <1>2, <1>3, OneOwner DEF IdsAreWaiting
<1>11. ResultsAreRead'
  BY <1>1, <1>2, <1>3 DEF ResultsAreRead, HasNext
<1>12. GoneIsCancelled'
  BY <1>1, <1>2, <1>3, <1>6 DEF GoneIsCancelled
<1>13. ChildrenAreRescued'
  <2>1. \A t, r : r \in Request => (Rescue(t, r) => Rescue(t, r)')
    BY <1>2, <1>3, <1>6 DEF Rescue, ErrorComing
  <2> QED
    BY <1>1, <1>2, <2>1 DEF ChildrenAreRescued
<1> QED
  BY <1>4, <1>7, <1>8, <1>9, <1>10, <1>11, <1>12, <1>13 DEF Inv

\* What the vector posted for a request holds.
LEMMA PostedEntries ==
    ASSUME NEW q \in Request
    PROVE  LET es == [i \in DOMAIN TasksOf[q] |-> TaskEntry(TasksOf[q][i])]
           IN  /\ es \in Seq(Entry)
               /\ CancelTargets(es) = {}
               /\ \A t : /\ Occurrences(es, TaskEntry(t)) \in Nat
                         /\ Occurrences(es, TaskEntry(t)) <= 1
                         /\ Occurrences(es, TaskEntry(t)) > 0
                               => t \in IdsOf(q) /\ t \in Task /\ ~IsChild(t)
                         /\ Occurrences(es, CancelEntry(t)) = 0
<1> DEFINE v == TasksOf[q]
           es == [i \in DOMAIN v |-> TaskEntry(v[i])]
<1>1. /\ v \in Seq(Task) /\ DOMAIN v = 1 .. Len(v) /\ Len(v) \in Nat
      /\ \A i \in 1 .. Len(v) : v[i] \in Task /\ v[i] \in IdsOf(q) /\ ~IsChild(v[i])
      /\ \A i, j \in 1 .. Len(v) : v[i] = v[j] => i = j
  <2>1. v \in Seq(Task) /\ IsInjective(v)
    BY RequestAssumption
  <2>2. \A i \in 1 .. Len(v) : v[i] \in ToSet(v)
    BY <2>1 DEF ToSet
  <2>3. \A i \in 1 .. Len(v) : v[i] \in IdsOf(q) /\ ~IsChild(v[i])
    BY <2>2, Ids
  <2> QED
    BY <2>1, <2>3 DEF IsInjective
<1> HIDE DEF v
<1>2. /\ es \in Seq(Entry) /\ Len(es) = Len(v)
      /\ \A i \in 1 .. Len(v) : es[i] = TaskEntry(v[i])
  <2>1. \A i \in 1 .. Len(v) : TaskEntry(v[i]) \in Entry
    BY <1>1, EntryTypes
  <2> QED
    BY <1>1, <2>1
<1> HIDE DEF es
<1>3. CancelTargets(es) = {}
  <2>0. \A t : TaskEntry(t).type = "task"
    BY DEF TaskEntry
  <2>1. \A i \in 1 .. Len(es) : es[i].type = "task"
    BY <1>2, <2>0
  <2>2. DOMAIN es = 1 .. Len(es)
    BY <1>2
  <2>3. \A x \in ToSet(es) : x.type # "cancel"
    BY <2>1, <2>2 DEF ToSet
  <2> QED
    BY <2>3 DEF CancelTargets
<1>4. ASSUME NEW t
      PROVE  /\ Occurrences(es, TaskEntry(t)) \in Nat
             /\ Occurrences(es, TaskEntry(t)) <= 1
             /\ Occurrences(es, TaskEntry(t)) > 0
                   => t \in IdsOf(q) /\ t \in Task /\ ~IsChild(t)
             /\ Occurrences(es, CancelEntry(t)) = 0
  <2>1. \A i \in 1 .. Len(es) : es[i] = TaskEntry(t) <=> v[i] = t
    BY <1>2, Distinct
  <2>2. \A i \in 1 .. Len(es) : es[i] # CancelEntry(t)
    BY <1>2, Distinct
  <2>3. Occurrences(es, CancelEntry(t)) = 0
    BY <1>2, <2>2, OccurrencesMeaning
  <2>4. \A i, j \in 1 .. Len(es) : es[i] = TaskEntry(t) /\ es[j] = TaskEntry(t) => i = j
    BY <1>1, <1>2, <2>1
  <2>5. Occurrences(es, TaskEntry(t)) \in Nat /\ Occurrences(es, TaskEntry(t)) <= 1
    BY <1>2, <2>4, OccurrencesType, OccurrencesMeaning
  <2>6. Occurrences(es, TaskEntry(t)) > 0 => \E i \in 1 .. Len(es) : es[i] = TaskEntry(t)
    BY <1>2, <2>5, OccurrencesMeaning
  <2> QED
    BY <1>1, <1>2, <2>1, <2>3, <2>5, <2>6
<1> QED
  BY <1>2, <1>3, <1>4 DEF es, v

\* Posting the tasks of a request gives each of them its one weight.
LEMMA PostTasksInv ==
    ASSUME Inv, NEW q \in Request, PostTasks(q)
    PROVE  Inv'
<1> DEFINE es == [i \in DOMAIN TasksOf[q] |-> TaskEntry(TasksOf[q][i])]
           front == \E t \in ToSet(TasksOf[q]) : Kind[t] = "query"
           new(t) == Occurrences(es, TaskEntry(t))
<1>1. /\ TypeOK /\ Shapes /\ OneWeight /\ ChunksOfRunning /\ AnswerIsLast
      /\ ReadersCount /\ IdsAreWaiting /\ ResultsAreRead
      /\ GoneIsCancelled /\ ChildrenAreRescued
  BY DEF Inv
<1>2. /\ pc[q] = "registered" /\ pc' = [pc EXCEPT ![q] = "waiting"]
      /\ Post(es, front)
      /\ UNCHANGED <<waiting_task_ids, queue_results, slots, main, cur, ops,
                     received, delivered, overtaken>>
  BY DEF PostTasks, responseVars, mainVars
<1>3. pc \in [Request -> ReaderPC] /\ pc'[q] = "waiting" /\ \A r \in Request \ {q} : pc'[r] = pc[r]
  BY <1>1, <1>2 DEF TypeOK
<1>4. /\ es \in Seq(Entry) /\ CancelTargets(es) = {}
      /\ \A t : /\ new(t) \in Nat /\ new(t) <= 1
                /\ new(t) > 0 => t \in IdsOf(q) /\ t \in Task /\ ~IsChild(t)
                /\ Occurrences(es, CancelEntry(t)) = 0
  BY PostedEntries
<1> HIDE DEF es
<1>5. /\ QueueTypeOK'
      /\ \A t : /\ Occurrences(queue_tasks', TaskEntry(t))
                      = new(t) + Occurrences(queue_tasks, TaskEntry(t))
                /\ Occurrences(queue_tasks_deferred', TaskEntry(t))
                      = Occurrences(queue_tasks_deferred, TaskEntry(t))
                /\ Occurrences(queue_tasks', CancelEntry(t))
                      = Occurrences(queue_tasks, CancelEntry(t))
  <2>1. front \in BOOLEAN /\ QueueTypeOK
    BY <1>1 DEF TypeOK
  <2> HIDE DEF front
  <2>2. /\ QueueTypeOK'
        /\ \A t : /\ Occurrences(queue_tasks', TaskEntry(t))
                        = new(t) + Occurrences(queue_tasks, TaskEntry(t))
                  /\ Occurrences(queue_tasks_deferred', TaskEntry(t))
                        = Occurrences(queue_tasks_deferred, TaskEntry(t))
                  /\ Occurrences(queue_tasks', CancelEntry(t))
                        = 0 + Occurrences(queue_tasks, CancelEntry(t))
    BY <1>2, <1>4, <2>1, PostCounts
  <2>3. \A t : Occurrences(queue_tasks, CancelEntry(t)) \in Nat
    BY <1>1, CountsType DEF Counts
  <2> QED
    BY <2>2, <2>3
<1> HIDE DEF front, new
<1>6. TypeOK'
  BY <1>1, <1>2, <1>3, <1>5 DEF TypeOK, ResponseTypeOK, ReaderPC
<1>7. Counts /\ Counts'
  BY <1>1, <1>6, CountsType, CountsTypeNext
<1>8. /\ \A t : OnSlots(t)' = OnSlots(t)
      /\ \A t, k : AnswersOf(t, k)' = AnswersOf(t, k)
      /\ \A t : CancelPending(t)' = CancelPending(t) /\ Finished(t)' = Finished(t) /\ Ended(t)' = Ended(t)
  BY <1>2, <1>5 DEF OnSlots, AnswersOf, CancelPending, Finished, Ended
<1>9. \A t \in Task : Hand(t)' = Hand(t) + new(t)
  <2>1. ASSUME NEW t \in Task PROVE Hand(t)' = Hand(t) + new(t)
    <3>1. /\ Occurrences(queue_tasks, TaskEntry(t)) \in Nat
          /\ Occurrences(queue_tasks_deferred, TaskEntry(t)) \in Nat
          /\ Occurrences(ops, DeferOp(t)) \in Nat
          /\ new(t) \in Nat
      BY <1>4, <1>7 DEF Counts
    <3> QED
      BY <1>2, <1>5, <3>1 DEF Hand
  <2> QED
    BY <2>1
<1>10. \A t \in Task \ IdsOf(q) : new(t) = 0
  BY <1>4
<1>11. ASSUME NEW t \in IdsOf(q)
       PROVE  /\ t \in Task /\ Hand(t) = 0 /\ ParentHand(t) = 0 /\ OnSlots(t) = 0
              /\ AnswersOf(t, "final") = 0 /\ AnswersOf(t, "error") = 0
  <2>1. t \in Task
    BY Ids
  <2>2. ~Posted(t)
    BY <1>2, OneOwner DEF Posted
  <2>3. /\ Hand(t) \in Nat /\ ParentHand(t) \in Nat /\ OnSlots(t) \in Nat
        /\ AnswersOf(t, "final") \in Nat /\ AnswersOf(t, "error") \in Nat
        /\ ~(Hand(t) > 0 \/ ParentHand(t) > 0 \/ OnSlots(t) > 0
                  \/ AnswersOf(t, "final") > 0 \/ AnswersOf(t, "error") > 0)
    BY <1>1, <1>7, <2>1, <2>2, OneThing
  <2> QED
    BY <2>1, <2>3
<1>12. Shapes'
  <2>1. \A t : Occurrences(queue_tasks', CancelEntry(t)) = Occurrences(queue_tasks, CancelEntry(t))
    BY <1>5
  <2>2. Occurrences(queue_tasks', TaskEntry(NoTask)) = Occurrences(queue_tasks, TaskEntry(NoTask))
    <3>1. new(NoTask) = 0
      BY <1>4, TaskAssumption
    <3>2. Occurrences(queue_tasks, TaskEntry(NoTask)) \in Nat
      BY <1>7 DEF Counts
    <3> QED
      BY <1>5, <3>1, <3>2
  <2> QED
    BY <1>1, <1>2, <2>1, <2>2 DEF Shapes
<1>13. ChunksOfRunning' /\ AnswerIsLast'
  BY <1>1, <1>2 DEF ChunksOfRunning, AnswerIsLast, OnSlots, Ended, Finished
<1>14. OneWeight'
  <2>1. ASSUME NEW t \in Task, t \in IdsOf(q)
        PROVE  /\ Weight(t)' <= 1 /\ Posted(t)' /\ (IsChild(t) => Hand(t)' = 0)
    <3>1. Posted(t)'
      BY <1>3, <2>1 DEF Posted
    <3>2. new(t) \in Nat /\ new(t) <= 1 /\ (IsChild(t) => new(t) = 0)
      BY <1>4
    <3>3. Hand(t)' = new(t)
      BY <1>9, <1>11, <2>1, <3>2
    <3>4. CASE IsChild(t)
      <4>1. ParentOf(t) \in IdsOf(q) /\ ParentOf(t) \in Task
        BY <2>1, <3>4, Ids, Children
      <4>2. new(ParentOf(t)) \in Nat /\ new(ParentOf(t)) <= 1
        BY <1>4
      <4>3. ParentHand(t)' = new(ParentOf(t))
        BY <1>9, <1>11, <3>4, <4>1, <4>2 DEF ParentHand
      <4>4. Weight(t)' = new(ParentOf(t))
        BY <1>8, <1>11, <2>1, <3>2, <3>3, <3>4, <4>2, <4>3 DEF Weight
      <4> QED
        BY <3>1, <3>2, <3>3, <4>2, <4>4
    <3>5. CASE ~IsChild(t)
      <4>1. ParentHand(t)' = 0
        BY <3>5 DEF ParentHand
      <4>2. Weight(t)' = new(t)
        BY <1>8, <1>11, <2>1, <3>2, <3>3, <4>1 DEF Weight
      <4> QED
        BY <3>1, <3>2, <3>5, <4>2
    <3> QED
      BY <3>4, <3>5
  <2>2. ASSUME NEW t \in Task, t \notin IdsOf(q)
        PROVE  Weight(t)' = Weight(t) /\ Hand(t)' = Hand(t) /\ (Posted(t) => Posted(t)')
    <3>1. new(t) = 0 /\ Hand(t) \in Nat
      BY <1>7, <1>10, <2>2 DEF Counts
    <3>2. Hand(t)' = Hand(t)
      BY <1>9, <3>1
    <3>3. ParentHand(t)' = ParentHand(t)
      <4>1. CASE IsChild(t)
        <5>1. ParentOf(t) \in Task /\ ParentOf(t) \notin IdsOf(q)
          BY <2>2, <4>1, Ids, Children
        <5>2. new(ParentOf(t)) = 0 /\ Hand(ParentOf(t)) \in Nat
          BY <1>7, <1>10, <5>1 DEF Counts
        <5>3. Hand(ParentOf(t))' = Hand(ParentOf(t))
          BY <1>9, <5>1, <5>2
        <5> QED
          BY <4>1, <5>3 DEF ParentHand
      <4>2. CASE ~IsChild(t)
        BY <4>2 DEF ParentHand
      <4> QED
        BY <4>1, <4>2
    <3>4. Posted(t) => Posted(t)'
      BY <1>3, <2>2 DEF Posted
    <3> QED
      BY <1>8, <3>2, <3>3, <3>4 DEF Weight
  <2> QED
    BY <1>1, <2>1, <2>2 DEF OneWeight
<1>15. ReadersCount'
  BY <1>1, <1>2, <1>3 DEF ReadersCount, Finished, HasNext
<1>16. IdsAreWaiting'
  BY <1>1, <1>2, <1>3 DEF IdsAreWaiting
<1>17. ResultsAreRead'
  BY <1>1, <1>2, <1>3 DEF ResultsAreRead, HasNext
<1>18. GoneIsCancelled'
  <2>1. ASSUME NEW r \in Request \ {q}, NEW t \in IdsOf(r) PROVE Hand(t)' = Hand(t)
    <3>1. t \in Task /\ t \notin IdsOf(q)
      BY Ids, OneOwner
    <3>2. new(t) = 0 /\ Hand(t) \in Nat
      BY <1>7, <1>10, <3>1 DEF Counts
    <3> QED
      BY <1>9, <3>1, <3>2
  <2> QED
    BY <1>1, <1>2, <1>3, <1>8, <2>1 DEF GoneIsCancelled
<1>19. ChildrenAreRescued'
  <2>1. \A t, r : r \in Request => (Rescue(t, r) => Rescue(t, r)')
    BY <1>2, <1>3, <1>8 DEF Rescue, ErrorComing
  <2> QED
    BY <1>1, <1>2, <2>1 DEF ChildrenAreRescued
<1> QED
  BY <1>6, <1>12, <1>13, <1>14, <1>15, <1>16, <1>17, <1>18, <1>19 DEF Inv

\* A reader that gives up keeps the invariant.
LEMMA NextTimeoutInv ==
    ASSUME Inv, NEW q \in Request, Next_Timeout(q)
    PROVE  Inv'
<1>1. /\ TypeOK /\ Shapes /\ OneWeight /\ ChunksOfRunning /\ AnswerIsLast
      /\ ReadersCount /\ IdsAreWaiting /\ ResultsAreRead
      /\ GoneIsCancelled /\ ChildrenAreRescued
  BY DEF Inv
<1>2. /\ pc[q] = "waiting" /\ pc' = [pc EXCEPT ![q] = "stopping"]
      /\ UNCHANGED <<queue_tasks, queue_tasks_deferred, waiting_task_ids, queue_results,
                     slots, main, cur, ops, received, delivered, overtaken>>
  BY DEF Next_Timeout, queueVars, responseVars, mainVars
<1>3. pc \in [Request -> ReaderPC] /\ pc'[q] = "stopping" /\ \A r \in Request \ {q} : pc'[r] = pc[r]
  BY <1>1, <1>2 DEF TypeOK
<1>4. TypeOK'
  <2>1. pc' \in [Request -> ReaderPC]
    BY <1>2, <1>3 DEF ReaderPC
  <2> QED
    BY <1>1, <1>2, <2>1 DEF TypeOK, QueueTypeOK, ResponseTypeOK
<1>5. Counts /\ Counts'
  BY <1>1, <1>4, CountsType, CountsTypeNext
<1>6. /\ \A t : Hand(t)' = Hand(t) /\ ParentHand(t)' = ParentHand(t) /\ OnSlots(t)' = OnSlots(t)
      /\ \A t, k : AnswersOf(t, k)' = AnswersOf(t, k)
      /\ \A t : Weight(t)' = Weight(t)
      /\ \A t : CancelPending(t)' = CancelPending(t) /\ Finished(t)' = Finished(t) /\ Ended(t)' = Ended(t)
  BY <1>2 DEF Hand, ParentHand, OnSlots, AnswersOf, Weight, CancelPending, Finished, Ended
<1>7. Shapes' /\ ChunksOfRunning' /\ AnswerIsLast'
  BY <1>1, <1>2 DEF Shapes, ChunksOfRunning, AnswerIsLast, OnSlots, Ended, Finished
<1>8. OneWeight'
  <2>1. \A t \in Task : Hand(t)' <= Hand(t) /\ Weight(t)' <= Weight(t)
    BY <1>5, <1>6 DEF Counts
  <2> QED
    BY <1>1, <1>2, <1>3, <1>5, <2>1, OneWeightKept
<1>9. ReadersCount'
  BY <1>1, <1>2, <1>3 DEF ReadersCount, Finished, HasNext
<1>10. IdsAreWaiting'
  BY <1>1, <1>2, <1>3 DEF IdsAreWaiting
<1>11. ResultsAreRead'
  <2>1. IdsOf(q) # {} => HasNext(q)
    BY <1>1, <1>2 DEF ReadersCount
  <2> QED
    BY <1>1, <1>2, <1>3, <2>1 DEF ResultsAreRead, HasNext
<1>12. GoneIsCancelled'
  BY <1>1, <1>2, <1>3, <1>6 DEF GoneIsCancelled
<1>13. ChildrenAreRescued'
  <2>1. \A t, r : r \in Request => (Rescue(t, r) => Rescue(t, r)')
    BY <1>2, <1>3, <1>6 DEF Rescue, ErrorComing
  <2> QED
    BY <1>1, <1>2, <2>1 DEF ChildrenAreRescued
<1> QED
  BY <1>4, <1>7, <1>8, <1>9, <1>10, <1>11, <1>12, <1>13 DEF Inv

\* The tasks of a reader that has counted all its answers are finished.
LEMMA AllFinished ==
    ASSUME TypeOK, ReadersCount, NEW r \in Request, ~HasNext(r)
    PROVE  \A t \in IdsOf(r) : Finished(t)
<1> DEFINE F == {t \in IdsOf(r) : Finished(t)}
<1>1. F \in SUBSET IdsOf(r) /\ IsFiniteSet(IdsOf(r)) /\ Cardinality(IdsOf(r)) \in Nat
  BY Ids
<1>2. received[r] = Cardinality(F) /\ received[r] \in Nat
  BY DEF ReadersCount, TypeOK
<1>3. ~(Cardinality(F) < Cardinality(IdsOf(r)))
  BY <1>2 DEF HasNext
<1>4. F = IdsOf(r)
  <2> HIDE DEF F
  <2>1. Cardinality(F) <= Cardinality(IdsOf(r)) /\ Cardinality(F) \in Nat
    BY <1>1, <1>2, FS_Subset
  <2>2. Cardinality(F) = Cardinality(IdsOf(r))
    BY <1>1, <1>3, <2>1
  <2> QED
    BY <1>1, <2>2, FS_Subset
<1> QED
  BY <1>4

\* The same after a step.
LEMMA AllFinishedNext ==
    ASSUME TypeOK', ReadersCount', NEW r \in Request, ~HasNext(r)'
    PROVE  \A t \in IdsOf(r) : Finished(t)'
<1> DEFINE F == {t \in IdsOf(r) : Finished(t)'}
<1>1. F \in SUBSET IdsOf(r) /\ IsFiniteSet(IdsOf(r)) /\ Cardinality(IdsOf(r)) \in Nat
  BY Ids
<1>2. received'[r] = Cardinality(F) /\ received'[r] \in Nat
  BY DEF ReadersCount, TypeOK
<1>3. ~(Cardinality(F) < Cardinality(IdsOf(r)))
  BY <1>2 DEF HasNext
<1>4. F = IdsOf(r)
  <2> HIDE DEF F
  <2>1. Cardinality(F) <= Cardinality(IdsOf(r)) /\ Cardinality(F) \in Nat
    BY <1>1, <1>2, FS_Subset
  <2>2. Cardinality(F) = Cardinality(IdsOf(r))
    BY <1>1, <1>3, <2>1
  <2> QED
    BY <1>1, <2>2, FS_Subset
<1> QED
  BY <1>4

\* next() receiving a result moves the weight of an answer from the queue to the client.
LEMMA NextReceiveInv ==
    ASSUME Inv, NEW q \in Request, Next_Receive(q)
    PROVE  Inv'
<1> DEFINE i == FirstResultOf(IdsOf(q))
           res == queue_results[i]
           u == res.id
           k == res.kind
           n == received[q] + (IF k = "final" THEN 1 ELSE 0)
<1>1. /\ TypeOK /\ Shapes /\ OneWeight /\ ChunksOfRunning /\ AnswerIsLast
      /\ ReadersCount /\ IdsAreWaiting /\ ResultsAreRead
      /\ GoneIsCancelled /\ ChildrenAreRescued
  BY DEF Inv
<1>2. /\ pc[q] = "waiting" /\ i # 0
      /\ queue_results' = RemoveAt(queue_results, i)
      /\ received' = [received EXCEPT ![q] = n]
      /\ delivered' = [delivered EXCEPT ![u] = Append(@, k)]
      /\ pc' = [pc EXCEPT ![q] = IF k = "error" \/ n = Cardinality(IdsOf(q))
                                 THEN "stopping" ELSE "waiting"]
      /\ UNCHANGED <<queue_tasks, queue_tasks_deferred, waiting_task_ids,
                     slots, main, cur, ops, overtaken>>
  BY DEF Next_Receive, TakeResult, queueVars, mainVars
<1>3. /\ i \in 1 .. Len(queue_results) /\ u \in IdsOf(q)
      /\ \A j \in 1 .. Len(queue_results) : j < i => queue_results[j].id \notin IdsOf(q)
  BY <1>1, <1>2, FirstResultMeaning DEF TypeOK
<1>4. /\ queue_results \in Seq(Result) /\ Len(queue_results) \in Nat
      /\ res \in Result /\ u \in Task /\ k \in ResultKind /\ res = Res(u, k)
  <2>1. queue_results \in Seq(Result) /\ Len(queue_results) \in Nat
    BY <1>1 DEF TypeOK, ResponseTypeOK
  <2>2. res \in Result
    BY <1>3, <2>1
  <2> QED
    BY <2>1, <2>2, ResultForms
<1>5. /\ queue_results' \in Seq(Result)
      /\ Len(queue_results') = Len(queue_results) - 1
      /\ \A j \in 1 .. (Len(queue_results) - 1) :
            queue_results'[j] = IF j < i THEN queue_results[j] ELSE queue_results[j + 1]
  BY <1>2, <1>3, <1>4, RemoveAtProperties
<1>6. \A e : Occurrences(queue_results, e)
                = Occurrences(queue_results', e) + (IF res = e THEN 1 ELSE 0)
  BY <1>2, <1>3, <1>4, OccurrencesRemoveAt
<1> HIDE DEF i
<1> HIDE DEF res
<1> HIDE DEF u, k
<1>7. received \in [Request -> Nat] /\ delivered \in [Task -> Seq(ResultKind)]
      /\ pc \in [Request -> ReaderPC]
  BY <1>1 DEF TypeOK
<1>8. /\ received'[q] = n /\ n \in Nat /\ received' \in [Request -> Nat]
      /\ \A r \in Request \ {q} : received'[r] = received[r]
  BY <1>2, <1>7
<1>9. /\ delivered' \in [Task -> Seq(ResultKind)]
      /\ delivered'[u] = Append(delivered[u], k)
      /\ \A t \in Task \ {u} : delivered'[t] = delivered[t]
  BY <1>2, <1>4, <1>7
<1>10. /\ pc'[q] = IF k = "error" \/ n = Cardinality(IdsOf(q)) THEN "stopping" ELSE "waiting"
       /\ \A r \in Request \ {q} : pc'[r] = pc[r]
       /\ pc' \in [Request -> ReaderPC]
  BY <1>2, <1>7 DEF ReaderPC
<1> HIDE DEF n
<1>11. TypeOK'
  BY <1>1, <1>2, <1>5, <1>8, <1>9, <1>10 DEF TypeOK, QueueTypeOK, ResponseTypeOK
<1>12. Counts /\ Counts'
  BY <1>1, <1>11, CountsType, CountsTypeNext
<1>13. ASSUME NEW t \in Task, NEW j
       PROVE  Occurrences(delivered'[t], j)
                 = Occurrences(delivered[t], j) + (IF t = u /\ j = k THEN 1 ELSE 0)
  <2>1. Occurrences(delivered[t], j) \in Nat
    BY <1>12 DEF Counts
  <2>2. CASE t = u
    <3>1. delivered[u] \in Seq(ResultKind)
      BY <1>4, <1>7
    <3>2. Occurrences(Append(delivered[u], k), j)
             = Occurrences(delivered[u], j) + (IF k = j THEN 1 ELSE 0)
      BY <1>4, <3>1, OccurrencesAppend
    <3> QED
      BY <1>9, <2>2, <3>2
  <2>3. CASE t # u
    BY <1>9, <2>1, <2>3
  <2> QED
    BY <2>2, <2>3
<1>14. \A t : Hand(t)' = Hand(t) /\ ParentHand(t)' = ParentHand(t) /\ OnSlots(t)' = OnSlots(t)
              /\ CancelPending(t)' = CancelPending(t)
  BY <1>2 DEF Hand, ParentHand, OnSlots, CancelPending
<1>15. ASSUME NEW t \in Task, NEW j PROVE AnswersOf(t, j)' = AnswersOf(t, j)
  <2>1. /\ Occurrences(queue_results, Res(t, j)) \in Nat
        /\ Occurrences(queue_results', Res(t, j)) \in Nat
        /\ Occurrences(ops, SendOp(t, j)) \in Nat
        /\ Occurrences(delivered[t], j) \in Nat /\ Occurrences(delivered'[t], j) \in Nat
    BY <1>12 DEF Counts
  <2>2. (res = Res(t, j)) <=> (t = u /\ j = k)
    BY <1>4, Distinct
  <2>3. Occurrences(queue_results, Res(t, j))
           = Occurrences(queue_results', Res(t, j)) + (IF t = u /\ j = k THEN 1 ELSE 0)
    BY <1>6, <2>2
  <2>4. Occurrences(delivered'[t], j)
           = Occurrences(delivered[t], j) + (IF t = u /\ j = k THEN 1 ELSE 0)
    BY <1>13
  <2>5. Occurrences(queue_results', Res(t, j)) + Occurrences(delivered'[t], j)
           = Occurrences(queue_results, Res(t, j)) + Occurrences(delivered[t], j)
    <3>1. CASE t = u /\ j = k
      BY <2>1, <2>3, <2>4, <3>1
    <3>2. CASE ~(t = u /\ j = k)
      BY <2>1, <2>3, <2>4, <3>2
    <3> QED
      BY <3>1, <3>2
  <2>6. /\ AnswersOf(t, j) = Occurrences(ops, SendOp(t, j))
              + (Occurrences(queue_results, Res(t, j)) + Occurrences(delivered[t], j))
        /\ AnswersOf(t, j)' = Occurrences(ops', SendOp(t, j))
              + (Occurrences(queue_results', Res(t, j)) + Occurrences(delivered'[t], j))
    <3>1. Occurrences(ops', SendOp(t, j)) \in Nat
      BY <1>12 DEF Counts
    <3> QED
      BY <2>1, <3>1 DEF AnswersOf
  <2>7. ops' = ops
    BY <1>2
  <2> QED
    BY <2>5, <2>6, <2>7
<1>16. Shapes' /\ ChunksOfRunning'
  BY <1>1, <1>2, <1>14 DEF Shapes, ChunksOfRunning
<1>17. OneWeight'
  <2>1. \A t \in Task : Weight(t)' = Weight(t)
    BY <1>14, <1>15 DEF Weight
  <2>2. \A t \in Task : Hand(t)' <= Hand(t) /\ Weight(t)' <= Weight(t)
    BY <1>12, <1>14, <2>1 DEF Counts
  <2>3. \A r \in Request : pc[r] \notin {"idle", "registered"}
                              => pc'[r] \notin {"idle", "registered"}
    BY <1>10
  <2> QED
    BY <1>1, <1>12, <2>2, <2>3, OneWeightKept
<1>18. ASSUME NEW t \in Task
       PROVE  /\ Finished(t)' <=> Finished(t) \/ (t = u /\ k = "final")
              /\ Ended(t)' <=> Ended(t) \/ (t = u /\ k # "partial")
  <2>1. /\ Occurrences(delivered[t], "final") \in Nat /\ Occurrences(delivered'[t], "final") \in Nat
        /\ Occurrences(delivered[t], "error") \in Nat /\ Occurrences(delivered'[t], "error") \in Nat
    BY <1>12 DEF Counts
  <2>2. /\ Occurrences(delivered'[t], "final")
              = Occurrences(delivered[t], "final") + (IF t = u /\ k = "final" THEN 1 ELSE 0)
        /\ Occurrences(delivered'[t], "error")
              = Occurrences(delivered[t], "error") + (IF t = u /\ k = "error" THEN 1 ELSE 0)
    BY <1>13
  <2>3. k \in {"partial", "final", "error"}
    BY <1>4 DEF ResultKind
  <2> QED
    BY <2>1, <2>2, <2>3 DEF Finished, Ended
<1>19. \A j \in 1 .. Len(queue_results') :
          LET p == IF j < i THEN j ELSE j + 1
          IN  p \in 1 .. Len(queue_results) /\ p # i /\ queue_results'[j] = queue_results[p]
  BY <1>3, <1>4, <1>5
<1>20. AnswerIsLast'
  <2>1. ASSUME NEW a \in 1 .. Len(queue_results'), NEW b \in 1 .. Len(queue_results'), a < b,
               queue_results'[a].id = queue_results'[b].id
        PROVE  queue_results'[a].kind = "partial"
    <3>1. PICK c \in 1 .. Len(queue_results) : c = (IF a < i THEN a ELSE a + 1) /\ queue_results'[a] = queue_results[c]
      BY <1>19
    <3>2. PICK d \in 1 .. Len(queue_results) : d = (IF b < i THEN b ELSE b + 1) /\ queue_results'[b] = queue_results[d]
      BY <1>19
    <3>3. c < d
      BY <1>3, <1>4, <2>1, <3>1, <3>2
    <3> QED
      BY <1>1, <2>1, <3>1, <3>2, <3>3 DEF AnswerIsLast
  <2>2. ASSUME NEW a \in 1 .. Len(queue_results')
        PROVE  \A x : x = queue_results'[a].id => ~Ended(x)'
    <3> SUFFICES ASSUME NEW x, x = queue_results'[a].id PROVE ~Ended(x)'
      OBVIOUS
    <3>1. PICK c \in 1 .. Len(queue_results) : c # i /\ queue_results'[a] = queue_results[c]
      BY <1>19
    <3>2. x \in Task /\ queue_results[c].id = x
      BY <1>4, <3>1, ResultForms
    <3>3. ~Ended(x)
      BY <1>1, <3>2 DEF AnswerIsLast
    <3>4. ASSUME x = u, k # "partial" PROVE FALSE
      <4>1. ~(c < i)
        BY <1>3, <3>2, <3>4
      <4>2. i < c
        BY <1>3, <1>4, <3>1, <4>1
      <4>3. queue_results[i].id = queue_results[c].id /\ queue_results[i].kind = k
        BY <3>2, <3>4 DEF u, k, res
      <4> QED
        BY <1>1, <1>3, <3>4, <4>2, <4>3 DEF AnswerIsLast
    <3> QED
      BY <1>18, <3>2, <3>3, <3>4
  <2>3. \A a \in 1 .. Len(queue_results') : ~(Ended(queue_results[a].id)')
    BY <2>2 DEF Ended, Finished
  <2> QED
    BY <2>1, <2>3 DEF AnswerIsLast
<1>21. received[q] < Cardinality(IdsOf(q)) /\ Cardinality(IdsOf(q)) \in Nat /\ received[q] \in Nat
  <2>1. HasNext(q)
    BY <1>1, <1>2, <1>3 DEF ReadersCount
  <2> QED
    BY <1>7, <2>1, Ids DEF HasNext
<1>22. ReadersCount'
  <2> DEFINE F(r) == {t \in IdsOf(r) : Finished(t)}
             G(r) == {t \in IdsOf(r) : Finished(t)'}
  <2>1. ASSUME NEW r \in Request \ {q} PROVE G(r) = F(r)
    <3>1. \A t \in IdsOf(r) : t \in Task /\ t # u
      BY <1>3, Ids, OneOwner
    <3> QED
      BY <1>18, <3>1
  <2>2. ASSUME k = "final" PROVE G(q) = F(q) \cup {u} /\ u \notin F(q)
    <3>1. \A t \in IdsOf(q) : t \in Task
      BY Ids
    <3>2. ~Ended(u)
      <4>1. u = queue_results[i].id
        BY DEF u, res
      <4> QED
        BY <1>1, <1>3, <4>1 DEF AnswerIsLast
    <3> QED
      BY <1>3, <1>18, <2>2, <3>1, <3>2 DEF Ended
  <2>3. ASSUME k # "final" PROVE G(q) = F(q)
    <3>1. \A t \in IdsOf(q) : t \in Task
      BY Ids
    <3> QED
      BY <1>18, <2>3, <3>1
  <2>4. \A r \in Request : IsFiniteSet(F(r))
    <3>1. \A r \in Request : F(r) \in SUBSET IdsOf(r) /\ IsFiniteSet(IdsOf(r))
      BY Ids
    <3> HIDE DEF F
    <3> QED
      BY <3>1, FS_Subset
  <2>5. \A r \in Request : received[r] = Cardinality(F(r))
    BY <1>1 DEF ReadersCount
  <2> HIDE DEF F
  <2>6. \A r \in Request : received'[r] = Cardinality(G(r))
    <3>1. CASE k = "final"
      <4>1. Cardinality(G(q)) = Cardinality(F(q)) + 1
        BY <2>2, <2>4, <3>1, FS_AddElement
      <4>2. received'[q] = received[q] + 1
        BY <1>8, <3>1 DEF n
      <4> QED
        BY <1>8, <2>1, <2>5, <4>1, <4>2
    <3>2. CASE k # "final"
      <4>1. received'[q] = received[q]
        BY <1>8, <1>21, <3>2 DEF n
      <4> QED
        BY <1>8, <2>1, <2>3, <2>5, <3>2, <4>1
    <3> QED
      BY <3>1, <3>2
  <2>7. ASSUME NEW r \in Request, pc'[r] \in {"idle", "registered", "waiting"}
        PROVE  /\ \A t \in IdsOf(r) : Occurrences(delivered'[t], "error") = 0
               /\ IdsOf(r) # {} => HasNext(r)'
    <3>1. CASE r = q
      <4>1. k # "error" /\ n # Cardinality(IdsOf(q))
        BY <1>10, <2>7, <3>1
      <4>2. HasNext(q)'
        <5>1. n < Cardinality(IdsOf(q))
          BY <1>21, <4>1 DEF n
        <5> QED
          BY <1>8, <5>1 DEF HasNext
      <4>3. ASSUME NEW t \in IdsOf(q) PROVE Occurrences(delivered'[t], "error") = 0
        <5>1. Occurrences(delivered[t], "error") = 0 /\ t \in Task
          BY <1>1, <1>2, Ids DEF ReadersCount
        <5> QED
          BY <1>13, <4>1, <5>1
      <4> QED
        BY <3>1, <4>2, <4>3
    <3>2. CASE r # q
      <4>1. \A t \in IdsOf(r) : t \in Task /\ t # u
        BY <1>3, <3>2, Ids, OneOwner
      <4>2. pc'[r] = pc[r] /\ received'[r] = received[r]
        BY <1>8, <1>10, <3>2
      <4>3. /\ \A t \in IdsOf(r) : Occurrences(delivered[t], "error") = 0
            /\ IdsOf(r) # {} => HasNext(r)
        BY <1>1, <2>7, <4>2 DEF ReadersCount
      <4> QED
        BY <1>9, <4>1, <4>2, <4>3 DEF HasNext
    <3> QED
      BY <3>1, <3>2
  <2> QED
    BY <2>6, <2>7 DEF ReadersCount
<1>23. IdsAreWaiting'
  BY <1>1, <1>2, <1>10 DEF IdsAreWaiting
<1>24. ResultsAreRead'
  <2> SUFFICES ASSUME NEW j \in 1 .. Len(queue_results')
               PROVE  \E r \in Request :
                         /\ queue_results'[j].id \in IdsOf(r)
                         /\ pc'[r] = "waiting" \/ (pc'[r] = "stopping" /\ HasNext(r)')
    BY DEF ResultsAreRead
  <2>1. PICK c \in 1 .. Len(queue_results) : queue_results'[j] = queue_results[c]
    BY <1>19
  <2>2. PICK r \in Request :
           /\ queue_results[c].id \in IdsOf(r)
           /\ pc[r] = "waiting" \/ (pc[r] = "stopping" /\ HasNext(r))
    BY <1>1 DEF ResultsAreRead
  <2>3. CASE r # q
    BY <1>8, <1>10, <2>1, <2>2, <2>3 DEF HasNext
  <2>4. CASE r = q
    <3>1. PICK x : x = queue_results'[j].id
      OBVIOUS
    <3>2. x \in IdsOf(q)
      BY <2>1, <2>2, <2>4, <3>1
    <3>3. ~Finished(x)'
      BY <1>20, <3>1 DEF AnswerIsLast, Ended, Finished
    <3>4. HasNext(q)'
      BY <1>11, <1>22, <3>2, <3>3, AllFinishedNext
    <3> QED
      BY <1>10, <2>1, <2>2, <2>4, <3>4
  <2> QED
    BY <2>3, <2>4
<1>25. GoneIsCancelled'
  <2>1. \A r \in Request : pc'[r] = "done" <=> pc[r] = "done"
    BY <1>2, <1>10
  <2> QED
    BY <1>1, <1>2, <1>14, <2>1 DEF GoneIsCancelled
<1>26. ChildrenAreRescued'
  <2>1. ASSUME NEW t, NEW r \in Request, Rescue(t, r) PROVE Rescue(t, r)'
    <3>1. CASE r = q
      <4>1. CASE k = "error"
        BY <1>10, <3>1, <4>1 DEF Rescue
      <4>2. CASE k # "error"
        <5>1. \A x : Occurrences(queue_results', Res(x, "error"))
                        = Occurrences(queue_results, Res(x, "error"))
          <6>1. \A x : res # Res(x, "error")
            BY <1>4, <4>2, Distinct
          <6>2. \A x : Occurrences(queue_results', Res(x, "error")) \in Nat
            BY <1>12 DEF Counts
          <6> QED
            BY <1>6, <6>1, <6>2
        <5>2. ErrorComing(r)' <=> ErrorComing(r)
          BY <1>2, <5>1 DEF ErrorComing
        <5> QED
          BY <1>2, <1>10, <1>14, <2>1, <3>1, <5>2 DEF Rescue
      <4> QED
        BY <4>1, <4>2
    <3>2. CASE r # q
      <4>1. \A x \in IdsOf(r) : Occurrences(queue_results', Res(x, "error"))
                        = Occurrences(queue_results, Res(x, "error"))
        <5>1. \A x \in IdsOf(r) : res # Res(x, "error")
          BY <1>3, <1>4, <3>2, Distinct, OneOwner
        <5>2. \A x : Occurrences(queue_results', Res(x, "error")) \in Nat
          BY <1>12 DEF Counts
        <5> QED
          BY <1>6, <5>1, <5>2
      <4>2. ErrorComing(r)' <=> ErrorComing(r)
        BY <1>2, <4>1 DEF ErrorComing
      <4> QED
        BY <1>2, <1>10, <1>14, <2>1, <3>2, <4>2 DEF Rescue
    <3> QED
      BY <3>1, <3>2
  <2> QED
    BY <1>1, <1>2, <2>1 DEF ChildrenAreRescued
<1> QED
  BY <1>11, <1>16, <1>17, <1>20, <1>22, <1>23, <1>24, <1>25, <1>26 DEF Inv

\* stop() dropping the ids, and the results if some are missing, keeps the invariant.
LEMMA StopResultsInv ==
    ASSUME Inv, NEW q \in Request, Stop_Results(q)
    PROVE  Inv'
<1> DEFINE pos == {i \in DOMAIN queue_results : queue_results[i].id \notin IdsOf(q)}
<1>1. /\ TypeOK /\ Shapes /\ OneWeight /\ ChunksOfRunning /\ AnswerIsLast
      /\ ReadersCount /\ IdsAreWaiting /\ ResultsAreRead
      /\ GoneIsCancelled /\ ChildrenAreRescued
  BY DEF Inv
<1>2. /\ pc[q] = "stopping"
      /\ pc' = [pc EXCEPT ![q] = IF HasNext(q) THEN "cancelling" ELSE "done"]
      /\ waiting_task_ids' = waiting_task_ids \ IdsOf(q)
      /\ HasNext(q) => queue_results' = Kept(queue_results, pos)
      /\ ~HasNext(q) => queue_results' = queue_results
      /\ UNCHANGED <<queue_tasks, queue_tasks_deferred, slots, main, cur, ops,
                     received, delivered, overtaken>>
  BY DEF Stop_Results, RemoveWaitingAndResults, RemoveWaitingTaskIds, queueVars, mainVars
<1>3. /\ queue_results \in Seq(Result) /\ Len(queue_results) \in Nat
      /\ DOMAIN queue_results = 1 .. Len(queue_results)
      /\ pos \in SUBSET (1 .. Len(queue_results))
      /\ pc \in [Request -> ReaderPC]
  BY <1>1 DEF TypeOK, ResponseTypeOK
<1>4. /\ pc'[q] = IF HasNext(q) THEN "cancelling" ELSE "done"
      /\ \A r \in Request \ {q} : pc'[r] = pc[r]
      /\ pc' \in [Request -> ReaderPC]
  BY <1>2, <1>3 DEF ReaderPC
\* The reader leaves with all its answers: its tasks are finished, nothing is queued.
<1>5. ASSUME ~HasNext(q), NEW t \in IdsOf(q)
      PROVE  /\ t \in Task /\ Finished(t) /\ Hand(t) = 0 /\ OnSlots(t) = 0
             /\ \A i \in 1 .. Len(queue_results) : queue_results[i].id # t
  <2>1. t \in Task /\ Finished(t)
    BY <1>1, <1>5, Ids, AllFinished
  <2>2. Counts
    BY <1>1, CountsType
  <2>3. /\ Hand(t) + ParentHand(t) + OnSlots(t) + AnswersOf(t, "final")
                 + AnswersOf(t, "error") <= 1
        /\ Hand(t) \in Nat /\ ParentHand(t) \in Nat /\ OnSlots(t) \in Nat
        /\ AnswersOf(t, "final") \in Nat /\ AnswersOf(t, "error") \in Nat
        /\ Occurrences(delivered[t], "final") \in Nat
        /\ Occurrences(delivered[t], "final") <= AnswersOf(t, "final")
    BY <1>1, <2>1, <2>2, OneThing
  <2>4. Hand(t) = 0 /\ OnSlots(t) = 0
    BY <2>1, <2>3 DEF Finished
  <2>5. \A i \in 1 .. Len(queue_results) : queue_results[i].id # t
    BY <1>1, <2>1 DEF AnswerIsLast, Ended
  <2> QED
    BY <2>1, <2>4, <2>5
<1>6. /\ queue_results' \in Seq(Result) /\ Len(queue_results') \in Nat
      /\ \E b : Selects(queue_results', queue_results,
                        IF HasNext(q) THEN pos ELSE 1 .. Len(queue_results), b)
  <2>1. CASE HasNext(q)
    <3> HIDE DEF pos
    <3>1. Kept(queue_results, pos) \in Seq(Result)
          /\ \E b : Selects(Kept(queue_results, pos), queue_results, pos, b)
      BY <1>3, KeptSelects
    <3> QED
      BY <1>2, <2>1, <3>1
  <2>2. CASE ~HasNext(q)
    <3>1. queue_results' = queue_results
      BY <1>2, <2>2
    <3>2. Selects(queue_results, queue_results, 1 .. Len(queue_results),
                  [i \in 1 .. Len(queue_results) |-> i])
      BY <1>3 DEF Selects
    <3> QED
      BY <1>3, <2>2, <3>1, <3>2
  <2> QED
    BY <2>1, <2>2
<1>7. /\ \A e : /\ Occurrences(queue_results', e) \in Nat
                /\ Occurrences(queue_results', e) <= Occurrences(queue_results, e)
      /\ \A t, k : t \notin IdsOf(q)
            => Occurrences(queue_results', Res(t, k)) = Occurrences(queue_results, Res(t, k))
  <2>1. CASE HasNext(q)
    <3>1. \A t, k : t \notin IdsOf(q) =>
             \A i \in 1 .. Len(queue_results) : queue_results[i] = Res(t, k) => i \in pos
      BY <1>3 DEF Res
    <3>2. queue_results' = Kept(queue_results, pos)
      BY <1>2, <2>1
    <3> HIDE DEF pos
    <3>3. ASSUME NEW e
          PROVE  /\ Occurrences(queue_results', e) \in Nat
                 /\ Occurrences(queue_results', e) <= Occurrences(queue_results, e)
                 /\ (\A i \in 1 .. Len(queue_results) : queue_results[i] = e => i \in pos)
                       => Occurrences(queue_results', e) = Occurrences(queue_results, e)
      BY <1>3, <3>2, KeptErases
    <3> QED
      BY <3>1, <3>3
  <2>2. CASE ~HasNext(q)
    <3>1. \A e : Occurrences(queue_results, e) \in Nat
      BY <1>1, CountsType DEF Counts
    <3> QED
      BY <1>2, <2>2, <3>1
  <2> QED
    BY <2>1, <2>2
<1>8. \A j \in 1 .. Len(queue_results') :
         \E c \in 1 .. Len(queue_results) :
            /\ queue_results'[j] = queue_results[c]
            /\ queue_results[c].id \notin IdsOf(q)
  <2>1. PICK b : Selects(queue_results', queue_results,
                         IF HasNext(q) THEN pos ELSE 1 .. Len(queue_results), b)
    BY <1>6
  <2>2. ASSUME NEW j \in 1 .. Len(queue_results')
        PROVE  /\ b[j] \in 1 .. Len(queue_results)
               /\ queue_results'[j] = queue_results[b[j]]
               /\ HasNext(q) => b[j] \in pos
    BY <1>3, <2>1 DEF Selects
  <2> QED
    BY <1>5, <2>2
<1>9. AnswerIsLast'
  <2>1. PICK b : Selects(queue_results', queue_results,
                         IF HasNext(q) THEN pos ELSE 1 .. Len(queue_results), b)
    BY <1>6
  <2>2. ASSUME NEW j \in 1 .. Len(queue_results')
        PROVE  b[j] \in 1 .. Len(queue_results) /\ queue_results'[j] = queue_results[b[j]]
    BY <1>3, <2>1 DEF Selects
  <2>3. \A i, j \in 1 .. Len(queue_results') : i < j => b[i] < b[j]
    BY <2>1 DEF Selects
  <2>4. \A i, j \in 1 .. Len(queue_results') :
           i < j /\ queue_results'[i].id = queue_results'[j].id => queue_results'[i].kind = "partial"
    <3>1. \A i, j \in 1 .. Len(queue_results) :
             i < j /\ queue_results[i].id = queue_results[j].id => queue_results[i].kind = "partial"
      BY <1>1 DEF AnswerIsLast
    <3> SUFFICES ASSUME NEW i \in 1 .. Len(queue_results'), NEW j \in 1 .. Len(queue_results'),
                        i < j, queue_results'[i].id = queue_results'[j].id
                 PROVE  queue_results'[i].kind = "partial"
      OBVIOUS
    <3>2. /\ b[i] \in 1 .. Len(queue_results) /\ queue_results'[i] = queue_results[b[i]]
          /\ b[j] \in 1 .. Len(queue_results) /\ queue_results'[j] = queue_results[b[j]]
          /\ b[i] < b[j]
      BY <2>2, <2>3
    <3> QED
      BY <3>1, <3>2
  <2>5. \A i \in 1 .. Len(queue_results') : ~(Ended(queue_results[i].id)')
    BY <1>1, <1>2, <2>2 DEF AnswerIsLast, Ended, Finished
  <2> QED
    BY <2>4, <2>5 DEF AnswerIsLast
<1> HIDE DEF pos
<1>10. TypeOK'
  BY <1>1, <1>2, <1>4, <1>6 DEF TypeOK, QueueTypeOK, ResponseTypeOK
<1>11. Counts /\ Counts'
  BY <1>1, <1>10, CountsType, CountsTypeNext
<1>12. \A t : /\ Hand(t)' = Hand(t) /\ ParentHand(t)' = ParentHand(t) /\ OnSlots(t)' = OnSlots(t)
              /\ CancelPending(t)' = CancelPending(t) /\ Finished(t)' = Finished(t)
  BY <1>2 DEF Hand, ParentHand, OnSlots, CancelPending, Finished
<1>13. ASSUME NEW t \in Task, NEW k PROVE AnswersOf(t, k)' <= AnswersOf(t, k)
  <2>1. /\ Occurrences(queue_results, Res(t, k)) \in Nat
        /\ Occurrences(queue_results', Res(t, k)) \in Nat
        /\ Occurrences(queue_results', Res(t, k)) <= Occurrences(queue_results, Res(t, k))
        /\ Occurrences(ops, SendOp(t, k)) \in Nat
        /\ Occurrences(delivered[t], k) \in Nat
    BY <1>7, <1>11 DEF Counts
  <2>2. AnswersOf(t, k)' = Occurrences(ops, SendOp(t, k)) + Occurrences(queue_results', Res(t, k))
                           + Occurrences(delivered[t], k)
    BY <1>2 DEF AnswersOf
  <2> QED
    BY <2>1, <2>2 DEF AnswersOf
<1>14. Shapes' /\ ChunksOfRunning'
  BY <1>1, <1>2, <1>12 DEF Shapes, ChunksOfRunning
<1>15. OneWeight'
  <2>1. ASSUME NEW t \in Task PROVE Hand(t)' <= Hand(t) /\ Weight(t)' <= Weight(t)
    <3>1. \A x \in Task : Hand(x)' <= Hand(x)
      BY <1>11, <1>12 DEF Counts
    <3>2. /\ AnswersOf(t, "final")' <= AnswersOf(t, "final")
          /\ AnswersOf(t, "error")' <= AnswersOf(t, "error")
          /\ OnSlots(t)' = OnSlots(t) /\ OnSlots(t) \in Nat
          /\ AnswersOf(t, "final") \in Nat /\ AnswersOf(t, "error") \in Nat
          /\ AnswersOf(t, "final")' \in Nat /\ AnswersOf(t, "error")' \in Nat
      BY <1>11, <1>12, <1>13 DEF Counts
    <3> QED
      BY <1>11, <3>1, <3>2, WeightFalls
  <2>2. \A r \in Request : pc[r] \notin {"idle", "registered"}
                              => pc'[r] \notin {"idle", "registered"}
    BY <1>4
  <2> QED
    BY <1>1, <1>11, <2>1, <2>2, OneWeightKept
<1>16. ReadersCount'
  <2>1. \A r \in Request : pc'[r] \in {"idle", "registered", "waiting"} => pc'[r] = pc[r]
    BY <1>4
  <2> QED
    BY <1>1, <1>2, <1>12, <2>1 DEF ReadersCount, HasNext
<1>17. IdsAreWaiting'
  <2> SUFFICES ASSUME NEW t \in Task
               PROVE  t \in waiting_task_ids' <=> \E r \in Request :
                         t \in IdsOf(r) /\ pc'[r] \in {"registered", "waiting", "stopping"}
    BY DEF IdsAreWaiting
  <2>1. t \in waiting_task_ids <=> \E r \in Request :
                         t \in IdsOf(r) /\ pc[r] \in {"registered", "waiting", "stopping"}
    BY <1>1 DEF IdsAreWaiting
  <2>2. CASE t \in IdsOf(q)
    <3>1. \A r \in Request : t \in IdsOf(r) => r = q
      BY <2>2, OneOwner
    <3> QED
      BY <1>2, <1>4, <2>2, <3>1
  <2>3. CASE t \notin IdsOf(q)
    BY <1>2, <1>4, <2>1, <2>3
  <2> QED
    BY <2>2, <2>3
<1>18. ResultsAreRead'
  <2> SUFFICES ASSUME NEW j \in 1 .. Len(queue_results')
               PROVE  \E r \in Request :
                         /\ queue_results'[j].id \in IdsOf(r)
                         /\ pc'[r] = "waiting" \/ (pc'[r] = "stopping" /\ HasNext(r)')
    BY DEF ResultsAreRead
  <2>1. PICK c \in 1 .. Len(queue_results) :
           queue_results'[j] = queue_results[c] /\ queue_results[c].id \notin IdsOf(q)
    BY <1>8
  <2>2. PICK r \in Request :
           /\ queue_results[c].id \in IdsOf(r)
           /\ pc[r] = "waiting" \/ (pc[r] = "stopping" /\ HasNext(r))
    BY <1>1 DEF ResultsAreRead
  <2>3. r # q
    BY <2>1, <2>2
  <2> QED
    BY <1>2, <1>4, <2>1, <2>2, <2>3 DEF HasNext
<1>19. GoneIsCancelled'
  <2> SUFFICES ASSUME NEW r \in Request, NEW t \in IdsOf(r)
               PROVE  /\ pc'[r] = "done" /\ t \notin overtaken => Hand(t) = 0
                      /\ pc'[r] = "done" /\ OnSlots(t) > 0 =>
                            CancelPending(t) \/ t \in overtaken \/ ParentOf(t) \in overtaken
                      /\ CancelPending(t) => pc'[r] = "done"
                      /\ IsChild(t) => t \notin overtaken
    BY <1>2, <1>12 DEF GoneIsCancelled
  <2>1. /\ pc[r] = "done" /\ t \notin overtaken => Hand(t) = 0
        /\ pc[r] = "done" /\ OnSlots(t) > 0 =>
              CancelPending(t) \/ t \in overtaken \/ ParentOf(t) \in overtaken
        /\ CancelPending(t) => pc[r] = "done"
        /\ IsChild(t) => t \notin overtaken
    BY <1>1 DEF GoneIsCancelled
  <2>2. CASE r # q
    BY <1>4, <2>1, <2>2
  <2>3. CASE r = q
    <3>1. pc'[q] = "done" => Hand(t) = 0 /\ OnSlots(t) = 0
      BY <1>4, <1>5, <2>3
    <3> QED
      BY <1>2, <2>1, <2>3, <3>1
  <2> QED
    BY <2>2, <2>3
<1>20. ChildrenAreRescued'
  <2> SUFFICES ASSUME NEW s \in Slot, slots[s].state = "WAIT_OTHER",
                      ~\E p \in Slot : /\ slots[p].state = "PROMPT"
                                       /\ slots[p].task = ParentOf(slots[s].task),
                      NEW r \in Request, slots[s].task \in IdsOf(r)
               PROVE  Rescue(slots[s].task, r)'
    <3>1. slots' = slots
      BY <1>2
    <3> QED
      BY <3>1 DEF ChildrenAreRescued, Rescue, CancelPending
  <2> DEFINE c == slots[s].task
  <2>1. Rescue(c, r)
    BY <1>1 DEF ChildrenAreRescued
  <2>2. CASE r # q
    <3>1. ErrorComing(r)' <=> ErrorComing(r)
      <4>1. \A t \in IdsOf(r) : t \notin IdsOf(q)
        BY <2>2, OneOwner
      <4> QED
        BY <1>2, <1>7, <4>1 DEF ErrorComing
    <3>2. slots' = slots /\ overtaken' = overtaken /\ pc'[r] = pc[r]
      BY <1>2, <1>4, <2>2
    <3> QED
      BY <1>12, <2>1, <3>1, <3>2 DEF Rescue
  <2>3. CASE r = q
    <3>1. HasNext(q)
      <4>1. OnSlots(c) > 0
        BY OnSlotsMeaning
      <4>2. OnSlots(c) # 0
        BY <4>1
      <4> QED
        BY <1>5, <2>3, <4>2
    <3> QED
      BY <1>4, <2>3, <3>1 DEF Rescue
  <2> QED
    BY <2>2, <2>3
<1> QED
  BY <1>9, <1>10, <1>14, <1>15, <1>16, <1>17, <1>18, <1>19, <1>20 DEF Inv

\* What the cancels posted for a request hold.
LEMMA PostedCancels ==
    ASSUME NEW q \in Request, NEW ids \in SetToSeqs(IdsOf(q))
    PROVE  LET es == [i \in DOMAIN ids |-> CancelEntry(ids[i])]
           IN  /\ es \in Seq(Entry)
               /\ CancelTargets(es) = IdsOf(q)
               /\ \A t : /\ Occurrences(es, TaskEntry(t)) = 0
                         /\ Occurrences(es, CancelEntry(t)) \in Nat
                         /\ Occurrences(es, CancelEntry(t)) > 0 <=> t \in IdsOf(q)
<1> DEFINE I == IdsOf(q)
           n == Cardinality(I)
           es == [i \in DOMAIN ids |-> CancelEntry(ids[i])]
<1>1. I \subseteq Task /\ IsFiniteSet(I) /\ n \in Nat
  BY Ids
<1>2. ids \in [1 .. n -> I] /\ \A i, j \in 1 .. n : i # j => ids[i] # ids[j]
  BY DEF SetToSeqs
<1> HIDE DEF I
<1>3. \A t \in I : \E i \in 1 .. n : ids[i] = t
  <2>1. ids \in Injection(1 .. n, I)
    BY <1>2 DEF Injection, IsInjective
  <2>2. Cardinality(1 .. n) = n
    BY <1>1, FS_Interval
  <2>3. ids \in Surjection(1 .. n, I)
    BY <1>1, <2>1, <2>2, FS_Injection
  <2> QED
    BY <2>3 DEF Surjection
<1> HIDE DEF n
<1>4. /\ es \in Seq(Entry) /\ Len(es) = n /\ DOMAIN es = 1 .. n
      /\ \A i \in 1 .. n : es[i] = CancelEntry(ids[i])
  <2>1. \A i \in 1 .. n : CancelEntry(ids[i]) \in Entry
    BY <1>1, <1>2, EntryTypes
  <2> QED
    BY <1>1, <1>2, <2>1
<1> HIDE DEF es
<1>5. CancelTargets(es) = I
  <2>1. \A t : CancelEntry(t).type = "cancel" /\ CancelEntry(t).id = t
    BY DEF CancelEntry
  <2>2. ToSet(es) = {CancelEntry(t) : t \in I}
    BY <1>2, <1>3, <1>4 DEF ToSet
  <2> QED
    BY <2>1, <2>2 DEF CancelTargets
<1>6. ASSUME NEW t
      PROVE  /\ Occurrences(es, TaskEntry(t)) = 0
             /\ Occurrences(es, CancelEntry(t)) \in Nat
             /\ Occurrences(es, CancelEntry(t)) > 0 <=> t \in I
  <2>1. \A i \in 1 .. Len(es) : es[i] # TaskEntry(t)
    BY <1>4, Distinct
  <2>2. Occurrences(es, TaskEntry(t)) = 0
    BY <1>4, <2>1, OccurrencesMeaning
  <2>3. Occurrences(es, CancelEntry(t)) \in Nat
    BY <1>4, OccurrencesType
  <2>4. Occurrences(es, CancelEntry(t)) = 0 <=> \A i \in 1 .. Len(es) : es[i] # CancelEntry(t)
    BY <1>4, OccurrencesMeaning
  <2>5. (\A i \in 1 .. Len(es) : es[i] # CancelEntry(t)) <=> t \notin I
    <3>1. \A i \in 1 .. n : es[i] = CancelEntry(t) <=> ids[i] = t
      BY <1>4, Distinct
    <3> QED
      BY <1>2, <1>3, <1>4, <3>1
  <2> QED
    BY <2>2, <2>3, <2>4, <2>5
<1> QED
  BY <1>4, <1>5, <1>6 DEF es, I

\* stop() posting its CANCELs takes the queued copies of the tasks; those in the hands of
\* the main loop become overtaken, those on slots have their CANCEL on the way.
LEMMA StopCancelInv ==
    ASSUME Inv, NEW q \in Request, Stop_Cancel(q)
    PROVE  Inv'
<1>1. /\ TypeOK /\ Shapes /\ OneWeight /\ ChunksOfRunning /\ AnswerIsLast
      /\ ReadersCount /\ IdsAreWaiting /\ ResultsAreRead
      /\ GoneIsCancelled /\ ChildrenAreRescued
  BY DEF Inv
<1>2. PICK ids \in SetToSeqs(IdsOf(q)) : Post([i \in DOMAIN ids |-> CancelEntry(ids[i])], TRUE)
  BY DEF Stop_Cancel
<1> DEFINE es == [i \in DOMAIN ids |-> CancelEntry(ids[i])]
<1>3. /\ pc[q] = "cancelling" /\ pc' = [pc EXCEPT ![q] = "done"]
      /\ overtaken' = overtaken \cup {t \in IdsOf(q) : InHand(t)}
      /\ UNCHANGED <<waiting_task_ids, queue_results, slots, main, cur, ops,
                     received, delivered>>
  BY DEF Stop_Cancel, responseVars, mainVars
<1>4. pc \in [Request -> ReaderPC] /\ pc'[q] = "done" /\ \A r \in Request \ {q} : pc'[r] = pc[r]
  BY <1>1, <1>3 DEF TypeOK
<1>5. /\ es \in Seq(Entry)
      /\ CancelTargets(es) = IdsOf(q)
      /\ \A t : /\ Occurrences(es, TaskEntry(t)) = 0
                /\ Occurrences(es, CancelEntry(t)) \in Nat
                /\ Occurrences(es, CancelEntry(t)) > 0 <=> t \in IdsOf(q)
  BY PostedCancels
<1>6. Post(es, TRUE)
  BY <1>2
<1> HIDE DEF es
<1>7. /\ QueueTypeOK'
      /\ \A t : /\ Occurrences(queue_tasks', TaskEntry(t))
                      = 0 + (IF t \in IdsOf(q) THEN 0 ELSE Occurrences(queue_tasks, TaskEntry(t)))
                /\ Occurrences(queue_tasks_deferred', TaskEntry(t))
                      = IF t \in IdsOf(q) THEN 0 ELSE Occurrences(queue_tasks_deferred, TaskEntry(t))
                /\ Occurrences(queue_tasks', CancelEntry(t))
                      = Occurrences(es, CancelEntry(t)) + Occurrences(queue_tasks, CancelEntry(t))
  <2>1. QueueTypeOK
    BY <1>1 DEF TypeOK
  <2>2. /\ QueueTypeOK'
        /\ \A t :
              /\ Occurrences(queue_tasks', TaskEntry(t)) = Occurrences(es, TaskEntry(t))
                    + (IF t \in CancelTargets(es) THEN 0
                       ELSE Occurrences(queue_tasks, TaskEntry(t)))
              /\ Occurrences(queue_tasks_deferred', TaskEntry(t))
                    = IF t \in CancelTargets(es) THEN 0
                      ELSE Occurrences(queue_tasks_deferred, TaskEntry(t))
              /\ Occurrences(queue_tasks', CancelEntry(t))
                    = Occurrences(es, CancelEntry(t)) + Occurrences(queue_tasks, CancelEntry(t))
    <3>1. TRUE \in BOOLEAN
      OBVIOUS
    <3> QED
      BY <1>5, <1>6, <2>1, <3>1, PostCounts
  <2> QED
    BY <1>5, <2>2
<1>8. TypeOK'
  <2>1. overtaken' \subseteq Task
    BY <1>1, <1>3, Ids DEF TypeOK
  <2>2. pc' \in [Request -> ReaderPC]
    BY <1>3, <1>4 DEF ReaderPC
  <2> QED
    BY <1>1, <1>3, <1>7, <2>1, <2>2 DEF TypeOK, ResponseTypeOK
<1>9. Counts /\ Counts'
  BY <1>1, <1>8, CountsType, CountsTypeNext
<1>10. /\ \A t : OnSlots(t)' = OnSlots(t)
       /\ \A t, k : AnswersOf(t, k)' = AnswersOf(t, k)
       /\ \A t : Finished(t)' = Finished(t) /\ Ended(t)' = Ended(t)
  BY <1>3 DEF OnSlots, AnswersOf, Finished, Ended
<1>11. \A t : CancelPending(t)' <=> CancelPending(t) \/ t \in IdsOf(q)
  <2>1. ASSUME NEW t
        PROVE  Occurrences(queue_tasks', CancelEntry(t)) > 0 <=>
                  Occurrences(queue_tasks, CancelEntry(t)) > 0 \/ t \in IdsOf(q)
    <3>1. Occurrences(queue_tasks, CancelEntry(t)) \in Nat
      BY <1>9 DEF Counts
    <3>2. Occurrences(es, CancelEntry(t)) \in Nat
          /\ (Occurrences(es, CancelEntry(t)) > 0 <=> t \in IdsOf(q))
      BY <1>5
    <3>3. Occurrences(queue_tasks', CancelEntry(t))
                      = Occurrences(es, CancelEntry(t)) + Occurrences(queue_tasks, CancelEntry(t))
      BY <1>7
    <3> QED
      BY <3>1, <3>2, <3>3
  <2> QED
    BY <1>3, <2>1 DEF CancelPending
<1>12. ASSUME NEW t \in Task
       PROVE  /\ Hand(t)' <= Hand(t)
              /\ t \in IdsOf(q) /\ ~InHand(t) => Hand(t)' = 0
              /\ t \notin IdsOf(q) => Hand(t)' = Hand(t)
  <2>1. /\ Occurrences(queue_tasks, TaskEntry(t)) \in Nat
        /\ Occurrences(queue_tasks_deferred, TaskEntry(t)) \in Nat
        /\ Occurrences(ops, DeferOp(t)) \in Nat
    BY <1>9 DEF Counts
  <2>2. CASE t \in IdsOf(q)
    <3>1. Hand(t)' = (IF cur = TaskEntry(t) THEN 1 ELSE 0) + Occurrences(ops, DeferOp(t))
      <4>1. Occurrences(queue_tasks', TaskEntry(t)) = 0 /\ Occurrences(queue_tasks_deferred', TaskEntry(t)) = 0
        BY <1>7, <2>2
      <4>2. cur' = cur /\ ops' = ops
        BY <1>3
      <4> QED
        BY <2>1, <4>1, <4>2 DEF Hand
    <3>2. Hand(t)' <= Hand(t)
      BY <2>1, <3>1 DEF Hand
    <3>3. ~InHand(t) => cur # TaskEntry(t) /\ Occurrences(ops, DeferOp(t)) = 0
      <4>1. ops \in Seq(Op) /\ DOMAIN ops = 1 .. Len(ops)
        BY <1>1 DEF TypeOK
      <4>2. ~InHand(t) => cur # TaskEntry(t) /\ \A i \in 1 .. Len(ops) : ops[i] # DeferOp(t)
        BY <4>1 DEF InHand, ToSet
      <4> QED
        BY <4>1, <4>2, OccurrencesMeaning
    <3> QED
      BY <2>2, <3>1, <3>2, <3>3
  <2>3. CASE t \notin IdsOf(q)
    <3>1. /\ Occurrences(queue_tasks', TaskEntry(t)) = Occurrences(queue_tasks, TaskEntry(t))
          /\ Occurrences(queue_tasks_deferred', TaskEntry(t))
                = Occurrences(queue_tasks_deferred, TaskEntry(t))
      BY <1>7, <2>1, <2>3
    <3>2. Hand(t)' = Hand(t) /\ Hand(t) \in Nat
      BY <1>3, <1>9, <3>1 DEF Hand, Counts
    <3> QED
      BY <2>3, <3>2
  <2> QED
    BY <2>2, <2>3
<1>13. Shapes'
  <2>1. NoTask \notin IdsOf(q)
    BY Ids, TaskAssumption
  <2>2. /\ Occurrences(queue_tasks, TaskEntry(NoTask)) = 0
        /\ Occurrences(queue_tasks, CancelEntry(NoTask)) = 0
    BY <1>1 DEF Shapes
  <2>3. Occurrences(es, CancelEntry(NoTask)) = 0
    BY <1>5, <2>1
  <2>4. /\ Occurrences(queue_tasks', TaskEntry(NoTask)) = 0
        /\ Occurrences(queue_tasks', CancelEntry(NoTask)) = 0
    BY <1>7, <2>1, <2>2, <2>3
  <2> QED
    BY <1>1, <1>3, <2>4 DEF Shapes
<1>14. ChunksOfRunning' /\ AnswerIsLast'
  BY <1>1, <1>3 DEF ChunksOfRunning, AnswerIsLast, OnSlots, Ended, Finished
<1>15. OneWeight'
  <2>1. ASSUME NEW t \in Task PROVE Hand(t)' <= Hand(t) /\ Weight(t)' <= Weight(t)
    <3>1. OnSlots(t)' + AnswersOf(t, "final")' + AnswersOf(t, "error")'
              <= OnSlots(t) + AnswersOf(t, "final") + AnswersOf(t, "error")
      BY <1>9, <1>10 DEF Counts
    <3> QED
      BY <1>9, <1>12, <3>1, WeightFalls
  <2>2. \A r \in Request : pc[r] \notin {"idle", "registered"}
                              => pc'[r] \notin {"idle", "registered"}
    BY <1>4
  <2> QED
    BY <1>1, <1>9, <2>1, <2>2, OneWeightKept
<1>16. ReadersCount'
  <2>1. \A r \in Request : pc'[r] \in {"idle", "registered", "waiting"} => pc'[r] = pc[r]
    BY <1>4
  <2> QED
    BY <1>1, <1>3, <1>10, <2>1 DEF ReadersCount, HasNext
<1>17. IdsAreWaiting'
  BY <1>1, <1>3, <1>4 DEF IdsAreWaiting
<1>18. ResultsAreRead'
  BY <1>1, <1>3, <1>4 DEF ResultsAreRead, HasNext
<1>19. GoneIsCancelled'
  <2> SUFFICES ASSUME NEW r \in Request, NEW t \in IdsOf(r)
               PROVE  /\ pc'[r] = "done" /\ t \notin overtaken' => Hand(t)' = 0
                      /\ pc'[r] = "done" /\ OnSlots(t)' > 0 =>
                            CancelPending(t)' \/ t \in overtaken' \/ ParentOf(t) \in overtaken'
                      /\ CancelPending(t)' => pc'[r] = "done"
                      /\ IsChild(t) => t \notin overtaken'
    BY DEF GoneIsCancelled
  <2>1. /\ pc[r] = "done" /\ t \notin overtaken => Hand(t) = 0
        /\ pc[r] = "done" /\ OnSlots(t) > 0 =>
              CancelPending(t) \/ t \in overtaken \/ ParentOf(t) \in overtaken
        /\ CancelPending(t) => pc[r] = "done"
        /\ IsChild(t) => t \notin overtaken
    BY <1>1 DEF GoneIsCancelled
  <2>2. t \in Task /\ (t \in IdsOf(q) <=> r = q)
    BY Ids, OneOwner
  <2>3. CASE r # q
    BY <1>3, <1>4, <1>10, <1>11, <1>12, <2>1, <2>2, <2>3
  <2>4. CASE r = q
    <3>1. IsChild(t) => ~InHand(t)
      <4>1. IsChild(t) => Hand(t) = 0
        BY <1>1, <2>2 DEF OneWeight
      <4>2. InHand(t) => Hand(t) > 0
        <5>1. /\ Occurrences(queue_tasks, TaskEntry(t)) \in Nat
              /\ Occurrences(queue_tasks_deferred, TaskEntry(t)) \in Nat
              /\ Occurrences(ops, DeferOp(t)) \in Nat
          BY <1>9 DEF Counts
        <5>2. InHand(t) => cur = TaskEntry(t) \/ Occurrences(ops, DeferOp(t)) > 0
          <6>1. ops \in Seq(Op) /\ DOMAIN ops = 1 .. Len(ops)
            BY <1>1 DEF TypeOK
          <6>2. Occurrences(ops, DeferOp(t)) = 0 => \A i \in 1 .. Len(ops) : ops[i] # DeferOp(t)
            BY <6>1, OccurrencesMeaning
          <6> QED
            BY <5>1, <6>1, <6>2 DEF InHand, ToSet
        <5> QED
          BY <5>1, <5>2 DEF Hand
      <4> QED
        BY <4>1, <4>2
    <3>2. t \notin overtaken' => Hand(t)' = 0
      BY <1>3, <1>12, <2>2, <2>4
    <3> QED
      BY <1>3, <1>4, <1>11, <2>1, <2>2, <2>4, <3>1, <3>2
  <2> QED
    BY <2>3, <2>4
<1>20. ChildrenAreRescued'
  <2>1. ASSUME NEW t, NEW r \in Request, t \in IdsOf(r), Rescue(t, r) PROVE Rescue(t, r)'
    <3>1. ErrorComing(r)' <=> ErrorComing(r)
      BY <1>3 DEF ErrorComing
    <3>2. CASE r # q
      BY <1>3, <1>4, <1>11, <2>1, <3>1, <3>2 DEF Rescue
    <3>3. CASE r = q
      BY <1>11, <2>1, <3>3 DEF Rescue
    <3> QED
      BY <3>2, <3>3
  <2> QED
    BY <1>1, <1>3, <2>1 DEF ChildrenAreRescued
<1> QED
  BY <1>8, <1>13, <1>14, <1>15, <1>16, <1>17, <1>18, <1>19, <1>20 DEF Inv

-----------------------------------------------------------------------------
(* The main loop's steps                                                   *)

\* What is left to show of a step of the main loop that sends no result.
LEMMA LoopStepInv ==
    ASSUME Inv, TypeOK', Shapes', ChildrenAreRescued',
           UNCHANGED <<waiting_task_ids, queue_results, pc, received, delivered, overtaken>>,
           \A t \in Task :
              /\ Hand(t)' <= Hand(t)
              /\ Weight(t)' <= Weight(t)
              /\ Occurrences(ops', SendOp(t, "partial")) > 0 => OnSlots(t)' > 0
              /\ OnSlots(t)' > 0 => OnSlots(t) > 0 \/ Hand(t) > 0 \/ ParentHand(t) > 0
              /\ CancelPending(t)' => CancelPending(t)
              /\ CancelPending(t) /\ OnSlots(t)' > 0 => CancelPending(t)'
    PROVE  Inv'
<1>1. /\ TypeOK /\ Shapes /\ OneWeight /\ ChunksOfRunning /\ AnswerIsLast
      /\ ReadersCount /\ IdsAreWaiting /\ ResultsAreRead
      /\ GoneIsCancelled /\ ChildrenAreRescued
  BY DEF Inv
<1>2. Counts /\ Counts'
  BY <1>1, CountsType, CountsTypeNext
<1>3. OneWeight'
  BY <1>1, <1>2, OneWeightKept
<1>4. ChunksOfRunning'
  BY DEF ChunksOfRunning
<1>5. AnswerIsLast' /\ ReadersCount' /\ IdsAreWaiting' /\ ResultsAreRead'
  BY <1>1 DEF AnswerIsLast, ReadersCount, IdsAreWaiting, ResultsAreRead, Ended, Finished, HasNext
<1>6. GoneIsCancelled'
  <2> SUFFICES ASSUME NEW r \in Request, NEW t \in IdsOf(r)
               PROVE  /\ pc[r] = "done" /\ t \notin overtaken => Hand(t)' = 0
                      /\ pc[r] = "done" /\ OnSlots(t)' > 0 =>
                            CancelPending(t)' \/ t \in overtaken \/ ParentOf(t) \in overtaken
                      /\ CancelPending(t)' => pc[r] = "done"
                      /\ IsChild(t) => t \notin overtaken
    BY DEF GoneIsCancelled
  <2>1. /\ pc[r] = "done" /\ t \notin overtaken => Hand(t) = 0
        /\ pc[r] = "done" /\ OnSlots(t) > 0 =>
              CancelPending(t) \/ t \in overtaken \/ ParentOf(t) \in overtaken
        /\ CancelPending(t) => pc[r] = "done"
        /\ IsChild(t) => t \notin overtaken
    BY <1>1 DEF GoneIsCancelled
  <2>2. /\ t \in Task /\ Hand(t) \in Nat /\ Hand(t)' \in Nat
        /\ OnSlots(t) \in Nat /\ OnSlots(t)' \in Nat /\ ParentHand(t) \in Nat
    BY <1>2, Ids DEF Counts
  <2>3. pc[r] = "done" /\ ParentHand(t) > 0 => ParentOf(t) \in overtaken
    <3> SUFFICES ASSUME pc[r] = "done", ParentHand(t) > 0 PROVE ParentOf(t) \in overtaken
      OBVIOUS
    <3>1. IsChild(t) /\ Hand(ParentOf(t)) > 0
      BY DEF ParentHand
    <3>2. ParentOf(t) \in IdsOf(r)
      BY <3>1, Ids
    <3>3. ParentOf(t) \notin overtaken => Hand(ParentOf(t)) = 0
      BY <1>1, <3>2 DEF GoneIsCancelled
    <3> QED
      BY <3>1, <3>3
  <2>4. pc[r] = "done" /\ t \notin overtaken => Hand(t)' = 0
    BY <2>1, <2>2
  <2>5. pc[r] = "done" /\ OnSlots(t)' > 0 =>
           CancelPending(t)' \/ t \in overtaken \/ ParentOf(t) \in overtaken
    <3> SUFFICES ASSUME pc[r] = "done", OnSlots(t)' > 0
                 PROVE  CancelPending(t)' \/ t \in overtaken \/ ParentOf(t) \in overtaken
      OBVIOUS
    <3>1. OnSlots(t) > 0 \/ Hand(t) > 0 \/ ParentHand(t) > 0
      BY <2>2
    <3>2. Hand(t) > 0 => t \in overtaken
      BY <2>1, <2>2
    <3>3. CancelPending(t) => CancelPending(t)'
      BY <2>2
    <3> QED
      BY <2>1, <2>3, <3>1, <3>2, <3>3
  <2> QED
    BY <2>1, <2>2, <2>4, <2>5
<1> QED
  BY <1>3, <1>4, <1>5, <1>6 DEF Inv

\* The same with the child named, for a proof of the next state.
ChildIsRescued(c) ==
    \A s \in Slot : slots[s].state = "WAIT_OTHER" /\ slots[s].task = c =>
        \/ \E p \in Slot : slots[p].state = "PROMPT" /\ slots[p].task = ParentOf(c)
        \/ \A r \in Request : c \in IdsOf(r) => Rescue(c, r)

\* The rescue of all children, child by child.
LEMMA ChildByChild == (\A c : ChildIsRescued(c)) => ChildrenAreRescued
  BY DEF ChildIsRescued, ChildrenAreRescued

\* The same after a step.
LEMMA ChildByChildNext == (\A c : ChildIsRescued(c)') => ChildrenAreRescued'
<1> DEFINE Each == \A c : ChildIsRescued(c)
<1>1. Each => ChildrenAreRescued
  BY ChildByChild
<1> HIDE DEF Each
<1>2. Each' => ChildrenAreRescued'
  BY <1>1, PTL
<1> QED
  BY <1>2 DEF Each

\* A step that leaves the slots alone, loses no CANCEL and no error.
LEMMA RescuedKept ==
    ASSUME ChildrenAreRescued,
           UNCHANGED <<slots, pc, overtaken>>,
           \A t \in Task : CancelPending(t) => CancelPending(t)',
           \A r \in Request : ErrorComing(r) => ErrorComing(r)'
    PROVE  ChildrenAreRescued'
<1>1. ASSUME NEW r \in Request, NEW t \in IdsOf(r), Rescue(t, r) PROVE Rescue(t, r)'
  <2>1. t \in Task
    BY Ids
  <2> QED
    BY <1>1, <2>1 DEF Rescue
<1> QED
  BY <1>1 DEF ChildrenAreRescued

\* A step that only moves a copy, or nothing: the slots stay, the operations left
\* are among those there were.
LEMMA MovesInv ==
    ASSUME Inv, TypeOK', Shapes',
           UNCHANGED <<waiting_task_ids, queue_results, slots, pc, received, delivered, overtaken>>,
           \A t \in Task :
              /\ Hand(t)' <= Hand(t)
              /\ \A k : Occurrences(ops', SendOp(t, k)) = Occurrences(ops, SendOp(t, k))
              /\ CancelPending(t)' <=> CancelPending(t)
    PROVE  Inv'
<1>1. TypeOK /\ ChildrenAreRescued /\ ChunksOfRunning
  BY DEF Inv
<1>2. Counts /\ Counts'
  BY <1>1, CountsType, CountsTypeNext
<1>3. /\ \A t : OnSlots(t)' = OnSlots(t)
      /\ \A t \in Task : \A k : AnswersOf(t, k)' = AnswersOf(t, k)
  BY DEF OnSlots, AnswersOf
<1>4. ASSUME NEW t \in Task PROVE Weight(t)' <= Weight(t)
  <2>1. OnSlots(t)' + AnswersOf(t, "final")' + AnswersOf(t, "error")'
              <= OnSlots(t) + AnswersOf(t, "final") + AnswersOf(t, "error")
    BY <1>2, <1>3 DEF Counts
  <2> QED
    BY <1>2, <2>1, WeightFalls
<1>5. ChildrenAreRescued'
  <2>1. \A r \in Request : ErrorComing(r) => ErrorComing(r)'
    <3>1. \A r \in Request : \A t \in IdsOf(r) : t \in Task
      BY Ids
    <3> QED
      BY <3>1 DEF ErrorComing
  <2> QED
    BY <1>1, <2>1, RescuedKept
<1>6. \A t \in Task : Occurrences(ops', SendOp(t, "partial")) > 0 => OnSlots(t)' > 0
  BY <1>1, <1>3 DEF ChunksOfRunning
<1> QED
  BY <1>3, <1>4, <1>5, <1>6, LoopStepInv

\* Taking the next operation.
LEMMA TakeOp ==
    ASSUME TypeOK, ops # <<>>, ops' = Tail(ops)
    PROVE  /\ Head(ops) \in Op
           /\ ops' \in Seq(Op)
           /\ \A e : /\ Occurrences(ops', e) \in Nat
                     /\ Occurrences(ops, e) = (IF Head(ops) = e THEN 1 ELSE 0) + Occurrences(ops', e)
<1>1. ops \in Seq(Op)
  BY DEF TypeOK
<1>2. Head(ops) \in Op /\ Tail(ops) \in Seq(Op)
  BY <1>1, HeadTailProperties
<1> QED
  BY <1>1, <1>2, OccurrencesTail, OccurrencesType

\* NEXT_RESPONSE is posted.
LEMMA ExecNextInv ==
    ASSUME Inv, ops # <<>>, ops' = Tail(ops), Head(ops).op = "next",
           Post(<<NextEntry>>, FALSE),
           UNCHANGED <<responseVars, slots, main, cur, readerVars>>
    PROVE  Inv'
<1> DEFINE es == <<NextEntry>>
<1>1. TypeOK /\ Shapes
  BY DEF Inv
<1>2. UNCHANGED <<waiting_task_ids, queue_results, slots, main, cur, pc, received, delivered, overtaken>>
  BY DEF responseVars, readerVars
<1>3. /\ ops' \in Seq(Op)
      /\ \A e : /\ Occurrences(ops', e) \in Nat
                /\ Occurrences(ops, e) = (IF NextOp = e THEN 1 ELSE 0) + Occurrences(ops', e)
  <2>1. Head(ops) = NextOp
    BY <1>1, TakeOp, OpForms
  <2> QED
    BY <1>1, <2>1, TakeOp
<1>4. /\ es \in Seq(Entry) /\ CancelTargets(es) = {}
      /\ \A t : Occurrences(es, TaskEntry(t)) = 0 /\ Occurrences(es, CancelEntry(t)) = 0
  <2>1. ToSet(es) = {NextEntry} /\ NextEntry.type # "cancel"
    BY DEF ToSet, NextEntry
  <2>2. CancelTargets(es) = {}
    BY <2>1 DEF CancelTargets
  <2> QED
    BY <2>2, EntryTypes, OccurrencesSingleton, Distinct
<1>5. Post(es, FALSE)
  OBVIOUS
<1> HIDE DEF es
<1>6. /\ QueueTypeOK'
      /\ \A t : /\ Occurrences(queue_tasks', TaskEntry(t)) = 0 + Occurrences(queue_tasks, TaskEntry(t))
                /\ Occurrences(queue_tasks_deferred', TaskEntry(t))
                      = Occurrences(queue_tasks_deferred, TaskEntry(t))
                /\ Occurrences(queue_tasks', CancelEntry(t))
                      = 0 + Occurrences(queue_tasks, CancelEntry(t))
  <2>1. QueueTypeOK
    BY <1>1 DEF TypeOK
  <2> QED
    BY <1>4, <1>5, <2>1, PostCounts
<1>7. TypeOK'
  BY <1>1, <1>2, <1>3, <1>6 DEF TypeOK, ResponseTypeOK
<1>8. Counts
  BY <1>1, CountsType
<1>9. \A t : /\ Occurrences(queue_tasks', TaskEntry(t)) = Occurrences(queue_tasks, TaskEntry(t))
             /\ Occurrences(queue_tasks', CancelEntry(t)) = Occurrences(queue_tasks, CancelEntry(t))
  BY <1>6, <1>8 DEF Counts
<1>10. /\ \A t : Occurrences(ops', DeferOp(t)) = Occurrences(ops, DeferOp(t))
       /\ \A t, k : Occurrences(ops', SendOp(t, k)) = Occurrences(ops, SendOp(t, k))
  BY <1>3, Distinct
<1>11. Shapes'
  BY <1>1, <1>2, <1>9 DEF Shapes
<1>12. \A t \in Task : Hand(t)' <= Hand(t) /\ (CancelPending(t)' <=> CancelPending(t))
  <2>1. \A t \in Task : Hand(t) \in Nat /\ Hand(t)' = Hand(t)
    BY <1>2, <1>6, <1>8, <1>9, <1>10 DEF Hand, Counts
  <2> QED
    BY <1>2, <1>9, <2>1 DEF CancelPending
<1> QED
  BY <1>2, <1>7, <1>10, <1>11, <1>12, MovesInv

\* The task in the loop's hands is deferred.
LEMMA ExecDeferInv ==
    ASSUME Inv, ops # <<>>, ops' = Tail(ops), Head(ops).op = "defer",
           Defer(TaskEntry(Head(ops).task)),
           UNCHANGED <<responseVars, slots, main, cur, readerVars>>
    PROVE  Inv'
<1> DEFINE u == Head(ops).task
           D == [type : {"task"}, id : Task]
<1>1. TypeOK /\ Shapes
  BY DEF Inv
<1>2. UNCHANGED <<waiting_task_ids, queue_results, slots, main, cur, pc, received, delivered, overtaken>>
  BY DEF responseVars, readerVars
<1>3. /\ ops' \in Seq(Op) /\ u \in Task
      /\ \A e : /\ Occurrences(ops', e) \in Nat
                /\ Occurrences(ops, e) = (IF DeferOp(u) = e THEN 1 ELSE 0) + Occurrences(ops', e)
  <2>1. u \in Task /\ Head(ops) = DeferOp(u)
    BY <1>1, TakeOp, OpForms
  <2> QED
    BY <1>1, <2>1, TakeOp
<1>4. /\ queue_tasks_deferred' = Append(queue_tasks_deferred, TaskEntry(u))
      /\ queue_tasks' = queue_tasks
  BY DEF Defer
<1> HIDE DEF u
<1>5. queue_tasks_deferred \in Seq(D) /\ TaskEntry(u) \in D
  BY <1>1, <1>3, EntryTypes DEF TypeOK, QueueTypeOK
<1> HIDE DEF D
<1>6. /\ queue_tasks_deferred' \in Seq(D)
      /\ \A e : Occurrences(queue_tasks_deferred', e)
                   = Occurrences(queue_tasks_deferred, e) + (IF TaskEntry(u) = e THEN 1 ELSE 0)
  BY <1>4, <1>5, OccurrencesAppend, AppendProperties
<1>7. TypeOK'
  BY <1>1, <1>2, <1>3, <1>4, <1>6 DEF TypeOK, QueueTypeOK, ResponseTypeOK, D
<1>8. Counts
  BY <1>1, CountsType
<1>9. \A t, k : Occurrences(ops', SendOp(t, k)) = Occurrences(ops, SendOp(t, k))
  BY <1>3, Distinct
<1>10. Shapes'
  BY <1>1, <1>2, <1>4 DEF Shapes
<1>11. ASSUME NEW t \in Task PROVE Hand(t)' <= Hand(t)
  <2>1. Occurrences(ops, DeferOp(t)) = (IF u = t THEN 1 ELSE 0) + Occurrences(ops', DeferOp(t))
    BY <1>3, Distinct
  <2>2. Occurrences(queue_tasks_deferred', TaskEntry(t))
           = Occurrences(queue_tasks_deferred, TaskEntry(t)) + (IF u = t THEN 1 ELSE 0)
    BY <1>6, Distinct
  <2>3. /\ Occurrences(queue_tasks, TaskEntry(t)) \in Nat
        /\ Occurrences(queue_tasks_deferred, TaskEntry(t)) \in Nat
        /\ Occurrences(ops', DeferOp(t)) \in Nat
    BY <1>3, <1>8 DEF Counts
  <2> QED
    BY <1>2, <1>4, <2>1, <2>2, <2>3 DEF Hand
<1>12. \A t : CancelPending(t)' <=> CancelPending(t)
  BY <1>2, <1>4 DEF CancelPending
<1> QED
  BY <1>2, <1>7, <1>9, <1>10, <1>11, <1>12, MovesInv

\* A deferred task, if any, goes to the front of the queue.
LEMMA ExecPopDeferredInv ==
    ASSUME Inv, ops # <<>>, ops' = Tail(ops), Head(ops).op = "popdef",
           PopDeferredTask(Head(ops).slot),
           UNCHANGED <<responseVars, slots, main, cur, readerVars>>
    PROVE  Inv'
<1> DEFINE s == Head(ops).slot
           d == queue_tasks_deferred
           i == DeferredFor(s)
           D == [type : {"task"}, id : Task]
<1>1. TypeOK /\ Shapes
  BY DEF Inv
<1>2. UNCHANGED <<waiting_task_ids, queue_results, slots, main, cur, pc, received, delivered, overtaken>>
  BY DEF responseVars, readerVars
<1>3. /\ ops' \in Seq(Op)
      /\ \A t : Occurrences(ops', DeferOp(t)) = Occurrences(ops, DeferOp(t))
      /\ \A t, k : Occurrences(ops', SendOp(t, k)) = Occurrences(ops, SendOp(t, k))
  <2>1. Head(ops) = PopDeferOp(s)
    BY <1>1, TakeOp, OpForms
  <2>2. /\ ops' \in Seq(Op)
        /\ \A e : /\ Occurrences(ops', e) \in Nat
                  /\ Occurrences(ops, e)
                        = (IF PopDeferOp(s) = e THEN 1 ELSE 0) + Occurrences(ops', e)
    BY <1>1, <2>1, TakeOp
  <2> QED
    BY <2>2, Distinct
<1>4. Counts
  BY <1>1, CountsType
<1>5. /\ QueueTypeOK'
      /\ \A t : Occurrences(queue_tasks', CancelEntry(t)) = Occurrences(queue_tasks, CancelEntry(t))
      /\ \A t : Occurrences(queue_tasks', TaskEntry(t)) + Occurrences(queue_tasks_deferred', TaskEntry(t))
                   = Occurrences(queue_tasks, TaskEntry(t)) + Occurrences(d, TaskEntry(t))
      /\ Occurrences(queue_tasks', TaskEntry(NoTask)) = Occurrences(queue_tasks, TaskEntry(NoTask))
  <2>1. CASE d = <<>>
    BY <1>1, <2>1 DEF PopDeferredTask, TypeOK, QueueTypeOK, queueVars
  <2>2. CASE d # <<>>
    <3>1. i \in 1 .. Len(d) /\ d \in Seq(D) /\ queue_tasks \in Seq(Entry)
      BY <1>1, <2>2, DeferredForRange DEF TypeOK, QueueTypeOK
    <3>2. queue_tasks' = <<d[i]>> \o queue_tasks /\ queue_tasks_deferred' = RemoveAt(d, i)
      BY <2>2 DEF PopDeferredTask
    <3>3. PICK u \in Task : d[i] = TaskEntry(u)
      <4>1. d[i] \in D
        <5> HIDE DEF i, d, D
        <5> QED
          BY ONLY <3>1
      <4> QED
        BY <4>1 DEF TaskEntry
    <3> HIDE DEF i, d, D
    <3>4. /\ RemoveAt(d, i) \in Seq(D)
          /\ \A e : Occurrences(d, e) = Occurrences(RemoveAt(d, i), e) + (IF d[i] = e THEN 1 ELSE 0)
      BY <3>1, RemoveAtProperties, OccurrencesRemoveAt
    <3>5. TaskEntry(u) \in Entry /\ <<TaskEntry(u)>> \in Seq(Entry)
      BY EntryTypes
    <3>6. /\ queue_tasks' \in Seq(Entry)
          /\ \A e : Occurrences(queue_tasks', e)
                       = (IF TaskEntry(u) = e THEN 1 ELSE 0) + Occurrences(queue_tasks, e)
      <4>1. \A e : Occurrences(<<TaskEntry(u)>> \o queue_tasks, e)
                       = Occurrences(<<TaskEntry(u)>>, e) + Occurrences(queue_tasks, e)
        BY <3>1, <3>5, OccurrencesConcat
      <4>2. \A e : Occurrences(<<TaskEntry(u)>>, e) = IF TaskEntry(u) = e THEN 1 ELSE 0
        BY OccurrencesSingleton
      <4>3. <<TaskEntry(u)>> \o queue_tasks \in Seq(Entry)
        BY <3>1, <3>5, ConcatProperties
      <4> QED
        BY <3>2, <3>3, <4>1, <4>2, <4>3
    <3>7. QueueTypeOK'
      BY <3>2, <3>4, <3>6 DEF QueueTypeOK, D
    <3>8. \A t : Occurrences(queue_tasks', CancelEntry(t)) = Occurrences(queue_tasks, CancelEntry(t))
      BY <1>4, <3>6, Distinct DEF Counts
    <3>9. \A e : Occurrences(RemoveAt(d, i), e) \in Nat
      BY <3>4, OccurrencesType
    <3>10. \A t : Occurrences(queue_tasks', TaskEntry(t)) + Occurrences(queue_tasks_deferred', TaskEntry(t))
                   = Occurrences(queue_tasks, TaskEntry(t)) + Occurrences(d, TaskEntry(t))
      <4>1. ASSUME NEW t
            PROVE  Occurrences(queue_tasks', TaskEntry(t)) + Occurrences(queue_tasks_deferred', TaskEntry(t))
                     = Occurrences(queue_tasks, TaskEntry(t)) + Occurrences(d, TaskEntry(t))
        <5>1. Occurrences(queue_tasks', TaskEntry(t))
                 = (IF u = t THEN 1 ELSE 0) + Occurrences(queue_tasks, TaskEntry(t))
          BY <3>6, Distinct
        <5>2. Occurrences(d, TaskEntry(t))
                 = Occurrences(queue_tasks_deferred', TaskEntry(t)) + (IF u = t THEN 1 ELSE 0)
          BY <3>2, <3>3, <3>4, Distinct
        <5>3. /\ Occurrences(queue_tasks, TaskEntry(t)) \in Nat
              /\ Occurrences(queue_tasks_deferred', TaskEntry(t)) \in Nat
          BY <1>4, <3>2, <3>9 DEF Counts
        <5> QED
          BY <5>1, <5>2, <5>3
      <4> QED
        BY <4>1
    <3>11. Occurrences(queue_tasks', TaskEntry(NoTask)) = Occurrences(queue_tasks, TaskEntry(NoTask))
      <4>1. TaskEntry(u) # TaskEntry(NoTask)
        BY Distinct, TaskAssumption
      <4>2. Occurrences(queue_tasks, TaskEntry(NoTask)) \in Nat
        BY <1>4 DEF Counts
      <4> QED
        BY <3>6, <4>1, <4>2
    <3> QED
      BY <3>7, <3>8, <3>10, <3>11
  <2> QED
    BY <2>1, <2>2
<1> HIDE DEF d
<1>6. TypeOK'
  BY <1>1, <1>2, <1>3, <1>5 DEF TypeOK, ResponseTypeOK
<1>7. Shapes'
  BY <1>1, <1>2, <1>5 DEF Shapes
<1>8. Counts'
  BY <1>6, CountsTypeNext
<1>9. ASSUME NEW t \in Task PROVE Hand(t)' <= Hand(t)
  <2>1. /\ Occurrences(queue_tasks, TaskEntry(t)) \in Nat
        /\ Occurrences(queue_tasks_deferred, TaskEntry(t)) \in Nat
        /\ Occurrences(queue_tasks', TaskEntry(t)) \in Nat
        /\ Occurrences(queue_tasks_deferred', TaskEntry(t)) \in Nat
        /\ Occurrences(ops, DeferOp(t)) \in Nat
    BY <1>4, <1>8 DEF Counts
  <2>2. Occurrences(queue_tasks', TaskEntry(t)) + Occurrences(queue_tasks_deferred', TaskEntry(t))
            = Occurrences(queue_tasks, TaskEntry(t)) + Occurrences(queue_tasks_deferred, TaskEntry(t))
    BY <1>5 DEF d
  <2>3. Occurrences(ops', DeferOp(t)) = Occurrences(ops, DeferOp(t)) /\ cur' = cur
    BY <1>2, <1>3
  <2> QED
    BY <2>1, <2>2, <2>3 DEF Hand
<1>10. \A t : CancelPending(t)' <=> CancelPending(t)
  BY <1>2, <1>5 DEF CancelPending
<1> QED
  BY <1>2, <1>3, <1>6, <1>7, <1>9, <1>10, MovesInv

\* A result is queued, or dropped when nobody waits for it.
LEMMA ExecSendInv ==
    ASSUME Inv, ops # <<>>, ops' = Tail(ops), Head(ops).op = "send",
           Send(Head(ops).result),
           UNCHANGED <<queueVars, slots, main, cur, readerVars>>
    PROVE  Inv'
<1> DEFINE u == Head(ops).result.id
           k == Head(ops).result.kind
           n == Len(queue_results)
<1>1. /\ TypeOK /\ Shapes /\ OneWeight /\ ChunksOfRunning /\ AnswerIsLast
      /\ ReadersCount /\ IdsAreWaiting /\ ResultsAreRead
      /\ GoneIsCancelled /\ ChildrenAreRescued
  BY DEF Inv
<1>2. UNCHANGED <<queue_tasks, queue_tasks_deferred, slots, main, cur, pc, received, delivered,
                  overtaken, waiting_task_ids>>
  BY DEF queueVars, readerVars, Send
<1>3. /\ u \in Task /\ k \in ResultKind /\ Res(u, k) \in Result
      /\ Head(ops) = SendOp(u, k) /\ Head(ops).result = Res(u, k)
  BY <1>1, TakeOp, OpForms, ResultForms
<1>4. /\ ops' \in Seq(Op)
      /\ \A e : /\ Occurrences(ops', e) \in Nat
                /\ Occurrences(ops, e) = (IF SendOp(u, k) = e THEN 1 ELSE 0) + Occurrences(ops', e)
  BY <1>1, <1>3, TakeOp
<1>5. /\ u \in waiting_task_ids => queue_results' = Append(queue_results, Res(u, k))
      /\ u \notin waiting_task_ids => queue_results' = queue_results
  BY <1>3 DEF Send
<1> HIDE DEF u, k
<1>6. queue_results \in Seq(Result) /\ n \in Nat
  BY <1>1 DEF TypeOK, ResponseTypeOK
<1>7. /\ queue_results' \in Seq(Result)
      /\ \A e : /\ Occurrences(queue_results', e) \in Nat
                /\ Occurrences(queue_results', e)
                     = Occurrences(queue_results, e)
                       + (IF u \in waiting_task_ids /\ Res(u, k) = e THEN 1 ELSE 0)
  <2>1. \A e : Occurrences(queue_results, e) \in Nat
    BY <1>6, OccurrencesType
  <2>2. CASE u \in waiting_task_ids
    <3>1. /\ Append(queue_results, Res(u, k)) \in Seq(Result)
          /\ \A e : Occurrences(Append(queue_results, Res(u, k)), e)
                      = Occurrences(queue_results, e) + (IF Res(u, k) = e THEN 1 ELSE 0)
      BY <1>3, <1>6, OccurrencesAppend, AppendProperties
    <3>2. queue_results' = Append(queue_results, Res(u, k))
      BY <1>5, <2>2
    <3>3. ASSUME NEW e
          PROVE  Occurrences(queue_results', e) = Occurrences(queue_results, e)
                    + (IF u \in waiting_task_ids /\ Res(u, k) = e THEN 1 ELSE 0)
      BY <2>2, <3>1, <3>2
    <3>4. \A e : Occurrences(queue_results', e) \in Nat
      BY <3>1, <3>2, OccurrencesType
    <3> QED
      BY <3>1, <3>2, <3>3, <3>4
  <2>3. CASE u \notin waiting_task_ids
    BY <1>5, <1>6, <2>1, <2>3
  <2> QED
    BY <2>2, <2>3
<1>8. TypeOK'
  BY <1>1, <1>2, <1>4, <1>7 DEF TypeOK, QueueTypeOK, ResponseTypeOK
<1>9. Counts /\ Counts'
  BY <1>1, <1>8, CountsType, CountsTypeNext
<1>10. /\ \A t : Hand(t)' = Hand(t) /\ OnSlots(t)' = OnSlots(t)
       /\ \A t : CancelPending(t)' = CancelPending(t)
       /\ \A t : Finished(t)' = Finished(t) /\ Ended(t)' = Ended(t)
  <2>1. \A t : Occurrences(ops', DeferOp(t)) = Occurrences(ops, DeferOp(t))
    BY <1>4, Distinct
  <2> QED
    BY <1>2, <2>1 DEF Hand, OnSlots, CancelPending, Finished, Ended
<1>11. ASSUME NEW t \in Task, NEW j PROVE AnswersOf(t, j)' <= AnswersOf(t, j)
  <2>1. Occurrences(ops, SendOp(t, j))
           = (IF u = t /\ k = j THEN 1 ELSE 0) + Occurrences(ops', SendOp(t, j))
    BY <1>4, Distinct
  <2>2. Occurrences(queue_results', Res(t, j))
           = Occurrences(queue_results, Res(t, j))
             + (IF u \in waiting_task_ids /\ u = t /\ k = j THEN 1 ELSE 0)
    BY <1>7, Distinct
  <2>3. /\ Occurrences(ops', SendOp(t, j)) \in Nat
        /\ Occurrences(queue_results, Res(t, j)) \in Nat
        /\ Occurrences(delivered[t], j) \in Nat
    BY <1>4, <1>9 DEF Counts
  <2> QED
    BY <1>2, <2>1, <2>2, <2>3 DEF AnswersOf
\* No answer to u has been given before, and u has been posted.
<1>12. /\ Posted(u)
       /\ \A j \in {"final", "error"} : /\ Occurrences(queue_results, Res(u, j)) = 0
                                        /\ Occurrences(delivered[u], j) = 0
  <2>1. Occurrences(ops, SendOp(u, k)) > 0
    BY <1>4
  <2>2. k = "partial" => OnSlots(u) > 0
    BY <1>1, <1>3, <2>1 DEF ChunksOfRunning
  <2>3. /\ OnSlots(u) + AnswersOf(u, "final") + AnswersOf(u, "error") <= 1
        /\ OnSlots(u) \in Nat
        /\ (OnSlots(u) > 0 \/ AnswersOf(u, "final") > 0 \/ AnswersOf(u, "error") > 0) => Posted(u)
    <3>1. /\ Hand(u) + ParentHand(u) + OnSlots(u) + AnswersOf(u, "final") + AnswersOf(u, "error") <= 1
          /\ Hand(u) \in Nat /\ ParentHand(u) \in Nat /\ OnSlots(u) \in Nat
          /\ AnswersOf(u, "final") \in Nat /\ AnswersOf(u, "error") \in Nat
          /\ (OnSlots(u) > 0 \/ AnswersOf(u, "final") > 0 \/ AnswersOf(u, "error") > 0) => Posted(u)
      BY <1>1, <1>3, <1>9, OneThing
    <3> QED
      BY <3>1
  <2>4. \A j : /\ AnswersOf(u, j) \in Nat
               /\ Occurrences(ops, SendOp(u, j)) \in Nat
               /\ Occurrences(queue_results, Res(u, j)) \in Nat
               /\ Occurrences(delivered[u], j) \in Nat
               /\ AnswersOf(u, j) = Occurrences(ops, SendOp(u, j))
                     + Occurrences(queue_results, Res(u, j)) + Occurrences(delivered[u], j)
    BY <1>3, <1>9 DEF Counts, AnswersOf
  <2>5. CASE k = "partial"
    <3>0. AnswersOf(u, "final") \in Nat /\ AnswersOf(u, "error") \in Nat /\ OnSlots(u) > 0
      BY <2>2, <2>4, <2>5
    <3>1. AnswersOf(u, "final") = 0 /\ AnswersOf(u, "error") = 0
      BY <2>3, <3>0
    <3>2. ASSUME NEW j \in {"final", "error"}
          PROVE  Occurrences(queue_results, Res(u, j)) = 0 /\ Occurrences(delivered[u], j) = 0
      <4>1. AnswersOf(u, j) = 0
        BY <3>1
      <4>2. /\ Occurrences(ops, SendOp(u, j)) \in Nat
            /\ Occurrences(queue_results, Res(u, j)) \in Nat
            /\ Occurrences(delivered[u], j) \in Nat
            /\ AnswersOf(u, j) = Occurrences(ops, SendOp(u, j))
                  + Occurrences(queue_results, Res(u, j)) + Occurrences(delivered[u], j)
        BY <2>4
      <4> QED
        BY <4>1, <4>2
    <3> QED
      BY <2>3, <3>0, <3>2
  <2>6. CASE k \in {"final", "error"}
    <3>0. /\ Occurrences(ops, SendOp(u, k)) \in Nat
          /\ Occurrences(queue_results, Res(u, k)) \in Nat
          /\ Occurrences(delivered[u], k) \in Nat
          /\ AnswersOf(u, k) = Occurrences(ops, SendOp(u, k))
                + Occurrences(queue_results, Res(u, k)) + Occurrences(delivered[u], k)
      BY <2>4
    <3>1. AnswersOf(u, k) > 0
      BY <2>1, <3>0
    <3>2. Posted(u)
      BY <2>3, <2>6, <3>1
    <3>3. ASSUME NEW j \in {"final", "error"}
          PROVE  Occurrences(queue_results, Res(u, j)) = 0 /\ Occurrences(delivered[u], j) = 0
      <4>0. AnswersOf(u, "final") \in Nat /\ AnswersOf(u, "error") \in Nat
        BY <2>4
      <4>1. CASE j = k
        <5>1. AnswersOf(u, k) <= 1
          BY <2>3, <2>6, <4>0
        <5> QED
          BY <2>1, <3>0, <4>1, <5>1
      <4>2. CASE j # k
        <5>1. AnswersOf(u, j) = 0
          BY <2>3, <2>6, <3>1, <4>0, <4>2
        <5>2. /\ Occurrences(ops, SendOp(u, j)) \in Nat
              /\ Occurrences(queue_results, Res(u, j)) \in Nat
              /\ Occurrences(delivered[u], j) \in Nat
              /\ AnswersOf(u, j) = Occurrences(ops, SendOp(u, j))
                    + Occurrences(queue_results, Res(u, j)) + Occurrences(delivered[u], j)
          BY <2>4
        <5> QED
          BY <5>1, <5>2
      <4> QED
        BY <4>1, <4>2
    <3> QED
      BY <3>2, <3>3
  <2> QED
    BY <1>3, <2>5, <2>6 DEF ResultKind
<1>13. Shapes'
  BY <1>1, <1>2 DEF Shapes
<1>14. OneWeight'
  <2>1. ASSUME NEW t \in Task PROVE Hand(t)' <= Hand(t) /\ Weight(t)' <= Weight(t)
    <3>1. AnswersOf(t, "final")' <= AnswersOf(t, "final") /\ AnswersOf(t, "error")' <= AnswersOf(t, "error")
      BY <1>11
    <3>2. OnSlots(t)' + AnswersOf(t, "final")' + AnswersOf(t, "error")'
              <= OnSlots(t) + AnswersOf(t, "final") + AnswersOf(t, "error")
      BY <1>9, <1>10, <3>1 DEF Counts
    <3>3. \A x \in Task : Hand(x)' <= Hand(x)
      BY <1>9, <1>10 DEF Counts
    <3> QED
      BY <1>9, <3>2, <3>3, WeightFalls
  <2> QED
    BY <1>1, <1>2, <1>9, <2>1, OneWeightKept
<1>15. ChunksOfRunning'
  <2>1. ASSUME NEW t \in Task, Occurrences(ops', SendOp(t, "partial")) > 0
        PROVE  Occurrences(ops, SendOp(t, "partial")) > 0
    <3>1. Occurrences(ops', SendOp(t, "partial")) \in Nat
      BY <1>4
    <3> QED
      BY <1>4, <2>1, <3>1
  <2> QED
    BY <1>1, <1>10, <2>1 DEF ChunksOfRunning
<1>16. AnswerIsLast'
  <2>1. CASE u \notin waiting_task_ids
    BY <1>1, <1>5, <1>10, <2>1 DEF AnswerIsLast
  <2>2. CASE u \in waiting_task_ids
    <3>1. /\ Len(queue_results') = n + 1
          /\ \A i \in 1 .. n : queue_results'[i] = queue_results[i]
          /\ queue_results'[n + 1] = Res(u, k)
      BY <1>3, <1>5, <1>6, <2>2, AppendProperties
    <3>2. \A i \in 1 .. n : queue_results[i].id = u => queue_results[i].kind = "partial"
      <4>1. ASSUME NEW i \in 1 .. n, queue_results[i].id = u PROVE queue_results[i].kind = "partial"
        <5>1. queue_results[i] = Res(u, queue_results[i].kind) /\ queue_results[i].kind \in ResultKind
          BY <1>6, <4>1, ResultForms
        <5>2. Occurrences(queue_results, Res(u, queue_results[i].kind)) # 0
          BY <1>6, <5>1, OccurrencesMeaning
        <5> QED
          BY <1>12, <5>1, <5>2 DEF ResultKind
      <4> QED
        BY <4>1
    <3>3. ~Ended(u)
      BY <1>12 DEF Ended, Finished
    <3>4. Res(u, k).id = u
      BY DEF Res
    <3>5. ASSUME NEW i \in 1 .. n + 1, NEW j \in 1 .. n + 1, i < j,
                 queue_results'[i].id = queue_results'[j].id
          PROVE  queue_results'[i].kind = "partial"
      <4>1. i \in 1 .. n
        BY <1>6, <3>5
      <4>2. CASE j \in 1 .. n
        BY <1>1, <3>1, <3>5, <4>1, <4>2 DEF AnswerIsLast
      <4>3. CASE j = n + 1
        BY <3>1, <3>2, <3>4, <3>5, <4>1, <4>3
      <4> QED
        BY <1>6, <4>2, <4>3
    <3>6. ASSUME NEW i \in 1 .. n + 1 PROVE ~Ended(queue_results'[i].id)
      <4>1. CASE i \in 1 .. n
        BY <1>1, <3>1, <4>1 DEF AnswerIsLast
      <4>2. CASE i = n + 1
        BY <3>1, <3>3, <3>4, <4>2
      <4> QED
        BY <1>6, <4>1, <4>2
    <3> QED
      BY <1>10, <3>1, <3>5, <3>6 DEF AnswerIsLast
  <2> QED
    BY <2>1, <2>2
<1>17. ReadersCount' /\ IdsAreWaiting'
  BY <1>1, <1>2 DEF ReadersCount, IdsAreWaiting, HasNext, Finished
<1>18. ResultsAreRead'
  <2>1. CASE u \notin waiting_task_ids
    BY <1>1, <1>2, <1>5, <2>1 DEF ResultsAreRead, HasNext
  <2>2. CASE u \in waiting_task_ids
    <3>1. PICK r \in Request : u \in IdsOf(r) /\ pc[r] \in {"registered", "waiting", "stopping"}
      BY <1>1, <1>3, <2>2 DEF IdsAreWaiting
    <3>2. pc[r] # "registered"
      BY <1>12, <3>1, OneOwner DEF Posted
    <3>3. pc[r] = "stopping" => HasNext(r)
      <4>1. ~HasNext(r) => Finished(u)
        BY <1>1, <3>1, AllFinished
      <4>2. ~Finished(u)
        BY <1>12 DEF Finished
      <4> QED
        BY <4>1, <4>2
    <3>4. /\ Len(queue_results') = n + 1
          /\ \A i \in 1 .. n : queue_results'[i] = queue_results[i]
          /\ queue_results'[n + 1] = Res(u, k) /\ Res(u, k).id = u
      BY <1>3, <1>5, <1>6, <2>2, AppendProperties DEF Res
    <3>5. ASSUME NEW i \in 1 .. n + 1
          PROVE  \E q \in Request : /\ queue_results'[i].id \in IdsOf(q)
                                    /\ pc[q] = "waiting" \/ (pc[q] = "stopping" /\ HasNext(q))
      <4>1. CASE i \in 1 .. n
        BY <1>1, <3>4, <4>1 DEF ResultsAreRead
      <4>2. CASE i = n + 1
        BY <3>1, <3>2, <3>3, <3>4, <4>2
      <4> QED
        BY <1>6, <4>1, <4>2
    <3> QED
      BY <1>2, <3>4, <3>5 DEF ResultsAreRead, HasNext
  <2> QED
    BY <2>1, <2>2
<1>19. GoneIsCancelled'
  BY <1>1, <1>2, <1>10 DEF GoneIsCancelled
<1>20. ChildrenAreRescued'
  <2>1. ASSUME NEW r \in Request, pc[r] = "waiting", ErrorComing(r) PROVE ErrorComing(r)'
    <3>1. PICK t \in IdsOf(r) : \/ Occurrences(queue_results, Res(t, "error")) > 0
                                \/ Occurrences(ops, SendOp(t, "error")) > 0
      BY <2>1 DEF ErrorComing
    <3>2. t \in Task /\ t \in waiting_task_ids
      BY <1>1, <2>1, Ids DEF IdsAreWaiting
    <3>3. Occurrences(queue_results, Res(t, "error")) > 0 => Occurrences(queue_results', Res(t, "error")) > 0
      BY <1>7, <1>9 DEF Counts
    <3>4. CASE Occurrences(ops', SendOp(t, "error")) > 0
      BY <3>4 DEF ErrorComing
    <3>5. CASE Occurrences(ops, SendOp(t, "error")) > 0 /\ ~(Occurrences(ops', SendOp(t, "error")) > 0)
      <4>1. u = t /\ k = "error"
        BY <1>4, <3>5, Distinct
      <4>2. u \in waiting_task_ids
        BY <3>2, <4>1
      <4>3. /\ Occurrences(queue_results, Res(t, "error")) \in Nat
            /\ Occurrences(queue_results', Res(t, "error")) = Occurrences(queue_results, Res(t, "error")) + 1
        BY <1>7, <1>9, <4>1, <4>2 DEF Counts
      <4>4. Occurrences(queue_results', Res(t, "error")) > 0
        BY <4>3
      <4> QED
        BY <4>4 DEF ErrorComing
    <3> QED
      BY <3>1, <3>3, <3>4, <3>5 DEF ErrorComing
  <2>2. ASSUME NEW t, NEW r \in Request, Rescue(t, r) PROVE Rescue(t, r)'
    BY <1>2, <1>10, <2>1, <2>2 DEF Rescue
  <2> QED
    BY <1>1, <1>2, <2>2 DEF ChildrenAreRescued
<1> QED
  BY <1>8, <1>13, <1>14, <1>15, <1>16, <1>17, <1>18, <1>19, <1>20 DEF Inv

\* Every call of process_single_task and update_slots on the shared structures keeps the
\* invariant.
LEMMA ExecOpInv ==
    ASSUME Inv, ExecOp
    PROVE  Inv'
<1>1. /\ ops # <<>> /\ ops' = Tail(ops)
      /\ UNCHANGED <<slots, main, cur, readerVars>>
  BY DEF ExecOp
<1>2. CASE Head(ops).op = "next" /\ Post(<<NextEntry>>, FALSE) /\ UNCHANGED responseVars
  BY <1>1, <1>2, ExecNextInv
<1>3. CASE Head(ops).op = "defer" /\ Defer(TaskEntry(Head(ops).task)) /\ UNCHANGED responseVars
  BY <1>1, <1>3, ExecDeferInv
<1>4. CASE Head(ops).op = "popdef" /\ PopDeferredTask(Head(ops).slot) /\ UNCHANGED responseVars
  BY <1>1, <1>4, ExecPopDeferredInv
<1>5. CASE Head(ops).op = "send" /\ Send(Head(ops).result) /\ UNCHANGED queueVars
  BY <1>1, <1>5, ExecSendInv
<1> QED
  BY <1>2, <1>3, <1>4, <1>5 DEF ExecOp

\* The end of the wait in start_loop keeps the invariant.
LEMMA LoopWakeInv ==
    ASSUME Inv, Loop_Wake
    PROVE  Inv'
<1>1. TypeOK /\ Shapes
  BY DEF Inv
<1>2. /\ main = "wait" /\ main' = "pop"
      /\ UNCHANGED <<queue_tasks, queue_tasks_deferred, waiting_task_ids, queue_results,
                     slots, cur, ops, pc, received, delivered, overtaken>>
  BY DEF Loop_Wake, queueVars, responseVars, readerVars
<1>3. TypeOK'
  BY <1>1, <1>2 DEF TypeOK, QueueTypeOK, ResponseTypeOK
<1>4. Shapes'
  BY <1>1, <1>2 DEF Shapes
<1>5. Counts
  BY <1>1, CountsType
<1>6. \A t \in Task : Hand(t)' <= Hand(t) /\ (CancelPending(t)' <=> CancelPending(t))
  BY <1>2, <1>5 DEF Hand, CancelPending, Counts
<1> QED
  BY <1>2, <1>3, <1>4, <1>6, MovesInv

\* The head of the queue comes into the loop's hands.
LEMMA LoopTakeInv ==
    ASSUME Inv, main = "pop", TakeFront, cur' = Head(queue_tasks), main' = "process",
           UNCHANGED <<responseVars, slots, ops, readerVars>>
    PROVE  Inv'
<1>1. TypeOK /\ Shapes
  BY DEF Inv
<1>2. UNCHANGED <<queue_tasks_deferred, waiting_task_ids, queue_results, slots, ops,
                  pc, received, delivered, overtaken>>
  BY DEF TakeFront, responseVars, readerVars
<1>3. queue_tasks \in Seq(Entry) /\ queue_tasks # <<>> /\ queue_tasks' = Tail(queue_tasks)
  BY <1>1 DEF TakeFront, TypeOK, QueueTypeOK
<1>4. /\ cur' \in Entry /\ queue_tasks' \in Seq(Entry)
      /\ \A e : /\ Occurrences(queue_tasks', e) \in Nat
                /\ Occurrences(queue_tasks, e)
                     = (IF cur' = e THEN 1 ELSE 0) + Occurrences(queue_tasks', e)
  <2>1. Head(queue_tasks) \in Entry /\ Tail(queue_tasks) \in Seq(Entry)
    BY <1>3, HeadTailProperties
  <2>2. \A e : Occurrences(Tail(queue_tasks), e) \in Nat
    BY <2>1, OccurrencesType
  <2>3. \A e : Occurrences(queue_tasks, e)
                 = (IF Head(queue_tasks) = e THEN 1 ELSE 0) + Occurrences(Tail(queue_tasks), e)
    BY <1>3, OccurrencesTail
  <2> QED
    BY <1>3, <2>1, <2>2, <2>3
<1>5. \A t : cur # TaskEntry(t) /\ cur # CancelEntry(t)
  BY <1>1, Distinct DEF Shapes
<1>6. TypeOK'
  BY <1>1, <1>2, <1>4 DEF TypeOK, QueueTypeOK, ResponseTypeOK
<1>7. Shapes'
  <2>1. ASSUME NEW e \in {TaskEntry(NoTask), CancelEntry(NoTask)}
        PROVE  Occurrences(queue_tasks', e) = 0 /\ cur' # e
    <3>1. Occurrences(queue_tasks, e) = 0
      BY <1>1 DEF Shapes
    <3> QED
      BY <1>4, <3>1
  <2> QED
    BY <1>1, <1>2, <2>1 DEF Shapes
<1>8. Counts
  BY <1>1, CountsType
<1>9. ASSUME NEW t \in Task PROVE Hand(t)' <= Hand(t) /\ (CancelPending(t)' <=> CancelPending(t))
  <2>1. /\ Occurrences(queue_tasks', TaskEntry(t)) \in Nat
        /\ Occurrences(queue_tasks_deferred, TaskEntry(t)) \in Nat
        /\ Occurrences(ops, DeferOp(t)) \in Nat
    BY <1>4, <1>8 DEF Counts
  <2>2. Occurrences(queue_tasks, TaskEntry(t))
           = (IF cur' = TaskEntry(t) THEN 1 ELSE 0) + Occurrences(queue_tasks', TaskEntry(t))
    BY <1>4
  <2>3. Hand(t)' <= Hand(t)
    BY <1>2, <1>5, <2>1, <2>2 DEF Hand
  <2>4. CancelPending(t)' <=> CancelPending(t)
    <3>1. /\ Occurrences(queue_tasks', CancelEntry(t)) \in Nat
          /\ Occurrences(queue_tasks, CancelEntry(t))
               = (IF cur' = CancelEntry(t) THEN 1 ELSE 0) + Occurrences(queue_tasks', CancelEntry(t))
      BY <1>4
    <3> QED
      BY <1>5, <3>1 DEF CancelPending
  <2> QED
    BY <2>3, <2>4
<1> QED
  BY <1>2, <1>6, <1>7, <1>9, MovesInv

\* start_loop taking a task, or going on to update the slots, keeps the invariant.
LEMMA LoopPopInv ==
    ASSUME Inv, Loop_Pop
    PROVE  Inv'
<1>1. CASE TakeFront /\ cur' = Head(queue_tasks) /\ main' = "process"
  BY <1>1, LoopTakeInv DEF Loop_Pop
<1>2. CASE main' = "update" /\ UNCHANGED <<queueVars, cur>>
  <2>1. TypeOK /\ Shapes
    BY DEF Inv
  <2>2. /\ main = "pop" /\ main' = "update"
        /\ UNCHANGED <<queue_tasks, queue_tasks_deferred, waiting_task_ids, queue_results,
                       slots, cur, ops, pc, received, delivered, overtaken>>
    BY <1>2 DEF Loop_Pop, queueVars, responseVars, readerVars
  <2>3. TypeOK'
    BY <2>1, <2>2 DEF TypeOK, QueueTypeOK, ResponseTypeOK
  <2>4. Shapes'
    BY <2>1, <2>2 DEF Shapes
  <2>5. Counts
    BY <2>1, CountsType
  <2>6. \A t \in Task : Hand(t)' <= Hand(t) /\ (CancelPending(t)' <=> CancelPending(t))
    BY <2>2, <2>5 DEF Hand, CancelPending, Counts
  <2> QED
    BY <2>2, <2>3, <2>4, <2>6, MovesInv
<1> QED
  BY <1>1, <1>2 DEF Loop_Pop

\* What every branch of process_single_task does to the loop's own state.
Processes ==
    /\ main = "process" /\ ops = <<>>
    /\ main' = "pop" /\ cur' = NextEntry
    /\ UNCHANGED <<queueVars, responseVars, readerVars>>

\* What every case of process_single_task has in common: it hands cur over to ops and
\* leaves what is shared.
LEMMA ProcessCounts ==
    ASSUME Inv, Processes, ops' \in Seq(Op)
    PROVE  /\ UNCHANGED <<queue_tasks, queue_tasks_deferred, waiting_task_ids, queue_results,
                          pc, received, delivered, overtaken>>
           /\ slots' \in [Slot -> [task : Task \cup {NoTask}, state : SlotState,
                                   left : 0 .. (NPrompt + NPredict)]] => TypeOK'
           /\ \A e : Occurrences(ops, e) = 0
           /\ \A t : /\ CancelPending(t)' => CancelPending(t)
                     /\ CancelPending(t) /\ cur # CancelEntry(t) => CancelPending(t)'
           /\ \A t : Hand(t)' + (IF cur = TaskEntry(t) THEN 1 ELSE 0)
                        = Hand(t) + Occurrences(ops', DeferOp(t))
           /\ /\ \A s \in Slot : slots'[s].task = NoTask <=> slots'[s].state = "IDLE"
              /\ \A s \in Slot : slots'[s].state # "IDLE" => slots'[s].left > 0
              /\ \A s \in Slot : slots'[s].state = "WAIT_OTHER" => IsChild(slots'[s].task)
              => Shapes'
<1>1. TypeOK /\ Shapes
  BY DEF Inv
<1>2. UNCHANGED <<queue_tasks, queue_tasks_deferred, waiting_task_ids, queue_results,
                  pc, received, delivered, overtaken>>
  BY DEF Processes, queueVars, responseVars, readerVars
<1>3. slots' \in [Slot -> [task : Task \cup {NoTask}, state : SlotState,
                           left : 0 .. (NPrompt + NPredict)]] => TypeOK'
  BY <1>1, <1>2, EntryTypes DEF Processes, TypeOK, QueueTypeOK, ResponseTypeOK
<1>4. \A e : Occurrences(ops, e) = 0
  BY OccurrencesEmpty DEF Processes
<1>5. \A t : cur' # TaskEntry(t) /\ cur' # CancelEntry(t)
  BY Distinct DEF Processes
<1>6. \A t : /\ CancelPending(t)' => CancelPending(t)
             /\ CancelPending(t) /\ cur # CancelEntry(t) => CancelPending(t)'
  BY <1>2, <1>5 DEF CancelPending
<1>7. ASSUME NEW t
      PROVE  Hand(t)' + (IF cur = TaskEntry(t) THEN 1 ELSE 0) = Hand(t) + Occurrences(ops', DeferOp(t))
  <2>1. /\ Occurrences(queue_tasks, TaskEntry(t)) \in Nat
        /\ Occurrences(queue_tasks_deferred, TaskEntry(t)) \in Nat
        /\ Occurrences(ops', DeferOp(t)) \in Nat
        /\ Occurrences(ops, DeferOp(t)) = 0
    BY <1>1, <1>4, CountsType, OccurrencesType DEF Counts
  <2>2. Hand(t)' = Occurrences(queue_tasks, TaskEntry(t)) + Occurrences(queue_tasks_deferred, TaskEntry(t))
                   + 0 + Occurrences(ops', DeferOp(t))
    BY <1>2, <1>5 DEF Hand
  <2> QED
    BY <2>1, <2>2 DEF Hand
<1>8. /\ \A s \in Slot : slots'[s].task = NoTask <=> slots'[s].state = "IDLE"
      /\ \A s \in Slot : slots'[s].state # "IDLE" => slots'[s].left > 0
      /\ \A s \in Slot : slots'[s].state = "WAIT_OTHER" => IsChild(slots'[s].task)
      => Shapes'
  BY <1>1, <1>2, <1>5 DEF Shapes, Processes
<1> QED
  BY <1>2, <1>3, <1>4, <1>6, <1>7, <1>8

\* NEXT_RESPONSE does nothing; a task that cannot have its slot is to be deferred.
LEMMA ProcessMovesInv ==
    ASSUME Inv, Processes, UNCHANGED slots,
           \/ cur.type = "next" /\ ops' = ops
           \/ cur.type = "task" /\ ops' = <<DeferOp(cur.id)>>
    PROVE  Inv'
<1>1. TypeOK /\ Shapes
  BY DEF Inv
<1>2. /\ cur \in Entry /\ ops = <<>>
      /\ \A t : cur # CancelEntry(t)
  BY <1>1 DEF TypeOK, Processes, CancelEntry
<1>3. /\ ops' \in Seq(Op)
      /\ \A t, k : Occurrences(ops', SendOp(t, k)) = 0
      /\ \A t : Occurrences(ops', DeferOp(t)) = IF cur = TaskEntry(t) THEN 1 ELSE 0
  <2>1. CASE cur.type = "next" /\ ops' = ops
    <3>1. \A t : cur # TaskEntry(t)
      BY <2>1 DEF TaskEntry
    <3> QED
      BY <1>2, <2>1, <3>1, OccurrencesEmpty
  <2>2. CASE cur.type = "task" /\ ops' = <<DeferOp(cur.id)>>
    <3>1. cur = TaskEntry(cur.id) /\ cur.id \in Task
      <4>1. cur = TaskEntry(cur.id) /\ cur.id \in Task \cup {NoTask}
        BY <1>2, <2>2, EntryForms
      <4>2. cur # TaskEntry(NoTask)
        BY <1>1 DEF Shapes
      <4> QED
        BY <4>1, <4>2
    <3>2. DeferOp(cur.id) \in Op /\ ops' \in Seq(Op)
      BY <2>2, <3>1, EntryTypes
    <3>3. \A e : Occurrences(ops', e) = IF DeferOp(cur.id) = e THEN 1 ELSE 0
      BY <2>2, OccurrencesSingleton
    <3>4. \A t, k : Occurrences(ops', SendOp(t, k)) = 0
      BY <3>3, Distinct
    <3>5. ASSUME NEW t PROVE Occurrences(ops', DeferOp(t)) = IF cur = TaskEntry(t) THEN 1 ELSE 0
      <4>1. DeferOp(cur.id) = DeferOp(t) <=> cur = TaskEntry(t)
        BY <3>1, Distinct
      <4> QED
        BY <3>3, <4>1
    <3> QED
      BY <3>2, <3>4, <3>5
  <2> QED
    BY <2>1, <2>2
<1>4. /\ UNCHANGED <<waiting_task_ids, queue_results, pc, received, delivered, overtaken>>
      /\ TypeOK' /\ Shapes'
      /\ \A t, k : Occurrences(ops', SendOp(t, k)) = Occurrences(ops, SendOp(t, k))
      /\ \A t : CancelPending(t)' <=> CancelPending(t)
      /\ \A t : Hand(t)' + (IF cur = TaskEntry(t) THEN 1 ELSE 0)
                   = Hand(t) + (IF cur = TaskEntry(t) THEN 1 ELSE 0)
  <2>1. slots' \in [Slot -> [task : Task \cup {NoTask}, state : SlotState,
                             left : 0 .. (NPrompt + NPredict)]]
    BY <1>1 DEF TypeOK
  <2>2. TypeOK'
    BY <1>3, <2>1, ProcessCounts
  <2>3. Shapes'
    <3>1. /\ \A s \in Slot : slots'[s].task = NoTask <=> slots'[s].state = "IDLE"
          /\ \A s \in Slot : slots'[s].state # "IDLE" => slots'[s].left > 0
          /\ \A s \in Slot : slots'[s].state = "WAIT_OTHER" => IsChild(slots'[s].task)
      BY <1>1 DEF Shapes
    <3> QED
      BY <1>3, <3>1, ProcessCounts
  <2>4. /\ UNCHANGED <<waiting_task_ids, queue_results, pc, received, delivered, overtaken>>
        /\ \A t, k : Occurrences(ops', SendOp(t, k)) = Occurrences(ops, SendOp(t, k))
    BY <1>3, ProcessCounts
  <2>5. \A t : CancelPending(t)' <=> CancelPending(t)
    BY <1>2, <1>3, ProcessCounts
  <2>6. \A t : Hand(t)' + (IF cur = TaskEntry(t) THEN 1 ELSE 0)
                   = Hand(t) + Occurrences(ops', DeferOp(t))
    BY <1>3, ProcessCounts
  <2> QED
    BY <1>3, <2>2, <2>3, <2>4, <2>5, <2>6
<1>5. \A t \in Task : Hand(t)' <= Hand(t)
  <2>1. \A t \in Task : Hand(t) \in Nat /\ Hand(t)' \in Nat
    BY <1>1, <1>4, CountsType, CountsTypeNext DEF Counts
  <2> QED
    BY <1>4, <2>1
<1> QED
  BY <1>4, <1>5, MovesInv

\* CANCEL: afterwards no slot runs the task.  A child whose parent is cancelled has
\* its own CANCEL on the way, or its parent was overtaken.
LEMMA CancelInv ==
    ASSUME Inv, Processes, cur.type = "cancel", Cancel(cur.id)
    PROVE  Inv'
<1>0. PICK u : u = cur.id
  OBVIOUS
<1>1. TypeOK /\ Shapes /\ OneWeight /\ GoneIsCancelled /\ ChildrenAreRescued
  BY DEF Inv
<1>2. /\ cur = CancelEntry(u) /\ u \in Task
      /\ \A t : cur # TaskEntry(t)
      /\ \A t : cur = CancelEntry(t) <=> t = u
  <2>1. cur \in Entry
    BY <1>1 DEF TypeOK
  <2>2. cur = CancelEntry(u) /\ u \in Task \cup {NoTask}
    BY <1>0, <2>1, EntryForms
  <2>3. cur # CancelEntry(NoTask)
    BY <1>1 DEF Shapes
  <2> QED
    BY <2>2, <2>3, Distinct
<1>3. Counts
  BY <1>1, CountsType
<1>4. /\ ops' \in Seq(Op)
      /\ \A t : Occurrences(ops', DeferOp(t)) = 0
      /\ \A t, k : Occurrences(ops', SendOp(t, k)) = 0
      /\ slots' \in [Slot -> [task : Task \cup {NoTask}, state : SlotState,
                              left : 0 .. (NPrompt + NPredict)]]
      /\ \A x \in Slot : slots'[x] = IF slots[x].task = u THEN IdleSlot ELSE slots[x]
  <2>1. CASE \E s \in Slot : slots[s].task = u
    <3>1. PICK s \in Slot : /\ slots[s].task = u
                            /\ slots' = [slots EXCEPT ![s] = IdleSlot]
                            /\ ops' = <<PopDeferOp(s)>>
      BY <1>0, <2>1 DEF Cancel
    <3>2. OnSlots(u) <= 1
      BY <1>1, <1>2, <1>3, OneThing
    <3>3. \A x \in Slot : slots[x].task = u => x = s
      BY <3>1, <3>2, OnSlotsMeaning
    <3>4. \A e : Occurrences(ops', e) = IF PopDeferOp(s) = e THEN 1 ELSE 0
      BY <3>1, OccurrencesSingleton
    <3>5. ops' \in Seq(Op)
      BY <3>1, EntryTypes
    <3>6. IdleSlot \in [task : Task \cup {NoTask}, state : SlotState, left : 0 .. (NPrompt + NPredict)]
      BY RequestAssumption DEF IdleSlot, SlotState
    <3>7. slots \in [Slot -> [task : Task \cup {NoTask}, state : SlotState,
                              left : 0 .. (NPrompt + NPredict)]]
      BY <1>1 DEF TypeOK
    <3>8. \A t : Occurrences(ops', DeferOp(t)) = 0
      BY <3>4, Distinct
    <3>9. \A t, k : Occurrences(ops', SendOp(t, k)) = 0
      BY <3>4, Distinct
    <3> QED
      BY <3>1, <3>3, <3>5, <3>6, <3>7, <3>8, <3>9
  <2>2. CASE ~ \E s \in Slot : slots[s].task = u
    BY <1>0, <1>1, <2>2, OccurrencesEmpty DEF Cancel, TypeOK
  <2> QED
    BY <2>1, <2>2
<1>5. /\ UNCHANGED <<waiting_task_ids, queue_results, pc, received, delivered, overtaken>>
      /\ TypeOK' /\ Shapes'
  <2>1. UNCHANGED <<waiting_task_ids, queue_results, pc, received, delivered, overtaken>> /\ TypeOK'
    BY <1>4, ProcessCounts
  <2>2. /\ \A s \in Slot : slots'[s].task = NoTask <=> slots'[s].state = "IDLE"
        /\ \A s \in Slot : slots'[s].state # "IDLE" => slots'[s].left > 0
        /\ \A s \in Slot : slots'[s].state = "WAIT_OTHER" => IsChild(slots'[s].task)
    BY <1>1, <1>4 DEF Shapes, IdleSlot
  <2>3. Shapes'
    BY <1>4, <2>2, ProcessCounts
  <2> QED
    BY <2>1, <2>3
<1>6. /\ \A t : Hand(t)' + 0 = Hand(t) + 0
      /\ \A t : CancelPending(t)' => CancelPending(t)
      /\ \A t : CancelPending(t) /\ t # u => CancelPending(t)'
      /\ \A t, k : Occurrences(ops, SendOp(t, k)) = 0
  <2>1. \A t : Hand(t)' + (IF cur = TaskEntry(t) THEN 1 ELSE 0)
                  = Hand(t) + Occurrences(ops', DeferOp(t))
    BY <1>4, ProcessCounts
  <2>2. /\ \A t : CancelPending(t)' => CancelPending(t)
        /\ \A t : CancelPending(t) /\ cur # CancelEntry(t) => CancelPending(t)'
        /\ \A t, k : Occurrences(ops, SendOp(t, k)) = 0
    BY <1>4, ProcessCounts
  <2> QED
    BY <1>2, <1>4, <2>1, <2>2
<1>7. Counts'
  BY <1>5, CountsTypeNext
<1>8. \A t \in Task : Hand(t)' = Hand(t) /\ Hand(t) \in Nat
  BY <1>3, <1>6, <1>7 DEF Counts
<1>9. ASSUME NEW t \in Task PROVE OnSlots(t)' <= OnSlots(t) /\ OnSlots(t)' \in Nat /\ OnSlots(t) \in Nat
  <2>1. IdleSlot.task # t
    BY TaskAssumption DEF IdleSlot
  <2>2. \A s \in Slot : slots'[s].task = t => slots[s].task = t
    BY <1>4, <2>1
  <2> QED
    BY <1>3, <1>7, <2>2, OnSlotsFalls DEF Counts
<1>10. ASSUME NEW t \in Task PROVE Weight(t)' <= Weight(t)
  <2>1. \A j : AnswersOf(t, j)' = AnswersOf(t, j)
    BY <1>4, <1>5, <1>6 DEF AnswersOf
  <2>2. AnswersOf(t, "final") \in Nat /\ AnswersOf(t, "error") \in Nat
    BY <1>3 DEF Counts
  <2>3. OnSlots(t)' + AnswersOf(t, "final")' + AnswersOf(t, "error")'
              <= OnSlots(t) + AnswersOf(t, "final") + AnswersOf(t, "error")
    BY <1>9, <2>1, <2>2
  <2>4. \A x \in Task : Hand(x)' <= Hand(x)
    BY <1>8
  <2> QED
    BY <1>3, <1>7, <2>3, <2>4, WeightFalls
<1>11. OnSlots(u)' = 0
  <2>1. IdleSlot.task # u
    BY <1>2, TaskAssumption DEF IdleSlot
  <2>2. \A s \in Slot : slots'[s].task # u
    BY <1>4, <2>1
  <2> QED
    BY <2>2, OnSlotsMeaningNext
<1>12. ChildrenAreRescued'
  <2> SUFFICES ASSUME NEW c PROVE ChildIsRescued(c)'
    BY ChildByChildNext
  <2> SUFFICES ASSUME NEW s \in Slot, slots'[s].state = "WAIT_OTHER", slots'[s].task = c
               PROVE  \/ \E p \in Slot : slots'[p].state = "PROMPT" /\ slots'[p].task = ParentOf(c)
                      \/ \A r \in Request : c \in IdsOf(r) => Rescue(c, r)'
    BY DEF ChildIsRescued
  <2>0. c = slots[s].task
    BY <1>4 DEF IdleSlot
  <2>1. slots'[s] = slots[s] /\ c # u
    BY <1>4, <2>0 DEF IdleSlot
  <2>2. IsChild(c) /\ slots[s].state = "WAIT_OTHER"
    BY <1>1, <2>0, <2>1 DEF Shapes
  <2>3. ASSUME NEW r \in Request, Rescue(c, r) PROVE Rescue(c, r)'
    <3>1. ErrorComing(r) => ErrorComing(r)'
      BY <1>4, <1>5, <1>6 DEF ErrorComing
    <3>2. CancelPending(c) => CancelPending(c)'
      BY <1>6, <2>1
    <3> QED
      BY <1>5, <2>3, <3>1, <3>2 DEF Rescue
  <2>4. CASE \A r \in Request : c \in IdsOf(r) => Rescue(c, r)
    BY <2>1, <2>3, <2>4
  <2>5. ASSUME NEW p \in Slot, slots[p].state = "PROMPT", slots[p].task = ParentOf(c)
        PROVE  \/ slots'[p].state = "PROMPT" /\ slots'[p].task = ParentOf(c)
               \/ \A r \in Request : c \in IdsOf(r) => Rescue(c, r)'
    <3>1. CASE ParentOf(c) # u
      BY <1>4, <2>5, <3>1
    <3>2. ASSUME ParentOf(c) = u, NEW r \in Request, c \in IdsOf(r) PROVE Rescue(c, r)'
      <4>1. u \in IdsOf(r) /\ c \in Task
        BY <2>2, <3>2, Ids
      <4>2. CancelPending(u)
        BY <1>2 DEF CancelPending
      <4>3. pc[r] = "done"
        BY <1>1, <4>1, <4>2 DEF GoneIsCancelled
      <4>4. OnSlots(c) > 0
        BY <2>0, OnSlotsMeaning
      <4>5. CancelPending(c) \/ ParentOf(c) \in overtaken
        BY <1>1, <2>2, <3>2, <4>3, <4>4 DEF GoneIsCancelled
      <4>6. CancelPending(c) => CancelPending(c)'
        BY <1>6, <2>1
      <4> QED
        BY <1>5, <4>5, <4>6 DEF Rescue
    <3> QED
      BY <3>1, <3>2
  <2> QED
    BY <1>1, <2>0, <2>1, <2>2, <2>4, <2>5 DEF ChildrenAreRescued
<1>13. ASSUME NEW t \in Task
       PROVE  /\ Hand(t)' <= Hand(t)
              /\ Weight(t)' <= Weight(t)
              /\ Occurrences(ops', SendOp(t, "partial")) > 0 => OnSlots(t)' > 0
              /\ OnSlots(t)' > 0 => OnSlots(t) > 0 \/ Hand(t) > 0 \/ ParentHand(t) > 0
              /\ CancelPending(t)' => CancelPending(t)
              /\ CancelPending(t) /\ OnSlots(t)' > 0 => CancelPending(t)'
  <2>1. Hand(t)' <= Hand(t)
    BY <1>8
  <2>2. ~(Occurrences(ops', SendOp(t, "partial")) > 0)
    BY <1>4
  <2>3. OnSlots(t)' > 0 => OnSlots(t) > 0 /\ t # u
    BY <1>9, <1>11
  <2> QED
    BY <1>6, <1>10, <2>1, <2>2, <2>3
<1> QED
  BY <1>5, <1>12, <1>13, LoopStepInv

\* A task is answered without having run: itself, or for a parent that could not be
\* launched the one that failed.
LEMMA AnsweredInv ==
    ASSUME Inv, Processes, UNCHANGED slots,
           NEW v \in Task, cur = TaskEntry(v),
           NEW u \in Task, u = v \/ (IsChild(u) /\ ParentOf(u) = v),
           NEW k \in {"final", "error"},
           ops' \in Seq(Op),
           \A t : Occurrences(ops', DeferOp(t)) = 0,
           \A t, j : Occurrences(ops', SendOp(t, j)) = IF t = u /\ j = k THEN 1 ELSE 0
    PROVE  Inv'
<1>1. TypeOK /\ Shapes /\ OneWeight /\ ChildrenAreRescued
  BY DEF Inv
<1>2. /\ UNCHANGED <<waiting_task_ids, queue_results, pc, received, delivered, overtaken>>
      /\ TypeOK' /\ Shapes'
  <2>1. slots' \in [Slot -> [task : Task \cup {NoTask}, state : SlotState,
                             left : 0 .. (NPrompt + NPredict)]]
    BY <1>1 DEF TypeOK
  <2>2. /\ \A s \in Slot : slots'[s].task = NoTask <=> slots'[s].state = "IDLE"
        /\ \A s \in Slot : slots'[s].state # "IDLE" => slots'[s].left > 0
        /\ \A s \in Slot : slots'[s].state = "WAIT_OTHER" => IsChild(slots'[s].task)
    BY <1>1 DEF Shapes
  <2> QED
    BY <2>1, <2>2, ProcessCounts
<1>3. Counts /\ Counts'
  BY <1>1, <1>2, CountsType, CountsTypeNext
<1>4. \A t : /\ Hand(t)' + (IF t = v THEN 1 ELSE 0) = Hand(t) + 0
             /\ CancelPending(t)' <=> CancelPending(t)
  <2>1. \A t : (cur = TaskEntry(t) <=> t = v) /\ cur # CancelEntry(t)
    BY Distinct
  <2>2. \A t : Hand(t)' + (IF cur = TaskEntry(t) THEN 1 ELSE 0)
                   = Hand(t) + Occurrences(ops', DeferOp(t))
    BY ProcessCounts
  <2>3. \A t : /\ CancelPending(t)' => CancelPending(t)
               /\ CancelPending(t) /\ cur # CancelEntry(t) => CancelPending(t)'
    BY ProcessCounts
  <2>4. ASSUME NEW t PROVE Hand(t)' + (IF t = v THEN 1 ELSE 0) = Hand(t) + 0
    BY <2>1, <2>2
  <2> QED
    BY <2>1, <2>3, <2>4
<1>5. \A t \in Task : /\ Hand(t) \in Nat /\ Hand(t)' \in Nat
                      /\ Hand(t) = Hand(t)' + (IF t = v THEN 1 ELSE 0)
  <2>1. ASSUME NEW t \in Task PROVE Hand(t) = Hand(t)' + (IF t = v THEN 1 ELSE 0)
    <3>1. Hand(t) \in Nat /\ Hand(t)' \in Nat
      BY <1>3 DEF Counts
    <3>2. Hand(t)' + (IF t = v THEN 1 ELSE 0) = Hand(t) + 0
      BY <1>4
    <3> QED
      BY <3>1, <3>2
  <2> QED
    BY <1>3, <2>1 DEF Counts
<1>6. \A t : OnSlots(t)' = OnSlots(t)
  BY DEF OnSlots
<1>7. \A t, j : Occurrences(ops, SendOp(t, j)) = 0
  BY ProcessCounts
<1>8. ASSUME NEW t \in Task, NEW j
      PROVE  AnswersOf(t, j)' = AnswersOf(t, j) + (IF t = u /\ j = k THEN 1 ELSE 0)
  <2>1. Occurrences(queue_results, Res(t, j)) \in Nat /\ Occurrences(delivered[t], j) \in Nat
    BY <1>3 DEF Counts
  <2>2. AnswersOf(t, j) = 0 + Occurrences(queue_results, Res(t, j)) + Occurrences(delivered[t], j)
    BY <1>7 DEF AnswersOf
  <2>3. AnswersOf(t, j)' = (IF t = u /\ j = k THEN 1 ELSE 0)
           + Occurrences(queue_results, Res(t, j)) + Occurrences(delivered[t], j)
    BY <1>2 DEF AnswersOf
  <2> QED
    BY <2>1, <2>2, <2>3
<1>9. ASSUME NEW t \in Task, t # u PROVE Weight(t)' <= Weight(t)
  <2>1. OnSlots(t)' + AnswersOf(t, "final")' + AnswersOf(t, "error")'
              <= OnSlots(t) + AnswersOf(t, "final") + AnswersOf(t, "error")
    <3>1. /\ AnswersOf(t, "final") \in Nat /\ AnswersOf(t, "error") \in Nat /\ OnSlots(t) \in Nat
      BY <1>3 DEF Counts
    <3>2. /\ AnswersOf(t, "final")' = AnswersOf(t, "final") + 0
          /\ AnswersOf(t, "error")' = AnswersOf(t, "error") + 0
      BY <1>8, <1>9
    <3> QED
      BY <1>6, <3>1, <3>2
  <2>2. \A x \in Task : Hand(x)' <= Hand(x)
    BY <1>5
  <2> QED
    BY <1>3, <2>1, <2>2, WeightFalls
<1>10. Weight(u)' <= Weight(u)
  <2>1. Hand(u)' + ParentHand(u)' + 1 = Hand(u) + ParentHand(u)
    <3>1. ~IsChild(v)
      <4>1. Hand(v) # 0
        BY <1>5
      <4> QED
        BY <1>1, <4>1 DEF OneWeight
    <3>2. CASE u = v
      <4>1. ParentHand(u) = 0 /\ ParentHand(u)' = 0
        BY <3>1, <3>2 DEF ParentHand
      <4>2. Hand(u) = Hand(u)' + 1 /\ Hand(u)' \in Nat
        BY <1>5, <3>2
      <4> QED
        BY <4>1, <4>2
    <3>3. CASE u # v
      <4>1. ParentHand(u) = Hand(v) /\ ParentHand(u)' = Hand(v)'
        BY <3>3 DEF ParentHand
      <4>2. /\ Hand(v) = Hand(v)' + 1 /\ Hand(v)' \in Nat
            /\ Hand(u) = Hand(u)' + 0 /\ Hand(u)' \in Nat
        BY <1>5, <3>3
      <4> QED
        BY <4>1, <4>2
    <3> QED
      BY <3>2, <3>3
  <2>2. AnswersOf(u, "final")' + AnswersOf(u, "error")' = AnswersOf(u, "final") + AnswersOf(u, "error") + 1
    <3>1. AnswersOf(u, "final") \in Nat /\ AnswersOf(u, "error") \in Nat
      BY <1>3 DEF Counts
    <3>2. /\ AnswersOf(u, "final")' = AnswersOf(u, "final") + (IF k = "final" THEN 1 ELSE 0)
          /\ AnswersOf(u, "error")' = AnswersOf(u, "error") + (IF k = "error" THEN 1 ELSE 0)
      BY <1>8
    <3> QED
      BY <3>1, <3>2
  <2>3. /\ Hand(u) \in Nat /\ Hand(u)' \in Nat /\ ParentHand(u) \in Nat /\ ParentHand(u)' \in Nat
        /\ OnSlots(u) \in Nat /\ AnswersOf(u, "final") \in Nat /\ AnswersOf(u, "error") \in Nat
        /\ AnswersOf(u, "final")' \in Nat /\ AnswersOf(u, "error")' \in Nat
    BY <1>3 DEF Counts
  <2>4. Weight(u)' = Hand(u)' + ParentHand(u)' + OnSlots(u) + AnswersOf(u, "final")'
                     + AnswersOf(u, "error")'
    BY <1>6 DEF Weight
  <2>5. Weight(u) = Hand(u) + ParentHand(u) + OnSlots(u) + AnswersOf(u, "final")
                    + AnswersOf(u, "error")
    BY DEF Weight
  <2> QED
    BY ONLY <2>1, <2>2, <2>3, <2>4, <2>5
<1>11. ChildrenAreRescued'
  <2>1. \A t \in Task : CancelPending(t) => CancelPending(t)'
    BY <1>4
  <2>2. \A r \in Request : ErrorComing(r) => ErrorComing(r)'
    <3>1. \A t : ~(Occurrences(ops, SendOp(t, "error")) > 0)
      BY <1>7
    <3> QED
      BY <1>2, <3>1 DEF ErrorComing
  <2>3. UNCHANGED <<slots, pc, overtaken>>
    BY <1>2
  <2> QED
    BY <1>1, <2>1, <2>2, <2>3, RescuedKept
<1>12. ASSUME NEW t \in Task
       PROVE  /\ Hand(t)' <= Hand(t)
              /\ Weight(t)' <= Weight(t)
              /\ Occurrences(ops', SendOp(t, "partial")) > 0 => OnSlots(t)' > 0
              /\ OnSlots(t)' > 0 => OnSlots(t) > 0 \/ Hand(t) > 0 \/ ParentHand(t) > 0
              /\ CancelPending(t)' => CancelPending(t)
              /\ CancelPending(t) /\ OnSlots(t)' > 0 => CancelPending(t)'
  <2>1. Hand(t)' <= Hand(t)
    BY <1>5
  <2>2. Weight(t)' <= Weight(t)
    BY <1>9, <1>10
  <2>3. Occurrences(ops', SendOp(t, "partial")) = 0
    <3>1. "partial" # k
      OBVIOUS
    <3> QED
      BY <3>1
  <2>4. ~(Occurrences(ops', SendOp(t, "partial")) > 0)
    BY <2>3
  <2> QED
    BY <1>4, <1>6, <2>1, <2>2, <2>4
<1> QED
  BY <1>2, <1>11, <1>12, LoopStepInv

\* The slots of the children: as many as children, free, different, none the parent's.
LEMMA Kids ==
    ASSUME NEW v \in Task, NEW s \in Slot, CanLaunch(v, s)
    PROVE  LET kids == FreeSlots(Len(ChildTasks[v]), s)
           IN  /\ kids \in Seq(Slot) /\ Len(kids) = Len(ChildTasks[v])
               /\ \A i \in 1 .. Len(kids) : kids[i] \in Slot /\ kids[i] # s /\ ~IsProcessing(kids[i])
               /\ \A i, j \in 1 .. Len(kids) : kids[i] = kids[j] => i = j
<1> DEFINE F == Free \ {s}
           n == Len(ChildTasks[v])
           ord == InOrder(F)
           kids == SubSeq(ord, 1, n)
<1>1. n \in Nat
  BY Children
<1>2. F \in SUBSET Slot /\ \A x \in F : x # s /\ ~IsProcessing(x)
  BY DEF Free
<1>3. n <= Cardinality(F)
  BY DEF CanLaunch
<1>4. FreeSlots(Len(ChildTasks[v]), s) = kids
  BY DEF FreeSlots
<1> HIDE DEF F, n
<1>5. /\ ord \in Seq(Slot) /\ Len(ord) = Cardinality(F) /\ Len(ord) \in Nat
      /\ \A i \in 1 .. Len(ord) : ord[i] \in F
      /\ \A i, j \in 1 .. Len(ord) : ord[i] = ord[j] => i = j
  BY <1>2, InOrderProperties
<1>6. n <= Len(ord)
  BY <1>3, <1>5
<1> HIDE DEF ord
<1>7. kids \in Seq(Slot) /\ Len(kids) = n /\ \A i \in 1 .. n : kids[i] = ord[i]
  <2>1. \A i \in 1 .. n : ord[i] \in Slot
    BY <1>1, <1>5, <1>6
  <2>2. /\ Len(kids) = IF 1 <= n THEN n - 1 + 1 ELSE 0
        /\ \A i \in 1 .. (n - 1 + 1) : kids[i] = ord[1 + i - 1]
        /\ kids \in Seq(Slot)
    BY <1>1, <1>5, <1>6, SubSeqProperties
  <2> QED
    BY <1>1, <2>2
<1>8. \A i \in 1 .. n : kids[i] = ord[i] /\ ord[i] \in F
  BY <1>1, <1>5, <1>6, <1>7
<1> QED
  BY <1>1, <1>2, <1>4, <1>5, <1>6, <1>7, <1>8 DEF n

\* get_available_slot returns a slot, whatever id is asked for.
LEMMA AvailableAreSlots ==
    ASSUME NEW v \in Task
    PROVE  AvailableSlots(v) \subseteq Slot
<1>1. NSlots \in Nat \ {0} /\ IdSlot[v] \in Int
  BY RequestAssumption, TaskAssumption
<1>2. IdSlot[v] % NSlots \in 0 .. (NSlots - 1)
  BY <1>1
<1> QED
  BY <1>2 DEF AvailableSlots, Slot, Free

\* launch_slot_with_task, launch_slots_with_parent_task: each child gets a slot of its
\* own, and the parent runs.
LEMMA LaunchInv ==
    ASSUME Inv, Processes, NEW v \in Task, cur = TaskEntry(v), Completion_Launch(v)
    PROVE  Inv'
<1>1. TypeOK /\ Shapes /\ OneWeight /\ ChildrenAreRescued
  BY DEF Inv
<1>2. PICK s \in AvailableSlots(v) :
         /\ CanLaunch(v, s)
         /\ LET kids == FreeSlots(Len(ChildTasks[v]), s)
            IN  slots' = [x \in Slot |->
                    IF x = s THEN Launched(v)
                    ELSE IF \E i \in DOMAIN kids : kids[i] = x
                    THEN Launched(ChildTasks[v][CHOOSE i \in DOMAIN kids : kids[i] = x])
                    ELSE slots[x]]
  BY DEF Completion_Launch
<1>3. PICK kids : kids = FreeSlots(Len(ChildTasks[v]), s)
  OBVIOUS
<1>4. PICK n : n = Len(ChildTasks[v])
  OBVIOUS
<1>5. s \in Slot /\ ~IsProcessing(s)
  BY <1>2, AvailableAreSlots DEF CanLaunch
<1>6. /\ n \in Nat /\ DOMAIN kids = 1 .. n
      /\ \A i \in 1 .. n : kids[i] \in Slot /\ kids[i] # s /\ ~IsProcessing(kids[i])
      /\ \A i, j \in 1 .. n : kids[i] = kids[j] => i = j
  BY <1>2, <1>3, <1>4, <1>5, Children, Kids
<1>7. /\ \A i \in 1 .. n : /\ ChildTasks[v][i] \in Task /\ ChildTasks[v][i] \in ToSet(ChildTasks[v])
                           /\ IsChild(ChildTasks[v][i]) /\ ParentOf(ChildTasks[v][i]) = v
                           /\ ChildTasks[v][i] # v
      /\ \A i, j \in 1 .. n : ChildTasks[v][i] = ChildTasks[v][j] => i = j
      /\ \A c : IsChild(c) /\ ParentOf(c) = v /\ c \in Task => \E i \in 1 .. n : ChildTasks[v][i] = c
  <2>1. ChildTasks[v] \in Seq(Task) /\ DOMAIN ChildTasks[v] = 1 .. n /\ IsInjective(ChildTasks[v])
    BY <1>4, RequestAssumption
  <2>2. \A i \in 1 .. n : ChildTasks[v][i] \in ToSet(ChildTasks[v])
    BY <2>1 DEF ToSet
  <2>3. \A i, j \in 1 .. n : ChildTasks[v][i] = ChildTasks[v][j] => i = j
    BY <2>1 DEF IsInjective
  <2>4. \A c : IsChild(c) /\ ParentOf(c) = v /\ c \in Task => c \in ToSet(ChildTasks[v])
    BY Children
  <2>5. \A c \in ToSet(ChildTasks[v]) : \E i \in 1 .. n : ChildTasks[v][i] = c
    BY <2>1 DEF ToSet
  <2> QED
    BY <2>2, <2>3, <2>4, <2>5, Children
<1>8. slots' = [x \in Slot |->
                    IF x = s THEN Launched(v)
                    ELSE IF \E i \in 1 .. n : kids[i] = x
                    THEN Launched(ChildTasks[v][CHOOSE i \in 1 .. n : kids[i] = x])
                    ELSE slots[x]]
  BY <1>2, <1>3, <1>6
<1>9. Counts
  BY <1>1, CountsType
<1>10. \A t : (cur = TaskEntry(t) <=> t = v) /\ cur # CancelEntry(t)
  BY Distinct
<1>11. Hand(v) > 0 /\ ~IsChild(v)
  <2>1. /\ Occurrences(queue_tasks, TaskEntry(v)) \in Nat
        /\ Occurrences(queue_tasks_deferred, TaskEntry(v)) \in Nat
        /\ Occurrences(ops, DeferOp(v)) \in Nat
    BY <1>9 DEF Counts
  <2>2. Hand(v) > 0
    BY <2>1 DEF Hand
  <2> QED
    BY <1>1, <2>2 DEF OneWeight
\* The slots afterwards.
<1>12. /\ slots'[s] = Launched(v)
       /\ \A i \in 1 .. n : slots'[kids[i]] = Launched(ChildTasks[v][i])
       /\ \A x \in Slot : x = s \/ (\E i \in 1 .. n : x = kids[i]) \/ slots'[x] = slots[x]
  <2>1. slots'[s] = Launched(v)
    BY <1>5, <1>8
  <2>2. ASSUME NEW i \in 1 .. n PROVE slots'[kids[i]] = Launched(ChildTasks[v][i])
    <3>1. (CHOOSE j \in 1 .. n : kids[j] = kids[i]) = i
      BY <1>6
    <3> QED
      BY <1>6, <1>8, <3>1
  <2>3. \A x \in Slot : x = s \/ (\E i \in 1 .. n : x = kids[i]) \/ slots'[x] = slots[x]
    BY <1>8
  <2> QED
    BY <2>1, <2>2, <2>3
<1>13. /\ Launched(v).task = v /\ Launched(v).state = "PROMPT" /\ Launched(v).left > 0
       /\ \A i \in 1 .. n : /\ Launched(ChildTasks[v][i]).task = ChildTasks[v][i]
                            /\ Launched(ChildTasks[v][i]).state = "WAIT_OTHER"
                            /\ Launched(ChildTasks[v][i]).left > 0
       /\ \A t \in Task : Launched(t) \in [task : Task \cup {NoTask}, state : SlotState,
                                           left : 0 .. (NPrompt + NPredict)]
  <2>1. NPrompt \in Nat \ {0} /\ NPredict \in Nat \ {0}
    BY RequestAssumption
  <2>2. \A t : Launched(t).left > 0 /\ Launched(t).task = t
    BY <2>1 DEF Launched
  <2> QED
    BY <1>7, <1>11, <2>1, <2>2 DEF Launched, SlotState
<1>14. /\ slots[s].task = NoTask
       /\ \A i \in 1 .. n : slots[kids[i]].task = NoTask
  BY <1>1, <1>5, <1>6 DEF Shapes, IsProcessing
<1>15. ops' \in Seq(Op) /\ \A e : Occurrences(ops', e) = 0
  BY OccurrencesEmpty DEF Completion_Launch
<1>16. slots' \in [Slot -> [task : Task \cup {NoTask}, state : SlotState,
                            left : 0 .. (NPrompt + NPredict)]]
  <2>1. \A x \in Slot : slots'[x] \in [task : Task \cup {NoTask}, state : SlotState,
                                       left : 0 .. (NPrompt + NPredict)]
    <3>1. \A x \in Slot : slots[x] \in [task : Task \cup {NoTask}, state : SlotState,
                                       left : 0 .. (NPrompt + NPredict)]
      BY <1>1 DEF TypeOK
    <3> QED
      BY <1>7, <1>12, <1>13, <3>1
  <2>2. slots' = [x \in Slot |-> slots'[x]]
    BY <1>8
  <2> QED
    BY <2>1, <2>2
<1>17. /\ UNCHANGED <<waiting_task_ids, queue_results, pc, received, delivered, overtaken>>
       /\ TypeOK' /\ Shapes'
  <2>1. /\ \A x \in Slot : slots'[x].task = NoTask <=> slots'[x].state = "IDLE"
        /\ \A x \in Slot : slots'[x].state # "IDLE" => slots'[x].left > 0
        /\ \A x \in Slot : slots'[x].state = "WAIT_OTHER" => IsChild(slots'[x].task)
    <3> SUFFICES ASSUME NEW x \in Slot
                 PROVE  /\ slots'[x].task = NoTask <=> slots'[x].state = "IDLE"
                        /\ slots'[x].state # "IDLE" => slots'[x].left > 0
                        /\ slots'[x].state = "WAIT_OTHER" => IsChild(slots'[x].task)
      OBVIOUS
    <3>1. CASE x = s
      BY <1>12, <1>13, <3>1, TaskAssumption
    <3>2. ASSUME NEW i \in 1 .. n, x = kids[i]
          PROVE  /\ slots'[x].task = NoTask <=> slots'[x].state = "IDLE"
                 /\ slots'[x].state # "IDLE" => slots'[x].left > 0
                 /\ slots'[x].state = "WAIT_OTHER" => IsChild(slots'[x].task)
      BY <1>7, <1>12, <1>13, <3>2, TaskAssumption
    <3>3. CASE slots'[x] = slots[x]
      BY <1>1, <3>3 DEF Shapes
    <3> QED
      BY <1>12, <3>1, <3>2, <3>3
  <2> QED
    BY <1>15, <1>16, <2>1, ProcessCounts
<1>18. Counts'
  BY <1>17, CountsTypeNext
<1>19. \A t \in Task : /\ Hand(t) \in Nat /\ Hand(t)' \in Nat
                       /\ Hand(t) = Hand(t)' + (IF t = v THEN 1 ELSE 0)
  <2>1. ASSUME NEW t \in Task PROVE Hand(t) = Hand(t)' + (IF t = v THEN 1 ELSE 0)
    <3>1. Hand(t) \in Nat /\ Hand(t)' \in Nat
      BY <1>9, <1>18 DEF Counts
    <3>2. Hand(t)' + (IF cur = TaskEntry(t) THEN 1 ELSE 0) = Hand(t) + Occurrences(ops', DeferOp(t))
      BY <1>15, ProcessCounts
    <3> QED
      BY <1>10, <1>15, <3>1, <3>2
  <2> QED
    BY <1>9, <1>18, <2>1 DEF Counts
<1>20. \A t \in Task : \A j : AnswersOf(t, j)' = AnswersOf(t, j)
  <2>1. \A t, j : Occurrences(ops', SendOp(t, j)) = Occurrences(ops, SendOp(t, j))
    BY <1>15, ProcessCounts
  <2> QED
    BY <1>17, <2>1 DEF AnswersOf
\* A task that no slot ran runs on one slot; the others run where they ran.
<1>21. ASSUME NEW t \in Task
       PROVE  /\ t = v \/ (IsChild(t) /\ ParentOf(t) = v) => OnSlots(t)' <= 1 /\ OnSlots(t) = 0
              /\ ~(t = v \/ (IsChild(t) /\ ParentOf(t) = v)) => OnSlots(t)' <= OnSlots(t)
  <2>1. CASE t = v
    <3>1. OnSlots(v) = 0
      <4>1. /\ Hand(v) + ParentHand(v) + OnSlots(v) + AnswersOf(v, "final") + AnswersOf(v, "error") <= 1
            /\ Hand(v) \in Nat /\ ParentHand(v) \in Nat /\ OnSlots(v) \in Nat
            /\ AnswersOf(v, "final") \in Nat /\ AnswersOf(v, "error") \in Nat
        BY <1>1, <1>9, OneThing
      <4> QED
        BY <1>11, <4>1
    <3>2. \A x \in Slot : slots'[x].task = v => x = s
      <4>1. \A x \in Slot : slots[x].task # v
        BY <3>1, OnSlotsMeaning
      <4> QED
        BY <1>7, <1>12, <1>13, <4>1
    <3>3. OnSlots(v)' <= 1
      BY <3>2, OnSlotsMeaningNext
    <3> QED
      BY <2>1, <3>1, <3>3
  <2>2. CASE IsChild(t) /\ ParentOf(t) = v
    <3>0. t # v
      BY <1>11, <2>2
    <3>1. OnSlots(t) = 0
      <4>1. ParentHand(t) > 0
        BY <1>11, <2>2 DEF ParentHand
      <4> QED
        BY <1>1, <1>9, <4>1, OneThing
    <3>2. PICK i \in 1 .. n : ChildTasks[v][i] = t
      BY <1>7, <2>2
    <3>3. ASSUME NEW x \in Slot, slots'[x].task = t PROVE x = kids[i]
      <4>1. slots[x].task # t
        BY <3>1, OnSlotsMeaning
      <4>2. x # s
        BY <1>12, <1>13, <3>0, <3>3
      <4>3. PICK j \in 1 .. n : x = kids[j]
        BY <1>12, <3>3, <4>1, <4>2
      <4>4. ChildTasks[v][j] = t
        BY <1>12, <1>13, <3>3, <4>3
      <4> QED
        BY <1>7, <3>2, <4>3, <4>4
    <3>4. OnSlots(t)' <= 1
      BY <3>3, OnSlotsMeaningNext
    <3> QED
      BY <2>2, <3>0, <3>1, <3>4
  <2>3. CASE ~(t = v \/ (IsChild(t) /\ ParentOf(t) = v))
    <3>1. \A x \in Slot : slots'[x].task = t => slots[x].task = t
      BY <1>7, <1>12, <1>13, <2>3
    <3> QED
      BY <2>3, <3>1, OnSlotsFalls
  <2> QED
    BY <2>1, <2>2, <2>3
<1>22. ASSUME NEW t \in Task PROVE Weight(t)' <= Weight(t)
  <2>1. Hand(t)' + ParentHand(t)' + OnSlots(t)' <= Hand(t) + ParentHand(t) + OnSlots(t)
    <3>0. OnSlots(t) \in Nat /\ OnSlots(t)' \in Nat
      BY <1>9, <1>18 DEF Counts
    <3>1. CASE t = v
      <4>1. ParentHand(t) = 0 /\ ParentHand(t)' = 0
        BY <1>11, <3>1 DEF ParentHand
      <4>2. Hand(t) = Hand(t)' + 1 /\ Hand(t)' \in Nat
        BY <1>19, <3>1
      <4>3. OnSlots(t)' <= 1 /\ OnSlots(t) = 0
        BY <1>21, <3>1
      <4> QED
        BY <3>0, <4>1, <4>2, <4>3
    <3>2. CASE IsChild(t) /\ ParentOf(t) = v
      <4>1. ParentHand(t) = Hand(v) /\ ParentHand(t)' = Hand(v)'
        BY <3>2 DEF ParentHand
      <4>2. Hand(v) = Hand(v)' + 1 /\ Hand(v)' \in Nat
        BY <1>19
      <4>3. Hand(t)' = Hand(t) /\ Hand(t) \in Nat
        BY <1>11, <1>19, <3>2
      <4>4. OnSlots(t)' <= 1 /\ OnSlots(t) = 0
        BY <1>21, <3>2
      <4> QED
        BY <3>0, <4>1, <4>2, <4>3, <4>4
    <3>3. CASE ~(t = v \/ (IsChild(t) /\ ParentOf(t) = v))
      <4>1. Hand(t)' = Hand(t) /\ Hand(t) \in Nat
        BY <1>19, <3>3
      <4>2. ParentHand(t)' = ParentHand(t) /\ ParentHand(t) \in Nat
        <5>1. CASE IsChild(t)
          <6>1. ParentOf(t) \in Task /\ ParentOf(t) # v
            BY <3>3, <5>1, Children
          <6>2. Hand(ParentOf(t))' = Hand(ParentOf(t)) /\ Hand(ParentOf(t)) \in Nat
            BY <1>19, <6>1
          <6> QED
            BY <5>1, <6>2 DEF ParentHand
        <5>2. CASE ~IsChild(t)
          BY <5>2 DEF ParentHand
        <5> QED
          BY <5>1, <5>2
      <4>3. OnSlots(t)' <= OnSlots(t)
        BY <1>21, <3>3
      <4> QED
        BY <3>0, <4>1, <4>2, <4>3
    <3> QED
      BY <3>1, <3>2, <3>3
  <2>2. /\ Hand(t) \in Nat /\ Hand(t)' \in Nat /\ ParentHand(t) \in Nat /\ ParentHand(t)' \in Nat
        /\ OnSlots(t) \in Nat /\ OnSlots(t)' \in Nat
        /\ AnswersOf(t, "final") \in Nat /\ AnswersOf(t, "error") \in Nat
    BY <1>9, <1>18 DEF Counts
  <2>3. Weight(t)' = Hand(t)' + ParentHand(t)' + OnSlots(t)' + AnswersOf(t, "final")
                     + AnswersOf(t, "error")
    BY <1>20 DEF Weight
  <2>4. Weight(t) = Hand(t) + ParentHand(t) + OnSlots(t) + AnswersOf(t, "final")
                    + AnswersOf(t, "error")
    BY DEF Weight
  <2> QED
    BY ONLY <2>1, <2>2, <2>3, <2>4
<1>23. \A t : CancelPending(t)' <=> CancelPending(t)
  <2>1. \A t : /\ CancelPending(t)' => CancelPending(t)
               /\ CancelPending(t) /\ cur # CancelEntry(t) => CancelPending(t)'
    BY <1>15, ProcessCounts
  <2> QED
    BY <1>10, <2>1
<1>24. ChildrenAreRescued'
  <2> SUFFICES ASSUME NEW c PROVE ChildIsRescued(c)'
    BY ChildByChildNext
  <2> SUFFICES ASSUME NEW x \in Slot, slots'[x].state = "WAIT_OTHER", slots'[x].task = c
               PROVE  \/ \E p \in Slot : slots'[p].state = "PROMPT" /\ slots'[p].task = ParentOf(c)
                      \/ \A r \in Request : c \in IdsOf(r) => Rescue(c, r)'
    BY DEF ChildIsRescued
  <2>1. x # s
    BY <1>12, <1>13
  <2>2. ASSUME NEW i \in 1 .. n, x = kids[i]
        PROVE  \E p \in Slot : slots'[p].state = "PROMPT" /\ slots'[p].task = ParentOf(c)
    <3>1. ParentOf(c) = v
      BY <1>7, <1>12, <1>13, <2>2
    <3> QED
      BY <1>5, <1>12, <1>13, <3>1
  <2>3. CASE slots'[x] = slots[x]
    <3>1. ASSUME NEW p \in Slot, slots[p].state = "PROMPT"
          PROVE  slots'[p] = slots[p]
      <4>1. p # s /\ \A i \in 1 .. n : p # kids[i]
        BY <1>5, <1>6, <3>1 DEF IsProcessing
      <4> QED
        BY <1>12, <4>1
    <3>2. ASSUME NEW r \in Request, Rescue(c, r) PROVE Rescue(c, r)'
      <4>1. \A t : Occurrences(ops, SendOp(t, "error")) = 0
        BY <1>15, ProcessCounts
      <4>2. ErrorComing(r) => ErrorComing(r)'
        BY <1>15, <1>17, <4>1 DEF ErrorComing
      <4> QED
        BY <1>17, <1>23, <3>2, <4>2 DEF Rescue
    <3>3. c = slots[x].task /\ slots[x].state = "WAIT_OTHER"
      BY <2>3
    <3> QED
      BY <1>1, <3>1, <3>2, <3>3 DEF ChildrenAreRescued
  <2> QED
    BY <1>12, <2>1, <2>2, <2>3
<1>25. ASSUME NEW t \in Task
       PROVE  /\ Hand(t)' <= Hand(t)
              /\ Weight(t)' <= Weight(t)
              /\ Occurrences(ops', SendOp(t, "partial")) > 0 => OnSlots(t)' > 0
              /\ OnSlots(t)' > 0 => OnSlots(t) > 0 \/ Hand(t) > 0 \/ ParentHand(t) > 0
              /\ CancelPending(t)' => CancelPending(t)
              /\ CancelPending(t) /\ OnSlots(t)' > 0 => CancelPending(t)'
  <2>1. Hand(t)' <= Hand(t)
    BY <1>19
  <2>2. ~(Occurrences(ops', SendOp(t, "partial")) > 0)
    BY <1>15
  <2>3. OnSlots(t)' > 0 => OnSlots(t) > 0 \/ Hand(t) > 0 \/ ParentHand(t) > 0
    <3>1. t = v => Hand(t) > 0
      BY <1>11
    <3>2. IsChild(t) /\ ParentOf(t) = v => ParentHand(t) > 0
      BY <1>11 DEF ParentHand
    <3>3. OnSlots(t) \in Nat /\ OnSlots(t)' \in Nat
      BY <1>9, <1>18 DEF Counts
    <3> QED
      BY <1>21, <3>1, <3>2, <3>3
  <2> QED
    BY <1>22, <1>23, <2>1, <2>2, <2>3
<1> QED
  BY <1>17, <1>24, <1>25, LoopStepInv

\* The launch fails for the task or for one of its children, which gets the error.
LEMMA RejectInv ==
    ASSUME Inv, Processes, NEW v \in Task, cur = TaskEntry(v), Completion_Reject(v)
    PROVE  Inv'
<1>1. PICK s \in AvailableSlots(v), k \in FirstFailures(v) :
         /\ CanLaunch(v, s)
         /\ LET kids == FreeSlots(Len(ChildTasks[v]), s)
            IN  ops' = <<SendOp(LaunchOrder(v)[k], "error")>>
                       \o [i \in 1 .. (k - 1) |-> PopDeferOp(kids[i])]
  BY DEF Completion_Reject
<1>2. PICK kids : kids = FreeSlots(Len(ChildTasks[v]), s)
  OBVIOUS
<1>3. PICK n : n = Len(ChildTasks[v])
  OBVIOUS
<1>4. PICK u : u = LaunchOrder(v)[k]
  OBVIOUS
<1>5. /\ n \in Nat
      /\ \A i \in 1 .. n : kids[i] \in Slot
  <2>1. s \in Slot
    BY AvailableAreSlots
  <2>2. n \in Nat
    BY <1>3, Children
  <2> QED
    BY <1>1, <1>2, <1>3, <2>1, <2>2, Kids
<1>6. /\ k \in 1 .. (n + 1)
      /\ u \in Task
      /\ u = v \/ (IsChild(u) /\ ParentOf(u) = v)
  <2>1. /\ ChildTasks[v] \in Seq(Task) /\ DOMAIN ChildTasks[v] = 1 .. n
        /\ \A c \in ToSet(ChildTasks[v]) : c \in Task /\ IsChild(c) /\ ParentOf(c) = v
    BY <1>3, Children
  <2>2. /\ k \in DOMAIN LaunchOrder(v) /\ DOMAIN LaunchOrder(v) = 1 .. (n + 1)
        /\ \A i \in 1 .. n : LaunchOrder(v)[i] = ChildTasks[v][i]
        /\ LaunchOrder(v)[n + 1] = v
    BY <1>3, <1>5, <2>1 DEF FirstFailures, LaunchOrder
  <2>3. CASE k \in 1 .. n
    <3>1. u = ChildTasks[v][k] /\ ChildTasks[v][k] \in ToSet(ChildTasks[v])
      BY <1>4, <2>1, <2>2, <2>3 DEF ToSet
    <3> QED
      BY <2>1, <2>2, <3>1
  <2>4. CASE k = n + 1
    BY <1>4, <2>2, <2>4
  <2> QED
    BY <1>5, <2>2, <2>3, <2>4
<1> DEFINE pops == [i \in 1 .. (k - 1) |-> PopDeferOp(kids[i])]
<1>7. ops' = <<SendOp(u, "error")>> \o pops
  BY <1>1, <1>2, <1>4
<1>8. /\ pops \in Seq(Op) /\ Len(pops) = k - 1
      /\ \A i \in 1 .. (k - 1) : pops[i] = PopDeferOp(kids[i])
  <2>1. \A i \in 1 .. (k - 1) : PopDeferOp(kids[i]) \in Op
    BY <1>5, <1>6, EntryTypes
  <2> QED
    BY <1>6, <2>1
<1> HIDE DEF pops
<1>9. SendOp(u, "error") \in Op /\ <<SendOp(u, "error")>> \in Seq(Op)
  BY <1>6, EntryTypes DEF ResultKind
<1>10. ops' \in Seq(Op)
       /\ \A e : Occurrences(ops', e) = (IF SendOp(u, "error") = e THEN 1 ELSE 0) + Occurrences(pops, e)
  <2>1. \A e : Occurrences(<<SendOp(u, "error")>> \o pops, e)
                  = Occurrences(<<SendOp(u, "error")>>, e) + Occurrences(pops, e)
    BY <1>8, <1>9, OccurrencesConcat
  <2>2. \A e : Occurrences(<<SendOp(u, "error")>>, e) = IF SendOp(u, "error") = e THEN 1 ELSE 0
    BY OccurrencesSingleton
  <2>3. <<SendOp(u, "error")>> \o pops \in Seq(Op)
    BY <1>8, <1>9, ConcatProperties
  <2> QED
    BY <1>7, <2>1, <2>2, <2>3
<1>11. /\ \A t : Occurrences(pops, DeferOp(t)) = 0
       /\ \A t, j : Occurrences(pops, SendOp(t, j)) = 0
  <2>1. \A t : \A i \in 1 .. Len(pops) : pops[i] # DeferOp(t)
    BY <1>8, Distinct
  <2>2. \A t, j : \A i \in 1 .. Len(pops) : pops[i] # SendOp(t, j)
    BY <1>8, Distinct
  <2> QED
    BY <1>8, <2>1, <2>2, OccurrencesMeaning
<1>12. \A t : Occurrences(ops', DeferOp(t)) = 0
  BY <1>10, <1>11, Distinct
<1>13. \A t, j : Occurrences(ops', SendOp(t, j)) = IF t = u /\ j = "error" THEN 1 ELSE 0
  <2>1. ASSUME NEW t, NEW j
        PROVE  Occurrences(ops', SendOp(t, j)) = IF t = u /\ j = "error" THEN 1 ELSE 0
    <3>1. SendOp(u, "error") = SendOp(t, j) <=> t = u /\ j = "error"
      BY Distinct
    <3> QED
      BY <1>10, <1>11, <3>1
  <2> QED
    BY <2>1
<1>14. UNCHANGED slots
  BY DEF Completion_Reject
<1> QED
  BY <1>6, <1>10, <1>12, <1>13, <1>14, AnsweredInv

\* A query or a slot action answers at once.
LEMMA AnswerInv ==
    ASSUME Inv, Processes, UNCHANGED slots, NEW v \in Task, cur = TaskEntry(v),
           NEW k \in {"final", "error"}, ops' = <<SendOp(v, k)>>
    PROVE  Inv'
<1>1. ops' \in Seq(Op)
  BY EntryTypes DEF ResultKind
<1>2. \A e : Occurrences(ops', e) = IF SendOp(v, k) = e THEN 1 ELSE 0
  BY OccurrencesSingleton
<1>3. \A t : Occurrences(ops', DeferOp(t)) = 0
  BY <1>2, Distinct
<1>4. ASSUME NEW t, NEW j PROVE Occurrences(ops', SendOp(t, j)) = IF t = v /\ j = k THEN 1 ELSE 0
  <2>1. SendOp(v, k) = SendOp(t, j) <=> t = v /\ j = k
    BY Distinct
  <2> QED
    BY <1>2, <2>1
<1> QED
  BY <1>1, <1>3, <1>4, AnsweredInv

\* process_single_task keeps the invariant, for every type of task.
LEMMA LoopProcessInv ==
    ASSUME Inv, Loop_Process
    PROVE  Inv'
<1>1. Processes /\ TypeOK /\ Shapes
  BY DEF Loop_Process, Processes, Inv
<1>2. CASE cur.type = "next" /\ UNCHANGED <<slots, ops>>
  BY <1>1, <1>2, ProcessMovesInv
<1>3. CASE cur.type = "cancel" /\ Cancel(cur.id)
  BY <1>1, <1>3, CancelInv
<1>4. ASSUME cur.type = "task",
             \/ Query(cur.id)
             \/ SlotOp(cur.id)
             \/ Completion_Defer(cur.id)
             \/ Completion_Launch(cur.id)
             \/ Completion_Reject(cur.id)
      PROVE  Inv'
  <2>1. PICK v : v = cur.id
    OBVIOUS
  <2>2. cur = TaskEntry(v) /\ v \in Task
    <3>1. cur = TaskEntry(v) /\ v \in Task \cup {NoTask}
      BY <1>1, <1>4, <2>1, EntryForms DEF TypeOK
    <3>2. cur # TaskEntry(NoTask)
      BY <1>1 DEF Shapes
    <3> QED
      BY <3>1, <3>2
  <2>3. CASE Query(v)
    BY <1>1, <2>2, <2>3, AnswerInv DEF Query
  <2>4. CASE SlotOp(v)
    <3>1. UNCHANGED slots
      BY <2>4 DEF SlotOp
    <3>2. CASE ops' = <<DeferOp(v)>>
      BY <1>1, <1>4, <2>1, <3>1, <3>2, ProcessMovesInv
    <3>3. ASSUME NEW k \in {"final", "error"}, ops' = <<SendOp(v, k)>> PROVE Inv'
      BY <1>1, <2>2, <3>1, <3>3, AnswerInv
    <3> QED
      BY <2>4, <3>2, <3>3 DEF SlotOp
  <2>5. CASE Completion_Defer(v)
    BY <1>1, <1>4, <2>1, <2>5, ProcessMovesInv DEF Completion_Defer
  <2>6. CASE Completion_Launch(v)
    BY <1>1, <2>2, <2>6, LaunchInv
  <2>7. CASE Completion_Reject(v)
    BY <1>1, <2>2, <2>7, RejectInv
  <2> QED
    BY <1>4, <2>1, <2>3, <2>4, <2>5, <2>6, <2>7
<1> QED
  BY <1>2, <1>3, <1>4 DEF Loop_Process

-----------------------------------------------------------------------------
(* update_slots                                                            *)

Slots == [task : Task \cup {NoTask}, state : SlotState, left : 0 .. (NPrompt + NPredict)]

\* What is true of every outcome of an update: only a slot that runs a task does
\* anything, a prompt or a completion that goes on has something left, and a child
\* that stays has a parent that is not through its prompt.
Sound(out) ==
    /\ \A s \in Slot :
          /\ out[s] # "stay" => slots[s].task \in Task
          /\ out[s] = "chunk" => slots[s].state = "PROMPT" /\ slots[s].left > 1
          /\ out[s] = "partial" =>
                IF slots[s].state = "GENERATING" THEN slots[s].left > 1 ELSE NPredict > 1
    /\ \A s, p \in Slot :
          /\ slots[s].state = "WAIT_OTHER" /\ out[s] = "stay"
          /\ slots[p].state = "PROMPT" /\ slots[p].task = ParentOf(slots[s].task)
          => out[p] \notin {"partial", "final"}

\* What one update leaves on a slot: an idle slot after an answer, else the same task.
LEMMA AfterUpdateForms ==
    ASSUME TypeOK, Shapes, NEW out \in [Slot -> UpdateOutcome], Sound(out), NEW s \in Slot
    PROVE  /\ AfterUpdate(s, out[s]) \in Slots
           /\ out[s] \in {"final", "error"} => AfterUpdate(s, out[s]) = IdleSlot
           /\ out[s] \notin {"final", "error"} =>
                 /\ AfterUpdate(s, out[s]).task = slots[s].task
                 /\ slots[s].state = "IDLE" <=> AfterUpdate(s, out[s]).state = "IDLE"
                 /\ AfterUpdate(s, out[s]).state # "IDLE" => AfterUpdate(s, out[s]).left > 0
           /\ AfterUpdate(s, out[s]).state = "WAIT_OTHER" =>
                 slots[s].state = "WAIT_OTHER" /\ out[s] = "stay"
           /\ slots[s].state = "PROMPT" /\ out[s] \in {"stay", "chunk"} =>
                 AfterUpdate(s, out[s]).state = "PROMPT"
<1>1. /\ slots[s] \in Slots /\ slots[s].task \in Task \cup {NoTask} /\ slots[s].state \in SlotState
      /\ slots[s].left \in 0 .. (NPrompt + NPredict)
  BY DEF TypeOK, Slots
<1>2. NPrompt \in Nat \ {0} /\ NPredict \in Nat \ {0}
  BY RequestAssumption
<1>3. /\ slots[s].task = NoTask <=> slots[s].state = "IDLE"
      /\ slots[s].state # "IDLE" => slots[s].left > 0
  BY DEF Shapes
<1>4. CASE out[s] = "stay"
  BY <1>1, <1>3, <1>4 DEF AfterUpdate
<1>5. CASE out[s] = "chunk"
  <2>1. slots[s].state = "PROMPT" /\ slots[s].left > 1
    BY <1>5 DEF Sound
  <2>2. AfterUpdate(s, out[s]) = [slots[s] EXCEPT !.left = @ - 1]
    BY <1>5 DEF AfterUpdate
  <2>3. /\ slots[s].left - 1 \in 0 .. (NPrompt + NPredict) /\ slots[s].left - 1 > 0
    BY <1>1, <1>2, <2>1
  <2>4. /\ AfterUpdate(s, out[s]) \in Slots
        /\ AfterUpdate(s, out[s]).task = slots[s].task
        /\ AfterUpdate(s, out[s]).state = "PROMPT"
        /\ AfterUpdate(s, out[s]).left = slots[s].left - 1
    BY <1>1, <2>1, <2>2, <2>3 DEF Slots
  <2> QED
    BY <1>5, <2>1, <2>3, <2>4
<1>6. CASE out[s] = "partial"
  <2> DEFINE l == IF slots[s].state = "GENERATING" THEN slots[s].left - 1 ELSE NPredict - 1
  <2>1. /\ slots[s].task \in Task
        /\ IF slots[s].state = "GENERATING" THEN slots[s].left > 1 ELSE NPredict > 1
    BY <1>6 DEF Sound
  <2>2. AfterUpdate(s, out[s]) = [slots[s] EXCEPT !.state = "GENERATING", !.left = l]
    BY <1>6 DEF AfterUpdate
  <2>3. l \in 0 .. (NPrompt + NPredict) /\ l > 0
    BY <1>1, <1>2, <2>1
  <2> HIDE DEF l
  <2>4. /\ AfterUpdate(s, out[s]) \in Slots
        /\ AfterUpdate(s, out[s]).task = slots[s].task
        /\ AfterUpdate(s, out[s]).state = "GENERATING"
        /\ AfterUpdate(s, out[s]).left = l
    BY <1>1, <2>2, <2>3 DEF Slots, SlotState
  <2>5. slots[s].state # "IDLE"
    BY <1>3, <2>1, TaskAssumption
  <2> QED
    BY <1>6, <2>3, <2>4, <2>5
<1>7. CASE out[s] \in {"final", "error"}
  <2>1. AfterUpdate(s, out[s]) = IdleSlot
    BY <1>7 DEF AfterUpdate
  <2>2. IdleSlot \in Slots /\ IdleSlot.state = "IDLE"
    BY <1>2 DEF IdleSlot, Slots, SlotState
  <2> QED
    BY <1>7, <2>1, <2>2
<1> QED
  BY <1>4, <1>5, <1>6, <1>7 DEF UpdateOutcome

\* One update, whatever its outcome: a slot keeps its task, or answers it and is free.
LEMMA UpdatedInv ==
    ASSUME Inv, main = "update", ops = <<>>, main' = "wait",
           UNCHANGED <<queueVars, responseVars, cur, readerVars>>,
           NEW out \in [Slot -> UpdateOutcome], Sound(out),
           slots' = [s \in Slot |-> AfterUpdate(s, out[s])],
           ops' \in Seq(Op),
           \A t : Occurrences(ops', DeferOp(t)) = 0,
           \A t, k : (\A s \in Slot : slots[s].task # t) => Occurrences(ops', SendOp(t, k)) = 0,
           \A t, k : \A s \in Slot : t \in Task /\ slots[s].task = t =>
              Occurrences(ops', SendOp(t, k)) = Occurrences(CallsOf(s, out[s]), SendOp(t, k))
    PROVE  Inv'
<1>1. TypeOK /\ Shapes /\ OneWeight /\ GoneIsCancelled /\ ChildrenAreRescued
  BY DEF Inv
<1>2. UNCHANGED <<queue_tasks, queue_tasks_deferred, waiting_task_ids, queue_results, cur,
                  pc, received, delivered, overtaken>>
  BY DEF queueVars, responseVars, readerVars
<1>3. \A s \in Slot :
         /\ slots'[s] \in Slots
         /\ out[s] \in {"final", "error"} => slots'[s] = IdleSlot
         /\ out[s] \notin {"final", "error"} =>
               /\ slots'[s].task = slots[s].task
               /\ slots[s].state = "IDLE" <=> slots'[s].state = "IDLE"
               /\ slots'[s].state # "IDLE" => slots'[s].left > 0
         /\ slots'[s].state = "WAIT_OTHER" => slots[s].state = "WAIT_OTHER" /\ out[s] = "stay"
         /\ slots[s].state = "PROMPT" /\ out[s] \in {"stay", "chunk"} => slots'[s].state = "PROMPT"
  <2>1. \A s \in Slot : slots'[s] = AfterUpdate(s, out[s])
    OBVIOUS
  <2> QED
    BY <1>1, <2>1, AfterUpdateForms
<1>4. TypeOK'
  <2>1. slots' \in [Slot -> Slots]
    BY <1>3
  <2> QED
    BY <1>1, <1>2, <2>1 DEF TypeOK, QueueTypeOK, ResponseTypeOK, Slots
<1>5. Shapes'
  <2>1. ASSUME NEW s \in Slot
        PROVE  /\ slots'[s].task = NoTask <=> slots'[s].state = "IDLE"
               /\ slots'[s].state # "IDLE" => slots'[s].left > 0
               /\ slots'[s].state = "WAIT_OTHER" => IsChild(slots'[s].task)
    <3>1. /\ slots[s].task = NoTask <=> slots[s].state = "IDLE"
          /\ slots[s].state = "WAIT_OTHER" => IsChild(slots[s].task)
      BY <1>1 DEF Shapes
    <3>2. CASE out[s] \in {"final", "error"}
      BY <1>3, <3>2 DEF IdleSlot
    <3>3. CASE out[s] \notin {"final", "error"}
      BY <1>3, <3>1, <3>3
    <3> QED
      BY <3>2, <3>3
  <2>2. cur = NextEntry
    BY <1>1 DEF Shapes
  <2> QED
    BY <1>1, <1>2, <2>1, <2>2 DEF Shapes
<1>6. Counts /\ Counts'
  BY <1>1, <1>4, CountsType, CountsTypeNext
<1>7. \A e : Occurrences(ops, e) = 0
  BY OccurrencesEmpty
<1>8. \A t \in Task : Hand(t)' = Hand(t) /\ Hand(t) \in Nat
  BY <1>2, <1>6, <1>7 DEF Hand, Counts
<1>9. \A t : CancelPending(t)' <=> CancelPending(t)
  BY <1>2 DEF CancelPending
<1>10. ASSUME NEW t \in Task, NEW j
       PROVE  AnswersOf(t, j)' = AnswersOf(t, j) + Occurrences(ops', SendOp(t, j))
  <2>1. /\ Occurrences(queue_results, Res(t, j)) \in Nat /\ Occurrences(delivered[t], j) \in Nat
        /\ Occurrences(ops', SendOp(t, j)) \in Nat
    BY <1>6 DEF Counts
  <2>2. AnswersOf(t, j) = 0 + Occurrences(queue_results, Res(t, j)) + Occurrences(delivered[t], j)
    BY <1>7 DEF AnswersOf
  <2>3. AnswersOf(t, j)' = Occurrences(ops', SendOp(t, j))
           + Occurrences(queue_results, Res(t, j)) + Occurrences(delivered[t], j)
    BY <1>2 DEF AnswersOf
  <2> QED
    BY <2>1, <2>2, <2>3
\* What is sent for the task of slot s.
<1>11. ASSUME NEW s \in Slot, NEW t \in Task, slots[s].task = t, NEW k
       PROVE  Occurrences(ops', SendOp(t, k))
                 = IF \/ k = "partial" /\ out[s] = "partial" /\ t \in Streaming
                      \/ k = out[s] /\ out[s] \in {"final", "error"}
                   THEN 1 ELSE 0
  <2>1. Occurrences(ops', SendOp(t, k)) = Occurrences(CallsOf(s, out[s]), SendOp(t, k))
    BY <1>11
  <2>2. Occurrences(CallsOf(s, out[s]), SendOp(t, k))
          = IF /\ slots[s].task = t
               /\ \/ k = "partial" /\ out[s] = "partial" /\ t \in Streaming
                  \/ k = out[s] /\ out[s] \in {"final", "error"}
            THEN 1 ELSE 0
    BY <1>11, CallsOfCounts
  <2> QED
    BY <1>11, <2>1, <2>2
<1>12. ASSUME NEW t \in Task
       PROVE  /\ OnSlots(t)' <= OnSlots(t)
              /\ OnSlots(t) \in Nat /\ OnSlots(t)' \in Nat /\ OnSlots(t) <= 1
              /\ AnswersOf(t, "final") \in Nat /\ AnswersOf(t, "error") \in Nat
  <2>1. /\ Hand(t) + ParentHand(t) + OnSlots(t) + AnswersOf(t, "final") + AnswersOf(t, "error") <= 1
        /\ Hand(t) \in Nat /\ ParentHand(t) \in Nat /\ OnSlots(t) \in Nat
        /\ AnswersOf(t, "final") \in Nat /\ AnswersOf(t, "error") \in Nat
    BY <1>1, <1>6, OneThing
  <2>2. OnSlots(t) <= 1
    BY <2>1
  <2>3. \A s \in Slot : slots'[s].task = t => slots[s].task = t
    BY <1>3, TaskAssumption DEF IdleSlot
  <2>4. OnSlots(t)' <= OnSlots(t)
    BY <2>3, OnSlotsFalls
  <2> QED
    BY <1>6, <2>1, <2>2, <2>4 DEF Counts
<1>13. ASSUME NEW t \in Task PROVE Weight(t)' <= Weight(t)
  <2>1. OnSlots(t)' + AnswersOf(t, "final")' + AnswersOf(t, "error")'
              <= OnSlots(t) + AnswersOf(t, "final") + AnswersOf(t, "error")
    <3>0. /\ AnswersOf(t, "final")' = AnswersOf(t, "final") + Occurrences(ops', SendOp(t, "final"))
          /\ AnswersOf(t, "error")' = AnswersOf(t, "error") + Occurrences(ops', SendOp(t, "error"))
      BY <1>10
    <3>1. CASE \A s \in Slot : slots[s].task # t
      <4>1. Occurrences(ops', SendOp(t, "final")) = 0 /\ Occurrences(ops', SendOp(t, "error")) = 0
        BY <3>1
      <4> QED
        BY <1>12, <3>0, <4>1
    <3>2. ASSUME NEW s \in Slot, slots[s].task = t
          PROVE  OnSlots(t)' + AnswersOf(t, "final")' + AnswersOf(t, "error")'
                    <= OnSlots(t) + AnswersOf(t, "final") + AnswersOf(t, "error")
      <4>1. OnSlots(t) = 1 /\ \A x \in Slot : slots[x].task = t => x = s
        <5>1. OnSlots(t) > 0 /\ OnSlots(t) <= 1 /\ OnSlots(t) \in Nat
          BY <1>12, <3>2, OnSlotsMeaning
        <5> QED
          BY <3>2, <5>1, OnSlotsMeaning
      <4>2. CASE out[s] \in {"final", "error"}
        <5>1. OnSlots(t)' = 0
          <6>1. \A x \in Slot : slots'[x].task # t
            BY <1>3, <4>1, <4>2, TaskAssumption DEF IdleSlot
          <6> QED
            BY <6>1, OnSlotsMeaningNext
        <5>2. Occurrences(ops', SendOp(t, "final")) + Occurrences(ops', SendOp(t, "error")) = 1
          <6>1. Occurrences(ops', SendOp(t, "final")) = IF out[s] = "final" THEN 1 ELSE 0
            BY <1>11, <3>2
          <6>2. Occurrences(ops', SendOp(t, "error")) = IF out[s] = "error" THEN 1 ELSE 0
            BY <1>11, <3>2
          <6> QED
            BY <4>2, <6>1, <6>2
        <5>3. /\ Occurrences(ops', SendOp(t, "final")) \in Nat
              /\ Occurrences(ops', SendOp(t, "error")) \in Nat
          BY <1>6 DEF Counts
        <5> QED
          BY <1>12, <3>0, <4>1, <5>1, <5>2, <5>3
      <4>3. CASE out[s] \notin {"final", "error"}
        <5>1. Occurrences(ops', SendOp(t, "final")) = 0 /\ Occurrences(ops', SendOp(t, "error")) = 0
          BY <1>11, <3>2, <4>3
        <5> QED
          BY <1>12, <3>0, <5>1
      <4> QED
        BY <4>2, <4>3
    <3> QED
      BY <3>1, <3>2
  <2>2. \A x \in Task : Hand(x)' <= Hand(x)
    BY <1>8
  <2> QED
    BY <1>6, <2>1, <2>2, WeightFalls
<1>14. ASSUME NEW t \in Task, Occurrences(ops', SendOp(t, "partial")) > 0 PROVE OnSlots(t)' > 0
  <2>1. PICK s \in Slot : slots[s].task = t
    BY <1>14
  <2>2. out[s] = "partial"
    <3>1. Occurrences(ops', SendOp(t, "partial"))
             = IF \/ "partial" = "partial" /\ out[s] = "partial" /\ t \in Streaming
                  \/ "partial" = out[s] /\ out[s] \in {"final", "error"}
               THEN 1 ELSE 0
      BY <1>11, <2>1
    <3> QED
      BY <1>14, <3>1
  <2>3. slots'[s].task = t
    BY <1>3, <2>1, <2>2
  <2> QED
    BY <2>3, OnSlotsMeaningNext
<1>15. ChildrenAreRescued'
  <2> SUFFICES ASSUME NEW c PROVE ChildIsRescued(c)'
    BY ChildByChildNext
  <2> SUFFICES ASSUME NEW s \in Slot, slots'[s].state = "WAIT_OTHER", slots'[s].task = c
               PROVE  \/ \E p \in Slot : slots'[p].state = "PROMPT" /\ slots'[p].task = ParentOf(c)
                      \/ \A r \in Request : c \in IdsOf(r) => Rescue(c, r)'
    BY DEF ChildIsRescued
  <2>1. slots[s].state = "WAIT_OTHER" /\ out[s] = "stay" /\ slots[s].task = c /\ IsChild(c)
    <3>1. slots[s].state = "WAIT_OTHER" /\ out[s] = "stay"
      BY <1>3
    <3>2. slots[s].task = c
      BY <1>3, <3>1
    <3> QED
      BY <1>1, <3>1, <3>2 DEF Shapes
  <2>2. ASSUME NEW r \in Request, Rescue(c, r) PROVE Rescue(c, r)'
    <3>1. ErrorComing(r) => ErrorComing(r)'
      BY <1>2, <1>7 DEF ErrorComing
    <3> QED
      BY <1>2, <1>9, <2>2, <3>1 DEF Rescue
  <2>3. CASE \A r \in Request : c \in IdsOf(r) => Rescue(c, r)
    BY <2>2, <2>3
  <2>4. ASSUME NEW p \in Slot, slots[p].state = "PROMPT", slots[p].task = ParentOf(c)
        PROVE  \/ slots'[p].state = "PROMPT" /\ slots'[p].task = ParentOf(c)
               \/ \A r \in Request : c \in IdsOf(r) => Rescue(c, r)'
    <3>1. out[p] \notin {"partial", "final"}
      BY <2>1, <2>4 DEF Sound
    <3>2. CASE out[p] \in {"stay", "chunk"}
      BY <1>3, <2>4, <3>2
    <3>3. CASE out[p] = "error"
      <4> SUFFICES ASSUME NEW r \in Request, c \in IdsOf(r) PROVE Rescue(c, r)'
        OBVIOUS
      <4>1. c \in Task /\ ParentOf(c) \in IdsOf(r) /\ ParentOf(c) \in Task
        BY <2>1, Ids
      <4>2. ErrorComing(r)'
        <5>1. Occurrences(ops', SendOp(ParentOf(c), "error")) = 1
          BY <1>11, <2>4, <3>3, <4>1
        <5> QED
          BY <4>1, <5>1 DEF ErrorComing
      <4>3. OnSlots(c) > 0
        BY <2>1, OnSlotsMeaning
      <4>4. pc[r] \notin {"idle", "registered"}
        <5>1. Posted(c)
          BY <1>1, <1>6, <4>1, <4>3, OneThing
        <5> QED
          BY <5>1, OneOwner DEF Posted
      <4>5. pc[r] = "done" => CancelPending(c) \/ ParentOf(c) \in overtaken
        BY <1>1, <2>1, <4>3 DEF GoneIsCancelled
      <4>6. pc[r] \in ReaderPC
        BY <1>1 DEF TypeOK
      <4>7. CASE pc[r] = "waiting"
        BY <1>2, <4>2, <4>7 DEF Rescue
      <4>8. CASE pc[r] \in {"stopping", "cancelling"}
        BY <1>2, <4>8 DEF Rescue
      <4>9. CASE pc[r] = "done"
        BY <1>2, <1>9, <4>5, <4>9 DEF Rescue
      <4> QED
        BY <4>4, <4>6, <4>7, <4>8, <4>9 DEF ReaderPC
    <3> QED
      BY <3>1, <3>2, <3>3 DEF UpdateOutcome
  <2> QED
    BY <1>1, <2>1, <2>3, <2>4 DEF ChildrenAreRescued
<1>16. ASSUME NEW t \in Task
       PROVE  /\ Hand(t)' <= Hand(t)
              /\ Weight(t)' <= Weight(t)
              /\ Occurrences(ops', SendOp(t, "partial")) > 0 => OnSlots(t)' > 0
              /\ OnSlots(t)' > 0 => OnSlots(t) > 0 \/ Hand(t) > 0 \/ ParentHand(t) > 0
              /\ CancelPending(t)' => CancelPending(t)
              /\ CancelPending(t) /\ OnSlots(t)' > 0 => CancelPending(t)'
  <2>1. Hand(t)' <= Hand(t)
    BY <1>8
  <2>2. OnSlots(t)' > 0 => OnSlots(t) > 0
    BY <1>12
  <2> QED
    BY <1>9, <1>13, <1>14, <2>1, <2>2
<1>17. UNCHANGED <<waiting_task_ids, queue_results, pc, received, delivered, overtaken>>
  BY <1>2
<1> QED
  BY <1>4, <1>5, <1>15, <1>16, <1>17, LoopStepInv

\* An update posts NEXT_RESPONSE and then makes the calls of three sets of slots.
LEMMA UpdateCalls ==
    ASSUME NEW x \in Seq(Op), NEW y \in Seq(Op), NEW z \in Seq(Op)
    PROVE  /\ <<NextOp>> \o x \o y \o z \in Seq(Op)
           /\ \A t : Occurrences(<<NextOp>> \o x \o y \o z, DeferOp(t))
                        = Occurrences(x, DeferOp(t)) + Occurrences(y, DeferOp(t))
                          + Occurrences(z, DeferOp(t))
           /\ \A t, k : Occurrences(<<NextOp>> \o x \o y \o z, SendOp(t, k))
                        = Occurrences(x, SendOp(t, k)) + Occurrences(y, SendOp(t, k))
                          + Occurrences(z, SendOp(t, k))
<1> DEFINE h == <<NextOp>>
           a == h \o x
           b == a \o y
           d == b \o z
<1>1. h \in Seq(Op)
  BY EntryTypes
<1>2. \A e : Occurrences(h, e) = IF NextOp = e THEN 1 ELSE 0
  BY OccurrencesSingleton
<1> HIDE DEF h
<1>3. a \in Seq(Op) /\ \A e : Occurrences(a, e) = Occurrences(h, e) + Occurrences(x, e)
  BY <1>1, ConcatProperties, OccurrencesConcat
<1> HIDE DEF a
<1>4. b \in Seq(Op) /\ \A e : Occurrences(b, e) = Occurrences(a, e) + Occurrences(y, e)
  BY <1>3, ConcatProperties, OccurrencesConcat
<1> HIDE DEF b
<1>5. d \in Seq(Op) /\ \A e : Occurrences(d, e) = Occurrences(b, e) + Occurrences(z, e)
  BY <1>4, ConcatProperties, OccurrencesConcat
<1> HIDE DEF d
<1>6. \A e : Occurrences(x, e) \in Nat /\ Occurrences(y, e) \in Nat /\ Occurrences(z, e) \in Nat
  BY OccurrencesType
<1>7. ASSUME NEW e, NextOp # e
      PROVE  Occurrences(d, e) = Occurrences(x, e) + Occurrences(y, e) + Occurrences(z, e)
  <2>1. Occurrences(h, e) = 0
    BY <1>2, <1>7
  <2>2. Occurrences(d, e) = 0 + Occurrences(x, e) + Occurrences(y, e) + Occurrences(z, e)
    BY <1>3, <1>4, <1>5, <2>1
  <2> QED
    BY <1>6, <2>2
<1>8. \A t : Occurrences(d, DeferOp(t)) = Occurrences(x, DeferOp(t)) + Occurrences(y, DeferOp(t))
                                          + Occurrences(z, DeferOp(t))
  BY <1>7, Distinct
<1>9. \A t, k : Occurrences(d, SendOp(t, k)) = Occurrences(x, SendOp(t, k)) + Occurrences(y, SendOp(t, k))
                                               + Occurrences(z, SendOp(t, k))
  BY <1>7, Distinct
<1> QED
  BY <1>5, <1>8, <1>9 DEF d, b, a, h

\* The outcomes of a batch that is decoded are sound.
LEMMA OutcomesSound ==
    ASSUME TypeOK, Shapes, NEW refused \in SUBSET Slot, MayRefuse(refused), NEW out \in Outcomes(refused)
    PROVE  out \in [Slot -> UpdateOutcome] /\ Sound(out)
<1>1. /\ out \in [Slot -> UpdateOutcome]
      /\ \A s \in Slot : out[s] \in IF slots[s].state = "WAIT_OTHER"
                                    THEN ChildOutcome(s, out) ELSE Outcome(s, refused)
  BY DEF Outcomes, UpdateOutcome
<1>2. NPredict \in Nat \ {0} /\ Refusable \subseteq Task
  BY RequestAssumption
<1>3. \A n \in Nat \ {0} : /\ TokenOutcome(n) \subseteq {"partial", "final"}
                           /\ "partial" \in TokenOutcome(n) => n > 1
  BY DEF TokenOutcome
<1>4. ASSUME NEW s \in Slot
      PROVE  /\ out[s] # "stay" => slots[s].task \in Task
             /\ out[s] = "chunk" => slots[s].state = "PROMPT" /\ slots[s].left > 1
             /\ out[s] = "partial" =>
                   IF slots[s].state = "GENERATING" THEN slots[s].left > 1 ELSE NPredict > 1
  <2>1. /\ slots[s].task \in Task \cup {NoTask} /\ slots[s].left \in Nat
        /\ slots[s].task = NoTask <=> slots[s].state = "IDLE"
        /\ slots[s].state # "IDLE" => slots[s].left > 0
    BY RequestAssumption DEF TypeOK, Shapes
  <2>2. CASE slots[s].state = "WAIT_OTHER"
    <3>1. out[s] \in TokenOutcome(NPredict) \cup {"stay"}
      BY <1>1, <2>2 DEF ChildOutcome
    <3> QED
      BY <1>2, <1>3, <2>1, <2>2, <3>1
  <2>3. CASE slots[s].state # "WAIT_OTHER"
    <3>0. out[s] \in Outcome(s, refused)
      BY <1>1, <2>3
    <3>1. CASE s \in refused
      BY <1>2, <3>0, <3>1 DEF Outcome, MayRefuse
    <3>2. CASE s \notin refused /\ ~InBatch(s, refused)
      BY <3>0, <3>2 DEF Outcome
    <3>3. CASE s \notin refused /\ InBatch(s, refused) /\ slots[s].state = "GENERATING"
      BY <1>3, <2>1, <3>0, <3>3 DEF Outcome
    <3>4. CASE s \notin refused /\ InBatch(s, refused) /\ slots[s].state # "GENERATING"
      <4>1. slots[s].state = "PROMPT"
        BY <3>4 DEF InBatch, InState
      <4>2. out[s] \in TokenOutcome(NPredict)
               \cup (IF slots[s].left > NPredict + 1 THEN {"chunk"} ELSE {}) \cup {"stay"}
        BY <3>0, <3>4 DEF Outcome
      <4>3. out[s] = "chunk" => slots[s].left > 1
        BY <1>2, <1>3, <2>1, <4>2
      <4> QED
        BY <1>2, <1>3, <2>1, <4>1, <4>2, <4>3
    <3> QED
      BY <3>1, <3>2, <3>3, <3>4
  <2> QED
    BY <2>2, <2>3
<1>5. ASSUME NEW s \in Slot, NEW p \in Slot, slots[s].state = "WAIT_OTHER", out[s] = "stay",
             slots[p].state = "PROMPT", slots[p].task = ParentOf(slots[s].task),
             out[p] \in {"partial", "final"}
      PROVE  FALSE
  <2>1. out[s] \in TokenOutcome(NPredict)
    BY <1>1, <1>5 DEF ChildOutcome, InState
  <2> QED
    BY <1>2, <1>3, <1>5, <2>1
<1> QED
  BY <1>1, <1>4, <1>5 DEF Sound

\* Each slot is in one of three sets.
Split(A, B, C) ==
    /\ A \in SUBSET Slot /\ B \in SUBSET Slot /\ C \in SUBSET Slot
    /\ A \cup B \cup C = Slot /\ A \cap B = {} /\ A \cap C = {} /\ B \cap C = {}

\* The calls of an update: a task that a slot runs has the calls of that slot.
CallsFit(all, out) ==
    /\ all \in Seq(Op)
    /\ \A t : Occurrences(all, DeferOp(t)) = 0
    /\ \A t, k : (\A s \in Slot : slots[s].task # t) => Occurrences(all, SendOp(t, k)) = 0
    /\ \A t, k : \A s \in Slot : t \in Task /\ slots[s].task = t =>
          Occurrences(all, SendOp(t, k)) = Occurrences(CallsOf(s, out[s]), SendOp(t, k))

\* The calls an update makes for the slots of A, then of B, then of C.
AllCalls(all, A, B, C, out) ==
    all = <<NextOp>> \o Calls(A, out) \o Calls(B, out) \o Calls(C, out)

\* The calls of the slots in sets that cover all, each slot being in one of them.
LEMMA CallsOfSets ==
    ASSUME Inv, NEW out \in [Slot -> UpdateOutcome], Sound(out),
           NEW A, NEW B, NEW C, Split(A, B, C), NEW all, AllCalls(all, A, B, C, out)
    PROVE  CallsFit(all, out)
<1>0. /\ A \in SUBSET Slot /\ B \in SUBSET Slot /\ C \in SUBSET Slot
      /\ A \cup B \cup C = Slot /\ A \cap B = {} /\ A \cap C = {} /\ B \cap C = {}
  BY DEF Split
<1>1. TypeOK /\ OneWeight
  BY DEF Inv
<1>2. Counts
  BY <1>1, CountsType
<1>3. \A s \in Slot : slots[s].task \in Task \/ out[s] = "stay"
  BY DEF Sound
<1>4. ASSUME NEW S \in SUBSET Slot
      PROVE  /\ Calls(S, out) \in Seq(Op)
             /\ \A t : Occurrences(Calls(S, out), DeferOp(t)) = 0
             /\ \A t, k : (\A s \in S : slots[s].task # t)
                             => Occurrences(Calls(S, out), SendOp(t, k)) = 0
             /\ \A t, k : \A s \in S : (\A x \in S : slots[x].task = t => x = s)
                   => Occurrences(Calls(S, out), SendOp(t, k))
                         = Occurrences(CallsOf(s, out[s]), SendOp(t, k))
  BY <1>3, CallsCounts
<1>5. PICK a, b, c : a = Calls(A, out) /\ b = Calls(B, out) /\ c = Calls(C, out)
  OBVIOUS
<1>6. /\ a \in Seq(Op) /\ b \in Seq(Op) /\ c \in Seq(Op)
      /\ \A t : Occurrences(a, DeferOp(t)) = 0 /\ Occurrences(b, DeferOp(t)) = 0
                /\ Occurrences(c, DeferOp(t)) = 0
  BY <1>0, <1>4, <1>5
<1>7. all = <<NextOp>> \o a \o b \o c
  BY <1>5 DEF AllCalls
<1>8. /\ all \in Seq(Op)
      /\ \A t : Occurrences(all, DeferOp(t)) = Occurrences(a, DeferOp(t))
                   + Occurrences(b, DeferOp(t)) + Occurrences(c, DeferOp(t))
      /\ \A t, k : Occurrences(all, SendOp(t, k)) = Occurrences(a, SendOp(t, k))
                   + Occurrences(b, SendOp(t, k)) + Occurrences(c, SendOp(t, k))
  <2>1. a \in Seq(Op) /\ b \in Seq(Op) /\ c \in Seq(Op)
    BY <1>6
  <2> DEFINE d == <<NextOp>> \o a \o b \o c
  <2>2. /\ d \in Seq(Op)
        /\ \A t : Occurrences(d, DeferOp(t)) = Occurrences(a, DeferOp(t))
                     + Occurrences(b, DeferOp(t)) + Occurrences(c, DeferOp(t))
        /\ \A t, k : Occurrences(d, SendOp(t, k)) = Occurrences(a, SendOp(t, k))
                     + Occurrences(b, SendOp(t, k)) + Occurrences(c, SendOp(t, k))
    BY ONLY <2>1, UpdateCalls
  <2>3. d = all
    BY <1>7
  <2> HIDE DEF d
  <2> QED
    BY ONLY <2>2, <2>3
<1>9. ASSUME NEW t PROVE Occurrences(all, DeferOp(t)) = 0
  <2>1. /\ Occurrences(a, DeferOp(t)) = 0 /\ Occurrences(b, DeferOp(t)) = 0
        /\ Occurrences(c, DeferOp(t)) = 0
        /\ Occurrences(all, DeferOp(t)) = Occurrences(a, DeferOp(t))
              + Occurrences(b, DeferOp(t)) + Occurrences(c, DeferOp(t))
    BY <1>6, <1>8
  <2> QED
    BY <2>1
<1>10. ASSUME NEW t, NEW k, \A s \in Slot : slots[s].task # t
       PROVE  Occurrences(all, SendOp(t, k)) = 0
  <2>1. /\ Occurrences(a, SendOp(t, k)) = 0 /\ Occurrences(b, SendOp(t, k)) = 0
        /\ Occurrences(c, SendOp(t, k)) = 0
    BY <1>0, <1>4, <1>5, <1>10
  <2> QED
    BY <1>8, <2>1
<1>11. ASSUME NEW t \in Task, NEW k, NEW s \in Slot, slots[s].task = t
       PROVE  Occurrences(all, SendOp(t, k)) = Occurrences(CallsOf(s, out[s]), SendOp(t, k))
  <2>1. \A x \in Slot : slots[x].task = t => x = s
    <3>1. /\ Hand(t) + ParentHand(t) + OnSlots(t) + AnswersOf(t, "final") + AnswersOf(t, "error") <= 1
          /\ Hand(t) \in Nat /\ ParentHand(t) \in Nat /\ OnSlots(t) \in Nat
          /\ AnswersOf(t, "final") \in Nat /\ AnswersOf(t, "error") \in Nat
      BY <1>1, <1>2, OneThing
    <3>2. OnSlots(t) <= 1
      BY <3>1
    <3> QED
      BY <1>11, <3>2, OnSlotsMeaning
  <2>2. \A S \in SUBSET Slot :
           Occurrences(Calls(S, out), SendOp(t, k))
              = IF s \in S THEN Occurrences(CallsOf(s, out[s]), SendOp(t, k)) ELSE 0
    <3> SUFFICES ASSUME NEW S \in SUBSET Slot
                 PROVE  Occurrences(Calls(S, out), SendOp(t, k))
                          = IF s \in S THEN Occurrences(CallsOf(s, out[s]), SendOp(t, k)) ELSE 0
      OBVIOUS
    <3>1. CASE s \in S
      <4>1. \A x \in S : slots[x].task = t => x = s
        BY <2>1
      <4>2. (\A x \in S : slots[x].task = t => x = s)
               => Occurrences(Calls(S, out), SendOp(t, k))
                     = Occurrences(CallsOf(s, out[s]), SendOp(t, k))
        <5> DEFINE P(tt, kk, ss) == (\A x \in S : slots[x].task = tt => x = ss)
                     => Occurrences(Calls(S, out), SendOp(tt, kk))
                           = Occurrences(CallsOf(ss, out[ss]), SendOp(tt, kk))
        <5>1. \A tt, kk : \A ss \in S : P(tt, kk, ss)
          BY <1>4
        <5> HIDE DEF P
        <5>2. P(t, k, s)
          BY <3>1, <5>1
        <5> QED
          BY <5>2 DEF P
      <4> QED
        BY <3>1, <4>1, <4>2
    <3>2. CASE s \notin S
      <4>1. \A x \in S : slots[x].task # t
        BY <2>1, <3>2
      <4> QED
        BY <1>4, <3>2, <4>1
    <3> QED
      BY <3>1, <3>2
  <2>3. PICK n : n = Occurrences(CallsOf(s, out[s]), SendOp(t, k))
    OBVIOUS
  <2>4. /\ Occurrences(a, SendOp(t, k)) = IF s \in A THEN n ELSE 0
        /\ Occurrences(b, SendOp(t, k)) = IF s \in B THEN n ELSE 0
        /\ Occurrences(c, SendOp(t, k)) = IF s \in C THEN n ELSE 0
    BY <1>0, <1>5, <2>2, <2>3
  <2>5. n \in Nat
    BY <1>3, <2>3, CallsOfCounts
  <2>6. Occurrences(all, SendOp(t, k)) = Occurrences(a, SendOp(t, k))
                   + Occurrences(b, SendOp(t, k)) + Occurrences(c, SendOp(t, k))
    BY <1>8
  <2>7. \/ s \in A /\ s \notin B /\ s \notin C
        \/ s \notin A /\ s \in B /\ s \notin C
        \/ s \notin A /\ s \notin B /\ s \in C
    BY <1>0
  <2> QED
    BY <2>3, <2>4, <2>5, <2>6, <2>7
<1> QED
  BY <1>8, <1>9, <1>10, <1>11 DEF CallsFit

\* No slots make no calls.
LEMMA NoCalls ==
    ASSUME NEW out
    PROVE  Calls({}, out) = <<>>
<1>1. InOrder({}) \in Seq(Slot) /\ Len(InOrder({})) = 0
  BY InOrderProperties, FS_EmptySet
<1>2. InOrder({}) = <<>>
  BY <1>1, EmptySeq
<1>3. Calls({}, out) = FlattenSeq([i \in DOMAIN <<>> |-> CallsOf(<<>>[i], out[<<>>[i]])])
  BY <1>2 DEF Calls
<1> DEFINE seqs == [i \in DOMAIN <<>> |-> CallsOf(<<>>[i], out[<<>>[i]])]
<1>4. seqs \in [1 .. 0 -> Seq(Op)]
  OBVIOUS
<1> HIDE DEF seqs
<1>5. FlattenSeq(seqs) = <<>>
  BY ONLY <1>4, FlattenNothing
<1> QED
  BY <1>3, <1>5 DEF seqs

\* update_slots keeps the invariant, whatever it refuses and however decoding ends.
LEMMA LoopUpdateInv ==
    ASSUME Inv, Loop_Update
    PROVE  Inv'
<1>1. /\ main = "update" /\ ops = <<>> /\ main' = "wait"
      /\ UNCHANGED <<queueVars, responseVars, cur, readerVars>>
  BY DEF Loop_Update
<1>2. TypeOK /\ Shapes
  BY DEF Inv
<1>3. CASE UNCHANGED <<slots, ops>>
  <2>1. UNCHANGED <<queue_tasks, queue_tasks_deferred, waiting_task_ids, queue_results,
                    slots, cur, ops, pc, received, delivered, overtaken>>
    BY <1>1, <1>3 DEF queueVars, responseVars, readerVars
  <2>2. TypeOK'
    BY <1>1, <1>2, <2>1 DEF TypeOK, QueueTypeOK, ResponseTypeOK
  <2>3. Shapes'
    BY <1>1, <1>2, <2>1 DEF Shapes
  <2>4. Counts
    BY <1>2, CountsType
  <2>5. \A t \in Task : Hand(t)' <= Hand(t) /\ (CancelPending(t)' <=> CancelPending(t))
    BY <2>1, <2>4 DEF Hand, CancelPending, Counts
  <2> QED
    BY <2>1, <2>2, <2>3, <2>5, MovesInv
<1>4. ASSUME NEW refused \in SUBSET Slot, MayRefuse(refused), NEW out \in Outcomes(refused),
             slots' = [s \in Slot |-> AfterUpdate(s, out[s])],
             ops' = <<NextOp>> \o Calls(refused \cap InState("GENERATING"), out)
                    \o Calls(refused \cap InState("PROMPT"), out) \o Calls(Slot \ refused, out)
      PROVE  Inv'
  <2>1. out \in [Slot -> UpdateOutcome] /\ Sound(out)
    BY <1>2, <1>4, OutcomesSound
  <2> DEFINE A == refused \cap InState("GENERATING")
             B == refused \cap InState("PROMPT")
             C == Slot \ refused
  <2>2. Split(A, B, C)
    BY <1>4 DEF MayRefuse, InState, Split
  <2>3. PICK all : all = ops'
    OBVIOUS
  <2>5. AllCalls(all, A, B, C, out)
    BY <1>4, <2>3 DEF AllCalls
  <2> HIDE DEF A, B, C
  <2>4. /\ ops' \in Seq(Op)
        /\ \A t : Occurrences(ops', DeferOp(t)) = 0
        /\ \A t, k : (\A s \in Slot : slots[s].task # t) => Occurrences(ops', SendOp(t, k)) = 0
        /\ \A t, k : \A s \in Slot : t \in Task /\ slots[s].task = t =>
              Occurrences(ops', SendOp(t, k)) = Occurrences(CallsOf(s, out[s]), SendOp(t, k))
    <3>1. CallsFit(all, out)
      BY <2>1, <2>2, <2>5, CallsOfSets
    <3> QED
      BY ONLY <2>3, <3>1 DEF CallsFit
  <2> QED
    BY <1>1, <1>4, <2>1, <2>4, UpdatedInv
<1>5. ASSUME NEW out, out = [s \in Slot |-> IF IsProcessing(s) THEN "error" ELSE "stay"],
             slots' = [s \in Slot |-> AfterUpdate(s, out[s])],
             ops' = <<NextOp>> \o Calls(Slot, out)
      PROVE  Inv'
  <2>1. out \in [Slot -> UpdateOutcome] /\ Sound(out)
    <3>1. \A s \in Slot : out[s] = IF IsProcessing(s) THEN "error" ELSE "stay"
      BY <1>5
    <3>2. \A s \in Slot : slots[s].task \in Task \cup {NoTask} /\ (slots[s].task = NoTask <=> ~IsProcessing(s))
      BY <1>2 DEF TypeOK, Shapes, IsProcessing
    <3>3. out \in [Slot -> UpdateOutcome]
      BY <1>5 DEF UpdateOutcome
    <3> QED
      BY <3>1, <3>2, <3>3 DEF Sound, IsProcessing
  <2>2. Calls({}, out) = <<>>
    BY NoCalls
  <2>3. Calls(Slot, out) \in Seq(Op)
    <3>1. \A s \in Slot : slots[s].task \in Task \/ out[s] = "stay"
      BY <2>1 DEF Sound
    <3> QED
      BY <2>1, <3>1, CallsCounts
  <2>4. ops' = <<NextOp>> \o Calls(Slot, out) \o Calls({}, out) \o Calls({}, out)
    <3>1. <<NextOp>> \o Calls(Slot, out) \in Seq(Op)
      BY <2>3, EntryTypes, ConcatProperties
    <3> QED
      BY <1>5, <2>2, <3>1, ConcatEmptySeq
  <2>5. /\ ops' \in Seq(Op)
        /\ \A t : Occurrences(ops', DeferOp(t)) = 0
        /\ \A t, k : (\A s \in Slot : slots[s].task # t) => Occurrences(ops', SendOp(t, k)) = 0
        /\ \A t, k : \A s \in Slot : t \in Task /\ slots[s].task = t =>
              Occurrences(ops', SendOp(t, k)) = Occurrences(CallsOf(s, out[s]), SendOp(t, k))
    <3> DEFINE E == {}
    <3>1. Split(Slot, E, E)
      BY DEF Split
    <3>2. PICK all : all = ops'
      OBVIOUS
    <3>3. AllCalls(all, Slot, E, E, out)
      BY <2>4, <3>2 DEF AllCalls
    <3> HIDE DEF E
    <3>4. CallsFit(all, out)
      BY <2>1, <3>1, <3>3, CallsOfSets
    <3> QED
      BY ONLY <3>2, <3>4 DEF CallsFit
  <2> QED
    BY <1>1, <1>5, <2>1, <2>5, UpdatedInv
<1> QED
  BY <1>3, <1>4, <1>5 DEF Loop_Update

-----------------------------------------------------------------------------
(* The theorems                                                            *)

\* At the start nothing is posted, held, on its way or delivered.
LEMMA InitInv ==
    ASSUME Init
    PROVE  Inv
<1>1. /\ queue_tasks = <<>> /\ queue_tasks_deferred = <<>>
      /\ waiting_task_ids = {} /\ queue_results = <<>>
      /\ slots = [s \in Slot |-> IdleSlot] /\ main = "wait" /\ cur = NextEntry /\ ops = <<>>
      /\ pc = [r \in Request |-> "idle"] /\ received = [r \in Request |-> 0]
      /\ delivered = [t \in Task |-> <<>>] /\ overtaken = {}
  BY DEF Init, QueueInit, ResponseInit
<1>2. \A s \in Slot : slots[s].task = NoTask /\ slots[s].state = "IDLE"
  BY <1>1 DEF IdleSlot
<1>3. /\ \A e : /\ Occurrences(queue_tasks, e) = 0 /\ Occurrences(queue_tasks_deferred, e) = 0
                /\ Occurrences(ops, e) = 0 /\ Occurrences(queue_results, e) = 0
      /\ \A t \in Task : \A k : Occurrences(delivered[t], k) = 0
  BY <1>1, OccurrencesEmpty
<1>4. TypeOK
  <2>1. IdleSlot \in [task : Task \cup {NoTask}, state : SlotState, left : 0 .. (NPrompt + NPredict)]
    BY RequestAssumption DEF IdleSlot, SlotState
  <2>2. NextEntry \in Entry
    BY DEF NextEntry, Entry
  <2> QED
    BY <1>1, <2>1, <2>2 DEF TypeOK, QueueTypeOK, ResponseTypeOK, ReaderPC
<1>5. Shapes
  BY <1>1, <1>2, <1>3 DEF Shapes, NextEntry, TaskEntry, CancelEntry
<1>6. \A t \in Task : Hand(t) = 0 /\ ~CancelPending(t) /\ OnSlots(t) = 0
  <2>1. \A t \in Task : OnSlots(t) = 0
    BY <1>2, TaskAssumption, OnSlotsMeaning
  <2> QED
    BY <1>1, <1>3, <2>1 DEF Hand, CancelPending, NextEntry, TaskEntry, CancelEntry
<1>7. OneWeight
  <2> SUFFICES ASSUME NEW t \in Task PROVE Weight(t) = 0
    BY <1>6 DEF OneWeight
  <2>1. ParentHand(t) = 0
    BY <1>6, Children DEF ParentHand
  <2>2. AnswersOf(t, "final") = 0 /\ AnswersOf(t, "error") = 0
    BY <1>3 DEF AnswersOf
  <2> QED
    BY <1>6, <2>1, <2>2 DEF Weight
<1>8. ChunksOfRunning /\ AnswerIsLast /\ ResultsAreRead
  BY <1>1, <1>3 DEF ChunksOfRunning, AnswerIsLast, ResultsAreRead
<1>9. ReadersCount
  <2> SUFFICES ASSUME NEW r \in Request
               PROVE  /\ received[r] = Cardinality({t \in IdsOf(r) : Finished(t)})
                      /\ \A t \in IdsOf(r) : Occurrences(delivered[t], "error") = 0
                      /\ IdsOf(r) # {} => HasNext(r)
    BY DEF ReadersCount
  <2>1. {t \in IdsOf(r) : Finished(t)} = {}
    BY <1>3, Ids DEF Finished
  <2>2. IdsOf(r) # {} => Cardinality(IdsOf(r)) > 0
    BY Ids, FS_EmptySet
  <2> QED
    BY <1>1, <1>3, <2>1, <2>2, Ids, FS_EmptySet DEF HasNext
<1>10. IdsAreWaiting
  BY <1>1 DEF IdsAreWaiting
<1>11. GoneIsCancelled
  BY <1>1, <1>6, Ids DEF GoneIsCancelled
<1>12. ChildrenAreRescued
  BY <1>2 DEF ChildrenAreRescued
<1> QED
  BY <1>4, <1>5, <1>7, <1>8, <1>9, <1>10, <1>11, <1>12 DEF Inv

\* A step that changes nothing keeps the invariant.
LEMMA StutterInv ==
    ASSUME Inv, UNCHANGED vars
    PROVE  Inv'
<1>1. UNCHANGED <<queue_tasks, queue_tasks_deferred, waiting_task_ids, queue_results, slots, main,
                  cur, ops, pc, received, delivered, overtaken>>
  BY DEF vars, queueVars, responseVars, mainVars, readerVars
<1>2. TypeOK /\ Shapes
  BY DEF Inv
<1>3. TypeOK' /\ Shapes'
  BY <1>1, <1>2 DEF TypeOK, QueueTypeOK, ResponseTypeOK, Shapes
<1>4. Counts
  BY <1>2, CountsType
<1>5. \A t \in Task : /\ Hand(t)' <= Hand(t)
                      /\ \A k : Occurrences(ops', SendOp(t, k)) = Occurrences(ops, SendOp(t, k))
                      /\ CancelPending(t)' <=> CancelPending(t)
  BY <1>1, <1>4 DEF Hand, CancelPending, Counts
<1> QED
  BY <1>1, <1>3, <1>5, MovesInv

\* No step of a reader or of the main loop breaks the invariant.
LEMMA NextInv ==
    ASSUME Inv, [Next]_vars
    PROVE  Inv'
<1>1. ASSUME NEW r \in Request, Reader(r) PROVE Inv'
  BY <1>1, RegisterInv, PostTasksInv, NextReceiveInv, NextTimeoutInv, StopResultsInv, StopCancelInv
     DEF Reader
<1>2. CASE MainLoop
  BY <1>2, ExecOpInv, LoopWakeInv, LoopPopInv, LoopProcessInv, LoopUpdateInv DEF MainLoop
<1>3. CASE AllServed \/ UNCHANGED vars
  BY <1>3, StutterInv DEF AllServed
<1> QED
  BY <1>1, <1>2, <1>3 DEF Next

\* The invariant holds in every state the server reaches, whatever the requests, the
\* number of slots, and the order in which HTTP threads and main loop run.
THEOREM TasksInvariant == Spec => []Inv
<1>1. Init => Inv
  BY InitInv
<1>2. Inv /\ [Next]_vars => Inv'
  BY NextInv
<1> QED
  BY <1>1, <1>2, PTL DEF Spec

\* The queues, the operations and the results are sequences of what they hold.
LEMMA SequencesOf ==
    ASSUME TypeOK
    PROVE  /\ queue_tasks \in Seq(Entry)
           /\ queue_tasks_deferred \in Seq([type : {"task"}, id : Task])
           /\ ops \in Seq(Op) /\ queue_results \in Seq(Result)
           /\ \A s \in Slot : /\ slots[s].task \in Task \cup {NoTask}
                              /\ slots[s].state \in SlotState
           /\ \A r \in Request : pc[r] \in ReaderPC
  BY DEF TypeOK, QueueTypeOK, ResponseTypeOK

\* post, defer, pop_deferred_task, launch, release and cleanup_pending_task move a task
\* and never copy it, and no child runs while its parent is still queued, deferred or
\* about to be deferred.
THEOREM TasksAreInOnePlace == Spec => []TaskInOnePlace
<1>1. Inv => TaskInOnePlace
  <2> SUFFICES ASSUME Inv PROVE TaskInOnePlace
    OBVIOUS
  <2>1. TypeOK /\ Shapes /\ OneWeight
    BY DEF Inv
  <2>2. Counts
    BY <2>1, CountsType
  <2>3. ASSUME NEW t \in Task PROVE Copies(t) <= 1
    <3>1. /\ Hand(t) + ParentHand(t) + OnSlots(t) + AnswersOf(t, "final") + AnswersOf(t, "error") <= 1
          /\ Hand(t) \in Nat /\ ParentHand(t) \in Nat /\ OnSlots(t) \in Nat
          /\ AnswersOf(t, "final") \in Nat /\ AnswersOf(t, "error") \in Nat
      BY <2>1, <2>2, OneThing
    <3>2. Copies(t) = Hand(t) + OnSlots(t)
      BY DEF Copies, Hand, OnSlots
    <3> QED
      BY <3>1, <3>2
  <2>4. ASSUME NEW s \in Slot, slots[s].state # "IDLE", IsChild(slots[s].task)
        PROVE  LET e == TaskEntry(ParentOf(slots[s].task))
               IN  /\ e \notin ToSet(queue_tasks) \cup ToSet(queue_tasks_deferred)
                   /\ DeferOp(ParentOf(slots[s].task)) \notin ToSet(ops)
    <3>1. PICK t \in Task : t = slots[s].task
      BY <2>1, <2>4, SequencesOf DEF Shapes
    <3>2. PICK p \in Task : p = ParentOf(t)
      BY <2>4, <3>1, Children
    <3>3. OnSlots(t) > 0
      BY <3>1, OnSlotsMeaning
    <3>4. /\ Hand(t) + ParentHand(t) + OnSlots(t) + AnswersOf(t, "final") + AnswersOf(t, "error") <= 1
          /\ Hand(t) \in Nat /\ ParentHand(t) \in Nat /\ OnSlots(t) \in Nat
          /\ AnswersOf(t, "final") \in Nat /\ AnswersOf(t, "error") \in Nat
      BY <2>1, <2>2, OneThing
    <3>5. ParentHand(t) = 0
      BY <3>3, <3>4
    <3>6. Hand(p) = 0
      BY <2>4, <3>1, <3>2, <3>5 DEF ParentHand
    <3>7. /\ queue_tasks \in Seq(Entry)
          /\ queue_tasks_deferred \in Seq([type : {"task"}, id : Task])
          /\ ops \in Seq(Op)
      BY <2>1, SequencesOf
    <3>8. /\ Occurrences(queue_tasks, TaskEntry(p)) \in Nat
          /\ Occurrences(queue_tasks_deferred, TaskEntry(p)) \in Nat
          /\ Occurrences(ops, DeferOp(p)) \in Nat
      BY <3>7, OccurrencesType
    <3>9. /\ Occurrences(queue_tasks, TaskEntry(p)) = 0
          /\ Occurrences(queue_tasks_deferred, TaskEntry(p)) = 0
          /\ Occurrences(ops, DeferOp(p)) = 0
      <4>1. PICK a, b, d : /\ a = Occurrences(queue_tasks, TaskEntry(p))
                           /\ b = Occurrences(queue_tasks_deferred, TaskEntry(p))
                           /\ d = Occurrences(ops, DeferOp(p))
        OBVIOUS
      <4>2. a + b + (IF cur = TaskEntry(p) THEN 1 ELSE 0) + d = 0
        BY <3>6, <4>1 DEF Hand
      <4>3. a \in Nat /\ b \in Nat /\ d \in Nat
        BY <3>8, <4>1
      <4>4. a = 0 /\ b = 0 /\ d = 0
        BY ONLY <4>2, <4>3
      <4> QED
        BY <4>1, <4>4
    <3>10. TaskEntry(p) \notin ToSet(queue_tasks)
      BY <3>7, <3>9, OccursIn
    <3>11. TaskEntry(p) \notin ToSet(queue_tasks_deferred)
      BY <3>7, <3>9, OccursIn
    <3>12. DeferOp(p) \notin ToSet(ops)
      BY <3>7, <3>9, OccursIn
    <3> QED
      BY <3>1, <3>2, <3>10, <3>11, <3>12
  <2> QED
    BY <2>1, <2>3, <2>4 DEF TaskInOnePlace
<1> QED
  BY <1>1, TasksInvariant, PTL

\* server_response never keeps a result for a reader that is gone: the reader either
\* still receives, or is about to purge what is left (stop()).
THEOREM QueuedResultsHaveReaders == Spec => []ResultsHaveReaders
<1>1. Inv => ResultsHaveReaders
  <2> SUFFICES ASSUME Inv, NEW i \in DOMAIN queue_results
               PROVE  LET r == Owner(queue_results[i].id)
                      IN  pc[r] = "waiting" \/ (pc[r] = "stopping" /\ HasNext(r))
    BY DEF ResultsHaveReaders
  <2>1. i \in 1 .. Len(queue_results)
    BY SequencesOf DEF Inv
  <2>2. PICK r \in Request : /\ queue_results[i].id \in IdsOf(r)
                             /\ pc[r] = "waiting" \/ (pc[r] = "stopping" /\ HasNext(r))
    BY <2>1 DEF Inv, ResultsAreRead
  <2>3. Owner(queue_results[i].id) = r
    BY <2>2, OneOwner
  <2> QED
    BY <2>2, <2>3
<1> QED
  BY <1>1, TasksInvariant, PTL

\* An entry in the queue, or in the hands of the main loop, is not pending when it
\* is neither.
LEMMA PendingMeans ==
    ASSUME TypeOK, NEW t
    PROVE  CancelPending(t) <=> CancelEntry(t) \in ToSet(queue_tasks) \/ cur = CancelEntry(t)
<1>1. queue_tasks \in Seq(Entry)
  BY SequencesOf
<1>2. Occurrences(queue_tasks, CancelEntry(t)) > 0 <=> CancelEntry(t) \in ToSet(queue_tasks)
  BY <1>1, OccursIn
<1> QED
  BY <1>2 DEF CancelPending

\* A CANCEL misses a task in one window only, between the pop of the task by
\* start_loop and its deferral: whatever else is left of a request whose reader is
\* gone is on its way to be cancelled.
THEOREM OnlyOvertakenTasksSurvive == Spec => []OnlyOvertakenSurvive
<1>1. Inv => OnlyOvertakenSurvive
  <2> SUFFICES ASSUME Inv, NEW t \in AbandonedWork
               PROVE  t \in overtaken \/ ParentOf(t) \in overtaken
    BY DEF OnlyOvertakenSurvive
  <2>1. TypeOK /\ OneWeight /\ GoneIsCancelled
    BY DEF Inv
  <2>2. Counts
    BY <2>1, CountsType
  <2>3. /\ t \in Task /\ pc[Owner(t)] = "done" /\ Copies(t) > 0
        /\ CancelEntry(t) \notin ToSet(queue_tasks) /\ cur # CancelEntry(t)
    BY DEF AbandonedWork
  <2>4. ~CancelPending(t)
    BY <2>1, <2>3, PendingMeans
  <2>5. /\ Hand(t) \in Nat /\ OnSlots(t) \in Nat
        /\ Hand(t) > 0 \/ OnSlots(t) > 0 => Posted(t)
    BY <2>1, <2>2, <2>3, OneThing
  <2>6. Hand(t) > 0 \/ OnSlots(t) > 0
    <3>1. Copies(t) = Hand(t) + OnSlots(t)
      BY DEF Copies, Hand, OnSlots
    <3> QED
      BY <2>3, <2>5, <3>1
  <2>7. PICK r \in Request : t \in IdsOf(r)
    BY <2>5, <2>6 DEF Posted
  <2>8. pc[r] = "done"
    BY <2>3, <2>7, OneOwner
  <2>9. CASE Hand(t) > 0
    BY <2>1, <2>7, <2>8, <2>9 DEF GoneIsCancelled
  <2>10. CASE OnSlots(t) > 0
    BY <2>1, <2>4, <2>7, <2>8, <2>10 DEF GoneIsCancelled
  <2> QED
    BY <2>6, <2>9, <2>10
<1> QED
  BY <1>1, TasksInvariant, PTL

\* A child that waits on its slot for a parent that no slot runs is about to be
\* released: its reader has an error to read or is stopping, or its CANCEL is on the
\* way, unless the CANCEL of the parent overtook the parent.
THEOREM StrandedChildrenAreCancelled == Spec => []StrandedChildIsCancelled
<1>1. Inv => StrandedChildIsCancelled
  <2> SUFFICES ASSUME Inv, NEW s \in Slot, slots[s].state = "WAIT_OTHER"
               PROVE  LET c == slots[s].task
                          r == Owner(c)
                          isError(x) == x.id \in IdsOf(r) /\ x.kind = "error"
                      IN  \/ \E p \in InState("PROMPT") : slots[p].task = ParentOf(c)
                          \/ /\ pc[r] = "waiting"
                             /\ \/ \E i \in DOMAIN queue_results : isError(queue_results[i])
                                \/ \E i \in DOMAIN ops : ops[i].op = "send" /\ isError(ops[i].result)
                          \/ pc[r] \in {"stopping", "cancelling"}
                          \/ CancelEntry(c) \in ToSet(queue_tasks)
                          \/ cur = CancelEntry(c)
                          \/ ParentOf(c) \in overtaken
    BY DEF StrandedChildIsCancelled
  <2>1. TypeOK /\ Shapes /\ OneWeight /\ ChildrenAreRescued
    BY DEF Inv
  <2>2. Counts
    BY <2>1, CountsType
  <2>3. PICK c \in Task : c = slots[s].task
    BY <2>1, SequencesOf DEF Shapes
  <2>4. OnSlots(c) > 0
    BY <2>3, OnSlotsMeaning
  <2>5. PICK r \in Request : c \in IdsOf(r)
    BY <2>1, <2>2, <2>4, OneThing DEF Posted
  <2>6. Owner(c) = r
    BY <2>5, OneOwner
  <2>7. CASE \E p \in Slot : slots[p].state = "PROMPT" /\ slots[p].task = ParentOf(c)
    BY <2>3, <2>7 DEF InState
  <2>8. CASE Rescue(c, r)
    <3>1. CASE pc[r] = "waiting" /\ ErrorComing(r)
      <4>1. PICK t \in IdsOf(r) : \/ Occurrences(queue_results, Res(t, "error")) > 0
                                  \/ Occurrences(ops, SendOp(t, "error")) > 0
        BY <3>1 DEF ErrorComing
      <4>2. queue_results \in Seq(Result) /\ ops \in Seq(Op)
        BY <2>1, SequencesOf
      <4>3. CASE Occurrences(queue_results, Res(t, "error")) > 0
        <5>1. Res(t, "error") \in ToSet(queue_results)
          BY <4>2, <4>3, OccursIn
        <5>2. PICK i \in DOMAIN queue_results : queue_results[i] = Res(t, "error")
          BY <4>2, <5>1 DEF ToSet
        <5>3. queue_results[i].id \in IdsOf(r) /\ queue_results[i].kind = "error"
          BY <5>2 DEF Res
        <5> QED
          BY <2>3, <2>6, <3>1, <5>3
      <4>4. CASE Occurrences(ops, SendOp(t, "error")) > 0
        <5>1. SendOp(t, "error") \in ToSet(ops)
          BY <4>2, <4>4, OccursIn
        <5>2. PICK i \in DOMAIN ops : ops[i] = SendOp(t, "error")
          BY <4>2, <5>1 DEF ToSet
        <5>3. ops[i].op = "send" /\ ops[i].result.id \in IdsOf(r) /\ ops[i].result.kind = "error"
          BY <5>2 DEF SendOp
        <5> QED
          BY <2>3, <2>6, <3>1, <5>3
      <4> QED
        BY <4>1, <4>3, <4>4
    <3>2. CASE pc[r] \in {"stopping", "cancelling"}
      BY <2>3, <2>6, <3>2
    <3>3. CASE CancelPending(c)
      BY <2>1, <2>3, <3>3, PendingMeans
    <3>4. CASE ParentOf(c) \in overtaken
      BY <2>3, <3>4
    <3> QED
      BY <2>8, <3>1, <3>2, <3>3, <3>4 DEF Rescue
  <2> QED
    BY <2>1, <2>3, <2>5, <2>7, <2>8 DEF ChildrenAreRescued
<1> QED
  BY <1>1, TasksInvariant, PTL

-----------------------------------------------------------------------------
(* The refinement                                                          *)

\* The phase of each request, as the refinement mapping defines it.
PhaseOf(p) == CASE p \in {"idle", "registered"} -> "new"
                [] p = "waiting" -> "open"
                [] OTHER -> "closed"

\* What the client has of a task: an answer, exactly when the task has ended.
LEMMA AnsweredMeans ==
    ASSUME TypeOK, NEW t \in Task
    PROVE  Life!Answered(t) <=> Ended(t)
<1>1. delivered[t] \in Seq(ResultKind)
  BY DEF TypeOK
<1>2. \A k : Occurrences(delivered[t], k) \in Nat
  BY <1>1, OccurrencesType
<1>3. \A k : Occurrences(delivered[t], k) = 0 <=> \A i \in 1 .. Len(delivered[t]) : delivered[t][i] # k
  BY <1>1, OccurrencesMeaning
<1>4. /\ Occurrences(delivered[t], "final") > 0 <=> \E i \in 1 .. Len(delivered[t]) : delivered[t][i] = "final"
      /\ Occurrences(delivered[t], "error") > 0 <=> \E i \in 1 .. Len(delivered[t]) : delivered[t][i] = "error"
  BY <1>2, <1>3
<1>5. /\ DOMAIN delivered[t] = 1 .. Len(delivered[t])
      /\ \A i \in 1 .. Len(delivered[t]) : delivered[t][i] \in {"partial", "final", "error"}
  BY <1>1 DEF ResultKind
<1> QED
  BY <1>4, <1>5 DEF Ended, Finished, Life!Answered

\* A step that leaves the phases and what is delivered alone is a stutter.
LEMMA LifeStutters ==
    ASSUME UNCHANGED delivered, \A r \in Request : PhaseOf(pc'[r]) = PhaseOf(pc[r])
    PROVE  UNCHANGED Life!lifeVars
  BY DEF PhaseOf, Life!lifeVars

\* A step of reader q alone leaves the phases of the others.
LEMMA PhaseChanges ==
    ASSUME TypeOK, NEW q \in Request, NEW p \in ReaderPC, pc' = [pc EXCEPT ![q] = p]
    PROVE  /\ pc'[q] = p
           /\ \A r \in Request : r # q => pc'[r] = pc[r]
  BY DEF TypeOK

\* The start of the server is the start of every request's life.
LEMMA InitIsLife == Init => Life!LifeInit
<1> SUFFICES ASSUME Init PROVE Life!LifeInit
  OBVIOUS
<1>1. pc = [r \in Request |-> "idle"] /\ delivered = [t \in Task |-> <<>>]
  BY DEF Init
<1> QED
  BY <1>1 DEF Life!LifeInit

\* next() returning a result delivers it: the task has had no answer yet, and the request
\* closes on an error or on the last answer missing.
LEMMA ReceiveIsDeliver ==
    ASSUME Inv, Inv', NEW q \in Request, Next_Receive(q)
    PROVE  Life!LifeNext
<1> DEFINE i == FirstResultOf(IdsOf(q))
           res == queue_results[i]
           n == received[q] + (IF res.kind = "final" THEN 1 ELSE 0)
           full == n = Cardinality(IdsOf(q))
           p == IF res.kind = "error" \/ full THEN "stopping" ELSE "waiting"
<1>1. /\ TypeOK /\ AnswerIsLast /\ ReadersCount
      /\ TypeOK' /\ ReadersCount'
  BY DEF Inv
<1>2. /\ pc[q] = "waiting" /\ i # 0
      /\ received' = [received EXCEPT ![q] = n]
      /\ delivered' = [delivered EXCEPT ![res.id] = Append(@, res.kind)]
      /\ pc' = [pc EXCEPT ![q] = p]
  BY DEF Next_Receive, TakeResult
<1>3. /\ i \in 1 .. Len(queue_results) /\ res.id \in IdsOf(q)
  BY <1>1, <1>2, FirstResultMeaning DEF TypeOK
<1>4. res \in Result /\ ~Ended(res.id)
  BY <1>1, <1>3, SequencesOf DEF AnswerIsLast
<1> HIDE DEF i
<1>5. PICK u \in IdsOf(q), k \in ResultKind : u = res.id /\ k = res.kind /\ ~Ended(u)
  BY <1>3, <1>4 DEF Result
<1>6. /\ n = received[q] + (IF k = "final" THEN 1 ELSE 0)
      /\ p = IF k = "error" \/ full THEN "stopping" ELSE "waiting"
      /\ delivered' = [delivered EXCEPT ![u] = Append(@, k)]
  BY <1>2, <1>5
<1> HIDE DEF res, p
<1>7. u \in Task /\ IdsOf(q) \subseteq Task /\ Cardinality(IdsOf(q)) \in Nat
  BY <1>5, Ids
<1>8. received[q] \in Nat /\ received'[q] = n
  BY <1>1, <1>2 DEF TypeOK
<1>9. received[q] < Cardinality(IdsOf(q))
  BY <1>1, <1>2, <1>5 DEF ReadersCount, HasNext
<1>10. p \in ReaderPC /\ pc'[q] = p /\ \A r \in Request : r # q => pc'[r] = pc[r]
  <2>1. p \in ReaderPC
    BY <1>6 DEF ReaderPC
  <2> QED
    BY <1>1, <1>2, <2>1, PhaseChanges
<1>11. \A t \in Task : t # u => delivered'[t] = delivered[t]
  BY <1>1, <1>6 DEF TypeOK
<1>12. full => k = "final" /\ \A t \in IdsOf(q) \ {u} : Life!Answered(t)
  <2> SUFFICES ASSUME full, NEW t \in IdsOf(q) \ {u} PROVE Life!Answered(t) /\ k = "final"
    BY <1>6, <1>8, <1>9
  <2>1. k = "final"
    BY <1>6, <1>8, <1>9
  <2>2. ~HasNext(q)'
    BY <1>7, <1>8 DEF HasNext
  <2>3. Finished(t)'
    BY <1>1, <2>2, AllFinishedNext
  <2>4. Ended(t)
    BY <1>7, <1>11, <2>3 DEF Finished, Ended
  <2> QED
    BY <1>1, <1>7, <2>1, <2>4, AnsweredMeans
<1>13. k = "final" /\ (\A t \in IdsOf(q) \ {u} : Life!Answered(t)) => full
  <2> SUFFICES ASSUME k = "final", \A t \in IdsOf(q) \ {u} : Life!Answered(t) PROVE full
    OBVIOUS
  <2>1. ASSUME NEW t \in IdsOf(q), t # u PROVE Finished(t)'
    <3>1. Ended(t)
      BY <1>1, <1>7, <2>1, AnsweredMeans
    <3>2. Occurrences(delivered[t], "error") = 0
      BY <1>1, <1>2 DEF ReadersCount
    <3>3. Finished(t)
      BY <3>1, <3>2 DEF Ended
    <3> QED
      BY <1>7, <1>11, <2>1, <3>3 DEF Finished
  <2>2. Finished(u)'
    <3>1. delivered[u] \in Seq(ResultKind) /\ delivered'[u] = Append(delivered[u], "final")
      BY <1>1, <1>6, <1>7 DEF TypeOK
    <3>2. Occurrences(delivered'[u], "final") = Occurrences(delivered[u], "final") + 1
      BY <1>5, <3>1, OccurrencesAppend
    <3>3. Occurrences(delivered[u], "final") \in Nat
      BY <3>1, OccurrencesType
    <3> QED
      BY <3>2, <3>3 DEF Finished
  <2>3. {t \in IdsOf(q) : Finished(t)'} = IdsOf(q)
    BY <2>1, <2>2
  <2>4. received'[q] = Cardinality({t \in IdsOf(q) : Finished(t)'})
    BY <1>1 DEF ReadersCount
  <2> QED
    BY <1>8, <2>3, <2>4
<1> HIDE DEF full
<1>14. Life!Deliver(q, u, k)
  <2>1. ~Life!Answered(u)
    BY <1>1, <1>5, <1>7, AnsweredMeans
  <2>2. p = IF \/ k = "error"
               \/ k = "final" /\ \A t \in IdsOf(q) \ {u} : Life!Answered(t)
            THEN "stopping" ELSE "waiting"
    BY <1>6, <1>12, <1>13
  <2>3. PICK closes : closes = (\/ k = "error"
                                \/ k = "final" /\ \A t \in IdsOf(q) \ {u} : Life!Answered(t))
    OBVIOUS
  <2>4. [r \in Request |-> PhaseOf(pc'[r])]
           = [[r \in Request |-> PhaseOf(pc[r])] EXCEPT ![q] = IF closes THEN "closed" ELSE "open"]
    <3>1. pc'[q] = IF closes THEN "stopping" ELSE "waiting"
      BY <1>10, <2>2, <2>3
    <3>2. PhaseOf(pc'[q]) = IF closes THEN "closed" ELSE "open"
      BY <3>1 DEF PhaseOf
    <3> QED
      BY <1>10, <3>2
  <2> QED
    BY <1>2, <1>6, <2>1, <2>3, <2>4 DEF PhaseOf, Life!Deliver
<1> QED
  BY <1>5, <1>14 DEF ResultKind, Life!LifeNext

\* post_tasks submits the request; a reader that gives up leaves it.
LEMMA PostIsSubmit ==
    ASSUME TypeOK, NEW q \in Request, PostTasks(q)
    PROVE  Life!LifeNext
<1>1. pc[q] = "registered" /\ pc' = [pc EXCEPT ![q] = "waiting"] /\ UNCHANGED delivered
  BY DEF PostTasks
<1>2. pc'[q] = "waiting" /\ \A r \in Request : r # q => pc'[r] = pc[r]
  BY <1>1, PhaseChanges DEF ReaderPC
<1>3. [r \in Request |-> PhaseOf(pc'[r])]
         = [[r \in Request |-> PhaseOf(pc[r])] EXCEPT ![q] = "open"]
  BY <1>2 DEF PhaseOf
<1>4. Life!Submit(q)
  BY <1>1, <1>3 DEF PhaseOf, Life!Submit
<1> QED
  BY <1>4 DEF Life!LifeNext

\* A client that disconnects leaves the request.
LEMMA TimeoutIsLeave ==
    ASSUME TypeOK, NEW q \in Request, Next_Timeout(q)
    PROVE  Life!LifeNext
<1>1. pc[q] = "waiting" /\ pc' = [pc EXCEPT ![q] = "stopping"] /\ UNCHANGED delivered
  BY DEF Next_Timeout
<1>2. pc'[q] = "stopping" /\ \A r \in Request : r # q => pc'[r] = pc[r]
  BY <1>1, PhaseChanges DEF ReaderPC
<1>3. [r \in Request |-> PhaseOf(pc'[r])]
         = [[r \in Request |-> PhaseOf(pc[r])] EXCEPT ![q] = "closed"]
  BY <1>2 DEF PhaseOf
<1>4. Life!Leave(q)
  BY <1>1, <1>3 DEF PhaseOf, Life!Leave
<1> QED
  BY <1>4 DEF Life!LifeNext

\* The steps of a reader that the client does not see.
LEMMA ReaderStutters ==
    ASSUME TypeOK, NEW q \in Request, Register(q) \/ Stop_Results(q) \/ Stop_Cancel(q)
    PROVE  UNCHANGED Life!lifeVars
<1>1. /\ UNCHANGED delivered
      /\ \/ pc[q] = "idle" /\ pc' = [pc EXCEPT ![q] = "registered"]
         \/ pc[q] = "stopping" /\ pc' = [pc EXCEPT ![q] = "cancelling"]
         \/ pc[q] = "stopping" /\ pc' = [pc EXCEPT ![q] = "done"]
         \/ pc[q] = "cancelling" /\ pc' = [pc EXCEPT ![q] = "done"]
  BY DEF Register, Stop_Results, Stop_Cancel
<1>2. PICK p \in ReaderPC : pc' = [pc EXCEPT ![q] = p] /\ PhaseOf(p) = PhaseOf(pc[q])
  BY <1>1 DEF ReaderPC, PhaseOf
<1>3. pc'[q] = p /\ \A r \in Request : r # q => pc'[r] = pc[r]
  BY <1>2, PhaseChanges
<1>4. \A r \in Request : PhaseOf(pc'[r]) = PhaseOf(pc[r])
  BY <1>2, <1>3
<1> QED
  BY <1>1, <1>4, LifeStutters

\* Every step of the server is a step of a request's life or a stutter.
LEMMA NextIsLife ==
    ASSUME Inv, Inv', [Next]_vars
    PROVE  [Life!LifeNext]_(Life!lifeVars)
<1>1. TypeOK
  BY DEF Inv
<1>2. ASSUME NEW r \in Request, Reader(r)
      PROVE  Life!LifeNext \/ UNCHANGED Life!lifeVars
  BY <1>1, <1>2, ReceiveIsDeliver, PostIsSubmit, TimeoutIsLeave, ReaderStutters DEF Reader
<1>3. CASE MainLoop \/ AllServed \/ UNCHANGED vars
  <2>1. UNCHANGED <<pc, delivered>>
    <3>1. CASE MainLoop
      BY <3>1 DEF MainLoop, ExecOp, Loop_Wake, Loop_Pop, Loop_Process, Loop_Update, readerVars
    <3>2. CASE AllServed \/ UNCHANGED vars
      BY <3>2 DEF AllServed, vars, readerVars
    <3> QED
      BY <1>3, <3>1, <3>2
  <2>2. UNCHANGED Life!lifeVars
    BY <2>1, LifeStutters
  <2> QED
    BY <2>2
<1> QED
  BY <1>2, <1>3 DEF Next

\* The server implements RequestLifecycle: whatever happens to queues and slots, every
\* task is answered at most once, its chunks come before its answer, the first error or
\* the last answer closes the request, and a closed request is delivered nothing.
THEOREM ServerKeepsItsPromise == Spec => KeepsItsPromise
<1>1. Init => Life!LifeInit
  BY InitIsLife
<1>2. Inv /\ Inv' /\ [Next]_vars => [Life!LifeNext]_(Life!lifeVars)
  BY NextIsLife
<1>3. Spec => []Inv
  BY TasksInvariant
<1> QED
  BY <1>1, <1>2, <1>3, PTL DEF Spec, KeepsItsPromise, Life!LifeSpec

-----------------------------------------------------------------------------
(* Deferred tasks are woken up: when all slots are free and a task is       *)
(* deferred, a wake-up is among the calls the main loop still makes, or a   *)
(* completion is on its way to a slot and will wake one up when it leaves   *)
(* it.                                                                      *)

\* Nothing fails on its way through the server.
Faultless == Refusable = {} /\ ~DecodeMayFail

\* No slot action, no launch that is refused, no client that leaves; and an error ends no request
\* that has other tasks.
Undisturbed ==
    /\ \A t \in Task : Kind[t] # "slotop"
    /\ Rejected = {} /\ MayLeave = {}
    /\ Faultless \/ \A r \in Request : \A t, u \in IdsOf(r) : t = u

\* Only completions are deferred, and only while some slot is busy.
CompletionsAreDeferred ==
    \A t \in Task : /\ Occurrences(queue_tasks_deferred, TaskEntry(t)) > 0 => Kind[t] = "completion"
                    /\ Occurrences(ops, DeferOp(t)) > 0 => Kind[t] = "completion" /\ Free # Slot

\* The completion t is on its way to a slot.
OnItsWay(t) == Kind[t] = "completion"
      /\ (Occurrences(queue_tasks, TaskEntry(t)) > 0 \/ cur = TaskEntry(t))

\* When all slots are free and tasks are deferred, one is about to be woken up, or a completion is
\* about to get a slot, whose release will wake one up.
SomeTaskWakes ==
    queue_tasks_deferred # <<>> /\ Free = Slot =>
        (\E s \in Slot : Occurrences(ops, PopDeferOp(s)) > 0) \/ \E t \in Task : OnItsWay(t)

\* Without faults there is no error.
NoErrors ==
    Faultless => \A t \in Task : Occurrences(ops, SendOp(t, "error")) = 0
          /\ Occurrences(queue_results, Res(t, "error")) = 0

\* A reader that stops early has no task left in the server.
EndedEarly ==
    \A r \in Request : pc[r] = "cancelling" \/ (pc[r] = "stopping" /\ HasNext(r)) =>
          \A t \in IdsOf(r) : Ended(t)

WakeInv == CompletionsAreDeferred /\ SomeTaskWakes /\ NoErrors /\ EndedEarly

\* Something is deferred exactly when some task is.
LEMMA DeferredSome ==
    ASSUME NEW d \in Seq([type : {"task"}, id : Task])
    PROVE  /\ \A t : Occurrences(d, TaskEntry(t)) \in Nat
           /\ d # <<>> <=> \E t \in Task : Occurrences(d, TaskEntry(t)) > 0
<1> DEFINE D == [type : {"task"}, id : Task]
<1>1. \A e : Occurrences(d, e) \in Nat
  BY OccurrencesType
<1>2. ASSUME d # <<>> PROVE \E t \in Task : Occurrences(d, TaskEntry(t)) > 0
  <2>1. Head(d) \in D /\ Occurrences(d, Head(d)) = 1 + Occurrences(Tail(d), Head(d))
        /\ Tail(d) \in Seq(D)
    <3>1. Head(d) \in D /\ Tail(d) \in Seq(D)
      BY <1>2, HeadTailProperties
    <3>2. Occurrences(d, Head(d))
          = (IF Head(d) = Head(d) THEN 1 ELSE 0) + Occurrences(Tail(d), Head(d))
      BY <1>2, OccurrencesTail
    <3> QED
      BY <3>1, <3>2
  <2>2. Occurrences(Tail(d), Head(d)) \in Nat
    BY <2>1, OccurrencesType
  <2>3. Occurrences(d, Head(d)) > 0
    BY <2>1, <2>2
  <2>4. Head(d) = TaskEntry(Head(d).id) /\ Head(d).id \in Task
    BY <2>1 DEF TaskEntry
  <2> QED
    BY <2>3, <2>4
<1>3. \A e : Occurrences(<<>>, e) = 0
  BY OccurrencesEmpty
<1> QED
  BY <1>1, <1>2, <1>3

\* A step that leaves the slots, defers nothing, and takes no completion off its way to them.
LEMMA WakesKept ==
    ASSUME TypeOK, TypeOK', CompletionsAreDeferred, SomeTaskWakes, UNCHANGED slots,
           \A t \in Task :
              /\ OnItsWay(t) => OnItsWay(t)'
              /\ Occurrences(queue_tasks_deferred', TaskEntry(t)) > 0 =>
                    Occurrences(queue_tasks_deferred, TaskEntry(t)) > 0
              /\ Occurrences(ops', DeferOp(t)) > 0 => Occurrences(ops, DeferOp(t)) > 0,
           \A s \in Slot : Occurrences(ops, PopDeferOp(s)) > 0 =>
                 Occurrences(ops', PopDeferOp(s)) > 0
    PROVE  CompletionsAreDeferred' /\ SomeTaskWakes'
<1>1. ASSUME queue_tasks_deferred' # <<>> PROVE queue_tasks_deferred # <<>>
  <2>1. /\ queue_tasks_deferred \in Seq([type : {"task"}, id : Task])
        /\ queue_tasks_deferred' \in Seq([type : {"task"}, id : Task])
    BY DEF TypeOK, QueueTypeOK
  <2>2. PICK t \in Task : Occurrences(queue_tasks_deferred', TaskEntry(t)) > 0
    BY <1>1, <2>1, DeferredSome
  <2>3. Occurrences(queue_tasks_deferred, TaskEntry(t)) > 0
    BY <2>2
  <2> QED
    BY <2>1, <2>3, DeferredSome
<1>2. Free' = Free
  BY DEF Free, IsProcessing
<1>3. CompletionsAreDeferred'
  BY <1>2 DEF CompletionsAreDeferred
<1>4. SomeTaskWakes'
  <2> SUFFICES ASSUME queue_tasks_deferred' # <<>>, Free' = Slot
               PROVE  (\E s \in Slot : Occurrences(ops', PopDeferOp(s)) > 0)
                     \/ \E t \in Task : OnItsWay(t)'
    BY DEF SomeTaskWakes
  <2> QED
    BY <1>1, <1>2 DEF SomeTaskWakes
<1> QED
  BY <1>3, <1>4

\* A task that has ended is in none of the queues.
LEMMA EndedIsGone ==
    ASSUME Inv, NEW t \in Task, Ended(t)
    PROVE  Hand(t) = 0 /\ Occurrences(queue_tasks, TaskEntry(t)) = 0
          /\ Occurrences(queue_tasks_deferred, TaskEntry(t)) = 0
<1>1. TypeOK /\ OneWeight
  BY DEF Inv
<1>2. Counts
  BY <1>1, CountsType
<1>3. /\ Hand(t) + ParentHand(t) + OnSlots(t) + AnswersOf(t, "final") + AnswersOf(t, "error") <= 1
      /\ Hand(t) \in Nat /\ ParentHand(t) \in Nat /\ OnSlots(t) \in Nat
      /\ AnswersOf(t, "final") \in Nat /\ AnswersOf(t, "error") \in Nat
      /\ Occurrences(delivered[t], "final") \in Nat /\ Occurrences(delivered[t], "error") \in Nat
      /\ Occurrences(delivered[t], "final") <= AnswersOf(t, "final")
      /\ Occurrences(delivered[t], "error") <= AnswersOf(t, "error")
  BY <1>1, <1>2, OneThing
<1>4. Hand(t) = 0
  <2>1. AnswersOf(t, "final") > 0 \/ AnswersOf(t, "error") > 0
    <3>1. Occurrences(delivered[t], "final") > 0 \/ Occurrences(delivered[t], "error") > 0
      BY DEF Ended, Finished
    <3> QED
      BY <1>3, <3>1
  <2> QED
    BY <1>3, <2>1
<1>5. /\ Occurrences(queue_tasks, TaskEntry(t)) \in Nat
            /\ Occurrences(queue_tasks_deferred, TaskEntry(t)) \in Nat
      /\ Occurrences(ops, DeferOp(t)) \in Nat
  BY <1>2 DEF Counts
<1>6. PICK x \in Nat, y \in Nat, z \in Nat, b \in Nat :
         /\ x = Occurrences(queue_tasks, TaskEntry(t))
               /\ y = Occurrences(queue_tasks_deferred, TaskEntry(t))
         /\ z = Occurrences(ops, DeferOp(t)) /\ b = IF cur = TaskEntry(t) THEN 1 ELSE 0
  BY <1>5
<1>7. x + y + b + z = 0
  BY <1>4, <1>6 DEF Hand
<1>8. x = 0 /\ y = 0
  BY <1>7
<1> QED
  BY <1>4, <1>6, <1>8

\* The steps of a reader.
LEMMA ReaderWakes ==
    ASSUME Undisturbed, Inv, Inv', WakeInv, NEW q \in Request, Reader(q)
    PROVE  WakeInv'
<1>1. TypeOK /\ TypeOK' /\ CompletionsAreDeferred /\ SomeTaskWakes /\ NoErrors /\ EndedEarly
  BY DEF Inv, WakeInv
<1>2. Counts /\ Counts' /\ pc \in [Request -> ReaderPC] /\ received \in [Request -> Nat]
      /\ delivered \in [Task -> Seq(ResultKind)] /\ IdsOf(q) \subseteq Task
            /\ \A r \in Request : IdsOf(r) \subseteq Task
  BY <1>1, CountsType, CountsTypeNext, Ids DEF TypeOK
\* A step that leaves the queues and what has been delivered
<1>3. ASSUME UNCHANGED <<queueVars, mainVars, delivered, received>>,
      \A r \in Request \ {q} : pc'[r] = pc[r],
             \A e : Occurrences(queue_results', e) <= Occurrences(queue_results, e),
             \/ pc'[q] \notin {"stopping", "cancelling"}
             \/ pc[q] = "stopping" /\ HasNext(q)
      PROVE  WakeInv'
  <2>1. UNCHANGED <<queue_tasks, queue_tasks_deferred, slots, cur, ops>>
    BY <1>3 DEF queueVars, mainVars
  <2>2. CompletionsAreDeferred' /\ SomeTaskWakes'
    <3>1. \A t \in Task : OnItsWay(t) => OnItsWay(t)'
      BY <2>1 DEF OnItsWay
    <3> QED
      BY <1>1, <2>1, <3>1, WakesKept
  <2>3. NoErrors'
    <3>1. \A t \in Task : Occurrences(queue_results', Res(t, "error")) \in Nat
          /\ Occurrences(queue_results, Res(t, "error")) \in Nat
      BY <1>2 DEF Counts
    <3> QED
      BY <1>1, <1>3, <2>1, <3>1 DEF NoErrors, Faultless
  <2>4. EndedEarly'
    <3>1. \A r \in Request : HasNext(r)' = HasNext(r) /\ \A t : Ended(t)' = Ended(t)
      BY <1>3 DEF HasNext, Ended, Finished
    <3> QED
      BY <1>1, <1>3, <3>1 DEF EndedEarly
  <2> QED
    BY <2>2, <2>3, <2>4 DEF WakeInv
<1>4. ASSUME Register(q) PROVE WakeInv'
  <2>1. UNCHANGED <<queueVars, mainVars, delivered, received, queue_results>>
        /\ pc' = [pc EXCEPT ![q] = "registered"]
    BY <1>4 DEF Register, AddWaitingTaskIds
  <2>2. \A e : Occurrences(queue_results', e) \in Nat
        /\ Occurrences(queue_results', e) = Occurrences(queue_results, e)
    BY <1>2, <2>1 DEF Counts
  <2> QED
    BY <1>2, <1>3, <2>1, <2>2
<1>5. ASSUME Next_Timeout(q) PROVE FALSE
  BY <1>5 DEF Next_Timeout, Undisturbed
<1>6. ASSUME Stop_Results(q) PROVE WakeInv'
  <2>1. /\ UNCHANGED <<queueVars, mainVars, delivered, received>> /\ pc[q] = "stopping"
        /\ pc' = [pc EXCEPT ![q] = IF HasNext(q) THEN "cancelling" ELSE "done"]
    BY <1>6 DEF Stop_Results
  <2>2. ASSUME NEW e PROVE Occurrences(queue_results', e) <= Occurrences(queue_results, e)
    <3>1. Occurrences(queue_results, e) \in Nat
      BY <1>2 DEF Counts
    <3>2. CASE queue_results' = queue_results
      BY <3>1, <3>2
    <3> DEFINE pos == {i \in DOMAIN queue_results : queue_results[i].id \notin IdsOf(q)}
    <3>3. CASE queue_results' = Kept(queue_results, pos)
      <4>1. queue_results \in Seq(Result) /\ pos \in SUBSET (1 .. Len(queue_results))
        BY <1>1 DEF TypeOK, ResponseTypeOK
      <4> HIDE DEF pos
      <4> QED
        BY <3>3, <4>1, KeptErases
    <3> QED
      BY <1>6, <3>2, <3>3 DEF Stop_Results, RemoveWaitingAndResults, RemoveWaitingTaskIds
  <2>3. /\ \A r \in Request \ {q} : pc'[r] = pc[r]
        /\ pc'[q] = IF HasNext(q) THEN "cancelling" ELSE "done"
    BY <1>2, <2>1
  <2> QED
    BY <1>3, <2>1, <2>2, <2>3
<1>7. ASSUME PostTasks(q) PROVE WakeInv'
  <2> DEFINE es == [i \in DOMAIN TasksOf[q] |-> TaskEntry(TasksOf[q][i])]
             front == \E t \in ToSet(TasksOf[q]) : Kind[t] = "query"
  <2>1. /\ pc' = [pc EXCEPT ![q] = "waiting"] /\ Post(es, front)
        /\ UNCHANGED <<queue_results, slots, cur, ops, received, delivered>>
    BY <1>7 DEF PostTasks, responseVars, mainVars
  <2>2. es \in Seq(Entry) /\ CancelTargets(es) = {} /\ \A t : Occurrences(es, TaskEntry(t)) \in Nat
    BY PostedEntries
  <2>3. front \in BOOLEAN /\ QueueTypeOK
    BY <1>1 DEF TypeOK
  <2> HIDE DEF es, front
  <2>4. \A t \in Task : /\ Occurrences(queue_tasks', TaskEntry(t))
                              = Occurrences(es, TaskEntry(t))
                                    + Occurrences(queue_tasks, TaskEntry(t))
                        /\ Occurrences(queue_tasks_deferred', TaskEntry(t))
                              = Occurrences(queue_tasks_deferred, TaskEntry(t))
    BY <2>1, <2>2, <2>3, PostCounts
  <2>5. \A t \in Task : Occurrences(queue_tasks, TaskEntry(t)) \in Nat
        /\ Occurrences(queue_tasks_deferred, TaskEntry(t)) \in Nat
    BY <1>2 DEF Counts
  <2>6. CompletionsAreDeferred' /\ SomeTaskWakes'
    <3>1. \A t \in Task : OnItsWay(t) => OnItsWay(t)'
      BY <2>1, <2>2, <2>4, <2>5 DEF OnItsWay
    <3> QED
      BY <1>1, <2>1, <2>4, <3>1, WakesKept
  <2>7. NoErrors'
    BY <1>1, <2>1 DEF NoErrors, Faultless
  <2>8. EndedEarly'
    <3>1. \A r \in Request : HasNext(r)' = HasNext(r) /\ \A t : Ended(t)' = Ended(t)
      BY <2>1 DEF HasNext, Ended, Finished
    <3>2. pc'[q] = "waiting" /\ \A r \in Request \ {q} : pc'[r] = pc[r]
      BY <1>2, <2>1
    <3> QED
      BY <1>1, <3>1, <3>2 DEF EndedEarly
  <2> QED
    BY <2>6, <2>7, <2>8 DEF WakeInv
<1>8. ASSUME Stop_Cancel(q) PROVE WakeInv'
  <2>1. PICK ids \in SetToSeqs(IdsOf(q)) : Post([i \in DOMAIN ids |-> CancelEntry(ids[i])], TRUE)
    BY <1>8 DEF Stop_Cancel
  <2> DEFINE es == [i \in DOMAIN ids |-> CancelEntry(ids[i])]
  <2>2. /\ pc' = [pc EXCEPT ![q] = "done"] /\ Post(es, TRUE) /\ pc[q] = "cancelling"
        /\ UNCHANGED <<queue_results, slots, cur, ops, received, delivered>>
    BY <1>8, <2>1 DEF Stop_Cancel, responseVars, mainVars
  <2>3. es \in Seq(Entry) /\ CancelTargets(es) = IdsOf(q)
        /\ \A t : Occurrences(es, TaskEntry(t)) = 0
    BY PostedCancels
  <2>4. TRUE \in BOOLEAN /\ QueueTypeOK
    BY <1>1 DEF TypeOK
  <2> HIDE DEF es
  <2>5. \A t \in IdsOf(q) : Occurrences(queue_tasks, TaskEntry(t)) = 0
        /\ Occurrences(queue_tasks_deferred, TaskEntry(t)) = 0
    <3>1. \A t \in IdsOf(q) : Ended(t)
      BY <1>1, <2>2 DEF EndedEarly
    <3> QED
      BY <1>2, <3>1, EndedIsGone
  <2>6. \A t \in Task : Occurrences(queue_tasks, TaskEntry(t)) \in Nat
        /\ Occurrences(queue_tasks_deferred, TaskEntry(t)) \in Nat
    BY <1>2 DEF Counts
  <2>7. \A t : /\ Occurrences(queue_tasks', TaskEntry(t)) = Occurrences(es, TaskEntry(t))
                    + (IF t \in CancelTargets(es) THEN 0
                          ELSE Occurrences(queue_tasks, TaskEntry(t)))
               /\ Occurrences(queue_tasks_deferred', TaskEntry(t))
                     = IF t \in CancelTargets(es) THEN 0
                    ELSE Occurrences(queue_tasks_deferred, TaskEntry(t))
    BY <2>2, <2>3, <2>4, PostCounts
  <2>8. \A t \in Task : /\ Occurrences(queue_tasks', TaskEntry(t))
                              = Occurrences(queue_tasks, TaskEntry(t))
                        /\ Occurrences(queue_tasks_deferred', TaskEntry(t))
                              = Occurrences(queue_tasks_deferred, TaskEntry(t))
    BY <2>3, <2>5, <2>6, <2>7
  <2>9. CompletionsAreDeferred' /\ SomeTaskWakes'
    <3>1. \A t \in Task : OnItsWay(t) => OnItsWay(t)'
      BY <2>2, <2>8 DEF OnItsWay
    <3> QED
      BY <1>1, <2>2, <2>8, <3>1, WakesKept
  <2>10. NoErrors'
    BY <1>1, <2>2 DEF NoErrors, Faultless
  <2>11. EndedEarly'
    <3>1. \A r \in Request : HasNext(r)' = HasNext(r) /\ \A t : Ended(t)' = Ended(t)
      BY <2>2 DEF HasNext, Ended, Finished
    <3>2. pc'[q] = "done" /\ \A r \in Request \ {q} : pc'[r] = pc[r]
      BY <1>2, <2>2
    <3> QED
      BY <1>1, <3>1, <3>2 DEF EndedEarly
  <2> QED
    BY <2>9, <2>10, <2>11 DEF WakeInv
<1>9. ASSUME Next_Receive(q) PROVE WakeInv'
  <2> DEFINE i == FirstResultOf(IdsOf(q))
  <2>0. PICK u, k : u = queue_results[i].id /\ k = queue_results[i].kind
    OBVIOUS
  <2> DEFINE n == received[q] + (IF k = "final" THEN 1 ELSE 0)
  <2>1. /\ pc[q] = "waiting" /\ i # 0 /\ queue_results' = RemoveAt(queue_results, i)
        /\ received' = [received EXCEPT ![q] = n]
              /\ delivered' = [delivered EXCEPT ![u] = Append(@, k)]
        /\ pc' = [pc EXCEPT ![q]
              = IF k = "error" \/ n = Cardinality(IdsOf(q)) THEN "stopping" ELSE "waiting"]
        /\ UNCHANGED <<queue_tasks, queue_tasks_deferred, slots, cur, ops>>
    BY <1>9, <2>0 DEF Next_Receive, TakeResult, queueVars, mainVars
  <2>2. i \in 1 .. Len(queue_results) /\ u \in IdsOf(q) /\ queue_results \in Seq(Result)
    BY <1>1, <2>0, <2>1, FirstResultMeaning DEF TypeOK, ResponseTypeOK
  <2>3. queue_results[i] = Res(u, k) /\ k \in ResultKind /\ u \in Task
    <3>1. queue_results[i] \in Result
      BY <2>2
    <3> QED
      BY <2>0, <3>1, ResultForms
  <2>4. \A e : Occurrences(queue_results, e) = Occurrences(queue_results', e)
        + (IF queue_results[i] = e THEN 1 ELSE 0)
    BY <2>1, <2>2, OccurrencesRemoveAt
  <2> HIDE DEF i
  <2>5. CompletionsAreDeferred' /\ SomeTaskWakes'
    <3>1. \A t \in Task : OnItsWay(t) => OnItsWay(t)'
      BY <2>1 DEF OnItsWay
    <3> QED
      BY <1>1, <2>1, <3>1, WakesKept
  <2>6. NoErrors'
    <3>1. \A t \in Task : Occurrences(queue_results', Res(t, "error")) \in Nat
          /\ Occurrences(queue_results, Res(t, "error")) \in Nat
      BY <1>2 DEF Counts
    <3> QED
      BY <1>1, <2>1, <2>4, <3>1 DEF NoErrors, Faultless
  <2>11. \A j : /\ Occurrences(delivered'[u], j) = Occurrences(delivered[u], j)
                      + (IF k = j THEN 1 ELSE 0)
                /\ Occurrences(delivered[u], j) \in Nat
    <3>1. delivered'[u] = Append(delivered[u], k) /\ delivered[u] \in Seq(ResultKind)
      BY <1>2, <2>1, <2>3
    <3> SUFFICES ASSUME NEW j
                 PROVE  /\ Occurrences(delivered'[u], j) = Occurrences(delivered[u], j)
                              + (IF k = j THEN 1 ELSE 0)
                        /\ Occurrences(delivered[u], j) \in Nat
      OBVIOUS
    <3>2. Occurrences(Append(delivered[u], k), j) = Occurrences(delivered[u], j)
          + (IF k = j THEN 1 ELSE 0)
      BY <2>3, <3>1, OccurrencesAppend
    <3>3. Occurrences(delivered[u], j) \in Nat
      BY <3>1, OccurrencesType
    <3> QED
      BY <3>1, <3>2, <3>3
  <2>7. \A t \in Task : Ended(t) => Ended(t)'
    <3> SUFFICES ASSUME NEW t \in Task, Ended(t) PROVE Ended(t)'
      OBVIOUS
    <3>1. CASE t # u
      <4>1. delivered'[t] = delivered[t]
        BY <1>2, <2>1, <3>1
      <4> QED
        BY <4>1 DEF Ended, Finished
    <3>2. CASE t = u
      <4>1. \A j : /\ Occurrences(delivered'[t], j) = Occurrences(delivered[t], j)
                         + (IF k = j THEN 1 ELSE 0)
                   /\ Occurrences(delivered[t], j) \in Nat
        BY <2>11, <3>2
      <4>2. \A j : Occurrences(delivered[t], j) > 0 => Occurrences(delivered'[t], j) > 0
        BY <4>1
      <4> QED
        BY <4>2 DEF Ended, Finished
    <3> QED
      BY <3>1, <3>2
  <2>8. ASSUME k = "error" PROVE Ended(u)'
    <3>1. /\ Occurrences(delivered'[u], "error") = Occurrences(delivered[u], "error")
                + (IF k = "error" THEN 1 ELSE 0)
          /\ Occurrences(delivered[u], "error") \in Nat
      BY <2>11
    <3>2. Occurrences(delivered'[u], "error") > 0
      BY <2>8, <3>1
    <3> QED
      BY <3>2 DEF Ended
  <2>9. ASSUME k = "error" PROVE \A t \in IdsOf(q) : t = u
    <3>1. Occurrences(queue_results', Res(u, "error")) \in Nat
      BY <1>2, <2>3 DEF Counts
    <3>2. Occurrences(queue_results, Res(u, "error")) # 0
      BY <2>3, <2>4, <2>9, <3>1
    <3>3. ~Faultless
      BY <1>1, <2>3, <3>2 DEF NoErrors
    <3> QED
      BY <2>2, <3>3 DEF Undisturbed
  <2>10. EndedEarly'
    <3>1. \A r \in Request \ {q} : pc'[r] = pc[r] /\ HasNext(r)' = HasNext(r)
      BY <1>2, <2>1 DEF HasNext
    <3>2. pc'[q]
          = (IF k = "error" \/ n = Cardinality(IdsOf(q)) THEN "stopping"
                ELSE "waiting") /\ received'[q] = n
      BY <1>2, <2>1
    <3>3. Cardinality(IdsOf(q)) \in Nat /\ n \in Nat
      BY <1>2, Ids
    <3> HIDE DEF n
    <3>4. ASSUME pc'[q] = "cancelling" \/ (pc'[q] = "stopping" /\ HasNext(q)'), NEW t \in IdsOf(q)
          PROVE  Ended(t)'
      <4>1. k = "error"
        BY <3>2, <3>3, <3>4 DEF HasNext
      <4>2. t = u
        BY <2>9, <4>1
      <4> QED
        BY <2>8, <4>1, <4>2
    <3> QED
      BY <1>1, <1>2, <2>7, <3>1, <3>4 DEF EndedEarly
  <2> QED
    BY <2>5, <2>6, <2>10 DEF WakeInv
<1> QED
  BY <1>4, <1>5, <1>6, <1>7, <1>8, <1>9 DEF Reader

\* What keeps the readers' part: their own state is left, and no error is sent.
LEMMA ReadersLeft ==
    ASSUME WakeInv, Counts, Counts', UNCHANGED readerVars,
           \A t \in Task : Faultless =>
                 Occurrences(queue_results', Res(t, "error")) = 0
                       /\ Occurrences(ops', SendOp(t, "error")) = 0
    PROVE  NoErrors' /\ EndedEarly'
<1>1. EndedEarly'
  <2>1. \A r \in Request : HasNext(r)' = HasNext(r) /\ pc'[r] = pc[r] /\ \A t : Ended(t)' = Ended(t)
    BY DEF readerVars, HasNext, Ended, Finished
  <2> QED
    BY <2>1 DEF WakeInv, EndedEarly
<1>2. NoErrors'
  BY DEF NoErrors, Faultless
<1> QED
  BY <1>1, <1>2

\* The next call that the main loop makes on a queue.
LEMMA ExecWakes ==
    ASSUME Undisturbed, Inv, Inv', WakeInv, ExecOp
    PROVE  WakeInv'
<1>1. TypeOK /\ TypeOK' /\ CompletionsAreDeferred /\ SomeTaskWakes /\ NoErrors /\ EndedEarly
  BY DEF Inv, WakeInv
<1>2. Counts /\ Counts' /\ QueueTypeOK
  BY <1>1, CountsType, CountsTypeNext DEF TypeOK
<1>3. /\ ops # <<>> /\ ops' = Tail(ops) /\ Head(ops) \in Op
      /\ UNCHANGED <<slots, cur, readerVars>>
      /\ \A e : Occurrences(ops', e) \in Nat
      /\ \A e : Occurrences(ops, e) = (IF Head(ops) = e THEN 1 ELSE 0) + Occurrences(ops', e)
  BY <1>1, TakeOp DEF ExecOp
<1>4. /\ \A t \in Task : Occurrences(ops', DeferOp(t)) > 0 => Occurrences(ops, DeferOp(t)) > 0
      /\ \A s \in Slot : Head(ops).op # "popdef" /\ Occurrences(ops, PopDeferOp(s)) > 0 =>
            Occurrences(ops', PopDeferOp(s)) > 0
      /\ \A t \in Task : Occurrences(ops, SendOp(t, "error")) = 0 =>
            Occurrences(ops', SendOp(t, "error")) = 0
  <2>1. ASSUME NEW t \in Task, Occurrences(ops', DeferOp(t)) > 0
        PROVE  Occurrences(ops, DeferOp(t)) > 0
    BY <1>3, <2>1
  <2>2. ASSUME NEW s \in Slot, Head(ops).op # "popdef", Occurrences(ops, PopDeferOp(s)) > 0
        PROVE  Occurrences(ops', PopDeferOp(s)) > 0
    <3>1. Head(ops) # PopDeferOp(s)
      BY <2>2 DEF PopDeferOp
    <3> QED
      BY <1>3, <2>2, <3>1
  <2>3. ASSUME NEW t \in Task, Occurrences(ops, SendOp(t, "error")) = 0
        PROVE  Occurrences(ops', SendOp(t, "error")) = 0
    BY <1>3, <2>3
  <2> QED
    BY <2>1, <2>2, <2>3
<1>5. queue_tasks \in Seq(Entry) /\ queue_tasks_deferred \in Seq([type : {"task"}, id : Task])
  BY <1>2 DEF QueueTypeOK
<1>6. Free' = Free
  BY <1>3 DEF Free, IsProcessing
<1>7. UNCHANGED queue_results => NoErrors' /\ EndedEarly'
  <2> SUFFICES ASSUME UNCHANGED queue_results PROVE NoErrors' /\ EndedEarly'
    OBVIOUS
  <2>1. \A t \in Task : Faultless =>
        Occurrences(queue_results', Res(t, "error")) = 0
              /\ Occurrences(ops', SendOp(t, "error")) = 0
    BY <1>1, <1>4 DEF NoErrors
  <2> QED
    BY <1>2, <1>3, <2>1, ReadersLeft
<1>8. ASSUME Head(ops).op = "next", Post(<<NextEntry>>, FALSE), UNCHANGED responseVars
      PROVE  WakeInv'
  <2> DEFINE es == <<NextEntry>>
  <2>1. /\ es \in Seq(Entry) /\ CancelTargets(es) = {}
        /\ \A t : Occurrences(es, TaskEntry(t)) = 0
    <3>1. ToSet(es) = {NextEntry} /\ NextEntry.type # "cancel"
      BY DEF ToSet, NextEntry
    <3>2. CancelTargets(es) = {}
      BY <3>1 DEF CancelTargets
    <3> QED
      BY <3>2, EntryTypes, OccurrencesSingleton, Distinct
  <2>2. Post(es, FALSE) /\ UNCHANGED queue_results
    BY <1>8 DEF responseVars
  <2> HIDE DEF es
  <2>3. \A t : /\ Occurrences(queue_tasks', TaskEntry(t))
                     = 0 + Occurrences(queue_tasks, TaskEntry(t))
               /\ Occurrences(queue_tasks_deferred', TaskEntry(t))
                     = Occurrences(queue_tasks_deferred, TaskEntry(t))
    BY <1>2, <2>1, <2>2, PostCounts
  <2>4. \A t \in Task : OnItsWay(t) => OnItsWay(t)'
    BY <1>2, <1>3, <2>3 DEF OnItsWay, Counts
  <2>5. CompletionsAreDeferred' /\ SomeTaskWakes'
    BY <1>1, <1>3, <1>4, <1>8, <2>3, <2>4, WakesKept
  <2> QED
    BY <1>7, <2>2, <2>5 DEF WakeInv
<1>9. ASSUME Head(ops).op = "defer", Defer(TaskEntry(Head(ops).task)), UNCHANGED responseVars
      PROVE  WakeInv'
  <2>1. PICK u \in Task : Head(ops) = DeferOp(u) /\ Head(ops).task = u
    BY <1>3, <1>9, OpForms
  <2>2. /\ queue_tasks_deferred' = Append(queue_tasks_deferred, TaskEntry(u))
              /\ UNCHANGED <<queue_tasks, queue_results>>
    BY <1>9, <2>1 DEF Defer, responseVars
  <2>3. Kind[u] = "completion" /\ Free # Slot
    <3>1. Occurrences(ops, DeferOp(u)) > 0
      BY <1>3, <2>1
    <3> QED
      BY <1>1, <3>1 DEF CompletionsAreDeferred
  <2>4. \A t \in Task : Occurrences(queue_tasks_deferred', TaskEntry(t)) > 0 =>
        Kind[t] = "completion"
    <3> SUFFICES ASSUME NEW t \in Task, Occurrences(queue_tasks_deferred', TaskEntry(t)) > 0
        PROVE  Kind[t] = "completion"
      OBVIOUS
    <3>1. TaskEntry(u) \in [type : {"task"}, id : Task]
      BY DEF TaskEntry
    <3>2. Occurrences(queue_tasks_deferred', TaskEntry(t))
          = Occurrences(queue_tasks_deferred, TaskEntry(t))
                + (IF TaskEntry(u) = TaskEntry(t) THEN 1 ELSE 0)
      BY <1>5, <2>2, <3>1, OccurrencesAppend
    <3>3. CASE u = t
      BY <2>3, <3>3
    <3>4. CASE u # t
      <4>1. TaskEntry(u) # TaskEntry(t) /\ Occurrences(queue_tasks_deferred, TaskEntry(t)) \in Nat
        BY <1>2, <3>4, Distinct DEF Counts
      <4> QED
        BY <1>1, <3>2, <4>1 DEF CompletionsAreDeferred
    <3> QED
      BY <3>3, <3>4
  <2>5. CompletionsAreDeferred'
    BY <1>1, <1>4, <1>6, <2>3, <2>4 DEF CompletionsAreDeferred
  <2>6. SomeTaskWakes'
    BY <1>6, <2>3 DEF SomeTaskWakes
  <2> QED
    BY <1>7, <2>2, <2>5, <2>6 DEF WakeInv
<1>10. ASSUME Head(ops).op = "popdef", PopDeferredTask(Head(ops).slot), UNCHANGED responseVars
       PROVE  WakeInv'
  <2> DEFINE d == queue_tasks_deferred
             i == DeferredFor(Head(ops).slot)
             D == [type : {"task"}, id : Task]
  <2>1. UNCHANGED queue_results
    BY <1>10 DEF responseVars
  <2>2. CASE d = <<>>
    <3>1. d' = d
      BY <1>10, <2>2 DEF PopDeferredTask, queueVars
    <3>2. CompletionsAreDeferred'
      BY <1>1, <1>4, <1>6, <3>1 DEF CompletionsAreDeferred
    <3>3. SomeTaskWakes'
      BY <2>2, <3>1 DEF SomeTaskWakes
    <3> QED
      BY <1>7, <2>1, <3>2, <3>3 DEF WakeInv
  <2>3. CASE d # <<>>
    <3>1. i \in 1 .. Len(d) /\ queue_tasks' = <<d[i]>> \o queue_tasks /\ d' = RemoveAt(d, i)
      BY <1>2, <1>10, <2>3, DeferredForRange DEF PopDeferredTask
    <3>2. PICK u \in Task : d[i] = TaskEntry(u)
      <4>1. d[i] \in D
        <5>1. d \in Seq(D)
          BY <1>5
        <5> HIDE DEF i, d, D
        <5> QED
          BY ONLY <3>1, <5>1
      <4> QED
        BY <4>1 DEF TaskEntry
    <3>3. d \in Seq(D)
      BY <1>5
    <3> HIDE DEF i, D
    <3>4. \A e : Occurrences(d, e) = Occurrences(RemoveAt(d, i), e) + (IF d[i] = e THEN 1 ELSE 0)
      BY <3>1, <3>3, OccurrencesRemoveAt
    <3>5. \A t \in Task : /\ Occurrences(d, TaskEntry(t)) \in Nat
                                /\ Occurrences(d', TaskEntry(t)) \in Nat
                          /\ Occurrences(d, TaskEntry(t)) = Occurrences(d', TaskEntry(t))
                                + (IF d[i] = TaskEntry(t) THEN 1 ELSE 0)
      BY <1>2, <3>1, <3>4 DEF Counts
    <3>6. Kind[u] = "completion"
      <4>1. Occurrences(d, TaskEntry(u)) > 0
        BY <3>2, <3>5
      <4> QED
        BY <1>1, <4>1 DEF CompletionsAreDeferred
    <3>7. Occurrences(queue_tasks', TaskEntry(u)) > 0
      <4>1. TaskEntry(u) \in Entry /\ <<TaskEntry(u)>> \in Seq(Entry)
        BY EntryTypes
      <4>2. Occurrences(<<TaskEntry(u)>> \o queue_tasks, TaskEntry(u))
               = Occurrences(<<TaskEntry(u)>>, TaskEntry(u))
                     + Occurrences(queue_tasks, TaskEntry(u))
        BY <1>5, <4>1, OccurrencesConcat
      <4>3. Occurrences(<<TaskEntry(u)>>, TaskEntry(u)) = 1
        BY OccurrencesSingleton
      <4>4. Occurrences(queue_tasks, TaskEntry(u)) \in Nat
        BY <1>2 DEF Counts
      <4> QED
        BY <3>1, <3>2, <4>2, <4>3, <4>4
    <3>8. OnItsWay(u)'
      BY <3>6, <3>7 DEF OnItsWay
    <3>9. SomeTaskWakes'
      BY <3>8 DEF SomeTaskWakes
    <3>10. \A t \in Task : Occurrences(queue_tasks_deferred', TaskEntry(t)) > 0 =>
          Occurrences(queue_tasks_deferred, TaskEntry(t)) > 0
      BY <3>5
    <3>11. CompletionsAreDeferred'
      BY <1>1, <1>4, <1>6, <3>10 DEF CompletionsAreDeferred
    <3> QED
      BY <1>7, <2>1, <3>9, <3>11 DEF WakeInv
  <2> QED
    BY <2>2, <2>3
<1>11. ASSUME Head(ops).op = "send", Send(Head(ops).result), UNCHANGED queueVars PROVE WakeInv'
  <2>1. PICK u \in Task, k \in ResultKind : Head(ops) = SendOp(u, k) /\ Head(ops).result = Res(u, k)
    <3>1. Head(ops).result \in Result
          /\ Head(ops) = SendOp(Head(ops).result.id, Head(ops).result.kind)
      BY <1>3, <1>11, OpForms
    <3> QED
      BY <3>1, ResultForms
  <2>2. UNCHANGED <<queue_tasks, queue_tasks_deferred>>
    BY <1>11 DEF queueVars
  <2>3. CompletionsAreDeferred' /\ SomeTaskWakes'
    <3>1. \A t \in Task : OnItsWay(t) => OnItsWay(t)'
      BY <1>3, <2>2 DEF OnItsWay
    <3> QED
      BY <1>1, <1>3, <1>4, <1>11, <2>2, <3>1, WakesKept
  <2>4. ASSUME Faultless, NEW t \in Task
        PROVE  Occurrences(queue_results', Res(t, "error")) = 0
              /\ Occurrences(ops', SendOp(t, "error")) = 0
    <3>1. Occurrences(ops, SendOp(t, "error")) = 0
          /\ Occurrences(queue_results, Res(t, "error")) = 0
      BY <1>1, <2>4 DEF NoErrors
    <3>2. Head(ops) # SendOp(t, "error")
      BY <1>3, <3>1
    <3>3. Res(u, k) # Res(t, "error")
      BY <2>1, <3>2, Distinct
    <3>4. CASE queue_results' = queue_results
      BY <1>4, <3>1, <3>4
    <3>5. CASE queue_results' = Append(queue_results, Res(u, k))
      <4>1. queue_results \in Seq(Result) /\ Res(u, k) \in Result
        BY <1>1, RequestAssumption DEF TypeOK, ResponseTypeOK, Res, Result
      <4>2. Occurrences(Append(queue_results, Res(u, k)), Res(t, "error"))
               = Occurrences(queue_results, Res(t, "error"))
                     + (IF Res(u, k) = Res(t, "error") THEN 1 ELSE 0)
        BY <4>1, OccurrencesAppend
      <4> QED
        BY <1>4, <3>1, <3>3, <3>5, <4>2
    <3> QED
      BY <1>11, <2>1, <3>4, <3>5 DEF Send
  <2>5. NoErrors' /\ EndedEarly'
    BY <1>2, <1>3, <2>4, ReadersLeft
  <2> QED
    BY <2>3, <2>5 DEF WakeInv
<1> QED
  BY <1>8, <1>9, <1>10, <1>11 DEF ExecOp

\* The loop goes from waiting to its queue, takes a task, or goes on to the slots.
LEMMA LoopWakes ==
    ASSUME Undisturbed, Inv, Inv', WakeInv, Loop_Wake \/ Loop_Pop
    PROVE  WakeInv'
<1>1. TypeOK /\ TypeOK' /\ CompletionsAreDeferred /\ SomeTaskWakes /\ NoErrors /\ EndedEarly
      /\ Shapes
  BY DEF Inv, WakeInv
<1>2. Counts /\ Counts'
  BY <1>1, CountsType, CountsTypeNext
<1>3. UNCHANGED <<queue_tasks_deferred, queue_results, slots, ops, readerVars>>
  BY DEF Loop_Wake, Loop_Pop, TakeFront, queueVars, responseVars
<1>4. NoErrors' /\ EndedEarly'
  <2>1. \A t \in Task : Faultless =>
        Occurrences(queue_results', Res(t, "error")) = 0
              /\ Occurrences(ops', SendOp(t, "error")) = 0
    BY <1>1, <1>3 DEF NoErrors
  <2> QED
    BY <1>2, <1>3, <2>1, ReadersLeft
<1>5. ASSUME NEW t \in Task, OnItsWay(t) PROVE OnItsWay(t)'
  <2>1. CASE UNCHANGED <<queue_tasks, cur>>
    BY <1>5, <2>1 DEF OnItsWay
  <2>2. CASE main = "pop" /\ TakeFront /\ cur' = Head(queue_tasks)
    <3>1. cur # TaskEntry(t)
      BY <1>1, <2>2, Distinct DEF Shapes
    <3>2. Occurrences(queue_tasks, TaskEntry(t)) > 0 /\ Kind[t] = "completion"
      BY <1>5, <3>1 DEF OnItsWay
    <3>3. Occurrences(queue_tasks, TaskEntry(t))
          = (IF cur' = TaskEntry(t) THEN 1 ELSE 0) + Occurrences(queue_tasks', TaskEntry(t))
      <4>1. queue_tasks \in Seq(Entry) /\ queue_tasks # <<>> /\ queue_tasks' = Tail(queue_tasks)
        BY <1>1, <2>2 DEF TakeFront, TypeOK, QueueTypeOK
      <4> QED
        BY <2>2, <4>1, OccurrencesTail
    <3>4. Occurrences(queue_tasks', TaskEntry(t)) \in Nat
      BY <1>2 DEF Counts
    <3> QED
      BY <3>2, <3>3, <3>4 DEF OnItsWay
  <2> QED
    BY <2>1, <2>2 DEF Loop_Wake, Loop_Pop, queueVars
<1>6. CompletionsAreDeferred' /\ SomeTaskWakes'
  BY <1>1, <1>3, <1>5, WakesKept
<1> QED
  BY <1>4, <1>6 DEF WakeInv

\* When all slots are free, every completion can be launched.
LEMMA FreeSlotsLaunch ==
    ASSUME NEW v \in Task, Completion_Defer(v)
    PROVE  Free # Slot
<1> SUFFICES ASSUME Free = Slot PROVE FALSE
  OBVIOUS
<1>1. NSlots \in Nat \ {0} /\ Len(ChildTasks[v]) < NSlots /\ Len(ChildTasks[v]) \in Nat
  BY RequestAssumption, Children
<1>2. 0 \in Slot
  BY <1>1 DEF Slot
<1>3. AvailableSlots(v) # {}
  BY <1>2 DEF AvailableSlots
<1>4. PICK s \in AvailableSlots(v) : s \in Slot
  BY <1>3, AvailableAreSlots
<1>5. ~IsProcessing(s)
  BY <1>4 DEF Free
<1>6. Cardinality(Slot) = NSlots
  BY <1>1, FS_Interval DEF Slot
<1>7. Cardinality(Slot \ {s}) = NSlots - 1
  BY <1>4, <1>6, SlotsFinite, FS_RemoveElement
<1>8. CanLaunch(v, s)
  BY <1>1, <1>5, <1>7 DEF CanLaunch
<1> QED
  BY <1>4, <1>8 DEF Completion_Defer

\* A task is processed.
LEMMA ProcessWakes ==
    ASSUME Undisturbed, Inv, Inv', WakeInv, Loop_Process
    PROVE  WakeInv'
<1>1. TypeOK /\ TypeOK' /\ CompletionsAreDeferred /\ SomeTaskWakes /\ NoErrors /\ EndedEarly
      /\ Shapes
  BY DEF Inv, WakeInv
<1>2. Counts /\ Counts'
  BY <1>1, CountsType, CountsTypeNext
<1>3. /\ UNCHANGED <<queue_tasks, queue_tasks_deferred, queue_results, readerVars>> /\ ops = <<>>
      /\ cur' = NextEntry
  BY DEF Loop_Process, queueVars, responseVars
<1>4. \A e : Occurrences(ops, e) = 0
  BY <1>3, OccurrencesEmpty
<1>5. (\A t \in Task : Occurrences(ops', SendOp(t, "error")) = 0) => NoErrors' /\ EndedEarly'
  <2> SUFFICES ASSUME \A t \in Task : Occurrences(ops', SendOp(t, "error")) = 0
      PROVE  NoErrors' /\ EndedEarly'
    OBVIOUS
  <2>1. \A t \in Task : Faultless =>
        Occurrences(queue_results', Res(t, "error")) = 0
              /\ Occurrences(ops', SendOp(t, "error")) = 0
    BY <1>1, <1>3 DEF NoErrors
  <2> QED
    BY <1>2, <1>3, <2>1, ReadersLeft
\* What leaves the slots and defers nothing
<1>6. ASSUME UNCHANGED slots, \A t \in Task : cur = TaskEntry(t) => Kind[t] # "completion",
             \A t \in Task : Occurrences(ops', DeferOp(t)) = 0
                   /\ Occurrences(ops', SendOp(t, "error")) = 0
      PROVE  WakeInv'
  <2>1. \A t \in Task : OnItsWay(t) => OnItsWay(t)'
    BY <1>3, <1>6 DEF OnItsWay
  <2>2. CompletionsAreDeferred' /\ SomeTaskWakes'
    BY <1>1, <1>3, <1>4, <1>6, <2>1, WakesKept
  <2> QED
    BY <1>5, <1>6, <2>2 DEF WakeInv
<1>7. CASE cur.type = "next" /\ UNCHANGED <<slots, ops>>
  <2>1. \A t : cur # TaskEntry(t)
    BY <1>7 DEF TaskEntry
  <2> QED
    BY <1>4, <1>6, <1>7, <2>1
<1>8. CASE cur.type = "cancel" /\ Cancel(cur.id)
  <2>1. \A t : cur # TaskEntry(t)
    BY <1>8 DEF TaskEntry
  <2>2. CASE UNCHANGED slots /\ ops' = <<>>
    BY <1>6, <2>1, <2>2, OccurrencesEmpty
  <2>3. ASSUME NEW s \in Slot, ops' = <<PopDeferOp(s)>> PROVE WakeInv'
    <3>1. /\ Occurrences(ops', PopDeferOp(s)) = 1
          /\ \A t \in Task : Occurrences(ops', DeferOp(t)) = 0
                /\ Occurrences(ops', SendOp(t, "error")) = 0
      BY <2>3, OccurrencesSingleton, Distinct
    <3>2. CompletionsAreDeferred'
      BY <1>1, <1>3, <3>1 DEF CompletionsAreDeferred
    <3>3. SomeTaskWakes'
      BY <3>1 DEF SomeTaskWakes
    <3> QED
      BY <1>5, <3>1, <3>2, <3>3 DEF WakeInv
  <2> QED
    BY <1>8, <2>2, <2>3 DEF Cancel
<1>9. ASSUME cur.type = "task",
             \/ Kind[cur.id] = "query" /\ Query(cur.id)
             \/ Kind[cur.id] = "slotop" /\ SlotOp(cur.id)
             \/ /\ Kind[cur.id] = "completion"
                /\ \/ Completion_Defer(cur.id)
                   \/ Completion_Launch(cur.id)
                   \/ Completion_Reject(cur.id)
      PROVE  WakeInv'
  <2>1. PICK v \in Task : v = cur.id /\ cur = TaskEntry(v)
    <3>1. cur = TaskEntry(cur.id) /\ cur.id \in Task \cup {NoTask}
      BY <1>1, <1>9, EntryForms DEF TypeOK
    <3>2. cur # TaskEntry(NoTask)
      BY <1>1 DEF Shapes
    <3> QED
      BY <3>1, <3>2
  <2>2. CASE Kind[v] = "query" /\ Query(v)
    <3>1. UNCHANGED slots /\ ops' = <<SendOp(v, "final")>>
      BY <2>2 DEF Query
    <3>2. \A t \in Task : Occurrences(ops', DeferOp(t)) = 0
          /\ Occurrences(ops', SendOp(t, "error")) = 0
      BY <3>1, OccurrencesSingleton, Distinct
    <3>3. \A t \in Task : cur = TaskEntry(t) => Kind[t] # "completion"
      BY <2>1, <2>2, Distinct
    <3> QED
      BY <1>6, <3>1, <3>2, <3>3
  <2>3. CASE Kind[v] = "slotop"
    BY <2>3 DEF Undisturbed
  <2>4. CASE Kind[v] = "completion" /\ Completion_Defer(v)
    <3>1. UNCHANGED slots /\ ops' = <<DeferOp(v)>>
      BY <2>4 DEF Completion_Defer
    <3>2. Free # Slot
      BY <2>4, FreeSlotsLaunch
    <3>3. Free' = Free
      BY <3>1 DEF Free, IsProcessing
    <3>4. \A t \in Task : /\ Occurrences(ops', DeferOp(t)) > 0 => t = v
                          /\ Occurrences(ops', SendOp(t, "error")) = 0
      BY <3>1, OccurrencesSingleton, Distinct
    <3>5. CompletionsAreDeferred'
      BY <1>1, <1>3, <2>4, <3>2, <3>3, <3>4 DEF CompletionsAreDeferred
    <3>6. SomeTaskWakes'
      BY <3>2, <3>3 DEF SomeTaskWakes
    <3> QED
      BY <1>5, <3>4, <3>5, <3>6 DEF WakeInv
  <2>5. CASE Completion_Launch(v)
    <3>1. PICK s \in AvailableSlots(v) : slots'[s] = Launched(v)
      BY <2>5, AvailableAreSlots DEF Completion_Launch
    <3>2. ops' = <<>>
      BY <2>5 DEF Completion_Launch
    <3>3. s \in Slot /\ s \notin Free'
      BY <3>1, AvailableAreSlots DEF Free, IsProcessing, Launched
    <3>4. \A t \in Task : Occurrences(ops', DeferOp(t)) = 0
          /\ Occurrences(ops', SendOp(t, "error")) = 0
      BY <3>2, OccurrencesEmpty
    <3>5. CompletionsAreDeferred'
      BY <1>1, <1>3, <3>4 DEF CompletionsAreDeferred
    <3>6. SomeTaskWakes'
      BY <3>3 DEF SomeTaskWakes
    <3> QED
      BY <1>5, <3>4, <3>5, <3>6 DEF WakeInv
  <2>6. CASE Completion_Reject(v)
    BY <2>6 DEF Completion_Reject, FirstFailures, Undisturbed
  <2> QED
    BY <1>9, <2>1, <2>2, <2>3, <2>4, <2>5, <2>6
<1> QED
  BY <1>7, <1>8, <1>9 DEF Loop_Process

\* A slot pops a deferred task once, when it is released; no other slot's calls do.
LEMMA CallsOfPops ==
    ASSUME NEW s \in Slot, NEW o \in UpdateOutcome,
          NEW p \in Slot, slots[s].task \in Task \/ o = "stay"
    PROVE  Occurrences(CallsOf(s, o), PopDeferOp(p))
          = IF s = p /\ o \in {"final", "error"} THEN 1 ELSE 0
<1> DEFINE u == slots[s].task
<1>1. PopDeferOp(s) = PopDeferOp(p) <=> s = p
  <2>1. PopDeferOp(s).slot = s /\ PopDeferOp(p).slot = p
    BY DEF PopDeferOp
  <2> QED
    BY <2>1
<1>2. CASE o = "partial" /\ u \in Streaming
  <2>1. CallsOf(s, o) = <<SendOp(u, "partial")>>
    BY <1>2 DEF CallsOf
  <2> QED
    BY <1>2, <2>1, OccurrencesSingleton, Distinct
<1>3. CASE o \in {"final", "error"}
  <2>1. CallsOf(s, o) = <<SendOp(u, o), PopDeferOp(s)>>
    BY <1>3 DEF CallsOf
  <2>2. SendOp(u, o) \in Op /\ PopDeferOp(s) \in Op
    BY <1>3, EntryTypes DEF ResultKind
  <2>3. SendOp(u, o) # PopDeferOp(p)
    BY Distinct
  <2> HIDE DEF u
  <2>4. Occurrences(CallsOf(s, o), PopDeferOp(p))
          = (IF SendOp(u, o) = PopDeferOp(p) THEN 1 ELSE 0)
                + (IF PopDeferOp(s) = PopDeferOp(p) THEN 1 ELSE 0)
    BY <2>1, <2>2, OccurrencesPair
  <2> QED
    BY <1>1, <1>3, <2>3, <2>4
<1>4. CASE ~(o = "partial" /\ u \in Streaming) /\ o \notin {"final", "error"}
  <2>1. CallsOf(s, o) = <<>>
    BY <1>4 DEF CallsOf
  <2> QED
    BY <1>4, <2>1, OccurrencesEmpty
<1> QED
  BY <1>2, <1>3, <1>4

\* Among the calls of a set of slots is the pop of each slot that is released.
LEMMA CallsPop ==
    ASSUME NEW S \in SUBSET Slot, NEW out \in [Slot -> UpdateOutcome],
           \A s \in S : slots[s].task \in Task \/ out[s] = "stay",
           NEW p \in S, out[p] \in {"final", "error"}
    PROVE  Occurrences(Calls(S, out), PopDeferOp(p)) > 0
<1> DEFINE ord == InOrder(S)
           N == Len(ord)
           seqs == [i \in 1 .. N |-> CallsOf(ord[i], out[ord[i]])]
           e == PopDeferOp(p)
<1>1. /\ ord \in Seq(Slot) /\ N \in Nat /\ DOMAIN ord = 1 .. N
      /\ \A i \in 1 .. N : ord[i] \in S /\ ord[i] \in Slot
      /\ \A i, j \in 1 .. N : ord[i] = ord[j] => i = j
      /\ \A s \in S : \E i \in 1 .. N : ord[i] = s
  <2>1. /\ ord \in Seq(Slot)
        /\ \A i \in 1 .. Len(ord) : ord[i] \in S
        /\ \A i, j \in 1 .. Len(ord) : ord[i] = ord[j] => i = j
        /\ \A s \in S : \E i \in 1 .. Len(ord) : ord[i] = s
    BY ONLY S \in SUBSET Slot, InOrderProperties
  <2> HIDE DEF ord
  <2> QED
    BY <2>1
<1>2. Calls(S, out) = FlattenSeq(seqs)
  BY <1>1 DEF Calls
<1> HIDE DEF ord, N
<1>3. \A i \in 1 .. N : /\ seqs[i] = CallsOf(ord[i], out[ord[i]]) /\ out[ord[i]] \in UpdateOutcome
                        /\ slots[ord[i]].task \in Task \/ out[ord[i]] = "stay"
  BY <1>1
<1>4. \A i \in 1 .. N : /\ seqs[i] \in Seq(Op)
                        /\ Occurrences(seqs[i], e)
                              = IF ord[i] = p /\ out[ord[i]] \in {"final", "error"} THEN 1 ELSE 0
  BY <1>1, <1>3, CallsOfCounts, CallsOfPops
<1>5. seqs \in [1 .. N -> Seq(Op)] /\ N \in Nat
  BY <1>1, <1>4
<1> HIDE DEF seqs, e
<1>6. PICK m \in 1 .. N : ord[m] = p
  BY <1>1
<1>7. (\A j \in 1 .. N : j # m => Occurrences(seqs[j], e) = 0)
         => Occurrences(FlattenSeq(seqs), e) = Occurrences(seqs[m], e)
  <2>1. \A n \in 1 .. N : (\A j \in 1 .. N : j # n => Occurrences(seqs[j], e) = 0)
           => Occurrences(FlattenSeq(seqs), e) = Occurrences(seqs[n], e)
    BY ONLY <1>5, FlattenOnce
  <2> QED
    BY <1>6, <2>1
<1>8. \A j \in 1 .. N : j # m => Occurrences(seqs[j], e) = 0
  BY <1>1, <1>4, <1>6
<1>9. Occurrences(seqs[m], e) = 1
  BY <1>4, <1>6
<1>10. Occurrences(FlattenSeq(seqs), e) > 0
  BY <1>7, <1>8, <1>9
<1> QED
  BY <1>2, <1>10 DEF e

\* What one of the parts of an update's calls contains, the whole contains.
LEMMA PartOfCalls ==
    ASSUME NEW x \in Seq(Op), NEW y \in Seq(Op), NEW z \in Seq(Op), NEW e,
           Occurrences(x, e) > 0 \/ Occurrences(y, e) > 0 \/ Occurrences(z, e) > 0
    PROVE  Occurrences(<<NextOp>> \o x \o y \o z, e) > 0
<1> DEFINE h == <<NextOp>>
           a == h \o x
           b == a \o y
           d == b \o z
<1>1. h \in Seq(Op)
  BY EntryTypes
<1> HIDE DEF h
<1>2. a \in Seq(Op) /\ Occurrences(a, e) = Occurrences(h, e) + Occurrences(x, e)
  BY <1>1, ConcatProperties, OccurrencesConcat
<1> HIDE DEF a
<1>3. b \in Seq(Op) /\ Occurrences(b, e) = Occurrences(a, e) + Occurrences(y, e)
  BY <1>2, ConcatProperties, OccurrencesConcat
<1> HIDE DEF b
<1>4. d \in Seq(Op) /\ Occurrences(d, e) = Occurrences(b, e) + Occurrences(z, e)
  BY <1>3, ConcatProperties, OccurrencesConcat
<1> HIDE DEF d
<1>5. Occurrences(h, e) \in Nat /\ Occurrences(x, e) \in Nat /\ Occurrences(y, e) \in Nat
      /\ Occurrences(z, e) \in Nat
  BY <1>1, OccurrencesType
<1>6. Occurrences(d, e) > 0
  BY <1>2, <1>3, <1>4, <1>5
<1> QED
  BY <1>6 DEF d, b, a, h

\* An update of the slots: the last slot that is released wakes up a deferred task.
LEMMA UpdatedWakes ==
    ASSUME Undisturbed, Inv, Inv', WakeInv, Free # Slot,
           UNCHANGED <<queue_tasks, queue_tasks_deferred, queue_results, readerVars>>,
           NEW out \in [Slot -> UpdateOutcome], Sound(out),
           slots' = [s \in Slot |-> AfterUpdate(s, out[s])],
           NEW A, NEW B, NEW C, Split(A, B, C), AllCalls(ops', A, B, C, out),
           Faultless => \A s \in Slot : out[s] # "error"
    PROVE  WakeInv'
<1>1. TypeOK /\ TypeOK' /\ CompletionsAreDeferred /\ SomeTaskWakes /\ NoErrors /\ EndedEarly
      /\ Shapes
  BY DEF Inv, WakeInv
<1>2. Counts /\ Counts'
  BY <1>1, CountsType, CountsTypeNext
<1>3. /\ \A t : Occurrences(ops', DeferOp(t)) = 0
      /\ \A t, k : (\A s \in Slot : slots[s].task # t) => Occurrences(ops', SendOp(t, k)) = 0
      /\ \A t, k : \A s \in Slot : t \in Task /\ slots[s].task = t =>
            Occurrences(ops', SendOp(t, k)) = Occurrences(CallsOf(s, out[s]), SendOp(t, k))
  <2>1. PICK all : all = ops'
    OBVIOUS
  <2>2. AllCalls(all, A, B, C, out)
    BY <2>1
  <2>3. CallsFit(all, out)
    BY <2>2, CallsOfSets
  <2> QED
    BY ONLY <2>1, <2>3 DEF CallsFit
<1>4. \A s \in Slot : slots[s].task \in Task \/ out[s] = "stay"
  BY DEF Sound
<1>5. CompletionsAreDeferred'
  BY <1>1, <1>3 DEF CompletionsAreDeferred
<1>6. NoErrors' /\ EndedEarly'
  <2>1. ASSUME Faultless, NEW t \in Task
        PROVE  Occurrences(queue_results', Res(t, "error")) = 0
              /\ Occurrences(ops', SendOp(t, "error")) = 0
    <3>1. Occurrences(queue_results', Res(t, "error")) = 0
      BY <1>1, <2>1 DEF NoErrors
    <3>2. CASE \A s \in Slot : slots[s].task # t
      BY <1>3, <3>1, <3>2
    <3>3. ASSUME NEW s \in Slot, slots[s].task = t PROVE Occurrences(ops', SendOp(t, "error")) = 0
      <4>1. Occurrences(CallsOf(s, out[s]), SendOp(t, "error")) = 0
        BY <1>4, <2>1, CallsOfCounts
      <4> QED
        BY <1>3, <3>3, <4>1
    <3> QED
      BY <3>1, <3>2, <3>3
  <2> QED
    BY <1>2, <2>1, ReadersLeft
<1>7. SomeTaskWakes'
  <2> SUFFICES ASSUME Free' = Slot PROVE \E s \in Slot : Occurrences(ops', PopDeferOp(s)) > 0
    BY DEF SomeTaskWakes
  <2>1. PICK s \in Slot : slots[s].state # "IDLE"
    BY DEF Free, IsProcessing
  <2>2. AfterUpdate(s, out[s]).state = "IDLE"
    <3>1. slots'[s].state = "IDLE"
      BY DEF Free, IsProcessing
    <3> QED
      BY <3>1
  <2>3. out[s] \in {"final", "error"}
    BY <1>1, <2>1, <2>2, AfterUpdateForms
  <2>4. \A S \in SUBSET Slot : Calls(S, out) \in Seq(Op) /\ (s \in S =>
        Occurrences(Calls(S, out), PopDeferOp(s)) > 0)
    BY <1>4, <2>3, CallsCounts, CallsPop
  <2>5. /\ A \in SUBSET Slot /\ B \in SUBSET Slot /\ C \in SUBSET Slot
        /\ s \in A \/ s \in B \/ s \in C
    BY DEF Split
  <2>6. PICK a, b, c : a = Calls(A, out) /\ b = Calls(B, out) /\ c = Calls(C, out)
    OBVIOUS
  <2>7. /\ a \in Seq(Op) /\ b \in Seq(Op) /\ c \in Seq(Op)
        /\ \/ Occurrences(a, PopDeferOp(s)) > 0
           \/ Occurrences(b, PopDeferOp(s)) > 0
           \/ Occurrences(c, PopDeferOp(s)) > 0
    BY <2>4, <2>5, <2>6
  <2>8. ops' = <<NextOp>> \o a \o b \o c
    BY <2>6 DEF AllCalls
  <2>9. Occurrences(<<NextOp>> \o a \o b \o c, PopDeferOp(s)) > 0
    BY <2>7, PartOfCalls
  <2> QED
    BY <2>8, <2>9
<1> QED
  BY <1>5, <1>6, <1>7 DEF WakeInv

\* The slots are updated.
LEMMA UpdateWakes ==
    ASSUME Undisturbed, Inv, Inv', WakeInv, Loop_Update
    PROVE  WakeInv'
<1>1. TypeOK /\ TypeOK' /\ CompletionsAreDeferred /\ SomeTaskWakes /\ NoErrors /\ EndedEarly
      /\ Shapes
  BY DEF Inv, WakeInv
<1>2. Counts /\ Counts'
  BY <1>1, CountsType, CountsTypeNext
<1>3. UNCHANGED <<queue_tasks, queue_tasks_deferred, queue_results, cur, readerVars>>
  BY DEF Loop_Update, queueVars, responseVars
<1>4. CASE UNCHANGED <<slots, ops>>
  <2>1. NoErrors' /\ EndedEarly'
    <3>1. \A t \in Task : Faultless =>
          Occurrences(queue_results', Res(t, "error")) = 0
                /\ Occurrences(ops', SendOp(t, "error")) = 0
      BY <1>1, <1>3, <1>4 DEF NoErrors
    <3> QED
      BY <1>2, <1>3, <3>1, ReadersLeft
  <2>2. \A t \in Task : OnItsWay(t) => OnItsWay(t)'
    BY <1>3 DEF OnItsWay
  <2>3. CompletionsAreDeferred' /\ SomeTaskWakes'
    BY <1>1, <1>3, <1>4, <2>2, WakesKept
  <2> QED
    BY <2>1, <2>3 DEF WakeInv
<1>5. ASSUME Free # Slot, NEW refused \in SUBSET Slot, MayRefuse(refused),
      NEW out \in Outcomes(refused),
             slots' = [s \in Slot |-> AfterUpdate(s, out[s])],
             ops' = <<NextOp>> \o Calls(refused \cap InState("GENERATING"), out)
                    \o Calls(refused \cap InState("PROMPT"), out) \o Calls(Slot \ refused, out)
      PROVE  WakeInv'
  <2>1. out \in [Slot -> UpdateOutcome] /\ Sound(out)
    BY <1>1, <1>5, OutcomesSound
  <2> DEFINE A == refused \cap InState("GENERATING")
             B == refused \cap InState("PROMPT")
             C == Slot \ refused
  <2>2. Split(A, B, C)
    BY <1>5 DEF MayRefuse, InState, Split
  <2>3. AllCalls(ops', A, B, C, out)
    BY <1>5 DEF AllCalls
  <2>4. ASSUME Faultless, NEW s \in Slot PROVE out[s] # "error"
    <3>1. s \notin refused
      BY <1>5, <2>4 DEF MayRefuse, Faultless
    <3>2. out[s] \in IF slots[s].state = "WAIT_OTHER" THEN ChildOutcome(s, out)
          ELSE Outcome(s, refused)
      BY DEF Outcomes
    <3>3. \A n : "error" \notin TokenOutcome(n)
      BY DEF TokenOutcome
    <3> QED
      BY <3>1, <3>2, <3>3 DEF ChildOutcome, Outcome
  <2> HIDE DEF A, B, C
  <2> QED
    BY <1>3, <1>5, <2>1, <2>2, <2>3, <2>4, UpdatedWakes
<1>6. ASSUME DecodeMayFail, HasLeader({}),
             NEW out, out = [s \in Slot |-> IF IsProcessing(s) THEN "error" ELSE "stay"],
             slots' = [s \in Slot |-> AfterUpdate(s, out[s])],
             ops' = <<NextOp>> \o Calls(Slot, out)
      PROVE  WakeInv'
  <2>1. out \in [Slot -> UpdateOutcome] /\ Sound(out)
    <3>1. \A s \in Slot : out[s] = IF IsProcessing(s) THEN "error" ELSE "stay"
      BY <1>6
    <3>2. \A s \in Slot : slots[s].task \in Task \cup {NoTask}
          /\ (slots[s].task = NoTask <=> ~IsProcessing(s))
      BY <1>1 DEF TypeOK, Shapes, IsProcessing
    <3>3. out \in [Slot -> UpdateOutcome]
      BY <1>6 DEF UpdateOutcome
    <3> QED
      BY <3>1, <3>2, <3>3 DEF Sound, IsProcessing
  <2>2. Free # Slot
    BY <1>6 DEF HasLeader, InState, Free, IsProcessing
  <2>3. AllCalls(ops', Slot, {}, {}, out)
    <3>1. Calls(Slot, out) \in Seq(Op)
      <4>1. \A s \in Slot : slots[s].task \in Task \/ out[s] = "stay"
        BY <2>1 DEF Sound
      <4> QED
        BY <2>1, <4>1, CallsCounts
    <3>2. <<NextOp>> \o Calls(Slot, out) \in Seq(Op)
      BY <3>1, EntryTypes, ConcatProperties
    <3> QED
      BY <1>6, <3>2, NoCalls, ConcatEmptySeq DEF AllCalls
  <2>4. Split(Slot, {}, {})
    BY DEF Split
  <2>5. ~Faultless
    BY <1>6 DEF Faultless
  <2> QED
    BY <1>3, <1>6, <2>1, <2>2, <2>3, <2>4, <2>5, UpdatedWakes
<1> QED
  BY <1>4, <1>5, <1>6 DEF Loop_Update

\* At the start nothing is deferred.
LEMMA InitWakes ==
    ASSUME Init
    PROVE  WakeInv
<1>1. /\ queue_tasks_deferred = <<>> /\ queue_results = <<>> /\ ops = <<>>
      /\ pc = [r \in Request |-> "idle"]
  BY DEF Init, QueueInit, ResponseInit
<1>2. /\ \A e : Occurrences(queue_tasks_deferred, e) = 0 /\ Occurrences(ops, e) = 0
            /\ Occurrences(queue_results, e) = 0
  BY <1>1, OccurrencesEmpty
<1>3. CompletionsAreDeferred
  BY <1>2 DEF CompletionsAreDeferred
<1>4. SomeTaskWakes /\ NoErrors
  BY <1>1, <1>2 DEF SomeTaskWakes, NoErrors
<1>5. EndedEarly
  BY <1>1 DEF EndedEarly
<1> QED
  BY <1>3, <1>4, <1>5 DEF WakeInv

\* No step breaks the argument.
LEMMA NextWakes ==
    ASSUME Undisturbed, Inv, WakeInv, [Next]_vars
    PROVE  WakeInv'
<1>1. Inv' /\ TypeOK /\ TypeOK'
  BY NextInv DEF Inv
<1>2. CASE \E r \in Request : Reader(r)
  BY <1>1, <1>2, ReaderWakes
<1>3. CASE MainLoop
  BY <1>1, <1>3, ExecWakes, LoopWakes, ProcessWakes, UpdateWakes DEF MainLoop
<1>4. CASE UNCHANGED vars
  <2>1. UNCHANGED <<queue_tasks, queue_tasks_deferred, queue_results, slots, cur, ops, readerVars>>
    BY <1>4 DEF vars, queueVars, responseVars, mainVars
  <2>2. \A t \in Task : OnItsWay(t) => OnItsWay(t)'
    BY <2>1 DEF OnItsWay
  <2>3. CompletionsAreDeferred' /\ SomeTaskWakes'
    BY <1>1, <2>1, <2>2, WakesKept DEF WakeInv
  <2>4. \A t \in Task : Faultless =>
        Occurrences(queue_results', Res(t, "error")) = 0
              /\ Occurrences(ops', SendOp(t, "error")) = 0
    BY <2>1 DEF WakeInv, NoErrors
  <2> QED
    BY <1>1, <2>1, <2>3, <2>4, CountsType, CountsTypeNext, ReadersLeft DEF WakeInv
<1> QED
  BY <1>2, <1>3, <1>4 DEF Next, AllServed

\* When the loop goes to wait with tasks deferred, some slot is busy and will wake one up: no
\* task is deferred for ever by a server that is free.  It takes the hypothesis: a client that
\* leaves, a launch that is refused and a slot action can each use up the only wake-up.
THEOREM DeferredTasksWait == Undisturbed => (Spec => []DeferredWaitsForBusySlot)
<1> SUFFICES ASSUME Undisturbed PROVE Spec => []DeferredWaitsForBusySlot
  OBVIOUS
<1>1. Init => Inv /\ WakeInv
  BY InitInv, InitWakes
<1>2. Inv /\ WakeInv /\ [Next]_vars => (Inv /\ WakeInv)'
  BY NextInv, NextWakes
<1>3. Inv /\ WakeInv => DeferredWaitsForBusySlot
  <2> SUFFICES ASSUME Inv, WakeInv, Settled, queue_tasks_deferred # <<>>, Free = Slot
               PROVE  FALSE
    BY DEF DeferredWaitsForBusySlot
  <2>1. ops = <<>> /\ queue_tasks = <<>> /\ main = "wait"
    BY DEF Settled
  <2>2. \A e : Occurrences(ops, e) = 0 /\ Occurrences(queue_tasks, e) = 0
    BY <2>1, OccurrencesEmpty
  <2>3. \A t : cur # TaskEntry(t)
    BY <2>1, Distinct DEF Inv, Shapes
  <2>4. PICK t \in Task : OnItsWay(t)
    BY <2>2 DEF WakeInv, SomeTaskWakes
  <2> QED
    BY <2>2, <2>3, <2>4 DEF OnItsWay
<1> QED
  BY <1>1, <1>2, <1>3, PTL DEF Spec

=============================================================================
