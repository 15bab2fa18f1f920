---------------------------- MODULE ServerResponse ----------------------------
(***************************************************************************)
(* struct server_response (tools/server/server-queue.{h,cpp}): the results *)
(* the main loop produces and the set of task ids somebody still waits     *)
(* for, both behind mutex_results.  One operator per critical section.     *)
(***************************************************************************)
EXTENDS Integers, Sequences, SequencesExt, SequenceCounts

CONSTANT ResultTask     \* the ids a result may carry

VARIABLES
    waiting_task_ids,
    queue_results

responseVars == <<waiting_task_ids, queue_results>>

\* What the readers tell apart in a server_task_result: a streamed chunk, a
\* final result (is_stop()) and an error (is_error()).
ResultKind == {"partial", "final", "error"}

Result == [id : ResultTask, kind : ResultKind]

ResponseTypeOK ==
    /\ waiting_task_ids \subseteq ResultTask
    /\ queue_results \in Seq(Result)

ResponseInit ==
    /\ waiting_task_ids = {}
    /\ queue_results = <<>>

AddWaitingTaskIds(ids) ==
    /\ waiting_task_ids' = waiting_task_ids \cup ids
    /\ UNCHANGED queue_results

\* remove_waiting_task_ids: the results already queued stay.
RemoveWaitingTaskIds(ids) ==
    /\ waiting_task_ids' = waiting_task_ids \ ids
    /\ UNCHANGED queue_results

\* remove_waiting_task_id, for every id of ids: the queued results go too.
RemoveWaitingAndResults(ids) ==
    /\ waiting_task_ids' = waiting_task_ids \ ids
    /\ queue_results' = Kept(queue_results,
                             {i \in DOMAIN queue_results : queue_results[i].id \notin ids})

SendAlways(r) ==                        \* mutant: without the waiting check
    /\ queue_results' = Append(queue_results, r)
    /\ UNCHANGED waiting_task_ids

\* send: a result nobody waits for is dropped.
Send(r) ==
    /\ queue_results' = IF r.id \in waiting_task_ids
                        THEN Append(queue_results, r) ELSE queue_results
    /\ UNCHANGED waiting_task_ids

\* The first queued result that belongs to ids; 0 when there is none.
FirstResultOf(ids) == SelectInSeq(queue_results, LAMBDA r : r.id \in ids)

TakeResultKeeps(ids) ==                 \* mutant: the result is not erased
    /\ FirstResultOf(ids) # 0
    /\ UNCHANGED responseVars

\* recv / recv_with_timeout finding a result for ids.
TakeResult(ids) ==
    /\ FirstResultOf(ids) # 0
    /\ queue_results' = RemoveAt(queue_results, FirstResultOf(ids))
    /\ UNCHANGED waiting_task_ids

=============================================================================
