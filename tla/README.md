# A TLA+ model of Project Blackbeard

Project Blackbeard is a fork of llama.cpp: an inference library (`src/`, `ggml/`),
helpers (`common/`) and an HTTP server (`tools/server`) with a router in front of
several servers, to which the fork adds disaggregated prefill workers. Most of its
lines are numeric kernels and model graphs. The logic that is hard to get right is
elsewhere: HTTP threads, one main loop, worker threads and child processes share a
few queues, maps and condition variables; a client may leave at any moment; and the
memory of a context keeps several indexes of the same cells, which many operations
have to update together. This directory specifies that logic in TLA+, checks it
with TLC, and proves what can be proved of it with TLAPS.

Paths are relative to the repository root; `Q` is `tools/server/server-queue.cpp`,
`C` is `tools/server/server-context.cpp`, `S` is `tools/server/server-stream.cpp`,
`M` is `tools/server/server-models.cpp`, `K` is `src/llama-kv-cache.cpp`, `R` is
`src/llama-memory-recurrent.cpp`, `B` is `src/llama-batch.cpp`, `G` is
`ggml/src/ggml-cpu/ggml-cpu.c`.

## 1. The system

| Component | State | Operations | Hard behaviours | What makes it correct |
|---|---|---|---|---|
| Task queue, `server_queue` (Q) | `queue_tasks`, `queue_tasks_deferred`, `running`, behind `mutex_tasks` | `post`, `defer`, `pop_deferred_task`, `cleanup_pending_task`, `start_loop` | a task is in no queue between its pop and its deferral; one wakeup per released slot | a task is never duplicated or lost; deferral ends; a CANCEL gets everything |
| Results and readers, `server_response`, `server_response_reader` (Q) | `waiting_task_ids`, `queue_results` behind `mutex_results`; `received_count` of a reader | register, send, receive with a timeout, stop | results that race a timeout or a stop | the client's view: chunks, then one answer per task, nothing after the end; no result is left behind |
| Slot scheduling, `server_context_impl` (C) | `slots` with a task and a state; owned by the main thread | `process_single_task` (every kind of task), `update_slots`, `release` | parents with children, prompts that are refused, decodes that fail, cancels in between | a slot always gets free again; deferred work starts |
| Batch pipeline: `pre_decode`, `decode`, `post_decode` (C) | the shared batch, its views, prompts and memories of the slots, checkpoints, the prompt cache, drafts | build a batch of all slots, decode it in views with retries, sample, roll back; save, load, reuse, shift | a view that does not fit, after others went through; prompts that are cached wholly or elsewhere; state that outlives its request | what a slot says is in its memory is there; answers do not depend on what was cached, batched or drafted |
| Sleeping state (Q) | `sleeping`, `req_stop_sleeping`, `condition_tasks`, the loaded model | the idle timeout, `wait_until_no_sleep`, `terminate` | one condition variable for two predicates, `notify_one` | handlers get in and find a model, tasks are processed, the loop ends |
| Prefill workers, `server_prefill_worker` (C) | per worker: queue, `cancelled`, `id_active`, `id_returning`, a thread; in the main thread: `prefill_pending`, `prefill_cancelled` | `submit`, `cancel`, `loop`, `stop` | a CANCEL meets a task anywhere between two threads; joining under a lock | a task is in one hand; cancelled work does not run; joins end |
| Resumable streams (S) | `stream_session`: ring buffer, `prefix_dropped`, `done`, `cancelled`; `stream_session_manager`: the map, the GC | `append`, `read_from`, `finalize`, `cancel`; `create_or_replace`, `evict_and_cancel`, `gc_loop`, `stop_gc`; producer and consumer pipes | sessions replaced, deleted, collected while written and read; the buffer loses its front under a reader | readers get exactly the stream; nobody else ends it; everybody comes to an end |
| Router (M) | `mapping` of models to instances, `stopping_models`; three threads per child process | `load`, `unload`, LRU eviction, `remove`, download, reload, sleep, crash | a mutex given up and taken again; threads joined under it; marks by name for instances | at most `--models-max` servers; none without an entry and a thread that manages it; requests are answered |
| KV cells and cache (`src/llama-kv-cells.h`, K) | cells with positions and sets of sequences; `used`, `seq_pos`; pending copies and shifts; keys | `seq_rm`, `seq_cp`, `seq_keep`, `seq_add`, `seq_div`, `find_slot`, `apply_ubatch`, `update`, save, restore | indexes updated together; a batch placed, put back, placed again; updates that wait for the next decode | the indexes agree with the cells; a sequence keeps its tokens |
| Recurrent memory (R, `src/llama-memory-hybrid.cpp`, `src/llama-graph.cpp`) | one cell per sequence, shared after a copy; tails; snapshots (`rs_idx`) | the same operations, `find_slot`, `s_copy`, the graph that copies rows | cells of other sequences are moved aside; rollbacks choose another row; graphs fail half way | the state of a sequence is the one after its own tokens |
| Batch splitting (B) | which entries of a batch are used | `split_simple`, `split_equal`, `split_seq` | sequence sets, equal shares, tails that must stay whole | every entry once, in order, in ubatches that fit |
| CPU thread pool (G) | `n_graph`, `n_barrier`, `n_barrier_passed`, `current_chunk`, `abort`, `stop`, `pause` | kickoff, polling, pause, barrier, chunks, free | counters reset while others leave the barrier; a wakeup between poll and wait | a node is complete before the next one starts; the owner gets its graph; nobody is left behind |
| Graph allocator, logging, drafting, HTTP, samplers, parsers, loading, kernels, tools, web interface | | | | not modelled, section 8 |

How they interact. An HTTP handler of the router picks, loads or waits for a child
server and proxies the request to it. In the server a handler passes
`wait_until_no_sleep`, tokenizes, and hands a vector of tasks to a
`server_response_reader`, which registers their ids in `server_response` and posts
them to `server_queue`. The main thread (`start_loop`) pops tasks one at a time and
calls `process_single_task`, which gives the task a slot, defers it, hands it to a
prefill worker, or answers it; when the queue is empty it calls `update_slots`, which
posts `NEXT_RESPONSE` to itself while a slot is busy, fills one batch, calls
`llama_decode` on views of it and sends results. `llama_decode` splits each view into
ubatches, has the memory find cells for them, and computes a graph per ubatch on the
thread pool. The reader receives the results, or finds its client gone and cancels.
With an `X-Conversation-Id` header the handler writes what it sends into a
`stream_session` too, from which GET handlers replay.

## 2. The modules

| Module | What it specifies |
|---|---|
| `SequenceCounts` | what the queues need of sequences: how often an element occurs, what a filter keeps |
| `ServerQueue`, `ServerResponse` | the two deques of `server_queue`; `server_response`: one operator per critical section |
| `ServerTasks` | readers, main loop and slots over both; EXTENDS them |
| `RequestLifecycle` | abstract: what a client is promised; `ServerTasks` implements it (`KeepsItsPromise`) |
| `SlotMemory` | the memory of a sequence as the server sees it, checkpoints, the prompt cache: operators |
| `SlotBatch` | the batch pipeline, in the steps of its loops over the slots; EXTENDS `SlotMemory` |
| `GreedyCompletions` | abstract: the answer is the network's own continuation; `SlotBatch` implements it (`Refines`) |
| `ServerSleep` | the sleeping half of `server_queue` and the handlers at its gate |
| `PrefillWorker` | prefill workers, the main thread's side of them, clients and the idle timeout; EXTENDS `ServerQueue` |
| `StreamSession`, `StreamManager` | the ring buffer; manager, producers, readers, GC, shutdown over it |
| `ModelInstances`, `ServerModels` | child processes and their threads; the handlers, reload and shutdown over them |
| `KVCells` | the member functions of `llama_kv_cells` |
| `UbatchSplit` | the ways to split a batch |
| `KVCache` | the cache under the calls of its owner, with `llama_decode`; EXTENDS both |
| `SequenceMemory` | abstract: what `llama.h` promises of sequences; `KVCache` implements it (`KeepsSequences`) |
| `RecurrentMemory` | the recurrent memory under the calls of its owner, with `llama_decode` and the graph; EXTENDS `UbatchSplit` |
| `ThreadPool` | the CPU thread pool |
| `MC*` | instances of these for TLC |
| `SequenceProofs` | what the proofs share: facts on sequences, loops and counts, and all that is proved of `UbatchSplit` |
| `ServerTasksProofs`, `PrefillWorkerProofs`, `ServerModelsProofs`, `StreamSleepProofs`, `KVCacheProofs`, `RecurrentMemoryProofs`, `ThreadPoolProofs` | the proofs, section 5 |

`PROJECT.json` maps every definition to its lines.

**ServerTasks.** One atomic step is a critical section of `mutex_tasks` or of
`mutex_results`, with the thread-local code around it. A reader goes through
`Register`, `PostTasks`, `Next_Receive`/`Next_Timeout`, `Stop_Results`,
`Stop_Cancel` (Q:354-460). The main thread is `Loop_Wake`, `Loop_Pop`,
`Loop_Process`, `Loop_Update`. Slots belong to the main thread, so what
`process_single_task` and `update_slots` do to them is one step; the calls they
make on the shared queues (`post`, `defer`, `pop_deferred_task`, `send`) are left
in program order in `ops` and made one by one by `ExecOp`, so that any other
thread may run in between. `cur` is the task in the hands of the loop. A slot is
`IDLE`, `WAIT_OTHER` (a child waiting for the prompt of its parent), `PROMPT` or
`GENERATING`, with `left` updates to go at most. An update chooses for every slot
what the code may do to it: nothing, a chunk of the prompt, a sampled token, the
last one, or an error; and `Loop_Update` may take the branch of a fatal decode.
`overtaken` and `delivered` are history variables.

**SlotBatch** opens the update that `ServerTasks` takes in one step. One thread does
all of it, so a step is an iteration of one of the loops over the slots: `pc` names
the loop (`generate` and `prompt` of `pre_decode`, `decode` with one view per step,
`sample` of `post_decode`). `kv` of a slot maps positions to the tokens decoded there
with the adapters then set, so that a stale cell, a wrong position or a wrong adapter
can be told. The network is a function of all tokens and adapters it sees
(`Continue`); what it says for a memory that is not what it should be is `Wrong`.
A range cut out of the middle of a recurrent memory makes all of it `Wrong` (`Torn`): its
one state cannot forget the tokens.

**PrefillWorker.** `Worker_Take`, `Worker_Finish`, `Worker_Return`,
`Worker_Clear` are the four pieces of `loop()` (C:1089-1121) between its locks;
`Main_Dispatch`, `Main_Returned`, `Main_Cancel`, `Main_CancelReturn` are the main
thread's (C:2679-2868); `Main_Sleep`, `Main_StopWorker`, `Main_Awake` are
`handle_sleeping_state` with `destroy()`, which runs under `mutex_tasks` because
`start_loop` calls it there (Q:171-196). `caught` is a history variable.

**ServerSleep.** `waiting` is the wait set of `condition_tasks`; `Notified` is
`notify_one`, any waiting thread. `Gate`/`GateAgain` are `wait_until_no_sleep`,
`Main_Check`, `Main_Timed`, `Main_Asleep`, `Main_Wake` the waits of `start_loop`.
Spurious wakeups only test a predicate again and are left out.

**StreamSession, StreamManager.** A byte is its place in the stream, so that gaps
and repetitions can be told. The producer's HTTP thread is `CreateOrReplace`,
`Replaced`, `FirstResult`, `CheckStop`, `Receive`/`ReceiveLast`, `Complete`,
`Destroy`; `Drop` is the socket failing, after which the same loop goes on in
`on_complete`. Whoever removes a session from the map calls `cancel()` and
`finalize()` on it after the lock is released: `closing` is the set of these
calls that are still to be made. A reader is `GetSession`, `CheckOffset`, then
`ReadFrom` until the end, or `StopReading` when its own client has left.

**ModelInstances, ServerModels.** `inst` is every instance ever spawned: its child
(loading, serving, asleep, crashed ...), the pipe of its messages, and the places of
its three threads (`log`, `stopping`, managing). A handler's `th` has its program
counter between two critical sections of the one mutex; `locked` is the handler that
joins a thread while it keeps the mutex. A wait on the condition variable is an action
enabled by its predicate, which is faithful here because every assignment that can make
one true is followed by `notify_all`. `astray` is a history variable.

**KVCells, KVCache.** `KVCells` has the class as a record (`pos`, `shift`, `seq`,
`used`, `seq_pos`) and its member functions as operators, the assertions before them.
`KVCache` makes the calls of the API actions, keeps the pending work (`sc_info`,
`shift`) pending until `llama_decode` does it, and takes a decode in steps: `Decode`
(update, split, `prepare`), then one `Ubatch` or `UbatchFails` each. `data` is what the
tensors hold: for each cell the token it was computed for and the position roped in.

**RecurrentMemory.** `find_slot` is a chain of operators in the order of its parts
(`Unshared`, `AllTaken`, `Gathered`, `Filled`, `Staged`); `Computed` is what the graph
does to the rows: one row is zeroed, rows are gathered through `s_copy`, and the delta
nets write the last states as snapshots into the groups. A state is the sequence of
tokens it has seen. A ubatch carries the first and the last position of its sequences, which a
failed graph and a successful one need. `seen`, `at`, `fresh`, `swept`, `astray`, `failed` and
`soiled` (empty cells whose row a failed graph has left unzeroed) are history.

**ThreadPool.** One access to a shared variable per step, or one critical section.
Thread 0 owns the pool (`Kickoff`, `SetPause`, `Free`, `Join`), the others poll, sleep
and take graphs; all active ones go through `Compute` ... `Advance` and the barrier
`Enter`, `Arrive`, `Reset`/`Spin`, `Release`. `computed` and `aborted` are history.

## 3. The runs

For every property of a passing run `PROJECT.json` lists a mutated operator (a
dropped guard, a forgotten reset, a swapped order; marked `mutant` in the modules)
under which TLC finds it violated.

| Run | Checks | Instance and why it is enough |
|---|---|---|
| `tasks_mix` | `TaskInOnePlace`, `ResultsHaveReaders`, `OnlyOvertakenSurvive`, `StrandedChildIsCancelled`, `KeepsItsPromise` | two slots for a streaming completion, a parent with its child, and an action on slot 0: the parent is deferred when the completion is first, the action when slot 0 is busy; launches and prompts may be refused, a decode may fail, both clients may leave. Two batch groups. 0.9 million states |
| `tasks_served` | `DeferredWaitsForBusySlot`, `EveryRequestServed` | three completions for two slots, one asking for slot 0, one for slot 2 (which wraps around to 0), one for any; a query that goes to the front; prompts of up to two batches. Liveness |
| `prefill_work` | `TaskInOneHand`, `CaughtNeverRuns`, `EveryTaskAnswered`, `DestroyEnds` | two workers, two eligible cancellable tasks and one that is not eligible; the server may sleep while no worker has a task. 48,792 states |
| `sleep_gate` | `NoLostWakeup`, `ModelIsThere`, `GateOpens`, `TerminateEnds`, `EveryTaskProcessed` | three handlers: one asks for the wakeup, one waits beside it, one posts from before; any number of sleeps; `terminate()` at any time after the start; with and without an idle time that expires between gate and post. 5,127 states |
| `stream_ends` | `BuffersAreWindows`, `ReadsAreContiguous`, `EndMeansAll`, `OrphansAreClosed`, `DoneMeansTold`, `EveryReaderEnds`, `CancelEndsProducer` | two requests for one conversation and a reader that starts inside the stream; a buffer of two bytes, and of the first request chunks of none, one, two and three, so that a chunk is empty, fills the buffer exactly, replaces it or drops the front of it; DELETE, GC, the client of a request or of the reader lost, shutdown. 613,137 states |
| `router_serve` | `CapacityKept`, `ServersAreManaged`, `MarksMeanInstances`, `RouterServes` | two handlers, three models, room for one, six programs chosen for what meets what (eviction and unload of the victim, two reloads, a download with itself, its use, its deletion), one crash or sleep, pipes of one message. 453,455 states |
| `batch_greedy` | `CacheIsTrue`, `NothingAborts`, `EveryRequestEnds`, `Refines` | fourteen servers of two slots with up to three requests: context of 8, batches of 4, ubatches of 2, drafts of 1, so that prompts span batches, contexts fill, shift and are purged, and every retry happens |
| `kv_keys` | `CellsAgree`, `SplitsAreWhole`, `NoHoles`, `KeepsSequences` | two sequences, four cells, seven positions, four calls; one stream and two, with and without window and ropes; batches of up to four tokens of one sequence, of both and shared by both, in ubatches of two; graphs that fail. With the window a trial placement purges what is not put back (`NeverHoles` in the table below finds it in this instance). `SplitsAreWhole` enumerates every acceptable batch of up to four tokens of three sequences, every size of a ubatch up to its length, and every smaller tail. 171,733 states |
| `recurrent_states` | `CellsBelong`, `StateIsTrue` | three sequences and cells, so that one is moved aside for two others; no rollback, one or two snapshots, drafts, copies, tokens of several sequences, graphs that fail with and without an empty cell in their range; up to five calls. 106,149 states |
| `threads_graphs` | `NodesInOrder`, `GraphIsComputed`, `PoolServes` | three threads of which one, two or all take part; two graphs of a product with more chunks than threads, a node without work, a product with fewer; abort, pause, free. 124,797 states |
| `prefill_deadlock`, `router_remove` | one property each | smallest instances that show the findings of section 6 |

What the main properties say:

- `TaskInOnePlace`: queue, deferral, the loop's hands and the slots never hold two
  copies of a task, and a child never runs while its parent is queued.
- `OnlyOvertakenSurvive`: after a reader is gone and its CANCELs are processed,
  the only work left is what the main loop held between pop and deferral at the
  moment of the CANCEL. That this remains shows `MCServerTasks_lostcancel.cfg`;
  that nothing else does is the point of the property.
- `StrandedChildIsCancelled`: a child slot whose parent was refused or lost is
  always about to be freed by the reader's CANCEL, with the same exception.
- `KeepsItsPromise`, `Refines`, `KeepsSequences`: refinements of the three abstract
  specifications.
- `CaughtNeverRuns`: two threads keep a mark each for a cancelled task, and
  neither covers every interleaving; together they do.
- `OrphansAreClosed`, `DoneMeansTold`, `EndMeansAll`: sessions leave the map and
  end in four ways, each in two or three separate critical sections; none leaves
  a session open for ever, ends it without telling a live producer, or lets a
  reader see an end with bytes after it.
- `RouterServes`: every request is answered and the router shuts down, or one of the
  named cases is in the way (`Stuck`); that list is what the code leaves open.
- `CacheIsTrue`: whatever was cut, shifted, copied, restored from a checkpoint or
  taken from the prompt cache, the prompt a slot keeps describes its memory.
- `StateIsTrue`: whatever was gathered, shared, rolled back or restored, the row the
  next graph will read is the state after exactly the tokens of that sequence.
- `NodesInOrder`, `GraphIsComputed`: the barrier and the chunk counter, which are reset
  while other threads are still leaving, keep the nodes apart.

Type invariants are conjuncts of the first invariant of each run, or proved
(`StreamManager`, `ServerSleep`).

Configurations that are kept beside the runs, each of which TLC ends with a
counterexample that a hazard in `PROJECT.json` refers to:

| Configuration | Shows |
|---|---|
| `MCServerTasks_starved.cfg` | A slot action and a completion are deferred behind a running completion. Its release wakes up one of them (Q:77-100); if it is the slot action, which releases nothing, the completion stays deferred while every slot is idle (`DeferredWaitsForBusySlot`). The same happens with completions alone that ask for any slot (`IdSlot` all -1), when the client of the woken task leaves and its CANCEL removes the task (`MayLeave = {r2}`), or when its launch is refused (`Rejected = {t2}`) |
| `MCServerTasks_lostcancel.cfg` | A CANCEL posted between the pop of a task and its deferral: the task is deferred and later runs for nobody (`AbandonedWorkIsGone`) |
| `MCStreamManager_lost.cfg` | The prefix is dropped between the check of the offset and the first read of a GET: the client gets 200 and nothing, instead of 400 (`LostMeans400`) |
| `MCSlotBatch_open.cfg` | As it is (`RecurrentReuse`): chunks are reused in a recurrent or hybrid memory, whose `get_can_shift()` is true; `seq_rm` and `seq_add` then move the position but the state has seen the tokens between, and the answer goes on from it (`CacheIsTrue`, `Refines`; C:3622, `llama-memory-recurrent.cpp:695`, `llama-memory-hybrid.cpp:133`) |
| ... `RecurrentShift` | The same with a context shift (`CacheIsTrue`, C:3328) |
| ... `AskForBusy` | `get_available_slot` saves and loads the prompt cache of a busy slot that is asked for by id, before the task is deferred (`DeferredTouchesNoBusySlot`) |
| ... `HybridDraft` | In a hybrid memory short of room the batch is retried in halves and the assertion on the size of the draft (C:4268) is reached (`NothingAborts`) |
| `MCKVCache_open.cfg` | As it is (`WindowOnly`): with a sliding window the ubatches of a batch leave a hole (`NeverHoles`, K:1142), because the trial placement purges cells that `prepare()` does not put back (`PrepareRestores`, K:793); a batch that is then refused has changed the memory, against `llama.h:990` |
| ... `RopeDiv` | `seq_div` adds `p_old - pos` to the shift, so that a rotated key moves away from its new position (`KeepsSequences`, `llama-kv-cells.h:451`) |
| ... `SharedShift` | `seq_add` of one sequence moves a shared cell, and so the token of the other one too (`KeepsSequences`) |
| ... `Careless` | A sequence is saved or restored while a copy or a shift is pending (`KeepsSequences`) |
| `MCRecurrentMemory_snapshots.cfg` | A later ubatch of the same batch moves the cell of a drafted sequence and carries along its state, but not its snapshots: the rollback finds another sequence's (`SnapshotsStayValid`, R:422) |
| `MCRecurrentMemory_holes.cfg` | A graph fails whose range had an empty cell: `find_slot` has already set the `src` of that cell to itself, so that nothing zeroes its row afterwards, and a later new sequence may start from a stale state (`EmptyIsZeroed`, R:672) |
| `MCRecurrentMemory_careless.cfg` | A rollback across two decodes is accepted although the snapshots of the first are overwritten (`StateIsTrue` without the owner's care) |

Bounds: the numbers of tasks, slots, handlers, sessions, readers, sequences, cells and
threads; `NPrompt`, `NPredict`, `NResults`, the batches, tokens and results of one
generation; `ChunkLen`, `From`, `CapBytes`, `NCtx`, `NBatch`, `NUbatch`, small numbers
for sizes that are large in the code; `calls` of a memory's owner; `MaxInstances`,
`MaxIncidents`, `PipeCap` of the router; `Graphs`. Ids are handed out once, as in the
code. No action is cut off by a constraint. Symmetry reduction is used in `kv_keys` only, on the
tokens, which the cache never compares.

`CHECK_DEADLOCK FALSE` appears where the system may stop: `sleep_gate` and
`router_serve` (terminated), `threads_graphs` (freed), `kv_keys` and
`recurrent_states` (all calls made), and the two runs of findings.

## 4. Fairness

- The main thread, the workers, the HTTP threads and the threads of the router and of
  the pool are weakly fair: they are OS threads, and each of their steps is enabled until
  it is taken (`std::mutex` has no order of service, but nobody here holds a lock for
  ever except in the findings).
- No client has to leave or cancel, no DELETE, GC pass, idle timeout, crash, pause,
  `terminate()` or shutdown has to happen. `Next_Timeout` gets no fairness.
- `EveryReaderEnds` has the hypothesis `GenerationEnds`: while the main loop
  runs, a generation reaches its last result (`n_predict`, the size of the
  context). `CancelEndsProducer` does without it: a cancelled producer is only
  assumed to come back from its polling timeout.
- In `ServerTasks` and `SlotBatch` generations end by the code's own counters, so
  `EveryRequestServed` and `EveryRequestEnds` need the threads to run and nothing more.
- `ServerModels`: a child that loads or downloads comes to an end (it is ready, fails
  or crashes), the exit command and the timeout of `stop_timeout` end the others.
  A child that hangs or sleeps does so as long as it likes.
- `ServerSleep` assumes about time: with `boundary = FALSE` that the idle time
  (seconds at least) does not expire between two adjacent steps of one
  handler, with `SleepsOver = FALSE` that it does not expire before a notified
  thread has run. `MaySleepAtWork` of `PrefillWorker` is of the same kind.

## 5. What is proved

All theorems are for every value of the constants, under the assumptions the modules
name (types of the constants, positive sizes).

| Theorem | States |
|---|---|
| `TasksInvariant`, `TasksAreInOnePlace`, `QueuedResultsHaveReaders`, `OnlyOvertakenTasksSurvive`, `StrandedChildrenAreCancelled` (`ServerTasksProofs`) | `Spec` implies always the invariant below, `TaskInOnePlace`, `ResultsHaveReaders`, `OnlyOvertakenSurvive`, `StrandedChildIsCancelled` |
| `DeferredTasksWait` (`ServerTasksProofs`) | ... `DeferredWaitsForBusySlot`, if there are no slot actions, no refused launches, no client that leaves, and no error ends a request that has other tasks (`Undisturbed`) |
| `ServerKeepsItsPromise` (`ServerTasksProofs`) | `ServerTasks` implements `RequestLifecycle` |
| `PrefillInvariant`, `NeverTwoCopies`, `CaughtTasksNeverRun` (`PrefillWorkerProofs`) | ... the invariant of the workers, at most one copy of a task, `CaughtNeverRuns`, wherever the server sleeps |
| `TasksAreInOneHand` (`PrefillWorkerProofs`) | ... `TaskInOneHand`, if the server does not sleep while a worker has a task (`~MaySleepAtWork`) |
| `CapacityCorrect`, `ServersManaged`, `JoinsCorrect`, `MarksCorrect` (`ServerModelsProofs`) | without downloads: `CapacityKept`, `ServersAreManaged`, no thread is joined under the mutex, `MarksMeanInstances` |
| `TypeCorrect`, `WindowsCorrect`, `ReadsCorrect`, `OrphansCorrect`, `ToldCorrect`, `EndCorrect` (`StreamSleepProofs`) | ... `TypeOK`, `BuffersAreWindows`, `ReadsAreContiguous`, `OrphansAreClosed`, `DoneMeansTold`, `EndMeansAll` |
| `SleepTypeCorrect`, `ModelCorrect`, `WakeupCorrect` (`StreamSleepProofs`) | ... `SleepTypeOK`, `ModelIsThere`, and, if `~SleepsOver`, `NoLostWakeup` |
| `CellsInvariant`, `CellsAgreeAlways` (`KVCacheProofs`) | ... the invariant of the cache, and `CellsAgree`, whatever calls, batches and failures come |
| `RmKeepsCells`, `SeqRmKeepsCells`, `SeqsAddKeepsCells`, `SeqKeepKeepsCells`, `PosSetKeepsCells`, `PosAddKeepsCells`, `PosDivKeepsCells`, `SetCellKeepsCells` (`KVCacheProofs`) | each member function keeps `CellsOK`, wherever its assertions hold |
| `CellsBelongAlways` (`RecurrentMemoryProofs`) | ... `CellsBelong`, for any cells, batches, rollbacks, copies and failing graphs, if no owner removes any sequence (`-1`) while there are some and rollbacks stay within the last batch (`CarefulOwners`) |
| `StateIsTrueAlways` (`RecurrentMemoryProofs`) | ... `StateIsTrue`, for any cells, batches, rollbacks, copies, checkpoints and failing graphs, if `CarefulOwners` and, where there are rollbacks, every token has one sequence (`DraftsAreApart`) |
| `SplitsKeepEntries`, `SplitsKeepTails` (`SequenceProofs`), `SplitsAreWholeAlways` (`KVCacheProofs`) | for every batch that is as `init()` asks (`Acceptable`), and ubatches of any size: `KeepsEntries` for `split_simple`, `split_equal` and `split_seq`, `KeepsTails` for `split_equal` with any tail; `SplitsAreWhole` |
| `InvCorrect`, `NodesInOrderCorrect`, `GraphIsComputedCorrect` (`ThreadPoolProofs`) | ... the invariant of the barrier and the chunks, `NodesInOrder` (with `TypeOK`), `GraphIsComputed`, for any number of threads, nodes and graphs |

The arguments.

*Queues.* A queue loses and gains tasks by filters, erasures and loops over a vector, and
what is proved of them counts: how often a task occurs (`Occurrences`) before and after.
`SequenceProofs` has the facts. What needs an induction over lengths is proved by
`UpTo`: a set of numbers that holds 0 and with each number the next one holds all of them;
the set of lengths for which a statement holds takes the place of the operator that the
library's induction takes. `KeptOccurrences` (a filter keeps what it says), `FlattenOnce`
(a loop that pushes the calls of distinct members makes each once) and `OccurrencesRemoveAt`
give `CleanupCounts` and `PostCounts`: what `cleanup_pending_task` and `post` with its
CANCELs leave of each task.

*Tasks.* The weight of a task is the number of its copies (in the queue, among the deferred
ones, in the hands of the loop, on a slot), of its answers (still to be sent, in
`queue_results`, delivered) and, for a child, of the copies of its parent that may still
launch it. `OneWeight` says that it is at most 1. Only the post of the reader raises a
weight, and before it there is nothing of the task anywhere; every other step moves weight
or drops it. It is not inductive alone: a launch must find that a slot is free and that the
children of a task are its own (`Shapes`); only tasks on slots send chunks, which come
before the answer (`ChunksOfRunning`, `AnswerIsLast`); a reader ends when it was delivered
as many answers as it has tasks (`ReadersCount`), while their ids are registered
(`IdsAreWaiting`) and whatever is sent to one that stopped is purged (`ResultsAreRead`);
and what is left of a reader that has gone is either overtaken or about to be cancelled
(`GoneIsCancelled`, `ChildrenAreRescued`). Under this invariant a step of `ServerTasks` is
a step of `RequestLifecycle` or a stutter (`NextIsLife`): a receive is a delivery, the post
submits, a timeout with the client gone leaves, everything else is invisible to a client.

*Wake-ups.* `pop_deferred_task` is called when a slot is released and wakes up one task, so
a wake-up must never be spent on a task that does not take a slot. `WakeInv` says that when
every slot is free and a task is deferred, a wake-up is among the calls the main loop still
makes, or a completion is on its way to a slot (`SomeTaskWakes`: woken up or new, in the
queue or in the hands of the loop) and nothing can remove it. Only completions are deferred,
and only while some slot is busy (`CompletionsAreDeferred`). The hard step is the update,
which may release all slots at once: each release is one wake-up among the calls it makes
(`CallsOfPops`, `UpdateWakes`). A woken task must also reach its slot: nothing refuses it,
and nothing cancels it. CANCELs come from readers that stop early, because their client
leaves, or because an error ends them while other tasks of theirs are out; `Undisturbed`
excludes both, and then a reader that stops has no task left (`EndedEarly`). The hypothesis
is needed: TLC finds the violation with a slot action, a client that may leave, or a launch
that may be refused (section 3).

*Prefill.* `Inv` has per task `OneHand` (at most one copy in the queue, at the workers, in
the hands of the main thread, on a slot), `OneCancel`, and `CaughtIsMarked`: a task that a
CANCEL caught at a worker is marked, by the worker or by the main thread, until its copy
is dropped. It holds even when the server sleeps while a worker has a task. What does not
hold then is that no task is lost and that marks go with tasks (`Careful`): `destroy()`
throws the worker away with its task, which is the other side of the deadlock of section 6;
`TasksAreInOneHand` has the hypothesis for that reason, as the run has.

*Streams.* Over the library's facts about `SubSeq` and `\o`, `AppendLargeKeepsWindow`
and `AppendSmallKeepsWindow` (the two branches of `append`) give
`AppendBytesProperties`: whatever the size of the chunk, `append` maps windows to
windows and leaves a finished session alone. `TypeOK` is not inductive: a reader in
`found` or `reading` must hold a session, so `TypeInv` adds `ReaderHasSession`.
`BuffersAreWindows` is inductive over it and `ReadsAreContiguous` follows from both.
`OrphansAreClosed` is inductive: each action that takes a session out of the map puts
it into `closing`, and `Close` removes it only when it sets `done`. `DoneMeansTold`
needs `FinalizeMeansTold` (a pending `finalize()` is, until the stop, for a session that
is cancelled or whose producer is over); `EndMeansAll` needs that a reader which has
seen the end holds a session that is done, and `BuffersAreWindows`.

*Sleep.* `NoLostWakeup` is about `notify_one` with several kinds of waiters. The
strengthening `OnlyMainWaits` says who can be in the wait set: as long as nobody has
asked for the wakeup, only the main thread is there, so the notification can only reach
it; handlers wait only after one of them asked. `SleepIsAsleep` ties the flag, the
model and the place of the main thread together; it needs that no handler is twice in
the queue (`QueuedOnce`).

*Cells.* Each operation changes one cell. Whether that cell counts at a position of a
sequence is a bit (`Bit`); `OneCell` shows that a count that changes by the difference
of the bits before and after is the cardinality again, with the library's facts on
finite sets. Each operation is then a case distinction on its branches.

*Cache.* The cache calls those operations in loops over cells, sequences, tokens and
ubatches, each of which is a recursive function in the model. `LoopExists` shows that such a
function has the values that its equation says, `LoopReaches` that the value after `n` rounds
is in the `n`-th of a family of sets when each round leads from one set to the next; both by
`UpTo`. Every loop then has a lemma that names the sets: the cells from `n` on are as they
were (`Ahead`), the record is sound and has no shift it did not have (`Follows`), the used
tokens are among those of the batch (`AllEqualIs`), and so on. `CellsAgree` is not inductive.
`Inv` adds what the assertions in the code ask for: a shift is marked (`Marked`); undoing it
gives the position that the key was roped with, which is one (`Original`), or else the copy to
another stream would set a negative position (K:516-519); and the slots that wait in
`ubatches` are different cells, as many as there are tokens (`SlottedUbatch`), so that
`apply_ubatch` empties and fills each of them once. Between `prepare` and the end of the
batch nothing has a shift (`CleanCells`), since `cp` and `set` do not keep shifts; that is why
`llama_decode` updates first (`UpdatedCellsAre`). `CacheAssumption` says that ranges begin at
0 or later, that a token has a sequence, that there is one stream or one for each sequence
(K:133), and that an owner which calls `seq_div` has one stream: a divided position has no
original, and the only callers, `examples/passkey/passkey.cpp:142` and
`tools/completion/completion.cpp:651`, have one sequence. Of the ubatches this needs only that
they hold entries of the batch.

*Splits.* The three splits are loops over `Among`, the entries of a sequence that are in a set,
and `Ubatches` is a loop over a split. A ubatch `p` after the entries `used` must be a `GoodCut`:
entries that are not used, each once, at least one while some are left, and each entry that
comes before one of `p` in the batch and shares a sequence with it is used or comes before it in `p`
(`KeepsOrder`). Such ubatches are again good when one is appended (`GoodPartsStep`), and since
each takes an entry, after as many rounds as the batch has entries all are used; then they are a
split of the batch (`GoodPartsSplit`, `CutsSoFar`, `CutsDone`). `split_simple` takes the first
unused entries. `split_seq` narrows a set down along the unused entries; that what it skips
shares no sequence with what it takes later is where sets must only get smaller (`Narrowing`).
`split_equal` takes entries of sets of which each is taken in its order (`InTurn`), and no
entry with a sequence of such a set comes before it with another set (`InOneSet`): the sets that
take part do not overlap, and the first unused entry of a sequence names the set. Whatever
`WholeTails` puts back is the end of what was taken, so that all this stays. It takes as many
entries of each set (`Even`), at most `n_ubatch \div n_seqs`, or one: so that the ubatch fits
only if there are not more sets than entries fit (the bound in `KeepsEntries`).
`init()` means to refuse a batch in which a set gets larger again, but the set that it narrows
down always keeps the sequence itself, so it never does: for such batches nothing is proved.
The server's batches name one sequence per token, for which `Narrowing` says nothing of sets.

*Recurrent memory.* The invariant between two calls is short (`RInv`): the tails name the cells
whose sets have them (`Linked`), a used cell has its state in its own row (`Settles`), `used`
counts them (`Counted`), and the sequence sets of a ubatch that waits do not overlap
(`UbatchOK`). The work is inside `find_slot`, where none of this
holds. Its three loops are recursive functions, to which the lemmas on loops apply; each has an
invariant that says where the state of every sequence is meanwhile: while sequences leave shared
cells (`Without`), while the first sequence of each set gets a cell of its own (`InTaking`;
`Room`: the next one that asks finds an empty cell,
since there are as many cells as sequences), while cells change places (`IsGathered`), and after the sets have
been filled in (`FilledIn`). `SlotOK` is what they come to: the cells of the ubatch stand side
by side in its order, each with the row its sequence was in, the other cells of the range kept
their sequences and states, and a row is left to be zeroed if one is needed (R:672). That the
splits of a batch produce such ubatches is proved of `UbatchSplit` (`Together`: two entries of a
part have the same set or none in common).

*States.* What the rows hold is the second invariant of the recurrent memory (`SInv`): every
sequence that no failed graph and no late rollback has spoiled is in the state after its
own tokens, in the group its pending rollback names (`StatesOK`); its snapshots are the states
before its last tokens (`SnapshotsOK`); only a sequence with a cell of its own has a rollback
pending (`IndexOK`); an empty cell that will not be zeroed is zeroed, unless a failed graph soiled
it (`RowsAreZeroed`); a checkpoint is a state (`SavedOK`). `SnapshotsOK` says nothing of
a sequence that is still to come in the batch, nor of one whose cell a later ubatch has moved
(`swept`, the finding of `MCRecurrentMemory_snapshots`). `Evaluate` and `Fail` are followed from
`SlotOK` to the rows: a cell of the range is computed from the state of its sequences, whichever row
that was in, or from the zeroed row; the other cells of the range take their states along.
The snapshots survive a batch because of how it was cut: the last ubatch of a sequence
must hold its last `n_rs_seq + 1` tokens, or all of them. That is `RestOK`, for which the entries
are counted: a ubatch takes as many entries of one set of sequences as of any other
(`Even`), and leaves none or a tail of them (`TailLeft`); so every ubatch added
keeps `TailsTogether`. `DraftsAreApart` makes the entries of a set of sequences the entries of
a sequence. It holds of the program: rollbacks are there for speculative decoding only
(`need_n_rs_seq`, `common/common.h:390`), and the batches of a server and its drafts name one
sequence for each token (`tools/server/server-context.cpp:142`, `common/speculative.cpp:297`).

*Router.* `RouterInv` is `Core` (an instance that is managed is the one of its model's
entry, and that entry runs; an entry that runs has an instance that is managed and can
be joined; the limit) with `HandlersOK` (where a handler may be with which request).
`CapacityKept` counts entries that run; what makes it inductive is that `load()` looks
at the capacity again in the same critical section in which it makes the entry. The
proofs assume that nobody downloads (`NoDownloads`): with downloads the assertion of
`JoinsCorrect` is false (section 6), a finished download may erase the entry of another
instance, and the invariant with it.

*Marks.* A mark in `stopping_models` is a name, but it is meant for an instance. `MarksOK`
says that a mark that is not `astray` has an instance that is still at work and whose
managing thread will erase it; that an instance which a mark can reach was asked to stop;
and that one whose output has ended is told so, so that its stopping thread sends no exit.
The critical step is the spawn: a new server must not find a mark of its predecessor, and
it does not, since a mark that is not astray keeps the entry of its model active and
`load()` returns early for those. With downloads, and several reloads at once, the managing
thread of an orphaned download erases by name the mark of another instance; so here too
`NoDownloads`.

*Thread pool.* The barriers cut the computation of a graph into intervals. `TeamInv` says
that all threads of the team are in the same one: before the product `k` or past the end of
the nodes (`TeamInPre`), between the two barriers of the product `k` (`TeamInMid`), or done
(`TeamIsDone`). A worker that has not seen the graph yet counts as before node 0, and a
thread that spins although the barrier is open counts as through it; so a step of one thread
stays within an interval, and only `Release`, or `Enter` in a team of one, moves the whole
team (`IntervalEnds`). `BarrierInv` says that `n_barrier` counts those that wait, and that
whoever resets it has all others waiting: that is what makes two counters enough.
`ChunksInv` says that every chunk below `current_chunk` is computed or in one hand, and that
a thread that stops asking leaves none behind; at the next barrier the product is complete.

Only model-checked, and why:

- all liveness: the prover handles neither fairness nor `ENABLED`;
- `NoHoles`, `KeepsSequences` (`KVCache`): they are about which positions a loop removes and
  which cells keep a token over many calls, for which the loops need far more than the sets they
  stay in;
- `CacheIsTrue`, `NothingAborts`, `Refines` (`SlotBatch`): the module uses recursive operators
  and folds that take an operator, which the provers cannot expand; it can be rewritten as
  `KVCache` is;
- the router with downloads, for which the invariants above fail.

## 6. Findings

| Run | What happens | What the repository says |
|---|---|---|
| `prefill_deadlock` | The idle timeout expires while a worker has a task. `start_loop` calls `destroy()` with `mutex_tasks` held, which joins the worker, which waits for `mutex_tasks` to post its task back | `tools/server/server-queue.h:70` describes a server that sleeps and wakes up again |
| `router_remove` | A model is deleted while its download ends: `remove()` joins the managing thread with the mutex held, and that thread has not made its last use of it | M:1145: "join before erasing - thread no longer acquires this mutex" |

The configurations of the second table of section 3 show further disagreements. Seen
while modelling and listed under `hazards` with a note: a CANCEL that is processed between
a worker's return of a task and its pop; an `on_complete` that calls an empty
`std::function`; sessions created after `stop_gc`; a gate that stays shut when a sleeping
server is terminated; a task posted by a handler that passed the gate just before the
server sleeps; a download that crashes and stays `DOWNLOADING`; a stop mark that meets the
next instance; a task that names no adapter and reuses the prompt of one that did; a failed
graph whose removals a recurrent memory refuses, and one that leaves a row unzeroed which
`find_slot` already counts as zeroed.

## 7. Abstractions

- Prompts in `ServerTasks`, texts, and the data of streams are counts or places; results are
  `partial`, `final` or `error`; a KV state handed over by a prefill worker is not
  represented. Slot choice by similarity or LRU is a choice of any free slot in
  `ServerTasks` and exact in `SlotBatch`. `try_dispatch_prefill`'s choice of the least
  loaded worker is a choice of any worker. Time is the nondeterminism of timeouts.
- `SlotBatch`: tokens are three numbers; drafts are any continuation of the right
  length; sampling is greedy. Not in the instances, because there the code does what
  `hazards` describe: a request by id for a busy slot with a prompt cache, requests that
  name no adapter after one that did, children with a memory shared by all slots, drafts
  in a hybrid memory short of room, a context shift or the reuse of chunks with a recurrent or
hybrid memory. `MCSlotBatch_open.cfg` has the first, the fourth and the last. Not modelled: draft contexts, sliding windows, message
  spans, alora, multimodal chunks, slots restored from files.
- `KVCache`: the run leaves out what `MCKVCache_open.cfg` shows to break
  `KeepsSequences`: owners that save or restore while an update is pending (`careful`),
  move cells of several sequences (`share`), or call `seq_div` with rotated keys.
  `NoHoles` and `KeepsSequences` themselves except two things the code does against
  K:1142 and `llama.h:990`: a sequence that a `llama_decode` has torn, that is, which lost a
  token in the trial placement of `prepare()`, may have holes and lose, until the batch
  is done, tokens that those after the batch do not attend to; and when a graph fails, a
  token of several sequences is removed from the first of them only
  (`llama-context.cpp:1869`). `seq_keep` with several streams looks at the stream of its
  sequence only, and the abstract call says so. Quantization, layers, transposed values and the attention mask are left out.
- `RecurrentMemory`: a `careful` owner rolls back only tokens of its last batch, once, as
  the server does. Saving and restoring the whole memory and ranges that end before the
  last position are left out. With three cells the head never runs so far ahead of the
  used cells that a search starts over (`head > used + 2 * n_seqs`).
- `ServerModels`: `LOAD_ON_STARTUP`, aliases, the tracker of conversations, server-sent
  events and the proxied pipe are left out.
- `ThreadPool`: no OpenMP; the memory is sequentially consistent (the code orders its
  relaxed accesses with fences at the barrier); affinities and priorities are left out;
  `n_graph` does not wrap.
- Elsewhere every shared variable of the modelled code is behind a mutex or atomic.
  `server_response::broadcast` and `terminate`, and `stream_session_manager::evict`, have
  no caller.

## 8. Not modelled, and why

Of the 345,000 lines of the implementation, nearly all are numeric kernels for a dozen
back ends, graphs of a hundred model architectures, tables, parsers, tools and user
interfaces. What there is to check of them is arithmetic and I/O, which TLC does not reach
and TLA+ would only repeat; the share of lines that the models cover is small for that
reason.

- Kernels, quantization, graphs, model loading, conversion: numeric code and I/O.
- Graph allocator (`ggml-alloc.c`): a sequential, deterministic planner of offsets.
- Logging thread (`common/log.cpp`): one writer, one ring, nothing depends on it.
- Drafting and n-gram caches: sequential functions of token sequences; what the server
  does with a draft is in `SlotBatch` and `RecurrentMemory`.
- HTTP parsing, routing and proxying: glue around the actions above.
- Samplers, grammars, chat templates and output parsers: sequential functions on
  text and numbers, without shared state.
- Tools, examples, the web interface, vendored code.
- Signals delivered to the thread that holds `mutex_tasks`.

## 9. What is left

- A refinement of `Loop_Update` of `ServerTasks` by `SlotBatch`: now the two are joined by
  hand (what one update may do to a slot is a choice in the one, computed in the other).
- The router with downloads: an invariant for what downloads leave intact.
- `KVCache` with windows over shared cells, and the interleaved window cache
  (`llama-kv-cache-iswa.cpp`), which is two of them.
- Proofs: `CacheIsTrue` of `SlotBatch`; the router with downloads
  under the hypothesis that no name is downloaded twice.
