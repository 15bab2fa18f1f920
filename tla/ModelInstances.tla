---------------------------- MODULE ModelInstances ----------------------------
(***************************************************************************)
(* The processes behind the router (tools/server/server-models.cpp): a     *)
(* child server per loaded model, and in the router three threads for each *)
(* of them: one reads its output (log_thread), one stops it                *)
(* (stopping_thread), and the managing thread that started both waits for  *)
(* its end and reports it.  They share mapping and stopping_models with    *)
(* the HTTP handlers of ServerModels, behind one mutex.                    *)
(*                                                                         *)
(* One step is one critical section.  locked is the handler that keeps the *)
(* mutex while it joins a thread; nobody else enters then.                 *)
(***************************************************************************)
EXTENDS Naturals, Sequences, SequencesExt, FiniteSets

CONSTANTS
    Name,           \* the names of models
    Client,         \* the HTTP handlers
    None,           \* no handler holds the mutex
    PipeCap,        \* messages of a child that fit into the pipe (bound)
    MaxIncidents    \* how often a child crashes, cannot be spawned, or falls asleep
                    \* for want of requests, all in all (bound)

VARIABLES
    mapping,            \* a function on some of the names
    stopping_models,
    need_reload,
    sources,            \* [Name -> Nat]: the cache, the models directory and the
                        \* preset file: 0 absent, otherwise a version of the preset
    inst,               \* every instance spawned so far
    locked,
    incidents,          \* crashes, incidents to spawn, and sleeps so far
    astray              \* history: the names for which an exit went astray, as a mark
                        \* set when the managing thread was past erasing it, or as the
                        \* exit of a finished download that found another instance

Status == {"DOWNLOADING", "DOWNLOADED", "UNLOADED", "LOADING", "LOADED", "SLEEPING"}
Running(e) == e.status \in {"LOADING", "LOADED", "SLEEPING"}

\* instance_t: th is 0 when the std::thread is not joinable; preset 0 is an entry
\* without a preset, such as operator[] creates for a name that is gone.
Entry == [status : Status, inst : 0 .. Len(inst), th : 0 .. Len(inst), failed : BOOLEAN,
          preset : Nat]
NewEntry(preset) ==
    [status |-> "UNLOADED", inst |-> 0, th |-> 0, failed |-> FALSE, preset |-> preset]

Instance ==
    [name : Name, mode : {"normal", "download"},
     child : {"loading", "ready", "sleeping", "downloading", "finished", "gone"},
     failed : BOOLEAN,          \* exit code other than 0
     pipe : Seq({"loading", "ready", "sleeping", "finished"}),
     exit : BOOLEAN,            \* CMD_ROUTER_TO_CHILD_EXIT was written to its stdin
     stopped : BOOLEAN,
     log : {"read", "request_exit", "erase", "join", "status", "done"},
     stopper : {"check", "wait", "timing", "done"},
     asked : BOOLEAN]           \* history: somebody unloaded this instance

NewInstance(n, m) ==
    [name |-> n, mode |-> m, child |-> IF m = "normal" THEN "loading" ELSE "downloading",
     failed |-> FALSE, pipe |-> <<>>, exit |-> FALSE, stopped |-> FALSE,
     log |-> "read", stopper |-> "check", asked |-> FALSE]

instanceVars == <<mapping, stopping_models, need_reload, sources, inst, locked, incidents, astray>>

-----------------------------------------------------------------------------
(* The child process                                                       *)

Say(i, state, message) ==
    /\ Len(inst[i].pipe) < PipeCap
    /\ inst' = [inst EXCEPT ![i].child = state, ![i].pipe = Append(@, message)]
    /\ UNCHANGED <<mapping, stopping_models, need_reload, sources, locked, incidents, astray>>

Child_Ready(i) == inst[i].child = "loading" /\ Say(i, "ready", "ready")

Child_Sleep(i) ==
    /\ inst[i].child = "ready" /\ ~inst[i].exit
    /\ Len(inst[i].pipe) < PipeCap /\ incidents < MaxIncidents
    /\ inst' = [inst EXCEPT ![i].child = "sleeping", ![i].pipe = Append(@, "sleeping")]
    /\ incidents' = incidents + 1
    /\ UNCHANGED <<mapping, stopping_models, need_reload, sources, locked, astray>>

\* A request wakes it up: it loads its model, which reports progress.
Child_Wake(i) == inst[i].child = "sleeping" /\ Say(i, "loading", "loading")

\* The download ends, or fails, or notices that it is cancelled.
Child_Downloaded(i) ==
    /\ inst[i].child = "downloading" /\ Len(inst[i].pipe) < PipeCap
    /\ inst' = [inst EXCEPT ![i].child = "finished", ![i].pipe = Append(@, "finished")]
    /\ sources' \in {sources, [sources EXCEPT ![inst[i].name] = 1]}
    /\ UNCHANGED <<mapping, stopping_models, need_reload, locked, incidents, astray>>

\* The exit command, which is read once the model is loaded.
Child_Exit(i) ==
    /\ inst[i].exit /\ inst[i].child \in {"ready", "sleeping", "finished"}
    /\ inst' = [inst EXCEPT ![i].child = "gone"]
    /\ UNCHANGED <<mapping, stopping_models, need_reload, sources, locked, incidents, astray>>

\* It crashes, or cannot load its model.
Child_Crash(i) ==
    /\ inst[i].child # "gone" /\ incidents < MaxIncidents
    /\ inst' = [inst EXCEPT ![i].child = "gone", ![i].failed = TRUE]
    /\ incidents' = incidents + 1
    /\ UNCHANGED <<mapping, stopping_models, need_reload, sources, locked, astray>>

Child(i) == \/ Child_Ready(i) \/ Child_Sleep(i) \/ Child_Wake(i)
            \/ Child_Downloaded(i) \/ Child_Exit(i) \/ Child_Crash(i)

-----------------------------------------------------------------------------
(* What the router does to a child                                         *)

\* server_subproc::terminate, and request_exit
Killed(x) == IF x.child = "gone" THEN x ELSE [x EXCEPT !.child = "gone", !.failed = TRUE]
ExitRequested(x) == [x EXCEPT !.exit = TRUE, !.stopped = TRUE]

NotifiedNobody(I) == I                  \* mutant: nobody is woken up
\* cv_stop.notify_all: whoever waits there tests its condition again.
Notified(I) == [i \in DOMAIN I |-> IF I[i].stopper = "wait"
                                   THEN [I[i] EXCEPT !.stopper = "check"] ELSE I[i]]

-----------------------------------------------------------------------------
(* log_thread, and the managing thread                                     *)

StatusOf(message) == CASE message = "ready" -> "LOADED"
                       [] message = "sleeping" -> "SLEEPING"
                       [] message = "loading" -> "LOADING"

\* update_status: of the name, whichever instance holds it now.
WithStatus(n, s, f) ==
    IF n \in DOMAIN mapping
    THEN [mapping EXCEPT ![n].status = s, ![n].failed = f] ELSE mapping

\* handle_child_state, for a server ...
Log_State(i) ==
    /\ locked = None /\ inst[i].log = "read"
    /\ inst[i].pipe # <<>> /\ Head(inst[i].pipe) # "finished"
    /\ inst' = [inst EXCEPT ![i].pipe = Tail(@)]
    /\ mapping' = WithStatus(inst[i].name, StatusOf(Head(inst[i].pipe)), FALSE)
    /\ UNCHANGED <<stopping_models, need_reload, sources, locked, incidents, astray>>

\* ... and for a download that is over: update_download_progress ...
Log_Downloaded(i) ==
    /\ locked = None /\ inst[i].log = "read"
    /\ inst[i].pipe # <<>> /\ Head(inst[i].pipe) = "finished"
    /\ inst' = [inst EXCEPT ![i].pipe = Tail(@), ![i].log = "request_exit"]
    /\ IF inst[i].name \in DOMAIN mapping
       THEN mapping' = [mapping EXCEPT ![inst[i].name].status = "DOWNLOADED"]
            /\ need_reload' = TRUE
       ELSE UNCHANGED <<mapping, need_reload>>
    /\ UNCHANGED <<stopping_models, sources, locked, incidents, astray>>

\* ... and request_exit, of the instance that is found under the name by then.
Log_RequestExit(i) ==
    /\ locked = None /\ inst[i].log = "request_exit"
    /\ LET n == inst[i].name
           j == IF n \in DOMAIN mapping THEN mapping[n].inst ELSE 0
           I == [inst EXCEPT ![i].log = "read"]
       IN /\ inst' = IF j = 0 THEN I ELSE [I EXCEPT ![j] = ExitRequested(@)]
          /\ astray' = IF j \in {0, i} THEN astray ELSE astray \cup {n}
    /\ UNCHANGED <<mapping, stopping_models, need_reload, sources, locked, incidents>>

\* End of file: log_thread is joined.
Mon_Eof(i) ==
    /\ inst[i].log = "read" /\ inst[i].pipe = <<>> /\ inst[i].child = "gone"
    /\ inst' = [inst EXCEPT ![i].stopped = TRUE, ![i].log = "erase"]
    /\ UNCHANGED <<mapping, stopping_models, need_reload, sources, locked, incidents, astray>>

Mon_EraseNothing(i) ==                  \* mutant: the mark stays
    /\ locked = None /\ inst[i].log = "erase"
    /\ inst' = Notified([inst EXCEPT ![i].log = "join"])
    /\ UNCHANGED <<mapping, stopping_models, need_reload, sources, locked, incidents, astray>>

Mon_Erase(i) ==
    /\ locked = None /\ inst[i].log = "erase"
    /\ stopping_models' = stopping_models \ {inst[i].name}
    /\ inst' = Notified([inst EXCEPT ![i].log = "join"])
    /\ UNCHANGED <<mapping, need_reload, sources, locked, incidents, astray>>

Mon_JoinSilent(i) ==                    \* mutant: no status is reported, as for a download
    /\ inst[i].log = "join" /\ inst[i].stopper = "done"
    /\ inst' = [inst EXCEPT ![i].log = "done"]
    /\ UNCHANGED <<mapping, stopping_models, need_reload, sources, locked, incidents, astray>>

\* stopping_thread.join, subprocess_join
Mon_Join(i) ==
    /\ inst[i].log = "join" /\ inst[i].stopper = "done"
    /\ inst' = [inst EXCEPT ![i].log = IF inst[i].mode = "download" THEN "done" ELSE "status"]
    /\ UNCHANGED <<mapping, stopping_models, need_reload, sources, locked, incidents, astray>>

Mon_Status(i) ==
    /\ locked = None /\ inst[i].log = "status"
    /\ mapping' = WithStatus(inst[i].name, "UNLOADED", inst[i].failed)
    /\ inst' = [inst EXCEPT ![i].log = "done"]
    /\ UNCHANGED <<stopping_models, need_reload, sources, locked, incidents, astray>>

Managing(i) == \/ Log_State(i) \/ Log_Downloaded(i) \/ Log_RequestExit(i)
               \/ Mon_Eof(i) \/ Mon_Erase(i) \/ Mon_Join(i) \/ Mon_Status(i)

-----------------------------------------------------------------------------
(* stopping_thread                                                         *)

IsStopping(i) == inst[i].name \in stopping_models

\* It waits for a mark on its model's name, or the end of the child.
Stop_Check(i) ==
    /\ locked = None /\ inst[i].stopper = "check"
    /\ inst' = [inst EXCEPT
          ![i].stopper = IF inst[i].stopped THEN "done"
                         ELSE IF IsStopping(i) THEN "timing" ELSE "wait",
          ![i].exit = @ \/ (IsStopping(i) /\ ~inst[i].stopped)]
    /\ UNCHANGED <<mapping, stopping_models, need_reload, sources, locked, incidents, astray>>

\* The exit command was sent: wait for the end ...
Stop_Ended(i) ==
    /\ locked = None /\ inst[i].stopper = "timing"
    /\ ~IsStopping(i) \/ inst[i].stopped
    /\ inst' = [inst EXCEPT ![i].stopper = "done"]
    /\ UNCHANGED <<mapping, stopping_models, need_reload, sources, locked, incidents, astray>>

\* ... or for stop_timeout seconds.
Stop_Timeout(i) ==
    /\ locked = None /\ inst[i].stopper = "timing"
    /\ IsStopping(i) /\ ~inst[i].stopped
    /\ inst' = [inst EXCEPT ![i] = [Killed(@) EXCEPT !.stopper = "done"]]
    /\ UNCHANGED <<mapping, stopping_models, need_reload, sources, locked, incidents, astray>>

Stopping(i) == Stop_Check(i) \/ Stop_Ended(i) \/ Stop_Timeout(i)

=============================================================================
