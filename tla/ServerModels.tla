----------------------------- MODULE ServerModels -----------------------------
(***************************************************************************)
(* The router (struct server_models, tools/server/server-models.cpp): HTTP *)
(* handlers load models on demand, evicting the least recently used one,   *)
(* unload, download and delete them, and reload the list of models from    *)
(* its sources; the main thread unloads everything when the server stops.  *)
(* Instances and their threads are in ModelInstances.                      *)
(*                                                                         *)
(* A handler goes through one critical section of the mutex after the      *)
(* other; a condition_variable::wait is a step that is enabled while its   *)
(* predicate holds (every assignment that can make one true is followed    *)
(* by notify_all on cv).                                                   *)
(***************************************************************************)
EXTENDS ModelInstances

CONSTANTS
    Programs,       \* a set of [Client -> Seq(Request)]: the requests they make in turn
    MaxInstances,   \* how many instances these spawn at most (bound)
    ModelsMax,      \* --models-max, 0: no limit
    Cached,         \* the names that are in the cache and may be deleted
    FirstSources    \* [Name -> Nat]: the sources at the start

Request ==
    [op : {"request", "load", "unload", "remove", "download", "edit"}, name : Name]
    \cup [op : {"reload"}]

ASSUME RouterAssumption ==
    /\ \A P \in Programs : P \in [Client -> Seq(Request)]
    /\ {ModelsMax, MaxIncidents} \subseteq Nat
    /\ Cached \subseteq Name /\ FirstSources \in [Name -> Nat]
    /\ None \notin Client

VARIABLES
    th,             \* [Client -> handler]
    is_reloading,
    used,           \* the names in the order of their last_used
    main,           \* the main thread: "serving", "joining", "exited"
    aborted         \* a GGML_ASSERT has failed

routerVars == <<th, is_reloading, used, main, aborted>>
vars == <<instanceVars, routerVars>>

Handler ==
    [pc : {"begin", "await", "proxy", "touch", "load", "evict", "evicted", "load_body",
           "load_join", "unload", "unload_wait", "rm_wait", "rm_join",
           "reload", "rl_begin", "rl_unload", "rl_wait", "rl_join", "rl_finish", "list"},
     reqs : Seq(Request),           \* the requests still to answer
     back : {"begin", "proxy", "list"}, fresh : BOOLEAN,    \* load_models in get_meta
     victim : Name \cup {None}, seen : BOOLEAN, new : Nat,  \* load, ensure_model_ready
     presets : [Name -> Nat], todo : SUBSET Name, left : SUBSET Name, joins : SUBSET Nat]

Begin(reqs) ==
    [pc |-> "begin", reqs |-> reqs, back |-> "begin", fresh |-> FALSE, victim |-> None,
     seen |-> FALSE, new |-> 0, presets |-> [n \in Name |-> 0], todo |-> {}, left |-> {},
     joins |-> {}]

Init ==
    /\ mapping = [n \in {m \in Name : FirstSources[m] > 0} |-> NewEntry(FirstSources[n])]
    /\ sources = FirstSources
    /\ stopping_models = {} /\ need_reload = FALSE /\ inst = <<>> /\ locked = None
    /\ incidents = 0 /\ astray = {}
    /\ \E P \in Programs : th = [c \in Client |-> Begin(P[c])]
    /\ is_reloading = FALSE /\ used = <<>> /\ main = "serving"
    /\ aborted = FALSE

-----------------------------------------------------------------------------

Serving(c) == th[c].reqs # <<>>
Req(c)  == Head(th[c].reqs)
At(c, pc) == Serving(c) /\ th[c].pc = pc
Op(c, op) == Req(c).op = op
Target(c) == Req(c).name

Goto(c, pc) == th' = [th EXCEPT ![c].pc = pc, ![c].fresh = FALSE]
Answer(c)   == th' = [th EXCEPT ![c] = Begin(Tail(@.reqs))]

IsRunning(n) == n \in DOMAIN mapping /\ Running(mapping[n])
Active == {n \in DOMAIN mapping : Running(mapping[n])}

\* operator[] of the map
Adding(m, new) == [n \in DOMAIN m \cup DOMAIN new |-> IF n \in DOMAIN m THEN m[n] ELSE new[n]]
At0(m, n) == Adding(m, [x \in {n} |-> NewEntry(0)])
LastUse(n) == IF n \in ToSet(used) THEN CHOOSE k \in DOMAIN used : used[k] = n ELSE 0
Used(n) == Append(IF n \in ToSet(used) THEN RemoveAt(used, LastUse(n)) ELSE used, n)
Erase(m, N) == [n \in DOMAIN m \ N |-> m[n]]

\* Whether the threads of an instance have left the mutex alone for good.
Past(i) == IF i = 0 THEN TRUE ELSE inst[i].log = "done"

\* What the main body of unload, remove and unload_all do to one running model.
Marked(n, I) ==
    LET i == mapping[n].inst
        J == Notified(I)
    IN IF i = 0 THEN J ELSE [J EXCEPT ![i].asked = TRUE]
LateMark(n) ==
    IF mapping[n].inst # 0 /\ inst[mapping[n].inst].log \in {"join", "status", "done"}
    THEN astray \cup {n} ELSE astray
KilledIfLoading(n, I) ==
    IF mapping[n].status = "LOADING" /\ mapping[n].inst # 0
    THEN [I EXCEPT ![mapping[n].inst] = Killed(@)] ELSE I

UnloadEffect(n) ==
    IF n \in DOMAIN mapping /\ mapping[n].status = "DOWNLOADING"
    THEN /\ inst' = [inst EXCEPT ![mapping[n].inst] = ExitRequested(@)]
         /\ UNCHANGED <<stopping_models, astray>>
    ELSE IF IsRunning(n)
    THEN /\ stopping_models' = stopping_models \cup {n}
         /\ inst' = Marked(n, KilledIfLoading(n, inst))
         /\ astray' = LateMark(n)
    ELSE UNCHANGED <<inst, stopping_models, astray>>

-----------------------------------------------------------------------------
(* get_meta and get_all_meta: a lookup reloads the models first if a        *)
(* download has finished                                                   *)

LooksUp(c) ==
    \/ th[c].pc \in {"proxy", "list"}
    \/ th[c].pc = "begin" /\ Req(c).op \in {"request", "load", "unload"}
Current(c) == ~need_reload \/ th[c].fresh

Lookup_Reload(c) ==
    /\ locked = None /\ Serving(c) /\ LooksUp(c) /\ ~Current(c)
    /\ th' = [th EXCEPT ![c].pc = "reload", ![c].back = th[c].pc]
    /\ UNCHANGED <<instanceVars, is_reloading, used, main, aborted>>

-----------------------------------------------------------------------------
(* proxy_post: ensure_model_ready, then proxy_request                      *)

Request_Ensure(c) ==
    /\ locked = None /\ At(c, "begin") /\ Op(c, "request") /\ Current(c)
    /\ LET n == Target(c)
       IN IF n \notin DOMAIN mapping THEN Answer(c)
          ELSE th' = [th EXCEPT
                 ![c].pc = CASE mapping[n].status \in {"LOADED", "SLEEPING"} -> "proxy"
                             [] mapping[n].status = "UNLOADED" -> "load"
                             [] OTHER -> "await",
                 ![c].seen = mapping[n].status = "UNLOADED" /\ mapping[n].failed,
                 ![c].fresh = FALSE]
    /\ UNCHANGED <<instanceVars, is_reloading, used, main, aborted>>

\* The wait until the model is no longer loading; a model that is gone keeps the
\* metadata seen before.
Request_Await(c) ==
    /\ locked = None /\ At(c, "await")
    /\ LET n == Target(c)
           e == mapping[n]
           failed == IF n \in DOMAIN mapping THEN e.status = "UNLOADED" /\ e.failed
                     ELSE th[c].seen
       IN /\ n \in DOMAIN mapping => e.status # "LOADING"
          /\ IF failed THEN Answer(c) ELSE Goto(c, "proxy")
    /\ UNCHANGED <<instanceVars, is_reloading, used, main, aborted>>

Request_Proxy(c) ==
    /\ locked = None /\ At(c, "proxy") /\ Current(c)
    /\ IF IsRunning(Target(c)) THEN Goto(c, "touch") ELSE Answer(c)
    /\ UNCHANGED <<instanceVars, is_reloading, used, main, aborted>>

\* last_used is set in a second critical section, through operator[].
Request_Touch(c) ==
    /\ locked = None /\ At(c, "touch")
    /\ mapping' = At0(mapping, Target(c))
    /\ used' = Used(Target(c))
    /\ Answer(c)
    /\ UNCHANGED <<stopping_models, need_reload, sources, inst, locked, incidents, astray,
                   is_reloading, main, aborted>>

-----------------------------------------------------------------------------
(* load, unload_lru                                                        *)

Load_Begin(c) ==
    /\ locked = None /\ At(c, "begin") /\ Op(c, "load") /\ Current(c)
    /\ IF Target(c) \notin DOMAIN mapping \/ IsRunning(Target(c))
       THEN Answer(c) ELSE Goto(c, "load")
    /\ UNCHANGED <<instanceVars, is_reloading, used, main, aborted>>

\* POST /models: has_model, then load() with custom_meta, which evicts nobody.
Download_Begin(c) ==
    /\ locked = None /\ At(c, "begin") /\ Op(c, "download")
    /\ IF Target(c) \in DOMAIN mapping THEN Answer(c) ELSE Goto(c, "load_body")
    /\ UNCHANGED <<instanceVars, is_reloading, used, main, aborted>>

AtLimitOfLoaded ==                      \* mutant: servers that load are not counted
    ModelsMax > 0
    /\ Cardinality({n \in Active : mapping[n].status # "LOADING"}) >= ModelsMax
AtLimit == ModelsMax > 0 /\ Cardinality(Active) >= ModelsMax

LeastRecentlyUsed == {n \in Active : \A m \in Active : LastUse(n) <= LastUse(m)}

\* has_model, and the search of unload_lru
Load_Find(c) ==
    /\ locked = None /\ At(c, "load")
    /\ IF Target(c) \notin DOMAIN mapping THEN Answer(c)
       ELSE IF AtLimit
       THEN \E v \in LeastRecentlyUsed :
               th' = [th EXCEPT ![c].pc = "evict", ![c].victim = v]
       ELSE Goto(c, "load_body")
    /\ UNCHANGED <<instanceVars, is_reloading, used, main, aborted>>

Load_Evict(c) ==
    /\ locked = None /\ At(c, "evict")
    /\ UnloadEffect(th[c].victim)
    /\ Goto(c, "evicted")
    /\ UNCHANGED <<mapping, need_reload, sources, locked, incidents,
                   is_reloading, used, main, aborted>>

\* cv.wait of unload_lru: UNLOADED, and an entry that is gone is created again.
Load_Evicted(c) ==
    /\ locked = None /\ At(c, "evicted")
    /\ LET v == th[c].victim
       IN /\ v \in DOMAIN mapping => mapping[v].status = "UNLOADED"
          /\ mapping' = At0(mapping, v)
    /\ Goto(c, "load_body")
    /\ UNCHANGED <<stopping_models, need_reload, sources, inst, locked, incidents, astray,
                   is_reloading, used, main, aborted>>

\* Where load() returns to.
Loaded(c) == IF Op(c, "request") THEN [th[c] EXCEPT !.pc = "await"] ELSE Begin(Tail(th[c].reqs))
\* The entry that load() leaves: the metadata with the new instance, or for a download
\* metadata made for it.
Installed(c, m, i) ==
    LET n == Target(c)
        download == Op(c, "download")
    IN [m EXCEPT ![n] =
          [status |-> IF download THEN "DOWNLOADING" ELSE "LOADING", inst |-> i, th |-> i,
           failed |-> @.failed /\ ~download, preset |-> IF download THEN 0 ELSE @.preset]]

\* load() under the lock, when it does not spawn: somebody else has loaded the
\* model, the limit is reached, or the process cannot be created.
Load_Refuse(c) ==
    /\ locked = None /\ At(c, "load_body") /\ ~is_reloading
    /\ LET m == At0(mapping, Target(c))
           busy == ~Op(c, "download") /\ m[Target(c)].status # "UNLOADED"
       IN /\ mapping' = IF Op(c, "download") THEN mapping ELSE m
          /\ \/ busy /\ th' = [th EXCEPT ![c] = Loaded(c)] /\ UNCHANGED incidents
             \/ /\ ~busy /\ AtLimit
                /\ Answer(c) /\ UNCHANGED incidents
             \/ /\ ~busy /\ incidents < MaxIncidents
                /\ incidents' = incidents + 1 /\ Answer(c)
    /\ UNCHANGED <<stopping_models, need_reload, sources, inst, locked, astray,
                   is_reloading, used, main, aborted>>

\* load() under the lock: the child is spawned, an old one that is still alive is
\* killed, its thread joined; then the new instance takes the entry.
Load_Spawn(c) ==
    /\ locked = None /\ At(c, "load_body") /\ ~is_reloading
    /\ Len(inst) < MaxInstances
    /\ ~AtLimit
    /\ LET n == Target(c)
           m == At0(mapping, n)
           old == m[n]
           new == NewInstance(n, IF Op(c, "download") THEN "download" ELSE "normal")
           I == IF old.inst = 0 THEN inst ELSE [inst EXCEPT ![old.inst] = Killed(@)]
       IN /\ Op(c, "download") \/ old.status = "UNLOADED"
          /\ inst' = Append(I, new)
          /\ IF Past(old.th)
             THEN /\ mapping' = Installed(c, m, Len(inst'))
                  /\ used' = Used(n)
                  /\ th' = [th EXCEPT ![c] = Loaded(c)]
                  /\ UNCHANGED locked
             ELSE /\ mapping' = m
                  /\ locked' = c
                  /\ th' = [th EXCEPT ![c].pc = "load_join", ![c].new = Len(inst')]
                  /\ UNCHANGED used
    /\ UNCHANGED <<stopping_models, need_reload, sources, incidents, astray,
                   is_reloading, main, aborted>>

Load_Join(c) ==
    /\ At(c, "load_join") /\ Past(mapping[Target(c)].th)
    /\ mapping' = Installed(c, mapping, th[c].new)
    /\ used' = Used(Target(c))
    /\ th' = [th EXCEPT ![c] = Loaded(c)]
    /\ locked' = None
    /\ UNCHANGED <<stopping_models, need_reload, sources, inst, incidents, astray,
                   is_reloading, main, aborted>>

-----------------------------------------------------------------------------
(* unload, remove                                                          *)

Unload_Begin(c) ==
    /\ locked = None /\ At(c, "begin") /\ Op(c, "unload") /\ Current(c)
    /\ IF \/ IsRunning(Target(c))
          \/ Target(c) \in DOMAIN mapping /\ mapping[Target(c)].status = "DOWNLOADING"
       THEN Goto(c, "unload") ELSE Answer(c)
    /\ UNCHANGED <<instanceVars, is_reloading, used, main, aborted>>

Unload(c) ==
    /\ locked = None /\ At(c, "unload")
    /\ UnloadEffect(Target(c))
    /\ IF Target(c) \in DOMAIN mapping /\ mapping[Target(c)].status = "DOWNLOADING"
       THEN Goto(c, "unload_wait") ELSE Answer(c)
    /\ UNCHANGED <<mapping, need_reload, sources, locked, incidents,
                   is_reloading, used, main, aborted>>

Unload_Wait(c) ==
    /\ locked = None /\ At(c, "unload_wait")
    /\ Target(c) \in DOMAIN mapping => mapping[Target(c)].status # "DOWNLOADING"
    /\ Answer(c)
    /\ UNCHANGED <<instanceVars, is_reloading, used, main, aborted>>

\* remove(), from the end of its wait on: the thread is joined with the mutex held,
\* then the entry and the files are deleted.
Deleted(c) ==
    /\ mapping' = Erase(mapping, {Target(c)})
    /\ sources' = [sources EXCEPT ![Target(c)] = 0]
    /\ Answer(c)

RemoveEnds(c) ==
    IF Target(c) \in DOMAIN mapping /\ ~Past(mapping[Target(c)].th)
    THEN /\ locked' = c /\ Goto(c, "rm_join")
         /\ UNCHANGED <<mapping, sources>>
    ELSE Deleted(c) /\ UNCHANGED locked

Settled(n) == n \in DOMAIN mapping => mapping[n].status \in {"UNLOADED", "DOWNLOADED"}

Remove_Begin(c) ==
    /\ locked = None /\ At(c, "begin") /\ Op(c, "remove")
    /\ LET n == Target(c)
       IN IF n \notin DOMAIN mapping \/ n \notin Cached
          THEN Answer(c) /\ UNCHANGED <<mapping, sources, inst, stopping_models, astray, locked>>
          ELSE IF Settled(n)
          THEN RemoveEnds(c) /\ UNCHANGED <<inst, stopping_models, astray>>
          ELSE /\ UnloadEffect(n) /\ Goto(c, "rm_wait")
               /\ UNCHANGED <<mapping, sources, locked>>
    /\ UNCHANGED <<need_reload, incidents, is_reloading, used, main, aborted>>

Remove_Wait(c) ==
    /\ locked = None /\ At(c, "rm_wait") /\ Settled(Target(c))
    /\ RemoveEnds(c)
    /\ UNCHANGED <<stopping_models, need_reload, inst, incidents, astray,
                   is_reloading, used, main, aborted>>

Remove_Join(c) ==
    /\ At(c, "rm_join") /\ Past(mapping[Target(c)].th)
    /\ Deleted(c)
    /\ locked' = None
    /\ UNCHANGED <<stopping_models, need_reload, inst, incidents, astray,
                   is_reloading, used, main, aborted>>

-----------------------------------------------------------------------------
(* load_models                                                             *)

\* GET /models?reload
Reload_Begin(c) ==
    /\ At(c, "begin") /\ Op(c, "reload")
    /\ th' = [th EXCEPT ![c].pc = "reload", ![c].back = "list"]
    /\ UNCHANGED <<instanceVars, is_reloading, used, main, aborted>>

\* Phase 1: the sources are read, without the lock.
Reload_Read(c) ==
    /\ At(c, "reload")
    /\ th' = [th EXCEPT ![c].pc = "rl_begin", ![c].presets = sources]
    /\ UNCHANGED <<instanceVars, is_reloading, used, main, aborted>>

InSource(c, n) == th[c].presets[n] > 0
Added(c, m) == Adding(m, [n \in {x \in Name : InSource(c, x)} |-> NewEntry(th[c].presets[n])])
Returned(c) == [th[c] EXCEPT !.pc = th[c].back, !.fresh = TRUE]

\* Phase 2.  An empty mapping is filled as on the first load.
Reload_Start(c) ==
    /\ locked = None /\ At(c, "rl_begin")
    /\ need_reload' = FALSE
    /\ IF DOMAIN mapping = {}
       THEN /\ mapping' = Added(c, mapping)
            /\ th' = [th EXCEPT ![c] = Returned(c)]
            /\ UNCHANGED is_reloading
       ELSE /\ is_reloading' = TRUE
            /\ LET out == {n \in Active : mapping[n].preset # th[c].presets[n]}
               IN th' = [th EXCEPT ![c].pc = "rl_unload", ![c].todo = out, ![c].left = out]
            /\ UNCHANGED mapping
    /\ UNCHANGED <<stopping_models, sources, inst, locked, incidents, astray,
                   used, main, aborted>>

\* What is removed from its source, or whose preset has changed, is unloaded.
Reload_Unload(c) ==
    /\ locked = None /\ At(c, "rl_unload")
    /\ \E n \in th[c].left :
          /\ UnloadEffect(n)
          /\ th' = [th EXCEPT ![c].left = @ \ {n}]
    /\ UNCHANGED <<mapping, need_reload, sources, locked, incidents,
                   is_reloading, used, main, aborted>>

\* All of it has ended: the threads to join are moved out of their entries.
ToJoin(c) ==
    {n \in DOMAIN mapping : /\ mapping[n].th # 0
                            /\ \/ n \in th[c].todo
                               \/ mapping[n].status = "DOWNLOADED"
                               \/ /\ mapping[n].status # "DOWNLOADING"
                                  /\ ~InSource(c, n) /\ ~Running(mapping[n])}

Reload_Collect(c) ==
    /\ locked = None /\ At(c, "rl_unload") /\ th[c].left = {}
    /\ \A n \in th[c].todo : ~IsRunning(n)
    /\ mapping' = [n \in DOMAIN mapping |->
          IF n \in ToJoin(c) THEN [mapping[n] EXCEPT !.th = 0] ELSE mapping[n]]
    /\ th' = [th EXCEPT ![c].pc = "rl_join",
                        ![c].joins = {mapping[n].th : n \in ToJoin(c)}]
    /\ UNCHANGED <<stopping_models, need_reload, sources, inst, locked, incidents, astray,
                   is_reloading, used, main, aborted>>

\* Joined without the lock, one after the other.
Reload_Join(c) ==
    /\ At(c, "rl_join") /\ \A i \in th[c].joins : Past(i)
    /\ th' = [th EXCEPT ![c].pc = "rl_finish"]
    /\ UNCHANGED <<instanceVars, is_reloading, used, main, aborted>>

\* Entries without a source and finished downloads are erased (their threads must have
\* been joined: GGML_ASSERT), presets updated, new models added.
Reload_Finish(c) ==
    /\ locked = None /\ At(c, "rl_finish")
    /\ LET gone == {n \in DOMAIN mapping :
                       \/ mapping[n].status = "DOWNLOADED"
                       \/ mapping[n].status # "DOWNLOADING" /\ ~InSource(c, n)}
           kept == Erase(mapping, gone)
           updated == [n \in DOMAIN kept |->
                         IF ~Running(kept[n]) /\ InSource(c, n)
                         THEN [kept[n] EXCEPT !.preset = th[c].presets[n], !.failed = FALSE]
                         ELSE kept[n]]
       IN IF \E n \in gone : mapping[n].th # 0
          THEN aborted' = TRUE /\ UNCHANGED <<mapping, is_reloading, th>>
          ELSE /\ mapping' = Added(c, updated)
               /\ is_reloading' = FALSE
               /\ th' = [th EXCEPT ![c] = Returned(c)]
               /\ UNCHANGED aborted
    /\ UNCHANGED <<stopping_models, need_reload, sources, inst, locked, incidents, astray,
                   used, main>>

List(c) ==
    /\ locked = None /\ At(c, "list") /\ Current(c)
    /\ Answer(c)
    /\ UNCHANGED <<instanceVars, is_reloading, used, main, aborted>>

-----------------------------------------------------------------------------
(* The end: the HTTP server has stopped, every handler has returned        *)

UnloadAll ==
    /\ locked = None /\ main = "serving" /\ \A c \in Client : ~Serving(c)
    /\ main' = "joining"
    /\ stopping_models' = stopping_models \cup Active
    /\ astray' = astray \cup UNION {LateMark(n) : n \in Active}
    /\ LET marked == {mapping[n].inst : n \in Active}
           cancelled == {mapping[n].inst : n \in {m \in DOMAIN mapping :
                                                   mapping[m].status = "DOWNLOADING"}}
           I == IF Active = {} THEN inst ELSE Notified(inst)
       IN inst' = [i \in DOMAIN inst |->
                     [I[i] EXCEPT !.asked = @ \/ i \in marked,
                                  !.stopped = @ \/ i \in cancelled]]
    /\ UNCHANGED <<mapping, need_reload, sources, locked, incidents,
                   th, is_reloading, used, aborted>>

\* The threads are joined; every one that is joinable is in some entry.
Exit ==
    /\ main = "joining" /\ \A n \in DOMAIN mapping : Past(mapping[n].th)
    /\ main' = "exited"
    /\ UNCHANGED <<instanceVars, th, is_reloading, used, aborted>>

-----------------------------------------------------------------------------

\* Not a request: somebody edits the preset file or the models directory meanwhile.
Edit(c) ==
    /\ At(c, "begin") /\ Op(c, "edit")
    /\ sources' = [sources EXCEPT ![Target(c)] = IF @ < 2 THEN @ + 1 ELSE 0]
    /\ Answer(c)
    /\ UNCHANGED <<mapping, stopping_models, need_reload, inst, locked, incidents, astray,
                   is_reloading, used, main, aborted>>

Handling(c) ==
    \/ Lookup_Reload(c)
    \/ Request_Ensure(c) \/ Request_Await(c) \/ Request_Proxy(c) \/ Request_Touch(c)
    \/ Load_Begin(c) \/ Download_Begin(c) \/ Load_Find(c) \/ Load_Evict(c) \/ Load_Evicted(c)
    \/ Load_Refuse(c) \/ Load_Spawn(c) \/ Load_Join(c)
    \/ Unload_Begin(c) \/ Unload(c) \/ Unload_Wait(c)
    \/ Remove_Begin(c) \/ Remove_Wait(c) \/ Remove_Join(c)
    \/ Reload_Begin(c) \/ Reload_Read(c) \/ Reload_Start(c) \/ Reload_Unload(c)
    \/ Reload_Collect(c) \/ Reload_Join(c) \/ Reload_Finish(c) \/ List(c)
    \/ Edit(c)

Instances(i) == (Child(i) \/ Managing(i) \/ Stopping(i)) /\ UNCHANGED routerVars

Terminated == (main = "exited" \/ aborted) /\ UNCHANGED vars

Next ==
    \/ /\ ~aborted /\ main # "exited"
       /\ \/ \E c \in Client : Handling(c)
          \/ \E i \in DOMAIN inst : Instances(i)
          \/ UnloadAll \/ Exit
    \/ Terminated

\* Threads run; a child that loads or downloads comes to an end; the exit command and
\* the timeout of stop_timeout end the others.
Fairness ==
    /\ \A c \in Client : WF_vars(Handling(c))
    /\ \A i \in 1 .. MaxInstances :
          /\ WF_vars(i \in DOMAIN inst /\ Managing(i) /\ UNCHANGED routerVars)
          /\ WF_vars(i \in DOMAIN inst /\ Stopping(i) /\ UNCHANGED routerVars)
          /\ WF_vars(i \in DOMAIN inst /\ (Child_Ready(i) \/ Child_Downloaded(i) \/ Child_Exit(i))
                     /\ UNCHANGED routerVars)
    /\ WF_vars(UnloadAll \/ Exit)

Spec == Init /\ [][Next]_vars
FairSpec == Spec /\ Fairness

TypeOK ==
    /\ DOMAIN mapping \subseteq Name /\ \A n \in DOMAIN mapping : mapping[n] \in Entry
    /\ stopping_models \subseteq Name /\ astray \subseteq Name
    /\ {need_reload, is_reloading, aborted} \subseteq BOOLEAN
    /\ sources \in [Name -> Nat] /\ inst \in Seq(Instance)
    /\ locked \in Client \cup {None} /\ incidents \in 0 .. MaxIncidents
    /\ th \in [Client -> Handler] /\ used \in Seq(Name)
    /\ main \in {"serving", "joining", "exited"}

-----------------------------------------------------------------------------
(* Properties                                                              *)

\* unload_lru and the second look at the capacity in load(): whatever handlers do at
\* the same time, there are never more servers than --models-max allows.
CapacityKept ==
    ModelsMax > 0 =>
        /\ Cardinality(Active) <= ModelsMax
        /\ Cardinality({i \in DOMAIN inst : inst[i].mode = "normal" /\ inst[i].child # "gone"})
              <= ModelsMax

\* The process of a server is the one its model's entry has, and the entry says that it
\* runs, through every order of load, unload, crash, sleep and reload: so two servers for
\* one model never run side by side, and all of them are found by an eviction or the end.
ServersAreListed ==
    \A i \in DOMAIN inst :
        inst[i].mode = "normal" /\ inst[i].child # "gone" =>
           LET n == inst[i].name
           IN \/ n \in Active /\ mapping[n].inst = i
              \/ locked # None /\ th[locked].new = i

\* A model that is said to run has a managing thread that will say when it has ended:
\* no late message of a child brings a dead one back to life.
RunningIsManaged ==
    \A n \in Active : mapping[n].inst # 0 /\ inst[mapping[n].inst].log # "done"

\* Processes, entries and managing threads belong together.
ServersAreManaged == ServersAreListed /\ RunningIsManaged

\* A mark in stopping_models is taken away with the instance it was meant for, unless
\* it came after that instance's managing thread had been there.
MarksAreTaken ==
    \A n \in stopping_models \ astray :
        \E i \in DOMAIN inst : inst[i].name = n /\ inst[i].log \in {"read", "request_exit", "erase"}

\* A server is told to exit only when somebody unloaded this very instance, with the
\* same exceptions.
ExitsAreAsked ==
    \A i \in DOMAIN inst :
        inst[i].mode = "normal" /\ inst[i].exit => inst[i].asked \/ inst[i].name \in astray

\* A mark ends the instance it was meant for, and no other.
MarksMeanInstances == TypeOK /\ MarksAreTaken /\ ExitsAreAsked

\* The join of remove() under the lock: "thread no longer acquires this mutex".
NeedsMutex(i) == inst[i].log \in {"read", "request_exit", "erase", "status"}
RemoveJoinsFreely ==
    \A c \in Client : th[c].pc = "rm_join" => ~NeedsMutex(mapping[Target(c)].th)

\* What keeps a handler from ever returning: the model it has evicted, deletes or reloads
\* is loaded again before it looks, a download that crashed is never said to be over, the
\* exit of one that is over has gone elsewhere, and remove(), or the load of a download,
\* joins a thread under the mutex that thread needs; the load of a server never does.
LoadedAgain(n) == IsRunning(n) /\ ~inst[mapping[n].inst].asked
Overtaken(c) == \/ th[c].pc = "evicted" /\ LoadedAgain(th[c].victim)
                \/ At(c, "rm_wait") /\ LoadedAgain(Target(c))
                \/ /\ th[c].pc = "rl_unload" /\ th[c].left = {}
                   /\ \E n \in th[c].todo : LoadedAgain(n)
DownloadLost(n) ==
    /\ n \in DOMAIN mapping /\ mapping[n].status = "DOWNLOADING"
    /\ inst[mapping[n].inst].log = "done"
ExitLost(i) ==
    inst[i].child = "finished" /\ ~inst[i].exit /\ inst[i].log = "read" /\ inst[i].pipe = <<>>
Stuck == \/ aborted
         \/ \E c \in Client : Overtaken(c)
         \/ \E n \in Name : DownloadLost(n)
         \/ \E i \in DOMAIN inst : ExitLost(i)
         \/ locked # None /\ (th[locked].pc = "rm_join" \/ Op(locked, "download"))

\* Every request is answered, and the router then shuts down; nothing but the cases
\* above is in the way.
RouterServes == <>(main = "exited") \/ <>[]Stuck

=============================================================================
