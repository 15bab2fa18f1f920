-------------------------- MODULE ServerModelsProofs --------------------------
(***************************************************************************)
(* Proofs about the router, for any models, handlers, requests and limit,  *)
(* as long as nobody downloads a model: a server and its entry belong to   *)
(* each other, no thread is joined under the mutex, the limit of           *)
(* --models-max is kept, and a mark in stopping_models ends the server it  *)
(* was meant for and no other.                                             *)
(***************************************************************************)
EXTENDS ServerModels, FiniteSetTheorems, TLAPS

NoDownload(reqs) == \A k \in DOMAIN reqs : reqs[k].op # "download"
NoDownloads == \A P \in Programs : \A c \in Client : NoDownload(P[c])

-----------------------------------------------------------------------------
(* The invariant                                                           *)

\* The instances there are without downloads.  A process may be alive only as long as
\* its output is read.
Server ==
    {x \in Instance : /\ x.mode = "normal" /\ x.child \notin {"downloading", "finished"}
                      /\ \A k \in DOMAIN x.pipe : x.pipe[k] # "finished"
                      /\ x.log # "request_exit"
                      /\ x.log # "read" => x.child = "gone"}

ServerEntry == [status : {"UNLOADED", "LOADING", "LOADED", "SLEEPING"}, inst : Nat, th : Nat,
                failed : BOOLEAN, preset : Nat]

InstOK == inst \in Seq(Server)
MapOK ==
    /\ DOMAIN mapping \subseteq Name /\ mapping \in [DOMAIN mapping -> ServerEntry]
    /\ \A n \in DOMAIN mapping : mapping[n].inst <= Len(inst) /\ mapping[n].th <= Len(inst)
\* A thread that is to be joined is one of its model.
OwnOK == \A n \in DOMAIN mapping : mapping[n].th # 0 => inst[mapping[n].th].name = n
\* A model that runs has an instance that is managed, and can be joined.
RunOK ==
    \A n \in Active : /\ mapping[n].inst # 0 /\ mapping[n].th = mapping[n].inst
                      /\ inst[mapping[n].inst].log # "done"
\* An instance that is managed is the one of its model's entry, which runs.
ListOK ==
    \A i \in DOMAIN inst :
        inst[i].log # "done" => inst[i].name \in Active /\ mapping[inst[i].name].inst = i
LimitOK == IsFiniteSet(Active) /\ (ModelsMax > 0 => Cardinality(Active) <= ModelsMax)

Core == InstOK /\ MapOK /\ OwnOK /\ RunOK /\ ListOK /\ LimitOK

\* A handler that goes on with a request for a model
NamedPC == {"await", "proxy", "touch", "load", "evict", "evicted", "load_body",
            "unload", "unload_wait", "rm_wait"}
Named(x) == x.pc \in NamedPC \/ x.back = "proxy"
\* No handler is in a join under the mutex.
GoodHandler ==
    {x \in Handler : /\ x.pc \notin {"load_join", "rm_join"}
                     /\ NoDownload(x.reqs)
                     /\ x.pc \in {"evict", "evicted"} => x.victim \in Name
                     /\ Named(x) => x.reqs # <<>> /\ Head(x.reqs).op # "reload"}
HandlersOK == th \in [Client -> GoodHandler] /\ sources \in [Name -> Nat] /\ locked = None

RouterInv == Core /\ HandlersOK

-----------------------------------------------------------------------------
(* Instances                                                               *)

\* What may happen to the instances while the entries stay as they are.
Milder(I, J) ==
    /\ J \in Seq(Server) /\ Len(J) = Len(I)
    /\ \A i \in DOMAIN I : J[i].name = I[i].name /\ (J[i].log = "done" <=> I[i].log = "done")

\* How the entries may change, while the same models run with the same instances.
SameRunning(m, n) ==
    /\ DOMAIN m \subseteq Name /\ m \in [DOMAIN m -> ServerEntry]
    /\ {x \in DOMAIN m : Running(m[x])} = {x \in DOMAIN n : Running(n[x])}
    /\ \A x \in DOMAIN m :
          /\ m[x].inst = 0 \/ (x \in DOMAIN n /\ m[x].inst = n[x].inst)
          /\ m[x].th = 0 \/ (x \in DOMAIN n /\ m[x].th = n[x].th)
          /\ Running(m[x]) => m[x].inst = n[x].inst /\ m[x].th = n[x].th

\* A step under which processes only get milder (Milder) and the running entries stay the
\* same keeps the core of the invariant.
LEMMA CoreStep ==
    ASSUME Core, Milder(inst, inst'), SameRunning(mapping', mapping)
    PROVE  Core'
  <1>1. DOMAIN inst' = DOMAIN inst /\ Len(inst') = Len(inst)
    BY DEF Milder, Core, InstOK
  <1>2. Active' = Active
    BY DEF Active, SameRunning
  <1>3. InstOK' /\ LimitOK'
    BY <1>2 DEF Core, Milder, InstOK, LimitOK
  <1>4. MapOK'
    <2>1. \A x \in DOMAIN mapping' : mapping'[x].inst <= Len(inst) /\ mapping'[x].th <= Len(inst)
      BY DEF Core, MapOK, InstOK, SameRunning
    <2> QED
      BY <1>1, <2>1 DEF MapOK, SameRunning
  <1>5. OwnOK'
    <2> SUFFICES ASSUME NEW n \in DOMAIN mapping', mapping'[n].th # 0
                 PROVE  inst'[mapping'[n].th].name = n
      BY DEF OwnOK
    <2>1. n \in DOMAIN mapping /\ mapping'[n].th = mapping[n].th
      BY DEF SameRunning
    <2>2. mapping[n].th \in DOMAIN inst
      BY <2>1 DEF Core, MapOK, InstOK, ServerEntry
    <2> QED
      BY <2>1, <2>2 DEF Core, OwnOK, Milder
  <1>6. RunOK'
    <2> SUFFICES ASSUME NEW n \in Active
                 PROVE  /\ mapping'[n].inst # 0 /\ mapping'[n].th = mapping'[n].inst
                        /\ inst'[mapping'[n].inst].log # "done"
      BY <1>2 DEF RunOK
    <2>1. mapping'[n].inst = mapping[n].inst /\ mapping'[n].th = mapping[n].th
      BY <1>2 DEF SameRunning, Active
    <2>2. mapping[n].inst \in DOMAIN inst
      BY DEF Core, MapOK, InstOK, ServerEntry, RunOK, Active
    <2> QED
      BY <2>1, <2>2 DEF Core, RunOK, Milder
  <1>7. ListOK'
    <2> SUFFICES ASSUME NEW i \in DOMAIN inst, inst'[i].log # "done"
                 PROVE  inst'[i].name \in Active /\ mapping'[inst'[i].name].inst = i
      BY <1>1, <1>2 DEF ListOK
    <2>1. inst[i].name \in Active /\ mapping[inst[i].name].inst = i /\ inst'[i].name = inst[i].name
      BY DEF Core, ListOK, Milder
    <2> QED
      BY <1>2, <2>1 DEF SameRunning, Active
  <1> QED
    BY <1>3, <1>4, <1>5, <1>6, <1>7 DEF Core

\* Doing nothing is such a step.
LEMMA SameIsSame == ASSUME Core PROVE SameRunning(mapping, mapping) /\ Milder(inst, inst)
  BY DEF Core, MapOK, InstOK, SameRunning, Milder

\* A step of a process or of its managing threads that only gets milder keeps the core.
LEMMA CoreKept ==
    ASSUME Core, Milder(inst, inst'), UNCHANGED mapping
    PROVE  Core'
  BY CoreStep, SameIsSame

\* A step on the entries alone, which leaves those that run, keeps the core.
LEMMA CoreOfEntries ==
    ASSUME Core, UNCHANGED inst, SameRunning(mapping', mapping)
    PROVE  Core'
  BY CoreStep, SameIsSame

\* Moving the stopping thread on leaves a well-formed instance of the same model.
LEMMA StopperOfServer ==
    ASSUME NEW x \in Server, NEW s \in {"check", "wait", "timing", "done"}
    PROVE  /\ [x EXCEPT !.stopper = s] \in Server
           /\ [x EXCEPT !.stopper = s].name = x.name /\ [x EXCEPT !.stopper = s].log = x.log
  BY DEF Server, Instance

\* Notifying the stopping threads makes no process run.
LEMMA NotifiedIsMilder == ASSUME NEW I \in Seq(Server) PROVE Milder(I, Notified(I))
  <1>1. \A i \in DOMAIN I : [I[i] EXCEPT !.stopper = "check"] \in Server
                            /\ [I[i] EXCEPT !.stopper = "check"].name = I[i].name
                            /\ [I[i] EXCEPT !.stopper = "check"].log = I[i].log
    <2> TAKE i \in DOMAIN I
    <2>1. I[i] \in Server
      OBVIOUS
    <2> QED
      BY <2>1, StopperOfServer
  <1> QED
    BY <1>1 DEF Milder, Notified

\* Killing a process leaves a well-formed instance of the same model.
LEMMA KilledIsServer ==
    ASSUME NEW x \in Server
    PROVE  Killed(x) \in Server /\ Killed(x).name = x.name /\ Killed(x).log = x.log
  BY DEF Server, Instance, Killed

\* Two steps that get milder are one.
LEMMA MilderAgain ==
    ASSUME NEW I, NEW J, NEW K, Milder(I, J), Milder(J, K), I \in Seq(Server)
    PROVE  Milder(I, K)
  BY DEF Milder

\* One instance changes.
LEMMA MilderOne ==
    ASSUME Core, NEW i \in DOMAIN inst, NEW x \in Server,
           x.name = inst[i].name, x.log = inst[i].log \/ (x.log # "done" /\ inst[i].log # "done")
    PROVE  Milder(inst, [inst EXCEPT ![i] = x])
  BY DEF Milder, Core, InstOK

-----------------------------------------------------------------------------
(* Steps of an instance                                                    *)

\* A message of the child through its pipe keeps the core.
LEMMA SayKeeps ==
    ASSUME Core, NEW i \in DOMAIN inst, NEW state, NEW message,
           state \in {"ready", "sleeping", "loading"}, message \in {"ready", "sleeping", "loading"},
           inst[i].child # "gone", UNCHANGED mapping,
           inst' = [inst EXCEPT ![i].child = state, ![i].pipe = Append(@, message)]
    PROVE  Core'
  <1> DEFINE x == [inst[i] EXCEPT !.child = state, !.pipe = Append(@, message)]
  <1>1. inst[i] \in Server /\ inst[i].log = "read"
    BY DEF Core, InstOK, Server
  <1>2. x \in Server /\ x.name = inst[i].name /\ x.log = inst[i].log
    <2>1. Append(inst[i].pipe, message) \in Seq({"loading", "ready", "sleeping", "finished"})
      BY <1>1 DEF Server, Instance
    <2>2. \A k \in DOMAIN Append(inst[i].pipe, message) : Append(inst[i].pipe, message)[k] # "finished"
      BY <1>1 DEF Server, Instance
    <2> QED
      BY <1>1, <2>1, <2>2 DEF Server, Instance
  <1>3. inst' = [inst EXCEPT ![i] = x]
    OBVIOUS
  <1> HIDE DEF x
  <1>4. Milder(inst, [inst EXCEPT ![i] = x])
    BY <1>2, MilderOne
  <1> QED
    BY <1>3, <1>4, CoreKept

\* Whatever a child process does (ready, sleeping, downloaded, exit, crash) keeps the core.
LEMMA ChildKeeps ==
    ASSUME Core, NEW i \in DOMAIN inst, Child(i)
    PROVE  Core' /\ UNCHANGED locked /\ (sources \in [Name -> Nat] => sources' \in [Name -> Nat])
  <1>1. inst[i] \in Server
    BY DEF Core, InstOK
  <1>2. CASE Child_Ready(i) \/ Child_Sleep(i) \/ Child_Wake(i)
    <2>1. UNCHANGED <<mapping, locked, sources>> /\ inst[i].child # "gone"
      BY <1>2 DEF Child_Ready, Child_Sleep, Child_Wake, Say
    <2>2. PICK state \in {"ready", "sleeping", "loading"}, message \in {"ready", "sleeping", "loading"} :
             inst' = [inst EXCEPT ![i].child = state, ![i].pipe = Append(@, message)]
      BY <1>2 DEF Child_Ready, Child_Sleep, Child_Wake, Say
    <2>3. Core'
      BY <2>1, <2>2, SayKeeps
    <2> QED
      BY <2>1, <2>3
  <1>3. CASE Child_Downloaded(i)
    BY <1>1, <1>3 DEF Child_Downloaded, Server
  <1>4. CASE Child_Exit(i) \/ Child_Crash(i)
    <2>1. UNCHANGED <<mapping, locked, sources>>
      BY <1>4 DEF Child_Exit, Child_Crash
    <2>2. PICK x \in {[inst[i] EXCEPT !.child = "gone"], [inst[i] EXCEPT !.child = "gone", !.failed = TRUE]} :
             inst' = [inst EXCEPT ![i] = x]
      BY <1>4 DEF Child_Exit, Child_Crash
    <2>3. x \in Server /\ x.name = inst[i].name /\ x.log = inst[i].log
      <3>1. CASE x = [inst[i] EXCEPT !.child = "gone"]
        BY <1>1, <3>1 DEF Server, Instance
      <3>2. CASE x = [inst[i] EXCEPT !.child = "gone", !.failed = TRUE]
        BY <1>1, <3>2 DEF Server, Instance
      <3> QED
        BY <3>1, <3>2
    <2>4. Milder(inst, inst')
      BY <2>2, <2>3, MilderOne
    <2> QED
      BY <2>1, <2>4, CoreKept
  <1> QED
    BY <1>2, <1>3, <1>4 DEF Child

\* The thread that stops a process, up to the kill after the timeout, keeps the core.
LEMMA StoppingKeeps ==
    ASSUME Core, NEW i \in DOMAIN inst, Stopping(i)
    PROVE  Core' /\ UNCHANGED <<locked, sources>>
  <1>1. UNCHANGED <<mapping, locked, sources>>
    BY DEF Stopping, Stop_Check, Stop_Ended, Stop_Timeout
  <1>2. inst[i] \in Server
    BY DEF Core, InstOK
  <1>3. PICK s \in {"check", "wait", "timing", "done"}, e \in BOOLEAN, y \in {inst[i], Killed(inst[i])} :
           inst' = [inst EXCEPT ![i] = [y EXCEPT !.stopper = s, !.exit = e]]
    <2>1. CASE Stop_Check(i)
      <3>1. inst[i].exit \in BOOLEAN
        BY <1>2 DEF Server, Instance
      <3> QED
        BY <2>1, <3>1 DEF Stop_Check
    <2>2. CASE Stop_Ended(i)
      <3>1. [inst[i] EXCEPT !.stopper = "done"] = [inst[i] EXCEPT !.stopper = "done", !.exit = inst[i].exit]
            /\ inst[i].exit \in BOOLEAN
        BY <1>2 DEF Server, Instance
      <3>2. inst' = [inst EXCEPT ![i] = [inst[i] EXCEPT !.stopper = "done"]]
        BY <2>2 DEF Stop_Ended
      <3> QED
        BY <3>1, <3>2
    <2>3. CASE Stop_Timeout(i)
      <3>1. Killed(inst[i]) \in Server
        BY <1>2, KilledIsServer
      <3>2. [Killed(inst[i]) EXCEPT !.stopper = "done"]
               = [Killed(inst[i]) EXCEPT !.stopper = "done", !.exit = Killed(inst[i]).exit]
            /\ Killed(inst[i]).exit \in BOOLEAN
        BY <3>1 DEF Server, Instance
      <3>3. inst' = [inst EXCEPT ![i] = [Killed(inst[i]) EXCEPT !.stopper = "done"]]
        BY <2>3 DEF Stop_Timeout
      <3> QED
        BY <3>2, <3>3
    <2> QED
      BY <2>1, <2>2, <2>3 DEF Stopping
  <1>4. y \in Server /\ y.name = inst[i].name /\ y.log = inst[i].log
    BY <1>2, KilledIsServer
  <1> DEFINE x == [y EXCEPT !.stopper = s, !.exit = e]
  <1>5. x \in Server /\ x.name = inst[i].name /\ x.log = inst[i].log
    BY <1>4 DEF Server, Instance
  <1>6. inst' = [inst EXCEPT ![i] = x]
    BY <1>3
  <1> HIDE DEF x
  <1>7. Milder(inst, inst')
    BY <1>5, <1>6, MilderOne
  <1> QED
    BY <1>1, <1>7, CoreKept

\* A state line read from the pipe of the process keeps the core.
LEMMA LogStateKeeps ==
    ASSUME Core, NEW i \in DOMAIN inst, Log_State(i)
    PROVE  Core'
  <1> DEFINE n == inst[i].name
             x == [inst[i] EXCEPT !.pipe = Tail(@)]
             status == StatusOf(Head(inst[i].pipe))
  <1>1. inst[i] \in Server /\ inst[i].log = "read" /\ inst[i].pipe # <<>>
    BY DEF Core, InstOK, Log_State
  <1>2. n \in Active /\ mapping[n].inst = i
    BY <1>1 DEF Core, ListOK
  <1>3. x \in Server /\ x.name = inst[i].name /\ x.log = inst[i].log
    <2>1. inst[i].pipe \in Seq({"loading", "ready", "sleeping", "finished"})
      BY <1>1 DEF Server, Instance
    <2>2. \A k \in DOMAIN Tail(inst[i].pipe) : Tail(inst[i].pipe)[k] # "finished"
      BY <1>1, <2>1 DEF Server
    <2>3. Tail(inst[i].pipe) \in Seq({"loading", "ready", "sleeping", "finished"})
      BY <1>1, <2>1
    <2> QED
      BY <1>1, <2>2, <2>3 DEF Server, Instance
  <1>4. inst' = [inst EXCEPT ![i] = x]
    BY DEF Log_State
  <1>5. status \in {"LOADED", "SLEEPING", "LOADING"}
    <2>1. Head(inst[i].pipe) \in {"loading", "ready", "sleeping"}
      <3>1. inst[i].pipe \in Seq({"loading", "ready", "sleeping", "finished"})
        BY <1>1 DEF Server, Instance
      <3> QED
        BY <1>1, <3>1 DEF Log_State
    <2> QED
      BY <2>1 DEF StatusOf
  <1>6. mapping' = [mapping EXCEPT ![n].status = status, ![n].failed = FALSE]
    BY <1>2 DEF Log_State, WithStatus, Active
  <1> HIDE DEF x, status
  <1>7. SameRunning(mapping', mapping)
    <2>1. mapping \in [DOMAIN mapping -> ServerEntry] /\ DOMAIN mapping \subseteq Name
          /\ n \in DOMAIN mapping
      BY <1>2 DEF Core, MapOK, Active
    <2> DEFINE e == [mapping[n] EXCEPT !.status = status, !.failed = FALSE]
    <2>2. mapping' = [mapping EXCEPT ![n] = e]
      BY <1>6
    <2>3. e \in ServerEntry /\ e.inst = mapping[n].inst /\ e.th = mapping[n].th /\ Running(e)
      BY <1>5, <2>1 DEF ServerEntry, Running
    <2> HIDE DEF e
    <2>4. Running(mapping[n])
      BY <1>2 DEF Active
    <2> QED
      BY <2>1, <2>2, <2>3, <2>4 DEF SameRunning
  <1>8. Milder(inst, inst')
    BY <1>3, <1>4, MilderOne
  <1> QED
    BY <1>7, <1>8, CoreStep

\* The managing thread goes on: the process is gone.
LEMMA GoneGoesOn ==
    ASSUME NEW x \in Server, x.child = "gone", NEW l \in {"erase", "join", "status", "done"}
    PROVE  /\ [x EXCEPT !.log = l] \in Server
           /\ [x EXCEPT !.log = l].name = x.name /\ [x EXCEPT !.log = l].log = l
  BY DEF Server, Instance

\* The managing thread at the end of its process, up to the join, keeps the core.
LEMMA MonKeeps ==
    ASSUME Core, NEW i \in DOMAIN inst, Mon_Eof(i) \/ Mon_Erase(i) \/ Mon_Join(i)
    PROVE  Core'
  <1>1. inst[i] \in Server /\ UNCHANGED mapping
    BY DEF Core, InstOK, Mon_Eof, Mon_Erase, Mon_Join
  <1>2. inst[i].child = "gone" /\ inst[i].log # "done"
    BY <1>1 DEF Mon_Eof, Mon_Erase, Mon_Join, Server
  <1>3. CASE Mon_Eof(i)
    <2> DEFINE y == [inst[i] EXCEPT !.stopped = TRUE]
               x == [y EXCEPT !.log = "erase"]
    <2>1. y \in Server /\ y.name = inst[i].name /\ y.child = "gone"
      BY <1>1, <1>2 DEF Server, Instance
    <2>2. inst' = [inst EXCEPT ![i] = x]
      BY <1>1, <1>3 DEF Mon_Eof
    <2> HIDE DEF y
    <2>3. x \in Server /\ x.name = inst[i].name /\ x.log = "erase"
      BY <2>1, GoneGoesOn
    <2> HIDE DEF x
    <2>4. Milder(inst, inst')
      BY <1>2, <2>2, <2>3, MilderOne
    <2> QED
      BY <1>1, <2>4, CoreKept
  <1>4. CASE Mon_Erase(i)
    <2> DEFINE x == [inst[i] EXCEPT !.log = "join"]
    <2>1. inst' = Notified([inst EXCEPT ![i] = x])
      BY <1>4 DEF Mon_Erase
    <2>2. x \in Server /\ x.name = inst[i].name /\ x.log = "join"
      BY <1>1, <1>2, GoneGoesOn
    <2> HIDE DEF x
    <2>3. Milder(inst, [inst EXCEPT ![i] = x])
      BY <1>2, <2>2, MilderOne
    <2>4. Milder([inst EXCEPT ![i] = x], inst')
      BY <2>1, <2>3, NotifiedIsMilder DEF Milder
    <2>5. Milder(inst, inst')
      BY <2>3, <2>4, MilderAgain DEF Core, InstOK
    <2> QED
      BY <1>1, <2>5, CoreKept
  <1>5. CASE Mon_Join(i)
    <2> DEFINE x == [inst[i] EXCEPT !.log = "status"]
    <2>1. inst' = [inst EXCEPT ![i] = x]
      BY <1>1, <1>5 DEF Mon_Join, Server
    <2>2. x \in Server /\ x.name = inst[i].name /\ x.log = "status"
      BY <1>1, <1>2, GoneGoesOn
    <2> HIDE DEF x
    <2>3. Milder(inst, inst')
      BY <1>2, <2>1, <2>2, MilderOne
    <2> QED
      BY <1>1, <2>3, CoreKept
  <1> QED
    BY <1>3, <1>4, <1>5

\* The end of an instance: its entry no longer runs, and no other entry knows it.
LEMMA MonStatusKeeps ==
    ASSUME Core, NEW i \in DOMAIN inst, Mon_Status(i)
    PROVE  Core'
  <1> DEFINE n == inst[i].name
             x == [inst[i] EXCEPT !.log = "done"]
             e == [mapping[n] EXCEPT !.status = "UNLOADED", !.failed = inst[i].failed]
  <1>1. inst[i] \in Server /\ inst[i].log = "status"
    BY DEF Core, InstOK, Mon_Status
  <1>2. n \in Active /\ mapping[n].inst = i
    BY <1>1 DEF Core, ListOK
  <1>3. x \in Server /\ x.name = n /\ x.log = "done"
    BY <1>1, GoneGoesOn DEF Server
  <1>4. inst' = [inst EXCEPT ![i] = x]
    BY DEF Mon_Status
  <1>5. mapping' = [mapping EXCEPT ![n] = e]
    BY <1>2 DEF Mon_Status, WithStatus, Active
  <1>6. mapping \in [DOMAIN mapping -> ServerEntry] /\ DOMAIN mapping \subseteq Name
        /\ n \in DOMAIN mapping
    BY <1>2 DEF Core, MapOK, Active
  <1>7. e \in ServerEntry /\ e.inst = mapping[n].inst /\ e.th = mapping[n].th /\ ~Running(e)
    <2>1. inst[i].failed \in BOOLEAN
      BY <1>1 DEF Server, Instance
    <2> QED
      BY <1>6, <2>1 DEF ServerEntry, Running
  <1> HIDE DEF x, e
  <1>8. InstOK' /\ Len(inst') = Len(inst) /\ DOMAIN inst' = DOMAIN inst
    BY <1>3, <1>4 DEF Core, InstOK
  <1>9. Active' = Active \ {n}
    BY <1>5, <1>6, <1>7 DEF Active
  <1>10. MapOK'
    BY <1>5, <1>6, <1>7, <1>8 DEF Core, MapOK
  <1>11. \A j \in DOMAIN inst : inst'[j].name = inst[j].name
    BY <1>3, <1>4
  <1>12. \A m \in DOMAIN mapping : mapping'[m].inst = mapping[m].inst /\ mapping'[m].th = mapping[m].th
    BY <1>5, <1>6, <1>7
  <1>13. OwnOK'
    <2> SUFFICES ASSUME NEW m \in DOMAIN mapping, mapping[m].th # 0
                 PROVE  inst'[mapping[m].th].name = m
      BY <1>5, <1>12 DEF OwnOK
    <2>1. mapping[m].th \in DOMAIN inst
      BY DEF Core, MapOK, InstOK, ServerEntry
    <2> QED
      BY <1>11, <2>1 DEF Core, OwnOK
  <1>14. RunOK'
    <2> SUFFICES ASSUME NEW m \in Active \ {n}
                 PROVE  /\ mapping[m].inst # 0 /\ mapping[m].th = mapping[m].inst
                        /\ inst'[mapping[m].inst].log # "done"
      BY <1>9, <1>12 DEF RunOK, Active
    <2>1. mapping[m].inst # 0 /\ mapping[m].th = mapping[m].inst /\ inst[mapping[m].inst].log # "done"
      BY DEF Core, RunOK
    <2>2. inst[mapping[m].inst].name = m
      BY <2>1 DEF Core, OwnOK, Active
    <2>3. mapping[m].inst # i
      BY <2>2
    <2> QED
      BY <1>4, <2>1, <2>3 DEF Core, InstOK
  <1>15. ListOK'
    <2> SUFFICES ASSUME NEW j \in DOMAIN inst, inst'[j].log # "done"
                 PROVE  inst[j].name \in Active \ {n} /\ mapping'[inst[j].name].inst = j
      BY <1>8, <1>9, <1>11 DEF ListOK
    <2>1. j # i /\ inst'[j] = inst[j]
      BY <1>3, <1>4
    <2>2. inst[j].name \in Active /\ mapping[inst[j].name].inst = j
      BY <2>1 DEF Core, ListOK
    <2>3. inst[j].name # n
      BY <1>2, <2>1, <2>2
    <2> QED
      BY <1>12, <2>2, <2>3 DEF Active
  <1>16. LimitOK'
    <2>1. IsFiniteSet(Active) /\ (ModelsMax > 0 => Cardinality(Active) <= ModelsMax)
      BY DEF Core, LimitOK
    <2>2. IsFiniteSet(Active \ {n}) /\ Cardinality(Active \ {n}) <= Cardinality(Active)
      BY <2>1, FS_Subset
    <2>3. Cardinality(Active) \in Nat /\ Cardinality(Active \ {n}) \in Nat
      BY <2>1, <2>2, FS_CardinalityType
    <2> QED
      BY <1>9, <2>1, <2>2, <2>3, RouterAssumption DEF LimitOK
  <1> QED
    BY <1>8, <1>10, <1>13, <1>14, <1>15, <1>16 DEF Core

\* The two managing threads of a process keep the core.
LEMMA ManagingKeeps ==
    ASSUME Core, NEW i \in DOMAIN inst, Managing(i)
    PROVE  Core' /\ UNCHANGED <<locked, sources>>
  <1>1. UNCHANGED <<locked, sources>>
    BY DEF Managing, Log_State, Log_Downloaded, Log_RequestExit, Mon_Eof, Mon_Erase, Mon_Join, Mon_Status
  <1>2. inst[i] \in Server
    BY DEF Core, InstOK
  <1>3. ~Log_RequestExit(i)
    BY <1>2 DEF Log_RequestExit, Server
  <1>4. ~Log_Downloaded(i)
    <2> SUFFICES ASSUME inst[i].pipe # <<>>, Head(inst[i].pipe) = "finished" PROVE FALSE
      BY DEF Log_Downloaded
    <2>1. inst[i].pipe \in Seq({"loading", "ready", "sleeping", "finished"})
      BY <1>2 DEF Server, Instance
    <2>2. 1 \in DOMAIN inst[i].pipe /\ Head(inst[i].pipe) = inst[i].pipe[1]
      BY <2>1
    <2> QED
      BY <1>2, <2>2 DEF Server
  <1> QED
    BY <1>1, <1>3, <1>4, LogStateKeeps, MonKeeps, MonStatusKeeps DEF Managing

-----------------------------------------------------------------------------
(* What unload does to an instance                                         *)

\* unload() marks the process for stopping and starts none.
LEMMA UnloadIsMild ==
    ASSUME Core, NEW n, UnloadEffect(n)
    PROVE  Milder(inst, inst')
  <1>1. CASE n \in DOMAIN mapping /\ mapping[n].status = "DOWNLOADING"
    BY <1>1 DEF Core, MapOK, ServerEntry
  <1>2. CASE ~IsRunning(n) /\ ~(n \in DOMAIN mapping /\ mapping[n].status = "DOWNLOADING")
    BY <1>2, SameIsSame DEF UnloadEffect
  <1>3. CASE IsRunning(n)
    <2> DEFINE i == mapping[n].inst
               K == KilledIfLoading(n, inst)
               J == Notified(K)
    <2>1. i \in DOMAIN inst /\ i # 0 /\ inst \in Seq(Server)
      BY <1>3 DEF IsRunning, Core, MapOK, InstOK, ServerEntry, RunOK, Active
    <2>2. Milder(inst, K) /\ K \in Seq(Server)
      <3>1. Killed(inst[i]) \in Server /\ Killed(inst[i]).name = inst[i].name /\ Killed(inst[i]).log = inst[i].log
        BY <2>1, KilledIsServer
      <3>2. Milder(inst, [inst EXCEPT ![i] = Killed(inst[i])])
        BY <2>1, <3>1, MilderOne
      <3>3. K = inst \/ K = [inst EXCEPT ![i] = Killed(inst[i])]
        BY DEF KilledIfLoading
      <3> QED
        BY <3>2, <3>3, SameIsSame DEF Milder
    <2>3. inst' = [J EXCEPT ![i].asked = TRUE]
      BY <1>3, <2>1 DEF UnloadEffect, Marked, IsRunning, Running
    <2> HIDE DEF K
    <2>4. Milder(K, J) /\ J \in Seq(Server)
      BY <2>2, NotifiedIsMilder DEF Milder
    <2> HIDE DEF J
    <2>5. Milder(inst, J)
      BY <2>1, <2>2, <2>4, MilderAgain
    <2>6. i \in DOMAIN J /\ J[i] \in Server
      BY <2>1, <2>5 DEF Milder
    <2> DEFINE x == [J[i] EXCEPT !.asked = TRUE]
    <2>7. x \in Server /\ x.name = J[i].name /\ x.log = J[i].log
      BY <2>6 DEF Server, Instance
    <2>8. inst' = [J EXCEPT ![i] = x]
      BY <2>3
    <2> HIDE DEF x
    <2>9. Milder(J, inst')
      BY <2>4, <2>6, <2>7, <2>8 DEF Milder
    <2> QED
      BY <2>1, <2>5, <2>9, MilderAgain
  <1> QED
    BY <1>1, <1>2, <1>3

\* unload() keeps the core.
LEMMA UnloadKeeps ==
    ASSUME Core, NEW n, UnloadEffect(n), UNCHANGED mapping
    PROVE  Core'
  BY UnloadIsMild, CoreKept

-----------------------------------------------------------------------------
(* The handlers                                                            *)

AnyPC == {"begin", "await", "proxy", "touch", "load", "evict", "evicted", "load_body",
          "unload", "unload_wait", "rm_wait",
          "reload", "rl_begin", "rl_unload", "rl_wait", "rl_join", "rl_finish", "list"}

\* Every handler is well formed.
LEMMA HandlerIsGood ==
    ASSUME HandlersOK, NEW c \in Client
    PROVE  th[c] \in GoodHandler /\ th[c] \in Handler
  BY DEF HandlersOK, GoodHandler

\* A handler that serves has a request, with its model a name.
LEMMA RequestOfHandler ==
    ASSUME HandlersOK, NEW c \in Client, Serving(c)
    PROVE  Req(c) \in Request /\ Req(c).op # "download" /\ (Req(c).op # "reload" => Target(c) \in Name)
  <1>1. th[c].reqs \in Seq(Request) /\ th[c].reqs # <<>> /\ NoDownload(th[c].reqs)
    BY HandlerIsGood DEF GoodHandler, Handler, Serving
  <1>2. Req(c) \in Request /\ Req(c) = th[c].reqs[1] /\ 1 \in DOMAIN th[c].reqs
    BY <1>1 DEF Req
  <1>3. Req(c).op # "download"
    BY <1>1, <1>2 DEF NoDownload
  <1> QED
    BY <1>2, <1>3 DEF Request, Target

\* A handler that works on a model has the name of one.
LEMMA NamedHandler ==
    ASSUME HandlersOK, NEW c \in Client, Named(th[c])
    PROVE  Serving(c) /\ Req(c).op # "reload" /\ Target(c) \in Name
  <1>1. Serving(c) /\ Req(c).op # "reload"
    BY HandlerIsGood DEF GoodHandler, Serving, Req
  <1> QED
    BY <1>1, RequestOfHandler

\* A handler goes on with the same requests.
LEMMA GoesOn ==
    ASSUME HandlersOK, NEW c \in Client, NEW x \in Handler,
           th' = [th EXCEPT ![c] = x], UNCHANGED <<sources, locked>>,
           x.reqs = th[c].reqs, x.pc \in AnyPC,
           x.pc \in {"evict", "evicted"} => x.victim \in Name,
           Named(x) => Serving(c) /\ Req(c).op # "reload"
    PROVE  HandlersOK'
  <1>1. x \in GoodHandler
    BY HandlerIsGood DEF GoodHandler, AnyPC, Serving, Req
  <1> QED
    BY <1>1 DEF HandlersOK

\* Moving one handler to another step keeps what is said of all of them.
LEMMA GotoKeeps ==
    ASSUME HandlersOK, NEW c \in Client, NEW pc \in AnyPC, Goto(c, pc), UNCHANGED <<sources, locked>>,
           pc \in {"evict", "evicted"} => th[c].victim \in Name,
           Named(th[c]) \/ pc \notin NamedPC \/ (Serving(c) /\ Req(c).op # "reload")
    PROVE  HandlersOK'
  <1> DEFINE x == [th[c] EXCEPT !.pc = pc, !.fresh = FALSE]
  <1>1. th' = [th EXCEPT ![c] = x]
    BY DEF Goto
  <1>2. x \in Handler /\ x.reqs = th[c].reqs /\ x.pc = pc /\ x.back = th[c].back /\ x.victim = th[c].victim
    BY HandlerIsGood, ZenonT(40) DEF Handler, AnyPC
  <1> HIDE DEF x
  <1>3. Named(x) => Serving(c) /\ Req(c).op # "reload"
    BY <1>2, NamedHandler DEF Named
  <1> QED
    BY <1>1, <1>2, <1>3, GoesOn

\* A handler that begins its program is well formed.
LEMMA BeginIsGood ==
    ASSUME NEW reqs \in Seq(Request), NoDownload(reqs)
    PROVE  Begin(reqs) \in GoodHandler
  BY DEF Begin, GoodHandler, Handler, Named, NamedPC

\* A handler that answers keeps the invariant if its step keeps the core.
LEMMA AnswerKeeps ==
    ASSUME HandlersOK, NEW c \in Client, Serving(c), Answer(c), UNCHANGED locked,
           sources' \in [Name -> Nat]
    PROVE  HandlersOK'
  <1>1. th[c].reqs \in Seq(Request) /\ th[c].reqs # <<>> /\ NoDownload(th[c].reqs)
    BY HandlerIsGood DEF GoodHandler, Handler, Serving
  <1>2. Tail(th[c].reqs) \in Seq(Request) /\ NoDownload(Tail(th[c].reqs))
    BY <1>1 DEF NoDownload
  <1>3. th' = [th EXCEPT ![c] = Begin(Tail(th[c].reqs))]
    BY DEF Answer
  <1> QED
    BY <1>2, <1>3, BeginIsGood DEF HandlersOK

\* Where load() returns to
LEMMA LoadedKeeps ==
    ASSUME HandlersOK, NEW c \in Client, Serving(c), th' = [th EXCEPT ![c] = Loaded(c)],
           UNCHANGED <<sources, locked>>
    PROVE  HandlersOK'
  <1>1. CASE Op(c, "request")
    <2> DEFINE x == [th[c] EXCEPT !.pc = "await"]
    <2>1. th' = [th EXCEPT ![c] = x]
      BY <1>1 DEF Loaded
    <2>2. x \in Handler /\ x.reqs = th[c].reqs /\ x.pc = "await"
      BY HandlerIsGood, SMTT(30) DEF Handler
    <2> HIDE DEF x
    <2> QED
      BY <1>1, <2>1, <2>2, GoesOn DEF AnyPC, Op
  <1>2. CASE ~Op(c, "request")
    <2>1. Answer(c)
      BY <1>2 DEF Loaded, Answer
    <2> QED
      BY <2>1, AnswerKeeps DEF HandlersOK
  <1> QED
    BY <1>1, <1>2

\* Steps of a handler that look at the entries and change only the handler.
LEMMA LooksKeep ==
    ASSUME RouterInv, NEW c \in Client,
           \/ Request_Ensure(c) \/ Request_Await(c) \/ Request_Proxy(c)
           \/ Load_Begin(c) \/ Download_Begin(c) \/ Unload_Begin(c) \/ Unload_Wait(c) \/ List(c)
    PROVE  RouterInv'
  <1> USE DEF RouterInv
  <1>1. UNCHANGED instanceVars /\ Serving(c)
    BY DEF Request_Ensure, Request_Await, Request_Proxy, Load_Begin, Download_Begin, Unload_Begin,
           Unload_Wait, List, At
  <1>2. Core'
    BY <1>1, CoreKept, SameIsSame DEF instanceVars
  <1>3. UNCHANGED <<sources, locked>> /\ sources' \in [Name -> Nat]
    BY <1>1 DEF instanceVars, HandlersOK
  <1>4. ~Op(c, "download")
    BY <1>1, RequestOfHandler DEF Op
  <1>5. \/ Answer(c)
        \/ \E pc \in {"await", "proxy", "touch", "load", "unload"} :
              Goto(c, pc) /\ (Named(th[c]) \/ Req(c).op # "reload")
        \/ \E pc \in {"proxy", "load", "await"} : \E s \in BOOLEAN :
              /\ th' = [th EXCEPT ![c].pc = pc, ![c].seen = s, ![c].fresh = FALSE]
              /\ Req(c).op # "reload"
    <2>1. CASE Request_Ensure(c)
      BY <2>1 DEF Request_Ensure, Op
    <2>2. CASE Request_Await(c)
      BY <2>2 DEF Request_Await, At, Named, NamedPC
    <2>3. CASE Request_Proxy(c)
      BY <2>3 DEF Request_Proxy, At, Named, NamedPC
    <2>4. CASE Load_Begin(c) \/ Unload_Begin(c)
      BY <2>4 DEF Load_Begin, Unload_Begin, Op
    <2>5. CASE Download_Begin(c)
      BY <2>5, <1>4 DEF Download_Begin
    <2>6. CASE Unload_Wait(c) \/ List(c)
      BY <2>6 DEF Unload_Wait, List
    <2> QED
      BY <2>1, <2>2, <2>3, <2>4, <2>5, <2>6
  <1>6. HandlersOK'
    <2>1. CASE Answer(c)
      BY <1>1, <1>3, <2>1, AnswerKeeps
    <2>2. ASSUME NEW pc \in {"await", "proxy", "touch", "load", "unload"}, Goto(c, pc),
                 Named(th[c]) \/ Req(c).op # "reload"
          PROVE  HandlersOK'
      BY <1>1, <1>3, <2>2, GotoKeeps DEF AnyPC
    <2>3. ASSUME NEW pc \in {"proxy", "load", "await"}, NEW s \in BOOLEAN,
                 th' = [th EXCEPT ![c].pc = pc, ![c].seen = s, ![c].fresh = FALSE], Req(c).op # "reload"
          PROVE  HandlersOK'
      <3> DEFINE x == [th[c] EXCEPT !.pc = pc, !.seen = s, !.fresh = FALSE]
      <3>1. th' = [th EXCEPT ![c] = x]
        BY <2>3
      <3>2. x \in Handler /\ x.reqs = th[c].reqs /\ x.pc = pc
        BY HandlerIsGood, ZenonT(40) DEF Handler
      <3> HIDE DEF x
      <3> QED
        BY <1>1, <1>3, <2>3, <3>1, <3>2, GoesOn DEF AnyPC
    <2> QED
      BY <1>5, <2>1, <2>2, <2>3
  <1> QED
    BY <1>2, <1>6

\* The reload, where it changes only the handler.
LEMMA ReloadLooksKeep ==
    ASSUME RouterInv, NEW c \in Client,
           Lookup_Reload(c) \/ Reload_Begin(c) \/ Reload_Read(c) \/ Reload_Join(c)
    PROVE  RouterInv'
  <1> USE DEF RouterInv
  <1>1. UNCHANGED instanceVars /\ Serving(c)
    BY DEF Lookup_Reload, Reload_Begin, Reload_Read, Reload_Join, At
  <1>2. Core'
    BY <1>1, CoreKept, SameIsSame DEF instanceVars
  <1>3. UNCHANGED <<sources, locked>> /\ sources \in [Name -> Nat] /\ th[c] \in Handler
    BY <1>1, HandlerIsGood DEF instanceVars, HandlersOK
  <1>4. CASE Lookup_Reload(c)
    <2> DEFINE x == [th[c] EXCEPT !.pc = "reload", !.back = th[c].pc]
    <2>1. th' = [th EXCEPT ![c] = x]
      BY <1>4 DEF Lookup_Reload
    <2>2. th[c].pc \in {"begin", "proxy", "list"}
      BY <1>4 DEF Lookup_Reload, LooksUp
    <2>3. x \in Handler /\ x.reqs = th[c].reqs /\ x.pc = "reload" /\ x.back = th[c].pc
      BY <1>3, <2>2 DEF Handler
    <2> HIDE DEF x
    <2>4. Named(x) => Named(th[c])
      BY <2>3 DEF Named, NamedPC
    <2> QED
      BY <1>2, <1>3, <2>1, <2>3, <2>4, NamedHandler, GoesOn DEF AnyPC
  <1>5. CASE Reload_Begin(c)
    <2> DEFINE x == [th[c] EXCEPT !.pc = "reload", !.back = "list"]
    <2>1. th' = [th EXCEPT ![c] = x]
      BY <1>5 DEF Reload_Begin
    <2>2. x \in Handler /\ x.reqs = th[c].reqs /\ x.pc = "reload" /\ x.back = "list"
      BY <1>3 DEF Handler
    <2> HIDE DEF x
    <2>3. ~Named(x)
      BY <2>2 DEF Named, NamedPC
    <2> QED
      BY <1>2, <1>3, <2>1, <2>2, <2>3, GoesOn DEF AnyPC
  <1>6. CASE Reload_Read(c)
    <2> DEFINE x == [th[c] EXCEPT !.pc = "rl_begin", !.presets = sources]
    <2>1. th' = [th EXCEPT ![c] = x]
      BY <1>6 DEF Reload_Read
    <2>2. x \in Handler /\ x.reqs = th[c].reqs /\ x.pc = "rl_begin" /\ x.back = th[c].back
      BY <1>3 DEF Handler
    <2> HIDE DEF x
    <2>3. Named(x) => Named(th[c])
      BY <2>2 DEF Named, NamedPC
    <2> QED
      BY <1>2, <1>3, <2>1, <2>2, <2>3, NamedHandler, GoesOn DEF AnyPC
  <1>7. CASE Reload_Join(c)
    <2> DEFINE x == [th[c] EXCEPT !.pc = "rl_finish"]
    <2>1. th' = [th EXCEPT ![c] = x]
      BY <1>7 DEF Reload_Join
    <2>2. x \in Handler /\ x.reqs = th[c].reqs /\ x.pc = "rl_finish" /\ x.back = th[c].back
      BY <1>3 DEF Handler
    <2> HIDE DEF x
    <2>3. Named(x) => Named(th[c])
      BY <2>2 DEF Named, NamedPC
    <2> QED
      BY <1>2, <1>3, <2>1, <2>2, <2>3, NamedHandler, GoesOn DEF AnyPC
  <1> QED
    BY <1>4, <1>5, <1>6, <1>7

\* The part of load() up to finding the entry keeps the invariant.
LEMMA LoadFindKeeps ==
    ASSUME RouterInv, NEW c \in Client, Load_Find(c)
    PROVE  RouterInv'
  <1> USE DEF RouterInv
  <1>1. UNCHANGED instanceVars /\ Serving(c) /\ th[c].pc = "load"
    BY DEF Load_Find, At
  <1>2. Core'
    BY <1>1, CoreKept, SameIsSame DEF instanceVars
  <1>3. UNCHANGED <<sources, locked>> /\ sources' \in [Name -> Nat] /\ th[c] \in Handler
    BY <1>1, HandlerIsGood DEF instanceVars, HandlersOK
  <1>4. Named(th[c])
    BY <1>1 DEF Named, NamedPC
  <1>5. CASE Answer(c)
    BY <1>1, <1>2, <1>3, <1>5, AnswerKeeps
  <1>6. CASE Goto(c, "load_body")
    BY <1>2, <1>3, <1>4, <1>6, GotoKeeps DEF AnyPC
  <1>7. ASSUME NEW v \in LeastRecentlyUsed, th' = [th EXCEPT ![c].pc = "evict", ![c].victim = v]
        PROVE  HandlersOK'
    <2> DEFINE x == [th[c] EXCEPT !.pc = "evict", !.victim = v]
    <2>1. th' = [th EXCEPT ![c] = x]
      BY <1>7
    <2>2. v \in Name
      BY DEF LeastRecentlyUsed, Active, Core, MapOK
    <2>3. x \in Handler /\ x.reqs = th[c].reqs /\ x.pc = "evict" /\ x.victim = v
      BY <1>3, <2>2 DEF Handler
    <2> HIDE DEF x
    <2> QED
      BY <1>3, <1>4, <2>1, <2>2, <2>3, NamedHandler, GoesOn DEF AnyPC
  <1> QED
    BY <1>2, <1>5, <1>6, <1>7 DEF Load_Find

\* Evicting, an unload request, and the unloading of a reload keep the invariant.
LEMMA UnloadsKeep ==
    ASSUME RouterInv, NEW c \in Client, Load_Evict(c) \/ Unload(c) \/ Reload_Unload(c)
    PROVE  RouterInv'
  <1> USE DEF RouterInv
  <1>1. UNCHANGED <<mapping, locked, sources>> /\ Serving(c)
    BY DEF Load_Evict, Unload, Reload_Unload, At
  <1>2. Core'
    BY <1>1, UnloadKeeps DEF Load_Evict, Unload, Reload_Unload
  <1>3. sources' \in [Name -> Nat] /\ th[c] \in Handler
    BY <1>1, HandlerIsGood DEF HandlersOK
  <1>4. CASE Load_Evict(c)
    <2>1. Named(th[c]) /\ th[c].victim \in Name /\ Goto(c, "evicted")
      BY <1>4, HandlerIsGood DEF Load_Evict, At, Named, NamedPC, GoodHandler
    <2> QED
      BY <1>1, <1>2, <2>1, GotoKeeps DEF AnyPC
  <1>5. CASE Unload(c)
    <2>1. Named(th[c]) /\ (Answer(c) \/ Goto(c, "unload_wait"))
      BY <1>5 DEF Unload, At, Named, NamedPC
    <2> QED
      BY <1>1, <1>2, <1>3, <2>1, GotoKeeps, AnswerKeeps DEF AnyPC
  <1>6. CASE Reload_Unload(c)
    <2>1. PICK n \in th[c].left : th' = [th EXCEPT ![c].left = @ \ {n}]
      BY <1>6 DEF Reload_Unload
    <2> DEFINE x == [th[c] EXCEPT !.left = th[c].left \ {n}]
    <2>2. th' = [th EXCEPT ![c] = x] /\ th[c].pc = "rl_unload"
      BY <1>6, <2>1 DEF Reload_Unload, At
    <2>3. x \in Handler /\ x.reqs = th[c].reqs /\ x.pc = "rl_unload" /\ x.back = th[c].back
      BY <1>3, <2>2 DEF Handler
    <2> HIDE DEF x
    <2>4. Named(x) => Named(th[c])
      BY <2>3 DEF Named, NamedPC
    <2> QED
      BY <1>1, <1>2, <2>2, <2>3, <2>4, NamedHandler, GoesOn DEF AnyPC
  <1> QED
    BY <1>4, <1>5, <1>6

\* Entries that operator[] makes do not run.
LEMMA AddingIsSame ==
    ASSUME Core, NEW m, NEW N \in SUBSET Name, DOMAIN m = DOMAIN mapping \cup N,
           m = [n \in DOMAIN m |-> m[n]],
           \A n \in DOMAIN mapping : m[n] = mapping[n],
           \A n \in N \ DOMAIN mapping : \E p \in Nat : m[n] = NewEntry(p)
    PROVE  SameRunning(m, mapping)
  <1>1. DOMAIN mapping \subseteq Name /\ mapping \in [DOMAIN mapping -> ServerEntry]
    BY DEF Core, MapOK
  <1>2. ASSUME NEW n \in N \ DOMAIN mapping
        PROVE  m[n] \in ServerEntry /\ ~Running(m[n]) /\ m[n].inst = 0 /\ m[n].th = 0
    <2>1. PICK p \in Nat : m[n] = NewEntry(p)
      OBVIOUS
    <2>2. NewEntry(p) \in ServerEntry /\ ~Running(NewEntry(p)) /\ NewEntry(p).inst = 0 /\ NewEntry(p).th = 0
      BY DEF NewEntry, ServerEntry, Running
    <2> QED
      BY <2>1, <2>2
  <1>3. m \in [DOMAIN m -> ServerEntry] /\ DOMAIN m \subseteq Name
    BY <1>1, <1>2
  <1>4. {n \in DOMAIN m : Running(m[n])} = {n \in DOMAIN mapping : Running(mapping[n])}
    BY <1>2
  <1>5. ASSUME NEW x \in DOMAIN m
        PROVE  /\ m[x].inst = 0 \/ (x \in DOMAIN mapping /\ m[x].inst = mapping[x].inst)
               /\ m[x].th = 0 \/ (x \in DOMAIN mapping /\ m[x].th = mapping[x].th)
               /\ Running(m[x]) => m[x].inst = mapping[x].inst /\ m[x].th = mapping[x].th
    <2>1. CASE x \in DOMAIN mapping
      BY <2>1
    <2>2. CASE x \in N \ DOMAIN mapping
      BY <1>2, <2>2
    <2> QED
      BY <2>1, <2>2
  <1> QED
    BY <1>3, <1>4, <1>5 DEF SameRunning

\* operator[] on the map of a model adds an entry that does not run, at most.
LEMMA At0IsSame ==
    ASSUME Core, NEW n \in Name
    PROVE  /\ SameRunning(At0(mapping, n), mapping) /\ n \in DOMAIN At0(mapping, n)
           /\ \A m \in DOMAIN mapping : At0(mapping, n)[m] = mapping[m]
           /\ n \notin DOMAIN mapping => At0(mapping, n)[n] = NewEntry(0)
  <1> DEFINE a == At0(mapping, n)
  <1>1. a = [x \in DOMAIN mapping \cup {n} |-> IF x \in DOMAIN mapping THEN mapping[x] ELSE NewEntry(0)]
    BY DEF At0, Adding
  <1> HIDE DEF a
  <1>2. DOMAIN a = DOMAIN mapping \cup {n} /\ a = [x \in DOMAIN a |-> a[x]]
    BY <1>1
  <1>3. \A x \in DOMAIN mapping : a[x] = mapping[x]
    BY <1>1
  <1>4. \A x \in {n} \ DOMAIN mapping : a[x] = NewEntry(0)
    BY <1>1
  <1>5. SameRunning(a, mapping)
    BY <1>2, <1>3, <1>4, AddingIsSame, ZenonT(40)
  <1> QED
    BY <1>2, <1>3, <1>4, <1>5 DEF a

\* Touching an entry, and load() going on after an eviction or refusing for lack of room,
\* keep the invariant.
LEMMA EntriesKeep ==
    ASSUME RouterInv, NEW c \in Client,
           Request_Touch(c) \/ Load_Evicted(c) \/ Load_Refuse(c)
    PROVE  RouterInv'
  <1> USE DEF RouterInv
  <1>1. UNCHANGED <<inst, locked, sources>> /\ Serving(c) /\ sources' \in [Name -> Nat] /\ Named(th[c])
    BY DEF Request_Touch, Load_Evicted, Load_Refuse, At, HandlersOK, Named, NamedPC
  <1>2. Target(c) \in Name /\ ~Op(c, "download")
    BY <1>1, NamedHandler, RequestOfHandler DEF Op
  <1>3. Core'
    <2>1. CASE Request_Touch(c)
      BY <1>1, <1>2, <2>1, At0IsSame, CoreOfEntries DEF Request_Touch
    <2>2. CASE Load_Evicted(c)
      <3>1. th[c].victim \in Name
        BY <2>2, HandlerIsGood DEF Load_Evicted, At, GoodHandler
      <3> QED
        BY <1>1, <2>2, <3>1, At0IsSame, CoreOfEntries DEF Load_Evicted
    <2>3. CASE Load_Refuse(c)
      BY <1>1, <1>2, <2>3, At0IsSame, CoreOfEntries DEF Load_Refuse
    <2> QED
      BY <2>1, <2>2, <2>3
  <1>4. CASE Request_Touch(c)
    BY <1>1, <1>3, <1>4, AnswerKeeps DEF Request_Touch
  <1>5. CASE Load_Evicted(c)
    BY <1>1, <1>3, <1>5, GotoKeeps DEF Load_Evicted, AnyPC
  <1>6. CASE Load_Refuse(c)
    <2>1. Answer(c) \/ th' = [th EXCEPT ![c] = Loaded(c)]
      BY <1>6 DEF Load_Refuse
    <2> QED
      BY <1>1, <1>3, <2>1, AnswerKeeps, LoadedKeeps
  <1> QED
    BY <1>4, <1>5, <1>6

-----------------------------------------------------------------------------
(* load() with a new instance                                              *)

\* An entry that does not run has no thread that could still need the mutex.
LEMMA IdleIsPast ==
    ASSUME Core, NEW n \in DOMAIN mapping, ~Running(mapping[n])
    PROVE  Past(mapping[n].th)
  <1> DEFINE i == mapping[n].th
  <1> SUFFICES ASSUME i # 0 PROVE inst[i].log = "done"
    BY DEF Past
  <1>1. i \in DOMAIN inst
    BY DEF Core, MapOK, InstOK, ServerEntry
  <1>2. inst[i].name = n
    BY DEF Core, OwnOK
  <1> QED
    BY <1>1, <1>2 DEF Core, ListOK, Active

\* A process that is spawned is a well-formed instance.
LEMMA NewIsServer ==
    ASSUME NEW n \in Name
    PROVE  /\ NewInstance(n, "normal") \in Server
           /\ NewInstance(n, "normal").name = n /\ NewInstance(n, "normal").log = "read"
  BY DEF NewInstance, Server, Instance

\* A new instance for an entry that does not run, below the limit
LEMMA NewInstanceKeeps ==
    ASSUME Core, ~AtLimit, NEW n \in Name, NEW m, NEW I, NEW x \in Server, NEW e \in ServerEntry,
           SameRunning(m, mapping), n \in DOMAIN m, ~Running(m[n]),
           Milder(inst, I), x.name = n, x.log # "done",
           inst' = Append(I, x), mapping' = [m EXCEPT ![n] = e],
           Running(e), e.inst = Len(inst'), e.th = Len(inst')
    PROVE  Core'
  <1> DEFINE new == Len(inst) + 1
  <1>1. /\ inst \in Seq(Server) /\ I \in Seq(Server) /\ Len(I) = Len(inst) /\ inst' \in Seq(Server)
        /\ Len(inst') = new /\ DOMAIN inst' = DOMAIN inst \cup {new} /\ new \notin DOMAIN inst
        /\ Len(inst) \in Nat
    BY DEF Core, InstOK, Milder
  <1>2. /\ inst'[new] = x
        /\ \A i \in DOMAIN inst : inst'[i] = I[i]
    BY <1>1
  <1>3. \A i \in DOMAIN inst : inst'[i].name = inst[i].name /\ (inst'[i].log = "done" <=> inst[i].log = "done")
    BY <1>2 DEF Milder
  <1>4. DOMAIN mapping' = DOMAIN m /\ mapping'[n] = e /\ \A y \in DOMAIN m \ {n} : mapping'[y] = m[y]
    BY DEF SameRunning
  <1>5. {y \in DOMAIN m : Running(m[y])} = Active
    BY DEF SameRunning, Active
  <1>6. n \notin Active /\ Active' = Active \cup {n}
    BY <1>4, <1>5 DEF Active
  <1>7. MapOK'
    <2>1. mapping' \in [DOMAIN mapping' -> ServerEntry] /\ DOMAIN mapping' \subseteq Name
      BY <1>4 DEF SameRunning
    <2>2. ASSUME NEW y \in DOMAIN m PROVE m[y].inst <= new /\ m[y].th <= new
      <3>1. m[y].inst = 0 \/ (y \in DOMAIN mapping /\ m[y].inst = mapping[y].inst)
        BY DEF SameRunning
      <3>2. m[y].th = 0 \/ (y \in DOMAIN mapping /\ m[y].th = mapping[y].th)
        BY DEF SameRunning
      <3>3. y \in DOMAIN mapping => /\ mapping[y].inst \in Nat /\ mapping[y].inst <= Len(inst)
                                   /\ mapping[y].th \in Nat /\ mapping[y].th <= Len(inst)
        BY DEF Core, MapOK, ServerEntry
      <3> QED
        BY <1>1, <3>1, <3>2, <3>3
    <2>3. \A y \in DOMAIN m \ {n} : mapping'[y].inst <= new /\ mapping'[y].th <= new
      BY <1>4, <2>2
    <2> QED
      BY <1>1, <1>4, <2>1, <2>3 DEF MapOK
  <1>8. OwnOK'
    <2> SUFFICES ASSUME NEW y \in DOMAIN m, mapping'[y].th # 0
                 PROVE  inst'[mapping'[y].th].name = y
      BY <1>4 DEF OwnOK
    <2>1. CASE y = n
      BY <1>1, <1>2, <1>4, <2>1
    <2>2. CASE y # n
      <3>1. y \in DOMAIN mapping /\ mapping'[y].th = mapping[y].th /\ mapping[y].th # 0
        BY <1>4, <2>2 DEF SameRunning
      <3>2. mapping[y].th \in DOMAIN inst
        BY <3>1 DEF Core, MapOK, InstOK, ServerEntry
      <3> QED
        BY <1>3, <3>1, <3>2 DEF Core, OwnOK
    <2> QED
      BY <2>1, <2>2
  <1>9. RunOK'
    <2> SUFFICES ASSUME NEW y \in Active \cup {n}
                 PROVE  /\ mapping'[y].inst # 0 /\ mapping'[y].th = mapping'[y].inst
                        /\ inst'[mapping'[y].inst].log # "done"
      BY <1>6 DEF RunOK
    <2>1. CASE y = n
      BY <1>1, <1>2, <1>4, <2>1
    <2>2. CASE y # n
      <3>1. y \in DOMAIN m /\ Running(m[y]) /\ y \in Active
        BY <1>5, <2>2
      <3>2. mapping'[y].inst = mapping[y].inst /\ mapping'[y].th = mapping[y].th
        BY <1>4, <2>2, <3>1 DEF SameRunning
      <3>3. mapping[y].inst \in DOMAIN inst /\ y \in DOMAIN mapping
        BY <3>1 DEF Core, MapOK, InstOK, ServerEntry, RunOK, Active
      <3> QED
        BY <1>3, <3>1, <3>2, <3>3 DEF Core, RunOK
    <2> QED
      BY <2>1, <2>2
  <1>10. ListOK'
    <2> SUFFICES ASSUME NEW i \in DOMAIN inst \cup {new}, inst'[i].log # "done"
                 PROVE  inst'[i].name \in Active \cup {n} /\ mapping'[inst'[i].name].inst = i
      BY <1>1, <1>6 DEF ListOK
    <2>1. CASE i = new
      BY <1>1, <1>2, <1>4, <2>1
    <2>2. CASE i \in DOMAIN inst
      <3>1. inst'[i].name = inst[i].name /\ inst[i].log # "done"
        BY <1>3, <2>2
      <3>2. inst[i].name \in Active /\ mapping[inst[i].name].inst = i
        BY <2>2, <3>1 DEF Core, ListOK
      <3>3. inst[i].name # n /\ inst[i].name \in DOMAIN m /\ Running(m[inst[i].name])
        BY <1>5, <1>6, <3>2
      <3>4. mapping'[inst[i].name].inst = mapping[inst[i].name].inst
        BY <1>4, <3>3 DEF SameRunning
      <3> QED
        BY <3>1, <3>2, <3>4
    <2> QED
      BY <2>1, <2>2
  <1>11. LimitOK'
    <2>1. IsFiniteSet(Active) /\ Cardinality(Active) \in Nat
      BY FS_CardinalityType DEF Core, LimitOK
    <2>2. IsFiniteSet(Active \cup {n}) /\ Cardinality(Active \cup {n}) = Cardinality(Active) + 1
      BY <1>6, <2>1, FS_AddElement
    <2> QED
      BY <1>6, <2>1, <2>2, RouterAssumption DEF LimitOK, AtLimit
  <1> QED
    BY <1>1, <1>7, <1>8, <1>9, <1>10, <1>11 DEF Core, InstOK

\* load() spawning a process keeps the invariant: the limit was looked at under the
\* same mutex.
LEMMA SpawnKeeps ==
    ASSUME RouterInv, NEW c \in Client, Load_Spawn(c)
    PROVE  RouterInv'
  <1> USE DEF RouterInv
  <1> DEFINE n == Target(c)
             m == At0(mapping, n)
             I == IF m[n].inst = 0 THEN inst ELSE [inst EXCEPT ![m[n].inst] = Killed(@)]
             x == NewInstance(n, "normal")
             e == [status |-> "LOADING", inst |-> Len(inst'), th |-> Len(inst'),
                   failed |-> m[n].failed, preset |-> m[n].preset]
  <1>1. Serving(c) /\ Named(th[c]) /\ UNCHANGED sources /\ ~AtLimit
    BY DEF Load_Spawn, At, Named, NamedPC
  <1>2. n \in Name /\ ~Op(c, "download")
    BY <1>1, NamedHandler, RequestOfHandler DEF Op
  <1>3. /\ SameRunning(m, mapping) /\ n \in DOMAIN m
        /\ \A y \in DOMAIN mapping : m[y] = mapping[y]
        /\ n \notin DOMAIN mapping => m[n] = NewEntry(0)
    BY <1>2, At0IsSame
  <1>4. inst' = Append(I, x) /\ m[n].status = "UNLOADED"
    BY <1>2 DEF Load_Spawn
  <1>5. m[n] \in ServerEntry /\ ~Running(m[n])
    BY <1>3, <1>4 DEF SameRunning, Running
  <1>6. Past(m[n].th)
    <2>1. CASE n \in DOMAIN mapping
      BY <1>3, <1>5, <2>1, IdleIsPast
    <2>2. CASE n \notin DOMAIN mapping
      BY <1>3, <2>2 DEF NewEntry, Past
    <2> QED
      BY <2>1, <2>2
  <1>7. mapping' = [m EXCEPT ![n] = e] /\ th' = [th EXCEPT ![c] = Loaded(c)] /\ UNCHANGED locked
    <2>1. mapping' = Installed(c, m, Len(inst')) /\ th' = [th EXCEPT ![c] = Loaded(c)] /\ UNCHANGED locked
      BY <1>6 DEF Load_Spawn
    <2>2. Installed(c, m, Len(inst')) = [m EXCEPT ![n] = e]
      <3>1. m[n].failed \in BOOLEAN
        BY <1>5 DEF ServerEntry
      <3> QED
        BY <1>2, <3>1 DEF Installed
    <2> QED
      BY <2>1, <2>2
  <1>8. Milder(inst, I)
    <2>1. CASE m[n].inst = 0
      BY <2>1, SameIsSame
    <2>2. CASE m[n].inst # 0
      <3>1. n \in DOMAIN mapping /\ m[n].inst = mapping[n].inst
        BY <1>3, <2>2 DEF SameRunning
      <3>2. m[n].inst \in DOMAIN inst /\ inst[m[n].inst] \in Server
        BY <2>2, <3>1 DEF Core, MapOK, InstOK, ServerEntry
      <3>3. Milder(inst, [inst EXCEPT ![m[n].inst] = Killed(inst[m[n].inst])])
        BY <3>2, KilledIsServer, MilderOne
      <3> QED
        BY <2>2, <3>3
    <2> QED
      BY <2>1, <2>2
  <1>9. x \in Server /\ x.name = n /\ x.log # "done"
    BY <1>2, NewIsServer
  <1> HIDE DEF I, x, m
  <1>10. Len(inst') \in Nat
    BY <1>4, <1>8, <1>9 DEF Milder
  <1>11. e \in ServerEntry /\ Running(e) /\ e.inst = Len(inst') /\ e.th = Len(inst')
    BY <1>5, <1>10 DEF ServerEntry, Running
  <1> HIDE DEF e, n
  <1>12. Core'
    BY <1>1, <1>2, <1>3, <1>4, <1>5, <1>7, <1>8, <1>9, <1>11, NewInstanceKeeps
  <1>13. HandlersOK'
    BY <1>1, <1>7, LoadedKeeps
  <1> QED
    BY <1>12, <1>13

\* Nobody joins a thread under the mutex.
LEMMA NobodyJoins ==
    ASSUME RouterInv, NEW c \in Client
    PROVE  ~Load_Join(c) /\ ~Remove_Join(c)
  BY HandlerIsGood DEF RouterInv, Load_Join, Remove_Join, At, GoodHandler

-----------------------------------------------------------------------------
(* remove(), load_models and the end                                       *)

\* Erasing an entry that does not run leaves those that run.
LEMMA ErasingIsSame ==
    ASSUME Core, NEW N, \A n \in DOMAIN mapping \cap N : ~Running(mapping[n])
    PROVE  SameRunning(Erase(mapping, N), mapping)
  <1>1. DOMAIN mapping \subseteq Name /\ mapping \in [DOMAIN mapping -> ServerEntry]
    BY DEF Core, MapOK
  <1> QED
    BY <1>1 DEF Erase, SameRunning

\* The end of remove() on an entry that has settled keeps the invariant.
LEMMA RemoveEndsKeep ==
    ASSUME RouterInv, NEW c \in Client, Serving(c), RemoveEnds(c), Settled(Target(c)), UNCHANGED inst
    PROVE  RouterInv'
  <1> USE DEF RouterInv
  <1>1. Target(c) \in DOMAIN mapping => ~Running(mapping[Target(c)])
    BY DEF Settled, Running
  <1>2. Deleted(c) /\ UNCHANGED locked
    BY <1>1, IdleIsPast DEF RemoveEnds
  <1>3. SameRunning(mapping', mapping)
    BY <1>1, <1>2, ErasingIsSame DEF Deleted
  <1>4. Core'
    BY <1>3, CoreOfEntries
  <1>5. sources' \in [Name -> Nat]
    BY <1>2 DEF Deleted, HandlersOK
  <1> QED
    BY <1>2, <1>4, <1>5, AnswerKeeps DEF Deleted

\* remove() keeps the invariant.
LEMMA RemoveKeeps ==
    ASSUME RouterInv, NEW c \in Client, Remove_Begin(c) \/ Remove_Wait(c)
    PROVE  RouterInv'
  <1> USE DEF RouterInv
  <1>1. Serving(c)
    BY DEF Remove_Begin, Remove_Wait, At
  <1>2. CASE Remove_Wait(c)
    BY <1>1, <1>2, RemoveEndsKeep DEF Remove_Wait
  <1>3. CASE Remove_Begin(c)
    <2>1. \/ Answer(c) /\ UNCHANGED <<mapping, sources, inst, locked>>
          \/ Settled(Target(c)) /\ RemoveEnds(c) /\ UNCHANGED inst
          \/ /\ UnloadEffect(Target(c)) /\ Goto(c, "rm_wait") /\ Req(c).op # "reload"
             /\ UNCHANGED <<mapping, sources, locked>>
      BY <1>3 DEF Remove_Begin, Op
    <2>2. CASE Answer(c) /\ UNCHANGED <<mapping, sources, inst, locked>>
      BY <1>1, <2>2, CoreKept, SameIsSame, AnswerKeeps DEF HandlersOK
    <2>3. CASE Settled(Target(c)) /\ RemoveEnds(c) /\ UNCHANGED inst
      BY <1>1, <2>3, RemoveEndsKeep
    <2>4. CASE /\ UnloadEffect(Target(c)) /\ Goto(c, "rm_wait") /\ Req(c).op # "reload"
               /\ UNCHANGED <<mapping, sources, locked>>
      BY <1>1, <2>4, UnloadKeeps, GotoKeeps DEF AnyPC
    <2> QED
      BY <2>1, <2>2, <2>3, <2>4
  <1> QED
    BY <1>2, <1>3

\* Adding entries that do not run leaves those that run.
LEMMA AddedIsSame ==
    ASSUME Core, NEW c \in Client, th[c] \in Handler, NEW k,
           SameRunning(k, mapping)
    PROVE  SameRunning(Added(c, k), mapping)
  <1> DEFINE N == {n \in Name : InSource(c, n)}
             m == Added(c, k)
  <1>1. /\ DOMAIN k \subseteq Name /\ k \in [DOMAIN k -> ServerEntry]
        /\ {x \in DOMAIN k : Running(k[x])} = {x \in DOMAIN mapping : Running(mapping[x])}
    BY DEF SameRunning
  <1>2. m = [n \in DOMAIN k \cup N |-> IF n \in DOMAIN k THEN k[n] ELSE NewEntry(th[c].presets[n])]
    BY DEF Added, Adding
  <1>3. \A n \in N : th[c].presets[n] \in Nat
    BY DEF Handler
  <1>4. \A n \in N \ DOMAIN k : m[n] \in ServerEntry /\ ~Running(m[n]) /\ m[n].inst = 0 /\ m[n].th = 0
    BY <1>2, <1>3 DEF NewEntry, ServerEntry, Running
  <1>5. DOMAIN m = DOMAIN k \cup N /\ \A n \in DOMAIN k : m[n] = k[n]
    BY <1>2
  <1>6. m = [n \in DOMAIN m |-> m[n]]
    BY <1>2, <1>5
  <1> HIDE DEF m, N
  <1>7. N \subseteq Name
    BY DEF N
  <1>8. m \in [DOMAIN m -> ServerEntry] /\ DOMAIN m \subseteq Name
    BY <1>1, <1>4, <1>5, <1>6, <1>7
  <1>9. {x \in DOMAIN m : Running(m[x])} = {x \in DOMAIN mapping : Running(mapping[x])}
    BY <1>1, <1>4, <1>5
  <1>10. ASSUME NEW x \in DOMAIN m
         PROVE  /\ m[x].inst = 0 \/ (x \in DOMAIN mapping /\ m[x].inst = mapping[x].inst)
                /\ m[x].th = 0 \/ (x \in DOMAIN mapping /\ m[x].th = mapping[x].th)
                /\ Running(m[x]) => m[x].inst = mapping[x].inst /\ m[x].th = mapping[x].th
    <2>1. CASE x \in DOMAIN k
      BY <1>5, <2>1 DEF SameRunning
    <2>2. CASE x \in N \ DOMAIN k
      BY <1>4, <2>2
    <2> QED
      BY <1>5, <2>1, <2>2
  <1>11. SameRunning(m, mapping)
    BY <1>8, <1>9, <1>10 DEF SameRunning
  <1> QED
    BY <1>11 DEF m

\* load_models comes back to where it was called.
LEMMA ReturnedKeeps ==
    ASSUME HandlersOK, NEW c \in Client, th' = [th EXCEPT ![c] = Returned(c)],
           UNCHANGED <<sources, locked>>
    PROVE  HandlersOK'
  <1> DEFINE x == [th[c] EXCEPT !.pc = th[c].back, !.fresh = TRUE]
  <1>1. th' = [th EXCEPT ![c] = x] /\ th[c] \in Handler
    BY HandlerIsGood DEF Returned
  <1>2. x \in Handler /\ x.reqs = th[c].reqs /\ x.pc = th[c].back /\ x.back = th[c].back
        /\ x.pc \in {"begin", "proxy", "list"}
    BY <1>1 DEF Handler
  <1> HIDE DEF x
  <1>3. Named(x) => Named(th[c])
    BY <1>2 DEF Named, NamedPC
  <1> QED
    BY <1>1, <1>2, <1>3, NamedHandler, GoesOn DEF AnyPC

\* Reloading the list of models keeps the invariant: no running entry is replaced.
LEMMA ReloadKeeps ==
    ASSUME RouterInv, NEW c \in Client,
           Reload_Start(c) \/ Reload_Collect(c) \/ Reload_Finish(c)
    PROVE  RouterInv'
  <1> USE DEF RouterInv
  <1>1. UNCHANGED <<inst, sources, locked>> /\ Serving(c) /\ th[c] \in Handler
        /\ sources \in [Name -> Nat]
    BY HandlerIsGood DEF Reload_Start, Reload_Collect, Reload_Finish, At, HandlersOK
  <1>2. DOMAIN mapping \subseteq Name /\ mapping \in [DOMAIN mapping -> ServerEntry]
    BY DEF Core, MapOK
  <1>3. CASE Reload_Start(c)
    <2>1. CASE DOMAIN mapping = {}
      <3>1. mapping' = Added(c, mapping) /\ th' = [th EXCEPT ![c] = Returned(c)]
        BY <1>3, <2>1 DEF Reload_Start
      <3>2. Core'
        BY <1>1, <3>1, SameIsSame, AddedIsSame, CoreOfEntries
      <3> QED
        BY <1>1, <3>1, <3>2, ReturnedKeeps
    <2>2. CASE DOMAIN mapping # {}
      <3> DEFINE out == {n \in Active : mapping[n].preset # th[c].presets[n]}
                 x == [th[c] EXCEPT !.pc = "rl_unload", !.todo = out, !.left = out]
      <3>1. UNCHANGED mapping /\ th' = [th EXCEPT ![c] = x]
        BY <1>3, <2>2 DEF Reload_Start
      <3>2. out \in SUBSET Name
        BY <1>2 DEF Active
      <3>3. x \in Handler /\ x.reqs = th[c].reqs /\ x.pc = "rl_unload" /\ x.back = th[c].back
        BY <1>1, <3>2 DEF Handler
      <3> HIDE DEF x
      <3>4. Named(x) => Named(th[c])
        BY <3>3 DEF Named, NamedPC
      <3>5. Core'
        BY <1>1, <3>1, SameIsSame, CoreKept
      <3>6. HandlersOK'
        BY <1>1, <3>1, <3>3, <3>4, NamedHandler, GoesOn DEF AnyPC
      <3> QED
        BY <3>5, <3>6
    <2> QED
      BY <2>1, <2>2
  <1>4. CASE Reload_Collect(c)
    <2> DEFINE m == [n \in DOMAIN mapping |->
                        IF n \in ToJoin(c) THEN [mapping[n] EXCEPT !.th = 0] ELSE mapping[n]]
               js == {mapping[n].th : n \in ToJoin(c)}
               x == [th[c] EXCEPT !.pc = "rl_join", !.joins = js]
    <2>1. mapping' = m /\ th' = [th EXCEPT ![c] = x]
      BY <1>4 DEF Reload_Collect
    <2>2. \A n \in ToJoin(c) : n \in DOMAIN mapping /\ ~Running(mapping[n])
      <3>1. \A n \in th[c].todo : ~IsRunning(n)
        BY <1>4 DEF Reload_Collect
      <3> QED
        BY <3>1 DEF ToJoin, IsRunning, Running
    <2>3. js \in SUBSET Nat
      BY <1>2, <2>2 DEF ServerEntry
    <2>4. \A n \in DOMAIN mapping :
             LET e == [mapping[n] EXCEPT !.th = 0]
             IN e \in ServerEntry /\ e.inst = mapping[n].inst /\ e.th = 0 /\ (Running(e) <=> Running(mapping[n]))
      BY <1>2 DEF ServerEntry, Running
    <2>5. SameRunning(m, mapping)
      <3>1. DOMAIN m = DOMAIN mapping /\ m \in [DOMAIN m -> ServerEntry]
        BY <1>2, <2>4
      <3>2. ASSUME NEW n \in DOMAIN m
            PROVE  /\ Running(m[n]) <=> Running(mapping[n])
                   /\ m[n].inst = mapping[n].inst
                   /\ m[n].th = 0 \/ m[n].th = mapping[n].th
                   /\ Running(m[n]) => m[n].th = mapping[n].th
        <4>1. CASE n \in ToJoin(c)
          BY <2>2, <2>4, <4>1
        <4>2. CASE n \notin ToJoin(c)
          BY <4>2
        <4> QED
          BY <4>1, <4>2
      <3> HIDE DEF m
      <3> QED
        BY <1>2, <3>1, <3>2 DEF SameRunning
    <2>6. x \in Handler /\ x.reqs = th[c].reqs /\ x.pc = "rl_join" /\ x.back = th[c].back
      BY <1>1, <2>3 DEF Handler
    <2> HIDE DEF x, m
    <2>7. Named(x) => Named(th[c])
      BY <2>6 DEF Named, NamedPC
    <2>8. Core'
      BY <1>1, <2>1, <2>5, CoreOfEntries
    <2>9. HandlersOK'
      BY <1>1, <2>1, <2>6, <2>7, NamedHandler, GoesOn DEF AnyPC
    <2> QED
      BY <2>8, <2>9
  <1>5. CASE Reload_Finish(c)
    <2> DEFINE gone == {n \in DOMAIN mapping :
                           \/ mapping[n].status = "DOWNLOADED"
                           \/ mapping[n].status # "DOWNLOADING" /\ ~InSource(c, n)}
               kept == Erase(mapping, gone)
               updated == [n \in DOMAIN kept |->
                             IF ~Running(kept[n]) /\ InSource(c, n)
                             THEN [kept[n] EXCEPT !.preset = th[c].presets[n], !.failed = FALSE]
                             ELSE kept[n]]
    <2>1. CASE \E n \in gone : mapping[n].th # 0
      <3>1. UNCHANGED <<mapping, th>>
        BY <1>5, <2>1 DEF Reload_Finish
      <3>2. Core'
        BY <1>1, <3>1, SameIsSame, CoreKept
      <3>3. HandlersOK'
        BY <1>1, <3>1 DEF HandlersOK
      <3> QED
        BY <3>2, <3>3
    <2>2. CASE \A n \in gone : mapping[n].th = 0
      <3>1. mapping' = Added(c, updated) /\ th' = [th EXCEPT ![c] = Returned(c)]
        BY <1>5, <2>2 DEF Reload_Finish
      <3>2. \A n \in gone : ~Running(mapping[n])
        BY <2>2 DEF Core, RunOK, Active
      <3> HIDE DEF gone
      <3>3. SameRunning(kept, mapping)
        BY <3>2, ErasingIsSame
      <3> HIDE DEF kept
      <3>4. ASSUME NEW n \in DOMAIN kept
            PROVE  /\ updated[n] \in ServerEntry /\ (Running(updated[n]) <=> Running(kept[n]))
                   /\ updated[n].inst = kept[n].inst /\ updated[n].th = kept[n].th
        <4>1. kept[n] \in ServerEntry
          BY <3>3 DEF SameRunning
        <4>2. CASE ~Running(kept[n]) /\ InSource(c, n)
          <5>1. th[c].presets[n] \in Nat
            BY <1>1, <3>3 DEF Handler, SameRunning
          <5> DEFINE e == [kept[n] EXCEPT !.preset = th[c].presets[n], !.failed = FALSE]
          <5>2. updated[n] = e
            BY <4>2
          <5>3. e \in ServerEntry /\ e.status = kept[n].status /\ e.inst = kept[n].inst /\ e.th = kept[n].th
            BY <4>1, <5>1 DEF ServerEntry
          <5> HIDE DEF e, updated
          <5> QED
            BY <5>2, <5>3 DEF Running
        <4>3. CASE ~(~Running(kept[n]) /\ InSource(c, n))
          BY <4>1, <4>3
        <4> QED
          BY <4>2, <4>3
      <3>5. DOMAIN updated = DOMAIN kept /\ updated = [n \in DOMAIN kept |-> updated[n]]
        OBVIOUS
      <3> HIDE DEF updated
      <3>6. SameRunning(updated, mapping)
        BY <3>3, <3>4, <3>5 DEF SameRunning
      <3>7. Core'
        BY <1>1, <3>1, <3>6, AddedIsSame, CoreOfEntries
      <3> QED
        BY <1>1, <3>1, <3>7, ReturnedKeeps
    <2> QED
      BY <2>1, <2>2
  <1> QED
    BY <1>3, <1>4, <1>5

\* A change of the presets outside the router keeps the invariant.
LEMMA EditKeeps ==
    ASSUME RouterInv, NEW c \in Client, Edit(c)
    PROVE  RouterInv'
  <1> USE DEF RouterInv
  <1>1. UNCHANGED <<mapping, inst, locked>> /\ Serving(c) /\ Answer(c)
    BY DEF Edit, At
  <1>2. sources' \in [Name -> Nat]
    <2>1. sources \in [Name -> Nat]
      BY DEF HandlersOK
    <2>2. Target(c) \in Name
      BY <1>1, RequestOfHandler DEF Edit, Op
    <2> QED
      BY <2>1, <2>2 DEF Edit
  <1>3. Core'
    BY <1>1, SameIsSame, CoreKept
  <1> QED
    BY <1>1, <1>2, <1>3, AnswerKeeps

\* Marking an instance leaves it well formed, of the same model.
LEMMA MarkedIsServer ==
    ASSUME NEW x \in Server, NEW a \in BOOLEAN, NEW b \in BOOLEAN
    PROVE  LET y == [x EXCEPT !.asked = a, !.stopped = b]
           IN y \in Server /\ y.name = x.name /\ y.log = x.log
  BY DEF Server, Instance

\* unload_all at the end of the router keeps the invariant.
LEMMA EndKeeps ==
    ASSUME RouterInv, UnloadAll \/ Exit
    PROVE  RouterInv'
  <1> USE DEF RouterInv
  <1>1. UNCHANGED <<mapping, sources, locked, th>>
    BY DEF UnloadAll, Exit, instanceVars
  <1>2. HandlersOK'
    BY <1>1 DEF HandlersOK
  <1>3. CASE Exit
    BY <1>1, <1>2, <1>3, SameIsSame, CoreKept DEF Exit, instanceVars
  <1>4. CASE UnloadAll
    <2> DEFINE I == IF Active = {} THEN inst ELSE Notified(inst)
    <2>1. Milder(inst, I) /\ I \in Seq(Server) /\ DOMAIN I = DOMAIN inst
      BY SameIsSame, NotifiedIsMilder DEF Core, InstOK, Milder
    <2>2. PICK A, S : inst' = [i \in DOMAIN inst |->
                                 [I[i] EXCEPT !.asked = @ \/ i \in A, !.stopped = @ \/ i \in S]]
      BY <1>4 DEF UnloadAll
    <2> HIDE DEF I
    <2>3. \A i \in DOMAIN inst :
             /\ inst'[i] \in Server
             /\ inst'[i].name = I[i].name /\ inst'[i].log = I[i].log
      <3> SUFFICES ASSUME NEW i \in DOMAIN inst
                   PROVE  /\ inst'[i] \in Server
                          /\ inst'[i].name = I[i].name /\ inst'[i].log = I[i].log
        OBVIOUS
      <3>1. I[i] \in Server
        BY <2>1
      <3>2. PICK a \in BOOLEAN, b \in BOOLEAN : inst'[i] = [I[i] EXCEPT !.asked = a, !.stopped = b]
        <4>1. (I[i].asked \/ i \in A) \in BOOLEAN /\ (I[i].stopped \/ i \in S) \in BOOLEAN
          OBVIOUS
        <4>2. inst'[i] = [I[i] EXCEPT !.asked = I[i].asked \/ i \in A, !.stopped = I[i].stopped \/ i \in S]
          BY <2>2, <3>1 DEF Server, Instance
        <4> QED
          BY <4>1, <4>2
      <3> QED
        <4> DEFINE y == [I[i] EXCEPT !.asked = a, !.stopped = b]
        <4>1. y \in Server /\ y.name = I[i].name /\ y.log = I[i].log
          BY <3>1, MarkedIsServer
        <4> QED
          BY <3>2, <4>1
    <2>4. inst' \in Seq(Server) /\ Len(inst') = Len(inst)
      <3>1. Len(inst) \in Nat /\ DOMAIN inst = 1 .. Len(inst)
        BY DEF Core, InstOK
      <3>2. inst' \in [1 .. Len(inst) -> Server]
        <4>1. inst' = [i \in 1 .. Len(inst) |-> inst'[i]]
          BY <2>2, <3>1
        <4> QED
          BY <2>3, <3>1, <4>1
      <3> QED
        BY <3>1, <3>2
    <2>5. Milder(inst, inst')
      BY <2>1, <2>3, <2>4 DEF Milder
    <2> QED
      BY <1>1, <1>2, <2>5, CoreKept
  <1> QED
    BY <1>3, <1>4

-----------------------------------------------------------------------------
(* The theorems                                                            *)

\* Every step of every handler keeps the invariant.
LEMMA HandlingKeeps ==
    ASSUME RouterInv, NEW c \in Client, Handling(c)
    PROVE  RouterInv'
  BY LooksKeep, ReloadLooksKeep, LoadFindKeeps, UnloadsKeep, EntriesKeep, SpawnKeeps, NobodyJoins,
     RemoveKeeps, ReloadKeeps, EditKeeps DEF Handling

\* Every step of a process and of its threads keeps the invariant.
LEMMA InstancesKeep ==
    ASSUME RouterInv, NEW i \in DOMAIN inst, Instances(i)
    PROVE  RouterInv'
  <1>1. Core' /\ UNCHANGED locked /\ UNCHANGED th /\ sources' \in [Name -> Nat]
    BY ChildKeeps, ManagingKeeps, StoppingKeeps DEF RouterInv, HandlersOK, Instances, routerVars
  <1> QED
    BY <1>1 DEF RouterInv, HandlersOK

\* Every step of the router keeps the invariant.
LEMMA StepKeeps == ASSUME RouterInv, [Next]_vars PROVE RouterInv'
  <1>1. CASE UNCHANGED vars
    <2>1. Core'
      BY <1>1, SameIsSame, CoreKept DEF RouterInv, vars, instanceVars
    <2> QED
      BY <1>1, <2>1 DEF RouterInv, HandlersOK, vars, instanceVars, routerVars
  <1>2. CASE Next
    BY <1>1, <1>2, HandlingKeeps, InstancesKeep, EndKeeps DEF Next, Terminated
  <1> QED
    BY <1>1, <1>2

\* The invariant holds when the router starts.
LEMMA InitHolds == ASSUME NoDownloads, Init PROVE RouterInv
  <1> DEFINE N == {n \in Name : FirstSources[n] > 0}
  <1>1. mapping = [n \in N |-> NewEntry(FirstSources[n])] /\ inst = <<>>
    BY DEF Init
  <1>2. \A n \in N : NewEntry(FirstSources[n]) \in ServerEntry /\ NewEntry(FirstSources[n]).inst = 0
                     /\ NewEntry(FirstSources[n]).th = 0 /\ ~Running(NewEntry(FirstSources[n]))
    BY RouterAssumption DEF NewEntry, ServerEntry, Running
  <1>3. Active = {}
    BY <1>1, <1>2 DEF Active
  <1>4. Core
    <2>1. InstOK /\ Len(inst) = 0 /\ DOMAIN inst = {}
      BY <1>1 DEF InstOK
    <2>2. MapOK /\ OwnOK
      BY <1>1, <1>2, <2>1 DEF MapOK, OwnOK
    <2>3. IsFiniteSet(Active) /\ Cardinality(Active) = 0
      BY <1>3, FS_EmptySet
    <2>4. RunOK /\ ListOK /\ LimitOK
      BY <1>3, <2>1, <2>3, RouterAssumption DEF RunOK, ListOK, LimitOK
    <2> QED
      BY <2>1, <2>2, <2>4 DEF Core
  <1>5. HandlersOK
    <2>1. PICK P \in Programs : th = [c \in Client |-> Begin(P[c])]
      BY DEF Init
    <2>2. ASSUME NEW c \in Client PROVE Begin(P[c]) \in GoodHandler
      BY <2>1, BeginIsGood, RouterAssumption DEF NoDownloads
    <2> QED
      BY <2>1, <2>2, RouterAssumption DEF HandlersOK, Init
  <1> QED
    BY <1>4, <1>5 DEF RouterInv

\* Without downloads the invariant holds in every state of the router: entries and
\* processes agree, and the limit of --models-max is kept.
THEOREM RouterCorrect == ASSUME NoDownloads PROVE Spec => []RouterInv
  <1>1. Init => RouterInv
    BY InitHolds
  <1>2. RouterInv /\ [Next]_vars => RouterInv'
    BY StepKeeps
  <1> QED
    BY <1>1, <1>2, PTL DEF Spec

\* A process that is alive is the one of its entry, so no more are alive than run.
LEMMA AliveAreActive ==
    ASSUME Core
    PROVE  LET alive == {i \in DOMAIN inst : inst[i].mode = "normal" /\ inst[i].child # "gone"}
           IN IsFiniteSet(alive) /\ Cardinality(alive) <= Cardinality(Active)
  <1> DEFINE alive == {i \in DOMAIN inst : inst[i].mode = "normal" /\ inst[i].child # "gone"}
             f == [i \in alive |-> inst[i].name]
  <1>1. \A i \in alive : inst[i].name \in Active /\ mapping[inst[i].name].inst = i
    <2> TAKE i \in alive
    <2>1. inst[i].log = "read"
      BY DEF Core, InstOK, Server
    <2> QED
      BY <2>1 DEF Core, ListOK
  <1>2. f \in Injection(alive, Active)
    BY <1>1 DEF Injection, IsInjective
  <1>3. IsFiniteSet(Active)
    BY DEF Core, LimitOK
  <1>4. IsFiniteSet(alive) /\ Cardinality(alive) <= Cardinality(Active)
    BY <1>2, <1>3, FS_Injection
  <1> QED
    BY <1>4

\* The limit of --models-max: never more models that run, nor servers that live, than it
\* says, for any handlers and any requests but downloads.
THEOREM CapacityCorrect == ASSUME NoDownloads PROVE Spec => []CapacityKept
  <1>1. RouterInv => CapacityKept
    <2> SUFFICES ASSUME RouterInv, ModelsMax > 0
                 PROVE  /\ Cardinality(Active) <= ModelsMax
                        /\ Cardinality({i \in DOMAIN inst : inst[i].mode = "normal" /\ inst[i].child # "gone"})
                              <= ModelsMax
      BY DEF CapacityKept
    <2> DEFINE alive == {i \in DOMAIN inst : inst[i].mode = "normal" /\ inst[i].child # "gone"}
    <2>1. IsFiniteSet(Active) /\ Cardinality(Active) <= ModelsMax
      BY DEF RouterInv, Core, LimitOK
    <2>2. IsFiniteSet(alive) /\ Cardinality(alive) <= Cardinality(Active)
      BY AliveAreActive DEF RouterInv
    <2>3. Cardinality(Active) \in Nat /\ Cardinality(alive) \in Nat
      BY <2>1, <2>2, FS_CardinalityType
    <2> QED
      BY <2>1, <2>2, <2>3, RouterAssumption
  <1>2. Spec => []RouterInv
    BY RouterCorrect
  <1> QED
    BY <1>1, <1>2, PTL

\* A process that lives is the one of its model's entry, which says that it runs; and a
\* model that is said to run has a managing thread that will say when it has ended. So an
\* eviction, an unload and the end of the router find every server there is.
THEOREM ServersManaged == ASSUME NoDownloads PROVE Spec => []ServersAreManaged
  <1>1. RouterInv => ServersAreListed
    <2> SUFFICES ASSUME RouterInv, NEW i \in DOMAIN inst, inst[i].child # "gone"
                 PROVE  inst[i].name \in Active /\ mapping[inst[i].name].inst = i
      BY DEF ServersAreListed
    <2>1. inst[i].log = "read"
      BY DEF RouterInv, Core, InstOK, Server
    <2> QED
      BY <2>1 DEF RouterInv, Core, ListOK
  <1>2. RouterInv => RunningIsManaged
    BY DEF RouterInv, Core, RunOK, RunningIsManaged
  <1>3. RouterInv => ServersAreManaged
    BY <1>1, <1>2 DEF ServersAreManaged
  <1>4. Spec => []RouterInv
    BY RouterCorrect
  <1> QED
    BY <1>3, <1>4, PTL

\* No handler keeps the mutex while it waits for a thread: the join in load(), and the one
\* in remove(), find a thread that has ended, whatever the other handlers do.
JoinsFreely == locked = None

\* Without downloads no thread is joined while the mutex is held (remove(), the finding of
\* router_remove).
THEOREM JoinsCorrect == ASSUME NoDownloads PROVE Spec => []JoinsFreely
  <1>1. RouterInv => JoinsFreely
    BY DEF RouterInv, HandlersOK, JoinsFreely
  <1>2. Spec => []RouterInv
    BY RouterCorrect
  <1> QED
    BY <1>1, <1>2, PTL

-----------------------------------------------------------------------------
(* The marks in stopping_models                                            *)

Marked0(n) == n \in stopping_models \ astray
AtWork(x) == x.log \in {"read", "erase"}

\* A mark has an instance whose managing thread will take it away, and every instance it
\* reaches was unloaded.  One whose output has ended is stopped, so that its stopping
\* thread sends no exit command any more.
MarksOK ==
    /\ \A n \in Name : Marked0(n) => \E i \in DOMAIN inst : inst[i].name = n /\ AtWork(inst[i])
    /\ \A i \in DOMAIN inst : /\ AtWork(inst[i]) /\ Marked0(inst[i].name) => inst[i].asked
                              /\ inst[i].log # "read" => inst[i].stopped
                              /\ inst[i].exit => inst[i].asked \/ inst[i].name \in astray

RestOK ==
    /\ stopping_models \subseteq Name /\ astray \subseteq Name
    /\ need_reload \in BOOLEAN /\ is_reloading \in BOOLEAN /\ aborted \in BOOLEAN
    /\ incidents \in 0 .. MaxIncidents /\ used \in Seq(Name)
    /\ main \in {"serving", "joining", "exited"}

MarksInv == RouterInv /\ MarksOK /\ RestOK

\* What may happen to the instances while the marks stay what they are.
Gentle(I, J) ==
    /\ DOMAIN J = DOMAIN I
    /\ \A i \in DOMAIN I : /\ J[i].name = I[i].name /\ J[i].log = I[i].log
                           /\ I[i].asked => J[i].asked
                           /\ J[i].exit => I[i].exit
                           /\ I[i].stopped => J[i].stopped

\* Steps that are gentle to the instances, and leave the marks alone, keep what marks mean.
LEMMA MarksKept ==
    ASSUME MarksOK, Gentle(inst, inst'), UNCHANGED <<stopping_models, astray>>
    PROVE  MarksOK'
<1>1. \A n : Marked0(n)' <=> Marked0(n)
  BY DEF Marked0
<1>2. \A i \in DOMAIN inst : AtWork(inst'[i]) <=> AtWork(inst[i])
  BY DEF AtWork, Gentle
<1>3. ASSUME NEW n \in Name, Marked0(n)'
      PROVE  \E i \in DOMAIN inst' : inst'[i].name = n /\ AtWork(inst'[i])
  BY <1>1, <1>2, <1>3 DEF MarksOK, Gentle
<1>4. ASSUME NEW i \in DOMAIN inst'
      PROVE  (/\ AtWork(inst[i]) /\ Marked0(inst[i].name) => inst[i].asked
              /\ inst[i].log # "read" => inst[i].stopped
              /\ inst[i].exit => inst[i].asked \/ inst[i].name \in astray)'
  <2>1. i \in DOMAIN inst
    BY DEF Gentle
  <2>2. inst'[i].name = inst[i].name /\ (Marked0(inst[i].name)' <=> inst[i].name \in stopping_models \ astray)
    BY <2>1 DEF Gentle, Marked0
  <2> QED
    BY <1>2, <2>1, <2>2 DEF MarksOK, Gentle, Marked0
<1> QED
  BY <1>3, <1>4 DEF MarksOK

\* Gentle changes add up; waking up stopping threads, and a kill, are gentle.
LEMMA GentleSteps ==
    ASSUME NEW I \in Seq(Server)
    PROVE  /\ Gentle(I, I)
           /\ Gentle(I, Notified(I))
           /\ \A i \in DOMAIN I : Gentle(I, [I EXCEPT ![i] = Killed(@)])
           /\ \A J, K : Gentle(I, J) /\ Gentle(J, K) => Gentle(I, K)
<1>1. ASSUME NEW i \in DOMAIN I
      PROVE  /\ Notified(I)[i].name = I[i].name /\ Notified(I)[i].log = I[i].log
             /\ Notified(I)[i].asked = I[i].asked /\ Notified(I)[i].exit = I[i].exit
             /\ Notified(I)[i].stopped = I[i].stopped
  BY DEF Notified, Server, Instance
<1>2. DOMAIN Notified(I) = DOMAIN I
  BY DEF Notified
<1>3. ASSUME NEW x \in Server
      PROVE  /\ Killed(x).name = x.name /\ Killed(x).log = x.log
             /\ Killed(x).asked = x.asked /\ Killed(x).exit = x.exit
             /\ Killed(x).stopped = x.stopped
  BY DEF Killed, Server, Instance
<1>4. Gentle(I, Notified(I))
  BY <1>1, <1>2 DEF Gentle
<1>5. ASSUME NEW i \in DOMAIN I PROVE Gentle(I, [I EXCEPT ![i] = Killed(@)])
  BY <1>3 DEF Gentle
<1> QED
  BY <1>4, <1>5 DEF Gentle

\* One instance changes gently.
LEMMA GentleOne ==
    ASSUME InstOK, NEW i \in DOMAIN inst, NEW x, inst' = [inst EXCEPT ![i] = x],
           x.name = inst[i].name, x.log = inst[i].log,
           inst[i].asked => x.asked, x.exit => inst[i].exit, inst[i].stopped => x.stopped
    PROVE  Gentle(inst, inst')
  BY DEF Gentle, InstOK

\* What a child does is gentle: its state, its pipe and its exit code change.
LEMMA ChildIsGentle ==
    ASSUME RouterInv, RestOK, NEW i \in DOMAIN inst, Child(i), UNCHANGED routerVars
    PROVE  Gentle(inst, inst') /\ RestOK' /\ UNCHANGED <<stopping_models, astray>>
<1>1. inst[i] \in Server /\ InstOK
  BY DEF RouterInv, Core, InstOK
<1>2. ~Child_Downloaded(i)
  BY <1>1 DEF Child_Downloaded, Server
<1>3. RestOK' /\ UNCHANGED <<stopping_models, astray>>
  BY <1>2, RouterAssumption DEF RestOK, Child, Child_Ready, Child_Sleep, Child_Wake, Child_Exit, Child_Crash, Say, routerVars
<1>4. \E x : /\ inst' = [inst EXCEPT ![i] = x]
             /\ x.name = inst[i].name /\ x.log = inst[i].log /\ x.asked = inst[i].asked
             /\ x.exit = inst[i].exit /\ x.stopped = inst[i].stopped
  <2>1. CASE \E state, message : inst' = [inst EXCEPT ![i].child = state, ![i].pipe = Append(@, message)]
    <3>1. PICK state, message : inst' = [inst EXCEPT ![i].child = state, ![i].pipe = Append(@, message)]
      BY <2>1
    <3> DEFINE x == [inst[i] EXCEPT !.child = state, !.pipe = Append(@, message)]
    <3>2. inst' = [inst EXCEPT ![i] = x]
      BY <3>1
    <3>3. /\ x.name = inst[i].name /\ x.log = inst[i].log /\ x.asked = inst[i].asked
          /\ x.exit = inst[i].exit /\ x.stopped = inst[i].stopped
      BY <1>1 DEF Server, Instance
    <3> HIDE DEF x
    <3> QED
      BY <3>2, <3>3
  <2>2. CASE Child_Exit(i)
    <3> DEFINE x == [inst[i] EXCEPT !.child = "gone"]
    <3>1. inst' = [inst EXCEPT ![i] = x]
      BY <2>2 DEF Child_Exit
    <3>2. /\ x.name = inst[i].name /\ x.log = inst[i].log /\ x.asked = inst[i].asked
          /\ x.exit = inst[i].exit /\ x.stopped = inst[i].stopped
      BY <1>1 DEF Server, Instance
    <3> HIDE DEF x
    <3> QED
      BY <3>1, <3>2
  <2>3. CASE Child_Crash(i)
    <3> DEFINE x == [inst[i] EXCEPT !.child = "gone", !.failed = TRUE]
    <3>1. inst' = [inst EXCEPT ![i] = x]
      BY <2>3 DEF Child_Crash
    <3>2. /\ x.name = inst[i].name /\ x.log = inst[i].log /\ x.asked = inst[i].asked
          /\ x.exit = inst[i].exit /\ x.stopped = inst[i].stopped
      BY <1>1 DEF Server, Instance
    <3> HIDE DEF x
    <3> QED
      BY <3>1, <3>2
  <2> QED
    BY <1>2, <2>1, <2>2, <2>3 DEF Child, Child_Ready, Child_Sleep, Child_Wake, Say
<1> QED
  BY <1>1, <1>3, <1>4, GentleOne

\* One instance moves on, and a mark that is on its name stays meant for it.
LEMMA MarksOne ==
    ASSUME MarksOK, InstOK, NEW i \in DOMAIN inst, NEW x, inst' = [inst EXCEPT ![i] = x],
           UNCHANGED <<stopping_models, astray>>,
           x.name = inst[i].name, AtWork(x) <=> AtWork(inst[i]), inst[i].asked => x.asked,
           x.log # "read" => x.stopped,
           x.exit => x.asked \/ x.name \in astray
    PROVE  MarksOK'
<1>1. DOMAIN inst' = DOMAIN inst /\ inst'[i] = x /\ \A j \in DOMAIN inst : j # i => inst'[j] = inst[j]
  BY DEF InstOK
<1>2. \A n : Marked0(n)' <=> Marked0(n)
  BY DEF Marked0
<1>3. \A j \in DOMAIN inst : inst'[j].name = inst[j].name /\ (AtWork(inst'[j]) <=> AtWork(inst[j]))
  BY <1>1
<1>4. ASSUME NEW n \in Name, Marked0(n)'
      PROVE  \E j \in DOMAIN inst' : inst'[j].name = n /\ AtWork(inst'[j])
  BY <1>1, <1>2, <1>3, <1>4 DEF MarksOK
<1>5. ASSUME NEW j \in DOMAIN inst'
      PROVE  (/\ AtWork(inst[j]) /\ Marked0(inst[j].name) => inst[j].asked
              /\ inst[j].log # "read" => inst[j].stopped
              /\ inst[j].exit => inst[j].asked \/ inst[j].name \in astray)'
  <2>1. CASE j # i
    BY <1>1, <2>1 DEF MarksOK, Marked0, AtWork
  <2>2. CASE j = i
    BY <1>1, <2>2 DEF MarksOK, Marked0
  <2> QED
    BY <2>1, <2>2
<1> QED
  BY <1>4, <1>5 DEF MarksOK

\* Waking up a stopping thread leaves everything else.
LEMMA NotifiedFields ==
    ASSUME NEW I \in Seq(Server)
    PROVE  /\ DOMAIN Notified(I) = DOMAIN I
           /\ \A i \in DOMAIN I :
                 /\ Notified(I)[i].name = I[i].name /\ Notified(I)[i].log = I[i].log
                 /\ Notified(I)[i].asked = I[i].asked /\ Notified(I)[i].exit = I[i].exit
                 /\ Notified(I)[i].stopped = I[i].stopped
  BY DEF Notified, Server, Instance

\* The managing thread takes the mark of its model away, with the instance it was meant for.
LEMMA MarksErased ==
    ASSUME MarksOK, InstOK, NEW i \in DOMAIN inst, Mon_Erase(i)
    PROVE  MarksOK'
<1> DEFINE x == [inst[i] EXCEPT !.log = "join"]
           J == [inst EXCEPT ![i] = x]
           n == inst[i].name
<1>1. inst[i] \in Server /\ inst[i].log = "erase"
  BY DEF InstOK, Mon_Erase
<1>2. x \in Server /\ J \in Seq(Server) /\ DOMAIN J = DOMAIN inst
  <2>1. x \in Server
    BY <1>1 DEF Server, Instance
  <2> HIDE DEF x
  <2> QED
    BY <2>1 DEF InstOK
<1>3. /\ x.name = inst[i].name /\ x.log = "join" /\ x.asked = inst[i].asked
      /\ x.exit = inst[i].exit /\ x.stopped = inst[i].stopped
  BY <1>1 DEF Server, Instance
<1>4. inst' = Notified(J) /\ stopping_models' = stopping_models \ {n} /\ UNCHANGED astray
  BY DEF Mon_Erase
<1> HIDE DEF x
<1>5. /\ DOMAIN inst' = DOMAIN inst
      /\ \A j \in DOMAIN inst : /\ inst'[j].name = inst[j].name /\ inst'[j].asked = inst[j].asked
                                /\ inst'[j].exit = inst[j].exit /\ inst'[j].stopped = inst[j].stopped
                                /\ j # i => inst'[j].log = inst[j].log
      /\ inst'[i].log = "join"
  <2>1. \A j \in DOMAIN inst : j # i => J[j] = inst[j]
    BY DEF InstOK
  <2>2. J[i] = x
    BY DEF InstOK
  <2> HIDE DEF J
  <2> QED
    BY <1>2, <1>3, <1>4, <2>1, <2>2, NotifiedFields
<1>6. ASSUME NEW m \in Name, Marked0(m)'
      PROVE  \E j \in DOMAIN inst' : inst'[j].name = m /\ AtWork(inst'[j])
  <2>1. m # n /\ Marked0(m)
    BY <1>4, <1>6 DEF Marked0
  <2>2. PICK j \in DOMAIN inst : inst[j].name = m /\ AtWork(inst[j])
    BY <2>1 DEF MarksOK
  <2> QED
    BY <1>5, <2>1, <2>2 DEF AtWork
<1>7. ASSUME NEW j \in DOMAIN inst'
      PROVE  (/\ AtWork(inst[j]) /\ Marked0(inst[j].name) => inst[j].asked
              /\ inst[j].log # "read" => inst[j].stopped
              /\ inst[j].exit => inst[j].asked \/ inst[j].name \in astray)'
  <2>1. CASE j # i
    BY <1>4, <1>5, <2>1, ZenonT(40) DEF MarksOK, Marked0, AtWork
  <2>2. CASE j = i
    BY <1>1, <1>4, <1>5, <2>2 DEF MarksOK, AtWork
  <2> QED
    BY <2>1, <2>2
<1> QED
  BY <1>6, <1>7 DEF MarksOK

\* What the managing and stopping threads do to one instance, but for the erasing.
LEMMA ThreadsKeepMarks ==
    ASSUME MarksOK, Core, NEW i \in DOMAIN inst, Managing(i) \/ Stopping(i)
    PROVE  MarksOK'
<1>1. inst[i] \in Server /\ InstOK
  BY DEF Core, InstOK
<1>2. ~Log_RequestExit(i)
  BY <1>1 DEF Log_RequestExit, Server
<1>3. ~Log_Downloaded(i)
  <2> SUFFICES ASSUME inst[i].pipe # <<>>, Head(inst[i].pipe) = "finished" PROVE FALSE
    BY DEF Log_Downloaded
  <2>1. inst[i].pipe \in Seq({"loading", "ready", "sleeping", "finished"})
    BY <1>1 DEF Server, Instance
  <2>2. 1 \in DOMAIN inst[i].pipe /\ Head(inst[i].pipe) = inst[i].pipe[1]
    BY <2>1
  <2> QED
    BY <1>1, <2>2 DEF Server
<1>4. CASE Log_State(i)
  <2> DEFINE x == [inst[i] EXCEPT !.pipe = Tail(@)]
  <2>1. inst' = [inst EXCEPT ![i] = x] /\ UNCHANGED <<stopping_models, astray>>
    BY <1>4 DEF Log_State
  <2>2. /\ x.name = inst[i].name /\ x.log = inst[i].log /\ x.asked = inst[i].asked
        /\ x.exit = inst[i].exit /\ x.stopped = inst[i].stopped
    BY <1>1 DEF Server, Instance
  <2> HIDE DEF x
  <2>3. Gentle(inst, inst')
    BY <1>1, <2>1, <2>2, GentleOne
  <2> QED
    BY <2>1, <2>3, MarksKept
<1>5. CASE Mon_Eof(i)
  <2> DEFINE x == [inst[i] EXCEPT !.stopped = TRUE, !.log = "erase"]
  <2>1. inst' = [inst EXCEPT ![i] = x] /\ UNCHANGED <<stopping_models, astray>> /\ inst[i].log = "read"
    BY <1>5 DEF Mon_Eof
  <2>2. /\ x.name = inst[i].name /\ x.log = "erase" /\ x.asked = inst[i].asked
        /\ x.exit = inst[i].exit /\ x.stopped
    BY <1>1 DEF Server, Instance
  <2> HIDE DEF x
  <2>3. x.exit => x.asked \/ x.name \in astray
    BY <2>2 DEF MarksOK
  <2>4. AtWork(x) <=> AtWork(inst[i])
    BY <2>1, <2>2 DEF AtWork
  <2> QED
    BY <1>1, <2>1, <2>2, <2>3, <2>4, MarksOne
<1>6. CASE Mon_Erase(i)
  BY <1>1, <1>6, MarksErased
<1>7. CASE Mon_Join(i) \/ Mon_Status(i)
  <2> PICK l \in {"status", "done"} : inst' = [inst EXCEPT ![i].log = l]
    BY <1>7 DEF Mon_Join, Mon_Status
  <2> DEFINE x == [inst[i] EXCEPT !.log = l]
  <2>1. inst' = [inst EXCEPT ![i] = x]
    OBVIOUS
  <2>2. UNCHANGED <<stopping_models, astray>> /\ inst[i].log \in {"join", "status"}
    BY <1>7 DEF Mon_Join, Mon_Status
  <2>3. /\ x.name = inst[i].name /\ x.log = l /\ x.asked = inst[i].asked
        /\ x.exit = inst[i].exit /\ x.stopped = inst[i].stopped
    BY <1>1 DEF Server, Instance
  <2> HIDE DEF x
  <2>4. (x.exit => x.asked \/ x.name \in astray) /\ x.stopped
    BY <2>2, <2>3 DEF MarksOK
  <2>5. AtWork(x) <=> AtWork(inst[i])
    BY <2>2, <2>3 DEF AtWork
  <2> QED
    BY <1>1, <2>1, <2>2, <2>3, <2>4, <2>5, MarksOne
<1>8. CASE Stopping(i)
  <2>1. UNCHANGED <<stopping_models, astray>>
    BY <1>8 DEF Stopping, Stop_Check, Stop_Ended, Stop_Timeout
  <2>2. \E x : /\ inst' = [inst EXCEPT ![i] = x]
               /\ x.name = inst[i].name /\ x.log = inst[i].log /\ x.asked = inst[i].asked
               /\ x.stopped = inst[i].stopped
               /\ x.exit => inst[i].exit \/ (IsStopping(i) /\ ~inst[i].stopped)
    <3>1. CASE Stop_Check(i)
      <4> PICK s : inst' = [inst EXCEPT ![i].stopper = s,
                                        ![i].exit = @ \/ (IsStopping(i) /\ ~inst[i].stopped)]
        BY <3>1 DEF Stop_Check
      <4> DEFINE x == [inst[i] EXCEPT !.stopper = s,
                                      !.exit = @ \/ (IsStopping(i) /\ ~inst[i].stopped)]
      <4>1. inst' = [inst EXCEPT ![i] = x]
        OBVIOUS
      <4>2. /\ x.name = inst[i].name /\ x.log = inst[i].log /\ x.asked = inst[i].asked
            /\ x.stopped = inst[i].stopped
            /\ x.exit = (inst[i].exit \/ (IsStopping(i) /\ ~inst[i].stopped))
        BY <1>1 DEF Server, Instance
      <4> HIDE DEF x
      <4> QED
        BY <4>1, <4>2
    <3>2. CASE Stop_Ended(i)
      <4> DEFINE x == [inst[i] EXCEPT !.stopper = "done"]
      <4>1. inst' = [inst EXCEPT ![i] = x]
        BY <3>2 DEF Stop_Ended
      <4>2. /\ x.name = inst[i].name /\ x.log = inst[i].log /\ x.asked = inst[i].asked
            /\ x.stopped = inst[i].stopped /\ x.exit = inst[i].exit
        BY <1>1 DEF Server, Instance
      <4> HIDE DEF x
      <4> QED
        BY <4>1, <4>2
    <3>3. CASE Stop_Timeout(i)
      <4> DEFINE x == [Killed(inst[i]) EXCEPT !.stopper = "done"]
      <4>1. inst' = [inst EXCEPT ![i] = x]
        BY <3>3 DEF Stop_Timeout
      <4>2. /\ x.name = inst[i].name /\ x.log = inst[i].log /\ x.asked = inst[i].asked
            /\ x.stopped = inst[i].stopped /\ x.exit = inst[i].exit
        BY <1>1 DEF Server, Instance, Killed
      <4> HIDE DEF x
      <4> QED
        BY <4>1, <4>2
    <3> QED
      BY <1>8, <3>1, <3>2, <3>3 DEF Stopping
  <2>3. PICK x : /\ inst' = [inst EXCEPT ![i] = x]
                 /\ x.name = inst[i].name /\ x.log = inst[i].log /\ x.asked = inst[i].asked
                 /\ x.stopped = inst[i].stopped
                 /\ x.exit => inst[i].exit \/ (IsStopping(i) /\ ~inst[i].stopped)
    BY <2>2
  <2>4. inst[i].log # "read" => inst[i].stopped
    BY DEF MarksOK
  <2>5. x.exit => x.asked \/ x.name \in astray
    <3>1. CASE inst[i].exit
      BY <2>3, <3>1 DEF MarksOK
    <3>2. CASE IsStopping(i) /\ ~inst[i].stopped
      <4>1. AtWork(inst[i])
        BY <2>4, <3>2 DEF AtWork
      <4>2. inst[i].name \in astray \/ Marked0(inst[i].name)
        BY <3>2 DEF IsStopping, Marked0
      <4> QED
        BY <2>3, <4>1, <4>2 DEF MarksOK
    <3> QED
      BY <2>3, <3>1, <3>2
  <2>6. AtWork(x) <=> AtWork(inst[i])
    BY <2>3 DEF AtWork
  <2> QED
    BY <1>1, <2>1, <2>3, <2>4, <2>5, <2>6, MarksOne
<1> QED
  BY <1>2, <1>3, <1>4, <1>5, <1>6, <1>7, <1>8 DEF Managing

-----------------------------------------------------------------------------
(* Marks that are added                                                    *)

\* Models that run are marked, and their instances asked to end.  The mark of an instance
\* whose managing thread has taken its mark away already is astray.
LEMMA MarksAdded ==
    ASSUME MarksOK, Core, Gentle(inst, inst'), NEW N, N \subseteq Active,
           stopping_models' = stopping_models \cup N,
           astray' = astray \cup {n \in N : ~AtWork(inst[mapping[n].inst])},
           \A n \in N : inst'[mapping[n].inst].asked
    PROVE  MarksOK'
<1>1. DOMAIN inst' = DOMAIN inst
  BY DEF Gentle
<1>2. \A i \in DOMAIN inst : /\ inst'[i].name = inst[i].name /\ inst'[i].log = inst[i].log
                             /\ inst[i].asked => inst'[i].asked
                             /\ inst'[i].exit => inst[i].exit
                             /\ inst[i].stopped => inst'[i].stopped
                             /\ AtWork(inst'[i]) <=> AtWork(inst[i])
  BY DEF Gentle, AtWork
<1>3. \A n \in N : mapping[n].inst \in DOMAIN inst /\ inst[mapping[n].inst].name = n
  BY DEF Core, MapOK, InstOK, ServerEntry, OwnOK, RunOK, Active
<1>4. ASSUME NEW n \in Name, Marked0(n)'
      PROVE  \E i \in DOMAIN inst' : inst'[i].name = n /\ AtWork(inst'[i])
  <2>1. CASE n \in N
    <3>1. AtWork(inst[mapping[n].inst])
      BY <1>4, <2>1 DEF Marked0
    <3> QED
      BY <1>1, <1>2, <1>3, <2>1, <3>1
  <2>2. CASE n \notin N
    <3>1. Marked0(n)
      BY <1>4, <2>2 DEF Marked0
    <3> QED
      BY <1>1, <1>2, <3>1 DEF MarksOK
  <2> QED
    BY <2>1, <2>2
<1>5. ASSUME NEW i \in DOMAIN inst'
      PROVE  (/\ AtWork(inst[i]) /\ Marked0(inst[i].name) => inst[i].asked
              /\ inst[i].log # "read" => inst[i].stopped
              /\ inst[i].exit => inst[i].asked \/ inst[i].name \in astray)'
  <2>1. i \in DOMAIN inst
    BY <1>1
  <2>2. inst'[i].log # "read" => inst'[i].stopped
    BY <1>2, <2>1 DEF MarksOK
  <2>3. inst'[i].exit => inst'[i].asked \/ inst'[i].name \in astray'
    BY <1>2, <2>1 DEF MarksOK
  <2>4. ASSUME AtWork(inst'[i]), inst'[i].name \in stopping_models' \ astray'
        PROVE  inst'[i].asked
    <3>1. AtWork(inst[i]) /\ inst[i].name \in Active /\ mapping[inst[i].name].inst = i
      BY <1>2, <2>1, <2>4 DEF AtWork, Core, ListOK
    <3>2. CASE inst[i].name \in N
      BY <3>1, <3>2
    <3>3. CASE inst[i].name \notin N
      <4>1. Marked0(inst[i].name)
        BY <1>2, <2>1, <2>4, <3>3 DEF Marked0
      <4> QED
        BY <1>2, <2>1, <3>1, <4>1 DEF MarksOK
    <3> QED
      BY <3>2, <3>3
  <2> QED
    BY <2>2, <2>3, <2>4 DEF Marked0
<1> QED
  BY <1>4, <1>5 DEF MarksOK

\* unload(), of any name.
LEMMA UnloadKeepsMarks ==
    ASSUME MarksOK, Core, NEW n, UnloadEffect(n)
    PROVE  /\ MarksOK'
           /\ stopping_models' \in {stopping_models, stopping_models \cup {n}}
           /\ astray' \in {astray, astray \cup {n}}
           /\ stopping_models' # stopping_models \/ astray' # astray => n \in Active
<1>1. ~(n \in DOMAIN mapping /\ mapping[n].status = "DOWNLOADING")
  BY DEF Core, MapOK, ServerEntry
<1>2. CASE ~IsRunning(n)
  <2>1. UNCHANGED <<inst, stopping_models, astray>>
    BY <1>1, <1>2 DEF UnloadEffect
  <2>2. Gentle(inst, inst')
    BY <2>1 DEF Gentle
  <2> QED
    BY <2>1, <2>2, MarksKept
<1>3. CASE IsRunning(n)
  <2> DEFINE i == mapping[n].inst
             K == KilledIfLoading(n, inst)
             J == Notified(K)
  <2>1. n \in Active /\ i \in DOMAIN inst /\ i # 0 /\ inst \in Seq(Server) /\ inst[i] \in Server
        /\ inst[i].log # "done"
    BY <1>3 DEF IsRunning, Core, MapOK, InstOK, ServerEntry, RunOK, Active
  <2>2. /\ stopping_models' = stopping_models \cup {n} /\ astray' = LateMark(n)
        /\ inst' = [J EXCEPT ![i].asked = TRUE]
    BY <1>1, <1>3, <2>1 DEF UnloadEffect, Marked
  <2>3. K \in Seq(Server) /\ Gentle(inst, K) /\ i \in DOMAIN K
    <3>1. Killed(inst[i]) \in Server
      BY <2>1, KilledIsServer
    <3>2. [inst EXCEPT ![i] = Killed(@)] \in Seq(Server)
      BY <2>1, <3>1
    <3>3. K = inst \/ K = [inst EXCEPT ![i] = Killed(@)]
      BY DEF KilledIfLoading
    <3> HIDE DEF K
    <3>4. K \in Seq(Server) /\ Gentle(inst, K)
      BY <2>1, <3>2, <3>3, GentleSteps
    <3> QED
      BY <2>1, <3>4 DEF Gentle
  <2> HIDE DEF K
  <2>4. J \in Seq(Server) /\ Gentle(K, J)
    BY <2>3, GentleSteps, NotifiedIsMilder DEF Milder
  <2>5. i \in DOMAIN J /\ J[i] \in Server
    BY <2>3, <2>4 DEF Gentle
  <2> HIDE DEF J
  <2>6. Gentle(J, inst') /\ inst'[i].asked
    <3> DEFINE x == [J[i] EXCEPT !.asked = TRUE]
    <3>1. inst' = [J EXCEPT ![i] = x]
      BY <2>2
    <3>2. /\ x.name = J[i].name /\ x.log = J[i].log /\ x.asked = TRUE
          /\ x.exit = J[i].exit /\ x.stopped = J[i].stopped
      BY <2>5 DEF Server, Instance
    <3> HIDE DEF x
    <3> QED
      BY <2>4, <2>5, <3>1, <3>2 DEF Gentle
  <2>7. Gentle(inst, inst')
    BY <2>3, <2>4, <2>6 DEF Gentle
  <2>8. astray' = astray \cup {m \in {n} : ~AtWork(inst[mapping[m].inst])}
    <3>1. inst[i].log \in {"read", "erase", "join", "status"}
      BY <2>1 DEF Server, Instance
    <3>2. AtWork(inst[i]) <=> inst[i].log \notin {"join", "status", "done"}
      BY <3>1 DEF AtWork
    <3>3. CASE AtWork(inst[i])
      BY <2>1, <2>2, <3>2, <3>3 DEF LateMark
    <3>4. CASE ~AtWork(inst[i])
      BY <2>1, <2>2, <3>2, <3>4 DEF LateMark
    <3> QED
      BY <3>3, <3>4
  <2>9. MarksOK'
    <3> DEFINE N == {n}
    <3>1. N \subseteq Active /\ stopping_models' = stopping_models \cup N
          /\ astray' = astray \cup {m \in N : ~AtWork(inst[mapping[m].inst])}
          /\ \A m \in N : inst'[mapping[m].inst].asked
      BY <2>1, <2>2, <2>6, <2>8
    <3> HIDE DEF N
    <3> QED
      BY <2>7, <3>1, MarksAdded
  <2>10. astray' \in {astray, astray \cup {n}}
    BY <2>2 DEF LateMark
  <2> QED
    BY <2>1, <2>2, <2>9, <2>10
<1> QED
  BY <1>2, <1>3

\* unload_all(), at the end: every instance that is managed is one of those marked.
LEMMA UnloadAllKeepsMarks ==
    ASSUME MarksOK, Core, UnloadAll
    PROVE  MarksOK' /\ stopping_models' \subseteq stopping_models \cup Active
           /\ astray' \subseteq astray \cup Active
<1> DEFINE A == {mapping[n].inst : n \in Active}
           S == {mapping[n].inst : n \in {m \in DOMAIN mapping : mapping[m].status = "DOWNLOADING"}}
           I == IF Active = {} THEN inst ELSE Notified(inst)
<1>1. stopping_models' = stopping_models \cup Active
  BY DEF UnloadAll
<1>2. inst' = [i \in DOMAIN inst |-> [I[i] EXCEPT !.asked = @ \/ i \in A, !.stopped = @ \/ i \in S]]
  BY DEF UnloadAll
<1>3. inst \in Seq(Server)
  BY DEF Core, InstOK
<1>4. I \in Seq(Server) /\ Gentle(inst, I) /\ DOMAIN I = DOMAIN inst
  BY <1>3, GentleSteps, NotifiedIsMilder DEF Milder, Gentle
<1> HIDE DEF A, S, I
<1>5. ASSUME NEW i \in DOMAIN inst
      PROVE  /\ inst'[i].name = I[i].name /\ inst'[i].log = I[i].log
             /\ inst'[i].exit = I[i].exit
             /\ I[i].stopped => inst'[i].stopped
             /\ inst'[i].asked = (I[i].asked \/ i \in A)
  <2>1. I[i] \in Server
    BY <1>4
  <2>2. inst'[i] = [I[i] EXCEPT !.asked = @ \/ i \in A, !.stopped = @ \/ i \in S]
    BY <1>2
  <2> QED
    BY <2>1, <2>2 DEF Server, Instance
<1>6. Gentle(inst, inst')
  <2>1. DOMAIN inst' = DOMAIN inst
    BY <1>2
  <2> QED
    BY ONLY <1>4, <1>5, <2>1 DEF Gentle
<1>7. \A n \in Active : mapping[n].inst \in DOMAIN inst /\ mapping[n].inst # 0
                        /\ inst[mapping[n].inst] \in Server /\ inst[mapping[n].inst].log # "done"
  BY <1>3 DEF Core, MapOK, InstOK, ServerEntry, RunOK, Active
<1>8. \A n \in Active : inst'[mapping[n].inst].asked
  BY <1>5, <1>7 DEF A
<1>9. \A n \in Active : LateMark(n) = IF AtWork(inst[mapping[n].inst]) THEN astray ELSE astray \cup {n}
  <2> TAKE n \in Active
  <2>1. inst[mapping[n].inst].log \in {"read", "erase", "join", "status"}
    BY <1>7 DEF Server, Instance
  <2> QED
    BY <1>7, <2>1 DEF LateMark, AtWork
<1>10. astray' = astray \cup {n \in Active : ~AtWork(inst[mapping[n].inst])}
  <2>1. astray' = astray \cup UNION {LateMark(n) : n \in Active}
    BY DEF UnloadAll
  <2> QED
    BY <1>9, <2>1
<1>11. MarksOK'
  BY <1>1, <1>6, <1>8, <1>10, MarksAdded
<1> QED
  BY <1>1, <1>10, <1>11

\* A server that is spawned finds no mark on its name: the model was unloaded.
LEMMA SpawnKeepsMarks ==
    ASSUME MarksOK, Core, NEW I \in Seq(Server), Gentle(inst, I), Len(I) = Len(inst),
           NEW n \in Name, n \notin Active, inst' = Append(I, NewInstance(n, "normal")),
           UNCHANGED <<stopping_models, astray>>
    PROVE  MarksOK'
<1> DEFINE x == NewInstance(n, "normal")
<1>1. x.name = n /\ x.log = "read" /\ x.exit = FALSE /\ AtWork(x)
  BY DEF NewInstance, AtWork
<1> HIDE DEF x
<1>2. inst \in Seq(Server)
  BY DEF Core, InstOK
<1>3. /\ DOMAIN inst' = DOMAIN inst \cup {Len(inst) + 1}
      /\ inst'[Len(inst) + 1] = x /\ \A i \in DOMAIN inst : inst'[i] = I[i]
  BY <1>2 DEF x
<1>4. \A i \in DOMAIN inst : /\ inst'[i].name = inst[i].name /\ inst'[i].log = inst[i].log
                             /\ inst[i].asked => inst'[i].asked
                             /\ inst'[i].exit => inst[i].exit
                             /\ inst[i].stopped => inst'[i].stopped
                             /\ AtWork(inst'[i]) <=> AtWork(inst[i])
  BY <1>3 DEF Gentle, AtWork
<1>5. \A m : Marked0(m)' <=> Marked0(m)
  BY DEF Marked0
<1>6. ~Marked0(n)
  <2> SUFFICES ASSUME Marked0(n) PROVE FALSE
    OBVIOUS
  <2>1. PICK i \in DOMAIN inst : inst[i].name = n /\ AtWork(inst[i])
    BY DEF MarksOK
  <2> QED
    BY <2>1 DEF AtWork, Core, ListOK
<1>7. ASSUME NEW m \in Name, Marked0(m)'
      PROVE  \E i \in DOMAIN inst' : inst'[i].name = m /\ AtWork(inst'[i])
  <2>1. PICK i \in DOMAIN inst : inst[i].name = m /\ AtWork(inst[i])
    BY <1>5, <1>7 DEF MarksOK
  <2> QED
    BY <1>3, <1>4, <2>1
<1>8. ASSUME NEW i \in DOMAIN inst'
      PROVE  (/\ AtWork(inst[i]) /\ Marked0(inst[i].name) => inst[i].asked
              /\ inst[i].log # "read" => inst[i].stopped
              /\ inst[i].exit => inst[i].asked \/ inst[i].name \in astray)'
  <2>1. CASE i \in DOMAIN inst
    BY <1>4, <2>1 DEF MarksOK, Marked0
  <2>2. CASE i = Len(inst) + 1
    BY <1>1, <1>3, <1>6, <2>2 DEF Marked0
  <2> QED
    BY <1>3, <2>1, <2>2
<1> QED
  BY <1>7, <1>8 DEF MarksOK

-----------------------------------------------------------------------------
(* Every step                                                              *)

\* A model that is used is put at the end of the order of use.
LEMMA UsedIsOrder == ASSUME used \in Seq(Name), NEW n \in Name PROVE Used(n) \in Seq(Name)
<1>1. CASE n \in ToSet(used)
  <2>1. LastUse(n) \in 1 .. Len(used)
    <3>1. \E k \in DOMAIN used : used[k] = n
      BY <1>1 DEF ToSet
    <3> QED
      BY <1>1, <3>1 DEF LastUse
  <2> DEFINE k == LastUse(n)
  <2> HIDE DEF k
  <2>2. RemoveAt(used, k) \in Seq(Name)
    BY <2>1 DEF RemoveAt, k
  <2> QED
    BY <1>1, <2>2 DEF Used, k
<1>2. CASE n \notin ToSet(used)
  BY <1>2 DEF Used
<1> QED
  BY <1>1, <1>2

\* Steps that leave the instances and the marks alone.
LEMMA QuietKeepsMarks ==
    ASSUME MarksOK, UNCHANGED <<inst, stopping_models, astray>>
    PROVE  MarksOK'
<1>1. Gentle(inst, inst')
  BY DEF Gentle
<1> QED
  BY <1>1, MarksKept

\* Handlers that look, or work on the entries only.
LEMMA LooksKeepMarks ==
    ASSUME MarksInv, NEW c \in Client,
           \/ Lookup_Reload(c) \/ Request_Ensure(c) \/ Request_Await(c) \/ Request_Proxy(c)
           \/ Load_Begin(c) \/ Download_Begin(c) \/ Load_Find(c) \/ Unload_Begin(c) \/ Unload_Wait(c)
           \/ Reload_Begin(c) \/ Reload_Read(c) \/ Reload_Join(c) \/ List(c)
    PROVE  MarksOK' /\ RestOK'
<1>1. UNCHANGED <<instanceVars, is_reloading, used, main, aborted>>
  BY DEF Lookup_Reload, Request_Ensure, Request_Await, Request_Proxy, Load_Begin, Download_Begin,
         Load_Find, Unload_Begin, Unload_Wait, Reload_Begin, Reload_Read, Reload_Join, List
<1>2. UNCHANGED <<inst, stopping_models, astray, need_reload, incidents, is_reloading, used, main, aborted>>
  BY <1>1 DEF instanceVars
<1> QED
  BY <1>2, QuietKeepsMarks DEF MarksInv, RestOK

\* Handlers that change entries, the order of use or the reloading.
LEMMA EntriesKeepMarks ==
    ASSUME MarksInv, NEW c \in Client,
           \/ Request_Touch(c) \/ Load_Evicted(c) \/ Load_Refuse(c) \/ Load_Join(c)
           \/ Remove_Wait(c) \/ Remove_Join(c) \/ Reload_Start(c) \/ Reload_Collect(c)
           \/ Reload_Finish(c) \/ Edit(c)
    PROVE  MarksOK' /\ RestOK'
<1> USE DEF MarksInv
<1>1. UNCHANGED <<inst, stopping_models, astray, main>>
  BY DEF Request_Touch, Load_Evicted, Load_Refuse, Load_Join, Remove_Wait, Remove_Join,
         Reload_Start, Reload_Collect, Reload_Finish, Edit
<1>2. MarksOK'
  BY <1>1, QuietKeepsMarks
<1>3. ~Load_Join(c)
  BY HandlerIsGood DEF RouterInv, Load_Join, At, GoodHandler
<1>4. CASE Request_Touch(c)
  <2>1. HandlersOK /\ Named(th[c])
    BY <1>4 DEF RouterInv, Request_Touch, At, Named, NamedPC
  <2>2. Target(c) \in Name
    BY <2>1, NamedHandler
  <2>3. used' = Used(Target(c)) /\ used \in Seq(Name)
    BY <1>4 DEF Request_Touch, RestOK
  <2>4. used' \in Seq(Name)
    BY <2>2, <2>3, UsedIsOrder
  <2> QED
    BY <1>2, <1>4, <2>4 DEF RestOK, Request_Touch
<1>5. CASE Load_Refuse(c)
  <2>1. /\ UNCHANGED <<need_reload, is_reloading, used, aborted>>
        /\ incidents' = incidents \/ (incidents < MaxIncidents /\ incidents' = incidents + 1)
    BY <1>5 DEF Load_Refuse
  <2> QED
    BY <1>1, <1>2, <2>1, RouterAssumption DEF RestOK
<1>6. CASE \/ Load_Evicted(c) \/ Remove_Wait(c) \/ Remove_Join(c) \/ Reload_Start(c)
           \/ Reload_Collect(c) \/ Reload_Finish(c) \/ Edit(c)
  <2>1. /\ UNCHANGED <<incidents, used>>
        /\ need_reload' \in {need_reload, FALSE}
        /\ is_reloading' \in {is_reloading, TRUE, FALSE}
        /\ aborted' \in {aborted, TRUE}
    BY <1>6 DEF Load_Evicted, Remove_Wait, Remove_Join, Reload_Start, Reload_Collect, Reload_Finish, Edit
  <2> QED
    BY <1>1, <1>2, <2>1 DEF RestOK
<1> QED
  BY <1>3, <1>4, <1>5, <1>6

\* Handlers that unload a model: to make room, on request, to delete it or to reload it.
LEMMA UnloadsKeepMarks ==
    ASSUME MarksInv, NEW c \in Client,
           Load_Evict(c) \/ Unload(c) \/ Remove_Begin(c) \/ Reload_Unload(c)
    PROVE  MarksOK' /\ RestOK'
<1> USE DEF MarksInv
<1>1. UNCHANGED <<need_reload, incidents, is_reloading, used, main, aborted>>
  BY DEF Load_Evict, Unload, Remove_Begin, Reload_Unload
<1>2. CASE UNCHANGED <<inst, stopping_models, astray>>
  BY <1>1, <1>2, QuietKeepsMarks DEF RestOK
<1>3. CASE \E n : UnloadEffect(n)
  <2>1. PICK n : UnloadEffect(n)
    BY <1>3
  <2>2. /\ MarksOK'
        /\ stopping_models' \in {stopping_models, stopping_models \cup {n}}
        /\ astray' \in {astray, astray \cup {n}}
        /\ stopping_models' # stopping_models \/ astray' # astray => n \in Active
    BY <2>1, UnloadKeepsMarks DEF RouterInv
  <2>3. Active \subseteq Name
    BY DEF RouterInv, Core, MapOK, Active
  <2>4. stopping_models' \subseteq Name /\ astray' \subseteq Name
    BY <2>2, <2>3 DEF RestOK
  <2> QED
    BY <1>1, <2>2, <2>4 DEF RestOK
<1> QED
  BY <1>2, <1>3 DEF Load_Evict, Unload, Remove_Begin, Reload_Unload

\* load(), when it spawns.
LEMMA LoadKeepsMarks ==
    ASSUME MarksInv, NEW c \in Client, Load_Spawn(c)
    PROVE  MarksOK' /\ RestOK'
<1> DEFINE n == Target(c)
           m == At0(mapping, n)
           old == m[n]
           I == IF old.inst = 0 THEN inst ELSE [inst EXCEPT ![old.inst] = Killed(@)]
<1> USE DEF MarksInv
<1>1. HandlersOK /\ Named(th[c]) /\ Core
  BY DEF RouterInv, Load_Spawn, At, Named, NamedPC
<1>2. n \in Name /\ ~Op(c, "download")
  <2>1. Serving(c) /\ Target(c) \in Name
    BY <1>1, NamedHandler
  <2> QED
    BY <1>1, <2>1, RequestOfHandler DEF Op
<1>3. inst' = Append(I, NewInstance(n, "normal")) /\ old.status = "UNLOADED"
  BY <1>2 DEF Load_Spawn
<1>4. n \notin Active
  <2> SUFFICES ASSUME n \in DOMAIN mapping PROVE ~Running(mapping[n])
    BY DEF Active
  <2>1. old = mapping[n]
    BY DEF At0, Adding
  <2> QED
    BY <1>3, <2>1 DEF Running
<1>5. old.inst = 0 \/ old.inst \in DOMAIN inst
  <2>1. CASE n \in DOMAIN mapping
    <3>1. old = mapping[n]
      BY <2>1 DEF At0, Adding
    <3> QED
      BY <1>1, <2>1, <3>1 DEF Core, MapOK, InstOK, ServerEntry
  <2>2. CASE n \notin DOMAIN mapping
    <3>1. old = NewEntry(0)
      BY <2>2 DEF At0, Adding
    <3> QED
      BY <3>1 DEF NewEntry
  <2> QED
    BY <2>1, <2>2
<1>6. UNCHANGED <<stopping_models, astray, need_reload, incidents, is_reloading, main, aborted>>
      /\ used' \in {used, Used(n)}
  BY DEF Load_Spawn
<1>7. inst \in Seq(Server)
  BY <1>1 DEF Core, InstOK
<1> HIDE DEF n, m, old
<1>8. I \in Seq(Server) /\ Gentle(inst, I) /\ Len(I) = Len(inst)
  <2>1. CASE old.inst = 0
    BY <1>7, <2>1, GentleSteps
  <2>2. CASE old.inst # 0
    <3>1. old.inst \in DOMAIN inst /\ I = [inst EXCEPT ![old.inst] = Killed(@)]
      BY <1>5, <2>2
    <3>2. Killed(inst[old.inst]) \in Server
      BY <1>7, <3>1, KilledIsServer
    <3>3. Gentle(inst, I)
      BY <1>7, <3>1, GentleSteps
    <3>4. I \in Seq(Server) /\ Len(I) = Len(inst)
      BY <1>7, <3>1, <3>2
    <3> QED
      BY <3>3, <3>4
  <2> QED
    BY <2>1, <2>2
<1> HIDE DEF I
<1>9. MarksOK'
  BY <1>1, <1>2, <1>3, <1>4, <1>6, <1>8, SpawnKeepsMarks
<1>10. used' \in Seq(Name)
  BY <1>2, <1>6, UsedIsOrder DEF RestOK
<1> QED
  BY <1>6, <1>9, <1>10 DEF RestOK

\* Steps of the instances, and of the end.
LEMMA ThreadsKeepAll ==
    ASSUME MarksInv, (\E i \in DOMAIN inst : Instances(i)) \/ UnloadAll \/ Exit
    PROVE  MarksOK' /\ RestOK'
<1> USE DEF MarksInv
<1>1. ASSUME NEW i \in DOMAIN inst, Child(i), UNCHANGED routerVars
      PROVE  MarksOK' /\ RestOK'
  BY <1>1, ChildIsGentle, MarksKept
<1>2. ASSUME NEW i \in DOMAIN inst, Managing(i) \/ Stopping(i), UNCHANGED routerVars
      PROVE  MarksOK' /\ RestOK'
  <2>1. MarksOK'
    BY <1>2, ThreadsKeepMarks DEF RouterInv
  <2>2. /\ need_reload' \in {need_reload, TRUE} /\ UNCHANGED incidents
        /\ stopping_models' \subseteq stopping_models
    BY <1>2 DEF Managing, Stopping, Log_State, Log_Downloaded, Log_RequestExit, Mon_Eof, Mon_Erase,
                Mon_Join, Mon_Status, Stop_Check, Stop_Ended, Stop_Timeout
  <2>3. UNCHANGED astray
    <3>1. inst[i].log # "request_exit"
      BY DEF RouterInv, Core, InstOK, Server
    <3> QED
      BY <1>2, <3>1 DEF Managing, Stopping, Log_State, Log_Downloaded, Log_RequestExit, Mon_Eof,
                 Mon_Erase, Mon_Join, Mon_Status, Stop_Check, Stop_Ended, Stop_Timeout
  <2> QED
    BY <1>2, <2>1, <2>2, <2>3 DEF RestOK, routerVars
<1>3. CASE UnloadAll
  <2>1. MarksOK' /\ stopping_models' \subseteq stopping_models \cup Active
        /\ astray' \subseteq astray \cup Active
    BY <1>3, UnloadAllKeepsMarks DEF RouterInv
  <2>2. Active \subseteq Name
    BY DEF RouterInv, Core, MapOK, Active
  <2>3. stopping_models' \subseteq Name /\ astray' \subseteq Name
    BY <2>1, <2>2 DEF RestOK
  <2> QED
    BY <1>3, <2>1, <2>3 DEF UnloadAll, RestOK
<1>4. CASE Exit
  <2>1. MarksOK'
    BY <1>4, QuietKeepsMarks DEF Exit, instanceVars
  <2> QED
    BY <1>4, <2>1 DEF Exit, instanceVars, RestOK
<1> QED
  BY <1>1, <1>2, <1>3, <1>4 DEF Instances

\* Every step keeps the invariant of the marks.
LEMMA MarksStep == ASSUME MarksInv, [Next]_vars PROVE MarksInv'
<1>1. RouterInv'
  BY StepKeeps DEF MarksInv
<1>2. CASE UNCHANGED vars
  <2>1. UNCHANGED <<inst, stopping_models, astray, need_reload, incidents, is_reloading, used, main, aborted>>
    BY <1>2 DEF vars, instanceVars, routerVars
  <2>2. MarksOK' /\ RestOK'
    BY <2>1, QuietKeepsMarks DEF MarksInv, RestOK
  <2> QED
    BY <1>1, <2>2 DEF MarksInv
<1>3. ASSUME NEW c \in Client, Handling(c) PROVE MarksOK' /\ RestOK'
  BY <1>3, LooksKeepMarks, EntriesKeepMarks, UnloadsKeepMarks, LoadKeepsMarks DEF Handling
<1>4. CASE Next
  <2>1. CASE Terminated
    BY <1>2, <2>1 DEF Terminated
  <2>2. CASE ~Terminated
    <3>1. MarksOK' /\ RestOK'
      BY <1>3, <1>4, <2>2, ThreadsKeepAll DEF Next
    <3> QED
      BY <1>1, <3>1 DEF MarksInv
  <2> QED
    BY <2>1, <2>2
<1> QED
  BY <1>2, <1>4

\* Without downloads every mark in stopping_models is taken away with the instance it was
\* meant for, and a server is only told to exit when somebody unloaded that very server,
\* unless the mark came when its managing thread had been there already.
THEOREM MarksCorrect == ASSUME NoDownloads PROVE Spec => []MarksMeanInstances
<1>1. Init => MarksInv
  <2> SUFFICES ASSUME Init PROVE MarksInv
    OBVIOUS
  <2>1. inst = <<>> /\ stopping_models = {} /\ astray = {}
    BY DEF Init
  <2>2. MarksOK
    BY <2>1 DEF MarksOK, Marked0
  <2>3. RestOK
    <3>1. used = <<>> /\ incidents = 0 /\ MaxIncidents \in Nat
      BY RouterAssumption DEF Init
    <3>2. used \in Seq(Name) /\ incidents \in 0 .. MaxIncidents
      BY <3>1
    <3> QED
      BY <2>1, <3>2 DEF Init, RestOK
  <2> QED
    BY <2>2, <2>3, InitHolds DEF MarksInv
<1>2. MarksInv /\ [Next]_vars => MarksInv'
  BY MarksStep
<1>3. MarksInv => MarksMeanInstances
  <2> SUFFICES ASSUME MarksInv PROVE MarksMeanInstances
    OBVIOUS
  <2> USE DEF MarksInv
  <2>1. inst \in Seq(Server) /\ inst \in Seq(Instance)
    BY DEF RouterInv, Core, InstOK, Server
  <2>2. MarksAreTaken
    <3> SUFFICES ASSUME NEW n \in stopping_models \ astray
                 PROVE  \E i \in DOMAIN inst : inst[i].name = n
                                              /\ inst[i].log \in {"read", "request_exit", "erase"}
      BY DEF MarksAreTaken
    <3>1. n \in Name /\ Marked0(n)
      BY DEF RestOK, Marked0
    <3> QED
      BY <3>1 DEF MarksOK, AtWork
  <2>3. ExitsAreAsked
    BY DEF MarksOK, ExitsAreAsked
  <2>4. TypeOK
    <3>1. DOMAIN mapping \subseteq Name /\ \A n \in DOMAIN mapping : mapping[n] \in Entry
      <4>1. \A n \in DOMAIN mapping : mapping[n] \in ServerEntry
                /\ mapping[n].inst <= Len(inst) /\ mapping[n].th <= Len(inst)
        BY DEF RouterInv, Core, MapOK
      <4>2. Len(inst) \in Nat
        BY <2>1
      <4>3. \A n \in DOMAIN mapping : mapping[n] \in Entry
        BY <4>1, <4>2 DEF ServerEntry, Entry, Status
      <4> QED
        BY <4>3 DEF RouterInv, Core, MapOK
    <3>2. th \in [Client -> Handler] /\ sources \in [Name -> Nat] /\ locked \in Client \cup {None}
      BY DEF RouterInv, HandlersOK, GoodHandler
    <3> QED
      BY <2>1, <3>1, <3>2 DEF TypeOK, RestOK
  <2> QED
    BY <2>2, <2>3, <2>4 DEF MarksMeanInstances
<1> QED
  BY <1>1, <1>2, <1>3, PTL DEF Spec

=============================================================================
