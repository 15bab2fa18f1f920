---------------------------- MODULE MCServerTasks ----------------------------
(***************************************************************************)
(* Instances of ServerTasks for TLC: each scenario of the runs is a choice *)
(* of TasksOf, ChildTasks, Kind, IdSlot and BatchGroup below.              *)
(***************************************************************************)
EXTENDS ServerTasks

CONSTANTS r1, r2, r3, r4, t1, t2, t3, t4

NoChildren == [t \in Task |-> <<>>]
ParentT2   == [t \in Task |-> IF t = t2 THEN <<t3>> ELSE <<>>]

AnySlot    == [t \in Task |-> -1]
OneGroup   == [t \in Task |-> "base"]
TwoGroups  == [t \in Task |-> IF t = t1 THEN "lora" ELSE "base"]

Completions == [t \in Task |-> "completion"]

\* mix: a completion, a parent with one child, an action on slot 0.
MixTasks == (r1 :> <<t1>> @@ r2 :> <<t2>> @@ r3 :> <<t4>>)
MixKind  == [t \in Task |-> IF t = t4 THEN "slotop" ELSE "completion"]
MixIds   == [t \in Task |-> IF t = t4 THEN 0 ELSE -1]

\* slots: two completions that want slots by id (2 wraps around to slot 0), one that
\* takes any, and a query.
SlotTasks == (r1 :> <<t1>> @@ r2 :> <<t2>> @@ r3 :> <<t4>> @@ r4 :> <<t3>>)
SlotKind  == [t \in Task |-> IF t = t3 THEN "query" ELSE "completion"]
SlotIds   == [t \in Task |-> CASE t = t1 -> 0 [] t = t2 -> 2 [] OTHER -> -1]

\* erase: two completions on the only slot, and an action on it.
EraseTasks == (r1 :> <<t1>> @@ r2 :> <<t2>> @@ r3 :> <<t4>>)
EraseKind == [t \in Task |-> IF t = t2 THEN "slotop" ELSE "completion"]
EraseIds  == [t \in Task |-> IF t = t2 THEN 0 ELSE -1]

\* pair: two single completions.
PairTasks == (r1 :> <<t1>> @@ r2 :> <<t4>>)

=============================================================================
