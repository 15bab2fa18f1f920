--------------------------- MODULE MCPrefillWorker ---------------------------
(* Instances of PrefillWorker for TLC: three tasks, two of them long enough  *)
(* for a worker, which their clients may cancel.                             *)
EXTENDS PrefillWorker

CONSTANTS t1, t2, t3

AnySlot == [t \in Task |-> -1]

=============================================================================
