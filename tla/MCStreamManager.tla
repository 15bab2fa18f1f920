--------------------------- MODULE MCStreamManager ---------------------------
(* Instances of StreamManager for TLC: requests and readers of one            *)
(* conversation, with a buffer of two bytes.                                  *)
EXTENDS StreamManager

CONSTANTS c1, s1

OneConvOf   == [s \in Session |-> c1]
OneConvRead == [r \in Reader |-> c1]

\* One generation has chunks below, at and above the size of the buffer.
AllSizes == [s \in Session |-> IF s = s1 THEN {0, 1, 2, 3} ELSE {1}]
OneByte  == [s \in Session |-> {1}]

=============================================================================
