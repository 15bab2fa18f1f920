---------------------------- MODULE MCServerSleep ----------------------------
(* Instances of ServerSleep for TLC: three handlers, so that one can wake the *)
(* server, one can come while it wakes up, and one after it sleeps again.     *)
EXTENDS ServerSleep

=============================================================================
