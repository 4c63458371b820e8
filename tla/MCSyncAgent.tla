----------------------------- MODULE MCSyncAgent ----------------------------
(* SyncAgent on two sockets: the current one and one abandoned before it.   *)
EXTENDS SyncAgent, TLC

Symmetric == Permutations(Socket)
=============================================================================
