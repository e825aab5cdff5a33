------------------------------ MODULE MCSession ------------------------------
(* TransportSession for TLC.  The three configurations differ in the nodes  *)
(* and the network:                                                         *)
(*   MCSessionSingle      one client, losses and early timers, liveness     *)
(*   MCSessionTwoClients  two clients share the server's timers and queues  *)
(*   MCSessionBacklog     more clients than the server has descriptors      *)
EXTENDS TransportSession
=============================================================================
