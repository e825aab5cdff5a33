---------------------------- MODULE MCSimpleSend ----------------------------
(* A pool of three buffers, filled and emptied twice over.                   *)
EXTENDS SimpleSend
=============================================================================
