----------------------------- MODULE MCHashTable -----------------------------
(* A table of 6 entries and keys that collide at once, after one probe and   *)
(* after several; four of them share three entries, so that some do not fit. *)
EXTENDS HashTable
=============================================================================
