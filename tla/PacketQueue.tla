----------------------------- MODULE PacketQueue -----------------------------
(***************************************************************************)
(* What SimpleSend promises to Flooding, IP and NeighborDiscovery: packets  *)
(* that were accepted wait, at most Capacity of them, and go to the radio   *)
(* one by one, each once, in the order they were accepted.                  *)
(***************************************************************************)
EXTENDS Naturals, Sequences

CONSTANTS
  Packet,       \* what may be sent
  Capacity      \* packets that may wait

VARIABLES
  waiting,      \* accepted, and not yet given to the radio
  air           \* given to the radio so far

vars == <<waiting, air>>

Init == waiting = <<>> /\ air = <<>>

Accept(p) ==
  /\ Len(waiting) < Capacity
  /\ waiting' = Append(waiting, p)
  /\ UNCHANGED air

Transmit ==
  /\ waiting # <<>>
  /\ waiting' = Tail(waiting)
  /\ air' = Append(air, Head(waiting))

Next == (\E p \in Packet : Accept(p)) \/ Transmit

Spec == Init /\ [][Next]_vars
=============================================================================
