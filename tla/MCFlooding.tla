----------------------------- MODULE MCFlooding -----------------------------
(* A triangle with a fourth node behind it: floods meet on a cycle and go on *)
(* over a bridge.                                                            *)
EXTENDS Flooding

MCNeighbors == [n \in 1 .. 4 |-> CASE n = 1 -> {2, 3}
                                   [] n = 2 -> {1, 3}
                                   [] n = 3 -> {1, 2, 4}
                                   [] n = 4 -> {3}]
MCMaxSeq == [n \in 1 .. 4 |-> IF n = 1 THEN 2 ELSE 0]
=============================================================================
