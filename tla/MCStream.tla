------------------------------ MODULE MCStream ------------------------------
(* TcpStream for TLC.                                                       *)
(*   MCStream          the first lap of the ring: Start + MaxBytes < B      *)
(*   MCStreamLaps      a second line after the buffer has wrapped           *)
(*   MCStreamBacklog   a line written before the last was acknowledged      *)
EXTENDS TcpStream
=============================================================================
