------------------------------- MODULE MCUdp -------------------------------
(* A server with two receiving threads and a client with one.              *)
EXTENDS Udp

CONSTANTS s, c, r1, r2, r3

MCEndOf == [r \in Receiver |-> IF r = r3 THEN c ELSE s]
=============================================================================
