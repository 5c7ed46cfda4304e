----------------------------- MODULE MCHashTable -----------------------------
(* Five keys for the checker: two with one hash, three that share a home   *)
(* slot in a table of four, and a probe run that wraps around the end.     *)
EXTENDS HashTable

MCKey == 1..5
MCHash == [k \in MCKey |-> <<3, 3, 7, 6, 0>>[k]]
=============================================================================
