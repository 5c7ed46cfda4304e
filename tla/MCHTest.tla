------------------------------ MODULE MCHTest ------------------------------
(* Three suites for the checker: two tests, none, and one.                 *)
EXTENDS HTest

MCSizes == <<2, 0, 1>>
=============================================================================
