------------------------------- MODULE MCHwt -------------------------------
(* The widget addresses of Hwt are interchangeable.                        *)
EXTENDS Hwt, TLC
Symmetry == Permutations(Widget)
=============================================================================
