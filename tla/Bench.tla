------------------------------- MODULE Bench -------------------------------
(***************************************************************************)
(* A bench for sequential code: a state is a call with its input, and its  *)
(* only step computes the output.                                          *)
(***************************************************************************)
VARIABLES
    call,       (* which algorithm                                        *)
    input,
    done,       (* whether it has run                                     *)
    output      (* what it gave                                           *)

benchVars == <<call, input, done, output>>

Starts(name, inputs) == call = name /\ input \in inputs /\ done = FALSE /\ output = <<>>

Calls(name) == call = name /\ ~done /\ done' = TRUE /\ UNCHANGED <<call, input>>
=============================================================================
