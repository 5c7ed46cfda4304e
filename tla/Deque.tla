------------------------------- MODULE Deque -------------------------------
(***************************************************************************)
(* What hutils/vector.h promises its clients: a sequence that can be       *)
(* pushed, popped, inserted into and erased from at either end or in the   *)
(* middle.  Where the elements are stored is invisible.  Each step is the  *)
(* call that "call" tells, with what it was given.  Vector implements this *)
(* module.                                                                 *)
(***************************************************************************)
EXTENDS Integers, SequencesExt

CONSTANTS Val,   (* the elements a client stores                           *)
          Zero,  (* the element calloc() fills a new vector with           *)
          Num    (* the indices and numbers a client gives                 *)

VARIABLES seq,   (* the elements, in order                                 *)
          call,  (* the last call: its name and what it was given          *)
          fault  (* "none", or "bounds" once an index was out of range     *)

dequeVars == <<seq, call, fault>>

Zeros(n) == [i \in 1..n |-> Zero]

Create(n) ==
    /\ call' = <<"init", n>>
    /\ seq = <<>> /\ seq' = Zeros(n) /\ UNCHANGED fault

DequeInit ==
    \E n \in Num : seq = Zeros(n) /\ call = <<"init", n>> /\ fault = "none"

Keep(s) == seq' = s /\ UNCHANGED fault

(* A call with an index outside the sequence, or a pop of an empty one,    *)
(* ends the program and changes nothing; no other call does.               *)
KeepIf(cond, s) ==
    \/ cond /\ Keep(s)
    \/ ~cond /\ fault' = "bounds" /\ UNCHANGED seq

PushBack(x)  == call' = <<"push_back", x>> /\ Keep(Append(seq, x))
PushFront(x) == call' = <<"push_front", x>> /\ Keep(Cons(x, seq))
PopBack      == call' = <<"pop_back">> /\ KeepIf(seq # <<>>, Front(seq))
PopFront     == call' = <<"pop_front">> /\ KeepIf(seq # <<>>, Tail(seq))

Insert(i, x) ==
    /\ call' = <<"insert", i, x>>
    /\ KeepIf(i <= Len(seq), InsertAt(seq, i + 1, x))

Erase(i) ==
    /\ call' = <<"erase", i>>
    /\ KeepIf(i < Len(seq), RemoveAt(seq, i + 1))

Write(i, x) ==
    /\ call' = <<"at", i, x>>
    /\ KeepIf(i < Len(seq), [seq EXCEPT ![i + 1] = x])

(* reserve(n) keeps as many elements as fit into n slots or, when there is *)
(* a gap in front, fewer; resize(n) keeps the first n.                     *)
Reserve(n) ==
    /\ call' = <<"reserve", n>>
    /\ \E m \in 0..Len(seq) : m <= n /\ Keep(SubSeq(seq, 1, m))

Resize(n) ==
    /\ call' = <<"resize", n>>
    /\ Keep(IF n < Len(seq) THEN SubSeq(seq, 1, n) ELSE seq)

Clean == call' = <<"clean">> /\ Keep(<<>>)

DequeNext ==
    /\ fault = "none"
    /\ \/ PopBack \/ PopFront \/ Clean
       \/ \E x \in Val : PushBack(x) \/ PushFront(x)
       \/ \E i \in Num, x \in Val : Insert(i, x) \/ Write(i, x)
       \/ \E n \in Num : Erase(n) \/ Create(n) \/ Reserve(n) \/ Resize(n)

DequeSpec == DequeInit /\ [][DequeNext]_dequeVars
=============================================================================
