------------------------------- MODULE Vector -------------------------------
(***************************************************************************)
(* hutils/include/hutils/vector.h: a growable array with a gap in front.   *)
(*                                                                         *)
(* The elements live in data[ofs .. ofs + size - 1]; the gap in front      *)
(* makes push_front cheap and the slack behind makes push_back cheap.      *)
(* Every function is an operator from a vector record to a vector record,  *)
(* built from the code's memmove and realloc calls in their order; every   *)
(* action is one call by the client.                                       *)
(***************************************************************************)
EXTENDS Integers, SequencesExt

CONSTANTS
    Chunk,     (* the macro's chunk parameter: slots added per growth      *)
    Val,       (* the elements a client stores                             *)
    Zero,      (* the element calloc() leaves in a slot                    *)
    Junk,      (* the contents of a slot nobody has written                *)
    MaxSize,   (* bound: no more elements than this                        *)
    GapPops    (* whether the client calls pop_front with a gap in front   *)

ASSUME ChunkAssumption == Chunk \in Nat \ {0}
ASSUME ValAssumption == Zero \in Val /\ Junk \notin Val
ASSUME BoundAssumption == MaxSize \in Nat /\ GapPops \in BOOLEAN

VARIABLES
    vec,       (* the struct, and how the program ended                    *)
    call       (* the last call: its name and what it was given            *)

vars == <<vec, call>>

(* fault is "none", "bounds" after VECTOR_ASSERT_BOUNDS_ or _NOTEMPTY_     *)
(* aborted, "assert" after one of the library's own ASSERTs did.           *)
Faults == {"none", "bounds", "assert"}

IsVec(v) ==
    /\ DOMAIN v = {"ofs", "size", "capacity", "fault", "data"}
    /\ v.ofs \in Nat /\ v.size \in Nat /\ v.capacity \in Nat
    /\ v.fault \in Faults
    /\ v.data \in [0..v.capacity - 1 -> Val \cup {Junk}]

-----------------------------------------------------------------------------
(* Assertions, memmove and realloc.                                        *)

Checked(v, kind, cond) ==
    IF v.fault = "none" /\ ~cond THEN [v EXCEPT !.fault = kind] ELSE v

WellPlaced(v) ==
    /\ v.ofs + v.size <= v.capacity
    /\ Chunk >= v.ofs
    /\ v.capacity <= v.ofs + v.size + Chunk

AssertInvariant(v) == Checked(v, "assert", WellPlaced(v))

NotEmpty(v) == Checked(v, "bounds", v.size > 0)

InBounds(v, i, add) == Checked(v, "bounds", i < v.size + add)

Slot(d, k) == IF k \in DOMAIN d THEN d[k] ELSE Junk

MemMove(v, dst, src, num) ==
    Checked([v EXCEPT !.data = [k \in DOMAIN v.data |->
                IF dst <= k /\ k < dst + num
                THEN Slot(v.data, src + (k - dst)) ELSE v.data[k]]],
            "assert",
            /\ 0 <= num /\ 0 <= dst /\ dst + num <= v.capacity
            /\ 0 <= src /\ src + num <= v.capacity)

Reserve_(v, capacity) ==
    AssertInvariant([v EXCEPT
        !.data = [k \in 0..capacity - 1 |-> Slot(v.data, k)],
        !.size = IF v.ofs + v.size > capacity THEN capacity - v.ofs ELSE @,
        !.capacity = capacity])

TryGrow(v) ==
    IF v.ofs + v.size >= v.capacity
    THEN Reserve_(v, v.ofs + v.size + Chunk) ELSE v

TryShrink(v) ==
    IF v.ofs + v.size + Chunk < v.capacity
    THEN Reserve_(v, v.ofs + v.size + Chunk) ELSE v

Elem(v, i) == v.data[v.ofs + i]

Store(v, i, x) ==   (* the client writes through a returned pointer        *)
    [v EXCEPT !.data = [k \in DOMAIN v.data |->
        IF k = v.ofs + i THEN x ELSE v.data[k]]]

-----------------------------------------------------------------------------
(* The functions.                                                          *)

New(n) == AssertInvariant([ofs |-> 0, size |-> n, capacity |-> n,
                           fault |-> "none", data |-> [k \in 0..n - 1 |-> Zero]])

SeededEraseFront(v, i) ==   (* seeded fault: the gap is not closed       *)
    IF Chunk <= v.ofs
    THEN TryShrink(MemMove(MemMove(v, 0, v.ofs - 1, i), i, v.ofs + i, v.size - i))
    ELSE AssertInvariant(MemMove(v, v.ofs, v.ofs - 1, i))

EraseFront(v, i) ==     (* ofs and size have been stepped already          *)
    IF Chunk <= v.ofs
    THEN LET head == MemMove(v, 0, v.ofs - 1, i)
             tail == MemMove(head, i, v.ofs + i, v.size - i)
         IN  TryShrink([tail EXCEPT !.ofs = 0])
    ELSE AssertInvariant(MemMove(v, v.ofs, v.ofs - 1, i))

EraseBack(v, i) ==
    TryShrink(MemMove(v, v.ofs + i, v.ofs + i + 1, v.size - i))

EraseAt(v, i) ==
    LET w == [v EXCEPT !.size = @ - 1]
    IN  IF i < w.size \div 2
        THEN EraseFront([w EXCEPT !.ofs = @ + 1], i)
        ELSE EraseBack(w, i)

SeededInsertFront(v, i) ==  (* seeded fault: head moved before the tail   *)
    IF 0 < v.ofs
    THEN MemMove([v EXCEPT !.ofs = @ - 1], v.ofs - 1, v.ofs, i)
    ELSE LET w    == TryGrow([v EXCEPT !.ofs = Chunk - 1])
             head == MemMove(w, w.ofs, 0, i)
         IN  MemMove(head, w.ofs + i + 1, i, w.size - i)

InsertFront(v, i) ==    (* size has been stepped already                   *)
    IF 0 < v.ofs
    THEN MemMove([v EXCEPT !.ofs = @ - 1], v.ofs - 1, v.ofs, i)
    ELSE LET w    == TryGrow([v EXCEPT !.ofs = Chunk - 1])
             tail == MemMove(w, w.ofs + i + 1, i, w.size - i)
         IN  MemMove(tail, w.ofs, 0, i)

InsertBack(v, i) ==
    LET w == TryGrow(v)
    IN  MemMove(w, w.ofs + i + 1, w.ofs + i, w.size - i)

InsertSlot(v, i) ==
    LET w == [v EXCEPT !.size = @ + 1]
    IN  AssertInvariant(IF i < w.size \div 2 THEN InsertFront(w, i)
                                             ELSE InsertBack(w, i))

PushFrontSlot(v) ==
    LET w     == [v EXCEPT !.size = @ + 1]
        moved == TryGrow([w EXCEPT !.ofs = Chunk - 1])
    IN  AssertInvariant(IF 0 < w.ofs THEN [w EXCEPT !.ofs = @ - 1]
                        ELSE MemMove(moved, moved.ofs + 1, 0, moved.size - 1))

PushBackSlot(v) == TryGrow([v EXCEPT !.size = @ + 1])

SeededDropBack(v) == [v EXCEPT !.size = @ - 1]   (* seeded fault: no shrink *)

DropBack(v) == TryShrink([v EXCEPT !.size = @ - 1])

DropFront(v) ==
    LET w == [v EXCEPT !.size = @ - 1]
    IN  TryShrink(MemMove(w, 0, w.ofs + 1, w.size))

-----------------------------------------------------------------------------
(* The calls of a client.                                                  *)

Running == vec.fault = "none"
Room == vec.size < MaxSize

PushBack(x) ==
    /\ Running /\ Room
    /\ call' = <<"push_back", x>>
    /\ vec' = Store(PushBackSlot(vec), vec.size, x)

PushFront(x) ==
    /\ Running /\ Room
    /\ call' = <<"push_front", x>>
    /\ vec' = Store(PushFrontSlot(vec), 0, x)

Insert(i, x) ==
    /\ Running /\ Room
    /\ call' = <<"insert", i, x>>
    /\ vec' = IF i <= vec.size THEN Store(InsertSlot(vec, i), i, x)
                               ELSE InBounds(vec, i, 1)

Erase(i) ==
    /\ Running
    /\ call' = <<"erase", i>>
    /\ vec' = IF i < vec.size THEN EraseAt(vec, i) ELSE InBounds(vec, i, 0)

SeededPopBack ==        (* seeded fault: emptiness is not checked           *)
    /\ Running
    /\ call' = <<"pop_back">>
    /\ vec' = DropBack(vec)

PopBack ==
    /\ Running
    /\ call' = <<"pop_back">>
    /\ vec' = IF vec.size > 0 THEN DropBack(vec) ELSE NotEmpty(vec)

PopFront ==
    /\ Running
    /\ vec.ofs = 0 \/ GapPops
    /\ call' = <<"pop_front">>
    /\ vec' = IF vec.size > 0 THEN DropFront(vec) ELSE NotEmpty(vec)

Write(i, x) ==          (* *at(i) = x, *front() = x, *back() = x           *)
    /\ Running
    /\ call' = <<"at", i, x>>
    /\ vec' = IF i < vec.size THEN Store(vec, i, x) ELSE InBounds(vec, i, 0)

(* reserve() asks for room in front of and behind what it keeps: asking    *)
(* for less than the gap or for more than a chunk of slack is outside what *)
(* the code supports (see the README).                                     *)
Reserve(capacity) ==
    /\ Running
    /\ vec.ofs <= capacity /\ capacity <= vec.ofs + vec.size + Chunk
    /\ call' = <<"reserve", capacity>>
    /\ vec' = Reserve_(vec, capacity)

Resize(n) ==            (* resize() never makes the vector longer          *)
    /\ Running
    /\ n <= vec.size + Chunk
    /\ call' = <<"resize", n>>
    /\ vec' = Reserve_(vec, vec.ofs + n)

Clean ==
    /\ Running
    /\ call' = <<"clean">>
    /\ vec' = New(0)

Create(n) ==            (* init(), once nothing is allocated               *)
    /\ Running
    /\ vec.capacity = 0
    /\ call' = <<"init", n>>
    /\ vec' = New(n)

Num == 0..MaxSize + 2 * Chunk

Init == \E n \in 0..MaxSize : vec = New(n) /\ call = <<"init", n>>

Next ==
    \/ PopFront \/ PopBack \/ Clean
    \/ \E x \in Val : PushBack(x) \/ PushFront(x)
    \/ \E i \in 0..MaxSize, x \in Val : Insert(i, x) \/ Write(i, x)
    \/ \E i \in 0..MaxSize : Erase(i) \/ Create(i)
    \/ \E n \in Num : Reserve(n) \/ Resize(n)

Spec == Init /\ [][Next]_vars

-----------------------------------------------------------------------------
(* Properties.                                                             *)

(* The struct's fields keep their types and data always has exactly        *)
(* capacity slots: every realloc is recorded, size never wraps.            *)
TypeOK == IsVec(vec)

(* No sequence of calls trips one of the library's own ASSERTs (the        *)
(* placement invariant and the ranges of every memmove): only a client's   *)
(* bad index can abort.                                                    *)
NoAssertFails == vec.fault # "assert"

(* Memory follows the contents: the gap is shorter than a chunk and the    *)
(* slack behind at most a chunk, so a vector that was large and is now     *)
(* small has given its memory back.                                        *)
GapAndSlackBounded == vec.ofs < Chunk /\ WellPlaced(vec)

(* The elements a client sees, in order.                                   *)
Contents == [i \in 1..vec.size |-> Elem(vec, i - 1)]

D == INSTANCE Deque WITH seq <- Contents, fault <- vec.fault

(* Wherever memmove and realloc put the elements, each call does to what   *)
(* the client sees what a deque's call of that name does with the same     *)
(* index and element, and aborts exactly on an index out of range.         *)
IsDeque == D!DequeSpec

(* testvector.c: what was pushed in front last is in front, and pop_front  *)
(* removes exactly that element.                                           *)
PopFrontRemovesFront ==
    [][(PopFront /\ vec.size > 0 /\ vec'.fault = "none")
         => Contents' = Tail(Contents)]_vars
=============================================================================
