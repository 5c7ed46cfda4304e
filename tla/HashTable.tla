----------------------------- MODULE HashTable -----------------------------
(***************************************************************************)
(* hutils/include/hutils/hashtable.h: open addressing with Robin Hood      *)
(* insertion and backward-shift deletion.  A slot holds an object and its  *)
(* hash; the hash of a slot without an object is never read and is left    *)
(* out.  Every action is one call by the client.                           *)
(***************************************************************************)
EXTENDS Integers, FiniteSets

CONSTANTS
    Key,        (* the keys a client uses                                  *)
    Copies,     (* what tells apart objects with one key                   *)
    Hash,       (* the macro's hash_ parameter, as a function              *)
    StartSize,  (* the macro's start_size parameter                        *)
    MaxSize,    (* bound: no table has more slots                          *)
    Null        (* an empty slot, and the NULL entry                       *)

ASSUME HashAssumption == Hash \in [Key -> Nat]
ASSUME CopiesAssumption == Copies # {}

(* From 2^29 slots on, 9 * mask does not fit the uint32_t it is kept in.   *)
ASSUME SizeAssumption ==
    StartSize \in 0..2^29 - 1 /\ MaxSize \in 1..2^29 - 1

Obj == [key : Key, copy : Copies]
Entry == [hash : Nat, t : Obj]
Call == ({"insert", "erase"} \X Obj) \cup ({"find"} \X Key)
            \cup ({"init", "shutdown"} \X {Null})
ASSUME NullAssumption == Null \notin Entry /\ Null \notin Obj

VARIABLES
    mask, num, array,   (* struct HashTableType; no slots: array is NULL   *)
    call,               (* the last call: its name and what it was given   *)
    result,             (* the object of the entry it returned             *)
    fault               (* "assert" or "hang" if a call did not return     *)

table == <<mask, num, array>>
vars == <<mask, num, array, call, result, fault>>

Used(a) == {i \in DOMAIN a : a[i] # Null}

Least(S) == CHOOSE n \in S : \A m \in S : n <= m

(* HASHTABLE_DIB in a table of n slots: how far slot i is from home.       *)
Dib(n, hash, i) == (i - hash) % n

-----------------------------------------------------------------------------
(* insert_().  w is the function's state: the array, num, what is carried, *)
(* the place, and the entry to return ("i" is its slot) once it ended.     *)

Size(w) == Cardinality(DOMAIN w.array)
At(w) == w.i % Size(w)
Here(w) == w.array[At(w)]

Stored(w) ==
    [w EXCEPT !.array[At(w)] = w.carried, !.num = @ + 1,
              !.ret = IF @ = -1 THEN At(w) ELSE @, !.end = "stored"]

Found(w) ==
    [w EXCEPT !.ret = At(w), !.end = IF w.ret = -1 THEN "found" ELSE "assert"]

(* The carried object takes the slot of one that is nearer its home.       *)
Swapped(w) ==
    [w EXCEPT !.array[At(w)] = w.carried, !.carried = Here(w),
              !.ret = IF @ = -1 THEN At(w) ELSE @,
              !.dib = Dib(Size(w), Here(w).hash, At(w)) + 1, !.i = At(w) + 1]

Advanced(w) == [w EXCEPT !.i = At(w) + 1, !.dib = @ + 1]

SeededSameKey(e, f) ==  (* seeded fault: equal hashes pass for equal keys  *)
    e.hash = f.hash

SameKey(e, f) == e.hash = f.hash /\ e.t.key = f.t.key

InsertStep(w) ==
    CASE w.end # "" -> w
      [] w.end = "" /\ Here(w) = Null -> Stored(w)
      [] w.end = "" /\ Here(w) # Null /\ SameKey(w.carried, Here(w)) -> Found(w)
      [] OTHER -> IF w.dib > Dib(Size(w), Here(w).hash, At(w))
                  THEN Swapped(w) ELSE Advanced(w)

(* One round visits every slot: a walk that has not ended then never does. *)
Insert_(a, n, e) ==
    LET start == [array |-> a, num |-> n, carried |-> e, i |-> e.hash,
                  dib |-> 0, ret |-> -1, end |-> ""]
        walk[step \in 0..Cardinality(DOMAIN a)] ==
            IF step = 0 THEN start ELSE InsertStep(walk[step - 1])
    IN  walk[Cardinality(DOMAIN a)]

-----------------------------------------------------------------------------
(* Growing.                                                                *)

GrowAt == (9 * mask) \div 10

SeededNewSize ==        (* seeded fault: not a power of two                *)
    IF StartSize > mask + 1 THEN StartSize + 1 ELSE mask + 2

(* The first power of two above both start_size and the slots there are.   *)
NewSize ==
    LET goal == IF StartSize > mask + 1 THEN StartSize ELSE mask + 1
    IN  Least({size \in {2^k : k \in 0..29} : size > goal})

(* rehash_(): the objects go over in slot order.                           *)
Rehashed(size) ==
    LET empty == [array |-> [i \in 0..size - 1 |-> Null], num |-> 0]
        moved[i \in 0..Cardinality(DOMAIN array)] ==
            IF i = 0 THEN empty
            ELSE LET w == moved[i - 1]
                     e == array[i - 1]
                 IN  IF e = Null THEN w ELSE Insert_(w.array, w.num, e)
    IN  moved[Cardinality(DOMAIN array)]

SeededGrown ==          (* seeded fault: grows only when no slot is left    *)
    IF array # <<>> /\ num <= mask THEN [array |-> array, num |-> num]
    ELSE [array |-> Rehashed(NewSize).array, num |-> Rehashed(NewSize).num]

Grown ==
    IF num < GrowAt THEN [array |-> array, num |-> num]
    ELSE LET w == Rehashed(NewSize) IN [array |-> w.array, num |-> w.num]

-----------------------------------------------------------------------------
(* The calls of a client.                                                  *)

Running == fault = "none"

Insert(o) ==
    /\ Running
    /\ num >= GrowAt => NewSize <= MaxSize
    /\ call' = <<"insert", o>>
    /\ LET grown == Grown
           w == Insert_(grown.array, grown.num,
                        [hash |-> Hash[o.key], t |-> o])
       IN  /\ array' = w.array /\ num' = w.num
           /\ mask' = Cardinality(DOMAIN w.array) - 1
           /\ result' = IF w.end \in {"stored", "found"} THEN w.array[w.ret].t
                                                         ELSE Null
           /\ fault' = IF w.end = "" THEN "hang"
                       ELSE IF w.end = "assert" THEN "assert" ELSE "none"

(* find_(): dib is never counted up, so that only an empty slot ends an    *)
(* unsuccessful search.  A table without an array must not be searched.    *)
Find(k) ==
    /\ Running /\ array # <<>>
    /\ call' = <<"find", k>>
    /\ LET n == mask + 1
           slot(m) == array[(Hash[k] + m) % n]
           stops == {m \in 0..mask : \/ slot(m) = Null
                                     \/ slot(m).hash = Hash[k] /\ slot(m).t.key = k}
           stop == slot(Least(stops))
       IN  IF stops = {}
           THEN fault' = "hang" /\ UNCHANGED result
           ELSE /\ result' = IF stop = Null THEN Null ELSE stop.t
                /\ UNCHANGED fault
    /\ UNCHANGED table

SeededErased(i) == [array EXCEPT ![i] = Null]   (* seeded fault: no shift   *)

(* erase() shifts the objects behind slot i forward, up to one that is at  *)
(* home or to an empty slot.                                               *)
Erased(i) ==
    LET n == mask + 1
        old == [array EXCEPT ![i] = Null]
        at(m) == old[(i + m) % n]
        end == Least({m \in 1..n : \/ at(m) = Null
                                   \/ Dib(n, at(m).hash, i + m) = 0})
        from(j) == (j - i) % n
    IN  [j \in DOMAIN array |->
            IF from(j) < end - 1 THEN at(from(j) + 1)
            ELSE IF from(j) = end - 1 THEN Null ELSE old[j]]

(* num is not counted down: it counts insertions since the last rehash.    *)
Erase(i) ==
    /\ Running
    /\ i \in Used(array)
    /\ array' = Erased(i)
    /\ call' = <<"erase", array[i].t>>
    /\ result' = Null
    /\ UNCHANGED <<mask, num, fault>>

Shutdown ==
    /\ Running
    /\ mask' = 0 /\ num' = 0 /\ array' = <<>>
    /\ call' = <<"shutdown", Null>> /\ result' = Null
    /\ UNCHANGED fault

Init ==
    /\ mask = 0 /\ num = 0 /\ array = <<>>
    /\ call = <<"init", Null>> /\ result = Null /\ fault = "none"

Next ==
    \/ \E o \in Obj : Insert(o)
    \/ \E k \in Key : Find(k)
    \/ \E i \in DOMAIN array : Erase(i)
    \/ Shutdown

Spec == Init /\ [][Next]_vars

-----------------------------------------------------------------------------
(* Properties.                                                             *)

(* Slots, mask and num keep their shape through every rehash: the number   *)
(* of slots is mask + 1, a power of two.                                   *)
TypeOK ==
    /\ fault \in {"none", "assert", "hang"}
    /\ call \in Call /\ result \in Obj \cup {Null}
    /\ mask \in 0..MaxSize - 1 /\ num \in 0..mask + 1
    /\ \/ array = <<>> /\ mask = 0
       \/ /\ mask + 1 \in {2^k : k \in 0..29}
          /\ array \in [0..mask -> Entry \cup {Null}]

(* Every walk over the table ends and no assert fails: the load check      *)
(* leaves an empty slot, although num is never counted down and rehash     *)
(* starts it over.                                                         *)
WalksEnd ==
    /\ fault = "none"
    /\ Cardinality(Used(array)) <= num
    /\ array # <<>> => Cardinality(Used(array)) <= mask

(* Robin Hood order, kept by displacing inserts, by shifting erases that   *)
(* wrap around and by rehashing: an object away from home follows one      *)
(* that is at most one step nearer.  insert_() needs it to find a          *)
(* duplicate before it displaces anything.                                 *)
RobinHood ==
    \A i \in Used(array) :
        LET n == mask + 1
            d == Dib(n, array[i].hash, i)
            before == array[(i - 1) % n]
        IN  d > 0 => /\ before # Null
                     /\ Dib(n, before.hash, (i - 1) % n) >= d - 1

D == INSTANCE Dictionary
     WITH objs <- {array[i].t : i \in Used(array)}

(* Whatever collides and however the table is rearranged, each call does   *)
(* what a dictionary's call of that name does with what it was given: find *)
(* returns the object with that very key, or NULL only if there is none,   *)
(* insert returns the object itself or the one that has its key already,   *)
(* and erase takes out the object it was given and no other.               *)
IsDictionary == D!DictSpec
=============================================================================
