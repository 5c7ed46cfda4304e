----------------------------- MODULE Dictionary -----------------------------
(***************************************************************************)
(* What hutils/hashtable.h promises its clients: a set of objects with     *)
(* distinct keys, whatever the hashes of the keys are.  HashTable          *)
(* implements this module.                                                 *)
(***************************************************************************)
CONSTANTS Obj,    (* the objects, records with a key and other fields      *)
          Null    (* the result when there is no object                    *)

VARIABLES objs,   (* the objects in the dictionary                         *)
          call,   (* the last call: its name and what it was given         *)
          result  (* the object it returned                                *)

DictInit == objs = {} /\ call = <<"init", Null>> /\ result = Null

WithKey(k) == {o \in objs : o.key = k}

(* An object is put in only when its key is new; the caller gets the       *)
(* object that is in the dictionary afterwards.                            *)
Insert(o) ==
    /\ call' = <<"insert", o>>
    /\ \/ /\ WithKey(o.key) = {}
          /\ objs' = objs \cup {o} /\ result' = o
       \/ result' \in WithKey(o.key) /\ UNCHANGED objs

Find(k) ==
    /\ call' = <<"find", k>>
    /\ IF WithKey(k) = {} THEN result' = Null ELSE result' \in WithKey(k)
    /\ UNCHANGED objs

Erase(o) == call' = <<"erase", o>> /\ objs' = objs \ {o} /\ result' = Null

Shutdown == call' = <<"shutdown", Null>> /\ objs' = {} /\ result' = Null

DictNext ==
    \/ \E o \in Obj : Insert(o) \/ Find(o.key)
    \/ \E o \in objs : Erase(o)
    \/ Shutdown

DictSpec == DictInit /\ [][DictNext]_<<objs, call, result>>
=============================================================================
