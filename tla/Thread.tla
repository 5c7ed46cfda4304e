------------------------------- MODULE Thread -------------------------------
(***************************************************************************)
(* hutils/src/thread.c on POSIX threads, driven by a program of the shape  *)
(* of hutils/tests/testthread.c: the main thread starts workers, waits on  *)
(* a condition variable until they have counted to N, and joins them.      *)
(* pthread calls are external: one mutex and one condition variable with   *)
(* spurious wake-ups, thread attributes, and a heap that reuses addresses. *)
(***************************************************************************)
EXTENDS Integers, FiniteSets

CONSTANTS
    Main, Worker,    (* the main thread, the threads it may start          *)
    N,               (* bound: what they count to                          *)
    Address,         (* bound: the addresses malloc hands out              *)
    Null

Thread == {Main} \cup Worker

ASSUME ThreadAssumption == Main \notin Worker /\ IsFiniteSet(Worker) /\ N \in Nat \ {0}
ASSUME HeapAssumption == Address # {} /\ Null \notin Address \cup Thread

VARIABLES
    pc,         (* per thread: the next step                               *)
    target,     (* the worker the main thread is starting                  *)
    heap,       (* per address: the data of the Starter there, or Null     *)
    starter,    (* per worker: the Starter thread_start() made for it      *)
    arg,        (* per worker: the data its function was called with       *)
    attr,       (* the workers whose attributes are initialised            *)
    owner,      (* the holder of the mutex                                 *)
    messenger,  (* g_messenger                                             *)
    seen,       (* per thread: the value of g_messenger it read            *)
    added       (* history: the increments workers have finished           *)

vars == <<pc, target, heap, starter, arg, attr, owner, messenger, seen, added>>
startVars == <<target, heap, starter, arg, attr>>
countVars == <<messenger, seen, added>>

Goto(t, place) == pc' = [pc EXCEPT ![t] = place]

-----------------------------------------------------------------------------
(* thread_start() and run().                                               *)

(* CALLOC of the Starter, with the function and its data.                  *)
StartAlloc(w) ==
    /\ pc[Main] = "start" /\ pc[w] = "none"
    /\ \E a \in Address :
        /\ heap[a] = Null
        /\ heap' = [heap EXCEPT ![a] = w]
        /\ starter' = [starter EXCEPT ![w] = a]
    /\ target' = w
    /\ Goto(Main, "attr")
    /\ UNCHANGED <<arg, attr, owner, countVars>>

(* thread_start_fail: the Starter is freed, the attributes are not.        *)
StartFail ==
    /\ heap' = [heap EXCEPT ![starter[target]] = Null]
    /\ pc' = [pc EXCEPT ![Main] = "start", ![target] = "failed"]

StartAttr ==
    /\ pc[Main] = "attr"
    /\ \/ /\ attr' = attr \cup {target}
          /\ Goto(Main, "create")
          /\ UNCHANGED heap
       \/ StartFail /\ UNCHANGED attr
    /\ UNCHANGED <<target, starter, arg, owner, countVars>>

SeededStartCreate ==    (* seeded fault: the Starter is freed in any case  *)
    /\ pc[Main] = "create"
    /\ heap' = [heap EXCEPT ![starter[target]] = Null]
    /\ pc' = [pc EXCEPT ![Main] = "start", ![target] = "run"]
    /\ UNCHANGED <<target, starter, arg, attr, owner, countVars>>

StartCreate ==
    /\ pc[Main] = "create"
    /\ \/ /\ pc' = [pc EXCEPT ![Main] = "start", ![target] = "run"]
          /\ UNCHANGED heap
       \/ StartFail
    /\ UNCHANGED <<target, starter, arg, attr, owner, countVars>>

(* The new thread copies the Starter, frees it and calls the function.     *)
Run(w) ==
    /\ pc[w] = "run"
    /\ arg' = [arg EXCEPT ![w] = heap[starter[w]]]
    /\ heap' = [heap EXCEPT ![starter[w]] = Null]
    /\ Goto(w, "loop")
    /\ UNCHANGED <<target, starter, attr, owner, countVars>>

(* The main thread goes on when it has tried them all.                     *)
StartDone ==
    /\ pc[Main] = "start" /\ \A w \in Worker : pc[w] # "none"
    /\ Goto(Main, IF \A w \in Worker : pc[w] = "failed" THEN "unlock" ELSE "outer")
    /\ UNCHANGED <<startVars, owner, countVars>>

-----------------------------------------------------------------------------
(* Mutex and condition variable.                                           *)

SeededLock(t) ==        (* seeded fault: the mutex excludes nobody         *)
    /\ pc[t] = "lock"
    /\ owner' = t
    /\ Goto(t, IF t = Main THEN "inner" ELSE "read")
    /\ UNCHANGED <<startVars, countVars>>

(* Blocks while another thread has the mutex.                              *)
Lock(t) ==
    /\ pc[t] = "lock" /\ owner = Null
    /\ owner' = t
    /\ Goto(t, IF t = Main THEN "inner" ELSE "read")
    /\ UNCHANGED <<startVars, countVars>>

Unlock(t) ==
    /\ pc[t] = "unlock"
    /\ owner' = Null
    /\ Goto(t, IF t = Main THEN "join" ELSE "loop")
    /\ UNCHANGED <<startVars, countVars>>

SeededWait(t) ==        (* seeded fault: the mutex is given up too early   *)
    /\ pc[t] = "wait"
    /\ IF owner = t
       THEN owner' = Null /\ UNCHANGED pc
       ELSE UNCHANGED owner /\ Goto(t, "sleep")
    /\ UNCHANGED <<startVars, countVars>>

(* The mutex is given up and the thread sleeps in one step.                *)
Wait(t) ==
    /\ pc[t] = "wait"
    /\ owner' = Null
    /\ Goto(t, "sleep")
    /\ UNCHANGED <<startVars, countVars>>

Sleeping == {t \in Thread : pc[t] = "sleep"}

SeededWoken(woken, t, place) ==     (* seeded fault: wait returns without it *)
    pc' = [s \in Thread |-> IF s \in woken THEN "inner" ELSE IF s = t THEN place ELSE pc[s]]

(* A woken thread must have the mutex before wait returns.                 *)
Woken(woken, t, place) ==
    pc' = [s \in Thread |-> IF s \in woken THEN "lock" ELSE IF s = t THEN place ELSE pc[s]]

Broadcast(t) ==
    /\ pc[t] = "wake"
    /\ Woken(Sleeping, t, "unlock")
    /\ UNCHANGED <<startVars, owner, countVars>>

(* With one waiting thread a signal does what a broadcast does.            *)
Signal(t) ==
    /\ pc[t] = "wake"
    /\ IF Sleeping = {} THEN Goto(t, "unlock")
       ELSE \E s \in Sleeping : Woken({s}, t, "unlock")
    /\ UNCHANGED <<startVars, owner, countVars>>

SpuriousWakeup(t) ==
    /\ pc[t] = "sleep"
    /\ Goto(t, "lock")
    /\ UNCHANGED <<startVars, owner, countVars>>

-----------------------------------------------------------------------------
(* The program.  runner_condvar() tests the counter before it locks.       *)

Check(w) ==
    /\ pc[w] = "loop"
    /\ Goto(w, IF N > messenger THEN "lock" ELSE "exit")
    /\ UNCHANGED <<startVars, owner, countVars>>

(* ++g_messenger is a load and a store.                                    *)
Load(w) ==
    /\ pc[w] = "read"
    /\ seen' = [seen EXCEPT ![w] = messenger]
    /\ Goto(w, "write")
    /\ UNCHANGED <<startVars, owner, messenger, added>>

Store(w) ==
    /\ pc[w] = "write"
    /\ messenger' = seen[w] + 1
    /\ added' = added + 1
    /\ Goto(w, "wake")
    /\ UNCHANGED <<startVars, owner, seen>>

(* The loops around thread_condvar_wait(), entered with the mutex.         *)
Outer ==
    /\ pc[Main] = "outer"
    /\ IF N > messenger
       THEN seen' = [seen EXCEPT ![Main] = messenger] /\ Goto(Main, "inner")
       ELSE UNCHANGED seen /\ Goto(Main, "unlock")
    /\ UNCHANGED <<startVars, owner, messenger, added>>

Inner ==
    /\ pc[Main] = "inner"
    /\ Goto(Main, IF messenger = seen[Main] THEN "wait" ELSE "outer")
    /\ UNCHANGED <<startVars, owner, countVars>>

(* thread_clean(): pthread_join waits for the thread.                      *)
Clean(w) ==
    /\ pc[Main] = "join" /\ pc[w] = "exit"
    /\ attr' = attr \ {w}
    /\ Goto(w, "joined")
    /\ UNCHANGED <<target, heap, starter, arg, owner, countVars>>

Finish ==
    /\ pc[Main] = "join" /\ \A w \in Worker : pc[w] \in {"failed", "joined"}
    /\ Goto(Main, "done")
    /\ UNCHANGED <<startVars, owner, countVars>>

Init ==
    /\ pc = [t \in Thread |-> IF t = Main THEN "start" ELSE "none"]
    /\ target \in Worker
    /\ heap = [a \in Address |-> Null]
    /\ starter = [w \in Worker |-> Null] /\ arg = [w \in Worker |-> Null]
    /\ attr = {} /\ owner = Main
    /\ messenger = 0 /\ seen = [t \in Thread |-> 0] /\ added = 0

WorkerStep(w) == Run(w) \/ Check(w) \/ Load(w) \/ Store(w) \/ Broadcast(w) \/ Signal(w)
MainStep ==
    \/ StartAttr \/ StartCreate \/ StartDone \/ Outer \/ Inner \/ Finish
    \/ \E w \in Worker : StartAlloc(w) \/ Clean(w)
Step(t) == Lock(t) \/ Unlock(t) \/ Wait(t)

Next ==
    \/ MainStep
    \/ \E w \in Worker : WorkerStep(w)
    \/ \E t \in Thread : Step(t) \/ SpuriousWakeup(t)

(* Threads that can run do, and a thread that waits for the mutex gets it  *)
(* in the end; nothing makes a wake-up happen.                             *)
Spec ==
    /\ Init /\ [][Next]_vars
    /\ WF_vars(MainStep)
    /\ \A w \in Worker : WF_vars(WorkerStep(w))
    /\ \A t \in Thread : WF_vars(Step(t)) /\ SF_vars(Lock(t))

-----------------------------------------------------------------------------
(* Properties.                                                             *)

Holding == {"read", "write", "wake", "unlock", "start", "attr", "create", "outer",
            "inner", "wait"}

(* The holder of the mutex is the one thread at a step that needs it.      *)
MutualExclusion ==
    \A t \in Thread : pc[t] \in Holding <=> owner = t

(* No increment is lost: the counter, which each worker loads and stores   *)
(* in two steps, is always the number of increments of all workers.        *)
NoLostUpdate == messenger = added

(* Every function is called with the data given to its thread_start(),     *)
(* whoever runs first and whatever malloc reuses, and every Starter is     *)
(* freed once.  When all are joined what is left are the attributes of     *)
(* threads that could not be created, which nobody destroys.               *)
StartersAccounted ==
    /\ \A w \in Worker : pc[w] = "run" => heap[starter[w]] = w
    /\ \A w \in Worker : arg[w] \in {Null, w}
    /\ pc[Main] = "done" =>
        /\ \A a \in Address : heap[a] = Null
        /\ \A w \in attr : pc[w] = "failed"

(* The main thread sleeps through no wake-up: the program ends.            *)
Finishes == <>(pc[Main] = "done")
=============================================================================
