---------------------------- MODULE ThreadProofs ----------------------------
(***************************************************************************)
(* Proofs about Thread: for any workers, heap and count, one thread holds  *)
(* the mutex, and every Starter reaches the thread it is for and is freed. *)
(***************************************************************************)
EXTENDS Thread, TLAPS

Place == {"none", "start", "attr", "create", "run", "failed", "loop", "lock", "read", "write", "wake",
          "unlock", "outer", "inner", "wait", "sleep", "exit", "join", "joined", "done"}

TypeInv ==
    /\ pc \in [Thread -> Place]
    /\ target \in Worker
    /\ heap \in [Address -> Worker \cup {Null}]
    /\ starter \in [Worker -> Address \cup {Null}]
    /\ arg \in [Worker -> Worker \cup {Null}]
    /\ attr \subseteq Worker
    /\ owner \in Thread \cup {Null}

(* The worker that thread_start() is about, from CALLOC to pthread_create. *)
Starting(w) == pc[Main] \in {"attr", "create"} /\ target = w

(* A Starter is in the heap exactly while it is passed on, and is that of  *)
(* the worker whose data it has; attributes go when their thread is joined.*)
StarterInv ==
    /\ \A w \in Worker : Starting(w) => pc[w] = "none"
    /\ \A w \in Worker : pc[w] = "run" \/ Starting(w) => starter[w] \in Address /\ heap[starter[w]] = w
    /\ \A a \in Address : heap[a] # Null =>
        /\ starter[heap[a]] = a
        /\ pc[heap[a]] = "run" \/ Starting(heap[a])
    /\ \A w \in Worker : arg[w] \in {Null, w}
    /\ \A w \in attr : pc[w] # "joined"
    /\ pc[Main] = "done" => \A w \in Worker : pc[w] \in {"failed", "joined"}

IInv == TypeInv /\ StarterInv /\ MutualExclusion

-----------------------------------------------------------------------------
(* The invariant holds at the start: the main thread has the mutex, and    *)
(* nothing has been allocated.                                             *)
LEMMA InitIInv == Init => IInv
BY ThreadAssumption, HeapAssumption
DEF Init, IInv, TypeInv, StarterInv, MutualExclusion, Starting, Thread, Place, Holding

(* The steps of thread_start() and of run() keep the invariant: no Starter *)
(* is shared, and none is left behind.                                     *)
LEMMA StartSteps ==
    ASSUME IInv, \/ \E w \in Worker : StartAlloc(w) \/ Run(w)
                 \/ StartAttr \/ StartCreate \/ StartDone
    PROVE  IInv'
<1> USE ThreadAssumption, HeapAssumption DEF IInv, TypeInv, Thread, Place, Goto
<1>1. ASSUME NEW w \in Worker, StartAlloc(w) PROVE IInv'
    <2>1. PICK a \in Address : /\ heap[a] = Null
                               /\ heap' = [heap EXCEPT ![a] = w]
                               /\ starter' = [starter EXCEPT ![w] = a]
        BY <1>1 DEF StartAlloc
    <2>2. TypeInv' BY <1>1, <2>1 DEF StartAlloc, countVars
    <2>3. StarterInv' BY <1>1, <2>1 DEF StartAlloc, StarterInv, Starting, countVars
    <2>4. MutualExclusion' BY <1>1 DEF StartAlloc, MutualExclusion, Holding, countVars
    <2> QED BY <2>2, <2>3, <2>4
<1>2. ASSUME NEW w \in Worker, Run(w) PROVE IInv'
    <2>1. starter[w] \in Address /\ heap[starter[w]] = w BY <1>2 DEF Run, StarterInv
    <2>2. TypeInv' BY <1>2, <2>1 DEF Run, countVars
    <2>3. StarterInv' BY <1>2, <2>1 DEF Run, StarterInv, Starting, countVars
    <2>4. MutualExclusion' BY <1>2 DEF Run, MutualExclusion, Holding, countVars
    <2> QED BY <2>2, <2>3, <2>4
<1>3. ASSUME pc[Main] \in {"attr", "create"}, StartFail,
             UNCHANGED <<target, starter, arg, attr, owner>>
      PROVE  IInv'
    <2>1. Starting(target) /\ pc[target] = "none" BY <1>3 DEF Starting, StarterInv
    <2>2. starter[target] \in Address /\ heap[starter[target]] = target BY <2>1 DEF StarterInv
    <2>3. TypeInv' BY <1>3, <2>2 DEF StartFail
    <2>4. StarterInv' BY <1>3, <2>1, <2>2 DEF StartFail, StarterInv, Starting
    <2>5. MutualExclusion' BY <1>3, <2>1 DEF StartFail, MutualExclusion, Holding
    <2> QED BY <2>3, <2>4, <2>5
<1>4. ASSUME StartAttr PROVE IInv'
    <2>1. CASE StartFail /\ UNCHANGED attr BY <1>3, <1>4, <2>1 DEF StartAttr
    <2>2. CASE attr' = attr \cup {target} /\ Goto(Main, "create") /\ UNCHANGED heap
        <3>1. TypeInv' BY <1>4, <2>2 DEF StartAttr
        <3>2. StarterInv' BY <1>4, <2>2 DEF StartAttr, StarterInv, Starting
        <3>3. MutualExclusion' BY <1>4, <2>2 DEF StartAttr, MutualExclusion, Holding
        <3> QED BY <3>1, <3>2, <3>3
    <2> QED BY <1>4, <2>1, <2>2 DEF StartAttr
<1>5. ASSUME StartCreate PROVE IInv'
    <2>1. CASE StartFail BY <1>3, <1>5, <2>1 DEF StartCreate
    <2>2. CASE /\ pc' = [pc EXCEPT ![Main] = "start", ![target] = "run"]
               /\ UNCHANGED heap
        <3>1. Starting(target) /\ pc[target] = "none" BY <1>5 DEF StartCreate, Starting, StarterInv
        <3>2. TypeInv' BY <1>5, <2>2 DEF StartCreate
        <3>3. StarterInv' BY <1>5, <2>2, <3>1 DEF StartCreate, StarterInv, Starting
        <3>4. MutualExclusion' BY <1>5, <2>2, <3>1 DEF StartCreate, MutualExclusion, Holding
        <3> QED BY <3>2, <3>3, <3>4
    <2> QED BY <1>5, <2>1, <2>2 DEF StartCreate
<1>6. ASSUME StartDone PROVE IInv'
    <2>1. TypeInv' BY <1>6 DEF StartDone, startVars
    <2>2. StarterInv' BY <1>6 DEF StartDone, StarterInv, Starting, startVars
    <2>3. MutualExclusion' BY <1>6 DEF StartDone, MutualExclusion, Holding, startVars
    <2> QED BY <2>1, <2>2, <2>3
<1> QED BY <1>1, <1>2, <1>4, <1>5, <1>6

(* The mutex and the condition variable keep it: wait gives up the mutex   *)
(* and sleeps at once, and a woken thread queues for the mutex.            *)
LEMMA MutexSteps ==
    ASSUME IInv, \/ \E t \in Thread : Lock(t) \/ Unlock(t) \/ Wait(t) \/ SpuriousWakeup(t)
                 \/ \E w \in Worker : Broadcast(w) \/ Signal(w)
    PROVE  IInv'
<1> USE ThreadAssumption, HeapAssumption DEF IInv, TypeInv, Thread, Place, Goto, startVars
<1>1. ASSUME NEW t \in Thread, Lock(t) PROVE IInv'
    <2>1. TypeInv' BY <1>1 DEF Lock
    <2>2. StarterInv' BY <1>1 DEF Lock, StarterInv, Starting
    <2>3. MutualExclusion' BY <1>1 DEF Lock, MutualExclusion, Holding
    <2> QED BY <2>1, <2>2, <2>3
<1>2. ASSUME NEW t \in Thread, Unlock(t) PROVE IInv'
    <2>1. TypeInv' BY <1>2 DEF Unlock
    <2>2. StarterInv' BY <1>2 DEF Unlock, StarterInv, Starting
    <2>3. MutualExclusion' BY <1>2 DEF Unlock, MutualExclusion, Holding
    <2> QED BY <2>1, <2>2, <2>3
<1>3. ASSUME NEW t \in Thread, Wait(t) PROVE IInv'
    <2>1. TypeInv' BY <1>3 DEF Wait
    <2>2. StarterInv' BY <1>3 DEF Wait, StarterInv, Starting
    <2>3. MutualExclusion' BY <1>3 DEF Wait, MutualExclusion, Holding
    <2> QED BY <2>1, <2>2, <2>3
<1>4. ASSUME NEW t \in Thread, SpuriousWakeup(t) PROVE IInv'
    <2>1. TypeInv' BY <1>4 DEF SpuriousWakeup
    <2>2. StarterInv' BY <1>4 DEF SpuriousWakeup, StarterInv, Starting
    <2>3. MutualExclusion' BY <1>4 DEF SpuriousWakeup, MutualExclusion, Holding
    <2> QED BY <2>1, <2>2, <2>3
<1>5. ASSUME NEW w \in Worker, NEW woken \in SUBSET Sleeping, pc[w] = "wake", Woken(woken, w, "unlock"),
             UNCHANGED <<startVars, owner>>
      PROVE  IInv'
    <2>1. TypeInv' BY <1>5 DEF Woken, Sleeping
    <2>2. StarterInv' BY <1>5 DEF Woken, Sleeping, StarterInv, Starting
    <2>3. MutualExclusion' BY <1>5 DEF Woken, Sleeping, MutualExclusion, Holding
    <2> QED BY <2>1, <2>2, <2>3
<1>6. ASSUME NEW w \in Worker, Broadcast(w) PROVE IInv'
    BY <1>5, <1>6 DEF Broadcast
<1>7. ASSUME NEW w \in Worker, Signal(w) PROVE IInv'
    <2>1. CASE Sleeping = {}
        <3>1. Woken({}, w, "unlock") BY <1>7, <2>1 DEF Signal, Woken
        <3> QED BY <1>5, <1>7, <3>1 DEF Signal
    <2>2. CASE Sleeping # {}
        <3>1. PICK s \in Sleeping : Woken({s}, w, "unlock") BY <1>7, <2>2 DEF Signal
        <3> QED BY <1>5, <1>7, <3>1 DEF Signal
    <2> QED BY <2>1, <2>2
<1> QED BY <1>1, <1>2, <1>3, <1>4, <1>6, <1>7

(* What the program does keeps it: counting, looking and joining.          *)
LEMMA ProgramSteps ==
    ASSUME IInv, \/ \E w \in Worker : Check(w) \/ Load(w) \/ Store(w) \/ Clean(w)
                 \/ Outer \/ Inner \/ Finish
    PROVE  IInv'
<1> USE ThreadAssumption, HeapAssumption DEF IInv, TypeInv, Thread, Place, Goto, startVars
<1>1. ASSUME NEW w \in Worker, Check(w) \/ Load(w) \/ Store(w) PROVE IInv'
    <2>1. TypeInv' BY <1>1 DEF Check, Load, Store
    <2>2. StarterInv' BY <1>1 DEF Check, Load, Store, StarterInv, Starting
    <2>3. MutualExclusion' BY <1>1 DEF Check, Load, Store, MutualExclusion, Holding
    <2> QED BY <2>1, <2>2, <2>3
<1>2. ASSUME NEW w \in Worker, Clean(w) PROVE IInv'
    <2>1. TypeInv' BY <1>2 DEF Clean
    <2>2. StarterInv' BY <1>2 DEF Clean, StarterInv, Starting
    <2>3. MutualExclusion' BY <1>2 DEF Clean, MutualExclusion, Holding
    <2> QED BY <2>1, <2>2, <2>3
<1>3. ASSUME Outer \/ Inner PROVE IInv'
    <2>1. TypeInv' BY <1>3 DEF Outer, Inner
    <2>2. StarterInv' BY <1>3 DEF Outer, Inner, StarterInv, Starting
    <2>3. MutualExclusion' BY <1>3 DEF Outer, Inner, MutualExclusion, Holding
    <2> QED BY <2>1, <2>2, <2>3
<1>4. ASSUME Finish PROVE IInv'
    <2>1. TypeInv' BY <1>4 DEF Finish
    <2>2. StarterInv' BY <1>4 DEF Finish, StarterInv, Starting
    <2>3. MutualExclusion' BY <1>4 DEF Finish, MutualExclusion, Holding
    <2> QED BY <2>1, <2>2, <2>3
<1> QED BY <1>1, <1>2, <1>3, <1>4

(* The invariant holds in every state of the program.                      *)
LEMMA Invariant == Spec => []IInv
<1>1. Init => IInv BY InitIInv
<1>2. IInv /\ [Next]_vars => IInv'
    <2>1. ASSUME IInv, Next PROVE IInv'
        BY <2>1, StartSteps, MutexSteps, ProgramSteps DEF Next, MainStep, WorkerStep, Step
    <2>2. ASSUME IInv, UNCHANGED vars PROVE IInv'
        BY <2>2 DEF IInv, TypeInv, StarterInv, Starting, MutualExclusion, vars
    <2> QED BY <2>1, <2>2
<1> QED BY <1>1, <1>2, PTL DEF Spec

(* However many threads use thread_mutex_lock(), thread_condvar_wait() and *)
(* the rest, one at a time is where it needs the mutex, and it holds it.   *)
THEOREM Exclusion == Spec => []MutualExclusion
<1>1. IInv => MutualExclusion BY DEF IInv
<1> QED BY <1>1, Invariant, PTL

(* Every thread gets the data of its own thread_start(), and at the end no *)
(* Starter is left, whichever calls failed and whatever malloc reused.     *)
THEOREM Starters == Spec => []StartersAccounted
<1>1. IInv => StartersAccounted
    BY HeapAssumption DEF IInv, TypeInv, StarterInv, Starting, StartersAccounted, Thread
<1> QED BY <1>1, Invariant, PTL

-----------------------------------------------------------------------------
(* Counting.  A worker between the load and the store of ++g_messenger has *)
(* the mutex and the present value, for no other worker stores meanwhile.  *)
CountInv ==
    /\ messenger \in Nat /\ seen \in [Thread -> Nat]
    /\ \A w \in Worker : pc[w] = "write" => seen[w] = messenger
    /\ NoLostUpdate

LEMMA LoadStore ==
    ASSUME IInv, CountInv, NEW w \in Worker, Load(w) \/ Store(w)
    PROVE  CountInv'
<1> USE ThreadAssumption, HeapAssumption DEF IInv, TypeInv, Thread, CountInv, NoLostUpdate, Goto
<1>1. CASE Load(w) BY <1>1 DEF Load
<1>2. CASE Store(w)
    <2>1. seen[w] = messenger /\ owner = w /\ pc[w] = "write"
        BY <1>2 DEF Store, MutualExclusion, Holding
    <2>2. messenger' = messenger + 1 /\ added' = added + 1 /\ seen' = seen
        BY <1>2, <2>1 DEF Store
    <2>3. ASSUME NEW v \in Worker PROVE pc'[v] # "write"
        <3>1. CASE v = w BY <1>2, <3>1 DEF Store
        <3>2. CASE v # w
            <4>1. owner # v BY <2>1, <3>2
            <4>2. pc[v] # "write" BY <4>1 DEF MutualExclusion, Holding
            <4> QED BY <1>2, <3>2, <4>2 DEF Store
        <3> QED BY <3>1, <3>2
    <2> QED BY <2>2, <2>3
<1> QED BY <1>1, <1>2

(* No other step stores, or brings a worker between a load and a store.    *)
LEMMA OtherSteps ==
    ASSUME IInv, [Next]_vars, \A w \in Worker : ~Load(w) /\ ~Store(w),
           seen \in [Thread -> Nat], messenger \in Nat
    PROVE  /\ messenger' = messenger /\ added' = added /\ seen' \in [Thread -> Nat]
           /\ \A w \in Worker : seen'[w] = seen[w] /\ (pc'[w] = "write" => pc[w] = "write")
<1> USE ThreadAssumption, HeapAssumption DEF IInv, TypeInv, Thread, Goto, countVars
<1>1. CASE \E w \in Worker : StartAlloc(w) \/ Run(w) \/ Check(w) \/ Clean(w)
    BY <1>1 DEF StartAlloc, Run, Check, Clean
<1>2. CASE StartAttr \/ StartCreate \/ StartDone
    BY <1>2 DEF StartAttr, StartCreate, StartFail, StartDone
<1>3. CASE Outer \/ Inner \/ Finish
    BY <1>3 DEF Outer, Inner, Finish
<1>4. CASE \E t \in Thread : Step(t) \/ SpuriousWakeup(t)
    BY <1>4 DEF Step, Lock, Unlock, Wait, SpuriousWakeup
<1>5. CASE \E w \in Worker : Broadcast(w) \/ Signal(w)
    <2>1. PICK w \in Worker : Broadcast(w) \/ Signal(w) BY <1>5
    <2>2. UNCHANGED <<messenger, seen, added>> BY <2>1 DEF Broadcast, Signal
    <2>3. \A v \in Worker : pc'[v] = "write" => pc[v] = "write"
        <3>1. CASE Broadcast(w) BY <3>1 DEF Broadcast, Woken
        <3>2. CASE Signal(w) BY <3>2 DEF Signal, Woken
        <3> QED BY <2>1, <3>1, <3>2
    <2> QED BY <2>2, <2>3
<1>6. CASE UNCHANGED vars BY <1>6 DEF vars, countVars
<1> QED BY <1>1, <1>2, <1>3, <1>4, <1>5, <1>6 DEF Next, MainStep, WorkerStep

(* ++g_messenger under the mutex loses no increment, whichever thread is   *)
(* scheduled between its load and its store.                               *)
THEOREM NothingLost == Spec => []NoLostUpdate
<1>1. Init => CountInv
    BY ThreadAssumption DEF Init, CountInv, NoLostUpdate, Thread
<1>2. IInv /\ CountInv /\ [Next]_vars => CountInv'
    <2> SUFFICES ASSUME IInv, CountInv, [Next]_vars PROVE CountInv' OBVIOUS
    <2>1. CASE \E w \in Worker : Load(w) \/ Store(w) BY <2>1, LoadStore
    <2>2. CASE \A w \in Worker : ~Load(w) /\ ~Store(w)
        BY <2>2, OtherSteps DEF CountInv, NoLostUpdate
    <2> QED BY <2>1, <2>2
<1>3. CountInv => NoLostUpdate BY DEF CountInv
<1> QED BY <1>1, <1>2, <1>3, Invariant, PTL DEF Spec
=============================================================================
