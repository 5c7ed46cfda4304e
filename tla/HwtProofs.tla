----------------------------- MODULE HwtProofs -----------------------------
(***************************************************************************)
(* Proofs about Hwt: for any number of widgets and any depth of events,    *)
(* slots and widgets agree, an event reads no widget that is gone, and it  *)
(* calls one callback at most.                                             *)
(***************************************************************************)
EXTENDS Hwt, TLAPS

StackFrame == [widget : Widget \cup {Null}, passed : Nat, gone : BOOLEAN]

TreeTypes ==
    /\ kind \in [Widget -> Kind]
    /\ mem \in [Widget -> {"free", "live", "lost"}]
    /\ slot \in [Slot -> Widget \cup {Null}]
    /\ parent \in [Widget -> Slot \cup {Null}]
WalkTypes ==
    /\ stack \in Seq(StackFrame)
    /\ flow \in {"idle", "respond", "callback", "break", "freed", "aborted"}
    /\ called \in Seq(Nat)

(* A widget uses no more slots than its kind has, so that destroying it    *)
(* reaches all that hangs on it.                                           *)
SlotsOfKind == \A s \in Slot : slot[s] # Null /\ s # Root => s[2] <= SlotNum(kind[s[1]])

(* An event that is still passed on has called nothing.                    *)
NotCalledYet == flow = "respond" /\ called # <<>> => called[Len(called)] = 0

TreeInv == TreeTypes /\ SlotsOfKind /\ SlotsAgree
WalkInv == WalkTypes /\ NothingReadAfterFree /\ NotCalledYet /\ OneCallbackPerEvent
IInv == TreeInv /\ WalkInv

-----------------------------------------------------------------------------
LEMMA InitIInv == Init => IInv
<1> SUFFICES ASSUME Init PROVE IInv OBVIOUS
<1> USE WidgetAssumption DEF Init
<1>1. TreeTypes BY DEF TreeTypes, Kind
<1>2. SlotsOfKind BY DEF SlotsOfKind
<1>3. SlotsAgree BY DEF SlotsAgree, Live
<1>4. WalkTypes BY DEF WalkTypes
<1>5. NothingReadAfterFree /\ NotCalledYet BY DEF NothingReadAfterFree, NotCalledYet
<1>6. OneCallbackPerEvent BY DEF OneCallbackPerEvent
<1> QED BY <1>1, <1>2, <1>3, <1>4, <1>5, <1>6 DEF IInv, TreeInv, WalkInv

-----------------------------------------------------------------------------
(* The tree.                                                               *)

LEMMA SlotForm ==
    ASSUME NEW s \in Slot
    PROVE  s = Root \/ (s[1] \in Widget /\ s[2] \in 1 .. 2 /\ s = <<s[1], s[2]>>)
BY DEF Slot

LEMMA SlotNumType ==
    ASSUME NEW k PROVE SlotNum(k) \in 0 .. 2
BY DEF SlotNum

(* Below() has the widgets it is asked for, and all that hangs on what it  *)
(* has.                                                                    *)
LEMMA BelowClosed ==
    ASSUME TreeInv, NEW W \in SUBSET Live
    PROVE  /\ W \subseteq Below(W) /\ Below(W) \subseteq Live
           /\ Children(Below(W)) \subseteq Below(W)
<1>1. W \subseteq Below(W) /\ Below(W) \subseteq Live BY DEF Below
<1>2. ASSUME NEW v \in Children(Below(W)) PROVE v \in Below(W)
    <2>1. PICK u \in Below(W) : \E s \in SlotsOf(u) : v = slot[s] /\ v # Null
        BY <1>2 DEF Children
    <2>2. PICK s \in SlotsOf(u) : v = slot[s] /\ v # Null BY <2>1
    <2>3. u \in Widget BY <1>1 DEF Live
    <2>4. s \in Slot BY <2>2, <2>3 DEF SlotsOf, SlotNum, Slot
    <2>5. v \in Live BY <2>2, <2>4 DEF TreeInv, SlotsAgree
    <2>6. ASSUME NEW S, u \in S, Children(S) \subseteq S PROVE v \in S
        BY <2>2, <2>6 DEF Children
    <2> QED BY <2>1, <2>5, <2>6 DEF Below
<1> QED BY <1>1, <1>2

(* What hangs on a widget of W is one of its children.                     *)
LEMMA OwnSlots ==
    ASSUME TreeInv, NEW W, NEW s \in Slot, s # Root, s[1] \in W, slot[s] # Null
    PROVE  slot[s] \in Children(W)
<1>1. s[2] \in 1 .. SlotNum(kind[s[1]])
    BY SlotForm, SlotNumType DEF TreeInv, SlotsOfKind
<1>2. s \in SlotsOf(s[1]) BY <1>1, SlotForm DEF SlotsOf
<1> QED BY <1>2 DEF Children

(* hwt_widget_free() of a widget with all that hangs on it.                *)
LEMMA DestroyedKeepsTree ==
    ASSUME TreeInv, NEW W \in SUBSET Widget, Children(W) \subseteq W,
           NEW m \in SUBSET W, Destroyed(W, m)
    PROVE  TreeInv'
<1> USE WidgetAssumption DEF TreeInv
<1>1. TreeTypes' BY DEF Destroyed, TreeTypes, Kind
<1>2. ASSUME NEW s \in Slot, slot'[s] # Null
      PROVE  slot'[s] = slot[s] /\ slot[s] \notin W /\ (s # Root => s[1] \notin W)
    <2>1. slot'[s] = slot[s] /\ slot[s] \notin W BY <1>2 DEF Destroyed
    <2> QED BY <1>2, <2>1, OwnSlots
<1>3. SlotsOfKind'
    <2> SUFFICES ASSUME NEW s \in Slot, slot'[s] # Null, s # Root
                 PROVE  s[2] <= SlotNum(kind'[s[1]])
        BY DEF SlotsOfKind
    <2>1. kind'[s[1]] = kind[s[1]] BY <1>2, SlotForm DEF Destroyed
    <2> QED BY <1>2, <2>1 DEF SlotsOfKind
<1>4. Live' = Live \ W BY DEF Destroyed, Live
<1>5. SlotsAgree'
    <2>1. ASSUME NEW w \in Live', NEW s \in Slot PROVE slot'[s] = w <=> parent'[w] = s
        <3>1. w \in Live /\ w \in Widget /\ w \notin W BY <1>4 DEF Live
        <3>2. parent'[w] = parent[w] BY <3>1 DEF Destroyed
        <3>3. slot[s] = w <=> slot'[s] = w BY <3>1 DEF Destroyed
        <3> QED BY <3>1, <3>2, <3>3 DEF SlotsAgree
    <2>2. ASSUME NEW s \in Slot, slot'[s] # Null
          PROVE  slot'[s] \in Live' /\ (s = Root \/ s[1] \in Live')
        BY <1>2, <1>4, <2>2 DEF SlotsAgree
    <2> QED BY <2>1, <2>2 DEF SlotsAgree
<1> QED BY <1>1, <1>3, <1>5

LEMMA CreateKeepsTree ==
    ASSUME TreeInv, NEW k \in Kind, Create(k)
    PROVE  TreeInv'
<1> USE WidgetAssumption DEF TreeInv
<1>1. PICK w \in Widget : /\ mem[w] = "free"
                          /\ mem' = [mem EXCEPT ![w] = "live"]
                          /\ kind' = [kind EXCEPT ![w] = k]
                          /\ parent' = [parent EXCEPT ![w] = Null]
                          /\ slot' = [s \in Slot |-> IF s[1] = w THEN Null ELSE slot[s]]
    BY DEF Create
<1>2. TreeTypes' BY <1>1 DEF TreeTypes, Kind
<1>3. ASSUME NEW s \in Slot PROVE slot'[s] = slot[s] /\ slot[s] # w /\ (slot[s] # Null => s[1] # w)
    <2>1. w \notin Live BY <1>1 DEF Live
    <2>2. slot[s] # w /\ (slot[s] # Null => s[1] # w) BY <2>1, SlotForm DEF SlotsAgree, Root
    <2> QED BY <1>1, <2>2
<1>4. SlotsOfKind'
    <2> SUFFICES ASSUME NEW s \in Slot, slot'[s] # Null, s # Root
                 PROVE  s[2] <= SlotNum(kind'[s[1]])
        BY DEF SlotsOfKind
    <2>1. kind'[s[1]] = kind[s[1]] BY <1>1, <1>3, SlotForm DEF TreeTypes
    <2> QED BY <1>3, <2>1 DEF SlotsOfKind
<1>5. Live' = Live \cup {w} BY <1>1 DEF Live, TreeTypes
<1>6. SlotsAgree'
    <2>1. ASSUME NEW v \in Live', NEW s \in Slot PROVE slot'[s] = v <=> parent'[v] = s
        <3>1. CASE v = w
            <4>1. parent'[v] = Null BY <1>1, <3>1 DEF TreeTypes
            <4> QED BY <1>3, <3>1, <4>1
        <3>2. CASE v # w
            <4>1. v \in Live /\ v \in Widget BY <1>5, <3>2 DEF Live
            <4>2. parent'[v] = parent[v] BY <1>1, <3>2, <4>1 DEF TreeTypes
            <4> QED BY <1>3, <4>1, <4>2 DEF SlotsAgree
        <3> QED BY <3>1, <3>2
    <2>2. ASSUME NEW s \in Slot, slot'[s] # Null
          PROVE  slot'[s] \in Live' /\ (s = Root \/ s[1] \in Live')
        BY <1>3, <1>5, <2>2 DEF SlotsAgree
    <2> QED BY <2>1, <2>2 DEF SlotsAgree
<1> QED BY <1>2, <1>4, <1>6

(* hwt_widget_assign() to the root or to a slot of a widget.               *)
LEMMA AssignKeepsTree ==
    ASSUME TreeInv, NEW s \in Slot, NEW w \in Live, Assign(s, w),
           s = Root \/ (s[1] \in Live /\ s[2] <= SlotNum(kind[s[1]]))
    PROVE  TreeInv'
<1> USE WidgetAssumption DEF TreeInv
<1>1. CASE Abort(s, w)
    BY <1>1 DEF Abort, tree, TreeTypes, SlotsOfKind, SlotsAgree, Live
<1>2. CASE MayAssign(s, w) /\ slot' = [slot EXCEPT ![s] = w] /\ parent' = [parent EXCEPT ![w] = s]
           /\ UNCHANGED <<kind, mem, walk>>
    <2>1. w \in Widget /\ slot[s] = Null /\ parent[w] = Null BY <1>2 DEF Live, MayAssign
    <2>2. TreeTypes' BY <1>2, <2>1 DEF TreeTypes
    <2>3. SlotsOfKind' BY <1>2, <2>1 DEF SlotsOfKind, TreeTypes
    <2>4. Live' = Live BY <1>2 DEF Live
    <2>5. ASSUME NEW v \in Live, NEW t \in Slot PROVE slot'[t] = v <=> parent'[v] = t
        <3>1. v \in Widget /\ (slot[t] = v <=> parent[v] = t) BY DEF Live, SlotsAgree
        <3>2. slot'[t] = IF t = s THEN w ELSE slot[t] BY <1>2 DEF TreeTypes
        <3>3. parent'[v] = IF v = w THEN s ELSE parent[v] BY <1>2, <3>1 DEF TreeTypes
        <3> QED BY <2>1, <3>1, <3>2, <3>3
    <2>6. ASSUME NEW t \in Slot, slot'[t] # Null
          PROVE  slot'[t] \in Live /\ (t = Root \/ t[1] \in Live)
        BY <1>2, <2>6 DEF SlotsAgree, TreeTypes
    <2>7. SlotsAgree' BY <2>4, <2>5, <2>6 DEF SlotsAgree
    <2> QED BY <2>2, <2>3, <2>7
<1> QED BY <1>1, <1>2 DEF Assign

LEMMA FreeKeepsTree ==
    ASSUME TreeInv, HwtFree \/ \E w \in Widget : WidgetFree(w)
    PROVE  TreeInv'
<1>1. ASSUME NEW w \in Widget, WidgetFree(w) PROVE TreeInv'
    <2>1. {w} \in SUBSET Live BY <1>1 DEF WidgetFree
    <2>2. /\ {w} \in SUBSET Below({w}) /\ Below({w}) \in SUBSET Widget
          /\ Children(Below({w})) \subseteq Below({w})
        BY <2>1, BelowClosed DEF Live
    <2> QED BY <1>1, <2>2, DestroyedKeepsTree DEF WidgetFree
<1>2. ASSUME HwtFree PROVE TreeInv'
    <2> DEFINE W == {slot[Root]} \ {Null}
    <2>1. W \in SUBSET Live BY DEF TreeInv, SlotsAgree, Slot
    <2>2. Below(W) \in SUBSET Widget /\ Children(Below(W)) \subseteq Below(W)
        BY <2>1, BelowClosed DEF Live
    <2>3. {} \in SUBSET Below(W) /\ Destroyed(Below(W), {}) BY <1>2 DEF HwtFree
    <2> HIDE DEF W
    <2> QED BY <2>2, <2>3, DestroyedKeepsTree
<1> QED BY <1>1, <1>2

(* What a client or an event does keeps the tree.                          *)
LEMMA TreeSteps == TreeInv /\ [Next]_vars => TreeInv'
<1> SUFFICES ASSUME TreeInv, [Next]_vars PROVE TreeInv' OBVIOUS
<1>1. CASE UNCHANGED tree
    BY <1>1 DEF tree, TreeInv, TreeTypes, SlotsOfKind, SlotsAgree, Live
<1>2. ASSUME NEW k \in Kind, Create(k) PROVE TreeInv'
    BY <1>2, CreateKeepsTree
<1>3. ASSUME NEW w \in Widget, SetRoot(w) PROVE TreeInv'
    <2>1. Root \in Slot BY DEF Slot
    <2> QED BY <1>3, <2>1, AssignKeepsTree DEF SetRoot
<1>4. ASSUME NEW p \in Widget, NEW w \in Widget, NEW i \in 1 .. 2, SetChild(p, i, w) PROVE TreeInv'
    <2>1. <<p, i>> \in Slot BY DEF Slot
    <2>2. p \in Live /\ w \in Live /\ i \in 1 .. SlotNum(kind[p]) BY <1>4 DEF SetChild
    <2>3. <<p, i>>[1] \in Live /\ <<p, i>>[2] <= SlotNum(kind[<<p, i>>[1]]) BY <2>2, SlotNumType
    <2> QED BY <1>4, <2>1, <2>2, <2>3, AssignKeepsTree DEF SetChild
<1>5. ASSUME HwtFree \/ \E w \in Widget : WidgetFree(w) PROVE TreeInv'
    BY <1>5, FreeKeepsTree
<1>6. ASSUME SendEvent \/ PassOn \/ CallBack \/ Continue \/ CallbackReturns \/ Unwind \/ EventDone
      PROVE  TreeInv'
    BY <1>1, <1>6 DEF SendEvent, PassOn, CallBack, Continue, CallbackReturns, Unwind, EventDone
<1>7. CASE UNCHANGED vars BY <1>1, <1>7 DEF vars, tree
<1> QED BY <1>2, <1>3, <1>4, <1>5, <1>6, <1>7 DEF Next

-----------------------------------------------------------------------------
(* The walk.  Where an event is not passed on, nothing is promised of the  *)
(* calls under way; and once a callback was called it is never passed on   *)
(* again.                                                                  *)

LEMMA Popping ==
    ASSUME NEW S, NEW q \in Seq(S), q # <<>>
    PROVE  /\ SubSeq(q, 1, Len(q) - 1) \in Seq(S)
           /\ Len(SubSeq(q, 1, Len(q) - 1)) = Len(q) - 1
           /\ \A i \in 1 .. Len(q) - 1 : SubSeq(q, 1, Len(q) - 1)[i] = q[i]
<1> DEFINE n == Len(q) - 1
<1>1. n \in 0 .. Len(q) OBVIOUS
<1>2. ASSUME NEW m \in 0 .. Len(q)
      PROVE  /\ SubSeq(q, 1, m) \in Seq(S) /\ Len(SubSeq(q, 1, m)) = m
             /\ \A i \in 1 .. m : SubSeq(q, 1, m)[i] = q[i]
    OBVIOUS
<1> QED BY <1>1, <1>2

LEMMA FrameChanges ==
    ASSUME NEW f \in StackFrame
    PROVE  [f EXCEPT !.gone = TRUE] \in StackFrame /\ [f EXCEPT !.passed = @ + 1] \in StackFrame
<1>1. [f EXCEPT !.gone = TRUE] \in StackFrame BY Zenon DEF StackFrame
<1>2. [f EXCEPT !.passed = @ + 1] \in StackFrame BY DEF StackFrame
<1> QED BY <1>1, <1>2

(* A client step outside an event or in a callback.                        *)
LEMMA ClientKeepsWalk ==
    ASSUME IInv, \/ \E k \in Kind : Create(k)
                 \/ \E w \in Widget : SetRoot(w)
                 \/ \E p, w \in Widget : \E i \in 1 .. 2 : SetChild(p, i, w)
    PROVE  WalkInv'
<1> USE DEF IInv, WalkInv, WalkTypes, NothingReadAfterFree, NotCalledYet, OneCallbackPerEvent
<1>1. CASE UNCHANGED walk BY <1>1 DEF walk
<1>2. CASE flow' = "aborted" /\ stack' = <<>> /\ called' = <<>> BY <1>2
<1> QED BY <1>1, <1>2 DEF Create, SetRoot, SetChild, Assign, Abort

LEMMA FreeKeepsWalk ==
    ASSUME IInv, HwtFree \/ \E w \in Widget : WidgetFree(w)
    PROVE  WalkInv'
<1>1. PICK W, m : Destroyed(W, m) BY DEF HwtFree, WidgetFree
<1>2. flow' \in {"idle", "callback", "freed"} BY DEF HwtFree, WidgetFree, ClientRuns
<1>3. stack' \in Seq(StackFrame)
    <2>1. stack \in Seq(StackFrame) BY DEF IInv, WalkInv, WalkTypes
    <2>2. stack' = [i \in 1 .. Len(stack) |->
                        IF stack[i].widget \in W THEN [stack[i] EXCEPT !.gone = TRUE] ELSE stack[i]]
        BY <1>1, <2>1 DEF Destroyed
    <2>3. ASSUME NEW i \in 1 .. Len(stack)
          PROVE  stack[i] \in StackFrame /\ [stack[i] EXCEPT !.gone = TRUE] \in StackFrame
        <3>1. stack[i] \in StackFrame BY <2>1
        <3> QED BY <3>1, FrameChanges
    <2>4. stack' \in [1 .. Len(stack) -> StackFrame] BY <2>2, <2>3
    <2> QED BY <2>1, <2>4
<1>4. called' = called BY <1>1 DEF Destroyed
<1> QED BY <1>2, <1>3, <1>4
    DEF IInv, WalkInv, WalkTypes, NothingReadAfterFree, NotCalledYet, OneCallbackPerEvent

LEMMA SendKeepsWalk ==
    ASSUME IInv, SendEvent
    PROVE  WalkInv'
<1> USE DEF SendEvent, IInv, WalkInv, WalkTypes
<1>1. stack \in Seq(StackFrame) /\ Frame(Null) \in StackFrame BY DEF Frame, StackFrame
<1>2. WalkTypes' BY <1>1
<1>3. NothingReadAfterFree'
    <2>1. stack'[Len(stack')].widget = Null /\ Len(stack') \in Nat \ {0} BY <1>1 DEF Frame
    <2>2. ASSUME NEW i \in DOMAIN stack' PROVE Len(stack') \in i .. Len(stack')
        BY <1>2, <2>1
    <2> QED BY <2>1, <2>2 DEF NothingReadAfterFree
<1>4. NotCalledYet' BY DEF NotCalledYet
<1>5. OneCallbackPerEvent' BY DEF OneCallbackPerEvent
<1> QED BY <1>2, <1>3, <1>4, <1>5

LEMMA PassOnKeepsWalk ==
    ASSUME IInv, stack # <<>>, PassOn
    PROVE  WalkInv'
<1> USE WidgetAssumption DEF IInv, WalkInv, WalkTypes
<1> DEFINE next == slot[<<Top.widget, Top.passed + 1>>]
<1>1. stack \in Seq(StackFrame) /\ Len(stack) \in Nat \ {0} OBVIOUS
<1>2. Top \in StackFrame BY <1>1 DEF Top
<1>3. Passed \in Seq(StackFrame) /\ Len(Passed) = Len(stack)
    <2>1. [Top EXCEPT !.passed = @ + 1] \in StackFrame BY <1>2, FrameChanges
    <2> QED BY <1>1, <2>1 DEF Passed, Top
<1>4. \A i \in DOMAIN stack : Passed[i].widget = stack[i].widget /\ Passed[i].gone = stack[i].gone
    BY <1>1, <1>2 DEF Passed, Top, StackFrame
<1>5. CASE next = Null /\ stack' = Passed
    <2>1. WalkTypes' BY <1>3, <1>5 DEF PassOn
    <2>2. NothingReadAfterFree'
        <3> SUFFICES ASSUME NEW i \in DOMAIN stack,
                            \A j \in i .. Len(stack) : stack'[j].widget # Null
                     PROVE  ~stack'[i].gone
            <4>1. Len(stack') = Len(stack) /\ DOMAIN stack' = DOMAIN stack BY <1>1, <1>3, <1>5
            <4> QED BY <4>1 DEF NothingReadAfterFree
        <3>1. \A j \in i .. Len(stack) : j \in DOMAIN stack /\ stack[j].widget # Null
            BY <1>1, <1>4, <1>5
        <3>2. ~stack[i].gone BY <3>1 DEF NothingReadAfterFree, PassOn
        <3> QED BY <1>4, <1>5, <3>2
    <2> QED BY <2>1, <2>2 DEF PassOn, NotCalledYet, OneCallbackPerEvent
<1>6. CASE next # Null /\ stack' = Append(Passed, Frame(next))
    <2>1. <<Top.widget, Top.passed + 1>> \in Slot
        BY <1>1, <1>2, SlotNumType DEF PassOn, SlotsLeft, StackFrame, Slot, Root, SlotNum
    <2>2. next \in Widget BY <1>6, <2>1 DEF TreeInv, TreeTypes
    <2>3. Frame(next) \in StackFrame BY <2>2 DEF Frame, StackFrame
    <2>4. WalkTypes' BY <1>3, <1>6, <2>3 DEF PassOn
    <2>5. NothingReadAfterFree'
        <3> SUFFICES ASSUME NEW i \in DOMAIN stack',
                            \A j \in i .. Len(stack') : stack'[j].widget # Null
                     PROVE  ~stack'[i].gone
            BY DEF NothingReadAfterFree
        <3>1. Len(stack') = Len(stack) + 1 /\ DOMAIN stack' = 1 .. Len(stack) + 1
            BY <1>3, <1>6, <2>3
        <3>2. CASE i = Len(stack) + 1 BY <1>3, <1>6, <2>3, <3>2 DEF Frame
        <3>3. CASE i # Len(stack) + 1
            <4>1. i \in DOMAIN stack /\ \A j \in i .. Len(stack) : stack'[j] = Passed[j] /\ j \in DOMAIN stack
                BY <1>1, <1>3, <1>6, <2>3, <3>1, <3>3
            <4>2. \A j \in i .. Len(stack) : stack[j].widget # Null BY <1>1, <1>4, <3>1, <4>1
            <4>3. ~stack[i].gone BY <4>1, <4>2 DEF NothingReadAfterFree, PassOn
            <4>4. i \in i .. Len(stack) BY <1>1, <4>1
            <4> QED BY <1>4, <4>1, <4>3, <4>4
        <3> QED BY <3>2, <3>3
    <2> QED BY <2>4, <2>5 DEF PassOn, NotCalledYet, OneCallbackPerEvent
<1> QED BY <1>5, <1>6 DEF PassOn

(* The calls of respond() that return.                                     *)
LEMMA ReturnKeepsWalk ==
    ASSUME IInv, stack # <<>>, Continue \/ CallbackReturns \/ Unwind \/ EventDone
    PROVE  WalkInv'
<1> USE DEF IInv, WalkInv, WalkTypes
<1>1. stack \in Seq(StackFrame) /\ Len(stack) \in Nat \ {0} OBVIOUS
<1>2. stack' = Popped BY DEF Continue, CallbackReturns, Unwind, EventDone
<1>3. /\ stack' \in Seq(StackFrame) /\ Len(stack') = Len(stack) - 1
      /\ \A i \in 1 .. Len(stack) - 1 : stack'[i] = stack[i]
    BY <1>1, <1>2, Popping DEF Popped
<1>4. CASE Continue
    <2>1. WalkTypes' BY <1>3, <1>4 DEF Continue
    <2>2. NothingReadAfterFree'
        <3> SUFFICES ASSUME NEW i \in DOMAIN stack',
                            \A j \in i .. Len(stack') : stack'[j].widget # Null
                     PROVE  ~stack'[i].gone
            BY DEF NothingReadAfterFree
        <3>1. i \in DOMAIN stack /\ stack'[i] = stack[i] BY <1>1, <1>3
        <3>2. \A j \in i .. Len(stack) : stack[j].widget # Null
            BY <1>1, <1>3, <1>4 DEF Continue, Top
        <3>3. ~stack[i].gone BY <1>4, <3>1, <3>2 DEF NothingReadAfterFree, Continue
        <3> QED BY <3>1, <3>3
    <2> QED BY <1>4, <2>1, <2>2 DEF Continue, NotCalledYet, OneCallbackPerEvent
<1>5. CASE CallbackReturns \/ Unwind
    BY <1>3, <1>5
    DEF CallbackReturns, Unwind, NothingReadAfterFree, NotCalledYet, OneCallbackPerEvent
<1>6. CASE EventDone
    <2>1. flow' \in {"idle", "callback"} BY <1>6 DEF EventDone
    <2>2. CASE called = <<>>
        <3>1. called' = <<>> BY <1>6, <2>2 DEF EventDone
        <3> QED BY <1>3, <2>1, <3>1 DEF NothingReadAfterFree, NotCalledYet, OneCallbackPerEvent
    <2>3. CASE called # <<>>
        <3>1. called \in Seq(Nat) /\ called' = SubSeq(called, 1, Len(called) - 1) BY <1>6 DEF EventDone
        <3>2. /\ called' \in Seq(Nat) /\ Len(called') = Len(called) - 1
              /\ \A d \in 1 .. Len(called) - 1 : called'[d] = called[d]
            BY <2>3, <3>1, Popping
        <3>3. OneCallbackPerEvent' BY <3>1, <3>2 DEF OneCallbackPerEvent
        <3> QED BY <1>3, <2>1, <3>2, <3>3 DEF NothingReadAfterFree, NotCalledYet
    <2> QED BY <2>2, <2>3
<1> QED BY <1>4, <1>5, <1>6

LEMMA CallBackKeepsWalk ==
    ASSUME IInv, CallBack
    PROVE  WalkInv'
<1> USE DEF IInv, WalkInv, WalkTypes, CallBack
<1>1. NothingReadAfterFree' /\ NotCalledYet' BY DEF NothingReadAfterFree, NotCalledYet
<1>2. CASE called = <<>>
    <2>1. called' = called BY <1>2
    <2>2. WalkTypes' /\ OneCallbackPerEvent' BY <2>1 DEF OneCallbackPerEvent
    <2> QED BY <1>1, <2>2
<1>3. CASE called # <<>>
    <2>1. called \in Seq(Nat) /\ Len(called) \in DOMAIN called /\ called[Len(called)] = 0
        BY <1>3 DEF NotCalledYet
    <2>2. called' \in Seq(Nat) /\ Len(called') = Len(called)
          /\ \A d \in 1 .. Len(called) : called'[d] = IF d = Len(called) THEN 1 ELSE called[d]
        BY <2>1
    <2>3. WalkTypes' BY <2>2
    <2>4. \A d \in 1 .. Len(called) : called[d] <= 1 BY DEF OneCallbackPerEvent
    <2>5. ASSUME NEW d \in 1 .. Len(called') PROVE called'[d] <= 1
        <3>1. called'[d] = IF d = Len(called) THEN 1 ELSE called[d] BY <2>2
        <3> HIDE DEF CallBack
        <3> QED BY <2>2, <2>4, <3>1
    <2>6. OneCallbackPerEvent' BY <2>5 DEF OneCallbackPerEvent
    <2> QED BY <1>1, <2>3, <2>6
<1> QED BY <1>2, <1>3

LEMMA WalkSteps == IInv /\ [Next]_vars => WalkInv'
<1> SUFFICES ASSUME IInv, [Next]_vars PROVE WalkInv' OBVIOUS
<1>1. CASE UNCHANGED vars
    BY <1>1
    DEF vars, IInv, WalkInv, WalkTypes, NothingReadAfterFree, NotCalledYet, OneCallbackPerEvent
<1> QED BY <1>1, ClientKeepsWalk, FreeKeepsWalk, SendKeepsWalk, PassOnKeepsWalk, CallBackKeepsWalk,
           ReturnKeepsWalk DEF Next

LEMMA Invariant == Spec => []IInv
<1>1. IInv /\ [Next]_vars => IInv' BY TreeSteps, WalkSteps DEF IInv
<1> QED BY InitIInv, <1>1, PTL DEF Spec

-----------------------------------------------------------------------------
(* Theorem: however a client builds and takes apart its trees, also from   *)
(* inside callbacks, slots and widgets agree about who is where            *)
(* (hwt_widget_assign(), hwt_widget_free()).                               *)
THEOREM Agreement == Spec => []SlotsAgree
<1>1. IInv => SlotsAgree BY DEF IInv, TreeInv
<1> QED BY Invariant, <1>1, PTL

(* Theorem: whatever callbacks free, no call of respond() that goes on     *)
(* looks at a widget that is gone (hwt_widget_respond()).                  *)
THEOREM WalkIsSafe == Spec => []NothingReadAfterFree
<1>1. IInv => NothingReadAfterFree BY DEF IInv, WalkInv
<1> QED BY Invariant, <1>1, PTL

(* Theorem: an event calls one callback at most, at any depth of events    *)
(* sent from callbacks (HWT_EVENT_RESPOND).                                *)
THEOREM CalledOnce == Spec => []OneCallbackPerEvent
<1>1. IInv => OneCallbackPerEvent BY DEF IInv, WalkInv
<1> QED BY Invariant, <1>1, PTL
=============================================================================
