-------------------------------- MODULE Hwt --------------------------------
(***************************************************************************)
(* The widget tree of hwt: hwt.c with the built-in buttons, grids, labels  *)
(* and panels.  A client creates widgets, assigns them to slots, frees     *)
(* them and sends events, also from inside button callbacks.  An event     *)
(* walks the tree one slot at a time, so that a callback may change the    *)
(* tree under the walk.  Layout is in Layout.                              *)
(*                                                                         *)
(* The client is assumed to use pointers to widgets that live only, to     *)
(* assign no widget below itself, and to free hwt outside callbacks.       *)
(***************************************************************************)
EXTENDS Integers, Sequences

CONSTANTS
    Widget,     (* bound: the addresses malloc hands out for widgets       *)
    MaxDepth,   (* bound: events sent from callbacks of callbacks ...      *)
    Null

Root == <<Null, 1>>
Slot == {Root} \cup (Widget \X (1 .. 2))

ASSUME WidgetAssumption == Null \notin Widget \cup Slot
ASSUME DepthAssumption == MaxDepth \in Nat \ {0}

VARIABLES
    kind,       (* per widget: its type, "label" where there is none       *)
    mem,        (* per widget: "free", "live", or "lost" (destroyed, and   *)
                (*   its memory neither freed nor reachable any more)      *)
    slot,       (* the pointers that hold widgets: the root and children   *)
    parent,     (* per widget: the slot it thinks it is in                 *)
    stack,      (* the calls of respond() under way, innermost last        *)
    flow,       (* what the innermost of them is doing                     *)
    called      (* history: per event under way, the callbacks it called   *)

vars == <<kind, mem, slot, parent, stack, flow, called>>
tree == <<kind, mem, slot, parent>>
walk == <<stack, flow, called>>

SlotNum(k) == IF k = "grid" THEN 2 ELSE IF k = "label" THEN 0 ELSE 1
Kind == {"button", "grid", "label", "panel"}

SlotsOf(w) == {<<w, i>> : i \in 1 .. SlotNum(kind[w])}
Live == {w \in Widget : mem[w] = "live"}

(* Client code runs before events and in callbacks.                        *)
ClientRuns == flow \in {"idle", "callback"}

(* The widgets of a set and all below them.                                *)
Children(W) == {slot[s] : s \in UNION {SlotsOf(w) : w \in W}} \ {Null}
Below(W) ==
    LET Closed == {S \in {W \cup V : V \in SUBSET (Live \ W)} : Children(S) \subseteq S}
    IN  {w \in Live : \A S \in Closed : w \in S}

-----------------------------------------------------------------------------
(* Creating and assigning.                                                 *)

Create(k) ==
    /\ ClientRuns
    /\ \E w \in Widget :
        /\ mem[w] = "free"
        /\ mem' = [mem EXCEPT ![w] = "live"]
        /\ kind' = [kind EXCEPT ![w] = k]
        /\ parent' = [parent EXCEPT ![w] = Null]
        /\ slot' = [s \in Slot |-> IF s[1] = w THEN Null ELSE slot[s]]
    /\ UNCHANGED walk

(* A slot that has a widget and a widget that has a slot abort.            *)
MayAssign(s, w) == slot[s] = Null /\ parent[w] = Null

Abort(s, w) ==
    /\ ~MayAssign(s, w)
    /\ flow' = "aborted" /\ stack' = <<>> /\ called' = <<>>
    /\ UNCHANGED tree

Assign(s, w) ==
    \/ /\ MayAssign(s, w)
       /\ slot' = [slot EXCEPT ![s] = w]
       /\ parent' = [parent EXCEPT ![w] = s]
       /\ UNCHANGED <<kind, mem, walk>>
    \/ Abort(s, w)

SetRoot(w) == ClientRuns /\ w \in Live /\ Assign(Root, w)

SetChild(p, i, w) ==
    /\ ClientRuns /\ {p, w} \subseteq Live
    /\ i \in 1 .. SlotNum(kind[p])
    /\ MayAssign(<<p, i>>, w) => p \notin Below({w})
    /\ Assign(<<p, i>>, w)

-----------------------------------------------------------------------------
(* Freeing.  A widget is taken out of its slot and destroyed, which frees  *)
(* its children through their slots: by then the slot is NULL, so that     *)
(* free() gets NULL and the memory of every child is lost.                 *)

SeededDestroyed(W, m) ==    (* seeded fault: the slot keeps the widget     *)
    /\ mem' = [w \in Widget |-> IF w \in m THEN "free" ELSE IF w \in W THEN "lost" ELSE mem[w]]
    /\ parent' = [w \in Widget |-> IF w \in W THEN Null ELSE parent[w]]
    /\ stack' = [i \in DOMAIN stack |->
                    IF stack[i].widget \in W THEN [stack[i] EXCEPT !.gone = TRUE] ELSE stack[i]]
    /\ UNCHANGED <<kind, called, slot>>

Destroyed(W, m) ==
    /\ mem' = [w \in Widget |-> IF w \in m THEN "free" ELSE IF w \in W THEN "lost" ELSE mem[w]]
    /\ slot' = [s \in Slot |-> IF slot[s] \in W THEN Null ELSE slot[s]]
    /\ parent' = [w \in Widget |-> IF w \in W THEN Null ELSE parent[w]]
    /\ stack' = [i \in DOMAIN stack |->
                    IF stack[i].widget \in W THEN [stack[i] EXCEPT !.gone = TRUE] ELSE stack[i]]
    /\ kind' = [w \in Widget |-> IF w \in W THEN "label" ELSE kind[w]]
    /\ UNCHANGED called

(* The client frees through a pointer of its own, which is still set.      *)
WidgetFree(w) ==
    /\ ClientRuns /\ w \in Live
    /\ Destroyed(Below({w}), {w})
    /\ UNCHANGED flow

HwtFree ==
    /\ flow = "idle"
    /\ Destroyed(Below({slot[Root]} \ {Null}), {})
    /\ flow' = "freed"

-----------------------------------------------------------------------------
(* Events.  A frame is a widget and the number of slots it has passed on   *)
(* the event to; the frame of Null is hwt_send_event() itself.  That the   *)
(* widget is gone is history.                                              *)

Top == stack[Len(stack)]
Frame(w) == [widget |-> w, passed |-> 0, gone |-> FALSE]
Popped == SubSeq(stack, 1, Len(stack) - 1)
Passed == [stack EXCEPT ![Len(stack)].passed = @ + 1]

SendEvent ==
    /\ ClientRuns /\ Len(called) < MaxDepth
    /\ stack' = Append(stack, Frame(Null))
    /\ called' = Append(called, 0)
    /\ flow' = "respond"
    /\ UNCHANGED tree

SlotsLeft == Top.passed < IF Top.widget = Null THEN 1 ELSE SlotNum(kind[Top.widget])

(* hwt_widget_respond() on the next slot of the widget.                    *)
PassOn ==
    /\ flow = "respond" /\ SlotsLeft
    /\ LET next == slot[<<Top.widget, Top.passed + 1>>]
       IN  stack' = IF next = Null THEN Passed ELSE Append(Passed, Frame(next))
    /\ UNCHANGED <<tree, flow, called>>

(* A button the pointer is over calls its callback after its child.        *)
CallBack ==
    /\ flow = "respond" /\ ~SlotsLeft /\ Top.widget # Null
    /\ kind[Top.widget] = "button"
    /\ flow' = "callback"
    /\ called' = [called EXCEPT ![Len(called)] = @ + 1]
    /\ UNCHANGED <<tree, stack>>

(* HWT_CONTINUE: the caller goes on with its next slot.                    *)
Continue ==
    /\ flow = "respond" /\ ~SlotsLeft /\ Top.widget # Null
    /\ stack' = Popped
    /\ UNCHANGED <<tree, flow, called>>

SeededCallbackReturns ==    (* seeded fault: the button returns CONTINUE   *)
    /\ flow = "callback"
    /\ flow' = "respond"
    /\ stack' = Popped
    /\ UNCHANGED <<tree, called>>

(* HWT_BREAK: no caller looks at its widget again.                         *)
CallbackReturns ==
    /\ flow = "callback"
    /\ flow' = "break"
    /\ stack' = Popped
    /\ UNCHANGED <<tree, called>>

Unwind ==
    /\ flow = "break" /\ Top.widget # Null
    /\ stack' = Popped
    /\ UNCHANGED <<tree, flow, called>>

(* hwt_send_event() returns to the client.                                 *)
EventDone ==
    /\ Top.widget = Null
    /\ flow = "break" \/ (flow = "respond" /\ ~SlotsLeft)
    /\ stack' = Popped
    /\ called' = SubSeq(called, 1, Len(called) - 1)
    /\ flow' = IF Len(stack) = 1 THEN "idle" ELSE "callback"
    /\ UNCHANGED tree

Init ==
    /\ kind \in [Widget -> {"label"}]
    /\ mem = [w \in Widget |-> "free"]
    /\ slot = [s \in Slot |-> Null]
    /\ parent = [w \in Widget |-> Null]
    /\ stack = <<>> /\ flow = "idle" /\ called = <<>>

Next ==
    \/ \E k \in Kind : Create(k)
    \/ \E w \in Widget : SetRoot(w) \/ WidgetFree(w)
    \/ \E p, w \in Widget : \E i \in 1 .. 2 : SetChild(p, i, w)
    \/ HwtFree
    \/ SendEvent
    \/ stack # <<>> /\ (PassOn \/ CallBack \/ Continue \/ CallbackReturns \/ Unwind \/ EventDone)

Spec == Init /\ [][Next]_vars

-----------------------------------------------------------------------------
(* Properties.                                                             *)

(* Slots and widgets agree (hwt_widget_assign(), hwt_widget_free()): a     *)
(* widget that has a slot is what the slot holds, one that has none is in  *)
(* no slot, and all slots in use belong to widgets that live: nothing      *)
(* hangs on a widget that is gone, and nothing that is gone hangs.         *)
SlotsAgree ==
    /\ \A w \in Live, s \in Slot : slot[s] = w <=> parent[w] = s
    /\ \A s \in Slot : slot[s] # Null => slot[s] \in Live /\ (s = Root \/ s[1] \in Live)

(* A callback may free any widget the event went through, its own button   *)
(* and the root included: no call of respond() that has yet to look at its *)
(* widget is left with one that is gone.                                   *)
NothingReadAfterFree ==
    flow = "respond" => \A i \in DOMAIN stack :
        (\A j \in i .. Len(stack) : stack[j].widget # Null) => ~stack[i].gone

(* An event calls one callback at most, however the callback changes the   *)
(* tree and whatever events it sends.                                      *)
OneCallbackPerEvent == \A d \in 1 .. Len(called) : called[d] <= 1
=============================================================================
