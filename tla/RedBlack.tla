------------------------------ MODULE RedBlack ------------------------------
(***************************************************************************)
(* The red-black trees of tree.h.  A node is named by its key; a tree has  *)
(* a root and, for the nodes in it, their links and colour, so that what a *)
(* removed node still holds cannot be read.  The code writes every case    *)
(* twice, once for each side; here side is a parameter.                    *)
(***************************************************************************)
EXTENDS Integers, FiniteSets, FiniteSetsExt, TLC

Null == 0

Empty == [root |-> Null, node |-> <<>>]

Nodes(t) == DOMAIN t.node
Other(side) == IF side = "left" THEN "right" ELSE "left"
IsRed(t, n) == n # Null /\ t.node[n].red
SideOf(t, parent, n) == IF t.node[parent].left = n THEN "left" ELSE "right"

Coloured(t, black, red) ==
    [t EXCEPT !.node = [n \in Nodes(t) |-> IF n \in black \cup red THEN [t.node[n] EXCEPT !.red = n \in red]
                                           ELSE t.node[n]]]
SetParent(t, n, parent) == IF n = Null THEN t ELSE [t EXCEPT !.node[n].parent = parent]

(* What hung below parent, or was the root, is replaced by new.            *)
Hang(t, parent, old, new) ==
    IF parent = Null THEN [t EXCEPT !.root = new]
    ELSE [t EXCEPT !.node[parent][SideOf(t, parent, old)] = new]

SeededRotate(t, elm, side) ==    (* seeded fault: the child that moves keeps its parent *)
    LET tmp == t.node[elm][Other(side)]
        up == t.node[elm].parent
        hung == Hang(SetParent([t EXCEPT !.node[elm][Other(side)] = t.node[tmp][side]], tmp, up), up, elm, tmp)
    IN  SetParent([hung EXCEPT !.node[tmp][side] = elm], elm, tmp)

(* RB_ROTATE_LEFT and _RIGHT: elm goes down on the side.                   *)
Rotate(t, elm, side) ==
    LET tmp == t.node[elm][Other(side)]
        inner == t.node[tmp][side]
        up == t.node[elm].parent
        moved == SetParent([t EXCEPT !.node[elm][Other(side)] = inner], inner, elm)
        hung == Hang(SetParent(moved, tmp, up), up, elm, tmp)
    IN  SetParent([hung EXCEPT !.node[tmp][side] = elm], elm, tmp)

-----------------------------------------------------------------------------
RECURSIVE InsertColor(_, _)
InsertColor(t, elm) ==
    LET parent == t.node[elm].parent
        gparent == t.node[parent].parent
        side == SideOf(t, gparent, parent)
        uncle == t.node[gparent][Other(side)]
        bent == t.node[parent][Other(side)] = elm
        straight == IF bent THEN Rotate(t, parent, side) ELSE t
        upper == IF bent THEN elm ELSE parent
        lower == IF bent THEN parent ELSE elm
    IN  IF ~IsRed(t, parent) THEN Coloured(t, {t.root}, {})
        ELSE IF IsRed(t, uncle) THEN InsertColor(Coloured(t, {uncle, parent}, {gparent}), gparent)
        ELSE InsertColor(Rotate(Coloured(straight, {upper}, {gparent}), gparent, Other(side)), lower)

(* The last node on the way down to key, and the node of the key, if any.  *)
RECURSIVE Descend(_, _, _, _)
Descend(t, key, tmp, parent) ==
    IF tmp \in {Null, key} THEN [found |-> tmp, parent |-> parent]
    ELSE Descend(t, key, t.node[tmp][IF key < tmp THEN "left" ELSE "right"], tmp)

Find(t, key) == Descend(t, key, t.root, Null).found

Insert(t, elm) ==
    LET parent == Descend(t, elm, t.root, Null).parent
        set == elm :> [left |-> Null, right |-> Null, parent |-> parent, red |-> TRUE]
        linked == IF parent = Null THEN [t EXCEPT !.root = elm]
                  ELSE [t EXCEPT !.node[parent][IF elm < parent THEN "left" ELSE "right"] = elm]
    IN  IF Find(t, elm) # Null THEN t ELSE InsertColor([linked EXCEPT !.node = @ @@ set], elm)

-----------------------------------------------------------------------------
RECURSIVE RemoveColor(_, _, _)
RemoveColor(t, parent, elm) ==
    LET side == SideOf(t, parent, elm)
        other == Other(side)
        sibling == t.node[parent][other]
        (* the sibling made black *)
        t1 == IF t.node[sibling].red THEN Rotate(Coloured(t, {sibling}, {parent}), parent, side) ELSE t
        tmp == t1.node[parent][other]
        near == t1.node[tmp][side]
        far == t1.node[tmp][other]
        (* its child on the far side made red *)
        t2 == IF IsRed(t1, far) THEN t1 ELSE Rotate(Coloured(t1, {near} \ {Null}, {tmp}), tmp, other)
        top == t2.node[parent][other]
        black == {parent, t2.node[top][other]} \cup (IF t2.node[parent].red THEN {} ELSE {top})
        t3 == Rotate(Coloured(t2, black, {top} \ black), parent, side)
    IN  IF IsRed(t, elm) \/ elm = t.root THEN Coloured(t, {elm}, {})
        ELSE IF ~IsRed(t1, near) /\ ~IsRed(t1, far)
             THEN RemoveColor(Coloured(t1, {}, {tmp}), t1.node[parent].parent, parent)
        ELSE Coloured(t3, {t3.root}, {})

(* The first or last node below n.                                         *)
RECURSIVE Outermost(_, _, _)
Outermost(t, n, side) == IF t.node[n][side] = Null THEN n ELSE Outermost(t, t.node[n][side], side)

Remove(t, old) ==
    LET two == t.node[old].left # Null /\ t.node[old].right # Null
        elm == IF two THEN Outermost(t, t.node[old].right, "left") ELSE old
        child == IF t.node[elm].left = Null THEN t.node[elm].right ELSE t.node[elm].left
        parent == t.node[elm].parent
        color == t.node[elm].red
        cut == Hang(SetParent(t, child, parent), parent, elm, child)
        (* the successor takes the place, links and colour of old *)
        copied == [cut EXCEPT !.node[elm] = cut.node[old]]
        moved == Hang(copied, copied.node[old].parent, old, elm)
        placed == SetParent(SetParent(moved, moved.node[old].left, elm), moved.node[old].right, elm)
        gone == [IF two THEN placed ELSE cut EXCEPT !.node = [n \in Nodes(t) \ {old} |-> @[n]]]
    IN  IF color THEN gone ELSE RemoveColor(gone, IF parent = old THEN elm ELSE parent, child)

-----------------------------------------------------------------------------
RECURSIVE NFindFrom(_, _, _, _)
NFindFrom(t, key, tmp, res) ==
    CASE tmp = Null -> res
      [] tmp = key -> tmp
      [] tmp # Null /\ key < tmp -> NFindFrom(t, key, t.node[tmp].left, tmp)
      [] tmp # Null /\ key > tmp -> NFindFrom(t, key, t.node[tmp].right, res)
NFind(t, key) == NFindFrom(t, key, t.root, Null)

MinMax(t, side) == IF t.root = Null THEN Null ELSE Outermost(t, t.root, side)

(* The first node above n that n is not below on the side.                 *)
RECURSIVE Above(_, _, _)
Above(t, n, side) ==
    LET parent == t.node[n].parent
    IN  IF parent # Null /\ t.node[parent][side] = n THEN Above(t, parent, side) ELSE parent

(* RB_NEXT for the right side, RB_PREV for the left one.                   *)
Next(t, elm, side) ==
    IF t.node[elm][side] # Null THEN Outermost(t, t.node[elm][side], Other(side)) ELSE Above(t, elm, side)

-----------------------------------------------------------------------------
(* Reference: what is said of a red-black tree, and what its walks find.   *)

Below(t, n) ==      (* the nodes from which n is met on the way up *)
    LET Up[S \in SUBSET Nodes(t)] ==
            LET more == S \cup {m \in Nodes(t) : t.node[m].parent \in S}
            IN  IF more = S THEN S ELSE Up[more]
    IN  IF n = Null THEN {} ELSE Up[{n}]

RECURSIVE BlackHeight(_, _)
BlackHeight(t, n) ==    (* -1 if not all paths have as many black nodes *)
    LET left == BlackHeight(t, t.node[n].left)
        right == BlackHeight(t, t.node[n].right)
    IN  IF n = Null THEN 0
        ELSE IF left # right \/ left = -1 THEN -1
        ELSE left + (IF t.node[n].red THEN 0 ELSE 1)

IsRedBlack(t) ==
    /\ t.root # Null => t.node[t.root].parent = Null
    /\ \A n \in Nodes(t) : \A side \in {"left", "right"} :
        LET child == t.node[n][side] IN
        child # Null =>
            /\ t.node[child].parent = n
            /\ ~(t.node[n].red /\ t.node[child].red)
            /\ \A m \in Below(t, child) : IF side = "left" THEN m < n ELSE m > n
    /\ ~IsRed(t, t.root) /\ Below(t, t.root) = Nodes(t) /\ BlackHeight(t, t.root) >= 0

First(S) == IF S = {} THEN Null ELSE Min(S)
Last(S) == IF S = {} THEN Null ELSE Max(S)

(* Every search and walk finds the nodes that S says, for keys up to n.    *)
Finds(t, S, keys) ==
    /\ \A key \in keys : /\ Find(t, key) = (IF key \in S THEN key ELSE Null)
                         /\ NFind(t, key) = First({m \in S : m >= key})
    /\ MinMax(t, "left") = First(S) /\ MinMax(t, "right") = Last(S)
    /\ \A n \in S : /\ Next(t, n, "right") = First({m \in S : m > n})
                    /\ Next(t, n, "left") = Last({m \in S : m < n})
=============================================================================
