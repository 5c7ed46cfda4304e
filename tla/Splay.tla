------------------------------- MODULE Splay -------------------------------
(***************************************************************************)
(* The splay trees of tree.h, which every access turns.  A node is named   *)
(* by its key; Header is the node on the stack of SPLAY, whose links hold  *)
(* the trees of what is right and left of the key.                         *)
(***************************************************************************)
EXTENDS Integers, FiniteSets, FiniteSetsExt, TLC

Null == 0
Header == -1

Empty == [root |-> Null, node |-> <<>>]

Nodes(t) == DOMAIN t.node
Other(side) == IF side = "left" THEN "right" ELSE "left"

(* The side on which key is of node n.                                     *)
Side(key, n) == IF key < n THEN "left" ELSE "right"

(* SPLAY_ROTATE_RIGHT and _LEFT: the child on the side becomes the root.   *)
Rotate(t, side) ==
    LET tmp == t.node[t.root][side]
    IN  [t EXCEPT !.root = tmp,
                  !.node = [@ EXCEPT ![t.root][side] = t.node[tmp][Other(side)], ![tmp][Other(side)] = t.root]]

(* SPLAY_LINKLEFT and _RIGHT: the root goes to the end of the tree held on *)
(* the other side, end[Other(side)], and its child on the side is next.    *)
Linked(s, side) ==
    LET t == s.tree
    IN  [tree |-> [t EXCEPT !.root = t.node[t.root][side], !.node[s.end[Other(side)]][side] = t.root],
         end |-> [s.end EXCEPT ![Other(side)] = t.root]]

(* SPLAY_ASSEMBLE; Header goes with it.                                    *)
Assemble(s) ==
    LET root == s.tree.root
        node == s.tree.node
        ends == [node EXCEPT ![s.end.left].right = node[root].left]
        both == [ends EXCEPT ![s.end.right].left = ends[root].right]
        all == [both EXCEPT ![root].left = both[Header].right, ![root].right = both[Header].left]
    IN  [root |-> root, node |-> [n \in DOMAIN all \ {Header} |-> all[n]]]

(* The loop of SPLAY; side and turn say how key is to the root and to a    *)
(* child, and SPLAY_MINMAX is the same loop with a key beyond all.         *)
RECURSIVE SplayFrom(_, _)
SplayFrom(s, key) ==
    LET t == s.tree
        side == Side(key, t.root)
        tmp == t.node[t.root][side]
        turned == IF key # tmp /\ Side(key, tmp) = side THEN [s EXCEPT !.tree = Rotate(t, side)] ELSE s
    IN  IF key = t.root \/ tmp = Null THEN Assemble(s)
        ELSE IF turned # s /\ turned.tree.node[turned.tree.root][side] = Null THEN Assemble(turned)
        ELSE SplayFrom(Linked(turned, side), key)

Splay(t, key) ==
    SplayFrom([tree |-> [t EXCEPT !.node = @ @@ (Header :> [left |-> Null, right |-> Null])],
               end |-> [left |-> Header, right |-> Header]], key)

-----------------------------------------------------------------------------
SeededInsert(t, elm) ==     (* seeded fault: the old root keeps the child elm takes *)
    LET splayed == Splay(t, elm)
        side == Side(elm, splayed.root)
    IN  IF t.root = Null THEN [root |-> elm, node |-> elm :> [left |-> Null, right |-> Null]]
        ELSE IF splayed.root = elm THEN splayed
        ELSE [root |-> elm,
              node |-> splayed.node @@ (elm :> (side :> splayed.node[splayed.root][side]
                                                @@ Other(side) :> splayed.root))]

Insert(t, elm) ==
    LET splayed == Splay(t, elm)
        root == splayed.root
        side == Side(elm, root)
        new == side :> splayed.node[root][side] @@ Other(side) :> root
    IN  IF t.root = Null THEN [root |-> elm, node |-> elm :> [left |-> Null, right |-> Null]]
        ELSE IF root = elm THEN splayed
        ELSE [root |-> elm, node |-> [splayed.node EXCEPT ![root][side] = Null] @@ (elm :> new)]

Remove(t, elm) ==
    LET splayed == Splay(t, elm)
        links == splayed.node[elm]
        left == Splay([splayed EXCEPT !.root = links.left], elm)
        joined == IF links.left = Null THEN [splayed EXCEPT !.root = links.right]
                  ELSE [left EXCEPT !.node[left.root].right = links.right]
    IN  IF t.root = Null THEN t
        ELSE IF splayed.root # elm THEN splayed
        ELSE [joined EXCEPT !.node = [n \in Nodes(t) \ {elm} |-> @[n]]]

(* SPLAY_FIND, _MIN and _MAX leave the tree splayed.                       *)
Find(t, key) ==
    LET splayed == Splay(t, key)
    IN  IF t.root = Null THEN [tree |-> t, ret |-> Null]
        ELSE [tree |-> splayed, ret |-> IF splayed.root = key THEN key ELSE Null]
MinMax(t, side) ==
    LET splayed == Splay(t, IF side = "left" THEN Min(Nodes(t)) - 1 ELSE Max(Nodes(t)) + 1)
    IN  IF t.root = Null THEN [tree |-> t, ret |-> Null] ELSE [tree |-> splayed, ret |-> splayed.root]

RECURSIVE Leftmost(_, _)
Leftmost(t, n) == IF n = Null \/ t.node[n].left = Null THEN n ELSE Leftmost(t, t.node[n].left)
Next(t, elm) == LET splayed == Splay(t, elm)
                IN  [tree |-> splayed, ret |-> Leftmost(splayed, splayed.node[elm].right)]

-----------------------------------------------------------------------------
(* Reference.                                                              *)

(* The nodes at and below n, down to a depth.                              *)
RECURSIVE Below(_, _, _)
Below(t, n, depth) ==
    IF n = Null \/ depth = 0 THEN {}
    ELSE {n} \cup Below(t, t.node[n].left, depth - 1) \cup Below(t, t.node[n].right, depth - 1)

IsSearchTree(t) ==
    LET size == Cardinality(Nodes(t)) IN
    /\ Below(t, t.root, size) = Nodes(t)
    /\ \A n \in Nodes(t) : /\ \A m \in Below(t, t.node[n].left, size) : m < n
                           /\ \A m \in Below(t, t.node[n].right, size) : m > n

First(S) == IF S = {} THEN Null ELSE Min(S)
Last(S) == IF S = {} THEN Null ELSE Max(S)
Finds(t, S, keys) ==
    /\ \A key \in keys : Find(t, key).ret = (IF key \in S THEN key ELSE Null)
    /\ MinMax(t, "left").ret = First(S) /\ MinMax(t, "right").ret = Last(S)
    /\ \A n \in S : Next(t, n).ret = First({m \in S : m > n})
=============================================================================
