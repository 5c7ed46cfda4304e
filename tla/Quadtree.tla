------------------------------ MODULE Quadtree ------------------------------
(***************************************************************************)
(* quadtree.h: a tree of nodes with no or four children, grown and cut     *)
(* by what the client's visit() answers.  A node is a record whose         *)
(* children are a sequence; num is the client's count of live nodes, which *)
(* its alloc() and free_() keep.                                           *)
(***************************************************************************)
EXTENDS Integers, Sequences, FiniteSets, SequencesExt

NodeAlloc(level, i, j) == [level |-> level, i |-> i, j |-> j, child |-> <<>>]

(* The nodes that node_free_() frees of a child, and of all of them.       *)
RECURSIVE Size(_)
Size(node) == 1 + FoldLeft(LAMBDA sum, child : sum + Size(child), 0, node.child)

SeededNodeClear(tree) ==    (* seeded fault: the children stay reachable   *)
    [tree EXCEPT !.num = @ - (Size(tree.node) - 1)]

NodeClear(tree) == [num |-> tree.num - (Size(tree.node) - 1), node |-> [tree.node EXCEPT !.child = <<>>]]

Grown(tree) ==
    LET node == tree.node
        scale == 2 ^ node.level
        Child(di, dj) == NodeAlloc(node.level + 1, scale * node.i + di, scale * node.j + dj)
    IN  IF node.child # <<>> THEN tree
        ELSE [num |-> tree.num + 4,
              node |-> [node EXCEPT !.child = <<Child(0, 0), Child(0, 1), Child(1, 0), Child(1, 1)>>]]

(* visit() as a function of some paths; of other nodes it leaves the rest.  *)
Answer(visit, path) == IF path \in DOMAIN visit THEN visit[path] ELSE "STOP"

(* node_visit_() of the node at path, and its loop from child k on.        *)
RECURSIVE NodeVisit(_, _, _), VisitFrom(_, _, _, _)
NodeVisit(tree, path, visit) ==
    CASE Answer(visit, path) = "CLEAR" -> NodeClear(tree)
      [] Answer(visit, path) = "STOP" -> tree
      [] Answer(visit, path) = "CONTINUE" -> VisitFrom(Grown(tree), path, visit, 1)

VisitFrom(tree, path, visit, k) ==
    LET seen == NodeVisit([num |-> tree.num, node |-> tree.node.child[k]], Append(path, k), visit)
    IN  IF k > 4 THEN tree
        ELSE VisitFrom([num |-> seen.num, node |-> [tree.node EXCEPT !.child[k] = seen.node]],
                       path, visit, k + 1)

Init == [num |-> 1, node |-> NodeAlloc(0, 0, 0)]
Traverse(tree, visit) == NodeVisit(tree, <<>>, visit)
Shutdown(tree) == tree.num - Size(tree.node)        (* nodes still counted *)

-----------------------------------------------------------------------------
(* Reference: the tree as a set of paths.                                  *)

RECURSIVE Paths(_, _)
Paths(node, path) == {path} \cup UNION {Paths(node.child[k], Append(path, k)) : k \in DOMAIN node.child}

Above(path) == {SubSeq(path, 1, n) : n \in 0 .. Len(path) - 1}
Visited(path, visit) == \A p \in Above(path) : Answer(visit, p) = "CONTINUE"

(* Nodes stay unless one above, reached by the traversal, was cleared; and *)
(* all are there that have nothing but nodes above which went on.          *)
Traversed(paths, visit) ==
    {p \in paths : ~\E q \in Above(p) : Visited(q, visit) /\ Answer(visit, q) = "CLEAR"}
    \cup {p \in {Append(q, k) : q \in DOMAIN visit, k \in 1 .. 4} : Visited(p, visit)}

RECURSIVE NodeAt(_, _)
NodeAt(node, path) == IF path = <<>> THEN node ELSE NodeAt(node.child[Head(path)], Tail(path))

(* Row and column of the square, by the digits of the path.                *)
Row(path) == FoldLeft(LAMBDA i, k : 2 * i + (k - 1) \div 2, 0, path)
Col(path) == FoldLeft(LAMBDA j, k : 2 * j + ((k - 1) % 2), 0, path)
=============================================================================
