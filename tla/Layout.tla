------------------------------- MODULE Layout -------------------------------
(***************************************************************************)
(* A resize event of hwt (hwt.c, grid.c, button.c, panel.c): minimum sizes *)
(* go up the tree of widgets, rectangles down.  A widget is a record:      *)
(* "none" is an empty slot, "box" a widget of the client with a minimum    *)
(* size, "holder" a button or panel, "grid" a grid, child[row][col] being  *)
(* its children.  Floats are integers here: take sizes that the numbers of *)
(* rows and columns divide.  Labels are left out: their pull_min() writes  *)
(* no size.                                                                *)
(***************************************************************************)
EXTENDS Integers, Sequences, FiniteSets, SequencesExt, FiniteSetsExt

None == [kind |-> "none"]
Box(w, h) == [kind |-> "box", width |-> w, height |-> h]
Holder(child) == [kind |-> "holder", child |-> child]
Grid(child) == [kind |-> "grid", child |-> child]

Rows(grid) == DOMAIN grid.child
Cols(grid) == DOMAIN grid.child[1]
Total(sizes) == FoldLeft(LAMBDA sum, size : sum + size, 0, sizes)

-----------------------------------------------------------------------------
(* hwt_widget_pull_min().                                                  *)

RECURSIVE PullMin(_)
SeededColMin(grid) ==       (* seeded fault: rows and columns mixed up      *)
    [col \in Cols(grid) |-> Max({PullMin(grid.child[row][col]).height : row \in Rows(grid)})]

ColMin(grid) == [col \in Cols(grid) |-> Max({PullMin(grid.child[row][col]).width : row \in Rows(grid)})]
RowMin(grid) == [row \in Rows(grid) |-> Max({PullMin(grid.child[row][col]).height : col \in Cols(grid)})]

PullMin(widget) ==
    CASE widget.kind = "none" -> [width |-> 0, height |-> 0]
      [] widget.kind = "box" -> [width |-> widget.width, height |-> widget.height]
      [] widget.kind = "holder" -> PullMin(widget.child)
      [] widget.kind = "grid" -> [width |-> Total(ColMin(widget)), height |-> Total(RowMin(widget))]

-----------------------------------------------------------------------------
(* hwt_widget_push_rect(): pairs of the path to a widget and its rectangle. *)

Rect(x, y, w, h) == [x |-> x, y |-> y, width |-> w, height |-> h]

(* The rectangle of a cell: what is left over is shared out evenly.        *)
Cell(grid, rect, row, col) ==
    LET fillWidth == (rect.width - Total(ColMin(grid))) \div Len(grid.child[1])
        fillHeight == (rect.height - Total(RowMin(grid))) \div Len(grid.child)
        Width(c) == ColMin(grid)[c] + fillWidth
        Height(r) == RowMin(grid)[r] + fillHeight
    IN  Rect(rect.x + Total([c \in 1 .. col - 1 |-> Width(c)]),
             rect.y + Total([r \in 1 .. row - 1 |-> Height(r)]), Width(col), Height(row))

RECURSIVE PushRect(_, _, _)
PushRect(widget, path, rect) ==
    CASE widget.kind = "none" -> {}
      [] widget.kind = "box" -> {<<path, rect>>}
      [] widget.kind = "holder" -> {<<path, rect>>} \cup PushRect(widget.child, path \o <<1, 1>>, rect)
      [] widget.kind = "grid" -> {<<path, rect>>} \cup
            UNION {PushRect(widget.child[row][col], path \o <<row, col>>, Cell(widget, rect, row, col)) :
                        row \in Rows(widget), col \in Cols(widget)}

Resized(root, w, h) == PushRect(root, <<>>, Rect(0, 0, w, h))

-----------------------------------------------------------------------------
(* What a layout promises.                                                 *)

RECURSIVE WidgetAt(_, _)
WidgetAt(widget, path) ==
    CASE path = <<>> -> widget
      [] path # <<>> /\ widget.kind = "holder" -> WidgetAt(widget.child, SubSeq(path, 3, Len(path)))
      [] path # <<>> /\ widget.kind = "grid" ->
            WidgetAt(widget.child[path[1]][path[2]], SubSeq(path, 3, Len(path)))

Inside(r, s) ==
    /\ s.x <= r.x /\ r.x + r.width <= s.x + s.width
    /\ s.y <= r.y /\ r.y + r.height <= s.y + s.height
Apart(r, s) ==
    \/ r.x + r.width <= s.x \/ s.x + s.width <= r.x
    \/ r.y + r.height <= s.y \/ s.y + s.height <= r.y
Area(r) == r.width * r.height

(* A child lies in its parent, siblings do not overlap, and no widget gets *)
(* less than its minimum if the window is not smaller than the root's; a   *)
(* grid without empty slots is filled.                                     *)
LaidOut(root, w, h, rects) ==
    LET Parent(p) == SubSeq(p, 1, Len(p) - 2)
        RectOf(p) == (CHOOSE r \in rects : r[1] = p)[2]
        paths == {r[1] : r \in rects}
        Children(p) == {q \in paths : q # <<>> /\ Parent(q) = p}
        big == PullMin(root).width <= w /\ PullMin(root).height <= h
    IN  /\ big => \A p \in paths :
            /\ PullMin(WidgetAt(root, p)).width <= RectOf(p).width
            /\ PullMin(WidgetAt(root, p)).height <= RectOf(p).height
            /\ p # <<>> => Inside(RectOf(p), RectOf(Parent(p)))
            /\ \A q \in paths \ {p} : p # <<>> /\ q # <<>> /\ Parent(p) = Parent(q)
                    => Apart(RectOf(p), RectOf(q))
        /\ \A p \in paths :
            LET widget == WidgetAt(root, p)
            IN  widget.kind = "grid" /\ Cardinality(Children(p)) = Len(widget.child) * Len(widget.child[1])
                => FoldSet(LAMBDA q, sum : sum + Area(RectOf(q)), 0, Children(p))
                        = Area(RectOf(p))
=============================================================================
