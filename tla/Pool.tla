-------------------------------- MODULE Pool --------------------------------
(***************************************************************************)
(* hutils/include/hutils/pool.h: objects of one size, carved out of pages  *)
(* of Num nodes.  Freed nodes go to one list shared by all pages, and a    *)
(* page is given back to the system as soon as none of its nodes is used.  *)
(* A page is named by the address malloc returned for it, so an address    *)
(* can come back.                                                          *)
(***************************************************************************)
EXTENDS Integers, FiniteSets, SequencesExt

CONSTANTS
    Page,   (* bound: the page addresses malloc can return                 *)
    Num     (* nodes in a page, the num parameter of POOL_HEAD             *)

ASSUME PageAssumption == IsFiniteSet(Page) /\ Page # {}
ASSUME NumAssumption == Num \in Nat \ {0}

VARIABLES
    up,         (* between init() and shutdown()                           *)
    page_list,  (* the pool's pages, oldest first                          *)
    freed_list, (* freed nodes, next to be reused first                    *)
    ofs,        (* per page: nodes handed out at least once                *)
    used_num,   (* per page: nodes in use                                  *)
    live        (* the nodes the client holds pointers to                  *)

vars == <<up, page_list, freed_list, ofs, used_num, live>>

Node == Page \X (0..Num - 1)     (* a page and an index in its node_array  *)
PageOf(node) == node[1]
Handed(p) == {<<p, i>> : i \in 0..ofs[p] - 1}
Pages == Range(page_list)

-----------------------------------------------------------------------------
SeededLastPageFull ==   (* seeded fault: off by one                           *)
    page_list # <<>> => ofs[Last(page_list)] = Num - 1

LastPageFull == page_list # <<>> => ofs[Last(page_list)] = Num

(* alloc() from the free list: the page is the node's.                     *)
AllocFreed ==
    /\ up
    /\ freed_list # <<>>
    /\ LET node == Head(freed_list)
       IN  /\ freed_list' = Tail(freed_list)
           /\ used_num' = [used_num EXCEPT ![PageOf(node)] = @ + 1]
           /\ live' = live \cup {node}
    /\ UNCHANGED <<up, page_list, ofs>>

(* alloc() of the last page's next node.                                   *)
AllocNext ==
    /\ up
    /\ freed_list = <<>> /\ ~LastPageFull
    /\ LET p == Last(page_list)
       IN  /\ ofs' = [ofs EXCEPT ![p] = @ + 1]
           /\ used_num' = [used_num EXCEPT ![p] = @ + 1]
           /\ live' = live \cup {<<p, ofs[p]>>}
    /\ UNCHANGED <<up, page_list, freed_list>>

SeededAllocPage ==    (* seeded fault: the new page's ofs is not cleared     *)
    /\ up
    /\ freed_list = <<>> /\ LastPageFull
    /\ \E p \in Page \ Pages :
        /\ page_list' = Append(page_list, p)
        /\ ofs' = [ofs EXCEPT ![p] = @ + 1]
        /\ used_num' = [used_num EXCEPT ![p] = 1]
        /\ live' = live \cup {<<p, 0>>}
    /\ UNCHANGED <<up, freed_list>>

(* alloc() of a new page and of its first node.  malloc returns any        *)
(* address it has not given out (no more than Page, the bound).            *)
AllocPage ==
    /\ up
    /\ freed_list = <<>> /\ LastPageFull
    /\ \E p \in Page \ Pages :
        /\ page_list' = Append(page_list, p)
        /\ ofs' = [ofs EXCEPT ![p] = 1]
        /\ used_num' = [used_num EXCEPT ![p] = 1]
        /\ live' = live \cup {<<p, 0>>}
    /\ UNCHANGED <<up, freed_list>>

(* free() links the node at the tail for the last page, else at the head.  *)
Relinked(node) ==
    IF PageOf(node) = Last(page_list) THEN Append(freed_list, node)
                                      ELSE Cons(node, freed_list)

(* TAILQ_REMOVE of some elements of a list: the others keep their order.   *)
Without(list, gone) ==
    LET Kept[n \in 0..Len(list)] ==
            IF n = 0 THEN <<>>
            ELSE IF list[n] \in gone THEN Kept[n - 1]
            ELSE Append(Kept[n - 1], list[n])
    IN  Kept[Len(list)]

SeededUnlinked(list, p) == list   (* seeded fault: the page's nodes stay    *)

(* The loop of TAILQ_REMOVE over node_array[0 .. ofs - 1].                 *)
Unlinked(list, p) == Without(list, Handed(p))

SeededFree(node) ==   (* seeded fault: used_num is not counted down         *)
    /\ up
    /\ node \in live
    /\ live' = live \ {node}
    /\ freed_list' = Relinked(node)
    /\ UNCHANGED <<up, page_list, ofs, used_num>>

Free(node) ==
    /\ up
    /\ node \in live
    /\ live' = live \ {node}
    /\ LET p == PageOf(node)
       IN  /\ used_num' = [used_num EXCEPT ![p] = @ - 1]
           /\ IF used_num[p] = 1
              THEN /\ freed_list' = Unlinked(Relinked(node), p)
                   /\ page_list' = Without(page_list, {p})
              ELSE /\ freed_list' = Relinked(node)
                   /\ UNCHANGED page_list
    /\ UNCHANGED <<up, ofs>>

(* shutdown() gives every page back, the ones with objects in use too; it  *)
(* leaves the free list alone, so the pool needs an init() before reuse.   *)
Shutdown ==
    /\ up
    /\ up' = FALSE
    /\ page_list' = <<>>
    /\ live' = {}
    /\ UNCHANGED <<freed_list, ofs, used_num>>

Start ==    (* init()                                                      *)
    /\ ~up
    /\ up' = TRUE
    /\ page_list' = <<>> /\ freed_list' = <<>>
    /\ UNCHANGED <<ofs, used_num, live>>

(* Fields of a page nobody has are whatever the memory holds.              *)
Init ==
    /\ up = TRUE
    /\ page_list = <<>> /\ freed_list = <<>>
    /\ ofs = [p \in Page |-> 0] /\ used_num = [p \in Page |-> 0]
    /\ live = {}

Next ==
    \/ AllocFreed \/ AllocNext \/ AllocPage
    \/ \E node \in live : Free(node)
    \/ Shutdown \/ Start

Spec == Init /\ [][Next]_vars

-----------------------------------------------------------------------------
(* Properties.                                                             *)

(* The counters of every page stay within a page, whatever mixture of      *)
(* fresh and reused nodes a client holds.                                  *)
TypeOK ==
    /\ up \in BOOLEAN
    /\ page_list \in Seq(Page) /\ freed_list \in Seq(Node)
    /\ ofs \in [Page -> 0..Num] /\ used_num \in [Page -> 0..Num]
    /\ live \in SUBSET Node

(* The nodes ever handed out from the pages the pool has are exactly the   *)
(* ones in use and the ones in the free list, each once: no object is      *)
(* given to two owners, none is lost, and neither a live object nor a free *)
(* list entry points into a page that was given back.                      *)
EveryNodeOnce ==
    up => /\ UNION {Handed(p) : p \in Pages} = live \cup Range(freed_list)
          /\ live \cap Range(freed_list) = {}
          /\ IsInjective(freed_list)

(* A page's count is the number of its objects in use, and a page without  *)
(* any is gone: a page is neither freed under an object nor kept idle.     *)
UsedNumCountsLive ==
    up => \A p \in Pages :
            /\ used_num[p] = Cardinality({node \in live : PageOf(node) = p})
            /\ used_num[p] > 0

(* Fresh nodes are taken from the last page alone, so every other page     *)
(* must be handed out completely, also after pages behind it have gone.    *)
OnlyLastPageHasRoom ==
    up => \A i \in 1..Len(page_list) - 1 : ofs[page_list[i]] = Num
=============================================================================
