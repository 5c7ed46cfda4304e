----------------------------- MODULE PoolProofs -----------------------------
(***************************************************************************)
(* Proofs about Pool: for any number of pages and of nodes in a page,      *)
(* every node has one owner and every page's counters are true.            *)
(***************************************************************************)
EXTENDS Pool, FiniteSetTheorems, WellFoundedInduction, TLAPS

-----------------------------------------------------------------------------
(* Induction over a set of naturals, from the order being well-founded.    *)

LEMMA SetInduction ==
    ASSUME NEW S, 0 \in S, \A n \in Nat : n \in S => n + 1 \in S
    PROVE  Nat \subseteq S
<1>. DEFINE R == OpToRel(<, Nat)
            T == Nat \ S
<1>. SUFFICES ASSUME T # {} PROVE FALSE
  OBVIOUS
<1>1. IsWellFoundedOn(R, Nat)
  BY NatLessThanWellFounded
<1>2. \A x, y \in Nat : <<x, y>> \in R <=> x < y
  BY DEF OpToRel
<1>3. T \subseteq Nat
  OBVIOUS
<1>. HIDE DEF R, T
<1>4. PICK x \in T : \A y \in T : ~(<<y, x>> \in R)
  BY <1>1, <1>3, WFMin
<1>. USE DEF T
<1>5. x # 0
  OBVIOUS
<1>6. x - 1 \in Nat /\ x - 1 < x
  BY <1>5
<1>7. x - 1 \in S
  BY <1>2, <1>4, <1>6
<1>8. x - 1 + 1 = x
  OBVIOUS
<1>. QED BY <1>6, <1>7, <1>8

-----------------------------------------------------------------------------
(* What is left of a list when TAILQ_REMOVE has taken elements from it.    *)

Step(K, list, gone, n) ==
    IF n = 0 THEN <<>>
    ELSE IF list[n] \in gone THEN K[n - 1]
    ELSE Append(K[n - 1], list[n])

LEMMA KeptExists ==
    ASSUME NEW list, NEW gone, NEW m \in Nat
    PROVE  \E K : K = [n \in 0..m |-> Step(K, list, gone, n)]
<1>. DEFINE S == {k \in Nat : \E K : K = [n \in 0..k |-> Step(K, list, gone, n)]}
<1>1. 0 \in S
  <2>. DEFINE K == [n \in 0..0 |-> <<>>]
  <2>1. K = [n \in 0..0 |-> Step(K, list, gone, n)]
    BY DEF Step
  <2>. QED BY <2>1
<1>2. ASSUME NEW k \in Nat, k \in S PROVE k + 1 \in S
  <2>1. PICK K : K = [n \in 0..k |-> Step(K, list, gone, n)]
    BY <1>2
  <2>. DEFINE L == [n \in 0..k + 1 |-> IF n = k + 1 THEN Step(K, list, gone, n) ELSE K[n]]
  <2>2. ASSUME NEW n \in 0..k + 1 PROVE L[n] = Step(L, list, gone, n)
    <3>1. CASE n = k + 1
      <4>1. L[n] = Step(K, list, gone, n) /\ L[n - 1] = K[n - 1]
        BY <3>1
      <4>. QED BY <4>1 DEF Step
    <3>2. CASE n # k + 1
      <4>1. n \in 0..k
        BY <3>2
      <4>2. L[n] = Step(K, list, gone, n)
        <5>1. L[n] = K[n] BY <3>2
        <5>. HIDE DEF L
        <5>. QED BY <2>1, <4>1, <5>1
      <4>3. n # 0 => L[n - 1] = K[n - 1]
        BY <4>1
      <4>. HIDE DEF L
      <4>. QED BY <4>2, <4>3 DEF Step
    <3>. QED BY <3>1, <3>2
  <2>3. L = [n \in 0..k + 1 |-> Step(L, list, gone, n)]
    <3>1. L = [n \in 0..k + 1 |-> L[n]]
      OBVIOUS
    <3>. HIDE DEF L
    <3>. QED BY <2>2, <3>1
  <2>. HIDE DEF L
  <2>4. \E J : J = [n \in 0..k + 1 |-> Step(J, list, gone, n)]
    BY <2>3
  <2>. QED BY <2>4
<1>. HIDE DEF S
<1>3. m \in S
  BY <1>1, <1>2, SetInduction
<1>. QED BY <1>3 DEF S

Kept(list, gone) ==
    CHOOSE K : K = [n \in 0..Len(list) |-> Step(K, list, gone, n)]

LEMMA KeptStep ==
    ASSUME NEW S, NEW list \in Seq(S), NEW gone
    PROVE  /\ Without(list, gone) = Kept(list, gone)[Len(list)]
           /\ \A n \in 0..Len(list) :
                Kept(list, gone)[n] = Step(Kept(list, gone), list, gone, n)
<1>1. Len(list) \in Nat
  OBVIOUS
<1>2. Kept(list, gone)
        = [n \in 0..Len(list) |-> Step(Kept(list, gone), list, gone, n)]
  BY <1>1, KeptExists DEF Kept
<1>3. Without(list, gone) = Kept(list, gone)[Len(list)]
  BY DEF Without, Kept, Step
<1>. QED BY <1>2, <1>3

(* q is what Without leaves of the first n elements.                       *)
Leaves(q, list, gone, n) ==
    /\ \A i \in 1..Len(q) :
        /\ q[i] \notin gone
        /\ \E j \in 1..n : list[j] = q[i] /\ (i < Len(q) => j < n)
    /\ \A j \in 1..n : list[j] \notin gone => \E i \in 1..Len(q) : q[i] = list[j]
    /\ IsInjective(list) => IsInjective(q)

LEMMA LeavesDropped ==
    ASSUME NEW S, NEW list \in Seq(S), NEW gone, NEW n \in 1..Len(list),
           NEW q \in Seq(S), Leaves(q, list, gone, n - 1), list[n] \in gone
    PROVE  Leaves(q, list, gone, n)
<1>1. Len(list) \in Nat /\ Len(q) \in Nat
  OBVIOUS
<1>2. ASSUME NEW i \in 1..Len(q)
      PROVE  /\ q[i] \notin gone
             /\ \E j \in 1..n : list[j] = q[i] /\ (i < Len(q) => j < n)
  <2>1. PICK j \in 1..n - 1 : list[j] = q[i]
    BY DEF Leaves
  <2>2. j \in 1..n /\ j < n
    BY <1>1, <2>1
  <2>. QED BY <2>1, <2>2 DEF Leaves
<1>3. ASSUME NEW j \in 1..n, list[j] \notin gone
      PROVE  \E i \in 1..Len(q) : q[i] = list[j]
  <2>1. j \in 1..n - 1
    BY <1>1, <1>3
  <2>. QED BY <1>3, <2>1 DEF Leaves
<1>. QED BY <1>2, <1>3 DEF Leaves

LEMMA LeavesAppended ==
    ASSUME NEW S, NEW list \in Seq(S), NEW gone, NEW n \in 1..Len(list),
           NEW q \in Seq(S), Leaves(q, list, gone, n - 1), list[n] \notin gone
    PROVE  Append(q, list[n]) \in Seq(S) /\ Leaves(Append(q, list[n]), list, gone, n)
<1>. DEFINE r == Append(q, list[n])
<1>1. Len(list) \in Nat /\ Len(q) \in Nat /\ list[n] \in S
  OBVIOUS
<1>2. /\ r \in Seq(S) /\ Len(r) = Len(q) + 1
      /\ r[Len(q) + 1] = list[n]
      /\ \A i \in 1..Len(q) : r[i] = q[i]
  BY <1>1
<1>. HIDE DEF r
<1>3. ASSUME NEW i \in 1..Len(r)
      PROVE  /\ r[i] \notin gone
             /\ \E j \in 1..n : list[j] = r[i] /\ (i < Len(r) => j < n)
  <2>1. CASE i = Len(q) + 1
    <3>1. n \in 1..n /\ ~(i < Len(r))
      BY <1>1, <1>2, <2>1
    <3>. QED BY <1>2, <2>1, <3>1
  <2>2. CASE i # Len(q) + 1
    <3>1. i \in 1..Len(q)
      BY <1>1, <1>2, <2>2
    <3>2. PICK j \in 1..n - 1 : list[j] = q[i]
      BY <3>1 DEF Leaves
    <3>3. j \in 1..n /\ j < n
      BY <1>1, <3>2
    <3>. QED BY <1>2, <3>1, <3>2, <3>3 DEF Leaves
  <2>. QED BY <2>1, <2>2
<1>4. ASSUME NEW j \in 1..n, list[j] \notin gone
      PROVE  \E i \in 1..Len(r) : r[i] = list[j]
  <2>1. CASE j = n
    <3>1. Len(q) + 1 \in 1..Len(r)
      BY <1>1, <1>2
    <3>. QED BY <1>2, <2>1, <3>1
  <2>2. CASE j # n
    <3>1. j \in 1..n - 1
      BY <1>1, <2>2
    <3>2. PICK i \in 1..Len(q) : q[i] = list[j]
      BY <1>4, <3>1 DEF Leaves
    <3>3. i \in 1..Len(r)
      BY <1>1, <1>2, <3>2
    <3>. QED BY <1>2, <3>2, <3>3
  <2>. QED BY <2>1, <2>2
<1>5. ASSUME IsInjective(list) PROVE IsInjective(r)
  <2>1. DOMAIN list = 1..Len(list) /\ DOMAIN q = 1..Len(q) /\ DOMAIN r = 1..Len(q) + 1
    BY <1>2
  <2>2. ASSUME NEW i \in 1..Len(q) PROVE q[i] # list[n]
    <3>1. PICK j \in 1..n - 1 : list[j] = q[i]
      BY DEF Leaves
    <3>2. j \in 1..Len(list) /\ j # n
      BY <1>1, <3>1
    <3>. QED BY <1>5, <2>1, <3>1, <3>2 DEF IsInjective
  <2>3. IsInjective(q)
    BY <1>5 DEF Leaves
  <2>4. \A i \in 1..Len(q) + 1 : i \in 1..Len(q) \/ i = Len(q) + 1
    BY <1>1
  <2>. QED BY <1>2, <2>1, <2>2, <2>3, <2>4 DEF IsInjective
<1>. QED BY <1>2, <1>3, <1>4, <1>5 DEF Leaves, r

LEMMA WithoutElements ==
    ASSUME NEW S, NEW list \in Seq(S), NEW gone
    PROVE  /\ Without(list, gone) \in Seq(S)
           /\ Leaves(Without(list, gone), list, gone, Len(list))
<1>. DEFINE K == Kept(list, gone)
            T == {n \in Nat : n <= Len(list) =>
                     K[n] \in Seq(S) /\ Leaves(K[n], list, gone, n)}
<1>1. Len(list) \in Nat
  OBVIOUS
<1>2. /\ Without(list, gone) = K[Len(list)]
      /\ \A n \in 0..Len(list) : K[n] = Step(K, list, gone, n)
  BY KeptStep
<1>. HIDE DEF K
<1>3. 0 \in T
  <2>1. K[0] = <<>>
    BY <1>1, <1>2 DEF Step
  <2>2. <<>> \in Seq(S) /\ Leaves(<<>>, list, gone, 0)
    BY DEF Leaves, IsInjective
  <2>. QED BY <2>1, <2>2
<1>4. ASSUME NEW n \in Nat, n \in T PROVE n + 1 \in T
  <2>1. SUFFICES ASSUME n + 1 <= Len(list)
                 PROVE  K[n + 1] \in Seq(S) /\ Leaves(K[n + 1], list, gone, n + 1)
    OBVIOUS
  <2>2. /\ n + 1 \in 1..Len(list) /\ n + 1 \in 0..Len(list) /\ n + 1 # 0
        /\ n + 1 - 1 = n /\ n <= Len(list)
    BY <1>1, <2>1
  <2>3. K[n] \in Seq(S) /\ Leaves(K[n], list, gone, n + 1 - 1)
    BY <1>4, <2>2
  <2>4. CASE list[n + 1] \in gone
    <3>1. K[n + 1] = K[n]
      BY <1>2, <2>2, <2>4 DEF Step
    <3>. QED BY <2>2, <2>3, <2>4, <3>1, LeavesDropped
  <2>5. CASE list[n + 1] \notin gone
    <3>1. K[n + 1] = Append(K[n], list[n + 1])
      <4>1. K[n + 1] = Step(K, list, gone, n + 1)
        BY <1>2, <2>2
      <4>2. K[n + 1] = Append(K[n + 1 - 1], list[n + 1])
        BY ONLY <2>2, <2>5, <4>1 DEF Step
      <4>. QED BY <2>2, <4>2
    <3>. QED BY <2>2, <2>3, <2>5, <3>1, LeavesAppended
  <2>. QED BY <2>4, <2>5
<1>. HIDE DEF T
<1>5. Len(list) \in T
  BY <1>1, <1>3, <1>4, SetInduction
<1>. QED BY <1>2, <1>5 DEF T

-----------------------------------------------------------------------------
(* The lists as sets of their elements.                                    *)

LEMMA TailSet ==
    ASSUME NEW S, NEW f \in Seq(S), f # <<>>, IsInjective(f)
    PROVE  /\ Head(f) \in Range(f) /\ Head(f) \in S /\ Tail(f) \in Seq(S)
           /\ Range(Tail(f)) = Range(f) \ {Head(f)}
           /\ IsInjective(Tail(f))
<1>1. /\ Len(f) \in Nat \ {0} /\ DOMAIN f = 1..Len(f)
      /\ Head(f) = f[1] /\ \A i \in 1..Len(f) : f[i] \in S
  OBVIOUS
<1>. DEFINE t == Tail(f)
<1>2. /\ t \in Seq(S) /\ DOMAIN t = 1..Len(f) - 1
      /\ \A i \in 1..Len(f) - 1 : t[i] = f[i + 1]
  BY <1>1
<1>. HIDE DEF t
<1>3. 1 \in DOMAIN f
  BY <1>1
<1>4. Range(t) \subseteq Range(f) \ {Head(f)}
  <2>1. SUFFICES ASSUME NEW i \in 1..Len(f) - 1
                 PROVE  t[i] \in Range(f) /\ t[i] # f[1]
    BY <1>1, <1>2 DEF Range
  <2>2. i + 1 \in DOMAIN f /\ i + 1 # 1
    BY <1>1
  <2>. QED BY <1>2, <1>3, <2>2 DEF Range, IsInjective
<1>5. Range(f) \ {Head(f)} \subseteq Range(t)
  <2>1. SUFFICES ASSUME NEW i \in DOMAIN f, i # 1 PROVE f[i] \in Range(t)
    BY <1>1 DEF Range
  <2>2. i - 1 \in 1..Len(f) - 1 /\ i - 1 + 1 = i
    BY <1>1, <2>1
  <2>. QED BY <1>2, <2>2 DEF Range
<1>6. IsInjective(t)
  <2>1. SUFFICES ASSUME NEW i \in DOMAIN t, NEW j \in DOMAIN t, t[i] = t[j] PROVE i = j
    BY DEF IsInjective
  <2>2. i + 1 \in DOMAIN f /\ j + 1 \in DOMAIN f /\ f[i + 1] = f[j + 1]
    BY <1>1, <1>2, <2>1
  <2>3. i + 1 = j + 1
    BY <2>2 DEF IsInjective
  <2>. QED BY <1>2, <2>3
<1>7. Head(f) \in Range(f)
  BY <1>1, <1>3 DEF Range
<1>. QED BY <1>1, <1>2, <1>3, <1>4, <1>5, <1>6, <1>7 DEF t

LEMMA AppendSet ==
    ASSUME NEW S, NEW f \in Seq(S), NEW x \in S
    PROVE  /\ Append(f, x) \in Seq(S)
           /\ Range(Append(f, x)) = Range(f) \cup {x}
           /\ IsInjective(f) /\ x \notin Range(f) => IsInjective(Append(f, x))
<1>. DEFINE r == Append(f, x)
<1>1. /\ Len(f) \in Nat /\ DOMAIN f = 1..Len(f)
      /\ r \in Seq(S) /\ DOMAIN r = 1..Len(f) + 1 /\ r[Len(f) + 1] = x
      /\ \A i \in 1..Len(f) : r[i] = f[i]
  OBVIOUS
<1>. HIDE DEF r
<1>2. \A i : i \in DOMAIN r <=> i \in DOMAIN f \/ i = Len(f) + 1
  BY <1>1
<1>3. \A i \in DOMAIN f : f[i] = r[i]
  BY <1>1
<1>4. Range(r) = Range(f) \cup {x}
  BY <1>1, <1>2, <1>3 DEF Range
<1>5. ASSUME IsInjective(f), x \notin Range(f) PROVE IsInjective(r)
  BY <1>1, <1>2, <1>3, <1>5 DEF Range, IsInjective
<1>. QED BY <1>1, <1>4, <1>5 DEF r

LEMMA ConsSet ==
    ASSUME NEW S, NEW f \in Seq(S), NEW x \in S
    PROVE  /\ Cons(x, f) \in Seq(S)
           /\ Range(Cons(x, f)) = Range(f) \cup {x}
           /\ IsInjective(f) /\ x \notin Range(f) => IsInjective(Cons(x, f))
<1>. DEFINE r == Cons(x, f)
<1>1. /\ Len(f) \in Nat /\ DOMAIN f = 1..Len(f)
      /\ r \in Seq(S) /\ DOMAIN r = 1..Len(f) + 1 /\ r[1] = x
      /\ \A i \in 1..Len(f) : r[i + 1] = f[i]
  BY DEF Cons
<1>. HIDE DEF r
<1>2. \A i \in DOMAIN r : i = 1 \/ (i - 1 \in DOMAIN f /\ r[i] = f[i - 1])
  <2>1. SUFFICES ASSUME NEW i \in DOMAIN r, i # 1
                 PROVE  i - 1 \in DOMAIN f /\ r[i] = f[i - 1]
    OBVIOUS
  <2>2. i - 1 \in 1..Len(f) /\ i - 1 + 1 = i
    BY <1>1, <2>1
  <2>. QED BY <1>1, <2>2
<1>3. 1 \in DOMAIN r /\ \A i \in DOMAIN f : i + 1 \in DOMAIN r /\ r[i + 1] = f[i]
  BY <1>1
<1>4. Range(r) = Range(f) \cup {x}
  <2>1. Range(r) \subseteq Range(f) \cup {x}
    BY <1>1, <1>2 DEF Range
  <2>2. ASSUME NEW y \in Range(f) PROVE y \in Range(r)
    <3>1. PICK i \in DOMAIN f : y = f[i]
      BY DEF Range
    <3>2. i + 1 \in DOMAIN r /\ r[i + 1] = y
      BY <1>3, <3>1
    <3>. QED BY <3>2 DEF Range
  <2>3. x \in Range(r)
    BY <1>1, <1>3 DEF Range
  <2>. QED BY <2>1, <2>2, <2>3
<1>5. ASSUME IsInjective(f), x \notin Range(f) PROVE IsInjective(r)
  <2>1. SUFFICES ASSUME NEW i \in DOMAIN r, NEW j \in DOMAIN r, r[i] = r[j] PROVE i = j
    BY DEF IsInjective
  <2>2. CASE i = 1 \/ j = 1
    BY <1>1, <1>2, <1>5, <2>1, <2>2 DEF Range
  <2>3. CASE i # 1 /\ j # 1
    <3>1. i - 1 = j - 1
      BY <1>2, <1>5, <2>1, <2>3 DEF IsInjective
    <3>. QED BY <1>1, <3>1
  <2>. QED BY <2>2, <2>3
<1>. QED BY <1>1, <1>4, <1>5 DEF r

LEMMA WithoutSet ==
    ASSUME NEW S, NEW f \in Seq(S), NEW gone
    PROVE  /\ Without(f, gone) \in Seq(S)
           /\ Range(Without(f, gone)) = Range(f) \ gone
           /\ IsInjective(f) => IsInjective(Without(f, gone))
<1>. DEFINE r == Without(f, gone)
<1>1. r \in Seq(S) /\ Leaves(r, f, gone, Len(f))
  BY WithoutElements
<1>. HIDE DEF r
<1>2. DOMAIN f = 1..Len(f) /\ DOMAIN r = 1..Len(r)
  BY <1>1
<1>3. Range(r) \subseteq Range(f) \ gone
  BY <1>1, <1>2 DEF Range, Leaves
<1>4. Range(f) \ gone \subseteq Range(r)
  <2>1. SUFFICES ASSUME NEW j \in 1..Len(f), f[j] \notin gone PROVE f[j] \in Range(r)
    BY <1>2 DEF Range
  <2>2. PICK i \in 1..Len(r) : r[i] = f[j]
    BY <1>1, <2>1 DEF Leaves
  <2>. QED BY <1>2, <2>2 DEF Range
<1>. QED BY <1>1, <1>3, <1>4 DEF r, Leaves

-----------------------------------------------------------------------------
(* The inductive invariant.                                                *)

Given == UNION {Handed(p) : p \in Pages}
LiveOf(p) == {node \in live : PageOf(node) = p}

IInv ==
    /\ TypeOK
    /\ EveryNodeOnce /\ UsedNumCountsLive /\ OnlyLastPageHasRoom
    /\ up => IsInjective(page_list)
    /\ ~up => live = {}

LEMMA InitIInv == Init => IInv
<1>1. ASSUME Init PROVE TypeOK
  BY <1>1, NumAssumption DEF Init, TypeOK
<1>2. ASSUME Init PROVE Pages = {} /\ Range(freed_list) = {}
  BY <1>2 DEF Init, Pages, Range
<1>. QED
  BY <1>1, <1>2 DEF Init, IInv, EveryNodeOnce, UsedNumCountsLive,
     OnlyLastPageHasRoom, IsInjective

LEMMA HandedFinite ==
    ASSUME TypeOK, NEW p \in Page
    PROVE  /\ IsFiniteSet(Handed(p)) /\ Cardinality(Handed(p)) <= ofs[p]
           /\ \A node \in Handed(p) : node \in Node /\ PageOf(node) = p
<1>1. ofs[p] \in 0..Num /\ Num \in Nat
  BY NumAssumption DEF TypeOK
<1>. DEFINE I == 0..ofs[p] - 1
            f == [i \in I |-> <<p, i>>]
<1>2. IsFiniteSet(I) /\ Cardinality(I) <= ofs[p]
  <2>1. 0 \in Int /\ ofs[p] - 1 \in Int
    BY <1>1
  <2>2. IsFiniteSet(I) /\ Cardinality(I) = IF 0 > ofs[p] - 1 THEN 0 ELSE ofs[p] - 1 - 0 + 1
    BY <2>1, FS_Interval
  <2>. QED BY <1>1, <2>2
<1>3. f \in Surjection(I, Handed(p))
  BY DEF Surjection, Handed
<1>. HIDE DEF f
<1>4. IsFiniteSet(Handed(p)) /\ Cardinality(Handed(p)) <= Cardinality(I)
  BY <1>2, <1>3, FS_Surjection
<1>5. Cardinality(Handed(p)) <= ofs[p]
  <2>1. Cardinality(Handed(p)) \in Nat /\ Cardinality(I) \in Nat
    BY <1>2, <1>4, FS_CardinalityType
  <2>. QED BY <1>1, <1>2, <1>4, <2>1
<1>6. \A node \in Handed(p) : node \in Node /\ PageOf(node) = p
  BY <1>1 DEF Handed, Node, PageOf
<1>. QED BY <1>4, <1>5, <1>6

(* The nodes of one page in use, and what a page has in use is handed out. *)
LEMMA LiveFinite ==
    ASSUME IInv, up, NEW p \in Page
    PROVE  /\ LiveOf(p) \subseteq Handed(p)
           /\ IsFiniteSet(LiveOf(p)) /\ Cardinality(LiveOf(p)) \in 0..Num
<1>1. LiveOf(p) \subseteq Handed(p)
  <2>1. SUFFICES ASSUME NEW node \in live, PageOf(node) = p PROVE node \in Handed(p)
    BY DEF LiveOf
  <2>2. PICK q \in Pages : node \in Handed(q)
    BY DEF IInv, EveryNodeOnce
  <2>3. q \in Page
    BY DEF Pages, Range, IInv, TypeOK
  <2>. QED BY <2>1, <2>2, <2>3, HandedFinite DEF IInv
<1>2. IsFiniteSet(Handed(p)) /\ Cardinality(Handed(p)) <= ofs[p] /\ ofs[p] \in 0..Num
  BY HandedFinite DEF IInv, TypeOK
<1>3. IsFiniteSet(LiveOf(p)) /\ Cardinality(LiveOf(p)) <= Cardinality(Handed(p))
  BY <1>1, <1>2, FS_Subset
<1>4. Cardinality(LiveOf(p)) \in Nat /\ Cardinality(Handed(p)) \in Nat
  BY <1>2, <1>3, FS_CardinalityType
<1>. QED BY <1>1, <1>2, <1>3, <1>4, NumAssumption

(* A node in use or in the free list belongs to a page the pool has.       *)
LEMMA NodeHasPage ==
    ASSUME IInv, up, NEW node \in live \cup Range(freed_list)
    PROVE  /\ PageOf(node) \in Pages /\ PageOf(node) \in Page
           /\ node \in Handed(PageOf(node)) /\ node \in Node
<1>1. PICK q \in Pages : node \in Handed(q)
  BY DEF IInv, EveryNodeOnce
<1>2. q \in Page
  BY DEF Pages, Range, IInv, TypeOK
<1>. QED BY <1>1, <1>2, HandedFinite DEF IInv

LEMMA AllocFreedIInv == ASSUME IInv, AllocFreed PROVE IInv'
<1>. USE DEF IInv
<1>1. up /\ up' /\ freed_list \in Seq(Node) /\ freed_list # <<>> /\ IsInjective(freed_list)
  BY DEF AllocFreed, TypeOK, EveryNodeOnce
<1>2. PICK n \in Node, p \in Page : n = Head(freed_list) /\ p = PageOf(n)
  <2>1. Head(freed_list) \in Node
    BY <1>1
  <2>. QED BY <2>1 DEF Node, PageOf
<1>3. /\ freed_list' = Tail(freed_list) /\ freed_list' \in Seq(Node)
      /\ Range(freed_list') = Range(freed_list) \ {n}
      /\ n \in Range(freed_list) /\ IsInjective(freed_list')
  BY <1>1, <1>2, TailSet DEF AllocFreed
<1>4. p \in Pages /\ n \in Handed(p) /\ n \notin live
  BY <1>1, <1>2, <1>3, NodeHasPage DEF EveryNodeOnce
<1>5. /\ live' = live \cup {n} /\ used_num' = [used_num EXCEPT ![p] = @ + 1]
      /\ UNCHANGED <<up, page_list, ofs>>
  BY <1>2 DEF AllocFreed
<1>6. LiveOf(p)' = LiveOf(p) \cup {n} /\ n \notin LiveOf(p)
      /\ \A q \in Page : q # p => LiveOf(q)' = LiveOf(q)
  BY <1>2, <1>4, <1>5 DEF LiveOf
<1>7. /\ IsFiniteSet(LiveOf(p)) /\ LiveOf(p)' \subseteq Handed(p)
      /\ Cardinality(LiveOf(p)) \in Nat
  BY <1>1, <1>4, <1>6, LiveFinite
<1>8. Cardinality(LiveOf(p)') = Cardinality(LiveOf(p)) + 1 /\ Cardinality(LiveOf(p)') <= Num
  <2>1. Cardinality(LiveOf(p)') = Cardinality(LiveOf(p)) + 1
    BY <1>6, <1>7, FS_AddElement
  <2>2. IsFiniteSet(Handed(p)) /\ Cardinality(Handed(p)) <= ofs[p] /\ ofs[p] \in 0..Num
    BY HandedFinite DEF TypeOK
  <2>3. Cardinality(LiveOf(p)') <= Cardinality(Handed(p))
    BY <1>7, <2>2, FS_Subset
  <2>4. Cardinality(Handed(p)) \in Nat
    BY <2>2, FS_CardinalityType
  <2>. QED BY <1>7, <2>1, <2>2, <2>3, <2>4, NumAssumption
<1>9. used_num[p] = Cardinality(LiveOf(p))
  BY <1>1, <1>4 DEF UsedNumCountsLive, LiveOf
<1>10. TypeOK'
  <2>1. used_num' \in [Page -> 0..Num]
    BY <1>5, <1>7, <1>8, <1>9, NumAssumption DEF TypeOK
  <2>. QED BY <1>3, <1>5, <2>1 DEF TypeOK
<1>11. EveryNodeOnce'
  <2>1. Given' = Given
    BY <1>5 DEF Given, Pages, Handed
  <2>2. live' \cup Range(freed_list') = live \cup Range(freed_list)
    BY <1>3, <1>5
  <2>. QED BY <1>1, <1>3, <1>5, <2>1, <2>2 DEF EveryNodeOnce, Given
<1>12. UsedNumCountsLive'
  <2>1. SUFFICES ASSUME NEW q \in Pages
                 PROVE  used_num'[q] = Cardinality(LiveOf(q)') /\ used_num'[q] > 0
    BY <1>5 DEF UsedNumCountsLive, LiveOf, Pages
  <2>2. q \in Page
    BY DEF Pages, Range, TypeOK
  <2>3. used_num[q] = Cardinality(LiveOf(q)) /\ used_num[q] > 0
    BY <1>1 DEF UsedNumCountsLive, LiveOf
  <2>4. CASE q = p
    BY <1>5, <1>7, <1>8, <1>9, <2>4 DEF TypeOK
  <2>5. CASE q # p
    BY <1>5, <1>6, <2>2, <2>3, <2>5 DEF TypeOK
  <2>. QED BY <2>4, <2>5
<1>. QED BY <1>1, <1>5, <1>10, <1>11, <1>12 DEF OnlyLastPageHasRoom

LEMMA AllocNextIInv == ASSUME IInv, AllocNext PROVE IInv'
<1>. USE DEF IInv
<1>1. /\ up /\ up' /\ freed_list = <<>> /\ page_list # <<>> /\ page_list \in Seq(Page)
      /\ ofs[Last(page_list)] # Num
  BY DEF AllocNext, TypeOK, LastPageFull
<1>2. /\ Len(page_list) \in Nat \ {0} /\ DOMAIN page_list = 1..Len(page_list)
      /\ \A i \in 1..Len(page_list) : page_list[i] \in Page
  BY <1>1
<1>3. PICK p \in Pages : p = Last(page_list)
  BY <1>2 DEF Last, Pages, Range
<1>4. p \in Page /\ ofs[p] \in 0..Num - 1
  BY <1>1, <1>2, <1>3, NumAssumption DEF Pages, Range, TypeOK
<1>5. PICK n \in Node : n = <<p, ofs[p]>>
  BY <1>4 DEF Node
<1>6. /\ live' = live \cup {n} /\ used_num' = [used_num EXCEPT ![p] = @ + 1]
      /\ ofs' = [ofs EXCEPT ![p] = @ + 1]
      /\ UNCHANGED <<up, page_list, freed_list>>
  BY <1>3, <1>5 DEF AllocNext
<1>7. Range(freed_list) = {} /\ Given = live
  BY <1>1 DEF Range, EveryNodeOnce, Given
<1>8. n \notin Handed(p) /\ PageOf(n) = p
  BY <1>4, <1>5 DEF Handed, PageOf
<1>9. /\ Handed(p)' = Handed(p) \cup {n}
      /\ \A q \in Page : q # p => Handed(q)' = Handed(q)
  <2>1. ofs'[p] = ofs[p] + 1 /\ \A q \in Page : q # p => ofs'[q] = ofs[q]
    BY <1>4, <1>6 DEF TypeOK
  <2>2. 0..ofs'[p] - 1 = 0..ofs[p] - 1 \cup {ofs[p]}
    BY <1>4, <2>1
  <2>. QED BY <1>5, <2>1, <2>2 DEF Handed
<1>10. n \notin live
  <2>1. SUFFICES ASSUME n \in live PROVE FALSE
    OBVIOUS
  <2>. QED BY <1>1, <1>8, <2>1, NodeHasPage
<1>11. LiveOf(p)' = LiveOf(p) \cup {n} /\ n \notin LiveOf(p)
      /\ \A q \in Page : q # p => LiveOf(q)' = LiveOf(q)
  BY <1>6, <1>8, <1>10 DEF LiveOf
<1>12. TypeOK' /\ Cardinality(LiveOf(p)') = Cardinality(LiveOf(p)) + 1
       /\ used_num[p] = Cardinality(LiveOf(p)) /\ Cardinality(LiveOf(p)) \in Nat
  <2>1. ofs' \in [Page -> 0..Num] /\ live' \in SUBSET Node
    BY <1>4, <1>6, NumAssumption DEF TypeOK
  <2>2. IsFiniteSet(LiveOf(p)) /\ Cardinality(LiveOf(p)) \in Nat
    BY <1>1, <1>4, LiveFinite
  <2>3. Cardinality(LiveOf(p)') = Cardinality(LiveOf(p)) + 1
    BY <1>11, <2>2, FS_AddElement
  <2>4. used_num[p] = Cardinality(LiveOf(p))
    BY <1>1 DEF UsedNumCountsLive, LiveOf
  <2>5. Cardinality(LiveOf(p)) < Num
    <3>1. LiveOf(p) \subseteq Handed(p)
      BY <1>1, <1>4, LiveFinite
    <3>2. Cardinality(LiveOf(p)) <= Cardinality(Handed(p)) /\ IsFiniteSet(Handed(p))
      BY <1>4, <3>1, HandedFinite, FS_Subset
    <3>3. Cardinality(Handed(p)) <= ofs[p] /\ Cardinality(Handed(p)) \in Nat
      BY <1>4, <3>2, HandedFinite, FS_CardinalityType
    <3>. QED BY <1>4, <2>2, <3>2, <3>3, NumAssumption
  <2>6. used_num' \in [Page -> 0..Num]
    BY <1>4, <1>6, <2>2, <2>4, <2>5, NumAssumption DEF TypeOK
  <2>. QED BY <1>6, <2>1, <2>2, <2>3, <2>4, <2>6 DEF TypeOK
<1>13. EveryNodeOnce'
  <2>1. Given' = Given \cup {n}
    <3>1. Given' = UNION {Handed(q)' : q \in Pages}
      BY <1>6 DEF Given, Pages, Handed
    <3>2. Pages \subseteq Page
      BY DEF Pages, Range, TypeOK
    <3>. QED BY <1>9, <3>1, <3>2 DEF Given
  <2>. QED BY <1>1, <1>6, <1>7, <2>1 DEF EveryNodeOnce, Given
<1>14. UsedNumCountsLive'
  <2>1. SUFFICES ASSUME NEW q \in Pages
                 PROVE  used_num'[q] = Cardinality(LiveOf(q)') /\ used_num'[q] > 0
    BY <1>6 DEF UsedNumCountsLive, LiveOf, Pages
  <2>2. q \in Page
    BY DEF Pages, Range, TypeOK
  <2>3. used_num[q] = Cardinality(LiveOf(q)) /\ used_num[q] > 0
    BY <1>1 DEF UsedNumCountsLive, LiveOf
  <2>4. CASE q = p
    BY <1>6, <1>12, <2>2, <2>4 DEF TypeOK
  <2>5. CASE q # p
    BY <1>6, <1>11, <2>2, <2>3, <2>5 DEF TypeOK
  <2>. QED BY <2>4, <2>5
<1>15. OnlyLastPageHasRoom'
  <2>1. SUFFICES ASSUME NEW i \in 1..Len(page_list) - 1 PROVE ofs'[page_list[i]] = Num
    BY <1>6 DEF OnlyLastPageHasRoom
  <2>2. /\ i \in 1..Len(page_list) /\ Len(page_list) \in 1..Len(page_list)
        /\ i # Len(page_list)
    <3>1. \A L \in Nat \ {0} : \A k \in 1..L - 1 : k \in 1..L /\ L \in 1..L /\ k # L
      OBVIOUS
    <3>. QED BY ONLY <1>2, <3>1
  <2>3. page_list[i] # p
    BY <1>1, <1>3, <2>2 DEF Last, IsInjective
  <2>. QED BY <1>1, <1>2, <1>6, <2>2, <2>3 DEF OnlyLastPageHasRoom, TypeOK
<1>. QED BY <1>1, <1>6, <1>12, <1>13, <1>14, <1>15

LEMMA AllocPageIInv == ASSUME IInv, AllocPage PROVE IInv'
<1>. USE DEF IInv
<1>1. PICK p \in Page \ Pages :
        /\ page_list' = Append(page_list, p)
        /\ ofs' = [ofs EXCEPT ![p] = 1]
        /\ used_num' = [used_num EXCEPT ![p] = 1]
        /\ live' = live \cup {<<p, 0>>}
  BY DEF AllocPage
<1>2. PICK n \in Node : n = <<p, 0>>
  <2>1. 0 \in 0..Num - 1
    BY NumAssumption
  <2>. QED BY <2>1 DEF Node
<1>3. /\ up /\ freed_list = <<>> /\ page_list \in Seq(Page) /\ IsInjective(page_list)
      /\ UNCHANGED <<up, freed_list>> /\ LastPageFull /\ live' = live \cup {n}
  BY <1>1, <1>2 DEF AllocPage, TypeOK
<1>4. /\ page_list' \in Seq(Page) /\ Pages' = Pages \cup {p} /\ IsInjective(page_list')
  BY <1>1, <1>3, AppendSet DEF Pages
<1>5. Pages \subseteq Page
  BY DEF Pages, Range, TypeOK
<1>6. ofs'[p] = 1 /\ used_num'[p] = 1
      /\ \A q \in Page : q # p => ofs'[q] = ofs[q] /\ used_num'[q] = used_num[q]
  BY <1>1 DEF TypeOK
<1>7. PageOf(n) = p /\ Handed(p)' = {n} /\ \A q \in Pages : Handed(q)' = Handed(q)
  <2>1. 0..1 - 1 = {0}
    OBVIOUS
  <2>2. Handed(p)' = {<<p, 0>>}
    BY <1>6, <2>1 DEF Handed
  <2>. QED BY <1>2, <1>5, <1>6, <2>2 DEF Handed, PageOf
<1>8. \A node \in live : PageOf(node) \in Pages
  BY <1>3, NodeHasPage
<1>9. LiveOf(p)' = {n} /\ \A q \in Pages : LiveOf(q)' = LiveOf(q)
  BY <1>3, <1>7, <1>8 DEF LiveOf
<1>10. TypeOK'
  <2>1. /\ ofs' \in [Page -> 0..Num] /\ used_num' \in [Page -> 0..Num]
        /\ live' \in SUBSET Node
    BY <1>1, <1>3, NumAssumption DEF TypeOK
  <2>. QED BY <1>3, <1>4, <2>1 DEF TypeOK
<1>11. EveryNodeOnce'
  <2>1. Given' = Given \cup {n}
    <3>1. Given' = UNION {Handed(q)' : q \in Pages'}
      BY DEF Given
    <3>. QED BY <1>4, <1>7, <3>1 DEF Given
  <2>2. Range(freed_list) = {}
    BY <1>3 DEF Range
  <2>. QED BY <1>3, <2>1, <2>2 DEF EveryNodeOnce, Given
<1>12. UsedNumCountsLive'
  <2>1. SUFFICES ASSUME NEW q \in Pages'
                 PROVE  used_num'[q] = Cardinality(LiveOf(q)') /\ used_num'[q] > 0
    BY DEF UsedNumCountsLive, LiveOf
  <2>2. CASE q = p
    BY <1>6, <1>9, <2>2, FS_Singleton
  <2>3. CASE q # p
    <3>1. q \in Pages /\ q \in Page
      BY <1>4, <1>5, <2>3
    <3>2. used_num[q] = Cardinality(LiveOf(q)) /\ used_num[q] > 0
      BY <1>3, <3>1 DEF UsedNumCountsLive, LiveOf
    <3>. QED BY <1>6, <1>9, <2>3, <3>1, <3>2
  <2>. QED BY <2>2, <2>3
<1>13. OnlyLastPageHasRoom'
  <2>1. /\ Len(page_list) \in Nat /\ Len(page_list') - 1 = Len(page_list)
        /\ \A i \in 1..Len(page_list) :
              page_list[i] \in Pages /\ page_list'[i] = page_list[i]
    BY <1>1, <1>3 DEF Pages, Range
  <2>2. SUFFICES ASSUME NEW i \in 1..Len(page_list) PROVE ofs'[page_list'[i]] = Num
    BY <2>1 DEF OnlyLastPageHasRoom
  <2>3. page_list[i] \in Pages /\ page_list'[i] = page_list[i]
    BY <2>1
  <2>4. ofs'[page_list'[i]] = ofs[page_list[i]]
    BY <1>5, <1>6, <2>3
  <2>5. CASE i = Len(page_list)
    <3>1. page_list # <<>>
      BY <2>1, <2>2
    <3>. QED BY <1>3, <2>4, <2>5, <3>1 DEF LastPageFull, Last
  <2>6. CASE i # Len(page_list)
    <3>1. i \in 1..Len(page_list) - 1
      BY <2>1, <2>6
    <3>. QED BY <1>3, <2>4, <3>1 DEF OnlyLastPageHasRoom
  <2>. QED BY <2>5, <2>6
<1>. QED BY <1>3, <1>4, <1>10, <1>11, <1>12, <1>13

LEMMA FreeIInv == ASSUME IInv, NEW n \in live, Free(n) PROVE IInv'
<1>. USE DEF IInv
<1>1. /\ up /\ page_list \in Seq(Page) /\ freed_list \in Seq(Node)
      /\ IsInjective(page_list) /\ IsInjective(freed_list) /\ n \in Node
      /\ live' = live \ {n} /\ UNCHANGED <<up, ofs>>
  BY DEF Free, TypeOK, EveryNodeOnce
<1>2. PICK p \in Pages : p = PageOf(n) /\ n \in Handed(p) /\ p \in Page
  BY <1>1, NodeHasPage
<1>3. used_num' = [used_num EXCEPT ![p] = @ - 1]
  BY <1>2 DEF Free
<1>4. PICK relinked \in Seq(Node) :
        /\ relinked = Relinked(n)
        /\ Range(relinked) = Range(freed_list) \cup {n} /\ IsInjective(relinked)
  <2>1. n \notin Range(freed_list)
    BY <1>1 DEF EveryNodeOnce
  <2>. QED BY <1>1, <2>1, AppendSet, ConsSet DEF Relinked
<1>5. Pages \subseteq Page
  BY DEF Pages, Range, TypeOK
<1>6. Handed(p) \cap live = LiveOf(p) /\ \A q \in Page : Handed(q)' = Handed(q)
  <2>1. Handed(p) \cap live \subseteq LiveOf(p)
    BY <1>2, HandedFinite DEF LiveOf
  <2>2. LiveOf(p) \subseteq Handed(p) \cap live
    BY <1>1, <1>2, LiveFinite DEF LiveOf
  <2>. QED BY <1>1, <2>1, <2>2 DEF Handed
<1>7. /\ LiveOf(p)' = LiveOf(p) \ {n} /\ n \in LiveOf(p)
      /\ \A q \in Page : q # p => LiveOf(q)' = LiveOf(q)
  BY <1>1, <1>2 DEF LiveOf
<1>8. /\ used_num[p] = Cardinality(LiveOf(p)) /\ used_num[p] \in 1..Num
      /\ Cardinality(LiveOf(p)') = used_num[p] - 1 /\ IsFiniteSet(LiveOf(p))
  <2>1. used_num[p] = Cardinality(LiveOf(p)) /\ used_num[p] > 0
    BY <1>1 DEF UsedNumCountsLive, LiveOf
  <2>2. IsFiniteSet(LiveOf(p)) /\ Cardinality(LiveOf(p)) \in 0..Num
    BY <1>1, <1>2, LiveFinite
  <2>3. Cardinality(LiveOf(p)') = Cardinality(LiveOf(p)) - 1
    BY <1>7, <2>2, FS_RemoveElement
  <2>. QED BY <2>1, <2>2, <2>3, NumAssumption
<1>9. /\ used_num' \in [Page -> 0..Num] /\ used_num'[p] = used_num[p] - 1
      /\ \A q \in Page : q # p => used_num'[q] = used_num[q]
  BY <1>2, <1>3, <1>8, NumAssumption DEF TypeOK
<1>10. CASE used_num[p] = 1
  <2>1. freed_list' = Unlinked(relinked, p) /\ page_list' = Without(page_list, {p})
    BY <1>2, <1>4, <1>10 DEF Free
  <2>2. /\ freed_list' \in Seq(Node) /\ IsInjective(freed_list')
        /\ Range(freed_list') = (Range(freed_list) \cup {n}) \ Handed(p)
    BY <1>4, <2>1, WithoutSet DEF Unlinked
  <2>3. /\ page_list' \in Seq(Page) /\ IsInjective(page_list')
        /\ Pages' = Pages \ {p}
    BY <1>1, <2>1, WithoutSet DEF Pages
  <2>4. LiveOf(p) = {n}
    <3>1. PICK x : LiveOf(p) = {x}
      BY <1>8, <1>10, FS_Singleton
    <3>. QED BY <1>7, <3>1
  <2>5. TypeOK'
    BY <1>1, <1>9, <2>2, <2>3 DEF TypeOK
  <2>6. EveryNodeOnce'
    <3>1. Given' = UNION {Handed(q) : q \in Pages \ {p}}
      <4>1. Given' = UNION {Handed(q)' : q \in Pages'}
        BY DEF Given
      <4>. QED BY <1>5, <1>6, <2>3, <4>1
    <3>2. \A q \in Pages : \A node \in Handed(q) : PageOf(node) = q
      BY <1>5, HandedFinite
    <3>3. Given' = Given \ Handed(p)
      BY <3>1, <3>2 DEF Given
    <3>4. Given = live \cup Range(freed_list) /\ live \cap Range(freed_list) = {}
      BY <1>1 DEF EveryNodeOnce, Given
    <3>5. live \cap Handed(p) = {n}
      BY <1>6, <2>4
    <3>. QED BY <1>1, <1>2, <2>2, <3>3, <3>4, <3>5 DEF EveryNodeOnce, Given
  <2>7. UsedNumCountsLive'
    <3>1. SUFFICES ASSUME NEW q \in Pages, q # p
                   PROVE  used_num'[q] = Cardinality(LiveOf(q)') /\ used_num'[q] > 0
      BY <2>3 DEF UsedNumCountsLive, LiveOf
    <3>2. used_num[q] = Cardinality(LiveOf(q)) /\ used_num[q] > 0
      BY <1>1 DEF UsedNumCountsLive, LiveOf
    <3>. QED BY <1>5, <1>7, <1>9, <3>1, <3>2
  <2>8. OnlyLastPageHasRoom'
    <3>1. Leaves(page_list', page_list, {p}, Len(page_list))
      BY <1>1, <2>1, WithoutElements
    <3>2. SUFFICES ASSUME NEW i \in 1..Len(page_list') - 1 PROVE ofs[page_list'[i]] = Num
      BY <1>1 DEF OnlyLastPageHasRoom
    <3>3. /\ i \in 1..Len(page_list') /\ i < Len(page_list')
          /\ Len(page_list) \in Nat
      BY <1>1, <2>3
    <3>4. PICK j \in 1..Len(page_list) : page_list[j] = page_list'[i] /\ j < Len(page_list)
      BY <3>1, <3>3 DEF Leaves
    <3>5. j \in 1..Len(page_list) - 1
      BY <3>3, <3>4
    <3>. QED BY <1>1, <3>4, <3>5 DEF OnlyLastPageHasRoom
  <2>. QED BY <1>1, <2>3, <2>5, <2>6, <2>7, <2>8
<1>11. CASE used_num[p] # 1
  <2>1. freed_list' = relinked /\ page_list' = page_list /\ Pages' = Pages
    BY <1>2, <1>4, <1>11 DEF Free, Pages
  <2>2. TypeOK'
    BY <1>1, <1>4, <1>9, <2>1 DEF TypeOK
  <2>3. EveryNodeOnce'
    <3>1. Given' = Given
      <4>1. Given' = UNION {Handed(q)' : q \in Pages'}
        BY DEF Given
      <4>. QED BY <1>5, <1>6, <2>1, <4>1 DEF Given
    <3>2. Given = live \cup Range(freed_list) /\ live \cap Range(freed_list) = {}
      BY <1>1 DEF EveryNodeOnce, Given
    <3>. QED BY <1>1, <1>4, <2>1, <3>1, <3>2 DEF EveryNodeOnce, Given
  <2>4. UsedNumCountsLive'
    <3>1. SUFFICES ASSUME NEW q \in Pages
                   PROVE  used_num'[q] = Cardinality(LiveOf(q)') /\ used_num'[q] > 0
      BY <2>1 DEF UsedNumCountsLive, LiveOf
    <3>2. used_num[q] = Cardinality(LiveOf(q)) /\ used_num[q] > 0
      BY <1>1 DEF UsedNumCountsLive, LiveOf
    <3>3. CASE q = p
      BY <1>8, <1>9, <1>11, <3>3
    <3>4. CASE q # p
      BY <1>5, <1>7, <1>9, <3>2, <3>4
    <3>. QED BY <3>3, <3>4
  <2>. QED BY <1>1, <2>1, <2>2, <2>3, <2>4 DEF OnlyLastPageHasRoom
<1>. QED BY <1>10, <1>11

LEMMA ShutdownStartIInv == ASSUME IInv, Shutdown \/ Start PROVE IInv'
<1>1. CASE Shutdown
  <2>1. up' = FALSE /\ page_list' = <<>> /\ live' = {} /\ page_list' \in Seq(Page)
    BY <1>1 DEF Shutdown
  <2>2. TypeOK'
    BY <1>1, <2>1 DEF Shutdown, IInv, TypeOK
  <2>. QED
    BY <2>1, <2>2 DEF IInv, EveryNodeOnce, UsedNumCountsLive, OnlyLastPageHasRoom
<1>2. CASE Start
  <2>1. /\ up' /\ page_list' = <<>> /\ freed_list' = <<>> /\ live' = {}
        /\ UNCHANGED <<ofs, used_num>>
    BY <1>2 DEF Start, IInv
  <2>2. TypeOK'
    BY <1>2, <2>1 DEF Start, IInv, TypeOK
  <2>3. Pages' = {} /\ Range(freed_list') = {}
    BY <2>1 DEF Pages, Range
  <2>. QED
    BY <2>1, <2>2, <2>3 DEF IInv, EveryNodeOnce, UsedNumCountsLive,
       OnlyLastPageHasRoom, IsInjective
<1>. QED BY <1>1, <1>2

LEMMA PoolInvariant == Spec => []IInv
<1>1. IInv /\ [Next]_vars => IInv'
  <2>. SUFFICES ASSUME IInv, [Next]_vars PROVE IInv'
    OBVIOUS
  <2>1. CASE AllocFreed
    BY <2>1, AllocFreedIInv
  <2>2. CASE AllocNext
    BY <2>2, AllocNextIInv
  <2>3. CASE AllocPage
    BY <2>3, AllocPageIInv
  <2>4. ASSUME NEW node \in live, Free(node) PROVE IInv'
    BY <2>4, FreeIInv
  <2>5. CASE Shutdown \/ Start
    BY <2>5, ShutdownStartIInv
  <2>6. CASE UNCHANGED vars
    <3>1. UNCHANGED <<up, page_list, freed_list, ofs, used_num, live>>
      BY <2>6 DEF vars
    <3>2. TypeOK' /\ UsedNumCountsLive' /\ OnlyLastPageHasRoom'
      BY <3>1 DEF IInv, TypeOK, UsedNumCountsLive, OnlyLastPageHasRoom, Pages
    <3>3. EveryNodeOnce'
      <4>1. Given' = Given
        BY <3>1 DEF Given, Handed, Pages
      <4>. QED BY <3>1, <4>1 DEF IInv, EveryNodeOnce, Given
    <3>. QED BY <3>1, <3>2, <3>3 DEF IInv
  <2>. QED BY <2>1, <2>2, <2>3, <2>4, <2>5, <2>6 DEF Next
<1>. QED BY InitIInv, <1>1, PTL DEF Spec

-----------------------------------------------------------------------------
(* A page's ofs and used_num stay within its node_array, so alloc() never  *)
(* indexes behind it and free() never counts below zero.                   *)
THEOREM PoolTypes == Spec => []TypeOK
<1>1. IInv => TypeOK
  BY DEF IInv
<1>. QED BY PoolInvariant, <1>1, PTL

(* Whatever order objects are allocated and freed in, and whatever         *)
(* addresses malloc reuses for pages: alloc() gives no object out that is  *)
(* in use, and none is lost or left in freed_list when its page goes.      *)
THEOREM OneOwner == Spec => []EveryNodeOnce
<1>1. IInv => EveryNodeOnce
  BY DEF IInv
<1>. QED BY PoolInvariant, <1>1, PTL

(* free() gives a page back exactly when it takes the page's last object.  *)
THEOREM CountsAreTrue == Spec => []UsedNumCountsLive
<1>1. IInv => UsedNumCountsLive
  BY DEF IInv
<1>. QED BY PoolInvariant, <1>1, PTL

(* alloc() looks at the last page alone and misses no fresh node by it,    *)
(* also when free() has made another page the last one.                    *)
THEOREM NoRoomMissed == Spec => []OnlyLastPageHasRoom
<1>1. IInv => OnlyLastPageHasRoom
  BY DEF IInv
<1>. QED BY PoolInvariant, <1>1, PTL

=============================================================================
