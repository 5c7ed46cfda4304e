---------------------------- MODULE VectorProofs ----------------------------
(***************************************************************************)
(* Proofs about Vector: its struct stays well formed and no call trips an  *)
(* ASSERT of the library, for every chunk, element set and bound, and it   *)
(* implements Deque: every call changes the sequence of elements a client  *)
(* sees the way the abstract operation says.                               *)
(***************************************************************************)
EXTENDS Vector, SequenceTheorems, TLAPS

(* What every operator below needs of its argument and gives back.         *)
Good(v) == IsVec(v) /\ v.fault = "none" /\ v.ofs < Chunk /\ WellPlaced(v)

LEMMA MemMoveFits ==
    ASSUME NEW v, IsVec(v), v.fault = "none",
           NEW dst \in Int, NEW src \in Int, NEW num \in Int,
           0 <= num, 0 <= dst, dst + num <= v.capacity,
           0 <= src, src + num <= v.capacity
    PROVE  LET w == MemMove(v, dst, src, num)
           IN  /\ IsVec(w)
               /\ w.ofs = v.ofs /\ w.size = v.size
               /\ w.capacity = v.capacity /\ w.fault = "none"
               /\ \A k \in 0..v.capacity - 1 :
                    w.data[k] = IF dst <= k /\ k < dst + num
                                THEN v.data[src + (k - dst)] ELSE v.data[k]
<1> DEFINE d == [k \in DOMAIN v.data |->
                  IF dst <= k /\ k < dst + num
                  THEN Slot(v.data, src + (k - dst)) ELSE v.data[k]]
           w == [v EXCEPT !.data = d]
<1>1. MemMove(v, dst, src, num) = w
  BY DEF MemMove, Checked, IsVec
<1>2. d \in [0..v.capacity - 1 -> Val \cup {Junk}]
  BY DEF IsVec, Slot
<1>3. /\ DOMAIN w = DOMAIN v /\ w.data = d /\ w.ofs = v.ofs /\ w.size = v.size
      /\ w.capacity = v.capacity /\ w.fault = v.fault
  BY DEF IsVec
<1>4. \A k \in 0..v.capacity - 1 :
        d[k] = IF dst <= k /\ k < dst + num
               THEN v.data[src + (k - dst)] ELSE v.data[k]
  BY DEF IsVec, Slot
<1>. QED
  BY <1>1, <1>2, <1>3, <1>4 DEF IsVec

LEMMA ReserveFits ==
    ASSUME NEW v, IsVec(v), v.fault = "none", NEW capacity \in Nat,
           v.ofs <= capacity, v.ofs <= Chunk,
           capacity <= v.ofs + v.size + Chunk
    PROVE  LET w == Reserve_(v, capacity)
           IN  /\ IsVec(w) /\ WellPlaced(w)
               /\ w.ofs = v.ofs /\ w.capacity = capacity /\ w.fault = "none"
               /\ w.size = IF v.ofs + v.size > capacity
                           THEN capacity - v.ofs ELSE v.size
               /\ \A k \in 0..capacity - 1 :
                    k < v.capacity => w.data[k] = v.data[k]
<1> DEFINE d == [k \in 0..capacity - 1 |-> Slot(v.data, k)]
           s == IF v.ofs + v.size > capacity THEN capacity - v.ofs ELSE v.size
           w == [v EXCEPT !.data = d, !.size = s, !.capacity = capacity]
<1>1. /\ DOMAIN w = DOMAIN v /\ w.data = d /\ w.ofs = v.ofs /\ w.size = s
      /\ w.capacity = capacity /\ w.fault = v.fault
  BY DEF IsVec
<1>2. d \in [0..capacity - 1 -> Val \cup {Junk}]
  BY DEF IsVec, Slot
<1>3. s \in Nat
  BY DEF IsVec
<1>4. IsVec(w) /\ WellPlaced(w)
  BY <1>1, <1>2, <1>3, ChunkAssumption DEF IsVec, WellPlaced
<1>5. Reserve_(v, capacity) = w
  BY <1>4, <1>1 DEF Reserve_, AssertInvariant, Checked
<1>6. \A k \in 0..capacity - 1 : k < v.capacity => d[k] = v.data[k]
  BY DEF IsVec, Slot
<1>. QED
  BY <1>1, <1>4, <1>5, <1>6

(* TryGrow leaves at least one free slot and loses nothing.                *)
LEMMA TryGrowFits ==
    ASSUME NEW v, IsVec(v), v.fault = "none", v.ofs <= Chunk,
           v.capacity <= v.ofs + v.size + Chunk
    PROVE  LET w == TryGrow(v)
           IN  /\ IsVec(w) /\ WellPlaced(w)
               /\ w.ofs = v.ofs /\ w.size = v.size /\ w.fault = "none"
               /\ w.ofs + w.size < w.capacity /\ v.capacity <= w.capacity
               /\ \A k \in 0..v.capacity - 1 : w.data[k] = v.data[k]
<1>1. CASE v.ofs + v.size >= v.capacity
  <2> DEFINE c == v.ofs + v.size + Chunk
  <2>1. /\ c \in Nat /\ v.ofs <= c /\ c <= v.ofs + v.size + Chunk
        /\ v.capacity <= c /\ v.ofs + v.size < c
    BY <1>1, ChunkAssumption DEF IsVec
  <2>2. TryGrow(v) = Reserve_(v, c)
    BY <1>1 DEF TryGrow
  <2>. QED
    BY <2>1, <2>2, ReserveFits DEF IsVec
<1>2. CASE ~(v.ofs + v.size >= v.capacity)
  BY <1>2, ChunkAssumption DEF TryGrow, IsVec, WellPlaced
<1>. QED
  BY <1>1, <1>2

(* TryShrink keeps every slot up to the last element.                      *)
LEMMA TryShrinkFits ==
    ASSUME NEW v, IsVec(v), v.fault = "none", v.ofs <= Chunk,
           v.ofs + v.size <= v.capacity
    PROVE  LET w == TryShrink(v)
           IN  /\ IsVec(w) /\ WellPlaced(w)
               /\ w.ofs = v.ofs /\ w.size = v.size /\ w.fault = "none"
               /\ \A k \in 0..v.ofs + v.size - 1 : w.data[k] = v.data[k]
<1>1. CASE v.ofs + v.size + Chunk < v.capacity
  <2> DEFINE c == v.ofs + v.size + Chunk
  <2>1. /\ c \in Nat /\ v.ofs <= c /\ c <= v.ofs + v.size + Chunk
        /\ c < v.capacity /\ v.ofs + v.size < c
    BY <1>1, ChunkAssumption DEF IsVec
  <2>2. TryShrink(v) = Reserve_(v, c)
    BY <1>1 DEF TryShrink
  <2>3. \A k \in 0..v.ofs + v.size - 1 : k \in 0..c - 1 /\ k < v.capacity
    BY <2>1 DEF IsVec
  <2>. DEFINE w == Reserve_(v, c)
  <2>. HIDE DEF c
  <2>4. /\ IsVec(w) /\ WellPlaced(w) /\ w.ofs = v.ofs /\ w.fault = "none"
        /\ w.size = (IF v.ofs + v.size > c THEN c - v.ofs ELSE v.size)
        /\ \A k \in 0..c - 1 : k < v.capacity => w.data[k] = v.data[k]
    BY <2>1, ReserveFits
  <2>5. w.size = v.size
    BY <2>1, <2>4 DEF IsVec
  <2>. QED
    BY <2>2, <2>3, <2>4, <2>5
<1>2. CASE ~(v.ofs + v.size + Chunk < v.capacity)
  BY <1>2, ChunkAssumption DEF TryShrink, IsVec, WellPlaced
<1>. QED
  BY <1>1, <1>2

-----------------------------------------------------------------------------
(* One lemma per function: it fits its allocation, and where every element *)
(* ends up.                                                                *)

LEMMA EraseFrontFits ==
    ASSUME NEW v, IsVec(v), v.fault = "none", NEW i \in 0..v.size,
           0 < v.ofs, v.ofs <= Chunk, WellPlaced(v)
    PROVE  LET w == EraseFront(v, i)
           IN  /\ Good(w) /\ w.size = v.size
               /\ \A k \in 0..v.size - 1 :
                    Elem(w, k) = IF k < i THEN v.data[v.ofs - 1 + k]
                                          ELSE v.data[v.ofs + k]
<1>. DEFINE N(j) == IF j < i THEN v.data[v.ofs - 1 + j] ELSE v.data[v.ofs + j]
<1>1. CASE Chunk <= v.ofs
  <2> DEFINE head == MemMove(v, 0, v.ofs - 1, i)
             tail == MemMove(head, i, v.ofs + i, v.size - i)
             shut == [tail EXCEPT !.ofs = 0]
  <2>1. /\ IsVec(head) /\ head.ofs = v.ofs /\ head.size = v.size
        /\ head.capacity = v.capacity /\ head.fault = "none"
        /\ \A k \in 0..v.capacity - 1 :
             head.data[k] = IF 0 <= k /\ k < 0 + i
                            THEN v.data[v.ofs - 1 + (k - 0)] ELSE v.data[k]
    <3>1. /\ 0 <= i /\ i \in Int /\ v.ofs - 1 \in Int /\ 0 <= v.ofs - 1
          /\ 0 + i <= v.capacity /\ v.ofs - 1 + i <= v.capacity
      BY DEF IsVec, WellPlaced
    <3>. QED
      BY <3>1, MemMoveFits
  <2>2. /\ IsVec(tail) /\ tail.ofs = v.ofs /\ tail.size = v.size
        /\ tail.capacity = v.capacity /\ tail.fault = "none"
        /\ \A k \in 0..v.capacity - 1 :
             tail.data[k] = IF i <= k /\ k < i + (v.size - i)
                            THEN head.data[v.ofs + i + (k - i)]
                            ELSE head.data[k]
    <3>1. /\ i \in Int /\ v.ofs + i \in Int /\ v.size - i \in Int
          /\ 0 <= v.size - i /\ 0 <= i /\ 0 <= v.ofs + i
          /\ i + (v.size - i) <= v.capacity
          /\ v.ofs + i + (v.size - i) <= v.capacity
      BY DEF IsVec, WellPlaced
    <3>. HIDE DEF head
    <3>. QED
      BY <2>1, <3>1, MemMoveFits
  <2>3. /\ IsVec(shut) /\ shut.ofs = 0 /\ shut.size = v.size
        /\ shut.capacity = v.capacity /\ shut.fault = "none"
        /\ shut.data = tail.data
    <3>. HIDE DEF tail
    <3>. QED BY <2>2 DEF IsVec
  <2>4. \A k \in 0..v.size - 1 : tail.data[k] = N(k)
    <3>. HIDE DEF head, tail
    <3>. TAKE k \in 0..v.size - 1
    <3>1. /\ k \in 0..v.capacity - 1 /\ v.ofs + k \in 0..v.capacity - 1
          /\ 0 <= k /\ k < v.size /\ k - 0 = k
      BY DEF IsVec, WellPlaced
    <3>2. CASE k < i
      <4>1. tail.data[k] = head.data[k]
        BY <2>2, <3>1, <3>2
      <4>2. head.data[k] = v.data[v.ofs - 1 + k]
        BY <2>1, <3>1, <3>2
      <4>. QED BY <4>1, <4>2, <3>2
    <3>3. CASE ~(k < i)
      <4>1. i <= k /\ k < i + (v.size - i) /\ v.ofs + i + (k - i) = v.ofs + k
            /\ ~(v.ofs + k < 0 + i)
        BY <3>1, <3>3 DEF IsVec
      <4>2. tail.data[k] = head.data[v.ofs + k]
        BY <2>2, <3>1, <4>1
      <4>3. head.data[v.ofs + k] = v.data[v.ofs + k]
        BY <2>1, <3>1, <4>1
      <4>. QED BY <4>2, <4>3, <3>3
    <3>. QED BY <3>2, <3>3
  <2>5. shut.ofs + shut.size <= shut.capacity /\ shut.ofs <= Chunk
    BY <2>3, ChunkAssumption DEF IsVec, WellPlaced
  <2>6. EraseFront(v, i) = TryShrink(shut)
    BY <1>1 DEF EraseFront
  <2>. HIDE DEF shut
  <2>7. /\ IsVec(TryShrink(shut)) /\ WellPlaced(TryShrink(shut))
        /\ TryShrink(shut).ofs = 0 /\ TryShrink(shut).size = v.size
        /\ TryShrink(shut).fault = "none"
        /\ \A k \in 0..0 + v.size - 1 : TryShrink(shut).data[k] = shut.data[k]
    BY <2>3, <2>5, TryShrinkFits
  <2>8. \A k \in 0..v.size - 1 : Elem(TryShrink(shut), k) = N(k)
    <3>. HIDE DEF tail, N
    <3>. TAKE k \in 0..v.size - 1
    <3>1. k \in 0..0 + v.size - 1 /\ 0 + k = k
      BY DEF IsVec
    <3>. QED BY <3>1, <2>3, <2>4, <2>7 DEF Elem
  <2>. QED
    BY <2>6, <2>7, <2>8, ChunkAssumption DEF Good
<1>2. CASE ~(Chunk <= v.ofs)
  <2> DEFINE w == MemMove(v, v.ofs, v.ofs - 1, i)
  <2>1. /\ v.ofs \in Int /\ v.ofs - 1 \in Int /\ i \in Int /\ 0 <= i
        /\ 0 <= v.ofs /\ 0 <= v.ofs - 1 /\ v.ofs + i <= v.capacity
        /\ v.ofs - 1 + i <= v.capacity
    BY DEF IsVec, WellPlaced
  <2>2. /\ IsVec(w) /\ w.ofs = v.ofs /\ w.size = v.size
        /\ w.capacity = v.capacity /\ w.fault = "none"
        /\ \A k \in 0..v.capacity - 1 :
             w.data[k] = IF v.ofs <= k /\ k < v.ofs + i
                         THEN v.data[v.ofs - 1 + (k - v.ofs)] ELSE v.data[k]
    BY <2>1, MemMoveFits
  <2>. HIDE DEF w
  <2>3. EraseFront(v, i) = w
    BY <1>2, <2>2 DEF EraseFront, AssertInvariant, Checked, WellPlaced, w
  <2>4. \A k \in 0..v.size - 1 : Elem(w, k) = N(k)
    <3>. TAKE k \in 0..v.size - 1
    <3>. DEFINE slot == v.ofs + k
    <3>1. /\ slot \in 0..v.capacity - 1 /\ v.ofs <= slot
          /\ (slot < v.ofs + i <=> k < i)
          /\ v.ofs - 1 + (slot - v.ofs) = v.ofs - 1 + k
      BY DEF IsVec, WellPlaced
    <3>2. Elem(w, k) = w.data[slot]
      BY <2>2 DEF Elem
    <3>3. v.data[slot] = v.data[v.ofs + k]
      OBVIOUS
    <3>. HIDE DEF slot
    <3>4. w.data[slot] = IF v.ofs <= slot /\ slot < v.ofs + i
                         THEN v.data[v.ofs - 1 + (slot - v.ofs)] ELSE v.data[slot]
      BY <2>2, <3>1
    <3>. QED BY <3>1, <3>2, <3>3, <3>4
  <2>. QED
    BY <2>2, <2>3, <2>4, <1>2, ChunkAssumption DEF Good, WellPlaced, IsVec
<1>. QED
  BY <1>1, <1>2

LEMMA EraseBackFits ==
    ASSUME NEW v, IsVec(v), v.fault = "none", NEW i \in 0..v.size,
           v.ofs < Chunk, v.ofs + v.size < v.capacity,
           v.capacity <= v.ofs + v.size + 1 + Chunk
    PROVE  LET w == EraseBack(v, i)
           IN  /\ Good(w) /\ w.size = v.size
               /\ \A k \in 0..v.size - 1 :
                    Elem(w, k) = IF k < i THEN v.data[v.ofs + k]
                                          ELSE v.data[v.ofs + k + 1]
<1>. DEFINE m == MemMove(v, v.ofs + i, v.ofs + i + 1, v.size - i)
            w == TryShrink(m)
<1>1. /\ IsVec(m) /\ m.ofs = v.ofs /\ m.size = v.size
      /\ m.capacity = v.capacity /\ m.fault = "none"
      /\ \A k \in 0..v.capacity - 1 :
           m.data[k] = IF v.ofs + i <= k /\ k < v.ofs + i + (v.size - i)
                       THEN v.data[v.ofs + i + 1 + (k - (v.ofs + i))]
                       ELSE v.data[k]
  <2>1. /\ v.ofs + i \in Int /\ v.ofs + i + 1 \in Int /\ v.size - i \in Int
        /\ 0 <= v.size - i /\ 0 <= v.ofs + i /\ 0 <= v.ofs + i + 1
        /\ v.ofs + i + (v.size - i) <= v.capacity
        /\ v.ofs + i + 1 + (v.size - i) <= v.capacity
    BY DEF IsVec
  <2>. QED BY <2>1, MemMoveFits
<1>. HIDE DEF m
<1>2. /\ IsVec(w) /\ WellPlaced(w) /\ w.ofs = v.ofs /\ w.size = v.size
      /\ w.fault = "none"
      /\ \A k \in 0..m.ofs + m.size - 1 : w.data[k] = m.data[k]
  <2>1. m.ofs <= Chunk /\ m.ofs + m.size <= m.capacity
    BY <1>1, ChunkAssumption DEF IsVec
  <2>. QED BY <1>1, <2>1, TryShrinkFits
<1>3. EraseBack(v, i) = w
  BY DEF EraseBack, m
<1>. HIDE DEF w
<1>4. ASSUME NEW k \in 0..v.size - 1
      PROVE  Elem(w, k) = IF k < i THEN v.data[v.ofs + k] ELSE v.data[v.ofs + k + 1]
  <2>. DEFINE slot == v.ofs + k
  <2>1. /\ slot \in 0..v.capacity - 1 /\ slot \in 0..v.ofs + v.size - 1
        /\ (v.ofs + i <= slot <=> ~(k < i)) /\ slot < v.ofs + i + (v.size - i)
        /\ v.ofs + i + 1 + (slot - (v.ofs + i)) = v.ofs + k + 1
    BY SMTT(30) DEF IsVec
  <2>2. Elem(w, k) = w.data[slot] /\ v.data[slot] = v.data[v.ofs + k]
    BY <1>2 DEF Elem
  <2>. HIDE DEF slot
  <2>3. w.data[slot] = m.data[slot]
    BY <1>1, <1>2, <2>1
  <2>4. m.data[slot] = IF v.ofs + i <= slot
                       THEN v.data[v.ofs + i + 1 + (slot - (v.ofs + i))]
                       ELSE v.data[slot]
    BY <1>1, <2>1
  <2>. QED BY <2>1, <2>2, <2>3, <2>4
<1>. QED
  BY <1>2, <1>3, <1>4 DEF Good

(* erase() removes exactly the element at its index.                       *)
LEMMA EraseAtRemoves ==
    ASSUME NEW v, Good(v), NEW i \in 0..v.size - 1
    PROVE  LET w == EraseAt(v, i)
           IN  /\ Good(w) /\ w.size = v.size - 1
               /\ \A k \in 0..v.size - 2 :
                    Elem(w, k) = IF k < i THEN Elem(v, k) ELSE Elem(v, k + 1)
<1>. DEFINE u == [v EXCEPT !.size = @ - 1]
            t == [u EXCEPT !.ofs = @ + 1]
<1>1. v.ofs \in Nat /\ v.size \in Nat
  BY DEF Good, IsVec
<1>2. /\ IsVec(u) /\ u.size = v.size - 1 /\ u.ofs = v.ofs /\ u.fault = "none"
      /\ u.capacity = v.capacity /\ u.data = v.data
  BY DEF Good, IsVec
<1>3. /\ IsVec(t) /\ t.size = v.size - 1 /\ t.ofs = v.ofs + 1 /\ t.fault = "none"
      /\ t.capacity = v.capacity /\ t.data = v.data
  BY DEF Good, IsVec
<1>. HIDE DEF t
<1>4. CASE i < u.size \div 2
  <2>1. EraseAt(v, i) = EraseFront(t, i)
    BY <1>4 DEF EraseAt, t
  <2>2. /\ i \in 0..t.size /\ 0 < t.ofs /\ t.ofs <= Chunk /\ WellPlaced(t)
    BY <1>3, ChunkAssumption DEF Good, IsVec, WellPlaced
  <2>. DEFINE w == EraseFront(t, i)
  <2>3. /\ Good(w) /\ w.size = v.size - 1
        /\ \A k \in 0..t.size - 1 :
             Elem(w, k) = IF k < i THEN t.data[t.ofs - 1 + k] ELSE t.data[t.ofs + k]
    BY <1>3, <2>2, EraseFrontFits
  <2>. HIDE DEF w
  <2>4. ASSUME NEW k \in 0..v.size - 2
        PROVE  Elem(w, k) = IF k < i THEN Elem(v, k) ELSE Elem(v, k + 1)
    <3>1. /\ k \in 0..t.size - 1 /\ t.ofs - 1 + k = v.ofs + k
          /\ t.ofs + k = v.ofs + (k + 1)
      BY <1>1, <1>3
    <3>2. Elem(w, k) = IF k < i THEN t.data[t.ofs - 1 + k] ELSE t.data[t.ofs + k]
      BY <2>3, <3>1
    <3>. QED BY <1>3, <3>1, <3>2 DEF Elem
  <2>. QED BY <2>1, <2>3, <2>4 DEF w
<1>5. CASE ~(i < u.size \div 2)
  <2>. HIDE DEF u
  <2>1. EraseAt(v, i) = EraseBack(u, i)
    BY <1>5 DEF EraseAt, u
  <2>2. /\ i \in 0..u.size /\ u.ofs < Chunk /\ u.ofs + u.size < u.capacity
        /\ u.capacity <= u.ofs + u.size + 1 + Chunk
    BY <1>2 DEF Good, IsVec, WellPlaced
  <2>. DEFINE w == EraseBack(u, i)
  <2>3. /\ Good(w) /\ w.size = v.size - 1
        /\ \A k \in 0..u.size - 1 :
             Elem(w, k) = IF k < i THEN u.data[u.ofs + k] ELSE u.data[u.ofs + k + 1]
    BY <1>2, <2>2, EraseBackFits
  <2>. HIDE DEF w
  <2>4. ASSUME NEW k \in 0..v.size - 2
        PROVE  Elem(w, k) = IF k < i THEN Elem(v, k) ELSE Elem(v, k + 1)
    <3>1. k \in 0..u.size - 1 /\ u.ofs + k + 1 = v.ofs + (k + 1)
      BY <1>2 DEF Good, IsVec
    <3>. QED BY <1>2, <2>3, <3>1 DEF Elem
  <2>. QED BY <2>1, <2>3, <2>4 DEF w
<1>. QED
  BY <1>4, <1>5

(* Opening a slot in the front half: into the gap, or after a new gap has  *)
(* been made.  size counts the new slot already.                           *)
LEMMA InsertFrontFits ==
    ASSUME NEW v, IsVec(v), v.fault = "none", NEW i \in 0..v.size - 1,
           v.ofs < Chunk, v.ofs + v.size - 1 <= v.capacity,
           v.capacity <= v.ofs + v.size - 1 + Chunk
    PROVE  LET w == InsertFront(v, i)
           IN  /\ Good(w) /\ w.size = v.size
               /\ \A k \in 0..v.size - 1 : k # i =>
                    Elem(w, k) = IF k < i THEN v.data[v.ofs + k]
                                          ELSE v.data[v.ofs + (k - 1)]
<1>1. /\ v.ofs \in Nat /\ v.size \in Nat /\ v.capacity \in Nat
      /\ i \in Nat /\ i < v.size
  BY DEF IsVec
<1>2. CASE 0 < v.ofs
  <2>. DEFINE u == [v EXCEPT !.ofs = @ - 1]
              w == MemMove(u, v.ofs - 1, v.ofs, i)
  <2>1. /\ IsVec(u) /\ u.ofs = v.ofs - 1 /\ u.size = v.size
        /\ u.capacity = v.capacity /\ u.fault = "none" /\ u.data = v.data
    BY <1>2 DEF IsVec
  <2>2. InsertFront(v, i) = w
    BY <1>2 DEF InsertFront
  <2>. HIDE DEF u
  <2>3. /\ IsVec(w) /\ w.ofs = v.ofs - 1 /\ w.size = v.size
        /\ w.capacity = v.capacity /\ w.fault = "none"
        /\ \A k \in 0..v.capacity - 1 :
             w.data[k] = IF v.ofs - 1 <= k /\ k < v.ofs - 1 + i
                         THEN v.data[v.ofs + (k - (v.ofs - 1))] ELSE v.data[k]
    <3>1. /\ v.ofs - 1 \in Int /\ v.ofs \in Int /\ i \in Int /\ 0 <= i
          /\ 0 <= v.ofs - 1 /\ v.ofs - 1 + i <= u.capacity
          /\ 0 <= v.ofs /\ v.ofs + i <= u.capacity
      BY <1>1, <1>2, <2>1
    <3>2. /\ IsVec(w) /\ w.ofs = u.ofs /\ w.size = u.size
          /\ w.capacity = u.capacity /\ w.fault = "none"
          /\ \A k \in 0..u.capacity - 1 :
               w.data[k] = IF v.ofs - 1 <= k /\ k < v.ofs - 1 + i
                           THEN u.data[v.ofs + (k - (v.ofs - 1))] ELSE u.data[k]
      BY <2>1, <3>1, MemMoveFits
    <3>. HIDE DEF w
    <3>. QED BY <2>1, <3>2
  <2>. HIDE DEF w
  <2>4. ASSUME NEW k \in 0..v.size - 1, k # i
        PROVE  Elem(w, k) = IF k < i THEN v.data[v.ofs + k]
                                     ELSE v.data[v.ofs + (k - 1)]
    <3>. DEFINE slot == v.ofs - 1 + k
    <3>1. /\ slot \in 0..v.capacity - 1 /\ v.ofs - 1 <= slot
          /\ (slot < v.ofs - 1 + i <=> k < i)
          /\ v.ofs + (slot - (v.ofs - 1)) = v.ofs + k
          /\ slot = v.ofs + (k - 1)
      BY <1>1, <1>2
    <3>2. Elem(w, k) = w.data[slot]
      BY <2>3 DEF Elem
    <3>. HIDE DEF slot
    <3>3. w.data[slot] = IF v.ofs - 1 <= slot /\ slot < v.ofs - 1 + i
                         THEN v.data[v.ofs + (slot - (v.ofs - 1))] ELSE v.data[slot]
      BY <2>3, <3>1
    <3>. QED BY <3>1, <3>2, <3>3
  <2>5. w.ofs < Chunk /\ WellPlaced(w)
    BY <1>1, <1>2, <2>3, ChunkAssumption DEF WellPlaced
  <2>. QED BY <2>2, <2>3, <2>4, <2>5 DEF Good
<1>3. CASE ~(0 < v.ofs)
  <2>. DEFINE u    == [v EXCEPT !.ofs = Chunk - 1]
              g    == TryGrow(u)
              tail == MemMove(g, g.ofs + i + 1, i, g.size - i)
              w    == MemMove(tail, g.ofs, 0, i)
  <2>1. v.ofs = 0 /\ Chunk - 1 \in Nat
    BY <1>1, <1>3, ChunkAssumption
  <2>2. /\ IsVec(u) /\ u.ofs = Chunk - 1 /\ u.size = v.size
        /\ u.capacity = v.capacity /\ u.fault = "none" /\ u.data = v.data
    BY <2>1 DEF IsVec
  <2>3. InsertFront(v, i) = w
    BY <1>3 DEF InsertFront
  <2>. HIDE DEF u
  <2>4. /\ IsVec(g) /\ WellPlaced(g) /\ g.ofs = Chunk - 1 /\ g.size = v.size
        /\ g.fault = "none" /\ g.ofs + g.size < g.capacity
        /\ v.capacity <= g.capacity
        /\ \A k \in 0..v.capacity - 1 : g.data[k] = v.data[k]
    <3>1. u.ofs <= Chunk /\ u.capacity <= u.ofs + u.size + Chunk
      BY <1>1, <2>1, <2>2, ChunkAssumption
    <3>. QED BY <2>2, <3>1, TryGrowFits
  <2>. HIDE DEF g
  <2>5. g.capacity \in Nat
    BY <2>4 DEF IsVec
  <2>6. /\ IsVec(tail) /\ tail.ofs = g.ofs /\ tail.size = g.size
        /\ tail.capacity = g.capacity /\ tail.fault = "none"
        /\ \A k \in 0..g.capacity - 1 :
             tail.data[k] = IF g.ofs + i + 1 <= k /\ k < g.ofs + i + 1 + (g.size - i)
                            THEN g.data[i + (k - (g.ofs + i + 1))] ELSE g.data[k]
    <3>1. /\ g.ofs + i + 1 \in Int /\ i \in Int /\ g.size - i \in Int
          /\ 0 <= g.size - i /\ 0 <= g.ofs + i + 1
          /\ g.ofs + i + 1 + (g.size - i) <= g.capacity
          /\ 0 <= i /\ i + (g.size - i) <= g.capacity
      BY <1>1, <2>1, <2>4, <2>5
    <3>. QED BY <2>4, <3>1, MemMoveFits
  <2>. HIDE DEF tail
  <2>7. /\ IsVec(w) /\ w.ofs = g.ofs /\ w.size = g.size
        /\ w.capacity = g.capacity /\ w.fault = "none"
        /\ \A k \in 0..g.capacity - 1 :
             w.data[k] = IF g.ofs <= k /\ k < g.ofs + i
                         THEN tail.data[0 + (k - g.ofs)] ELSE tail.data[k]
    <3>1. /\ g.ofs \in Int /\ 0 \in Int /\ i \in Int /\ 0 <= i /\ 0 <= g.ofs
          /\ g.ofs + i <= tail.capacity /\ 0 <= 0 /\ 0 + i <= tail.capacity
      BY <1>1, <2>1, <2>4, <2>5, <2>6
    <3>2. /\ IsVec(w) /\ w.ofs = tail.ofs /\ w.size = tail.size
          /\ w.capacity = tail.capacity /\ w.fault = "none"
          /\ \A k \in 0..tail.capacity - 1 :
               w.data[k] = IF g.ofs <= k /\ k < g.ofs + i
                           THEN tail.data[0 + (k - g.ofs)] ELSE tail.data[k]
      BY <2>6, <3>1, MemMoveFits
    <3>. HIDE DEF w
    <3>. QED BY <2>6, <3>2
  <2>. HIDE DEF w
  <2>8. ASSUME NEW k \in 0..v.size - 1, k # i
        PROVE  Elem(w, k) = IF k < i THEN v.data[v.ofs + k]
                                     ELSE v.data[v.ofs + (k - 1)]
    <3>. DEFINE slot == g.ofs + k
    <3>1. /\ slot \in 0..g.capacity - 1 /\ g.ofs <= slot
          /\ (slot < g.ofs + i <=> k < i)
          /\ 0 + (slot - g.ofs) = k
          /\ (k < i => k \in 0..v.capacity - 1)
          /\ (k < i => k < g.ofs + i + 1 /\ k \in 0..g.capacity - 1)
          /\ (~(k < i) => g.ofs + i + 1 <= slot /\ k - 1 \in 0..v.capacity - 1)
          /\ slot < g.ofs + i + 1 + (g.size - i)
          /\ i + (slot - (g.ofs + i + 1)) = k - 1
          /\ v.ofs + k = k /\ v.ofs + (k - 1) = k - 1
      BY <1>1, <2>1, <2>4, <2>5, <2>8
    <3>2. Elem(w, k) = w.data[slot]
      BY <2>7 DEF Elem
    <3>. HIDE DEF slot
    <3>3. w.data[slot] = IF g.ofs <= slot /\ slot < g.ofs + i
                         THEN tail.data[0 + (slot - g.ofs)] ELSE tail.data[slot]
      BY <2>7, <3>1
    <3>4. CASE k < i
      <4>1. w.data[slot] = tail.data[k]
        BY <3>1, <3>3, <3>4
      <4>2. tail.data[k] = g.data[k]
        BY <2>6, <3>1, <3>4, <1>1, <2>1, <2>4
      <4>. QED BY <2>4, <3>1, <3>2, <3>4, <4>1, <4>2
    <3>5. CASE ~(k < i)
      <4>1. w.data[slot] = tail.data[slot]
        BY <3>1, <3>3, <3>5
      <4>2. tail.data[slot] = g.data[i + (slot - (g.ofs + i + 1))]
        BY <2>6, <3>1, <3>5
      <4>. QED BY <2>4, <3>1, <3>2, <3>5, <4>1, <4>2
    <3>. QED BY <3>4, <3>5
  <2>9. w.ofs < Chunk /\ WellPlaced(w)
    BY <2>1, <2>4, <2>7, ChunkAssumption DEF WellPlaced
  <2>. QED BY <2>3, <2>4, <2>7, <2>8, <2>9 DEF Good
<1>. QED
  BY <1>2, <1>3

LEMMA InsertBackFits ==
    ASSUME NEW v, IsVec(v), v.fault = "none", NEW i \in 0..v.size - 1,
           v.ofs < Chunk, v.ofs + v.size - 1 <= v.capacity,
           v.capacity <= v.ofs + v.size - 1 + Chunk
    PROVE  LET w == InsertBack(v, i)
           IN  /\ Good(w) /\ w.size = v.size
               /\ \A k \in 0..v.size - 1 : k # i =>
                    Elem(w, k) = IF k < i THEN v.data[v.ofs + k]
                                          ELSE v.data[v.ofs + (k - 1)]
<1>. DEFINE g == TryGrow(v)
            w == MemMove(g, g.ofs + i + 1, g.ofs + i, g.size - i)
<1>1. /\ v.ofs \in Nat /\ v.size \in Nat /\ v.capacity \in Nat
      /\ i \in Nat /\ i < v.size
  BY DEF IsVec
<1>2. /\ IsVec(g) /\ WellPlaced(g) /\ g.ofs = v.ofs /\ g.size = v.size
      /\ g.fault = "none" /\ g.ofs + g.size < g.capacity
      /\ v.capacity <= g.capacity
      /\ \A k \in 0..v.capacity - 1 : g.data[k] = v.data[k]
  <2>1. v.ofs <= Chunk /\ v.capacity <= v.ofs + v.size + Chunk
    BY <1>1, ChunkAssumption
  <2>. QED BY <2>1, TryGrowFits
<1>3. InsertBack(v, i) = w
  BY DEF InsertBack
<1>. HIDE DEF g
<1>4. g.capacity \in Nat
  BY <1>2 DEF IsVec
<1>5. /\ IsVec(w) /\ w.ofs = g.ofs /\ w.size = g.size
      /\ w.capacity = g.capacity /\ w.fault = "none"
      /\ \A k \in 0..g.capacity - 1 :
           w.data[k] = IF g.ofs + i + 1 <= k /\ k < g.ofs + i + 1 + (g.size - i)
                       THEN g.data[g.ofs + i + (k - (g.ofs + i + 1))] ELSE g.data[k]
  <2>1. /\ g.ofs + i + 1 \in Int /\ g.ofs + i \in Int /\ g.size - i \in Int
        /\ 0 <= g.size - i /\ 0 <= g.ofs + i + 1 /\ 0 <= g.ofs + i
        /\ g.ofs + i + 1 + (g.size - i) <= g.capacity
        /\ g.ofs + i + (g.size - i) <= g.capacity
    BY <1>1, <1>2, <1>4
  <2>. QED BY <1>2, <2>1, MemMoveFits
<1>. HIDE DEF w
<1>6. ASSUME NEW k \in 0..v.size - 1, k # i
      PROVE  Elem(w, k) = IF k < i THEN v.data[v.ofs + k] ELSE v.data[v.ofs + (k - 1)]
  <2>. DEFINE slot == g.ofs + k
  <2>1. /\ slot \in 0..g.capacity - 1 /\ (g.ofs + i + 1 <= slot <=> ~(k < i))
        /\ slot < g.ofs + i + 1 + (g.size - i)
        /\ slot = v.ofs + k
        /\ g.ofs + i + (slot - (g.ofs + i + 1)) = v.ofs + (k - 1)
        /\ (k < i => v.ofs + k \in 0..v.capacity - 1)
        /\ (~(k < i) => v.ofs + (k - 1) \in 0..v.capacity - 1)
    BY <1>1, <1>2, <1>4, <1>6
  <2>2. Elem(w, k) = w.data[slot]
    BY <1>5 DEF Elem
  <2>. HIDE DEF slot
  <2>3. w.data[slot] = IF g.ofs + i + 1 <= slot
                       THEN g.data[g.ofs + i + (slot - (g.ofs + i + 1))]
                       ELSE g.data[slot]
    BY <1>5, <2>1
  <2>. QED BY <1>2, <2>1, <2>2, <2>3
<1>7. w.ofs < Chunk /\ WellPlaced(w)
  BY <1>2, <1>5 DEF WellPlaced
<1>. QED
  BY <1>2, <1>3, <1>5, <1>6, <1>7 DEF Good

(* insert() opens one slot and keeps every element in order around it.     *)
LEMMA InsertSlotOpens ==
    ASSUME NEW v, Good(v), NEW i \in 0..v.size
    PROVE  LET w == InsertSlot(v, i)
           IN  /\ Good(w) /\ w.size = v.size + 1
               /\ \A k \in 0..v.size : k # i =>
                    Elem(w, k) = IF k < i THEN Elem(v, k) ELSE Elem(v, k - 1)
<1>. DEFINE u == [v EXCEPT !.size = @ + 1]
            w == IF i < u.size \div 2 THEN InsertFront(u, i) ELSE InsertBack(u, i)
<1>1. /\ IsVec(u) /\ u.size = v.size + 1 /\ u.ofs = v.ofs /\ u.fault = "none"
      /\ u.capacity = v.capacity /\ u.data = v.data
  BY DEF Good, IsVec
<1>2. InsertSlot(v, i) = AssertInvariant(w)
  BY DEF InsertSlot
<1>. HIDE DEF u
<1>3. /\ i \in 0..u.size - 1 /\ u.ofs < Chunk /\ u.ofs + u.size - 1 <= u.capacity
      /\ u.capacity <= u.ofs + u.size - 1 + Chunk /\ u.size - 1 = v.size
  BY <1>1 DEF Good, IsVec, WellPlaced
<1>4. /\ Good(w) /\ w.size = u.size
      /\ \A k \in 0..u.size - 1 : k # i =>
           Elem(w, k) = IF k < i THEN u.data[u.ofs + k] ELSE u.data[u.ofs + (k - 1)]
  <2>1. CASE i < u.size \div 2
    BY <2>1, <1>1, <1>3, InsertFrontFits
  <2>2. CASE ~(i < u.size \div 2)
    BY <2>2, <1>1, <1>3, InsertBackFits
  <2>. QED BY <2>1, <2>2
<1>. HIDE DEF w
<1>5. AssertInvariant(w) = w
  BY <1>4 DEF AssertInvariant, Checked, Good
<1>6. ASSUME NEW k \in 0..v.size, k # i
      PROVE  Elem(w, k) = IF k < i THEN Elem(v, k) ELSE Elem(v, k - 1)
  <2>1. k \in 0..u.size - 1
    BY <1>3
  <2>2. Elem(w, k) = IF k < i THEN u.data[u.ofs + k] ELSE u.data[u.ofs + (k - 1)]
    BY <1>4, <1>6, <2>1
  <2>. QED BY <1>1, <2>2 DEF Elem
<1>. QED
  BY <1>1, <1>2, <1>4, <1>5, <1>6

(* push_front() opens a slot before all elements.                          *)
LEMMA PushFrontSlotOpens ==
    ASSUME NEW v, Good(v)
    PROVE  LET w == PushFrontSlot(v)
           IN  /\ Good(w) /\ w.size = v.size + 1
               /\ \A k \in 1..v.size : Elem(w, k) = Elem(v, k - 1)
<1>. DEFINE u == [v EXCEPT !.size = @ + 1]
<1>1. /\ v.ofs \in Nat /\ v.size \in Nat /\ v.capacity \in Nat
      /\ v.ofs < Chunk /\ v.ofs + v.size <= v.capacity
      /\ v.capacity <= v.ofs + v.size + Chunk /\ v.fault = "none"
  BY DEF Good, IsVec, WellPlaced
<1>2. /\ IsVec(u) /\ u.size = v.size + 1 /\ u.ofs = v.ofs /\ u.fault = "none"
      /\ u.capacity = v.capacity /\ u.data = v.data
  BY <1>1 DEF Good, IsVec
<1>3. CASE 0 < u.ofs
  <2>. DEFINE w == [u EXCEPT !.ofs = @ - 1]
  <2>1. /\ IsVec(w) /\ w.size = v.size + 1 /\ w.ofs = v.ofs - 1
        /\ w.capacity = v.capacity /\ w.fault = "none" /\ w.data = v.data
    <3>. HIDE DEF u
    <3>. QED BY <1>2, <1>3 DEF IsVec
  <2>2. PushFrontSlot(v) = AssertInvariant(w)
    BY <1>3 DEF PushFrontSlot
  <2>. HIDE DEF w, u
  <2>3. w.ofs < Chunk /\ WellPlaced(w)
    BY <1>1, <1>2, <1>3, <2>1, ChunkAssumption DEF WellPlaced
  <2>4. \A k \in 1..v.size : Elem(w, k) = Elem(v, k - 1)
    <3>. TAKE k \in 1..v.size
    <3>1. v.ofs - 1 + k = v.ofs + (k - 1)
      BY <1>1
    <3>. QED BY <2>1, <3>1 DEF Elem
  <2>. QED BY <2>1, <2>2, <2>3, <2>4 DEF AssertInvariant, Checked, Good
<1>4. CASE ~(0 < u.ofs)
  <2>. DEFINE t == [u EXCEPT !.ofs = Chunk - 1]
              g == TryGrow(t)
              w == MemMove(g, g.ofs + 1, 0, g.size - 1)
  <2>1. v.ofs = 0 /\ Chunk - 1 \in Nat
    BY <1>1, <1>2, <1>4, ChunkAssumption
  <2>2. /\ IsVec(t) /\ t.ofs = Chunk - 1 /\ t.size = v.size + 1
        /\ t.capacity = v.capacity /\ t.fault = "none" /\ t.data = v.data
    <3>. HIDE DEF u
    <3>. QED BY <1>2, <2>1 DEF IsVec
  <2>3. PushFrontSlot(v) = AssertInvariant(w)
    BY <1>4 DEF PushFrontSlot
  <2>. HIDE DEF t, u
  <2>4. /\ IsVec(g) /\ WellPlaced(g) /\ g.ofs = Chunk - 1 /\ g.size = v.size + 1
        /\ g.fault = "none" /\ g.ofs + g.size < g.capacity
        /\ v.capacity <= g.capacity
        /\ \A k \in 0..v.capacity - 1 : g.data[k] = v.data[k]
    <3>1. t.ofs <= Chunk /\ t.capacity <= t.ofs + t.size + Chunk
      BY <1>1, <2>1, <2>2, ChunkAssumption
    <3>. QED BY <2>2, <3>1, TryGrowFits
  <2>. HIDE DEF g
  <2>5. g.capacity \in Nat
    BY <2>4 DEF IsVec
  <2>6. /\ IsVec(w) /\ w.ofs = g.ofs /\ w.size = g.size
        /\ w.capacity = g.capacity /\ w.fault = "none"
        /\ \A k \in 0..g.capacity - 1 :
             w.data[k] = IF g.ofs + 1 <= k /\ k < g.ofs + 1 + (g.size - 1)
                         THEN g.data[0 + (k - (g.ofs + 1))] ELSE g.data[k]
    <3>1. /\ g.ofs + 1 \in Int /\ 0 \in Int /\ g.size - 1 \in Int
          /\ 0 <= g.size - 1 /\ 0 <= g.ofs + 1 /\ 0 <= 0
          /\ g.ofs + 1 + (g.size - 1) <= g.capacity
          /\ 0 + (g.size - 1) <= g.capacity
      BY <1>1, <2>1, <2>4, <2>5
    <3>. QED BY <2>4, <3>1, MemMoveFits
  <2>. HIDE DEF w
  <2>7. ASSUME NEW k \in 1..v.size
        PROVE  Elem(w, k) = Elem(v, k - 1)
    <3>. DEFINE slot == g.ofs + k
    <3>1. /\ slot \in 0..g.capacity - 1 /\ g.ofs + 1 <= slot
          /\ slot < g.ofs + 1 + (g.size - 1)
          /\ 0 + (slot - (g.ofs + 1)) = k - 1
          /\ k - 1 \in 0..v.capacity - 1 /\ v.ofs + (k - 1) = k - 1
      BY <1>1, <2>1, <2>4, <2>5
    <3>2. Elem(w, k) = w.data[slot] /\ Elem(v, k - 1) = v.data[k - 1]
      BY <2>6, <3>1 DEF Elem
    <3>. HIDE DEF slot
    <3>3. w.data[slot] = g.data[0 + (slot - (g.ofs + 1))]
      BY <2>6, <3>1
    <3>. QED BY <2>4, <3>1, <3>2, <3>3
  <2>8. w.ofs < Chunk /\ WellPlaced(w)
    BY <2>1, <2>4, <2>6, ChunkAssumption DEF WellPlaced
  <2>. QED BY <2>3, <2>4, <2>6, <2>7, <2>8 DEF AssertInvariant, Checked, Good
<1>. QED
  BY <1>3, <1>4

LEMMA PushBackSlotOpens ==
    ASSUME NEW v, Good(v)
    PROVE  LET w == PushBackSlot(v)
           IN  /\ Good(w) /\ w.size = v.size + 1
               /\ \A k \in 0..v.size - 1 : Elem(w, k) = Elem(v, k)
<1>. DEFINE u == [v EXCEPT !.size = @ + 1]
            w == TryGrow(u)
<1>1. /\ v.ofs \in Nat /\ v.size \in Nat /\ v.capacity \in Nat
      /\ v.ofs < Chunk /\ v.ofs + v.size <= v.capacity
      /\ v.capacity <= v.ofs + v.size + Chunk /\ v.fault = "none"
  BY DEF Good, IsVec, WellPlaced
<1>2. /\ IsVec(u) /\ u.size = v.size + 1 /\ u.ofs = v.ofs /\ u.fault = "none"
      /\ u.capacity = v.capacity /\ u.data = v.data
  BY <1>1 DEF Good, IsVec
<1>3. PushBackSlot(v) = w
  BY DEF PushBackSlot
<1>. HIDE DEF u
<1>4. /\ IsVec(w) /\ WellPlaced(w) /\ w.ofs = v.ofs /\ w.size = v.size + 1
      /\ w.fault = "none"
      /\ \A k \in 0..v.capacity - 1 : w.data[k] = v.data[k]
  <2>1. u.ofs <= Chunk /\ u.capacity <= u.ofs + u.size + Chunk
    BY <1>1, <1>2, ChunkAssumption
  <2>. QED BY <1>2, <2>1, TryGrowFits
<1>. HIDE DEF w
<1>5. \A k \in 0..v.size - 1 : Elem(w, k) = Elem(v, k)
  <2>. TAKE k \in 0..v.size - 1
  <2>1. v.ofs + k \in 0..v.capacity - 1
    BY <1>1
  <2>. QED BY <1>4, <2>1 DEF Elem
<1>. QED
  BY <1>1, <1>3, <1>4, <1>5 DEF Good

LEMMA DropBackRemoves ==
    ASSUME NEW v, Good(v), v.size > 0
    PROVE  LET w == DropBack(v)
           IN  /\ Good(w) /\ w.size = v.size - 1
               /\ \A k \in 0..v.size - 2 : Elem(w, k) = Elem(v, k)
<1>. DEFINE u == [v EXCEPT !.size = @ - 1]
            w == TryShrink(u)
<1>1. /\ v.ofs \in Nat /\ v.size \in Nat /\ v.capacity \in Nat
      /\ v.ofs < Chunk /\ v.ofs + v.size <= v.capacity /\ v.fault = "none"
  BY DEF Good, IsVec, WellPlaced
<1>2. /\ IsVec(u) /\ u.size = v.size - 1 /\ u.ofs = v.ofs /\ u.fault = "none"
      /\ u.capacity = v.capacity /\ u.data = v.data
  BY <1>1 DEF Good, IsVec
<1>3. DropBack(v) = w
  BY DEF DropBack
<1>. HIDE DEF u
<1>4. /\ IsVec(w) /\ WellPlaced(w) /\ w.ofs = u.ofs /\ w.size = u.size
      /\ w.fault = "none"
      /\ \A k \in 0..u.ofs + u.size - 1 : w.data[k] = u.data[k]
  <2>1. u.ofs <= Chunk /\ u.ofs + u.size <= u.capacity
    BY <1>1, <1>2, ChunkAssumption
  <2>. QED BY <1>2, <2>1, TryShrinkFits
<1>. HIDE DEF w
<1>5. \A k \in 0..v.size - 2 : Elem(w, k) = Elem(v, k)
  <2>. TAKE k \in 0..v.size - 2
  <2>1. v.ofs + k \in 0..u.ofs + u.size - 1
    BY <1>1, <1>2
  <2>. QED BY <1>2, <1>4, <2>1 DEF Elem
<1>. QED
  BY <1>1, <1>2, <1>3, <1>4, <1>5 DEF Good

(* pop_front() always leaves a well formed vector, and removes the first   *)
(* element as long as there is no gap.                                     *)
LEMMA DropFrontRemoves ==
    ASSUME NEW v, Good(v), v.size > 0
    PROVE  LET w == DropFront(v)
           IN  /\ Good(w) /\ w.size = v.size - 1
               /\ v.ofs = 0 =>
                    \A k \in 0..v.size - 2 : Elem(w, k) = Elem(v, k + 1)
<1>. DEFINE u == [v EXCEPT !.size = @ - 1]
            m == MemMove(u, 0, u.ofs + 1, u.size)
            w == TryShrink(m)
<1>1. /\ v.ofs \in Nat /\ v.size \in Nat /\ v.capacity \in Nat
      /\ v.ofs < Chunk /\ v.ofs + v.size <= v.capacity /\ v.fault = "none"
  BY DEF Good, IsVec, WellPlaced
<1>2. /\ IsVec(u) /\ u.size = v.size - 1 /\ u.ofs = v.ofs /\ u.fault = "none"
      /\ u.capacity = v.capacity /\ u.data = v.data
  BY <1>1 DEF Good, IsVec
<1>3. DropFront(v) = w
  BY DEF DropFront
<1>. HIDE DEF u
<1>4. /\ IsVec(m) /\ m.ofs = u.ofs /\ m.size = u.size
      /\ m.capacity = u.capacity /\ m.fault = "none"
      /\ \A k \in 0..u.capacity - 1 :
           m.data[k] = IF 0 <= k /\ k < 0 + u.size
                       THEN u.data[u.ofs + 1 + (k - 0)] ELSE u.data[k]
  <2>1. /\ 0 \in Int /\ u.ofs + 1 \in Int /\ u.size \in Int /\ 0 <= u.size
        /\ 0 <= 0 /\ 0 + u.size <= u.capacity /\ 0 <= u.ofs + 1
        /\ u.ofs + 1 + u.size <= u.capacity
    BY <1>1, <1>2
  <2>. QED BY <1>2, <2>1, MemMoveFits
<1>. HIDE DEF m
<1>5. /\ IsVec(w) /\ WellPlaced(w) /\ w.ofs = m.ofs /\ w.size = m.size
      /\ w.fault = "none"
      /\ \A k \in 0..m.ofs + m.size - 1 : w.data[k] = m.data[k]
  <2>1. m.ofs <= Chunk /\ m.ofs + m.size <= m.capacity
    BY <1>1, <1>2, <1>4, ChunkAssumption
  <2>. QED BY <1>4, <2>1, TryShrinkFits
<1>. HIDE DEF w
<1>6. ASSUME v.ofs = 0, NEW k \in 0..v.size - 2
      PROVE  Elem(w, k) = Elem(v, k + 1)
  <2>1. /\ k \in 0..m.ofs + m.size - 1 /\ k \in 0..u.capacity - 1
        /\ 0 <= k /\ k < 0 + u.size /\ u.ofs + 1 + (k - 0) = k + 1
        /\ w.ofs + k = k /\ v.ofs + (k + 1) = k + 1
    BY <1>1, <1>2, <1>4, <1>5, <1>6
  <2>2. w.data[k] = m.data[k]
    BY <1>5, <2>1
  <2>3. m.data[k] = v.data[k + 1]
    BY <1>2, <1>4, <2>1
  <2>. QED BY <2>1, <2>2, <2>3 DEF Elem
<1>. QED
  BY <1>1, <1>2, <1>3, <1>4, <1>5, <1>6 DEF Good

(* Writing through a returned pointer changes that element only.           *)
LEMMA StoreWrites ==
    ASSUME NEW v, Good(v), NEW i \in 0..v.size - 1, NEW x \in Val
    PROVE  LET w == Store(v, i, x)
           IN  /\ Good(w) /\ w.size = v.size
               /\ \A k \in 0..v.size - 1 :
                    Elem(w, k) = IF k = i THEN x ELSE Elem(v, k)
<1>. DEFINE d == [k \in DOMAIN v.data |-> IF k = v.ofs + i THEN x ELSE v.data[k]]
            w == [v EXCEPT !.data = d]
<1>1. /\ v.ofs \in Nat /\ v.size \in Nat /\ v.capacity \in Nat
      /\ v.ofs + v.size <= v.capacity /\ DOMAIN v.data = 0..v.capacity - 1
  BY DEF Good, IsVec, WellPlaced
<1>2. d \in [0..v.capacity - 1 -> Val \cup {Junk}]
  BY DEF Good, IsVec
<1>3. /\ DOMAIN w = DOMAIN v /\ w.data = d /\ w.ofs = v.ofs /\ w.size = v.size
      /\ w.capacity = v.capacity /\ w.fault = v.fault
  BY DEF Good, IsVec
<1>4. Store(v, i, x) = w
  BY DEF Store
<1>5. \A k \in 0..v.size - 1 : Elem(w, k) = IF k = i THEN x ELSE Elem(v, k)
  <2>. TAKE k \in 0..v.size - 1
  <2>1. v.ofs + k \in DOMAIN v.data /\ (v.ofs + k = v.ofs + i <=> k = i)
    BY <1>1
  <2>2. d[v.ofs + k] = IF k = i THEN x ELSE v.data[v.ofs + k]
    BY <2>1
  <2>. HIDE DEF w, d
  <2>. QED BY <1>3, <2>2 DEF Elem
<1>. HIDE DEF w, d
<1>6. Good(w)
  BY <1>2, <1>3 DEF Good, IsVec, WellPlaced
<1>. QED
  BY <1>3, <1>4, <1>5, <1>6

LEMMA NewIsGood ==
    ASSUME NEW n \in Nat
    PROVE  /\ Good(New(n)) /\ New(n).size = n /\ New(n).capacity = n
           /\ \A k \in 0..n - 1 : Elem(New(n), k) = Zero
<1>. DEFINE w == [ofs |-> 0, size |-> n, capacity |-> n, fault |-> "none",
                  data |-> [k \in 0..n - 1 |-> Zero]]
<1>1. IsVec(w) /\ WellPlaced(w)
  BY ChunkAssumption, ValAssumption DEF IsVec, WellPlaced, Faults
<1>2. New(n) = w
  BY <1>1 DEF New, AssertInvariant, Checked
<1>. QED
  BY <1>1, <1>2, ChunkAssumption DEF Good, Elem

(* Reserving keeps the first elements: all of them, or those that fit.     *)
LEMMA ReserveKeeps ==
    ASSUME NEW v, Good(v), NEW n \in Nat,
           v.ofs <= n, n <= v.ofs + v.size + Chunk
    PROVE  LET w == Reserve_(v, n)
           IN  /\ Good(w)
               /\ w.size = IF v.ofs + v.size > n THEN n - v.ofs ELSE v.size
               /\ \A k \in 0..w.size - 1 : Elem(w, k) = Elem(v, k)
<1>. DEFINE w == Reserve_(v, n)
<1>1. /\ v.ofs \in Nat /\ v.size \in Nat /\ v.capacity \in Nat
      /\ v.ofs < Chunk /\ v.ofs + v.size <= v.capacity
      /\ IsVec(v) /\ v.fault = "none"
  BY DEF Good, IsVec, WellPlaced
<1>2. /\ IsVec(w) /\ WellPlaced(w) /\ w.ofs = v.ofs /\ w.fault = "none"
      /\ w.size = (IF v.ofs + v.size > n THEN n - v.ofs ELSE v.size)
      /\ \A k \in 0..n - 1 : k < v.capacity => w.data[k] = v.data[k]
  <2>1. v.ofs <= Chunk
    BY <1>1, ChunkAssumption
  <2>. QED BY <1>1, <2>1, ReserveFits
<1>. HIDE DEF w
<1>3. \A k \in 0..w.size - 1 : Elem(w, k) = Elem(v, k)
  <2>. TAKE k \in 0..w.size - 1
  <2>1. v.ofs + k \in 0..n - 1 /\ v.ofs + k < v.capacity
    BY <1>1, <1>2
  <2>. QED BY <1>2, <2>1 DEF Elem
<1>. QED
  BY <1>1, <1>2, <1>3 DEF Good, w

-----------------------------------------------------------------------------
(* The theorems.                                                           *)

IInv == TypeOK /\ NoAssertFails /\ GapAndSlackBounded

LEMMA GoodIsIInv == (Good(vec) => IInv) /\ (IInv /\ Running => Good(vec))
BY DEF Good, IInv, TypeOK, NoAssertFails, GapAndSlackBounded, Running

(* An abort on the client's index leaves the struct as it was.             *)
LEMMA AbortKeeps ==
    ASSUME NEW v, Good(v)
    PROVE  LET w == [v EXCEPT !.fault = "bounds"]
           IN  /\ IsVec(w) /\ w.fault = "bounds" /\ w.ofs < Chunk /\ WellPlaced(w)
               /\ w.size = v.size /\ w.ofs = v.ofs /\ w.data = v.data
BY DEF Good, IsVec, WellPlaced, Faults

LEMMA StepKeepsIInv == IInv /\ [Next]_vars => IInv'
<1>. SUFFICES ASSUME IInv, [Next]_vars PROVE IInv'
  OBVIOUS
<1>1. (Good(vec'))  => IInv'
  BY DEF Good, IInv, TypeOK, NoAssertFails, GapAndSlackBounded
<1>2. ASSUME Good(vec), vec' = [vec EXCEPT !.fault = "bounds"]
      PROVE  IInv'
  BY <1>2, AbortKeeps DEF IInv, TypeOK, NoAssertFails, GapAndSlackBounded
<1>. USE GoodIsIInv
<1>3. ASSUME NEW x \in Val, PushBack(x) PROVE IInv'
  <2>1. Good(vec) /\ Good(PushBackSlot(vec)) /\ vec.size \in 0..PushBackSlot(vec).size - 1
    BY <1>3, PushBackSlotOpens DEF PushBack, Good, IsVec
  <2>. QED BY <1>1, <1>3, <2>1, StoreWrites DEF PushBack
<1>4. ASSUME NEW x \in Val, PushFront(x) PROVE IInv'
  <2>1. Good(vec) /\ Good(PushFrontSlot(vec)) /\ 0 \in 0..PushFrontSlot(vec).size - 1
    BY <1>4, PushFrontSlotOpens DEF PushFront, Good, IsVec
  <2>. QED BY <1>1, <1>4, <2>1, StoreWrites DEF PushFront
<1>5. ASSUME NEW i \in 0..MaxSize, NEW x \in Val, Insert(i, x) PROVE IInv'
  <2>1. Good(vec)
    BY <1>5 DEF Insert
  <2>2. CASE i <= vec.size
    <3>1. Good(InsertSlot(vec, i)) /\ i \in 0..InsertSlot(vec, i).size - 1
      BY <2>1, <2>2, InsertSlotOpens, BoundAssumption DEF Good, IsVec
    <3>. QED BY <1>1, <1>5, <2>2, <3>1, StoreWrites DEF Insert
  <2>3. CASE ~(i <= vec.size)
    BY <1>5, <1>2, <2>1, <2>3, BoundAssumption DEF Insert, InBounds, Checked, Running, Good, IsVec
  <2>. QED BY <2>2, <2>3
<1>6. ASSUME NEW i \in 0..MaxSize, NEW x \in Val, Write(i, x) PROVE IInv'
  <2>1. Good(vec)
    BY <1>6 DEF Write
  <2>2. CASE i < vec.size
    <3>1. i \in 0..vec.size - 1
      BY <2>1, <2>2, BoundAssumption DEF Good, IsVec
    <3>2. Good(Store(vec, i, x))
      BY <2>1, <3>1, StoreWrites
    <3>. QED BY <1>1, <1>6, <2>2, <3>2 DEF Write
  <2>3. CASE ~(i < vec.size)
    BY <1>6, <1>2, <2>1, <2>3, BoundAssumption DEF Write, InBounds, Checked, Running, Good, IsVec
  <2>. QED BY <2>2, <2>3
<1>7. ASSUME NEW i \in 0..MaxSize, Erase(i) PROVE IInv'
  <2>1. Good(vec)
    BY <1>7 DEF Erase
  <2>2. CASE i < vec.size
    BY <1>1, <1>7, <2>1, <2>2, EraseAtRemoves, BoundAssumption DEF Erase, Good, IsVec
  <2>3. CASE ~(i < vec.size)
    BY <1>7, <1>2, <2>1, <2>3, BoundAssumption DEF Erase, InBounds, Checked, Running, Good, IsVec
  <2>. QED BY <2>2, <2>3
<1>8. ASSUME NEW n \in 0..MaxSize, Create(n) PROVE IInv'
  BY <1>1, <1>8, NewIsGood, BoundAssumption DEF Create
<1>9. ASSUME NEW n \in Num, Reserve(n) PROVE IInv'
  <2>1. Good(vec) /\ n \in Nat
    BY <1>9, BoundAssumption, ChunkAssumption DEF Reserve, Num
  <2>. QED BY <1>1, <1>9, <2>1, ReserveKeeps DEF Reserve
<1>10. ASSUME NEW n \in Num, Resize(n) PROVE IInv'
  <2>1. Good(vec) /\ n \in Nat
    BY <1>10, BoundAssumption, ChunkAssumption DEF Resize, Num
  <2>2. /\ vec.ofs + n \in Nat /\ vec.ofs <= vec.ofs + n
        /\ vec.ofs + n <= vec.ofs + vec.size + Chunk
    BY <1>10, <2>1, ChunkAssumption DEF Resize, Good, IsVec
  <2>. QED BY <1>1, <1>10, <2>1, <2>2, ReserveKeeps DEF Resize
<1>11. ASSUME PopBack PROVE IInv'
  <2>1. CASE vec.size > 0
    BY <1>1, <1>11, <2>1, DropBackRemoves DEF PopBack
  <2>2. CASE ~(vec.size > 0)
    BY <1>11, <1>2, <2>2 DEF PopBack, NotEmpty, Checked, Running
  <2>. QED BY <2>1, <2>2
<1>12. ASSUME PopFront PROVE IInv'
  <2>1. CASE vec.size > 0
    BY <1>1, <1>12, <2>1, DropFrontRemoves DEF PopFront
  <2>2. CASE ~(vec.size > 0)
    BY <1>12, <1>2, <2>2 DEF PopFront, NotEmpty, Checked, Running
  <2>. QED BY <2>1, <2>2
<1>13. ASSUME Clean PROVE IInv'
  BY <1>1, <1>13, NewIsGood DEF Clean
<1>14. ASSUME UNCHANGED vars PROVE IInv'
  BY <1>14 DEF vars, IInv, TypeOK, NoAssertFails, GapAndSlackBounded
<1>. QED
  BY <1>3, <1>4, <1>5, <1>6, <1>7, <1>8, <1>9, <1>10, <1>11, <1>12, <1>13, <1>14
     DEF Next

(* The struct stays well formed, no ASSERT of vector.h ever fails, and the *)
(* gap and the slack stay within a chunk, whatever a client calls, for     *)
(* every chunk: the bounds of the code's memmove and realloc calls.        *)
THEOREM VectorSafe == Spec => [](TypeOK /\ NoAssertFails /\ GapAndSlackBounded)
<1>1. Init => IInv
  BY NewIsGood, GoodIsIInv, BoundAssumption DEF Init
<1>2. QED
  BY <1>1, StepKeepsIInv, PTL DEF Spec, IInv

-----------------------------------------------------------------------------
(* Refinement: the sequence of elements a client sees.                     *)

Elt == Val \cup {Junk}

-----------------------------------------------------------------------------
(* What the operators on sequences do, element by element.                 *)

LEMMA RemoveAtElements ==
    ASSUME NEW S, NEW s \in Seq(S), NEW i \in 1..Len(s)
    PROVE  LET r == RemoveAt(s, i)
           IN  /\ r \in Seq(S) /\ Len(r) = Len(s) - 1
               /\ \A j \in 1..Len(s) - 1 : r[j] = IF j < i THEN s[j] ELSE s[j + 1]
<1>. DEFINE a == SubSeq(s, 1, i - 1)
            b == SubSeq(s, i + 1, Len(s))
<1>1. Len(s) \in Nat /\ \A j \in 1..Len(s) : s[j] \in S
  BY ElementOfSeq, LenProperties
<1>2. /\ a \in Seq(S) /\ Len(a) = i - 1 /\ \A j \in 1..i - 1 : a[j] = s[j]
  <2>1. /\ 1 \in Int /\ i - 1 \in Int /\ \A j \in 1..i - 1 : s[j] \in S
        /\ (IF 1 <= i - 1 THEN i - 1 - 1 + 1 ELSE 0) = i - 1
        /\ \A j \in 1..i - 1 : j \in 1..i - 1 - 1 + 1 /\ 1 + j - 1 = j
    BY <1>1
  <2>. QED BY <2>1, SubSeqProperties
<1>3. /\ b \in Seq(S) /\ Len(b) = Len(s) - i
      /\ \A j \in 1..Len(s) - i : b[j] = s[i + j]
  <2>1. /\ i + 1 \in Int /\ Len(s) \in Int /\ \A j \in i + 1..Len(s) : s[j] \in S
        /\ (IF i + 1 <= Len(s) THEN Len(s) - (i + 1) + 1 ELSE 0) = Len(s) - i
        /\ \A j \in 1..Len(s) - i : /\ j \in 1..Len(s) - (i + 1) + 1
                                    /\ i + 1 + j - 1 = i + j
    BY <1>1
  <2>. QED BY <2>1, SubSeqProperties
<1>. HIDE DEF a, b
<1>4. /\ a \o b \in Seq(S) /\ Len(a \o b) = Len(a) + Len(b)
      /\ \A j \in 1..Len(a) + Len(b) :
           (a \o b)[j] = IF j <= Len(a) THEN a[j] ELSE b[j - Len(a)]
  BY <1>2, <1>3, ConcatProperties
<1>5. Len(a) + Len(b) = Len(s) - 1
  BY <1>1, <1>2, <1>3
<1>6. ASSUME NEW j \in 1..Len(s) - 1
      PROVE  (a \o b)[j] = IF j < i THEN s[j] ELSE s[j + 1]
  <2>1. CASE j < i
    <3>1. j <= Len(a) /\ j \in 1..i - 1
      BY <1>1, <1>2, <2>1
    <3>. QED BY <1>2, <1>4, <1>5, <2>1, <3>1
  <2>2. CASE ~(j < i)
    <3>1. /\ ~(j <= Len(a)) /\ j - Len(a) \in 1..Len(s) - i
          /\ i + (j - Len(a)) = j + 1
      BY <1>1, <1>2, <2>2
    <3>. QED BY <1>3, <1>4, <1>5, <2>2, <3>1
  <2>. QED BY <2>1, <2>2
<1>. QED BY <1>4, <1>5, <1>6 DEF RemoveAt, a, b

LEMMA InsertAtElements ==
    ASSUME NEW S, NEW s \in Seq(S), NEW i \in 1..Len(s) + 1, NEW x \in S
    PROVE  LET r == InsertAt(s, i, x)
           IN  /\ r \in Seq(S) /\ Len(r) = Len(s) + 1
               /\ \A j \in 1..Len(s) + 1 :
                    r[j] = IF j < i THEN s[j] ELSE IF j = i THEN x ELSE s[j - 1]
<1>. DEFINE a == SubSeq(s, 1, i - 1)
            b == SubSeq(s, i, Len(s))
            c == <<x>> \o b
<1>1. Len(s) \in Nat /\ \A j \in 1..Len(s) : s[j] \in S
  BY ElementOfSeq, LenProperties
<1>2. /\ a \in Seq(S) /\ Len(a) = i - 1 /\ \A j \in 1..i - 1 : a[j] = s[j]
  <2>1. /\ 1 \in Int /\ i - 1 \in Int /\ \A j \in 1..i - 1 : s[j] \in S
        /\ (IF 1 <= i - 1 THEN i - 1 - 1 + 1 ELSE 0) = i - 1
        /\ \A j \in 1..i - 1 : j \in 1..i - 1 - 1 + 1 /\ 1 + j - 1 = j
    BY <1>1
  <2>. QED BY <2>1, SubSeqProperties
<1>3. /\ b \in Seq(S) /\ Len(b) = Len(s) + 1 - i
      /\ \A j \in 1..Len(s) + 1 - i : b[j] = s[i + j - 1]
  <2>1. /\ i \in Int /\ Len(s) \in Int /\ \A j \in i..Len(s) : s[j] \in S
        /\ (IF i <= Len(s) THEN Len(s) - i + 1 ELSE 0) = Len(s) + 1 - i
        /\ \A j \in 1..Len(s) + 1 - i : j \in 1..Len(s) - i + 1
    BY <1>1
  <2>. QED BY <2>1, SubSeqProperties
<1>. HIDE DEF a, b
<1>4. <<x>> \in Seq(S) /\ Len(<<x>>) = 1 /\ <<x>>[1] = x
  OBVIOUS
<1>5. /\ c \in Seq(S) /\ Len(c) = 1 + Len(b)
      /\ \A j \in 1..1 + Len(b) : c[j] = IF j <= 1 THEN <<x>>[j] ELSE b[j - 1]
  BY <1>3, <1>4, ConcatProperties
<1>. HIDE DEF c
<1>6. /\ a \o c \in Seq(S) /\ Len(a \o c) = Len(a) + Len(c)
      /\ \A j \in 1..Len(a) + Len(c) :
           (a \o c)[j] = IF j <= Len(a) THEN a[j] ELSE c[j - Len(a)]
  BY <1>2, <1>5, ConcatProperties
<1>7. Len(a) + Len(c) = Len(s) + 1
  BY <1>1, <1>2, <1>3, <1>5
<1>8. ASSUME NEW j \in 1..Len(s) + 1
      PROVE  (a \o c)[j] = IF j < i THEN s[j] ELSE IF j = i THEN x ELSE s[j - 1]
  <2>1. CASE j < i
    <3>1. j <= Len(a) /\ j \in 1..i - 1
      BY <1>1, <1>2, <2>1
    <3>. QED BY <1>2, <1>6, <1>7, <2>1, <3>1
  <2>2. CASE j = i
    <3>1. ~(j <= Len(a)) /\ j - Len(a) = 1 /\ 1 \in 1..1 + Len(b)
      BY <1>1, <1>2, <1>3, <2>2
    <3>. QED BY <1>4, <1>5, <1>6, <1>7, <2>2, <3>1
  <2>3. CASE i < j
    <3>. DEFINE k == j - Len(a)
                l == k - 1
    <3>1. /\ ~(j <= Len(a)) /\ k \in 1..1 + Len(b) /\ ~(k <= 1)
          /\ l \in 1..Len(s) + 1 - i /\ i + l - 1 = j - 1
          /\ ~(j < i) /\ j # i
      BY <1>1, <1>2, <1>3, <2>3
    <3>2. (a \o c)[j] = c[k]
      BY <1>6, <1>7, <3>1
    <3>3. c[k] = b[l]
      BY <1>5, <3>1
    <3>. HIDE DEF k, l
    <3>4. b[l] = s[i + l - 1]
      BY <1>3, <3>1
    <3>. QED BY <3>1, <3>2, <3>3, <3>4
  <2>4. j < i \/ j = i \/ i < j
    BY <1>1
  <2>. QED BY <2>1, <2>2, <2>3, <2>4
<1>9. InsertAt(s, i, x) = a \o c
  <2>1. (a \o <<x>>) \o b = a \o (<<x>> \o b)
    BY <1>2, <1>3, <1>4, ConcatAssociative
  <2>. QED BY <2>1 DEF InsertAt, a, b, c
<1>. QED BY <1>6, <1>7, <1>8, <1>9

-----------------------------------------------------------------------------
(* The sequence a vector shows.                                            *)

Shown(v) == [i \in 1..v.size |-> Elem(v, i - 1)]

LEMMA ShownIsSeq ==
    ASSUME NEW v, Good(v)
    PROVE  /\ v.size \in Nat
           /\ Shown(v) \in Seq(Elt) /\ Len(Shown(v)) = v.size
           /\ \A i \in 1..v.size : Shown(v)[i] = Elem(v, i - 1)
<1>1. /\ v.ofs \in Nat /\ v.size \in Nat /\ v.capacity \in Nat
      /\ v.ofs + v.size <= v.capacity
      /\ v.data \in [0..v.capacity - 1 -> Elt]
  BY DEF Good, IsVec, WellPlaced, Elt
<1>2. \A i \in 1..v.size : Elem(v, i - 1) \in Elt
  <2>. TAKE i \in 1..v.size
  <2>1. v.ofs + (i - 1) \in 0..v.capacity - 1
    BY <1>1
  <2>. QED BY <1>1, <2>1 DEF Elem
<1>3. Shown(v) \in [1..v.size -> Elt]
  BY <1>2 DEF Shown
<1>4. Shown(v) \in Seq(Elt)
  BY <1>1, <1>3, SeqDef
<1>5. Len(Shown(v)) = v.size
  BY <1>1, <1>3, <1>4, LenProperties DEF Shown
<1>. QED BY <1>1, <1>4, <1>5 DEF Shown

(* Two sequences with the same elements, one of them a vector's.           *)
LEMMA ShownEquals ==
    ASSUME NEW w, Good(w), NEW r \in Seq(Elt), Len(r) = w.size,
           \A k \in 0..w.size - 1 : Elem(w, k) = r[k + 1]
    PROVE  Shown(w) = r
<1>1. \A i \in 1..w.size : Shown(w)[i] = r[i]
  <2>. TAKE i \in 1..w.size
  <2>1. i - 1 \in 0..w.size - 1 /\ (i - 1) + 1 = i
    BY ShownIsSeq
  <2>2. Elem(w, i - 1) = r[(i - 1) + 1]
    BY <2>1
  <2>. QED BY <2>1, <2>2, ShownIsSeq
<1>. QED BY <1>1, ShownIsSeq, SeqEqual

LEMMA ShownErase ==
    ASSUME NEW v, Good(v), NEW i \in 0..v.size - 1
    PROVE  Shown(EraseAt(v, i)) = RemoveAt(Shown(v), i + 1)
<1>. DEFINE w == EraseAt(v, i)
            s == Shown(v)
            r == RemoveAt(s, i + 1)
<1>1. /\ Good(w) /\ w.size = v.size - 1
      /\ \A k \in 0..v.size - 2 :
           Elem(w, k) = IF k < i THEN Elem(v, k) ELSE Elem(v, k + 1)
  BY EraseAtRemoves
<1>2. /\ v.size \in Nat /\ s \in Seq(Elt) /\ Len(s) = v.size
      /\ \A j \in 1..v.size : s[j] = Elem(v, j - 1)
  BY ShownIsSeq
<1>. HIDE DEF w, s
<1>3. /\ r \in Seq(Elt) /\ Len(r) = v.size - 1
      /\ \A j \in 1..v.size - 1 : r[j] = IF j < i + 1 THEN s[j] ELSE s[j + 1]
  <2>1. i + 1 \in 1..Len(s)
    BY <1>2
  <2>. QED BY <1>2, <2>1, RemoveAtElements
<1>. HIDE DEF r
<1>4. ASSUME NEW k \in 0..w.size - 1
      PROVE  Elem(w, k) = r[k + 1]
  <2>. DEFINE j == k + 1
  <2>1. /\ k \in 0..v.size - 2 /\ j \in 1..v.size - 1 /\ (j < i + 1 <=> k < i)
        /\ j \in 1..v.size /\ j + 1 \in 1..v.size
        /\ j - 1 = k /\ (j + 1) - 1 = k + 1
    BY <1>1, <1>2
  <2>2. s[j] = Elem(v, k) /\ s[j + 1] = Elem(v, k + 1)
    BY <1>2, <2>1
  <2>3. r[j] = IF k < i THEN Elem(v, k) ELSE Elem(v, k + 1)
    BY <1>3, <2>1, <2>2
  <2>. QED BY <1>1, <2>1, <2>3
<1>5. Shown(w) = r
  BY <1>1, <1>3, <1>4, ShownEquals
<1>. QED BY <1>5 DEF w, s, r

LEMMA ShownInsert ==
    ASSUME NEW v, Good(v), NEW i \in 0..v.size, NEW x \in Val
    PROVE  Shown(Store(InsertSlot(v, i), i, x)) = InsertAt(Shown(v), i + 1, x)
<1>. DEFINE u == InsertSlot(v, i)
            w == Store(u, i, x)
            s == Shown(v)
            r == InsertAt(s, i + 1, x)
<1>1. /\ Good(u) /\ u.size = v.size + 1
      /\ \A k \in 0..v.size : k # i =>
           Elem(u, k) = IF k < i THEN Elem(v, k) ELSE Elem(v, k - 1)
  BY InsertSlotOpens
<1>2. /\ v.size \in Nat /\ s \in Seq(Elt) /\ Len(s) = v.size
      /\ \A j \in 1..v.size : s[j] = Elem(v, j - 1)
  BY ShownIsSeq
<1>. HIDE DEF u, s
<1>3. /\ Good(w) /\ w.size = u.size
      /\ \A k \in 0..u.size - 1 :
           Elem(w, k) = IF k = i THEN x ELSE Elem(u, k)
  <2>1. i \in 0..u.size - 1
    BY <1>1, <1>2
  <2>. QED BY <1>1, <2>1, StoreWrites
<1>. HIDE DEF w
<1>4. /\ r \in Seq(Elt) /\ Len(r) = v.size + 1
      /\ \A j \in 1..v.size + 1 :
           r[j] = IF j < i + 1 THEN s[j] ELSE IF j = i + 1 THEN x ELSE s[j - 1]
  <2>1. i + 1 \in 1..Len(s) + 1 /\ x \in Elt
    BY <1>2 DEF Elt
  <2>. QED BY <1>2, <2>1, InsertAtElements
<1>. HIDE DEF r
<1>5. ASSUME NEW k \in 0..w.size - 1
      PROVE  Elem(w, k) = r[k + 1]
  <2>. DEFINE j == k + 1
  <2>1. /\ k \in 0..v.size /\ k \in 0..u.size - 1 /\ j \in 1..v.size + 1
        /\ (j < i + 1 <=> k < i) /\ (j = i + 1 <=> k = i)
        /\ (k < i => j \in 1..v.size) /\ (k > i => k \in 1..v.size)
        /\ j - 1 = k
    BY <1>1, <1>2, <1>3
  <2>2. r[j] = IF k < i THEN s[j] ELSE IF k = i THEN x ELSE s[k]
    BY <1>4, <2>1
  <2>3. CASE k < i
    <3>1. s[j] = Elem(v, k)
      BY <1>2, <2>1, <2>3
    <3>2. Elem(w, k) = Elem(v, k)
      BY <1>1, <1>3, <2>1, <2>3
    <3>. QED BY <2>2, <2>3, <3>1, <3>2
  <2>4. CASE k = i
    BY <1>3, <2>1, <2>2, <2>4
  <2>5. CASE k > i
    <3>1. s[k] = Elem(v, k - 1)
      BY <1>2, <2>1, <2>5
    <3>2. Elem(w, k) = Elem(v, k - 1)
      BY <1>1, <1>3, <2>1, <2>5
    <3>. QED BY <2>1, <2>2, <2>5, <3>1, <3>2
  <2>6. k < i \/ k = i \/ k > i
    BY <2>1
  <2>. QED BY <2>3, <2>4, <2>5, <2>6
<1>6. Shown(w) = r
  <2>1. Len(r) = w.size
    BY <1>1, <1>3, <1>4
  <2>. QED BY <1>3, <1>4, <1>5, <2>1, ShownEquals
<1>. QED BY <1>6 DEF w, s, r, u

LEMMA ShownPushBack ==
    ASSUME NEW v, Good(v), NEW x \in Val
    PROVE  Shown(Store(PushBackSlot(v), v.size, x)) = Append(Shown(v), x)
<1>. DEFINE u == PushBackSlot(v)
            w == Store(u, v.size, x)
            s == Shown(v)
            r == Append(s, x)
<1>1. /\ Good(u) /\ u.size = v.size + 1
      /\ \A k \in 0..v.size - 1 : Elem(u, k) = Elem(v, k)
  BY PushBackSlotOpens
<1>2. /\ v.size \in Nat /\ s \in Seq(Elt) /\ Len(s) = v.size
      /\ \A j \in 1..v.size : s[j] = Elem(v, j - 1)
  BY ShownIsSeq
<1>. HIDE DEF u, s
<1>3. /\ Good(w) /\ w.size = u.size
      /\ \A k \in 0..u.size - 1 : Elem(w, k) = IF k = v.size THEN x ELSE Elem(u, k)
  <2>1. v.size \in 0..u.size - 1
    BY <1>1, <1>2
  <2>. QED BY <1>1, <2>1, StoreWrites
<1>. HIDE DEF w
<1>4. /\ r \in Seq(Elt) /\ Len(r) = v.size + 1 /\ r[v.size + 1] = x
      /\ \A j \in 1..v.size : r[j] = s[j]
  <2>1. x \in Elt
    BY DEF Elt
  <2>. QED BY <1>2, <2>1, AppendProperties
<1>. HIDE DEF r
<1>5. ASSUME NEW k \in 0..w.size - 1 PROVE Elem(w, k) = r[k + 1]
  <2>. DEFINE j == k + 1
  <2>1. /\ k \in 0..u.size - 1 /\ j - 1 = k /\ (k = v.size \/ k \in 0..v.size - 1)
        /\ (k # v.size => j \in 1..v.size)
    BY <1>1, <1>2, <1>3
  <2>2. CASE k = v.size
    BY <1>3, <1>4, <2>1, <2>2
  <2>3. CASE k # v.size
    <3>1. Elem(w, k) = Elem(v, k)
      BY <1>1, <1>3, <2>1, <2>3
    <3>2. r[j] = Elem(v, j - 1)
      BY <1>2, <1>4, <2>1, <2>3
    <3>. QED BY <2>1, <3>1, <3>2
  <2>. QED BY <2>2, <2>3
<1>6. Shown(w) = r
  <2>1. Len(r) = w.size
    BY <1>1, <1>3, <1>4
  <2>. QED BY <1>3, <1>4, <1>5, <2>1, ShownEquals
<1>. QED BY <1>6 DEF w, s, r, u

LEMMA ShownPushFront ==
    ASSUME NEW v, Good(v), NEW x \in Val
    PROVE  Shown(Store(PushFrontSlot(v), 0, x)) = Cons(x, Shown(v))
<1>. DEFINE u == PushFrontSlot(v)
            w == Store(u, 0, x)
            s == Shown(v)
            r == <<x>> \o s
<1>1. /\ Good(u) /\ u.size = v.size + 1
      /\ \A k \in 1..v.size : Elem(u, k) = Elem(v, k - 1)
  BY PushFrontSlotOpens
<1>2. /\ v.size \in Nat /\ s \in Seq(Elt) /\ Len(s) = v.size
      /\ \A j \in 1..v.size : s[j] = Elem(v, j - 1)
  BY ShownIsSeq
<1>. HIDE DEF u, s
<1>3. /\ Good(w) /\ w.size = u.size
      /\ \A k \in 0..u.size - 1 : Elem(w, k) = IF k = 0 THEN x ELSE Elem(u, k)
  <2>1. 0 \in 0..u.size - 1
    BY <1>1, <1>2
  <2>. QED BY <1>1, <2>1, StoreWrites
<1>. HIDE DEF w
<1>4. /\ r \in Seq(Elt) /\ Len(r) = v.size + 1
      /\ \A j \in 1..v.size + 1 : r[j] = IF j <= 1 THEN <<x>>[j] ELSE s[j - 1]
  <2>1. <<x>> \in Seq(Elt) /\ Len(<<x>>) = 1
    BY DEF Elt
  <2>2. 1 + Len(s) = v.size + 1
    BY <1>2
  <2>. QED BY <1>2, <2>1, <2>2, ConcatProperties
<1>. HIDE DEF r
<1>5. ASSUME NEW k \in 0..w.size - 1 PROVE Elem(w, k) = r[k + 1]
  <2>. DEFINE j == k + 1
  <2>1. /\ k \in 0..u.size - 1 /\ j \in 1..v.size + 1 /\ j - 1 = k
        /\ (j <= 1 <=> k = 0) /\ (k # 0 => k \in 1..v.size)
    BY <1>1, <1>2, <1>3
  <2>2. CASE k = 0
    <3>1. r[j] = <<x>>[1] /\ <<x>>[1] = x
      BY <1>4, <2>1, <2>2
    <3>. QED BY <1>3, <2>1, <2>2, <3>1
  <2>3. CASE k # 0
    <3>1. r[j] = s[k]
      BY <1>4, <2>1, <2>3
    <3>2. s[k] = Elem(v, k - 1)
      BY <1>2, <2>1, <2>3
    <3>3. Elem(w, k) = Elem(v, k - 1)
      BY <1>1, <1>3, <2>1, <2>3
    <3>. QED BY <3>1, <3>2, <3>3
  <2>. QED BY <2>2, <2>3
<1>6. Shown(w) = r
  <2>1. Len(r) = w.size
    BY <1>1, <1>3, <1>4
  <2>. QED BY <1>3, <1>4, <1>5, <2>1, ShownEquals
<1>. QED BY <1>6 DEF w, s, r, u, Cons

(* A vector that lost elements behind n shows the first n.                 *)
LEMMA ShownPrefix ==
    ASSUME NEW v, Good(v), NEW w, Good(w), w.size <= v.size,
           \A k \in 0..w.size - 1 : Elem(w, k) = Elem(v, k)
    PROVE  Shown(w) = SubSeq(Shown(v), 1, w.size)
<1>. DEFINE s == Shown(v)
            r == SubSeq(s, 1, w.size)
<1>1. /\ v.size \in Nat /\ w.size \in Nat /\ s \in Seq(Elt) /\ Len(s) = v.size
      /\ \A j \in 1..v.size : s[j] = Elem(v, j - 1)
  BY ShownIsSeq
<1>. HIDE DEF s
<1>2. /\ r \in Seq(Elt) /\ Len(r) = w.size /\ \A j \in 1..w.size : r[j] = s[j]
  <2>1. /\ 1 \in Int /\ w.size \in Int /\ \A j \in 1..w.size : s[j] \in Elt
        /\ (IF 1 <= w.size THEN w.size - 1 + 1 ELSE 0) = w.size
        /\ \A j \in 1..w.size : j \in 1..w.size - 1 + 1 /\ 1 + j - 1 = j
    BY <1>1, ElementOfSeq
  <2>. QED BY <2>1, SubSeqProperties
<1>. HIDE DEF r
<1>3. ASSUME NEW k \in 0..w.size - 1 PROVE Elem(w, k) = r[k + 1]
  <2>. DEFINE j == k + 1
  <2>1. j \in 1..w.size /\ j \in 1..v.size /\ j - 1 = k
    BY <1>1
  <2>. QED BY <1>1, <1>2, <2>1
<1>4. Shown(w) = r
  BY <1>2, <1>3, ShownEquals
<1>. QED BY <1>4 DEF r, s

LEMMA ShownPopFront ==
    ASSUME NEW v, Good(v), v.size > 0, v.ofs = 0
    PROVE  Shown(DropFront(v)) = Tail(Shown(v))
<1>. DEFINE w == DropFront(v)
            s == Shown(v)
            r == Tail(s)
<1>1. /\ Good(w) /\ w.size = v.size - 1
      /\ \A k \in 0..v.size - 2 : Elem(w, k) = Elem(v, k + 1)
  BY DropFrontRemoves
<1>2. /\ v.size \in Nat /\ s \in Seq(Elt) /\ Len(s) = v.size
      /\ \A j \in 1..v.size : s[j] = Elem(v, j - 1)
  BY ShownIsSeq
<1>. HIDE DEF w, s
<1>3. /\ r \in Seq(Elt) /\ Len(r) = v.size - 1
      /\ \A j \in 1..v.size - 1 : r[j] = s[j + 1]
  <2>1. s # <<>>
    BY <1>2
  <2>. QED BY <1>2, <2>1, HeadTailProperties
<1>. HIDE DEF r
<1>4. ASSUME NEW k \in 0..w.size - 1 PROVE Elem(w, k) = r[k + 1]
  <2>. DEFINE j == k + 1
  <2>1. /\ k \in 0..v.size - 2 /\ j \in 1..v.size - 1 /\ j + 1 \in 1..v.size
        /\ (j + 1) - 1 = k + 1
    BY <1>1, <1>2
  <2>2. r[j] = Elem(v, k + 1)
    BY <1>2, <1>3, <2>1
  <2>. QED BY <1>1, <2>1, <2>2
<1>5. Shown(w) = r
  BY <1>1, <1>3, <1>4, ShownEquals
<1>. QED BY <1>5 DEF w, s, r

LEMMA ShownWrite ==
    ASSUME NEW v, Good(v), NEW i \in 0..v.size - 1, NEW x \in Val
    PROVE  Shown(Store(v, i, x)) = [Shown(v) EXCEPT ![i + 1] = x]
<1>. DEFINE w == Store(v, i, x)
            s == Shown(v)
            r == [s EXCEPT ![i + 1] = x]
<1>1. /\ Good(w) /\ w.size = v.size
      /\ \A k \in 0..v.size - 1 : Elem(w, k) = IF k = i THEN x ELSE Elem(v, k)
  BY StoreWrites
<1>2. /\ v.size \in Nat /\ s \in Seq(Elt) /\ Len(s) = v.size
      /\ \A j \in 1..v.size : s[j] = Elem(v, j - 1)
  BY ShownIsSeq
<1>. HIDE DEF w, s
<1>3. /\ r \in Seq(Elt) /\ Len(r) = v.size
      /\ \A j \in 1..v.size : r[j] = IF j = i + 1 THEN x ELSE s[j]
  <2>1. i + 1 \in 1..Len(s) /\ x \in Elt
    BY <1>2 DEF Elt
  <2>. QED BY <1>2, <2>1, ExceptSeq
<1>. HIDE DEF r
<1>4. ASSUME NEW k \in 0..w.size - 1 PROVE Elem(w, k) = r[k + 1]
  <2>. DEFINE j == k + 1
  <2>1. /\ k \in 0..v.size - 1 /\ j \in 1..v.size /\ (j = i + 1 <=> k = i)
        /\ j - 1 = k
    BY <1>1, <1>2
  <2>2. r[j] = IF k = i THEN x ELSE Elem(v, k)
    BY <1>2, <1>3, <2>1
  <2>. QED BY <1>1, <2>1, <2>2
<1>5. Shown(w) = r
  BY <1>1, <1>3, <1>4, ShownEquals
<1>. QED BY <1>5 DEF w, s, r

LEMMA ShownNew ==
    ASSUME NEW n \in Nat
    PROVE  /\ Len(Shown(New(n))) = n
           /\ Shown(New(n)) = [i \in 1..n |-> Zero]
<1>1. Good(New(n)) /\ New(n).size = n
  BY NewIsGood
<1>2. \A i \in 1..n : Elem(New(n), i - 1) = Zero
  <2>. TAKE i \in 1..n
  <2>1. i - 1 \in 0..n - 1
    OBVIOUS
  <2>. QED BY <2>1, NewIsGood
<1>. QED BY <1>1, <1>2, ShownIsSeq DEF Shown

-----------------------------------------------------------------------------
(* The refinement.                                                         *)

Gapless == GapPops = FALSE

LEMMA StepIsDeque ==
    ASSUME Gapless, IInv, [Next]_vars
    PROVE  [D!DequeNext]_(D!dequeVars)
<1>1. Contents = Shown(vec) /\ Contents' = Shown(vec')
  BY DEF Contents, Shown
<1>. SUFFICES ASSUME Next PROVE D!DequeNext
  BY <1>1 DEF D!dequeVars, vars, Shown
<1>2. Running /\ Good(vec)
  BY GoodIsIInv DEF Next, PushBack, PushFront, Insert, Write, Erase, Create,
     Reserve, Resize, PopBack, PopFront, Clean
<1>3. /\ vec.size \in Nat /\ vec.ofs \in Nat /\ Contents \in Seq(Elt)
      /\ Len(Contents) = vec.size
  BY <1>1, <1>2, ShownIsSeq DEF Good, IsVec
<1>4. vec' = [vec EXCEPT !.fault = "bounds"] =>
          vec'.fault = "bounds" /\ UNCHANGED Contents
  <2>. SUFFICES ASSUME vec' = [vec EXCEPT !.fault = "bounds"]
                PROVE  vec'.fault = "bounds" /\ UNCHANGED Contents
    OBVIOUS
  <2>1. /\ vec'.fault = "bounds" /\ vec'.size = vec.size /\ vec'.ofs = vec.ofs
        /\ vec'.data = vec.data
    BY <1>2, AbortKeeps
  <2>. QED BY <2>1 DEF Contents, Elem
<1>5. ASSUME NEW s, Good(vec'), Contents' = s PROVE D!Keep(s)
  BY <1>2, <1>5 DEF Good, D!Keep
<1>6. vec.fault = "none"
  BY <1>2 DEF Running
<1>7. ASSUME NEW x \in Val, PushBack(x) PROVE D!PushBack(x)
  <2>1. Good(vec')
    BY <1>7, <1>2, <1>3, PushBackSlotOpens, StoreWrites DEF PushBack
  <2>2. Contents' = Append(Contents, x)
    BY <1>1, <1>7, <1>2, ShownPushBack DEF PushBack
  <2>. QED BY <1>5, <1>7, <2>1, <2>2 DEF PushBack, D!PushBack
<1>8. ASSUME NEW x \in Val, PushFront(x) PROVE D!PushFront(x)
  <2>1. Good(vec')
    BY <1>8, <1>2, <1>3, PushFrontSlotOpens, StoreWrites DEF PushFront
  <2>2. Contents' = Cons(x, Contents)
    BY <1>1, <1>8, <1>2, ShownPushFront DEF PushFront
  <2>. QED BY <1>5, <1>8, <2>1, <2>2 DEF PushFront, D!PushFront, D!Cons, Cons
<1>9. ASSUME NEW i \in 0..MaxSize, NEW x \in Val, Insert(i, x) PROVE D!Insert(i, x)
  <2>1. CASE i <= vec.size
    <3>1. i \in 0..vec.size
      BY <1>3, <2>1, BoundAssumption
    <3>2. /\ Good(InsertSlot(vec, i)) /\ i \in 0..InsertSlot(vec, i).size - 1
      BY <1>2, <1>3, <3>1, InsertSlotOpens
    <3>3. Good(vec')
      BY <1>9, <2>1, <3>2, StoreWrites DEF Insert
    <3>4. Contents' = InsertAt(Contents, i + 1, x)
      BY <1>1, <1>9, <1>2, <2>1, <3>1, ShownInsert DEF Insert
    <3>. QED BY <1>3, <1>5, <1>9, <2>1, <3>3, <3>4
             DEF Insert, D!Insert, D!KeepIf, D!InsertAt, InsertAt
  <2>2. CASE ~(i <= vec.size)
    <3>1. vec' = [vec EXCEPT !.fault = "bounds"]
      BY <1>9, <1>3, <2>2, BoundAssumption DEF Insert, InBounds, Checked, Running
    <3>. QED BY <1>3, <1>4, <1>9, <2>2, <3>1 DEF Insert, D!Insert, D!KeepIf
  <2>. QED BY <2>1, <2>2
<1>10. ASSUME NEW i \in 0..MaxSize, NEW x \in Val, Write(i, x) PROVE D!Write(i, x)
  <2>1. CASE i < vec.size
    <3>1. i \in 0..vec.size - 1
      BY <1>3, <2>1, BoundAssumption
    <3>2. Good(vec')
      BY <1>10, <1>2, <2>1, <3>1, StoreWrites DEF Write
    <3>3. Contents' = [Contents EXCEPT ![i + 1] = x]
      BY <1>1, <1>10, <1>2, <2>1, <3>1, ShownWrite DEF Write
    <3>. QED BY <1>3, <1>5, <1>10, <2>1, <3>2, <3>3 DEF Write, D!Write, D!KeepIf
  <2>2. CASE ~(i < vec.size)
    <3>1. vec' = [vec EXCEPT !.fault = "bounds"]
      BY <1>10, <1>3, <2>2, BoundAssumption DEF Write, InBounds, Checked, Running
    <3>. QED BY <1>3, <1>4, <1>10, <2>2, <3>1 DEF Write, D!Write, D!KeepIf
  <2>. QED BY <2>1, <2>2
<1>11. ASSUME NEW i \in 0..MaxSize, Erase(i) PROVE D!Erase(i)
  <2>1. CASE i < vec.size
    <3>1. i \in 0..vec.size - 1
      BY <1>3, <2>1, BoundAssumption
    <3>2. Good(vec')
      BY <1>11, <1>2, <2>1, <3>1, EraseAtRemoves DEF Erase
    <3>3. Contents' = RemoveAt(Contents, i + 1)
      BY <1>1, <1>11, <1>2, <2>1, <3>1, ShownErase DEF Erase
    <3>. QED BY <1>3, <1>5, <1>11, <2>1, <3>2, <3>3
             DEF Erase, D!Erase, D!KeepIf, D!RemoveAt, RemoveAt
  <2>2. CASE ~(i < vec.size)
    <3>1. vec' = [vec EXCEPT !.fault = "bounds"]
      BY <1>11, <1>3, <2>2, BoundAssumption DEF Erase, InBounds, Checked, Running
    <3>. QED BY <1>3, <1>4, <1>11, <2>2, <3>1 DEF Erase, D!Erase, D!KeepIf
  <2>. QED BY <2>1, <2>2
<1>12. ASSUME NEW n \in Nat, vec.ofs <= n, n <= vec.ofs + vec.size + Chunk,
              vec' = Reserve_(vec, n)
       PROVE  /\ Good(vec') /\ vec'.size \in 0..Len(Contents)
              /\ vec'.size = IF vec.ofs + vec.size > n THEN n - vec.ofs ELSE vec.size
              /\ Contents' = SubSeq(Contents, 1, vec'.size)
  <2>1. /\ Good(vec')
        /\ vec'.size = (IF vec.ofs + vec.size > n THEN n - vec.ofs ELSE vec.size)
        /\ \A k \in 0..vec'.size - 1 : Elem(vec', k) = Elem(vec, k)
    BY <1>2, <1>12, ReserveKeeps
  <2>2. vec'.size \in 0..Len(Contents) /\ vec'.size <= vec.size
    BY <1>3, <1>12, <2>1
  <2>3. Contents' = SubSeq(Contents, 1, vec'.size)
    BY <1>1, <1>2, <2>1, <2>2, ShownPrefix
  <2>. QED BY <2>1, <2>2, <2>3
<1>13. ASSUME NEW n \in Num, Reserve(n) PROVE D!Reserve(n)
  <2>1. n \in Nat
    BY BoundAssumption, ChunkAssumption DEF Num
  <2>2. PICK m : m = vec'.size
    OBVIOUS
  <2>3. /\ Good(vec') /\ m \in 0..Len(Contents)
        /\ m = IF vec.ofs + vec.size > n THEN n - vec.ofs ELSE vec.size
        /\ Contents' = SubSeq(Contents, 1, m)
    BY <1>12, <1>13, <2>1, <2>2 DEF Reserve
  <2>4. m <= n
    BY <1>3, <2>1, <2>3
  <2>. QED BY <1>5, <1>13, <2>3, <2>4 DEF Reserve, D!Reserve
<1>14. ASSUME NEW n \in Num, Resize(n) PROVE D!Resize(n)
  <2>1. /\ vec.ofs + n \in Nat /\ vec.ofs <= vec.ofs + n /\ n \in Nat
        /\ vec.ofs + n <= vec.ofs + vec.size + Chunk
    BY <1>14, <1>3, BoundAssumption, ChunkAssumption DEF Resize, Num
  <2>2. PICK m : m = vec'.size
    OBVIOUS
  <2>3. /\ Good(vec') /\ m \in 0..Len(Contents)
        /\ m = (IF vec.ofs + vec.size > vec.ofs + n
                THEN (vec.ofs + n) - vec.ofs ELSE vec.size)
        /\ Contents' = SubSeq(Contents, 1, m)
    BY <1>12, <1>14, <2>1, <2>2 DEF Resize
  <2>4. m = IF n < vec.size THEN n ELSE vec.size
    BY <1>3, <2>1, <2>3
  <2>5. SubSeq(Contents, 1, vec.size) = Contents
    <3>1. vec.size <= vec.size
      BY <1>3
    <3>2. Shown(vec) = SubSeq(Shown(vec), 1, vec.size)
      BY <1>2, <3>1, ShownPrefix
    <3>. QED BY <1>1, <3>2
  <2>6. Contents' = IF n < Len(Contents) THEN SubSeq(Contents, 1, n) ELSE Contents
    BY <1>3, <2>3, <2>4, <2>5
  <2>. QED BY <1>5, <1>14, <2>3, <2>6 DEF Resize, D!Resize
<1>15. ASSUME PopBack PROVE D!PopBack
  <2>1. CASE vec.size > 0
    <3>1. /\ Good(vec') /\ vec'.size = vec.size - 1
          /\ \A k \in 0..vec.size - 2 : Elem(vec', k) = Elem(vec, k)
      BY <1>15, <1>2, <2>1, DropBackRemoves DEF PopBack
    <3>2. vec'.size <= vec.size /\ vec.size - 2 = vec'.size - 1 /\ Contents # <<>>
      BY <1>3, <2>1, <3>1
    <3>3. Contents' = SubSeq(Contents, 1, vec'.size)
      BY <1>1, <1>2, <3>1, <3>2, ShownPrefix
    <3>. QED BY <1>3, <1>5, <1>15, <3>1, <3>2, <3>3
             DEF PopBack, D!PopBack, D!KeepIf, D!Front
  <2>2. CASE ~(vec.size > 0)
    <3>1. vec' = [vec EXCEPT !.fault = "bounds"]
      BY <1>15, <2>2 DEF PopBack, NotEmpty, Checked, Running
    <3>2. Contents = <<>>
      BY <1>3, <2>2, EmptySeq
    <3>. QED BY <1>4, <1>15, <3>1, <3>2 DEF PopBack, D!PopBack, D!KeepIf
  <2>. QED BY <2>1, <2>2
<1>16. ASSUME PopFront PROVE D!PopFront
  <2>1. CASE vec.size > 0
    <3>1. vec.ofs = 0
      BY <1>16 DEF PopFront, Gapless
    <3>2. Good(vec') /\ Contents # <<>>
      BY <1>16, <1>2, <1>3, <2>1, DropFrontRemoves DEF PopFront
    <3>3. Contents' = Tail(Contents)
      BY <1>1, <1>16, <1>2, <2>1, <3>1, ShownPopFront DEF PopFront
    <3>. QED BY <1>5, <1>16, <3>2, <3>3 DEF PopFront, D!PopFront, D!KeepIf
  <2>2. CASE ~(vec.size > 0)
    <3>1. vec' = [vec EXCEPT !.fault = "bounds"]
      BY <1>16, <2>2 DEF PopFront, NotEmpty, Checked, Running
    <3>2. Contents = <<>>
      BY <1>3, <2>2, EmptySeq
    <3>. QED BY <1>4, <1>16, <3>1, <3>2 DEF PopFront, D!PopFront, D!KeepIf
  <2>. QED BY <2>1, <2>2
<1>17. ASSUME Clean PROVE D!Clean
  <2>1. Good(vec') /\ vec'.size = 0
    BY <1>17, NewIsGood DEF Clean
  <2>2. Contents' = <<>>
    BY <1>1, <2>1, ShownIsSeq, EmptySeq
  <2>. QED BY <1>5, <1>17, <2>1, <2>2 DEF Clean, D!Clean
<1>18. ASSUME NEW n \in 0..MaxSize, Create(n) PROVE D!Create(n)
  <2>1. n \in Nat /\ Good(vec')
    BY <1>18, NewIsGood, BoundAssumption DEF Create
  <2>2. vec.size = 0
    BY <1>18, <1>2, <1>3 DEF Create, Good, IsVec, WellPlaced
  <2>3. Contents = <<>>
    BY <1>3, <2>2, EmptySeq
  <2>4. Contents' = D!Zeros(n)
    BY <1>1, <1>18, <2>1, ShownNew DEF Create, D!Zeros
  <2>5. D!Keep(D!Zeros(n))
    BY <1>5, <2>1, <2>4
  <2>. QED BY <1>18, <2>3, <2>5 DEF Create, D!Create, D!Keep
<1>19. 0..MaxSize \subseteq Num
  BY BoundAssumption, ChunkAssumption DEF Num
<1>20. CASE PopFront \/ PopBack \/ Clean
  BY <1>6, <1>15, <1>16, <1>17, <1>20 DEF D!DequeNext
<1>21. CASE \E x \in Val : PushBack(x) \/ PushFront(x)
  BY <1>6, <1>7, <1>8, <1>21 DEF D!DequeNext
<1>22. CASE \E i \in 0..MaxSize, x \in Val : Insert(i, x) \/ Write(i, x)
  BY <1>6, <1>9, <1>10, <1>19, <1>22 DEF D!DequeNext
<1>23. CASE \E i \in 0..MaxSize : Erase(i) \/ Create(i)
  BY <1>6, <1>11, <1>18, <1>19, <1>23 DEF D!DequeNext
<1>24. CASE \E n \in Num : Reserve(n) \/ Resize(n)
  BY <1>6, <1>13, <1>14, <1>24 DEF D!DequeNext
<1>. QED BY <1>20, <1>21, <1>22, <1>23, <1>24 DEF Next

(* As long as pop_front is only called without a gap, every call of        *)
(* vector.h does to the elements a client sees what a deque's call of that *)
(* name does with the same index and element, whatever the chunk, the      *)
(* elements and the calls: gaps, slack, growth and shrinking are invisible.*)
THEOREM VectorImplementsDeque ==
    ASSUME Gapless
    PROVE  Spec => IsDeque
<1>1. Init => D!DequeInit
  <2>. SUFFICES ASSUME NEW n \in 0..MaxSize, vec = New(n), call = <<"init", n>>
                PROVE  D!DequeInit
    BY DEF Init
  <2>1. Contents = [i \in 1..n |-> Zero]
    <3>1. Contents = Shown(New(n))
      BY DEF Contents, Shown
    <3>. QED BY <3>1, ShownNew, BoundAssumption
  <2>2. vec.fault = "none"
    BY NewIsGood, BoundAssumption DEF Good
  <2>3. n \in Num
    BY BoundAssumption, ChunkAssumption DEF Num
  <2>. QED BY <2>1, <2>2, <2>3 DEF D!DequeInit, D!Zeros
<1>2. IInv /\ [Next]_vars => [D!DequeNext]_(D!dequeVars)
  BY StepIsDeque
<1>. QED
  BY <1>1, <1>2, VectorSafe, PTL DEF Spec, IInv, IsDeque, D!DequeSpec
=============================================================================
