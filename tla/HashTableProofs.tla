-------------------------- MODULE HashTableProofs --------------------------
(***************************************************************************)
(* Proofs about HashTable: every walk over the table ends, objects stay in *)
(* Robin Hood order, and the client sees a dictionary, for all keys,       *)
(* hashes and sizes.                                                       *)
(***************************************************************************)
EXTENDS HashTable, FiniteSetTheorems, WellFoundedInduction, TLAPS

LEMMA SetInduction ==
    ASSUME NEW S, 0 \in S, \A n \in Nat : n \in S => n + 1 \in S
    PROVE  Nat \subseteq S
<1>. DEFINE R == OpToRel(<, Nat)
            T == Nat \ S
<1>. SUFFICES ASSUME T # {} PROVE FALSE
  OBVIOUS
<1>1. IsWellFoundedOn(R, Nat)
  BY NatLessThanWellFounded
<1>2. \A x, y \in Nat : <<x, y>> \in R <=> x < y
  BY DEF OpToRel
<1>3. T \subseteq Nat
  OBVIOUS
<1>. HIDE DEF R, T
<1>4. PICK x \in T : \A y \in T : ~(<<y, x>> \in R)
  BY <1>1, <1>3, WFMin
<1>. USE DEF T
<1>5. x # 0
  OBVIOUS
<1>6. x - 1 \in Nat /\ x - 1 < x
  BY <1>5
<1>7. x - 1 \in S
  BY <1>2, <1>4, <1>6
<1>8. x - 1 + 1 = x
  OBVIOUS
<1>. QED BY <1>6, <1>7, <1>8

-----------------------------------------------------------------------------
(* Arithmetic around the table.                                            *)

LEMMA ModUnique ==
    ASSUME NEW n \in Nat \ {0}, NEW q \in Int, NEW r \in 0..n - 1
    PROVE  (n * q + r) % n = r
OBVIOUS

LEMMA ModParts ==
    ASSUME NEW n \in Nat \ {0}, NEW x \in Int
    PROVE  x % n \in 0..n - 1 /\ \E q \in Int : x = n * q + (x % n)
<1>1. x % n \in 0..n - 1
  OBVIOUS
<1>2. x \div n \in Int
  OBVIOUS
<1>3. x = n * (x \div n) + (x % n)
  OBVIOUS
<1>. QED BY <1>1, <1>2, <1>3

(* Going around before taking y steps more changes nothing.                *)
Wraps(n, x, y) == ((x % n) + y) % n = (x + y) % n

LEMMA Wrapped ==
    ASSUME NEW n \in Nat \ {0}, NEW x \in Int, NEW y \in Int
    PROVE  Wraps(n, x, y)
<1>1. PICK r \in 0..n - 1 : r = x % n
  BY ModParts
<1>2. PICK q \in Int : x = n * q + r
  BY <1>1, ModParts
<1>3. PICK u \in Int : u = r + y
  OBVIOUS
<1>4. PICK t \in 0..n - 1 : t = u % n
  BY ModParts
<1>5. PICK p \in Int : u = n * p + t
  BY <1>4, ModParts
<1>6. PICK z \in Int : z = x + y
  OBVIOUS
<1>7. z = n * (q + p) + t /\ q + p \in Int
  <2>1. z = n * q + n * p + t
    BY <1>2, <1>3, <1>5, <1>6
  <2>2. n * (q + p) = n * q + n * p
    OBVIOUS
  <2>. QED BY <2>1, <2>2
<1>8. z % n = t
  BY <1>7, ModUnique
<1>. QED BY <1>1, <1>3, <1>4, <1>6, <1>8 DEF Wraps

LEMMA ModSmall ==
    ASSUME NEW n \in Nat \ {0}, NEW x \in 0..n - 1
    PROVE  x % n = x
OBVIOUS

(* The place a walk from the home of hash h reaches after m steps.         *)
Place(n, h, m) == (h + m) % n

LEMMA PlaceType ==
    ASSUME NEW n \in Nat \ {0}, NEW h \in Int, NEW m \in Int
    PROVE  Place(n, h, m) \in 0..n - 1
BY DEF Place

LEMMA DibType ==
    ASSUME NEW n \in Nat \ {0}, NEW h \in Int, NEW i \in Int
    PROVE  Dib(n, h, i) \in 0..n - 1
BY DEF Dib

(* The distance of a place depends on the steps only.                      *)
LEMMA DibPlace ==
    ASSUME NEW n \in Nat \ {0}, NEW h \in Int, NEW g \in Int, NEW m \in Int
    PROVE  Dib(n, g, Place(n, h, m)) = (h + m - g) % n
<1>1. PICK y \in Int : y = h + m
  OBVIOUS
<1>2. PICK v \in Int : v = 0 - g
  OBVIOUS
<1>3. Wraps(n, y, v)
  BY Wrapped
<1>4. ((y % n) + v) % n = (y + v) % n
  BY <1>3 DEF Wraps
<1>5. (y % n) + v = (y % n) - g /\ y + v = h + m - g
  BY <1>1, <1>2
<1>. QED BY <1>1, <1>4, <1>5 DEF Dib, Place

(* A place is as far from home as the walk has come.                       *)
LEMMA DibOfPlace ==
    ASSUME NEW n \in Nat \ {0}, NEW h \in Int, NEW m \in 0..n - 1
    PROVE  Dib(n, h, Place(n, h, m)) = m
<1>1. \A g \in Int : Dib(n, g, Place(n, h, m)) = (h + m - g) % n
  BY m \in Int, DibPlace
<1>2. m \in Int /\ h + m - h = m
  OBVIOUS
<1>. QED BY <1>1, <1>2, ModSmall

LEMMA PlaceOfDib ==
    ASSUME NEW n \in Nat \ {0}, NEW h \in Int, NEW i \in 0..n - 1
    PROVE  Place(n, h, Dib(n, h, i)) = i
<1>1. PICK x \in Int : x = i - h
  OBVIOUS
<1>2. Wraps(n, x, h)
  BY Wrapped
<1>3. ((x % n) + h) % n = (x + h) % n
  BY <1>2 DEF Wraps
<1>4. x + h = i /\ (x % n) + h = h + (x % n)
  BY <1>1
<1>. QED BY <1>1, <1>3, <1>4, ModSmall DEF Place, Dib

LEMMA PlaceNext ==
    ASSUME NEW n \in Nat \ {0}, NEW h \in Int, NEW m \in Int
    PROVE  /\ (Place(n, h, m) + 1) % n = Place(n, h, m + 1)
           /\ (Place(n, h, m + 1) - 1) % n = Place(n, h, m)
<1>1. PICK x \in Int : x = h + m
  OBVIOUS
<1>2. PICK y \in Int : y = h + (m + 1)
  OBVIOUS
<1>3. Wraps(n, x, 1) /\ Wraps(n, y, -1)
  BY Wrapped
<1>4. ((x % n) + 1) % n = (x + 1) % n /\ ((y % n) + (-1)) % n = (y + (-1)) % n
  BY <1>3 DEF Wraps
<1>5. x + 1 = y /\ y + (-1) = x /\ (y % n) + (-1) = (y % n) - 1
  BY <1>1, <1>2
<1>. QED BY <1>1, <1>2, <1>4, <1>5 DEF Place

(* One place further is one further from home, up to the way around.       *)
LEMMA DibNext ==
    ASSUME NEW n \in Nat \ {0}, NEW h \in Int, NEW g \in Int, NEW m \in Int
    PROVE  Dib(n, g, Place(n, h, m + 1))
             = IF Dib(n, g, Place(n, h, m)) = n - 1 THEN 0
               ELSE Dib(n, g, Place(n, h, m)) + 1
<1>1. PICK x \in Int : x = h + m - g
  OBVIOUS
<1>2. PICK k \in Int : k = m + 1
  OBVIOUS
<1>3. Dib(n, g, Place(n, h, m)) = x % n
  BY <1>1, DibPlace
<1>4. Dib(n, g, Place(n, h, k)) = (x + 1) % n
  <2>1. Dib(n, g, Place(n, h, k)) = (h + k - g) % n
    BY DibPlace
  <2>2. h + k - g = x + 1
    BY <1>1, <1>2
  <2>. QED BY <2>1, <2>2
<1>5. Wraps(n, x, 1)
  BY Wrapped
<1>6. ((x % n) + 1) % n = (x + 1) % n
  BY <1>5 DEF Wraps
<1>7. PICK d \in 0..n - 1 : d = x % n
  BY ModParts
<1>8. (d + 1) % n = IF d = n - 1 THEN 0 ELSE d + 1
  <2>1. CASE d = n - 1
    <3>1. d + 1 = n /\ n % n = 0
      BY <2>1
    <3>. QED BY <2>1, <3>1
  <2>2. CASE d # n - 1
    <3>1. d + 1 \in 0..n - 1
      BY <2>2
    <3>. QED BY <2>2, <3>1, ModSmall
  <2>. QED BY <2>1, <2>2
<1>. QED BY <1>2, <1>3, <1>4, <1>6, <1>7, <1>8

LEMMA PlacesDiffer ==
    ASSUME NEW n \in Nat \ {0}, NEW h \in Int,
           NEW m \in 0..n - 1, NEW k \in 0..n - 1, m # k
    PROVE  Place(n, h, m) # Place(n, h, k)
BY DibOfPlace

LEMMA BeforeIsElsewhere ==
    ASSUME NEW n \in Nat, n > 1, NEW i \in 0..n - 1
    PROVE  (i - 1) % n \in 0..n - 1 /\ (i - 1) % n # i
<1>1. CASE i = 0
  BY <1>1
<1>2. CASE i # 0
  BY <1>2
<1>. QED BY <1>1, <1>2

-----------------------------------------------------------------------------
(* Tables: distinct keys, true hashes, and Robin Hood order.               *)

Slots(n) == [0..n - 1 -> Entry \cup {Null}]

IsTable(a, n) ==
    /\ a \in Slots(n)
    /\ \A i \in Used(a) : a[i].hash = Hash[a[i].t.key]
    /\ \A i, j \in Used(a) : a[i].t.key = a[j].t.key => i = j

Before(n, i) == (i - 1) % n

Dist(a, n, i) == Dib(n, a[i].hash, i)

(* An object that is d away from home is in order at slot i.               *)
Fits(a, n, i, d) ==
    d > 0 => a[Before(n, i)] # Null /\ Dist(a, n, Before(n, i)) >= d - 1

Ordered(a, n) == \A i \in Used(a) : Fits(a, n, i, Dist(a, n, i))

Entries(a) == {a[i] : i \in Used(a)}

Fresh(a, k) == \A i \in Used(a) : a[i].t.key # k

LEMMA UsedSlots ==
    ASSUME NEW n \in Nat \ {0}, NEW a \in Slots(n)
    PROVE  /\ DOMAIN a = 0..n - 1 /\ Cardinality(DOMAIN a) = n
           /\ Used(a) \subseteq 0..n - 1
           /\ \A i \in 0..n - 1 : i \in Used(a) <=> a[i] # Null
           /\ \A i \in Used(a) : a[i] \in Entry
           /\ IsFiniteSet(Used(a)) /\ Cardinality(Used(a)) \in 0..n
<1>1. DOMAIN a = 0..n - 1
  BY DEF Slots
<1>2. IsFiniteSet(0..n - 1) /\ Cardinality(0..n - 1) = n
  BY FS_Interval
<1>3. Used(a) \subseteq 0..n - 1
  BY <1>1 DEF Used
<1>4. IsFiniteSet(Used(a)) /\ Cardinality(Used(a)) <= n
  BY <1>2, <1>3, FS_Subset
<1>5. Cardinality(Used(a)) \in Nat
  BY <1>4, FS_CardinalityType
<1>. QED BY <1>1, <1>2, <1>3, <1>4, <1>5 DEF Used, Slots

(* A slot is left when not all are used.                                   *)
LEMMA EmptySlot ==
    ASSUME NEW n \in Nat \ {0}, NEW a \in Slots(n), Cardinality(Used(a)) < n
    PROVE  \E i \in 0..n - 1 : a[i] = Null
<1>. SUFFICES ASSUME \A i \in 0..n - 1 : a[i] # Null PROVE FALSE
  OBVIOUS
<1>1. Used(a) = 0..n - 1
  BY UsedSlots
<1>2. Cardinality(0..n - 1) = n
  BY FS_Interval
<1>. QED BY <1>1, <1>2

LEMMA DistType ==
    ASSUME NEW n \in Nat \ {0}, NEW a \in Slots(n)
    PROVE  \A i \in Used(a) : Dist(a, n, i) \in 0..n - 1
<1>. TAKE i \in Used(a)
<1>1. i \in Int /\ a[i].hash \in Int
  BY UsedSlots DEF Entry
<1>. QED BY <1>1, DibType DEF Dist

(* b is a with c at slot p.                                                *)
IsPut(b, a, n, p, c) ==
    /\ b \in Slots(n) /\ b[p] = c
    /\ \A i \in 0..n - 1 : i # p => b[i] = a[i]

LEMMA PutIs ==
    ASSUME NEW n \in Nat \ {0}, NEW a \in Slots(n),
           NEW p \in 0..n - 1, NEW c \in Entry
    PROVE  IsPut([a EXCEPT ![p] = c], a, n, p, c)
BY DEF IsPut, Slots

(* Putting an object into an empty slot, or in place of one that is no     *)
(* further from home, keeps the order.                                     *)
LEMMA PutKeepsOrder ==
    ASSUME NEW n \in Nat \ {0}, NEW a \in Slots(n), Ordered(a, n),
           NEW p \in 0..n - 1, NEW c \in Entry, NEW d,
           d = Dib(n, c.hash, p), Fits(a, n, p, d),
           a[p] = Null \/ Dist(a, n, p) <= d,
           NEW b, IsPut(b, a, n, p, c)
    PROVE  /\ b \in Slots(n) /\ Used(b) = Used(a) \cup {p}
           /\ Ordered(b, n)
<1>1. b \in Slots(n) /\ b[p] = c /\ \A i \in 0..n - 1 : i # p => b[i] = a[i]
  BY DEF IsPut
<1>2. c # Null
  BY NullAssumption
<1>3. Used(b) = Used(a) \cup {p}
  BY <1>1, <1>2 DEF Used, Slots
<1>4. d \in 0..n - 1
  BY DibType DEF Entry
<1>5. Dist(b, n, p) = d /\ \A i \in 0..n - 1 : i # p => Dist(b, n, i) = Dist(a, n, i)
  BY <1>1 DEF Dist
<1>6. \A i \in Used(a) : Dist(a, n, i) \in 0..n - 1
  BY DistType
<1>7. \A i \in 0..n - 1 : Before(n, i) \in 0..n - 1 /\ (n > 1 => Before(n, i) # i)
  <2>1. n > 1 \/ n = 1
    OBVIOUS
  <2>2. CASE n = 1
    BY <2>2 DEF Before
  <2>. QED BY <2>1, <2>2, BeforeIsElsewhere DEF Before
<1>8. ASSUME NEW i \in Used(b) PROVE Fits(b, n, i, Dist(b, n, i))
  <2>1. i \in 0..n - 1
    BY <1>1, UsedSlots
  <2>2. CASE i = p
    <3>1. d > 0 => n > 1 /\ Before(n, p) # p
      BY <1>4, <1>7
    <3>2. d > 0 => a[Before(n, p)] # Null /\ Dist(a, n, Before(n, p)) >= d - 1
      BY DEF Fits
    <3>3. d > 0 => b[Before(n, p)] # Null /\ Dist(b, n, Before(n, p)) >= d - 1
      BY <1>1, <1>5, <1>7, <3>1, <3>2
    <3>. QED BY <2>2, <3>3, <1>5 DEF Fits
  <2>3. CASE i # p
    <3>1. i \in Used(a) /\ Dist(b, n, i) = Dist(a, n, i)
      BY <1>3, <1>5, <2>1, <2>3
    <3>2. Dist(a, n, i) > 0 => /\ a[Before(n, i)] # Null
                               /\ Dist(a, n, Before(n, i)) >= Dist(a, n, i) - 1
      BY <3>1 DEF Ordered, Fits
    <3>3. CASE Before(n, i) # p
      BY <1>1, <1>5, <1>7, <2>1, <3>1, <3>2, <3>3 DEF Fits
    <3>4. CASE Before(n, i) = p
      <4>1. Dist(a, n, i) > 0 => Dist(a, n, p) \in Int /\ Dist(a, n, p) <= d
        BY <1>6, <3>2, <3>4, UsedSlots
      <4>2. Dist(a, n, i) > 0 => d >= Dist(a, n, i) - 1
        BY <1>4, <1>6, <3>1, <3>2, <3>4, <4>1
      <4>. QED BY <1>1, <1>2, <1>5, <3>1, <3>4, <4>2 DEF Fits
    <3>. QED BY <3>3, <3>4
  <2>. QED BY <2>2, <2>3
<1>. QED BY <1>1, <1>3, <1>8 DEF Ordered

(* Backwards from an object that is as far from home as the walk has come, *)
(* every slot holds one that is as far from its home as the walk then was. *)
LEMMA WalkBack ==
    ASSUME NEW n \in Nat \ {0}, NEW a \in Slots(n), Ordered(a, n),
           NEW h \in Int, NEW m \in 0..n - 1,
           a[Place(n, h, m)] # Null, Dist(a, n, Place(n, h, m)) >= m
    PROVE  \A k \in 0..m : /\ a[Place(n, h, k)] # Null
                           /\ Dist(a, n, Place(n, h, k)) >= k
<1>. DEFINE P(k) == /\ a[Place(n, h, k)] # Null
                    /\ Dist(a, n, Place(n, h, k)) >= k
            S == {j \in Nat : j <= m => P(m - j)}
<1>1. 0 \in S
  OBVIOUS
<1>2. ASSUME NEW j \in Nat, j \in S PROVE j + 1 \in S
  <2>. SUFFICES ASSUME j + 1 <= m PROVE P(m - (j + 1))
    OBVIOUS
  <2>1. PICK k \in 0..n - 1 : k = m - (j + 1)
    OBVIOUS
  <2>2. PICK l \in 1..n - 1 : l = k + 1 /\ l = m - j
    BY <2>1
  <2>3. P(l)
    BY <1>2, <2>2
  <2>4. Place(n, h, l) \in Used(a) /\ Place(n, h, k) \in 0..n - 1
    <3>1. Place(n, h, l) \in 0..n - 1 /\ Place(n, h, k) \in 0..n - 1
      BY l \in Int, k \in Int, PlaceType
    <3>. QED BY <2>3, <3>1, UsedSlots
  <2>5. Before(n, Place(n, h, l)) = Place(n, h, k)
    <3>1. k \in Int
      OBVIOUS
    <3>2. (Place(n, h, k + 1) - 1) % n = Place(n, h, k)
      BY <3>1, PlaceNext
    <3>. QED BY <2>2, <3>2 DEF Before
  <2>6. Dist(a, n, Place(n, h, l)) \in 0..n - 1 /\ Dist(a, n, Place(n, h, l)) >= l
    BY <2>3, <2>4, DistType
  <2>7. Fits(a, n, Place(n, h, l), Dist(a, n, Place(n, h, l)))
    BY <2>4 DEF Ordered
  <2>8. /\ a[Place(n, h, k)] # Null
        /\ Dist(a, n, Place(n, h, k)) >= Dist(a, n, Place(n, h, l)) - 1
    BY <2>2, <2>5, <2>6, <2>7 DEF Fits
  <2>9. Dist(a, n, Place(n, h, k)) \in Int
    BY <2>4, <2>8, DistType, UsedSlots
  <2>. QED BY <2>1, <2>2, <2>6, <2>8, <2>9
<1>. HIDE DEF P
<1>3. Nat \subseteq S
  <2>. HIDE DEF S
  <2>. QED BY <1>1, <1>2, SetInduction
<1>4. ASSUME NEW k \in 0..m PROVE P(k)
  <2>1. PICK j \in Nat : j = m - k
    OBVIOUS
  <2>2. j \in S /\ j <= m /\ m - j = k
    BY <1>3, <2>1
  <2>. QED BY <2>2
<1>. QED BY <1>4 DEF P

(* The walk from the home of a key to its object passes no empty slot and  *)
(* no object that is nearer its home than the walk has come.               *)
LEMMA WayToKey ==
    ASSUME NEW n \in Nat \ {0}, NEW a, IsTable(a, n), Ordered(a, n),
           NEW i \in Used(a)
    PROVE  \E m \in 0..n - 1 :
              /\ i = Place(n, Hash[a[i].t.key], m)
              /\ \A k \in 0..m :
                    /\ a[Place(n, Hash[a[i].t.key], k)] # Null
                    /\ Dist(a, n, Place(n, Hash[a[i].t.key], k)) >= k
<1>1. a \in Slots(n) /\ a[i].hash = Hash[a[i].t.key]
  BY DEF IsTable
<1>2. PICK h \in Nat : h = Hash[a[i].t.key] /\ h = a[i].hash
  BY <1>1, UsedSlots DEF Entry
<1>3. PICK m \in 0..n - 1 : m = Dist(a, n, i)
  BY <1>1, DistType
<1>4. i = Place(n, h, m)
  <2>1. i \in 0..n - 1 /\ m = Dib(n, h, i) /\ h \in Int
    BY <1>1, <1>2, <1>3, UsedSlots DEF Dist
  <2>. QED BY <2>1, PlaceOfDib
<1>5. a[Place(n, h, m)] # Null /\ Dist(a, n, Place(n, h, m)) >= m
  BY <1>1, <1>3, <1>4, UsedSlots
<1>6. \A k \in 0..m : /\ a[Place(n, h, k)] # Null
                      /\ Dist(a, n, Place(n, h, k)) >= k
  BY <1>1, <1>5, WalkBack
<1>. QED BY <1>2, <1>4, <1>6

-----------------------------------------------------------------------------
(* The states of insert_().                                                *)

Walkers(n) ==
    [array : Slots(n), num : Nat, carried : Entry, i : Nat, dib : Nat,
     ret : Int, end : {"", "stored", "found", "assert"}]

LEMMA WalkerTypes ==
    ASSUME NEW n \in Nat \ {0}, NEW w \in Walkers(n)
    PROVE  /\ w.array \in Slots(n) /\ w.num \in Nat /\ w.carried \in Entry
           /\ w.i \in Nat /\ w.dib \in Nat /\ w.ret \in Int
BY DEF Walkers

LEMMA WalkerHere ==
    ASSUME NEW n \in Nat \ {0}, NEW w \in Walkers(n)
    PROVE  /\ Size(w) = n /\ At(w) = w.i % n /\ At(w) \in 0..n - 1
           /\ Here(w) = w.array[At(w)]
           /\ Here(w) # Null => At(w) \in Used(w.array) /\ Here(w) \in Entry
<1>1. w.array \in Slots(n) /\ w.i \in Nat
  BY DEF Walkers
<1>2. Size(w) = n
  BY <1>1, UsedSlots DEF Size
<1>3. At(w) = w.i % n /\ At(w) \in 0..n - 1
  BY <1>1, <1>2 DEF At
<1>. QED BY <1>1, <1>2, <1>3, UsedSlots DEF Here

LEMMA StoredFields ==
    ASSUME NEW n \in Nat \ {0}, NEW w \in Walkers(n), NEW y, y = Stored(w),
           NEW p \in 0..n - 1, p = At(w)
    PROVE  /\ y \in Walkers(n)
           /\ y.array = [w.array EXCEPT ![p] = w.carried] /\ y.num = w.num + 1
           /\ y.ret = IF w.ret = -1 THEN p ELSE w.ret
           /\ y.end = "stored"
<1>1. y = [w EXCEPT !.array = [w.array EXCEPT ![p] = w.carried],
                    !.num = w.num + 1,
                    !.ret = IF w.ret = -1 THEN p ELSE w.ret, !.end = "stored"]
  BY DEF Stored
<1>2. PICK b \in Slots(n) : b = [w.array EXCEPT ![p] = w.carried]
  BY DEF Walkers, Slots
<1>3. PICK r \in Int : r = IF w.ret = -1 THEN p ELSE w.ret
  BY WalkerTypes
<1>4. y = [w EXCEPT !.array = b, !.num = w.num + 1, !.ret = r, !.end = "stored"]
  BY <1>1, <1>2, <1>3
<1>5. /\ y.array = b /\ y.num = w.num + 1 /\ y.ret = r /\ y.end = "stored"
  BY ONLY <1>4, w \in Walkers(n) DEF Walkers
<1>6. y \in Walkers(n)
  <2>1. w.num + 1 \in Nat
    BY WalkerTypes
  <2>. QED BY ONLY <1>4, <2>1, w \in Walkers(n), b \in Slots(n), r \in Int DEF Walkers
<1>. QED BY <1>2, <1>3, <1>5, <1>6

LEMMA FoundFields ==
    ASSUME NEW n \in Nat \ {0}, NEW w \in Walkers(n), NEW y, y = Found(w),
           NEW p \in 0..n - 1, p = At(w)
    PROVE  /\ y \in Walkers(n)
           /\ y.array = w.array /\ y.num = w.num /\ y.ret = p
           /\ y.end = IF w.ret = -1 THEN "found" ELSE "assert"
<1>1. PICK end \in {"found", "assert"} :
            end = IF w.ret = -1 THEN "found" ELSE "assert"
  OBVIOUS
<1>2. y = [w EXCEPT !.ret = p, !.end = end]
  BY <1>1 DEF Found
<1>3. p \in Int
  OBVIOUS
<1>. QED BY ONLY <1>1, <1>2, <1>3, w \in Walkers(n),
            end \in {"found", "assert"} DEF Walkers

LEMMA SwappedFields ==
    ASSUME NEW n \in Nat \ {0}, NEW w \in Walkers(n), NEW y, y = Swapped(w),
           NEW p \in 0..n - 1, p = At(w), w.array[p] # Null
    PROVE  /\ y \in Walkers(n)
           /\ y.array = [w.array EXCEPT ![p] = w.carried] /\ y.num = w.num
           /\ y.carried = w.array[p]
           /\ y.ret = IF w.ret = -1 THEN p ELSE w.ret
           /\ y.dib = Dist(w.array, n, p) + 1 /\ y.i = p + 1
           /\ y.end = w.end
<1>1. /\ Here(w) = w.array[p] /\ Size(w) = n /\ Here(w) \in Entry
      /\ p \in Used(w.array)
  BY WalkerHere
<1>2. Dib(Size(w), Here(w).hash, At(w)) = Dist(w.array, n, p)
  BY <1>1 DEF Dist
<1>3. Dist(w.array, n, p) \in Nat
  BY <1>1, WalkerTypes, DistType
<1>. HIDE DEF Dist
<1>4. y = [w EXCEPT !.array = [w.array EXCEPT ![p] = w.carried],
                    !.carried = w.array[p],
                    !.ret = IF w.ret = -1 THEN p ELSE w.ret,
                    !.dib = Dist(w.array, n, p) + 1, !.i = p + 1]
  BY <1>1, <1>2 DEF Swapped
<1>5. [w.array EXCEPT ![p] = w.carried] \in Slots(n)
  BY DEF Walkers, Slots
<1>6. PICK b \in Slots(n) : b = [w.array EXCEPT ![p] = w.carried]
  BY <1>5
<1>7. PICK r \in Int : r = IF w.ret = -1 THEN p ELSE w.ret
  BY WalkerTypes
<1>8. PICK c \in Entry : c = w.array[p]
  BY <1>1
<1>9. PICK d \in Nat : d = Dist(w.array, n, p) + 1
  BY <1>3
<1>10. y = [w EXCEPT !.array = b, !.carried = c, !.ret = r, !.dib = d, !.i = p + 1]
  BY <1>4, <1>6, <1>7, <1>8, <1>9
<1>11. p + 1 \in Nat
  OBVIOUS
<1>12. /\ y.array = b /\ y.num = w.num /\ y.carried = c /\ y.ret = r
       /\ y.dib = d /\ y.i = p + 1 /\ y.end = w.end
  BY ONLY <1>10, w \in Walkers(n) DEF Walkers
<1>13. y \in Walkers(n)
  BY ONLY <1>10, <1>11, w \in Walkers(n), b \in Slots(n), r \in Int,
          c \in Entry, d \in Nat DEF Walkers
<1>. QED BY <1>6, <1>7, <1>8, <1>9, <1>12, <1>13

LEMMA AdvancedFields ==
    ASSUME NEW n \in Nat \ {0}, NEW w \in Walkers(n), NEW y, y = Advanced(w),
           NEW p \in 0..n - 1, p = At(w)
    PROVE  /\ y \in Walkers(n)
           /\ y.array = w.array /\ y.num = w.num /\ y.carried = w.carried
           /\ y.ret = w.ret /\ y.dib = w.dib + 1 /\ y.i = p + 1
           /\ y.end = w.end
<1>1. y = [w EXCEPT !.i = p + 1, !.dib = w.dib + 1]
  BY DEF Advanced
<1>2. /\ y.array = w.array /\ y.num = w.num /\ y.carried = w.carried
      /\ y.ret = w.ret /\ y.dib = w.dib + 1 /\ y.i = p + 1 /\ y.end = w.end
  BY ONLY <1>1, w \in Walkers(n) DEF Walkers
<1>3. y \in Walkers(n)
  <2>1. p + 1 \in Nat /\ w.dib + 1 \in Nat
    BY WalkerTypes
  <2>. QED BY ONLY <1>1, <2>1, w \in Walkers(n) DEF Walkers
<1>. QED BY <1>2, <1>3

-----------------------------------------------------------------------------
(* A walk of insert_(): e goes into the table a of n slots with m objects  *)
(* counted, and the slot z steps from the home of e is empty.              *)

IsJob(a, n, m, e, z) ==
    /\ n \in Nat \ {0} /\ IsTable(a, n) /\ Ordered(a, n) /\ m \in Nat
    /\ e \in Entry /\ e.hash = Hash[e.t.key]
    /\ z \in 0..n - 1 /\ a[Place(n, e.hash, z)] = Null

(* Where the walk is after s steps, and what it carries.                   *)
Carries(w, s, n, m, e, z) ==
    /\ w \in Walkers(n) /\ w.end = "" /\ w.num = m
    /\ s \in 0..z /\ w.i % n = Place(n, e.hash, s)
    /\ w.carried.hash = Hash[w.carried.t.key]
    /\ w.dib <= s /\ w.dib = Dib(n, w.carried.hash, Place(n, e.hash, s))

(* The table is whole but for the carried object, and untouched ahead.     *)
Leaves(w, s, a, n, e) ==
    /\ IsTable(w.array, n) /\ Ordered(w.array, n) /\ Used(w.array) = Used(a)
    /\ Fits(w.array, n, Place(n, e.hash, s), w.dib)
    /\ \A k \in s..n - 1 : w.array[Place(n, e.hash, k)] = a[Place(n, e.hash, k)]
    /\ Entries(w.array) \cup {w.carried} = Entries(a) \cup {e}

(* Until something is displaced nothing has changed; afterwards e has its  *)
(* slot, and neither its key nor the carried one was or is in the table.   *)
Remembers(w, s, a, n, e) ==
    IF w.ret = -1
    THEN /\ w.array = a /\ w.carried = e /\ w.dib = s
         /\ \A k \in 0..s - 1 :
                Place(n, e.hash, k) \in Used(a) =>
                    a[Place(n, e.hash, k)].t.key # e.t.key
    ELSE /\ \E k \in 0..s - 1 : w.ret = Place(n, e.hash, k)
         /\ w.array[w.ret] = e
         /\ Fresh(a, e.t.key) /\ Fresh(w.array, w.carried.t.key)

OnWalk(w, s, a, n, m, e, z) ==
    /\ Carries(w, s, n, m, e, z) /\ Leaves(w, s, a, n, e)
    /\ Remembers(w, s, a, n, e)

(* What a walk has done when it ends.                                      *)
Ended(w, a, n, m, e) ==
    \/ /\ w.end = "stored" /\ w.num = m + 1
       /\ IsTable(w.array, n) /\ Ordered(w.array, n)
       /\ Cardinality(Used(w.array)) = Cardinality(Used(a)) + 1
       /\ Entries(w.array) = Entries(a) \cup {e} /\ Fresh(a, e.t.key)
       /\ w.ret \in 0..n - 1 /\ w.array[w.ret] = e
    \/ /\ w.end = "found" /\ w.num = m /\ w.array = a
       /\ w.ret \in Used(a) /\ a[w.ret].t.key = e.t.key

LEMMA PutKeepsTable ==
    ASSUME NEW n \in Nat \ {0}, NEW a, IsTable(a, n), NEW p \in 0..n - 1,
           NEW c \in Entry, c.hash = Hash[c.t.key], Fresh(a, c.t.key),
           NEW b, IsPut(b, a, n, p, c)
    PROVE  /\ IsTable(b, n)
           /\ a[p] = Null => Entries(b) = Entries(a) \cup {c}
           /\ a[p] # Null => /\ Entries(b) \cup {a[p]} = Entries(a) \cup {c}
                             /\ Fresh(b, a[p].t.key)
<1>1. a \in Slots(n)
  BY DEF IsTable
<1>2. b \in Slots(n) /\ b[p] = c /\ \A i \in 0..n - 1 : i # p => b[i] = a[i]
  BY DEF IsPut
<1>3. c # Null
  BY NullAssumption
<1>4. Used(b) = Used(a) \cup {p} /\ Used(b) \subseteq 0..n - 1
  BY <1>1, <1>2, <1>3 DEF Used, Slots
<1>5. /\ Used(a) \subseteq 0..n - 1
      /\ \A i \in 0..n - 1 : i \in Used(a) <=> a[i] # Null
  BY <1>1, UsedSlots
<1>6. ASSUME NEW i \in Used(b) PROVE b[i].hash = Hash[b[i].t.key]
  BY <1>2, <1>4 DEF IsTable
<1>7. ASSUME NEW i \in Used(b), NEW j \in Used(b), b[i].t.key = b[j].t.key
      PROVE  i = j
  <2>1. CASE i = p /\ j # p
    BY <1>2, <1>4, <1>7, <2>1 DEF Fresh
  <2>2. CASE i # p /\ j = p
    BY <1>2, <1>4, <1>7, <2>2 DEF Fresh
  <2>3. CASE i # p /\ j # p
    BY <1>2, <1>4, <1>7, <2>3 DEF IsTable
  <2>. QED BY <2>1, <2>2, <2>3
<1>8. IsTable(b, n)
  BY <1>2, <1>6, <1>7 DEF IsTable
<1>. DEFINE others == {a[i] : i \in Used(a) \ {p}}
<1>9. Entries(b) = others \cup {c}
  <2>1. Used(b) = (Used(a) \ {p}) \cup {p}
    BY <1>4
  <2>2. \A i \in Used(a) \ {p} : b[i] = a[i]
    BY <1>2, <1>5
  <2>3. Entries(b) = {b[i] : i \in Used(a) \ {p}} \cup {b[p]}
    BY <2>1 DEF Entries
  <2>4. {b[i] : i \in Used(a) \ {p}} = others
    BY <2>2
  <2>. QED BY <1>2, <2>3, <2>4
<1>10. ASSUME a[p] = Null PROVE Entries(b) = Entries(a) \cup {c}
  <2>1. p \notin Used(a)
    BY <1>5, <1>10
  <2>2. Used(a) \ {p} = Used(a)
    BY <2>1
  <2>3. Entries(a) = others
    BY <2>2 DEF Entries
  <2>. QED BY <1>9, <2>3
<1>11. ASSUME a[p] # Null
       PROVE  Entries(b) \cup {a[p]} = Entries(a) \cup {c} /\ Fresh(b, a[p].t.key)
  <2>1. p \in Used(a)
    BY <1>5, <1>11
  <2>2. Entries(b) \cup {a[p]} = Entries(a) \cup {c}
    <3>1. Used(a) = (Used(a) \ {p}) \cup {p}
      BY <2>1
    <3>2. Entries(a) = others \cup {a[p]}
      BY <3>1 DEF Entries
    <3>. HIDE DEF others
    <3>. QED BY <1>9, <3>2
  <2>3. Fresh(b, a[p].t.key)
    <3>. SUFFICES ASSUME NEW i \in Used(b), b[i].t.key = a[p].t.key PROVE FALSE
      BY DEF Fresh
    <3>1. CASE i = p
      BY <1>2, <2>1, <3>1 DEF Fresh
    <3>2. CASE i # p
      BY <1>2, <1>4, <2>1, <3>2 DEF IsTable
    <3>. QED BY <3>1, <3>2
  <2>. QED BY <2>2, <2>3
<1>. QED BY <1>8, <1>10, <1>11

LEMMA WalkFacts ==
    ASSUME NEW n, NEW a, NEW m, NEW e, NEW z, IsJob(a, n, m, e, z),
           NEW w, NEW s, OnWalk(w, s, a, n, m, e, z),
           NEW p, p = Place(n, e.hash, s)
    PROVE  /\ n \in Nat \ {0} /\ e.hash \in Nat /\ s \in 0..n - 1 /\ s <= z
           /\ w \in Walkers(n) /\ p \in 0..n - 1 /\ At(w) = p
           /\ w.carried \in Entry /\ w.carried.hash \in Nat
           /\ w.dib \in Nat /\ w.dib <= s /\ w.dib = Dib(n, w.carried.hash, p)
           /\ Here(w) = w.array[p] /\ w.array[p] = a[p]
           /\ w.array \in Slots(n) /\ a \in Slots(n)
           /\ w.array[p] # Null => /\ s + 1 \in 0..z /\ p \in Used(w.array)
                                   /\ w.array[p] \in Entry
<1>1. n \in Nat \ {0} /\ e.hash \in Nat /\ z \in 0..n - 1 /\ a \in Slots(n)
  BY DEF IsJob, Entry, IsTable
<1>2. /\ w \in Walkers(n) /\ s \in 0..z /\ w.i % n = p
      /\ w.dib <= s /\ w.dib = Dib(n, w.carried.hash, p)
  BY DEF OnWalk, Carries
<1>3. /\ w.array \in Slots(n) /\ w.carried \in Entry /\ w.carried.hash \in Nat
      /\ w.dib \in Nat
  BY <1>1, <1>2, WalkerTypes DEF Entry
<1>4. s \in 0..n - 1 /\ s \in Int /\ s <= z
  BY <1>1, <1>2
<1>5. p \in 0..n - 1
  BY <1>1, <1>4, PlaceType
<1>6. At(w) = p /\ Here(w) = w.array[p]
  BY <1>1, <1>2, WalkerHere
<1>7. w.array[p] = a[p]
  <2>1. s \in s..n - 1
    BY <1>1, <1>4
  <2>. QED BY <2>1 DEF OnWalk, Leaves
<1>8. ASSUME w.array[p] # Null PROVE s + 1 \in 0..z
  <2>1. s # z
    BY <1>7, <1>8 DEF IsJob
  <2>. QED BY <1>1, <1>2, <2>1
<1>9. w.array[p] # Null => p \in Used(w.array) /\ w.array[p] \in Entry
  BY <1>1, <1>3, <1>5, UsedSlots
<1>. QED BY <1>1, <1>2, <1>3, <1>4, <1>5, <1>6, <1>7, <1>8, <1>9

(* A walk that may put its object down has not met the key of e, and would *)
(* have: Robin Hood order keeps objects with that key from lying ahead.    *)
LEMMA KeyIsNew ==
    ASSUME NEW n, NEW a, NEW m, NEW e, NEW z, IsJob(a, n, m, e, z),
           NEW w, NEW s, OnWalk(w, s, a, n, m, e, z),
           NEW p, p = Place(n, e.hash, s),
           w.array[p] = Null \/ w.dib > Dist(w.array, n, p)
    PROVE  Fresh(a, e.t.key) /\ Fresh(w.array, w.carried.t.key)
<1>1. CASE w.ret # -1
  BY <1>1 DEF OnWalk, Remembers
<1>2. CASE w.ret = -1
  <2>1. /\ w.array = a /\ w.carried = e /\ w.dib = s
        /\ \A k \in 0..s - 1 :
                Place(n, e.hash, k) \in Used(a) =>
                    a[Place(n, e.hash, k)].t.key # e.t.key
    BY <1>2 DEF OnWalk, Remembers
  <2>2. n \in Nat \ {0} /\ s \in 0..n - 1 /\ a \in Slots(n) /\ p \in 0..n - 1
    BY WalkFacts
  <2>. SUFFICES ASSUME NEW i \in Used(a), a[i].t.key = e.t.key PROVE FALSE
    BY <2>1 DEF Fresh
  <2>3. IsTable(a, n) /\ Ordered(a, n) /\ e.hash = Hash[a[i].t.key]
    BY DEF IsJob
  <2>4. PICK l \in 0..n - 1 :
            /\ i = Place(n, e.hash, l)
            /\ \A k \in 0..l : /\ a[Place(n, e.hash, k)] # Null
                               /\ Dist(a, n, Place(n, e.hash, k)) >= k
    BY <2>2, <2>3, WayToKey
  <2>5. CASE l < s
    <3>1. l \in 0..s - 1
      BY <2>2, <2>5
    <3>. QED BY <2>1, <2>4, <3>1
  <2>6. CASE l >= s
    <3>1. s \in 0..l
      BY <2>2, <2>6
    <3>2. a[p] # Null /\ Dist(a, n, p) >= s
      BY <2>4, <3>1
    <3>3. s > Dist(a, n, p)
      BY <2>1, <3>2
    <3>4. Dist(a, n, p) \in Int
      BY <2>2, <3>2, UsedSlots, DistType
    <3>. QED BY <2>2, <3>2, <3>3, <3>4
  <2>. QED BY <2>2, <2>5, <2>6
<1>. QED BY <1>1, <1>2

(* An empty slot ends the walk.                                            *)
LEMMA StoredEnds ==
    ASSUME NEW n, NEW a, NEW m, NEW e, NEW z, IsJob(a, n, m, e, z),
           NEW w, NEW s, OnWalk(w, s, a, n, m, e, z), Here(w) = Null
    PROVE  LET y == Stored(w) IN y \in Walkers(n) /\ Ended(y, a, n, m, e)
<1>. DEFINE p == Place(n, e.hash, s)
            c == w.carried
<1>1. /\ n \in Nat \ {0} /\ w \in Walkers(n) /\ p \in 0..n - 1 /\ At(w) = p
      /\ c \in Entry /\ w.array[p] = Null /\ w.array \in Slots(n)
      /\ a \in Slots(n)
  BY WalkFacts
<1>2. Fresh(a, e.t.key) /\ Fresh(w.array, c.t.key)
  BY <1>1, KeyIsNew
<1>3. /\ IsTable(w.array, n) /\ Ordered(w.array, n) /\ Used(w.array) = Used(a)
      /\ Fits(w.array, n, p, w.dib)
      /\ Entries(w.array) \cup {c} = Entries(a) \cup {e}
      /\ w.dib = Dib(n, c.hash, p) /\ c.hash = Hash[c.t.key] /\ w.num = m
  BY DEF OnWalk, Leaves, Carries
<1>4. /\ w.ret # -1 => w.ret \in 0..n - 1 /\ w.array[w.ret] = e /\ w.ret # p
      /\ w.ret = -1 => c = e
  <2>1. CASE w.ret = -1
    BY <2>1 DEF OnWalk, Remembers
  <2>2. CASE w.ret # -1
    <3>1. (\E k \in 0..s - 1 : w.ret = Place(n, e.hash, k)) /\ w.array[w.ret] = e
      BY <2>2 DEF OnWalk, Remembers
    <3>2. e # Null
      BY NullAssumption DEF IsJob
    <3>3. e.hash \in Int /\ s \in 0..n - 1
      BY WalkFacts
    <3>4. w.ret \in 0..n - 1
      <4>1. PICK k \in 0..s - 1 : w.ret = Place(n, e.hash, k)
        BY <3>1
      <4>2. k \in Int
        OBVIOUS
      <4>. QED BY <1>1, <3>3, <4>1, <4>2, PlaceType
    <3>. QED BY <1>1, <2>2, <3>1, <3>2, <3>4
  <2>. QED BY <2>1, <2>2
<1>. HIDE DEF p, c
<1>5. PICK y : y = Stored(w)
  OBVIOUS
<1>6. /\ y \in Walkers(n)
      /\ y.array = [w.array EXCEPT ![p] = c] /\ y.num = w.num + 1
      /\ y.ret = IF w.ret = -1 THEN p ELSE w.ret
      /\ y.end = "stored"
  <2>1. /\ y \in Walkers(n)
        /\ y.array = [w.array EXCEPT ![p] = w.carried] /\ y.num = w.num + 1
        /\ y.ret = IF w.ret = -1 THEN p ELSE w.ret
        /\ y.end = "stored"
    BY ONLY <1>1, <1>5, StoredFields
  <2>. QED BY <2>1 DEF c
<1>7. IsPut(y.array, w.array, n, p, c)
  BY <1>1, <1>6, PutIs
<1>8. IsTable(y.array, n) /\ Entries(y.array) = Entries(w.array) \cup {c}
  BY <1>1, <1>2, <1>3, <1>7, PutKeepsTable
<1>9. /\ y.array \in Slots(n) /\ Used(y.array) = Used(w.array) \cup {p}
      /\ Ordered(y.array, n)
  <2>1. w.array[p] = Null \/ Dist(w.array, n, p) <= w.dib
    BY <1>1
  <2>. QED BY ONLY <1>1, <1>3, <1>7, <2>1, PutKeepsOrder
<1>10. Cardinality(Used(y.array)) = Cardinality(Used(a)) + 1
  <2>1. p \notin Used(w.array) /\ IsFiniteSet(Used(w.array))
    BY <1>1, UsedSlots
  <2>. QED BY <1>3, <1>9, <2>1, FS_AddElement, ZenonT(30)
<1>11. y.ret \in 0..n - 1 /\ y.array[y.ret] = e
  BY <1>1, <1>4, <1>6 DEF Slots
<1>12. Ended(y, a, n, m, e)
  BY <1>2, <1>3, <1>6, <1>8, <1>9, <1>10, <1>11 DEF Ended
<1>. QED BY <1>5, <1>6, <1>12

(* An object with the key of e ends it too, before anything is displaced.  *)
LEMMA FoundEnds ==
    ASSUME NEW n, NEW a, NEW m, NEW e, NEW z, IsJob(a, n, m, e, z),
           NEW w, NEW s, OnWalk(w, s, a, n, m, e, z),
           Here(w) # Null, SameKey(w.carried, Here(w))
    PROVE  LET y == Found(w) IN y \in Walkers(n) /\ Ended(y, a, n, m, e)
<1>. DEFINE p == Place(n, e.hash, s)
<1>1. /\ n \in Nat \ {0} /\ w \in Walkers(n) /\ p \in 0..n - 1 /\ At(w) = p
      /\ p \in Used(w.array) /\ Here(w) = w.array[p]
  BY WalkFacts
<1>2. w.ret = -1
  <2>1. ~Fresh(w.array, w.carried.t.key)
    BY <1>1 DEF Fresh, SameKey
  <2>. QED BY <2>1 DEF OnWalk, Remembers
<1>3. w.array = a /\ w.carried = e /\ w.num = m
  BY <1>2 DEF OnWalk, Remembers, Carries
<1>. HIDE DEF p
<1>4. PICK y : y = Found(w)
  OBVIOUS
<1>5. /\ y \in Walkers(n) /\ y.array = w.array /\ y.num = w.num /\ y.ret = p
      /\ y.end = "found"
  <2>1. /\ y \in Walkers(n) /\ y.array = w.array /\ y.num = w.num /\ y.ret = p
        /\ y.end = IF w.ret = -1 THEN "found" ELSE "assert"
    BY <1>1, <1>4, FoundFields
  <2>. QED BY <1>2, <2>1
<1>6. Ended(y, a, n, m, e)
  BY <1>1, <1>3, <1>5 DEF Ended, SameKey
<1>. QED BY <1>4, <1>5, <1>6

(* Where the next step of a walk leads.                                    *)
LEMMA NextPlace ==
    ASSUME NEW n \in Nat \ {0}, NEW h \in Int, NEW s \in 0..n - 1,
           s + 1 \in 0..n - 1
    PROVE  LET p == Place(n, h, s)
               q == Place(n, h, s + 1)
           IN  /\ q \in 0..n - 1 /\ (p + 1) % n = q /\ Before(n, q) = p
               /\ \A k \in s + 1..n - 1 : Place(n, h, k) # p
               /\ \A k \in 0..s - 1 : Place(n, h, k) # p
               /\ \A g \in Int : Dib(n, g, p) < n - 1 =>
                                     Dib(n, g, q) = Dib(n, g, p) + 1
<1>. DEFINE p == Place(n, h, s)
            q == Place(n, h, s + 1)
<1>1. s \in Int
  OBVIOUS
<1>2. q \in 0..n - 1 /\ p \in 0..n - 1
  BY <1>1, PlaceType
<1>3. (p + 1) % n = q /\ Before(n, q) = p
  BY <1>1, PlaceNext DEF Before
<1>4. \A k \in s + 1..n - 1 : Place(n, h, k) # p
  <2>1. \A k \in s + 1..n - 1 : k \in 0..n - 1 /\ k # s
    OBVIOUS
  <2>. QED BY <2>1, PlacesDiffer
<1>5. \A k \in 0..s - 1 : Place(n, h, k) # p
  <2>1. \A k \in 0..s - 1 : k \in 0..n - 1 /\ k # s
    OBVIOUS
  <2>. QED BY <2>1, PlacesDiffer
<1>6. ASSUME NEW g \in Int, Dib(n, g, p) < n - 1
      PROVE  Dib(n, g, q) = Dib(n, g, p) + 1
  <2>1. Dib(n, g, q) = IF Dib(n, g, p) = n - 1 THEN 0 ELSE Dib(n, g, p) + 1
    BY <1>1, DibNext
  <2>2. p \in Int
    BY <1>2
  <2>. HIDE DEF p, q
  <2>3. Dib(n, g, p) \in 0..n - 1
    BY <2>2, DibType
  <2>. QED BY <1>6, <2>1, <2>3
<1>. QED BY <1>2, <1>3, <1>4, <1>5, <1>6

(* An object that is nearer its home gives its slot away and is carried.   *)
LEMMA SwappedGoesOn ==
    ASSUME NEW n, NEW a, NEW m, NEW e, NEW z, IsJob(a, n, m, e, z),
           NEW w, NEW s, OnWalk(w, s, a, n, m, e, z), Here(w) # Null,
           w.dib > Dist(w.array, n, Place(n, e.hash, s))
    PROVE  OnWalk(Swapped(w), s + 1, a, n, m, e, z)
<1>1. PICK A : A = w.array
  OBVIOUS
<1>2. PICK p : p = Place(n, e.hash, s)
  OBVIOUS
<1>3. PICK q : q = Place(n, e.hash, s + 1)
  OBVIOUS
<1>4. PICK c : c = w.carried
  OBVIOUS
<1>5. PICK f : f = A[p]
  OBVIOUS
<1>6. PICK d : d = Dist(A, n, p)
  OBVIOUS
<1>7. PICK b : b = [A EXCEPT ![p] = c]
  OBVIOUS
<1>8. /\ n \in Nat \ {0} /\ e.hash \in Int /\ s \in 0..n - 1 /\ s <= z
      /\ w \in Walkers(n) /\ p \in 0..n - 1 /\ At(w) = p
      /\ c \in Entry /\ A \in Slots(n)
      /\ w.dib \in Nat /\ w.dib <= s /\ w.dib = Dib(n, c.hash, p)
      /\ f # Null /\ s + 1 \in 0..z /\ p \in Used(A) /\ f \in Entry
  BY <1>1, <1>2, <1>4, <1>5, WalkFacts
<1>9. z \in 0..n - 1 /\ s + 1 \in 0..n - 1
  BY <1>8 DEF IsJob
<1>10. Fresh(a, e.t.key) /\ Fresh(A, c.t.key)
  BY <1>8, <1>1, <1>2, <1>4, KeyIsNew
<1>11. /\ IsTable(A, n) /\ Ordered(A, n) /\ Used(A) = Used(a)
       /\ Fits(A, n, p, w.dib)
       /\ Entries(A) \cup {c} = Entries(a) \cup {e}
       /\ c.hash = Hash[c.t.key] /\ w.num = m /\ w.end = ""
       /\ \A k \in s..n - 1 : A[Place(n, e.hash, k)] = a[Place(n, e.hash, k)]
  BY <1>1, <1>2, <1>4 DEF OnWalk, Leaves, Carries
<1>12. d \in 0..n - 1 /\ d < w.dib /\ d = Dib(n, f.hash, p) /\ d < n - 1
  <2>1. d \in 0..n - 1
    BY <1>8, <1>6, DistType
  <2>2. d < w.dib
    BY <1>1, <1>2, <1>6, <2>1, <1>8
  <2>3. d = Dib(n, f.hash, p)
    BY <1>5, <1>6 DEF Dist
  <2>. QED BY <1>8, <2>1, <2>2, <2>3
<1>13. /\ q \in 0..n - 1 /\ (p + 1) % n = q /\ Before(n, q) = p
       /\ \A k \in s + 1..n - 1 : Place(n, e.hash, k) # p
       /\ \A k \in 0..s - 1 : Place(n, e.hash, k) # p
       /\ \A g \in Int : Dib(n, g, p) < n - 1 => Dib(n, g, q) = Dib(n, g, p) + 1
  <2>1. PICK h \in Int : h = e.hash
    BY <1>8
  <2>2. /\ Place(n, h, s + 1) \in 0..n - 1
        /\ (Place(n, h, s) + 1) % n = Place(n, h, s + 1)
        /\ Before(n, Place(n, h, s + 1)) = Place(n, h, s)
        /\ \A k \in s + 1..n - 1 : Place(n, h, k) # Place(n, h, s)
        /\ \A k \in 0..s - 1 : Place(n, h, k) # Place(n, h, s)
        /\ \A g \in Int : Dib(n, g, Place(n, h, s)) < n - 1 =>
                Dib(n, g, Place(n, h, s + 1)) = Dib(n, g, Place(n, h, s)) + 1
    <3>1. n \in Nat \ {0} /\ s \in 0..n - 1 /\ s + 1 \in 0..n - 1
      BY <1>8, <1>9
    <3>. QED BY ONLY <3>1, h \in Int, NextPlace
  <2>3. p = Place(n, h, s) /\ q = Place(n, h, s + 1)
    BY <2>1, <1>2, <1>3
  <2>. QED BY ONLY <2>1, <2>2, <2>3
<1>14. PICK y : y = Swapped(w)
  OBVIOUS
<1>15. /\ y \in Walkers(n) /\ y.array = b /\ y.num = w.num /\ y.carried = f
       /\ y.ret = IF w.ret = -1 THEN p ELSE w.ret
       /\ y.dib = d + 1 /\ y.i = p + 1 /\ y.end = w.end
  BY <1>8, <1>14, <1>1, <1>7, <1>4, <1>6, <1>5, SwappedFields
<1>16. f.hash \in Int /\ f.hash = Hash[f.t.key]
  <2>1. f.hash \in Int
    BY <1>8 DEF Entry
  <2>. QED BY <1>8, <1>11, <1>5, <2>1 DEF IsTable
<1>17. IsPut(b, A, n, p, c)
  BY <1>8, <1>7, PutIs
<1>18. b[p] = c /\ \A i \in 0..n - 1 : i # p => b[i] = A[i]
  BY <1>17 DEF IsPut
<1>19. /\ IsTable(b, n) /\ Fresh(b, f.t.key)
       /\ Entries(b) \cup {f} = Entries(A) \cup {c}
  <2>1. n \in Nat \ {0} /\ p \in 0..n - 1 /\ c \in Entry
    BY <1>8
  <2>2. IsTable(A, n) /\ c.hash = Hash[c.t.key] /\ Fresh(A, c.t.key)
    BY <1>10, <1>11
  <2>3. /\ IsTable(b, n)
        /\ A[p] # Null => /\ Entries(b) \cup {A[p]} = Entries(A) \cup {c}
                          /\ Fresh(b, A[p].t.key)
    BY ONLY <2>1, <2>2, <1>17, PutKeepsTable
  <2>. QED BY <1>8, <1>5, <2>3
<1>20. Used(b) = Used(A) \cup {p} /\ Ordered(b, n)
  <2>1. PICK g \in Int : g = w.dib
    BY <1>8
  <2>2. g = Dib(n, c.hash, p) /\ Fits(A, n, p, g)
    BY <1>8, <1>11, <2>1
  <2>3. d <= g /\ A[p] # Null
    BY <1>8, <1>12, <1>5, <2>1
  <2>4. n \in Nat \ {0} /\ A \in Slots(n) /\ Ordered(A, n) /\ p \in 0..n - 1
        /\ c \in Entry /\ Dist(A, n, p) <= g
    BY <1>8, <1>11, <1>6, <2>3
  <2>. QED BY ONLY <2>2, <2>4, <1>17, PutKeepsOrder
<1>21. Carries(y, s + 1, n, m, e, z)
  <2>1. Dib(n, f.hash, q) = d + 1
    BY <1>12, <1>13, <1>16
  <2>2. y.dib <= s + 1
    BY <1>8, <1>12, <1>15
  <2>. QED BY <1>8, <1>11, <1>13, <1>15, <1>16, <2>1, <2>2, <1>3 DEF Carries
<1>22. Leaves(y, s + 1, a, n, e)
  <2>1. Used(b) = Used(a)
    BY <1>8, <1>11, <1>20
  <2>2. Fits(b, n, q, d + 1)
    <3>1. c # Null /\ Dist(b, n, p) = w.dib
      BY <1>8, <1>18, NullAssumption DEF Dist
    <3>2. Dist(b, n, p) >= (d + 1) - 1
      BY <1>8, <1>12, <3>1
    <3>3. b[Before(n, q)] # Null /\ Dist(b, n, Before(n, q)) >= (d + 1) - 1
      BY <1>13, <1>18, <3>1, <3>2
    <3>. QED BY ONLY <3>3 DEF Fits
  <2>3. ASSUME NEW k \in s + 1..n - 1
        PROVE  b[Place(n, e.hash, k)] = a[Place(n, e.hash, k)]
    <3>1. k \in s..n - 1 /\ k \in Int
      BY <1>8
    <3>2. Place(n, e.hash, k) \in 0..n - 1
      BY <1>8, <3>1, PlaceType
    <3>. QED BY <1>11, <1>13, <1>18, <3>1, <3>2
  <2>4. Entries(b) \cup {f} = Entries(a) \cup {e}
    BY <1>11, <1>19
  <2>. QED BY <1>15, <1>19, <1>20, <2>1, <2>2, <2>3, <2>4, <1>3 DEF Leaves
<1>23. Remembers(y, s + 1, a, n, e)
  <2>1. s \in 0..s + 1 - 1 /\ p \in Nat
    BY <1>8
  <2>2. CASE w.ret = -1
    <3>1. c = e
      BY <2>2, <1>4 DEF OnWalk, Remembers
    <3>2. y.ret = p /\ y.ret # -1
      BY <1>15, <2>1, <2>2
    <3>. QED BY <1>10, <1>15, <1>18, <1>19, <2>1, <3>1, <3>2, <1>2 DEF Remembers
  <2>3. CASE w.ret # -1
    <3>1. (\E k \in 0..s - 1 : w.ret = Place(n, e.hash, k)) /\ A[w.ret] = e
      BY <2>3, <1>1 DEF OnWalk, Remembers
    <3>2. PICK k \in 0..s - 1 : w.ret = Place(n, e.hash, k)
      BY <3>1
    <3>3. k \in Int /\ k \in 0..s + 1 - 1
      BY <1>8
    <3>4. y.ret = w.ret /\ w.ret \in 0..n - 1 /\ w.ret # p
      BY <1>8, <1>13, <1>15, <2>3, <3>2, <3>3, PlaceType
    <3>5. y.array[y.ret] = e
      BY <1>15, <1>18, <3>1, <3>4
    <3>6. \E j \in 0..(s + 1) - 1 : y.ret = Place(n, e.hash, j)
      BY <1>8, <3>2, <3>3, <3>4
    <3>7. y.ret # -1
      BY <2>3, <3>4
    <3>. QED BY <1>10, <1>15, <1>19, <3>5, <3>6, <3>7 DEF Remembers
  <2>. QED BY <2>2, <2>3
<1>. QED BY <1>14, <1>21, <1>22, <1>23 DEF OnWalk

(* An object that is at least as far from home is left where it is.        *)
LEMMA AdvancedGoesOn ==
    ASSUME NEW n, NEW a, NEW m, NEW e, NEW z, IsJob(a, n, m, e, z),
           NEW w, NEW s, OnWalk(w, s, a, n, m, e, z), Here(w) # Null,
           ~SameKey(w.carried, Here(w)),
           ~(w.dib > Dist(w.array, n, Place(n, e.hash, s)))
    PROVE  OnWalk(Advanced(w), s + 1, a, n, m, e, z)
<1>1. PICK p : p = Place(n, e.hash, s)
  OBVIOUS
<1>2. PICK q : q = Place(n, e.hash, s + 1)
  OBVIOUS
<1>3. /\ n \in Nat \ {0} /\ e.hash \in Int /\ s \in 0..n - 1 /\ s <= z
      /\ w \in Walkers(n) /\ p \in 0..n - 1 /\ At(w) = p
      /\ w.carried \in Entry /\ w.carried.hash \in Int /\ w.array \in Slots(n)
      /\ w.dib \in Nat /\ w.dib <= s /\ w.dib = Dib(n, w.carried.hash, p)
      /\ w.array[p] # Null /\ s + 1 \in 0..z /\ p \in Used(w.array)
      /\ Here(w) = w.array[p]
  BY <1>1, WalkFacts
<1>4. z \in 0..n - 1 /\ s + 1 \in 0..n - 1
  BY <1>3 DEF IsJob
<1>5. /\ IsTable(w.array, n) /\ Ordered(w.array, n) /\ Used(w.array) = Used(a)
      /\ Entries(w.array) \cup {w.carried} = Entries(a) \cup {e}
      /\ w.carried.hash = Hash[w.carried.t.key] /\ w.num = m /\ w.end = ""
      /\ \A k \in s..n - 1 : w.array[Place(n, e.hash, k)] = a[Place(n, e.hash, k)]
  BY DEF OnWalk, Leaves, Carries
<1>6. Dist(w.array, n, p) \in Nat /\ w.dib <= Dist(w.array, n, p)
  <2>1. Dist(w.array, n, p) \in 0..n - 1
    BY <1>3, DistType
  <2>. QED BY <1>1, <1>3, <2>1
<1>7. /\ q \in 0..n - 1 /\ (p + 1) % n = q /\ Before(n, q) = p
      /\ Dib(n, w.carried.hash, q) = w.dib + 1
  <2>1. PICK h \in Int : h = e.hash
    BY <1>3
  <2>2. n \in Nat \ {0} /\ s \in 0..n - 1 /\ s + 1 \in 0..n - 1
    BY <1>3, <1>4
  <2>3. /\ Place(n, h, s + 1) \in 0..n - 1
        /\ (Place(n, h, s) + 1) % n = Place(n, h, s + 1)
        /\ Before(n, Place(n, h, s + 1)) = Place(n, h, s)
        /\ \A g \in Int : Dib(n, g, Place(n, h, s)) < n - 1 =>
                Dib(n, g, Place(n, h, s + 1)) = Dib(n, g, Place(n, h, s)) + 1
    BY ONLY <2>2, h \in Int, NextPlace
  <2>4. p = Place(n, h, s) /\ q = Place(n, h, s + 1)
    BY <2>1, <1>1, <1>2
  <2>5. Dib(n, w.carried.hash, p) < n - 1
    BY <1>3, <1>4
  <2>. QED BY <1>3, <2>3, <2>4, <2>5
<1>8. PICK y : y = Advanced(w)
  OBVIOUS
<1>9. /\ y \in Walkers(n) /\ y.array = w.array /\ y.num = w.num
      /\ y.carried = w.carried /\ y.ret = w.ret /\ y.dib = w.dib + 1
      /\ y.i = p + 1 /\ y.end = w.end
  BY <1>3, <1>8, AdvancedFields
<1>10. Carries(y, s + 1, n, m, e, z)
  <2>1. y.dib <= s + 1
    BY <1>3, <1>9
  <2>. QED BY <1>2, <1>3, <1>5, <1>7, <1>9, <2>1 DEF Carries
<1>11. Leaves(y, s + 1, a, n, e)
  <2>1. Fits(w.array, n, q, w.dib + 1)
    <3>1. /\ w.array[Before(n, q)] # Null
          /\ Dist(w.array, n, Before(n, q)) >= (w.dib + 1) - 1
      BY <1>3, <1>6, <1>7
    <3>. QED BY ONLY <3>1 DEF Fits
  <2>2. \A k \in s + 1..n - 1 : k \in s..n - 1
    BY <1>3
  <2>. QED BY <1>2, <1>5, <1>9, <2>1, <2>2 DEF Leaves
<1>12. Remembers(y, s + 1, a, n, e)
  <2>1. CASE w.ret = -1
    <3>1. /\ w.array = a /\ w.carried = e /\ w.dib = s
          /\ \A k \in 0..s - 1 : Place(n, e.hash, k) \in Used(a) =>
                                    a[Place(n, e.hash, k)].t.key # e.t.key
      BY <2>1 DEF OnWalk, Remembers
    <3>2. a[p].t.key # e.t.key
      <4>1. ~SameKey(e, a[p])
        BY <1>3, <3>1
      <4>2. a[p].hash = Hash[a[p].t.key]
        BY <1>3, <1>5, <3>1 DEF IsTable
      <4>3. e.hash = Hash[e.t.key]
        BY DEF IsJob
      <4>. QED BY <4>1, <4>2, <4>3 DEF SameKey
    <3>3. ASSUME NEW k \in 0..(s + 1) - 1, Place(n, e.hash, k) \in Used(a)
          PROVE  a[Place(n, e.hash, k)].t.key # e.t.key
      <4>1. k \in 0..s - 1 \/ k = s
        BY <1>3
      <4>. QED BY <1>1, <3>1, <3>2, <3>3, <4>1
    <3>. QED BY <1>9, <2>1, <3>1, <3>3 DEF Remembers
  <2>2. CASE w.ret # -1
    <3>1. /\ \E k \in 0..s - 1 : w.ret = Place(n, e.hash, k)
          /\ w.array[w.ret] = e
          /\ Fresh(a, e.t.key) /\ Fresh(w.array, w.carried.t.key)
      BY <2>2 DEF OnWalk, Remembers
    <3>2. \A k \in 0..s - 1 : k \in 0..(s + 1) - 1
      BY <1>3
    <3>. QED BY <1>9, <2>2, <3>1, <3>2 DEF Remembers
  <2>. QED BY <2>1, <2>2
<1>. QED BY <1>8, <1>10, <1>11, <1>12 DEF OnWalk

(* One round of the loop.                                                  *)
LEMMA WalkStep ==
    ASSUME NEW n, NEW a, NEW m, NEW e, NEW z, IsJob(a, n, m, e, z),
           NEW w, NEW s,
           \/ OnWalk(w, s, a, n, m, e, z)
           \/ w \in Walkers(n) /\ Ended(w, a, n, m, e)
    PROVE  LET y == InsertStep(w)
           IN  \/ OnWalk(y, s + 1, a, n, m, e, z)
               \/ y \in Walkers(n) /\ Ended(y, a, n, m, e)
<1>1. CASE w \in Walkers(n) /\ Ended(w, a, n, m, e)
  <2>1. w.end # ""
    BY <1>1 DEF Ended
  <2>2. InsertStep(w) = w
    BY <2>1 DEF InsertStep
  <2>. QED BY <1>1, <2>2
<1>2. CASE OnWalk(w, s, a, n, m, e, z)
  <2>1. w.end = ""
    BY <1>2 DEF OnWalk, Carries
  <2>2. CASE Here(w) = Null
    <3>1. InsertStep(w) = Stored(w)
      BY <2>1, <2>2 DEF InsertStep
    <3>. QED BY <1>2, <2>2, <3>1, StoredEnds
  <2>3. CASE Here(w) # Null /\ SameKey(w.carried, Here(w))
    <3>1. InsertStep(w) = Found(w)
      BY <2>1, <2>3 DEF InsertStep
    <3>. QED BY <1>2, <2>3, <3>1, FoundEnds
  <2>4. CASE Here(w) # Null /\ ~SameKey(w.carried, Here(w))
    <3>1. Dib(Size(w), Here(w).hash, At(w)) = Dist(w.array, n, Place(n, e.hash, s))
      <4>1. /\ n \in Nat \ {0} /\ w \in Walkers(n)
            /\ At(w) = Place(n, e.hash, s)
            /\ Here(w) = w.array[Place(n, e.hash, s)]
        BY <1>2, WalkFacts
      <4>2. Size(w) = n
        BY <4>1, WalkerHere
      <4>. QED BY <4>1, <4>2 DEF Dist
    <3>2. InsertStep(w) = IF w.dib > Dist(w.array, n, Place(n, e.hash, s))
                          THEN Swapped(w) ELSE Advanced(w)
      BY <2>1, <2>4, <3>1 DEF InsertStep
    <3>. QED BY <1>2, <2>4, <3>2, SwappedGoesOn, AdvancedGoesOn
  <2>. QED BY <2>2, <2>3, <2>4
<1>. QED BY <1>1, <1>2

-----------------------------------------------------------------------------
(* The recursive function of insert_() exists, and walks from start.       *)

Round(K, start, step) == IF step = 0 THEN start ELSE InsertStep(K[step - 1])

LEMMA RoundsExist ==
    ASSUME NEW start, NEW m \in Nat
    PROVE  \E K : K = [step \in 0..m |-> Round(K, start, step)]
<1>. DEFINE S == {k \in Nat : \E K : K = [step \in 0..k |-> Round(K, start, step)]}
<1>1. 0 \in S
  <2>. DEFINE K == [step \in 0..0 |-> start]
  <2>1. K = [step \in 0..0 |-> Round(K, start, step)]
    BY DEF Round
  <2>. QED BY <2>1
<1>2. ASSUME NEW k \in Nat, k \in S PROVE k + 1 \in S
  <2>1. PICK K : K = [step \in 0..k |-> Round(K, start, step)]
    BY <1>2
  <2>. DEFINE L == [step \in 0..k + 1 |->
                      IF step = k + 1 THEN Round(K, start, step) ELSE K[step]]
  <2>2. ASSUME NEW step \in 0..k + 1 PROVE L[step] = Round(L, start, step)
    <3>1. CASE step = k + 1
      <4>1. L[step] = Round(K, start, step) /\ L[step - 1] = K[step - 1]
        BY <3>1
      <4>. QED BY <4>1 DEF Round
    <3>2. CASE step # k + 1
      <4>1. step \in 0..k
        BY <3>2
      <4>2. L[step] = Round(K, start, step)
        <5>1. L[step] = K[step]
          BY <3>2
        <5>. HIDE DEF L
        <5>. QED BY <2>1, <4>1, <5>1
      <4>3. step # 0 => L[step - 1] = K[step - 1]
        BY <4>1
      <4>. HIDE DEF L
      <4>. QED BY <4>2, <4>3 DEF Round
    <3>. QED BY <3>1, <3>2
  <2>3. L = [step \in 0..k + 1 |-> Round(L, start, step)]
    <3>1. L = [step \in 0..k + 1 |-> L[step]]
      OBVIOUS
    <3>. HIDE DEF L
    <3>. QED BY <2>2, <3>1
  <2>. HIDE DEF L
  <2>4. \E J : J = [step \in 0..k + 1 |-> Round(J, start, step)]
    BY <2>3
  <2>. QED BY <2>4
<1>. HIDE DEF S
<1>3. m \in S
  BY <1>1, <1>2, SetInduction
<1>. QED BY <1>3 DEF S

Start(a, m, e) ==
    [array |-> a, num |-> m, carried |-> e, i |-> e.hash, dib |-> 0,
     ret |-> -1, end |-> ""]

Rounds(a, m, e) ==
    CHOOSE K : K = [step \in 0..Cardinality(DOMAIN a) |->
                       Round(K, Start(a, m, e), step)]

LEMMA InsertIsRounds ==
    ASSUME NEW n \in Nat \ {0}, NEW a \in Slots(n), NEW m, NEW e
    PROVE  /\ Insert_(a, m, e) = Rounds(a, m, e)[n]
           /\ Rounds(a, m, e)[0] = Start(a, m, e)
           /\ \A s \in 0..n - 1 :
                Rounds(a, m, e)[s + 1] = InsertStep(Rounds(a, m, e)[s])
<1>1. Cardinality(DOMAIN a) = n
  BY UsedSlots
<1>2. PICK start : start = Start(a, m, e)
  OBVIOUS
<1>3. PICK K : K = Rounds(a, m, e)
  OBVIOUS
<1>4. K = [step \in 0..n |-> Round(K, start, step)]
  <2>1. K = CHOOSE L : L = [step \in 0..n |-> Round(L, start, step)]
    BY <1>1, <1>2, <1>3 DEF Rounds
  <2>2. \E L : L = [step \in 0..n |-> Round(L, start, step)]
    BY RoundsExist
  <2>. QED BY <2>1, <2>2
<1>5. Insert_(a, m, e) = K[n]
  BY <1>1, <1>3 DEF Insert_, Rounds, Round, Start
<1>6. \A step \in 0..n : K[step] = Round(K, start, step)
  BY <1>4
<1>7. K[0] = start
  BY <1>6 DEF Round
<1>8. ASSUME NEW s \in 0..n - 1 PROVE K[s + 1] = InsertStep(K[s])
  <2>1. s + 1 \in 0..n /\ s + 1 # 0 /\ s + 1 - 1 = s
    OBVIOUS
  <2>2. K[s + 1] = Round(K, start, s + 1)
    BY <1>6, <2>1
  <2>. QED BY <2>1, <2>2 DEF Round
<1>. QED BY <1>2, <1>3, <1>5, <1>7, <1>8

LEMMA StartIsOnWalk ==
    ASSUME NEW n, NEW a, NEW m, NEW e, NEW z, IsJob(a, n, m, e, z)
    PROVE  OnWalk(Start(a, m, e), 0, a, n, m, e, z)
<1>1. PICK w : w = Start(a, m, e)
  OBVIOUS
<1>2. /\ n \in Nat \ {0} /\ IsTable(a, n) /\ Ordered(a, n) /\ m \in Nat
      /\ e \in Entry /\ e.hash \in Nat /\ e.hash = Hash[e.t.key]
      /\ z \in 0..n - 1 /\ a \in Slots(n)
  BY DEF IsJob, Entry, IsTable
<1>3. /\ w.array = a /\ w.num = m /\ w.carried = e /\ w.i = e.hash
      /\ w.dib = 0 /\ w.ret = -1 /\ w.end = ""
  BY <1>1 DEF Start
<1>4. w \in Walkers(n)
  <2>1. -1 \in Int /\ 0 \in Nat
    OBVIOUS
  <2>. QED BY ONLY <1>1, <1>2, <2>1 DEF Start, Walkers
<1>5. Carries(w, 0, n, m, e, z)
  <2>1. 0 \in 0..n - 1 /\ 0 \in 0..z
    BY <1>2
  <2>2. PICK h \in Int : h = e.hash
    BY <1>2
  <2>3. \A k \in 0..n - 1 : Dib(n, h, Place(n, h, k)) = k
    BY ONLY <1>2, h \in Int, DibOfPlace
  <2>4. Dib(n, e.hash, Place(n, e.hash, 0)) = 0
    BY <2>1, <2>2, <2>3
  <2>5. e.hash % n = Place(n, e.hash, 0)
    BY <1>2 DEF Place
  <2>6. w.dib <= 0
    <3>1. w.dib = 0
      BY ONLY <1>3
    <3>2. 0 <= 0
      OBVIOUS
    <3>. QED BY ONLY <3>1, <3>2
  <2>. QED BY <1>2, <1>3, <1>4, <2>1, <2>4, <2>5, <2>6 DEF Carries
<1>6. Leaves(w, 0, a, n, e)
  <2>1. Fits(a, n, Place(n, e.hash, 0), 0)
    BY DEF Fits
  <2>. QED BY <1>2, <1>3, <2>1 DEF Leaves
<1>7. Remembers(w, 0, a, n, e)
  <2>1. 0..0 - 1 = {}
    OBVIOUS
  <2>. QED BY <1>3, <2>1 DEF Remembers
<1>. QED BY <1>1, <1>5, <1>6, <1>7 DEF OnWalk

(* insert_() ends, with the object in the table or a duplicate found.      *)
LEMMA InsertEnds ==
    ASSUME NEW n \in Nat \ {0}, NEW a, IsTable(a, n), Ordered(a, n),
           Cardinality(Used(a)) < n, NEW m \in Nat,
           NEW e \in Entry, e.hash = Hash[e.t.key]
    PROVE  LET w == Insert_(a, m, e)
           IN  w \in Walkers(n) /\ Ended(w, a, n, m, e)
<1>1. a \in Slots(n) /\ e.hash \in Int
  BY DEF IsTable, Entry
<1>2. PICK z \in 0..n - 1 : a[Place(n, e.hash, z)] = Null
  <2>1. PICK i \in 0..n - 1 : a[i] = Null
    BY <1>1, EmptySlot
  <2>2. Dib(n, e.hash, i) \in 0..n - 1
    BY <1>1, i \in Int, DibType
  <2>3. Place(n, e.hash, Dib(n, e.hash, i)) = i
    BY <1>1, PlaceOfDib
  <2>. QED BY <2>1, <2>2, <2>3
<1>3. IsJob(a, n, m, e, z)
  BY <1>2 DEF IsJob
<1>4. PICK K : K = Rounds(a, m, e)
  OBVIOUS
<1>5. /\ Insert_(a, m, e) = K[n] /\ K[0] = Start(a, m, e)
      /\ \A s \in 0..n - 1 : K[s + 1] = InsertStep(K[s])
  BY <1>1, <1>4, InsertIsRounds
<1>. DEFINE P(s) == \/ OnWalk(K[s], s, a, n, m, e, z)
                    \/ K[s] \in Walkers(n) /\ Ended(K[s], a, n, m, e)
            S == {s \in Nat : s <= n => P(s)}
<1>6. 0 \in S
  BY <1>3, <1>5, StartIsOnWalk
<1>7. ASSUME NEW s \in Nat, s \in S PROVE s + 1 \in S
  <2>. SUFFICES ASSUME s + 1 <= n PROVE P(s + 1)
    OBVIOUS
  <2>1. s \in 0..n - 1 /\ P(s)
    BY <1>7
  <2>2. K[s + 1] = InsertStep(K[s])
    BY <1>5, <2>1
  <2>. QED BY <1>3, <2>1, <2>2, WalkStep
<1>8. n \in S
  <2>. HIDE DEF S
  <2>. QED BY <1>6, <1>7, SetInduction
<1>9. P(n)
  BY <1>8
<1>10. ~OnWalk(K[n], n, a, n, m, e, z)
  <2>1. ~(n \in 0..z)
    BY <1>2
  <2>. QED BY <2>1 DEF OnWalk, Carries
<1>. QED BY <1>5, <1>9, <1>10

-----------------------------------------------------------------------------
(* Sizes.                                                                  *)

LEMMA LeastIs ==
    ASSUME NEW S, S \subseteq Nat, S # {}
    PROVE  Least(S) \in S /\ \A m \in S : Least(S) <= m
<1>. DEFINE R == OpToRel(<, Nat)
<1>1. IsWellFoundedOn(R, Nat)
  BY NatLessThanWellFounded
<1>2. \A x, y \in Nat : <<x, y>> \in R <=> x < y
  BY DEF OpToRel
<1>. HIDE DEF R
<1>3. PICK x \in S : \A y \in S : ~(<<y, x>> \in R)
  BY <1>1, WFMin
<1>4. ASSUME NEW y \in S PROVE x <= y
  <2>1. x \in Nat /\ y \in Nat
    OBVIOUS
  <2>2. ~(y < x)
    BY <1>2, <1>3, <2>1
  <2>. QED BY <2>1, <2>2
<1>. QED BY <1>3, <1>4 DEF Least

LEMMA PowersAreNat == {2^k : k \in 0..29} \subseteq Nat
OBVIOUS

LEMMA NewSizeGrows ==
    ASSUME mask \in 0..MaxSize - 1
    PROVE  NewSize \in {2^k : k \in 0..29} /\ NewSize \in Nat /\ NewSize > mask + 1
<1>. DEFINE goal == IF StartSize > mask + 1 THEN StartSize ELSE mask + 1
            S == {size \in {2^k : k \in 0..29} : size > goal}
<1>1. 2^29 \in Nat /\ StartSize \in Nat /\ MaxSize \in Nat
      /\ StartSize < 2^29 /\ MaxSize < 2^29
  BY SizeAssumption
<1>2. goal \in Nat /\ goal < 2^29 /\ goal >= mask + 1
  BY <1>1
<1>3. S \subseteq Nat
  BY PowersAreNat
<1>4. 2^29 \in S
  <2>1. 2^29 \in {2^k : k \in 0..29} /\ 2^29 > goal
    BY <1>1, <1>2
  <2>. HIDE DEF goal
  <2>. QED BY <2>1
<1>5. NewSize = Least(S)
  BY DEF NewSize
<1>6. NewSize \in S
  <2>. HIDE DEF S
  <2>. QED BY <1>3, <1>4, <1>5, LeastIs
<1>7. NewSize \in Nat /\ NewSize > goal /\ NewSize \in {2^k : k \in 0..29}
  BY <1>3, <1>6
<1>. HIDE DEF goal
<1>. QED BY <1>2, <1>7

(* The load check leaves room for the object and an empty slot.            *)
LEMMA LoadCheck ==
    ASSUME mask \in Nat, num \in Nat, num < GrowAt
    PROVE  mask > 0 /\ num + 2 <= mask
<1>1. GrowAt \in Int /\ 10 * GrowAt <= 9 * mask
  BY DEF GrowAt
<1>. QED BY <1>1

-----------------------------------------------------------------------------
(* The inductive invariant: whatever was inserted and erased, the table is *)
(* whole and in order, and num bounds the slots in use.                    *)

IInv ==
    /\ TypeOK /\ WalksEnd
    /\ array # <<>> => IsTable(array, mask + 1) /\ Ordered(array, mask + 1)

LEMMA NoSlots == DOMAIN <<>> = {} /\ Used(<<>>) = {} /\ Entries(<<>>) = {}
BY DEF Used, Entries

LEMMA IInvFacts ==
    ASSUME IInv
    PROVE  /\ mask \in Nat /\ mask \in 0..MaxSize - 1 /\ num \in Nat
           /\ mask + 1 \in Nat \ {0}
           /\ Cardinality(Used(array)) <= num
           /\ array = <<>> => mask = 0 /\ Used(array) = {}
           /\ array # <<>> => /\ array \in Slots(mask + 1)
                              /\ IsTable(array, mask + 1)
                              /\ Ordered(array, mask + 1)
                              /\ Cardinality(Used(array)) < mask + 1
                              /\ mask + 1 \in {2^k : k \in 0..29}
<1>1. mask \in Nat /\ mask \in 0..MaxSize - 1 /\ num \in Nat
  BY SizeAssumption DEF IInv, TypeOK
<1>2. array # <<>> => mask + 1 \in {2^k : k \in 0..29}
  BY DEF IInv, TypeOK
<1>3. array # <<>> => Cardinality(Used(array)) < mask + 1
  <2>. HAVE array # <<>>
  <2>1. IsTable(array, mask + 1)
    BY DEF IInv
  <2>2. Cardinality(Used(array)) \in Int
    BY <1>1, <2>1, UsedSlots DEF IsTable
  <2>. QED BY <1>1, <2>2 DEF IInv, WalksEnd
<1>4. array = <<>> => mask = 0 /\ Used(array) = {}
  <2>. HAVE array = <<>>
  <2>1. Used(array) = {}
    BY NoSlots
  <2>2. array \notin [0..mask -> Entry \cup {Null}]
    BY <1>1, NoSlots
  <2>. QED BY <2>1, <2>2 DEF IInv, TypeOK
<1>. QED BY <1>1, <1>2, <1>3, <1>4 DEF IInv, WalksEnd, IsTable

(* RobinHood says of the state what Ordered says of a table.               *)
LEMMA InOrder == ASSUME IInv PROVE RobinHood
<1>1. CASE array = <<>>
  <2>1. Used(array) = {}
    BY <1>1, IInvFacts
  <2>. QED BY <2>1 DEF RobinHood
<1>2. CASE array # <<>>
  <2>1. Ordered(array, mask + 1)
    BY <1>2, IInvFacts
  <2>. QED BY <2>1 DEF Ordered, Fits, Dist, Before, RobinHood
<1>. QED BY <1>1, <1>2

-----------------------------------------------------------------------------
(* rehash_(): the loop over the old slots.                                 *)

NoObjects(size) == [array |-> [i \in 0..size - 1 |-> Null], num |-> 0]

MoveStep(K, empty, a, i) ==
    IF i = 0 THEN empty
    ELSE LET w == K[i - 1]
             e == a[i - 1]
         IN  IF e = Null THEN w ELSE Insert_(w.array, w.num, e)

HaveMoves(empty, a, m) ==
    \E K : K = [i \in 0..m |-> MoveStep(K, empty, a, i)]

LEMMA MovesExist ==
    ASSUME NEW empty, NEW a, NEW m \in Nat
    PROVE  HaveMoves(empty, a, m)
<1>. DEFINE S == {k \in Nat : \E K : K = [i \in 0..k |-> MoveStep(K, empty, a, i)]}
<1>1. 0 \in S
  <2>. DEFINE K == [i \in 0..0 |-> empty]
  <2>1. K = [i \in 0..0 |-> MoveStep(K, empty, a, i)]
    BY DEF MoveStep
  <2>. QED BY <2>1
<1>2. ASSUME NEW k \in Nat, k \in S PROVE k + 1 \in S
  <2>1. PICK K : K = [i \in 0..k |-> MoveStep(K, empty, a, i)]
    BY <1>2
  <2>. DEFINE L == [i \in 0..k + 1 |->
                      IF i = k + 1 THEN MoveStep(K, empty, a, i) ELSE K[i]]
  <2>2. ASSUME NEW i \in 0..k + 1 PROVE L[i] = MoveStep(L, empty, a, i)
    <3>1. CASE i = k + 1
      <4>1. L[i] = MoveStep(K, empty, a, i) /\ L[i - 1] = K[i - 1]
        BY <3>1
      <4>. QED BY <4>1 DEF MoveStep
    <3>2. CASE i # k + 1
      <4>1. i \in 0..k
        BY <3>2
      <4>2. L[i] = MoveStep(K, empty, a, i)
        <5>1. L[i] = K[i]
          BY <3>2
        <5>. HIDE DEF L
        <5>. QED BY <2>1, <4>1, <5>1
      <4>3. i # 0 => L[i - 1] = K[i - 1]
        BY <4>1
      <4>. HIDE DEF L
      <4>. QED BY <4>2, <4>3 DEF MoveStep
    <3>. QED BY <3>1, <3>2
  <2>3. L = [i \in 0..k + 1 |-> MoveStep(L, empty, a, i)]
    <3>1. L = [i \in 0..k + 1 |-> L[i]]
      OBVIOUS
    <3>. HIDE DEF L
    <3>. QED BY <2>2, <3>1
  <2>. HIDE DEF L
  <2>4. \E J : J = [i \in 0..k + 1 |-> MoveStep(J, empty, a, i)]
    BY <2>3
  <2>. QED BY <2>4
<1>. HIDE DEF S
<1>3. m \in S
  BY <1>1, <1>2, SetInduction
<1>. QED BY <1>3 DEF S, HaveMoves

Moves(size) ==
    CHOOSE K : K = [i \in 0..Cardinality(DOMAIN array) |->
                       MoveStep(K, NoObjects(size), array, i)]

LEMMA RehashedIsMoves ==
    ASSUME NEW n \in Nat, n = Cardinality(DOMAIN array), NEW size
    PROVE  /\ Rehashed(size) = Moves(size)[n]
           /\ Moves(size)[0] = NoObjects(size)
           /\ \A i \in 0..n - 1 :
                Moves(size)[i + 1]
                  = IF array[i] = Null THEN Moves(size)[i]
                    ELSE Insert_(Moves(size)[i].array, Moves(size)[i].num, array[i])
<1>1. PICK a : a = array
  OBVIOUS
<1>2. PICK empty : empty = NoObjects(size)
  OBVIOUS
<1>3. PICK K : K = Moves(size)
  OBVIOUS
<1>4. K = [i \in 0..n |-> MoveStep(K, empty, a, i)]
  <2>1. K = CHOOSE L : L = [i \in 0..n |-> MoveStep(L, empty, a, i)]
    BY <1>1, <1>2, <1>3 DEF Moves
  <2>2. \E L : L = [i \in 0..n |-> MoveStep(L, empty, a, i)]
    <3>1. HaveMoves(empty, a, n)
      BY MovesExist
    <3>. QED BY <3>1 DEF HaveMoves
  <2>. QED BY <2>1, <2>2
<1>5. Rehashed(size) = K[n]
  BY <1>3 DEF Rehashed, Moves, MoveStep, NoObjects
<1>6. \A i \in 0..n : K[i] = MoveStep(K, empty, a, i)
  BY <1>4
<1>7. K[0] = empty
  BY <1>6 DEF MoveStep
<1>8. ASSUME NEW i \in 0..n - 1
      PROVE  K[i + 1] = IF a[i] = Null THEN K[i]
                        ELSE Insert_(K[i].array, K[i].num, a[i])
  <2>1. i + 1 \in 0..n /\ i + 1 # 0 /\ (i + 1) - 1 = i
    OBVIOUS
  <2>2. K[i + 1] = MoveStep(K, empty, a, i + 1)
    BY <1>6, <2>1
  <2>. QED BY <2>1, <2>2 DEF MoveStep
<1>. QED BY <1>1, <1>2, <1>3, <1>5, <1>7, <1>8

(* What has gone over when i slots have been looked at: every object of    *)
(* them, once, and one less than i when one of them was empty.             *)
Upto(i) == {array[j] : j \in {k \in Used(array) : k < i}}

Moved(w, i, size, gap) ==
    /\ IsTable(w.array, size) /\ Ordered(w.array, size)
    /\ w.num = Cardinality(Used(w.array)) /\ w.num \in Nat
    /\ w.num <= i /\ (gap < i => w.num < i)
    /\ Entries(w.array) = Upto(i)

LEMMA NothingMoved ==
    ASSUME NEW size \in Nat \ {0}, NEW gap \in Nat, Used(array) \subseteq Nat
    PROVE  Moved(NoObjects(size), 0, size, gap)
<1>1. PICK a : a = [i \in 0..size - 1 |-> Null]
  OBVIOUS
<1>2. NoObjects(size).array = a /\ NoObjects(size).num = 0
  BY <1>1 DEF NoObjects
<1>3. a \in Slots(size) /\ Used(a) = {}
  BY <1>1 DEF Slots, Used
<1>4. IsTable(a, size) /\ Ordered(a, size) /\ Entries(a) = {}
  BY <1>3 DEF IsTable, Ordered, Entries
<1>5. Cardinality(Used(a)) = 0
  BY <1>3, FS_EmptySet
<1>6. Upto(0) = {}
  BY DEF Upto
<1>7. 0 <= 0 /\ ~(gap < 0) /\ 0 \in Nat
  OBVIOUS
<1>. QED BY <1>2, <1>4, <1>5, <1>6, <1>7 DEF Moved

LEMMA UptoNext ==
    ASSUME NEW i \in Nat, Used(array) \subseteq Nat
    PROVE  Upto(i + 1) = IF i \in Used(array) THEN Upto(i) \cup {array[i]}
                         ELSE Upto(i)
<1>1. \A k \in Used(array) : k < i + 1 <=> k < i \/ k = i
  OBVIOUS
<1>2. CASE i \in Used(array)
  <2>1. {k \in Used(array) : k < i + 1} = {k \in Used(array) : k < i} \cup {i}
    BY <1>1, <1>2
  <2>. QED BY <1>2, <2>1 DEF Upto
<1>3. CASE i \notin Used(array)
  <2>1. {k \in Used(array) : k < i + 1} = {k \in Used(array) : k < i}
    BY <1>1, <1>3
  <2>. QED BY <1>3, <2>1 DEF Upto
<1>. QED BY <1>2, <1>3

LEMMA MoveKeeps ==
    ASSUME NEW n \in Nat \ {0}, IsTable(array, n), NEW size \in Nat, size > n,
           NEW gap \in Nat, array[gap] = Null, NEW i \in 0..n - 1,
           NEW w, Moved(w, i, size, gap)
    PROVE  Moved(IF array[i] = Null THEN w
                 ELSE Insert_(w.array, w.num, array[i]), i + 1, size, gap)
<1>1. /\ Used(array) \subseteq 0..n - 1 /\ \A j \in Used(array) : array[j] \in Entry
      /\ i \in Used(array) <=> array[i] # Null
  BY UsedSlots DEF IsTable
<1>2. Used(array) \subseteq Nat /\ i \in Nat /\ size \in Nat \ {0}
  BY <1>1
<1>3. /\ IsTable(w.array, size) /\ Ordered(w.array, size)
      /\ w.num = Cardinality(Used(w.array)) /\ w.num \in Nat
      /\ w.num <= i /\ (gap < i => w.num < i)
      /\ Entries(w.array) = Upto(i)
  BY DEF Moved
<1>4. CASE array[i] = Null
  <2>1. Upto(i + 1) = Upto(i)
    BY <1>1, <1>2, <1>4, UptoNext
  <2>2. w.num <= i + 1 /\ w.num < i + 1
    BY <1>2, <1>3
  <2>. QED BY <1>3, <1>4, <2>1, <2>2 DEF Moved
<1>5. CASE array[i] # Null
  <2>1. PICK e : e = array[i]
    OBVIOUS
  <2>2. i \in Used(array) /\ e \in Entry /\ e.hash = Hash[e.t.key]
    BY <1>1, <1>5, <2>1 DEF IsTable
  <2>3. PICK y : y = Insert_(w.array, w.num, e)
    OBVIOUS
  <2>4. Cardinality(Used(w.array)) < size
    BY <1>2, <1>3
  <2>5. y \in Walkers(size) /\ Ended(y, w.array, size, w.num, e)
    BY <1>2, <1>3, <2>2, <2>3, <2>4, InsertEnds
  <2>6. Fresh(w.array, e.t.key)
    <3>. SUFFICES ASSUME NEW l \in Used(w.array), w.array[l].t.key = e.t.key
                  PROVE  FALSE
      BY DEF Fresh
    <3>1. w.array[l] \in Upto(i)
      BY <1>3 DEF Entries
    <3>2. PICK j \in Used(array) : j < i /\ array[j] = w.array[l]
      BY <3>1 DEF Upto
    <3>3. j = i
      BY <2>1, <2>2, <3>2 DEF IsTable
    <3>. QED BY <1>2, <3>2, <3>3
  <2>7. /\ y.num = w.num + 1
        /\ IsTable(y.array, size) /\ Ordered(y.array, size)
        /\ Cardinality(Used(y.array)) = Cardinality(Used(w.array)) + 1
        /\ Entries(y.array) = Entries(w.array) \cup {e}
    BY <2>5, <2>6 DEF Ended, Fresh
  <2>8. Upto(i + 1) = Upto(i) \cup {e}
    BY <1>2, <2>1, <2>2, UptoNext
  <2>9. y.num \in Nat /\ y.num <= i + 1 /\ (gap < i + 1 => y.num < i + 1)
    <3>1. gap # i
      BY <1>5
    <3>. QED BY <1>2, <1>3, <2>7, <3>1
  <2>10. Moved(y, i + 1, size, gap)
    BY <1>3, <2>7, <2>8, <2>9 DEF Moved
  <2>. QED BY <1>5, <2>1, <2>3, <2>10
<1>. QED BY <1>4, <1>5

(* Every object goes over, and one slot of the old table at least was      *)
(* empty, so that num comes out smaller than the old number of slots.      *)
LEMMA RehashMovesAll ==
    ASSUME IInv, NEW size \in Nat, size > mask + 1
    PROVE  LET w == Rehashed(size)
           IN  /\ IsTable(w.array, size) /\ Ordered(w.array, size)
               /\ w.num = Cardinality(Used(w.array)) /\ w.num \in 0..mask
               /\ Entries(w.array) = Entries(array)
<1>1. mask \in Nat /\ size \in Nat \ {0}
  BY IInvFacts
<1>2. PICK K : K = Moves(size)
  OBVIOUS
<1>3. CASE array = <<>>
  <2>1. Cardinality(DOMAIN array) = 0 /\ Used(array) = {} /\ Entries(array) = {}
    BY <1>3, NoSlots, FS_EmptySet
  <2>2. Rehashed(size) = NoObjects(size)
    BY <1>2, <2>1, RehashedIsMoves
  <2>3. Moved(NoObjects(size), 0, size, 0)
    BY <1>1, <2>1, NothingMoved
  <2>4. Upto(0) = {}
    BY <2>1 DEF Upto
  <2>5. PICK w : w = Rehashed(size)
    OBVIOUS
  <2>6. /\ IsTable(w.array, size) /\ Ordered(w.array, size)
        /\ w.num = Cardinality(Used(w.array)) /\ w.num \in Nat /\ w.num <= 0
        /\ Entries(w.array) = Entries(array)
    BY <2>1, <2>2, <2>3, <2>4, <2>5 DEF Moved
  <2>7. w.num \in 0..mask
    BY <1>1, <2>6
  <2>. QED BY <2>5, <2>6, <2>7
<1>4. CASE array # <<>>
  <2>1. PICK n \in Nat \ {0} : n = mask + 1
    BY <1>1
  <2>2. IsTable(array, n) /\ array \in Slots(n) /\ Cardinality(Used(array)) < n
    BY <1>4, <2>1, IInvFacts
  <2>3. PICK gap \in 0..n - 1 : array[gap] = Null
    BY <2>2, EmptySlot
  <2>4. /\ Cardinality(DOMAIN array) = n /\ Used(array) \subseteq 0..n - 1
    BY <2>2, UsedSlots
  <2>5. /\ Rehashed(size) = K[n] /\ K[0] = NoObjects(size)
        /\ \A i \in 0..n - 1 :
                K[i + 1] = IF array[i] = Null THEN K[i]
                           ELSE Insert_(K[i].array, K[i].num, array[i])
    BY <1>2, <2>4, RehashedIsMoves
  <2>. DEFINE P(i) == Moved(K[i], i, size, gap)
              S == {i \in Nat : i <= n => P(i)}
  <2>6. 0 \in S
    <3>1. Used(array) \subseteq Nat /\ gap \in Nat
      BY <2>4
    <3>. QED BY <1>1, <2>5, <3>1, NothingMoved
  <2>7. ASSUME NEW i \in Nat, i \in S PROVE i + 1 \in S
    <3>. SUFFICES ASSUME i + 1 <= n PROVE P(i + 1)
      OBVIOUS
    <3>1. i \in 0..n - 1 /\ P(i)
      BY <2>7
    <3>2. gap \in Nat /\ size > n
      BY <2>1, <2>3
    <3>. QED BY <2>2, <2>3, <2>5, <3>1, <3>2, MoveKeeps
  <2>8. n \in S
    <3>. HIDE DEF S
    <3>. QED BY <2>6, <2>7, SetInduction
  <2>9. Moved(K[n], n, size, gap)
    BY <2>8
  <2>10. Upto(n) = Entries(array)
    <3>1. {k \in Used(array) : k < n} = Used(array)
      BY <2>4
    <3>. QED BY <3>1 DEF Upto, Entries
  <2>11. PICK w : w = K[n]
    OBVIOUS
  <2>12. /\ IsTable(w.array, size) /\ Ordered(w.array, size)
         /\ w.num = Cardinality(Used(w.array)) /\ w.num \in Nat /\ w.num < n
         /\ Entries(w.array) = Entries(array)
    BY <2>3, <2>9, <2>10, <2>11 DEF Moved
  <2>13. w.num \in 0..mask
    BY <1>1, <2>1, <2>12
  <2>. QED BY <2>5, <2>11, <2>12, <2>13
<1>. QED BY <1>3, <1>4

-----------------------------------------------------------------------------
(* The calls.                                                              *)

LEMMA TableIsIInv ==
    ASSUME NEW n \in Nat \ {0}, n \in {2^k : k \in 0..29}, n <= MaxSize,
           mask' = n - 1, IsTable(array', n), Ordered(array', n),
           num' \in 0..n, Cardinality(Used(array')) <= num',
           Cardinality(Used(array')) < n,
           fault' = "none", call' \in Call, result' \in Obj \cup {Null}
    PROVE  IInv'
<1>1. mask' + 1 = n /\ mask' \in 0..MaxSize - 1 /\ 0..mask' = 0..n - 1
  BY SizeAssumption
<1>2. array' \in [0..mask' -> Entry \cup {Null}]
  BY <1>1 DEF IsTable, Slots
<1>3. TypeOK'
  BY <1>1, <1>2 DEF TypeOK
<1>4. Cardinality(Used(array')) <= mask'
  <2>1. Cardinality(Used(array')) \in Int
    BY UsedSlots DEF IsTable
  <2>. QED BY <2>1
<1>5. WalksEnd'
  BY <1>4 DEF WalksEnd
<1>. QED BY <1>1, <1>3, <1>5 DEF IInv

LEMMA InitIsIInv == Init => IInv
<1>. SUFFICES ASSUME Init PROVE IInv
  OBVIOUS
<1>1. Cardinality(Used(array)) = 0
  BY NoSlots, FS_EmptySet DEF Init
<1>2. call \in Call
  BY DEF Init, Call
<1>. QED BY <1>1, <1>2, SizeAssumption DEF Init, IInv, TypeOK, WalksEnd

LEMMA GrownHasRoom ==
    ASSUME IInv, num >= GrowAt => NewSize <= MaxSize
    PROVE  \E n \in Nat \ {0} :
              /\ IsTable(Grown.array, n) /\ Ordered(Grown.array, n)
              /\ Grown.num \in Nat /\ Cardinality(Used(Grown.array)) <= Grown.num
              /\ Grown.num + 2 <= n
              /\ Entries(Grown.array) = Entries(array)
              /\ n \in {2^k : k \in 0..29} /\ n <= MaxSize
<1>1. mask \in Nat /\ mask \in 0..MaxSize - 1 /\ num \in Nat /\ MaxSize \in Nat
  BY IInvFacts, SizeAssumption
<1>2. GrowAt \in Int
  BY <1>1 DEF GrowAt
<1>3. CASE num < GrowAt
  <2>1. mask > 0 /\ num + 2 <= mask
    BY <1>1, <1>3, LoadCheck
  <2>2. array # <<>>
    BY <2>1, IInvFacts
  <2>3. Grown.array = array /\ Grown.num = num
    BY <1>3 DEF Grown
  <2>4. mask + 1 <= MaxSize /\ num + 2 <= mask + 1 /\ mask + 1 \in Nat \ {0}
    BY <1>1, <2>1
  <2>. QED BY <1>1, <2>2, <2>3, <2>4, IInvFacts
<1>4. CASE ~(num < GrowAt)
  <2>1. NewSize \in {2^k : k \in 0..29} /\ NewSize \in Nat /\ NewSize > mask + 1
    BY <1>1, NewSizeGrows
  <2>2. NewSize <= MaxSize
    BY <1>1, <1>2, <1>4
  <2>3. PICK w : w = Rehashed(NewSize)
    OBVIOUS
  <2>4. Grown.array = w.array /\ Grown.num = w.num
    BY <1>4, <2>3 DEF Grown
  <2>5. /\ IsTable(w.array, NewSize) /\ Ordered(w.array, NewSize)
        /\ w.num = Cardinality(Used(w.array)) /\ w.num \in 0..mask
        /\ Entries(w.array) = Entries(array)
    BY <2>1, <2>3, RehashMovesAll
  <2>6. w.num \in Nat /\ w.num + 2 <= NewSize /\ NewSize \in Nat \ {0}
        /\ Cardinality(Used(w.array)) <= w.num
    BY <1>1, <2>1, <2>5
  <2>. QED BY <2>1, <2>2, <2>4, <2>5, <2>6
<1>. QED BY <1>3, <1>4

(* insert() puts a new key in, or returns what has the key.                *)
LEMMA InsertPutsIn ==
    ASSUME IInv, NEW o \in Obj, Insert(o)
    PROVE  /\ IInv'
           /\ \/ /\ \A x \in Entries(array) : x.t.key # o.key
                 /\ \E x \in Entry :
                        x.t = o /\ Entries(array') = Entries(array) \cup {x}
                 /\ result' = o
              \/ /\ Entries(array') = Entries(array)
                 /\ \E x \in Entries(array) : x.t = result' /\ x.t.key = o.key
<1>1. PICK n \in Nat \ {0} :
              /\ IsTable(Grown.array, n) /\ Ordered(Grown.array, n)
              /\ Grown.num \in Nat /\ Cardinality(Used(Grown.array)) <= Grown.num
              /\ Grown.num + 2 <= n
              /\ Entries(Grown.array) = Entries(array)
              /\ n \in {2^k : k \in 0..29} /\ n <= MaxSize
  BY GrownHasRoom DEF Insert
<1>2. PICK g : g = Grown
  OBVIOUS
<1>3. PICK e : e = [hash |-> Hash[o.key], t |-> o]
  OBVIOUS
<1>4. e \in Entry /\ e.hash = Hash[e.t.key] /\ e.t = o
  BY <1>3, HashAssumption DEF Entry, Obj
<1>5. Cardinality(Used(g.array)) \in Nat /\ Cardinality(Used(g.array)) < n
      /\ g.array \in Slots(n)
  <2>1. g.array \in Slots(n)
    BY <1>1, <1>2 DEF IsTable
  <2>2. Cardinality(Used(g.array)) \in Nat
    BY <2>1, UsedSlots
  <2>. QED BY <1>1, <1>2, <2>1, <2>2
<1>6. PICK c \in Nat : /\ c = Cardinality(Used(g.array)) /\ g.num \in Nat
                       /\ c <= g.num /\ g.num + 2 <= n
  BY <1>1, <1>2, <1>5
<1>7. PICK w : w = Insert_(g.array, g.num, e)
  OBVIOUS
<1>8. w \in Walkers(n) /\ Ended(w, g.array, n, g.num, e)
  BY <1>1, <1>2, <1>4, <1>5, <1>7, InsertEnds
<1>9. w.array \in Slots(n) /\ Cardinality(DOMAIN w.array) = n
  BY <1>8, WalkerTypes, UsedSlots
<1>10. /\ array' = w.array /\ num' = w.num /\ mask' = n - 1
       /\ result' = IF w.end \in {"stored", "found"} THEN w.array[w.ret].t ELSE Null
       /\ fault' = IF w.end = "" THEN "hang"
                   ELSE IF w.end = "assert" THEN "assert" ELSE "none"
  BY <1>2, <1>3, <1>7, <1>9 DEF Insert
<1>11. call' \in Call
  BY DEF Insert, Call
<1>12. CASE w.end = "stored"
  <2>1. /\ w.num = g.num + 1
        /\ IsTable(w.array, n) /\ Ordered(w.array, n)
        /\ Cardinality(Used(w.array)) = Cardinality(Used(g.array)) + 1
        /\ Entries(w.array) = Entries(array) \cup {e} /\ Fresh(g.array, o.key)
        /\ w.array[w.ret] = e
    BY <1>1, <1>2, <1>4, <1>8, <1>12 DEF Ended
  <2>2. result' = o /\ fault' = "none"
    BY <1>4, <1>10, <1>12, <2>1
  <2>3. IInv'
    <3>1. /\ num' = g.num + 1
          /\ Cardinality(Used(array')) = Cardinality(Used(g.array)) + 1
      BY <1>10, <2>1
    <3>2. num' \in 0..n /\ Cardinality(Used(array')) <= num'
          /\ Cardinality(Used(array')) < n
      BY <3>1, <1>6
    <3>. QED BY <1>1, <1>10, <1>11, <2>1, <2>2, <3>2, TableIsIInv
  <2>4. \A x \in Entries(array) : x.t.key # o.key
    BY <1>1, <1>2, <2>1 DEF Entries, Fresh
  <2>. QED BY <1>4, <1>10, <2>1, <2>2, <2>3, <2>4
<1>13. CASE w.end = "found"
  <2>1. /\ w.num = g.num /\ w.array = g.array
        /\ w.ret \in Used(g.array) /\ g.array[w.ret].t.key = o.key
    BY <1>4, <1>8, <1>13 DEF Ended
  <2>2. g.array[w.ret] \in Entry /\ g.array[w.ret] \in Entries(array)
    BY <1>1, <1>2, <1>5, <2>1, UsedSlots DEF Entries
  <2>3. result' = g.array[w.ret].t /\ fault' = "none" /\ result' \in Obj
    BY <1>10, <1>13, <2>1, <2>2 DEF Entry
  <2>4. IInv'
    <3>1. num' = g.num /\ Cardinality(Used(array')) = Cardinality(Used(g.array))
      BY <1>10, <2>1
    <3>2. num' \in 0..n /\ Cardinality(Used(array')) <= num'
          /\ Cardinality(Used(array')) < n
      BY <3>1, <1>6
    <3>. QED BY <1>1, <1>2, <1>10, <1>11, <2>1, <2>3, <3>2, TableIsIInv
  <2>5. Entries(array') = Entries(array)
    BY <1>1, <1>2, <1>10, <2>1
  <2>. QED BY <2>1, <2>2, <2>3, <2>4, <2>5
<1>14. w.end \in {"stored", "found"}
  BY <1>8 DEF Ended
<1>. QED BY <1>12, <1>13, <1>14

-----------------------------------------------------------------------------
(* erase(): the objects behind slot i, up to the end-th slot, move forward. *)

IsShift(b, a, n, i, end) ==
    /\ b \in Slots(n)
    /\ \A f \in 0..end - 2 : b[Place(n, i, f)] = a[Place(n, i, f + 1)]
    /\ b[Place(n, i, end - 1)] = Null
    /\ \A f \in end..n - 1 : b[Place(n, i, f)] = a[Place(n, i, f)]
    /\ \A f \in 1..end - 1 : /\ a[Place(n, i, f)] # Null
                             /\ Dist(a, n, Place(n, i, f)) # 0
    /\ \/ a[Place(n, i, end)] = Null
       \/ Dist(a, n, Place(n, i, end)) = 0

LEMMA PlaceOfHome ==
    ASSUME NEW n \in Nat \ {0}, NEW i \in 0..n - 1
    PROVE  Place(n, i, 0) = i /\ Before(n, i) = Place(n, i, n - 1)
<1>1. Dib(n, i, i) = 0 /\ i \in Int /\ 0 \in 0..n - 1
  <2>1. (n * 0 + 0) % n = 0
    BY ModUnique
  <2>. QED BY <2>1 DEF Dib
<1>2. Place(n, i, 0) = i
  BY <1>1, PlaceOfDib
<1>3. (Place(n, i, -1) + 1) % n = Place(n, i, 0)
      /\ (Place(n, i, 0) - 1) % n = Place(n, i, -1)
  <2>1. (Place(n, i, -1) + 1) % n = Place(n, i, -1 + 1)
        /\ (Place(n, i, -1 + 1) - 1) % n = Place(n, i, -1)
    <3>1. -1 \in Int
      OBVIOUS
    <3>. QED BY <1>1, <3>1, PlaceNext
  <2>2. -1 + 1 = 0
    OBVIOUS
  <2>. QED BY <2>1, <2>2
<1>4. Place(n, i, n - 1) = Place(n, i, -1)
  <2>1. PICK x : x = i - 1
    OBVIOUS
  <2>2. x \in Int /\ i + (n - 1) = n + x /\ i + (-1) = x
    BY <2>1
  <2>3. Wraps(n, n, x)
    <3>1. n \in Int
      OBVIOUS
    <3>. QED BY <2>2, <3>1, Wrapped
  <2>4. n % n = 0
    <3>1. (n * 1 + 0) % n = 0
      BY <1>1, ModUnique
    <3>. QED BY <3>1
  <2>5. (0 + x) % n = (n + x) % n
    BY <2>3, <2>4 DEF Wraps
  <2>. QED BY <2>2, <2>5 DEF Place
<1>. QED BY <1>2, <1>3, <1>4 DEF Before

LEMMA ErasedIsShift ==
    ASSUME NEW n \in Nat \ {0}, n = mask + 1, array \in Slots(n),
           Cardinality(Used(array)) < n,
           NEW i \in Used(array)
    PROVE  \E end \in 1..n - 1 : IsShift(Erased(i), array, n, i, end)
<1>. DEFINE old == [array EXCEPT ![i] = Null]
            at(m) == old[(i + m) % n]
            Ends == {m \in 1..n : at(m) = Null \/ Dib(n, at(m).hash, i + m) = 0}
            end == Least(Ends)
            from(j) == (j - i) % n
<1>1. DOMAIN array = 0..n - 1 /\ i \in 0..n - 1 /\ i \in Int /\ array[i] # Null
  BY UsedSlots
<1>2. \A j \in 0..n - 1 : old[j] = IF j = i THEN Null ELSE array[j]
  BY <1>1
<1>3. \A m \in Int : at(m) = old[Place(n, i, m)] /\ Place(n, i, m) \in 0..n - 1
  BY <1>1, PlaceType DEF Place
<1>4. Place(n, i, 0) = i
  BY <1>1, PlaceOfHome
<1>5. \A m \in 1..n - 1 : at(m) = array[Place(n, i, m)]
  <2>. SUFFICES ASSUME NEW m \in 1..n - 1 PROVE at(m) = array[Place(n, i, m)]
    OBVIOUS
  <2>1. m \in 0..n - 1 /\ 0 \in 0..n - 1 /\ m # 0
    OBVIOUS
  <2>2. Place(n, i, m) # Place(n, i, 0)
    BY <1>1, <2>1, PlacesDiffer
  <2>. QED BY <1>2, <1>3, <1>4, <2>1, <2>2
<1>6. PICK k \in 0..n - 1 : array[k] = Null
  BY EmptySlot
<1>7. PICK f : f = Dib(n, i, k)
  OBVIOUS
<1>8. f \in 0..n - 1 /\ Place(n, i, f) = k
  <2>1. k \in Int
    OBVIOUS
  <2>2. Dib(n, i, k) \in 0..n - 1
    BY <1>1, <2>1, DibType
  <2>3. Place(n, i, Dib(n, i, k)) = k
    BY <1>1, PlaceOfDib
  <2>. QED BY <1>7, <2>2, <2>3
<1>9. f \in 1..n - 1
  BY <1>1, <1>4, <1>6, <1>8
<1>10. f \in Ends
  BY <1>5, <1>6, <1>8, <1>9
<1>11. end \in Ends /\ (\A m \in Ends : end <= m)
  <2>. HIDE DEF Ends
  <2>1. Ends \subseteq Nat
    BY DEF Ends
  <2>. QED BY <1>10, <2>1, LeastIs
<1>. HIDE DEF end
<1>12. end \in 1..n - 1
  BY <1>9, <1>10, <1>11
<1>13. \A m \in 1..n - 1 :
          m \in Ends <=> \/ array[Place(n, i, m)] = Null
                         \/ Dist(array, n, Place(n, i, m)) = 0
  <2>. SUFFICES ASSUME NEW m \in 1..n - 1
                PROVE  m \in Ends <=> \/ array[Place(n, i, m)] = Null
                                      \/ Dist(array, n, Place(n, i, m)) = 0
    OBVIOUS
  <2>1. at(m) = array[Place(n, i, m)] /\ Place(n, i, m) \in 0..n - 1
    BY <1>3, <1>5
  <2>2. CASE array[Place(n, i, m)] # Null
    <3>1. PICK h : h = array[Place(n, i, m)].hash
      OBVIOUS
    <3>2. h \in Int
      BY <2>1, <2>2, <3>1 DEF Slots, Entry
    <3>3. Dib(n, h, Place(n, i, m)) = Dib(n, h, i + m)
      <4>1. Dib(n, h, Place(n, i, m)) = (i + m - h) % n
        <5>1. m \in Int
          OBVIOUS
        <5>. QED BY <1>1, <3>2, <5>1, DibPlace
      <4>2. i + m - h = (i + m) - h
        BY <1>1, <3>2
      <4>. QED BY <4>1, <4>2 DEF Dib
    <3>. QED BY <2>1, <2>2, <3>1, <3>3 DEF Dist
  <2>3. CASE array[Place(n, i, m)] = Null
    BY <2>1, <2>3
  <2>. QED BY <2>2, <2>3
<1>14. PICK b : b = Erased(i)
  OBVIOUS
<1>15. b = [j \in DOMAIN array |->
               IF from(j) < end - 1 THEN at(from(j) + 1)
               ELSE IF from(j) = end - 1 THEN Null ELSE old[j]]
  BY <1>14 DEF Erased, end
<1>16. \A m \in 0..n - 1 :
          /\ Place(n, i, m) \in 0..n - 1 /\ from(Place(n, i, m)) = m
          /\ b[Place(n, i, m)] = IF m < end - 1 THEN at(m + 1)
                                 ELSE IF m = end - 1 THEN Null
                                 ELSE old[Place(n, i, m)]
  <2>. SUFFICES ASSUME NEW m \in 0..n - 1
                PROVE  /\ Place(n, i, m) \in 0..n - 1
                       /\ from(Place(n, i, m)) = m
                       /\ b[Place(n, i, m)]
                            = IF m < end - 1 THEN at(m + 1)
                              ELSE IF m = end - 1 THEN Null
                              ELSE old[Place(n, i, m)]
    OBVIOUS
  <2>1. Place(n, i, m) \in 0..n - 1 /\ Dib(n, i, Place(n, i, m)) = m
    <3>1. m \in Int
      OBVIOUS
    <3>2. Place(n, i, m) \in 0..n - 1
      BY <1>1, <3>1, PlaceType
    <3>3. Dib(n, i, Place(n, i, m)) = m
      BY <1>1, DibOfPlace
    <3>. QED BY <3>2, <3>3
  <2>2. from(Place(n, i, m)) = m
    BY <2>1 DEF Dib
  <2>. QED BY <1>1, <1>15, <2>1, <2>2
<1>17. b \in Slots(n)
  <2>. SUFFICES ASSUME NEW j \in 0..n - 1 PROVE b[j] \in Entry \cup {Null}
    BY <1>1, <1>15 DEF Slots
  <2>1. PICK m : m = Dib(n, i, j)
    OBVIOUS
  <2>2. m \in 0..n - 1 /\ Place(n, i, m) = j
    <3>1. j \in Int
      OBVIOUS
    <3>2. Dib(n, i, j) \in 0..n - 1
      BY <1>1, <3>1, DibType
    <3>3. Place(n, i, Dib(n, i, j)) = j
      BY <1>1, PlaceOfDib
    <3>. QED BY <2>1, <3>2, <3>3
  <2>3. \A s \in 0..n - 1 : old[s] \in Entry \cup {Null}
    BY <1>2 DEF Slots
  <2>4. m + 1 \in Int
    BY <2>2
  <2>. HIDE DEF old, at
  <2>5. at(m + 1) \in Entry \cup {Null} /\ old[j] \in Entry \cup {Null}
    BY <1>3, <2>3, <2>4
  <2>6. b[j] = IF m < end - 1 THEN at(m + 1)
               ELSE IF m = end - 1 THEN Null ELSE old[j]
    BY <1>16, <2>2
  <2>. QED BY <2>5, <2>6
<1>. HIDE DEF old, at, Ends, from
<1>18. \A m \in 0..end - 2 : b[Place(n, i, m)] = array[Place(n, i, m + 1)]
  BY <1>5, <1>12, <1>16
<1>19. b[Place(n, i, end - 1)] = Null
  BY <1>12, <1>16
<1>20. \A m \in end..n - 1 : b[Place(n, i, m)] = array[Place(n, i, m)]
  <2>. SUFFICES ASSUME NEW m \in end..n - 1
                PROVE  b[Place(n, i, m)] = array[Place(n, i, m)]
    OBVIOUS
  <2>1. m \in 1..n - 1 /\ m \in 0..n - 1 /\ m \in Int
    BY <1>12
  <2>2. b[Place(n, i, m)] = old[Place(n, i, m)]
    BY <1>12, <1>16, <2>1
  <2>. QED BY <1>3, <1>5, <2>1, <2>2
<1>21. \A m \in 1..end - 1 : /\ array[Place(n, i, m)] # Null
                             /\ Dist(array, n, Place(n, i, m)) # 0
  <2>. SUFFICES ASSUME NEW m \in 1..end - 1
                PROVE  /\ array[Place(n, i, m)] # Null
                       /\ Dist(array, n, Place(n, i, m)) # 0
    OBVIOUS
  <2>1. m \in 1..n - 1 /\ ~(end <= m)
    BY <1>12
  <2>. QED BY <1>11, <1>13, <2>1
<1>22. \/ array[Place(n, i, end)] = Null
       \/ Dist(array, n, Place(n, i, end)) = 0
  BY <1>11, <1>12, <1>13
<1>. QED BY <1>12, <1>14, <1>17, <1>18, <1>19, <1>20, <1>21, <1>22 DEF IsShift

(* Every object after the shift is one of before, from an offset of its own. *)
LEMMA ShiftSources ==
    ASSUME NEW n \in Nat \ {0}, NEW a \in Slots(n), NEW i \in 0..n - 1,
           NEW end \in 1..n - 1, NEW b, IsShift(b, a, n, i, end),
           NEW j \in Used(b)
    PROVE  \E f, g \in 0..n - 1 :
              /\ j = Place(n, i, f) /\ b[j] = a[Place(n, i, g)]
              /\ \/ g = f + 1 /\ g < end
                 \/ g = f /\ g >= end
<1>1. j \in 0..n - 1 /\ j \in Int /\ b[j] # Null /\ i \in Int
  BY UsedSlots DEF IsShift
<1>2. PICK f : f = Dib(n, i, j)
  OBVIOUS
<1>3. f \in 0..n - 1
  BY <1>1, <1>2, DibType
<1>4. Place(n, i, f) = j
  BY <1>1, <1>2, PlaceOfDib
<1>5. f # end - 1
  BY <1>1, <1>4 DEF IsShift
<1>6. CASE f \in 0..end - 2
  <2>1. b[j] = a[Place(n, i, f + 1)]
    BY <1>4, <1>6 DEF IsShift
  <2>2. f + 1 \in 0..n - 1 /\ f + 1 < end
    BY <1>3, <1>6
  <2>. QED BY <1>3, <1>4, <2>1, <2>2
<1>7. CASE f \in end..n - 1
  <2>1. b[j] = a[Place(n, i, f)]
    BY <1>4, <1>7 DEF IsShift
  <2>. QED BY <1>3, <1>4, <1>7, <2>1
<1>8. f \in 0..end - 2 \/ f \in end..n - 1
  BY <1>3, <1>5
<1>. QED BY <1>6, <1>7, <1>8

(* Only the object at slot i is gone.                                      *)
LEMMA ShiftKeepsObjects ==
    ASSUME NEW n \in Nat \ {0}, NEW a, IsTable(a, n), NEW i \in Used(a),
           NEW end \in 1..n - 1, NEW b, IsShift(b, a, n, i, end)
    PROVE  /\ IsTable(b, n)
           /\ Used(b) \subseteq Used(a)
           /\ Entries(b) = Entries(a) \ {a[i]}
<1>1. /\ a \in Slots(n) /\ b \in Slots(n) /\ i \in 0..n - 1 /\ i \in Int
      /\ Place(n, i, 0) = i
  BY UsedSlots, PlaceOfHome DEF IsTable, IsShift
<1>2. \A f \in 0..n - 1 : Place(n, i, f) \in 0..n - 1
  <2>. SUFFICES ASSUME NEW f \in 0..n - 1 PROVE Place(n, i, f) \in 0..n - 1
    OBVIOUS
  <2>1. f \in Int
    OBVIOUS
  <2>. QED BY <1>1, <2>1, PlaceType
<1>3. \A j \in Used(b) : \E f, g \in 0..n - 1 :
         /\ j = Place(n, i, f) /\ b[j] = a[Place(n, i, g)]
         /\ \/ g = f + 1 /\ g < end
            \/ g = f /\ g >= end
  BY <1>1, ShiftSources
<1>4. \A f, g \in 0..n - 1 :
         Place(n, i, f) \in Used(a) /\ Place(n, i, g) \in Used(a)
         /\ a[Place(n, i, f)].t.key = a[Place(n, i, g)].t.key => f = g
  <2>. SUFFICES ASSUME NEW f \in 0..n - 1, NEW g \in 0..n - 1,
                       Place(n, i, f) = Place(n, i, g)
                PROVE  f = g
    BY DEF IsTable
  <2>. QED BY <1>1, PlacesDiffer
<1>5. \A j \in Used(b) : \E f, g \in 0..n - 1 :
         /\ j = Place(n, i, f) /\ b[j] = a[Place(n, i, g)]
         /\ Place(n, i, g) \in Used(a) /\ g # 0
         /\ \/ g = f + 1 /\ g < end
            \/ g = f /\ g >= end
  <2>. SUFFICES ASSUME NEW j \in Used(b)
                PROVE  \E f, g \in 0..n - 1 :
                          /\ j = Place(n, i, f) /\ b[j] = a[Place(n, i, g)]
                          /\ Place(n, i, g) \in Used(a) /\ g # 0
                          /\ \/ g = f + 1 /\ g < end
                             \/ g = f /\ g >= end
    OBVIOUS
  <2>1. PICK f \in 0..n - 1, g \in 0..n - 1 :
           /\ j = Place(n, i, f) /\ b[j] = a[Place(n, i, g)]
           /\ \/ g = f + 1 /\ g < end
              \/ g = f /\ g >= end
    BY <1>3
  <2>2. b[j] # Null
    BY <1>1, UsedSlots
  <2>3. Place(n, i, g) \in Used(a)
    BY <1>1, <1>2, <2>1, <2>2, UsedSlots
  <2>4. g # 0
    BY <2>1
  <2>. QED BY <2>1, <2>3, <2>4
<1>6. ASSUME NEW j \in Used(b) PROVE j \in Used(a)
  <2>1. PICK f \in 0..n - 1, g \in 0..n - 1 :
           /\ j = Place(n, i, f) /\ Place(n, i, g) \in Used(a)
           /\ \/ g = f + 1 /\ g < end
              \/ g = f /\ g >= end
    BY <1>5
  <2>2. CASE f = 0
    BY <1>1, <2>1, <2>2
  <2>3. CASE f = g
    BY <2>1, <2>3
  <2>4. CASE f # 0 /\ g = f + 1 /\ g < end
    <3>1. f \in 1..end - 1
      BY <2>4
    <3>2. a[Place(n, i, f)] # Null
      BY <3>1 DEF IsShift
    <3>. QED BY <1>1, <1>2, <2>1, <3>2, UsedSlots
  <2>. QED BY <2>1, <2>2, <2>3, <2>4
<1>7. \A j \in Used(b) : b[j].hash = Hash[b[j].t.key]
  BY <1>5 DEF IsTable
<1>8. ASSUME NEW j \in Used(b), NEW k \in Used(b), b[j].t.key = b[k].t.key
      PROVE  j = k
  <2>1. PICK f \in 0..n - 1, g \in 0..n - 1 :
           /\ j = Place(n, i, f) /\ b[j] = a[Place(n, i, g)]
           /\ Place(n, i, g) \in Used(a)
           /\ \/ g = f + 1 /\ g < end
              \/ g = f /\ g >= end
    BY <1>5
  <2>2. PICK p \in 0..n - 1, q \in 0..n - 1 :
           /\ k = Place(n, i, p) /\ b[k] = a[Place(n, i, q)]
           /\ Place(n, i, q) \in Used(a)
           /\ \/ q = p + 1 /\ q < end
              \/ q = p /\ q >= end
    BY <1>5
  <2>3. g = q
    BY <1>4, <1>8, <2>1, <2>2
  <2>4. f = p
    BY <2>1, <2>2, <2>3
  <2>. QED BY <2>1, <2>2, <2>4
<1>9. ASSUME NEW x \in Entries(b) PROVE x \in Entries(a) \ {a[i]}
  <2>1. PICK j \in Used(b) : x = b[j]
    BY <1>9 DEF Entries
  <2>2. PICK f \in 0..n - 1, g \in 0..n - 1 :
           /\ b[j] = a[Place(n, i, g)] /\ Place(n, i, g) \in Used(a) /\ g # 0
    BY <1>5
  <2>3. 0 \in 0..n - 1
    OBVIOUS
  <2>4. a[Place(n, i, g)] # a[i]
    BY <1>1, <1>4, <2>2, <2>3
  <2>. QED BY <2>1, <2>2, <2>4 DEF Entries
<1>10. ASSUME NEW x \in Entries(a), x # a[i] PROVE x \in Entries(b)
  <2>1. PICK k \in Used(a) : x = a[k]
    BY DEF Entries
  <2>2. k # i /\ k \in 0..n - 1 /\ k \in Int /\ x # Null
    BY <1>1, <1>10, <2>1, UsedSlots
  <2>3. PICK g : g = Dib(n, i, k)
    OBVIOUS
  <2>4. g \in 0..n - 1
    BY <1>1, <2>2, <2>3, DibType
  <2>5. Place(n, i, g) = k
    BY <1>1, <2>2, <2>3, PlaceOfDib
  <2>6. g # 0
    BY <1>1, <2>2, <2>5
  <2>7. CASE g < end
    <3>1. PICK f : f = g - 1
      OBVIOUS
    <3>2. f \in 0..end - 2 /\ f \in 0..n - 1 /\ g = f + 1
      BY <2>4, <2>6, <2>7, <3>1
    <3>3. b[Place(n, i, f)] = x
      BY <2>1, <2>5, <3>2 DEF IsShift
    <3>4. Place(n, i, f) \in Used(b)
      BY <1>1, <1>2, <2>2, <3>2, <3>3, UsedSlots
    <3>. QED BY <3>3, <3>4 DEF Entries
  <2>8. CASE g >= end
    <3>1. g \in end..n - 1
      BY <2>4, <2>8
    <3>2. b[k] = x
      BY <2>1, <2>5, <3>1 DEF IsShift
    <3>3. k \in Used(b)
      BY <1>1, <2>2, <3>2, UsedSlots
    <3>. QED BY <3>2, <3>3 DEF Entries
  <2>9. g < end \/ g >= end
    BY <2>4
  <2>. QED BY <2>7, <2>8, <2>9
<1>11. IsTable(b, n)
  BY <1>1, <1>7, <1>8 DEF IsTable
<1>. QED BY <1>6, <1>9, <1>10, <1>11

LEMMA PlaceBefore ==
    ASSUME NEW n \in Nat \ {0}, NEW i \in Int, NEW f \in Int
    PROVE  /\ Before(n, Place(n, i, f)) = Place(n, i, f - 1)
           /\ \A h \in Int : Dib(n, h, Place(n, i, f)) # 0 =>
                 Dib(n, h, Place(n, i, f - 1)) = Dib(n, h, Place(n, i, f)) - 1
<1>1. PICK m : m = f - 1
  OBVIOUS
<1>2. m \in Int /\ m + 1 = f
  BY <1>1
<1>3. (Place(n, i, m + 1) - 1) % n = Place(n, i, m)
  BY <1>2, PlaceNext
<1>4. ASSUME NEW h \in Int, Dib(n, h, Place(n, i, f)) # 0
      PROVE  Dib(n, h, Place(n, i, f - 1)) = Dib(n, h, Place(n, i, f)) - 1
  <2>1. Dib(n, h, Place(n, i, m + 1))
           = IF Dib(n, h, Place(n, i, m)) = n - 1 THEN 0
             ELSE Dib(n, h, Place(n, i, m)) + 1
    BY <1>2, DibNext, ZenonT(30)
  <2>2. Place(n, i, m) \in 0..n - 1
    BY <1>2, PlaceType
  <2>3. Place(n, i, m) \in Int
    BY <2>2
  <2>4. Dib(n, h, Place(n, i, m)) \in 0..n - 1
    BY <2>3, DibType
  <2>. QED BY <1>1, <1>2, <1>4, <2>1, <2>4
<1>. QED BY <1>1, <1>2, <1>3, <1>4 DEF Before

(* The objects that move come nearer home by one, all of them, and the     *)
(* first that stays behind a moved one was at home.                        *)
LEMMA ShiftKeepsOrder ==
    ASSUME NEW n \in Nat \ {0}, NEW a, IsTable(a, n), Ordered(a, n),
           NEW i \in Used(a),
           NEW end \in 1..n - 1, NEW b, IsShift(b, a, n, i, end)
    PROVE  Ordered(b, n)
<1>1. /\ a \in Slots(n) /\ b \in Slots(n) /\ i \in 0..n - 1 /\ i \in Int
      /\ Place(n, i, 0) = i /\ Before(n, i) = Place(n, i, n - 1)
      /\ a[i] # Null
  BY UsedSlots, PlaceOfHome DEF IsTable, IsShift
<1>2. \A f \in 0..n - 1 : Place(n, i, f) \in 0..n - 1
  <2>. SUFFICES ASSUME NEW f \in 0..n - 1 PROVE Place(n, i, f) \in 0..n - 1
    OBVIOUS
  <2>1. f \in Int
    OBVIOUS
  <2>. QED BY <1>1, <2>1, PlaceType
<1>3. \A p \in 0..n - 1 : a[p] # Null => a[p].hash \in Int /\ p \in Used(a)
  BY <1>1, UsedSlots DEF Entry
<1>4. \A p \in 0..n - 1 : a[p] # Null => Dist(a, n, p) \in 0..n - 1
  BY <1>1, <1>3, DistType
<1>5. \A p \in 0..n - 1 : a[p] # Null => Fits(a, n, p, Dist(a, n, p))
  BY <1>3 DEF Ordered
<1>. SUFFICES ASSUME NEW j \in Used(b), Dist(b, n, j) > 0
              PROVE  /\ b[Before(n, j)] # Null
                     /\ Dist(b, n, Before(n, j)) >= Dist(b, n, j) - 1
  BY DEF Ordered, Fits
<1>6. PICK f \in 0..n - 1, g \in 0..n - 1 :
              /\ j = Place(n, i, f) /\ b[j] = a[Place(n, i, g)]
              /\ \/ g = f + 1 /\ g < end
                 \/ g = f /\ g >= end
  BY <1>1, ShiftSources
<1>7. b[j] # Null /\ f \in Int /\ g \in Int
  BY <1>1, UsedSlots
<1>8. CASE g = f + 1 /\ g < end
  <2>1. g \in 1..end - 1 /\ Place(n, i, g) \in 0..n - 1 /\ g - 1 = f
    BY <1>2, <1>8
  <2>2. PICK p \in 0..n - 1 : p = Place(n, i, g)
    BY <2>1
  <2>3. PICK h : h = a[p].hash
    OBVIOUS
  <2>4. a[p] # Null /\ Dist(a, n, p) # 0 /\ b[j] = a[p] /\ h \in Int
    BY <1>3, <1>6, <2>1, <2>2, <2>3 DEF IsShift
  <2>5. Before(n, p) = j /\ (Dib(n, h, p) # 0 => Dib(n, h, j) = Dib(n, h, p) - 1)
    BY <1>1, <1>6, <1>7, <2>1, <2>2, <2>4, PlaceBefore, ZenonT(30)
  <2>6. Dist(b, n, j) = Dist(a, n, p) - 1
    BY <2>3, <2>4, <2>5 DEF Dist
  <2>7. PICK d \in 0..n - 1 : d = Dist(a, n, p)
    BY <1>4, <2>4
  <2>8. d - 1 > 0 /\ Dist(b, n, j) = d - 1
    BY <2>6, <2>7
  <2>9. a[j] # Null /\ Dist(a, n, j) >= d - 1
    BY <1>5, <2>4, <2>5, <2>7, <2>8 DEF Fits
  <2>10. CASE f = 0
    <3>1. j = i
      BY <1>1, <1>6, <2>10
    <3>2. PICK c : c = Dist(a, n, i)
      OBVIOUS
    <3>3. c \in 0..n - 1 /\ c >= d - 1
      BY <1>1, <1>4, <2>9, <3>1, <3>2
    <3>4. /\ a[Place(n, i, n - 1)] # Null
          /\ Dist(a, n, Place(n, i, n - 1)) >= c - 1
      BY <1>1, <1>5, <2>8, <3>2, <3>3 DEF Fits
    <3>5. n - 1 \in end..n - 1
      OBVIOUS
    <3>6. b[Place(n, i, n - 1)] = a[Place(n, i, n - 1)]
      BY <3>5 DEF IsShift
    <3>7. Dist(b, n, Place(n, i, n - 1)) = Dist(a, n, Place(n, i, n - 1))
      BY <3>6 DEF Dist
    <3>8. n - 1 \in 0..n - 1
      OBVIOUS
    <3>9. Dist(a, n, Place(n, i, n - 1)) \in 0..n - 1
      BY <1>2, <1>4, <3>4, <3>8
    <3>10. Dist(a, n, Place(n, i, n - 1)) >= d - 1 - 1
      BY <3>3, <3>4, <3>9
    <3>. QED BY <1>1, <2>8, <3>1, <3>4, <3>6, <3>7, <3>10
  <2>11. CASE f # 0
    <3>1. PICK m : m = f - 1
      OBVIOUS
    <3>2. m \in 0..end - 2 /\ m + 1 = f /\ f - 1 = m /\ m \in 0..n - 1
      BY <1>8, <2>11, <3>1
    <3>3. PICK k : k = a[j].hash
      OBVIOUS
    <3>4. k \in Int /\ j \in 0..n - 1
      BY <1>2, <1>3, <1>6, <2>9, <3>3
    <3>5. Before(n, j) = Place(n, i, m)
          /\ (Dib(n, k, j) # 0 => Dib(n, k, Place(n, i, m)) = Dib(n, k, j) - 1)
      <4>1. /\ Before(n, Place(n, i, f)) = Place(n, i, f - 1)
            /\ Dib(n, k, Place(n, i, f)) # 0 =>
                  Dib(n, k, Place(n, i, f - 1)) = Dib(n, k, Place(n, i, f)) - 1
        BY <1>1, <1>7, <3>4, PlaceBefore, ZenonT(30)
      <4>. QED BY <1>6, <3>1, <4>1
    <3>6. b[Place(n, i, m)] = a[j]
      BY <1>6, <3>2 DEF IsShift
    <3>7. PICK c : c = Dist(a, n, j)
      OBVIOUS
    <3>8. c \in 0..n - 1 /\ c >= d - 1 /\ c # 0
      BY <1>4, <2>8, <2>9, <3>4, <3>7
    <3>9. Dist(b, n, Place(n, i, m)) = c - 1
      BY <3>3, <3>5, <3>6, <3>7, <3>8 DEF Dist
    <3>10. c - 1 >= d - 1 - 1
      BY <3>8
    <3>. QED BY <2>8, <2>9, <3>5, <3>6, <3>9, <3>10
  <2>. QED BY <2>10, <2>11
<1>9. CASE g = f /\ g >= end
  <2>1. f \in end..n - 1 /\ f \in 0..n - 1 /\ j \in 0..n - 1
    BY <1>2, <1>6, <1>9
  <2>2. b[j] = a[j] /\ a[j] # Null
    BY <1>6, <1>7, <1>9
  <2>3. Dist(b, n, j) = Dist(a, n, j)
    BY <2>2 DEF Dist
  <2>4. f # end
    BY <1>6, <2>2, <2>3 DEF IsShift
  <2>5. a[Before(n, j)] # Null /\ Dist(a, n, Before(n, j)) >= Dist(a, n, j) - 1
    BY <1>5, <2>1, <2>2, <2>3 DEF Fits
  <2>6. Before(n, j) = Place(n, i, f - 1)
    BY <1>1, <1>6, <1>7, PlaceBefore
  <2>7. f - 1 \in end..n - 1
    BY <2>1, <2>4
  <2>8. b[Before(n, j)] = a[Before(n, j)]
    BY <2>6, <2>7 DEF IsShift
  <2>9. Dist(b, n, Before(n, j)) = Dist(a, n, Before(n, j))
    BY <2>8 DEF Dist
  <2>. QED BY <2>3, <2>5, <2>8, <2>9
<1>. QED BY <1>6, <1>8, <1>9

LEMMA EraseTakesOut ==
    ASSUME IInv, NEW i \in Used(array), Erase(i)
    PROVE  IInv' /\ Entries(array') = Entries(array) \ {array[i]}
<1>1. array # <<>>
  BY NoSlots
<1>2. PICK n : n = mask + 1
  OBVIOUS
<1>3. /\ n \in Nat \ {0} /\ n \in {2^k : k \in 0..29} /\ n <= MaxSize
      /\ IsTable(array, n) /\ Ordered(array, n) /\ array \in Slots(n)
      /\ Cardinality(Used(array)) < n /\ Cardinality(Used(array)) <= num
      /\ mask = n - 1 /\ num \in 0..n /\ num \in Nat
  <2>1. /\ n \in Nat \ {0} /\ n \in {2^k : k \in 0..29}
        /\ IsTable(array, n) /\ Ordered(array, n) /\ array \in Slots(n)
        /\ Cardinality(Used(array)) < n /\ Cardinality(Used(array)) <= num
        /\ mask \in Nat /\ mask \in 0..MaxSize - 1 /\ num \in Nat
    BY <1>1, <1>2, IInvFacts
  <2>2. num \in 0..n
    BY <1>2 DEF IInv, TypeOK
  <2>3. n <= MaxSize /\ mask = n - 1
    BY <1>2, <2>1, SizeAssumption
  <2>. QED BY <2>1, <2>2, <2>3
<1>4. PICK end \in 1..n - 1 : IsShift(Erased(i), array, n, i, end)
  BY <1>2, <1>3, ErasedIsShift
<1>5. /\ IsTable(array', n) /\ Used(array') \subseteq Used(array)
      /\ Entries(array') = Entries(array) \ {array[i]}
  BY <1>3, <1>4, ShiftKeepsObjects DEF Erase
<1>6. Ordered(array', n)
  BY <1>3, <1>4, ShiftKeepsOrder DEF Erase
<1>7. array' \in Slots(n)
  BY <1>5 DEF IsTable
<1>8. /\ IsFiniteSet(Used(array)) /\ Cardinality(Used(array)) \in Nat
      /\ Cardinality(Used(array')) \in Nat
  BY <1>3, <1>7, UsedSlots
<1>9. Cardinality(Used(array')) <= Cardinality(Used(array))
  BY <1>5, <1>8, FS_Subset
<1>10. /\ mask' = n - 1 /\ num' = num /\ result' = Null /\ fault' = "none"
  BY <1>3 DEF Erase, Running
<1>11. /\ num' \in 0..n /\ Cardinality(Used(array')) <= num'
       /\ Cardinality(Used(array')) < n
  BY <1>3, <1>8, <1>9, <1>10
<1>12. call' \in Call
  <2>1. array[i].t \in Obj
    BY <1>3, UsedSlots DEF Slots, Entry, Used
  <2>. QED BY <2>1 DEF Erase, Call
<1>13. IInv'
  BY <1>3, <1>5, <1>6, <1>10, <1>11, <1>12, TableIsIInv
<1>. QED BY <1>5, <1>13

-----------------------------------------------------------------------------
(* find() and shutdown(), and every step.                                  *)

LEMMA FindFinds ==
    ASSUME IInv, NEW k \in Key, Find(k)
    PROVE  /\ IInv' /\ UNCHANGED table /\ call' = <<"find", k>>
           /\ \/ \E x \in Entries(array) : x.t.key = k /\ result' = x.t
              \/ (\A x \in Entries(array) : x.t.key # k) /\ result' = Null
<1>. DEFINE slot(m) == array[(Hash[k] + m) % (mask + 1)]
            stops == {m \in 0..mask :
                         \/ slot(m) = Null
                         \/ slot(m).hash = Hash[k] /\ slot(m).t.key = k}
            stop == slot(Least(stops))
<1>1. PICK n : n = mask + 1
  OBVIOUS
<1>2. /\ n \in Nat \ {0} /\ mask = n - 1 /\ 0..mask = 0..n - 1
      /\ IsTable(array, n) /\ Ordered(array, n) /\ array \in Slots(n)
      /\ Cardinality(Used(array)) < n
  <2>1. array # <<>>
    BY DEF Find
  <2>2. /\ n \in Nat \ {0} /\ IsTable(array, n) /\ Ordered(array, n)
        /\ array \in Slots(n) /\ Cardinality(Used(array)) < n /\ mask \in Nat
    BY <1>1, <2>1, IInvFacts
  <2>3. mask = n - 1
    BY <1>1, <2>2
  <2>. QED BY <2>2, <2>3
<1>3. Hash[k] \in Int
  BY HashAssumption
<1>4. \A m \in 0..n - 1 : /\ slot(m) = array[Place(n, Hash[k], m)]
                          /\ Place(n, Hash[k], m) \in 0..n - 1
  <2>. SUFFICES ASSUME NEW m \in 0..n - 1
                PROVE  /\ slot(m) = array[Place(n, Hash[k], m)]
                       /\ Place(n, Hash[k], m) \in 0..n - 1
    OBVIOUS
  <2>1. m \in Int
    OBVIOUS
  <2>2. Place(n, Hash[k], m) \in 0..n - 1
    BY <1>2, <1>3, <2>1, PlaceType
  <2>. QED BY <1>1, <2>2 DEF Place
<1>5. \A m \in 0..n - 1 :
         /\ slot(m) \in Entry \cup {Null}
         /\ slot(m) # Null => slot(m) \in Entries(array)
  BY <1>2, <1>4, UsedSlots DEF Slots, Entries
<1>6. \A m : m \in stops <=>
         /\ m \in 0..n - 1
         /\ slot(m) = Null \/ (slot(m).hash = Hash[k] /\ slot(m).t.key = k)
  BY <1>2
<1>7. stops # {}
  <2>1. PICK s \in 0..n - 1 : array[s] = Null
    BY <1>2, EmptySlot
  <2>2. PICK m : m = Dib(n, Hash[k], s)
    OBVIOUS
  <2>3. s \in Int
    OBVIOUS
  <2>4. m \in 0..n - 1
    BY <1>2, <1>3, <2>2, <2>3, DibType
  <2>5. Place(n, Hash[k], m) = s
    BY <1>2, <1>3, <2>2, PlaceOfDib
  <2>6. slot(m) = Null
    BY <1>4, <2>1, <2>4, <2>5
  <2>. QED BY <1>6, <2>4, <2>6
<1>8. /\ result' = IF stop = Null THEN Null ELSE stop.t
      /\ fault' = "none" /\ UNCHANGED table /\ call' = <<"find", k>>
  BY <1>7 DEF Find, Running
<1>. HIDE DEF slot
<1>9. Least(stops) \in stops /\ \A m \in stops : Least(stops) <= m
  <2>1. stops \subseteq Nat
    BY <1>2
  <2>. HIDE DEF stops
  <2>. QED BY <1>7, <2>1, LeastIs
<1>. HIDE DEF stops
<1>10. PICK s : s = Least(stops)
  OBVIOUS
<1>11. /\ s \in 0..n - 1 /\ stop = slot(s)
       /\ slot(s) = Null \/ (slot(s).hash = Hash[k] /\ slot(s).t.key = k)
       /\ \A m \in stops : s <= m
  BY <1>6, <1>9, <1>10
<1>12. result' = IF slot(s) = Null THEN Null ELSE slot(s).t
  BY <1>8, <1>11
<1>. HIDE DEF stop
<1>13. ASSUME NEW x \in Entries(array), x.t.key = k PROVE slot(s) # Null
  <2>1. PICK i \in Used(array) : x = array[i]
    BY DEF Entries
  <2>2. array[i].t.key = k /\ array[i].hash = Hash[k]
    BY <1>2, <1>13, <2>1 DEF IsTable
  <2>3. PICK m \in 0..n - 1 :
           /\ i = Place(n, Hash[array[i].t.key], m)
           /\ \A j \in 0..m :
                 /\ array[Place(n, Hash[array[i].t.key], j)] # Null
                 /\ Dist(array, n, Place(n, Hash[array[i].t.key], j)) >= j
    BY <1>2, WayToKey
  <2>4. i = Place(n, Hash[k], m)
        /\ \A j \in 0..m : array[Place(n, Hash[k], j)] # Null
    BY <2>2, <2>3
  <2>5. m \in stops
    BY <1>4, <1>6, <2>2, <2>4
  <2>6. s \in 0..m
    BY <1>11, <2>5
  <2>. QED BY <1>4, <1>11, <2>4, <2>6
<1>14. \/ \E x \in Entries(array) : x.t.key = k /\ result' = x.t
       \/ (\A x \in Entries(array) : x.t.key # k) /\ result' = Null
  <2>1. CASE slot(s) = Null
    BY <1>12, <1>13, <2>1
  <2>2. CASE slot(s) # Null
    BY <1>5, <1>11, <1>12, <2>2
  <2>. QED BY <2>1, <2>2
<1>15. result' \in Obj \cup {Null}
  BY <1>5, <1>11, <1>12 DEF Entry
<1>16. IInv'
  <2>1. call' \in Call
    BY <1>8 DEF Call
  <2>. QED BY <1>8, <1>15, <2>1 DEF IInv, table, TypeOK, WalksEnd
<1>. QED BY <1>8, <1>14, <1>16

LEMMA ShutdownEmpties ==
    ASSUME IInv, Shutdown
    PROVE  IInv' /\ Entries(array') = {} /\ result' = Null
<1>1. Used(array') = {} /\ Entries(array') = {}
  BY NoSlots DEF Shutdown
<1>2. Cardinality(Used(array')) = 0
  BY <1>1, FS_EmptySet
<1>3. call' \in Call
  BY DEF Shutdown, Call
<1>. QED BY <1>1, <1>2, <1>3, SizeAssumption
         DEF Shutdown, Running, IInv, TypeOK, WalksEnd

LEMMA StepKeepsIInv == ASSUME IInv, [Next]_vars PROVE IInv'
<1>1. CASE \E o \in Obj : Insert(o)
  BY <1>1, InsertPutsIn
<1>2. CASE \E k \in Key : Find(k)
  BY <1>2, FindFinds
<1>3. CASE \E i \in DOMAIN array : Erase(i)
  <2>1. PICK i : i \in Used(array) /\ Erase(i)
    BY <1>3 DEF Erase
  <2>. QED BY <2>1, EraseTakesOut
<1>4. CASE Shutdown
  BY <1>4, ShutdownEmpties
<1>5. CASE UNCHANGED vars
  BY <1>5 DEF vars, IInv, TypeOK, WalksEnd
<1>. QED BY <1>1, <1>2, <1>3, <1>4, <1>5 DEF Next

-----------------------------------------------------------------------------
(* What the calls of a client can never bring about.                       *)

(* The inductive invariant: the types, an empty slot within num's count,   *)
(* distinct keys under their true hashes, and Robin Hood order, through    *)
(* every insert(), with or without rehash_(), erase() and shutdown().      *)
THEOREM IInvHolds == Spec => []IInv
BY InitIsIInv, StepKeepsIInv, PTL DEF Spec

(* The number of slots stays a power of two, mask one less, num at most    *)
(* the number of slots, and each slot empty or with an object, whatever is *)
(* inserted, erased and grown.                                             *)
THEOREM SlotsKeepTheirShape == Spec => []TypeOK
<1>1. IInv => TypeOK
  BY DEF IInv
<1>. QED BY <1>1, IInvHolds, PTL

(* No call runs around the table forever and no assert of insert_() fails: *)
(* 9 * mask / 10 leaves an empty slot at every size the code can reach,    *)
(* the smallest ones too, although erase() does not count num down.        *)
THEOREM WalksAlwaysEnd == Spec => []WalksEnd
<1>1. IInv => WalksEnd
  BY DEF IInv
<1>. QED BY <1>1, IInvHolds, PTL

(* An object that is not at home is behind one at most a step nearer home, *)
(* after every displacing insert, wrapping erase and rehash.               *)
THEOREM RobinHoodOrder == Spec => []RobinHood
<1>1. IInv => RobinHood
  BY InOrder
<1>. QED BY <1>1, IInvHolds, PTL

-----------------------------------------------------------------------------
(* Refinement.                                                             *)

objs == {array[i].t : i \in Used(array)}

LEMMA ObjsOfEntries == objs = {x.t : x \in Entries(array)}
BY DEF objs, Entries

LEMMA StepIsDictionary ==
    ASSUME IInv, [Next]_vars
    PROVE  [D!DictNext]_<<objs, call, result>>
<1>1. objs = {x.t : x \in Entries(array)} /\ objs' = {x.t : x \in Entries(array')}
  BY ObjsOfEntries DEF objs, Entries
<1>2. \A k : D!WithKey(k) = {o \in objs : o.key = k}
  BY DEF D!WithKey, objs
<1>3. ASSUME NEW o \in Obj, Insert(o) PROVE D!Insert(o)
  <2>1. CASE /\ \A x \in Entries(array) : x.t.key # o.key
             /\ \E x \in Entry :
                    x.t = o /\ Entries(array') = Entries(array) \cup {x}
             /\ result' = o
    <3>1. D!WithKey(o.key) = {}
      BY <1>1, <1>2, <2>1
    <3>2. objs' = objs \cup {o}
      BY <1>1, <2>1
    <3>. QED BY <1>3, <2>1, <3>1, <3>2 DEF Insert, D!Insert, objs
  <2>2. CASE /\ Entries(array') = Entries(array)
             /\ \E x \in Entries(array) : x.t = result' /\ x.t.key = o.key
    <3>1. result' \in D!WithKey(o.key)
      BY <1>1, <1>2, <2>2
    <3>2. objs' = objs
      BY <1>1, <2>2
    <3>. QED BY <1>3, <3>1, <3>2 DEF Insert, D!Insert, objs
  <2>. QED BY <1>3, <2>1, <2>2, InsertPutsIn
<1>4. ASSUME NEW k \in Key, Find(k) PROVE \E o \in Obj : D!Find(o.key)
  <2>1. PICK c \in Copies : TRUE
    BY CopiesAssumption
  <2>2. PICK o : o = [key |-> k, copy |-> c]
    OBVIOUS
  <2>3. o \in Obj /\ o.key = k
    BY <2>2 DEF Obj
  <2>4. /\ UNCHANGED table /\ call' = <<"find", k>>
        /\ \/ \E x \in Entries(array) : x.t.key = k /\ result' = x.t
           \/ (\A x \in Entries(array) : x.t.key # k) /\ result' = Null
    BY <1>4, FindFinds
  <2>5. objs' = objs
    BY <2>4 DEF table, objs
  <2>6. IF D!WithKey(k) = {} THEN result' = Null ELSE result' \in D!WithKey(k)
    BY <1>1, <1>2, <2>4
  <2>. QED BY <2>3, <2>4, <2>5, <2>6 DEF D!Find, objs
<1>5. ASSUME NEW i \in Used(array), Erase(i) PROVE \E o \in objs : D!Erase(o)
  <2>1. Entries(array') = Entries(array) \ {array[i]} /\ result' = Null
    BY <1>5, EraseTakesOut DEF Erase
  <2>2. IsTable(array, mask + 1)
    BY NoSlots, IInvFacts
  <2>3. \A x \in Entries(array) : x.t = array[i].t => x = array[i]
    BY <2>2 DEF IsTable, Entries
  <2>4. array[i].t \in objs
    BY DEF objs
  <2>5. objs' = objs \ {array[i].t}
    BY <1>1, <2>1, <2>3
  <2>6. call' = <<"erase", array[i].t>>
    BY <1>5 DEF Erase
  <2>. QED BY <2>1, <2>4, <2>5, <2>6 DEF D!Erase, objs
<1>6. ASSUME Shutdown PROVE D!Shutdown
  <2>1. Entries(array') = {} /\ result' = Null
    BY <1>6, ShutdownEmpties
  <2>2. call' = <<"shutdown", Null>>
    BY <1>6 DEF Shutdown
  <2>. QED BY <1>1, <2>1, <2>2 DEF D!Shutdown, objs
<1>7. CASE \E o \in Obj : Insert(o)
  BY <1>3, <1>7 DEF D!DictNext, objs
<1>8. CASE \E k \in Key : Find(k)
  BY <1>4, <1>8 DEF D!DictNext, objs
<1>9. CASE \E i \in DOMAIN array : Erase(i)
  <2>1. PICK i : i \in Used(array) /\ Erase(i)
    BY <1>9 DEF Erase
  <2>. QED BY <1>5, <2>1 DEF D!DictNext, objs
<1>10. CASE Shutdown
  BY <1>6, <1>10 DEF D!DictNext
<1>11. CASE UNCHANGED vars
  BY <1>11 DEF vars, objs
<1>. QED BY <1>7, <1>8, <1>9, <1>10, <1>11 DEF Next

(* For any hashes, any number of keys and copies of them, and any sizes    *)
(* below 2^29, every call of hashtable.h does what a dictionary's call of  *)
(* that name does with the same key or object: find() returns the object   *)
(* inserted and not erased that has this very key, insert() returns its    *)
(* object or the one that has its key already, and erase() takes out the   *)
(* object of its entry and no other.                                       *)
THEOREM HashTableImplementsDictionary == Spec => IsDictionary
<1>1. Init => D!DictInit
  <2>1. Init => objs = {}
    BY NoSlots DEF Init, objs
  <2>. QED BY <2>1 DEF Init, D!DictInit, objs
<1>2. IInv /\ [Next]_vars => [D!DictNext]_<<objs, call, result>>
  BY StepIsDictionary
<1>. QED
  BY <1>1, <1>2, IInvHolds, PTL DEF Spec, IsDictionary, D!DictSpec, objs
=============================================================================
