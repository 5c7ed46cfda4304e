---------------------------- MODULE HconfProofs ----------------------------
(***************************************************************************)
(* Proofs about Hconf: for headers of any length, whatever commands pass,  *)
(* the first branch that passes is chosen and its flags alone are kept, if *)
(* no command fails without a line of output.                              *)
(***************************************************************************)
EXTENDS Hconf, SequenceTheorems, TLAPS

BranchRec ==
    [name : Branch, ok : BOOLEAN, vars : SUBSET Nat, bucket : SUBSET Nat,
     link : BOOLEAN, exec : BOOLEAN, line : Nat]
ModuleRec == [name : Module, branch : BranchRec \cup {NoBranch}]
Trying == pc \in {"compile", "link", "exec"}
AtGuard == AtEnd \/ IsGuard(line)

TypeInv ==
    /\ lines \in Seq(Guard \cup Comment) /\ line \in 1..Len(lines) + 1
    /\ modules \in Seq(ModuleRec)
    /\ pc \in {"scan", "compile", "link", "exec", "exit success", "exit failure"}
    /\ truth \in [DOMAIN lines -> {"untried", "passes", "fails"}]

(* A module's branch has been kept, or is being tried.                     *)
Won(i) ==
    /\ modules[i].branch # NoBranch
    /\ modules[i].branch.ok \/ (i = Len(modules) /\ Trying)

(* The modules are those of the guards read so far, the last one is that   *)
(* of the nearest guard.                                                   *)
NamesInv ==
    /\ modules = <<>> <=> \A j \in 1..line - 1 : ~IsGuard(j)
    /\ modules # <<>> =>
        /\ NearestGuard(line) # {}
        /\ \A j \in NearestGuard(line) : lines[j].module = Last(modules).name

(* A module is without a branch only in the moment between a failed try    *)
(* and the guard or the end of the file that caused it, so no variable and *)
(* no try finds none.                                                      *)
LastInv ==
    /\ modules # <<>> =>
        /\ LastBranch = NoBranch => pc \in {"scan", "exit failure"} /\ AtGuard
        /\ LastBranch # NoBranch /\ ~LastBranch.ok =>
            /\ LastBranch.line \in NearestGuard(line)
            /\ LastBranch.vars =
                 {k \in LastBranch.line + 1..line - 1 : lines[k].kind # "text"}
    /\ Trying =>
        modules # <<>> /\ LastBranch # NoBranch /\ ~LastBranch.ok /\ AtGuard

(* A branch is that of a guard read; only the last may not be kept yet.    *)
BranchesInv ==
    \A i \in DOMAIN modules : LET b == modules[i].branch IN
        /\ b # NoBranch =>
            /\ b.line \in 1..line - 1 /\ IsGuard(b.line)
            /\ b.name = lines[b.line].branch
            /\ modules[i].name = lines[b.line].module
        /\ i # Len(modules) => b # NoBranch /\ b.ok

(* Every branch has a guard of its own.                                    *)
OrderInv ==
    \A i, j \in DOMAIN modules :
        i # j /\ modules[i].branch # NoBranch /\ modules[j].branch # NoBranch =>
            modules[i].branch.line # modules[j].branch.line

(* The guards of a module up to the one that passes, and before that up to *)
(* the one that is to be tried.                                            *)
Settled(s) ==
    \E j \in DOMAIN lines : SameBlock(s, j) /\ \A k \in DOMAIN lines : SameBlock(s, k) =>
        truth[k] = IF k < j THEN "fails" ELSE IF k = j THEN "passes" ELSE "untried"

ToTry == IF LastBranch = NoBranch THEN line ELSE LastBranch.line
Pending(s) ==
    \A k \in DOMAIN lines : SameBlock(s, k) =>
        truth[k] = IF k < ToTry THEN "fails" ELSE "untried"

Starts == {s \in 1..line - 1 : StartsModule(s)}
IsCurrent(s) == \A k \in s + 1..line - 1 : ~StartsModule(k)

UntriedInv ==
    \A k \in DOMAIN lines : k >= line \/ ~IsGuard(k) => truth[k] = "untried"

PassedInv ==
    \A k \in DOMAIN lines :
        truth[k] = "passes" <=> \E i \in DOMAIN modules : Won(i) /\ modules[i].branch.line = k

BlocksInv ==
    /\ modules # <<>> => \E s \in Starts : IsCurrent(s)
    /\ \A s \in Starts :
        IF IsCurrent(s) /\ ~Won(Len(modules)) THEN Pending(s) ELSE Settled(s)

(* The flags below a guard, and what the buckets of kept branches hold.    *)
Own(j) == {k \in DOMAIN lines : lines[k].kind = "flag" /\ j \in NearestGuard(k)}

BucketInv ==
    \A i \in DOMAIN modules : Won(i) =>
        /\ Own(modules[i].branch.line) \subseteq modules[i].branch.bucket
        /\ \A k \in modules[i].branch.bucket :
            k = Base \/ \E h \in 1..i : Won(h) /\ k \in Own(modules[h].branch.line)

ExitInv ==
    /\ pc = "exit failure" => IF modules = <<>> THEN AtEnd ELSE LastBranch = NoBranch
    /\ pc = "exit success" =>
        /\ AtEnd /\ modules # <<>> /\ LastBranch # NoBranch /\ LastBranch.ok
        /\ header = {<<modules[i].name, modules[i].branch.name>> : i \in DOMAIN modules}
        /\ hconf = {Base} \cup UNION {Own(modules[i].branch.line) : i \in DOMAIN modules}

IInv ==
    /\ TypeInv /\ NamesInv /\ LastInv /\ BranchesInv /\ OrderInv
    /\ UntriedInv /\ PassedInv /\ BlocksInv /\ BucketInv /\ ExitInv

-----------------------------------------------------------------------------
(* Records of branches, one change each.                                   *)

LEMMA NoBranchIsNone == NoBranch \notin BranchRec
<1>. SUFFICES ASSUME NoBranch \in BranchRec PROVE FALSE
  OBVIOUS
<1>1. "ok" \in DOMAIN NoBranch
  BY DEF BranchRec
<1>. QED BY <1>1 DEF NoBranch

LEMMA BranchOk ==
    ASSUME NEW b \in BranchRec
    PROVE  LET c == [b EXCEPT !.ok = TRUE]
           IN  /\ c \in BranchRec /\ c.ok /\ c.name = b.name /\ c.vars = b.vars
               /\ c.bucket = b.bucket /\ c.line = b.line
BY Zenon DEF BranchRec

LEMMA BranchVars ==
    ASSUME NEW b \in BranchRec, NEW k \in Nat
    PROVE  LET c == [b EXCEPT !.vars = @ \cup {k}]
           IN  /\ c \in BranchRec /\ c.ok = b.ok /\ c.name = b.name
               /\ c.vars = b.vars \cup {k} /\ c.bucket = b.bucket /\ c.line = b.line
<1>1. b.vars \cup {k} \in SUBSET Nat
  BY DEF BranchRec
<1>. QED BY <1>1, Zenon DEF BranchRec

LEMMA BranchBucket ==
    ASSUME NEW b \in BranchRec, NEW S \in SUBSET Nat
    PROVE  LET c == [b EXCEPT !.bucket = S]
           IN  /\ c \in BranchRec /\ c.ok = b.ok /\ c.name = b.name
               /\ c.vars = b.vars /\ c.bucket = S /\ c.line = b.line
BY Zenon DEF BranchRec

LEMMA BranchResolved ==
    ASSUME NEW b \in BranchRec
    PROVE  LET c == Resolved(b)
           IN  /\ c \in BranchRec /\ c.ok = b.ok /\ c.name = b.name
               /\ c.vars = b.vars /\ c.bucket = Flags(b) /\ c.line = b.line
<1>1. /\ Flags(b) \in SUBSET Nat /\ NoOption(b, "nolink") \in BOOLEAN
      /\ NoOption(b, "noexec") \in BOOLEAN
  BY DEF BranchRec, Flags, NoOption
<1>. HIDE DEF Flags, NoOption
<1>. QED BY <1>1, Zenon DEF Resolved, BranchRec

(* A new branch for the last module.                                       *)
Changed(m, b) == [m EXCEPT ![Len(m)].branch = b]

LEMMA ChangedLast ==
    ASSUME NEW m \in Seq(ModuleRec), m # <<>>, NEW b \in BranchRec \cup {NoBranch}
    PROVE  LET c == Changed(m, b)
           IN  /\ c \in Seq(ModuleRec) /\ c # <<>> /\ Len(c) = Len(m)
               /\ DOMAIN c = DOMAIN m /\ Len(m) \in DOMAIN m
               /\ \A i \in DOMAIN m : c[i].name = m[i].name
               /\ \A i \in DOMAIN m : i # Len(m) => c[i] = m[i]
               /\ c[Len(m)].branch = b
<1>1. Len(m) \in Nat \ {0} /\ DOMAIN m = 1..Len(m) /\ \A i \in 1..Len(m) : m[i] \in ModuleRec
  OBVIOUS
<1>. DEFINE last == [m[Len(m)] EXCEPT !.branch = b]
            c == [m EXCEPT ![Len(m)] = last]
<1>2. m[Len(m)] \in ModuleRec
  BY <1>1
<1>3. last \in ModuleRec /\ last.name = m[Len(m)].name /\ last.branch = b
  BY <1>2 DEF ModuleRec
<1>. HIDE DEF last
<1>4. /\ c \in Seq(ModuleRec) /\ Len(c) = Len(m) /\ DOMAIN c = DOMAIN m
      /\ \A i \in DOMAIN m : c[i] = IF i = Len(m) THEN last ELSE m[i]
  BY <1>1, <1>3
<1>5. c # <<>> /\ Len(m) \in DOMAIN m
  BY <1>1, <1>4
<1>6. c = Changed(m, b)
  BY DEF Changed, last
<1>. HIDE DEF c
<1>. QED BY <1>3, <1>4, <1>5, <1>6

-----------------------------------------------------------------------------
(* The guards before a line.                                               *)

LEMMA NearestMoves ==
    ASSUME NEW i \in Nat \ {0}
    PROVE  NearestGuard(i + 1) = IF IsGuard(i) THEN {i} ELSE NearestGuard(i)
<1>1. CASE IsGuard(i)
  <2>1. i \in NearestGuard(i + 1)
    BY <1>1 DEF NearestGuard
  <2>2. \A j \in 1..i - 1 : ~(\A k \in j + 1..i : ~IsGuard(k))
    BY <1>1
  <2>3. \A j \in NearestGuard(i + 1) : j \in 1..i /\ (j # i => j \in 1..i - 1)
    BY DEF NearestGuard
  <2>4. \A j \in NearestGuard(i + 1) : \A k \in j + 1..i : ~IsGuard(k)
    BY DEF NearestGuard
  <2>. QED BY <1>1, <2>1, <2>2, <2>3, <2>4
<1>2. CASE ~IsGuard(i)
  <2>1. ASSUME NEW j \in 1..i - 1
        PROVE  (\A k \in j + 1..i - 1 : ~IsGuard(k)) <=> (\A k \in j + 1..i : ~IsGuard(k))
    <3>1. \A k \in j + 1..i : k \in j + 1..i - 1 \/ k = i
      OBVIOUS
    <3>2. \A k \in j + 1..i - 1 : k \in j + 1..i
      OBVIOUS
    <3>. QED BY <1>2, <3>1, <3>2
  <2>2. \A j : j \in NearestGuard(i + 1) => j \in 1..i - 1
    <3>1. \A j \in 1..i : j \in 1..i - 1 \/ j = i
      OBVIOUS
    <3>. QED BY <1>2, <3>1 DEF NearestGuard
  <2>3. \A j : j \in NearestGuard(i) => j \in 1..i
    BY DEF NearestGuard
  <2>. QED BY <1>2, <2>1, <2>2, <2>3 DEF NearestGuard
<1>. QED BY <1>1, <1>2

(* The guard before a line belongs to the current block, to no other.      *)
LEMMA CurrentBlock ==
    ASSUME NEW n \in Nat, NEW s \in 1..n - 1, StartsModule(s),
           NEW f \in NearestGuard(n)
    PROVE  /\ f \in 1..n - 1 /\ IsGuard(f) /\ s <= f
           /\ (\A k \in s + 1..n - 1 : ~StartsModule(k)) <=> SameBlock(s, f)
<1>1. /\ f \in 1..n - 1 /\ IsGuard(f) /\ \A k \in f + 1..n - 1 : ~IsGuard(k)
      /\ IsGuard(s)
  BY DEF NearestGuard, StartsModule
<1>2. s <= f
  <2>1. s > f => s \in f + 1..n - 1
    BY <1>1
  <2>. QED BY <1>1, <2>1
<1>3. ASSUME \A k \in s + 1..n - 1 : ~StartsModule(k) PROVE SameBlock(s, f)
  <2>1. \A k \in s + 1..f : k \in s + 1..n - 1
    BY <1>1
  <2>. QED BY <1>1, <1>2, <1>3, <2>1 DEF SameBlock
<1>4. ASSUME SameBlock(s, f), NEW k \in s + 1..n - 1 PROVE ~StartsModule(k)
  <2>1. CASE k <= f
    <3>1. k \in s + 1..f
      BY <1>1, <2>1
    <3>. QED BY <1>4, <3>1 DEF SameBlock, StartsModule
  <2>2. CASE k > f
    <3>1. k \in f + 1..n - 1
      BY <1>1, <2>2
    <3>. QED BY <1>1, <3>1 DEF StartsModule
  <2>. QED BY <1>1, <2>1, <2>2
<1>. QED BY <1>1, <1>2, <1>3, <1>4

LEMMA LineNumbers ==
    ASSUME TypeInv
    PROVE  /\ Len(lines) \in Nat /\ DOMAIN lines = 1..Len(lines)
           /\ line \in Nat \ {0} /\ line <= Len(lines) + 1
           /\ Len(modules) \in Nat /\ DOMAIN modules = 1..Len(modules)
<1>1. lines \in Seq(Guard \cup Comment) /\ modules \in Seq(ModuleRec)
  BY DEF TypeInv
<1>2. Len(lines) \in Nat /\ DOMAIN lines = 1..Len(lines)
  BY <1>1, LenProperties
<1>3. Len(modules) \in Nat /\ DOMAIN modules = 1..Len(modules)
  BY <1>1, LenProperties
<1>4. line \in 1..Len(lines) + 1
  BY DEF TypeInv
<1>. QED BY <1>2, <1>3, <1>4

LEMMA NearestOne ==
    ASSUME NEW n \in Nat, NEW i \in NearestGuard(n), NEW j \in NearestGuard(n)
    PROVE  i = j
<1>1. /\ i \in 1..n - 1 /\ j \in 1..n - 1 /\ IsGuard(i) /\ IsGuard(j)
      /\ \A k \in i + 1..n - 1 : ~IsGuard(k)
      /\ \A k \in j + 1..n - 1 : ~IsGuard(k)
  BY DEF NearestGuard
<1>2. ~(i < j)
  <2>1. i < j => j \in i + 1..n - 1
    BY <1>1
  <2>. QED BY <1>1, <2>1
<1>3. ~(j < i)
  <2>1. j < i => i \in j + 1..n - 1
    BY <1>1
  <2>. QED BY <1>1, <2>1
<1>. QED BY <1>1, <1>2, <1>3

(* main() compares a guard with the last module only, and by that knows    *)
(* whether a block starts.                                                 *)
LEMMA GuardStarts ==
    ASSUME IInv, ~AtEnd, IsGuard(line)
    PROVE  StartsModule(line) <=> ~SameModule
<1>. USE DEF IInv, TypeInv
<1>1. CASE modules = <<>>
  <2>1. NearestGuard(line) = {}
    BY <1>1 DEF NamesInv, NearestGuard
  <2>. QED BY <1>1, <2>1 DEF StartsModule, SameModule
<1>2. CASE modules # <<>>
  <2>1. PICK j \in NearestGuard(line) : lines[j].module = Last(modules).name
    BY <1>2 DEF NamesInv
  <2>2. line \in Nat
    BY LineNumbers
  <2>3. NearestGuard(line) = {j}
    <3>1. \A i \in NearestGuard(line) : i = j
      BY <2>1, <2>2, NearestOne
    <3>. QED BY <2>1, <3>1
  <2>. QED BY <1>2, <2>1, <2>3 DEF StartsModule, SameModule
<1>. QED BY <1>1, <1>2

-----------------------------------------------------------------------------
(* What does not change with the lines of the header.                      *)

LEMMA SameLines ==
    ASSUME lines' = lines
    PROVE  /\ \A i : IsGuard(i)' <=> IsGuard(i)
           /\ \A i : NearestGuard(i)' = NearestGuard(i)
           /\ \A i : StartsModule(i)' <=> StartsModule(i)
           /\ \A i, j : SameBlock(i, j)' <=> SameBlock(i, j)
           /\ \A j : Own(j)' = Own(j)
<1>1. \A i : IsGuard(i)' <=> IsGuard(i)
  BY DEF IsGuard
<1>2. \A i : NearestGuard(i)' = NearestGuard(i)
  BY <1>1 DEF NearestGuard
<1>3. \A i : StartsModule(i)' <=> StartsModule(i)
  BY <1>1, <1>2 DEF StartsModule
<1>4. \A i, j : SameBlock(i, j)' <=> SameBlock(i, j)
  BY <1>1, <1>3 DEF SameBlock
<1>5. \A j : Own(j)' = Own(j)
  BY <1>2 DEF Own
<1>. QED BY <1>1, <1>2, <1>3, <1>4, <1>5

LEMMA SameLine ==
    ASSUME lines' = lines, line' = line
    PROVE  Starts' = Starts /\ \A s : IsCurrent(s)' <=> IsCurrent(s)
BY SameLines DEF Starts, IsCurrent

LEMMA NextLine ==
    ASSUME lines' = lines, line' = line + 1, line \in Nat \ {0}
    PROVE  /\ Starts' = IF StartsModule(line) THEN Starts \cup {line} ELSE Starts
           /\ \A s \in Starts : IsCurrent(s)' <=> IsCurrent(s) /\ ~StartsModule(line)
           /\ \A s : s = line => IsCurrent(s)'
<1>1. line' - 1 = line
  BY SMT
<1>2. \A s \in 1..line : s \in 1..line - 1 \/ s = line
  BY SMT
<1>3. \A s \in 1..line - 1 : s \in 1..line
  BY SMT
<1>4. Starts' = {s \in 1..line : StartsModule(s)}
  BY <1>1, SameLines DEF Starts
<1>5. ASSUME NEW s \in 1..line - 1 PROVE IsCurrent(s)' <=> IsCurrent(s) /\ ~StartsModule(line)
  <2>1. IsCurrent(s)' <=> \A k \in s + 1..line : ~StartsModule(k)
    BY <1>1, SameLines DEF IsCurrent
  <2>2. /\ \A k \in s + 1..line : k \in s + 1..line - 1 \/ k = line
        /\ \A k \in s + 1..line - 1 : k \in s + 1..line
        /\ line \in s + 1..line
    BY SMT
  <2>. QED BY <2>1, <2>2 DEF IsCurrent
<1>6. ASSUME NEW s, s = line PROVE IsCurrent(s)'
  <2>1. \A k \in s + 1..line : FALSE
    BY <1>6, SMT
  <2>. QED BY <1>1, <2>1 DEF IsCurrent
<1>. QED BY <1>2, <1>3, <1>4, <1>5, <1>6, 1 \in Nat DEF Starts

(* Nothing is won or lost by a step: neither truth nor flags move.         *)
LEMMA NothingWon ==
    ASSUME lines' = lines, truth' = truth, PassedInv, BucketInv,
           modules \in Seq(ModuleRec), DOMAIN modules \subseteq DOMAIN modules',
           \A i \in DOMAIN modules' : Won(i)' <=> i \in DOMAIN modules /\ Won(i),
           \A i \in DOMAIN modules : Won(i) =>
              /\ modules'[i].branch.line = modules[i].branch.line
              /\ modules'[i].branch.bucket = modules[i].branch.bucket
    PROVE  PassedInv' /\ BucketInv'
<1>1. PassedInv'
  BY DEF PassedInv
<1>2. BucketInv'
  <2>1. SUFFICES ASSUME NEW i \in DOMAIN modules', Won(i)'
                 PROVE  /\ Own(modules'[i].branch.line) \subseteq modules'[i].branch.bucket
                        /\ \A k \in modules'[i].branch.bucket :
                            k = Base \/ \E h \in 1..i : Won(h)' /\ k \in Own(modules'[h].branch.line)
    BY SameLines DEF BucketInv
  <2>2. i \in DOMAIN modules /\ Won(i)
    BY <2>1
  <2>3. /\ modules'[i].branch.line = modules[i].branch.line
        /\ modules'[i].branch.bucket = modules[i].branch.bucket
    BY <2>2
  <2>4. Own(modules[i].branch.line) \subseteq modules[i].branch.bucket
    BY <2>2 DEF BucketInv
  <2>5. ASSUME NEW k \in modules[i].branch.bucket, k # Base
        PROVE  \E h \in 1..i : Won(h)' /\ k \in Own(modules'[h].branch.line)
    <3>1. PICK h \in 1..i : Won(h) /\ k \in Own(modules[h].branch.line)
      BY <2>2, <2>5 DEF BucketInv
    <3>2. h \in DOMAIN modules
      BY <2>2, <3>1
    <3>. QED BY <3>1, <3>2
  <2>. QED BY <2>3, <2>4, <2>5
<1>. QED BY <1>1, <1>2

(* A branch that is new has the guard that is being read.                  *)
LEMMA OrderKept ==
    ASSUME IInv, DOMAIN modules \subseteq DOMAIN modules',
           \A i \in DOMAIN modules' : modules'[i].branch # NoBranch =>
              \/ /\ i \in DOMAIN modules /\ modules[i].branch # NoBranch
                 /\ modules'[i].branch.line = modules[i].branch.line
              \/ i = Len(modules') /\ modules'[i].branch.line = line
    PROVE  OrderInv'
<1>1. \A i \in DOMAIN modules : modules[i].branch # NoBranch => modules[i].branch.line # line
  <2>1. \A k \in 1..line - 1 : k # line
    BY LineNumbers DEF IInv
  <2>. QED BY <2>1 DEF IInv, BranchesInv
<1>. QED BY <1>1 DEF IInv, OrderInv

-----------------------------------------------------------------------------
(* Reading the header.                                                     *)

LEMMA NewBranchFields ==
    ASSUME TypeInv, ~AtEnd, IsGuard(line)
    PROVE  /\ NewBranch \in BranchRec /\ NewBranch # NoBranch /\ ~NewBranch.ok
           /\ NewBranch.vars = {} /\ NewBranch.line = line
           /\ NewBranch.name = lines[line].branch
           /\ lines[line].module \in Module
<1>1. line \in DOMAIN lines /\ line \in Nat
  BY LineNumbers DEF AtEnd
<1>2. lines \in Seq(Guard \cup Comment)
  BY DEF TypeInv
<1>3. lines[line] \in Guard \cup Comment
  BY <1>1, <1>2
<1>4. lines[line] \in Guard
  BY <1>3 DEF IsGuard, Comment
<1>5. lines[line].module \in Module /\ lines[line].branch \in Branch
  BY <1>4 DEF Guard
<1>6. NewBranch \in BranchRec
  BY <1>1, <1>5 DEF NewBranch, BranchRec
<1>. QED BY <1>5, <1>6, NoBranchIsNone DEF NewBranch

(* A guard of the same module: it is the nearest now, and starts nothing.  *)
LEMMA NextBranchIInv == ASSUME IInv, NextBranch PROVE IInv'
<1>. PICK n \in Nat : n = Len(modules)
  BY LineNumbers DEF IInv
<1>1. /\ lines' = lines /\ line' = line + 1 /\ pc = "scan" /\ pc' = "scan" /\ truth' = truth
      /\ ~AtEnd /\ IsGuard(line) /\ SameModule /\ modules # <<>> /\ Tried
  BY DEF NextBranch, IsGuard, SameModule, files
<1>2. /\ TypeInv /\ line \in Nat \ {0} /\ line \in DOMAIN lines /\ line' - 1 = line
      /\ n \in DOMAIN modules /\ DOMAIN modules = 1..n /\ modules \in Seq(ModuleRec)
      /\ Last(modules) = modules[n] /\ ~Trying /\ ~Trying'
      /\ \A i \in DOMAIN modules : modules[i].branch \in BranchRec \cup {NoBranch}
  <2>1. TypeInv
    BY DEF IInv
  <2>2. modules \in Seq(ModuleRec) /\ n # 0
    BY <1>1, <2>1 DEF TypeInv
  <2>3. \A i \in DOMAIN modules : modules[i] \in ModuleRec
    BY <2>2
  <2>. QED BY <1>1, <2>1, <2>2, <2>3, LineNumbers DEF AtEnd, Last, Trying, ModuleRec
<1>3. ~StartsModule(line)
  BY <1>1, GuardStarts
<1>4. /\ modules' \in Seq(ModuleRec) /\ modules' # <<>>
      /\ Len(modules') = n /\ DOMAIN modules' = DOMAIN modules
      /\ \A i \in DOMAIN modules : modules'[i].name = modules[i].name
      /\ \A i \in DOMAIN modules : i # n => modules'[i] = modules[i]
      /\ IF modules[n].branch = NoBranch THEN modules'[n].branch = NewBranch
         ELSE modules'[n].branch = modules[n].branch /\ modules[n].branch.ok
  <2>1. CASE LastBranch = NoBranch
    <3>1. modules' = Changed(modules, NewBranch)
      BY <1>1, <2>1 DEF NextBranch, SetBranch, Changed
    <3>2. NewBranch \in BranchRec \cup {NoBranch}
      BY <1>1, <1>2, NewBranchFields
    <3>. QED BY <1>1, <1>2, <2>1, <3>1, <3>2, ChangedLast DEF LastBranch
  <2>2. CASE LastBranch # NoBranch
    <3>1. modules' = modules /\ modules[n].branch.ok
      BY <1>1, <1>2, <2>2 DEF NextBranch, Tried, LastBranch
    <3>. QED BY <1>1, <1>2, <2>2, <3>1 DEF LastBranch
  <2>. QED BY <2>1, <2>2
<1>5. Last(modules') = modules'[n] /\ Last(modules').name = Last(modules).name
  BY <1>2, <1>4 DEF Last
<1>6. /\ \A i \in DOMAIN modules : Won(i)' <=> Won(i)
      /\ \A i \in DOMAIN modules : Won(i) => modules'[i].branch = modules[i].branch
  <2>1. ASSUME NEW i \in DOMAIN modules, i # n
        PROVE  (Won(i)' <=> Won(i)) /\ modules'[i].branch = modules[i].branch
    BY <1>2, <1>4, <2>1 DEF Won
  <2>2. CASE modules[n].branch = NoBranch
    <3>1. ~Won(n) /\ ~Won(n)'
      BY <1>1, <1>2, <1>4, <2>2, NewBranchFields DEF Won
    <3>. QED BY <2>1, <3>1
  <2>3. CASE modules[n].branch # NoBranch
    BY <1>2, <1>4, <2>1, <2>3 DEF Won
  <2>. QED BY <2>2, <2>3
<1>7. NearestGuard(line)' = {line}
  <2>1. NearestGuard(line + 1) = {line}
    BY <1>1, <1>2, NearestMoves
  <2>2. NearestGuard(line)' = NearestGuard(line + 1)
    BY <1>1 DEF NearestGuard, IsGuard
  <2>. QED BY <2>1, <2>2
<1>8. TypeInv'
  BY <1>1, <1>2, <1>4, LineNumbers DEF TypeInv, AtEnd
<1>9. NamesInv'
  <2>1. Last(modules').name = lines[line].module
    BY <1>1, <1>5 DEF SameModule
  <2>2. ~(\A j \in 1..line : ~IsGuard(j))
    BY <1>1, <1>2
  <2>. QED BY <1>1, <1>2, <1>4, <1>7, <2>1, <2>2, SameLines DEF NamesInv
<1>10. LastInv'
  <2>1. LastBranch' # NoBranch
    BY <1>1, <1>2, <1>4, <1>5, NewBranchFields DEF LastBranch
  <2>2. ASSUME ~LastBranch'.ok
        PROVE  LastBranch'.line = line /\ LastBranch'.vars = {}
    BY <1>1, <1>2, <1>4, <1>5, <2>2, NewBranchFields DEF LastBranch
  <2>3. {k \in line + 1..line' - 1 : lines[k].kind # "text"} = {}
    BY <1>2
  <2>. QED BY <1>1, <1>2, <1>7, <2>1, <2>2, <2>3 DEF LastInv, Trying
<1>11. BranchesInv'
  <2>. SUFFICES ASSUME NEW i \in DOMAIN modules
                PROVE  LET b == modules'[i].branch IN
                        /\ b # NoBranch =>
                            /\ b.line \in 1..line /\ IsGuard(b.line)
                            /\ b.name = lines[b.line].branch
                            /\ modules'[i].name = lines[b.line].module
                        /\ i # n => b # NoBranch /\ b.ok
    BY <1>1, <1>2, <1>4, SameLines DEF BranchesInv
  <2>1. CASE modules'[i].branch = modules[i].branch
    <3>1. modules[i].branch # NoBranch => modules[i].branch.line \in 1..line
      BY <1>2 DEF BranchesInv, IInv
    <3>. QED BY <1>4, <2>1, <3>1 DEF BranchesInv, IInv
  <2>2. CASE modules'[i].branch # modules[i].branch
    <3>1. i = n /\ modules'[i].branch = NewBranch
      BY <1>2, <1>4, <2>2
    <3>2. modules'[i].name = lines[line].module
      BY <1>1, <1>5, <3>1 DEF SameModule
    <3>. QED BY <1>1, <1>2, <3>1, <3>2, NewBranchFields
  <2>. QED BY <2>1, <2>2
<1>12. UntriedInv'
  BY <1>1, <1>2, LineNumbers, SameLines DEF IInv, UntriedInv
<1>13. PassedInv' /\ BucketInv'
  BY <1>1, <1>2, <1>4, <1>6, NothingWon DEF IInv
<1>14. BlocksInv'
  <2>1. Starts' = Starts /\ \A s \in Starts : IsCurrent(s)' <=> IsCurrent(s)
    BY <1>1, <1>2, <1>3, NextLine
  <2>2. \A s : Settled(s)' <=> Settled(s)
    BY <1>1, SameLines DEF Settled
  <2>3. ~Won(n) => ToTry' = ToTry
    <3>1. ~Won(n) => modules[n].branch = NoBranch
      BY <1>2, <1>4 DEF Won
    <3>2. modules[n].branch = NoBranch => ToTry' = line /\ ToTry = line
      BY <1>1, <1>2, <1>4, <1>5, NewBranchFields DEF ToTry, LastBranch
    <3>. QED BY <3>1, <3>2
  <2>4. \A s : ~Won(n) => (Pending(s)' <=> Pending(s))
    BY <1>1, <2>3, SameLines DEF Pending
  <2>5. Won(Len(modules))' <=> Won(n)
    BY <1>2, <1>4, <1>6
  <2>6. BlocksInv
    BY DEF IInv
  <2>. QED BY <1>1, <2>1, <2>2, <2>4, <2>5, <2>6 DEF BlocksInv
<1>15. ExitInv'
  BY <1>1 DEF ExitInv
<1>16. OrderInv'
  <2>1. \A i \in DOMAIN modules' : modules'[i].branch # NoBranch =>
            \/ /\ i \in DOMAIN modules /\ modules[i].branch # NoBranch
               /\ modules'[i].branch.line = modules[i].branch.line
            \/ i = Len(modules') /\ modules'[i].branch.line = line
    BY <1>1, <1>2, <1>4, NewBranchFields
  <2>. QED BY <1>4, <2>1, OrderKept
<1>. QED BY <1>8, <1>9, <1>10, <1>11, <1>12, <1>13, <1>14, <1>15, <1>16 DEF IInv

(* A step that moves on without touching modules, header or truth.         *)
LEMMA PcOnly ==
    ASSUME IInv, UNCHANGED <<lines, line, modules, truth>>, Trying' <=> Trying
    PROVE  /\ NamesInv' /\ BranchesInv' /\ OrderInv' /\ UntriedInv' /\ PassedInv'
           /\ BlocksInv' /\ BucketInv'
<1>1. /\ lines' = lines /\ line' = line /\ modules' = modules /\ truth' = truth
      /\ modules \in Seq(ModuleRec)
  BY DEF IInv, TypeInv
<1>2. \A i : Won(i)' <=> Won(i)
  BY <1>1 DEF Won
<1>3. NamesInv'
  BY <1>1, SameLines DEF IInv, NamesInv
<1>4. BranchesInv'
  BY <1>1, SameLines DEF IInv, BranchesInv
<1>5. UntriedInv'
  BY <1>1, SameLines DEF IInv, UntriedInv
<1>6. PassedInv' /\ BucketInv'
  BY <1>1, <1>2, NothingWon DEF IInv
<1>7. BlocksInv'
  <2>1. Starts' = Starts /\ \A s : IsCurrent(s)' <=> IsCurrent(s)
    BY <1>1, SameLine
  <2>2. \A s : Settled(s)' <=> Settled(s)
    BY <1>1, SameLines DEF Settled
  <2>3. ToTry' = ToTry
    BY <1>1 DEF ToTry, LastBranch
  <2>4. \A s : Pending(s)' <=> Pending(s)
    BY <1>1, <2>3, SameLines DEF Pending
  <2>5. Won(Len(modules))' <=> Won(Len(modules))
    BY <1>1 DEF Won
  <2>6. BlocksInv
    BY DEF IInv
  <2>. QED BY <1>1, <2>1, <2>2, <2>4, <2>5, <2>6 DEF BlocksInv
<1>8. OrderInv'
  BY <1>1 DEF IInv, OrderInv
<1>. QED BY <1>3, <1>4, <1>5, <1>6, <1>7, <1>8

(* A guard of another module starts a block; the one before is settled,    *)
(* for module_add() insists on its branch.                                 *)
LEMMA NextModuleIInv == ASSUME IInv, NextModule PROVE IInv'
<1>. PICK n \in Nat : n = Len(modules)
  BY LineNumbers DEF IInv
<1>1. /\ lines' = lines /\ pc = "scan" /\ truth' = truth
      /\ ~AtEnd /\ IsGuard(line) /\ ~SameModule /\ Tried
  BY DEF NextModule, IsGuard, SameModule, files
<1>2. /\ TypeInv /\ line \in Nat \ {0} /\ line \in DOMAIN lines
      /\ DOMAIN modules = 1..n /\ modules \in Seq(ModuleRec) /\ ~Trying
      /\ modules # <<>> => n \in DOMAIN modules /\ Last(modules) = modules[n]
      /\ \A i \in DOMAIN modules : modules[i].branch \in BranchRec \cup {NoBranch}
  <2>1. TypeInv
    BY DEF IInv
  <2>2. modules \in Seq(ModuleRec)
    BY <2>1 DEF TypeInv
  <2>3. modules # <<>> => n # 0
    BY <2>2, EmptySeq
  <2>4. \A i \in DOMAIN modules : modules[i] \in ModuleRec
    BY <2>2
  <2>. QED BY <1>1, <2>1, <2>2, <2>4, <2>3, LineNumbers DEF AtEnd, Last, Trying, ModuleRec
<1>3. CASE ModuleFailed
  <2>1. pc' = "exit failure" /\ UNCHANGED <<lines, line, modules, truth>> /\ ~Trying'
    BY <1>1, <1>3 DEF NextModule, Trying
  <2>2. TypeInv'
    BY <1>2, <2>1 DEF TypeInv
  <2>3. LastBranch' = LastBranch /\ LastBranch = NoBranch /\ modules # <<>> /\ (AtGuard' <=> AtGuard)
    BY <1>3, <2>1, SameLines DEF ModuleFailed, LastBranch, AtGuard, AtEnd
  <2>4. LastInv'
    BY <1>1, <2>1, <2>3 DEF LastInv, AtGuard
  <2>5. ExitInv'
    BY <2>1, <2>3 DEF ExitInv
  <2>. QED BY <1>2, <2>1, <2>2, <2>4, <2>5, PcOnly DEF IInv
<1>4. CASE ~ModuleFailed
  <2>. DEFINE new == [name |-> lines[line].module, branch |-> NewBranch]
  <2>1. /\ modules' = Append(modules, new) /\ line' = line + 1 /\ pc' = "scan"
        /\ line' - 1 = line
    BY <1>1, <1>2, <1>4 DEF NextModule
  <2>2. new \in ModuleRec
    BY <1>1, <1>2, NewBranchFields DEF ModuleRec
  <2>3. /\ modules' \in Seq(ModuleRec) /\ modules' # <<>> /\ Len(modules') = n + 1
        /\ DOMAIN modules' = 1..n + 1 /\ modules'[n + 1] = new
        /\ \A i \in 1..n : modules'[i] = modules[i]
        /\ Last(modules') = new /\ ~Trying'
    BY <1>2, <2>1, <2>2 DEF Last, Trying
  <2>4. new.branch = NewBranch /\ new.name = lines[line].module
    OBVIOUS
  <2>. HIDE DEF new
  <2>5. StartsModule(line)
    BY <1>1, GuardStarts
  <2>6. /\ \A i \in 1..n + 1 : i \in 1..n \/ i = n + 1
        /\ \A i \in 1..n : i # n + 1 /\ i \in 1..n + 1
    OBVIOUS
  <2>7. \A i \in DOMAIN modules' : Won(i)' <=> i \in DOMAIN modules /\ Won(i)
    <3>1. ~Won(n + 1)'
      BY <1>1, <1>2, <2>3, <2>4, NewBranchFields DEF Won
    <3>2. \A i \in 1..n : Won(i)' <=> Won(i)
      BY <1>2, <2>3, <2>6 DEF Won
    <3>. QED BY <1>2, <2>3, <2>6, <3>1, <3>2
  <2>8. NearestGuard(line)' = {line}
    <3>1. NearestGuard(line + 1) = {line}
      BY <1>1, <1>2, NearestMoves
    <3>2. NearestGuard(line)' = NearestGuard(line + 1)
      BY <1>1, <2>1 DEF NearestGuard, IsGuard
    <3>. QED BY <3>1, <3>2
  <2>9. TypeInv'
    BY <1>1, <1>2, <2>1, <2>3, LineNumbers DEF TypeInv, AtEnd
  <2>10. NamesInv'
    <3>1. ~(\A j \in 1..line : ~IsGuard(j))
      BY <1>1, <1>2
    <3>. QED BY <1>1, <2>1, <2>3, <2>4, <2>8, <3>1, SameLines DEF NamesInv
  <2>11. LastInv'
    <3>1. {k \in line + 1..line' - 1 : lines[k].kind # "text"} = {}
      BY <1>2, <2>1
    <3>2. LastBranch' = NewBranch
      BY <2>3, <2>4 DEF LastBranch
    <3>. QED BY <1>1, <1>2, <2>3, <2>8, <3>1, <3>2, NewBranchFields DEF LastInv
  <2>12. BranchesInv'
    <3>. SUFFICES ASSUME NEW i \in 1..n + 1
                  PROVE  LET b == modules'[i].branch IN
                          /\ b # NoBranch =>
                              /\ b.line \in 1..line /\ IsGuard(b.line)
                              /\ b.name = lines[b.line].branch
                              /\ modules'[i].name = lines[b.line].module
                          /\ i # n + 1 => b # NoBranch /\ b.ok
      BY <1>1, <2>1, <2>3, SameLines DEF BranchesInv
    <3>1. CASE i = n + 1
      BY <1>1, <1>2, <2>3, <2>4, <3>1, NewBranchFields
    <3>2. CASE i # n + 1
      <4>1. i \in 1..n /\ modules'[i] = modules[i]
        BY <2>3, <2>6, <3>2
      <4>2. modules[i].branch # NoBranch => modules[i].branch.line \in 1..line
        BY <1>2, <4>1 DEF BranchesInv, IInv
      <4>3. i = n => modules[i].branch # NoBranch /\ modules[i].branch.ok
        <5>1. i = n => modules # <<>>
          BY <1>2, <4>1
        <5>. QED BY <1>1, <1>2, <1>4, <5>1 DEF ModuleFailed, LastBranch, Tried
      <4>. QED BY <1>2, <4>1, <4>2, <4>3 DEF BranchesInv, IInv
    <3>. QED BY <3>1, <3>2
  <2>13. UntriedInv'
    BY <1>1, <1>2, <2>1, LineNumbers, SameLines DEF IInv, UntriedInv
  <2>14. PassedInv' /\ BucketInv'
    BY <1>1, <1>2, <2>3, <2>6, <2>7, NothingWon DEF IInv
  <2>15. BlocksInv'
    <3>. PICK s0 \in Nat : s0 = line
      BY <1>2
    <3>1. /\ Starts' = Starts \cup {s0} /\ IsCurrent(s0)'
          /\ \A s \in Starts : ~IsCurrent(s)'
      BY <1>1, <1>2, <2>1, <2>5, NextLine
    <3>2. \A s : Settled(s)' <=> Settled(s)
      BY <1>1, SameLines DEF Settled
    <3>3. \A s \in Starts : Settled(s)
      <4>1. SUFFICES ASSUME Starts # {} PROVE Won(n)
        BY DEF IInv, BlocksInv
      <4>2. modules # <<>>
        <5>1. PICK s \in 1..line - 1 : IsGuard(s)
          BY <4>1 DEF Starts, StartsModule
        <5>. QED BY <5>1 DEF IInv, NamesInv
      <4>. QED BY <1>1, <1>2, <1>4, <4>2 DEF ModuleFailed, LastBranch, Tried, Won
    <3>4. Pending(s0)'
      <4>1. ToTry' = s0
        BY <1>1, <1>2, <2>3, <2>4, NewBranchFields DEF ToTry, LastBranch
      <4>2. \A k \in DOMAIN lines : SameBlock(s0, k) => k >= s0 /\ ~(k < s0)
        BY <1>2, LineNumbers DEF SameBlock
      <4>3. \A k \in DOMAIN lines : SameBlock(s0, k) => truth[k] = "untried"
        BY <4>2 DEF IInv, UntriedInv
      <4>4. SUFFICES ASSUME NEW k \in DOMAIN lines, SameBlock(s0, k)
                     PROVE  truth[k] = IF k < s0 THEN "fails" ELSE "untried"
        BY <1>1, <4>1, SameLines DEF Pending
      <4>. QED BY <4>2, <4>3, <4>4
    <3>5. ~Won(Len(modules))'
      <4>1. ~Won(n + 1)'
        BY <1>2, <2>3, <2>6, <2>7
      <4>. QED BY <2>3, <4>1 DEF Won
    <3>6. \A s \in Starts' :
            IF IsCurrent(s)' /\ ~Won(Len(modules))' THEN Pending(s)' ELSE Settled(s)'
      BY <3>1, <3>2, <3>3, <3>4, <3>5
    <3>7. \E s \in Starts' : IsCurrent(s)'
      BY <3>1
    <3>. QED BY <3>6, <3>7 DEF BlocksInv
  <2>16. ExitInv'
    BY <2>1 DEF ExitInv
  <2>17. OrderInv'
    <3>1. \A i \in DOMAIN modules' : modules'[i].branch # NoBranch =>
            \/ /\ i \in DOMAIN modules /\ modules[i].branch # NoBranch
               /\ modules'[i].branch.line = modules[i].branch.line
            \/ i = Len(modules') /\ modules'[i].branch.line = line
      BY <1>1, <1>2, <2>3, <2>4, <2>6, NewBranchFields
    <3>2. DOMAIN modules \subseteq DOMAIN modules'
      BY <1>2, <2>3, <2>6
    <3>. QED BY <3>1, <3>2, OrderKept
  <2>. QED
    BY <2>9, <2>10, <2>11, <2>12, <2>13, <2>14, <2>15, <2>16, <2>17 DEF IInv
<1>. QED BY <1>3, <1>4


(* A flag, an option or a text: there is a branch to give it to, and what  *)
(* was kept stays as it is, for its bucket is not touched.                 *)
LEMMA VariableIInv == ASSUME IInv, Variable PROVE IInv'
<1>. PICK n \in Nat : n = Len(modules)
  BY LineNumbers DEF IInv
<1>1. /\ lines' = lines /\ line' = line + 1 /\ pc = "scan" /\ pc' = "scan" /\ truth' = truth
      /\ ~AtEnd /\ ~IsGuard(line) /\ ~AtGuard /\ ~Trying /\ ~Trying'
  BY DEF Variable, IsGuard, AtGuard, Trying, files
<1>2. /\ TypeInv /\ line \in Nat \ {0} /\ line \in DOMAIN lines /\ line' - 1 = line
      /\ DOMAIN modules = 1..n /\ modules \in Seq(ModuleRec)
      /\ modules # <<>> => n \in DOMAIN modules /\ Last(modules) = modules[n]
      /\ \A i \in DOMAIN modules : modules[i].branch \in BranchRec \cup {NoBranch}
  <2>1. TypeInv
    BY DEF IInv
  <2>2. modules \in Seq(ModuleRec)
    BY <2>1 DEF TypeInv
  <2>3. modules # <<>> => n # 0
    BY <2>2, EmptySeq
  <2>4. \A i \in DOMAIN modules : modules[i] \in ModuleRec
    BY <2>2
  <2>. QED BY <1>1, <2>1, <2>2, <2>3, <2>4, LineNumbers DEF AtEnd, Last, ModuleRec
<1>3. modules # <<>> => modules[n].branch \in BranchRec /\ modules[n].branch # NoBranch
  BY <1>1, <1>2 DEF IInv, LastInv, LastBranch
<1>4. /\ modules' \in Seq(ModuleRec) /\ (modules' = <<>> <=> modules = <<>>)
      /\ Len(modules') = n /\ DOMAIN modules' = DOMAIN modules
      /\ \A i \in DOMAIN modules :
          /\ modules'[i].name = modules[i].name
          /\ i # n => modules'[i] = modules[i]
          /\ modules'[i].branch = NoBranch <=> modules[i].branch = NoBranch
          /\ modules[i].branch # NoBranch =>
              /\ modules'[i].branch.ok <=> modules[i].branch.ok
              /\ modules'[i].branch.line = modules[i].branch.line
              /\ modules'[i].branch.name = modules[i].branch.name
              /\ modules'[i].branch.bucket = modules[i].branch.bucket
      /\ modules # <<>> => modules'[n].branch.vars =
          modules[n].branch.vars \cup {k \in {line} : lines[k].kind # "text"}
  <2>1. CASE modules = <<>> \/ lines[line].kind = "text"
    <3>1. modules' = modules
      BY <2>1 DEF Variable
    <3>2. modules # <<>> => {k \in {line} : lines[k].kind # "text"} = {}
      BY <2>1
    <3>. QED BY <1>2, <3>1, <3>2
  <2>2. CASE modules # <<>> /\ lines[line].kind # "text"
    <3>. PICK b \in BranchRec : b = LastBranch
      BY <1>2, <1>3, <2>2 DEF LastBranch
    <3>. DEFINE c == [b EXCEPT !.vars = @ \cup {line}]
    <3>1. /\ c \in BranchRec /\ (c.ok <=> b.ok) /\ c.name = b.name
          /\ c.vars = b.vars \cup {line} /\ c.bucket = b.bucket /\ c.line = b.line
      BY <1>2, BranchVars
    <3>2. modules' = Changed(modules, c)
      BY <1>1, <2>2 DEF Variable, SetBranch, Changed
    <3>. HIDE DEF c
    <3>3. c # NoBranch
      BY <3>1, NoBranchIsNone
    <3>4. {k \in {line} : lines[k].kind # "text"} = {line}
      BY <2>2
    <3>5. /\ modules' \in Seq(ModuleRec) /\ modules' # <<>> /\ Len(modules') = n
          /\ DOMAIN modules' = DOMAIN modules /\ modules'[n].branch = c
          /\ \A i \in DOMAIN modules : modules'[i].name = modules[i].name
          /\ \A i \in DOMAIN modules : i # n => modules'[i] = modules[i]
      BY <1>2, <2>2, <3>1, <3>2, ChangedLast
    <3>6. modules[n].branch = b /\ b # NoBranch
      BY <1>2, <1>3, <2>2 DEF LastBranch
    <3>. QED BY <2>2, <3>1, <3>3, <3>4, <3>5, <3>6
  <2>. QED BY <2>1, <2>2
<1>5. modules # <<>> => Last(modules') = modules'[n] /\ Last(modules').name = Last(modules).name
  BY <1>2, <1>4 DEF Last
<1>6. \A i \in DOMAIN modules : Won(i)' <=> Won(i)
  BY <1>1, <1>2, <1>4 DEF Won
<1>7. NearestGuard(line)' = NearestGuard(line)
  <2>1. NearestGuard(line + 1) = NearestGuard(line)
    BY <1>1, <1>2, NearestMoves
  <2>2. NearestGuard(line)' = NearestGuard(line + 1)
    BY <1>1 DEF NearestGuard, IsGuard
  <2>. QED BY <2>1, <2>2
<1>8. TypeInv'
  BY <1>1, <1>2, <1>4, LineNumbers DEF TypeInv, AtEnd
<1>9. NamesInv'
  <2>1. (\A j \in 1..line : ~IsGuard(j)) <=> (\A j \in 1..line - 1 : ~IsGuard(j))
    <3>1. /\ \A j \in 1..line : j \in 1..line - 1 \/ j = line
          /\ \A j \in 1..line - 1 : j \in 1..line
      BY <1>2
    <3>. QED BY <1>1, <3>1
  <2>2. \A j : IsGuard(j)' <=> IsGuard(j)
    BY <1>1, SameLines
  <2>3. NamesInv
    BY DEF IInv
  <2>. QED BY <1>1, <1>2, <1>4, <1>5, <1>7, <2>1, <2>2, <2>3 DEF NamesInv
<1>10. LastInv'
  <2>1. SUFFICES ASSUME modules # <<>>
                 PROVE  /\ LastBranch' # NoBranch
                        /\ ~LastBranch'.ok =>
                            /\ LastBranch'.line \in NearestGuard(line)
                            /\ LastBranch'.vars =
                                {k \in LastBranch'.line + 1..line : lines[k].kind # "text"}
    BY <1>1, <1>2, <1>4, <1>7 DEF LastInv
  <2>2. /\ LastBranch' = modules'[n].branch /\ LastBranch = modules[n].branch
        /\ n \in DOMAIN modules /\ LastBranch # NoBranch
    BY <1>2, <1>3, <1>5, <2>1 DEF LastBranch
  <2>3. ASSUME ~LastBranch.ok
        PROVE  /\ LastBranch.line \in NearestGuard(line)
               /\ LastBranch.vars =
                    {k \in LastBranch.line + 1..line - 1 : lines[k].kind # "text"}
    BY <2>1, <2>2, <2>3 DEF IInv, LastInv
  <2>4. \A f \in NearestGuard(line) : \A k :
            k \in f + 1..line <=> k \in f + 1..line - 1 \/ k = line
    BY <1>2 DEF NearestGuard
  <2>. QED BY <1>4, <2>1, <2>2, <2>3, <2>4
<1>11. BranchesInv'
  <2>. SUFFICES ASSUME NEW i \in DOMAIN modules
                PROVE  LET b == modules'[i].branch IN
                        /\ b # NoBranch =>
                            /\ b.line \in 1..line /\ IsGuard(b.line)
                            /\ b.name = lines[b.line].branch
                            /\ modules'[i].name = lines[b.line].module
                        /\ i # n => b # NoBranch /\ b.ok
    BY <1>1, <1>2, <1>4, SameLines DEF BranchesInv
  <2>1. modules[i].branch # NoBranch => modules[i].branch.line \in 1..line
    BY <1>2 DEF BranchesInv, IInv
  <2>. QED BY <1>4, <2>1 DEF BranchesInv, IInv
<1>12. UntriedInv'
  BY <1>1, <1>2, LineNumbers, SameLines DEF IInv, UntriedInv
<1>13. PassedInv' /\ BucketInv'
  <2>1. \A i \in DOMAIN modules : Won(i) =>
            /\ modules'[i].branch.line = modules[i].branch.line
            /\ modules'[i].branch.bucket = modules[i].branch.bucket
    BY <1>4 DEF Won
  <2>. QED BY <1>1, <1>2, <1>4, <1>6, <2>1, NothingWon DEF IInv
<1>14. BlocksInv'
  <2>1. ~StartsModule(line)
    BY <1>1 DEF StartsModule
  <2>2. Starts' = Starts /\ \A s \in Starts : IsCurrent(s)' <=> IsCurrent(s)
    BY <1>1, <1>2, <2>1, NextLine
  <2>3. \A s : Settled(s)' <=> Settled(s)
    BY <1>1, SameLines DEF Settled
  <2>4. modules # <<>> => ToTry' = ToTry
    BY <1>2, <1>3, <1>4, <1>5 DEF ToTry, LastBranch
  <2>5. \A s : modules # <<>> => (Pending(s)' <=> Pending(s))
    BY <1>1, <2>4, SameLines DEF Pending
  <2>6. modules # <<>> => (Won(Len(modules))' <=> Won(Len(modules)))
    BY <1>1, <1>2, <1>3, <1>4 DEF Won
  <2>7. \A s \in Starts : modules # <<>>
    BY DEF IInv, NamesInv, Starts, StartsModule
  <2>8. BlocksInv
    BY DEF IInv
  <2>9. modules' # <<>> => \E s \in Starts' : IsCurrent(s)'
    BY <1>4, <2>2, <2>8 DEF BlocksInv
  <2>10. \A s \in Starts' :
           IF IsCurrent(s)' /\ ~Won(Len(modules))' THEN Pending(s)' ELSE Settled(s)'
    BY <2>2, <2>3, <2>5, <2>6, <2>7, <2>8 DEF BlocksInv
  <2>. QED BY <2>9, <2>10 DEF BlocksInv
<1>15. ExitInv'
  BY <1>1 DEF ExitInv
<1>16. OrderInv'
  <2>1. \A i \in DOMAIN modules' : modules'[i].branch # NoBranch =>
            /\ i \in DOMAIN modules /\ modules[i].branch # NoBranch
            /\ modules'[i].branch.line = modules[i].branch.line
    BY <1>4
  <2>. QED BY <1>4, <2>1, OrderKept
<1>. QED BY <1>8, <1>9, <1>10, <1>11, <1>12, <1>13, <1>14, <1>15, <1>16 DEF IInv

-----------------------------------------------------------------------------
(* Trying a branch.                                                        *)

(* At the guard or the end that causes a try, the branch has its flags.    *)
LEMMA OwnFlags ==
    ASSUME TypeInv, AtGuard, NEW f \in NearestGuard(line), NEW b,
           b.vars = {k \in f + 1..line - 1 : lines[k].kind # "text"}
    PROVE  Flags(b) = Own(f)
<1>1. /\ line \in Nat \ {0} /\ Len(lines) \in Nat /\ DOMAIN lines = 1..Len(lines)
      /\ line <= Len(lines) + 1
  BY LineNumbers
<1>2. f \in 1..line - 1 /\ IsGuard(f) /\ \A k \in f + 1..line - 1 : ~IsGuard(k)
  BY DEF NearestGuard
<1>3. ASSUME NEW k \in Flags(b) PROVE k \in Own(f)
  <2>1. k \in f + 1..line - 1 /\ lines[k].kind = "flag"
    BY <1>3 DEF Flags
  <2>2. k \in DOMAIN lines /\ f \in 1..k - 1 /\ \A i \in f + 1..k - 1 : i \in f + 1..line - 1
    BY <1>1, <1>2, <2>1
  <2>. QED BY <1>2, <2>1, <2>2 DEF Own, NearestGuard
<1>4. ASSUME NEW k \in Own(f) PROVE k \in Flags(b)
  <2>1. /\ k \in DOMAIN lines /\ lines[k].kind = "flag" /\ f \in 1..k - 1
        /\ \A i \in f + 1..k - 1 : ~IsGuard(i)
    BY <1>4 DEF Own, NearestGuard
  <2>2. k # line
    BY <1>1, <2>1 DEF AtGuard, AtEnd, IsGuard
  <2>3. ~(k > line)
    <3>1. k > line => line \in f + 1..k - 1
      BY <1>1, <1>2, <2>1
    <3>2. k > line => ~AtEnd
      BY <1>1, <2>1 DEF AtEnd
    <3>. QED BY <2>1, <3>1, <3>2 DEF AtGuard
  <2>4. k \in f + 1..line - 1
    BY <1>1, <1>2, <2>1, <2>2, <2>3
  <2>. QED BY <2>1, <2>4 DEF Flags
<1>. QED BY <1>3, <1>4

(* What write_files() leaves of a list all of whose modules have a branch. *)
LEMMA WritesBucket ==
    ASSUME NEW m \in Seq(ModuleRec), m # <<>>, \A i \in DOMAIN m : m[i].branch \in BranchRec
    PROVE  LET w == [m EXCEPT ![Len(m)].branch.bucket = Merged(m)]
               b == m[Len(m)].branch
               c == w[Len(m)].branch
           IN  /\ w \in Seq(ModuleRec) /\ w # <<>> /\ Len(w) = Len(m) /\ DOMAIN w = DOMAIN m
               /\ \A i \in DOMAIN m : w[i].name = m[i].name
               /\ \A i \in DOMAIN m : i # Len(m) => w[i] = m[i]
               /\ c \in BranchRec /\ c.ok = b.ok /\ c.name = b.name
               /\ c.vars = b.vars /\ c.bucket = Merged(m) /\ c.line = b.line
<1>1. Len(m) \in DOMAIN m
  <2>1. Len(m) \in Nat \ {0} /\ DOMAIN m = 1..Len(m)
    BY EmptySeq, LenProperties
  <2>. QED BY <2>1
<1>2. Merged(m) \in SUBSET Nat
  BY DEF Merged, Base, BranchRec
<1>. HIDE DEF Merged
<1>. PICK b \in BranchRec : b = m[Len(m)].branch
  BY <1>1
<1>. DEFINE c == [b EXCEPT !.bucket = Merged(m)]
            w == [m EXCEPT ![Len(m)].branch.bucket = Merged(m)]
<1>3. /\ c \in BranchRec /\ c.ok = b.ok /\ c.name = b.name
      /\ c.vars = b.vars /\ c.bucket = Merged(m) /\ c.line = b.line
  BY <1>2, BranchBucket
<1>4. w = Changed(m, c)
  BY DEF Changed
<1>. HIDE DEF c, w
<1>5. /\ w \in Seq(ModuleRec) /\ w # <<>> /\ Len(w) = Len(m) /\ DOMAIN w = DOMAIN m
      /\ \A i \in DOMAIN m : w[i].name = m[i].name
      /\ \A i \in DOMAIN m : i # Len(m) => w[i] = m[i]
      /\ w[Len(m)].branch = c
  BY <1>3, <1>4, ChangedLast
<1>. QED BY <1>3, <1>5 DEF w


(* The branch being tried counts as one that passes until it fails: the    *)
(* guards above it in its block have failed, its bucket has all its flags. *)
LEMMA TryIInv == ASSUME IInv, Try PROVE IInv'
<1>. PICK n \in Nat : n = Len(modules)
  BY LineNumbers DEF IInv
<1>. PICK b : b = LastBranch
  OBVIOUS
<1>1. /\ lines' = lines /\ line' = line /\ pc = "scan" /\ pc' = "compile"
      /\ AtGuard /\ AtGuard' /\ modules # <<>> /\ b # NoBranch /\ ~b.ok
      /\ ~Trying /\ Trying'
      /\ truth' = [truth EXCEPT ![b.line] = "passes"]
  BY SameLines DEF Try, Tried, IsGuard, AtGuard, AtEnd, Trying
<1>2. /\ TypeInv /\ line \in Nat \ {0}
      /\ n \in DOMAIN modules /\ DOMAIN modules = 1..n /\ modules \in Seq(ModuleRec)
      /\ Last(modules) = modules[n] /\ b = modules[n].branch
      /\ \A i \in DOMAIN modules : modules[i].branch \in BranchRec \cup {NoBranch}
  <2>1. TypeInv
    BY DEF IInv
  <2>2. modules \in Seq(ModuleRec)
    BY <2>1 DEF TypeInv
  <2>3. n # 0
    BY <1>1, <2>2, EmptySeq
  <2>4. \A i \in DOMAIN modules : modules[i] \in ModuleRec
    BY <2>2
  <2>. QED BY <1>1, <2>1, <2>2, <2>3, <2>4, LineNumbers DEF Last, LastBranch, ModuleRec
<1>3. b \in BranchRec /\ \A i \in DOMAIN modules : i # n =>
        modules[i].branch \in BranchRec /\ modules[i].branch # NoBranch /\ modules[i].branch.ok
  BY <1>1, <1>2 DEF IInv, BranchesInv
<1>4. /\ b.line \in NearestGuard(line)
      /\ b.vars = {k \in b.line + 1..line - 1 : lines[k].kind # "text"}
  BY <1>1 DEF IInv, LastInv
<1>. PICK f : f = b.line
  OBVIOUS
<1>5. f \in 1..line - 1 /\ f \in DOMAIN lines /\ IsGuard(f) /\ Flags(b) = Own(f)
  <2>1. f \in 1..line - 1 /\ IsGuard(f)
    BY <1>4 DEF NearestGuard
  <2>. QED BY <1>1, <1>2, <1>4, <2>1, LineNumbers, OwnFlags
<1>. DEFINE ms == Changed(modules, Resolved(b))
<1>6. /\ ms \in Seq(ModuleRec) /\ ms # <<>> /\ Len(ms) = n /\ DOMAIN ms = DOMAIN modules
      /\ \A i \in DOMAIN modules : ms[i].name = modules[i].name
      /\ \A i \in DOMAIN modules : i # n => ms[i] = modules[i]
      /\ ms[n].branch = Resolved(b) /\ ms[n].branch \in BranchRec
  BY <1>1, <1>2, <1>3, BranchResolved, ChangedLast, SMTT(30)
<1>7. /\ ~ms[n].branch.ok /\ ms[n].branch.name = b.name /\ ms[n].branch.vars = b.vars
      /\ ms[n].branch.bucket = Own(f) /\ ms[n].branch.line = f
  BY <1>1, <1>3, <1>5, <1>6, BranchResolved
<1>8. modules' = [ms EXCEPT ![Len(ms)].branch.bucket = Merged(ms)]
  <2>1. ms = [modules EXCEPT ![Len(modules)].branch = Resolved(@)]
    BY <1>2 DEF Changed
  <2>2. WriteFiles([modules EXCEPT ![Len(modules)].branch = Resolved(@)])
    BY DEF Try
  <2>. HIDE DEF ms
  <2>. QED BY <2>1, <2>2 DEF WriteFiles
<1>9. Merged(ms) = {Base} \cup UNION {ms[i].branch.bucket : i \in 1..n}
  BY <1>2, <1>6 DEF Merged
<1>. HIDE DEF ms
<1>10. /\ modules' \in Seq(ModuleRec) /\ modules' # <<>>
       /\ Len(modules') = n /\ DOMAIN modules' = DOMAIN modules
       /\ \A i \in DOMAIN modules : modules'[i].name = modules[i].name
       /\ \A i \in DOMAIN modules : i # n => modules'[i] = modules[i]
       /\ modules'[n].branch \in BranchRec /\ modules'[n].branch # NoBranch
       /\ ~modules'[n].branch.ok /\ modules'[n].branch.name = b.name
       /\ modules'[n].branch.vars = b.vars /\ modules'[n].branch.line = f
       /\ modules'[n].branch.bucket = Merged(ms)
  <2>1. \A i \in DOMAIN ms : ms[i].branch \in BranchRec
    BY <1>3, <1>6
  <2>. QED BY <1>2, <1>6, <1>7, <1>8, <2>1, WritesBucket, NoBranchIsNone
<1>11. /\ Last(modules') = modules'[n] /\ Last(modules').name = Last(modules).name
       /\ LastBranch' = modules'[n].branch
  BY <1>2, <1>10 DEF Last, LastBranch
<1>12. truth \in [DOMAIN lines -> {"untried", "passes", "fails"}]
       /\ \A k \in DOMAIN lines : truth'[k] = IF k = f THEN "passes" ELSE truth[k]
  BY <1>1, <1>2 DEF TypeInv
<1>13. ~Won(n) /\ Won(n)' /\ \A i \in DOMAIN modules : i # n => Won(i) /\ Won(i)'
  BY <1>1, <1>2, <1>3, <1>10 DEF Won
<1>14. TypeInv'
  BY <1>1, <1>2, <1>10, <1>12 DEF TypeInv
<1>15. NamesInv'
  BY <1>1, <1>10, <1>11, SameLines DEF IInv, NamesInv
<1>16. LastInv'
  <2>1. NearestGuard(line)' = NearestGuard(line)
    BY <1>1 DEF NearestGuard, IsGuard
  <2>. QED BY <1>1, <1>4, <1>10, <1>11, <2>1 DEF LastInv
<1>17. BranchesInv'
  <2>1. ASSUME NEW i \in DOMAIN modules
        PROVE  /\ modules[i].branch # NoBranch /\ modules[i].branch.line \in 1..line - 1
               /\ IsGuard(modules[i].branch.line)
               /\ modules[i].branch.name = lines[modules[i].branch.line].branch
               /\ modules[i].name = lines[modules[i].branch.line].module
    BY <1>1, <1>2, <1>3 DEF IInv, BranchesInv
  <2>2. ASSUME NEW i \in DOMAIN modules
        PROVE  /\ modules'[i].branch.line = modules[i].branch.line
               /\ modules'[i].branch.name = modules[i].branch.name
               /\ i # n => modules'[i].branch # NoBranch /\ modules'[i].branch.ok
    BY <1>2, <1>3, <1>10
  <2>. QED BY <1>1, <1>10, <2>1, <2>2, SameLines DEF BranchesInv
<1>18. UntriedInv'
  BY <1>1, <1>2, <1>5, <1>12, SameLines DEF IInv, UntriedInv
<1>19. PassedInv'
  <2>1. SUFFICES ASSUME NEW k \in DOMAIN lines
                 PROVE  truth'[k] = "passes" <=>
                          \E i \in DOMAIN modules : Won(i)' /\ modules'[i].branch.line = k
    BY <1>1, <1>10 DEF PassedInv
  <2>2. truth[k] = "passes" <=> \E i \in DOMAIN modules : Won(i) /\ modules[i].branch.line = k
    BY DEF IInv, PassedInv
  <2>3. CASE k = f
    BY <1>2, <1>10, <1>12, <1>13, <2>3
  <2>4. CASE k # f
    BY <1>2, <1>10, <1>12, <1>13, <2>2, <2>4
  <2>. QED BY <2>3, <2>4
<1>20. BlocksInv'
  <2>1. Starts' = Starts /\ \A s : IsCurrent(s)' <=> IsCurrent(s)
    BY <1>1, SameLine
  <2>2. Won(Len(modules))'
    BY <1>10, <1>13 DEF Won
  <2>3. \E s \in Starts : IsCurrent(s)
    BY <1>1 DEF IInv, BlocksInv
  <2>4. ASSUME NEW s \in Starts PROVE Settled(s)'
    <3>1. IsCurrent(s) <=> SameBlock(s, f)
      BY <1>2, <1>4, CurrentBlock DEF Starts, IsCurrent
    <3>2. SUFFICES \E j \in DOMAIN lines : SameBlock(s, j) /\ \A k \in DOMAIN lines :
                    SameBlock(s, k) => truth'[k] =
                        IF k < j THEN "fails" ELSE IF k = j THEN "passes" ELSE "untried"
      BY <1>1, SameLines DEF Settled
    <3>3. CASE IsCurrent(s)
      <4>1. ToTry = f
        BY <1>1 DEF ToTry
      <4>2. Pending(s)
        BY <1>2, <1>13, <3>3 DEF IInv, BlocksInv
      <4>3. \A k \in DOMAIN lines : SameBlock(s, k) =>
                truth[k] = IF k < f THEN "fails" ELSE "untried"
        BY <4>1, <4>2 DEF Pending
      <4>4. \A k \in DOMAIN lines : SameBlock(s, k) => truth'[k] =
                IF k < f THEN "fails" ELSE IF k = f THEN "passes" ELSE "untried"
        BY <1>5, <1>12, <4>3, LineNumbers, <1>2
      <4>. QED BY <1>5, <3>1, <3>3, <4>4
    <3>4. CASE ~IsCurrent(s)
      <4>1. Settled(s)
        BY <3>4 DEF IInv, BlocksInv
      <4>2. PICK j \in DOMAIN lines : SameBlock(s, j) /\ \A k \in DOMAIN lines :
                SameBlock(s, k) => truth[k] =
                    IF k < j THEN "fails" ELSE IF k = j THEN "passes" ELSE "untried"
        BY <4>1 DEF Settled
      <4>3. \A k \in DOMAIN lines : SameBlock(s, k) => truth'[k] = truth[k]
        BY <1>12, <3>1, <3>4
      <4>. QED BY <4>2, <4>3
    <3>. QED BY <3>3, <3>4
  <2>. QED BY <2>1, <2>2, <2>3, <2>4 DEF BlocksInv
<1>21. BucketInv'
  <2>1. ASSUME NEW i \in DOMAIN modules, i # n
        PROVE  /\ Own(modules[i].branch.line) \subseteq modules[i].branch.bucket
               /\ \A k \in modules[i].branch.bucket : k = Base \/
                    \E h \in 1..i : Won(h)' /\ k \in Own(modules'[h].branch.line)
    <3>1. /\ Own(modules[i].branch.line) \subseteq modules[i].branch.bucket
          /\ \A k \in modules[i].branch.bucket :
                k = Base \/ \E h \in 1..i : Won(h) /\ k \in Own(modules[h].branch.line)
      BY <1>13, <2>1 DEF IInv, BucketInv
    <3>2. \A h \in 1..i : h \in DOMAIN modules /\ h # n
      BY <1>2, <2>1
    <3>. QED BY <1>10, <1>13, <3>1, <3>2
  <2>2. Own(f) \subseteq Merged(ms)
    BY <1>2, <1>7, <1>9
  <2>3. ASSUME NEW k \in Merged(ms), k # Base
        PROVE  \E h \in 1..n : Won(h)' /\ k \in Own(modules'[h].branch.line)
    <3>1. PICK i \in 1..n : k \in ms[i].branch.bucket
      BY <1>9, <2>3
    <3>2. CASE i = n
      BY <1>2, <1>7, <1>10, <1>13, <3>1, <3>2
    <3>3. CASE i # n
      <4>1. \E h \in 1..i : Won(h)' /\ k \in Own(modules'[h].branch.line)
        BY <1>2, <1>6, <2>1, <2>3, <3>1, <3>3
      <4>2. \A h \in 1..i : h \in 1..n
        BY <3>1
      <4>. QED BY <4>1, <4>2
    <3>. QED BY <3>2, <3>3
  <2>4. ASSUME NEW i \in DOMAIN modules
        PROVE  /\ Own(modules'[i].branch.line) \subseteq modules'[i].branch.bucket
               /\ \A k \in modules'[i].branch.bucket : k = Base \/
                    \E h \in 1..i : Won(h)' /\ k \in Own(modules'[h].branch.line)
    <3>1. CASE i = n
      BY <1>10, <2>2, <2>3, <3>1
    <3>2. CASE i # n
      BY <1>10, <2>1, <3>2
    <3>. QED BY <3>1, <3>2
  <2>. QED BY <1>1, <1>10, <2>4, SameLines DEF BucketInv
<1>22. ExitInv'
  BY <1>1 DEF ExitInv
<1>23. OrderInv'
  <2>1. \A i \in DOMAIN modules' : modules'[i].branch # NoBranch =>
            /\ i \in DOMAIN modules /\ modules[i].branch # NoBranch
            /\ modules'[i].branch.line = modules[i].branch.line
    BY <1>1, <1>2, <1>3, <1>10
  <2>. QED BY <1>10, <2>1, OrderKept
<1>. QED BY <1>14, <1>15, <1>16, <1>17, <1>18, <1>19, <1>20, <1>21, <1>22, <1>23
   DEF IInv


(* What is known while a branch is being tried.                            *)
LEMMA WhileTrying ==
    ASSUME IInv, Trying
    PROVE  /\ TypeInv /\ modules # <<>> /\ modules \in Seq(ModuleRec)
           /\ Len(modules) \in DOMAIN modules /\ DOMAIN modules = 1..Len(modules)
           /\ Last(modules) = modules[Len(modules)]
           /\ LastBranch = modules[Len(modules)].branch /\ LastBranch # NoBranch
           /\ LastBranch \in BranchRec /\ ~LastBranch.ok /\ AtGuard
           /\ LastBranch.line \in NearestGuard(line) /\ LastBranch.line \in 1..line - 1
           /\ LastBranch.line \in DOMAIN lines
           /\ Won(Len(modules)) /\ truth[LastBranch.line] = "passes"
<1>1. /\ modules # <<>> /\ LastBranch # NoBranch /\ ~LastBranch.ok /\ AtGuard
      /\ LastBranch.line \in NearestGuard(line)
  BY DEF IInv, LastInv
<1>2. TypeInv /\ modules \in Seq(ModuleRec)
  BY DEF IInv, TypeInv
<1>3. /\ Len(modules) \in DOMAIN modules /\ DOMAIN modules = 1..Len(modules)
      /\ Last(modules) = modules[Len(modules)]
  BY <1>1, <1>2, EmptySeq, LenProperties DEF Last
<1>4. modules[Len(modules)] \in ModuleRec
  BY <1>2, <1>3
<1>5. LastBranch = modules[Len(modules)].branch /\ LastBranch \in BranchRec
  BY <1>1, <1>3, <1>4 DEF LastBranch, ModuleRec
<1>6. LastBranch.line \in 1..line - 1
  BY <1>1 DEF NearestGuard
<1>7. LastBranch.line \in DOMAIN lines
  BY <1>2, <1>6, LineNumbers
<1>8. Won(Len(modules))
  BY <1>1, <1>5 DEF Won
<1>9. truth[LastBranch.line] = "passes"
  BY <1>3, <1>5, <1>7, <1>8 DEF IInv, PassedInv
<1>. QED BY <1>1, <1>2, <1>3, <1>5, <1>6, <1>7, <1>8, <1>9

(* try_passed: the branch is kept, for good.                               *)
LEMMA PassedIInv ==
    ASSUME IInv, Trying, Passed, UNCHANGED <<lines, line, truth>>
    PROVE  IInv'
<1>. PICK n : n = Len(modules)
  OBVIOUS
<1>. PICK b : b = LastBranch
  OBVIOUS
<1>1. /\ lines' = lines /\ line' = line /\ truth' = truth /\ pc' = "scan" /\ ~Trying'
  BY DEF Passed, Trying
<1>2. /\ TypeInv /\ modules # <<>> /\ modules \in Seq(ModuleRec)
      /\ n \in DOMAIN modules /\ DOMAIN modules = 1..n /\ Last(modules) = modules[n]
      /\ b = modules[n].branch /\ b # NoBranch /\ b \in BranchRec /\ Won(n)
  BY WhileTrying
<1>. DEFINE c == [b EXCEPT !.ok = TRUE]
<1>3. /\ c \in BranchRec /\ c.ok /\ c.name = b.name /\ c.bucket = b.bucket /\ c.line = b.line
  BY <1>2, BranchOk
<1>4. modules' = Changed(modules, c)
  BY DEF Passed, SetBranch, Changed
<1>. HIDE DEF c
<1>5. /\ modules' \in Seq(ModuleRec) /\ modules' # <<>> /\ Len(modules') = n
      /\ DOMAIN modules' = DOMAIN modules /\ modules'[n].branch = c
      /\ \A i \in DOMAIN modules : modules'[i].name = modules[i].name
      /\ \A i \in DOMAIN modules : i # n => modules'[i] = modules[i]
  BY <1>2, <1>3, <1>4, ChangedLast
<1>6. /\ c # NoBranch /\ Last(modules') = modules'[n] /\ LastBranch' = c
      /\ Last(modules').name = Last(modules).name
  BY <1>2, <1>3, <1>5, NoBranchIsNone DEF Last, LastBranch
<1>7. \A i \in DOMAIN modules : Won(i)' <=> Won(i)
  BY <1>1, <1>2, <1>3, <1>5, <1>6 DEF Won
<1>8. ASSUME NEW i \in DOMAIN modules
      PROVE  /\ modules'[i].branch # NoBranch <=> modules[i].branch # NoBranch
             /\ modules'[i].branch.line = modules[i].branch.line
             /\ modules'[i].branch.name = modules[i].branch.name
             /\ modules'[i].branch.bucket = modules[i].branch.bucket
  BY <1>2, <1>3, <1>5, <1>6
<1>9. TypeInv'
  BY <1>1, <1>2, <1>5 DEF TypeInv
<1>10. NamesInv'
  BY <1>1, <1>5, <1>6, <1>2, SameLines DEF IInv, NamesInv
<1>11. LastInv'
  BY <1>1, <1>3, <1>6 DEF LastInv
<1>12. BranchesInv'
  <2>1. \A i \in DOMAIN modules : i # n => modules'[i].branch # NoBranch /\ modules'[i].branch.ok
    BY <1>2, <1>5 DEF IInv, BranchesInv
  <2>. QED BY <1>1, <1>5, <1>8, <2>1, SameLines DEF IInv, BranchesInv
<1>13. OrderInv'
  BY <1>5, <1>8, OrderKept
<1>14. UntriedInv'
  BY <1>1, SameLines DEF IInv, UntriedInv
<1>15. PassedInv' /\ BucketInv'
  BY <1>1, <1>2, <1>5, <1>7, <1>8, NothingWon DEF IInv
<1>16. BlocksInv'
  <2>1. Starts' = Starts /\ \A s : IsCurrent(s)' <=> IsCurrent(s)
    BY <1>1, SameLine
  <2>2. \A s : Settled(s)' <=> Settled(s)
    BY <1>1, SameLines DEF Settled
  <2>3. Won(Len(modules)) /\ Won(Len(modules))'
    BY <1>2, <1>3, <1>5, <1>6 DEF Won
  <2>. QED BY <1>2, <2>1, <2>2, <2>3 DEF IInv, BlocksInv
<1>17. ExitInv'
  BY <1>1 DEF ExitInv
<1>. QED
  BY <1>9, <1>10, <1>11, <1>12, <1>13, <1>14, <1>15, <1>16, <1>17 DEF IInv

(* try_failed: the module has no branch, all guards so far have failed.    *)
LEMMA FailedIInv ==
    ASSUME IInv, Trying, Failed, UNCHANGED <<lines, line>>,
           truth' = [truth EXCEPT ![LastBranch.line] = "fails"]
    PROVE  IInv'
<1>. PICK n : n = Len(modules)
  OBVIOUS
<1>. PICK f : f = LastBranch.line
  OBVIOUS
<1>1. /\ lines' = lines /\ line' = line /\ pc' = "scan" /\ ~Trying'
  BY DEF Failed, Trying
<1>2. /\ TypeInv /\ modules # <<>> /\ modules \in Seq(ModuleRec)
      /\ n \in DOMAIN modules /\ DOMAIN modules = 1..n /\ Last(modules) = modules[n]
      /\ modules[n].branch # NoBranch /\ modules[n].branch.line = f
      /\ AtGuard /\ Won(n)
      /\ f \in NearestGuard(line) /\ f \in 1..line - 1 /\ f \in DOMAIN lines
      /\ truth[f] = "passes"
  BY WhileTrying
<1>3. modules' = Changed(modules, NoBranch)
  BY DEF Failed, SetBranch, Changed
<1>4. /\ modules' \in Seq(ModuleRec) /\ modules' # <<>> /\ Len(modules') = n
      /\ DOMAIN modules' = DOMAIN modules /\ modules'[n].branch = NoBranch
      /\ \A i \in DOMAIN modules : modules'[i].name = modules[i].name
      /\ \A i \in DOMAIN modules : i # n => modules'[i] = modules[i]
  BY <1>2, <1>3, ChangedLast
<1>5. /\ Last(modules') = modules'[n] /\ LastBranch' = NoBranch
      /\ Last(modules').name = Last(modules).name
  BY <1>2, <1>4 DEF Last, LastBranch
<1>6. truth \in [DOMAIN lines -> {"untried", "passes", "fails"}]
      /\ \A k \in DOMAIN lines : truth'[k] = IF k = f THEN "fails" ELSE truth[k]
  BY <1>2 DEF TypeInv
<1>7. ~Won(n)' /\ \A i \in DOMAIN modules : i # n =>
        Won(i) /\ Won(i)' /\ modules[i].branch # NoBranch /\ modules[i].branch.ok
  <2>1. \A i \in DOMAIN modules : i # n => modules[i].branch # NoBranch /\ modules[i].branch.ok
    BY DEF IInv, BranchesInv
  <2>. QED BY <1>4, <2>1 DEF Won
<1>8. TypeInv'
  BY <1>1, <1>2, <1>4, <1>6 DEF TypeInv
<1>9. NamesInv'
  BY <1>1, <1>2, <1>4, <1>5, SameLines DEF IInv, NamesInv
<1>10. LastInv'
  <2>1. AtGuard'
    BY <1>1, <1>2, SameLines DEF AtGuard, AtEnd, IsGuard
  <2>. QED BY <1>1, <1>5, <2>1 DEF LastInv
<1>11. BranchesInv'
  <2>1. ASSUME NEW i \in DOMAIN modules, i # n
        PROVE  LET b == modules'[i].branch IN
                /\ b.line \in 1..line - 1 /\ IsGuard(b.line)
                /\ b.name = lines[b.line].branch
                /\ modules'[i].name = lines[b.line].module
                /\ b # NoBranch /\ b.ok
    BY <1>4, <1>7, <2>1 DEF IInv, BranchesInv
  <2>. QED BY <1>1, <1>4, <2>1, SameLines DEF BranchesInv
<1>12. OrderInv'
  BY <1>4, <1>7, OrderKept
<1>13. UntriedInv'
  <2>1. f < line /\ IsGuard(f) /\ ~(f >= line)
    BY <1>2, LineNumbers DEF NearestGuard
  <2>. QED BY <1>1, <1>6, <2>1, SameLines DEF IInv, UntriedInv
<1>14. PassedInv'
  <2>1. SUFFICES ASSUME NEW k \in DOMAIN lines
                 PROVE  truth'[k] = "passes" <=>
                          \E i \in DOMAIN modules : Won(i)' /\ modules'[i].branch.line = k
    BY <1>1, <1>4 DEF PassedInv
  <2>2. truth[k] = "passes" <=> \E i \in DOMAIN modules : Won(i) /\ modules[i].branch.line = k
    BY DEF IInv, PassedInv
  <2>3. \A i \in DOMAIN modules : i # n => modules[i].branch.line # f
    BY <1>2, <1>7 DEF IInv, OrderInv
  <2>4. CASE k = f
    BY <1>4, <1>6, <1>7, <2>3, <2>4
  <2>5. CASE k # f
    BY <1>2, <1>4, <1>6, <1>7, <2>2, <2>5
  <2>. QED BY <2>4, <2>5
<1>15. BlocksInv'
  <2>1. Starts' = Starts /\ \A s : IsCurrent(s)' <=> IsCurrent(s)
    BY <1>1, SameLine
  <2>2. ~Won(Len(modules))'
    BY <1>4, <1>5 DEF Won
  <2>3. \E s \in Starts : IsCurrent(s)
    BY <1>2 DEF IInv, BlocksInv
  <2>4. ASSUME NEW s \in Starts
        PROVE  IF IsCurrent(s) THEN Pending(s)' ELSE Settled(s)'
    <3>1. IsCurrent(s) <=> SameBlock(s, f)
      BY <1>2, CurrentBlock, LineNumbers DEF Starts, IsCurrent
    <3>2. Settled(s)
      BY <1>2 DEF IInv, BlocksInv
    <3>3. PICK j \in DOMAIN lines : SameBlock(s, j) /\ \A k \in DOMAIN lines :
              SameBlock(s, k) => truth[k] =
                  IF k < j THEN "fails" ELSE IF k = j THEN "passes" ELSE "untried"
      BY <3>2 DEF Settled
    <3>4. CASE IsCurrent(s)
      <4>1. j = f
        BY <1>2, <3>1, <3>3, <3>4
      <4>2. ASSUME NEW k \in DOMAIN lines, SameBlock(s, k)
            PROVE  k <= f \/ k >= line
        <5>1. IsGuard(k)
          BY <4>2 DEF SameBlock
        <5>2. \A i \in f + 1..line - 1 : ~IsGuard(i)
          BY <1>2 DEF NearestGuard
        <5>. QED BY <1>2, <5>1, <5>2, LineNumbers
      <4>3. ToTry' = line
        BY <1>1, <1>5 DEF ToTry
      <4>4. \A k \in DOMAIN lines : k \in Nat /\ f \in Nat /\ line \in Nat /\ f < line
        BY <1>2, LineNumbers
      <4>5. ASSUME NEW k \in DOMAIN lines, SameBlock(s, k)
            PROVE  truth'[k] = IF k < line THEN "fails" ELSE "untried"
        <5>1. CASE k = f
          BY <1>6, <4>4, <5>1
        <5>2. CASE k # f
          <6>1. truth'[k] = IF k < f THEN "fails" ELSE "untried"
            BY <1>6, <3>3, <4>1, <4>5, <5>2
          <6>2. k < f <=> k < line
            BY <4>2, <4>4, <4>5, <5>2
          <6>. QED BY <6>1, <6>2
        <5>. QED BY <5>1, <5>2
      <4>. QED BY <1>1, <3>4, <4>3, <4>5, SameLines DEF Pending
    <3>5. CASE ~IsCurrent(s)
      <4>1. \A k \in DOMAIN lines : SameBlock(s, k) => truth'[k] = truth[k]
        BY <1>6, <3>1, <3>5
      <4>. QED BY <1>1, <3>3, <3>5, <4>1, SameLines DEF Settled
    <3>. QED BY <3>4, <3>5
  <2>. QED BY <2>1, <2>2, <2>3, <2>4 DEF BlocksInv
<1>16. BucketInv'
  <2>1. ASSUME NEW i \in DOMAIN modules, i # n
        PROVE  /\ Own(modules[i].branch.line) \subseteq modules[i].branch.bucket
               /\ \A k \in modules[i].branch.bucket : k = Base \/
                    \E h \in 1..i : Won(h)' /\ k \in Own(modules'[h].branch.line)
    <3>1. /\ Own(modules[i].branch.line) \subseteq modules[i].branch.bucket
          /\ \A k \in modules[i].branch.bucket :
                k = Base \/ \E h \in 1..i : Won(h) /\ k \in Own(modules[h].branch.line)
      BY <1>7, <2>1 DEF IInv, BucketInv
    <3>2. Len(modules) \in Nat
      BY <1>2, LineNumbers
    <3>3. \A h \in 1..i : h \in DOMAIN modules /\ h # n
      BY <1>2, <2>1, <3>2
    <3>. QED BY <1>4, <1>7, <3>1, <3>3
  <2>. QED BY <1>1, <1>4, <1>7, <2>1, SameLines DEF BucketInv
<1>17. ExitInv'
  BY <1>1 DEF ExitInv
<1>. QED
  BY <1>8, <1>9, <1>10, <1>11, <1>12, <1>13, <1>14, <1>15, <1>16, <1>17 DEF IInv


(* A command passes, and the branch with it or another command comes next, *)
(* or it fails and says so.                                                *)
LEMMA VerdictIInv ==
    ASSUME IInv, Trying, UNCHANGED <<lines, line>>, NEW outcome, Command(outcome),
           \/ outcome = "fails" /\ Failed
           \/ outcome = "passes" /\ Passed
           \/ outcome = "passes" /\ pc' \in {"link", "exec"} /\ UNCHANGED modules
    PROVE  IInv'
<1>1. CASE outcome = "fails" /\ Failed
  <2>1. truth' = [truth EXCEPT ![LastBranch.line] = "fails"]
    BY <1>1 DEF Command
  <2>. QED BY <1>1, <2>1, FailedIInv
<1>2. outcome = "passes" => truth' = truth
  BY DEF Command, IInv, TypeInv
<1>3. CASE outcome = "passes" /\ Passed
  BY <1>2, <1>3, PassedIInv
<1>4. CASE outcome = "passes" /\ pc' \in {"link", "exec"} /\ UNCHANGED modules
  <2>1. UNCHANGED <<lines, line, modules, truth>> /\ Trying'
    BY <1>2, <1>4 DEF Trying
  <2>2. TypeInv'
    BY <1>4, <2>1 DEF IInv, TypeInv
  <2>3. LastInv'
    <3>1. LastBranch' = LastBranch /\ (AtGuard' <=> AtGuard)
      BY <2>1, SameLines DEF LastBranch, AtGuard, AtEnd
    <3>2. NearestGuard(line)' = NearestGuard(line)
      BY <2>1, SameLines DEF NearestGuard, IsGuard
    <3>. QED BY <2>1, <3>1, <3>2, WhileTrying DEF IInv, LastInv
  <2>4. ExitInv'
    BY <1>4 DEF ExitInv
  <2>. QED BY <2>1, <2>2, <2>3, <2>4, PcOnly DEF IInv
<1>. QED BY <1>1, <1>3, <1>4

LEMMA CommandsIInv == ASSUME Silent = FALSE, IInv, Compile \/ Link \/ Exec PROVE IInv'
<1>1. Trying /\ UNCHANGED <<lines, line>>
  BY DEF Compile, Link, Exec, Trying
<1>2. Outcome = {"passes", "fails"}
  BY DEF Outcome
<1>3. CASE Compile
  <2>1. PICK outcome \in Outcome :
          /\ Command(outcome)
          /\ IF BuildFailed(outcome) THEN Failed
             ELSE IF ~LastBranch.link THEN Passed
             ELSE pc' = "link" /\ UNCHANGED modules
    BY <1>3 DEF Compile
  <2>. QED BY <1>1, <1>2, <2>1, VerdictIInv DEF BuildFailed
<1>4. CASE Link
  <2>1. PICK outcome \in Outcome :
          /\ Command(outcome)
          /\ IF BuildFailed(outcome) THEN Failed
             ELSE IF ~LastBranch.exec THEN Passed
             ELSE pc' = "exec" /\ UNCHANGED modules
    BY <1>4 DEF Link
  <2>. QED BY <1>1, <1>2, <2>1, VerdictIInv DEF BuildFailed
<1>5. CASE Exec
  BY <1>1, <1>5, VerdictIInv DEF Exec
<1>. QED BY <1>3, <1>4, <1>5

(* The end of the file: no module without a branch, and the file that is   *)
(* left has the flags of the branches, whatever earlier tries wrote.       *)
LEMMA EndOfFileIInv == ASSUME IInv, EndOfFile PROVE IInv'
<1>. PICK n : n = Len(modules)
  OBVIOUS
<1>1. /\ lines' = lines /\ line' = line /\ truth' = truth /\ pc = "scan"
      /\ AtEnd /\ AtEnd' /\ AtGuard' /\ Tried /\ ~Trying /\ ~Trying'
      /\ modules \in Seq(ModuleRec)
  BY DEF EndOfFile, AtGuard, AtEnd, Trying, IInv, TypeInv
<1>2. CASE ModuleFailed \/ modules = <<>>
  <2>1. pc' = "exit failure" /\ UNCHANGED <<lines, line, modules, truth>>
    BY <1>1, <1>2 DEF EndOfFile
  <2>2. TypeInv'
    BY <2>1 DEF IInv, TypeInv
  <2>3. LastBranch' = LastBranch
    BY <2>1 DEF LastBranch
  <2>4. LastInv'
    BY <1>1, <1>2, <2>1, <2>3 DEF LastInv, ModuleFailed
  <2>5. ExitInv'
    BY <1>1, <1>2, <2>1, <2>3 DEF ExitInv, ModuleFailed
  <2>. QED BY <1>1, <2>1, <2>2, <2>4, <2>5, PcOnly DEF IInv
<1>3. CASE ~ModuleFailed /\ modules # <<>>
  <2>1. pc' = "exit success" /\ WriteFiles(modules)
    BY <1>3 DEF EndOfFile
  <2>2. /\ n \in DOMAIN modules /\ DOMAIN modules = 1..n /\ Last(modules) = modules[n]
        /\ n \in Nat /\ \A i \in DOMAIN modules : modules[i].branch \in BranchRec \cup {NoBranch}
    <3>1. \A i \in DOMAIN modules : modules[i] \in ModuleRec
      BY <1>1
    <3>. QED BY <1>1, <1>3, <3>1, EmptySeq, LenProperties DEF Last, ModuleRec
  <2>3. \A i \in DOMAIN modules : modules[i].branch # NoBranch /\ modules[i].branch.ok
    BY <1>1, <1>3, <2>2 DEF ModuleFailed, LastBranch, Tried, IInv, BranchesInv
  <2>4. modules' = [modules EXCEPT ![Len(modules)].branch.bucket = Merged(modules)]
    BY <2>1 DEF WriteFiles
  <2>5. /\ modules' \in Seq(ModuleRec) /\ modules' # <<>> /\ Len(modules') = n
        /\ DOMAIN modules' = DOMAIN modules
        /\ \A i \in DOMAIN modules : modules'[i].name = modules[i].name
        /\ \A i \in DOMAIN modules : i # n => modules'[i] = modules[i]
        /\ modules'[n].branch \in BranchRec /\ modules'[n].branch.ok
        /\ modules'[n].branch.name = modules[n].branch.name
        /\ modules'[n].branch.bucket = Merged(modules)
        /\ modules'[n].branch.line = modules[n].branch.line
    <3>1. \A i \in DOMAIN modules : modules[i].branch \in BranchRec
      BY <2>2, <2>3
    <3>. QED BY <1>1, <1>3, <2>2, <2>3, <2>4, <3>1, WritesBucket
  <2>6. ASSUME NEW i \in DOMAIN modules
        PROVE  /\ modules'[i].branch # NoBranch /\ modules'[i].branch.ok
               /\ modules'[i].branch.line = modules[i].branch.line
               /\ modules'[i].branch.name = modules[i].branch.name
               /\ Won(i) /\ Won(i)'
    BY <2>2, <2>3, <2>5, NoBranchIsNone DEF Won
  <2>7. Last(modules') = modules'[n] /\ LastBranch' = modules'[n].branch
    BY <2>5 DEF Last, LastBranch
  <2>8. TypeInv'
    BY <1>1, <2>1, <2>5 DEF IInv, TypeInv
  <2>9. NamesInv'
    BY <1>1, <1>3, <2>2, <2>5, <2>7, SameLines DEF IInv, NamesInv
  <2>10. LastInv'
    BY <1>1, <2>2, <2>6, <2>7 DEF LastInv
  <2>11. BranchesInv'
    <3>1. ASSUME NEW i \in DOMAIN modules
          PROVE  /\ modules[i].branch.line \in 1..line - 1 /\ IsGuard(modules[i].branch.line)
                 /\ modules[i].branch.name = lines[modules[i].branch.line].branch
                 /\ modules[i].name = lines[modules[i].branch.line].module
      BY <2>3 DEF IInv, BranchesInv
    <3>2. ASSUME NEW i \in DOMAIN modules'
          PROVE  LET b == modules'[i].branch IN
                  /\ b.line \in 1..line' - 1 /\ IsGuard(b.line)
                  /\ b.name = lines[b.line].branch /\ modules'[i].name = lines[b.line].module
                  /\ b # NoBranch /\ b.ok
      BY <1>1, <2>5, <2>6, <3>1
    <3>. QED BY <1>1, <3>2, SameLines DEF BranchesInv
  <2>12. OrderInv'
    <3>1. \A i \in DOMAIN modules' : /\ i \in DOMAIN modules /\ modules[i].branch # NoBranch
                                    /\ modules'[i].branch.line = modules[i].branch.line
      BY <2>3, <2>5, <2>6
    <3>. QED BY <2>5, <3>1, OrderKept
  <2>13. UntriedInv'
    BY <1>1, SameLines DEF IInv, UntriedInv
  <2>14. PassedInv'
    BY <1>1, <2>5, <2>6, SameLines DEF IInv, PassedInv
  <2>15. BlocksInv'
    <3>1. Starts' = Starts /\ \A s : IsCurrent(s)' <=> IsCurrent(s)
      BY <1>1, SameLine
    <3>2. \A s : Settled(s)' <=> Settled(s)
      BY <1>1, SameLines DEF Settled
    <3>3. Won(Len(modules)) /\ Won(Len(modules))'
      BY <2>2, <2>5, <2>6, <2>7 DEF Won
    <3>. QED BY <1>3, <3>1, <3>2, <3>3 DEF IInv, BlocksInv
  <2>16. \A k : k \in Merged(modules) <=>
            k = Base \/ \E i \in 1..n : k \in modules[i].branch.bucket
    BY <2>2 DEF Merged
  <2>17. ASSUME NEW k \in Merged(modules), k # Base
         PROVE  \E h \in 1..n : k \in Own(modules[h].branch.line)
    <3>1. PICK i \in 1..n : k \in modules[i].branch.bucket
      BY <2>16, <2>17
    <3>2. \E h \in 1..i : k \in Own(modules[h].branch.line)
      BY <2>2, <2>6, <2>17, <3>1 DEF IInv, BucketInv
    <3>3. \A h \in 1..i : h \in 1..n
      BY <3>1
    <3>. QED BY <3>2, <3>3
  <2>18. \A i \in DOMAIN modules : Own(modules[i].branch.line) \subseteq Merged(modules)
    BY <2>2, <2>6, <2>16 DEF IInv, BucketInv
  <2>19. BucketInv'
    <3>1. ASSUME NEW i \in DOMAIN modules
          PROVE  /\ Own(modules'[i].branch.line) \subseteq modules'[i].branch.bucket
                 /\ \A k \in modules'[i].branch.bucket : k = Base \/
                      \E h \in 1..i : Won(h)' /\ k \in Own(modules'[h].branch.line)
      <4>1. CASE i = n
        BY <2>2, <2>5, <2>6, <2>17, <2>18, <4>1
      <4>2. CASE i # n
        <5>1. /\ Own(modules[i].branch.line) \subseteq modules[i].branch.bucket
              /\ \A k \in modules[i].branch.bucket :
                    k = Base \/ \E h \in 1..i : k \in Own(modules[h].branch.line)
          BY <2>6 DEF IInv, BucketInv
        <5>2. \A h \in 1..i : h \in DOMAIN modules
          BY <2>2
        <5>. QED BY <2>5, <2>6, <4>2, <5>1, <5>2
      <4>. QED BY <4>1, <4>2
    <3>. QED BY <1>1, <2>5, <3>1, SameLines DEF BucketInv
  <2>20. ExitInv'
    <3>1. header' = {<<modules'[i].name, modules'[i].branch.name>> : i \in DOMAIN modules'}
      <4>1. header' = {<<modules[i].name, modules[i].branch.name>> : i \in DOMAIN modules}
        BY <2>1 DEF WriteFiles
      <4>. QED BY <2>5, <2>6, <4>1
    <3>2. hconf' = {Base} \cup UNION {Own(modules'[i].branch.line) : i \in DOMAIN modules'}
      <4>1. hconf' = Merged(modules)
        BY <2>1 DEF WriteFiles
      <4>2. \A k : k \in hconf' <=>
                k = Base \/ \E i \in DOMAIN modules' : k \in Own(modules'[i].branch.line)
        BY <2>2, <2>5, <2>6, <2>16, <2>17, <2>18, <4>1
      <4>. QED BY <4>2
    <3>3. LastBranch' # NoBranch /\ LastBranch'.ok
      BY <2>2, <2>6, <2>7
    <3>. QED BY <1>1, <2>1, <2>5, <3>1, <3>2, <3>3, SameLines DEF ExitInv
  <2>. QED
    BY <2>8, <2>9, <2>10, <2>11, <2>12, <2>13, <2>14, <2>15, <2>19, <2>20 DEF IInv
<1>. QED BY <1>2, <1>3

-----------------------------------------------------------------------------
(* The theorems.                                                           *)

LEMMA InitIInv == ASSUME Init PROVE IInv
<1>1. /\ line = 1 /\ modules = <<>> /\ pc = "scan" /\ ~Trying
      /\ truth = [i \in DOMAIN lines |-> "untried"] /\ Len(modules) = 0
      /\ DOMAIN modules = {}
  BY DEF Init, Trying
<1>2. lines \in Seq(Guard \cup Comment)
  <2>1. PICK n \in 0 .. MaxLines : lines \in [1 .. n -> Guard \cup Comment]
    BY DEF Init
  <2>. QED BY <2>1, HeaderAssumption
<1>3. \A k : k \notin 1..line - 1
  BY <1>1
<1>4. TypeInv
  <2>1. 1 \in 1..Len(lines) + 1
    BY <1>2, LenProperties
  <2>. QED BY <1>1, <1>2, <2>1 DEF TypeInv
<1>5. NamesInv /\ LastInv /\ BranchesInv /\ OrderInv /\ UntriedInv /\ PassedInv /\ BucketInv
  BY <1>1, <1>3 DEF NamesInv, LastInv, BranchesInv, OrderInv, UntriedInv, PassedInv, BucketInv
<1>6. BlocksInv
  BY <1>1, <1>3 DEF BlocksInv, Starts
<1>7. ExitInv
  BY <1>1 DEF ExitInv
<1>. QED BY <1>4, <1>5, <1>6, <1>7 DEF IInv

LEMMA NextIInv == ASSUME Silent = FALSE, IInv, [Next]_vars PROVE IInv'
<1>1. CASE Try
  BY <1>1, TryIInv
<1>2. CASE Compile \/ Link \/ Exec
  BY <1>2, CommandsIInv
<1>3. CASE NextBranch
  BY <1>3, NextBranchIInv
<1>4. CASE NextModule
  BY <1>4, NextModuleIInv
<1>5. CASE Variable
  BY <1>5, VariableIInv
<1>6. CASE EndOfFile
  BY <1>6, EndOfFileIInv
<1>7. CASE UNCHANGED vars
  <2>1. /\ UNCHANGED <<lines, line, modules, truth>> /\ pc' = pc
        /\ header' = header /\ hconf' = hconf /\ (Trying' <=> Trying)
    BY <1>7 DEF vars, files, Trying
  <2>2. TypeInv'
    BY <2>1 DEF IInv, TypeInv
  <2>3. LastBranch' = LastBranch /\ (AtGuard' <=> AtGuard) /\ (AtEnd' <=> AtEnd)
    BY <2>1, SameLines DEF LastBranch, AtGuard, AtEnd
  <2>4. NearestGuard(line)' = NearestGuard(line)
    BY <2>1 DEF NearestGuard, IsGuard
  <2>5. LastInv'
    BY <2>1, <2>3, <2>4 DEF IInv, LastInv
  <2>6. ExitInv'
    BY <2>1, <2>3, SameLines DEF IInv, ExitInv
  <2>. QED BY <2>1, <2>2, <2>5, <2>6, PcOnly DEF IInv
<1>. QED BY <1>1, <1>2, <1>3, <1>4, <1>5, <1>6, <1>7 DEF Next

LEMMA HconfInvariant == ASSUME Silent = FALSE PROVE Spec => []IInv
<1>1. Init => IInv
  BY InitIInv
<1>2. IInv /\ [Next]_vars => IInv'
  BY NextIInv
<1>. QED BY <1>1, <1>2, PTL DEF Spec

(* At the end every branch is kept, and every guard has been read.         *)
LEMMA AtSuccess ==
    ASSUME IInv, pc = "exit success"
    PROVE  /\ line = Len(lines) + 1 /\ DOMAIN lines = 1..line - 1
           /\ \A i \in DOMAIN modules : Won(i) /\ modules[i].branch.line \in DOMAIN lines
           /\ \A s \in Starts : Settled(s)
<1>1. /\ AtEnd /\ modules # <<>> /\ LastBranch # NoBranch /\ LastBranch.ok
  BY DEF IInv, ExitInv
<1>2. TypeInv
  BY DEF IInv
<1>3. /\ line = Len(lines) + 1 /\ DOMAIN lines = 1..line - 1
  <2>1. /\ Len(lines) \in Nat /\ line \in Nat /\ line <= Len(lines) + 1
        /\ line > Len(lines) /\ DOMAIN lines = 1..Len(lines)
    BY <1>1, <1>2, LineNumbers DEF AtEnd
  <2>2. line = Len(lines) + 1
    BY ONLY <2>1
  <2>3. line - 1 = Len(lines)
    BY ONLY <2>1, <2>2
  <2>. QED BY <2>1, <2>2, <2>3
<1>4. \A i \in DOMAIN modules : Won(i)
  BY <1>1 DEF IInv, BranchesInv, Won, LastBranch, Last
<1>5. Won(Len(modules))
  BY <1>1 DEF Won, LastBranch, Last
<1>. QED BY <1>3, <1>4, <1>5 DEF IInv, BranchesInv, BlocksInv, Won

LEMMA IInvChoice == ASSUME IInv PROVE FirstPassingChosen
<1>1. ASSUME pc = "exit success", NEW i \in DOMAIN lines, StartsModule(i)
      PROVE  \E j \in Chosen(i) : \A k \in DOMAIN lines : SameBlock(i, k) =>
                truth[k] = IF k < j THEN "fails" ELSE IF k = j THEN "passes" ELSE "untried"
  <2>1. Settled(i)
    BY <1>1, AtSuccess DEF Starts
  <2>2. PICK j \in DOMAIN lines : SameBlock(i, j) /\ \A k \in DOMAIN lines : SameBlock(i, k) =>
            truth[k] = IF k < j THEN "fails" ELSE IF k = j THEN "passes" ELSE "untried"
    BY <2>1 DEF Settled
  <2>3. ~(j < j)
    BY LineNumbers DEF IInv
  <2>4. j \in Chosen(i)
    BY <2>2, <2>3 DEF Chosen
  <2>. QED BY <2>2, <2>4
<1>2. ASSUME pc = "exit success"
      PROVE  header = {<<lines[j].module, lines[j].branch>> :
                        j \in {i \in DOMAIN lines : truth[i] = "passes"}}
  <2>1. header = {<<modules[i].name, modules[i].branch.name>> : i \in DOMAIN modules}
    BY <1>2 DEF IInv, ExitInv
  <2>2. ASSUME NEW i \in DOMAIN modules
        PROVE  /\ modules[i].branch.line \in DOMAIN lines
               /\ truth[modules[i].branch.line] = "passes"
               /\ modules[i].branch.name = lines[modules[i].branch.line].branch
               /\ modules[i].name = lines[modules[i].branch.line].module
    BY <1>2, AtSuccess DEF IInv, PassedInv, BranchesInv, Won
  <2>3. ASSUME NEW j \in DOMAIN lines, truth[j] = "passes"
        PROVE  \E i \in DOMAIN modules : modules[i].branch.line = j
    BY <2>3 DEF IInv, PassedInv
  <2>4. ASSUME NEW h \in header
        PROVE  \E j \in DOMAIN lines : truth[j] = "passes" /\ h = <<lines[j].module, lines[j].branch>>
    BY <2>1, <2>2, <2>4
  <2>5. ASSUME NEW j \in DOMAIN lines, truth[j] = "passes"
        PROVE  <<lines[j].module, lines[j].branch>> \in header
    BY <2>1, <2>2, <2>3, <2>5
  <2>. QED BY <2>4, <2>5
<1>3. ASSUME pc = "exit failure", modules = <<>>
      PROVE  \A i \in DOMAIN lines : ~IsGuard(i)
  <2>1. AtEnd
    BY <1>3 DEF IInv, ExitInv
  <2>2. DOMAIN lines = 1..line - 1
    BY <2>1, LineNumbers DEF IInv, AtEnd
  <2>. QED BY <1>3, <2>2 DEF IInv, NamesInv
<1>4. ASSUME pc = "exit failure", modules # <<>>
      PROVE  \E i \in DOMAIN lines : StartsModule(i) /\ Chosen(i) = {} /\ truth[i] = "fails"
  <2>1. LastBranch = NoBranch
    BY <1>4 DEF IInv, ExitInv
  <2>2. ~Won(Len(modules))
    BY <2>1 DEF Won, LastBranch, Last
  <2>3. PICK s \in Starts : IsCurrent(s)
    BY <1>4 DEF IInv, BlocksInv
  <2>4. Pending(s)
    BY <2>2, <2>3 DEF IInv, BlocksInv
  <2>5. \A k \in DOMAIN lines : SameBlock(s, k) =>
            truth[k] = IF k < line THEN "fails" ELSE "untried"
    BY <2>1, <2>4 DEF Pending, ToTry
  <2>6. /\ s \in DOMAIN lines /\ s < line /\ StartsModule(s)
        /\ s <= s /\ \A k \in s + 1..s : FALSE
    BY LineNumbers DEF IInv, Starts
  <2>7. SameBlock(s, s)
    BY <2>6 DEF SameBlock, StartsModule
  <2>8. Chosen(s) = {}
    BY <2>5 DEF Chosen
  <2>. QED BY <2>5, <2>6, <2>7, <2>8
<1>. QED BY <1>1, <1>2, <1>3, <1>4 DEF FirstPassingChosen

LEMMA IInvFlags == ASSUME IInv PROVE OnlyChosenFlags
<1>. SUFFICES ASSUME pc = "exit success"
              PROVE  hconf = {Base} \cup {i \in DOMAIN lines : lines[i].kind = "flag"
                                            /\ \E j \in NearestGuard(i) : truth[j] = "passes"}
  BY DEF OnlyChosenFlags
<1>1. \A k : k \in hconf <=> k = Base \/ \E i \in DOMAIN modules : k \in Own(modules[i].branch.line)
  <2>1. hconf = {Base} \cup UNION {Own(modules[i].branch.line) : i \in DOMAIN modules}
    BY DEF IInv, ExitInv
  <2>. QED BY <2>1
<1>2. ASSUME NEW k, NEW i \in DOMAIN modules, k \in Own(modules[i].branch.line)
      PROVE  /\ k \in DOMAIN lines /\ lines[k].kind = "flag"
             /\ \E j \in NearestGuard(k) : truth[j] = "passes"
  <2>1. truth[modules[i].branch.line] = "passes"
    BY AtSuccess DEF IInv, PassedInv
  <2>. QED BY <1>2, <2>1 DEF Own
<1>3. ASSUME NEW k \in DOMAIN lines, lines[k].kind = "flag",
             NEW j \in NearestGuard(k), truth[j] = "passes"
      PROVE  \E i \in DOMAIN modules : k \in Own(modules[i].branch.line)
  <2>1. j \in DOMAIN lines
    <3>1. Len(lines) \in Nat /\ DOMAIN lines = 1..Len(lines)
      BY LineNumbers DEF IInv
    <3>2. j \in 1..k - 1
      BY <1>3 DEF NearestGuard
    <3>3. k \in 1..Len(lines)
      BY <3>1, <1>3
    <3>4. k \in Int /\ k <= Len(lines)
      BY ONLY <3>1, <3>3
    <3>5. j \in Int /\ 1 <= j /\ j <= k - 1
      BY ONLY <3>2, <3>4
    <3>6. 1 <= j /\ j <= Len(lines)
      BY ONLY <3>1, <3>4, <3>5
    <3>. QED BY ONLY <3>1, <3>5, <3>6
  <2>2. PICK i \in DOMAIN modules : modules[i].branch.line = j
    BY <1>3, <2>1 DEF IInv, PassedInv
  <2>. QED BY <1>3, <2>2 DEF Own
<1>. QED BY <1>1, <1>2, <1>3

(* Whatever the header and the commands, main() leaves with the first      *)
(* guard of every module that passed, or fails for a module all of whose   *)
(* guards up to there have failed, if a command that fails writes a line:  *)
(* build() takes one without for a success (run MCHconfSilent).            *)
THEOREM FirstIsChosen == ASSUME Silent = FALSE PROVE Spec => []FirstPassingChosen
<1>1. IInv => FirstPassingChosen
  BY IInvChoice
<1>. QED BY <1>1, HconfInvariant, PTL

(* The file that main() leaves has the flags of the chosen guards, though  *)
(* write_files() has written it for every guard tried, and has put the     *)
(* flags of all modules into the bucket of the last, which the next        *)
(* writing merges again.                                                   *)
THEOREM ChosenFlagsOnly == ASSUME Silent = FALSE PROVE Spec => []OnlyChosenFlags
<1>1. IInv => OnlyChosenFlags
  BY IInvFlags
<1>. QED BY <1>1, HconfInvariant, PTL
=============================================================================
