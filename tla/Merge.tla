------------------------------- MODULE Merge -------------------------------
(***************************************************************************)
(* merge() of hgmake/common.c, with the list sort of tailqsort.h: the      *)
(* flags of several hconf files made into one list per variable.  A line   *)
(* of a file is a sequence of words.  Not modelled: files that cannot be   *)
(* read, -framework, and escaped blanks.                                   *)
(***************************************************************************)
EXTENDS Integers, Sequences, FiniteSets, SequencesExt

CONSTANTS
    Bare,       (* the words that are a dash and one character             *)
    Sorted,     (* all -D and other flags of CPPFLAGS, in strcmp() order   *)
    DName(_)    (* the name a -D flag defines, "" for other flags          *)

(* -X takes the next word as its value, whatever it is; only -W does not.  *)
RECURSIVE Flags(_)
Flags(words) ==
    IF words = <<>> THEN <<>>
    ELSE IF words[1] \in Bare \ {"-W"} /\ Len(words) > 1
    THEN <<words[1] \o words[2]>> \o Flags(SubSeq(words, 3, Len(words)))
    ELSE <<words[1]>> \o Flags(Tail(words))

(* All flags of a variable: those of later files behind, and for LIBS in   *)
(* front of those of earlier ones, but in the order given.                 *)
RECURSIVE Gathered(_, _)
Gathered(var, files) ==
    IF files = <<>> THEN <<>>
    ELSE IF var = "LIBS" THEN Flags(Last(files)) \o Gathered(var, Front(files))
    ELSE Gathered(var, Front(files)) \o Flags(Last(files))

-----------------------------------------------------------------------------
(* TAILQ_SORT_DEFINE.                                                      *)

Rank(flag) == CHOOSE i \in DOMAIN Sorted : Sorted[i] = flag

(* cmp() of two flags, each with its place in the original list.           *)
Strcmp(a, b) == Rank(a[1]) - Rank(b[1])

TakeRight(c) == c > 0

RECURSIVE MergeSorted(_, _)
MergeSorted(left, right) ==
    IF left = <<>> \/ right = <<>> THEN left \o right
    ELSE IF TakeRight(Strcmp(Head(left), Head(right)))
    THEN <<Head(right)>> \o MergeSorted(left, Tail(right))
    ELSE <<Head(left)>> \o MergeSorted(Tail(left), right)

RECURSIVE MergeSort(_)
MergeSort(list) ==
    LET middle == Len(list) \div 2
    IN  IF Len(list) <= 1 THEN list
        ELSE MergeSorted(MergeSort(SubSeq(list, 1, middle)),
                         MergeSort(SubSeq(list, middle + 1, Len(list))))

-----------------------------------------------------------------------------
(* CC: the first flag goes out, its equals behind it are removed.          *)
RECURSIVE CcMerged(_)
CcMerged(flags) ==
    IF flags = <<>> THEN <<>>
    ELSE <<Head(flags)>> \o CcMerged(SelectSeq(Tail(flags), LAMBDA f : f # Head(flags)))

(* LDFLAGS and LIBS: from the front, equals behind are removed.            *)
RECURSIVE FirstKept(_, _)
FirstKept(flags, i) ==
    IF i > Len(flags) THEN flags
    ELSE FirstKept(SubSeq(flags, 1, i) \o SelectSeq(SubSeq(flags, i + 1, Len(flags)),
                                                     LAMBDA f : f # flags[i]), i + 1)

(* CFLAGS: from the back, equals in front are removed.                     *)
LastKept(flags) == Reverse(FirstKept(Reverse(flags), 1))

(* CPPFLAGS: the flags are sorted with their place in the original list; a *)
(* -D with the name of the one before it, or an equal of the one before,   *)
(* takes that one out of the original list.                                *)
SeededReplaces(flag, prev) == flag = prev   (* seeded fault: values are kept *)

Replaces(flag, prev) ==
    IF DName(flag) # "" THEN DName(flag) = DName(prev) ELSE flag = prev

CppMerged(flags) ==
    LET sorted == MergeSort([i \in DOMAIN flags |-> <<flags[i], i>>])
        removed == {sorted[k][2] : k \in {j \in 1 .. Len(sorted) - 1 :
                                            Replaces(sorted[j + 1][1], sorted[j][1])}}
    IN  [k \in 1 .. Len(flags) - Cardinality(removed) |->
            flags[CHOOSE i \in DOMAIN flags \ removed :
                    Cardinality({j \in DOMAIN flags \ removed : j <= i}) = k]]

Merged(var, files) ==
    LET flags == Gathered(var, files) IN
    CASE var = "CC" -> CcMerged(flags)
      [] var = "CPPFLAGS" -> CppMerged(flags)
      [] var = "CFLAGS" -> LastKept(flags)
      [] OTHER -> FirstKept(flags, 1)

-----------------------------------------------------------------------------
(* Reference: the places whose flags stay, in their order.                 *)

IsIn(kept, flags) ==
    [k \in 1 .. Cardinality(kept) |->
        flags[CHOOSE i \in kept : Cardinality({j \in kept : j <= i}) = k]]

Rivals(a, b) == a = b \/ (DName(a) # "" /\ DName(a) = DName(b))

(* CPPFLAGS: one of all rivals, the one that sorts last.                   *)
OneOfRivals(flags, kept) ==
    \A i \in DOMAIN flags :
        \E k \in kept :
            /\ Rivals(flags[i], flags[k]) /\ Rank(flags[i]) <= Rank(flags[k])
            /\ \A other \in kept \ {k} : ~Rivals(flags[i], flags[other])

Stays(var, flags, i) ==
    \A j \in DOMAIN flags \ {i} : flags[j] = flags[i] => IF var = "CFLAGS" THEN j < i ELSE j > i

IsMerge(var, flags, merged) ==
    IF var = "CPPFLAGS"
    THEN \E kept \in SUBSET DOMAIN flags : OneOfRivals(flags, kept) /\ merged = IsIn(kept, flags)
    ELSE merged = IsIn({i \in DOMAIN flags : Stays(var, flags, i)}, flags)

(* Another name sorts between a name without a value and one with: -Da,    *)
(* -Da0 and -Da=1.  Replaces() compares neighbours: both of "a" stay.      *)
Torn(flags) ==
    \E a, b, c \in ToSet(flags) :
        /\ DName(a) # "" /\ DName(a) = DName(c) /\ DName(b) # DName(a)
        /\ Rank(a) < Rank(b) /\ Rank(b) < Rank(c)

(* A flag without a value before another flag is one word with it when the *)
(* result is read again.                                                   *)
Stable(flags) == \A i \in 1 .. Len(flags) - 1 : flags[i] \notin Bare \ {"-W"}
=============================================================================
