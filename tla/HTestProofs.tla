---------------------------- MODULE HTestProofs ----------------------------
(***************************************************************************)
(* Proofs about HTest: whatever the suites and their tests do, the counts  *)
(* and the exit status tell which tests failed, and the report has every   *)
(* failure once and below its test.                                        *)
(*                                                                         *)
(* Only the process that runs has anything in its buffer, for fork comes   *)
(* after a flush: the output followed by that buffer is the one stream     *)
(* that printing extends and that _exit() cuts back to the output.         *)
(***************************************************************************)
EXTENDS HTest, FiniteSetTheorems, SequenceTheorems, TLAPS

LineRec ==
    [kind : {"suite", "test", "noise", "fail", "signal", "exited", "summary"},
     test : Nat \X Nat, n : Nat]
Proc == [buf : Seq(LineRec), out : {"old", "nul"}]
Io == [procs : Seq(Proc), output : Seq(LineRec)]

InTest == pc \in {"test", "try"}
OfTest == pc \in {"test", "try", "reap"}

TypeInv ==
    /\ opt \in [recover : BOOLEAN, verbose : BOOLEAN, line : BOOLEAN]
    /\ pc \in {"suite", "tests", "test", "try", "reap", "done", "aborted"}
    /\ suite \in 0..Len(Sizes) /\ index \in Nat /\ steps \in Nat
    /\ passed \in BOOLEAN /\ status \in {"success", "failure", "signal"}
    /\ truth \in [Tests -> {"unrun", "ok", "bad", "killed"}]

(* Where main() is in its loops.                                           *)
PlaceInv ==
    /\ suite = 0 => index = 0 /\ pc \in {"suite", "done"}
    /\ suite # 0 => index <= Sizes[suite]
    /\ pc = "suite" /\ suite # 0 => index = Sizes[suite]
    /\ pc = "done" => suite = Len(Sizes) /\ (suite # 0 => index = Sizes[suite])
    /\ OfTest => index # 0
    /\ pc \in {"try", "reap"} => opt.recover

(* Every test up to the present one has run; what the process knows of the *)
(* present one.                                                            *)
Begun(test) == test[1] < suite \/ (test[1] = suite /\ test[2] <= index)

TruthInv ==
    /\ \A test \in Tests : truth[test] = "unrun" <=> ~Begun(test)
    /\ InTest => truth[Now] = IF passed THEN "ok" ELSE "bad"
    /\ pc = "reap" =>
        <<status, truth[Now]>> \in
            {<<"success", "ok">>, <<"failure", "bad">>, <<"signal", "killed">>}

(* The counters.                                                           *)
TestsTo(s) == {test \in Tests : test[1] <= s}
Present == IF OfTest \/ pc = "aborted" THEN {Now} ELSE {}
Passing == (With("ok") \cup With("killed")) \ Present

CountInv ==
    /\ test_num \in Nat /\ test_num <= Cardinality(Tests)
    /\ pc # "aborted" => test_num = Cardinality(TestsTo(suite))
    /\ test_pass_num = Cardinality(Passing) /\ test_pass_num <= test_num

CInv == TypeInv /\ PlaceInv /\ TruthInv /\ CountInv

-----------------------------------------------------------------------------
(* The processes and the stream.                                           *)

Stream(x) == x.output \o Active(x).buf

ProcsInv ==
    /\ io \in Io
    /\ Len(io.procs) = IF pc = "aborted" THEN 0 ELSE IF pc = "try" THEN 3
                       ELSE IF pc = "test" /\ opt.recover THEN 2 ELSE 1
    /\ \A p \in DOMAIN io.procs :
        /\ p # Len(io.procs) => io.procs[p].buf = <<>>
        /\ io.procs[p].out = IF InTest /\ ~opt.verbose /\ (p # 1 \/ ~opt.recover)
                             THEN "nul" ELSE "old"
    /\ InTest /\ ~opt.verbose =>
        \A i \in DOMAIN Active(io).buf : Active(io).buf[i].kind = "noise"
    /\ pc = "done" => Active(io).buf = <<>>

Unique(s) ==
    \A i, j \in DOMAIN s : s[i].kind # "noise" /\ s[i] = s[j] => i = j

IsVerdict(l) == l.kind \in {"fail", "signal", "exited"}

(* The last header up to place i is that of the test.                      *)
HeadAt(s, i, test) ==
    \E h \in 1..i : /\ s[h].kind = "test" /\ s[h].test = test
                    /\ \A k \in h + 1..i : s[k].kind # "test"

Ordered == opt.line \/ ~opt.verbose \/ ~opt.recover
InPlace(s) ==
    \A i \in DOMAIN s : IsVerdict(s[i]) /\ s[i].test \in Tests => HeadAt(s, i, s[i].test)

(* What has been printed so far.                                           *)
Known(l) ==
    /\ l.kind = "suite" => l.test[2] = 0 /\ l.test[1] <= suite
    /\ l.kind \in {"test", "fail", "signal", "exited"} =>
        l.test \in Tests /\ truth[l.test] # "unrun"
    /\ IsVerdict(l) => truth[l.test] \in {"bad", "killed"}
    /\ l.kind = "fail" /\ l.test = Now =>
        (InTest => l.n <= steps) /\ (pc = "try" => l.n < steps)
    /\ l.kind = "signal" /\ l.test = Now => ~InTest
    /\ l.kind = "exited" /\ l.test = Now => ~OfTest
    /\ l.kind = "summary" => pc = "done"

(* What stays if the process that runs is gone.                            *)
Kept(x) == IF Len(x.procs) = 1 THEN Stream(x) ELSE x.output
Told(test) ==
    \E i \in DOMAIN Kept(io) : Kept(io)[i].test = test /\ IsVerdict(Kept(io)[i])

StreamInv ==
    /\ Unique(io.output) /\ (Ordered => InPlace(io.output))
    /\ pc # "aborted" =>
        /\ Unique(Stream(io)) /\ (Ordered => InPlace(Stream(io)))
        /\ \A i \in DOMAIN Stream(io) : Known(Stream(io)[i])
        /\ Ordered /\ OfTest => HeadAt(Stream(io), Len(Stream(io)), Now)
        /\ Ordered /\ opt.recover /\ InTest =>
            \A i \in DOMAIN Active(io).buf : Active(io).buf[i].kind # "test"
        /\ \A test \in Tests :
            truth[test] = "bad" /\ ~(opt.recover /\ OfTest /\ test = Now) => Told(test)

IInv == CInv /\ ProcsInv /\ StreamInv

-----------------------------------------------------------------------------
(* The tests and how many there are.                                       *)

TestsOf(s) == {<<s, t>> : t \in 1..Sizes[s]}

LEMMA SizesAre ==
    /\ Len(Sizes) \in Nat /\ DOMAIN Sizes = 1..Len(Sizes)
    /\ \A s \in 1..Len(Sizes) : Sizes[s] \in Nat
<1>1. Sizes \in Seq(Nat)
  BY SizesAssumption
<1>. QED BY <1>1, LenProperties

LEMMA TestsAre ==
    \A s, t : <<s, t>> \in Tests <=> s \in 1..Len(Sizes) /\ t \in 1..Sizes[s]
BY SizesAre DEF Tests

LEMMA TestIsPair ==
    ASSUME NEW test \in Tests
    PROVE  /\ test = <<test[1], test[2]>> /\ test[1] \in 1..Len(Sizes)
           /\ test[2] \in 1..Sizes[test[1]] /\ test \in Nat \X Nat
<1>1. PICK s \in 1..Len(Sizes) : \E t \in 1..Sizes[s] : test = <<s, t>>
  BY SizesAre DEF Tests
<1>2. PICK t \in 1..Sizes[s] : test = <<s, t>>
  BY <1>1
<1>3. s \in Nat /\ t \in Nat
  BY <1>2, SizesAre
<1>. QED BY <1>2, <1>3

LEMMA SuiteTests ==
    ASSUME NEW s \in 1..Len(Sizes)
    PROVE  IsFiniteSet(TestsOf(s)) /\ Cardinality(TestsOf(s)) = Sizes[s]
<1>. PICK n \in Nat : n = Sizes[s]
  BY SizesAre
<1>. DEFINE f == [t \in 1..n |-> <<s, t>>]
<1>1. f \in Bijection(1..n, TestsOf(s))
  <2>1. f \in [1..n -> TestsOf(s)]
    BY DEF TestsOf
  <2>2. \A a, b \in 1..n : f[a] = f[b] => a = b
    OBVIOUS
  <2>3. \A test \in TestsOf(s) : \E t \in 1..n : f[t] = test
    BY DEF TestsOf
  <2>. HIDE DEF f
  <2>. QED BY <2>1, <2>2, <2>3 DEF Bijection, Injection, Surjection, IsInjective
<1>2. IsFiniteSet(1..n) /\ Cardinality(1..n) = n
  <2>1. 1 \in Int /\ n \in Int /\ (IF 1 > n THEN 0 ELSE n - 1 + 1) = n
    OBVIOUS
  <2>. QED BY <2>1, FS_Interval
<1>3. ExistsBijection(1..n, TestsOf(s))
  BY <1>1 DEF ExistsBijection
<1>. QED BY <1>2, <1>3, FS_Bijection

LEMMA TestsFinite == IsFiniteSet(Tests) /\ Cardinality(Tests) \in Nat
<1>. DEFINE D == 1..Len(Sizes)
            T == {TestsOf(s) : s \in D}
            f == [s \in D |-> TestsOf(s)]
<1>1. IsFiniteSet(D)
  BY SizesAre, FS_Interval
<1>2. f \in Surjection(D, T)
  BY DEF Surjection
<1>3. IsFiniteSet(T)
  BY <1>1, <1>2, FS_Surjection
<1>4. \A S \in T : IsFiniteSet(S)
  BY SuiteTests
<1>5. Tests = UNION T
  BY SizesAre DEF Tests, TestsOf
<1>. HIDE DEF T
<1>6. IsFiniteSet(Tests)
  BY <1>3, <1>4, <1>5, FS_UNION
<1>. QED BY <1>6, FS_CardinalityType

LEMMA SubsetCount ==
    ASSUME NEW S, S \subseteq Tests, NEW T, T \subseteq S
    PROVE  /\ IsFiniteSet(S) /\ IsFiniteSet(T)
           /\ Cardinality(S) \in Nat /\ Cardinality(T) \in Nat
           /\ Cardinality(T) <= Cardinality(S)
           /\ Cardinality(S) = Cardinality(T) => S = T
<1>1. IsFiniteSet(S)
  BY TestsFinite, FS_Subset
<1>2. IsFiniteSet(T)
  BY <1>1, FS_Subset
<1>. QED BY <1>1, <1>2, FS_Subset, FS_CardinalityType

LEMMA TestsToEnds == TestsTo(0) = {} /\ TestsTo(Len(Sizes)) = Tests
<1>1. \A test \in Tests : test[1] <= Len(Sizes) /\ ~(test[1] <= 0)
  BY TestIsPair, SizesAre
<1>. QED BY <1>1 DEF TestsTo

LEMMA TestsToNext ==
    ASSUME NEW s \in 0..Len(Sizes) - 1
    PROVE  Cardinality(TestsTo(s + 1)) = Cardinality(TestsTo(s)) + Sizes[s + 1]
<1>1. s + 1 \in 1..Len(Sizes) /\ Sizes[s + 1] \in Nat
  BY SizesAre
<1>2. ASSUME NEW test \in Tests
      PROVE  /\ test[1] <= s + 1 <=> test[1] <= s \/ test[1] = s + 1
             /\ test[1] = s + 1 => ~(test[1] <= s) /\ test \in TestsOf(s + 1)
  BY <1>1, TestIsPair, SizesAre DEF TestsOf
<1>3. \A test \in TestsOf(s + 1) : test \in Tests /\ test[1] = s + 1
  BY <1>1, TestsAre DEF TestsOf
<1>4. TestsTo(s + 1) = TestsTo(s) \cup TestsOf(s + 1)
  BY <1>2, <1>3 DEF TestsTo
<1>5. TestsTo(s) \cap TestsOf(s + 1) = {}
  BY <1>2, <1>3 DEF TestsTo
<1>6. /\ IsFiniteSet(TestsTo(s)) /\ IsFiniteSet(TestsOf(s + 1))
      /\ Cardinality(TestsTo(s)) \in Nat /\ Cardinality(TestsOf(s + 1)) = Sizes[s + 1]
  BY <1>1, SuiteTests, TestsFinite, SubsetCount DEF TestsTo
<1>7. Cardinality(TestsTo(s) \cup TestsOf(s + 1))
        = Cardinality(TestsTo(s)) + Cardinality(TestsOf(s + 1)) - Cardinality({})
  BY <1>5, <1>6, FS_Union
<1>8. Cardinality({}) = 0
  BY FS_EmptySet
<1>9. \A a, b \in Nat : a + b - 0 = a + b
  OBVIOUS
<1>10. Cardinality(TestsTo(s + 1)) = Cardinality(TestsTo(s)) + Sizes[s + 1] - 0
  BY <1>4, <1>6, <1>7, <1>8
<1>. QED BY <1>1, <1>6, <1>9, <1>10

-----------------------------------------------------------------------------
(* The counts.                                                             *)

LEMMA OptAre ==
    ASSUME TypeInv
    PROVE  opt.recover \in BOOLEAN /\ opt.verbose \in BOOLEAN /\ opt.line \in BOOLEAN
BY DEF TypeInv

LEMMA PresentTest ==
    ASSUME CInv, OfTest
    PROVE  /\ Now \in Tests /\ suite \in 1..Len(Sizes) /\ index \in 1..Sizes[suite]
           /\ truth[Now] \in {"ok", "bad", "killed"} /\ Present = {Now}
           /\ pc # "aborted"
<1>1. suite \in Nat /\ suite <= Len(Sizes) /\ index \in Nat
  BY SizesAre DEF CInv, TypeInv
<1>2. suite # 0 /\ index # 0 /\ index <= Sizes[suite]
  BY DEF CInv, PlaceInv, OfTest
<1>3. suite \in 1..Len(Sizes) /\ index \in 1..Sizes[suite]
  BY <1>1, <1>2, SizesAre
<1>4. Now \in Tests
  BY <1>3, TestsAre DEF Now
<1>5. Begun(Now)
  BY <1>1 DEF Begun, Now
<1>6. truth[Now] \in {"ok", "bad", "killed"}
  BY <1>4, <1>5 DEF CInv, TypeInv, TruthInv
<1>. QED BY <1>3, <1>4, <1>6 DEF Present, OfTest

LEMMA PassingFinite ==
    ASSUME CInv
    PROVE  /\ Passing \subseteq Tests /\ IsFiniteSet(Passing)
           /\ Cardinality(Passing) \in Nat
<1>1. Passing \subseteq Tests
  BY DEF Passing, With
<1>. QED BY <1>1, SubsetCount

(* A test that has been counted as passed is of a suite that was counted.  *)
LEMMA PassingCounted ==
    ASSUME TypeInv, TruthInv
    PROVE  With("ok") \cup With("killed") \subseteq TestsTo(suite)
<1>. SUFFICES ASSUME NEW test \in Tests, truth[test] # "unrun" PROVE test[1] <= suite
  BY DEF With, TestsTo
<1>1. Begun(test)
  BY DEF TruthInv
<1>2. test[1] \in Int /\ suite \in Int
  BY TestIsPair, SizesAre DEF TypeInv
<1>. QED BY <1>1, <1>2 DEF Begun

(* A step that leaves the loops, the counters and the truth alone.         *)
LEMMA CountKept ==
    ASSUME CInv, UNCHANGED <<suite, index, test_num, test_pass_num, truth>>,
           Present' = Present, pc' = "aborted" <=> pc = "aborted"
    PROVE  CountInv' /\ \A test \in Tests : truth'[test] = "unrun" <=> ~Begun(test)'
<1>1. Passing' = Passing
  BY DEF Passing, With
<1>2. TestsTo(suite)' = TestsTo(suite)
  BY DEF TestsTo
<1>3. \A test : Begun(test)' <=> Begun(test)
  BY DEF Begun
<1>. QED BY <1>1, <1>2, <1>3 DEF CInv, CountInv, TruthInv

(* A step of the test that runs, as far as main() is concerned.            *)
LEMMA StaysPresent ==
    ASSUME CInv, InTest, pc' \in {"test", "try", "reap", "aborted"}, UNCHANGED main,
           NEW v \in {"ok", "bad", "killed"}, truth' = [truth EXCEPT ![Now] = v],
           steps' \in Nat, passed' \in BOOLEAN,
           status' \in {"success", "failure", "signal"},
           pc' \in {"try", "reap"} => opt.recover
    PROVE  /\ TypeInv' /\ PlaceInv' /\ CountInv' /\ truth'[Now] = v /\ Now' = Now
           /\ \A test \in Tests : truth'[test] = "unrun" <=> ~Begun(test)'
<1>1. /\ UNCHANGED <<opt, suite, index, test_num, test_pass_num>>
      /\ pc # "aborted" /\ OfTest
  BY DEF main, InTest, OfTest
<1>2. /\ Now \in Tests /\ truth[Now] # "unrun" /\ Present = {Now}
      /\ suite # 0 /\ index # 0
  BY <1>1, PresentTest, SizesAre
<1>3. Now' = Now /\ Present' = {Now}
  BY <1>1 DEF Now, Present, OfTest
<1>4. /\ truth \in [Tests -> {"unrun", "ok", "bad", "killed"}]
      /\ truth' \in [Tests -> {"unrun", "ok", "bad", "killed"}]
      /\ truth'[Now] = v /\ \A test \in Tests : test # Now => truth'[test] = truth[test]
  BY <1>2 DEF CInv, TypeInv
<1>5. TypeInv'
  BY <1>1, <1>4 DEF CInv, TypeInv
<1>6. PlaceInv'
  BY <1>1, <1>2 DEF CInv, PlaceInv, OfTest
<1>7. Passing' = Passing
  BY <1>2, <1>3, <1>4 DEF Passing, With
<1>8. TestsTo(suite)' = TestsTo(suite)
  BY <1>1 DEF TestsTo
<1>9. CountInv'
  BY <1>1, <1>7, <1>8 DEF CInv, CountInv
<1>10. \A test : Begun(test)' <=> Begun(test)
  BY <1>1 DEF Begun
<1>11. \A test \in Tests : truth'[test] = "unrun" <=> ~Begun(test)'
  BY <1>2, <1>4, <1>10 DEF CInv, TruthInv
<1>. QED BY <1>3, <1>4, <1>5, <1>6, <1>9, <1>11

(* A test that is over counts unless it went wrong.                        *)
LEMMA Counted ==
    ASSUME CInv, OfTest, pc' = "tests", UNCHANGED <<opt, suite, index, test_num, truth>>,
           steps' \in Nat, passed' \in BOOLEAN,
           status' \in {"success", "failure", "signal"},
           test_pass_num' = IF truth[Now] = "bad" THEN test_pass_num ELSE test_pass_num + 1
    PROVE  CInv'
<1>1. /\ Now \in Tests /\ Present = {Now} /\ Now' = Now
      /\ truth[Now] \in {"ok", "bad", "killed"} /\ suite # 0 /\ pc # "aborted"
  BY PresentTest, SizesAre DEF Now
<1>2. Present' = {}
  BY DEF Present, OfTest
<1>3. /\ TypeInv' /\ PlaceInv' /\ TruthInv'
  <2>1. TypeInv'
    BY DEF CInv, TypeInv
  <2>2. PlaceInv'
    BY <1>1 DEF CInv, PlaceInv, OfTest
  <2>3. \A test : Begun(test)' <=> Begun(test)
    BY DEF Begun
  <2>4. TruthInv'
    BY <2>3 DEF CInv, TruthInv, InTest
  <2>. QED BY <2>1, <2>2, <2>4
<1>4. /\ Passing' = IF truth[Now] = "bad" THEN Passing ELSE Passing \cup {Now}
      /\ Now \notin Passing
  BY <1>1, <1>2 DEF Passing, With
<1>5. IsFiniteSet(Passing) /\ Cardinality(Passing) \in Nat /\ Passing \subseteq Tests
  BY PassingFinite
<1>6. Cardinality(Passing') = IF truth[Now] = "bad" THEN Cardinality(Passing)
                              ELSE Cardinality(Passing) + 1
  BY <1>4, <1>5, FS_AddElement
<1>7. test_pass_num' = Cardinality(Passing')
  BY <1>6 DEF CInv, CountInv
<1>8. test_num' = Cardinality(TestsTo(suite))' /\ TestsTo(suite)' = TestsTo(suite)
  BY <1>1 DEF CInv, CountInv, TestsTo
<1>9. Passing' \subseteq TestsTo(suite)
  <2>1. With("ok") \cup With("killed") \subseteq TestsTo(suite)
    BY PassingCounted DEF CInv
  <2>. QED BY <1>1, <1>4, <2>1 DEF Passing, With
<1>10. Cardinality(Passing') <= Cardinality(TestsTo(suite))
  <2>1. TestsTo(suite) \subseteq Tests
    BY DEF TestsTo
  <2>. QED BY <1>9, <2>1, SubsetCount
<1>11. test_num \in Nat /\ test_num <= Cardinality(Tests)
  BY DEF CInv, CountInv
<1>12. CountInv'
  BY <1>7, <1>8, <1>10, <1>11 DEF CountInv
<1>. QED BY <1>3, <1>12 DEF CInv


LEMMA NextSuiteCInv == ASSUME CInv, NextSuite PROVE CInv'
<1>1. /\ pc = "suite" /\ suite < Len(Sizes) /\ suite' = suite + 1 /\ index' = 0
      /\ UNCHANGED <<opt, test_pass_num, passed, status, steps, truth>>
  BY DEF NextSuite
<1>2. /\ suite \in 0..Len(Sizes) - 1 /\ suite + 1 \in 1..Len(Sizes)
      /\ Sizes[suite + 1] \in Nat
  BY <1>1, SizesAre DEF CInv, TypeInv
<1>3. \/ /\ test_num' = test_num + Sizes[suite + 1]
         /\ pc' = IF Sizes[suite + 1] = 0 THEN "suite" ELSE "tests"
      \/ pc' = "aborted" /\ test_num' = test_num
  BY DEF NextSuite
<1>4. TypeInv'
  BY <1>1, <1>2, <1>3 DEF CInv, TypeInv
<1>5. PlaceInv'
  BY <1>1, <1>2, <1>3 DEF PlaceInv, OfTest
<1>6. ASSUME NEW test \in Tests PROVE Begun(test)' <=> Begun(test)
  <2>1. /\ test[1] \in Nat /\ test[2] \in Nat /\ test[2] # 0 /\ test[1] # 0
        /\ test[2] <= Sizes[test[1]]
    BY TestIsPair, SizesAre
  <2>2. suite # 0 => index = Sizes[suite]
    BY <1>1 DEF CInv, PlaceInv
  <2>3. Begun(test) <=> test[1] <= suite
    BY <1>2, <2>1, <2>2 DEF Begun
  <2>4. Begun(test)' <=> test[1] < suite + 1 \/ (test[1] = suite + 1 /\ test[2] <= 0)
    BY <1>1 DEF Begun
  <2>. QED BY <1>2, <2>1, <2>3, <2>4
<1>7. TruthInv'
  BY <1>1, <1>3, <1>6 DEF CInv, TruthInv, InTest
<1>8. Passing' = Passing
  <2>1. <<suite + 1, 0>> \notin Tests
    BY TestsAre
  <2>2. Present = {} /\ Present' \subseteq {<<suite + 1, 0>>}
    BY <1>1, <1>3 DEF Present, OfTest, Now
  <2>. QED BY <1>1, <2>1, <2>2 DEF Passing, With
<1>9. test_num = Cardinality(TestsTo(suite))
  BY <1>1 DEF CInv, CountInv
<1>10. Cardinality(TestsTo(suite + 1)) = Cardinality(TestsTo(suite)) + Sizes[suite + 1]
  BY <1>2, TestsToNext
<1>11. TestsTo(suite)' = TestsTo(suite + 1)
  BY <1>1 DEF TestsTo
<1>12. Cardinality(TestsTo(suite + 1)) \in Nat
       /\ Cardinality(TestsTo(suite + 1)) <= Cardinality(Tests)
  BY SubsetCount DEF TestsTo
<1>13. /\ test_num \in Nat /\ test_num <= Cardinality(Tests) /\ test_pass_num <= test_num
       /\ test_pass_num = Cardinality(Passing) /\ Cardinality(Passing) \in Nat
  BY PassingFinite DEF CInv, CountInv
<1>14. CountInv'
  <2>1. CASE test_num' = test_num + Sizes[suite + 1] /\ pc' # "aborted"
    <3>1. test_num' = Cardinality(TestsTo(suite + 1))
      BY <1>9, <1>10, <2>1
    <3>2. test_pass_num <= test_num + Sizes[suite + 1]
      BY <1>2, <1>13
    <3>. QED BY <1>1, <1>8, <1>11, <1>12, <1>13, <2>1, <3>1, <3>2 DEF CountInv
  <2>2. CASE pc' = "aborted" /\ test_num' = test_num
    BY <1>1, <1>8, <1>13, <2>2 DEF CountInv
  <2>. QED BY <1>3, <2>1, <2>2
<1>. QED BY <1>4, <1>5, <1>7, <1>14 DEF CInv

LEMMA LoopsCInv == ASSUME CInv, EndSuite \/ Summary \/ UNCHANGED vars PROVE CInv'
<1>1. /\ UNCHANGED <<opt, suite, index, test_num, test_pass_num, truth, passed, status, steps>>
      /\ \/ pc = "tests" /\ pc' = "suite" /\ index = Sizes[suite]
         \/ pc = "suite" /\ pc' = "done" /\ suite = Len(Sizes)
         \/ pc' = pc
  BY DEF EndSuite, Summary, vars, main
<1>2. Present' = Present /\ (pc' = "aborted" <=> pc = "aborted")
  BY <1>1 DEF Present, OfTest, Now
<1>3. CountInv' /\ \A test \in Tests : truth'[test] = "unrun" <=> ~Begun(test)'
  BY <1>1, <1>2, CountKept
<1>4. TypeInv'
  BY <1>1 DEF CInv, TypeInv
<1>5. PlaceInv'
  BY <1>1 DEF CInv, PlaceInv, OfTest
<1>6. TruthInv'
  BY <1>1, <1>3 DEF CInv, TruthInv, InTest, Now
<1>. QED BY <1>3, <1>4, <1>5, <1>6 DEF CInv

LEMMA StartTestCInv == ASSUME CInv, StartTest PROVE CInv'
<1>1. /\ pc = "tests" /\ index < Sizes[suite] /\ index' = index + 1 /\ pc' = "test"
      /\ passed' = TRUE /\ steps' = 0
      /\ truth' = [truth EXCEPT ![<<suite, index + 1>>] = "ok"]
      /\ UNCHANGED <<opt, suite, test_num, test_pass_num, status>>
  BY DEF StartTest
<1>2. /\ suite \in 1..Len(Sizes) /\ index \in Nat /\ Sizes[suite] \in Nat
      /\ index + 1 \in 1..Sizes[suite]
  <2>1. suite # 0 /\ suite \in 0..Len(Sizes) /\ index \in Nat
    BY <1>1 DEF CInv, PlaceInv, TypeInv
  <2>2. suite \in 1..Len(Sizes)
    BY <2>1, SizesAre
  <2>. QED BY <1>1, <2>1, <2>2, SizesAre
<1>. PICK now \in Tests : now = <<suite, index + 1>>
  BY <1>2, TestsAre
<1>3. now[1] = suite /\ now[2] = index + 1 /\ Now' = now
  BY <1>1 DEF Now
<1>4. /\ truth' \in [Tests -> {"unrun", "ok", "bad", "killed"}]
      /\ truth'[now] = "ok" /\ \A test \in Tests : test # now => truth'[test] = truth[test]
  BY <1>1 DEF CInv, TypeInv
<1>5. TypeInv'
  BY <1>1, <1>4 DEF CInv, TypeInv
<1>6. PlaceInv'
  BY <1>1, <1>2 DEF CInv, PlaceInv, OfTest
<1>7. ASSUME NEW test \in Tests, test # now PROVE Begun(test)' <=> Begun(test)
  <2>1. test = <<test[1], test[2]>> /\ test[1] \in Nat /\ test[2] \in Nat
    BY TestIsPair, SizesAre
  <2>2. ~(test[1] = suite /\ test[2] = index + 1)
    BY <1>7, <2>1
  <2>. QED BY <1>1, <1>2, <2>1, <2>2 DEF Begun
<1>8. ~Begun(now) /\ Begun(now)'
  BY <1>1, <1>2, <1>3, SizesAre DEF Begun
<1>9. TruthInv'
  BY <1>1, <1>3, <1>4, <1>7, <1>8 DEF CInv, TruthInv, InTest
<1>10. truth[now] = "unrun"
  BY <1>8 DEF CInv, TruthInv
<1>11. Passing' = Passing
  BY <1>1, <1>3, <1>4, <1>10 DEF Passing, With, Present, OfTest
<1>12. TestsTo(suite)' = TestsTo(suite)
  BY <1>1 DEF TestsTo
<1>13. CountInv'
  BY <1>1, <1>11, <1>12 DEF CInv, CountInv
<1>. QED BY <1>5, <1>6, <1>9, <1>13 DEF CInv

(* A step of the test that neither fails nor ends it.                      *)
LEMMA GoesOnCInv ==
    ASSUME CInv, InTest, pc' \in {"test", "try"}, UNCHANGED <<main, passed, status, truth>>,
           steps' \in Nat, pc' = "try" => opt.recover
    PROVE  CInv'
<1>1. Now \in Tests /\ truth[Now] \in {"ok", "bad", "killed"}
  BY PresentTest DEF InTest, OfTest
<1>2. truth' = [truth EXCEPT ![Now] = truth[Now]] /\ UNCHANGED main
  BY <1>1 DEF CInv, TypeInv
<1>3. /\ TypeInv' /\ PlaceInv' /\ CountInv' /\ Now' = Now
      /\ \A test \in Tests : truth'[test] = "unrun" <=> ~Begun(test)'
  BY <1>1, <1>2, StaysPresent DEF CInv, TypeInv
<1>4. TruthInv'
  BY <1>3 DEF CInv, TruthInv, InTest
<1>. QED BY <1>3, <1>4 DEF CInv

LEMMA FailsCInv ==
    ASSUME CInv, InTest, pc' = "test", UNCHANGED <<main, status>>, passed' = FALSE,
           steps' \in Nat, truth' = [truth EXCEPT ![Now] = "bad"]
    PROVE  CInv'
<1>1. /\ TypeInv' /\ PlaceInv' /\ CountInv' /\ truth'[Now] = "bad" /\ Now' = Now
      /\ \A test \in Tests : truth'[test] = "unrun" <=> ~Begun(test)'
  BY StaysPresent DEF CInv, TypeInv
<1>2. TruthInv'
  BY <1>1 DEF TruthInv, InTest
<1>. QED BY <1>1, <1>2 DEF CInv

(* The process of the test ends, with recovery or with the runner.         *)
LEMMA EndsCInv ==
    ASSUME CInv, InTest, UNCHANGED <<main, passed, steps>>,
           NEW v \in {"ok", "bad", "killed"}, truth' = [truth EXCEPT ![Now] = v],
           \/ /\ opt.recover /\ pc' = "reap"
              /\ <<status', v>> \in
                    {<<"success", "ok">>, <<"failure", "bad">>, <<"signal", "killed">>}
           \/ pc' = "aborted" /\ UNCHANGED status
    PROVE  CInv'
<1>1. status' \in {"success", "failure", "signal"}
  BY DEF CInv, TypeInv
<1>2. /\ TypeInv' /\ PlaceInv' /\ CountInv' /\ truth'[Now] = v /\ Now' = Now
      /\ \A test \in Tests : truth'[test] = "unrun" <=> ~Begun(test)'
  BY <1>1, StaysPresent DEF CInv, TypeInv
<1>3. TruthInv'
  BY <1>2 DEF TruthInv, InTest
<1>. QED BY <1>2, <1>3 DEF CInv

LEMMA NextCInv == ASSUME CInv, [Next]_vars PROVE CInv'
<1>. USE DEF InTest
<1>1. CASE NextSuite
  BY <1>1, NextSuiteCInv
<1>2. CASE EndSuite \/ Summary \/ UNCHANGED vars
  BY <1>2, LoopsCInv
<1>3. CASE StartTest
  BY <1>3, StartTestCInv
<1>4. CASE Noise \/ TrySignal
  <2>1. /\ pc' \in {"test", "try"} /\ UNCHANGED <<main, passed, status, truth>>
        /\ steps' \in Nat /\ (pc' = "try" => pc = "try" \/ opt.recover)
    BY <1>4 DEF Noise, TrySignal, Step, CInv, TypeInv
  <2>2. InTest /\ (pc' = "try" => opt.recover)
    BY <1>4, <2>1 DEF Noise, TrySignal, CInv, PlaceInv
  <2>. QED BY <2>1, <2>2, GoesOnCInv
<1>5. ASSUME NEW holds \in BOOLEAN, Trial(holds) PROVE CInv'
  <2>1. pc = "test" /\ pc' = "test" /\ UNCHANGED <<main, status>> /\ steps' \in Nat
    BY <1>5 DEF Trial, Step, CInv, TypeInv
  <2>2. CASE holds
    <3>1. UNCHANGED <<main, passed, status, truth>>
      BY <1>5, <2>2 DEF Trial
    <3>. QED BY <2>1, <3>1, GoesOnCInv
  <2>3. CASE ~holds
    <3>1. passed' = FALSE /\ truth' = [truth EXCEPT ![Now] = "bad"]
      BY <1>5, <2>3 DEF Trial
    <3>. QED BY <2>1, <3>1, FailsCInv
  <2>. QED BY <2>2, <2>3
<1>6. ASSUME NEW signal \in BOOLEAN, TryEnds(signal) PROVE CInv'
  <2>1. pc = "try" /\ pc' = "test" /\ UNCHANGED <<main, status, steps>> /\ steps' \in Nat
    BY <1>6 DEF TryEnds, CInv, TypeInv
  <2>2. CASE signal
    <3>1. UNCHANGED <<main, passed, status, truth>>
      BY <1>6, <2>2 DEF TryEnds
    <3>. QED BY <2>1, <3>1, GoesOnCInv
  <2>3. CASE ~signal
    <3>1. passed' = FALSE /\ truth' = [truth EXCEPT ![Now] = "bad"]
      BY <1>6, <2>3 DEF TryEnds
    <3>. QED BY <2>1, <3>1, FailsCInv
  <2>. QED BY <2>2, <2>3
<1>7. CASE TestReturns
  <2>1. /\ pc = "test" /\ UNCHANGED <<opt, suite, index, test_num, passed, steps, truth>>
        /\ passed \in BOOLEAN /\ truth[Now] = IF passed THEN "ok" ELSE "bad"
    BY <1>7 DEF TestReturns, CInv, TypeInv, TruthInv
  <2>2. Now \in Tests
    BY <2>1, PresentTest DEF OfTest
  <2>3. truth' = [truth EXCEPT ![Now] = truth[Now]]
    BY <2>1, <2>2 DEF CInv, TypeInv
  <2>4. CASE opt.recover
    <3>1. /\ pc' = "reap" /\ status' = IF passed THEN "success" ELSE "failure"
          /\ UNCHANGED <<main, passed, steps>>
      BY <1>7, <2>4 DEF TestReturns, ChildEnds, main
    <3>. QED BY <2>1, <2>3, <2>4, <3>1, EndsCInv
  <2>5. CASE ~opt.recover
    <3>1. /\ pc' = "tests" /\ UNCHANGED status
          /\ test_pass_num' = test_pass_num + (IF passed THEN 1 ELSE 0)
      BY <1>7, <2>5 DEF TestReturns
    <3>2. test_pass_num \in Nat
      BY PassingFinite DEF CInv, CountInv
    <3>3. test_pass_num' = IF truth[Now] = "bad" THEN test_pass_num ELSE test_pass_num + 1
      BY <2>1, <3>1, <3>2
    <3>. QED BY <2>1, <3>1, <3>3, Counted DEF OfTest, CInv, TypeInv
  <2>. QED BY <2>4, <2>5
<1>8. CASE CaughtSignal
  <2>1. /\ pc = "test" /\ truth' = [truth EXCEPT ![Now] = "bad"]
        /\ UNCHANGED <<main, passed, steps>>
        /\ IF opt.recover THEN pc' = "reap" /\ status' = "failure"
                          ELSE pc' = "aborted" /\ UNCHANGED status
    BY <1>8 DEF CaughtSignal, ChildEnds
  <2>. QED BY <2>1, EndsCInv
<1>9. CASE KilledBySignal
  <2>1. /\ pc = "test" /\ truth' = [truth EXCEPT ![Now] = "killed"]
        /\ UNCHANGED <<main, passed, steps>>
        /\ IF opt.recover THEN pc' = "reap" /\ status' = "signal"
                          ELSE pc' = "aborted" /\ UNCHANGED status
    BY <1>9 DEF KilledBySignal, ChildEnds
  <2>. QED BY <2>1, EndsCInv
<1>10. CASE Reap
  <2>1. /\ pc = "reap" /\ pc' = "tests" /\ UNCHANGED <<opt, suite, index, test_num, truth>>
        /\ UNCHANGED <<passed, status, steps>>
        /\ test_pass_num' = IF status = "failure" THEN test_pass_num ELSE test_pass_num + 1
    BY <1>10 DEF Reap, Wexitstatus
  <2>2. status = "failure" <=> truth[Now] = "bad"
    BY <2>1 DEF CInv, TruthInv
  <2>. QED BY <2>1, <2>2, Counted DEF OfTest, CInv, TypeInv
<1>. QED BY <1>1, <1>2, <1>3, <1>4, <1>5, <1>6, <1>7, <1>8, <1>9, <1>10 DEF Next, Ended

LEMMA InitCInv == ASSUME Init PROVE CInv
<1>1. /\ pc = "suite" /\ suite = 0 /\ index = 0 /\ test_num = 0 /\ test_pass_num = 0
      /\ passed = TRUE /\ status = "success" /\ steps = 0
      /\ truth = [test \in Tests |-> "unrun"]
      /\ opt \in [recover : BOOLEAN, verbose : BOOLEAN, line : BOOLEAN]
  BY DEF Init
<1>2. TypeInv
  BY <1>1, SizesAre DEF TypeInv
<1>3. PlaceInv
  BY <1>1 DEF PlaceInv, OfTest
<1>4. TruthInv
  <2>1. \A test \in Tests : ~Begun(test)
    BY <1>1, TestIsPair, SizesAre DEF Begun
  <2>. QED BY <1>1, <2>1 DEF TruthInv, InTest
<1>5. CountInv
  <2>1. Passing = {}
    BY <1>1 DEF Passing, With
  <2>2. Cardinality(Passing) = 0
    BY <2>1, FS_EmptySet
  <2>3. Cardinality(TestsTo(suite)) = 0
    BY <1>1, TestsToEnds, FS_EmptySet
  <2>4. 0 <= Cardinality(Tests)
    BY TestsFinite
  <2>. QED BY <1>1, <2>2, <2>3, <2>4 DEF CountInv
<1>. QED BY <1>2, <1>3, <1>4, <1>5 DEF CInv

(* At the summary all tests have run and are of a suite that was counted.  *)
LEMMA CInvVerdicts == ASSUME CInv PROVE VerdictsTrue
<1>. SUFFICES ASSUME pc = "done"
              PROVE  /\ test_num = Cardinality(Tests)
                     /\ test_pass_num <= Cardinality(Tests \ With("bad"))
                     /\ With("killed") = {} =>
                         /\ test_pass_num = Cardinality(With("ok"))
                         /\ ExitSuccess <=> With("ok") = Tests
  BY DEF VerdictsTrue
<1>1. suite = Len(Sizes) /\ (suite # 0 => index = Sizes[suite])
  BY DEF CInv, PlaceInv
<1>2. test_num = Cardinality(Tests)
  BY <1>1, TestsToEnds DEF CInv, CountInv
<1>3. ASSUME NEW test \in Tests PROVE truth[test] # "unrun"
  <2>1. /\ test[1] \in Nat /\ test[1] <= Len(Sizes) /\ test[1] # 0
        /\ test[2] <= Sizes[test[1]]
    BY TestIsPair, SizesAre
  <2>2. Begun(test)
    BY <1>1, <2>1, SizesAre DEF Begun
  <2>. QED BY <2>2 DEF CInv, TruthInv
<1>4. truth \in [Tests -> {"unrun", "ok", "bad", "killed"}]
  BY DEF CInv, TypeInv
<1>5. Passing = With("ok") \cup With("killed") /\ test_pass_num = Cardinality(Passing)
  BY DEF Passing, Present, OfTest, CInv, CountInv
<1>6. Passing = Tests \ With("bad")
  BY <1>3, <1>4, <1>5 DEF With
<1>7. Cardinality(Passing) \in Nat /\ Passing \subseteq Tests
  BY PassingFinite
<1>8. Cardinality(Passing) = Cardinality(Tests) <=> Passing = Tests
  BY <1>7, SubsetCount
<1>9. With("killed") = {} => Passing = With("ok")
  BY <1>5
<1>. QED BY <1>2, <1>5, <1>6, <1>7, <1>8, <1>9 DEF ExitSuccess

-----------------------------------------------------------------------------
(* stdio, one process at a time.                                           *)

Touches(x, y) ==
    /\ y \in Io /\ y.procs # <<>> /\ Len(y.procs) = Len(x.procs)
    /\ \A p \in DOMAIN x.procs : p # Len(x.procs) => y.procs[p] = x.procs[p]

LEMMA ActiveIs ==
    ASSUME NEW x \in Io, x.procs # <<>>
    PROVE  /\ x.procs \in Seq(Proc) /\ x.output \in Seq(LineRec)
           /\ Len(x.procs) \in Nat \ {0} /\ DOMAIN x.procs = 1..Len(x.procs)
           /\ Active(x) = x.procs[Len(x.procs)] /\ Active(x) \in Proc
           /\ Active(x).buf \in Seq(LineRec) /\ Active(x).out \in {"old", "nul"}
           /\ Stream(x) \in Seq(LineRec)
<1>1. x.procs \in Seq(Proc) /\ x.output \in Seq(LineRec)
  BY DEF Io
<1>2. Len(x.procs) \in Nat \ {0} /\ DOMAIN x.procs = 1..Len(x.procs)
  BY <1>1, EmptySeq, LenProperties
<1>3. Active(x) = x.procs[Len(x.procs)]
  BY DEF Active, Last
<1>4. Active(x) \in Proc
  BY <1>1, <1>2, <1>3
<1>5. Active(x).buf \in Seq(LineRec) /\ Active(x).out \in {"old", "nul"}
  BY <1>4 DEF Proc
<1>. QED BY <1>1, <1>2, <1>3, <1>4, <1>5, ConcatProperties DEF Stream

LEMMA FrontIs ==
    ASSUME NEW S, NEW s \in Seq(S), s # <<>>
    PROVE  /\ Front(s) \in Seq(S) /\ Len(Front(s)) = Len(s) - 1
           /\ \A i \in 1..Len(s) - 1 : Front(s)[i] = s[i]
<1>. PICK n \in Nat \ {0} : n = Len(s)
  BY EmptySeq
<1>1. \A i \in 1..n - 1 : s[i] \in S
  BY ElementOfSeq
<1>2. /\ 1 \in Int /\ n - 1 \in Int /\ (IF 1 <= n - 1 THEN n - 1 - 1 + 1 ELSE 0) = n - 1
      /\ n - 1 - 1 + 1 = n - 1 /\ \A i \in 1..n - 1 : 1 + i - 1 = i
  OBVIOUS
<1>3. /\ SubSeq(s, 1, n - 1) \in Seq(S)
      /\ Len(SubSeq(s, 1, n - 1)) = (IF 1 <= n - 1 THEN n - 1 - 1 + 1 ELSE 0)
      /\ \A i \in 1..n - 1 - 1 + 1 : SubSeq(s, 1, n - 1)[i] = s[1 + i - 1]
  BY <1>1, <1>2, SubSeqProperties
<1>. QED BY <1>2, <1>3 DEF Front

LEMMA WithActiveIs ==
    ASSUME NEW x \in Io, x.procs # <<>>, NEW p \in Proc
    PROVE  LET y == WithActive(x, p)
           IN  Touches(x, y) /\ Active(y) = p /\ y.output = x.output
<1>. DEFINE q == Append(Front(x.procs), p)
            y == WithActive(x, p)
<1>. PICK n \in Nat \ {0} : n = Len(x.procs)
  BY ActiveIs
<1>1. /\ Front(x.procs) \in Seq(Proc) /\ Len(Front(x.procs)) = n - 1
      /\ \A i \in 1..n - 1 : Front(x.procs)[i] = x.procs[i]
  BY ActiveIs, FrontIs
<1>2. n - 1 + 1 = n /\ n - 1 \in Nat
  OBVIOUS
<1>3. /\ q \in Seq(Proc) /\ q # <<>> /\ Len(q) = n /\ q[n] = p
      /\ \A i \in 1..n - 1 : q[i] = x.procs[i]
  BY <1>1, <1>2, AppendProperties
<1>. HIDE DEF q
<1>4. y = [x EXCEPT !.procs = q]
  BY DEF WithActive, q
<1>5. y \in Io /\ y.procs = q /\ y.output = x.output
  BY <1>3, <1>4 DEF Io
<1>. HIDE DEF y
<1>6. \A i \in DOMAIN x.procs : i # n => i \in 1..n - 1
  BY ActiveIs
<1>7. Touches(x, y)
  BY <1>3, <1>5, <1>6 DEF Touches
<1>8. Active(y) = p
  BY <1>3, <1>5 DEF Active, Last
<1>. QED BY <1>5, <1>7, <1>8 DEF y

LEMMA PutIs ==
    ASSUME NEW x \in Io, x.procs # <<>>, NEW l \in LineRec
    PROVE  LET y == Put(x, l)
           IN  /\ Touches(x, y) /\ Active(y).out = Active(x).out
               /\ Active(y).buf = Append(Active(x).buf, l) /\ y.output = x.output
               /\ Stream(y) = Append(Stream(x), l)
<1>. DEFINE p == [Active(x) EXCEPT !.buf = Append(@, l)]
            y == Put(x, l)
<1>1. Append(Active(x).buf, l) \in Seq(LineRec)
  BY ActiveIs, AppendProperties
<1>2. p \in Proc /\ p.buf = Append(Active(x).buf, l) /\ p.out = Active(x).out
  BY <1>1, ActiveIs DEF Proc
<1>. HIDE DEF p
<1>3. Touches(x, y) /\ Active(y) = p /\ y.output = x.output
  BY <1>2, WithActiveIs DEF Put, p
<1>. HIDE DEF y
<1>4. Stream(y) = x.output \o Append(Active(x).buf, l)
  BY <1>2, <1>3 DEF Stream
<1>5. <<l>> \in Seq(LineRec)
  OBVIOUS
<1>6. Append(Active(x).buf, l) = Active(x).buf \o <<l>>
  BY ActiveIs, AppendIsConcat
<1>7. x.output \o (Active(x).buf \o <<l>>) = Stream(x) \o <<l>>
  <2>1. \A a, b, c \in Seq(LineRec) : (a \o b) \o c = a \o (b \o c)
    BY ConcatAssociative
  <2>2. x.output \in Seq(LineRec) /\ Active(x).buf \in Seq(LineRec)
    BY ActiveIs
  <2>3. PICK a \in Seq(LineRec) : a = x.output
    BY <2>2
  <2>4. PICK b \in Seq(LineRec) : b = Active(x).buf
    BY <2>2
  <2>5. (a \o b) \o <<l>> = a \o (b \o <<l>>)
    BY <1>5, <2>1
  <2>. QED BY <2>3, <2>4, <2>5 DEF Stream
<1>8. Stream(y) = Append(Stream(x), l)
  BY <1>4, <1>6, <1>7, ActiveIs, AppendIsConcat
<1>. QED BY <1>2, <1>3, <1>8 DEF y

LEMMA FflushIs ==
    ASSUME NEW x \in Io, x.procs # <<>>
    PROVE  LET y == Fflush(x)
           IN  /\ Touches(x, y) /\ Active(y).out = Active(x).out /\ Active(y).buf = <<>>
               /\ y.output = IF Active(x).out = "old" THEN Stream(x) ELSE x.output
               /\ Stream(y) = y.output
<1>. DEFINE p == [Active(x) EXCEPT !.buf = <<>>]
            w == WithActive(x, p)
            o == IF Active(x).out = "old" THEN Stream(x) ELSE x.output
            y == Fflush(x)
<1>1. p \in Proc /\ p.buf = <<>> /\ p.out = Active(x).out
  BY ActiveIs, EmptySeq DEF Proc
<1>. HIDE DEF p
<1>2. Touches(x, w) /\ Active(w) = p /\ w.output = x.output
  BY <1>1, WithActiveIs
<1>. HIDE DEF w
<1>3. o \in Seq(LineRec)
  BY ActiveIs
<1>4. y = [w EXCEPT !.output = o]
  BY <1>2 DEF Fflush, w, p, Stream
<1>. HIDE DEF o
<1>5. y \in Io /\ y.procs = w.procs /\ y.output = o
  BY <1>2, <1>3, <1>4 DEF Io, Touches
<1>. HIDE DEF y
<1>6. Touches(x, y) /\ Active(y) = p
  BY <1>2, <1>5 DEF Touches, Active
<1>7. Stream(y) = o
  BY <1>1, <1>3, <1>5, <1>6, ConcatEmptySeq DEF Stream
<1>. QED BY <1>1, <1>5, <1>6, <1>7 DEF y, o

LEMMA Dup2Is ==
    ASSUME NEW x \in Io, x.procs # <<>>, NEW out \in {"old", "nul"}
    PROVE  LET y == Dup2(x, out)
           IN  /\ Touches(x, y) /\ Active(y).out = out /\ Active(y).buf = Active(x).buf
               /\ y.output = x.output /\ Stream(y) = Stream(x)
<1>. DEFINE p == [Active(x) EXCEPT !.out = out]
<1>1. p \in Proc /\ p.buf = Active(x).buf /\ p.out = out
  BY ActiveIs DEF Proc
<1>. HIDE DEF p
<1>. QED BY <1>1, WithActiveIs DEF Dup2, p, Stream

LEMMA TouchesTwice ==
    ASSUME NEW x \in Io, x.procs # <<>>, NEW y, Touches(x, y), NEW z, Touches(y, z)
    PROVE  Touches(x, z)
<1>1. DOMAIN y.procs = DOMAIN x.procs
  BY ActiveIs DEF Touches
<1>. QED BY <1>1 DEF Touches

LEMMA ForkIs ==
    ASSUME NEW x \in Io, x.procs # <<>>
    PROVE  LET y == Fork(x)
               n == Len(x.procs)
           IN  /\ y \in Io /\ y.procs # <<>> /\ Len(y.procs) = n + 1
               /\ \A p \in 1..n - 1 : y.procs[p] = x.procs[p]
               /\ y.procs[n].buf = <<>> /\ y.procs[n].out = Active(x).out
               /\ Active(y).buf = <<>> /\ Active(y).out = Active(x).out
               /\ y.output = IF Active(x).out = "old" THEN Stream(x) ELSE x.output
               /\ Stream(y) = y.output
<1>. DEFINE w == Fflush(x)
            q == Append(w.procs, Active(w))
            y == Fork(x)
<1>. PICK n \in Nat \ {0} : n = Len(x.procs)
  BY ActiveIs
<1>1. /\ Touches(x, w) /\ Active(w).out = Active(x).out /\ Active(w).buf = <<>>
      /\ w.output = IF Active(x).out = "old" THEN Stream(x) ELSE x.output
  BY FflushIs
<1>. HIDE DEF w
<1>2. w \in Io /\ w.procs # <<>> /\ Len(w.procs) = n
  BY <1>1 DEF Touches
<1>3. w.procs \in Seq(Proc) /\ Active(w) \in Proc /\ Active(w) = w.procs[n]
      /\ w.output \in Seq(LineRec)
  BY <1>2, ActiveIs
<1>4. /\ q \in Seq(Proc) /\ q # <<>> /\ Len(q) = n + 1 /\ q[n + 1] = Active(w)
      /\ \A i \in 1..n : q[i] = w.procs[i]
  BY <1>2, <1>3, AppendProperties
<1>. HIDE DEF q
<1>5. y = [w EXCEPT !.procs = q]
  BY DEF Fork, w, q
<1>6. y \in Io /\ y.procs = q /\ y.output = w.output
  BY <1>2, <1>4, <1>5 DEF Io
<1>. HIDE DEF y
<1>7. Active(y) = Active(w)
  BY <1>4, <1>6 DEF Active, Last
<1>8. \A p \in 1..n - 1 : p \in 1..n /\ p \in DOMAIN x.procs /\ p # n
  BY ActiveIs
<1>9. \A p \in 1..n - 1 : y.procs[p] = x.procs[p]
  BY <1>1, <1>4, <1>6, <1>8 DEF Touches
<1>10. n \in 1..n
  OBVIOUS
<1>11. Stream(y) = y.output
  BY <1>1, <1>3, <1>6, <1>7, ConcatEmptySeq DEF Stream
<1>. QED BY <1>1, <1>3, <1>4, <1>6, <1>7, <1>9, <1>10, <1>11 DEF y

LEMMA ExitIs ==
    ASSUME NEW x \in Io, x.procs # <<>>
    PROVE  LET y == UnderscoreExit(x)
           IN  /\ y \in Io /\ Len(y.procs) = Len(x.procs) - 1 /\ y.output = x.output
               /\ \A p \in 1..Len(x.procs) - 1 : y.procs[p] = x.procs[p]
<1>1. /\ Front(x.procs) \in Seq(Proc) /\ Len(Front(x.procs)) = Len(x.procs) - 1
      /\ \A i \in 1..Len(x.procs) - 1 : Front(x.procs)[i] = x.procs[i]
  BY ActiveIs, FrontIs
<1>. QED BY <1>1 DEF UnderscoreExit, Io

(* What is printed to the old stdout comes next in the stream, and is in   *)
(* the output or still in the buffer.                                      *)
LEMMA PrintfIs ==
    ASSUME NEW x \in Io, x.procs # <<>>, NEW l \in LineRec, Active(x).out = "old"
    PROVE  LET y == Printf(x, l)
           IN  /\ Touches(x, y) /\ Active(y).out = "old"
               /\ Stream(y) = Append(Stream(x), l)
               /\ IF opt.line THEN Active(y).buf = <<>> /\ y.output = Stream(y)
                  ELSE Active(y).buf = Append(Active(x).buf, l) /\ y.output = x.output
<1>. DEFINE w == Put(x, l)
            z == Fflush(w)
<1>1. /\ Touches(x, w) /\ Active(w).out = "old"
      /\ Active(w).buf = Append(Active(x).buf, l) /\ w.output = x.output
      /\ Stream(w) = Append(Stream(x), l)
  BY PutIs
<1>. HIDE DEF w
<1>2. w \in Io /\ w.procs # <<>>
  BY <1>1 DEF Touches
<1>3. /\ Touches(w, z) /\ Active(z).out = "old" /\ Active(z).buf = <<>>
      /\ z.output = Stream(w) /\ Stream(z) = z.output
  BY <1>1, <1>2, FflushIs
<1>. HIDE DEF z
<1>4. Touches(x, z)
  BY <1>1, <1>3, TouchesTwice
<1>5. Printf(x, l) = IF opt.line THEN z ELSE w
  BY DEF Printf, w, z
<1>. QED BY <1>1, <1>3, <1>4, <1>5

LEMMA OutputSuppressIs ==
    ASSUME NEW x \in Io, x.procs # <<>>, Active(x).out = "old"
    PROVE  LET y == OutputSuppress(x)
           IN  /\ Touches(x, y) /\ Stream(y) = Stream(x)
               /\ IF opt.verbose THEN y = x
                  ELSE /\ Active(y).out = "nul" /\ Active(y).buf = <<>>
                       /\ y.output = Stream(y)
<1>1. CASE opt.verbose
  BY <1>1 DEF OutputSuppress, Touches
<1>2. CASE ~opt.verbose
  <2>. DEFINE w == Fflush(x)
              y == Dup2(w, "nul")
  <2>1. /\ Touches(x, w) /\ Active(w).buf = <<>> /\ w.output = Stream(x)
        /\ Stream(w) = w.output
    BY FflushIs
  <2>. HIDE DEF w
  <2>2. /\ Touches(w, y) /\ Active(y).out = "nul" /\ Active(y).buf = <<>>
        /\ y.output = w.output /\ Stream(y) = Stream(w)
    BY <2>1, Dup2Is DEF Touches
  <2>3. OutputSuppress(x) = y
    BY <1>2 DEF OutputSuppress, w
  <2>. HIDE DEF y
  <2>. QED BY <1>2, <2>1, <2>2, <2>3, TouchesTwice
<1>. QED BY <1>1, <1>2

LEMMA OutputRestoreIs ==
    ASSUME NEW x \in Io, x.procs # <<>>, opt.verbose => Active(x).out = "old"
    PROVE  LET y == OutputRestore(x)
           IN  /\ Touches(x, y) /\ Active(y).out = "old" /\ Active(y).buf = Active(x).buf
               /\ y.output = x.output /\ Stream(y) = Stream(x)
<1>1. CASE opt.verbose
  BY <1>1 DEF OutputRestore, Touches
<1>2. CASE ~opt.verbose
  BY <1>2, Dup2Is DEF OutputRestore
<1>. QED BY <1>1, <1>2

LEMMA SighandlerIs ==
    ASSUME NEW x \in Io, x.procs # <<>>, opt.verbose => Active(x).out = "old",
           NEW test, Line("signal", test) \in LineRec
    PROVE  LET y == Sighandler(x, test)
           IN  /\ Touches(x, y) /\ Stream(y) = Append(Stream(x), Line("signal", test))
               /\ IF opt.line THEN y.output = Stream(y) ELSE y.output = x.output
<1>. DEFINE w == OutputRestore(x)
            z == Printf(w, Line("signal", test))
<1>1. /\ Touches(x, w) /\ Active(w).out = "old" /\ w.output = x.output
      /\ Stream(w) = Stream(x)
  BY OutputRestoreIs
<1>. HIDE DEF w
<1>2. /\ Touches(w, z) /\ Stream(z) = Append(Stream(w), Line("signal", test))
      /\ IF opt.line THEN z.output = Stream(z) ELSE z.output = w.output
  BY <1>1, PrintfIs DEF Touches
<1>. HIDE DEF z
<1>3. Sighandler(x, test) = z
  BY DEF Sighandler, z, w
<1>. QED BY <1>1, <1>2, <1>3, TouchesTwice

LEMMA FailBlockIs ==
    ASSUME NEW x \in Io, x.procs # <<>>, opt.verbose => Active(x).out = "old",
           NEW n, Report("fail", n) \in LineRec
    PROVE  LET y == FailBlock(x, n)
           IN  /\ Touches(x, y) /\ Stream(y) = Append(Stream(x), Report("fail", n))
               /\ Active(y).out = IF opt.verbose THEN "old" ELSE "nul"
               /\ \/ Active(y).buf = <<>> /\ y.output = Stream(y)
                  \/ /\ opt.verbose /\ y.output = x.output
                     /\ Active(y).buf = Append(Active(x).buf, Report("fail", n))
<1>. DEFINE l == Report("fail", n)
            w == OutputRestore(x)
            z == Printf(w, l)
            y == OutputSuppress(z)
<1>1. /\ Touches(x, w) /\ Active(w).out = "old" /\ w.output = x.output
      /\ Active(w).buf = Active(x).buf /\ Stream(w) = Stream(x)
  BY OutputRestoreIs
<1>. HIDE DEF w
<1>2. /\ Touches(w, z) /\ Stream(z) = Append(Stream(w), l) /\ Active(z).out = "old"
      /\ IF opt.line THEN Active(z).buf = <<>> /\ z.output = Stream(z)
         ELSE Active(z).buf = Append(Active(w).buf, l) /\ z.output = w.output
  BY <1>1, PrintfIs DEF Touches
<1>. HIDE DEF z
<1>3. /\ Touches(z, y) /\ Stream(y) = Stream(z)
      /\ IF opt.verbose THEN y = z
         ELSE Active(y).out = "nul" /\ Active(y).buf = <<>> /\ y.output = Stream(y)
  BY <1>2, OutputSuppressIs DEF Touches
<1>. HIDE DEF y
<1>4. FailBlock(x, n) = y
  BY DEF FailBlock, y, z, w
<1>5. Touches(x, z)
  BY <1>1, <1>2, TouchesTwice
<1>6. Touches(x, y)
  BY <1>3, <1>5, TouchesTwice
<1>7. Stream(y) = Append(Stream(x), l)
  BY <1>1, <1>2, <1>3
<1>8. CASE opt.verbose
  BY <1>1, <1>2, <1>3, <1>4, <1>6, <1>7, <1>8
<1>9. CASE ~opt.verbose
  BY <1>3, <1>4, <1>6, <1>7, <1>9
<1>. QED BY <1>8, <1>9

-----------------------------------------------------------------------------
(* Reports as sequences: cut back, or one line longer.                     *)

Begins(s, t) == Len(s) <= Len(t) /\ \A i \in 1..Len(s) : t[i] = s[i]

LEMMA BeginsKeeps ==
    ASSUME NEW s \in Seq(LineRec), NEW t \in Seq(LineRec), Begins(s, t)
    PROVE  /\ Unique(t) => Unique(s)
           /\ InPlace(t) => InPlace(s)
           /\ DOMAIN s \subseteq DOMAIN t /\ \A i \in DOMAIN s : s[i] = t[i]
<1>1. /\ Len(s) \in Nat /\ Len(t) \in Nat /\ DOMAIN s = 1..Len(s) /\ DOMAIN t = 1..Len(t)
      /\ Len(s) <= Len(t) /\ \A i \in DOMAIN s : s[i] = t[i]
  BY LenProperties DEF Begins
<1>2. DOMAIN s \subseteq DOMAIN t
  BY <1>1
<1>3. Unique(t) => Unique(s)
  BY <1>1, <1>2 DEF Unique
<1>4. ASSUME NEW i \in DOMAIN s, NEW test, HeadAt(t, i, test) PROVE HeadAt(s, i, test)
  <2>1. PICK h \in 1..i : /\ t[h].kind = "test" /\ t[h].test = test
                          /\ \A k \in h + 1..i : t[k].kind # "test"
    BY <1>4 DEF HeadAt
  <2>2. h \in DOMAIN s /\ \A k \in h + 1..i : k \in DOMAIN s
    BY <1>1
  <2>. QED BY <1>1, <2>1, <2>2 DEF HeadAt
<1>5. InPlace(t) => InPlace(s)
  BY <1>1, <1>2, <1>4 DEF InPlace
<1>. QED BY <1>1, <1>2, <1>3, <1>5

LEMMA AppendKeeps ==
    ASSUME NEW s \in Seq(LineRec), NEW l \in LineRec
    PROVE  LET t == Append(s, l)
           IN  /\ t \in Seq(LineRec) /\ Len(t) = Len(s) + 1 /\ DOMAIN t = 1..Len(s) + 1
               /\ t[Len(s) + 1] = l /\ \A i \in DOMAIN s : t[i] = s[i]
               /\ Begins(s, t)
               /\ \A i \in DOMAIN t : i \in DOMAIN s \/ i = Len(s) + 1
               /\ Unique(s) /\ (l.kind = "noise" \/ \A i \in DOMAIN s : s[i] # l) => Unique(t)
               /\ \A test : l.kind # "test" /\ HeadAt(s, Len(s), test) => HeadAt(t, Len(t), test)
               /\ l.kind = "test" => HeadAt(t, Len(t), l.test)
               /\ InPlace(s) /\ (IsVerdict(l) /\ l.test \in Tests => HeadAt(s, Len(s), l.test))
                    => InPlace(t)
<1>. DEFINE t == Append(s, l)
<1>. PICK n \in Nat : n = Len(s)
  BY LenProperties
<1>1. /\ t \in Seq(LineRec) /\ Len(t) = n + 1 /\ t[n + 1] = l /\ \A i \in 1..n : t[i] = s[i]
  BY AppendProperties
<1>2. DOMAIN t = 1..n + 1 /\ DOMAIN s = 1..n
  BY <1>1, LenProperties
<1>. HIDE DEF t
<1>3. \A i \in 1..n + 1 : i \in 1..n \/ i = n + 1
  OBVIOUS
<1>4. Begins(s, t)
  BY <1>1 DEF Begins
<1>5. ASSUME Unique(s), l.kind = "noise" \/ \A i \in DOMAIN s : s[i] # l PROVE Unique(t)
  <2>. SUFFICES ASSUME NEW i \in 1..n + 1, NEW j \in 1..n + 1, t[i].kind # "noise", t[i] = t[j]
                PROVE  i = j
    BY <1>2 DEF Unique
  <2>1. CASE i \in 1..n /\ j \in 1..n
    BY <1>1, <1>2, <1>5, <2>1 DEF Unique
  <2>2. CASE i = n + 1 \/ j = n + 1
    BY <1>1, <1>2, <1>3, <1>5, <2>2
  <2>. QED BY <1>3, <2>1, <2>2
<1>6. ASSUME NEW i \in 1..n, NEW test, HeadAt(s, i, test) PROVE HeadAt(t, i, test)
  <2>1. PICK h \in 1..i : /\ s[h].kind = "test" /\ s[h].test = test
                          /\ \A k \in h + 1..i : s[k].kind # "test"
    BY <1>6 DEF HeadAt
  <2>2. h \in 1..n /\ \A k \in h + 1..i : k \in 1..n
    BY <1>6
  <2>. QED BY <1>1, <2>1, <2>2 DEF HeadAt
<1>7. ASSUME NEW test, l.kind # "test", HeadAt(s, n, test) PROVE HeadAt(t, n + 1, test)
  <2>1. PICK h \in 1..n : /\ s[h].kind = "test" /\ s[h].test = test
                          /\ \A k \in h + 1..n : s[k].kind # "test"
    BY <1>7 DEF HeadAt
  <2>2. /\ h \in 1..n + 1
        /\ \A k \in h + 1..n + 1 : k = n + 1 \/ (k \in h + 1..n /\ k \in 1..n)
    BY <2>1
  <2>. QED BY <1>1, <1>7, <2>1, <2>2 DEF HeadAt
<1>8. l.kind = "test" => HeadAt(t, n + 1, l.test)
  <2>1. n + 1 \in 1..n + 1 /\ \A k \in n + 1 + 1..n + 1 : FALSE
    OBVIOUS
  <2>. QED BY <1>1, <2>1 DEF HeadAt
<1>9. ASSUME InPlace(s), IsVerdict(l) /\ l.test \in Tests => HeadAt(s, n, l.test)
      PROVE  InPlace(t)
  <2>. SUFFICES ASSUME NEW i \in 1..n + 1, IsVerdict(t[i]), t[i].test \in Tests
                PROVE  HeadAt(t, i, t[i].test)
    BY <1>2 DEF InPlace
  <2>1. CASE i \in 1..n
    BY <1>1, <1>2, <1>6, <1>9, <2>1 DEF InPlace
  <2>2. CASE i = n + 1
    <3>1. l.kind # "test"
      BY <1>1, <2>2 DEF IsVerdict
    <3>. QED BY <1>1, <1>7, <1>9, <2>2, <3>1
  <2>. QED BY <1>3, <2>1, <2>2
<1>. QED
  BY <1>1, <1>2, <1>3, <1>4, <1>5, <1>7, <1>8, <1>9 DEF t

(* A header that is not in what is cut off stays the last.                 *)
LEMMA BeginsHead ==
    ASSUME NEW s \in Seq(LineRec), NEW t \in Seq(LineRec), Begins(s, t), NEW test,
           HeadAt(t, Len(t), test), \A i \in Len(s) + 1..Len(t) : t[i].kind # "test"
    PROVE  HeadAt(s, Len(s), test)
<1>1. Len(s) \in Nat /\ Len(t) \in Nat /\ Len(s) <= Len(t)
  BY LenProperties DEF Begins
<1>2. PICK h \in 1..Len(t) : /\ t[h].kind = "test" /\ t[h].test = test
                             /\ \A k \in h + 1..Len(t) : t[k].kind # "test"
  BY DEF HeadAt
<1>3. h \in 1..Len(s)
  <2>1. h \notin Len(s) + 1..Len(t)
    BY <1>2
  <2>. QED BY <1>1, <2>1
<1>4. \A k \in h + 1..Len(s) : k \in 1..Len(s) /\ k \in h + 1..Len(t)
  BY <1>1, <1>3
<1>. QED BY <1>2, <1>3, <1>4 DEF HeadAt, Begins


LEMMA OutputBegins ==
    ASSUME NEW x \in Io, x.procs # <<>>
    PROVE  /\ Begins(x.output, Stream(x))
           /\ \A i \in Len(x.output) + 1..Len(Stream(x)) :
                \E j \in DOMAIN Active(x).buf : Stream(x)[i] = Active(x).buf[j]
           /\ Active(x).buf = <<>> => Stream(x) = x.output
<1>1. PICK a \in Seq(LineRec) : a = x.output
  BY ActiveIs
<1>2. PICK b \in Seq(LineRec) : b = Active(x).buf
  BY ActiveIs
<1>3. /\ Len(a \o b) = Len(a) + Len(b)
      /\ \A i \in 1..Len(a) + Len(b) : (a \o b)[i] = IF i <= Len(a) THEN a[i] ELSE b[i - Len(a)]
  BY ConcatProperties
<1>4. /\ Len(a) \in Nat /\ Len(b) \in Nat /\ DOMAIN b = 1..Len(b)
  BY LenProperties
<1>5. Begins(a, a \o b)
  BY <1>3, <1>4 DEF Begins
<1>6. \A m, n \in Nat : \A i \in m + 1..m + n :
        i \in 1..m + n /\ ~(i <= m) /\ i - m \in 1..n
  OBVIOUS
<1>7. \A i \in Len(a) + 1..Len(a) + Len(b) : \E j \in 1..Len(b) : (a \o b)[i] = b[j]
  BY <1>3, <1>4, <1>6
<1>8. b = <<>> => a \o b = a
  BY ConcatEmptySeq
<1>9. PICK c : c = a \o b
  OBVIOUS
<1>10. Stream(x) = c
  BY <1>1, <1>2, <1>9 DEF Stream
<1>11. /\ Begins(a, c) /\ (b = <<>> => c = a)
       /\ \A i \in Len(a) + 1..Len(c) : \E j \in DOMAIN b : c[i] = b[j]
  BY <1>3, <1>4, <1>5, <1>7, <1>8, <1>9
<1>. QED BY <1>1, <1>2, <1>10, <1>11, Zenon

-----------------------------------------------------------------------------
(* One step of the program.                                                *)

(* What a line says of the test it is about stays true.                    *)
LEMMA KnownStays ==
    ASSUME CInv, CInv', pc # "done", suite <= suite',
           \A test \in Tests :
             /\ truth[test] # "unrun" => truth'[test] # "unrun"
             /\ truth[test] \in {"bad", "killed"} => truth'[test] \in {"bad", "killed"},
           \/ ~OfTest'
           \/ /\ Now' = Now /\ OfTest /\ steps <= steps' /\ (InTest' => InTest)
              /\ pc' = "try" => pc = "try" \/ steps < steps'
           \/ truth[Now'] = "unrun"
    PROVE  \A l \in LineRec : Known(l) => Known(l)'
<1>. SUFFICES ASSUME NEW l \in LineRec, Known(l)
              PROVE  Known(l)'
  OBVIOUS
<1>1. /\ suite \in Nat /\ suite' \in Nat /\ steps \in Nat /\ steps' \in Nat
  BY SizesAre DEF CInv, TypeInv
<1>2. l.test \in Nat \X Nat /\ l.n \in Nat /\ l.test[1] \in Nat
  BY DEF LineRec
<1>3. (l.kind = "suite" => l.test[2] = 0 /\ l.test[1] <= suite)'
  BY <1>1, <1>2 DEF Known
<1>4. (l.kind \in {"test", "fail", "signal", "exited"} =>
        l.test \in Tests /\ truth[l.test] # "unrun")'
  BY DEF Known
<1>5. (IsVerdict(l) => truth[l.test] \in {"bad", "killed"})'
  BY DEF Known, IsVerdict
<1>6. l.kind # "summary"
  BY DEF Known
<1>7. (/\ l.kind = "fail" /\ l.test = Now =>
            (InTest => l.n <= steps) /\ (pc = "try" => l.n < steps)
       /\ l.kind = "signal" /\ l.test = Now => ~InTest
       /\ l.kind = "exited" /\ l.test = Now => ~OfTest)'
  <2>1. CASE ~OfTest'
    BY <2>1 DEF InTest, OfTest
  <2>2. CASE /\ Now' = Now /\ OfTest /\ steps <= steps' /\ (InTest' => InTest)
             /\ pc' = "try" => pc = "try" \/ steps < steps'
    <3>1. l.kind = "fail" /\ l.test = Now' =>
            (InTest' => l.n <= steps') /\ (pc' = "try" => l.n < steps')
      BY <1>1, <1>2, <2>2 DEF Known, InTest
    <3>. QED BY <2>2, <3>1 DEF Known
  <2>3. CASE truth[Now'] = "unrun"
    BY <2>3 DEF Known
  <2>. QED BY <2>1, <2>2, <2>3
<1>. QED BY <1>3, <1>4, <1>5, <1>6, <1>7 DEF Known

(* No verdict of s is missing in t.                                        *)
Says(s, t) == \A i \in DOMAIN s : IsVerdict(s[i]) => \E j \in DOMAIN t : t[j] = s[i]

LEMMA BeginsSays ==
    ASSUME NEW s \in Seq(LineRec), NEW t \in Seq(LineRec), Begins(s, t)
    PROVE  Says(s, t)
BY BeginsKeeps DEF Says

LEMMA SaysTwice ==
    ASSUME NEW s, NEW t, NEW u, Says(s, t), Says(t, u)
    PROVE  Says(s, u)
<1>. SUFFICES ASSUME NEW i \in DOMAIN s, IsVerdict(s[i])
              PROVE  \E k \in DOMAIN u : u[k] = s[i]
  BY DEF Says
<1>1. PICK j \in DOMAIN t : t[j] = s[i]
  BY DEF Says
<1>2. PICK k \in DOMAIN u : u[k] = t[j]
  BY <1>1 DEF Says
<1>. QED BY <1>1, <1>2

(* The process that runs, as long as there is one.                         *)
LEMMA RunnerIs ==
    ASSUME CInv, ProcsInv, pc # "aborted"
    PROVE  /\ io \in Io /\ io.procs # <<>> /\ Len(io.procs) \in 1..3
           /\ Active(io).out = IF InTest /\ ~opt.verbose THEN "nul" ELSE "old"
           /\ ~InTest => Len(io.procs) = 1
           /\ InTest => (opt.recover <=> Len(io.procs) # 1)
           /\ opt.verbose => Active(io).out = "old"
<1>1. io \in Io /\ Len(io.procs) \in 1..3
  BY DEF ProcsInv
<1>2. io.procs # <<>>
  <2>1. Len(<<>>) = 0 /\ 0 \notin 1..3
    OBVIOUS
  <2>. QED BY <1>1, <2>1
<1>3. Len(io.procs) \in DOMAIN io.procs /\ Active(io) = io.procs[Len(io.procs)]
  BY <1>1, <1>2, ActiveIs
<1>4. /\ ~InTest => Len(io.procs) = 1
      /\ InTest => (opt.recover <=> Len(io.procs) # 1)
  BY DEF ProcsInv, InTest, CInv, PlaceInv
<1>5. Active(io).out = IF InTest /\ ~opt.verbose THEN "nul" ELSE "old"
  BY <1>3, <1>4 DEF ProcsInv
<1>. QED BY <1>1, <1>2, <1>4, <1>5

LEMMA ProcsTouched ==
    ASSUME CInv, ProcsInv, UNCHANGED opt, pc # "aborted", pc' # "aborted",
           pc = "try" <=> pc' = "try", ~opt.recover \/ (InTest <=> InTest'),
           NEW y, y = io', Touches(io, y),
           Active(y).out = IF InTest' /\ ~opt.verbose THEN "nul" ELSE "old",
           InTest' /\ ~opt.verbose =>
             \A i \in DOMAIN Active(y).buf : Active(y).buf[i].kind = "noise",
           pc' = "done" => Active(y).buf = <<>>
    PROVE  ProcsInv'
<1>. PICK n : n = Len(io.procs)
  OBVIOUS
<1>1. /\ io.procs # <<>> /\ y \in Io /\ y.procs # <<>> /\ Len(y.procs) = n
      /\ \A p \in DOMAIN io.procs : p # n => y.procs[p] = io.procs[p]
  BY RunnerIs DEF Touches
<1>2. DOMAIN y.procs = 1..n /\ DOMAIN io.procs = 1..n /\ Active(y) = y.procs[n] /\ n \in 1..3
  BY <1>1, ActiveIs, RunnerIs
<1>3. n = IF pc' = "try" THEN 3 ELSE IF pc' = "test" /\ opt.recover THEN 2 ELSE 1
  BY DEF ProcsInv, InTest, CInv, PlaceInv
<1>4. ASSUME NEW p \in 1..n
      PROVE  /\ p # n => y.procs[p].buf = <<>>
             /\ y.procs[p].out = IF InTest' /\ ~opt.verbose /\ (p # 1 \/ ~opt.recover)
                                 THEN "nul" ELSE "old"
  <2>1. CASE p = n
    BY <1>2, <1>3, <2>1 DEF InTest
  <2>2. CASE p # n
    <3>1. n # 1 /\ y.procs[p] = io.procs[p]
      BY <1>1, <1>2, <2>2
    <3>2. opt.recover /\ (InTest <=> InTest')
      BY <1>2, <3>1 DEF ProcsInv, CInv, PlaceInv
    <3>. QED BY <1>2, <2>2, <3>1, <3>2 DEF ProcsInv
  <2>. QED BY <2>1, <2>2
<1>5. (/\ io \in Io
       /\ Len(io.procs) = IF pc = "aborted" THEN 0 ELSE IF pc = "try" THEN 3
                          ELSE IF pc = "test" /\ opt.recover THEN 2 ELSE 1)'
  BY <1>1, <1>3
<1>6. (\A p \in DOMAIN io.procs :
        /\ p # Len(io.procs) => io.procs[p].buf = <<>>
        /\ io.procs[p].out = IF InTest /\ ~opt.verbose /\ (p # 1 \/ ~opt.recover)
                             THEN "nul" ELSE "old")'
  BY <1>1, <1>2, <1>4
<1>7. (/\ InTest /\ ~opt.verbose =>
            \A i \in DOMAIN Active(io).buf : Active(io).buf[i].kind = "noise"
       /\ pc = "done" => Active(io).buf = <<>>)'
  OBVIOUS
<1>. QED BY <1>5, <1>6, <1>7 DEF ProcsInv

LEMMA ToldNext ==
    ASSUME StreamInv, pc # "aborted", NEW y, y = io',
           NEW s, s = Kept(io), NEW t, t = Kept(y), Says(s, t),
           \A test \in Tests :
             truth'[test] = "bad" /\ ~(opt.recover /\ OfTest' /\ test = Now')
               => \/ truth[test] = "bad" /\ ~(opt.recover /\ OfTest /\ test = Now)
                  \/ \E j \in DOMAIN t : t[j].test = test /\ IsVerdict(t[j])
    PROVE  \A test \in Tests :
             truth'[test] = "bad" /\ ~(opt.recover /\ OfTest' /\ test = Now') => Told(test)'
<1>. SUFFICES ASSUME NEW test \in Tests, truth'[test] = "bad",
                     ~(opt.recover /\ OfTest' /\ test = Now')
              PROVE  \E j \in DOMAIN t : t[j].test = test /\ IsVerdict(t[j])
  <2>1. t = Kept(io)'
    BY DEF Kept, Stream, Active
  <2>. QED BY <2>1 DEF Told, IsVerdict
<1>1. CASE truth[test] = "bad" /\ ~(opt.recover /\ OfTest /\ test = Now)
  <2>1. PICK i \in DOMAIN s : s[i].test = test /\ IsVerdict(s[i])
    BY <1>1 DEF StreamInv, Told
  <2>2. PICK j \in DOMAIN t : t[j] = s[i]
    BY <2>1 DEF Says
  <2>. QED BY <2>1, <2>2
<1>. QED BY <1>1

LEMMA StreamStep ==
    ASSUME ProcsInv', CInv', StreamInv, UNCHANGED opt, pc # "aborted", pc' # "aborted",
           \A l \in LineRec : Known(l) => Known(l)',
           Stream(io) \in Seq(LineRec),
           NEW s \in Seq(LineRec), Begins(s, Stream(io)),
           NEW y, y = io', NEW t, t = Stream(y),
           \/ t = s /\ (Ordered /\ OfTest' => HeadAt(s, Len(s), Now'))
           \/ \E l \in LineRec :
                /\ t = Append(s, l) /\ Known(l)' /\ (l.kind = "noise" \/ ~Known(l))
                /\ Ordered /\ IsVerdict(l) => HeadAt(s, Len(s), l.test)
                /\ Ordered /\ OfTest' => IF l.kind = "test" THEN l.test = Now'
                                         ELSE HeadAt(s, Len(s), Now'),
           NEW b, b = Active(y).buf,
           Ordered /\ opt.recover /\ InTest' => \A i \in DOMAIN b : b[i].kind # "test",
           \A test \in Tests :
             truth'[test] = "bad" /\ ~(opt.recover /\ OfTest' /\ test = Now') => Told(test)'
    PROVE  StreamInv'
<1>1. PICK w \in Seq(LineRec) : w = Stream(io)
  OBVIOUS
<1>2. /\ Unique(w) /\ (Ordered => InPlace(w)) /\ \A i \in DOMAIN w : Known(w[i])
  BY <1>1 DEF StreamInv
<1>3. /\ Unique(s) /\ (Ordered => InPlace(s)) /\ DOMAIN s \subseteq DOMAIN w
      /\ \A i \in DOMAIN s : s[i] = w[i] /\ s[i] \in LineRec
  <2>1. \A i \in DOMAIN s : s[i] \in LineRec
    BY LenProperties, ElementOfSeq
  <2>. QED BY <1>1, <1>2, <2>1, BeginsKeeps
<1>4. \A i \in DOMAIN s : Known(s[i]) /\ Known(s[i])'
  BY <1>2, <1>3
<1>5. /\ t \in Seq(LineRec) /\ Unique(t) /\ (Ordered => InPlace(t))
      /\ \A i \in DOMAIN t : Known(t[i])'
      /\ Ordered /\ OfTest' => HeadAt(t, Len(t), Now')
  <2>1. CASE t = s /\ (Ordered /\ OfTest' => HeadAt(s, Len(s), Now'))
    BY <1>3, <1>4, <2>1
  <2>2. ASSUME NEW l \in LineRec, t = Append(s, l), Known(l)', l.kind = "noise" \/ ~Known(l),
               Ordered /\ IsVerdict(l) => HeadAt(s, Len(s), l.test),
               Ordered /\ OfTest' => IF l.kind = "test" THEN l.test = Now'
                                     ELSE HeadAt(s, Len(s), Now')
        PROVE  /\ t \in Seq(LineRec) /\ Unique(t) /\ (Ordered => InPlace(t))
               /\ \A i \in DOMAIN t : Known(t[i])'
               /\ Ordered /\ OfTest' => HeadAt(t, Len(t), Now')
    <3>1. \A i \in DOMAIN s : l.kind = "noise" \/ s[i] # l
      BY <1>4, <2>2
    <3>2. t \in Seq(LineRec) /\ Unique(t) /\ (Ordered => InPlace(t))
      BY <1>3, <2>2, <3>1, AppendKeeps
    <3>3. \A i \in DOMAIN t : Known(t[i])'
      <4>1. \A i \in DOMAIN t : (i \in DOMAIN s /\ t[i] = s[i]) \/ t[i] = l
        BY <2>2, AppendKeeps
      <4>. QED BY <1>4, <2>2, <4>1
    <3>4. Ordered /\ OfTest' => HeadAt(t, Len(t), Now')
      BY <2>2, AppendKeeps
    <3>. QED BY <3>2, <3>3, <3>4
  <2>. QED BY <2>1, <2>2
<1>6. (/\ Unique(Stream(io)) /\ (Ordered => InPlace(Stream(io)))
       /\ \A i \in DOMAIN Stream(io) : Known(Stream(io)[i])
       /\ Ordered /\ OfTest => HeadAt(Stream(io), Len(Stream(io)), Now))'
  <2>1. t = Stream(io)'
    BY DEF Stream, Active
  <2>. QED BY <1>5, <2>1 DEF Ordered
<1>7. (Unique(io.output) /\ (Ordered => InPlace(io.output)))'
  <2>1. y \in Io /\ y.procs # <<>> /\ Stream(y) = t
    <3>1. io' \in Io /\ io'.procs # <<>>
      <4>1. io' \in Io /\ Len(io'.procs) # 0
        BY DEF ProcsInv
      <4>2. Len(<<>>) = 0
        OBVIOUS
      <4>. QED BY <4>1, <4>2
    <3>. QED BY <3>1
  <2>2. y.output \in Seq(LineRec) /\ Begins(y.output, t)
    BY <2>1, ActiveIs, OutputBegins
  <2>3. Unique(y.output) /\ (Ordered => InPlace(y.output))
    BY <1>5, <2>2, BeginsKeeps
  <2>. QED BY <2>3 DEF Ordered
<1>8. (/\ Ordered /\ opt.recover /\ InTest =>
            \A i \in DOMAIN Active(io).buf : Active(io).buf[i].kind # "test"
       /\ \A test \in Tests :
            truth[test] = "bad" /\ ~(opt.recover /\ OfTest /\ test = Now) => Told(test))'
  <2>1. b = Active(io)'.buf
    BY DEF Active
  <2>. QED BY <2>1 DEF Ordered
<1>. QED BY <1>6, <1>7, <1>8 DEF StreamInv

(* _exit() throws away what is behind the output: the tested code's own    *)
(* lines, or lines of the same test.                                       *)
LEMMA CutIs ==
    ASSUME CInv, ProcsInv, StreamInv, pc # "aborted"
    PROVE  /\ io.output \in Seq(LineRec) /\ Stream(io) \in Seq(LineRec)
           /\ Begins(io.output, Stream(io)) /\ Says(io.output, Stream(io))
           /\ InTest /\ ~opt.verbose => Says(Stream(io), io.output)
           /\ InTest /\ (opt.recover \/ ~opt.verbose) /\ Ordered
                => HeadAt(io.output, Len(io.output), Now)
<1>1. io \in Io /\ io.procs # <<>>
  BY RunnerIs
<1>2. PICK s \in Seq(LineRec) : s = io.output
  BY <1>1, ActiveIs
<1>3. PICK t \in Seq(LineRec) : t = Stream(io)
  BY <1>1, ActiveIs
<1>4. /\ Begins(s, t)
      /\ \A i \in Len(s) + 1..Len(t) : \E j \in DOMAIN Active(io).buf : t[i] = Active(io).buf[j]
  BY <1>1, <1>2, <1>3, OutputBegins
<1>5. Says(s, t)
  BY <1>4, BeginsSays
<1>6. ASSUME InTest, ~opt.verbose PROVE Says(t, s)
  <2>1. \A i \in Len(s) + 1..Len(t) : t[i].kind = "noise"
    BY <1>4, <1>6 DEF ProcsInv
  <2>2. \A i \in DOMAIN t : i \notin DOMAIN s => i \in Len(s) + 1..Len(t)
    BY LenProperties
  <2>3. \A i \in DOMAIN s : i \in DOMAIN t /\ s[i] = t[i]
    BY <1>4, BeginsKeeps
  <2>. QED BY <2>1, <2>2, <2>3 DEF Says, IsVerdict
<1>7. ASSUME InTest, opt.recover \/ ~opt.verbose, Ordered PROVE HeadAt(s, Len(s), Now)
  <2>1. \A i \in DOMAIN Active(io).buf : Active(io).buf[i].kind # "test"
    BY <1>7 DEF ProcsInv, StreamInv
  <2>2. \A i \in Len(s) + 1..Len(t) : t[i].kind # "test"
    BY <1>4, <2>1
  <2>3. HeadAt(t, Len(t), Now)
    BY <1>3, <1>7 DEF StreamInv, OfTest, InTest
  <2>. QED BY <1>4, <2>2, <2>3, BeginsHead
<1>. QED BY <1>2, <1>3, <1>4, <1>5, <1>6, <1>7

LEMMA LinesAre ==
    ASSUME CInv
    PROVE  /\ Now \in Nat \X Nat
           /\ \A kind \in {"suite", "test", "noise", "signal", "exited", "summary"},
                 test \in Nat \X Nat :
                Line(kind, test) \in LineRec /\ Line(kind, test).kind = kind
                /\ Line(kind, test).test = test /\ Line(kind, test).n = 0
           /\ \A n \in Nat : Report("fail", n) \in LineRec
                /\ Report("fail", n).kind = "fail" /\ Report("fail", n).test = Now
                /\ Report("fail", n).n = n
<1>1. suite \in Nat /\ index \in Nat
  BY SizesAre DEF CInv, TypeInv
<1>2. Now \in Nat \X Nat
  BY <1>1 DEF Now
<1>3. 0 \in Nat
  OBVIOUS
<1>. QED BY <1>2, <1>3 DEF Line, Report, LineRec

LEMMA SameTest ==
    ASSUME CInv, CInv', InTest, UNCHANGED <<suite, index>>, steps <= steps',
           pc' = "try" => pc = "try" \/ steps < steps',
           \/ truth' = truth
           \/ \E v \in {"bad", "killed"} : truth' = [truth EXCEPT ![Now] = v]
    PROVE  /\ Now' = Now /\ Now \in Tests
           /\ \A l \in LineRec : Known(l) => Known(l)'
           /\ \A test \in Tests : test # Now => truth'[test] = truth[test]
<1>1. Now' = Now /\ OfTest /\ pc # "done" /\ suite' = suite /\ suite \in Nat
  BY SizesAre DEF Now, InTest, OfTest, CInv, TypeInv
<1>2. Now \in Tests
  BY <1>1, PresentTest
<1>3. truth \in [Tests -> {"unrun", "ok", "bad", "killed"}]
  BY DEF CInv, TypeInv
<1>4. \A test \in Tests : test # Now => truth'[test] = truth[test]
  BY <1>3
<1>5. \A test \in Tests : truth'[test] = truth[test] \/ truth'[test] \in {"bad", "killed"}
  BY <1>3
<1>6. \A l \in LineRec : Known(l) => Known(l)'
  <2>1. suite <= suite'
    BY <1>1
  <2>. QED BY <1>1, <1>5, <2>1, KnownStays
<1>. QED BY <1>1, <1>2, <1>4, <1>6

(* The tested code's own output; suppressed, it is dropped when flushed.   *)
LEMMA NoiseIo ==
    ASSUME IInv, CInv', Noise
    PROVE  ProcsInv' /\ StreamInv'
<1>. USE DEF IInv
<1>1. PICK l : l = Line("noise", Now)
  OBVIOUS
<1>. DEFINE x == Put(io, l)
            z == Fflush(x)
<1>2. /\ InTest /\ pc' = pc /\ steps' = steps + 1 /\ io' \in {x, z}
      /\ UNCHANGED <<main, passed, status, truth>>
  BY <1>1 DEF Noise, Step, InTest
<1>3. l \in LineRec /\ l.kind = "noise"
  BY <1>1, LinesAre
<1>4. Known(l)' /\ ~IsVerdict(l)
  BY <1>3 DEF Known, IsVerdict
<1>5. /\ io \in Io /\ io.procs # <<>> /\ pc # "aborted" /\ pc' # "aborted" /\ pc' # "done"
      /\ Active(io).out = IF InTest' /\ ~opt.verbose THEN "nul" ELSE "old"
      /\ opt' = opt /\ (InTest <=> InTest') /\ OfTest /\ OfTest'
  BY <1>2, RunnerIs DEF InTest, OfTest, main
<1>6. /\ Touches(io, x) /\ Active(x).out = Active(io).out
      /\ Active(x).buf = Append(Active(io).buf, l) /\ x.output = io.output
      /\ Stream(x) = Append(Stream(io), l)
  BY <1>3, <1>5, PutIs
<1>. HIDE DEF x
<1>7. /\ Touches(x, z) /\ Active(z).out = Active(x).out /\ Active(z).buf = <<>>
      /\ z.output = IF Active(x).out = "old" THEN Stream(x) ELSE x.output
      /\ Stream(z) = z.output
  BY <1>6, FflushIs DEF Touches
<1>. HIDE DEF z
<1>8. PICK y : y = io'
  OBVIOUS
<1>9. Touches(io, y) /\ Active(y).out = Active(io).out /\ Len(y.procs) = Len(io.procs)
  BY <1>2, <1>5, <1>6, <1>7, <1>8, TouchesTwice DEF Touches
<1>10. PICK b : b = Active(y).buf
  OBVIOUS
<1>11. b = <<>> \/ b = Append(Active(io).buf, l)
  BY <1>2, <1>6, <1>7, <1>8, <1>10
<1>12. /\ InTest /\ ~opt.verbose => \A i \in DOMAIN b : b[i].kind = "noise"
       /\ Ordered /\ opt.recover => \A i \in DOMAIN b : b[i].kind # "test"
  <2>1. CASE b = <<>>
    <3>1. DOMAIN b = {}
      BY <2>1
    <3>. QED BY <3>1
  <2>2. CASE b = Append(Active(io).buf, l)
    <3>1. \A i \in DOMAIN b : (i \in DOMAIN Active(io).buf /\ b[i] = Active(io).buf[i]) \/ b[i] = l
      BY <1>3, <1>5, <2>2, ActiveIs, AppendKeeps
    <3>2. \A i \in DOMAIN b : (i \in DOMAIN Active(io).buf /\ b[i] = Active(io).buf[i])
                              \/ b[i].kind = "noise"
      BY <1>3, <3>1
    <3>. QED BY <1>2, <1>5, <3>2 DEF ProcsInv, StreamInv
  <2>. QED BY <1>11, <2>1, <2>2
<1>13. ProcsInv'
  BY <1>2, <1>5, <1>8, <1>9, <1>10, <1>12, ProcsTouched
<1>14. PICK o \in Seq(LineRec) : o = io.output
  BY <1>5, CutIs
<1>15. PICK g \in Seq(LineRec) : g = Stream(io)
  BY <1>5, CutIs
<1>16. /\ Begins(o, g) /\ Says(o, g) /\ Begins(g, g)
       /\ ~opt.verbose => Says(g, o)
       /\ Ordered => (~opt.verbose => HeadAt(o, Len(o), Now)) /\ HeadAt(g, Len(g), Now)
  BY <1>2, <1>5, <1>14, <1>15, CutIs DEF StreamInv, Begins
<1>17. /\ Now' = Now /\ \A k \in LineRec : Known(k) => Known(k)'
  BY <1>2, SameTest DEF CInv, TypeInv, main
<1>18. PICK t : t = Stream(y)
  OBVIOUS
<1>19. PICK u : u = y.output
  OBVIOUS
<1>20. \/ t = Append(g, l) /\ u \in {o, t}
       \/ t = o /\ u = o /\ ~opt.verbose
  BY <1>2, <1>5, <1>6, <1>7, <1>8, <1>14, <1>15, <1>18, <1>19
<1>21. Says(o, u) /\ Says(g, t)
  <2>1. Says(o, o)
    BY DEF Says
  <2>2. Begins(g, Append(g, l)) /\ Append(g, l) \in Seq(LineRec)
    BY <1>3, AppendKeeps
  <2>3. Says(g, Append(g, l))
    BY <2>2, BeginsSays
  <2>4. Says(o, Append(g, l))
    BY <1>16, <2>3, SaysTwice
  <2>. QED BY <1>16, <1>20, <2>1, <2>3, <2>4
<1>22. Says(Kept(io), Kept(y))
  BY <1>9, <1>14, <1>15, <1>18, <1>19, <1>21 DEF Kept
<1>23. \A test \in Tests :
         truth'[test] = "bad" /\ ~(opt.recover /\ OfTest' /\ test = Now') => Told(test)'
  BY <1>2, <1>5, <1>8, <1>17, <1>22, ToldNext
<1>24. CASE t = Append(g, l)
  BY <1>3, <1>4, <1>5, <1>8, <1>10, <1>12, <1>13, <1>15, <1>16, <1>17, <1>18, <1>23,
     <1>24, StreamStep
<1>25. CASE t = o /\ ~opt.verbose
  BY <1>5, <1>8, <1>10, <1>12, <1>13, <1>15, <1>16, <1>17, <1>18, <1>23, <1>25, StreamStep
<1>. QED BY <1>13, <1>20, <1>24, <1>25

LEMMA SaysGrows ==
    ASSUME NEW o \in Seq(LineRec), NEW g \in Seq(LineRec), Begins(o, g), NEW l \in LineRec
    PROVE  /\ Says(o, o) /\ Says(g, g) /\ Begins(o, o) /\ Begins(g, g)
           /\ Says(o, g) /\ Says(g, Append(g, l)) /\ Says(o, Append(g, l))
<1>1. /\ Says(o, o) /\ Says(g, g) /\ Begins(o, o) /\ Begins(g, g)
  BY LenProperties DEF Says, Begins
<1>2. Begins(g, Append(g, l)) /\ Append(g, l) \in Seq(LineRec)
  BY AppendKeeps
<1>3. Says(g, Append(g, l)) /\ Says(o, g)
  BY <1>2, BeginsSays
<1>4. Says(o, Append(g, l))
  BY <1>3, SaysTwice
<1>. QED BY <1>1, <1>3, <1>4

(* A trial: a block that holds is silent, one that fails is reported.      *)
LEMMA TrialIo ==
    ASSUME IInv, CInv', NEW holds \in BOOLEAN, Trial(holds)
    PROVE  ProcsInv' /\ StreamInv'
<1>. USE DEF IInv
<1>1. PICK l : l = Report("fail", steps + 1)
  OBVIOUS
<1>. DEFINE x == FailBlock(io, steps + 1)
<1>2. /\ InTest /\ pc = "test" /\ pc' = pc /\ steps' = steps + 1 /\ UNCHANGED <<main, status>>
      /\ IF holds THEN UNCHANGED <<passed, io, truth>>
         ELSE io' = x /\ truth' = [truth EXCEPT ![Now] = "bad"]
  BY DEF Trial, Step, InTest
<1>3. steps \in Nat /\ steps + 1 \in Nat /\ truth \in [Tests -> {"unrun", "ok", "bad", "killed"}]
  BY DEF CInv, TypeInv
<1>4. l \in LineRec /\ l.kind = "fail" /\ l.test = Now /\ l.n = steps + 1 /\ IsVerdict(l)
  BY <1>1, <1>3, LinesAre DEF IsVerdict
<1>5. /\ io \in Io /\ io.procs # <<>> /\ pc # "aborted" /\ pc' # "aborted" /\ pc' # "done"
      /\ Active(io).out = IF InTest' /\ ~opt.verbose THEN "nul" ELSE "old"
      /\ opt' = opt /\ InTest' /\ OfTest /\ OfTest'
      /\ (opt.verbose => Active(io).out = "old") /\ (opt.recover <=> Len(io.procs) # 1)
  BY <1>2, RunnerIs DEF InTest, OfTest, main
<1>6. /\ Touches(io, x) /\ Stream(x) = Append(Stream(io), l)
      /\ Active(x).out = IF opt.verbose THEN "old" ELSE "nul"
      /\ \/ Active(x).buf = <<>> /\ x.output = Stream(x)
         \/ /\ opt.verbose /\ x.output = io.output
            /\ Active(x).buf = Append(Active(io).buf, l)
  BY <1>1, <1>3, <1>4, <1>5, FailBlockIs
<1>. HIDE DEF x
<1>7. Touches(io, io)
  BY <1>5 DEF Touches
<1>8. PICK y : y = io'
  OBVIOUS
<1>9. y = IF holds THEN io ELSE x
  BY <1>2, <1>8
<1>10. /\ Touches(io, y) /\ Len(y.procs) = Len(io.procs)
       /\ Active(y).out = IF InTest' /\ ~opt.verbose THEN "nul" ELSE "old"
  BY <1>5, <1>6, <1>7, <1>9 DEF Touches
<1>11. PICK b : b = Active(y).buf
  OBVIOUS
<1>12. /\ ~opt.verbose => \A i \in DOMAIN b : b[i].kind = "noise"
       /\ Ordered /\ opt.recover => \A i \in DOMAIN b : b[i].kind # "test"
  <2>1. CASE b = <<>>
    <3>1. DOMAIN b = {}
      BY <2>1
    <3>. QED BY <3>1
  <2>2. CASE b = Active(io).buf
    BY <1>2, <1>5, <2>2 DEF ProcsInv, StreamInv
  <2>3. CASE opt.verbose /\ b = Append(Active(io).buf, l)
    <3>1. \A i \in DOMAIN b : (i \in DOMAIN Active(io).buf /\ b[i] = Active(io).buf[i]) \/ b[i] = l
      BY <1>4, <1>5, <2>3, ActiveIs, AppendKeeps
    <3>2. \A i \in DOMAIN b : (i \in DOMAIN Active(io).buf /\ b[i] = Active(io).buf[i])
                              \/ b[i].kind = "fail"
      BY <1>4, <3>1
    <3>. QED BY <1>2, <1>5, <2>3, <3>2 DEF StreamInv
  <2>. QED BY <1>6, <1>9, <1>11, <2>1, <2>2, <2>3
<1>13. ProcsInv'
  BY <1>2, <1>5, <1>8, <1>10, <1>11, <1>12, ProcsTouched
<1>14. PICK o \in Seq(LineRec) : o = io.output
  BY <1>5, CutIs
<1>15. PICK g \in Seq(LineRec) : g = Stream(io)
  BY <1>5, CutIs
<1>16. Begins(o, g) /\ (Ordered => HeadAt(g, Len(g), Now))
  BY <1>5, <1>14, <1>15, CutIs DEF StreamInv
<1>17. /\ Now' = Now /\ \A k \in LineRec : Known(k) => Known(k)'
       /\ \A test \in Tests : test # Now => truth'[test] = truth[test]
       /\ Now \in Tests
  BY <1>2, <1>3, SameTest DEF main
<1>18. PICK t : t = Stream(y)
  OBVIOUS
<1>19. PICK u : u = y.output
  OBVIOUS
<1>20. IF holds THEN t = g /\ u = o ELSE t = Append(g, l) /\ u \in {o, t}
  BY <1>6, <1>9, <1>14, <1>15, <1>18, <1>19
<1>21. Says(o, u) /\ Says(g, t)
  BY <1>4, <1>16, <1>20, SaysGrows
<1>22. Says(Kept(io), Kept(y))
  BY <1>10, <1>14, <1>15, <1>18, <1>19, <1>21 DEF Kept
<1>23. ~holds /\ ~opt.recover => \E j \in DOMAIN Kept(y) : Kept(y)[j] = l
  <2>1. \E j \in DOMAIN Append(g, l) : Append(g, l)[j] = l
    <3>1. Len(g) + 1 \in 1..Len(g) + 1
      BY LenProperties
    <3>. QED BY <1>4, <3>1, AppendKeeps
  <2>. QED BY <1>5, <1>10, <1>18, <1>20, <2>1 DEF Kept
<1>24. \A test \in Tests :
         truth'[test] = "bad" /\ ~(opt.recover /\ OfTest' /\ test = Now')
           => \/ truth[test] = "bad" /\ ~(opt.recover /\ OfTest /\ test = Now)
              \/ \E j \in DOMAIN Kept(y) : Kept(y)[j].test = test /\ IsVerdict(Kept(y)[j])
  BY <1>2, <1>4, <1>5, <1>17, <1>23
<1>25. \A test \in Tests :
         truth'[test] = "bad" /\ ~(opt.recover /\ OfTest' /\ test = Now') => Told(test)'
  BY <1>5, <1>8, <1>22, <1>24, ToldNext
<1>26. ~holds => Known(l)' /\ ~Known(l)
  <2>1. ~(steps + 1 <= steps) /\ steps + 1 <= steps'
    BY <1>2, <1>3
  <2>2. ~Known(l)
    BY <1>2, <1>4, <2>1 DEF Known
  <2>3. ~holds => Known(l)'
    BY <1>2, <1>3, <1>4, <1>17, <2>1 DEF Known, IsVerdict
  <2>. QED BY <2>2, <2>3
<1>27. Begins(g, g)
  BY DEF Begins
<1>28. CASE holds
  BY <1>5, <1>8, <1>11, <1>12, <1>13, <1>15, <1>16, <1>17, <1>18, <1>20, <1>25, <1>27, <1>28,
     StreamStep
<1>29. CASE ~holds
  BY <1>4, <1>5, <1>8, <1>11, <1>12, <1>13, <1>15, <1>16, <1>17, <1>18, <1>20, <1>25, <1>26,
     <1>27, <1>29, StreamStep, SMTT(30)
<1>. QED BY <1>13, <1>28, <1>29

(* HTRY_SIGNAL forks; what was suppressed and buffered is dropped.         *)
LEMMA TrySignalIo ==
    ASSUME IInv, CInv', TrySignal
    PROVE  ProcsInv' /\ StreamInv'
<1>. USE DEF IInv
<1>1. CASE ~opt.recover
  <2>1. Trial(TRUE)
    BY <1>1 DEF TrySignal, Trial
  <2>. QED BY <2>1, TrialIo
<1>2. CASE opt.recover
  <2>. DEFINE x == Fork(io)
  <2>1. /\ InTest /\ pc = "test" /\ pc' = "try" /\ steps' = steps + 1 /\ io' = x
        /\ UNCHANGED <<main, passed, status, truth>>
    BY <1>2 DEF TrySignal, Step, InTest
  <2>2. /\ io \in Io /\ io.procs # <<>> /\ pc # "aborted" /\ pc' # "aborted" /\ pc' # "done"
        /\ Active(io).out = IF InTest' /\ ~opt.verbose THEN "nul" ELSE "old"
        /\ opt' = opt /\ InTest' /\ OfTest /\ OfTest' /\ Len(io.procs) = 2
        /\ (opt.recover <=> opt'.recover)
    BY <1>2, <2>1, RunnerIs DEF InTest, OfTest, main, ProcsInv
  <2>3. /\ x \in Io /\ x.procs # <<>> /\ Len(x.procs) = 3
        /\ x.procs[1] = io.procs[1]
        /\ x.procs[2].buf = <<>> /\ x.procs[2].out = Active(io).out
        /\ Active(x).buf = <<>> /\ Active(x).out = Active(io).out
        /\ x.output = (IF Active(io).out = "old" THEN Stream(io) ELSE io.output)
        /\ Stream(x) = x.output
    <3>1. 2 + 1 = 3 /\ 1 \in 1..2 - 1
      OBVIOUS
    <3>. QED BY <2>2, <3>1, ForkIs
  <2>. HIDE DEF x
  <2>4. PICK y : y = io'
    OBVIOUS
  <2>5. DOMAIN y.procs = 1..3 /\ Active(y) = y.procs[3] /\ DOMAIN io.procs = 1..2
    BY <2>1, <2>2, <2>3, <2>4, ActiveIs
  <2>6. io.procs[1].buf = <<>> /\ io.procs[1].out = "old"
    <3>1. 1 \in 1..2 /\ 1 # 2
      OBVIOUS
    <3>. QED BY <1>2, <2>2, <2>5, <3>1 DEF ProcsInv
  <2>7. \A i \in DOMAIN Active(y).buf : FALSE
    <3>1. DOMAIN Active(y).buf = {}
      BY <2>1, <2>3, <2>4
    <3>. QED BY <3>1
  <2>8. ProcsInv'
    <3>1. \A p \in 1..3 : p = 1 \/ p = 2 \/ p = 3
      OBVIOUS
    <3>2. \A p \in DOMAIN y.procs :
            /\ p # 3 => y.procs[p].buf = <<>>
            /\ y.procs[p].out = IF InTest' /\ ~opt.verbose /\ (p # 1 \/ ~opt.recover)
                                THEN "nul" ELSE "old"
      BY <1>2, <2>1, <2>2, <2>3, <2>4, <2>5, <2>6, <3>1
    <3>3. (/\ io \in Io
           /\ Len(io.procs) = IF pc = "aborted" THEN 0 ELSE IF pc = "try" THEN 3
                              ELSE IF pc = "test" /\ opt.recover THEN 2 ELSE 1)'
      BY <2>1, <2>2, <2>3
    <3>4. (\A p \in DOMAIN io.procs :
            /\ p # Len(io.procs) => io.procs[p].buf = <<>>
            /\ io.procs[p].out = IF InTest /\ ~opt.verbose /\ (p # 1 \/ ~opt.recover)
                                 THEN "nul" ELSE "old")'
      BY <2>1, <2>2, <2>3, <2>4, <3>2
    <3>5. (/\ InTest /\ ~opt.verbose =>
                \A i \in DOMAIN Active(io).buf : Active(io).buf[i].kind = "noise"
           /\ pc = "done" => Active(io).buf = <<>>)'
      <4>1. Active(y) = Active(io)'
        BY <2>4 DEF Active
      <4>. QED BY <2>2, <2>7, <4>1
    <3>. QED BY <3>3, <3>4, <3>5 DEF ProcsInv
  <2>9. PICK o \in Seq(LineRec) : o = io.output
    BY <2>2, CutIs
  <2>10. PICK g \in Seq(LineRec) : g = Stream(io)
    BY <2>2, CutIs
  <2>11. /\ Begins(o, g) /\ Begins(g, g) /\ Says(o, g) /\ Says(o, o)
         /\ Ordered => HeadAt(o, Len(o), Now) /\ HeadAt(g, Len(g), Now)
    BY <1>2, <2>1, <2>2, <2>9, <2>10, CutIs DEF StreamInv, Begins, Says
  <2>12. /\ Now' = Now /\ \A k \in LineRec : Known(k) => Known(k)'
    BY <2>1, SameTest DEF CInv, TypeInv, main
  <2>13. PICK t : t = Stream(y)
    OBVIOUS
  <2>14. t \in {o, g} /\ y.output = t
    BY <2>1, <2>3, <2>4, <2>9, <2>10, <2>13
  <2>15. Says(Kept(io), Kept(y))
    BY <2>1, <2>2, <2>3, <2>4, <2>9, <2>11, <2>14 DEF Kept
  <2>16. \A test \in Tests :
           truth'[test] = "bad" /\ ~(opt.recover /\ OfTest' /\ test = Now') => Told(test)'
    BY <2>1, <2>2, <2>4, <2>12, <2>15, ToldNext
  <2>17. Begins(t, g) /\ t \in Seq(LineRec) /\ (Ordered => HeadAt(t, Len(t), Now))
    BY <2>11, <2>14
  <2>. QED BY <2>2, <2>4, <2>7, <2>8, <2>10, <2>12, <2>13, <2>16, <2>17, StreamStep
<1>. QED BY <1>1, <1>2

(* waitpid() in HTRY_SIGNAL: the process that tried is gone with its       *)
(* buffer, and the test goes on with its own, which fork left empty.       *)
LEMMA TryEndsIo ==
    ASSUME IInv, CInv', NEW signal \in BOOLEAN, TryEnds(signal)
    PROVE  ProcsInv' /\ StreamInv'
<1>. USE DEF IInv
<1>1. PICK l : l = Report("fail", steps)
  OBVIOUS
<1>. DEFINE x == UnderscoreExit(io)
            z == FailBlock(x, steps)
<1>2. /\ InTest /\ pc = "try" /\ pc' = "test" /\ UNCHANGED <<main, status, steps>>
      /\ IF signal THEN io' = x /\ UNCHANGED <<passed, truth>>
         ELSE io' = z /\ truth' = [truth EXCEPT ![Now] = "bad"]
  BY DEF TryEnds, InTest
<1>3. steps \in Nat /\ truth \in [Tests -> {"unrun", "ok", "bad", "killed"}]
  BY DEF CInv, TypeInv
<1>4. l \in LineRec /\ l.kind = "fail" /\ l.test = Now /\ l.n = steps /\ IsVerdict(l)
  BY <1>1, <1>3, LinesAre DEF IsVerdict
<1>5. /\ io \in Io /\ io.procs # <<>> /\ pc # "aborted" /\ pc' # "aborted" /\ pc' # "done"
      /\ opt.recover /\ opt' = opt /\ InTest' /\ OfTest /\ OfTest' /\ Len(io.procs) = 3
  BY <1>2, RunnerIs DEF InTest, OfTest, main, ProcsInv, CInv, PlaceInv
<1>6. /\ io.procs[1].buf = <<>> /\ io.procs[1].out = "old"
      /\ io.procs[2].buf = <<>> /\ io.procs[2].out = IF opt.verbose THEN "old" ELSE "nul"
  <2>1. DOMAIN io.procs = 1..3 /\ 1 \in 1..3 /\ 2 \in 1..3
    BY <1>5, ActiveIs
  <2>. QED BY <1>2, <1>5, <2>1 DEF ProcsInv
<1>7. /\ x \in Io /\ Len(x.procs) = 2 /\ x.output = io.output
      /\ x.procs[1] = io.procs[1] /\ x.procs[2] = io.procs[2]
  <2>1. 3 - 1 = 2 /\ 1 \in 1..3 - 1 /\ 2 \in 1..3 - 1
    OBVIOUS
  <2>. QED BY <1>5, <2>1, ExitIs
<1>. HIDE DEF x
<1>8. /\ x.procs # <<>> /\ DOMAIN x.procs = 1..2 /\ Active(x) = x.procs[2]
      /\ Stream(x) = io.output
  <2>1. x.procs # <<>>
    <3>1. Len(<<>>) = 0
      OBVIOUS
    <3>. QED BY <1>7, <3>1
  <2>2. DOMAIN x.procs = 1..2 /\ Active(x) = x.procs[2]
    BY <1>7, <2>1, ActiveIs
  <2>. QED BY <1>6, <1>7, <2>1, <2>2, OutputBegins
<1>9. /\ Touches(x, z) /\ Stream(z) = Append(Stream(x), l)
      /\ Active(z).out = IF opt.verbose THEN "old" ELSE "nul"
      /\ \/ Active(z).buf = <<>> /\ z.output = Stream(z)
         \/ /\ opt.verbose /\ z.output = x.output
            /\ Active(z).buf = Append(Active(x).buf, l)
  BY <1>1, <1>4, <1>6, <1>7, <1>8, FailBlockIs
<1>. HIDE DEF z
<1>10. PICK y : y = io'
  OBVIOUS
<1>11. y = IF signal THEN x ELSE z
  BY <1>2, <1>10
<1>12. Touches(x, y)
  BY <1>7, <1>8, <1>9, <1>11 DEF Touches
<1>13. /\ y \in Io /\ Len(y.procs) = 2 /\ y.procs # <<>> /\ y.procs[1] = io.procs[1]
       /\ DOMAIN y.procs = 1..2 /\ Active(y) = y.procs[2]
       /\ Active(y).out = IF opt.verbose THEN "old" ELSE "nul"
  <2>1. /\ y \in Io /\ Len(y.procs) = 2 /\ y.procs # <<>> /\ y.procs[1] = io.procs[1]
    BY <1>7, <1>8, <1>12 DEF Touches
  <2>2. DOMAIN y.procs = 1..2 /\ Active(y) = y.procs[2]
    BY <2>1, ActiveIs
  <2>. QED BY <1>6, <1>7, <1>8, <1>9, <1>11, <2>1, <2>2
<1>14. PICK b : b = Active(y).buf
  OBVIOUS
<1>15. b = <<>> \/ (opt.verbose /\ b = <<l>>)
  <2>1. Append(<<>>, l) = <<l>>
    OBVIOUS
  <2>. QED BY <1>6, <1>7, <1>8, <1>9, <1>11, <1>14, <2>1
<1>16. /\ ~opt.verbose => \A i \in DOMAIN b : b[i].kind = "noise"
       /\ \A i \in DOMAIN b : b[i].kind # "test"
  <2>1. \A i \in DOMAIN <<>> : FALSE
    OBVIOUS
  <2>2. \A i \in DOMAIN <<l>> : <<l>>[i] = l
    OBVIOUS
  <2>. QED BY <1>4, <1>15, <2>1, <2>2
<1>17. ProcsInv'
  <2>1. \A p \in 1..2 : p = 1 \/ p = 2
    OBVIOUS
  <2>2. (/\ io \in Io
         /\ Len(io.procs) = IF pc = "aborted" THEN 0 ELSE IF pc = "try" THEN 3
                            ELSE IF pc = "test" /\ opt.recover THEN 2 ELSE 1)'
    BY <1>2, <1>5, <1>10, <1>13
  <2>3. \A p \in DOMAIN y.procs :
          /\ p # 2 => y.procs[p].buf = <<>>
          /\ y.procs[p].out = IF InTest' /\ ~opt.verbose /\ (p # 1 \/ ~opt.recover)
                              THEN "nul" ELSE "old"
    BY <1>5, <1>6, <1>13, <2>1
  <2>4. (\A p \in DOMAIN io.procs :
          /\ p # Len(io.procs) => io.procs[p].buf = <<>>
          /\ io.procs[p].out = IF InTest /\ ~opt.verbose /\ (p # 1 \/ ~opt.recover)
                               THEN "nul" ELSE "old")'
    BY <1>5, <1>10, <1>13, <2>3
  <2>5. (/\ InTest /\ ~opt.verbose =>
              \A i \in DOMAIN Active(io).buf : Active(io).buf[i].kind = "noise"
         /\ pc = "done" => Active(io).buf = <<>>)'
    <3>1. Active(y) = Active(io)'
      BY <1>10 DEF Active
    <3>. QED BY <1>5, <1>14, <1>16, <3>1
  <2>. QED BY <2>2, <2>4, <2>5 DEF ProcsInv
<1>18. PICK o \in Seq(LineRec) : o = io.output
  BY <1>5, CutIs
<1>19. PICK g \in Seq(LineRec) : g = Stream(io)
  BY <1>5, CutIs
<1>20. Begins(o, g) /\ (Ordered => HeadAt(o, Len(o), Now))
  BY <1>2, <1>5, <1>18, <1>19, CutIs
<1>21. /\ Now' = Now /\ \A k \in LineRec : Known(k) => Known(k)'
       /\ \A test \in Tests : test # Now => truth'[test] = truth[test]
       /\ Now \in Tests
  BY <1>2, <1>3, SameTest DEF main
<1>22. PICK t : t = Stream(y)
  OBVIOUS
<1>23. PICK u : u = y.output
  OBVIOUS
<1>24. IF signal THEN t = o /\ u = o ELSE t = Append(o, l) /\ u \in {o, t}
  BY <1>7, <1>8, <1>9, <1>11, <1>18, <1>22, <1>23
<1>25. Says(o, u)
  BY <1>4, <1>20, <1>24, SaysGrows DEF Begins
<1>26. Says(Kept(io), Kept(y))
  BY <1>5, <1>13, <1>18, <1>23, <1>25 DEF Kept
<1>27. \A test \in Tests :
         truth'[test] = "bad" /\ ~(opt.recover /\ OfTest' /\ test = Now') => Told(test)'
  BY <1>5, <1>10, <1>21, <1>26, ToldNext
<1>28. ~signal => Known(l)' /\ ~Known(l)
  <2>1. ~(steps < steps) /\ steps <= steps'
    BY <1>2, <1>3
  <2>2. ~Known(l)
    BY <1>2, <1>4, <2>1 DEF Known
  <2>3. ~signal => Known(l)'
    BY <1>2, <1>3, <1>4, <1>21, <2>1 DEF Known, IsVerdict
  <2>. QED BY <2>2, <2>3
<1>29. CASE signal
  BY <1>5, <1>10, <1>14, <1>16, <1>17, <1>19, <1>20, <1>21, <1>22, <1>24, <1>27, <1>29,
     StreamStep
<1>30. CASE ~signal
  BY <1>4, <1>5, <1>10, <1>14, <1>16, <1>17, <1>19, <1>20, <1>21, <1>22, <1>24, <1>27,
     <1>28, <1>30, StreamStep
<1>. QED BY <1>17, <1>29, <1>30

(* With recovery the runner goes on with its own empty buffer, whatever    *)
(* the process of the test x has left in its own.                          *)
LEMMA ChildEndsIo ==
    ASSUME IInv, CInv', pc = "test", opt.recover, pc' = "reap", UNCHANGED <<main, passed, steps>>,
           NEW x, Touches(io, x), io' = UnderscoreExit(x),
           \/ /\ x.output = io.output
              /\ \/ truth' = truth
                 \/ \E v \in {"bad", "killed"} : truth' = [truth EXCEPT ![Now] = v]
           \/ /\ x.output = Append(Stream(io), Line("signal", Now))
              /\ truth' = [truth EXCEPT ![Now] = "bad"]
    PROVE  ProcsInv' /\ StreamInv'
<1>. USE DEF IInv
<1>1. PICK l : l = Line("signal", Now)
  OBVIOUS
<1>2. steps \in Nat /\ truth \in [Tests -> {"unrun", "ok", "bad", "killed"}]
  BY DEF CInv, TypeInv
<1>3. l \in LineRec /\ l.kind = "signal" /\ l.test = Now /\ IsVerdict(l)
  BY <1>1, LinesAre DEF IsVerdict
<1>4. /\ io \in Io /\ io.procs # <<>> /\ pc # "aborted" /\ pc' # "aborted" /\ pc' # "done"
      /\ opt' = opt /\ InTest /\ ~InTest' /\ OfTest /\ OfTest' /\ Len(io.procs) = 2
  BY RunnerIs DEF InTest, OfTest, main, ProcsInv
<1>5. io.procs[1].buf = <<>> /\ io.procs[1].out = "old"
  <2>1. DOMAIN io.procs = 1..2 /\ 1 \in 1..2
    BY <1>4, ActiveIs
  <2>. QED BY <1>4, <2>1 DEF ProcsInv
<1>6. /\ x \in Io /\ x.procs # <<>> /\ Len(x.procs) = 2 /\ x.procs[1] = io.procs[1]
  <2>1. 1 \in DOMAIN io.procs
    BY <1>4, ActiveIs
  <2>. QED BY <1>4, <2>1 DEF Touches
<1>7. PICK y : y = io'
  OBVIOUS
<1>8. y \in Io /\ Len(y.procs) = 1 /\ y.output = x.output /\ y.procs[1] = io.procs[1]
  <2>1. 2 - 1 = 1 /\ 1 \in 1..2 - 1
    OBVIOUS
  <2>. QED BY <1>6, <1>7, <2>1, ExitIs
<1>9. y.procs # <<>> /\ DOMAIN y.procs = 1..1 /\ Active(y) = y.procs[1]
  <2>1. y.procs # <<>>
    <3>1. Len(<<>>) = 0
      OBVIOUS
    <3>. QED BY <1>8, <3>1
  <2>. QED BY <1>8, <2>1, ActiveIs
<1>10. Active(y).buf = <<>> /\ Stream(y) = y.output
  BY <1>5, <1>8, <1>9, OutputBegins
<1>11. ProcsInv'
  <2>1. \A p \in 1..1 : p = 1
    OBVIOUS
  <2>2. (/\ io \in Io
         /\ Len(io.procs) = IF pc = "aborted" THEN 0 ELSE IF pc = "try" THEN 3
                            ELSE IF pc = "test" /\ opt.recover THEN 2 ELSE 1)'
    BY <1>7, <1>8
  <2>3. (\A p \in DOMAIN io.procs :
          /\ p # Len(io.procs) => io.procs[p].buf = <<>>
          /\ io.procs[p].out = IF InTest /\ ~opt.verbose /\ (p # 1 \/ ~opt.recover)
                               THEN "nul" ELSE "old")'
    BY <1>4, <1>5, <1>7, <1>8, <1>9, <2>1
  <2>. QED BY <1>4, <2>2, <2>3 DEF ProcsInv
<1>12. PICK o \in Seq(LineRec) : o = io.output
  BY <1>4, CutIs
<1>13. PICK g \in Seq(LineRec) : g = Stream(io)
  BY <1>4, CutIs
<1>14. /\ Begins(o, g)
       /\ Ordered => HeadAt(o, Len(o), Now) /\ HeadAt(g, Len(g), Now)
  BY <1>4, <1>12, <1>13, CutIs DEF StreamInv
<1>15. /\ Now' = Now /\ \A k \in LineRec : Known(k) => Known(k)'
       /\ \A test \in Tests : test # Now => truth'[test] = truth[test]
       /\ Now \in Tests
  BY <1>2, <1>4, SameTest DEF main
<1>16. PICK t : t = Stream(y)
  OBVIOUS
<1>17. /\ y.output = t
       /\ t = o \/ (t = Append(g, l) /\ truth' = [truth EXCEPT ![Now] = "bad"])
  BY <1>1, <1>8, <1>10, <1>12, <1>13, <1>16
<1>18. Says(o, t)
  <2>1. Says(o, o) /\ Says(o, Append(g, l))
    BY <1>3, <1>14, SaysGrows
  <2>. QED BY <1>17, <2>1
<1>19. Says(Kept(io), Kept(y))
  BY <1>4, <1>8, <1>12, <1>16, <1>17, <1>18 DEF Kept
<1>20. \A test \in Tests :
         truth'[test] = "bad" /\ ~(opt.recover /\ OfTest' /\ test = Now') => Told(test)'
  BY <1>4, <1>7, <1>15, <1>19, ToldNext
<1>21. PICK b : b = Active(y).buf
  OBVIOUS
<1>22. CASE t = o
  BY <1>4, <1>7, <1>11, <1>13, <1>14, <1>15, <1>16, <1>20, <1>21, <1>22, StreamStep
<1>23. CASE t = Append(g, l) /\ truth' = [truth EXCEPT ![Now] = "bad"]
  <2>1. ~Known(l)
    BY <1>3, <1>4 DEF Known
  <2>2. Known(l)'
    BY <1>2, <1>3, <1>4, <1>15, <1>23 DEF Known, IsVerdict
  <2>3. Begins(g, g)
    BY DEF Begins
  <2>4. \E k \in LineRec :
          /\ t = Append(g, k) /\ Known(k)' /\ (k.kind = "noise" \/ ~Known(k))
          /\ Ordered /\ IsVerdict(k) => HeadAt(g, Len(g), k.test)
          /\ Ordered /\ OfTest' => IF k.kind = "test" THEN k.test = Now'
                                   ELSE HeadAt(g, Len(g), Now')
    BY <1>3, <1>14, <1>15, <1>23, <2>1, <2>2
  <2>5. ProcsInv' /\ CInv' /\ StreamInv /\ UNCHANGED opt /\ Begins(g, Stream(io))
    BY <1>4, <1>11, <1>13, <2>3
  <2>6. \A k \in LineRec : Known(k) => Known(k)'
    BY <1>15
  <2>7. Stream(io) \in Seq(LineRec) /\ ~InTest'
    BY <1>4, <1>13
  <2>8. g \in Seq(LineRec)
    OBVIOUS
  <2>. QED BY ONLY <1>4, <1>7, <1>16, <1>20, <1>21, <2>4, <2>5, <2>6, <2>7, <2>8, StreamStep
<1>. QED BY <1>11, <1>17, <1>22, <1>23

(* Without recovery the run is over; what is left is what was written.     *)
LEMMA AbortedIo ==
    ASSUME pc' = "aborted", UNCHANGED opt, NEW x \in Io, Len(x.procs) = 1,
           io' = UnderscoreExit(x), Unique(x.output), Ordered => InPlace(x.output)
    PROVE  ProcsInv' /\ StreamInv'
<1>1. PICK y : y = io'
  OBVIOUS
<1>2. x.procs # <<>>
  <2>1. Len(<<>>) = 0
    OBVIOUS
  <2>. QED BY <2>1
<1>3. y \in Io /\ Len(y.procs) = 0 /\ y.output = x.output
  <2>1. 1 - 1 = 0
    OBVIOUS
  <2>. QED BY <1>1, <1>2, <2>1, ExitIs
<1>4. \A p \in DOMAIN y.procs : FALSE
  <2>1. y.procs \in Seq(Proc) /\ \A p \in 1..0 : FALSE
    BY <1>3 DEF Io
  <2>. QED BY <1>3, <2>1, LenProperties
<1>5. ProcsInv'
  BY <1>1, <1>3, <1>4 DEF ProcsInv, InTest
<1>6. StreamInv'
  BY <1>1, <1>3 DEF StreamInv, Ordered
<1>. QED BY <1>5, <1>6

LEMMA TestReturnsIo ==
    ASSUME IInv, CInv', TestReturns
    PROVE  ProcsInv' /\ StreamInv'
<1>. USE DEF IInv
<1>. DEFINE x == OutputRestore(io)
<1>1. /\ InTest /\ pc = "test" /\ UNCHANGED <<opt, suite, index, test_num, passed, steps, truth>>
      /\ IF opt.recover THEN pc' = "reap" /\ io' = UnderscoreExit(x) /\ UNCHANGED test_pass_num
         ELSE pc' = "tests" /\ io' = x
  BY DEF TestReturns, ChildEnds, InTest
<1>2. /\ io \in Io /\ io.procs # <<>> /\ pc # "aborted" /\ pc' # "aborted" /\ pc' # "done"
      /\ opt' = opt /\ ~InTest' /\ OfTest /\ (opt.recover <=> Len(io.procs) # 1)
      /\ opt.verbose => Active(io).out = "old"
  BY <1>1, RunnerIs DEF InTest, OfTest
<1>3. /\ Touches(io, x) /\ Active(x).out = "old" /\ Active(x).buf = Active(io).buf
      /\ x.output = io.output /\ Stream(x) = Stream(io)
  BY <1>2, OutputRestoreIs
<1>. HIDE DEF x
<1>4. CASE opt.recover
  <2>1. UNCHANGED <<main, passed, steps>> /\ truth' = truth
    BY <1>1, <1>4 DEF main
  <2>. QED BY <1>1, <1>3, <1>4, <2>1, ChildEndsIo
<1>5. CASE ~opt.recover
  <2>1. PICK y : y = io'
    OBVIOUS
  <2>2. y = x /\ pc' = "tests" /\ ~OfTest'
    BY <1>1, <1>5, <2>1 DEF OfTest
  <2>3. ProcsInv'
    BY <1>1, <1>2, <1>3, <1>5, <2>1, <2>2, ProcsTouched
  <2>4. PICK g \in Seq(LineRec) : g = Stream(io)
    BY <1>2, CutIs
  <2>5. \A k \in LineRec : Known(k) => Known(k)'
    BY <1>1, <2>2, SameTest DEF CInv, TypeInv
  <2>6. Kept(y) = Kept(io)
    BY <1>2, <1>3, <1>5, <2>2 DEF Kept, Touches
  <2>7. Says(Kept(io), Kept(y))
    BY <2>6 DEF Says
  <2>8. \A test \in Tests :
          truth'[test] = "bad" /\ ~(opt.recover /\ OfTest' /\ test = Now') => Told(test)'
    BY <1>1, <1>2, <1>5, <2>1, <2>7, ToldNext
  <2>9. Begins(g, g) /\ Stream(y) = g
    BY <1>3, <2>2, <2>4 DEF Begins
  <2>. QED BY <1>2, <2>1, <2>2, <2>3, <2>4, <2>5, <2>8, <2>9, StreamStep
<1>. QED BY <1>4, <1>5

LEMMA CaughtSignalIo ==
    ASSUME IInv, CInv', CaughtSignal
    PROVE  ProcsInv' /\ StreamInv'
<1>. USE DEF IInv
<1>1. PICK l : l = Line("signal", Now)
  OBVIOUS
<1>. DEFINE x == Sighandler(io, Now)
<1>2. /\ InTest /\ pc = "test" /\ UNCHANGED <<main, passed, steps>>
      /\ truth' = [truth EXCEPT ![Now] = "bad"] /\ io' = UnderscoreExit(x)
      /\ pc' = IF opt.recover THEN "reap" ELSE "aborted"
  BY DEF CaughtSignal, ChildEnds, InTest
<1>3. l \in LineRec /\ l.kind = "signal" /\ l.test = Now /\ Now \in Nat \X Nat
  BY <1>1, LinesAre
<1>4. /\ io \in Io /\ io.procs # <<>> /\ pc # "aborted" /\ opt' = opt /\ OfTest
      /\ (opt.recover <=> Len(io.procs) # 1) /\ (opt.verbose => Active(io).out = "old")
  BY <1>2, RunnerIs DEF InTest, OfTest, main
<1>5. /\ Touches(io, x) /\ Stream(x) = Append(Stream(io), l)
      /\ IF opt.line THEN x.output = Stream(x) ELSE x.output = io.output
  BY <1>1, <1>3, <1>4, SighandlerIs
<1>. HIDE DEF x
<1>6. CASE opt.recover
  <2>1. \/ /\ x.output = io.output
           /\ \E v \in {"bad", "killed"} : truth' = [truth EXCEPT ![Now] = v]
        \/ /\ x.output = Append(Stream(io), Line("signal", Now))
           /\ truth' = [truth EXCEPT ![Now] = "bad"]
    BY <1>1, <1>2, <1>5
  <2>. QED BY <1>2, <1>5, <1>6, <2>1, ChildEndsIo
<1>7. CASE ~opt.recover
  <2>1. PICK o \in Seq(LineRec) : o = io.output
    BY <1>4, CutIs
  <2>2. PICK g \in Seq(LineRec) : g = Stream(io)
    BY <1>4, CutIs
  <2>3. /\ Unique(o) /\ (Ordered => InPlace(o)) /\ Unique(g) /\ (Ordered => InPlace(g))
        /\ \A i \in DOMAIN g : Known(g[i])
        /\ Ordered => HeadAt(g, Len(g), Now)
    BY <1>4, <2>1, <2>2 DEF StreamInv
  <2>4. ~Known(l)
    BY <1>2, <1>3 DEF Known
  <2>5. \A i \in DOMAIN g : g[i] # l
    BY <2>3, <2>4
  <2>6. Unique(Append(g, l)) /\ (Ordered => InPlace(Append(g, l)))
    BY <1>3, <2>3, <2>5, AppendKeeps
  <2>7. Unique(x.output) /\ (Ordered => InPlace(x.output))
    BY <1>5, <2>1, <2>2, <2>3, <2>6
  <2>8. x \in Io /\ Len(x.procs) = 1
    BY <1>4, <1>5, <1>7 DEF Touches
  <2>. QED BY <1>2, <1>4, <1>7, <2>7, <2>8, AbortedIo
<1>. QED BY <1>6, <1>7

LEMMA KilledBySignalIo ==
    ASSUME IInv, CInv', KilledBySignal
    PROVE  ProcsInv' /\ StreamInv'
<1>. USE DEF IInv
<1>1. /\ InTest /\ pc = "test" /\ UNCHANGED <<main, passed, steps>>
      /\ truth' = [truth EXCEPT ![Now] = "killed"] /\ io' = UnderscoreExit(io)
      /\ pc' = IF opt.recover THEN "reap" ELSE "aborted"
  BY DEF KilledBySignal, ChildEnds, InTest
<1>2. /\ io \in Io /\ io.procs # <<>> /\ pc # "aborted" /\ opt' = opt
      /\ (opt.recover <=> Len(io.procs) # 1) /\ Touches(io, io)
  BY <1>1, RunnerIs DEF InTest, main, Touches
<1>3. CASE opt.recover
  <2>1. \E v \in {"bad", "killed"} : truth' = [truth EXCEPT ![Now] = v]
    BY <1>1
  <2>. QED BY <1>1, <1>2, <1>3, <2>1, ChildEndsIo
<1>4. CASE ~opt.recover
  <2>1. Unique(io.output) /\ (Ordered => InPlace(io.output))
    BY DEF StreamInv
  <2>. QED BY <1>1, <1>2, <1>4, <2>1, AbortedIo
<1>. QED BY <1>3, <1>4

(* The runner between the tests.                                           *)
LEMMA RunnerPrints ==
    ASSUME IInv, CInv', pc \in {"suite", "tests", "reap"}, pc' \in {"suite", "tests", "done"},
           UNCHANGED <<opt, truth>>, suite <= suite',
           NEW y, y = io', Touches(io, y), Active(y).out = "old",
           pc' = "done" => Active(y).buf = <<>>,
           \/ Stream(y) = Stream(io)
           \/ \E l \in LineRec :
                /\ Stream(y) = Append(Stream(io), l) /\ Known(l)' /\ ~Known(l)
                /\ Ordered /\ IsVerdict(l) => HeadAt(Stream(io), Len(Stream(io)), l.test),
           pc = "reap" /\ truth[Now] = "bad" =>
             \E j \in DOMAIN Stream(y) : Stream(y)[j].test = Now /\ IsVerdict(Stream(y)[j])
    PROVE  ProcsInv' /\ StreamInv'
<1>. USE DEF IInv
<1>1. /\ io \in Io /\ io.procs # <<>> /\ pc # "aborted" /\ pc' # "aborted" /\ opt' = opt
      /\ ~InTest /\ ~InTest' /\ ~OfTest' /\ Len(io.procs) = 1 /\ (OfTest <=> pc = "reap")
  BY RunnerIs DEF InTest, OfTest
<1>2. ProcsInv'
  BY <1>1, ProcsTouched DEF InTest
<1>3. PICK g \in Seq(LineRec) : g = Stream(io)
  BY <1>1, CutIs
<1>4. PICK t : t = Stream(y)
  OBVIOUS
<1>5. \/ t = g
      \/ \E l \in LineRec :
           /\ t = Append(g, l) /\ Known(l)' /\ (l.kind = "noise" \/ ~Known(l))
           /\ Ordered /\ IsVerdict(l) => HeadAt(g, Len(g), l.test)
           /\ Ordered /\ OfTest' => IF l.kind = "test" THEN l.test = Now'
                                    ELSE HeadAt(g, Len(g), Now')
  BY <1>1, <1>3, <1>4
<1>6. \A k \in LineRec : Known(k) => Known(k)'
  <2>1. /\ pc # "done" /\ suite <= suite' /\ ~OfTest'
        /\ \A test \in Tests :
             /\ truth[test] # "unrun" => truth'[test] # "unrun"
             /\ truth[test] \in {"bad", "killed"} => truth'[test] \in {"bad", "killed"}
    BY <1>1
  <2>. QED BY <2>1, KnownStays
<1>7. Says(g, t)
  <2>1. Begins(g, g) /\ Says(g, g)
    BY DEF Says, Begins
  <2>2. \A l \in LineRec : Says(g, Append(g, l))
    BY <2>1, SaysGrows
  <2>. QED BY <1>5, <2>1, <2>2
<1>8. Kept(io) = g /\ Kept(y) = t
  BY <1>1, <1>3, <1>4 DEF Kept, Touches
<1>9. \A test \in Tests :
        truth'[test] = "bad" /\ ~(opt.recover /\ OfTest' /\ test = Now')
          => \/ truth[test] = "bad" /\ ~(opt.recover /\ OfTest /\ test = Now)
             \/ \E j \in DOMAIN t : t[j].test = test /\ IsVerdict(t[j])
  BY <1>1, <1>4
<1>10. \A test \in Tests :
         truth'[test] = "bad" /\ ~(opt.recover /\ OfTest' /\ test = Now') => Told(test)'
  <2>1. Says(Kept(io), Kept(y))
    BY <1>7, <1>8
  <2>2. StreamInv /\ pc # "aborted"
    BY <1>1
  <2>3. \A test \in Tests :
          truth'[test] = "bad" /\ ~(opt.recover /\ OfTest' /\ test = Now')
            => \/ truth[test] = "bad" /\ ~(opt.recover /\ OfTest /\ test = Now)
               \/ \E j \in DOMAIN Kept(y) : Kept(y)[j].test = test /\ IsVerdict(Kept(y)[j])
    BY <1>8, <1>9
  <2>4. y = io'
    OBVIOUS
  <2>. QED BY ONLY <2>1, <2>2, <2>3, <2>4, ToldNext
<1>11. PICK b : b = Active(y).buf
  OBVIOUS
<1>12. g \in Seq(LineRec) /\ Begins(g, g) /\ y = io'
  BY DEF Begins
<1>13. CInv' /\ StreamInv
  OBVIOUS
<1>. QED BY ONLY <1>1, <1>2, <1>3, <1>4, <1>5, <1>6, <1>10, <1>11, <1>12, <1>13, StreamStep

LEMMA EndSuiteIo ==
    ASSUME IInv, CInv', EndSuite
    PROVE  ProcsInv' /\ StreamInv'
<1>1. pc = "tests" /\ pc' = "suite" /\ UNCHANGED <<main, io, truth>>
  BY DEF EndSuite
<1>2. /\ io \in Io /\ io.procs # <<>> /\ Active(io).out = "old" /\ Touches(io, io)
  BY <1>1, RunnerIs DEF IInv, InTest, Touches
<1>3. PICK y : y = io'
  OBVIOUS
<1>4. Touches(io, y) /\ Active(y).out = "old" /\ Stream(y) = Stream(io)
  BY <1>1, <1>2, <1>3
<1>5. suite <= suite' /\ opt' = opt
  BY <1>1, SizesAre DEF main, IInv, CInv, TypeInv
<1>. QED BY <1>1, <1>3, <1>4, <1>5, RunnerPrints

LEMMA ReapIo ==
    ASSUME IInv, CInv', Reap
    PROVE  ProcsInv' /\ StreamInv'
<1>. USE DEF IInv
<1>1. PICK l : l = Line("exited", Now)
  OBVIOUS
<1>. DEFINE x == Printf(io, l)
<1>2. /\ pc = "reap" /\ pc' = "tests" /\ UNCHANGED <<opt, suite, index, truth>>
      /\ io' = IF status = "failure" THEN x ELSE io
  BY <1>1 DEF Reap, Wexitstatus
<1>3. /\ io \in Io /\ io.procs # <<>> /\ Active(io).out = "old" /\ Touches(io, io)
      /\ OfTest /\ ~OfTest' /\ Now' = Now
  BY <1>2, RunnerIs DEF InTest, OfTest, Now, Touches
<1>4. l \in LineRec /\ l.kind = "exited" /\ l.test = Now /\ IsVerdict(l)
  BY <1>1, LinesAre DEF IsVerdict
<1>5. Touches(io, x) /\ Active(x).out = "old" /\ Stream(x) = Append(Stream(io), l)
  BY <1>3, <1>4, PrintfIs
<1>. HIDE DEF x
<1>6. PICK y : y = io'
  OBVIOUS
<1>7. status = "failure" <=> truth[Now] = "bad"
  BY <1>2 DEF CInv, TruthInv
<1>8. suite <= suite' /\ Now \in Tests
  BY <1>2, <1>3, SizesAre, PresentTest DEF CInv, TypeInv
<1>9. ~Known(l) /\ (truth[Now] = "bad" => Known(l)')
  <2>1. ~Known(l)
    BY <1>3, <1>4 DEF Known
  <2>2. truth[Now] = "bad" => Known(l)'
    BY <1>2, <1>3, <1>4, <1>8 DEF Known, IsVerdict
  <2>. QED BY <2>1, <2>2
<1>10. Ordered => HeadAt(Stream(io), Len(Stream(io)), Now)
  BY <1>2, <1>3 DEF StreamInv
<1>11. Touches(io, y) /\ Active(y).out = "old"
  BY <1>2, <1>3, <1>5, <1>6
<1>12. \/ Stream(y) = Stream(io)
       \/ \E k \in LineRec :
            /\ Stream(y) = Append(Stream(io), k) /\ Known(k)' /\ ~Known(k)
            /\ Ordered /\ IsVerdict(k) => HeadAt(Stream(io), Len(Stream(io)), k.test)
  BY <1>2, <1>4, <1>5, <1>6, <1>7, <1>9, <1>10
<1>13. truth[Now] = "bad" =>
         \E j \in DOMAIN Stream(y) : Stream(y)[j].test = Now /\ IsVerdict(Stream(y)[j])
  <2>1. PICK g \in Seq(LineRec) : g = Stream(io)
    BY <1>3, ActiveIs
  <2>2. PICK t : t = Append(g, l)
    OBVIOUS
  <2>3. \E j \in DOMAIN t : t[j] = l
    <3>1. Len(g) + 1 \in 1..Len(g) + 1
      BY LenProperties
    <3>. QED BY <1>4, <2>2, <3>1, AppendKeeps
  <2>4. truth[Now] = "bad" => Stream(y) = t
    BY <1>2, <1>5, <1>6, <1>7, <2>1, <2>2
  <2>. QED BY <1>4, <2>3, <2>4
<1>. QED BY <1>2, <1>6, <1>8, <1>11, <1>12, <1>13, RunnerPrints

LEMMA SummaryIo ==
    ASSUME IInv, CInv', Summary
    PROVE  ProcsInv' /\ StreamInv'
<1>. USE DEF IInv
<1>1. PICK l : l = Line("summary", <<0, 0>>)
  OBVIOUS
<1>. DEFINE x == Printf(io, l)
            z == Fflush(x)
<1>2. pc = "suite" /\ pc' = "done" /\ UNCHANGED <<main, truth>> /\ io' = z
  BY <1>1 DEF Summary
<1>3. /\ io \in Io /\ io.procs # <<>> /\ Active(io).out = "old"
      /\ suite <= suite' /\ opt' = opt
  BY <1>2, RunnerIs, SizesAre DEF InTest, main, CInv, TypeInv
<1>4. l \in LineRec /\ l.kind = "summary"
  <2>1. <<0, 0>> \in Nat \X Nat
    OBVIOUS
  <2>. QED BY <1>1, <2>1, LinesAre
<1>5. Touches(io, x) /\ Active(x).out = "old" /\ Stream(x) = Append(Stream(io), l)
  BY <1>3, <1>4, PrintfIs
<1>. HIDE DEF x
<1>6. /\ Touches(x, z) /\ Active(z).out = "old" /\ Active(z).buf = <<>>
      /\ Stream(z) = Stream(x)
  BY <1>5, FflushIs DEF Touches
<1>. HIDE DEF z
<1>7. PICK y : y = io'
  OBVIOUS
<1>8. Touches(io, z)
  BY <1>3, <1>5, <1>6, TouchesTwice
<1>9. ~Known(l) /\ Known(l)' /\ ~IsVerdict(l)
  BY <1>2, <1>4 DEF Known, IsVerdict
<1>10. /\ Touches(io, y) /\ Active(y).out = "old" /\ Active(y).buf = <<>>
       /\ Stream(y) = Append(Stream(io), l)
  BY <1>2, <1>5, <1>6, <1>7, <1>8
<1>. QED BY <1>2, <1>3, <1>4, <1>7, <1>9, <1>10, RunnerPrints

LEMMA NextSuiteIo ==
    ASSUME IInv, CInv', NextSuite
    PROVE  ProcsInv' /\ StreamInv'
<1>. USE DEF IInv
<1>1. PICK l : l = Line("suite", <<suite + 1, 0>>)
  OBVIOUS
<1>. DEFINE x == Printf(io, l)
            z == Sighandler(x, <<suite + 1, 0>>)
<1>2. /\ pc = "suite" /\ suite' = suite + 1 /\ UNCHANGED <<opt, truth>>
      /\ \/ io' = x /\ pc' \in {"suite", "tests"}
         \/ io' = UnderscoreExit(z) /\ pc' = "aborted"
  BY <1>1 DEF NextSuite
<1>3. suite \in Nat
  BY SizesAre DEF CInv, TypeInv
<1>4. /\ io \in Io /\ io.procs # <<>> /\ Active(io).out = "old" /\ Len(io.procs) = 1
  BY <1>2, RunnerIs DEF InTest
<1>5. /\ l \in LineRec /\ l.kind = "suite" /\ l.test = <<suite + 1, 0>>
      /\ <<suite + 1, 0>> \in Nat \X Nat
  <2>1. <<suite + 1, 0>> \in Nat \X Nat
    BY <1>3
  <2>. QED BY <1>1, <2>1, LinesAre
<1>6. Touches(io, x) /\ Active(x).out = "old" /\ Stream(x) = Append(Stream(io), l)
  BY <1>4, <1>5, PrintfIs
<1>7. opt.line => x.output = Stream(x)
  BY <1>4, <1>5, PrintfIs
<1>8. ~opt.line => x.output = io.output
  BY <1>4, <1>5, PrintfIs
<1>. HIDE DEF x
<1>9. ~Known(l) /\ Known(l)' /\ ~IsVerdict(l)
  <2>1. ~(suite + 1 <= suite) /\ suite + 1 <= suite'
    BY <1>2, <1>3
  <2>2. l.test[1] = suite + 1 /\ l.test[2] = 0
    BY <1>5
  <2>. QED BY <1>2, <1>5, <2>1, <2>2 DEF Known, IsVerdict
<1>10. CASE io' = x /\ pc' \in {"suite", "tests"}
  <2>1. PICK y : y = io'
    OBVIOUS
  <2>2. /\ Touches(io, y) /\ Active(y).out = "old" /\ Stream(y) = Append(Stream(io), l)
        /\ suite <= suite'
    BY <1>2, <1>3, <1>6, <1>10, <2>1
  <2>. QED BY <1>2, <1>5, <1>9, <1>10, <2>1, <2>2, RunnerPrints
<1>11. CASE io' = UnderscoreExit(z) /\ pc' = "aborted"
  <2>1. PICK k : k = Line("signal", <<suite + 1, 0>>)
    OBVIOUS
  <2>2. /\ k \in LineRec /\ k.kind = "signal" /\ k.test = <<suite + 1, 0>>
    BY <1>5, <2>1, LinesAre
  <2>3. /\ Touches(x, z) /\ Stream(z) = Append(Stream(x), k)
        /\ IF opt.line THEN z.output = Stream(z) ELSE z.output = x.output
    BY <1>6, <2>1, <2>2, SighandlerIs DEF Touches
  <2>. HIDE DEF z
  <2>4. <<suite + 1, 0>> \notin Tests
    <3>1. ASSUME <<suite + 1, 0>> \in Tests PROVE FALSE
      <4>1. 0 \in 1..Sizes[suite + 1] /\ suite + 1 \in 1..Len(Sizes)
        BY <3>1, TestsAre
      <4>2. Sizes[suite + 1] \in Nat
        BY <4>1, SizesAre
      <4>. QED BY <4>1, <4>2
    <3>. QED BY <3>1
  <2>5. PICK g \in Seq(LineRec) : g = Stream(io)
    BY <1>4, ActiveIs
  <2>6. PICK h \in Seq(LineRec) : h = Append(g, l)
    BY <1>5, AppendKeeps
  <2>7. /\ Unique(g) /\ (Ordered => InPlace(g)) /\ \A i \in DOMAIN g : Known(g[i])
        /\ Unique(io.output) /\ (Ordered => InPlace(io.output))
    BY <1>2, <2>5 DEF StreamInv
  <2>8. ~Known(k)
    BY <2>2, <2>4 DEF Known
  <2>9. \A i \in DOMAIN g : g[i] # l /\ g[i] # k
    BY <1>9, <2>7, <2>8
  <2>10. Unique(h) /\ (Ordered => InPlace(h))
    BY <1>5, <1>9, <2>6, <2>7, <2>9, AppendKeeps
  <2>11. \A i \in DOMAIN h : h[i] # k
    <3>1. \A i \in DOMAIN h : h[i] = l \/ (i \in DOMAIN g /\ h[i] = g[i])
      BY <1>5, <2>6, AppendKeeps
    <3>. QED BY <1>5, <2>2, <2>9, <3>1
  <2>12. Unique(Append(h, k)) /\ (Ordered => InPlace(Append(h, k)))
    <3>1. Unique(Append(h, k))
      BY <2>2, <2>10, <2>11, AppendKeeps
    <3>2. k.test \notin Tests
      BY <2>2, <2>4
    <3>3. Ordered => InPlace(Append(h, k))
      BY <2>2, <2>10, <3>2, AppendKeeps
    <3>. QED BY <3>1, <3>3
  <2>13. z.output = IF opt.line THEN Append(h, k) ELSE io.output
    BY <1>6, <1>8, <2>3, <2>5, <2>6
  <2>14. Unique(z.output) /\ (Ordered => InPlace(z.output))
    BY <2>7, <2>12, <2>13
  <2>15. z \in Io /\ Len(z.procs) = 1
    BY <1>4, <1>6, <2>3 DEF Touches
  <2>. QED BY <1>2, <1>11, <2>14, <2>15, AbortedIo
<1>. QED BY <1>2, <1>10, <1>11

(* fork() and the test's header.                                           *)
LEMMA StartTestIo ==
    ASSUME IInv, CInv', StartTest
    PROVE  ProcsInv' /\ StreamInv'
<1>. USE DEF IInv
<1>1. PICK l : l = Line("test", <<suite, index + 1>>)
  OBVIOUS
<1>. DEFINE w == IF opt.recover THEN Fork(io) ELSE io
            x == Printf(w, l)
            z == OutputSuppress(x)
<1>2. /\ pc = "tests" /\ pc' = "test" /\ UNCHANGED <<opt, suite>> /\ index' = index + 1
      /\ truth' = [truth EXCEPT ![<<suite, index + 1>>] = "ok"] /\ io' = z
  BY <1>1 DEF StartTest
<1>3. /\ suite \in Nat /\ index \in Nat /\ index + 1 \in Nat
      /\ truth \in [Tests -> {"unrun", "ok", "bad", "killed"}]
  BY SizesAre DEF CInv, TypeInv
<1>4. /\ io \in Io /\ io.procs # <<>> /\ Active(io).out = "old" /\ Len(io.procs) = 1
      /\ pc # "aborted" /\ pc' # "aborted" /\ pc' # "done" /\ pc # "done" /\ opt' = opt
      /\ ~OfTest /\ ~InTest /\ InTest' /\ OfTest'
  BY <1>2, RunnerIs DEF InTest, OfTest
<1>5. /\ Now' = <<suite, index + 1>> /\ Now' \in Tests /\ truth[Now'] = "unrun"
      /\ truth'[Now'] = "ok"
  <2>1. Now' = <<suite, index + 1>> /\ <<suite, index + 1>> \in Tests
    <3>1. /\ suite # 0 /\ suite \in 1..Len(Sizes) /\ index < Sizes[suite]
      BY <1>2, <1>3, SizesAre DEF StartTest, CInv, TypeInv, PlaceInv
    <3>2. index + 1 \in 1..Sizes[suite]
      BY <1>3, <3>1, SizesAre
    <3>. QED BY <1>2, <3>1, <3>2, TestsAre DEF Now
  <2>2. ~(index + 1 <= index) /\ ~(suite < suite)
    BY <1>3
  <2>3. ~Begun(<<suite, index + 1>>)
    BY <2>2 DEF Begun
  <2>. QED BY <1>2, <1>3, <2>1, <2>3 DEF CInv, TruthInv
<1>6. /\ l \in LineRec /\ l.kind = "test" /\ l.test = <<suite, index + 1>> /\ ~IsVerdict(l)
  BY <1>1, <1>3, LinesAre DEF IsVerdict
<1>7. ~Known(l) /\ Known(l)'
  <2>1. ~Known(l)
    BY <1>5, <1>6 DEF Known
  <2>2. Known(l)'
    BY <1>5, <1>6 DEF Known, IsVerdict
  <2>. QED BY <2>1, <2>2
<1>8. /\ w \in Io /\ w.procs # <<>> /\ Active(w).out = "old"
      /\ Len(w.procs) = (IF opt.recover THEN 2 ELSE 1)
      /\ opt.recover => /\ w.procs[1].buf = <<>> /\ w.procs[1].out = "old"
                        /\ w.output = Stream(io)
      /\ Stream(w) = Stream(io)
  <2>1. CASE opt.recover
    <3>1. 1 + 1 = 2
      OBVIOUS
    <3>. QED BY <1>4, <2>1, <3>1, ForkIs
  <2>2. CASE ~opt.recover
    BY <1>4, <2>2
  <2>. QED BY <2>1, <2>2
<1>. HIDE DEF w
<1>9. /\ Touches(w, x) /\ Active(x).out = "old" /\ Stream(x) = Append(Stream(w), l)
      /\ IF opt.line THEN Active(x).buf = <<>> /\ x.output = Stream(x)
         ELSE x.output = w.output
  BY <1>6, <1>8, PrintfIs
<1>. HIDE DEF x
<1>10. /\ Touches(x, z) /\ Stream(z) = Stream(x)
       /\ IF opt.verbose THEN z = x
          ELSE Active(z).out = "nul" /\ Active(z).buf = <<>> /\ z.output = Stream(z)
  BY <1>9, OutputSuppressIs DEF Touches
<1>. HIDE DEF z
<1>11. PICK y : y = io'
  OBVIOUS
<1>12. /\ Touches(w, y) /\ Stream(y) = Append(Stream(io), l)
       /\ Active(y).out = (IF opt.verbose THEN "old" ELSE "nul")
       /\ opt.line \/ ~opt.verbose => Active(y).buf = <<>>
       /\ y.output = Stream(y) \/ y.output = w.output
  <2>1. Touches(w, z)
    BY <1>8, <1>9, <1>10, TouchesTwice
  <2>2. y = z
    BY <1>2, <1>11
  <2>3. CASE opt.verbose
    BY <1>8, <1>9, <1>10, <2>1, <2>2, <2>3
  <2>4. CASE ~opt.verbose
    BY <1>8, <1>9, <1>10, <2>1, <2>2, <2>4
  <2>. QED BY <2>3, <2>4
<1>13. PICK n : n = Len(y.procs)
  OBVIOUS
<1>14. /\ y \in Io /\ y.procs # <<>> /\ n = (IF opt.recover THEN 2 ELSE 1)
       /\ opt.recover => y.procs[1] = w.procs[1]
  <2>1. y \in Io /\ y.procs # <<>> /\ n = (IF opt.recover THEN 2 ELSE 1)
    BY <1>8, <1>12, <1>13 DEF Touches
  <2>2. opt.recover => 1 \in DOMAIN w.procs /\ 1 # Len(w.procs)
    BY <1>8, ActiveIs
  <2>. QED BY <1>12, <2>1, <2>2 DEF Touches
<1>15. DOMAIN y.procs = 1..n /\ Active(y) = y.procs[n]
  BY <1>13, <1>14, ActiveIs
<1>16. ~opt.verbose => \A i \in DOMAIN Active(y).buf : FALSE
  <2>1. \A i \in DOMAIN <<>> : FALSE
    OBVIOUS
  <2>. QED BY <1>12, <2>1
<1>17. ProcsInv'
  <2>1. (/\ io \in Io
         /\ Len(io.procs) = IF pc = "aborted" THEN 0 ELSE IF pc = "try" THEN 3
                            ELSE IF pc = "test" /\ opt.recover THEN 2 ELSE 1)'
    BY <1>2, <1>11, <1>13, <1>14
  <2>2. \A p \in 1..n : p = n \/ (p = 1 /\ opt.recover)
    BY <1>14
  <2>3. \A p \in 1..n :
          /\ p # n => y.procs[p].buf = <<>>
          /\ y.procs[p].out = IF InTest' /\ ~opt.verbose /\ (p # 1 \/ ~opt.recover)
                              THEN "nul" ELSE "old"
    <3>1. ASSUME NEW p \in 1..n, p = n
          PROVE  y.procs[p].out = IF InTest' /\ ~opt.verbose /\ (p # 1 \/ ~opt.recover)
                                  THEN "nul" ELSE "old"
      BY <1>4, <1>12, <1>14, <1>15, <3>1
    <3>2. ASSUME NEW p \in 1..n, p # n
          PROVE  y.procs[p].buf = <<>> /\ y.procs[p].out = "old" /\ p = 1 /\ opt.recover
      BY <1>8, <1>14, <2>2, <3>2
    <3>. QED BY <3>1, <3>2
  <2>4. (\A p \in DOMAIN io.procs :
          /\ p # Len(io.procs) => io.procs[p].buf = <<>>
          /\ io.procs[p].out = IF InTest /\ ~opt.verbose /\ (p # 1 \/ ~opt.recover)
                               THEN "nul" ELSE "old")'
    BY <1>4, <1>11, <1>13, <1>15, <2>3
  <2>5. (/\ InTest /\ ~opt.verbose =>
              \A i \in DOMAIN Active(io).buf : Active(io).buf[i].kind = "noise"
         /\ pc = "done" => Active(io).buf = <<>>)'
    <3>1. Active(y) = Active(io)'
      BY <1>11 DEF Active
    <3>. QED BY <1>4, <1>16, <3>1
  <2>. QED BY <2>1, <2>4, <2>5 DEF ProcsInv
<1>18. PICK g \in Seq(LineRec) : g = Stream(io)
  BY <1>4, ActiveIs
<1>19. PICK t : t = Stream(y)
  OBVIOUS
<1>20. t = Append(g, l) /\ (y.output \in {g, t} \/ ~opt.recover)
  BY <1>8, <1>12, <1>18, <1>19
<1>21. \A k \in LineRec : Known(k) => Known(k)'
  <2>1. /\ pc # "done" /\ suite <= suite' /\ truth[Now'] = "unrun"
        /\ \A test \in Tests :
             /\ truth[test] # "unrun" => truth'[test] # "unrun"
             /\ truth[test] \in {"bad", "killed"} => truth'[test] \in {"bad", "killed"}
    BY <1>2, <1>3, <1>4, <1>5
  <2>. QED BY <2>1, KnownStays
<1>22. Says(Kept(io), Kept(y))
  <2>1. Begins(g, g)
    BY DEF Begins
  <2>2. Says(g, g) /\ Says(g, Append(g, l))
    BY <1>6, <2>1, SaysGrows
  <2>. QED BY <1>4, <1>13, <1>14, <1>18, <1>19, <1>20, <2>2 DEF Kept
<1>23. \A test \in Tests :
         truth'[test] = "bad" /\ ~(opt.recover /\ OfTest' /\ test = Now') => Told(test)'
  <2>1. \A test \in Tests : truth'[test] = "bad" => truth[test] = "bad"
    BY <1>2, <1>3, <1>5
  <2>. QED BY <1>4, <1>11, <1>22, <2>1, ToldNext
<1>24. PICK b : b = Active(y).buf
  OBVIOUS
<1>25. Ordered /\ opt.recover => \A i \in DOMAIN b : b[i].kind # "test"
  <2>1. \A i \in DOMAIN <<>> : FALSE
    OBVIOUS
  <2>. QED BY <1>12, <1>24, <2>1 DEF Ordered
<1>26. /\ \E k \in LineRec :
            /\ t = Append(g, k) /\ Known(k)' /\ (k.kind = "noise" \/ ~Known(k))
            /\ Ordered /\ IsVerdict(k) => HeadAt(g, Len(g), k.test)
            /\ Ordered /\ OfTest' => IF k.kind = "test" THEN k.test = Now'
                                     ELSE HeadAt(g, Len(g), Now')
       /\ Begins(g, g) /\ Stream(io) \in Seq(LineRec) /\ g \in Seq(LineRec)
  BY <1>5, <1>6, <1>7, <1>18, <1>20 DEF Begins
<1>27. CInv' /\ StreamInv
  OBVIOUS
<1>. QED BY ONLY <1>4, <1>11, <1>17, <1>18, <1>19, <1>21, <1>23, <1>24, <1>25, <1>26, <1>27,
                 StreamStep

-----------------------------------------------------------------------------
(* The invariant and what follows from it.                                 *)

LEMMA InitIInv == ASSUME Init PROVE IInv
<1>1. CInv
  BY InitCInv
<1>. PICK x : x = io
  OBVIOUS
<1>2. /\ pc = "suite" /\ x = [procs |-> <<[buf |-> <<>>, out |-> "old"]>>, output |-> <<>>]
      /\ truth = [test \in Tests |-> "unrun"]
  BY DEF Init
<1>3. [buf |-> <<>>, out |-> "old"] \in Proc
  BY EmptySeq DEF Proc
<1>4. /\ x \in Io /\ Len(x.procs) = 1 /\ DOMAIN x.procs = 1..1
      /\ x.procs[1] = [buf |-> <<>>, out |-> "old"] /\ x.output = <<>> /\ x.procs # <<>>
  BY <1>2, <1>3, EmptySeq DEF Io
<1>5. Active(x) = x.procs[1]
  BY <1>4, ActiveIs
<1>6. Stream(x) = <<>>
  BY <1>4, <1>5, OutputBegins
<1>7. ProcsInv
  <2>1. \A p \in 1..1 : p = 1
    OBVIOUS
  <2>. QED BY <1>2, <1>4, <1>5, <2>1 DEF ProcsInv, InTest
<1>8. StreamInv
  <2>1. \A i \in DOMAIN <<>> : FALSE
    OBVIOUS
  <2>2. Unique(<<>>) /\ InPlace(<<>>)
    BY <2>1 DEF Unique, InPlace
  <2>3. \A test \in Tests : truth[test] # "bad"
    BY <1>2
  <2>. QED BY <1>2, <1>4, <1>6, <2>1, <2>2, <2>3 DEF StreamInv, OfTest, InTest
<1>. QED BY <1>1, <1>7, <1>8 DEF IInv

LEMMA NextIInv == ASSUME IInv, [Next]_vars PROVE IInv'
<1>1. CInv'
  BY NextCInv DEF IInv
<1>2. ProcsInv' /\ StreamInv'
  <2>1. CASE NextSuite
    BY <1>1, <2>1, NextSuiteIo
  <2>2. CASE EndSuite
    BY <1>1, <2>2, EndSuiteIo
  <2>3. CASE StartTest
    BY <1>1, <2>3, StartTestIo
  <2>4. CASE Reap
    BY <1>1, <2>4, ReapIo
  <2>5. CASE Summary
    BY <1>1, <2>5, SummaryIo
  <2>6. CASE Noise
    BY <1>1, <2>6, NoiseIo
  <2>7. CASE TrySignal
    BY <1>1, <2>7, TrySignalIo
  <2>8. CASE TestReturns
    BY <1>1, <2>8, TestReturnsIo
  <2>9. CASE CaughtSignal
    BY <1>1, <2>9, CaughtSignalIo
  <2>10. CASE KilledBySignal
    BY <1>1, <2>10, KilledBySignalIo
  <2>11. ASSUME NEW ok \in BOOLEAN, Trial(ok)
         PROVE  ProcsInv' /\ StreamInv'
    BY <1>1, <2>11, TrialIo
  <2>12. ASSUME NEW ok \in BOOLEAN, TryEnds(ok)
         PROVE  ProcsInv' /\ StreamInv'
    BY <1>1, <2>12, TryEndsIo
  <2>13. CASE UNCHANGED vars
    <3>1. /\ UNCHANGED <<opt, pc, suite, index, test_num, test_pass_num>>
          /\ UNCHANGED <<passed, status, io, steps, truth>>
      BY <2>13 DEF vars
    <3>2. ProcsInv'
      BY <3>1 DEF IInv, ProcsInv, InTest, Active
    <3>3. StreamInv'
      BY <3>1 DEF IInv, StreamInv, InTest, OfTest, Active, Stream, Ordered, Known, Told, Kept,
                  Now
    <3>. QED BY <3>2, <3>3
  <2>. QED BY <2>1, <2>2, <2>3, <2>4, <2>5, <2>6, <2>7, <2>8, <2>9, <2>10, <2>11, <2>12, <2>13
           DEF Next, Ended
<1>. QED BY <1>1, <1>2 DEF IInv

LEMMA SpecIInv == Spec => []IInv
<1>1. Init => IInv
  BY InitIInv
<1>2. IInv /\ [Next]_vars => IInv'
  BY NextIInv
<1>. QED BY <1>1, <1>2, PTL DEF Spec

LEMMA IInvTypes == ASSUME IInv PROVE TypeOK
<1>1. /\ test_num \in Nat /\ Cardinality(Tests) \in Nat /\ test_num <= Cardinality(Tests)
      /\ test_pass_num \in Nat /\ test_pass_num <= test_num
  BY TestsFinite, PassingFinite DEF IInv, CInv, CountInv
<1>2. Len(io.procs) <= 3
  BY DEF IInv, ProcsInv
<1>3. pc \in {"suite", "tests", "reap"} => Len(io.procs) = 1 /\ Active(io).out = "old"
  BY RunnerIs DEF IInv, InTest
<1>. QED BY <1>1, <1>2, <1>3 DEF TypeOK, IInv, CInv, TypeInv

LEMMA IInvReported == ASSUME IInv PROVE ReportedOnceInPlace
<1>1. Unique(io.output) /\ (Ordered => InPlace(io.output))
  BY DEF IInv, StreamInv
<1>2. \A i, j \in Reports : io.output[i] = io.output[j] => i = j
  BY <1>1 DEF Reports, Unique
<1>3. ASSUME Ordered, NEW test \in Tests, NEW i \in Verdicts(test)
      PROVE  HeadAt(io.output, i, test)
  BY <1>1, <1>3 DEF Verdicts, Reports, InPlace, IsVerdict
<1>. QED BY <1>2, <1>3 DEF ReportedOnceInPlace, Ordered, HeadAt

LEMMA IInvFailures == ASSUME IInv PROVE FailuresAreReported
<1>. SUFFICES ASSUME pc = "done"
              PROVE  /\ \A test \in With("bad") : Verdicts(test) # {}
                     /\ \A test \in With("ok") : Verdicts(test) = {}
  BY DEF FailuresAreReported
<1>1. /\ io \in Io /\ io.procs # <<>> /\ Len(io.procs) = 1 /\ Active(io).buf = <<>>
  BY RunnerIs DEF IInv, ProcsInv, InTest
<1>2. Stream(io) = io.output /\ Kept(io) = io.output
  BY <1>1, OutputBegins DEF Kept
<1>3. ASSUME NEW test \in With("bad") PROVE Verdicts(test) # {}
  <2>1. test \in Tests /\ truth[test] = "bad"
    BY <1>3 DEF With
  <2>2. Told(test)
    BY <2>1 DEF IInv, StreamInv, OfTest
  <2>. QED BY <1>2, <2>2 DEF Told, Verdicts, Reports, IsVerdict
<1>4. ASSUME NEW test \in With("ok") PROVE Verdicts(test) = {}
  <2>1. test \in Tests /\ truth[test] = "ok"
    BY <1>4 DEF With
  <2>2. ASSUME NEW i \in Verdicts(test) PROVE FALSE
    <3>1. /\ i \in DOMAIN io.output /\ io.output[i].test = test /\ IsVerdict(io.output[i])
      BY <2>2 DEF Verdicts, Reports, IsVerdict
    <3>2. Known(io.output[i])
      BY <1>2, <3>1 DEF IInv, StreamInv
    <3>. QED BY <2>1, <3>1, <3>2 DEF Known
  <2>. QED BY <2>2
<1>. QED BY <1>3, <1>4

(* The counters of main() stay within the number of tests, at most a child *)
(* and a grandchild of the runner exist, and output_restore_() and fork()  *)
(* leave the runner with its own stdout between the tests.                 *)
THEOREM HTestTypes == Spec => []TypeOK
<1>1. IInv => TypeOK
  BY IInvTypes
<1>. QED BY <1>1, SpecIInv, PTL

(* What main() prints last and returns is true: the count of passed tests  *)
(* is that of the tests that ran to their end without a failed trial, and  *)
(* the exit status is success exactly when those are all tests.            *)
THEOREM TruthTold == Spec => []VerdictsTrue
<1>1. IInv => VerdictsTrue
  BY CInvVerdicts DEF IInv
<1>. QED BY <1>1, SpecIInv, PTL

(* fork() after fflush() and _exit() without one: no line is printed by    *)
(* two processes, and a failure comes after the header of its own test.    *)
THEOREM ReportReadable == Spec => []ReportedOnceInPlace
<1>1. IInv => ReportedOnceInPlace
  BY IInvReported
<1>. QED BY <1>1, SpecIInv, PTL

(* The summary comes after a line for each test that failed, printed by    *)
(* the failed trial, the signal handler or the runner that saw the exit    *)
(* status, and no such line is about a test that went well.                *)
THEOREM FailuresSaid == Spec => []FailuresAreReported
<1>1. IInv => FailuresAreReported
  BY IInvFailures
<1>. QED BY <1>1, SpecIInv, PTL
=============================================================================
