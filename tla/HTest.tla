------------------------------- MODULE HTest -------------------------------
(***************************************************************************)
(* htest/src/htest.c and htest/include/htest/htest.h on POSIX: the runner  *)
(* that runs every test of every suite in a forked process, and HTRY_SIGNAL*)
(* that forks once more.  A forked process has a copy of the stdio buffer  *)
(* and of the file descriptors, and _exit() throws its buffer away; the    *)
(* forking process waits, so only the last of "procs" runs.                *)
(***************************************************************************)
EXTENDS Integers, FiniteSets, SequencesExt

CONSTANTS
    Sizes,     (* the number of tests in each suite, in list order         *)
    MaxSteps   (* bound: what a test does before it ends                   *)

ASSUME SizesAssumption == Sizes \in Seq(Nat) /\ MaxSteps \in Nat

VARIABLES
    opt,       (* !-r, -v, and whether stdout is line-buffered             *)
    pc,        (* where the process that runs is                           *)
    suite, index,            (* main()'s loops: suite, test_index          *)
    test_num, test_pass_num, (* main()'s counters                          *)
    passed,    (* *a_passed_ in the process that runs the test             *)
    status,    (* what waitpid() will report of the child                  *)
    io,        (* the processes' stdout and what has arrived at the output *)
    steps,     (* bounds the test that runs                                *)
    truth      (* per test: has it run, and did anything in it go wrong    *)

vars == <<opt, pc, suite, index, test_num, test_pass_num, passed, status, io,
          steps, truth>>
main == <<opt, suite, index, test_num, test_pass_num>>

Tests == UNION {{<<s, t>> : t \in 1..Sizes[s]} : s \in DOMAIN Sizes}
Now == <<suite, index>>

-----------------------------------------------------------------------------
(* stdio.  io.procs: [buf, out] per process, out is "old" or "nul".        *)

Active(x) == Last(x.procs)
WithActive(x, p) == [x EXCEPT !.procs = Append(Front(@), p)]

Put(x, line) == WithActive(x, [Active(x) EXCEPT !.buf = Append(@, line)])

Fflush(x) ==
    [WithActive(x, [Active(x) EXCEPT !.buf = <<>>])
        EXCEPT !.output = IF Active(x).out = "old" THEN @ \o Active(x).buf ELSE @]

Printf(x, line) ==
    IF opt.line THEN Fflush(Put(x, line)) ELSE Put(x, line)

Dup2(x, out) == WithActive(x, [Active(x) EXCEPT !.out = out])

SeededFork(x) ==        (* seeded fault: stdout is not flushed before fork *)
    [x EXCEPT !.procs = Append(@, Active(x))]

Fork(x) == LET y == Fflush(x) IN [y EXCEPT !.procs = Append(@, Active(y))]

UnderscoreExit(x) == [x EXCEPT !.procs = Front(@)]

SeededOutputRestore(x) == x     (* seeded fault: output stays suppressed   *)

OutputSuppress(x) == IF opt.verbose THEN x ELSE Dup2(Fflush(x), "nul")
OutputRestore(x)  == IF opt.verbose THEN x ELSE Dup2(x, "old")

-----------------------------------------------------------------------------
(* What is printed.  "noise" is the tested code's own output.              *)

Line(kind, test) == [kind |-> kind, test |-> test, n |-> 0]
Report(kind, n) == [kind |-> kind, test |-> Now, n |-> n]

FailBlock(x, n) ==      (* HTRY_FAIL_HEADER_, the message, _FOOTER_        *)
    OutputSuppress(Printf(OutputRestore(x), Report("fail", n)))

Sighandler(x, test) ==  (* suite_sighandler() up to its _exit()            *)
    Printf(OutputRestore(x), Line("signal", test))

-----------------------------------------------------------------------------
(* main().                                                                 *)

(* The suite's header, then the suite is called to count its tests.  This  *)
(* runs the fixture in the runner itself; a signal there ends the run.     *)
NextSuite ==
    /\ pc = "suite" /\ suite < Len(Sizes)
    /\ suite' = suite + 1 /\ index' = 0
    /\ LET header == Printf(io, Line("suite", <<suite + 1, 0>>))
       IN  \/ /\ io' = header
              /\ test_num' = test_num + Sizes[suite + 1]
              /\ pc' = IF Sizes[suite + 1] = 0 THEN "suite" ELSE "tests"
           \/ /\ io' = UnderscoreExit(Sighandler(header, <<suite + 1, 0>>))
              /\ pc' = "aborted"
              /\ UNCHANGED test_num
    /\ UNCHANGED <<opt, test_pass_num, passed, status, steps, truth>>

SeededEndSuite ==       (* seeded fault: > for >=, the last test is left out *)
    /\ pc = "tests" /\ index + 1 >= Sizes[suite]
    /\ pc' = "suite"
    /\ UNCHANGED <<main, passed, status, io, steps, truth>>

EndSuite ==
    /\ pc = "tests" /\ index = Sizes[suite]
    /\ pc' = "suite"
    /\ UNCHANGED <<main, passed, status, io, steps, truth>>

(* fork(), the suite up to the test's HTEST_ADD, and its first lines.      *)
StartTest ==
    /\ pc = "tests" /\ index < Sizes[suite]
    /\ index' = index + 1
    /\ pc' = "test"
    /\ passed' = TRUE /\ steps' = 0
    /\ truth' = [truth EXCEPT ![<<suite, index + 1>>] = "ok"]
    /\ io' = OutputSuppress(Printf(IF opt.recover THEN Fork(io) ELSE io,
                    Line("test", <<suite, index + 1>>)))
    /\ UNCHANGED <<opt, suite, test_num, test_pass_num, status>>

SeededWexitstatus(st) == 0      (* seeded fault: the status is not looked at *)

(* The exit status of a process that a signal killed is 0.                 *)
Wexitstatus(st) == IF st = "failure" THEN 1 ELSE 0

Reap ==
    /\ pc = "reap"
    /\ pc' = "tests"
    /\ IF Wexitstatus(status) # 0
       THEN io' = Printf(io, Line("exited", Now)) /\ UNCHANGED test_pass_num
       ELSE test_pass_num' = test_pass_num + 1 /\ UNCHANGED io
    /\ UNCHANGED <<opt, suite, index, test_num, passed, status, steps, truth>>

Summary ==              (* exit() flushes                                  *)
    /\ pc = "suite" /\ suite = Len(Sizes)
    /\ pc' = "done"
    /\ io' = Fflush(Printf(io, Line("summary", <<0, 0>>)))
    /\ UNCHANGED <<main, passed, status, steps, truth>>

ExitSuccess == test_pass_num = test_num

-----------------------------------------------------------------------------
(* The test.                                                               *)

Step == steps < MaxSteps /\ steps' = steps + 1

(* The tested code, in the test or under HTRY_SIGNAL, writes to stdout.    *)
(* It stays buffered until a line, a full buffer or fflush() writes it.    *)
Noise ==
    /\ pc \in {"test", "try"} /\ Step
    /\ LET x == Put(io, Line("noise", Now)) IN io' \in {x, Fflush(x)}
    /\ UNCHANGED <<main, pc, passed, status, truth>>

SeededTrial(holds) ==   (* seeded fault: a later trial that holds resets it *)
    /\ pc = "test" /\ Step
    /\ passed' = holds
    /\ IF holds THEN UNCHANGED <<io, truth>>
       ELSE /\ io' = FailBlock(io, steps + 1)
            /\ truth' = [truth EXCEPT ![Now] = "bad"]
    /\ UNCHANGED <<main, pc, status>>

Trial(holds) ==         (* HTRY, HTRY_BOOL, HTRY_STRN                      *)
    /\ pc = "test" /\ Step
    /\ IF holds THEN UNCHANGED <<passed, io, truth>>
       ELSE /\ io' = FailBlock(io, steps + 1) /\ passed' = FALSE
            /\ truth' = [truth EXCEPT ![Now] = "bad"]
    /\ UNCHANGED <<main, pc, status>>

TrySignal ==            (* HTRY_SIGNAL up to waitpid(); nothing under -r   *)
    /\ pc = "test" /\ Step
    /\ IF opt.recover THEN io' = Fork(io) /\ pc' = "try"
                      ELSE UNCHANGED <<io, pc>>
    /\ UNCHANGED <<main, passed, status, truth>>

SeededTryEnds(signal) ==    (* seeded fault: the wrong outcome is expected *)
    /\ pc = "try" /\ pc' = "test"
    /\ LET x == UnderscoreExit(io)
       IN  IF ~signal
           THEN /\ io' = x /\ UNCHANGED passed
           ELSE /\ io' = FailBlock(x, steps) /\ passed' = FALSE
    /\ truth' = IF signal THEN truth ELSE [truth EXCEPT ![Now] = "bad"]
    /\ UNCHANGED <<main, status, steps>>

(* Here the whole status is looked at, so that any signal will do.         *)
TryEnds(signal) ==
    /\ pc = "try" /\ pc' = "test"
    /\ LET x == UnderscoreExit(io)
       IN  IF signal
           THEN /\ io' = x /\ UNCHANGED <<passed, truth>>
           ELSE /\ io' = FailBlock(x, steps) /\ passed' = FALSE
                /\ truth' = [truth EXCEPT ![Now] = "bad"]
    /\ UNCHANGED <<main, status, steps>>

(* The process of the test ends; under -r it is the runner.                *)
ChildEnds(st, x) ==
    /\ pc' = "reap" /\ status' = st
    /\ io' = UnderscoreExit(x)

TestReturns ==
    /\ pc = "test"
    /\ IF opt.recover
       THEN /\ ChildEnds(IF passed THEN "success" ELSE "failure", OutputRestore(io))
            /\ UNCHANGED test_pass_num
       ELSE /\ pc' = "tests" /\ io' = OutputRestore(io)
            /\ test_pass_num' = test_pass_num + (IF passed THEN 1 ELSE 0)
            /\ UNCHANGED status
    /\ UNCHANGED <<opt, suite, index, test_num, passed, steps, truth>>

CaughtSignal ==         (* SIGABRT, SIGBUS, SIGFPE, SIGILL or SIGSEGV      *)
    /\ pc = "test"
    /\ truth' = [truth EXCEPT ![Now] = "bad"]
    /\ IF opt.recover THEN ChildEnds("failure", Sighandler(io, Now))
       ELSE /\ pc' = "aborted" /\ io' = UnderscoreExit(Sighandler(io, Now))
            /\ UNCHANGED status
    /\ UNCHANGED <<main, passed, steps>>

(* A signal without a handler.                                             *)
KilledBySignal ==
    /\ pc = "test"
    /\ truth' = [truth EXCEPT ![Now] = "killed"]
    /\ IF opt.recover THEN ChildEnds("signal", io)
       ELSE pc' = "aborted" /\ io' = UnderscoreExit(io) /\ UNCHANGED status
    /\ UNCHANGED <<main, passed, steps>>

-----------------------------------------------------------------------------
Init ==
    /\ opt \in [recover : BOOLEAN, verbose : BOOLEAN, line : BOOLEAN]
    /\ pc = "suite" /\ suite = 0 /\ index = 0
    /\ test_num = 0 /\ test_pass_num = 0
    /\ passed = TRUE /\ status = "success" /\ steps = 0
    /\ io = [procs |-> <<[buf |-> <<>>, out |-> "old"]>>, output |-> <<>>]
    /\ truth = [test \in Tests |-> "unrun"]

Ended == pc \in {"done", "aborted"} /\ UNCHANGED vars

Next ==
    \/ NextSuite \/ EndSuite \/ StartTest \/ Reap \/ Summary
    \/ Noise \/ TrySignal \/ TestReturns \/ CaughtSignal \/ KilledBySignal
    \/ \E ok \in BOOLEAN : Trial(ok) \/ TryEnds(ok)
    \/ Ended

(* The one process that runs is scheduled.  That every test ends by itself *)
(* is in the bound: the runner has no timeout, it waits for as long as the *)
(* test runs.                                                              *)
Spec == Init /\ [][Next]_vars /\ WF_vars(Next)

-----------------------------------------------------------------------------
(* Properties.                                                             *)

Reports == {i \in DOMAIN io.output : io.output[i].kind # "noise"}
Verdicts(test) ==
    {i \in Reports : io.output[i].test = test
                     /\ io.output[i].kind \in {"fail", "signal", "exited"}}

(* The counters and the nesting of processes stay in range: the runner, at *)
(* most a child and a grandchild, and no descriptor left suppressed in the *)
(* runner between tests.                                                   *)
TypeOK ==
    /\ pc \in {"suite", "tests", "test", "try", "reap", "done", "aborted"}
    /\ suite \in 0..Len(Sizes) /\ passed \in BOOLEAN
    /\ test_pass_num \in 0..test_num /\ test_num \in 0..Cardinality(Tests)
    /\ status \in {"success", "failure", "signal"}
    /\ truth \in [Tests -> {"unrun", "ok", "bad", "killed"}]
    /\ Len(io.procs) <= 3
    /\ pc \in {"suite", "tests", "reap"} =>
        Len(io.procs) = 1 /\ Active(io).out = "old"

With(outcome) == {test \in Tests : truth[test] = outcome}

(* The summary and the exit status tell the truth: a test counts as passed *)
(* exactly when it ran to its end and no trial in it failed.  (Tests that  *)
(* a signal without a handler killed: see KilledTestsFail.)                *)
VerdictsTrue ==
    pc = "done" =>
        /\ test_num = Cardinality(Tests)
        /\ test_pass_num <= Cardinality(Tests \ With("bad"))
        /\ With("killed") = {} =>
            /\ test_pass_num = Cardinality(With("ok"))
            /\ ExitSuccess <=> With("ok") = Tests

(* htest/README: every test is protected by forking, and HTEST_VOID runs   *)
(* an expression that should run without signals.  So a test that is       *)
(* killed has not passed.                                                  *)
KilledTestsFail == pc = "done" => test_pass_num = Cardinality(With("ok"))

(* The report is readable: nothing is printed twice although every fork    *)
(* copies the buffer, and a failure stands below the header of its test.   *)
(* (With -v into a file the child's lines are lost, see the README.)       *)
ReportedOnceInPlace ==
    /\ \A i, j \in Reports : io.output[i] = io.output[j] => i = j
    /\ opt.line \/ ~opt.verbose \/ ~opt.recover =>
        \A test \in Tests : \A i \in Verdicts(test) :
            \E h \in 1..i : /\ io.output[h].kind = "test"
                            /\ io.output[h].test = test
                            /\ \A k \in h + 1..i : io.output[k].kind # "test"

(* By the time the summary is printed every test that failed has said so,  *)
(* and no other.                                                           *)
FailuresAreReported ==
    pc = "done" =>
        /\ \A test \in With("bad") : Verdicts(test) # {}
        /\ \A test \in With("ok") : Verdicts(test) = {}

(* With recovery no test keeps the others from running: whatever tests do, *)
(* the runner comes to its summary and every test has run.  One thing only *)
(* ends it before: a fixture that crashes in the runner, which calls every *)
(* suite once to count its tests (htest.c:241), before any test of that    *)
(* suite has run.  htest/README:56 promises protection by forking to       *)
(* "Every suite and every test"; that this one is not given is a finding.  *)
EveryTestRuns ==
    opt.recover =>
        <>\/ pc = "done" /\ \A test \in Tests : truth[test] # "unrun"
          \/ pc = "aborted" /\ \A t \in 1..Sizes[suite] : truth[suite, t] = "unrun"
=============================================================================
