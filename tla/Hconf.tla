------------------------------- MODULE Hconf -------------------------------
(***************************************************************************)
(* hgmake/hconf_conf.c: a header is read line by line; every guard of a    *)
(* branch, and the end of the file, first tries the branch before it.  A   *)
(* try resolves the variables of the branch, writes what the header will   *)
(* include, and compiles, links and runs the header.  The first branch of  *)
(* a module that gets through is kept, the rest of the module skipped.     *)
(*                                                                         *)
(* A flag is the line it comes from (0: the base hconf file); merge() is   *)
(* the union here and Merge.tla in detail.  Compiler, linker and tested    *)
(* program are external: they pass or fail, with or without a line of      *)
(* output.  Not modelled: arguments, file names, system calls that fail.   *)
(***************************************************************************)
EXTENDS Integers, Sequences, SequencesExt

CONSTANTS
    Module, Branch,     (* bound: names in guards                          *)
    MaxLines,           (* bound: the lines of the header                  *)
    Silent              (* whether a command may fail without a line       *)

ASSUME HeaderAssumption == MaxLines \in Nat /\ Silent \in BOOLEAN

Guard == [kind : {"guard"}, module : Module, branch : Branch]
Comment == [kind : {"flag", "nolink", "noexec", "text"}]
Base == 0
NoBranch == [name |-> "none"]
Outcome == {"passes", "fails"} \cup IF Silent THEN {"fails silently"} ELSE {}

VARIABLES
    lines,      (* the header                                              *)
    line,       (* g_line_no                                               *)
    modules,    (* g_module_list                                           *)
    pc,         (* where hconf_conf is                                     *)
    header,     (* the generated header: the branches it defines           *)
    hconf,      (* the flags in the hconf file                             *)
    truth       (* history: per line of a tried guard, whether it passed   *)

vars == <<lines, line, modules, pc, header, hconf, truth>>
files == <<header, hconf>>

AtEnd == line > Len(lines)
LastBranch == Last(modules).branch
SetBranch(b) == modules' = [modules EXCEPT ![Len(modules)].branch = b]
NewBranch ==
    [name |-> lines[line].branch, ok |-> FALSE, vars |-> {}, bucket |-> {},
     link |-> TRUE, exec |-> TRUE, line |-> line]

(* try() has nothing to do.                                                *)
Tried == ~(modules # <<>> /\ LastBranch # NoBranch /\ ~LastBranch.ok)

-----------------------------------------------------------------------------
(* try().                                                                  *)

Flags(branch) == {i \in branch.vars : lines[i].kind = "flag"}
NoOption(branch, option) == \A i \in branch.vars : lines[i].kind # option

Resolved(branch) ==
    [branch EXCEPT !.bucket = Flags(branch),
                   !.link = NoOption(branch, "nolink"), !.exec = NoOption(branch, "noexec")]

(* write_files(): defines every module's branch, and merges the base and   *)
(* all buckets into the file and into the bucket of the last module.       *)
SeededMerged(ms) ==     (* seeded fault: what the file has is kept          *)
    {Base} \cup hconf \cup UNION {ms[i].branch.bucket : i \in DOMAIN ms}

Merged(ms) == {Base} \cup UNION {ms[i].branch.bucket : i \in DOMAIN ms}

WriteFiles(ms) ==
    /\ modules' = [ms EXCEPT ![Len(ms)].branch.bucket = Merged(ms)]
    /\ header' = {<<ms[i].name, ms[i].branch.name>> : i \in DOMAIN ms}
    /\ hconf' = Merged(ms)

Try ==
    /\ pc = "scan" /\ ~Tried
    /\ ~AtEnd => lines[line].kind = "guard"
    /\ WriteFiles([modules EXCEPT ![Len(modules)].branch = Resolved(@)])
    /\ truth' = [truth EXCEPT ![LastBranch.line] = "passes"]
    /\ pc' = "compile"
    /\ UNCHANGED <<lines, line>>

(* try_passed and try_failed.                                              *)
Passed == pc' = "scan" /\ SetBranch([LastBranch EXCEPT !.ok = TRUE])
Failed == pc' = "scan" /\ SetBranch(NoBranch)

(* build() returns 0 if the command passed, and else its lines of output.  *)
BuildFailed(outcome) == outcome = "fails"
Command(outcome) ==
    truth' = [truth EXCEPT ![LastBranch.line] = IF outcome = "passes" THEN @ ELSE "fails"]

Compile ==
    /\ pc = "compile"
    /\ \E outcome \in Outcome :
        /\ Command(outcome)
        /\ IF BuildFailed(outcome) THEN Failed
           ELSE IF ~LastBranch.link THEN Passed
           ELSE pc' = "link" /\ UNCHANGED modules
    /\ UNCHANGED <<lines, line, files>>

Link ==
    /\ pc = "link"
    /\ \E outcome \in Outcome :
        /\ Command(outcome)
        /\ IF BuildFailed(outcome) THEN Failed
           ELSE IF ~LastBranch.exec THEN Passed
           ELSE pc' = "exec" /\ UNCHANGED modules
    /\ UNCHANGED <<lines, line, files>>

(* The program is judged by its exit status alone.                         *)
Exec ==
    /\ pc = "exec"
    /\ \E outcome \in {"passes", "fails"} :
        /\ Command(outcome)
        /\ IF outcome = "passes" THEN Passed ELSE Failed
    /\ UNCHANGED <<lines, line, files>>

-----------------------------------------------------------------------------
(* main().                                                                 *)

SameModule == modules # <<>> /\ Last(modules).name = lines[line].module

(* A guard of the module that is being worked on.  After a branch that     *)
(* passed it is skipped, and what follows it is read as of that branch.    *)
SeededNextBranch ==     (* seeded fault: it replaces the one that passed   *)
    /\ pc = "scan" /\ Tried /\ ~AtEnd
    /\ lines[line].kind = "guard" /\ SameModule
    /\ SetBranch(NewBranch)
    /\ line' = line + 1
    /\ UNCHANGED <<lines, pc, files, truth>>

NextBranch ==
    /\ pc = "scan" /\ Tried /\ ~AtEnd
    /\ lines[line].kind = "guard" /\ SameModule
    /\ IF LastBranch = NoBranch THEN SetBranch(NewBranch) ELSE UNCHANGED modules
    /\ line' = line + 1
    /\ UNCHANGED <<lines, pc, files, truth>>

(* module_add(): the module before must have a branch.                     *)
ModuleFailed == modules # <<>> /\ LastBranch = NoBranch

NextModule ==
    /\ pc = "scan" /\ Tried /\ ~AtEnd
    /\ lines[line].kind = "guard" /\ ~SameModule
    /\ IF ModuleFailed THEN pc' = "exit failure" /\ UNCHANGED <<line, modules>>
       ELSE /\ modules' = Append(modules, [name |-> lines[line].module, branch |-> NewBranch])
            /\ line' = line + 1
            /\ UNCHANGED pc
    /\ UNCHANGED <<lines, files, truth>>

Variable ==
    /\ pc = "scan" /\ ~AtEnd
    /\ lines[line].kind # "guard"
    /\ IF modules = <<>> \/ lines[line].kind = "text" THEN UNCHANGED modules
       ELSE SetBranch([LastBranch EXCEPT !.vars = @ \cup {line}])
    /\ line' = line + 1
    /\ UNCHANGED <<lines, pc, files, truth>>

EndOfFile ==
    /\ pc = "scan" /\ AtEnd /\ Tried
    /\ IF ModuleFailed \/ modules = <<>>
       THEN pc' = "exit failure" /\ UNCHANGED <<modules, files>>
       ELSE pc' = "exit success" /\ WriteFiles(modules)
    /\ UNCHANGED <<lines, line, truth>>

Init ==
    /\ \E n \in 0 .. MaxLines : lines \in [1 .. n -> Guard \cup Comment]
    /\ line = 1 /\ modules = <<>> /\ pc = "scan"
    /\ header = {} /\ hconf = {}
    /\ truth = [i \in DOMAIN lines |-> "untried"]

Next ==
    \/ Try \/ Compile \/ Link \/ Exec
    \/ NextBranch \/ NextModule \/ Variable \/ EndOfFile

Spec == Init /\ [][Next]_vars

-----------------------------------------------------------------------------
(* Properties.                                                             *)

(* The guards of the same module one after the other, of which one is      *)
(* chosen: the line of the first of them.                                  *)
IsGuard(i) == lines[i].kind = "guard"
NearestGuard(i) == {j \in 1 .. i - 1 : IsGuard(j) /\ \A k \in j + 1 .. i - 1 : ~IsGuard(k)}
StartsModule(i) == IsGuard(i) /\ \A j \in NearestGuard(i) : lines[j].module # lines[i].module
SameBlock(i, j) ==
    /\ i <= j /\ StartsModule(i) /\ IsGuard(j)
    /\ \A k \in i + 1 .. j : IsGuard(k) => ~StartsModule(k)
Chosen(i) == {j \in DOMAIN lines : SameBlock(i, j) /\ truth[j] = "passes"}

(* hconf_conf tests the guards of a module top-down until one passes: on   *)
(* success every module has exactly one guard that passed, those above it  *)
(* failed, those below were not tried, and the header defines just these;  *)
(* on failure the last module tried had none.                              *)
FirstPassingChosen ==
    /\ pc = "exit success" =>
        /\ \A i \in DOMAIN lines : StartsModule(i) => \E j \in Chosen(i) :
            \A k \in DOMAIN lines : SameBlock(i, k) =>
                truth[k] = IF k < j THEN "fails" ELSE IF k = j THEN "passes" ELSE "untried"
        /\ header = {<<lines[j].module, lines[j].branch>> :
                        j \in {i \in DOMAIN lines : truth[i] = "passes"}}
    /\ pc = "exit failure" =>
        \/ \A i \in DOMAIN lines : ~IsGuard(i)
        \/ \E i \in DOMAIN lines : StartsModule(i) /\ Chosen(i) = {} /\ truth[i] = "fails"

(* The flags of the build are those of the base and of the branches that   *)
(* passed, whatever failed branches, skipped branches and the files        *)
(* written for every try said: a flag belongs to the guard above it.       *)
OnlyChosenFlags ==
    pc = "exit success" =>
        hconf = {Base} \cup {i \in DOMAIN lines : lines[i].kind = "flag"
                                /\ \E j \in NearestGuard(i) : truth[j] = "passes"}
=============================================================================
