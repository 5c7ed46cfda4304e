------------------------------- MODULE Config -------------------------------
(***************************************************************************)
(* hutils/src/config.c: collections of sections of named values, loaded    *)
(* from and written to a sequence of lexer tokens.  Texts and numbers are  *)
(* data: what strtod(), strtol() and printf() make of them is kept, how    *)
(* they are spelled is not.  Doubles count in hundredths and %f prints     *)
(* tenths (for 1e-6 of the code).  Names are identifiers and no string     *)
(* contains a quote: the file format has no way to write them.             *)
(***************************************************************************)
EXTENDS Integers, Sequences, SequencesExt

(* Strings: how they start, and the number they start with.                *)
Text(first) == [first |-> first, form |-> "text", n |-> 0, e |-> 0]
Dec(d) == [first |-> "digit", form |-> "dec", n |-> d, e |-> 0]
Exp(m, e) == [first |-> "digit", form |-> "exp", n |-> m, e |-> e]
Hex(n) == [first |-> "digit", form |-> "hex", n |-> n, e |-> 0]

Trunc(d) == IF d >= 0 THEN d \div 100 ELSE -((-d) \div 100)
Strtol(s) == IF s.form = "dec" THEN Trunc(s.n) ELSE s.n
Strtod(s) == CASE s.form = "dec" -> s.n [] s.form = "exp" -> 100 * s.n * 10 ^ s.e [] OTHER -> 100 * s.n

(* printf("%f"): the nearest tenth, and of two the even one.               *)
PrintF(d) ==
    LET tenth == d \div 10
        up == d % 10 > 5 \/ (d % 10 = 5 /\ tenth % 2 = 1)
    IN  Dec(10 * (IF up THEN tenth + 1 ELSE tenth))

Token(type, str) == [type |-> type, str |-> str]
Symbol(c) == Token("SYMBOL", Text(c))
Name(s) == Token("ALNUM", Text(s))
Failed == <<[name |-> Text("no collection"), configs |-> <<>>]>>

-----------------------------------------------------------------------------
(* Setting a value.                                                        *)

SetD(config, d) == [config EXCEPT !.type = "D", !.d = d, !.i32 = Trunc(d), !.str = Dec(d)]
SetI32(config, i) == [config EXCEPT !.type = "I32", !.d = 100 * i, !.i32 = i, !.str = Dec(100 * i)]
SetS(config, s) == [config EXCEPT !.type = "STR", !.d = Strtod(s), !.i32 = Strtol(s), !.str = s]

NewConfig(name) == [name |-> name, type |-> "D", d |-> 0, i32 |-> 0, str |-> Text("")]
NewSection(name) == [name |-> name, configs |-> <<>>]
Named(list, name) == {i \in DOMAIN list : list[i].name = name}

(* config_collection_get_section(), config_section_get*(): what is there,  *)
(* of whatever type, else a new one with the default.                      *)
GetSection(coll, name) ==
    IF Named(coll, name) # {} THEN coll ELSE Append(coll, NewSection(name))

GetConfig(section, default) ==
    IF Named(section.configs, default.name) # {} THEN section
    ELSE [section EXCEPT !.configs = Append(@, default)]

(* A client that gets a value with a default and then sets it.             *)
Update(coll, sname, cname, Default(_), Set(_)) ==
    LET got == GetSection(coll, sname)
        s == CHOOSE i \in Named(got, sname) : TRUE
        section == GetConfig(got[s], Default(NewConfig(cname)))
        c == CHOOSE i \in Named(section.configs, cname) : TRUE
    IN  [got EXCEPT ![s] = [section EXCEPT !.configs[c] = Set(@)]]

-----------------------------------------------------------------------------
(* load(): from token i on.  Brackets and '=' are told by the first        *)
(* character of whatever token is there.                                   *)

LastNamed(coll, name) == Named(Last(coll).configs, name)

Valued(name, token) ==
    LET config == SetS(NewConfig(name), token.str)
    IN  IF token.type = "NUMBER" THEN [config EXCEPT !.type = "D"] ELSE config

(* A token that is there and is no lexer error.                            *)
Has(tokens, i) == i <= Len(tokens) /\ tokens[i].type # "ERROR"

LoadsSection(tokens, i, coll) ==
    /\ Has(tokens, i + 1) /\ tokens[i + 1].type = "ALNUM"
    /\ Named(coll, tokens[i + 1].str) = {}
    /\ Has(tokens, i + 2) /\ tokens[i + 2].str.first = "]"

SeededLoadsConfig(tokens, i, coll) ==   (* seeded fault: no look at the names *)
    /\ tokens[i].type = "ALNUM" /\ coll # <<>>
    /\ Has(tokens, i + 1) /\ tokens[i + 1].str.first = "="
    /\ Has(tokens, i + 2)

LoadsConfig(tokens, i, coll) ==
    /\ tokens[i].type = "ALNUM" /\ coll # <<>>
    /\ LastNamed(coll, tokens[i].str) = {}
    /\ Has(tokens, i + 1) /\ tokens[i + 1].str.first = "="
    /\ Has(tokens, i + 2)

RECURSIVE LoadFrom(_, _, _)
LoadFrom(tokens, i, coll) ==
    CASE i > Len(tokens) -> coll
      [] ~Has(tokens, i) /\ i <= Len(tokens) -> Failed
      [] Has(tokens, i) /\ tokens[i].str.first = "[" ->
            IF ~LoadsSection(tokens, i, coll) THEN Failed
            ELSE LoadFrom(tokens, i + 3, Append(coll, NewSection(tokens[i + 1].str)))
      [] Has(tokens, i) /\ tokens[i].str.first # "[" ->
            IF ~LoadsConfig(tokens, i, coll) THEN Failed
            ELSE LoadFrom(tokens, i + 3, [coll EXCEPT ![Len(coll)].configs =
                            Append(@, Valued(tokens[i].str, tokens[i + 2]))])

Load(tokens) == LoadFrom(tokens, 1, <<>>)

-----------------------------------------------------------------------------
(* config_collection_write(), after the comment with the time.             *)

WrittenValue(config) ==
    CASE config.type = "D" -> Token("NUMBER", PrintF(config.d))
      [] config.type = "I32" -> Token("NUMBER", Dec(100 * config.i32))
      [] config.type = "STR" -> Token("LITERAL", config.str)

WrittenSection(section) ==
    <<Symbol("["), Token("ALNUM", section.name), Symbol("]")>>
    \o FlattenSeq([i \in DOMAIN section.configs |->
        <<Token("ALNUM", section.configs[i].name), Symbol("="), WrittenValue(section.configs[i])>>])

Write(coll) == FlattenSeq([i \in DOMAIN coll |-> WrittenSection(coll[i])])

-----------------------------------------------------------------------------
(* Reference: a file is a sequence of triples, "[ name ]" and "name =      *)
(* value", the first being a section; a section comes once and a name once *)
(* in a section.                                                           *)

Triple(tokens, i) == SubSeq(tokens, 3 * i - 2, 3 * i)
IsSection(t) == t[1].str.first = "[" /\ t[2].type = "ALNUM" /\ t[3].str.first = "]"
IsConfig(t) == t[1].type = "ALNUM" /\ t[2].str.first = "="
Count(tokens) == Len(tokens) \div 3
Sections(tokens, i) == {s \in 1 .. i : IsSection(Triple(tokens, s))}

WellFormed(tokens) ==
    /\ Len(tokens) % 3 = 0
    /\ \A i \in DOMAIN tokens : tokens[i].type # "ERROR"
    /\ tokens # <<>> => IsSection(Triple(tokens, 1))
    /\ \A i \in 1 .. Count(tokens) :
        LET t == Triple(tokens, i) IN
        \/ IsSection(t) /\ \A j \in 1 .. i - 1 :
                IsSection(Triple(tokens, j)) => Triple(tokens, j)[2].str # t[2].str
        \/ IsConfig(t) /\ \A j \in 1 .. i - 1 :
                Sections(tokens, j) = Sections(tokens, i) /\ IsConfig(Triple(tokens, j))
                => Triple(tokens, j)[1].str # t[1].str

(* What a value is after it was written and loaded: a string is what it    *)
(* was; a number, integers included, is a double no further from the old   *)
(* one than %f rounds, with the integer part of that for its integer.      *)
Survives(before, after) ==
    IF before.type = "STR" THEN after = before
    ELSE /\ after.name = before.name
         /\ after.type = "D" /\ after.str = Dec(after.d)
         /\ after.d \in before.d - 5 .. before.d + 5
         /\ before.d % 10 = 0 => after.d = before.d
         /\ after.i32 = Trunc(after.d)

(* Sections and values keep their names and their order.                   *)
SameValues(before, after) ==
    /\ Len(after) = Len(before)
    /\ \A s \in DOMAIN before :
        /\ after[s].name = before[s].name
        /\ Len(after[s].configs) = Len(before[s].configs)
        /\ \A c \in DOMAIN before[s].configs : Survives(before[s].configs[c], after[s].configs[c])
=============================================================================
