------------------------------- MODULE Strings -------------------------------
(***************************************************************************)
(* hutils/src/string.c and getopt.c.  A string is a sequence of characters, *)
(* which are numbers, without the NUL at its end; Nul is what reading that *)
(* gives.  A NULL pointer is Null, which is no string.                     *)
(***************************************************************************)
EXTENDS Integers, Sequences, SequencesExt

Nul == 0
Null == <<-1>>
At(s, i) == IF i < Len(s) THEN s[i + 1] ELSE Nul        (* s[i] in C       *)

Sign(n) == CASE n < 0 -> -1 [] n = 0 -> 0 [] n > 0 -> 1

-----------------------------------------------------------------------------
(* strbcmp(), strecmp(): the sign of what they return.                     *)

RECURSIVE BeginCmp(_, _)
BeginCmp(big, pattern) ==
    CASE pattern = <<>> -> 0
      [] pattern # <<>> /\ big = <<>> -> -1
      [] pattern # <<>> /\ big # <<>> /\ Head(big) # Head(pattern) -> Sign(Head(big) - Head(pattern))
      [] OTHER -> BeginCmp(Tail(big), Tail(pattern))

RECURSIVE StrCmp(_, _)
StrCmp(s, t) ==
    IF s = t THEN 0
    ELSE IF At(s, 0) = At(t, 0) THEN StrCmp(Tail(s), Tail(t)) ELSE Sign(At(s, 0) - At(t, 0))

EndCmp(big, pattern) ==
    IF Len(big) < Len(pattern) THEN -1
    ELSE StrCmp(SubSeq(big, Len(big) - Len(pattern) + 1, Len(big)), pattern)

(* strtkn(): the token and what the string pointer is left at.             *)
RECURSIVE Span(_, _, _)
Span(s, C, i) == IF i < Len(s) /\ s[i + 1] \in C THEN Span(s, C, i + 1) ELSE i

SeededTkn(s, delim) ==      (* seeded fault: leading delimiters not skipped *)
    LET end == Span(s, {s[i] : i \in DOMAIN s} \ delim, 0)
    IN  [token |-> SubSeq(s, 1, end),
         rest |-> IF end = Len(s) THEN Null ELSE SubSeq(s, end + 2, Len(s))]

Tkn(s, delim) ==
    LET ofs == Span(s, delim, 0)
        end == Span(s, {s[i] : i \in DOMAIN s} \ delim, ofs)
    IN  IF s = Null \/ ofs = Len(s) THEN [token |-> Null, rest |-> Null]
        ELSE [token |-> SubSeq(s, ofs + 1, end),
              rest |-> IF end = Len(s) THEN Null ELSE SubSeq(s, end + 2, Len(s))]

RECURSIVE Tokens(_, _)
Tokens(s, delim) ==
    IF s = Null \/ Tkn(s, delim).token = Null THEN <<>>
    ELSE <<Tkn(s, delim).token>> \o Tokens(Tkn(s, delim).rest, delim)

(* strctv_(): the length it asks realloc() for, and what it copies there.  *)
NullText == <<78, 85, 76, 76>>
TextOf(from) == IF from = Null THEN NullText ELSE from
CtvLen(dst, parts) ==
    FoldLeft(LAMBDA len, from : len + Len(TextOf(from)), IF dst = Null THEN 0 ELSE Len(dst), parts)
Ctv(dst, parts) ==
    FoldLeft(LAMBDA to, from : to \o TextOf(from), IF dst = Null THEN <<>> ELSE dst, parts)

-----------------------------------------------------------------------------
(* getopt(): argv as a sequence from argv[1] on, options without and with  *)
(* a value; optsubind is -1 when its word is used up.                      *)

Dash == 45
Question == 63                          (* '?'                             *)
DashDash == <<Dash, Dash>>

Getopt(argv) == [argv |-> argv, optind |-> 1, optsubind |-> 1]

(* What one call returns, with the value, and what it leaves behind.       *)
Result(g, ret, arg) == [ret |-> ret, optarg |-> arg, next |-> g]

WithValue(g, c) ==
    LET word == g.argv[g.optind] IN
    CASE At(word, g.optsubind + 1) # Nul ->
            Result([g EXCEPT !.optsubind = -1], c, SubSeq(word, g.optsubind + 2, Len(word)))
      [] At(word, g.optsubind + 1) = Nul /\ g.optind = Len(g.argv) ->
            Result([g EXCEPT !.optind = @ + 1, !.optsubind = 1], Question, Null)
      [] OTHER ->
            Result([g EXCEPT !.optind = @ + 1, !.optsubind = -1], c, g.argv[g.optind + 1])

WithoutValue(g, c) ==
    Result([g EXCEPT !.optsubind = IF At(g.argv[g.optind], @ + 1) = Nul THEN -1 ELSE @ + 1], c, Null)

RECURSIVE GetoptCall(_, _, _)
GetoptCall(got, plain, valued) ==
    LET g == IF got.optsubind = -1 THEN [got EXCEPT !.optind = @ + 1, !.optsubind = 1] ELSE got
        word == g.argv[g.optind]
        c == At(word, g.optsubind)
    IN  IF g.optind > Len(g.argv) \/ word = DashDash
        THEN Result([g EXCEPT !.optsubind = 1], -1, Null)
        ELSE IF At(word, 0) # Dash \/ c = Nul
        THEN GetoptCall([g EXCEPT !.optind = @ + 1, !.optsubind = 1], plain, valued)
        ELSE CASE c \in plain -> WithoutValue(g, c)
               [] c \in valued -> WithValue(g, c)
               [] OTHER -> Result([g EXCEPT !.optsubind = 1], Question, Null)

(* A client's loop, which stops at the first '?' or -1.                    *)
RECURSIVE Options(_, _, _)
Options(g, plain, valued) ==
    LET call == GetoptCall(g, plain, valued)
    IN  CASE call.ret = -1 -> <<>>
          [] call.ret = Question -> <<<<Question, Null>>>>
          [] OTHER -> <<<<call.ret, call.optarg>>>> \o Options(call.next, plain, valued)

-----------------------------------------------------------------------------
(* References.                                                             *)

IsTokens(s, delim, tokens) ==
    LET starts == {i \in DOMAIN s : s[i] \notin delim /\ (i = 1 \/ s[i - 1] \in delim)}
        End(i) == CHOOSE j \in i .. Len(s) :
                    /\ \A k \in i .. j : s[k] \notin delim
                    /\ j = Len(s) \/ s[j + 1] \in delim
    IN  tokens = [n \in DOMAIN SetToSortSeq(starts, <) |->
                    LET i == SetToSortSeq(starts, <)[n] IN SubSeq(s, i, End(i))]

(* The options of the words, word by word.                                 *)
RECURSIVE Parsed(_, _, _)
Parsed(words, plain, valued) ==
    LET letters == Tail(words[1])
        rest == Tail(words)
        n == Span(letters, plain, 0)
        last == At(letters, n)
        before == [i \in 1 .. n |-> <<letters[i], Null>>]
    IN  CASE words = <<>> -> <<>>
          [] words # <<>> /\ words[1] = DashDash -> <<>>
          [] words # <<>> /\ At(words[1], 0) # Dash -> Parsed(Tail(words), plain, valued)
          [] OTHER ->
                before \o
                CASE last = Nul -> Parsed(rest, plain, valued)
                  [] last \in valued /\ n + 1 < Len(letters) ->
                        <<<<last, SubSeq(letters, n + 2, Len(letters))>>>> \o Parsed(rest, plain, valued)
                  [] last \in valued /\ n + 1 = Len(letters) /\ rest # <<>> ->
                        <<<<last, rest[1]>>>> \o Parsed(Tail(rest), plain, valued)
                  [] OTHER -> <<<<Question, Null>>>>
=============================================================================
