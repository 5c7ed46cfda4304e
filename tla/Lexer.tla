------------------------------- MODULE Lexer -------------------------------
(***************************************************************************)
(* hutils/src/lexer.c as functions of a lexer record: what each call       *)
(* returns and leaves behind.  A character is a string of length one, a    *)
(* text a sequence of them.  The callback hands out as much of the text as *)
(* is asked for (lexer_cstr_callback(), stdio_fread()).  Texts have no     *)
(* bytes 0xfe and 0xff, which peek_char() cannot tell from its codes, and  *)
(* no token that fills the whole ring.                                     *)
(***************************************************************************)
EXTENDS Integers, Sequences, SequencesExt

CONSTANT Ring       (* bound: the size of buf, 256 in the code             *)

Eof == "EOF"
Overflow == "OVERFLOW"
Newline == "\n"
Blank == {" ", "\t"}
Digit == {"0", "1"}
Hex == Digit \cup {"a", "e"}
Alpha == {"a", "e", "x", "_"}
Alnum == Alpha \cup Digit
Char == Alnum \cup Blank \cup {Newline, "\"", "#", "-", "+", ".", "=", "[", "]"}

Create(text) ==
    [rest |-> text, buf |-> [i \in 0 .. Ring - 1 |-> "?"], ofs |-> 0, end |-> 0,
     ended |-> FALSE, line |-> 1, col |-> 1]

-----------------------------------------------------------------------------
(* peek_char(): the lexer after it and the character it returns.           *)

Fill(lx) ==
    LET len == Ring - (lx.end - lx.ofs)
        ret == IF Len(lx.rest) < len THEN Len(lx.rest) ELSE len
    IN  [lx EXCEPT !.rest = SubSeq(@, ret + 1, Len(@)), !.end = @ + ret,
            !.ended = ret > 0 /\ ret < len,
            !.buf = [i \in DOMAIN @ |->
                        LET nth == (i - (lx.end % Ring) + Ring) % Ring
                        IN  IF ret = 0 \/ nth >= len THEN @[i]
                            ELSE IF nth < ret THEN lx.rest[nth + 1] ELSE "?"]]

SeededFilled(lx, k) ==      (* seeded fault: it fills up one byte too late *)
    IF k < Ring /\ lx.ofs + k > lx.end /\ ~lx.ended THEN Fill(lx) ELSE lx

Filled(lx, k) == IF k < Ring /\ lx.ofs + k >= lx.end /\ ~lx.ended THEN Fill(lx) ELSE lx

Peek(lx, k) ==
    IF k >= Ring THEN Overflow
    ELSE LET f == Filled(lx, k)
         IN  IF lx.ofs + k >= f.end THEN Eof ELSE f.buf[(lx.ofs + k) % Ring]

(* The first place from k on whose character is not in C, at most Ring,    *)
(* and the lexer that has looked at it.                                    *)
RECURSIVE Scan(_, _, _)
Scan(lx, k, C) ==
    IF k < Ring /\ Peek(lx, k) \in C THEN Scan(Filled(lx, k), k + 1, C)
    ELSE [lexer |-> Filled(lx, k), len |-> k]

-----------------------------------------------------------------------------
(* Moving on.                                                              *)

Skip1(lx) == [lx EXCEPT !.ofs = @ + 1, !.col = @ + 1]

RECURSIVE Extract(_, _, _)
Extract(lx, n, str) ==
    LET c == Peek(lx, 0) IN
    IF n = 0 \/ c = Eof THEN [lexer |-> lx, str |-> str]
    ELSE Extract([Filled(lx, 0) EXCEPT !.ofs = @ + 1,
                    !.line = IF c = Newline THEN @ + 1 ELSE @,
                    !.col = IF c = Newline THEN 1 ELSE @ + 1], n - 1, Append(str, c))

(* lexer_skip(): to just behind the next a, or the end.                    *)
RECURSIVE SkipTo(_, _)
SkipTo(lx, a) ==
    LET c == Peek(lx, 0) IN
    IF c = Eof THEN Filled(lx, 0)
    ELSE LET next == Extract(lx, 1, <<>>).lexer IN IF c = a THEN next ELSE SkipTo(next, a)

(* Blanks, then a comment up to the end of its line.                       *)
RECURSIVE SkipComment(_)
SkipComment(lx) ==
    IF Peek(lx, 0) \in {Newline, Eof} THEN Filled(lx, 0) ELSE SkipComment(Skip1(Filled(lx, 0)))

RECURSIVE SkipBlanks(_)
SkipBlanks(lx) ==
    IF Peek(lx, 0) \in Blank THEN SkipBlanks(Skip1(Filled(lx, 0)))
    ELSE IF Peek(lx, 0) = "#" THEN SkipComment(Skip1(Filled(lx, 0)))
    ELSE Filled(lx, 0)

-----------------------------------------------------------------------------
(* lexer_token_get(): the lexer after it, the type and the characters.     *)

Token(lx, type, n) ==
    LET e == Extract(lx, n, <<>>) IN [lexer |-> e.lexer, type |-> type, str |-> e.str]
NoToken(lx, type) == [lexer |-> lx, type |-> type, str |-> <<>>]

Literal(lx) ==
    LET s == Scan(Skip1(lx), 0, Char \ {"\""})
        t == Token(s.lexer, "LITERAL", s.len)
    IN  IF Peek(s.lexer, s.len) = Eof THEN NoToken(s.lexer, "UNTERMINATED_LITERAL")
        ELSE [t EXCEPT !.lexer = Skip1(@)]

HexNumber(lx) ==
    LET s == Scan(lx, 3, Hex) IN
    IF Peek(lx, 2) \notin Hex
    THEN NoToken([Filled(lx, 2) EXCEPT !.ofs = @ + 2, !.col = @ + 2], "INVALID_HEX")
    ELSE Token(s.lexer, "HEX", s.len)

(* The exponent is taken only if it has a digit.                           *)
Exponent(s) ==
    LET sign == IF Peek(s.lexer, s.len + 1) \in {"-", "+"} THEN 2 ELSE 1
        e == Scan(s.lexer, s.len + sign, Digit)
    IN  IF Peek(s.lexer, s.len) = "e" /\ e.len > s.len + sign THEN e ELSE s

Scanned(s, type) == Token(s.lexer, type, s.len)

(* From the end of the leading digits s, behind the sign, and from behind  *)
(* the point if there is one.                                              *)
NumberFrom(s, sign, point) ==
    LET f == Scan(s.lexer, point, Digit)
    IN  IF s.len > sign \/ f.len > point THEN Scanned(Exponent(f), "NUMBER")
        ELSE Token(f.lexer, "SYMBOL", 1)

NumberOrSymbol(lx, sign) ==
    LET s == Scan(lx, sign, Digit)
    IN  NumberFrom(s, sign, IF Peek(s.lexer, s.len) = "." THEN s.len + 1 ELSE s.len)

RECURSIVE TokenGet(_), TokenAt(_, _)
TokenAt(lx, c) ==
    CASE c = Eof -> NoToken(lx, "EOF")
      [] c = Newline -> TokenGet(Extract(lx, 1, <<>>).lexer)
      [] c \in Alpha -> Scanned(Scan(lx, 1, Alnum), "ALNUM")
      [] c = "\"" -> Literal(lx)
      [] c = "0" /\ Peek(lx, 1) = "x" -> HexNumber(lx)
      [] OTHER -> NumberOrSymbol(lx, IF c \in {"-", "+"} THEN 1 ELSE 0)

TokenGet(lexer) == LET lx == SkipBlanks(lexer) IN TokenAt(lx, Peek(lx, 0))

(* All tokens of a lexer, with the position after each.                    *)
RECURSIVE TokensFrom(_)
TokensFrom(t) ==
    LET token == <<t.type, t.str, t.lexer.line, t.lexer.col>>
    IN  IF t.type \in {"EOF", "UNTERMINATED_LITERAL"} THEN <<token>>
        ELSE <<token>> \o TokensFrom(TokenGet(t.lexer))

TokensOf(lx) == TokensFrom(TokenGet(lx))

-----------------------------------------------------------------------------
(* Reference: the tokens of a text taken as a whole, longest first.        *)

AllIn(t, C) == \A i \in DOMAIN t : t[i] \in C
Digits(t) == AllIn(t, Digit)
Splits(t) == {<<SubSeq(t, 1, n), SubSeq(t, n + 1, Len(t))>> : n \in 0 .. Len(t)}
Unsigned(t) == IF t # <<>> /\ t[1] \in {"-", "+"} THEN Tail(t) ELSE t

IsFixed(t) ==
    /\ \E i \in DOMAIN t : t[i] \in Digit
    /\ \E s \in Splits(t) : Digits(s[1]) /\ Digits(IF s[2] # <<>> /\ s[2][1] = "." THEN Tail(s[2]) ELSE s[2])
IsExponent(t) ==
    t # <<>> /\ t[1] = "e" /\ Unsigned(Tail(t)) # <<>> /\ Digits(Unsigned(Tail(t)))
IsNumber(t) == \E s \in Splits(Unsigned(t)) : IsFixed(s[1]) /\ (s[2] = <<>> \/ IsExponent(s[2]))

IsToken(t) ==
    \/ Len(t) = 1
    \/ t[1] \in Alpha /\ AllIn(t, Alnum)
    \/ t[1] = "\"" /\ Last(t) = "\"" /\ \A i \in 2 .. Len(t) - 1 : t[i] # "\""
    \/ Len(t) > 2 /\ t[1] = "0" /\ t[2] = "x" /\ AllIn(SubSeq(t, 3, Len(t)), Hex)
    \/ IsNumber(t)

TypeOf(t) ==
    CASE t[1] \in Alpha -> "ALNUM"
      [] t[1] = "\"" -> "LITERAL"
      [] Len(t) > 1 /\ t[2] = "x" -> "HEX"
      [] IsNumber(t) -> "NUMBER"
      [] OTHER -> "SYMBOL"

(* The position after n characters of a text.                              *)
LineAt(text, n) == 1 + Len(SelectSeq(SubSeq(text, 1, n), LAMBDA c : c = Newline))
ColAt(text, n) ==
    LET lines == {i \in 1 .. n : text[i] = Newline}
    IN  IF lines = {} THEN n + 1 ELSE 1 + n - (CHOOSE i \in lines : \A j \in lines : j <= i)

RECURSIVE Reference(_, _)
Reference(text, n) ==
    LET left == SubSeq(text, n + 1, Len(text))
        len == CHOOSE k \in 1 .. Len(left) : IsToken(SubSeq(left, 1, k))
                    /\ \A m \in k + 1 .. Len(left) : ~IsToken(SubSeq(left, 1, m))
        t == SubSeq(left, 1, len)
        At(type, str, k) == <<type, str, LineAt(text, k), ColAt(text, k)>>
        eol == CHOOSE k \in n + 1 .. Len(text) + 1 :
                    /\ k > Len(text) \/ text[k] = Newline
                    /\ \A m \in n + 1 .. k - 1 : text[m] # Newline
    IN  CASE left = <<>> -> <<At("EOF", <<>>, n)>>
          [] left[1] \in Blank \cup {Newline} -> Reference(text, n + 1)
          [] left[1] = "#" -> Reference(text, eol - 1)
          [] t = <<"\"">> -> <<At("UNTERMINATED_LITERAL", <<>>, n + 1)>>
          [] t = <<"0">> /\ Len(left) > 1 /\ left[2] = "x" ->
                <<At("INVALID_HEX", <<>>, n + 2)>> \o Reference(text, n + 2)
          [] OTHER ->
                <<At(TypeOf(t), IF t[1] = "\"" THEN SubSeq(t, 2, len - 1) ELSE t, n + len)>>
                    \o Reference(text, n + len)

(* No token fills the ring.                                                *)
Fits(text) ==
    /\ \A i \in DOMAIN Reference(text, 0) : Len(Reference(text, 0)[i][2]) < Ring
    /\ \A i \in 1 .. Len(text) - Ring : text[i] = "\"" => \E j \in i + 1 .. i + Ring : text[j] = "\""
=============================================================================
