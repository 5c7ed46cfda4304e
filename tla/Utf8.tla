-------------------------------- MODULE Utf8 --------------------------------
(***************************************************************************)
(* hutils/src/utf8.c: texts of bytes turned into valid UTF-8, with a       *)
(* replacement for every byte that starts no valid code.  A text is a      *)
(* sequence of bytes.                                                      *)
(***************************************************************************)
EXTENDS Bench, Integers, Sequences, SequencesExt

(* What the masks of the code test and keep.                               *)
IsCont(byte) == byte \in 128 .. 191
Bits6(byte) == byte % 64
Replacement == <<239, 191, 189>>        (* 0xef 0xbf 0xbd                  *)
NoCode == [code |-> -1, bytes |-> 0]

Conts(str, i, n) == i + n <= Len(str) /\ \A k \in i + 1 .. i + n : IsCont(str[k])

Surrogate(code) == 55296 <= code /\ code <= 57343

SeededThree(str, i) ==      (* seeded fault: surrogates are codes          *)
    LET code == (str[i] % 16) * 4096 + Bits6(str[i + 1]) * 64 + Bits6(str[i + 2])
    IN  IF str[i] % 16 = 0 /\ str[i + 1] \in 128 .. 159 THEN NoCode
        ELSE [code |-> code, bytes |-> 3]

Three(str, i) ==
    LET code == (str[i] % 16) * 4096 + Bits6(str[i + 1]) * 64 + Bits6(str[i + 2])
    IN  IF (str[i] % 16 = 0 /\ str[i + 1] \in 128 .. 159) \/ Surrogate(code) THEN NoCode
        ELSE [code |-> code, bytes |-> 3]

(* get_code() at place i of str.                                           *)
GetCode(str, i) ==
    LET lead == str[i] IN
    CASE lead < 128 -> [code |-> lead, bytes |-> 1]
      [] lead \in 194 .. 223 /\ Conts(str, i, 1) ->
            [code |-> (lead % 32) * 64 + Bits6(str[i + 1]), bytes |-> 2]
      [] lead \in 224 .. 239 /\ Conts(str, i, 2) -> Three(str, i)
      [] lead \in 240 .. 247 /\ Conts(str, i, 3)
            /\ ~(lead = 240 /\ str[i + 1] \in 128 .. 143) ->
            [code |-> (lead % 8) * 262144 + Bits6(str[i + 1]) * 4096
                        + Bits6(str[i + 2]) * 64 + Bits6(str[i + 3]), bytes |-> 4]
      [] OTHER -> NoCode

(* utf8_create(): the first loop counts, the second copies.                *)
Step(c) == IF c = NoCode THEN 1 ELSE c.bytes

Counted(str) ==
    LET counted[i \in 1 .. Len(str) + 1] ==
            IF i > Len(str) THEN [length |-> 0, bytes |-> 0]
            ELSE LET c == GetCode(str, i)
                     rest == counted[i + Step(c)]
                 IN  [length |-> 1 + rest.length,
                      bytes |-> (IF c = NoCode THEN 3 ELSE c.bytes) + rest.bytes]
    IN  counted[1]

Copied(str) ==
    LET copied[i \in 1 .. Len(str) + 1] ==
            IF i > Len(str) THEN [data |-> <<>>, replacement_num |-> 0]
            ELSE LET c == GetCode(str, i)
                     rest == copied[i + Step(c)]
                 IN  IF c = NoCode
                     THEN [data |-> Replacement \o rest.data, replacement_num |-> 1 + rest.replacement_num]
                     ELSE [rest EXCEPT !.data = SubSeq(str, i, i + c.bytes - 1) \o @]
    IN  copied[1]

Create(str) ==
    LET counted == Counted(str)
        copied == Copied(str)
    IN  [length |-> counted.length, bytes |-> counted.bytes,
         data |-> copied.data, replacement_num |-> copied.replacement_num]

Concat(l, r) ==
    [length |-> l.length + r.length, bytes |-> l.bytes + r.bytes, data |-> l.data \o r.data,
     replacement_num |-> l.replacement_num + r.replacement_num]

(* utf8_get() from the first place to the end.                             *)
Codes(utf8) ==
    LET codes[i \in 1 .. utf8.bytes + 1] ==
            IF i > utf8.bytes THEN <<>>
            ELSE LET c == GetCode(utf8.data, i) IN <<c.code>> \o codes[i + Step(c)]
    IN  codes[1]

(* A client makes a text, puts another one behind it, and reads what it    *)
(* has got.                                                                *)
Decode(in) ==
    LET left == Create(in.left)
        both == Concat(left, Create(in.right))
    IN  [left |-> left, both |-> both, again |-> Create(both.data)]

-----------------------------------------------------------------------------
(* Reference: the shortest encoding of a code below 2^21 that is no        *)
(* surrogate.  (Codes above 0x10ffff are taken, too.)                      *)

IsCode(code) == code \in Nat /\ code < 2097152 /\ ~Surrogate(code)
Encode(code) ==
    CASE code < 128 -> <<code>>
      [] 128 <= code /\ code < 2048 -> <<192 + code \div 64, 128 + (code % 64)>>
      [] 2048 <= code /\ code < 65536 ->
            <<224 + code \div 4096, 128 + ((code \div 64) % 64), 128 + (code % 64)>>
      [] OTHER -> <<240 + code \div 262144, 128 + ((code \div 4096) % 64),
                    128 + ((code \div 64) % 64), 128 + (code % 64)>>

Encodes(utf8) ==
    LET codes == Codes(utf8) IN
    /\ \A k \in DOMAIN codes : IsCode(codes[k])
    /\ utf8.data = FlattenSeq([k \in DOMAIN codes |-> Encode(codes[k])])
    /\ utf8.length = Len(codes) /\ utf8.bytes = Len(utf8.data)

(* Property: whatever bytes come in, what is made of them is UTF-8 of the  *)
(* shortest form, without surrogates, of the length it says; valid text is *)
(* not touched.                                                            *)
TextsAreUtf8 ==
    call = "utf8" /\ done =>
        /\ Encodes(output.left) /\ Encodes(output.both)
        /\ output.again = [output.both EXCEPT !.replacement_num = 0]
        /\ (output.left.replacement_num = 0) = (output.left.data = input.left)

-----------------------------------------------------------------------------
(* A call with any two texts of bytes.                                     *)
Byte == 0 .. 255

Decodes == Calls("utf8") /\ output' = Decode(input)

TextSpec ==
    /\ Starts("utf8", [left : Seq(Byte), right : Seq(Byte)])
    /\ [][Decodes]_benchVars
=============================================================================
