-------------------------------- MODULE Bits --------------------------------
(***************************************************************************)
(* hutils/src/bitpack.c and bitmask.c.  A word of 32 bits is a sequence of *)
(* booleans, its lowest bit first: w >> n drops n of them.  hutils_errx()  *)
(* ends the program: nothing is called on a packer or mask that died.      *)
(***************************************************************************)
EXTENDS Bench, Integers, Sequences

Word == 1 .. 32
Bits32 == [Word -> BOOLEAN]

(* Two's complement: \div rounds down.                                     *)
Bits(n) ==
    LET half[k \in 0 .. 31] == IF k = 0 THEN n ELSE half[k - 1] \div 2
    IN  [k \in Word |-> half[k - 1] % 2 = 1]
Shl(w, n) == [k \in Word |-> k > n /\ w[k - n]]
Shr(w, n) == [k \in Word |-> k + n <= 32 /\ w[k + n]]
Or(v, w) == [k \in Word |-> v[k] \/ w[k]]
Low(w, n) == [k \in Word |-> k <= n /\ w[k]]
Zero == Bits(0)

(* The number in the n lowest bits; 1 << n.                                *)
ValueOf(w, n) ==
    LET value[k \in 0 .. n] ==
            IF k = 0 THEN 0 ELSE 2 * value[k - 1] + (IF w[n + 1 - k] THEN 1 ELSE 0)
    IN  value[n]
Pow2[n \in 0 .. 31] == IF n = 0 THEN 1 ELSE 2 * Pow2[n - 1]

-----------------------------------------------------------------------------
(* struct BitPacker: buf[ofs][k] is bit k of byte ofs.                     *)

Packer(bytes, dirt) ==
    [size |-> bytes, buf |-> [ofs \in 0 .. bytes - 1 |-> [k \in 0 .. 7 |-> dirt]],
     bit_i |-> 0, died |-> FALSE]

Overflows(packer, bits) == packer.bit_i + bits > 8 * packer.size
Avail(packer, bits) == IF bits < 8 - (packer.bit_i % 8) THEN bits ELSE 8 - (packer.bit_i % 8)

Skip(packer, bits) == [packer EXCEPT !.bit_i = @ + bits]

(* One turn of the loop of bitpack_uint32(): avail bits into one byte, and *)
(* zeros above them in a byte that was not begun.                          *)
SeededPackedByte(byte, shift, w, avail) ==     (* seeded fault: dirt stays in *)
    [k \in 0 .. 7 |-> byte[k] \/ (k \in shift .. shift + avail - 1 /\ w[k - shift + 1])]

PackedByte(byte, shift, w, avail) ==
    [k \in 0 .. 7 |->
        \/ shift # 0 /\ byte[k]
        \/ k \in shift .. shift + avail - 1 /\ w[k - shift + 1]]

PackByte(packer, w, avail) ==
    Skip([packer EXCEPT !.buf[packer.bit_i \div 8] = PackedByte(@, packer.bit_i % 8, w, avail)], avail)

(* The loop: every turn packs a bit at least.                              *)
PackTurn(before) ==
    LET avail == Avail(before.packer, before.bits)
    IN  [packer |-> PackByte(before.packer, before.w, avail), w |-> Shr(before.w, avail),
         bits |-> before.bits - avail]

PackBytes(packer, w, bits) ==
    LET turn[n \in 0 .. bits] ==
            IF n = 0 THEN [packer |-> packer, w |-> w, bits |-> bits]
            ELSE LET before == turn[n - 1] IN IF before.bits = 0 THEN before ELSE PackTurn(before)
    IN  turn[bits].packer

PackUint32(packer, w, bits) ==
    IF packer.died \/ Overflows(packer, bits) THEN [packer EXCEPT !.died = TRUE]
    ELSE PackBytes(packer, w, bits)

(* bitunpack_uint32(): the packer after it and the word.                   *)
UnpackedByte(packer, avail) ==
    [k \in Word |-> k <= avail /\ packer.buf[packer.bit_i \div 8][k - 1 + (packer.bit_i % 8)]]

UnpackTurn(before) ==
    LET avail == Avail(before.packer, before.bits)
    IN  [packer |-> Skip(before.packer, avail),
         value |-> Or(before.value, Shl(UnpackedByte(before.packer, avail), before.i)),
         i |-> before.i + avail, bits |-> before.bits - avail]

UnpackBytes(packer, bits) ==
    LET turn[n \in 0 .. bits] ==
            IF n = 0 THEN [packer |-> packer, value |-> Zero, i |-> 0, bits |-> bits]
            ELSE LET before == turn[n - 1] IN IF before.bits = 0 THEN before ELSE UnpackTurn(before)
    IN  [packer |-> turn[bits].packer, value |-> turn[bits].value]

UnpackUint32(packer, bits) ==
    IF packer.died \/ Overflows(packer, bits)
    THEN [packer |-> [packer EXCEPT !.died = TRUE], value |-> Zero]
    ELSE UnpackBytes(packer, bits)

-----------------------------------------------------------------------------
(* Strings end with a zero byte; characters are words.                     *)

PackString(packer, s) ==
    LET packed[n \in 0 .. Len(s)] == IF n = 0 THEN packer ELSE PackUint32(packed[n - 1], s[n], 8)
    IN  PackUint32(packed[Len(s)], Zero, 8)

CharTurn(before) ==
    LET c == UnpackUint32(before.packer, 8)
        ends == c.packer.died \/ c.value = Zero
    IN  [packer |-> c.packer, value |-> IF ends THEN before.value ELSE Append(before.value, c.value), ends |-> ends]

UnpackString(packer) ==
    LET turn[n \in 0 .. packer.size + 1] ==
            IF n = 0 THEN [packer |-> packer, value |-> <<>>, ends |-> FALSE]
            ELSE LET before == turn[n - 1] IN IF before.ends THEN before ELSE CharTurn(before)
        last == turn[packer.size + 1]
    IN  [packer |-> last.packer, value |-> last.value]

(* Floats: a sign, the exponent of IEEE 754 with its bias of 127, and the  *)
(* 23 bits of the mantissa.                                                *)
Flt(sign, exponent, mantissa) == [sign |-> sign, exponent |-> exponent, mantissa |-> Low(mantissa, 23)]

FloatWord(flt, ebits, mbits) ==
    LET exponent == flt.exponent - 128 + Pow2[ebits - 1]
        sign == Shl(Bits(IF flt.sign THEN 1 ELSE 0), ebits + mbits)
    IN  Or(sign, Or(Shl(Bits(exponent), mbits), Shr(flt.mantissa, 23 - mbits)))

FloatIn(w, ebits, mbits) ==
    LET exponent == ValueOf(Shr(w, mbits), ebits) - Pow2[ebits - 1] + 128
    IN  Flt(w[1 + ebits + mbits], exponent, Shl(Low(w, mbits), 23 - mbits))

PackFloat(packer, flt, ebits, mbits) ==
    PackUint32(packer, FloatWord(flt, ebits, mbits), 1 + ebits + mbits)

UnpackFloat(packer, ebits, mbits) ==
    LET u == UnpackUint32(packer, 1 + ebits + mbits)
    IN  [packer |-> u.packer, value |-> FloatIn(u.value, ebits, mbits)]

(* The exponent can be stored: not so for 0, infinity and NaN unless       *)
(* ebits is 8.                                                             *)
InRange(flt, ebits) == flt.exponent \in 128 - Pow2[ebits - 1] .. 127 + Pow2[ebits - 1]

-----------------------------------------------------------------------------
(* A client that packs values, rewinds and unpacks them: [kind, value, e,  *)
(* m], with the number of bits of a word in e.                             *)

Width(v) == CASE v.kind = "uint32" -> v.e
              [] v.kind = "string" -> 8 * (Len(v.value) + 1)
              [] v.kind = "float" -> 1 + v.e + v.m

Pack(packer, v) == CASE v.kind = "uint32" -> PackUint32(packer, v.value, v.e)
                     [] v.kind = "string" -> PackString(packer, v.value)
                     [] v.kind = "float" -> PackFloat(packer, v.value, v.e, v.m)

Unpack(packer, v) == CASE v.kind = "uint32" -> UnpackUint32(packer, v.e)
                       [] v.kind = "string" -> UnpackString(packer)
                       [] v.kind = "float" -> UnpackFloat(packer, v.e, v.m)

PackAll(packer, values) ==
    LET packed[n \in 0 .. Len(values)] == IF n = 0 THEN packer ELSE Pack(packed[n - 1], values[n])
    IN  packed[Len(values)]

UnpackNext(before, v) ==
    LET u == Unpack(before.packer, v)
    IN  [packer |-> u.packer, values |-> Append(before.values, u.value)]

UnpackAll(packer, values) ==
    LET unpacked[n \in 0 .. Len(values)] ==
            IF n = 0 THEN [packer |-> [packer EXCEPT !.bit_i = 0], values |-> <<>>]
            ELSE UnpackNext(unpacked[n - 1], values[n])
    IN  unpacked[Len(values)]

PackedAndUnpacked(in) ==
    LET packer == PackAll(Packer(in.size, in.dirt), in.values)
    IN  IF packer.died THEN [packer |-> packer]
        ELSE [packer |-> packer, unpacked |-> UnpackAll(packer, in.values)]

(* Reference: what was packed, cut to the bits it got.                     *)
Cut(v) == CASE v.kind = "uint32" -> Low(v.value, v.e)
            [] v.kind = "string" -> v.value
            [] v.kind = "float" -> [v.value EXCEPT !.mantissa = [k \in Word |-> k > 23 - v.m /\ @[k]]]

TotalWidth(values) ==
    LET width[n \in 0 .. Len(values)] == IF n = 0 THEN 0 ELSE width[n - 1] + Width(values[n])
    IN  width[Len(values)]

-----------------------------------------------------------------------------
(* struct Bitmask: data[i] is a word, its bits counted from 0.             *)

WordNum(bit_num) == (bit_num + 31) \div 32
MaskOf(bit_num, bit) ==
    [bit_num |-> bit_num, data |-> [i \in 0 .. WordNum(bit_num) - 1 |-> [k \in 0 .. 31 |-> bit]],
     died |-> FALSE]

Get(mask, index) == mask.data[index \div 32][index % 32]
Put(mask, index, bit) ==
    IF mask.died \/ mask.bit_num <= index THEN [mask EXCEPT !.died = TRUE]
    ELSE [mask EXCEPT !.data[index \div 32][index % 32] = bit]
Fill(mask, bit) == IF mask.died THEN mask ELSE [MaskOf(mask.bit_num, bit) EXCEPT !.died = FALSE]

(* Pairs <<operation, index>>; a mask starts with bitmask_create().        *)
Masked(mask, op) ==
    CASE op[1] = "set" -> Put(mask, op[2], TRUE)
      [] op[1] = "unset" -> Put(mask, op[2], FALSE)
      [] op[1] = "one" -> Fill(mask, TRUE)
      [] op[1] = "zero" -> Fill(mask, FALSE)

MaskAfter(bit_num, ops) ==
    LET mask[n \in 0 .. Len(ops)] ==
            IF n = 0 THEN MaskOf(bit_num, FALSE) ELSE Masked(mask[n - 1], ops[n])
    IN  mask[Len(ops)]

(* Reference: a bit is what the last operation on it made it.              *)
OnBit(op, index) == op[1] \in {"one", "zero"} \/ op[2] = index
LastOn(ops, index) ==
    \E n \in DOMAIN ops :
        /\ OnBit(ops[n], index) /\ ops[n][1] \in {"set", "one"}
        /\ \A m \in n + 1 .. Len(ops) : ~OnBit(ops[m], index)

-----------------------------------------------------------------------------
(* Property: values of any widths come out as they went in, cut to their   *)
(* bits, whatever was in the buffer; packing stops exactly at its end.  A  *)
(* bit of a mask is what was done to it last.                              *)
BitsComeBack ==
    /\ call = "pack" /\ done =>
        /\ output.packer.died = (TotalWidth(input.values) > 8 * input.size)
        /\ ~output.packer.died =>
            /\ output.unpacked.packer.bit_i = output.packer.bit_i
            /\ \A n \in DOMAIN input.values :
                LET v == input.values[n] IN
                v.kind # "float" \/ InRange(v.value, v.e) => output.unpacked.values[n] = Cut(v)
    /\ call = "mask" /\ done =>
        /\ output.died = \E n \in DOMAIN input.ops : input.ops[n][2] >= input.bit_num
        /\ ~output.died => \A index \in 0 .. input.bit_num - 1 :
                Get(output, index) = LastOn(input.ops, index)

-----------------------------------------------------------------------------
(* Any values of any widths the code allows; any operations on a mask.     *)
Char == {c \in Bits32 : c # Zero /\ \A k \in Word : k > 8 => ~c[k]}
Float == [sign : BOOLEAN, exponent : 0 .. 255,
          mantissa : {w \in Bits32 : \A k \in Word : k > 23 => ~w[k]}]
Value ==
    [kind : {"uint32"}, value : Bits32, e : Word, m : {0}]
    \cup [kind : {"string"}, value : Seq(Char), e : {0}, m : {0}]
    \cup [kind : {"float"}, value : Float, e : 2 .. 8, m : 1 .. 23]
MaskOp == ({"one", "zero"} \X {0}) \cup ({"set", "unset"} \X Nat)

Packs == Calls("pack") /\ output' = PackedAndUnpacked(input)
Masks == Calls("mask") /\ output' = MaskAfter(input.bit_num, input.ops)

BitSpec ==
    /\ \/ Starts("pack", [size : Nat, dirt : BOOLEAN, values : Seq(Value)])
       \/ Starts("mask", [bit_num : Nat \ {0}, ops : Seq(MaskOp)])
    /\ [][Packs \/ Masks]_benchVars
=============================================================================
