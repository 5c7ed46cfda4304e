----------------------------- MODULE Algorithms -----------------------------
(***************************************************************************)
(* The sequential parts of htools on the bench: an initial state is a call *)
(* with an input and its only step computes the output; search trees take  *)
(* call after call.  The sets of inputs and of keys are the bounds.        *)
(***************************************************************************)
EXTENDS Bench, UdpCreate, Utf8, Bits, Integers, Sequences, FiniteSets, SequencesExt

SeqsUpTo(S, n) == UNION {[1 .. k -> S] : k \in 0 .. n}

-----------------------------------------------------------------------------
(* The lexer: texts of three or four pieces, from the start or from behind *)
(* the first newline.                                                      *)

Lx == INSTANCE Lexer WITH Ring <- 8

Pieces == {<<"a", "0">>, <<"0", "x", "a">>, <<"0", "x">>, <<"-", "1", ".">>, <<".", "1">>,
    <<"1", "e", "-", "0">>, <<"e">>, <<"\"", "a", "\n", "\"">>, <<"\"">>, <<"#", "a">>, <<"\n">>,
    <<" ">>, <<"-">>, <<"=">>}
Texts == {[text |-> FlattenSeq(p), skip |-> FALSE] : p \in [1 .. 4 -> Pieces]}
    \cup {[text |-> FlattenSeq(p), skip |-> TRUE] : p \in [1 .. 3 -> Pieces]}

Lexed(in) == LET lexer == Lx!Create(in.text)
             IN  Lx!TokensOf(IF in.skip THEN Lx!SkipTo(lexer, Lx!Newline) ELSE lexer)

(* Where a lexer starts that skips the first line.                         *)
Skipped(text) ==
    IF Lx!Newline \notin ToSet(text) THEN Len(text)
    ELSE CHOOSE n \in DOMAIN text : text[n] = Lx!Newline /\ \A m \in 1 .. n - 1 : text[m] # Lx!Newline

(* Property: though the lexer sees its text through a ring of a few        *)
(* characters that it fills on the way, it cuts it into the longest        *)
(* tokens, with the right lines and columns.                               *)
TokensAreLongest ==
    call = "lexer" /\ done /\ Lx!Fits(input.text) =>
        output = Lx!Reference(input.text, IF input.skip THEN Skipped(input.text) ELSE 0)

-----------------------------------------------------------------------------
(* Config files: up to three lines that are right, or with a token amiss,  *)
(* or cut off; a collection is loaded, changed, written and loaded again.  *)

Cf == INSTANCE Config

SectionLine(s) == <<Cf!Symbol("["), Cf!Name(s), Cf!Symbol("]")>>
ValueLine(c, value) == <<Cf!Name(c), Cf!Symbol("="), value>>
Number == Cf!Token("NUMBER", Cf!Dec(150))
ConfigValues == {Number, Cf!Token("NUMBER", Cf!Dec(-155)), Cf!Token("NUMBER", Cf!Exp(1, 3)),
    Cf!Token("HEX", Cf!Hex(16)), Cf!Token("LITERAL", Cf!Text("x")), Cf!Token("LITERAL", Cf!Exp(1, 3)),
    Cf!Token("ALNUM", Cf!Text("a"))}
PlainLines == {SectionLine("a"), SectionLine("b"), ValueLine("a", Number), ValueLine("b", Number)}
Lines == PlainLines \cup {ValueLine("a", value) : value \in ConfigValues}
OddTokens == {Cf!Symbol("["), Cf!Symbol("]"), Cf!Symbol("="), Cf!Token("LITERAL", Cf!Text("[")),
    Number, Cf!Name("a"), Cf!Token("ERROR", Cf!Text(""))}
Changes == {"none", "double", "integer", "string"}

ConfigFiles ==
    {FlattenSeq(lines) : lines \in SeqsUpTo(Lines, 3)}
    \cup UNION {{[FlattenSeq(lines) EXCEPT ![i] = token] : i \in 1 .. 9, token \in OddTokens} :
                    lines \in [1 .. 3 -> PlainLines]}
    \cup UNION {{SubSeq(FlattenSeq(lines), 1, n) : n \in 0 .. 9} : lines \in [1 .. 3 -> PlainLines]}

Changed(coll, change) ==
    LET Default(config) == Cf!SetI32(config, 1)
        Set(config) == CASE change = "double" -> Cf!SetD(config, -250)
                         [] change = "integer" -> Cf!SetI32(config, 7)
                         [] change = "string" -> Cf!SetS(config, Cf!Text("x"))
    IN  IF change = "none" THEN coll ELSE Cf!Update(coll, Cf!Text("b"), Cf!Text("a"), Default, Set)

Loaded(in) ==
    LET coll == Cf!Load(in.tokens)
    IN  IF coll = Cf!Failed THEN [coll |-> coll, again |-> coll]
        ELSE [coll |-> Changed(coll, in.change), again |-> Cf!Load(Cf!Write(Changed(coll, in.change)))]

(* Property: exactly the files of the format are loaded, and whatever a    *)
(* client made of the collection, writing it and loading it again gives    *)
(* the same sections and names in the same order, every string as a string *)
(* with its text and numbers, and every number as a number, no further off *)
(* than %f rounds.  An integer comes back as a double, and its integer is  *)
(* always the integer part of that double: for a number with an exponent,  *)
(* 1e3, whose integer config_sets() reads with strtol() as 1 beside the    *)
(* double 1000, that is another integer than before (a finding).           *)
ConfigsSurviveAFile ==
    call = "config" /\ done =>
        /\ (output.coll # Cf!Failed) = Cf!WellFormed(input.tokens)
        /\ output.coll # Cf!Failed =>
            output.again # Cf!Failed /\ Cf!SameValues(output.coll, output.again)

-----------------------------------------------------------------------------
(* hconf's flags: one file of up to four words, or two of up to two.       *)

MergeSorted == <<"-C", "-Da", "-Da0", "-Da=0", "-Da=1", "-Db", "-I.">>
MergeDName(flag) ==
    CASE flag \in {"-Da", "-Da=0", "-Da=1"} -> "a"
      [] flag = "-Da0" -> "a0"
      [] flag = "-Db" -> "b"
      [] OTHER -> ""
Mg == INSTANCE Merge WITH Bare <- {"-W", "-g"}, Sorted <- MergeSorted, DName <- MergeDName

FilesOf(words) == {<<w>> : w \in [1 .. 4 -> words]} \cup [1 .. 2 -> SeqsUpTo(words, 2)]
FlagFiles ==
    {[var |-> "CPPFLAGS", files |-> f] : f \in FilesOf(ToSet(MergeSorted))}
    \cup [var : {"CC", "CFLAGS", "LDFLAGS", "LIBS"}, files : FilesOf({"-la", "-lb", "-W", "-g"})]

MergedTwice(in) == LET once == Mg!Merged(in.var, in.files)
                   IN  [once |-> once, again |-> Mg!Merged(in.var, <<once>>)]

(* Property: of equal flags exactly one stays, the one the rule of its     *)
(* variable says; of definitions of one name only the one that sorts last  *)
(* stays; what stays keeps its order; merging again changes nothing.  For  *)
(* CPPFLAGS the order is that of the original list, whichever of several   *)
(* equal flags stays: the comment of merge() (hgmake/common.c:286-290) has *)
(* the first in its example, the code keeps the last (a finding).  Torn    *)
(* lists are left out: -Da, -Da0 and -Da=1 sort in this order, the two of  *)
(* the name "a" are no neighbours and both stay (another finding).         *)
OneOfEqualFlagsStays ==
    call = "merge" /\ done =>
        LET flags == Mg!Gathered(input.var, input.files) IN
        ~Mg!Torn(flags) =>
            /\ Mg!IsMerge(input.var, flags, output.once)
            /\ Mg!Stable(output.once) => output.again = output.once

-----------------------------------------------------------------------------
(* Bit packing: up to three values, into three or eight bytes; a word,     *)
(* strings and floats that fit or are cut.  Bitmasks of one or two words.  *)

Ones == [k \in Word |-> TRUE]
Every2nd == [k \in Word |-> k % 2 = 0]
Packed(kind, value, e, m) == [kind |-> kind, value |-> value, e |-> e, m |-> m]
PackValues ==
    {Packed("uint32", Ones, bits, 0) : bits \in {1, 5, 8, 32}}
    \cup {Packed("uint32", Every2nd, 13, 0)}
    \cup {Packed("string", s, 0, 0) : s \in {<<>>, <<Bits(65)>>, <<Bits(128), Bits(1)>>}}
    \cup {Packed("float", Flt(sign, 127, Every2nd), e, m) : sign \in BOOLEAN, e \in {2, 5}, m \in {1, 3}}
    \cup {Packed("float", Flt(TRUE, exponent, Ones), 8, 23) : exponent \in {0, 255}}
    \cup {Packed("float", Flt(FALSE, 0, Zero), 5, 3)}
Packings == [size : {3, 8}, dirt : BOOLEAN, values : SeqsUpTo(PackValues, 3)]

MaskOps == {<<"one", 0>>, <<"zero", 0>>, <<"set", 0>>, <<"unset", 0>>, <<"unset", 31>>, <<"set", 32>>,
    <<"set", 33>>}
Maskings == [bit_num : {1, 33}, ops : SeqsUpTo(MaskOps, 3)]

-----------------------------------------------------------------------------
(* UTF-8: bytes at the edges of what the masks tell apart; a text and      *)
(* another one behind it.                                                  *)

Leads == {65, 127, 128, 191, 192, 193, 194, 223, 224, 225, 237, 239, 240, 241, 244, 247, 248, 255}
Follows == {65, 128, 143, 144, 159, 160, 191, 224}
ByteTexts ==
    [left : {<<lead>> \o follows : lead \in Leads, follows \in SeqsUpTo(Follows, 3)}, right : {<<>>}]
    \cup [left : {<<>>} \cup [1 .. 2 -> Leads], right : [1 .. 2 -> {65, 128, 194, 255}]]

-----------------------------------------------------------------------------
(* Quadtrees: two traversals with any answers on a path of three nodes and *)
(* two of their children.                                                  *)

Qt == INSTANCE Quadtree

Asked == {<<>>, <<1>>, <<4>>, <<4, 4>>, <<4, 4, 2>>}
Traversals == [first : [Asked -> {"CONTINUE", "STOP"}], second : [Asked -> {"CLEAR", "CONTINUE", "STOP"}]]

Traversed(in) == LET first == Qt!Traverse(Qt!Init, in.first)
                 IN  [first |-> first, second |-> Qt!Traverse(first, in.second)]

(* Property: the tree has the nodes that the answers ask for, the client   *)
(* has freed each one that is gone, and two nodes of a level never share   *)
(* their indices, which are right down to the second level.                *)
TreeIsAsAnswered ==
    call = "quadtree" /\ done =>
        LET root == output.second.node
            paths == Qt!Paths(root, <<>>)
        IN  /\ paths = Qt!Traversed(Qt!Paths(output.first.node, <<>>), input.second)
            /\ output.second.num = Cardinality(paths) /\ Qt!Shutdown(output.second) = 0
            /\ \A p \in paths :
                LET node == Qt!NodeAt(root, p) IN
                /\ node.level = Len(p)
                /\ Len(p) <= 2 => node.i = Qt!Row(p) /\ node.j = Qt!Col(p)
                /\ \A q \in paths \ {p} : Len(q) = Len(p) =>
                        <<node.i, node.j>> # <<Qt!NodeAt(root, q).i, Qt!NodeAt(root, q).j>>

-----------------------------------------------------------------------------
(* Search trees: any calls, in any order; the input is the set of nodes    *)
(* the client has put in and not removed.                                  *)

Rb == INSTANCE RedBlack
Sp == INSTANCE Splay

RedBlackKeys == 1 .. 9
SplayKeys == 1 .. 6

RedBlackStep ==
    \E elm \in RedBlackKeys :
        \/ /\ input' = input \cup {elm} /\ output' = Rb!Insert(output, elm)
        \/ /\ elm \in input /\ input' = input \ {elm} /\ output' = Rb!Remove(output, elm)

SplayStep ==
    \/ \E elm \in SplayKeys :
        \/ input' = input \cup {elm} /\ output' = Sp!Insert(output, elm)
        \/ input' = input \ {elm} /\ output' = Sp!Remove(output, elm)
        \/ UNCHANGED input /\ output' = Sp!Find(output, elm).tree
    \/ \E side \in {"left", "right"} : UNCHANGED input /\ output' = Sp!MinMax(output, side).tree

(* Property: whatever was inserted and removed, a red-black tree is one,   *)
(* with its parent links, and a splay tree is ordered; both hold the nodes *)
(* that are in and no other, and every search and walk finds them.         *)
SearchTreesHold ==
    /\ call = "redblack" =>
        /\ Rb!Nodes(output) = input /\ Rb!IsRedBlack(output)
        /\ Rb!Finds(output, input, RedBlackKeys)
    /\ call = "splay" =>
        /\ Sp!Nodes(output) = input /\ Sp!IsSearchTree(output)
        /\ Sp!Finds(output, input, SplayKeys)

-----------------------------------------------------------------------------
(* Layouts: grids of up to two rows and columns of slots, boxes, holders   *)
(* and grids, in windows that are large, flat or too small.                *)

Ly == INSTANCE Layout

Cells == {Ly!None, Ly!Box(36, 0), Ly!Box(36, 72), Ly!Holder(Ly!Box(72, 36)), Ly!Holder(Ly!None),
    Ly!Grid(<<<<Ly!Box(36, 72), Ly!Box(72, 36)>>>>)}
Roots == {Ly!Holder(cell) : cell \in Cells}
    \cup {Ly!Grid(child) : child \in UNION {[1 .. rows -> [1 .. cols -> Cells]] : rows \in 1 .. 2, cols \in 1 .. 2}}
Layouts == [root : Roots, width : {36, 720}, height : {360}]

(* Property: after a resize no two children of a grid overlap, all lie     *)
(* in it and together fill it, and nothing gets less than it needs.        *)
GridsAreFilled ==
    call = "layout" /\ done => Ly!LaidOut(input.root, input.width, input.height, output)

-----------------------------------------------------------------------------
(* Strings and command lines.                                              *)

St == INSTANCE Strings

OptA == 97
OptB == 98
Words == {<<>>, <<St!Dash>>, St!DashDash, <<OptA>>, <<St!Dash, OptA>>, <<St!Dash, OptB>>,
    <<St!Dash, OptA, OptB>>, <<St!Dash, OptB, OptA>>, <<St!Dash, OptA, 120>>}
CommandLines == SeqsUpTo(Words, 4)
Separated == [s : SeqsUpTo({1, 2, 3}, 5), delim : {{3}, {2, 3}}]
Compared == [big : SeqsUpTo({1, 2}, 4), pattern : SeqsUpTo({1, 2, 3}, 2)]
Joined == [dst : {St!Null} \cup SeqsUpTo({1}, 2), parts : SeqsUpTo({St!Null, <<>>, <<1>>, <<2, 3>>}, 3)]

(* Property: getopt() finds the options and values in their order, up to   *)
(* the first unknown one; strtkn() finds the tokens between delimiters;    *)
(* strbcmp() and strecmp() are 0 exactly for prefixes and suffixes; and    *)
(* strctv_() copies as much as it allocates.                               *)
WordsAreTakenApart ==
    /\ call = "getopt" /\ done => output = St!Parsed(input, {OptA}, {OptB})
    /\ call = "strtkn" /\ done => St!IsTokens(input.s, input.delim, output)
    /\ call = "strcmp" /\ done =>
        /\ (output[1] = 0) = IsPrefix(input.pattern, input.big)
        /\ (output[2] = 0) = IsSuffix(input.pattern, input.big)
    /\ call = "strctv" /\ done => Len(output[1]) = output[2]

-----------------------------------------------------------------------------
(* Creating clients, servers and addresses, with any failures.             *)

Creations == Creation(SeqsUpTo({"ok", "socket", "connect"}, 3))

-----------------------------------------------------------------------------
InitCalls ==
    /\ done = FALSE /\ output = <<>>
    /\ \/ call = "lexer" /\ input \in Texts
       \/ call = "config" /\ input \in [tokens : ConfigFiles, change : Changes]
       \/ call = "merge" /\ input \in FlagFiles
       \/ call = "pack" /\ input \in Packings
       \/ call = "mask" /\ input \in Maskings
       \/ call = "utf8" /\ input \in ByteTexts
       \/ call = "quadtree" /\ input \in Traversals
       \/ call = "layout" /\ input \in Layouts
       \/ call = "getopt" /\ input \in CommandLines
       \/ call = "strtkn" /\ input \in Separated
       \/ call = "strcmp" /\ input \in Compared
       \/ call = "strctv" /\ input \in Joined
       \/ call = "udp" /\ input \in Creations

(* The trees go on from call to call.                                      *)
Init ==
    \/ InitCalls
    \/ call \in {"redblack", "splay"} /\ input = {} /\ done = FALSE
       /\ output = (IF call = "redblack" THEN Rb!Empty ELSE Sp!Empty)

Next ==
    \/ Calls("lexer") /\ output' = Lexed(input)
    \/ Calls("config") /\ output' = Loaded(input)
    \/ Calls("merge") /\ output' = MergedTwice(input)
    \/ Packs
    \/ Masks
    \/ Decodes
    \/ Calls("quadtree") /\ output' = Traversed(input)
    \/ Calls("layout") /\ output' = Ly!Resized(input.root, input.width, input.height)
    \/ Calls("getopt") /\ output' = St!Options(St!Getopt(input), {OptA}, {OptB})
    \/ Calls("strtkn") /\ output' = St!Tokens(input.s, input.delim)
    \/ Calls("strcmp") /\ output' = <<St!BeginCmp(input.big, input.pattern), St!EndCmp(input.big, input.pattern)>>
    \/ Calls("strctv") /\ output' = <<St!Ctv(input.dst, input.parts), St!CtvLen(input.dst, input.parts)>>
    \/ Creates
    \/ call = "redblack" /\ RedBlackStep /\ UNCHANGED <<call, done>>
    \/ call = "splay" /\ SplayStep /\ UNCHANGED <<call, done>>

Spec == Init /\ [][Next]_benchVars
=============================================================================
