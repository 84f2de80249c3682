--------------------------- MODULE MCPatternScan ---------------------------
(* Bytes of two bits, pointers of four bytes, vectors of two lanes.        *)
EXTENDS PatternSource, TLC

Z == {}
A == {0}
B == {1}
M == {0, 1}   \* -1 when signed

Handmade ==
  { \* fixed width: literal, anchor, probes, wildcard
    <<Save(0), Byte(A), Byte(A)>>,
    <<Save(0), Skip(1), Byte(A), Nop, Byte(A)>>,
    <<Save(0), Byte(A), Byte(A), Fuzzy(B), Byte(B)>>,
    <<Save(0), Byte(A), Skip(1), Byte(A)>>,
    <<Save(0), Fuzzy(A), Byte(M), Byte(B)>>,
    <<Save(0), Fuzzy(M), Byte(A), Skip(1)>>,
    <<Save(0), Skip(2)>>,
    \* not fixed, though nearly
    <<Save(0), Byte(A), Fuzzy(B)>>,
    <<Save(0), Fuzzy(A), Skip(1), Byte(B)>>,
    <<Byte(A), Save(1), Byte(A), Byte(B)>>,
    <<Save(0), Aligned(1), Byte(A)>>,
    \* gaps, the second one with a capture that several distances write
    <<Save(0), Byte(A), Many(2), Byte(A)>>,
    <<Save(0), Byte(A), Many(0), ReadU(1, 1), Byte(B)>>,
    \* alternatives, with a capture only one of them writes
    <<Save(0), Case(2), Byte(A), Break(1), Byte(B), Byte(A)>>,
    <<Save(0), Case(3), ReadI(1, 1), Byte(A), Break(2), Byte(A), Zero(1), Byte(B)>>,
    \* a followed subpattern, and jumps
    <<Save(0), Byte(A), Push(1), Jump(1), Save(1), Byte(A), Pop, Byte(M)>>,
    <<Save(0), Jump(4), Byte(A)>>,
    <<Save(0), Push(0), Pointer, Byte(A), Pop, Byte(A)>>,
    <<Save(0), ReadRel32(1), Byte(A)>>,
    <<Save(0), Pir(1), Byte(A), Back(1), Save(1)>>,
    \* a byte in front of the start
    <<Save(0), Back(1), Byte(A)>>,
    \* a capture that is compared
    <<Save(0), Byte(A), Save(1), Many(2), Byte(B), Back(1), Check(1)>>,
    \* malformed: control that leaves the program or has no counterpart
    <<Save(0), Case(9), Byte(A), Break(9)>>,
    <<Byte(A), Push(3), Byte(B)>>,
    <<Byte(A), Break(0), Byte(B)>> }

MCBases == {8, AddressLimit - 2}

Short == {<<>>, <<A>>, <<B>>, <<A, A>>, <<B, A>>, <<A, A, A>>, <<A, A, B>>, <<A, B, A>>, <<B, M, A>>,
           <<A, A, A, A>>, <<A, B, A, A>>, <<A, A, A, B>>, <<B, A, B, B>>,
           <<A, A, B, M>>, <<M, B, M, A>>, <<A, M, A, M>>}

\* A double word (a pointer into the image, a distance forward, a distance backward), and a tail.
Long == {<<b>> \o word \o <<A, c>> : b \in {A}, c \in {B},
           word \in {<<Z, B, Z, Z>>, <<A, B, Z, Z>>, <<Z, Z, Z, Z>>, <<A, Z, Z, Z>>, <<B, M, M, M>>}}
        \cup {<<A, B, A, M, B>>, <<A, A, B, A, B>>}

MCImages == Short \cup Long

\* Ranges that reach past the image and that end inside it.
MCRanges == [i \in MCImages |-> {<<0, Len(i) + 1>>, <<1, Max({0, Len(i) - 1})>>}]

\* What from_static_parts may be given: the cells of a program, and cells that are not.
MCStaticParts ==
  {<<Cell(A, M), Cell(A, M)>>, <<Cell(A, M), Cell(A, M), Cell(B, B)>>, <<Cell(A, M), Ignored>>,
   <<Cell(M, A), Cell(B, M)>>, <<Ignored, Ignored>>, <<Cell(A, M)>>, <<Ignored, Cell(B, M)>>}

-----------------------------------------------------------------------------
(* Source texts.  A nibble has one bit; the digits above 1 are only decimal. *)

MCHexDigits     == "0" :> {} @@ "1" :> {0}
MCDecimalDigits == "0" :> 0 @@ "1" :> 1 @@ "2" :> 2 @@ "3" :> 3 @@ "4" :> 4 @@ "9" :> 9
MCExponents     == "1" :> 1 @@ "9" :> 9
MCCharacters    == "a" :> A @@ "b" :> B @@ "'" :> M

Chars(string) == [i \in 1 .. Len(string) |-> SubSeq(string, i, i)]
Says(string, items)  == [text |-> Chars(string), says |-> items, fault |-> NoFault]
Wrong(string, fault) == [text |-> Chars(string), says |-> <<>>, fault |-> fault]

a == Exactly(A, M)
b == Exactly(B, M)
m == Exactly(M, M)

MCSources ==
  { Says("01 ?0 01", <<a, Exactly(Z, A), a>>), Says("1?[2]", <<Exactly(B, B), Anything(2)>>),
    Says("\"ab\"01", <<a, b, a>>), Says("01[4]?", <<a, Anything(5)>>),
    Says("[0]01[0-2]'10", <<a, Between(0, 2), Here(1), b>>),
    Says(" 01 [1-3] 10 ", <<a, Between(1, 3), b>>), Says("[3][3] '", <<Anything(6), Here(1)>>),
    Says("('01|'10)'01", <<OneOf(<<<<Here(1), a>>, <<Here(1), b>>>>), Here(2), a>>),
    Says("('01'|10)'", <<OneOf(<<<<Here(1), a, Here(2)>>, <<b>>>>), Here(3)>>),
    Says("(01[0-3]10|11)01", <<OneOf(<<<<a, Between(0, 3), b>>, <<m>>>>), a>>),
    Says("(11|01[0-3]10)01", <<OneOf(<<<<m>>, <<a, Between(0, 3), b>>>>), a>>),
    Says("((01|10?)10|11)'", <<OneOf(<<<<OneOf(<<<<a>>, <<b, Anything(1)>>>>), b>>, <<m>>>>), Here(1)>>),
    Says("(01|10|11?)", <<OneOf(<<<<a>>, <<b>>, <<m, Anything(1)>>>>)>>),
    Says("% {'} 01", <<Visit("byte", <<Here(1)>>), a>>), Says("01%{?}", <<a, Visit("byte", <<Anything(1)>>)>>),
    Says("01 %10", <<a, Leap("byte"), b>>), Says("01%{10[0-2]}", <<a, Visit("byte", <<b, Between(0, 2)>>)>>),
    Says("%{?%{'}}01", <<Visit("byte", <<Anything(1), Visit("byte", <<Here(1)>>)>>), a>>),
    Says("01${'}01", <<a, Visit("dword", <<Here(1)>>), a>>), Says("01*{'01}01", <<a, Visit("pointer", <<Here(1), a>>), a>>),
    Says("01r4", <<a, Relative(1)>>), Says("i1u2z01", <<Number(1, 1, TRUE), Number(2, 2, FALSE), Nothing(3), a>>),
    Says("@1 01", <<Multiple(2), a>>), Says("(%{01|10)01", <<OneOf(<<<<Visit("byte", <<a>>)>>, <<b>>>>), a>>),
    Wrong("", "Empty"), Wrong(" ?[1-3]", "Empty"), Wrong("[2-2]01", "InvalidSkip"), Wrong("[2-]01", "InvalidSkip"),
    Wrong("[9]01", "InvalidSkip"), Wrong("01[1-2", "InvalidSkip"), Wrong("(01)", "Alternative"),
    Wrong("(01|)", "Alternative"), Wrong("(01|[0])10", "Alternative"), Wrong("(01|10", "Alternative"),
    Wrong("%{01", "SubPattern"), Wrong("01}", "Unexpected"), Wrong("01)", "Unexpected"), Wrong("01 x", "Unexpected"),
    Wrong("0", "IncompleteByte"), Wrong("0'", "InvalidHex"), Wrong("\"ab", "UnterminatedString"),
    Wrong("u3", "ReadOperand"), Wrong("i", "ReadOperand"), Wrong("r1", "RelativeOperand"), Wrong("@!", "AlignedOperand"),
    Wrong("''''01", "SaveOverflow"), Wrong("('|01)''z", "SaveOverflow") }

MCPrograms == Handmade \cup ParsedPrograms
=============================================================================
