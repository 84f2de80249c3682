--------------------------- MODULE PatternSyntax ---------------------------
(***************************************************************************)
(* The parser of executable patterns                                       *)
(* (ganymede-pattern-core/src/pattern/syntax.rs): a recursive descent that *)
(* emits the atoms of PatternProgram as it goes.                           *)
(*                                                                         *)
(* A parser is [source, at, slot, atoms, fault]: the source, a sequence of *)
(* characters; the characters consumed; the next capture slot; the atoms   *)
(* of the sequence being parsed; and the failure, which ends it.  A nibble *)
(* has half the bits of a byte, so only some digits are hexadecimal.       *)
(***************************************************************************)
EXTENDS PatternProgram, SequencesExt

CONSTANTS
  HexDigits,      \* the bits of a nibble that a hexadecimal digit stands for
  DecimalDigits,  \* the number that a decimal digit stands for
  Exponents,      \* the exponent that a letter or digit stands for
  Characters,     \* the byte of a character between quotes
  SlotLimit,      \* number of capture slots
  IndexLimit      \* one more than the largest usize

NoFault == "none"
SourceEnd == "end"

Parser(source) == [source |-> source, at |-> 0, slot |-> 1, atoms |-> <<>>, fault |-> NoFault]

Refused(p, fault) == [p EXCEPT !.fault = fault]
Emit(p, atoms) == [p EXCEPT !.atoms = @ \o atoms]

\* peek, advance and space.
Peek(p) == IF p.at < Len(p.source) THEN p.source[p.at + 1] ELSE SourceEnd
Taken(p) == [p EXCEPT !.at = @ + 1]

\* Where a run of characters of a class that begins here ends.
RunEnd(p, class) ==
  Min({n \in p.at .. Len(p.source) : n = Len(p.source) \/ p.source[n + 1] \notin class})

Space(p) == [p EXCEPT !.at = RunEnd(p, {" "})]

\* slot: an atom that captures takes the next slot, if there is one.
Capturing(p, atom) ==
  IF p.slot < SlotLimit THEN [Emit(p, <<atom>>) EXCEPT !.slot = @ + 1]
  ELSE Refused(p, "SaveOverflow")

-----------------------------------------------------------------------------
(* Bytes, movements and reads.                                             *)

\* Faulty: a skip of nothing is emitted, and stands for the width of a pointer.
SkipPushEmpty(p, count) == Emit(p, <<Skip(count)>>)

\* skip_push: adjacent skips become one while their sum is an index.
SkipPush(p, count) ==
  LET last == Len(p.atoms)
  IN IF count = 0 THEN p
     ELSE IF last > 0 /\ p.atoms[last].op = "skip" /\ p.atoms[last].by + count < IndexLimit
          THEN [p EXCEPT !.atoms[last].by = @ + count]
          ELSE Emit(p, <<Skip(count)>>)

Hex == DOMAIN HexDigits
NibbleWidth == Cardinality(Bits) \div 2

\* nibble: a question mark has neither value nor mask.
Value(digit) == IF digit = "?" THEN {} ELSE HexDigits[digit]
Mask(digit)  == IF digit = "?" THEN {} ELSE 0 .. NibbleWidth - 1
Joined(high, low) == {bit + NibbleWidth : bit \in high} \cup low

\* byte: p stands behind its first character.
ByteToken(p, first) ==
  LET second == Peek(p)
      mask   == Joined(Mask(first), Mask(second))
      byte   == Byte(Joined(Value(first), Value(second)))
  IN CASE first = "?" /\ second \notin Hex -> SkipPush(p, 1)
       [] first # "?" /\ second = SourceEnd -> Refused(p, "IncompleteByte")
       [] first # "?" /\ second \notin Hex \cup {"?", SourceEnd} -> Refused(p, "InvalidHex")
       [] OTHER -> Emit(Taken(p), IF mask = Bits THEN <<byte>> ELSE <<Fuzzy(mask), byte>>)

\* decimal
DigitsEnd(p) == RunEnd(p, DOMAIN DecimalDigits)
Behind(p) == [p EXCEPT !.at = DigitsEnd(p)]
Decimal(p) ==
  FoldLeft(LAMBDA n, digit : 10 * n + DecimalDigits[digit], 0, SubSeq(p.source, p.at + 1, DigitsEnd(p)))
IsDecimal(p) == DigitsEnd(p) > p.at /\ Decimal(p) < IndexLimit

\* skip: a fixed distance, or a least one and how far the rest may be tried beyond it.
SkipToken(p) ==
  LET second == Taken(Behind(p))
  IN CASE IsDecimal(p) /\ Peek(Behind(p)) = "]" -> SkipPush(Taken(Behind(p)), Decimal(p))
       [] /\ IsDecimal(p) /\ Peek(Behind(p)) = "-" /\ IsDecimal(second)
          /\ Peek(Behind(second)) = "]" /\ Decimal(p) < Decimal(second) ->
            Emit(SkipPush(Taken(Behind(second)), Decimal(p)), <<Many(Decimal(second) - Decimal(p))>>)
       [] OTHER -> Refused(p, "InvalidSkip")

\* quoted
QuotedToken(p) ==
  LET close == RunEnd(p, DOMAIN Characters)
  IN IF close = Len(p.source) THEN Refused(p, "UnterminatedString")
     ELSE [Emit(p, [i \in 1 .. close - p.at |-> Byte(Characters[p.source[p.at + i]])])
             EXCEPT !.at = close + 1]

AlignedToken(p) ==
  IF Peek(p) \in DOMAIN Exponents THEN Emit(Taken(p), <<Aligned(Exponents[Peek(p)])>>)
  ELSE Refused(p, "AlignedOperand")

Widths == [digit \in {"1", "2", "4"} |-> DecimalDigits[digit]]

\* read takes its slot before it looks at the width.
ReadToken(p, signed) ==
  IF Peek(p) = SourceEnd \/ (p.slot < SlotLimit /\ Peek(p) \notin DOMAIN Widths)
  THEN Refused(p, "ReadOperand")
  ELSE Capturing(Taken(p), IF signed THEN ReadI(p.slot, Widths[Peek(p)]) ELSE ReadU(p.slot, Widths[Peek(p)]))

RelativeToken(p) ==
  IF Peek(p) # "4" THEN Refused(p, "RelativeOperand") ELSE Capturing(Taken(p), ReadRel32(p.slot))

-----------------------------------------------------------------------------
(* Sequences, followed subpatterns and alternatives.                       *)

\* encode_choice: jumps over the alternatives that were not taken.
Encode(alternatives) ==
  FoldRight(LAMBDA alternative, rest :
              IF rest = <<>> THEN <<Nop>> \o alternative \o <<Nop>>
              ELSE <<Case(Len(alternative) + 1)>> \o alternative \o <<Break(Len(rest))>> \o rest,
            alternatives, <<>>)

\* What the caller had emitted, then what a nested parser did.
Nested(p) == [p EXCEPT !.atoms = <<>>]
Surround(before, nested, after) == [nested EXCEPT !.atoms = before \o @ \o after]

MaximumSlot(slot, maximum) == Max({slot, maximum})

RECURSIVE Sequence(_, _), Operation(_, _), Alternatives(_, _, _, _), Step(_, _)

\* follow: the cursor returns behind what was followed only from a subpattern in braces.
Follow(p, atom, resume) ==
  IF Peek(Space(p)) # "{" THEN Emit(Space(p), <<atom>>)
  ELSE Surround(p.atoms \o <<Push(resume), atom>>, Sequence(Nested(Taken(Space(p))), "}"), <<Pop>>)

\* One alternative of choice has been parsed.
Alternative(p, entry, done, maximum) ==
  CASE p.fault # NoFault -> p
    [] p.fault = NoFault /\ p.atoms # <<>> /\ Peek(p) = "|" ->
         Alternatives(Taken(p), entry, Append(done, p.atoms), MaximumSlot(p.slot, maximum))
    [] p.fault = NoFault /\ p.atoms # <<>> /\ Peek(p) = ")" /\ done # <<>> ->
         [Taken(p) EXCEPT !.slot = MaximumSlot(@, maximum), !.atoms = Encode(Append(done, @))]
    [] OTHER -> Refused(p, "Alternative")

\* choice: every alternative begins with the slots of the group.
Alternatives(p, entry, done, maximum) ==
  Alternative(Space(Sequence([Nested(p) EXCEPT !.slot = entry], SourceEnd)), entry, done, maximum)

Choice(p) == Surround(p.atoms, Alternatives(p, p.slot, <<>>, p.slot), <<>>)

\* operation: p stands behind the leading character.
Operation(p, leading) ==
  CASE leading = "'" -> Capturing(p, Save(p.slot))
    [] leading = "[" -> SkipToken(p)
    [] leading = "\"" -> QuotedToken(p)
    [] leading = "%" -> Follow(p, Jump(1), 1)
    [] leading = "$" -> Follow(p, Jump(4), 4)
    [] leading = "*" -> Follow(p, Pointer, 0)
    [] leading = "@" -> AlignedToken(p)
    [] leading = "i" -> ReadToken(p, TRUE)
    [] leading = "u" -> ReadToken(p, FALSE)
    [] leading = "r" -> RelativeToken(p)
    [] leading = "z" -> Capturing(p, Zero(p.slot))
    [] leading = "(" -> Choice(p)
    [] leading \in Hex \cup {"?"} -> ByteToken(p, leading)
    [] OTHER -> Refused(p, "Unexpected")

\* One turn of sequence, after the space before it.  A bar or a parenthesis ends the sequence
\* whatever it was to end with, and stays.
Step(p, close) ==
  CASE Peek(p) = SourceEnd -> IF close = SourceEnd THEN p ELSE Refused(p, "SubPattern")
    [] Peek(p) = close /\ close # SourceEnd -> Taken(p)
    [] Peek(p) \in {"|", ")"} -> p
    [] OTHER -> Sequence(Operation(Taken(p), Peek(p)), close)

Sequence(p, close) == IF p.fault # NoFault THEN p ELSE Step(Space(p), close)

\* trim: movement at the end of the pattern, also at the end of a subpattern that ends it.
Trim(atoms) == SubSeq(atoms, 1, Max({0} \cup {i \in DOMAIN atoms : atoms[i].op \notin {"skip", "pop", "many"}}))

Finished(p) ==
  CASE p.fault # NoFault -> p
    [] p.fault = NoFault /\ Peek(p) # SourceEnd -> Refused(p, "Unexpected")
    [] OTHER -> IF Len(Trim(<<Save(0)>> \o p.atoms)) = 1 THEN Refused(p, "Empty")
                ELSE [p EXCEPT !.atoms = Trim(<<Save(0)>> \o @)]

\* finish: the atoms of a source, or why it has none.
Parse(source) == Finished(Space(Sequence(Parser(source), SourceEnd)))
=============================================================================
