---------------------------- MODULE PatternFixed ----------------------------
(***************************************************************************)
(* The fixed-width projection of a pattern and the search engine built on  *)
(* it (ganymede-pattern-core/src/pattern/fixed.rs, fixed/plan.rs,          *)
(* fixed/scan.rs).                                                         *)
(*                                                                         *)
(* A program of exact bytes, masked bytes and skips, captured as a whole,  *)
(* projects to a sequence of cells.  A cell is a byte and the mask of the  *)
(* bits compared.  The plan picks how candidates are discovered, the       *)
(* engine finds the first candidate that agrees with every cell.  The      *)
(* projection exists twice in the code: derived from the atoms at run time *)
(* (compile) and emitted by the macro and validated (valid_for).           *)
(***************************************************************************)
EXTENDS PatternProgram, SequencesExt

CONSTANTS
  Lanes,          \* candidates a vector filters at once
  MinimumAnchor   \* MINIMUM_ANCHOR_BYTES

ASSUME LanesAssumption == Lanes \in Nat \ {0}
ASSUME AnchorAssumption == MinimumAnchor \in Nat \ {0}

Missing == -1     \* Option::None of an offset

Cell(value, mask) == [value |-> value \cap mask, mask |-> mask]
Ignored == Cell({}, {})

-----------------------------------------------------------------------------
(* FixedBuf::compile, with the eligibility test of FixedBuf::width.  A     *)
(* part is what the first n atoms make; the first one saves slot 0.        *)

Opens(program, n) == n = 1 /\ program[n] = Save(0)

\* Faulty: the mask of a Fuzzy outlives its byte.
ProjectSticky(part, program, n) ==
  LET atom == program[n] IN
  CASE part.ok /\ atom.op = "fuzzy" -> [part EXCEPT !.mask = atom.mask]
    [] part.ok /\ atom.op = "byte" -> [part EXCEPT !.cells = Append(@, Cell(atom.byte, part.mask))]
    [] OTHER -> [part EXCEPT !.ok = @ /\ (Opens(program, n) \/ atom.op = "nop")]

Project(part, program, n) ==
  LET atom == program[n] IN
  CASE ~part.ok \/ Opens(program, n) \/ atom.op = "nop" -> part
    [] part.ok /\ atom.op = "fuzzy" /\ ~part.fuzzy ->
         [part EXCEPT !.fuzzy = TRUE, !.mask = atom.mask]
    [] part.ok /\ atom.op = "byte" ->
         [part EXCEPT !.cells = Append(@, Cell(atom.byte, part.mask)), !.fuzzy = FALSE, !.mask = Bits]
    [] part.ok /\ atom.op = "skip" /\ atom.by # 0 /\ ~part.fuzzy ->
         [part EXCEPT !.cells = @ \o [i \in 1 .. atom.by |-> Ignored]]
    [] OTHER -> [part EXCEPT !.ok = FALSE]

Projected(program) ==
  LET part[n \in 0 .. Len(program)] ==
        IF n = 0 THEN [ok |-> program[1] = Save(0), fuzzy |-> FALSE, mask |-> Bits, cells |-> <<>>]
        ELSE Project(part[n - 1], program, n)
  IN part

\* The cells of a program, none if it is not linear and of fixed width.
Compile(program) ==
  LET part == Projected(program)[Len(program)]
  IN IF part.ok /\ ~part.fuzzy THEN part.cells ELSE <<>>

\* valid_for: cells given from outside are those of the program.
Fits(part, program, n, cells) ==
  LET atom == program[n] IN
  CASE ~part.ok \/ Opens(program, n) \/ atom.op = "nop" -> part
    [] part.ok /\ atom.op = "fuzzy" /\ part.mask = Bits -> [part EXCEPT !.mask = atom.mask]
    [] part.ok /\ atom.op = "byte" ->
         [at |-> part.at + 1, mask |-> Bits,
          ok |-> part.at < Len(cells) /\ cells[part.at + 1] = Cell(atom.byte, part.mask)]
    [] part.ok /\ atom.op = "skip" /\ atom.by # 0 /\ part.mask = Bits ->
         [part EXCEPT !.at = @ + atom.by,
                      !.ok = /\ part.at + atom.by <= Len(cells)
                             /\ \A i \in part.at + 1 .. part.at + atom.by : cells[i] = Ignored]
    [] OTHER -> [part EXCEPT !.ok = FALSE]

Fitted(program, cells) ==
  LET part[n \in 0 .. Len(program)] ==
        IF n = 0 THEN [ok |-> cells # <<>> /\ program[1] = Save(0), at |-> 0, mask |-> Bits]
        ELSE Fits(part[n - 1], program, n, cells)
  IN part

ValidFor(program, cells) ==
  LET part == Fitted(program, cells)[Len(program)]
  IN part.ok /\ part.at = Len(cells) /\ part.mask = Bits

-----------------------------------------------------------------------------
(* SearchPlan::compile.                                                    *)

Exact(cells) == {i \in DOMAIN cells : cells[i].mask = Bits}

\* The first of the longest runs of exact cells, as its offset and its length.
LongestRun(cells) ==
  LET IsRun(from, to) == from .. to \subseteq Exact(cells)
      runs == {r \in (DOMAIN cells) \X (DOMAIN cells) : IsRun(r[1], r[2])}
      length == Max({0} \cup {r[2] - r[1] + 1 : r \in runs})
  IN [length |-> length,
      offset |-> IF length = 0 THEN 0
                 ELSE Min({from \in DOMAIN cells : IsRun(from, from + length - 1)}) - 1]

\* select_probes: the most constrained cell, and the best other one if there is one.
Selected(cells) ==
  LET bits(i)  == Cardinality(cells[i].mask)
      Best(S, Score(_)) == Min({i \in S : \A j \in S : Score(j) <= Score(i)})
      first    == Best(DOMAIN cells, bits)
      others   == {i \in DOMAIN cells \ {first} : bits(i) # 0}
      score(i) == bits(i) * Len(cells) + Max({i - first, first - i})
  IN {first} \cup IF others = {} THEN {} ELSE {Best(others, score)}

Plan(cells) ==
  LET run == LongestRun(cells) IN
  CASE Exact(cells) = DOMAIN cells -> [kind |-> "literal", offset |-> 0, length |-> Len(cells)]
    [] Exact(cells) # DOMAIN cells /\ run.length >= MinimumAnchor ->
         [kind |-> "anchor", offset |-> run.offset, length |-> run.length]
    [] Exact(cells) # DOMAIN cells /\ run.length < MinimumAnchor ->
         IF \A i \in DOMAIN cells : cells[i].mask = {}
         THEN [kind |-> "wildcard"]
         ELSE [kind |-> "probes", probes |-> Selected(cells)]

-----------------------------------------------------------------------------
(* fixed::scan::Scanner.                                                   *)

\* Cells i of a set agree with the image at a candidate start.
Agree(cells, image, start, S) ==
  \A i \in S : image[start + i] \cap cells[i].mask = cells[i].value

Matches(cells, image, start) == Agree(cells, image, start, DOMAIN cells)

\* memmem on a slice of the image: the offset of the first occurrence.
MemFind(cells, image, from, to) ==
  LET at == {s \in from .. to - Len(cells) : Matches(cells, image, s)}
  IN IF at = {} THEN Missing ELSE Min(at)

\* The next occurrence of the anchor, verified; on failure the search resumes behind it.
\* There are at most as many turns as candidates.
FindAnchor(cells, plan, image, start, last) ==
  LET anchor == SubSeq(cells, plan.offset + 1, plan.offset + plan.length)
      Occurrence(from) == MemFind(anchor, image, from, last + plan.offset + plan.length)
      find[turns \in 0 .. last + 1] ==
        [from \in Nat |->
           LET found == Occurrence(from) IN
           CASE turns = 0 \/ found = Missing -> Missing
             [] turns # 0 /\ found # Missing /\ Matches(cells, image, found - plan.offset) ->
                  found - plan.offset
             [] OTHER -> find[turns - 1][found + 1]]
  IN find[last + 1][start + plan.offset]

\* One vector of candidates after the other, the last one possibly shorter.
FindProbes(cells, plan, image, start, last) ==
  LET Count(from) == Min({last - from + 1, Lanes})
      Lanewise(from) == {s \in from .. from + Count(from) - 1 : Agree(cells, image, s, plan.probes)}
      Valid(from) == {s \in Lanewise(from) : Matches(cells, image, s)}
      find[turns \in 0 .. last + 1] ==
        [from \in Nat |->
           CASE turns = 0 \/ from > last -> Missing
             [] turns # 0 /\ from <= last /\ Valid(from) # {} -> Min(Valid(from))
             [] OTHER -> find[turns - 1][from + Count(from)]]
  IN find[last + 1][start]

\* find_from: the first candidate in start .. end-1 whose cells all lie in the image.
FindPlanned(cells, plan, image, start, last) ==
  CASE start > last -> Missing
    [] start <= last /\ plan.kind = "wildcard" -> start
    [] start <= last /\ plan.kind = "literal" -> MemFind(cells, image, start, last + Len(cells))
    [] start <= last /\ plan.kind = "anchor" ->
         FindAnchor(cells, plan, image, start, last)
    [] start <= last /\ plan.kind = "probes" -> FindProbes(cells, plan, image, start, last)

FixedFind(cells, plan, image, start, end) ==
  FindPlanned(cells, plan, image, start, Min({Len(image) - Len(cells), end - 1}))
=============================================================================
