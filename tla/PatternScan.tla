---------------------------- MODULE PatternScan ----------------------------
(***************************************************************************)
(* The pattern scanner (ganymede-pattern-core/src/pattern/scan.rs): one    *)
(* scanner over one image, called again and again with the same slice of   *)
(* captures.                                                               *)
(*                                                                         *)
(* A search discovers candidates through the fixed-width engine, through   *)
(* an exact prefix or one start after the other, and lets the interpreter  *)
(* decide each.  Whatever a call, successful or not, wrote into the slice  *)
(* is there when the next call begins: the slice is the state that         *)
(* connects the calls, next to the position of a match iterator.           *)
(*                                                                         *)
(* A program is any sequence of atoms.  The one PatternSource makes of a   *)
(* source text is one of them.                                             *)
(***************************************************************************)
EXTENDS PatternFixed

CONSTANTS
  Programs,     \* the programs examined
  Bases,        \* virtual addresses of the start of the image
  Images,       \* the images examined
  StaticParts,  \* cells a caller of from_static_parts may supply
  Ranges,       \* the ranges searched, for each image
  PrefixBytes   \* PREFIX_BYTES

Cells == Seq([value : Bytes, mask : Bytes])

ASSUME ProgramsAssumption == Programs \subseteq Seq(Atoms) \ {<<>>}
ASSUME BasesAssumption == Bases \subseteq Addresses
ASSUME ImagesAssumption == Images \subseteq Seq(Bytes)
ASSUME StaticPartsAssumption == StaticParts \subseteq Cells
ASSUME RangesAssumption == \A image \in Images : Ranges[image] \subseteq Nat \X Nat
ASSUME PrefixAssumption == PrefixBytes \in Nat

VARIABLES
  scanner,  \* program, base, and cells with their plan (none: no fixed projection)
  image,
  saves,    \* the caller's capture slice
  matches   \* the iterator: begin, next, end, and what it has yielded

vars == <<scanner, image, saves, matches>>

-----------------------------------------------------------------------------
scan == [program |-> scanner.program, image |-> image, base |-> scanner.base]

\* Pattern::from_atoms, PatternBuf::from_atoms and from_static_parts.
Projections(program) ==
  {<<>>, Compile(program)} \cup {cells \in StaticParts : ValidFor(program, cells)}

\* prefix: the exact bytes at the start of the program, as cells; what ends them.
Lengthened(part, atom) ==
  CASE ~part.over /\ atom.op = "byte" /\ Len(part.cells) < PrefixBytes ->
         [part EXCEPT !.cells = Append(@, Cell(atom.byte, Bits))]
    [] part.over \/ atom.op \in {"save", "aligned", "nop"} -> part
    [] OTHER -> [part EXCEPT !.over = TRUE]

Leaders(program) ==
  LET part[n \in 0 .. Len(program)] ==
        IF n = 0 THEN [over |-> FALSE, cells |-> <<>>] ELSE Lengthened(part[n - 1], program[n])
  IN part

Prefix(program) == Leaders(program)[Len(program)].cells

\* Faulty: the slice ends with the last start, not with the last prefix.
PrefixEndAtStart(prefix, end) == end

\* Where the slice searched for the prefix ends.
PrefixEnd(prefix, end) == Min({end + Len(prefix) - 1, Len(image)})

\* The next candidate start at or after an offset.
Filtered(prefix, next, end) ==
  IF prefix = <<>> THEN next ELSE MemFind(prefix, image, next, PrefixEnd(prefix, end))

Candidate(next, end) ==
  IF scanner.cells # <<>> THEN FixedFind(scanner.cells, scanner.plan, image, next, end)
  ELSE Filtered(Prefix(scanner.program), next, end)

Searches == [next : Nat, saves : Seq(Addresses)]

NotFound(captures) == [at |-> Missing, saves |-> captures]

\* A candidate is decided by the interpreter; the next one gets what this one captured.
Decide(search, candidate, captures) ==
  LET tried == Exec(scan, candidate, captures)
  IN IF tried.ok THEN [at |-> candidate, saves |-> tried.saves]
     ELSE search[[next |-> candidate + 1, saves |-> tried.saves]]

\* The first of the candidates that the interpreter accepts, and the captures it leaves.
Search(candidates, end, next, captures) ==
  LET search[turns \in 0 .. end] ==
        [from \in Searches |->
           IF turns = 0 \/ from.next >= end \/ candidates[from.next] = Missing THEN NotFound(from.saves)
           ELSE Decide(search[turns - 1], candidates[from.next], from.saves)]
  IN search[end][[next |-> next, saves |-> captures]]

\* find_from
FindFrom(next, end, captures) ==
  Search([from \in 0 .. end - 1 |-> Candidate(from, end)], end, next, captures)

\* Faulty: the second search begins behind the byte that follows the match.
UniqueApart(found, end) ==
  [unique |-> found.at # Missing /\ FindFrom(found.at + 2, end, <<>>).at = Missing,
   saves |-> found.saves]

\* Faulty: the second search writes into the caller's slots.
UniqueReusing(found, end) ==
  [unique |-> found.at # Missing /\ FindFrom(found.at + 1, end, <<>>).at = Missing,
   saves |-> FindFrom(found.at + 1, end, found.saves).saves]

\* A second search behind the first match must fail; it is given no slots.
Unique(found, end) ==
  [unique |-> found.at # Missing /\ FindFrom(found.at + 1, end, <<>>).at = Missing,
   saves |-> found.saves]

\* finds_in.
Finds(start, end, captures) == Unique(FindFrom(start, end, captures), end)

-----------------------------------------------------------------------------
\* The iterator does not exist until matches_in makes one.
NoMatches == [begin |-> 0, next |-> 0, end |-> 0, yielded |-> {}, over |-> FALSE]

Scanner(program, base, cells) ==
  [program |-> program, base |-> base, cells |-> cells,
   plan |-> IF cells = <<>> THEN [kind |-> "none"] ELSE Plan(cells)]

Init ==
  /\ \E program \in Programs, base \in Bases :
       \E cells \in Projections(program) : scanner = Scanner(program, base, cells)
  /\ \E slots \in 0 .. SaveLen(scanner.program) : saves = [i \in 1 .. slots |-> 0]
  /\ image \in Images
  /\ matches = NoMatches

\* exec: the caller tries one offset itself.
Execute(start) ==
  /\ saves' = Exec(scan, start, saves).saves
  /\ UNCHANGED <<scanner, image, matches>>

\* find_with_in; find_with is the range of the whole image.
FindWithIn(start, end) ==
  /\ saves' = FindFrom(start, Min({end, Len(image)}), saves).saves
  /\ UNCHANGED <<scanner, image, matches>>

FindsIn(start, end) ==
  /\ saves' = Finds(start, Min({end, Len(image)}), saves).saves
  /\ UNCHANGED <<scanner, image, matches>>

\* Faulty: a range that ends behind the image is kept as it is.
MatchesBeyond(start, end) ==
  /\ matches' = [begin |-> start, next |-> start, end |-> end, yielded |-> {}, over |-> FALSE]
  /\ UNCHANGED <<scanner, image, saves>>

\* matches_in.
MatchesIn(start, end) ==
  /\ matches' = [begin |-> start, next |-> start, end |-> Min({end, Len(image)}),
                 yielded |-> {}, over |-> FALSE]
  /\ UNCHANGED <<scanner, image, saves>>

\* Faulty: the iterator continues behind the match.
NextBehind(at) == at + Max({1, Len(scanner.cells)})

\* Where the iterator continues, so that overlapping matches are found.
NextOffset(at) == at + 1

\* next_with; without slots it is Iterator::next.
NextWith ==
  \E found \in {FindFrom(matches.next, matches.end, saves)} :
    /\ saves' = found.saves
    /\ matches' = IF found.at = Missing THEN [matches EXCEPT !.over = TRUE]
                  ELSE [matches EXCEPT !.next = NextOffset(found.at), !.yielded = @ \cup {found.at}]
    /\ UNCHANGED <<scanner, image>>

Next ==
  \/ \E start \in 0 .. Len(image) + 1 : Execute(start)
  \/ \E range \in Ranges[image] : FindWithIn(range[1], range[2])
  \/ \E range \in Ranges[image] : FindsIn(range[1], range[2])
  \/ \E range \in Ranges[image] : MatchesIn(range[1], range[2])
  \/ NextWith

Spec == Init /\ [][Next]_vars

-----------------------------------------------------------------------------
(* What the scanner promises, in terms of single executions.               *)

\* A search without any filter.
DirectFrom(next, end, captures) == Search([from \in 0 .. end - 1 |-> from], end, next, captures)

Accepted(start, end, captures) == {s \in start .. end - 1 : Exec(scan, s, captures).ok}

\* The program reads captures back.
Compares == \E i \in DOMAIN scanner.program : scanner.program[i].op \in {"check", "pir"}

Alternates == \E i \in DOMAIN scanner.program : scanner.program[i].op = "case"

Bounds == {<<range[1], Min({range[2], Len(image)})>> : range \in Ranges[image]}

\* The state has its types; captures are addresses of the target.
TypeOK ==
  /\ scanner.base \in Bases
  /\ scanner.cells \in Cells
  /\ image \in Images
  /\ saves \in Seq(Addresses)
  /\ matches.yielded \subseteq 0 .. Len(image) - 1

\* Whatever earlier calls left in the slice, candidate discovery by vector probes,
\* anchors or prefixes (find_from, scan.rs:250) changes nothing: a search finds the
\* same start, with the same captures, as one that executes the program everywhere,
\* although a filtered candidate leaves no temporary captures for the next.
FiltersLoseNothing ==
  \A range \in Bounds :
    LET found  == FindFrom(range[1], range[2], saves)
        direct == DirectFrom(range[1], range[2], saves)
    IN found.at = direct.at /\ (found.at # Missing => found.saves = direct.saves)

\* A match iterator (Matches::next, scan.rs:1046) yields every start of its range at
\* which the program matches, overlapping ones included, and nothing else.
IterationComplete ==
  saves = <<>> \/ ~Compares =>
    LET upto == IF matches.over THEN matches.end ELSE Min({matches.next, matches.end})
    IN matches.yielded = Accepted(matches.begin, upto, <<>>)

\* finds (scan.rs:136) counts the matches, as long as no atom reads a capture.
UniqueUnlessCompared ==
  ~Compares =>
    \A range \in Bounds :
      Finds(range[1], range[2], saves).unique
        <=> Cardinality(Accepted(range[1], range[2], saves)) = 1

\* Without alternatives the captures of a search are those of its match: what the
\* failed candidates and the failed distances of a gap wrote (scan.rs:96, 130), and
\* what earlier calls left, is overwritten; the uniqueness probe of finds leaves
\* them alone (scan.rs:138).
CapturesAreTheMatchs ==
  ~Compares /\ ~Alternates =>
    \A range \in Bounds :
      LET found == FindFrom(range[1], range[2], saves)
          fresh == Exec(scan, found.at, [i \in DOMAIN saves |-> 0])
      IN found.at # Missing => Finds(range[1], range[2], saves).saves = fresh.saves

\* The fixed projection, derived or supplied, decides exactly what the interpreter
\* decides (Fixed::matches, fixed.rs:163), wherever the image has an address.
ProjectionExact ==
  scanner.cells # <<>> =>
    \A s \in 0 .. Len(image) :
      Addressed(scanner.base + s) =>
        (/\ s + Len(scanner.cells) <= Len(image)
         /\ Matches(scanner.cells, image, s)) <=> Exec(scan, s, <<>>).ok

\* Determine whether exactly one candidate start matches (scan.rs:136).
UniqueMeansOne ==
  \A range \in Bounds :
    Finds(range[1], range[2], saves).unique
      <=> Cardinality(Accepted(range[1], range[2], saves)) = 1
=============================================================================
