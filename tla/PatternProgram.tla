--------------------------- MODULE PatternProgram ---------------------------
(***************************************************************************)
(* The interpreter of executable patterns                                  *)
(* (ganymede-pattern-core/src/pattern.rs, pattern/scan.rs).                *)
(*                                                                         *)
(* A program is a flat sequence of atoms.  The interpreter owns a program  *)
(* counter and a cursor into a byte image; it calls itself for a followed  *)
(* subpattern (Push), for an alternative (Case) and for every distance of  *)
(* a gap (Many).  Captures are written into the caller's slots at once and *)
(* are not undone when a branch fails.                                     *)
(*                                                                         *)
(* A byte is the set of its one bits, so that masking is intersection.     *)
(* Words keep their little-endian layout and their signs; an address has   *)
(* AddressLimit values, and every checked addition that could leave them   *)
(* is a test against that limit.                                           *)
(***************************************************************************)
EXTENDS Integers, Sequences, FiniteSets, FiniteSetsExt

CONSTANTS
  ByteWidth,     \* the bits of a byte
  PointerBytes,  \* PointerWidth::bytes of the scanner
  AddressLimit   \* number of virtual addresses

Bits == 0 .. ByteWidth - 1
Bytes == SUBSET Bits
Addresses == 0 .. AddressLimit - 1

\* The atoms.  The integer reads differ in width and sign, the relative jumps in width.
Byte(b)        == [op |-> "byte", byte |-> b]
Save(s)        == [op |-> "save", slot |-> s]
Push(n)        == [op |-> "push", by |-> n]
Pop            == [op |-> "pop"]
Fuzzy(m)       == [op |-> "fuzzy", mask |-> m]
Skip(n)        == [op |-> "skip", by |-> n]
Back(n)        == [op |-> "back", by |-> n]
Many(n)        == [op |-> "many", limit |-> n]
Jump(w)        == [op |-> "jump", width |-> w]
Pointer        == [op |-> "pointer"]
Pir(s)         == [op |-> "pir", slot |-> s]
Check(s)       == [op |-> "check", slot |-> s]
Aligned(e)     == [op |-> "aligned", exponent |-> e]
ReadI(s, w)    == [op |-> "read", slot |-> s, width |-> w, signed |-> TRUE]
ReadU(s, w)    == [op |-> "read", slot |-> s, width |-> w, signed |-> FALSE]
ReadRel32(s)   == [op |-> "rel", slot |-> s]
Zero(s)        == [op |-> "zero", slot |-> s]
Case(n)        == [op |-> "case", next |-> n]
Break(n)       == [op |-> "break", next |-> n]
Nop            == [op |-> "nop"]

Atoms ==
  [op : {"byte"}, byte : Bytes] \cup [op : {"fuzzy"}, mask : Bytes]
    \cup [op : {"save", "check", "pir", "rel", "zero"}, slot : Nat]
    \cup [op : {"read"}, slot : Nat, width : {1, 2, 4}, signed : BOOLEAN]
    \cup [op : {"push", "skip", "back"}, by : Nat] \cup [op : {"many"}, limit : Nat]
    \cup [op : {"case", "break"}, next : Nat] \cup [op : {"jump"}, width : {1, 4}]
    \cup [op : {"aligned"}, exponent : Nat] \cup [op : {"pop", "pointer", "nop"}]

\* The number of capture slots a program refers to.
SaveLen(program) ==
  Max({0} \cup {program[i].slot + 1 :
                  i \in {j \in DOMAIN program : "slot" \in DOMAIN program[j]}})

-----------------------------------------------------------------------------
(* Words and addresses.                                                    *)

\* The number that the leading bits of a byte are, and how many there are of so many bits.
Leading(b) ==
  LET value[n \in 0 .. ByteWidth] ==
        IF n = 0 THEN 0 ELSE 2 * value[n - 1] + (IF ByteWidth - n \in b THEN 1 ELSE 0)
  IN value

Power[n \in 0 .. ByteWidth] == IF n = 0 THEN 1 ELSE 2 * Power[n - 1]

ByteValue(b) == Leading(b)[ByteWidth]
ByteRange == Power[ByteWidth]

\* How many words of so many bytes there are.
WordRange[n \in 0 .. 4] == IF n = 0 THEN 1 ELSE ByteRange * WordRange[n - 1]

ASSUME ByteAssumption == ByteWidth \in Nat
ASSUME PointerAssumption == PointerBytes \in Nat
\* A capture holds every word that is read into it: u32 and u64.
ASSUME AddressAssumption == AddressLimit \in Nat /\ \A n \in 0 .. 4 : WordRange[n] <= AddressLimit

Readable(image, cursor, width) == cursor + width <= Len(image)

\* The number that the bytes of a word are, and before that the higher ones among them.
Word(image, cursor, width) ==
  LET word[n \in 0 .. width] ==
        IF n = 0 THEN 0
        ELSE ByteRange * word[n - 1] + ByteValue(image[cursor + 1 + width - n])
  IN word[width]

Signed(word, range) == IF 2 * word >= range THEN word - range ELSE word
SignedWord(image, cursor, width) == Signed(Word(image, cursor, width), WordRange[width])

\* What a checked addition to an address lets through.
Addressed(address) == address \in Addresses

\* A movement of zero stands for the width of a pointer.
Movement(n) == IF n = 0 THEN PointerBytes ELSE n

-----------------------------------------------------------------------------
(* The interpreter.  A scan is [program, image, base].  A branch has a     *)
(* program counter, a cursor, the captures made so far and the mask for    *)
(* the next byte.  A failed branch is kept for the captures it leaves.     *)

Branches == [ok : BOOLEAN, pc : Nat, cursor : Nat, saves : Seq(Addresses), mask : Bytes]

Fail(exec) == [exec EXCEPT !.ok = FALSE]

\* A store into a slot the caller did not supply is ignored.
Write(exec, slot, value) ==
  IF slot < Len(exec.saves) THEN [exec EXCEPT !.saves[slot + 1] = value] ELSE exec

MoveTo(scan, exec, cursor) ==
  IF cursor \in 0 .. Len(scan.image) THEN [exec EXCEPT !.cursor = cursor] ELSE Fail(exec)

MoveToAddress(scan, exec, target) ==
  IF Addressed(target) THEN MoveTo(scan, exec, target - scan.base) ELSE Fail(exec)

\* A value is stored and the cursor moves over what it was read from.
Take(exec, slot, value, width) == [Write(exec, slot, value) EXCEPT !.cursor = @ + width]

TakeAddress(exec, slot, target, width) ==
  IF Addressed(target) THEN Take(exec, slot, target, width) ELSE Fail(exec)

\* Case and Break: advance over sibling branches, at most to the end of the program.
Advance(scan, exec, by) ==
  IF exec.pc + by <= Len(scan.program) THEN [exec EXCEPT !.pc = @ + by] ELSE Fail(exec)

\* match_byte: the mask of a Fuzzy holds for one byte.
MatchByte(scan, exec, byte) ==
  IF /\ Readable(scan.image, exec.cursor, 1)
     /\ scan.image[exec.cursor + 1] \cap exec.mask = byte \cap exec.mask
  THEN [exec EXCEPT !.cursor = @ + 1, !.mask = Bits]
  ELSE Fail(exec)

\* move_cursor and follow.
Move(scan, exec, atom) ==
  LET image == scan.image  cursor == exec.cursor  here == scan.base + cursor IN
  CASE atom.op = "skip" -> MoveTo(scan, exec, cursor + Movement(atom.by))
    [] atom.op = "back" -> MoveTo(scan, exec, cursor - Movement(atom.by))
    [] atom.op = "jump" ->
         IF Readable(image, cursor, atom.width)
         THEN MoveTo(scan, exec, cursor + atom.width + SignedWord(image, cursor, atom.width))
         ELSE Fail(exec)
    [] atom.op = "pointer" ->
         IF Readable(image, cursor, PointerBytes)
         THEN MoveTo(scan, exec, Word(image, cursor, PointerBytes) - scan.base)
         ELSE Fail(exec)
    [] atom.op = "pir" ->
         IF Readable(image, cursor, 4) /\ Addressed(here)
         THEN MoveToAddress(scan, exec,
                (IF atom.slot < Len(exec.saves) THEN exec.saves[atom.slot + 1] ELSE here)
                + SignedWord(image, cursor, 4))
         ELSE Fail(exec)

\* capture: the atoms that read or write slots and those that compare the cursor.
Capture(scan, exec, atom) ==
  LET image == scan.image  cursor == exec.cursor  here == scan.base + cursor IN
  CASE atom.op = "save" -> IF Addressed(here) THEN Write(exec, atom.slot, here) ELSE Fail(exec)
    [] atom.op = "check" ->
         IF atom.slot < Len(exec.saves) => Addressed(here) /\ exec.saves[atom.slot + 1] = here
         THEN exec ELSE Fail(exec)
    [] atom.op = "aligned" ->
         IF /\ 2^atom.exponent < AddressLimit
            /\ Addressed(here)
            /\ here % 2^atom.exponent = 0
         THEN exec ELSE Fail(exec)
    [] atom.op = "read" ->
         IF Readable(image, cursor, atom.width)
         THEN Take(exec, atom.slot,
                IF atom.signed THEN SignedWord(image, cursor, atom.width) % AddressLimit
                               ELSE Word(image, cursor, atom.width), atom.width)
         ELSE Fail(exec)
    [] atom.op = "rel" ->
         IF Readable(image, cursor, 4) /\ Addressed(here + 4)
         THEN TakeAddress(exec, atom.slot, here + 4 + SignedWord(image, cursor, 4), 4)
         ELSE Fail(exec)
    [] atom.op = "zero" -> Write(exec, atom.slot, 0)

\* The atoms that neither branch nor return.
Apply(scan, exec, atom) ==
  CASE atom.op = "byte"  -> MatchByte(scan, exec, atom.byte)
    [] atom.op = "fuzzy" -> [exec EXCEPT !.mask = atom.mask]
    [] atom.op = "nop"   -> exec
    [] atom.op \in {"skip", "back", "jump", "pointer", "pir"} -> Move(scan, exec, atom)
    [] OTHER -> Capture(scan, exec, atom)

-----------------------------------------------------------------------------
(* run calls itself.  Here run is what the calls one level deeper make of  *)
(* a branch, and Turn is what a call makes of it.                          *)

Continue(run, exec) == IF exec.ok THEN run[exec] ELSE exec

\* push: a nested call, after which the caller resumes behind the reference.
Pushed(run, exec, resume) ==
  LET nested == run[[exec EXCEPT !.mask = Bits]]
  IN Continue(run, [nested EXCEPT !.cursor = resume, !.mask = Bits])

\* case: the alternative is a nested call; if it fails, the next one begins where it began.
Chosen(scan, run, exec, by) ==
  LET branch == run[[exec EXCEPT !.mask = Bits]]
  IN IF branch.ok THEN run[[branch EXCEPT !.mask = exec.mask]]
     ELSE Continue(run, Advance(scan, [exec EXCEPT !.saves = branch.saves], by))

Extent(scan, exec, limit) ==
  LET available == Max({0, Len(scan.image) - exec.cursor})
  IN IF limit = 0 THEN available ELSE Min({limit, available})

\* many: the remaining program at growing distances, up to the extent and without it.
Retried(run, exec, extent) ==
  LET tried[n \in 0 .. extent] ==
        IF n = 0 THEN Fail(exec)
        ELSE LET before == tried[n - 1]
             IN IF before.ok THEN before
                ELSE run[[exec EXCEPT !.cursor = @ + n - 1, !.saves = before.saves, !.mask = Bits]]
  IN tried[extent]

Turn(scan, run, exec) ==
  IF exec.pc >= Len(scan.program) THEN exec
  ELSE
    LET atom == scan.program[exec.pc + 1]
        next == [exec EXCEPT !.pc = @ + 1]
    IN CASE atom.op = "pop"   -> next
         [] atom.op = "break" -> Advance(scan, next, atom.next)
         [] atom.op = "many"  -> Retried(run, next, Extent(scan, next, atom.limit))
         [] atom.op = "push"  -> Pushed(run, next, next.cursor + Movement(atom.by))
         [] atom.op = "case"  -> Chosen(scan, run, next, atom.next)
         [] OTHER -> Continue(run, Apply(scan, next, atom))

\* run, with at most so many atoms to go: every call begins behind an atom.
Run(scan) ==
  LET run[n \in 0 .. Len(scan.program)] ==
        IF n = 0 THEN [exec \in Branches |-> exec]
        ELSE [exec \in Branches |-> Turn(scan, run[n - 1], exec)]
  IN run

\* exec: the program at one offset of the image.
Exec(scan, start, saves) ==
  LET entry == [ok |-> TRUE, pc |-> 0, cursor |-> start, saves |-> saves, mask |-> Bits]
  IN IF start > Len(scan.image) THEN Fail(entry) ELSE Run(scan)[Len(scan.program)][entry]
=============================================================================
