------------------------- MODULE PatternScanProofs -------------------------
(***************************************************************************)
(* What the pattern scanner guarantees for every program, image, base,     *)
(* range and supplied projection.                                          *)
(*                                                                         *)
(* The state of the scanner is small and what a step does is deep: a call  *)
(* executes a program at many starts, and an execution nests calls of its  *)
(* own.  So most of this module is about the functions the step is made    *)
(* of.                                                                     *)
(*                                                                         *)
(*   - Executions: what one atom does to a branch, then a call by          *)
(*     induction on the atoms still to go.  Programs that read no capture  *)
(*     back decide alike whatever the captures are.                        *)
(*   - Searches: the recursion of find_from by its start alone.            *)
(*   - The fixed-width engine: whatever its plan, it finds the first start *)
(*     at which the cells agree with the image.                            *)
(*   - Heads: the cells a program is projected to, or its exact prefix,    *)
(*     decide its leading atoms; where they do not agree the program       *)
(*     fails, having written only slots it writes again.                   *)
(*   - Slots: without alternatives and comparisons, a slot that any        *)
(*     execution writes is written by every execution that succeeds.       *)
(*   - The inductive invariant IInv, and the theorems.                     *)
(***************************************************************************)
EXTENDS PatternScan, OrderLemmas

-----------------------------------------------------------------------------
(* Words.                                                                  *)

(* The powers of two that the weights of the bits are.                       *)
LEMMA PowerIs ==
  /\ \A n \in 0 .. ByteWidth : Power[n] \in Nat /\ Power[n] >= 1
  /\ Power[0] = 1
  /\ \A n \in 1 .. ByteWidth : Power[n] = 2 * Power[n - 1]
<1> DEFINE S == Nat \ {0}
           G == [n \in 1 .. ByteWidth |-> [v \in S |-> 2 * v]]
<1>0. ByteWidth \in Nat
  BY ByteAssumption
<1>1. 1 \in S /\ G \in [1 .. ByteWidth -> [S -> S]]
  OBVIOUS
<1>2. \A n \in 1 .. ByteWidth, v \in S : G[n][v] = 2 * v
  OBVIOUS
<1>20. \A v : v \in S <=> v \in Nat /\ v >= 1
  OBVIOUS
<1> HIDE DEF G, S
<1>3. PICK f : Recursive(f, ByteWidth, 1, G) /\ \A n \in 1 .. ByteWidth : f[n - 1] \in S
  BY <1>0, <1>1, Recursively, Zenon
<1>4. ASSUME NEW n \in 0 .. ByteWidth, n # 0 PROVE G[n][f[n - 1]] = 2 * f[n - 1]
  <2>1. n \in 1 .. ByteWidth
    BY <1>0, <1>4
  <2> QED
    BY <2>1, <1>2, <1>3, Zenon
<1>5. \A n \in 0 .. ByteWidth :
        (IF n = 0 THEN 1 ELSE G[n][f[n - 1]]) = (IF n = 0 THEN 1 ELSE 2 * f[n - 1])
  BY <1>4, Zenon
<1>6. f = [n \in 0 .. ByteWidth |-> IF n = 0 THEN 1 ELSE 2 * f[n - 1]]
  BY <1>3, <1>5, Zenon DEF Recursive
<1>7. Power = [n \in 0 .. ByteWidth |-> IF n = 0 THEN 1 ELSE 2 * Power[n - 1]]
  BY <1>6, Zenon DEF Power
<1>8. \A n \in 0 .. ByteWidth : Power[n] = IF n = 0 THEN 1 ELSE 2 * Power[n - 1]
  BY <1>7, Zenon
<1>9. Power[0] = 1 /\ \A n \in 1 .. ByteWidth : Power[n] = 2 * Power[n - 1]
  BY <1>0, <1>8
<1> DEFINE T == {n \in 0 .. ByteWidth : Power[n] \in S}
<1>10. 0 \in T
  BY <1>0, <1>9, <1>20
<1>11. \A n \in 1 .. ByteWidth : n - 1 \in T => n \in T
  BY <1>0, <1>9, <1>20
<1> HIDE DEF T
<1>12. \A n \in 0 .. ByteWidth : n \in T
  BY <1>0, <1>10, <1>11, IntervalInduction
<1> QED
  BY <1>9, <1>12, <1>20 DEF T

(* The bits from the top add up to the value of a byte, which is below the   *)
(* range of bytes.                                                           *)
LEMMA LeadingIs ==
  ASSUME NEW b
  PROVE  ByteValue(b) \in Nat /\ ByteValue(b) < ByteRange
<1> DEFINE Bit(n) == IF ByteWidth - n \in b THEN 1 ELSE 0
           S == Nat
           G == [n \in 1 .. ByteWidth |-> [v \in S |-> 2 * v + Bit(n)]]
<1>0. ByteWidth \in Nat
  BY ByteAssumption
<1>20. \A n : Bit(n) \in Nat /\ Bit(n) <= 1
  OBVIOUS
<1>21. \A n : Bit(n) = IF ByteWidth - n \in b THEN 1 ELSE 0
  OBVIOUS
<1> HIDE DEF Bit
<1>1. G \in [1 .. ByteWidth -> [Nat -> Nat]]
  BY <1>20
<1>2. \A n \in 1 .. ByteWidth, v \in Nat : G[n][v] = 2 * v + Bit(n)
  OBVIOUS
<1> HIDE DEF G
<1>3. PICK f : Recursive(f, ByteWidth, 0, G) /\ \A n \in 1 .. ByteWidth : f[n - 1] \in S
  BY <1>0, <1>1, Recursively, Zenon
<1>4. ASSUME NEW n \in 0 .. ByteWidth, n # 0 PROVE G[n][f[n - 1]] = 2 * f[n - 1] + Bit(n)
  <2>1. n \in 1 .. ByteWidth
    BY <1>0, <1>4
  <2> QED
    BY <2>1, <1>2, <1>3, Zenon
<1>5. \A n \in 0 .. ByteWidth :
        (IF n = 0 THEN 0 ELSE G[n][f[n - 1]]) = (IF n = 0 THEN 0 ELSE 2 * f[n - 1] + Bit(n))
  BY <1>4, Zenon
<1>6. f = [n \in 0 .. ByteWidth |-> IF n = 0 THEN 0 ELSE 2 * f[n - 1] + (IF ByteWidth - n \in b THEN 1 ELSE 0)]
  BY <1>3, <1>5, <1>21, Zenon DEF Recursive
<1>7. \E value : value = Leading(b) /\ value = [n \in 0 .. ByteWidth |-> IF n = 0 THEN 0 ELSE 2 * value[n - 1] + (IF ByteWidth - n \in b THEN 1 ELSE 0)]
  BY <1>6, Zenon DEF Leading
<1>8. PICK value : value = Leading(b) /\ \A n \in 0 .. ByteWidth : value[n] = IF n = 0 THEN 0 ELSE 2 * value[n - 1] + Bit(n)
  BY <1>7, <1>21, Zenon
<1>9. value[0] = 0 /\ \A n \in 1 .. ByteWidth : value[n] = 2 * value[n - 1] + Bit(n)
  BY <1>0, <1>8
<1> DEFINE T == {n \in 0 .. ByteWidth : value[n] \in Nat /\ value[n] < Power[n]}
<1>10. 0 \in T
  BY <1>0, <1>9, PowerIs
<1>11. ASSUME NEW n \in 1 .. ByteWidth, n - 1 \in T PROVE n \in T
  <2>1. value[n] = 2 * value[n - 1] + Bit(n) /\ Power[n] = 2 * Power[n - 1]
    BY <1>9, PowerIs
  <2>2. value[n - 1] \in Nat /\ value[n - 1] < Power[n - 1] /\ Power[n - 1] \in Nat
    BY <1>0, <1>11, PowerIs
  <2>3. Bit(n) \in Nat /\ Bit(n) <= 1
    BY <1>20
  <2>4. value[n] \in Nat /\ value[n] < Power[n]
    BY <2>1, <2>2, <2>3
  <2> QED
    BY <2>4, <1>0
<1> HIDE DEF T
<1>12. \A n \in 0 .. ByteWidth : n \in T
  BY <1>0, <1>10, <1>11, IntervalInduction
<1>13. ByteWidth \in T
  BY <1>0, <1>12
<1> QED
  BY <1>8, <1>13 DEF T, ByteValue, ByteRange

LEMMA ByteRangeType == ByteRange \in Nat /\ ByteRange >= 1
  BY PowerIs, ByteAssumption DEF ByteRange

(* How many words there are of each width.                                   *)
LEMMA WordRangeIs ==
  /\ \A n \in 0 .. 4 : WordRange[n] \in Nat /\ WordRange[n] <= AddressLimit
  /\ WordRange[0] = 1
  /\ \A n \in 1 .. 4 : WordRange[n] = ByteRange * WordRange[n - 1]
<1> DEFINE S == Nat
           G == [n \in 1 .. 4 |-> [v \in S |-> ByteRange * v]]
<1>0. ByteRange \in Nat /\ 4 \in Nat
  BY ByteRangeType
<1>1. 1 \in S /\ G \in [1 .. 4 -> [S -> S]]
  BY <1>0
<1>2. \A n \in 1 .. 4, v \in S : G[n][v] = ByteRange * v
  OBVIOUS
<1> HIDE DEF G
<1>3. PICK f : Recursive(f, 4, 1, G) /\ \A n \in 1 .. 4 : f[n - 1] \in S
  BY <1>0, <1>1, Recursively, Zenon
<1>4. ASSUME NEW n \in 0 .. 4, n # 0 PROVE G[n][f[n - 1]] = ByteRange * f[n - 1]
  <2>1. n \in 1 .. 4
    BY <1>0, <1>4
  <2> QED
    BY <2>1, <1>2, <1>3, Zenon
<1>5. \A n \in 0 .. 4 :
        (IF n = 0 THEN 1 ELSE G[n][f[n - 1]]) = (IF n = 0 THEN 1 ELSE ByteRange * f[n - 1])
  BY <1>4, Zenon
<1>6. f = [n \in 0 .. 4 |-> IF n = 0 THEN 1 ELSE ByteRange * f[n - 1]]
  BY <1>3, <1>5, Zenon DEF Recursive
<1>7. WordRange = [n \in 0 .. 4 |-> IF n = 0 THEN 1 ELSE ByteRange * WordRange[n - 1]]
  BY <1>6, Zenon DEF WordRange
<1>8. \A n \in 0 .. 4 : WordRange[n] = IF n = 0 THEN 1 ELSE ByteRange * WordRange[n - 1]
  BY <1>7, Zenon
<1>9. WordRange[0] = 1 /\ \A n \in 1 .. 4 : WordRange[n] = ByteRange * WordRange[n - 1]
  BY <1>0, <1>8
<1> DEFINE T == {n \in 0 .. 4 : WordRange[n] \in S}
<1>10. 0 \in T
  BY <1>0, <1>9
<1>11. \A n \in 1 .. 4 : n - 1 \in T => n \in T
  BY <1>0, <1>9
<1> HIDE DEF T
<1>12. \A n \in 0 .. 4 : n \in T
  BY <1>0, <1>10, <1>11, IntervalInduction
<1> QED
  BY <1>9, <1>12, AddressAssumption DEF T

(* A digit more, in a base of r, stays below the next power of it.           *)
LEMMA HornerStep ==
  ASSUME NEW r \in Nat, NEW d \in Nat, NEW b \in Nat, NEW w \in Nat, b < r
  PROVE  r * w + b \in Nat /\ r * w + b < r * (w + 1 + d)
<1>1. r * w \in Nat /\ r * d \in Nat
  OBVIOUS
<1>2. r * (w + 1 + d) = r * w + r + r * d
  OBVIOUS
<1> QED
  BY <1>1, <1>2

(* Little-endian words of up to four bytes are below their range, which      *)
(* the capture of a word relies on.                                          *)
LEMMA WordType ==
  ASSUME NEW img \in Seq(Bytes), NEW c \in Nat, NEW width \in 0 .. 4, Readable(img, c, width)
  PROVE  Word(img, c, width) \in Nat /\ Word(img, c, width) < WordRange[width]
<1> DEFINE S == Nat
           B(n) == ByteValue(img[c + 1 + width - n])
           G == [n \in 1 .. width |-> [v \in S |-> ByteRange * v + B(n)]]
<1>0. ByteRange \in Nat /\ ByteRange >= 1 /\ width \in Nat /\ width <= 4
  BY ByteRangeType
<1>20. \A n \in 1 .. width : B(n) \in Nat /\ B(n) < ByteRange
  <2> TAKE n \in 1 .. width
  <2> QED
    BY LeadingIs
<1>21. \A n : B(n) = ByteValue(img[c + 1 + width - n])
  OBVIOUS
<1> HIDE DEF B
<1>1. 0 \in S /\ G \in [1 .. width -> [S -> S]]
  BY <1>0, <1>20
<1>2. \A n \in 1 .. width, v \in S : G[n][v] = ByteRange * v + B(n)
  OBVIOUS
<1> HIDE DEF G
<1>3. PICK f : Recursive(f, width, 0, G) /\ \A n \in 1 .. width : f[n - 1] \in S
  BY <1>0, <1>1, Recursively, Zenon
<1>4. ASSUME NEW n \in 0 .. width, n # 0 PROVE G[n][f[n - 1]] = ByteRange * f[n - 1] + B(n)
  <2>1. n \in 1 .. width
    BY <1>0, <1>4
  <2> QED
    BY <2>1, <1>2, <1>3, Zenon
<1>5. \A n \in 0 .. width :
        (IF n = 0 THEN 0 ELSE G[n][f[n - 1]]) = (IF n = 0 THEN 0 ELSE ByteRange * f[n - 1] + B(n))
  BY <1>4, Zenon
<1>6. f = [n \in 0 .. width |-> IF n = 0 THEN 0 ELSE ByteRange * f[n - 1] + ByteValue(img[c + 1 + width - n])]
  BY <1>3, <1>5, <1>21, Zenon DEF Recursive
<1>7. \E word : /\ Word(img, c, width) = word[width]
                /\ word = [n \in 0 .. width |-> IF n = 0 THEN 0 ELSE ByteRange * word[n - 1] + ByteValue(img[c + 1 + width - n])]
  BY <1>6, Zenon DEF Word
<1>8. PICK word : /\ Word(img, c, width) = word[width]
                  /\ \A n \in 0 .. width : word[n] = IF n = 0 THEN 0 ELSE ByteRange * word[n - 1] + B(n)
  BY <1>7, <1>21, Zenon
<1>9. word[0] = 0 /\ \A n \in 1 .. width : word[n] = ByteRange * word[n - 1] + B(n)
  BY <1>0, <1>8
<1> DEFINE T == {n \in 0 .. width : word[n] \in Nat /\ word[n] < WordRange[n]}
<1>10. 0 \in T
  <2>1. word[0] = 0 /\ WordRange[0] = 1
    BY <1>9, WordRangeIs, Zenon
  <2> QED
    BY <1>0, <2>1
<1>11. ASSUME NEW n \in 1 .. width, n - 1 \in T PROVE n \in T
  <2>0. n \in 1 .. 4 /\ n - 1 \in 0 .. 4 /\ n \in 0 .. width
    BY <1>0
  <2>1. word[n] = ByteRange * word[n - 1] + B(n)
    BY <1>9, Zenon
  <2>2. WordRange[n] = ByteRange * WordRange[n - 1] /\ WordRange[n - 1] \in Nat
    BY <2>0, WordRangeIs, Zenon
  <2>3. word[n - 1] \in Nat /\ word[n - 1] < WordRange[n - 1]
    BY <1>11, Zenon
  <2>4. PICK w \in Nat : w = word[n - 1]
    BY <2>3, Zenon
  <2>5. PICK r \in Nat : r = WordRange[n - 1]
    BY <2>2, Zenon
  <2>6. PICK b \in Nat : b = B(n)
    BY <1>20, Zenon
  <2>7. PICK d \in Nat : r = w + 1 + d
    <3>1. w < r
      BY <2>3, <2>4, <2>5, Zenon
    <3>2. r - 1 - w \in Nat /\ r = w + 1 + (r - 1 - w)
      BY <3>1
    <3> QED
      BY <3>2
  <2>8. b < ByteRange
    BY <1>20, <2>6, Zenon
  <2>9. ByteRange * w + b \in Nat /\ ByteRange * w + b < ByteRange * (w + 1 + d)
    BY <1>0, <2>8, HornerStep
  <2>10. word[n] \in Nat /\ word[n] < WordRange[n]
    BY <2>1, <2>2, <2>4, <2>5, <2>6, <2>7, <2>9, Zenon
  <2> QED
    BY <2>0, <2>10, Zenon
<1> HIDE DEF T
<1>12. \A n \in 0 .. width : n \in T
  BY <1>0, <1>10, <1>11, IntervalInduction
<1>13. width \in T
  BY <1>0, <1>12
<1> QED
  BY <1>8, <1>13 DEF T

(* A word, and a signed word reduced to the address space, is an address.    *)
LEMMA WordAddress ==
  ASSUME NEW img \in Seq(Bytes), NEW c \in Nat, NEW width \in 0 .. 4, Readable(img, c, width)
  PROVE  Word(img, c, width) \in Addresses /\ SignedWord(img, c, width) % AddressLimit \in Addresses
<1>1. PICK w \in Nat, r \in Nat : w = Word(img, c, width) /\ r = WordRange[width] /\ w < r /\ r <= AddressLimit
  BY WordType, WordRangeIs
<1>2. AddressLimit \in Nat /\ AddressLimit >= 1
  BY <1>1, AddressAssumption
<1>3. SignedWord(img, c, width) \in Int
  BY <1>1 DEF SignedWord, Signed
<1>4. SignedWord(img, c, width) % AddressLimit \in 0 .. AddressLimit - 1
  BY <1>2, <1>3
<1> QED
  BY <1>1, <1>2, <1>4 DEF Addresses

-----------------------------------------------------------------------------
(* The atoms that neither branch nor return.                               *)

Scans == [program : Seq(Atoms), image : Seq(Bytes), base : Addresses]

(* What a scan, a branch and an atom consist of.                             *)
LEMMA ScanFields ==
  ASSUME NEW sc \in Scans
  PROVE  /\ sc.program \in Seq(Atoms) /\ Len(sc.program) \in Nat
         /\ sc.image \in Seq(Bytes) /\ Len(sc.image) \in Nat
         /\ sc.base \in Nat /\ sc.base \in Addresses
  BY AddressAssumption DEF Scans, Addresses

LEMMA BranchFields ==
  ASSUME NEW e \in Branches
  PROVE  /\ e.ok \in BOOLEAN /\ e.pc \in Nat /\ e.cursor \in Nat /\ e.mask \in Bytes
         /\ e.saves \in Seq(Addresses) /\ Len(e.saves) \in Nat
  BY DEF Branches

LEMMA AtomFields ==
  ASSUME NEW atom \in Atoms
  PROVE  /\ atom.op = "byte" => atom.byte \in Bytes
         /\ atom.op = "fuzzy" => atom.mask \in Bytes
         /\ atom.op \in {"save", "check", "pir", "rel", "zero", "read"} => atom.slot \in Nat
         /\ atom.op \in {"push", "skip", "back"} => atom.by \in Nat
         /\ atom.op = "many" => atom.limit \in Nat
         /\ atom.op \in {"case", "break"} => atom.next \in Nat
         /\ atom.op \in {"byte", "fuzzy", "save", "check", "pir", "rel", "zero", "read", "push", "skip",
                         "back", "many", "case", "break", "jump", "aligned", "pop", "pointer", "nop"}
  BY DEF Atoms

LEMMA AtomWidths ==
  ASSUME NEW atom \in Atoms, atom.op \in {"read", "jump"}
  PROVE  atom.width \in 0 .. 4
<1>1. atom.width \in {1, 2, 4}
  BY DEF Atoms
<1> QED
  BY <1>1

(* A branch made of another one by a step that stores at most one capture.   *)
LEMMA Stored ==
  ASSUME NEW e \in Branches, NEW k \in Nat, NEW v \in Addresses
  PROVE  Write(e, k, v) \in Branches /\ Len(Write(e, k, v).saves) = Len(e.saves)
<1>1. CASE k < Len(e.saves)
  <2>1. e.saves \in Seq(Addresses) /\ k + 1 \in 1 .. Len(e.saves)
    BY <1>1, BranchFields
  <2>2. [e.saves EXCEPT ![k + 1] = v] \in Seq(Addresses) /\ Len([e.saves EXCEPT ![k + 1] = v]) = Len(e.saves)
    BY <2>1
  <2>3. Write(e, k, v) = [e EXCEPT !.saves = [e.saves EXCEPT ![k + 1] = v]]
    BY <1>1 DEF Write, Branches
  <2>4. PICK s \in Seq(Addresses) : s = [e.saves EXCEPT ![k + 1] = v]
    BY <2>2
  <2>5. Write(e, k, v) = [e EXCEPT !.saves = s] /\ Len(s) = Len(e.saves)
    BY <2>2, <2>3, <2>4
  <2> QED
    BY <2>5 DEF Branches
<1>2. CASE ~(k < Len(e.saves))
  BY <1>2 DEF Write
<1> QED
  BY <1>1, <1>2

LEMMA BytesBits == Bits \in Bytes
  BY DEF Bytes

(* Moves and captures make branches of branches, and leave what they do      *)
(* not write.                                                                *)
LEMMA FailType ==
  ASSUME NEW e \in Branches
  PROVE  Fail(e) \in Branches /\ Fail(e).saves = e.saves /\ Fail(e).pc = e.pc
  BY DEF Fail, Branches

LEMMA MoveToType ==
  ASSUME NEW sc \in Scans, NEW e \in Branches, NEW c
  PROVE  /\ MoveTo(sc, e, c) \in Branches
         /\ MoveTo(sc, e, c).saves = e.saves /\ MoveTo(sc, e, c).pc = e.pc
<1>1. CASE c \in 0 .. Len(sc.image)
  BY <1>1, ScanFields DEF MoveTo, Branches
<1>2. CASE c \notin 0 .. Len(sc.image)
  BY <1>2, FailType DEF MoveTo
<1> QED
  BY <1>1, <1>2

LEMMA MoveToAddressType ==
  ASSUME NEW sc \in Scans, NEW e \in Branches, NEW c
  PROVE  /\ MoveToAddress(sc, e, c) \in Branches
         /\ MoveToAddress(sc, e, c).saves = e.saves /\ MoveToAddress(sc, e, c).pc = e.pc
<1>1. CASE Addressed(c)
  BY <1>1, MoveToType, Zenon DEF MoveToAddress
<1>2. CASE ~Addressed(c)
  BY <1>2, FailType, Zenon DEF MoveToAddress
<1> QED
  BY <1>1, <1>2

LEMMA MoveType ==
  ASSUME NEW sc \in Scans, NEW e \in Branches, NEW atom, atom.op \in {"skip", "back", "jump", "pointer", "pir"}
  PROVE  /\ Move(sc, e, atom) \in Branches
         /\ Move(sc, e, atom).saves = e.saves /\ Move(sc, e, atom).pc = e.pc
<1>1. CASE atom.op = "skip"
  <2>1. Move(sc, e, atom) = MoveTo(sc, e, e.cursor + Movement(atom.by))
    BY <1>1 DEF Move
  <2> QED
    BY <2>1, MoveToType
<1>2. CASE atom.op = "back"
  <2>1. Move(sc, e, atom) = MoveTo(sc, e, e.cursor - Movement(atom.by))
    BY <1>2 DEF Move
  <2> QED
    BY <2>1, MoveToType
<1>3. CASE atom.op = "jump"
  <2>1. Move(sc, e, atom) =
          IF Readable(sc.image, e.cursor, atom.width)
          THEN MoveTo(sc, e, e.cursor + atom.width + SignedWord(sc.image, e.cursor, atom.width))
          ELSE Fail(e)
    BY <1>3 DEF Move
  <2>2. CASE Readable(sc.image, e.cursor, atom.width)
    BY <2>1, <2>2, MoveToType, Zenon
  <2>3. CASE ~Readable(sc.image, e.cursor, atom.width)
    BY <2>1, <2>3, FailType, Zenon
  <2> QED
    BY <2>2, <2>3
<1>4. CASE atom.op = "pointer"
  <2>1. Move(sc, e, atom) =
          IF Readable(sc.image, e.cursor, PointerBytes)
          THEN MoveTo(sc, e, Word(sc.image, e.cursor, PointerBytes) - sc.base)
          ELSE Fail(e)
    BY <1>4 DEF Move
  <2>2. CASE Readable(sc.image, e.cursor, PointerBytes)
    BY <2>1, <2>2, MoveToType, Zenon
  <2>3. CASE ~Readable(sc.image, e.cursor, PointerBytes)
    BY <2>1, <2>3, FailType, Zenon
  <2> QED
    BY <2>2, <2>3
<1>5. CASE atom.op = "pir"
  <2>1. Move(sc, e, atom) =
          IF Readable(sc.image, e.cursor, 4) /\ Addressed(sc.base + e.cursor)
          THEN MoveToAddress(sc, e,
                 (IF atom.slot < Len(e.saves) THEN e.saves[atom.slot + 1] ELSE sc.base + e.cursor)
                 + SignedWord(sc.image, e.cursor, 4))
          ELSE Fail(e)
    BY <1>5 DEF Move
  <2>2. CASE Readable(sc.image, e.cursor, 4) /\ Addressed(sc.base + e.cursor)
    BY <2>1, <2>2, MoveToAddressType, Zenon
  <2>3. CASE ~(Readable(sc.image, e.cursor, 4) /\ Addressed(sc.base + e.cursor))
    BY <2>1, <2>3, FailType, Zenon
  <2> QED
    BY <2>2, <2>3
<1> QED
  BY <1>1, <1>2, <1>3, <1>4, <1>5

LEMMA TakeType ==
  ASSUME NEW e \in Branches, NEW k \in Nat, NEW v \in Addresses, NEW w \in Nat
  PROVE  /\ Take(e, k, v, w) \in Branches /\ Take(e, k, v, w).pc = e.pc
         /\ Len(Take(e, k, v, w).saves) = Len(e.saves)
         /\ Take(e, k, v, w).saves = Write(e, k, v).saves
         /\ Take(e, k, v, w).ok = e.ok /\ Take(e, k, v, w).mask = e.mask
         /\ Take(e, k, v, w).cursor = e.cursor + w
<1>1. PICK b \in Branches : b = Write(e, k, v) /\ Len(b.saves) = Len(e.saves)
  BY Stored
<1>2. b.pc = e.pc /\ b.cursor = e.cursor /\ b.ok = e.ok /\ b.mask = e.mask
  BY <1>1 DEF Write, Branches
<1>3. PICK c \in Nat : c = b.cursor + w
  BY <1>1, BranchFields
<1>4. Take(e, k, v, w) = [b EXCEPT !.cursor = c]
  BY <1>1, <1>3 DEF Take
<1>5. /\ Take(e, k, v, w) \in Branches /\ Take(e, k, v, w).pc = b.pc
      /\ Take(e, k, v, w).saves = b.saves
      /\ Take(e, k, v, w).ok = b.ok /\ Take(e, k, v, w).mask = b.mask
      /\ Take(e, k, v, w).cursor = c
  BY <1>1, <1>3, <1>4 DEF Branches
<1> QED
  BY <1>1, <1>2, <1>3, <1>5, Zenon

-----------------------------------------------------------------------------
(* What an atom does to a branch does not depend on its captures, unless the *)
(* atom compares them.                                                       *)

Comparing == {"check", "pir"}
Storing == {"save", "read", "rel", "zero"}
Branching == {"push", "pop", "many", "case", "break"}

(* Two branches that differ in nothing but their captures.                   *)
Alike(e, f) == e.ok = f.ok /\ e.pc = f.pc /\ e.cursor = f.cursor /\ e.mask = f.mask

Effects == [ok : BOOLEAN, cursor : Nat, mask : Bytes, stored : BOOLEAN, slot : Nat, value : Addresses]

After(e, r) ==
  [ok |-> r.ok, pc |-> e.pc, cursor |-> r.cursor, mask |-> r.mask,
   saves |-> IF r.stored THEN Write(e, r.slot, r.value).saves ELSE e.saves]

(* Both branches end with the same effect, which stores nothing.             *)
Alters(e, f, E, F) == \E r \in Effects : ~r.stored /\ E = After(e, r) /\ F = After(f, r)

(* Both end with the same effect; it stores at most into slot k, and does if *)
(* it succeeds.                                                              *)
Stores(e, f, E, F, k) ==
  \E r \in Effects : /\ r.ok => r.stored
                     /\ r.stored => r.slot = k
                     /\ E = After(e, r) /\ F = After(f, r)

(* What an effect consists of, and what it makes of a branch.                *)
LEMMA EffectFields ==
  ASSUME NEW r \in Effects
  PROVE  /\ r.ok \in BOOLEAN /\ r.cursor \in Nat /\ r.mask \in Bytes
         /\ r.stored \in BOOLEAN /\ r.slot \in Nat /\ r.value \in Addresses
  BY DEF Effects

LEMMA AfterFields ==
  ASSUME NEW e \in Branches, NEW r \in Effects
  PROVE  /\ After(e, r) \in Branches
         /\ After(e, r).ok = r.ok /\ After(e, r).pc = e.pc /\ After(e, r).cursor = r.cursor
         /\ After(e, r).mask = r.mask
         /\ After(e, r).saves = IF r.stored THEN Write(e, r.slot, r.value).saves ELSE e.saves
         /\ Len(After(e, r).saves) = Len(e.saves)
<1>1. PICK s \in Seq(Addresses) : /\ s = IF r.stored THEN Write(e, r.slot, r.value).saves ELSE e.saves
                                  /\ Len(s) = Len(e.saves)
  <2>1. Write(e, r.slot, r.value).saves \in Seq(Addresses) /\ Len(Write(e, r.slot, r.value).saves) = Len(e.saves)
    BY EffectFields, Stored, BranchFields
  <2> QED
    BY <2>1, BranchFields
<1>2. After(e, r) = [ok |-> r.ok, pc |-> e.pc, cursor |-> r.cursor, mask |-> r.mask, saves |-> s]
  BY <1>1 DEF After
<1> QED
  BY <1>1, <1>2, EffectFields, BranchFields DEF Branches

(* Branches with equal parts are equal.                                      *)
LEMMA BranchEqual ==
  ASSUME NEW e \in Branches, NEW f \in Branches,
         e.ok = f.ok, e.pc = f.pc, e.cursor = f.cursor, e.mask = f.mask, e.saves = f.saves
  PROVE  e = f
  BY DEF Branches

LEMMA SomeAddress == 0 \in Addresses
  BY WordRangeIs, AddressAssumption DEF Addresses

(* Branches that end alike and with the captures they began with.            *)
LEMMA AltersIf ==
  ASSUME NEW e \in Branches, NEW f \in Branches, NEW E \in Branches, NEW F \in Branches,
         Alike(e, f), Alike(E, F), E.pc = e.pc, E.saves = e.saves, F.saves = f.saves
  PROVE  Alters(e, f, E, F) /\ (~E.ok => \A k \in Nat : Stores(e, f, E, F, k))
<1> DEFINE r == [ok |-> E.ok, cursor |-> E.cursor, mask |-> E.mask, stored |-> FALSE, slot |-> 0, value |-> 0]
<1>1. r \in Effects
  BY SomeAddress, BranchFields DEF Effects
<1>2. r.ok = E.ok /\ r.cursor = E.cursor /\ r.mask = E.mask /\ ~r.stored
  OBVIOUS
<1> HIDE DEF r
<1>3. /\ After(f, r) \in Branches /\ After(f, r).ok = r.ok /\ After(f, r).pc = f.pc
      /\ After(f, r).cursor = r.cursor /\ After(f, r).mask = r.mask /\ After(f, r).saves = f.saves
  BY <1>1, <1>2, AfterFields
<1>4. F.ok = r.ok /\ F.pc = f.pc /\ F.cursor = r.cursor /\ F.mask = r.mask
  BY <1>2, Zenon DEF Alike
<1>5. F = After(f, r)
  BY <1>3, <1>4, BranchEqual
<1>6. E = After(e, r)
  BY <1>1, <1>2, AfterFields, BranchEqual
<1> QED
  BY <1>1, <1>2, <1>5, <1>6, Zenon DEF Alters, Stores

(* Branches that end alike and with the same value in slot k.                *)
LEMMA StoresIf ==
  ASSUME NEW e \in Branches, NEW f \in Branches, NEW E \in Branches, NEW F \in Branches,
         NEW k \in Nat, NEW v \in Addresses, Alike(e, f), Alike(E, F), E.pc = e.pc,
         E.saves = Write(e, k, v).saves, F.saves = Write(f, k, v).saves
  PROVE  Stores(e, f, E, F, k)
<1> DEFINE r == [ok |-> E.ok, cursor |-> E.cursor, mask |-> E.mask, stored |-> TRUE, slot |-> k, value |-> v]
<1>1. r \in Effects
  BY BranchFields DEF Effects
<1>2. r.ok = E.ok /\ r.cursor = E.cursor /\ r.mask = E.mask /\ r.stored /\ r.slot = k /\ r.value = v
  OBVIOUS
<1> HIDE DEF r
<1>3. /\ After(f, r) \in Branches /\ After(f, r).ok = r.ok /\ After(f, r).pc = f.pc
      /\ After(f, r).cursor = r.cursor /\ After(f, r).mask = r.mask
      /\ After(f, r).saves = Write(f, k, v).saves
  BY <1>1, <1>2, AfterFields
<1>4. F.ok = r.ok /\ F.pc = f.pc /\ F.cursor = r.cursor /\ F.mask = r.mask
  BY <1>2, Zenon DEF Alike
<1>5. F = After(f, r)
  BY <1>3, <1>4, BranchEqual
<1>6. E = After(e, r)
  BY <1>1, <1>2, AfterFields, BranchEqual
<1> QED
  BY <1>1, <1>2, <1>5, <1>6, Zenon DEF Stores

LEMMA FailFields ==
  ASSUME NEW e \in Branches
  PROVE  /\ Fail(e) \in Branches /\ Fail(e).ok = FALSE /\ Fail(e).pc = e.pc /\ Fail(e).cursor = e.cursor
         /\ Fail(e).mask = e.mask /\ Fail(e).saves = e.saves
  BY DEF Fail, Branches

(* Failing, moving and matching end alike on branches that are alike.        *)
LEMMA FailAlters ==
  ASSUME NEW e \in Branches, NEW f \in Branches, Alike(e, f)
  PROVE  Alters(e, f, Fail(e), Fail(f)) /\ \A k \in Nat : Stores(e, f, Fail(e), Fail(f), k)
<1>1. Alike(Fail(e), Fail(f))
  BY FailFields DEF Alike
<1> QED
  BY <1>1, FailFields, AltersIf

LEMMA MoveToAlters ==
  ASSUME NEW sc \in Scans, NEW e \in Branches, NEW f \in Branches, Alike(e, f), NEW c
  PROVE  Alters(e, f, MoveTo(sc, e, c), MoveTo(sc, f, c))
<1>1. CASE c \in 0 .. Len(sc.image)
  <2>1. \A x \in Branches : /\ MoveTo(sc, x, c).ok = x.ok /\ MoveTo(sc, x, c).pc = x.pc
                            /\ MoveTo(sc, x, c).cursor = c /\ MoveTo(sc, x, c).mask = x.mask
                            /\ MoveTo(sc, x, c).saves = x.saves
    BY <1>1 DEF MoveTo, Branches
  <2>2. MoveTo(sc, e, c) \in Branches /\ MoveTo(sc, f, c) \in Branches
    BY MoveToType
  <2>3. Alike(MoveTo(sc, e, c), MoveTo(sc, f, c))
    BY <2>1 DEF Alike
  <2> QED
    BY <2>1, <2>2, <2>3, AltersIf
<1>2. CASE ~(c \in 0 .. Len(sc.image))
  <2>1. MoveTo(sc, e, c) = Fail(e) /\ MoveTo(sc, f, c) = Fail(f)
    BY <1>2, Zenon DEF MoveTo
  <2> QED
    BY <2>1, FailAlters, Zenon
<1> QED
  BY <1>1, <1>2

LEMMA MoveAlters ==
  ASSUME NEW sc \in Scans, NEW e \in Branches, NEW f \in Branches, Alike(e, f),
         NEW atom, atom.op \in {"skip", "back", "jump", "pointer"}
  PROVE  Alters(e, f, Move(sc, e, atom), Move(sc, f, atom))
<1>0. PICK c : c = e.cursor /\ c = f.cursor
  BY DEF Alike
<1>1. CASE atom.op = "skip"
  <2>1. \A x : Move(sc, x, atom) = MoveTo(sc, x, x.cursor + Movement(atom.by))
    BY <1>1 DEF Move
  <2> QED
    BY <1>0, <2>1, MoveToAlters, Zenon
<1>2. CASE atom.op = "back"
  <2>1. \A x : Move(sc, x, atom) = MoveTo(sc, x, x.cursor - Movement(atom.by))
    BY <1>2 DEF Move
  <2> QED
    BY <1>0, <2>1, MoveToAlters, Zenon
<1>3. CASE atom.op = "jump"
  <2>1. \A x : Move(sc, x, atom) =
          IF Readable(sc.image, x.cursor, atom.width)
          THEN MoveTo(sc, x, x.cursor + atom.width + SignedWord(sc.image, x.cursor, atom.width))
          ELSE Fail(x)
    BY <1>3 DEF Move
  <2>2. CASE Readable(sc.image, c, atom.width)
    <3> DEFINE t == c + atom.width + SignedWord(sc.image, c, atom.width)
    <3>1. Move(sc, e, atom) = MoveTo(sc, e, t) /\ Move(sc, f, atom) = MoveTo(sc, f, t)
      BY <1>0, <2>1, <2>2, Zenon
    <3> HIDE DEF t
    <3> QED
      BY <3>1, MoveToAlters, Zenon
  <2>3. CASE ~Readable(sc.image, c, atom.width)
    <3>1. Move(sc, e, atom) = Fail(e) /\ Move(sc, f, atom) = Fail(f)
      BY <1>0, <2>1, <2>3, Zenon
    <3> QED
      BY <3>1, FailAlters, Zenon
  <2> QED
    BY <2>2, <2>3
<1>4. CASE atom.op = "pointer"
  <2>1. \A x : Move(sc, x, atom) =
          IF Readable(sc.image, x.cursor, PointerBytes)
          THEN MoveTo(sc, x, Word(sc.image, x.cursor, PointerBytes) - sc.base)
          ELSE Fail(x)
    BY <1>4 DEF Move
  <2>2. CASE Readable(sc.image, c, PointerBytes)
    <3> DEFINE t == Word(sc.image, c, PointerBytes) - sc.base
    <3>1. Move(sc, e, atom) = MoveTo(sc, e, t) /\ Move(sc, f, atom) = MoveTo(sc, f, t)
      BY <1>0, <2>1, <2>2, Zenon
    <3> HIDE DEF t
    <3> QED
      BY <3>1, MoveToAlters, Zenon
  <2>3. CASE ~Readable(sc.image, c, PointerBytes)
    <3>1. Move(sc, e, atom) = Fail(e) /\ Move(sc, f, atom) = Fail(f)
      BY <1>0, <2>1, <2>3, Zenon
    <3> QED
      BY <3>1, FailAlters, Zenon
  <2> QED
    BY <2>2, <2>3
<1> QED
  BY <1>1, <1>2, <1>3, <1>4

(* MatchByte succeeds where the byte at the cursor agrees under the mask,    *)
(* and passes it.                                                            *)
LEMMA MatchByteFields ==
  ASSUME NEW sc \in Scans, NEW e \in Branches, NEW b
  PROVE  /\ MatchByte(sc, e, b) \in Branches
         /\ MatchByte(sc, e, b).pc = e.pc /\ MatchByte(sc, e, b).saves = e.saves
         /\ IF /\ Readable(sc.image, e.cursor, 1)
               /\ sc.image[e.cursor + 1] \cap e.mask = b \cap e.mask
            THEN /\ MatchByte(sc, e, b).ok = e.ok /\ MatchByte(sc, e, b).mask = Bits
                 /\ MatchByte(sc, e, b).cursor = e.cursor + 1
            ELSE MatchByte(sc, e, b) = Fail(e)
<1> DEFINE P == Readable(sc.image, e.cursor, 1) /\ sc.image[e.cursor + 1] \cap e.mask = b \cap e.mask
<1>1. CASE P
  <2>1. PICK c \in Nat, m \in Bytes : c = e.cursor + 1 /\ m = Bits
    BY BytesBits, BranchFields
  <2>2. MatchByte(sc, e, b) = [e EXCEPT !.cursor = c, !.mask = m]
    BY <1>1, <2>1, Zenon DEF MatchByte
  <2>3. /\ MatchByte(sc, e, b) \in Branches
        /\ MatchByte(sc, e, b).pc = e.pc /\ MatchByte(sc, e, b).saves = e.saves
        /\ MatchByte(sc, e, b).ok = e.ok /\ MatchByte(sc, e, b).mask = m /\ MatchByte(sc, e, b).cursor = c
    BY <2>2 DEF Branches
  <2> QED
    BY <1>1, <2>1, <2>3, Zenon
<1>2. CASE ~P
  <2>1. MatchByte(sc, e, b) = Fail(e)
    BY <1>2, Zenon DEF MatchByte
  <2>2. Fail(e) \in Branches /\ Fail(e).pc = e.pc /\ Fail(e).saves = e.saves
    BY FailFields
  <2> QED
    BY <1>2, <2>1, <2>2, Zenon
<1> QED
  BY <1>1, <1>2

LEMMA MatchByteAlters ==
  ASSUME NEW sc \in Scans, NEW e \in Branches, NEW f \in Branches, Alike(e, f), NEW b
  PROVE  Alters(e, f, MatchByte(sc, e, b), MatchByte(sc, f, b))
<1>0. PICK c, m : c = e.cursor /\ c = f.cursor /\ m = e.mask /\ m = f.mask
  BY DEF Alike
<1>1. Alike(MatchByte(sc, e, b), MatchByte(sc, f, b))
  <2>1. CASE Readable(sc.image, c, 1) /\ sc.image[c + 1] \cap m = b \cap m
    <3>1. \A x \in Branches : x.cursor = c /\ x.mask = m =>
             /\ MatchByte(sc, x, b).ok = x.ok /\ MatchByte(sc, x, b).mask = Bits
             /\ MatchByte(sc, x, b).cursor = c + 1 /\ MatchByte(sc, x, b).pc = x.pc
      BY <2>1, MatchByteFields
    <3> QED
      BY <1>0, <3>1, Zenon DEF Alike
  <2>2. CASE ~(Readable(sc.image, c, 1) /\ sc.image[c + 1] \cap m = b \cap m)
    <3>1. \A x \in Branches : x.cursor = c /\ x.mask = m => MatchByte(sc, x, b) = Fail(x)
      BY <2>2, MatchByteFields
    <3>2. MatchByte(sc, e, b) = Fail(e) /\ MatchByte(sc, f, b) = Fail(f)
      BY <1>0, <3>1, Zenon
    <3> QED
      BY <3>2, FailFields DEF Alike
  <2> QED
    BY <2>1, <2>2
<1> QED
  BY <1>1, MatchByteFields, AltersIf

LEMMA WriteFields ==
  ASSUME NEW e \in Branches, NEW k \in Nat, NEW v \in Addresses
  PROVE  /\ Write(e, k, v) \in Branches /\ Len(Write(e, k, v).saves) = Len(e.saves)
         /\ Write(e, k, v).ok = e.ok /\ Write(e, k, v).pc = e.pc /\ Write(e, k, v).cursor = e.cursor
         /\ Write(e, k, v).mask = e.mask
  BY Stored DEF Write, Branches

(* Writing a slot stores the same value in both branches.                    *)
LEMMA WriteStores ==
  ASSUME NEW e \in Branches, NEW f \in Branches, Alike(e, f), NEW k \in Nat, NEW v \in Addresses
  PROVE  Stores(e, f, Write(e, k, v), Write(f, k, v), k)
<1>1. Alike(Write(e, k, v), Write(f, k, v))
  BY WriteFields DEF Alike
<1>2. Write(e, k, v) \in Branches /\ Write(f, k, v) \in Branches /\ Write(e, k, v).pc = e.pc
  BY WriteFields
<1> QED
  BY <1>1, <1>2, StoresIf

LEMMA TakeStores ==
  ASSUME NEW e \in Branches, NEW f \in Branches, Alike(e, f), NEW k \in Nat, NEW v \in Addresses, NEW w \in Nat
  PROVE  Stores(e, f, Take(e, k, v, w), Take(f, k, v, w), k)
<1>1. Alike(Take(e, k, v, w), Take(f, k, v, w))
  BY TakeType DEF Alike
<1>2. /\ Take(e, k, v, w) \in Branches /\ Take(f, k, v, w) \in Branches /\ Take(e, k, v, w).pc = e.pc
      /\ Take(e, k, v, w).saves = Write(e, k, v).saves /\ Take(f, k, v, w).saves = Write(f, k, v).saves
  BY TakeType
<1> QED
  BY <1>1, <1>2, StoresIf

(* The atoms that capture store the same value in their slot of both         *)
(* branches.                                                                 *)
LEMMA CaptureEffect ==
  ASSUME NEW sc \in Scans, NEW e \in Branches, NEW f \in Branches, Alike(e, f),
         NEW atom \in Atoms, atom.op \in Storing
  PROVE  Stores(e, f, Capture(sc, e, atom), Capture(sc, f, atom), atom.slot)
<1>0. PICK c \in Nat : c = e.cursor /\ c = f.cursor
  BY BranchFields DEF Alike
<1>1. PICK k \in Nat : k = atom.slot
  BY AtomFields DEF Storing
<1>2. PICK here : here = sc.base + c
  OBVIOUS
<1>3. Stores(e, f, Fail(e), Fail(f), k)
  BY FailAlters
<1>4. CASE atom.op = "save"
  <2>1. \A x : Capture(sc, x, atom) =
                 IF Addressed(sc.base + x.cursor) THEN Write(x, atom.slot, sc.base + x.cursor) ELSE Fail(x)
    BY <1>4 DEF Capture
  <2>2. CASE Addressed(here)
    <3>1. Capture(sc, e, atom) = Write(e, k, here) /\ Capture(sc, f, atom) = Write(f, k, here)
      BY <1>0, <1>1, <1>2, <2>1, <2>2, Zenon
    <3>2. here \in Addresses
      BY <2>2 DEF Addressed
    <3> QED
      BY <1>1, <3>1, <3>2, WriteStores
  <2>3. CASE ~Addressed(here)
    <3>1. Capture(sc, e, atom) = Fail(e) /\ Capture(sc, f, atom) = Fail(f)
      BY <1>0, <1>2, <2>1, <2>3, Zenon
    <3> QED
      BY <1>1, <1>3, <3>1
  <2> QED
    BY <2>2, <2>3
<1>5. CASE atom.op = "read"
  <2> DEFINE V(x) == IF atom.signed THEN SignedWord(sc.image, x, atom.width) % AddressLimit
                                    ELSE Word(sc.image, x, atom.width)
  <2>1. \A x : Capture(sc, x, atom) =
                 IF Readable(sc.image, x.cursor, atom.width)
                 THEN Take(x, atom.slot, V(x.cursor), atom.width) ELSE Fail(x)
    BY <1>5 DEF Capture
  <2>2. CASE Readable(sc.image, c, atom.width)
    <3>1. V(c) \in Addresses
      <4>1. atom.width \in 0 .. 4 /\ sc.image \in Seq(Bytes)
        BY <1>5, AtomWidths, ScanFields
      <4>2. Word(sc.image, c, atom.width) \in Addresses /\ SignedWord(sc.image, c, atom.width) % AddressLimit \in Addresses
        BY <2>2, <4>1, WordAddress
      <4> QED
        BY <4>2, Zenon
    <3> HIDE DEF V
    <3>2. PICK v \in Addresses : v = V(c)
      BY <3>1
    <3>3. PICK w \in Nat : w = atom.width
      BY <1>5, AtomWidths
    <3>4. Capture(sc, e, atom) = Take(e, k, v, w) /\ Capture(sc, f, atom) = Take(f, k, v, w)
      BY <1>0, <1>1, <2>1, <2>2, <3>2, <3>3, Zenon
    <3> QED
      BY <1>1, <3>4, TakeStores
  <2> HIDE DEF V
  <2>3. CASE ~Readable(sc.image, c, atom.width)
    <3>1. Capture(sc, e, atom) = Fail(e) /\ Capture(sc, f, atom) = Fail(f)
      BY <1>0, <1>2, <2>1, <2>3, Zenon
    <3> QED
      BY <1>1, <1>3, <3>1
  <2> QED
    BY <2>2, <2>3
<1>6. CASE atom.op = "rel"
  <2> DEFINE V(x) == sc.base + x + 4 + SignedWord(sc.image, x, 4)
  <2>1. \A x : Capture(sc, x, atom) =
                 IF Readable(sc.image, x.cursor, 4) /\ Addressed(sc.base + x.cursor + 4)
                 THEN TakeAddress(x, atom.slot, V(x.cursor), 4) ELSE Fail(x)
    BY <1>6 DEF Capture
  <2> HIDE DEF V
  <2>2. CASE Readable(sc.image, c, 4) /\ Addressed(sc.base + c + 4)
    <3>1. PICK v : v = V(c)
      OBVIOUS
    <3>2. Capture(sc, e, atom) = TakeAddress(e, k, v, 4) /\ Capture(sc, f, atom) = TakeAddress(f, k, v, 4)
      BY <1>0, <1>1, <2>1, <2>2, <3>1, Zenon
    <3>3. CASE Addressed(v)
      <4>1. Capture(sc, e, atom) = Take(e, k, v, 4) /\ Capture(sc, f, atom) = Take(f, k, v, 4)
        BY <3>2, <3>3, Zenon DEF TakeAddress
      <4>2. v \in Addresses /\ 4 \in Nat
        BY <3>3 DEF Addressed
      <4> QED
        BY <1>1, <4>1, <4>2, TakeStores
    <3>4. CASE ~Addressed(v)
      <4>1. Capture(sc, e, atom) = Fail(e) /\ Capture(sc, f, atom) = Fail(f)
        BY <3>2, <3>4, Zenon DEF TakeAddress
      <4> QED
        BY <1>1, <1>3, <4>1
    <3> QED
      BY <3>3, <3>4
  <2>3. CASE ~(Readable(sc.image, c, 4) /\ Addressed(sc.base + c + 4))
    <3>1. Capture(sc, e, atom) = Fail(e) /\ Capture(sc, f, atom) = Fail(f)
      BY <1>0, <1>2, <2>1, <2>3, Zenon
    <3> QED
      BY <1>1, <1>3, <3>1
  <2> QED
    BY <2>2, <2>3
<1>7. CASE atom.op = "zero"
  <2>1. Capture(sc, e, atom) = Write(e, k, 0) /\ Capture(sc, f, atom) = Write(f, k, 0)
    BY <1>1, <1>7 DEF Capture
  <2> QED
    BY <1>1, <2>1, SomeAddress, WriteStores
<1> QED
  BY <1>4, <1>5, <1>6, <1>7 DEF Storing

(* Alignment reads the cursor alone.                                         *)
LEMMA AlignedEffect ==
  ASSUME NEW sc \in Scans, NEW e \in Branches, NEW f \in Branches, Alike(e, f),
         NEW atom \in Atoms, atom.op = "aligned"
  PROVE  Alters(e, f, Capture(sc, e, atom), Capture(sc, f, atom))
<1> DEFINE P(c) == 2^atom.exponent < AddressLimit /\ Addressed(sc.base + c) /\ (sc.base + c) % 2^atom.exponent = 0
<1>0. PICK c : c = e.cursor /\ c = f.cursor
  BY DEF Alike
<1>1. \A x : Capture(sc, x, atom) = IF P(x.cursor) THEN x ELSE Fail(x)
  BY Zenon DEF Capture
<1> HIDE DEF P
<1>2. CASE P(c)
  <2>1. Capture(sc, e, atom) = e /\ Capture(sc, f, atom) = f
    BY <1>0, <1>1, <1>2, Zenon
  <2> QED
    BY <2>1, AltersIf
<1>3. CASE ~P(c)
  <2>1. Capture(sc, e, atom) = Fail(e) /\ Capture(sc, f, atom) = Fail(f)
    BY <1>0, <1>1, <1>3, Zenon
  <2> QED
    BY <2>1, FailAlters
<1> QED
  BY <1>2, <1>3

(* The effect of an atom that compares no capture.                           *)
LEMMA ApplyEffect ==
  ASSUME NEW sc \in Scans, NEW e \in Branches, NEW f \in Branches, Alike(e, f),
         NEW atom \in Atoms, atom.op \notin Branching, atom.op \notin Comparing
  PROVE  IF atom.op \in Storing
         THEN Stores(e, f, Apply(sc, e, atom), Apply(sc, f, atom), atom.slot)
         ELSE Alters(e, f, Apply(sc, e, atom), Apply(sc, f, atom))
<1>1. CASE atom.op = "byte"
  <2>1. Apply(sc, e, atom) = MatchByte(sc, e, atom.byte) /\ Apply(sc, f, atom) = MatchByte(sc, f, atom.byte)
    BY <1>1 DEF Apply
  <2> QED
    BY <1>1, <2>1, MatchByteAlters DEF Storing
<1>2. CASE atom.op = "fuzzy"
  <2>1. PICK m \in Bytes : m = atom.mask
    BY <1>2, AtomFields
  <2>2. Apply(sc, e, atom) = [e EXCEPT !.mask = m] /\ Apply(sc, f, atom) = [f EXCEPT !.mask = m]
    BY <1>2, <2>1 DEF Apply
  <2>3. \A x \in Branches : /\ [x EXCEPT !.mask = m] \in Branches /\ [x EXCEPT !.mask = m].ok = x.ok
                            /\ [x EXCEPT !.mask = m].pc = x.pc /\ [x EXCEPT !.mask = m].cursor = x.cursor
                            /\ [x EXCEPT !.mask = m].saves = x.saves /\ [x EXCEPT !.mask = m].mask = m
    BY DEF Branches
  <2>4. PICK E \in Branches, F \in Branches : E = Apply(sc, e, atom) /\ F = Apply(sc, f, atom)
    BY <2>2, <2>3, Zenon
  <2>5. Alike(E, F) /\ E.pc = e.pc /\ E.saves = e.saves /\ F.saves = f.saves
    BY <2>2, <2>3, <2>4, Zenon DEF Alike
  <2>6. Alters(e, f, E, F)
    BY <2>5, AltersIf
  <2> QED
    BY <1>2, <2>4, <2>6 DEF Storing
<1>3. CASE atom.op = "nop"
  <2>1. Apply(sc, e, atom) = e /\ Apply(sc, f, atom) = f
    BY <1>3 DEF Apply
  <2>2. Alters(e, f, e, f)
    BY AltersIf
  <2> QED
    BY <1>3, <2>1, <2>2 DEF Storing
<1>4. CASE atom.op \in {"skip", "back", "jump", "pointer"}
  <2>1. Apply(sc, e, atom) = Move(sc, e, atom) /\ Apply(sc, f, atom) = Move(sc, f, atom)
    BY <1>4 DEF Apply
  <2> QED
    BY <1>4, <2>1, MoveAlters DEF Storing
<1>5. CASE atom.op \in Storing
  <2>1. Apply(sc, e, atom) = Capture(sc, e, atom) /\ Apply(sc, f, atom) = Capture(sc, f, atom)
    BY <1>5 DEF Apply, Storing
  <2> QED
    BY <1>5, <2>1, CaptureEffect, Zenon
<1>6. CASE atom.op = "aligned"
  <2>1. Apply(sc, e, atom) = Capture(sc, e, atom) /\ Apply(sc, f, atom) = Capture(sc, f, atom)
    BY <1>6 DEF Apply
  <2> QED
    BY <1>6, <2>1, AlignedEffect DEF Storing
<1> QED
  BY <1>1, <1>2, <1>3, <1>4, <1>5, <1>6, AtomFields DEF Branching, Comparing, Storing

(* Whatever the atom, it leaves the program counter and the slots there are. *)
LEMMA ApplyType ==
  ASSUME NEW sc \in Scans, NEW e \in Branches, NEW atom \in Atoms, atom.op \notin Branching
  PROVE  /\ Apply(sc, e, atom) \in Branches /\ Apply(sc, e, atom).pc = e.pc
         /\ Len(Apply(sc, e, atom).saves) = Len(e.saves)
<1>1. CASE atom.op = "check"
  <2>1. Apply(sc, e, atom) = Capture(sc, e, atom)
    BY <1>1 DEF Apply
  <2>2. Capture(sc, e, atom) = e \/ Capture(sc, e, atom) = Fail(e)
    BY <1>1 DEF Capture
  <2>3. CASE Capture(sc, e, atom) = e
    BY <2>1, <2>3, Zenon
  <2>4. CASE Capture(sc, e, atom) = Fail(e)
    <3>1. Apply(sc, e, atom) = Fail(e)
      BY <2>1, <2>4, Zenon
    <3>2. Fail(e) \in Branches /\ Fail(e).pc = e.pc /\ Len(Fail(e).saves) = Len(e.saves)
      BY FailFields
    <3> QED
      BY <3>1, <3>2, Zenon
  <2> QED
    BY <2>2, <2>3, <2>4
<1>2. CASE atom.op = "pir"
  <2>1. Apply(sc, e, atom) = Move(sc, e, atom)
    BY <1>2 DEF Apply
  <2> QED
    BY <1>2, <2>1, MoveType
<1>3. CASE atom.op \notin Comparing
  <2>1. \E r \in Effects : Apply(sc, e, atom) = After(e, r)
    <3>1. Alike(e, e)
      BY DEF Alike
    <3> QED
      BY <1>3, <3>1, ApplyEffect, Zenon DEF Stores, Alters
  <2> QED
    BY <2>1, AfterFields
<1> QED
  BY <1>1, <1>2, <1>3 DEF Comparing

-----------------------------------------------------------------------------
(* The branches a call makes of its own.                                     *)

Stepped(e) == [e EXCEPT !.pc = @ + 1]
Masked(e, m) == [e EXCEPT !.mask = m]
Moved(e, c) == [e EXCEPT !.cursor = c, !.mask = Bits]
Resumed(e, c, s) == [e EXCEPT !.cursor = c, !.saves = s, !.mask = Bits]
Holding(e, s) == [e EXCEPT !.saves = s]

(* Each of them is a branch, and changes no more than it says.               *)
LEMMA SteppedFields ==
  ASSUME NEW e \in Branches
  PROVE  /\ Stepped(e) \in Branches /\ Stepped(e).ok = e.ok /\ Stepped(e).pc = e.pc + 1
         /\ Stepped(e).cursor = e.cursor /\ Stepped(e).mask = e.mask /\ Stepped(e).saves = e.saves
  BY DEF Stepped, Branches

LEMMA MaskedFields ==
  ASSUME NEW e \in Branches, NEW m \in Bytes
  PROVE  /\ Masked(e, m) \in Branches /\ Masked(e, m).ok = e.ok /\ Masked(e, m).pc = e.pc
         /\ Masked(e, m).cursor = e.cursor /\ Masked(e, m).mask = m /\ Masked(e, m).saves = e.saves
  BY DEF Masked, Branches

LEMMA MovedFields ==
  ASSUME NEW e \in Branches, NEW c \in Nat
  PROVE  /\ Moved(e, c) \in Branches /\ Moved(e, c).ok = e.ok /\ Moved(e, c).pc = e.pc
         /\ Moved(e, c).cursor = c /\ Moved(e, c).mask = Bits /\ Moved(e, c).saves = e.saves
<1>1. PICK m \in Bytes : m = Bits
  BY BytesBits
<1>2. Moved(e, c) = [e EXCEPT !.cursor = c, !.mask = m]
  BY <1>1 DEF Moved
<1> QED
  BY <1>1, <1>2 DEF Branches

LEMMA ResumedFields ==
  ASSUME NEW e \in Branches, NEW c \in Nat, NEW s \in Seq(Addresses)
  PROVE  /\ Resumed(e, c, s) \in Branches /\ Resumed(e, c, s).ok = e.ok /\ Resumed(e, c, s).pc = e.pc
         /\ Resumed(e, c, s).cursor = c /\ Resumed(e, c, s).mask = Bits /\ Resumed(e, c, s).saves = s
<1>1. PICK m \in Bytes : m = Bits
  BY BytesBits
<1>2. Resumed(e, c, s) = [e EXCEPT !.cursor = c, !.saves = s, !.mask = m]
  BY <1>1 DEF Resumed
<1> QED
  BY <1>1, <1>2 DEF Branches

LEMMA HoldingFields ==
  ASSUME NEW e \in Branches, NEW s \in Seq(Addresses)
  PROVE  /\ Holding(e, s) \in Branches /\ Holding(e, s).ok = e.ok /\ Holding(e, s).pc = e.pc
         /\ Holding(e, s).cursor = e.cursor /\ Holding(e, s).mask = e.mask /\ Holding(e, s).saves = s
  BY DEF Holding, Branches

(* Advance goes on or fails, by the atom it is at and the length of the      *)
(* program.                                                                  *)
LEMMA AdvanceFields ==
  ASSUME NEW sc, NEW e \in Branches, NEW by \in Nat
  PROVE  /\ Advance(sc, e, by) \in Branches
         /\ Advance(sc, e, by).cursor = e.cursor /\ Advance(sc, e, by).mask = e.mask
         /\ Advance(sc, e, by).saves = e.saves
         /\ IF e.pc + by <= Len(sc.program)
            THEN Advance(sc, e, by).ok = e.ok /\ Advance(sc, e, by).pc = e.pc + by
            ELSE Advance(sc, e, by).ok = FALSE /\ Advance(sc, e, by).pc = e.pc
<1>1. CASE e.pc + by <= Len(sc.program)
  <2>1. PICK p \in Nat : p = e.pc + by
    BY BranchFields
  <2>2. Advance(sc, e, by) = [e EXCEPT !.pc = p]
    BY <1>1, <2>1, Zenon DEF Advance
  <2>3. /\ Advance(sc, e, by) \in Branches /\ Advance(sc, e, by).ok = e.ok /\ Advance(sc, e, by).pc = p
        /\ Advance(sc, e, by).cursor = e.cursor /\ Advance(sc, e, by).mask = e.mask
        /\ Advance(sc, e, by).saves = e.saves
    BY <2>2 DEF Branches
  <2> QED
    BY <1>1, <2>1, <2>3, Zenon
<1>2. CASE ~(e.pc + by <= Len(sc.program))
  <2>1. Advance(sc, e, by) = Fail(e)
    BY <1>2, Zenon DEF Advance
  <2> QED
    BY <1>2, <2>1, FailFields, Zenon
<1> QED
  BY <1>1, <1>2

(* The same for all the branches at one atom.                               *)
AdvanceFrom(sc, by, p) ==
  \A z \in Branches : z.pc = p =>
    /\ Advance(sc, z, by).cursor = z.cursor /\ Advance(sc, z, by).mask = z.mask
    /\ IF p + by <= Len(sc.program)
       THEN Advance(sc, z, by).ok = z.ok /\ Advance(sc, z, by).pc = p + by
       ELSE Advance(sc, z, by).ok = FALSE /\ Advance(sc, z, by).pc = p

LEMMA AdvanceAt ==
  ASSUME NEW sc, NEW by \in Nat, NEW p
  PROVE  AdvanceFrom(sc, by, p)
<1> SUFFICES ASSUME NEW z \in Branches, p = z.pc
             PROVE  /\ Advance(sc, z, by).cursor = z.cursor /\ Advance(sc, z, by).mask = z.mask
                    /\ IF p + by <= Len(sc.program)
                       THEN Advance(sc, z, by).ok = z.ok /\ Advance(sc, z, by).pc = p + by
                       ELSE Advance(sc, z, by).ok = FALSE /\ Advance(sc, z, by).pc = p
  BY DEF AdvanceFrom
<1> QED
  BY AdvanceFields

(* A call makes a branch of a branch, with as many slots.                    *)
Runs == {run \in [Branches -> Branches] : \A e \in Branches : Len(run[e].saves) = Len(e.saves)}

(* Applying a call, directly or only to a branch that has not failed.        *)
LEMMA RunsFields ==
  ASSUME NEW run \in Runs, NEW e \in Branches
  PROVE  run[e] \in Branches /\ Len(run[e].saves) = Len(e.saves)
  BY DEF Runs

LEMMA ContinueFields ==
  ASSUME NEW run \in Runs, NEW e \in Branches
  PROVE  /\ Continue(run, e) \in Branches /\ Len(Continue(run, e).saves) = Len(e.saves)
         /\ IF e.ok THEN Continue(run, e) = run[e] ELSE Continue(run, e) = e
<1>1. CASE e.ok
  <2>1. Continue(run, e) = run[e]
    BY <1>1, Zenon DEF Continue
  <2> QED
    BY <1>1, <2>1, RunsFields, Zenon
<1>2. CASE ~e.ok
  BY <1>2, Zenon DEF Continue
<1> QED
  BY <1>1, <1>2

LEMMA ExtentType ==
  ASSUME NEW sc \in Scans, NEW e \in Branches, NEW n \in Nat
  PROVE  Extent(sc, e, n) \in Nat
<1>1. PICK r \in Int : r = Len(sc.image) - e.cursor
  BY ScanFields, BranchFields
<1>2. PICK a : a = Max({0, r})
  OBVIOUS
<1>3. a \in Nat
  <2>1. a \in {0, r} /\ a >= 0
    BY <1>1, <1>2, MaxOfTwo
  <2> QED
    BY <1>1, <2>1
<1>4. Min({n, a}) \in {n, a}
  BY <1>3, MinOfTwo
<1>5. Extent(sc, e, n) = IF n = 0 THEN a ELSE Min({n, a})
  BY <1>1, <1>2, Zenon DEF Extent
<1> QED
  BY <1>3, <1>4, <1>5

(* The next distance of a gap: tried only if none has succeeded.             *)
Farther(run, e, b, n) == IF b.ok THEN b ELSE run[Resumed(e, e.cursor + n - 1, b.saves)]

Slotted(e) == {b \in Branches : Len(b.saves) = Len(e.saves)}

(* Trying one more distance leaves a branch with as many slots.              *)
LEMMA FartherType ==
  ASSUME NEW run \in Runs, NEW e \in Branches, NEW b \in Slotted(e), NEW n \in Nat, n >= 1
  PROVE  Farther(run, e, b, n) \in Slotted(e)
<1>1. b \in Branches /\ Len(b.saves) = Len(e.saves) /\ b.saves \in Seq(Addresses)
  BY BranchFields DEF Slotted
<1>2. PICK c \in Nat : c = e.cursor + n - 1
  <2>1. e.cursor \in Nat
    BY BranchFields
  <2>2. e.cursor + n - 1 \in Nat
    BY <2>1
  <2> QED
    BY <2>2
<1>3. CASE b.ok
  BY <1>3, Zenon DEF Farther
<1>4. CASE ~b.ok
  <2>1. Farther(run, e, b, n) = run[Resumed(e, c, b.saves)]
    BY <1>2, <1>4, Zenon DEF Farther
  <2>2. Resumed(e, c, b.saves) \in Branches /\ Len(Resumed(e, c, b.saves).saves) = Len(e.saves)
    BY <1>1, ResumedFields
  <2>3. run[Resumed(e, c, b.saves)] \in Branches /\ Len(run[Resumed(e, c, b.saves)].saves) = Len(e.saves)
    BY <2>2, RunsFields
  <2> QED
    BY <2>1, <2>3, Zenon DEF Slotted
<1> QED
  BY <1>3, <1>4

(* The distances of a gap one after the other, as the fold over them that    *)
(* Retried is.                                                               *)
LEMMA RetriedIs ==
  ASSUME NEW run \in Runs, NEW e \in Branches, NEW extent \in Nat
  PROVE  \E tried : /\ Retried(run, e, extent) = tried[extent]
                    /\ tried[0] = Fail(e)
                    /\ \A n \in 1 .. extent : tried[n] = Farther(run, e, tried[n - 1], n)
                    /\ \A n \in 0 .. extent : tried[n] \in Slotted(e)
<1> DEFINE S == Slotted(e)
           G == [n \in 1 .. extent |-> [v \in S |-> Farther(run, e, v, n)]]
<1>1. G \in [1 .. extent -> [S -> S]]
  <2>1. ASSUME NEW n \in 1 .. extent, NEW v \in S PROVE Farther(run, e, v, n) \in S
    BY FartherType
  <2> HIDE DEF S
  <2> QED
    BY <2>1
<1>2. \A n \in 1 .. extent, v \in S : G[n][v] = Farther(run, e, v, n)
  OBVIOUS
<1>3. Fail(e) \in S
  BY FailFields DEF Slotted
<1>20. S = Slotted(e)
  OBVIOUS
<1> HIDE DEF G, S
<1>4. PICK f : Recursive(f, extent, Fail(e), G) /\ \A n \in 1 .. extent : f[n - 1] \in S
  BY <1>1, <1>3, Recursively, Zenon
<1>5. ASSUME NEW n \in 0 .. extent, n # 0 PROVE G[n][f[n - 1]] = Farther(run, e, f[n - 1], n)
  <2>1. n \in 1 .. extent
    BY <1>5
  <2> QED
    BY <2>1, <1>2, <1>4, Zenon
<1>6. \A n \in 0 .. extent :
        (IF n = 0 THEN Fail(e) ELSE G[n][f[n - 1]]) = (IF n = 0 THEN Fail(e) ELSE Farther(run, e, f[n - 1], n))
  BY <1>5, Zenon
<1>7. f = [n \in 0 .. extent |->
             IF n = 0 THEN Fail(e)
             ELSE IF f[n - 1].ok THEN f[n - 1]
                  ELSE run[[e EXCEPT !.cursor = @ + n - 1, !.saves = f[n - 1].saves, !.mask = Bits]]]
  BY <1>4, <1>6, Zenon DEF Recursive, Farther, Resumed
<1> DEFINE P(t) ==
      t = [n \in 0 .. extent |->
             IF n = 0 THEN Fail(e)
             ELSE LET before == t[n - 1]
                  IN IF before.ok THEN before
                     ELSE run[[e EXCEPT !.cursor = @ + n - 1, !.saves = before.saves, !.mask = Bits]]]
<1>8. Retried(run, e, extent) = (CHOOSE t : P(t))[extent]
  BY Zenon DEF Retried
<1>81. P(f)
  BY <1>7, Zenon
<1>82. \A t : P(t) => \A n \in 0 .. extent :
                        t[n] = IF n = 0 THEN Fail(e) ELSE Farther(run, e, t[n - 1], n)
  BY Zenon DEF Farther, Resumed
<1> HIDE DEF P
<1>83. P(CHOOSE t : P(t))
  BY <1>81, Zenon
<1>9. PICK tried : /\ Retried(run, e, extent) = tried[extent]
                   /\ \A n \in 0 .. extent :
                        tried[n] = IF n = 0 THEN Fail(e) ELSE Farther(run, e, tried[n - 1], n)
  BY <1>8, <1>82, <1>83, Zenon
<1>10. tried[0] = Fail(e) /\ \A n \in 1 .. extent : tried[n] = Farther(run, e, tried[n - 1], n)
  BY <1>9
<1> DEFINE T == {n \in 0 .. extent : tried[n] \in S}
<1>11. 0 \in T
  BY <1>3, <1>10
<1>12. ASSUME NEW n \in 1 .. extent, n - 1 \in T PROVE n \in T
  <2>1. tried[n - 1] \in Slotted(e) /\ n \in Nat /\ n >= 1
    BY <1>12, <1>20
  <2>2. Farther(run, e, tried[n - 1], n) \in Slotted(e)
    BY <2>1, FartherType
  <2>3. tried[n] \in S
    BY <1>10, <1>20, <2>2, Zenon
  <2> QED
    BY <2>3
<1> HIDE DEF T
<1>13. \A n \in 0 .. extent : n \in T
  BY <1>11, <1>12, IntervalInduction
<1>14. \A n \in 0 .. extent : tried[n] \in Slotted(e)
  BY <1>13, <1>20 DEF T
<1> QED
  BY <1>9, <1>10, <1>14, Zenon

LEMMA ProgramAtom ==
  ASSUME NEW sc \in Scans, NEW p \in Nat, p < Len(sc.program)
  PROVE  sc.program[p + 1] \in Atoms
<1>1. p + 1 \in 1 .. Len(sc.program) /\ sc.program \in Seq(Atoms)
  BY ScanFields
<1> QED
  BY <1>1

(* What a call makes of a branch, by the atom it is at.                      *)
LEMMA TurnEnd ==
  ASSUME NEW sc, NEW run, NEW e, e.pc >= Len(sc.program)
  PROVE  Turn(sc, run, e) = e
  BY Zenon DEF Turn

(* What Turn makes of a branch, by the kind of the atom.                     *)
LEMMA TurnAtom ==
  ASSUME NEW sc \in Scans, NEW run, NEW e \in Branches, e.pc < Len(sc.program),
         NEW atom, atom = sc.program[e.pc + 1]
  PROVE  /\ atom.op = "pop" => Turn(sc, run, e) = Stepped(e)
         /\ atom.op = "break" => Turn(sc, run, e) = Advance(sc, Stepped(e), atom.next)
         /\ atom.op = "many" => Turn(sc, run, e) = Retried(run, Stepped(e), Extent(sc, Stepped(e), atom.limit))
         /\ atom.op = "push" =>
              \E nested : /\ nested = run[Masked(Stepped(e), Bits)]
                          /\ Turn(sc, run, e) = Continue(run, Moved(nested, e.cursor + Movement(atom.by)))
         /\ atom.op = "case" =>
              \E branch : /\ branch = run[Masked(Stepped(e), Bits)]
                          /\ Turn(sc, run, e) = IF branch.ok THEN run[Masked(branch, e.mask)]
                                                ELSE Continue(run, Advance(sc, Holding(Stepped(e), branch.saves), atom.next))
         /\ atom.op \notin Branching => Turn(sc, run, e) = Continue(run, Apply(sc, Stepped(e), atom))
<1>0. PICK next \in Branches : /\ next = Stepped(e) /\ next = [e EXCEPT !.pc = @ + 1]
                               /\ next.cursor = e.cursor /\ next.mask = e.mask
  BY SteppedFields DEF Stepped
<1>1. ~(e.pc >= Len(sc.program))
  BY BranchFields, ScanFields
<1>2. Turn(sc, run, e) =
        CASE atom.op = "pop"   -> next
          [] atom.op = "break" -> Advance(sc, next, atom.next)
          [] atom.op = "many"  -> Retried(run, next, Extent(sc, next, atom.limit))
          [] atom.op = "push"  -> Pushed(run, next, next.cursor + Movement(atom.by))
          [] atom.op = "case"  -> Chosen(sc, run, next, atom.next)
          [] OTHER -> Continue(run, Apply(sc, next, atom))
  BY <1>0, <1>1, Zenon DEF Turn
<1>3. atom.op = "pop" => Turn(sc, run, e) = next
  BY <1>2
<1>4. atom.op = "break" => Turn(sc, run, e) = Advance(sc, next, atom.next)
  BY <1>2
<1>5. atom.op = "many" => Turn(sc, run, e) = Retried(run, next, Extent(sc, next, atom.limit))
  BY <1>2
<1>6. atom.op = "push" => Turn(sc, run, e) = Pushed(run, next, next.cursor + Movement(atom.by))
  BY <1>2
<1>7. atom.op = "case" => Turn(sc, run, e) = Chosen(sc, run, next, atom.next)
  BY <1>2
<1>8. atom.op \notin Branching => Turn(sc, run, e) = Continue(run, Apply(sc, next, atom))
  BY <1>2 DEF Branching
<1> HIDE <1>2
<1>9. ASSUME atom.op = "push"
      PROVE  \E nested : /\ nested = run[Masked(next, Bits)]
                         /\ Turn(sc, run, e) = Continue(run, Moved(nested, e.cursor + Movement(atom.by)))
  BY <1>0, <1>6, <1>9, Zenon DEF Pushed, Moved, Masked
<1>10. ASSUME atom.op = "case"
       PROVE  \E branch : /\ branch = run[Masked(next, Bits)]
                          /\ Turn(sc, run, e) = IF branch.ok THEN run[Masked(branch, e.mask)]
                                                ELSE Continue(run, Advance(sc, Holding(next, branch.saves), atom.next))
  BY <1>0, <1>7, <1>10, Zenon DEF Chosen, Holding, Masked
<1> QED
  BY <1>0, <1>3, <1>4, <1>5, <1>8, <1>9, <1>10, Zenon

LEMMA TurnPop ==
  ASSUME NEW sc \in Scans, NEW run, NEW e \in Branches, e.pc < Len(sc.program),
         NEW atom, atom = sc.program[e.pc + 1], NEW next, next = Stepped(e), atom.op = "pop"
  PROVE  Turn(sc, run, e) = next
  BY TurnAtom

LEMMA TurnBreak ==
  ASSUME NEW sc \in Scans, NEW run, NEW e \in Branches, e.pc < Len(sc.program),
         NEW atom, atom = sc.program[e.pc + 1], NEW next, next = Stepped(e), atom.op = "break"
  PROVE  Turn(sc, run, e) = Advance(sc, next, atom.next)
  BY TurnAtom

LEMMA TurnMany ==
  ASSUME NEW sc \in Scans, NEW run, NEW e \in Branches, e.pc < Len(sc.program),
         NEW atom, atom = sc.program[e.pc + 1], NEW next, next = Stepped(e), atom.op = "many"
  PROVE  Turn(sc, run, e) = Retried(run, next, Extent(sc, next, atom.limit))
  BY TurnAtom

LEMMA TurnPush ==
  ASSUME NEW sc \in Scans, NEW run, NEW e \in Branches, e.pc < Len(sc.program),
         NEW atom, atom = sc.program[e.pc + 1], NEW next, next = Stepped(e), atom.op = "push",
         NEW nested, nested = run[Masked(next, Bits)], NEW c, c = e.cursor + Movement(atom.by)
  PROVE  Turn(sc, run, e) = Continue(run, Moved(nested, c))
  BY TurnAtom

LEMMA TurnCase ==
  ASSUME NEW sc \in Scans, NEW run, NEW e \in Branches, e.pc < Len(sc.program),
         NEW atom, atom = sc.program[e.pc + 1], NEW next, next = Stepped(e), atom.op = "case",
         NEW branch, branch = run[Masked(next, Bits)]
  PROVE  /\ branch.ok => Turn(sc, run, e) = run[Masked(branch, e.mask)]
         /\ ~branch.ok => Turn(sc, run, e) = Continue(run, Advance(sc, Holding(next, branch.saves), atom.next))
  BY TurnAtom

LEMMA TurnApply ==
  ASSUME NEW sc \in Scans, NEW run, NEW e \in Branches, e.pc < Len(sc.program),
         NEW atom, atom = sc.program[e.pc + 1], NEW next, next = Stepped(e), atom.op \notin Branching
  PROVE  Turn(sc, run, e) = Continue(run, Apply(sc, next, atom))
  BY TurnAtom

(* The same for all the branches at one atom.                               *)
LEMMA TurnsPop ==
  ASSUME NEW sc \in Scans, NEW run, NEW p \in Nat, p < Len(sc.program),
         NEW atom, atom = sc.program[p + 1], atom.op = "pop"
  PROVE  \A z \in Branches : z.pc = p => Turn(sc, run, z) = Stepped(z)
  BY TurnAtom

LEMMA TurnsBreak ==
  ASSUME NEW sc \in Scans, NEW run, NEW p \in Nat, p < Len(sc.program),
         NEW atom, atom = sc.program[p + 1], atom.op = "break"
  PROVE  \A z \in Branches : z.pc = p => Turn(sc, run, z) = Advance(sc, Stepped(z), atom.next)
  BY TurnAtom

LEMMA TurnsMany ==
  ASSUME NEW sc \in Scans, NEW run, NEW p \in Nat, p < Len(sc.program),
         NEW atom, atom = sc.program[p + 1], atom.op = "many"
  PROVE  \A z \in Branches : z.pc = p =>
           Turn(sc, run, z) = Retried(run, Stepped(z), Extent(sc, Stepped(z), atom.limit))
  BY TurnAtom

LEMMA TurnsPush ==
  ASSUME NEW sc \in Scans, NEW run, NEW p \in Nat, p < Len(sc.program),
         NEW atom, atom = sc.program[p + 1], atom.op = "push"
  PROVE  \A z \in Branches : z.pc = p =>
           Turn(sc, run, z) = Continue(run, Moved(run[Masked(Stepped(z), Bits)], z.cursor + Movement(atom.by)))
  BY TurnAtom

LEMMA TurnsCase ==
  ASSUME NEW sc \in Scans, NEW run, NEW p \in Nat, p < Len(sc.program),
         NEW atom, atom = sc.program[p + 1], atom.op = "case"
  PROVE  \A z \in Branches : z.pc = p =>
           /\ run[Masked(Stepped(z), Bits)].ok =>
                Turn(sc, run, z) = run[Masked(run[Masked(Stepped(z), Bits)], z.mask)]
           /\ ~run[Masked(Stepped(z), Bits)].ok =>
                Turn(sc, run, z) =
                  Continue(run, Advance(sc, Holding(Stepped(z), run[Masked(Stepped(z), Bits)].saves), atom.next))
  BY TurnAtom

LEMMA TurnsApply ==
  ASSUME NEW sc \in Scans, NEW run, NEW p \in Nat, p < Len(sc.program),
         NEW atom, atom = sc.program[p + 1], atom.op \notin Branching
  PROVE  \A z \in Branches : z.pc = p => Turn(sc, run, z) = Continue(run, Apply(sc, Stepped(z), atom))
  BY TurnAtom

(* A turn makes a branch of a branch, with as many slots.                    *)
LEMMA TurnType ==
  ASSUME NEW sc \in Scans, NEW run \in Runs, NEW e \in Branches
  PROVE  Turn(sc, run, e) \in Branches /\ Len(Turn(sc, run, e).saves) = Len(e.saves)
<1>1. CASE e.pc >= Len(sc.program)
  BY <1>1, TurnEnd
<1>2. CASE e.pc < Len(sc.program)
  <2>0. PICK atom \in Atoms : atom = sc.program[e.pc + 1]
    BY <1>2, ProgramAtom, BranchFields
  <2>1. PICK next \in Branches : /\ next = Stepped(e) /\ Len(next.saves) = Len(e.saves)
                                 /\ next.cursor = e.cursor /\ next.cursor \in Nat
    BY SteppedFields, BranchFields
  <2>2. PICK nested \in Branches : nested = run[Masked(next, Bits)] /\ Len(nested.saves) = Len(e.saves)
    <3>1. Masked(next, Bits) \in Branches /\ Len(Masked(next, Bits).saves) = Len(e.saves)
      BY <2>1, MaskedFields, BytesBits
    <3> QED
      BY <3>1, RunsFields
  <2>3. CASE atom.op = "pop"
    <3>1. Turn(sc, run, e) = next
      BY <1>2, <2>0, <2>1, <2>3, TurnPop
    <3> QED
      BY <2>1, <3>1, Zenon
  <2>4. CASE atom.op = "break"
    <3>1. Turn(sc, run, e) = Advance(sc, next, atom.next)
      BY <1>2, <2>0, <2>1, <2>4, TurnBreak
    <3>2. atom.next \in Nat
      BY <2>4, AtomFields
    <3>3. Advance(sc, next, atom.next) \in Branches /\ Advance(sc, next, atom.next).saves = next.saves
      BY <3>2, AdvanceFields
    <3> QED
      BY <2>1, <3>1, <3>3, Zenon
  <2>5. CASE atom.op = "many"
    <3>1. PICK n \in Nat : n = Extent(sc, next, atom.limit)
      BY <2>5, AtomFields, ExtentType
    <3>2. Turn(sc, run, e) = Retried(run, next, n)
      BY <1>2, <2>0, <2>1, <2>5, <3>1, TurnMany
    <3>3. PICK tried : Retried(run, next, n) = tried[n] /\ \A k \in 0 .. n : tried[k] \in Slotted(next)
      BY RetriedIs
    <3>4. Retried(run, next, n) \in Slotted(next)
      BY <3>3
    <3> QED
      BY <2>1, <3>2, <3>4 DEF Slotted
  <2>6. CASE atom.op = "push"
    <3>1. PICK c \in Nat : c = e.cursor + Movement(atom.by)
      <4>1. e.cursor \in Nat /\ atom.by \in Nat /\ PointerBytes \in Nat
        BY <2>6, AtomFields, BranchFields, PointerAssumption
      <4>2. e.cursor + Movement(atom.by) \in Nat
        BY <4>1 DEF Movement
      <4> QED
        BY <4>2
    <3>2. Turn(sc, run, e) = Continue(run, Moved(nested, c))
      BY <1>2, <2>0, <2>1, <2>2, <2>6, <3>1, TurnPush
    <3>3. Moved(nested, c) \in Branches /\ Moved(nested, c).saves = nested.saves
      BY MovedFields
    <3>4. Continue(run, Moved(nested, c)) \in Branches /\ Len(Continue(run, Moved(nested, c)).saves) = Len(e.saves)
      BY <2>2, <3>3, ContinueFields
    <3> QED
      BY <3>2, <3>4, Zenon
  <2>7. CASE atom.op = "case"
    <3>1. /\ nested.ok => Turn(sc, run, e) = run[Masked(nested, e.mask)]
          /\ ~nested.ok =>
               Turn(sc, run, e) = Continue(run, Advance(sc, Holding(next, nested.saves), atom.next))
      BY <1>2, <2>0, <2>1, <2>2, <2>7, TurnCase
    <3>2. CASE nested.ok
      <4>1. Masked(nested, e.mask) \in Branches /\ Len(Masked(nested, e.mask).saves) = Len(e.saves)
        BY <2>2, BranchFields, MaskedFields
      <4>2. Turn(sc, run, e) = run[Masked(nested, e.mask)]
        BY <3>1, <3>2, Zenon
      <4> QED
        BY <4>1, <4>2, RunsFields
    <3>3. CASE ~nested.ok
      <4>1. PICK h \in Branches : h = Holding(next, nested.saves) /\ Len(h.saves) = Len(e.saves)
        BY <2>2, BranchFields, HoldingFields
      <4>2. PICK a \in Branches : a = Advance(sc, h, atom.next) /\ Len(a.saves) = Len(e.saves)
        <5>1. atom.next \in Nat
          BY <2>7, AtomFields
        <5>2. Advance(sc, h, atom.next) \in Branches /\ Advance(sc, h, atom.next).saves = h.saves
          BY <5>1, AdvanceFields
        <5> QED
          BY <4>1, <5>2
      <4>3. Turn(sc, run, e) = Continue(run, a)
        BY <3>1, <3>3, <4>1, <4>2, Zenon
      <4> QED
        BY <4>2, <4>3, ContinueFields
    <3> QED
      BY <3>2, <3>3
  <2>8. CASE atom.op \notin Branching
    <3>1. Turn(sc, run, e) = Continue(run, Apply(sc, next, atom))
      BY <1>2, <2>0, <2>1, <2>8, TurnApply
    <3>2. Apply(sc, next, atom) \in Branches /\ Len(Apply(sc, next, atom).saves) = Len(e.saves)
      BY <2>1, <2>8, ApplyType
    <3>3. /\ Continue(run, Apply(sc, next, atom)) \in Branches
          /\ Len(Continue(run, Apply(sc, next, atom)).saves) = Len(e.saves)
      BY <3>2, ContinueFields
    <3> QED
      BY <3>1, <3>3, Zenon
  <2> QED
    BY <2>3, <2>4, <2>5, <2>6, <2>7, <2>8 DEF Branching
<1> QED
  BY <1>1, <1>2, BranchFields, ScanFields

(* The recursion of run, by the number of atoms still to go.                 *)
LEMMA RunIs ==
  ASSUME NEW sc \in Scans
  PROVE  /\ \A n \in 0 .. Len(sc.program) : Run(sc)[n] \in Runs
         /\ \A e \in Branches : Run(sc)[0][e] = e
         /\ \A n \in 1 .. Len(sc.program), e \in Branches : Run(sc)[n][e] = Turn(sc, Run(sc)[n - 1], e)
<1>0. PICK N \in Nat : N = Len(sc.program)
  BY ScanFields
<1> DEFINE Turned(run) == [e \in Branches |-> Turn(sc, run, e)]
           Same == [e \in Branches |-> e]
           G == [n \in 1 .. N |-> [v \in Runs |-> Turned(v)]]
<1>1. \A run \in Runs : Turned(run) \in Runs
  <2> TAKE run \in Runs
  <2>1. \A e \in Branches : Turn(sc, run, e) \in Branches /\ Len(Turn(sc, run, e).saves) = Len(e.saves)
    BY TurnType
  <2> QED
    BY <2>1 DEF Runs
<1>2. Same \in Runs
  BY DEF Runs
<1>3. \A run : Turned(run) = [e \in Branches |-> Turn(sc, run, e)]
  OBVIOUS
<1>4. Same = [e \in Branches |-> e]
  OBVIOUS
<1> HIDE DEF Turned, Same
<1>5. G \in [1 .. N -> [Runs -> Runs]]
  BY <1>1
<1>6. \A n \in 1 .. N, v \in Runs : G[n][v] = Turned(v)
  OBVIOUS
<1> HIDE DEF G
<1>7. PICK f : Recursive(f, N, Same, G) /\ \A n \in 1 .. N : f[n - 1] \in Runs
  BY <1>2, <1>5, Recursively, Zenon
<1>8. ASSUME NEW n \in 0 .. N, n # 0 PROVE G[n][f[n - 1]] = Turned(f[n - 1])
  <2>1. n \in 1 .. N
    BY <1>8
  <2> QED
    BY <2>1, <1>6, <1>7, Zenon
<1>9. \A n \in 0 .. N :
        (IF n = 0 THEN Same ELSE G[n][f[n - 1]]) = (IF n = 0 THEN Same ELSE Turned(f[n - 1]))
  BY <1>8, Zenon
<1>10. f = [n \in 0 .. N |-> IF n = 0 THEN Same ELSE Turned(f[n - 1])]
  BY <1>7, <1>9, Zenon DEF Recursive
<1> DEFINE P(t) == t = [n \in 0 .. N |-> IF n = 0 THEN Same ELSE Turned(t[n - 1])]
<1>11. Run(sc) = CHOOSE t : P(t)
  BY <1>0, <1>3, <1>4, Zenon DEF Run
<1>12. P(f)
  BY <1>10, Zenon
<1>13. \A t : P(t) => \A n \in 0 .. N : t[n] = IF n = 0 THEN Same ELSE Turned(t[n - 1])
  BY Zenon
<1> HIDE DEF P
<1>14. P(CHOOSE t : P(t))
  BY <1>12, Zenon
<1>15. \A n \in 0 .. N : Run(sc)[n] = IF n = 0 THEN Same ELSE Turned(Run(sc)[n - 1])
  BY <1>11, <1>13, <1>14, Zenon
<1>16. Run(sc)[0] = Same /\ \A n \in 1 .. N : Run(sc)[n] = Turned(Run(sc)[n - 1])
  BY <1>15
<1> DEFINE T == {n \in 0 .. N : Run(sc)[n] \in Runs}
<1>17. 0 \in T
  BY <1>2, <1>16
<1>18. \A n \in 1 .. N : n - 1 \in T => n \in T
  BY <1>1, <1>16
<1>19. \A n \in 0 .. N : n \in T
  <2> HIDE DEF T
  <2> QED
    BY <1>17, <1>18, IntervalInduction
<1>20. \A n \in 0 .. N : Run(sc)[n] \in Runs
  BY <1>19
<1>21. \A e \in Branches : Run(sc)[0][e] = e
  BY <1>4, <1>16
<1>22. \A n \in 1 .. N, e \in Branches : Run(sc)[n][e] = Turn(sc, Run(sc)[n - 1], e)
  BY <1>3, <1>16
<1> QED
  BY <1>0, <1>20, <1>21, <1>22, Zenon

-----------------------------------------------------------------------------
(* Two calls of a program that compares no capture, on branches that differ  *)
(* in their captures alone: they end alike, and a slot that both of them     *)
(* have ends with the same value in both or as it began in both.             *)

Linked(e, f, E, F) ==
  /\ E \in Branches /\ F \in Branches
  /\ Len(E.saves) = Len(e.saves) /\ Len(F.saves) = Len(f.saves)
  /\ Alike(E, F)
  /\ \A i \in Nat : 1 <= i /\ i <= Len(e.saves) /\ i <= Len(f.saves) =>
       E.saves[i] = F.saves[i] \/ (E.saves[i] = e.saves[i] /\ F.saves[i] = f.saves[i])

LinkedRuns == {run \in Runs : \A e, f \in Branches : Alike(e, f) => Linked(e, f, run[e], run[f])}

(* A program that reads no capture back.                                     *)
Blind(program) == \A i \in 1 .. Len(program) : program[i].op \notin Comparing

(* The branches a call makes of its own are alike if what they are made of   *)
(* is.                                                                       *)
LEMMA AlikeBranches ==
  ASSUME NEW e \in Branches, NEW f \in Branches, Alike(e, f)
  PROVE  /\ Alike(Stepped(e), Stepped(f))
         /\ \A m \in Bytes : Alike(Masked(e, m), Masked(f, m))
         /\ \A c \in Nat : Alike(Moved(e, c), Moved(f, c))
         /\ \A c \in Nat : \A s, r \in Seq(Addresses) : Alike(Resumed(e, c, s), Resumed(f, c, r))
         /\ \A s, r \in Seq(Addresses) : Alike(Holding(e, s), Holding(f, r))
<1>1. /\ Stepped(e).ok = e.ok /\ Stepped(e).pc = e.pc + 1 /\ Stepped(e).cursor = e.cursor /\ Stepped(e).mask = e.mask
      /\ Stepped(f).ok = f.ok /\ Stepped(f).pc = f.pc + 1 /\ Stepped(f).cursor = f.cursor /\ Stepped(f).mask = f.mask
  BY SteppedFields
<1>2. ASSUME NEW m \in Bytes PROVE Alike(Masked(e, m), Masked(f, m))
  <2>1. /\ Masked(e, m).ok = e.ok /\ Masked(e, m).pc = e.pc /\ Masked(e, m).cursor = e.cursor /\ Masked(e, m).mask = m
        /\ Masked(f, m).ok = f.ok /\ Masked(f, m).pc = f.pc /\ Masked(f, m).cursor = f.cursor /\ Masked(f, m).mask = m
    BY MaskedFields
  <2> QED
    BY <2>1, Zenon DEF Alike
<1>3. ASSUME NEW c \in Nat PROVE Alike(Moved(e, c), Moved(f, c))
  <2>1. /\ Moved(e, c).ok = e.ok /\ Moved(e, c).pc = e.pc /\ Moved(e, c).cursor = c /\ Moved(e, c).mask = Bits
        /\ Moved(f, c).ok = f.ok /\ Moved(f, c).pc = f.pc /\ Moved(f, c).cursor = c /\ Moved(f, c).mask = Bits
    BY MovedFields
  <2> QED
    BY <2>1, Zenon DEF Alike
<1>4. ASSUME NEW c \in Nat, NEW s \in Seq(Addresses), NEW r \in Seq(Addresses)
      PROVE  Alike(Resumed(e, c, s), Resumed(f, c, r))
  <2>1. /\ Resumed(e, c, s).ok = e.ok /\ Resumed(e, c, s).pc = e.pc
        /\ Resumed(e, c, s).cursor = c /\ Resumed(e, c, s).mask = Bits
    BY ResumedFields, SMTT(30)
  <2>2. /\ Resumed(f, c, r).ok = f.ok /\ Resumed(f, c, r).pc = f.pc
        /\ Resumed(f, c, r).cursor = c /\ Resumed(f, c, r).mask = Bits
    BY ResumedFields, SMTT(30)
  <2> QED
    BY <2>1, <2>2, Zenon DEF Alike
<1>5. ASSUME NEW s \in Seq(Addresses), NEW r \in Seq(Addresses) PROVE Alike(Holding(e, s), Holding(f, r))
  <2>1. /\ Holding(e, s).ok = e.ok /\ Holding(e, s).pc = e.pc
        /\ Holding(e, s).cursor = e.cursor /\ Holding(e, s).mask = e.mask
    BY HoldingFields
  <2>2. /\ Holding(f, r).ok = f.ok /\ Holding(f, r).pc = f.pc
        /\ Holding(f, r).cursor = f.cursor /\ Holding(f, r).mask = f.mask
    BY HoldingFields
  <2> QED
    BY <2>1, <2>2, Zenon DEF Alike
<1>6. Alike(Stepped(e), Stepped(f))
  BY <1>1, Zenon DEF Alike
<1> QED
  BY <1>2, <1>3, <1>4, <1>5, <1>6

(* Linked is reflexive, transitive, and closed under everything that         *)
(* leaves the slots.                                                         *)
LEMMA LinkedSelf ==
  ASSUME NEW e \in Branches, NEW f \in Branches, Alike(e, f)
  PROVE  Linked(e, f, e, f)
  BY Zenon DEF Linked

LEMMA LinkedFields ==
  ASSUME NEW e, NEW f, NEW E, NEW F, Linked(e, f, E, F)
  PROVE  /\ E \in Branches /\ F \in Branches
         /\ Len(E.saves) = Len(e.saves) /\ Len(F.saves) = Len(f.saves) /\ Alike(E, F)
  BY DEF Linked

LEMMA LinkedBy ==
  ASSUME NEW e, NEW f, NEW E, NEW F, Linked(e, f, E, F),
         NEW G \in Branches, NEW H \in Branches, G.saves = E.saves, H.saves = F.saves, Alike(G, H)
  PROVE  Linked(e, f, G, H)
  BY DEF Linked

LEMMA LinkedTrans ==
  ASSUME NEW e, NEW f, NEW E, NEW F, NEW G, NEW H, Linked(e, f, E, F), Linked(E, F, G, H)
  PROVE  Linked(e, f, G, H)
<1>1. /\ G \in Branches /\ H \in Branches /\ Alike(G, H)
      /\ Len(G.saves) = Len(e.saves) /\ Len(H.saves) = Len(f.saves)
      /\ Len(E.saves) = Len(e.saves) /\ Len(F.saves) = Len(f.saves)
  BY DEF Linked
<1>2. ASSUME NEW i \in Nat, 1 <= i, i <= Len(e.saves), i <= Len(f.saves)
      PROVE  G.saves[i] = H.saves[i] \/ (G.saves[i] = e.saves[i] /\ H.saves[i] = f.saves[i])
  <2>1. E.saves[i] = F.saves[i] \/ (E.saves[i] = e.saves[i] /\ F.saves[i] = f.saves[i])
    BY <1>2 DEF Linked
  <2>2. G.saves[i] = H.saves[i] \/ (G.saves[i] = E.saves[i] /\ H.saves[i] = F.saves[i])
    BY <1>1, <1>2 DEF Linked
  <2> QED
    BY <2>1, <2>2
<1> QED
  BY <1>1, <1>2 DEF Linked

(* Linked branches stay linked through a call.                               *)
LEMMA LinkedContinue ==
  ASSUME NEW run \in LinkedRuns, NEW e, NEW f, NEW E, NEW F, Linked(e, f, E, F)
  PROVE  Linked(e, f, Continue(run, E), Continue(run, F))
<1>1. E \in Branches /\ F \in Branches /\ Alike(E, F) /\ run \in Runs
  BY LinkedFields DEF LinkedRuns
<1>2. CASE E.ok
  <2>1. F.ok
    BY <1>1, <1>2 DEF Alike
  <2>2. Continue(run, E) = run[E] /\ Continue(run, F) = run[F]
    BY <1>2, <2>1, Zenon DEF Continue
  <2>3. Linked(E, F, run[E], run[F])
    BY <1>1 DEF LinkedRuns
  <2>4. Linked(e, f, run[E], run[F])
    BY <2>3, LinkedTrans
  <2> QED
    BY <2>2, <2>4, Zenon
<1>3. CASE ~E.ok
  <2>1. ~F.ok
    BY <1>1, <1>3 DEF Alike
  <2>2. Continue(run, E) = E /\ Continue(run, F) = F
    BY <1>3, <2>1, Zenon DEF Continue
  <2> QED
    BY <2>2, Zenon
<1> QED
  BY <1>2, <1>3

LEMMA LinkedCall ==
  ASSUME NEW run \in LinkedRuns, NEW e, NEW f, NEW E, NEW F, Linked(e, f, E, F)
  PROVE  Linked(e, f, run[E], run[F])
<1>1. E \in Branches /\ F \in Branches /\ Alike(E, F)
  BY LinkedFields
<1>2. Linked(E, F, run[E], run[F])
  BY <1>1 DEF LinkedRuns
<1> QED
  BY <1>2, LinkedTrans

(* What a write leaves in each of the slots.                                 *)
LEMMA WriteSlots ==
  ASSUME NEW e \in Branches, NEW k \in Nat, NEW v \in Addresses, NEW i \in Nat, 1 <= i, i <= Len(e.saves)
  PROVE  Write(e, k, v).saves[i] = IF i = k + 1 THEN v ELSE e.saves[i]
<1>1. CASE k < Len(e.saves)
  <2>1. e.saves \in Seq(Addresses) /\ k + 1 \in 1 .. Len(e.saves) /\ i \in 1 .. Len(e.saves)
    BY <1>1, BranchFields
  <2>2. PICK s \in Seq(Addresses) : s = [e.saves EXCEPT ![k + 1] = v]
    <3>1. [e.saves EXCEPT ![k + 1] = v] \in Seq(Addresses)
      BY <2>1
    <3> QED
      BY <3>1
  <2>3. Write(e, k, v) = [e EXCEPT !.saves = s]
    BY <1>1, <2>2 DEF Write, Branches
  <2>4. Write(e, k, v).saves = s
    BY <2>3 DEF Branches
  <2>5. s[i] = IF i = k + 1 THEN v ELSE e.saves[i]
    BY <2>1, <2>2
  <2> QED
    BY <2>4, <2>5, Zenon
<1>2. CASE ~(k < Len(e.saves))
  <2>1. Write(e, k, v) = e
    BY <1>2, Zenon DEF Write
  <2>2. i # k + 1
    BY <1>2, BranchFields
  <2> QED
    BY <2>1, <2>2, Zenon
<1> QED
  BY <1>1, <1>2

(* Linked branches stay linked through an atom, a gap and a turn.            *)
LEMMA LinkedApply ==
  ASSUME NEW sc \in Scans, NEW e \in Branches, NEW f \in Branches, Alike(e, f),
         NEW atom \in Atoms, atom.op \notin Branching, atom.op \notin Comparing
  PROVE  Linked(e, f, Apply(sc, e, atom), Apply(sc, f, atom))
<1>1. PICK E \in Branches, F \in Branches : E = Apply(sc, e, atom) /\ F = Apply(sc, f, atom)
  BY ApplyType
<1>2. \E r \in Effects : E = After(e, r) /\ F = After(f, r)
  <2>1. Stores(e, f, Apply(sc, e, atom), Apply(sc, f, atom), atom.slot)
           \/ Alters(e, f, Apply(sc, e, atom), Apply(sc, f, atom))
    BY ApplyEffect
  <2>2. ASSUME Stores(e, f, Apply(sc, e, atom), Apply(sc, f, atom), atom.slot)
        PROVE  \E r \in Effects : E = After(e, r) /\ F = After(f, r)
    BY <1>1, <2>2, Zenon DEF Stores
  <2>3. ASSUME Alters(e, f, Apply(sc, e, atom), Apply(sc, f, atom))
        PROVE  \E r \in Effects : E = After(e, r) /\ F = After(f, r)
    BY <1>1, <2>3, Zenon DEF Alters
  <2> QED
    BY <2>1, <2>2, <2>3
<1>3. PICK r \in Effects : E = After(e, r) /\ F = After(f, r)
  BY <1>2, Zenon
<1>4. Alike(E, F)
  BY <1>3, AfterFields DEF Alike
<1>5. Len(E.saves) = Len(e.saves) /\ Len(F.saves) = Len(f.saves)
  BY <1>3, AfterFields
<1>6. CASE r.stored
  <2>1. E.saves = Write(e, r.slot, r.value).saves /\ F.saves = Write(f, r.slot, r.value).saves
    BY <1>3, <1>6, AfterFields
  <2>2. r.slot \in Nat /\ r.value \in Addresses
    BY EffectFields
  <2>3. ASSUME NEW i \in Nat, 1 <= i, i <= Len(e.saves), i <= Len(f.saves)
        PROVE  E.saves[i] = F.saves[i] \/ (E.saves[i] = e.saves[i] /\ F.saves[i] = f.saves[i])
    BY <2>1, <2>2, <2>3, WriteSlots
  <2> QED
    BY <1>1, <1>4, <1>5, <2>3 DEF Linked
<1>7. CASE ~r.stored
  <2>1. E.saves = e.saves /\ F.saves = f.saves
    BY <1>3, <1>7, AfterFields
  <2>2. Linked(e, f, E, F)
    BY <2>1, <1>4, LinkedSelf, LinkedBy
  <2> QED
    BY <1>1, <2>2
<1> QED
  BY <1>6, <1>7

LEMMA LinkedRetried ==
  ASSUME NEW run \in LinkedRuns, NEW e \in Branches, NEW f \in Branches, Alike(e, f), NEW extent \in Nat
  PROVE  Linked(e, f, Retried(run, e, extent), Retried(run, f, extent))
<1>0. run \in Runs
  BY DEF LinkedRuns
<1>1. PICK t : /\ Retried(run, e, extent) = t[extent] /\ t[0] = Fail(e)
               /\ \A n \in 1 .. extent : t[n] = Farther(run, e, t[n - 1], n)
               /\ \A n \in 0 .. extent : t[n] \in Slotted(e)
  BY <1>0, RetriedIs
<1>2. PICK u : /\ Retried(run, f, extent) = u[extent] /\ u[0] = Fail(f)
               /\ \A n \in 1 .. extent : u[n] = Farther(run, f, u[n - 1], n)
               /\ \A n \in 0 .. extent : u[n] \in Slotted(f)
  BY <1>0, RetriedIs
<1> DEFINE T == {n \in 0 .. extent : Linked(e, f, t[n], u[n])}
<1>3. 0 \in T
  <2>1. Alike(Fail(e), Fail(f)) /\ Linked(e, f, e, f)
    BY FailFields, LinkedSelf DEF Alike
  <2>2. Linked(e, f, Fail(e), Fail(f))
    BY <2>1, FailFields, LinkedBy
  <2> QED
    BY <1>1, <1>2, <2>2
<1>4. ASSUME NEW n \in 1 .. extent, n - 1 \in T PROVE n \in T
  <2>1. PICK b, d : b = t[n - 1] /\ d = u[n - 1] /\ Linked(e, f, b, d)
    BY <1>4
  <2>2. b \in Branches /\ d \in Branches /\ Alike(b, d)
    BY <2>1, LinkedFields
  <2>3. t[n] = Farther(run, e, b, n) /\ u[n] = Farther(run, f, d, n)
    BY <1>1, <1>2, <2>1, Zenon
  <2>4. CASE b.ok
    <3>1. d.ok
      BY <2>2, <2>4 DEF Alike
    <3>2. t[n] = b /\ u[n] = d
      BY <2>3, <2>4, <3>1, Zenon DEF Farther
    <3>3. Linked(e, f, t[n], u[n])
      BY <2>1, <3>2, Zenon
    <3> QED
      BY <3>3
  <2>5. CASE ~b.ok
    <3>1. ~d.ok
      BY <2>2, <2>5 DEF Alike
    <3>2. PICK c \in Nat : c = e.cursor + n - 1 /\ c = f.cursor + n - 1
      <4>1. e.cursor \in Nat /\ e.cursor = f.cursor
        BY BranchFields DEF Alike
      <4>2. e.cursor + n - 1 \in Nat
        BY <4>1
      <4> QED
        BY <4>1, <4>2
    <3>3. PICK G \in Branches, H \in Branches : /\ G = Resumed(e, c, b.saves) /\ H = Resumed(f, c, d.saves)
                                                /\ G.saves = b.saves /\ H.saves = d.saves /\ Alike(G, H)
      <4>1. b.saves \in Seq(Addresses) /\ d.saves \in Seq(Addresses)
        BY <2>2, BranchFields
      <4>2. Alike(Resumed(e, c, b.saves), Resumed(f, c, d.saves))
        BY <4>1, AlikeBranches
      <4>3. /\ Resumed(e, c, b.saves) \in Branches /\ Resumed(f, c, d.saves) \in Branches
            /\ Resumed(e, c, b.saves).saves = b.saves /\ Resumed(f, c, d.saves).saves = d.saves
        BY <4>1, ResumedFields
      <4> QED
        BY <4>2, <4>3
    <3>4. Linked(e, f, G, H)
      BY <2>1, <3>3, LinkedBy
    <3>5. Linked(e, f, run[G], run[H])
      BY <3>4, LinkedCall
    <3>6. t[n] = run[G] /\ u[n] = run[H]
      BY <2>3, <2>5, <3>1, <3>2, <3>3, Zenon DEF Farther
    <3>7. Linked(e, f, t[n], u[n])
      BY <3>5, <3>6, Zenon
    <3> QED
      BY <3>7
  <2> QED
    BY <2>4, <2>5
<1> HIDE DEF T
<1>5. \A n \in 0 .. extent : n \in T
  BY <1>3, <1>4, IntervalInduction
<1>6. extent \in T
  BY <1>5
<1>7. Linked(e, f, t[extent], u[extent])
  BY <1>6 DEF T
<1> QED
  BY <1>1, <1>2, <1>7, Zenon

LEMMA LinkedAdvance ==
  ASSUME NEW sc, NEW e, NEW f, NEW E, NEW F, Linked(e, f, E, F), NEW by \in Nat
  PROVE  Linked(e, f, Advance(sc, E, by), Advance(sc, F, by))
<1>1. E \in Branches /\ F \in Branches /\ Alike(E, F)
  BY LinkedFields
<1>2. /\ Advance(sc, E, by) \in Branches /\ Advance(sc, F, by) \in Branches
      /\ Advance(sc, E, by).saves = E.saves /\ Advance(sc, F, by).saves = F.saves
  BY <1>1, AdvanceFields
<1>3. Alike(Advance(sc, E, by), Advance(sc, F, by))
  <2>1. PICK p : p = E.pc /\ p = F.pc
    BY <1>1 DEF Alike
  <2>2. AdvanceFrom(sc, by, p)
    BY AdvanceAt
  <2> QED
    BY <1>1, <2>1, <2>2, Zenon DEF Alike, AdvanceFrom
<1> QED
  BY <1>2, <1>3, LinkedBy


LEMMA LinkedTurn ==
  ASSUME NEW sc \in Scans, NEW run \in LinkedRuns, NEW e \in Branches, NEW f \in Branches, Alike(e, f),
         Blind(sc.program)
  PROVE  Linked(e, f, Turn(sc, run, e), Turn(sc, run, f))
<1>0. run \in Runs /\ e.pc = f.pc /\ e.cursor = f.cursor /\ e.mask = f.mask
  BY DEF LinkedRuns, Alike
<1>1. CASE e.pc >= Len(sc.program)
  <2>11. Turn(sc, run, e) = e
    BY <1>0, <1>1, TurnEnd
  <2>12. Turn(sc, run, f) = f
    BY <1>0, <1>1, TurnEnd
  <2>1. Turn(sc, run, e) = e /\ Turn(sc, run, f) = f
    BY <2>11, <2>12
  <2> QED
    BY <2>1, LinkedSelf
<1>2. CASE e.pc < Len(sc.program)
  <2>0. PICK atom \in Atoms : atom = sc.program[e.pc + 1] /\ atom.op \notin Comparing
    <3>1. sc.program[e.pc + 1] \in Atoms /\ e.pc + 1 \in 1 .. Len(sc.program)
      BY <1>2, ProgramAtom, BranchFields, ScanFields
    <3> QED
      BY <3>1 DEF Blind
  <2>00. PICK p \in Nat : p = e.pc /\ p = f.pc /\ p < Len(sc.program) /\ atom = sc.program[p + 1]
    BY <1>0, <1>2, <2>0, BranchFields
  <2>1. PICK x \in Branches, y \in Branches :
          /\ x = Stepped(e) /\ y = Stepped(f) /\ Linked(e, f, x, y) /\ Alike(x, y)
          /\ x.cursor = e.cursor /\ x.mask = e.mask /\ y.mask = f.mask
    <3>1. Stepped(e) \in Branches /\ Stepped(f) \in Branches /\ Alike(Stepped(e), Stepped(f))
      BY SteppedFields, AlikeBranches
    <3>2. Linked(e, f, Stepped(e), Stepped(f))
      BY <3>1, SteppedFields, LinkedSelf, LinkedBy
    <3>3. Stepped(e).cursor = e.cursor /\ Stepped(e).mask = e.mask /\ Stepped(f).mask = f.mask
      BY SteppedFields
    <3> QED
      BY <3>1, <3>2, <3>3
  <2>2. PICK N \in Branches, M \in Branches :
          /\ N = run[Masked(x, Bits)] /\ M = run[Masked(y, Bits)]
          /\ Linked(e, f, N, M) /\ Alike(N, M)
    <3>1. Masked(x, Bits) \in Branches /\ Masked(y, Bits) \in Branches 
      BY BytesBits, MaskedFields
    <3>5. Alike(Masked(x, Bits), Masked(y, Bits))
      BY <2>1, BytesBits, AlikeBranches
    <3>2. Masked(x, Bits).saves = x.saves /\ Masked(y, Bits).saves = y.saves
      BY <2>1, BytesBits, MaskedFields
    <3>3. Linked(e, f, Masked(x, Bits), Masked(y, Bits))
      BY <2>1, <3>1, <3>2, <3>5, LinkedBy
    <3>4. Linked(e, f, run[Masked(x, Bits)], run[Masked(y, Bits)])
      BY <3>3, LinkedCall
    <3> QED
      BY <3>4, LinkedFields
  <2>3. CASE atom.op = "pop"
    <3>11. \A z \in Branches : z.pc = p => Turn(sc, run, z) = Stepped(z)
      BY <2>00, <2>3, TurnsPop
    <3>12. Turn(sc, run, e) = x
      BY <2>00, <2>1, <3>11, Zenon
    <3>13. Turn(sc, run, f) = y
      BY <1>0, <2>00, <2>1, <3>11, Zenon
    <3>1. Turn(sc, run, e) = x /\ Turn(sc, run, f) = y
      BY <3>12, <3>13
    <3> QED
      BY <2>1, <3>1, Zenon
  <2>4. CASE atom.op = "break"
    <3>11. \A z \in Branches : z.pc = p => Turn(sc, run, z) = Advance(sc, Stepped(z), atom.next)
      BY <2>00, <2>4, TurnsBreak
    <3>12. Turn(sc, run, e) = Advance(sc, x, atom.next)
      BY <2>00, <2>1, <3>11, Zenon
    <3>13. Turn(sc, run, f) = Advance(sc, y, atom.next)
      BY <1>0, <2>00, <2>1, <3>11, Zenon
    <3>1. Turn(sc, run, e) = Advance(sc, x, atom.next) /\ Turn(sc, run, f) = Advance(sc, y, atom.next)
      BY <3>12, <3>13
    <3>2. atom.next \in Nat
      BY <2>4, AtomFields
    <3>3. Linked(e, f, Advance(sc, x, atom.next), Advance(sc, y, atom.next))
      BY <2>1, <3>2, LinkedAdvance
    <3> QED
      BY <3>1, <3>3, Zenon
  <2>5. CASE atom.op = "many"
    <3>1. PICK n \in Nat : n = Extent(sc, x, atom.limit)
      BY <2>5, AtomFields, ExtentType
    <3>2. n = Extent(sc, y, atom.limit)
      BY <2>1, <3>1, Zenon DEF Extent, Alike
    <3>31. \A z \in Branches : z.pc = p => Turn(sc, run, z) = Retried(run, Stepped(z), Extent(sc, Stepped(z), atom.limit))
      BY <2>00, <2>5, TurnsMany
    <3>32. Turn(sc, run, e) = Retried(run, x, n)
      BY <2>00, <2>1, <3>1, <3>2, <3>31, Zenon
    <3>33. Turn(sc, run, f) = Retried(run, y, n)
      BY <1>0, <2>00, <2>1, <3>1, <3>2, <3>31, Zenon
    <3>3. Turn(sc, run, e) = Retried(run, x, n) /\ Turn(sc, run, f) = Retried(run, y, n)
      BY <3>32, <3>33
    <3>4. Linked(x, y, Retried(run, x, n), Retried(run, y, n))
      BY <2>1, LinkedRetried
    <3>5. Linked(e, f, Retried(run, x, n), Retried(run, y, n))
      BY <2>1, <3>4, LinkedTrans
    <3> QED
      BY <3>3, <3>5, Zenon
  <2>6. CASE atom.op = "push"
    <3>1. PICK c \in Nat : c = e.cursor + Movement(atom.by)
      <4>1. e.cursor \in Nat /\ atom.by \in Nat /\ PointerBytes \in Nat
        BY <2>6, AtomFields, BranchFields, PointerAssumption
      <4>2. e.cursor + Movement(atom.by) \in Nat
        BY <4>1 DEF Movement
      <4> QED
        BY <4>2
    <3>2. c = f.cursor + Movement(atom.by)
      BY <1>0, <3>1, Zenon
    <3>31. \A z \in Branches : z.pc = p => Turn(sc, run, z) = Continue(run, Moved(run[Masked(Stepped(z), Bits)], z.cursor + Movement(atom.by)))
      BY <2>00, <2>6, TurnsPush
    <3>32. Turn(sc, run, e) = Continue(run, Moved(N, c))
      BY <2>00, <2>1, <2>2, <3>1, <3>2, <3>31, Zenon
    <3>33. Turn(sc, run, f) = Continue(run, Moved(M, c))
      BY <1>0, <2>00, <2>1, <2>2, <3>1, <3>2, <3>31, Zenon
    <3>3. Turn(sc, run, e) = Continue(run, Moved(N, c)) /\ Turn(sc, run, f) = Continue(run, Moved(M, c))
      BY <3>32, <3>33
    <3>4. Linked(e, f, Moved(N, c), Moved(M, c))
      <4>1. Moved(N, c) \in Branches /\ Moved(M, c) \in Branches /\ Moved(N, c).saves = N.saves /\ Moved(M, c).saves = M.saves
        BY MovedFields
      <4>2. Alike(Moved(N, c), Moved(M, c))
        BY <2>2, AlikeBranches
      <4> QED
        BY <2>2, <4>1, <4>2, LinkedBy
    <3>5. Linked(e, f, Continue(run, Moved(N, c)), Continue(run, Moved(M, c)))
      BY <3>4, LinkedContinue
    <3> QED
      BY <3>3, <3>5, Zenon
  <2>7. CASE atom.op = "case"
    <3>1. CASE N.ok
      <4>1. M.ok
        BY <2>2, <3>1 DEF Alike
      <4>2. PICK m \in Bytes : m = e.mask /\ m = f.mask
        BY <1>0, BranchFields
      <4>31. \A z \in Branches : z.pc = p =>
               /\ run[Masked(Stepped(z), Bits)].ok =>
                    Turn(sc, run, z) = run[Masked(run[Masked(Stepped(z), Bits)], z.mask)]
               /\ ~run[Masked(Stepped(z), Bits)].ok =>
                    Turn(sc, run, z) =
                      Continue(run, Advance(sc, Holding(Stepped(z), run[Masked(Stepped(z), Bits)].saves), atom.next))
        BY <2>00, <2>7, TurnsCase
      <4>32. Turn(sc, run, e) = run[Masked(N, m)]
        BY <2>00, <2>1, <2>2, <3>1, <4>1, <4>2, <4>31, Zenon
      <4>33. Turn(sc, run, f) = run[Masked(M, m)]
        BY <1>0, <2>00, <2>1, <2>2, <3>1, <4>1, <4>2, <4>31, Zenon
      <4>3. Turn(sc, run, e) = run[Masked(N, m)] /\ Turn(sc, run, f) = run[Masked(M, m)]
        BY <4>32, <4>33
      <4>4. Linked(e, f, Masked(N, m), Masked(M, m))
        <5>1. Masked(N, m) \in Branches /\ Masked(M, m) \in Branches /\ Masked(N, m).saves = N.saves /\ Masked(M, m).saves = M.saves
          BY MaskedFields
        <5>2. Alike(Masked(N, m), Masked(M, m))
          BY <2>2, AlikeBranches
        <5> QED
          BY <2>2, <5>1, <5>2, LinkedBy
      <4>5. Linked(e, f, run[Masked(N, m)], run[Masked(M, m)])
        BY <4>4, LinkedCall
      <4> QED
        BY <4>3, <4>5, Zenon
    <3>2. CASE ~N.ok
      <4>1. ~M.ok
        BY <2>2, <3>2 DEF Alike
      <4>2. PICK h \in Branches, g \in Branches :
              /\ h = Holding(x, N.saves) /\ g = Holding(y, M.saves)
              /\ h.saves = N.saves /\ g.saves = M.saves /\ Alike(h, g)
        <5>1. N.saves \in Seq(Addresses) /\ M.saves \in Seq(Addresses)
          BY BranchFields
        <5>2. /\ Holding(x, N.saves) \in Branches /\ Holding(y, M.saves) \in Branches
              /\ Holding(x, N.saves).saves = N.saves /\ Holding(y, M.saves).saves = M.saves
          BY <5>1, HoldingFields
        <5>5. Alike(Holding(x, N.saves), Holding(y, M.saves))
          BY <2>1, <5>1, AlikeBranches
        <5> QED
          BY <5>2, <5>5
      <4>3. Linked(e, f, h, g)
        BY <2>2, <4>2, LinkedBy
      <4>4. atom.next \in Nat
        BY <2>7, AtomFields
      <4>5. Linked(e, f, Advance(sc, h, atom.next), Advance(sc, g, atom.next))
        BY <4>3, <4>4, LinkedAdvance
      <4>61. \A z \in Branches : z.pc = p =>
               /\ run[Masked(Stepped(z), Bits)].ok =>
                    Turn(sc, run, z) = run[Masked(run[Masked(Stepped(z), Bits)], z.mask)]
               /\ ~run[Masked(Stepped(z), Bits)].ok =>
                    Turn(sc, run, z) =
                      Continue(run, Advance(sc, Holding(Stepped(z), run[Masked(Stepped(z), Bits)].saves), atom.next))
        BY <2>00, <2>7, TurnsCase
      <4>62. Turn(sc, run, e) = Continue(run, Advance(sc, h, atom.next))
        BY <2>00, <2>1, <2>2, <3>2, <4>1, <4>2, <4>61, Zenon
      <4>63. Turn(sc, run, f) = Continue(run, Advance(sc, g, atom.next))
        BY <1>0, <2>00, <2>1, <2>2, <3>2, <4>1, <4>2, <4>61, Zenon
      <4>6. Turn(sc, run, e) = Continue(run, Advance(sc, h, atom.next)) /\ Turn(sc, run, f) = Continue(run, Advance(sc, g, atom.next))
        BY <4>62, <4>63
      <4>7. Linked(e, f, Continue(run, Advance(sc, h, atom.next)), Continue(run, Advance(sc, g, atom.next)))
        BY <4>5, LinkedContinue
      <4> QED
        BY <4>6, <4>7, Zenon
    <3> QED
      BY <3>1, <3>2
  <2>8. CASE atom.op \notin Branching
    <3>11. \A z \in Branches : z.pc = p => Turn(sc, run, z) = Continue(run, Apply(sc, Stepped(z), atom))
      BY <2>00, <2>8, TurnsApply
    <3>12. Turn(sc, run, e) = Continue(run, Apply(sc, x, atom))
      BY <2>00, <2>1, <3>11, Zenon
    <3>13. Turn(sc, run, f) = Continue(run, Apply(sc, y, atom))
      BY <1>0, <2>00, <2>1, <3>11, Zenon
    <3>1. Turn(sc, run, e) = Continue(run, Apply(sc, x, atom)) /\ Turn(sc, run, f) = Continue(run, Apply(sc, y, atom))
      BY <3>12, <3>13
    <3>2. Linked(x, y, Apply(sc, x, atom), Apply(sc, y, atom))
      BY <2>0, <2>1, <2>8, LinkedApply
    <3>3. Linked(e, f, Apply(sc, x, atom), Apply(sc, y, atom))
      BY <2>1, <3>2, LinkedTrans
    <3>4. Linked(e, f, Continue(run, Apply(sc, x, atom)), Continue(run, Apply(sc, y, atom)))
      BY <3>3, LinkedContinue
    <3> QED
      BY <3>1, <3>4, Zenon
  <2> QED
    BY <2>3, <2>4, <2>5, <2>6, <2>7, <2>8 DEF Branching
<1> QED
  BY <1>1, <1>2, BranchFields, ScanFields

(* Calls of a program that compares no capture are parallel.                 *)
LEMMA RunLinked ==
  ASSUME NEW sc \in Scans, Blind(sc.program)
  PROVE  \A n \in 0 .. Len(sc.program) : Run(sc)[n] \in LinkedRuns
<1>0. PICK N \in Nat : N = Len(sc.program)
  BY ScanFields
<1> DEFINE T == {n \in 0 .. N : Run(sc)[n] \in LinkedRuns}
<1>1. 0 \in T
  <2>1. Run(sc)[0] \in Runs /\ \A e \in Branches : Run(sc)[0][e] = e
    BY <1>0, RunIs
  <2>2. \A e, f \in Branches : Alike(e, f) => Linked(e, f, Run(sc)[0][e], Run(sc)[0][f])
    BY <2>1, LinkedSelf
  <2> QED
    BY <2>1, <2>2 DEF LinkedRuns
<1>2. ASSUME NEW n \in 1 .. N, n - 1 \in T PROVE n \in T
  <2>1. Run(sc)[n - 1] \in LinkedRuns
    BY <1>2
  <2>2. Run(sc)[n] \in Runs /\ \A e \in Branches : Run(sc)[n][e] = Turn(sc, Run(sc)[n - 1], e)
    BY <1>0, RunIs
  <2>3. \A e, f \in Branches : Alike(e, f) => Linked(e, f, Run(sc)[n][e], Run(sc)[n][f])
    BY <2>1, <2>2, LinkedTurn
  <2> QED
    BY <2>2, <2>3 DEF LinkedRuns
<1> HIDE DEF T
<1>3. \A n \in 0 .. N : n \in T
  BY <1>1, <1>2, IntervalInduction
<1> QED
  BY <1>0, <1>3 DEF T

-----------------------------------------------------------------------------
(* One execution.                                                            *)

Entry(start, s) == [ok |-> TRUE, pc |-> 0, cursor |-> start, saves |-> s, mask |-> Bits]

(* Exec calls Run on a branch at its start, or fails behind the image.       *)
LEMMA EntryFields ==
  ASSUME NEW start \in Nat, NEW s \in Seq(Addresses)
  PROVE  /\ Entry(start, s) \in Branches /\ Entry(start, s).ok = TRUE /\ Entry(start, s).pc = 0
         /\ Entry(start, s).cursor = start /\ Entry(start, s).saves = s /\ Entry(start, s).mask = Bits
<1>1. PICK m \in Bytes : m = Bits
  BY BytesBits
<1>2. Entry(start, s) = [ok |-> TRUE, pc |-> 0, cursor |-> start, saves |-> s, mask |-> m]
  BY <1>1 DEF Entry
<1> QED
  BY <1>1, <1>2 DEF Branches

LEMMA ExecIs ==
  ASSUME NEW sc, NEW start, NEW s
  PROVE  Exec(sc, start, s) = IF start > Len(sc.image) THEN Fail(Entry(start, s))
                              ELSE Run(sc)[Len(sc.program)][Entry(start, s)]
  BY DEF Exec, Entry

(* An execution ends in a branch with as many slots.                         *)
LEMMA ExecType ==
  ASSUME NEW sc \in Scans, NEW start \in Nat, NEW s \in Seq(Addresses)
  PROVE  /\ Exec(sc, start, s) \in Branches
         /\ Exec(sc, start, s).ok \in BOOLEAN
         /\ Exec(sc, start, s).saves \in Seq(Addresses)
         /\ Len(Exec(sc, start, s).saves) = Len(s)
<1>0. PICK e \in Branches : e = Entry(start, s) /\ e.saves = s
  BY EntryFields
<1>1. CASE start > Len(sc.image)
  <2>1. Exec(sc, start, s) = Fail(e)
    BY <1>0, <1>1, ExecIs, Zenon
  <2> QED
    BY <1>0, <2>1, FailFields, BranchFields
<1>2. CASE ~(start > Len(sc.image))
  <2>1. Exec(sc, start, s) = Run(sc)[Len(sc.program)][e]
    BY <1>0, <1>2, ExecIs, Zenon
  <2>2. Len(sc.program) \in 0 .. Len(sc.program)
    BY ScanFields
  <2>3. PICK run \in Runs : run = Run(sc)[Len(sc.program)]
    BY <2>2, RunIs
  <2>4. Exec(sc, start, s) = run[e]
    BY <2>1, <2>3, Zenon
  <2> QED
    BY <1>0, <2>4, RunsFields, BranchFields
<1> QED
  BY <1>1, <1>2

(* Two executions from one start, with different captures, are linked.       *)
LEMMA ExecLinked ==
  ASSUME NEW sc \in Scans, Blind(sc.program), NEW start \in Nat,
         NEW s \in Seq(Addresses), NEW r \in Seq(Addresses)
  PROVE  Linked(Entry(start, s), Entry(start, r), Exec(sc, start, s), Exec(sc, start, r))
<1>0. PICK e \in Branches, f \in Branches : e = Entry(start, s) /\ f = Entry(start, r) /\ Alike(e, f)
  <2>1. Alike(Entry(start, s), Entry(start, r))
    BY DEF Entry, Alike
  <2> QED
    BY <2>1, EntryFields
<1>1. CASE start > Len(sc.image)
  <2>1. Exec(sc, start, s) = Fail(e) /\ Exec(sc, start, r) = Fail(f)
    BY <1>0, <1>1, ExecIs, Zenon
  <2>2. Alike(Fail(e), Fail(f)) /\ Linked(e, f, e, f)
    BY <1>0, FailFields, LinkedSelf DEF Alike
  <2>3. Linked(e, f, Fail(e), Fail(f))
    BY <2>2, FailFields, LinkedBy
  <2> QED
    BY <1>0, <2>1, <2>3, Zenon
<1>2. CASE ~(start > Len(sc.image))
  <2>1. /\ Exec(sc, start, s) = Run(sc)[Len(sc.program)][e]
        /\ Exec(sc, start, r) = Run(sc)[Len(sc.program)][f]
    BY <1>0, <1>2, ExecIs, Zenon
  <2>2. Len(sc.program) \in 0 .. Len(sc.program)
    BY ScanFields
  <2>3. PICK run \in LinkedRuns : run = Run(sc)[Len(sc.program)]
    BY <2>2, RunLinked
  <2>4. Linked(e, f, run[e], run[f])
    BY <1>0 DEF LinkedRuns
  <2> QED
    BY <1>0, <2>1, <2>3, <2>4, Zenon
<1> QED
  BY <1>1, <1>2

(* Without comparisons the captures do not decide.                           *)
LEMMA ExecBlind ==
  ASSUME NEW sc \in Scans, Blind(sc.program), NEW start \in Nat,
         NEW s \in Seq(Addresses), NEW r \in Seq(Addresses)
  PROVE  Exec(sc, start, s).ok = Exec(sc, start, r).ok
  BY ExecLinked DEF Linked, Alike

-----------------------------------------------------------------------------
(* A search, without the number of its turns: it always has enough.          *)

Founds == [at : Int, saves : Seq(Addresses)]

(* The candidate at or after each start, if there is one.                    *)
Discoveries(end) ==
  {c \in [0 .. end - 1 -> Int] : \A n \in 0 .. end - 1 : c[n] = Missing \/ (n <= c[n] /\ c[n] < end)}

(* What a search begins with.                                                *)
LEMMA SearchFields ==
  ASSUME NEW next \in Nat, NEW c \in Seq(Addresses)
  PROVE  /\ [next |-> next, saves |-> c] \in Searches
         /\ [next |-> next, saves |-> c].next = next /\ [next |-> next, saves |-> c].saves = c
  BY DEF Searches

LEMMA SearchesFields ==
  ASSUME NEW from \in Searches
  PROVE  /\ from.next \in Nat /\ from.saves \in Seq(Addresses)
         /\ from = [next |-> from.next, saves |-> from.saves]
  BY DEF Searches

LEMMA NotFoundType ==
  ASSUME NEW c \in Seq(Addresses)
  PROVE  NotFound(c) \in Founds
  BY DEF NotFound, Founds, Missing

(* Deciding a candidate ends the search or goes on behind it.                *)
LEMMA DecideType ==
  ASSUME scan \in Scans, NEW f \in [Searches -> Founds], NEW candidate \in Nat, NEW c \in Seq(Addresses)
  PROVE  /\ Decide(f, candidate, c) \in Founds
         /\ Exec(scan, candidate, c).ok =>
              Decide(f, candidate, c) = [at |-> candidate, saves |-> Exec(scan, candidate, c).saves]
         /\ ~Exec(scan, candidate, c).ok =>
              Decide(f, candidate, c) = f[[next |-> candidate + 1, saves |-> Exec(scan, candidate, c).saves]]
<1>1. PICK e \in Branches : e = Exec(scan, candidate, c) /\ e.saves \in Seq(Addresses)
  BY ExecType
<1>2. Decide(f, candidate, c) =
        IF e.ok THEN [at |-> candidate, saves |-> e.saves]
        ELSE f[[next |-> candidate + 1, saves |-> e.saves]]
  BY <1>1, Zenon DEF Decide
<1>3. [at |-> candidate, saves |-> e.saves] \in Founds
  BY <1>1 DEF Founds
<1>4. f[[next |-> candidate + 1, saves |-> e.saves]] \in Founds
  <2>1. candidate + 1 \in Nat
    OBVIOUS
  <2>2. [next |-> candidate + 1, saves |-> e.saves] \in Searches
    BY <1>1, <2>1 DEF Searches
  <2> QED
    BY <2>2
<1>5. CASE e.ok
  BY <1>1, <1>2, <1>3, <1>5, Zenon
<1>6. CASE ~e.ok
  BY <1>1, <1>2, <1>4, <1>6, Zenon
<1> QED
  BY <1>5, <1>6

(* What the turns of a search make of every start.                           *)
Searched(cands, end, search) ==
  /\ \A next, c : Search(cands, end, next, c) = search[end][[next |-> next, saves |-> c]]
  /\ \A n \in 0 .. end : search[n] \in [Searches -> Founds]
  /\ \A n \in 0 .. end, from \in Searches :
       n = 0 \/ from.next >= end \/ cands[from.next] = Missing => search[n][from] = NotFound(from.saves)
  /\ \A n \in 1 .. end, from \in Searches :
       ~(from.next >= end \/ cands[from.next] = Missing) =>
         search[n][from] = Decide(search[n - 1], cands[from.next], from.saves)

(* The function of turns and starts that Search is defined by exists, with   *)
(* its recursion.                                                            *)
LEMMA SearchIs ==
  ASSUME scan \in Scans, NEW end \in Nat, NEW cands \in Discoveries(end)
  PROVE  \E search : Searched(cands, end, search)
<1> DEFINE S == [Searches -> Founds]
           Stops(from) == from.next >= end \/ cands[from.next] = Missing
           Turned(n, g) == [from \in Searches |->
                              IF n = 0 \/ Stops(from) THEN NotFound(from.saves)
                              ELSE Decide(g, cands[from.next], from.saves)]
           Start == [from \in Searches |-> NotFound(from.saves)]
           G == [n \in 1 .. end |-> [g \in S |-> Turned(n, g)]]
<1>1. Start \in S
  BY NotFoundType, SearchesFields
<1>2. ASSUME NEW n \in Nat, NEW g \in S PROVE Turned(n, g) \in S
  <2>1. ASSUME NEW from \in Searches PROVE (IF n = 0 \/ Stops(from) THEN NotFound(from.saves)
                                            ELSE Decide(g, cands[from.next], from.saves)) \in Founds
    <3>1. CASE n = 0 \/ Stops(from)
      BY <3>1, NotFoundType, SearchesFields
    <3>2. CASE ~(n = 0 \/ Stops(from))
      <4>1. from.next \in 0 .. end - 1 /\ cands[from.next] # Missing
        BY <3>2, SearchesFields
      <4>2. cands[from.next] \in Nat
        BY <4>1 DEF Discoveries
      <4>3. Decide(g, cands[from.next], from.saves) \in Founds
        BY <4>2, SearchesFields, DecideType
      <4> QED
        BY <3>2, <4>3, Zenon
    <3> QED
      BY <3>1, <3>2
  <2> QED
    BY <2>1, Zenon
<1>3. \A n, g : Turned(n, g) = [from \in Searches |->
                              IF n = 0 \/ Stops(from) THEN NotFound(from.saves)
                              ELSE Decide(g, cands[from.next], from.saves)]
  OBVIOUS
<1>4. \A g : Turned(0, g) = Start
  BY Zenon
<1> HIDE DEF Turned, Start
<1>5. G \in [1 .. end -> [S -> S]]
  BY <1>2
<1>6. \A n \in 1 .. end, v \in S : G[n][v] = Turned(n, v)
  OBVIOUS
<1> HIDE DEF G, S
<1>7. PICK f : Recursive(f, end, Start, G) /\ \A n \in 1 .. end : f[n - 1] \in S
  BY <1>1, <1>5, Recursively, Zenon
<1>8. ASSUME NEW n \in 0 .. end, n # 0 PROVE G[n][f[n - 1]] = Turned(n, f[n - 1])
  <2>1. n \in 1 .. end
    BY <1>8
  <2> QED
    BY <2>1, <1>6, <1>7, Zenon
<1>9. \A n \in 0 .. end : (IF n = 0 THEN Start ELSE G[n][f[n - 1]]) = Turned(n, f[n - 1])
  BY <1>4, <1>8, Zenon
<1> DEFINE P(t) == t = [n \in 0 .. end |-> Turned(n, t[n - 1])]
<1>10. P(f)
  BY <1>7, <1>9, Zenon DEF Recursive
<1>11. \A next, c : Search(cands, end, next, c) = (CHOOSE t : P(t))[end][[next |-> next, saves |-> c]]
  BY <1>3, Zenon DEF Search
<1>12. \A t : P(t) => \A n \in 0 .. end : t[n] = Turned(n, t[n - 1])
  BY Zenon
<1> HIDE DEF P
<1>13. P(CHOOSE t : P(t))
  BY <1>10, Zenon
<1>14. PICK search : /\ \A next, c : Search(cands, end, next, c) = search[end][[next |-> next, saves |-> c]]
                     /\ \A n \in 0 .. end : search[n] = Turned(n, search[n - 1])
  BY <1>11, <1>12, <1>13, Zenon
<1> DEFINE T == {n \in 0 .. end : search[n] \in S}
<1>15. 0 \in T
  <2>1. 0 \in 0 .. end
    OBVIOUS
  <2>2. search[0] = Start
    BY <2>1, <1>4, <1>14, Zenon
  <2> QED
    BY <2>1, <2>2, <1>1
<1>16. ASSUME NEW n \in 1 .. end, n - 1 \in T PROVE n \in T
  <2>1. n \in 0 .. end /\ n \in Nat /\ search[n - 1] \in S
    BY <1>16
  <2>2. search[n] = Turned(n, search[n - 1])
    BY <2>1, <1>14, Zenon
  <2> QED
    BY <1>2, <2>1, <2>2
<1> HIDE DEF T
<1>17. \A n \in 0 .. end : n \in T
  BY <1>15, <1>16, IntervalInduction
<1>18. \A n \in 0 .. end : search[n] \in S
  BY <1>17 DEF T
<1>19. \A n \in 0 .. end, from \in Searches :
         search[n][from] = IF n = 0 \/ Stops(from) THEN NotFound(from.saves)
                           ELSE Decide(search[n - 1], cands[from.next], from.saves)
  <2> TAKE n \in 0 .. end, from \in Searches
  <2>1. search[n] = [x \in Searches |->
                       IF n = 0 \/ Stops(x) THEN NotFound(x.saves)
                       ELSE Decide(search[n - 1], cands[x.next], x.saves)]
    BY <1>3, <1>14, Zenon
  <2> QED
    BY <2>1, Zenon
<1>20. \A n \in 0 .. end, from \in Searches : n = 0 \/ Stops(from) => search[n][from] = NotFound(from.saves)
  BY <1>19, Zenon
<1>21. \A n \in 1 .. end, from \in Searches :
         ~Stops(from) => search[n][from] = Decide(search[n - 1], cands[from.next], from.saves)
  <2>1. \A n \in 1 .. end : n \in 0 .. end /\ n # 0
    OBVIOUS
  <2> QED
    BY <1>19, <2>1, Zenon
<1> QED
  <2>1. \A n \in 0 .. end : search[n] \in [Searches -> Founds]
    BY <1>18 DEF S
  <2> HIDE DEF Stops
  <2>2. \A n \in 0 .. end, from \in Searches :
          n = 0 \/ from.next >= end \/ cands[from.next] = Missing => search[n][from] = NotFound(from.saves)
    BY <1>20, Zenon DEF Stops
  <2>3. \A n \in 1 .. end, from \in Searches :
          ~(from.next >= end \/ cands[from.next] = Missing) =>
            search[n][from] = Decide(search[n - 1], cands[from.next], from.saves)
    BY <1>21, Zenon DEF Stops
  <2>4. Searched(cands, end, search)
    BY <1>14, <2>1, <2>2, <2>3, Zenon DEF Searched
  <2> QED
    BY <2>4

(* The recursion of a search by its start alone.                             *)
LEMMA SearchSteps ==
  ASSUME scan \in Scans, NEW end \in Nat, NEW cands \in Discoveries(end),
         NEW next \in Nat, NEW c \in Seq(Addresses)
  PROVE  /\ next >= end \/ cands[next] = Missing => Search(cands, end, next, c) = NotFound(c)
         /\ ~(next >= end \/ cands[next] = Missing) =>
              /\ Exec(scan, cands[next], c).ok =>
                   Search(cands, end, next, c) = [at |-> cands[next], saves |-> Exec(scan, cands[next], c).saves]
              /\ ~Exec(scan, cands[next], c).ok =>
                   Search(cands, end, next, c) =
                     Search(cands, end, cands[next] + 1, Exec(scan, cands[next], c).saves)
<1>1. PICK search :
           /\ \A n, d : Search(cands, end, n, d) = search[end][[next |-> n, saves |-> d]]
           /\ \A n \in 0 .. end : search[n] \in [Searches -> Founds]
           /\ \A n \in 0 .. end, from \in Searches :
                n = 0 \/ from.next >= end \/ cands[from.next] = Missing => search[n][from] = NotFound(from.saves)
           /\ \A n \in 1 .. end, from \in Searches :
                ~(from.next >= end \/ cands[from.next] = Missing) =>
                  search[n][from] = Decide(search[n - 1], cands[from.next], from.saves)
  BY SearchIs, Zenon DEF Searched
<1> DEFINE T == {n \in 0 .. end : \A k \in 0 .. end, m \in 0 .. end, from \in Searches :
                    k >= n /\ m >= n /\ n + from.next >= end => search[k][from] = search[m][from]}
<1>2. 0 \in T
  <2>1. ASSUME NEW k \in 0 .. end, NEW m \in 0 .. end, NEW from \in Searches, 0 + from.next >= end
        PROVE  search[k][from] = search[m][from]
    <3>1. from.next >= end
      BY <2>1, SearchesFields
    <3>2. search[k][from] = NotFound(from.saves) /\ search[m][from] = NotFound(from.saves)
      BY <1>1, <3>1, Zenon
    <3> QED
      BY <3>2
  <2> QED
    BY <2>1
<1>3. ASSUME NEW n \in 1 .. end, n - 1 \in T PROVE n \in T
  <2>1. ASSUME NEW k \in 0 .. end, NEW m \in 0 .. end, NEW from \in Searches,
               k >= n, m >= n, n + from.next >= end
        PROVE  search[k][from] = search[m][from]
    <3>0. from.next \in Nat /\ from.saves \in Seq(Addresses) /\ k \in 1 .. end /\ m \in 1 .. end
      BY <2>1, SearchesFields
    <3>1. CASE from.next >= end \/ cands[from.next] = Missing
      <4>1. search[k][from] = NotFound(from.saves) /\ search[m][from] = NotFound(from.saves)
        BY <1>1, <3>1, Zenon
      <4> QED
        BY <4>1
    <3>2. CASE ~(from.next >= end \/ cands[from.next] = Missing)
      <4>1. search[k][from] = Decide(search[k - 1], cands[from.next], from.saves)
        BY <1>1, <3>0, <3>2, Zenon
      <4>2. search[m][from] = Decide(search[m - 1], cands[from.next], from.saves)
        BY <1>1, <3>0, <3>2, Zenon
      <4>3. PICK a \in Nat : a = cands[from.next] /\ from.next <= a /\ a < end
        <5>1. from.next \in 0 .. end - 1
          BY <3>0, <3>2
        <5>2. cands[from.next] \in Int /\ from.next <= cands[from.next] /\ cands[from.next] < end
          BY <3>2, <5>1 DEF Discoveries
        <5> QED
          BY <3>0, <5>2
      <4>4. PICK f, g : f = search[k - 1] /\ g = search[m - 1] /\ f \in [Searches -> Founds] /\ g \in [Searches -> Founds]
        <5>1. k - 1 \in 0 .. end /\ m - 1 \in 0 .. end
          BY <3>0
        <5> QED
          BY <1>1, <5>1
      <4>50. \A g0 \in [Searches -> Founds] :
              /\ Exec(scan, a, from.saves).ok =>
                   Decide(g0, a, from.saves) = [at |-> a, saves |-> Exec(scan, a, from.saves).saves]
              /\ ~Exec(scan, a, from.saves).ok =>
                   Decide(g0, a, from.saves) = g0[[next |-> a + 1, saves |-> Exec(scan, a, from.saves).saves]]
        BY <3>0, DecideType
      <4>5. CASE Exec(scan, a, from.saves).ok
        BY <4>50, <4>1, <4>2, <4>3, <4>4, <4>5, Zenon
      <4>6. CASE ~Exec(scan, a, from.saves).ok
        <5>1. PICK s \in Seq(Addresses) : s = Exec(scan, a, from.saves).saves
          BY <3>0, ExecType
        <5>20. a + 1 \in Nat
          OBVIOUS
        <5>21. [next |-> a + 1, saves |-> s] \in Searches /\ [next |-> a + 1, saves |-> s].next = a + 1
          BY <5>20, SearchFields
        <5>2. PICK to \in Searches : to = [next |-> a + 1, saves |-> s] /\ to.next = a + 1
          BY <5>21, Zenon
        <5>3. Decide(f, a, from.saves) = f[to] /\ Decide(g, a, from.saves) = g[to]
          BY <4>50, <4>4, <4>6, <5>1, <5>2, Zenon
        <5>4. /\ k - 1 \in 0 .. end /\ m - 1 \in 0 .. end
              /\ k - 1 >= n - 1 /\ m - 1 >= n - 1 /\ n - 1 + to.next >= end
          BY <2>1, <3>0, <4>3, <5>2
        <5>5. search[k - 1][to] = search[m - 1][to]
          BY <1>3, <5>4
        <5> QED
          BY <4>1, <4>2, <4>3, <4>4, <5>3, <5>5, Zenon
      <4> QED
        BY <4>5, <4>6
    <3> QED
      BY <3>1, <3>2
  <2> QED
    BY <2>1
<1> HIDE DEF T
<1>4. \A n \in 0 .. end : n \in T
  BY <1>2, <1>3, IntervalInduction
<1>50. /\ [next |-> next, saves |-> c] \in Searches
       /\ [next |-> next, saves |-> c].next = next /\ [next |-> next, saves |-> c].saves = c
  BY SearchFields
<1>5. PICK from \in Searches : from = [next |-> next, saves |-> c] /\ from.next = next /\ from.saves = c
  BY <1>50, Zenon
<1>6. Search(cands, end, next, c) = search[end][from] /\ end \in 0 .. end
  <2>1. Search(cands, end, next, c) = search[end][from]
    BY <1>1, <1>5, Zenon
  <2> QED
    BY <2>1
<1>7. CASE next >= end \/ cands[next] = Missing
  <2>1. search[end][from] = NotFound(from.saves)
    BY <1>1, <1>5, <1>6, <1>7, Zenon
  <2> QED
    BY <1>5, <1>6, <1>7, <2>1, Zenon
<1>8. CASE ~(next >= end \/ cands[next] = Missing)
  <2>1. PICK a \in Nat : a = cands[next] /\ next <= a /\ a < end
    <3>1. next \in 0 .. end - 1
      BY <1>8
    <3>2. cands[next] \in Int /\ next <= cands[next] /\ cands[next] < end
      BY <1>8, <3>1 DEF Discoveries
    <3> QED
      BY <3>2
  <2>2. end \in 1 .. end /\ end - 1 \in 0 .. end
    BY <2>1
  <2>3. PICK f \in [Searches -> Founds] : f = search[end - 1]
    BY <1>1, <2>2
  <2>4. search[end][from] = Decide(f, a, c)
    BY <1>1, <1>5, <1>8, <2>1, <2>2, <2>3, Zenon
  <2>5. Exec(scan, a, c).ok => Search(cands, end, next, c) = [at |-> a, saves |-> Exec(scan, a, c).saves]
    BY <1>6, <2>4, DecideType
  <2>6. ASSUME ~Exec(scan, a, c).ok
        PROVE  Search(cands, end, next, c) = Search(cands, end, a + 1, Exec(scan, a, c).saves)
    <3>1. PICK s \in Seq(Addresses) : s = Exec(scan, a, c).saves
      BY ExecType
    <3>20. a + 1 \in Nat
      OBVIOUS
    <3>21. [next |-> a + 1, saves |-> s] \in Searches /\ [next |-> a + 1, saves |-> s].next = a + 1
      BY <3>20, SearchFields
    <3>2. PICK to \in Searches : to = [next |-> a + 1, saves |-> s] /\ to.next = a + 1
      BY <3>21, Zenon
    <3>3. Decide(f, a, c) = f[to]
      BY <2>6, <3>1, <3>2, DecideType
    <3>4. end - 1 \in T /\ end - 1 + to.next >= end /\ end \in 0 .. end /\ end - 1 \in 0 .. end /\ end >= end - 1
      BY <1>4, <2>1, <2>2, <3>2
    <3>5. search[end - 1][to] = search[end][to]
      BY <3>4 DEF T
    <3>6. Search(cands, end, a + 1, s) = search[end][to]
      BY <1>1, <3>2, Zenon
    <3> QED
      BY <1>6, <2>3, <2>4, <3>1, <3>3, <3>5, <3>6, Zenon
  <2> QED
    BY <1>8, <2>1, <2>5, <2>6, Zenon
<1> QED
  BY <1>7, <1>8

-----------------------------------------------------------------------------
(* The fixed-width engine: every plan finds the first agreeing candidate.    *)

(* What sequences and cells consist of.                                      *)
LEMMA SequenceFields ==
  ASSUME NEW X, NEW s \in Seq(X)
  PROVE  /\ Len(s) \in Nat /\ DOMAIN s = 1 .. Len(s)
         /\ \A i \in DOMAIN s : s[i] \in X
         /\ s # <<>> => Len(s) # 0 /\ 1 \in DOMAIN s
<1>1. Len(s) \in Nat /\ DOMAIN s = 1 .. Len(s)
  OBVIOUS
<1>2. \A i \in DOMAIN s : s[i] \in X
  OBVIOUS
<1>3. s # <<>> => Len(s) # 0
  OBVIOUS
<1> QED
  BY <1>1, <1>2, <1>3

LEMMA CellFields ==
  ASSUME NEW cells \in Cells
  PROVE  /\ Len(cells) \in Nat /\ DOMAIN cells = 1 .. Len(cells)
         /\ \A i \in DOMAIN cells : cells[i].value \in Bytes /\ cells[i].mask \in Bytes
         /\ cells # <<>> => Len(cells) # 0 /\ DOMAIN cells # {}
<1> DEFINE X == [value : Bytes, mask : Bytes]
<1>1. \A x \in X : x.value \in Bytes /\ x.mask \in Bytes
  OBVIOUS
<1>2. cells \in Seq(X)
  BY DEF Cells
<1> HIDE DEF X
<1>3. /\ Len(cells) \in Nat /\ DOMAIN cells = 1 .. Len(cells)
      /\ \A i \in DOMAIN cells : cells[i] \in X
      /\ cells # <<>> => Len(cells) # 0 /\ 1 \in DOMAIN cells
  BY <1>2, SequenceFields
<1> QED
  BY <1>1, <1>3

(* The least member of a set of starts, if it has one.                       *)
IsFirst(c, T) ==
  \/ c = Missing /\ T = {}
  \/ c \in T /\ \A t \in T : c <= t

(* The starts at which the cells lie in the image and agree with it.         *)
Suiting(cells, img, from, to) == {s \in from .. to : Matches(cells, img, s)}

(* The least member of a set of numbers is its first.                        *)
LEMMA FirstOf ==
  ASSUME NEW T, T \subseteq Nat
  PROVE  IsFirst(IF T = {} THEN Missing ELSE Min(T), T)
<1>1. CASE T = {}
  BY <1>1 DEF IsFirst
<1>2. CASE T # {}
  BY <1>2, MinIsLeast DEF IsFirst
<1> QED
  BY <1>1, <1>2

(* The literal search finds the first start at which the cells agree.        *)
LEMMA MemFindFirst ==
  ASSUME NEW cells, NEW img, NEW from \in Nat, NEW to \in Int, Len(cells) \in Nat
  PROVE  IsFirst(MemFind(cells, img, from, to), Suiting(cells, img, from, to - Len(cells)))
<1>1. Suiting(cells, img, from, to - Len(cells)) \subseteq Nat
  BY DEF Suiting
<1>2. MemFind(cells, img, from, to) =
        IF Suiting(cells, img, from, to - Len(cells)) = {} THEN Missing
        ELSE Min(Suiting(cells, img, from, to - Len(cells)))
  BY Zenon DEF MemFind, Suiting
<1> QED
  BY <1>1, <1>2, FirstOf, Zenon

(* A run of exact cells lies in the cells.                                   *)
LEMMA LongestRunFits ==
  ASSUME NEW cells \in Cells
  PROVE  /\ LongestRun(cells).length \in Nat /\ LongestRun(cells).offset \in Nat
         /\ LongestRun(cells).offset + LongestRun(cells).length <= Len(cells)
<1> DEFINE D == DOMAIN cells
           IsRun(from, to) == from .. to \subseteq Exact(cells)
           runs == {r \in D \X D : IsRun(r[1], r[2])}
           lengths == {0} \cup {r[2] - r[1] + 1 : r \in runs}
           length == Max(lengths)
           starts == {from \in D : IsRun(from, from + length - 1)}
           offset == IF length = 0 THEN 0 ELSE Min(starts) - 1
<1>0. LongestRun(cells) = [length |-> length, offset |-> offset]
  BY DEF LongestRun
<1>1. Len(cells) \in Nat /\ D = 1 .. Len(cells)
  BY DEF Cells
<1>2. \A r \in runs : r[1] \in 1 .. Len(cells) /\ r[2] \in 1 .. Len(cells)
  BY <1>1
<1>3. \A x \in lengths : x \in Int /\ x <= Len(cells)
  BY <1>1, <1>2
<1>4. 0 \in lengths
  OBVIOUS
<1>5. length \in lengths /\ \A y \in lengths : y <= length
  <2> HIDE DEF lengths
  <2> QED
    BY <1>1, <1>3, <1>4, MaxIsGreatest
<1>6. length \in Nat /\ length <= Len(cells)
  BY <1>3, <1>4, <1>5
<1>7. CASE length = 0
  <2> HIDE DEF length
  <2> QED
    BY <1>0, <1>1, <1>7
<1>8. CASE length # 0
  <2>1. PICK r \in runs : length = r[2] - r[1] + 1
    <3> HIDE DEF length
    <3> QED
      BY <1>5, <1>8
  <2>2. r[1] \in starts
    <3>1. r[1] + length - 1 = r[2]
      <4> HIDE DEF length
      <4> QED
        BY <1>2, <2>1
    <3>2. r[1] \in D /\ IsRun(r[1], r[2])
      BY <1>1, <1>2
    <3>3. \A to : to = r[2] => IsRun(r[1], to)
      BY <3>2
    <3> HIDE DEF length
    <3> QED
      BY <3>1, <3>2, <3>3
  <2>3. starts \subseteq Nat
    BY <1>1
  <2>4. Min(starts) \in starts
    <3> HIDE DEF starts
    <3> QED
      BY <2>2, <2>3, MinIsLeast
  <2>5. PICK m : m = Min(starts) /\ m \in D /\ IsRun(m, m + length - 1)
    BY <2>4
  <2> HIDE DEF length
  <2>6. m + length - 1 \in D
    <3>1. m \in Nat /\ m + length - 1 \in m .. m + length - 1
      BY <1>1, <1>6, <1>8, <2>5
    <3> QED
      BY <2>5, <3>1 DEF Exact
  <2> QED
    BY <1>0, <1>1, <1>6, <1>8, <2>5, <2>6
<1> QED
  BY <1>7, <1>8

(* Finitely many integers have a bound.                                      *)
LEMMA BoundedScores ==
  ASSUME NEW N \in Nat, NEW score \in [1 .. N -> Int]
  PROVE  \E B \in Int : \A i \in 1 .. N : score[i] <= B
<1> DEFINE T == {n \in 0 .. N : \E B \in Int : \A i \in 1 .. n : score[i] <= B}
<1>1. 0 \in T
  OBVIOUS
<1>2. ASSUME NEW n \in 1 .. N, n - 1 \in T PROVE n \in T
  <2>1. PICK B \in Int : \A i \in 1 .. n - 1 : score[i] <= B
    BY <1>2
  <2>2. PICK C \in Int : C >= B /\ C >= score[n]
    <3>1. score[n] \in Int
      OBVIOUS
    <3>2. B >= score[n] \/ score[n] >= B
      BY <3>1
    <3> QED
      BY <3>1, <3>2
  <2>3. \A i \in 1 .. n : score[i] <= C
    <3> TAKE i \in 1 .. n
    <3>1. score[i] \in Int
      OBVIOUS
    <3>2. CASE i = n
      BY <2>2, <3>2
    <3>3. CASE i # n
      <4>1. i \in 1 .. n - 1
        BY <3>3
      <4> QED
        BY <2>1, <2>2, <3>1, <4>1
    <3> QED
      BY <3>2, <3>3
  <2> QED
    BY <2>3
<1> HIDE DEF T
<1>3. \A n \in 0 .. N : n \in T
  BY <1>1, <1>2, IntervalInduction
<1>4. N \in T
  BY <1>3
<1> QED
  BY <1>4 DEF T

(* The first of the members with the highest score is a member.              *)
LEMMA BestMember ==
  ASSUME NEW N \in Nat, NEW S, S \subseteq 1 .. N, S # {}, NEW score \in [1 .. N -> Int]
  PROVE  Min({i \in S : \A j \in S : score[j] <= score[i]}) \in S
<1>1. PICK B \in Int : \A i \in 1 .. N : score[i] <= B
  BY BoundedScores
<1> DEFINE U == {score[i] : i \in S}
           T == {i \in S : \A j \in S : score[j] <= score[i]}
<1>2. U # {} /\ \A u \in U : u \in Int /\ u <= B
  BY <1>1
<1>3. Max(U) \in U /\ \A u \in U : u <= Max(U)
  <2> HIDE DEF U
  <2> QED
    BY <1>1, <1>2, MaxIsGreatest
<1>4. PICK i \in S : score[i] = Max(U)
  BY <1>3
<1>5. \A j \in S : score[j] \in U
  OBVIOUS
<1>6. i \in T
  BY <1>3, <1>4, <1>5
<1>70. S \subseteq Nat
  OBVIOUS
<1>7. T \subseteq Nat
  BY <1>70
<1>8. Min(T) \in T
  <2> HIDE DEF T
  <2> QED
    BY <1>6, <1>7, MinIsLeast
<1> QED
  BY <1>8

(* The probes selected are positions of the cells.                           *)
LEMMA SelectedFits ==
  ASSUME NEW cells \in Cells, cells # <<>>
  PROVE  Selected(cells) \subseteq DOMAIN cells
<1> DEFINE D == DOMAIN cells
           bits == [i \in D |-> Cardinality(cells[i].mask)]
           first == Min({i \in D : \A j \in D : bits[j] <= bits[i]})
           others == {i \in D \ {first} : bits[i] # 0}
           score == [i \in D |-> bits[i] * Len(cells) + Max({i - first, first - i})]
           second == Min({i \in others : \A j \in others : score[j] <= score[i]})
<1>0. Len(cells) \in Nat /\ D = 1 .. Len(cells) /\ D # {}
  BY CellFields
<1>1. bits \in [D -> Int]
  <2> SUFFICES ASSUME NEW i \in D PROVE Cardinality(cells[i].mask) \in Nat
    OBVIOUS
  <2>1. cells[i].mask \in SUBSET Bits
    BY CellFields DEF Bytes
  <2>2. IsFiniteSet(Bits)
    BY ByteAssumption, FS_Interval DEF Bits
  <2> QED
    BY <2>1, <2>2, FS_Subset, FS_CardinalityType
<1>2. first \in D
  <2> HIDE DEF bits
  <2> QED
    BY <1>0, <1>1, BestMember
<1>3. others \subseteq D
  OBVIOUS
<1>4. score \in [D -> Int]
  <2> SUFFICES ASSUME NEW i \in D PROVE bits[i] * Len(cells) + Max({i - first, first - i}) \in Int
    OBVIOUS
  <2>1. bits[i] \in Int
    BY <1>1
  <2> HIDE DEF first, bits
  <2>2. i - first \in Int /\ first - i \in Int
    BY <1>0, <1>2
  <2>3. Max({i - first, first - i}) \in Int
    BY <2>2, MaxOfTwo
  <2>4. bits[i] * Len(cells) \in Int
    BY <1>0, <2>1
  <2> QED
    BY <2>3, <2>4
<1>5. others # {} => second \in others
  <2> HIDE DEF others, score
  <2> QED
    BY <1>0, <1>3, <1>4, BestMember
<1>6. Selected(cells) = {first} \cup (IF others = {} THEN {} ELSE {second})
  <2>1. \A i \in D : bits[i] = Cardinality(cells[i].mask)
    OBVIOUS
  <2>2. {i \in D : \A j \in D : bits[j] <= bits[i]} =
        {i \in D : \A j \in D : Cardinality(cells[j].mask) <= Cardinality(cells[i].mask)}
    BY <2>1
  <2>3. others = {i \in D \ {first} : Cardinality(cells[i].mask) # 0}
    BY <2>1
  <2>4. \A i \in others : score[i] = Cardinality(cells[i].mask) * Len(cells) + Max({i - first, first - i})
    BY <1>3, <2>1
  <2>5. {i \in others : \A j \in others : score[j] <= score[i]} =
        {i \in others : \A j \in others :
            Cardinality(cells[j].mask) * Len(cells) + Max({j - first, first - j})
              <= Cardinality(cells[i].mask) * Len(cells) + Max({i - first, first - i})}
    BY <2>4
  <2> HIDE DEF bits, score
  <2>6. first = Min({i \in D : \A j \in D : Cardinality(cells[j].mask) <= Cardinality(cells[i].mask)})
    BY <2>2
  <2> HIDE DEF others
  <2> QED
    BY <2>3, <2>5, <2>6 DEF Selected
<1> QED
  BY <1>2, <1>3, <1>5, <1>6

-----------------------------------------------------------------------------
(* A search that goes on from a later start until it is done, with so many   *)
(* turns, finds the first of what it searches for if the turns suffice.      *)
Onward(done, val, step, n, t) ==
  [from \in Nat |-> IF n = 0 THEN Missing ELSE IF done[from] THEN val[from] ELSE t[n - 1][step[from]]]

Searching(N, done, val, step, t) == t = [n \in 0 .. N |-> Onward(done, val, step, n, t)]

(* There is such a search.                                                   *)
LEMMA SearchingExists ==
  ASSUME NEW N \in Nat, NEW done, NEW val \in [Nat -> Int], NEW step \in [Nat -> Nat]
  PROVE  \E t : Searching(N, done, val, step, t)
<1> DEFINE S == [Nat -> Int]
           Start == [from \in Nat |-> Missing]
           Turned(g) == [from \in Nat |-> IF done[from] THEN val[from] ELSE g[step[from]]]
           G == [n \in 1 .. N |-> [g \in S |-> Turned(g)]]
<1>1. Start \in S
  BY DEF Missing
<1>2. ASSUME NEW g \in S PROVE Turned(g) \in S
  OBVIOUS
<1>3. \A g : Turned(g) = [from \in Nat |-> IF done[from] THEN val[from] ELSE g[step[from]]]
  OBVIOUS
<1> HIDE DEF Turned
<1>4. G \in [1 .. N -> [S -> S]]
  BY <1>2
<1>5. \A n \in 1 .. N, v \in S : G[n][v] = Turned(v)
  OBVIOUS
<1> HIDE DEF G, S
<1>6. PICK f : Recursive(f, N, Start, G) /\ \A n \in 1 .. N : f[n - 1] \in S
  BY <1>1, <1>4, Recursively, Zenon
<1>7. \A n \in 0 .. N : (IF n = 0 THEN Start ELSE G[n][f[n - 1]]) = Onward(done, val, step, n, f)
  <2> TAKE n \in 0 .. N
  <2>1. CASE n = 0
    BY <2>1, Zenon DEF Onward
  <2>2. CASE n # 0
    <3>1. n \in 1 .. N
      BY <2>2
    <3>2. G[n][f[n - 1]] = Turned(f[n - 1])
      BY <1>5, <1>6, <3>1, Zenon
    <3>3. Turned(f[n - 1]) = Onward(done, val, step, n, f)
      BY <1>3, <2>2, Zenon DEF Onward
    <3> QED
      BY <2>2, <3>2, <3>3, Zenon
  <2> QED
    BY <2>1, <2>2
<1>8. Searching(N, done, val, step, f)
  BY <1>6, <1>7, Zenon DEF Recursive, Searching
<1> QED
  BY <1>8

(* It finds the first member of R[from], when a step never passes over       *)
(* one.                                                                      *)
LEMMA SearchingFinds ==
  ASSUME NEW N \in Nat, NEW done, NEW val, NEW step \in [Nat -> Nat], NEW low \in Nat, NEW limit \in Int, NEW R,
         \A from \in Nat : from >= low /\ from > limit => R[from] = {},
         \A from \in Nat : from >= low /\ done[from] => IsFirst(val[from], R[from]),
         \A from \in Nat : from >= low /\ ~done[from] => step[from] > from /\ R[step[from]] = R[from],
         NEW t, Searching(N, done, val, step, t)
  PROVE  \A from \in Nat : from >= low /\ N + from > limit => IsFirst(t[N][from], R[from])
<1>1. \A n \in 0 .. N, from \in Nat :
        t[n][from] = IF n = 0 THEN Missing ELSE IF done[from] THEN val[from] ELSE t[n - 1][step[from]]
  <2> TAKE n \in 0 .. N, from \in Nat
  <2>1. t[n] = Onward(done, val, step, n, t)
    BY Zenon DEF Searching
  <2> QED
    BY <2>1, Zenon DEF Onward
<1> DEFINE T == {n \in 0 .. N : \A from \in Nat : from >= low /\ n + from > limit => IsFirst(t[n][from], R[from])}
<1>2. 0 \in T
  <2>1. ASSUME NEW from \in Nat, from >= low, 0 + from > limit PROVE IsFirst(t[0][from], R[from])
    <3>1. R[from] = {}
      BY <2>1
    <3>2. t[0][from] = Missing
      <4>1. 0 \in 0 .. N
        OBVIOUS
      <4> QED
        BY <1>1, <4>1, Zenon
    <3> QED
      BY <3>1, <3>2, Zenon DEF IsFirst
  <2> QED
    BY <2>1
<1>3. ASSUME NEW n \in 1 .. N, n - 1 \in T PROVE n \in T
  <2>0. n \in 0 .. N /\ n # 0
    OBVIOUS
  <2>1. ASSUME NEW from \in Nat, from >= low, n + from > limit PROVE IsFirst(t[n][from], R[from])
    <3>1. CASE done[from]
      BY <1>1, <2>0, <2>1, <3>1, Zenon
    <3>2. CASE ~done[from]
      <4>1. PICK to \in Nat : to = step[from] /\ to > from /\ R[to] = R[from]
        BY <2>1, <3>2
      <4>2. to >= low /\ n - 1 + to > limit
        BY <2>1, <4>1
      <4>3. IsFirst(t[n - 1][to], R[to])
        BY <1>3, <4>2
      <4>4. t[n][from] = t[n - 1][to]
        BY <1>1, <2>0, <3>2, <4>1, Zenon
      <4> QED
        BY <4>1, <4>3, <4>4, Zenon
    <3> QED
      BY <3>1, <3>2
  <2> QED
    BY <2>1
<1> HIDE DEF T
<1>4. \A n \in 0 .. N : n \in T
  BY <1>2, <1>3, IntervalInduction
<1>5. N \in T
  BY <1>4
<1> QED
  BY <1>5 DEF T

(* An anchor that lies in the cells agrees wherever the cells do.            *)
LEMMA AnchorAgrees ==
  ASSUME NEW cells \in Cells, NEW img, NEW offset \in Nat, NEW length \in Nat, offset + length <= Len(cells)
  PROVE  /\ Len(SubSeq(cells, offset + 1, offset + length)) = length
         /\ \A s \in Nat : Matches(cells, img, s) => Matches(SubSeq(cells, offset + 1, offset + length), img, s + offset)
<1>0. Len(cells) \in Nat /\ DOMAIN cells = 1 .. Len(cells)
  BY CellFields
<1>1. PICK anchor : anchor = SubSeq(cells, offset + 1, offset + length)
  OBVIOUS
<1>2. anchor = [i \in 1 .. length |-> cells[offset + i]]
  <2>1. /\ offset + 1 \in Int /\ offset + length \in Int
        /\ (offset + length) - (offset + 1) + 1 = length
        /\ \A i \in 1 .. length : (offset + 1) + i - 1 = offset + i
    OBVIOUS
  <2>2. SubSeq(cells, offset + 1, offset + length) =
          [i \in 1 .. ((offset + length) - (offset + 1) + 1) |-> cells[i + (offset + 1) - 1]]
    BY <1>0 DEF Cells
  <2>3. \A i \in 1 .. length : cells[i + (offset + 1) - 1] = cells[offset + i]
    <3>1. \A i \in 1 .. length : i + (offset + 1) - 1 = offset + i
      OBVIOUS
    <3> QED
      BY <3>1
  <2> QED
    BY <1>1, <2>1, <2>2, <2>3
<1>3. Len(anchor) = length /\ DOMAIN anchor = 1 .. length /\ \A i \in 1 .. length : anchor[i] = cells[offset + i]
  BY <1>2
<1>4. ASSUME NEW s \in Nat, Matches(cells, img, s) PROVE Matches(anchor, img, s + offset)
  <2>1. ASSUME NEW i \in 1 .. length PROVE img[s + offset + i] \cap anchor[i].mask = anchor[i].value
    <3>1. offset + i \in DOMAIN cells /\ s + offset + i = s + (offset + i)
      BY <1>0
    <3>2. img[s + (offset + i)] \cap cells[offset + i].mask = cells[offset + i].value
      BY <1>4, <3>1 DEF Matches, Agree
    <3> QED
      BY <1>3, <3>1, <3>2, Zenon
  <2> QED
    BY <1>3, <2>1 DEF Matches, Agree
<1> QED
  BY <1>1, <1>3, <1>4

(* The search by anchor and the search by probes find the first agreeing     *)
(* start.                                                                    *)
LEMMA FindAnchorFirst ==
  ASSUME NEW cells \in Cells, NEW plan, plan.offset \in Nat, plan.length \in Nat,
         plan.offset + plan.length <= Len(cells),
         NEW img, NEW start \in Nat, NEW last \in Nat, start <= last
  PROVE  IsFirst(FindAnchor(cells, plan, img, start, last), Suiting(cells, img, start, last))
<1>0. PICK offset \in Nat, length \in Nat : offset = plan.offset /\ length = plan.length /\ offset + length <= Len(cells)
  OBVIOUS
<1>1. PICK anchor : /\ anchor = SubSeq(cells, offset + 1, offset + length)
                    /\ Len(anchor) = length
                    /\ \A s \in Nat : Matches(cells, img, s) => Matches(anchor, img, s + offset)
  BY <1>0, AnchorAgrees
<1> DEFINE Found(from) == MemFind(anchor, img, from, last + offset + length)
           Body(a, o, l, t) ==
             [turns \in 0 .. last + 1 |->
                [from \in Nat |->
                   CASE turns = 0 \/ MemFind(a, img, from, last + o + l) = Missing -> Missing
                     [] turns # 0 /\ MemFind(a, img, from, last + o + l) # Missing
                          /\ Matches(cells, img, MemFind(a, img, from, last + o + l) - o) ->
                          MemFind(a, img, from, last + o + l) - o
                     [] OTHER -> t[turns - 1][MemFind(a, img, from, last + o + l) + 1]]]
<1>10. FindAnchor(cells, plan, img, start, last) =
         (CHOOSE t : t = Body(SubSeq(cells, plan.offset + 1, plan.offset + plan.length), plan.offset, plan.length, t))
           [last + 1][start + plan.offset]
  BY DEF FindAnchor
<1>101. \A t : Body(anchor, offset, length, t) =
               [turns \in 0 .. last + 1 |->
                  [from \in Nat |->
                     CASE turns = 0 \/ Found(from) = Missing -> Missing
                       [] turns # 0 /\ Found(from) # Missing /\ Matches(cells, img, Found(from) - offset) ->
                            Found(from) - offset
                       [] OTHER -> t[turns - 1][Found(from) + 1]]]
  OBVIOUS
<1> HIDE DEF Body
<1>102. \A t : Body(SubSeq(cells, plan.offset + 1, plan.offset + plan.length), plan.offset, plan.length, t) =
               Body(anchor, offset, length, t)
  BY <1>0, <1>1, Zenon
<1>2. ASSUME NEW from \in Nat PROVE IsFirst(Found(from), Suiting(anchor, img, from, last + offset))
  <2>1. last + offset + length \in Int /\ (last + offset + length) - Len(anchor) = last + offset /\ Len(anchor) \in Nat
    BY <1>1
  <2> QED
    BY <2>1, MemFindFirst
<1>3. \A from \in Nat : Found(from) = Missing \/ (Found(from) \in Nat /\ from <= Found(from) /\ Found(from) <= last + offset)
  BY <1>2 DEF IsFirst, Suiting
<1> HIDE DEF Found
<1> DEFINE done == [from \in Nat |-> Found(from) = Missing \/ Matches(cells, img, Found(from) - offset)]
           val == [from \in Nat |-> IF Found(from) = Missing THEN Missing ELSE Found(from) - offset]
           step == [from \in Nat |-> IF Found(from) = Missing THEN from + 1 ELSE Found(from) + 1]
           R == [from \in Nat |-> {s \in 0 .. last : from <= s + offset /\ Matches(cells, img, s)}]
           N == last + 1
           limit == last + offset
           P(t) == t = Body(SubSeq(cells, plan.offset + 1, plan.offset + plan.length), plan.offset, plan.length, t)
<1>4. val \in [Nat -> Int] /\ step \in [Nat -> Nat] /\ N \in Nat /\ limit \in Int
  BY <1>3 DEF Missing
<1>5. \A s \in Nat, from \in Nat : Matches(cells, img, s) /\ from <= s + offset /\ s <= last =>
        Found(from) # Missing /\ Found(from) <= s + offset
  <2> TAKE s \in Nat, from \in Nat
  <2> HAVE Matches(cells, img, s) /\ from <= s + offset /\ s <= last
  <2>1. s + offset \in Suiting(anchor, img, from, last + offset)
    BY <1>1 DEF Suiting
  <2> QED
    BY <1>2, <2>1 DEF IsFirst, Suiting, Missing
<1>6. \A from \in Nat : from >= offset /\ from > limit => R[from] = {}
  OBVIOUS
<1>7. \A from \in Nat : from >= offset /\ done[from] => IsFirst(val[from], R[from])
  <2> TAKE from \in Nat
  <2> HAVE from >= offset /\ done[from]
  <2>1. CASE Found(from) = Missing
    <3>1. R[from] = {}
      BY <1>5, <2>1
    <3> QED
      BY <2>1, <3>1 DEF IsFirst
  <2>2. CASE Found(from) # Missing
    <3>0. Matches(cells, img, Found(from) - offset) /\ val[from] = Found(from) - offset
      BY <2>2
    <3>1. Found(from) - offset \in 0 .. last
      BY <1>3, <2>2
    <3>2. from <= Found(from) - offset + offset
      BY <1>3, <2>2
    <3>3. val[from] \in R[from]
      BY <3>0, <3>1, <3>2
    <3>4. \A s \in R[from] : val[from] <= s
      BY <1>3, <1>5, <2>2, <3>0
    <3> QED
      BY <3>3, <3>4 DEF IsFirst
  <2> QED
    BY <2>1, <2>2
<1>8. \A from \in Nat : from >= offset /\ ~done[from] => step[from] > from /\ R[step[from]] = R[from]
  <2> TAKE from \in Nat
  <2> HAVE from >= offset /\ ~done[from]
  <2>1. /\ Found(from) # Missing /\ Found(from) \in Nat /\ from <= Found(from) /\ step[from] = Found(from) + 1
        /\ ~Matches(cells, img, Found(from) - offset)
    BY <1>3
  <2>2. ASSUME NEW s \in 0 .. last, Matches(cells, img, s) PROVE from <= s + offset <=> Found(from) + 1 <= s + offset
    <3>1. s + offset # Found(from)
      BY <2>1, <2>2
    <3> QED
      BY <1>5, <2>1, <2>2, <3>1
  <2>3. {s \in 0 .. last : from <= s + offset /\ Matches(cells, img, s)} =
        {s \in 0 .. last : Found(from) + 1 <= s + offset /\ Matches(cells, img, s)}
    BY <2>2
  <2>4. R[from] = {s \in 0 .. last : from <= s + offset /\ Matches(cells, img, s)}
    OBVIOUS
  <2>5. R[Found(from) + 1] = {s \in 0 .. last : Found(from) + 1 <= s + offset /\ Matches(cells, img, s)}
    <3>1. Found(from) + 1 \in Nat
      BY <2>1
    <3> QED
      BY <3>1
  <2> QED
    BY <2>1, <2>3, <2>4, <2>5
<1>9. \A t : [turns \in 0 .. N |->
                [from \in Nat |->
                   CASE turns = 0 \/ Found(from) = Missing -> Missing
                     [] turns # 0 /\ Found(from) # Missing /\ Matches(cells, img, Found(from) - offset) ->
                          Found(from) - offset
                     [] OTHER -> t[turns - 1][Found(from) + 1]]] =
             [n \in 0 .. N |-> Onward(done, val, step, n, t)]
  <2> TAKE t
  <2>1. ASSUME NEW n \in 0 .. N, NEW from \in Nat
        PROVE  (CASE n = 0 \/ Found(from) = Missing -> Missing
                  [] n # 0 /\ Found(from) # Missing /\ Matches(cells, img, Found(from) - offset) -> Found(from) - offset
                  [] OTHER -> t[n - 1][Found(from) + 1])
               = (IF n = 0 THEN Missing ELSE IF done[from] THEN val[from] ELSE t[n - 1][step[from]])
    <3>1. /\ done[from] = (Found(from) = Missing \/ Matches(cells, img, Found(from) - offset))
          /\ val[from] = IF Found(from) = Missing THEN Missing ELSE Found(from) - offset
          /\ step[from] = IF Found(from) = Missing THEN from + 1 ELSE Found(from) + 1
      OBVIOUS
    <3> HIDE DEF done, val, step
    <3>2. CASE n = 0
      BY <3>2
    <3>3. CASE n # 0 /\ Found(from) = Missing
      BY <3>1, <3>3
    <3>4. CASE n # 0 /\ Found(from) # Missing /\ Matches(cells, img, Found(from) - offset)
      BY <3>1, <3>4
    <3>5. CASE n # 0 /\ Found(from) # Missing /\ ~Matches(cells, img, Found(from) - offset)
      BY <3>1, <3>5
    <3> QED
      BY <3>2, <3>3, <3>4, <3>5
  <2> HIDE DEF done, val, step, N
  <2> QED
    BY <2>1, Zenon DEF Onward
<1>103. FindAnchor(cells, plan, img, start, last) = (CHOOSE t : P(t))[N][start + offset]
  BY <1>0, <1>10, Zenon
<1> HIDE DEF done, val, step, N, limit
<1>11. \A t : P(t) <=> Searching(N, done, val, step, t)
  BY <1>9, <1>101, <1>102, Zenon DEF Searching, N
<1> HIDE DEF P
<1>12. \E t : P(t)
  BY <1>4, <1>11, SearchingExists
<1>13. PICK t : Searching(N, done, val, step, t) /\ t = (CHOOSE u : P(u))
  BY <1>11, <1>12, Zenon
<1> HIDE DEF R
<1>14. \A from \in Nat : from >= offset /\ N + from > limit => IsFirst(t[N][from], R[from])
  BY <1>4, <1>6, <1>7, <1>8, <1>13, SearchingFinds
<1>15. start + offset \in Nat /\ start + offset >= offset /\ N + (start + offset) > limit
  BY DEF N, limit
<1>16. R[start + offset] = Suiting(cells, img, start, last)
  <2>1. R[start + offset] = {s \in 0 .. last : start + offset <= s + offset /\ Matches(cells, img, s)}
    BY <1>15 DEF R
  <2> QED
    BY <2>1 DEF Suiting
<1> QED
  BY <1>103, <1>13, <1>14, <1>15, <1>16, Zenon

LEMMA FindProbesFirst ==
  ASSUME NEW cells \in Cells, NEW plan, plan.probes \subseteq DOMAIN cells,
         NEW img, NEW start \in Nat, NEW last \in Nat, start <= last
  PROVE  IsFirst(FindProbes(cells, plan, img, start, last), Suiting(cells, img, start, last))
<1> DEFINE Count(from) == Min({last - from + 1, Lanes})
           Lanewise(from) == {s \in from .. from + Count(from) - 1 : Agree(cells, img, s, plan.probes)}
           Valid(from) == {s \in Lanewise(from) : Matches(cells, img, s)}
           Body(t) == [turns \in 0 .. last + 1 |->
                         [from \in Nat |->
                            CASE turns = 0 \/ from > last -> Missing
                              [] turns # 0 /\ from <= last /\ Valid(from) # {} -> Min(Valid(from))
                              [] OTHER -> t[turns - 1][from + Count(from)]]]
           P(t) == t = Body(t)
<1>1. FindProbes(cells, plan, img, start, last) = (CHOOSE t : P(t))[last + 1][start]
  BY DEF FindProbes
<1>2. ASSUME NEW from \in Nat, from <= last PROVE Count(from) \in Nat /\ 1 <= Count(from) /\ from + Count(from) - 1 <= last
  <2>1. last - from + 1 \in Int /\ Lanes \in Int /\ Lanes >= 1
    BY LanesAssumption
  <2>2. Count(from) = IF last - from + 1 <= Lanes THEN last - from + 1 ELSE Lanes
    BY <2>1, MinOfTwo
  <2> QED
    BY <1>2, <2>1, <2>2
<1>3. \A from \in Nat : Valid(from) = Suiting(cells, img, from, from + Count(from) - 1)
  <2>1. \A s : Matches(cells, img, s) => Agree(cells, img, s, plan.probes)
    BY DEF Matches, Agree
  <2> HIDE DEF Count
  <2> QED
    BY <2>1 DEF Suiting
<1> HIDE DEF Count, Valid
<1> DEFINE done == [from \in Nat |-> from > last \/ Valid(from) # {}]
           val == [from \in Nat |-> IF from > last \/ Valid(from) = {} THEN Missing ELSE Min(Valid(from))]
           step == [from \in Nat |-> IF from > last THEN from + 1 ELSE from + Count(from)]
           R == [from \in Nat |-> Suiting(cells, img, from, last)]
           N == last + 1
<1>4. \A from \in Nat : Valid(from) \subseteq Nat
  BY <1>3 DEF Suiting
<1>5. \A from \in Nat : Valid(from) # {} => Min(Valid(from)) \in Valid(from) /\ \A s \in Valid(from) : Min(Valid(from)) <= s
  BY <1>4, MinIsLeast, Zenon
<1>6. val \in [Nat -> Int] /\ step \in [Nat -> Nat]
  <2>1. \A from \in Nat : Valid(from) # {} => Min(Valid(from)) \in Int
    BY <1>4, <1>5
  <2> QED
    BY <1>2, <2>1 DEF Missing
<1>60. \A from \in Nat : done[from] <=> (from > last \/ Valid(from) # {})
  OBVIOUS
<1>61. \A from \in Nat : val[from] = IF from > last \/ Valid(from) = {} THEN Missing ELSE Min(Valid(from))
  OBVIOUS
<1>62. \A from \in Nat : step[from] = IF from > last THEN from + 1 ELSE from + Count(from)
  OBVIOUS
<1> HIDE DEF done, val, step
<1>7. \A from \in Nat : from >= 0 /\ from > last => R[from] = {}
  BY DEF Suiting
<1>8. \A from \in Nat : from >= 0 /\ done[from] => IsFirst(val[from], R[from])
  <2> TAKE from \in Nat
  <2> HAVE from >= 0 /\ done[from]
  <2>1. CASE from > last
    BY <1>7, <1>61, <2>1 DEF IsFirst
  <2>2. CASE from <= last
    <3>10. ~(from > last)
      BY <2>2
    <3>1. Valid(from) # {} /\ ~(from > last)
      BY <1>60, <3>10, Zenon
    <3>2. val[from] = Min(Valid(from))
      BY <1>61, <3>1, Zenon
    <3>3. val[from] \in Valid(from) /\ \A s \in Valid(from) : val[from] <= s
      BY <1>5, <3>1, <3>2
    <3>4. \A s : s \in Valid(from) => s \in Suiting(cells, img, from, last)
      BY <1>2, <1>3, <2>2 DEF Suiting
    <3>5. \A s \in Suiting(cells, img, from, last) : s \in Valid(from) \/ s > from + Count(from) - 1
      BY <1>2, <1>3, <2>2 DEF Suiting
    <3>6. val[from] \in Nat /\ val[from] <= from + Count(from) - 1
      BY <1>2, <1>3, <2>2, <3>3 DEF Suiting
    <3>7. \A s \in Suiting(cells, img, from, last) : val[from] <= s
      <4> TAKE s \in Suiting(cells, img, from, last)
      <4>1. s \in Int
        BY DEF Suiting
      <4> QED
        BY <1>2, <2>2, <3>3, <3>5, <3>6, <4>1
    <3>8. R[from] = Suiting(cells, img, from, last)
      OBVIOUS
    <3> HIDE DEF R
    <3> QED
      BY <3>3, <3>4, <3>7, <3>8 DEF IsFirst
  <2> QED
    BY <2>1, <2>2
<1>9. \A from \in Nat : from >= 0 /\ ~done[from] => step[from] > from /\ R[step[from]] = R[from]
  <2> TAKE from \in Nat
  <2> HAVE from >= 0 /\ ~done[from]
  <2>10. ~(from > last) /\ Valid(from) = {}
    BY <1>60, Zenon
  <2>1. from <= last /\ Valid(from) = {} /\ step[from] = from + Count(from)
    BY <1>62, <2>10
  <2>2. Suiting(cells, img, from, from + Count(from) - 1) = {} /\ Count(from) \in Nat /\ 1 <= Count(from)
    BY <1>2, <1>3, <2>1
  <2>3. Suiting(cells, img, from + Count(from), last) = Suiting(cells, img, from, last)
    BY <2>2 DEF Suiting
  <2> QED
    BY <2>1, <2>2, <2>3
<1>10. \A t : Body(t) = [n \in 0 .. N |-> Onward(done, val, step, n, t)]
  <2> TAKE t
  <2>1. ASSUME NEW n \in 0 .. N, NEW from \in Nat
        PROVE  (CASE n = 0 \/ from > last -> Missing
                  [] n # 0 /\ from <= last /\ Valid(from) # {} -> Min(Valid(from))
                  [] OTHER -> t[n - 1][from + Count(from)])
               = (IF n = 0 THEN Missing ELSE IF done[from] THEN val[from] ELSE t[n - 1][step[from]])
    <3>1. (from > last <=> ~(from <= last)) /\ (from <= last <=> ~(from > last))
      OBVIOUS
    <3>2. CASE n = 0
      BY <3>2
    <3>3. CASE n # 0 /\ from > last
      <4>1. val[from] = Missing /\ done[from]
        BY <1>60, <1>61, <3>3, Zenon
      <4> QED
        BY <3>1, <3>3, <4>1, Zenon
    <3>4. CASE n # 0 /\ from <= last /\ Valid(from) # {}
      <4>1. val[from] = Min(Valid(from)) /\ done[from]
        BY <1>60, <1>61, <3>1, <3>4, Zenon
      <4> QED
        BY <3>1, <3>4, <4>1, Zenon
    <3>5. CASE n # 0 /\ from <= last /\ Valid(from) = {}
      <4>1. step[from] = from + Count(from) /\ ~done[from]
        BY <1>60, <1>62, <3>1, <3>5, Zenon
      <4> QED
        BY <3>1, <3>5, <4>1, Zenon
    <3> QED
      BY <3>1, <3>2, <3>3, <3>4, <3>5, Zenon
  <2> QED
    BY <2>1, Zenon DEF Onward
<1> HIDE DEF N, Body
<1>11. \A t : P(t) <=> Searching(N, done, val, step, t)
  BY <1>10, Zenon DEF Searching
<1> HIDE DEF P
<1>12. \E t : P(t)
  <2>1. N \in Nat
    BY DEF N
  <2>2. \E t : Searching(N, done, val, step, t)
    BY <1>6, <2>1, SearchingExists
  <2> QED
    BY <1>11, <2>2, Zenon
<1>13. PICK t : Searching(N, done, val, step, t) /\ t = (CHOOSE u : P(u))
  BY <1>11, <1>12, Zenon
<1> HIDE DEF R
<1>14. \A from \in Nat : from >= 0 /\ N + from > last => IsFirst(t[N][from], R[from])
  <2>1. N \in Nat /\ 0 \in Nat /\ last \in Int
    BY DEF N
  <2> QED
    BY Zenon, <2>1, <1>6, <1>7, <1>8, <1>9, <1>13, SearchingFinds
<1>15. start >= 0 /\ N + start > last
  BY DEF N
<1>16. R[start] = Suiting(cells, img, start, last)
  BY DEF R
<1>17. FindProbes(cells, plan, img, start, last) = t[N][start]
  BY <1>1, <1>13, Zenon DEF N
<1> QED
  BY <1>14, <1>15, <1>16, <1>17, Zenon

(* The bits a cell compares are bits of its mask.                            *)
Proper(cells) == \A i \in DOMAIN cells : cells[i].value \subseteq cells[i].mask

(* A plan is one of four kinds, and its parts lie in the cells.              *)
LEMMA PlanIs ==
  ASSUME NEW cells \in Cells, cells # <<>>
  PROVE  LET plan == Plan(cells) IN
         \/ plan.kind = "literal"
         \/ /\ plan.kind = "anchor" /\ plan.offset \in Nat /\ plan.length \in Nat
            /\ plan.offset + plan.length <= Len(cells)
         \/ plan.kind = "wildcard" /\ \A i \in DOMAIN cells : cells[i].mask = {}
         \/ plan.kind = "probes" /\ plan.probes \subseteq DOMAIN cells
<1>1. CASE Exact(cells) = DOMAIN cells
  <2>1. Plan(cells) = [kind |-> "literal", offset |-> 0, length |-> Len(cells)]
    BY <1>1, Zenon DEF Plan
  <2> QED
    BY <2>1
<1>2. CASE Exact(cells) # DOMAIN cells /\ LongestRun(cells).length >= MinimumAnchor
  <2>1. PICK run : /\ run = LongestRun(cells) /\ run.length \in Nat /\ run.offset \in Nat
                   /\ run.offset + run.length <= Len(cells)
    BY LongestRunFits
  <2>2. Plan(cells) = [kind |-> "anchor", offset |-> run.offset, length |-> run.length]
    <3>1. ~(run.length < MinimumAnchor)
      BY <1>2, <2>1, AnchorAssumption
    <3> QED
      BY <1>2, <2>1, <3>1, Zenon DEF Plan
  <2> QED
    BY <2>1, <2>2
<1>3. CASE Exact(cells) # DOMAIN cells /\ ~(LongestRun(cells).length >= MinimumAnchor)
  <2>1. LongestRun(cells).length < MinimumAnchor
    BY <1>3, LongestRunFits, AnchorAssumption
  <2>2. CASE \A i \in DOMAIN cells : cells[i].mask = {}
    <3>1. Plan(cells) = [kind |-> "wildcard"]
      BY <1>3, <2>1, <2>2, Zenon DEF Plan
    <3> QED
      BY <2>2, <3>1
  <2>3. CASE ~(\A i \in DOMAIN cells : cells[i].mask = {})
    <3>1. Plan(cells) = [kind |-> "probes", probes |-> Selected(cells)]
      BY <1>3, <2>1, <2>3, Zenon DEF Plan
    <3>2. Selected(cells) \subseteq DOMAIN cells
      BY SelectedFits
    <3> QED
      BY <3>1, <3>2
  <2> QED
    BY <2>2, <2>3
<1> QED
  BY <1>1, <1>2, <1>3

(* The engine finds the first start at which the cells lie in the image and  *)
(* agree with it, whatever its plan.                                         *)
LEMMA FixedFindFirst ==
  ASSUME NEW cells \in Cells, cells # <<>>, Proper(cells), NEW img, Len(img) \in Nat,
         NEW start \in Nat, NEW end \in Nat
  PROVE  IsFirst(FixedFind(cells, Plan(cells), img, start, end),
                 Suiting(cells, img, start, Min({Len(img) - Len(cells), end - 1})))
<1>0. Len(cells) \in Nat
  BY CellFields
<1>1. PICK last \in Int : last = Min({Len(img) - Len(cells), end - 1})
  BY <1>0, MinOfTwo
<1>2. PICK plan : /\ plan = Plan(cells)
                  /\ \/ plan.kind = "literal"
                     \/ /\ plan.kind = "anchor" /\ plan.offset \in Nat /\ plan.length \in Nat
                        /\ plan.offset + plan.length <= Len(cells)
                     \/ plan.kind = "wildcard" /\ \A i \in DOMAIN cells : cells[i].mask = {}
                     \/ plan.kind = "probes" /\ plan.probes \subseteq DOMAIN cells
  BY PlanIs
<1>3. FixedFind(cells, Plan(cells), img, start, end) = FindPlanned(cells, plan, img, start, last)
  BY <1>1, <1>2, Zenon DEF FixedFind
<1> SUFFICES IsFirst(FindPlanned(cells, plan, img, start, last), Suiting(cells, img, start, last))
  BY <1>1, <1>3, Zenon
<1>4. CASE start > last
  <2>0. ~(start <= last)
    BY <1>4
  <2>1. FindPlanned(cells, plan, img, start, last) = Missing
    BY <1>4, <2>0, Zenon DEF FindPlanned
  <2>2. Suiting(cells, img, start, last) = {}
    BY <1>4 DEF Suiting
  <2> QED
    BY <2>1, <2>2 DEF IsFirst
<1>5. CASE ~(start > last)
  <2>0. start <= last /\ last \in Nat
    BY <1>5
  <2>1. CASE plan.kind = "wildcard" /\ \A i \in DOMAIN cells : cells[i].mask = {}
    <3>1. FindPlanned(cells, plan, img, start, last) = start
      BY <1>5, <2>0, <2>1, Zenon DEF FindPlanned
    <3>2. Matches(cells, img, start)
      BY <2>1 DEF Proper, Matches, Agree
    <3>3. start \in Suiting(cells, img, start, last) /\ \A s \in Suiting(cells, img, start, last) : start <= s
      BY <2>0, <3>2 DEF Suiting
    <3> QED
      BY <3>1, <3>3 DEF IsFirst
  <2>2. CASE plan.kind = "literal"
    <3>1. plan.kind # "wildcard"
      BY <2>2
    <3>2. FindPlanned(cells, plan, img, start, last) = MemFind(cells, img, start, last + Len(cells))
      BY <1>5, <2>0, <2>2, <3>1, Zenon DEF FindPlanned
    <3>3. last + Len(cells) \in Int /\ (last + Len(cells)) - Len(cells) = last
      BY <1>0
    <3> QED
      BY <1>0, <3>2, <3>3, MemFindFirst
  <2>3. CASE /\ plan.kind = "anchor" /\ plan.offset \in Nat /\ plan.length \in Nat
             /\ plan.offset + plan.length <= Len(cells)
    <3>1. plan.kind # "wildcard" /\ plan.kind # "literal"
      BY <2>3
    <3>2. FindPlanned(cells, plan, img, start, last) = FindAnchor(cells, plan, img, start, last)
      BY <1>5, <2>0, <2>3, <3>1, Zenon DEF FindPlanned
    <3> QED
      BY <2>0, <2>3, <3>2, FindAnchorFirst
  <2>4. CASE plan.kind = "probes" /\ plan.probes \subseteq DOMAIN cells
    <3>1. plan.kind # "wildcard" /\ plan.kind # "literal" /\ plan.kind # "anchor"
      BY <2>4
    <3>2. FindPlanned(cells, plan, img, start, last) = FindProbes(cells, plan, img, start, last)
      BY <1>5, <2>0, <2>4, <3>1, Zenon DEF FindPlanned
    <3> QED
      BY <2>0, <2>4, <3>2, FindProbesFirst
  <2> QED
    BY <1>2, <2>1, <2>2, <2>3, <2>4
<1> QED
  BY <1>4, <1>5

-----------------------------------------------------------------------------
(* Heads: what a program does until its first branch.  Behind each of its    *)
(* leading atoms there is a number of cells passed and a mask for the next.  *)
Spots == [at : Nat, mask : Bytes]

HeadAtom(atom, p, q, cells) ==
  \/ atom.op \in {"save", "aligned", "nop"} /\ q.at = p.at /\ q.mask = p.mask
  \/ atom.op = "fuzzy" /\ q.at = p.at /\ q.mask = atom.mask
  \/ /\ atom.op = "byte" /\ q.at = p.at + 1 /\ q.mask = Bits
     /\ cells[q.at] = Cell(atom.byte, p.mask)
  \/ /\ atom.op = "skip" /\ atom.by # 0 /\ q.at = p.at + atom.by /\ q.mask = p.mask
     /\ \A i \in p.at + 1 .. q.at : cells[i] = Ignored

HeadAlong(program, n, f, cells) ==
  /\ f[0].at = 0 /\ f[0].mask = Bits
  /\ \A m \in 0 .. n : f[m] \in Spots /\ f[m].at <= Len(cells)
  /\ \A m \in 1 .. n : HeadAtom(program[m], f[m - 1], f[m], cells)

Prolongs(cells, longer) ==
  Len(cells) <= Len(longer) /\ \A i \in 1 .. Len(cells) : longer[i] = cells[i]

(* A spot has its types.                                                     *)
LEMMA SpotFields ==
  ASSUME NEW q \in Spots
  PROVE  q.at \in Nat /\ q.mask \in Bytes
  BY DEF Spots

(* More cells at the end do not disturb an atom of a head.                   *)
LEMMA HeadAtomProlonged ==
  ASSUME NEW atom, NEW p \in Spots, NEW q \in Spots, NEW cells \in Cells, NEW longer \in Cells,
         Prolongs(cells, longer), q.at <= Len(cells), HeadAtom(atom, p, q, cells)
  PROVE  HeadAtom(atom, p, q, longer)
<1>0. Len(cells) \in Nat /\ Len(longer) \in Nat /\ p.at \in Nat /\ q.at \in Nat
  BY CellFields, SpotFields
<1>1. \A i \in 1 .. q.at : longer[i] = cells[i]
  BY <1>0 DEF Prolongs
<1>2. CASE atom.op = "byte" /\ q.at = p.at + 1 /\ q.mask = Bits /\ cells[q.at] = Cell(atom.byte, p.mask)
  <2>1. q.at \in 1 .. q.at
    BY <1>0, <1>2
  <2> QED
    BY <1>1, <1>2, <2>1, Zenon DEF HeadAtom
<1>3. CASE /\ atom.op = "skip" /\ atom.by # 0 /\ q.at = p.at + atom.by /\ q.mask = p.mask
           /\ \A i \in p.at + 1 .. q.at : cells[i] = Ignored
  <2>1. \A i \in p.at + 1 .. q.at : i \in 1 .. q.at
    BY <1>0
  <2> QED
    BY <1>1, <1>3, <2>1, Zenon DEF HeadAtom
<1>4. CASE \/ atom.op \in {"save", "aligned", "nop"} /\ q.at = p.at /\ q.mask = p.mask
           \/ atom.op = "fuzzy" /\ q.at = p.at /\ q.mask = atom.mask
  BY <1>4, Zenon DEF HeadAtom
<1> QED
  BY <1>2, <1>3, <1>4, Zenon DEF HeadAtom

(* A head and one more atom are a head.                                      *)
LEMMA HeadExtended ==
  ASSUME NEW program, NEW n \in Nat, n # 0, NEW f, NEW cells \in Cells, NEW longer \in Cells,
         HeadAlong(program, n - 1, f, cells), Prolongs(cells, longer),
         NEW q \in Spots, q.at <= Len(longer), HeadAtom(program[n], f[n - 1], q, longer)
  PROVE  \E g : HeadAlong(program, n, g, longer) /\ g[n] = q
<1>0. Len(cells) \in Nat /\ Len(longer) \in Nat /\ Len(cells) <= Len(longer)
  BY CellFields DEF Prolongs
<1>1. PICK g : g = [m \in 0 .. n |-> IF m = n THEN q ELSE f[m]]
  OBVIOUS
<1>2. g[n] = q /\ \A m \in 0 .. n - 1 : g[m] = f[m]
  BY <1>1
<1>3. \A m \in 0 .. n - 1 : f[m] \in Spots /\ f[m].at <= Len(cells)
  BY DEF HeadAlong
<1>4. ASSUME NEW m \in 0 .. n PROVE g[m] \in Spots /\ g[m].at <= Len(longer)
  <2>1. CASE m = n
    BY <1>2, <2>1
  <2>2. CASE m # n
    <3>1. m \in 0 .. n - 1
      BY <2>2
    <3>2. g[m] = f[m] /\ f[m] \in Spots /\ f[m].at <= Len(cells) /\ f[m].at \in Nat
      BY <1>2, <1>3, <3>1, SpotFields
    <3> QED
      BY <1>0, <3>2
  <2> QED
    BY <2>1, <2>2
<1>5. ASSUME NEW m \in 1 .. n PROVE HeadAtom(program[m], g[m - 1], g[m], longer)
  <2>0. m - 1 \in 0 .. n - 1
    OBVIOUS
  <2>1. CASE m = n
    <3>1. g[m - 1] = f[m - 1]
      BY <1>2, <2>0
    <3> QED
      BY <1>2, <2>1, <3>1, Zenon
  <2>2. CASE m # n
    <3>1. m \in 0 .. n - 1 /\ m \in 1 .. n - 1
      BY <2>2
    <3>2. HeadAtom(program[m], f[m - 1], f[m], cells)
      BY <3>1 DEF HeadAlong
    <3>3. HeadAtom(program[m], f[m - 1], f[m], longer)
      BY <1>3, <2>0, <3>1, <3>2, HeadAtomProlonged
    <3> QED
      BY <1>2, <2>0, <3>1, <3>3
  <2> QED
    BY <2>1, <2>2
<1>6. g[0] = f[0] /\ f[0].at = 0 /\ f[0].mask = Bits
  <2>1. 0 \in 0 .. n - 1
    OBVIOUS
  <2> QED
    BY <1>2, <2>1 DEF HeadAlong
<1> QED
  BY <1>2, <1>4, <1>5, <1>6 DEF HeadAlong

(* No atoms are a head.                                                      *)
LEMMA HeadEmpty ==
  ASSUME NEW program, NEW cells \in Cells
  PROVE  \E f : HeadAlong(program, 0, f, cells) /\ f[0] = [at |-> 0, mask |-> Bits]
<1>1. PICK q \in Spots : q = [at |-> 0, mask |-> Bits] /\ q.at = 0 /\ q.mask = Bits
  <2>1. PICK b \in Bytes : b = Bits
    BY BytesBits
  <2>2. [at |-> 0, mask |-> b] \in Spots /\ [at |-> 0, mask |-> b].at = 0 /\ [at |-> 0, mask |-> b].mask = b
    BY DEF Spots
  <2> QED
    BY <2>1, <2>2, Zenon
<1>2. PICK f : f = [m \in 0 .. 0 |-> q]
  OBVIOUS
<1>3. f[0] = q /\ \A m \in 0 .. 0 : f[m] = q
  BY <1>2
<1>4. 0 <= Len(cells)
  BY CellFields
<1> QED
  BY <1>1, <1>3, <1>4 DEF HeadAlong

(* A cell has its types, and ignores what its mask does not name.            *)
LEMMA CellMade ==
  ASSUME NEW v \in Bytes, NEW m \in Bytes
  PROVE  /\ Cell(v, m) \in [value : Bytes, mask : Bytes] /\ Cell(v, m).value \subseteq Cell(v, m).mask
         /\ Cell(v, m).value = v \cap m /\ Cell(v, m).mask = m
<1>1. PICK x \in Bytes : x = v \cap m /\ x \subseteq m
  BY DEF Bytes
<1>2. Cell(v, m) = [value |-> x, mask |-> m]
  BY <1>1 DEF Cell
<1> QED
  BY <1>1, <1>2

LEMMA IgnoredMade ==
  /\ Ignored \in [value : Bytes, mask : Bytes]
  /\ Ignored.value = {} /\ Ignored.mask = {}
  BY DEF Ignored, Cell, Bytes

(* Cells appended prolong the cells.                                         *)
LEMMA CellAppended ==
  ASSUME NEW cells \in Cells, NEW c \in [value : Bytes, mask : Bytes]
  PROVE  /\ Append(cells, c) \in Cells /\ Len(Append(cells, c)) = Len(cells) + 1
         /\ Append(cells, c)[Len(cells) + 1] = c /\ Prolongs(cells, Append(cells, c))
  BY DEF Cells, Prolongs

LEMMA CellsIgnored ==
  ASSUME NEW cells \in Cells, NEW by \in Nat
  PROVE  LET longer == cells \o [i \in 1 .. by |-> Ignored] IN
         /\ longer \in Cells /\ Len(longer) = Len(cells) + by
         /\ Prolongs(cells, longer)
         /\ \A i \in Len(cells) + 1 .. Len(cells) + by : longer[i] = Ignored
<1>1. PICK X : X = [value : Bytes, mask : Bytes] /\ Cells = Seq(X) /\ Ignored \in X
  BY IgnoredMade DEF Cells
<1>2. PICK c \in X : c = Ignored
  BY <1>1
<1>3. PICK tail \in Seq(X) : tail = [i \in 1 .. by |-> c] /\ Len(tail) = by
  <2>1. [i \in 1 .. by |-> c] \in Seq(X) /\ Len([i \in 1 .. by |-> c]) = by
    OBVIOUS
  <2> QED
    BY <2>1
<1>4. cells \in Seq(X) /\ Len(cells) \in Nat
  BY <1>1, CellFields
<1>5. PICK longer : longer = cells \o tail
  OBVIOUS
<1>6. longer \in Seq(X) /\ Len(longer) = Len(cells) + by
  BY <1>3, <1>4, <1>5
<1>7. \A i \in 1 .. Len(cells) : longer[i] = cells[i]
  BY <1>3, <1>4, <1>5
<1>8. \A i \in Len(cells) + 1 .. Len(cells) + by : longer[i] = c
  BY <1>3, <1>4, <1>5
<1>9. longer = cells \o [i \in 1 .. by |-> Ignored]
  BY <1>2, <1>3, <1>5
<1> QED
  BY <1>1, <1>2, <1>4, <1>6, <1>7, <1>8, <1>9 DEF Prolongs

(* A program that saves its start and then only reads on.                    *)
Plainly(program, n) ==
  /\ program[1] = Save(0)
  /\ \A m \in 1 .. n : m = 1 \/ program[m].op \in {"nop", "fuzzy", "byte", "skip"}

-----------------------------------------------------------------------------
(* The cells the compiler makes.                                             *)
Parts == [ok : BOOLEAN, fuzzy : BOOLEAN, mask : Bytes, cells : Cells]

PartSpot(part) == [at |-> Len(part.cells), mask |-> part.mask]

(* What a part of a compilation consists of, and what its updates change.    *)
LEMMA PartFields ==
  ASSUME NEW part \in Parts
  PROVE  /\ part.ok \in BOOLEAN /\ part.fuzzy \in BOOLEAN /\ part.mask \in Bytes /\ part.cells \in Cells
         /\ PartSpot(part) \in Spots /\ PartSpot(part).at = Len(part.cells) /\ PartSpot(part).mask = part.mask
<1>1. part.ok \in BOOLEAN /\ part.fuzzy \in BOOLEAN /\ part.mask \in Bytes /\ part.cells \in Cells
  BY DEF Parts
<1>2. PICK n \in Nat : n = Len(part.cells)
  BY <1>1, CellFields
<1>3. PartSpot(part) = [at |-> n, mask |-> part.mask]
  BY <1>2 DEF PartSpot
<1> QED
  BY <1>1, <1>2, <1>3 DEF Spots

PartMasked(part, m)    == [part EXCEPT !.fuzzy = TRUE, !.mask = m]
PartByte(part, c)      == [part EXCEPT !.cells = c, !.fuzzy = FALSE, !.mask = Bits]
PartSkipped(part, c)   == [part EXCEPT !.cells = c]
PartRefused(part)      == [part EXCEPT !.ok = FALSE]

LEMMA PartMaskedFields ==
  ASSUME NEW part \in Parts, NEW m \in Bytes
  PROVE  /\ PartMasked(part, m) \in Parts /\ PartMasked(part, m).cells = part.cells
         /\ PartMasked(part, m).mask = m /\ (PartMasked(part, m).ok <=> part.ok)
  BY DEF PartMasked, Parts

LEMMA PartByteFields ==
  ASSUME NEW part \in Parts, NEW c \in Cells
  PROVE  /\ PartByte(part, c) \in Parts /\ PartByte(part, c).cells = c
         /\ PartByte(part, c).mask = Bits /\ (PartByte(part, c).ok <=> part.ok)
<1>1. PICK b \in Bytes : b = Bits
  BY BytesBits
<1>2. PartByte(part, c) = [part EXCEPT !.cells = c, !.fuzzy = FALSE, !.mask = b]
  BY <1>1, Zenon DEF PartByte
<1> QED
  BY <1>1, <1>2 DEF Parts

LEMMA PartSkippedFields ==
  ASSUME NEW part \in Parts, NEW c \in Cells
  PROVE  /\ PartSkipped(part, c) \in Parts /\ PartSkipped(part, c).cells = c
         /\ PartSkipped(part, c).mask = part.mask /\ (PartSkipped(part, c).ok <=> part.ok)
  BY DEF PartSkipped, Parts

LEMMA PartRefusedFields ==
  ASSUME NEW part \in Parts
  PROVE  PartRefused(part) \in Parts /\ ~PartRefused(part).ok
  BY DEF PartRefused, Parts

LEMMA ProlongsSelf ==
  ASSUME NEW cells \in Cells
  PROVE  Prolongs(cells, cells)
  BY CellFields DEF Prolongs

LEMMA SkipNat ==
  ASSUME NEW atom \in Atoms, atom.op = "skip"
  PROVE  atom.by \in Nat
  BY AtomFields

(* Proper cells prolonged by proper ones are proper.                         *)
LEMMA ProperAppended ==
  ASSUME NEW cells \in Cells, NEW longer \in Cells, Prolongs(cells, longer), Proper(cells),
         \A i \in Len(cells) + 1 .. Len(longer) : longer[i].value \subseteq longer[i].mask
  PROVE  Proper(longer)
<1>1. Len(cells) \in Nat /\ Len(longer) \in Nat /\ DOMAIN cells = 1 .. Len(cells) /\ DOMAIN longer = 1 .. Len(longer)
  BY CellFields
<1>2. ASSUME NEW i \in 1 .. Len(longer) PROVE longer[i].value \subseteq longer[i].mask
  <2>1. CASE i \in 1 .. Len(cells)
    <3>1. longer[i] = cells[i]
      BY <2>1 DEF Prolongs
    <3> QED
      BY <1>1, <2>1, <3>1 DEF Proper
  <2>2. CASE i \notin 1 .. Len(cells)
    <3>1. i \in Len(cells) + 1 .. Len(longer)
      BY <1>1, <2>2
    <3> QED
      BY <3>1
  <2> QED
    BY <2>1, <2>2
<1> QED
  BY <1>1, <1>2 DEF Proper

(* Behind one more atom: the cells are prolonged by those of the atom.       *)
Follows(part, next, atom) ==
  /\ Prolongs(part.cells, next.cells)
  /\ HeadAtom(atom, PartSpot(part), PartSpot(next), next.cells)
  /\ Proper(part.cells) => Proper(next.cells)

(* One step of the compiler follows one atom.                                *)
LEMMA ProjectStep ==
  ASSUME NEW program, NEW n \in Nat, NEW part \in Parts, program[n] \in Atoms
  PROVE  /\ Project(part, program, n) \in Parts
         /\ Project(part, program, n).ok =>
              /\ part.ok
              /\ Follows(part, Project(part, program, n), program[n])
              /\ n = 1 \/ program[n].op \in {"nop", "fuzzy", "byte", "skip"}
<1>0. PICK atom \in Atoms : atom = program[n]
  OBVIOUS
<1>1. /\ part.ok \in BOOLEAN /\ part.fuzzy \in BOOLEAN /\ part.mask \in Bytes /\ part.cells \in Cells
      /\ PartSpot(part) \in Spots /\ PartSpot(part).at = Len(part.cells) /\ PartSpot(part).mask = part.mask
  BY PartFields
<1>3. CASE ~part.ok \/ Opens(program, n) \/ atom.op = "nop"
  <2>0. part.ok => atom.op # "fuzzy" /\ atom.op # "byte" /\ atom.op # "skip"
    BY <1>0, <1>3 DEF Opens, Save
  <2>1. Project(part, program, n) = part
    BY <1>0, <1>3, <2>0, Zenon DEF Project
  <2>2. part.ok => atom.op \in {"save", "nop"} /\ (n = 1 \/ atom.op = "nop")
    BY <1>0, <1>3 DEF Opens, Save
  <2>3. part.ok => Follows(part, part, atom)
    BY <1>1, <2>2, ProlongsSelf DEF Follows, HeadAtom
  <2> QED
    BY <1>0, <2>1, <2>2, <2>3
<1>4. CASE ~(~part.ok \/ Opens(program, n) \/ atom.op = "nop")
  <2>0. part.ok
    BY <1>4
  <2>1. CASE atom.op = "fuzzy" /\ ~part.fuzzy
    <3>1. atom.mask \in Bytes
      BY <2>1, AtomFields
    <3>2. PICK next \in Parts : /\ next = PartMasked(part, atom.mask)
                                /\ next.cells = part.cells /\ next.mask = atom.mask
      BY <3>1, PartMaskedFields
    <3>4. Project(part, program, n) = next
      BY <1>0, <1>4, <2>0, <2>1, <3>2, Zenon DEF Project, PartMasked
    <3>5. PartSpot(next).at = Len(part.cells) /\ PartSpot(next).mask = atom.mask
      BY <3>2, PartFields
    <3>6. Follows(part, next, atom)
      BY <1>1, <2>1, <3>2, <3>5, ProlongsSelf DEF Follows, HeadAtom
    <3> QED
      BY <1>0, <2>0, <2>1, <3>4, <3>6
  <2>2. CASE atom.op = "byte"
    <3>1. PICK c \in [value : Bytes, mask : Bytes] : c = Cell(atom.byte, part.mask) /\ c.value \subseteq c.mask
      BY <1>1, <2>2, AtomFields, CellMade
    <3>2. PICK longer \in Cells : /\ longer = Append(part.cells, c) /\ Len(longer) = Len(part.cells) + 1
                                  /\ longer[Len(part.cells) + 1] = c /\ Prolongs(part.cells, longer)
      BY <1>1, CellAppended
    <3>4. PICK next \in Parts : next = PartByte(part, longer) /\ next.cells = longer /\ next.mask = Bits
      BY PartByteFields
    <3>5. [part EXCEPT !.cells = Append(@, Cell(atom.byte, part.mask)), !.fuzzy = FALSE, !.mask = Bits] = next
      BY <3>1, <3>2, <3>4, Zenon DEF PartByte
    <3>6. Project(part, program, n) = next
      <4>1. ~(atom.op = "fuzzy")
        BY <2>2
      <4> QED
        BY <1>0, <1>4, <2>0, <2>2, <3>5, <4>1, Zenon DEF Project
    <3>7. PartSpot(next).at = Len(part.cells) + 1 /\ PartSpot(next).mask = Bits
      BY <3>2, <3>4, PartFields
    <3>8. HeadAtom(atom, PartSpot(part), PartSpot(next), next.cells)
      BY <1>1, <2>2, <3>1, <3>2, <3>4, <3>7, Zenon DEF HeadAtom
    <3>9. Proper(part.cells) => Proper(next.cells)
      <4>1. Len(part.cells) \in Nat
        BY <1>1, CellFields
      <4>2. \A i \in Len(part.cells) + 1 .. Len(longer) : longer[i].value \subseteq longer[i].mask
        BY <3>1, <3>2, <4>1
      <4> QED
        BY <1>1, <3>2, <3>4, <4>2, ProperAppended
    <3> QED
      BY <1>0, <2>0, <2>2, <3>2, <3>4, <3>6, <3>8, <3>9 DEF Follows
  <2>3. CASE atom.op = "skip" /\ atom.by # 0 /\ ~part.fuzzy
    <3>1. PICK by \in Nat : by = atom.by
      BY <2>3, SkipNat
    <3>2. PICK longer \in Cells : /\ longer = part.cells \o [i \in 1 .. by |-> Ignored]
                                  /\ Len(longer) = Len(part.cells) + by /\ Prolongs(part.cells, longer)
                                  /\ \A i \in Len(part.cells) + 1 .. Len(part.cells) + by : longer[i] = Ignored
      BY <1>1, CellsIgnored
    <3>4. PICK next \in Parts : next = PartSkipped(part, longer) /\ next.cells = longer /\ next.mask = part.mask
      BY PartSkippedFields
    <3>5. [part EXCEPT !.cells = @ \o [i \in 1 .. atom.by |-> Ignored]] = next
      BY <3>1, <3>2, <3>4, Zenon DEF PartSkipped
    <3>6. Project(part, program, n) = next
      <4>1. ~(atom.op = "fuzzy") /\ ~(atom.op = "byte")
        BY <2>3
      <4> QED
        BY <1>0, <1>4, <2>0, <2>3, <3>5, <4>1, Zenon DEF Project
    <3>7. PartSpot(next).at = Len(part.cells) + by /\ PartSpot(next).mask = part.mask
      BY <3>2, <3>4, PartFields
    <3>8. HeadAtom(atom, PartSpot(part), PartSpot(next), next.cells)
      BY <1>1, <2>3, <3>1, <3>2, <3>4, <3>7, Zenon DEF HeadAtom
    <3>9. Proper(part.cells) => Proper(next.cells)
      <4>1. \A i \in Len(part.cells) + 1 .. Len(longer) : longer[i].value \subseteq longer[i].mask
        BY <3>2, IgnoredMade
      <4> QED
        BY <1>1, <3>2, <3>4, <4>1, ProperAppended
    <3> QED
      BY <1>0, <2>0, <2>3, <3>2, <3>4, <3>6, <3>8, <3>9 DEF Follows
  <2>4. CASE ~(\/ atom.op = "fuzzy" /\ ~part.fuzzy
               \/ atom.op = "byte"
               \/ atom.op = "skip" /\ atom.by # 0 /\ ~part.fuzzy)
    <3>1. PICK next \in Parts : next = PartRefused(part) /\ ~next.ok
      BY PartRefusedFields
    <3>3. Project(part, program, n) = next
      BY <1>0, <1>4, <2>4, <3>1, Zenon DEF Project, PartRefused
    <3> QED
      BY <3>1, <3>3
  <2> QED
    BY <2>1, <2>2, <2>3, <2>4
<1> QED
  BY <1>3, <1>4

(* The compilation as the fold over the atoms that Projected is.             *)
LEMMA ProjectedIs ==
  ASSUME NEW program \in Seq(Atoms)
  PROVE  /\ \A n \in 0 .. Len(program) : Projected(program)[n] \in Parts
         /\ Projected(program)[0] = [ok |-> program[1] = Save(0), fuzzy |-> FALSE, mask |-> Bits, cells |-> <<>>]
         /\ \A n \in 1 .. Len(program) : Projected(program)[n] = Project(Projected(program)[n - 1], program, n)
<1>0. PICK N \in Nat : N = Len(program) /\ \A n \in 1 .. N : program[n] \in Atoms
  BY SequenceFields
<1> DEFINE Start == [ok |-> program[1] = Save(0), fuzzy |-> FALSE, mask |-> Bits, cells |-> <<>>]
           G == [n \in 1 .. N |-> [v \in Parts |-> Project(v, program, n)]]
<1>1. Start \in Parts
  <2>1. PICK b \in Bytes, c \in Cells : b = Bits /\ c = <<>>
    <3>1. <<>> \in Cells
      BY DEF Cells
    <3> QED
      BY <3>1, BytesBits
  <2>2. (program[1] = Save(0)) \in BOOLEAN
    OBVIOUS
  <2>3. [ok |-> program[1] = Save(0), fuzzy |-> FALSE, mask |-> b, cells |-> c] \in Parts
    BY <2>2 DEF Parts
  <2> QED
    BY <2>1, <2>3, Zenon
<1>2. G \in [1 .. N -> [Parts -> Parts]]
  <2>1. \A n \in 1 .. N, v \in Parts : Project(v, program, n) \in Parts
    <3> TAKE n \in 1 .. N, v \in Parts
    <3>1. n \in Nat /\ program[n] \in Atoms
      BY <1>0
    <3> QED
      BY <3>1, ProjectStep
  <2> QED
    BY <2>1
<1>3. \A n \in 1 .. N, v \in Parts : G[n][v] = Project(v, program, n)
  OBVIOUS
<1> HIDE DEF G, Start
<1>4. PICK f : Recursive(f, N, Start, G) /\ \A n \in 1 .. N : f[n - 1] \in Parts
  BY <1>1, <1>2, Recursively, Zenon
<1>5. ASSUME NEW n \in 0 .. N, n # 0 PROVE G[n][f[n - 1]] = Project(f[n - 1], program, n)
  <2>1. n \in 1 .. N
    BY <1>5
  <2> QED
    BY <2>1, <1>3, <1>4, Zenon
<1>6. \A n \in 0 .. N : (IF n = 0 THEN Start ELSE G[n][f[n - 1]]) = IF n = 0 THEN Start ELSE Project(f[n - 1], program, n)
  BY <1>5, Zenon
<1> DEFINE P(t) == t = [n \in 0 .. N |-> IF n = 0 THEN Start ELSE Project(t[n - 1], program, n)]
<1>7. P(f)
  BY <1>4, <1>6, Zenon DEF Recursive
<1>8. Projected(program) = (CHOOSE t : P(t))
  BY <1>0, Zenon DEF Projected, Start
<1>9. \A t : P(t) => \A n \in 0 .. N : t[n] = IF n = 0 THEN Start ELSE Project(t[n - 1], program, n)
  BY Zenon
<1> HIDE DEF P
<1>10. P(CHOOSE t : P(t))
  BY <1>7, Zenon
<1>11. PICK part : /\ part = Projected(program)
                   /\ \A n \in 0 .. N : part[n] = IF n = 0 THEN Start ELSE Project(part[n - 1], program, n)
  BY <1>8, <1>9, <1>10, Zenon
<1>12. part[0] = Start
  <2>1. 0 \in 0 .. N
    OBVIOUS
  <2> QED
    BY <1>11, <2>1, Zenon
<1>13. \A n \in 1 .. N : part[n] = Project(part[n - 1], program, n)
  <2>1. \A n \in 1 .. N : n \in 0 .. N /\ n # 0
    OBVIOUS
  <2> QED
    BY <1>11, <2>1, Zenon
<1> DEFINE T == {n \in 0 .. N : part[n] \in Parts}
<1>14. 0 \in T
  BY <1>1, <1>12
<1>15. ASSUME NEW n \in 1 .. N, n - 1 \in T PROVE n \in T
  <2>1. part[n - 1] \in Parts /\ n \in Nat /\ program[n] \in Atoms /\ n \in 0 .. N
    BY <1>0, <1>15
  <2>2. Project(part[n - 1], program, n) \in Parts
    BY <2>1, ProjectStep
  <2>3. part[n] = Project(part[n - 1], program, n)
    BY <1>13
  <2> QED
    BY <2>1, <2>2, <2>3
<1> HIDE DEF T
<1>16. \A n \in 0 .. N : n \in T
  BY <1>14, <1>15, IntervalInduction
<1>17. \A n \in 0 .. N : part[n] \in Parts
  BY <1>16 DEF T
<1> QED
  BY <1>0, <1>11, <1>12, <1>13, <1>17, Zenon DEF Start

(* The cells of a head: a part of them, or all of them.                      *)
Heads(program, n, cells, at, mask) ==
  \E f : HeadAlong(program, n, f, cells) /\ f[n].at = at /\ f[n].mask = mask

(* The cells the compiler makes are those of the whole program as a head.    *)
LEMMA CompileHead ==
  ASSUME NEW program \in Seq(Atoms), Compile(program) # <<>>
  PROVE  /\ Compile(program) \in Cells /\ Proper(Compile(program))
         /\ Plainly(program, Len(program))
         /\ \E mask : Heads(program, Len(program), Compile(program), Len(Compile(program)), mask)
<1>0. PICK N \in Nat : N = Len(program) /\ \A n \in 1 .. N : program[n] \in Atoms
  BY SequenceFields
<1>1. PICK part : /\ part = Projected(program)
                  /\ \A n \in 0 .. N : part[n] \in Parts
                  /\ part[0] = [ok |-> program[1] = Save(0), fuzzy |-> FALSE, mask |-> Bits, cells |-> <<>>]
                  /\ \A n \in 1 .. N : part[n] = Project(part[n - 1], program, n)
  BY <1>0, ProjectedIs
<1>2. part[N].ok /\ Compile(program) = part[N].cells
  BY <1>0, <1>1, Zenon DEF Compile
<1> DEFINE T == {n \in 0 .. N : part[n].ok =>
                    /\ Plainly(program, n) /\ Proper(part[n].cells)
                    /\ Heads(program, n, part[n].cells, Len(part[n].cells), part[n].mask)}
<1>3. 0 \in T
  <2>1. /\ part[0].ok = (program[1] = Save(0)) /\ part[0].cells = <<>> /\ part[0].mask = Bits
        /\ part[0].cells \in Cells
    BY <1>1, PartFields
  <2>2. part[0].ok => Plainly(program, 0)
    <3>1. \A m \in 1 .. 0 : FALSE
      OBVIOUS
    <3> QED
      BY <2>1, <3>1, Zenon DEF Plainly
  <2>3. Proper(part[0].cells) /\ Len(part[0].cells) = 0
    BY <2>1 DEF Proper
  <2>4. Heads(program, 0, part[0].cells, 0, Bits)
    <3>1. PICK f : HeadAlong(program, 0, f, part[0].cells)
      BY <2>1, HeadEmpty
    <3> QED
      BY <3>1 DEF Heads, HeadAlong
  <2> QED
    BY <2>1, <2>2, <2>3, <2>4
<1>4. ASSUME NEW n \in 1 .. N, n - 1 \in T PROVE n \in T
  <2> SUFFICES ASSUME part[n].ok
               PROVE  /\ Plainly(program, n) /\ Proper(part[n].cells)
                      /\ Heads(program, n, part[n].cells, Len(part[n].cells), part[n].mask)
    OBVIOUS
  <2>1. PICK before \in Parts, after \in Parts : before = part[n - 1] /\ after = part[n] /\ after = Project(before, program, n)
    <3>1. n - 1 \in 0 .. N /\ n \in 0 .. N
      OBVIOUS
    <3> QED
      BY <1>1, <3>1, Zenon
  <2>2. /\ before.ok /\ Follows(before, after, program[n])
        /\ n = 1 \/ program[n].op \in {"nop", "fuzzy", "byte", "skip"}
    <3>1. n \in Nat /\ program[n] \in Atoms /\ after.ok
      BY <1>0, <2>1
    <3> QED
      BY <2>1, <3>1, ProjectStep
  <2>3. Plainly(program, n - 1) /\ Proper(before.cells) /\ Heads(program, n - 1, before.cells, Len(before.cells), before.mask)
    BY <1>4, <2>1, <2>2
  <2>4. PICK f : /\ HeadAlong(program, n - 1, f, before.cells)
                 /\ f[n - 1].at = Len(before.cells) /\ f[n - 1].mask = before.mask
    BY <2>3 DEF Heads
  <2>5. f[n - 1] = PartSpot(before)
    <3>1. n - 1 \in 0 .. n - 1
      OBVIOUS
    <3>2. f[n - 1] \in Spots
      BY <2>4, <3>1 DEF HeadAlong
    <3> QED
      BY <2>4, <3>2 DEF PartSpot, Spots
  <2>6. /\ PartSpot(after) \in Spots /\ PartSpot(after).at = Len(after.cells) /\ PartSpot(after).mask = after.mask
        /\ before.cells \in Cells /\ after.cells \in Cells /\ Len(after.cells) \in Nat
    BY PartFields, CellFields
  <2>7. PICK g : HeadAlong(program, n, g, after.cells) /\ g[n] = PartSpot(after)
    <3>1. n \in Nat /\ n # 0 /\ PartSpot(after).at <= Len(after.cells)
      BY <2>6
    <3>2. Prolongs(before.cells, after.cells) /\ HeadAtom(program[n], f[n - 1], PartSpot(after), after.cells)
      BY <2>2, <2>5, Zenon DEF Follows
    <3> QED
      BY <2>4, <2>6, <3>1, <3>2, HeadExtended
  <2>8. Heads(program, n, after.cells, Len(after.cells), after.mask)
    BY <2>6, <2>7, Zenon DEF Heads
  <2>9. Plainly(program, n)
    <3>1. \A m \in 1 .. n : m = n \/ m \in 1 .. n - 1
      OBVIOUS
    <3> QED
      BY <2>2, <2>3, <3>1, Zenon DEF Plainly
  <2>10. Proper(after.cells)
    BY <2>2, <2>3, Zenon DEF Follows
  <2> QED
    BY <2>1, <2>8, <2>9, <2>10
<1> HIDE DEF T
<1>5. \A n \in 0 .. N : n \in T
  BY <1>3, <1>4, IntervalInduction
<1>6. N \in T /\ N \in 0 .. N
  BY <1>5
<1>7. part[N].cells \in Cells
  BY <1>1, <1>6, PartFields
<1> QED
  BY <1>0, <1>2, <1>6, <1>7 DEF T

-----------------------------------------------------------------------------
(* The cells a caller supplies.                                              *)
FitParts == [ok : BOOLEAN, at : Nat, mask : Bytes]

FitSpot(part) == [at |-> part.at, mask |-> part.mask]

FitByte(part, ok)     == [at |-> part.at + 1, mask |-> Bits, ok |-> ok]
FitMasked(part, m)    == [part EXCEPT !.mask = m]
FitSkipped(part, by, ok) == [part EXCEPT !.at = @ + by, !.ok = ok]
FitRefused(part)      == [part EXCEPT !.ok = FALSE]

(* What a part of a validation consists of, and what its updates change.     *)
LEMMA FitFields ==
  ASSUME NEW part \in FitParts
  PROVE  /\ part.ok \in BOOLEAN /\ part.at \in Nat /\ part.mask \in Bytes
         /\ FitSpot(part) \in Spots /\ FitSpot(part).at = part.at /\ FitSpot(part).mask = part.mask
  BY DEF FitParts, FitSpot, Spots

LEMMA FitByteFields ==
  ASSUME NEW part \in FitParts, NEW ok \in BOOLEAN
  PROVE  /\ FitByte(part, ok) \in FitParts /\ FitByte(part, ok).at = part.at + 1
         /\ FitByte(part, ok).mask = Bits /\ (FitByte(part, ok).ok <=> ok)
<1>1. PICK b \in Bytes : b = Bits
  BY BytesBits
<1>2. FitByte(part, ok) = [at |-> part.at + 1, mask |-> b, ok |-> ok]
  BY <1>1, Zenon DEF FitByte
<1>3. part.at + 1 \in Nat
  BY FitFields
<1> QED
  BY <1>1, <1>2, <1>3 DEF FitParts

LEMMA FitMaskedFields ==
  ASSUME NEW part \in FitParts, NEW m \in Bytes
  PROVE  /\ FitMasked(part, m) \in FitParts /\ FitMasked(part, m).at = part.at
         /\ FitMasked(part, m).mask = m /\ (FitMasked(part, m).ok <=> part.ok)
  BY DEF FitParts, FitMasked

LEMMA FitSkippedFields ==
  ASSUME NEW part \in FitParts, NEW by \in Nat, NEW ok \in BOOLEAN
  PROVE  /\ FitSkipped(part, by, ok) \in FitParts /\ FitSkipped(part, by, ok).at = part.at + by
         /\ FitSkipped(part, by, ok).mask = part.mask /\ (FitSkipped(part, by, ok).ok <=> ok)
<1>1. PICK c \in Nat : c = part.at + by
  BY FitFields
<1>2. FitSkipped(part, by, ok) = [part EXCEPT !.at = c, !.ok = ok]
  BY <1>1, Zenon DEF FitSkipped
<1>3. /\ [part EXCEPT !.at = c, !.ok = ok] \in FitParts /\ [part EXCEPT !.at = c, !.ok = ok].at = c
      /\ [part EXCEPT !.at = c, !.ok = ok].mask = part.mask /\ ([part EXCEPT !.at = c, !.ok = ok].ok <=> ok)
  BY DEF FitParts
<1> QED
  BY <1>1, <1>2, <1>3, Zenon

LEMMA FitRefusedFields ==
  ASSUME NEW part \in FitParts
  PROVE  FitRefused(part) \in FitParts /\ ~FitRefused(part).ok
  BY DEF FitParts, FitRefused

ProperTo(cells, n) == \A i \in 1 .. n : cells[i].value \subseteq cells[i].mask

(* One step of the validation follows one atom.                              *)
LEMMA FitStep ==
  ASSUME NEW program, NEW n \in Nat, NEW cells \in Cells, NEW part \in FitParts, program[n] \in Atoms
  PROVE  /\ Fits(part, program, n, cells) \in FitParts
         /\ Fits(part, program, n, cells).ok =>
              /\ part.ok
              /\ part.at <= Len(cells) => Fits(part, program, n, cells).at <= Len(cells)
              /\ HeadAtom(program[n], FitSpot(part), FitSpot(Fits(part, program, n, cells)), cells)
              /\ ProperTo(cells, part.at) => ProperTo(cells, Fits(part, program, n, cells).at)
              /\ n = 1 \/ program[n].op \in {"nop", "fuzzy", "byte", "skip"}
<1>0. PICK atom \in Atoms : atom = program[n]
  OBVIOUS
<1>1. /\ part.ok \in BOOLEAN /\ part.at \in Nat /\ part.mask \in Bytes /\ Len(cells) \in Nat
      /\ FitSpot(part) \in Spots /\ FitSpot(part).at = part.at /\ FitSpot(part).mask = part.mask
  BY FitFields, CellFields
<1>3. CASE ~part.ok \/ Opens(program, n) \/ atom.op = "nop"
  <2>0. part.ok => atom.op # "fuzzy" /\ atom.op # "byte" /\ atom.op # "skip"
    BY <1>0, <1>3 DEF Opens, Save
  <2>1. Fits(part, program, n, cells) = part
    BY <1>0, <1>3, <2>0, Zenon DEF Fits
  <2>2. part.ok => atom.op \in {"save", "nop"} /\ (n = 1 \/ atom.op = "nop")
    BY <1>0, <1>3 DEF Opens, Save
  <2>3. part.ok => HeadAtom(atom, FitSpot(part), FitSpot(part), cells)
    BY <1>1, <2>2 DEF HeadAtom
  <2> QED
    BY <1>0, <2>1, <2>2, <2>3
<1>4. CASE ~(~part.ok \/ Opens(program, n) \/ atom.op = "nop")
  <2>0. part.ok
    BY <1>4
  <2>1. CASE atom.op = "fuzzy" /\ part.mask = Bits
    <3>1. atom.mask \in Bytes
      BY <2>1, AtomFields
    <3>2. PICK next \in FitParts : next = FitMasked(part, atom.mask) /\ next.at = part.at /\ next.mask = atom.mask
      BY <3>1, FitMaskedFields
    <3>4. Fits(part, program, n, cells) = next
      BY <1>0, <1>4, <2>0, <2>1, <3>2, Zenon DEF Fits, FitMasked
    <3>5. FitSpot(next).at = part.at /\ FitSpot(next).mask = atom.mask
      BY <3>2, FitFields
    <3>6. HeadAtom(atom, FitSpot(part), FitSpot(next), cells)
      BY <1>1, <2>1, <3>5, Zenon DEF HeadAtom
    <3>7. program[n].op \in {"nop", "fuzzy", "byte", "skip"}
      BY <1>0, <2>1
    <3>8. next.at <= Len(cells) <=> part.at <= Len(cells)
      BY <3>2
    <3> QED
      BY <1>0, <2>0, <3>2, <3>4, <3>6, <3>7, <3>8, Zenon
  <2>2. CASE atom.op = "byte"
    <3>1. PICK c \in [value : Bytes, mask : Bytes] : c = Cell(atom.byte, part.mask) /\ c.value \subseteq c.mask
      BY <1>1, <2>2, AtomFields, CellMade
    <3>2. PICK ok \in BOOLEAN : ok = (part.at < Len(cells) /\ cells[part.at + 1] = Cell(atom.byte, part.mask))
      OBVIOUS
    <3>3. PICK next \in FitParts : /\ next = FitByte(part, ok) /\ next.at = part.at + 1 /\ next.mask = Bits
                                   /\ next.ok <=> ok
      BY <3>2, FitByteFields
    <3>4. Fits(part, program, n, cells) = next
      <4>1. ~(atom.op = "fuzzy") /\ ~(atom.op = "skip")
        BY <2>2
      <4> QED
        BY <1>0, <1>4, <2>0, <2>2, <3>2, <3>3, <4>1, Zenon DEF Fits, FitByte
    <3> SUFFICES ASSUME next.ok
                 PROVE  /\ next.at <= Len(cells)
                        /\ HeadAtom(atom, FitSpot(part), FitSpot(next), cells)
                        /\ ProperTo(cells, part.at) => ProperTo(cells, next.at)
                        /\ program[n].op \in {"nop", "fuzzy", "byte", "skip"}
      BY <1>0, <2>0, <3>4, Zenon
    <3>5. FitSpot(next).at = part.at + 1 /\ FitSpot(next).mask = Bits
      BY <3>3, FitFields
    <3>6. part.at < Len(cells) /\ cells[part.at + 1] = Cell(atom.byte, part.mask)
      BY <3>2, <3>3, Zenon
    <3>7. next.at <= Len(cells)
      BY <1>1, <3>3, <3>6
    <3>8. HeadAtom(atom, FitSpot(part), FitSpot(next), cells)
      BY <1>1, <2>2, <3>5, <3>6, Zenon DEF HeadAtom
    <3>9. ProperTo(cells, part.at) => ProperTo(cells, next.at)
      <4>1. cells[part.at + 1].value \subseteq cells[part.at + 1].mask
        BY <3>1, <3>6, Zenon
      <4>2. \A i \in 1 .. next.at : i = part.at + 1 \/ i \in 1 .. part.at
        BY <1>1, <3>3
      <4> QED
        BY <4>1, <4>2, Zenon DEF ProperTo
    <3>10. program[n].op \in {"nop", "fuzzy", "byte", "skip"}
      BY <1>0, <2>2
    <3> QED
      BY <3>7, <3>8, <3>9, <3>10
  <2>3. CASE atom.op = "skip" /\ atom.by # 0 /\ part.mask = Bits
    <3>1. PICK by \in Nat : by = atom.by
      BY <2>3, SkipNat
    <3>2. PICK ok \in BOOLEAN : ok = (/\ part.at + atom.by <= Len(cells)
                                      /\ \A i \in part.at + 1 .. part.at + atom.by : cells[i] = Ignored)
      OBVIOUS
    <3>3. PICK next \in FitParts : /\ next = FitSkipped(part, by, ok) /\ next.at = part.at + by /\ next.mask = part.mask
                                   /\ next.ok <=> ok
      BY <3>2, FitSkippedFields
    <3>4. Fits(part, program, n, cells) = next
      <4>1. ~(atom.op = "fuzzy") /\ ~(atom.op = "byte")
        BY <2>3
      <4> QED
        BY <1>0, <1>4, <2>0, <2>3, <3>1, <3>2, <3>3, <4>1, Zenon DEF Fits, FitSkipped
    <3> SUFFICES ASSUME next.ok
                 PROVE  /\ next.at <= Len(cells)
                        /\ HeadAtom(atom, FitSpot(part), FitSpot(next), cells)
                        /\ ProperTo(cells, part.at) => ProperTo(cells, next.at)
                        /\ program[n].op \in {"nop", "fuzzy", "byte", "skip"}
      BY <1>0, <2>0, <3>4, Zenon
    <3>5. FitSpot(next).at = part.at + by /\ FitSpot(next).mask = part.mask
      BY <3>3, FitFields
    <3>6. part.at + by <= Len(cells) /\ \A i \in part.at + 1 .. part.at + by : cells[i] = Ignored
      BY <3>1, <3>2, <3>3, Zenon
    <3>8. HeadAtom(atom, FitSpot(part), FitSpot(next), cells)
      BY <1>1, <2>3, <3>1, <3>5, <3>6, Zenon DEF HeadAtom
    <3>9. ProperTo(cells, part.at) => ProperTo(cells, next.at)
      <4>1. \A i \in part.at + 1 .. part.at + by : cells[i].value \subseteq cells[i].mask
        BY <3>6, IgnoredMade, Zenon
      <4>2. \A i \in 1 .. next.at : i \in part.at + 1 .. part.at + by \/ i \in 1 .. part.at
        BY <1>1, <3>3
      <4> QED
        BY <4>1, <4>2, Zenon DEF ProperTo
    <3>10. program[n].op \in {"nop", "fuzzy", "byte", "skip"}
      BY <1>0, <2>3
    <3> QED
      BY <3>3, <3>6, <3>8, <3>9, <3>10
  <2>4. CASE ~(\/ atom.op = "fuzzy" /\ part.mask = Bits
               \/ atom.op = "byte"
               \/ atom.op = "skip" /\ atom.by # 0 /\ part.mask = Bits)
    <3>1. PICK next \in FitParts : next = FitRefused(part) /\ ~next.ok
      BY FitRefusedFields
    <3>3. Fits(part, program, n, cells) = next
      BY <1>0, <1>4, <2>4, <3>1, Zenon DEF Fits, FitRefused
    <3> QED
      BY <3>1, <3>3
  <2> QED
    BY <2>1, <2>2, <2>3, <2>4
<1> QED
  BY <1>3, <1>4

(* The validation as the fold over the atoms that Fitted is.                 *)
LEMMA FittedIs ==
  ASSUME NEW program \in Seq(Atoms), NEW cells \in Cells
  PROVE  LET part == Fitted(program, cells) IN
         /\ \A n \in 0 .. Len(program) : part[n] \in FitParts
         /\ part[0] = [ok |-> cells # <<>> /\ program[1] = Save(0), at |-> 0, mask |-> Bits]
         /\ \A n \in 1 .. Len(program) : part[n] = Fits(part[n - 1], program, n, cells)
<1>0. PICK N \in Nat : N = Len(program) /\ \A n \in 1 .. N : program[n] \in Atoms
  BY SequenceFields
<1> DEFINE Start == [ok |-> cells # <<>> /\ program[1] = Save(0), at |-> 0, mask |-> Bits]
           G == [n \in 1 .. N |-> [v \in FitParts |-> Fits(v, program, n, cells)]]
<1>1. Start \in FitParts
  <2>1. PICK b \in Bytes : b = Bits
    BY BytesBits
  <2>2. (cells # <<>> /\ program[1] = Save(0)) \in BOOLEAN
    OBVIOUS
  <2>3. [ok |-> cells # <<>> /\ program[1] = Save(0), at |-> 0, mask |-> b] \in FitParts
    BY <2>2 DEF FitParts
  <2> QED
    BY <2>1, <2>3, Zenon
<1>2. G \in [1 .. N -> [FitParts -> FitParts]]
  <2>1. \A n \in 1 .. N, v \in FitParts : Fits(v, program, n, cells) \in FitParts
    <3> TAKE n \in 1 .. N, v \in FitParts
    <3>1. n \in Nat /\ program[n] \in Atoms
      BY <1>0
    <3> QED
      BY <3>1, FitStep
  <2> QED
    BY <2>1
<1>3. \A n \in 1 .. N, v \in FitParts : G[n][v] = Fits(v, program, n, cells)
  OBVIOUS
<1> HIDE DEF G, Start
<1>4. PICK f : Recursive(f, N, Start, G) /\ \A n \in 1 .. N : f[n - 1] \in FitParts
  BY <1>1, <1>2, Recursively, Zenon
<1>5. ASSUME NEW n \in 0 .. N, n # 0 PROVE G[n][f[n - 1]] = Fits(f[n - 1], program, n, cells)
  <2>1. n \in 1 .. N
    BY <1>5
  <2> QED
    BY <2>1, <1>3, <1>4, Zenon
<1>6. \A n \in 0 .. N : (IF n = 0 THEN Start ELSE G[n][f[n - 1]]) = IF n = 0 THEN Start ELSE Fits(f[n - 1], program, n, cells)
  BY <1>5, Zenon
<1> DEFINE P(t) == t = [n \in 0 .. N |-> IF n = 0 THEN Start ELSE Fits(t[n - 1], program, n, cells)]
<1>7. P(f)
  BY <1>4, <1>6, Zenon DEF Recursive
<1>8. Fitted(program, cells) = (CHOOSE t : P(t))
  BY <1>0, Zenon DEF Fitted, Start
<1>9. \A t : P(t) => \A n \in 0 .. N : t[n] = IF n = 0 THEN Start ELSE Fits(t[n - 1], program, n, cells)
  BY Zenon
<1> HIDE DEF P
<1>10. P(CHOOSE t : P(t))
  BY <1>7, Zenon
<1>11. PICK part : /\ part = Fitted(program, cells)
                   /\ \A n \in 0 .. N : part[n] = IF n = 0 THEN Start ELSE Fits(part[n - 1], program, n, cells)
  BY <1>8, <1>9, <1>10, Zenon
<1>12. part[0] = Start
  <2>1. 0 \in 0 .. N
    OBVIOUS
  <2> QED
    BY <1>11, <2>1, Zenon
<1>13. \A n \in 1 .. N : part[n] = Fits(part[n - 1], program, n, cells)
  <2>1. \A n \in 1 .. N : n \in 0 .. N /\ n # 0
    OBVIOUS
  <2> QED
    BY <1>11, <2>1, Zenon
<1> DEFINE T == {n \in 0 .. N : part[n] \in FitParts}
<1>14. 0 \in T
  BY <1>1, <1>12
<1>15. ASSUME NEW n \in 1 .. N, n - 1 \in T PROVE n \in T
  <2>1. part[n - 1] \in FitParts /\ n \in Nat /\ program[n] \in Atoms /\ n \in 0 .. N
    BY <1>0, <1>15
  <2>2. Fits(part[n - 1], program, n, cells) \in FitParts
    BY <2>1, FitStep
  <2>3. part[n] = Fits(part[n - 1], program, n, cells)
    BY <1>13
  <2> QED
    BY <2>1, <2>2, <2>3
<1> HIDE DEF T
<1>16. \A n \in 0 .. N : n \in T
  BY <1>14, <1>15, IntervalInduction
<1>17. \A n \in 0 .. N : part[n] \in FitParts
  BY <1>16 DEF T
<1> QED
  BY <1>0, <1>11, <1>12, <1>13, <1>17, Zenon DEF Start

(* Cells that are valid for a program are those of the whole program as a    *)
(* head.                                                                     *)
LEMMA FittedHead ==
  ASSUME NEW program \in Seq(Atoms), NEW cells \in Cells, ValidFor(program, cells)
  PROVE  /\ cells # <<>> /\ Proper(cells) /\ Plainly(program, Len(program))
         /\ \E mask : Heads(program, Len(program), cells, Len(cells), mask)
<1>0. PICK N \in Nat : N = Len(program) /\ \A n \in 1 .. N : program[n] \in Atoms
  BY SequenceFields
<1>1. PICK part : /\ part = Fitted(program, cells)
                  /\ \A n \in 0 .. N : part[n] \in FitParts
                  /\ part[0] = [ok |-> cells # <<>> /\ program[1] = Save(0), at |-> 0, mask |-> Bits]
                  /\ \A n \in 1 .. N : part[n] = Fits(part[n - 1], program, n, cells)
  BY <1>0, FittedIs
<1>2. part[N].ok /\ part[N].at = Len(cells)
  BY <1>0, <1>1, Zenon DEF ValidFor
<1>3. Len(cells) \in Nat
  BY CellFields
<1> DEFINE T == {n \in 0 .. N : part[n].ok =>
                    /\ cells # <<>> /\ Plainly(program, n) /\ ProperTo(cells, part[n].at)
                    /\ part[n].at <= Len(cells)
                    /\ Heads(program, n, cells, part[n].at, part[n].mask)}
<1>4. 0 \in T
  <2>1. part[0].ok = (cells # <<>> /\ program[1] = Save(0)) /\ part[0].at = 0 /\ part[0].mask = Bits
    BY <1>1
  <2>2. part[0].ok => cells # <<>> /\ Plainly(program, 0)
    <3>1. \A m \in 1 .. 0 : FALSE
      OBVIOUS
    <3> QED
      BY <2>1, <3>1, Zenon DEF Plainly
  <2>3. ProperTo(cells, 0) /\ 0 <= Len(cells)
    BY <1>3 DEF ProperTo
  <2>4. Heads(program, 0, cells, 0, Bits)
    <3>1. PICK f : HeadAlong(program, 0, f, cells)
      BY HeadEmpty
    <3> QED
      BY <3>1 DEF Heads, HeadAlong
  <2> QED
    BY <2>1, <2>2, <2>3, <2>4
<1>5. ASSUME NEW n \in 1 .. N, n - 1 \in T PROVE n \in T
  <2> SUFFICES ASSUME part[n].ok
               PROVE  /\ cells # <<>> /\ Plainly(program, n) /\ ProperTo(cells, part[n].at)
                      /\ part[n].at <= Len(cells)
                      /\ Heads(program, n, cells, part[n].at, part[n].mask)
    OBVIOUS
  <2>1. PICK before \in FitParts, after \in FitParts :
          before = part[n - 1] /\ after = part[n] /\ after = Fits(before, program, n, cells)
    <3>1. n - 1 \in 0 .. N /\ n \in 0 .. N
      OBVIOUS
    <3> QED
      BY <1>1, <3>1, Zenon
  <2>2. /\ before.ok
        /\ before.at <= Len(cells) => after.at <= Len(cells)
        /\ HeadAtom(program[n], FitSpot(before), FitSpot(after), cells)
        /\ ProperTo(cells, before.at) => ProperTo(cells, after.at)
        /\ n = 1 \/ program[n].op \in {"nop", "fuzzy", "byte", "skip"}
    <3>1. n \in Nat /\ program[n] \in Atoms /\ after.ok
      BY <1>0, <2>1
    <3> QED
      BY <2>1, <3>1, FitStep
  <2>3. /\ cells # <<>> /\ Plainly(program, n - 1) /\ ProperTo(cells, before.at) /\ before.at <= Len(cells)
        /\ Heads(program, n - 1, cells, before.at, before.mask)
    BY <1>5, <2>1, <2>2
  <2>4. PICK f : HeadAlong(program, n - 1, f, cells) /\ f[n - 1].at = before.at /\ f[n - 1].mask = before.mask
    BY <2>3 DEF Heads
  <2>5. f[n - 1] = FitSpot(before)
    <3>1. n - 1 \in 0 .. n - 1
      OBVIOUS
    <3>2. f[n - 1] \in Spots
      BY <2>4, <3>1 DEF HeadAlong
    <3> QED
      BY <2>4, <3>2 DEF FitSpot, Spots
  <2>6. FitSpot(after) \in Spots /\ FitSpot(after).at = after.at /\ FitSpot(after).mask = after.mask /\ after.at <= Len(cells)
    BY <2>2, <2>3, FitFields
  <2>7. PICK g : HeadAlong(program, n, g, cells) /\ g[n] = FitSpot(after)
    <3>1. n \in Nat /\ n # 0 /\ FitSpot(after).at <= Len(cells)
      BY <2>6
    <3>2. Prolongs(cells, cells) /\ HeadAtom(program[n], f[n - 1], FitSpot(after), cells)
      BY <2>2, <2>5, ProlongsSelf
    <3> QED
      BY <2>4, <2>6, <3>1, <3>2, HeadExtended
  <2>8. Heads(program, n, cells, after.at, after.mask)
    BY <2>6, <2>7, Zenon DEF Heads
  <2>9. Plainly(program, n)
    <3>1. \A m \in 1 .. n : m = n \/ m \in 1 .. n - 1
      OBVIOUS
    <3> QED
      BY <2>2, <2>3, <3>1, Zenon DEF Plainly
  <2> QED
    BY <2>1, <2>2, <2>3, <2>8, <2>9
<1> HIDE DEF T
<1>6. \A n \in 0 .. N : n \in T
  BY <1>4, <1>5, IntervalInduction
<1>7. N \in T /\ N \in 0 .. N
  BY <1>6
<1>8. Proper(cells) <=> ProperTo(cells, Len(cells))
  BY CellFields DEF Proper, ProperTo
<1> QED
  BY <1>0, <1>2, <1>7, <1>8 DEF T

-----------------------------------------------------------------------------
(* The exact prefix.                                                         *)
LeadParts == [over : BOOLEAN, cells : Cells]

LeadByte(part, c) == [part EXCEPT !.cells = c]
LeadOver(part)    == [part EXCEPT !.over = TRUE]

(* What a part of a prefix consists of, and what its updates change.         *)
LEMMA LeadFields ==
  ASSUME NEW part \in LeadParts
  PROVE  part.over \in BOOLEAN /\ part.cells \in Cells
  BY DEF LeadParts

LEMMA LeadByteFields ==
  ASSUME NEW part \in LeadParts, NEW c \in Cells
  PROVE  LeadByte(part, c) \in LeadParts /\ LeadByte(part, c).cells = c /\ (LeadByte(part, c).over <=> part.over)
  BY DEF LeadByte, LeadParts

LEMMA LeadOverFields ==
  ASSUME NEW part \in LeadParts
  PROVE  LeadOver(part) \in LeadParts /\ LeadOver(part).cells = part.cells /\ LeadOver(part).over
  BY DEF LeadOver, LeadParts

(* An atom behind those that lead: it leads too, or is behind what leads.    *)
LeadStep(part, next, atom) ==
  /\ next \in LeadParts
  /\ ~next.over => ~part.over
  /\ \/ /\ next.cells = part.cells
        /\ ~next.over => atom.op \in {"save", "aligned", "nop"}
     \/ /\ ~part.over /\ atom.op = "byte"
        /\ next.cells = Append(part.cells, Cell(atom.byte, Bits))

(* One step of the prefix follows one atom.                                  *)
LEMMA LengthenedStep ==
  ASSUME NEW part \in LeadParts, NEW atom \in Atoms
  PROVE  LeadStep(part, Lengthened(part, atom), atom)
<1>0. part.over \in BOOLEAN /\ part.cells \in Cells
  BY LeadFields
<1>1. CASE ~part.over /\ atom.op = "byte" /\ Len(part.cells) < PrefixBytes
  <2>1. PICK c \in [value : Bytes, mask : Bytes] : c = Cell(atom.byte, Bits)
    BY <1>1, AtomFields, BytesBits, CellMade
  <2>2. PICK longer \in Cells : longer = Append(part.cells, c)
    BY <1>0, CellAppended
  <2>3. PICK next \in LeadParts : next = LeadByte(part, longer) /\ next.cells = longer /\ (next.over <=> part.over)
    BY LeadByteFields
  <2>4. ~(atom.op \in {"save", "aligned", "nop"})
    BY <1>1
  <2>5. Lengthened(part, atom) = next
    BY <1>1, <2>1, <2>2, <2>3, <2>4, Zenon DEF Lengthened, LeadByte
  <2> QED
    BY <1>1, <2>1, <2>2, <2>3, <2>5, Zenon DEF LeadStep
<1>2. CASE part.over \/ atom.op \in {"save", "aligned", "nop"}
  <2>1. ~(~part.over /\ atom.op = "byte" /\ Len(part.cells) < PrefixBytes)
    BY <1>2
  <2>2. Lengthened(part, atom) = part
    BY <1>2, <2>1, Zenon DEF Lengthened
  <2> QED
    BY <1>2, <2>2, Zenon DEF LeadStep
<1>3. CASE ~(~part.over /\ atom.op = "byte" /\ Len(part.cells) < PrefixBytes) /\ ~(part.over \/ atom.op \in {"save", "aligned", "nop"})
  <2>1. PICK next \in LeadParts : next = LeadOver(part) /\ next.cells = part.cells /\ next.over
    BY LeadOverFields
  <2>2. Lengthened(part, atom) = next
    BY <1>3, <2>1, Zenon DEF Lengthened, LeadOver
  <2> QED
    BY <2>1, <2>2, Zenon DEF LeadStep
<1> QED
  BY <1>1, <1>2, <1>3, Zenon

(* The prefix as the fold over the atoms that Leaders is.                    *)
LEMMA LeadersIs ==
  ASSUME NEW program \in Seq(Atoms)
  PROVE  /\ \A n \in 0 .. Len(program) : Leaders(program)[n] \in LeadParts
         /\ Leaders(program)[0] = [over |-> FALSE, cells |-> <<>>]
         /\ \A n \in 1 .. Len(program) : Leaders(program)[n] = Lengthened(Leaders(program)[n - 1], program[n])
<1>0. PICK N \in Nat : N = Len(program) /\ \A n \in 1 .. N : program[n] \in Atoms
  BY SequenceFields
<1> DEFINE Start == [over |-> FALSE, cells |-> <<>>]
           G == [n \in 1 .. N |-> [v \in LeadParts |-> Lengthened(v, program[n])]]
<1>1. Start \in LeadParts
  <2>1. PICK c \in Cells : c = <<>>
    <3>1. <<>> \in Cells
      BY DEF Cells
    <3> QED
      BY <3>1
  <2>2. [over |-> FALSE, cells |-> c] \in LeadParts
    BY DEF LeadParts
  <2> QED
    BY <2>1, <2>2, Zenon
<1>2. G \in [1 .. N -> [LeadParts -> LeadParts]]
  <2>1. \A n \in 1 .. N, v \in LeadParts : Lengthened(v, program[n]) \in LeadParts
    BY <1>0, LengthenedStep DEF LeadStep
  <2> QED
    BY <2>1
<1>3. \A n \in 1 .. N, v \in LeadParts : G[n][v] = Lengthened(v, program[n])
  OBVIOUS
<1> HIDE DEF G, Start
<1>4. PICK f : Recursive(f, N, Start, G) /\ \A n \in 1 .. N : f[n - 1] \in LeadParts
  BY <1>1, <1>2, Recursively, Zenon
<1>5. ASSUME NEW n \in 0 .. N, n # 0 PROVE G[n][f[n - 1]] = Lengthened(f[n - 1], program[n])
  <2>1. n \in 1 .. N
    BY <1>5
  <2> QED
    BY <2>1, <1>3, <1>4, Zenon
<1>6. \A n \in 0 .. N : (IF n = 0 THEN Start ELSE G[n][f[n - 1]]) = IF n = 0 THEN Start ELSE Lengthened(f[n - 1], program[n])
  BY <1>5, Zenon
<1> DEFINE P(t) == t = [n \in 0 .. N |-> IF n = 0 THEN Start ELSE Lengthened(t[n - 1], program[n])]
<1>7. P(f)
  BY <1>4, <1>6, Zenon DEF Recursive
<1>8. Leaders(program) = (CHOOSE t : P(t))
  BY <1>0, Zenon DEF Leaders, Start
<1>9. \A t : P(t) => \A n \in 0 .. N : t[n] = IF n = 0 THEN Start ELSE Lengthened(t[n - 1], program[n])
  BY Zenon
<1> HIDE DEF P
<1>10. P(CHOOSE t : P(t))
  BY <1>7, Zenon
<1>11. PICK part : /\ part = Leaders(program)
                   /\ \A n \in 0 .. N : part[n] = IF n = 0 THEN Start ELSE Lengthened(part[n - 1], program[n])
  BY <1>8, <1>9, <1>10, Zenon
<1>12. part[0] = Start
  <2>1. 0 \in 0 .. N
    OBVIOUS
  <2> QED
    BY <1>11, <2>1, Zenon
<1>13. \A n \in 1 .. N : part[n] = Lengthened(part[n - 1], program[n])
  <2>1. \A n \in 1 .. N : n \in 0 .. N /\ n # 0
    OBVIOUS
  <2> QED
    BY <1>11, <2>1, Zenon
<1> DEFINE T == {n \in 0 .. N : part[n] \in LeadParts}
<1>14. 0 \in T
  BY <1>1, <1>12
<1>15. ASSUME NEW n \in 1 .. N, n - 1 \in T PROVE n \in T
  <2>1. part[n - 1] \in LeadParts /\ program[n] \in Atoms /\ n \in 0 .. N
    BY <1>0, <1>15
  <2>2. Lengthened(part[n - 1], program[n]) \in LeadParts
    BY <2>1, LengthenedStep DEF LeadStep
  <2>3. part[n] = Lengthened(part[n - 1], program[n])
    BY <1>13
  <2> QED
    BY <2>1, <2>2, <2>3
<1> HIDE DEF T
<1>16. \A n \in 0 .. N : n \in T
  BY <1>14, <1>15, IntervalInduction
<1>17. \A n \in 0 .. N : part[n] \in LeadParts
  BY <1>16 DEF T
<1> QED
  BY <1>0, <1>11, <1>12, <1>13, <1>17, Zenon DEF Start

(* The exact prefix is the cells of a head.                                  *)
LEMMA PrefixHead ==
  ASSUME NEW program \in Seq(Atoms)
  PROVE  /\ Prefix(program) \in Cells /\ Proper(Prefix(program))
         /\ \E n \in 0 .. Len(program) : Heads(program, n, Prefix(program), Len(Prefix(program)), Bits)
<1>0. PICK N \in Nat : N = Len(program) /\ \A n \in 1 .. N : program[n] \in Atoms
  BY SequenceFields
<1>1. PICK part : /\ part = Leaders(program)
                  /\ \A n \in 0 .. N : part[n] \in LeadParts
                  /\ part[0] = [over |-> FALSE, cells |-> <<>>]
                  /\ \A n \in 1 .. N : part[n] = Lengthened(part[n - 1], program[n])
  BY <1>0, LeadersIs
<1>2. Prefix(program) = part[N].cells
  BY <1>0, <1>1, Zenon DEF Prefix
<1> DEFINE Led(n, m) == Heads(program, m, part[n].cells, Len(part[n].cells), Bits)
           T == {n \in 0 .. N : Proper(part[n].cells) /\ \E m \in 0 .. n : Led(n, m) /\ (~part[n].over => m = n)}
<1>3. 0 \in T
  <2>1. part[0].cells = <<>> /\ part[0].cells \in Cells /\ 0 \in 0 .. 0
    BY <1>1, LeadFields
  <2>2. Proper(part[0].cells) /\ Len(part[0].cells) = 0
    BY <2>1 DEF Proper
  <2>3. Heads(program, 0, part[0].cells, 0, Bits)
    <3>1. PICK f : HeadAlong(program, 0, f, part[0].cells)
      BY <2>1, HeadEmpty
    <3> QED
      BY <3>1 DEF Heads, HeadAlong
  <2> QED
    BY <2>1, <2>2, <2>3
<1>4. ASSUME NEW n \in 1 .. N, n - 1 \in T PROVE n \in T
  <2>1. PICK before \in LeadParts, after \in LeadParts :
          before = part[n - 1] /\ after = part[n] /\ LeadStep(before, after, program[n])
    <3>1. n - 1 \in 0 .. N /\ n \in 0 .. N /\ program[n] \in Atoms
      BY <1>0
    <3>2. LeadStep(part[n - 1], part[n], program[n])
      BY <1>1, <3>1, LengthenedStep
    <3> QED
      BY <1>1, <3>1, <3>2, Zenon
  <2>2. before.cells \in Cells /\ after.cells \in Cells /\ before.over \in BOOLEAN /\ after.over \in BOOLEAN
    BY LeadFields
  <2>3. PICK m \in 0 .. n - 1 : Heads(program, m, before.cells, Len(before.cells), Bits) /\ (~before.over => m = n - 1)
    BY <1>4, <2>1
  <2>4. Proper(before.cells)
    BY <1>4, <2>1
  <2> DEFINE Goal == Proper(after.cells) /\ \E k \in 0 .. n : /\ Heads(program, k, after.cells, Len(after.cells), Bits)
                                                            /\ ~after.over => k = n
  <2>5. CASE after.over /\ after.cells = before.cells
    <3>1. m \in 0 .. n
      OBVIOUS
    <3> QED
      BY <2>1, <2>3, <2>4, <2>5, <3>1
  <2>6. ASSUME m = n - 1, NEW q \in Spots, q.at = Len(after.cells), q.mask = Bits, Prolongs(before.cells, after.cells),
               \A p \in Spots : p.at = Len(before.cells) /\ p.mask = Bits => HeadAtom(program[n], p, q, after.cells)
        PROVE  Heads(program, n, after.cells, Len(after.cells), Bits)
    <3>1. PICK f : HeadAlong(program, n - 1, f, before.cells) /\ f[n - 1].at = Len(before.cells) /\ f[n - 1].mask = Bits
      BY <2>3, <2>6 DEF Heads
    <3>2. f[n - 1] \in Spots
      <4>1. n - 1 \in 0 .. n - 1
        OBVIOUS
      <4> QED
        BY <3>1, <4>1 DEF HeadAlong
    <3>3. HeadAtom(program[n], f[n - 1], q, after.cells)
      BY <2>6, <3>1, <3>2
    <3>4. n \in Nat /\ n # 0 /\ q.at <= Len(after.cells)
      BY <2>2, <2>6, CellFields
    <3>5. PICK g : HeadAlong(program, n, g, after.cells) /\ g[n] = q
      BY <2>2, <2>6, <3>1, <3>3, <3>4, HeadExtended
    <3> QED
      BY <2>6, <3>5, Zenon DEF Heads
  <2>7. ASSUME NEW k \in Nat PROVE \E q \in Spots : q.at = k /\ q.mask = Bits
    <3>1. PICK b \in Bytes : b = Bits
      BY BytesBits
    <3>2. [at |-> k, mask |-> b] \in Spots /\ [at |-> k, mask |-> b].at = k /\ [at |-> k, mask |-> b].mask = b
      BY DEF Spots
    <3> QED
      BY <3>1, <3>2, Zenon
  <2>8. PICK q \in Spots : q.at = Len(after.cells) /\ q.mask = Bits
    BY <2>2, <2>7, CellFields
  <2>9. CASE ~after.over /\ after.cells = before.cells /\ program[n].op \in {"save", "aligned", "nop"}
    <3>1. m = n - 1 /\ n \in 0 .. n
      BY <2>1, <2>2, <2>3, <2>9 DEF LeadStep
    <3>2. Prolongs(before.cells, after.cells)
      BY <2>2, <2>9, ProlongsSelf
    <3>3. \A p \in Spots : p.at = Len(before.cells) /\ p.mask = Bits => HeadAtom(program[n], p, q, after.cells)
      BY <2>8, <2>9, Zenon DEF HeadAtom
    <3>4. Heads(program, n, after.cells, Len(after.cells), Bits)
      BY <2>6, <2>8, <3>1, <3>2, <3>3
    <3> QED
      BY <2>1, <2>4, <2>9, <3>1, <3>4
  <2>10. CASE ~before.over /\ program[n].op = "byte" /\ after.cells = Append(before.cells, Cell(program[n].byte, Bits))
    <3>0. PICK c \in [value : Bytes, mask : Bytes] : c = Cell(program[n].byte, Bits) /\ c.value \subseteq c.mask
      BY <1>0, <2>10, AtomFields, BytesBits, CellMade
    <3>1. m = n - 1 /\ n \in 0 .. n
      BY <2>3, <2>10
    <3>2. /\ Len(after.cells) = Len(before.cells) + 1 /\ after.cells[Len(before.cells) + 1] = c
          /\ Prolongs(before.cells, after.cells) /\ Len(before.cells) \in Nat
      BY <2>2, <2>10, <3>0, CellAppended, CellFields
    <3>3. \A p \in Spots : p.at = Len(before.cells) /\ p.mask = Bits => HeadAtom(program[n], p, q, after.cells)
      BY <2>8, <2>10, <3>0, <3>2, Zenon DEF HeadAtom
    <3>4. Heads(program, n, after.cells, Len(after.cells), Bits)
      BY <2>6, <2>8, <3>1, <3>2, <3>3
    <3>5. Proper(after.cells)
      <4>1. \A i \in Len(before.cells) + 1 .. Len(after.cells) : after.cells[i].value \subseteq after.cells[i].mask
        BY <3>0, <3>2
      <4> QED
        BY <2>2, <2>4, <3>2, <4>1, ProperAppended
    <3> QED
      BY <2>1, <3>1, <3>4, <3>5
  <2> QED
    BY <2>1, <2>2, <2>5, <2>9, <2>10 DEF LeadStep
<1> HIDE DEF T
<1>5. \A n \in 0 .. N : n \in T
  BY <1>3, <1>4, IntervalInduction
<1>6. N \in T /\ N \in 0 .. N
  BY <1>5
<1>7. part[N].cells \in Cells
  BY <1>1, <1>6, LeadFields
<1> QED
  BY <1>0, <1>2, <1>6, <1>7 DEF T

-----------------------------------------------------------------------------
(* What a scanner searches for before it executes anything.                  *)
MadeScanner ==
  \E program \in Programs, base \in Bases :
    \E cells \in Projections(program) : scanner = Scanner(program, base, cells)

Sought == IF scanner.cells # <<>> THEN scanner.cells ELSE Prefix(scanner.program)

Suits(s) == s + Len(Sought) <= Len(image) /\ Matches(Sought, image, s)

(* What the constructors guarantee of a scanner and its image.               *)
LEMMA ScanIs ==
  ASSUME MadeScanner, image \in Images
  PROVE  /\ scan \in Scans /\ scan.program = scanner.program /\ scan.image = image /\ scan.base = scanner.base
         /\ scanner.program \in Seq(Atoms) /\ scanner.program # <<>> /\ Len(scanner.program) \in Nat
         /\ scanner.base \in Bases /\ scanner.base \in Addresses
         /\ image \in Seq(Bytes) /\ Len(image) \in Nat
         /\ scanner.cells \in Projections(scanner.program)
         /\ scanner.cells # <<>> => scanner.plan = Plan(scanner.cells)
<1>1. PICK program \in Programs, base \in Bases :
        \E cells \in Projections(program) : scanner = Scanner(program, base, cells)
      BY DEF MadeScanner
<1>2. PICK cells \in Projections(program) : scanner = Scanner(program, base, cells)
      BY <1>1
<1>3. /\ scanner.program = program /\ scanner.base = base /\ scanner.cells = cells
      /\ cells # <<>> => scanner.plan = Plan(cells)
      BY <1>2 DEF Scanner
<1>4. /\ program \in Seq(Atoms) /\ program # <<>> /\ base \in Addresses /\ image \in Seq(Bytes)
      BY ProgramsAssumption, BasesAssumption, ImagesAssumption
<1>5. Len(program) \in Nat /\ Len(image) \in Nat
      BY <1>4, SequenceFields
<1>6. scan \in Scans /\ scan.program = scanner.program /\ scan.image = image /\ scan.base = scanner.base
      BY <1>3, <1>4 DEF scan, Scans
<1> QED BY <1>3, <1>4, <1>5, <1>6

(* What a scanner searches for is the cells of a head of its program.        *)
LEMMA SoughtIs ==
  ASSUME MadeScanner, image \in Images
  PROVE  /\ Sought \in Cells /\ Proper(Sought) /\ Len(Sought) \in Nat
         /\ \E n \in 0 .. Len(scanner.program) : \E mask : Heads(scanner.program, n, Sought, Len(Sought), mask)
         /\ scanner.cells # <<>> =>
              /\ Sought = scanner.cells /\ Plainly(scanner.program, Len(scanner.program))
              /\ \E mask : Heads(scanner.program, Len(scanner.program), Sought, Len(Sought), mask)
<1> DEFINE program == scanner.program
<1>1. /\ program \in Seq(Atoms) /\ Len(program) \in Nat /\ scanner.cells \in Projections(program)
      BY ScanIs
<1>2. CASE scanner.cells = <<>>
  <2>1. Sought = Prefix(program)
        BY <1>2 DEF Sought
  <2>2. /\ Prefix(program) \in Cells /\ Proper(Prefix(program))
        /\ \E n \in 0 .. Len(program) : Heads(program, n, Prefix(program), Len(Prefix(program)), Bits)
        BY <1>1, PrefixHead
  <2>3. \E n \in 0 .. Len(program) : \E mask : Heads(program, n, Sought, Len(Sought), mask)
        BY <2>1, <2>2, Zenon
  <2>4. Len(Sought) \in Nat
        BY <2>1, <2>2, CellFields
  <2> QED BY <2>1, <2>2, <2>3, <2>4, <1>2
<1>3. CASE scanner.cells # <<>>
  <2>1. Sought = scanner.cells
        BY <1>3 DEF Sought
  <2>2. Len(program) \in 0 .. Len(program)
        BY <1>1
  <2>3. scanner.cells = Compile(program)
        \/ (scanner.cells \in Cells /\ ValidFor(program, scanner.cells))
        BY <1>1, <1>3, StaticPartsAssumption DEF Projections
  <2>4. /\ Sought \in Cells /\ Proper(Sought) /\ Plainly(program, Len(program))
        /\ \E mask : Heads(program, Len(program), Sought, Len(Sought), mask)
    <3>1. CASE scanner.cells = Compile(program)
          BY <3>1, <1>1, <1>3, <2>1, CompileHead
    <3>2. CASE scanner.cells \in Cells /\ ValidFor(program, scanner.cells)
          BY <3>2, <1>1, <1>3, <2>1, FittedHead
    <3> QED BY <2>3, <3>1, <3>2
  <2>5. \E n \in 0 .. Len(program) : \E mask : Heads(program, n, Sought, Len(Sought), mask)
        BY <2>2, <2>4, Zenon
  <2>6. Len(Sought) \in Nat
        BY <2>4, CellFields
  <2> QED BY <2>1, <2>4, <2>5, <2>6
<1> QED BY <1>2, <1>3

(* The first member is the first that suits.                                 *)
LEMMA FirstSuiting ==
  ASSUME image \in Images, MadeScanner, NEW end \in Nat, NEW next \in 0 .. end - 1, end <= Len(image), NEW c,
         IsFirst(c, Suiting(Sought, image, next, Min({Len(image) - Len(Sought), end - 1})))
  PROVE  \/ c = Missing /\ \A s \in next .. end - 1 : ~Suits(s)
         \/ c \in next .. end - 1 /\ Suits(c) /\ \A s \in next .. c - 1 : ~Suits(s)
<1>1. Len(image) \in Nat /\ Len(Sought) \in Nat
      BY ScanIs, SoughtIs
<1> DEFINE last == Min({Len(image) - Len(Sought), end - 1})
<1>2. /\ Len(image) - Len(Sought) \in Int /\ end - 1 \in Int
      BY <1>1
<1>3. last = IF Len(image) - Len(Sought) <= end - 1 THEN Len(image) - Len(Sought) ELSE end - 1
      BY <1>2, MinOfTwo
<1> HIDE DEF last
<1>4. last \in Int /\ \A s \in Int : s <= last <=> (s + Len(Sought) <= Len(image) /\ s <= end - 1)
      BY <1>1, <1>3
<1> DEFINE T == Suiting(Sought, image, next, last)
<1>5. \A s : s \in T <=> (s \in next .. end - 1 /\ Suits(s))
  <2>1. \A s : s \in next .. last <=> (s \in next .. end - 1 /\ s + Len(Sought) <= Len(image))
    <3> SUFFICES ASSUME NEW s
                 PROVE  s \in next .. last <=> (s \in next .. end - 1 /\ s + Len(Sought) <= Len(image))
        OBVIOUS
    <3>1. next \in Int /\ end - 1 \in Int
          OBVIOUS
    <3>2. s \in next .. last => s \in Int /\ next <= s /\ s <= last
          BY <1>4, <3>1
    <3>3. s \in next .. end - 1 => s \in Int /\ next <= s /\ s <= end - 1
          BY <3>1
    <3>4. CASE s \in Int
      <4>1. s <= last <=> (s + Len(Sought) <= Len(image) /\ s <= end - 1)
            BY <1>4, <3>4
      <4> QED BY <4>1, <3>1, <1>4, <3>4
    <3> QED BY <3>2, <3>3, <3>4
  <2> QED BY <2>1 DEF Suiting, Suits
<1>6. IsFirst(c, T)
      BY DEF last
<1> HIDE DEF T
<1>7. CASE c = Missing /\ T = {}
  <2>1. \A s : ~(s \in T)
        BY <1>7, Zenon
  <2> QED BY <1>5, <1>7, <2>1, Zenon
<1>8. CASE c \in T /\ \A t \in T : c <= t
  <2>1. c \in next .. end - 1 /\ Suits(c)
        BY <1>5, <1>8
  <2>2. \A s \in next .. c - 1 : s \in next .. end - 1 /\ ~(c <= s)
        BY <2>1
  <2>3. \A s \in next .. c - 1 : ~Suits(s)
        BY <1>5, <1>8, <2>2, Zenon
  <2> QED BY <2>1, <2>3, Zenon
<1> QED BY <1>6, <1>7, <1>8 DEF IsFirst

(* The candidate is the first start in the range that suits.                 *)
LEMMA CandidateIs ==
  ASSUME MadeScanner, image \in Images, NEW end \in Nat, NEW next \in 0 .. end - 1, end <= Len(image)
  PROVE  LET c == Candidate(next, end) IN
         \/ c = Missing /\ \A s \in next .. end - 1 : ~Suits(s)
         \/ c \in next .. end - 1 /\ Suits(c) /\ \A s \in next .. c - 1 : ~Suits(s)
<1>1. /\ Len(image) \in Nat /\ Sought \in Cells /\ Proper(Sought) /\ Len(Sought) \in Nat /\ next \in Nat
      BY ScanIs, SoughtIs
<1> DEFINE T == Suiting(Sought, image, next, Min({Len(image) - Len(Sought), end - 1}))
<1>2. CASE scanner.cells # <<>>
  <2>1. /\ Sought = scanner.cells /\ scanner.plan = Plan(scanner.cells)
        BY <1>2, ScanIs, SoughtIs
  <2>2. IsFirst(FixedFind(Sought, Plan(Sought), image, next, end), T)
        BY <1>1, <1>2, <2>1, FixedFindFirst
  <2>3. Candidate(next, end) = FixedFind(Sought, Plan(Sought), image, next, end)
        BY <1>2, <2>1 DEF Candidate
  <2>4. IsFirst(Candidate(next, end), T)
        BY <2>2, <2>3, Zenon
  <2> QED BY <2>4, FirstSuiting
<1>3. CASE scanner.cells = <<>> /\ Sought # <<>>
  <2>1. Sought = Prefix(scanner.program)
        BY <1>3 DEF Sought
  <2> DEFINE to == PrefixEnd(Sought, end)
  <2>2. Candidate(next, end) = MemFind(Sought, image, next, to)
        BY <1>3, <2>1 DEF Candidate, Filtered
  <2>3. to \in Int /\ to - Len(Sought) = Min({Len(image) - Len(Sought), end - 1})
    <3>1. /\ end + Len(Sought) - 1 \in Int /\ Len(image) \in Int
          /\ Len(image) - Len(Sought) \in Int /\ end - 1 \in Int
          BY <1>1
    <3>2. to = IF end + Len(Sought) - 1 <= Len(image) THEN end + Len(Sought) - 1 ELSE Len(image)
          BY <3>1, MinOfTwo DEF PrefixEnd
    <3>3. Min({Len(image) - Len(Sought), end - 1})
            = IF Len(image) - Len(Sought) <= end - 1 THEN Len(image) - Len(Sought) ELSE end - 1
          BY <3>1, MinOfTwo
    <3> QED BY <1>1, <3>2, <3>3
  <2> HIDE DEF to
  <2>4. IsFirst(MemFind(Sought, image, next, to), Suiting(Sought, image, next, to - Len(Sought)))
        BY <1>1, <2>3, MemFindFirst
  <2>5. IsFirst(Candidate(next, end), T)
        BY <2>2, <2>3, <2>4, Zenon
  <2> QED BY <2>5, FirstSuiting
<1>4. CASE scanner.cells = <<>> /\ Sought = <<>>
  <2>1. Candidate(next, end) = next
        BY <1>4 DEF Candidate, Filtered, Sought
  <2>2. Len(Sought) = 0 /\ DOMAIN Sought = {}
        BY <1>4
  <2>3. Suits(next)
        BY <1>1, <2>2 DEF Suits, Matches, Agree
  <2>4. next \in next .. end - 1 /\ next .. next - 1 = {}
        BY <1>1
  <2> QED BY <2>1, <2>3, <2>4
<1> QED BY <1>2, <1>3, <1>4

(* So what a search is given are discoveries.                                *)
LEMMA CandidatesDiscover ==
  ASSUME MadeScanner, image \in Images, NEW end \in Nat, end <= Len(image)
  PROVE  [from \in 0 .. end - 1 |-> Candidate(from, end)] \in Discoveries(end)
<1>1. \A next \in 0 .. end - 1 :
        /\ Candidate(next, end) \in Int
        /\ Candidate(next, end) = Missing \/ (next <= Candidate(next, end) /\ Candidate(next, end) < end)
  <2> SUFFICES ASSUME NEW next \in 0 .. end - 1
               PROVE  /\ Candidate(next, end) \in Int
                      /\ Candidate(next, end) = Missing
                           \/ (next <= Candidate(next, end) /\ Candidate(next, end) < end)
      OBVIOUS
  <2>1. \/ Candidate(next, end) = Missing
        \/ Candidate(next, end) \in next .. end - 1
        BY CandidateIs
  <2> QED BY <2>1 DEF Missing
<1> QED BY <1>1 DEF Discoveries

(* So are the starts of a direct search.                                     *)
LEMMA DirectDiscover ==
  ASSUME NEW end \in Nat
  PROVE  [from \in 0 .. end - 1 |-> from] \in Discoveries(end)
BY DEF Discoveries

-----------------------------------------------------------------------------
(* What a head does to a branch at the image.                                *)

(* The cells that an atom passes agree with the image behind a start.        *)
Passed(img, start, cells, from, to) ==
  \A i \in from + 1 .. to : img[start + i] \cap cells[i].mask = cells[i].value

(* A branch that has passed the cells of a spot.                             *)
At(x, img, start, p) == x.cursor = start + p.at /\ x.mask = p.mask /\ x.cursor <= Len(img)

(* The atoms of a head neither branch nor jump.                              *)
LEMMA HeadOps ==
  ASSUME NEW atom, NEW p, NEW q, NEW cells, HeadAtom(atom, p, q, cells)
  PROVE  atom.op \in {"save", "aligned", "nop", "fuzzy", "byte", "skip"}
BY DEF HeadAtom

(* What save, aligned, byte and skip make of a branch that has passed a      *)
(* spot.                                                                     *)
LEMMA SaveApplied ==
  ASSUME NEW sc \in Scans, NEW x \in Branches, NEW atom \in Atoms, atom.op \in {"save", "aligned"}
  PROVE  /\ Apply(sc, x, atom).ok => Apply(sc, x, atom).cursor = x.cursor /\ Apply(sc, x, atom).mask = x.mask
         /\ atom.op = "save" /\ x.ok /\ Addressed(sc.base + x.cursor) => Apply(sc, x, atom).ok
<1> DEFINE here == sc.base + x.cursor
<1>1. Apply(sc, x, atom) = Capture(sc, x, atom)
      BY DEF Apply
<1>2. Fail(x).ok = FALSE
      BY FailFields
<1>3. CASE atom.op = "save"
  <2>1. Capture(sc, x, atom) = IF Addressed(here) THEN Write(x, atom.slot, here) ELSE Fail(x)
        BY <1>3 DEF Capture
  <2>2. atom.slot \in Nat
        BY <1>3, AtomFields
  <2>3. CASE Addressed(here)
    <3>1. /\ Write(x, atom.slot, here).ok = x.ok /\ Write(x, atom.slot, here).cursor = x.cursor
          /\ Write(x, atom.slot, here).mask = x.mask
          BY <2>2, <2>3, WriteFields DEF Addressed
    <3> QED BY <1>1, <2>1, <2>3, <3>1
  <2> QED BY <1>1, <1>2, <2>1, <2>3
<1>4. CASE atom.op = "aligned"
  <2>1. Capture(sc, x, atom) = x \/ Capture(sc, x, atom) = Fail(x)
        BY <1>4 DEF Capture
  <2> QED BY <1>1, <1>2, <1>4, <2>1
<1> QED BY <1>3, <1>4

LEMMA ByteApplied ==
  ASSUME NEW sc \in Scans, NEW x \in Branches, NEW atom \in Atoms, atom.op = "byte",
         NEW start \in Nat, NEW p \in Spots, NEW q \in Spots, NEW cells \in Cells, HeadAtom(atom, p, q, cells),
         At(x, sc.image, start, p)
  PROVE  LET y == Apply(sc, x, atom) IN
         /\ y.ok => At(y, sc.image, start, q) /\ Passed(sc.image, start, cells, p.at, q.at)
         /\ x.ok /\ q.at <= Len(cells) /\ start + Len(cells) <= Len(sc.image) /\ Passed(sc.image, start, cells, 0, Len(cells))
              => y.ok
<1> DEFINE y == MatchByte(sc, x, atom.byte)
<1> DEFINE c == x.cursor
<1>1. Apply(sc, x, atom) = y
      BY DEF Apply
<1>2. /\ p.at \in Nat /\ p.mask \in Bytes /\ q.at = p.at + 1 /\ q.mask = Bits
      /\ cells[q.at] = Cell(atom.byte, p.mask)
      BY SpotFields DEF HeadAtom
<1>3. /\ cells[q.at].value = atom.byte \cap p.mask /\ cells[q.at].mask = p.mask
      BY <1>2 DEF Cell
<1>4. /\ x.cursor = start + p.at /\ x.mask = p.mask /\ x.cursor \in Nat /\ Len(sc.image) \in Nat
      BY <1>2, ScanFields DEF At
<1> DEFINE agrees == sc.image[c + 1] \cap x.mask = atom.byte \cap x.mask
<1>5. /\ Readable(sc.image, c, 1) /\ agrees => y.ok = x.ok /\ y.mask = Bits /\ y.cursor = c + 1
      /\ ~(Readable(sc.image, c, 1) /\ agrees) => y = Fail(x)
      BY MatchByteFields
<1>6. c + 1 = start + q.at
      BY <1>2, <1>4
<1>7. agrees <=> sc.image[start + q.at] \cap cells[q.at].mask = cells[q.at].value
      BY <1>3, <1>4, <1>6
<1>8. Fail(x).ok = FALSE
      BY FailFields
<1> HIDE DEF y
<1>9. ASSUME y.ok
      PROVE  At(y, sc.image, start, q) /\ Passed(sc.image, start, cells, p.at, q.at)
  <2>1. Readable(sc.image, c, 1) /\ agrees
        BY <1>5, <1>8, <1>9
  <2>2. y.mask = Bits /\ y.cursor = c + 1
        BY <1>5, <2>1
  <2>3. At(y, sc.image, start, q)
        BY <1>2, <1>6, <2>1, <2>2 DEF At, Readable
  <2>4. \A i \in p.at + 1 .. q.at : i = q.at
        BY <1>2
  <2>5. sc.image[start + q.at] \cap cells[q.at].mask = cells[q.at].value
        BY <1>7, <2>1
  <2>6. Passed(sc.image, start, cells, p.at, q.at)
        BY <2>4, <2>5, Zenon DEF Passed
  <2> QED BY <2>3, <2>6
<1>10. ASSUME x.ok, q.at <= Len(cells), start + Len(cells) <= Len(sc.image), Passed(sc.image, start, cells, 0, Len(cells))
       PROVE  y.ok
  <2>1. Len(cells) \in Nat
        BY CellFields
  <2>2. q.at \in 0 + 1 .. Len(cells)
        BY <1>2, <1>10, <2>1
  <2>3. agrees
        BY <1>7, <1>10, <2>2 DEF Passed
  <2>4. Readable(sc.image, c, 1)
        BY <1>4, <1>6, <1>10, <1>2, <2>1 DEF Readable
  <2> QED BY <1>5, <1>10, <2>3, <2>4
<1> QED BY <1>1, <1>9, <1>10

LEMMA SkipApplied ==
  ASSUME NEW sc \in Scans, NEW x \in Branches, NEW atom \in Atoms, atom.op = "skip",
         NEW start \in Nat, NEW p \in Spots, NEW q \in Spots, NEW cells \in Cells, HeadAtom(atom, p, q, cells),
         At(x, sc.image, start, p)
  PROVE  LET y == Apply(sc, x, atom) IN
         /\ y.ok => At(y, sc.image, start, q) /\ Passed(sc.image, start, cells, p.at, q.at)
         /\ x.ok /\ q.at <= Len(cells) /\ start + Len(cells) <= Len(sc.image) => y.ok
<1> DEFINE c == x.cursor + atom.by
<1> DEFINE y == MoveTo(sc, x, c)
<1>1. /\ atom.by # 0 /\ q.at = p.at + atom.by /\ q.mask = p.mask
      /\ \A i \in p.at + 1 .. q.at : cells[i] = Ignored
      BY DEF HeadAtom
<1>2. Apply(sc, x, atom) = y
      BY <1>1 DEF Apply, Move, Movement
<1>3. /\ p.at \in Nat /\ p.mask \in Bytes /\ atom.by \in Nat
      /\ x.cursor = start + p.at /\ x.mask = p.mask /\ Len(sc.image) \in Nat
      BY SpotFields, SkipNat, ScanFields DEF At
<1>4. c = start + q.at /\ c \in Nat
      BY <1>1, <1>3
<1>5. Fail(x).ok = FALSE
      BY FailFields
<1>6. c \in 0 .. Len(sc.image) => y.ok = x.ok /\ y.cursor = c /\ y.mask = x.mask
      BY DEF MoveTo, Branches
<1>7. ~(c \in 0 .. Len(sc.image)) => y = Fail(x)
      BY DEF MoveTo
<1>8. c \in 0 .. Len(sc.image) <=> c <= Len(sc.image)
      BY <1>3, <1>4
<1> HIDE DEF y, c
<1>9. ASSUME y.ok
      PROVE  At(y, sc.image, start, q) /\ Passed(sc.image, start, cells, p.at, q.at)
  <2>1. c <= Len(sc.image) /\ y.cursor = c /\ y.mask = x.mask
        BY <1>5, <1>6, <1>7, <1>8, <1>9
  <2>2. At(y, sc.image, start, q)
        BY <1>1, <1>3, <1>4, <2>1 DEF At
  <2>3. Ignored.value = {} /\ Ignored.mask = {}
        BY IgnoredMade
  <2>4. Passed(sc.image, start, cells, p.at, q.at)
        BY <1>1, <2>3 DEF Passed
  <2> QED BY <2>2, <2>4
<1>10. ASSUME x.ok, q.at <= Len(cells), start + Len(cells) <= Len(sc.image)
       PROVE  y.ok
  <2>1. Len(cells) \in Nat /\ q.at \in Nat
        BY CellFields, SpotFields
  <2>2. c <= Len(sc.image)
        BY <1>3, <1>4, <1>10, <2>1
  <2> QED BY <1>6, <1>8, <1>10, <2>2
<1> QED BY <1>2, <1>9, <1>10

(* The cells lie in the image and agree with it.                             *)
Suited(sc, start, cells) ==
  start + Len(cells) <= Len(sc.image) /\ Passed(sc.image, start, cells, 0, Len(cells))

(* Atoms that fail only for the image.                                       *)
Plain(sc, atom, p, start) ==
  \/ atom.op \in {"nop", "fuzzy", "byte", "skip"}
  \/ atom.op = "save" /\ p.at = 0 /\ Addressed(sc.base + start)

(* One atom of a head.                                                       *)
LEMMA HeadApplied ==
  ASSUME NEW sc \in Scans, NEW x \in Branches, NEW atom \in Atoms,
         NEW start \in Nat, NEW p \in Spots, NEW q \in Spots, NEW cells \in Cells, HeadAtom(atom, p, q, cells),
         At(x, sc.image, start, p)
  PROVE  LET y == Apply(sc, x, atom) IN
         /\ y.ok => At(y, sc.image, start, q) /\ Passed(sc.image, start, cells, p.at, q.at)
         /\ x.ok /\ q.at <= Len(cells) /\ Suited(sc, start, cells) /\ Plain(sc, atom, p, start) => y.ok
<1> DEFINE y == Apply(sc, x, atom)
<1>1. /\ p.at \in Nat /\ x.cursor = start + p.at /\ x.mask = p.mask
      BY SpotFields DEF At
<1>2. CASE atom.op = "byte"
      BY <1>2, ByteApplied DEF Suited
<1>3. CASE atom.op = "skip"
      BY <1>3, SkipApplied DEF Suited
<1>4. ASSUME q.at = p.at
      PROVE  Passed(sc.image, start, cells, p.at, q.at)
  <2>1. p.at + 1 .. q.at = {}
        BY <1>1, <1>4
  <2> QED BY <2>1 DEF Passed
<1>5. CASE atom.op = "fuzzy"
  <2>1. q.at = p.at /\ q.mask = atom.mask
        BY <1>5 DEF HeadAtom
  <2>2. y = [x EXCEPT !.mask = atom.mask]
        BY <1>5 DEF Apply
  <2>3. y.ok = x.ok /\ y.cursor = x.cursor /\ y.mask = atom.mask
        BY <2>2 DEF Branches
  <2>4. At(y, sc.image, start, q)
        BY <1>1, <2>1, <2>3 DEF At
  <2> QED BY <1>4, <2>1, <2>3, <2>4
<1>6. CASE atom.op = "nop"
  <2>1. q.at = p.at /\ q.mask = p.mask
        BY <1>6 DEF HeadAtom
  <2>2. y = x
        BY <1>6 DEF Apply
  <2>3. At(y, sc.image, start, q)
        BY <2>1, <2>2 DEF At
  <2> QED BY <1>4, <2>1, <2>2, <2>3
<1>7. CASE atom.op \in {"save", "aligned"}
  <2>1. q.at = p.at /\ q.mask = p.mask
        BY <1>7 DEF HeadAtom
  <2>2. /\ y.ok => y.cursor = x.cursor /\ y.mask = x.mask
        /\ atom.op = "save" /\ x.ok /\ Addressed(sc.base + x.cursor) => y.ok
        BY <1>7, SaveApplied
  <2> HIDE DEF y
  <2>3. y.ok => At(y, sc.image, start, q)
        BY <1>1, <2>1, <2>2 DEF At
  <2>4. p.at = 0 => x.cursor = start
        BY <1>1
  <2>5. x.ok /\ atom.op = "save" /\ p.at = 0 /\ Addressed(sc.base + start) => y.ok
        BY <2>2, <2>4
  <2>6. atom.op \notin {"nop", "fuzzy", "byte", "skip"}
        BY <1>7
  <2> QED BY <1>4, <2>1, <2>2, <2>3, <2>5, <2>6 DEF y, Plain
<1> QED BY <1>2, <1>3, <1>5, <1>6, <1>7, HeadOps

-----------------------------------------------------------------------------
(* Two executions of a head side by side.                                    *)

(* The slots in which a head saves the cursor.                               *)
Marks(program, n) == {program[m].slot + 1 : m \in {k \in 1 .. n : program[k].op = "save"}}

(* The marks of a head with one more atom.                                   *)
LEMMA MarksFields ==
  ASSUME NEW program, NEW n \in Nat
  PROVE  /\ \A m \in 1 .. n : program[m].op = "save" => program[m].slot + 1 \in Marks(program, n)
         /\ Marks(program, 0) = {}
         /\ n # 0 /\ program[n].op # "save" => Marks(program, n) = Marks(program, n - 1)
         /\ n # 0 /\ program[n].op = "save" => Marks(program, n) = Marks(program, n - 1) \cup {program[n].slot + 1}
<1>1. \A m \in 1 .. n : program[m].op = "save" => program[m].slot + 1 \in Marks(program, n)
      BY DEF Marks
<1>2. Marks(program, 0) = {}
      BY DEF Marks
<1>3. n # 0 => \A k : k \in 1 .. n <=> (k \in 1 .. n - 1 \/ k = n)
      OBVIOUS
<1>4. n # 0 /\ program[n].op # "save" => Marks(program, n) = Marks(program, n - 1)
      BY <1>3 DEF Marks
<1>5. n # 0 /\ program[n].op = "save" => Marks(program, n) = Marks(program, n - 1) \cup {program[n].slot + 1}
      BY <1>3 DEF Marks
<1> QED BY <1>1, <1>2, <1>4, <1>5


(* An atom of a head makes of two branches that differ in their captures two *)
(* such branches; if it stores a capture, it stores the same in both.        *)
LEMMA PairApplied ==
  ASSUME NEW sc \in Scans, NEW x \in Branches, NEW y \in Branches, Alike(x, y), Len(x.saves) = Len(y.saves),
         NEW atom \in Atoms, atom.op \in {"save", "aligned", "nop", "fuzzy", "byte", "skip"}
  PROVE  LET X == Apply(sc, x, atom)  Y == Apply(sc, y, atom) IN
         /\ X \in Branches /\ Y \in Branches /\ Alike(X, Y) /\ X.pc = x.pc
         /\ Len(X.saves) = Len(x.saves) /\ Len(Y.saves) = Len(x.saves)
         /\ \A i \in Nat : 1 <= i /\ i <= Len(x.saves) =>
              \/ X.saves[i] = x.saves[i] /\ Y.saves[i] = y.saves[i]
              \/ atom.op = "save" /\ i = atom.slot + 1 /\ X.saves[i] = Y.saves[i]
         /\ X.ok /\ atom.op = "save" => \A i \in Nat :
              1 <= i /\ i <= Len(x.saves) /\ i = atom.slot + 1 => X.saves[i] = Y.saves[i]
<1> DEFINE X == Apply(sc, x, atom)
<1> DEFINE Y == Apply(sc, y, atom)
<1>1. atom.op \notin Branching /\ atom.op \notin Comparing
      BY DEF Branching, Comparing
<1>2. IF atom.op \in Storing THEN Stores(x, y, X, Y, atom.slot) ELSE Alters(x, y, X, Y)
      BY <1>1, ApplyEffect
<1>3. atom.op \in Storing <=> atom.op = "save"
      BY DEF Storing
<1>4. atom.op = "save" => atom.slot \in Nat
      BY AtomFields
<1> HIDE DEF X, Y
<1>5. PICK r \in Effects :
        /\ X = After(x, r) /\ Y = After(y, r)
        /\ r.stored => atom.op = "save" /\ r.slot = atom.slot
        /\ atom.op = "save" /\ r.ok => r.stored
  <2>1. CASE atom.op = "save"
    <3>1. Stores(x, y, X, Y, atom.slot)
          BY <1>2, <1>3, <2>1
    <3> QED BY <3>1, <2>1 DEF Stores
  <2>2. CASE atom.op # "save"
    <3>1. Alters(x, y, X, Y)
          BY <1>2, <1>3, <2>2
    <3> QED BY <3>1, <2>2 DEF Alters
  <2> QED BY <2>1, <2>2
<1>6. /\ X \in Branches /\ X.ok = r.ok /\ X.pc = x.pc /\ X.cursor = r.cursor /\ X.mask = r.mask
      /\ X.saves = IF r.stored THEN Write(x, r.slot, r.value).saves ELSE x.saves
      /\ Len(X.saves) = Len(x.saves)
      BY <1>5, AfterFields
<1>7. /\ Y \in Branches /\ Y.ok = r.ok /\ Y.pc = y.pc /\ Y.cursor = r.cursor /\ Y.mask = r.mask
      /\ Y.saves = IF r.stored THEN Write(y, r.slot, r.value).saves ELSE y.saves
      /\ Len(Y.saves) = Len(y.saves)
      BY <1>5, AfterFields
<1>8. Alike(X, Y)
      BY <1>6, <1>7 DEF Alike
<1>9. r.value \in Addresses /\ r.slot \in Nat
      BY EffectFields
<1>10. \A i \in Nat : 1 <= i /\ i <= Len(x.saves) =>
         /\ Write(x, r.slot, r.value).saves[i] = IF i = r.slot + 1 THEN r.value ELSE x.saves[i]
         /\ Write(y, r.slot, r.value).saves[i] = IF i = r.slot + 1 THEN r.value ELSE y.saves[i]
       BY <1>9, WriteSlots
<1>11. ASSUME NEW i \in Nat, 1 <= i, i <= Len(x.saves)
       PROVE  /\ \/ X.saves[i] = x.saves[i] /\ Y.saves[i] = y.saves[i]
                 \/ atom.op = "save" /\ i = atom.slot + 1 /\ X.saves[i] = Y.saves[i]
              /\ X.ok /\ atom.op = "save" /\ i = atom.slot + 1 => X.saves[i] = Y.saves[i]
  <2>1. CASE r.stored
    <3>1. /\ X.saves[i] = IF i = r.slot + 1 THEN r.value ELSE x.saves[i]
          /\ Y.saves[i] = IF i = r.slot + 1 THEN r.value ELSE y.saves[i]
          BY <1>6, <1>7, <1>10, <1>11, <2>1
    <3>2. atom.op = "save" /\ r.slot = atom.slot
          BY <1>5, <2>1
    <3>3. CASE i = r.slot + 1
          BY <3>1, <3>2, <3>3
    <3>4. CASE i # r.slot + 1
          BY <3>1, <3>2, <3>4
    <3> QED BY <3>3, <3>4
  <2>2. CASE ~r.stored
    <3>1. X.saves = x.saves /\ Y.saves = y.saves
          BY <1>6, <1>7, <2>2
    <3>2. X.ok /\ atom.op = "save" => FALSE
          BY <1>5, <1>6, <2>2
    <3> QED BY <3>1, <3>2
  <2> QED BY <2>1, <2>2
<1> QED BY <1>6, <1>7, <1>8, <1>11 DEF X, Y

(* Behind some atoms of a head: the branches of two executions that began    *)
(* with the captures s and r.                                                *)
Led(sc, left, start, s, x) == Exec(sc, start, s) = Continue(Run(sc)[left], x)

Smooth(sc, start, n, f) == \A k \in 1 .. n : Plain(sc, sc.program[k], f[k - 1], start)

Along(sc, start, n, f, cells, len, m, x, y) ==
  x.ok => /\ x.pc = m /\ At(x, sc.image, start, f[m])
          /\ Passed(sc.image, start, cells, 0, f[m].at)
          /\ \A i \in Nat : 1 <= i /\ i <= len /\ i \in Marks(sc.program, m) => x.saves[i] = y.saves[i]

Kept(program, n, s, x) == \A i \in Nat : 1 <= i /\ i <= Len(s) /\ i \notin Marks(program, n) => x.saves[i] = s[i]

Pair(sc, start, s, r, n, f, cells, m, x, y) ==
  /\ Alike(x, y) /\ Len(x.saves) = Len(s) /\ Len(y.saves) = Len(s)
  /\ Led(sc, Len(sc.program) - m, start, s, x) /\ Led(sc, Len(sc.program) - m, start, r, y)
  /\ Kept(sc.program, n, s, x) /\ Kept(sc.program, n, r, y)
  /\ Along(sc, start, n, f, cells, Len(s), m, x, y)
  /\ Smooth(sc, start, n, f) /\ Suited(sc, start, cells) => x.ok

(* At the first atom, two executions from one start are such a pair.         *)
LEMMA PairBegun ==
  ASSUME NEW sc \in Scans, NEW n \in 0 .. Len(sc.program), NEW f, NEW cells \in Cells, HeadAlong(sc.program, n, f, cells),
         NEW start \in Nat, start <= Len(sc.image), NEW s \in Seq(Addresses), NEW r \in Seq(Addresses), Len(s) = Len(r)
  PROVE  \E x, y \in Branches : Pair(sc, start, s, r, n, f, cells, 0, x, y)
<1> DEFINE x == Entry(start, s)
<1> DEFINE y == Entry(start, r)
<1> DEFINE N == Len(sc.program)
<1>1. N \in Nat /\ Len(sc.image) \in Nat /\ n \in Nat
      BY ScanFields
<1>2. /\ x \in Branches /\ x.ok = TRUE /\ x.pc = 0 /\ x.cursor = start /\ x.saves = s /\ x.mask = Bits
      BY EntryFields
<1>3. /\ y \in Branches /\ y.ok = TRUE /\ y.pc = 0 /\ y.cursor = start /\ y.saves = r /\ y.mask = Bits
      BY EntryFields
<1>4. /\ Exec(sc, start, s) = Run(sc)[N][x] /\ Exec(sc, start, r) = Run(sc)[N][y]
  <2>1. ~(start > Len(sc.image))
        BY <1>1
  <2> QED BY <2>1, ExecIs, Zenon
<1> HIDE DEF x, y
<1>5. N - 0 = N
      BY <1>1
<1>6. Led(sc, N - 0, start, s, x) /\ Led(sc, N - 0, start, r, y)
      BY <1>2, <1>3, <1>4, <1>5 DEF Led, Continue
<1>7. Kept(sc.program, n, s, x) /\ Kept(sc.program, n, r, y)
      BY <1>2, <1>3 DEF Kept
<1>8. f[0].at = 0 /\ f[0].mask = Bits
      BY DEF HeadAlong
<1>9. At(x, sc.image, start, f[0])
      BY <1>2, <1>8 DEF At
<1>10. Passed(sc.image, start, cells, 0, f[0].at)
       BY <1>8 DEF Passed
<1>11. Marks(sc.program, 0) = {}
       BY <1>1, MarksFields
<1>12. Along(sc, start, n, f, cells, Len(s), 0, x, y)
       BY <1>2, <1>9, <1>10, <1>11 DEF Along
<1>13. Alike(x, y)
       BY <1>2, <1>3 DEF Alike
<1>14. x.ok /\ Len(x.saves) = Len(s) /\ Len(y.saves) = Len(s)
       BY <1>2, <1>3
<1>15. Pair(sc, start, s, r, n, f, cells, 0, x, y)
       BY <1>6, <1>7, <1>12, <1>13, <1>14 DEF Pair
<1> QED BY <1>2, <1>3, <1>15, Zenon

(* An execution goes on behind an atom that does not branch, and ends        *)
(* where it fails.                                                           *)
LEMMA LedOn ==
  ASSUME NEW sc \in Scans, NEW m \in 1 .. Len(sc.program), NEW start, NEW s, NEW x \in Branches, x.ok, x.pc = m - 1,
         sc.program[m].op \notin Branching, Led(sc, Len(sc.program) - (m - 1), start, s, x)
  PROVE  Led(sc, Len(sc.program) - m, start, s, Apply(sc, Stepped(x), sc.program[m]))
<1> DEFINE N == Len(sc.program)
<1>1. N \in Nat
      BY ScanFields
<1>2. N - (m - 1) \in 1 .. N /\ N - (m - 1) - 1 = N - m /\ x.pc \in Nat /\ x.pc < N /\ x.pc + 1 = m
      BY <1>1
<1>3. Run(sc)[N - (m - 1)][x] = Turn(sc, Run(sc)[N - m], x)
      BY <1>2, RunIs
<1>4. Turn(sc, Run(sc)[N - m], x) = Continue(Run(sc)[N - m], Apply(sc, Stepped(x), sc.program[m]))
      BY <1>2, TurnApply
<1>5. Exec(sc, start, s) = Run(sc)[N - (m - 1)][x]
      BY DEF Led, Continue
<1> QED BY <1>3, <1>4, <1>5 DEF Led

LEMMA LedFailed ==
  ASSUME NEW sc, NEW start, NEW s, NEW x, ~x.ok, NEW j, NEW k, Led(sc, j, start, s, x)
  PROVE  Led(sc, k, start, s, x)
BY DEF Led, Continue

(* One more atom leads a pair on.                                            *)
LEMMA PairLed ==
  ASSUME NEW sc \in Scans, NEW n \in 0 .. Len(sc.program), NEW f, NEW cells \in Cells, HeadAlong(sc.program, n, f, cells),
         NEW start \in Nat, NEW s \in Seq(Addresses), NEW r \in Seq(Addresses), Len(s) = Len(r), NEW m \in 1 .. n,
         NEW x \in Branches, NEW y \in Branches, Pair(sc, start, s, r, n, f, cells, m - 1, x, y)
  PROVE  \E X, Y \in Branches : Pair(sc, start, s, r, n, f, cells, m, X, Y)
<1> DEFINE N == Len(sc.program)
<1> DEFINE atom == sc.program[m]
<1>1. /\ N \in Nat /\ n \in Nat /\ n <= N /\ m \in Nat /\ 1 <= m /\ m <= n /\ m \in 1 .. N /\ m \in 0 .. n /\ m - 1 \in 0 .. n
      /\ m - 1 \in Nat /\ m - 1 < N /\ m - 1 + 1 = m
      BY ScanFields
<1>2. atom \in Atoms
      BY <1>1, ProgramAtom
<1>3. /\ f[m - 1] \in Spots /\ f[m] \in Spots /\ f[m].at <= Len(cells)
      /\ HeadAtom(atom, f[m - 1], f[m], cells)
      BY <1>1 DEF HeadAlong
<1>4. atom.op \in {"save", "aligned", "nop", "fuzzy", "byte", "skip"}
      BY <1>3, HeadOps
<1>5. atom.op \notin Branching
      BY <1>4 DEF Branching
<1>6. /\ Alike(x, y) /\ Len(x.saves) = Len(s) /\ Len(y.saves) = Len(s)
      /\ Led(sc, N - (m - 1), start, s, x) /\ Led(sc, N - (m - 1), start, r, y)
      /\ Kept(sc.program, n, s, x) /\ Kept(sc.program, n, r, y)
      /\ Along(sc, start, n, f, cells, Len(s), m - 1, x, y)
      /\ Smooth(sc, start, n, f) /\ Suited(sc, start, cells) => x.ok
      BY DEF Pair
<1>7. CASE ~x.ok
  <2>1. ~y.ok
        BY <1>6, <1>7 DEF Alike
  <2>2. Led(sc, N - m, start, s, x) /\ Led(sc, N - m, start, r, y)
        BY <1>6, <1>7, <2>1, LedFailed
  <2>3. Along(sc, start, n, f, cells, Len(s), m, x, y)
        BY <1>7 DEF Along
  <2>4. Pair(sc, start, s, r, n, f, cells, m, x, y)
        BY <1>6, <2>2, <2>3 DEF Pair
  <2> QED BY <2>4, Zenon
<1>8. CASE x.ok
  <2>1. /\ x.pc = m - 1 /\ At(x, sc.image, start, f[m - 1])
        /\ Passed(sc.image, start, cells, 0, f[m - 1].at)
        /\ \A i \in Nat : 1 <= i /\ i <= Len(s) /\ i \in Marks(sc.program, m - 1) => x.saves[i] = y.saves[i]
        BY <1>6, <1>8 DEF Along
  <2>2. y.ok /\ y.pc = m - 1
        BY <1>6, <1>8, <2>1 DEF Alike
  <2> DEFINE a == Stepped(x)
  <2> DEFINE b == Stepped(y)
  <2>3. /\ a \in Branches /\ a.ok = x.ok /\ a.pc = x.pc + 1
        /\ a.cursor = x.cursor /\ a.mask = x.mask /\ a.saves = x.saves
        BY SteppedFields
  <2>4. /\ b \in Branches /\ b.ok = y.ok /\ b.pc = y.pc + 1
        /\ b.cursor = y.cursor /\ b.mask = y.mask /\ b.saves = y.saves
        BY SteppedFields
  <2> DEFINE X == Apply(sc, a, atom)
  <2> DEFINE Y == Apply(sc, b, atom)
  <2>5. Led(sc, N - m, start, s, X)
        BY <1>1, <1>5, <1>6, <1>8, <2>1, LedOn
  <2>6. Led(sc, N - m, start, r, Y)
        BY <1>1, <1>5, <1>6, <2>2, LedOn
  <2> HIDE DEF a, b
  <2>7. Alike(a, b) /\ Len(a.saves) = Len(b.saves)
        BY <1>6, <2>3, <2>4 DEF Alike
  <2>8. /\ X \in Branches /\ Y \in Branches /\ Alike(X, Y) /\ X.pc = a.pc
        /\ Len(X.saves) = Len(a.saves) /\ Len(Y.saves) = Len(a.saves)
        /\ \A i \in Nat : 1 <= i /\ i <= Len(a.saves) =>
             \/ X.saves[i] = a.saves[i] /\ Y.saves[i] = b.saves[i]
             \/ atom.op = "save" /\ i = atom.slot + 1 /\ X.saves[i] = Y.saves[i]
        /\ X.ok /\ atom.op = "save" => \A i \in Nat :
             1 <= i /\ i <= Len(a.saves) /\ i = atom.slot + 1 => X.saves[i] = Y.saves[i]
        BY <1>2, <1>4, <2>3, <2>4, <2>7, PairApplied
  <2>9. At(a, sc.image, start, f[m - 1])
        BY <2>1, <2>3 DEF At
  <2>10. /\ X.ok => At(X, sc.image, start, f[m]) /\ Passed(sc.image, start, cells, f[m - 1].at, f[m].at)
         /\ a.ok /\ Suited(sc, start, cells) /\ Plain(sc, atom, f[m - 1], start) => X.ok
         BY <1>2, <1>3, <2>3, <2>9, HeadApplied
  <2> HIDE DEF X, Y
  <2>11. Smooth(sc, start, n, f) => Plain(sc, atom, f[m - 1], start)
         BY DEF Smooth
  <2>12. Smooth(sc, start, n, f) /\ Suited(sc, start, cells) => X.ok
         BY <1>8, <2>3, <2>10, <2>11
  <2>13. atom.op = "save" => atom.slot + 1 \in Marks(sc.program, n)
         BY <1>1, MarksFields
  <2>14. Kept(sc.program, n, s, X) /\ Kept(sc.program, n, r, Y)
    <3>1. ASSUME NEW i \in Nat, 1 <= i, i <= Len(s), i \notin Marks(sc.program, n)
          PROVE  X.saves[i] = s[i] /\ Y.saves[i] = r[i]
      <4>1. i <= Len(a.saves) /\ i <= Len(r)
            BY <1>6, <2>3, <3>1
      <4>2. x.saves[i] = s[i] /\ y.saves[i] = r[i]
            BY <1>6, <3>1, <4>1 DEF Kept
      <4>3. X.saves[i] = a.saves[i] /\ Y.saves[i] = b.saves[i]
            BY <2>8, <2>13, <3>1, <4>1
      <4> QED BY <2>3, <2>4, <4>2, <4>3
    <3> QED BY <3>1 DEF Kept
  <2>15. ASSUME X.ok
         PROVE  /\ X.pc = m /\ At(X, sc.image, start, f[m])
                /\ Passed(sc.image, start, cells, 0, f[m].at)
                /\ \A i \in Nat : 1 <= i /\ i <= Len(s) /\ i \in Marks(sc.program, m) => X.saves[i] = Y.saves[i]
    <3>1. X.pc = m
          BY <1>1, <2>1, <2>3, <2>8
    <3>2. f[m - 1].at \in Nat /\ f[m].at \in Nat
          BY <1>3, SpotFields
    <3>3. Passed(sc.image, start, cells, 0, f[m].at)
      <4>1. Passed(sc.image, start, cells, f[m - 1].at, f[m].at)
            BY <2>10, <2>15
      <4>2. \A i \in 0 + 1 .. f[m].at : i \in 0 + 1 .. f[m - 1].at \/ i \in f[m - 1].at + 1 .. f[m].at
            BY <3>2
      <4> QED BY <2>1, <4>1, <4>2 DEF Passed
    <3>4. ASSUME NEW i \in Nat, 1 <= i, i <= Len(s), i \in Marks(sc.program, m)
          PROVE  X.saves[i] = Y.saves[i]
      <4>1. i <= Len(a.saves)
            BY <1>6, <2>3, <3>4
      <4>2. CASE atom.op = "save" /\ i = atom.slot + 1
            BY <2>8, <2>15, <3>4, <4>1, <4>2
      <4>3. CASE ~(atom.op = "save" /\ i = atom.slot + 1)
        <5>1. i \in Marks(sc.program, m - 1)
              BY <1>1, <3>4, <4>3, MarksFields
        <5>2. x.saves[i] = y.saves[i]
              BY <2>1, <3>4, <5>1
        <5>3. X.saves[i] = a.saves[i] /\ Y.saves[i] = b.saves[i]
              BY <2>8, <3>4, <4>1, <4>3
        <5> QED BY <2>3, <2>4, <5>2, <5>3
      <4> QED BY <4>2, <4>3
    <3> QED BY <2>10, <2>15, <3>1, <3>3, <3>4
  <2>16. Along(sc, start, n, f, cells, Len(s), m, X, Y)
         BY <2>15 DEF Along
  <2>17. Len(X.saves) = Len(s) /\ Len(Y.saves) = Len(s)
         BY <1>6, <2>3, <2>8
  <2>18. Pair(sc, start, s, r, n, f, cells, m, X, Y)
         BY <2>5, <2>6, <2>8, <2>12, <2>14, <2>16, <2>17 DEF Pair
  <2> QED BY <2>8, <2>18, Zenon
<1> QED BY <1>7, <1>8

(* So two executions reach the end of the head as a pair.                    *)
LEMMA PairAlong ==
  ASSUME NEW sc \in Scans, NEW n \in 0 .. Len(sc.program), NEW f, NEW cells \in Cells, HeadAlong(sc.program, n, f, cells),
         NEW start \in Nat, start <= Len(sc.image), NEW s \in Seq(Addresses), NEW r \in Seq(Addresses), Len(s) = Len(r)
  PROVE  \E x, y \in Branches : Pair(sc, start, s, r, n, f, cells, n, x, y)
<1> DEFINE T == {m \in 0 .. n : \E x, y \in Branches : Pair(sc, start, s, r, n, f, cells, m, x, y)}
<1>1. n \in Nat /\ 0 \in 0 .. n /\ n \in 0 .. n
      BY ScanFields
<1>2. \E x, y \in Branches : Pair(sc, start, s, r, n, f, cells, 0, x, y)
      BY PairBegun
<1>3. 0 \in T
      BY <1>1, <1>2, Zenon
<1>4. ASSUME NEW m \in 1 .. n, m - 1 \in T
      PROVE  m \in T
  <2>1. PICK x \in Branches, y \in Branches : Pair(sc, start, s, r, n, f, cells, m - 1, x, y)
        BY <1>4
  <2>2. \E X, Y \in Branches : Pair(sc, start, s, r, n, f, cells, m, X, Y)
        BY <2>1, PairLed
  <2>3. m \in 0 .. n
        BY <1>1
  <2> QED BY <2>2, <2>3
<1> HIDE DEF T
<1>5. \A m \in 0 .. n : m \in T
      BY <1>1, <1>3, <1>4, IntervalInduction
<1>6. n \in T
      BY <1>1, <1>5
<1> QED BY <1>6 DEF T

Similar(program, n, s, r) ==
  Len(s) = Len(r) /\ \A i \in Nat : 1 <= i /\ i <= Len(s) /\ i \notin Marks(program, n) => s[i] = r[i]

(* A head decides with the image alone.  Where its cells do not suit, the    *)
(* execution fails and changes nothing but the marks; where they do, what    *)
(* was in the marks does not matter.                                         *)
LEMMA HeadDecides ==
  ASSUME NEW sc \in Scans, NEW n \in 0 .. Len(sc.program), NEW cells \in Cells, NEW mask,
         Heads(sc.program, n, cells, Len(cells), mask), NEW start \in Nat,
         NEW s \in Seq(Addresses), NEW r \in Seq(Addresses), Similar(sc.program, n, s, r)
  PROVE  LET E == Exec(sc, start, s)  F == Exec(sc, start, r) IN
         /\ ~Suited(sc, start, cells) => ~E.ok /\ Similar(sc.program, n, s, E.saves)
         /\ E.ok = F.ok
         /\ E.ok => E = F
         /\ Similar(sc.program, n, E.saves, F.saves)
         /\ n = Len(sc.program) /\ Plainly(sc.program, n) /\ Addressed(sc.base + start) =>
              (E.ok <=> Suited(sc, start, cells))
<1> Len(s) = Len(r) /\ \A i \in Nat : 1 <= i /\ i <= Len(s) /\ i \notin Marks(sc.program, n) => s[i] = r[i]
    BY DEF Similar
<1> DEFINE E == Exec(sc, start, s)
<1> DEFINE F == Exec(sc, start, r)
<1> DEFINE N == Len(sc.program)
<1>1. N \in Nat /\ Len(sc.image) \in Nat /\ n \in Nat /\ N - n \in 0 .. N
      BY ScanFields
<1>2. PICK f : HeadAlong(sc.program, n, f, cells) /\ f[n].at = Len(cells) /\ f[n].mask = mask
      BY DEF Heads
<1>3. Len(cells) \in Nat
      BY CellFields
<1>4. CASE start > Len(sc.image)
  <2>1. E = Fail(Entry(start, s)) /\ F = Fail(Entry(start, r))
        BY <1>4, ExecIs
  <2>2. Entry(start, s) \in Branches /\ Entry(start, r) \in Branches
        BY EntryFields
  <2>3. E.ok = FALSE /\ F.ok = FALSE /\ E.saves = s /\ F.saves = r
    <3>1. \A c \in Seq(Addresses) : Entry(start, c) \in Branches /\ Entry(start, c).saves = c
          BY EntryFields
    <3>2. \A z \in Branches : Fail(z).ok = FALSE /\ Fail(z).saves = z.saves
          BY FailFields
    <3> QED BY <2>1, <3>1, <3>2, Zenon
  <2>4. ~Suited(sc, start, cells)
        BY <1>1, <1>3, <1>4 DEF Suited
  <2> HIDE DEF E, F
  <2>5. Similar(sc.program, n, s, E.saves)
        BY <2>3 DEF Similar
  <2>6. Similar(sc.program, n, E.saves, F.saves)
        BY <2>3
  <2>7. ~E.ok /\ ~F.ok /\ E.ok = F.ok /\ Len(E.saves) = Len(s) /\ Len(F.saves) = Len(s)
        BY <2>3
  <2> QED BY <2>4, <2>5, <2>6, <2>7 DEF E, F
<1>5. CASE ~(start > Len(sc.image))
  <2>1. start <= Len(sc.image)
        BY <1>1, <1>5
  <2>2. PICK x \in Branches, y \in Branches : Pair(sc, start, s, r, n, f, cells, n, x, y)
        BY <1>2, <2>1, PairAlong
  <2>3. /\ Alike(x, y) /\ Len(x.saves) = Len(s) /\ Len(y.saves) = Len(s)
        /\ Led(sc, N - n, start, s, x) /\ Led(sc, N - n, start, r, y)
        /\ Kept(sc.program, n, s, x) /\ Kept(sc.program, n, r, y)
        /\ Along(sc, start, n, f, cells, Len(s), n, x, y)
        /\ Smooth(sc, start, n, f) /\ Suited(sc, start, cells) => x.ok
        BY <2>2 DEF Pair
  <2>4. E = Continue(Run(sc)[N - n], x) /\ F = Continue(Run(sc)[N - n], y)
        BY <2>3 DEF Led
  <2> HIDE DEF E, F
  <2>5. x.ok \in BOOLEAN /\ y.ok = x.ok
        BY <2>3, BranchFields DEF Alike
  <2>6. ASSUME NEW i \in Nat, 1 <= i, i <= Len(s), i \notin Marks(sc.program, n)
        PROVE  x.saves[i] = y.saves[i] /\ x.saves[i] = s[i]
    <3>1. s[i] = r[i] /\ i <= Len(r)
          BY <2>6
    <3> QED BY <2>3, <2>6, <3>1 DEF Kept
  <2>7. CASE ~x.ok
    <3>1. E = x /\ F = y
          BY <2>4, <2>5, <2>7 DEF Continue
    <3>2. ~(Smooth(sc, start, n, f) /\ Suited(sc, start, cells))
          BY <2>3, <2>7
    <3>3. n = N /\ Plainly(sc.program, n) /\ Addressed(sc.base + start) => Smooth(sc, start, n, f)
      <4> SUFFICES ASSUME Plainly(sc.program, n), Addressed(sc.base + start), NEW k \in 1 .. n
                   PROVE  Plain(sc, sc.program[k], f[k - 1], start)
          BY DEF Smooth
      <4>1. CASE k = 1
        <5>1. sc.program[k].op = "save" /\ f[k - 1].at = 0
              BY <1>2, <4>1 DEF HeadAlong, Plainly, Save
        <5> QED BY <5>1 DEF Plain
      <4>2. CASE k # 1
            BY <4>2 DEF Plainly, Plain
      <4> QED BY <4>1, <4>2
    <3>4. Similar(sc.program, n, E.saves, F.saves) /\ Similar(sc.program, n, s, E.saves)
          BY <2>3, <2>6, <3>1 DEF Similar
    <3>5. ~E.ok /\ ~F.ok /\ E.ok = F.ok
          BY <2>5, <2>7, <3>1
    <3> QED BY <2>3, <3>1, <3>2, <3>3, <3>4, <3>5 DEF E, F
  <2>8. CASE x.ok
    <3>1. /\ x.pc = n /\ At(x, sc.image, start, f[n])
          /\ Passed(sc.image, start, cells, 0, f[n].at)
          /\ \A i \in Nat : 1 <= i /\ i <= Len(s) /\ i \in Marks(sc.program, n) => x.saves[i] = y.saves[i]
          BY <2>3, <2>8 DEF Along
    <3>2. Suited(sc, start, cells)
          BY <1>2, <3>1 DEF Suited, At
    <3>3. /\ x.saves \in Seq(Addresses) /\ y.saves \in Seq(Addresses)
          BY BranchFields
    <3>4. \A i \in Nat : 1 <= i /\ i <= Len(s) => x.saves[i] = y.saves[i]
          BY <2>6, <3>1
    <3>5. x.saves = y.saves
          BY <2>3, <3>3, <3>4
    <3>6. x = y
          BY <2>3, <3>5, BranchEqual DEF Alike
    <3>7. E = F
          BY <2>4, <3>6
    <3>8. Run(sc)[N - n] \in Runs
          BY <1>1, RunIs
    <3>9. E \in Branches /\ Len(E.saves) = Len(s)
          BY <2>3, <2>4, <3>8, ContinueFields
    <3>10. n = N => E.ok
      <4> SUFFICES ASSUME n = N
                   PROVE  E.ok
          OBVIOUS
      <4>1. N - n = 0
            BY <1>1
      <4>2. Run(sc)[0][x] = x
            BY RunIs
      <4> QED BY <2>4, <2>8, <4>1, <4>2 DEF Continue
    <3>11. Similar(sc.program, n, E.saves, F.saves)
           BY <3>7 DEF Similar
    <3> QED BY <3>2, <3>7, <3>10, <3>11 DEF E, F
  <2> QED BY <2>5, <2>7, <2>8
<1> QED BY <1>4, <1>5

-----------------------------------------------------------------------------
(* Searches.                                                                 *)

(* Suits is Suited for the scanner and its image.                            *)
LEMMA SuitedIs ==
  ASSUME MadeScanner, image \in Images, NEW s
  PROVE  Suited(scan, s, Sought) <=> Suits(s)
<1>1. scan.image = image /\ Sought \in Cells
      BY ScanIs, SoughtIs
<1>2. DOMAIN Sought = 0 + 1 .. Len(Sought)
      BY <1>1, CellFields
<1> QED BY <1>1, <1>2 DEF Suited, Suits, Passed, Matches, Agree

(* The head of a scanner's program, and the slots it marks.                  *)
HeadOf(n) == n \in 0 .. Len(scanner.program) /\ \E mask : Heads(scanner.program, n, Sought, Len(Sought), mask)

(* HeadDecides for the scanner: what suits is decided before anything        *)
(* else.                                                                     *)
LEMMA ExecDecides ==
  ASSUME MadeScanner, image \in Images, NEW n, HeadOf(n), NEW start \in Nat,
         NEW s \in Seq(Addresses), NEW r \in Seq(Addresses), Similar(scanner.program, n, s, r)
  PROVE  LET E == Exec(scan, start, s)  F == Exec(scan, start, r) IN
         /\ ~Suits(start) => ~E.ok /\ Similar(scanner.program, n, s, E.saves)
         /\ E.ok = F.ok
         /\ E.ok => E = F
         /\ Similar(scanner.program, n, E.saves, F.saves)
         /\ n = Len(scanner.program) /\ Plainly(scanner.program, n) /\ Addressed(scanner.base + start) =>
              (E.ok <=> Suits(start))
<1> DEFINE E == Exec(scan, start, s)
<1> DEFINE F == Exec(scan, start, r)
<1>1. /\ scan \in Scans /\ scan.program = scanner.program /\ scan.image = image /\ scan.base = scanner.base
      /\ Sought \in Cells
      BY ScanIs, SoughtIs
<1>2. n \in 0 .. Len(scan.program)
      BY <1>1 DEF HeadOf
<1>3. PICK mask : Heads(scan.program, n, Sought, Len(Sought), mask)
      BY <1>1 DEF HeadOf
<1>4. Similar(scan.program, n, s, r)
      BY <1>1
<1>5. /\ ~Suited(scan, start, Sought) => ~E.ok /\ Similar(scan.program, n, s, E.saves)
      /\ E.ok = F.ok
      /\ E.ok => E = F
      /\ Similar(scan.program, n, E.saves, F.saves)
      /\ n = Len(scan.program) /\ Plainly(scan.program, n) /\ Addressed(scan.base + start) =>
           (E.ok <=> Suited(scan, start, Sought))
      BY <1>1, <1>2, <1>3, <1>4, HeadDecides, Zenon
<1>6. Suited(scan, start, Sought) <=> Suits(start)
      BY SuitedIs
<1> HIDE DEF E, F
<1>7. scan.program = scanner.program /\ scan.base = scanner.base
      BY <1>1
<1> QED BY <1>5, <1>6, <1>7, Zenon DEF E, F

(* Slots are similar to themselves.                                          *)
LEMMA SimilarSelf ==
  ASSUME NEW program, NEW n, NEW s
  PROVE  Similar(program, n, s, s)
BY DEF Similar

LEMMA EmptySlots == <<>> \in Seq(Addresses) /\ Len(<<>>) = 0
OBVIOUS

(* The projection is exact, whichever scanner was made.                      *)
LEMMA ProjectionDecides ==
  ASSUME MadeScanner, image \in Images
  PROVE  ProjectionExact
<1> SUFFICES ASSUME scanner.cells # <<>>, NEW s \in 0 .. Len(image), Addressed(scanner.base + s)
             PROVE  (s + Len(scanner.cells) <= Len(image) /\ Matches(scanner.cells, image, s))
                      <=> Exec(scan, s, <<>>).ok
    BY DEF ProjectionExact
<1> DEFINE n == Len(scanner.program)
<1>1. n \in Nat /\ Len(image) \in Nat
      BY ScanIs
<1>2. /\ Sought = scanner.cells /\ Plainly(scanner.program, n)
      /\ \E mask : Heads(scanner.program, n, Sought, Len(Sought), mask)
      BY SoughtIs
<1>3. n \in 0 .. n /\ s \in Nat
      BY <1>1
<1>4. HeadOf(n)
      BY <1>2, <1>3 DEF HeadOf
<1>5. Similar(scanner.program, n, <<>>, <<>>)
      BY SimilarSelf
<1>6. Exec(scan, s, <<>>).ok <=> Suits(s)
      BY <1>2, <1>3, <1>4, <1>5, EmptySlots, ExecDecides
<1> QED BY <1>2, <1>6 DEF Suits

(* Induction from the end of a range down.                                   *)
LEMMA DownInduction ==
  ASSUME NEW end \in Nat, NEW T,
         \A next \in Nat : (\A k \in Nat : k > next /\ k <= end => k \in T) => next \in T
  PROVE  \A next \in Nat : next \in T
<1> DEFINE U == {n \in 0 .. end : \A next \in Nat : end - next <= n => next \in T}
<1>1. 0 \in U
  <2>1. ASSUME NEW next \in Nat, end - next <= 0
        PROVE  next \in T
    <3>1. \A k \in Nat : ~(k > next /\ k <= end)
          BY <2>1
    <3> QED BY <3>1, Zenon
  <2>2. 0 \in 0 .. end
        OBVIOUS
  <2> QED BY <2>1, <2>2
<1>2. ASSUME NEW n \in 1 .. end, n - 1 \in U
      PROVE  n \in U
  <2>1. ASSUME NEW next \in Nat, end - next <= n
        PROVE  next \in T
    <3>1. \A k \in Nat : k > next /\ k <= end => end - k <= n - 1
          BY <2>1
    <3>2. \A k \in Nat : end - k <= n - 1 => k \in T
          BY <1>2
    <3> QED BY <3>1, <3>2, Zenon
  <2>2. n \in 0 .. end
        OBVIOUS
  <2> QED BY <2>1, <2>2
<1> HIDE DEF U
<1>3. \A n \in 0 .. end : n \in U
      BY <1>1, <1>2, IntervalInduction
<1>4. end \in U
      BY <1>3
<1>5. \A next \in Nat : end - next <= end => next \in T
      BY <1>4 DEF U
<1> QED BY <1>5

(* What a search finds lies in its range, and the slots stay as many.        *)
Ranged(found, next, end, c) ==
  /\ found \in Founds /\ found.saves \in Seq(Addresses) /\ Len(found.saves) = Len(c)
  /\ found.at = Missing \/ (found.at \in Nat /\ next <= found.at /\ found.at < end)

(* A search that ends at once, one that ends at a candidate, one that goes   *)
(* on.                                                                       *)
LEMMA NotFoundRanged ==
  ASSUME NEW next, NEW end, NEW c \in Seq(Addresses)
  PROVE  Ranged(NotFound(c), next, end, c)
BY DEF Ranged, NotFound, Founds, Missing

LEMMA FoundRanged ==
  ASSUME NEW next \in Nat, NEW end \in Nat, NEW c, NEW at \in Nat, NEW s \in Seq(Addresses),
         next <= at, at < end, Len(s) = Len(c)
  PROVE  Ranged([at |-> at, saves |-> s], next, end, c)
BY DEF Ranged, Founds

LEMMA RangedLater ==
  ASSUME NEW next \in Nat, NEW k \in Nat, NEW end \in Nat, NEW c, NEW d, NEW found,
         next <= k, Len(c) = Len(d), Ranged(found, k, end, d)
  PROVE  Ranged(found, next, end, c)
BY DEF Ranged

LEMMA SearchRanged ==
  ASSUME scan \in Scans, NEW end \in Nat, NEW cands \in Discoveries(end),
         NEW next \in Nat, NEW c \in Seq(Addresses)
  PROVE  Ranged(Search(cands, end, next, c), next, end, c)
<1> DEFINE T == {k \in Nat : \A d \in Seq(Addresses) : Ranged(Search(cands, end, k, d), k, end, d)}
<1>1. ASSUME NEW k \in Nat, \A j \in Nat : j > k /\ j <= end => j \in T
      PROVE  k \in T
  <2> SUFFICES ASSUME NEW d \in Seq(Addresses)
               PROVE  Ranged(Search(cands, end, k, d), k, end, d)
      OBVIOUS
  <2>1. /\ k >= end \/ cands[k] = Missing => Search(cands, end, k, d) = NotFound(d)
        /\ ~(k >= end \/ cands[k] = Missing) =>
             /\ Exec(scan, cands[k], d).ok =>
                  Search(cands, end, k, d) = [at |-> cands[k], saves |-> Exec(scan, cands[k], d).saves]
             /\ ~Exec(scan, cands[k], d).ok =>
                  Search(cands, end, k, d) = Search(cands, end, cands[k] + 1, Exec(scan, cands[k], d).saves)
        BY SearchSteps
  <2>2. CASE k >= end \/ cands[k] = Missing
        BY <2>1, <2>2, NotFoundRanged
  <2>3. CASE ~(k >= end \/ cands[k] = Missing)
    <3> DEFINE at == cands[k]
    <3> DEFINE s == Exec(scan, at, d).saves
    <3>1. at \in Nat /\ k <= at /\ at < end
      <4>1. k \in 0 .. end - 1
            BY <2>3
      <4>2. at = Missing \/ (k <= at /\ at < end)
            BY <4>1 DEF Discoveries
      <4>3. at \in Int
            BY <4>1 DEF Discoveries
      <4> HIDE DEF at
      <4> QED BY <2>3, <4>2, <4>3 DEF at
    <3> HIDE DEF at
    <3>2. s \in Seq(Addresses) /\ Len(s) = Len(d) /\ Exec(scan, at, d).ok \in BOOLEAN
          BY <3>1, ExecType
    <3>3. CASE Exec(scan, at, d).ok
      <4>1. Search(cands, end, k, d) = [at |-> at, saves |-> s]
            BY <2>1, <2>3, <3>3 DEF at
      <4>2. Ranged([at |-> at, saves |-> s], k, end, d)
            BY <3>1, <3>2, FoundRanged
      <4> QED BY <4>1, <4>2
    <3>4. CASE ~Exec(scan, at, d).ok
      <4>1. Search(cands, end, k, d) = Search(cands, end, at + 1, s)
            BY <2>1, <2>3, <3>4 DEF at
      <4>2. at + 1 \in Nat /\ at + 1 > k /\ at + 1 <= end /\ k <= at + 1
            BY <3>1
      <4>3. at + 1 \in T
            BY <1>1, <4>2
      <4>4. Ranged(Search(cands, end, at + 1, s), at + 1, end, s)
            BY <3>2, <4>3
      <4>5. Ranged(Search(cands, end, at + 1, s), k, end, d)
            BY <3>2, <4>2, <4>4, RangedLater
      <4> QED BY <4>1, <4>5
    <3> QED BY <3>3, <3>4
  <2> QED BY <2>2, <2>3
<1> HIDE DEF T
<1>2. \A k \in Nat : (\A j \in Nat : j > k /\ j <= end => j \in T) => k \in T
      BY <1>1
<1>3. next \in T
      BY <1>2, DownInduction
<1> QED BY <1>3 DEF T

-----------------------------------------------------------------------------
(* Candidate discovery loses nothing.                                        *)
Filter(end) == [from \in 0 .. end - 1 |-> Candidate(from, end)]
Straight(end) == [from \in 0 .. end - 1 |-> from]

(* Both searches are given discoveries.                                      *)
LEMMA FilterFields ==
  ASSUME MadeScanner, image \in Images, NEW end \in Nat, end <= Len(image)
  PROVE  /\ Filter(end) \in Discoveries(end) /\ Straight(end) \in Discoveries(end)
         /\ \A next, c : /\ FindFrom(next, end, c) = Search(Filter(end), end, next, c)
                         /\ DirectFrom(next, end, c) = Search(Straight(end), end, next, c)
BY CandidatesDiscover, DirectDiscover DEF Filter, Straight, FindFrom, DirectFrom

(* What the filtered search is given is the first start that suits.          *)
LEMMA FilterAt ==
  ASSUME MadeScanner, image \in Images, NEW end \in Nat, end <= Len(image), NEW next \in 0 .. end - 1
  PROVE  LET c == Filter(end)[next] IN
         \/ c = Missing /\ \A s \in next .. end - 1 : ~Suits(s)
         \/ c \in next .. end - 1 /\ Suits(c) /\ \A s \in next .. c - 1 : ~Suits(s)
<1>1. Filter(end)[next] = Candidate(next, end)
      BY DEF Filter
<1> QED BY <1>1, CandidateIs, Zenon

(* A search behind its range finds nothing.                                  *)
LEMMA Outside ==
  ASSUME NEW end \in Nat, NEW next \in Nat, next >= end, NEW cands \in Discoveries(end), scan \in Scans,
         NEW c \in Seq(Addresses)
  PROVE  Search(cands, end, next, c) = NotFound(c)
BY SearchSteps

(* A start that does not suit is passed over.                                *)
LEMMA FilterPasses ==
  ASSUME MadeScanner, image \in Images, NEW end \in Nat, end <= Len(image), NEW next \in 0 .. end - 1,
         ~Suits(next), NEW c \in Seq(Addresses)
  PROVE  FindFrom(next, end, c) = FindFrom(next + 1, end, c)
<1> DEFINE C == Filter(end)
<1>1. scan \in Scans /\ C \in Discoveries(end) /\ next \in Nat /\ next + 1 \in Nat /\ next < end
      BY ScanIs, FilterFields
<1>2. /\ FindFrom(next, end, c) = Search(C, end, next, c)
      /\ FindFrom(next + 1, end, c) = Search(C, end, next + 1, c)
      BY FilterFields
<1>3. \/ C[next] = Missing /\ \A s \in next .. end - 1 : ~Suits(s)
      \/ C[next] \in next .. end - 1 /\ Suits(C[next]) /\ \A s \in next .. C[next] - 1 : ~Suits(s)
      BY FilterAt
<1>4. next + 1 < end =>
        \/ C[next + 1] = Missing /\ \A s \in next + 1 .. end - 1 : ~Suits(s)
        \/ C[next + 1] \in next + 1 .. end - 1 /\ Suits(C[next + 1]) /\ \A s \in next + 1 .. C[next + 1] - 1 : ~Suits(s)
  <2>1. next + 1 < end => next + 1 \in 0 .. end - 1
        OBVIOUS
  <2> QED BY <2>1, FilterAt
<1>5. /\ next >= end \/ C[next] = Missing => Search(C, end, next, c) = NotFound(c)
      /\ ~(next >= end \/ C[next] = Missing) =>
           /\ Exec(scan, C[next], c).ok =>
                Search(C, end, next, c) = [at |-> C[next], saves |-> Exec(scan, C[next], c).saves]
           /\ ~Exec(scan, C[next], c).ok =>
                Search(C, end, next, c) = Search(C, end, C[next] + 1, Exec(scan, C[next], c).saves)
      BY <1>1, SearchSteps
<1>6. /\ next + 1 >= end \/ C[next + 1] = Missing => Search(C, end, next + 1, c) = NotFound(c)
      /\ ~(next + 1 >= end \/ C[next + 1] = Missing) =>
           /\ Exec(scan, C[next + 1], c).ok =>
                Search(C, end, next + 1, c) = [at |-> C[next + 1], saves |-> Exec(scan, C[next + 1], c).saves]
           /\ ~Exec(scan, C[next + 1], c).ok =>
                Search(C, end, next + 1, c) = Search(C, end, C[next + 1] + 1, Exec(scan, C[next + 1], c).saves)
      BY <1>1, SearchSteps
<1> HIDE DEF C
<1>7. CASE C[next] = Missing /\ \A s \in next .. end - 1 : ~Suits(s)
  <2>1. \A s \in next + 1 .. end - 1 : s \in next .. end - 1
        BY <1>1
  <2>2. next + 1 < end => C[next + 1] = Missing
        BY <1>4, <1>7, <2>1, Zenon
  <2>3. next + 1 >= end \/ next + 1 < end
        BY <1>1
  <2> QED BY <1>2, <1>5, <1>6, <1>7, <2>2, <2>3, Zenon
<1>8. CASE C[next] \in next .. end - 1 /\ Suits(C[next]) /\ \A s \in next .. C[next] - 1 : ~Suits(s)
  <2>1. PICK k : k = C[next]
        OBVIOUS
  <2>2. k \in next .. end - 1 /\ Suits(k) /\ \A s \in next .. k - 1 : ~Suits(s)
        BY <1>8, <2>1
  <2>3. k # next
        BY <2>2
  <2>4. k \in next + 1 .. end - 1 /\ next + 1 < end
        BY <1>1, <2>2, <2>3
  <2>5. C[next + 1] = k
    <3>1. PICK j : j = C[next + 1]
          OBVIOUS
    <3>2. \/ j = Missing /\ \A s \in next + 1 .. end - 1 : ~Suits(s)
          \/ j \in next + 1 .. end - 1 /\ Suits(j) /\ \A s \in next + 1 .. j - 1 : ~Suits(s)
          BY <1>4, <2>4, <3>1
    <3>3. j \in next + 1 .. end - 1 /\ Suits(j) /\ \A s \in next + 1 .. j - 1 : ~Suits(s)
          BY <2>2, <2>4, <3>2, Zenon
    <3>4. ~(j \in next .. k - 1)
          BY <2>2, <3>3, Zenon
    <3>5. ~(k \in next + 1 .. j - 1)
          BY <2>2, <3>3, Zenon
    <3> QED BY <1>1, <2>2, <2>4, <3>1, <3>3, <3>4, <3>5
  <2>6. k # Missing /\ ~(next >= end) /\ ~(next + 1 >= end)
        BY <1>1, <2>4 DEF Missing
  <2>7. CASE Exec(scan, k, c).ok
        BY <1>2, <1>5, <1>6, <2>1, <2>5, <2>6, <2>7, Zenon
  <2>8. CASE ~Exec(scan, k, c).ok
        BY <1>2, <1>5, <1>6, <2>1, <2>5, <2>6, <2>8, Zenon
  <2> QED BY <2>7, <2>8
<1> QED BY <1>3, <1>7, <1>8

(* A start that suits is executed by both searches.                          *)
LEMMA FilterTries ==
  ASSUME MadeScanner, image \in Images, NEW end \in Nat, end <= Len(image), NEW next \in 0 .. end - 1,
         Suits(next), NEW c \in Seq(Addresses)
  PROVE  /\ Exec(scan, next, c).ok =>
              FindFrom(next, end, c) = [at |-> next, saves |-> Exec(scan, next, c).saves]
         /\ ~Exec(scan, next, c).ok =>
              FindFrom(next, end, c) = FindFrom(next + 1, end, Exec(scan, next, c).saves)
<1> DEFINE C == Filter(end)
<1>1. scan \in Scans /\ C \in Discoveries(end) /\ next \in Nat /\ ~(next >= end) /\ next # Missing
      BY ScanIs, FilterFields DEF Missing
<1>2. C[next] = next
  <2>1. \/ C[next] = Missing /\ \A s \in next .. end - 1 : ~Suits(s)
        \/ C[next] \in next .. end - 1 /\ Suits(C[next]) /\ \A s \in next .. C[next] - 1 : ~Suits(s)
        BY FilterAt
  <2> HIDE DEF C
  <2>2. PICK k : k = C[next]
        OBVIOUS
  <2>3. next \in next .. end - 1
        BY <1>1
  <2>4. k \in next .. end - 1 /\ \A s \in next .. k - 1 : ~Suits(s)
        BY <2>1, <2>2, <2>3, Zenon
  <2>5. ~(next \in next .. k - 1)
        BY <2>4, Zenon
  <2> QED BY <1>1, <2>2, <2>4, <2>5
<1>3. /\ next >= end \/ C[next] = Missing => Search(C, end, next, c) = NotFound(c)
      /\ ~(next >= end \/ C[next] = Missing) =>
           /\ Exec(scan, C[next], c).ok =>
                Search(C, end, next, c) = [at |-> C[next], saves |-> Exec(scan, C[next], c).saves]
           /\ ~Exec(scan, C[next], c).ok =>
                Search(C, end, next, c) = Search(C, end, C[next] + 1, Exec(scan, C[next], c).saves)
      BY <1>1, SearchSteps
<1>4. \A k, d : FindFrom(k, end, d) = Search(C, end, k, d)
      BY FilterFields
<1> HIDE DEF C
<1> QED BY <1>1, <1>2, <1>3, <1>4, Zenon

(* The direct search executes every start.                                   *)
LEMMA DirectTries ==
  ASSUME MadeScanner, image \in Images, NEW end \in Nat, end <= Len(image), NEW next \in 0 .. end - 1,
         NEW c \in Seq(Addresses)
  PROVE  /\ Exec(scan, next, c).ok =>
              DirectFrom(next, end, c) = [at |-> next, saves |-> Exec(scan, next, c).saves]
         /\ ~Exec(scan, next, c).ok =>
              DirectFrom(next, end, c) = DirectFrom(next + 1, end, Exec(scan, next, c).saves)
<1> DEFINE C == Straight(end)
<1>1. scan \in Scans /\ C \in Discoveries(end) /\ next \in Nat /\ ~(next >= end) /\ next # Missing
      BY ScanIs, FilterFields DEF Missing
<1>2. C[next] = next
      BY DEF Straight
<1>3. /\ next >= end \/ C[next] = Missing => Search(C, end, next, c) = NotFound(c)
      /\ ~(next >= end \/ C[next] = Missing) =>
           /\ Exec(scan, C[next], c).ok =>
                Search(C, end, next, c) = [at |-> C[next], saves |-> Exec(scan, C[next], c).saves]
           /\ ~Exec(scan, C[next], c).ok =>
                Search(C, end, next, c) = Search(C, end, C[next] + 1, Exec(scan, C[next], c).saves)
      BY <1>1, SearchSteps
<1>4. \A k, d : DirectFrom(k, end, d) = Search(C, end, k, d)
      BY FilterFields
<1> HIDE DEF C
<1> QED BY <1>1, <1>2, <1>3, <1>4, Zenon

(* Behind its range, either search finds nothing.                            *)
LEMMA SearchOutside ==
  ASSUME MadeScanner, image \in Images, NEW end \in Nat, end <= Len(image), NEW next \in Nat, next >= end,
         NEW c \in Seq(Addresses)
  PROVE  FindFrom(next, end, c) = NotFound(c) /\ DirectFrom(next, end, c) = NotFound(c)
<1>1. scan \in Scans
      BY ScanIs
<1> QED BY <1>1, FilterFields, Outside

(* The filtered search and the direct one find the same.                     *)
SameFound(found, direct) == found.at = direct.at /\ (found.at # Missing => found.saves = direct.saves)

LEMMA FilteredIsDirect ==
  ASSUME MadeScanner, image \in Images, NEW n, HeadOf(n), NEW end \in Nat, end <= Len(image),
         NEW next \in Nat, NEW s \in Seq(Addresses), NEW r \in Seq(Addresses), Similar(scanner.program, n, s, r)
  PROVE  SameFound(FindFrom(next, end, s), DirectFrom(next, end, r))
<1> DEFINE P(k, c, d) == Similar(scanner.program, n, c, d) => SameFound(FindFrom(k, end, c), DirectFrom(k, end, d))
<1> DEFINE T == {k \in Nat : \A c, d \in Seq(Addresses) : P(k, c, d)}
<1>1. ASSUME NEW k \in Nat, \A j \in Nat : j > k /\ j <= end => j \in T
      PROVE  k \in T
  <2> SUFFICES ASSUME NEW c \in Seq(Addresses), NEW d \in Seq(Addresses), Similar(scanner.program, n, c, d)
               PROVE  SameFound(FindFrom(k, end, c), DirectFrom(k, end, d))
      OBVIOUS
  <2>1. CASE k >= end
    <3>1. FindFrom(k, end, c) = NotFound(c) /\ DirectFrom(k, end, d) = NotFound(d)
          BY <2>1, SearchOutside
    <3> QED BY <3>1 DEF SameFound, NotFound
  <2>2. CASE k < end
    <3>1. k \in 0 .. end - 1 /\ k + 1 \in Nat /\ k + 1 > k /\ k + 1 <= end
          BY <2>2
    <3>2. k + 1 \in T
          BY <1>1, <3>1
    <3>3. \A x, y \in Seq(Addresses) : P(k + 1, x, y)
          BY <3>2
    <3> DEFINE E == Exec(scan, k, c)
    <3> DEFINE F == Exec(scan, k, d)
    <3>4. /\ ~Suits(k) => ~E.ok /\ Similar(scanner.program, n, c, E.saves)
          /\ E.ok = F.ok
          /\ E.ok => E = F
          /\ Similar(scanner.program, n, E.saves, F.saves)
          BY ExecDecides
    <3>5. /\ F.ok => DirectFrom(k, end, d) = [at |-> k, saves |-> F.saves]
          /\ ~F.ok => DirectFrom(k, end, d) = DirectFrom(k + 1, end, F.saves)
          BY <3>1, DirectTries
    <3>6. E.saves \in Seq(Addresses) /\ F.saves \in Seq(Addresses)
          BY ScanIs, ExecType
    <3>7. CASE ~Suits(k)
      <4>1. FindFrom(k, end, c) = FindFrom(k + 1, end, c)
            BY <3>1, <3>7, FilterPasses
      <4> HIDE DEF E, F
      <4>2. ~E.ok /\ ~F.ok
            BY <3>4, <3>7
      <4>3. Similar(scanner.program, n, c, F.saves)
            BY <3>4, <3>7 DEF Similar
      <4>4. SameFound(FindFrom(k + 1, end, c), DirectFrom(k + 1, end, F.saves))
            BY <3>3, <3>6, <4>3
      <4> QED BY <3>5, <4>1, <4>2, <4>4
    <3>8. CASE Suits(k)
      <4>1. /\ E.ok => FindFrom(k, end, c) = [at |-> k, saves |-> E.saves]
            /\ ~E.ok => FindFrom(k, end, c) = FindFrom(k + 1, end, E.saves)
            BY <3>1, <3>8, FilterTries
      <4> HIDE DEF E, F
      <4>2. CASE E.ok
        <5>1. F.ok /\ E = F
              BY <3>4, <4>2
        <5>2. FindFrom(k, end, c) = [at |-> k, saves |-> E.saves] /\ DirectFrom(k, end, d) = [at |-> k, saves |-> E.saves]
              BY <3>5, <4>1, <4>2, <5>1
        <5> QED BY <5>2 DEF SameFound
      <4>3. CASE ~E.ok
        <5>1. ~F.ok
              BY <3>4, <4>3
        <5>2. SameFound(FindFrom(k + 1, end, E.saves), DirectFrom(k + 1, end, F.saves))
              BY <3>3, <3>4, <3>6
        <5> QED BY <3>5, <4>1, <4>3, <5>1, <5>2
      <4> QED BY <4>2, <4>3
    <3> QED BY <3>7, <3>8
  <2> QED BY <2>1, <2>2
<1> HIDE DEF T
<1>2. \A k \in Nat : (\A j \in Nat : j > k /\ j <= end => j \in T) => k \in T
      BY <1>1
<1>3. next \in T
      BY <1>2, DownInduction
<1> QED BY <1>3 DEF T

-----------------------------------------------------------------------------
(* Searches whose captures do not decide.                                    *)
Steady(c) == ~Compares \/ c = <<>>

(* Compares is read off the program.                                         *)
LEMMA BlindIs ==
  ASSUME MadeScanner, image \in Images
  PROVE  ~Compares <=> Blind(scan.program)
<1>1. scan.program = scanner.program /\ DOMAIN scanner.program = 1 .. Len(scanner.program)
      BY ScanIs
<1> QED BY <1>1 DEF Compares, Blind, Comparing

(* Slots of length zero are none.                                            *)
LEMMA NoSlots ==
  ASSUME NEW c \in Seq(Addresses), Len(c) = 0
  PROVE  c = <<>>
OBVIOUS

(* Steady depends on the program and the number of slots.                    *)
LEMMA SteadyKept ==
  ASSUME NEW c \in Seq(Addresses), NEW d \in Seq(Addresses), Len(d) = Len(c), Steady(c)
  PROVE  Steady(d)
BY DEF Steady

(* Where the captures do not decide, an execution decides as with none.      *)
LEMMA SteadyExec ==
  ASSUME MadeScanner, image \in Images, NEW c \in Seq(Addresses), Steady(c), NEW start \in Nat
  PROVE  Exec(scan, start, c).ok = Exec(scan, start, <<>>).ok
<1>1. scan \in Scans
      BY ScanIs
<1>2. CASE ~Compares
  <2>1. Blind(scan.program)
        BY <1>2, BlindIs
  <2> QED BY <1>1, <2>1, EmptySlots, ExecBlind
<1>3. CASE c = <<>>
      BY <1>3
<1> QED BY <1>2, <1>3 DEF Steady

(* So what is accepted does not depend on them.                              *)
LEMMA AcceptedIs ==
  ASSUME MadeScanner, image \in Images, NEW c \in Seq(Addresses), Steady(c), NEW start \in Nat, NEW end
  PROVE  Accepted(start, end, c) = Accepted(start, end, <<>>)
<1>1. \A s \in start .. end - 1 : Exec(scan, s, c).ok = Exec(scan, s, <<>>).ok
  <2> SUFFICES ASSUME NEW s \in start .. end - 1
               PROVE  Exec(scan, s, c).ok = Exec(scan, s, <<>>).ok
      OBVIOUS
  <2>1. s \in Nat
        OBVIOUS
  <2> QED BY <2>1, SteadyExec
<1> QED BY <1>1 DEF Accepted

(* Such a search finds the first start at which the program matches.         *)
LEMMA DirectFirst ==
  ASSUME MadeScanner, image \in Images, NEW end \in Nat, end <= Len(image),
         NEW next \in Nat, NEW c \in Seq(Addresses), Steady(c)
  PROVE  IsFirst(DirectFrom(next, end, c).at, Accepted(next, end, <<>>))
<1> DEFINE Ok(k) == Exec(scan, k, <<>>).ok
<1> DEFINE T == {k \in Nat : \A d \in Seq(Addresses) :
                    Steady(d) => IsFirst(DirectFrom(k, end, d).at, Accepted(k, end, <<>>))}
<1>1. ASSUME NEW k \in Nat, \A j \in Nat : j > k /\ j <= end => j \in T
      PROVE  k \in T
  <2> SUFFICES ASSUME NEW d \in Seq(Addresses), Steady(d)
               PROVE  IsFirst(DirectFrom(k, end, d).at, Accepted(k, end, <<>>))
      OBVIOUS
  <2>0. \A m : Accepted(m, end, <<>>) = {s \in m .. end - 1 : Ok(s)}
        BY DEF Accepted
  <2>1. CASE k >= end
    <3>1. DirectFrom(k, end, d) = NotFound(d)
          BY <2>1, SearchOutside
    <3>2. k .. end - 1 = {}
          BY <2>1
    <3> HIDE DEF Ok
    <3>3. Accepted(k, end, <<>>) = {}
          BY <2>0, <3>2
    <3> QED BY <3>1, <3>3 DEF IsFirst, NotFound
  <2>2. CASE k < end
    <3>1. k \in 0 .. end - 1 /\ k + 1 \in Nat /\ k + 1 > k /\ k + 1 <= end
          BY <2>2
    <3>2. k + 1 \in T
          BY <1>1, <3>1
    <3> DEFINE E == Exec(scan, k, d)
    <3>3. /\ E.ok => DirectFrom(k, end, d) = [at |-> k, saves |-> E.saves]
          /\ ~E.ok => DirectFrom(k, end, d) = DirectFrom(k + 1, end, E.saves)
          BY <3>1, DirectTries
    <3>4. E.ok <=> Ok(k)
      <4>1. E.ok = Ok(k)
            BY SteadyExec
      <4> QED BY <4>1, Zenon
    <3>5. E.saves \in Seq(Addresses) /\ Len(E.saves) = Len(d) /\ E.ok \in BOOLEAN
          BY ScanIs, ExecType
    <3> HIDE DEF E
    <3>6. Steady(E.saves)
          BY <3>5, SteadyKept
    <3>7. IsFirst(DirectFrom(k + 1, end, E.saves).at, Accepted(k + 1, end, <<>>))
          BY <3>2, <3>5, <3>6
    <3> HIDE DEF Ok, T
    <3>8. CASE E.ok
      <4>1. DirectFrom(k, end, d).at = k
            BY <3>3, <3>8
      <4>2. k \in k .. end - 1 /\ Ok(k) /\ \A t \in k .. end - 1 : k <= t
            BY <3>1, <3>4, <3>8
      <4> QED BY <2>0, <4>1, <4>2 DEF IsFirst
    <3>9. CASE ~E.ok
      <4>1. DirectFrom(k, end, d) = DirectFrom(k + 1, end, E.saves)
            BY <3>3, <3>9
      <4>2. \A s : s \in k .. end - 1 <=> s = k \/ s \in k + 1 .. end - 1
            BY <3>1
      <4>3. {s \in k .. end - 1 : Ok(s)} = {s \in k + 1 .. end - 1 : Ok(s)}
            BY <4>2, <3>4, <3>9
      <4> QED BY <2>0, <3>7, <4>1, <4>3
    <3> QED BY <3>8, <3>9
  <2> QED BY <2>1, <2>2
<1> HIDE DEF T
<1>2. \A k \in Nat : (\A j \in Nat : j > k /\ j <= end => j \in T) => k \in T
      BY <1>1
<1>3. next \in T
      BY <1>2, DownInduction
<1> QED BY <1>3 DEF T

(* The same for the filtered search.                                         *)
LEMMA FindFirst ==
  ASSUME MadeScanner, image \in Images, NEW end \in Nat, end <= Len(image),
         NEW next \in Nat, NEW c \in Seq(Addresses), Steady(c)
  PROVE  IsFirst(FindFrom(next, end, c).at, Accepted(next, end, <<>>))
<1>1. PICK n \in 0 .. Len(scanner.program) : \E mask : Heads(scanner.program, n, Sought, Len(Sought), mask)
      BY SoughtIs
<1>2. HeadOf(n)
      BY <1>1 DEF HeadOf
<1>3. SameFound(FindFrom(next, end, c), DirectFrom(next, end, c))
      BY <1>2, SimilarSelf, FilteredIsDirect
<1>4. FindFrom(next, end, c).at = DirectFrom(next, end, c).at
      BY <1>3 DEF SameFound
<1> QED BY <1>4, DirectFirst

(* The ranges searched.                                                      *)
LEMMA BoundsFields ==
  ASSUME MadeScanner, image \in Images, NEW range \in Bounds
  PROVE  range[1] \in Nat /\ range[2] \in Nat /\ range[2] <= Len(image)
<1>1. PICK b \in Ranges[image] : range = <<b[1], Min({b[2], Len(image)})>>
      BY DEF Bounds
<1>2. b[1] \in Nat /\ b[2] \in Nat
      BY RangesAssumption
<1>3. Len(image) \in Nat
      BY ScanIs
<1>4. Min({b[2], Len(image)}) = IF b[2] <= Len(image) THEN b[2] ELSE Len(image)
      BY <1>2, <1>3, MinOfTwo
<1>5. range[1] = b[1] /\ range[2] = Min({b[2], Len(image)})
      BY <1>1
<1> QED BY <1>2, <1>3, <1>4, <1>5

(* FiltersLoseNothing, of a scanner that was made: the head decides what     *)
(* suits.                                                                    *)
LEMMA FiltersDecide ==
  ASSUME MadeScanner, image \in Images, saves \in Seq(Addresses)
  PROVE  FiltersLoseNothing
<1>1. PICK n \in 0 .. Len(scanner.program) : \E mask : Heads(scanner.program, n, Sought, Len(Sought), mask)
      BY SoughtIs
<1>2. HeadOf(n)
      BY <1>1 DEF HeadOf
<1>3. ASSUME NEW range \in Bounds
      PROVE  SameFound(FindFrom(range[1], range[2], saves), DirectFrom(range[1], range[2], saves))
      BY <1>2, BoundsFields, SimilarSelf, FilteredIsDirect
<1> QED BY <1>3 DEF FiltersLoseNothing, SameFound

(* One match in a range: the first, and none behind it.                      *)
LEMMA SingleFirst ==
  ASSUME NEW T, IsFiniteSet(T), NEW c \in Int, IsFirst(c, T), \A t \in T : t \in Nat, c # Missing
  PROVE  Cardinality(T) = 1 <=> \A t \in T : ~(t >= c + 1)
<1>1. c \in T /\ \A t \in T : c <= t
      BY DEF IsFirst
<1>2. Cardinality(T) = 1 <=> \E x : T = {x}
      BY FS_Singleton
<1>3. (\A t \in T : ~(t >= c + 1)) <=> T = {c}
  <2>1. ASSUME \A t \in T : ~(t >= c + 1)
        PROVE  T = {c}
    <3>1. \A t \in T : t = c
          BY <1>1, <2>1
    <3> QED BY <1>1, <3>1, Zenon
  <2>2. T = {c} => \A t \in T : ~(t >= c + 1)
        OBVIOUS
  <2> QED BY <2>1, <2>2
<1>4. (\E x : T = {x}) <=> T = {c}
      BY <1>1
<1> QED BY <1>2, <1>3, <1>4

(* UniqueUnlessCompared, of a scanner that was made: the search behind the   *)
(* first match finds the next one.                                           *)
LEMMA UniqueDecides ==
  ASSUME MadeScanner, image \in Images, saves \in Seq(Addresses)
  PROVE  UniqueUnlessCompared
<1> SUFFICES ASSUME ~Compares, NEW range \in Bounds
             PROVE  Finds(range[1], range[2], saves).unique
                      <=> Cardinality(Accepted(range[1], range[2], saves)) = 1
    BY DEF UniqueUnlessCompared
<1> DEFINE start == range[1]
<1> DEFINE end == range[2]
<1> DEFINE found == FindFrom(start, end, saves)
<1> DEFINE A == Accepted(start, end, <<>>)
<1>1. start \in Nat /\ end \in Nat /\ end <= Len(image)
      BY BoundsFields
<1>2. Steady(saves) /\ Steady(<<>>)
      BY DEF Steady
<1>3. Accepted(start, end, saves) = A
      BY <1>1, <1>2, AcceptedIs
<1>4. IsFirst(found.at, A)
      BY <1>1, <1>2, FindFirst
<1>5. scan \in Scans /\ Filter(end) \in Discoveries(end) /\ found = Search(Filter(end), end, start, saves)
      BY <1>1, ScanIs, FilterFields
<1>6. Ranged(found, start, end, saves)
      BY <1>1, <1>5, SearchRanged
<1>7. Finds(start, end, saves).unique
        <=> found.at # Missing /\ FindFrom(found.at + 1, end, <<>>).at = Missing
      BY DEF Finds, Unique
<1>8. A \subseteq start .. end - 1 /\ IsFiniteSet(A)
  <2>1. A \subseteq start .. end - 1
        BY DEF Accepted
  <2>2. start \in Int /\ end - 1 \in Int
        BY <1>1
  <2>3. IsFiniteSet(start .. end - 1)
        BY <2>2, FS_Interval, Zenon
  <2> HIDE DEF A
  <2> QED BY <2>1, <2>3, FS_Subset
<1> HIDE DEF found
<1>9. CASE found.at = Missing
  <2>1. ~(found.at \in A)
        BY <1>1, <1>8, <1>9 DEF Missing
  <2> HIDE DEF A
  <2>2. A = {}
        BY <1>4, <2>1 DEF IsFirst
  <2>3. Cardinality(A) = 0
        BY <2>2, FS_EmptySet
  <2>4. ~(Cardinality(A) = 1)
        BY <2>3
  <2> QED BY <1>3, <1>7, <1>9, <2>4
<1>10. CASE found.at # Missing
  <2>1. found.at \in Nat /\ start <= found.at /\ found.at < end
        BY <1>6, <1>10 DEF Ranged
  <2> DEFINE k == found.at + 1
  <2> DEFINE B == Accepted(k, end, <<>>)
  <2>2. k \in Nat
        BY <2>1
  <2>3. IsFirst(FindFrom(k, end, <<>>).at, B)
        BY <1>1, <1>2, <2>2, EmptySlots, FindFirst
  <2>4. \A t \in B : t \in Nat
        BY <2>2 DEF Accepted
  <2>5. B = {t \in A : t >= k}
    <3>1. \A t : t \in k .. end - 1 <=> t \in start .. end - 1 /\ t >= k
          BY <1>1, <2>1, <2>2
    <3> QED BY <3>1 DEF Accepted
  <2>6. \A t \in A : t \in Nat
        BY <1>1, <1>8
  <2> HIDE DEF B, A
  <2>7. FindFrom(k, end, <<>>).at = Missing <=> B = {}
    <3>1. B = {} => FindFrom(k, end, <<>>).at = Missing
          BY <2>3 DEF IsFirst
    <3>2. ASSUME FindFrom(k, end, <<>>).at = Missing
          PROVE  B = {}
      <4>1. ~(FindFrom(k, end, <<>>).at \in B)
            BY <2>4, <3>2 DEF Missing
      <4> QED BY <2>3, <4>1 DEF IsFirst
    <3> QED BY <3>1, <3>2
  <2>8. found.at \in Int
        BY <2>1
  <2>9. Cardinality(A) = 1 <=> \A t \in A : ~(t >= k)
        BY <1>4, <1>8, <1>10, <2>6, <2>8, SingleFirst
  <2>10. B = {} <=> \A t \in A : ~(t >= k)
         BY <2>5
  <2> QED BY <1>3, <1>7, <1>10, <2>7, <2>9, <2>10
<1> QED BY <1>9, <1>10

-----------------------------------------------------------------------------
(* Without alternatives there is one way through a program.  A slot that any *)
(* execution writes, a failing one or a distance of a gap that is given up   *)
(* included, is therefore written by every execution that succeeds, and in a *)
(* program that compares nothing it ends with the same value whatever it     *)
(* began with.                                                               *)
Fellow(x, v, w) ==
  x.pc = v.pc /\ Alike(v, w) /\ Len(v.saves) = Len(x.saves) /\ Len(w.saves) = Len(x.saves)

Overwritten(x, X, V, W) ==
  /\ X.ok => X.pc = V.pc
  /\ \A i \in Nat : 1 <= i /\ i <= Len(x.saves) => X.saves[i] = x.saves[i] \/ V.saves[i] = W.saves[i]

CoveringRuns ==
  {run \in LinkedRuns : \A x, v, w \in Branches :
     Fellow(x, v, w) /\ run[v].ok => Overwritten(x, run[x], run[v], run[w])}

(* A program without alternatives.                                           *)
Single(program) == \A i \in 1 .. Len(program) : program[i].op # "case"

(* What a covering call is.                                                  *)
LEMMA CoveringFields ==
  ASSUME NEW run \in CoveringRuns
  PROVE  /\ run \in LinkedRuns /\ run \in Runs
         /\ \A x, v, w \in Branches : Fellow(x, v, w) /\ run[v].ok => Overwritten(x, run[x], run[v], run[w])
BY DEF CoveringRuns, LinkedRuns

(* What is the same in two branches stays the same.                          *)
LEMMA LinkedSame ==
  ASSUME NEW V, NEW W, NEW E, NEW F, Linked(V, W, E, F), NEW i \in Nat, 1 <= i, i <= Len(V.saves), i <= Len(W.saves),
         V.saves[i] = W.saves[i]
  PROVE  E.saves[i] = F.saves[i]
BY DEF Linked

(* Overwritten slots stay overwritten through a call.                        *)
LEMMA CoveredContinue ==
  ASSUME NEW run \in CoveringRuns, NEW x \in Branches, NEW X \in Branches, NEW V \in Branches, NEW W \in Branches,
         Len(X.saves) = Len(x.saves), Len(V.saves) = Len(x.saves), Len(W.saves) = Len(x.saves),
         Alike(V, W), Overwritten(x, X, V, W), run[V].ok
  PROVE  Overwritten(x, Continue(run, X), run[V], run[W])
<1>1. run \in LinkedRuns /\ run \in Runs
      BY CoveringFields
<1>2. Linked(V, W, run[V], run[W])
      BY <1>1 DEF LinkedRuns
<1>3. /\ X.ok => X.pc = V.pc
      /\ \A i \in Nat : 1 <= i /\ i <= Len(x.saves) => X.saves[i] = x.saves[i] \/ V.saves[i] = W.saves[i]
      BY DEF Overwritten
<1>4. \A i \in Nat : 1 <= i /\ i <= Len(x.saves) /\ V.saves[i] = W.saves[i] => run[V].saves[i] = run[W].saves[i]
  <2> SUFFICES ASSUME NEW i \in Nat, 1 <= i, i <= Len(x.saves), V.saves[i] = W.saves[i]
               PROVE  run[V].saves[i] = run[W].saves[i]
      OBVIOUS
  <2>1. i <= Len(V.saves) /\ i <= Len(W.saves)
        OBVIOUS
  <2> QED BY <1>2, <2>1, LinkedSame
<1>5. CASE X.ok
  <2>1. Continue(run, X) = run[X]
        BY <1>5 DEF Continue
  <2>2. Fellow(X, V, W)
        BY <1>3, <1>5 DEF Fellow
  <2>3. Overwritten(X, run[X], run[V], run[W])
        BY <2>2, CoveringFields
  <2>4. /\ run[X].ok => run[X].pc = run[V].pc
        /\ \A i \in Nat : 1 <= i /\ i <= Len(x.saves) => run[X].saves[i] = X.saves[i] \/ run[V].saves[i] = run[W].saves[i]
        BY <2>3 DEF Overwritten
  <2> HIDE DEF Continue
  <2>5. \A i \in Nat : 1 <= i /\ i <= Len(x.saves) => run[X].saves[i] = x.saves[i] \/ run[V].saves[i] = run[W].saves[i]
    <3> SUFFICES ASSUME NEW i \in Nat, 1 <= i, i <= Len(x.saves)
                 PROVE  run[X].saves[i] = x.saves[i] \/ run[V].saves[i] = run[W].saves[i]
        OBVIOUS
    <3>1. X.saves[i] = x.saves[i] \/ V.saves[i] = W.saves[i]
          BY <1>3
    <3>2. V.saves[i] = W.saves[i] => run[V].saves[i] = run[W].saves[i]
          BY <1>4
    <3>3. run[X].saves[i] = X.saves[i] \/ run[V].saves[i] = run[W].saves[i]
          BY <2>4
    <3> QED BY <3>1, <3>2, <3>3, Zenon
  <2> QED BY <2>1, <2>4, <2>5 DEF Overwritten
<1>6. CASE ~X.ok
  <2>1. Continue(run, X) = X
        BY <1>6 DEF Continue
  <2>2. \A i \in Nat : 1 <= i /\ i <= Len(x.saves) => X.saves[i] = x.saves[i] \/ run[V].saves[i] = run[W].saves[i]
        BY <1>3, <1>4
  <2> QED BY <1>6, <2>1, <2>2 DEF Overwritten
<1> QED BY <1>5, <1>6

(* An atom that neither branches nor compares.                               *)
LEMMA SlotsApplied ==
  ASSUME NEW sc \in Scans, NEW x \in Branches, NEW y \in Branches, Alike(x, y),
         NEW atom \in Atoms, atom.op \notin Branching, atom.op \notin Comparing
  PROVE  LET X == Apply(sc, x, atom)  Y == Apply(sc, y, atom) IN
         /\ \A i \in Nat : 1 <= i /\ i <= Len(x.saves) =>
              X.saves[i] = x.saves[i] \/ (atom.op \in Storing /\ i = atom.slot + 1)
         /\ X.ok /\ atom.op \in Storing => \A i \in Nat :
              1 <= i /\ i <= Len(x.saves) /\ i <= Len(y.saves) /\ i = atom.slot + 1 => X.saves[i] = Y.saves[i]
<1> DEFINE X == Apply(sc, x, atom)
<1> DEFINE Y == Apply(sc, y, atom)
<1>2. IF atom.op \in Storing THEN Stores(x, y, X, Y, atom.slot) ELSE Alters(x, y, X, Y)
      BY ApplyEffect
<1> HIDE DEF X, Y
<1>5. PICK r \in Effects :
        /\ X = After(x, r) /\ Y = After(y, r)
        /\ r.stored => atom.op \in Storing /\ r.slot = atom.slot
        /\ atom.op \in Storing /\ r.ok => r.stored
  <2>1. CASE atom.op \in Storing
    <3>1. Stores(x, y, X, Y, atom.slot)
          BY <1>2, <2>1
    <3> QED BY <3>1, <2>1 DEF Stores
  <2>2. CASE atom.op \notin Storing
    <3>1. Alters(x, y, X, Y)
          BY <1>2, <2>2
    <3> QED BY <3>1, <2>2 DEF Alters
  <2> QED BY <2>1, <2>2
<1>6. /\ X.ok = r.ok
      /\ X.saves = IF r.stored THEN Write(x, r.slot, r.value).saves ELSE x.saves
      BY <1>5, AfterFields
<1>7. Y.saves = IF r.stored THEN Write(y, r.slot, r.value).saves ELSE y.saves
      BY <1>5, AfterFields
<1>9. r.value \in Addresses /\ r.slot \in Nat
      BY EffectFields
<1>10. \A i \in Nat : 1 <= i /\ i <= Len(x.saves) =>
         Write(x, r.slot, r.value).saves[i] = IF i = r.slot + 1 THEN r.value ELSE x.saves[i]
       BY <1>9, WriteSlots
<1>11. \A i \in Nat : 1 <= i /\ i <= Len(y.saves) =>
         Write(y, r.slot, r.value).saves[i] = IF i = r.slot + 1 THEN r.value ELSE y.saves[i]
       BY <1>9, WriteSlots
<1>12. ASSUME NEW i \in Nat, 1 <= i, i <= Len(x.saves)
       PROVE  X.saves[i] = x.saves[i] \/ (atom.op \in Storing /\ i = atom.slot + 1)
  <2>1. CASE r.stored
    <3>1. X.saves[i] = IF i = r.slot + 1 THEN r.value ELSE x.saves[i]
          BY <1>6, <1>10, <1>12, <2>1
    <3>2. atom.op \in Storing /\ r.slot = atom.slot
          BY <1>5, <2>1
    <3> QED BY <3>1, <3>2
  <2>2. CASE ~r.stored
        BY <1>6, <2>2
  <2> QED BY <2>1, <2>2
<1>13. ASSUME X.ok, atom.op \in Storing, NEW i \in Nat, 1 <= i, i <= Len(x.saves), i <= Len(y.saves), i = atom.slot + 1
       PROVE  X.saves[i] = Y.saves[i]
  <2>1. r.stored
        BY <1>5, <1>6, <1>13
  <2>2. i = r.slot + 1
        BY <1>5, <1>13, <2>1
  <2>3. X.saves[i] = r.value /\ Y.saves[i] = r.value
        BY <1>6, <1>7, <1>10, <1>11, <1>13, <2>1, <2>2
  <2> QED BY <2>3
<1> QED BY <1>12, <1>13 DEF X, Y

(* Overwriting through an atom, and through a gap.                           *)
LEMMA CoveredApply ==
  ASSUME NEW sc \in Scans, NEW x \in Branches, NEW v \in Branches, NEW w \in Branches, Fellow(x, v, w),
         NEW atom \in Atoms, atom.op \notin Branching, atom.op \notin Comparing, Apply(sc, v, atom).ok
  PROVE  Overwritten(x, Apply(sc, x, atom), Apply(sc, v, atom), Apply(sc, w, atom))
<1> DEFINE X == Apply(sc, x, atom)
<1> DEFINE V == Apply(sc, v, atom)
<1> DEFINE W == Apply(sc, w, atom)
<1>1. x.pc = v.pc /\ Alike(v, w) /\ Len(v.saves) = Len(x.saves) /\ Len(w.saves) = Len(x.saves) /\ Alike(x, x)
      BY DEF Fellow, Alike
<1>2. X.pc = V.pc
      BY <1>1, ApplyType
<1>3. \A i \in Nat : 1 <= i /\ i <= Len(x.saves) =>
        X.saves[i] = x.saves[i] \/ (atom.op \in Storing /\ i = atom.slot + 1)
      BY <1>1, SlotsApplied
<1>4. V.ok /\ atom.op \in Storing => \A i \in Nat :
        1 <= i /\ i <= Len(v.saves) /\ i <= Len(w.saves) /\ i = atom.slot + 1 => V.saves[i] = W.saves[i]
      BY <1>1, SlotsApplied
<1>5. V.ok
      OBVIOUS
<1> HIDE DEF X, V, W
<1>6. ASSUME NEW i \in Nat, 1 <= i, i <= Len(x.saves)
      PROVE  X.saves[i] = x.saves[i] \/ V.saves[i] = W.saves[i]
  <2>1. i <= Len(v.saves) /\ i <= Len(w.saves)
        BY <1>1, <1>6
  <2> QED BY <1>3, <1>4, <1>5, <1>6, <2>1
<1>7. Overwritten(x, X, V, W)
      BY <1>2, <1>6 DEF Overwritten
<1> QED BY <1>7 DEF X, V, W

(* A gap that is crossed is crossed at one distance.                         *)
LEMMA CrossedOnce ==
  ASSUME NEW run \in LinkedRuns, NEW v \in Branches, NEW w \in Branches, Alike(v, w), Len(v.saves) = Len(w.saves),
         NEW extent \in Nat, Retried(run, v, extent).ok
  PROVE  \E b, c \in Branches :
           /\ b.pc = v.pc /\ Alike(b, c) /\ Len(b.saves) = Len(v.saves) /\ Len(c.saves) = Len(v.saves)
           /\ Retried(run, v, extent) = run[b] /\ Retried(run, w, extent) = run[c]
<1>0. run \in Runs /\ \A e, f \in Branches : Alike(e, f) => Linked(e, f, run[e], run[f])
      BY DEF LinkedRuns
<1>1. PICK t : /\ Retried(run, v, extent) = t[extent] /\ t[0] = Fail(v)
               /\ \A n \in 1 .. extent : t[n] = Farther(run, v, t[n - 1], n)
               /\ \A n \in 0 .. extent : t[n] \in Slotted(v)
      BY <1>0, RetriedIs
<1>2. PICK u : /\ Retried(run, w, extent) = u[extent] /\ u[0] = Fail(w)
               /\ \A n \in 1 .. extent : u[n] = Farther(run, w, u[n - 1], n)
               /\ \A n \in 0 .. extent : u[n] \in Slotted(w)
      BY <1>0, RetriedIs
<1> DEFINE Crossed(n) ==
      \E b, c \in Branches :
        /\ b.pc = v.pc /\ Alike(b, c) /\ Len(b.saves) = Len(v.saves) /\ Len(c.saves) = Len(v.saves)
        /\ t[n] = run[b] /\ u[n] = run[c]
<1> DEFINE T == {n \in 0 .. extent : t[n].ok = u[n].ok /\ (t[n].ok => Crossed(n))}
<1>3. 0 \in T
  <2>1. \A z \in Branches : Fail(z).ok = FALSE
        BY FailFields
  <2>2. t[0].ok = FALSE /\ u[0].ok = FALSE
        BY <1>1, <1>2, <2>1, Zenon
  <2>3. 0 \in 0 .. extent
        OBVIOUS
  <2> HIDE DEF Crossed
  <2> QED BY <2>2, <2>3
<1>4. ASSUME NEW n \in 1 .. extent, n - 1 \in T
      PROVE  n \in T
  <2>1. n \in 0 .. extent /\ n - 1 \in 0 .. extent /\ v.cursor \in Nat /\ v.cursor + n - 1 \in Nat
        BY BranchFields
  <2>2. t[n] = Farther(run, v, t[n - 1], n) /\ u[n] = Farther(run, w, u[n - 1], n)
        BY <1>1, <1>2
  <2>3. PICK p \in Branches : p = t[n - 1] /\ Len(p.saves) = Len(v.saves)
        BY <1>1, <2>1 DEF Slotted
  <2>4. PICK q \in Branches : q = u[n - 1] /\ Len(q.saves) = Len(w.saves)
        BY <1>2, <2>1 DEF Slotted
  <2>5. p.ok = q.ok /\ (p.ok => Crossed(n - 1))
        BY <1>4, <2>3, <2>4
  <2>6. CASE p.ok
    <3>1. t[n] = t[n - 1] /\ u[n] = u[n - 1]
          BY <2>2, <2>3, <2>4, <2>5, <2>6 DEF Farther
    <3>2. Crossed(n - 1)
          BY <2>5, <2>6
    <3>3. Crossed(n)
          BY <3>1, <3>2
    <3>4. t[n].ok = u[n].ok
          BY <2>3, <2>4, <2>5, <3>1
    <3> HIDE DEF Crossed
    <3> QED BY <2>1, <3>3, <3>4
  <2>7. CASE ~p.ok
    <3>1. PICK k \in Nat : k = v.cursor + n - 1
          BY <2>1
    <3>2. w.cursor = v.cursor /\ w.pc = v.pc
          BY DEF Alike
    <3>3. p.saves \in Seq(Addresses) /\ q.saves \in Seq(Addresses)
          BY BranchFields
    <3> DEFINE b == Resumed(v, k, p.saves)
    <3> DEFINE c == Resumed(w, k, q.saves)
    <3>4. /\ b \in Branches /\ b.pc = v.pc /\ b.saves = p.saves
          BY <3>3, ResumedFields
    <3>5. /\ c \in Branches /\ c.saves = q.saves
          BY <3>3, ResumedFields
    <3>6. Alike(b, c)
          BY <3>3, AlikeBranches
    <3>7. t[n] = run[b]
          BY <2>2, <2>3, <2>7, <3>1 DEF Farther
    <3>8. u[n] = run[c]
          BY <2>2, <2>4, <2>5, <2>7, <3>1, <3>2 DEF Farther
    <3> HIDE DEF b, c
    <3>9. Crossed(n)
          BY <2>3, <2>4, <3>4, <3>5, <3>6, <3>7, <3>8
    <3>10. t[n].ok = u[n].ok
           BY <1>0, <3>4, <3>5, <3>6, <3>7, <3>8 DEF Linked, Alike
    <3> HIDE DEF Crossed
    <3> QED BY <2>1, <3>9, <3>10
  <2> QED BY <2>6, <2>7
<1> HIDE DEF T
<1>5. extent \in T
  <2>1. \A n \in 0 .. extent : n \in T
        BY <1>3, <1>4, IntervalInduction
  <2> QED BY <2>1
<1>6. t[extent].ok => Crossed(extent)
      BY <1>5 DEF T
<1> QED BY <1>1, <1>2, <1>6

(* Whatever distances were given up, the crossing overwrites what they       *)
(* wrote.                                                                    *)
LEMMA CoveredRetried ==
  ASSUME NEW run \in CoveringRuns, NEW x \in Branches, NEW v \in Branches, NEW w \in Branches, Fellow(x, v, w),
         NEW k \in Nat, NEW extent \in Nat, Retried(run, v, extent).ok
  PROVE  Overwritten(x, Retried(run, x, k), Retried(run, v, extent), Retried(run, w, extent))
<1> DEFINE V == Retried(run, v, extent)
<1> DEFINE W == Retried(run, w, extent)
<1>1. run \in LinkedRuns /\ run \in Runs
      BY CoveringFields
<1>2. x.pc = v.pc /\ Alike(v, w) /\ Len(v.saves) = Len(x.saves) /\ Len(w.saves) = Len(x.saves)
      BY DEF Fellow
<1>3. \E b, c \in Branches :
        /\ b.pc = v.pc /\ Alike(b, c) /\ Len(b.saves) = Len(v.saves) /\ Len(c.saves) = Len(v.saves)
        /\ V = run[b] /\ W = run[c]
      BY <1>1, <1>2, CrossedOnce
<1>4. V.ok
      OBVIOUS
<1> HIDE DEF V, W
<1>5. PICK b \in Branches, c \in Branches :
        /\ b.pc = v.pc /\ Alike(b, c) /\ Len(b.saves) = Len(v.saves) /\ Len(c.saves) = Len(v.saves)
        /\ V = run[b] /\ W = run[c]
      BY <1>3
<1>6. PICK t : /\ Retried(run, x, k) = t[k] /\ t[0] = Fail(x)
               /\ \A n \in 1 .. k : t[n] = Farther(run, x, t[n - 1], n)
               /\ \A n \in 0 .. k : t[n] \in Slotted(x)
      BY <1>1, RetriedIs
<1> DEFINE T == {n \in 0 .. k : Overwritten(x, t[n], V, W)}
<1>7. 0 \in T
  <2>0. \A z \in Branches : Fail(z).ok = FALSE /\ Fail(z).saves = z.saves
        BY FailFields
  <2>1. ~t[0].ok /\ t[0].saves = x.saves
        BY <1>6, <2>0, Zenon
  <2>2. Overwritten(x, t[0], V, W)
        BY <2>1 DEF Overwritten
  <2> QED BY <2>2
<1>8. ASSUME NEW n \in 1 .. k, n - 1 \in T
      PROVE  n \in T
  <2>1. n \in 0 .. k /\ n - 1 \in 0 .. k /\ x.cursor \in Nat /\ x.cursor + n - 1 \in Nat
        BY BranchFields
  <2>2. t[n] = Farther(run, x, t[n - 1], n)
        BY <1>6
  <2>3. PICK p \in Branches : p = t[n - 1] /\ Len(p.saves) = Len(x.saves)
        BY <1>6, <2>1 DEF Slotted
  <2>4. Overwritten(x, p, V, W)
        BY <1>8, <2>3
  <2>5. CASE p.ok
    <3>1. t[n] = p
          BY <2>2, <2>3, <2>5 DEF Farther
    <3> QED BY <2>1, <2>4, <3>1
  <2>6. CASE ~p.ok
    <3>1. PICK m \in Nat : m = x.cursor + n - 1
          BY <2>1
    <3>2. p.saves \in Seq(Addresses)
          BY BranchFields
    <3> DEFINE a == Resumed(x, m, p.saves)
    <3>3. a \in Branches /\ a.pc = x.pc /\ a.saves = p.saves
          BY <3>2, ResumedFields
    <3>4. t[n] = run[a]
          BY <2>2, <2>3, <2>6, <3>1 DEF Farther
    <3> HIDE DEF a
    <3>5. Fellow(a, b, c)
          BY <1>2, <1>5, <2>3, <3>3 DEF Fellow
    <3>6. Overwritten(a, run[a], V, W)
          BY <1>4, <1>5, <3>3, <3>5, CoveringFields
    <3>7. /\ run[a].ok => run[a].pc = V.pc
          /\ \A i \in Nat : 1 <= i /\ i <= Len(x.saves) => run[a].saves[i] = p.saves[i] \/ V.saves[i] = W.saves[i]
          BY <2>3, <3>3, <3>6 DEF Overwritten
    <3>8. \A i \in Nat : 1 <= i /\ i <= Len(x.saves) => p.saves[i] = x.saves[i] \/ V.saves[i] = W.saves[i]
          BY <2>4 DEF Overwritten
    <3>9. \A i \in Nat : 1 <= i /\ i <= Len(x.saves) => run[a].saves[i] = x.saves[i] \/ V.saves[i] = W.saves[i]
      <4> SUFFICES ASSUME NEW i \in Nat, 1 <= i, i <= Len(x.saves)
                   PROVE  run[a].saves[i] = x.saves[i] \/ V.saves[i] = W.saves[i]
          OBVIOUS
      <4>1. run[a].saves[i] = p.saves[i] \/ V.saves[i] = W.saves[i]
            BY <3>7
      <4>2. p.saves[i] = x.saves[i] \/ V.saves[i] = W.saves[i]
            BY <3>8
      <4> QED BY <4>1, <4>2, Zenon
    <3>10. Overwritten(x, t[n], V, W)
           BY <3>4, <3>7, <3>9 DEF Overwritten
    <3> QED BY <2>1, <3>10
  <2> QED BY <2>5, <2>6
<1> HIDE DEF T
<1>9. k \in T
  <2>1. \A n \in 0 .. k : n \in T
        BY <1>7, <1>8, IntervalInduction
  <2> QED BY <2>1
<1>10. Overwritten(x, t[k], V, W)
       BY <1>9 DEF T
<1> QED BY <1>6, <1>10 DEF V, W


(* A call that succeeds was made on a branch that had.                       *)
LEMMA ContinueOk ==
  ASSUME NEW run \in Runs, NEW e \in Branches, Continue(run, e).ok
  PROVE  e.ok /\ Continue(run, e) = run[e]
BY DEF Continue

(* Fellows stay fellows at the next atom.                                    *)
LEMMA FellowStepped ==
  ASSUME NEW x \in Branches, NEW v \in Branches, NEW w \in Branches, Fellow(x, v, w)
  PROVE  /\ Fellow(Stepped(x), Stepped(v), Stepped(w))
         /\ Fellow(Masked(Stepped(x), Bits), Masked(Stepped(v), Bits), Masked(Stepped(w), Bits))
<1>1. x.pc = v.pc /\ Alike(v, w) /\ Len(v.saves) = Len(x.saves) /\ Len(w.saves) = Len(x.saves)
      BY DEF Fellow
<1>2. \A z \in Branches : Stepped(z) \in Branches /\ Stepped(z).pc = z.pc + 1 /\ Stepped(z).saves = z.saves
      BY SteppedFields
<1>3. Alike(Stepped(v), Stepped(w))
      BY <1>1, AlikeBranches
<1>4. Fellow(Stepped(x), Stepped(v), Stepped(w))
      BY <1>1, <1>2, <1>3 DEF Fellow
<1>5. \A z \in Branches : Masked(z, Bits).pc = z.pc /\ Masked(z, Bits).saves = z.saves
      BY MaskedFields, BytesBits
<1>6. Alike(Masked(Stepped(v), Bits), Masked(Stepped(w), Bits))
      BY <1>2, <1>3, AlikeBranches, BytesBits
<1>7. Fellow(Masked(Stepped(x), Bits), Masked(Stepped(v), Bits), Masked(Stepped(w), Bits))
      BY <1>2, <1>4, <1>5, <1>6 DEF Fellow
<1> QED BY <1>4, <1>7

(* A followed cursor is a number.                                            *)
LEMMA MovementNat ==
  ASSUME NEW e \in Branches, NEW atom \in Atoms, atom.op = "push"
  PROVE  e.cursor + Movement(atom.by) \in Nat
<1>1. e.cursor \in Nat /\ atom.by \in Nat /\ PointerBytes \in Nat
      BY AtomFields, BranchFields, PointerAssumption
<1> QED BY <1>1 DEF Movement

(* A followed subpattern, and what is behind it.                             *)
LEMMA CoveredPush ==
  ASSUME NEW run \in CoveringRuns, NEW x \in Branches, NEW v \in Branches, NEW w \in Branches, Fellow(x, v, w),
         NEW c \in Nat, NEW d \in Nat,
         Continue(run, Moved(run[v], c)).ok
  PROVE  Overwritten(x, Continue(run, Moved(run[x], d)), Continue(run, Moved(run[v], c)), Continue(run, Moved(run[w], c)))
<1>1. run \in LinkedRuns /\ run \in Runs
      BY CoveringFields
<1>2. Alike(v, w) /\ Len(v.saves) = Len(x.saves) /\ Len(w.saves) = Len(x.saves)
      BY DEF Fellow
<1>3. PICK X \in Branches : X = run[x] /\ Len(X.saves) = Len(x.saves)
      BY <1>1, RunsFields
<1>4. PICK V \in Branches, W \in Branches : V = run[v] /\ W = run[w] /\ Linked(v, w, V, W)
      BY <1>1, <1>2 DEF LinkedRuns, Runs
<1>5. Alike(V, W) /\ Len(V.saves) = Len(x.saves) /\ Len(W.saves) = Len(x.saves)
      BY <1>2, <1>4, LinkedFields
<1>6. \A z \in Branches, k \in Nat :
        /\ Moved(z, k) \in Branches /\ Moved(z, k).ok = z.ok /\ Moved(z, k).pc = z.pc /\ Moved(z, k).saves = z.saves
      BY MovedFields
<1> DEFINE XX == Moved(X, d)
<1> DEFINE VV == Moved(V, c)
<1> DEFINE WW == Moved(W, c)
<1>7. /\ XX \in Branches /\ XX.ok = X.ok /\ XX.pc = X.pc /\ XX.saves = X.saves
      /\ VV \in Branches /\ VV.ok = V.ok /\ VV.pc = V.pc /\ VV.saves = V.saves
      /\ WW \in Branches /\ WW.ok = W.ok /\ WW.pc = W.pc /\ WW.saves = W.saves
      BY <1>6
<1>8. Alike(VV, WW)
      BY <1>5, AlikeBranches
<1>9. Continue(run, VV).ok
      BY <1>4
<1> HIDE DEF XX, VV, WW
<1>10. VV.ok /\ Continue(run, VV) = run[VV]
       BY <1>1, <1>7, <1>9, ContinueOk
<1>11. WW.ok /\ Continue(run, WW) = run[WW]
       BY <1>8, <1>10 DEF Alike, Continue
<1>12. Overwritten(x, X, V, W)
       BY <1>3, <1>4, <1>7, <1>10, CoveringFields
<1>13. Overwritten(x, XX, VV, WW)
       BY <1>7, <1>12 DEF Overwritten
<1>14. Overwritten(x, Continue(run, XX), run[VV], run[WW])
       BY <1>3, <1>5, <1>7, <1>8, <1>9, <1>10, <1>13, CoveredContinue
<1> QED BY <1>3, <1>4, <1>10, <1>11, <1>14 DEF XX, VV, WW

(* Advance leaves the slots, and goes by the atom.                           *)
LEMMA AdvancePlain ==
  ASSUME NEW sc, NEW by \in Nat
  PROVE  /\ \A z \in Branches : Advance(sc, z, by).saves = z.saves
         /\ \A y, z \in Branches : y.pc = z.pc => Advance(sc, y, by).pc = Advance(sc, z, by).pc
<1>1. \A z \in Branches : Advance(sc, z, by).saves = z.saves
      BY AdvanceFields
<1>2. ASSUME NEW y \in Branches, NEW z \in Branches, y.pc = z.pc
      PROVE  Advance(sc, y, by).pc = Advance(sc, z, by).pc
  <2>1. PICK p : p = y.pc /\ p = z.pc
        BY <1>2
  <2>2. AdvanceFrom(sc, by, p)
        BY AdvanceAt
  <2> QED BY <2>1, <2>2, Zenon DEF AdvanceFrom
<1> QED BY <1>1, <1>2

(* A turn overwrites what any turn at the same atom has written.             *)
LEMMA CoveredTurn ==
  ASSUME NEW sc \in Scans, NEW run \in CoveringRuns, Blind(sc.program), Single(sc.program),
         NEW x \in Branches, NEW v \in Branches, NEW w \in Branches, Fellow(x, v, w), Turn(sc, run, v).ok
  PROVE  Overwritten(x, Turn(sc, run, x), Turn(sc, run, v), Turn(sc, run, w))
<1>0. /\ run \in LinkedRuns /\ run \in Runs
      /\ x.pc = v.pc /\ w.pc = v.pc /\ v.cursor = w.cursor /\ v.mask = w.mask /\ Alike(v, w)
      /\ Len(v.saves) = Len(x.saves) /\ Len(w.saves) = Len(x.saves)
      BY CoveringFields DEF Fellow, Alike
<1>00. \A e \in Branches : e.pc \in Nat /\ e.cursor \in Nat /\ Len(e.saves) \in Nat
       BY BranchFields
<1>1. CASE v.pc >= Len(sc.program)
  <2>1. Turn(sc, run, x) = x
        BY <1>0, <1>1, TurnEnd
  <2>2. Turn(sc, run, v) = v
        BY <1>1, TurnEnd
  <2>3. Overwritten(x, x, v, Turn(sc, run, w))
        BY <1>0 DEF Overwritten
  <2> QED BY <2>1, <2>2, <2>3
<1>2. CASE v.pc < Len(sc.program)
  <2>0. PICK p \in Nat : p = v.pc /\ p < Len(sc.program)
        BY <1>00, <1>2
  <2>1. PICK atom \in Atoms : atom = sc.program[p + 1] /\ atom.op \notin Comparing /\ atom.op # "case"
    <3>1. sc.program[p + 1] \in Atoms /\ p + 1 \in 1 .. Len(sc.program)
          BY <2>0, ProgramAtom, ScanFields
    <3> QED BY <3>1 DEF Blind, Single
  <2>2. PICK a \in Branches, b \in Branches, c \in Branches : a = Stepped(x) /\ b = Stepped(v) /\ c = Stepped(w)
        BY SteppedFields
  <2>3. /\ a.saves = x.saves /\ b.saves = v.saves /\ c.saves = w.saves
        /\ a.pc = x.pc + 1 /\ b.pc = v.pc + 1 /\ c.pc = w.pc + 1
        /\ Fellow(a, b, c)
        BY <2>2, SteppedFields, FellowStepped
  <2>4. \A X, V, W : Overwritten(a, X, V, W) => Overwritten(x, X, V, W)
        BY <2>3 DEF Overwritten
  <2>5. CASE atom.op = "pop"
    <3>1. \A z \in Branches : z.pc = p => Turn(sc, run, z) = Stepped(z)
          BY <2>0, <2>1, <2>5, TurnsPop
    <3>2. Turn(sc, run, x) = a /\ Turn(sc, run, v) = b
          BY <1>0, <2>0, <2>2, <3>1, Zenon
    <3>3. Overwritten(x, a, b, Turn(sc, run, w))
          BY <1>0, <2>3 DEF Overwritten
    <3> QED BY <3>2, <3>3
  <2>6. CASE atom.op = "break"
    <3>1. \A z \in Branches : z.pc = p => Turn(sc, run, z) = Advance(sc, Stepped(z), atom.next)
          BY <2>0, <2>1, <2>6, TurnsBreak
    <3>2. Turn(sc, run, x) = Advance(sc, a, atom.next) /\ Turn(sc, run, v) = Advance(sc, b, atom.next)
          BY <1>0, <2>0, <2>2, <3>1, Zenon
    <3>3. atom.next \in Nat
          BY <2>6, AtomFields
    <3> DEFINE X == Advance(sc, a, atom.next)
    <3> DEFINE V == Advance(sc, b, atom.next)
    <3>4. X.saves = a.saves
          BY <3>3, AdvancePlain
    <3>5. a.pc = b.pc => X.pc = V.pc
          BY <3>3, AdvancePlain
    <3> HIDE DEF X, V
    <3>6. a.pc = b.pc
          BY <1>0, <2>3
    <3>7. X.pc = V.pc
          BY <3>5, <3>6
    <3>8. Overwritten(x, X, V, Turn(sc, run, w))
          BY <2>3, <3>4, <3>7 DEF Overwritten
    <3> QED BY <3>2, <3>8 DEF X, V
  <2>7. CASE atom.op = "many"
    <3>1. \A z \in Branches : z.pc = p => Turn(sc, run, z) = Retried(run, Stepped(z), Extent(sc, Stepped(z), atom.limit))
          BY <2>0, <2>1, <2>7, TurnsMany
    <3>2. atom.limit \in Nat
          BY <2>7, AtomFields
    <3>3. PICK k \in Nat : k = Extent(sc, a, atom.limit)
          BY <3>2, ExtentType
    <3>4. PICK n \in Nat : n = Extent(sc, b, atom.limit)
          BY <3>2, ExtentType
    <3>5. n = Extent(sc, c, atom.limit)
      <4>1. b.cursor = c.cursor
            BY <2>3 DEF Fellow, Alike
      <4> QED BY <3>4, <4>1, Zenon DEF Extent
    <3>6. Turn(sc, run, x) = Retried(run, a, k)
          BY <1>0, <2>0, <2>2, <3>1, <3>3, Zenon
    <3>7. Turn(sc, run, v) = Retried(run, b, n)
          BY <2>0, <2>2, <3>1, <3>4, Zenon
    <3>8. Turn(sc, run, w) = Retried(run, c, n)
          BY <1>0, <2>0, <2>2, <3>1, <3>5, Zenon
    <3>9. Retried(run, b, n).ok
          BY <3>7
    <3>10. Overwritten(a, Retried(run, a, k), Retried(run, b, n), Retried(run, c, n))
           BY <2>3, <3>9, CoveredRetried
    <3> QED BY <2>4, <3>6, <3>7, <3>8, <3>10, Zenon
  <2>8. CASE atom.op = "push"
    <3>1. \A z \in Branches : z.pc = p =>
            Turn(sc, run, z) = Continue(run, Moved(run[Masked(Stepped(z), Bits)], z.cursor + Movement(atom.by)))
          BY <2>0, <2>1, <2>8, TurnsPush
    <3>2. PICK d \in Nat, e \in Nat : d = x.cursor + Movement(atom.by) /\ e = v.cursor + Movement(atom.by)
          BY <2>8, MovementNat
    <3>3. e = w.cursor + Movement(atom.by)
          BY <1>0, <3>2, Zenon
    <3>4. PICK aa \in Branches, bb \in Branches, cc \in Branches :
            aa = Masked(a, Bits) /\ bb = Masked(b, Bits) /\ cc = Masked(c, Bits) /\ aa.saves = a.saves
          BY MaskedFields, BytesBits
    <3>5. Fellow(aa, bb, cc)
          BY <2>2, <3>4, FellowStepped
    <3>6. Turn(sc, run, x) = Continue(run, Moved(run[aa], d))
          BY <1>0, <2>0, <2>2, <3>1, <3>2, <3>4, Zenon
    <3>7. Turn(sc, run, v) = Continue(run, Moved(run[bb], e))
          BY <2>0, <2>2, <3>1, <3>2, <3>4, Zenon
    <3>8. Turn(sc, run, w) = Continue(run, Moved(run[cc], e))
          BY <1>0, <2>0, <2>2, <3>1, <3>3, <3>4, Zenon
    <3>9. Continue(run, Moved(run[bb], e)).ok
          BY <3>7
    <3>10. Overwritten(aa, Continue(run, Moved(run[aa], d)), Continue(run, Moved(run[bb], e)), Continue(run, Moved(run[cc], e)))
           BY <3>5, <3>9, CoveredPush
    <3>11. \A X, V, W : Overwritten(aa, X, V, W) => Overwritten(a, X, V, W)
           BY <3>4 DEF Overwritten
    <3> QED BY <2>4, <3>6, <3>7, <3>8, <3>10, <3>11, Zenon
  <2>9. CASE atom.op \notin Branching
    <3>1. \A z \in Branches : z.pc = p => Turn(sc, run, z) = Continue(run, Apply(sc, Stepped(z), atom))
          BY <2>0, <2>1, <2>9, TurnsApply
    <3> DEFINE X == Apply(sc, a, atom)
    <3> DEFINE V == Apply(sc, b, atom)
    <3> DEFINE W == Apply(sc, c, atom)
    <3>2. Turn(sc, run, x) = Continue(run, X)
          BY <1>0, <2>0, <2>2, <3>1, Zenon
    <3>3. Turn(sc, run, v) = Continue(run, V)
          BY <2>0, <2>2, <3>1, Zenon
    <3>4. Turn(sc, run, w) = Continue(run, W)
          BY <1>0, <2>0, <2>2, <3>1, Zenon
    <3>5. /\ X \in Branches /\ V \in Branches /\ W \in Branches
          /\ Len(X.saves) = Len(a.saves) /\ Len(V.saves) = Len(b.saves) /\ Len(W.saves) = Len(c.saves)
          BY <2>9, ApplyType
    <3>6. Alike(b, c)
          BY <2>3 DEF Fellow
    <3>7. Alike(V, W)
          BY <2>1, <2>9, <3>6, LinkedApply, LinkedFields
    <3>8. Continue(run, V).ok
          BY <3>3
    <3>9. V.ok /\ Continue(run, V) = run[V]
          BY <1>0, <3>5, <3>8, ContinueOk
    <3>10. Overwritten(a, X, V, W)
           BY <2>1, <2>3, <2>9, <3>9, CoveredApply
    <3> HIDE DEF X, V, W
    <3>11. Continue(run, W) = run[W]
           BY <3>7, <3>9 DEF Alike, Continue
    <3>12. Overwritten(x, X, V, W)
           BY <2>4, <3>10
    <3>13. Len(X.saves) = Len(x.saves) /\ Len(V.saves) = Len(x.saves) /\ Len(W.saves) = Len(x.saves)
           BY <1>0, <2>3, <3>5
    <3>14. run[V].ok
           BY <3>8, <3>9
    <3>15. Overwritten(x, Continue(run, X), run[V], run[W])
           BY <3>5, <3>7, <3>12, <3>13, <3>14, CoveredContinue
    <3> QED BY <3>2, <3>3, <3>4, <3>9, <3>11, <3>15
  <2> QED BY <2>1, <2>5, <2>6, <2>7, <2>8, <2>9 DEF Branching
<1>3. Len(sc.program) \in Nat /\ v.pc \in Nat
      BY <1>00, ScanFields
<1> QED BY <1>1, <1>2, <1>3

(* So do all the calls of a run.                                             *)
LEMMA RunCovering ==
  ASSUME NEW sc \in Scans, Blind(sc.program), Single(sc.program)
  PROVE  \A n \in 0 .. Len(sc.program) : Run(sc)[n] \in CoveringRuns
<1>0. PICK N \in Nat : N = Len(sc.program)
      BY ScanFields
<1> DEFINE T == {n \in 0 .. N : Run(sc)[n] \in CoveringRuns}
<1>1. 0 \in T
  <2>1. Run(sc)[0] \in LinkedRuns /\ \A e \in Branches : Run(sc)[0][e] = e
        BY <1>0, RunIs, RunLinked
  <2>2. ASSUME NEW x \in Branches, NEW v \in Branches, NEW w \in Branches, Fellow(x, v, w)
        PROVE  Overwritten(x, Run(sc)[0][x], Run(sc)[0][v], Run(sc)[0][w])
    <3>1. Run(sc)[0][x] = x /\ Run(sc)[0][v] = v
          BY <2>1
    <3> QED BY <2>2, <3>1 DEF Fellow, Overwritten
  <2> QED BY <2>1, <2>2 DEF CoveringRuns
<1>2. ASSUME NEW n \in 1 .. N, n - 1 \in T
      PROVE  n \in T
  <2>1. Run(sc)[n - 1] \in CoveringRuns
        BY <1>2
  <2>2. Run(sc)[n] \in LinkedRuns /\ \A e \in Branches : Run(sc)[n][e] = Turn(sc, Run(sc)[n - 1], e)
        BY <1>0, RunIs, RunLinked
  <2>3. ASSUME NEW x \in Branches, NEW v \in Branches, NEW w \in Branches, Fellow(x, v, w), Run(sc)[n][v].ok
        PROVE  Overwritten(x, Run(sc)[n][x], Run(sc)[n][v], Run(sc)[n][w])
    <3>1. Turn(sc, Run(sc)[n - 1], v).ok
          BY <2>2, <2>3
    <3>2. Overwritten(x, Turn(sc, Run(sc)[n - 1], x), Turn(sc, Run(sc)[n - 1], v), Turn(sc, Run(sc)[n - 1], w))
          BY <2>1, <2>3, <3>1, CoveredTurn
    <3> QED BY <2>2, <3>2
  <2> QED BY <2>2, <2>3 DEF CoveringRuns
<1> HIDE DEF T
<1>3. \A n \in 0 .. N : n \in T
      BY <1>1, <1>2, IntervalInduction
<1> QED BY <1>0, <1>3 DEF T

(* A slot that an execution writes is overwritten by every successful one.   *)
LEMMA ExecCovers ==
  ASSUME NEW sc \in Scans, Blind(sc.program), Single(sc.program), NEW k \in Nat, NEW start \in Nat,
         NEW c \in Seq(Addresses), NEW s \in Seq(Addresses), NEW r \in Seq(Addresses),
         Len(s) = Len(c), Len(r) = Len(c), Exec(sc, start, s).ok
  PROVE  \A i \in Nat : 1 <= i /\ i <= Len(c) =>
           Exec(sc, k, c).saves[i] = c[i] \/ Exec(sc, start, s).saves[i] = Exec(sc, start, r).saves[i]
<1> DEFINE x == Entry(k, c)
<1> DEFINE v == Entry(start, s)
<1> DEFINE w == Entry(start, r)
<1> DEFINE N == Len(sc.program)
<1>1. N \in Nat /\ N \in 0 .. N /\ Len(sc.image) \in Nat
      BY ScanFields
<1>2. /\ x \in Branches /\ x.pc = 0 /\ x.saves = c
      BY EntryFields
<1>3. /\ v \in Branches /\ v.ok = TRUE /\ v.pc = 0 /\ v.cursor = start /\ v.saves = s /\ v.mask = Bits
      BY EntryFields
<1>4. /\ w \in Branches /\ w.ok = TRUE /\ w.pc = 0 /\ w.cursor = start /\ w.saves = r /\ w.mask = Bits
      BY EntryFields
<1>5. /\ Exec(sc, k, c) = IF k > Len(sc.image) THEN Fail(x) ELSE Run(sc)[N][x]
      /\ Exec(sc, start, s) = IF start > Len(sc.image) THEN Fail(v) ELSE Run(sc)[N][v]
      /\ Exec(sc, start, r) = IF start > Len(sc.image) THEN Fail(w) ELSE Run(sc)[N][w]
      BY ExecIs
<1> HIDE DEF x, v, w
<1>6. Fellow(x, v, w)
      BY <1>2, <1>3, <1>4 DEF Fellow, Alike
<1>7. ~(start > Len(sc.image))
  <2>1. Fail(v).ok = FALSE
        BY <1>3, FailFields
  <2> QED BY <1>5, <2>1
<1>8. Run(sc)[N] \in CoveringRuns
      BY <1>1, RunCovering
<1>9. Exec(sc, start, s) = Run(sc)[N][v] /\ Exec(sc, start, r) = Run(sc)[N][w]
      BY <1>5, <1>7
<1>10. CASE k > Len(sc.image)
  <2>1. Exec(sc, k, c).saves = c
        BY <1>2, <1>5, <1>10, FailFields
  <2> QED BY <2>1
<1>11. CASE ~(k > Len(sc.image))
  <2>1. Exec(sc, k, c) = Run(sc)[N][x]
        BY <1>5, <1>11
  <2>2. Overwritten(x, Run(sc)[N][x], Run(sc)[N][v], Run(sc)[N][w])
        BY <1>2, <1>3, <1>4, <1>6, <1>8, <1>9, CoveringFields
  <2> QED BY <1>2, <1>9, <2>1, <2>2 DEF Overwritten
<1> QED BY <1>10, <1>11

-----------------------------------------------------------------------------
(* The slots of such a program: each is untouched, or overwritten by every   *)
(* execution that succeeds.                                                  *)
Covered(i, len) ==
  \A start \in Nat, s, r \in Seq(Addresses) :
    Len(s) = len /\ Len(r) = len /\ Exec(scan, start, s).ok =>
      Exec(scan, start, s).saves[i] = Exec(scan, start, r).saves[i]

Clean(c) == \A i \in Nat : 1 <= i /\ i <= Len(c) => c[i] = 0 \/ Covered(i, Len(c))

Repeatable == Blind(scan.program) /\ Single(scan.program)

(* An execution leaves clean slots clean.                                    *)
LEMMA ExecClean ==
  ASSUME scan \in Scans, Repeatable, NEW k \in Nat, NEW c \in Seq(Addresses), Clean(c)
  PROVE  Clean(Exec(scan, k, c).saves)
<1> DEFINE d == Exec(scan, k, c).saves
<1>1. d \in Seq(Addresses) /\ Len(d) = Len(c)
      BY ExecType
<1>2. ASSUME NEW i \in Nat, 1 <= i, i <= Len(c), d[i] # c[i]
      PROVE  Covered(i, Len(c))
  <2> SUFFICES ASSUME NEW start \in Nat, NEW s \in Seq(Addresses), NEW r \in Seq(Addresses),
                      Len(s) = Len(c), Len(r) = Len(c), Exec(scan, start, s).ok
               PROVE  Exec(scan, start, s).saves[i] = Exec(scan, start, r).saves[i]
      BY DEF Covered
  <2>1. \A j \in Nat : 1 <= j /\ j <= Len(c) =>
          d[j] = c[j] \/ Exec(scan, start, s).saves[j] = Exec(scan, start, r).saves[j]
        BY ExecCovers DEF Repeatable
  <2> HIDE DEF d
  <2> QED BY <1>2, <2>1
<1> HIDE DEF d
<1>3. ASSUME NEW i \in Nat, 1 <= i, i <= Len(d)
      PROVE  d[i] = 0 \/ Covered(i, Len(d))
  <2>1. i <= Len(c)
        BY <1>1, <1>3
  <2>2. c[i] = 0 \/ Covered(i, Len(c))
        BY <1>3, <2>1 DEF Clean
  <2>3. d[i] = c[i] \/ Covered(i, Len(c))
        BY <1>2, <1>3, <2>1
  <2> QED BY <1>1, <2>2, <2>3
<1>4. Clean(d)
      BY <1>3 DEF Clean
<1> QED BY <1>4 DEF d

(* What a search leaves is clean, and with a match it is what the match      *)
(* makes of clean slots.                                                     *)
Cleanly(found, c) ==
  /\ Clean(found.saves)
  /\ found.at # Missing => \E d \in Seq(Addresses) :
       Len(d) = Len(c) /\ Clean(d) /\ Exec(scan, found.at, d).ok /\ found.saves = Exec(scan, found.at, d).saves

(* A search from a later start.                                              *)
LEMMA CleanlyLater ==
  ASSUME NEW c, NEW d, Len(d) = Len(c), NEW found, Cleanly(found, d)
  PROVE  Cleanly(found, c)
BY DEF Cleanly

(* A search leaves clean slots clean.                                        *)
LEMMA SearchClean ==
  ASSUME scan \in Scans, Repeatable, NEW end \in Nat, NEW cands \in Discoveries(end),
         NEW next \in Nat, NEW c \in Seq(Addresses), Clean(c)
  PROVE  Cleanly(Search(cands, end, next, c), c)
<1> DEFINE T == {k \in Nat : \A d \in Seq(Addresses) : Clean(d) => Cleanly(Search(cands, end, k, d), d)}
<1>1. ASSUME NEW k \in Nat, \A j \in Nat : j > k /\ j <= end => j \in T
      PROVE  k \in T
  <2> SUFFICES ASSUME NEW d \in Seq(Addresses), Clean(d)
               PROVE  Cleanly(Search(cands, end, k, d), d)
      OBVIOUS
  <2>1. /\ k >= end \/ cands[k] = Missing => Search(cands, end, k, d) = NotFound(d)
        /\ ~(k >= end \/ cands[k] = Missing) =>
             /\ Exec(scan, cands[k], d).ok =>
                  Search(cands, end, k, d) = [at |-> cands[k], saves |-> Exec(scan, cands[k], d).saves]
             /\ ~Exec(scan, cands[k], d).ok =>
                  Search(cands, end, k, d) = Search(cands, end, cands[k] + 1, Exec(scan, cands[k], d).saves)
        BY SearchSteps
  <2>2. CASE k >= end \/ cands[k] = Missing
    <3>1. Search(cands, end, k, d) = NotFound(d)
          BY <2>1, <2>2
    <3>2. Cleanly(NotFound(d), d)
          BY DEF NotFound, Cleanly
    <3> QED BY <3>1, <3>2
  <2>3. CASE ~(k >= end \/ cands[k] = Missing)
    <3> DEFINE at == cands[k]
    <3> DEFINE s == Exec(scan, at, d).saves
    <3>1. at \in Nat /\ k <= at /\ at < end
      <4>1. k \in 0 .. end - 1
            BY <2>3
      <4>2. at = Missing \/ (k <= at /\ at < end)
            BY <4>1 DEF Discoveries
      <4>3. at \in Int
            BY <4>1 DEF Discoveries
      <4> HIDE DEF at
      <4> QED BY <2>3, <4>2, <4>3 DEF at
    <3> HIDE DEF at
    <3>2. s \in Seq(Addresses) /\ Len(s) = Len(d) /\ Exec(scan, at, d).ok \in BOOLEAN
          BY <3>1, ExecType
    <3>3. Clean(s)
          BY <3>1, ExecClean
    <3>4. CASE Exec(scan, at, d).ok
      <4>1. Search(cands, end, k, d) = [at |-> at, saves |-> s]
            BY <2>1, <2>3, <3>4 DEF at
      <4>2. Cleanly([at |-> at, saves |-> s], d)
        <5>1. \E e \in Seq(Addresses) :
                Len(e) = Len(d) /\ Clean(e) /\ Exec(scan, at, e).ok /\ s = Exec(scan, at, e).saves
              BY <3>4
        <5> HIDE DEF s
        <5> QED BY <3>3, <5>1 DEF Cleanly
      <4> QED BY <4>1, <4>2
    <3>5. CASE ~Exec(scan, at, d).ok
      <4>1. Search(cands, end, k, d) = Search(cands, end, at + 1, s)
            BY <2>1, <2>3, <3>5 DEF at
      <4>2. at + 1 \in Nat /\ at + 1 > k /\ at + 1 <= end
            BY <3>1
      <4>3. at + 1 \in T
            BY <1>1, <4>2
      <4>4. Cleanly(Search(cands, end, at + 1, s), s)
            BY <3>2, <3>3, <4>3
      <4>5. Cleanly(Search(cands, end, at + 1, s), d)
            BY <3>2, <4>4, CleanlyLater
      <4> QED BY <4>1, <4>5
    <3> QED BY <3>4, <3>5
  <2> QED BY <2>2, <2>3
<1> HIDE DEF T
<1>2. \A k \in Nat : (\A j \in Nat : j > k /\ j <= end => j \in T) => k \in T
      BY <1>1
<1>3. next \in T
      BY <1>2, DownInduction
<1> QED BY <1>3 DEF T

(* Slots equal at each index are equal.                                      *)
LEMMA EqualSlots ==
  ASSUME NEW c \in Seq(Addresses), NEW d \in Seq(Addresses), Len(c) = Len(d),
         \A i \in Nat : 1 <= i /\ i <= Len(c) => c[i] = d[i]
  PROVE  c = d
OBVIOUS

(* An execution that succeeds on clean slots ends as it does on fresh ones.  *)
LEMMA CleanIsFresh ==
  ASSUME scan \in Scans, Repeatable, NEW start \in Nat, NEW c \in Seq(Addresses), Clean(c),
         NEW z \in Seq(Addresses), Len(z) = Len(c), \A i \in Nat : 1 <= i /\ i <= Len(c) => z[i] = 0,
         Exec(scan, start, c).ok
  PROVE  Exec(scan, start, c).saves = Exec(scan, start, z).saves
<1> DEFINE E == Exec(scan, start, c)
<1> DEFINE F == Exec(scan, start, z)
<1>1. /\ E.saves \in Seq(Addresses) /\ Len(E.saves) = Len(c)
      /\ F.saves \in Seq(Addresses) /\ Len(F.saves) = Len(z)
      BY ExecType
<1>2. Entry(start, c).saves = c /\ Entry(start, z).saves = z
      BY EntryFields
<1>3. Linked(Entry(start, c), Entry(start, z), E, F)
      BY ExecLinked DEF Repeatable
<1>4. \A i \in Nat : 1 <= i /\ i <= Len(c) /\ i <= Len(z) =>
        E.saves[i] = F.saves[i] \/ (E.saves[i] = c[i] /\ F.saves[i] = z[i])
      BY <1>2, <1>3 DEF Linked
<1>5. ASSUME NEW i \in Nat, 1 <= i, i <= Len(c)
      PROVE  E.saves[i] = F.saves[i]
  <2>1. c[i] = 0 \/ Covered(i, Len(c))
        BY <1>5 DEF Clean
  <2>2. Covered(i, Len(c)) => E.saves[i] = F.saves[i]
        BY DEF Covered
  <2> HIDE DEF E, F
  <2>3. z[i] = 0 /\ i <= Len(z)
        BY <1>5
  <2>4. E.saves[i] = F.saves[i] \/ (E.saves[i] = c[i] /\ F.saves[i] = z[i])
        BY <1>4, <1>5, <2>3
  <2> QED BY <2>1, <2>2, <2>3, <2>4
<1> HIDE DEF E, F
<1>6. E.saves = F.saves
      BY <1>1, <1>5, EqualSlots
<1> QED BY <1>6 DEF E, F

(* Repeatable is read off the program.                                       *)
LEMMA RepeatableIs ==
  ASSUME MadeScanner, image \in Images
  PROVE  ~Compares /\ ~Alternates <=> Repeatable
<1>1. scan.program = scanner.program /\ DOMAIN scanner.program = 1 .. Len(scanner.program)
      BY ScanIs
<1>2. ~Alternates <=> Single(scan.program)
      BY <1>1 DEF Alternates, Single
<1> QED BY <1>2, BlindIs DEF Repeatable

(* CapturesAreTheMatchs, of a scanner that was made and slots that are       *)
(* clean.                                                                    *)
LEMMA CapturesDecide ==
  ASSUME MadeScanner, image \in Images, saves \in Seq(Addresses), Repeatable => Clean(saves)
  PROVE  CapturesAreTheMatchs
<1> SUFFICES ASSUME ~Compares, ~Alternates, NEW range \in Bounds,
                    FindFrom(range[1], range[2], saves).at # Missing
             PROVE  Finds(range[1], range[2], saves).saves
                      = Exec(scan, FindFrom(range[1], range[2], saves).at, [i \in DOMAIN saves |-> 0]).saves
    BY DEF CapturesAreTheMatchs
<1> DEFINE start == range[1]
<1> DEFINE end == range[2]
<1> DEFINE found == FindFrom(start, end, saves)
<1> DEFINE z == [i \in DOMAIN saves |-> 0]
<1>1. start \in Nat /\ end \in Nat /\ end <= Len(image)
      BY BoundsFields
<1>2. Repeatable /\ Clean(saves)
      BY RepeatableIs
<1>3. scan \in Scans /\ Filter(end) \in Discoveries(end) /\ found = Search(Filter(end), end, start, saves)
      BY <1>1, ScanIs, FilterFields
<1>4. Ranged(found, start, end, saves) /\ Cleanly(found, saves)
      BY <1>1, <1>2, <1>3, SearchRanged, SearchClean
<1>5. Finds(start, end, saves).saves = found.saves
      BY DEF Finds, Unique
<1>6. found.at # Missing
      OBVIOUS
<1> HIDE DEF found
<1>7. found.at \in Nat
      BY <1>4, <1>6 DEF Ranged
<1>8. PICK d \in Seq(Addresses) :
        Len(d) = Len(saves) /\ Clean(d) /\ Exec(scan, found.at, d).ok /\ found.saves = Exec(scan, found.at, d).saves
      BY <1>4, <1>6 DEF Cleanly
<1>9. z \in Seq(Addresses) /\ Len(z) = Len(saves) /\ \A i \in Nat : 1 <= i /\ i <= Len(saves) => z[i] = 0
  <2>1. DOMAIN saves = 1 .. Len(saves) /\ Len(saves) \in Nat
        BY SequenceFields
  <2>2. 0 \in Addresses
        BY SomeAddress
  <2> QED BY <2>1, <2>2
<1> HIDE DEF z
<1>10. \A i \in Nat : 1 <= i /\ i <= Len(d) => z[i] = 0
       BY <1>8, <1>9
<1>11. Len(z) = Len(d)
       BY <1>8, <1>9
<1>12. Exec(scan, found.at, d).saves = Exec(scan, found.at, z).saves
       BY <1>2, <1>3, <1>7, <1>8, <1>9, <1>10, <1>11, CleanIsFresh
<1> QED BY <1>5, <1>8, <1>12 DEF found, z

-----------------------------------------------------------------------------
(* The inductive invariant.  The scanner is one the constructors make, the   *)
(* slots are clean, and the iterator has yielded what lies between where it  *)
(* began and where it goes on; nothing is left when it is over.              *)
SlotsInv ==
  /\ MadeScanner
  /\ image \in Images
  /\ saves \in Seq(Addresses)
  /\ Repeatable => Clean(saves)

Iterators == [begin : Nat, next : Nat, end : Nat, yielded : SUBSET Int, over : BOOLEAN]

IteratorType ==
  /\ matches \in Iterators
  /\ matches.begin <= matches.next
  /\ matches.end <= Len(image)
  /\ matches.yielded \subseteq 0 .. Len(image) - 1

IteratorInv ==
  Steady(saves) =>
    /\ matches.yielded = Accepted(matches.begin, Min({matches.next, matches.end}), <<>>)
    /\ matches.over => Accepted(matches.next, matches.end, <<>>) = {}

IInv == SlotsInv /\ IteratorType /\ IteratorInv

(* What an iterator consists of.                                             *)
LEMMA IteratorFields ==
  ASSUME NEW m \in Iterators
  PROVE  /\ m.begin \in Nat /\ m.next \in Nat /\ m.end \in Nat /\ m.yielded \subseteq Int /\ m.over \in BOOLEAN
BY DEF Iterators

(* The end of a range, cut at the end of the image.                          *)
LEMMA RangeEnd ==
  ASSUME NEW e \in Nat, NEW len \in Nat
  PROVE  Min({e, len}) \in Nat /\ Min({e, len}) <= len /\ Min({e, len}) <= e
<1>1. Min({e, len}) = IF e <= len THEN e ELSE len
      BY MinOfTwo
<1> QED BY <1>1

LEMMA RangeFields ==
  ASSUME MadeScanner, image \in Images, NEW range \in Ranges[image]
  PROVE  range[1] \in Nat /\ Min({range[2], Len(image)}) \in Nat /\ Min({range[2], Len(image)}) <= Len(image)
<1>1. range[1] \in Nat /\ range[2] \in Nat
      BY RangesAssumption
<1>2. Len(image) \in Nat
      BY ScanIs
<1> QED BY <1>1, <1>2, RangeEnd

(* What a search leaves of the slots.                                        *)
LEMMA SearchLeaves ==
  ASSUME SlotsInv, NEW next \in Nat, NEW end \in Nat, end <= Len(image)
  PROVE  LET found == FindFrom(next, end, saves) IN
         Ranged(found, next, end, saves) /\ (Repeatable => Clean(found.saves))
<1> DEFINE found == FindFrom(next, end, saves)
<1>1. MadeScanner /\ image \in Images /\ saves \in Seq(Addresses) /\ (Repeatable => Clean(saves))
      BY DEF SlotsInv
<1>2. scan \in Scans /\ Filter(end) \in Discoveries(end) /\ found = Search(Filter(end), end, next, saves)
      BY <1>1, ScanIs, FilterFields
<1>3. Ranged(found, next, end, saves)
      BY <1>1, <1>2, SearchRanged
<1>4. Repeatable => Cleanly(found, saves)
      BY <1>1, <1>2, SearchClean
<1> HIDE DEF found
<1>5. Repeatable => Clean(found.saves)
      BY <1>4 DEF Cleanly
<1> QED BY <1>3, <1>5 DEF found

(* Steps that leave the scanner and its image.                                  *)
LEMMA SlotsStep ==
  ASSUME SlotsInv, UNCHANGED <<scanner, image>>, saves' \in Seq(Addresses), Len(saves') = Len(saves),
         NEW c, c = saves', Repeatable => Clean(c)
  PROVE  SlotsInv' /\ (Steady(saves)' => Steady(saves))
<1>1. scan' = scan
      BY DEF scan
<1>2. MadeScanner'
      BY DEF SlotsInv, MadeScanner
<1>3. Repeatable' => Repeatable
      BY <1>1 DEF Repeatable
<1>4. Clean(c) => Clean(saves)'
      BY <1>1 DEF Clean, Covered
<1>5. Steady(saves)' => Steady(saves)
  <2>1. Compares' <=> Compares
        BY DEF Compares
  <2>2. saves' = <<>> => saves = <<>>
        BY NoSlots DEF SlotsInv
  <2> QED BY <2>1, <2>2 DEF Steady
<1> QED BY <1>2, <1>3, <1>4, <1>5 DEF SlotsInv

LEMMA IteratorStep ==
  ASSUME IteratorType, IteratorInv, UNCHANGED <<scanner, image, matches>>, Steady(saves)' => Steady(saves)
  PROVE  IteratorType' /\ IteratorInv'
<1>1. scan' = scan
      BY DEF scan
<1>2. IteratorType'
      BY DEF IteratorType
<1>3. \A b, e : Accepted(b, e, <<>>)' = Accepted(b, e, <<>>)
      BY <1>1 DEF Accepted
<1>4. IteratorInv'
      BY <1>1 DEF IteratorInv, Accepted
<1> QED BY <1>2, <1>4

(* The invariant holds of a new scanner: its slots are zero.                 *)
LEMMA InitIInv ==
  ASSUME Init
  PROVE  IInv
<1>1. MadeScanner /\ image \in Images
      BY DEF Init, MadeScanner
<1>2. PICK slots \in 0 .. SaveLen(scanner.program) : saves = [i \in 1 .. slots |-> 0]
      BY DEF Init
<1>3. slots \in Nat
      OBVIOUS
<1>4. 0 \in Addresses
      BY SomeAddress
<1>5. saves \in Seq(Addresses) /\ \A i \in Nat : 1 <= i /\ i <= Len(saves) => saves[i] = 0
      BY <1>2, <1>3, <1>4
<1>6. Clean(saves)
      BY <1>5 DEF Clean
<1>7. matches = [begin |-> 0, next |-> 0, end |-> 0, yielded |-> {}, over |-> FALSE]
      BY DEF Init, NoMatches
<1>8. Len(image) \in Nat
      BY <1>1, ScanIs
<1>9. IteratorType
      BY <1>7, <1>8 DEF IteratorType, Iterators
<1>10. IteratorInv
  <2>1. Min({0, 0}) = 0
        BY MinOfTwo
  <2>2. Accepted(0, 0, <<>>) = {}
        BY DEF Accepted
  <2>3. matches.begin = 0 /\ matches.next = 0 /\ matches.end = 0 /\ matches.yielded = {} /\ ~matches.over
        BY <1>7
  <2> QED BY <2>1, <2>2, <2>3 DEF IteratorInv
<1> QED BY <1>1, <1>5, <1>6, <1>9, <1>10 DEF IInv, SlotsInv

(* A step that changes the slots alone.                                      *)
LEMMA KeptIterator ==
  ASSUME IInv, UNCHANGED <<scanner, image, matches>>, NEW c \in Seq(Addresses), saves' = c,
         Len(c) = Len(saves), Repeatable => Clean(c)
  PROVE  IInv'
<1>1. SlotsInv' /\ (Steady(saves)' => Steady(saves))
      BY SlotsStep DEF IInv
<1>2. IteratorType' /\ IteratorInv'
      BY <1>1, IteratorStep DEF IInv
<1> QED BY <1>1, <1>2 DEF IInv

(* exec preserves the invariant.                                             *)
LEMMA ExecuteStep ==
  ASSUME IInv, NEW start \in 0 .. Len(image) + 1, Execute(start)
  PROVE  IInv'
<1>1. MadeScanner /\ image \in Images /\ saves \in Seq(Addresses) /\ (Repeatable => Clean(saves))
      BY DEF IInv, SlotsInv
<1>2. scan \in Scans /\ start \in Nat
      BY <1>1, ScanIs
<1> DEFINE c == Exec(scan, start, saves).saves
<1>3. c \in Seq(Addresses) /\ Len(c) = Len(saves)
      BY <1>1, <1>2, ExecType
<1>4. Repeatable => Clean(c)
      BY <1>1, <1>2, ExecClean
<1>5. saves' = c /\ UNCHANGED <<scanner, image, matches>>
      BY DEF Execute
<1> HIDE DEF c
<1> QED BY <1>3, <1>4, <1>5, KeptIterator

(* A search of a range, whether or not it is for a single match.             *)
LEMMA SearchStep ==
  ASSUME IInv, NEW next \in Nat, NEW end \in Nat, end <= Len(image),
         saves' = FindFrom(next, end, saves).saves, UNCHANGED <<scanner, image, matches>>
  PROVE  IInv'
<1> DEFINE found == FindFrom(next, end, saves)
<1>1. SlotsInv
      BY DEF IInv
<1>2. Ranged(found, next, end, saves) /\ (Repeatable => Clean(found.saves))
      BY <1>1, SearchLeaves
<1> HIDE DEF found
<1>3. found.saves \in Seq(Addresses) /\ Len(found.saves) = Len(saves)
      BY <1>2 DEF Ranged
<1>4. saves' = found.saves
      BY DEF found
<1> QED BY <1>2, <1>3, <1>4, KeptIterator

(* The uniqueness probe leaves the slots that the first search left.         *)
LEMMA FindsSaves ==
  ASSUME NEW next, NEW end, NEW c
  PROVE  Finds(next, end, c).saves = FindFrom(next, end, c).saves
BY DEF Finds, Unique

(* An empty range accepts nothing.                                           *)
LEMMA NothingAccepted ==
  ASSUME NEW begin \in Nat, NEW end \in Nat, end <= begin
  PROVE  Accepted(begin, end, <<>>) = {}
<1>1. begin .. end - 1 = {}
      OBVIOUS
<1> QED BY <1>1 DEF Accepted

(* matches_in makes an iterator that has yielded nothing.                    *)
LEMMA MatchesInStep ==
  ASSUME IInv, NEW range \in Ranges[image], MatchesIn(range[1], range[2])
  PROVE  IInv'
<1>1. MadeScanner /\ image \in Images /\ saves \in Seq(Addresses) /\ (Repeatable => Clean(saves))
      BY DEF IInv, SlotsInv
<1> DEFINE begin == range[1]
           end == Min({range[2], Len(image)})
<1>2. begin \in Nat /\ end \in Nat /\ end <= Len(image)
      BY <1>1, RangeFields
<1> HIDE DEF end
<1>3. matches' = [begin |-> begin, next |-> begin, end |-> end, yielded |-> {}, over |-> FALSE]
      BY DEF MatchesIn, end
<1>4. UNCHANGED <<scanner, image, saves>>
      BY DEF MatchesIn
<1>5. SlotsInv'
      BY <1>1, <1>4, SlotsStep DEF IInv
<1>6. IteratorType'
      BY <1>2, <1>3, <1>4 DEF IteratorType, Iterators
<1>7. IteratorInv'
  <2>1. scan' = scan
        BY <1>4 DEF scan
  <2>2. \A e : Accepted(begin, e, <<>>)' = Accepted(begin, e, <<>>)
        BY <2>1 DEF Accepted
  <2>3. Min({begin, end}) = IF begin <= end THEN begin ELSE end
        BY <1>2, MinOfTwo
  <2>4. Min({begin, end}) \in Nat /\ Min({begin, end}) <= begin
        BY <1>2, <2>3
  <2>5. Accepted(begin, Min({begin, end}), <<>>) = {}
        BY <1>2, <2>4, NothingAccepted
  <2>6. matches'.begin = begin /\ matches'.next = begin /\ matches'.end = end /\ matches'.yielded = {} /\ ~matches'.over
        BY <1>3
  <2>7. Accepted(matches.begin, Min({matches.next, matches.end}), <<>>)' = {}
        BY <2>1, <2>5, <2>6 DEF Accepted
  <2> QED BY <2>6, <2>7 DEF IteratorInv
<1> QED BY <1>5, <1>6, <1>7 DEF IInv

(* One more match found: the accepted starts up to it.                       *)
LEMMA AcceptedMore ==
  ASSUME NEW begin \in Nat, NEW next \in Nat, NEW end \in Nat, begin <= next,
         NEW at \in Nat, next <= at, at < end, IsFirst(at, Accepted(next, end, <<>>))
  PROVE  Accepted(begin, Min({at + 1, end}), <<>>) = Accepted(begin, Min({next, end}), <<>>) \cup {at}
<1>1. Min({at + 1, end}) = at + 1
      BY MinOfTwo
<1>2. Min({next, end}) = next
      BY MinOfTwo
<1>3. at \in Accepted(next, end, <<>>) /\ \A t \in Accepted(next, end, <<>>) : at <= t
      BY DEF IsFirst, Missing
<1>4. Exec(scan, at, <<>>).ok
      BY <1>3 DEF Accepted
<1>5. ASSUME NEW s \in begin .. at, Exec(scan, s, <<>>).ok, s # at
      PROVE  s \in begin .. next - 1
  <2>1. CASE s < next
        BY <2>1
  <2>2. CASE s >= next
    <3>1. s \in next .. end - 1
          BY <2>2
    <3>2. s \in Accepted(next, end, <<>>)
          BY <3>1, <1>5 DEF Accepted
    <3>3. at <= s
          BY <3>2, <1>3
    <3> QED BY <3>3, <1>5
  <2> QED BY <2>1, <2>2
<1>6. begin .. next - 1 \subseteq begin .. at /\ at \in begin .. at /\ at + 1 - 1 = at
      OBVIOUS
<1>7. Accepted(begin, at + 1, <<>>) = {s \in begin .. at : Exec(scan, s, <<>>).ok}
      BY <1>6 DEF Accepted
<1>8. {s \in begin .. at : Exec(scan, s, <<>>).ok} = {s \in begin .. next - 1 : Exec(scan, s, <<>>).ok} \cup {at}
      BY <1>4, <1>5, <1>6
<1> QED BY <1>1, <1>2, <1>7, <1>8 DEF Accepted

(* Nothing left: what is accepted so far is all.                             *)
LEMMA AcceptedAll ==
  ASSUME NEW begin \in Nat, NEW next \in Nat, NEW end \in Nat, begin <= next,
         Accepted(next, end, <<>>) = {}
  PROVE  Accepted(begin, end, <<>>) = Accepted(begin, Min({next, end}), <<>>)
<1>1. CASE end <= next
  <2>1. Min({next, end}) = end
        BY <1>1, MinOfTwo
  <2> QED BY <2>1
<1>2. CASE next < end
  <2>1. Min({next, end}) = next
        BY <1>2, MinOfTwo
  <2>2. ASSUME NEW s \in begin .. end - 1, Exec(scan, s, <<>>).ok
        PROVE  s \in begin .. next - 1
    <3>1. s >= next => s \in next .. end - 1
          OBVIOUS
    <3>2. s \notin next .. end - 1
          BY <2>2 DEF Accepted
    <3> QED BY <3>1, <3>2
  <2>3. begin .. next - 1 \subseteq begin .. end - 1
        BY <1>2
  <2> QED BY <2>1, <2>2, <2>3 DEF Accepted
<1> QED BY <1>1, <1>2

(* next_with yields the first start left, or finds that none is.             *)
LEMMA NextWithStep ==
  ASSUME IInv, NextWith
  PROVE  IInv'
<1>1. MadeScanner /\ image \in Images /\ saves \in Seq(Addresses) /\ (Repeatable => Clean(saves)) /\ SlotsInv
      BY DEF IInv, SlotsInv
<1>2. matches \in Iterators /\ matches.begin <= matches.next /\ matches.end <= Len(image)
      /\ matches.yielded \subseteq 0 .. Len(image) - 1
      BY DEF IInv, IteratorType
<1>3. /\ matches.begin \in Nat /\ matches.next \in Nat /\ matches.end \in Nat /\ matches.yielded \subseteq Int
      /\ matches.over \in BOOLEAN
      BY <1>2, IteratorFields
<1>4. PICK found \in {FindFrom(matches.next, matches.end, saves)} :
        /\ saves' = found.saves
        /\ matches' = IF found.at = Missing THEN [matches EXCEPT !.over = TRUE]
                      ELSE [matches EXCEPT !.next = NextOffset(found.at), !.yielded = @ \cup {found.at}]
        /\ UNCHANGED <<scanner, image>>
      BY DEF NextWith
<1>5. Ranged(found, matches.next, matches.end, saves) /\ (Repeatable => Clean(found.saves))
      BY <1>1, <1>2, <1>3, <1>4, SearchLeaves
<1>6. /\ found.saves \in Seq(Addresses) /\ Len(found.saves) = Len(saves)
      /\ found.at = Missing \/ (found.at \in Nat /\ matches.next <= found.at /\ found.at < matches.end)
      BY <1>5 DEF Ranged
<1>7. SlotsInv' /\ (Steady(saves)' => Steady(saves))
      BY <1>1, <1>4, <1>5, <1>6, SlotsStep
<1>8. scan' = scan
      BY <1>4 DEF scan
<1>9. Steady(saves) => IsFirst(found.at, Accepted(matches.next, matches.end, <<>>))
      BY <1>1, <1>2, <1>3, <1>4, FindFirst
<1>10. Len(image) \in Nat
      BY <1>1, ScanIs
<1>11. CASE found.at = Missing
  <2>1. matches' = [matches EXCEPT !.over = TRUE]
        BY <1>4, <1>11
  <2>2. /\ matches'.begin = matches.begin /\ matches'.next = matches.next /\ matches'.end = matches.end
        /\ matches'.yielded = matches.yielded /\ matches' \in Iterators
        BY <2>1, <1>2 DEF Iterators
  <2>3. IteratorType'
        BY <1>2, <1>4, <2>2 DEF IteratorType
  <2>4. Steady(saves) => Accepted(matches.next, matches.end, <<>>) = {}
    <3>1. Missing \notin Accepted(matches.next, matches.end, <<>>)
          BY <1>3 DEF Accepted, Missing
    <3> QED BY <3>1, <1>9, <1>11 DEF IsFirst
  <2>5. IteratorInv'
        BY <1>7, <1>8, <2>2, <2>4 DEF IInv, IteratorInv, Accepted
  <2> QED BY <1>7, <2>3, <2>5 DEF IInv
<1>12. CASE found.at # Missing
  <2> DEFINE at == found.at
  <2>1. at \in Nat /\ matches.next <= at /\ at < matches.end
        BY <1>6, <1>12
  <2>2. matches' = [matches EXCEPT !.next = at + 1, !.yielded = @ \cup {at}]
        BY <1>4, <1>12 DEF NextOffset
  <2> HIDE DEF at
  <2>3. /\ matches'.begin = matches.begin /\ matches'.next = at + 1 /\ matches'.end = matches.end
        /\ matches'.yielded = matches.yielded \cup {at} /\ matches'.over = matches.over /\ matches' \in Iterators
    <3>1. at + 1 \in Nat /\ (matches.yielded \cup {at}) \in SUBSET Int
          BY <2>1, <1>3
    <3> DEFINE u == at + 1
               y == matches.yielded \cup {at}
    <3>2. u \in Nat /\ y \in SUBSET Int /\ matches' = [matches EXCEPT !.next = u, !.yielded = y]
          BY <3>1, <2>2
    <3> HIDE DEF u, y
    <3>3. /\ matches'.begin = matches.begin /\ matches'.next = u /\ matches'.end = matches.end
          /\ matches'.yielded = y /\ matches'.over = matches.over /\ matches' \in Iterators
          BY <3>2, <1>2 DEF Iterators
    <3> QED BY <3>3 DEF u, y
  <2>4. IteratorType'
        BY <1>2, <1>3, <1>4, <1>10, <2>1, <2>3 DEF IteratorType
  <2>5. ASSUME Steady(saves)
        PROVE  /\ matches'.yielded = Accepted(matches.begin, Min({at + 1, matches.end}), <<>>)
               /\ ~matches.over
    <3>1. IsFirst(at, Accepted(matches.next, matches.end, <<>>))
          BY <1>9, <2>5 DEF at
    <3>2. matches.yielded = Accepted(matches.begin, Min({matches.next, matches.end}), <<>>)
          /\ (matches.over => Accepted(matches.next, matches.end, <<>>) = {})
          BY <2>5 DEF IInv, IteratorInv
    <3>3. Accepted(matches.begin, Min({at + 1, matches.end}), <<>>) = matches.yielded \cup {at}
          BY <1>2, <1>3, <2>1, <3>1, <3>2, AcceptedMore
    <3>4. at \in Accepted(matches.next, matches.end, <<>>)
          BY <3>1, <2>1 DEF IsFirst, Missing
    <3> QED BY <2>3, <3>2, <3>3, <3>4
  <2>6. IteratorInv'
        BY <1>7, <1>8, <2>3, <2>5 DEF IteratorInv, Accepted
  <2> QED BY <1>7, <2>4, <2>6 DEF IInv
<1> QED BY <1>11, <1>12

(* Stuttering preserves the invariant.                                       *)
LEMMA IInvStutters ==
  ASSUME IInv, UNCHANGED vars
  PROVE  IInv'
<1>1. UNCHANGED <<scanner, image, matches>> /\ saves' = saves
      BY DEF vars
<1>2. saves \in Seq(Addresses) /\ (Repeatable => Clean(saves))
      BY DEF IInv, SlotsInv
<1> QED BY <1>1, <1>2, KeptIterator

(* Every step preserves the invariant.                                       *)
LEMMA IInvPreserved ==
  ASSUME IInv, [Next]_vars
  PROVE  IInv'
<1>1. MadeScanner /\ image \in Images
      BY DEF IInv, SlotsInv
<1>2. ASSUME NEW start \in 0 .. Len(image) + 1, Execute(start)
      PROVE  IInv'
      BY <1>2, ExecuteStep
<1>3. ASSUME NEW range \in Ranges[image], FindWithIn(range[1], range[2])
      PROVE  IInv'
  <2>1. range[1] \in Nat /\ Min({range[2], Len(image)}) \in Nat /\ Min({range[2], Len(image)}) <= Len(image)
        BY <1>1, RangeFields
  <2>2. /\ saves' = FindFrom(range[1], Min({range[2], Len(image)}), saves).saves
        /\ UNCHANGED <<scanner, image, matches>>
        BY <1>3 DEF FindWithIn
  <2> QED BY <2>1, <2>2, SearchStep
<1>4. ASSUME NEW range \in Ranges[image], FindsIn(range[1], range[2])
      PROVE  IInv'
  <2>1. range[1] \in Nat /\ Min({range[2], Len(image)}) \in Nat /\ Min({range[2], Len(image)}) <= Len(image)
        BY <1>1, RangeFields
  <2>2. /\ saves' = FindFrom(range[1], Min({range[2], Len(image)}), saves).saves
        /\ UNCHANGED <<scanner, image, matches>>
        BY <1>4, FindsSaves DEF FindsIn
  <2> QED BY <2>1, <2>2, SearchStep
<1>5. ASSUME NEW range \in Ranges[image], MatchesIn(range[1], range[2])
      PROVE  IInv'
      BY <1>5, MatchesInStep
<1>6. CASE NextWith
      BY <1>6, NextWithStep
<1>7. CASE UNCHANGED vars
      BY <1>7, IInvStutters
<1> QED BY <1>2, <1>3, <1>4, <1>5, <1>6, <1>7 DEF Next

(* The inductive invariant holds in every reachable state.                   *)
THEOREM ScannerInvariant == Spec => []IInv
<1>1. Init => IInv
      BY InitIInv
<1>2. IInv /\ [Next]_vars => IInv'
      BY IInvPreserved
<1> QED BY <1>1, <1>2, PTL DEF Spec

(* The state has its types: the scanner has the base and the cells of a      *)
(* constructor, captures are addresses, and an iterator yields starts of     *)
(* the image.                                                                *)
THEOREM ScannerTypes == Spec => []TypeOK
<1>1. ASSUME IInv
      PROVE  TypeOK
  <2>1. MadeScanner /\ image \in Images /\ saves \in Seq(Addresses)
        BY <1>1 DEF IInv, SlotsInv
  <2>2. scanner.base \in Bases
        BY <2>1, ScanIs
  <2>3. scanner.cells \in Cells
    <3>1. CASE scanner.cells # <<>>
          BY <3>1, <2>1, SoughtIs DEF Sought
    <3>2. CASE scanner.cells = <<>>
          BY <3>2 DEF Cells
    <3> QED BY <3>1, <3>2
  <2>4. matches.yielded \subseteq 0 .. Len(image) - 1
        BY <1>1 DEF IInv, IteratorType
  <2> QED BY <2>1, <2>2, <2>3, <2>4 DEF TypeOK
<1> QED BY <1>1, ScannerInvariant, PTL

(* Candidate discovery changes nothing (find_from, scan.rs:250): whatever    *)
(* earlier calls left in the slots, a filtered search finds the start and    *)
(* the captures that executing the program at every start would find.        *)
THEOREM FilteredSearchesAreDirect == Spec => []FiltersLoseNothing
<1>1. IInv => FiltersLoseNothing
      BY FiltersDecide DEF IInv, SlotsInv
<1> QED BY <1>1, ScannerInvariant, PTL

(* A match iterator yields every start of its range at which the program     *)
(* matches, overlapping ones included, and nothing else (Matches::next,      *)
(* scan.rs:1046).                                                            *)
THEOREM IteratorsYieldEveryMatch == Spec => []IterationComplete
<1>1. ASSUME IInv, saves = <<>> \/ ~Compares
      PROVE  LET upto == IF matches.over THEN matches.end ELSE Min({matches.next, matches.end})
             IN matches.yielded = Accepted(matches.begin, upto, <<>>)
  <2>1. matches \in Iterators /\ matches.begin <= matches.next
        BY <1>1 DEF IInv, IteratorType
  <2>2. matches.begin \in Nat /\ matches.next \in Nat /\ matches.end \in Nat
        BY <2>1, IteratorFields
  <2>3. /\ matches.yielded = Accepted(matches.begin, Min({matches.next, matches.end}), <<>>)
        /\ matches.over => Accepted(matches.next, matches.end, <<>>) = {}
        BY <1>1 DEF IInv, IteratorInv, Steady
  <2>4. CASE matches.over
        BY <2>1, <2>2, <2>3, <2>4, AcceptedAll
  <2>5. CASE ~matches.over
        BY <2>3, <2>5
  <2> QED BY <2>4, <2>5
<1>2. IInv => IterationComplete
      BY <1>1 DEF IterationComplete
<1> QED BY <1>2, ScannerInvariant, PTL

(* finds counts the matches of a program that reads no capture back          *)
(* (scan.rs:136).                                                            *)
THEOREM UniqueCountsMatches == Spec => []UniqueUnlessCompared
<1>1. IInv => UniqueUnlessCompared
      BY UniqueDecides DEF IInv, SlotsInv
<1> QED BY <1>1, ScannerInvariant, PTL

(* The captures of a search are those of its match: what failed              *)
(* candidates, failed distances of a gap and earlier calls wrote is          *)
(* overwritten (scan.rs:96, 130, 138).                                       *)
THEOREM CapturesBelongToTheMatch == Spec => []CapturesAreTheMatchs
<1>1. IInv => CapturesAreTheMatchs
      BY CapturesDecide DEF IInv, SlotsInv
<1> QED BY <1>1, ScannerInvariant, PTL

(* The fixed projection decides exactly what the interpreter decides         *)
(* (Fixed::matches, fixed.rs:163), wherever the image has an address.        *)
THEOREM ProjectionsAreExact == Spec => []ProjectionExact
<1>1. IInv => ProjectionExact
      BY ProjectionDecides DEF IInv, SlotsInv
<1> QED BY <1>1, ScannerInvariant, PTL
=============================================================================
