--------------------------- MODULE InspectionProofs ---------------------------
(***************************************************************************)
(* What holds of every inspection, whatever the objects, their sizes and   *)
(* places, the number of changes and the malformed answers: lookups are    *)
(* exact, published modules own their mappings alone, every refusal has a  *)
(* cause, and what becomes of an inspection of objects that did not move   *)
(* depends only on whether a further namespace lists the dynamic linker.   *)
(***************************************************************************)
EXTENDS Inspection, OrderLemmas, SequenceTheorems

-----------------------------------------------------------------------------
(* Lookups.                                                                  *)

(* A region's bounds are integers.                                           *)
LEMMA RegionBounds ==
  \A r \in Region : r.start \in Int /\ r.end \in Int
<1> TAKE r \in Region
<1>1. r.start \in Addresses /\ r.end \in Addresses
  BY DEF Region
<1>2. Addresses \subseteq Int
  BY AddressAssumption
<1> QED
  BY <1>1, <1>2, Zenon

(* The same of layouts.                                                      *)
LEMMA LayoutBounds ==
  \A l \in Layout : l.start \in Int /\ l.end \in Int
<1> TAKE l \in Layout
<1>1. l.start \in Addresses /\ l.end \in Addresses
  BY DEF Layout
<1>2. Addresses \subseteq Int
  BY AddressAssumption
<1> QED
  BY <1>1, <1>2

(* The members of a sequence have the sequence's type.                       *)
LEMMA MembersTyped ==
  ASSUME NEW S, NEW s \in Seq(S)
  PROVE  /\ Len(s) \in Nat /\ DOMAIN s = 1 .. Len(s)
         /\ \A i \in DOMAIN s : s[i] \in S
         /\ ToSet(s) \subseteq S
<1>1. Len(s) \in Nat /\ DOMAIN s = 1 .. Len(s)
  OBVIOUS
<1>2. \A i \in 1 .. Len(s) : s[i] \in S
  OBVIOUS
<1>3. ToSet(s) \subseteq S
  BY <1>1, <1>2 DEF ToSet
<1> QED
  BY <1>1, <1>2, <1>3

(* partition_point finds the only region that can hold the address.          *)
LEMMA RegionAtExact ==
  ASSUME regions \in Seq(Region), RegionsOrdered, NEW a \in Int
  PROVE  RegionAt(a) = {r \in ToSet(regions) : RegionHolds(r, a)}
<1> DEFINE Test(r) == ~EndsBefore(r, a)
           I == {i \in 1 .. Len(regions) : Test(regions[i])}
<1>1. Len(regions) \in Nat /\ DOMAIN regions = 1 .. Len(regions)
      /\ \A i \in 1 .. Len(regions) : regions[i] \in Region
  OBVIOUS
<1>2. \A i \in 1 .. Len(regions) : regions[i].start \in Int /\ regions[i].end \in Int
  BY <1>1, RegionBounds
<1>3. SelectInSeq(regions, LAMBDA r : ~EndsBefore(r, a)) = IF I # {} THEN Min(I) ELSE 0
  BY DEF SelectInSeq
<1>4. \A i \in 1 .. Len(regions) : i \in I <=> a < regions[i].end
  BY <1>2 DEF EndsBefore
<1> HIDE DEF I
<1>5. I \subseteq Nat
  BY <1>1 DEF I
<1>6. CASE I = {}
  <2>1. PartitionPoint(a) = Len(regions)
    BY <1>3, <1>6 DEF PartitionPoint
  <2>2. RegionAt(a) = {}
    BY <2>1, <1>1 DEF RegionAt
  <2>3. \A r \in ToSet(regions) : ~RegionHolds(r, a)
    BY <1>1, <1>4, <1>6 DEF ToSet, RegionHolds
  <2> QED
    BY <2>2, <2>3
<1>7. CASE I # {}
  <2> DEFINE m == Min(I)
  <2>1. m \in I /\ \A j \in I : m <= j
    BY <1>5, <1>7, MinIsLeast
  <2> HIDE DEF m
  <2>2. m \in 1 .. Len(regions) /\ m # 0
    BY <2>1 DEF I
  <2>3. PartitionPoint(a) = m - 1
    BY <1>3, <1>7, <2>2 DEF PartitionPoint, m
  <2>4. RegionAt(a) = {regions[j] : j \in {k \in DOMAIN regions : k = m /\ RegionHolds(regions[k], a)}}
    BY <2>2, <2>3 DEF RegionAt
  <2>5. \A j \in 1 .. Len(regions) : RegionHolds(regions[j], a) => j = m
    <3> TAKE j \in 1 .. Len(regions)
    <3> HAVE RegionHolds(regions[j], a)
    <3>1. j \in I /\ m <= j
      BY <1>4, <2>1 DEF RegionHolds
    <3>2. m < j => regions[m].end <= regions[j].start
      BY <2>2, <1>1 DEF RegionsOrdered
    <3>3. a < regions[m].end /\ regions[j].start <= a
      BY <1>4, <2>1, <2>2 DEF RegionHolds
    <3> QED
      BY <3>1, <3>2, <3>3, <1>2, <2>2
  <2> QED
    BY <2>4, <2>5, <1>1 DEF ToSet
<1> QED
  BY <1>6, <1>7

(* Two regions that hold one address are one.                                *)
LEMMA OneHolder ==
  ASSUME regions \in Seq(Region), RegionsOrdered, NEW a \in Int,
         NEW r \in ToSet(regions), NEW s \in ToSet(regions),
         RegionHolds(r, a), RegionHolds(s, a)
  PROVE  r = s
<1>1. PICK i \in DOMAIN regions : r = regions[i]
  BY DEF ToSet
<1>2. PICK j \in DOMAIN regions : s = regions[j]
  BY DEF ToSet
<1>3. r \in Region /\ s \in Region /\ i \in Int /\ j \in Int
  BY MembersTyped
<1>4. (i < j => r.end <= s.start) /\ (j < i => s.end <= r.start)
  BY <1>1, <1>2 DEF RegionsOrdered
<1>5. r.start <= a /\ a < r.end /\ s.start <= a /\ a < s.end
  BY DEF RegionHolds
<1> QED
  BY <1>1, <1>2, <1>3, <1>4, <1>5, RegionBounds

LEMMA LookupsFollow ==
  ASSUME regions \in Seq(Region), RegionsOrdered
  PROVE  LookupsExact
<1> SUFFICES ASSUME NEW a \in Addresses
             PROVE  /\ RegionAt(a) = {r \in ToSet(regions) : RegionHolds(r, a)}
                    /\ \A n \in ReadableBytes(a) : \A b \in a .. (a + n - 1) : RegionAt(b) = RegionAt(a)
  BY DEF LookupsExact
<1>1. a \in Int
  BY AddressAssumption
<1>2. RegionAt(a) = {r \in ToSet(regions) : RegionHolds(r, a)}
  BY <1>1, RegionAtExact
<1>3. ASSUME NEW n \in ReadableBytes(a), NEW b \in a .. (a + n - 1)
      PROVE  RegionAt(b) = RegionAt(a)
  <2>1. PICK r \in RegionAt(a) : n = r.end - a
    BY DEF ReadableBytes
  <2>2. r \in ToSet(regions) /\ RegionHolds(r, a)
    BY <2>1, <1>2
  <2>3. r.start \in Int /\ r.end \in Int
    BY <2>2, MembersTyped, RegionBounds
  <2>4. b \in Int /\ RegionHolds(r, b)
    BY <2>1, <2>2, <2>3, <1>1, <1>3 DEF RegionHolds
  <2>5. RegionAt(b) = {s \in ToSet(regions) : RegionHolds(s, b)}
    BY <2>4, RegionAtExact
  <2>6. \A s \in ToSet(regions) : RegionHolds(s, b) => s = r
    BY <2>2, <2>4, OneHolder
  <2>7. \A s \in ToSet(regions) : RegionHolds(s, a) => s = r
    BY <2>2, <1>1, OneHolder
  <2> QED
    BY <1>2, <2>2, <2>4, <2>5, <2>6, <2>7
<1> QED
  BY <1>2, <1>3

-----------------------------------------------------------------------------
(* The inductive invariant.                                                  *)

(* Mapped objects lie in the address space, each apart from the others.      *)
Placed(b) ==
  /\ \A o \in MappedIn(b) : b[o] \in Addresses /\ b[o] + Size[o] \in Addresses
  /\ \A o, p \in MappedIn(b) : o # p => b[o] + Size[o] <= b[p] \/ b[p] + Size[p] <= b[o]

(* The loader lists every mapped object, and only the linker twice: in the   *)
(* first namespace, which never drops it, and through its proxies.           *)
ListOnce ==
  /\ {loaded[i].obj : i \in DOMAIN loaded} = MappedIn(base)
  /\ \A i, j \in DOMAIN loaded :
       loaded[i].obj = loaded[j].obj => i = j \/ loaded[i].obj = Linker
  /\ \E i \in DOMAIN loaded : loaded[i] = [obj |-> Linker, space |-> 1]

CapturedOnce ==
  \A i, j \in DOMAIN captured :
    captured[i].obj = captured[j].obj => i = j \/ captured[i].obj = Linker

(* What an answer has to be for every layout of it to be admitted.           *)
InOrder(ls) ==
  \A i \in DOMAIN ls :
    /\ Nonempty(ls[i]) /\ BackingFault(ls[i]) = "none"
    /\ \A j \in DOMAIN ls : i < j => ls[i].end <= ls[j].start

ReportedRegions == {RegionOf(l) : l \in LayoutsOf(reported)}

(* While a genuine answer is admitted, what is left of it is in order and    *)
(* makes up, with the regions retained, the address space reported.          *)
GenuineAdmission ==
  stage = "admit" /\ genuine =>
    /\ InOrder(layouts)
    /\ \A r \in ToSet(regions), l \in ToSet(layouts) : r.end <= l.start
    /\ ToSet(regions) \cup {RegionOf(l) : l \in ToSet(layouts)} = ReportedRegions

(* While any other is, the layout that makes it malformed is still ahead.    *)
FaultAhead ==
  stage = "admit" /\ ~genuine =>
    \E i \in DOMAIN layouts :
      \/ ~Nonempty(layouts[i]) \/ BackingFault(layouts[i]) # "none"
      \/ i > 1 /\ layouts[i].start < layouts[i - 1].end
      \/ i = 1 /\ regions # <<>> /\ layouts[i].start < Last(regions).end

(* So only a genuine answer becomes a snapshot, and a complete one.          *)
Admitted ==
  stage \in {"capture", "normalize"} => genuine /\ ToSet(regions) = ReportedRegions

NormalizedSoFar ==
  stage = "normalize" =>
    /\ Len(modules) <= Len(captured)
    /\ \A i \in DOMAIN modules :
         /\ modules[i].name = captured[i].obj
         /\ modules[i].mapping \in ToSet(regions)
         /\ RegionHolds(modules[i].mapping, captured[i].anchor)
         /\ modules[i].file = FileIdentity(modules[i].mapping)

(* What each stage has not touched yet.                                      *)
Untouched ==
  /\ stage # "done" => failure = "none"
  /\ stage = "query" => regions = <<>> /\ ~genuine
  /\ stage \in {"query", "admit", "capture"} => modules = <<>> /\ captured = <<>>

Outcomes == OwnershipUnique /\ RefusalExplained /\ UnmovedInspectionDecided

IInv ==
  /\ TypeOK /\ RegionsOrdered
  /\ Placed(base) /\ Placed(reported) /\ ListOnce /\ CapturedOnce
  /\ GenuineAdmission /\ FaultAhead /\ Admitted /\ NormalizedSoFar
  /\ Untouched /\ Outcomes

-----------------------------------------------------------------------------
(* The kernel's answer.                                                      *)

(* Anything mapped has a layout that the snapshot admits.                    *)
LEMMA LayoutAdmissible ==
  ASSUME NEW b \in [Objs -> Addresses \cup {Unloaded}], Placed(b), NEW o \in MappedIn(b)
  PROVE  /\ LayoutOf(b, o) \in Layout
         /\ Nonempty(LayoutOf(b, o))
         /\ BackingFault(LayoutOf(b, o)) = "none"
<1>1. o \in Objs /\ b[o] \in Addresses /\ b[o] + Size[o] \in Addresses
  BY DEF Placed, MappedIn
<1>2. b[o] \in Int /\ Size[o] \in Nat \ {0} /\ FileOf[o] \in Files \cup {NoFile}
  <2>1. Addresses \subseteq Int
    BY AddressAssumption
  <2>2. b[o] \in Int
    BY <1>1, <2>1
  <2>3. Size[o] \in Nat \ {0}
    BY <1>1, ObjectAssumption
  <2>4. FileOf[o] \in Files \cup {NoFile}
    BY <1>1, ObjectAssumption
  <2> QED
    BY <2>2, <2>3, <2>4
<1>3. LayoutOf(b, o) \in Layout
  BY <1>1, <1>2 DEF LayoutOf, Layout
<1>4. Nonempty(LayoutOf(b, o))
  BY <1>2 DEF Nonempty, LayoutOf
<1>5. BackingFault(LayoutOf(b, o)) = "none"
  BY DEF BackingFault, LayoutOf
<1> QED
  BY <1>3, <1>4, <1>5

LEMMA MappedFinite ==
  ASSUME NEW b
  PROVE  IsFiniteSet(MappedIn(b)) /\ IsFiniteSet(LayoutsOf(b))
<1>1. IsFiniteSet(MappedIn(b))
  <2>1. MappedIn(b) \in SUBSET Objs
    BY DEF MappedIn
  <2> QED
    BY <2>1, FS_Subset, ObjectAssumption
<1>2. PICK f : f = [o \in MappedIn(b) |-> LayoutOf(b, o)]
  OBVIOUS
<1>3. f \in Surjection(MappedIn(b), LayoutsOf(b))
  <2>1. f \in [MappedIn(b) -> LayoutsOf(b)]
    BY <1>2 DEF LayoutsOf
  <2>2. \A l \in LayoutsOf(b) : \E o \in MappedIn(b) : f[o] = l
    BY <1>2 DEF LayoutsOf
  <2> QED
    BY <2>1, <2>2 DEF Surjection
<1>4. IsFiniteSet(LayoutsOf(b))
  BY <1>1, <1>3, FS_Surjection
<1> QED
  BY <1>1, <1>4

(* Two layouts of an address space are apart, so their starts tell them      *)
(* apart.                                                                    *)
LEMMA LayoutsApart ==
  ASSUME NEW b \in [Objs -> Addresses \cup {Unloaded}], Placed(b),
         NEW k \in LayoutsOf(b), NEW l \in LayoutsOf(b)
  PROVE  /\ k.start \in Int /\ k.end \in Int /\ k.start < k.end
         /\ k # l => k.end <= l.start \/ l.end <= k.start
<1>1. PICK o \in MappedIn(b) : k = LayoutOf(b, o)
  BY DEF LayoutsOf
<1>2. PICK p \in MappedIn(b) : l = LayoutOf(b, p)
  BY DEF LayoutsOf
<1>3. k \in Layout /\ Nonempty(k)
  BY <1>1, LayoutAdmissible
<1>4. k.start \in Int /\ k.end \in Int /\ k.start < k.end
  <2>1. k.start \in Addresses /\ k.end \in Addresses
    BY <1>3 DEF Layout
  <2>2. Addresses \subseteq Int
    BY AddressAssumption
  <2> QED
    BY <1>3, <2>1, <2>2 DEF Nonempty
<1>5. k # l => b[o] + Size[o] <= b[p] \/ b[p] + Size[p] <= b[o]
  <2>1. \A q, r \in MappedIn(b) : q # r => b[q] + Size[q] <= b[r] \/ b[r] + Size[r] <= b[q]
    BY Zenon DEF Placed
  <2> QED
    BY <1>1, <1>2, <2>1, Zenon
<1>6. k.start = b[o] /\ k.end = b[o] + Size[o] /\ l.start = b[p] /\ l.end = b[p] + Size[p]
  BY <1>1, <1>2 DEF LayoutOf
<1> QED
  BY <1>4, <1>5, <1>6

LEMMA AnswerInOrder ==
  ASSUME base \in [Objs -> Addresses \cup {Unloaded}], Placed(base)
  PROVE  /\ Answer \in Seq(Layout)
         /\ ToSet(Answer) = LayoutsOf(base)
         /\ InOrder(Answer)
<1> DEFINE L == LayoutsOf(base)
           R == {p \in L \X L : p[1].start < p[2].start}
           n == Cardinality(L)
<1>1. IsFiniteSet(L)
  BY MappedFinite
<1>2. \A k, l \in L : <<k, l>> \in R <=> k.start < l.start
  OBVIOUS
<1>3. \A k \in L : k.start \in Int /\ k.end \in Int /\ k.start < k.end
  BY LayoutsApart
<1>4. \A k, l \in L : k # l => k.end <= l.start \/ l.end <= k.start
  BY LayoutsApart
<1>5. Answer = [i \in 1 .. n |-> CHOOSE l \in L : Cardinality(LayoutsUpTo(l)) = i]
  BY DEF Answer
<1>6. \A l \in L : LayoutsUpTo(l) = {k \in L : k.start <= l.start}
  BY DEF LayoutsUpTo
<1> HIDE DEF L, R
<1>7. Orders(R, L)
  BY <1>2, <1>3, <1>4 DEF Orders
<1>8. \A l \in L : UpTo(R, L, l) = LayoutsUpTo(l)
  BY <1>2, <1>3, <1>4, <1>6 DEF UpTo
<1>9. Ranked(R, L, Answer)
  <2>1. ASSUME NEW i \in 1 .. n, NEW l \in L, Cardinality(UpTo(R, L, l)) = i
        PROVE  Answer[i] \in L /\ Cardinality(UpTo(R, L, Answer[i])) = i
    <3>1. Cardinality(LayoutsUpTo(l)) = i
      BY <1>8, <2>1
    <3>2. Answer[i] = CHOOSE k \in L : Cardinality(LayoutsUpTo(k)) = i
      BY <1>5, Zenon
    <3>3. Answer[i] \in L /\ Cardinality(LayoutsUpTo(Answer[i])) = i
      BY <3>1, <3>2, Zenon
    <3> QED
      BY <3>3, <1>8
  <2>2. Answer = [i \in 1 .. n |-> Answer[i]]
    BY <1>5
  <2> QED
    BY <2>1, <2>2 DEF Ranked
<1>10. SortedBy(R, L, Answer)
  BY <1>1, <1>7, <1>9, RankSorts
<1>11. /\ n \in Nat
       /\ Answer \in [1 .. n -> L]
       /\ \A l \in L : \E i \in 1 .. n : Answer[i] = l
       /\ \A i, j \in 1 .. n : i < j => <<Answer[i], Answer[j]>> \in R
  BY <1>10 DEF SortedBy
<1> HIDE DEF n
<1>12. \A l \in L : l \in Layout /\ Nonempty(l) /\ BackingFault(l) = "none"
  <2> TAKE l \in L
  <2>1. PICK o \in MappedIn(base) : l = LayoutOf(base, o)
    BY DEF L, LayoutsOf
  <2> QED
    BY <2>1, LayoutAdmissible
<1>13. DOMAIN Answer = 1 .. n /\ \A i \in 1 .. n : Answer[i] \in L
  BY <1>11
<1>14. Answer \in Seq(Layout)
  <2>1. L \subseteq Layout
    BY <1>12
  <2>2. Answer \in [1 .. n -> Layout]
    BY <1>11, <2>1
  <2> QED
    BY <1>11, <2>2, SeqDef
<1>15. ToSet(Answer) = L
  BY <1>11, <1>13 DEF ToSet
<1>16. InOrder(Answer)
  <2> SUFFICES ASSUME NEW i \in 1 .. n, NEW j \in 1 .. n, i < j
               PROVE  Answer[i].end <= Answer[j].start
    BY <1>12, <1>13 DEF InOrder
  <2>1. Answer[i] \in L /\ Answer[j] \in L /\ Answer[i].start < Answer[j].start
    BY <1>13, <1>11, <1>2
  <2> QED
    BY <2>1, <1>3, <1>4
<1> QED
  BY <1>14, <1>15, <1>16 DEF L

-----------------------------------------------------------------------------
(* Ownership.                                                                *)

ModuleRecord == [name : Objs, mapping : Region, file : Files \cup {NoFile}]

(* The retained ranges are in order of their starts, one for each module.    *)
LEMMA RangesInOrder ==
  ASSUME modules \in Seq(ModuleRecord)
  PROVE  /\ Len(Ranges) \in Nat
         /\ \A i \in 1 .. Len(Ranges) :
              /\ Ranges[i].module \in DOMAIN modules
              /\ Ranges[i].mapping = modules[Ranges[i].module].mapping
         /\ \A j \in DOMAIN modules : \E i \in 1 .. Len(Ranges) : Ranges[i].module = j
         /\ \A i, j \in 1 .. Len(Ranges) : i < j =>
              /\ Ranges[i].mapping.start <= Ranges[j].mapping.start
              /\ Ranges[i].module # Ranges[j].module
<1> DEFINE S == OwnedRanges
           Before(r, s) == \/ r.mapping.start < s.mapping.start
                           \/ r.mapping.start = s.mapping.start /\ r.module < s.module
           R == {p \in S \X S : Before(p[1], p[2])}
           n == Cardinality(S)
<1>1. /\ Len(modules) \in Nat /\ DOMAIN modules = 1 .. Len(modules)
      /\ \A i \in DOMAIN modules : modules[i] \in ModuleRecord
  BY MembersTyped
<1>2. \A r \in S : /\ r.module \in DOMAIN modules
                   /\ r.mapping = modules[r.module].mapping
                   /\ r = [mapping |-> modules[r.module].mapping, module |-> r.module]
  BY DEF OwnedRanges
<1>3. \A j \in DOMAIN modules : [mapping |-> modules[j].mapping, module |-> j] \in S
  BY DEF OwnedRanges
<1>4. IsFiniteSet(S)
  <2>1. PICK f : f = [i \in 1 .. Len(modules) |-> [mapping |-> modules[i].mapping, module |-> i]]
    OBVIOUS
  <2>2. \A i \in 1 .. Len(modules) : f[i] = [mapping |-> modules[i].mapping, module |-> i]
    BY <2>1
  <2>3. f \in [1 .. Len(modules) -> S]
    BY <2>1, <1>1, <1>3
  <2>4. \A r \in S : \E i \in 1 .. Len(modules) : f[i] = r
    BY <2>2, <1>1, <1>2
  <2>5. f \in Surjection(1 .. Len(modules), S)
    BY <2>3, <2>4 DEF Surjection
  <2>6. IsFiniteSet(1 .. Len(modules))
    BY <1>1, FS_Interval
  <2> QED
    BY <2>5, <2>6, FS_Surjection
<1>5. \A r, s \in S : <<r, s>> \in R <=> Before(r, s)
  OBVIOUS
<1>6. \A r \in S : r.module \in Int /\ r.mapping.start \in Int
  <2> TAKE r \in S
  <2>1. r.module \in Int /\ r.mapping \in Region
    BY <1>1, <1>2 DEF ModuleRecord
  <2> QED
    BY <2>1, RegionBounds
<1>7. \A r, s \in S : r.module = s.module => r = s
  BY <1>2
<1>8. Ranges = [i \in 1 .. n |-> CHOOSE r \in S : Cardinality(RangesUpTo(r)) = i]
  BY DEF Ranges
<1>9. \A r \in S : RangesUpTo(r) =
        {s \in S : \/ s.mapping.start < r.mapping.start
                   \/ s.mapping.start = r.mapping.start /\ s.module <= r.module}
  BY DEF RangesUpTo
<1> HIDE DEF S, R
<1>10. Orders(R, S)
  <2>1. \A r, s \in S : r # s => <<r, s>> \in R \/ <<s, r>> \in R
    BY <1>5, <1>6, <1>7
  <2>2. \A r, s, t \in S : <<r, s>> \in R /\ <<s, t>> \in R => <<r, t>> \in R
    BY <1>5, <1>6
  <2>3. \A r \in S : <<r, r>> \notin R
    BY <1>5, <1>6
  <2> QED
    BY <2>1, <2>2, <2>3 DEF Orders
<1>11. \A r \in S : UpTo(R, S, r) = RangesUpTo(r)
  <2> TAKE r \in S
  <2>1. \A s \in S : s = r \/ <<s, r>> \in R <=>
          \/ s.mapping.start < r.mapping.start
          \/ s.mapping.start = r.mapping.start /\ s.module <= r.module
    BY <1>5, <1>6, <1>7
  <2> QED
    BY <2>1, <1>9 DEF UpTo
<1>12. Ranked(R, S, Ranges)
  <2>1. ASSUME NEW i \in 1 .. n, NEW r \in S, Cardinality(UpTo(R, S, r)) = i
        PROVE  Ranges[i] \in S /\ Cardinality(UpTo(R, S, Ranges[i])) = i
    <3>1. Cardinality(RangesUpTo(r)) = i
      BY <1>11, <2>1
    <3>2. Ranges[i] = CHOOSE k \in S : Cardinality(RangesUpTo(k)) = i
      BY <1>8, Zenon
    <3>3. Ranges[i] \in S /\ Cardinality(RangesUpTo(Ranges[i])) = i
      BY <3>1, <3>2, Zenon
    <3> QED
      BY <3>3, <1>11
  <2>2. Ranges = [i \in 1 .. n |-> Ranges[i]]
    BY <1>8
  <2> QED
    BY <2>1, <2>2 DEF Ranked
<1>13. SortedBy(R, S, Ranges)
  BY <1>4, <1>10, <1>12, RankSorts
<1>14. /\ n \in Nat
       /\ Ranges \in [1 .. n -> S]
       /\ \A r \in S : \E i \in 1 .. n : Ranges[i] = r
       /\ \A i, j \in 1 .. n : i < j => <<Ranges[i], Ranges[j]>> \in R
  BY <1>13 DEF SortedBy
<1> HIDE DEF n
<1>15. Len(Ranges) = n
  <2>1. Ranges \in Seq(S)
    BY <1>14, SeqDef
  <2> QED
    BY <2>1, <1>14, LenProperties
<1>16. \A i \in 1 .. n : Ranges[i] \in S
  BY <1>14
<1>17. \A j \in DOMAIN modules : \E i \in 1 .. n : Ranges[i].module = j
  <2> TAKE j \in DOMAIN modules
  <2>1. PICK i \in 1 .. n : Ranges[i] = [mapping |-> modules[j].mapping, module |-> j]
    BY <1>3, <1>14
  <2> QED
    BY <2>1
<1>18. ASSUME NEW i \in 1 .. n, NEW j \in 1 .. n, i < j
       PROVE  /\ Ranges[i].mapping.start <= Ranges[j].mapping.start
              /\ Ranges[i].module # Ranges[j].module
  <2>1. Ranges[i] \in S /\ Ranges[j] \in S /\ Before(Ranges[i], Ranges[j])
    BY <1>5, <1>14, <1>16, <1>18
  <2>2. Ranges[i].module # Ranges[j].module
    BY <2>1, <1>6, <1>7
  <2> QED
    BY <2>1, <2>2, <1>6
<1> QED
  BY <1>2, <1>14, <1>15, <1>16, <1>17, <1>18

Wide(m) == m.mapping.start < m.mapping.end

(* Neighbours that are disjoint make every two modules disjoint.             *)
LEMMA UnambiguousApart ==
  ASSUME modules \in Seq(ModuleRecord), Unambiguous,
         \A i \in DOMAIN modules : Wide(modules[i]),
         NEW p \in DOMAIN modules, NEW q \in DOMAIN modules, p # q
  PROVE  \/ modules[p].mapping.end <= modules[q].mapping.start
         \/ modules[q].mapping.end <= modules[p].mapping.start
<1>1. \A i \in DOMAIN modules : modules[i].mapping.start \in Int /\ modules[i].mapping.end \in Int
  <2> TAKE i \in DOMAIN modules
  <2>1. modules[i] \in ModuleRecord
    BY MembersTyped
  <2>2. modules[i].mapping \in Region
    BY <2>1 DEF ModuleRecord
  <2> QED
    BY <2>2, RegionBounds
<1>2. /\ Len(Ranges) \in Nat
      /\ \A i \in 1 .. Len(Ranges) :
           /\ Ranges[i].module \in DOMAIN modules
           /\ Ranges[i].mapping = modules[Ranges[i].module].mapping
      /\ \A j \in DOMAIN modules : \E i \in 1 .. Len(Ranges) : Ranges[i].module = j
      /\ \A i, j \in 1 .. Len(Ranges) : i < j =>
           /\ Ranges[i].mapping.start <= Ranges[j].mapping.start
           /\ Ranges[i].module # Ranges[j].module
  BY RangesInOrder
<1>3. \A i \in 1 .. (Len(Ranges) - 1) :
        \/ Ranges[i].module = Ranges[i + 1].module
        \/ Ranges[i].mapping.end <= Ranges[i + 1].mapping.start
  BY DEF Unambiguous, Neighbours, SameModule
<1>4. ASSUME NEW i \in 1 .. Len(Ranges), NEW j \in 1 .. Len(Ranges), i < j
      PROVE  modules[Ranges[i].module].mapping.end <= modules[Ranges[j].module].mapping.start
  <2>1. i \in 1 .. (Len(Ranges) - 1) /\ i + 1 \in 1 .. Len(Ranges) /\ i < i + 1
    BY <1>2, <1>4
  <2>2. Ranges[i].mapping.end <= Ranges[i + 1].mapping.start
    <3>1. Ranges[i].module # Ranges[i + 1].module
      BY <2>1, <1>2
    <3> QED
      BY <2>1, <3>1, <1>3
  <2>3. i + 1 = j \/ i + 1 < j
    <3>1. i \in Int /\ j \in Int
      BY <1>2
    <3> QED
      BY <1>4, <3>1
  <2>4. Ranges[i + 1].mapping.start <= Ranges[j].mapping.start
    <3>1. CASE i + 1 = j
      <4>1. Ranges[j].mapping.start \in Int
        BY <1>1, <1>2
      <4> QED
        BY <3>1, <4>1
    <3>2. CASE i + 1 < j
      BY <2>1, <3>2, <1>2
    <3> QED
      BY <2>3, <3>1, <3>2
  <2>5. /\ Ranges[i].mapping.end \in Int /\ Ranges[i + 1].mapping.start \in Int
        /\ Ranges[j].mapping.start \in Int
    BY <2>1, <1>1, <1>2
  <2>6. Ranges[i].mapping.end <= Ranges[j].mapping.start
    BY <2>2, <2>4, <2>5
  <2> QED
    BY <2>6, <1>2
<1>5. PICK i \in 1 .. Len(Ranges) : Ranges[i].module = p
  BY <1>2
<1>6. PICK j \in 1 .. Len(Ranges) : Ranges[j].module = q
  BY <1>2
<1>7. i < j \/ j < i
  BY <1>5, <1>6
<1> QED
  BY <1>4, <1>5, <1>6, <1>7

(* Ambiguity is two modules of which one starts inside the other.            *)
LEMMA AmbiguousPair ==
  ASSUME modules \in Seq(ModuleRecord), ~Unambiguous
  PROVE  \E p, q \in DOMAIN modules :
           /\ p # q
           /\ modules[p].mapping.start <= modules[q].mapping.start
           /\ modules[q].mapping.start < modules[p].mapping.end
<1>1. PICK i \in 1 .. (Len(Ranges) - 1) :
        /\ Ranges[i].module # Ranges[i + 1].module
        /\ ~(Ranges[i].mapping.end <= Ranges[i + 1].mapping.start)
  BY DEF Unambiguous, Neighbours, SameModule
<1>2. Len(Ranges) \in Nat
  BY RangesInOrder
<1>3. i \in 1 .. Len(Ranges) /\ i + 1 \in 1 .. Len(Ranges) /\ i < i + 1
  BY <1>2
<1>4. \A k \in 1 .. Len(Ranges) :
        /\ Ranges[k].module \in DOMAIN modules
        /\ Ranges[k].mapping = modules[Ranges[k].module].mapping
  BY RangesInOrder
<1>5. Ranges[i].mapping.start <= Ranges[i + 1].mapping.start
  BY <1>3, RangesInOrder
<1>6. \A p \in DOMAIN modules : modules[p].mapping.start \in Int /\ modules[p].mapping.end \in Int
  <2> TAKE p \in DOMAIN modules
  <2>1. modules[p] \in ModuleRecord
    BY MembersTyped
  <2>2. modules[p].mapping \in Region
    BY <2>1 DEF ModuleRecord
  <2> QED
    BY <2>2, RegionBounds
<1> DEFINE p == Ranges[i].module
           q == Ranges[i + 1].module
<1>7. p \in DOMAIN modules /\ q \in DOMAIN modules /\ p # q
  BY <1>1, <1>3, <1>4
<1>8. Ranges[i].mapping = modules[p].mapping /\ Ranges[i + 1].mapping = modules[q].mapping
  BY <1>3, <1>4
<1>9. /\ modules[p].mapping.start <= modules[q].mapping.start
      /\ modules[q].mapping.start < modules[p].mapping.end
  BY <1>1, <1>5, <1>6, <1>7, <1>8
<1> HIDE DEF p, q
<1> QED
  BY <1>7, <1>9

-----------------------------------------------------------------------------
(* The snapshot of a genuine answer.                                         *)

(* Each of its regions is where one object was.                              *)
LEMMA RegionIsAnObject ==
  ASSUME reported \in [Objs -> Addresses \cup {Unloaded}],
         ToSet(regions) = ReportedRegions, NEW r \in ToSet(regions)
  PROVE  \E o \in MappedIn(reported) :
           /\ r.start = reported[o] /\ r.end = reported[o] + Size[o]
           /\ FileIdentity(r) = FileOf[o]
<1>1. PICK l \in LayoutsOf(reported) : r = RegionOf(l)
  BY DEF ReportedRegions
<1>2. PICK o \in MappedIn(reported) : l = LayoutOf(reported, o)
  BY DEF LayoutsOf
<1>3. r.start = reported[o] /\ r.end = reported[o] + Size[o]
  BY <1>1, <1>2 DEF RegionOf, LayoutOf
<1>4. r.backing = BackingOf(l) /\ l.id = FileOf[o]
  BY <1>1, <1>2 DEF RegionOf, LayoutOf
<1>5. l.file = (FileOf[o] # NoFile) /\ l.anonymous = FALSE
  BY <1>2 DEF LayoutOf
<1>6. FileIdentity(r) = FileOf[o]
  <2>1. r.backing.id = FileOf[o]
    BY <1>4 DEF BackingOf
  <2>2. CASE FileOf[o] # NoFile
    <3>1. l.file = TRUE
      BY <1>5, <2>2, Zenon
    <3>2. BackingOf(l).kind = "file"
      BY <3>1 DEF BackingOf
    <3> QED
      BY <1>4, <2>1, <3>2 DEF FileIdentity
  <2>3. CASE FileOf[o] = NoFile
    <3>1. l.file = FALSE
      BY <1>5, <2>3, Zenon
    <3>2. BackingOf(l).kind = "special"
      BY <1>5, <3>1 DEF BackingOf
    <3> QED
      BY <1>4, <2>3, <3>2 DEF FileIdentity
  <2> QED
    BY <2>2, <2>3
<1> QED
  BY <1>3, <1>6

(* Each object's place is one of its regions.                                *)
LEMMA ObjectIsARegion ==
  ASSUME reported \in [Objs -> Addresses \cup {Unloaded}],
         ToSet(regions) = ReportedRegions, NEW o \in MappedIn(reported)
  PROVE  \E r \in ToSet(regions) : r.start = reported[o] /\ r.end = reported[o] + Size[o]
<1>1. RegionOf(LayoutOf(reported, o)) \in ToSet(regions)
  BY DEF ReportedRegions, LayoutsOf
<1>2. /\ RegionOf(LayoutOf(reported, o)).start = reported[o]
      /\ RegionOf(LayoutOf(reported, o)).end = reported[o] + Size[o]
  BY DEF RegionOf, LayoutOf
<1> QED
  BY <1>1, <1>2

LEMMA PlaceBounds ==
  ASSUME reported \in [Objs -> Addresses \cup {Unloaded}], NEW o \in MappedIn(reported)
  PROVE  reported[o] \in Int /\ Size[o] \in Int /\ Size[o] > 0
<1>1. o \in Objs /\ reported[o] \in Addresses \cup {Unloaded}
  BY DEF MappedIn
<1>2. Addresses \cup {Unloaded} \subseteq Int
  BY AddressAssumption DEF Unloaded
<1>3. Size[o] \in Nat \ {0}
  BY <1>1, ObjectAssumption
<1> QED
  BY <1>1, <1>2, <1>3

(* An address is in a region of the snapshot exactly if an object held it.   *)
LEMMA RegionsAreHolders ==
  ASSUME reported \in [Objs -> Addresses \cup {Unloaded}],
         ToSet(regions) = ReportedRegions, NEW a \in Int
  PROVE  /\ \A r \in ToSet(regions) : RegionHolds(r, a) =>
              \E o \in Holders(a) :
                /\ r.start = reported[o] /\ r.end = reported[o] + Size[o]
                /\ FileIdentity(r) = FileOf[o]
         /\ \A o \in Holders(a) : \E r \in ToSet(regions) : RegionHolds(r, a)
<1>1. ASSUME NEW r \in ToSet(regions), RegionHolds(r, a)
      PROVE  \E o \in Holders(a) :
               /\ r.start = reported[o] /\ r.end = reported[o] + Size[o]
               /\ FileIdentity(r) = FileOf[o]
  <2>1. PICK o \in MappedIn(reported) :
          /\ r.start = reported[o] /\ r.end = reported[o] + Size[o]
          /\ FileIdentity(r) = FileOf[o]
    BY RegionIsAnObject
  <2>2. reported[o] \in Int /\ Size[o] \in Int
    BY PlaceBounds
  <2>3. reported[o] <= a /\ a < reported[o] + Size[o]
    BY <1>1, <2>1 DEF RegionHolds
  <2>4. o \in Objs /\ a \in Extent(reported, o)
    BY <2>2, <2>3 DEF MappedIn, Extent
  <2>5. o \in Holders(a)
    BY <2>4 DEF Holders
  <2> QED
    BY <2>1, <2>5
<1>2. ASSUME NEW o \in Holders(a)
      PROVE  \E r \in ToSet(regions) : RegionHolds(r, a)
  <2>1. o \in MappedIn(reported) /\ a \in Extent(reported, o)
    BY DEF Holders
  <2>2. reported[o] \in Int /\ Size[o] \in Int
    BY <2>1, PlaceBounds
  <2>3. reported[o] <= a /\ a < reported[o] + Size[o]
    BY <2>1, <2>2 DEF Extent
  <2>4. PICK r \in ToSet(regions) : r.start = reported[o] /\ r.end = reported[o] + Size[o]
    BY <2>1, ObjectIsARegion
  <2> QED
    BY <2>3, <2>4 DEF RegionHolds
<1> QED
  BY <1>1, <1>2

(* No two objects held one address.                                          *)
LEMMA OneObjectAnAddress ==
  ASSUME reported \in [Objs -> Addresses \cup {Unloaded}], Placed(reported),
         NEW a \in Int, NEW o \in Holders(a), NEW p \in Holders(a)
  PROVE  o = p
<1>1. o \in MappedIn(reported) /\ p \in MappedIn(reported)
      /\ a \in Extent(reported, o) /\ a \in Extent(reported, p)
  BY DEF Holders
<1>2. reported[o] \in Int /\ Size[o] \in Int /\ reported[p] \in Int /\ Size[p] \in Int
  BY <1>1, PlaceBounds
<1>3. /\ reported[o] <= a /\ a < reported[o] + Size[o]
      /\ reported[p] <= a /\ a < reported[p] + Size[p]
  BY <1>1, <1>2 DEF Extent
<1>4. o # p => reported[o] + Size[o] <= reported[p] \/ reported[p] + Size[p] <= reported[o]
  <2>1. \A q, r \in MappedIn(reported) : q # r =>
          reported[q] + Size[q] <= reported[r] \/ reported[r] + Size[r] <= reported[q]
    BY Zenon DEF Placed
  <2> QED
    BY <1>1, <2>1, Zenon
<1> QED
  BY <1>2, <1>3, <1>4

-----------------------------------------------------------------------------
(* How an inspection ends.                                                   *)

LEMMA CapturedTyped ==
  ASSUME TypeOK
  PROVE  /\ Len(captured) \in Nat /\ DOMAIN captured = 1 .. Len(captured)
         /\ \A i \in DOMAIN captured : captured[i].obj \in Objs /\ captured[i].anchor \in Int
<1>1. captured \in Seq([obj : Objs, anchor : Int])
  BY DEF TypeOK
<1>2. \A i \in DOMAIN captured : captured[i] \in [obj : Objs, anchor : Int]
  BY <1>1, MembersTyped
<1>3. Len(captured) \in Nat /\ DOMAIN captured = 1 .. Len(captured)
  BY <1>1, MembersTyped
<1> QED
  BY <1>2, <1>3

(* An object that did not move holds the address its link map names.         *)
LEMMA UnmovedHolds ==
  ASSUME TypeOK, Unmoved, NEW i \in DOMAIN captured
  PROVE  captured[i].obj \in Holders(captured[i].anchor)
<1> DEFINE o == captured[i].obj
<1>1. o \in Objs /\ captured[i].anchor \in Int
  BY CapturedTyped
<1>2. reported[o] # Unloaded /\ captured[i].anchor = reported[o] + Size[o] - 1
  BY DEF Unmoved
<1>3. o \in MappedIn(reported)
  BY <1>1, <1>2 DEF MappedIn
<1>4. reported[o] \in Int /\ Size[o] \in Int /\ Size[o] > 0
  BY <1>3, PlaceBounds DEF TypeOK
<1> HIDE DEF o
<1>5. captured[i].anchor \in Extent(reported, o)
  BY <1>2, <1>4 DEF Extent
<1>6. o \in Holders(captured[i].anchor)
  BY <1>3, <1>5 DEF Holders
<1> QED
  BY <1>6 DEF o

(* A link map whose anchor is in no region was not mapped at the answer.     *)
LEMMA MissingExplained ==
  ASSUME TypeOK, RegionsOrdered, ToSet(regions) = ReportedRegions,
         NEW i \in DOMAIN captured, RegionAt(captured[i].anchor) = {}
  PROVE  Holders(captured[i].anchor) = {} /\ ~Unmoved
<1>1. captured[i].anchor \in Int
  BY CapturedTyped
<1>2. \A r \in ToSet(regions) : ~RegionHolds(r, captured[i].anchor)
  BY <1>1, RegionAtExact DEF TypeOK
<1>3. Holders(captured[i].anchor) = {}
  BY <1>1, <1>2, RegionsAreHolders DEF TypeOK
<1>4. ~Unmoved
  BY <1>3, UnmovedHolds
<1> QED
  BY <1>3, <1>4

(* What normalization has when every link map has its module.                *)
Normalized ==
  /\ Len(modules) = Len(captured)
  /\ \A i \in DOMAIN modules :
       /\ modules[i].name = captured[i].obj
       /\ modules[i].mapping \in ToSet(regions)
       /\ RegionHolds(modules[i].mapping, captured[i].anchor)
       /\ modules[i].file = FileIdentity(modules[i].mapping)

LEMMA ModulesTyped ==
  ASSUME TypeOK, Normalized
  PROVE  /\ modules \in Seq(ModuleRecord) /\ Len(modules) \in Nat
         /\ DOMAIN modules = 1 .. Len(modules) /\ DOMAIN modules = DOMAIN captured
         /\ \A i \in DOMAIN modules :
              /\ modules[i].mapping.start \in Int /\ modules[i].mapping.end \in Int
              /\ Wide(modules[i])
<1>1. modules \in Seq(ModuleRecord)
  BY DEF TypeOK, ModuleRecord
<1>2. Len(modules) \in Nat /\ DOMAIN modules = 1 .. Len(modules)
  BY <1>1, MembersTyped
<1>3. DOMAIN modules = DOMAIN captured
  BY <1>2, CapturedTyped DEF Normalized
<1>4. ASSUME NEW i \in DOMAIN modules
      PROVE  /\ modules[i].mapping.start \in Int /\ modules[i].mapping.end \in Int
             /\ Wide(modules[i])
  <2>1. modules[i] \in ModuleRecord
    BY <1>1, MembersTyped
  <2>2. modules[i].mapping.start \in Int /\ modules[i].mapping.end \in Int
    <3>1. modules[i].mapping \in Region
      BY <2>1 DEF ModuleRecord
    <3> QED
      BY <3>1, RegionBounds
  <2>3. /\ modules[i].mapping.start <= captured[i].anchor
        /\ captured[i].anchor < modules[i].mapping.end
        /\ captured[i].anchor \in Int
    BY <1>3, CapturedTyped DEF Normalized, RegionHolds
  <2> QED
    BY <2>2, <2>3 DEF Wide
<1> QED
  BY <1>1, <1>2, <1>3, <1>4

(* Every address of a published module's mapping is that module's alone.     *)
LEMMA PublishedOwnership ==
  ASSUME TypeOK, Normalized, Unambiguous
  PROVE  \A i \in DOMAIN modules : \A a \in Addresses :
           RegionHolds(modules[i].mapping, a) => ModuleAt(a) = i
<1> TAKE i \in DOMAIN modules
<1> TAKE a \in Addresses
<1> HAVE RegionHolds(modules[i].mapping, a)
<1> DEFINE Test(m) == RegionHolds(m.mapping, a)
           I == {j \in 1 .. Len(modules) : Test(modules[j])}
<1>1. ModuleAt(a) = IF I # {} THEN Min(I) ELSE 0
  BY DEF ModuleAt, SelectInSeq
<1>2. DOMAIN modules = 1 .. Len(modules) /\ Len(modules) \in Nat
  BY ModulesTyped
<1>3. i \in I
  BY <1>2
<1>4. ASSUME NEW j \in I PROVE j = i
  <2>1. SUFFICES ASSUME j # i PROVE FALSE
    OBVIOUS
  <2>2. j \in DOMAIN modules /\ RegionHolds(modules[j].mapping, a)
    BY <1>2
  <2>3. \/ modules[i].mapping.end <= modules[j].mapping.start
        \/ modules[j].mapping.end <= modules[i].mapping.start
    BY <2>1, <2>2, ModulesTyped, UnambiguousApart
  <2>4. /\ modules[i].mapping.start \in Int /\ modules[i].mapping.end \in Int
        /\ modules[j].mapping.start \in Int /\ modules[j].mapping.end \in Int
    BY <2>2, ModulesTyped
  <2>5. Addresses \subseteq Int
    BY AddressAssumption
  <2> QED
    BY <2>2, <2>3, <2>4, <2>5 DEF RegionHolds
<1> HIDE DEF I
<1>5. I \subseteq Nat /\ I # {}
  BY <1>2, <1>3, <1>4
<1>6. Min(I) \in I
  BY <1>5, MinIsLeast
<1> QED
  BY <1>1, <1>4, <1>5, <1>6

(* Objects that did not move get their own mapping and file.                 *)
LEMMA PublishedOwnMapping ==
  ASSUME TypeOK, Normalized, Placed(reported), ToSet(regions) = ReportedRegions, Unmoved,
         NEW i \in DOMAIN modules
  PROVE  /\ modules[i].mapping.start = reported[modules[i].name]
         /\ modules[i].mapping.end = reported[modules[i].name] + Size[modules[i].name]
         /\ modules[i].file = FileOf[modules[i].name]
<1> DEFINE a == captured[i].anchor
<1>1. i \in DOMAIN captured /\ a \in Int
  BY ModulesTyped, CapturedTyped
<1>2. /\ modules[i].name = captured[i].obj
      /\ modules[i].mapping \in ToSet(regions)
      /\ RegionHolds(modules[i].mapping, a)
      /\ modules[i].file = FileIdentity(modules[i].mapping)
  BY DEF Normalized
<1>3. captured[i].obj \in Holders(a)
  BY <1>1, UnmovedHolds
<1>4. reported \in [Objs -> Addresses \cup {Unloaded}]
  BY DEF TypeOK
<1> HIDE DEF a
<1>5. PICK o \in Holders(a) :
        /\ modules[i].mapping.start = reported[o]
        /\ modules[i].mapping.end = reported[o] + Size[o]
        /\ FileIdentity(modules[i].mapping) = FileOf[o]
  BY <1>1, <1>2, <1>4, RegionsAreHolders
<1>6. o = captured[i].obj
  BY <1>1, <1>3, <1>4, OneObjectAnAddress
<1> QED
  BY <1>2, <1>5, <1>6

(* Ambiguous ownership is two link maps with anchors in one reported object; *)
(* if neither moved, both are the linker's.                                  *)
LEMMA AmbiguityExplained ==
  ASSUME TypeOK, RegionsOrdered, Normalized, Placed(reported), CapturedOnce,
         ToSet(regions) = ReportedRegions, ~Unambiguous
  PROVE  /\ \E i, j \in DOMAIN captured :
              i # j /\ Holders(captured[i].anchor) \cap Holders(captured[j].anchor) # {}
         /\ Unmoved => Proxied
<1>1. modules \in Seq(ModuleRecord)
  BY ModulesTyped
<1>2. PICK p, q \in DOMAIN modules :
        /\ p # q
        /\ modules[p].mapping.start <= modules[q].mapping.start
        /\ modules[q].mapping.start < modules[p].mapping.end
  BY <1>1, AmbiguousPair
<1>3. p \in DOMAIN captured /\ q \in DOMAIN captured
  BY ModulesTyped
<1>4. /\ modules[p].mapping \in ToSet(regions) /\ RegionHolds(modules[p].mapping, captured[p].anchor)
      /\ modules[q].mapping \in ToSet(regions) /\ RegionHolds(modules[q].mapping, captured[q].anchor)
  BY DEF Normalized
<1>5. modules[p].mapping = modules[q].mapping
  <2>1. modules[q].mapping.start \in Int /\ modules[q].mapping.start < modules[q].mapping.end
    BY ModulesTyped DEF Wide
  <2>2. RegionHolds(modules[q].mapping, modules[q].mapping.start)
    BY <2>1 DEF RegionHolds
  <2>3. RegionHolds(modules[p].mapping, modules[q].mapping.start)
    BY <1>2 DEF RegionHolds
  <2>4. regions \in Seq(Region)
    BY DEF TypeOK
  <2> QED
    BY <1>4, <2>1, <2>2, <2>3, <2>4, OneHolder
<1>6. captured[p].anchor \in Int /\ captured[q].anchor \in Int
  BY <1>3, CapturedTyped
<1>7. reported \in [Objs -> Addresses \cup {Unloaded}]
  BY DEF TypeOK
<1>8. PICK o \in MappedIn(reported) :
        modules[p].mapping.start = reported[o] /\ modules[p].mapping.end = reported[o] + Size[o]
  BY <1>4, <1>7, RegionIsAnObject
<1>9. \A a \in Int : RegionHolds(modules[p].mapping, a) => o \in Holders(a)
  <2> TAKE a \in Int
  <2> HAVE RegionHolds(modules[p].mapping, a)
  <2>1. reported[o] \in Int /\ Size[o] \in Int
    BY <1>7, PlaceBounds
  <2>2. reported[o] <= a /\ a < reported[o] + Size[o]
    BY <1>8 DEF RegionHolds
  <2>3. a \in Extent(reported, o)
    BY <2>1, <2>2 DEF Extent
  <2> QED
    BY <2>3 DEF Holders
<1>10. o \in Holders(captured[p].anchor) /\ o \in Holders(captured[q].anchor)
  BY <1>4, <1>5, <1>6, <1>9
<1>11. ASSUME Unmoved PROVE Proxied
  <2>1. /\ captured[p].obj \in Holders(captured[p].anchor)
        /\ captured[q].obj \in Holders(captured[q].anchor)
    BY <1>3, <1>11, UnmovedHolds
  <2>2. captured[p].obj = o /\ captured[q].obj = o
    BY <1>6, <1>7, <1>10, <2>1, OneObjectAnAddress
  <2> QED
    BY <2>2, <1>2, <1>3 DEF CapturedOnce, Proxied
<1> QED
  BY <1>2, <1>3, <1>10, <1>11

(* Two link maps of the linker, if it did not move, claim one mapping.       *)
LEMMA ProxiedAmbiguous ==
  ASSUME TypeOK, Normalized, Placed(reported), ToSet(regions) = ReportedRegions,
         Unmoved, Proxied
  PROVE  ~Unambiguous
<1>1. PICK i, j \in DOMAIN captured : i # j /\ captured[i].obj = Linker /\ captured[j].obj = Linker
  BY DEF Proxied
<1>2. i \in DOMAIN modules /\ j \in DOMAIN modules
  BY ModulesTyped
<1>3. modules[i].name = Linker /\ modules[j].name = Linker
  BY <1>1, <1>2 DEF Normalized
<1>4. /\ modules[i].mapping.start = reported[Linker]
      /\ modules[i].mapping.end = reported[Linker] + Size[Linker]
      /\ modules[j].mapping.start = reported[Linker]
      /\ modules[j].mapping.end = reported[Linker] + Size[Linker]
  BY <1>2, <1>3, PublishedOwnMapping
<1>5. /\ modules[i].mapping.start \in Int /\ modules[i].mapping.end \in Int
      /\ modules[i].mapping.start < modules[i].mapping.end
  BY <1>2, ModulesTyped DEF Wide
<1>6. SUFFICES ASSUME Unambiguous PROVE FALSE
  OBVIOUS
<1>7. \/ modules[i].mapping.end <= modules[j].mapping.start
      \/ modules[j].mapping.end <= modules[i].mapping.start
  BY <1>1, <1>2, <1>6, ModulesTyped, UnambiguousApart
<1> QED
  BY <1>4, <1>5, <1>7

-----------------------------------------------------------------------------
(* Initially.                                                                *)

LEMMA PinnedListed ==
  /\ SetToSeq(Pinned) \in Seq(Pinned)
  /\ ToSet(SetToSeq(Pinned)) = Pinned
  /\ \A i, j \in DOMAIN SetToSeq(Pinned) :
       SetToSeq(Pinned)[i] = SetToSeq(Pinned)[j] => i = j
<1> DEFINE n == Cardinality(Pinned)
           s == SetToSeq(Pinned)
<1>1. IsFiniteSet(Pinned)
  <2>1. Pinned \in SUBSET Objs /\ IsFiniteSet(Objs)
    BY ObjectAssumption
  <2> QED
    BY <2>1, FS_Subset
<1>2. n \in Nat /\ ExistsBijection(1 .. n, Pinned)
  BY <1>1, FS_CardinalityType
<1>3. PICK f \in Bijection(1 .. n, Pinned) : TRUE
  BY <1>2 DEF ExistsBijection
<1>4. f \in [1 .. n -> Pinned] /\ IsInjective(f)
  BY <1>3 DEF Bijection, Injection
<1>5. s = CHOOSE g \in [1 .. n -> Pinned] : IsInjective(g)
  BY DEF SetToSeq
<1>6. s \in [1 .. n -> Pinned] /\ IsInjective(s)
  BY <1>4, <1>5, Zenon
<1> HIDE DEF s, n
<1>7. s \in Injection(1 .. n, Pinned)
  BY <1>6 DEF Injection
<1>8. s \in Surjection(1 .. n, Pinned)
  <2>1. Cardinality(1 .. n) = Cardinality(Pinned)
    BY <1>2, FS_Interval DEF n
  <2>2. Cardinality(1 .. n) = Cardinality(Pinned) <=> s \in Surjection(1 .. n, Pinned)
    BY <1>1, <1>7, FS_Injection, Zenon
  <2> QED
    BY <2>1, <2>2
<1>9. s \in Seq(Pinned)
  BY <1>2, <1>6, SeqDef
<1>10. DOMAIN s = 1 .. n
  BY <1>6
<1>11. ToSet(s) = Pinned
  BY <1>6, <1>8, <1>10 DEF Surjection, ToSet
<1>12. \A i, j \in DOMAIN s : s[i] = s[j] => i = j
  BY <1>6 DEF IsInjective
<1> QED
  BY <1>9, <1>11, <1>12 DEF s

LEMMA IntervalsApart ==
  ASSUME NEW b \in Int, NEW c \in Int, NEW s \in Nat \ {0}, NEW t \in Nat \ {0},
         (b .. (b + s - 1)) \cap (c .. (c + t - 1)) = {}
  PROVE  b + s <= c \/ c + t <= b
<1>1. CASE b <= c
  <2>1. c \in c .. (c + t - 1)
    OBVIOUS
  <2>2. c \notin b .. (b + s - 1)
    BY <2>1
  <2> QED
    BY <1>1, <2>2
<1>2. CASE c < b
  <2>1. b \in b .. (b + s - 1)
    OBVIOUS
  <2>2. b \notin c .. (c + t - 1)
    BY <2>1
  <2> QED
    BY <1>2, <2>2
<1> QED
  BY <1>1, <1>2

LEMMA UnloadedIsNoAddress == Addresses \subseteq Int /\ Unloaded \notin Addresses
  BY AddressAssumption DEF Unloaded

(* In a step that neither ends the inspection nor fails, the outcomes say  *)
(* nothing.                                                                  *)
LEMMA OutcomesOpen ==
  ASSUME stage' # "done", failure' = "none"
  PROVE  Outcomes'
  BY DEF Outcomes, OwnershipUnique, RefusalExplained, UnmovedInspectionDecided, Published

LEMMA Initially == Init => IInv
<1> SUFFICES ASSUME Init PROVE IInv
  OBVIOUS
<1>1. PICK place \in [Pinned -> Addresses] :
        /\ base = [o \in Objs |-> IF o \in Pinned THEN place[o] ELSE Unloaded]
        /\ \A o \in Pinned : place[o] + Size[o] \in Addresses
        /\ \A o, p \in Pinned : o # p => Extent(base, o) \cap Extent(base, p) = {}
  BY DEF Init
<1>2. Pinned \subseteq Objs /\ Size \in [Objs -> Nat \ {0}]
  BY ObjectAssumption
<1>3. base \in [Objs -> Addresses \cup {Unloaded}]
  BY <1>1
<1>4. MappedIn(base) = Pinned /\ \A o \in Pinned : base[o] = place[o]
  BY <1>1, <1>2, UnloadedIsNoAddress DEF MappedIn
<1>5. Placed(base)
  <2>1. ASSUME NEW o \in Pinned, NEW p \in Pinned, o # p
        PROVE  base[o] + Size[o] <= base[p] \/ base[p] + Size[p] <= base[o]
    <3>1. base[o] \in Int /\ base[p] \in Int
      BY <1>4, UnloadedIsNoAddress
    <3>2. Size[o] \in Nat \ {0} /\ Size[p] \in Nat \ {0}
      BY <1>2
    <3>3. (base[o] .. (base[o] + Size[o] - 1)) \cap (base[p] .. (base[p] + Size[p] - 1)) = {}
      BY <1>1, <2>1 DEF Extent
    <3> QED
      BY <3>1, <3>2, <3>3, IntervalsApart
  <2>2. \A o \in Pinned : base[o] \in Addresses /\ base[o] + Size[o] \in Addresses
    BY <1>1, <1>4
  <2> QED
    BY <1>4, <2>1, <2>2 DEF Placed
<1>6. loaded \in Seq(Entries) /\ ListOnce
  <2> DEFINE s == SetToSeq(Pinned)
  <2>1. loaded = [i \in DOMAIN s |-> [obj |-> s[i], space |-> 1]]
    BY DEF Init
  <2>2. /\ s \in Seq(Pinned) /\ ToSet(s) = Pinned
        /\ \A i, j \in DOMAIN s : s[i] = s[j] => i = j
    BY PinnedListed
  <2> HIDE DEF s
  <2>3. /\ Len(s) \in Nat /\ DOMAIN s = 1 .. Len(s)
        /\ \A i \in DOMAIN s : s[i] \in Pinned
    BY <2>2, MembersTyped
  <2>4. /\ DOMAIN loaded = DOMAIN s
        /\ \A i \in DOMAIN s :
             /\ loaded[i] = [obj |-> s[i], space |-> 1]
             /\ loaded[i] \in Entries /\ loaded[i].obj = s[i]
    BY <1>2, <2>1, <2>3, ObjectAssumption DEF Entries
  <2>5. loaded \in Seq(Entries)
    <3>1. loaded \in [1 .. Len(s) -> Entries]
      BY <2>1, <2>3, <2>4
    <3> QED
      BY <2>3, <3>1, SeqDef
  <2>6. {loaded[i].obj : i \in DOMAIN loaded} = MappedIn(base)
    <3>1. {loaded[i].obj : i \in DOMAIN loaded} = {s[i] : i \in DOMAIN s}
      BY <2>4
    <3>2. {s[i] : i \in DOMAIN s} = Pinned
      BY <2>2 DEF ToSet
    <3> QED
      BY <1>4, <3>1, <3>2
  <2>7. \E i \in DOMAIN loaded : loaded[i] = [obj |-> Linker, space |-> 1]
    <3>1. PICK i \in DOMAIN s : s[i] = Linker
      BY <2>2, ObjectAssumption DEF ToSet
    <3> QED
      BY <2>4, <3>1
  <2> QED
    BY <2>2, <2>4, <2>5, <2>6, <2>7 DEF ListOnce
<1>7. /\ stage = "query" /\ failure = "none" /\ layouts = <<>> /\ regions = <<>>
      /\ captured = <<>> /\ modules = <<>> /\ changes = 0
      /\ reported = base /\ genuine = FALSE
  BY DEF Init
<1>8. TypeOK
  <2>1. /\ layouts \in Seq(Layout) /\ regions \in Seq(Region)
        /\ captured \in Seq([obj : Objs, anchor : Int])
        /\ modules \in Seq([name : Objs, mapping : Region, file : Files \cup {NoFile}])
    BY <1>7, EmptySeq
  <2>2. changes \in 0 .. MaxChanges
    BY <1>7, ObjectAssumption
  <2> QED
    BY <1>3, <1>6, <1>7, <2>1, <2>2 DEF TypeOK
<1>9. RegionsOrdered /\ CapturedOnce
  BY <1>7 DEF RegionsOrdered, CapturedOnce
<1>10. GenuineAdmission /\ FaultAhead /\ Admitted /\ NormalizedSoFar /\ Untouched
  BY <1>7 DEF GenuineAdmission, FaultAhead, Admitted, NormalizedSoFar, Untouched
<1>11. Outcomes
  BY <1>7 DEF Outcomes, OwnershipUnique, RefusalExplained, UnmovedInspectionDecided, Published
<1> QED
  BY <1>5, <1>6, <1>7, <1>8, <1>9, <1>10, <1>11 DEF IInv

-----------------------------------------------------------------------------
(* Steps of the process.                                                     *)

(* They disturb only what relates the loader's list to the address space.    *)
LEMMA ObserverKept ==
  ASSUME IInv, UNCHANGED <<stage, snapshotVars, captured, modules, histVars>>
  PROVE  /\ RegionsOrdered' /\ Placed(reported)' /\ CapturedOnce'
         /\ GenuineAdmission' /\ FaultAhead' /\ Admitted' /\ NormalizedSoFar'
         /\ Untouched' /\ Outcomes'
<1>1. /\ stage' = stage /\ layouts' = layouts /\ regions' = regions /\ failure' = failure
      /\ captured' = captured /\ modules' = modules /\ reported' = reported
      /\ genuine' = genuine
  BY DEF snapshotVars, histVars
<1>2. RegionsOrdered' /\ CapturedOnce'
  BY <1>1 DEF IInv, RegionsOrdered, CapturedOnce
<1>3. Placed(reported)'
  <2>1. Placed(reported)
    BY DEF IInv
  <2> QED
    BY <1>1, <2>1 DEF Placed, MappedIn
<1>4. ReportedRegions' = ReportedRegions
  BY <1>1 DEF ReportedRegions, LayoutsOf, LayoutOf, MappedIn
<1>5. GenuineAdmission' /\ Admitted'
  BY <1>1, <1>4 DEF IInv, GenuineAdmission, Admitted, InOrder
<1>6. FaultAhead' /\ NormalizedSoFar' /\ Untouched'
  BY <1>1 DEF IInv, FaultAhead, NormalizedSoFar, Untouched
<1>7. Outcomes'
  <2>1. Outcomes
    BY DEF IInv
  <2>2. \A a : Holders(a)' = Holders(a)
    BY <1>1 DEF Holders, MappedIn, Extent
  <2>3. \A a : ModuleAt(a)' = ModuleAt(a)
    BY <1>1 DEF ModuleAt, SelectInSeq
  <2>4. OwnershipUnique'
    BY <1>1, <2>1, <2>3 DEF Outcomes, OwnershipUnique, Published
  <2>5. RefusalExplained'
    BY <1>1, <2>1, <2>2 DEF Outcomes, RefusalExplained
  <2>6. UnmovedInspectionDecided'
    BY <1>1, <2>1 DEF Outcomes, UnmovedInspectionDecided, Unmoved, Proxied
  <2> QED
    BY <2>4, <2>5, <2>6 DEF Outcomes
<1> QED
  BY <1>2, <1>3, <1>5, <1>6, <1>7

(* What is left of a sequence without its i-th member.                       *)
LEMMA RemoveAtProperties ==
  ASSUME NEW S, NEW s \in Seq(S), NEW i \in 1 .. Len(s)
  PROVE  /\ RemoveAt(s, i) \in Seq(S)
         /\ DOMAIN RemoveAt(s, i) = 1 .. (Len(s) - 1)
         /\ \A j \in 1 .. (Len(s) - 1) : RemoveAt(s, i)[j] = IF j < i THEN s[j] ELSE s[j + 1]
<1> DEFINE u == SubSeq(s, 1, i - 1)
           v == SubSeq(s, i + 1, Len(s))
<1>1. Len(s) \in Nat /\ i \in Nat
  BY LenProperties
<1>2. /\ u \in Seq(S) /\ Len(u) = i - 1
      /\ \A j \in 1 .. (i - 1) : u[j] = s[j]
  BY <1>1
<1>3. /\ v \in Seq(S) /\ Len(v) = Len(s) - i
      /\ \A j \in 1 .. (Len(s) - i) : v[j] = s[j + i]
  BY <1>1
<1> HIDE DEF u, v
<1>4. RemoveAt(s, i) = u \o v
  BY DEF RemoveAt, u, v
<1>5. /\ u \o v \in Seq(S) /\ Len(u \o v) = Len(s) - 1
      /\ \A j \in 1 .. Len(u) : (u \o v)[j] = u[j]
      /\ \A j \in 1 .. Len(v) : (u \o v)[Len(u) + j] = v[j]
  <2>1. /\ u \o v \in Seq(S) /\ Len(u \o v) = Len(u) + Len(v)
        /\ \A j \in 1 .. (Len(u) + Len(v)) :
             (u \o v)[j] = IF j <= Len(u) THEN u[j] ELSE v[j - Len(u)]
    BY <1>2, <1>3, ConcatProperties
  <2>2. Len(u) + Len(v) = Len(s) - 1 /\ Len(u) \in Nat /\ Len(v) \in Nat
    BY <1>1, <1>2, <1>3
  <2>3. \A j \in 1 .. Len(u) : (u \o v)[j] = u[j]
    BY <2>1, <2>2
  <2>4. ASSUME NEW j \in 1 .. Len(v) PROVE (u \o v)[Len(u) + j] = v[j]
    <3>1. Len(u) + j \in 1 .. (Len(u) + Len(v)) /\ ~(Len(u) + j <= Len(u)) /\ (Len(u) + j) - Len(u) = j
      BY <2>2
    <3> QED
      BY <2>1, <3>1
  <2> QED
    BY <2>1, <2>2, <2>3, <2>4
<1>6. ASSUME NEW j \in 1 .. (Len(s) - 1)
      PROVE  (u \o v)[j] = IF j < i THEN s[j] ELSE s[j + 1]
  <2>1. CASE j < i
    BY <1>1, <1>2, <1>5, <2>1
  <2>2. CASE ~(j < i)
    <3>1. j - (i - 1) \in 1 .. (Len(s) - i) /\ j = (i - 1) + (j - (i - 1))
      BY <1>1, <2>2
    <3>2. (u \o v)[j] = v[j - (i - 1)]
      BY <1>2, <1>3, <1>5, <3>1
    <3>3. v[j - (i - 1)] = s[(j - (i - 1)) + i]
      BY <1>3, <3>1
    <3>4. (j - (i - 1)) + i = j + 1
      BY <1>1
    <3> QED
      BY <2>2, <3>2, <3>3, <3>4
  <2> QED
    BY <2>1, <2>2
<1> QED
  BY <1>4, <1>5, <1>6, LenProperties

(* A sequence with a member put before its i-th.                             *)
LEMMA InsertAtProperties ==
  ASSUME NEW S, NEW s \in Seq(S), NEW e \in S, NEW i \in 1 .. (Len(s) + 1)
  PROVE  /\ InsertAt(s, i, e) \in Seq(S)
         /\ DOMAIN InsertAt(s, i, e) = 1 .. (Len(s) + 1)
         /\ \A j \in 1 .. (Len(s) + 1) :
              InsertAt(s, i, e)[j] = IF j < i THEN s[j] ELSE IF j = i THEN e ELSE s[j - 1]
<1> DEFINE u == SubSeq(s, 1, i - 1)
           v == SubSeq(s, i, Len(s))
           w == u \o <<e>>
<1>1. Len(s) \in Nat /\ i \in Nat
  BY LenProperties
<1>2. /\ u \in Seq(S) /\ Len(u) = i - 1
      /\ \A j \in 1 .. (i - 1) : u[j] = s[j]
  BY <1>1
<1>3. /\ v \in Seq(S) /\ Len(v) = Len(s) - i + 1
      /\ \A j \in 1 .. (Len(s) - i + 1) : v[j] = s[j + i - 1]
  BY <1>1
<1> HIDE DEF u, v
<1>4. InsertAt(s, i, e) = w \o v
  BY DEF InsertAt, u, v
<1>5. /\ w \in Seq(S) /\ Len(w) = i
      /\ w[i] = e /\ \A j \in 1 .. (i - 1) : w[j] = s[j]
  <2>1. /\ w \in Seq(S) /\ Len(w) = Len(u) + 1
        /\ \A j \in 1 .. (Len(u) + 1) : w[j] = IF j <= Len(u) THEN u[j] ELSE <<e>>[j - Len(u)]
    <3>1. <<e>> \in Seq(S) /\ Len(<<e>>) = 1
      OBVIOUS
    <3> QED
      BY <1>2, <3>1, ConcatProperties
  <2> QED
    BY <1>1, <1>2, <2>1
<1> HIDE DEF w
<1>6. /\ w \o v \in Seq(S) /\ Len(w \o v) = Len(s) + 1
      /\ \A j \in 1 .. (Len(s) + 1) : (w \o v)[j] = IF j <= i THEN w[j] ELSE v[j - i]
  <2>1. /\ w \o v \in Seq(S) /\ Len(w \o v) = Len(w) + Len(v)
        /\ \A j \in 1 .. (Len(w) + Len(v)) :
             (w \o v)[j] = IF j <= Len(w) THEN w[j] ELSE v[j - Len(w)]
    BY <1>3, <1>5, ConcatProperties
  <2> QED
    BY <1>1, <1>3, <1>5, <2>1
<1>7. ASSUME NEW j \in 1 .. (Len(s) + 1)
      PROVE  (w \o v)[j] = IF j < i THEN s[j] ELSE IF j = i THEN e ELSE s[j - 1]
  <2>1. CASE j <= i
    BY <1>1, <1>5, <1>6, <2>1
  <2>2. CASE ~(j <= i)
    <3>1. j - i \in 1 .. (Len(s) - i + 1) /\ (j - i) + i - 1 = j - 1
      BY <1>1, <2>2
    <3> QED
      BY <1>1, <1>3, <1>6, <2>2, <3>1
  <2> QED
    BY <2>1, <2>2
<1> QED
  BY <1>4, <1>6, <1>7, LenProperties

(* InsertAtProperties, of the loader's lists.                                *)
LEMMA EntryInserted ==
  ASSUME NEW q \in Seq(Entries), NEW n \in Entries, NEW k \in 1 .. (Len(q) + 1)
  PROVE  /\ InsertAt(q, k, n) \in Seq(Entries)
         /\ DOMAIN InsertAt(q, k, n) = 1 .. (Len(q) + 1)
         /\ \A j \in 1 .. (Len(q) + 1) :
              InsertAt(q, k, n)[j] = IF j < k THEN q[j] ELSE IF j = k THEN n ELSE q[j - 1]
  BY InsertAtProperties

(* The lists after a link map was put into one of them.                      *)
LEMMA ListedAfterLink ==
  ASSUME loaded \in Seq(Entries), ListOnce, NEW o \in Objs, NEW s \in 1 .. Spaces,
         Link(o, s), o \notin MappedIn(base) \/ o = Linker,
         MappedIn(base') = MappedIn(base) \cup {o}
  PROVE  loaded' \in Seq(Entries) /\ ListOnce'
<1> DEFINE e == [obj |-> o, space |-> s]
           old(k, j) == IF j < k THEN j ELSE j - 1
<1>1. PICK i \in 1 .. (Len(loaded) + 1) : loaded' = InsertAt(loaded, i, e)
  BY DEF Link
<1>2. e \in Entries /\ e.obj = o
  BY DEF Entries
<1> HIDE DEF e
<1>3. Len(loaded) \in Nat /\ DOMAIN loaded = 1 .. Len(loaded)
  BY MembersTyped
<1>4. /\ loaded' \in Seq(Entries) /\ DOMAIN loaded' = 1 .. (Len(loaded) + 1)
      /\ \A j \in 1 .. (Len(loaded) + 1) :
           loaded'[j] = IF j < i THEN loaded[j] ELSE IF j = i THEN e ELSE loaded[j - 1]
  <2> DEFINE u == InsertAt(loaded, i, e)
  <2>1. /\ u \in Seq(Entries) /\ DOMAIN u = 1 .. (Len(loaded) + 1)
        /\ \A j \in 1 .. (Len(loaded) + 1) :
             u[j] = IF j < i THEN loaded[j] ELSE IF j = i THEN e ELSE loaded[j - 1]
    BY <1>2, EntryInserted
  <2> HIDE DEF u
  <2>2. loaded' = u
    BY <1>1 DEF u
  <2> QED
    BY <2>1, <2>2
<1>5. i \in DOMAIN loaded' /\ loaded'[i] = e
  BY <1>3, <1>4
<1>6. ASSUME NEW j \in DOMAIN loaded', j # i
      PROVE  old(i, j) \in DOMAIN loaded /\ loaded'[j] = loaded[old(i, j)]
  BY <1>3, <1>4, <1>6
<1>7. ASSUME NEW k \in DOMAIN loaded
      PROVE  \E j \in DOMAIN loaded' : j # i /\ old(i, j) = k
  <2>1. CASE k < i
    <3>1. k \in DOMAIN loaded' /\ k # i /\ old(i, k) = k
      BY <1>3, <1>4, <2>1
    <3> QED
      BY <3>1
  <2>2. CASE ~(k < i)
    <3>1. k + 1 \in DOMAIN loaded' /\ k + 1 # i /\ old(i, k + 1) = k
      BY <1>3, <1>4, <2>2
    <3> QED
      BY <3>1
  <2> QED
    BY <2>1, <2>2
<1>8. ASSUME NEW j \in DOMAIN loaded', NEW k \in DOMAIN loaded', j # i, k # i, old(i, j) = old(i, k)
      PROVE  j = k
  BY <1>3, <1>4, <1>8
<1> HIDE DEF old
<1>9. /\ {loaded[j].obj : j \in DOMAIN loaded} = MappedIn(base)
      /\ \A j, k \in DOMAIN loaded :
           loaded[j].obj = loaded[k].obj => j = k \/ loaded[j].obj = Linker
      /\ \E j \in DOMAIN loaded : loaded[j] = [obj |-> Linker, space |-> 1]
  BY DEF ListOnce
<1>10. {loaded'[j].obj : j \in DOMAIN loaded'} = MappedIn(base) \cup {o}
  <2>1. \A j \in DOMAIN loaded' : loaded'[j].obj \in MappedIn(base) \cup {o}
    BY <1>2, <1>5, <1>6, <1>9
  <2>2. ASSUME NEW x \in MappedIn(base) \cup {o}
        PROVE  \E j \in DOMAIN loaded' : loaded'[j].obj = x
    BY <1>2, <1>5, <1>6, <1>7, <1>9
  <2> QED
    BY <2>1, <2>2
<1>11. ASSUME NEW j \in DOMAIN loaded', NEW k \in DOMAIN loaded', loaded'[j].obj = loaded'[k].obj
       PROVE  j = k \/ loaded'[j].obj = Linker
  <2>1. CASE j # i /\ k # i
    BY <1>6, <1>8, <1>9, <1>11, <2>1
  <2>2. CASE j = i /\ k # i
    <3>1. loaded'[k].obj \in MappedIn(base)
      BY <1>6, <1>9, <2>2
    <3> QED
      BY <1>2, <1>5, <1>11, <2>2, <3>1
  <2>3. CASE j # i /\ k = i
    <3>1. loaded'[j].obj \in MappedIn(base)
      BY <1>6, <1>9, <2>3
    <3> QED
      BY <1>2, <1>5, <1>11, <2>3, <3>1
  <2> QED
    BY <2>1, <2>2, <2>3
<1>12. \E j \in DOMAIN loaded' : loaded'[j] = [obj |-> Linker, space |-> 1]
  BY <1>6, <1>7, <1>9
<1> QED
  BY <1>4, <1>10, <1>11, <1>12 DEF ListOnce

(* The lists after a link map was taken out, not the first namespace's of    *)
(* the linker.                                                               *)
LEMMA ListedAfterUnlink ==
  ASSUME loaded \in Seq(Entries), ListOnce, NEW i \in DOMAIN loaded,
         loaded' = RemoveAt(loaded, i),
         \/ loaded[i].obj # Linker /\ MappedIn(base') = MappedIn(base) \ {loaded[i].obj}
         \/ loaded[i].obj = Linker /\ loaded[i].space # 1 /\ MappedIn(base') = MappedIn(base)
  PROVE  loaded' \in Seq(Entries) /\ ListOnce'
<1> DEFINE o == loaded[i].obj
           old(j) == IF j < i THEN j ELSE j + 1
<1>1. Len(loaded) \in Nat /\ DOMAIN loaded = 1 .. Len(loaded)
  BY MembersTyped
<1>2. /\ loaded' \in Seq(Entries) /\ DOMAIN loaded' = 1 .. (Len(loaded) - 1)
      /\ \A j \in 1 .. (Len(loaded) - 1) :
           loaded'[j] = IF j < i THEN loaded[j] ELSE loaded[j + 1]
  BY <1>1, RemoveAtProperties
<1>3. ASSUME NEW j \in DOMAIN loaded'
      PROVE  old(j) \in DOMAIN loaded /\ old(j) # i /\ loaded'[j] = loaded[old(j)]
  BY <1>1, <1>2, <1>3
<1>4. ASSUME NEW k \in DOMAIN loaded, k # i
      PROVE  \E j \in DOMAIN loaded' : old(j) = k
  <2>1. CASE k < i
    <3>1. k \in DOMAIN loaded' /\ old(k) = k
      BY <1>1, <1>2, <2>1
    <3> QED
      BY <3>1
  <2>2. CASE ~(k < i)
    <3>1. k - 1 \in DOMAIN loaded' /\ old(k - 1) = k
      BY <1>1, <1>2, <1>4, <2>2
    <3> QED
      BY <3>1
  <2> QED
    BY <2>1, <2>2
<1>5. ASSUME NEW j \in DOMAIN loaded', NEW k \in DOMAIN loaded', old(j) = old(k)
      PROVE  j = k
  BY <1>1, <1>2, <1>5
<1> HIDE DEF old
<1>6. /\ {loaded[j].obj : j \in DOMAIN loaded} = MappedIn(base)
      /\ \A j, k \in DOMAIN loaded :
           loaded[j].obj = loaded[k].obj => j = k \/ loaded[j].obj = Linker
  BY DEF ListOnce
<1>7. PICK first \in DOMAIN loaded : loaded[first] = [obj |-> Linker, space |-> 1]
  BY DEF ListOnce
<1>8. first # i
  BY <1>7
<1>9. {loaded'[j].obj : j \in DOMAIN loaded'} = MappedIn(base')
  <2>1. ASSUME NEW j \in DOMAIN loaded' PROVE loaded'[j].obj \in MappedIn(base')
    <3>1. old(j) \in DOMAIN loaded /\ old(j) # i /\ loaded'[j] = loaded[old(j)]
      BY <1>3
    <3>2. loaded[old(j)].obj \in MappedIn(base)
      BY <1>6, <3>1
    <3>3. loaded[old(j)].obj = o => o = Linker
      BY <1>6, <3>1
    <3> QED
      BY <3>1, <3>2, <3>3
  <2>2. ASSUME NEW x \in MappedIn(base') PROVE \E j \in DOMAIN loaded' : loaded'[j].obj = x
    <3>1. PICK k \in DOMAIN loaded : loaded[k].obj = x
      BY <1>6
    <3>2. PICK l \in DOMAIN loaded : l # i /\ loaded[l].obj = x
      <4>1. CASE k # i
        BY <3>1, <4>1
      <4>2. CASE k = i
        <5>1. x = Linker
          BY <3>1, <4>2
        <5> QED
          BY <1>7, <1>8, <5>1
      <4> QED
        BY <4>1, <4>2
    <3> QED
      BY <1>3, <1>4, <3>2
  <2> QED
    BY <2>1, <2>2
<1>10. ASSUME NEW j \in DOMAIN loaded', NEW k \in DOMAIN loaded', loaded'[j].obj = loaded'[k].obj
       PROVE  j = k \/ loaded'[j].obj = Linker
  BY <1>3, <1>5, <1>6, <1>10
<1>11. \E j \in DOMAIN loaded' : loaded'[j] = [obj |-> Linker, space |-> 1]
  BY <1>3, <1>4, <1>7, <1>8
<1> QED
  BY <1>2, <1>9, <1>10, <1>11 DEF ListOnce

LEMMA LoadStep ==
  ASSUME IInv, Load
  PROVE  IInv'
<1>1. PICK o \in Objs, s \in 1 .. Spaces, a \in Addresses :
        /\ Change
        /\ base[o] = Unloaded
        /\ a + Size[o] \in Addresses
        /\ \A p \in MappedIn(base) : Extent(base, p) \cap (a .. (a + Size[o] - 1)) = {}
        /\ base' = [base EXCEPT ![o] = a]
        /\ Link(o, s)
  BY DEF Load
<1>2. /\ changes < MaxChanges /\ changes' = changes + 1
      /\ UNCHANGED <<stage, snapshotVars, captured, modules, histVars>>
  BY <1>1 DEF Change
<1>3. /\ TypeOK /\ Placed(base) /\ ListOnce
      /\ base \in [Objs -> Addresses \cup {Unloaded}] /\ loaded \in Seq(Entries)
  BY DEF IInv, TypeOK
<1>4. a \in Int /\ a # Unloaded
  BY UnloadedIsNoAddress
<1>5. MappedIn(base') = MappedIn(base) \cup {o}
      /\ base'[o] = a /\ \A p \in MappedIn(base) : p # o /\ base'[p] = base[p]
  BY <1>1, <1>3, <1>4 DEF MappedIn
<1>6. Placed(base')
  <2>1. ASSUME NEW p \in MappedIn(base)
        PROVE  base[p] + Size[p] <= a \/ a + Size[o] <= base[p]
    <3>1. p \in Objs /\ base[p] \in Addresses
      BY <1>3 DEF MappedIn, Placed
    <3>2. base[p] \in Int
      BY <3>1, UnloadedIsNoAddress
    <3>3. Size[p] \in Nat \ {0} /\ Size[o] \in Nat \ {0}
      BY <3>1, ObjectAssumption
    <3>4. (base[p] .. (base[p] + Size[p] - 1)) \cap (a .. (a + Size[o] - 1)) = {}
      BY <1>1 DEF Extent
    <3> QED
      BY <3>2, <3>3, <3>4, <1>4, IntervalsApart
  <2>2. ASSUME NEW p \in MappedIn(base), NEW q \in MappedIn(base), p # q
        PROVE  base[p] + Size[p] <= base[q] \/ base[q] + Size[q] <= base[p]
    BY <1>3, <2>2 DEF Placed
  <2>3. \A p \in MappedIn(base') : base'[p] \in Addresses /\ base'[p] + Size[p] \in Addresses
    BY <1>1, <1>3, <1>5 DEF Placed
  <2>4. ASSUME NEW p \in MappedIn(base'), NEW q \in MappedIn(base'), p # q
        PROVE  base'[p] + Size[p] <= base'[q] \/ base'[q] + Size[q] <= base'[p]
    BY <1>5, <2>1, <2>2, <2>4
  <2> QED
    BY <2>3, <2>4 DEF Placed
<1>7. loaded' \in Seq(Entries) /\ ListOnce'
  <2>1. o \notin MappedIn(base)
    BY <1>1 DEF MappedIn
  <2> QED
    BY <1>1, <1>3, <1>5, <2>1, ListedAfterLink
<1>8. TypeOK'
  <2>1. base' \in [Objs -> Addresses \cup {Unloaded}]
    BY <1>1, <1>3
  <2>2. changes' \in 0 .. MaxChanges
    BY <1>2, <1>3, ObjectAssumption DEF TypeOK
  <2> QED
    BY <1>2, <1>3, <1>7, <2>1, <2>2 DEF TypeOK, snapshotVars, histVars
<1> QED
  BY <1>2, <1>6, <1>7, <1>8, ObserverKept DEF IInv

LEMMA UnloadStep ==
  ASSUME IInv, Unload
  PROVE  IInv'
<1>1. PICK i \in DOMAIN loaded :
        /\ Change
        /\ loaded[i].obj \notin Pinned
        /\ base' = [base EXCEPT ![loaded[i].obj] = Unloaded]
        /\ loaded' = RemoveAt(loaded, i)
  BY DEF Unload
<1>2. /\ changes < MaxChanges /\ changes' = changes + 1
      /\ UNCHANGED <<stage, snapshotVars, captured, modules, histVars>>
  BY <1>1 DEF Change
<1>3. /\ TypeOK /\ Placed(base) /\ ListOnce
      /\ base \in [Objs -> Addresses \cup {Unloaded}] /\ loaded \in Seq(Entries)
  BY DEF IInv, TypeOK
<1>4. loaded[i] \in Entries
  BY <1>3, MembersTyped
<1> DEFINE o == loaded[i].obj
<1>5. o \in Objs /\ o # Linker
  BY <1>1, <1>4, ObjectAssumption DEF Entries
<1>6. /\ MappedIn(base') = MappedIn(base) \ {o}
      /\ \A p \in MappedIn(base') : p \in MappedIn(base) /\ base'[p] = base[p]
  BY <1>1, <1>3, <1>5 DEF MappedIn
<1>7. Placed(base')
  <2>1. \A p \in MappedIn(base') : base'[p] \in Addresses /\ base'[p] + Size[p] \in Addresses
    BY <1>3, <1>6 DEF Placed
  <2>2. ASSUME NEW p \in MappedIn(base'), NEW q \in MappedIn(base'), p # q
        PROVE  base'[p] + Size[p] <= base'[q] \/ base'[q] + Size[q] <= base'[p]
    BY <1>3, <1>6, <2>2 DEF Placed
  <2> QED
    BY <2>1, <2>2 DEF Placed
<1>8. loaded' \in Seq(Entries) /\ ListOnce'
  BY <1>1, <1>3, <1>5, <1>6, ListedAfterUnlink
<1>9. TypeOK'
  <2>1. base' \in [Objs -> Addresses \cup {Unloaded}]
    BY <1>1, <1>3, <1>5
  <2>2. changes' \in 0 .. MaxChanges
    BY <1>2, <1>3, ObjectAssumption DEF TypeOK
  <2> QED
    BY <1>2, <1>3, <1>8, <2>1, <2>2 DEF TypeOK, snapshotVars, histVars
<1> QED
  BY <1>2, <1>7, <1>8, <1>9, ObserverKept DEF IInv

(* Link maps of the linker come and go without anything being mapped.        *)
LEMMA ProxyKept ==
  ASSUME IInv, Change, base' = base, loaded' \in Seq(Entries), ListOnce'
  PROVE  IInv'
<1>1. /\ changes < MaxChanges /\ changes' = changes + 1
      /\ UNCHANGED <<stage, snapshotVars, captured, modules, histVars>>
  BY DEF Change
<1>2. TypeOK /\ Placed(base)
  BY DEF IInv
<1>3. Placed(base)'
  BY <1>2 DEF Placed, MappedIn
<1>4. TypeOK'
  <2>1. changes' \in 0 .. MaxChanges
    BY <1>1, <1>2, ObjectAssumption DEF TypeOK
  <2> QED
    BY <1>1, <1>2, <2>1 DEF TypeOK, snapshotVars, histVars
<1> QED
  BY <1>1, <1>3, <1>4, ObserverKept DEF IInv

LEMMA LinkProxyStep ==
  ASSUME IInv, LinkProxy
  PROVE  IInv'
<1>1. PICK s \in 2 .. Spaces : Change /\ Link(Linker, s) /\ base' = base
  BY DEF LinkProxy
<1>2. ListOnce /\ loaded \in Seq(Entries)
  BY DEF IInv, TypeOK
<1>3. Linker \in Objs /\ s \in 1 .. Spaces
  BY ObjectAssumption
<1>4. MappedIn(base') = MappedIn(base) \cup {Linker}
  <2>1. Linker \in MappedIn(base)
    BY <1>2 DEF ListOnce
  <2> QED
    BY <1>1, <2>1
<1>5. loaded' \in Seq(Entries) /\ ListOnce'
  BY <1>1, <1>2, <1>3, <1>4, ListedAfterLink
<1> QED
  BY <1>1, <1>5, ProxyKept

LEMMA DropProxyStep ==
  ASSUME IInv, DropProxy
  PROVE  IInv'
<1>1. PICK i \in DOMAIN loaded :
        /\ Change
        /\ loaded[i].obj = Linker /\ loaded[i].space # 1
        /\ loaded' = RemoveAt(loaded, i)
        /\ base' = base
  BY DEF DropProxy
<1>2. ListOnce /\ loaded \in Seq(Entries)
  BY DEF IInv, TypeOK
<1>3. loaded' \in Seq(Entries) /\ ListOnce'
  BY <1>1, <1>2, ListedAfterUnlink
<1> QED
  BY <1>1, <1>3, ProxyKept

-----------------------------------------------------------------------------
(* Steps of the snapshot.                                                    *)

LEMMA TailMembers ==
  ASSUME NEW S, NEW s \in Seq(S), s # <<>>
  PROVE  /\ Head(s) = s[1] /\ Head(s) \in S /\ 1 \in DOMAIN s
         /\ Tail(s) \in Seq(S) /\ DOMAIN Tail(s) = 1 .. (Len(s) - 1)
         /\ \A i \in DOMAIN Tail(s) : Tail(s)[i] = s[i + 1] /\ i + 1 \in DOMAIN s
         /\ ToSet(s) = ToSet(Tail(s)) \cup {Head(s)}
<1>1. /\ Len(s) \in Nat /\ Len(s) # 0 /\ DOMAIN s = 1 .. Len(s)
      /\ \A i \in DOMAIN s : s[i] \in S
  BY MembersTyped, EmptySeq
<1>2. /\ Head(s) = s[1] /\ Tail(s) \in Seq(S) /\ Len(Tail(s)) = Len(s) - 1
      /\ \A i \in 1 .. Len(Tail(s)) : Tail(s)[i] = s[i + 1]
  BY HeadTailProperties
<1>3. 1 \in DOMAIN s /\ Head(s) \in S
  BY <1>1, <1>2
<1>4. DOMAIN Tail(s) = 1 .. (Len(s) - 1)
  BY <1>2, LenProperties
<1>5. \A i \in DOMAIN Tail(s) : Tail(s)[i] = s[i + 1] /\ i + 1 \in DOMAIN s
  BY <1>1, <1>2, <1>4
<1>6. ToSet(s) = ToSet(Tail(s)) \cup {Head(s)}
  <2>1. \A i \in DOMAIN s : i = 1 \/ (i - 1 \in DOMAIN Tail(s) /\ Tail(s)[i - 1] = s[i])
    <3> TAKE i \in DOMAIN s
    <3>1. i # 1 => i - 1 \in DOMAIN Tail(s) /\ (i - 1) + 1 = i
      BY <1>1, <1>4
    <3> QED
      BY <1>5, <3>1
  <2>2. \A x \in ToSet(s) : x \in ToSet(Tail(s)) \cup {Head(s)}
    BY <1>2, <2>1 DEF ToSet
  <2>3. \A x \in ToSet(Tail(s)) \cup {Head(s)} : x \in ToSet(s)
    BY <1>2, <1>3, <1>5 DEF ToSet
  <2> QED
    BY <2>2, <2>3
<1> QED
  BY <1>2, <1>3, <1>4, <1>5, <1>6

LEMMA AppendMembers ==
  ASSUME NEW S, NEW s \in Seq(S), NEW x \in S
  PROVE  /\ Append(s, x) \in Seq(S) /\ Len(Append(s, x)) = Len(s) + 1
         /\ DOMAIN Append(s, x) = 1 .. (Len(s) + 1)
         /\ \A i \in 1 .. Len(s) : Append(s, x)[i] = s[i]
         /\ Append(s, x)[Len(s) + 1] = x
         /\ ToSet(Append(s, x)) = ToSet(s) \cup {x}
<1> DEFINE t == Append(s, x)
<1>1. Len(s) \in Nat /\ DOMAIN s = 1 .. Len(s)
  BY MembersTyped
<1>2. /\ t \in Seq(S) /\ Len(t) = Len(s) + 1
      /\ \A i \in 1 .. Len(s) : t[i] = s[i]
      /\ t[Len(s) + 1] = x
  BY AppendProperties
<1>3. DOMAIN t = 1 .. (Len(s) + 1)
  BY <1>2, LenProperties
<1> HIDE DEF t
<1>4. \A i \in DOMAIN t : t[i] \in ToSet(s) \cup {x}
  <2> TAKE i \in DOMAIN t
  <2>1. i \in DOMAIN s \/ i = Len(s) + 1
    BY <1>1, <1>3
  <2> QED
    BY <1>1, <1>2, <2>1 DEF ToSet
<1>5. \A y \in ToSet(s) \cup {x} : \E i \in DOMAIN t : t[i] = y
  <2> TAKE y \in ToSet(s) \cup {x}
  <2>1. CASE y = x
    <3>1. Len(s) + 1 \in DOMAIN t
      BY <1>1, <1>3
    <3> QED
      BY <1>2, <2>1, <3>1
  <2>2. CASE y \in ToSet(s)
    <3>1. PICK i \in DOMAIN s : s[i] = y
      BY <2>2 DEF ToSet
    <3>2. i \in DOMAIN t /\ t[i] = y
      BY <1>1, <1>2, <1>3, <3>1
    <3> QED
      BY <3>2
  <2> QED
    BY <2>1, <2>2
<1>6. ToSet(t) = ToSet(s) \cup {x}
  BY <1>4, <1>5, Zenon DEF ToSet
<1> QED
  BY <1>2, <1>3, <1>6 DEF t

(* What admission asks of a layout.                                          *)
LEMMA NoFault ==
  ASSUME NEW l
  PROVE  LayoutFault(l) = "none" <=> Nonempty(l) /\ Nonoverlapping(l) /\ BackingFault(l) = "none"
  BY DEF LayoutFault

LEMMA AdmittedTyped ==
  ASSUME NEW l \in Layout, BackingFault(l) = "none"
  PROVE  RegionOf(l) \in Region
<1>1. /\ l.start \in Addresses /\ l.end \in Addresses /\ l.read \in BOOLEAN
      /\ l.file \in BOOLEAN /\ l.id \in Files \cup {NoFile}
  BY DEF Layout
<1>2. l.file = TRUE \/ l.id = NoFile
  BY <1>1 DEF BackingFault
<1>3. BackingOf(l) \in Backings
  <2>1. CASE l.file = TRUE
    <3>1. BackingOf(l) = [kind |-> "file", id |-> l.id]
      BY <2>1 DEF BackingOf
    <3> QED
      BY <3>1, <1>1 DEF Backings
  <2>2. CASE l.file = FALSE
    <3>1. \/ BackingOf(l) = [kind |-> "anonymous", id |-> l.id]
          \/ BackingOf(l) = [kind |-> "special", id |-> l.id]
      BY <2>2 DEF BackingOf
    <3>2. l.id = NoFile
      BY <1>2, <2>2
    <3> QED
      BY <3>1, <3>2 DEF Backings
  <2> QED
    BY <1>1, <2>1, <2>2
<1> QED
  BY <1>1, <1>3 DEF RegionOf, Region

(* What a step that fails has to show.                                       *)
LEMMA OutcomesFailed ==
  ASSUME modules' = <<>>, failure' # "none", RefusalExplained',
         Unmoved' => \/ ~Proxied' /\ failure' = "Capture"
                     \/ Proxied' /\ failure' = "AmbiguousMappingOwnership"
  PROVE  Outcomes'
<1>1. OwnershipUnique'
  BY DEF OwnershipUnique, Published
<1>2. UnmovedInspectionDecided'
  BY DEF UnmovedInspectionDecided
<1> QED
  BY <1>1, <1>2 DEF Outcomes

LEMMA QueryStep ==
  ASSUME IInv, Query
  PROVE  IInv'
<1>1. /\ stage = "query" /\ stage' = "admit" /\ reported' = base
      /\ UNCHANGED <<regions, failure, targetVars, captured, modules>>
      /\ \/ layouts' = Answer /\ genuine' = TRUE
         \/ layouts' \in Malformed /\ genuine' = FALSE
  BY DEF Query
<1>2. /\ failure' = failure /\ regions' = regions /\ base' = base /\ loaded' = loaded
      /\ changes' = changes /\ captured' = captured /\ modules' = modules
  BY <1>1 DEF targetVars
<1>3. /\ TypeOK /\ RegionsOrdered /\ Placed(base) /\ ListOnce /\ CapturedOnce /\ Untouched
      /\ base \in [Objs -> Addresses \cup {Unloaded}]
  BY DEF IInv, TypeOK
<1>4. failure = "none" /\ regions = <<>> /\ modules = <<>> /\ captured = <<>>
  BY <1>1, <1>3 DEF Untouched
<1>5. Answer \in Seq(Layout) /\ ToSet(Answer) = LayoutsOf(base) /\ InOrder(Answer)
  BY <1>3, AnswerInOrder
<1>6. layouts' \in Seq(Layout) /\ genuine' \in BOOLEAN
  BY <1>1, <1>5, ObjectAssumption
<1>7. TypeOK'
  BY <1>1, <1>2, <1>3, <1>6 DEF TypeOK
<1>8. RegionsOrdered' /\ ListOnce' /\ CapturedOnce' /\ Placed(base)' /\ Placed(reported)'
  BY <1>1, <1>2, <1>3 DEF RegionsOrdered, ListOnce, CapturedOnce, Placed, MappedIn
<1>9. ToSet(regions') = {}
  BY <1>2, <1>4 DEF ToSet
<1>10. ASSUME genuine'
       PROVE  /\ InOrder(layouts')
              /\ {RegionOf(l) : l \in ToSet(layouts')} = ReportedRegions'
  <2>1. layouts' = Answer
    BY <1>1, <1>10
  <2>2. ReportedRegions' = {RegionOf(l) : l \in LayoutsOf(base)}
    BY <1>1 DEF ReportedRegions, LayoutsOf, LayoutOf, MappedIn
  <2> QED
    BY <1>5, <2>1, <2>2
<1>11. GenuineAdmission'
  BY <1>9, <1>10 DEF GenuineAdmission
<1>12. FaultAhead'
  <2>1. ASSUME ~genuine'
        PROVE  \E i \in DOMAIN layouts' :
                 \/ ~Nonempty(layouts'[i]) \/ BackingFault(layouts'[i]) # "none"
                 \/ i > 1 /\ layouts'[i].start < layouts'[i - 1].end
    <3>1. layouts' \in Malformed
      BY <1>1, <2>1
    <3>2. PICK i \in DOMAIN layouts' :
            \/ layouts'[i].end <= layouts'[i].start
            \/ layouts'[i].file /\ layouts'[i].anonymous
            \/ ~layouts'[i].file /\ layouts'[i].id # NoFile
            \/ i > 1 /\ layouts'[i].start < layouts'[i - 1].end
      BY <3>1, MalformedAssumption
    <3>3. layouts'[i].start \in Int /\ layouts'[i].end \in Int
      <4>1. layouts' \in Seq(Layout)
        BY <3>1, ObjectAssumption
      <4>2. layouts'[i] \in Layout
        <5>1. i \in 1 .. Len(layouts')
          BY <3>2, <4>1
        <5> QED
          BY <4>1, <5>1
      <4> QED
        BY <4>2, LayoutBounds
    <3>4. layouts'[i].end <= layouts'[i].start => ~Nonempty(layouts'[i])
      BY <3>3 DEF Nonempty
    <3>5. (\/ layouts'[i].file /\ layouts'[i].anonymous
           \/ ~layouts'[i].file /\ layouts'[i].id # NoFile)
            => BackingFault(layouts'[i]) # "none"
      BY DEF BackingFault
    <3> QED
      BY <3>2, <3>4, <3>5
  <2> QED
    BY <2>1 DEF FaultAhead
<1>13. Admitted' /\ NormalizedSoFar' /\ Untouched'
  BY <1>1, <1>2, <1>4 DEF Admitted, NormalizedSoFar, Untouched
<1>14. Outcomes'
  BY <1>1, <1>2, <1>4, OutcomesOpen
<1> QED
  BY <1>7, <1>8, <1>11, <1>12, <1>13, <1>14 DEF IInv

(* A step that ends the inspection leaves nothing in progress.               *)
LEMMA Ended ==
  ASSUME stage' = "done"
  PROVE  GenuineAdmission' /\ FaultAhead' /\ Admitted' /\ NormalizedSoFar' /\ Untouched'
  BY DEF GenuineAdmission, FaultAhead, Admitted, NormalizedSoFar, Untouched

(* The parts that speak of the process and of the answer only.               *)
LEMMA TargetKept ==
  ASSUME IInv, UNCHANGED <<targetVars, histVars>>
  PROVE  Placed(base)' /\ Placed(reported)' /\ ListOnce' /\ ReportedRegions' = ReportedRegions
<1>1. base' = base /\ loaded' = loaded /\ reported' = reported
  BY DEF targetVars, histVars
<1>2. Placed(base) /\ Placed(reported) /\ ListOnce
  BY DEF IInv
<1>3. Placed(base)' /\ Placed(reported)' /\ ListOnce'
  BY <1>1, <1>2 DEF Placed, MappedIn, ListOnce
<1>4. ReportedRegions' = ReportedRegions
  BY <1>1 DEF ReportedRegions, LayoutsOf, LayoutOf, MappedIn
<1> QED
  BY <1>3, <1>4

LEMMA QueryFailsStep ==
  ASSUME IInv, QueryFails
  PROVE  IInv'
<1>1. /\ stage = "query" /\ stage' = "done" /\ failure' = "Io"
      /\ layouts' = layouts /\ regions' = regions /\ captured' = captured /\ modules' = modules
      /\ UNCHANGED <<targetVars, histVars>>
  BY DEF QueryFails
<1>2. base' = base /\ loaded' = loaded /\ changes' = changes /\ reported' = reported /\ genuine' = genuine
  BY <1>1 DEF targetVars, histVars
<1>3. TypeOK /\ RegionsOrdered /\ CapturedOnce /\ Untouched
  BY DEF IInv
<1>4. TypeOK' /\ RegionsOrdered' /\ CapturedOnce'
  BY <1>1, <1>2, <1>3 DEF TypeOK, RegionsOrdered, CapturedOnce
<1>5. Outcomes'
  <2>1. modules' = <<>> /\ ~genuine'
    BY <1>1, <1>2, <1>3 DEF Untouched
  <2>2. RefusalExplained' /\ ~Unmoved'
    BY <1>1, <2>1 DEF RefusalExplained, Unmoved
  <2> QED
    BY <1>1, <2>1, <2>2, OutcomesFailed
<1> QED
  BY <1>1, <1>4, <1>5, Ended, TargetKept DEF IInv

LEMMA AdmitStep ==
  ASSUME IInv, AdmitLayout, UNCHANGED <<targetVars, captured, modules, histVars>>
  PROVE  IInv'
<1> DEFINE l == Head(layouts)
<1>1. /\ stage = "admit" /\ layouts # <<>> /\ LayoutFault(l) = "none"
      /\ regions' = Append(regions, RegionOf(l)) /\ layouts' = Tail(layouts)
      /\ stage' = stage /\ failure' = failure /\ captured' = captured /\ modules' = modules
      /\ base' = base /\ loaded' = loaded /\ changes' = changes
      /\ reported' = reported /\ genuine' = genuine
  BY DEF AdmitLayout, targetVars, histVars
<1>2. /\ TypeOK /\ RegionsOrdered /\ CapturedOnce /\ GenuineAdmission /\ FaultAhead /\ Untouched
      /\ layouts \in Seq(Layout) /\ regions \in Seq(Region)
  BY DEF IInv, TypeOK
<1>3. /\ l = layouts[1] /\ l \in Layout /\ 1 \in DOMAIN layouts
      /\ layouts' \in Seq(Layout) /\ DOMAIN layouts' = 1 .. (Len(layouts) - 1)
      /\ \A i \in DOMAIN layouts' : layouts'[i] = layouts[i + 1] /\ i + 1 \in DOMAIN layouts
      /\ ToSet(layouts) = ToSet(layouts') \cup {l}
  BY <1>1, <1>2, TailMembers
<1>4. Nonempty(l) /\ Nonoverlapping(l) /\ BackingFault(l) = "none"
  BY <1>1, NoFault
<1> DEFINE r == RegionOf(l)
<1>5. r \in Region /\ r.start = l.start /\ r.end = l.end
  BY <1>3, <1>4, AdmittedTyped DEF RegionOf
<1> HIDE DEF l, r
<1>6. r = RegionOf(l)
  BY DEF r
<1>7. /\ regions' \in Seq(Region) /\ Len(regions') = Len(regions) + 1
      /\ DOMAIN regions' = 1 .. (Len(regions) + 1)
      /\ \A i \in 1 .. Len(regions) : regions'[i] = regions[i]
      /\ regions'[Len(regions) + 1] = r
      /\ ToSet(regions') = ToSet(regions) \cup {r}
  BY <1>1, <1>2, <1>5, <1>6, AppendMembers
<1>8. /\ Len(regions) \in Nat /\ DOMAIN regions = 1 .. Len(regions)
      /\ \A i \in DOMAIN regions : regions[i] \in Region
      /\ Len(layouts) \in Nat /\ DOMAIN layouts = 1 .. Len(layouts)
  BY <1>2, MembersTyped
<1>9. /\ \A i \in DOMAIN regions : regions[i].start \in Int /\ regions[i].end \in Int
      /\ r.start \in Int /\ r.end \in Int
  BY <1>5, <1>8, RegionBounds
<1>10. TypeOK'
  BY <1>1, <1>2, <1>3, <1>7 DEF TypeOK
<1>11. \A i \in DOMAIN regions : regions[i].end <= r.start
  <2> TAKE i \in DOMAIN regions
  <2>1. regions # <<>> /\ Len(regions) \in DOMAIN regions
    BY <1>8
  <2>2. regions[Len(regions)].end <= r.start
    BY <1>4, <1>5, <2>1 DEF Nonoverlapping, Last
  <2>3. i = Len(regions) \/ i < Len(regions)
    BY <1>8
  <2>4. i < Len(regions) =>
          regions[i].end <= regions[Len(regions)].start
          /\ regions[Len(regions)].start < regions[Len(regions)].end
    BY <1>2, <2>1 DEF RegionsOrdered
  <2> QED
    BY <2>1, <2>2, <2>3, <2>4, <1>9
<1>12. RegionsOrdered'
  <2>1. r.start < r.end
    BY <1>4, <1>5 DEF Nonempty
  <2>2. \A i \in DOMAIN regions' : i \in DOMAIN regions \/ i = Len(regions) + 1
    BY <1>7, <1>8
  <2>3. ASSUME NEW i \in DOMAIN regions', NEW j \in DOMAIN regions', i < j
        PROVE  regions'[i].end <= regions'[j].start
    <3>1. i \in DOMAIN regions
      BY <1>7, <1>8, <2>3
    <3>2. CASE j \in DOMAIN regions
      BY <1>2, <1>7, <1>8, <2>3, <3>1, <3>2 DEF RegionsOrdered
    <3>3. CASE j = Len(regions) + 1
      BY <1>7, <1>8, <1>11, <3>1, <3>3
    <3> QED
      BY <2>2, <3>2, <3>3
  <2>4. \A i \in DOMAIN regions' : regions'[i].start < regions'[i].end
    BY <1>2, <1>7, <1>8, <2>1, <2>2 DEF RegionsOrdered
  <2> QED
    BY <2>3, <2>4 DEF RegionsOrdered
<1>13. ReportedRegions' = ReportedRegions
  BY <1>1 DEF ReportedRegions, LayoutsOf, LayoutOf, MappedIn
<1>14. GenuineAdmission'
  <2> SUFFICES ASSUME genuine'
               PROVE  /\ InOrder(layouts')
                      /\ \A q \in ToSet(regions'), k \in ToSet(layouts') : q.end <= k.start
                      /\ ToSet(regions') \cup {RegionOf(k) : k \in ToSet(layouts')} = ReportedRegions'
    BY DEF GenuineAdmission
  <2>1. /\ InOrder(layouts)
        /\ \A q \in ToSet(regions), k \in ToSet(layouts) : q.end <= k.start
        /\ ToSet(regions) \cup {RegionOf(k) : k \in ToSet(layouts)} = ReportedRegions
    BY <1>1, <1>2 DEF GenuineAdmission
  <2>2. InOrder(layouts')
    <3>1. \A i \in DOMAIN layouts' : Nonempty(layouts'[i]) /\ BackingFault(layouts'[i]) = "none"
      BY <1>3, <2>1 DEF InOrder
    <3>2. ASSUME NEW i \in DOMAIN layouts', NEW j \in DOMAIN layouts', i < j
          PROVE  layouts'[i].end <= layouts'[j].start
      <4>1. i + 1 \in DOMAIN layouts /\ j + 1 \in DOMAIN layouts /\ i + 1 < j + 1
        BY <1>3, <1>8, <3>2
      <4>2. layouts[i + 1].end <= layouts[j + 1].start
        BY <2>1, <4>1 DEF InOrder
      <4> QED
        BY <1>3, <4>2
    <3> QED
      BY <3>1, <3>2 DEF InOrder
  <2>3. ASSUME NEW k \in ToSet(layouts') PROVE r.end <= k.start
    <3>1. PICK i \in DOMAIN layouts' : layouts'[i] = k
      BY DEF ToSet
    <3>2. i + 1 \in DOMAIN layouts /\ layouts[i + 1] = k /\ 1 < i + 1
      BY <1>3, <1>8, <3>1
    <3>3. layouts[1].end <= layouts[i + 1].start
      BY <1>3, <2>1, <3>2 DEF InOrder
    <3> QED
      BY <1>3, <1>5, <3>2, <3>3
  <2>4. \A q \in ToSet(regions'), k \in ToSet(layouts') : q.end <= k.start
    BY <1>3, <1>7, <2>1, <2>3
  <2>5. ToSet(regions') \cup {RegionOf(k) : k \in ToSet(layouts')} = ReportedRegions'
    BY <1>3, <1>6, <1>7, <1>13, <2>1
  <2> QED
    BY <2>2, <2>4, <2>5
<1>15. FaultAhead'
  <2> SUFFICES ASSUME ~genuine'
               PROVE  \E i \in DOMAIN layouts' :
                        \/ ~Nonempty(layouts'[i]) \/ BackingFault(layouts'[i]) # "none"
                        \/ i > 1 /\ layouts'[i].start < layouts'[i - 1].end
                        \/ i = 1 /\ regions' # <<>> /\ layouts'[i].start < Last(regions').end
    BY DEF FaultAhead
  <2>1. PICK i \in DOMAIN layouts :
          \/ ~Nonempty(layouts[i]) \/ BackingFault(layouts[i]) # "none"
          \/ i > 1 /\ layouts[i].start < layouts[i - 1].end
          \/ i = 1 /\ regions # <<>> /\ layouts[i].start < Last(regions).end
    BY <1>1, <1>2 DEF FaultAhead
  <2>2. /\ layouts[i] \in Layout /\ i \in Int
        /\ layouts[i].start \in Int
    <3>1. layouts[i] \in Layout /\ i \in Int
      BY <1>2, <1>8, MembersTyped
    <3>2. layouts[i].start \in Addresses
      BY <3>1 DEF Layout
    <3> QED
      BY <3>1, <3>2, UnloadedIsNoAddress
  <2>3. i # 1
    <3>1. regions # <<>> => Last(regions).end <= l.start /\ Last(regions).end \in Int
      <4>1. regions # <<>> => Len(regions) \in DOMAIN regions
        BY <1>2, <1>8, EmptySeq
      <4> QED
        BY <1>4, <1>9, <4>1 DEF Nonoverlapping, Last
    <3> QED
      BY <1>3, <1>4, <2>1, <2>2, <3>1
  <2> DEFINE j == i - 1
  <2>4. j \in DOMAIN layouts' /\ layouts'[j] = layouts[i]
    BY <1>3, <1>8, <2>2, <2>3
  <2>5. CASE ~Nonempty(layouts[i]) \/ BackingFault(layouts[i]) # "none"
    BY <2>4, <2>5
  <2>6. CASE layouts[i].start < layouts[i - 1].end /\ i > 2
    <3>1. j > 1 /\ j - 1 \in DOMAIN layouts' /\ layouts'[j - 1] = layouts[i - 1]
      BY <1>3, <1>8, <2>2, <2>4, <2>6
    <3> QED
      BY <2>4, <2>6, <3>1
  <2>7. CASE layouts[i].start < layouts[i - 1].end /\ i = 2
    <3>1. j = 1 /\ layouts[i].start < r.end
      BY <1>3, <1>5, <2>7
    <3>2. regions' # <<>> /\ Last(regions') = r
      BY <1>7, <1>8 DEF Last
    <3> QED
      BY <2>4, <3>1, <3>2
  <2> QED
    BY <1>8, <2>1, <2>2, <2>3, <2>5, <2>6, <2>7
<1>16. Placed(base)' /\ Placed(reported)' /\ ListOnce'
  BY <1>1, TargetKept DEF targetVars, histVars
<1>17. CapturedOnce' /\ Admitted' /\ NormalizedSoFar' /\ Untouched'
  BY <1>1, <1>2 DEF CapturedOnce, Admitted, NormalizedSoFar, Untouched
<1>18. Outcomes'
  BY <1>1, <1>2, OutcomesOpen DEF Untouched
<1> QED
  BY <1>10, <1>12, <1>14, <1>15, <1>16, <1>17, <1>18 DEF IInv

LEMMA RejectStep ==
  ASSUME IInv, RejectLayout, UNCHANGED <<targetVars, captured, modules, histVars>>
  PROVE  IInv'
<1> DEFINE l == Head(layouts)
<1>1. /\ stage = "admit" /\ layouts # <<>> /\ LayoutFault(l) # "none"
      /\ failure' = LayoutFault(l) /\ layouts' = <<>> /\ regions' = <<>> /\ stage' = "done"
      /\ captured' = captured /\ modules' = modules
      /\ base' = base /\ loaded' = loaded /\ changes' = changes
      /\ reported' = reported /\ genuine' = genuine
  BY DEF RejectLayout, targetVars, histVars
<1>2. /\ TypeOK /\ CapturedOnce /\ GenuineAdmission /\ Untouched
      /\ layouts \in Seq(Layout) /\ regions \in Seq(Region)
  BY DEF IInv, TypeOK
<1>3. failure' \in {"InvalidRegion", "OverlappingRegion",
                    "ConflictingBackingAttributes", "UnexpectedFileProvenance"}
  BY <1>1 DEF LayoutFault, BackingFault
<1>4. TypeOK'
  <2>1. layouts' \in Seq(Layout) /\ regions' \in Seq(Region)
    BY <1>1, EmptySeq
  <2> QED
    BY <1>1, <1>2, <1>3, <2>1 DEF TypeOK
<1>5. RegionsOrdered' /\ CapturedOnce'
  BY <1>1, <1>2 DEF RegionsOrdered, CapturedOnce
<1>6. ~genuine
  <2> SUFFICES ASSUME genuine PROVE FALSE
    OBVIOUS
  <2>1. /\ InOrder(layouts)
        /\ \A q \in ToSet(regions), k \in ToSet(layouts) : q.end <= k.start
    BY <1>1, <1>2 DEF GenuineAdmission
  <2>2. l = layouts[1] /\ 1 \in DOMAIN layouts /\ l \in ToSet(layouts)
    BY <1>1, <1>2, TailMembers
  <2>3. Nonempty(l) /\ BackingFault(l) = "none"
    BY <2>1, <2>2 DEF InOrder
  <2>4. Nonoverlapping(l)
    <3>1. regions # <<>> => Last(regions) \in ToSet(regions)
      BY <1>2, MembersTyped, EmptySeq DEF Last, ToSet
    <3> QED
      BY <2>1, <2>2, <3>1 DEF Nonoverlapping
  <2> QED
    BY <1>1, <2>3, <2>4, NoFault
<1>7. Outcomes'
  <2>1. modules' = <<>> /\ ~genuine'
    BY <1>1, <1>2, <1>6 DEF Untouched
  <2>2. RefusalExplained' /\ ~Unmoved' /\ failure' # "none"
    BY <1>3, <2>1 DEF RefusalExplained, Unmoved
  <2> QED
    BY <2>1, <2>2, OutcomesFailed
<1>8. Placed(base)' /\ Placed(reported)' /\ ListOnce'
  BY <1>1, TargetKept DEF targetVars, histVars
<1> QED
  BY <1>1, <1>4, <1>5, <1>7, <1>8, Ended DEF IInv

LEMMA FinishStep ==
  ASSUME IInv, FinishSnapshot
  PROVE  IInv'
<1>1. /\ stage = "admit" /\ layouts = <<>> /\ stage' = "capture"
      /\ layouts' = layouts /\ regions' = regions /\ failure' = failure
      /\ captured' = captured /\ modules' = modules
      /\ base' = base /\ loaded' = loaded /\ changes' = changes
      /\ reported' = reported /\ genuine' = genuine
  BY DEF FinishSnapshot, snapshotVars, targetVars, histVars
<1>2. TypeOK /\ RegionsOrdered /\ CapturedOnce /\ GenuineAdmission /\ FaultAhead /\ Untouched
  BY DEF IInv
<1>3. TypeOK' /\ RegionsOrdered' /\ CapturedOnce'
  BY <1>1, <1>2 DEF TypeOK, RegionsOrdered, CapturedOnce
<1>4. genuine
  BY <1>1, <1>2 DEF FaultAhead
<1>5. ToSet(regions) = ReportedRegions
  <2>1. ToSet(layouts) = {}
    BY <1>1 DEF ToSet
  <2>2. ToSet(regions) \cup {RegionOf(k) : k \in ToSet(layouts)} = ReportedRegions
    BY <1>1, <1>2, <1>4 DEF GenuineAdmission
  <2> QED
    BY <2>1, <2>2
<1>6. Placed(base)' /\ Placed(reported)' /\ ListOnce' /\ ReportedRegions' = ReportedRegions
  BY <1>1, TargetKept DEF targetVars, histVars
<1>7. Admitted'
  BY <1>1, <1>4, <1>5, <1>6 DEF Admitted
<1>8. GenuineAdmission' /\ FaultAhead' /\ NormalizedSoFar' /\ Untouched'
  BY <1>1, <1>2 DEF GenuineAdmission, FaultAhead, NormalizedSoFar, Untouched
<1>9. Outcomes'
  BY <1>1, <1>2, OutcomesOpen DEF Untouched
<1> QED
  BY <1>3, <1>6, <1>7, <1>8, <1>9 DEF IInv

-----------------------------------------------------------------------------
(* Steps of the capture and of normalization.                                *)

LEMMA CaptureStep ==
  ASSUME IInv, Capture
  PROVE  IInv'
<1>1. /\ stage = "capture" /\ stage' = "normalize"
      /\ captured' = [i \in DOMAIN loaded |->
                       [obj |-> loaded[i].obj, anchor |-> Anchor(loaded[i].obj)]]
      /\ layouts' = layouts /\ regions' = regions /\ failure' = failure /\ modules' = modules
      /\ base' = base /\ loaded' = loaded /\ changes' = changes
      /\ reported' = reported /\ genuine' = genuine
  BY DEF Capture, snapshotVars, targetVars, histVars
<1>2. /\ TypeOK /\ RegionsOrdered /\ ListOnce /\ Placed(base) /\ Admitted /\ Untouched
      /\ base \in [Objs -> Addresses \cup {Unloaded}] /\ loaded \in Seq(Entries)
  BY DEF IInv, TypeOK
<1>3. /\ Len(loaded) \in Nat /\ DOMAIN loaded = 1 .. Len(loaded)
      /\ \A i \in DOMAIN loaded : loaded[i].obj \in Objs
  <2>1. \A i \in DOMAIN loaded : loaded[i] \in Entries
    BY <1>2, MembersTyped
  <2> QED
    BY <1>2, <2>1, MembersTyped DEF Entries
<1>4. \A i \in DOMAIN loaded : Anchor(loaded[i].obj) \in Int
  <2> TAKE i \in DOMAIN loaded
  <2>1. loaded[i].obj \in MappedIn(base)
    BY <1>2 DEF ListOnce
  <2>2. base[loaded[i].obj] \in Int
    BY <1>2, <2>1, UnloadedIsNoAddress DEF Placed
  <2>3. Size[loaded[i].obj] \in Nat
    BY <1>3, ObjectAssumption
  <2> QED
    BY <2>2, <2>3 DEF Anchor
<1>5. captured' \in Seq([obj : Objs, anchor : Int])
  <2>1. captured' \in [1 .. Len(loaded) -> [obj : Objs, anchor : Int]]
    BY <1>1, <1>3, <1>4
  <2> QED
    BY <1>3, <2>1, SeqDef
<1>6. TypeOK'
  BY <1>1, <1>2, <1>5 DEF TypeOK
<1>7. RegionsOrdered' /\ CapturedOnce'
  BY <1>1, <1>2 DEF RegionsOrdered, CapturedOnce, ListOnce
<1>8. Placed(base)' /\ Placed(reported)' /\ ListOnce' /\ ReportedRegions' = ReportedRegions
  BY <1>1, TargetKept DEF targetVars, histVars
<1>9. Admitted' /\ GenuineAdmission' /\ FaultAhead' /\ Untouched'
  BY <1>1, <1>2, <1>8 DEF Admitted, GenuineAdmission, FaultAhead, Untouched
<1>10. NormalizedSoFar'
  <2>1. modules' = <<>> /\ Len(modules') = 0 /\ DOMAIN modules' = {}
    BY <1>1, <1>2 DEF Untouched
  <2>2. Len(captured') \in Nat
    BY <1>5, LenProperties
  <2> QED
    BY <2>1, <2>2 DEF NormalizedSoFar
<1>11. Outcomes'
  BY <1>1, <1>2, OutcomesOpen DEF Untouched
<1> QED
  BY <1>6, <1>7, <1>8, <1>9, <1>10, <1>11 DEF IInv

LEMMA CaptureFailsStep ==
  ASSUME IInv, CaptureFails
  PROVE  IInv'
<1>1. /\ stage = "capture" /\ stage' = "done" /\ failure' = "Capture"
      /\ layouts' = layouts /\ regions' = regions /\ captured' = captured /\ modules' = modules
      /\ base' = base /\ loaded' = loaded /\ changes' = changes
      /\ reported' = reported /\ genuine' = genuine
  BY DEF CaptureFails, targetVars, histVars
<1>2. TypeOK /\ RegionsOrdered /\ CapturedOnce /\ Untouched
  BY DEF IInv
<1>3. TypeOK' /\ RegionsOrdered' /\ CapturedOnce'
  BY <1>1, <1>2 DEF TypeOK, RegionsOrdered, CapturedOnce
<1>4. Outcomes'
  <2>1. modules' = <<>> /\ RefusalExplained'
    BY <1>1, <1>2 DEF Untouched, RefusalExplained
  <2>2. captured' = <<>>
    BY <1>1, <1>2 DEF Untouched
  <2>3. ~Proxied'
    BY <2>2 DEF Proxied
  <2> QED
    BY <1>1, <2>1, <2>3, OutcomesFailed
<1>5. Placed(base)' /\ Placed(reported)' /\ ListOnce'
  BY <1>1, TargetKept DEF targetVars, histVars
<1> QED
  BY <1>1, <1>3, <1>4, <1>5, Ended DEF IInv

LEMMA NormalizeStep ==
  ASSUME IInv, NormalizeModule
  PROVE  IInv'
<1>1. PICK r \in RegionAt(NextMap.anchor) :
        modules' = Append(modules, [name |-> NextMap.obj, mapping |-> r, file |-> FileIdentity(r)])
  BY DEF NormalizeModule
<1>2. /\ stage = "normalize" /\ Pending /\ stage' = stage
      /\ layouts' = layouts /\ regions' = regions /\ failure' = failure /\ captured' = captured
      /\ base' = base /\ loaded' = loaded /\ changes' = changes
      /\ reported' = reported /\ genuine' = genuine
  BY DEF NormalizeModule, snapshotVars, targetVars, histVars
<1>3. /\ TypeOK /\ RegionsOrdered /\ CapturedOnce /\ Admitted /\ NormalizedSoFar /\ Untouched
      /\ regions \in Seq(Region) /\ modules \in Seq(ModuleRecord)
  BY DEF IInv, TypeOK, ModuleRecord
<1> DEFINE n == Len(modules) + 1
<1>4. /\ Len(modules) \in Nat /\ DOMAIN modules = 1 .. Len(modules)
      /\ Len(captured) \in Nat /\ DOMAIN captured = 1 .. Len(captured)
      /\ \A i \in DOMAIN captured : captured[i].obj \in Objs /\ captured[i].anchor \in Int
  BY <1>3, MembersTyped, CapturedTyped
<1>5. n \in DOMAIN captured /\ NextMap = captured[n]
  BY <1>2, <1>4 DEF Pending, NextMap
<1>6. r \in ToSet(regions) /\ RegionHolds(r, NextMap.anchor)
  BY <1>1, <1>3, <1>4, <1>5, RegionAtExact
<1>7. r \in Region /\ FileIdentity(r) \in Files \cup {NoFile}
  <2>1. r \in Region
    BY <1>3, <1>6, MembersTyped
  <2>2. r.backing \in Backings
    BY <2>1 DEF Region
  <2>3. r.backing.id \in Files \cup {NoFile}
    BY <2>2 DEF Backings
  <2> QED
    BY <2>1, <2>3 DEF FileIdentity
<1> DEFINE m == [name |-> NextMap.obj, mapping |-> r, file |-> FileIdentity(r)]
<1>8. m \in ModuleRecord
  BY <1>4, <1>5, <1>7 DEF ModuleRecord
<1>9. m.name = NextMap.obj /\ m.mapping = r /\ m.file = FileIdentity(r)
  OBVIOUS
<1>10. modules' = Append(modules, m)
  BY <1>1
<1> HIDE DEF m
<1>11. /\ modules' \in Seq(ModuleRecord) /\ Len(modules') = n /\ DOMAIN modules' = 1 .. n
       /\ \A i \in 1 .. Len(modules) : modules'[i] = modules[i]
       /\ modules'[n] = m
  BY <1>3, <1>8, <1>10, AppendMembers
<1>12. TypeOK'
  <2>1. modules' \in Seq([name : Objs, mapping : Region, file : Files \cup {NoFile}])
    BY <1>11 DEF ModuleRecord
  <2> QED
    BY <1>2, <1>3, <2>1 DEF TypeOK
<1>13. RegionsOrdered' /\ CapturedOnce'
  BY <1>2, <1>3 DEF RegionsOrdered, CapturedOnce
<1>14. Placed(base)' /\ Placed(reported)' /\ ListOnce' /\ ReportedRegions' = ReportedRegions
  BY <1>2, TargetKept DEF targetVars, histVars
<1>15. Admitted' /\ GenuineAdmission' /\ FaultAhead' /\ Untouched'
  BY <1>2, <1>3, <1>14 DEF Admitted, GenuineAdmission, FaultAhead, Untouched
<1>16. NormalizedSoFar'
  <2>1. Len(modules') <= Len(captured')
    BY <1>2, <1>4, <1>5, <1>11
  <2>2. ASSUME NEW i \in DOMAIN modules'
        PROVE  /\ modules'[i].name = captured'[i].obj
               /\ modules'[i].mapping \in ToSet(regions')
               /\ RegionHolds(modules'[i].mapping, captured'[i].anchor)
               /\ modules'[i].file = FileIdentity(modules'[i].mapping)
    <3>1. CASE i = n
      BY <1>2, <1>5, <1>6, <1>9, <1>11, <3>1
    <3>2. CASE i \in 1 .. Len(modules)
      <4>1. /\ modules[i].name = captured[i].obj
            /\ modules[i].mapping \in ToSet(regions)
            /\ RegionHolds(modules[i].mapping, captured[i].anchor)
            /\ modules[i].file = FileIdentity(modules[i].mapping)
        BY <1>2, <1>3, <1>4, <3>2 DEF NormalizedSoFar
      <4> QED
        BY <1>2, <1>11, <3>2, <4>1
    <3>3. i = n \/ i \in 1 .. Len(modules)
      BY <1>4, <1>11
    <3> QED
      BY <3>1, <3>2, <3>3
  <2> QED
    BY <2>1, <2>2 DEF NormalizedSoFar
<1>17. Outcomes'
  BY <1>2, <1>3, OutcomesOpen DEF Untouched
<1> QED
  BY <1>12, <1>13, <1>14, <1>15, <1>16, <1>17 DEF IInv

LEMMA MissingAnchorStep ==
  ASSUME IInv, MissingAnchor
  PROVE  IInv'
<1>1. /\ stage = "normalize" /\ Pending /\ RegionAt(NextMap.anchor) = {}
      /\ failure' = "MissingAnchor" /\ modules' = <<>> /\ stage' = "done"
      /\ layouts' = layouts /\ regions' = regions /\ captured' = captured
      /\ base' = base /\ loaded' = loaded /\ changes' = changes
      /\ reported' = reported /\ genuine' = genuine
  BY DEF MissingAnchor, targetVars, histVars
<1>2. /\ TypeOK /\ RegionsOrdered /\ CapturedOnce /\ Admitted
      /\ modules \in Seq(ModuleRecord)
  BY DEF IInv, TypeOK, ModuleRecord
<1>3. /\ Len(modules) \in Nat /\ Len(captured) \in Nat /\ DOMAIN captured = 1 .. Len(captured)
  BY <1>2, MembersTyped, CapturedTyped
<1>4. PICK i \in DOMAIN captured : NextMap = captured[i]
  BY <1>1, <1>3 DEF Pending, NextMap
<1>5. Holders(captured[i].anchor) = {} /\ ~Unmoved
  BY <1>1, <1>2, <1>4, MissingExplained DEF Admitted
<1>6. TypeOK'
  <2>1. modules' \in Seq([name : Objs, mapping : Region, file : Files \cup {NoFile}])
    BY <1>1, EmptySeq
  <2> QED
    BY <1>1, <1>2, <2>1 DEF TypeOK
<1>7. RegionsOrdered' /\ CapturedOnce'
  BY <1>1, <1>2 DEF RegionsOrdered, CapturedOnce
<1>8. Placed(base)' /\ Placed(reported)' /\ ListOnce'
  BY <1>1, TargetKept DEF targetVars, histVars
<1>9. Outcomes'
  <2>1. \A a : Holders(a)' = Holders(a)
    BY <1>1 DEF Holders, MappedIn, Extent
  <2>2. RefusalExplained'
    BY <1>1, <1>5, <2>1 DEF RefusalExplained
  <2>3. ~Unmoved'
    BY <1>1, <1>5 DEF Unmoved
  <2> QED
    BY <1>1, <2>2, <2>3, OutcomesFailed
<1> QED
  BY <1>1, <1>6, <1>7, <1>8, <1>9, Ended DEF IInv

(* When nothing is pending, normalization is complete.                       *)
LEMMA AllNormalized ==
  ASSUME IInv, stage = "normalize", ~Pending
  PROVE  Normalized
<1>1. /\ modules \in Seq(ModuleRecord) /\ TypeOK /\ NormalizedSoFar
  BY DEF IInv, TypeOK, ModuleRecord
<1>2. Len(modules) \in Nat /\ Len(captured) \in Nat
  BY <1>1, MembersTyped, CapturedTyped
<1>3. Len(modules) = Len(captured)
  BY <1>1, <1>2 DEF NormalizedSoFar, Pending
<1> QED
  BY <1>1, <1>3 DEF Normalized, NormalizedSoFar

LEMMA PublishStep ==
  ASSUME IInv, Publish
  PROVE  IInv'
<1>1. /\ stage = "normalize" /\ ~Pending /\ Unambiguous /\ stage' = "done"
      /\ layouts' = layouts /\ regions' = regions /\ failure' = failure
      /\ captured' = captured /\ modules' = modules
      /\ base' = base /\ loaded' = loaded /\ changes' = changes
      /\ reported' = reported /\ genuine' = genuine
  BY DEF Publish, snapshotVars, targetVars, histVars
<1>2. /\ TypeOK /\ RegionsOrdered /\ CapturedOnce /\ Admitted /\ Untouched /\ Placed(reported)
  BY DEF IInv
<1>3. Normalized
  BY <1>1, AllNormalized
<1>4. failure = "none" /\ ToSet(regions) = ReportedRegions
  BY <1>1, <1>2 DEF Untouched, Admitted
<1>5. TypeOK' /\ RegionsOrdered' /\ CapturedOnce'
  BY <1>1, <1>2 DEF TypeOK, RegionsOrdered, CapturedOnce
<1>6. Placed(base)' /\ Placed(reported)' /\ ListOnce'
  BY <1>1, TargetKept DEF targetVars, histVars
<1>7. OwnershipUnique'
  <2>1. \A a : ModuleAt(a)' = ModuleAt(a)
    BY <1>1 DEF ModuleAt, SelectInSeq
  <2>2. \A i \in DOMAIN modules : \A a \in Addresses :
          RegionHolds(modules[i].mapping, a) => ModuleAt(a) = i
    BY <1>1, <1>2, <1>3, PublishedOwnership
  <2>3. /\ Len(modules) = Len(captured)
        /\ \A i \in DOMAIN modules :
             modules[i].name = captured[i].obj /\ RegionHolds(modules[i].mapping, captured[i].anchor)
    BY <1>3 DEF Normalized
  <2> QED
    BY <1>1, <1>4, <2>1, <2>2, <2>3 DEF OwnershipUnique
<1>8. RefusalExplained'
  BY <1>1, <1>4 DEF RefusalExplained
<1>9. UnmovedInspectionDecided'
  <2>1. Unmoved' <=> Unmoved
    BY <1>1 DEF Unmoved
  <2>2. ASSUME Unmoved, NEW i \in DOMAIN modules
        PROVE  /\ modules[i].mapping.start = reported[modules[i].name]
               /\ modules[i].mapping.end = reported[modules[i].name] + Size[modules[i].name]
               /\ modules[i].file = FileOf[modules[i].name]
    BY <1>2, <1>3, <1>4, <2>2, PublishedOwnMapping
  <2>3. Unmoved => ~Proxied'
    <3>1. Proxied' <=> Proxied
      BY <1>1 DEF Proxied
    <3> QED
      BY <1>1, <1>2, <1>3, <1>4, <3>1, ProxiedAmbiguous
  <2> QED
    BY <1>1, <1>4, <2>1, <2>2, <2>3 DEF UnmovedInspectionDecided
<1> QED
  BY <1>1, <1>5, <1>6, <1>7, <1>8, <1>9, Ended DEF IInv, Outcomes

LEMMA AmbiguousStep ==
  ASSUME IInv, AmbiguousOwnership
  PROVE  IInv'
<1>1. /\ stage = "normalize" /\ ~Pending /\ ~Unambiguous
      /\ failure' = "AmbiguousMappingOwnership" /\ modules' = <<>> /\ stage' = "done"
      /\ layouts' = layouts /\ regions' = regions /\ captured' = captured
      /\ base' = base /\ loaded' = loaded /\ changes' = changes
      /\ reported' = reported /\ genuine' = genuine
  BY DEF AmbiguousOwnership, targetVars, histVars
<1>2. TypeOK /\ RegionsOrdered /\ CapturedOnce /\ Admitted /\ Placed(reported)
  BY DEF IInv
<1>3. Normalized
  BY <1>1, AllNormalized
<1>4. /\ \E i, j \in DOMAIN captured :
           i # j /\ Holders(captured[i].anchor) \cap Holders(captured[j].anchor) # {}
      /\ Unmoved => Proxied
  BY <1>1, <1>2, <1>3, AmbiguityExplained DEF Admitted
<1>5. TypeOK'
  <2>1. modules' \in Seq([name : Objs, mapping : Region, file : Files \cup {NoFile}])
    BY <1>1, EmptySeq
  <2> QED
    BY <1>1, <1>2, <2>1 DEF TypeOK
<1>6. RegionsOrdered' /\ CapturedOnce'
  BY <1>1, <1>2 DEF RegionsOrdered, CapturedOnce
<1>7. Placed(base)' /\ Placed(reported)' /\ ListOnce'
  BY <1>1, TargetKept DEF targetVars, histVars
<1>8. Outcomes'
  <2>1. \A a : Holders(a)' = Holders(a)
    BY <1>1 DEF Holders, MappedIn, Extent
  <2>2. RefusalExplained'
    BY <1>1, <1>4, <2>1 DEF RefusalExplained
  <2>3. (Unmoved => Proxied)'
    BY <1>1, <1>4 DEF Unmoved, Proxied
  <2> QED
    BY <1>1, <2>2, <2>3, OutcomesFailed
<1> QED
  BY <1>1, <1>5, <1>6, <1>7, <1>8, Ended DEF IInv

-----------------------------------------------------------------------------
(* The theorems.                                                             *)

LEMMA Invariant == Spec => []IInv
<1>1. Init => IInv
  BY Initially
<1>2. IInv /\ [Next]_vars => IInv'
  <2> SUFFICES ASSUME IInv, [Next]_vars PROVE IInv'
    OBVIOUS
  <2>1. CASE Load
    BY <2>1, LoadStep
  <2>2. CASE Unload
    BY <2>2, UnloadStep
  <2>3. CASE Query
    BY <2>3, QueryStep
  <2>4. CASE QueryFails
    BY <2>4, QueryFailsStep
  <2>5. CASE Validate
    BY <2>5, AdmitStep, RejectStep DEF Validate
  <2>6. CASE FinishSnapshot
    BY <2>6, FinishStep
  <2>7. CASE Capture
    BY <2>7, CaptureStep
  <2>8. CASE CaptureFails
    BY <2>8, CaptureFailsStep
  <2>9. CASE NormalizeModule
    BY <2>9, NormalizeStep
  <2>10. CASE MissingAnchor
    BY <2>10, MissingAnchorStep
  <2>11. CASE Publish
    BY <2>11, PublishStep
  <2>12. CASE AmbiguousOwnership
    BY <2>12, AmbiguousStep
  <2>13. CASE LinkProxy
    BY <2>13, LinkProxyStep
  <2>14. CASE DropProxy
    BY <2>14, DropProxyStep
  <2>15. CASE UNCHANGED vars
    <3>1. /\ UNCHANGED <<stage, snapshotVars, captured, modules, histVars>>
          /\ base' = base /\ loaded' = loaded /\ changes' = changes
          /\ layouts' = layouts /\ regions' = regions /\ failure' = failure
          /\ stage' = stage /\ captured' = captured /\ modules' = modules
          /\ reported' = reported /\ genuine' = genuine /\ UNCHANGED <<targetVars, histVars>>
      BY <2>15 DEF vars, snapshotVars, targetVars, histVars
    <3>2. TypeOK'
      BY <3>1 DEF IInv, TypeOK
    <3> QED
      BY <3>1, <3>2, ObserverKept, TargetKept DEF IInv
  <2> QED
    BY <2>1, <2>2, <2>3, <2>4, <2>5, <2>6, <2>7, <2>8, <2>9, <2>10, <2>11, <2>12, <2>13, <2>14, <2>15
       DEF Next, Observe
<1> QED
  BY <1>1, <1>2, PTL DEF Spec

(* Every variable of an inspection keeps its type, whatever the process does *)
(* and whatever the kernel answers.                                          *)
THEOREM InspectionTyped == Spec => []TypeOK
<1>1. IInv => TypeOK
  BY DEF IInv
<1> QED
  BY <1>1, Invariant, PTL

(* region_at and readable_bytes answer exactly from the regions retained, of *)
(* any number, at any address, though each layout was only compared with the *)
(* one before it.                                                            *)
THEOREM LookupsAnswerExactly == Spec => []LookupsExact
<1>1. IInv => LookupsExact
  <2> SUFFICES ASSUME IInv PROVE LookupsExact
    OBVIOUS
  <2>1. regions \in Seq(Region) /\ RegionsOrdered
    BY DEF IInv, TypeOK
  <2> QED
    BY <2>1, LookupsFollow
<1> QED
  BY <1>1, Invariant, PTL

(* A published inspection has one module per link map and no address in two, *)
(* though Modules::new compares only neighbours; a failed one has none.      *)
THEOREM PublishedOwnershipUnique == Spec => []OwnershipUnique
<1>1. IInv => OwnershipUnique
  BY DEF IInv, Outcomes
<1> QED
  BY <1>1, Invariant, PTL

(* An inspection is refused only for a cause in the kernel's answer or in    *)
(* what moved between the answer and the capture.                            *)
THEOREM RefusalsHaveACause == Spec => []RefusalExplained
<1>1. IInv => RefusalExplained
  BY DEF IInv, Outcomes
<1> QED
  BY <1>1, Invariant, PTL

(* An inspection of objects that stayed where the kernel reported them gives *)
(* each its own mapping and file, however many objects and namespaces there  *)
(* are, unless a further namespace lists the dynamic linker: then it is      *)
(* refused, always.                                                          *)
THEOREM UnmovedObjectsDecided == Spec => []UnmovedInspectionDecided
<1>1. IInv => UnmovedInspectionDecided
  BY DEF IInv, Outcomes
<1> QED
  BY <1>1, Invariant, PTL

=============================================================================
