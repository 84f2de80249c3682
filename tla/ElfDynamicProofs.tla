-------------------------- MODULE ElfDynamicProofs --------------------------
(***************************************************************************)
(* For every image, every hash function and whatever its memory becomes:   *)
(* a lookup through a validated hash table touches nothing outside the     *)
(* load segments that hold its tables (IInv), the metadata agree with      *)
(* every dynamic entry (MetaInv), and while the memory stays what a linker *)
(* built, lookups find what a linear search finds (ExactInv).              *)
(***************************************************************************)
EXTENDS ElfDynamic, WellFoundedInduction, TLAPS

-----------------------------------------------------------------------------
(* Arithmetic.                                                             *)

(* Slot i of n slots of k words ends inside them.                          *)
LEMMA SlotFits ==
  ASSUME NEW i \in Nat, NEW n \in Nat, NEW k \in Nat, i < n
  PROVE  i * k \in Nat /\ i * k + k <= n * k
<1> DEFINE d == n - (i + 1)
<1>1. d \in Nat /\ n = i + 1 + d
  OBVIOUS
<1>2. d * k \in Nat /\ i * k \in Nat
  BY <1>1
<1>3. n * k = i * k + k + d * k
  BY <1>1
<1> QED
  BY <1>2, <1>3

(* Whole slots of b words fit what is left, and remainders select a slot.  *)
LEMMA DivFits ==
  ASSUME NEW a \in Nat, NEW b \in Nat \ {0}
  PROVE  (a \div b) \in Nat /\ (a \div b) * b <= a /\ a % b \in 0 .. b - 1
OBVIOUS

(* A number is built from quotient and remainder in one way.               *)
LEMMA Division ==
  ASSUME NEW h \in Nat \ {0}, NEW q \in Nat, NEW r \in 0 .. h - 1
  PROVE  (q * h + r) \div h = q /\ (q * h + r) % h = r
<1> DEFINE n == q * h + r
<1>1. n \in Nat
  OBVIOUS
<1>2. PICK d, m : d = n \div h /\ m = n % h
  OBVIOUS
<1>3. d \in Int /\ m \in 0 .. h - 1 /\ n = d * h + m
  BY <1>1, <1>2
<1>4. (q - d) * h = m - r
  BY <1>3
<1>5. q = d
  BY <1>3, <1>4
<1> QED
  BY <1>2, <1>3, <1>4, <1>5

Less == {p \in Nat \X Nat : p[1] < p[2]}

LEMMA LessIsWellFounded == IsWellFoundedOn(Less, Nat)
<1>1. Less = OpToRel(<, Nat)
  BY Zenon DEF OpToRel, Less
<1> QED
  BY <1>1, NatLessThanWellFounded, Zenon

(* A set of naturals has a least element.                                  *)
LEMMA Least ==
  ASSUME NEW S, S \subseteq Nat, S # {}
  PROVE  \E i \in S : \A j \in S : i <= j
<1>1. PICK i \in S : \A j \in S : <<j, i>> \notin Less
  BY WFMin, LessIsWellFounded, Zenon
<1>2. ASSUME NEW j \in S PROVE i <= j
  <2>1. i \in Nat /\ j \in Nat
    OBVIOUS
  <2>2. j < i => <<j, i>> \in Less
    BY <2>1 DEF Less
  <2> QED
    BY <2>1, <2>2, <1>1
<1> QED
  BY <1>2

(* An element of a sequence.                                               *)
LEMMA ElementOf ==
  ASSUME NEW S, NEW s \in Seq(S), NEW i \in DOMAIN s
  PROVE  s[i] \in S
OBVIOUS

-----------------------------------------------------------------------------
(* Geometry.                                                               *)

(* What is known of the image and its memory.                              *)
Memory ==
  /\ image.bias \in Nat /\ image.entries \in Nat
  /\ image.loads \in Seq([address : Nat, size : Nat])
  /\ Unsigned(contents)
  /\ \A c \in Becomes(image) : Unsigned(c)

(* A segment that holds an address has words left behind it.               *)
LEMMA LoadWordsLeft ==
  ASSUME Memory, NEW address \in Nat, Contains(address)
  PROVE  LoadWords(address) \in Nat
<1> DEFINE S == {i \in DOMAIN image.loads : Holds(image.loads[i], address)}
<1>1. S \subseteq Nat /\ S # {}
  BY DEF Memory, Contains
<1>2. PICK i \in S : \A j \in S : i <= j
  BY <1>1, Least
<1>3. /\ i \in DOMAIN image.loads
      /\ Holds(image.loads[i], address)
      /\ \A j \in 1 .. i - 1 : ~Holds(image.loads[j], address)
  <2>1. ASSUME NEW j \in 1 .. i - 1, Holds(image.loads[j], address) PROVE FALSE
    <3>1. j \in DOMAIN image.loads
      BY <1>2 DEF Memory
    <3> QED
      BY <3>1, <2>1, <1>2, <1>1
  <2> QED
    BY <1>2, <2>1
<1> DEFINE first == CHOOSE k \in DOMAIN image.loads :
                      /\ Holds(image.loads[k], address)
                      /\ \A j \in 1 .. k - 1 : ~Holds(image.loads[j], address)
<1>4. first \in DOMAIN image.loads /\ Holds(image.loads[first], address)
  BY <1>3
<1> HIDE DEF first
<1> DEFINE load == image.loads[first]
<1>5. load.address \in Nat /\ load.size \in Nat /\ image.bias \in Nat
  <2>1. image.loads \in Seq([address : Nat, size : Nat])
    BY DEF Memory
  <2>2. load \in [address : Nat, size : Nat]
    BY <2>1, <1>4, ElementOf, Zenon
  <2> QED
    BY <2>2 DEF Memory
<1>7. End(load) \in Nat /\ address < End(load)
  BY <1>4, <1>5 DEF Holds, Start, End
<1>6. LoadWords(address) = End(image.loads[first]) - address
  BY DEF LoadWords, first
<1> QED
  BY <1>7, <1>6

(* A resolved pointer is an address with words left behind it.             *)
LEMMA Resolved ==
  ASSUME Memory, NEW pointer \in Nat, Resolve(pointer) # None
  PROVE  Resolve(pointer) \in Nat /\ LoadWords(Resolve(pointer)) \in Nat
<1>1. Resolve(pointer) \in Nat /\ Contains(Resolve(pointer))
  BY DEF Memory, Resolve, None
<1> QED
  BY <1>1, LoadWordsLeft

-----------------------------------------------------------------------------
(* The inductive invariant.                                                *)

(* The metadata lead to tables with words left behind their addresses.     *)
MetadataOK ==
  /\ Strtab \in Nat /\ meta["strsz"] \in Nat
  /\ LoadWords(Strtab) \in Nat /\ meta["strsz"] <= LoadWords(Strtab)
  /\ Symtab \in Nat /\ Capacity \in Nat
  /\ LoadWords(Symtab) \in Nat /\ Capacity * SymbolWords <= LoadWords(Symtab)
  /\ HashAddress \in Nat /\ LoadWords(HashAddress) \in Nat

(* Header, filter, buckets and chains of a validated table follow each     *)
(* other inside one load segment.                                          *)
HashOK ==
  /\ table.kind \in {"gnu", "sysv"}
  /\ table.address \in Nat /\ LoadWords(table.address) \in Nat
  /\ table.array \in Nat /\ table.first \in Nat
  /\ table.buckets \in Nat \ {0} /\ table.links \in Nat \ {0}
  /\ table.array + table.buckets + table.links <= LoadWords(table.address)
  /\ table.kind = "gnu" =>
       table.bloom \in Nat \ {0} /\ table.array = 4 + table.bloom * ClassWords
  /\ table.kind = "sysv" => table.first = 0

(* And so do its symbol records and its names.                             *)
RecordsOK ==
  /\ table.symtab \in Nat /\ table.capacity \in Nat
  /\ LoadWords(table.symtab) \in Nat
  /\ table.capacity * SymbolWords <= LoadWords(table.symtab)
  /\ table.strtab \in Nat /\ table.strsz \in Nat
  /\ LoadWords(table.strtab) \in Nat /\ table.strsz <= LoadWords(table.strtab)

TableOK == HashOK /\ RecordsOK

(* The fields of a lookup.                                                 *)
LookupShape ==
  /\ lookup = [name |-> lookup.name, export |-> lookup.export, hash |-> lookup.hash,
               index |-> lookup.index, steps |-> lookup.steps, chain |-> lookup.chain,
               record |-> lookup.record]
  /\ lookup.name \in Names \cup {BadName} /\ lookup.export \in BOOLEAN
  /\ lookup.hash \in Nat /\ lookup.index \in Nat /\ lookup.steps \in Nat

(* Where a lookup stands in its table.                                     *)
Placed ==
  /\ pc = "bloom" => table.kind = "gnu"
  /\ pc \in {"chain", "symbol", "name"} =>
       table.first <= lookup.index /\ lookup.index < table.first + table.links
  /\ pc \in {"symbol", "name"} => lookup.index < table.capacity
  /\ pc = "name" => lookup.record[1].name \in Nat /\ lookup.record[1].name < table.strsz

Reader ==
  /\ changed \in BOOLEAN
  /\ pc \in Building \cup LookingUp \cup {"ready", "failed"}
  /\ at \in Nat /\ meta \in [Fields -> Nat \cup {None}] /\ header \in Seq(Nat)
  /\ answer.kind \in {"pending", "error", "none", "found", "export"}
  /\ pc \in LookingUp \cup {"ready"} => table # NoTable

IInv ==
  /\ Memory
  /\ Reader
  /\ pc = "header" => MetadataOK
  /\ table # NoTable => TableOK
  /\ LookupShape
  /\ Placed

-----------------------------------------------------------------------------
(* What a step leaves alone.                                               *)

LEMMA MemoryStays ==
  ASSUME Memory, UNCHANGED <<image, contents>>
  PROVE  Memory'
BY DEF Memory, Unsigned

LEMMA MetadataStays ==
  ASSUME MetadataOK, UNCHANGED <<image, meta>>
  PROVE  MetadataOK'
<1>1. Strtab' = Strtab /\ Symtab' = Symtab
  BY DEF Strtab, Symtab, Resolve, Contains, Holds, Start, End
<1>2. HashAddress' = HashAddress
  BY DEF HashAddress, HashKind, Resolve, Contains, Holds, Start, End
<1>3. /\ LoadWords(Strtab)' = LoadWords(Strtab)
      /\ LoadWords(Symtab)' = LoadWords(Symtab)
      /\ LoadWords(HashAddress)' = LoadWords(HashAddress)
  BY <1>1, <1>2 DEF LoadWords, Holds, Start, End
<1>4. Capacity' = Capacity
  BY <1>3 DEF Capacity
<1> QED
  BY <1>1, <1>2, <1>3, <1>4 DEF MetadataOK

LEMMA TableStays ==
  ASSUME TableOK, UNCHANGED <<image, table>>
  PROVE  TableOK'
BY DEF TableOK, HashOK, RecordsOK, LoadWords, Holds, Start, End

(* A refusal, a result and an advance that keeps the lookup in its table   *)
(* preserve the invariant.                                                 *)
LEMMA RefuseKeeps ==
  ASSUME IInv, pc \in Building \cup LookingUp, NEW reason, Refuse(reason)
  PROVE  IInv'
<1>1. Memory'
  BY MemoryStays DEF IInv, Refuse, memory
<1>2. Reader' /\ pc' \notin Building \cup LookingUp
  BY DEF IInv, Reader, Refuse, memory, Error, Building, LookingUp
<1>3. (table # NoTable => TableOK)'
  BY TableStays DEF IInv, Refuse, memory, NoTable
<1>4. LookupShape'
  BY DEF IInv, Refuse, LookupShape
<1> QED
  BY <1>1, <1>2, <1>3, <1>4 DEF IInv, Placed, Building, LookingUp

LEMMA ReturnKeeps ==
  ASSUME IInv, pc \in LookingUp, NEW result, Return(result),
         result.kind \in {"error", "none", "found", "export"}
  PROVE  IInv'
<1>1. Memory'
  BY MemoryStays DEF IInv, Return, memory
<1>2. Reader' /\ pc' \notin Building \cup LookingUp
  BY DEF IInv, Reader, Return, memory, Building, LookingUp
<1>3. (table # NoTable => TableOK)'
  BY TableStays DEF IInv, Return, memory, NoTable
<1>4. LookupShape'
  BY DEF IInv, Return, LookupShape
<1> QED
  BY <1>1, <1>2, <1>3, <1>4 DEF IInv, Placed, Building, LookingUp

LEMMA GoOnKeeps ==
  ASSUME IInv, pc \in LookingUp, NEW next \in LookingUp, NEW position, GoOn(next, position),
         LookupShape', Placed'
  PROVE  IInv'
<1>1. Memory'
  BY MemoryStays DEF IInv, GoOn, memory
<1>2. Reader' /\ pc' \notin Building
  BY DEF IInv, Reader, GoOn, memory, Building, LookingUp
<1>3. (table # NoTable => TableOK)'
  BY TableStays DEF IInv, GoOn, memory, NoTable
<1> QED
  BY <1>1, <1>2, <1>3 DEF IInv, Building

-----------------------------------------------------------------------------
(* Construction.                                                           *)

LEMMA StartOK == Init => IInv
<1> SUFFICES ASSUME Init PROVE IInv
  OBVIOUS
<1>1. Memory
  BY ImagesUnsigned DEF Init, Memory
<1>2. Reader
  <2>1. meta \in [Fields -> Nat \cup {None}] /\ header \in Seq(Nat)
    BY DEF Init, NoMeta
  <2>2. answer.kind = "pending" /\ pc = "entry" /\ changed \in BOOLEAN /\ at \in Nat
    BY DEF Init, Pending
  <2> QED
    BY <2>1, <2>2 DEF Reader, Building, LookingUp
<1>3. LookupShape
  BY DEF Init, LookupShape, NoLookup
<1> QED
  BY <1>1, <1>2, <1>3 DEF Init, IInv, Placed

(* The metadata field f, when it is there.                                 *)
LEMMA FieldTypes ==
  ASSUME Reader, NEW f \in Fields, meta[f] # None
  PROVE  meta[f] \in Nat
BY DEF Reader

(* What read_with accepts.                                                 *)
LEMMA MetadataAccepted ==
  ASSUME Memory, Reader, MetadataFault = "none"
  PROVE  MetadataOK
<1>1. /\ \A f \in {"strtab", "strsz", "symtab", "syment"} : meta[f] # None
      /\ Strtab # None /\ Symtab # None /\ HashAddress # None /\ Capacity # 0
      /\ ~(meta["strsz"] > LoadWords(Strtab))
      /\ ~(meta["hash"] = None /\ meta["gnu_hash"] = None)
  BY DEF MetadataFault
<1>2. meta["strtab"] \in Nat /\ meta["symtab"] \in Nat /\ meta["strsz"] \in Nat
  BY <1>1, FieldTypes DEF Fields
<1>3. Strtab \in Nat /\ LoadWords(Strtab) \in Nat
  BY <1>1, <1>2, Resolved DEF Strtab
<1>4. Symtab \in Nat /\ LoadWords(Symtab) \in Nat
  BY <1>1, <1>2, Resolved DEF Symtab
<1>5. HashAddress \in Nat /\ LoadWords(HashAddress) \in Nat
  <2>1. meta[IF HashKind = "gnu" THEN "gnu_hash" ELSE "hash"] \in Nat
    BY <1>1, FieldTypes DEF HashKind, Fields
  <2> QED
    BY <1>1, <2>1, Resolved DEF HashAddress
<1>6. Capacity \in Nat /\ Capacity * SymbolWords <= LoadWords(Symtab)
  BY <1>4, DivFits, WordsPositive DEF Capacity
<1> QED
  BY <1>1, <1>2, <1>3, <1>4, <1>5, <1>6 DEF MetadataOK

LEMMA EntryType ==
  ASSUME Memory, at \in Nat, EntryMapped
  PROVE  Entry.value \in Nat
<1>1. contents.dynamic \in Seq([tag : STRING, value : Nat])
  BY DEF Memory, Unsigned
<1>2. at + 1 \in DOMAIN contents.dynamic
  BY <1>1 DEF EntryMapped
<1>3. Entry \in [tag : STRING, value : Nat]
  BY <1>1, <1>2, ElementOf, Zenon DEF Entry
<1> QED
  BY <1>3

LEMMA ReadEntryOK ==
  ASSUME IInv, ReadEntry
  PROVE  IInv'
<1>1. Memory'
  BY MemoryStays DEF IInv, ReadEntry, memory
<1>2. Entry.value \in Nat
  BY EntryType DEF IInv, Reader, ReadEntry
<1>3. Reader'
  BY <1>2 DEF IInv, Reader, ReadEntry, memory, Building, LookingUp
<1>4. (table # NoTable => TableOK)'
  BY TableStays DEF IInv, ReadEntry, memory, NoTable
<1> QED
  BY <1>1, <1>3, <1>4 DEF IInv, ReadEntry, LookupShape, Placed

LEMMA EntryFailsOK ==
  ASSUME IInv, EntryFails
  PROVE  IInv'
BY RefuseKeeps DEF EntryFails, Building

LEMMA EndOfEntriesOK ==
  ASSUME IInv, EndOfEntries
  PROVE  IInv'
<1>1. CASE MetadataFault # "none"
  BY <1>1, RefuseKeeps DEF EndOfEntries, Building
<1>2. CASE MetadataFault = "none"
  <2>1. /\ pc' = "header" /\ at' = 0
        /\ UNCHANGED <<memory, meta, header, table, lookup, answer>>
    BY <1>2 DEF EndOfEntries
  <2>2. Memory'
    BY <2>1, MemoryStays DEF IInv, memory
  <2>3. Reader'
    BY <2>1 DEF IInv, Reader, memory, Building, LookingUp
  <2>4. MetadataOK'
    BY <1>2, <2>1, MetadataAccepted, MetadataStays DEF IInv, memory
  <2>5. (table # NoTable => TableOK)'
    BY <2>1, TableStays DEF IInv, memory, NoTable
  <2> QED
    BY <2>1, <2>2, <2>3, <2>4, <2>5 DEF IInv, LookupShape, Placed
<1> QED
  BY <1>1, <1>2

(* A header that fits describes a table inside its load segment.           *)
LEMMA HeaderFits ==
  ASSUME MetadataOK, NEW words \in Seq(Nat), Len(words) = HeaderWords, Fits(words),
         UNCHANGED image, table' = NewTable(words)
  PROVE  TableOK'
<1> DEFINE left == LoadWords(HashAddress)
<1>1. left \in Nat /\ ClassWords \in Nat
  BY WordsPositive DEF MetadataOK
<1>2. words[1] # 0 /\ ChainWords(words) > 0 /\ (HashKind = "gnu" => words[3] # 0)
  BY DEF Fits
<1>3. HashKind \in {"gnu", "sysv"}
  BY DEF HashKind
<1>4. words[1] \in Nat /\ words[2] \in Nat /\ (HashKind = "gnu" => words[3] \in Nat)
  BY <1>3 DEF HeaderWords
<1>5. /\ BucketArray(words) \in Nat /\ ChainWords(words) \in Nat
      /\ BucketArray(words) + words[1] + ChainWords(words) <= left
  <2>1. CASE HashKind = "gnu"
    <3>1. BucketArray(words) = 4 + words[3] * ClassWords
      BY <2>1 DEF BucketArray
    <3>2. BucketArray(words) \in Nat
      <4>1. \A n \in Nat, k \in Nat : 4 + n * k \in Nat
        OBVIOUS
      <4> QED
        BY <4>1, <2>1, <3>1, <1>1, <1>4
    <3>3. ChainWords(words) = left - BucketArray(words) - words[1]
      BY <2>1 DEF ChainWords
    <3> QED
      BY <3>2, <3>3, <1>1, <1>2, <1>4
  <2>2. CASE HashKind = "sysv"
    <3>1. BucketArray(words) = 2 /\ ChainWords(words) = words[2]
      BY <2>2 DEF BucketArray, ChainWords
    <3>2. 2 + words[1] + words[2] <= left
      BY <2>2 DEF Fits
    <3> QED
      BY <3>1, <3>2, <1>1, <1>4
  <2> QED
    BY <2>1, <2>2, <1>3
<1>6. HashKind = "gnu" => BucketArray(words) = 4 + words[3] * ClassWords
  BY DEF BucketArray
<1>7. /\ table'.address = HashAddress /\ table'.symtab = Symtab /\ table'.strtab = Strtab
      /\ table'.kind = HashKind /\ table'.array = BucketArray(words)
      /\ table'.buckets = words[1] /\ table'.links = ChainWords(words)
      /\ table'.first = (IF HashKind = "gnu" THEN words[2] ELSE 0)
      /\ table'.bloom = (IF HashKind = "gnu" THEN words[3] ELSE 0)
      /\ table'.capacity = Capacity /\ table'.strsz = meta["strsz"]
  BY DEF NewTable
<1>8. /\ LoadWords(table.address)' = left
      /\ LoadWords(table.symtab)' = LoadWords(Symtab)
      /\ LoadWords(table.strtab)' = LoadWords(Strtab)
  BY <1>7 DEF LoadWords, Holds, Start, End
<1>9. HashOK'
  <2>1. table'.kind = "gnu" =>
          table'.bloom \in Nat \ {0} /\ table'.array = 4 + table'.bloom * ClassWords
    BY <1>2, <1>4, <1>6, <1>7
  <2>2. table'.kind = "sysv" => table'.first = 0
    BY <1>7
  <2>3. table'.first \in Nat
    BY <1>4, <1>7
  <2>4. HashAddress \in Nat
    BY DEF MetadataOK
  <2> QED
    BY <1>1, <1>2, <1>3, <1>4, <1>5, <1>7, <1>8, <2>1, <2>2, <2>3, <2>4 DEF HashOK
<1>10. RecordsOK'
  BY <1>7, <1>8 DEF RecordsOK, MetadataOK
<1> QED
  BY <1>9, <1>10 DEF TableOK

LEMMA ReadHeaderOK ==
  ASSUME IInv, ReadHeader
  PROVE  IInv'
<1> DEFINE words == Append(header, WordAt(HashAddress + at))
<1>1. Memory /\ Reader /\ MetadataOK /\ pc = "header"
  BY DEF IInv, ReadHeader
<1>2. HashAddress + at \in DOMAIN contents.words
  <2>1. HashAddress + at \in Nat
    BY <1>1 DEF Reader, MetadataOK
  <2> QED
    BY <2>1 DEF ReadHeader, Mapped
<1>3. words \in Seq(Nat)
  BY <1>1, <1>2 DEF Memory, Unsigned, Reader, WordAt
<1>4. CASE Len(words) < HeaderWords /\ UNCHANGED <<memory, pc, meta, table, lookup, answer>>
           /\ header' = words /\ at' = at + 1
  <2>1. Memory'
    BY <1>1, <1>4, MemoryStays DEF memory
  <2>2. Reader'
    BY <1>1, <1>3, <1>4 DEF Reader, memory, Building, LookingUp
  <2>3. MetadataOK'
    BY <1>1, <1>4, MetadataStays DEF memory
  <2>4. (table # NoTable => TableOK)'
    BY <1>4, TableStays DEF IInv, memory, NoTable
  <2> QED
    BY <1>1, <1>4, <2>1, <2>2, <2>3, <2>4 DEF IInv, LookupShape, Placed
<1>5. CASE Refuse("InvalidHash")
  BY <1>1, <1>5, RefuseKeeps DEF Building
<1>6. CASE Len(words) = HeaderWords /\ Fits(words) /\ pc' = "ready" /\ table' = NewTable(words)
           /\ UNCHANGED <<memory, at, meta, header, lookup, answer>>
  <2>1. Memory'
    BY <1>1, <1>6, MemoryStays DEF memory
  <2>2. TableOK'
    BY <1>1, <1>3, <1>6, HeaderFits DEF memory
  <2>3. table' # NoTable
    BY <2>2 DEF TableOK, HashOK, NoTable
  <2>4. Reader'
    BY <1>1, <1>6, <2>3 DEF Reader, memory, Building, LookingUp, NoTable
  <2> QED
    BY <1>6, <2>1, <2>2, <2>4 DEF IInv, LookupShape, Placed
<1> QED
  BY <1>4, <1>5, <1>6 DEF ReadHeader

-----------------------------------------------------------------------------
(* Lookups.                                                                *)

(* A lookup has a table.                                                   *)
LEMMA HasTable ==
  ASSUME IInv, pc \in LookingUp
  PROVE  TableOK
BY DEF IInv, Reader

LEMMA BeginOK ==
  ASSUME IInv, NEW name \in Names, NEW export \in BOOLEAN, Begin(name, export)
  PROVE  IInv'
<1>1. Memory'
  BY MemoryStays DEF IInv, Begin, memory
<1>2. TableOK
  BY DEF IInv, Reader, Begin
<1>3. pc' = (IF table.kind = "gnu" THEN "bloom" ELSE "bucket") /\ UNCHANGED table
  BY DEF Begin
<1>4. Reader'
  BY <1>3 DEF IInv, Reader, Begin, memory, Pending, Building, LookingUp, NoTable
<1>5. (table # NoTable => TableOK)'
  BY <1>2, TableStays DEF Begin, memory
<1>6. LookupShape'
  <2>1. GnuHash[name] \in Nat /\ SysvHash[name] \in Nat
    BY WordsPositive
  <2> QED
    BY <2>1 DEF Begin, NoLookup, LookupShape
<1> QED
  BY <1>1, <1>3, <1>4, <1>5, <1>6 DEF IInv, Placed

LEMMA ReadBloomOK ==
  ASSUME IInv, ReadBloom
  PROVE  IInv'
<1>1. pc = "bloom" /\ pc \in LookingUp
  BY DEF ReadBloom, LookingUp
<1>2. CASE Return(Nothing)
  BY <1>1, <1>2, ReturnKeeps DEF Nothing
<1>3. CASE GoOn("bucket", lookup)
  <2>1. pc' = "bucket" /\ UNCHANGED <<lookup, table>>
    BY <1>3 DEF GoOn
  <2>2. LookupShape' /\ Placed'
    BY <2>1 DEF IInv, LookupShape, Placed
  <2> QED
    BY <1>1, <1>3, <2>2, GoOnKeeps DEF LookingUp
<1> QED
  BY <1>2, <1>3 DEF ReadBloom

(* The turns of the loops, from a position that stands in the table.       *)
LEMMA SymbolKeeps ==
  ASSUME IInv, pc \in LookingUp, NEW index \in Nat, NEW steps \in Nat, NEW chain,
         table.first <= index, index < table.first + table.links,
         Symbol([lookup EXCEPT !.index = index, !.steps = steps, !.chain = chain])
  PROVE  IInv'
<1> DEFINE position == [lookup EXCEPT !.index = index, !.steps = steps, !.chain = chain]
<1>1. LookupShape
  BY DEF IInv
<1>2. position.index = index
  BY <1>1 DEF LookupShape
<1>3. CASE index < table.capacity /\ GoOn("symbol", position)
  <2>1. pc' = "symbol" /\ lookup' = position /\ UNCHANGED table
    BY <1>3 DEF GoOn
  <2>2. LookupShape'
    BY <1>1, <2>1 DEF LookupShape
  <2>3. Placed'
    BY <1>2, <1>3, <2>1 DEF Placed
  <2> QED
    BY <1>3, <2>2, <2>3, GoOnKeeps DEF LookingUp
<1>4. CASE Refuse("SymbolOutsideTable")
  BY <1>4, RefuseKeeps
<1> QED
  BY <1>2, <1>3, <1>4 DEF Symbol

LEMMA SysvTurnKeeps ==
  ASSUME IInv, pc \in LookingUp, table.kind = "sysv", table.first = 0,
         NEW index \in Nat, NEW steps \in Nat, SysvTurn(index, steps)
  PROVE  IInv'
<1>1. TableOK /\ LookupShape
  BY HasTable DEF IInv
<1>2. CASE Refuse("InvalidHash")
  BY <1>2, RefuseKeeps
<1>3. CASE Return(Nothing)
  BY <1>3, ReturnKeeps DEF Nothing
<1>4. CASE index < table.links /\ Symbol([lookup EXCEPT !.index = index, !.steps = steps + 1])
  <2>1. [lookup EXCEPT !.index = index, !.steps = steps + 1]
        = [lookup EXCEPT !.index = index, !.steps = steps + 1, !.chain = lookup.chain]
    BY <1>1 DEF LookupShape
  <2>2. steps + 1 \in Nat /\ table.first <= index /\ index < table.first + table.links
    BY <1>1, <1>4 DEF TableOK, HashOK
  <2> QED
    BY <1>4, <2>1, <2>2, SymbolKeeps
<1>5. index >= table.links \/ index < table.links
  BY <1>1 DEF TableOK, HashOK
<1> QED
  BY <1>2, <1>3, <1>4, <1>5 DEF SysvTurn

LEMMA GnuTurnKeeps ==
  ASSUME IInv, pc \in LookingUp, NEW index \in Nat, table.first <= index, GnuTurn(index)
  PROVE  IInv'
<1>1. TableOK /\ LookupShape
  BY HasTable DEF IInv
<1>2. CASE Refuse("InvalidHash")
  BY <1>2, RefuseKeeps
<1>3. CASE index - table.first < table.links /\ GoOn("chain", [lookup EXCEPT !.index = index])
  <2>1. pc' = "chain" /\ lookup' = [lookup EXCEPT !.index = index] /\ UNCHANGED table
    BY <1>3 DEF GoOn
  <2>2. LookupShape' /\ lookup'.index = index
    BY <1>1, <2>1 DEF LookupShape
  <2>3. index < table.first + table.links
    BY <1>1, <1>3 DEF TableOK, HashOK
  <2>4. Placed'
    BY <2>1, <2>2, <2>3 DEF Placed
  <2> QED
    BY <1>3, <2>2, <2>4, GoOnKeeps DEF LookingUp
<1> QED
  BY <1>2, <1>3 DEF GnuTurn

(* The word at a mapped address.                                           *)
LEMMA WordType ==
  ASSUME Memory, NEW address \in Nat, Mapped(address, 1)
  PROVE  WordAt(address) \in Nat
BY DEF Memory, Unsigned, Mapped, WordAt

LEMMA BucketAddressType ==
  ASSUME TableOK, lookup.hash \in Nat
  PROVE  BucketAddress \in Nat
<1> DEFINE slot == lookup.hash % table.buckets
<1>1. slot \in Nat
  <2>1. table.buckets \in Nat \ {0}
    BY DEF TableOK, HashOK
  <2>2. slot \in 0 .. table.buckets - 1
    BY <2>1, DivFits, Zenon
  <2> QED
    BY <2>1, <2>2
<1>2. table.address \in Nat /\ table.array \in Nat
  BY DEF TableOK, HashOK
<1>3. BucketAddress = table.address + table.array + slot
  BY DEF BucketAddress
<1> QED
  BY <1>1, <1>2, <1>3

LEMMA ReadBucketOK ==
  ASSUME IInv, ReadBucket
  PROVE  IInv'
<1> DEFINE index == WordAt(BucketAddress)
<1>1. pc = "bucket" /\ pc \in LookingUp
  BY DEF ReadBucket, LookingUp
<1>2. TableOK /\ LookupShape /\ Memory
  BY <1>1, HasTable DEF IInv
<1>3. index \in Nat
  BY <1>2, BucketAddressType, WordType DEF ReadBucket, LookupShape
<1>4. CASE table.kind = "sysv" /\ SysvTurn(index, 0)
  BY <1>1, <1>2, <1>3, <1>4, SysvTurnKeeps DEF TableOK, HashOK
<1>5. CASE Return(Nothing)
  BY <1>1, <1>5, ReturnKeeps DEF Nothing
<1>6. CASE Refuse("InvalidHash")
  BY <1>1, <1>6, RefuseKeeps
<1>7. CASE table.kind = "gnu" /\ table.first <= index /\ GnuTurn(index)
  BY <1>1, <1>3, <1>7, GnuTurnKeeps
<1> QED
  <2>1. table.kind \in {"gnu", "sysv"} /\ table.first \in Nat
    BY <1>2 DEF TableOK, HashOK
  <2>2. CASE table.kind = "sysv"
    BY <2>2, <1>4 DEF ReadBucket
  <2>3. CASE table.kind = "gnu" /\ index = 0
    BY <2>3, <1>5 DEF ReadBucket
  <2>4. CASE table.kind = "gnu" /\ index # 0 /\ index < table.first
    BY <2>4, <1>6 DEF ReadBucket
  <2>5. CASE table.kind = "gnu" /\ index # 0 /\ ~(index < table.first)
    <3>1. table.first <= index
      BY <2>1, <2>5, <1>3
    <3> QED
      BY <2>5, <3>1, <1>7 DEF ReadBucket
  <2> QED
    BY <2>1, <2>2, <2>3, <2>4, <2>5

(* The chain word of a position in the table.                              *)
LEMMA ChainAddressType ==
  ASSUME IInv, pc = "chain"
  PROVE  ChainAddress \in Nat
<1>1. TableOK
  BY HasTable DEF LookingUp
<1>2. lookup.index \in Nat /\ table.first <= lookup.index
  BY DEF IInv, LookupShape, Placed
<1> QED
  BY <1>1, <1>2 DEF TableOK, HashOK, ChainAddress

LEMMA ReadChainOK ==
  ASSUME IInv, ReadChain
  PROVE  IInv'
<1> DEFINE word == WordAt(ChainAddress)
<1>1. pc = "chain" /\ pc \in LookingUp
  BY DEF ReadChain, LookingUp
<1>2. TableOK /\ LookupShape /\ Memory /\ Placed
  BY <1>1, HasTable DEF IInv
<1>3. word \in Nat
  BY <1>1, <1>2, ChainAddressType, WordType DEF ReadChain
<1>4. /\ lookup.index \in Nat /\ lookup.steps \in Nat /\ table.first \in Nat
      /\ table.first <= lookup.index /\ lookup.index < table.first + table.links
  BY <1>1, <1>2 DEF LookupShape, Placed, TableOK, HashOK
<1>5. CASE table.kind = "sysv" /\ SysvTurn(word, lookup.steps)
  BY <1>1, <1>2, <1>3, <1>4, <1>5, SysvTurnKeeps DEF TableOK, HashOK
<1>6. CASE Symbol([lookup EXCEPT !.chain = word])
  <2>1. [lookup EXCEPT !.chain = word]
        = [lookup EXCEPT !.index = lookup.index, !.steps = lookup.steps, !.chain = word]
    BY <1>2 DEF LookupShape
  <2> QED
    BY <1>1, <1>4, <1>6, <2>1, SymbolKeeps
<1>7. CASE Return(Nothing)
  BY <1>1, <1>7, ReturnKeeps DEF Nothing
<1>8. CASE GnuTurn(lookup.index + 1)
  BY <1>1, <1>4, <1>8, GnuTurnKeeps
<1> QED
  <2>1. table.kind \in {"gnu", "sysv"}
    BY <1>2 DEF TableOK, HashOK
  <2>2. CASE table.kind = "sysv"
    BY <2>2, <1>5 DEF ReadChain
  <2>3. CASE table.kind = "gnu" /\ SameHash(word, lookup.hash)
    BY <2>3, <1>6 DEF ReadChain
  <2>4. CASE table.kind = "gnu" /\ ~SameHash(word, lookup.hash) /\ Terminal(word)
    BY <2>4, <1>7 DEF ReadChain
  <2>5. CASE table.kind = "gnu" /\ ~SameHash(word, lookup.hash) /\ ~Terminal(word)
    BY <2>5, <1>8 DEF ReadChain
  <2> QED
    BY <2>1, <2>2, <2>3, <2>4, <2>5

LEMMA ReadSymbolOK ==
  ASSUME IInv, ReadSymbol
  PROVE  IInv'
<1> DEFINE record == contents.symbols[lookup.index + 1]
           position == [lookup EXCEPT !.record = <<record>>]
<1>1. pc = "symbol" /\ pc \in LookingUp
  BY DEF ReadSymbol, LookingUp
<1>2. LookupShape /\ Memory /\ Placed
  BY DEF IInv
<1>3. record.name \in Nat
  <2>1. lookup.index \in Nat /\ Len(contents.symbols) \in Nat
    BY <1>2 DEF LookupShape, Memory, Unsigned
  <2>2. lookup.index + 1 \in 1 .. Len(contents.symbols)
    BY <2>1 DEF ReadSymbol
  <2> QED
    BY <1>2, <2>2 DEF Memory, Unsigned
<1>4. CASE Refuse("InvalidNameOffset")
  BY <1>1, <1>4, RefuseKeeps
<1>5. CASE record.name < table.strsz /\ GoOn("name", position)
  <2>1. pc' = "name" /\ lookup' = position /\ UNCHANGED table
    BY <1>5 DEF GoOn
  <2>2. LookupShape' /\ lookup'.index = lookup.index /\ lookup'.record = <<record>>
    BY <1>2, <2>1 DEF LookupShape
  <2>3. lookup'.record[1] = record
    BY <2>2
  <2>4. Placed'
    BY <1>1, <1>2, <1>3, <1>5, <2>1, <2>2, <2>3 DEF Placed
  <2> QED
    BY <1>1, <1>5, <2>2, <2>4, GoOnKeeps DEF LookingUp
<1> QED
  BY <1>4, <1>5 DEF ReadSymbol

LEMMA ReadNameOK ==
  ASSUME IInv, ReadName
  PROVE  IInv'
<1> DEFINE name == contents.strings[lookup.record[1].name]
           result == IF lookup.export THEN Exported(lookup.record[1])
                     ELSE [kind |-> "found", index |-> lookup.index]
<1>1. pc = "name" /\ pc \in LookingUp
  BY DEF ReadName, LookingUp
<1>2. TableOK /\ LookupShape /\ Placed
  BY <1>1, HasTable DEF IInv
<1>3. /\ lookup.index \in Nat /\ table.first \in Nat
      /\ table.first <= lookup.index /\ lookup.index < table.first + table.links
  BY <1>1, <1>2 DEF LookupShape, Placed, TableOK, HashOK
<1>4. CASE Refuse("MissingNameTerminator")
  BY <1>1, <1>4, RefuseKeeps
<1>5. CASE Return(result)
  <2>1. result.kind \in {"error", "none", "found", "export"}
    BY DEF Exported, Nothing, Error
  <2> QED
    BY <1>1, <1>5, <2>1, ReturnKeeps
<1>6. CASE GoOn("chain", lookup)
  <2>1. pc' = "chain" /\ UNCHANGED <<lookup, table>>
    BY <1>6 DEF GoOn
  <2>2. LookupShape' /\ Placed'
    BY <1>1, <1>2, <2>1 DEF LookupShape, Placed
  <2> QED
    BY <1>1, <1>6, <2>2, GoOnKeeps DEF LookingUp
<1>7. CASE Return(Nothing)
  BY <1>1, <1>7, ReturnKeeps DEF Nothing
<1>8. CASE GnuTurn(lookup.index + 1)
  BY <1>1, <1>3, <1>8, GnuTurnKeeps
<1> QED
  <2>1. CASE name = BadName
    BY <2>1, <1>4, <1>5 DEF ReadName
  <2>2. CASE name = lookup.name
    BY <2>2, <1>4, <1>5 DEF ReadName
  <2>3. CASE name \notin {BadName, lookup.name}
    BY <2>3, <1>6, <1>7, <1>8 DEF ReadName
  <2> QED
    BY <2>1, <2>2, <2>3

LEMMA AccessFailsOK ==
  ASSUME IInv, AccessFails
  PROVE  IInv'
BY RefuseKeeps DEF AccessFails, Building, LookingUp

LEMMA ChangeOK ==
  ASSUME IInv, Change
  PROVE  IInv'
<1>1. Memory'
  BY DEF IInv, Memory, Unsigned, Change
<1>2. pc = "header" => MetadataOK'
  BY MetadataStays DEF IInv, Change
<1>3. (table # NoTable => TableOK)'
  BY TableStays DEF IInv, Change, NoTable
<1> QED
  BY <1>1, <1>2, <1>3 DEF IInv, Reader, LookupShape, Placed, Change

(* A turn of the reader, a lookup that begins and a write preserve the     *)
(* invariant.                                                              *)
LEMMA StepOK == IInv /\ [Next]_vars => IInv'
<1> SUFFICES ASSUME IInv, [Next]_vars PROVE IInv'
  OBVIOUS
<1>1. CASE Read
  BY <1>1, ReadEntryOK, EntryFailsOK, EndOfEntriesOK, ReadHeaderOK, ReadBloomOK, ReadBucketOK,
     ReadChainOK, ReadSymbolOK, ReadNameOK, AccessFailsOK DEF Read
<1>2. CASE \E name \in Names, export \in BOOLEAN : Begin(name, export)
  BY <1>2, BeginOK
<1>3. CASE Change
  BY <1>3, ChangeOK
<1>4. CASE UNCHANGED vars
  <2>1. UNCHANGED <<image, contents, changed, pc, at, meta, header, table, lookup, answer>>
    BY <1>4 DEF vars, memory
  <2>2. Memory'
    BY <2>1, MemoryStays DEF IInv
  <2>3. pc = "header" => MetadataOK'
    BY <2>1, MetadataStays DEF IInv
  <2>4. (table # NoTable => TableOK)'
    BY <2>1, TableStays DEF IInv, NoTable
  <2> QED
    BY <2>1, <2>2, <2>3, <2>4 DEF IInv, Reader, LookupShape, Placed
<1> QED
  BY <1>1, <1>2, <1>3, <1>4 DEF Next

-----------------------------------------------------------------------------
(* A slot of the bloom filter, of the buckets, of the chains, of the       *)
(* symbol table and of the string table is inside its load segment.        *)
LEMMA PlacesInside == IInv => ReadsInside
<1> SUFFICES ASSUME IInv PROVE ReadsInside
  OBVIOUS
<1>1. LookupShape /\ Placed
  BY DEF IInv
<1>2. ASSUME pc \in LookingUp
      PROVE  /\ table.address \in Nat /\ LoadWords(table.address) \in Nat
             /\ table.array \in Nat /\ table.first \in Nat
             /\ table.buckets \in Nat \ {0} /\ table.links \in Nat \ {0}
             /\ table.array + table.buckets + table.links <= LoadWords(table.address)
  BY <1>2, HasTable DEF TableOK, HashOK
<1>3. pc = "bloom" => Inside(table.address, BloomAddress, ClassWords)
  <2> SUFFICES ASSUME pc = "bloom" PROVE Inside(table.address, BloomAddress, ClassWords)
    OBVIOUS
  <2> DEFINE slot == (lookup.hash \div WordBits) % table.bloom
  <2>1. table.bloom \in Nat \ {0} /\ table.array = 4 + table.bloom * ClassWords
    BY <1>1, HasTable DEF Placed, TableOK, HashOK, LookingUp
  <2>2. slot \in Nat /\ slot < table.bloom
    <3>1. WordBits \in Nat \ {0}
      <4>1. \A m \in Nat \ {0}, n \in Nat \ {0} : m * n \in Nat \ {0}
        OBVIOUS
      <4> QED
        BY <4>1, WordsPositive DEF WordBits
    <3>2. lookup.hash \in Nat
      BY <1>1 DEF LookupShape
    <3>3. (lookup.hash \div WordBits) \in Nat
      BY <3>1, <3>2, DivFits, Zenon
    <3>4. slot \in 0 .. table.bloom - 1
      BY <3>3, <2>1, DivFits, Zenon
    <3> QED
      BY <2>1, <3>4
  <2>3. slot * ClassWords \in Nat /\ slot * ClassWords + ClassWords <= table.bloom * ClassWords
    BY <2>1, <2>2, SlotFits, WordsPositive
  <2>4. table.bloom * ClassWords \in Nat /\ ClassWords \in Nat
    BY <2>1, WordsPositive
  <2>5. BloomAddress = table.address + 4 + slot * ClassWords
    BY DEF BloomAddress
  <2> HIDE DEF slot
  <2> QED
    BY <1>2, <2>1, <2>3, <2>4, <2>5 DEF Inside, LookingUp
<1>4. pc = "bucket" => Inside(table.address, BucketAddress, 1)
  <2> SUFFICES ASSUME pc = "bucket" PROVE Inside(table.address, BucketAddress, 1)
    OBVIOUS
  <2> DEFINE slot == lookup.hash % table.buckets
  <2>1. slot \in 0 .. table.buckets - 1
    BY <1>1, <1>2, DivFits DEF LookupShape, LookingUp
  <2>2. BucketAddress = table.address + table.array + slot
    BY DEF BucketAddress
  <2> HIDE DEF slot
  <2> QED
    BY <1>2, <2>1, <2>2 DEF Inside, LookingUp
<1>5. pc = "chain" => Inside(table.address, ChainAddress, 1)
  BY <1>1, <1>2 DEF Inside, ChainAddress, Placed, LookupShape, LookingUp
<1>6. pc = "symbol" => Inside(table.symtab, SymbolAddress, SymbolWords)
  <2> SUFFICES ASSUME pc = "symbol" PROVE Inside(table.symtab, SymbolAddress, SymbolWords)
    OBVIOUS
  <2>1. /\ table.symtab \in Nat /\ table.capacity \in Nat /\ LoadWords(table.symtab) \in Nat
        /\ table.capacity * SymbolWords <= LoadWords(table.symtab)
    BY HasTable DEF TableOK, RecordsOK, LookingUp
  <2>2. lookup.index \in Nat /\ lookup.index < table.capacity
    BY <1>1 DEF LookupShape, Placed
  <2>3. /\ lookup.index * SymbolWords \in Nat
        /\ lookup.index * SymbolWords + SymbolWords <= table.capacity * SymbolWords
    BY <2>1, <2>2, SlotFits, WordsPositive
  <2>4. table.capacity * SymbolWords \in Nat /\ SymbolWords \in Nat
    BY <2>1, WordsPositive
  <2> QED
    BY <2>1, <2>3, <2>4 DEF Inside, SymbolAddress
<1>7. pc = "name" => Inside(table.strtab, NameAddress, 1)
  <2> SUFFICES ASSUME pc = "name" PROVE Inside(table.strtab, NameAddress, 1)
    OBVIOUS
  <2>1. /\ table.strtab \in Nat /\ table.strsz \in Nat
        /\ LoadWords(table.strtab) \in Nat /\ table.strsz <= LoadWords(table.strtab)
    BY HasTable DEF TableOK, RecordsOK, LookingUp
  <2>2. lookup.record[1].name \in Nat /\ lookup.record[1].name < table.strsz
    BY <1>1 DEF Placed
  <2> QED
    BY <2>1, <2>2 DEF Inside, NameAddress
<1> QED
  BY <1>3, <1>4, <1>5, <1>6, <1>7 DEF ReadsInside

(* The state of the reader has its types, whatever the memory holds.       *)
LEMMA ReaderTyped == IInv => TypeOK
BY DEF IInv, Reader, LookupShape, TableOK, HashOK, TypeOK

LEMMA AlwaysIInv == Spec => []IInv
BY StartOK, StepOK, PTL DEF Spec

(* DynamicSymbols keeps its types: a table exists only if buckets and      *)
(* chains are there to be searched (gnu_hash_table, sysv_hash_table).      *)
THEOREM DynamicTypes == Spec => []TypeOK
BY AlwaysIInv, ReaderTyped, PTL

(* Every access of a lookup stays inside the load segments that held the   *)
(* tables when they were validated (dynamic.rs:182), although buckets,     *)
(* chains and symbol records may have been rewritten since.                *)
THEOREM LookupsStayInside == Spec => []ReadsInside
BY AlwaysIInv, PlacesInside, PTL

-----------------------------------------------------------------------------
(* What the metadata say.                                                  *)

(* The entries read so far are no terminator and agree with the metadata.  *)
Agreed(n) ==
  /\ n <= Len(contents.dynamic)
  /\ \A j \in 1 .. n :
       /\ contents.dynamic[j].tag # "null"
       /\ \A f \in Fields :
            IF meta[f] = None THEN contents.dynamic[j].tag # f
            ELSE contents.dynamic[j].tag = f => contents.dynamic[j].value = meta[f]

MetaInv == IInv /\ MetadataAgrees /\ (~changed /\ pc = "entry" => Agreed(at))

LEMMA ReadEntryAgrees ==
  ASSUME MetaInv, ReadEntry
  PROVE  MetadataAgrees' /\ (~changed /\ pc = "entry" => Agreed(at))'
<1>1. /\ pc' = "entry" /\ changed' = changed /\ contents' = contents /\ at' = at + 1
      /\ at \in Nat /\ EntryMapped /\ Entry.tag # "null" /\ ~Conflicts(Entry)
      /\ meta' = [f \in Fields |-> IF f = Entry.tag THEN Entry.value ELSE meta[f]]
  BY DEF ReadEntry, memory, MetaInv, IInv, Reader
<1>2. contents.dynamic \in Seq([tag : STRING, value : Nat]) /\ Entry.value \in Nat
  BY <1>1, EntryType DEF MetaInv, IInv, Memory, Unsigned
<1>3. ASSUME ~changed PROVE Agreed(at)'
  <2>1. Agreed(at) /\ at + 1 <= Len(contents.dynamic)
    BY <1>1, <1>2, <1>3 DEF MetaInv, ReadEntry, EntryMapped
  <2>2. ASSUME NEW j \in 1 .. at + 1, NEW f \in Fields
        PROVE  /\ contents.dynamic[j].tag # "null"
               /\ IF meta'[f] = None THEN contents.dynamic[j].tag # f
                  ELSE contents.dynamic[j].tag = f => contents.dynamic[j].value = meta'[f]
    <3>1. CASE j = at + 1
      BY <1>1, <1>2, <3>1 DEF Entry, None
    <3>2. CASE j # at + 1
      <4>1. j \in 1 .. at
        BY <1>1, <3>2
      <4>2. CASE f = Entry.tag
        BY <1>1, <1>2, <2>1, <4>1, <4>2 DEF Agreed, Conflicts, None
      <4>3. CASE f # Entry.tag
        BY <1>1, <2>1, <4>1, <4>3 DEF Agreed
      <4> QED
        BY <4>2, <4>3
    <3> QED
      BY <3>1, <3>2
  <2> QED
    BY <1>1, <2>1, <2>2 DEF Agreed, Fields
<1> QED
  BY <1>1, <1>3 DEF MetadataAgrees

LEMMA EndOfEntriesAgrees ==
  ASSUME MetaInv, EndOfEntries
  PROVE  MetadataAgrees'
<1>1. CASE MetadataFault # "none"
  BY <1>1 DEF EndOfEntries, Refuse, Building, MetadataAgrees
<1>2. CASE MetadataFault = "none"
  <2>1. /\ changed' = changed /\ contents' = contents /\ meta' = meta /\ at \in Nat
        /\ pc = "entry" /\ contents.dynamic[at + 1].tag = "null" /\ at < Len(contents.dynamic)
        /\ contents.dynamic \in Seq([tag : STRING, value : Nat])
    BY <1>2 DEF EndOfEntries, memory, MetaInv, IInv, Reader, Memory, Unsigned, Entry, EntryMapped
  <2>2. SUFFICES ASSUME ~changed, NEW f \in Fields, NEW e \in Entries
                 PROVE  IF meta[f] = None THEN e.tag # f ELSE e.tag = f => e.value = meta[f]
    <3>1. Entries' = Entries /\ \A f \in Fields : Said(f)' = Said(f)
      BY <2>1 DEF Entries, Said
    <3> QED
      BY <2>1, <2>2, <3>1 DEF MetadataAgrees, Said
  <2>3. PICK i \in DOMAIN contents.dynamic :
          e = contents.dynamic[i] /\ \A k \in 1 .. i : contents.dynamic[k].tag # "null"
    BY <2>2 DEF Entries
  <2>4. i \in 1 .. at
    <3>1. i \in Nat /\ i >= 1
      BY <2>1
    <3>2. ~(at + 1 \in 1 .. i)
      BY <2>1, <2>3
    <3> QED
      BY <2>1, <3>1, <3>2
  <2> QED
    BY <2>1, <2>2, <2>3, <2>4 DEF MetaInv, Agreed
<1> QED
  BY <1>1, <1>2

LEMMA MetaStepOK == MetaInv /\ [Next]_vars => MetaInv'
<1> SUFFICES ASSUME MetaInv, [Next]_vars PROVE MetaInv'
  OBVIOUS
<1>1. IInv'
  BY StepOK DEF MetaInv
<1>2. CASE ReadEntry
  BY <1>1, <1>2, ReadEntryAgrees DEF MetaInv
<1>3. CASE EndOfEntries
  <2>1. pc' # "entry"
    BY <1>3 DEF EndOfEntries, Refuse, Building
  <2> QED
    BY <1>1, <1>3, <2>1, EndOfEntriesAgrees DEF MetaInv
<1>4. CASE Change
  BY <1>1, <1>4 DEF Change, MetaInv, MetadataAgrees
<1>5. CASE UNCHANGED vars
  BY <1>1, <1>5 DEF vars, memory, MetaInv, MetadataAgrees, Agreed, Said, Entries
<1>6. CASE EntryFails
  <2>1. pc' = "failed"
    BY <1>6 DEF EntryFails, Refuse, Building
  <2> QED
    BY <1>1, <2>1 DEF MetaInv, MetadataAgrees
<1>7. CASE \/ ReadHeader \/ ReadBloom \/ ReadBucket \/ ReadChain \/ ReadSymbol \/ ReadName
           \/ AccessFails \/ \E name \in Names, export \in BOOLEAN : Begin(name, export)
  <2>1. /\ pc \notin {"entry", "failed"} /\ pc' # "entry"
        /\ UNCHANGED <<contents, changed, meta>>
    <3>1. CASE ReadHeader \/ AccessFails
      BY <3>1 DEF ReadHeader, AccessFails, Refuse, memory, Building
    <3>2. CASE ReadBloom \/ ReadSymbol \/ ReadName
      BY <3>2 DEF ReadBloom, ReadSymbol, ReadName, GnuTurn, Return, Refuse, GoOn, memory, Building
    <3>3. CASE ReadBucket \/ ReadChain
      BY <3>3 DEF ReadBucket, ReadChain, GnuTurn, SysvTurn, Symbol, Return, Refuse, GoOn, memory,
                  Building
    <3>4. CASE \E name \in Names, export \in BOOLEAN : Begin(name, export)
      BY <3>4 DEF Begin, memory
    <3> QED
      BY <1>7, <3>1, <3>2, <3>3, <3>4
  <2> QED
    BY <1>1, <2>1 DEF MetaInv, MetadataAgrees, Said, Entries
<1> QED
  BY <1>2, <1>3, <1>4, <1>5, <1>6, <1>7 DEF Next, Read

LEMMA AlwaysMetaInv == Spec => []MetaInv
<1>1. Init => MetaInv
  BY StartOK DEF Init, MetaInv, MetadataAgrees, Agreed, IInv, Memory, Unsigned
<1> QED
  BY <1>1, MetaStepOK, PTL DEF Spec

(* DynamicSymbols rests on what every entry before the first terminator    *)
(* says, and no field it lacks is said by one (metadata, unique).          *)
THEOREM CollectedMetadataAgree == Spec => []MetadataAgrees
<1>1. MetaInv => MetadataAgrees
  BY DEF MetaInv
<1> QED
  BY <1>1, AlwaysMetaInv, PTL

-----------------------------------------------------------------------------
(* What a linker built.                                                    *)

Gnu == Said("gnu_hash")

(* The parts of a GNU table.                                               *)
Buckets    == Cell(0)
First      == Cell(1)
Bloom      == Cell(2)
GnuArray   == 4 + Bloom * ClassWords
Covered    == First .. SymbolCount - 1
HashOf(i)  == GnuHash[NameOf(i)]
Sharing(b) == {i \in Covered : HashOf(i) % Buckets = b}
ChainOf(i) == Cell(GnuArray + Buckets + (i - First))
FilterOf(hash) == 4 + ((hash \div WordBits) % Bloom) * ClassWords

(* The chain of a bucket of a System V table.                              *)
LinkOf(i) == Cell(2 + Buckets + i)
IsChain(b, length, chain) ==
  /\ Cell(2 + b) = IF length = 0 THEN 0 ELSE chain[1]
  /\ \A k \in 1 .. length : LinkOf(chain[k]) = IF k = length THEN 0 ELSE chain[k + 1]
  /\ \A i \in 1 .. SymbolCount - 1 :
       SysvHash[NameOf(i)] % Buckets = b => \E k \in 1 .. length : chain[k] = i

LEMMA GnuLaidOut ==
  ASSUME Built, Gnu
  PROVE  /\ Mapped(Hashes, 4) /\ Buckets # 0 /\ Bloom # 0 /\ Cell(3) < HashBits
         /\ First \in 1 .. SymbolCount /\ First < LoadWords(Symbols) \div SymbolWords
         /\ Mapped(Hashes, GnuArray + Buckets + (SymbolCount - First))
         /\ GnuArray + Buckets + (SymbolCount - First) <= LoadWords(Hashes)
         /\ GnuArray + Buckets < LoadWords(Hashes)
         /\ \A i \in Covered :
              /\ NameBuilt(i)
              /\ \A bit \in {HashOf(i) % WordBits, (HashOf(i) \div 2^Cell(3)) % WordBits} :
                   IsSet(FilterOf(HashOf(i)), bit)
         /\ \A b \in 0 .. Buckets - 1 :
              \/ Cell(GnuArray + b) = 0 /\ Sharing(b) = {}
              \/ \E last \in Covered :
                   /\ Cell(GnuArray + b) \in Covered
                   /\ Sharing(b) = Cell(GnuArray + b) .. last /\ Sharing(b) # {}
                   /\ \A i \in Sharing(b) : /\ ChainOf(i) \div 2 = HashOf(i) \div 2
                                            /\ ChainOf(i) % 2 = 1 <=> i = last
BY Zenon DEF Built, Gnu, GnuBuilt, Buckets, First, Bloom, GnuArray, Covered, HashOf, Sharing, ChainOf,
             FilterOf

LEMMA SysvLaidOut ==
  ASSUME Built, ~Gnu
  PROVE  /\ Mapped(Hashes, 2) /\ Buckets # 0 /\ Cell(1) = SymbolCount
         /\ Mapped(Hashes, 2 + Buckets + SymbolCount)
         /\ 2 + Buckets + SymbolCount <= LoadWords(Hashes)
         /\ \A i \in 1 .. SymbolCount - 1 : NameBuilt(i)
         /\ \A b \in 0 .. Buckets - 1 :
              \E length \in 0 .. SymbolCount - 1 :
                \E chain \in [1 .. length -> 1 .. SymbolCount - 1] : IsChain(b, length, chain)
<1>1. SysvBuilt
  BY DEF Built, Gnu
<1> QED
  BY <1>1, Zenon DEF SysvBuilt, Buckets, LinkOf, IsChain

(* All of this is about the image and its memory only.                     *)
LEMMA GeometryStays ==
  ASSUME UNCHANGED image
  PROVE  /\ \A a : LoadWords(a)' = LoadWords(a)
         /\ \A a : Resolve(a)' = Resolve(a)
BY DEF LoadWords, Resolve, Contains, Holds, Start, End

LEMMA ContentsStay ==
  ASSUME UNCHANGED <<image, contents>>
  PROVE  /\ Entries' = Entries /\ Strings' = Strings /\ Symbols' = Symbols /\ Hashes' = Hashes
         /\ SymbolCount' = SymbolCount
         /\ \A f : Said(f)' = Said(f) /\ Value(f)' = Value(f)
         /\ \A k : Cell(k)' = Cell(k)
         /\ \A i : NameOf(i)' = NameOf(i)
         /\ \A a, n : Mapped(a, n)' = Mapped(a, n)
         /\ \A a : WordAt(a)' = WordAt(a)
<1>1. Entries' = Entries /\ SymbolCount' = SymbolCount
  BY DEF Entries, SymbolCount
<1>2. \A f : Said(f)' = Said(f) /\ Value(f)' = Value(f)
  BY <1>1 DEF Said, Value
<1>3. Strings' = Strings /\ Symbols' = Symbols /\ Hashes' = Hashes
  BY <1>2, GeometryStays DEF Strings, Symbols, Hashes
<1> QED
  BY <1>1, <1>2, <1>3 DEF Cell, NameOf, Mapped, WordAt

LEMMA BuiltBefore ==
  ASSUME UNCHANGED <<image, contents>>, Built'
  PROVE  Built
<1>1. DynamicBuilt
  BY ContentsStay DEF DynamicBuilt, Built
<1>2. TablesBuilt
  BY ContentsStay, GeometryStays DEF TablesBuilt, Built
<1>3. \A i : NameBuilt(i)' = NameBuilt(i)
  BY ContentsStay DEF NameBuilt
<1>4. \A c, b : IsSet(c, b)' = IsSet(c, b)
  BY ContentsStay DEF IsSet
<1>5. ASSUME Said("gnu_hash") PROVE GnuBuilt
  BY ContentsStay, GeometryStays, <1>3, <1>4, <1>5 DEF GnuBuilt, Built
<1>6. ASSUME ~Said("gnu_hash") PROVE SysvBuilt
  <2>1. SysvBuilt'
    BY ContentsStay, <1>6 DEF Built
  <2>2. \A i : /\ Cell(2 + Cell(0) + i)' = Cell(2 + Cell(0) + i)
               /\ SysvHash[NameOf(i)]' = SysvHash[NameOf(i)]
    BY ContentsStay
  <2>3. ASSUME NEW b \in 0 .. Cell(0) - 1
        PROVE  \E length \in 0 .. SymbolCount - 1 :
                 \E chain \in [1 .. length -> 1 .. SymbolCount - 1] :
                   /\ Cell(2 + b) = IF length = 0 THEN 0 ELSE chain[1]
                   /\ \A k \in 1 .. length :
                        Cell(2 + Cell(0) + chain[k]) = IF k = length THEN 0 ELSE chain[k + 1]
                   /\ \A index \in 1 .. SymbolCount - 1 :
                        SysvHash[NameOf(index)] % Cell(0) = b => \E k \in 1 .. length : chain[k] = index
    <3>1. b \in (0 .. Cell(0) - 1)'
      BY ContentsStay
    <3>2. PICK length \in (0 .. SymbolCount - 1)' :
                 \E chain \in [1 .. length -> (1 .. SymbolCount - 1)'] :
                   /\ Cell(2 + b)' = IF length = 0 THEN 0 ELSE chain[1]
                   /\ \A k \in 1 .. length :
                        Cell(2 + Cell(0) + chain[k])' = IF k = length THEN 0 ELSE chain[k + 1]
                   /\ \A index \in (1 .. SymbolCount - 1)' :
                        (SysvHash[NameOf(index)] % Cell(0) = b)' => \E k \in 1 .. length : chain[k] = index
      BY <2>1, <3>1, Zenon DEF SysvBuilt
    <3>3. PICK chain \in [1 .. length -> (1 .. SymbolCount - 1)'] :
                   /\ Cell(2 + b)' = IF length = 0 THEN 0 ELSE chain[1]
                   /\ \A k \in 1 .. length :
                        Cell(2 + Cell(0) + chain[k])' = IF k = length THEN 0 ELSE chain[k + 1]
                   /\ \A index \in (1 .. SymbolCount - 1)' :
                        (SysvHash[NameOf(index)] % Cell(0) = b)' => \E k \in 1 .. length : chain[k] = index
      BY <3>2
    <3>4. /\ length \in 0 .. SymbolCount - 1
          /\ chain \in [1 .. length -> 1 .. SymbolCount - 1]
          /\ Cell(2 + b) = IF length = 0 THEN 0 ELSE chain[1]
      BY <3>3, ContentsStay
    <3>5. \A k \in 1 .. length :
            Cell(2 + Cell(0) + chain[k]) = IF k = length THEN 0 ELSE chain[k + 1]
      BY <3>3, <2>2
    <3>6. \A index \in 1 .. SymbolCount - 1 :
            SysvHash[NameOf(index)] % Cell(0) = b => \E k \in 1 .. length : chain[k] = index
      BY <3>3, ContentsStay
    <3> QED
      BY <3>4, <3>5, <3>6
  <2>4. /\ Mapped(Hashes, 2) /\ Cell(0) # 0 /\ Cell(1) = SymbolCount
        /\ Mapped(Hashes, 2 + Cell(0) + SymbolCount)
        /\ 2 + Cell(0) + SymbolCount <= LoadWords(Hashes)
        /\ \A index \in 1 .. SymbolCount - 1 : NameBuilt(index)
    <3>1. (/\ Mapped(Hashes, 2) /\ Cell(0) # 0 /\ Cell(1) = SymbolCount
           /\ Mapped(Hashes, 2 + Cell(0) + SymbolCount)
           /\ 2 + Cell(0) + SymbolCount <= LoadWords(Hashes)
           /\ \A index \in 1 .. SymbolCount - 1 : NameBuilt(index))'
      BY <2>1, Zenon DEF SysvBuilt
    <3> QED
      BY <3>1, <1>3, ContentsStay, GeometryStays
  <2> QED
    BY <2>3, <2>4, Zenon DEF SysvBuilt
<1> QED
  BY <1>1, <1>2, <1>5, <1>6 DEF Built

(* Words of the hash table, and what the entries say.                      *)
LEMMA CellMapped ==
  ASSUME Memory, Hashes \in Nat, NEW n \in Nat, Mapped(Hashes, n), NEW k \in 0 .. n - 1
  PROVE  Hashes + k \in DOMAIN contents.words /\ Mapped(Hashes + k, 1) /\ Cell(k) \in Nat
<1>1. Hashes + k \in Hashes .. Hashes + n - 1
  OBVIOUS
<1>2. Hashes + k \in DOMAIN contents.words
  BY <1>1 DEF Mapped
<1>3. Hashes + k .. Hashes + k + 1 - 1 = {Hashes + k}
  OBVIOUS
<1> QED
  BY <1>2, <1>3 DEF Mapped, Cell, WordAt, Memory, Unsigned

LEMMA EntryOf ==
  ASSUME Memory, NEW e \in Entries
  PROVE  e \in [tag : STRING, value : Nat]
<1>1. PICK i \in DOMAIN contents.dynamic : e = contents.dynamic[i]
  BY DEF Entries
<1> QED
  BY <1>1, ElementOf DEF Memory, Unsigned

LEMMA ValueSaid ==
  ASSUME Memory, DynamicBuilt, NEW f \in Fields, Said(f)
  PROVE  /\ Value(f) \in Nat
         /\ \A e \in Entries : e.tag = f => e.value = Value(f)
<1> DEFINE c == CHOOSE e \in Entries : e.tag = f
<1>1. c \in Entries /\ c.tag = f
  BY DEF Said
<1>2. Value(f) = c.value
  BY DEF Value
<1> HIDE DEF c
<1>3. c.value \in Nat
  BY <1>1, EntryOf
<1> QED
  BY <1>1, <1>2, <1>3 DEF DynamicBuilt

(* Table addresses, extents and the number of symbols.                     *)
LEMMA TablesLaidOut ==
  ASSUME Memory, Built
  PROVE  /\ Strings \in Nat /\ Symbols \in Nat /\ Hashes \in Nat
         /\ LoadWords(Strings) \in Nat /\ LoadWords(Symbols) \in Nat /\ LoadWords(Hashes) \in Nat
         /\ Value("strsz") \in Nat /\ SymbolCount \in Nat \ {0}
         /\ LoadWords(Symbols) \div SymbolWords \in Nat
         /\ SymbolCount <= LoadWords(Symbols) \div SymbolWords
<1>1. DynamicBuilt /\ TablesBuilt
  BY DEF Built
<1>2. /\ Said("strtab") /\ Said("symtab") /\ Said("strsz")
      /\ Said(IF Said("gnu_hash") THEN "gnu_hash" ELSE "hash")
  BY <1>1 DEF DynamicBuilt
<1>3. /\ Value("strtab") \in Nat /\ Value("symtab") \in Nat /\ Value("strsz") \in Nat
      /\ Value(IF Said("gnu_hash") THEN "gnu_hash" ELSE "hash") \in Nat
  BY <1>1, <1>2, ValueSaid DEF Fields
<1>4. Strings # None /\ Symbols # None /\ Hashes # None
  BY <1>1 DEF TablesBuilt
<1>5. Strings \in Nat /\ LoadWords(Strings) \in Nat
  BY <1>3, <1>4, Resolved DEF Strings
<1>6. Symbols \in Nat /\ LoadWords(Symbols) \in Nat
  BY <1>3, <1>4, Resolved DEF Symbols
<1>7. Hashes \in Nat /\ LoadWords(Hashes) \in Nat
  BY <1>3, <1>4, Resolved DEF Hashes
<1>8. SymbolCount \in Nat \ {0} /\ SymbolCount * SymbolWords <= LoadWords(Symbols)
  BY <1>1 DEF TablesBuilt, SymbolCount, Memory, Unsigned
<1>9. \A n \in Nat, m \in Nat, k \in Nat \ {0} : n * k <= m => m \div k \in Nat /\ n <= m \div k
  <2> TAKE n \in Nat, m \in Nat, k \in Nat \ {0}
  <2> HAVE n * k <= m
  <2>1. PICK d, r : d = m \div k /\ r = m % k
    OBVIOUS
  <2>2. d \in Nat /\ r \in 0 .. k - 1 /\ m = d * k + r
    BY <2>1
  <2>3. CASE d < n
    <3>1. d * k + k <= n * k
      BY <2>2, <2>3, SlotFits
    <3> QED
      BY <2>2, <3>1
  <2> QED
    BY <2>1, <2>2, <2>3
<1> QED
  BY <1>3, <1>5, <1>6, <1>7, <1>8, <1>9, WordsPositive

-----------------------------------------------------------------------------
(* The construction accepts what a linker built.                           *)

(* Whatever the metadata have was read from an entry.                      *)
Sourced ==
  \A f \in Fields : meta[f] # None => \E j \in 1 .. at : contents.dynamic[j].tag = f

MetaSaid == \A f \in Fields : meta[f] = IF Said(f) THEN Value(f) ELSE None

HeaderSaid ==
  /\ Len(header) = at /\ at < (IF Gnu THEN 4 ELSE 2)
  /\ \A k \in 1 .. at : header[k] = Cell(k - 1)

TableSaid ==
  /\ table.kind = IF Gnu THEN "gnu" ELSE "sysv"
  /\ table.address = Hashes /\ table.buckets = Buckets
  /\ table.capacity = LoadWords(Symbols) \div SymbolWords
  /\ table.strsz = Value("strsz")
  /\ Gnu => /\ table.array = GnuArray /\ table.first = First /\ table.bloom = Bloom
            /\ table.shift = Cell(3) /\ table.links = LoadWords(Hashes) - GnuArray - Buckets
  /\ ~Gnu => table.array = 2 /\ table.first = 0 /\ table.links = SymbolCount

(* What has been read lies before the first terminator.                    *)
LEMMA ReadSoFar ==
  ASSUME Memory, at \in Nat, Agreed(at), NEW j \in 1 .. at
  PROVE  contents.dynamic[j] \in Entries
<1>1. j \in DOMAIN contents.dynamic
  BY DEF Agreed, Memory, Unsigned
<1>2. \A k \in 1 .. j : contents.dynamic[k].tag # "null"
  BY DEF Agreed
<1> QED
  BY <1>1, <1>2 DEF Entries

LEMMA NextEntry ==
  ASSUME Memory, DynamicBuilt, at \in Nat, Agreed(at)
  PROVE  /\ EntryMapped
         /\ Entry.tag # "null" => Entry \in Entries
<1>1. PICK i \in DOMAIN contents.dynamic : i <= image.entries /\ contents.dynamic[i].tag = "null"
  BY DEF DynamicBuilt
<1>2. i \in Nat /\ i <= Len(contents.dynamic) /\ i >= 1 /\ i \notin 1 .. at
  BY <1>1 DEF Memory, Unsigned, Agreed
<1>3. EntryMapped
  BY <1>1, <1>2 DEF EntryMapped, Memory
<1>4. ASSUME Entry.tag # "null" PROVE Entry \in Entries
  <2>1. at + 1 \in DOMAIN contents.dynamic
    BY <1>3 DEF EntryMapped, Memory, Unsigned
  <2>2. ASSUME NEW k \in 1 .. at + 1 PROVE contents.dynamic[k].tag # "null"
    <3>1. CASE k = at + 1
      BY <1>4, <3>1 DEF Entry
    <3>2. CASE k # at + 1
      <4>1. k \in 1 .. at
        BY <3>2
      <4> QED
        BY <4>1 DEF Agreed
    <3> QED
      BY <3>1, <3>2
  <2> QED
    BY <2>1, <2>2 DEF Entries, Entry
<1> QED
  BY <1>3, <1>4

LEMMA NoConflict ==
  ASSUME Memory, Reader, DynamicBuilt, Agreed(at), Sourced, Entry \in Entries
  PROVE  ~Conflicts(Entry)
<1> SUFFICES ASSUME Conflicts(Entry) PROVE FALSE
  OBVIOUS
<1>1. Entry.tag \in Fields /\ meta[Entry.tag] # None /\ meta[Entry.tag] # Entry.value
  BY DEF Conflicts
<1>2. PICK j \in 1 .. at : contents.dynamic[j].tag = Entry.tag
  BY <1>1 DEF Sourced
<1>3. contents.dynamic[j] \in Entries /\ contents.dynamic[j].value = meta[Entry.tag]
  BY <1>1, <1>2, ReadSoFar DEF Agreed, Reader
<1> QED
  BY <1>1, <1>2, <1>3 DEF DynamicBuilt

LEMMA AllSaid ==
  ASSUME Memory, Reader, DynamicBuilt, Agreed(at), Sourced, Entry.tag = "null"
  PROVE  MetaSaid
<1> SUFFICES ASSUME NEW f \in Fields PROVE meta[f] = IF Said(f) THEN Value(f) ELSE None
  BY DEF MetaSaid
<1>1. ASSUME meta[f] # None PROVE Said(f) /\ meta[f] = Value(f)
  <2>1. PICK j \in 1 .. at : contents.dynamic[j].tag = f
    BY <1>1 DEF Sourced
  <2>2. contents.dynamic[j] \in Entries /\ contents.dynamic[j].value = meta[f]
    BY <1>1, <2>1, ReadSoFar DEF Agreed, Reader
  <2>3. Said(f)
    BY <2>1, <2>2 DEF Said
  <2> QED
    BY <2>1, <2>2, <2>3, ValueSaid
<1>2. ASSUME Said(f) PROVE meta[f] # None
  <2>1. PICK i \in DOMAIN contents.dynamic :
          /\ contents.dynamic[i].tag = f
          /\ \A k \in 1 .. i : contents.dynamic[k].tag # "null"
    BY <1>2 DEF Said, Entries
  <2>2. at + 1 \notin 1 .. i
    BY <2>1 DEF Entry
  <2>3. i \in 1 .. at
    BY <2>2 DEF Memory, Unsigned, Reader
  <2> QED
    BY <2>1, <2>3 DEF Agreed
<1> QED
  BY <1>1, <1>2

LEMMA MetadataFit ==
  ASSUME Memory, Built, MetaSaid
  PROVE  /\ Strtab = Strings /\ Symtab = Symbols /\ HashAddress = Hashes
         /\ Capacity = LoadWords(Symbols) \div SymbolWords
         /\ HashKind = (IF Gnu THEN "gnu" ELSE "sysv")
         /\ meta["strsz"] = Value("strsz")
         /\ MetadataFault = "none"
<1>1. DynamicBuilt /\ TablesBuilt
  BY DEF Built
<1>2. \A f \in Fields : Said(f) => meta[f] = Value(f) /\ meta[f] # None
  BY <1>1, ValueSaid DEF MetaSaid, None
<1>3. \A f \in Fields : ~Said(f) => meta[f] = None
  BY DEF MetaSaid
<1>4. \A f \in {"strtab", "strsz", "symtab", "syment"} : Said(f) /\ f \in Fields
  BY <1>1 DEF DynamicBuilt, Fields
<1>5. \A f \in {"strtab", "strsz", "symtab", "syment"} : meta[f] = Value(f) /\ meta[f] # None
  BY <1>2, <1>4
<1>6. Strtab = Strings /\ Symtab = Symbols /\ meta["strsz"] = Value("strsz")
  BY <1>5 DEF Strtab, Strings, Symtab, Symbols
<1>7. HashKind = (IF Gnu THEN "gnu" ELSE "sysv")
  BY <1>2, <1>3 DEF HashKind, Gnu, Fields
<1>8. HashAddress = Hashes /\ ~(meta["hash"] = None /\ meta["gnu_hash"] = None)
  <2>1. Said("hash") \/ Said("gnu_hash")
    BY <1>1 DEF DynamicBuilt
  <2>2. CASE Said("gnu_hash")
    <3>1. meta["gnu_hash"] = Value("gnu_hash") /\ meta["gnu_hash"] # None
      BY <1>2, <2>2 DEF Fields
    <3> QED
      BY <1>7, <2>2, <3>1 DEF HashAddress, Hashes, Gnu
  <2>3. CASE ~Said("gnu_hash")
    <3>1. meta["hash"] = Value("hash") /\ meta["hash"] # None
      BY <1>2, <2>1, <2>3 DEF Fields
    <3> QED
      BY <1>7, <2>3, <3>1 DEF HashAddress, Hashes, Gnu
  <2> QED
    BY <2>2, <2>3
<1>9. Capacity = LoadWords(Symbols) \div SymbolWords
  BY <1>6 DEF Capacity
<1>10. /\ Strtab # None /\ Symtab # None /\ HashAddress # None
       /\ meta["syment"] = SymbolWords
       /\ ~(meta["strsz"] > LoadWords(Strtab)) /\ Capacity # 0
  <2>1. None \notin {Strings, Symbols, Hashes} /\ Value("strsz") <= LoadWords(Strings)
    BY <1>1 DEF TablesBuilt
  <2>2. Value("syment") = SymbolWords
    BY <1>1 DEF DynamicBuilt
  <2>3. Value("strsz") \in Nat /\ LoadWords(Strings) \in Nat /\ Capacity \in Nat \ {0}
    BY <1>9, TablesLaidOut
  <2> QED
    BY <1>5, <1>6, <1>8, <2>1, <2>2, <2>3
<1>11. MetadataFault = "none"
  BY <1>5, <1>8, <1>10 DEF MetadataFault
<1> QED
  BY <1>6, <1>7, <1>8, <1>9, <1>11

(* The header words are the cells of the table.                            *)
LEMMA HeaderRead ==
  ASSUME Memory, Reader, Built, MetaSaid, HeaderSaid,
         NEW words, words = Append(header, WordAt(HashAddress + at))
  PROVE  /\ Mapped(HashAddress + at, 1)
         /\ HeaderWords = (IF Gnu THEN 4 ELSE 2)
         /\ words \in Seq(Nat) /\ Len(words) = at + 1
         /\ \A k \in 1 .. at + 1 : words[k] = Cell(k - 1)
<1>1. HashAddress = Hashes /\ HeaderWords = (IF Gnu THEN 4 ELSE 2) /\ Hashes \in Nat
  BY MetadataFit, TablesLaidOut DEF HeaderWords
<1>2. at \in Nat /\ at < HeaderWords /\ Mapped(Hashes, HeaderWords)
  BY <1>1, GnuLaidOut, SysvLaidOut DEF HeaderSaid, Reader
<1>3. HeaderWords \in Nat /\ at \in 0 .. HeaderWords - 1
  BY <1>1, <1>2
<1>4. Mapped(Hashes + at, 1) /\ Cell(at) \in Nat
  BY <1>1, <1>2, <1>3, CellMapped
<1>5. header \in Seq(Nat) /\ Len(header) = at /\ words = Append(header, Cell(at))
  BY <1>1 DEF HeaderSaid, Reader, Cell
<1>6. words \in Seq(Nat) /\ Len(words) = at + 1
  BY <1>4, <1>5
<1>7. \A k \in 1 .. at + 1 : words[k] = Cell(k - 1)
  <2> TAKE k \in 1 .. at + 1
  <2>1. CASE k = at + 1
    BY <1>2, <1>5, <2>1
  <2>2. CASE k # at + 1
    <3>1. k \in 1 .. at
      BY <1>2, <2>2
    <3>2. words[k] = header[k]
      BY <1>2, <1>5, <3>1
    <3> QED
      BY <3>1, <3>2 DEF HeaderSaid
  <2> QED
    BY <2>1, <2>2
<1> QED
  BY <1>1, <1>4, <1>6, <1>7

LEMMA GnuFits ==
  ASSUME Memory, Built, MetaSaid, Gnu, NEW words,
         words[1] = Cell(0), words[2] = Cell(1), words[3] = Cell(2), words[4] = Cell(3)
  PROVE  Fits(words) /\ (table' = NewTable(words) /\ UNCHANGED <<image, contents>> => TableSaid')
<1>1. /\ Mapped(Hashes, 4) /\ Buckets # 0 /\ Bloom # 0 /\ Cell(3) < HashBits
      /\ First \in 1 .. SymbolCount /\ First < LoadWords(Symbols) \div SymbolWords
      /\ GnuArray + Buckets < LoadWords(Hashes)
  BY GnuLaidOut
<1>2. /\ HashKind = "gnu" /\ HashAddress = Hashes /\ meta["strsz"] = Value("strsz")
      /\ Capacity = LoadWords(Symbols) \div SymbolWords
  BY MetadataFit
<1>3. Hashes \in Nat /\ LoadWords(Hashes) \in Nat
  BY TablesLaidOut
<1>4. Buckets \in Nat /\ Bloom \in Nat
  BY <1>1, <1>3, CellMapped DEF Buckets, Bloom
<1>5. GnuArray \in Nat
  BY <1>4, WordsPositive DEF GnuArray
<1>6. BucketArray(words) = GnuArray /\ ChainWords(words) = LoadWords(Hashes) - GnuArray - Buckets
  BY <1>2 DEF BucketArray, ChainWords, GnuArray, Buckets, Bloom
<1>7. ChainWords(words) > 0
  BY <1>1, <1>3, <1>4, <1>5, <1>6
<1>8. Fits(words)
  BY <1>1, <1>2, <1>7 DEF Fits, Buckets, First, Bloom
<1>9. ASSUME table' = NewTable(words), UNCHANGED <<image, contents>> PROVE TableSaid'
  <2>1. /\ table'.kind = "gnu" /\ table'.address = Hashes /\ table'.buckets = Buckets
        /\ table'.capacity = LoadWords(Symbols) \div SymbolWords /\ table'.strsz = Value("strsz")
        /\ table'.array = GnuArray /\ table'.first = First /\ table'.bloom = Bloom
        /\ table'.shift = Cell(3) /\ table'.links = LoadWords(Hashes) - GnuArray - Buckets
    BY <1>2, <1>6, <1>9 DEF NewTable, Buckets, First, Bloom
  <2>2. /\ Gnu' /\ Hashes' = Hashes /\ Symbols' = Symbols /\ Value("strsz")' = Value("strsz")
        /\ Buckets' = Buckets /\ First' = First /\ Bloom' = Bloom /\ Cell(3)' = Cell(3)
    BY <1>9, ContentsStay DEF Gnu, Buckets, First, Bloom
  <2>3. LoadWords(Hashes)' = LoadWords(Hashes) /\ LoadWords(Symbols)' = LoadWords(Symbols)
    BY <1>9, <2>2, GeometryStays
  <2>4. GnuArray' = GnuArray
    BY <2>2 DEF GnuArray
  <2> QED
    BY <2>1, <2>2, <2>3, <2>4 DEF TableSaid
<1> QED
  BY <1>8, <1>9

LEMMA SysvFits ==
  ASSUME Memory, Built, MetaSaid, ~Gnu, NEW words, words[1] = Cell(0), words[2] = Cell(1)
  PROVE  Fits(words) /\ (table' = NewTable(words) /\ UNCHANGED <<image, contents>> => TableSaid')
<1>1. /\ Buckets # 0 /\ Cell(1) = SymbolCount /\ 2 + Buckets + SymbolCount <= LoadWords(Hashes)
  BY SysvLaidOut
<1>2. /\ HashKind = "sysv" /\ HashAddress = Hashes /\ meta["strsz"] = Value("strsz")
      /\ Capacity = LoadWords(Symbols) \div SymbolWords
  BY MetadataFit
<1>3. SymbolCount \in Nat \ {0} /\ SymbolCount <= LoadWords(Symbols) \div SymbolWords
  BY TablesLaidOut
<1>4. BucketArray(words) = 2 /\ ChainWords(words) = SymbolCount
  BY <1>1, <1>2 DEF BucketArray, ChainWords
<1>5. Fits(words)
  BY <1>1, <1>2, <1>3, <1>4 DEF Fits, Buckets
<1>6. ASSUME table' = NewTable(words), UNCHANGED <<image, contents>> PROVE TableSaid'
  <2>1. /\ table'.kind = "sysv" /\ table'.address = Hashes /\ table'.buckets = Buckets
        /\ table'.capacity = LoadWords(Symbols) \div SymbolWords /\ table'.strsz = Value("strsz")
        /\ table'.array = 2 /\ table'.first = 0 /\ table'.links = SymbolCount
    BY <1>2, <1>4, <1>6 DEF NewTable, Buckets
  <2>2. /\ ~Gnu' /\ Hashes' = Hashes /\ Symbols' = Symbols /\ Value("strsz")' = Value("strsz")
        /\ Buckets' = Buckets /\ SymbolCount' = SymbolCount
    BY <1>6, ContentsStay DEF Gnu, Buckets
  <2>3. LoadWords(Symbols)' = LoadWords(Symbols)
    BY <1>6, <2>2, GeometryStays
  <2> QED
    BY <2>1, <2>2, <2>3 DEF TableSaid
<1> QED
  BY <1>5, <1>6

-----------------------------------------------------------------------------
(* Lookups find what a linear search finds.                                *)

(* A lookup in a GNU table: what lies before its index bears another name. *)
GnuAt(next, l) ==
  /\ l.hash = GnuHash[l.name]
  /\ next \in {"chain", "symbol", "name"} =>
       /\ l.index \in Sharing(l.hash % Buckets)
       /\ \A i \in Covered : NameOf(i) = l.name => l.index <= i
  /\ next \in {"symbol", "name"} => l.chain = ChainOf(l.index)
  /\ next = "name" => l.record = <<contents.symbols[l.index + 1]>>

(* A lookup in a System V table: what lies before its step does, too.      *)
SysvAt(next, l) ==
  /\ l.hash = SysvHash[l.name]
  /\ next # "bloom"
  /\ next \in {"chain", "symbol", "name"} =>
       \E length \in 0 .. SymbolCount - 1 :
         \E chain \in [1 .. length -> 1 .. SymbolCount - 1] :
           /\ IsChain(l.hash % Buckets, length, chain)
           /\ l.steps \in 1 .. length /\ l.index = chain[l.steps]
           /\ \A k \in 1 .. l.steps : NameOf(chain[k]) = l.name => k = l.steps /\ next # "chain"
  /\ next = "name" => l.record = <<contents.symbols[l.index + 1]>>

Place(next, l) == l.name \in Names /\ (IF Gnu THEN GnuAt(next, l) ELSE SysvAt(next, l))

(* What holds of the reader as long as its memory is what a linker built.  *)
Progress ==
  /\ pc # "failed"
  /\ pc \in Building => answer = Pending
  /\ pc = "entry" => Sourced /\ header = <<>>
  /\ pc # "entry" => MetaSaid
  /\ pc = "header" => HeaderSaid
  /\ pc \notin Building => TableSaid
  /\ pc \in LookingUp => Place(pc, lookup)
  /\ pc = "ready" /\ answer # Pending => IsAnswer(lookup.name, lookup.export, answer)

LEMMA ChainStays ==
  ASSUME UNCHANGED <<image, contents>>
  PROVE  \A b, length, chain : IsChain(b, length, chain)' = IsChain(b, length, chain)
<1>1. \A i : LinkOf(i)' = LinkOf(i) /\ SysvHash[NameOf(i)]' = SysvHash[NameOf(i)]
  BY ContentsStay DEF LinkOf, Buckets
<1>2. (1 .. SymbolCount - 1)' = 1 .. SymbolCount - 1 /\ Buckets' = Buckets
  BY ContentsStay DEF Buckets
<1>3. \A c : Cell(c)' = Cell(c)
  BY ContentsStay
<1> QED
  BY <1>1, <1>2, <1>3 DEF IsChain

LEMMA PlaceStays ==
  ASSUME UNCHANGED <<image, contents>>
  PROVE  \A next, l : Place(next, l) => Place(next, l)'
<1>1. /\ Gnu' = Gnu /\ Buckets' = Buckets /\ Covered' = Covered
      /\ \A i : NameOf(i)' = NameOf(i) /\ ChainOf(i)' = ChainOf(i)
  BY ContentsStay DEF Gnu, Buckets, Covered, First, ChainOf, GnuArray, Bloom
<1>2. \A b : Sharing(b)' = Sharing(b)
  BY <1>1 DEF Sharing, HashOf
<1>3. (SymbolCount - 1)' = SymbolCount - 1
  BY ContentsStay
<1>4. ASSUME NEW next, NEW l, GnuAt(next, l) PROVE GnuAt(next, l)'
  BY <1>1, <1>2, <1>4 DEF GnuAt
<1>5. ASSUME NEW next, NEW l, SysvAt(next, l) PROVE SysvAt(next, l)'
  BY <1>1, <1>3, <1>5, ChainStays DEF SysvAt
<1> QED
  BY <1>1, <1>4, <1>5 DEF Place

LEMMA AnswerStays ==
  ASSUME UNCHANGED <<image, contents, table>>
  PROVE  \A name, export, result : IsAnswer(name, export, result) => IsAnswer(name, export, result)'
<1>1. \A name : Bearers(name)' = Bearers(name)
  BY ContentsStay DEF Bearers
<1>2. \A record : Exported(record)' = Exported(record)
  BY DEF Exported, Address
<1> QED
  BY <1>1, <1>2 DEF IsAnswer

LEMMA TableSaidStays ==
  ASSUME UNCHANGED <<image, contents, table>>, TableSaid
  PROVE  TableSaid'
<1>1. /\ Gnu' = Gnu /\ Hashes' = Hashes /\ Symbols' = Symbols /\ Value("strsz")' = Value("strsz")
      /\ Buckets' = Buckets /\ SymbolCount' = SymbolCount /\ First' = First /\ Bloom' = Bloom
      /\ Cell(3)' = Cell(3) /\ GnuArray' = GnuArray
  BY ContentsStay DEF Gnu, Buckets, First, Bloom, GnuArray
<1>2. LoadWords(Hashes)' = LoadWords(Hashes) /\ LoadWords(Symbols)' = LoadWords(Symbols)
  BY <1>1, GeometryStays
<1> QED
  BY <1>1, <1>2 DEF TableSaid

LEMMA MetaSaidStays ==
  ASSUME UNCHANGED <<image, contents, meta>>, MetaSaid
  PROVE  MetaSaid'
BY ContentsStay DEF MetaSaid

(* A lookup that goes on, and one that returns.                            *)
LEMMA GoOnExact ==
  ASSUME Progress, pc \in LookingUp, NEW next \in LookingUp, NEW position, GoOn(next, position),
         Place(next, position)
  PROVE  Progress'
<1>1. /\ UNCHANGED <<image, contents, table, meta>> /\ pc' = next /\ lookup' = position
      /\ next \notin Building \cup {"ready", "failed"}
  BY DEF GoOn, memory, Building, LookingUp
<1>2. TableSaid' /\ MetaSaid'
  BY <1>1, TableSaidStays, MetaSaidStays DEF Progress, Building, LookingUp
<1>3. Place(next, position)'
  BY <1>1, PlaceStays
<1>4. Place(pc, lookup)'
  BY <1>1, <1>3 DEF Place, GnuAt, SysvAt
<1> QED
  BY <1>1, <1>2, <1>4 DEF Progress, Building

LEMMA ReturnExact ==
  ASSUME Progress, pc \in LookingUp, NEW result, Return(result),
         IsAnswer(lookup.name, lookup.export, result)
  PROVE  Progress'
<1>1. /\ UNCHANGED <<image, contents, table, meta, lookup>> /\ pc' = "ready" /\ answer' = result
  BY DEF Return, memory
<1>2. TableSaid' /\ MetaSaid'
  BY <1>1, TableSaidStays, MetaSaidStays DEF Progress, Building, LookingUp
<1>3. PICK name, export : name = lookup.name /\ export = lookup.export
  OBVIOUS
<1>4. IsAnswer(name, export, result)'
  BY <1>1, <1>3, AnswerStays
<1>5. IsAnswer(lookup.name, lookup.export, answer)'
  BY <1>1, <1>3, <1>4 DEF IsAnswer
<1> QED
  BY <1>1, <1>2, <1>5 DEF Progress, Building, LookingUp

LEMMA HashTypes ==
  ASSUME NEW name \in Names, NEW hash \in {GnuHash[name], SysvHash[name]}, NEW n \in Nat \ {0}
  PROVE  hash \in Nat /\ hash % n \in 0 .. n - 1
<1>1. hash \in Nat
  BY WordsPositive
<1> QED
  BY <1>1, DivFits

(* The parts of a GNU table have their types.                              *)
LEMMA GnuTypes ==
  ASSUME Memory, Built, Gnu
  PROVE  /\ Buckets \in Nat \ {0} /\ First \in Nat \ {0} /\ Bloom \in Nat \ {0} /\ GnuArray \in Nat
         /\ \A i \in Covered : /\ i \in Nat /\ First <= i /\ i < SymbolCount
                               /\ NameOf(i) \in Names \ {BadName}
                               /\ HashOf(i) = GnuHash[NameOf(i)]
         /\ \A b \in 0 .. Buckets - 1 :
              Mapped(Hashes + (GnuArray + b), 1) /\ Cell(GnuArray + b) \in Nat
         /\ \A i \in Covered :
              Mapped(Hashes + (GnuArray + Buckets + (i - First)), 1) /\ ChainOf(i) \in Nat
<1>1. Hashes \in Nat /\ SymbolCount \in Nat
  BY TablesLaidOut
<1>2. /\ Mapped(Hashes, 4) /\ Buckets # 0 /\ Bloom # 0 /\ First \in 1 .. SymbolCount
      /\ Mapped(Hashes, GnuArray + Buckets + (SymbolCount - First))
      /\ \A i \in Covered : NameBuilt(i)
  BY GnuLaidOut
<1>3. Buckets \in Nat /\ Bloom \in Nat /\ First \in Nat \ {0}
  BY <1>1, <1>2, CellMapped DEF Buckets, Bloom
<1>4. GnuArray \in Nat
  BY <1>3, WordsPositive DEF GnuArray
<1>5. ASSUME NEW i \in Covered
      PROVE  i \in Nat /\ First <= i /\ i < SymbolCount /\ NameOf(i) \in Names \ {BadName}
  BY <1>1, <1>2, <1>3 DEF Covered, NameBuilt
<1>6. ASSUME NEW b \in 0 .. Buckets - 1
      PROVE  Mapped(Hashes + (GnuArray + b), 1) /\ Cell(GnuArray + b) \in Nat
  <2>1. PICK n, k : n = GnuArray + Buckets + (SymbolCount - First) /\ k = GnuArray + b
    OBVIOUS
  <2>2. Mapped(Hashes, n)
    BY <1>2, <2>1, Zenon
  <2>3. n \in Nat /\ k \in 0 .. n - 1
    BY <1>1, <1>2, <1>3, <1>4, <2>1
  <2>4. Mapped(Hashes + k, 1) /\ Cell(k) \in Nat
    BY <1>1, <2>2, <2>3, CellMapped
  <2> QED
    BY <2>1, <2>4
<1>7. ASSUME NEW i \in Covered
      PROVE  Mapped(Hashes + (GnuArray + Buckets + (i - First)), 1) /\ ChainOf(i) \in Nat
  <2>1. PICK n, k : /\ n = GnuArray + Buckets + (SymbolCount - First)
                    /\ k = GnuArray + Buckets + (i - First)
    OBVIOUS
  <2>2. Mapped(Hashes, n)
    BY <1>2, <2>1, Zenon
  <2>3. n \in Nat /\ k \in 0 .. n - 1
    BY <1>1, <1>2, <1>3, <1>4, <1>5, <2>1
  <2>4. Mapped(Hashes + k, 1) /\ Cell(k) \in Nat
    BY <1>1, <2>2, <2>3, CellMapped
  <2> QED
    BY <2>1, <2>4, Zenon DEF ChainOf
<1> QED
  BY <1>2, <1>3, <1>4, <1>5, <1>6, <1>7 DEF HashOf

(* A symbol of the name shares the bucket of its hash.                     *)
LEMMA BearersShare ==
  ASSUME Memory, Built, Gnu, TableSaid, NEW name \in Names
  PROVE  /\ Bearers(name) = {i \in Covered : NameOf(i) = name}
         /\ Bearers(name) \subseteq Sharing(GnuHash[name] % Buckets)
<1>1. Bearers(name) = {i \in Covered : NameOf(i) = name}
  BY GnuTypes, TablesLaidOut DEF Bearers, TableSaid, Covered, SymbolCount
<1> QED
  BY <1>1, GnuTypes DEF Sharing

(* What a lookup in a GNU table rests on.                                  *)
LEMMA GnuServed ==
  ASSUME IInv, Progress, Built, Gnu, pc \in LookingUp
  PROVE  /\ Memory /\ TableSaid /\ lookup.name \in Names /\ GnuAt(pc, lookup)
         /\ table.kind = "gnu" /\ lookup.hash \in Nat /\ lookup.hash = GnuHash[lookup.name]
         /\ lookup.hash % Buckets \in 0 .. Buckets - 1
         /\ Bearers(lookup.name) \subseteq Sharing(lookup.hash % Buckets)
<1>1. Memory /\ TableSaid /\ lookup.name \in Names /\ GnuAt(pc, lookup)
  BY DEF IInv, Progress, Place, Building, LookingUp
<1>2. lookup.hash = GnuHash[lookup.name] /\ Buckets \in Nat \ {0}
  BY <1>1, GnuTypes DEF GnuAt
<1> QED
  BY <1>1, <1>2, HashTypes, BearersShare DEF TableSaid

(* A set bit is seen in the filter.                                        *)
LEMMA BitSeen ==
  ASSUME Memory, Hashes \in Nat, NEW cell \in Nat, NEW bit, IsSet(cell, bit)
  PROVE  HasBit(WordAt(Hashes + cell + bit \div HashBits), bit % HashBits)
<1>1. PICK half \in 0 .. ClassWords - 1, low \in 0 .. HashBits - 1 :
        bit = half * HashBits + low /\ HasBit(Cell(cell + half), low)
  BY DEF IsSet
<1>2. bit \div HashBits = half /\ bit % HashBits = low
  <2>1. HashBits \in Nat \ {0} /\ half \in Nat
    BY <1>1, WordsPositive
  <2>2. (half * HashBits + low) \div HashBits = half /\ (half * HashBits + low) % HashBits = low
    BY <1>1, <2>1, Division
  <2> QED
    BY <1>1, <2>2
<1>3. Hashes + cell + half = Hashes + (cell + half)
  BY <1>1, WordsPositive
<1> QED
  BY <1>1, <1>2, <1>3 DEF Cell

LEMMA GnuBloomExact ==
  ASSUME IInv, Progress, Built, Gnu, ReadBloom
  PROVE  Progress'
<1>1. /\ Memory /\ TableSaid /\ lookup.name \in Names /\ GnuAt(pc, lookup)
      /\ lookup.hash \in Nat /\ lookup.hash = GnuHash[lookup.name]
      /\ pc = "bloom" /\ pc \in LookingUp
  BY GnuServed DEF ReadBloom, LookingUp
<1>2. CASE GoOn("bucket", lookup)
  <2>1. Place("bucket", lookup)
    BY <1>1 DEF Place, GnuAt
  <2> QED
    BY <1>1, <1>2, <2>1, GoOnExact DEF LookingUp
<1>3. CASE ~InFilter(BloomAddress, lookup.hash, table.shift) /\ Return(Nothing)
  <2>1. Hashes \in Nat /\ FilterOf(lookup.hash) \in Nat
    <3>1. Bloom \in Nat \ {0} /\ WordBits \in Nat \ {0}
      BY <1>1, GnuTypes, WordsPositive DEF WordBits
    <3>2. lookup.hash \div WordBits \in Nat
      BY <1>1, <3>1, DivFits
    <3>3. (lookup.hash \div WordBits) % Bloom \in Nat
      BY <3>1, <3>2, DivFits
    <3> QED
      BY <1>1, <3>3, TablesLaidOut, WordsPositive DEF FilterOf
  <2>2. BloomAddress = Hashes + FilterOf(lookup.hash) /\ table.shift = Cell(3)
    <3>1. /\ table.address = Hashes /\ table.bloom = Bloom /\ table.shift = Cell(3)
      BY <1>1 DEF TableSaid
    <3> DEFINE behind == ((lookup.hash \div WordBits) % Bloom) * ClassWords
    <3>2. BloomAddress = Hashes + 4 + behind /\ FilterOf(lookup.hash) = 4 + behind
      BY <3>1 DEF BloomAddress, FilterOf
    <3>3. behind \in Int
      <4>1. Bloom \in Nat \ {0} /\ WordBits \in Nat \ {0}
        BY <1>1, GnuTypes, WordsPositive DEF WordBits
      <4>2. (lookup.hash \div WordBits) % Bloom \in Nat
        BY <1>1, <4>1, DivFits
      <4> QED
        BY <4>2, WordsPositive
    <3> HIDE DEF behind
    <3> QED
      BY <2>1, <3>1, <3>2, <3>3
  <2>3. ASSUME NEW i \in Bearers(lookup.name) PROVE FALSE
    <3>1. i \in Covered /\ HashOf(i) = lookup.hash
      BY <1>1, BearersShare DEF HashOf
    <3>2. \A bit \in {lookup.hash % WordBits, (lookup.hash \div 2^Cell(3)) % WordBits} :
            IsSet(FilterOf(lookup.hash), bit)
      BY <3>1, GnuLaidOut
    <3>3. \A bit \in {lookup.hash % WordBits, (lookup.hash \div 2^Cell(3)) % WordBits} :
            HasBit(WordAt(BloomAddress + bit \div HashBits), bit % HashBits)
      BY <1>1, <2>1, <2>2, <3>2, BitSeen
    <3> QED
      BY <1>3, <2>2, <3>3 DEF InFilter
  <2>4. IsAnswer(lookup.name, lookup.export, Nothing)
    BY <2>3 DEF IsAnswer
  <2> QED
    BY <1>1, <1>3, <2>4, ReturnExact
<1> QED
  BY <1>2, <1>3 DEF ReadBloom

(* A lookup with one field replaced.                                       *)
LEMMA LookupWith ==
  ASSUME LookupShape, NEW v
  PROVE  /\ LET l == [lookup EXCEPT !.index = v]
            IN /\ l.name = lookup.name /\ l.hash = lookup.hash /\ l.index = v
               /\ l.chain = lookup.chain /\ l.record = lookup.record
         /\ LET l == [lookup EXCEPT !.chain = v]
            IN /\ l.name = lookup.name /\ l.hash = lookup.hash /\ l.index = lookup.index
               /\ l.chain = v
         /\ LET l == [lookup EXCEPT !.record = v]
            IN /\ l.name = lookup.name /\ l.hash = lookup.hash /\ l.index = lookup.index
               /\ l.steps = lookup.steps /\ l.chain = lookup.chain /\ l.record = v
         /\ \A steps : LET l == [lookup EXCEPT !.index = v, !.steps = steps]
                       IN /\ l.name = lookup.name /\ l.hash = lookup.hash /\ l.index = v
                          /\ l.steps = steps
BY DEF LookupShape

(* The symbols of a bucket follow each other, the last has an odd word.    *)
LEMMA InBucket ==
  ASSUME Memory, Built, Gnu, NEW b \in 0 .. Buckets - 1, NEW i \in Sharing(b)
  PROVE  /\ SameHash(ChainOf(i), HashOf(i))
         /\ IF Terminal(ChainOf(i)) THEN \A j \in Sharing(b) : j <= i ELSE i + 1 \in Sharing(b)
<1>1. PICK last \in Covered :
        /\ Cell(GnuArray + b) \in Covered /\ Sharing(b) = Cell(GnuArray + b) .. last
        /\ \A j \in Sharing(b) : /\ ChainOf(j) \div 2 = HashOf(j) \div 2
                                 /\ ChainOf(j) % 2 = 1 <=> j = last
  BY GnuLaidOut
<1>2. last \in Nat /\ Cell(GnuArray + b) \in Nat
  BY <1>1, GnuTypes
<1>3. i \in Cell(GnuArray + b) .. last
  BY <1>1
<1>4. SameHash(ChainOf(i), HashOf(i)) /\ (Terminal(ChainOf(i)) <=> i = last)
  BY <1>1 DEF SameHash, Terminal
<1>5. CASE i = last
  BY <1>1, <1>2, <1>4, <1>5
<1>6. CASE i # last
  <2>1. i + 1 \in Cell(GnuArray + b) .. last
    BY <1>2, <1>3, <1>6
  <2> QED
    BY <1>1, <1>4, <1>6, <2>1
<1> QED
  BY <1>5, <1>6

LEMMA FirstInBucket ==
  ASSUME Memory, Built, Gnu, NEW b \in 0 .. Buckets - 1, NEW index, index = Cell(GnuArray + b)
  PROVE  /\ index = 0 => Sharing(b) = {}
         /\ index # 0 => index \in Sharing(b) /\ \A i \in Sharing(b) : index <= i
<1>1. CASE index = 0 /\ Sharing(b) = {}
  BY <1>1
<1>2. CASE \E last \in Covered :
             index \in Covered /\ Sharing(b) = index .. last /\ Sharing(b) # {}
  <2>1. PICK last \in Covered : index \in Covered /\ Sharing(b) = index .. last /\ Sharing(b) # {}
    BY <1>2
  <2>2. index \in Nat \ {0} /\ last \in Nat
    BY <2>1, GnuTypes
  <2> QED
    BY <2>1, <2>2
<1> QED
  BY <1>1, <1>2, GnuLaidOut

LEMMA GnuTurnExact ==
  ASSUME IInv, Progress, Built, Gnu, pc \in LookingUp,
         NEW index \in Sharing(lookup.hash % Buckets),
         \A i \in Covered : NameOf(i) = lookup.name => index <= i,
         GnuTurn(index)
  PROVE  Progress'
<1>1. /\ Memory /\ TableSaid /\ lookup.name \in Names /\ GnuAt(pc, lookup) /\ LookupShape
  BY GnuServed DEF IInv
<1>2. table.first = First /\ table.links = LoadWords(Hashes) - GnuArray - Buckets
  BY <1>1 DEF TableSaid
<1>3. index \in Covered /\ index \in Nat /\ index < SymbolCount
  BY <1>1, GnuTypes DEF Sharing
<1>4. GnuArray + Buckets + (SymbolCount - First) <= LoadWords(Hashes)
  BY GnuLaidOut
<1>5. index - table.first < table.links
  BY <1>1, <1>2, <1>3, <1>4, GnuTypes, TablesLaidOut
<1>6. PICK l : l = [lookup EXCEPT !.index = index]
  OBVIOUS
<1>7. GoOn("chain", l)
  BY <1>5, <1>6 DEF GnuTurn
<1>8. l.name = lookup.name /\ l.hash = lookup.hash /\ l.index = index
  BY <1>1, <1>6, LookupWith
<1>9. Place("chain", l)
  BY <1>1, <1>8 DEF Place, GnuAt
<1> QED
  BY <1>7, <1>9, GoOnExact DEF LookingUp

LEMMA GnuBucketExact ==
  ASSUME IInv, Progress, Built, Gnu, ReadBucket
  PROVE  Progress'
<1> DEFINE index == WordAt(BucketAddress)
<1>1. /\ Memory /\ TableSaid /\ lookup.name \in Names /\ GnuAt(pc, lookup) /\ table.kind = "gnu"
      /\ lookup.hash \in Nat /\ lookup.hash % Buckets \in 0 .. Buckets - 1
      /\ Bearers(lookup.name) \subseteq Sharing(lookup.hash % Buckets)
      /\ Bearers(lookup.name) = {i \in Covered : NameOf(i) = lookup.name}
      /\ pc = "bucket" /\ pc \in LookingUp
  BY GnuServed, BearersShare DEF ReadBucket, LookingUp
<1>2. PICK b : b = lookup.hash % Buckets
  OBVIOUS
<1>3. index = Cell(GnuArray + b)
  <2>1. BucketAddress = Hashes + GnuArray + b
    BY <1>1, <1>2 DEF BucketAddress, TableSaid
  <2>2. Hashes + GnuArray + b = Hashes + (GnuArray + b)
    BY <1>1, <1>2, GnuTypes, TablesLaidOut
  <2> QED
    BY <2>1, <2>2, Zenon DEF Cell
<1>4. CASE index = 0
  <2>1. Bearers(lookup.name) = {}
    BY <1>1, <1>2, <1>3, <1>4, FirstInBucket
  <2>2. Return(Nothing)
    BY <1>1, <1>4 DEF ReadBucket
  <2> QED
    BY <1>1, <2>1, <2>2, ReturnExact DEF IsAnswer
<1>5. CASE index # 0
  <2>1. index \in Sharing(b) /\ \A i \in Sharing(b) : index <= i
    BY <1>1, <1>2, <1>3, <1>5, FirstInBucket
  <2>2. \A i \in Covered : NameOf(i) = lookup.name => index <= i
    BY <1>1, <1>2, <2>1
  <2>3. ~(index < table.first)
    BY <1>1, <2>1, GnuTypes DEF Sharing, TableSaid
  <2>4. GnuTurn(index)
    BY <1>1, <1>5, <2>3 DEF ReadBucket
  <2> QED
    BY <1>1, <1>2, <2>1, <2>2, <2>4, GnuTurnExact
<1> QED
  BY <1>4, <1>5

LEMMA SymbolExact ==
  ASSUME IInv, Progress, Built, pc \in LookingUp, NEW position, Place("symbol", position),
         position.index \in Nat, position.index < SymbolCount, Symbol(position)
  PROVE  Progress'
<1>1. position.index < table.capacity
  BY TablesLaidOut DEF IInv, Progress, TableSaid, Building, LookingUp
<1>2. GoOn("symbol", position)
  BY <1>1 DEF Symbol
<1> QED
  BY <1>2, GoOnExact DEF LookingUp

LEMMA GnuChainExact ==
  ASSUME IInv, Progress, Built, Gnu, ReadChain
  PROVE  Progress'
<1>1. /\ Memory /\ TableSaid /\ lookup.name \in Names /\ GnuAt(pc, lookup) /\ table.kind = "gnu"
      /\ lookup.hash \in Nat /\ lookup.hash % Buckets \in 0 .. Buckets - 1
      /\ lookup.hash = GnuHash[lookup.name]
      /\ Bearers(lookup.name) \subseteq Sharing(lookup.hash % Buckets)
      /\ Bearers(lookup.name) = {i \in Covered : NameOf(i) = lookup.name}
      /\ pc = "chain" /\ pc \in LookingUp /\ LookupShape
  BY GnuServed, BearersShare DEF ReadChain, LookingUp, IInv
<1>2. PICK b, here, word : b = lookup.hash % Buckets /\ here = lookup.index /\ word = WordAt(ChainAddress)
  OBVIOUS
<1>3. /\ here \in Sharing(b) /\ here \in Covered /\ here \in Nat
      /\ \A i \in Covered : NameOf(i) = lookup.name => here <= i
  BY <1>1, <1>2, GnuTypes DEF GnuAt, Sharing
<1>4. word = ChainOf(here)
  <2>1. ChainAddress = Hashes + GnuArray + Buckets + (here - First)
    BY <1>1, <1>2 DEF ChainAddress, TableSaid
  <2>2. Hashes + GnuArray + Buckets + (here - First) = Hashes + (GnuArray + Buckets + (here - First))
    BY <1>1, <1>3, GnuTypes, TablesLaidOut
  <2> QED
    BY <1>2, <2>1, <2>2, Zenon DEF Cell, ChainOf
<1>5. /\ SameHash(word, HashOf(here))
      /\ IF Terminal(word) THEN \A j \in Sharing(b) : j <= here ELSE here + 1 \in Sharing(b)
  BY <1>1, <1>2, <1>3, <1>4, InBucket
<1>6. ASSUME ~SameHash(word, lookup.hash) PROVE NameOf(here) # lookup.name
  BY <1>1, <1>5, <1>6 DEF HashOf
<1>7. CASE SameHash(word, lookup.hash)
  <2>1. PICK l : l = [lookup EXCEPT !.chain = word]
    OBVIOUS
  <2>2. l.name = lookup.name /\ l.hash = lookup.hash /\ l.index = here /\ l.chain = word
    BY <1>1, <1>2, <2>1, LookupWith
  <2>3. Place("symbol", l)
    BY <1>1, <1>2, <1>3, <1>4, <2>2 DEF Place, GnuAt
  <2>4. Symbol(l)
    BY <1>1, <1>2, <1>7, <2>1 DEF ReadChain
  <2>5. l.index \in Nat /\ l.index < SymbolCount
    BY <1>1, <1>3, <2>2, GnuTypes
  <2> QED
    BY <1>1, <2>3, <2>4, <2>5, SymbolExact
<1>8. CASE ~SameHash(word, lookup.hash) /\ Terminal(word)
  <2>1. ASSUME NEW i \in Bearers(lookup.name) PROVE FALSE
    <3>1. i \in Covered /\ i \in Nat /\ NameOf(i) = lookup.name /\ i \in Sharing(b)
      BY <1>1, <1>2, GnuTypes
    <3>2. here <= i /\ i <= here
      BY <1>3, <1>5, <1>8, <3>1
    <3>3. i = here
      BY <1>3, <3>1, <3>2
    <3> QED
      BY <1>6, <1>8, <3>1, <3>3
  <2>2. Return(Nothing)
    BY <1>1, <1>2, <1>8 DEF ReadChain
  <2> QED
    BY <1>1, <2>1, <2>2, ReturnExact DEF IsAnswer
<1>9. CASE ~SameHash(word, lookup.hash) /\ ~Terminal(word)
  <2>1. here + 1 \in Sharing(b)
    BY <1>5, <1>9
  <2>2. ASSUME NEW i \in Covered, NameOf(i) = lookup.name PROVE here + 1 <= i
    <3>1. here <= i /\ i # here /\ i \in Nat
      BY <1>1, <1>3, <1>6, <1>9, <2>2, GnuTypes
    <3> QED
      BY <1>3, <3>1
  <2>3. GnuTurn(here + 1)
    BY <1>1, <1>2, <1>9 DEF ReadChain
  <2> QED
    BY <1>1, <1>2, <2>1, <2>2, <2>3, GnuTurnExact
<1> QED
  BY <1>7, <1>8, <1>9

-----------------------------------------------------------------------------

(* What a lookup in a System V table rests on.                             *)
LEMMA SysvServed ==
  ASSUME IInv, Progress, Built, ~Gnu, pc \in LookingUp
  PROVE  /\ Memory /\ TableSaid /\ lookup.name \in Names /\ SysvAt(pc, lookup) /\ LookupShape
         /\ table.kind = "sysv" /\ table.links = SymbolCount /\ lookup.hash = SysvHash[lookup.name]
         /\ Buckets \in Nat \ {0} /\ lookup.hash % Buckets \in 0 .. Buckets - 1
         /\ Bearers(lookup.name) = {i \in 1 .. SymbolCount - 1 : NameOf(i) = lookup.name}
<1>1. Memory /\ TableSaid /\ lookup.name \in Names /\ SysvAt(pc, lookup) /\ LookupShape
  BY DEF IInv, Progress, Place, Building, LookingUp
<1>2. lookup.hash = SysvHash[lookup.name] /\ table.kind = "sysv" /\ table.links = SymbolCount
      /\ table.first = 0
  BY <1>1 DEF SysvAt, TableSaid
<1>3. Buckets \in Nat \ {0}
  <2>1. Mapped(Hashes, 2) /\ Buckets # 0
    BY SysvLaidOut
  <2> QED
    BY <1>1, <2>1, CellMapped, TablesLaidOut DEF Buckets
<1>4. Bearers(lookup.name) = {i \in 1 .. SymbolCount - 1 : NameOf(i) = lookup.name}
  BY <1>1, <1>2, TablesLaidOut DEF Bearers, SymbolCount
<1> QED
  BY <1>1, <1>2, <1>3, <1>4, HashTypes

(* The words behind the header.                                            *)
LEMMA SysvCells ==
  ASSUME Memory, Built, ~Gnu, NEW k \in 0 .. Buckets + SymbolCount - 1
  PROVE  /\ Mapped(Hashes + (2 + k), 1) /\ Cell(2 + k) \in Nat
<1>1. Mapped(Hashes, 2 + Buckets + SymbolCount) /\ Mapped(Hashes, 2)
  BY SysvLaidOut
<1>2. Hashes \in Nat /\ SymbolCount \in Nat
  BY TablesLaidOut
<1>3. Buckets \in Nat
  BY <1>1, <1>2, CellMapped DEF Buckets
<1>4. PICK n, j : n = 2 + Buckets + SymbolCount /\ j = 2 + k
  OBVIOUS
<1>5. n \in Nat /\ j \in 0 .. n - 1
  BY <1>2, <1>3, <1>4
<1>6. Mapped(Hashes, n)
  BY <1>1, <1>4, Zenon
<1>7. Mapped(Hashes + j, 1) /\ Cell(j) \in Nat
  BY <1>2, <1>5, <1>6, CellMapped
<1> QED
  BY <1>4, <1>7, Zenon

(* One turn along the chain of the bucket: step k is next.                 *)
LEMMA SysvTurnExact ==
  ASSUME IInv, Progress, Built, ~Gnu, pc \in LookingUp,
         NEW length \in 0 .. SymbolCount - 1, NEW chain \in [1 .. length -> 1 .. SymbolCount - 1],
         IsChain(lookup.hash % Buckets, length, chain),
         NEW k \in 0 .. length, \A j \in 1 .. k : NameOf(chain[j]) # lookup.name,
         NEW index, index = (IF k = length THEN 0 ELSE chain[k + 1]),
         SysvTurn(index, k)
  PROVE  Progress'
<1>1. /\ Memory /\ TableSaid /\ lookup.name \in Names /\ SysvAt(pc, lookup) /\ LookupShape
      /\ table.links = SymbolCount /\ lookup.hash = SysvHash[lookup.name]
      /\ Bearers(lookup.name) = {i \in 1 .. SymbolCount - 1 : NameOf(i) = lookup.name}
      /\ SymbolCount \in Nat \ {0}
  BY SysvServed, TablesLaidOut
<1>2. k # table.links /\ k \in Nat
  BY <1>1
<1>3. CASE k = length
  <2>1. Return(Nothing)
    BY <1>2, <1>3 DEF SysvTurn
  <2>2. ASSUME NEW i \in Bearers(lookup.name) PROVE FALSE
    <3>1. i \in 1 .. SymbolCount - 1 /\ NameOf(i) = lookup.name
      BY <1>1
    <3>2. PICK j \in 1 .. length : chain[j] = i
      BY <1>1, <3>1 DEF IsChain
    <3> QED
      BY <1>3, <3>1, <3>2
  <2> QED
    BY <1>1, <2>1, <2>2, ReturnExact DEF IsAnswer
<1>4. CASE k # length
  <2>1. k + 1 \in 1 .. length /\ k + 1 \in Nat
    BY <1>1, <1>4
  <2>2. index = chain[k + 1] /\ index \in 1 .. SymbolCount - 1
    BY <1>4, <2>1
  <2>3. PICK l : l = [lookup EXCEPT !.index = index, !.steps = k + 1]
    OBVIOUS
  <2>4. Symbol(l)
    <3>1. index # 0 /\ ~(index >= table.links)
      BY <1>1, <2>2
    <3> QED
      BY <1>2, <2>3, <3>1 DEF SysvTurn
  <2>5. l.name = lookup.name /\ l.hash = lookup.hash /\ l.index = index /\ l.steps = k + 1
    BY <1>1, <2>3, LookupWith
  <2>6. \A j \in 1 .. k + 1 : NameOf(chain[j]) = lookup.name => j = k + 1
    BY <1>2
  <2>7. SysvAt("symbol", l)
    BY <1>1, <2>1, <2>2, <2>5, <2>6 DEF SysvAt
  <2>8. Place("symbol", l)
    BY <1>1, <2>5, <2>7 DEF Place
  <2> QED
    BY <1>1, <2>2, <2>4, <2>5, <2>8, SymbolExact
<1> QED
  BY <1>3, <1>4

LEMMA SysvBucketExact ==
  ASSUME IInv, Progress, Built, ~Gnu, ReadBucket
  PROVE  Progress'
<1>1. /\ Memory /\ TableSaid /\ table.kind = "sysv" /\ Buckets \in Nat \ {0}
      /\ lookup.hash % Buckets \in 0 .. Buckets - 1
      /\ pc = "bucket" /\ pc \in LookingUp
  BY SysvServed DEF ReadBucket, LookingUp
<1>2. PICK b, index : b = lookup.hash % Buckets /\ index = WordAt(BucketAddress)
  OBVIOUS
<1>3. index = Cell(2 + b)
  <2>1. BucketAddress = Hashes + 2 + b
    BY <1>1, <1>2 DEF BucketAddress, TableSaid
  <2>2. Hashes + 2 + b = Hashes + (2 + b)
    BY <1>1, <1>2, TablesLaidOut
  <2> QED
    BY <1>2, <2>1, <2>2, Zenon DEF Cell
<1>4. PICK length \in 0 .. SymbolCount - 1 :
        \E chain \in [1 .. length -> 1 .. SymbolCount - 1] : IsChain(b, length, chain)
  BY <1>1, <1>2, SysvLaidOut
<1>5. PICK chain \in [1 .. length -> 1 .. SymbolCount - 1] : IsChain(b, length, chain)
  BY <1>4
<1>6. index = IF 0 = length THEN 0 ELSE chain[0 + 1]
  BY <1>3, <1>5 DEF IsChain
<1>7. SysvTurn(index, 0)
  BY <1>1, <1>2 DEF ReadBucket
<1>8. 0 \in 0 .. length /\ \A j \in 1 .. 0 : NameOf(chain[j]) # lookup.name
  BY <1>4, TablesLaidOut, <1>1
<1> QED
  BY <1>1, <1>2, <1>5, <1>6, <1>7, <1>8, SysvTurnExact

LEMMA SysvChainExact ==
  ASSUME IInv, Progress, Built, ~Gnu, ReadChain
  PROVE  Progress'
<1>1. /\ Memory /\ TableSaid /\ table.kind = "sysv" /\ Buckets \in Nat \ {0}
      /\ SysvAt(pc, lookup) /\ pc = "chain" /\ pc \in LookingUp /\ SymbolCount \in Nat
  BY SysvServed, TablesLaidOut DEF ReadChain, LookingUp
<1>2. PICK b, k, index : /\ b = lookup.hash % Buckets /\ k = lookup.steps
                         /\ index = WordAt(ChainAddress)
  OBVIOUS
<1>3. PICK length \in 0 .. SymbolCount - 1 :
        \E chain \in [1 .. length -> 1 .. SymbolCount - 1] :
          /\ IsChain(b, length, chain)
          /\ k \in 1 .. length /\ lookup.index = chain[k]
          /\ \A j \in 1 .. k : NameOf(chain[j]) # lookup.name
  BY <1>1, <1>2 DEF SysvAt
<1>4. PICK chain \in [1 .. length -> 1 .. SymbolCount - 1] :
          /\ IsChain(b, length, chain)
          /\ k \in 1 .. length /\ lookup.index = chain[k]
          /\ \A j \in 1 .. k : NameOf(chain[j]) # lookup.name
  BY <1>3
<1>5. index = IF k = length THEN 0 ELSE chain[k + 1]
  <2>1. ChainAddress = Hashes + 2 + Buckets + (chain[k] - 0)
    BY <1>1, <1>2, <1>4 DEF ChainAddress, TableSaid
  <2>2. chain[k] \in 1 .. SymbolCount - 1
    BY <1>4
  <2>3. Hashes + 2 + Buckets + (chain[k] - 0) = Hashes + (2 + Buckets + chain[k])
    <3>1. Hashes \in Nat /\ chain[k] \in Nat /\ Buckets \in Nat
      <4>1. \A i \in 1 .. SymbolCount - 1 : i \in Nat
        BY <1>1
      <4>2. chain[k] \in Nat
        BY <2>2, <4>1, Zenon
      <4> QED
        BY <1>1, <4>2, TablesLaidOut
    <3>2. \A h, n, c \in Nat : h + 2 + n + (c - 0) = h + (2 + n + c)
      OBVIOUS
    <3> QED
      BY <3>1, <3>2, Zenon
  <2>4. index = LinkOf(chain[k])
    BY <1>2, <2>1, <2>3, Zenon DEF Cell, LinkOf
  <2> QED
    BY <1>4, <2>4 DEF IsChain
<1>6. SysvTurn(index, k)
  BY <1>1, <1>2 DEF ReadChain
<1>7. k \in 0 .. length
  BY <1>1, <1>3, <1>4
<1> QED
  BY <1>1, <1>2, <1>4, <1>5, <1>6, <1>7, SysvTurnExact

-----------------------------------------------------------------------------
(* Both kinds.                                                             *)

(* The symbol of a lookup is one that the table covers.                    *)
LEMMA AtSymbol ==
  ASSUME IInv, Progress, Built, pc \in {"symbol", "name"}
  PROVE  /\ NameBuilt(lookup.index) /\ NameOf(lookup.index) \in Names \ {BadName}
         /\ lookup.index \in 1 .. SymbolCount - 1 /\ lookup.index >= table.first
         /\ Memory /\ TableSaid /\ LookupShape /\ lookup.name \in Names /\ pc \in LookingUp
<1>1. Memory /\ TableSaid /\ LookupShape /\ lookup.name \in Names /\ pc \in LookingUp
  BY DEF IInv, Progress, Place, Building, LookingUp
<1>2. CASE Gnu
  <2>1. lookup.index \in Sharing(lookup.hash % Buckets)
    BY <1>1, <1>2 DEF Progress, Place, GnuAt
  <2>2. lookup.index \in Covered /\ NameBuilt(lookup.index)
    BY <1>2, <2>1, GnuLaidOut DEF Sharing
  <2> QED
    BY <1>1, <1>2, <2>2, GnuTypes, TablesLaidOut DEF TableSaid, NameBuilt
<1>3. CASE ~Gnu
  <2>1. lookup.index \in 1 .. SymbolCount - 1
    BY <1>1, <1>3, TablesLaidOut DEF Progress, Place, SysvAt
  <2>2. NameBuilt(lookup.index)
    BY <1>3, <2>1, SysvLaidOut
  <2> QED
    BY <1>1, <1>3, <2>1, <2>2, TablesLaidOut DEF TableSaid, NameBuilt
<1> QED
  BY <1>2, <1>3

LEMMA ReadSymbolExact ==
  ASSUME IInv, Progress, Built, ReadSymbol
  PROVE  Progress'
<1>1. pc = "symbol"
  BY DEF ReadSymbol
<1>2. PICK record : record = contents.symbols[lookup.index + 1]
  OBVIOUS
<1>3. record.name < table.strsz
  BY <1>1, <1>2, AtSymbol DEF NameBuilt, TableSaid
<1>4. PICK l : l = [lookup EXCEPT !.record = <<record>>]
  OBVIOUS
<1>5. GoOn("name", l)
  BY <1>2, <1>3, <1>4 DEF ReadSymbol
<1>6. /\ l.name = lookup.name /\ l.hash = lookup.hash /\ l.index = lookup.index
      /\ l.steps = lookup.steps /\ l.chain = lookup.chain /\ l.record = <<record>>
  BY <1>1, <1>4, AtSymbol, LookupWith
<1>7. Place("symbol", lookup)
  BY <1>1 DEF Progress, LookingUp
<1>8. Place("name", l)
  BY <1>2, <1>6, <1>7 DEF Place, GnuAt, SysvAt
<1> QED
  BY <1>1, <1>5, <1>8, GoOnExact DEF LookingUp

LEMMA ReadNameExact ==
  ASSUME IInv, Progress, Built, ReadName
  PROVE  Progress'
<1>1. /\ pc = "name" /\ pc \in LookingUp /\ Memory /\ TableSaid /\ lookup.name \in Names
      /\ NameOf(lookup.index) \in Names \ {BadName}
      /\ lookup.index \in 1 .. SymbolCount - 1 /\ lookup.index >= table.first
      /\ Place("name", lookup)
  BY AtSymbol DEF ReadName, Progress, LookingUp
<1>2. PICK here, record : here = lookup.index /\ record = contents.symbols[here + 1]
  OBVIOUS
<1>3. lookup.record = <<record>> /\ lookup.record[1] = record
  <2>1. lookup.record = <<contents.symbols[lookup.index + 1]>>
    BY <1>1 DEF Place, GnuAt, SysvAt
  <2> QED
    BY <1>2, <2>1
<1>4. contents.strings[lookup.record[1].name] = NameOf(here)
  BY <1>2, <1>3 DEF NameOf
<1>5. CASE NameOf(here) = lookup.name
  <2>1. here \in Bearers(lookup.name)
    BY <1>1, <1>2, <1>5 DEF Bearers, SymbolCount
  <2>2. Return(IF lookup.export THEN Exported(record) ELSE [kind |-> "found", index |-> here])
    BY <1>1, <1>2, <1>3, <1>4, <1>5 DEF ReadName
  <2>3. IsAnswer(lookup.name, lookup.export,
                 IF lookup.export THEN Exported(record) ELSE [kind |-> "found", index |-> here])
    BY <1>2, <2>1 DEF IsAnswer
  <2> QED
    BY <1>1, <2>2, <2>3, ReturnExact
<1>6. CASE NameOf(here) # lookup.name
  <2>1. IF table.kind = "sysv" THEN GoOn("chain", lookup)
        ELSE IF Terminal(lookup.chain) THEN Return(Nothing)
        ELSE GnuTurn(here + 1)
    BY <1>1, <1>2, <1>4, <1>6 DEF ReadName
  <2>2. CASE ~Gnu
    <3>1. GoOn("chain", lookup)
      BY <1>1, <2>1, <2>2 DEF TableSaid
    <3>2. SysvAt("name", lookup)
      BY <1>1, <2>2 DEF Place
    <3>3. SysvAt("chain", lookup)
      BY <1>2, <1>6, <3>2 DEF SysvAt
    <3>4. Place("chain", lookup)
      BY <1>1, <2>2, <3>3 DEF Place
    <3> QED
      BY <1>1, <3>1, <3>4, GoOnExact DEF LookingUp
  <2>3. CASE Gnu
    <3>1. PICK b : b = lookup.hash % Buckets
      OBVIOUS
    <3>2. /\ here \in Sharing(b) /\ here \in Covered /\ here \in Nat
          /\ \A i \in Covered : NameOf(i) = lookup.name => here <= i
          /\ lookup.chain = ChainOf(here) /\ table.kind = "gnu"
          /\ b \in 0 .. Buckets - 1
          /\ Bearers(lookup.name) \subseteq Sharing(b)
          /\ Bearers(lookup.name) = {i \in Covered : NameOf(i) = lookup.name}
      BY <1>1, <1>2, <2>3, <3>1, GnuServed, GnuTypes, BearersShare DEF GnuAt, Sharing
    <3>3. IF Terminal(ChainOf(here)) THEN \A j \in Sharing(b) : j <= here ELSE here + 1 \in Sharing(b)
      BY <1>1, <2>3, <3>2, InBucket
    <3>4. CASE Terminal(ChainOf(here))
      <4>1. ASSUME NEW i \in Bearers(lookup.name) PROVE FALSE
        <5>1. i \in Nat /\ here <= i /\ i <= here /\ NameOf(i) = lookup.name
          BY <1>1, <2>3, <3>2, <3>3, <3>4, GnuTypes
        <5>2. i = here
          BY <3>2, <5>1
        <5> QED
          BY <1>6, <5>1, <5>2
      <4>2. Return(Nothing)
        BY <2>1, <3>2, <3>4
      <4> QED
        BY <1>1, <4>1, <4>2, ReturnExact DEF IsAnswer
    <3>5. CASE ~Terminal(ChainOf(here))
      <4>1. here + 1 \in Sharing(b)
        BY <3>3, <3>5
      <4>2. ASSUME NEW i \in Covered, NameOf(i) = lookup.name PROVE here + 1 <= i
        <5>1. here <= i /\ i # here /\ i \in Nat
          BY <1>1, <1>6, <2>3, <3>2, <4>2, GnuTypes
        <5> QED
          BY <3>2, <5>1
      <4>3. GnuTurn(here + 1)
        BY <2>1, <3>2, <3>5
      <4> QED
        BY <1>1, <2>3, <3>1, <4>1, <4>2, <4>3, GnuTurnExact
    <3> QED
      BY <3>4, <3>5
  <2> QED
    BY <2>2, <2>3
<1> QED
  BY <1>5, <1>6

(* No access of a lookup leaves the tables, so none fails.                 *)
LEMMA BloomMapped ==
  ASSUME IInv, Progress, Built, pc = "bloom"
  PROVE  Mapped(BloomAddress, ClassWords)
<1>1. pc \in LookingUp /\ Gnu
  BY DEF LookingUp, Progress, Place, SysvAt
<1>2. /\ Memory /\ TableSaid /\ lookup.hash \in Nat /\ Bloom \in Nat \ {0} /\ Buckets \in Nat
      /\ Hashes \in Nat /\ First \in 1 .. SymbolCount /\ SymbolCount \in Nat /\ First \in Nat
      /\ Mapped(Hashes, GnuArray + Buckets + (SymbolCount - First))
  BY <1>1, GnuServed, GnuTypes, GnuLaidOut, TablesLaidOut
<1>3. PICK slot, behind : /\ slot = (lookup.hash \div WordBits) % Bloom
                          /\ behind = slot * ClassWords
  OBVIOUS
<1>4. slot \in Nat /\ slot < Bloom
  <2>1. WordBits \in Nat \ {0}
    BY WordsPositive DEF WordBits
  <2>2. lookup.hash \div WordBits \in Nat
    BY <1>2, <2>1, DivFits
  <2> QED
    BY <1>2, <1>3, <2>2, DivFits
<1>5. behind \in Nat /\ behind + ClassWords <= Bloom * ClassWords /\ Bloom * ClassWords \in Nat
  BY <1>2, <1>3, <1>4, SlotFits, WordsPositive
<1>6. BloomAddress = Hashes + 4 + behind
  BY <1>1, <1>2, <1>3 DEF BloomAddress, TableSaid
<1>7. PICK n, size : /\ size = Bloom * ClassWords
                     /\ n = 4 + size + Buckets + (SymbolCount - First)
  OBVIOUS
<1>8. Mapped(Hashes, n)
  BY <1>2, <1>7, Zenon DEF GnuArray
<1>9. n \in Nat /\ 4 + behind + ClassWords <= n
  BY <1>2, <1>5, <1>7, WordsPositive
<1>10. Hashes + 4 + behind .. Hashes + 4 + behind + ClassWords - 1 \subseteq Hashes .. Hashes + n - 1
  BY <1>2, <1>5, <1>9, WordsPositive
<1> QED
  BY <1>6, <1>8, <1>10 DEF Mapped

LEMMA BucketMapped ==
  ASSUME IInv, Progress, Built, pc = "bucket"
  PROVE  Mapped(BucketAddress, 1)
<1>1. pc \in LookingUp
  BY DEF LookingUp
<1>2. PICK b : b = lookup.hash % Buckets
  OBVIOUS
<1>3. CASE Gnu
  <2>1. Memory /\ TableSaid /\ b \in 0 .. Buckets - 1 /\ GnuArray \in Nat /\ Hashes \in Nat
    BY <1>1, <1>2, <1>3, GnuServed, GnuTypes, TablesLaidOut
  <2>2. BucketAddress = Hashes + GnuArray + b
    BY <1>2, <1>3, <2>1 DEF BucketAddress, TableSaid
  <2>3. Hashes + GnuArray + b = Hashes + (GnuArray + b)
    BY <2>1
  <2> QED
    BY <1>3, <2>1, <2>2, <2>3, GnuTypes
<1>4. CASE ~Gnu
  <2>1. /\ Memory /\ TableSaid /\ b \in 0 .. Buckets - 1 /\ Hashes \in Nat /\ Buckets \in Nat
        /\ SymbolCount \in Nat
    BY <1>1, <1>2, <1>4, SysvServed, TablesLaidOut
  <2>2. BucketAddress = Hashes + 2 + b
    BY <1>2, <1>4, <2>1 DEF BucketAddress, TableSaid
  <2>3. Hashes + 2 + b = Hashes + (2 + b) /\ b \in 0 .. Buckets + SymbolCount - 1
    BY <2>1
  <2> QED
    BY <1>4, <2>1, <2>2, <2>3, SysvCells
<1> QED
  BY <1>3, <1>4

LEMMA ChainMapped ==
  ASSUME IInv, Progress, Built, pc = "chain"
  PROVE  Mapped(ChainAddress, 1)
<1>1. pc \in LookingUp
  BY DEF LookingUp
<1>2. PICK here : here = lookup.index
  OBVIOUS
<1>3. CASE Gnu
  <2>1. /\ Memory /\ TableSaid /\ here \in Covered /\ here \in Nat /\ First \in Nat
        /\ Buckets \in Nat /\ GnuArray \in Nat /\ Hashes \in Nat
    BY <1>1, <1>2, <1>3, GnuServed, GnuTypes, TablesLaidOut DEF GnuAt, Sharing
  <2>2. ChainAddress = Hashes + GnuArray + Buckets + (here - First)
    BY <1>2, <1>3, <2>1 DEF ChainAddress, TableSaid
  <2>3. Hashes + GnuArray + Buckets + (here - First) = Hashes + (GnuArray + Buckets + (here - First))
    BY <2>1
  <2> QED
    BY <1>3, <2>1, <2>2, <2>3, GnuTypes
<1>4. CASE ~Gnu
  <2>1. /\ Memory /\ TableSaid /\ Hashes \in Nat /\ Buckets \in Nat /\ SymbolCount \in Nat
        /\ SysvAt(pc, lookup)
    BY <1>1, <1>4, SysvServed, TablesLaidOut
  <2>2. here \in 1 .. SymbolCount - 1
    BY <1>2, <2>1 DEF SysvAt
  <2>3. ChainAddress = Hashes + 2 + Buckets + (here - 0)
    BY <1>2, <1>4, <2>1 DEF ChainAddress, TableSaid
  <2>4. PICK k : k = Buckets + here
    OBVIOUS
  <2>5. /\ Hashes + 2 + Buckets + (here - 0) = Hashes + (2 + k)
        /\ k \in 0 .. Buckets + SymbolCount - 1
    BY <2>1, <2>2, <2>4
  <2> QED
    BY <1>4, <2>1, <2>3, <2>5, SysvCells
<1> QED
  BY <1>3, <1>4

LEMMA AccessNever ==
  ASSUME IInv, Progress, Built
  PROVE  ~AccessFails
<1>1. ASSUME pc = "header" PROVE Mapped(HashAddress + at, 1)
  <2>1. PICK words : words = Append(header, WordAt(HashAddress + at))
    OBVIOUS
  <2>2. Memory /\ Reader /\ MetaSaid /\ HeaderSaid
    BY <1>1 DEF IInv, Progress
  <2> QED
    BY <2>1, <2>2, HeaderRead
<1>2. ASSUME pc = "symbol" PROVE ~(lookup.index >= Len(contents.symbols))
  BY <1>2, AtSymbol, TablesLaidOut DEF SymbolCount
<1>3. ASSUME pc = "name" PROVE lookup.record[1].name \in DOMAIN contents.strings
  <2>1. NameBuilt(lookup.index) /\ Place("name", lookup)
    BY <1>3, AtSymbol DEF Progress, LookingUp
  <2>2. lookup.record = <<contents.symbols[lookup.index + 1]>>
    BY <2>1 DEF Place, GnuAt, SysvAt
  <2> QED
    BY <2>1, <2>2 DEF NameBuilt
<1> QED
  BY <1>1, <1>2, <1>3, BloomMapped, BucketMapped, ChainMapped DEF AccessFails

-----------------------------------------------------------------------------

LEMMA BeginExact ==
  ASSUME IInv, Progress, Built, NEW name \in Names, NEW export \in BOOLEAN, Begin(name, export)
  PROVE  Progress'
<1>1. /\ UNCHANGED <<image, contents, table, meta>> /\ pc = "ready"
      /\ pc' = IF table.kind = "gnu" THEN "bloom" ELSE "bucket"
      /\ answer' = Pending
      /\ lookup' = [NoLookup EXCEPT !.name = name, !.export = export,
                      !.hash = IF table.kind = "gnu" THEN GnuHash[name] ELSE SysvHash[name]]
  BY DEF Begin, memory
<1>2. TableSaid /\ TableSaid' /\ MetaSaid'
  BY <1>1, TableSaidStays, MetaSaidStays DEF Progress, Building
<1>3. Gnu' = Gnu
  BY <1>1, ContentsStay DEF Gnu
<1>4. lookup'.name = name /\ lookup'.hash = (IF Gnu THEN GnuHash[name] ELSE SysvHash[name])
  BY <1>1, <1>2 DEF NoLookup, TableSaid
<1>5. pc' = (IF Gnu THEN "bloom" ELSE "bucket")
  BY <1>1, <1>2 DEF TableSaid
<1>6. Place(pc, lookup)'
  BY <1>3, <1>4, <1>5 DEF Place, GnuAt, SysvAt
<1> QED
  BY <1>2, <1>5, <1>6 DEF Progress, Building

LEMMA ReadEntryExact ==
  ASSUME MetaInv, ~changed, Progress, Built, ReadEntry
  PROVE  Progress'
<1>1. /\ pc = "entry" /\ pc' = "entry" /\ UNCHANGED <<image, contents, header>> /\ at' = at + 1
      /\ at \in Nat /\ header = <<>> /\ Sourced /\ UNCHANGED answer
      /\ meta' = [f \in Fields |-> IF f = Entry.tag THEN Entry.value ELSE meta[f]]
  BY DEF ReadEntry, memory, Progress, MetaInv, IInv, Reader
<1>2. ASSUME NEW f \in Fields, meta'[f] # None
      PROVE  \E j \in 1 .. at' : contents'.dynamic[j].tag = f
  <2>1. CASE f = Entry.tag
    BY <1>1, <2>1 DEF Entry
  <2>2. CASE f # Entry.tag
    <3>1. PICK j \in 1 .. at : contents.dynamic[j].tag = f
      BY <1>1, <1>2, <2>2 DEF Sourced
    <3>2. j \in 1 .. at'
      BY <1>1, <3>1
    <3> QED
      BY <1>1, <3>1, <3>2
  <2> QED
    BY <2>1, <2>2
<1>3. Sourced'
  BY <1>2 DEF Sourced
<1> QED
  BY <1>1, <1>3 DEF Progress, Building, LookingUp

LEMMA EndOfEntriesExact ==
  ASSUME MetaInv, ~changed, Progress, Built, EndOfEntries
  PROVE  Progress'
<1>1. /\ pc = "entry" /\ Entry.tag = "null" /\ header = <<>> /\ Sourced /\ Memory /\ Reader
      /\ Agreed(at) /\ DynamicBuilt
  BY DEF EndOfEntries, Progress, MetaInv, IInv, Built
<1>2. MetaSaid
  BY <1>1, AllSaid
<1>3. MetadataFault = "none"
  BY <1>1, <1>2, MetadataFit
<1>4. /\ pc' = "header" /\ at' = 0 /\ header' = <<>> /\ UNCHANGED <<image, contents, meta, answer>>
  BY <1>1, <1>3 DEF EndOfEntries, memory
<1>5. MetaSaid' /\ HeaderSaid'
  BY <1>2, <1>4, MetaSaidStays DEF HeaderSaid
<1> QED
  BY <1>1, <1>4, <1>5 DEF Progress, Building, LookingUp

LEMMA ReadHeaderExact ==
  ASSUME IInv, Progress, Built, ReadHeader
  PROVE  Progress'
<1>1. /\ pc = "header" /\ Memory /\ Reader /\ MetaSaid /\ HeaderSaid /\ at \in Nat
  BY DEF ReadHeader, Progress, IInv, Reader
<1>2. PICK words : words = Append(header, WordAt(HashAddress + at))
  OBVIOUS
<1>3. /\ HeaderWords = (IF Gnu THEN 4 ELSE 2)
      /\ words \in Seq(Nat) /\ Len(words) = at + 1 /\ \A k \in 1 .. at + 1 : words[k] = Cell(k - 1)
  BY <1>1, <1>2, HeaderRead
<1>4. CASE /\ Len(words) < HeaderWords
           /\ header' = words /\ at' = at + 1
           /\ UNCHANGED <<memory, pc, meta, table, lookup, answer>>
  <2>1. UNCHANGED <<image, contents, meta, answer>> /\ pc' = "header"
    BY <1>1, <1>4 DEF memory
  <2>2. MetaSaid'
    BY <1>1, <2>1, MetaSaidStays
  <2>3. Gnu' = Gnu /\ \A k : Cell(k)' = Cell(k)
    BY <2>1, ContentsStay DEF Gnu
  <2>4. HeaderSaid'
    BY <1>3, <1>4, <2>3 DEF HeaderSaid
  <2> QED
    BY <1>1, <2>1, <2>2, <2>4 DEF Progress, Building, LookingUp
<1>5. CASE Len(words) = HeaderWords
  <2>1. Fits(words) /\ (table' = NewTable(words) /\ UNCHANGED <<image, contents>> => TableSaid')
    <3>1. CASE Gnu
      <4>1. words[1] = Cell(0) /\ words[2] = Cell(1) /\ words[3] = Cell(2) /\ words[4] = Cell(3)
        <5>1. at = 3 /\ {1, 2, 3, 4} \subseteq 1 .. 3 + 1
          <6>1. at + 1 = 4
            BY <1>3, <1>5, <3>1
          <6> QED
            BY <1>1, <6>1
        <5>2. 1 - 1 = 0 /\ 2 - 1 = 1 /\ 3 - 1 = 2 /\ 4 - 1 = 3
          OBVIOUS
        <5> QED
          BY <1>3, <5>1, <5>2, Zenon
      <4> QED
        BY <1>1, <3>1, <4>1, GnuFits
    <3>2. CASE ~Gnu
      <4>1. words[1] = Cell(0) /\ words[2] = Cell(1)
        <5>1. {1, 2} \subseteq 1 .. at + 1
          BY <1>1, <1>3, <1>5, <3>2
        <5>2. 1 - 1 = 0 /\ 2 - 1 = 1
          OBVIOUS
        <5> QED
          BY <1>3, <5>1, <5>2, Zenon
      <4> QED
        BY <1>1, <3>2, <4>1, SysvFits
    <3> QED
      BY <3>1, <3>2
  <2>2. /\ pc' = "ready" /\ table' = NewTable(words)
        /\ UNCHANGED <<image, contents, meta>> /\ answer' = Pending
    BY <1>1, <1>2, <1>5, <2>1 DEF ReadHeader, memory, Progress, Building
  <2>3. MetaSaid' /\ TableSaid'
    BY <1>1, <2>1, <2>2, MetaSaidStays
  <2> QED
    BY <2>2, <2>3 DEF Progress, Building, LookingUp
<1> QED
  BY <1>2, <1>4, <1>5 DEF ReadHeader

(* The reader only reads.                                                  *)
LEMMA ReadKeepsMemory ==
  ASSUME Read
  PROVE  UNCHANGED <<image, contents, changed>>
<1>1. CASE ReadEntry \/ EntryFails \/ EndOfEntries \/ ReadHeader \/ AccessFails
  BY <1>1 DEF ReadEntry, EntryFails, EndOfEntries, ReadHeader, AccessFails, Refuse, memory
<1>2. CASE ReadBloom \/ ReadSymbol \/ ReadName
  BY <1>2 DEF ReadBloom, ReadSymbol, ReadName, GnuTurn, Return, Refuse, GoOn, memory
<1>3. CASE ReadBucket \/ ReadChain
  BY <1>3 DEF ReadBucket, ReadChain, GnuTurn, SysvTurn, Symbol, Return, Refuse, GoOn, memory
<1> QED
  BY <1>1, <1>2, <1>3 DEF Read

(* The reader as long as its memory is what a linker built, and any answer *)
(* of it, whatever happens.                                                *)
ExactInv == MetaInv /\ (~changed /\ Built => Progress)

LEMMA ReadExact ==
  ASSUME MetaInv, ~changed, Progress, Built, Read
  PROVE  Progress'
<1>1. IInv
  BY DEF MetaInv
<1>2. CASE ReadEntry
  BY <1>2, ReadEntryExact
<1>3. CASE EndOfEntries
  BY <1>3, EndOfEntriesExact
<1>4. CASE ReadHeader
  BY <1>1, <1>4, ReadHeaderExact
<1>5. CASE ReadBloom
  <2>1. Gnu
    BY <1>5 DEF ReadBloom, Progress, Place, SysvAt, LookingUp
  <2> QED
    BY <1>1, <1>5, <2>1, GnuBloomExact
<1>6. CASE ReadBucket
  BY <1>1, <1>6, GnuBucketExact, SysvBucketExact
<1>7. CASE ReadChain
  BY <1>1, <1>7, GnuChainExact, SysvChainExact
<1>8. CASE ReadSymbol
  BY <1>1, <1>8, ReadSymbolExact
<1>9. CASE ReadName
  BY <1>1, <1>9, ReadNameExact
<1>10. CASE AccessFails
  BY <1>1, <1>10, AccessNever
<1>11. CASE EntryFails
  <2>1. pc = "entry" /\ Sourced /\ Memory /\ Reader /\ Agreed(at) /\ DynamicBuilt /\ at \in Nat
    BY <1>1, <1>11 DEF EntryFails, Progress, MetaInv, IInv, Reader, Built
  <2>2. EntryMapped /\ (Entry.tag # "null" => ~Conflicts(Entry))
    BY <2>1, NextEntry, NoConflict
  <2>3. Conflicts(Entry)
    BY <1>1, <1>11, <2>1, <2>2 DEF EntryFails, EntryMapped, IInv, Memory, Unsigned
  <2>4. Entry.tag # "null"
    BY <2>3 DEF Conflicts, Fields
  <2> QED
    BY <2>2, <2>3, <2>4
<1> QED
  BY <1>2, <1>3, <1>4, <1>5, <1>6, <1>7, <1>8, <1>9, <1>10, <1>11 DEF Read

LEMMA ProgressStutters ==
  ASSUME Progress, UNCHANGED vars
  PROVE  Progress'
<1>1. /\ UNCHANGED <<image, contents, changed, pc, at, meta, header, table, lookup, answer>>
  BY DEF vars, memory
<1>2. Sourced => Sourced'
  BY <1>1 DEF Sourced
<1>3. HeaderSaid => HeaderSaid'
  <2>1. Gnu' = Gnu /\ \A k : Cell(k)' = Cell(k)
    BY <1>1, ContentsStay DEF Gnu
  <2> QED
    BY <1>1, <2>1 DEF HeaderSaid
<1>4. (MetaSaid => MetaSaid') /\ (TableSaid => TableSaid')
  BY <1>1, MetaSaidStays, TableSaidStays
<1>5. PICK p, l, a : p = pc /\ l = lookup /\ a = answer
  OBVIOUS
<1>6. Place(p, l) => Place(p, l)'
  BY <1>1, PlaceStays
<1>7. Place(pc, lookup) => Place(pc, lookup)'
  BY <1>1, <1>5, <1>6 DEF Place, GnuAt, SysvAt
<1>8. IsAnswer(l.name, l.export, a) => IsAnswer(l.name, l.export, a)'
  BY <1>1, AnswerStays
<1>9. IsAnswer(lookup.name, lookup.export, answer) => IsAnswer(lookup.name, lookup.export, answer)'
  BY <1>1, <1>5, <1>8 DEF IsAnswer
<1> QED
  BY <1>1, <1>2, <1>3, <1>4, <1>7, <1>9 DEF Progress, Building, LookingUp

LEMMA ExactStepOK == ExactInv /\ [Next]_vars => ExactInv'
<1> SUFFICES ASSUME ExactInv, [Next]_vars, ~changed', Built' PROVE Progress'
  BY MetaStepOK DEF ExactInv
<1>1. MetaInv /\ IInv
  BY DEF ExactInv, MetaInv
<1>2. ASSUME ~changed, UNCHANGED <<image, contents>> PROVE Built /\ Progress
  BY <1>2, BuiltBefore DEF ExactInv
<1>3. CASE Change
  BY <1>3 DEF Change
<1>4. CASE UNCHANGED vars
  <2>1. UNCHANGED <<image, contents, changed>>
    BY <1>4 DEF vars, memory
  <2> QED
    BY <1>2, <1>4, <2>1, ProgressStutters
<1>5. CASE \E name \in Names, export \in BOOLEAN : Begin(name, export)
  <2>1. PICK name \in Names, export \in BOOLEAN : Begin(name, export)
    BY <1>5
  <2>2. UNCHANGED <<image, contents, changed>>
    BY <2>1 DEF Begin, memory
  <2> QED
    BY <1>1, <1>2, <2>1, <2>2, BeginExact
<1>6. CASE Read
  <2>1. UNCHANGED <<image, contents, changed>>
    BY <1>6, ReadKeepsMemory
  <2> QED
    BY <1>1, <1>2, <1>6, <2>1, ReadExact
<1> QED
  BY <1>3, <1>4, <1>5, <1>6 DEF Next

LEMMA AlwaysExactInv == Spec => []ExactInv
<1>1. Init => ExactInv
  <2> SUFFICES ASSUME Init PROVE ExactInv
    OBVIOUS
  <2>1. MetaInv
    BY StartOK DEF Init, MetaInv, MetadataAgrees, Agreed, IInv, Memory, Unsigned
  <2>2. Progress
    BY DEF Init, Progress, Sourced, NoMeta, Building, LookingUp
  <2> QED
    BY <2>1, <2>2 DEF ExactInv
<1> QED
  BY <1>1, ExactStepOK, PTL DEF Spec

(* As long as its memory stays what a linker built, a table is accepted    *)
(* and every lookup returns what a linear search of its symbols finds      *)
(* (find, export).                                                         *)
THEOREM LookupsAreLinearSearches == Spec => []LookupExact
<1>1. ExactInv => LookupExact
  BY DEF ExactInv, LookupExact, Progress
<1> QED
  BY <1>1, AlwaysExactInv, PTL

=============================================================================
