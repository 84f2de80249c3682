----------------------------- MODULE ElfDynamic -----------------------------
(***************************************************************************)
(* Dynamic symbols of an image that is loaded in another process           *)
(* (ganymede-elf/src/dynamic.rs, with the geometry of loaded.rs and the    *)
(* translation of symbol.rs).                                              *)
(*                                                                         *)
(* The reader walks the dynamic table entry by entry, validates a GNU or a *)
(* System V hash table against the load segment around it, and then serves *)
(* lookups by following buckets and chains word by word.  The memory it    *)
(* looks at may be replaced or unmapped at any moment, and what it         *)
(* validated once is what it trusts in every later lookup.                 *)
(*                                                                         *)
(* Addresses count the words of a hash table (u32).  A string table has    *)
(* one cell per name; a name offset is a cell.  Only tags that the reader  *)
(* collects are told apart, any other is "other".                          *)
(***************************************************************************)
EXTENDS Integers, Sequences, FiniteSets

CONSTANTS
  Names, BadName,     \* names, and a string without terminator
  GnuHash, SysvHash,  \* the two hash functions, on names
  HashBits,           \* u32::BITS
  ClassWords,         \* hash words in a word of the ELF class
  SymbolWords,        \* hash words in a symbol record
  AddressLimit,       \* one more than the largest address of the class
  Images,             \* the images examined, with their memory
  Becomes(_)          \* what the memory of an image may become

ASSUME WordsPositive ==
  /\ HashBits \in Nat \ {0} /\ ClassWords \in Nat \ {0} /\ SymbolWords \in Nat \ {0}
  /\ AddressLimit \in Nat
  /\ GnuHash \in [Names -> Nat] /\ SysvHash \in [Names -> Nat]

\* Addresses, extents and words are unsigned.
Unsigned(c) ==
  /\ c.dynamic \in Seq([tag : STRING, value : Nat])
  /\ \A a \in DOMAIN c.words : c.words[a] \in Nat
  /\ Len(c.symbols) \in Nat /\ \A i \in 1 .. Len(c.symbols) : c.symbols[i].name \in Nat

ASSUME ImagesUnsigned ==
  \A start \in Images :
    /\ start.image.bias \in Nat /\ start.image.entries \in Nat
    /\ start.image.loads \in Seq([address : Nat, size : Nat])
    /\ Unsigned(start.contents)
    /\ \A c \in Becomes(start.image) : Unsigned(c)

None == -1

VARIABLES
  image,     \* what LoadedImage::read saw: bias, load segments, number of dynamic entries
  contents,  \* the memory now: dynamic table, words, symbol records, strings
  changed,   \* the memory has been replaced
  pc,        \* the next access
  at,        \* the dynamic entry or header word it is about
  meta,      \* Metadata
  header,    \* the header words read so far
  table,     \* DynamicSymbols
  lookup,    \* the lookup: name, export or find, hash, position, steps, last chain word
  answer     \* what the last lookup returned

memory == <<image, contents, changed>>
vars == <<memory, pc, at, meta, header, table, lookup, answer>>

-----------------------------------------------------------------------------
(* Geometry: LoadBias, LoadedImage.                                        *)

Start(load) == image.bias + load.address
End(load)   == Start(load) + load.size

\* A segment whose translation leaves the address space of the class holds nothing.
Holds(load, address) == End(load) < AddressLimit /\ Start(load) <= address /\ address < End(load)

Contains(address) == \E i \in DOMAIN image.loads : Holds(image.loads[i], address)

\* load_bytes: what is left of the first segment that holds the address.
LoadWords(address) ==
  LET first == CHOOSE i \in DOMAIN image.loads :
                 /\ Holds(image.loads[i], address)
                 /\ \A j \in 1 .. i - 1 : ~Holds(image.loads[j], address)
  IN End(image.loads[first]) - address

\* resolve_dynamic_pointer: an absolute address, or else one relative to the bias.
Resolve(pointer) ==
  IF Contains(pointer) THEN pointer
  ELSE IF image.bias + pointer < AddressLimit /\ Contains(image.bias + pointer)
       THEN image.bias + pointer
       ELSE None

-----------------------------------------------------------------------------
(* The state of the reader.                                                *)

Fields   == {"strtab", "strsz", "symtab", "syment", "hash", "gnu_hash"}
NoMeta   == [f \in Fields |-> None]
NoTable  == [kind |-> "none"]
NoLookup == [name |-> BadName, export |-> FALSE, hash |-> 0, index |-> 0, steps |-> 0, chain |-> 0,
             record |-> <<>>]
Pending  == [kind |-> "pending"]
Error(reason) == [kind |-> "error", reason |-> reason]
Nothing  == [kind |-> "none"]

Building  == {"entry", "header"}
LookingUp == {"bloom", "bucket", "chain", "symbol", "name"}

\* A construction that fails leaves no table, a lookup that fails leaves the table.
Refuse(reason) ==
  /\ pc' = IF pc \in Building THEN "failed" ELSE "ready"
  /\ answer' = Error(reason)
  /\ UNCHANGED <<memory, at, meta, header, table, lookup>>

Return(result) ==
  /\ pc' = "ready"
  /\ answer' = result
  /\ UNCHANGED <<memory, at, meta, header, table, lookup>>

GoOn(next, position) ==
  /\ pc' = next
  /\ lookup' = position
  /\ UNCHANGED <<memory, at, meta, header, table, answer>>

-----------------------------------------------------------------------------
(* metadata and the checks of read_with.                                   *)

Entry == contents.dynamic[at + 1]
EntryMapped == at < image.entries /\ at < Len(contents.dynamic)

\* Faulty: the last value of a tag wins.
LastWins(entry) == FALSE

\* unique: two entries of one tag must agree.
Conflicts(entry) == entry.tag \in Fields /\ meta[entry.tag] \notin {None, entry.value}

\* One turn of the loop in metadata.
ReadEntry ==
  /\ pc = "entry" /\ EntryMapped
  /\ Entry.tag # "null" /\ ~Conflicts(Entry)
  /\ meta' = [f \in Fields |-> IF f = Entry.tag THEN Entry.value ELSE meta[f]]
  /\ at' = at + 1
  /\ UNCHANGED <<memory, pc, header, table, lookup, answer>>

EntryFails ==
  /\ pc = "entry"
  /\ \/ at >= image.entries /\ Refuse("MissingTerminator")
     \/ at < image.entries /\ at >= Len(contents.dynamic) /\ Refuse("Access")
     \/ EntryMapped /\ Conflicts(Entry) /\ Refuse("Duplicate")

Symtab == Resolve(meta["symtab"])
Strtab == Resolve(meta["strtab"])
Capacity == LoadWords(Symtab) \div SymbolWords
HashKind == IF meta["gnu_hash"] # None THEN "gnu" ELSE "sysv"
HashAddress == Resolve(meta[IF HashKind = "gnu" THEN "gnu_hash" ELSE "hash"])

\* What read_with refuses before it reads the hash table, in its order.
MetadataFault ==
  CASE \E f \in {"strtab", "strsz", "symtab", "syment"} : meta[f] = None -> "Missing"
    [] meta["syment"] # SymbolWords        -> "InvalidSymbolStride"
    [] Strtab = None                       -> "PointerOutsideImage"
    [] meta["strsz"] > LoadWords(Strtab)   -> "StringTableOutsideImage"
    [] Symtab = None                       -> "PointerOutsideImage"
    [] Capacity = 0                        -> "SymbolTableOutsideImage"
    [] meta["hash"] = None /\ meta["gnu_hash"] = None -> "MissingHash"
    [] HashAddress = None                  -> "PointerOutsideImage"
    [] OTHER                               -> "none"

\* The terminator: GNU hash tables are preferred.
EndOfEntries ==
  /\ pc = "entry" /\ EntryMapped
  /\ Entry.tag = "null"
  /\ IF MetadataFault # "none" THEN Refuse(MetadataFault)
     ELSE /\ pc' = "header"
          /\ at' = 0
          /\ UNCHANGED <<memory, meta, header, table, lookup, answer>>

-----------------------------------------------------------------------------
(* The hash table: words, header, validation.                              *)

WordBits == ClassWords * HashBits   \* Class::BITS

Mapped(address, words) == address .. address + words - 1 \subseteq DOMAIN contents.words
WordAt(address) == contents.words[address]

HeaderWords == IF HashKind = "gnu" THEN 4 ELSE 2

\* Where the bucket array begins: behind the header, and the bloom filter of a GNU table.
BucketArray(words) == IF HashKind = "gnu" THEN 4 + words[3] * ClassWords ELSE 2

\* Words behind the bucket array that may hold chains.
ChainWords(words) ==
  IF HashKind = "gnu" THEN LoadWords(HashAddress) - BucketArray(words) - words[1] ELSE words[2]

\* Faulty: a table without buckets.
FitsEmpty(words) ==
  /\ ChainWords(words) > 0
  /\ HashKind = "gnu" => words[3] # 0 /\ words[4] < HashBits /\ words[2] < Capacity
  /\ HashKind = "sysv" => words[2] <= Capacity /\ 2 + words[1] + words[2] <= LoadWords(HashAddress)

\* Faulty: the chains of a System V table are not held against the load segment.
FitsBuckets(words) ==
  /\ words[1] # 0 /\ ChainWords(words) > 0
  /\ HashKind = "gnu" => words[3] # 0 /\ words[4] < HashBits /\ words[2] < Capacity
  /\ HashKind = "sysv" => words[2] <= Capacity /\ 2 + words[1] <= LoadWords(HashAddress)

\* gnu_hash_table and sysv_hash_table.
Fits(words) ==
  /\ words[1] # 0 /\ ChainWords(words) > 0
  /\ HashKind = "gnu" => words[3] # 0 /\ words[4] < HashBits /\ words[2] < Capacity
  /\ HashKind = "sysv" => words[2] <= Capacity /\ 2 + words[1] + words[2] <= LoadWords(HashAddress)

NewTable(words) ==
  [kind |-> HashKind, address |-> HashAddress, array |-> BucketArray(words), buckets |-> words[1],
   first |-> IF HashKind = "gnu" THEN words[2] ELSE 0,
   links |-> ChainWords(words),
   bloom |-> IF HashKind = "gnu" THEN words[3] ELSE 0,
   shift |-> IF HashKind = "gnu" THEN words[4] ELSE 0,
   symtab |-> Symtab, capacity |-> Capacity, strtab |-> Strtab, strsz |-> meta["strsz"]]

ReadHeader ==
  /\ pc = "header" /\ Mapped(HashAddress + at, 1)
  /\ LET words == Append(header, WordAt(HashAddress + at)) IN
       \/ /\ Len(words) < HeaderWords
          /\ header' = words /\ at' = at + 1
          /\ UNCHANGED <<memory, pc, meta, table, lookup, answer>>
       \/ Len(words) = HeaderWords /\ ~Fits(words) /\ Refuse("InvalidHash")
       \/ /\ Len(words) = HeaderWords /\ Fits(words)
          /\ pc' = "ready"
          /\ table' = NewTable(words)
          /\ UNCHANGED <<memory, at, meta, header, lookup, answer>>

-----------------------------------------------------------------------------
(* Lookups.                                                                *)

\* The accesses of a lookup: the first word, and how many.
BloomAddress  == table.address + 4 + ((lookup.hash \div WordBits) % table.bloom) * ClassWords
BucketAddress == table.address + table.array + (lookup.hash % table.buckets)
ChainAddress  == table.address + table.array + table.buckets + (lookup.index - table.first)
SymbolAddress == table.symtab + lookup.index * SymbolWords
NameAddress   == table.strtab + lookup.record[1].name

\* find, and export, which finds first.
Begin(name, export) ==
  /\ pc = "ready"
  /\ pc' = IF table.kind = "gnu" THEN "bloom" ELSE "bucket"
  /\ lookup' = [NoLookup EXCEPT !.name = name, !.export = export,
                  !.hash = IF table.kind = "gnu" THEN GnuHash[name] ELSE SysvHash[name]]
  /\ answer' = Pending
  /\ UNCHANGED <<memory, at, meta, header, table>>

HasBit(word, bit) == (word \div 2^bit) % 2 = 1

\* The word of the filter has the class's width, its first hash word is the low one.
InFilter(word, hash, shift) ==
  \A bit \in {hash % WordBits, (hash \div 2^shift) % WordBits} :
    HasBit(WordAt(word + bit \div HashBits), bit % HashBits)

ReadBloom ==
  /\ pc = "bloom" /\ Mapped(BloomAddress, ClassWords)
  /\ IF InFilter(BloomAddress, lookup.hash, table.shift) THEN GoOn("bucket", lookup)
     ELSE Return(Nothing)

\* symbol: the record of an index, if the table has it.
Symbol(position) ==
  IF position.index < table.capacity THEN GoOn("symbol", position) ELSE Refuse("SymbolOutsideTable")

\* Faulty: a chain is followed until it ends.
SysvForEver(index, steps) ==
  IF index = 0 THEN Return(Nothing)
  ELSE IF index >= table.links THEN Refuse("InvalidHash")
  ELSE Symbol([lookup EXCEPT !.index = index])

\* The head of a turn of the loop in sysv.
SysvTurn(index, steps) ==
  IF steps = table.links THEN Refuse("InvalidHash")
  ELSE IF index = 0 THEN Return(Nothing)
  ELSE IF index >= table.links THEN Refuse("InvalidHash")
  ELSE Symbol([lookup EXCEPT !.index = index, !.steps = steps + 1])

\* The head of a turn of the loop in chain.
GnuTurn(index) ==
  IF index - table.first < table.links THEN GoOn("chain", [lookup EXCEPT !.index = index])
  ELSE Refuse("InvalidHash")

ReadBucket ==
  /\ pc = "bucket" /\ Mapped(BucketAddress, 1)
  /\ LET index == WordAt(BucketAddress) IN
       CASE table.kind = "sysv" -> SysvTurn(index, 0)
         [] table.kind = "gnu" /\ index = 0 -> Return(Nothing)
         [] table.kind = "gnu" /\ index # 0 /\ index < table.first -> Refuse("InvalidHash")
         [] OTHER -> GnuTurn(index)

\* Faulty: the whole chain word is compared with the hash.
SameHashBits(word, hash) == word = hash

\* The low bit of a chain word ends the chain and is not part of the hash.
SameHash(word, hash) == word \div 2 = hash \div 2
Terminal(word) == word % 2 = 1

ReadChain ==
  /\ pc = "chain" /\ Mapped(ChainAddress, 1)
  /\ LET word == WordAt(ChainAddress) IN
       CASE table.kind = "sysv" -> SysvTurn(word, lookup.steps)
         [] table.kind = "gnu" /\ SameHash(word, lookup.hash) -> Symbol([lookup EXCEPT !.chain = word])
         [] table.kind = "gnu" /\ ~SameHash(word, lookup.hash) /\ Terminal(word) -> Return(Nothing)
         [] OTHER -> GnuTurn(lookup.index + 1)

\* symbol: the record, whose name must begin inside the string table.
ReadSymbol ==
  /\ pc = "symbol" /\ lookup.index < Len(contents.symbols)
  /\ LET record == contents.symbols[lookup.index + 1] IN
       IF record.name < table.strsz THEN GoOn("name", [lookup EXCEPT !.record = <<record>>])
       ELSE Refuse("InvalidNameOffset")

\* Symbol::location and Export::new.  An undefined, common or extended symbol is "unplaced".
Address(record) == IF record.section = "absolute" THEN record.value ELSE image.bias + record.value

Exported(record) ==
  IF record.section = "unplaced" \/ record.type = "tls" THEN Nothing
  ELSE IF Address(record) >= AddressLimit THEN Error("AddressOverflow")
  ELSE IF record.type = "object" /\ record.visible THEN [kind |-> "export", address |-> Address(record)]
  ELSE Nothing

\* name_bytes and the comparison; a symbol of another name sends the lookup along its chain.
ReadName ==
  /\ pc = "name" /\ lookup.record[1].name \in DOMAIN contents.strings
  /\ LET name == contents.strings[lookup.record[1].name] IN
       CASE name = BadName -> Refuse("MissingNameTerminator")
         [] name = lookup.name ->
              Return(IF lookup.export THEN Exported(lookup.record[1])
                     ELSE [kind |-> "found", index |-> lookup.index])
         [] name \notin {BadName, lookup.name} ->
              IF table.kind = "sysv" THEN GoOn("chain", lookup)
              ELSE IF Terminal(lookup.chain) THEN Return(Nothing)
              ELSE GnuTurn(lookup.index + 1)

\* An access to memory that is not there.
AccessFails ==
  /\ \/ pc = "header" /\ ~Mapped(HashAddress + at, 1)
     \/ pc = "bloom"  /\ ~Mapped(BloomAddress, ClassWords)
     \/ pc = "bucket" /\ ~Mapped(BucketAddress, 1)
     \/ pc = "chain"  /\ ~Mapped(ChainAddress, 1)
     \/ pc = "symbol" /\ lookup.index >= Len(contents.symbols)
     \/ pc = "name"   /\ lookup.record[1].name \notin DOMAIN contents.strings
  /\ Refuse("Access")

-----------------------------------------------------------------------------
Init ==
  /\ \E start \in Images : image = start.image /\ contents = start.contents
  /\ changed = FALSE
  /\ pc = "entry" /\ at = 0
  /\ meta = NoMeta /\ header = <<>> /\ table = NoTable
  /\ lookup = NoLookup /\ answer = Pending

\* The process replaces or unmaps what the image holds.
Change ==
  /\ contents' \in Becomes(image) \ {contents}
  /\ changed' = TRUE
  /\ UNCHANGED <<image, pc, at, meta, header, table, lookup, answer>>

Read ==
  \/ ReadEntry \/ EntryFails \/ EndOfEntries
  \/ ReadHeader
  \/ ReadBloom \/ ReadBucket \/ ReadChain \/ ReadSymbol \/ ReadName
  \/ AccessFails

Next ==
  \/ Read
  \/ \E name \in Names, export \in BOOLEAN : Begin(name, export)
  \/ Change

\* The construction and a lookup are loops of one thread; the process may write for ever.
Fairness == WF_vars(Read)

Spec == Init /\ [][Next]_vars /\ Fairness

-----------------------------------------------------------------------------
(* Properties.                                                             *)

\* The state has its types.
TypeOK ==
  /\ changed \in BOOLEAN
  /\ pc \in Building \cup LookingUp \cup {"ready", "failed"}
  /\ at \in Nat /\ meta \in [Fields -> Nat \cup {None}] /\ header \in Seq(Nat)
  /\ table # NoTable =>
       table.kind \in {"gnu", "sysv"} /\ table.buckets \in Nat \ {0} /\ table.links \in Nat \ {0}
  /\ lookup.name \in Names \cup {BadName} /\ lookup.index \in Nat /\ lookup.steps \in Nat
  /\ answer.kind \in {"pending", "error", "none", "found", "export"}

\* The string of a symbol record, as the memory has it now.
NameOf(index) == contents.strings[contents.symbols[index + 1].name]

\* What the entries before the first terminator say.
Entries ==
  {contents.dynamic[i] : i \in {j \in DOMAIN contents.dynamic :
                                  \A k \in 1 .. j : contents.dynamic[k].tag # "null"}}
Said(f)  == \E e \in Entries : e.tag = f
Value(f) == (CHOOSE e \in Entries : e.tag = f).value

-----------------------------------------------------------------------------
(* What a linker builds, and a loader relocates or not.                    *)

DynamicBuilt ==
  /\ \E i \in DOMAIN contents.dynamic : i <= image.entries /\ contents.dynamic[i].tag = "null"
  /\ \A d, e \in Entries : d.tag = e.tag /\ d.tag \in Fields => d.value = e.value
  /\ \A f \in {"strtab", "strsz", "symtab", "syment"} : Said(f)
  /\ Said("hash") \/ Said("gnu_hash")
  /\ Value("syment") = SymbolWords

Strings     == Resolve(Value("strtab"))
Symbols     == Resolve(Value("symtab"))
Hashes      == Resolve(Value(IF Said("gnu_hash") THEN "gnu_hash" ELSE "hash"))
SymbolCount == Len(contents.symbols)

\* The three tables lie in load segments.
TablesBuilt ==
  /\ None \notin {Strings, Symbols, Hashes}
  /\ Value("strsz") <= LoadWords(Strings)
  /\ SymbolCount > 0 /\ SymbolCount * SymbolWords <= LoadWords(Symbols)

NameBuilt(index) ==
  LET record == contents.symbols[index + 1]
  IN /\ record.name < Value("strsz") /\ record.name \in DOMAIN contents.strings
     /\ NameOf(index) \in Names \ {BadName}

Cell(k) == WordAt(Hashes + k)

\* A bit of the filter word that begins in a cell; the low hash word of it comes first.
IsSet(cell, bit) ==
  \E half \in 0 .. ClassWords - 1, low \in 0 .. HashBits - 1 :
    bit = half * HashBits + low /\ HasBit(Cell(cell + half), low)

\* Symbols from first on are sorted by bucket; the chain word of the last one of a bucket is
\* odd; the filter has both bits of every symbol.
GnuBuilt ==
  LET buckets == Cell(0)
      first   == Cell(1)
      bloom   == Cell(2)
      shift   == Cell(3)
      array   == 4 + bloom * ClassWords
      Covered == first .. SymbolCount - 1
      Hash(index) == GnuHash[NameOf(index)]
      In(b)   == {index \in Covered : Hash(index) % buckets = b}
      Chain(index) == Cell(array + buckets + (index - first))
  IN /\ Mapped(Hashes, 4) /\ buckets # 0 /\ bloom # 0 /\ shift < HashBits
     /\ first \in 1 .. SymbolCount /\ first < LoadWords(Symbols) \div SymbolWords
     /\ Mapped(Hashes, array + buckets + (SymbolCount - first))
     /\ array + buckets + (SymbolCount - first) <= LoadWords(Hashes)
     /\ array + buckets < LoadWords(Hashes)
     /\ \A index \in Covered :
          /\ NameBuilt(index)
          /\ \A bit \in {Hash(index) % WordBits, (Hash(index) \div 2^shift) % WordBits} :
               IsSet(4 + ((Hash(index) \div WordBits) % bloom) * ClassWords, bit)
     /\ \A b \in 0 .. buckets - 1 :
          \/ Cell(array + b) = 0 /\ In(b) = {}
          \/ \E last \in Covered :
               /\ Cell(array + b) \in Covered /\ In(b) = Cell(array + b) .. last /\ In(b) # {}
               /\ \A index \in In(b) : /\ Chain(index) \div 2 = Hash(index) \div 2
                                       /\ Chain(index) % 2 = 1 <=> index = last

\* Every symbol is on the chain of its bucket, which passes none twice and ends in 0.
SysvBuilt ==
  LET buckets == Cell(0)
      Link(index) == Cell(2 + buckets + index)
  IN /\ Mapped(Hashes, 2) /\ buckets # 0 /\ Cell(1) = SymbolCount
     /\ Mapped(Hashes, 2 + buckets + SymbolCount) /\ 2 + buckets + SymbolCount <= LoadWords(Hashes)
     /\ \A index \in 1 .. SymbolCount - 1 : NameBuilt(index)
     /\ \A b \in 0 .. buckets - 1 :
          \E length \in 0 .. SymbolCount - 1 : \E chain \in [1 .. length -> 1 .. SymbolCount - 1] :
            /\ Cell(2 + b) = IF length = 0 THEN 0 ELSE chain[1]
            /\ \A k \in 1 .. length : Link(chain[k]) = IF k = length THEN 0 ELSE chain[k + 1]
            /\ \A index \in 1 .. SymbolCount - 1 :
                 SysvHash[NameOf(index)] % buckets = b => \E k \in 1 .. length : chain[k] = index

Built ==
  /\ DynamicBuilt
  /\ TablesBuilt
  /\ IF Said("gnu_hash") THEN GnuBuilt ELSE SysvBuilt

-----------------------------------------------------------------------------

\* A linear search of the symbols that the hash table covers.
Bearers(name) ==
  {i \in 1 .. Len(contents.symbols) - 1 : i >= table.first /\ NameOf(i) = name}

\* What a linear search answers; of several symbols of a name, any may be the answer.
IsAnswer(name, export, result) ==
  \/ Bearers(name) = {} /\ result = Nothing
  \/ \E index \in Bearers(name) :
       result = IF export THEN Exported(contents.symbols[index + 1])
                ELSE [kind |-> "found", index |-> index]

\* While the memory stays as it was, a table that a linker built is accepted and serves every
\* lookup with what a linear search of its symbols finds (find, dynamic.rs:399; export,
\* dynamic.rs:419), whichever hash table, bias and kind of pointer it has.
LookupExact ==
  /\ pc = "failed" => changed \/ ~Built
  /\ pc = "ready" /\ answer # Pending /\ ~changed /\ Built =>
       IsAnswer(lookup.name, lookup.export, answer)

\* The next access lies behind a base, inside the load segment that holds the base.
Inside(base, address, words) ==
  base <= address /\ address + words <= base + LoadWords(base)

\* Whatever buckets, chains and symbol records say, and however they changed since the
\* table was validated (the invariant at dynamic.rs:182), a lookup touches nothing outside
\* the load segments of its three tables.
ReadsInside ==
  /\ pc = "bloom"  => Inside(table.address, BloomAddress, ClassWords)
  /\ pc = "bucket" => Inside(table.address, BucketAddress, 1)
  /\ pc = "chain"  => Inside(table.address, ChainAddress, 1)
  /\ pc = "symbol" => Inside(table.symtab, SymbolAddress, SymbolWords)
  /\ pc = "name"   => Inside(table.strtab, NameAddress, 1)

\* The metadata behind a table are what every entry before the first terminator says
\* (metadata and unique, dynamic.rs:318, 987), as long as the table did not change.
MetadataAgrees ==
  ~changed /\ pc \notin {"entry", "failed"} =>
    \A f \in Fields :
      IF meta[f] = None THEN ~Said(f) ELSE \A e \in Entries : e.tag = f => e.value = meta[f]

\* The construction ends, and so does every lookup: chains that were made circular, or that
\* change under the walk, do not hold it (dynamic.rs:470, 662).
WalksEnd == pc \in Building \cup LookingUp ~> pc \in {"ready", "failed"}
=============================================================================
