---------------------------- MODULE MCElfDynamic ----------------------------
(* Hash tables as a linker builds them, and what may become of them.  Hash   *)
(* words have four bits, class words and symbol records two hash words.      *)
EXTENDS ElfDynamic, FiniteSetsExt, TLC

MCNames == {"a", "b", "c", "d"}
\* c differs from a in the low bit only, d shares its bucket and its filter bits with both.
MCGnuHash  == "a" :> 2 @@ "b" :> 5 @@ "c" :> 3 @@ "d" :> 10
MCSysvHash == "a" :> 1 @@ "b" :> 2 @@ "c" :> 3 @@ "d" :> 5

\* Symbols at 0, strings at 10, the hash table at 14, in two segments; a third overflows.
HashAt == 14
Loads(end) == <<[address |-> 0, size |-> 8], [address |-> 10, size |-> end - 10],
                [address |-> 58, size |-> 9]>>

Record(name, section, type, visible, value) ==
  [name |-> name, section |-> section, type |-> type, visible |-> visible, value |-> value]

Undefined == Record(0, "unplaced", "object", FALSE, 0)
Plain(name) == Record(name, "relative", "object", TRUE, name)
Records == {<<Undefined, Plain(1), Plain(2), Plain(3)>>,
            <<Undefined, Record(1, "relative", "object", TRUE, 40), Record(2, "absolute", "object", TRUE, 9),
              Record(3, "relative", "tls", TRUE, 2)>>,
            <<Undefined, Record(1, "relative", "ifunc", TRUE, 3), Record(2, "relative", "object", FALSE, 2),
              Record(3, "unplaced", "object", TRUE, 2)>>}

StringsOf(order) == 0 :> "" @@ 1 :> order[1] @@ 2 :> order[2] @@ 3 :> order[3]

At(address, seq) == [a \in address .. address + Len(seq) - 1 |-> seq[a - address + 1]]

\* A GNU table over order[first ..], sorted by bucket; the low bits of a hash word are first.
GnuWords(order, first, buckets, bloom, shift) ==
  LET Covered == first .. 3
      Hash(i) == MCGnuHash[order[i]]
      Bits(k) == UNION {{Hash(i) % 8, (Hash(i) \div 2^shift) % 8} :
                          i \in {j \in Covered : (Hash(j) \div 8) % bloom = k}}
      FilterWord(k, half) == SumSet({2^(b - 4 * half) : b \in Bits(k) \cap 4 * half .. 4 * half + 3})
      In(b) == {i \in Covered : Hash(i) % buckets = b}
  IN <<buckets, first, bloom, shift>>
     \o [i \in 1 .. 2 * bloom |-> FilterWord((i - 1) \div 2, (i - 1) % 2)]
     \o [b \in 1 .. buckets |-> IF In(b - 1) = {} THEN 0 ELSE Min(In(b - 1))]
     \o [k \in 1 .. 4 - first |->
           LET i == first + k - 1
           IN 2 * (Hash(i) \div 2) + (IF i = Max(In(Hash(i) % buckets)) THEN 1 ELSE 0)]

SysvWords(order, buckets) ==
  LET In(b) == {i \in 1 .. 3 : MCSysvHash[order[i]] % buckets = b}
      Behind(i) == {j \in In(MCSysvHash[order[i]] % buckets) : j > i}
  IN <<buckets, 4>>
     \o [b \in 1 .. buckets |-> IF In(b - 1) = {} THEN 0 ELSE Min(In(b - 1))]
     \o <<0>> \o [i \in 1 .. 3 |-> IF Behind(i) = {} THEN 0 ELSE Min(Behind(i))]

Tag(tag, value) == [tag |-> tag, value |-> value]

\* A dynamic table; pointers are relocated or not.
Dynamic(kind, base, extra) ==
  <<Tag("strtab", base + 10), Tag("strsz", 4), Tag("symtab", base), Tag("syment", 2), Tag("other", 1)>>
  \o extra \o <<Tag(kind, base + HashAt), Tag("null", 0), Tag("strsz", 3)>>

Contents(dynamic, words, symbols, strings) ==
  [dynamic |-> dynamic, words |-> words, symbols |-> symbols, strings |-> strings]

\* An image: bias, end of the segment of the hash table.
Image(bias, end, initial) ==
  [image |-> [bias |-> bias, loads |-> Loads(end), entries |-> 9, moving |-> FALSE],
   contents |-> initial]

\* bias, and base of the pointers in memory.  With a small bias relocation cannot be guessed.
Placements == {<<0, 0>>, <<4, 4>>, <<27, 27>>, <<27, 0>>}

Tables ==
  {<<"gnu_hash", <<"a", "c", "b">>, GnuWords(<<"a", "c", "b">>, 1, 2, 1, 1), p>> : p \in Placements}
  \cup {<<"gnu_hash", <<"a", "b", "c">>, GnuWords(<<"a", "b", "c">>, 2, 1, 2, 2), <<27, 27>>>>,
        <<"gnu_hash", <<"d", "a", "b">>, GnuWords(<<"d", "a", "b">>, 1, 2, 1, 3), <<0, 0>>>>}
  \cup {<<"hash", <<"a", "b", "c">>, SysvWords(<<"a", "b", "c">>, 2), p>> : p \in Placements}
  \cup {<<"hash", <<"a", "b", "d">>, SysvWords(<<"a", "b", "d">>, 1), <<27, 27>>>>}

\* Where the segment ends, with no word to spare.
EndOf(words) == HashAt + Len(words)

Sound ==
  {LET base == t[4][2] bias == t[4][1]
   IN Image(bias, EndOf(t[3]),
            Contents(Dynamic(t[1], base, <<Tag("strsz", 4)>>), At(bias + HashAt, t[3]), r, StringsOf(t[2]))) : t \in Tables, r \in Records}

\* One word of the table replaced, the table unmapped from an address on.
Scribbles(c, values) == {[c EXCEPT !.words[a] = v] : a \in DOMAIN c.words, v \in values}
Truncated(c, end) == [c EXCEPT !.words = [a \in {x \in DOMAIN c.words : x < end} |-> c.words[a]]]

Chosen == {i \in Sound : i.image.bias = 27 /\ i.contents.symbols[3] = Plain(2)}

Broken(i) ==
  {[i EXCEPT !.contents = c] : c \in Scribbles(i.contents, {0, 1, 3, 4, 9})}

\* Names that cannot be read, a short symbol table, other metadata, less memory.
Variants(i) ==
  LET c == i.contents
      kind == c.dynamic[7].tag
      base == c.dynamic[3].value
      With(changes) == [i EXCEPT !.contents = changes]
      Without(k) == SubSeq(c.dynamic, 1, k - 1) \o SubSeq(c.dynamic, k + 1, 9)
  IN {With([c EXCEPT !.strings[2] = BadName]),
      With([c EXCEPT !.symbols[3].name = 4]),
      With([c EXCEPT !.symbols = SubSeq(@, 1, 2)]),
      With([c EXCEPT !.strings = 0 :> "" @@ 1 :> "a"]),
      With(Truncated(c, i.image.bias + HashAt + 1)),
      With(Truncated(c, i.image.bias + HashAt + 5)),
      [i EXCEPT !.image.loads[2].size = @ - 1],
      [i EXCEPT !.image.loads[2].size = 6],
      [i EXCEPT !.image.loads[1].size = 1],
      [i EXCEPT !.image.loads[1].size = 4],
      [i EXCEPT !.image.entries = 7]}
     \cup {With([c EXCEPT !.dynamic = d]) :
             d \in {SubSeq(c.dynamic, 1, 5), Dynamic(kind, base, <<Tag("strsz", 3)>>),
                    Dynamic(kind, base, <<Tag("hash", base + 2)>>),
                    Dynamic(kind, base, <<Tag("gnu_hash", 60)>>), Dynamic("other", base, <<>>)}
                   \cup {Without(k) : k \in {1, 2, 3, 4}}
                   \cup {[c.dynamic EXCEPT ![k].value = 30] : k \in {1, 2, 3, 4, 7}}}

\* Two images move: the chains become circular, indices leave the tables, everything goes.
Moving == {[i EXCEPT !.image.moving = TRUE] : i \in {x \in Chosen : x.contents.dynamic[3].value = 27}}

Later(i) ==
  LET c == i.contents  first == i.image.bias + HashAt
  IN {c, Truncated(c, 0), [c EXCEPT !.dynamic[6] = Tag("strsz", 3)]}
     \cup {[c EXCEPT !.words[a] = 1] : a \in {x \in DOMAIN c.words : x > first + 2}}
     \cup {[c EXCEPT !.words[a] = 9] : a \in {first, Max(DOMAIN c.words)}}

Moves == {<<i.image, Later(i)>> : i \in Moving}

MCBecomes(img) == UNION {move[2] : move \in {m \in Moves : m[1] = img}}

\* An image with an empty dynamic table: no access at all.
Unterminated ==
  [image |-> [bias |-> 0, loads |-> <<>>, entries |-> 0, moving |-> FALSE],
   contents |-> Contents(<<>>, <<>>, <<>>, <<>>)]

MCImages == {Unterminated} \cup Sound \cup Moving \cup UNION {Variants(i) \cup Broken(i) : i \in Chosen}

\* Every table that is laid out above is what a linker builds.
MCInit ==
  /\ Init
  /\ [image |-> image, contents |-> contents] \in Sound => Assert(Built, "a sound table is not built")
=============================================================================
