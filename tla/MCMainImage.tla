---------------------------- MODULE MCMainImage -----------------------------
(* Images as linkers and kernels lay them out, at several biases, and images *)
(* that break one rule each.  A class word has six or seven bits.            *)
EXTENDS LoadedImage, TLC

MCWordLimit   == "Elf32" :> 64 @@ "Elf64" :> 128
MCHeaderBytes == "Elf32" :> 2 @@ "Elf64" :> 3
MCEntryBytes  == "Elf32" :> 1 @@ "Elf64" :> 2
MCBasename    == "Elf32" :> "ld-linux.so.2" @@ "Elf64" :> "ld-linux-x86-64.so.2"

GnuWord == 9

-----------------------------------------------------------------------------
(* Notes.                                                                  *)

Note(label, kind, size, words) == [label |-> <<label>>, kind |-> kind, size |-> size, words |-> words]
BuildIdNote == Note(GnuWord, 3, 5, <<6, 7>>)
Property    == Note(GnuWord, 5, 4, <<8>>)
Stapsdt     == Note(8, 3, 4, <<5>>)
Empty       == Note(GnuWord, 3, 0, <<>>)

\* A record as an assembler writes it, with a name of some size.
Encode(note, name) == <<name, note.size, note.kind>> \o note.label \o note.words

Encoded(notes, name) == FoldLeft(LAMBDA words, note : words \o Encode(note, name), <<>>, notes)

\* One segment of an image: its notes, the padding behind them, and the bytes it lacks.
Notes4(notes)      == [notes |-> notes, name |-> 4, zeros |-> 0, cut |-> 0]
SegmentWords(s)    == Encoded(s.notes, s.name) \o [i \in 1 .. s.zeros |-> 0]
SegmentSize(s)     == 4 * Len(SegmentWords(s)) - s.cut

\* What its linker was given.
Given(s) ==
  [notes |-> [n \in DOMAIN s.notes |->
                s.notes[n] @@ [at |-> 4 * Len(Encoded(SubSeq(s.notes, 1, n - 1), s.name)), name |-> s.name]],
   whole |-> s.cut = 0]

-----------------------------------------------------------------------------
(* Images.                                                                 *)

Path64 == <<"/", "ld-linux-x86-64.so.2", "NUL">>
Path32 == <<"ld-linux.so.2", "NUL">>
PathOf(c) == IF c = "Elf64" THEN Path64 ELSE Path32

Kinds == <<"phdr", "interp", "load", "dynamic">>
Table4 == <<"other", "debug", "other", "null">>

\* A program is described by what differs from a position-independent one.
Plain(c, bias) ==
  [class |-> c, bias |-> bias, first |-> 0, kinds |-> Kinds, path |-> PathOf(c), tags |-> Table4,
   segments |-> <<>>, patch |-> [k \in {} |-> 0], vector |-> [t \in {} |-> 0], elf |-> [k \in {} |-> 0],
   holes |-> {}]

TableStart(d) == d.first + 1
PathStart(d)  == TableStart(d) + Len(d.kinds) * MCHeaderBytes[d.class]
TagStart(d)   == PathStart(d) + Len(d.path)
NoteStart(d, k) ==
  TagStart(d) + Len(d.tags) * MCEntryBytes[d.class] + FoldLeft(LAMBDA n, s : n + 4 * Len(SegmentWords(s)), 0, SubSeq(d.segments, 1, k - 1))
End(d) == NoteStart(d, Len(d.segments) + 1)

\* The k-th note header describes the k-th segment.
NoteOf(d, i) == Cardinality({j \in 1 .. i : d.kinds[j] = "note"})

HeaderOf(d, i) ==
  LET kind == d.kinds[i]
      start == CASE kind = "phdr" -> TableStart(d) [] kind = "interp" -> PathStart(d)
                 [] kind = "dynamic" -> TagStart(d) [] kind = "note" -> NoteStart(d, NoteOf(d, i))
                 [] OTHER -> d.first
      size  == CASE kind = "phdr" -> PathStart(d) - TableStart(d) [] kind = "interp" -> Len(d.path)
                 [] kind = "dynamic" -> Len(d.tags) * MCEntryBytes[d.class]
                 [] kind = "note" -> SegmentSize(d.segments[NoteOf(d, i)])
                 [] OTHER -> End(d) - d.first
  IN (IF kind \in DOMAIN d.patch THEN d.patch[kind] ELSE [k \in {} |-> 0]) @@
     [cell |-> "header", kind |-> kind, address |-> start, file |-> size, memory |-> size,
      flags |-> IF kind = "load" THEN {"r", "x"} ELSE {"r"}]

MemoryOf(d) ==
  LET At(v, cells) == [a \in d.bias + v .. d.bias + v + Len(cells) - 1 |-> cells[a - d.bias - v + 1]]
      Spread(v, stride, cells) ==
        [a \in {d.bias + v + (i - 1) * stride : i \in DOMAIN cells} |-> cells[(a - d.bias - v) \div stride + 1]]
      NoteCells(k) == [b \in 1 .. 4 * Len(SegmentWords(d.segments[k])) |->
                         [cell |-> "word", value |-> SegmentWords(d.segments[k])[(b + 3) \div 4]]]
      All == Spread(d.first, 1, <<d.elf @@ [cell |-> "elf", class |-> d.class, little |-> TRUE, offset |-> 1,
                                           stride |-> MCHeaderBytes[d.class], count |-> Len(d.kinds)]>>)
             @@ Spread(TableStart(d), MCHeaderBytes[d.class], [i \in DOMAIN d.kinds |-> HeaderOf(d, i)])
             @@ At(PathStart(d), [i \in DOMAIN d.path |-> [cell |-> "byte", value |-> d.path[i]]])
             @@ Spread(TagStart(d), MCEntryBytes[d.class],
                       [i \in DOMAIN d.tags |-> [cell |-> "entry", tag |-> d.tags[i], value |-> 0]])
             @@ FoldLeft(LAMBDA m, k : m @@ At(NoteStart(d, k), NoteCells(k)), [a \in {} |-> 0],
                         [k \in DOMAIN d.segments |-> k])
  IN [a \in (DOMAIN All \cap 0 .. HostLimit - 1) \ d.holes |-> All[a]]

AuxiliaryOf(d) ==
  d.vector @@ [AT_PHDR |-> <<d.bias + TableStart(d)>>, AT_PHNUM |-> <<Len(d.kinds)>>,
               AT_PHENT |-> <<MCHeaderBytes[d.class]>>]

\* musl fills every DT_DEBUG entry before the terminator, glibc the only one there is.
DebugOf(d) ==
  LET Before(i) == \A j \in 1 .. i : d.tags[j] # "null"
  IN {d.bias + TagStart(d) + (i - 1) * MCEntryBytes[d.class] :
        i \in {j \in DOMAIN d.tags : d.tags[j] = "debug" /\ Before(j)}} \ d.holes

NotesOf(d) ==
  LET Holds(i) == d.kinds[i] = "note" /\ SegmentSize(d.segments[NoteOf(d, i)]) # 0
  IN [i \in {j \in DOMAIN d.kinds : Holds(j)} |-> Given(d.segments[NoteOf(d, i)])]

-----------------------------------------------------------------------------
Pie  == Plain("Elf64", 40)
Pie32 == Plain("Elf32", 16)

WithNotes(segments) ==
  [Pie EXCEPT !.segments = segments, !.kinds = Kinds \o [k \in DOMAIN segments |-> "note"]]

Sound ==
  <<Pie, Pie32, [Pie EXCEPT !.path = <<"/", "usr", "/">> \o Path64, !.bias = 30],
    [Pie32 EXCEPT !.bias = 0], [Pie EXCEPT !.bias = 103, !.kinds = <<"load", "dynamic", "interp", "phdr">>],
    [Pie EXCEPT !.bias = 0, !.first = 24, !.elf = "offset" :> 1],
    WithNotes(<<Notes4(<<BuildIdNote>>)>>),
    WithNotes(<<Notes4(<<Property, BuildIdNote>>)>>),
    WithNotes(<<Notes4(<<Property>>), [Notes4(<<BuildIdNote>>) EXCEPT !.zeros = 2]>>),
    WithNotes(<<[Notes4(<<BuildIdNote, Stapsdt>>) EXCEPT !.name = 3]>>),
    [WithNotes(<<Notes4(<<BuildIdNote>>), Notes4(<<>>)>>) EXCEPT !.bias = 27],
    WithNotes(<<Notes4(<<Stapsdt>>)>>)>>

BadNotes ==
  <<WithNotes(<<Notes4(<<BuildIdNote, BuildIdNote>>)>>),
    [WithNotes(<<Notes4(<<BuildIdNote>>), Notes4(<<Property, BuildIdNote>>)>>) EXCEPT !.bias = 27],
    WithNotes(<<Notes4(<<Property, Empty>>)>>),
    WithNotes(<<[Notes4(<<BuildIdNote>>) EXCEPT !.cut = 2]>>),
    WithNotes(<<[Notes4(<<Property, BuildIdNote>>) EXCEPT !.cut = 10]>>)>>

Patched(kind, field, value) == [Pie EXCEPT !.patch = kind :> (field :> value)]
Auxiliaries(type, values) == [Pie EXCEPT !.vector = type :> values]
Elf(field, value) == [Pie EXCEPT !.elf = field :> value]

Broken ==
  <<[Pie EXCEPT !.kinds = Append(Kinds, "phdr")], [Pie EXCEPT !.kinds = Append(Kinds, "interp")],
    [Pie EXCEPT !.kinds = Append(Kinds, "dynamic"), !.patch = "load" :> ("file" :> 1)],
    [Pie EXCEPT !.kinds = Tail(Kinds)], [Pie EXCEPT !.kinds = <<"phdr", "load", "dynamic">>],
    [Pie EXCEPT !.kinds = Front(Kinds)],
    Patched("phdr", "address", 50), Patched("interp", "file", 0), Patched("interp", "memory", 2),
    Patched("interp", "file", 2), Patched("dynamic", "memory", 7), Patched("dynamic", "address", 90),
    [Pie32 EXCEPT !.patch = "dynamic" :> ("address" :> 50)],
    [Pie32 EXCEPT !.patch = "interp" :> ("address" :> 100)],
    [Patched("dynamic", "file", 7) EXCEPT !.patch["dynamic"] = [file |-> 7, memory |-> 7]],
    [Patched("dynamic", "file", 0) EXCEPT !.patch["dynamic"] = [file |-> 0, memory |-> 0]],
    [Pie EXCEPT !.path = <<"/", "NUL", "ld-linux-x86-64.so.2", "NUL">>],
    [Pie EXCEPT !.path = <<"/", "ld-linux-x86-64.so.2">>], [Pie EXCEPT !.path = <<"/", "ld-musl", "NUL">>],
    [Pie EXCEPT !.path = Path32], [Pie EXCEPT !.path = <<"x", "ld-linux-x86-64.so.2", "NUL">>],
    [Pie EXCEPT !.path = <<"NUL">>],
    [Pie EXCEPT !.tags = <<"other", "debug", "debug", "null">>],
    [Pie EXCEPT !.tags = <<"other", "null", "debug", "null">>], [Pie EXCEPT !.tags = <<"other", "debug">>],
    [Pie EXCEPT !.holes = {54}], [Pie EXCEPT !.holes = {44}], [Pie EXCEPT !.holes = {58}],
    [Pie EXCEPT !.bias = 112, !.kinds = <<"phdr", "interp", "dynamic">>, !.patch = "interp" :> ("address" :> 15)],
    Auxiliaries("AT_PHDR", <<>>), Auxiliaries("AT_PHDR", <<41, 41>>), Auxiliaries("AT_PHDR", <<20>>),
    [Pie32 EXCEPT !.vector = "AT_PHDR" :> <<64>>], [Pie32 EXCEPT !.vector = "AT_PHDR" :> <<62>>],
    Auxiliaries("AT_PHNUM", <<0>>), Auxiliaries("AT_PHNUM", <<>>), Auxiliaries("AT_PHNUM", <<5>>),
    Auxiliaries("AT_PHENT", <<3, 3>>), Auxiliaries("AT_PHENT", <<>>), Auxiliaries("AT_PHENT", <<4>>),
    Elf("class", "Elf32"), Elf("little", FALSE), Elf("stride", 2), Elf("count", 0), Elf("offset", 120),
    Elf("count", 5), Elf("offset", 4),
    Patched("load", "file", 100), Patched("load", "memory", 100),
    [Patched("load", "file", 0) EXCEPT !.patch["load"] = [file |-> 90, memory |-> 90]],
    [WithNotes(<<Notes4(<<BuildIdNote>>)>>) EXCEPT !.patch = "note" :> ("address" :> 95)],
    [WithNotes(<<Notes4(<<BuildIdNote>>)>>) EXCEPT !.patch = "note" :> ("address" :> 70)]>>

Descriptions == Sound \o BadNotes \o Broken

Program(d) == [auxiliary |-> AuxiliaryOf(d), memory |-> MemoryOf(d), debug |-> DebugOf(d), notes |-> NotesOf(d)]

MCPrograms == {Program(d) : d \in {Descriptions[k] : k \in DOMAIN Descriptions}}

\* The notes of every image that breaks no other rule lie as an assembler writes them.
MCInit ==
  /\ AllInit
  /\ \A d \in {(Sound \o BadNotes)[k] : k \in DOMAIN (Sound \o BadNotes)} :
       d.first = 0 /\ program = Program(d) => Assert(NotesLie(d.class, d.bias), d)

MCSpec == MCInit /\ [][AllNext]_allvars /\ WF_allvars(Capture /\ UNCHANGED loaded)
=============================================================================
