---------------------------- MODULE LoadedImage -----------------------------
(***************************************************************************)
(* What is read of an image through its own ELF header once a capture has  *)
(* proven where it lies: the program table that the header describes, the  *)
(* executable ranges and the dynamic range in it                           *)
(* (ganymede-elf/src/loaded.rs), and then either the entry into its        *)
(* dynamic symbols, which ElfDynamic takes up (process.rs, dynamic.rs), or *)
(* its GNU build identifier out of its note segments (note.rs).            *)
(*                                                                         *)
(* A note segment is made of words of four bytes; the four addresses of a  *)
(* word hold the same cell.                                                *)
(***************************************************************************)
EXTENDS ProcessImage, SequencesExt, FiniteSetsExt

CONSTANT Gnu  \* the word that reads "GNU" and NUL

BuildIdType == 3
WordBytes   == 4

VARIABLE loaded  \* the reading: step, use, programs, note segment, bytes of it, next note, identifier

allvars == <<vars, loaded>>

NoId == [size |-> 0, words |-> <<>>]

Idle == [step |-> "idle", use |-> "none", programs |-> <<>>, segment |-> 1, got |-> 0, next |-> 0,
         id |-> NoId, failure |-> NoFault]

Fail(failure) == loaded' = [loaded EXCEPT !.step = "failed", !.failure = failure]

-----------------------------------------------------------------------------
(* LoadedImage::read.                                                      *)

ElfHeader == program.memory[image.bias]

HeaderFault ==
  IF ~Mapped(image.bias) THEN "ForeignAccess"
  ELSE IF \/ ~Holding(image.bias, "elf")
          \/ ElfHeader.class # class \/ ~ElfHeader.little THEN "Identity"
  ELSE IF ElfHeader.stride # HeaderBytes[class] THEN "ProgramHeaderSize"
  ELSE IF ElfHeader.count = 0 THEN "ProgramHeaderCount"
       ELSE NoFault

\* The holder of an image asks for its dynamic symbols, anyone who has a bias for the build
\* identifier; both begin with the header at the load bias.
ReadHeader(use) ==
  /\ \/ route = "facade" /\ pc \in Proven
     \/ pc = "done" /\ use = "build_id"
  /\ loaded.step = "idle"
  /\ \/ HeaderFault # NoFault
        /\ loaded' = [loaded EXCEPT !.step = "failed", !.use = use, !.failure = HeaderFault]
     \/ HeaderFault = NoFault /\ loaded' = [loaded EXCEPT !.step = "programs", !.use = use]
  /\ UNCHANGED vars

ProgramOffset == CheckedAdd(ElfHeader.offset, Len(loaded.programs) * HeaderBytes[class])
ProgramAddress == IF ProgramOffset = None THEN None ELSE Translate(image.bias, ProgramOffset)

\* One turn of the loop in programs.
CopyProgram ==
  /\ loaded.step = "programs" /\ Len(loaded.programs) < program.memory[image.bias].count
  /\ \/ ProgramAddress = None /\ Fail("AddressOverflow")
     \/ ProgramAddress # None /\ ~Mapped(ProgramAddress) /\ Fail("ForeignAccess")
     \/ /\ ProgramAddress # None /\ Mapped(ProgramAddress)
        /\ loaded' = [loaded EXCEPT !.programs = Append(@, Header(ProgramAddress))]
  /\ UNCHANGED vars

\* LoadBias::range; the end, too, must be a word of the class.
RangeFits(header, extent) ==
  Translate(image.bias, header.address) # None /\ image.bias + header.address + extent < WordLimit[class]

Executable(header) == header.kind = "load" /\ "x" \in header.flags /\ header.file # 0

\* executables: the first load record that ends the loop.
ExecutablesFault ==
  LET Bad(h) == h.kind = "load" /\ (h.file > h.memory \/ (Executable(h) /\ ~RangeFits(h, h.file)))
      first == loaded.programs[SelectInSeq(loaded.programs, Bad)]
  IN IF ~\E i \in DOMAIN loaded.programs : Bad(loaded.programs[i]) THEN NoFault
     ELSE IF first.file > first.memory THEN "FileExceedsMemory" ELSE "AddressOverflow"

\* executable_segments: where each begins and ends.
Executables ==
  {<<image.bias + loaded.programs[i].address, image.bias + loaded.programs[i].address + loaded.programs[i].file>> :
     i \in {j \in DOMAIN loaded.programs : Executable(loaded.programs[j])}}

Dynamics == {i \in DOMAIN loaded.programs : loaded.programs[i].kind = "dynamic"}

\* dynamic_range and the checks of read_loaded before it reads an entry.
DynamicFault ==
  IF \/ Cardinality(Dynamics) # 1
     \/ \E i \in Dynamics : \/ loaded.programs[i].file > loaded.programs[i].memory
                            \/ loaded.programs[i].memory = 0
                            \/ ~RangeFits(loaded.programs[i], loaded.programs[i].memory)
  THEN "InvalidDynamicTable"
  ELSE IF \E i \in Dynamics : image.bias + loaded.programs[i].address # image.dynamic
  THEN "DynamicTableOutsideImage"
  ELSE IF \E i \in Dynamics : loaded.programs[i].memory % EntryBytes[class] # 0
  THEN "InvalidDynamicTable"
       ELSE NoFault

TableOrDynamicFault ==
  IF ExecutablesFault # NoFault THEN ExecutablesFault
  ELSE IF loaded.use = "symbols" THEN DynamicFault
       ELSE NoFault

\* The table is complete.
FinishTable ==
  /\ loaded.step = "programs" /\ Len(loaded.programs) >= program.memory[image.bias].count
  /\ \/ TableOrDynamicFault # NoFault /\ Fail(TableOrDynamicFault)
     \/ /\ TableOrDynamicFault = NoFault
        /\ loaded' = [loaded EXCEPT !.step = IF loaded.use = "symbols" THEN "done" ELSE "notes"]
  /\ UNCHANGED vars

-----------------------------------------------------------------------------
(* GnuBuildId::extract.                                                    *)

Segment == loaded.programs[loaded.segment]
IsNotes == Segment.kind = "note" /\ Segment.file # 0
SegmentStart == Translate(image.bias, Segment.address)
NextNote == SegmentStart + loaded.got

\* Any other segment, and an empty one, is passed over.
PassSegment ==
  /\ loaded.step = "notes" /\ loaded.segment <= Len(loaded.programs) /\ ~IsNotes
  /\ loaded' = [loaded EXCEPT !.segment = @ + 1]
  /\ UNCHANGED vars

\* One chunk of segment_bytes.
CopyNotes ==
  /\ loaded.step = "notes" /\ loaded.segment <= Len(loaded.programs) /\ IsNotes
  /\ loaded.got < Segment.file
  /\ \/ SegmentStart = None /\ Fail("AddressOverflow")
     \/ SegmentStart # None /\ NextNote >= HostLimit /\ Fail("AddressOverflow")
     \/ /\ SegmentStart # None /\ NextNote < HostLimit
        /\ LET end == Min({SegmentStart + Segment.file, NextNote + PageBytes - (NextNote % PageBytes)})
           IN \/ (\E a \in NextNote .. end - 1 : ~Mapped(a)) /\ Fail("Read")
              \/ /\ \A a \in NextNote .. end - 1 : Mapped(a)
                 /\ loaded' = [loaded EXCEPT !.got = end - SegmentStart]
  /\ UNCHANGED vars

\* Faulty: fields are not padded.
Unpadded(size) == size

\* aligned
Padded(size) == size + ((WordBytes - (size % WordBytes)) % WordBytes)

\* A word of the owned copy.
Word(start, o) ==
  IF start + o \in DOMAIN program.memory /\ program.memory[start + o].cell = "word"
  THEN program.memory[start + o].value ELSE 1

\* The name is "GNU", with or without its NUL.
IsGnu(start, o, size) == size \in {3, 4} /\ Word(start, o) = Gnu

BuildId(start, o, size) ==
  [size |-> size, words |-> [k \in 1 .. Padded(size) \div WordBytes |-> Word(start, o + (k - 1) * WordBytes)]]

\* The fields of the next note: three words, a name and a descriptor, each padded.
NameSize == Word(SegmentStart, loaded.next)
DescSize == Word(SegmentStart, loaded.next + WordBytes)
NoteKind == Word(SegmentStart, loaded.next + 2 * WordBytes)
NameAt   == loaded.next + 3 * WordBytes
DescAt   == NameAt + Padded(NameSize)
NoteEnd  == DescAt + Padded(DescSize)

\* segment_bytes has the whole segment.
SegmentCopied ==
  loaded.step = "notes" /\ loaded.segment <= Len(loaded.programs) /\ IsNotes /\ loaded.got = Segment.file

AllZero == \A b \in loaded.next .. Segment.file - 1 : Word(SegmentStart, b) = 0
Torn == NameAt > Segment.file \/ DescAt > Segment.file \/ NoteEnd > Segment.file
IsBuildId == NoteKind = BuildIdType /\ IsGnu(SegmentStart, NameAt, NameSize)

\* Nothing but padding is left of the segment.
EndSegment ==
  /\ SegmentCopied /\ AllZero
  /\ loaded' = [loaded EXCEPT !.segment = @ + 1, !.got = 0, !.next = 0]
  /\ UNCHANGED vars

\* One turn of the loop in Notes::next, and the turn of the loop over its items that an identifier
\* or an error makes.
ReadNote ==
  /\ SegmentCopied /\ ~AllZero
  /\ \/ Torn /\ Fail("MalformedNote")
     \/ ~Torn /\ ~IsBuildId /\ loaded' = [loaded EXCEPT !.next = NoteEnd]
     \/ ~Torn /\ IsBuildId /\ DescSize = 0 /\ Fail("EmptyBuildId")
     \/ ~Torn /\ IsBuildId /\ DescSize # 0 /\ loaded.id # NoId /\ Fail("Ambiguous")
     \/ /\ ~Torn /\ IsBuildId /\ DescSize # 0 /\ loaded.id = NoId
        /\ loaded' = [loaded EXCEPT !.id = BuildId(SegmentStart, DescAt, DescSize), !.next = NoteEnd]
  /\ UNCHANGED vars

FinishNotes ==
  /\ loaded.step = "notes" /\ loaded.segment > Len(loaded.programs)
  /\ \/ loaded.id = NoId /\ Fail("Missing")
     \/ loaded.id # NoId /\ loaded' = [loaded EXCEPT !.step = "done"]
  /\ UNCHANGED vars

-----------------------------------------------------------------------------
Load ==
  \/ \E use \in {"symbols", "build_id"} : ReadHeader(use)
  \/ CopyProgram \/ FinishTable
  \/ PassSegment \/ CopyNotes \/ EndSegment \/ ReadNote \/ FinishNotes

AllInit == Init /\ loaded = Idle

AllNext ==
  \/ Publish /\ UNCHANGED loaded
  \/ Exit /\ UNCHANGED loaded
  \/ Capture /\ UNCHANGED loaded
  \/ Load

\* The observer runs; the program and its loader may stop anywhere.
Spec == AllInit /\ [][AllNext]_allvars /\ WF_allvars(Capture /\ UNCHANGED loaded)

-----------------------------------------------------------------------------
(* What a reading promises.                                                *)

\* The table that the image's own header describes, in the process.
OwnHeader(c, bias, i) ==
  LET a == bias + program.memory[bias].offset + (i - 1) * HeaderBytes[c]
  IN IF a \in DOMAIN program.memory /\ program.memory[a].cell = "header" THEN program.memory[a] ELSE OtherHeader

NoteSegments(c, bias) ==
  {i \in 1 .. program.memory[bias].count : OwnHeader(c, bias, i).kind = "note" /\ OwnHeader(c, bias, i).file # 0}

\* Words one after the other, as far as they lie in the segment.
Lie(first, size, o, words) ==
  \A k \in DOMAIN words :
    o + (k - 1) * 4 < size =>
      /\ first + o + (k - 1) * 4 \in DOMAIN program.memory
      /\ program.memory[first + o + (k - 1) * 4] = [cell |-> "word", value |-> words[k]]

\* The words of a field are the fewest that hold it.
Hold(words, size) == words \in Seq(Nat) /\ size \in Nat /\ 4 * Len(words) - size \in 0 .. 3

\* A note as an assembler writes it.
NoteLies(first, size, note) ==
  /\ note.at \in 0 .. size - 1 /\ note.name # 0
  /\ Hold(note.label, note.name) /\ Hold(note.words, note.size)
  /\ Lie(first, size, note.at, <<note.name, note.size, note.kind>>)
  /\ Lie(first, size, note.at + 12, note.label)
  /\ Lie(first, size, note.at + 12 + 4 * Len(note.label), note.words)

\* Where the n-th note ends.
Boundary(notes, n) ==
  IF n = 0 THEN 0 ELSE notes[n].at + 12 + 4 * Len(notes[n].label) + 4 * Len(notes[n].words)

\* The notes of a segment follow each other, zeros follow the last, and one that is not whole lacks
\* the end of its last note.
SegmentLies(first, size, segment) ==
  LET notes == segment.notes
  IN /\ Len(notes) \in Nat /\ DOMAIN notes = 1 .. Len(notes) /\ (Len(notes) = 0 => segment.whole)
     /\ \A n \in DOMAIN notes :
          /\ notes[n].at = Boundary(notes, n - 1) /\ NoteLies(first, size, notes[n])
          /\ Boundary(notes, n) <= size <=> segment.whole \/ n < Len(notes)
     /\ \A o \in Boundary(notes, Len(notes)) .. size - 1 :
          first + o \in DOMAIN program.memory /\ program.memory[first + o] = [cell |-> "word", value |-> 0]

\* The note segments that the image's own table lists hold the notes that its linker was given.
NotesLie(c, bias) ==
  /\ bias \in DOMAIN program.memory /\ program.memory[bias].cell = "elf"
  /\ DOMAIN program.notes = NoteSegments(c, bias)
  /\ \A i \in DOMAIN program.notes :
       SegmentLies(bias + OwnHeader(c, bias, i).address, OwnHeader(c, bias, i).file, program.notes[i])

\* The build identifiers among them.
BuildIds ==
  {x \in UNION {{i} \X DOMAIN program.notes[i].notes : i \in DOMAIN program.notes} :
     LET note == program.notes[x[1]].notes[x[2]]
     IN note.kind = BuildIdType /\ note.name \in {3, 4} /\ note.label[1] = Gnu}

Descriptor(x) == [size |-> program.notes[x[1]].notes[x[2]].size, words |-> program.notes[x[1]].notes[x[2]].words]

\* The build identifier is the descriptor of the only GNU build-id note among the notes that the
\* image was linked with, however they are split over segments, padded, and mixed with others; and
\* the errors that are about notes tell the truth about them.
BuildIdExact ==
  loaded.use = "build_id" /\ NotesLie(class, image.bias) =>
    /\ loaded.step = "done" =>
         /\ \A i \in DOMAIN program.notes : program.notes[i].whole
         /\ \E x \in BuildIds : BuildIds = {x} /\ loaded.id = Descriptor(x)
    /\ loaded.failure = "Missing"   => BuildIds = {}
    /\ loaded.failure = "Ambiguous" => \E x, y \in BuildIds : x # y
    /\ loaded.failure = "EmptyBuildId" => \E x \in BuildIds : Descriptor(x).size = 0
    /\ loaded.failure = "MalformedNote" => \E i \in DOMAIN program.notes : ~program.notes[i].whole

\* When an image's own header names the table that the kernel named, the two readings of that table
\* agree, and the executable ranges of the second lie within the load segments of the first.
TablesAgree ==
  loaded.step = "done" /\ image.bias + ElfHeader.offset = Phdr /\ ElfHeader.count = Count =>
    /\ loaded.programs = headers
    /\ \A range \in Executables :
         \E j \in DOMAIN headers :
           /\ headers[j].kind = "load"
           /\ image.bias + headers[j].address <= range[1]
           /\ range[2] <= image.bias + headers[j].address + headers[j].memory

\* What is read through an image's own header is what the kernel and the linker put there.
LoadedExact == TablesAgree /\ BuildIdExact

\* The image has an ELF header somewhere that describes its table, and its segments fit.
Described(c) ==
  /\ \E a \in DOMAIN program.memory :
       /\ program.memory[a].cell = "elf" /\ program.memory[a].class = c /\ program.memory[a].little
       /\ program.memory[a].stride = HeaderBytes[c] /\ program.memory[a].count = Count
       /\ a + program.memory[a].offset = Phdr
  /\ \A i \in DOMAIN headers : RangeFits(headers[i], headers[i].memory) /\ headers[i].file <= headers[i].memory

\* The documentation of dynamic_symbols: it fails when dynamic metadata, hash metadata, or symbol
\* tables violate their validated geometry.  Those of a proper, living image do not.
SymbolsReachable ==
  loaded.use = "symbols" /\ alive /\ Proper(class) /\ Described(class) => loaded.step # "failed"
=============================================================================
