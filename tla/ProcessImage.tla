---------------------------- MODULE ProcessImage ----------------------------
(***************************************************************************)
(* How a capture gets from a process to its rendezvous: the ELF class and  *)
(* the program-header table out of the auxiliary vector (class.rs), the    *)
(* load bias, interpreter and dynamic segment out of that table            *)
(* (ganymede-elf/src/process.rs), the loader profile out of the            *)
(* interpreter (ganymede/src/loader.rs), and the DT_DEBUG pointer out of   *)
(* the dynamic segment (ganymede-linker-gnu/src/reader/dynamic.rs).        *)
(*                                                                         *)
(* The program may be in the hands of its loader, which writes DT_DEBUG    *)
(* when it starts, and may exit at any access.  Reading the namespaces     *)
(* behind the pointer is LinkerReader; here it has one of its outcomes,    *)
(* and a retry repeats what each of the two callers repeats.               *)
(*                                                                         *)
(* An address holds one cell: a program header, a dynamic entry, an ELF    *)
(* header, or a byte; a basename counts as one byte of a path.             *)
(***************************************************************************)
EXTENDS Integers, Sequences, FiniteSets

CONSTANTS
  Classes,       \* Elf32, Elf64
  WordLimit,     \* per class, one more than the largest word
  HostLimit,     \* one more than the largest address of the observer
  HeaderBytes,   \* per class, the size of a program header
  EntryBytes,    \* per class, the size of a dynamic entry
  PageBytes,     \* a foreign handle reaches to the end of its page
  Basename,      \* per class, the interpreter a GNU profile requires
  Attempts,      \* the retry policy
  Programs,      \* the programs inspected: for each the values of every auxiliary type in order, the
                 \* cell at each mapped address, the entries its loader fills, and its notes
  Rendezvous     \* what the loader writes there

None == -1
Unproven == "unproven"

Types == {"AT_PHDR", "AT_PHNUM", "AT_PHENT"}

ASSUME WidthsPositive ==
  /\ HostLimit \in Nat /\ PageBytes \in Nat \ {0} /\ Attempts \in Nat \ {0}
  /\ Rendezvous \in Nat \ {0}
  /\ \A c \in Classes : /\ c # Unproven /\ WordLimit[c] \in 1 .. HostLimit
                        /\ HeaderBytes[c] \in Nat \ {0} /\ EntryBytes[c] \in Nat \ {0}
  /\ \A c, d \in Classes : HeaderBytes[c] = HeaderBytes[d] => c = d

\* Words are unsigned.
ASSUME ProgramsUnsigned ==
  \A p \in Programs :
    /\ \A t \in Types : p.auxiliary[t] \in Seq(Nat)
    /\ \A a \in DOMAIN p.memory :
         /\ a \in 0 .. HostLimit - 1
         /\ p.memory[a].cell = "header" => {p.memory[a].address, p.memory[a].file, p.memory[a].memory} \subseteq Nat
         /\ p.memory[a].cell = "entry" => p.memory[a].value \in Nat
         /\ p.memory[a].cell = "elf" => {p.memory[a].offset, p.memory[a].count} \subseteq Nat

\* Linkers leave DT_DEBUG null, and the loader fills no other entry.
ASSUME DebugUnfilled ==
  \A p \in Programs :
    /\ \A a \in DOMAIN p.memory : p.memory[a].cell = "entry" /\ p.memory[a].tag = "debug" => p.memory[a].value = 0
    /\ \A a \in p.debug : /\ a \in DOMAIN p.memory
                          /\ p.memory[a].cell = "entry" /\ p.memory[a].tag = "debug"

VARIABLES
  program,   \* the program inspected
  started,   \* its loader has written DT_DEBUG
  alive,     \* it has not exited
  route,     \* "facade", or "linker" for a capture that names its class
  class,     \* the class of the capture
  pc,        \* the next access
  attempt,   \* complete attempts that ended in Busy or Inconsistent
  headers,   \* the program headers copied so far
  image,     \* Segments, then ProcessImage
  bytes,     \* the interpreter bytes copied so far
  at,        \* the dynamic entry read next
  pointer,   \* DebugSlot
  refusal,   \* the error the capture ended with
  early      \* history: the loader had not run when this attempt began to read the table

target == <<program, started, alive>>
vars == <<target, route, class, pc, attempt, headers, image, bytes, at, pointer, refusal, early>>

NoFault == "none"
NoImage == [bias |-> None]

-----------------------------------------------------------------------------
(* The process.                                                            *)

Mapped(address) == alive /\ address \in DOMAIN program.memory

\* A record of a kind, whatever the bytes there were meant for.
Holding(address, kind) == Mapped(address) /\ program.memory[address].cell = kind

OtherHeader == [kind |-> "other", address |-> 0, file |-> 0, memory |-> 0, flags |-> {}]

Header(address) == IF Holding(address, "header") THEN program.memory[address] ELSE OtherHeader

Entry(address) ==
  IF ~Holding(address, "entry") THEN [tag |-> "other", value |-> 0]
  ELSE IF address \in program.debug /\ started
       THEN [tag |-> "debug", value |-> Rendezvous]
       ELSE [tag |-> program.memory[address].tag, value |-> program.memory[address].value]

Byte(address) == IF program.memory[address].cell = "byte" THEN program.memory[address].value ELSE "x"

\* The program's loader sets up its rendezvous and publishes it once.
Publish ==
  /\ alive /\ ~started /\ program.debug # {}
  /\ started' = TRUE
  /\ UNCHANGED <<program, alive, route, class, pc, attempt, headers, image, bytes, at, pointer,
                 refusal, early>>

Exit ==
  /\ alive
  /\ alive' = FALSE
  /\ UNCHANGED <<program, started, route, class, pc, attempt, headers, image, bytes, at, pointer,
                 refusal, early>>

-----------------------------------------------------------------------------
(* The steps of a capture.                                                 *)

Refuse(fault) ==
  /\ pc' = "refused"
  /\ refusal' = fault
  /\ UNCHANGED <<target, route, class, attempt, headers, image, bytes, at, pointer, early>>

Vector == program.auxiliary

\* ElfClass::from_snapshot: the class whose program header has the size of AT_PHENT.
ClassFault ==
  IF Len(Vector["AT_PHENT"]) > 1 THEN "DuplicateProgramHeaderSize"
  ELSE IF Vector["AT_PHENT"] = <<>> THEN "MissingProgramHeaderSize"
  ELSE IF \A c \in Classes : HeaderBytes[c] # Vector["AT_PHENT"][1]
       THEN "UnsupportedProgramHeaderSize"
       ELSE NoFault

ProvenClass == CHOOSE c \in Classes : HeaderBytes[c] = Vector["AT_PHENT"][1]

\* auxiliary: exactly one value, which is a word of the class.
ValueFault(type) ==
  IF Len(Vector[type]) > 1 THEN "DuplicateAuxiliary"
  ELSE IF Vector[type] = <<>> THEN "MissingAuxiliary"
  ELSE IF Vector[type][1] >= WordLimit[ProvenClass] THEN "AuxiliaryOutOfRange"
       ELSE NoFault

\* What ProcessImage::read refuses before it reads memory, in its order.
VectorFault(expected) ==
  IF ClassFault # NoFault THEN ClassFault
  ELSE IF expected \notin {Unproven, ProvenClass} THEN "UnsupportedClass"
  ELSE IF ValueFault("AT_PHDR") # NoFault THEN ValueFault("AT_PHDR")
  ELSE IF ValueFault("AT_PHNUM") # NoFault THEN ValueFault("AT_PHNUM")
  ELSE IF Vector["AT_PHNUM"][1] = 0 THEN "InvalidProgramHeaderCount"
       ELSE NoFault

Phdr   == Vector["AT_PHDR"][1]
Count  == Vector["AT_PHNUM"][1]
Stride == HeaderBytes[class]

\* The facade proves the class, a linker capture expects one; then the table is described.
Describe ==
  /\ pc = "start"
  /\ LET fault == VectorFault(class)
     IN \/ fault # NoFault /\ Refuse(fault)
        \/ /\ fault = NoFault
           /\ pc' = "headers" /\ class' = ProvenClass
           /\ headers' = <<>> /\ image' = NoImage /\ bytes' = <<>>
           /\ UNCHANGED <<target, route, attempt, at, pointer, refusal, early>>

\* Faulty: the sum is widened to the observer's addresses.
WideSum(left, right) == left + right

\* checked_add in the width of the class.
CheckedAdd(left, right) == IF left + right < WordLimit[class] THEN left + right ELSE None

Translate(bias, address) == CheckedAdd(bias, address)

HeaderAddress == Phdr + Len(headers) * Stride

\* One turn of the loop in headers; the offset, then the address must be words of the class.
CopyHeader ==
  /\ pc = "headers" /\ Len(headers) < Count
  /\ \/ HeaderAddress >= WordLimit[class] /\ Refuse("AddressOverflow")
     \/ HeaderAddress < WordLimit[class] /\ ~Mapped(HeaderAddress) /\ Refuse("ForeignAccess")
     \/ /\ HeaderAddress < WordLimit[class] /\ Mapped(HeaderAddress)
        /\ headers' = Append(headers, Header(HeaderAddress))
        /\ UNCHANGED <<target, route, class, pc, attempt, image, bytes, at, pointer, refusal, early>>

-----------------------------------------------------------------------------
(* segments: what the copied table proves.                                 *)

Of(kind) == {i \in DOMAIN headers : headers[i].kind = kind}
The(kind) == headers[CHOOSE i \in Of(kind) : TRUE]

\* The first header that ends the loop: a bias below zero, or a second of its kind.
Second(i) == \E j \in 1 .. i - 1 : headers[j].kind = headers[i].kind

\* Faulty: the last dynamic segment is taken.
EndsUnlessDynamic(i) ==
  CASE headers[i].kind = "phdr"    -> headers[i].address > Phdr \/ Second(i)
    [] headers[i].kind = "interp"  -> Second(i)
    [] OTHER                       -> FALSE

Ends(i) ==
  CASE headers[i].kind = "phdr"    -> headers[i].address > Phdr \/ Second(i)
    [] headers[i].kind = "interp"  -> Second(i)
    [] headers[i].kind = "dynamic" -> Second(i)
    [] OTHER                       -> FALSE

LoopFault ==
  LET first == CHOOSE i \in DOMAIN headers : Ends(i) /\ \A j \in 1 .. i - 1 : ~Ends(j)
  IN CASE headers[first].kind = "phdr" /\ headers[first].address > Phdr -> "AddressOverflow"
       [] headers[first].kind = "phdr" /\ headers[first].address <= Phdr -> "DuplicateProgramHeader"
       [] headers[first].kind = "interp"  -> "DuplicateInterpreter"
       [] OTHER                           -> "DuplicateDynamicSegment"

GeometryFault ==
  IF The("interp").file = 0 THEN "InvalidInterpreterSize"
  ELSE IF The("interp").file > The("interp").memory THEN "InterpreterFileSizeExceedsMemory"
  ELSE IF The("dynamic").file > The("dynamic").memory THEN "DynamicFileSizeExceedsMemory"
  ELSE IF \E kind \in {"interp", "dynamic"} :
            Translate(Phdr - The("phdr").address, The(kind).address) = None
       THEN "AddressOverflow"
       ELSE NoFault

SegmentsFault ==
  IF \E i \in DOMAIN headers : Ends(i) THEN LoopFault
  ELSE IF Of("phdr") = {} THEN "MissingProgramHeaderSegment"
  ELSE IF Of("interp") = {} THEN "MissingInterpreter"
  ELSE IF Of("dynamic") = {} THEN "MissingDynamicSegment"
       ELSE GeometryFault

ProveSegments ==
  /\ pc = "headers" /\ Len(headers) = Count
  /\ \/ SegmentsFault # NoFault /\ Refuse(SegmentsFault)
     \/ /\ SegmentsFault = NoFault
        /\ LET bias == Phdr - The("phdr").address
           IN image' = [bias        |-> bias,
                        interpreter |-> Translate(bias, The("interp").address),
                        size        |-> The("interp").file,
                        dynamic     |-> Translate(bias, The("dynamic").address),
                        extent      |-> The("dynamic").memory]
        /\ pc' = "interpreter"
        /\ UNCHANGED <<target, route, class, attempt, headers, bytes, at, pointer, refusal, early>>

-----------------------------------------------------------------------------
(* interpreter_bytes and path.                                             *)

NextByte == image.interpreter + Len(bytes)

\* Faulty: a chunk of the last page is copied whole.
RequestedPage == PageBytes - (NextByte % PageBytes)

\* What is asked of one foreign handle: the rest, or the rest of the page.
Requested ==
  LET remaining == image.size - Len(bytes)
      leftover  == PageBytes - (NextByte % PageBytes)
  IN IF remaining < leftover THEN remaining ELSE leftover

Chunk == NextByte .. NextByte + Requested - 1

CopyInterpreter ==
  /\ pc = "interpreter" /\ Len(bytes) < image.size
  /\ \/ NextByte >= HostLimit /\ Refuse("AddressOverflow")
     \/ NextByte < HostLimit /\ (\E a \in Chunk : ~Mapped(a)) /\ Refuse("Read")
     \/ /\ NextByte < HostLimit /\ \A a \in Chunk : Mapped(a)
        /\ bytes' = bytes \o [i \in 1 .. Requested |-> Byte(NextByte + i - 1)]
        /\ UNCHANGED <<target, route, class, pc, attempt, headers, image, at, pointer, refusal, early>>

Path == SubSeq(bytes, 1, Len(bytes) - 1)

PathFault ==
  IF bytes[Len(bytes)] # "NUL" THEN "MissingInterpreterTerminator"
  ELSE IF \E i \in 1 .. Len(bytes) - 1 : bytes[i] = "NUL" THEN "InteriorInterpreterTerminator"
       ELSE NoFault

\* basename: what follows the last slash.
HasBasename(c) ==
  /\ Path # <<>> /\ Path[Len(Path)] = Basename[c]
  /\ Len(Path) > 1 => Path[Len(Path) - 1] = "/"

\* The image is complete; the facade selects the loader profile once.
FinishImage ==
  /\ pc = "interpreter" /\ Len(bytes) >= image.size
  /\ \/ PathFault # NoFault /\ Refuse(PathFault)
     \/ PathFault = NoFault /\ route = "facade" /\ ~HasBasename(class) /\ Refuse("UnsupportedLoader")
     \/ /\ PathFault = NoFault /\ (route = "facade" => HasBasename(class))
        /\ pc' = "prepared"
        /\ UNCHANGED <<target, route, class, attempt, headers, image, bytes, at, pointer, refusal, early>>

-----------------------------------------------------------------------------
(* Attempt::finish: the dynamic table and its DT_DEBUG entry.              *)

Entries == image.extent \div EntryBytes[class]

TableFault ==
  IF ~HasBasename(class) THEN "UnsupportedInterpreter"
  ELSE IF image.extent = 0 \/ image.extent % EntryBytes[class] # 0 THEN "InvalidDynamicSize"
       ELSE NoFault

\* Interpreter::new and Table::new.
OpenTable ==
  /\ pc = "prepared"
  /\ \/ TableFault # NoFault /\ Refuse(TableFault)
     \/ /\ TableFault = NoFault
        /\ pc' = "entries" /\ at' = 0 /\ pointer' = None
        /\ early' = ~started
        /\ UNCHANGED <<target, route, class, attempt, headers, image, bytes, refusal>>

EntryAddress == image.dynamic + at * EntryBytes[class]

Lifted == Entry(EntryAddress)

\* Faulty: a second entry replaces the first.
InsertLast(value) == IF value = 0 THEN "NullDebugEntry" ELSE NoFault

\* DebugSlot::insert and DebugSlot::finish.
InsertFault(value) ==
  IF value = 0 THEN "NullDebugEntry"
  ELSE IF pointer # None THEN "DuplicateDebugEntry"
       ELSE NoFault

EntryFault ==
  IF at = Entries THEN "MissingDynamicTerminator"
  ELSE IF EntryAddress >= WordLimit[class] THEN "AddressOverflow"
  ELSE IF ~Mapped(EntryAddress) THEN "ForeignAccess"
  ELSE IF Lifted.tag = "null" /\ pointer = None THEN "MissingDebugEntry"
  ELSE IF Lifted.tag = "debug" THEN InsertFault(Lifted.value)
       ELSE NoFault

\* One turn of the fold in debug.
ReadEntry ==
  /\ pc = "entries"
  /\ \/ EntryFault # NoFault /\ Refuse(EntryFault)
     \/ /\ EntryFault = NoFault
        /\ IF Lifted.tag = "null"
           THEN pc' = "namespaces" /\ UNCHANGED <<at, pointer>>
           ELSE /\ at' = at + 1
                /\ pointer' = IF Lifted.tag = "debug" THEN Lifted.value ELSE pointer
                /\ UNCHANGED pc
        /\ UNCHANGED <<target, route, class, attempt, headers, image, bytes, refusal, early>>

-----------------------------------------------------------------------------
(* Retry::run.                                                             *)

ReadNamespaces ==
  /\ pc = "namespaces"
  /\ \/ /\ alive /\ pc' = "done"
        /\ UNCHANGED <<target, route, class, attempt, headers, image, bytes, at, pointer, refusal, early>>
     \/ Refuse("Namespaces")

\* A linker capture starts over, a facade capture keeps its image.
Again == IF route = "linker" THEN "start" ELSE "prepared"

\* Faulty: a retry that is not counted.
Uncounted(n) == n

Counted(n) == n + 1

RetryNamespaces ==
  /\ pc = "namespaces"
  /\ \/ Counted(attempt) = Attempts /\ Refuse("Busy")
     \/ /\ Counted(attempt) < Attempts
        /\ attempt' = Counted(attempt) /\ pc' = Again
        /\ UNCHANGED <<target, route, class, headers, image, bytes, at, pointer, refusal, early>>

Init ==
  /\ program \in Programs /\ alive = TRUE
  /\ started \in BOOLEAN /\ (started => program.debug # {})
  /\ \/ route = "facade" /\ class = Unproven
     \/ route = "linker" /\ class \in Classes
  /\ pc = "start" /\ attempt = 0
  /\ headers = <<>> /\ image = NoImage /\ bytes = <<>>
  /\ at = 0 /\ pointer = None /\ refusal = NoFault /\ early = FALSE

Capture ==
  \/ Describe \/ CopyHeader \/ ProveSegments \/ CopyInterpreter \/ FinishImage
  \/ OpenTable \/ ReadEntry \/ ReadNamespaces \/ RetryNamespaces

Next == Publish \/ Exit \/ Capture

CaptureSpec == Init /\ [][Next]_vars

-----------------------------------------------------------------------------
Words(c) == 0 .. WordLimit[c] - 1

\* Addresses are words of the class, lists are as long as what they copy, and a capture that has
\* left the start knows its class.
TypeOK ==
  /\ started \in BOOLEAN /\ alive \in BOOLEAN /\ early \in BOOLEAN
  /\ route \in {"facade", "linker"} /\ class \in Classes \cup {Unproven}
  /\ pc \in {"start", "headers", "interpreter", "prepared", "entries", "namespaces", "done", "refused"}
  /\ pc \notin {"start", "refused"} => class \in Classes
  /\ attempt \in 0 .. Attempts - 1 /\ at \in Nat /\ pointer \in Nat \cup {None}
  /\ refusal = NoFault <=> pc # "refused"
  /\ image # NoImage =>
       /\ class \in Classes
       /\ {image.bias, image.interpreter, image.dynamic} \subseteq Words(class)
       /\ image.size \in Nat /\ image.extent \in Nat
       /\ Len(bytes) <= image.size

-----------------------------------------------------------------------------
(* What a capture promises, against the process as it is.                  *)

Named == Len(program.auxiliary["AT_PHDR"]) = 1 /\ Len(program.auxiliary["AT_PHNUM"]) = 1

\* The table that the auxiliary vector names, in the process.
TableAt(c, i) == program.auxiliary["AT_PHDR"][1] + (i - 1) * HeaderBytes[c]

InTable(c, i, kind) ==
  /\ TableAt(c, i) \in DOMAIN program.memory
  /\ program.memory[TableAt(c, i)].cell = "header" /\ program.memory[TableAt(c, i)].kind = kind

Indices == 1 .. program.auxiliary["AT_PHNUM"][1]

Unique(c, kind) == \E i \in Indices : \A j \in Indices : InTable(c, j, kind) <=> i = j

\* The only header of a kind.
Sole(c, kind) == program.memory[TableAt(c, CHOOSE i \in Indices : InTable(c, i, kind))]

\* A segment of the program, where the kernel put it.
Placed(c, kind, address) ==
  /\ address + Sole(c, "phdr").address = program.auxiliary["AT_PHDR"][1] + Sole(c, kind).address
  /\ address < WordLimit[c]

Proven == {"prepared", "entries", "namespaces", "done"}

\* A capture that has an image has the only bias under which the kernel's program header address
\* is the one the program gives, the only interpreter and the only dynamic segment at that bias,
\* and the interpreter's path exactly as it lies in the process, up to its only NUL.
ImageProven ==
  pc \in Proven =>
    /\ program.auxiliary["AT_PHENT"] = <<HeaderBytes[class]>> /\ Named
    /\ Unique(class, "phdr") /\ Unique(class, "interp") /\ Unique(class, "dynamic")
    /\ image.bias >= 0
    /\ program.auxiliary["AT_PHDR"] = <<image.bias + Sole(class, "phdr").address>>
    /\ Placed(class, "interp", image.interpreter) /\ Placed(class, "dynamic", image.dynamic)
    /\ Len(bytes) = Sole(class, "interp").file
    /\ \A i \in DOMAIN bytes :
         /\ image.interpreter + i - 1 \in DOMAIN program.memory
         /\ bytes[i] = Byte(image.interpreter + i - 1)
         /\ bytes[i] = "NUL" <=> i = Len(bytes)

\* The dynamic segment of the program, up to its terminator.
SegmentAt(c, bias, i) == bias + Sole(c, "dynamic").address + i * EntryBytes[c]

Tagged(c, bias, i, tag) ==
  /\ SegmentAt(c, bias, i) \in DOMAIN program.memory
  /\ program.memory[SegmentAt(c, bias, i)].cell = "entry"
  /\ program.memory[SegmentAt(c, bias, i)].tag = tag

\* Exactly one entry before the terminator is DT_DEBUG, and its loader fills it.
OneDebug(c, bias) ==
  \E last \in 0 .. Sole(c, "dynamic").memory \div EntryBytes[c] - 1 : \E d \in 0 .. last - 1 :
    /\ Tagged(c, bias, last, "null") /\ SegmentAt(c, bias, last) < WordLimit[c]
    /\ \A i \in 0 .. last - 1 : /\ SegmentAt(c, bias, i) \in DOMAIN program.memory
                                /\ ~Tagged(c, bias, i, "null")
                                /\ Tagged(c, bias, i, "debug") <=> i = d
    /\ SegmentAt(c, bias, d) \in program.debug

\* The pointer a capture follows is the one that the program's own loader published, in the only
\* DT_DEBUG entry that precedes the terminator.
PointerPublished ==
  pc \in {"namespaces", "done"} =>
    started /\ pointer = Rendezvous /\ OneDebug(class, image.bias)

\* An image as the kernel and a linker lay it out, with its table and its interpreter mapped.
Proper(c) ==
  /\ \A t \in Types : Len(program.auxiliary[t]) = 1 /\ program.auxiliary[t][1] < WordLimit[c]
  /\ program.auxiliary["AT_PHENT"][1] = HeaderBytes[c] /\ Indices # {}
  /\ \A i \in Indices : TableAt(c, i) \in DOMAIN program.memory /\ TableAt(c, i) < WordLimit[c]
  /\ \A kind \in {"phdr", "interp", "dynamic"} :
       Unique(c, kind) /\ Sole(c, kind).file <= Sole(c, kind).memory
  /\ LET bias  == program.auxiliary["AT_PHDR"][1] - Sole(c, "phdr").address
         first == bias + Sole(c, "interp").address
         last  == first + Sole(c, "interp").file - 1
     IN /\ bias >= 0 /\ first <= last /\ first < WordLimit[c]
        /\ first .. last \subseteq {a \in DOMAIN program.memory : program.memory[a].cell = "byte"}
        /\ \A a \in first .. last : program.memory[a].value = "NUL" <=> a = last
        /\ first < last /\ program.memory[last - 1].value = Basename[c]
        /\ first + 1 < last => program.memory[last - 2].value = "/"
        /\ bias + Sole(c, "dynamic").address < WordLimit[c]
        /\ Sole(c, "dynamic").memory % EntryBytes[c] = 0
        /\ OneDebug(c, bias)

\* A capture of a proper program that lives is refused only for what lies behind the rendezvous,
\* or for a null DT_DEBUG when the program's loader had not run as the attempt opened the table.
RefusalsExplained ==
  pc = "refused" =>
    \/ ~alive
    \/ refusal \in {"Namespaces", "Busy"}
    \/ refusal = "NullDebugEntry" /\ early
    \/ \A c \in Classes : class \in {Unproven, c} => ~Proper(c)

\* Every capture ends, with a snapshot or an error.
CaptureEnds == <>(pc \in {"done", "refused"})
=============================================================================
