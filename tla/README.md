# Ganymede in TLA+

Ganymede inspects a *running* Linux process from outside: it reads mappings, ELF
metadata and GNU loader records through a kernel module and never stops the
process it reads.  Everything it observes may change between two reads, and most
of what makes it correct is how it copes with that: lifts that are repeated
until they agree, lists walked in both directions, rendezvous records read
before and after, whole attempts that are retried, and snapshots that are
trusted after they have grown old.  These modules model that core, check it with
TLC and prove its main invariants with TLAPS.

Paths below are relative to the repository root, inside `src/`.

## 1. The system

| Part | State it keeps | Operations | Hard behaviour |
| --- | --- | --- | --- |
| `ganymede-linker-gnu/src/reader*` – loader snapshot reader | per attempt: cursors, visited sets, the walk, accepted namespaces; across attempts: the last failure | `Namespaces::read`, `Capture::read`, `Forward::step`, `Reverse::run`, `Probe::read`, `Retry::run` | the loader relinks, frees and reuses records between any two reads |
| `Stable::lift`, `abi.rs` – stable lifts | lifted fields, number of lifts | field reads, comparison of lifts | a lift mixes old and new fields; endless writes |
| `reader/dynamic.rs` – DT_DEBUG discovery | slot for the pointer | `Table::new`, `debug`, `DebugSlot` | table of a process that is still starting |
| `ganymede-process/src/snapshot.rs` – mapping snapshot | ordered regions | `Process::snapshot`, `region_at`, `readable_bytes` | malformed answers; answers outlive the address space they describe |
| `ganymede-module` – normalized modules | modules and their regions | `from_anchor`, `Modules::new`, `module_at` | regions of an older snapshot paired with newer link maps; link maps of several namespaces that share a mapping |
| `ganymede/src/loader.rs` – facade | loader snapshot and modules | `Inspection::capture`, `with_retry`, `Loader::select` | composition of two observations made at different times |
| `ganymede-scan` – byte scanner | window, offset, matches | `Scanner::bytes`, `Bytes`, `CBytes` | window borders, memory that changes under the scan, a fault behind a terminator |
| `ganymede-elf` – ELF image, dynamic metadata, symbols, notes | owned tables | `ProcessImage::read`, `LoadedImage::read`, `read_loaded`, `find`, hash lookups, `GnuBuildId::extract` | width-checked arithmetic, tables a file can lie about, counts derived from untrusted hash chains |
| `ganymede-pattern-core` – patterns | atoms, interpreter cursor, save slots, filters | parse, `exec`, `finds`, fixed-width plans | branches and captures; fast paths must agree with the interpreter |
| `ganymede-text`, macros, bindings | none | byte paths, generated code | – |

How they interact: the caller takes a mapping snapshot; the facade reads the ELF
image once, selects a GNU profile from the interpreter's name, and asks the
linker crate for a loader snapshot, which uses the *same, older* mapping
snapshot to bound names; the link maps found are then normalized against that
mapping snapshot again.  All foreign accesses go through catalejo, an external
crate.  There are no threads, locks or callbacks inside Ganymede: the
concurrency is that of the target.

What makes each part correct:

- a loader snapshot's lists were complete lists of the target at some instant,
  whatever the target did; failed attempts leave no trace; captures end;
- an accepted record stood in memory whole;
- mapping lookups are exact, disjointness holds for all pairs of regions;
- published modules own their addresses alone and have their own mapping;
- a scan misses nothing that stood still and invents nothing;
- the pattern scanner finds what its interpreter accepts, whatever discovered the
  candidate, and the captures it returns are those of the match;
- a hash lookup finds what a linear search of the symbols finds, ends, and stays
  inside the load segments of its tables, whatever becomes of the memory;
- a process image has the only bias, interpreter and dynamic segment the process
  gives; the pointer followed is the one its own loader published in the only
  `DT_DEBUG` entry before the terminator; a proper, living program is not refused;
- what is read through an image's own ELF header agrees with that, and a build
  identifier is the descriptor of the only such note the linker put there;
- the text of a pattern and its compiled program match the same bytes with the
  same captures, and a text is refused for what is wrong with it;
- a string is returned up to its first terminator, within its bound, or refused
  because nothing ends it or a byte in front of every terminator is unreadable.

## 2. Modules

| Module | What it models |
| --- | --- |
| `LinkerReader` | the loader snapshot reader: foreign memory, reader state, one action per foreign access |
| `LinkerAnyWriter` | the reader against a target that writes anything at any time; its safety properties |
| `LinkerGnuLoader` | the reader beside a loader that follows glibc's protocol step by step |
| `NamespaceSnapshots` | abstract specification: atomic snapshots of lists, one namespace after the other, unless a change was undone meanwhile |
| `StableLift` | one stable lift, field by field, against a target that writes fields and unmaps pages |
| `ProcessSnapshot` | validation of the kernel's layouts, region lookups |
| `Inspection` | mapping snapshot, then loader capture, then normalization, while objects come and go |
| `ForeignBytes` | another process's bytes, which it writes or unmaps between any two bytes of a copy |
| `ByteScan` | the byte scanner over such memory |
| `ByteString` | the three bounded copies of a string: `CBytes` and both `name_bytes` |
| `ByteReads` | one call of either, as a specification |
| `PatternProgram` | the atoms of a pattern and the interpreter that runs them at one offset of an image |
| `PatternFixed` | the fixed-width projection, its validation, the search plan and the vector engine |
| `PatternScan` | one scanner: searches, uniqueness and iteration over the caller's capture slice |
| `PatternSource` | scanners of programs that were parsed from a source text |
| `PatternSyntax` | the parser from source text to atoms |
| `PatternMeaning` | reference: what a pattern's items say, without atoms, stacks or backtracking |
| `ProcessImage` | a capture from the auxiliary vector to the rendezvous pointer, while the program's loader starts |
| `LoadedImage` | what is read through the image's own ELF header next to it: program table, executable ranges, build identifier |
| `ElfDynamic` | dynamic metadata, validation of GNU and System V hash tables, and lookups over memory that changes |
| `LinkerReaderProofs` | the reader's own invariant; theorems for a target that writes anything, then beside a GNU loader, the refinement among them |
| `StableLiftProofs`, `ElfDynamicProofs`, `InspectionProofs`, `ByteReadsProofs` | theorems of the modules they are named after |
| `ProcessImageProofs` | theorems of `ProcessImage` and of `LoadedImage` |
| `PatternScanProofs` | theorems of `PatternScan`, with the lemmas about `PatternProgram` and `PatternFixed` they rest on |
| `OrderLemmas` | least and greatest elements, sequences sorted by rank, induction and recursion, for the proofs |
| `MC*` | instances for TLC |

### LinkerReader and the code

`pc` names the next access: `initial` (the first `Consistent::read`),
`namespace` (one turn of the loop in `Namespaces::read`), `forward`, `name`,
`recheck` (`StableMap::read`, `name_bytes` and the second lift in
`StableMap::module`), `reverse` (one node of `Reverse::run`), `probe`
(`Probe::read` and the two comparisons after it).  Every access has an action
for success and one for failure; what fails is the operator `...Fault`, whose
order of cases is the order of the checks in the code.  `Fail` is `Retry::run`:
a fatal failure ends the capture, any other starts the next attempt or, if none
is left, reports the last reason.  Every local variable of the attempt dies with
it (`DropAttempt`).

A link map is reduced to its identity (`l_addr`, `l_name`, `l_ld`) and its two
edges; a rendezvous to version, state, head and next.  A name is readable if the
object's string lay in the mapping snapshot (`Snapshotted`) and still exists
(`named`).  `r_version` is 1 or 2 because the code compares it with
`GNU_EXTENDED_PROTOCOL_VERSION` only.  A lift is one atomic step that returns the
record, or reports it unstable if it was written since the reader's last step
(`touched`): that is what `StableLift` establishes for one record, up to the
exception described there.

`instant` and `recurred` are history variables: the memory when the forward walk
ended, and whether a retained record was changed and then restored.  No action
depends on them.

In `LinkerAnyWriter` the writer replaces any record by any other. In
`LinkerGnuLoader` it is glibc as the reader's checks assume it: report `RT_ADD`,
fill a node, append it, report `RT_CONSISTENT`; report `RT_DELETE`, unlink from
the predecessor, from the successor, free (the bytes stay, vanish, or only the
name does), report `RT_CONSISTENT`; for `dlmopen`, fill an extended rendezvous,
link it, announce version 2.  Each is a step of its own and nodes and objects are
reused.  glibc is not part of the repository; these actions are marked external.

`NamespaceSnapshots` promises less than one would wish, and exactly what the reader can keep: a
snapshot is a list that its namespace held since its capture began, *or* a change was
undone meanwhile.  A node that is unlinked, reused and put back with its old bytes looks
to both walks as if nothing had happened.  Within the bounds of the instance no such capture
completes, and TLC accepts the promise without the exception; for more calls it is false, and
only with it can it be proved (section 4).

### StableLift and the code

`ReadField` is one `project(..).read()` of `construct_with`, `CompleteLift` the
last one together with catalejo's comparison with the previous lift, `Fault` a
failed `Process::open` or field read.  `stabilize` is not part of the
repository; how many successive lifts must agree is a constant (`Agreeing`), and
everything is proved for each value from two to `Lifts`.

### ProcessSnapshot, Inspection and the code

`stage` follows the caller: `query` and `admit` are `Process::snapshot` (one
action per layout), `capture` is `loader::Snapshot::with_retry`, `normalize` is
`Inspection::finish`: `Module::from_anchor` per link map, then `Modules::new`.
Device and inode become one identity; an object is one mapping, with `l_ld` in its
last page.  The capture is atomic here because the question is about what happens
*between* the two observations; the program, the vDSO and the dynamic linker cannot be
unloaded.  It returns the link maps of all namespaces, one namespace after the other, as
`Snapshot::normalize` makes one collection of modules of them.  A library belongs to one
namespace; the dynamic linker is mapped once and has, in each namespace that `dlmopen` made
and that needs it, a further link map with the same address (`LinkProxy`, `DropProxy`; glibc's
proxies).  The kernel answers truthfully or with one of a few malformed lists (`Malformed`), one
for each check of the code.  Where the kernel lists layouts by address and
`Modules::new` sorts its ranges, the i-th element is the one with i elements up
to it (`LayoutsUpTo`, `RangesUpTo`): a sort without a recursive definition, about
which something can be proved.

### ForeignBytes, ByteScan, ByteString, ByteReads and the code

`CopyByte` is the finest grain at which `Bytes::assemble_with` can interleave with
writes; `SearchWindow` is `push_matches` and the advance of `scan_range`;
`EndOfRange` and `Finish` are the loop of `Scanner::bytes`.  `FindIter` states
what `memmem::find_iter` returns without saying how.  Matches are a set: the code
sorts and deduplicates them at the end.  The `AddressOverflow` errors are left out,
they need a range that reaches past the address space.

`CBytes::assemble_with`, `StableMap::name_bytes` and `DynamicSymbols::name_bytes`
are the same loop written three times; `ByteString` has it once and distinguishes
what is kept of the terminator.  A chunk is what one managed window (`Granule`
bytes) still has of the bound.  It is copied byte by byte (`CopyTextByte`) until it
is complete (`ChunkCopied`) or a byte faults (`ChunkFaults`), and only then
searched; a terminator settles it either way (`Verdict`).  A window that cannot be
opened and a byte that faults end in the same `failed`.

### PatternProgram, PatternFixed, PatternScan and the code

`Run` is `Scanner::run`.  A branch is a record of its program counter, cursor, mask and
captures; `Turn` is what one call makes of it up to the next call, where `Pushed`, `Chosen`
and `Retried` are `push`, `case` and `many`, and `Apply` the atoms that do not branch.
Calls nest, but each call is made behind an atom of the same program, so a function of the
number of atoms still to go is all the recursion there is: `Run(scan)[n]` is a call with at
most `n` of them.  A byte is the set of its one bits, so that a mask is an
intersection; bytes and addresses are few in the instance, widths of words are those of the
code.  A checked addition is a test against `AddressLimit`, and a capture holds any word
that can be read into it (`AddressAssumption`).

`Compile`, `ValidFor` and the plan follow `fixed.rs` and `plan.rs`; `FixedFind`
is the engine, lane by lane: which starts a vector filters away is what the
model keeps, not how an instruction does it.  A scanner gets its cells as
`Pattern` and `PatternBuf` do: none, derived, or supplied and validated.  A step of
`compile`, of `valid_for` and of `prefix` is an operator of its own (`Project`, `Fits`,
`Lengthened`), and each of the three is the function of the number of atoms passed that
the step defines.

In `PatternScan` a call is one step, since the image is a slice that nobody else
writes.  What makes the calls interact is the caller's slice of captures (`saves`):
failed branches, failed candidates and failed calls leave their writes in it, and
`Check` and `Pir` read them.  The iterator (`matches`) is the second piece of state.
`Search` is the loop that `find_fixed`, `find_bruteforce`, `find_byte` and `find_prefix`
share; what differs, where the next candidate is, is its first argument.  A program is any
sequence of atoms; `PatternSource` adds the source texts, and that the programs they parse
to are among those scanned.

### PatternSyntax, PatternMeaning and the code

A parser is a record of the position, the next slot, the atoms so far and a
failure; `Sequence`, `Operation`, `Follow` and `Choice` are the methods of the same
names and recurse as they do.  A character is a string of length one.  A nibble
has half the bits of a byte, so digits above 1 are decimal only in the instance;
`SlotLimit` and `IndexLimit` stand for `MAX_SAVES` and the width of `usize`.  The
offset an error carries is left out.

`PatternMeaning` is written against the documentation of the syntax and never
mentions atoms.  Four things it has to say that one would not guess, all of which
the code does: movement at the end of a pattern is dropped (`Essential`), which is not without
consequence (section 6); a gap in
the last alternative of a group is tried again for what follows the group, in an
earlier alternative it is not; the first alternative that matches is kept whatever
follows; and an unclosed brace before `|` or `)` is accepted inside an alternative (section 6).

### ProcessImage, LoadedImage and the code

`pc` is the place in the sequence: `start` (`ElfClass::from_snapshot` and the
auxiliary values), `headers` (one turn of the loop in `headers` per step, then
`segments`), `interpreter` (one chunk of `interpreter_bytes`, then `path` and
`Loader::select`), `prepared` (`Interpreter::new`, `Table::new`), `entries` (one turn
of the fold in `debug`), `namespaces`.  What a step refuses is an operator `...Fault`
in the order of the code.  `route` tells the two callers apart: the facade proves
the class, selects a profile and repeats from the image it has; a capture of the
linker crate names its class and repeats everything.  The reader of the namespaces
is `LinkerReader`; here it succeeds, fails for good, or asks for a retry.

An address holds one record (a program header, a dynamic entry, an ELF header, a
note word or a byte; the basename of a path is one byte), so a record read in the
wrong place is an `other` one, not a torn one.  The program's loader may publish
its pointer at any step (`Publish`), and the program may exit at any step (`Exit`),
after which nothing is mapped.  The stages and errors that only differ in wording
are kept apart where the order of checks does.

`LoadedImage` reads on from there: the header at the load bias, the table that the
header describes, `executables`, `dynamic_range` with the checks of `read_loaded`, and
`GnuBuildId::extract` over the note segments: a segment is copied chunk by chunk
(`CopyNotes`) and then its notes are read one after the other (`ReadNote`, one turn of
`Notes::next`) until only zeros are left (`EndSegment`).  The loops over the program
headers that keep nothing between two turns are sets (`Executables`, `Dynamics`).

What an image's notes *are* is a history of its making, `program.notes`; that its bytes
hold them is `NotesLie`, the condition of `BuildIdExact`.  The instance asserts it of every
image that is meant to satisfy it.

### ElfDynamic and the code

`entry` is one turn of the loop in `metadata`, whose terminator ends in the checks
of `read_with` (`MetadataFault`, in their order); `header` is one word of
`gnu_hash_table` or `sysv_hash_table`.  Then the reader is `ready`, and each
lookup (`find`, and `export` on top of it) is a walk over `bloom`, `bucket`,
`chain`, `symbol` and `name`, one foreign access per step.  `contents` may become
any of the memories `Becomes` allows between any two of them, without bound.

Addresses count the words of a hash table; a class word is `ClassWords` of them,
of `HashBits` bits each.  A string table has one cell per name, so that
`name_bytes` is one access.  `table` keeps the four parts of both kinds of table
in one shape: where the bucket array begins, how many buckets, the first symbol
with a chain word, how many chain words.  `Built` says what a linker builds (order by
bucket, filter bits, terminated chains) and is the condition of `LookupExact`; the instance
asserts it of every table that is meant to be sound.  `LoadedImage::read` and the comparison of the `PT_DYNAMIC` extent with
the caller's address are in `LoadedImage`.

## 3. Runs

| Run | Instance | Shows |
| --- | --- | --- |
| `linker_any` | 2 nodes, 2 rendezvous, 2 objects, 2 attempts, 2 writes | retained lists are whole chains and stood together; the chain of namespaces has no gap; termination |
| `linker_gnu` | 4 nodes, 2 rendezvous, 4 objects (3 in the mapping snapshot), 2 attempts, 2 loader calls, up to 3 objects at the start | refinement of `NamespaceSnapshots`; undisturbed attempts succeed with the loader's lists |
| `inspection` | 6 addresses, 6 objects of 1 or 2 pages (3 pinned), 2 namespaces, 4 link maps made or dropped | exact lookups, unique ownership, explained refusals, correct modules when nothing moved, and refusal whenever a further namespace lists the dynamic linker |
| `pattern_scan` | bytes of 2 bits, 24 programs that use every atom, 24 texts that are accepted and 23 that are not, images up to 7 bytes, bases in the middle and at the end of the address space, 2 lanes, prefixes of 2 bytes | filters lose and add nothing; iteration and uniqueness are exact; captures are the match's; projections agree with the interpreter; programs mean what their text says |
| `foreign_reads` | one call of one of three readers.  A lift of 3 fields of 2 values, 8 lifts, 2 agreeing, unlimited writes | accepted records stood; quiet records are accepted; lifts end |
| | 5 bytes of 2 values or unmapped, needles up to 3 bytes, copies up to 4, several range lists; strings of every bound and kind at two starts in windows of 2 bytes; 1 write | nothing steady is missed, nothing false is reported; strings stand or are refused for cause; both end |
| | GNU and System V tables of 3 symbols, 1 or 2 buckets, biases 0, 4 and 27, relocated and unrelocated pointers, hash words of 4 bits, any one word corrupted, short or contradictory metadata; two of the images change for ever | sound tables are accepted, lookups agree with a linear search; they end and stay inside their load segments; metadata agree |
| `main_image` | both classes with words of 6 and 7 bits, 12 proper images at biases from 0 to 103, 5 with broken notes, 52 that break one rule each; both callers, 2 attempts; the loader may publish and the program exit at any step | the image proven is the only one; the pointer is the published one; refusals have a cause; the second reading agrees with the first; captures end |
| `snapshot_stood`, `mappings_belong`, `unique_means_one`, `symbols_reachable`, `trim_irrelevant`, `subpatterns_closed` | as above | six sentences of the code's documentation that the code does not keep (section 6) |

Why the bounds are enough to be interesting: two nodes make every pattern of
edges between neighbours, cycles included; two writes can change a record and
restore it, which is the exception all coherence results have to name; two
attempts make a retry after every failure; two loader calls make an unlink
followed by a reuse of the node, four nodes a list with an inner one.  Three
fields make torn lifts whose first and last field agree.  Four changes
replace a library by another at the same place, merge two objects in one stale
region, leave an anchor unmapped, and fill a namespace, give it its own link map of the
dynamic linker and take that away again.  Copies of one to four bytes make windows
that end inside, before and behind every occurrence of the needles; strings end inside, at
the end of and across windows, one byte before a fault and at their bound.  The programs have a literal, an anchored, a probed and an unfiltered
plan, each with the images that end inside the pattern, two nested choices with
captures that only one of them writes, and control that leaves the program;
two lanes make a full vector, a rest, and a candidate in the second lane.  Three
symbols make a chain of two in one bucket, an uncovered symbol before the first
chain, and hashes that differ in the low bit only or share all their filter bits;
the load segments end exactly with their tables, so that one word too many is
outside, and a third segment leaves the address space.  The proper images include
one linked at a fixed position, paths with and without directories, tables in another
order, and the notes of every shape linkers write; the others break the vector, the
table, the geometry, the path, the dynamic table, the ELF header or a mapping, each
where one check and no other notices.  Every token of the pattern syntax occurs in
an accepted text and every error in a refused one.  Symmetry
(nodes, snapshotted objects) is used only in the `linker_gnu` instance, which
checks no liveness.

`MCForeignReads` runs `StableLift`, `ByteReads` and `ElfDynamic` beside each other: in each of its
behaviours one of the three is called and the other two rest where an earlier call of theirs was
refused.  They share no state, so each is examined as it would be alone.

`CHECK_DEADLOCK FALSE` everywhere: a capture, a lift, an inspection, a scan and a
string end, and a table that is refused serves no lookups.

Fairness: the readers (`Read`, in both reader modules), the lift (`Lifting`), the
scan and the string (`Scan`, `ReadString`), the lookups of `ElfDynamic` and the capture
of an image (`Capture`) are weakly fair, as each is a loop of one thread that never waits
for the target.  Note that a capture may retry for ever only if the policy lets it:
`Attempts` is finite, as in the code.  The target is never assumed to run, and never assumed to stop:
`StableLift` and `ElfDynamic` have no bound on writes; the bounds elsewhere keep the instance finite and do not help
termination, which rests on the visited sets, the attempt budget and the
advance of the window.

`RetainedCoexisted` deserves a word, as it is the reason why the reader walks
twice.  The forward walk lifts every node before it meets the null edge, the reverse walk
lifts them all again after it.  If each node is equal both times and was not
changed and changed back in between, all of them stood together at the moment in
the middle, and so did the head, which is lifted before and after both walks.

## 4. Theorems

All for arbitrary constants that satisfy the named assumptions.

`LinkerReaderProofs` (`ReaderTypes`, `ReaderReturnsChains`,
`ReaderFollowsNamespaces`, `ReaderReverseEdgesAgree`, `ReaderRespectsBudget`,
`ReaderRetainsOneInstant`) uses one inductive invariant, `ReaderInv`, kept by every step of the
reader whatever the target does (`AnyInv` adds the count of writes).  Next to the properties
themselves it says:

- `Forwards`: while the forward walk runs, the walk so far is linked from the
  head to the cursor, its nodes are distinct and have been visited;
- `Lifted`: the first lift of the current node has the required reverse edge;
- `Backwards`: during the reverse walk, its cursor and its required next edge
  are those of the walk at the position reached;
- `Coexisted`: during the reverse walk and the probe, every node of the walk that
  holds its retained value now, or has already been revalidated, held it at the
  `instant`, unless it recurred; the same of the head;
- `Series`: accepted namespaces form a chain whose next element is the cursor or
  the namespace under capture, and whose addresses have been visited;
- `Over`: a capture is over exactly when it has returned something.

None of these follows from the properties alone: that a retained list is a chain
is a fact about the last step, and rests on what every earlier step left behind.

Its second part (`SnapshotsTaken`, `QuietAttemptsSucceed`) puts the same reader beside
the loader, for every number of nodes, namespaces, objects, calls and attempts.  Its invariant is
`SystemInv`, the conjunction of

- `ReaderInv`, as above;
- `LoaderInv`: the bytes of every namespace are those of the list it holds, except for the
  edges the running call has still to write (`JobOK`, `Linked`); no node and no object stands
  twice; a namespace says that it is consistent unless a call works on it; the rendezvous
  form one chain;
- `Stood`: the list a namespace holds is among those it held since its capture began, and
  the memory of the `instant` held one of these;
- `Quiet`: in an attempt during which the loader did nothing, everything read so far is as
  it was read, so that each check the reader makes next must succeed.

`SnapshotsTaken` is the step simulation.  Unless something recurred, the nodes of an accepted
walk are a chain from the head to null in the memory of the `instant` (`RetainedCoexisted`); that
memory held a list of the namespace (`Stood`); and two such chains from one head are
equal.  All other steps stutter, begin a capture, change a list, drop an attempt or return.

`ReaderRespectsBudget` and `LiftTypes` state properties that no run lists: they are
proved for every budget and every record.

`StableLiftProofs` (`LiftTypes`, `StableRecordStood`, `QuietRecordSettles`)
rests on `TypeOK`, `Budget`, `Quiet` and `Kept`: since the run of equal lifts
began, a field that holds the lifted value now, or held it when the running lift
read it, has held it all along, unless it recurred.

`ElfDynamicProofs` (`DynamicTypes`, `LookupsStayInside`, `CollectedMetadataAgree`,
`LookupsAreLinearSearches`) assumes that words are
unsigned (`ImagesUnsigned`) and nothing of what they say.  `ReadsInside` is not
inductive: it speaks of the next access only, and the word read there decides the
one after it.  The invariant adds

- `MetadataOK`: between the terminator and the end of the header, the metadata
  lead to a string table, a symbol table and a hash table with enough words left
  in their segments (`Resolved`, `LoadWordsLeft`);
- `TableOK`: header, filter, buckets and chains of the validated table follow each
  other inside one segment, and `capacity` whole records fit the segment of the
  symbols;
- `Placed`: the lookup's index has a chain word from the moment it is taken, a
  record once it is used for one, and the name of the record begins inside the
  string table.

The image, unlike the memory, never changes; that is why geometry checked once
still holds.

`CollectedMetadataAgree` adds to that what the entries read so far have said (`MetaInv`), for
any number of entries in any order.  `LookupsAreLinearSearches` needs in addition, while the memory
has not changed and is `Built` (`ExactInv`): that the table has its geometry from what the
dynamic section says (`Sourced`, `HeaderSaid`, `TableSaid`), and for the running lookup that
every symbol with the wanted name is still ahead of it on its chain (`Progress`).  The filter may let a
name through that is not there and never stops one that is (`InFilter` against both bits of
every symbol); in a GNU chain the symbols of a bucket are consecutive and only the last
chain word is odd; a System V chain passes no symbol twice, so the walk's position on it is
a number that grows.  Nothing is assumed of the hash functions.

`ProcessImageProofs` (`CaptureTypes`, `CaptureProvesImage`,
`CaptureFollowsPublished`, `CaptureRefusalsExplained`, `LoadedImagesAreExact`) assumes that words are unsigned (`ProgramsUnsigned`), that
the classes have header sizes of their own (`WidthsPositive`), and that a linker
leaves `DT_DEBUG` null and a loader fills no other entry (`DebugUnfilled`).  The
invariant follows the stages of a capture and keeps what each has proven for the
later ones: `VectorOK` (the vector has one value of each type and the class is the one
of its header size), `HeadersOK` (the headers copied are the table's, in order),
`ImageOK` (the image is what that table describes, `Depicted`), `BytesOK` (the bytes are those at the interpreter, and the path
has passed its check), `EntriesOK` (no entry before the one read next is a terminator, at
most one is `DT_DEBUG`, and the pointer came from it).  That only one header of a kind exists is a fact about
the whole table, which no single step sees.  `CaptureRefusalsExplained` is the other direction: each refusal of a living program
contradicts one clause of `Proper`.  It adds `EarlyOK`: if the loader has not run while the
entries are read, it had not when the table was opened.

`LoadedImagesAreExact` is about the reading that goes on from such an image (`LoadedInv`).  The
image stays and its table is the one that its own header lists (`ReadingOK`, `TableWhole`), and
while notes are read (`NotesOK`), the reading is at a boundary between two notes of the
segment, every segment behind it was whole, and the identifier retained is that of the only
build-id note passed so far.  A note that begins at such a boundary ends at the next one, because its
fields are padded as they were written, and a segment whose rest is zero has no note left, as no
note begins with an empty name.

`InspectionProofs` (`InspectionTyped`, `LookupsAnswerExactly`,
`PublishedOwnershipUnique`, `RefusalsHaveACause`, `UnmovedObjectsDecided`) hold for any
set of objects, finite as an address space is (`ObjectAssumption`), of naturals
(`AddressAssumption`), and for every malformed answer with at least one fault
(`MalformedAssumption`).  The invariant says that loaded
objects never overlap (`Placed`), that the loader lists every mapped object, only the dynamic
linker more than once, and that always in the first namespace, too (`ListOnce`), that of
what was captured, too, nothing but the linker stands twice (`CapturedOnce`), that a prefix of a
genuine answer is admitted and the first fault of a malformed one lies ahead
(`GenuineAdmission`, `FaultAhead`), that the retained regions are those admitted
(`Admitted`), that each module normalized so far has the region that holds its anchor
(`NormalizedSoFar`), and what no stage has touched yet (`Untouched`).  Uniqueness of ownership rests on sorting: neighbours that
do not overlap in a sorted list mean that no two elements do, which is `RankSorts` of
`OrderLemmas` for the rank the model sorts by.  `LeastNatural` there, from well-founded
choice of a least element, replaces induction.

`ByteReadsProofs` (`ReadsTyped`, `ScansMissNothing`, `ScansReportTheNeedle`,
`TextsStand`, `TextRefusalsHaveACause`) hold for every memory, needle, copy size, list of
ranges, window size, bound and number of writes.  The invariant says that the buffer is
what the process holds at the window's address wherever nothing was written
(`ScanBuffer`, `TextBuffer`), that no chunk behind the cursor of a string had a terminator
(`TextBuffer`), and that behind the cursor of a scan every untouched occurrence is covered
(`ScanFound`): an occurrence that begins before the next window fits the present one,
because windows overlap by one byte less than the needle (`WindowCovered`), and
`memmem::find_iter` chose it or one that it starts inside (`FindIterExists`,
`FindIterCovers`, by a least position up to which no choice exists).

`PatternScanProofs` (`ScannerTypes`, `FilteredSearchesAreDirect`,
`IteratorsYieldEveryMatch`, `UniqueCountsMatches`, `CapturesBelongToTheMatch`,
`ProjectionsAreExact`) hold for every set of programs, images, bases, ranges and supplied
cells, any width of a byte and of a pointer, any number of lanes, anchor length and prefix
length.  They assume of the constants what the types of the code say
(`ProgramsAssumption` to `PrefixAssumption`), that a vector and an anchor are not empty
(`LanesAssumption`, `AnchorAssumption`) and `AddressAssumption`.  The invariant `IInv`
(theorem `ScannerInvariant`) is short:

- `SlotsInv`: the scanner is one the constructors make, the slots hold addresses, and, if
  the program has no alternatives and reads no capture back, the slots are `Clean`: each is
  still zero or is `Covered`, that is, any execution that succeeds from any start gives it a
  value that does not depend on what the slots held;
- `IteratorType`: the iterator goes on from where it began or later, inside the image;
- `IteratorInv`: while captures do not decide (`Steady`), it has yielded exactly the
  accepted starts before its position, and none is left when it is over.

What a step does is deep, so nearly all of the module is about the functions it is made of:

- *Executions.*  `RunIs` turns the recursion into an induction on the atoms still to go.
  `ExecBlind`: without `Check` and `Pir` two executions from one start decide alike whatever
  the slots held, and each slot ends equal in both or untouched in both (`Linked`).
- *Searches.*  `SearchSteps`: a search is a function of its start alone; the number of turns
  the model gives it is always enough.
- *The engine.*  `FixedFindFirst`: by literal, anchor, probes or wildcard, the engine finds the
  first start at which every cell agrees.  The search by anchor and the search by vectors are two
  instances of one lemma about searches that skip (`SearchingFinds`): no skip passes over
  an agreeing start.
- *Heads.*  `CompileHead`, `FittedHead` and `PrefixHead`: derived cells, supplied cells and the
  exact prefix are all the cells of the program's first `n` atoms (`Heads`).
  `HeadDecides` runs these atoms for two slices at once: where the cells do not agree the
  execution fails, having written only slots that the head saves again in every execution that
  passes it, which is why a filter may skip that execution although it would have left
  captures behind.  Together with the engine this is `FilteredSearchesAreDirect`; for a head that is
  the whole program it is `ProjectionsAreExact`, where the condition that the start has an
  address is that of the first `Save`.
- *Slots.*  Without alternatives every execution that succeeds makes the same saves, one
  distance of each gap; what a failed execution, a failed distance or an earlier call wrote is
  therefore written again (`CoveringRuns`, `RunCovering`, `ExecCovers`).  That is why `Clean` is
  preserved, and why a match leaves what it would leave in fresh slots (`CleanIsFresh`).

`Clean` is what makes `CapturesAreTheMatchs` inductive: the property speaks of the next
search, and what that leaves depends on slots that earlier calls left.

## 5. Model-checked only

Liveness (`CaptureEnds` of the reader and of the image, `LiftEnds`, `ReadsEnd`,
`WalksEnd`) is out of reach of the prover, with fairness and ENABLED, and stays with TLC.

`SourceMeant` is model-checked only: the parser and the reference it is compared with are
recursive operators, since groups nest, and the prover has no backend for a module that
reaches one.  That a text of any length means what its items say is an induction over data in
any case.  `PatternSource` keeps it out of the way of the proofs about `PatternScan`.

Every other invariant of a run is a theorem.  So is the safety part of the refinement;
`NamespaceSnapshots` promises no liveness.

## 6. Where documents and code disagree

- *One coherent GNU loader observation* (`reader.rs:93`, `snapshot.rs:378`): each
  namespace is coherent, the set of them need not be.
- *Mappings proven to belong to this module* (`ganymede-module/src/lib.rs:26`):
  true if the object was already there when the mappings were observed
  (`UnmovedInspectionDecided`), otherwise the module may get another's mapping.
- *Determine whether exactly one candidate start matches*
  (`ganymede-pattern-core/src/pattern/scan.rs:136`): the second search is given no
  slots, and a `Check` without its slot succeeds (`UniqueUnlessCompared` is what
  holds): a pattern that compares a capture can match once and be reported as
  ambiguous.
- *This returns an error when dynamic metadata, hash metadata, or foreign symbol tables
  violate their validated image geometry* (`ganymede-elf/src/process.rs:609`):
  `LoadedImage::read` looks for the ELF header at the load bias
  (`ganymede-elf/src/loaded.rs:80`).  The bias of an executable linked at a fixed position
  is 0, its header is at its first load address, and its symbols cannot be read although
  nothing is wrong with it (`SymbolsReachable`).
- *Remove terminal unconstrained movement that cannot affect acceptance*
  (`ganymede-pattern-core/src/pattern/syntax.rs:554`): movement has to stay inside the image, so
  at its end acceptance is affected.  `01 ?` matches the last byte of an image, which it would not
  if its movement had been kept (`TrimmedMovementIrrelevant`).  `SourceMeant` takes the trimmed
  meaning as the one intended, and says that nothing else is lost or added.
- *Parse one sequence until the requested closing delimiter or source end*
  (`syntax.rs:196`): a sequence also ends at `|` and `)`, whatever was requested, so a subpattern
  left open at the end of an alternative is accepted, as in `(%{01|10)01`
  (`SubpatternsClosed`); at the end of the source it is refused.

Two more were noticed while reading and have no run, since what they say is a matter of
words: the rendezvous is said to have *remained stable*
(`ganymede-linker-gnu/src/snapshot.rs:331`), where only its two readings agree; and
validated `PT_LOAD` extents are said to bound *access* to hash tables
(`ganymede-elf/src/dynamic.rs:215`), where the two header words are read before it is
asked how far their segment reaches.

One consequence contradicts no sentence and is easily overlooked.  `Snapshot::normalize`
(`ganymede-linker-gnu/src/snapshot.rs:468`) makes one collection of the modules of all
namespaces, and `Modules::new` refuses two modules with one mapping.  The dynamic linker's link
map in a namespace made by `dlmopen` has the mapping of the first one, so a process that has such
a link map is always refused with `AmbiguousMappingOwnership`, although nothing moved and no
observation is wrong.  `UnmovedInspectionDecided` says so; that an unmoved inspection
succeeds holds only without such a link map.

## 7. Not modelled, and the plan

What is left that could still be done:

1. The parser as a machine of one step per token with an explicit stack of groups, so that
   what `SourceMeant` says of a text can be said of the text parsed so far, and proved.
2. `Module::from_mappings` with several mappings of one module (no caller in the
   workspace), and `symbols` of a retained module, which composes
   `LoadedImage` and `ElfDynamic` a second time.
3. Composition of `ProcessImage` and `LinkerReader` in one instance, where a program that
   has just started retries both; today each has the other as one nondeterministic step.

Outside the plan, and why:

- the generated bindings and build scripts: C layouts, no behaviour;
- the procedural macro's token generation: a call of the parser at compile time, whose
  result `PatternSyntax` and `from_static_parts` (in `PatternScan` and `PatternSource`) cover;
- byte-preserving text beyond the final path component: classification as UTF-8 or
  ASCII keeps no state and decides nothing;
- `ganymede-process/src/process.rs` and catalejo: hand an address to a kernel module; what a
  read may return is part of every module that reads;
- the accessors of `ganymede-linker-gnu/src/snapshot.rs`: they return what is retained.
