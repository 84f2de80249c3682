--------------------------- MODULE ProcessSnapshot ---------------------------
(***************************************************************************)
(* The mapping snapshot of ganymede-process: Process::snapshot validates   *)
(* the kernel's layouts one by one and keeps them as regions; region_at    *)
(* and readable_bytes answer from those regions for ever after, whatever   *)
(* the process has done since.                                             *)
(***************************************************************************)
EXTENDS Integers, Sequences, SequencesExt

CONSTANTS
  Addresses,    (* process addresses, a set of naturals                       *)
  Files,        (* file identities: device and inode                          *)
  NoFile        (* provenance that is all zero                                *)

ASSUME AddressAssumption == Addresses \subseteq Nat

(* One kernel layout: file and anonymous are two of its attribute bits.      *)
Layout == [start : Addresses, end : Addresses, read : BOOLEAN,
           file : BOOLEAN, anonymous : BOOLEAN, id : Files \cup {NoFile}]

Backings == [kind : {"file"}, id : Files \cup {NoFile}]
              \cup [kind : {"anonymous", "special"}, id : {NoFile}]

Region == [start : Addresses, end : Addresses, read : BOOLEAN, backing : Backings]

VARIABLES
  stage,        (* the observer's next step                                   *)
  layouts,      (* layouts of the kernel's answer not yet validated           *)
  regions,      (* Snapshot: the region list                                  *)
  failure       (* why the observation failed, or none                        *)

snapshotVars == <<layouts, regions, failure>>

-----------------------------------------------------------------------------
(* Validation of one layout against the last retained region.                *)

Nonempty(l) == l.start < l.end

ApartFromLast(l) == regions # <<>> => Last(regions).end < l.start
Nonoverlapping(l) == regions # <<>> => Last(regions).end <= l.start

ConflictOnly(l) == IF l.file /\ l.anonymous THEN "ConflictingBackingAttributes" ELSE "none"

BackingFault(l) ==
  IF l.file /\ l.anonymous THEN "ConflictingBackingAttributes"
  ELSE IF ~l.file /\ l.id # NoFile THEN "UnexpectedFileProvenance"
  ELSE "none"

LayoutFault(l) ==
  IF ~Nonempty(l) THEN "InvalidRegion"
  ELSE IF ~Nonoverlapping(l) THEN "OverlappingRegion"
  ELSE BackingFault(l)

BackingOf(l) ==
  [kind |-> IF l.file THEN "file" ELSE IF l.anonymous THEN "anonymous" ELSE "special",
   id |-> l.id]

RegionOf(l) ==
  [start |-> l.start, end |-> l.end, read |-> l.read, backing |-> BackingOf(l)]

(* The next layout is retained as a region.                                  *)
AdmitLayout ==
  /\ stage = "admit"
  /\ layouts # <<>>
  /\ LayoutFault(Head(layouts)) = "none"
  /\ regions' = Append(regions, RegionOf(Head(layouts)))
  /\ layouts' = Tail(layouts)
  /\ UNCHANGED <<stage, failure>>

(* The next layout is malformed: the whole snapshot fails.                   *)
RejectLayout ==
  /\ stage = "admit"
  /\ layouts # <<>>
  /\ LayoutFault(Head(layouts)) # "none"
  /\ failure' = LayoutFault(Head(layouts))
  /\ layouts' = <<>>
  /\ regions' = <<>>
  /\ stage' = "done"

-----------------------------------------------------------------------------
(* Lookups.                                                                  *)

RegionHolds(r, a) == r.start <= a /\ a < r.end

StaysBelow(r, a) == r.end < a
EndsBefore(r, a) == r.end <= a

(* partition_point: how many leading regions end at or before the address.   *)
PartitionPoint(a) ==
  LET i == SelectInSeq(regions, LAMBDA r : ~EndsBefore(r, a))
  IN IF i = 0 THEN Len(regions) ELSE i - 1

(* The region at an address, or none, as a set of at most one.               *)
RegionAt(a) ==
  LET i == PartitionPoint(a) + 1
  IN {regions[j] : j \in {k \in DOMAIN regions : k = i /\ RegionHolds(regions[k], a)}}

ReadableBytes(a) == {r.end - a : r \in {s \in RegionAt(a) : s.read}}

-----------------------------------------------------------------------------
(* Properties.                                                               *)

(* Retained regions are nonempty, ordered and pairwise disjoint, whatever    *)
(* the kernel answers (snapshot.rs: "Regions are nonempty, ordered by        *)
(* address, and pairwise nonoverlapping"), though each layout is compared    *)
(* with its predecessor only.                                                *)
RegionsOrdered ==
  \A i \in DOMAIN regions :
    /\ regions[i].start < regions[i].end
    /\ \A j \in DOMAIN regions : i < j => regions[i].end <= regions[j].start

(* region_at finds the region of every mapped address and nothing for any    *)
(* other; readable_bytes never reaches past that region.                     *)
LookupsExact ==
  \A a \in Addresses :
    /\ RegionAt(a) = {r \in ToSet(regions) : RegionHolds(r, a)}
    /\ \A n \in ReadableBytes(a) : \A b \in a .. (a + n - 1) : RegionAt(b) = RegionAt(a)

=============================================================================
