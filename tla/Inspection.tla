------------------------------ MODULE Inspection ------------------------------
(***************************************************************************)
(* An end-to-end inspection (ganymede::loader): the caller takes a mapping *)
(* snapshot of the process, the loader snapshot is captured later, and its *)
(* link maps are normalized into modules against the earlier mapping       *)
(* snapshot.  The process may load and unload objects all the while.       *)
(*                                                                         *)
(* The loader capture is one step here: it returns the link maps of one    *)
(* instant, as LinkerGnuLoader shows of one namespace.  It returns those of*)
(* all namespaces, one after the other: Snapshot::normalize makes one      *)
(* collection of modules of them.  The dynamic linker is mapped once, and  *)
(* a namespace made by dlmopen lists it through a link map of its own with *)
(* the same address (its proxy, glibc's dl-load.c).                        *)
(***************************************************************************)
EXTENDS ProcessSnapshot, FiniteSets

CONSTANTS
  Objs,         (* shared objects                                             *)
  Pinned,       (* the program, the vDSO and the dynamic linker, mapped for   *)
                (* the process's life                                         *)
  Linker,       (* the dynamic linker                                         *)
  Spaces,       (* namespaces, the first one being the program's              *)
  Size,         (* pages an object occupies                                   *)
  FileOf,       (* the file an object is mapped from; NoFile for the vDSO     *)
  Malformed,    (* kernel answers that describe no address space              *)
  MaxChanges    (* bound on changes of the lists during one inspection        *)

ASSUME ObjectAssumption ==
  /\ IsFiniteSet(Objs)
  /\ Size \in [Objs -> Nat \ {0}]
  /\ FileOf \in [Objs -> Files \cup {NoFile}]
  /\ Pinned \subseteq Objs
  /\ Linker \in Pinned
  /\ Spaces \in Nat \ {0}
  /\ Malformed \subseteq Seq(Layout)
  /\ MaxChanges \in Nat

(* Each malformed answer has a layout that is no layout of an address space: *)
(* empty, contradicting itself, or starting inside the layout before it.     *)
ASSUME MalformedAssumption ==
  \A ls \in Malformed : \E i \in DOMAIN ls :
    \/ ls[i].end <= ls[i].start
    \/ ls[i].file /\ ls[i].anonymous
    \/ ~ls[i].file /\ ls[i].id # NoFile
    \/ i > 1 /\ ls[i].start < ls[i - 1].end

VARIABLES
  base,         (* where each loaded object is mapped                         *)
  loaded,       (* the loader's lists, one namespace after the other          *)
  captured,     (* link maps of the loader snapshot: object and l_ld          *)
  modules,      (* modules normalized so far                                  *)
  changes,      (* changes of the lists so far                                *)
  reported,     (* history: base when the kernel answered                     *)
  genuine       (* history: the answer described the address space            *)

targetVars == <<base, loaded, changes>>
histVars == <<reported, genuine>>
vars == <<stage, snapshotVars, targetVars, captured, modules, histVars>>

Unloaded == -1

MappedIn(b) == {o \in Objs : b[o] # Unloaded}
Extent(b, o) == b[o] .. (b[o] + Size[o] - 1)

(* l_ld points into the object's last page.                                  *)
Anchor(o) == base[o] + Size[o] - 1

LayoutOf(b, o) ==
  [start |-> b[o], end |-> b[o] + Size[o], read |-> TRUE,
   file |-> FileOf[o] # NoFile, anonymous |-> FALSE, id |-> FileOf[o]]

-----------------------------------------------------------------------------
(* The process.                                                              *)

Change ==
  /\ stage # "done"
  /\ changes < MaxChanges
  /\ changes' = changes + 1
  /\ UNCHANGED <<stage, snapshotVars, captured, modules, histVars>>

Entries == [obj : Objs, space : 1 .. Spaces]

(* A link map goes to the end of its namespace's list.                       *)
Link(o, s) ==
  \E i \in 1 .. (Len(loaded) + 1) :
    /\ \A j \in DOMAIN loaded : j < i <=> loaded[j].space <= s
    /\ loaded' = InsertAt(loaded, i, [obj |-> o, space |-> s])

Load ==
  \E o \in Objs, s \in 1 .. Spaces, a \in Addresses :
    /\ Change
    /\ base[o] = Unloaded
    /\ a + Size[o] \in Addresses
    /\ \A p \in MappedIn(base) : Extent(base, p) \cap (a .. (a + Size[o] - 1)) = {}
    /\ base' = [base EXCEPT ![o] = a]
    /\ Link(o, s)

Unload ==
  \E i \in DOMAIN loaded :
    /\ Change
    /\ loaded[i].obj \notin Pinned
    /\ base' = [base EXCEPT ![loaded[i].obj] = Unloaded]
    /\ loaded' = RemoveAt(loaded, i)

(* An object of a further namespace needs the linker: its link map is made   *)
(* there, and nothing is mapped.                                             *)
LinkProxy ==
  \E s \in 2 .. Spaces :
    /\ Change
    /\ \E i \in DOMAIN loaded : loaded[i].space = s
    /\ \A i \in DOMAIN loaded : loaded[i].space = s => loaded[i].obj # Linker
    /\ Link(Linker, s)
    /\ UNCHANGED base

(* It is closed with its namespace.                                          *)
DropProxy ==
  \E i \in DOMAIN loaded :
    /\ Change
    /\ loaded[i].obj = Linker /\ loaded[i].space # 1
    /\ loaded' = RemoveAt(loaded, i)
    /\ UNCHANGED base

-----------------------------------------------------------------------------
(* The observer.                                                             *)

(* The kernel lists what is mapped by address: the i-th layout is the one    *)
(* with i layouts up to its address.                                         *)
LayoutsOf(b) == {LayoutOf(b, o) : o \in MappedIn(b)}

LayoutsUpTo(l) == {k \in LayoutsOf(base) : k.start <= l.start}

Answer ==
  [i \in 1 .. Cardinality(LayoutsOf(base)) |->
     CHOOSE l \in LayoutsOf(base) : Cardinality(LayoutsUpTo(l)) = i]

(* Process::snapshot queries the kernel once.                                *)
Query ==
  /\ stage = "query"
  /\ \/ layouts' = Answer /\ genuine' = TRUE
     \/ layouts' \in Malformed /\ genuine' = FALSE
  /\ reported' = base
  /\ stage' = "admit"
  /\ UNCHANGED <<regions, failure, targetVars, captured, modules>>

(* The query itself failed: there is no snapshot to inspect.                 *)
QueryFails ==
  /\ stage = "query"
  /\ failure' = "Io"
  /\ stage' = "done"
  /\ UNCHANGED <<layouts, regions, targetVars, captured, modules, histVars>>

FinishSnapshot ==
  /\ stage = "admit"
  /\ layouts = <<>>
  /\ stage' = "capture"
  /\ UNCHANGED <<snapshotVars, targetVars, captured, modules, histVars>>

(* loader::Snapshot::with_retry returned the link maps of every namespace.   *)
Capture ==
  /\ stage = "capture"
  /\ captured' = [i \in DOMAIN loaded |-> [obj |-> loaded[i].obj, anchor |-> Anchor(loaded[i].obj)]]
  /\ stage' = "normalize"
  /\ UNCHANGED <<snapshotVars, targetVars, modules, histVars>>

(* It failed: no inspection.                                                 *)
CaptureFails ==
  /\ stage = "capture"
  /\ failure' = "Capture"
  /\ stage' = "done"
  /\ UNCHANGED <<layouts, regions, targetVars, captured, modules, histVars>>

Pending == Len(modules) < Len(captured)
NextMap == captured[Len(modules) + 1]

(* Module::from_anchor: the region that holds l_ld is the module's mapping,  *)
(* its file is the module's file.                                            *)
FileIdentity(r) == IF r.backing.kind = "file" THEN r.backing.id ELSE NoFile

NormalizeModule ==
  /\ stage = "normalize"
  /\ Pending
  /\ \E r \in RegionAt(NextMap.anchor) :
       modules' = Append(modules, [name |-> NextMap.obj, mapping |-> r,
                                   file |-> FileIdentity(r)])
  /\ UNCHANGED <<stage, snapshotVars, targetVars, captured, histVars>>

MissingAnchor ==
  /\ stage = "normalize"
  /\ Pending
  /\ RegionAt(NextMap.anchor) = {}
  /\ failure' = "MissingAnchor"
  /\ modules' = <<>>
  /\ stage' = "done"
  /\ UNCHANGED <<layouts, regions, targetVars, captured, histVars>>

(* Modules::new: the retained ranges, sorted, must be disjoint from their    *)
(* neighbour unless both belong to one module.                               *)
OwnedRanges == {[mapping |-> modules[i].mapping, module |-> i] : i \in DOMAIN modules}

RangesUpTo(r) ==
  {s \in OwnedRanges :
     \/ s.mapping.start < r.mapping.start
     \/ s.mapping.start = r.mapping.start /\ s.module <= r.module}

Ranges ==
  [i \in 1 .. Cardinality(OwnedRanges) |->
     CHOOSE r \in OwnedRanges : Cardinality(RangesUpTo(r)) = i]

LeadingPair(s) == {i \in {1} : 1 < Len(s)}
Neighbours(s) == 1 .. (Len(s) - 1)

SameMapping(r, s) == r.mapping = s.mapping
SameModule(r, s) == r.module = s.module

Unambiguous ==
  \A i \in Neighbours(Ranges) :
    \/ SameModule(Ranges[i], Ranges[i + 1])
    \/ Ranges[i].mapping.end <= Ranges[i + 1].mapping.start

Publish ==
  /\ stage = "normalize"
  /\ ~Pending
  /\ Unambiguous
  /\ stage' = "done"
  /\ UNCHANGED <<snapshotVars, targetVars, captured, modules, histVars>>

AmbiguousOwnership ==
  /\ stage = "normalize"
  /\ ~Pending
  /\ ~Unambiguous
  /\ failure' = "AmbiguousMappingOwnership"
  /\ modules' = <<>>
  /\ stage' = "done"
  /\ UNCHANGED <<layouts, regions, targetVars, captured, histVars>>

Validate ==
  \/ AdmitLayout /\ UNCHANGED <<targetVars, captured, modules, histVars>>
  \/ RejectLayout /\ UNCHANGED <<targetVars, captured, modules, histVars>>

Observe ==
  \/ Query \/ QueryFails \/ Validate \/ FinishSnapshot \/ Capture \/ CaptureFails
  \/ NormalizeModule \/ MissingAnchor \/ Publish \/ AmbiguousOwnership

Next == Observe \/ Load \/ Unload \/ LinkProxy \/ DropProxy

Init ==
  /\ stage = "query"
  /\ layouts = <<>> /\ regions = <<>> /\ failure = "none"
  /\ captured = <<>> /\ modules = <<>>
  /\ changes = 0
  /\ \E place \in [Pinned -> Addresses] :
       /\ base = [o \in Objs |-> IF o \in Pinned THEN place[o] ELSE Unloaded]
       /\ \A o \in Pinned : place[o] + Size[o] \in Addresses
       /\ \A o, p \in Pinned : o # p => Extent(base, o) \cap Extent(base, p) = {}
  /\ loaded = [i \in DOMAIN SetToSeq(Pinned) |-> [obj |-> SetToSeq(Pinned)[i], space |-> 1]]
  /\ reported = base /\ genuine = FALSE

Spec == Init /\ [][Next]_vars

-----------------------------------------------------------------------------
(* Lookups on the published modules.                                         *)

Published == stage = "done" /\ failure = "none"

ModuleAt(a) == SelectInSeq(modules, LAMBDA m : RegionHolds(m.mapping, a))

(* Properties.                                                               *)

(* Every variable holds a value of its type.                                 *)
TypeOK ==
  /\ stage \in {"query", "admit", "capture", "normalize", "done"}
  /\ layouts \in Seq(Layout)
  /\ regions \in Seq(Region)
  /\ failure \in {"none", "Io", "InvalidRegion", "OverlappingRegion",
                  "ConflictingBackingAttributes", "UnexpectedFileProvenance",
                  "Capture", "MissingAnchor", "AmbiguousMappingOwnership"}
  /\ base \in [Objs -> Addresses \cup {Unloaded}]
  /\ reported \in [Objs -> Addresses \cup {Unloaded}]
  /\ loaded \in Seq(Entries)
  /\ captured \in Seq([obj : Objs, anchor : Int])
  /\ modules \in Seq([name : Objs, mapping : Region, file : Files \cup {NoFile}])
  /\ changes \in 0 .. MaxChanges
  /\ genuine \in BOOLEAN

(* An inspection is all or nothing: it holds one module per captured link    *)
(* map, in order, each with the snapshot's region that holds its anchor, and *)
(* no address belongs to two of them (lib.rs: "address lookup has at most    *)
(* one result").                                                             *)
OwnershipUnique ==
  /\ Published =>
       /\ Len(modules) = Len(captured)
       /\ \A i \in DOMAIN modules :
            /\ modules[i].name = captured[i].obj
            /\ RegionHolds(modules[i].mapping, captured[i].anchor)
            /\ \A a \in Addresses : RegionHolds(modules[i].mapping, a) => ModuleAt(a) = i
  /\ failure # "none" => modules = <<>>

(* Objects that held an address when the kernel answered.                    *)
Holders(a) == {o \in MappedIn(reported) : a \in Extent(reported, o)}

(* An inspection fails only for cause: a layout is refused only in a         *)
(* malformed answer, and a link map only if its anchor was not mapped when   *)
(* the kernel answered or another link map's anchor fell into what was one   *)
(* mapping then.                                                             *)
RefusalExplained ==
  /\ failure \in {"InvalidRegion", "OverlappingRegion",
                 "ConflictingBackingAttributes", "UnexpectedFileProvenance"} => ~genuine
  /\ failure = "MissingAnchor" =>
       \E i \in DOMAIN captured : Holders(captured[i].anchor) = {}
  /\ failure = "AmbiguousMappingOwnership" =>
       \E i, j \in DOMAIN captured :
         i # j /\ Holders(captured[i].anchor) \cap Holders(captured[j].anchor) # {}

(* Every captured object was already where the kernel reported it.           *)
Unmoved ==
  /\ genuine
  /\ \A i \in DOMAIN captured :
       LET o == captured[i].obj IN
       reported[o] # Unloaded /\ captured[i].anchor = reported[o] + Size[o] - 1

(* A further namespace lists the dynamic linker, too.                        *)
Proxied ==
  \E i, j \in DOMAIN captured : i # j /\ captured[i].obj = Linker /\ captured[j].obj = Linker

(* An inspection of objects that did not move cannot fail in normalization   *)
(* and gives each object its own mapping and its own file, unless a further  *)
(* namespace lists the linker; then it is always refused, since both link    *)
(* maps claim the linker's mapping (snapshot.rs:468 normalizes the modules   *)
(* of all namespaces together).                                              *)
UnmovedInspectionDecided ==
  stage = "done" /\ Unmoved =>
    /\ ~Proxied => failure \in {"none", "Capture"}
    /\ Proxied => failure = "AmbiguousMappingOwnership"
    /\ \A i \in DOMAIN modules :
         LET o == modules[i].name IN
         /\ modules[i].mapping.start = reported[o]
         /\ modules[i].mapping.end = reported[o] + Size[o]
         /\ modules[i].file = FileOf[o]

(* A published module's mapping is one of its own object (ganymede-module,   *)
(* Module: "Process mappings proven to belong to this module observation").  *)
MappingsBelong ==
  Published => \A i \in DOMAIN modules : modules[i].file = FileOf[modules[i].name]

=============================================================================
