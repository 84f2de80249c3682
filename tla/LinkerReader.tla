---------------------------- MODULE LinkerReader ----------------------------
(***************************************************************************)
(* The GNU loader snapshot reader of ganymede-linker-gnu: one process      *)
(* reads the rendezvous records and the link-map lists of another process  *)
(* while that process's loader may rewrite them.                           *)
(*                                                                         *)
(* The module holds the foreign memory (what a lift returns), the reader's *)
(* own state and one action per foreign access of the reader.  Who writes  *)
(* the memory, and how, is left to the modules that extend this one.       *)
(*                                                                         *)
(* A lift is one atomic step that returns the record or, if the record was *)
(* written since the reader's last step, may report it unstable: StableLift*)
(* justifies that step.                                                    *)
(***************************************************************************)
EXTENDS Naturals, Sequences

CONSTANTS
  Maps,         (* addresses of link_map nodes                                *)
  Rdvs,         (* addresses of r_debug records, base or extended             *)
  Root,         (* the r_debug address found through DT_DEBUG                 *)
  Null,         (* the null foreign pointer                                   *)
  Unmapped,     (* what an unreadable address holds                           *)
  Objs,         (* l_addr, l_name and l_ld of a node, as one identity         *)
  Snapshotted,  (* objects whose l_name lies in the process mapping snapshot  *)
  Attempts      (* RetryPolicy: complete attempts, at least one               *)

(* Foreign records.                                                          *)

MapPtr == Maps \cup {Null}
RdvPtr == Rdvs \cup {Null}

LinkMap == [obj : Objs, next : MapPtr, prev : MapPtr]

LoaderStates == {"consistent", "add", "delete"}

Debug == [version : {1, 2}, state : LoaderStates, map : MapPtr, next : RdvPtr]

(* Snapshot's Rendezvous: the extended identity and the next edge exist only *)
(* for protocol version 2 and later.                                         *)
Rendezvous == [debug : Rdvs, extended : BOOLEAN, version : {1, 2},
               state : LoaderStates, map : MapPtr, next : RdvPtr]

ASSUME ReaderAssumption ==
  /\ Root \in Rdvs
  /\ Null \notin Maps \cup Rdvs
  /\ Maps \cap Rdvs = {}
  /\ Unmapped \notin LinkMap \cup Debug
  /\ Snapshotted \subseteq Objs
  /\ Attempts \in Nat \ {0}

VARIABLES
  mem,          (* link-map memory                                            *)
  rdv,          (* rendezvous memory                                          *)
  named,        (* objects whose l_name string can be read now                *)
  touched,      (* records written since the reader's last step               *)
  pc,           (* the reader's next access                                   *)
  attempt,      (* number of the running attempt                              *)
  last,         (* Retry::run: reason of the last retryable failure           *)
  result,       (* what the capture returned                                  *)
  cursor,       (* Namespaces::read: next extended rendezvous                 *)
  nsSeen,       (* Namespaces::read: rendezvous already visited               *)
  namespaces,   (* Namespaces::read: namespaces accepted in this attempt      *)
  before,       (* Capture::read: the rendezvous read before the modules      *)
  current,      (* Forward: next node                                         *)
  previous,     (* Forward: required reverse edge of current                  *)
  seen,         (* Forward: nodes already visited                             *)
  node,         (* StableMap: first lift of current                           *)
  walk,         (* Walk: nodes yielded by the forward traversal               *)
  back,         (* Reverse: nodes left, its current and its next              *)
  instant,      (* history: the memory when the forward traversal ended       *)
  recurred      (* history: a retained record was changed and later restored  *)

heapVars  == <<mem, rdv, named>>
nsVars    == <<cursor, nsSeen, namespaces>>
walkVars  == <<current, previous, seen, node, walk, back>>
histVars  == <<instant, recurred>>
readerVars ==
  <<pc, attempt, last, result, nsVars, before, walkVars>>

-----------------------------------------------------------------------------
(* A rendezvous as the reader retains it. *)
RendezvousOf(d, extended) ==
  [debug |-> d, extended |-> extended, version |-> rdv[d].version,
   state |-> rdv[d].state, map |-> rdv[d].map,
   next |-> IF extended THEN rdv[d].next ELSE Null]

(* Failure classes of one attempt.                                           *)
BusyReasons == {"LinkerState", "UnstableStructure", "StructureChanged"}
InconsistentReasons ==
  {"NamespaceCycle", "NamespaceProtocol", "ModuleCycle", "PreviousMismatch",
   "ReverseMapMismatch", "NextMismatch", "ReverseDidNotTerminate"}
FatalReasons == {"ForeignAccess", "UnreadableName"}

(* The head of a namespace's link-map list, if its rendezvous can be read.   *)
HeadOf(r) == IF r = Unmapped THEN Unmapped ELSE r.map

NoRendezvous == [debug |-> Root, extended |-> FALSE, version |-> 1,
                 state |-> "consistent", map |-> Null, next |-> Null]
NoInstant == [mem |-> [m \in Maps |-> Unmapped], head |-> Null]
NoBack == [left |-> 0, current |-> Null, next |-> Null]

-----------------------------------------------------------------------------
(* Checks the reader applies to a lifted record.                             *)

IsConsistent(r) == r.state = "consistent"

HasReverseEdge(n, expected) == n.prev = expected

SameForwardEdge(a, b) == a.next = b.next
SameNode(a, b) == a = b

SameIdentity(a, b) == a.debug = b.debug
SameRendezvous(a, b) == a = b

NeverVisited(p, visited) == FALSE
Visited(p, visited) == p \in visited

-----------------------------------------------------------------------------
(* A reader step only reads the foreign memory.                              *)
ReadOnly == touched' = {} /\ UNCHANGED heapVars

(* Retry::run.  Every local of the attempt is dropped with it.               *)

DropWalk ==
  /\ current' = Null /\ previous' = Null /\ seen' = {} /\ walk' = <<>>
  /\ node' = Unmapped /\ back' = NoBack
  /\ instant' = NoInstant /\ recurred' = FALSE

KeepNamespaces ==
  /\ cursor' = Null /\ nsSeen' = {} /\ UNCHANGED namespaces
  /\ before' = NoRendezvous
  /\ DropWalk

DropAttempt ==
  /\ cursor' = Null /\ nsSeen' = {} /\ namespaces' = <<>>
  /\ before' = NoRendezvous
  /\ DropWalk

IsFatal(reason) == reason \in FatalReasons

SameAttempt(a) == a
NextAttempt(a) == a + 1

RetryForever(a) == FALSE
BudgetSpent(a) == a = Attempts

Fail(reason) ==
  /\ DropAttempt
  /\ IF IsFatal(reason)
     THEN /\ pc' = "done"
          /\ result' = [outcome |-> "fatal", reason |-> reason]
          /\ UNCHANGED <<attempt, last>>
     ELSE /\ last' = reason
          /\ IF BudgetSpent(attempt)
             THEN /\ pc' = "done"
                  /\ result' = [outcome |-> "exhausted", reason |-> reason]
                  /\ UNCHANGED attempt
             ELSE /\ pc' = "initial"
                  /\ attempt' = NextAttempt(attempt)
                  /\ UNCHANGED result

Return ==
  /\ pc' = "done"
  /\ result' = [outcome |-> "ok", reason |-> "none"]
  /\ UNCHANGED <<attempt, last>>

-----------------------------------------------------------------------------
(* Namespaces::read and Capture::read, up to the forward traversal.          *)

BeginCapture(r) ==
  /\ before' = r
  /\ current' = r.map /\ previous' = Null /\ seen' = {} /\ walk' = <<>>
  /\ node' = Unmapped /\ back' = NoBack
  /\ instant' = NoInstant /\ recurred' = FALSE
  /\ pc' = "forward"
  /\ UNCHANGED <<attempt, last, result>>

(* What is wrong with the rendezvous lifted first.                           *)
InitialFault ==
  IF rdv[Root] = Unmapped THEN "ForeignAccess"
  ELSE IF ~IsConsistent(rdv[Root]) THEN "LinkerState"
  ELSE "none"

(* The initial Consistent::read of the primary rendezvous; version 1 has one *)
(* namespace, later versions start the extended chain at the same address.   *)
ReadInitial ==
  /\ ReadOnly
  /\ pc = "initial"
  /\ InitialFault = "none"
  /\ IF rdv[Root].version < 2
     THEN /\ BeginCapture(RendezvousOf(Root, FALSE))
          /\ UNCHANGED nsVars
     ELSE /\ cursor' = Root
          /\ nsSeen' = {}
          /\ pc' = "namespace"
          /\ UNCHANGED <<attempt, last, result, namespaces, before, walkVars, histVars>>

ReadInitialFails ==
  /\ ReadOnly
  /\ pc = "initial"
  /\ InitialFault # "none"
  /\ Fail(InitialFault)

NamespaceFault ==
  IF Visited(cursor, nsSeen) THEN "NamespaceCycle"
  ELSE IF rdv[cursor] = Unmapped THEN "ForeignAccess"
  ELSE IF ~IsConsistent(rdv[cursor]) THEN "LinkerState"
  ELSE IF rdv[cursor].version < 2 THEN "NamespaceProtocol"
  ELSE "none"

(* One turn of the extended chain's loop: lift the record and capture it.    *)
ReadNamespace ==
  /\ ReadOnly
  /\ pc = "namespace"
  /\ cursor # Null
  /\ NamespaceFault = "none"
  /\ nsSeen' = nsSeen \cup {cursor}
  /\ BeginCapture(RendezvousOf(cursor, TRUE))
  /\ UNCHANGED <<cursor, namespaces>>

ReadNamespaceFails ==
  /\ ReadOnly
  /\ pc = "namespace"
  /\ cursor # Null
  /\ NamespaceFault # "none"
  /\ Fail(NamespaceFault)

(* The chain ended: the snapshot is complete.                                *)
EndOfNamespaces ==
  /\ ReadOnly
  /\ pc = "namespace"
  /\ cursor = Null
  /\ Return
  /\ UNCHANGED <<nsVars, before, walkVars, histVars>>

-----------------------------------------------------------------------------
(* Forward::step.                                                            *)

ForwardFault ==
  IF Visited(current, seen) THEN "ModuleCycle"
  ELSE IF mem[current] = Unmapped THEN "ForeignAccess"
  ELSE IF ~HasReverseEdge(mem[current], previous) THEN "PreviousMismatch"
  ELSE "none"

(* StableMap::read and StableMap::previous for the next node.                *)
ReadNode ==
  /\ ReadOnly
  /\ pc = "forward"
  /\ current # Null
  /\ ForwardFault = "none"
  /\ seen' = seen \cup {current}
  /\ node' = mem[current]
  /\ pc' = "name"
  /\ UNCHANGED <<attempt, last, result, nsVars, before, current, previous, walk,
                 back, histVars>>

ReadNodeFails ==
  /\ ReadOnly
  /\ pc = "forward"
  /\ current # Null
  /\ ForwardFault # "none"
  /\ Fail(ForwardFault)

(* StableMap::module: the name's extent comes from the mapping snapshot, its *)
(* bytes from the process as it is now.                                      *)
NameReadable(obj) == obj \in Snapshotted /\ obj \in named

ReadName ==
  /\ ReadOnly
  /\ pc = "name"
  /\ NameReadable(node.obj)
  /\ pc' = "recheck"
  /\ UNCHANGED <<attempt, last, result, nsVars, before, walkVars, histVars>>

ReadNameFails ==
  /\ ReadOnly
  /\ pc = "name"
  /\ ~NameReadable(node.obj)
  /\ Fail("UnreadableName")

RecheckFault ==
  IF mem[current] = Unmapped THEN "ForeignAccess"
  ELSE IF ~SameNode(mem[current], node) THEN "StructureChanged"
  ELSE "none"

(* StableMap::module: the second lift equals the first, the node is yielded  *)
(* and the cursor follows its next edge.                                     *)
YieldNode ==
  /\ ReadOnly
  /\ pc = "recheck"
  /\ RecheckFault = "none"
  /\ walk' = Append(walk, [map |-> current, node |-> mem[current]])
  /\ previous' = current
  /\ current' = mem[current].next
  /\ node' = Unmapped
  /\ pc' = "forward"
  /\ UNCHANGED <<attempt, last, result, nsVars, before, seen, back, histVars>>

YieldNodeFails ==
  /\ ReadOnly
  /\ pc = "recheck"
  /\ RecheckFault # "none"
  /\ Fail(RecheckFault)

FirstMap(list) == IF list = <<>> THEN Null ELSE list[1].map
LastMap(list) == IF list = <<>> THEN Null ELSE list[Len(list)].map

(* The forward traversal met the null edge: Reverse::new.                    *)
EndOfForward ==
  /\ ReadOnly
  /\ pc = "forward"
  /\ current = Null
  /\ back' = [left |-> Len(walk), current |-> LastMap(walk), next |-> Null]
  /\ instant' = [mem |-> mem,
                 head |-> HeadOf(rdv[before.debug])]
  /\ pc' = "reverse"
  /\ UNCHANGED <<attempt, last, result, nsVars, before, current, previous, seen,
                 node, walk, recurred>>

-----------------------------------------------------------------------------
(* Reverse::run.                                                             *)

ReverseFault ==
  IF back.current # walk[back.left].map THEN "ReverseMapMismatch"
  ELSE IF mem[back.current] = Unmapped THEN "ForeignAccess"
  ELSE IF ~SameNode(mem[back.current], walk[back.left].node) THEN "StructureChanged"
  ELSE IF mem[back.current].next # back.next THEN "NextMismatch"
  ELSE "none"

RevalidateNode ==
  /\ ReadOnly
  /\ pc = "reverse"
  /\ back.left > 0
  /\ ReverseFault = "none"
  /\ back' = [left |-> back.left - 1,
              current |-> mem[back.current].prev,
              next |-> back.current]
  /\ UNCHANGED <<pc, attempt, last, result, nsVars, before, current, previous,
                 seen, node, walk, histVars>>

RevalidateNodeFails ==
  /\ ReadOnly
  /\ pc = "reverse"
  /\ back.left > 0
  /\ ReverseFault # "none"
  /\ Fail(ReverseFault)

EndOfReverse ==
  /\ ReadOnly
  /\ pc = "reverse"
  /\ back.left = 0
  /\ IF back.current = Null
     THEN /\ pc' = "probe"
          /\ UNCHANGED <<attempt, last, result, nsVars, before, walkVars, histVars>>
     ELSE Fail("ReverseDidNotTerminate")

-----------------------------------------------------------------------------
(* Capture::read after the modules: Probe::read and the two checks on it.    *)

After == RendezvousOf(before.debug, before.extended)

ProbeFault ==
  IF rdv[before.debug] = Unmapped THEN "ForeignAccess"
  ELSE IF ~IsConsistent(rdv[before.debug]) THEN "LinkerState"
  ELSE IF ~SameRendezvous(before, After) THEN "StructureChanged"
  ELSE "none"

Accepted == Append(namespaces, [rendezvous |-> After, modules |-> walk])

(* The namespace is retained; version 1 returns it alone, the extended chain *)
(* goes on to the next rendezvous.                                           *)
AcceptNamespace ==
  /\ ReadOnly
  /\ pc = "probe"
  /\ ProbeFault = "none"
  /\ namespaces' = Accepted
  /\ IF before.extended
     THEN /\ pc' = "namespace"
          /\ cursor' = before.next
          /\ UNCHANGED <<attempt, last, result>>
     ELSE /\ Return
          /\ UNCHANGED cursor
  /\ before' = NoRendezvous
  /\ DropWalk
  /\ UNCHANGED nsSeen

ProbeFails ==
  /\ ReadOnly
  /\ pc = "probe"
  /\ ProbeFault # "none"
  /\ Fail(ProbeFault)

-----------------------------------------------------------------------------
(* Stable::lift under a concurrent write: the record never settled.          *)

LiftTarget ==
  CASE pc = "initial" -> Root
    [] pc = "namespace" /\ cursor \notin nsSeen -> cursor
    [] pc = "forward" /\ current \notin seen -> current
    [] pc = "recheck" -> current
    [] pc = "reverse" /\ back.left > 0 -> back.current
    [] pc = "probe" -> before.debug
    [] OTHER -> Null

LiftUnstable ==
  /\ ReadOnly
  /\ LiftTarget \in touched
  /\ Fail("UnstableStructure")

-----------------------------------------------------------------------------
(* One write of the other process.  The history variable recurred tells a    *)
(* record that left the value the reader retained and came back to it.       *)

Restores(m, new) ==
  /\ mem[m] # new
  /\ \E i \in DOMAIN walk : walk[i].map = m /\ walk[i].node = new

(* A namespace's rendezvous was lifted and not yet lifted again.             *)
Capturing == pc \in {"forward", "name", "recheck", "reverse", "probe"}

RestoresHead(d, new) ==
  /\ Capturing
  /\ HeadOf(rdv[d]) # HeadOf(new)
  /\ before.debug = d
  /\ HeadOf(new) = before.map

WriteMap(m, new) ==
  /\ pc # "done"
  /\ mem[m] # new
  /\ mem' = [mem EXCEPT ![m] = new]
  /\ touched' = touched \cup {m}
  /\ recurred' = (recurred \/ Restores(m, new))
  /\ UNCHANGED <<rdv, named, readerVars, instant>>

WriteRdv(d, new) ==
  /\ pc # "done"
  /\ rdv[d] # new
  /\ rdv' = [rdv EXCEPT ![d] = new]
  /\ touched' = touched \cup {d}
  /\ recurred' = (recurred \/ RestoresHead(d, new))
  /\ UNCHANGED <<mem, named, readerVars, instant>>

WriteNames(live) ==
  /\ pc # "done"
  /\ named # live
  /\ named' = live
  /\ UNCHANGED <<mem, rdv, touched, readerVars, histVars>>

-----------------------------------------------------------------------------
ReaderInit ==
  /\ touched = {}
  /\ pc = "initial"
  /\ attempt = 1
  /\ last = "none"
  /\ result = [outcome |-> "pending", reason |-> "none"]
  /\ cursor = Null /\ nsSeen = {} /\ namespaces = <<>>
  /\ before = NoRendezvous
  /\ current = Null /\ previous = Null /\ seen = {} /\ walk = <<>>
  /\ node = Unmapped /\ back = NoBack
  /\ instant = NoInstant /\ recurred = FALSE

-----------------------------------------------------------------------------
(* Types, and what the reader promises whoever writes the memory.            *)

WalkStep == [map : Maps, node : LinkMap]

Captured == [rendezvous : Rendezvous, modules : Seq(WalkStep)]

Reasons == BusyReasons \cup InconsistentReasons \cup FatalReasons

HeapTypes ==
  /\ mem \in [Maps -> LinkMap \cup {Unmapped}]
  /\ rdv \in [Rdvs -> Debug \cup {Unmapped}]
  /\ named \subseteq Objs
  /\ touched \subseteq Maps \cup Rdvs

ControlTypes ==
  /\ pc \in {"initial", "namespace", "forward", "name", "recheck", "reverse",
             "probe", "done"}
  /\ attempt \in 1 .. Attempts
  /\ last \in {"none"} \cup BusyReasons \cup InconsistentReasons
  /\ result \in [outcome : {"pending", "ok", "fatal", "exhausted"},
                 reason : {"none"} \cup Reasons]

NamespaceTypes ==
  /\ cursor \in RdvPtr
  /\ nsSeen \subseteq Rdvs
  /\ namespaces \in Seq(Captured)
  /\ before \in Rendezvous

WalkTypes ==
  /\ current \in MapPtr
  /\ previous \in MapPtr
  /\ seen \subseteq Maps
  /\ node \in LinkMap \cup {Unmapped}
  /\ walk \in Seq(WalkStep)
  /\ back \in [left : Nat, current : MapPtr, next : MapPtr]
  /\ back.left <= Len(walk)

HistoryTypes ==
  /\ instant \in [mem : [Maps -> LinkMap \cup {Unmapped}],
                  head : MapPtr \cup {Unmapped}]
  /\ recurred \in BOOLEAN

(* Every variable of the reader and of the memory holds a value of its type. *)
ReaderTypeOK ==
  HeapTypes /\ ControlTypes /\ NamespaceTypes /\ WalkTypes /\ HistoryTypes

(* The address list of a walk read off its entries.                          *)
At(list, i) == IF i \in DOMAIN list THEN list[i].map ELSE Null

(* A list of nodes is one complete doubly linked chain: it starts at head,   *)
(* each next edge and each prev edge names its neighbour, both ends are null *)
(* and no node stands twice.                                                 *)
IsChain(list, head) ==
  /\ At(list, 1) = head
  /\ \A i \in DOMAIN list :
       /\ list[i].node.next = At(list, i + 1)
       /\ list[i].node.prev = At(list, i - 1)
       /\ \A j \in DOMAIN list : list[i].map = list[j].map => i = j

(* Every namespace the reader retains is a complete doubly linked chain from *)
(* the head its rendezvous names, whatever the target wrote meanwhile        *)
(* (Namespace: "complete link-map chain passed forward and reverse           *)
(* validation").                                                             *)
RetainedChains ==
  \A i \in DOMAIN namespaces :
    IsChain(namespaces[i].modules, namespaces[i].rendezvous.map)

(* The retained namespaces follow the extended chain from the primary        *)
(* rendezvous without gap or repetition, and a returned snapshot ends where  *)
(* the chain ends.                                                           *)
RetainedNamespaces ==
  /\ \A i \in DOMAIN namespaces :
       LET r == namespaces[i].rendezvous IN
       /\ r.state = "consistent"
       /\ i = 1 => r.debug = Root
       /\ i > 1 => r.debug = namespaces[i - 1].rendezvous.next
       /\ \A j \in DOMAIN namespaces :
            r.debug = namespaces[j].rendezvous.debug => i = j
  /\ result.outcome = "ok" =>
       /\ namespaces # <<>>
       /\ namespaces[Len(namespaces)].rendezvous.next = Null
  /\ result.outcome \in {"fatal", "exhausted"} => namespaces = <<>>

(* A list and its head stood in memory together when its walk turned round.  *)
CoexistedAt(list, head) ==
  /\ instant.head = head
  /\ \A i \in DOMAIN list : instant.mem[list[i].map] = list[i].node

(* The three edge diagnostics of the reverse traversal are never reported: a *)
(* node equal to the one the forward walk retained has its edges.            *)
ReverseEdgesAgree ==
  {last, result.reason} \cap
    {"ReverseMapMismatch", "NextMismatch", "ReverseDidNotTerminate"} = {}

(* A retryable failure is reported only after the whole budget was spent,    *)
(* with the reason of the last attempt; a fatal one ends the capture.        *)
BudgetRespected ==
  /\ result.outcome = "exhausted" =>
       attempt = Attempts /\ result.reason = last /\ last # "none"
  /\ result.outcome = "fatal" => IsFatal(result.reason)
  /\ attempt > 1 => last \in BusyReasons \cup InconsistentReasons

=============================================================================
