------------------------- MODULE LinkerReaderProofs -------------------------
(***************************************************************************)
(* What the loader snapshot reader guarantees, for every number of nodes,  *)
(* namespaces, objects, calls and attempts.                                *)
(*                                                                         *)
(* First beside any writer: an invariant that every step of the reader,    *)
(* and every write of another process to its memory, preserves.  So for    *)
(* every memory, every writer and every retry budget, what LinkerAnyWriter *)
(* says of the captures follows.                                           *)
(*                                                                         *)
(* Then beside a GNU loader, with the same lemmas: the reader and the      *)
(* loader together implement NamespaceSnapshots, and an attempt that the   *)
(* loader leaves alone succeeds.                                           *)
(***************************************************************************)
EXTENDS LinkerGnuLoader, LinkerAnyWriter, OrderLemmas, SequenceTheorems

(* A write of the other process that keeps the memory well typed.            *)
Written ==
  \/ \E m \in Maps, n \in LinkMap \cup {Unmapped} : WriteMap(m, n)
  \/ \E d \in Rdvs, r \in Debug \cup {Unmapped} : WriteRdv(d, r)
  \/ \E live \in SUBSET Objs : WriteNames(live)

(* The reader's steps.                                                       *)
Going ==
  \/ ReadInitial \/ ReadNamespace \/ EndOfNamespaces \/ ReadNode \/ ReadName
  \/ YieldNode \/ EndOfForward \/ RevalidateNode \/ EndOfReverse \/ AcceptNamespace

Failing ==
  \/ ReadInitialFails \/ ReadNamespaceFails \/ ReadNodeFails \/ ReadNameFails
  \/ YieldNodeFails \/ RevalidateNodeFails \/ ProbeFails \/ LiftUnstable

EdgeReasons == {"ReverseMapMismatch", "NextMismatch", "ReverseDidNotTerminate"}

(* The inductive invariant.                                                  *)

(* A capture is over exactly when it has returned something.                 *)
Over == pc = "done" <=> result.outcome # "pending"

(* The walk is a doubly linked chain from the head its rendezvous names to   *)
(* the next node to read.                                                    *)
Forwards ==
  /\ before.map = IF walk = <<>> THEN current ELSE walk[1].map
  /\ previous = LastMap(walk)
  /\ \A i \in DOMAIN walk :
       /\ walk[i].node.next = IF i = Len(walk) THEN current ELSE walk[i + 1].map
       /\ walk[i].node.prev = At(walk, i - 1)
       /\ walk[i].map \in seen
       /\ \A j \in DOMAIN walk : walk[i].map = walk[j].map => i = j

(* A node between its two lifts is new to the walk and points back into it.  *)
Lifted ==
  pc \in {"name", "recheck"} =>
    /\ node.prev = previous
    /\ current \in seen
    /\ \A i \in DOMAIN walk : walk[i].map # current

(* The reverse traversal stands between two neighbours of the whole walk.    *)
Backwards ==
  /\ pc \in {"reverse", "probe"} => current = Null
  /\ pc = "reverse" =>
       /\ back.current = At(walk, back.left)
       /\ back.next = At(walk, back.left + 1)
  /\ pc = "probe" => back.left = 0

(* A node that holds its retained value now held it at the instant, and so   *)
(* did each node already revalidated; likewise the head.                     *)
Coexisted ==
  pc \in {"reverse", "probe"} /\ ~recurred =>
    /\ \A i \in DOMAIN walk :
         mem[walk[i].map] = walk[i].node \/ i > back.left
           => instant.mem[walk[i].map] = walk[i].node
    /\ HeadOf(rdv[before.debug]) = before.map => instant.head = before.map

(* The retained namespaces and the rendezvous after them.                    *)
NextRdv ==
  IF namespaces = <<>> THEN Root ELSE namespaces[Len(namespaces)].rendezvous.next

Series ==
  /\ pc # "done" =>
       \A i \in DOMAIN namespaces : namespaces[i].rendezvous.debug \in nsSeen
  /\ pc = "initial" => namespaces = <<>>
  /\ pc = "namespace" => cursor = NextRdv
  /\ Capturing => before.state = "consistent"
  /\ Capturing /\ before.extended =>
       /\ before.debug = NextRdv
       /\ before.debug \in nsSeen
       /\ \A i \in DOMAIN namespaces : namespaces[i].rendezvous.debug # before.debug
  /\ Capturing /\ ~before.extended =>
       namespaces = <<>> /\ before.debug = Root /\ before.next = Null

ReaderInv ==
  /\ ReaderTypeOK
  /\ Over /\ BudgetRespected /\ ReverseEdgesAgree
  /\ Forwards /\ Lifted /\ Backwards /\ Coexisted
  /\ RetainedChains
  /\ Series /\ RetainedNamespaces

-----------------------------------------------------------------------------
(* Types.                                                                    *)

LEMMA NothingRetained ==
  /\ NoInstant \in [mem : [Maps -> LinkMap \cup {Unmapped}],
                   head : MapPtr \cup {Unmapped}]
  /\ NoBack \in [left : Nat, current : MapPtr, next : MapPtr] /\ NoBack.left = 0
  /\ NoRendezvous \in Rendezvous
  /\ \A S : <<>> \in Seq(S)
  /\ Len(<<>>) = 0
<1>1. [m \in Maps |-> Unmapped] \in [Maps -> LinkMap \cup {Unmapped}]
  OBVIOUS
<1> QED
  BY <1>1, ReaderAssumption
     DEF NoInstant, NoBack, NoRendezvous, Rendezvous, MapPtr, RdvPtr, LoaderStates

LEMMA DropWalkTypes == ASSUME DropWalk PROVE WalkTypes' /\ HistoryTypes'
<1>1. WalkTypes'
  BY NothingRetained DEF DropWalk, WalkTypes, MapPtr
<1>2. HistoryTypes'
  BY NothingRetained DEF DropWalk, HistoryTypes
<1> QED
  BY <1>1, <1>2

LEMMA FailTypes ==
  ASSUME ReaderTypeOK, ReadOnly, NEW reason \in Reasons, Fail(reason)
  PROVE  ReaderTypeOK'
<1> USE ReaderAssumption
<1>1. HeapTypes'
  BY DEF ReaderTypeOK, HeapTypes, ReadOnly, heapVars
<1>2. ControlTypes'
  <2>1. CASE reason \in FatalReasons
    BY <2>1 DEF ReaderTypeOK, ControlTypes, Fail, IsFatal, Reasons, DropAttempt
  <2>2. CASE reason \notin FatalReasons /\ BudgetSpent(attempt)
    BY <2>2 DEF ReaderTypeOK, ControlTypes, Fail, IsFatal, Reasons, DropAttempt
  <2>3. CASE reason \notin FatalReasons /\ ~BudgetSpent(attempt)
    BY <2>3 DEF ReaderTypeOK, ControlTypes, Fail, IsFatal, Reasons, BudgetSpent,
                NextAttempt, DropAttempt
  <2> QED
    BY <2>1, <2>2, <2>3
<1>3. NamespaceTypes'
  BY NothingRetained DEF NamespaceTypes, Fail, DropAttempt, RdvPtr
<1>4. WalkTypes' /\ HistoryTypes'
  BY DropWalkTypes DEF Fail, DropAttempt
<1> QED
  BY <1>1, <1>2, <1>3, <1>4 DEF ReaderTypeOK

(* A record the reader retains is well typed. *)
LEMMA RendezvousTypes ==
  ASSUME HeapTypes, NEW d \in Rdvs, rdv[d] # Unmapped, NEW e \in BOOLEAN
  PROVE  RendezvousOf(d, e) \in Rendezvous
  BY DEF HeapTypes, RendezvousOf, Rendezvous, Debug, RdvPtr

LEMMA BeginCaptureTypes ==
  ASSUME ReaderTypeOK, NEW r \in Rendezvous, BeginCapture(r)
  PROVE  ControlTypes' /\ before' \in Rendezvous /\ WalkTypes' /\ HistoryTypes'
<1>1. ControlTypes'
  BY DEF BeginCapture, ReaderTypeOK, ControlTypes
<1>2. WalkTypes'
  BY NothingRetained DEF BeginCapture, WalkTypes, MapPtr, Rendezvous
<1>3. HistoryTypes'
  BY NothingRetained DEF BeginCapture, HistoryTypes
<1> QED
  BY <1>1, <1>2, <1>3 DEF BeginCapture

LEMMA WriteTypes == ASSUME ReaderTypeOK, Written PROVE ReaderTypeOK'
<1>1. ControlTypes' /\ NamespaceTypes' /\ WalkTypes'
  BY DEF ReaderTypeOK, Written, WriteMap, WriteRdv, WriteNames, readerVars, nsVars,
         walkVars, ControlTypes, NamespaceTypes, WalkTypes
<1>2. HistoryTypes'
  BY DEF ReaderTypeOK, Written, WriteMap, WriteRdv, WriteNames, histVars, HistoryTypes
<1>3. HeapTypes'
  <2>1. CASE \E m \in Maps, n \in LinkMap \cup {Unmapped} : WriteMap(m, n)
    BY <2>1 DEF ReaderTypeOK, HeapTypes, WriteMap
  <2>2. CASE \E d \in Rdvs, r \in Debug \cup {Unmapped} : WriteRdv(d, r)
    BY <2>2 DEF ReaderTypeOK, HeapTypes, WriteRdv
  <2>3. CASE \E live \in SUBSET Objs : WriteNames(live)
    BY <2>3 DEF ReaderTypeOK, HeapTypes, WriteNames
  <2> QED
    BY <2>1, <2>2, <2>3 DEF Written
<1> QED
  BY <1>1, <1>2, <1>3 DEF ReaderTypeOK

(* The reader's steps that go on with the attempt. *)
LEMMA StartTypes == ASSUME ReaderTypeOK, ReadInitial PROVE ReaderTypeOK'
<1>1. HeapTypes'
  BY DEF ReaderTypeOK, HeapTypes, ReadInitial, ReadOnly, heapVars
<1>2. CASE rdv[Root].version < 2
  <2>1. RendezvousOf(Root, FALSE) \in Rendezvous
    BY RendezvousTypes, ReaderAssumption DEF ReaderTypeOK, ReadInitial, InitialFault
  <2> QED
    BY <1>1, <1>2, <2>1, BeginCaptureTypes
       DEF ReaderTypeOK, ReadInitial, NamespaceTypes, nsVars
<1>3. CASE ~(rdv[Root].version < 2)
  <2>1. NamespaceTypes' /\ ControlTypes'
    BY <1>3, ReaderAssumption
       DEF ReaderTypeOK, ReadInitial, NamespaceTypes, ControlTypes, RdvPtr
  <2>2. WalkTypes' /\ HistoryTypes'
    BY <1>3 DEF ReaderTypeOK, ReadInitial, WalkTypes, HistoryTypes, walkVars, histVars
  <2> QED
    BY <1>1, <2>1, <2>2 DEF ReaderTypeOK
<1> QED
  BY <1>2, <1>3

LEMMA NamespaceStepTypes ==
  ASSUME ReaderTypeOK, ReadNamespace PROVE ReaderTypeOK'
<1>1. HeapTypes'
  BY DEF ReaderTypeOK, HeapTypes, ReadNamespace, ReadOnly, heapVars
<1>2. cursor \in Rdvs
  BY DEF ReaderTypeOK, NamespaceTypes, ReadNamespace, RdvPtr
<1>3. RendezvousOf(cursor, TRUE) \in Rendezvous
  BY <1>2, RendezvousTypes DEF ReaderTypeOK, ReadNamespace, NamespaceFault
<1> QED
  BY <1>1, <1>2, <1>3, BeginCaptureTypes DEF ReaderTypeOK, ReadNamespace, NamespaceTypes

LEMMA EndOfNamespacesTypes ==
  ASSUME ReaderTypeOK, EndOfNamespaces PROVE ReaderTypeOK'
<1>1. HeapTypes' /\ NamespaceTypes'
  BY DEF ReaderTypeOK, HeapTypes, NamespaceTypes, EndOfNamespaces, ReadOnly, heapVars, nsVars
<1>2. ControlTypes'
  BY DEF ReaderTypeOK, ControlTypes, EndOfNamespaces, Return
<1>3. WalkTypes' /\ HistoryTypes'
  BY DEF ReaderTypeOK, WalkTypes, HistoryTypes, EndOfNamespaces, walkVars, histVars
<1> QED
  BY <1>1, <1>2, <1>3 DEF ReaderTypeOK

LEMMA NodeStepTypes ==
  ASSUME ReaderTypeOK, ReadNode \/ ReadName PROVE ReaderTypeOK'
<1>1. HeapTypes'
  BY DEF ReaderTypeOK, HeapTypes, ReadNode, ReadName, ReadOnly, heapVars
<1>2. NamespaceTypes' /\ HistoryTypes'
  BY DEF ReaderTypeOK, NamespaceTypes, HistoryTypes, ReadNode, ReadName, nsVars, histVars
<1>3. ControlTypes'
  BY DEF ReaderTypeOK, ControlTypes, ReadNode, ReadName
<1>4. CASE ReadNode
  <2>1. current \in Maps /\ mem[current] \in LinkMap
    BY <1>4 DEF ReaderTypeOK, HeapTypes, WalkTypes, ReadNode, MapPtr, ForwardFault
  <2>2. WalkTypes'
    BY <1>4, <2>1 DEF ReaderTypeOK, WalkTypes, ReadNode
  <2> QED
    BY <1>1, <1>2, <1>3, <2>2 DEF ReaderTypeOK
<1>5. CASE ReadName
  BY <1>1, <1>2, <1>3, <1>5 DEF ReaderTypeOK, WalkTypes, ReadName, walkVars
<1> QED
  BY <1>4, <1>5

(* The second lift of a node is the node, and it has an address. *)
LEMMA Yielded ==
  ASSUME ReaderTypeOK, YieldNode, current \in Maps
  PROVE  /\ mem[current] \in LinkMap
         /\ [map |-> current, node |-> mem[current]] \in WalkStep
  BY DEF ReaderTypeOK, HeapTypes, YieldNode, RecheckFault, WalkStep

LEMMA YieldTypes ==
  ASSUME ReaderTypeOK, YieldNode, current \in Maps PROVE ReaderTypeOK'
<1>1. HeapTypes'
  BY DEF ReaderTypeOK, HeapTypes, YieldNode, ReadOnly, heapVars
<1>2. NamespaceTypes' /\ HistoryTypes' /\ ControlTypes'
  BY DEF ReaderTypeOK, NamespaceTypes, HistoryTypes, ControlTypes, YieldNode, nsVars, histVars
<1>3. WalkTypes'
  <2>1. walk' \in Seq(WalkStep) /\ Len(walk') = Len(walk) + 1
    BY Yielded DEF ReaderTypeOK, WalkTypes, YieldNode
  <2>2. current' \in MapPtr /\ previous' \in MapPtr
    BY Yielded DEF YieldNode, LinkMap, MapPtr
  <2> QED
    BY <2>1, <2>2 DEF ReaderTypeOK, WalkTypes, YieldNode
<1> QED
  BY <1>1, <1>2, <1>3 DEF ReaderTypeOK

LEMMA LastMapTypes ==
  ASSUME NEW s \in Seq(WalkStep) PROVE LastMap(s) \in MapPtr
<1>1. CASE s = <<>>
  BY <1>1 DEF LastMap, MapPtr
<1>2. CASE s # <<>>
  <2>1. Len(s) \in DOMAIN s
    BY <1>2
  <2>2. s[Len(s)] \in WalkStep
    BY <2>1
  <2> QED
    BY <1>2, <2>2 DEF LastMap, WalkStep, MapPtr
<1> QED
  BY <1>1, <1>2

LEMMA HeadOfTypes ==
  ASSUME HeapTypes, NEW d \in Rdvs PROVE HeadOf(rdv[d]) \in MapPtr \cup {Unmapped}
  BY DEF HeapTypes, HeadOf, Debug

LEMMA EndOfForwardTypes ==
  ASSUME ReaderTypeOK, EndOfForward PROVE ReaderTypeOK'
<1>1. HeapTypes'
  BY DEF ReaderTypeOK, HeapTypes, EndOfForward, ReadOnly, heapVars
<1>2. NamespaceTypes' /\ ControlTypes'
  BY DEF ReaderTypeOK, NamespaceTypes, ControlTypes, EndOfForward, nsVars
<1>3. WalkTypes'
  <2>1. Len(walk) \in Nat /\ LastMap(walk) \in MapPtr /\ Null \in MapPtr
    BY LastMapTypes DEF ReaderTypeOK, WalkTypes, MapPtr
  <2> QED
    BY <2>1 DEF ReaderTypeOK, WalkTypes, EndOfForward
<1>4. HistoryTypes'
  <2>1. HeadOf(rdv[before.debug]) \in MapPtr \cup {Unmapped}
    BY HeadOfTypes DEF ReaderTypeOK, NamespaceTypes, Rendezvous
  <2> QED
    BY <2>1 DEF ReaderTypeOK, HeapTypes, HistoryTypes, EndOfForward
<1> QED
  BY <1>1, <1>2, <1>3, <1>4 DEF ReaderTypeOK

LEMMA RevalidateTypes ==
  ASSUME ReaderTypeOK, RevalidateNode
  PROVE  /\ ReaderTypeOK'
         /\ back.left \in DOMAIN walk
         /\ back.current = walk[back.left].map
         /\ mem[back.current] = walk[back.left].node
<1>1. HeapTypes' /\ NamespaceTypes' /\ ControlTypes' /\ HistoryTypes'
  BY DEF ReaderTypeOK, HeapTypes, NamespaceTypes, ControlTypes, HistoryTypes, RevalidateNode,
         ReadOnly, heapVars, nsVars, histVars
<1>2. back.left \in DOMAIN walk
  BY DEF ReaderTypeOK, WalkTypes, RevalidateNode
<1>3. back.current = walk[back.left].map /\ mem[back.current] = walk[back.left].node
  BY DEF RevalidateNode, ReverseFault, SameNode
<1>4. back.current \in Maps /\ mem[back.current] \in LinkMap
  <2>1. walk[back.left] \in WalkStep
    BY <1>2 DEF ReaderTypeOK, WalkTypes
  <2> QED
    BY <1>3, <2>1 DEF WalkStep
<1>5. WalkTypes'
  <2>1. mem[back.current].prev \in MapPtr /\ back.current \in MapPtr
    BY <1>4 DEF LinkMap, MapPtr
  <2>2. back.left - 1 \in Nat /\ back.left - 1 <= Len(walk)
    BY DEF ReaderTypeOK, WalkTypes, RevalidateNode
  <2> QED
    BY <2>1, <2>2 DEF ReaderTypeOK, WalkTypes, RevalidateNode
<1> QED
  BY <1>1, <1>2, <1>3, <1>5 DEF ReaderTypeOK

LEMMA EndOfReverseTypes ==
  ASSUME ReaderTypeOK, EndOfReverse PROVE ReaderTypeOK'
<1>1. CASE back.current = Null
  BY <1>1 DEF ReaderTypeOK, HeapTypes, NamespaceTypes, ControlTypes, WalkTypes, HistoryTypes,
              EndOfReverse, ReadOnly, heapVars, nsVars, walkVars, histVars
<1>2. CASE back.current # Null
  BY <1>2, FailTypes DEF EndOfReverse, Reasons, InconsistentReasons
<1> QED
  BY <1>1, <1>2

LEMMA AcceptTypes ==
  ASSUME ReaderTypeOK, AcceptNamespace
  PROVE  /\ ReaderTypeOK'
         /\ After = before
         /\ [rendezvous |-> before, modules |-> walk] \in Captured
         /\ namespaces' = Append(namespaces, [rendezvous |-> before, modules |-> walk])
<1>1. After = before
  BY DEF AcceptNamespace, ProbeFault, SameRendezvous
<1>2. [rendezvous |-> before, modules |-> walk] \in Captured
  BY DEF ReaderTypeOK, NamespaceTypes, WalkTypes, Captured
<1>3. namespaces' = Append(namespaces, [rendezvous |-> before, modules |-> walk])
  BY <1>1 DEF AcceptNamespace, Accepted
<1>4. HeapTypes'
  BY DEF ReaderTypeOK, HeapTypes, AcceptNamespace, ReadOnly, heapVars
<1>5. ControlTypes'
  BY DEF ReaderTypeOK, ControlTypes, AcceptNamespace, Return
<1>6. NamespaceTypes'
  <2>1. namespaces' \in Seq(Captured)
    BY <1>2, <1>3 DEF ReaderTypeOK, NamespaceTypes
  <2>2. cursor' \in RdvPtr
    BY DEF ReaderTypeOK, NamespaceTypes, AcceptNamespace, Rendezvous
  <2> QED
    BY <2>1, <2>2, NothingRetained DEF ReaderTypeOK, NamespaceTypes, AcceptNamespace
<1>7. WalkTypes' /\ HistoryTypes'
  BY DropWalkTypes DEF AcceptNamespace
<1> QED
  BY <1>1, <1>2, <1>3, <1>4, <1>5, <1>6, <1>7 DEF ReaderTypeOK

-----------------------------------------------------------------------------
(* A failing step drops everything the attempt retained.                     *)

LEMMA ReverseAgrees ==
  ASSUME ReaderInv, pc = "reverse"
  PROVE  /\ back.left > 0 => ReverseFault \notin EdgeReasons
         /\ back.left = 0 => back.current = Null
<1>1. back.left = 0 => back.current = Null
  BY DEF ReaderInv, Backwards, At, ReaderTypeOK, WalkTypes
<1>2. ASSUME back.left > 0 PROVE ReverseFault \notin EdgeReasons
  <2>1. back.left \in DOMAIN walk
    BY <1>2 DEF ReaderInv, ReaderTypeOK, WalkTypes
  <2>2. back.current = walk[back.left].map
    BY <2>1 DEF ReaderInv, Backwards, At
  <2>3. walk[back.left].node.next = back.next
    BY <2>1 DEF ReaderInv, ReaderTypeOK, WalkTypes, Forwards, Backwards, At
  <2> QED
    BY <2>2, <2>3 DEF ReverseFault, SameNode, EdgeReasons
<1> QED
  BY <1>1, <1>2

LEMMA FailingReason ==
  ASSUME ReaderInv, Failing
  PROVE  /\ ReadOnly
         /\ pc # "done"
         /\ \E reason \in Reasons \ EdgeReasons : Fail(reason)
<1> USE DEF Reasons, BusyReasons, InconsistentReasons, FatalReasons, EdgeReasons
<1>1. CASE ReadInitialFails
  BY <1>1 DEF ReadInitialFails, InitialFault
<1>2. CASE ReadNamespaceFails
  BY <1>2 DEF ReadNamespaceFails, NamespaceFault
<1>3. CASE ReadNodeFails
  BY <1>3 DEF ReadNodeFails, ForwardFault
<1>4. CASE ReadNameFails
  BY <1>4 DEF ReadNameFails
<1>5. CASE YieldNodeFails
  BY <1>5 DEF YieldNodeFails, RecheckFault
<1>6. CASE RevalidateNodeFails
  BY <1>6, ReverseAgrees DEF RevalidateNodeFails, ReverseFault
<1>7. CASE ProbeFails
  BY <1>7 DEF ProbeFails, ProbeFault
<1>8. CASE LiftUnstable
  <2>1. pc # "done"
    BY <1>8, ReaderAssumption DEF LiftUnstable, LiftTarget, ReaderInv, ReaderTypeOK, HeapTypes
  <2> QED
    BY <1>8, <2>1 DEF LiftUnstable
<1> QED
  BY <1>1, <1>2, <1>3, <1>4, <1>5, <1>6, <1>7, <1>8 DEF Failing

LEMMA FailKeeps ==
  ASSUME ReaderInv, ReadOnly, pc # "done",
         NEW reason \in Reasons \ EdgeReasons, Fail(reason)
  PROVE  ReaderInv' /\ namespaces' = <<>>
<1>1. namespaces' = <<>> /\ DropWalk /\ before' = NoRendezvous /\ pc' \in {"initial", "done"}
  BY DEF Fail, DropAttempt
<1>2. Over' /\ BudgetRespected' /\ ReverseEdgesAgree'
  <2> USE DEF Over, BudgetRespected, ReverseEdgesAgree, Reasons, EdgeReasons
  <2>1. CASE reason \in FatalReasons
    BY <2>1 DEF ReaderInv, Fail, IsFatal
  <2>2. CASE reason \notin FatalReasons /\ BudgetSpent(attempt)
    BY <2>2 DEF ReaderInv, Fail, IsFatal, BudgetSpent, BusyReasons, InconsistentReasons
  <2>3. CASE reason \notin FatalReasons /\ ~BudgetSpent(attempt)
    BY <2>3 DEF ReaderInv, Fail, IsFatal
  <2> QED
    BY <2>1, <2>2, <2>3
<1>3. Forwards'
  BY <1>1 DEF Forwards, DropWalk, NoRendezvous, LastMap
<1>4. Lifted' /\ Backwards' /\ Coexisted'
  BY <1>1 DEF Lifted, Backwards, Coexisted
<1>5. RetainedChains' /\ Series'
  BY <1>1 DEF RetainedChains, Series, Capturing
<1>6. RetainedNamespaces'
  BY <1>1 DEF RetainedNamespaces, Fail, ReaderInv, Over
<1> QED
  BY <1>1, <1>2, <1>3, <1>4, <1>5, <1>6, FailTypes DEF ReaderInv

-----------------------------------------------------------------------------
(* A step that returns nothing and retains no further namespace.             *)
LEMMA NothingReturned ==
  ASSUME ReaderInv, UNCHANGED <<attempt, last, result, namespaces>>,
         pc # "done", pc' # "done"
  PROVE  /\ Over' /\ BudgetRespected' /\ ReverseEdgesAgree'
         /\ RetainedChains' /\ RetainedNamespaces'
  BY DEF ReaderInv, Over, BudgetRespected, ReverseEdgesAgree, RetainedChains,
         RetainedNamespaces

LEMMA BeginCaptureKeeps ==
  ASSUME NEW r, BeginCapture(r)
  PROVE  Forwards' /\ Lifted' /\ Backwards' /\ Coexisted'
<1>1. Forwards'
  BY DEF BeginCapture, Forwards, LastMap
<1>2. Lifted' /\ Backwards' /\ Coexisted'
  BY DEF BeginCapture, Lifted, Backwards, Coexisted
<1> QED
  BY <1>1, <1>2

LEMMA ReadInitialKeeps ==
  ASSUME ReaderInv, ReadInitial PROVE ReaderInv'
<1>1. pc = "initial" /\ pc' # "done" /\ UNCHANGED <<attempt, last, result, namespaces>>
  BY DEF ReadInitial, BeginCapture, nsVars
<1>2. Forwards' /\ Lifted' /\ Backwards' /\ Coexisted'
  <2>1. CASE rdv[Root].version < 2
    BY <2>1, BeginCaptureKeeps DEF ReadInitial
  <2>2. CASE ~(rdv[Root].version < 2)
    BY <1>1, <2>2 DEF ReadInitial, ReaderInv, Forwards, Lifted, Backwards, Coexisted, walkVars
  <2> QED
    BY <2>1, <2>2
<1>3. Series'
  <2>1. CASE rdv[Root].version < 2
    BY <1>1, <2>1
       DEF ReadInitial, BeginCapture, ReaderInv, Series, Capturing, RendezvousOf,
           InitialFault, IsConsistent
  <2>2. CASE ~(rdv[Root].version < 2)
    BY <1>1, <2>2 DEF ReadInitial, ReaderInv, Series, Capturing, NextRdv
  <2> QED
    BY <2>1, <2>2
<1> QED
  BY <1>1, <1>2, <1>3, NothingReturned, StartTypes DEF ReaderInv

LEMMA ReadNamespaceKeeps ==
  ASSUME ReaderInv, ReadNamespace PROVE ReaderInv'
<1>1. pc = "namespace" /\ pc' = "forward" /\ UNCHANGED <<attempt, last, result, namespaces>>
  BY DEF ReadNamespace, BeginCapture
<1>2. Forwards' /\ Lifted' /\ Backwards' /\ Coexisted'
  BY BeginCaptureKeeps DEF ReadNamespace
<1>3. Series'
  <2>1. before' = RendezvousOf(cursor, TRUE) /\ before'.debug = cursor /\ before'.extended
    BY DEF ReadNamespace, BeginCapture, RendezvousOf
  <2>2. cursor \notin nsSeen /\ before'.state = "consistent"
    BY <2>1 DEF ReadNamespace, NamespaceFault, Visited, RendezvousOf, IsConsistent
  <2>3. cursor = NextRdv /\ NextRdv' = NextRdv
    BY <1>1 DEF ReaderInv, Series, NextRdv
  <2> QED
    BY <1>1, <2>1, <2>2, <2>3 DEF ReadNamespace, ReaderInv, Series, Capturing
<1> QED
  BY <1>1, <1>2, <1>3, NothingReturned, NamespaceStepTypes DEF ReaderInv

LEMMA EndOfNamespacesKeeps ==
  ASSUME ReaderInv, EndOfNamespaces PROVE ReaderInv'
<1>1. /\ pc = "namespace" /\ cursor = Null /\ pc' = "done"
      /\ result' = [outcome |-> "ok", reason |-> "none"]
      /\ UNCHANGED <<attempt, last, namespaces, before, walkVars>>
  BY DEF EndOfNamespaces, Return, nsVars
<1>2. Over' /\ BudgetRespected' /\ ReverseEdgesAgree'
  BY <1>1 DEF ReaderInv, Over, BudgetRespected, ReverseEdgesAgree
<1>3. Forwards' /\ Lifted' /\ Backwards' /\ Coexisted'
  BY <1>1 DEF ReaderInv, Forwards, Lifted, Backwards, Coexisted, walkVars
<1>4. RetainedChains' /\ Series'
  BY <1>1 DEF ReaderInv, RetainedChains, Series, Capturing
<1>5. RetainedNamespaces'
  <2>1. NextRdv = Null
    BY <1>1 DEF ReaderInv, Series
  <2>2. namespaces # <<>> /\ namespaces[Len(namespaces)].rendezvous.next = Null
    BY <2>1, ReaderAssumption DEF NextRdv
  <2> QED
    BY <1>1, <2>2 DEF ReaderInv, RetainedNamespaces
<1> QED
  BY <1>2, <1>3, <1>4, <1>5, EndOfNamespacesTypes DEF ReaderInv

-----------------------------------------------------------------------------
(* The forward traversal.                                                    *)

LEMMA SeriesStays ==
  ASSUME ReaderInv, Capturing, Capturing', UNCHANGED <<nsVars, before>>
  PROVE  Series'
  BY DEF ReaderInv, Series, Capturing, nsVars, NextRdv

LEMMA ReadNodeKeeps ==
  ASSUME ReaderInv, ReadNode PROVE ReaderInv'
<1>1. /\ pc = "forward" /\ pc' = "name"
      /\ UNCHANGED <<attempt, last, result, nsVars, before, current, previous, walk,
                     back, histVars>>
      /\ seen' = seen \cup {current}
  BY DEF ReadNode
<1>2. Forwards'
  BY <1>1 DEF ReaderInv, Forwards
<1>3. Lifted'
  <2>1. current \notin seen /\ node'.prev = previous
    BY DEF ReadNode, ForwardFault, Visited, HasReverseEdge
  <2> QED
    BY <1>1, <2>1 DEF ReaderInv, Forwards, Lifted
<1>4. Backwards' /\ Coexisted'
  BY <1>1 DEF Backwards, Coexisted
<1>5. Series'
  BY <1>1, SeriesStays DEF Capturing
<1> QED
  BY <1>1, <1>2, <1>3, <1>4, <1>5, NothingReturned, NodeStepTypes DEF ReaderInv, nsVars

LEMMA ReadNameKeeps ==
  ASSUME ReaderInv, ReadName PROVE ReaderInv'
<1>1. /\ pc = "name" /\ pc' = "recheck"
      /\ UNCHANGED <<attempt, last, result, nsVars, before, walkVars, histVars>>
  BY DEF ReadName
<1>2. Forwards' /\ Lifted'
  BY <1>1 DEF ReaderInv, Forwards, Lifted, walkVars
<1>3. Backwards' /\ Coexisted'
  BY <1>1 DEF Backwards, Coexisted
<1>4. Series'
  BY <1>1, SeriesStays DEF Capturing
<1> QED
  BY <1>1, <1>2, <1>3, <1>4, NothingReturned, NodeStepTypes DEF ReaderInv, nsVars

LEMMA YieldNodeKeeps ==
  ASSUME ReaderInv, YieldNode PROVE ReaderInv'
<1>1. /\ pc = "recheck" /\ pc' = "forward"
      /\ UNCHANGED <<attempt, last, result, nsVars, before, seen, back, histVars>>
      /\ previous' = current
  BY DEF YieldNode
<1>2. current \in seen /\ current \in Maps
  BY <1>1 DEF ReaderInv, Lifted, ReaderTypeOK, WalkTypes
<1> DEFINE e == [map |-> current, node |-> mem[current]]
<1>3. /\ e \in WalkStep /\ walk' = Append(walk, e)
      /\ current' = e.node.next /\ e.node.prev = previous
  BY <1>1, <1>2, Yielded
     DEF YieldNode, RecheckFault, SameNode, ReaderInv, Lifted
<1>4. walk \in Seq(WalkStep)
  BY DEF ReaderInv, ReaderTypeOK, WalkTypes
<1>5. /\ Len(walk') = Len(walk) + 1
      /\ DOMAIN walk' = DOMAIN walk \cup {Len(walk) + 1}
      /\ \A i \in DOMAIN walk : walk'[i] = walk[i]
      /\ walk'[Len(walk) + 1] = e
  BY <1>3, <1>4
<1> HIDE DEF e
<1>6. Forwards'
  <2>1. before'.map = IF walk' = <<>> THEN current' ELSE walk'[1].map
    <3>1. CASE walk = <<>>
      BY <3>1, <1>1, <1>5, <1>3 DEF ReaderInv, Forwards, e
    <3>2. CASE walk # <<>>
      <4>1. 1 \in DOMAIN walk /\ walk' # <<>>
        BY <3>2, <1>4, <1>5
      <4> QED
        BY <3>2, <4>1, <1>1, <1>5 DEF ReaderInv, Forwards
    <3> QED
      BY <3>1, <3>2
  <2>2. previous' = LastMap(walk')
    BY <1>1, <1>4, <1>5 DEF LastMap, e
  <2>3. ASSUME NEW i \in DOMAIN walk'
        PROVE  /\ walk'[i].node.next =
                    IF i = Len(walk') THEN current' ELSE walk'[i + 1].map
               /\ walk'[i].node.prev = At(walk', i - 1)
               /\ walk'[i].map \in seen'
    <3>1. CASE i = Len(walk) + 1
      <4>1. At(walk', i - 1) = LastMap(walk)
        <5>1. CASE walk = <<>>
          BY <3>1, <5>1, <1>5 DEF At, LastMap
        <5>2. CASE walk # <<>>
          <6>1. Len(walk) \in DOMAIN walk /\ i - 1 = Len(walk)
            BY <3>1, <5>2, <1>4
          <6> QED
            BY <5>2, <6>1, <1>5 DEF At, LastMap
        <5> QED
          BY <5>1, <5>2
      <4> QED
        BY <3>1, <4>1, <1>1, <1>2, <1>3, <1>5 DEF ReaderInv, Forwards, e
    <3>2. CASE i \in DOMAIN walk
      <4>1. At(walk', i - 1) = At(walk, i - 1)
        BY <3>2, <1>4, <1>5 DEF At
      <4>2. i # Len(walk')
        BY <3>2, <1>4, <1>5
      <4>3. CASE i = Len(walk)
        BY <3>2, <4>1, <4>2, <4>3, <1>1, <1>5 DEF ReaderInv, Forwards, e
      <4>4. CASE i # Len(walk)
        <5>1. i + 1 \in DOMAIN walk
          BY <3>2, <4>4, <1>4
        <5> QED
          BY <3>2, <4>1, <4>2, <4>4, <5>1, <1>1, <1>5 DEF ReaderInv, Forwards
      <4> QED
        BY <4>3, <4>4
    <3> QED
      BY <3>1, <3>2, <1>5
  <2>4. ASSUME NEW i \in DOMAIN walk', NEW j \in DOMAIN walk', walk'[i].map = walk'[j].map
        PROVE  i = j
    <3>1. \A k \in DOMAIN walk : walk[k].map # current
      BY <1>1 DEF ReaderInv, Lifted
    <3> QED
      BY <2>4, <3>1, <1>5 DEF ReaderInv, Forwards, e
  <2> QED
    BY <2>1, <2>2, <2>3, <2>4 DEF Forwards
<1>7. Lifted' /\ Backwards' /\ Coexisted'
  BY <1>1 DEF Lifted, Backwards, Coexisted
<1>8. Series'
  BY <1>1, SeriesStays DEF Capturing
<1> QED
  BY <1>1, <1>2, <1>6, <1>7, <1>8, NothingReturned, YieldTypes DEF ReaderInv, nsVars

LEMMA EndOfForwardKeeps ==
  ASSUME ReaderInv, EndOfForward PROVE ReaderInv'
<1>1. /\ pc = "forward" /\ pc' = "reverse" /\ current = Null
      /\ UNCHANGED <<attempt, last, result, nsVars, before, current, previous, seen,
                     walk, mem, rdv>>
      /\ back' = [left |-> Len(walk), current |-> LastMap(walk), next |-> Null]
      /\ instant' = [mem |-> mem, head |-> HeadOf(rdv[before.debug])]
  BY DEF EndOfForward, ReadOnly, heapVars
<1>2. Forwards' /\ Lifted'
  BY <1>1 DEF ReaderInv, Forwards, Lifted
<1>3. Backwards'
  <2>1. walk \in Seq(WalkStep)
    BY DEF ReaderInv, ReaderTypeOK, WalkTypes
  <2>2. LastMap(walk) = At(walk, Len(walk)) /\ At(walk, Len(walk) + 1) = Null
    BY <2>1 DEF LastMap, At
  <2> QED
    BY <1>1, <2>2 DEF Backwards
<1>4. Coexisted'
  <2>1. walk \in Seq(WalkStep) /\ \A i \in DOMAIN walk : ~(i > Len(walk))
    BY DEF ReaderInv, ReaderTypeOK, WalkTypes
  <2> QED
    BY <1>1, <2>1 DEF Coexisted
<1>5. Series'
  BY <1>1, SeriesStays DEF Capturing
<1> QED
  BY <1>1, <1>2, <1>3, <1>4, <1>5, NothingReturned, EndOfForwardTypes DEF ReaderInv, nsVars

-----------------------------------------------------------------------------
(* The reverse traversal and the second read of the rendezvous.              *)

LEMMA RevalidateNodeKeeps ==
  ASSUME ReaderInv, RevalidateNode PROVE ReaderInv'
<1>1. /\ pc = "reverse" /\ pc' = "reverse"
      /\ UNCHANGED <<attempt, last, result, nsVars, before, current, previous, seen,
                     walk, histVars, mem, rdv>>
      /\ back' = [left |-> back.left - 1, current |-> mem[back.current].prev,
                  next |-> back.current]
  BY DEF RevalidateNode, ReadOnly, heapVars
<1>2. /\ back.left \in DOMAIN walk /\ back.current = walk[back.left].map
      /\ mem[back.current] = walk[back.left].node
  BY RevalidateTypes DEF ReaderInv
<1>3. back.left \in Nat /\ walk \in Seq(WalkStep)
  BY DEF ReaderInv, ReaderTypeOK, WalkTypes
<1>4. Forwards' /\ Lifted'
  BY <1>1 DEF ReaderInv, Forwards, Lifted
<1>5. Backwards'
  <2>1. mem[back.current].prev = At(walk, back.left - 1)
    BY <1>2 DEF ReaderInv, Forwards
  <2>2. back.current = At(walk, (back.left - 1) + 1)
    BY <1>2, <1>3 DEF At
  <2> QED
    BY <1>1, <2>1, <2>2 DEF ReaderInv, Backwards
<1>6. Coexisted'
  <2>1. \A i \in DOMAIN walk : i > back.left - 1 => i = back.left \/ i > back.left
    BY <1>3
  <2> QED
    BY <1>1, <1>2, <2>1 DEF ReaderInv, Coexisted, histVars
<1>7. Series'
  BY <1>1, SeriesStays DEF Capturing
<1> QED
  BY <1>1, <1>4, <1>5, <1>6, <1>7, NothingReturned, RevalidateTypes DEF ReaderInv, nsVars

LEMMA EndOfReverseKeeps ==
  ASSUME ReaderInv, EndOfReverse PROVE ReaderInv'
<1>1. /\ pc = "reverse" /\ pc' = "probe" /\ back.left = 0
      /\ UNCHANGED <<attempt, last, result, nsVars, before, walkVars, histVars, mem, rdv>>
  BY ReverseAgrees DEF EndOfReverse, ReadOnly, heapVars
<1>2. Forwards' /\ Lifted' /\ Backwards' /\ Coexisted'
  BY <1>1 DEF ReaderInv, Forwards, Lifted, Backwards, Coexisted, walkVars, histVars
<1>3. Series'
  BY <1>1, SeriesStays DEF Capturing
<1> QED
  BY <1>1, <1>2, <1>3, NothingReturned, EndOfReverseTypes DEF ReaderInv, nsVars

(* A walk that ended is a complete chain. *)
LEMMA WholeWalk ==
  ASSUME ReaderInv, current = Null PROVE IsChain(walk, before.map)
<1>1. walk \in Seq(WalkStep)
  BY DEF ReaderInv, ReaderTypeOK, WalkTypes
<1>2. At(walk, 1) = before.map
  <2>1. walk # <<>> => 1 \in DOMAIN walk
    BY <1>1
  <2> QED
    BY <2>1 DEF ReaderInv, Forwards, At
<1>3. ASSUME NEW i \in DOMAIN walk PROVE walk[i].node.next = At(walk, i + 1)
  <2>1. IF i = Len(walk) THEN i + 1 \notin DOMAIN walk ELSE i + 1 \in DOMAIN walk
    BY <1>1
  <2> QED
    BY <2>1 DEF ReaderInv, Forwards, At
<1> QED
  BY <1>2, <1>3 DEF ReaderInv, Forwards, IsChain

LEMMA AcceptKeeps ==
  ASSUME ReaderInv, AcceptNamespace PROVE ReaderInv'
<1> DEFINE new == [rendezvous |-> before, modules |-> walk]
<1>1. /\ pc = "probe" /\ DropWalk /\ before' = NoRendezvous
      /\ UNCHANGED <<attempt, last, nsSeen>>
      /\ IF before.extended
         THEN pc' = "namespace" /\ cursor' = before.next /\ UNCHANGED result
         ELSE pc' = "done" /\ result' = [outcome |-> "ok", reason |-> "none"]
  BY DEF AcceptNamespace, Return
<1>2. /\ namespaces \in Seq(Captured) /\ new \in Captured
      /\ namespaces' = Append(namespaces, new)
  BY AcceptTypes DEF ReaderInv, ReaderTypeOK, NamespaceTypes
<1>3. /\ Len(namespaces') = Len(namespaces) + 1
      /\ DOMAIN namespaces' = DOMAIN namespaces \cup {Len(namespaces) + 1}
      /\ \A i \in DOMAIN namespaces : namespaces'[i] = namespaces[i]
      /\ namespaces'[Len(namespaces) + 1] = new
      /\ namespaces' # <<>>
  BY <1>2
<1>4. new.rendezvous = before /\ new.modules = walk
  OBVIOUS
<1> HIDE DEF new
<1>5. Capturing /\ current = Null /\ result.outcome = "pending"
  BY <1>1 DEF ReaderInv, Capturing, Backwards, Over
<1>6. Over' /\ BudgetRespected' /\ ReverseEdgesAgree'
  BY <1>1, <1>5 DEF ReaderInv, Over, BudgetRespected, ReverseEdgesAgree
<1>7. Forwards' /\ Lifted' /\ Backwards' /\ Coexisted'
  <2>1. Forwards'
    BY <1>1 DEF Forwards, DropWalk, NoRendezvous, LastMap
  <2> QED
    BY <1>1, <2>1 DEF Lifted, Backwards, Coexisted
<1>8. RetainedChains'
  <2>1. IsChain(new.modules, new.rendezvous.map)
    BY <1>4, <1>5, WholeWalk
  <2> QED
    BY <1>3, <2>1 DEF ReaderInv, RetainedChains
<1>9. \A i \in DOMAIN namespaces : namespaces[i].rendezvous.debug # before.debug
  BY <1>5 DEF ReaderInv, Series
<1>10. before.state = "consistent" /\ before.debug = NextRdv
  BY <1>5 DEF ReaderInv, Series, NextRdv
<1>11. Series'
  <2>1. before.extended => NextRdv' = before.next
    BY <1>2, <1>3, <1>4 DEF NextRdv
  <2>2. before.extended =>
          \A i \in DOMAIN namespaces' : namespaces'[i].rendezvous.debug \in nsSeen
    BY <1>1, <1>3, <1>4, <1>5 DEF ReaderInv, Series
  <2> QED
    BY <1>1, <2>1, <2>2 DEF Series, Capturing
<1>12. RetainedNamespaces'
  <2>1. ASSUME NEW i \in DOMAIN namespaces'
        PROVE  /\ namespaces'[i].rendezvous.state = "consistent"
               /\ i = 1 => namespaces'[i].rendezvous.debug = Root
               /\ i > 1 => namespaces'[i].rendezvous.debug =
                             namespaces'[i - 1].rendezvous.next
               /\ \A j \in DOMAIN namespaces' :
                    namespaces'[i].rendezvous.debug = namespaces'[j].rendezvous.debug
                      => i = j
    <3>1. CASE i \in DOMAIN namespaces
      <4>1. i > 1 => i - 1 \in DOMAIN namespaces
        BY <3>1, <1>2
      <4> QED
        BY <3>1, <4>1, <1>3, <1>4, <1>9 DEF ReaderInv, RetainedNamespaces
    <3>2. CASE i = Len(namespaces) + 1
      <4>1. i = 1 => namespaces = <<>>
        BY <3>2, <1>2
      <4>2. i > 1 => namespaces # <<>> /\ i - 1 = Len(namespaces)
                       /\ i - 1 \in DOMAIN namespaces
        BY <3>2, <1>2
      <4> QED
        BY <3>2, <4>1, <4>2, <1>3, <1>4, <1>9, <1>10 DEF NextRdv
    <3> QED
      BY <3>1, <3>2, <1>3
  <2>2. result'.outcome = "ok" => namespaces'[Len(namespaces')].rendezvous.next = Null
    BY <1>1, <1>3, <1>4, <1>5 DEF ReaderInv, Series
  <2>3. result'.outcome \notin {"fatal", "exhausted"}
    BY <1>1, <1>5
  <2> QED
    BY <1>3, <2>1, <2>2, <2>3 DEF RetainedNamespaces
<1> QED
  BY <1>6, <1>7, <1>8, <1>11, <1>12, AcceptTypes DEF ReaderInv

(* The writer disturbs only what is known of the memory. *)
LEMMA WriteKeeps == ASSUME ReaderInv, Written PROVE ReaderInv'
<1>1. pc # "done" /\ UNCHANGED <<readerVars, instant>>
  BY DEF Written, WriteMap, WriteRdv, WriteNames, histVars
<1>2. Forwards' /\ Lifted' /\ Backwards'
  BY <1>1 DEF ReaderInv, Forwards, Lifted, Backwards, readerVars, walkVars
<1>3. Series'
  BY <1>1 DEF ReaderInv, Series, Capturing, readerVars, nsVars, NextRdv
<1>4. Coexisted'
  <2>1. SUFFICES ASSUME pc \in {"reverse", "probe"}, ~recurred' PROVE Coexisted'
    BY <1>1 DEF Coexisted, readerVars
  <2>2. UNCHANGED <<pc, walk, back, before, instant>> /\ Capturing
    BY <1>1, <2>1 DEF readerVars, walkVars, Capturing
  <2>3. CASE \E m \in Maps, n \in LinkMap \cup {Unmapped} : WriteMap(m, n)
    <3>1. PICK m \in Maps, n \in LinkMap \cup {Unmapped} : WriteMap(m, n)
      BY <2>3
    <3>2. ~recurred /\ ~Restores(m, n) /\ mem[m] # n /\ UNCHANGED rdv
      BY <2>1, <3>1 DEF WriteMap
    <3>3. \A i \in DOMAIN walk : walk[i].map = m => walk[i].node # n
      BY <3>2 DEF Restores
    <3>4. ASSUME NEW i \in DOMAIN walk PROVE walk[i].map \in Maps
      <4>1. walk[i] \in WalkStep
        BY DEF ReaderInv, ReaderTypeOK, WalkTypes
      <4> QED
        BY <4>1 DEF WalkStep
    <3>5. \A k \in Maps : mem'[k] = IF k = m THEN n ELSE mem[k]
      BY <3>1 DEF WriteMap, ReaderInv, ReaderTypeOK, HeapTypes
    <3>6. \A i \in DOMAIN walk :
            mem'[walk[i].map] = walk[i].node => mem[walk[i].map] = walk[i].node
      BY <3>3, <3>4, <3>5
    <3> QED
      BY <2>1, <2>2, <3>2, <3>6 DEF ReaderInv, Coexisted
  <2>4. CASE \E d \in Rdvs, r \in Debug \cup {Unmapped} : WriteRdv(d, r)
    <3>1. PICK d \in Rdvs, r \in Debug \cup {Unmapped} : WriteRdv(d, r)
      BY <2>4
    <3>2. ~recurred /\ ~RestoresHead(d, r) /\ UNCHANGED mem
      BY <2>1, <3>1 DEF WriteRdv
    <3>3. \A k \in Rdvs : rdv'[k] = IF k = d THEN r ELSE rdv[k]
      BY <3>1 DEF WriteRdv, ReaderInv, ReaderTypeOK, HeapTypes
    <3>4. before.debug \in Rdvs
      BY DEF ReaderInv, ReaderTypeOK, NamespaceTypes, Rendezvous
    <3>5. HeadOf(rdv'[before.debug]) = before.map => HeadOf(rdv[before.debug]) = before.map
      BY <2>2, <3>2, <3>3, <3>4 DEF RestoresHead
    <3> QED
      BY <2>1, <2>2, <3>2, <3>5 DEF ReaderInv, Coexisted
  <2>5. CASE \E live \in SUBSET Objs : WriteNames(live)
    BY <2>1, <2>2, <2>5 DEF WriteNames, histVars, ReaderInv, Coexisted
  <2> QED
    BY <2>3, <2>4, <2>5 DEF Written
<1>5. UNCHANGED <<attempt, last, result, namespaces>> /\ pc' # "done"
  BY <1>1 DEF readerVars, nsVars
<1> QED
  BY <1>1, <1>2, <1>3, <1>4, <1>5, NothingReturned, WriteTypes DEF ReaderInv

-----------------------------------------------------------------------------
(* The invariant from the first state on.                                    *)

LEMMA ReaderStarts ==
  ASSUME ReaderInit, mem \in [Maps -> LinkMap \cup {Unmapped}],
         rdv \in [Rdvs -> Debug \cup {Unmapped}], named \subseteq Objs
  PROVE  ReaderInv
<1>1. /\ pc = "initial" /\ attempt = 1 /\ last = "none"
      /\ result = [outcome |-> "pending", reason |-> "none"]
      /\ namespaces = <<>> /\ before = NoRendezvous /\ walk = <<>>
      /\ current = Null /\ previous = Null
  BY DEF ReaderInit
<1>2. ReaderTypeOK
  <2>1. HeapTypes
    BY DEF ReaderInit, HeapTypes
  <2>2. ControlTypes
    BY ReaderAssumption DEF ReaderInit, ControlTypes
  <2>3. NamespaceTypes
    BY NothingRetained DEF ReaderInit, NamespaceTypes, RdvPtr
  <2>4. WalkTypes
    BY NothingRetained DEF ReaderInit, WalkTypes, MapPtr
  <2>5. HistoryTypes
    BY NothingRetained DEF ReaderInit, HistoryTypes
  <2> QED
    BY <2>1, <2>2, <2>3, <2>4, <2>5 DEF ReaderTypeOK
<1>3. Over /\ BudgetRespected /\ ReverseEdgesAgree
  BY <1>1 DEF Over, BudgetRespected, ReverseEdgesAgree
<1>4. Forwards /\ Lifted /\ Backwards /\ Coexisted
  BY <1>1 DEF Forwards, Lifted, Backwards, Coexisted, NoRendezvous, LastMap
<1>5. RetainedChains /\ Series /\ RetainedNamespaces
  BY <1>1 DEF RetainedChains, Series, RetainedNamespaces, Capturing
<1> QED
  BY <1>2, <1>3, <1>4, <1>5 DEF ReaderInv

LEMMA ReadKeeps == ASSUME ReaderInv, Going \/ Failing PROVE ReaderInv'
<1>1. CASE Failing
  BY <1>1, FailingReason, FailKeeps
<1>2. CASE Going
  BY <1>2, ReadInitialKeeps, ReadNamespaceKeeps, EndOfNamespacesKeeps, ReadNodeKeeps,
     ReadNameKeeps, YieldNodeKeeps, EndOfForwardKeeps, RevalidateNodeKeeps,
     EndOfReverseKeeps, AcceptKeeps
     DEF Going
<1> QED
  BY <1>1, <1>2

LEMMA ReaderStutters ==
  ASSUME ReaderInv, UNCHANGED <<heapVars, touched, readerVars, histVars>>
  PROVE  ReaderInv'
  BY DEF heapVars, readerVars, nsVars, walkVars, histVars, ReaderInv, ReaderTypeOK,
     HeapTypes, ControlTypes, NamespaceTypes, WalkTypes, HistoryTypes, Over,
     BudgetRespected, ReverseEdgesAgree, Forwards, Lifted, Backwards, Coexisted,
     RetainedChains, Series, RetainedNamespaces, Capturing, NextRdv

-----------------------------------------------------------------------------
(* What a namespace is retained for.                                         *)

LEMMA OnlyAcceptRetains ==
  ASSUME ReaderInv, Going \/ Failing, namespaces' # namespaces, namespaces' # <<>>
  PROVE  AcceptNamespace
<1>1. ~UNCHANGED nsVars
  BY DEF nsVars
<1>2. ~Failing
  BY FailingReason DEF Fail, DropAttempt
<1>3. ~(ReadInitial \/ ReadNamespace \/ EndOfNamespaces \/ ReadNode \/ ReadName
         \/ YieldNode \/ EndOfForward \/ RevalidateNode)
  BY <1>1 DEF ReadInitial, ReadNamespace, EndOfNamespaces, ReadNode, ReadName, YieldNode,
         EndOfForward, RevalidateNode, nsVars
<1>4. ~EndOfReverse
  BY <1>1 DEF EndOfReverse, nsVars, Fail, DropAttempt
<1> QED
  BY <1>2, <1>3, <1>4 DEF Going

(* The walk that is retained stood at the instant, in its order, with the    *)
(* head its rendezvous names.                                                *)
LEMMA AcceptCoexisted ==
  ASSUME ReaderInv, AcceptNamespace, ~recurred
  PROVE  /\ namespaces' = Append(namespaces, [rendezvous |-> before, modules |-> walk])
         /\ namespaces'[Len(namespaces')] = [rendezvous |-> before, modules |-> walk]
         /\ CoexistedAt(walk, before.map)
         /\ IsChain(walk, before.map)
<1>1. /\ pc = "probe" /\ rdv[before.debug] # Unmapped
      /\ namespaces' = Append(namespaces, [rendezvous |-> before, modules |-> walk])
      /\ After = before
  BY DEF AcceptNamespace, ProbeFault, SameRendezvous, Accepted
<1>2. namespaces'[Len(namespaces')] = [rendezvous |-> before, modules |-> walk]
  BY <1>1 DEF ReaderInv, ReaderTypeOK, NamespaceTypes
<1>3. HeadOf(rdv[before.debug]) = before.map
  BY <1>1 DEF HeadOf, After, RendezvousOf
<1>4. walk \in Seq(WalkStep) /\ back.left = 0 /\ \A i \in DOMAIN walk : i > 0
  BY <1>1 DEF ReaderInv, ReaderTypeOK, WalkTypes, Backwards
<1>5. CoexistedAt(walk, before.map)
  BY <1>1, <1>3, <1>4 DEF ReaderInv, Coexisted, CoexistedAt
<1>6. IsChain(walk, before.map)
  BY <1>1, WholeWalk DEF ReaderInv, Backwards
<1> QED
  BY <1>1, <1>2, <1>5, <1>6

-----------------------------------------------------------------------------
(* The reader against a writer that may write anything.                      *)

AnyInv == ReaderInv /\ writes \in 0 .. MaxWrites

LEMMA AnyStarts == ASSUME AnyInit PROVE AnyInv
<1>1. /\ mem \in [Maps -> LinkMap \cup {Unmapped}]
      /\ rdv \in [Rdvs -> Debug \cup {Unmapped}] /\ named \subseteq Objs
  BY WriterAssumption DEF AnyInit
<1> QED
  BY <1>1, ReaderStarts, WriterAssumption DEF AnyInit, AnyInv

LEMMA AnyStepKeeps == ASSUME AnyInv, [AnyNext]_anyVars PROVE AnyInv'
<1>1. CASE UNCHANGED anyVars
  BY <1>1, ReaderStutters DEF anyVars, AnyInv
<1>2. CASE Read
  <2>1. UNCHANGED writes /\ (Going \/ Failing)
    BY <1>2 DEF Read, Going, Failing
  <2> QED
    BY <2>1, ReadKeeps DEF AnyInv
<1>3. CASE Write
  <2>1. Written
    BY <1>3, WriterAssumption DEF Write, Written
  <2>2. writes' \in 0 .. MaxWrites
    BY <1>3, WriterAssumption DEF Write, AnyInv
  <2> QED
    BY <2>1, <2>2, WriteKeeps DEF AnyInv
<1> QED
  BY <1>1, <1>2, <1>3 DEF AnyNext

LEMMA AnyAlways == AnySpec => []AnyInv
  BY AnyStarts, AnyStepKeeps, PTL DEF AnySpec

(* Types; in particular no attempt is run beyond the retry budget.           *)
THEOREM ReaderTypes == AnySpec => []TypeOK
<1>1. AnyInv => TypeOK
  BY DEF AnyInv, ReaderInv, TypeOK
<1> QED
  BY <1>1, AnyAlways, PTL

(* Whatever the target writes, every namespace that module.rs retains is a   *)
(* complete doubly linked chain from the head its rendezvous names.          *)
THEOREM ReaderReturnsChains == AnySpec => []RetainedChains
<1>1. AnyInv => RetainedChains
  BY DEF AnyInv, ReaderInv
<1> QED
  BY <1>1, AnyAlways, PTL

(* The namespaces namespace.rs retains follow the extended chain from the    *)
(* primary rendezvous, and a returned snapshot reaches its end.              *)
THEOREM ReaderFollowsNamespaces == AnySpec => []RetainedNamespaces
<1>1. AnyInv => RetainedNamespaces
  BY DEF AnyInv, ReaderInv
<1> QED
  BY <1>1, AnyAlways, PTL

(* The reverse traversal's edge diagnostics cannot be reported.              *)
THEOREM ReaderReverseEdgesAgree == AnySpec => []ReverseEdgesAgree
<1>1. AnyInv => ReverseEdgesAgree
  BY DEF AnyInv, ReaderInv
<1> QED
  BY <1>1, AnyAlways, PTL

(* Retry::run reports exhaustion after the last attempt, for its reason.     *)
THEOREM ReaderRespectsBudget == AnySpec => []BudgetRespected
<1>1. AnyInv => BudgetRespected
  BY DEF AnyInv, ReaderInv
<1> QED
  BY <1>1, AnyAlways, PTL

-----------------------------------------------------------------------------
(* The two traversals of module.rs bracket an instant at which the retained  *)
(* list and its head stood in memory together, unless a retained record was  *)
(* changed and changed back.                                                 *)
THEOREM ReaderRetainsOneInstant == AnySpec => RetainedCoexisted
<1>1. ASSUME AnyInv, [AnyNext]_anyVars, namespaces' # namespaces, namespaces' # <<>>, ~recurred
      PROVE  CoexistedAt(namespaces'[Len(namespaces')].modules,
                         namespaces'[Len(namespaces')].rendezvous.map)
  <2>1. ~UNCHANGED nsVars
    BY <1>1 DEF nsVars
  <2>2. ~UNCHANGED anyVars /\ ~Write
    BY <2>1 DEF anyVars, readerVars, Write, WriteMap, WriteRdv, WriteNames
  <2>3. Going \/ Failing
    BY <1>1, <2>2 DEF AnyNext, Read, Going, Failing
  <2> QED
    BY <1>1, <2>3, OnlyAcceptRetains, AcceptCoexisted DEF AnyInv
<1>2. AnyInv /\ [AnyNext]_anyVars =>
        [namespaces' # namespaces /\ namespaces' # <<>> /\ ~recurred
           => CoexistedAt(namespaces'[Len(namespaces')].modules,
                          namespaces'[Len(namespaces')].rendezvous.map)]_anyVars
  BY <1>1
<1> QED
  BY <1>2, AnyAlways, PTL DEF AnySpec, RetainedCoexisted

-----------------------------------------------------------------------------
(* Beside a GNU loader.                                                      *)

Entry == [map : Maps, obj : Objs]

(* The nodes and rendezvous the loader has in hand.                          *)

Opening == job.call \in {"fill", "append"}
Closing == job.call \in {"unlink", "unlinkback", "free"}

LoaderTypes ==
  /\ lists \in [Rdvs -> Seq(Entry)]
  /\ jobs \in Nat
  /\ quiet \in BOOLEAN
  /\ stood \subseteq Seq(Entry)

(* What the running call knows.                                              *)
JobFields ==
  /\ "call" \in DOMAIN job
  /\ job.call # "idle" => "ns" \in DOMAIN job
  /\ Opening \/ Closing => "map" \in DOMAIN job /\ "obj" \in DOMAIN job
  /\ job.call \in {"unlink", "unlinkback"} => "at" \in DOMAIN job
  /\ job.call = "link" => "last" \in DOMAIN job

(* What the running call is about to write.                                  *)
JobOK ==
  /\ JobFields
  /\ job.call \in {"idle", "fill", "append", "unlink", "unlinkback", "free", "end",
                   "link", "announce"}
  /\ job.call = "idle" => job = Idle
  /\ job.call # "idle" => job.ns \in Rdvs /\ rdv[job.ns] # Unmapped
  /\ Opening => job.map \in Maps \ InUse /\ job.obj \in named \ Live
  /\ job.call = "append" =>
       mem[job.map] = [obj |-> job.obj, next |-> Null, prev |-> TailOf(job.ns)]
  /\ job.call = "unlink" =>
       /\ job.at \in 2 .. Len(lists[job.ns])
       /\ lists[job.ns][job.at] = [map |-> job.map, obj |-> job.obj]
  /\ job.call = "unlinkback" => job.at \in 2 .. Len(lists[job.ns]) + 1
  /\ job.call \in {"unlinkback", "free"} =>
       job.map \in Maps \ InUse /\ job.obj \in Objs \ Live
  /\ job.call = "link" =>
       /\ job.ns # Root /\ job.last # job.ns
       /\ job.last \in Rdvs /\ rdv[job.last] # Unmapped
       /\ rdv[job.last].next = Null
       /\ rdv[job.ns].next = Null /\ lists[job.ns] = <<>>

(* A node's bytes are its place in the list, up to the reverse edge a        *)
(* running unlink has still to turn.                                         *)
Linked(d, i) ==
  LET m == lists[d][i].map IN
  /\ mem[m] # Unmapped
  /\ mem[m].obj = lists[d][i].obj
  /\ mem[m].next = Neighbour(d, i + 1)
  /\ \/ mem[m].prev = Neighbour(d, i - 1)
     \/ job.call = "unlinkback" /\ job.ns = d /\ job.at = i

ListsOK ==
  \A d \in Rdvs :
    /\ rdv[d] = Unmapped => lists[d] = <<>>
    /\ rdv[d] # Unmapped => rdv[d].map = Neighbour(d, 1)
    /\ \A i \in DOMAIN lists[d] : Linked(d, i)

(* No node and no object stands twice, and every loaded object has its name. *)
DistinctEntries ==
  /\ \A d, e \in Rdvs : \A i \in DOMAIN lists[d], j \in DOMAIN lists[e] :
       \/ lists[d][i].map = lists[e][j].map
       \/ lists[d][i].obj = lists[e][j].obj
       => d = e /\ i = j
  /\ Live \subseteq named

(* A namespace is consistent unless a call works on it; only the primary     *)
(* rendezvous may still be of the first version.                             *)
StatesOK ==
  \A d \in Rdvs : rdv[d] # Unmapped =>
    /\ \/ rdv[d].state = "consistent"
       \/ job.call \in {"fill", "append", "unlink", "unlinkback", "free", "end"}
            /\ job.ns = d
    /\ d # Root => rdv[d].version = 2
    /\ d # Root => rdv[Root].version = 2 \/ job.call \in {"link", "announce"}

(* The rendezvous form one chain from the primary one.                       *)
Pending(d) == job.call = "link" /\ job.ns = d

Closed(S) ==
  Root \in S /\ \A d \in S : rdv[d] # Unmapped => rdv[d].next \in S \cup {Null}

ChainOK ==
  /\ rdv[Root] # Unmapped
  /\ \E d \in Rdvs : rdv[d] # Unmapped /\ rdv[d].next = Null /\ ~Pending(d)
  /\ \A d \in Rdvs : rdv[d] # Unmapped /\ rdv[d].next # Null =>
       /\ rdv[d].next # Root
       /\ rdv[rdv[d].next] # Unmapped
       /\ ~Pending(rdv[d].next)
       /\ \A e \in Rdvs : rdv[e] # Unmapped /\ rdv[e].next = rdv[d].next => e = d
  /\ \A S \in SUBSET Rdvs : Closed(S) =>
       \A d \in Rdvs : rdv[d] # Unmapped /\ ~Pending(d) => d \in S

LoaderInv ==
  LoaderTypes /\ JobOK /\ ListsOK /\ DistinctEntries /\ StatesOK /\ ChainOK

(* The capture's own view of the lists.                                      *)

(* The memory of the instant held this list.                                 *)
HeldAtInstant(list) ==
  /\ instant.head = IF list = <<>> THEN Null ELSE list[1].map
  /\ \A i \in DOMAIN list :
       /\ instant.mem[list[i].map] # Unmapped
       /\ instant.mem[list[i].map].obj = list[i].obj
       /\ instant.mem[list[i].map].next =
            IF i = Len(list) THEN Null ELSE list[i + 1].map

Stood ==
  /\ Capturing => rdv[before.debug] # Unmapped /\ lists[before.debug] \in stood
  /\ pc \in {"reverse", "probe"} => \E list \in stood : HeldAtInstant(list)

(* Since an attempt began in which the loader did nothing, everything read   *)
(* is as it was read.                                                        *)
QuietWalk ==
  LET list == lists[before.debug] IN
  /\ before = RendezvousOf(before.debug, before.extended)
  /\ Len(walk) <= Len(list)
  /\ \A i \in DOMAIN walk :
       walk[i] = [map |-> list[i].map, node |-> mem[list[i].map]]
  /\ current = Neighbour(before.debug, Len(walk) + 1)
  /\ previous = Neighbour(before.debug, Len(walk))
  /\ \A m \in seen : \/ \E i \in DOMAIN walk : walk[i].map = m
                     \/ pc \in {"name", "recheck"} /\ m = current
  /\ pc \in {"name", "recheck"} => current # Null /\ node = mem[current]

QuietNamespaces ==
  /\ \A i \in DOMAIN namespaces :
       LET r == namespaces[i].rendezvous IN
       /\ r = RendezvousOf(r.debug, r.extended) /\ rdv[r.debug] # Unmapped
       /\ r.extended
       /\ Names(namespaces[i].modules) = lists[r.debug]
  /\ \A d \in nsSeen :
       \/ \E i \in DOMAIN namespaces : namespaces[i].rendezvous.debug = d
       \/ Capturing /\ d = before.debug
  /\ pc = "namespace" \/ (Capturing /\ before.extended) => rdv[Root].version = 2
  /\ Capturing /\ ~before.extended => rdv[Root].version = 1

Quiet ==
  quiet /\ pc # "done" =>
    /\ job = Idle /\ touched = {}
    /\ Capturing => QuietWalk
    /\ QuietNamespaces

SystemInv == ReaderInv /\ LoaderInv /\ Stood /\ Quiet

(* A rendezvous never leaves the address space.                              *)
RdvsStay == \A d \in Rdvs : rdv[d] # Unmapped => rdv'[d] # Unmapped

-----------------------------------------------------------------------------
(* Lists.                                                                    *)

LEMMA RemoveAtIs ==
  ASSUME NEW S, NEW s \in Seq(S), NEW i \in 1 .. Len(s)
  PROVE  /\ RemoveAt(s, i) \in Seq(S)
         /\ Len(RemoveAt(s, i)) = Len(s) - 1
         /\ \A j \in 1 .. Len(s) - 1 :
              RemoveAt(s, i)[j] = IF j < i THEN s[j] ELSE s[j + 1]
<1>1. /\ SubSeq(s, 1, i - 1) \in Seq(S) /\ Len(SubSeq(s, 1, i - 1)) = i - 1
      /\ \A j \in 1 .. i - 1 : SubSeq(s, 1, i - 1)[j] = s[j]
  OBVIOUS
<1>2. /\ SubSeq(s, i + 1, Len(s)) \in Seq(S)
      /\ Len(SubSeq(s, i + 1, Len(s))) = Len(s) - i
      /\ \A j \in 1 .. Len(s) - i : SubSeq(s, i + 1, Len(s))[j] = s[i + j]
  OBVIOUS
<1> DEFINE a == SubSeq(s, 1, i - 1)
           b == SubSeq(s, i + 1, Len(s))
<1> HIDE DEF a, b
<1>3. a \in Seq(S) /\ Len(a) = i - 1 /\ b \in Seq(S) /\ Len(b) = Len(s) - i
  BY <1>1, <1>2 DEF a, b
<1>4. /\ a \o b \in Seq(S) /\ Len(a \o b) = Len(s) - 1
      /\ \A j \in 1 .. Len(s) - 1 : (a \o b)[j] = IF j < i THEN a[j] ELSE b[j - (i - 1)]
  BY <1>3
<1>5. ASSUME NEW j \in 1 .. Len(s) - 1
      PROVE  (a \o b)[j] = IF j < i THEN s[j] ELSE s[j + 1]
  <2>1. j < i => a[j] = s[j]
    BY <1>1 DEF a
  <2>2. ~(j < i) => j - (i - 1) \in 1 .. Len(s) - i /\ i + (j - (i - 1)) = j + 1
    OBVIOUS
  <2>3. ~(j < i) => b[j - (i - 1)] = s[j + 1]
    BY <1>2, <2>2 DEF b
  <2> QED
    BY <1>4, <2>1, <2>3
<1> QED
  BY <1>4, <1>5 DEF RemoveAt, a, b

LEMMA InUseIs ==
  /\ \A m : m \in InUse <=> \E d \in Rdvs : \E i \in DOMAIN lists[d] : lists[d][i].map = m
  /\ \A o : o \in Live <=> \E d \in Rdvs : \E i \in DOMAIN lists[d] : lists[d][i].obj = o
  BY DEF InUse, Live, Range

(* An entry of a list, its node and its neighbours.                          *)
LEMMA EntryIs ==
  ASSUME LoaderInv, NEW d \in Rdvs, NEW i \in DOMAIN lists[d]
  PROVE  /\ lists[d] \in Seq(Entry) /\ i \in 1 .. Len(lists[d])
         /\ lists[d][i].map \in Maps /\ lists[d][i].obj \in Objs
         /\ lists[d][i] = [map |-> lists[d][i].map, obj |-> lists[d][i].obj]
         /\ lists[d][i].map \in InUse /\ lists[d][i].obj \in Live
         /\ rdv[d] # Unmapped
<1>1. lists[d] \in Seq(Entry)
  BY DEF LoaderInv, LoaderTypes
<1>2. lists[d][i] \in Entry
  BY <1>1
<1>3. rdv[d] # Unmapped
  BY <1>1 DEF LoaderInv, ListsOK
<1> QED
  BY <1>1, <1>2, <1>3, InUseIs DEF Entry

LEMMA EntriesDiffer ==
  ASSUME LoaderInv, NEW d \in Rdvs, NEW e \in Rdvs,
         NEW i \in DOMAIN lists[d], NEW j \in DOMAIN lists[e],
         \/ lists[d][i].map = lists[e][j].map
         \/ lists[d][i].obj = lists[e][j].obj
  PROVE  d = e /\ i = j
  BY DEF LoaderInv, DistinctEntries

LEMMA EntryLinked ==
  ASSUME LoaderInv, NEW d \in Rdvs, NEW i \in DOMAIN lists[d]
  PROVE  Linked(d, i)
  BY DEF LoaderInv, ListsOK

LEMMA InUseTypes == ASSUME LoaderInv PROVE InUse \subseteq Maps /\ Live \subseteq Objs
<1>1. ASSUME NEW m \in InUse PROVE m \in Maps
  <2>1. PICK d \in Rdvs : \E i \in DOMAIN lists[d] : lists[d][i].map = m
    BY InUseIs
  <2>2. PICK i \in DOMAIN lists[d] : lists[d][i].map = m
    BY <2>1
  <2> QED
    BY <2>2, EntryIs
<1>2. ASSUME NEW o \in Live PROVE o \in Objs
  <2>1. PICK d \in Rdvs : \E i \in DOMAIN lists[d] : lists[d][i].obj = o
    BY InUseIs
  <2>2. PICK i \in DOMAIN lists[d] : lists[d][i].obj = o
    BY <2>1
  <2> QED
    BY <2>2, EntryIs
<1> QED
  BY <1>1, <1>2

LEMMA NeighbourTypes ==
  ASSUME LoaderInv, NEW d \in Rdvs, NEW i
  PROVE  /\ Neighbour(d, i) \in MapPtr
         /\ Neighbour(d, i) # Null => Neighbour(d, i) \in InUse
  BY EntryIs DEF Neighbour, MapPtr

LEMMA TailIs ==
  ASSUME LoaderInv, NEW d \in Rdvs
  PROVE  TailOf(d) = Neighbour(d, Len(lists[d])) /\ TailOf(d) \in MapPtr
<1>1. lists[d] \in Seq(Entry)
  BY DEF LoaderInv, LoaderTypes
<1>2. lists[d] # <<>> => Len(lists[d]) \in DOMAIN lists[d]
  BY <1>1
<1>3. TailOf(d) = Neighbour(d, Len(lists[d]))
  BY <1>1, <1>2 DEF TailOf, Last, Neighbour
<1> QED
  BY <1>3, NeighbourTypes

-----------------------------------------------------------------------------
(* What a loader step leaves as it was.                                      *)

LEMMA ListsKept ==
  ASSUME LoaderInv, UNCHANGED lists, job.call # "unlinkback",
         \A d \in Rdvs : rdv'[d] = Unmapped => rdv[d] = Unmapped,
         \A d \in Rdvs : rdv'[d] # Unmapped => rdv'[d].map = Neighbour(d, 1),
         \A m \in InUse : mem'[m] = mem[m]
  PROVE  ListsOK'
<1>1. ASSUME NEW d \in Rdvs, NEW i \in DOMAIN lists[d] PROVE Linked(d, i)'
  <2>1. lists[d][i].map \in InUse /\ Linked(d, i)
    BY EntryIs DEF LoaderInv, ListsOK
  <2> QED
    BY <2>1 DEF Linked, Neighbour
<1> QED
  BY <1>1 DEF LoaderInv, ListsOK, Neighbour

LEMMA EntriesKept ==
  ASSUME LoaderInv, UNCHANGED lists
  PROVE  /\ InUse' = InUse /\ Live' = Live
         /\ Live \subseteq named' => DistinctEntries'
  BY DEF LoaderInv, DistinctEntries, InUse, Live

LEMMA ChainKept ==
  ASSUME LoaderInv, HeapTypes,
         \A d \in Rdvs : rdv'[d] = Unmapped <=> rdv[d] = Unmapped,
         \A d \in Rdvs : rdv[d] # Unmapped => rdv'[d].next = rdv[d].next,
         job.call # "link", job'.call # "link"
  PROVE  ChainOK'
<1>1. \A S \in SUBSET Rdvs : Closed(S)' => Closed(S)
  BY DEF Closed
<1>2. Root \in Rdvs /\ rdv'[Root] # Unmapped
  BY ReaderAssumption DEF LoaderInv, ChainOK
<1>3. \E d \in Rdvs : rdv'[d] # Unmapped /\ rdv'[d].next = Null /\ ~Pending(d)'
  BY DEF LoaderInv, ChainOK, Pending
<1>4. \A S \in SUBSET Rdvs : Closed(S)' =>
        \A d \in Rdvs : rdv'[d] # Unmapped /\ ~Pending(d)' => d \in S
  BY <1>1 DEF LoaderInv, ChainOK, Pending
<1>5. ASSUME NEW d \in Rdvs, rdv'[d] # Unmapped, rdv'[d].next # Null
      PROVE  /\ rdv'[d].next # Root
             /\ rdv'[rdv'[d].next] # Unmapped
             /\ ~Pending(rdv[d].next)'
             /\ \A e \in Rdvs : rdv'[e] # Unmapped /\ rdv'[e].next = rdv'[d].next => e = d
  <2>1. rdv[d] # Unmapped /\ rdv[d].next = rdv'[d].next
    BY <1>5
  <2>2. rdv[d].next \in Rdvs
    BY <2>1, <1>5 DEF HeapTypes, Debug, RdvPtr
  <2> QED
    BY <1>5, <2>1, <2>2 DEF LoaderInv, ChainOK, Pending
<1> QED
  BY <1>2, <1>3, <1>4, <1>5 DEF ChainOK

LEMMA RootExists == ASSUME LoaderInv PROVE Root \in Rdvs /\ rdv[Root] # Unmapped
  BY ReaderAssumption DEF LoaderInv, ChainOK

LEMMA StatesKept ==
  ASSUME LoaderInv,
         \A d \in Rdvs : rdv'[d] = Unmapped <=> rdv[d] = Unmapped,
         \A d \in Rdvs : rdv[d] # Unmapped =>
           rdv'[d].state = rdv[d].state /\ rdv'[d].version = rdv[d].version,
         (Opening \/ Closing), job'.ns = job.ns,
         job'.call \in {"fill", "append", "unlink", "unlinkback", "free", "end"}
  PROVE  StatesOK'
<1>1. job.call \notin {"link", "announce"} /\ Root \in Rdvs /\ rdv[Root] # Unmapped
  BY RootExists DEF Opening, Closing
<1>2. ASSUME NEW d \in Rdvs, rdv'[d] # Unmapped
      PROVE  /\ rdv'[d].state = "consistent" \/ job'.ns = d
             /\ d # Root => rdv'[d].version = 2
             /\ d # Root => rdv'[Root].version = 2
  BY <1>1, <1>2 DEF LoaderInv, StatesOK
<1> QED
  BY <1>2 DEF StatesOK

(* One record is rewritten.                                                  *)
LEMMA RdvWritten ==
  ASSUME HeapTypes, NEW d \in Rdvs, NEW r, WriteRdv(d, r)
  PROVE  /\ \A e \in Rdvs : rdv'[e] = IF e = d THEN r ELSE rdv[e]
         /\ UNCHANGED <<mem, named>> /\ pc # "done"
         /\ UNCHANGED <<readerVars, instant>>
  BY DEF WriteRdv, HeapTypes

LEMMA MapWritten ==
  ASSUME HeapTypes, NEW m \in Maps, NEW n, WriteMap(m, n)
  PROVE  /\ \A k \in Maps : mem'[k] = IF k = m THEN n ELSE mem[k]
         /\ UNCHANGED <<rdv, named>> /\ pc # "done"
         /\ UNCHANGED <<readerVars, instant>>
  BY DEF WriteMap, HeapTypes

LEMMA StateWritten ==
  ASSUME HeapTypes, NEW d \in Rdvs, rdv[d] # Unmapped,
         NEW state \in LoaderStates, SetState(d, state)
  PROVE  /\ \A e \in Rdvs \ {d} : rdv'[e] = rdv[e]
         /\ rdv[d] \in Debug /\ rdv'[d] \in Debug /\ rdv'[d] # Unmapped
         /\ rdv'[d].state = state /\ rdv'[d].version = rdv[d].version
         /\ rdv'[d].map = rdv[d].map /\ rdv'[d].next = rdv[d].next
         /\ UNCHANGED <<mem, named>> /\ pc # "done"
         /\ UNCHANGED <<readerVars, instant>>
<1>1. rdv[d] \in Debug
  BY DEF HeapTypes
<1>2. rdv'[d] = [rdv[d] EXCEPT !.state = state]
  BY RdvWritten DEF SetState
<1> QED
  BY <1>1, <1>2, RdvWritten, ReaderAssumption DEF SetState, Debug

(* The types a loader step keeps.                                            *)
LEMMA DisturbTypes ==
  ASSUME LoaderInv, ReaderTypeOK, Disturb, jobs' \in Nat,
         lists' \in [Rdvs -> Seq(Entry)]
  PROVE  LoaderTypes'
<1>1. before.debug \in Rdvs
  BY DEF ReaderTypeOK, NamespaceTypes, Rendezvous
<1>2. stood' \subseteq Seq(Entry)
  BY <1>1 DEF LoaderInv, LoaderTypes, Disturb
<1> QED
  BY <1>2 DEF LoaderTypes, Disturb

-----------------------------------------------------------------------------
(* dlopen.                                                                   *)

LEMMA BeginOpenKeeps ==
  ASSUME LoaderInv, ReaderTypeOK, BeginOpen, Disturb
  PROVE  LoaderInv' /\ RdvsStay /\ Written
<1>1. PICK d \in Rdvs, m \in Maps \ InUse, o \in named \ Live :
        /\ rdv[d] # Unmapped
        /\ Begin([call |-> "fill", ns |-> d, map |-> m, obj |-> o], "add")
  BY DEF BeginOpen, Exists
<1>2. /\ job = Idle /\ job.call = "idle" /\ UNCHANGED lists /\ jobs' = jobs + 1
      /\ job' = [call |-> "fill", ns |-> d, map |-> m, obj |-> o]
      /\ SetState(d, "add")
  BY <1>1 DEF Begin, Idle
<1>3. HeapTypes
  BY DEF ReaderTypeOK
<1>4. /\ \A e \in Rdvs \ {d} : rdv'[e] = rdv[e]
      /\ rdv[d] \in Debug /\ rdv'[d] \in Debug /\ rdv'[d] # Unmapped
      /\ rdv'[d].state = "add" /\ rdv'[d].version = rdv[d].version
      /\ rdv'[d].map = rdv[d].map /\ rdv'[d].next = rdv[d].next
      /\ UNCHANGED <<mem, named>>
  BY <1>1, <1>2, <1>3, StateWritten DEF LoaderStates
<1>5. InUse' = InUse /\ Live' = Live /\ DistinctEntries'
  BY <1>2, <1>4, EntriesKept DEF LoaderInv, DistinctEntries
<1>6. JobOK'
  BY <1>1, <1>2, <1>4, <1>5 DEF JobOK, JobFields, Opening, Closing
<1>7. ListsOK'
  BY <1>1, <1>2, <1>4, ListsKept DEF LoaderInv, ListsOK
<1>8. ChainOK'
  BY <1>1, <1>2, <1>3, <1>4, ChainKept
<1>9. StatesOK'
  BY <1>1, <1>2, <1>4, RootExists DEF LoaderInv, StatesOK
<1>10. LoaderTypes'
  BY <1>2, DisturbTypes DEF LoaderInv, LoaderTypes
<1>11. Written
  BY <1>1, <1>2, <1>4 DEF SetState, Written, LoaderStates, Debug
<1>12. RdvsStay
  BY <1>4 DEF RdvsStay
<1> QED
  BY <1>5, <1>6, <1>7, <1>8, <1>9, <1>10, <1>11, <1>12 DEF LoaderInv

LEMMA FillNodeKeeps ==
  ASSUME LoaderInv, ReaderTypeOK, FillNode, Disturb
  PROVE  /\ LoaderInv' /\ RdvsStay
         /\ Written \/ UNCHANGED <<heapVars, touched, readerVars, histVars>>
<1> DEFINE n == [obj |-> job.obj, next |-> Null, prev |-> TailOf(job.ns)]
<1>1. /\ job.call = "fill" /\ UNCHANGED <<lists, jobs>>
      /\ job' = [job EXCEPT !.call = "append"]
      /\ IF mem[job.map] = n
         THEN UNCHANGED <<heapVars, touched, readerVars, histVars>>
         ELSE WriteMap(job.map, n)
  BY DEF FillNode
<1>2. /\ job.ns \in Rdvs /\ rdv[job.ns] # Unmapped
      /\ job.map \in Maps \ InUse /\ job.obj \in named \ Live /\ JobFields
      /\ {"ns", "map", "obj"} \subseteq DOMAIN job
  BY <1>1 DEF LoaderInv, JobOK, JobFields, Opening
<1>3. HeapTypes /\ named \subseteq Objs
  BY DEF ReaderTypeOK, HeapTypes
<1>4. n \in LinkMap
  BY <1>2, <1>3, TailIs DEF LinkMap, MapPtr
<1>5. /\ \A k \in Maps : mem'[k] = IF k = job.map THEN n ELSE mem[k]
      /\ UNCHANGED <<rdv, named>>
  BY <1>1, <1>2, <1>3, MapWritten DEF heapVars
<1>6. InUse' = InUse /\ Live' = Live /\ DistinctEntries'
  BY <1>1, <1>5, EntriesKept DEF LoaderInv, DistinctEntries
<1>7. JobOK'
  <2>1. /\ job'.call = "append" /\ job'.ns = job.ns /\ job'.map = job.map
        /\ job'.obj = job.obj /\ DOMAIN job' = DOMAIN job
    BY <1>1, <1>2 DEF JobFields
  <2>2. TailOf(job.ns)' = TailOf(job.ns)
    BY <1>1, <2>1 DEF TailOf
  <2>3. mem'[job'.map] = n
    BY <1>2, <1>5, <2>1
  <2>4. (mem[job.map] = [obj |-> job.obj, next |-> Null, prev |-> TailOf(job.ns)])'
    BY <2>1, <2>2, <2>3
  <2> HIDE DEF n
  <2> QED
    BY <1>2, <1>5, <1>6, <2>1, <2>4 DEF JobOK, JobFields, Opening, Closing
<1>8. ListsOK'
  <2>1. \A k \in InUse : mem'[k] = mem[k]
    <3>1. \A k \in InUse : k \in Maps /\ k # job.map
      BY <1>2, InUseTypes
    <3> QED
      BY <1>5, <3>1
  <2> QED
    BY <1>1, <1>5, <2>1, ListsKept DEF LoaderInv, ListsOK
<1>9. ChainOK'
  BY <1>1, <1>2, <1>3, <1>5, ChainKept DEF JobFields
<1>10. StatesOK'
  <2>1. job'.call = "append" /\ job'.ns = job.ns
    BY <1>1, <1>2 DEF JobFields
  <2> QED
    BY <1>1, <1>5, <2>1, StatesKept DEF Opening
<1>11. LoaderTypes'
  BY <1>1, DisturbTypes DEF LoaderInv, LoaderTypes
<1>12. Written \/ UNCHANGED <<heapVars, touched, readerVars, histVars>>
  BY <1>1, <1>2, <1>4 DEF Written
<1>13. RdvsStay
  BY <1>5 DEF RdvsStay
<1> QED
  BY <1>6, <1>7, <1>8, <1>9, <1>10, <1>11, <1>12, <1>13 DEF LoaderInv

(* The node and the object of a call that is none of a list's.               *)
LEMMA NewEntry ==
  ASSUME LoaderInv, NEW n \in Rdvs, NEW m \in Maps \ InUse, NEW o \in named \ Live,
         o \in Objs,
         lists' = [lists EXCEPT ![n] = Append(@, [map |-> m, obj |-> o])],
         UNCHANGED named
  PROVE  /\ lists' \in [Rdvs -> Seq(Entry)]
         /\ \A d \in Rdvs \ {n} : lists'[d] = lists[d]
         /\ Len(lists'[n]) = Len(lists[n]) + 1
         /\ DOMAIN lists'[n] = 1 .. Len(lists[n]) + 1
         /\ DOMAIN lists[n] = 1 .. Len(lists[n]) /\ Len(lists[n]) \in Nat
         /\ \A i \in DOMAIN lists[n] : lists'[n][i] = lists[n][i]
         /\ lists'[n][Len(lists[n]) + 1] = [map |-> m, obj |-> o]
         /\ DistinctEntries'
<1> DEFINE e == [map |-> m, obj |-> o]
<1>1. e \in Entry /\ e.map = m /\ e.obj = o
  BY DEF Entry
<1>2. lists \in [Rdvs -> Seq(Entry)]
  BY DEF LoaderInv, LoaderTypes
<1> HIDE DEF e
<1>3. lists'[n] = Append(lists[n], e) /\ \A d \in Rdvs \ {n} : lists'[d] = lists[d]
  BY <1>2 DEF e
<1>4. /\ lists' \in [Rdvs -> Seq(Entry)]
      /\ Len(lists'[n]) = Len(lists[n]) + 1
      /\ DOMAIN lists'[n] = 1 .. Len(lists[n]) + 1
      /\ DOMAIN lists[n] = 1 .. Len(lists[n]) /\ Len(lists[n]) \in Nat
      /\ \A i \in DOMAIN lists[n] : lists'[n][i] = lists[n][i]
      /\ lists'[n][Len(lists[n]) + 1] = e
  <2>1. lists[n] \in Seq(Entry)
    BY <1>2
  <2>2. Append(lists[n], e) \in Seq(Entry)
    BY <1>1, <2>1
  <2>3. lists' \in [Rdvs -> Seq(Entry)]
    BY <1>2, <2>2 DEF e
  <2> QED
    BY <1>3, <2>1, <2>3
<1>5. \A d \in Rdvs : \A i \in DOMAIN lists'[d] :
        \/ i \in DOMAIN lists[d] /\ lists'[d][i] = lists[d][i]
             /\ lists[d][i].map # m /\ lists[d][i].obj # o
        \/ d = n /\ i = Len(lists[n]) + 1 /\ lists'[d][i] = e
  BY <1>3, <1>4, InUseIs
<1>6. ASSUME NEW d \in Rdvs, NEW k \in Rdvs,
             NEW i \in DOMAIN lists'[d], NEW j \in DOMAIN lists'[k],
             \/ lists'[d][i].map = lists'[k][j].map
             \/ lists'[d][i].obj = lists'[k][j].obj
      PROVE  d = k /\ i = j
  BY <1>1, <1>5, <1>6 DEF LoaderInv, DistinctEntries
<1>7. Live' \subseteq named'
  <2>1. ASSUME NEW x \in Live' PROVE x \in named
    <3>1. PICK d \in Rdvs : \E i \in DOMAIN lists'[d] : lists'[d][i].obj = x
      BY <2>1 DEF Live, Range
    <3>2. PICK i \in DOMAIN lists'[d] : lists'[d][i].obj = x
      BY <3>1
    <3> QED
      BY <1>1, <1>5, <3>2, InUseIs DEF LoaderInv, DistinctEntries
  <2> QED
    BY <2>1
<1> QED
  BY <1>3, <1>4, <1>6, <1>7 DEF DistinctEntries, e

LEMMA AppendNodeKeeps ==
  ASSUME LoaderInv, ReaderTypeOK, AppendNode, Disturb
  PROVE  LoaderInv' /\ RdvsStay /\ Written
<1> DEFINE n == job.ns
           m == job.map
           t == TailOf(n)
           L == Len(lists[n])
<1>1. /\ job.call = "append" /\ UNCHANGED jobs
      /\ job' = [job EXCEPT !.call = "end"]
      /\ lists' = [lists EXCEPT ![n] = Append(@, [map |-> m, obj |-> job.obj])]
      /\ IF lists[n] = <<>>
         THEN WriteRdv(n, [rdv[n] EXCEPT !.map = m])
         ELSE WriteMap(t, [mem[t] EXCEPT !.next = m])
  BY DEF AppendNode
<1>2. /\ n \in Rdvs /\ rdv[n] # Unmapped
      /\ m \in Maps \ InUse /\ job.obj \in named \ Live /\ JobFields
      /\ mem[m] = [obj |-> job.obj, next |-> Null, prev |-> t]
      /\ DOMAIN job' = DOMAIN job /\ job'.ns = n /\ job'.call = "end"
  BY <1>1 DEF LoaderInv, JobOK, JobFields, Opening
<1>3. HeapTypes /\ named \subseteq Objs /\ rdv[n] \in Debug
  BY <1>2 DEF ReaderTypeOK, HeapTypes
<1>4. UNCHANGED named
  BY <1>1 DEF WriteRdv, WriteMap
<1>5. /\ lists' \in [Rdvs -> Seq(Entry)]
      /\ \A d \in Rdvs \ {n} : lists'[d] = lists[d]
      /\ Len(lists'[n]) = L + 1
      /\ DOMAIN lists'[n] = 1 .. L + 1
      /\ DOMAIN lists[n] = 1 .. L /\ L \in Nat
      /\ \A i \in DOMAIN lists[n] : lists'[n][i] = lists[n][i]
      /\ lists'[n][L + 1] = [map |-> m, obj |-> job.obj]
      /\ DistinctEntries'
  <2> HIDE DEF n, m
  <2>1. job.obj \in Objs
    BY <1>2, <1>3
  <2> QED
    BY <1>1, <1>2, <1>4, <2>1, NewEntry
<1> HIDE DEF n, m, t, L
<1>6. Neighbour(n, L) = t /\ (L # 0 => t = lists[n][L].map /\ t \in InUse /\ t \in Maps)
  <2>1. Neighbour(n, L) = t
    BY <1>2, TailIs DEF t, L
  <2>2. L # 0 => L \in DOMAIN lists[n]
    BY <1>5
  <2>3. L # 0 => t = lists[n][L].map
    BY <2>1, <2>2 DEF Neighbour
  <2> QED
    BY <1>2, <2>1, <2>2, <2>3, EntryIs
<1>7. CASE lists[n] = <<>>
  <2>1. L = 0 /\ t = Null /\ DOMAIN lists[n] = {}
    BY <1>2, <1>7 DEF L, t, TailOf
  <2>2. WriteRdv(n, [rdv[n] EXCEPT !.map = m])
    BY <1>1, <1>7
  <2>3. /\ \A e \in Rdvs \ {n} : rdv'[e] = rdv[e]
        /\ rdv'[n] = [rdv[n] EXCEPT !.map = m] /\ UNCHANGED mem
    BY <1>2, <1>3, <2>2, RdvWritten
  <2>4. /\ rdv'[n] \in Debug /\ rdv'[n] # Unmapped /\ rdv'[n].map = m
        /\ rdv'[n].next = rdv[n].next /\ rdv'[n].state = rdv[n].state
        /\ rdv'[n].version = rdv[n].version
    BY <1>2, <1>3, <2>3, ReaderAssumption DEF Debug, MapPtr
  <2>5. ListsOK'
    <3>1. ASSUME NEW d \in Rdvs, NEW i \in DOMAIN lists'[d] PROVE Linked(d, i)'
      <4>1. CASE d = n
        <5>1. i = 1 /\ lists'[d][i].map = m /\ lists'[d][i].obj = job.obj
          BY <1>5, <2>1, <3>1, <4>1
        <5>2. Neighbour(d, i + 1)' = Null /\ Neighbour(d, i - 1)' = Null
          BY <1>5, <2>1, <4>1, <5>1 DEF Neighbour
        <5>3. mem'[m] # Unmapped /\ mem'[m].obj = job.obj /\ mem'[m].next = Null
                /\ mem'[m].prev = Null
          <6>1. mem[m] \in LinkMap
            BY <1>2, <1>3, <2>1 DEF LinkMap, MapPtr
          <6> QED
            BY <1>2, <2>1, <2>3, <6>1, ReaderAssumption
        <5> QED
          BY <5>1, <5>2, <5>3 DEF Linked
      <4>2. CASE d # n
        <5>1. lists'[d] = lists[d] /\ i \in DOMAIN lists[d] /\ Linked(d, i)
          BY <1>5, <4>2 DEF LoaderInv, ListsOK
        <5> QED
          BY <1>1, <2>3, <5>1 DEF Linked, Neighbour
      <4> QED
        BY <4>1, <4>2
    <3>2. ASSUME NEW d \in Rdvs
          PROVE  /\ rdv'[d] = Unmapped => lists'[d] = <<>>
                 /\ rdv'[d] # Unmapped => rdv'[d].map = Neighbour(d, 1)'
      <4>1. CASE d = n
        BY <1>5, <2>1, <2>4, <4>1 DEF Neighbour
      <4>2. CASE d # n
        BY <1>5, <2>3, <4>2 DEF LoaderInv, ListsOK, Neighbour
      <4> QED
        BY <4>1, <4>2
    <3> QED
      BY <3>1, <3>2 DEF ListsOK
  <2>6. JobOK'
    BY <1>1, <1>2, <2>4 DEF JobOK, JobFields, Opening, Closing
  <2>7. StatesOK'
    <3>1. \A d \in Rdvs : /\ rdv'[d] = Unmapped <=> rdv[d] = Unmapped
                          /\ rdv[d] # Unmapped =>
                               /\ rdv'[d].state = rdv[d].state
                               /\ rdv'[d].version = rdv[d].version
      BY <1>2, <2>3, <2>4
    <3> QED
      BY <1>1, <1>2, <3>1, StatesKept DEF Opening, n
  <2>8. ChainOK'
    BY <1>1, <1>2, <1>3, <2>3, <2>4, ChainKept
  <2>9. LoaderTypes' /\ Written
    BY <1>1, <1>2, <1>5, <2>2, <2>3, <2>4, DisturbTypes DEF LoaderInv, LoaderTypes, Written
  <2>10. RdvsStay
    BY <2>3, <2>4 DEF RdvsStay
  <2> QED
    BY <1>5, <2>5, <2>6, <2>7, <2>8, <2>9, <2>10 DEF LoaderInv
<1>8. CASE lists[n] # <<>>
  <2>1. L \in 1 .. L /\ t = lists[n][L].map /\ t \in InUse /\ t \in Maps /\ t # m
    BY <1>2, <1>5, <1>6, <1>8 DEF LoaderInv, LoaderTypes, L
  <2>2. WriteMap(t, [mem[t] EXCEPT !.next = m])
    BY <1>1, <1>8
  <2>3. /\ \A k \in Maps : mem'[k] = IF k = t THEN [mem[t] EXCEPT !.next = m] ELSE mem[k]
        /\ UNCHANGED rdv
    BY <1>3, <2>1, <2>2, MapWritten
  <2>4. mem[t] # Unmapped /\ mem[t] \in LinkMap
    BY <1>2, <1>3, <1>5, <2>1 DEF LoaderInv, ListsOK, Linked, HeapTypes
  <2>5. /\ mem'[t] \in LinkMap /\ mem'[t] # Unmapped /\ mem'[t].obj = mem[t].obj
        /\ mem'[t].next = m /\ mem'[t].prev = mem[t].prev
    BY <1>2, <2>1, <2>3, <2>4, ReaderAssumption DEF LinkMap, MapPtr
  <2>6. ListsOK'
    <3>1. ASSUME NEW d \in Rdvs, NEW i \in DOMAIN lists'[d] PROVE Linked(d, i)'
      <4>1. CASE d = n /\ i = L + 1
        <5>1. lists'[d][i].map = m /\ lists'[d][i].obj = job.obj
          BY <1>5, <4>1
        <5>2. Neighbour(d, i + 1)' = Null /\ Neighbour(d, i - 1)' = t
          BY <1>5, <2>1, <4>1 DEF Neighbour
        <5>3. mem'[m] # Unmapped /\ mem'[m].obj = job.obj /\ mem'[m].next = Null
                /\ mem'[m].prev = t
          <6>1. mem[m] \in LinkMap
            BY <1>2, <1>3, <2>1 DEF LinkMap, MapPtr
          <6> QED
            BY <1>2, <2>1, <2>3, <6>1, ReaderAssumption
        <5> QED
          BY <5>1, <5>2, <5>3 DEF Linked
      <4>2. CASE d = n /\ i = L
        <5>1. Linked(n, L) /\ lists'[d][i] = lists[n][L]
          BY <1>2, <1>5, <2>1, <4>2 DEF LoaderInv, ListsOK
        <5>2. Neighbour(d, i + 1)' = m /\ Neighbour(d, i - 1)' = Neighbour(n, L - 1)
          BY <1>5, <2>1, <4>2 DEF Neighbour
        <5> QED
          BY <1>1, <2>1, <2>5, <4>2, <5>1, <5>2 DEF Linked
      <4>3. CASE d = n /\ i \in 1 .. L - 1
        <5>0. i \in DOMAIN lists[n]
          BY <1>5, <4>3
        <5>1. Linked(n, i) /\ lists'[d][i] = lists[n][i]
          BY <1>2, <1>5, <4>3, <5>0, EntryLinked
        <5>2. Neighbour(d, i + 1)' = Neighbour(n, i + 1)
                /\ Neighbour(d, i - 1)' = Neighbour(n, i - 1)
          <6>1. i \in 1 .. L /\ i + 1 \in 1 .. L /\ i - 1 \in 0 .. L - 2
            BY <1>5, <2>1, <4>3
          <6>2. DOMAIN lists'[d] = 1 .. L + 1 /\ DOMAIN lists[n] = 1 .. L
            BY <1>5, <4>3
          <6>3. \A k \in 1 .. L : lists'[d][k] = lists[n][k]
            BY <1>5, <4>3
          <6>4. Neighbour(d, i + 1)' = Neighbour(n, i + 1)
            <7>1. i + 1 \in 1 .. L + 1
              BY <1>5, <6>1
            <7> QED
              BY <6>1, <6>2, <6>3, <7>1 DEF Neighbour
          <6>5. Neighbour(d, i - 1)' = Neighbour(n, i - 1)
            <7>1. i - 1 \in 1 .. L + 1 <=> i - 1 \in 1 .. L
              BY <1>5, <6>1
            <7> QED
              BY <6>1, <6>2, <6>3, <7>1 DEF Neighbour
          <6> QED
            BY <6>4, <6>5
        <5>3. lists[n][i].map # t /\ lists[n][i].map \in Maps
          <6>1. L \in DOMAIN lists[n] /\ L \in 1 .. L /\ i # L
            BY <1>5, <2>1, <4>3
          <6>2. lists[n][i].map # lists[n][L].map
            BY <1>2, <5>0, <6>1, EntriesDiffer
          <6> QED
            BY <1>2, <2>1, <5>0, <6>2, EntryIs
        <5> QED
          BY <1>1, <2>3, <4>3, <5>1, <5>2, <5>3 DEF Linked
      <4>4. CASE d # n
        <5>1. lists'[d] = lists[d] /\ i \in DOMAIN lists[d] /\ Linked(d, i)
          BY <1>5, <4>4 DEF LoaderInv, ListsOK
        <5>2. lists[d][i].map # t /\ lists[d][i].map \in Maps
          BY <1>2, <1>5, <2>1, <4>4, <5>1, EntryIs, EntriesDiffer
        <5> QED
          BY <1>1, <2>3, <5>1, <5>2 DEF Linked, Neighbour
      <4> QED
        BY <1>5, <4>1, <4>2, <4>3, <4>4
    <3>2. ASSUME NEW d \in Rdvs
          PROVE  /\ rdv'[d] = Unmapped => lists'[d] = <<>>
                 /\ rdv'[d] # Unmapped => rdv'[d].map = Neighbour(d, 1)'
      <4>1. CASE d = n
        <5>1. rdv'[d] # Unmapped /\ Neighbour(d, 1)' = Neighbour(n, 1)
          BY <1>2, <1>5, <2>1, <2>3, <4>1 DEF Neighbour
        <5> QED
          BY <1>2, <2>3, <4>1, <5>1 DEF LoaderInv, ListsOK
      <4>2. CASE d # n
        BY <1>5, <2>3, <4>2 DEF LoaderInv, ListsOK, Neighbour
      <4> QED
        BY <4>1, <4>2
    <3> QED
      BY <3>1, <3>2 DEF ListsOK
  <2>7. JobOK'
    BY <1>1, <1>2, <2>3 DEF JobOK, JobFields, Opening, Closing
  <2>8. StatesOK'
    BY <1>1, <1>2, <2>3, StatesKept DEF Opening, n
  <2>9. ChainOK'
    BY <1>1, <1>2, <1>3, <2>3, ChainKept
  <2>10. LoaderTypes' /\ Written
    BY <1>1, <1>5, <2>1, <2>2, <2>3, <2>5, DisturbTypes DEF LoaderInv, LoaderTypes, Written
  <2>11. RdvsStay
    BY <2>3 DEF RdvsStay
  <2> QED
    BY <1>5, <2>6, <2>7, <2>8, <2>9, <2>10, <2>11 DEF LoaderInv
<1> QED
  BY <1>7, <1>8

-----------------------------------------------------------------------------
(* dlclose.                                                                  *)

LEMMA BeginCloseKeeps ==
  ASSUME LoaderInv, ReaderTypeOK, BeginClose, Disturb
  PROVE  LoaderInv' /\ RdvsStay /\ Written
<1>1. PICK d \in Rdvs : \E i \in 2 .. Len(lists[d]) :
        Begin([call |-> "unlink", ns |-> d, map |-> lists[d][i].map,
               obj |-> lists[d][i].obj, at |-> i], "delete")
  BY DEF BeginClose
<1>2. PICK i \in 2 .. Len(lists[d]) :
        Begin([call |-> "unlink", ns |-> d, map |-> lists[d][i].map,
               obj |-> lists[d][i].obj, at |-> i], "delete")
  BY <1>1
<1>3. /\ job = Idle /\ job.call = "idle" /\ UNCHANGED lists /\ jobs' = jobs + 1
      /\ job' = [call |-> "unlink", ns |-> d, map |-> lists[d][i].map,
                 obj |-> lists[d][i].obj, at |-> i]
      /\ SetState(d, "delete")
  BY <1>2 DEF Begin, Idle
<1>4. i \in DOMAIN lists[d] /\ rdv[d] # Unmapped
        /\ lists[d][i] = [map |-> lists[d][i].map, obj |-> lists[d][i].obj]
  <2>1. lists[d] \in Seq(Entry)
    BY DEF LoaderInv, LoaderTypes
  <2>2. i \in DOMAIN lists[d]
    BY <2>1
  <2> QED
    BY <2>2, EntryIs
<1>5. HeapTypes
  BY DEF ReaderTypeOK
<1>6. /\ \A e \in Rdvs \ {d} : rdv'[e] = rdv[e]
      /\ rdv[d] \in Debug /\ rdv'[d] \in Debug /\ rdv'[d] # Unmapped
      /\ rdv'[d].state = "delete" /\ rdv'[d].version = rdv[d].version
      /\ rdv'[d].map = rdv[d].map /\ rdv'[d].next = rdv[d].next
      /\ UNCHANGED <<mem, named>>
  BY <1>3, <1>4, <1>5, StateWritten DEF LoaderStates
<1>7. DistinctEntries'
  BY <1>3, <1>6, EntriesKept DEF LoaderInv, DistinctEntries
<1>8. JobOK'
  BY <1>3, <1>4, <1>6 DEF JobOK, JobFields, Opening, Closing
<1>9. ListsOK'
  BY <1>3, <1>4, <1>6, ListsKept DEF LoaderInv, ListsOK
<1>10. ChainOK'
  BY <1>3, <1>4, <1>5, <1>6, ChainKept
<1>11. StatesOK'
  BY <1>3, <1>4, <1>6, RootExists DEF LoaderInv, StatesOK
<1>12. LoaderTypes'
  BY <1>3, DisturbTypes DEF LoaderInv, LoaderTypes
<1>13. Written
  BY <1>3, <1>4, <1>6 DEF SetState, Written, LoaderStates, Debug
<1>14. RdvsStay
  BY <1>6 DEF RdvsStay
<1> QED
  BY <1>7, <1>8, <1>9, <1>10, <1>11, <1>12, <1>13, <1>14 DEF LoaderInv

(* An entry other than the first leaves its list.                            *)
LEMMA LostEntry ==
  ASSUME LoaderInv, NEW n \in Rdvs, NEW a \in 2 .. Len(lists[n]),
         lists' = [lists EXCEPT ![n] = RemoveAt(@, a)], UNCHANGED named
  PROVE  /\ lists' \in [Rdvs -> Seq(Entry)]
         /\ \A d \in Rdvs \ {n} : lists'[d] = lists[d]
         /\ Len(lists[n]) \in Nat /\ DOMAIN lists[n] = 1 .. Len(lists[n])
         /\ Len(lists'[n]) = Len(lists[n]) - 1
         /\ DOMAIN lists'[n] = 1 .. Len(lists[n]) - 1
         /\ \A j \in DOMAIN lists'[n] :
              lists'[n][j] = IF j < a THEN lists[n][j] ELSE lists[n][j + 1]
         /\ DistinctEntries'
         /\ lists[n][a].map \notin InUse' /\ lists[n][a].obj \notin Live'
<1>1. lists \in [Rdvs -> Seq(Entry)] /\ lists[n] \in Seq(Entry)
  BY DEF LoaderInv, LoaderTypes
<1>2. /\ RemoveAt(lists[n], a) \in Seq(Entry)
      /\ Len(RemoveAt(lists[n], a)) = Len(lists[n]) - 1
      /\ \A j \in 1 .. Len(lists[n]) - 1 :
           RemoveAt(lists[n], a)[j] = IF j < a THEN lists[n][j] ELSE lists[n][j + 1]
  <2>1. a \in 1 .. Len(lists[n])
    BY <1>1
  <2> HIDE DEF RemoveAt
  <2> QED
    BY <1>1, <2>1, RemoveAtIs
<1>3. lists'[n] = RemoveAt(lists[n], a) /\ \A d \in Rdvs \ {n} : lists'[d] = lists[d]
  BY <1>1
<1>4. lists' \in [Rdvs -> Seq(Entry)]
  BY <1>1, <1>2
<1>5. /\ Len(lists[n]) \in Nat /\ DOMAIN lists[n] = 1 .. Len(lists[n])
      /\ Len(lists'[n]) = Len(lists[n]) - 1
      /\ DOMAIN lists'[n] = 1 .. Len(lists[n]) - 1
      /\ \A j \in DOMAIN lists'[n] :
           lists'[n][j] = IF j < a THEN lists[n][j] ELSE lists[n][j + 1]
  <2>1. Len(lists[n]) \in Nat /\ DOMAIN lists[n] = 1 .. Len(lists[n])
    BY <1>1
  <2>2. lists'[n] \in Seq(Entry) /\ Len(lists'[n]) = Len(lists[n]) - 1
    BY <1>2, <1>3
  <2>3. DOMAIN lists'[n] = 1 .. Len(lists[n]) - 1
    BY <2>2
  <2> QED
    BY <1>2, <1>3, <2>1, <2>2, <2>3
<1> DEFINE From(d, i) == IF d = n /\ ~(i < a) THEN i + 1 ELSE i
<1>6. \A d \in Rdvs : \A i \in DOMAIN lists'[d] :
        /\ From(d, i) \in DOMAIN lists[d] /\ lists'[d][i] = lists[d][From(d, i)]
        /\ ~(d = n /\ From(d, i) = a)
  BY <1>3, <1>5
<1>7. ASSUME NEW d \in Rdvs, NEW k \in Rdvs,
             NEW i \in DOMAIN lists'[d], NEW j \in DOMAIN lists'[k],
             \/ lists'[d][i].map = lists'[k][j].map
             \/ lists'[d][i].obj = lists'[k][j].obj
      PROVE  d = k /\ i = j
  <2>1. d = k /\ From(d, i) = From(k, j)
    <3> HIDE DEF From
    <3> QED
      BY <1>6, <1>7, EntriesDiffer
  <2>2. CASE d = n
    <3>1. i \in Int /\ j \in Int /\ a \in Int
      BY <1>5, <2>1, <2>2
    <3>2. (IF ~(i < a) THEN i + 1 ELSE i) = (IF ~(j < a) THEN j + 1 ELSE j)
      BY <2>1, <2>2
    <3> QED
      BY <2>1, <3>1, <3>2
  <2> QED
    BY <2>1, <2>2
<1> HIDE DEF From
<1>8. a \in DOMAIN lists[n]
  BY <1>5
<1>9. ASSUME NEW d \in Rdvs, NEW i \in DOMAIN lists'[d]
      PROVE  /\ lists'[d][i].map # lists[n][a].map /\ lists'[d][i].obj # lists[n][a].obj
             /\ lists'[d][i].obj \in named
  <2>1. From(d, i) \in DOMAIN lists[d] /\ lists'[d][i] = lists[d][From(d, i)]
          /\ ~(d = n /\ From(d, i) = a)
    BY <1>6
  <2>2. lists[d][From(d, i)].obj \in named
    BY <2>1, InUseIs DEF LoaderInv, DistinctEntries
  <2>3. /\ lists[d][From(d, i)].map # lists[n][a].map
        /\ lists[d][From(d, i)].obj # lists[n][a].obj
    BY <1>8, <2>1, EntriesDiffer
  <2> QED
    BY <2>1, <2>2, <2>3
<1>10. lists[n][a].map \notin InUse' /\ lists[n][a].obj \notin Live'
  BY <1>9 DEF InUse, Live, Range
<1>11. Live' \subseteq named'
  BY <1>9 DEF Live, Range
<1> QED
  BY <1>3, <1>4, <1>5, <1>7, <1>10, <1>11 DEF DistinctEntries

LEMMA UnlinkForwardKeeps ==
  ASSUME LoaderInv, ReaderTypeOK, UnlinkForward, Disturb
  PROVE  LoaderInv' /\ RdvsStay /\ Written
<1>0. PICK n, a : n = job.ns /\ a = job.at
  OBVIOUS
<1> PICK L, p : L = Len(lists[n]) /\ p = lists[n][a - 1].map
  OBVIOUS
<1>1. /\ job.call = "unlink" /\ UNCHANGED jobs
      /\ job' = [job EXCEPT !.call = "unlinkback"]
      /\ lists' = [lists EXCEPT ![n] = RemoveAt(@, a)]
      /\ WriteMap(Neighbour(n, a - 1),
                  [mem[Neighbour(n, a - 1)] EXCEPT !.next = Neighbour(n, a + 1)])
  BY <1>0 DEF UnlinkForward
<1>2. /\ n \in Rdvs /\ rdv[n] # Unmapped /\ a \in 2 .. L
      /\ lists[n][a] = [map |-> job.map, obj |-> job.obj] /\ JobFields
      /\ DOMAIN job' = DOMAIN job /\ job'.ns = n /\ job'.call = "unlinkback"
      /\ job'.at = a /\ job'.map = job.map /\ job'.obj = job.obj
  BY <1>0, <1>1 DEF LoaderInv, JobOK, JobFields, Closing
<1>3. HeapTypes /\ UNCHANGED <<named, rdv>>
  BY <1>1 DEF ReaderTypeOK, WriteMap
<1>4. /\ lists' \in [Rdvs -> Seq(Entry)]
      /\ \A d \in Rdvs \ {n} : lists'[d] = lists[d]
      /\ L \in Nat /\ DOMAIN lists[n] = 1 .. L
      /\ Len(lists'[n]) = L - 1 /\ DOMAIN lists'[n] = 1 .. L - 1
      /\ \A j \in DOMAIN lists'[n] :
           lists'[n][j] = IF j < a THEN lists[n][j] ELSE lists[n][j + 1]
      /\ DistinctEntries'
      /\ job.map \notin InUse' /\ job.obj \notin Live'
  <2>1. a \in 2 .. Len(lists[n]) /\ lists' = [lists EXCEPT ![n] = RemoveAt(@, a)]
          /\ UNCHANGED named /\ n \in Rdvs
    BY <1>1, <1>2, <1>3
  <2>2. lists[n][a].map = job.map /\ lists[n][a].obj = job.obj
    BY <1>2
  <2> HIDE DEF RemoveAt
  <2>3. /\ lists' \in [Rdvs -> Seq(Entry)]
        /\ \A d \in Rdvs \ {n} : lists'[d] = lists[d]
        /\ Len(lists[n]) \in Nat /\ DOMAIN lists[n] = 1 .. Len(lists[n])
        /\ Len(lists'[n]) = Len(lists[n]) - 1
        /\ DOMAIN lists'[n] = 1 .. Len(lists[n]) - 1
        /\ \A j \in DOMAIN lists'[n] :
             lists'[n][j] = IF j < a THEN lists[n][j] ELSE lists[n][j + 1]
        /\ DistinctEntries'
        /\ lists[n][a].map \notin InUse' /\ lists[n][a].obj \notin Live'
    BY <2>1, LostEntry
  <2> QED
    BY <2>2, <2>3
<1>5. a \in Int /\ a - 1 \in 1 .. L /\ a - 1 \in DOMAIN lists[n] /\ a \in DOMAIN lists[n]
  BY <1>2, <1>4
<1>6. p \in Maps /\ Neighbour(n, a - 1) = p
  BY <1>2, <1>5, EntryIs DEF Neighbour
<1>7. /\ \A k \in Maps :
           mem'[k] = IF k = p THEN [mem[p] EXCEPT !.next = Neighbour(n, a + 1)] ELSE mem[k]
  BY <1>1, <1>3, <1>6, MapWritten
<1>8. mem[p] # Unmapped /\ mem[p] \in LinkMap /\ Neighbour(n, a + 1) \in MapPtr
  BY <1>2, <1>3, <1>5, <1>6, EntryLinked, NeighbourTypes DEF Linked, HeapTypes
<1>9. /\ mem'[p] \in LinkMap /\ mem'[p] # Unmapped /\ mem'[p].obj = mem[p].obj
      /\ mem'[p].next = Neighbour(n, a + 1) /\ mem'[p].prev = mem[p].prev
  BY <1>6, <1>7, <1>8, ReaderAssumption DEF LinkMap
<1>10. \A k \in Int :
         Neighbour(n, k)' = IF k < a THEN Neighbour(n, k) ELSE Neighbour(n, k + 1)
  BY <1>2, <1>4, <1>5 DEF Neighbour
<1>11. ListsOK'
  <2>1. ASSUME NEW d \in Rdvs, NEW i \in DOMAIN lists'[d] PROVE Linked(d, i)'
    <3>1. CASE d # n
      <4>1. lists'[d] = lists[d] /\ i \in DOMAIN lists[d] /\ Linked(d, i)
        BY <1>4, <3>1, EntryLinked
      <4>2. lists[d][i].map # p /\ lists[d][i].map \in Maps
        BY <1>2, <1>5, <3>1, <4>1, EntryIs, EntriesDiffer
      <4> QED
        BY <1>1, <1>7, <4>1, <4>2 DEF Linked, Neighbour
    <3>2. CASE d = n /\ i = a - 1
      <4>1. lists'[d][i] = lists[n][i] /\ lists[n][i].map = p
              /\ Linked(n, a - 1) /\ lists[n][i].obj = mem[p].obj
        <5>1. i = a - 1 /\ i < a /\ i \in DOMAIN lists'[n]
          BY <1>5, <3>2
        <5>2. lists'[n][i] = lists[n][i] /\ lists[n][i].map = p /\ Linked(n, a - 1)
          BY <1>2, <1>4, <1>5, <5>1, EntryLinked
        <5> QED
          BY <3>2, <5>1, <5>2 DEF Linked
      <4>2. /\ Neighbour(d, i + 1)' = Neighbour(n, a + 1)
            /\ Neighbour(d, i - 1)' = Neighbour(n, i - 1)
        BY <1>5, <1>10, <3>2
      <4>3. mem[p].prev = Neighbour(n, i - 1)
        BY <1>1, <3>2, <4>1 DEF Linked
      <4> QED
        BY <1>9, <3>2, <4>1, <4>2, <4>3 DEF Linked
    <3>3. CASE d = n /\ i # a - 1
      <4> DEFINE k == IF i < a THEN i ELSE i + 1
      <4>1. i \in 1 .. L - 1 /\ i \in Int
        BY <1>4, <3>3
      <4>2. k \in DOMAIN lists[n] /\ k # a - 1 /\ k \in Int /\ k # a
        BY <1>4, <1>5, <3>3, <4>1
      <4>3. lists'[d][i] = lists[n][k]
        BY <1>4, <3>3
      <4>4. Neighbour(d, i + 1)' = Neighbour(n, k + 1)
        BY <1>5, <1>10, <3>3, <4>1
      <4>5. i # a => Neighbour(d, i - 1)' = Neighbour(n, k - 1)
        BY <1>5, <1>10, <3>3, <4>1
      <4> HIDE DEF k
      <4>6. lists[n][k].map # p /\ lists[n][k].map \in Maps /\ Linked(n, k)
        <5>1. lists[n][k].map # lists[n][a - 1].map
          BY <1>2, <1>5, <4>2, EntriesDiffer
        <5> QED
          BY <1>2, <4>2, <5>1, EntryIs, EntryLinked
      <4>7. /\ mem'[lists[n][k].map] = mem[lists[n][k].map]
            /\ mem[lists[n][k].map].prev = Neighbour(n, k - 1)
        BY <1>1, <1>7, <4>6 DEF Linked
      <4> QED
        BY <1>2, <3>3, <4>3, <4>4, <4>5, <4>6, <4>7 DEF Linked
    <3> QED
      BY <3>1, <3>2, <3>3
  <2>2. ASSUME NEW d \in Rdvs
        PROVE  /\ rdv'[d] = Unmapped => lists'[d] = <<>>
               /\ rdv'[d] # Unmapped => rdv'[d].map = Neighbour(d, 1)'
    <3>1. CASE d = n
      BY <1>2, <1>3, <1>5, <1>10, <3>1 DEF LoaderInv, ListsOK
    <3>2. CASE d # n
      BY <1>3, <1>4, <3>2 DEF LoaderInv, ListsOK, Neighbour
    <3> QED
      BY <3>1, <3>2
  <2> QED
    BY <2>1, <2>2 DEF ListsOK
<1>12. JobOK'
  <2>1. job.map \in Maps /\ job.obj \in Objs
    BY <1>2, <1>5, EntryIs
  <2>2. a \in 2 .. (L - 1) + 1
    BY <1>2, <1>4
  <2>3. job'.at \in 2 .. Len(lists'[job'.ns]) + 1
    BY <1>2, <1>4, <2>2
  <2>4. JobFields'
    BY <1>1, <1>2 DEF JobFields, Opening, Closing
  <2> QED
    BY <1>2, <1>3, <1>4, <2>1, <2>3, <2>4 DEF JobOK, Opening, Closing
<1>13. StatesOK'
  BY <1>0, <1>1, <1>2, <1>3, StatesKept DEF Closing
<1>14. ChainOK'
  BY <1>1, <1>2, <1>3, ChainKept
<1>15. LoaderTypes'
  BY <1>1, <1>4, DisturbTypes DEF LoaderInv, LoaderTypes
<1>16. Written
  <2>1. WriteMap(p, [mem[p] EXCEPT !.next = Neighbour(n, a + 1)])
    BY <1>1, <1>6
  <2>2. [mem[p] EXCEPT !.next = Neighbour(n, a + 1)] \in LinkMap
    BY <1>8 DEF LinkMap
  <2> QED
    BY <1>6, <2>1, <2>2 DEF Written
<1>17. RdvsStay
  BY <1>3 DEF RdvsStay
<1> QED
  BY <1>4, <1>11, <1>12, <1>13, <1>14, <1>15, <1>16, <1>17 DEF LoaderInv

LEMMA UnlinkBackwardKeeps ==
  ASSUME LoaderInv, ReaderTypeOK, UnlinkBackward, Disturb
  PROVE  /\ LoaderInv' /\ RdvsStay
         /\ Written \/ UNCHANGED <<heapVars, touched, readerVars, histVars>>
<1>0. PICK n, a : n = job.ns /\ a = job.at
  OBVIOUS
<1> PICK x : x = Neighbour(n, a)
  OBVIOUS
<1>1. /\ job.call = "unlinkback" /\ UNCHANGED <<lists, jobs>>
      /\ job' = [job EXCEPT !.call = "free"]
      /\ IF x = Null
         THEN UNCHANGED <<heapVars, touched, readerVars, histVars>>
         ELSE WriteMap(x, [mem[x] EXCEPT !.prev = Neighbour(n, a - 1)])
  BY <1>0 DEF UnlinkBackward
<1>2. /\ n \in Rdvs /\ rdv[n] # Unmapped /\ a \in 2 .. Len(lists[n]) + 1
      /\ job.map \in Maps \ InUse /\ job.obj \in Objs \ Live /\ JobFields
      /\ DOMAIN job' = DOMAIN job /\ job'.ns = n /\ job'.call = "free"
      /\ job'.map = job.map /\ job'.obj = job.obj
  BY <1>0, <1>1 DEF LoaderInv, JobOK, JobFields, Closing
<1>3. HeapTypes /\ UNCHANGED <<named, rdv>>
  BY <1>1 DEF ReaderTypeOK, WriteMap, heapVars
<1>4. lists[n] \in Seq(Entry) /\ DOMAIN lists[n] = 1 .. Len(lists[n])
  BY <1>2 DEF LoaderInv, LoaderTypes
<1>5. x # Null => a \in DOMAIN lists[n] /\ x = lists[n][a].map /\ x \in Maps
  BY <1>2, EntryIs DEF Neighbour
<1>6. x = Null => a \notin DOMAIN lists[n]
  <2>1. ASSUME a \in DOMAIN lists[n] PROVE x \in Maps
    BY <1>2, <2>1, EntryIs DEF Neighbour
  <2> QED
    BY <2>1, ReaderAssumption
<1>7. \A k \in Maps :
        mem'[k] = IF x # Null /\ k = x THEN [mem[x] EXCEPT !.prev = Neighbour(n, a - 1)]
                  ELSE mem[k]
  BY <1>1, <1>3, <1>5, MapWritten DEF heapVars
<1>8. x # Null => mem[x] # Unmapped /\ mem[x] \in LinkMap /\ Linked(n, a)
  BY <1>2, <1>3, <1>5, EntryLinked DEF Linked, HeapTypes
<1>9. Neighbour(n, a - 1) \in MapPtr
  BY <1>2, NeighbourTypes
<1>10. x # Null =>
         /\ mem'[x] \in LinkMap /\ mem'[x] # Unmapped /\ mem'[x].obj = mem[x].obj
         /\ mem'[x].next = mem[x].next /\ mem'[x].prev = Neighbour(n, a - 1)
  BY <1>5, <1>7, <1>8, <1>9, ReaderAssumption DEF LinkMap
<1>11. ListsOK'
  <2>1. ASSUME NEW d \in Rdvs, NEW i \in DOMAIN lists[d] PROVE Linked(d, i)'
    <3>1. Linked(d, i) /\ lists[d][i].map \in Maps
      BY EntryLinked, EntryIs
    <3>2. CASE d = n /\ i = a
      <4>1. x # Null /\ x = lists[d][i].map
        BY <1>5, <1>6, <3>2
      <4> QED
        BY <1>1, <1>10, <3>1, <3>2, <4>1 DEF Linked, Neighbour
    <3>3. CASE ~(d = n /\ i = a)
      <4>1. x # Null => lists[d][i].map # x
        BY <1>2, <1>5, <3>3, EntriesDiffer
      <4>2. mem[lists[d][i].map].prev = Neighbour(d, i - 1)
        BY <1>0, <3>1, <3>3 DEF Linked
      <4> QED
        BY <1>1, <1>7, <3>1, <4>1, <4>2 DEF Linked, Neighbour
    <3> QED
      BY <3>2, <3>3
  <2> QED
    BY <1>1, <1>3, <2>1 DEF LoaderInv, ListsOK, Neighbour
<1>12. InUse' = InUse /\ Live' = Live /\ DistinctEntries'
  BY <1>1, <1>3, EntriesKept DEF LoaderInv, DistinctEntries
<1>13. JobOK'
  <2>1. JobFields'
    BY <1>1, <1>2 DEF JobFields, Opening, Closing
  <2> QED
    BY <1>2, <1>3, <1>12, <2>1 DEF JobOK, Opening, Closing
<1>14. StatesOK'
  BY <1>0, <1>1, <1>2, <1>3, StatesKept DEF Closing
<1>15. ChainOK'
  BY <1>1, <1>2, <1>3, ChainKept
<1>16. LoaderTypes'
  BY <1>1, DisturbTypes DEF LoaderInv, LoaderTypes
<1>17. Written \/ UNCHANGED <<heapVars, touched, readerVars, histVars>>
  <2>1. x # Null => [mem[x] EXCEPT !.prev = Neighbour(n, a - 1)] \in LinkMap
    BY <1>8, <1>9 DEF LinkMap
  <2> QED
    BY <1>1, <1>5, <2>1 DEF Written
<1>18. RdvsStay
  BY <1>3 DEF RdvsStay
<1> QED
  BY <1>11, <1>12, <1>13, <1>14, <1>15, <1>16, <1>17, <1>18 DEF LoaderInv

LEMMA FreeNodeKeeps ==
  ASSUME LoaderInv, ReaderTypeOK, FreeNode, Disturb
  PROVE  /\ LoaderInv' /\ RdvsStay
         /\ Written \/ UNCHANGED <<heapVars, touched, readerVars, histVars>>
<1>1. /\ job.call = "free" /\ UNCHANGED <<lists, jobs>>
      /\ job' = [job EXCEPT !.call = "end"]
      /\ \/ UNCHANGED <<heapVars, touched, readerVars, histVars>>
         \/ WriteMap(job.map, Unmapped)
         \/ WriteNames(named \ {job.obj})
  BY DEF FreeNode
<1>2. /\ job.ns \in Rdvs /\ rdv[job.ns] # Unmapped
      /\ job.map \in Maps \ InUse /\ job.obj \in Objs \ Live /\ JobFields
      /\ DOMAIN job' = DOMAIN job /\ job'.ns = job.ns /\ job'.call = "end"
  BY <1>1 DEF LoaderInv, JobOK, JobFields, Closing
<1>3. HeapTypes /\ named \subseteq Objs /\ UNCHANGED rdv
  BY <1>1 DEF ReaderTypeOK, HeapTypes, WriteMap, WriteNames, heapVars
<1>4. \A k \in InUse : mem'[k] = mem[k]
  <2>1. CASE WriteMap(job.map, Unmapped)
    <3>1. \A k \in Maps : k # job.map => mem'[k] = mem[k]
      BY <1>2, <1>3, <2>1, MapWritten
    <3> QED
      BY <1>2, <3>1, InUseTypes
  <2>2. CASE ~WriteMap(job.map, Unmapped)
    BY <1>1, <2>2 DEF WriteNames, heapVars
  <2> QED
    BY <2>1, <2>2
<1>5. named' = named \/ named' = named \ {job.obj}
  BY <1>1 DEF WriteMap, WriteNames, heapVars
<1>6. InUse' = InUse /\ Live' = Live /\ DistinctEntries'
  <2>1. Live \subseteq named'
    BY <1>2, <1>5 DEF LoaderInv, DistinctEntries
  <2> QED
    BY <1>1, <2>1, EntriesKept
<1>7. ListsOK'
  BY <1>1, <1>3, <1>4, ListsKept DEF LoaderInv, ListsOK
<1>8. JobOK'
  <2>1. JobFields'
    BY <1>1, <1>2 DEF JobFields, Opening, Closing
  <2> QED
    BY <1>2, <1>3, <1>6, <2>1 DEF JobOK, Opening, Closing
<1>9. StatesOK'
  BY <1>1, <1>2, <1>3, StatesKept DEF Closing
<1>10. ChainOK'
  BY <1>1, <1>2, <1>3, ChainKept
<1>11. LoaderTypes'
  BY <1>1, DisturbTypes DEF LoaderInv, LoaderTypes
<1>12. Written \/ UNCHANGED <<heapVars, touched, readerVars, histVars>>
  BY <1>1, <1>2, <1>3 DEF Written
<1>13. RdvsStay
  BY <1>3 DEF RdvsStay
<1> QED
  BY <1>6, <1>7, <1>8, <1>9, <1>10, <1>11, <1>12, <1>13 DEF LoaderInv

LEMMA EndJobKeeps ==
  ASSUME LoaderInv, ReaderTypeOK, EndJob, Disturb
  PROVE  LoaderInv' /\ RdvsStay /\ Written
<1>0. PICK n : n = job.ns
  OBVIOUS
<1>1. /\ job.call = "end" /\ UNCHANGED <<lists, jobs>>
      /\ job' = Idle /\ job'.call = "idle" /\ SetState(n, "consistent")
  BY <1>0 DEF EndJob, Idle
<1>2. n \in Rdvs /\ rdv[n] # Unmapped
  BY <1>0, <1>1 DEF LoaderInv, JobOK
<1>3. HeapTypes
  BY DEF ReaderTypeOK
<1>4. /\ \A e \in Rdvs \ {n} : rdv'[e] = rdv[e]
      /\ rdv[n] \in Debug /\ rdv'[n] \in Debug /\ rdv'[n] # Unmapped
      /\ rdv'[n].state = "consistent" /\ rdv'[n].version = rdv[n].version
      /\ rdv'[n].map = rdv[n].map /\ rdv'[n].next = rdv[n].next
      /\ UNCHANGED <<mem, named>>
  BY <1>1, <1>2, <1>3, StateWritten DEF LoaderStates
<1>5. DistinctEntries'
  BY <1>1, <1>4, EntriesKept DEF LoaderInv, DistinctEntries
<1>6. JobOK'
  BY <1>1 DEF JobOK, JobFields, Opening, Closing, Idle
<1>7. ListsOK'
  BY <1>1, <1>2, <1>4, ListsKept DEF LoaderInv, ListsOK
<1>8. ChainOK'
  BY <1>1, <1>2, <1>3, <1>4, ChainKept
<1>9. StatesOK'
  <2>1. ASSUME NEW d \in Rdvs, rdv'[d] # Unmapped
        PROVE  /\ rdv'[d].state = "consistent"
               /\ d # Root => rdv'[d].version = 2 /\ rdv'[Root].version = 2
    BY <1>0, <1>1, <1>2, <1>4, <2>1, RootExists DEF LoaderInv, StatesOK
  <2> QED
    BY <2>1 DEF StatesOK
<1>10. LoaderTypes'
  BY <1>1, DisturbTypes DEF LoaderInv, LoaderTypes
<1>11. Written
  BY <1>1, <1>2, <1>4 DEF SetState, Written, LoaderStates, Debug
<1>12. RdvsStay
  BY <1>4 DEF RdvsStay
<1> QED
  BY <1>5, <1>6, <1>7, <1>8, <1>9, <1>10, <1>11, <1>12 DEF LoaderInv

-----------------------------------------------------------------------------
(* dlmopen.                                                                  *)

LEMMA BeginNamespaceKeeps ==
  ASSUME LoaderInv, ReaderTypeOK, BeginNamespace, Disturb
  PROVE  LoaderInv' /\ RdvsStay /\ Written
<1> DEFINE r == [version |-> 2, state |-> "consistent", map |-> Null, next |-> Null]
<1>1. PICK d \in Rdvs :
        /\ job = Idle /\ rdv[d] = Unmapped /\ jobs' = jobs + 1 /\ UNCHANGED lists
        /\ job' = [call |-> "link", ns |-> d, last |-> LastRdv]
        /\ WriteRdv(d, r)
  BY DEF BeginNamespace, Exists
<1>2. r \in Debug /\ r # Unmapped
  BY ReaderAssumption DEF Debug, LoaderStates, MapPtr, RdvPtr
<1>3. HeapTypes /\ job.call = "idle"
  BY <1>1 DEF ReaderTypeOK, Idle
<1>4. /\ \A e \in Rdvs : rdv'[e] = IF e = d THEN r ELSE rdv[e]
      /\ UNCHANGED <<mem, named>>
  BY <1>1, <1>3, RdvWritten
<1>5. LastRdv \in Rdvs /\ rdv[LastRdv] # Unmapped /\ rdv[LastRdv].next = Null
  <2>1. \E e \in Rdvs : Exists(e) /\ rdv[e].next = Null
    BY DEF LoaderInv, ChainOK, Exists
  <2> QED
    BY <2>1 DEF LastRdv, Exists
<1>6. PICK l : l = LastRdv
  OBVIOUS
<1>7. /\ job' = [call |-> "link", ns |-> d, last |-> l] /\ l \in Rdvs /\ l # d
      /\ rdv[l] # Unmapped /\ rdv[l].next = Null /\ d # Root
  BY <1>1, <1>5, <1>6, RootExists
<1>8. /\ rdv'[d] = r /\ rdv'[d].next = Null /\ rdv'[d].map = Null
      /\ rdv'[d].version = 2 /\ rdv'[d].state = "consistent" /\ rdv'[d] # Unmapped
  BY <1>2, <1>4
<1>9. /\ \A e \in Rdvs : e # d => rdv'[e] = rdv[e]
      /\ lists[d] = <<>>
  BY <1>1, <1>4 DEF LoaderInv, ListsOK
<1> HIDE DEF r
<1>10. DistinctEntries'
  BY <1>1, <1>4, EntriesKept DEF LoaderInv, DistinctEntries
<1>11. JobOK'
  BY <1>1, <1>7, <1>8, <1>9 DEF JobOK, JobFields, Opening, Closing
<1>12. ListsOK'
  <2>1. Neighbour(d, 1) = Null
    BY <1>9 DEF Neighbour
  <2>2. \A e \in Rdvs : rdv'[e] # Unmapped => rdv'[e].map = Neighbour(e, 1)
    BY <1>8, <1>9, <2>1 DEF LoaderInv, ListsOK
  <2>3. \A e \in Rdvs : rdv'[e] = Unmapped => rdv[e] = Unmapped
    BY <1>8, <1>9
  <2> QED
    BY <1>1, <1>3, <1>4, <2>2, <2>3, ListsKept
<1>13. StatesOK'
  BY <1>3, <1>7, <1>8, <1>9 DEF LoaderInv, StatesOK
<1>14. ChainOK'
  <2>1. \A e \in Rdvs : Pending(e)' <=> e = d
    BY <1>7 DEF Pending
  <2>2. \A e \in Rdvs : ~Pending(e)
    BY <1>3 DEF Pending
  <2>3. Root \in Rdvs /\ rdv[Root] # Unmapped
    BY RootExists
  <2>4. ASSUME NEW S \in SUBSET Rdvs, Closed(S)',
               NEW e \in Rdvs, rdv'[e] # Unmapped, ~Pending(e)'
        PROVE  e \in S
    <3>1. Closed(S)
      BY <1>1, <1>9, <2>4 DEF Closed
    <3> QED
      BY <1>9, <2>1, <2>2, <2>4, <3>1 DEF LoaderInv, ChainOK
  <2>5. ASSUME NEW e \in Rdvs, NEW x, x = rdv'[e].next, rdv'[e] # Unmapped, x # Null
        PROVE  /\ x # Root /\ rdv'[x] # Unmapped /\ ~Pending(x)'
               /\ \A k \in Rdvs : rdv'[k] # Unmapped /\ rdv'[k].next = x => k = e
    <3>1. e # d /\ rdv'[e] = rdv[e] /\ x = rdv[e].next
      BY <1>8, <1>9, <2>5
    <3>2. x \in Rdvs
      BY <1>3, <2>5, <3>1 DEF HeapTypes, Debug, RdvPtr
    <3>3. /\ x # Root /\ rdv[x] # Unmapped
          /\ \A k \in Rdvs : rdv[k] # Unmapped /\ rdv[k].next = x => k = e
      BY <2>5, <3>1 DEF LoaderInv, ChainOK
    <3>4. x # d
      BY <1>1, <3>3
    <3> QED
      BY <1>8, <1>9, <2>1, <2>5, <3>2, <3>3, <3>4
  <2>6. rdv'[l] # Unmapped /\ rdv'[l].next = Null /\ ~Pending(l)'
    BY <1>7, <1>9, <2>1
  <2>7. rdv'[Root] # Unmapped
    BY <1>7, <1>9, <2>3
  <2> QED
    BY <1>7, <2>4, <2>5, <2>6, <2>7 DEF ChainOK
<1>15. LoaderTypes'
  BY <1>1, DisturbTypes DEF LoaderInv, LoaderTypes
<1>16. Written
  BY <1>1, <1>2 DEF Written
<1>17. RdvsStay
  BY <1>8, <1>9 DEF RdvsStay
<1> QED
  BY <1>10, <1>11, <1>12, <1>13, <1>14, <1>15, <1>16, <1>17 DEF LoaderInv

LEMMA LinkNamespaceKeeps ==
  ASSUME LoaderInv, ReaderTypeOK, LinkNamespace, Disturb
  PROVE  LoaderInv' /\ RdvsStay /\ Written
<1>0. PICK d, l : d = job.ns /\ l = job.last
  OBVIOUS
<1>1. /\ job.call = "link" /\ UNCHANGED <<lists, jobs>>
      /\ job' = [job EXCEPT !.call = "announce"]
      /\ WriteRdv(l, [rdv[l] EXCEPT !.next = d])
  BY <1>0 DEF LinkNamespace
<1>2. /\ d \in Rdvs /\ rdv[d] # Unmapped /\ d # Root /\ l # d /\ l \in Rdvs
      /\ rdv[l] # Unmapped /\ rdv[l].next = Null /\ rdv[d].next = Null /\ JobFields
      /\ DOMAIN job' = DOMAIN job /\ job'.ns = d /\ job'.call = "announce"
  BY <1>0, <1>1 DEF LoaderInv, JobOK, JobFields
<1>3. HeapTypes /\ rdv[l] \in Debug
  BY <1>2 DEF ReaderTypeOK, HeapTypes
<1>4. /\ \A e \in Rdvs : e # l => rdv'[e] = rdv[e]
      /\ rdv'[l] = [rdv[l] EXCEPT !.next = d] /\ UNCHANGED <<mem, named>>
  BY <1>1, <1>2, <1>3, RdvWritten
<1>5. /\ rdv'[l] \in Debug /\ rdv'[l] # Unmapped /\ rdv'[l].next = d
      /\ rdv'[l].state = rdv[l].state /\ rdv'[l].map = rdv[l].map
      /\ rdv'[l].version = rdv[l].version
  BY <1>2, <1>3, <1>4, ReaderAssumption DEF Debug, RdvPtr
<1>6. DistinctEntries'
  BY <1>1, <1>4, EntriesKept DEF LoaderInv, DistinctEntries
<1>7. JobOK'
  <2>1. JobFields'
    BY <1>1, <1>2 DEF JobFields, Opening, Closing
  <2> QED
    BY <1>2, <1>4, <2>1 DEF JobOK, Opening, Closing
<1>8. ListsOK'
  <2>1. \A e \in Rdvs : rdv'[e] # Unmapped => rdv'[e].map = Neighbour(e, 1)
    BY <1>2, <1>4, <1>5 DEF LoaderInv, ListsOK
  <2>2. \A e \in Rdvs : rdv'[e] = Unmapped => rdv[e] = Unmapped
    BY <1>4, <1>5
  <2> QED
    BY <1>1, <1>4, <2>1, <2>2, ListsKept
<1>9. StatesOK'
  <2>1. Root \in Rdvs /\ rdv[Root] # Unmapped
    BY RootExists
  <2>2. ASSUME NEW e \in Rdvs, rdv'[e] # Unmapped
        PROVE rdv'[e].state = "consistent" /\ (e # Root => rdv'[e].version = 2)
    BY <1>1, <1>2, <1>4, <1>5, <2>2 DEF LoaderInv, StatesOK
  <2> QED
    BY <1>2, <2>2 DEF StatesOK
<1>10. ChainOK'
  <2>1. \A e : ~Pending(e)'
    BY <1>2 DEF Pending
  <2>2. \A e : Pending(e) <=> e = d
    BY <1>0, <1>1 DEF Pending
  <2>3. Root \in Rdvs /\ rdv[Root] # Unmapped /\ rdv'[Root] # Unmapped
    BY <1>4, <1>5, RootExists
  <2>4. ASSUME NEW S \in SUBSET Rdvs, Closed(S)', NEW e \in Rdvs, rdv'[e] # Unmapped
        PROVE  e \in S
    <3>1. Closed(S)
      BY <1>2, <1>4, <1>5, <2>4 DEF Closed
    <3>2. \A k \in Rdvs : rdv[k] # Unmapped /\ k # d => k \in S
      BY <2>2, <3>1 DEF LoaderInv, ChainOK
    <3>3. l \in S
      BY <1>2, <3>2
    <3>4. d \in S
      BY <1>2, <1>5, <2>4, <3>3, ReaderAssumption DEF Closed
    <3> QED
      BY <1>2, <1>4, <2>4, <3>2, <3>3, <3>4
  <2>5. ASSUME NEW e \in Rdvs, NEW x, x = rdv'[e].next, rdv'[e] # Unmapped, x # Null
        PROVE  /\ x # Root /\ rdv'[x] # Unmapped
               /\ \A k \in Rdvs : rdv'[k] # Unmapped /\ rdv'[k].next = x => k = e
    <3>1. \A k \in Rdvs : rdv[k] # Unmapped => rdv[k].next # d
      BY <1>2, <2>2, ReaderAssumption DEF LoaderInv, ChainOK
    <3>2. CASE e = l
      BY <1>2, <1>4, <1>5, <2>5, <3>1, <3>2
    <3>3. CASE e # l
      <4>1. rdv'[e] = rdv[e] /\ x = rdv[e].next /\ rdv[e] # Unmapped /\ x # d
        BY <1>4, <2>5, <3>1, <3>3
      <4>2. x \in Rdvs
        BY <1>3, <2>5, <4>1 DEF HeapTypes, Debug, RdvPtr
      <4>3. /\ x # Root /\ rdv[x] # Unmapped
            /\ \A k \in Rdvs : rdv[k] # Unmapped /\ rdv[k].next = x => k = e
        BY <2>5, <4>1 DEF LoaderInv, ChainOK
      <4> QED
        BY <1>4, <1>5, <4>1, <4>2, <4>3
    <3> QED
      BY <3>2, <3>3
  <2>6. rdv'[d] # Unmapped /\ rdv'[d].next = Null
    BY <1>2, <1>4
  <2> QED
    BY <1>2, <2>1, <2>3, <2>4, <2>5, <2>6 DEF ChainOK
<1>11. LoaderTypes'
  BY <1>1, DisturbTypes DEF LoaderInv, LoaderTypes
<1>12. Written
  <2>1. [rdv[l] EXCEPT !.next = d] \in Debug
    BY <1>4, <1>5
  <2> QED
    BY <1>1, <1>2, <2>1 DEF Written
<1>13. RdvsStay
  BY <1>4, <1>5 DEF RdvsStay
<1> QED
  BY <1>6, <1>7, <1>8, <1>9, <1>10, <1>11, <1>12, <1>13 DEF LoaderInv

LEMMA AnnounceExtendedKeeps ==
  ASSUME LoaderInv, ReaderTypeOK, AnnounceExtended, Disturb
  PROVE  /\ LoaderInv' /\ RdvsStay
         /\ Written \/ UNCHANGED <<heapVars, touched, readerVars, histVars>>
<1>1. /\ job.call = "announce" /\ UNCHANGED <<lists, jobs>>
      /\ job' = Idle /\ job'.call = "idle"
      /\ IF rdv[Root].version = 2
         THEN UNCHANGED <<heapVars, touched, readerVars, histVars>>
         ELSE WriteRdv(Root, [rdv[Root] EXCEPT !.version = 2])
  BY DEF AnnounceExtended, Idle
<1>2. Root \in Rdvs /\ rdv[Root] # Unmapped
  BY RootExists
<1>3. HeapTypes /\ rdv[Root] \in Debug
  BY <1>2 DEF ReaderTypeOK, HeapTypes
<1>4. /\ \A e \in Rdvs : e # Root => rdv'[e] = rdv[e]
      /\ rdv'[Root] = [rdv[Root] EXCEPT !.version = 2] /\ UNCHANGED <<mem, named>>
  <2>1. CASE rdv[Root].version = 2
    BY <1>1, <1>3, <2>1 DEF heapVars, Debug
  <2>2. CASE rdv[Root].version # 2
    BY <1>1, <1>2, <1>3, <2>2, RdvWritten
  <2> QED
    BY <2>1, <2>2
<1>5. /\ rdv'[Root] \in Debug /\ rdv'[Root] # Unmapped /\ rdv'[Root].next = rdv[Root].next
      /\ rdv'[Root].state = rdv[Root].state /\ rdv'[Root].map = rdv[Root].map
      /\ rdv'[Root].version = 2
  BY <1>3, <1>4, ReaderAssumption DEF Debug
<1>6. DistinctEntries'
  BY <1>1, <1>4, EntriesKept DEF LoaderInv, DistinctEntries
<1>7. JobOK'
  BY <1>1 DEF JobOK, JobFields, Opening, Closing, Idle
<1>8. ListsOK'
  <2>1. \A e \in Rdvs : rdv'[e] # Unmapped => rdv'[e].map = Neighbour(e, 1)
    BY <1>2, <1>4, <1>5 DEF LoaderInv, ListsOK
  <2>2. \A e \in Rdvs : rdv'[e] = Unmapped => rdv[e] = Unmapped
    BY <1>4, <1>5
  <2> QED
    BY <1>1, <1>4, <2>1, <2>2, ListsKept
<1>9. StatesOK'
  <2>1. ASSUME NEW e \in Rdvs, rdv'[e] # Unmapped
        PROVE rdv'[e].state = "consistent" /\ (e # Root => rdv'[e].version = 2)
    BY <1>1, <1>2, <1>4, <1>5, <2>1 DEF LoaderInv, StatesOK
  <2> QED
    BY <1>5, <2>1 DEF StatesOK
<1>10. ChainOK'
  BY <1>1, <1>2, <1>3, <1>4, <1>5, ChainKept
<1>11. LoaderTypes'
  BY <1>1, DisturbTypes DEF LoaderInv, LoaderTypes
<1>12. Written \/ UNCHANGED <<heapVars, touched, readerVars, histVars>>
  <2>1. [rdv[Root] EXCEPT !.version = 2] \in Debug
    BY <1>4, <1>5
  <2> QED
    BY <1>1, <1>2, <2>1 DEF Written
<1>13. RdvsStay
  BY <1>4, <1>5 DEF RdvsStay
<1> QED
  BY <1>6, <1>7, <1>8, <1>9, <1>10, <1>11, <1>12, <1>13 DEF LoaderInv

(* The loader, whatever it does next.                                        *)
LEMMA LoaderKeeps ==
  ASSUME LoaderInv, ReaderTypeOK, LoaderStep
  PROVE  /\ LoaderInv' /\ RdvsStay /\ Disturb
         /\ Written \/ UNCHANGED <<heapVars, touched, readerVars, histVars>>
  BY BeginOpenKeeps, FillNodeKeeps, AppendNodeKeeps, BeginCloseKeeps, UnlinkForwardKeeps,
     UnlinkBackwardKeeps, FreeNodeKeeps, EndJobKeeps, BeginNamespaceKeeps,
     LinkNamespaceKeeps, AnnounceExtendedKeeps DEF LoaderStep

-----------------------------------------------------------------------------
(* The start, and the reader's steps.                                        *)

LEMMA LoaderStarts ==
  ASSUME Init
  PROVE  /\ LoaderInv
         /\ mem \in [Maps -> LinkMap \cup {Unmapped}]
         /\ rdv \in [Rdvs -> Debug \cup {Unmapped}]
<1>1. PICK list \in BoundedSeq([map : Maps, obj : Snapshotted], MaxLoaded) :
        /\ list # <<>>
        /\ \A i, j \in DOMAIN list :
             list[i].map = list[j].map \/ list[i].obj = list[j].obj => i = j
        /\ lists = [d \in Rdvs |-> IF d = Root THEN list ELSE <<>>]
        /\ rdv = [d \in Rdvs |->
             IF d = Root
             THEN [version |-> 1, state |-> "consistent", map |-> list[1].map,
                   next |-> Null]
             ELSE Unmapped]
        /\ mem = [m \in Maps |->
             IF \E i \in DOMAIN list : list[i].map = m
             THEN LET i == CHOOSE i \in DOMAIN list : list[i].map = m IN
                  [obj |-> list[i].obj, next |-> Neighbour(Root, i + 1),
                   prev |-> Neighbour(Root, i - 1)]
             ELSE Unmapped]
  BY DEF Init
<1>2. /\ job = Idle /\ job.call = "idle" /\ jobs = 0 /\ quiet = TRUE /\ stood = {}
      /\ named = Objs
  BY DEF Init, Idle
<1>3. list \in Seq(Entry) /\ DOMAIN list = 1 .. Len(list) /\ 1 \in DOMAIN list
      /\ \A i \in DOMAIN list : list[i].map \in Maps /\ list[i].obj \in Objs
  <2>1. PICK n \in 0 .. MaxLoaded : list \in [1 .. n -> [map : Maps, obj : Snapshotted]]
    BY <1>1 DEF BoundedSeq, SeqOf
  <2>2. n \in Nat
    BY LoaderAssumption
  <2>3. list \in [1 .. n -> Entry]
    BY <2>1, ReaderAssumption DEF Entry
  <2>4. list \in Seq(Entry)
    BY <2>2, <2>3
  <2>5. DOMAIN list = 1 .. Len(list) /\ Len(list) \in Nat
    BY <2>4
  <2>6. Len(list) # 0
    BY <1>1, <2>4
  <2>7. \A i \in DOMAIN list : list[i] \in Entry
    BY <2>4
  <2> QED
    BY <2>4, <2>5, <2>6, <2>7 DEF Entry
<1>4. /\ Root \in Rdvs /\ lists[Root] = list
      /\ \A d \in Rdvs : d # Root => lists[d] = <<>>
      /\ \A d \in Rdvs : d # Root => rdv[d] = Unmapped
      /\ rdv[Root] = [version |-> 1, state |-> "consistent", map |-> list[1].map,
                      next |-> Null]
  BY <1>1, ReaderAssumption
<1>5. rdv[Root] # Unmapped /\ rdv[Root] \in Debug
  <2>1. list[1].map \in Maps
    BY <1>3
  <2>2. rdv[Root] \in Debug
    BY <1>4, <2>1 DEF Debug, LoaderStates, MapPtr, RdvPtr
  <2> QED
    BY <2>2, ReaderAssumption
<1>6. LoaderTypes
  BY <1>1, <1>2, <1>3 DEF LoaderTypes
<1>7. JobOK
  BY <1>2 DEF JobOK, JobFields, Opening, Closing, Idle
<1>8. ASSUME NEW i \in DOMAIN list
      PROVE  Linked(Root, i) /\ list[i].obj \in Objs /\ mem[list[i].map] \in LinkMap
  <2>1. list[i].map \in Maps /\ list[i].obj \in Objs
    BY <1>3
  <2>2. PICK j : j = CHOOSE k \in DOMAIN list : list[k].map = list[i].map
    OBVIOUS
  <2>3. j \in DOMAIN list /\ list[j].map = list[i].map
    BY <2>2
  <2>4. j = i
    BY <1>1, <2>3
  <2>5. mem[list[i].map] = [obj |-> list[j].obj, next |-> Neighbour(Root, j + 1),
                            prev |-> Neighbour(Root, j - 1)]
    BY <1>1, <2>1, <2>2
  <2>6. Neighbour(Root, i + 1) \in MapPtr /\ Neighbour(Root, i - 1) \in MapPtr
    BY <1>3, <1>4 DEF Neighbour, MapPtr
  <2>7. mem[list[i].map] \in LinkMap
    BY <2>1, <2>4, <2>5, <2>6 DEF LinkMap
  <2> QED
    BY <1>4, <2>1, <2>4, <2>5, <2>7, ReaderAssumption DEF Linked
<1>9. ListsOK
  <2>1. rdv[Root].map = Neighbour(Root, 1)
    BY <1>3, <1>4 DEF Neighbour
  <2> QED
    BY <1>4, <1>5, <1>8, <2>1 DEF ListsOK
<1>10. DistinctEntries
  <2>1. Live \subseteq Objs
    <3>1. \A i \in DOMAIN list : list[i].obj \in Objs
      BY <1>8
    <3> QED
      BY <1>4, <3>1 DEF Live, Range
  <2>2. \A d \in Rdvs : \A i \in DOMAIN lists[d] : d = Root /\ i \in DOMAIN list
    BY <1>4
  <2> QED
    BY <1>1, <1>2, <1>4, <2>1, <2>2 DEF DistinctEntries
<1>11. StatesOK
  BY <1>4 DEF StatesOK
<1>12. ChainOK
  <2>1. \A d : ~Pending(d)
    BY <1>2 DEF Pending
  <2> QED
    BY <1>4, <1>5, <2>1 DEF ChainOK, Closed
<1>13. mem \in [Maps -> LinkMap \cup {Unmapped}]
  <2>1. ASSUME NEW m \in Maps PROVE mem[m] \in LinkMap \cup {Unmapped}
    <3>1. CASE \E i \in DOMAIN list : list[i].map = m
      BY <1>8, <3>1
    <3>2. CASE ~\E i \in DOMAIN list : list[i].map = m
      BY <1>1, <3>2
    <3> QED
      BY <3>1, <3>2
  <2>2. mem = [m \in Maps |-> mem[m]]
    BY <1>1
  <2> QED
    BY <2>1, <2>2
<1>14. rdv \in [Rdvs -> Debug \cup {Unmapped}]
  <2>1. \A d \in Rdvs : rdv[d] \in Debug \cup {Unmapped}
    BY <1>4, <1>5
  <2>2. rdv = [d \in Rdvs |-> rdv[d]]
    BY <1>1
  <2> QED
    BY <2>1, <2>2
<1> QED
  BY <1>6, <1>7, <1>9, <1>10, <1>11, <1>12, <1>13, <1>14 DEF LoaderInv

LEMMA WatchKeeps ==
  ASSUME LoaderInv, ReaderTypeOK', UNCHANGED heapVars, Watch
  PROVE  LoaderInv'
<1>1. UNCHANGED <<mem, rdv, named, lists, job, jobs>>
  BY DEF Watch, heapVars, loaderVars
<1>2. LoaderTypes'
  <2>1. before'.debug \in Rdvs
    BY DEF ReaderTypeOK, NamespaceTypes, Rendezvous
  <2>2. stood' = {lists[before'.debug]} \/ stood' = stood
    BY DEF Watch
  <2>3. stood' \subseteq Seq(Entry)
    BY <2>1, <2>2 DEF LoaderInv, LoaderTypes
  <2> QED
    BY <1>1, <2>3 DEF LoaderInv, LoaderTypes, Watch
<1>3. InUse' = InUse /\ Live' = Live /\ DistinctEntries'
  BY <1>1, EntriesKept DEF LoaderInv, DistinctEntries
<1>4. JobOK'
  BY <1>1, <1>3 DEF LoaderInv, JobOK, JobFields, Opening, Closing, TailOf
<1>5. ListsOK'
  BY <1>1 DEF LoaderInv, ListsOK, Linked, Neighbour
<1>6. StatesOK'
  BY <1>1 DEF LoaderInv, StatesOK
<1>7. ChainOK'
  BY <1>1 DEF LoaderInv, ChainOK, Pending, Closed
<1> QED
  BY <1>2, <1>3, <1>4, <1>5, <1>6, <1>7 DEF LoaderInv

LEMMA ReaderStepIs == ReaderStep => (Going \/ Failing) /\ Watch
  BY DEF ReaderStep, Going, Failing

LEMMA ReaderReads ==
  ASSUME ReaderInv, Going \/ Failing
  PROVE  ReadOnly /\ UNCHANGED <<mem, rdv, named>>
<1>1. ASSUME Going PROVE ReadOnly
  BY <1>1 DEF Going, ReadInitial, ReadNamespace, EndOfNamespaces, ReadNode, ReadName,
              YieldNode, EndOfForward, RevalidateNode, EndOfReverse, AcceptNamespace
<1>2. ReadOnly
  BY <1>1, FailingReason
<1> QED
  BY <1>2 DEF ReadOnly, heapVars

LEMMA ReaderUntouched ==
  ASSUME Written \/ UNCHANGED <<heapVars, touched, readerVars, histVars>>
  PROVE  UNCHANGED <<readerVars, instant>>
  BY DEF Written, WriteMap, WriteRdv, WriteNames, histVars

-----------------------------------------------------------------------------
(* The lists of a capture.                                                   *)

(* The memory holds the list of a namespace.                                 *)
LEMMA HeldNow ==
  ASSUME LoaderInv, NEW d \in Rdvs, rdv[d] # Unmapped, NEW list, list = lists[d],
         instant' = [mem |-> mem, head |-> HeadOf(rdv[d])]
  PROVE  HeldAtInstant(list)'
<1>1. list \in Seq(Entry) /\ DOMAIN list = 1 .. Len(list) /\ Len(list) \in Nat
  BY DEF LoaderInv, LoaderTypes
<1>2. rdv[d].map = IF list = <<>> THEN Null ELSE list[1].map
  <2>1. list = <<>> => 1 \notin DOMAIN list
    OBVIOUS
  <2>2. list # <<>> => 1 \in DOMAIN list
    BY <1>1
  <2> QED
    BY <2>1, <2>2 DEF LoaderInv, ListsOK, Neighbour
<1>3. ASSUME NEW i \in DOMAIN list
      PROVE  /\ mem[list[i].map] # Unmapped /\ mem[list[i].map].obj = list[i].obj
             /\ mem[list[i].map].next = IF i = Len(list) THEN Null ELSE list[i + 1].map
  <2>1. Linked(d, i)
    BY EntryLinked
  <2>2. i + 1 \in DOMAIN list <=> i # Len(list)
    BY <1>1
  <2> QED
    BY <2>1, <2>2 DEF Linked, Neighbour
<1> QED
  BY <1>2, <1>3 DEF HeldAtInstant, HeadOf

LEMMA StoodByLoader ==
  ASSUME Stood, Disturb, RdvsStay, ReaderTypeOK, UNCHANGED <<readerVars, instant>>
  PROVE  Stood'
<1>1. UNCHANGED <<pc, before, instant>> /\ (Capturing' <=> Capturing)
  BY DEF readerVars, Capturing
<1>2. before.debug \in Rdvs
  BY DEF ReaderTypeOK, NamespaceTypes, Rendezvous
<1>3. pc \in {"reverse", "probe"} => Capturing
  BY DEF Capturing
<1>4. Capturing => lists'[before.debug] \in stood' /\ stood \subseteq stood'
  BY DEF Disturb
<1>5. \A list : HeldAtInstant(list)' <=> HeldAtInstant(list)
  BY <1>1 DEF HeldAtInstant
<1> QED
  BY <1>1, <1>2, <1>3, <1>4, <1>5 DEF Stood, RdvsStay

LEMMA StoodByReader ==
  ASSUME ReaderInv, LoaderInv, Stood, Going \/ Failing, Watch
  PROVE  Stood'
<1>1. UNCHANGED <<mem, rdv, named, lists>>
  BY ReaderReads DEF Watch, loaderVars
<1>2. CASE Failing \/ EndOfNamespaces \/ AcceptNamespace \/ pc' \in {"initial", "namespace", "done"}
  <2>1. pc' \in {"initial", "namespace", "done"}
    BY <1>2, FailingReason DEF Fail, EndOfNamespaces, AcceptNamespace, Return
  <2> QED
    BY <2>1 DEF Stood, Capturing
<1>3. CASE (ReadInitial \/ ReadNamespace) /\ pc' = "forward"
  <2>1. pc \in {"initial", "namespace"} /\ stood' = {lists[before'.debug]}
    BY <1>3 DEF ReadInitial, ReadNamespace, Watch
  <2>2. CASE ReadInitial
    <3>1. before' = RendezvousOf(Root, FALSE)
      BY <1>3, <2>2 DEF ReadInitial, BeginCapture
    <3>2. rdv[Root] # Unmapped
      BY <2>2 DEF ReadInitial, InitialFault
    <3> QED
      BY <1>1, <1>3, <2>1, <3>1, <3>2 DEF Stood, RendezvousOf
  <2>3. CASE ReadNamespace
    <3>1. before' = RendezvousOf(cursor, TRUE)
      BY <2>3 DEF ReadNamespace, BeginCapture
    <3>2. rdv[cursor] # Unmapped
      BY <2>3 DEF ReadNamespace, NamespaceFault
    <3> QED
      BY <1>1, <1>3, <2>1, <3>1, <3>2 DEF Stood, RendezvousOf
  <2> QED
    BY <1>3, <2>2, <2>3
<1>4. CASE ReadNode \/ ReadName \/ YieldNode
  <2>1. /\ pc \in {"forward", "name", "recheck"} /\ pc' \in {"forward", "name", "recheck"}
        /\ UNCHANGED before
    BY <1>4 DEF ReadNode, ReadName, YieldNode
  <2> QED
    BY <1>1, <2>1 DEF Stood, Watch, Capturing
<1>5. CASE EndOfForward
  <2>1. /\ pc = "forward" /\ pc' = "reverse" /\ UNCHANGED before
        /\ instant' = [mem |-> mem, head |-> HeadOf(rdv[before.debug])]
    BY <1>5 DEF EndOfForward
  <2>2. before.debug \in Rdvs
    BY DEF ReaderInv, ReaderTypeOK, NamespaceTypes, Rendezvous
  <2>3. rdv[before.debug] # Unmapped /\ lists[before.debug] \in stood /\ stood' = stood
    BY <2>1 DEF Stood, Watch, Capturing
  <2>4. PICK list : list = lists[before.debug]
    OBVIOUS
  <2>5. HeldAtInstant(list)'
    BY <2>1, <2>2, <2>3, <2>4, HeldNow
  <2> QED
    BY <1>1, <2>1, <2>3, <2>4, <2>5 DEF Stood
<1>6. CASE (RevalidateNode \/ EndOfReverse) /\ pc' \notin {"initial", "done"}
  <2>1. /\ pc = "reverse" /\ pc' \in {"reverse", "probe"} /\ UNCHANGED <<before, instant>>
    BY <1>6 DEF RevalidateNode, EndOfReverse, Fail, histVars
  <2>2. \A list : HeldAtInstant(list)' <=> HeldAtInstant(list)
    BY <2>1 DEF HeldAtInstant
  <2> QED
    BY <1>1, <2>1, <2>2 DEF Stood, Watch, Capturing
<1> QED
  BY <1>2, <1>3, <1>4, <1>5, <1>6 DEF Going, ReadInitial, ReadNamespace, BeginCapture

-----------------------------------------------------------------------------
(* A walk and the list it stands for.                                        *)

LEMMA NamesAre ==
  ASSUME NEW list \in Seq(Entry), NEW w \in Seq(WalkStep), Len(w) = Len(list),
         \A i \in DOMAIN w : w[i].map = list[i].map /\ w[i].node.obj = list[i].obj
  PROVE  Names(w) = list
<1>1. DOMAIN w = 1 .. Len(list) /\ DOMAIN list = 1 .. Len(list) /\ Len(list) \in Nat
  OBVIOUS
<1>2. \A i \in DOMAIN list : list[i] \in Entry
  BY <1>1
<1>3. \A i \in DOMAIN w : [map |-> w[i].map, obj |-> w[i].node.obj] = list[i]
  BY <1>1, <1>2 DEF Entry
<1>4. Names(w) = [i \in DOMAIN list |-> list[i]]
  BY <1>1, <1>3 DEF Names
<1>5. list = [i \in DOMAIN list |-> list[i]]
  BY <1>1
<1> QED
  BY <1>4, <1>5

(* A chain that stood in memory with its head is the list that stood there.  *)
LEMMA WalkIsList ==
  ASSUME NEW list \in Seq(Entry), NEW w \in Seq(WalkStep), NEW h,
         IsChain(w, h), CoexistedAt(w, h), HeldAtInstant(list)
  PROVE  Names(w) = list
<1>1. /\ DOMAIN w = 1 .. Len(w) /\ DOMAIN list = 1 .. Len(list)
      /\ Len(w) \in Nat /\ Len(list) \in Nat
  OBVIOUS
<1>2. \A i \in DOMAIN w : w[i].map \in Maps
  <2>1. \A i \in DOMAIN w : w[i] \in WalkStep
    BY <1>1
  <2> QED
    BY <2>1 DEF WalkStep
<1>3. \A i \in DOMAIN list : list[i].map \in Maps
  <2>1. \A i \in DOMAIN list : list[i] \in Entry
    BY <1>1
  <2> QED
    BY <2>1 DEF Entry
<1> DEFINE Same(i) == i \in DOMAIN list /\ list[i].map = w[i].map
<1>4. 1 \in DOMAIN w => Same(1)
  <2>1. At(w, 1) = IF list = <<>> THEN Null ELSE list[1].map
    BY DEF IsChain, CoexistedAt, HeldAtInstant
  <2>2. ASSUME 1 \in DOMAIN w PROVE list # <<>> /\ list[1].map = w[1].map
    BY <1>2, <2>1, <2>2, ReaderAssumption DEF At
  <2>3. list # <<>> => 1 \in DOMAIN list
    BY <1>1
  <2> QED
    BY <2>2, <2>3
<1>5. ASSUME NEW i \in DOMAIN w, Same(i)
      PROVE  At(w, i + 1) = IF i = Len(list) THEN Null ELSE list[i + 1].map
  <2>1. At(w, i + 1) = w[i].node.next /\ instant.mem[w[i].map] = w[i].node
    BY DEF IsChain, CoexistedAt
  <2>2. /\ instant.mem[list[i].map].next = IF i = Len(list) THEN Null ELSE list[i + 1].map
        /\ list[i].map = w[i].map
    BY <1>5 DEF HeldAtInstant
  <2> QED
    BY <2>1, <2>2
<1>6. ASSUME NEW i \in DOMAIN w, Same(i), i + 1 \in DOMAIN w PROVE Same(i + 1)
  <2>1. At(w, i + 1) = w[i + 1].map /\ w[i + 1].map # Null
    BY <1>2, <1>6, ReaderAssumption DEF At
  <2>2. i # Len(list) /\ list[i + 1].map = w[i + 1].map
    BY <1>5, <1>6, <2>1
  <2> QED
    BY <1>1, <1>6, <2>2
<1>7. \A i \in DOMAIN w : Same(i)
  <2> DEFINE T == {i \in DOMAIN w : ~Same(i)}
  <2> HIDE DEF Same
  <2>1. SUFFICES ASSUME T # {} PROVE FALSE
    OBVIOUS
  <2>2. T \subseteq Nat
    BY <1>1
  <2>3. PICK x \in T : \A y \in T : x <= y
    BY <2>1, <2>2, LeastNatural
  <2>4. x \in 1 .. Len(w) /\ ~Same(x) /\ x # 1
    BY <1>1, <1>4, <2>3
  <2>5. x - 1 \in DOMAIN w /\ x - 1 \notin T /\ (x - 1) + 1 = x
    BY <1>1, <2>3, <2>4
  <2>6. Same(x - 1)
    BY <2>5
  <2> QED
    BY <1>1, <1>6, <2>4, <2>5, <2>6
<1>8. Len(w) = Len(list)
  <2>1. CASE Len(w) = 0
    <3>1. At(w, 1) = Null /\ DOMAIN w = {}
      BY <1>1, <2>1 DEF At
    <3>2. list = <<>>
      <4>1. list # <<>> => 1 \in DOMAIN list
        BY <1>1
      <4> QED
        BY <1>3, <3>1, <4>1, ReaderAssumption DEF IsChain, CoexistedAt, HeldAtInstant
    <3> QED
      BY <2>1, <3>2
  <2>2. CASE Len(w) # 0
    <3>1. Len(w) \in DOMAIN w /\ Len(w) + 1 \notin DOMAIN w
      BY <1>1, <2>2
    <3>2. At(w, Len(w) + 1) = Null
      BY <3>1 DEF At
    <3>3. Same(Len(w))
      BY <1>7, <3>1
    <3>4. ASSUME Len(w) # Len(list) PROVE FALSE
      <4>1. Len(w) + 1 \in DOMAIN list
        <5>1. \A m, n \in Nat : m \in 1 .. n /\ m # n => m + 1 \in 1 .. n
          OBVIOUS
        <5> QED
          BY <1>1, <3>3, <3>4, <5>1
      <4> QED
        <5>1. At(w, Len(w) + 1) = list[Len(w) + 1].map
          BY <1>5, <3>1, <3>3, <3>4
        <5> QED
          BY <1>3, <3>2, <4>1, <5>1, ReaderAssumption
    <3> QED
      BY <3>4
  <2> QED
    BY <2>1, <2>2
<1>9. \A i \in DOMAIN w : w[i].node.obj = list[i].obj
  BY <1>7 DEF CoexistedAt, HeldAtInstant
<1> QED
  BY <1>7, <1>8, <1>9, NamesAre

(* A walk that nothing disturbed ends where its list ends.                   *)
LEMMA QuietWhole ==
  ASSUME ReaderInv, LoaderInv, QuietWalk, current = Null
  PROVE  Names(walk) = lists[before.debug]
<1>1. PICK d, list : d = before.debug /\ list = lists[d]
  OBVIOUS
<1>2. d \in Rdvs /\ list \in Seq(Entry) /\ walk \in Seq(WalkStep)
  BY <1>1 DEF ReaderInv, ReaderTypeOK, NamespaceTypes, WalkTypes, Rendezvous, LoaderInv,
              LoaderTypes
<1>3. /\ DOMAIN walk = 1 .. Len(walk) /\ DOMAIN list = 1 .. Len(list)
      /\ Len(walk) \in Nat /\ Len(list) \in Nat
  BY <1>2
<1>4. /\ Len(walk) <= Len(list) /\ Neighbour(d, Len(walk) + 1) = Null
      /\ \A i \in DOMAIN walk : walk[i] = [map |-> list[i].map, node |-> mem[list[i].map]]
  BY <1>1 DEF QuietWalk
<1>5. Len(walk) = Len(list)
  <2>1. SUFFICES ASSUME Len(walk) + 1 \in DOMAIN list PROVE FALSE
    <3>1. \A m, n \in Nat : m <= n /\ m # n => m + 1 \in 1 .. n
      OBVIOUS
    <3>2. Len(walk) # Len(list) => Len(walk) + 1 \in DOMAIN list
      BY <1>3, <1>4, <3>1
    <3> QED
      BY <3>2
  <2>2. Neighbour(d, Len(walk) + 1) \in Maps
    BY <1>1, <1>2, <2>1, EntryIs DEF Neighbour
  <2> QED
    BY <1>4, <2>2, ReaderAssumption
<1>6. ASSUME NEW i \in DOMAIN walk
      PROVE  walk[i].map = list[i].map /\ walk[i].node.obj = list[i].obj
  <2>1. i \in DOMAIN lists[d] /\ Linked(d, i)
    BY <1>1, <1>2, <1>3, <1>5, EntryLinked
  <2> QED
    BY <1>1, <1>4, <2>1 DEF Linked
<1> QED
  BY <1>1, <1>2, <1>5, <1>6, NamesAre

-----------------------------------------------------------------------------
(* An attempt that nothing disturbs.                                         *)

LEMMA QuietNamespacesStay ==
  ASSUME QuietNamespaces, Capturing, Capturing',
         UNCHANGED <<mem, rdv, lists, nsVars, before>>
  PROVE  QuietNamespaces'
  BY DEF QuietNamespaces, RendezvousOf, nsVars, Capturing, Names

LEMMA QuietBegins ==
  ASSUME LoaderInv, UNCHANGED <<mem, rdv, lists>>,
         NEW d \in Rdvs, rdv[d] # Unmapped, NEW e \in BOOLEAN,
         BeginCapture(RendezvousOf(d, e))
  PROVE  QuietWalk'
<1>1. /\ before' = RendezvousOf(d, e) /\ before'.debug = d /\ before'.extended = e
      /\ before'.map = rdv[d].map /\ current' = rdv[d].map /\ previous' = Null
      /\ seen' = {} /\ walk' = <<>> /\ pc' = "forward"
  BY DEF BeginCapture, RendezvousOf
<1>2. lists[d] \in Seq(Entry)
  BY DEF LoaderInv, LoaderTypes
<1>3. Neighbour(d, 1)' = rdv[d].map /\ Neighbour(d, 0)' = Null /\ Len(lists[d]) \in Nat
  BY <1>2 DEF LoaderInv, ListsOK, Neighbour
<1>4. Len(walk') = 0 /\ DOMAIN walk' = {} /\ 0 <= Len(lists[d])
  BY <1>1, <1>2
<1>5. before' = RendezvousOf(before.debug, before.extended)'
  BY <1>1 DEF RendezvousOf
<1> QED
  BY <1>1, <1>3, <1>4, <1>5 DEF QuietWalk

LEMMA QuietReadInitial ==
  ASSUME ReaderInv, LoaderInv, QuietNamespaces, ReadInitial, UNCHANGED <<mem, rdv, lists>>
  PROVE  (Capturing' => QuietWalk') /\ QuietNamespaces'
<1>1. /\ pc = "initial" /\ rdv[Root] # Unmapped /\ Root \in Rdvs
      /\ rdv[Root].version \in {1, 2} /\ namespaces = <<>>
  BY ReaderAssumption
     DEF ReadInitial, InitialFault, ReaderInv, Series, ReaderTypeOK, HeapTypes, Debug
<1>2. ~Capturing
  BY <1>1 DEF Capturing
<1>3. CASE rdv[Root].version < 2
  <2>1. BeginCapture(RendezvousOf(Root, FALSE)) /\ UNCHANGED nsVars
    BY <1>3 DEF ReadInitial
  <2>2. /\ before' = RendezvousOf(Root, FALSE) /\ ~before'.extended /\ pc' = "forward"
        /\ namespaces' = <<>> /\ nsSeen' = nsSeen
    BY <1>1, <2>1 DEF BeginCapture, RendezvousOf, nsVars
  <2>3. QuietWalk'
    BY <1>1, <2>1, QuietBegins
  <2>4. nsSeen = {}
    BY <1>1, <1>2 DEF QuietNamespaces
  <2>5. rdv[Root].version = 1 /\ DOMAIN namespaces' = {} /\ nsSeen' = {}
    BY <1>1, <1>3, <2>2, <2>4
  <2>6. QuietNamespaces'
    BY <2>2, <2>5 DEF QuietNamespaces, Capturing
  <2> QED
    BY <2>3, <2>6
<1>4. CASE ~(rdv[Root].version < 2)
  <2>1. pc' = "namespace" /\ nsSeen' = {} /\ namespaces' = <<>>
    BY <1>1, <1>4 DEF ReadInitial
  <2> QED
    BY <1>1, <1>4, <2>1 DEF QuietNamespaces, Capturing
<1> QED
  BY <1>3, <1>4

LEMMA QuietReadNamespace ==
  ASSUME ReaderInv, LoaderInv, QuietNamespaces, ReadNamespace, UNCHANGED <<mem, rdv, lists>>
  PROVE  QuietWalk' /\ QuietNamespaces'
<1>1. /\ pc = "namespace" /\ cursor \in Rdvs /\ rdv[cursor] # Unmapped
      /\ BeginCapture(RendezvousOf(cursor, TRUE)) /\ nsSeen' = nsSeen \cup {cursor}
      /\ UNCHANGED namespaces
  BY DEF ReadNamespace, NamespaceFault, ReaderInv, ReaderTypeOK, NamespaceTypes, RdvPtr
<1>2. before'.debug = cursor /\ before'.extended /\ pc' = "forward"
  BY <1>1 DEF BeginCapture, RendezvousOf
<1>3. QuietWalk'
  BY <1>1, QuietBegins
<1>4. QuietNamespaces'
  BY <1>1, <1>2 DEF QuietNamespaces, RendezvousOf, Capturing, Names
<1> QED
  BY <1>3, <1>4

LEMMA QuietReadNode ==
  ASSUME QuietWalk, QuietNamespaces, ReadNode \/ ReadName \/ EndOfForward \/ RevalidateNode
           \/ (EndOfReverse /\ pc' = "probe"),
         UNCHANGED <<mem, rdv, lists>>
  PROVE  QuietWalk' /\ QuietNamespaces'
<1>1. /\ UNCHANGED <<nsVars, before, current, previous, walk>>
      /\ Capturing /\ Capturing'
  BY DEF ReadNode, ReadName, EndOfForward, RevalidateNode, EndOfReverse, walkVars, Capturing,
         Fail
<1>2. QuietNamespaces'
  BY <1>1, QuietNamespacesStay
<1>3. \A i : Neighbour(before.debug, i)' = Neighbour(before.debug, i)
  BY <1>1 DEF Neighbour
<1>4. before' = RendezvousOf(before.debug, before.extended)'
  BY <1>1 DEF QuietWalk, RendezvousOf
<1>5. (pc' \in {"name", "recheck"} => current' # Null /\ node' = mem'[current'])
  BY <1>1 DEF QuietWalk, ReadNode, ReadName, EndOfForward, RevalidateNode, EndOfReverse,
              walkVars
<1>6. \A m \in seen' : \/ \E i \in DOMAIN walk : walk[i].map = m
                       \/ pc' \in {"name", "recheck"} /\ m = current
  <2>1. \A m \in seen : \/ \E i \in DOMAIN walk : walk[i].map = m
                        \/ pc \in {"name", "recheck"} /\ m = current
    BY DEF QuietWalk
  <2>2. \/ seen' = seen \cup {current} /\ pc' = "name" /\ pc = "forward"
        \/ seen' = seen /\ (pc \in {"name", "recheck"} => pc' \in {"name", "recheck"})
    <3>1. CASE ReadNode
      BY <3>1 DEF ReadNode
    <3>2. CASE ReadName \/ EndOfForward
      BY <3>2 DEF ReadName, EndOfForward, walkVars
    <3>3. CASE RevalidateNode \/ (EndOfReverse /\ pc' = "probe")
      BY <3>3 DEF RevalidateNode, EndOfReverse, walkVars, Fail
    <3> QED
      BY <3>1, <3>2, <3>3
  <2> QED
    BY <2>1, <2>2
<1>7. /\ Len(walk') <= Len(lists'[before'.debug])
      /\ current' = Neighbour(before.debug, Len(walk) + 1)'
      /\ previous' = Neighbour(before.debug, Len(walk))'
  BY <1>1, <1>3 DEF QuietWalk
<1> QED
  BY <1>1, <1>2, <1>4, <1>5, <1>6, <1>7 DEF QuietWalk

LEMMA QuietYield ==
  ASSUME ReaderInv, LoaderInv, job = Idle, QuietWalk, QuietNamespaces, YieldNode,
         UNCHANGED <<mem, rdv, lists>>
  PROVE  QuietWalk' /\ QuietNamespaces'
<1>1. /\ walk' = Append(walk, [map |-> current, node |-> mem[current]])
      /\ previous' = current /\ current' = mem[current].next
      /\ pc = "recheck" /\ pc' = "forward" /\ UNCHANGED <<nsVars, before, seen>>
  BY DEF YieldNode
<1>2. QuietNamespaces'
  BY <1>1, QuietNamespacesStay DEF Capturing
<1>3. PICK d, list, L : d = before.debug /\ list = lists[d] /\ L = Len(walk)
  OBVIOUS
<1>4. d \in Rdvs /\ list \in Seq(Entry) /\ walk \in Seq(WalkStep) /\ current \in MapPtr
  BY <1>3 DEF ReaderInv, ReaderTypeOK, NamespaceTypes, WalkTypes, Rendezvous, LoaderInv,
              LoaderTypes
<1>5. /\ DOMAIN walk = 1 .. L /\ DOMAIN list = 1 .. Len(list) /\ L \in Nat
      /\ Len(list) \in Nat
  BY <1>3, <1>4
<1>6. current = Neighbour(d, L + 1) /\ current # Null
  BY <1>1, <1>3 DEF QuietWalk
<1>7. L + 1 \in DOMAIN list /\ list[L + 1].map = current /\ L + 1 <= Len(list)
  BY <1>3, <1>5, <1>6 DEF Neighbour
<1>8. current \in Maps /\ mem[current] \in LinkMap
  <2>1. current \in Maps
    BY <1>4, <1>6 DEF MapPtr
  <2> QED
    BY <2>1, Yielded DEF ReaderInv
<1>9. /\ DOMAIN walk' = 1 .. L + 1 /\ Len(walk') = L + 1
      /\ walk'[L + 1] = [map |-> current, node |-> mem[current]]
      /\ \A i \in DOMAIN walk : walk'[i] = walk[i]
  <2>1. [map |-> current, node |-> mem[current]] \in WalkStep
    BY <1>8 DEF WalkStep
  <2>2. walk' \in Seq(WalkStep) /\ Len(walk') = L + 1
    BY <1>1, <1>3, <1>4, <2>1
  <2> QED
    BY <1>1, <1>3, <1>4, <1>5, <2>1, <2>2, AppendProperties
<1>10. mem[current].next = Neighbour(d, L + 2)
  <2>1. Linked(d, L + 1) /\ (L + 1) + 1 = L + 2
    BY <1>3, <1>4, <1>5, <1>7, EntryLinked
  <2> QED
    BY <1>3, <1>7, <2>1 DEF Linked
<1>11. \A i : Neighbour(d, i)' = Neighbour(d, i)
  BY DEF Neighbour
<1>12. (Len(walk) + 1)' = L + 2
  BY <1>5, <1>9
<1>13. \A i \in DOMAIN walk' :
         walk'[i] = [map |-> lists'[d][i].map, node |-> mem'[lists'[d][i].map]]
  <2>1. UNCHANGED <<mem, lists>>
    OBVIOUS
  <2>2. \A i \in DOMAIN walk : walk[i] = [map |-> list[i].map, node |-> mem[list[i].map]]
    BY <1>3 DEF QuietWalk
  <2>3. \A i \in DOMAIN walk' : i \in DOMAIN walk \/ i = L + 1
    BY <1>5, <1>9
  <2>4. ASSUME NEW i \in DOMAIN walk'
        PROVE  walk'[i] = [map |-> list[i].map, node |-> mem[list[i].map]]
    BY <1>7, <1>9, <2>2, <2>3
  <2> QED
    BY <1>3, <2>1, <2>4
<1>14. \A m \in seen' : \E i \in DOMAIN walk' : walk'[i].map = m
  <2>1. ASSUME NEW m \in seen PROVE \E i \in DOMAIN walk' : walk'[i].map = m
    <3>1. CASE m = current
      BY <1>5, <1>9, <3>1
    <3>2. CASE m # current
      <4>1. PICK i \in DOMAIN walk : walk[i].map = m
        BY <3>2 DEF QuietWalk
      <4> QED
        BY <1>5, <1>9, <4>1
    <3> QED
      BY <3>1, <3>2
  <2> QED
    BY <1>1, <2>1
<1>15. before' = RendezvousOf(before.debug, before.extended)'
  BY <1>1 DEF QuietWalk, RendezvousOf
<1>16. /\ Len(walk') <= Len(lists'[before'.debug])
       /\ current' = Neighbour(before.debug, Len(walk) + 1)'
       /\ previous' = Neighbour(before.debug, Len(walk))'
  BY <1>1, <1>3, <1>6, <1>7, <1>9, <1>10, <1>11, <1>12
<1> QED
  BY <1>1, <1>2, <1>3, <1>13, <1>14, <1>15, <1>16 DEF QuietWalk

LEMMA QuietAccept ==
  ASSUME ReaderInv, LoaderInv, QuietWalk, QuietNamespaces, AcceptNamespace,
         UNCHANGED <<mem, rdv, lists>>
  PROVE  /\ \A i \in DOMAIN namespaces' :
              Names(namespaces'[i].modules) = lists[namespaces'[i].rendezvous.debug]
         /\ before.extended => QuietNamespaces'
<1> DEFINE new == [rendezvous |-> before, modules |-> walk]
<1>1. /\ pc = "probe" /\ nsSeen' = nsSeen /\ Capturing
      /\ before.extended => pc' = "namespace"
      /\ namespaces \in Seq(Captured) /\ new \in Captured
      /\ namespaces' = Append(namespaces, new)
  BY AcceptTypes DEF AcceptNamespace, ReaderInv, ReaderTypeOK, NamespaceTypes, Capturing
<1>2. /\ DOMAIN namespaces' = DOMAIN namespaces \cup {Len(namespaces) + 1}
      /\ \A i \in DOMAIN namespaces : namespaces'[i] = namespaces[i]
      /\ namespaces'[Len(namespaces) + 1] = new
  <2> HIDE DEF new
  <2> QED
    BY <1>1, AppendProperties
<1>3. current = Null
  BY <1>1 DEF ReaderInv, Backwards
<1>4. Names(walk) = lists[before.debug]
  BY <1>3, QuietWhole
<1>5. before = RendezvousOf(before.debug, before.extended) /\ rdv[before.debug] # Unmapped
  BY DEF QuietWalk, AcceptNamespace, ProbeFault
<1>6. new.rendezvous = before /\ new.modules = walk
  OBVIOUS
<1> HIDE DEF new
<1>7. ASSUME NEW i \in DOMAIN namespaces'
      PROVE  Names(namespaces'[i].modules) = lists[namespaces'[i].rendezvous.debug]
  BY <1>2, <1>4, <1>6 DEF QuietNamespaces
<1>8. ASSUME before.extended PROVE QuietNamespaces'
  <2>1. \A i \in DOMAIN namespaces' :
          LET r == namespaces'[i].rendezvous IN
          /\ r = RendezvousOf(r.debug, r.extended) /\ rdv[r.debug] # Unmapped
          /\ r.extended
    BY <1>2, <1>5, <1>6, <1>8 DEF QuietNamespaces
  <2>2. ASSUME NEW d \in nsSeen
        PROVE  \E i \in DOMAIN namespaces' : namespaces'[i].rendezvous.debug = d
    BY <1>2, <1>6 DEF QuietNamespaces
  <2>3. rdv'[Root].version = 2 /\ pc' = "namespace" /\ ~Capturing'
    BY <1>1, <1>8 DEF QuietNamespaces, Capturing
  <2>4. \A l : Names(l)' = Names(l)
    BY DEF Names
  <2> QED
    BY <1>1, <1>7, <2>1, <2>2, <2>3, <2>4 DEF QuietNamespaces, RendezvousOf
<1> QED
  BY <1>7, <1>8

LEMMA FailQuiets ==
  ASSUME ReadOnly, NEW reason, Fail(reason), Watch
  PROVE  Quiet'
<1>1. /\ pc' \in {"initial", "done"} /\ namespaces' = <<>> /\ nsSeen' = {} /\ touched' = {}
      /\ pc' = "initial" => quiet' = (job = Idle) /\ job' = job
  BY DEF Fail, DropAttempt, ReadOnly, Watch, loaderVars
<1>2. ~Capturing' /\ DOMAIN namespaces' = {}
  BY <1>1 DEF Capturing
<1>3. QuietNamespaces'
  BY <1>1, <1>2 DEF QuietNamespaces
<1> QED
  BY <1>1, <1>2, <1>3 DEF Quiet

LEMMA QuietByReader ==
  ASSUME ReaderInv, LoaderInv, Quiet, Going \/ Failing, Watch
  PROVE  Quiet'
<1>1. ReadOnly /\ UNCHANGED <<mem, rdv, lists, job>> /\ touched' = {}
  BY ReaderReads DEF Watch, loaderVars, ReadOnly
<1>2. CASE Failing \/ (EndOfReverse /\ back.current # Null)
  BY <1>1, <1>2, FailingReason, FailQuiets DEF EndOfReverse
<1>3. CASE Going /\ ~(EndOfReverse /\ back.current # Null)
  <2> SUFFICES ASSUME quiet', pc' # "done"
               PROVE  (Capturing' => QuietWalk') /\ QuietNamespaces' /\ job' = Idle
    BY <1>1 DEF Quiet
  <2>1. pc # "done" /\ pc' # "initial"
    BY <1>3 DEF Going, ReadInitial, ReadNamespace, EndOfNamespaces, ReadNode, ReadName,
                YieldNode, EndOfForward, RevalidateNode, EndOfReverse, AcceptNamespace,
                BeginCapture, Return
  <2>2. quiet /\ job = Idle /\ (Capturing => QuietWalk) /\ QuietNamespaces
    BY <2>1 DEF Watch, Quiet
  <2>3. CASE ReadInitial
    BY <1>1, <2>2, <2>3, QuietReadInitial
  <2>4. CASE ReadNamespace
    BY <1>1, <2>2, <2>4, QuietReadNamespace
  <2>5. CASE EndOfNamespaces
    BY <2>5 DEF EndOfNamespaces, Return
  <2>6. CASE ReadNode \/ ReadName \/ EndOfForward \/ RevalidateNode \/ EndOfReverse
    <3>1. Capturing
      BY <2>6 DEF ReadNode, ReadName, EndOfForward, RevalidateNode, EndOfReverse, Capturing
    <3>2. EndOfReverse => pc' = "probe"
      BY <1>3 DEF EndOfReverse
    <3> QED
      BY <1>1, <2>2, <2>6, <3>1, <3>2, QuietReadNode
  <2>7. CASE YieldNode
    BY <1>1, <2>2, <2>7, QuietYield DEF YieldNode, Capturing
  <2>8. CASE AcceptNamespace
    <3>1. before.extended /\ pc' = "namespace" /\ Capturing
      BY <2>8 DEF AcceptNamespace, Return, Capturing
    <3> QED
      BY <1>1, <2>2, <2>8, <3>1, QuietAccept DEF Capturing
  <2> QED
    BY <1>3, <2>3, <2>4, <2>5, <2>6, <2>7, <2>8 DEF Going
<1> QED
  BY <1>2, <1>3

-----------------------------------------------------------------------------
(* The invariant of reader and loader together.                              *)

LEMMA SystemStarts == Init => SystemInv
<1> SUFFICES ASSUME Init PROVE SystemInv
  OBVIOUS
<1>1. LoaderInv /\ ReaderInit /\ job = Idle /\ named = Objs
  BY LoaderStarts DEF Init
<1>2. ReaderInv
  BY <1>1, LoaderStarts, ReaderStarts
<1>3. pc = "initial" /\ touched = {} /\ namespaces = <<>> /\ nsSeen = {}
  BY <1>1 DEF ReaderInit
<1>4. Stood /\ Quiet
  BY <1>1, <1>3 DEF Stood, Quiet, QuietNamespaces, Capturing
<1> QED
  BY <1>1, <1>2, <1>4 DEF SystemInv

LEMMA SystemByLoader ==
  ASSUME SystemInv, LoaderStep PROVE SystemInv'
<1>1. ReaderInv /\ LoaderInv /\ Stood /\ ReaderTypeOK
  BY DEF SystemInv, ReaderInv
<1>2. /\ LoaderInv' /\ RdvsStay /\ Disturb
      /\ Written \/ UNCHANGED <<heapVars, touched, readerVars, histVars>>
  BY <1>1, LoaderKeeps
<1>3. ReaderInv'
  BY <1>1, <1>2, WriteKeeps, ReaderStutters
<1>4. Stood'
  BY <1>1, <1>2, StoodByLoader, ReaderUntouched
<1>5. Quiet'
  BY <1>2 DEF Disturb, Quiet
<1> QED
  BY <1>2, <1>3, <1>4, <1>5 DEF SystemInv

LEMMA SystemByReader ==
  ASSUME SystemInv, ReaderStep PROVE SystemInv'
<1>1. ReaderInv /\ LoaderInv /\ Stood /\ Quiet /\ (Going \/ Failing) /\ Watch
  BY ReaderStepIs DEF SystemInv
<1>2. ReaderInv' /\ UNCHANGED heapVars
  BY <1>1, ReadKeeps, ReaderReads DEF heapVars
<1>3. LoaderInv'
  BY <1>1, <1>2, WatchKeeps DEF ReaderInv
<1>4. Stood' /\ Quiet'
  BY <1>1, StoodByReader, QuietByReader
<1> QED
  BY <1>2, <1>3, <1>4 DEF SystemInv

LEMMA SystemStutters ==
  ASSUME SystemInv, UNCHANGED vars PROVE SystemInv'
<1>1. /\ UNCHANGED <<heapVars, touched, readerVars, histVars>>
      /\ UNCHANGED <<lists, job, jobs, quiet, stood, stoodAll>>
      /\ UNCHANGED <<mem, rdv, named, touched, pc, namespaces, nsSeen, before, walk, current,
                     previous, seen, node, instant>>
  BY DEF vars, loaderVars, ghostVars, heapVars, readerVars, nsVars, walkVars, histVars
<1>2. ReaderInv'
  BY <1>1, ReaderStutters DEF SystemInv
<1>3. LoaderInv'
  <2> USE <1>1 DEF SystemInv, LoaderInv
  <2>1. LoaderTypes' /\ StatesOK'
    BY DEF LoaderTypes, StatesOK
  <2>2. JobOK'
    BY DEF JobOK, JobFields, Opening, Closing, TailOf, InUse, Live
  <2>3. ListsOK' /\ DistinctEntries'
    BY DEF ListsOK, Linked, Neighbour, DistinctEntries, Live
  <2>4. ChainOK'
    BY DEF ChainOK, Pending, Closed
  <2> QED
    BY <2>1, <2>2, <2>3, <2>4
<1>4. Stood'
  BY <1>1 DEF SystemInv, Stood, Capturing, HeldAtInstant
<1>5. Quiet'
  BY <1>1 DEF SystemInv, Quiet, QuietWalk, QuietNamespaces, Capturing, RendezvousOf, Neighbour,
              Names
<1> QED
  BY <1>2, <1>3, <1>4, <1>5 DEF SystemInv

LEMMA SystemAlways == Spec => []SystemInv
<1>1. SystemInv /\ [Next]_vars => SystemInv'
  BY SystemByLoader, SystemByReader, SystemStutters DEF Next
<1> QED
  BY SystemStarts, <1>1, PTL DEF Spec

-----------------------------------------------------------------------------
(* An attempt that the loader leaves alone does not fail.                    *)

(* The retained rendezvous are the ones in memory, in the order of the chain. *)
LEMMA QuietSeries ==
  ASSUME ReaderInv, LoaderInv, QuietNamespaces, NEW i \in DOMAIN namespaces
  PROVE  /\ DOMAIN namespaces = 1 .. Len(namespaces) /\ Len(namespaces) \in Nat
         /\ namespaces[i].rendezvous.debug \in Rdvs
         /\ rdv[namespaces[i].rendezvous.debug] # Unmapped
         /\ rdv[namespaces[i].rendezvous.debug].next = namespaces[i].rendezvous.next
         /\ i = 1 => namespaces[i].rendezvous.debug = Root
         /\ i # 1 => /\ i - 1 \in DOMAIN namespaces
                     /\ namespaces[i].rendezvous.debug = namespaces[i - 1].rendezvous.next
<1>1. namespaces \in Seq(Captured)
  BY DEF ReaderInv, ReaderTypeOK, NamespaceTypes
<1>2. DOMAIN namespaces = 1 .. Len(namespaces) /\ Len(namespaces) \in Nat
  BY <1>1
<1>3. namespaces[i].rendezvous.debug \in Rdvs
  <2>1. namespaces[i] \in Captured
    BY <1>1
  <2> QED
    BY <2>1 DEF Captured, Rendezvous
<1>4. /\ namespaces[i].rendezvous =
           RendezvousOf(namespaces[i].rendezvous.debug, namespaces[i].rendezvous.extended)
      /\ rdv[namespaces[i].rendezvous.debug] # Unmapped
      /\ namespaces[i].rendezvous.extended
  BY DEF QuietNamespaces
<1>5. rdv[namespaces[i].rendezvous.debug].next = namespaces[i].rendezvous.next
  <2>1. \A d, e : RendezvousOf(d, e).next = IF e THEN rdv[d].next ELSE Null
    BY DEF RendezvousOf
  <2> QED
    BY <1>4, <2>1
<1>6. /\ i = 1 => namespaces[i].rendezvous.debug = Root
      /\ i > 1 => namespaces[i].rendezvous.debug = namespaces[i - 1].rendezvous.next
  BY DEF ReaderInv, RetainedNamespaces
<1>7. i # 1 => i - 1 \in DOMAIN namespaces /\ i > 1
  BY <1>2
<1> QED
  BY <1>2, <1>3, <1>4, <1>5, <1>6, <1>7

(* The chain goes on to a rendezvous it has not visited.                     *)
LEMMA QuietCursor ==
  ASSUME ReaderInv, LoaderInv, job = Idle, QuietNamespaces, pc = "namespace", cursor # Null
  PROVE  /\ cursor \in Rdvs /\ rdv[cursor] # Unmapped /\ cursor \notin nsSeen
         /\ rdv[cursor].state = "consistent" /\ rdv[cursor].version = 2
<1> PICK N : N = Len(namespaces)
  OBVIOUS
<1>1. cursor = (IF namespaces = <<>> THEN Root ELSE namespaces[N].rendezvous.next)
  BY DEF ReaderInv, Series, NextRdv
<1>2. \A d \in nsSeen : \E i \in DOMAIN namespaces : namespaces[i].rendezvous.debug = d
  BY DEF QuietNamespaces, Capturing
<1>3. rdv[Root].version = 2 /\ Root \in Rdvs /\ rdv[Root] # Unmapped
  BY RootExists DEF QuietNamespaces
<1>4. cursor \in Rdvs /\ rdv[cursor] # Unmapped /\ cursor \notin nsSeen
  <2>1. CASE namespaces = <<>>
    BY <1>1, <1>2, <1>3, <2>1
  <2>2. CASE namespaces # <<>>
    <3>1. namespaces \in Seq(Captured)
      BY DEF ReaderInv, ReaderTypeOK, NamespaceTypes
    <3>2. N \in DOMAIN namespaces /\ DOMAIN namespaces = 1 .. N /\ N \in Nat
      BY <2>2, <3>1
    <3> PICK l : l = namespaces[N].rendezvous.debug
      OBVIOUS
    <3>3. l \in Rdvs /\ rdv[l] # Unmapped /\ rdv[l].next = cursor
      BY <1>1, <2>2, <3>2, QuietSeries
    <3>4. /\ cursor # Root /\ rdv[cursor] # Unmapped
          /\ \A e \in Rdvs : rdv[e] # Unmapped /\ rdv[e].next = cursor => e = l
      BY <3>3 DEF LoaderInv, ChainOK
    <3>5. cursor \in Rdvs
      BY DEF ReaderInv, ReaderTypeOK, NamespaceTypes, RdvPtr
    <3>6. ASSUME NEW i \in DOMAIN namespaces, namespaces[i].rendezvous.debug = cursor
          PROVE  FALSE
      <4>1. /\ i - 1 \in DOMAIN namespaces
            /\ cursor = namespaces[i - 1].rendezvous.next
        BY <3>4, <3>6, QuietSeries
      <4>2. namespaces[i - 1].rendezvous.debug = l
        BY <3>4, <4>1, QuietSeries
      <4>3. i - 1 = N
        BY <3>2, <4>1, <4>2 DEF ReaderInv, RetainedNamespaces
      <4> QED
        BY <3>2, <4>3
    <3> QED
      BY <1>2, <3>4, <3>5, <3>6
  <2> QED
    BY <2>1, <2>2
<1>5. rdv[cursor].state = "consistent" /\ (cursor # Root => rdv[cursor].version = 2)
  BY <1>4 DEF LoaderInv, StatesOK, Idle
<1> QED
  BY <1>3, <1>4, <1>5

(* When the chain has ended, every rendezvous has been captured.             *)
LEMMA QuietComplete ==
  ASSUME ReaderInv, LoaderInv, job = Idle, QuietNamespaces, pc = "namespace", cursor = Null,
         NEW d \in Rdvs, rdv[d] # Unmapped
  PROVE  \E i \in DOMAIN namespaces : namespaces[i].rendezvous.debug = d
<1> DEFINE S == {namespaces[i].rendezvous.debug : i \in DOMAIN namespaces}
<1>1. namespaces \in Seq(Captured)
  BY DEF ReaderInv, ReaderTypeOK, NamespaceTypes
<1>2. namespaces # <<>> /\ namespaces[Len(namespaces)].rendezvous.next = Null
  BY ReaderAssumption DEF ReaderInv, Series, NextRdv
<1>3. DOMAIN namespaces = 1 .. Len(namespaces) /\ 1 \in DOMAIN namespaces
        /\ Len(namespaces) \in Nat
  BY <1>1, <1>2
<1>4. Root \in S /\ S \in SUBSET Rdvs
  BY <1>3, QuietSeries
<1>5. ASSUME NEW i \in DOMAIN namespaces
      PROVE  rdv[namespaces[i].rendezvous.debug].next \in S \cup {Null}
  <2>1. CASE i = Len(namespaces)
    BY <1>2, <2>1, QuietSeries
  <2>2. CASE i # Len(namespaces)
    <3>1. i + 1 \in DOMAIN namespaces /\ i + 1 # 1 /\ (i + 1) - 1 = i
      BY <1>3, <2>2
    <3>2. namespaces[i + 1].rendezvous.debug = namespaces[i].rendezvous.next
      BY <3>1, QuietSeries
    <3>3. rdv[namespaces[i].rendezvous.debug].next = namespaces[i].rendezvous.next
      BY QuietSeries
    <3> QED
      BY <3>1, <3>2, <3>3
  <2> QED
    BY <2>1, <2>2
<1>6. Closed(S)
  BY <1>4, <1>5 DEF Closed
<1>7. ~Pending(d)
  BY DEF Pending, Idle
<1>8. d \in S
  <2> HIDE DEF S
  <2> QED
    BY <1>4, <1>6, <1>7 DEF LoaderInv, ChainOK
<1> QED
  BY <1>8

(* The node a quiet walk reads next.                                         *)
LEMMA QuietNode ==
  ASSUME ReaderInv, LoaderInv, job = Idle, QuietWalk, current # Null
  PROVE  /\ mem[current] # Unmapped /\ mem[current].prev = previous
         /\ mem[current].obj \in Live
         /\ \A i \in DOMAIN walk : walk[i].map # current
<1>1. PICK d, list, L : d = before.debug /\ list = lists[d] /\ L = Len(walk)
  OBVIOUS
<1>2. d \in Rdvs /\ list \in Seq(Entry) /\ walk \in Seq(WalkStep)
  BY <1>1 DEF ReaderInv, ReaderTypeOK, NamespaceTypes, WalkTypes, Rendezvous, LoaderInv,
              LoaderTypes
<1>3. DOMAIN walk = 1 .. L /\ L \in Nat /\ DOMAIN list = 1 .. Len(list) /\ L <= Len(list)
        /\ Len(list) \in Nat
  BY <1>1, <1>2 DEF QuietWalk
<1>4. current = Neighbour(d, L + 1) /\ previous = Neighbour(d, L)
  BY <1>1 DEF QuietWalk
<1>5. L + 1 \in DOMAIN list /\ list[L + 1].map = current
  BY <1>1, <1>4 DEF Neighbour
<1>6. Linked(d, L + 1) /\ list[L + 1].obj \in Live /\ (L + 1) - 1 = L
  <2>1. L + 1 \in DOMAIN lists[d] /\ d \in Rdvs
    BY <1>1, <1>2, <1>5
  <2>2. Linked(d, L + 1) /\ lists[d][L + 1].obj \in Live
    BY <1>1, <2>1, EntryLinked, EntryIs
  <2>3. (L + 1) - 1 = L
    BY <1>3
  <2> QED
    BY <1>1, <2>2, <2>3
<1>7. job.call # "unlinkback"
  BY DEF Idle
<1>8. ASSUME NEW i \in DOMAIN walk PROVE walk[i].map # current
  <2>1. walk[i].map = list[i].map
    BY <1>1 DEF QuietWalk
  <2>2. i \in DOMAIN list /\ i # L + 1
    BY <1>3
  <2>3. list[i].map # list[L + 1].map
    BY <1>1, <1>2, <1>5, <2>2, EntriesDiffer
  <2> QED
    BY <1>5, <2>1, <2>3
<1> QED
  BY <1>1, <1>4, <1>5, <1>6, <1>7, <1>8 DEF Linked

LEMMA QuietCannotFail ==
  ASSUME SystemInv, quiet, pc # "done", Live \subseteq Snapshotted
  PROVE  ~Failing
<1>1. /\ ReaderInv /\ LoaderInv /\ Stood /\ job = Idle /\ touched = {}
      /\ Capturing => QuietWalk
      /\ QuietNamespaces
  BY DEF SystemInv, Quiet
<1>2. \A d \in Rdvs : rdv[d] # Unmapped => rdv[d].state = "consistent"
  BY <1>1 DEF LoaderInv, StatesOK, Idle
<1>3. ~ReadInitialFails
  BY <1>1, <1>2, RootExists DEF ReadInitialFails, InitialFault, IsConsistent
<1>4. ~ReadNamespaceFails
  BY <1>1, QuietCursor DEF ReadNamespaceFails, NamespaceFault, IsConsistent, Visited
<1>5. ~ReadNodeFails
  <2> SUFFICES ASSUME ReadNodeFails PROVE FALSE
    OBVIOUS
  <2>1. pc = "forward" /\ current # Null /\ ForwardFault # "none" /\ QuietWalk
    BY <1>1 DEF ReadNodeFails, Capturing
  <2>2. mem[current] # Unmapped /\ mem[current].prev = previous
          /\ \A i \in DOMAIN walk : walk[i].map # current
    BY <1>1, <2>1, QuietNode
  <2>3. current \notin seen
    BY <2>1, <2>2 DEF QuietWalk
  <2> QED
    BY <2>1, <2>2, <2>3 DEF ForwardFault, Visited, HasReverseEdge
<1>6. ~ReadNameFails
  <2> SUFFICES ASSUME ReadNameFails PROVE FALSE
    OBVIOUS
  <2>1. pc = "name" /\ ~NameReadable(node.obj) /\ QuietWalk
    BY <1>1 DEF ReadNameFails, Capturing
  <2>2. current # Null /\ node = mem[current]
    BY <2>1 DEF QuietWalk
  <2>3. node.obj \in Live
    BY <1>1, <2>1, <2>2, QuietNode
  <2> QED
    BY <1>1, <2>1, <2>3 DEF NameReadable, LoaderInv, DistinctEntries
<1>7. ~YieldNodeFails
  <2> SUFFICES ASSUME YieldNodeFails PROVE FALSE
    OBVIOUS
  <2>1. pc = "recheck" /\ RecheckFault # "none" /\ QuietWalk
    BY <1>1 DEF YieldNodeFails, Capturing
  <2>2. current # Null /\ node = mem[current]
    BY <2>1 DEF QuietWalk
  <2>3. mem[current] # Unmapped
    BY <1>1, <2>1, <2>2, QuietNode
  <2> QED
    BY <2>1, <2>2, <2>3 DEF RecheckFault, SameNode
<1>8. ~RevalidateNodeFails
  <2> SUFFICES ASSUME RevalidateNodeFails PROVE FALSE
    OBVIOUS
  <2>1. pc = "reverse" /\ back.left > 0 /\ ReverseFault # "none" /\ QuietWalk
    BY <1>1 DEF RevalidateNodeFails, Capturing
  <2>2. ReverseFault \notin EdgeReasons
    BY <1>1, <2>1, ReverseAgrees
  <2>3. PICK d, i, m : d = before.debug /\ i = back.left /\ m = walk[i].map
    OBVIOUS
  <2>4. d \in Rdvs /\ i \in DOMAIN walk /\ DOMAIN walk = 1 .. Len(walk)
          /\ Len(walk) \in Nat /\ DOMAIN lists[d] = 1 .. Len(lists[d])
    BY <1>1, <2>1, <2>3 DEF ReaderInv, ReaderTypeOK, NamespaceTypes, WalkTypes, Rendezvous,
                            LoaderInv, LoaderTypes
  <2>5. m = lists[d][i].map /\ walk[i].node = mem[m] /\ i \in DOMAIN lists[d]
    <3>1. walk[i] = [map |-> lists[d][i].map, node |-> mem[lists[d][i].map]]
      BY <2>1, <2>3, <2>4 DEF QuietWalk
    <3>2. Len(walk) <= Len(lists[d]) /\ Len(lists[d]) \in Nat
      BY <1>1, <2>1, <2>3, <2>4 DEF QuietWalk, LoaderInv, LoaderTypes
    <3> QED
      BY <2>3, <2>4, <3>1, <3>2
  <2>6. mem[m] # Unmapped
    BY <1>1, <2>4, <2>5, EntryLinked DEF Linked
  <2>7. back.current = m
    BY <1>1, <2>1, <2>3, <2>4 DEF ReaderInv, Backwards, At
  <2> QED
    BY <2>1, <2>2, <2>3, <2>5, <2>6, <2>7 DEF ReverseFault, SameNode, EdgeReasons
<1>9. ~ProbeFails
  <2> SUFFICES ASSUME ProbeFails PROVE FALSE
    OBVIOUS
  <2>1. pc = "probe" /\ ProbeFault # "none" /\ Capturing
    BY DEF ProbeFails, Capturing
  <2>2. before.debug \in Rdvs /\ rdv[before.debug] # Unmapped /\ before = After
    BY <1>1, <2>1 DEF Stood, QuietWalk, After, ReaderInv, ReaderTypeOK, NamespaceTypes,
                      Rendezvous
  <2> QED
    BY <1>2, <2>1, <2>2 DEF ProbeFault, IsConsistent, SameRendezvous
<1>10. ~LiftUnstable
  BY <1>1 DEF LiftUnstable
<1> QED
  BY <1>3, <1>4, <1>5, <1>6, <1>7, <1>8, <1>9, <1>10 DEF Failing

(* What an undisturbed attempt leaves and returns.                           *)
QuietSuccess ==
  quiet /\ pc # "done" /\ Live \subseteq Snapshotted =>
    /\ attempt' = attempt
    /\ result'.outcome \in {"pending", "ok"}
    /\ result'.outcome = "ok" =>
         /\ \A i \in DOMAIN namespaces' :
              Names(namespaces'[i].modules) = lists[namespaces'[i].rendezvous.debug]
         /\ \A d \in Rdvs : rdv[Root].version = 2 /\ Exists(d) =>
              \E i \in DOMAIN namespaces' : namespaces'[i].rendezvous.debug = d

LEMMA QuietStep == ASSUME SystemInv, Next PROVE QuietSuccess
<1> SUFFICES ASSUME quiet, pc # "done", Live \subseteq Snapshotted
             PROVE  /\ attempt' = attempt
                    /\ \/ result'.outcome = "pending"
                       \/ /\ result'.outcome = "ok"
                          /\ \A i \in DOMAIN namespaces' :
                               Names(namespaces'[i].modules)
                                 = lists[namespaces'[i].rendezvous.debug]
                          /\ \A d \in Rdvs : rdv[Root].version = 2 /\ Exists(d) =>
                               \E i \in DOMAIN namespaces' :
                                 namespaces'[i].rendezvous.debug = d
  BY DEF QuietSuccess
<1>1. /\ ReaderInv /\ LoaderInv /\ Stood /\ job = Idle /\ ReaderTypeOK
      /\ Capturing => QuietWalk
      /\ QuietNamespaces
      /\ result.outcome = "pending"
  BY DEF SystemInv, Quiet, ReaderInv, Over
<1>2. CASE LoaderStep
  <2>1. UNCHANGED readerVars
    BY <1>1, <1>2, LoaderKeeps, ReaderUntouched
  <2> QED
    BY <1>1, <2>1 DEF readerVars
<1>3. CASE ReaderStep
  <2>1. Going /\ Watch
    BY <1>3, ReaderStepIs, QuietCannotFail
  <2>2. UNCHANGED <<mem, rdv, named, lists>>
    BY <1>1, <2>1, ReaderReads DEF Watch, loaderVars
  <2>3. CASE UNCHANGED <<attempt, result>>
    BY <1>1, <2>3
  <2>4. CASE EndOfNamespaces
    <3>1. /\ pc = "namespace" /\ cursor = Null /\ namespaces' = namespaces
          /\ attempt' = attempt /\ result'.outcome = "ok"
      BY <2>4 DEF EndOfNamespaces, Return, nsVars
    <3>2. \A d \in Rdvs : Exists(d) =>
            \E i \in DOMAIN namespaces : namespaces[i].rendezvous.debug = d
      BY <1>1, <3>1, QuietComplete DEF Exists
    <3> QED
      BY <1>1, <3>1, <3>2 DEF QuietNamespaces
  <2>5. CASE AcceptNamespace
    <3>1. Capturing /\ attempt' = attempt
      BY <2>5 DEF AcceptNamespace, Return, Capturing
    <3>2. \A i \in DOMAIN namespaces' :
            Names(namespaces'[i].modules) = lists[namespaces'[i].rendezvous.debug]
      BY <1>1, <2>2, <2>5, <3>1, QuietAccept
    <3>3. before.extended => result' = result
      BY <2>5 DEF AcceptNamespace
    <3>4. ~before.extended => result'.outcome = "ok" /\ rdv[Root].version = 1
      BY <1>1, <2>5, <3>1 DEF AcceptNamespace, Return, QuietNamespaces
    <3> QED
      BY <1>1, <3>1, <3>2, <3>3, <3>4
  <2>6. CASE EndOfReverse
    <3>1. back.current = Null
      BY <1>1, <2>6, ReverseAgrees DEF EndOfReverse
    <3> QED
      BY <1>1, <2>6, <3>1 DEF EndOfReverse
  <2> QED
    BY <2>1, <2>3, <2>4, <2>5, <2>6
       DEF Going, ReadInitial, ReadNamespace, ReadNode, ReadName, YieldNode, EndOfForward,
           RevalidateNode, BeginCapture
<1> QED
  BY <1>2, <1>3 DEF Next

(* An attempt that the loader leaves alone never fails on names the mapping  *)
(* snapshot covers, and it returns exactly the loader's lists, one for each  *)
(* rendezvous of an extended chain (reader.rs: Capture::read, Namespaces).   *)
THEOREM QuietAttemptsSucceed == Spec => QuietAttemptSucceeds
<1>1. SystemInv /\ [Next]_vars => [QuietSuccess]_vars
  BY QuietStep
<1>2. Spec => [][QuietSuccess]_vars
  BY <1>1, SystemAlways, PTL DEF Spec
<1> QED
  BY <1>2 DEF QuietAttemptSucceeds, QuietSuccess

-----------------------------------------------------------------------------
(* The refinement.                                                           *)

(* The captures of a series of namespaces, as the promise sees them.         *)
Taken(n) == [ns |-> n.rendezvous.debug, list |-> Names(n.modules)]
Captures(s) == [i \in DOMAIN s |-> Taken(s[i])]
Capture == [ns : Rdvs, list : Seq(Entry)]

LEMMA NamesTypes == ASSUME NEW w \in Seq(WalkStep) PROVE Names(w) \in Seq(Entry)
<1>1. DOMAIN w = 1 .. Len(w) /\ Len(w) \in Nat
  OBVIOUS
<1>2. ASSUME NEW i \in DOMAIN w PROVE [map |-> w[i].map, obj |-> w[i].node.obj] \in Entry
  <2>1. w[i] \in WalkStep
    BY <1>1
  <2> QED
    BY <2>1 DEF WalkStep, LinkMap, Entry
<1>3. Names(w) \in [1 .. Len(w) -> Entry]
  BY <1>1, <1>2 DEF Names
<1> QED
  BY <1>1, <1>3

LEMMA CapturesTypes ==
  ASSUME NEW s \in Seq(Captured)
  PROVE  /\ Captures(s) \in Seq(Capture) /\ Len(Captures(s)) = Len(s)
         /\ \A i \in 1 .. Len(s) : Captures(s)[i] = Taken(s[i]) /\ Taken(s[i]) \in Capture
<1>1. DOMAIN s = 1 .. Len(s) /\ Len(s) \in Nat
  OBVIOUS
<1>2. ASSUME NEW i \in DOMAIN s PROVE Taken(s[i]) \in Capture
  <2>1. s[i] \in Captured
    BY <1>1
  <2>2. Names(s[i].modules) \in Seq(Entry)
    BY <2>1, NamesTypes DEF Captured
  <2> QED
    BY <2>1, <2>2 DEF Captured, Capture, Taken, Rendezvous
<1>3. Captures(s) \in [1 .. Len(s) -> Capture]
  BY <1>1, <1>2 DEF Captures
<1> QED
  BY <1>1, <1>2, <1>3 DEF Captures

LEMMA CapturesAppend ==
  ASSUME NEW s \in Seq(Captured), NEW n \in Captured
  PROVE  Captures(Append(s, n)) = Append(Captures(s), Taken(n))
<1> DEFINE t == Append(s, n)
           a == Captures(t)
           b == Append(Captures(s), Taken(n))
<1>1. /\ t \in Seq(Captured) /\ Len(t) = Len(s) + 1 /\ Len(s) \in Nat
      /\ \A i \in 1 .. Len(s) : t[i] = s[i]
      /\ t[Len(s) + 1] = n
  BY AppendProperties
<1> HIDE DEF t
<1>2. /\ a \in Seq(Capture) /\ Len(a) = Len(s) + 1
      /\ \A i \in 1 .. Len(s) + 1 : a[i] = Taken(t[i]) /\ Taken(t[i]) \in Capture
  BY <1>1, CapturesTypes
<1>3. Taken(n) \in Capture
  BY <1>1, <1>2
<1>4. /\ Captures(s) \in Seq(Capture) /\ Len(Captures(s)) = Len(s)
      /\ \A i \in 1 .. Len(s) : Captures(s)[i] = Taken(s[i])
  BY CapturesTypes
<1>5. /\ b \in Seq(Capture) /\ Len(b) = Len(s) + 1
      /\ \A i \in 1 .. Len(s) : b[i] = Captures(s)[i]
      /\ b[Len(s) + 1] = Taken(n)
  <2> HIDE DEF Captures, Taken
  <2> QED
    BY <1>3, <1>4, AppendProperties
<1> HIDE DEF a, b
<1>6. ASSUME NEW i \in 1 .. Len(s) + 1 PROVE a[i] = b[i]
  <2>1. CASE i = Len(s) + 1
    BY <1>1, <1>2, <1>5, <2>1
  <2>2. CASE i # Len(s) + 1
    <3>1. i \in 1 .. Len(s)
      BY <1>1, <2>2
    <3> QED
      BY <1>1, <1>2, <1>4, <1>5, <3>1
  <2> QED
    BY <2>1, <2>2
<1>7. a = b
  BY <1>2, <1>5, <1>6, SeqEqual
<1> QED
  BY <1>7 DEF a, b, t

LEMMA CapturesEmpty == Captures(<<>>) = <<>>
<1>1. <<>> \in Seq(Captured) /\ Len(<<>>) = 0
  OBVIOUS
<1>2. Captures(<<>>) \in Seq(Capture) /\ Len(Captures(<<>>)) = 0
  BY <1>1, CapturesTypes
<1> QED
  BY <1>2

(* The refinement mapping's sequence is the captures.                        *)
LEMMA PromiseStarts == Init => Promise!Init
<1> SUFFICES ASSUME Init PROVE Promise!Init
  OBVIOUS
<1>1. LoaderInv /\ ReaderInit /\ stood = {}
  BY LoaderStarts DEF Init
<1>2. namespaces = <<>> /\ before.debug = Root /\ attempt = 1 /\ recurred = FALSE
        /\ result.outcome = "pending"
  BY <1>1 DEF ReaderInit, NoRendezvous
<1>3. Captures(namespaces) = <<>>
  BY <1>2, CapturesEmpty
<1>4. lists \in [Rdvs -> Seq([map : Maps, obj : Objs])]
  BY <1>1 DEF LoaderInv, LoaderTypes, Entry
<1> QED
  BY <1>1, <1>2, <1>3, <1>4, ReaderAssumption DEF Promise!Init, Captures, Taken

LEMMA PromiseByLoader ==
  ASSUME SystemInv, LoaderStep PROVE Promise!Change
<1>1. /\ LoaderInv' /\ Disturb
      /\ Written \/ UNCHANGED <<heapVars, touched, readerVars, histVars>>
  BY LoaderKeeps DEF SystemInv, ReaderInv
<1>2. UNCHANGED <<before, namespaces, attempt, result>>
  BY <1>1, ReaderUntouched DEF readerVars, nsVars
<1>3. recurred' \in {recurred, TRUE}
  <2>1. recurred \in BOOLEAN
    BY DEF SystemInv, ReaderInv, ReaderTypeOK, HistoryTypes
  <2>2. recurred' = recurred \/ recurred' = TRUE
    BY <1>1, <2>1 DEF Written, WriteMap, WriteRdv, WriteNames, histVars
  <2> QED
    BY <2>2
<1>4. stood' \in {stood, stood \cup {lists'[before.debug]}}
  BY <1>1 DEF Disturb
<1>5. lists' \in [Rdvs -> Seq([map : Maps, obj : Objs])]
  BY <1>1 DEF LoaderInv, LoaderTypes, Entry
<1> QED
  BY <1>2, <1>3, <1>4, <1>5 DEF Promise!Change

LEMMA PromiseByFailure ==
  ASSUME SystemInv, pc # "done", NEW reason \in Reasons, Fail(reason), Watch
  PROVE  Promise!Restart \/ Promise!Refuse
<1>1. /\ namespaces' = <<>> /\ before' = NoRendezvous /\ recurred' = FALSE
      /\ pc' \in {"initial", "done"} /\ lists' = lists /\ stood' = stood
  BY DEF Fail, DropAttempt, DropWalk, Watch, loaderVars
<1>2. Captures(namespaces') = <<>> /\ before'.debug = Root /\ Root \in Rdvs
  BY <1>1, CapturesEmpty, ReaderAssumption DEF NoRendezvous
<1>3. result.outcome = "pending"
  BY DEF SystemInv, ReaderInv, Over
<1>4. attempt \in 1 .. Attempts
  BY DEF SystemInv, ReaderInv, ReaderTypeOK, ControlTypes
<1>5. \/ attempt' = attempt /\ result'.outcome = "fatal"
      \/ attempt' = attempt /\ result'.outcome = "exhausted" /\ attempt = Attempts
      \/ attempt' = attempt + 1 /\ result' = result /\ attempt < Attempts
  BY <1>4, ReaderAssumption DEF Fail, BudgetSpent, NextAttempt
<1> QED
  BY <1>1, <1>2, <1>3, <1>5 DEF Promise!Restart, Promise!Refuse, Captures, Taken

LEMMA PromiseByAccept ==
  ASSUME SystemInv, AcceptNamespace, Watch
  PROVE  Promise!Take
<1>1. /\ ReaderInv /\ LoaderInv /\ Stood /\ ReaderTypeOK /\ namespaces \in Seq(Captured)
      /\ walk \in Seq(WalkStep) /\ recurred \in BOOLEAN /\ result.outcome = "pending"
  BY DEF SystemInv, ReaderInv, ReaderTypeOK, NamespaceTypes, WalkTypes, HistoryTypes,
         AcceptNamespace, Over
<1>2. PICK new : new = [rendezvous |-> before, modules |-> walk]
  OBVIOUS
<1>3. new \in Captured /\ namespaces' = Append(namespaces, new)
  BY <1>1, <1>2, AcceptTypes
<1>4. Taken(new) = [ns |-> before.debug, list |-> Names(walk)]
  BY <1>2 DEF Taken
<1>5. Captures(namespaces') = Append(Captures(namespaces), Taken(new))
  BY <1>1, <1>3, CapturesAppend
<1>6. /\ Captures(namespaces) \in Seq(Capture) /\ Taken(new) \in Capture
      /\ Len(Captures(namespaces')) = Len(Captures(namespaces)) + 1
      /\ Captures(namespaces')[Len(Captures(namespaces'))] = Taken(new)
  <2>1. Captures(namespaces) \in Seq(Capture)
    BY <1>1, CapturesTypes
  <2>2. Taken(new) \in Capture
    <3>1. Names(walk) \in Seq(Entry) /\ before.debug \in Rdvs
      BY <1>1, NamesTypes DEF ReaderTypeOK, NamespaceTypes, Rendezvous
    <3> QED
      BY <1>4, <3>1 DEF Capture
  <2> HIDE DEF Captures, Taken
  <2>3. /\ Len(Append(Captures(namespaces), Taken(new))) = Len(Captures(namespaces)) + 1
        /\ Append(Captures(namespaces), Taken(new))[Len(Captures(namespaces)) + 1] = Taken(new)
    BY <2>1, <2>2, AppendProperties
  <2> QED
    BY <1>5, <2>1, <2>2, <2>3
<1>7. Names(walk) \in stood \/ recurred
  <2> SUFFICES ASSUME ~recurred PROVE Names(walk) \in stood
    OBVIOUS
  <2>1. CoexistedAt(walk, before.map) /\ IsChain(walk, before.map)
    BY <1>1, AcceptCoexisted
  <2>2. PICK list \in stood : HeldAtInstant(list)
    BY <1>1 DEF Stood, AcceptNamespace
  <2>3. list \in Seq(Entry)
    BY <1>1, <2>2 DEF LoaderInv, LoaderTypes
  <2> QED
    BY <1>1, <2>1, <2>2, <2>3, WalkIsList
<1>8. Names(walk) \in Seq([map : Maps, obj : Objs])
  BY <1>1, NamesTypes DEF Entry
<1>9. /\ before'.debug \in Rdvs /\ recurred' = FALSE /\ attempt' = attempt
      /\ result'.outcome \in {"pending", "ok"} /\ lists' = lists /\ stood' = stood
  BY <1>1, ReaderAssumption
     DEF AcceptNamespace, Return, DropWalk, NoRendezvous, Watch, loaderVars
<1>10. Captures(namespaces')[Len(Captures(namespaces'))].list = Names(walk)
  <2> HIDE DEF Captures, Names
  <2> QED
    BY <1>4, <1>6
<1>11. Captures(namespaces') =
         Append(Captures(namespaces),
                [ns |-> before.debug,
                 list |-> Captures(namespaces')[Len(Captures(namespaces'))].list])
  <2> HIDE DEF Captures, Names
  <2> QED
    BY <1>4, <1>5, <1>10
<1>12. Len(Captures(namespaces')) = Len(Captures(namespaces)) + 1
  BY <1>6
<1>13. /\ Captures(namespaces')[Len(Captures(namespaces'))].list
             \in Seq([map : Maps, obj : Objs])
       /\ Captures(namespaces')[Len(Captures(namespaces'))].list \in stood \/ recurred
  BY <1>7, <1>8, <1>10
<1> QED
  BY <1>1, <1>9, <1>11, <1>12, <1>13 DEF Promise!Take, Captures, Taken

LEMMA PromiseStutters ==
  ASSUME UNCHANGED <<lists, before, stood, recurred, namespaces, attempt, result>>
  PROVE  UNCHANGED Promise!vars
<1>1. Captures(namespaces') = Captures(namespaces)
  OBVIOUS
<1> QED
  BY <1>1 DEF Promise!vars, Captures, Taken

LEMMA PromiseByBegin ==
  ASSUME SystemInv, (ReadInitial /\ rdv[Root].version < 2) \/ ReadNamespace, Watch
  PROVE  Promise!Begin
<1>1. /\ pc \in {"initial", "namespace"} /\ pc' = "forward" /\ recurred' = FALSE
      /\ UNCHANGED <<namespaces, attempt, result>>
  BY DEF ReadInitial, ReadNamespace, BeginCapture, nsVars
<1>2. before'.debug \in Rdvs
  BY ReaderAssumption DEF ReadInitial, ReadNamespace, BeginCapture, RendezvousOf,
     SystemInv, ReaderInv, ReaderTypeOK, NamespaceTypes, RdvPtr
<1>3. stood' = {lists[before'.debug]} /\ lists' = lists
  BY <1>1 DEF Watch, loaderVars
<1>4. result.outcome = "pending"
  BY <1>1 DEF SystemInv, ReaderInv, Over
<1> QED
  BY <1>1, <1>2, <1>3, <1>4 DEF Promise!Begin

LEMMA PromiseByEnd ==
  ASSUME SystemInv, EndOfNamespaces, Watch
  PROVE  Promise!Publish
<1>1. /\ pc = "namespace" /\ cursor = Null /\ pc' = "done" /\ result'.outcome = "ok"
      /\ UNCHANGED <<namespaces, attempt, before, recurred>>
  BY DEF EndOfNamespaces, Return, nsVars, histVars
<1>2. result.outcome = "pending" /\ cursor = NextRdv /\ namespaces \in Seq(Captured)
  BY <1>1 DEF SystemInv, ReaderInv, Over, Series, ReaderTypeOK, NamespaceTypes
<1>3. namespaces # <<>>
  BY <1>1, <1>2, ReaderAssumption DEF NextRdv
<1>4. Captures(namespaces) # <<>>
  <2>1. Len(Captures(namespaces)) = Len(namespaces) /\ Len(namespaces) # 0
    BY <1>2, <1>3, CapturesTypes
  <2> HIDE DEF Captures
  <2> QED
    BY <2>1
<1>5. lists' = lists /\ stood' = stood
  BY <1>1 DEF Watch, loaderVars
<1> QED
  BY <1>1, <1>2, <1>4, <1>5 DEF Promise!Publish, Captures, Taken

LEMMA PromiseByReader ==
  ASSUME SystemInv, ReaderStep PROVE [Promise!Next]_(Promise!vars)
<1>1. (Going \/ Failing) /\ Watch /\ ReaderInv
  BY ReaderStepIs DEF SystemInv
<1>2. CASE Failing
  BY <1>1, <1>2, FailingReason, PromiseByFailure DEF Promise!Next
<1>3. CASE (ReadInitial /\ rdv[Root].version < 2) \/ ReadNamespace
  BY <1>1, <1>3, PromiseByBegin DEF Promise!Next
<1>4. CASE EndOfNamespaces
  BY <1>1, <1>4, PromiseByEnd DEF Promise!Next
<1>5. CASE AcceptNamespace
  BY <1>1, <1>5, PromiseByAccept DEF Promise!Next
<1>6. CASE EndOfReverse
  <2>1. back.current = Null
    BY <1>1, <1>6, ReverseAgrees DEF EndOfReverse
  <2>2. UNCHANGED <<lists, before, stood, recurred, namespaces, attempt, result>>
    BY <1>1, <1>6, <2>1 DEF EndOfReverse, Watch, loaderVars, nsVars, histVars
  <2> QED
    BY <2>2, PromiseStutters
<1>7. CASE \/ ReadInitial /\ ~(rdv[Root].version < 2)
           \/ ReadNode \/ ReadName \/ YieldNode \/ EndOfForward \/ RevalidateNode
  <2>1. UNCHANGED <<before, recurred, namespaces, attempt, result>>
    BY <1>7 DEF ReadInitial, ReadNode, ReadName, YieldNode, EndOfForward, RevalidateNode,
                nsVars, histVars
  <2>2. /\ ~(pc \in {"initial", "namespace"} /\ pc' = "forward")
        /\ lists' = lists
    BY <1>1, <1>7 DEF ReadInitial, ReadNode, ReadName, YieldNode, EndOfForward,
                      RevalidateNode, Watch, loaderVars
  <2>3. stood' = stood
    BY <1>1, <2>2 DEF Watch
  <2> QED
    BY <2>1, <2>2, <2>3, PromiseStutters
<1> QED
  BY <1>1, <1>2, <1>3, <1>4, <1>5, <1>6, <1>7 DEF Going

(* Beside any loader that opens, closes and creates, the reader takes for    *)
(* each namespace a list it held during its own capture, unless a change was *)
(* undone meanwhile; failures leave nothing, attempts are bounded, and only  *)
(* a complete series is returned (retry.rs: Complete::run, reader.rs:        *)
(* Namespaces::read, Capture::read).                                         *)
THEOREM SnapshotsTaken == Spec => TakesNamespaceSnapshots
<1>1. SystemInv /\ [Next]_vars => [Promise!Next]_(Promise!vars)
  <2> SUFFICES ASSUME SystemInv, [Next]_vars PROVE [Promise!Next]_(Promise!vars)
    OBVIOUS
  <2>1. CASE ReaderStep
    BY <2>1, PromiseByReader
  <2>2. CASE LoaderStep
    BY <2>2, PromiseByLoader DEF Promise!Next
  <2>3. CASE UNCHANGED vars
    <3>1. UNCHANGED <<lists, before, stood, recurred, namespaces, attempt, result>>
      BY <2>3 DEF vars, loaderVars, ghostVars, readerVars, nsVars, histVars
    <3> QED
      BY <3>1, PromiseStutters
  <2> QED
    BY <2>1, <2>2, <2>3 DEF Next
<1> QED
  BY PromiseStarts, SystemAlways, <1>1, PTL DEF Spec, TakesNamespaceSnapshots, Promise!Spec

=============================================================================
