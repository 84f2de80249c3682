--------------------------- MODULE LinkerAnyWriter ---------------------------
(***************************************************************************)
(* The loader snapshot reader against a process that may write anything to *)
(* any link map, rendezvous or name at any time: what the reader returns   *)
(* may rely on its own checks only, never on the target's discipline.      *)
(***************************************************************************)
EXTENDS LinkerReader

CONSTANTS
  Nodes,        (* link-map records the writer writes                         *)
  Debugs,       (* rendezvous records the writer writes                       *)
  MaxWrites     (* bound on the number of writes during one capture           *)

ASSUME WriterAssumption ==
  /\ Nodes \subseteq LinkMap \cup {Unmapped}
  /\ Debugs \subseteq Debug \cup {Unmapped}
  /\ MaxWrites \in Nat

VARIABLE writes  (* writes so far *)

anyVars == <<heapVars, touched, readerVars, histVars, writes>>

AnyInit ==
  /\ ReaderInit
  /\ mem \in [Maps -> Nodes]
  /\ rdv \in [Rdvs -> Debugs]
  /\ named \in SUBSET Objs
  /\ writes = 0

Write ==
  /\ writes < MaxWrites
  /\ writes' = writes + 1
  /\ \/ \E m \in Maps, n \in Nodes : WriteMap(m, n)
     \/ \E d \in Rdvs, r \in Debugs : WriteRdv(d, r)
     \/ \E live \in SUBSET Objs : WriteNames(live)

(* The reader's steps, none of which counts as a write.                      *)
Read ==
  \/ ReadInitial /\ UNCHANGED writes
  \/ ReadInitialFails /\ UNCHANGED writes
  \/ ReadNamespace /\ UNCHANGED writes
  \/ ReadNamespaceFails /\ UNCHANGED writes
  \/ EndOfNamespaces /\ UNCHANGED writes
  \/ ReadNode /\ UNCHANGED writes
  \/ ReadNodeFails /\ UNCHANGED writes
  \/ ReadName /\ UNCHANGED writes
  \/ ReadNameFails /\ UNCHANGED writes
  \/ YieldNode /\ UNCHANGED writes
  \/ YieldNodeFails /\ UNCHANGED writes
  \/ EndOfForward /\ UNCHANGED writes
  \/ RevalidateNode /\ UNCHANGED writes
  \/ RevalidateNodeFails /\ UNCHANGED writes
  \/ EndOfReverse /\ UNCHANGED writes
  \/ AcceptNamespace /\ UNCHANGED writes
  \/ ProbeFails /\ UNCHANGED writes
  \/ LiftUnstable /\ UNCHANGED writes

AnyNext == Read \/ Write

(* The reader is one thread that never blocks; nothing makes the target run. *)
AnySpec == AnyInit /\ [][AnyNext]_anyVars /\ WF_anyVars(Read)

-----------------------------------------------------------------------------
(* Properties.  Those of the reader alone are in LinkerReader.               *)

(* Every variable holds a value of its type; no attempt exceeds the budget.  *)
TypeOK == ReaderTypeOK /\ writes \in 0 .. MaxWrites

(* Two lifts of a node, one in each direction, bracket the instant at which  *)
(* the forward traversal ended.  So a namespace is retained only if its      *)
(* whole list and its head stood in memory together at that instant, unless  *)
(* a record the walk had retained was changed and changed back.              *)
RetainedCoexisted ==
  [][ namespaces' # namespaces /\ namespaces' # <<>> /\ ~recurred
        => CoexistedAt(namespaces'[Len(namespaces')].modules,
                       namespaces'[Len(namespaces')].rendezvous.map) ]_anyVars

(* A capture ends: it neither waits for the target nor follows a cycle of    *)
(* its lists for ever, however the writes (at most MaxWrites of them) fall.  *)
CaptureEnds == <>(pc = "done")

=============================================================================
