--------------------------- MODULE LinkerGnuLoader ---------------------------
(***************************************************************************)
(* The loader snapshot reader beside a GNU loader that opens and closes    *)
(* objects and creates namespaces.  The loader is not part of the          *)
(* repository: it is modelled by the protocol the reader relies on.  It    *)
(* reports a mutation in r_state, appends a new node at the tail, unlinks  *)
(* a closed one from both neighbours, frees it and reports the list        *)
(* consistent again; each write is a step of its own.                      *)
(***************************************************************************)
EXTENDS LinkerReader, FiniteSets, SequencesExt

CONSTANTS
  MaxJobs,      (* bound on dlopen, dlclose and dlmopen calls                 *)
  MaxLoaded     (* bound on the objects loaded before the capture             *)

ASSUME LoaderAssumption == MaxJobs \in Nat /\ MaxLoaded \in Nat \ {0}

VARIABLES
  lists,        (* the objects each namespace holds, in order                 *)
  job,          (* the call the loader is executing                           *)
  jobs,         (* calls started                                              *)
  quiet,        (* history: no loader step since the attempt began            *)
  stood,        (* history: the lists the namespace had during its capture    *)
  stoodAll      (* history: all lists together, during the attempt            *)

loaderVars == <<lists, job, jobs>>
ghostVars  == <<quiet, stood, stoodAll>>
vars == <<heapVars, touched, readerVars, histVars, loaderVars, ghostVars>>

Idle == [call |-> "idle"]

InUse == {e.map : e \in UNION {Range(lists[d]) : d \in Rdvs}}
Live  == {e.obj : e \in UNION {Range(lists[d]) : d \in Rdvs}}

TailOf(d) == IF lists[d] = <<>> THEN Null ELSE Last(lists[d]).map
Neighbour(d, i) == IF i \in DOMAIN lists[d] THEN lists[d][i].map ELSE Null

-----------------------------------------------------------------------------
(* Every loader step but a pure free is one write of LinkerReader.           *)

SetState(d, state) == WriteRdv(d, [rdv[d] EXCEPT !.state = state])

Begin(call, state) ==
  /\ job = Idle
  /\ jobs < MaxJobs
  /\ jobs' = jobs + 1
  /\ job' = call
  /\ SetState(call.ns, state)
  /\ UNCHANGED lists

Exists(d) == rdv[d] # Unmapped

BeginOpen ==
  \E d \in Rdvs, m \in Maps \ InUse, o \in named \ Live :
    /\ Exists(d)
    /\ Begin([call |-> "fill", ns |-> d, map |-> m, obj |-> o], "add")

(* The node is written before anything points to it.                         *)
FillNode ==
  /\ job.call = "fill"
  /\ job' = [job EXCEPT !.call = "append"]
  /\ LET n == [obj |-> job.obj, next |-> Null, prev |-> TailOf(job.ns)] IN
     IF mem[job.map] = n
     THEN UNCHANGED <<heapVars, touched, readerVars, histVars>>
     ELSE WriteMap(job.map, n)
  /\ UNCHANGED <<lists, jobs>>

AppendNode ==
  /\ job.call = "append"
  /\ job' = [job EXCEPT !.call = "end"]
  /\ IF lists[job.ns] = <<>>
     THEN WriteRdv(job.ns, [rdv[job.ns] EXCEPT !.map = job.map])
     ELSE WriteMap(TailOf(job.ns), [mem[TailOf(job.ns)] EXCEPT !.next = job.map])
  /\ lists' = [lists EXCEPT ![job.ns] =
                 Append(@, [map |-> job.map, obj |-> job.obj])]
  /\ UNCHANGED jobs

(* The main program and a namespace's first object are never closed.         *)
BeginClose ==
  \E d \in Rdvs : \E i \in 2 .. Len(lists[d]) :
    /\ Exists(d)
    /\ Begin([call |-> "unlink", ns |-> d, map |-> lists[d][i].map,
              obj |-> lists[d][i].obj, at |-> i], "delete")

UnlinkForward ==
  /\ job.call = "unlink"
  /\ job' = [job EXCEPT !.call = "unlinkback"]
  /\ LET p == Neighbour(job.ns, job.at - 1) IN
     WriteMap(p, [mem[p] EXCEPT !.next = Neighbour(job.ns, job.at + 1)])
  /\ lists' = [lists EXCEPT ![job.ns] = RemoveAt(@, job.at)]
  /\ UNCHANGED jobs

UnlinkBackward ==
  /\ job.call = "unlinkback"
  /\ job' = [job EXCEPT !.call = "free"]
  /\ LET n == Neighbour(job.ns, job.at) IN
     IF n = Null
     THEN UNCHANGED <<heapVars, touched, readerVars, histVars>>
     ELSE WriteMap(n, [mem[n] EXCEPT !.prev = Neighbour(job.ns, job.at - 1)])
  /\ UNCHANGED <<lists, jobs>>

(* A freed node keeps its bytes, leaves the address space or loses its name. *)
FreeNode ==
  /\ job.call = "free"
  /\ job' = [job EXCEPT !.call = "end"]
  /\ \/ UNCHANGED <<heapVars, touched, readerVars, histVars>>
     \/ WriteMap(job.map, Unmapped)
     \/ WriteNames(named \ {job.obj})
  /\ UNCHANGED <<lists, jobs>>

EndJob ==
  /\ job.call = "end"
  /\ job' = Idle
  /\ SetState(job.ns, "consistent")
  /\ UNCHANGED <<lists, jobs>>

(* dlmopen: the new rendezvous is filled, linked behind the last one, and    *)
(* the primary one then announces the extended protocol.                     *)
LastRdv == CHOOSE d \in Rdvs : Exists(d) /\ rdv[d].next = Null

BeginNamespace ==
  \E d \in Rdvs :
    /\ job = Idle
    /\ jobs < MaxJobs
    /\ ~Exists(d)
    /\ jobs' = jobs + 1
    /\ job' = [call |-> "link", ns |-> d, last |-> LastRdv]
    /\ WriteRdv(d, [version |-> 2, state |-> "consistent", map |-> Null,
                    next |-> Null])
    /\ UNCHANGED lists

LinkNamespace ==
  /\ job.call = "link"
  /\ job' = [job EXCEPT !.call = "announce"]
  /\ WriteRdv(job.last, [rdv[job.last] EXCEPT !.next = job.ns])
  /\ UNCHANGED <<lists, jobs>>

AnnounceExtended ==
  /\ job.call = "announce"
  /\ job' = Idle
  /\ IF rdv[Root].version = 2
     THEN UNCHANGED <<heapVars, touched, readerVars, histVars>>
     ELSE WriteRdv(Root, [rdv[Root] EXCEPT !.version = 2])
  /\ UNCHANGED <<lists, jobs>>

-----------------------------------------------------------------------------
(* The history variables, as a loader step and as a reader step leave them.  *)
Disturb ==
  /\ pc # "done"
  /\ quiet' = FALSE
  /\ stood' = IF Capturing THEN stood \cup {lists'[before.debug]} ELSE stood
  /\ stoodAll' = stoodAll \cup {lists'}

Watch ==
  /\ UNCHANGED loaderVars
  /\ IF pc' = "initial"
     THEN quiet' = (job = Idle) /\ stoodAll' = {lists}
     ELSE UNCHANGED <<quiet, stoodAll>>
  /\ IF pc \in {"initial", "namespace"} /\ pc' = "forward"
     THEN stood' = {lists[before'.debug]}
     ELSE UNCHANGED stood

LoaderStep ==
  \/ BeginOpen /\ Disturb
  \/ FillNode /\ Disturb
  \/ AppendNode /\ Disturb
  \/ BeginClose /\ Disturb
  \/ UnlinkForward /\ Disturb
  \/ UnlinkBackward /\ Disturb
  \/ FreeNode /\ Disturb
  \/ BeginNamespace /\ Disturb
  \/ LinkNamespace /\ Disturb
  \/ AnnounceExtended /\ Disturb
  \/ EndJob /\ Disturb

ReaderStep ==
  \/ ReadInitial /\ Watch
  \/ ReadInitialFails /\ Watch
  \/ ReadNamespace /\ Watch
  \/ ReadNamespaceFails /\ Watch
  \/ EndOfNamespaces /\ Watch
  \/ ReadNode /\ Watch
  \/ ReadNodeFails /\ Watch
  \/ ReadName /\ Watch
  \/ ReadNameFails /\ Watch
  \/ YieldNode /\ Watch
  \/ YieldNodeFails /\ Watch
  \/ EndOfForward /\ Watch
  \/ RevalidateNode /\ Watch
  \/ RevalidateNodeFails /\ Watch
  \/ EndOfReverse /\ Watch
  \/ AcceptNamespace /\ Watch
  \/ ProbeFails /\ Watch
  \/ LiftUnstable /\ Watch

Next == ReaderStep \/ LoaderStep

Init ==
  /\ ReaderInit
  /\ \E list \in BoundedSeq([map : Maps, obj : Snapshotted], MaxLoaded) :
       /\ list # <<>>
       /\ \A i, j \in DOMAIN list :
            list[i].map = list[j].map \/ list[i].obj = list[j].obj => i = j
       /\ lists = [d \in Rdvs |-> IF d = Root THEN list ELSE <<>>]
       /\ rdv = [d \in Rdvs |->
            IF d = Root
            THEN [version |-> 1, state |-> "consistent", map |-> list[1].map,
                  next |-> Null]
            ELSE Unmapped]
       /\ mem = [m \in Maps |->
            IF \E i \in DOMAIN list : list[i].map = m
            THEN LET i == CHOOSE i \in DOMAIN list : list[i].map = m IN
                 [obj |-> list[i].obj, next |-> Neighbour(Root, i + 1),
                  prev |-> Neighbour(Root, i - 1)]
            ELSE Unmapped]
  /\ named = Objs
  /\ job = Idle /\ jobs = 0
  /\ quiet = TRUE
  /\ stood = {} /\ stoodAll = {lists}

Spec == Init /\ [][Next]_vars /\ WF_vars(ReaderStep)

-----------------------------------------------------------------------------
(* Properties.                                                               *)

Names(list) == [i \in DOMAIN list |-> [map |-> list[i].map, obj |-> list[i].node.obj]]

(* Each retained namespace is the list the loader's namespace held at some   *)
(* instant of that namespace's own capture, even when the loader opens and   *)
(* closes objects meanwhile and reuses their nodes, unless a record the walk *)
(* had retained was changed and changed back; failed attempts leave nothing  *)
(* in the result.                                                            *)
Promise == INSTANCE NamespaceSnapshots WITH
  Namespaces <- Rdvs,
  Lists <- Seq([map : Maps, obj : Objs]),
  target <- before.debug,
  undone <- recurred,
  captured <- [i \in DOMAIN namespaces |->
                 [ns |-> namespaces[i].rendezvous.debug,
                  list |-> Names(namespaces[i].modules)]],
  outcome <- result.outcome

TakesNamespaceSnapshots == Promise!Spec

(* An attempt during which the loader did nothing never fails on names the   *)
(* mapping snapshot covers, and it returns exactly the loader's lists.       *)
QuietAttemptSucceeds ==
  [][ quiet /\ pc # "done" /\ Live \subseteq Snapshotted =>
       /\ attempt' = attempt
       /\ result'.outcome \in {"pending", "ok"}
       /\ result'.outcome = "ok" =>
            /\ \A i \in DOMAIN namespaces' :
                 Names(namespaces'[i].modules) = lists[namespaces'[i].rendezvous.debug]
            /\ \A d \in Rdvs : rdv[Root].version = 2 /\ Exists(d) =>
                 \E i \in DOMAIN namespaces' : namespaces'[i].rendezvous.debug = d
    ]_vars

(* The namespaces of a returned snapshot held their lists together at one    *)
(* instant (reader.rs: "Capture one coherent GNU loader observation").       *)
SnapshotStood ==
  [][ pc # "done" /\ pc' = "done" /\ result'.outcome = "ok" =>
        \E l \in stoodAll : \A i \in DOMAIN namespaces' :
          Names(namespaces'[i].modules) = l[namespaces'[i].rendezvous.debug] ]_vars

=============================================================================
