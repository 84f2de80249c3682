-------------------------- MODULE NamespaceSnapshots --------------------------
(***************************************************************************)
(* What a capture promises about a loader whose namespaces keep changing:  *)
(* one namespace after the other, it takes an atomic snapshot of the list  *)
(* the namespace holds, at some instant of that namespace's own interval.  *)
(* The one exception is a change that was undone while the capture ran: it *)
(* cannot be told from no change at all, and nothing is promised then.     *)
(* An attempt that fails leaves nothing behind, attempts are bounded, and  *)
(* only a complete series of snapshots is ever returned.                   *)
(***************************************************************************)
EXTENDS Naturals, Sequences

CONSTANTS
  Namespaces,   (* namespace identities                                       *)
  Lists,        (* what a namespace can hold                                  *)
  Attempts      (* attempts of one capture                                    *)

VARIABLES
  lists,        (* the list each namespace holds now                          *)
  target,       (* the namespace being captured                               *)
  stood,        (* the lists it held since its capture began                  *)
  undone,       (* a change was undone since its capture began                *)
  captured,     (* snapshots taken in this attempt                            *)
  attempt,      (* the running attempt                                        *)
  outcome       (* what the capture returned                                  *)

vars == <<lists, target, stood, undone, captured, attempt, outcome>>

Init ==
  /\ lists \in [Namespaces -> Lists]
  /\ target \in Namespaces
  /\ stood = {}
  /\ undone = FALSE
  /\ captured = <<>>
  /\ attempt = 1
  /\ outcome = "pending"

(* The loader replaces lists; the running capture sees every one of them.    *)
Change ==
  /\ lists' \in [Namespaces -> Lists]
  /\ stood' \in {stood, stood \cup {lists'[target]}}
  /\ undone' \in {undone, TRUE}
  /\ UNCHANGED <<target, captured, attempt, outcome>>

(* A capture of namespace n begins.                                          *)
Begin ==
  /\ outcome = "pending"
  /\ target' \in Namespaces
  /\ stood' = {lists[target']}
  /\ undone' = FALSE
  /\ UNCHANGED <<lists, captured, attempt, outcome>>

(* The snapshot is a list the namespace held, or a change was undone.        *)
Take ==
  /\ outcome = "pending"
  /\ Len(captured') = Len(captured) + 1
  /\ LET l == captured'[Len(captured')].list IN
     /\ captured' = Append(captured, [ns |-> target, list |-> l])
     /\ l \in Lists
     /\ l \in stood \/ undone
  /\ target' \in Namespaces
  /\ outcome' \in {"pending", "ok"}
  /\ undone' = FALSE
  /\ UNCHANGED <<lists, stood, attempt>>

Publish ==
  /\ outcome = "pending"
  /\ captured # <<>>
  /\ outcome' = "ok"
  /\ UNCHANGED <<lists, target, stood, undone, captured, attempt>>

Restart ==
  /\ outcome = "pending"
  /\ attempt < Attempts
  /\ attempt' = attempt + 1
  /\ captured' = <<>>
  /\ undone' = FALSE
  /\ target' \in Namespaces
  /\ UNCHANGED <<lists, stood, outcome>>

Refuse ==
  /\ outcome = "pending"
  /\ outcome' \in {"fatal"} \cup (IF attempt = Attempts THEN {"exhausted"} ELSE {})
  /\ captured' = <<>>
  /\ undone' = FALSE
  /\ target' \in Namespaces
  /\ UNCHANGED <<lists, stood, attempt>>

Next == Change \/ Begin \/ Take \/ Publish \/ Restart \/ Refuse

Spec == Init /\ [][Next]_vars
=============================================================================
