------------------------------ MODULE StableLift ------------------------------
(***************************************************************************)
(* One stable lift: Stable::lift of ganymede-linker-gnu hands a foreign    *)
(* record to catalejo's stabilize, which lifts the whole record again and  *)
(* again, field by field, until successive lifts agree or the bound        *)
(* STABLE_READ_LIFTS is met.  Meanwhile the owner of the record may write  *)
(* any field, or unmap the page, between any two field reads.              *)
(*                                                                         *)
(* LinkerReader takes a stable lift as one atomic step.  This module says  *)
(* what that rests on, and what it does not give: a field that leaves its  *)
(* value and comes back to it can make a record that never stood.          *)
(*                                                                         *)
(* stabilize itself is not part of the repository.  How many successive    *)
(* lifts must agree is left open (Agreeing, at least two): the results     *)
(* hold for each choice.                                                   *)
(***************************************************************************)
EXTENDS Naturals

CONSTANTS
  FieldCount,   (* number of fields a lift reads                              *)
  Values,       (* what a field may hold                                      *)
  Lifts,        (* STABLE_READ_LIFTS: complete lifts of one record            *)
  Agreeing      (* successive equal lifts stabilize asks for                  *)

ASSUME LiftAssumption ==
  /\ FieldCount \in Nat \ {0}
  /\ Lifts \in Nat
  /\ Agreeing \in 2 .. Lifts

Index == 1 .. FieldCount
RecordValue == [Index -> Values]

VARIABLES
  record,       (* the foreign record                                         *)
  mapped,       (* its page can be read                                       *)
  field,        (* the next field the running lift reads                      *)
  lift,         (* the running lift; entries from field on are old            *)
  lifts,        (* complete lifts so far                                      *)
  agreed,       (* length of the last run of equal lifts                      *)
  previous,     (* the last complete lift, if agreed > 0                      *)
  verdict,      (* what Stable::lift returned                                 *)
  instant,      (* history: the record when the run of equal lifts began      *)
  recurred,     (* history: a field left the lifted value and came back       *)
  disturbed     (* history: the record was written or unmapped                *)

readerVars == <<field, lift, lifts, agreed, previous, verdict>>
liftVars == <<record, mapped, readerVars, instant, recurred, disturbed>>

SameLastField(a, b) == a[FieldCount] = b[FieldCount]
DifferentLift(a, b) == a # b
SameLift(a, b) == a = b

SameCount(n) == n
NextCount(n) == n + 1

Spent(n) == n = Lifts

Lifted == [lift EXCEPT ![field] = record[field]]

(* A field that is not the last one.                                         *)
ReadField ==
  /\ verdict = "pending"
  /\ mapped
  /\ field < FieldCount
  /\ lift' = Lifted
  /\ field' = field + 1
  /\ UNCHANGED <<record, mapped, lifts, agreed, previous, verdict, instant,
                 recurred, disturbed>>

(* The last field completes the lift: it joins the run of equal lifts or     *)
(* starts a new one.                                                         *)
Agrees == agreed > 0 /\ SameLift(Lifted, previous)

CompleteLift ==
  /\ verdict = "pending"
  /\ mapped
  /\ field = FieldCount
  /\ lift' = Lifted
  /\ field' = 1
  /\ lifts' = NextCount(lifts)
  /\ previous' = Lifted
  /\ agreed' = IF Agrees THEN agreed + 1 ELSE 1
  /\ verdict' = IF agreed' = Agreeing THEN "stable"
                ELSE IF Spent(lifts') THEN "unstable"
                ELSE "pending"
  /\ IF Agrees
     THEN UNCHANGED <<instant, recurred>>
     ELSE instant' = record /\ recurred' = FALSE
  /\ UNCHANGED <<record, mapped, disturbed>>

(* LinkerError::Faulted, or Process::open found no readable span.            *)
Fault ==
  /\ verdict = "pending"
  /\ ~mapped
  /\ verdict' = "faulted"
  /\ UNCHANGED <<record, mapped, field, lift, lifts, agreed, previous, instant,
                 recurred, disturbed>>

WriteField(f, v) ==
  /\ verdict = "pending"
  /\ record[f] # v
  /\ record' = [record EXCEPT ![f] = v]
  /\ recurred' = (recurred \/ (agreed > 0 /\ v = previous[f]))
  /\ disturbed' = TRUE
  /\ UNCHANGED <<mapped, readerVars, instant>>

Remap ==
  /\ verdict = "pending"
  /\ mapped' = ~mapped
  /\ disturbed' = TRUE
  /\ UNCHANGED <<record, readerVars, instant, recurred>>

Lifting == ReadField \/ CompleteLift \/ Fault

LiftNext == Lifting \/ Remap \/ \E f \in Index, v \in Values : WriteField(f, v)

LiftInit ==
  /\ record \in RecordValue
  /\ mapped = TRUE
  /\ field = 1
  /\ lift = record
  /\ lifts = 0
  /\ agreed = 0
  /\ previous = record
  /\ verdict = "pending"
  /\ instant = record
  /\ recurred = FALSE
  /\ disturbed = FALSE

(* The lifting thread never blocks; the target may write for ever.           *)
LiftSpec == LiftInit /\ [][LiftNext]_liftVars /\ WF_liftVars(Lifting)

-----------------------------------------------------------------------------
(* Properties.                                                               *)

(* Every variable holds a value of its type; the bound on lifts is kept.     *)
LiftTypeOK ==
  /\ record \in RecordValue
  /\ mapped \in BOOLEAN
  /\ field \in Index
  /\ lift \in RecordValue
  /\ lifts \in 0 .. Lifts
  /\ agreed \in 0 .. Agreeing
  /\ previous \in RecordValue
  /\ verdict \in {"pending", "stable", "unstable", "faulted"}
  /\ instant \in RecordValue
  /\ recurred \in BOOLEAN
  /\ disturbed \in BOOLEAN

(* A record accepted as stable stood in memory whole, all its fields at one  *)
(* instant (model.rs: "projected from the same stabilized foreign link-map   *)
(* record"), unless a field changed and changed back while it was lifted.    *)
LiftStood == verdict = "stable" /\ ~recurred => previous = instant

(* A record nobody touches is never reported unstable or faulted, and what   *)
(* is lifted is that record.                                                 *)
QuietLiftSettles ==
  ~disturbed =>
    /\ verdict \in {"pending", "stable"}
    /\ verdict = "stable" => previous = record

(* A lift ends even when the target writes for ever.                         *)
LiftEnds == <>(verdict # "pending")

=============================================================================
