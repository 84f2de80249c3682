--------------------------- MODULE StableLiftProofs ---------------------------
(***************************************************************************)
(* For every number of fields, set of values and lift bound: a record      *)
(* accepted as stable stood whole at one instant unless a field recurred,  *)
(* and a record left alone is never reported unstable.                     *)
(***************************************************************************)
EXTENDS StableLift, TLAPS

(* A running lift has budget left, and an accepted one has agreed.           *)
Budget ==
  /\ verdict = "pending" => lifts < Lifts /\ agreed < Agreeing
  /\ verdict = "stable" => agreed = Agreeing

(* Since the run of equal lifts began, a field that holds the lifted value   *)
(* now, or held it when the running lift read it, has held it all along.     *)
Kept ==
  agreed > 0 /\ ~recurred =>
    /\ \A f \in Index : record[f] = previous[f] => instant[f] = previous[f]
    /\ \A f \in Index : f < field /\ lift[f] = previous[f] => instant[f] = previous[f]
    /\ agreed > 1 => previous = instant

(* What the lifts of an untouched record look like.                          *)
Quiet ==
  ~disturbed =>
    /\ mapped
    /\ verdict \in {"pending", "stable"}
    /\ agreed = lifts
    /\ agreed > 0 => previous = record
    /\ \A f \in Index : f < field => lift[f] = record[f]

IInv == LiftTypeOK /\ Budget /\ Kept /\ Quiet

LEMMA InitIInv == ASSUME LiftInit PROVE IInv
<1>1. LiftTypeOK
  <2>1. field \in Index /\ lifts \in 0 .. Lifts /\ agreed \in 0 .. Agreeing
    BY LiftAssumption DEF LiftInit, Index
  <2> QED
    BY <2>1 DEF LiftInit, LiftTypeOK
<1>2. Budget
  BY LiftAssumption DEF LiftInit, Budget
<1>3. Kept /\ Quiet
  BY DEF LiftInit, Kept, Quiet, Index
<1> QED
  BY <1>1, <1>2, <1>3 DEF IInv

(* The lift a read completes or continues.                                   *)
LEMMA ReadRecord ==
  ASSUME LiftTypeOK
  PROVE  /\ Lifted \in RecordValue
         /\ Lifted[field] = record[field]
         /\ \A f \in Index : f # field => Lifted[f] = lift[f]
  BY DEF LiftTypeOK, Lifted, RecordValue, Index

LEMMA ReadFieldKeeps == ASSUME IInv, ReadField PROVE IInv'
<1>1. LiftTypeOK'
  BY LiftAssumption, ReadRecord DEF IInv, LiftTypeOK, ReadField, Index
<1>2. Budget'
  BY DEF IInv, Budget, ReadField
<1>3. Kept' /\ Quiet'
  <2>1. ASSUME NEW f \in Index, f < field'
        PROVE  IF f = field THEN lift'[f] = record[f] ELSE f < field /\ lift'[f] = lift[f]
    BY <2>1, ReadRecord, LiftAssumption DEF IInv, LiftTypeOK, ReadField, Index
  <2> QED
    BY <2>1 DEF IInv, Kept, Quiet, ReadField
<1> QED
  BY <1>1, <1>2, <1>3 DEF IInv

LEMMA CompleteLiftKeeps == ASSUME IInv, CompleteLift PROVE IInv'
<1> USE LiftAssumption
<1>1. Lifted \in RecordValue /\ field = FieldCount /\ Lifted[field] = record[field]
  BY ReadRecord DEF IInv, CompleteLift
<1>2. agreed' \in 1 .. Agreeing /\ lifts' \in 1 .. Lifts
  BY DEF IInv, LiftTypeOK, Budget, CompleteLift, NextCount
<1>3. LiftTypeOK'
  <2>1. verdict' \in {"pending", "stable", "unstable", "faulted"}
    BY DEF CompleteLift
  <2>2. instant' \in RecordValue /\ recurred' \in BOOLEAN
    BY DEF IInv, LiftTypeOK, CompleteLift
  <2> QED
    BY <1>1, <1>2, <2>1, <2>2 DEF IInv, LiftTypeOK, CompleteLift, Index
<1>4. Budget'
  BY <1>2 DEF CompleteLift, Budget, Spent
<1>5. Kept'
  <2>1. CASE ~Agrees
    BY <2>1 DEF CompleteLift, Kept, IInv, LiftTypeOK, Index
  <2>2. CASE Agrees
    <3>1. previous' = previous /\ Lifted = previous /\ agreed > 0
      BY <2>2 DEF Agrees, SameLift, CompleteLift
    <3>2. ASSUME ~recurred, NEW f \in Index PROVE previous[f] = instant[f]
      <4>1. CASE f = field
        BY <3>1, <3>2, <4>1, <1>1 DEF IInv, Kept
      <4>2. CASE f # field
        <5>1. f < field
          BY <4>2, <1>1 DEF Index
        <5>2. lift[f] = previous[f]
          BY <3>1, <4>2, ReadRecord DEF IInv
        <5> QED
          BY <3>1, <3>2, <5>1, <5>2 DEF IInv, Kept
      <4> QED
        BY <4>1, <4>2
    <3>3. ~recurred => previous = instant
      BY <3>2 DEF IInv, LiftTypeOK, RecordValue
    <3> QED
      BY <2>2, <3>1, <3>3, <1>1 DEF CompleteLift, Kept, Index
  <2> QED
    BY <2>1, <2>2
<1>6. Quiet'
  <2>1. SUFFICES ASSUME ~disturbed PROVE Quiet'
    BY DEF Quiet, CompleteLift
  <2>2. Lifted = record
    <3>1. \A f \in Index : Lifted[f] = record[f]
      BY <2>1, <1>1, ReadRecord DEF IInv, Quiet, Index
    <3>2. Lifted \in RecordValue /\ record \in RecordValue
      BY <1>1 DEF IInv, LiftTypeOK
    <3> QED
      BY <3>1, <3>2 DEF RecordValue
  <2>3. agreed' = lifts'
    BY <2>1, <2>2 DEF CompleteLift, IInv, LiftTypeOK, Quiet, Agrees, SameLift, NextCount
  <2>4. verdict' \in {"pending", "stable"}
    BY <2>3, <1>2 DEF CompleteLift, Spent
  <2> QED
    BY <2>1, <2>2, <2>3, <2>4 DEF CompleteLift, IInv, Quiet, Index
<1> QED
  BY <1>3, <1>4, <1>5, <1>6 DEF IInv

LEMMA FaultKeeps == ASSUME IInv, Fault PROVE IInv'
  BY DEF IInv, LiftTypeOK, Budget, Kept, Quiet, Fault

LEMMA WriteFieldKeeps ==
  ASSUME IInv, NEW f \in Index, NEW v \in Values, WriteField(f, v) PROVE IInv'
<1>1. LiftTypeOK'
  BY DEF IInv, LiftTypeOK, WriteField, readerVars, RecordValue
<1>2. Budget' /\ Quiet'
  BY DEF IInv, Budget, Quiet, WriteField, readerVars
<1>3. ASSUME NEW g \in Index
      PROVE  record'[g] = IF g = f THEN v ELSE record[g]
  BY DEF IInv, LiftTypeOK, WriteField, RecordValue
<1>4. Kept'
  BY <1>3 DEF IInv, LiftTypeOK, Kept, WriteField, readerVars
<1> QED
  BY <1>1, <1>2, <1>4 DEF IInv

LEMMA RemapKeeps == ASSUME IInv, Remap PROVE IInv'
  BY DEF IInv, LiftTypeOK, Budget, Kept, Quiet, Remap, readerVars

LEMMA StepKeepsIInv == ASSUME IInv, [LiftNext]_liftVars PROVE IInv'
<1>1. CASE Lifting
  BY <1>1, ReadFieldKeeps, CompleteLiftKeeps, FaultKeeps DEF Lifting
<1>2. CASE Remap
  BY <1>2, RemapKeeps
<1>3. CASE \E f \in Index, v \in Values : WriteField(f, v)
  BY <1>3, WriteFieldKeeps
<1>4. CASE UNCHANGED liftVars
  BY <1>4 DEF liftVars, readerVars, IInv, LiftTypeOK, Budget, Kept, Quiet
<1> QED
  BY <1>1, <1>2, <1>3, <1>4 DEF LiftNext

LEMMA InvariantHolds == LiftSpec => []IInv
  BY InitIInv, StepKeepsIInv, PTL DEF LiftSpec

(* Types, and the bound on the lifts of one record.                          *)
THEOREM LiftTypes == LiftSpec => []LiftTypeOK
<1>1. IInv => LiftTypeOK
  BY DEF IInv
<1> QED
  BY <1>1, InvariantHolds, PTL

(* A stable record stood whole at one instant, unless a field recurred: the  *)
(* ground on which LinkerReader takes a lift as one step.                    *)
THEOREM StableRecordStood == LiftSpec => []LiftStood
<1>1. IInv => LiftStood
  BY LiftAssumption DEF IInv, LiftTypeOK, Budget, Kept, LiftStood
<1> QED
  BY <1>1, InvariantHolds, PTL

(* An untouched record is lifted as it is and never found unstable.          *)
THEOREM QuietRecordSettles == LiftSpec => []QuietLiftSettles
<1>1. IInv => QuietLiftSettles
  BY LiftAssumption DEF IInv, LiftTypeOK, Budget, Quiet, QuietLiftSettles
<1> QED
  BY <1>1, InvariantHolds, PTL

=============================================================================
