------------------------------- MODULE ByteReads -------------------------------
(***************************************************************************)
(* A caller's bounded reads of another process: one scan, or one string.   *)
(***************************************************************************)
EXTENDS ByteScan, ByteString

ASSUME CallAssumption == \A c \in Calls : c.kind \in {"scan"} \cup Texts

bytesVars == <<processVars, copyVars, scanVars>>

ReadString == ReadText /\ UNCHANGED scanVars

BytesNext ==
  \/ Scan
  \/ ReadString
  \/ WriteByte /\ UNCHANGED <<copyVars, scanVars>>

BytesInit ==
  /\ mem \in [Addresses -> Bytes \cup {Unmapped}]
  /\ call \in Calls
  /\ offset = 0 /\ buffer = <<>> /\ outcome = "pending"
  /\ range = 1 /\ matches = {}
  /\ writes = 0 /\ written = {}

(* The reading thread never blocks on the process it reads.                  *)
BytesSpec ==
  BytesInit /\ [][BytesNext]_bytesVars /\ WF_bytesVars(Scan) /\ WF_bytesVars(ReadString)

-----------------------------------------------------------------------------
(* Properties.                                                               *)

(* Every variable holds a value of its type; no window exceeds the copy      *)
(* bound, and no string its own.                                             *)
BytesTypeOK ==
  /\ mem \in [Addresses -> Bytes \cup {Unmapped}]
  /\ call \in Calls
  /\ offset \in Nat
  /\ buffer \in Seq(Bytes)
  /\ Len(buffer) <= IF call.kind = "scan" THEN call.copy ELSE call.limit
  /\ outcome \in {"pending", "ok", "toosmall", "failed", "missing"}
  /\ call.kind = "scan" => range \in 1 .. (Len(call.ranges) + 1)
  /\ matches \subseteq Addresses
  /\ writes \in 0 .. MaxWrites
  /\ written \subseteq Addresses

(* Every operation ends, though the process writes while it runs, at most    *)
(* MaxWrites times: each step of a reader copies a byte, moves to the next   *)
(* window or range, or returns.                                              *)
ReadsEnd == <>(outcome # "pending")
=============================================================================
