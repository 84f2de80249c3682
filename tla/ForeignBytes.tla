----------------------------- MODULE ForeignBytes -----------------------------
(***************************************************************************)
(* One operation that copies bytes of another process, which may write or  *)
(* unmap any byte between any two bytes of a copy.                         *)
(***************************************************************************)
EXTENDS Naturals, Sequences

CONSTANTS
  Addresses,    (* process addresses, a set of naturals                       *)
  Bytes,        (* what a readable byte holds                                 *)
  Unmapped,     (* what an unreadable byte holds                              *)
  Calls,        (* the operations and their arguments                         *)
  MaxWrites     (* bound on writes and unmappings during one operation        *)

ASSUME BytesAssumption ==
  /\ Addresses \subseteq Nat
  /\ Unmapped \notin Bytes
  /\ MaxWrites \in Nat

VARIABLES
  mem,          (* the process's memory                                       *)
  call,         (* the operation and its arguments                            *)
  offset,       (* where the bytes under copy begin                           *)
  buffer,       (* bytes copied so far                                        *)
  outcome,      (* what the operation returned                                *)
  writes,       (* writes and unmappings so far                               *)
  written       (* history: addresses written or unmapped                     *)

processVars == <<mem, writes, written>>
copyVars == <<call, offset, buffer, outcome>>

Uncapped(a, b) == a
Smaller(a, b) == IF a < b THEN a ELSE b

(* The process.                                                              *)
WriteByte ==
  \E a \in Addresses, b \in Bytes \cup {Unmapped} :
    /\ outcome = "pending"
    /\ writes < MaxWrites
    /\ mem[a] # b
    /\ mem' = [mem EXCEPT ![a] = b]
    /\ writes' = writes + 1
    /\ written' = written \cup {a}

=============================================================================
