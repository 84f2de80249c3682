------------------------------ MODULE ByteString ------------------------------
(***************************************************************************)
(* The bounded copies of a string: CBytes::assemble_with of ganymede-scan  *)
(* and the two name_bytes, of the linker crate's module reader and of the  *)
(* ELF crate's dynamic symbols.  A chunk is what one managed window still  *)
(* has of the string's bound; it is copied whole, or up to the byte that   *)
(* faults, and only then searched for a terminator.                        *)
(***************************************************************************)
EXTENDS ForeignBytes

CONSTANTS
  Nul,          (* the byte that ends a string                                *)
  Granule       (* bytes of a managed window                                  *)

Texts == {"CBytes", "module name", "symbol name"}

ASSUME TextAssumption ==
  /\ Nul \in Bytes
  /\ Granule \in Nat \ {0}
  /\ \A c \in Calls : c.kind \in Texts =>
       /\ c.limit \in Nat \ {0}
       /\ c.start \in Nat
       /\ c.start .. (c.start + c.limit - 1) \subseteq Addresses

Reading == outcome = "pending" /\ call.kind \in Texts

-----------------------------------------------------------------------------
(* Chunks.                                                                   *)

(* Bytes between an address and the end of its window.                       *)
Leftover(a) == Granule - (a % Granule)

Requested == Smaller(call.limit - offset, Leftover(call.start + offset))

Copied == Len(buffer) - offset
TextCursor == call.start + Len(buffer)

Terminators == {i \in (offset + 1) .. Len(buffer) : buffer[i] = Nul}
LastNul == CHOOSE i \in Terminators : \A j \in Terminators : j <= i
FirstNul == CHOOSE i \in Terminators : \A j \in Terminators : i <= j

(* A C string keeps its terminator, a name does not.                         *)
Retained == IF call.kind = "CBytes" THEN FirstNul ELSE FirstNul - 1

(* The match on (terminator, status): a terminator settles the copy whether  *)
(* or not a byte behind it faulted.                                          *)
FaultFirst(faulted) ==
  IF faulted THEN "failed" ELSE IF Terminators # {} THEN "ok" ELSE "pending"

Verdict(faulted) ==
  IF Terminators # {} THEN "ok" ELSE IF faulted THEN "failed" ELSE "pending"

SameChunk == offset
NextChunk == offset + Copied

(* A chunk was copied, or its next byte faulted.                             *)
EndChunk(faulted) ==
  /\ outcome' = Verdict(faulted)
  /\ offset' = NextChunk
  /\ buffer' = CASE Verdict(faulted) = "ok"      -> SubSeq(buffer, 1, Retained)
                 [] Verdict(faulted) = "failed"  -> <<>>
                 [] Verdict(faulted) = "pending" -> buffer
  /\ UNCHANGED <<processVars, call>>

-----------------------------------------------------------------------------
(* The copy.                                                                 *)

CopyTextByte ==
  /\ Reading
  /\ offset < call.limit
  /\ Copied < Requested
  /\ mem[TextCursor] # Unmapped
  /\ buffer' = Append(buffer, mem[TextCursor])
  /\ UNCHANGED <<processVars, call, offset, outcome>>

ChunkCopied ==
  /\ Reading
  /\ offset < call.limit
  /\ Copied = Requested
  /\ EndChunk(FALSE)

(* The window cannot be opened, or a byte of it faults.                      *)
ChunkFaults ==
  /\ Reading
  /\ offset < call.limit
  /\ Copied < Requested
  /\ mem[TextCursor] = Unmapped
  /\ EndChunk(TRUE)

(* The bound is spent.                                                       *)
MissingTerminator ==
  /\ Reading
  /\ offset >= call.limit
  /\ outcome' = "missing"
  /\ buffer' = <<>>
  /\ UNCHANGED <<processVars, call, offset>>

ReadText == CopyTextByte \/ ChunkCopied \/ ChunkFaults \/ MissingTerminator

-----------------------------------------------------------------------------
(* Properties.                                                               *)

Bound == call.start .. (call.start + call.limit - 1)

(* The bytes of the string that was read, its terminator included.           *)
TextExtent == call.start .. (call.start + (IF call.kind = "CBytes" THEN Len(buffer) - 1 ELSE Len(buffer)))

(* A string that is returned ends at the first NUL of what was copied, lies  *)
(* within the bound with its terminator, and holds what the process holds    *)
(* wherever nothing was written, across every window border (CBytes: "ends   *)
(* at the first NUL observed within the requested foreign byte bound").      *)
TextStood ==
  outcome = "ok" /\ call.kind \in Texts =>
    /\ TextExtent \subseteq Bound
    /\ \A i \in DOMAIN buffer : buffer[i] = Nul <=> call.kind = "CBytes" /\ i = Len(buffer)
    /\ \A a \in TextExtent \ written :
         mem[a] = IF a = call.start + Len(buffer) THEN Nul ELSE buffer[a - call.start + 1]

(* A refusal says why: no byte within the bound ends the string, or a byte    *)
(* before any that does was unmapped.  So a terminated string that stands is *)
(* read, even if what lies behind its terminator cannot be.                  *)
TextRefusalExplained ==
  /\ outcome = "missing" => \A a \in Bound : mem[a] = Nul => a \in written
  /\ outcome = "failed" /\ call.kind \in Texts =>
       \E a \in Bound :
         /\ mem[a] = Unmapped \/ a \in written
         /\ \A b \in call.start .. (a - 1) : mem[b] = Nul => b \in written
=============================================================================
