------------------------------- MODULE ByteScan -------------------------------
(***************************************************************************)
(* Scanner::bytes of ganymede-scan: a range of another process is copied   *)
(* window by window into one local buffer, each window is searched for the *)
(* needle, and the windows overlap by one byte less than the needle.  The  *)
(* process may write or unmap any byte between any two bytes of a copy.    *)
(*                                                                         *)
(* The address arithmetic cannot overflow here: every address formed lies  *)
(* inside a range the caller could name.                                   *)
(***************************************************************************)
EXTENDS ForeignBytes, FiniteSets

ASSUME ScanAssumption ==
  \A c \in Calls : c.kind = "scan" =>
    /\ c.needle \in Seq(Bytes)
    /\ c.copy \in Nat \ {0}
    /\ c.ranges \in Seq([start : Nat, end : Nat])
    /\ \A i \in DOMAIN c.ranges : c.ranges[i].start .. (c.ranges[i].end - 1) \subseteq Addresses

VARIABLES
  range,        (* number of the range being scanned                          *)
  matches       (* addresses reported, without order and duplicates           *)

scanVars == <<range, matches>>

N == Len(call.needle)
RangeSize(r) == IF r.start < r.end THEN r.end - r.start ELSE 0

-----------------------------------------------------------------------------
(* Windows.                                                                  *)

Backlap(n) == n - 2
Overlap(n) == n - 1

Step == call.copy - Overlap(N)

Called == outcome = "pending" /\ call.kind = "scan"

Scanning ==
  /\ Called
  /\ N > 0 /\ N <= call.copy
  /\ range <= Len(call.ranges)

Current == call.ranges[range]
Remaining == RangeSize(Current) - offset
InRange == offset < RangeSize(Current)
Count == Smaller(Remaining, call.copy)

(* The byte the copy of the window takes next.                               *)
Cursor == Current.start + offset + Len(buffer)

-----------------------------------------------------------------------------
(* memmem::find_iter: leftmost occurrences that do not overlap.              *)
Occurrences(window) ==
  {k \in 0 .. Len(window) : k + N <= Len(window) /\ SubSeq(window, k + 1, k + N) = call.needle}

Covers(m, k) == m <= k /\ k < m + N

(* An occurrence is found unless it starts inside another that is.           *)
Leftmost(found, k) == k \in found <=> ~\E m \in found : m # k /\ Covers(m, k)

FindIter(window) ==
  CHOOSE found \in SUBSET Occurrences(window) :
    \A k \in Occurrences(window) : Leftmost(found, k)

CandidateEnd == IF Remaining > call.copy THEN Step ELSE Count

WindowOffset(chunk, k) == k
AbsoluteOffset(chunk, k) == chunk + k

(* push_matches.                                                             *)
Pushed ==
  {Current.start + AbsoluteOffset(offset, k) :
     k \in {m \in FindIter(buffer) : m < CandidateEnd}}

NextWindow(chunk) == chunk + Step

-----------------------------------------------------------------------------
(* The scanner.                                                              *)

EmptyNeedle ==
  /\ Called
  /\ N = 0
  /\ outcome' = "ok"
  /\ UNCHANGED <<processVars, call, range, offset, buffer, matches>>

CopyTooSmall ==
  /\ Called
  /\ N > call.copy
  /\ outcome' = "toosmall"
  /\ UNCHANGED <<processVars, call, range, offset, buffer, matches>>

CopyByte ==
  /\ Scanning /\ InRange
  /\ Len(buffer) < Count
  /\ mem[Cursor] # Unmapped
  /\ buffer' = Append(buffer, mem[Cursor])
  /\ UNCHANGED <<processVars, call, range, offset, matches, outcome>>

(* Process::open or Bytes::assemble_with failed: nothing is returned.        *)
CopyFails ==
  /\ Scanning /\ InRange
  /\ Len(buffer) < Count
  /\ mem[Cursor] = Unmapped
  /\ outcome' = "failed"
  /\ matches' = {}
  /\ UNCHANGED <<processVars, call, range, offset, buffer>>

SearchWindow ==
  /\ Scanning /\ InRange
  /\ Len(buffer) = Count
  /\ matches' = matches \cup Pushed
  /\ offset' = NextWindow(offset)
  /\ buffer' = <<>>
  /\ UNCHANGED <<processVars, call, range, outcome>>

EndOfRange ==
  /\ Scanning /\ ~InRange
  /\ range' = range + 1
  /\ offset' = 0
  /\ UNCHANGED <<processVars, call, buffer, matches, outcome>>

Finish ==
  /\ Called
  /\ N > 0 /\ N <= call.copy
  /\ range > Len(call.ranges)
  /\ outcome' = "ok"
  /\ UNCHANGED <<processVars, call, range, offset, buffer, matches>>

Scan ==
  \/ EmptyNeedle \/ CopyTooSmall \/ CopyByte \/ CopyFails \/ SearchWindow
  \/ EndOfRange \/ Finish

-----------------------------------------------------------------------------
(* Properties.                                                               *)

Extent(a) == a .. (a + N - 1)
InsideRange(r, a) == r.start <= a /\ a + N <= r.end
InsideOneRange(a) == \E i \in DOMAIN call.ranges : InsideRange(call.ranges[i], a)

(* The needle stands at a, and nothing wrote there since the scan began.     *)
Steady(a) ==
  /\ InsideOneRange(a)
  /\ Extent(a) \cap written = {}
  /\ \A k \in 1 .. N : mem[a + k - 1] = call.needle[k]

(* An occurrence that stood untouched inside one range is reported or starts *)
(* inside one that is, wherever the window borders fall and whatever is      *)
(* written around it.                                                        *)
SteadyOccurrencesFound ==
  outcome = "ok" /\ call.kind = "scan" /\ N > 0 =>
    \A a \in Addresses : Steady(a) => \E m \in matches : Covers(m, a)

(* What is reported lies inside one range, and bytes nothing wrote hold the  *)
(* needle's; a scan fails only on a byte that was unmapped when it was       *)
(* reached, and then reports nothing.                                        *)
ReportsHold ==
  /\ \A m \in matches :
       /\ InsideOneRange(m)
       /\ \A k \in 1 .. N : m + k - 1 \notin written => mem[m + k - 1] = call.needle[k]
  /\ outcome # "ok" /\ outcome # "pending" => matches = {}
  /\ outcome = "failed" /\ call.kind = "scan" =>
       \E i \in DOMAIN call.ranges :
         \E a \in call.ranges[i].start .. (call.ranges[i].end - 1) :
           mem[a] = Unmapped \/ a \in written
=============================================================================
