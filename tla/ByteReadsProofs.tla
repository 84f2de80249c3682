--------------------------- MODULE ByteReadsProofs ---------------------------
(***************************************************************************)
(* What holds of every bounded read of another process's bytes, whatever   *)
(* the memory, the needle, the copy bound, the ranges, the window size and *)
(* the number of writes: a scan misses no occurrence that stood and        *)
(* reports no other, a string is as it stands or refused for cause.        *)
(***************************************************************************)
EXTENDS ByteReads, OrderLemmas, SequenceTheorems

-----------------------------------------------------------------------------
(* The leftmost occurrences that do not overlap.                             *)

(* memmem::find_iter has a result for every window: the occurrences below    *)
(* any position can be chosen from left to right.                            *)
LEMMA FindIterExists ==
  ASSUME NEW window \in Seq(Bytes), N \in Nat \ {0}
  PROVE  /\ FindIter(window) \subseteq Occurrences(window)
         /\ \A k \in Occurrences(window) : Leftmost(FindIter(window), k)
<1> DEFINE O == Occurrences(window)
           Good == [n \in Nat |-> {F \in SUBSET O :
                      /\ \A m \in F : m < n
                      /\ \A k \in O : k < n => Leftmost(F, k)}]
           Bad == {n \in Nat : Good[n] = {}}
<1>1. Len(window) \in Nat
  BY LenProperties
<1>2. O \subseteq Nat /\ \A k \in O : k < Len(window) + 1
  BY <1>1 DEF Occurrences
<1>21. \A n \in Nat : \A F : F \in Good[n] <=>
         F \subseteq O /\ (\A m \in F : m < n) /\ (\A k \in O : k < n => Leftmost(F, k))
  OBVIOUS
<1> HIDE DEF O, Good
<1>20. /\ Bad \subseteq Nat
      /\ \A n \in Nat : n \in Bad <=> Good[n] = {}
  OBVIOUS
<1> HIDE DEF Bad
<1>3. ASSUME Bad # {} PROVE FALSE
  <2>1. PICK n \in Bad : \A j \in Bad : n <= j
    BY <1>3, <1>20, LeastNatural
  <2>2. n # 0
    <3>1. {} \in Good[0]
      <4>1. {} \subseteq O /\ (\A m \in {} : m < 0) /\ (\A k \in O : k < 0 => Leftmost({}, k))
        BY <1>2
      <4>2. 0 \in Nat
        OBVIOUS
      <4> QED
        BY <4>1, <4>2, <1>21, Zenon
    <3>2. 0 \notin Bad
      BY <3>1, <1>20
    <3> QED
      BY <3>2
  <2> DEFINE j == n - 1
  <2>3. j \in Nat /\ n = j + 1 /\ j \notin Bad
    <3>1. n \in Nat
      BY <1>20
    <3>2. j \in Nat /\ n = j + 1 /\ ~(n <= j)
      BY <2>2, <3>1
    <3> QED
      BY <2>1, <3>2
  <2>4. PICK F \in Good[j] : TRUE
    BY <2>3, <1>20
  <2> HIDE DEF j
  <2>41. F \subseteq O /\ (\A m \in F : m < j) /\ (\A k \in O : k < j => Leftmost(F, k))
    BY <2>3, <2>4, <1>21, Zenon
  <2> DEFINE G == IF j \in O /\ ~\E m \in F : Covers(m, j) THEN F \cup {j} ELSE F
  <2>5. /\ G \subseteq O /\ \A m \in G : m < n
    BY <1>2, <2>3, <2>41
  <2>6. F \subseteq G /\ \A m \in G : m \in F \/ m = j
    OBVIOUS
  <2>7. j \notin F /\ \A m \in F : m \in Nat /\ m < j
    BY <1>2, <2>3, <2>41
  <2>8. ASSUME NEW k \in O, k < j PROVE Leftmost(G, k)
    <3>1. Leftmost(F, k)
      BY <2>41, <2>8
    <3>2. ~Covers(j, k) /\ k # j
      BY <1>2, <2>3, <2>8 DEF Covers
    <3>3. k \in G <=> k \in F
      BY <2>6, <3>2
    <3>4. (\E m \in G : m # k /\ Covers(m, k)) <=> (\E m \in F : m # k /\ Covers(m, k))
      BY <2>6, <3>2
    <3> QED
      BY <3>1, <3>3, <3>4 DEF Leftmost
  <2>9. ASSUME j \in O PROVE Leftmost(G, j)
    <3>1. CASE \E m \in F : Covers(m, j)
      <4>1. G = F
        BY <3>1
      <4> QED
        BY <2>7, <3>1, <4>1 DEF Leftmost
    <3>2. CASE ~\E m \in F : Covers(m, j)
      <4>1. G = F \cup {j}
        BY <2>9, <3>2
      <4> QED
        BY <3>2, <4>1 DEF Leftmost
    <3> QED
      BY <3>1, <3>2
  <2> HIDE DEF G
  <2>10. \A k \in O : k < n => k < j \/ k = j
    <3>1. \A k \in Nat : k < j + 1 => k < j \/ k = j
      BY <2>3
    <3>2. n = j + 1 /\ O \subseteq Nat
      BY <1>2, <2>3
    <3> QED
      BY <3>1, <3>2
  <2>11. G \in Good[n]
    <3>1. n \in Nat
      BY <2>3
    <3>2. \A k \in O : k < n => Leftmost(G, k)
      BY <2>8, <2>9, <2>10
    <3>3. G \subseteq O /\ \A m \in G : m < n
      BY <2>5
    <3> QED
      BY <3>1, <3>2, <3>3, <1>21, Zenon
  <2> QED
    BY <1>20, <2>1, <2>11
<1>4. Len(window) + 1 \in Nat /\ Len(window) + 1 \notin Bad
  BY <1>1, <1>3
<1>5. PICK F \in Good[Len(window) + 1] : TRUE
  BY <1>4, <1>20
<1>6. F \in SUBSET O /\ \A k \in O : Leftmost(F, k)
  <2>1. F \subseteq O /\ (\A k \in O : k < Len(window) + 1 => Leftmost(F, k))
    BY <1>4, <1>5, <1>21, Zenon
  <2> QED
    BY <1>2, <2>1
<1>7. FindIter(window) = CHOOSE found \in SUBSET O : \A k \in O : Leftmost(found, k)
  BY Zenon DEF FindIter, O
<1>8. FindIter(window) \in SUBSET O /\ \A k \in O : Leftmost(FindIter(window), k)
  BY <1>6, <1>7, Zenon
<1> QED
  BY <1>8 DEF O

(* So every occurrence is chosen or starts inside one that is.               *)
LEMMA FindIterCovers ==
  ASSUME NEW window \in Seq(Bytes), N \in Nat \ {0}, NEW k \in Occurrences(window)
  PROVE  \E m \in FindIter(window) : m \in Nat /\ m + N <= Len(window) /\ Covers(m, k)
<1>1. /\ FindIter(window) \subseteq Occurrences(window)
      /\ Leftmost(FindIter(window), k)
  BY FindIterExists
<1>2. \A m \in Occurrences(window) : m \in Nat /\ m + N <= Len(window)
  BY LenProperties DEF Occurrences
<1>3. Covers(k, k)
  BY <1>2 DEF Covers
<1> QED
  BY <1>1, <1>2, <1>3 DEF Leftmost

-----------------------------------------------------------------------------
(* The inductive invariant.                                                  *)

(* Bytes copied hold what the process holds wherever nothing was written.    *)
CopiedFrom(start) ==
  \A k \in 1 .. Len(buffer) :
    start + k - 1 \notin written => mem[start + k - 1] = buffer[k]

(* A scan has a part of one window of one range in its buffer, if anything.  *)
ScanBuffer ==
  Called =>
    /\ buffer # <<>> => range <= Len(call.ranges) /\ InRange
    /\ range <= Len(call.ranges) =>
         /\ InRange => Len(buffer) <= Count
         /\ CopiedFrom(Current.start + offset)

(* Behind it, in this range and those before, every occurrence that stood    *)
(* was reported or starts inside one that was.                               *)
Stands(a) ==
  Extent(a) \cap written = {} /\ \A k \in 1 .. N : mem[a + k - 1] = call.needle[k]

Behind(i, a) == i < range \/ (i = range /\ a < Current.start + offset)

ScanFound ==
  Called /\ N > 0 =>
    \A i \in DOMAIN call.ranges : \A a \in Addresses :
      InsideRange(call.ranges[i], a) /\ Behind(i, a) /\ Stands(a) =>
        \E m \in matches : Covers(m, a)

(* Everything reported lies inside one range and held the needle.            *)
ScanMatches ==
  /\ \A m \in matches :
       /\ InsideOneRange(m)
       /\ \A k \in 1 .. N : m + k - 1 \notin written => mem[m + k - 1] = call.needle[k]
  /\ matches # {} => call.kind = "scan" /\ N > 0 /\ N <= call.copy

(* A text has the chunks before offset, none with a terminator, and a part   *)
(* of the next.                                                              *)
TextBuffer ==
  Reading =>
    /\ offset <= Len(buffer) /\ Len(buffer) <= call.limit
    /\ \A i \in 1 .. offset : buffer[i] # Nul
    /\ CopiedFrom(call.start)

Outcomes ==
  SteadyOccurrencesFound /\ ReportsHold /\ TextStood /\ TextRefusalExplained

IInv ==
  /\ BytesTypeOK
  /\ ScanBuffer /\ ScanFound /\ ScanMatches /\ TextBuffer
  /\ Outcomes

-----------------------------------------------------------------------------
(* Calls and windows.                                                        *)

LEMMA AddressesAreNaturals == Addresses \subseteq Nat
  BY BytesAssumption

LEMMA ScanIsNoText == "scan" \notin Texts
  BY DEF Texts

LEMMA ScanCall ==
  ASSUME call \in Calls, call.kind = "scan"
  PROVE  /\ N \in Nat /\ call.copy \in Nat \ {0}
         /\ Len(call.ranges) \in Nat /\ DOMAIN call.ranges = 1 .. Len(call.ranges)
         /\ \A i \in DOMAIN call.ranges :
              /\ call.ranges[i].start \in Nat /\ call.ranges[i].end \in Nat
              /\ call.ranges[i].start .. (call.ranges[i].end - 1) \subseteq Addresses
         /\ \A k \in 1 .. N : call.needle[k] \in Bytes
<1>1. /\ call.needle \in Seq(Bytes) /\ call.copy \in Nat \ {0}
      /\ call.ranges \in Seq([start : Nat, end : Nat])
      /\ \A i \in DOMAIN call.ranges :
           call.ranges[i].start .. (call.ranges[i].end - 1) \subseteq Addresses
  BY ScanAssumption
<1>2. N \in Nat /\ \A k \in 1 .. N : call.needle[k] \in Bytes
  BY <1>1, LenProperties DEF N
<1>3. Len(call.ranges) \in Nat /\ DOMAIN call.ranges = 1 .. Len(call.ranges)
  BY <1>1, LenProperties
<1>4. ASSUME NEW i \in DOMAIN call.ranges
      PROVE  call.ranges[i].start \in Nat /\ call.ranges[i].end \in Nat
  <2>1. call.ranges[i] \in [start : Nat, end : Nat]
    BY <1>1, <1>3, ElementOfSeq
  <2> QED
    BY <2>1
<1> QED
  BY <1>1, <1>2, <1>3, <1>4

LEMMA WindowBounds ==
  ASSUME call \in Calls, call.kind = "scan", offset \in Nat,
         range \in DOMAIN call.ranges, InRange
  PROVE  /\ Current.start \in Nat /\ Current.end \in Nat
         /\ Current.start .. (Current.end - 1) \subseteq Addresses
         /\ Remaining \in Nat \ {0} /\ Current.start + offset + Remaining = Current.end
         /\ Count \in Nat \ {0} /\ Count <= Remaining /\ Count <= call.copy
         /\ Remaining <= call.copy => Count = Remaining
         /\ call.copy <= Remaining => Count = call.copy
<1>1. /\ Current.start \in Nat /\ Current.end \in Nat
      /\ Current.start .. (Current.end - 1) \subseteq Addresses
  BY ScanCall DEF Current
<1>2. call.copy \in Nat \ {0}
  BY ScanCall
<1>3. RangeSize(Current) = IF Current.start < Current.end THEN Current.end - Current.start ELSE 0
  BY DEF RangeSize
<1>4. offset < RangeSize(Current)
  BY DEF InRange
<1>5. Current.start < Current.end /\ RangeSize(Current) = Current.end - Current.start
  BY <1>1, <1>3, <1>4
<1>6. Remaining \in Nat \ {0} /\ Current.start + offset + Remaining = Current.end
  BY <1>1, <1>4, <1>5 DEF Remaining
<1>7. Count = IF Remaining < call.copy THEN Remaining ELSE call.copy
  BY DEF Count, Smaller
<1> QED
  BY <1>1, <1>2, <1>6, <1>7

(* An operation under way has no outcome to show yet but what it reported.   *)
LEMMA OutcomesPending ==
  ASSUME outcome' = "pending", ScanMatches'
  PROVE  Outcomes'
  BY DEF Outcomes, SteadyOccurrencesFound, ReportsHold, TextStood, TextRefusalExplained, ScanMatches

LEMMA Initially == BytesInit => IInv
<1> SUFFICES ASSUME BytesInit PROVE IInv
  OBVIOUS
<1>1. /\ mem \in [Addresses -> Bytes \cup {Unmapped}] /\ call \in Calls
      /\ offset = 0 /\ buffer = <<>> /\ outcome = "pending" /\ range = 1 /\ matches = {}
      /\ writes = 0 /\ written = {}
  BY DEF BytesInit
<1>2. Len(buffer) = 0 /\ buffer \in Seq(Bytes)
  BY <1>1, EmptySeq
<1>3. call.kind = "scan" \/ call.kind \in Texts
  BY <1>1, CallAssumption
<1>4. call.kind = "scan" => call.copy \in Nat \ {0} /\ Len(call.ranges) \in Nat
  BY <1>1, ScanCall
<1>5. call.kind \in Texts => call.limit \in Nat \ {0}
  BY <1>1, TextAssumption
<1>6. BytesTypeOK
  <2>1. Len(buffer) <= IF call.kind = "scan" THEN call.copy ELSE call.limit
    BY <1>2, <1>3, <1>4, <1>5
  <2>2. call.kind = "scan" => range \in 1 .. (Len(call.ranges) + 1)
    BY <1>1, <1>4
  <2>3. writes \in 0 .. MaxWrites
    BY <1>1, BytesAssumption
  <2>4. /\ mem \in [Addresses -> Bytes \cup {Unmapped}] /\ call \in Calls /\ offset \in Nat
        /\ outcome \in {"pending", "ok", "toosmall", "failed", "missing"}
        /\ matches \subseteq Addresses /\ written \subseteq Addresses
    BY <1>1
  <2> QED
    BY <1>2, <2>1, <2>2, <2>3, <2>4 DEF BytesTypeOK
<1>7. \A a : CopiedFrom(a)
  BY <1>2 DEF CopiedFrom
<1>8. ScanBuffer
  <2>1. ASSUME Called, range <= Len(call.ranges), InRange PROVE Len(buffer) <= Count
    <3>1. call.kind = "scan" /\ range \in DOMAIN call.ranges
      BY <1>1, <2>1, ScanCall DEF Called
    <3> QED
      BY <1>1, <1>2, <2>1, <3>1, WindowBounds
  <2> QED
    BY <1>1, <1>7, <2>1 DEF ScanBuffer
<1>9. ScanFound
  <2> SUFFICES ASSUME Called, N > 0, NEW i \in DOMAIN call.ranges, NEW a \in Addresses,
                      InsideRange(call.ranges[i], a), Behind(i, a)
               PROVE  FALSE
    BY DEF ScanFound
  <2>1. i \in Nat \ {0} /\ call.ranges[i].start \in Nat /\ a \in Nat
    BY <1>1, ScanCall, AddressesAreNaturals DEF Called
  <2>2. i = 1 /\ a < call.ranges[i].start + 0
    BY <1>1, <2>1 DEF Behind, Current
  <2> QED
    BY <2>1, <2>2 DEF InsideRange
<1>10. ScanMatches
  BY <1>1 DEF ScanMatches
<1>11. TextBuffer
  <2>1. offset <= Len(buffer) /\ 1 .. offset = {}
    BY <1>1, <1>2
  <2> QED
    BY <1>2, <1>5, <1>7, <2>1 DEF TextBuffer, Reading
<1>12. Outcomes
  BY <1>1 DEF Outcomes, SteadyOccurrencesFound, ReportsHold, TextStood, TextRefusalExplained
<1> QED
  BY <1>6, <1>8, <1>9, <1>10, <1>11, <1>12 DEF IInv

-----------------------------------------------------------------------------
(* Steps of the process.                                                     *)

LEMMA InsideAddresses ==
  ASSUME call \in Calls, call.kind = "scan", NEW i \in DOMAIN call.ranges,
         NEW a \in Int, InsideRange(call.ranges[i], a), NEW k \in 1 .. N
  PROVE  a + k - 1 \in Addresses
<1>1. /\ N \in Nat /\ call.ranges[i].start \in Nat /\ call.ranges[i].end \in Nat
      /\ call.ranges[i].start .. (call.ranges[i].end - 1) \subseteq Addresses
  BY ScanCall
<1>2. call.ranges[i].start <= a /\ a + N <= call.ranges[i].end
  BY DEF InsideRange
<1>3. a + k - 1 \in call.ranges[i].start .. (call.ranges[i].end - 1)
  BY <1>1, <1>2
<1> QED
  BY <1>1, <1>3

LEMMA MatchesInside ==
  ASSUME BytesTypeOK, ScanMatches, NEW m \in matches
  PROVE  /\ call.kind = "scan" /\ N \in Nat /\ N > 0 /\ m \in Nat
         /\ \A k \in 1 .. N : m + k - 1 \in Addresses
<1>1. call.kind = "scan" /\ N > 0 /\ m \in Nat /\ call \in Calls
  BY AddressesAreNaturals DEF ScanMatches, BytesTypeOK
<1>2. PICK i \in DOMAIN call.ranges : InsideRange(call.ranges[i], m)
  BY DEF ScanMatches, InsideOneRange
<1> QED
  BY <1>1, <1>2, InsideAddresses, ScanCall

LEMMA WriteStep ==
  ASSUME IInv, WriteByte, UNCHANGED <<copyVars, scanVars>>
  PROVE  IInv'
<1>1. PICK w \in Addresses, b \in Bytes \cup {Unmapped} :
        /\ outcome = "pending" /\ writes < MaxWrites
        /\ mem' = [mem EXCEPT ![w] = b] /\ writes' = writes + 1
        /\ written' = written \cup {w}
  BY DEF WriteByte
<1>2. /\ call' = call /\ offset' = offset /\ buffer' = buffer /\ outcome' = outcome
      /\ range' = range /\ matches' = matches
  BY DEF copyVars, scanVars
<1>3. /\ BytesTypeOK /\ ScanBuffer /\ ScanFound /\ ScanMatches /\ TextBuffer
      /\ mem \in [Addresses -> Bytes \cup {Unmapped}] /\ call \in Calls /\ offset \in Nat
      /\ buffer \in Seq(Bytes)
  BY DEF IInv, BytesTypeOK
<1>4. /\ N' = N /\ (\A m, k : Covers(m, k)' <=> Covers(m, k))
      /\ \A a : InsideOneRange(a)' <=> InsideOneRange(a)
  BY <1>2 DEF N, Covers, InsideOneRange, InsideRange
<1>5. \A c \in Addresses : c \notin written' => c \notin written /\ mem'[c] = mem[c]
  BY <1>1, <1>3
<1>6. BytesTypeOK'
  <2>1. mem' \in [Addresses -> Bytes \cup {Unmapped}]
    BY <1>1, <1>3
  <2>2. writes' \in 0 .. MaxWrites
    BY <1>1, <1>3, BytesAssumption DEF BytesTypeOK
  <2>3. written' \subseteq Addresses
    BY <1>1, <1>3 DEF BytesTypeOK
  <2> QED
    BY <1>2, <1>3, <2>1, <2>2, <2>3 DEF BytesTypeOK
<1>7. ASSUME NEW s \in Nat, CopiedFrom(s), \A k \in 1 .. Len(buffer) : s + k - 1 \in Addresses
      PROVE  \A k \in 1 .. Len(buffer) : s + k - 1 \notin written' => mem'[s + k - 1] = buffer[k]
  BY <1>5, <1>7 DEF CopiedFrom
<1>8. ScanBuffer'
  <2>1. /\ Called' <=> Called
        /\ InRange' <=> InRange
        /\ Count' = Count /\ Current' = Current
    BY <1>2, <1>4 DEF Called, InRange, Count, Current, Remaining, RangeSize
  <2>2. ASSUME Called, range <= Len(call.ranges)
        PROVE  CopiedFrom(Current.start + offset)'
    <3>1. call.kind = "scan" /\ range \in DOMAIN call.ranges
      BY <1>3, <2>2, ScanCall DEF Called, BytesTypeOK
    <3>2. CopiedFrom(Current.start + offset) /\ Current.start \in Nat
      BY <1>3, <2>2, <3>1, ScanCall DEF ScanBuffer, Current
    <3>3. ASSUME NEW k \in 1 .. Len(buffer) PROVE (Current.start + offset) + k - 1 \in Addresses
      <4>1. InRange
        BY <1>3, <2>2, <3>3 DEF ScanBuffer
      <4>2. Len(buffer) <= Count /\ Len(buffer) \in Nat
        BY <1>3, <2>2, <4>1, LenProperties DEF ScanBuffer
      <4>3. /\ Current.start .. (Current.end - 1) \subseteq Addresses
            /\ Count \in Nat /\ Remaining \in Nat /\ Count <= Remaining /\ Current.end \in Nat
            /\ Current.start + offset + Remaining = Current.end
        BY <1>3, <3>1, <4>1, WindowBounds
      <4>4. (Current.start + offset) + k - 1 \in Current.start .. (Current.end - 1)
        BY <1>3, <3>2, <4>2, <4>3
      <4> QED
        BY <4>3, <4>4
    <3>4. Current.start + offset \in Nat
      BY <1>3, <3>2
    <3> QED
      BY <1>2, <1>7, <2>1, <3>2, <3>3, <3>4 DEF CopiedFrom
  <2> QED
    BY <1>2, <1>3, <2>1, <2>2 DEF ScanBuffer
<1>9. ScanFound'
  <2>0. Called' <=> Called
    BY <1>2 DEF Called
  <2> SUFFICES ASSUME Called, N > 0, NEW i \in DOMAIN call.ranges, NEW a \in Addresses,
                      InsideRange(call.ranges[i], a), Behind(i, a), Stands(a)'
               PROVE  \E m \in matches : Covers(m, a)
    BY <1>2, <1>4, <2>0 DEF ScanFound, InsideRange, Behind, Current
  <2>1. call.kind = "scan" /\ a \in Int /\ N \in Nat
    BY <1>3, AddressesAreNaturals, ScanCall DEF Called
  <2>2. Extent(a) \cap written = {}
    BY <1>1, <1>2, <1>4 DEF Stands, Extent
  <2>3. \A k \in 1 .. N : a + k - 1 \in Addresses
    BY <1>3, <2>1, InsideAddresses
  <2>4. ASSUME NEW k \in 1 .. N PROVE mem[a + k - 1] = call.needle[k]
    <3>1. mem'[a + k - 1] = call.needle[k]
      BY <1>2, <1>4 DEF Stands
    <3>2. a + k - 1 \notin written'
      <4>1. a + k - 1 \in Extent(a)
        BY <2>1 DEF Extent
      <4> QED
        BY <1>2, <1>4, <4>1 DEF Stands, Extent
    <3> QED
      BY <1>5, <2>3, <3>1, <3>2
  <2>5. Stands(a)
    BY <2>2, <2>4 DEF Stands
  <2> QED
    BY <1>3, <2>5 DEF ScanFound
<1>10. ScanMatches'
  <2>1. ASSUME NEW m \in matches, NEW k \in 1 .. N, m + k - 1 \notin written'
        PROVE  mem'[m + k - 1] = call.needle[k]
    BY <1>3, <1>5, <2>1, MatchesInside DEF ScanMatches
  <2> QED
    BY <1>2, <1>3, <1>4, <2>1 DEF ScanMatches
<1>11. TextBuffer'
  <2>1. Reading' <=> Reading
    BY <1>2 DEF Reading
  <2>2. ASSUME Reading PROVE CopiedFrom(call.start)'
    <3>1. /\ call.limit \in Nat /\ call.start \in Nat
          /\ call.start .. (call.start + call.limit - 1) \subseteq Addresses
      BY <1>3, <2>2, TextAssumption DEF Reading
    <3>2. Len(buffer) \in Nat /\ Len(buffer) <= call.limit /\ CopiedFrom(call.start)
      BY <1>3, <2>2, LenProperties DEF TextBuffer
    <3>3. \A k \in 1 .. Len(buffer) : call.start + k - 1 \in Addresses
      BY <3>1, <3>2
    <3> QED
      BY <1>2, <1>7, <3>1, <3>2, <3>3 DEF CopiedFrom
  <2> QED
    BY <1>2, <1>3, <2>1, <2>2 DEF TextBuffer
<1>12. Outcomes'
  BY <1>1, <1>2, <1>10, OutcomesPending
<1> QED
  BY <1>6, <1>8, <1>9, <1>10, <1>11, <1>12 DEF IInv

-----------------------------------------------------------------------------
(* Steps of a scan.                                                          *)

(* A scan keeps no text, and once it has returned it has nothing under copy. *)
LEMMA ScanLeavesText ==
  ASSUME call' = call, call.kind = "scan"
  PROVE  TextBuffer'
  BY ScanIsNoText DEF TextBuffer, Reading

LEMMA Returned ==
  ASSUME outcome' # "pending"
  PROVE  ScanBuffer' /\ ScanFound' /\ TextBuffer'
  BY DEF ScanBuffer, ScanFound, TextBuffer, Called, Reading

(* A step that neither writes nor reports leaves what is reported as it was. *)
LEMMA SameMatches ==
  ASSUME ScanMatches, processVars' = processVars, call' = call, matches' = matches
  PROVE  ScanMatches'
  BY DEF ScanMatches, InsideOneRange, InsideRange, N, processVars

LEMMA EmptyNeedleStep ==
  ASSUME IInv, EmptyNeedle
  PROVE  IInv'
<1>1. /\ BytesTypeOK /\ ScanMatches /\ call.kind = "scan" /\ N = 0
      /\ UNCHANGED <<mem, writes, written, call, range, offset, buffer, matches>>
      /\ outcome' = "ok"
  BY DEF IInv, EmptyNeedle, Called, processVars
<1>2. BytesTypeOK'
  BY <1>1 DEF BytesTypeOK
<1>3. ScanMatches'
  BY <1>1, SameMatches DEF processVars
<1>4. N' = 0
  BY <1>1 DEF N
<1>5. Outcomes'
  <2>1. SteadyOccurrencesFound'
    BY <1>4 DEF SteadyOccurrencesFound
  <2>2. ReportsHold'
    BY <1>1, <1>3 DEF ReportsHold, ScanMatches
  <2>3. TextStood' /\ TextRefusalExplained'
    BY <1>1, ScanIsNoText DEF TextStood, TextRefusalExplained
  <2> QED
    BY <2>1, <2>2, <2>3 DEF Outcomes
<1> QED
  BY <1>1, <1>2, <1>3, <1>5, Returned DEF IInv

LEMMA CopyTooSmallStep ==
  ASSUME IInv, CopyTooSmall
  PROVE  IInv'
<1>1. /\ BytesTypeOK /\ ScanMatches /\ call \in Calls /\ call.kind = "scan" /\ N > call.copy
      /\ UNCHANGED <<mem, writes, written, call, range, offset, buffer, matches>>
      /\ outcome' = "toosmall"
  BY DEF IInv, BytesTypeOK, CopyTooSmall, Called, processVars
<1>2. BytesTypeOK'
  BY <1>1 DEF BytesTypeOK
<1>3. ScanMatches'
  BY <1>1, SameMatches DEF processVars
<1>4. matches' = {}
  BY <1>1, ScanCall DEF ScanMatches
<1>5. Outcomes'
  <2>1. SteadyOccurrencesFound'
    BY <1>1 DEF SteadyOccurrencesFound
  <2>2. ReportsHold'
    BY <1>1, <1>3, <1>4 DEF ReportsHold, ScanMatches
  <2>3. TextStood' /\ TextRefusalExplained'
    BY <1>1, ScanIsNoText DEF TextStood, TextRefusalExplained
  <2> QED
    BY <2>1, <2>2, <2>3 DEF Outcomes
<1> QED
  BY <1>1, <1>2, <1>3, <1>5, Returned DEF IInv

(* The byte the copy takes next is one the process could name.               *)
LEMMA CursorInRange ==
  ASSUME BytesTypeOK, Scanning, InRange, Len(buffer) < Count
  PROVE  /\ range \in DOMAIN call.ranges
         /\ Cursor \in Current.start .. (Current.end - 1)
         /\ Cursor \in Addresses
<1>1. /\ call \in Calls /\ call.kind = "scan" /\ offset \in Nat
      /\ range \in DOMAIN call.ranges /\ Len(buffer) \in Nat
  BY ScanCall, LenProperties DEF BytesTypeOK, Scanning, Called
<1>2. /\ Current.start \in Nat /\ Current.end \in Nat
      /\ Current.start .. (Current.end - 1) \subseteq Addresses
      /\ Count \in Nat /\ Remaining \in Nat /\ Count <= Remaining
      /\ Current.start + offset + Remaining = Current.end
  BY <1>1, WindowBounds
<1>3. Cursor = Current.start + offset + Len(buffer)
  BY DEF Cursor
<1>4. Cursor \in Current.start .. (Current.end - 1)
  BY <1>1, <1>2, <1>3
<1> QED
  BY <1>1, <1>2, <1>4

LEMMA CopyByteStep ==
  ASSUME IInv, CopyByte
  PROVE  IInv'
<1>1. /\ BytesTypeOK /\ ScanBuffer /\ ScanFound /\ ScanMatches
      /\ call \in Calls /\ call.kind = "scan" /\ offset \in Nat /\ outcome = "pending"
      /\ buffer \in Seq(Bytes) /\ mem \in [Addresses -> Bytes \cup {Unmapped}]
  BY DEF IInv, BytesTypeOK, CopyByte, Scanning, Called
<1>2. /\ Scanning /\ InRange /\ Len(buffer) < Count /\ mem[Cursor] # Unmapped
      /\ buffer' = Append(buffer, mem[Cursor])
      /\ UNCHANGED <<mem, writes, written, call, range, offset, matches, outcome>>
  BY DEF CopyByte, processVars
<1>3. /\ range \in DOMAIN call.ranges /\ Cursor \in Addresses
  BY <1>1, <1>2, CursorInRange
<1>4. mem[Cursor] \in Bytes
  BY <1>1, <1>2, <1>3
<1>5. /\ buffer' \in Seq(Bytes) /\ Len(buffer) \in Nat /\ Len(buffer') = Len(buffer) + 1
      /\ \A k \in 1 .. Len(buffer) : buffer'[k] = buffer[k]
      /\ buffer'[Len(buffer) + 1] = mem[Cursor]
  BY <1>1, <1>2, <1>4, AppendProperties, LenProperties
<1>6. Current.start \in Nat /\ Count \in Nat /\ Count <= call.copy /\ call.copy \in Nat
  BY <1>1, <1>2, <1>3, WindowBounds, ScanCall
<1>7. BytesTypeOK'
  <2>1. Len(buffer') <= call.copy
    BY <1>2, <1>5, <1>6
  <2> QED
    BY <1>1, <1>2, <1>5, <2>1 DEF BytesTypeOK
<1>8. /\ Called' <=> Called
      /\ InRange' <=> InRange
      /\ Count' = Count /\ Current' = Current /\ N' = N
  BY <1>2 DEF Called, InRange, Count, Current, Remaining, RangeSize, N
<1>9. CopiedFrom(Current.start + offset)'
  <2> DEFINE s == Current.start + offset
  <2>1. CopiedFrom(s) /\ s \in Nat /\ Cursor = s + Len(buffer)
    BY <1>1, <1>2, <1>6 DEF ScanBuffer, Scanning, Cursor
  <2>2. s' = s
    BY <1>2, <1>8
  <2> HIDE DEF s
  <2>3. ASSUME NEW k \in 1 .. Len(buffer), s + k - 1 \notin written
        PROVE  mem[s + k - 1] = buffer'[k]
    BY <1>5, <2>1, <2>3 DEF CopiedFrom
  <2>4. s + (Len(buffer) + 1) - 1 = Cursor
    BY <1>5, <2>1
  <2>5. ASSUME NEW k \in 1 .. Len(buffer'), s + k - 1 \notin written
        PROVE  mem[s + k - 1] = buffer'[k]
    <3>1. CASE k \in 1 .. Len(buffer)
      BY <2>3, <2>5, <3>1
    <3>2. CASE k = Len(buffer) + 1
      BY <1>5, <2>4, <3>2
    <3> QED
      BY <1>5, <3>1, <3>2
  <2>6. CopiedFrom(s)'
    BY <1>2, <2>2, <2>5 DEF CopiedFrom
  <2> QED
    BY <2>6 DEF s
<1>10. ScanBuffer'
  BY <1>2, <1>5, <1>6, <1>8, <1>9 DEF ScanBuffer, Scanning
<1>11. ScanFound'
  BY <1>1, <1>2, <1>8 DEF ScanFound, InsideRange, Behind, Stands, Extent, Covers
<1>12. ScanMatches'
  BY <1>1, <1>2, SameMatches DEF processVars
<1>13. Outcomes'
  BY <1>1, <1>2, <1>12, OutcomesPending
<1> QED
  BY <1>1, <1>2, <1>7, <1>10, <1>11, <1>12, <1>13, ScanLeavesText DEF IInv

LEMMA CopyFailsStep ==
  ASSUME IInv, CopyFails
  PROVE  IInv'
<1>1. /\ BytesTypeOK /\ call.kind = "scan"
      /\ Scanning /\ InRange /\ Len(buffer) < Count /\ mem[Cursor] = Unmapped
      /\ outcome' = "failed" /\ matches' = {}
      /\ UNCHANGED <<mem, writes, written, call, range, offset, buffer>>
  BY DEF IInv, CopyFails, Scanning, Called, processVars
<1>2. BytesTypeOK'
  BY <1>1 DEF BytesTypeOK
<1>3. ScanMatches'
  BY <1>1 DEF ScanMatches
<1>4. \E i \in DOMAIN call.ranges :
        \E a \in call.ranges[i].start .. (call.ranges[i].end - 1) : mem[a] = Unmapped \/ a \in written
  <2>1. range \in DOMAIN call.ranges /\ Cursor \in Current.start .. (Current.end - 1)
    BY <1>1, CursorInRange
  <2>2. Cursor \in call.ranges[range].start .. (call.ranges[range].end - 1)
    BY <2>1 DEF Current
  <2> QED
    BY <1>1, <2>1, <2>2, Zenon
<1>5. Outcomes'
  <2>1. SteadyOccurrencesFound'
    BY <1>1 DEF SteadyOccurrencesFound
  <2>2. ReportsHold'
    BY <1>1, <1>4 DEF ReportsHold
  <2>3. TextStood' /\ TextRefusalExplained'
    BY <1>1, ScanIsNoText DEF TextStood, TextRefusalExplained
  <2> QED
    BY <2>1, <2>2, <2>3 DEF Outcomes
<1> QED
  BY <1>1, <1>2, <1>3, <1>5, Returned DEF IInv

(* The distance between two windows.                                         *)
LEMMA StepBounds ==
  ASSUME N \in Nat \ {0}, call.copy \in Nat \ {0}, N <= call.copy
  PROVE  Step \in Nat \ {0} /\ Step + N = call.copy + 1
  BY DEF Step, Overlap

(* What an occurrence in a window is.                                        *)
LEMMA OccurrenceInWindow ==
  ASSUME NEW window \in Seq(Bytes), call.needle \in Seq(Bytes), NEW k \in Nat
  PROVE  k \in Occurrences(window) <=>
           k + N <= Len(window) /\ \A j \in 1 .. N : window[k + j] = call.needle[j]
<1>1. /\ N \in Nat /\ N = Len(call.needle) /\ Len(window) \in Nat
      /\ call.needle = [j \in 1 .. N |-> call.needle[j]]
  BY LenProperties DEF N
<1>2. CASE k + N <= Len(window)
  <2>1. /\ SubSeq(window, k + 1, k + N) = [j \in 1 .. N |-> window[k + j]]
    BY <1>1, <1>2
  <2>2. SubSeq(window, k + 1, k + N) = call.needle <=>
          \A j \in 1 .. N : window[k + j] = call.needle[j]
    BY <1>1, <2>1
  <2>3. k \in 0 .. Len(window)
    BY <1>1, <1>2
  <2> QED
    BY <1>2, <2>2, <2>3 DEF Occurrences
<1>3. CASE ~(k + N <= Len(window))
  BY <1>3 DEF Occurrences
<1> QED
  BY <1>2, <1>3

(* What a window adds to what is reported: it stood in the buffer, and every *)
(* occurrence in it that starts before the next window is covered.           *)
LEMMA WindowReported ==
  ASSUME IInv, Scanning, InRange, Len(buffer) = Count, NEW a \in Pushed
  PROVE  /\ range \in DOMAIN call.ranges /\ InsideRange(Current, a) /\ a \in Nat
         /\ \A j \in 1 .. N : a + j - 1 \notin written => mem[a + j - 1] = call.needle[j]
<1>1. /\ call \in Calls /\ call.kind = "scan" /\ offset \in Nat /\ Called
      /\ range \in DOMAIN call.ranges /\ buffer \in Seq(Bytes) /\ Len(buffer) \in Nat
      /\ N \in Nat \ {0} /\ call.needle \in Seq(Bytes)
  BY ScanCall, ScanAssumption, LenProperties DEF IInv, BytesTypeOK, Scanning, Called
<1>2. /\ Current.start \in Nat /\ Current.end \in Nat /\ Count \in Nat /\ Remaining \in Nat
      /\ Count <= Remaining /\ Current.start + offset + Remaining = Current.end
  BY <1>1, WindowBounds
<1>3. CopiedFrom(Current.start + offset)
  BY <1>1 DEF IInv, ScanBuffer, Scanning
<1>4. PICK k \in FindIter(buffer) : a = Current.start + (offset + k)
  BY DEF Pushed, AbsoluteOffset
<1>5. k \in Occurrences(buffer) /\ k \in Nat
  BY <1>1, <1>4, FindIterExists DEF Occurrences
<1>6. k + N <= Len(buffer) /\ \A j \in 1 .. N : buffer[k + j] = call.needle[j]
  BY <1>1, <1>5, OccurrenceInWindow
<1>7. InsideRange(Current, a) /\ a \in Nat
  BY <1>1, <1>2, <1>4, <1>5, <1>6 DEF InsideRange
<1>8. ASSUME NEW j \in 1 .. N, a + j - 1 \notin written
      PROVE  mem[a + j - 1] = call.needle[j]
  <2>1. /\ k + j \in 1 .. Len(buffer)
        /\ a + j - 1 = (Current.start + offset) + (k + j) - 1
    <3>1. N \in Nat /\ j \in Nat \ {0} /\ j <= N /\ k \in Nat /\ Len(buffer) \in Nat
      BY <1>1, <1>5
    <3>2. k + j \in 1 .. Len(buffer)
      BY <1>6, <3>1
    <3>3. Current.start \in Nat /\ offset \in Nat /\ a = Current.start + (offset + k)
      BY <1>1, <1>2, <1>4
    <3>4. a + j - 1 = (Current.start + offset) + (k + j) - 1
      BY <3>1, <3>3
    <3> QED
      BY <3>2, <3>4
  <2>2. mem[(Current.start + offset) + (k + j) - 1] = buffer[k + j]
    BY <1>3, <1>8, <2>1 DEF CopiedFrom
  <2> QED
    BY <1>6, <2>1, <2>2
<1> QED
  BY <1>1, <1>7, <1>8

LEMMA WindowCovered ==
  ASSUME IInv, Scanning, InRange, Len(buffer) = Count,
         NEW a \in Nat, InsideRange(Current, a), Stands(a),
         Current.start + offset <= a, a < Current.start + offset + Step
  PROVE  \E m \in Pushed : Covers(m, a)
<1>1. /\ call \in Calls /\ call.kind = "scan" /\ offset \in Nat /\ Called
      /\ range \in DOMAIN call.ranges /\ buffer \in Seq(Bytes) /\ Len(buffer) \in Nat
      /\ N \in Nat \ {0} /\ call.needle \in Seq(Bytes)
      /\ N <= call.copy /\ call.copy \in Nat \ {0}
  BY ScanCall, ScanAssumption, LenProperties DEF IInv, BytesTypeOK, Scanning, Called
<1>2. /\ Current.start \in Nat /\ Current.end \in Nat /\ Count \in Nat /\ Remaining \in Nat
      /\ Count <= Remaining /\ Current.start + offset + Remaining = Current.end
      /\ Remaining <= call.copy => Count = Remaining
      /\ call.copy <= Remaining => Count = call.copy
  BY <1>1, WindowBounds
<1>3. Step \in Nat \ {0} /\ Step + N = call.copy + 1
  BY <1>1, StepBounds
<1>4. CopiedFrom(Current.start + offset)
  BY <1>1 DEF IInv, ScanBuffer, Scanning
<1> DEFINE base == Current.start + offset
           k == a - base
<1>5. base \in Nat /\ k \in Nat /\ a = base + k /\ k < Step
  <2>1. base \in Nat /\ Step \in Nat /\ a \in Nat /\ base <= a /\ a < base + Step
    BY <1>1, <1>2, <1>3
  <2> QED
    BY <2>1
<1>6. k + N <= Count
  <2>1. k + N <= Remaining
    BY <1>1, <1>2 DEF InsideRange
  <2>2. k + N <= call.copy
    BY <1>1, <1>3, <1>5
  <2> QED
    BY <1>1, <1>2, <2>1, <2>2
<1>7. base = Current.start + offset
  OBVIOUS
<1> HIDE DEF base, k
<1>8. ASSUME NEW j \in 1 .. N PROVE buffer[k + j] = call.needle[j]
  <2>1. /\ k + j \in 1 .. Len(buffer) /\ base + (k + j) - 1 = a + j - 1
        /\ a + j - 1 \in Extent(a)
    BY <1>1, <1>5, <1>6 DEF Extent
  <2>2. a + j - 1 \notin written /\ mem[a + j - 1] = call.needle[j]
    BY <2>1 DEF Stands
  <2> QED
    BY <1>4, <1>7, <2>1, <2>2 DEF CopiedFrom
<1>9. k \in Occurrences(buffer)
  BY <1>1, <1>5, <1>6, <1>8, OccurrenceInWindow
<1>10. PICK m \in FindIter(buffer) : m \in Nat /\ m + N <= Len(buffer) /\ Covers(m, k)
  BY <1>1, <1>9, FindIterCovers
<1>11. m < CandidateEnd
  BY <1>1, <1>2, <1>3, <1>5, <1>6, <1>10 DEF CandidateEnd, Covers
<1>12. Current.start + (offset + m) \in Pushed
  BY <1>10, <1>11 DEF Pushed, AbsoluteOffset
<1>13. Covers(Current.start + (offset + m), a)
  <2>1. m <= k /\ k < m + N /\ m \in Nat /\ N \in Nat
    BY <1>1, <1>10 DEF Covers
  <2>2. k \in Nat /\ base \in Nat /\ Current.start \in Nat /\ offset \in Nat
    BY <1>1, <1>2, <1>5
  <2>3. Current.start + (offset + m) = base + m
    BY <1>7, <2>1, <2>2
  <2>4. base + m <= base + k /\ base + k < base + m + N
    BY <2>1, <2>2
  <2> QED
    BY <1>5, <2>3, <2>4 DEF Covers
<1> QED
  BY <1>12, <1>13

LEMMA SearchWindowStep ==
  ASSUME IInv, SearchWindow
  PROVE  IInv'
<1>1. /\ BytesTypeOK /\ ScanBuffer /\ ScanFound /\ ScanMatches
      /\ call \in Calls /\ call.kind = "scan" /\ offset \in Nat /\ outcome = "pending"
      /\ Scanning /\ InRange /\ Len(buffer) = Count /\ Called
      /\ range \in DOMAIN call.ranges /\ N \in Nat \ {0} /\ N <= call.copy
      /\ call.copy \in Nat \ {0}
  BY ScanCall DEF IInv, BytesTypeOK, SearchWindow, Scanning, Called
<1>2. /\ matches' = matches \cup Pushed /\ offset' = offset + Step /\ buffer' = <<>>
      /\ UNCHANGED <<mem, writes, written, call, range, outcome>>
  BY DEF SearchWindow, NextWindow, processVars
<1>3. Step \in Nat \ {0}
  BY <1>1, StepBounds
<1>4. /\ \A m \in Pushed : InsideRange(Current, m) /\ m \in Nat
      /\ \A m \in Pushed : \A j \in 1 .. N :
           m + j - 1 \notin written => mem[m + j - 1] = call.needle[j]
  BY <1>1, WindowReported
<1>5. Current.start \in Nat /\ Current.end \in Nat
      /\ Current.start .. (Current.end - 1) \subseteq Addresses
  BY <1>1, WindowBounds
<1>6. N' = N /\ Current' = Current /\ (Called' <=> Called)
  BY <1>2 DEF N, Current, Called
<1>7. buffer' \in Seq(Bytes) /\ Len(buffer') = 0 /\ offset' \in Nat
  BY <1>1, <1>2, <1>3, EmptySeq
<1>8. BytesTypeOK'
  <2>1. ASSUME NEW m \in Pushed PROVE m \in Addresses
    <3>1. m \in Current.start .. (Current.end - 1)
      BY <1>1, <1>4, <1>5 DEF InsideRange
    <3> QED
      BY <1>5, <3>1
  <2>2. matches' \subseteq Addresses
    BY <1>1, <1>2, <2>1 DEF BytesTypeOK
  <2>3. Len(buffer') <= IF call'.kind = "scan" THEN call'.copy ELSE call'.limit
    BY <1>1, <1>2, <1>7
  <2> QED
    BY <1>1, <1>2, <1>7, <2>2, <2>3 DEF BytesTypeOK
<1>9. ScanBuffer'
  <2>1. CopiedFrom(Current.start + offset)'
    BY <1>7 DEF CopiedFrom
  <2>2. ASSUME InRange' PROVE Len(buffer') <= Count'
    <3>1. RangeSize(Current)' \in Nat
      BY <1>5, <1>6 DEF RangeSize
    <3>2. offset' < RangeSize(Current)'
      BY <2>2 DEF InRange
    <3>3. Remaining' \in Nat
      BY <1>7, <3>1, <3>2 DEF Remaining
    <3> QED
      BY <1>1, <1>2, <1>7, <3>3 DEF Count, Smaller
  <2> QED
    BY <1>2, <2>1, <2>2 DEF ScanBuffer
<1>10. ScanFound'
  <2> SUFFICES ASSUME NEW i \in DOMAIN call.ranges, NEW a \in Addresses,
                      InsideRange(call.ranges[i], a), Behind(i, a)', Stands(a)
               PROVE  \E m \in matches \cup Pushed : Covers(m, a)
    BY <1>2, <1>6 DEF ScanFound, InsideRange, Stands, Extent, Covers
  <2>1. CASE Behind(i, a)
    BY <1>1, <2>1 DEF ScanFound
  <2>2. CASE ~Behind(i, a)
    <3>1. i = range /\ a < Current.start + (offset + Step)
      BY <1>2, <1>6, <2>2 DEF Behind
    <3>2. a \in Nat
      BY AddressesAreNaturals
    <3>3. Current.start + offset <= a
      BY <1>1, <1>5, <2>2, <3>1, <3>2 DEF Behind
    <3>4. a < Current.start + offset + Step
      BY <1>1, <1>3, <1>5, <3>1
    <3>5. InsideRange(Current, a)
      BY <3>1 DEF Current
    <3> QED
      BY <1>1, <3>2, <3>3, <3>4, <3>5, WindowCovered
  <2> QED
    BY <2>1, <2>2
<1>11. ScanMatches'
  <2>1. \A m \in Pushed : InsideOneRange(m)
    BY <1>1, <1>4 DEF InsideOneRange, Current
  <2>2. \A m \in matches' : InsideOneRange(m)
    BY <1>1, <1>2, <2>1 DEF ScanMatches
  <2>3. \A m \in matches' : InsideOneRange(m)'
    BY <1>2, <1>6, <2>2 DEF InsideOneRange, InsideRange
  <2>4. \A m \in matches' : \A j \in 1 .. N :
          m + j - 1 \notin written => mem[m + j - 1] = call.needle[j]
    BY <1>1, <1>2, <1>4 DEF ScanMatches
  <2> QED
    BY <1>1, <1>2, <1>6, <2>3, <2>4 DEF ScanMatches
<1>12. Outcomes'
  BY <1>1, <1>2, <1>11, OutcomesPending
<1> QED
  BY <1>1, <1>2, <1>8, <1>9, <1>10, <1>11, <1>12, ScanLeavesText DEF IInv

LEMMA EndOfRangeStep ==
  ASSUME IInv, EndOfRange
  PROVE  IInv'
<1>1. /\ BytesTypeOK /\ ScanBuffer /\ ScanFound /\ ScanMatches
      /\ call \in Calls /\ call.kind = "scan" /\ offset \in Nat /\ outcome = "pending"
      /\ Scanning /\ ~InRange /\ Called /\ N \in Nat \ {0} /\ call.copy \in Nat \ {0}
      /\ range \in DOMAIN call.ranges /\ range \in Nat /\ Len(call.ranges) \in Nat
      /\ DOMAIN call.ranges = 1 .. Len(call.ranges)
  BY ScanCall DEF IInv, BytesTypeOK, EndOfRange, Scanning, Called
<1>2. /\ range' = range + 1 /\ offset' = 0
      /\ UNCHANGED <<mem, writes, written, call, buffer, matches, outcome>>
  BY DEF EndOfRange, processVars
<1>3. N' = N /\ (Called' <=> Called)
  BY <1>2 DEF N, Called
<1>4. buffer = <<>> /\ Len(buffer) = 0
  BY <1>1 DEF ScanBuffer
<1>5. BytesTypeOK'
  BY <1>1, <1>2 DEF BytesTypeOK
<1>6. ScanBuffer'
  <2>1. CopiedFrom(Current.start + offset)'
    BY <1>2, <1>4 DEF CopiedFrom
  <2>2. ASSUME range' <= Len(call.ranges), InRange' PROVE Len(buffer') <= Count'
    <3>1. range' \in DOMAIN call.ranges /\ Current' = call.ranges[range']
      BY <1>1, <1>2, <2>2 DEF Current
    <3>2. Current'.start \in Nat /\ Current'.end \in Nat
      BY <1>1, <3>1, ScanCall
    <3>3. RangeSize(Current)' \in Nat
      BY <3>2 DEF RangeSize
    <3>4. offset' < RangeSize(Current)'
      BY <2>2 DEF InRange
    <3>5. Remaining' \in Nat
      BY <1>2, <3>3, <3>4 DEF Remaining
    <3> QED
      BY <1>1, <1>2, <1>4, <3>5 DEF Count, Smaller
  <2> QED
    BY <1>2, <1>4, <2>1, <2>2 DEF ScanBuffer
<1>7. ScanFound'
  <2> SUFFICES ASSUME NEW i \in DOMAIN call.ranges, NEW a \in Addresses,
                      InsideRange(call.ranges[i], a), Behind(i, a)', Stands(a)
               PROVE  \E m \in matches : Covers(m, a)
    BY <1>2, <1>3 DEF ScanFound, InsideRange, Stands, Extent, Covers
  <2>1. /\ i \in Nat /\ a \in Nat
        /\ call.ranges[i].start \in Nat /\ call.ranges[i].end \in Nat
    BY <1>1, ScanCall, AddressesAreNaturals
  <2>2. call.ranges[i].start <= a /\ a + N <= call.ranges[i].end
    BY DEF InsideRange
  <2>3. i <= range
    <3>1. i < range' \/ (i = range' /\ a < call.ranges[i].start + 0)
      BY <1>2 DEF Behind, Current
    <3> QED
      BY <1>1, <1>2, <2>1, <2>2, <3>1
  <2>4. ASSUME i = range PROVE a < Current.start + offset
    <3>1. ~(offset < RangeSize(call.ranges[i]))
      BY <1>1, <2>4 DEF InRange, Current
    <3>2. RangeSize(call.ranges[i]) = call.ranges[i].end - call.ranges[i].start
      BY <1>1, <2>1, <2>2 DEF RangeSize
    <3>3. a < call.ranges[i].start + offset
      BY <1>1, <2>1, <2>2, <3>1, <3>2
    <3> QED
      BY <2>4, <3>3 DEF Current
  <2>5. Behind(i, a)
    BY <1>1, <2>1, <2>3, <2>4 DEF Behind
  <2> QED
    BY <1>1, <2>5 DEF ScanFound
<1>8. ScanMatches'
  BY <1>1, <1>2, SameMatches DEF processVars
<1>9. Outcomes'
  BY <1>1, <1>2, <1>8, OutcomesPending
<1> QED
  BY <1>1, <1>2, <1>5, <1>6, <1>7, <1>8, <1>9, ScanLeavesText DEF IInv

LEMMA FinishStep ==
  ASSUME IInv, Finish
  PROVE  IInv'
<1>1. /\ BytesTypeOK /\ ScanFound /\ ScanMatches
      /\ call \in Calls /\ call.kind = "scan" /\ Called /\ N > 0
      /\ range > Len(call.ranges) /\ range \in Nat /\ Len(call.ranges) \in Nat
      /\ DOMAIN call.ranges = 1 .. Len(call.ranges)
  BY ScanCall DEF IInv, BytesTypeOK, Finish, Called
<1>2. /\ outcome' = "ok"
      /\ UNCHANGED <<mem, writes, written, call, range, offset, buffer, matches>>
  BY DEF Finish, processVars
<1>3. BytesTypeOK'
  BY <1>1, <1>2 DEF BytesTypeOK
<1>4. ScanMatches'
  BY <1>1, <1>2, SameMatches DEF processVars
<1>5. Outcomes'
  <2>1. SteadyOccurrencesFound'
    <3>1. ASSUME NEW a \in Addresses, Steady(a) PROVE \E m \in matches : Covers(m, a)
      <4>1. PICK i \in DOMAIN call.ranges : InsideRange(call.ranges[i], a)
        BY <3>1 DEF Steady, InsideOneRange
      <4>2. Behind(i, a) /\ Stands(a)
        BY <1>1, <3>1 DEF Behind, Stands, Steady
      <4> QED
        BY <1>1, <4>1, <4>2 DEF ScanFound
    <3> QED
      BY <1>2, <3>1
         DEF SteadyOccurrencesFound, Steady, InsideOneRange, InsideRange, Extent, Covers, N
  <2>2. ReportsHold'
    BY <1>2, <1>4 DEF ReportsHold, ScanMatches
  <2>3. TextStood' /\ TextRefusalExplained'
    BY <1>1, <1>2, ScanIsNoText DEF TextStood, TextRefusalExplained
  <2> QED
    BY <2>1, <2>2, <2>3 DEF Outcomes
<1> QED
  BY <1>2, <1>3, <1>4, <1>5, Returned DEF IInv

-----------------------------------------------------------------------------
(* Steps of a string.                                                        *)

LEMMA TextCall ==
  ASSUME call \in Calls, call.kind \in Texts
  PROVE  /\ call.kind # "scan"
         /\ call.limit \in Nat \ {0} /\ call.start \in Nat
         /\ call.start .. (call.start + call.limit - 1) \subseteq Addresses
         /\ Bound = call.start .. (call.start + call.limit - 1)
         /\ Nul \in Bytes
  BY TextAssumption, ScanIsNoText DEF Bound

(* A string's operation reports no match and has no window of a range.       *)
LEMMA TextLeavesScan ==
  ASSUME ScanMatches, call' = call, matches' = matches, call.kind \in Texts
  PROVE  ScanBuffer' /\ ScanFound' /\ ScanMatches' /\ matches' = {}
<1>1. matches = {} /\ ~Called'
  BY ScanIsNoText DEF ScanMatches, Called
<1> QED
  BY <1>1 DEF ScanBuffer, ScanFound, ScanMatches

(* What a string under copy is.                                              *)
LEMMA TextUnderCopy ==
  ASSUME IInv, Reading
  PROVE  /\ call \in Calls /\ call.kind \in Texts /\ outcome = "pending"
         /\ offset \in Nat /\ buffer \in Seq(Bytes) /\ Len(buffer) \in Nat
         /\ offset <= Len(buffer) /\ Len(buffer) <= call.limit
         /\ \A k \in 1 .. offset : buffer[k] # Nul
         /\ \A k \in 1 .. Len(buffer) :
              call.start + k - 1 \notin written => mem[call.start + k - 1] = buffer[k]
         /\ \A k \in 1 .. Len(buffer) : buffer[k] = Nul => k \in Terminators
<1>1. /\ call \in Calls /\ call.kind \in Texts /\ outcome = "pending"
      /\ offset \in Nat /\ buffer \in Seq(Bytes) /\ Len(buffer) \in Nat
  BY LenProperties DEF IInv, BytesTypeOK, Reading
<1>2. /\ offset <= Len(buffer) /\ Len(buffer) <= call.limit
      /\ \A k \in 1 .. offset : buffer[k] # Nul
      /\ \A k \in 1 .. Len(buffer) :
           call.start + k - 1 \notin written => mem[call.start + k - 1] = buffer[k]
  BY DEF IInv, TextBuffer, CopiedFrom
<1>3. ASSUME NEW k \in 1 .. Len(buffer), buffer[k] = Nul PROVE k \in Terminators
  <2>1. k \notin 1 .. offset
    BY <1>2, <1>3
  <2>2. k \in (offset + 1) .. Len(buffer)
    BY <1>1, <2>1
  <2> QED
    BY <1>3, <2>2 DEF Terminators
<1> QED
  BY <1>1, <1>2, <1>3

(* The first terminator of a chunk is the first of the string.               *)
LEMMA FirstTerminator ==
  ASSUME IInv, Reading, Terminators # {}
  PROVE  /\ FirstNul \in 1 .. Len(buffer) /\ buffer[FirstNul] = Nul
         /\ \A k \in 1 .. (FirstNul - 1) : buffer[k] # Nul
<1>1. /\ offset \in Nat /\ Len(buffer) \in Nat
      /\ \A k \in 1 .. Len(buffer) : buffer[k] = Nul => k \in Terminators
  BY TextUnderCopy
<1>2. Terminators \subseteq Nat
  BY <1>1 DEF Terminators
<1>3. PICK i \in Terminators : \A j \in Terminators : i <= j
  BY <1>2, LeastNatural
<1>4. FirstNul \in Terminators /\ \A j \in Terminators : FirstNul <= j
  BY <1>3 DEF FirstNul
<1> DEFINE first == FirstNul
<1>5. /\ first \in Terminators /\ \A j \in Terminators : first <= j
  BY <1>4
<1> HIDE DEF first
<1>6. first \in 1 .. Len(buffer) /\ buffer[first] = Nul
  BY <1>1, <1>5 DEF Terminators
<1>7. ASSUME NEW k \in 1 .. (first - 1) PROVE buffer[k] # Nul
  <2>1. k \in 1 .. Len(buffer) /\ ~(first <= k)
    BY <1>1, <1>6
  <2> QED
    BY <1>1, <1>5, <2>1
<1> QED
  BY <1>6, <1>7 DEF first

LEMMA CopyTextByteStep ==
  ASSUME IInv, CopyTextByte, UNCHANGED scanVars
  PROVE  IInv'
<1>1. /\ BytesTypeOK /\ ScanMatches /\ Reading /\ offset < call.limit /\ Copied < Requested
      /\ mem[TextCursor] # Unmapped /\ buffer' = Append(buffer, mem[TextCursor])
      /\ UNCHANGED <<mem, writes, written, call, offset, outcome, range, matches>>
  BY DEF IInv, CopyTextByte, processVars, scanVars
<1>2. /\ call \in Calls /\ call.kind \in Texts /\ outcome = "pending"
      /\ offset \in Nat /\ buffer \in Seq(Bytes) /\ Len(buffer) \in Nat
      /\ offset <= Len(buffer)
      /\ \A k \in 1 .. offset : buffer[k] # Nul
      /\ \A k \in 1 .. Len(buffer) :
           call.start + k - 1 \notin written => mem[call.start + k - 1] = buffer[k]
  BY <1>1, TextUnderCopy
<1>3. /\ call.kind # "scan" /\ call.limit \in Nat /\ call.start \in Nat
      /\ call.start .. (call.start + call.limit - 1) \subseteq Addresses
  BY <1>2, TextCall
<1>4. Len(buffer) < call.limit
  <2>1. call.start + offset \in Nat /\ Granule \in Nat \ {0}
    BY <1>2, <1>3, TextAssumption
  <2>2. Leftover(call.start + offset) \in Int
    BY <2>1 DEF Leftover
  <2>3. Requested <= call.limit - offset
    BY <1>2, <1>3, <2>2 DEF Requested, Smaller
  <2>4. Requested \in Int /\ Copied = Len(buffer) - offset
    BY <1>2, <1>3, <2>2 DEF Requested, Smaller, Copied
  <2> QED
    BY <1>1, <1>2, <1>3, <2>3, <2>4
<1>5. TextCursor = call.start + Len(buffer) /\ TextCursor \in Addresses
  <2>1. call.start + Len(buffer) \in call.start .. (call.start + call.limit - 1)
    BY <1>2, <1>3, <1>4
  <2> QED
    BY <1>3, <2>1 DEF TextCursor
<1>6. mem[TextCursor] \in Bytes
  BY <1>1, <1>5 DEF BytesTypeOK
<1>7. /\ buffer' \in Seq(Bytes) /\ Len(buffer') = Len(buffer) + 1
      /\ \A k \in 1 .. Len(buffer) : buffer'[k] = buffer[k]
      /\ buffer'[Len(buffer) + 1] = mem[TextCursor]
  BY <1>1, <1>2, <1>6, AppendProperties
<1>8. BytesTypeOK'
  <2>1. Len(buffer') <= call.limit
    BY <1>2, <1>3, <1>4, <1>7
  <2> QED
    BY <1>1, <1>3, <1>7, <2>1 DEF BytesTypeOK
<1>9. TextBuffer'
  <2>1. offset <= Len(buffer') /\ Len(buffer') <= call.limit
    BY <1>2, <1>3, <1>4, <1>7
  <2>2. \A k \in 1 .. offset : buffer'[k] # Nul
    BY <1>2, <1>7
  <2>3. ASSUME NEW k \in 1 .. Len(buffer'), call.start + k - 1 \notin written
        PROVE  mem[call.start + k - 1] = buffer'[k]
    <3>1. CASE k \in 1 .. Len(buffer)
      BY <1>2, <1>7, <2>3, <3>1
    <3>2. CASE k = Len(buffer) + 1
      <4>1. call.start + k - 1 = TextCursor
        BY <1>2, <1>3, <1>5, <3>2
      <4> QED
        BY <1>7, <3>2, <4>1
    <3> QED
      BY <1>2, <1>7, <3>1, <3>2
  <2> QED
    BY <1>1, <2>1, <2>2, <2>3 DEF TextBuffer, CopiedFrom
<1>10. ScanBuffer' /\ ScanFound' /\ ScanMatches'
  BY <1>1, <1>2, TextLeavesScan
<1>11. Outcomes'
  BY <1>1, <1>2, <1>10, OutcomesPending
<1> QED
  BY <1>8, <1>9, <1>10, <1>11 DEF IInv

(* A chunk with a terminator: the string is returned.                        *)
LEMMA ChunkTerminated ==
  ASSUME IInv, Reading, NEW faulted \in BOOLEAN, EndChunk(faulted), UNCHANGED scanVars,
         Terminators # {}
  PROVE  IInv'
<1>1. /\ BytesTypeOK /\ ScanMatches
      /\ outcome' = "ok" /\ offset' = NextChunk /\ buffer' = SubSeq(buffer, 1, Retained)
      /\ UNCHANGED <<mem, writes, written, call, range, matches>>
  BY DEF IInv, EndChunk, Verdict, processVars, scanVars
<1>2. /\ call \in Calls /\ call.kind \in Texts
      /\ offset \in Nat /\ buffer \in Seq(Bytes) /\ Len(buffer) \in Nat
      /\ Len(buffer) <= call.limit
      /\ \A k \in 1 .. Len(buffer) :
           call.start + k - 1 \notin written => mem[call.start + k - 1] = buffer[k]
  BY TextUnderCopy
<1>3. /\ call.kind # "scan" /\ call.limit \in Nat /\ call.start \in Nat
      /\ Bound = call.start .. (call.start + call.limit - 1)
  BY <1>2, TextCall
<1> DEFINE first == FirstNul
           kept == Retained
<1>4. /\ first \in 1 .. Len(buffer) /\ buffer[first] = Nul
      /\ \A k \in 1 .. (first - 1) : buffer[k] # Nul
  BY FirstTerminator
<1>5. kept = IF call.kind = "CBytes" THEN first ELSE first - 1
  BY DEF Retained
<1>6. buffer' = SubSeq(buffer, 1, kept)
  BY <1>1
<1> HIDE DEF first, kept
<1>7. kept \in Nat /\ kept <= first /\ kept <= Len(buffer)
  BY <1>2, <1>4, <1>5
<1>8. /\ buffer' \in Seq(Bytes) /\ Len(buffer') = kept
      /\ DOMAIN buffer' = 1 .. kept
      /\ \A k \in 1 .. kept : buffer'[k] = buffer[k]
  <2>1. \A k \in 1 .. kept : buffer[k] \in Bytes
    BY <1>2, <1>7, ElementOfSeq
  <2>2. buffer' \in Seq(Bytes)
    BY <1>6, <1>7, <2>1, SubSeqProperties
  <2>3. Len(buffer') = kept /\ \A k \in 1 .. kept : buffer'[k] = buffer[k]
    BY <1>2, <1>6, <1>7
  <2> QED
    BY <2>2, <2>3, LenProperties
<1>9. BytesTypeOK'
  <2>1. Len(buffer') <= call.limit
    BY <1>2, <1>3, <1>7, <1>8
  <2>2. offset' \in Nat
    BY <1>1, <1>2 DEF NextChunk, Copied
  <2> QED
    BY <1>1, <1>3, <1>8, <2>1, <2>2 DEF BytesTypeOK
<1>10. ScanBuffer' /\ ScanFound' /\ ScanMatches' /\ matches' = {}
  BY <1>1, <1>2, TextLeavesScan
<1>11. TextStood'
  <2>1. TextExtent' = call.start .. (call.start + first - 1)
    BY <1>1, <1>2, <1>3, <1>4, <1>5, <1>8 DEF TextExtent
  <2>2. TextExtent' \subseteq Bound
    BY <1>2, <1>3, <1>4, <2>1
  <2>3. ASSUME NEW i \in 1 .. kept
        PROVE  buffer'[i] = Nul <=> call.kind = "CBytes" /\ i = kept
    <3>1. CASE i = first
      BY <1>2, <1>4, <1>5, <1>7, <1>8, <3>1
    <3>2. CASE i # first
      <4>1. i \in 1 .. (first - 1)
        BY <1>2, <1>4, <1>7, <3>2
      <4> QED
        BY <1>2, <1>4, <1>5, <1>7, <1>8, <3>2, <4>1
    <3> QED
      BY <3>1, <3>2
  <2>4. ASSUME NEW a \in TextExtent' \ written
        PROVE  mem[a] = IF a = call.start + kept THEN Nul ELSE buffer'[a - call.start + 1]
    <3>1. a \in Nat /\ call.start <= a /\ a <= call.start + first - 1 /\ a \notin written
      BY <1>2, <1>3, <1>4, <2>1, <2>4
    <3> DEFINE k == a - call.start + 1
    <3>2. k \in 1 .. first /\ call.start + k - 1 = a
      BY <1>2, <1>3, <1>4, <3>1
    <3>3. a = call.start + kept => k = first
      BY <1>2, <1>3, <1>4, <1>5, <3>1, <3>2
    <3>4. a # call.start + kept => k \in 1 .. kept
      BY <1>2, <1>3, <1>4, <1>5, <3>1, <3>2
    <3>5. k = a - call.start + 1
      OBVIOUS
    <3> HIDE DEF k
    <3>6. mem[a] = buffer[k]
      <4>1. k \in 1 .. Len(buffer)
        BY <1>2, <1>4, <3>2
      <4> QED
        BY <1>2, <3>1, <3>2, <4>1
    <3> QED
      BY <1>4, <1>8, <3>3, <3>4, <3>5, <3>6
  <2> QED
    BY <1>1, <1>3, <1>8, <2>2, <2>3, <2>4 DEF TextStood, Bound
<1>12. Outcomes'
  <2>1. SteadyOccurrencesFound'
    BY <1>1, <1>3 DEF SteadyOccurrencesFound
  <2>2. ReportsHold'
    BY <1>1, <1>10 DEF ReportsHold
  <2>3. TextRefusalExplained'
    BY <1>1 DEF TextRefusalExplained
  <2> QED
    BY <1>11, <2>1, <2>2, <2>3 DEF Outcomes
<1>13. TextBuffer'
  BY <1>1, Returned
<1> QED
  BY <1>9, <1>10, <1>12, <1>13 DEF IInv

LEMMA ChunkCopiedStep ==
  ASSUME IInv, ChunkCopied, UNCHANGED scanVars
  PROVE  IInv'
<1>1. Reading /\ EndChunk(FALSE)
  BY DEF ChunkCopied
<1>2. CASE Terminators # {}
  BY <1>1, <1>2, ChunkTerminated
<1>3. CASE Terminators = {}
  <2>1. /\ BytesTypeOK /\ ScanMatches
        /\ outcome' = "pending" /\ offset' = NextChunk /\ buffer' = buffer
        /\ UNCHANGED <<mem, writes, written, call, range, matches>>
    BY <1>1, <1>3 DEF IInv, EndChunk, Verdict, processVars, scanVars
  <2>2. /\ call.kind \in Texts /\ call \in Calls
        /\ offset \in Nat /\ Len(buffer) \in Nat /\ Len(buffer) <= call.limit
        /\ \A k \in 1 .. Len(buffer) : buffer[k] # Nul
        /\ \A k \in 1 .. Len(buffer) :
             call.start + k - 1 \notin written => mem[call.start + k - 1] = buffer[k]
    BY <1>1, <1>3, TextUnderCopy
  <2>3. offset' = Len(buffer)
    BY <2>1, <2>2 DEF NextChunk, Copied
  <2>4. BytesTypeOK'
    BY <2>1, <2>2, <2>3, ScanIsNoText DEF BytesTypeOK
  <2>5. TextBuffer'
    BY <2>1, <2>2, <2>3 DEF TextBuffer, CopiedFrom
  <2>6. ScanBuffer' /\ ScanFound' /\ ScanMatches'
    BY <2>1, <2>2, TextLeavesScan
  <2>7. Outcomes'
    BY <2>1, <2>6, OutcomesPending
  <2> QED
    BY <2>4, <2>5, <2>6, <2>7 DEF IInv
<1> QED
  BY <1>2, <1>3

LEMMA ChunkFaultsStep ==
  ASSUME IInv, ChunkFaults, UNCHANGED scanVars
  PROVE  IInv'
<1>1. Reading /\ EndChunk(TRUE)
  BY DEF ChunkFaults
<1>2. CASE Terminators # {}
  BY <1>1, <1>2, ChunkTerminated
<1>3. CASE Terminators = {}
  <2>1. /\ BytesTypeOK /\ ScanMatches
        /\ outcome' = "failed" /\ offset' = NextChunk /\ buffer' = <<>>
        /\ UNCHANGED <<mem, writes, written, call, range, matches>>
        /\ offset < call.limit /\ Copied < Requested /\ mem[TextCursor] = Unmapped
    BY <1>1, <1>3 DEF IInv, ChunkFaults, EndChunk, Verdict, processVars, scanVars
  <2>2. /\ call.kind \in Texts /\ call \in Calls
        /\ offset \in Nat /\ Len(buffer) \in Nat /\ Len(buffer) <= call.limit
        /\ \A k \in 1 .. Len(buffer) : buffer[k] # Nul
        /\ \A k \in 1 .. Len(buffer) :
             call.start + k - 1 \notin written => mem[call.start + k - 1] = buffer[k]
    BY <1>1, <1>3, TextUnderCopy
  <2>3. /\ call.kind # "scan" /\ call.limit \in Nat /\ call.start \in Nat
        /\ Bound = call.start .. (call.start + call.limit - 1)
    BY <2>2, TextCall
  <2>4. BytesTypeOK'
    <3>1. offset' \in Nat
      BY <2>1, <2>2 DEF NextChunk, Copied
    <3>2. buffer' \in Seq(Bytes) /\ Len(buffer') <= call.limit
      BY <2>1, <2>3, EmptySeq
    <3> QED
      BY <2>1, <2>3, <3>1, <3>2 DEF BytesTypeOK
  <2>5. ScanBuffer' /\ ScanFound' /\ ScanMatches' /\ matches' = {}
    BY <2>1, <2>2, TextLeavesScan
  <2>6. TextCursor \in Bound
    <3>1. call.start + offset \in Nat /\ Granule \in Nat \ {0}
      BY <2>2, <2>3, TextAssumption
    <3>2. Leftover(call.start + offset) \in Int
      BY <3>1 DEF Leftover
    <3>3. Requested \in Int /\ Requested <= call.limit - offset
      BY <2>2, <2>3, <3>2 DEF Requested, Smaller
    <3>4. Len(buffer) < call.limit
      BY <2>1, <2>2, <2>3, <3>3 DEF Copied
    <3>5. TextCursor = call.start + Len(buffer)
      BY DEF TextCursor
    <3> QED
      BY <2>2, <2>3, <3>4, <3>5
  <2>7. ASSUME NEW b \in call.start .. (TextCursor - 1), mem[b] = Nul PROVE b \in written
    <3> DEFINE k == b - call.start + 1
    <3>1. TextCursor = call.start + Len(buffer)
      BY DEF TextCursor
    <3>2. k \in 1 .. Len(buffer) /\ call.start + k - 1 = b
      BY <2>2, <2>3, <3>1
    <3> HIDE DEF k
    <3> QED
      BY <2>2, <2>7, <3>2
  <2>8. Outcomes'
    <3>1. SteadyOccurrencesFound'
      BY <2>1 DEF SteadyOccurrencesFound
    <3>2. ReportsHold'
      BY <2>1, <2>3, <2>5 DEF ReportsHold
    <3>3. TextStood'
      BY <2>1 DEF TextStood
    <3>4. TextRefusalExplained'
      BY <2>1, <2>6, <2>7 DEF TextRefusalExplained, Bound
    <3> QED
      BY <3>1, <3>2, <3>3, <3>4 DEF Outcomes
  <2>9. TextBuffer'
    BY <2>1, Returned
  <2> QED
    BY <2>4, <2>5, <2>8, <2>9 DEF IInv
<1> QED
  BY <1>2, <1>3

LEMMA MissingTerminatorStep ==
  ASSUME IInv, MissingTerminator, UNCHANGED scanVars
  PROVE  IInv'
<1>1. /\ BytesTypeOK /\ ScanMatches /\ Reading /\ offset >= call.limit
      /\ outcome' = "missing" /\ buffer' = <<>>
      /\ UNCHANGED <<mem, writes, written, call, offset, range, matches>>
  BY DEF IInv, MissingTerminator, processVars, scanVars
<1>2. /\ call.kind \in Texts /\ call \in Calls
      /\ offset \in Nat /\ Len(buffer) \in Nat /\ offset <= Len(buffer) /\ Len(buffer) <= call.limit
      /\ \A k \in 1 .. offset : buffer[k] # Nul
      /\ \A k \in 1 .. Len(buffer) :
           call.start + k - 1 \notin written => mem[call.start + k - 1] = buffer[k]
  BY <1>1, TextUnderCopy
<1>3. /\ call.kind # "scan" /\ call.limit \in Nat /\ call.start \in Nat
      /\ Bound = call.start .. (call.start + call.limit - 1)
  BY <1>2, TextCall
<1>4. BytesTypeOK'
  <2>1. buffer' \in Seq(Bytes) /\ Len(buffer') <= call.limit
    BY <1>1, <1>3, EmptySeq
  <2> QED
    BY <1>1, <1>3, <2>1 DEF BytesTypeOK
<1>5. ScanBuffer' /\ ScanFound' /\ ScanMatches' /\ matches' = {}
  BY <1>1, <1>2, TextLeavesScan
<1>6. ASSUME NEW a \in Bound, mem[a] = Nul PROVE a \in written
  <2> DEFINE k == a - call.start + 1
  <2>1. k \in 1 .. offset /\ k \in 1 .. Len(buffer) /\ call.start + k - 1 = a
    BY <1>1, <1>2, <1>3
  <2> HIDE DEF k
  <2> QED
    BY <1>2, <1>6, <2>1
<1>7. Outcomes'
  <2>1. SteadyOccurrencesFound'
    BY <1>1 DEF SteadyOccurrencesFound
  <2>2. ReportsHold'
    BY <1>1, <1>3, <1>5 DEF ReportsHold
  <2>3. TextStood'
    BY <1>1 DEF TextStood
  <2>4. TextRefusalExplained'
    BY <1>1, <1>6 DEF TextRefusalExplained, Bound
  <2> QED
    BY <2>1, <2>2, <2>3, <2>4 DEF Outcomes
<1>8. TextBuffer'
  BY <1>1, Returned
<1> QED
  BY <1>4, <1>5, <1>7, <1>8 DEF IInv

-----------------------------------------------------------------------------
(* The invariant and what follows from it.                                   *)

LEMMA Stutter ==
  ASSUME IInv, UNCHANGED bytesVars
  PROVE  IInv'
<1>1. UNCHANGED <<mem, writes, written, call, offset, buffer, outcome, range, matches>>
  BY DEF bytesVars, processVars, copyVars, scanVars
<1>2. BytesTypeOK'
  BY <1>1 DEF IInv, BytesTypeOK
<1>3. ScanBuffer'
  BY <1>1 DEF IInv, ScanBuffer, Called, InRange, Count, Current, Remaining, RangeSize, CopiedFrom
<1>4. ScanFound'
  BY <1>1
     DEF IInv, ScanFound, Called, InsideRange, Behind, Current, Stands, Extent, Covers, N
<1>5. ScanMatches'
  BY <1>1, SameMatches DEF IInv, processVars
<1>6. TextBuffer'
  BY <1>1 DEF IInv, TextBuffer, Reading, CopiedFrom
<1>7. SteadyOccurrencesFound'
  BY <1>1
     DEF IInv, Outcomes, SteadyOccurrencesFound, Steady, InsideOneRange, InsideRange, Extent,
         Covers, N
<1>8. ReportsHold'
  BY <1>1, <1>5 DEF IInv, Outcomes, ReportsHold, ScanMatches
<1>9. TextStood' /\ TextRefusalExplained'
  BY <1>1 DEF IInv, Outcomes, TextStood, TextRefusalExplained, TextExtent, Bound
<1> QED
  BY <1>2, <1>3, <1>4, <1>5, <1>6, <1>7, <1>8, <1>9 DEF IInv, Outcomes

LEMMA Steps == IInv /\ [BytesNext]_bytesVars => IInv'
<1> SUFFICES ASSUME IInv, [BytesNext]_bytesVars PROVE IInv'
  OBVIOUS
<1>1. CASE Scan
  BY <1>1, EmptyNeedleStep, CopyTooSmallStep, CopyByteStep, CopyFailsStep, SearchWindowStep,
     EndOfRangeStep, FinishStep DEF Scan
<1>2. CASE ReadString
  BY <1>2, CopyTextByteStep, ChunkCopiedStep, ChunkFaultsStep, MissingTerminatorStep
     DEF ReadString, ReadText
<1>3. CASE WriteByte /\ UNCHANGED <<copyVars, scanVars>>
  BY <1>3, WriteStep
<1>4. CASE UNCHANGED bytesVars
  BY <1>4, Stutter
<1> QED
  BY <1>1, <1>2, <1>3, <1>4 DEF BytesNext

LEMMA Invariant == BytesSpec => []IInv
<1>1. BytesInit => IInv
  BY Initially
<1>2. IInv /\ [BytesNext]_bytesVars => IInv'
  BY Steps
<1> QED
  BY <1>1, <1>2, PTL DEF BytesSpec

(* Every variable of a read holds a value of its type, and no buffer grows   *)
(* past the bound its caller gave (Bytes::assemble_with, CBytes and          *)
(* name_bytes).                                                              *)
THEOREM ReadsTyped == BytesSpec => []BytesTypeOK
<1>1. IInv => BytesTypeOK
  BY DEF IInv
<1> QED
  BY <1>1, Invariant, PTL

(* A scan that returns reports every occurrence that stood untouched inside  *)
(* one range, or one that it starts inside, wherever the borders of the      *)
(* windows fall (Scanner::bytes).                                            *)
THEOREM ScansMissNothing == BytesSpec => []SteadyOccurrencesFound
<1>1. IInv => SteadyOccurrencesFound
  BY DEF IInv, Outcomes
<1> QED
  BY <1>1, Invariant, PTL

(* What a scan reports lies in one range and held the needle there, and a    *)
(* scan that fails met an unmapped byte and reports nothing (push_matches).  *)
THEOREM ScansReportTheNeedle == BytesSpec => []ReportsHold
<1>1. IInv => ReportsHold
  BY DEF IInv, Outcomes
<1> QED
  BY <1>1, Invariant, PTL

(* A string that is returned ends at its first terminator and is what the    *)
(* process holds wherever nothing was written (CBytes::assemble_with and     *)
(* both name_bytes).                                                         *)
THEOREM TextsStand == BytesSpec => []TextStood
<1>1. IInv => TextStood
  BY DEF IInv, Outcomes
<1> QED
  BY <1>1, Invariant, PTL

(* A string is refused only when nothing within its bound ends it or a byte  *)
(* before any terminator could not be read: a terminator settles the copy    *)
(* whatever faults behind it.                                                *)
THEOREM TextRefusalsHaveACause == BytesSpec => []TextRefusalExplained
<1>1. IInv => TextRefusalExplained
  BY DEF IInv, Outcomes
<1> QED
  BY <1>1, Invariant, PTL

=============================================================================
