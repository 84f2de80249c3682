--------------------------- MODULE PatternMeaning ---------------------------
(***************************************************************************)
(* What a pattern says, before it is compiled: a reference for the parser  *)
(* and the interpreter together.  A pattern is a sequence of items; an     *)
(* item that captures names its slot.  A match is a cursor and the value   *)
(* of each slot on the way there; nothing that was tried in vain shows.    *)
(***************************************************************************)
EXTENDS PatternProgram, SequencesExt

\* The items.
Exactly(byte, mask)  == [form |-> "exactly", byte |-> byte, mask |-> mask]
Anything(n)          == [form |-> "anything", by |-> n]
Between(least, most) == [form |-> "between", least |-> least, most |-> most]
Here(slot)           == [form |-> "here", slot |-> slot]
Leap(kind)           == [form |-> "leap", kind |-> kind]
Visit(kind, items)   == [form |-> "visit", kind |-> kind, items |-> items]
Multiple(n)          == [form |-> "multiple", of |-> n]
Number(slot, w, s)   == [form |-> "number", slot |-> slot, width |-> w, signed |-> s]
Relative(slot)       == [form |-> "relative", slot |-> slot]
Nothing(slot)        == [form |-> "nothing", slot |-> slot]
OneOf(alternatives)  == [form |-> "oneof", alternatives |-> alternatives]

Miss == [ok |-> FALSE, cursor |-> 0, saves |-> [s \in {} |-> 0]]

Held(match, slot, value, width) ==
  [match EXCEPT !.cursor = @ + width, !.saves = [s \in {slot} |-> value] @@ @]

\* Where a leap of a kind leads; a pointer is an address, anything else is relative to its end.
LeapWidth(kind) == CASE kind = "byte" -> 1 [] kind = "dword" -> 4 [] kind = "pointer" -> PointerBytes

Target(scan, cursor, kind) ==
  IF kind = "pointer" THEN Word(scan.image, cursor, PointerBytes) - scan.base
  ELSE cursor + LeapWidth(kind) + SignedWord(scan.image, cursor, LeapWidth(kind))

Within(scan, cursor) == cursor \in 0 .. Len(scan.image)

RECURSIVE Means(_, _, _), Then(_, _, _)

\* The match of a sequence of items that begins with one, if there is one.
Means(scan, items, match) ==
  IF items = <<>> \/ ~match.ok THEN match ELSE Then(scan, items, match)

Then(scan, items, match) ==
  LET item == Head(items)
      rest == Tail(items)
      at   == match.cursor
      here == scan.base + at
      Reads(width) == Readable(scan.image, at, width)
      Go(cursor) == Means(scan, rest, [match EXCEPT !.cursor = cursor])
      Hold(value, width) == Means(scan, rest, Held(match, item.slot, value, width))
  IN CASE item.form = "exactly" ->
            IF Reads(1) /\ scan.image[at + 1] \cap item.mask = item.byte \cap item.mask
            THEN Go(at + 1) ELSE Miss
       [] item.form = "anything" -> IF Within(scan, at + item.by) THEN Go(at + item.by) ELSE Miss
       \* The nearest distance at which the rest matches; there must be a byte there.
       [] item.form = "between" ->
            LET near == {d \in item.least .. item.most - 1 : at + d < Len(scan.image) /\ Go(at + d).ok}
            IN IF near = {} THEN Miss ELSE Go(at + Min(near))
       [] item.form = "here" -> IF Addressed(here) THEN Hold(here, 0) ELSE Miss
       [] item.form = "leap" ->
            IF Reads(LeapWidth(item.kind)) /\ Within(scan, Target(scan, at, item.kind))
            THEN Go(Target(scan, at, item.kind)) ELSE Miss
       [] item.form = "visit" ->
            LET there == IF Reads(LeapWidth(item.kind)) /\ Within(scan, Target(scan, at, item.kind))
                         THEN Means(scan, item.items, [match EXCEPT !.cursor = Target(scan, at, item.kind)])
                         ELSE Miss
            IN Means(scan, rest, [there EXCEPT !.cursor = at + LeapWidth(item.kind)])
       [] item.form = "multiple" -> IF Addressed(here) /\ here % item.of = 0 THEN Go(at) ELSE Miss
       [] item.form = "number" ->
            IF ~Reads(item.width) THEN Miss
            ELSE Hold(IF item.signed THEN SignedWord(scan.image, at, item.width) % AddressLimit
                      ELSE Word(scan.image, at, item.width), item.width)
       [] item.form = "relative" ->
            LET target == here + 4 + SignedWord(scan.image, at, 4)
            IN IF Reads(4) /\ Addressed(here + 4) /\ Addressed(target) THEN Hold(target, 4) ELSE Miss
       [] item.form = "nothing" -> Hold(0, 0)
       \* The first alternative that matches is kept whatever follows; only the last one is not
       \* left before the rest has matched, too.
       [] item.form = "oneof" ->
            LET several == item.alternatives
                able == {i \in 1 .. Len(several) - 1 : Means(scan, several[i], match).ok}
            IN IF able = {} THEN Means(scan, Last(several) \o rest, match)
               ELSE Means(scan, rest, Means(scan, several[Min(able)], match))

\* A pattern without the movement that ends it.
RECURSIVE Essential(_)
Essential(items) ==
  CASE items # <<>> /\ Last(items).form \in {"anything", "between"} -> Essential(Front(items))
    [] items # <<>> /\ Last(items).form = "visit" ->
         Append(Front(items), [Last(items) EXCEPT !.items = Essential(@)])
    [] OTHER -> items

\* The match of a pattern at a start, which slot 0 holds.
MeansAt(scan, items, start) ==
  Means(scan, <<Here(0)>> \o items, [ok |-> TRUE, cursor |-> start, saves |-> [s \in {} |-> 0]])
=============================================================================
