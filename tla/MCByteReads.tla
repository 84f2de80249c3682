------------------------------ MODULE MCByteReads ------------------------------
(* Five bytes of memory: needles of up to three bytes, copies of up to four, *)
(* one range, two that touch, two that overlap, an empty one; strings of any *)
(* bound at two starts, in windows of two bytes.                    *)
EXTENDS ByteReads

CONSTANTS x, y

R(a, b) == [start |-> a, end |-> b]

MCNeedles == {<<x>>, <<x, y>>, <<x, x>>, <<x, y, x>>}

MCScans ==
  [kind : {"scan"}, needle : MCNeedles, copy : 1 .. 4, ranges : {<<R(0, 5)>>}]
    \cup [kind : {"scan"}, needle : {<<x, x>>}, copy : {2, 3},
          ranges : {<<R(0, 2), R(2, 5)>>, <<R(1, 5), R(0, 3)>>, <<R(2, 2), R(1, 4)>>}]
    \cup {[kind |-> "scan", needle |-> <<>>, copy |-> 1, ranges |-> <<R(0, 5)>>]}

MCTexts ==
  [kind : Texts, start : {0}, limit : 1 .. 5] \cup [kind : {"CBytes", "module name"}, start : {1}, limit : {1, 3, 4}]

MCCalls == MCScans \cup MCTexts
=============================================================================
