----------------------------- MODULE MCInspection -----------------------------
(* The program, the vDSO, the dynamic linker and three libraries, one of two *)
(* pages, in five pages and two namespaces; two libraries are one file.      *)
EXTENDS Inspection

CONSTANTS exe, vdso, ld, liba, libb, libc, f1, f2, f3, f4

MCSize == [o \in Objs |-> IF o = liba THEN 2 ELSE 1]

MCFileOf == [o \in Objs |-> CASE o = exe -> f1 [] o = ld -> f2 [] o = liba -> f3 [] o \in {libb, libc} -> f4
                              [] OTHER -> NoFile]

Sample(start, end, file, anonymous, id) ==
  [start |-> start, end |-> end, read |-> TRUE, file |-> file,
   anonymous |-> anonymous, id |-> id]

(* One answer for each fault, some after layouts that are in order.          *)
MCMalformed ==
  {<<Sample(1, 1, TRUE, FALSE, f1)>>,
   <<Sample(0, 2, TRUE, FALSE, f1), Sample(1, 3, TRUE, FALSE, f2)>>,
   <<Sample(0, 1, TRUE, FALSE, f1), Sample(2, 3, FALSE, TRUE, NoFile),
     Sample(1, 2, TRUE, FALSE, f2)>>,
   <<Sample(0, 1, FALSE, FALSE, NoFile), Sample(1, 2, TRUE, TRUE, f2)>>,
   <<Sample(0, 3, FALSE, TRUE, f1)>>}
=============================================================================
