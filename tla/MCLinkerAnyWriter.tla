------------------------- MODULE MCLinkerAnyWriter -------------------------
(* Two link maps and two rendezvous records, written to freely.             *)
EXTENDS LinkerAnyWriter, TLC

CONSTANTS m1, m2, r1, r2, o1, o2

MCNodes ==
  [obj : {o1}, next : Maps \cup {Null}, prev : Maps \cup {Null}]
    \cup {[obj |-> o2, next |-> Null, prev |-> Null], Unmapped}

MCDebugs ==
  {[version |-> 1, state |-> "consistent", map |-> m1, next |-> Null],
   [version |-> 2, state |-> "add", map |-> m1, next |-> Null],
   [version |-> 2, state |-> "consistent", map |-> Null, next |-> Null],
   [version |-> 2, state |-> "consistent", map |-> m1, next |-> Null],
   [version |-> 2, state |-> "consistent", map |-> m1, next |-> r2],
   [version |-> 2, state |-> "consistent", map |-> m2, next |-> r1],
   Unmapped}

(* The initial lists are complete; what happens to them is the writer's.    *)
MCInit ==
  /\ AnyInit
  /\ \/ mem = (m1 :> [obj |-> o1, next |-> m2, prev |-> Null]
              @@ m2 :> [obj |-> o1, next |-> Null, prev |-> m1])
     \/ mem = (m1 :> [obj |-> o1, next |-> Null, prev |-> Null]
              @@ m2 :> [obj |-> o1, next |-> Null, prev |-> Null])
  /\ named = {o1}
  /\ rdv[r1] # Unmapped /\ rdv[r1].state = "consistent" /\ rdv[r1].map = m1
  /\ rdv[r2] # Unmapped /\ rdv[r2].map = Null

MCSpec == MCInit /\ [][AnyNext]_anyVars /\ WF_anyVars(Read)
=============================================================================
