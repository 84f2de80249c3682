---------------------------- MODULE MCForeignReads ----------------------------
(* One call of one of the readers beside the process it reads: a stable lift *)
(* of a record, a scan or a string of bytes, or the dynamic tables of an     *)
(* image and lookups in them.  The other two rest where an earlier call of   *)
(* theirs was refused, in a state their own specifications reach.            *)
EXTENDS StableLift, MCByteReads, MCElfDynamic

LiftRests ==
  /\ record = [f \in Index |-> 0] /\ lift = record /\ previous = record /\ instant = record
  /\ mapped = FALSE /\ verdict = "faulted"
  /\ field = 1 /\ lifts = 0 /\ agreed = 0
  /\ recurred = FALSE /\ disturbed = TRUE

BytesRest ==
  /\ mem = [a \in Addresses |-> Unmapped]
  /\ call = [kind |-> "CBytes", start |-> 0, limit |-> 1]
  /\ offset = 0 /\ buffer = <<>> /\ outcome = "failed"
  /\ range = 1 /\ matches = {}
  /\ writes = 0 /\ written = {}

ElfRests ==
  /\ image = Unterminated.image /\ contents = Unterminated.contents
  /\ changed = FALSE
  /\ pc = "failed" /\ at = 0
  /\ meta = NoMeta /\ header = <<>> /\ table = NoTable
  /\ lookup = NoLookup /\ answer = Error("MissingTerminator")

MCReadsInit ==
  \/ LiftInit /\ BytesRest /\ ElfRests
  \/ LiftRests /\ BytesInit /\ ElfRests
  \/ LiftRests /\ BytesRest /\ MCInit

MCReadsNext ==
  \/ LiftNext /\ UNCHANGED <<bytesVars, vars>>
  \/ BytesNext /\ UNCHANGED <<liftVars, vars>>
  \/ Next /\ UNCHANGED <<liftVars, bytesVars>>

MCReadsSpec ==
  /\ MCReadsInit /\ [][MCReadsNext]_<<liftVars, bytesVars, vars>>
  /\ WF_liftVars(Lifting)
  /\ WF_bytesVars(Scan) /\ WF_bytesVars(ReadString)
  /\ Fairness
=============================================================================
