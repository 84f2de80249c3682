CONSTANTS
  m1 = m1
  m2 = m2
  r1 = r1
  r2 = r2
  o1 = o1
  o2 = o2
  Null = Null
  Unmapped = Unmapped
  Maps = {m1, m2}
  Rdvs = {r1, r2}
  Root = r1
  Objs = {o1, o2}
  Snapshotted = {o1}
  Attempts = 2
  MaxWrites = 2
  Nodes <- MCNodes
  Debugs <- MCDebugs
SPECIFICATION MCSpec
INVARIANTS TypeOK RetainedChains RetainedNamespaces ReverseEdgesAgree
PROPERTIES RetainedCoexisted CaptureEnds
CHECK_DEADLOCK FALSE
