CONSTANTS
  m1 = m1
  m2 = m2
  m3 = m3
  m4 = m4
  r1 = r1
  r2 = r2
  o1 = o1
  o2 = o2
  o3 = o3
  o4 = o4
  Null = Null
  Unmapped = Unmapped
  Maps = {m1, m2, m3}
  Rdvs = {r1, r2}
  Root = r1
  Objs = {o1, o2, o3}
  Snapshotted = {o1, o2, o3}
  Attempts = 1
  MaxJobs = 4
  MaxLoaded = 1
SPECIFICATION Spec
PROPERTY SnapshotStood
SYMMETRY Symmetry
CHECK_DEADLOCK FALSE
