CONSTANTS
  r1 = r1  r2 = r2
  j1 = j1  j2 = j2  s1 = s1  s2 = s2
  Run = {r1, r2}
  NoRun = NoRun
  Jobs = {j1, j2}
  NoJob = NoJob
  Plan <- TwoStages
  Sinks = {s1, s2}
  MaxAlive = 2
  MaxWrites = 1
  MaxKills = 1
SYMMETRY Symmetry
SPECIFICATION Spec
INVARIANTS TypeOK TokenConfined OwnJob ArchiveIsSnapshot
PROPERTY OkIsDelivered
CHECK_DEADLOCK FALSE
