CONSTANTS
  p1 = p1  p2 = p2
  r1 = r1  r2 = r2
  Pid = {p1, p2}
  NoFile = NoFile
  Blank = Blank
  ColdRun = {r1, r2}
  Jobs <- AllJobs
  Regimes <- Usual
SPECIFICATION StagesSpec
INVARIANTS TypeOK OneWriterUnlessUsurped MarkedIsWhole LogitsServed SealedFromAll
PROPERTY PlanCompletes
