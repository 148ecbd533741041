CONSTANTS
  l1 = l1  p1 = p1
  l2 = l2  p2 = p2
  Lease = {l1}
  Pod = {p1}
  NoLease = NoLease
  Stranger = Stranger
  JobOf <- OneJob
  Lag = TRUE
  PromptPost = TRUE
  DiskFaults = TRUE
  Foreigners = FALSE
  HostFaults = TRUE
  MaxPerPost = 1
  MaxReaperCrashes = 1
SPECIFICATION Spec
INVARIANTS TypeOK SettledMeansGone ClosedMeansReleased
PROPERTY Implements
