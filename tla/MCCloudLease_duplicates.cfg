CONSTANTS
  l1 = l1  p1 = p1
  l2 = l2  p2 = p2
  Lease = {l1}
  Pod = {p1, p2}
  NoLease = NoLease
  Stranger = Stranger
  JobOf <- OneJob
  Lag = FALSE
  PromptPost = FALSE
  DiskFaults = FALSE
  Foreigners = TRUE
  HostFaults = TRUE
  MaxPerPost = 2
  MaxReaperCrashes = 0
SYMMETRY PodSymmetry
SPECIFICATION Spec
INVARIANTS RecordsValid AbsenceIsTrue Projectable
PROPERTY DeleteNeedsIntent
