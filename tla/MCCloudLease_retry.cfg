CONSTANTS
  l1 = l1  p1 = p1
  l2 = l2  p2 = p2
  Lease = {l1, l2}
  Pod = {p1, p2}
  NoLease = NoLease
  Stranger = Stranger
  JobOf <- OneJob
  Lag = FALSE
  PromptPost = FALSE
  DiskFaults = FALSE
  Foreigners = FALSE
  HostFaults = FALSE
  MaxPerPost = 1
  MaxReaperCrashes = 0
SYMMETRY AttemptSymmetry
SPECIFICATION Spec
INVARIANTS OneBilledAttemptPerJob BilledMeansHeld
