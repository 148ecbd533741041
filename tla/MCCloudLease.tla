---------------------------- MODULE MCCloudLease ----------------------------
(* Instances of CloudLease for TLC. *)
EXTENDS CloudLease, TLC

CONSTANTS l1, l2, p1, p2

OneJob == [l \in Lease |-> "job"]
PodSymmetry == Permutations(Pod)
AttemptSymmetry == Permutations(Pod) \cup Permutations(Lease)
=============================================================================
