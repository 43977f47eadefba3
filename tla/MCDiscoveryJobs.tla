-------------------------- MODULE MCDiscoveryJobs --------------------------
(* Model-checking instance of DiscoveryJobs. *)
EXTENDS DiscoveryJobs, TLC

\* Attempts are interchangeable, jobs too: nothing orders or names them.
OwnerSymmetry == Permutations(Owner)
=============================================================================
