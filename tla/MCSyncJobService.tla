-------------------------- MODULE MCSyncJobService --------------------------
(* Model checking instances of SyncJobService.                             *)
EXTENDS SyncJobService, TLC

Symmetry == Permutations(Instances) \cup Permutations(Jobs)

=============================================================================
