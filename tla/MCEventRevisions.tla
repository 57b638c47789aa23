-------------------------- MODULE MCEventRevisions --------------------------
(* EventRevisions with interchangeable field values. *)
EXTENDS EventRevisions, TLC

CONSTANTS v1, v2, v3, u1, org

ValueSymmetry == Permutations(Values)
=============================================================================
