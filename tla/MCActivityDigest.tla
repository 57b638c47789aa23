-------------------------- MODULE MCActivityDigest --------------------------
(* Model checking instance of ActivityDigest: the rows share a feature. *)
EXTENDS ActivityDigest

CONSTANT f1

Single == [r \in Notifications |-> f1]

=============================================================================
