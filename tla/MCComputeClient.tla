-------------------------- MODULE MCComputeClient --------------------------
(* Three tasks are enough for a task to be cancelled at the head, in the     *)
(* middle and at the tail of the pending list, and for what was reposted to  *)
(* be reposted again.                                                        *)
EXTENDS ComputeClient
=============================================================================
