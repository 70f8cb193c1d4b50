------------------------------ MODULE MCStudy ------------------------------
(* Small instances of Study for TLC. *)
EXTENDS Study, TLC

CONSTANTS m1, m2

MCCompletions == {{}, {1, 2}}

Symmetry == Permutations({m1, m2})
=============================================================================
