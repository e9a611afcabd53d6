------------------------- MODULE MCMachineLifecycle -------------------------
(* Instances of MachineLifecycle for TLC. *)
EXTENDS MachineLifecycle, TLC

CONSTANTS c1, c2, e1, e2

Symmetry == Permutations({c1, c2})
=============================================================================
