------------------------------ MODULE MCDeploy ------------------------------
(* Instances of Deploy for TLC: two commands of one host. *)
EXTENDS Deploy, TLC

CONSTANTS c1, c2, e1, e2

Symmetry == Permutations({c1, c2}) \cup Permutations({e1, e2})
=============================================================================
