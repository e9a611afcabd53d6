--------------------------- MODULE MCCloudMachines ---------------------------
\* Bounds to model-check CloudMachines.
EXTENDS CloudMachines, TLC

CONSTANTS c1, c2, e1

Symmetry == Permutations(Cli)
=============================================================================
