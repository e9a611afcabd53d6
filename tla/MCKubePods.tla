------------------------------ MODULE MCKubePods ------------------------------
(* Instances of KubePods for TLC. *)
EXTENDS KubePods, TLC

CONSTANTS c1, c2, e1

Symmetry == Permutations({c1, c2})

\* A template, and one with an object of another kind after the StatefulSet.
Plain == <<"StatefulSet">>
Extended == <<"StatefulSet", "Role">>

TwoTemplates == {Plain, Extended}
=============================================================================
