----------------------------- MODULE MCProfiles -----------------------------
(* Instances of Profiles for TLC: two aliases and a shared remote location. *)
EXTENDS Profiles, TLC

CONSTANTS a1, a2, s3, c1, c2, h1, h2, f1, f2

Symmetry == Permutations(Cmd) \cup Permutations(Alias) \cup Permutations(HostKey)
=============================================================================
