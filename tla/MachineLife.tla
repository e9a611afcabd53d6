------------------------------ MODULE MachineLife ------------------------------
(****************************************************************************)
(* What the machine operations of core rely on when they look for the       *)
(* machine of an environment: a machine that a driver creates, with         *)
(* whatever it consists of, lives once.  It is created, may become whole,   *)
(* and from the moment its deletion begins it is never whole again.         *)
(****************************************************************************)
VARIABLE life

\* A machine may be there from before.
Init == life \in {"none", "up", "down"}

Moves(from, to) == life \in from /\ life' = to

\* The first of its parts is there.
Begin == Moves({"none"}, "creating")

Complete == Moves({"creating"}, "up")

\* The first of its parts is deleted, or marked as such, or it has stopped.
Doom == Moves({"creating", "up"}, "down")

Next == Begin \/ Complete \/ Doom

Spec == Init /\ [][Next]_life
=============================================================================
