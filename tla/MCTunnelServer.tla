--------------------------- MODULE MCTunnelServer ---------------------------
(****************************************************************************)
(* Instances of TunnelServer for TLC.  Two requests of the same path, as a  *)
(* service that moves between public and private has them, share a key.     *)
(****************************************************************************)
EXTENDS TunnelServer, TLC

CONSTANTS c1, c2, c3, public, private, second, cl

OneClient == [c \in Conn |-> cl]

Tunnels == [client : Conn, target : Handler]
TunnelClient == [t \in Tunnels |-> ClientOf[t.client]]

\* public and private are requests for one path; second is another path.
PathKeys ==
  [k \in Client |-> [r \in Request |-> IF r = second THEN "other" ELSE "path"]]

Symmetry == Permutations(Handler) \cup Permutations(Conn)
=============================================================================
