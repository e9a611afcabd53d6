---------------------------- MODULE TunnelRouting ----------------------------
(****************************************************************************)
(* What the tunnel server promises about the hostnames it routes, without   *)
(* connections, pings or callbacks.  A route is granted to a request when   *)
(* the key is free, stays with it until it is released, and a request that  *)
(* has to ask for the key of another is granted it or refused.              *)
(****************************************************************************)
CONSTANTS
  Key,        \* hostnames
  Handler,    \* forward requests being handled
  None        \* no handler, no key

VARIABLES
  route,      \* the handler whose socket a key is routed to
  asking      \* the key a handler waits for

routingVars == <<route, asking>>

RoutingInit ==
  /\ route = [k \in Key |-> None]
  /\ asking = [h \in Handler |-> None]

\* The handler has no route and waits for none.
Unbound(h) == asking[h] = None /\ \A k \in Key : route[k] # h

Ask(h, k) ==
  /\ Unbound(h)
  /\ route[k] # None
  /\ asking' = [asking EXCEPT ![h] = k]
  /\ UNCHANGED route

\* A free key is granted, to a new request or to one that waits for it.
Grant(h, k) ==
  /\ asking[h] = k \/ Unbound(h)
  /\ route[k] = None
  /\ route' = [route EXCEPT ![k] = h]
  /\ asking' = [asking EXCEPT ![h] = None]

\* Requests that wait for the same answer are refused together.
Refuse(S) ==
  /\ \A h \in S : asking[h] # None
  /\ asking' = [h \in Handler |-> IF h \in S THEN None ELSE asking[h]]
  /\ UNCHANGED route

Release(k) ==
  /\ route[k] # None
  /\ route' = [route EXCEPT ![k] = None]
  /\ UNCHANGED asking

RoutingNext ==
  \/ \E h \in Handler, k \in Key : Ask(h, k) \/ Grant(h, k)
  \/ \E S \in SUBSET Handler : Refuse(S)
  \/ \E k \in Key : Release(k)

RoutingSafety == RoutingInit /\ [][RoutingNext]_routingVars
=============================================================================
