--------------------------- MODULE MCTunnelProxy ---------------------------
(* Instances for TLC of what answers requests: the proxy, with a tunnel each *)
(* of one or two owners, the scripts it inserts into pages, its process, and *)
(* the API of the agent behind it.  They share no state, so that a behaviour *)
(* takes the steps of one of them, and `part` says of which.                 *)
EXTENDS TunnelProxy, Injection, ServerProcess, AgentApi, TLC

CONSTANTS mine, theirs, o1, o2, t1, t2, here, elsewhere

VARIABLE part

allVars == <<part, vars, injectionVars, processVars, apiVars>>

PartsInit ==
  /\ part \in {"proxy", "injection", "process", "api"}
  /\ Init /\ (part # "proxy" => member = {})
  /\ InjectionInit /\ (part # "injection" => validator = "etag" /\ inject = NoScript)
  /\ ProcessInit /\ (part # "process" => tls)
  /\ ApiInit /\ (part # "api" => image /\ running = {})

PartsNext ==
  /\ part' = part
  /\ \/ part = "proxy" /\ Next /\ UNCHANGED <<injectionVars, processVars, apiVars>>
     \/ part = "injection" /\ InjectionNext /\ UNCHANGED <<vars, processVars, apiVars>>
     \/ part = "process" /\ ProcessNext /\ UNCHANGED <<vars, injectionVars, apiVars>>
     \/ part = "api" /\ ApiNext /\ UNCHANGED <<vars, injectionVars, processVars>>

PartsSpec == PartsInit /\ [][PartsNext]_allVars /\ Fairness

Owners == [k \in Key |-> IF k = mine THEN o1 ELSE o2]

\* Credentials of the first owner, which verify or have expired.
Basic == [scheme |-> "Basic", of |-> o1, valid |-> TRUE]
Bearer == [scheme |-> "Bearer", of |-> o1, valid |-> TRUE]
Expired == [scheme |-> "Basic", of |-> o1, valid |-> FALSE]

AllHeaders == {None, Basic, Bearer, Expired}

\* The container here is of the project of the agent.
Projects == [k \in Container |-> IF k = here THEN "project" ELSE "other"]
=============================================================================
