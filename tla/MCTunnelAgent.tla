---------------------------- MODULE MCTunnelAgent ----------------------------
(* Instances of TunnelAgent for TLC: the agent, and a service that can be    *)
(* public or private.                                                        *)
EXTENDS TunnelAgent

CONSTANTS api, webPublic, webPrivate, agent, web

Paths == [r \in Request |-> IF r = api THEN agent ELSE web]
=============================================================================
