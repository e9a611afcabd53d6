------------------------------- MODULE MCCli -------------------------------
(* Instances of Telemetry, Login, PullRequests, SshSession,                  *)
(* MachineSession and DriverFlags for TLC.  They share no state, so that a   *)
(* behaviour takes the steps of one of them, and `part` says of which.       *)
EXTENDS Telemetry, Login, PullRequests, SshSession, MachineSession, DriverFlags

CONSTANTS u1, u2, p1, p2, main, fix, plain, upper, j1, j2, key1, key2, d1, d2, v1

VARIABLE part

vars == <<part, telemetryVars, loginVars, prVars, sessionVars, machineVars, flagVars>>

Init ==
  /\ TelemetryInit /\ LoginInit /\ PrInit /\ SessionInit /\ MachineInit /\ FlagsInit
  /\ part \in {"telemetry", "login", "pull requests", "ssh session", "machine session",
              "driver flags"}
  /\ part # "driver flags" => config = NoConfig
  /\ part # "login" => members = {}
  /\ part # "ssh session" => known = {} /\ hostKey = key1

Next ==
  /\ part' = part
  /\ \/ /\ part = "telemetry" /\ TelemetryNext
        /\ UNCHANGED <<loginVars, prVars, sessionVars, machineVars, flagVars>>
     \/ /\ part = "login" /\ LoginNext
        /\ UNCHANGED <<telemetryVars, prVars, sessionVars, machineVars, flagVars>>
     \/ /\ part = "pull requests" /\ PrNext
        /\ UNCHANGED <<telemetryVars, loginVars, sessionVars, machineVars, flagVars>>
     \/ /\ part = "ssh session" /\ SessionNext
        /\ UNCHANGED <<telemetryVars, loginVars, prVars, machineVars, flagVars>>
     \/ /\ part = "machine session" /\ MachineNext
        /\ UNCHANGED <<telemetryVars, loginVars, prVars, sessionVars, flagVars>>
     \/ /\ part = "driver flags" /\ FlagsNext
        /\ UNCHANGED <<telemetryVars, loginVars, prVars, sessionVars, machineVars>>

Spec == Init /\ [][Next]_vars
=============================================================================
