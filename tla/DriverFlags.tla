----------------------------- MODULE DriverFlags ------------------------------
(****************************************************************************)
(* Where the drivers of a command get their flags from: the command line,   *)
(* the variables of the shell, the configuration of the compose file, the   *)
(* profile, and the driver's own defaults.  The profile is created once and *)
(* updated by commands that another process may run in the middle of this   *)
(* one.  A driver has two flags here: the place where its machines are, and *)
(* their size.                                                              *)
(****************************************************************************)
EXTENDS Naturals

CONSTANTS
  FlagValue,       \* what a flag may be given
  BuiltIn,         \* the value that is the default of the driver
  NoFlag,
  Driver,          \* those of the drivers that are used
  MaxUpdates, MaxRuns   \* bounds

ASSUME FlagAssumption ==
  /\ BuiltIn \in FlagValue /\ NoFlag \notin FlagValue \cup Driver
  /\ Driver \subseteq {"lightsail", "gce", "azure", "kube-pod"}
  /\ MaxUpdates \in Nat /\ MaxRuns \in Nat

VARIABLES
  profileDriver,   \* of the profile
  stored,          \* the flags of each driver in the profile
  chosen,          \* history: what was last chosen for them
  config,          \* what the compose file says of drivers
  command,         \* the command that uses the drivers
  updates, commands    \* counters of the bounds

flagVars == <<profileDriver, stored, chosen, config, command, updates, commands>>

Flag == {"place", "size"}

Value == FlagValue \cup {NoFlag}

Flags == [Flag -> Value]

NoFlags == [f \in Flag |-> NoFlag]

Over(first, second) ==
  [f \in Flag |-> IF first[f] = NoFlag THEN second[f] ELSE first[f]]

NoCommand == [at |-> "idle", driver |-> NoFlag, given |-> NoFlags, shell |-> NoFlags,
              defaults |-> NoFlags, finds |-> NoFlag, creates |-> NoFlags,
              creating |-> FALSE, changed |-> FALSE]

\* A compose file without x-preevy.
NoConfig == [driver |-> NoFlag, drivers |-> [d \in Driver |-> NoFlags]]

FlagsInit ==
  /\ profileDriver = NoFlag
  /\ stored = [d \in Driver |-> NoFlags] /\ chosen = stored
  /\ \E d \in Driver \cup {NoFlag}, e \in Driver, v \in Value \ {BuiltIn} :
       config = [NoConfig EXCEPT !.driver = d, !.drivers[e]["place"] = v]
  /\ command = NoCommand
  /\ updates = 0 /\ commands = 0

-----------------------------------------------------------------------------
(* The flags of a driver *)

\* region and bundle-id, with AWS_REGION
lightsailFlags == [required |-> {"place"}, default |-> {}, env |-> {"place"}]

\* project-id with zone, and machine-type
gceFlags == [required |-> {"place"}, default |-> {}, env |-> {}]

\* subscription-id with region, and vm-size
azureFlags == [required |-> {"place"}, default |-> {"size"}, env |-> {}]

\* namespace and storage-size
kubePodFlags == [required |-> {}, default |-> {"place", "size"}, env |-> {}]

machineDrivers(d) ==
  CASE d = "lightsail" -> lightsailFlags
    [] d = "gce" -> gceFlags
    [] d = "azure" -> azureFlags
    [] d = "kube-pod" -> kubePodFlags

defaultFlags(d) ==
  [f \in Flag |-> IF f \in machineDrivers(d).default THEN BuiltIn ELSE NoFlag]

\* v is the value of the variable in the shell.
shellFlags(d, v) == [f \in Flag |-> IF f \in machineDrivers(d).env THEN v ELSE NoFlag]

\* Flags that have their default are not stored.
excludeDefaultFlags(d, given) == [f \in Flag |->
  IF given[f] = defaultFlags(d)[f] THEN NoFlag ELSE given[f]]

-----------------------------------------------------------------------------
(* The profile *)

extractDriverFlags(d, parsed) == excludeDefaultFlags(d, parsed)

\* profile create stores what is parsed from its arguments and its shell.
profileCreate(d, args, shell) ==
  /\ profileDriver = NoFlag
  /\ profileDriver' = d
  /\ stored' = [stored EXCEPT ![d] = extractDriverFlags(d,
       Over(Over(args, shellFlags(d, shell)), defaultFlags(d)))]
  /\ UNCHANGED <<config, command, updates, commands>>

CreateProfile(d, args, shell) ==
  /\ profileCreate(d, args, shell)
  /\ chosen' = [chosen EXCEPT ![d] = Over(args, shellFlags(d, shell))]

\* The questions of a driver ask for what is required.
inquireFlags(d) == {answers \in Flags :
  \A f \in machineDrivers(d).required : answers[f] # NoFlag}

\* Defaults are not passed on as arguments.
formatFlagsToArgs(d, answers) == excludeDefaultFlags(d, answers)

\* init asks, and runs profile create with the answers.
InitProfile(d, answers, shell) ==
  /\ answers \in inquireFlags(d)
  /\ profileCreate(d, formatFlagsToArgs(d, answers), shell)
  /\ chosen' = [chosen EXCEPT ![d] = Over(answers, shellFlags(d, shell))]

Unset(flags, unset) == [f \in Flag |-> IF f \in unset THEN NoFlag ELSE flags[f]]

\* Mutant of validateUnset: the names to unset keep the prefix of the driver.
validateUnsetPrefixed(d, unset) == {}

\* Every flag of the driver may be unset, the required ones too.
validateUnset(d, unset) == unset

\* profile config update: defaults do not count, the variables of the shell do.
\* What is not given stays, of other drivers too.
UpdateProfileConfig(d, given, unset, shell) ==
  LET set == Over(given, shellFlags(d, shell)) IN
  /\ profileDriver # NoFlag /\ updates < MaxUpdates
  /\ updates' = updates + 1
  /\ profileDriver' = d
  /\ stored' = [stored EXCEPT ![d] = Over(set, Unset(@, validateUnset(d, unset)))]
  /\ chosen' = [chosen EXCEPT ![d] = Over(set, Unset(@, unset))]
  /\ command' = [command EXCEPT !.changed = TRUE]
  /\ UNCHANGED <<config, commands>>

-----------------------------------------------------------------------------
(* A command *)

FirstOf(a, b) == IF a = NoFlag THEN b ELSE a

driverName(flag) == FirstOf(flag, FirstOf(config.driver, profileDriver))

\* up, down and purge use both of the drivers; ls, logs and shell one.
RunCommand(flag, given, shell, creating) ==
  /\ command.at = "idle" /\ profileDriver # NoFlag /\ commands < MaxRuns
  /\ commands' = commands + 1
  /\ LET d == driverName(flag) IN
     command' = [NoCommand EXCEPT !.at = "driver", !.driver = d, !.creating = creating,
                   !.given = given, !.shell = shellFlags(d, shell),
                   !.defaults = defaultFlags(d)]
  /\ UNCHANGED <<profileDriver, stored, chosen, config, updates>>

flagDefaults(d) == Over(config.drivers[d], stored[d])

\* The flag definitions are shared by the two drivers of a process, and the
\* defaults that are found stay in them.
parsedFlags == Over(command.given, Over(command.shell,
                 Over(flagDefaults(command.driver), command.defaults)))

\* A required flag has no value.
Refused(flags) == \E f \in machineDrivers(command.driver).required : flags[f] = NoFlag

\* A driver looks for its machines at a place, and creates them of a size, too.
contextFromFlags(flags) == flags["place"]

machineCreationContextFromFlags(flags) == flags

UseDriver ==
  /\ command.at = "driver"
  /\ command' =
       IF Refused(parsedFlags) THEN [command EXCEPT !.at = "refused"]
       ELSE [command EXCEPT !.finds = contextFromFlags(parsedFlags),
               !.defaults["place"] = Over(flagDefaults(command.driver), command.defaults)["place"],
               !.at = IF command.creating THEN "creation driver" ELSE "done"]
  /\ UNCHANGED <<profileDriver, stored, chosen, config, updates, commands>>

UseMachineCreationDriver ==
  /\ command.at = "creation driver"
  /\ command' =
       IF Refused(parsedFlags) THEN [command EXCEPT !.at = "refused"]
       ELSE [command EXCEPT !.creates = machineCreationContextFromFlags(parsedFlags),
               !.at = "done"]
  /\ UNCHANGED <<profileDriver, stored, chosen, config, updates, commands>>

EndCommand ==
  /\ command.at \in {"done", "refused"}
  /\ command' = NoCommand
  /\ UNCHANGED <<profileDriver, stored, chosen, config, updates, commands>>

\* At most one flag is given at a time; the shell does not have a default.
OneFlag == {flags \in Flags : \E f \in Flag : flags[f] = NoFlag}

FlagsNext ==
  \/ \E d \in Driver, flags \in Flags, v \in Value \ {BuiltIn} :
       CreateProfile(d, flags, v) \/ InitProfile(d, flags, v)
  \/ \E d \in Driver, flags \in OneFlag, f \in SUBSET Flag, v \in Value \ {BuiltIn} :
       UpdateProfileConfig(d, flags, f, v)
  \/ \E flag \in Driver \cup {NoFlag}, flags \in OneFlag, v \in Value \ {BuiltIn}, c \in BOOLEAN :
       RunCommand(flag, flags, v, c)
  \/ UseDriver \/ UseMachineCreationDriver \/ EndCommand

-----------------------------------------------------------------------------
(* Properties *)

LastAsked == Over(command.given, Over(command.shell, Over(config.drivers[command.driver],
           Over(chosen[command.driver], defaultFlags(command.driver)))))

\* A command works where, and creates what, was last asked for, however the
\* answers came into the profile, which leaves out defaults, and whatever was
\* updated or unset in it, for other drivers too; and is refused only when
\* nothing says where to work.  Both of its drivers agree, unless the profile
\* was updated while it ran (driverFlags, extractDriverFlags).
AsAsked ==
  ~command.changed =>
    /\ command.at = "done" =>
         /\ command.finds = LastAsked["place"]
         /\ command.creating => command.creates = LastAsked
    /\ command.at = "refused" => Refused(LastAsked)
=============================================================================
