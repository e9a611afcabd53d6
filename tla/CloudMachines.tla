---------------------------- MODULE CloudMachines ----------------------------
(****************************************************************************)
(* The machines of the Azure and of the GCE driver.  On Azure a machine is  *)
(* a resource group that up fills part by part, the virtual machine last;   *)
(* it is found by the tags of the virtual machine, or by those of the       *)
(* group.  On GCE it is an instance that the provider creates in one        *)
(* operation, found by its labels in whatever state it is.                  *)
(*                                                                          *)
(* up, down and purge are processes of their own.  The cloud is external.   *)
(****************************************************************************)
EXTENDS Naturals, FiniteSets

CONSTANTS
  Cli,              \* commands that run at the same time
  Env,              \* environment ids
  Size, DefaultSize,
  Wanted,           \* sizes that up asks for
  None,
  MaxMachines, MaxCommands, MaxFaults   \* bounds

ASSUME CloudAssumption ==
  /\ DefaultSize \in Size
  /\ None \notin Size \cup Env /\ None \notin {"up", "down", "purge"}
  /\ Wanted \subseteq Size \cup {None}
  /\ MaxMachines \in Nat \ {0, 1} /\ MaxCommands \in Nat /\ MaxFaults \in Nat

VARIABLES
  driver,      \* of the profile
  machine,     \* the machines; the first one is of another profile
  cli,         \* the commands
  created, started, faults,   \* counters of the bounds
  disturbed,   \* history: environments two commands worked on at a time, one
               \* stopped on, or looked up a machine of that was being deleted or
               \* is of another profile
  crowded      \* history: commands that did not run alone

bounds == <<started, faults>>
history == <<disturbed, crowded>>
vars == <<driver, machine, cli, created, bounds, history>>

Id == 0 .. MaxMachines

Own == Id \ {0}

Status == {"absent", "parts", "starting", "running", "stopped", "ending",
           "emptied", "gone"}

Stage == {"idle", "find", "get", "delete", "create", "parts", "vm", "start",
          "connect", "ready", "done"}

TypeOK ==
  /\ driver \in {"azure", "gce"}
  /\ \A m \in Id : /\ machine[m].env \in Env \cup {None}
                   /\ machine[m].size \in Size /\ machine[m].status \in Status
  /\ \A c \in Cli :
       /\ cli[c].at \in Stage /\ cli[c].job \in {"up", "down", "purge", None}
       /\ cli[c].env \in Env \cup {None} /\ cli[c].want \in Size \cup {None}
       /\ cli[c].wait \in BOOLEAN /\ cli[c].machine \in Id
       /\ cli[c].left \subseteq Id /\ cli[c].waits \subseteq Id /\ cli[c].listed \subseteq Id
  /\ created \in Id /\ started \in 0 .. MaxCommands /\ faults \in 0 .. MaxFaults
  /\ disturbed \subseteq Env /\ crowded \subseteq Cli

Idle == [at |-> "idle", job |-> None, env |-> None, want |-> None, wait |-> FALSE,
         machine |-> 0, left |-> {}, waits |-> {}, listed |-> {}]

NoMachine == [env |-> None, size |-> DefaultSize, status |-> "absent"]

\* An environment may have its machine already, another one whose deletion has
\* begun, and another profile may have one of the same id in the same
\* subscription or project.
Init ==
  /\ driver \in {"azure", "gce"}
  /\ \E e \in Env, there \in SUBSET {0, 1}, ending \in BOOLEAN :
       /\ ending => 1 \in there
       /\ created = IF ending THEN 2 ELSE IF 1 \in there THEN 1 ELSE 0
       /\ machine = [m \in Id |->
            IF m \in there THEN [NoMachine EXCEPT !.env = e, !.status = "running"]
            ELSE IF m = 2 /\ ending THEN [NoMachine EXCEPT !.env = e, !.status = "ending"]
            ELSE NoMachine]
  /\ cli = [c \in Cli |-> Idle]
  /\ started = 0 /\ faults = 0 /\ disturbed = {} /\ crowded = {}

-----------------------------------------------------------------------------
(* Commands *)

At(c, stage) == cli[c].at = stage

Go(c, stage) == cli' = [cli EXCEPT ![c].at = stage]

Unhurt == UNCHANGED faults

Hurt == faults < MaxFaults /\ faults' = faults + 1

Active == {c \in Cli : ~At(c, "idle")}

Touches(j) == IF j.job = "purge" THEN Env ELSE {j.env}

Start(c, j) ==
  /\ At(c, "idle")
  /\ started < MaxCommands
  /\ started' = started + 1
  /\ cli' = [cli EXCEPT ![c] = j]
  /\ disturbed' = disturbed \cup (Touches(j) \cap UNION {Touches(cli[d]) : d \in Active})
  /\ crowded' = IF Active = {} THEN {} ELSE crowded \cup {d \in Active : cli[d].job = "purge"}
                    \cup IF j.job = "purge" THEN {c} ELSE {}
  /\ UNCHANGED <<driver, machine, created, faults>>

Up(c, e, s) == Start(c, [Idle EXCEPT !.at = "find", !.job = "up", !.env = e, !.want = s])

Down(c, e, w) == Start(c, [Idle EXCEPT !.at = "find", !.job = "down", !.env = e, !.wait = w])

Purge(c, w) == Start(c, [Idle EXCEPT !.at = "find", !.job = "purge", !.wait = w])

\* The command ends before it is done.
Stop(c) ==
  /\ cli' = [cli EXCEPT ![c] = Idle]
  /\ disturbed' = disturbed \cup Touches(cli[c])
  /\ UNCHANGED <<driver, machine, created, crowded>>

\* A request fails, or the command is killed.
Fault(c) ==
  /\ ~At(c, "idle")
  /\ Hurt
  /\ Stop(c)
  /\ UNCHANGED started

Finish(c) ==
  /\ cli[c].at \in {"ready", "done"}
  /\ cli' = [cli EXCEPT ![c] = Idle]
  /\ UNCHANGED <<driver, machine, created, bounds, history>>

-----------------------------------------------------------------------------
(* What the drivers find *)

Is(m, set) == machine[m].status \in set

HasVm(m) == Is(m, {"starting", "running", "stopped", "ending"})

\* instanceError: on GCE a machine in any other status is a partial one.
instanceError(m) == ~Is(m, {"running"})

\* GCE filters by the labels of the profile and of the environment.
findEnvInstances(e) == {m \in Own : machine[m].env = e /\ HasVm(m)}

\* Mutant of findBestEnvInstance: the first instance, running or not.
findBestEnvInstanceFirst(e) == findEnvInstances(e)

\* An instance that runs, or else any.
findBestEnvInstance(e) ==
  LET ok == {m \in findEnvInstances(e) : ~instanceError(m)} IN
  IF ok = {} THEN findEnvInstances(e) ELSE ok

\* Azure goes by the tag of the environment alone, and takes the first
\* virtual machine that has it.
vmResources(e) == {m \in Id : machine[m].env = e /\ HasVm(m)}

vmSize(c) == IF cli[c].want = None THEN DefaultSize ELSE cli[c].want

\* Mutant of specDiff: the size of a machine is not looked at.
specDiffNone(c, m) == FALSE

\* On Azure the size has a default, which is compared as well.
specDiff(c, m) ==
  IF driver = "azure" THEN vmSize(c) # machine[m].size
  ELSE cli[c].want # None /\ cli[c].want # machine[m].size

\* ensureBareMachine with the machine that was found: it is connected to, or
\* deleted for another one.
Existing(c, m) ==
  cli' = [cli EXCEPT ![c].machine = m, ![c].left = {m}, ![c].listed = {m},
            ![c].at = IF cli[c].job = "up" /\ ~specDiff(c, m)
                           /\ (driver = "gce" => ~instanceError(m))
                      THEN "connect" ELSE "delete"]

\* No machine: up creates one, down has nothing to do.
Missing(c) ==
  IF cli[c].job = "up" THEN Go(c, "create") ELSE cli' = [cli EXCEPT ![c] = Idle]

FindInstance(c) ==
  /\ At(c, "find") /\ cli[c].job # "purge" /\ driver = "gce"
  /\ \/ findBestEnvInstance(cli[c].env) = {} /\ Missing(c)
     \/ \E m \in findBestEnvInstance(cli[c].env) : Existing(c, m)
  /\ UNCHANGED <<driver, machine, created, bounds, history>>

FindVmResource(c) ==
  /\ At(c, "find") /\ cli[c].job # "purge" /\ driver = "azure"
  /\ \/ vmResources(cli[c].env) = {} /\ Missing(c)
     \/ \E m \in vmResources(cli[c].env) :
          cli' = [cli EXCEPT ![c].at = "get", ![c].machine = m]
  /\ UNCHANGED <<driver, machine, created, bounds, history>>

\* Azure has an address for a virtual machine once it runs.
HasAddress(m) == Is(m, {"running"})

\* A virtual machine that is being deleted is taken for none, whatever others
\* the environment has.
GetVm(c) ==
  LET m == cli[c].machine IN
  /\ At(c, "get")
  /\ \/ HasAddress(m) /\ Existing(c, m)
     \/ Is(m, {"ending", "emptied", "gone"}) /\ Missing(c)
  /\ disturbed' = IF HasAddress(m) /\ m \in Own THEN disturbed
                  ELSE disturbed \cup {cli[c].env}
  /\ UNCHANGED <<driver, machine, created, bounds, crowded>>

Deletable == {m \in Own : HasVm(m) \/ (driver = "azure" /\ Is(m, {"parts", "emptied"}))}

\* On Azure the list fails when a virtual machine has no address.
Listable == driver = "azure" => \A m \in Own : ~Is(m, {"starting", "stopped"})

\* Mutant of ListMachines: the groups without a virtual machine are left out.
ListMachinesWhole(c) ==
  LET all == {m \in Own : HasVm(m)} IN
  /\ At(c, "find") /\ cli[c].job = "purge"
  /\ Listable
  /\ cli' = [cli EXCEPT ![c].at = "delete", ![c].left = all, ![c].listed = all]
  /\ UNCHANGED <<driver, machine, created, bounds, history>>

\* purge lists the instances of the profile; on Azure its resource groups,
\* with or without a virtual machine, and the address of each of those.
ListMachines(c) ==
  /\ At(c, "find") /\ cli[c].job = "purge"
  /\ Listable
  /\ cli' = [cli EXCEPT ![c].at = "delete", ![c].left = Deletable, ![c].listed = Deletable]
  /\ UNCHANGED <<driver, machine, created, bounds, history>>

-----------------------------------------------------------------------------
(* Deletion *)

\* Azure deletes the virtual machine of a group before the group.
Doom(m) ==
  machine' = [machine EXCEPT ![m].status =
    CASE @ = "parts" -> "emptied"
      [] @ \in {"starting", "running", "stopped"} -> "ending"
      [] OTHER -> @]

\* deleteResources runs one chain for each machine, all at once, the request for
\* its deletion first.
DeleteMachine(c, m) ==
  /\ At(c, "delete") /\ m \in cli[c].left
  /\ ~Is(m, {"gone"})
  /\ Doom(m)
  /\ cli' = [cli EXCEPT ![c].left = @ \ {m},
                        ![c].waits = IF cli[c].wait THEN @ \cup {m} ELSE @]
  /\ UNCHANGED <<driver, created, bounds, history>>

\* With --wait the chain of a machine goes on when the machine is gone.  On Azure
\* it then asks for the deletion of the group again; here that is accepted.
WaitForDeletion(c, m) ==
  /\ At(c, "delete") /\ m \in cli[c].waits
  /\ Is(m, {"gone"})
  /\ cli' = [cli EXCEPT ![c].waits = @ \ {m}]
  /\ UNCHANGED <<driver, machine, created, bounds, history>>

\* Every chain is at its end.
DeletesAsked(c) ==
  /\ At(c, "delete") /\ cli[c].left = {} /\ cli[c].waits = {}
  /\ Go(c, IF cli[c].job = "up" THEN "create" ELSE "done")
  /\ UNCHANGED <<driver, machine, created, bounds, history>>

-----------------------------------------------------------------------------
(* Creation *)

Create(c, m, status) ==
  machine' = [machine EXCEPT ![m] =
    [env |-> cli[c].env, size |-> vmSize(c), status |-> status]]

\* Mutant of newName: without its random end.
newNameOfEnv(c) ==
  {m \in Own : machine[m].env = cli[c].env} \cup
  {m \in Own : m = created + 1 /\ \A n \in Own : machine[n].env # cli[c].env}

\* The name of a machine has a random end.
newName(c) == {created + 1}

\* createVMInstance: the group comes first.
CreateGroup(c) ==
  /\ At(c, "create") /\ driver = "azure"
  /\ \E m \in newName(c) \cap Own :
       /\ Create(c, m, "parts")
       /\ created' = m
       /\ cli' = [cli EXCEPT ![c].at = "parts", ![c].machine = m]
  /\ UNCHANGED <<driver, bounds, history>>

\* The other parts are created in it one after the other, the network interface
\* from those before it.  How far that came makes no difference to what finds
\* the group later.
CreateParts(c) ==
  /\ At(c, "parts")
  /\ Is(cli[c].machine, {"parts"})
  /\ Go(c, "vm")
  /\ UNCHANGED <<driver, machine, created, bounds, history>>

createVirtualMachine(c) ==
  /\ At(c, "vm")
  /\ Is(cli[c].machine, {"parts"})
  /\ machine' = [machine EXCEPT ![cli[c].machine].status = "starting"]
  /\ Go(c, "start")
  /\ UNCHANGED <<driver, created, bounds, history>>

createInstance(c) ==
  /\ At(c, "create") /\ driver = "gce"
  /\ \E m \in newName(c) \cap Own :
       /\ Create(c, m, "starting")
       /\ created' = m
       /\ cli' = [cli EXCEPT ![c].at = "start", ![c].machine = m]
  /\ UNCHANGED <<driver, bounds, history>>

\* The operation is over; it may have failed.
waitForOperation(m) == ~Is(m, {"starting"})

Started(c) ==
  /\ At(c, "start")
  /\ waitForOperation(cli[c].machine)
  /\ IF driver = "gce" THEN HasVm(cli[c].machine) ELSE HasAddress(cli[c].machine)
  /\ Go(c, "connect")
  /\ UNCHANGED <<driver, machine, created, bounds, history>>

\* The machine has the key of its own profile.
Connect(c) ==
  /\ At(c, "connect")
  /\ Is(cli[c].machine, {"running"}) /\ cli[c].machine \in Own
  /\ Go(c, "ready")
  /\ UNCHANGED <<driver, machine, created, bounds, history>>

\* On Azure the second request for the deletion of a group that is gone may be
\* refused.  That ends the command, whatever the chains of other groups are at.
AskedAgain(c) ==
  driver = "azure" /\ At(c, "delete") /\ \E m \in cli[c].waits : Is(m, {"gone"})

\* The command is at a step that throws: what it needs is not there, or no more.
Doomed(c) ==
  LET m == cli[c].machine IN
  \/ At(c, "find") /\ cli[c].job = "purge" /\ ~Listable
  \/ At(c, "get") /\ Is(m, {"starting", "stopped"})
  \/ At(c, "delete") /\ \E n \in cli[c].left : Is(n, {"gone"})
  \/ AskedAgain(c)
  \/ cli[c].at \in {"parts", "vm"} /\ ~Is(m, {"parts"})
  \/ At(c, "start") /\ waitForOperation(m) /\
       ~IF driver = "gce" THEN HasVm(m) ELSE HasAddress(m)
  \/ At(c, "connect") /\ ~(Is(m, {"running"}) /\ m \in Own)

Throw(c) == Doomed(c) /\ Stop(c) /\ UNCHANGED bounds

-----------------------------------------------------------------------------
(* The cloud *)

Becomes(m, from, to) ==
  /\ Is(m, from)
  /\ machine' = [machine EXCEPT ![m].status = to]
  /\ UNCHANGED <<driver, cli, created, started, history>>

VmStarts(m) == Unhurt /\ Becomes(m, {"starting"}, "running")

\* GCE has no instance when its creation fails, Azure keeps what there is.
VmFails(m) ==
  Hurt /\ Becomes(m, {"starting"}, IF driver = "gce" THEN "gone" ELSE "stopped")

VmStops(m) == m \in Own /\ Hurt /\ Becomes(m, {"running"}, "stopped")

VmEnds(m) ==
  Unhurt /\ Becomes(m, {"ending"}, IF driver = "gce" THEN "gone" ELSE "emptied")

GroupEnds(m) == Unhurt /\ Becomes(m, {"emptied"}, "gone")

CommandStep(c) ==
  \/ FindInstance(c) \/ FindVmResource(c) \/ GetVm(c) \/ ListMachines(c)
  \/ \E m \in cli[c].left : DeleteMachine(c, m)
  \/ \E m \in cli[c].waits : WaitForDeletion(c, m)
  \/ DeletesAsked(c)
  \/ CreateGroup(c) \/ CreateParts(c) \/ createVirtualMachine(c)
  \/ createInstance(c) \/ Started(c) \/ Connect(c)
  \/ Throw(c) \/ Finish(c)

CloudStep(m) == VmStarts(m) \/ VmEnds(m) \/ GroupEnds(m)

\* The bound on machines leaves room for the commands that may create one.
Room == created + Cardinality({c \in Cli : cli[c].job = "up"}) < MaxMachines

Next ==
  \/ \E c \in Cli :
       \/ \E e \in Env, s \in Wanted : Room /\ Up(c, e, s)
       \/ \E e \in Env, w \in BOOLEAN : Down(c, e, w)
       \/ \E w \in BOOLEAN : Purge(c, w)
       \/ CommandStep(c) \/ Fault(c)
  \/ \E m \in Id : CloudStep(m) \/ VmFails(m) \/ VmStops(m)

Spec == Init /\ [][Next]_vars

-----------------------------------------------------------------------------
(* Properties *)

Life(m) ==
  CASE Is(m, {"absent"}) -> "none"
    [] Is(m, {"parts", "starting"}) -> "creating"
    [] Is(m, {"running"}) -> "up"
    [] OTHER -> "down"

\* The machines of a command's own profile that are there or are being created.
Alive(e) == {m \in Own : machine[m].env = e /\ Life(m) \in {"creating", "up"}}

\* Two machines of an environment come from two commands at a time, from one
\* that stopped on the way, or, on Azure, from a lookup that met a machine that
\* was being deleted, or that of another profile: the first virtual machine
\* with the tag decides (getInstance of the Azure client).
OneMachinePerEnv ==
  \A e \in Env \ disturbed : Cardinality(Alive(e)) =< 1

\* Where no other command was at work on the environment, up ends with a
\* machine of the environment and of the size that was asked for, not with one
\* that it or another command has deleted (ensureBareMachine).
ReadyAsAsked ==
  \A c \in Cli : At(c, "ready") /\ cli[c].env \notin disturbed =>
    /\ cli[c].machine \in Alive(cli[c].env) \/ Is(cli[c].machine, {"stopped"})
    /\ machine[cli[c].machine].env = cli[c].env
    /\ cli[c].want # None => machine[cli[c].machine].size = cli[c].want

\* What a deletion leaves behind: machines whose own deletion has begun, or with
\* --wait none at all.
Ended(c) == IF cli[c].wait THEN {"gone"} ELSE {"ending", "emptied", "gone"}

\* A deletion that succeeds has begun, or with --wait seen the end of, the
\* deletion of everything it found, in whatever order the chains of the machines
\* came to their ends (deleteResources); and, after a purge that ran alone, that
\* is everything of the profile, groups whose virtual machine was never created
\* included (listMachines).  Nothing is said of a command that threw.
PurgeLeavesNothing ==
  \A c \in Cli : At(c, "done") =>
    /\ \A m \in cli[c].listed : Is(m, Ended(c))
    /\ cli[c].job = "purge" /\ c \notin crowded =>
         \A m \in Own : Is(m, {"absent"} \cup Ended(c))

Lives(m) == INSTANCE MachineLife WITH life <- Life(m)

\* Every machine lives once: it implements the life that MachineLife describes,
\* and is whole at most once, whatever the commands do at the same time.
LivesOnce == (\A m \in Own : Lives(m)!Init) /\
  [][\A m \in Own : [Lives(m)!Next]_(Life(m))]_vars
=============================================================================
