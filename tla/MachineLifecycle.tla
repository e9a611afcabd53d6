-------------------------- MODULE MachineLifecycle --------------------------
(****************************************************************************)
(* The machines of a profile: up, down and purge of the CLI, with the       *)
(* machine operations of core and the Lightsail driver.                     *)
(*                                                                          *)
(* Every command is a process of its own that looks at the provider and at  *)
(* the profile's store, decides, and acts; nothing locks either of them.  A *)
(* command that throws and one that is killed stop in the same way.         *)
(* Lightsail, its instances, snapshots and key pairs, is external.          *)
(****************************************************************************)
EXTENDS Naturals, FiniteSets

CONSTANTS
  Cli,          \* commands that run at the same time
  Env,          \* environment ids
  Bundle, DefaultBundle,   \* bundle sizes, ordered
  Wanted,       \* what --bundle-id may ask for
  None,
  MaxMachines, MaxKeys, MaxCommands, MaxFaults   \* bounds

ASSUME LifecycleAssumption ==
  /\ IsFiniteSet(Cli)
  /\ Bundle \subseteq Nat /\ DefaultBundle \in Bundle
  /\ None \notin Nat \cup Env
  /\ Wanted \subseteq Bundle \cup {None}
  /\ MaxMachines \in Nat /\ MaxKeys \in Nat /\ MaxCommands \in Nat /\ MaxFaults \in Nat

Id == 1 .. MaxMachines
KeyId == 1 .. MaxKeys

VARIABLES
  machines,     \* instances, by id
  snapshots,    \* instance snapshots, by the id of the machine they copy
  pairs,        \* key pairs at the provider, all with the region's alias
  stored,       \* the pair whose private key the profile store holds
  cli,          \* the commands
  created,      \* machines created so far
  started, faults,  \* counters of the bounds
  halfway,      \* history: machines whose command stopped before they were ready
  mislaid,      \* history: key pairs made by two commands at a time, or by one that
                \* stopped before it stored the private key
  crowded       \* history: environments for which two commands made a machine at a time

cloud == <<machines, snapshots, created>>
keys == <<pairs, stored>>
bounds == <<started, faults>>
history == <<halfway, mislaid, crowded>>
rest == <<bounds, history>>
vars == <<cloud, keys, cli, rest>>

\* The customization scripts, in their order: the limits of open files, docker, and
\* the exporter of the node's metrics.
Scripts == 3
HasDocker(scripts) == scripts >= 2

Machine == [env : Env, bundle : Bundle, key : KeyId,
            status : {"running", "deleting"}, scripts : 0 .. Scripts,
            metadata : Id \cup {None}]

Snapshot == [bundle : Bundle, status : {"pending", "available", "deleting"},
             scripts : 0 .. Scripts, metadata : Id \cup {None}]

Resource == ({"machine", "snapshot"} \X Id) \cup ({"keypair"} \X KeyId)

Origin == {"existing", "new-from-snapshot", "new-from-scratch"}

Stage == {"idle", "check", "replace", "plan", "key", "createKey", "writeKey",
          "create", "connect", "customize", "verify", "finalize", "ready",
          "find", "list", "delete", "done"}

Task == {"metadata", "findSnapshot", "createSnapshot"}

TypeOK ==
  /\ machines \in [Id -> Machine \cup {None}]
  /\ snapshots \in [Id -> Snapshot \cup {None}]
  /\ pairs \subseteq KeyId
  /\ stored \in KeyId \cup {None}
  /\ \A c \in Cli :
       /\ cli[c].at \in Stage
       /\ cli[c].env \in Env \cup {None}
       /\ cli[c].bundle \in Bundle \cup {None}
       /\ cli[c].machine \in Id \cup {None}
       /\ cli[c].snapshot \in Id \cup {None}
       /\ cli[c].origin \in Origin \cup {None}
       /\ cli[c].key \in KeyId \cup {None}
       /\ cli[c].todo \subseteq Resource \cup Task
       /\ cli[c].listed \subseteq Resource
  /\ created \in 0 .. MaxMachines
  /\ started \in 0 .. MaxCommands /\ faults \in 0 .. MaxFaults
  /\ halfway \subseteq Id /\ mislaid \subseteq KeyId /\ crowded \subseteq Env

Idle == [at |-> "idle", env |-> None, bundle |-> None, machine |-> None,
         snapshot |-> None, origin |-> None, key |-> None, todo |-> {},
         listed |-> {}]

Init ==
  /\ machines = [m \in Id |-> None]
  /\ snapshots = [m \in Id |-> None]
  /\ pairs = {} /\ stored = None
  /\ cli = [c \in Cli |-> Idle]
  /\ created = 0 /\ started = 0 /\ faults = 0
  /\ halfway = {} /\ mislaid = {} /\ crowded = {}

-----------------------------------------------------------------------------
(* Commands *)

At(c, stage) == cli[c].at = stage

Start(c, job) ==
  /\ At(c, "idle")
  /\ started < MaxCommands
  /\ started' = started + 1
  /\ cli' = [cli EXCEPT ![c] = job]
  /\ UNCHANGED <<cloud, keys, faults, history>>

\* The bound on machines leaves room for the commands that may create one.
Room == created + Cardinality({c \in Cli : cli[c].env # None}) < MaxMachines

Up(c, e, b) ==
  Room /\ Start(c, [Idle EXCEPT !.at = "check", !.env = e, !.bundle = b])
Down(c, e) == Start(c, [Idle EXCEPT !.at = "find", !.env = e])
Purge(c) == Start(c, [Idle EXCEPT !.at = "list"])

Go(c, stage) == cli' = [cli EXCEPT ![c].at = stage]
Stop(c) == cli' = [cli EXCEPT ![c] = Idle]

\* up has created its machine, and is not ready.
Making(c) == /\ cli[c].at \in {"connect", "customize", "verify", "finalize"}
             /\ cli[c].origin # "existing"

\* The command stops with its work undone.
StopShort(c) ==
  /\ Stop(c)
  /\ halfway' = IF Making(c) THEN halfway \cup {cli[c].machine} ELSE halfway
  /\ mislaid' = IF At(c, "writeKey") THEN mislaid \cup {cli[c].key} ELSE mislaid
  /\ UNCHANGED <<cloud, keys, crowded>>

\* A step of the command fails, or it is killed.
Fault(c) ==
  /\ ~At(c, "idle")
  /\ faults < MaxFaults
  /\ faults' = faults + 1
  /\ StopShort(c)
  /\ UNCHANGED started

\* The command has told the user how it went: up has its machine, or a
\* deletion with --wait is over.
Finish(c) ==
  /\ cli[c].at \in {"ready", "done"}
  /\ Stop(c)
  /\ UNCHANGED <<cloud, keys, rest>>

-----------------------------------------------------------------------------
(* ensureBareMachine *)

\* findInstance goes by the tags, whatever the state of the instance.
Found(e) == {m \in Id : machines[m] # None /\ machines[m].env = e}

SpecDiff(c, m) == cli[c].bundle # None /\ cli[c].bundle # machines[m].bundle

IsUp(m) == machines[m] # None /\ machines[m].status = "running"

\* up has decided to create a machine.
Decided(c) == cli[c].at \in {"replace", "plan", "key", "createKey", "writeKey", "create"}

\* Whoever decides so for the environment, with this machine to replace, is not the
\* only one, or does not replace the one that runs: it has found one that is deleted.
Crowds(e, m) ==
  \/ \E c \in Cli : Decided(c) /\ cli[c].env = e
  \/ \E n \in Found(e) : IsUp(n) /\ n # m

Decides(c, m) ==
  crowded' = IF Crowds(cli[c].env, m) THEN crowded \cup {cli[c].env} ELSE crowded

CheckMachine(c) ==
  /\ At(c, "check")
  /\ \/ Found(cli[c].env) = {} /\ Go(c, "plan") /\ Decides(c, None)
     \/ \E m \in Found(cli[c].env) :
          /\ cli' = [cli EXCEPT ![c].machine = m, ![c].origin = "existing",
                                ![c].at = IF SpecDiff(c, m) THEN "replace" ELSE "connect"]
          /\ IF SpecDiff(c, m) THEN Decides(c, m) ELSE UNCHANGED crowded
  /\ UNCHANGED <<cloud, keys, bounds, halfway, mislaid>>

\* Starts the deletion of a machine, or of a snapshot.
Deleting(set, m) == IF set[m] = None THEN set ELSE [set EXCEPT ![m].status = "deleting"]

\* Mutant of DeleteOld: the machine that differs is left running.
DeleteOldKept(c) ==
  /\ At(c, "replace")
  /\ Go(c, "plan")
  /\ UNCHANGED <<cloud, keys, rest>>

\* The deletion of the machine that is replaced is not waited for.
DeleteOld(c) ==
  /\ At(c, "replace")
  /\ machines' = Deleting(machines, cli[c].machine)
  /\ Go(c, "plan")
  /\ UNCHANGED <<snapshots, created, keys, rest>>

Requested(c) == IF cli[c].bundle = None THEN DefaultBundle ELSE cli[c].bundle

\* Snapshots of a bundle that fits on the requested one.
Suitable(c) ==
  {s \in Id : snapshots[s] # None /\ snapshots[s].bundle <= Requested(c)}

\* createMachine looks for a snapshot; one that is not available yet hides
\* the others.
PlanMachine(c) ==
  /\ At(c, "plan")
  /\ \E s \in IF Suitable(c) = {} THEN {None} ELSE Suitable(c) :
       LET have == s # None /\ snapshots[s].status = "available" IN
       cli' = [cli EXCEPT ![c].at = "key",
                 ![c].snapshot = IF have THEN s ELSE None,
                 ![c].origin = IF have THEN "new-from-snapshot" ELSE "new-from-scratch"]
  /\ UNCHANGED <<cloud, keys, rest>>

\* Mutant of FindKeyPair: the key pairs are not looked for.
FindKeyPairNever(c) ==
  /\ At(c, "key")
  /\ Go(c, "createKey")
  /\ UNCHANGED <<cloud, keys, rest>>

\* ensureStoredKeyPairName looks at the provider only, not at the store.
FindKeyPair(c) ==
  /\ At(c, "key")
  /\ \/ pairs = {} /\ Go(c, "createKey")
     \/ \E k \in pairs : cli' = [cli EXCEPT ![c].key = k, ![c].at = "create"]
  /\ UNCHANGED <<cloud, keys, rest>>

CreateKeyPair(c) ==
  /\ At(c, "createKey")
  /\ LET k == Cardinality(pairs) + 1 IN
       /\ k \in KeyId
       /\ pairs' = pairs \cup {k}
       /\ cli' = [cli EXCEPT ![c].key = k, ![c].at = "writeKey"]
       /\ mislaid' = IF \E d \in Cli \ {c} : cli[d].at \in {"createKey", "writeKey"}
                     THEN mislaid \cup {k} ELSE mislaid
  /\ UNCHANGED <<cloud, stored, bounds, halfway, crowded>>

WriteKey(c) ==
  /\ At(c, "writeKey")
  /\ stored' = cli[c].key
  /\ Go(c, "create")
  /\ UNCHANGED <<cloud, pairs, rest>>

\* The instance boots from the snapshot, with what that has on its disk.
CreateInstance(c) ==
  LET s == cli[c].snapshot
      disk == IF s = None THEN [scripts |-> 0, metadata |-> None] ELSE snapshots[s] IN
  /\ At(c, "create")
  /\ s # None => snapshots[s] # None
  /\ created' = created + 1
  /\ machines' = [machines EXCEPT ![created + 1] =
       [env |-> cli[c].env, bundle |-> Requested(c), key |-> cli[c].key,
        status |-> "running", scripts |-> disk.scripts, metadata |-> disk.metadata]]
  /\ cli' = [cli EXCEPT ![c].machine = created + 1, ![c].at = "connect"]
  /\ UNCHANGED <<snapshots, keys, rest>>

-----------------------------------------------------------------------------
(* ensureMachine *)

\* The machine the command works on.
Instance(c) == machines[cli[c].machine]

\* Commands can be run on it, while it is there.
Reachable(c) == Instance(c) # None

\* The private key comes from the store, whatever pair the machine has.
Connect(c) ==
  /\ At(c, "connect")
  /\ Reachable(c) /\ Instance(c).key = stored
  /\ Go(c, IF cli[c].origin = "new-from-scratch" THEN "customize" ELSE "verify")
  /\ UNCHANGED <<cloud, keys, rest>>

\* The scripts are run one after the other, each of them over the connection.
Customize(c) ==
  /\ At(c, "customize")
  /\ Reachable(c)
  /\ machines' = [machines EXCEPT ![cli[c].machine].scripts = @ + 1]
  /\ Go(c, IF Instance(c).scripts + 1 = Scripts THEN "verify" ELSE "customize")
  /\ UNCHANGED <<snapshots, created, keys, rest>>

Tasks(origin) ==
  CASE origin = "existing" -> {}
    [] origin = "new-from-snapshot" -> {"metadata"}
    [] origin = "new-from-scratch" -> {"metadata", "findSnapshot"}

\* Mutant of Verify: docker is not asked for its platform.
VerifyNothing(c) ==
  /\ At(c, "verify")
  /\ Reachable(c)
  /\ cli' = [cli EXCEPT ![c].at = "finalize", ![c].todo = Tasks(cli[c].origin)]
  /\ UNCHANGED <<cloud, keys, rest>>

\* docker runs hello-world after the scripts; getDockerPlatform throws on a machine
\* without docker, whoever has made that.
Verify(c) ==
  /\ At(c, "verify")
  /\ Reachable(c) /\ HasDocker(Instance(c).scripts)
  /\ cli' = [cli EXCEPT ![c].at = "finalize", ![c].todo = Tasks(cli[c].origin)]
  /\ UNCHANGED <<cloud, keys, rest>>

\* One of the tasks that run together is done, and may start another.
Does(c, task, next) ==
  /\ At(c, "finalize") /\ task \in cli[c].todo
  /\ cli' = [cli EXCEPT ![c].todo = (@ \ {task}) \cup next]
  /\ UNCHANGED <<keys, created, rest>>

WriteMetadata(c) ==
  /\ Does(c, "metadata", {})
  /\ Reachable(c)
  /\ machines' = [machines EXCEPT ![cli[c].machine].metadata = cli[c].machine]
  /\ UNCHANGED snapshots

\* ensureMachineSnapshot: any snapshot that fits will do, in any state.
FindSnapshot(c) ==
  /\ Does(c, "findSnapshot", IF Suitable(c) = {} THEN {"createSnapshot"} ELSE {})
  /\ UNCHANGED <<machines, snapshots>>

CreateSnapshot(c) ==
  /\ Does(c, "createSnapshot", {})
  /\ Reachable(c) /\ Instance(c).status = "running"
  /\ snapshots' = [snapshots EXCEPT ![cli[c].machine] =
       [bundle |-> Instance(c).bundle, status |-> "pending",
        scripts |-> Instance(c).scripts, metadata |-> Instance(c).metadata]]
  /\ UNCHANGED machines

\* up has its machine.
Ready(c) ==
  /\ At(c, "finalize") /\ cli[c].todo = {}
  /\ Go(c, "ready")
  /\ UNCHANGED <<cloud, keys, rest>>

\* The resource is there, perhaps on its way out.
Exists(r) ==
  CASE r[1] = "machine" -> machines[r[2]] # None
    [] r[1] = "snapshot" -> snapshots[r[2]] # None
    [] r[1] = "keypair" -> r[2] \in pairs

\* The command is at a step that throws: what it needs is not there.
Doomed(c) ==
  LET todo == cli[c].todo IN
  \/ At(c, "create") /\ cli[c].snapshot # None /\ snapshots[cli[c].snapshot] = None
  \/ At(c, "connect") /\ ~(Reachable(c) /\ Instance(c).key = stored)
  \/ At(c, "customize") /\ ~Reachable(c)
  \/ At(c, "verify") /\ ~(Reachable(c) /\ HasDocker(Instance(c).scripts))
  \/ At(c, "finalize") /\ "metadata" \in todo /\ ~Reachable(c)
  \/ /\ At(c, "finalize") /\ "createSnapshot" \in todo
     /\ ~(Reachable(c) /\ Instance(c).status = "running")
  \/ At(c, "delete") /\ \E r \in todo : r[1] # "keypair" /\ ~Exists(r)

Throw(c) ==
  /\ Doomed(c)
  /\ StopShort(c)
  /\ UNCHANGED bounds

-----------------------------------------------------------------------------
(* down and purge *)

\* down finds one machine of the environment, or has nothing to do.
FindMachine(c) ==
  /\ At(c, "find")
  /\ \/ Found(cli[c].env) = {} /\ Stop(c)
     \/ \E m \in Found(cli[c].env) :
          cli' = [cli EXCEPT ![c].at = "delete", ![c].todo = {<<"machine", m>>},
                             ![c].listed = {<<"machine", m>>}]
  /\ UNCHANGED <<cloud, keys, rest>>

Listed(types) == {r \in Resource : r[1] \in types /\ Exists(r)}

\* purge lists the resources of the given types, and asks before it goes on.
ListResources(c, types) ==
  /\ At(c, "list")
  /\ cli' = [cli EXCEPT ![c].at = "delete", ![c].todo = Listed(types),
                        ![c].listed = Listed(types)]
  /\ UNCHANGED <<cloud, keys, rest>>

\* deleteKey: the store's local file system resolves the name against the
\* working directory, and what the snapshot holds is written back.
DeleteStoredKey == stored

\* client.deleteKeyPair takes an alias and is given the name of the pair: no
\* pair has that alias.
DeleteProviderKeyPair(k) == pairs

\* deleteResources calls for all of them at once.
DeleteResource(c, r) ==
  /\ At(c, "delete") /\ r \in cli[c].todo
  /\ cli' = [cli EXCEPT ![c].todo = @ \ {r}]
  /\ \/ /\ r[1] = "machine" /\ Exists(r)
        /\ machines' = Deleting(machines, r[2])
        /\ UNCHANGED <<snapshots, keys>>
     \/ /\ r[1] = "snapshot" /\ Exists(r)
        /\ snapshots' = Deleting(snapshots, r[2])
        /\ UNCHANGED <<machines, keys>>
     \/ /\ r[1] = "keypair"
        /\ pairs' = DeleteProviderKeyPair(r[2])
        /\ stored' = DeleteStoredKey
        /\ UNCHANGED <<machines, snapshots>>
  /\ UNCHANGED <<created, rest>>

\* With --wait, the deletions of machines and snapshots are over.
DoneWaiting(c) ==
  /\ At(c, "delete") /\ cli[c].todo = {}
  /\ \A r \in cli[c].listed : r[1] # "keypair" => ~Exists(r)
  /\ Go(c, "done")
  /\ UNCHANGED <<cloud, keys, rest>>

\* Without it they have been started.
DoneStarted(c) ==
  /\ At(c, "delete") /\ cli[c].todo = {}
  /\ Stop(c)
  /\ UNCHANGED <<cloud, keys, rest>>

-----------------------------------------------------------------------------
(* Lightsail *)

Provider ==
  /\ \E m \in Id :
       \/ /\ machines[m] # None /\ machines[m].status = "deleting"
          /\ machines' = [machines EXCEPT ![m] = None]
          /\ UNCHANGED snapshots
       \/ /\ snapshots[m] # None /\ snapshots[m].status = "deleting"
          /\ snapshots' = [snapshots EXCEPT ![m] = None]
          /\ UNCHANGED machines
       \/ /\ snapshots[m] # None /\ snapshots[m].status = "pending"
          /\ snapshots' = [snapshots EXCEPT ![m].status = "available"]
          /\ UNCHANGED machines
  /\ UNCHANGED <<created, keys, cli, rest>>

-----------------------------------------------------------------------------
\* purge deletes machines unless it is told other types, or all of them.
PurgeTypes == {{"machine"}, {"machine", "snapshot", "keypair"}}

UpStep(c) ==
  \/ CheckMachine(c) \/ DeleteOld(c) \/ PlanMachine(c)
  \/ FindKeyPair(c) \/ CreateKeyPair(c) \/ WriteKey(c) \/ CreateInstance(c)
  \/ Connect(c) \/ Customize(c) \/ Verify(c)
  \/ WriteMetadata(c) \/ FindSnapshot(c) \/ CreateSnapshot(c)
  \/ Ready(c)

DownStep(c) ==
  \/ FindMachine(c) \/ \E types \in PurgeTypes : ListResources(c, types)
  \/ \E r \in cli[c].todo : DeleteResource(c, r)
  \/ DoneWaiting(c) \/ DoneStarted(c)

Step(c) == UpStep(c) \/ DownStep(c) \/ Throw(c)

Next ==
  \/ \E c \in Cli :
       \/ \E e \in Env : Down(c, e) \/ \E b \in Wanted : Up(c, e, b)
       \/ Purge(c) \/ Step(c) \/ Fault(c) \/ Finish(c)
  \/ Provider

\* The provider and a command that runs go on; users promise nothing.
Fairness == WF_vars(Provider) /\ \A c \in Cli : WF_vars(Step(c))

Spec == Init /\ [][Next]_vars /\ Fairness

-----------------------------------------------------------------------------
(* Properties *)

\* All scripts have run on the machine, and the metadata on it are its own.
Complete(m) == machines[m].scripts = Scripts /\ machines[m].metadata = m

\* When up says that the environment has its machine, docker runs on it, and it has
\* the size that was asked for.  It is complete, whatever disk it was started from,
\* but for one that up has found and that another command has not completed: that
\* has stopped, or is still at it.
ReadyUsable ==
  \A c \in Cli : (At(c, "ready") /\ Instance(c) # None) =>
    /\ HasDocker(Instance(c).scripts)
    /\ cli[c].bundle # None => Instance(c).bundle = cli[c].bundle
    /\ \/ Complete(cli[c].machine)
       \/ /\ cli[c].origin = "existing"
          /\ \/ cli[c].machine \in halfway
             \/ \E d \in Cli : Making(d) /\ cli[d].machine = cli[c].machine

\* However commands interleave and end, and however long deletions take, an
\* environment has one machine at most that runs, but for one for which two commands
\* have decided to create a machine before either had, or for which a command has
\* replaced the machine that was being deleted and not the one that ran.
OneMachinePerEnv ==
  \A m, n \in Id :
    (IsUp(m) /\ IsUp(n) /\ machines[m].env = machines[n].env /\ machines[m].env \notin crowded)
    => m = n

\* The stored private key opens every machine, or will when it is stored; but for
\* those of a key pair whose command stopped before it had stored the key, or that two
\* commands made because neither found one.
KeyUsable ==
  \A m \in Id : machines[m] # None =>
    \/ machines[m].key = stored
    \/ machines[m].key \in mislaid
    \/ \E c \in Cli : At(c, "writeKey") /\ cli[c].key = machines[m].key

=============================================================================
