------------------------------- MODULE KubePods -------------------------------
(****************************************************************************)
(* Environments in a Kubernetes cluster: the objects of an environment are  *)
(* rendered from a template and carry the labels of one instance, a random  *)
(* name; a StatefulSet among them runs the pod with the docker host.        *)
(*                                                                          *)
(* up, down and purge are processes of their own.  They find an environment *)
(* by the labels of its StatefulSet, and what else it consists of by the    *)
(* types that the StatefulSet's annotation and the template name.  The      *)
(* cluster, its controllers and its garbage collection, is external.        *)
(****************************************************************************)
EXTENDS Naturals, Sequences, FiniteSets

CONSTANTS
  Cli,          \* commands that run at the same time
  Env,          \* environment ids
  Template,     \* what a template renders to: sequences of kinds of objects
  Legacy,       \* the kinds of the objects of an environment of an older version
  None,
  Retries,      \* of a command in the pod whose connection is lost
  MaxInstances, MaxCommands, MaxFaults   \* bounds

\* Kinds of what is rendered.
gatherTypes(t) == {t[n] : n \in 1 .. Len(t)}

Kind == Legacy \cup {"Deployment", "StatefulSet", "PersistentVolumeClaim"}
             \cup UNION {gatherTypes(t) : t \in Template}

ASSUME KubeAssumption ==
  /\ None \notin Nat \cup Env \cup Template
  /\ None \notin [env : Env, template : Template \cup {None}]
  /\ "Deployment" \in Legacy /\ "StatefulSet" \notin Legacy
  /\ \A t \in Template : t \in Seq(gatherTypes(t)) /\ "PersistentVolumeClaim" \notin gatherTypes(t)
  /\ Retries \in Nat /\ MaxInstances \in Nat /\ MaxCommands \in Nat /\ MaxFaults \in Nat

Instance == 0 .. MaxInstances    \* in the order of their creation; 0 is the legacy one

Object == Instance \X Kind

VARIABLES
  object,       \* the state of every object, by instance and kind
  labels,       \* the metadata the objects of an instance carry
  pod,          \* the pod of an instance
  cli,          \* the commands
  created, started, faults,   \* counters of the bounds
  hurt,         \* history: instances that a command stopped on, or that were
                \* deleted before all of their objects were there
  overlapped    \* history: environments that two commands worked on at a time

cluster == <<object, labels, pod, created>>
bounds == <<started, faults, overlapped>>
vars == <<cluster, cli, bounds, hurt>>

Status == {"absent", "live", "marked", "ending", "gone"}

Stage == {"idle", "find", "delete", "create", "apply", "watch", "await",
          "connect", "exec", "socket", "ready", "done"}

Phase == {"none", "types", "list", "mark", "delete", "over"}

TypeOK ==
  /\ object \in [Instance -> [Kind -> Status]]
  /\ labels \in [Instance -> [env : Env, template : Template \cup {None}] \cup {None}]
  /\ pod \in [Instance -> {"none", "pending", "ready"}]
  /\ \A c \in Cli :
       /\ cli[c].at \in Stage /\ cli[c].job \in {"up", "down", "purge", None}
       /\ cli[c].env \in Env \cup {None} /\ cli[c].template \in Template \cup {None}
       /\ cli[c].wait \in BOOLEAN /\ cli[c].event \in BOOLEAN /\ cli[c].stdin \in BOOLEAN
       /\ cli[c].instance \in Instance /\ cli[c].applied \in Nat
       /\ cli[c].attempts \in 0 .. Retries + 1
       /\ cli[c].phase \in [Instance -> Phase]
       /\ \A s \in {"found", "left", "deleting", "starting", "watching", "missed"} :
            cli[c][s] \subseteq Object
  /\ created \in Instance /\ hurt \subseteq Instance /\ overlapped \subseteq Env
  /\ started \in 0 .. MaxCommands /\ faults \in 0 .. MaxFaults

Idle == [at |-> "idle", job |-> None, env |-> None, template |-> None,
         wait |-> FALSE, instance |-> 0, applied |-> 0, event |-> FALSE,
         stdin |-> FALSE, attempts |-> 0,
         phase |-> [i \in Instance |-> "none"], found |-> {}, left |-> {},
         deleting |-> {}, starting |-> {}, watching |-> {}, missed |-> {}]

Init ==
  /\ \E old \in Env \cup {None} :
       /\ object = [i \in Instance |-> [k \in Kind |->
            IF i = 0 /\ old # None /\ k \in Legacy THEN "live" ELSE "absent"]]
       /\ labels = [i \in Instance |->
            IF i = 0 /\ old # None THEN [env |-> old, template |-> None] ELSE None]
       /\ pod = [i \in Instance |-> IF i = 0 /\ old # None THEN "ready" ELSE "none"]
  /\ cli = [c \in Cli |-> Idle]
  /\ created = 0 /\ started = 0 /\ faults = 0 /\ hurt = {} /\ overlapped = {}

There(i, k) == object[i][k] \in {"live", "marked", "ending"}

Workload(i) == IF i = 0 THEN "Deployment" ELSE "StatefulSet"

\* What an instance consists of once its pod has started: the types in the
\* annotation of its StatefulSet.
addAllTypesAnnotation(t) == gatherTypes(t) \cup {"PersistentVolumeClaim"}

Whole(i) ==
  IF labels[i].template = None THEN Legacy ELSE addAllTypesAnnotation(labels[i].template)

-----------------------------------------------------------------------------
(* Commands *)

At(c, stage) == cli[c].at = stage

Go(c, stage) == cli' = [cli EXCEPT ![c].at = stage]

\* The instances a command has begun to create or to delete and is not done with.
Busy(c) ==
  {i \in Instance : \/ At(c, "apply") /\ cli[c].instance = i
                    \/ At(c, "delete") /\ cli[c].phase[i] \notin {"none", "over"}}

Touches(j) == IF j.job = "purge" THEN Env ELSE {j.env}

Start(c, j) ==
  /\ At(c, "idle")
  /\ started < MaxCommands
  /\ started' = started + 1
  /\ cli' = [cli EXCEPT ![c] = j]
  /\ overlapped' = overlapped \cup
       (Touches(j) \cap UNION {Touches(cli[d]) : d \in {x \in Cli : ~At(x, "idle")}})
  /\ UNCHANGED <<cluster, faults, hurt>>

Up(c, e, t) == Start(c, [Idle EXCEPT !.at = "find", !.job = "up", !.env = e, !.template = t])

Down(c, e, t, w) ==
  Start(c, [Idle EXCEPT !.at = "find", !.job = "down", !.env = e, !.template = t, !.wait = w])

Purge(c, t, w) ==
  Start(c, [Idle EXCEPT !.at = "find", !.job = "purge", !.template = t, !.wait = w])

Stop(c) == cli' = [cli EXCEPT ![c] = Idle] /\ hurt' = hurt \cup Busy(c)

\* A request fails, or the command is killed.
Fault(c) ==
  /\ ~At(c, "idle")
  /\ faults < MaxFaults
  /\ faults' = faults + 1
  /\ Stop(c)
  /\ UNCHANGED <<cluster, started, overlapped>>

Throw(c) == Stop(c) /\ UNCHANGED <<cluster, bounds>>

Finish(c) ==
  /\ cli[c].at \in {"ready", "done"}
  /\ Stop(c)
  /\ UNCHANGED <<cluster, bounds>>

-----------------------------------------------------------------------------
(* Finding an environment *)

listStatefulSets(S) == {i \in S : There(i, "StatefulSet")}

listDeployments(S) == {i \in S : There(i, "Deployment")}

\* The label selector of an environment's docker hosts that are not marked: other
\* objects of these kinds, which a template may have, do not carry the label.
envSelector(e, k) ==
  {i \in Instance : /\ labels[i] # None /\ labels[i].env = e
                    /\ k = Workload(i) /\ object[i][k] # "marked"}

mostRecent(S) == CHOOSE i \in S : \A j \in S : j <= i

\* A StatefulSet, or else a Deployment, of the environment.
findEnvObject(e) ==
  LET new == listStatefulSets(envSelector(e, "StatefulSet"))
      old == listDeployments(envSelector(e, "Deployment")) IN
  IF new # {} THEN mostRecent(new) ELSE IF old # {} THEN mostRecent(old) ELSE None

\* Mutant of specDiff: the template is not compared.
specDiffNever(c, i) == FALSE

specDiff(c, i) == labels[i].template # cli[c].template

listMachines == listStatefulSets(Instance) \cup listDeployments(Instance)

Targets(S) == [i \in Instance |-> IF i \in S THEN "types" ELSE "none"]

\* Mutant of FindForUp: the machine that differs is left as it is.
FindForUpKept(c) ==
  LET i == findEnvObject(cli[c].env) IN
  /\ At(c, "find") /\ cli[c].job = "up"
  /\ cli' = [cli EXCEPT ![c].instance = IF i = None THEN 0 ELSE i,
               ![c].at = IF i = None \/ specDiff(c, i) THEN "create" ELSE "connect"]
  /\ UNCHANGED <<cluster, bounds, hurt>>

\* getMachineAndSpecDiff and what ensureBareMachine makes of it.
FindForUp(c) ==
  LET i == findEnvObject(cli[c].env) IN
  /\ At(c, "find") /\ cli[c].job = "up"
  /\ cli' = [cli EXCEPT ![c] =
       IF i = None THEN [@ EXCEPT !.at = "create"]
       ELSE IF specDiff(c, i) THEN [@ EXCEPT !.at = "delete", !.phase = Targets({i})]
       ELSE [@ EXCEPT !.at = "connect", !.instance = i]]
  /\ UNCHANGED <<cluster, bounds, hurt>>

FindForDown(c) ==
  LET i == findEnvObject(cli[c].env) IN
  /\ At(c, "find") /\ cli[c].job = "down"
  /\ IF i = None THEN Throw(c)
     ELSE /\ cli' = [cli EXCEPT ![c].at = "delete", ![c].phase = Targets({i})]
          /\ UNCHANGED <<cluster, bounds, hurt>>

FindForPurge(c) ==
  /\ At(c, "find") /\ cli[c].job = "purge"
  /\ cli' = [cli EXCEPT ![c].at = "delete", ![c].phase = Targets(listMachines)]
  /\ UNCHANGED <<cluster, bounds, hurt>>

-----------------------------------------------------------------------------
(* deleteEnv, of every target at the same time *)

Deleting(c, i, phase) == At(c, "delete") /\ cli[c].phase[i] = phase

Of(i, set) == {o \in set : o[1] = i}

readAllTypesAnnotation(i) == Whole(i)

\* Mutant of findInstanceAllTypes: the template's types only.
findInstanceAllTypesTemplate(c, i) == gatherTypes(cli[c].template) \cup {"Deployment"}

\* The types on the StatefulSet's annotation, when it is there, and those of
\* the template that this command has.
findInstanceAllTypes(c, i) ==
  (IF There(i, "StatefulSet") THEN readAllTypesAnnotation(i) ELSE {})
    \cup gatherTypes(cli[c].template) \cup {"Deployment"}

FindTypes(c, i) ==
  /\ Deleting(c, i, "types")
  /\ cli' = [cli EXCEPT ![c].phase[i] = "list",
                        ![c].left = @ \cup ({i} \X findInstanceAllTypes(c, i))]
  /\ hurt' = IF object[i][Workload(i)] = "absent" THEN hurt \cup {i} ELSE hurt
  /\ UNCHANGED <<cluster, bounds>>

\* Some object of the instance is still to be created.
Incomplete(i) ==
  \/ \E k \in Whole(i) : object[i][k] = "absent"
  \/ \E d \in Cli : /\ At(d, "apply") /\ cli[d].instance = i
                    /\ cli[d].applied < Len(cli[d].template)

dynamicList(types) == {o \in types : There(o[1], o[2])}

\* The objects of those types with the label of the instance.
listInstanceObjects(c, i) ==
  /\ Deleting(c, i, "list")
  /\ LET have == dynamicList(Of(i, cli[c].left)) IN
       cli' = [cli EXCEPT ![c].phase[i] = "mark", ![c].found = @ \cup have,
                          ![c].left = (@ \ Of(i, @)) \cup have]
  /\ hurt' = IF Incomplete(i) THEN hurt \cup {i} ELSE hurt
  /\ UNCHANGED <<cluster, bounds>>

markObjectAsDeleted(s) == IF s = "live" THEN "marked" ELSE s

\* patch, with ignoreNonExisting: the object is read, and patched if it exists.
MarkObject(c, o) ==
  /\ Deleting(c, o[1], "mark") /\ o \in cli[c].left
  /\ object' = [object EXCEPT ![o[1]][o[2]] = markObjectAsDeleted(@)]
  /\ cli' = [cli EXCEPT ![c].left = @ \ {o}]
  /\ UNCHANGED <<labels, pod, created, bounds, hurt>>

AllMarked(c, i) ==
  /\ Deleting(c, i, "mark") /\ Of(i, cli[c].left) = {}
  /\ cli' = [cli EXCEPT ![c].phase[i] = "delete", ![c].left = @ \cup Of(i, cli[c].found)]
  /\ UNCHANGED <<cluster, bounds, hurt>>

\* Every object is read before it is deleted; deleteAndWait opens a watch, and
\* does not wait until that is established.
ReadObject(c, o) ==
  /\ Deleting(c, o[1], "delete") /\ o \in cli[c].left
  /\ cli' = [cli EXCEPT ![c].left = @ \ {o},
               ![c].deleting = IF There(o[1], o[2]) THEN @ \cup {o} ELSE @,
               ![c].starting = IF There(o[1], o[2]) /\ cli[c].wait THEN @ \cup {o} ELSE @]
  /\ UNCHANGED <<cluster, bounds, hurt>>

\* The watch reports the objects that are there, and the events from then on.
waitForDeletion(c, o) ==
  /\ o \in cli[c].starting
  /\ cli' = [cli EXCEPT ![c].starting = @ \ {o},
               ![c].watching = IF There(o[1], o[2]) THEN @ \cup {o} ELSE @,
               ![c].missed = IF There(o[1], o[2]) THEN @ ELSE @ \cup {o}]
  /\ UNCHANGED <<cluster, bounds, hurt>>

\* The DELETED event reaches the watches.
Notified(f, o) == [c \in Cli |-> [f[c] EXCEPT !.watching = @ \ {o}]]

\* A volume claim stays until no pod uses it.
Ends(o) == o[2] = "PersistentVolumeClaim" /\ pod[o[1]] # "none"

\* The deletion of an object that is gone by now fails.
DeleteObject(c, o) ==
  /\ o \in cli[c].deleting
  /\ IF There(o[1], o[2])
     THEN /\ object' = [object EXCEPT ![o[1]][o[2]] = IF Ends(o) THEN "ending" ELSE "gone"]
          /\ LET f == [cli EXCEPT ![c].deleting = @ \ {o}] IN
               cli' = IF Ends(o) THEN f ELSE Notified(f, o)
          /\ UNCHANGED <<labels, pod, created, bounds, hurt>>
     ELSE Throw(c)

Pending(c, i) ==
  Of(i, cli[c].left \cup cli[c].deleting \cup cli[c].starting \cup cli[c].watching
          \cup cli[c].missed)

Deleted(c, i) ==
  /\ Deleting(c, i, "delete") /\ Pending(c, i) = {}
  /\ cli' = [cli EXCEPT ![c].phase[i] = "over"]
  /\ UNCHANGED <<cluster, bounds, hurt>>

\* All of deleteResources is over: up goes on to create its machine.
AllDeleted(c) ==
  /\ At(c, "delete") /\ \A i \in Instance : cli[c].phase[i] \in {"none", "over"}
  /\ Go(c, IF cli[c].job = "up" THEN "create" ELSE "done")
  /\ UNCHANGED <<cluster, bounds, hurt>>

-----------------------------------------------------------------------------
(* createEnv *)

\* Two StatefulSets of a docker host are refused before anything is applied.
ensureSingleDockerHostStatefulSet(t) ==
  Cardinality({n \in 1 .. Len(t) : t[n] = "StatefulSet"}) <= 1

addEnvMetadata(c) == [env |-> cli[c].env, template |-> cli[c].template]

\* A random name for the instance; its objects get the labels and the time.
createEnv(c) ==
  /\ At(c, "create") /\ created < MaxInstances
  /\ IF ensureSingleDockerHostStatefulSet(cli[c].template)
     THEN /\ created' = created + 1
          /\ labels' = [labels EXCEPT ![created + 1] = addEnvMetadata(c)]
          /\ cli' = [cli EXCEPT ![c].at = "apply", ![c].instance = created + 1]
          /\ UNCHANGED <<object, pod, bounds, hurt>>
     ELSE Throw(c)

\* apply goes through the objects one by one, in the order of the template.
applyObject(c) ==
  LET n == cli[c].applied + 1
      i == cli[c].instance IN
  /\ At(c, "apply") /\ n <= Len(cli[c].template)
  /\ object' = [object EXCEPT ![i][cli[c].template[n]] = "live"]
  /\ cli' = [cli EXCEPT ![c].applied = n]
  /\ UNCHANGED <<labels, pod, created, bounds, hurt>>

findInstanceStatefulSet(c) ==
  /\ At(c, "apply") /\ cli[c].applied = Len(cli[c].template)
  /\ IF There(cli[c].instance, "StatefulSet")
     THEN Go(c, "watch") /\ UNCHANGED <<cluster, bounds, hurt>>
     ELSE Throw(c)

\* A pod of the StatefulSet that is ready.
findReadyPodForStatefulSet(i) == There(i, "StatefulSet") /\ pod[i] = "ready"

\* Through the ReplicaSet of the Deployment's revision.
findReadyPodForDeployment(i) == There(i, "Deployment") /\ pod[i] = "ready"

findReadyPod(i) ==
  IF i = 0 THEN findReadyPodForDeployment(i) ELSE findReadyPodForStatefulSet(i)

\* Mutant of waitForEvent: changes from now on only.
waitForEventNew(c) ==
  /\ At(c, "watch")
  /\ Go(c, "await")
  /\ UNCHANGED <<cluster, bounds, hurt>>

\* The watch starts with the present state of the StatefulSet.
waitForEvent(c) ==
  /\ At(c, "watch")
  /\ cli' = [cli EXCEPT ![c].at = "await", ![c].event = findReadyPod(cli[c].instance)]
  /\ UNCHANGED <<cluster, bounds, hurt>>

\* An event had all the replicas ready.
Replicated(c) ==
  /\ At(c, "await") /\ cli[c].event
  /\ Go(c, "connect")
  /\ UNCHANGED <<cluster, bounds, hurt>>

-----------------------------------------------------------------------------
(* The machine of an environment *)

\* A ready pod of the StatefulSet, or a StatefulSetNotReadyError.
machineConnection(c) ==
  /\ At(c, "connect")
  /\ IF findReadyPod(cli[c].instance)
     THEN /\ \E stdin \in BOOLEAN :
               cli' = [cli EXCEPT ![c].at = "exec", ![c].stdin = stdin]
          /\ UNCHANGED <<cluster, bounds, hurt>>
     ELSE Throw(c)

\* An attempt to run the command in the pod; it may have run even if the
\* connection is lost before that is known.
Attempt(c) ==
  cli' = [cli EXCEPT ![c].attempts = @ + 1]

ExecSuccess(c) ==
  /\ At(c, "exec")
  /\ cli' = [cli EXCEPT ![c].at = "socket", ![c].attempts = @ + 1]
  /\ UNCHANGED <<cluster, bounds, hurt>>

ExecFailure(c) == At(c, "exec") /\ Throw(c)

\* With input the command goes to kubectl, without it to the API, which is
\* tried again when the socket closes without a status.
Retried(c) == ~cli[c].stdin /\ cli[c].attempts < Retries

ExecDropped(c) ==
  /\ At(c, "exec")
  /\ IF Retried(c)
     THEN Attempt(c) /\ UNCHANGED <<cluster, bounds, hurt>>
     ELSE Throw(c)

\* The port of docker is forwarded from a pod that is looked for again.
dockerSocket(c) ==
  /\ At(c, "socket")
  /\ IF findReadyPodForStatefulSet(cli[c].instance)
     THEN Go(c, "ready") /\ UNCHANGED <<cluster, bounds, hurt>>
     ELSE Throw(c)

-----------------------------------------------------------------------------
(* The cluster *)

StartPod(i) ==
  /\ There(i, Workload(i)) /\ pod[i] = "none"
  /\ pod' = [pod EXCEPT ![i] = "pending"]
  /\ object' = [object EXCEPT ![i]["PersistentVolumeClaim"] = IF @ = "absent" THEN "live" ELSE @]
  /\ UNCHANGED <<labels, created, cli, bounds, hurt>>

PodReady(i) ==
  /\ There(i, Workload(i)) /\ pod[i] = "pending"
  /\ pod' = [pod EXCEPT ![i] = "ready"]
  /\ cli' = [c \in Cli |-> IF At(c, "await") /\ cli[c].instance = i
                           THEN [cli[c] EXCEPT !.event = TRUE] ELSE cli[c]]
  /\ UNCHANGED <<object, labels, created, bounds, hurt>>

PodFails(i) ==
  /\ pod[i] = "ready"
  /\ pod' = [pod EXCEPT ![i] = "pending"]
  /\ UNCHANGED <<object, labels, created, cli, bounds, hurt>>

PodGone(i) ==
  LET pvc == <<i, "PersistentVolumeClaim">> IN
  /\ ~There(i, Workload(i)) /\ pod[i] # "none"
  /\ pod' = [pod EXCEPT ![i] = "none"]
  /\ IF object[i]["PersistentVolumeClaim"] = "ending"
     THEN /\ object' = [object EXCEPT ![i]["PersistentVolumeClaim"] = "gone"]
          /\ cli' = Notified(cli, pvc)
     ELSE UNCHANGED <<object, cli>>
  /\ UNCHANGED <<labels, created, bounds, hurt>>

-----------------------------------------------------------------------------

Command(c) ==
  \/ FindForUp(c) \/ FindForDown(c) \/ FindForPurge(c)
  \/ \E i \in Instance :
       FindTypes(c, i) \/ listInstanceObjects(c, i) \/ AllMarked(c, i) \/ Deleted(c, i)
  \/ \E o \in cli[c].left : MarkObject(c, o) \/ ReadObject(c, o)
  \/ \E o \in cli[c].deleting : DeleteObject(c, o)
  \/ \E o \in cli[c].starting : waitForDeletion(c, o)
  \/ AllDeleted(c) \/ createEnv(c) \/ applyObject(c) \/ findInstanceStatefulSet(c)
  \/ waitForEvent(c) \/ Replicated(c) \/ machineConnection(c)
  \/ ExecSuccess(c) \/ ExecFailure(c) \/ ExecDropped(c) \/ dockerSocket(c) \/ Finish(c)

Controller(i) == StartPod(i) \/ PodReady(i) \/ PodGone(i)

Begin(c) ==
  \/ \E e \in Env, t \in Template : Up(c, e, t)
  \/ \E e \in Env, t \in Template, w \in BOOLEAN : Down(c, e, t, w)
  \/ \E t \in Template, w \in BOOLEAN : Purge(c, t, w)

Next ==
  \/ \E c \in Cli : Begin(c) \/ Command(c) \/ Fault(c)
  \/ \E i \in Instance : Controller(i) \/ PodFails(i)

Spec == Init /\ [][Next]_vars

-----------------------------------------------------------------------------
(* Properties *)

\* What is left of an instance without its workload, which no command finds
\* again, is what a command that failed left, or what was not there yet when
\* the instance was deleted.  Environments of an older version, which carry no
\* types, are left out: kinds that the template does not have stay.
OrphansExplained ==
  \A i \in 1 .. MaxInstances :
    (/\ \E k \in Kind : object[i][k] \in {"live", "marked"}
     /\ ~There(i, Workload(i))
     /\ \A c \in Cli : i \notin Busy(c))
    => i \in hurt

\* Commands that do not overlap leave an environment with one workload at
\* most that is not marked, even if they are killed: the one that is found.
OneInstancePerEnv ==
  \A e \in Env \ overlapped : \A i, j \in Instance :
    (/\ labels[i] # None /\ labels[i].env = e /\ object[i][Workload(i)] = "live"
     /\ labels[j] # None /\ labels[j].env = e /\ object[j][Workload(j)] = "live")
    => i = j

\* An up that no other command interfered with ends with a StatefulSet of its
\* environment and template that nobody has begun to delete.
ReadyAsAsked ==
  \A c \in Cli :
    (At(c, "ready") /\ cli[c].env \notin overlapped) =>
      /\ object[cli[c].instance]["StatefulSet"] = "live"
      /\ labels[cli[c].instance] = [env |-> cli[c].env, template |-> cli[c].template]

\* What a command waits for has come, or is still to come: the readiness of a
\* pod is not missed between the watch and the wait, and every watch of a deletion
\* is of an object that is there.  A watch that began too late, and a StatefulSet
\* that is deleted under the command that waits for it, are waited for forever.
\* And when a deletion with --wait is over, nothing of what it deleted is left.
WaitsEnd ==
  \A c \in Cli :
    /\ At(c, "await") =>
         cli[c].event \/ ~findReadyPod(cli[c].instance)
    /\ \A o \in cli[c].watching : There(o[1], o[2])
    /\ At(c, "done") /\ cli[c].wait => \A i \in 1 .. MaxInstances :
         cli[c].phase[i] = "over" /\ i \notin hurt /\ labels[i].env \notin overlapped =>
           \A k \in Kind : ~There(i, k)
=============================================================================
