----------------------------- MODULE KubeProofs -----------------------------
(****************************************************************************)
(* Proofs of what commands leave in a Kubernetes cluster and find there,    *)
(* for any templates, environments and commands that overlap and are killed *)
(* anywhere.                                                                *)
(*                                                                          *)
(* The invariant has four parts.  KubeBasis ties the instance of a command, *)
(* and what it deletes, to the labels of the cluster, and has commands that *)
(* meet in an environment overlap there.  HistoryOK says who looks after an *)
(* instance without its StatefulSet, OneOK what a command that is alone in  *)
(* its environment may take for granted, WaitsOK that what a command waits  *)
(* for is still to come.  A step is first reduced to what it does to the    *)
(* record of its command (KubeStep); every part is then kept step by step.  *)
(****************************************************************************)
EXTENDS KubePods, WellFoundedInduction, TLAPS

-----------------------------------------------------------------------------
(* Types *)

\* The record of a command.
KubeCommand ==
  [at : Stage, job : {"up", "down", "purge", None}, env : Env \cup {None},
   template : Template \cup {None}, wait : BOOLEAN, instance : Instance, applied : Nat,
   event : BOOLEAN, stdin : BOOLEAN, attempts : 0 .. Retries + 1,
   phase : [Instance -> Phase], found : SUBSET Object, left : SUBSET Object,
   deleting : SUBSET Object, starting : SUBSET Object, watching : SUBSET Object,
   missed : SUBSET Object]

KubeTypes ==
  /\ object \in [Instance -> [Kind -> Status]]
  /\ labels \in [Instance -> [env : Env, template : Template \cup {None}] \cup {None}]
  /\ pod \in [Instance -> {"none", "pending", "ready"}]
  /\ cli \in [Cli -> KubeCommand]
  /\ created \in Instance /\ hurt \subseteq Instance /\ overlapped \subseteq Env
  /\ started \in 0 .. MaxCommands /\ faults \in 0 .. MaxFaults
  /\ \A c \in Cli : cli[c].at \notin {"socket", "ready"} => cli[c].attempts <= Retries

LEMMA InstanceFacts ==
  /\ Instance \subseteq Nat /\ 0 \in Instance
  /\ \A i \in Instance : i + 1 \in Nat /\ (i < MaxInstances => i + 1 \in Instance)
  /\ None \notin Instance
<1>1. MaxInstances \in Nat /\ None \notin Nat
  BY KubeAssumption
<1>2. Instance \subseteq Nat /\ 0 \in Instance
  BY <1>1 DEF Instance
<1>3. \A i \in Instance : i + 1 \in Nat /\ (i < MaxInstances => i + 1 \in Instance)
  BY <1>1 DEF Instance
<1>. QED BY <1>1, <1>2, <1>3

LEMMA KindFacts ==
  /\ {"Deployment", "StatefulSet", "PersistentVolumeClaim"} \cup Legacy \subseteq Kind
  /\ \A t \in Template : gatherTypes(t) \subseteq Kind
  /\ \A i : Workload(i) \in Kind
BY DEF Kind, Workload

\* The instance that is the most recent of some is one of them.
LEMMA MostRecent ==
  ASSUME NEW S, S \subseteq Instance, S # {}
  PROVE  mostRecent(S) \in S
<1>. DEFINE B == {MaxInstances - i : i \in S}
<1>1. PICK R : R = OpToRel(<, Nat)
  OBVIOUS
<1>2. IsWellFoundedOn(R, Nat)
  BY <1>1, NatLessThanWellFounded
<1>3. R = {ss \in Nat \X Nat : ss[1] < ss[2]}
  BY <1>1 DEF OpToRel
<1>4. \A i \in S : i \in Nat /\ MaxInstances - i \in Nat
  BY KubeAssumption DEF Instance
<1>5. B \subseteq Nat /\ B # {}
  BY <1>4
<1>6. PICK b \in B : \A a \in B : <<a, b>> \notin R
  BY <1>2, <1>5, WFMin
<1>7. PICK i \in S : b = MaxInstances - i
  BY <1>6
<1>8. \A j \in S : j <= i
  <2>. TAKE j \in S
  <2>1. MaxInstances - j \in B /\ MaxInstances - j \in Nat /\ b \in Nat
    BY <1>4, <1>5
  <2>2. ~(MaxInstances - j < b)
    BY <1>3, <1>6, <2>1
  <2>. QED BY <1>4, <1>7, <2>2, KubeAssumption
<1>. QED BY <1>8 DEF mostRecent

LEMMA FoundInstance ==
  ASSUME NEW e
  PROVE  findEnvObject(e) \in Instance \cup {None}
<1>1. listStatefulSets(envSelector(e, "StatefulSet")) \subseteq Instance
  BY DEF listStatefulSets, envSelector
<1>2. listDeployments(envSelector(e, "Deployment")) \subseteq Instance
  BY DEF listDeployments, envSelector
<1>. QED BY <1>1, <1>2, MostRecent DEF findEnvObject

LEMMA IdleCommand ==
  /\ Idle \in KubeCommand /\ Idle.attempts <= Retries
  /\ Idle.at = "idle"
BY KubeAssumption, InstanceFacts DEF Idle, KubeCommand, Stage, Phase

LEMMA InitTypes == Init => KubeTypes
<1>. SUFFICES ASSUME Init PROVE KubeTypes
  OBVIOUS
<1>1. PICK old \in Env \cup {None} :
       /\ object = [i \in Instance |-> [k \in Kind |->
            IF i = 0 /\ old # None /\ k \in Legacy THEN "live" ELSE "absent"]]
       /\ labels = [i \in Instance |->
            IF i = 0 /\ old # None THEN [env |-> old, template |-> None] ELSE None]
       /\ pod = [i \in Instance |-> IF i = 0 /\ old # None THEN "ready" ELSE "none"]
  BY DEF Init
<1>. QED BY <1>1, IdleCommand, InstanceFacts, KubeAssumption DEF Init, KubeTypes, Status

Fresh(j) ==
  /\ j \in KubeCommand /\ j.at = "find" /\ j.attempts = 0 /\ j.template \in Template
  /\ Touches(j) \subseteq Env
  /\ \A i \in Instance : j.phase[i] = "none"
  /\ j.left = {} /\ j.deleting = {} /\ j.starting = {} /\ j.watching = {} /\ j.missed = {}

\* A command starts out with nothing to delete.
LEMMA StartsFresh ==
  ASSUME NEW c \in Cli, Begin(c)
  PROVE  \E j : Fresh(j) /\ Start(c, j)
<1>1. ASSUME NEW e \in Env, NEW t \in Template, Up(c, e, t)
      PROVE  \E j : Fresh(j) /\ Start(c, j)
  <2>. DEFINE j == [Idle EXCEPT !.at = "find", !.job = "up", !.env = e, !.template = t]
  <2>1. j \in KubeCommand
    BY IdleCommand DEF KubeCommand, Stage
  <2>2. Fresh(j)
    BY <2>1 DEF Fresh, Touches, Idle
  <2>. QED BY <1>1, <2>2 DEF Up
<1>2. ASSUME NEW e \in Env, NEW t \in Template, NEW w \in BOOLEAN, Down(c, e, t, w)
      PROVE  \E j : Fresh(j) /\ Start(c, j)
  <2>. DEFINE j == [Idle EXCEPT !.at = "find", !.job = "down",
                       !.env = e, !.template = t, !.wait = w]
  <2>1. j \in KubeCommand
    BY IdleCommand DEF KubeCommand, Stage
  <2>2. Fresh(j)
    BY <2>1 DEF Fresh, Touches, Idle
  <2>. QED BY <1>2, <2>2 DEF Down
<1>3. ASSUME NEW t \in Template, NEW w \in BOOLEAN, Purge(c, t, w)
      PROVE  \E j : Fresh(j) /\ Start(c, j)
  <2>. DEFINE j == [Idle EXCEPT !.at = "find", !.job = "purge", !.template = t, !.wait = w]
  <2>1. j \in KubeCommand
    BY IdleCommand DEF KubeCommand, Stage
  <2>2. Fresh(j)
    BY <2>1 DEF Fresh, Touches, Idle
  <2>. QED BY <1>3, <2>2 DEF Purge
<1>4. CASE \E e \in Env, t \in Template : Up(c, e, t)
  BY <1>1, <1>4
<1>5. CASE \E e \in Env, t \in Template, w \in BOOLEAN : Down(c, e, t, w)
  BY <1>2, <1>5
<1>6. CASE \E t \in Template, w \in BOOLEAN : Purge(c, t, w)
  BY <1>3, <1>6
<1>. QED BY <1>4, <1>5, <1>6 DEF Begin

LEMMA StartTypes ==
  ASSUME KubeTypes, NEW c \in Cli, NEW j, Fresh(j), Start(c, j)
  PROVE  KubeTypes'
<1>1. started' \in 0 .. MaxCommands
  BY KubeAssumption DEF Start, KubeTypes
<1>2. overlapped' \subseteq Env
  BY DEF Start, KubeTypes, Fresh
<1>3. 0 <= Retries
  BY KubeAssumption
<1>. QED BY <1>1, <1>2, <1>3 DEF Start, KubeTypes, cluster, Fresh

LEMMA StopTypes ==
  ASSUME KubeTypes, NEW c \in Cli, Stop(c), UNCHANGED <<cluster, started, overlapped>>,
         faults' \in 0 .. MaxFaults
  PROVE  KubeTypes'
BY IdleCommand DEF Stop, Busy, KubeTypes, cluster

-----------------------------------------------------------------------------
(* The basis of the invariant *)

\* Of an environment are the instances that were created, and the legacy one.
ClusterOK ==
  /\ \A i \in Instance : i > created => labels[i] = None
  /\ \A i \in 1 .. created : labels[i] \in [env : Env, template : Template]
  /\ labels[0] # None => labels[0].template = None
  /\ \A i \in Instance, k \in Kind :
       /\ object[i][k] = "ending" => k = "PersistentVolumeClaim"
       /\ object[i][k] # "absent" => labels[i] # None /\ (i > 0 => k \in Whole(i))

Creating == {"apply", "watch", "await"}

Connecting == {"connect", "exec", "socket", "ready"}

\* The parameters of a command, its instance, and what it deletes.
CommandOK(c) ==
  LET r == cli[c] IN
  ~At(c, "idle") =>
    /\ r.template \in Template /\ Touches(r) \subseteq Env
    /\ r.at \in {"create"} \cup Creating \cup Connecting => r.job = "up"
    /\ r.at \in Creating \cup Connecting =>
         r.instance > 0 /\ labels[r.instance] = addEnvMetadata(c)

PhaseOK(c) ==
  LET r == cli[c] IN
  \A i \in Instance :
    /\ r.phase[i] # "none" => /\ r.at \notin {"idle", "find"}
                              /\ labels[i] # None /\ labels[i].env \in Touches(r)
                              /\ r.at \in Creating => r.instance # i
    /\ r.phase[i] \notin {"none", "over"} => r.at = "delete"
    /\ \A k \in Kind :
         /\ <<i, k>> \in r.left => r.phase[i] \in {"list", "mark", "delete"}
         /\ <<i, k>> \in r.deleting \cup r.starting \cup r.watching \cup r.missed =>
              r.phase[i] = "delete"

\* No two commands create an instance, and commands that touch an environment
\* overlap there.
Apart ==
  \A c, d \in Cli : c # d =>
    /\ cli[c].at \in Creating /\ cli[d].at \in Creating => cli[c].instance # cli[d].instance
    /\ ~At(c, "idle") /\ ~At(d, "idle") =>
         Touches(cli[c]) \cap Touches(cli[d]) \subseteq overlapped

KubeBasis == KubeTypes /\ ClusterOK /\ (\A c \in Cli : CommandOK(c) /\ PhaseOK(c)) /\ Apart

\* What is found of an environment: the workload of an instance, when it is not marked.
Lives(i, e) == labels[i] # None /\ labels[i].env = e /\ object[i][Workload(i)] = "live"

-----------------------------------------------------------------------------
(* What a step does to the record of its command *)

Becomes(c, r) ==
  /\ r \in KubeCommand /\ cli' = [cli EXCEPT ![c] = r]
  /\ r.at \notin {"socket", "ready"} => r.attempts <= Retries

\* The parameters of a command stay.
Alike(r, x) == r.job = x.job /\ r.env = x.env /\ r.template = x.template /\ r.wait = x.wait

SameSets(r, x) ==
  /\ r.phase = x.phase /\ r.found = x.found /\ r.left = x.left /\ r.deleting = x.deleting
  /\ r.starting = x.starting /\ r.watching = x.watching /\ r.missed = x.missed

Same == UNCHANGED <<cluster, bounds, hurt>>

\* A step to another stage.
Moves(c, r) ==
  LET x == cli[c] IN
  /\ Becomes(c, r) /\ Alike(r, x) /\ SameSets(r, x) /\ Same
  /\ \/ /\ x.at = "find" /\ r.at = "create" /\ x.job = "up"
        /\ findEnvObject(x.env) = None
     \/ /\ x.at = "find" /\ r.at = "connect" /\ x.job = "up"
        /\ r.instance = findEnvObject(x.env) /\ labels[r.instance].template = x.template
     \/ /\ x.at = "delete" /\ \A i \in Instance : x.phase[i] \in {"none", "over"}
        /\ r.at = IF x.job = "up" THEN "create" ELSE "done"
     \/ /\ r.instance = x.instance
        /\ \/ /\ x.at = "apply" /\ r.at = "watch" /\ There(x.instance, "StatefulSet")
              /\ x.applied = Len(x.template)
           \/ x.at = "watch" /\ r.at = "await" /\ r.event = findReadyPod(x.instance)
           \/ x.at = "await" /\ r.at = "connect"
           \/ x.at \in Connecting /\ r.at \in Connecting

Aims(c, r, S) ==
  LET x == cli[c] IN
  /\ Becomes(c, r) /\ Alike(r, x) /\ Same
  /\ x.at = "find" /\ r.at = "delete" /\ r.phase = Targets(S) /\ S \subseteq Instance
  /\ \/ x.job \in {"up", "down"} /\ S = {findEnvObject(x.env)} /\ S # {None}
     \/ x.job = "purge" /\ S = listMachines
  /\ r.left = x.left /\ r.deleting = x.deleting /\ r.starting = x.starting
  /\ r.watching = x.watching /\ r.missed = x.missed

Stops(c) ==
  /\ Stop(c) /\ ~At(c, "idle") /\ UNCHANGED <<cluster, started, overlapped>>
  /\ faults' \in 0 .. MaxFaults

LEMMA MoveOf ==
  ASSUME KubeTypes, NEW c \in Cli, NEW s \in Stage,
         cli' = [cli EXCEPT ![c].at = s], s \notin {"socket", "ready"} => cli[c].attempts <= Retries
  PROVE  \E r : /\ Becomes(c, r) /\ Alike(r, cli[c]) /\ SameSets(r, cli[c])
                /\ r.at = s /\ r.instance = cli[c].instance
<1>. DEFINE r == [cli[c] EXCEPT !.at = s]
<1>1. cli[c] \in KubeCommand /\ cli' = [cli EXCEPT ![c] = r]
  BY DEF KubeTypes
<1>2. r \in KubeCommand
  BY <1>1 DEF KubeCommand
<1>3. /\ Alike(r, cli[c]) /\ SameSets(r, cli[c])
       /\ r.at = s /\ r.instance = cli[c].instance /\ r.attempts = cli[c].attempts
  BY <1>1 DEF Alike, SameSets, KubeCommand
<1>. QED BY <1>1, <1>2, <1>3 DEF Becomes

LEMMA FindForUpDoes ==
  ASSUME KubeTypes, NEW c \in Cli, FindForUp(c)
  PROVE  \E r : Moves(c, r) \/ (\E S : Aims(c, r, S))
<1>. DEFINE x == cli[c]
            i == findEnvObject(x.env)
<1>1. x \in KubeCommand /\ x.at = "find" /\ x.job = "up" /\ Same
      /\ cli' = [cli EXCEPT ![c] =
           IF i = None THEN [x EXCEPT !.at = "create"]
           ELSE IF specDiff(c, i) THEN [x EXCEPT !.at = "delete", !.phase = Targets({i})]
           ELSE [x EXCEPT !.at = "connect", !.instance = i]]
  BY DEF FindForUp, KubeTypes, At, Same
<1>2. i \in Instance \cup {None}
  BY FoundInstance
<1>3. CASE i = None
  <2>1. PICK r : /\ Becomes(c, r) /\ Alike(r, cli[c]) /\ SameSets(r, cli[c])
                 /\ r.at = "create" /\ r.instance = cli[c].instance
    BY <1>1, <1>3, MoveOf DEF KubeTypes, Stage
  <2>. QED BY <1>1, <1>3, <2>1 DEF Moves
<1>4. CASE i # None /\ specDiff(c, i)
  <2>. DEFINE r == [x EXCEPT !.at = "delete", !.phase = Targets({i})]
  <2>1. Targets({i}) \in [Instance -> Phase]
    BY DEF Targets, Phase
  <2>2. r \in KubeCommand /\ r.at = "delete" /\ r.phase = Targets({i}) /\ Alike(r, x)
        /\ r.left = x.left /\ r.deleting = x.deleting /\ r.starting = x.starting
        /\ r.watching = x.watching /\ r.missed = x.missed /\ r.attempts = x.attempts
    BY <1>1, <2>1 DEF KubeCommand, Stage, Alike
  <2>3. x.attempts <= Retries
    BY <1>1 DEF KubeTypes
  <2>4. Becomes(c, r)
    BY <1>1, <1>4, <2>2, <2>3 DEF Becomes
  <2>5. {i} \subseteq Instance /\ {i} # {None}
    BY <1>2, <1>4
  <2>6. Aims(c, r, {i})
    BY <1>1, <2>2, <2>4, <2>5 DEF Aims
  <2>. QED BY <2>6
<1>5. CASE i # None /\ ~specDiff(c, i)
  <2>. DEFINE r == [x EXCEPT !.at = "connect", !.instance = i]
  <2>2. r \in KubeCommand /\ r.at = "connect" /\ r.instance = i /\ Alike(r, x) /\ SameSets(r, x)
        /\ r.attempts = x.attempts
    BY <1>1, <1>2, <1>5 DEF KubeCommand, Stage, Alike, SameSets
  <2>3. x.attempts <= Retries
    BY <1>1 DEF KubeTypes
  <2>4. labels[i].template = x.template
    BY <1>5 DEF specDiff
  <2>. QED BY <1>1, <1>2, <1>5, <2>2, <2>3, <2>4 DEF Moves, Becomes
<1>. QED BY <1>3, <1>4, <1>5

LEMMA AimOf ==
  ASSUME KubeTypes, NEW c \in Cli, At(c, "find"), NEW S,
         cli' = [cli EXCEPT ![c].at = "delete", ![c].phase = Targets(S)]
  PROVE  \E r : /\ Becomes(c, r) /\ Alike(r, cli[c])
                /\ r.at = "delete" /\ r.phase = Targets(S)
                /\ r.left = cli[c].left /\ r.deleting = cli[c].deleting
                /\ r.starting = cli[c].starting
                /\ r.watching = cli[c].watching /\ r.missed = cli[c].missed
<1>. DEFINE x == cli[c]
            r == [x EXCEPT !.at = "delete", !.phase = Targets(S)]
<1>1. x \in KubeCommand /\ cli' = [cli EXCEPT ![c] = r] /\ x.attempts <= Retries
  BY DEF KubeTypes, At
<1>2. Targets(S) \in [Instance -> Phase]
  BY DEF Targets, Phase
<1>3. r \in KubeCommand /\ r.at = "delete" /\ r.phase = Targets(S) /\ Alike(r, x)
      /\ r.left = x.left /\ r.deleting = x.deleting /\ r.starting = x.starting
      /\ r.watching = x.watching /\ r.missed = x.missed /\ r.attempts = x.attempts
  BY <1>1, <1>2 DEF KubeCommand, Stage, Alike
<1>. QED BY <1>1, <1>3 DEF Becomes

LEMMA FindForDownDoes ==
  ASSUME KubeTypes, NEW c \in Cli, FindForDown(c) \/ FindForPurge(c)
  PROVE  Stops(c) \/ \E r, S : Aims(c, r, S)
<1>. DEFINE i == findEnvObject(cli[c].env)
<1>1. i \in Instance \cup {None} /\ listMachines \subseteq Instance
  BY FoundInstance DEF listMachines, listStatefulSets, listDeployments
<1>2. CASE FindForDown(c) /\ i = None
  BY <1>2 DEF FindForDown, Throw, Stops, At, bounds, KubeTypes
<1>3. CASE FindForDown(c) /\ i # None
  <2>1. At(c, "find") /\ cli[c].job = "down" /\ Same
        /\ cli' = [cli EXCEPT ![c].at = "delete", ![c].phase = Targets({i})]
    BY <1>3 DEF FindForDown, Same
  <2>2. PICK r : /\ Becomes(c, r) /\ Alike(r, cli[c])
                 /\ r.at = "delete" /\ r.phase = Targets({i})
                 /\ r.left = cli[c].left /\ r.deleting = cli[c].deleting
                 /\ r.starting = cli[c].starting
                 /\ r.watching = cli[c].watching /\ r.missed = cli[c].missed
    BY <2>1, AimOf
  <2>3. {i} \subseteq Instance /\ {i} # {None}
    BY <1>1, <1>3
  <2>4. Aims(c, r, {i})
    BY <2>1, <2>2, <2>3 DEF Aims, At
  <2>. QED BY <2>4
<1>4. CASE FindForPurge(c)
  <2>1. At(c, "find") /\ cli[c].job = "purge" /\ Same
        /\ cli' = [cli EXCEPT ![c].at = "delete", ![c].phase = Targets(listMachines)]
    BY <1>4 DEF FindForPurge, Same
  <2>2. PICK r : /\ Becomes(c, r) /\ Alike(r, cli[c])
                 /\ r.at = "delete" /\ r.phase = Targets(listMachines)
                 /\ r.left = cli[c].left /\ r.deleting = cli[c].deleting
                 /\ r.starting = cli[c].starting
                 /\ r.watching = cli[c].watching /\ r.missed = cli[c].missed
    BY <2>1, AimOf
  <2>3. Aims(c, r, listMachines)
    BY <1>1, <2>1, <2>2 DEF Aims, At
  <2>. QED BY <2>3
<1>. QED BY <1>2, <1>3, <1>4

\* What a command that deletes instance i goes on to.
Turns(c, i, p, q, r) ==
  LET x == cli[c] IN
  /\ Becomes(c, r) /\ Alike(r, x) /\ x.at = "delete" /\ r.at = "delete"
  /\ x.phase[i] = p /\ r.phase = [x.phase EXCEPT ![i] = q]
  /\ r.deleting = x.deleting /\ r.starting = x.starting /\ r.watching = x.watching
  /\ r.missed = x.missed
  /\ UNCHANGED <<cluster, bounds>>

Turned(c, i, p, q, l, f) ==
  /\ Deleting(c, i, p) /\ q \in Phase /\ l \in SUBSET Object /\ f \in SUBSET Object
  /\ cli' = [cli EXCEPT ![c] = [cli[c] EXCEPT !.phase = [cli[c].phase EXCEPT ![i] = q],
                                              !.left = l, !.found = f]]
  /\ UNCHANGED <<cluster, bounds>>

LEMMA TurnOf ==
  ASSUME KubeTypes, NEW c \in Cli, NEW i \in Instance, NEW p, NEW q, NEW l, NEW f,
         Turned(c, i, p, q, l, f)
  PROVE  \E r : Turns(c, i, p, q, r) /\ r.left = l /\ r.found = f
<1>. DEFINE x == cli[c]
            ph == [x.phase EXCEPT ![i] = q]
            r == [x EXCEPT !.phase = ph, !.left = l, !.found = f]
<1>1. x \in KubeCommand /\ x.attempts <= Retries /\ x.at = "delete" /\ x.phase[i] = p
      /\ q \in Phase /\ l \in SUBSET Object /\ f \in SUBSET Object
  BY DEF KubeTypes, Turned, Deleting, At
<1>2. cli' = [cli EXCEPT ![c] = r] /\ UNCHANGED <<cluster, bounds>>
  BY DEF Turned
<1>3. ph \in [Instance -> Phase]
  BY <1>1 DEF KubeCommand
<1>4. r \in KubeCommand /\ Alike(r, x) /\ r.at = x.at /\ r.phase = ph /\ r.attempts = x.attempts
      /\ r.deleting = x.deleting /\ r.starting = x.starting /\ r.watching = x.watching
      /\ r.missed = x.missed /\ r.left = l /\ r.found = f
  BY <1>1, <1>3 DEF KubeCommand, Alike
<1>. QED BY <1>1, <1>2, <1>4 DEF Turns, Becomes

LEMMA WholeFacts ==
  ASSUME KubeTypes, NEW i \in Instance, labels[i] # None
  PROVE  Whole(i) \subseteq Kind
<1>1. labels[i].template # None => labels[i].template \in Template
  BY DEF KubeTypes
<1>. QED BY <1>1, KindFacts DEF Whole, addAllTypesAnnotation

\* What becomes of the command in the steps of a deletion.
Typed(c, i, r) ==
  /\ FindTypes(c, i) /\ Turns(c, i, "types", "list", r) /\ r.found = cli[c].found
  /\ r.left = cli[c].left \cup ({i} \X findInstanceAllTypes(c, i))

Listed(c, i, r) ==
  LET have == dynamicList(Of(i, cli[c].left)) IN
  /\ listInstanceObjects(c, i) /\ Turns(c, i, "list", "mark", r)
  /\ r.found = cli[c].found \cup have
  /\ r.left = (cli[c].left \ Of(i, cli[c].left)) \cup have

Marked(c, i, r) ==
  /\ AllMarked(c, i) /\ Turns(c, i, "mark", "delete", r) /\ r.found = cli[c].found
  /\ r.left = cli[c].left \cup Of(i, cli[c].found)

Over(c, i, r) ==
  /\ Deleted(c, i) /\ Turns(c, i, "delete", "over", r) /\ r.found = cli[c].found
  /\ r.left = cli[c].left

LEMMA FindTypesDoes ==
  ASSUME KubeBasis, NEW c \in Cli, NEW i \in Instance, FindTypes(c, i)
  PROVE  \E r : Typed(c, i, r)
<1>. DEFINE x == cli[c]
            new == {i} \X findInstanceAllTypes(c, i)
            l == x.left \cup new
<1>1. x \in KubeCommand /\ Deleting(c, i, "types")
  BY DEF KubeBasis, KubeTypes, FindTypes
<1>2. KubeTypes /\ ClusterOK /\ CommandOK(c)
  BY DEF KubeBasis
<1>3. There(i, "StatefulSet") => Whole(i) \subseteq Kind
  BY <1>2, WholeFacts, KindFacts DEF ClusterOK, There
<1>4. gatherTypes(x.template) \subseteq Kind
  BY <1>1, <1>2, KindFacts DEF CommandOK, Deleting, At
<1>5. new \subseteq Object
  BY <1>3, <1>4, KindFacts DEF Object, findInstanceAllTypes, readAllTypesAnnotation
<1>6. l \in SUBSET Object /\ x.found \in SUBSET Object
  BY <1>1, <1>5 DEF KubeCommand
<1>7. cli' = [cli EXCEPT ![c] = [x EXCEPT !.phase = [x.phase EXCEPT ![i] = "list"],
                                          !.left = l, !.found = x.found]]
  BY <1>1 DEF FindTypes, KubeCommand
<1>8. UNCHANGED <<cluster, bounds>> /\ "list" \in Phase
  BY DEF FindTypes, Phase
<1>. HIDE DEF l
<1>9. Turned(c, i, "types", "list", l, x.found)
  BY <1>1, <1>6, <1>7, <1>8 DEF Turned
<1>10. \E r : Turns(c, i, "types", "list", r) /\ r.left = l /\ r.found = x.found
  BY <1>2, <1>9, TurnOf
<1>. QED BY <1>10 DEF l, Typed

LEMMA ListDoes ==
  ASSUME KubeTypes, NEW c \in Cli, NEW i \in Instance, listInstanceObjects(c, i)
  PROVE  \E r : Listed(c, i, r)
<1>. DEFINE x == cli[c]
            have == dynamicList(Of(i, cli[c].left))
            l == (x.left \ Of(i, x.left)) \cup have
            f == x.found \cup have
<1>1. x \in KubeCommand /\ Deleting(c, i, "list")
  BY DEF KubeTypes, listInstanceObjects
<1>2. l \in SUBSET Object /\ f \in SUBSET Object
  BY <1>1 DEF KubeCommand, dynamicList, Of
<1>3. cli' = [cli EXCEPT ![c] = [x EXCEPT !.phase = [x.phase EXCEPT ![i] = "mark"],
                                          !.left = l, !.found = f]]
  BY <1>1 DEF listInstanceObjects, KubeCommand
<1>4. UNCHANGED <<cluster, bounds>> /\ "mark" \in Phase
  BY DEF listInstanceObjects, Phase
<1>. HIDE DEF l, f
<1>5. Turned(c, i, "list", "mark", l, f)
  BY <1>1, <1>2, <1>3, <1>4 DEF Turned
<1>6. \E r : Turns(c, i, "list", "mark", r) /\ r.left = l /\ r.found = f
  BY <1>5, TurnOf
<1>. QED BY <1>6 DEF l, f, Listed

LEMMA AllMarkedDoes ==
  ASSUME KubeTypes, NEW c \in Cli, NEW i \in Instance, AllMarked(c, i)
  PROVE  \E r : Marked(c, i, r)
<1>. DEFINE x == cli[c]
            l == x.left \cup Of(i, x.found)
<1>1. x \in KubeCommand /\ Deleting(c, i, "mark")
  BY DEF KubeTypes, AllMarked
<1>2. l \in SUBSET Object /\ x.found \in SUBSET Object
  BY <1>1 DEF KubeCommand, Of
<1>3. cli' = [cli EXCEPT ![c] = [x EXCEPT !.phase = [x.phase EXCEPT ![i] = "delete"],
                                          !.left = l, !.found = x.found]]
  BY <1>1 DEF AllMarked, KubeCommand
<1>4. UNCHANGED <<cluster, bounds>> /\ "delete" \in Phase
  BY DEF AllMarked, Phase
<1>. HIDE DEF l
<1>5. Turned(c, i, "mark", "delete", l, x.found)
  BY <1>1, <1>2, <1>3, <1>4 DEF Turned
<1>6. \E r : Turns(c, i, "mark", "delete", r) /\ r.left = l /\ r.found = x.found
  BY <1>5, TurnOf
<1>. QED BY <1>6 DEF l, Marked

LEMMA DeletedDoes ==
  ASSUME KubeTypes, NEW c \in Cli, NEW i \in Instance, Deleted(c, i)
  PROVE  \E r : Over(c, i, r)
<1>. DEFINE x == cli[c]
<1>1. x \in KubeCommand /\ Deleting(c, i, "delete")
  BY DEF KubeTypes, Deleted
<1>2. x.left \in SUBSET Object /\ x.found \in SUBSET Object
  BY <1>1 DEF KubeCommand
<1>3. cli' = [cli EXCEPT ![c] = [x EXCEPT !.phase = [x.phase EXCEPT ![i] = "over"],
                                          !.left = x.left, !.found = x.found]]
  BY <1>1 DEF Deleted, KubeCommand
<1>4. UNCHANGED <<cluster, bounds>> /\ "over" \in Phase
  BY DEF Deleted, Phase
<1>5. Turned(c, i, "delete", "over", x.left, x.found)
  BY <1>1, <1>2, <1>3, <1>4 DEF Turned
<1>. QED BY <1>5, TurnOf DEF Over

\* What a command does with one object.
Handles(c, r) ==
  LET x == cli[c] IN
  /\ Becomes(c, r) /\ Alike(r, x) /\ r.at = x.at /\ r.instance = x.instance
  /\ r.applied = x.applied /\ r.event = x.event
  /\ r.phase = x.phase /\ r.found = x.found

Marks(c, o, r) ==
  /\ MarkObject(c, o) /\ Handles(c, r) /\ r.left = cli[c].left \ {o}
  /\ r.deleting = cli[c].deleting /\ r.starting = cli[c].starting
  /\ r.watching = cli[c].watching /\ r.missed = cli[c].missed

Reads(c, o, r) ==
  /\ ReadObject(c, o) /\ Handles(c, r) /\ r.left = cli[c].left \ {o}
  /\ r.deleting = IF There(o[1], o[2]) THEN cli[c].deleting \cup {o} ELSE cli[c].deleting
  /\ r.starting = IF There(o[1], o[2]) /\ cli[c].wait THEN cli[c].starting \cup {o}
                                                      ELSE cli[c].starting
  /\ r.watching = cli[c].watching /\ r.missed = cli[c].missed

Watches(c, o, r) ==
  /\ waitForDeletion(c, o) /\ Handles(c, r)
  /\ r.left = cli[c].left /\ r.deleting = cli[c].deleting
  /\ r.starting = cli[c].starting \ {o}
  /\ r.watching = IF There(o[1], o[2]) THEN cli[c].watching \cup {o} ELSE cli[c].watching
  /\ r.missed \subseteq cli[c].missed \cup {o}

LEMMA MarkDoes ==
  ASSUME KubeTypes, NEW c \in Cli, NEW o \in cli[c].left, MarkObject(c, o)
  PROVE  \E r : Marks(c, o, r)
<1>. DEFINE x == cli[c]
            r == [x EXCEPT !.left = @ \ {o}]
<1>1. x \in KubeCommand /\ x.at = "delete" /\ x.attempts <= Retries
  BY DEF KubeTypes, MarkObject, Deleting, At
<1>2. cli' = [cli EXCEPT ![c] = r]
  BY DEF MarkObject
<1>3. /\ r \in KubeCommand /\ Alike(r, x) /\ r.at = x.at /\ r.instance = x.instance
      /\ r.applied = x.applied /\ r.event = x.event /\ r.attempts = x.attempts
      /\ r.phase = x.phase /\ r.found = x.found /\ r.left = x.left \ {o}
      /\ r.deleting = x.deleting /\ r.starting = x.starting
      /\ r.watching = x.watching /\ r.missed = x.missed
  BY <1>1 DEF KubeCommand, Alike
<1>. QED BY <1>1, <1>2, <1>3 DEF Marks, Handles, Becomes

LEMMA ReadDoes ==
  ASSUME KubeTypes, NEW c \in Cli, NEW o \in cli[c].left, ReadObject(c, o)
  PROVE  \E r : Reads(c, o, r)
<1>. DEFINE x == cli[c]
            del == IF There(o[1], o[2]) THEN x.deleting \cup {o} ELSE x.deleting
            sta == IF There(o[1], o[2]) /\ x.wait THEN x.starting \cup {o} ELSE x.starting
            r == [x EXCEPT !.left = @ \ {o}, !.deleting = del, !.starting = sta]
<1>1. x \in KubeCommand /\ x.at = "delete" /\ x.attempts <= Retries
  BY DEF KubeTypes, ReadObject, Deleting, At
<1>2. cli' = [cli EXCEPT ![c] = r]
  BY <1>1 DEF ReadObject, KubeCommand
<1>3. del \subseteq Object /\ sta \subseteq Object
  BY <1>1 DEF KubeCommand
<1>. HIDE DEF del, sta
<1>4. /\ r \in KubeCommand /\ Alike(r, x) /\ r.at = x.at /\ r.instance = x.instance
      /\ r.applied = x.applied /\ r.event = x.event /\ r.attempts = x.attempts
      /\ r.phase = x.phase /\ r.found = x.found /\ r.left = x.left \ {o}
      /\ r.deleting = del /\ r.starting = sta
      /\ r.watching = x.watching /\ r.missed = x.missed
  BY <1>1, <1>3 DEF KubeCommand, Alike
<1>5. Handles(c, r)
  BY <1>1, <1>2, <1>4 DEF Handles, Becomes
<1>. QED BY <1>4, <1>5 DEF del, sta, Reads

LEMMA WaitDoes ==
  ASSUME KubeTypes, NEW c \in Cli, NEW o \in cli[c].starting, waitForDeletion(c, o)
  PROVE  \E r : Watches(c, o, r)
<1>. DEFINE x == cli[c]
            wat == IF There(o[1], o[2]) THEN x.watching \cup {o} ELSE x.watching
            mis == IF There(o[1], o[2]) THEN x.missed ELSE x.missed \cup {o}
            r == [x EXCEPT !.starting = @ \ {o}, !.watching = wat, !.missed = mis]
<1>1. x \in KubeCommand /\ (x.at \notin {"socket", "ready"} => x.attempts <= Retries)
  BY DEF KubeTypes
<1>2. cli' = [cli EXCEPT ![c] = r]
  BY <1>1 DEF waitForDeletion, KubeCommand
<1>3. wat \subseteq Object /\ mis \subseteq Object /\ mis \subseteq x.missed \cup {o}
  BY <1>1 DEF KubeCommand
<1>. HIDE DEF wat, mis
<1>4. /\ r \in KubeCommand /\ Alike(r, x) /\ r.at = x.at /\ r.instance = x.instance
      /\ r.applied = x.applied /\ r.event = x.event /\ r.attempts = x.attempts
      /\ r.phase = x.phase /\ r.found = x.found /\ r.left = x.left
      /\ r.deleting = x.deleting /\ r.starting = x.starting \ {o}
      /\ r.watching = wat /\ r.missed = mis
  BY <1>1, <1>3 DEF KubeCommand, Alike
<1>5. Handles(c, r)
  BY <1>1, <1>2, <1>4 DEF Handles, Becomes
<1>. QED BY <1>3, <1>4, <1>5 DEF wat, Watches

\* Events that reach commands: they change nothing but what these wait for.
Notices(d) ==
  LET r == cli'[d] x == cli[d] IN
  /\ Alike(r, x) /\ r.at = x.at /\ r.instance = x.instance /\ r.applied = x.applied
  /\ r.phase = x.phase /\ r.found = x.found /\ r.left = x.left
  /\ r.starting = x.starting /\ r.missed = x.missed /\ r.attempts = x.attempts

Unwatched(x, o) == [x EXCEPT !.watching = @ \ {o}]

LEMMA UnwatchedFacts ==
  ASSUME NEW x \in KubeCommand, NEW o, NEW r, r = Unwatched(x, o)
  PROVE  /\ r \in KubeCommand
         /\ Alike(r, x) /\ r.at = x.at /\ r.instance = x.instance /\ r.applied = x.applied
         /\ r.phase = x.phase /\ r.found = x.found /\ r.left = x.left
         /\ r.starting = x.starting /\ r.missed = x.missed /\ r.attempts = x.attempts
         /\ r.event = x.event /\ r.deleting = x.deleting /\ r.watching = x.watching \ {o}
BY DEF KubeCommand, Alike, Unwatched

LEMMA NotifiedDoes ==
  ASSUME NEW f, f \in [Cli -> KubeCommand], NEW o, cli' = Notified(f, o)
  PROVE  /\ cli' \in [Cli -> KubeCommand]
         /\ \A d \in Cli : cli'[d] = Unwatched(f[d], o)
<1>1. cli' = [d \in Cli |-> Unwatched(f[d], o)]
  BY DEF Notified, Unwatched
<1>2. \A d \in Cli : f[d] \in KubeCommand /\ Unwatched(f[d], o) \in KubeCommand
  BY UnwatchedFacts
<1>. QED BY <1>1, <1>2

\* The object is deleted, or waits for the pod.
Deletes(c, o) ==
  /\ DeleteObject(c, o) /\ There(o[1], o[2])
  /\ cli' \in [Cli -> KubeCommand]
  /\ \A d \in Cli :
       /\ Notices(d) /\ cli'[d].event = cli[d].event
       /\ cli'[d].deleting = IF d = c THEN cli[d].deleting \ {o} ELSE cli[d].deleting
       /\ cli'[d].watching = IF Ends(o) THEN cli[d].watching ELSE cli[d].watching \ {o}
  /\ object' = [object EXCEPT ![o[1]][o[2]] = IF Ends(o) THEN "ending" ELSE "gone"]
  /\ UNCHANGED <<labels, pod, created, bounds, hurt>>

Creates(c, r) ==
  /\ Becomes(c, r) /\ Alike(r, cli[c]) /\ SameSets(r, cli[c])
  /\ cli[c].at = "create" /\ r.at = "apply" /\ r.instance = created + 1
  /\ r.applied = cli[c].applied
  /\ ensureSingleDockerHostStatefulSet(cli[c].template)
  /\ created < MaxInstances /\ created' = created + 1
  /\ labels' = [labels EXCEPT ![created + 1] = addEnvMetadata(c)]
  /\ UNCHANGED <<object, pod, bounds, hurt>>

AppliesNext(c, r) ==
  LET x == cli[c] n == x.applied + 1 IN
  /\ Becomes(c, r) /\ Alike(r, x) /\ SameSets(r, x) /\ x.at = "apply" /\ r.at = "apply"
  /\ r.instance = x.instance /\ n <= Len(x.template) /\ r.applied = n
  /\ object' = [object EXCEPT ![x.instance][x.template[n]] = "live"]
  /\ UNCHANGED <<labels, pod, created, bounds, hurt>>

ReadyFor(i) ==
  /\ PodReady(i) /\ cli' \in [Cli -> KubeCommand]
  /\ \A d \in Cli :
       /\ Notices(d) /\ cli'[d].deleting = cli[d].deleting /\ cli'[d].watching = cli[d].watching
       /\ cli'[d].event = IF At(d, "await") /\ cli[d].instance = i THEN TRUE ELSE cli[d].event

GoneFor(i) ==
  /\ PodGone(i) /\ cli' \in [Cli -> KubeCommand]
  /\ \A d \in Cli :
       /\ Notices(d) /\ cli'[d].deleting = cli[d].deleting /\ cli'[d].event = cli[d].event
       /\ cli'[d].watching = IF object[i]["PersistentVolumeClaim"] = "ending"
                             THEN cli[d].watching \ {<<i, "PersistentVolumeClaim">>}
                             ELSE cli[d].watching

LEMMA DeleteDoes ==
  ASSUME KubeTypes, NEW c \in Cli, NEW o \in cli[c].deleting, DeleteObject(c, o), There(o[1], o[2])
  PROVE  Deletes(c, o)
<1>. DEFINE r == [cli[c] EXCEPT !.deleting = @ \ {o}]
            f == [cli EXCEPT ![c].deleting = @ \ {o}]
<1>1. cli \in [Cli -> KubeCommand] /\ cli[c] \in KubeCommand /\ f = [cli EXCEPT ![c] = r]
  BY DEF KubeTypes
<1>2. /\ r \in KubeCommand
      /\ Alike(r, cli[c]) /\ r.at = cli[c].at /\ r.instance = cli[c].instance
      /\ r.applied = cli[c].applied /\ r.phase = cli[c].phase /\ r.found = cli[c].found
      /\ r.left = cli[c].left /\ r.starting = cli[c].starting /\ r.missed = cli[c].missed
      /\ r.attempts = cli[c].attempts /\ r.event = cli[c].event
      /\ r.deleting = cli[c].deleting \ {o} /\ r.watching = cli[c].watching
  BY <1>1 DEF KubeCommand, Alike
<1>3. /\ cli' = IF Ends(o) THEN f ELSE Notified(f, o)
      /\ object' = [object EXCEPT ![o[1]][o[2]] = IF Ends(o) THEN "ending" ELSE "gone"]
      /\ UNCHANGED <<labels, pod, created, bounds, hurt>>
  BY DEF DeleteObject
<1>. HIDE DEF r
<1>4. f \in [Cli -> KubeCommand] /\ f[c] = r /\ \A d \in Cli : d # c => f[d] = cli[d]
  BY <1>1, <1>2
<1>. HIDE DEF f
<1>5. CASE Ends(o)
  <2>1. cli' = f
    BY <1>3, <1>5
  <2>. QED BY <1>1, <1>2, <1>3, <1>4, <1>5, <2>1 DEF Notices, Alike, Deletes
<1>6. CASE ~Ends(o)
  <2>1. cli' \in [Cli -> KubeCommand] /\ \A d \in Cli : cli'[d] = Unwatched(f[d], o)
    BY <1>3, <1>4, <1>6, NotifiedDoes
  <2>2. ASSUME NEW d \in Cli
        PROVE  LET y == cli'[d] x == f[d] IN
         /\ Alike(y, x) /\ y.at = x.at /\ y.instance = x.instance /\ y.applied = x.applied
         /\ y.phase = x.phase /\ y.found = x.found /\ y.left = x.left
         /\ y.starting = x.starting /\ y.missed = x.missed /\ y.attempts = x.attempts
         /\ y.event = x.event /\ y.deleting = x.deleting /\ y.watching = x.watching \ {o}
    BY <1>4, <2>1, UnwatchedFacts
  <2>3. ASSUME NEW d \in Cli
        PROVE  /\ Notices(d) /\ cli'[d].event = cli[d].event
               /\ cli'[d].deleting = IF d = c THEN cli[d].deleting \ {o} ELSE cli[d].deleting
               /\ cli'[d].watching = cli[d].watching \ {o}
    <3>1. CASE d = c
      BY <1>2, <1>4, <2>2, <3>1 DEF Notices, Alike
    <3>2. CASE d # c
      <4>1. f[d] = cli[d]
        BY <1>4, <3>2
      <4>. QED BY <2>2, <3>2, <4>1 DEF Notices, Alike
    <3>. QED BY <3>1, <3>2
  <2>. QED BY <1>3, <1>6, <2>1, <2>3 DEF Deletes
<1>. QED BY <1>5, <1>6

LEMMA CreateDoes ==
  ASSUME KubeTypes, NEW c \in Cli, createEnv(c), cli[c].env \in Env, cli[c].template \in Template
  PROVE  \/ Stops(c)
         \/ \E r : Creates(c, r)
<1>. DEFINE x == cli[c]
            r == [x EXCEPT !.at = "apply", !.instance = created + 1]
<1>1. x \in KubeCommand /\ x.at = "create" /\ x.attempts <= Retries /\ created < MaxInstances
  BY DEF KubeTypes, createEnv, At
<1>2. created + 1 \in Instance
  BY <1>1, InstanceFacts DEF KubeTypes
<1>3. CASE ensureSingleDockerHostStatefulSet(x.template)
  <2>1. /\ r \in KubeCommand /\ Alike(r, x) /\ SameSets(r, x) /\ r.at = "apply"
        /\ r.instance = created + 1 /\ r.applied = x.applied /\ r.attempts = x.attempts
    BY <1>1, <1>2 DEF KubeCommand, Stage, Alike, SameSets
  <2>2. /\ cli' = [cli EXCEPT ![c] = r] /\ created' = created + 1
        /\ labels' = [labels EXCEPT ![created + 1] = addEnvMetadata(c)]
        /\ UNCHANGED <<object, pod, bounds, hurt>>
    BY <1>3 DEF createEnv
  <2>3. Becomes(c, r)
    BY <1>1, <2>1, <2>2 DEF Becomes
  <2>. QED BY <1>1, <1>3, <2>1, <2>2, <2>3 DEF Creates
<1>4. CASE ~ensureSingleDockerHostStatefulSet(x.template)
  BY <1>1, <1>4 DEF createEnv, Throw, Stops, At, bounds, KubeTypes
<1>. QED BY <1>3, <1>4

LEMMA ApplyDoes ==
  ASSUME KubeTypes, NEW c \in Cli, applyObject(c)
  PROVE  \E r : AppliesNext(c, r)
<1>. DEFINE x == cli[c]
            r == [x EXCEPT !.applied = x.applied + 1]
<1>1. x \in KubeCommand /\ x.at = "apply" /\ x.attempts <= Retries
  BY DEF KubeTypes, applyObject, At
<1>2. /\ r \in KubeCommand /\ Alike(r, x) /\ SameSets(r, x) /\ r.at = x.at
      /\ r.instance = x.instance /\ r.applied = x.applied + 1 /\ r.attempts = x.attempts
  BY <1>1 DEF KubeCommand, Alike, SameSets
<1>3. cli' = [cli EXCEPT ![c] = r]
  BY DEF applyObject
<1>4. Becomes(c, r)
  BY <1>1, <1>2, <1>3 DEF Becomes
<1>5. /\ x.applied + 1 <= Len(x.template)
      /\ object' = [object EXCEPT ![x.instance][x.template[x.applied + 1]] = "live"]
      /\ UNCHANGED <<labels, pod, created, bounds, hurt>>
  BY DEF applyObject
<1>. QED BY <1>1, <1>2, <1>4, <1>5 DEF AppliesNext

LEMMA ReadyDoes ==
  ASSUME KubeTypes, NEW i \in Instance, PodReady(i)
  PROVE  ReadyFor(i)
<1>1. \A d \in Cli : cli[d] \in KubeCommand
  BY DEF KubeTypes
<1>2. cli' = [d \in Cli |-> IF At(d, "await") /\ cli[d].instance = i
                            THEN [cli[d] EXCEPT !.event = TRUE] ELSE cli[d]]
  BY DEF PodReady
<1>3. ASSUME NEW d \in Cli, At(d, "await"), cli[d].instance = i
      PROVE  /\ cli'[d] \in KubeCommand /\ Notices(d) /\ cli'[d].deleting = cli[d].deleting
             /\ cli'[d].watching = cli[d].watching /\ cli'[d].event = TRUE
  <2>1. cli'[d] = [cli[d] EXCEPT !.event = TRUE]
    BY <1>2, <1>3
  <2>. QED BY <1>1, <2>1 DEF KubeCommand, Notices, Alike
<1>4. ASSUME NEW d \in Cli, ~(At(d, "await") /\ cli[d].instance = i)
      PROVE  cli'[d] = cli[d]
  BY <1>2, <1>4
<1>5. ASSUME NEW d \in Cli PROVE cli'[d] \in KubeCommand
  BY <1>1, <1>3, <1>4
<1>. QED BY <1>2, <1>3, <1>4, <1>5 DEF Notices, Alike, ReadyFor

LEMMA GoneDoes ==
  ASSUME KubeTypes, NEW i \in Instance, PodGone(i)
  PROVE  GoneFor(i)
<1>1. cli \in [Cli -> KubeCommand]
  BY DEF KubeTypes
<1>2. CASE object[i]["PersistentVolumeClaim"] = "ending"
  <2>1. cli' = Notified(cli, <<i, "PersistentVolumeClaim">>)
    BY <1>2 DEF PodGone
  <2>2. cli' \in [Cli -> KubeCommand]
        /\ \A d \in Cli : cli'[d] = Unwatched(cli[d], <<i, "PersistentVolumeClaim">>)
    BY <1>1, <2>1, NotifiedDoes
  <2>. QED BY <1>1, <1>2, <2>2, UnwatchedFacts DEF Notices, GoneFor
<1>3. CASE object[i]["PersistentVolumeClaim"] # "ending"
  BY <1>1, <1>3 DEF PodGone, Notices, Alike, GoneFor
<1>. QED BY <1>2, <1>3

LEMMA MovesDoes ==
  ASSUME KubeTypes, NEW c \in Cli,
         \/ AllDeleted(c) \/ findInstanceStatefulSet(c) \/ waitForEvent(c) \/ Replicated(c)
         \/ machineConnection(c) \/ ExecSuccess(c) \/ ExecFailure(c) \/ ExecDropped(c)
         \/ dockerSocket(c) \/ Finish(c)
  PROVE  Stops(c) \/ \E r : Moves(c, r)
<1>. DEFINE x == cli[c]
<1>1. x \in KubeCommand /\ (x.at \notin {"socket", "ready"} => x.attempts <= Retries)
  BY DEF KubeTypes
<1>2. CASE AllDeleted(c)
  <2>. DEFINE s == IF x.job = "up" THEN "create" ELSE "done"
  <2>1. /\ x.at = "delete" /\ \A i \in Instance : x.phase[i] \in {"none", "over"}
        /\ cli' = [cli EXCEPT ![c].at = s] /\ Same
    BY <1>2 DEF AllDeleted, At, Go, Same
  <2>2. s \in Stage
    BY DEF Stage
  <2>. HIDE DEF s
  <2>3. PICK r : /\ Becomes(c, r) /\ Alike(r, x) /\ SameSets(r, x)
                 /\ r.at = s /\ r.instance = x.instance
    BY <1>1, <2>1, <2>2, MoveOf
  <2>. QED BY <2>1, <2>3 DEF Moves, s
<1>3. CASE findInstanceStatefulSet(c) /\ There(x.instance, "StatefulSet")
  <2>1. /\ x.at = "apply" /\ x.applied = Len(x.template)
        /\ cli' = [cli EXCEPT ![c].at = "watch"] /\ Same
    BY <1>3 DEF findInstanceStatefulSet, At, Go, Same
  <2>2. PICK r : /\ Becomes(c, r) /\ Alike(r, x) /\ SameSets(r, x)
                 /\ r.at = "watch" /\ r.instance = x.instance
    BY <1>1, <2>1, MoveOf DEF Stage
  <2>. QED BY <1>3, <2>1, <2>2 DEF Moves
<1>4. CASE findInstanceStatefulSet(c) /\ ~There(x.instance, "StatefulSet")
  BY <1>4 DEF findInstanceStatefulSet, Throw, Stops, At, bounds, KubeTypes
<1>5. CASE waitForEvent(c)
  <2>. DEFINE r == [x EXCEPT !.at = "await", !.event = findReadyPod(x.instance)]
  <2>1. x.at = "watch" /\ cli' = [cli EXCEPT ![c] = r] /\ Same
    BY <1>1, <1>5 DEF waitForEvent, At, Same, KubeCommand
  <2>2. findReadyPod(x.instance) \in BOOLEAN
    BY DEF findReadyPod, findReadyPodForDeployment, findReadyPodForStatefulSet
  <2>3. /\ r \in KubeCommand /\ Alike(r, x) /\ SameSets(r, x) /\ r.at = "await"
        /\ r.event = findReadyPod(x.instance) /\ r.attempts = x.attempts
        /\ r.instance = x.instance
    BY <1>1, <2>2 DEF KubeCommand, Stage, Alike, SameSets
  <2>4. Becomes(c, r)
    BY <1>1, <2>1, <2>3 DEF Becomes
  <2>. QED BY <2>1, <2>3, <2>4 DEF Moves
<1>6. CASE Replicated(c)
  <2>1. x.at = "await" /\ cli' = [cli EXCEPT ![c].at = "connect"] /\ Same
    BY <1>6 DEF Replicated, At, Go, Same
  <2>2. PICK r : /\ Becomes(c, r) /\ Alike(r, x) /\ SameSets(r, x)
                 /\ r.at = "connect" /\ r.instance = x.instance
    BY <1>1, <2>1, MoveOf DEF Stage
  <2>. QED BY <2>1, <2>2 DEF Moves
<1>7. CASE machineConnection(c) /\ findReadyPod(x.instance)
  <2>1. PICK in \in BOOLEAN :
          x.at = "connect" /\ cli' = [cli EXCEPT ![c].at = "exec", ![c].stdin = in] /\ Same
    BY <1>7 DEF machineConnection, At, Same
  <2>. DEFINE r == [x EXCEPT !.at = "exec", !.stdin = in]
  <2>2. cli' = [cli EXCEPT ![c] = r]
    BY <1>1, <2>1 DEF KubeCommand
  <2>3. /\ r \in KubeCommand /\ Alike(r, x) /\ SameSets(r, x) /\ r.at = "exec"
        /\ r.attempts = x.attempts /\ r.instance = x.instance
    BY <1>1, <2>1 DEF KubeCommand, Stage, Alike, SameSets
  <2>4. Becomes(c, r)
    BY <1>1, <2>1, <2>2, <2>3 DEF Becomes
  <2>. QED BY <2>1, <2>3, <2>4 DEF Moves, Connecting
<1>8. CASE machineConnection(c) /\ ~findReadyPod(x.instance)
  BY <1>8 DEF machineConnection, Throw, Stops, At, bounds, KubeTypes
<1>9. CASE ExecSuccess(c)
  <2>. DEFINE r == [x EXCEPT !.at = "socket", !.attempts = x.attempts + 1]
  <2>1. x.at = "exec" /\ cli' = [cli EXCEPT ![c] = r] /\ Same
    BY <1>1, <1>9 DEF ExecSuccess, At, Same, KubeCommand
  <2>2. x.attempts + 1 \in 0 .. Retries + 1
    BY <1>1, <2>1, KubeAssumption DEF KubeCommand
  <2>3. /\ r \in KubeCommand /\ Alike(r, x) /\ SameSets(r, x) /\ r.at = "socket"
        /\ r.instance = x.instance
    BY <1>1, <2>2 DEF KubeCommand, Stage, Alike, SameSets
  <2>4. Becomes(c, r)
    BY <2>1, <2>3 DEF Becomes
  <2>. QED BY <2>1, <2>3, <2>4 DEF Moves, Connecting
<1>10. CASE ExecFailure(c) \/ Finish(c)
  BY <1>10 DEF ExecFailure, Finish, Throw, Stops, At, bounds, KubeTypes
<1>11. CASE ExecDropped(c) /\ Retried(c)
  <2>. DEFINE r == [x EXCEPT !.attempts = x.attempts + 1]
  <2>1. x.at = "exec" /\ cli' = [cli EXCEPT ![c] = r] /\ Same
    BY <1>1, <1>11 DEF ExecDropped, Attempt, At, Same, KubeCommand
  <2>2. x.attempts + 1 \in 0 .. Retries + 1 /\ x.attempts + 1 <= Retries
    BY <1>1, <1>11, KubeAssumption DEF KubeCommand, Retried
  <2>3. /\ r \in KubeCommand /\ Alike(r, x) /\ SameSets(r, x) /\ r.at = x.at
        /\ r.instance = x.instance /\ r.attempts = x.attempts + 1
    BY <1>1, <2>2 DEF KubeCommand, Alike, SameSets
  <2>4. Becomes(c, r)
    BY <2>1, <2>2, <2>3 DEF Becomes
  <2>. QED BY <2>1, <2>3, <2>4 DEF Moves, Connecting
<1>12. CASE ExecDropped(c) /\ ~Retried(c)
  BY <1>12 DEF ExecDropped, Throw, Stops, At, bounds, KubeTypes
<1>13. CASE dockerSocket(c) /\ findReadyPodForStatefulSet(x.instance)
  <2>1. x.at = "socket" /\ cli' = [cli EXCEPT ![c].at = "ready"] /\ Same
    BY <1>13 DEF dockerSocket, At, Go, Same
  <2>2. PICK r : /\ Becomes(c, r) /\ Alike(r, x) /\ SameSets(r, x)
                 /\ r.at = "ready" /\ r.instance = x.instance
    BY <1>1, <2>1, MoveOf DEF Stage
  <2>. QED BY <2>1, <2>2 DEF Moves, Connecting
<1>14. CASE dockerSocket(c) /\ ~findReadyPodForStatefulSet(x.instance)
  BY <1>14 DEF dockerSocket, Throw, Stops, At, bounds, KubeTypes
<1>. QED BY <1>2, <1>3, <1>4, <1>5, <1>6, <1>7, <1>8, <1>9, <1>10, <1>11, <1>12, <1>13, <1>14

\* A step is a step of one command, or of the cluster.
Deletion(c) ==
  \/ \E i \in Instance : \E r : Typed(c, i, r) \/ Listed(c, i, r)
                                  \/ Marked(c, i, r) \/ Over(c, i, r)
  \/ \E o \in cli[c].left : \E r : Marks(c, o, r) \/ Reads(c, o, r)
  \/ \E o \in cli[c].starting : \E r : Watches(c, o, r)
  \/ \E o \in cli[c].deleting : Deletes(c, o)

KubeStep ==
  \/ \E c \in Cli :
       \/ \E j : Fresh(j) /\ Start(c, j)
       \/ Stops(c)
       \/ \E r : Moves(c, r) \/ Creates(c, r) \/ AppliesNext(c, r) \/ \E S : Aims(c, r, S)
       \/ Deletion(c)
  \/ \E i \in Instance : StartPod(i) \/ ReadyFor(i) \/ PodFails(i) \/ GoneFor(i)

LEMMA NextDoes ==
  ASSUME KubeBasis, Next
  PROVE  KubeStep
<1>1. KubeTypes /\ \A c \in Cli : CommandOK(c)
  BY DEF KubeBasis
<1>2. ASSUME NEW i \in Instance, Controller(i) \/ PodFails(i) PROVE KubeStep
  BY <1>1, <1>2, ReadyDoes, GoneDoes DEF Controller, KubeStep
<1>3. ASSUME NEW c \in Cli, Begin(c) PROVE KubeStep
  BY <1>3, StartsFresh DEF KubeStep
<1>4. ASSUME NEW c \in Cli, Fault(c) PROVE KubeStep
  <2>1. Stops(c)
    BY <1>1, <1>4, KubeAssumption DEF Fault, Stops, KubeTypes
  <2>. QED BY <2>1 DEF KubeStep
<1>5. ASSUME NEW c \in Cli, Command(c) PROVE KubeStep
  <2>1. ASSUME \/ Stops(c) \/ Deletion(c)
               \/ \E r : Moves(c, r) \/ Creates(c, r) \/ AppliesNext(c, r) \/ \E S : Aims(c, r, S)
        PROVE  KubeStep
    BY <2>1 DEF KubeStep
  <2>2. CASE FindForUp(c) \/ FindForDown(c) \/ FindForPurge(c)
    BY <1>1, <2>1, <2>2, FindForUpDoes, FindForDownDoes
  <2>3. ASSUME NEW i \in Instance,
               FindTypes(c, i) \/ listInstanceObjects(c, i) \/ AllMarked(c, i) \/ Deleted(c, i)
        PROVE  Deletion(c)
    BY <1>1, <2>3, FindTypesDoes, ListDoes, AllMarkedDoes, DeletedDoes DEF Deletion
  <2>4. ASSUME NEW o \in cli[c].left, MarkObject(c, o) \/ ReadObject(c, o)
        PROVE  Deletion(c)
    BY <1>1, <2>4, MarkDoes, ReadDoes DEF Deletion
  <2>5. ASSUME NEW o \in cli[c].starting, waitForDeletion(c, o)
        PROVE  Deletion(c)
    BY <1>1, <2>5, WaitDoes DEF Deletion
  <2>6. ASSUME NEW o \in cli[c].deleting, DeleteObject(c, o)
        PROVE  Deletion(c) \/ Stops(c)
    <3>1. CASE There(o[1], o[2])
      BY <1>1, <2>6, <3>1, DeleteDoes DEF Deletion
    <3>2. CASE ~There(o[1], o[2])
      <4>1. ~At(c, "idle")
        BY <1>1, <2>6 DEF KubeBasis, PhaseOK, At, KubeTypes, KubeCommand, Object
      <4>. QED BY <1>1, <2>6, <3>2, <4>1 DEF DeleteObject, Throw, Stops, bounds, KubeTypes
    <3>. QED BY <3>1, <3>2
  <2>7. CASE createEnv(c)
    <3>1. cli[c].env \in Env /\ cli[c].template \in Template
      BY <1>1, <2>7 DEF createEnv, CommandOK, At, Touches
    <3>. QED BY <1>1, <2>1, <2>7, <3>1, CreateDoes
  <2>8. CASE applyObject(c)
    BY <1>1, <2>1, <2>8, ApplyDoes
  <2>9. CASE \/ AllDeleted(c) \/ findInstanceStatefulSet(c) \/ waitForEvent(c) \/ Replicated(c)
             \/ machineConnection(c) \/ ExecSuccess(c) \/ ExecFailure(c) \/ ExecDropped(c)
             \/ dockerSocket(c) \/ Finish(c)
    BY <1>1, <2>1, <2>9, MovesDoes
  <2>. QED BY <1>5, <2>1, <2>2, <2>3, <2>4, <2>5, <2>6, <2>7, <2>8, <2>9 DEF Command
<1>. QED BY <1>2, <1>3, <1>4, <1>5 DEF Next

-----------------------------------------------------------------------------
(* What the cluster holds and what the commands are at *)

Steady == \A i \in Instance : labels[i] # None => labels'[i] = labels[i]

\* A command that creates an instance or connects to it has its labels.
LEMMA LabelledFacts ==
  ASSUME KubeBasis, NEW c \in Cli, cli[c].at \in Creating \cup Connecting
  PROVE  /\ cli[c].instance \in Instance \ {0} /\ labels[cli[c].instance] # None
         /\ labels[cli[c].instance].env = cli[c].env
         /\ labels[cli[c].instance].template = cli[c].template
         /\ cli[c].instance <= created
<1>1. KubeTypes /\ ClusterOK /\ CommandOK(c) /\ cli[c] \in KubeCommand
  BY DEF KubeBasis, KubeTypes
<1>2. /\ cli[c].instance \in Instance /\ cli[c].instance > 0 /\ cli[c].job = "up"
      /\ labels[cli[c].instance] = addEnvMetadata(c)
      /\ cli[c].template \in Template /\ Touches(cli[c]) \subseteq Env
  BY <1>1 DEF CommandOK, At, Creating, Connecting, KubeCommand
<1>3. cli[c].env \in Env
  BY <1>2 DEF Touches
<1>4. addEnvMetadata(c) \in [env : Env, template : Template \cup {None}]
  BY <1>2, <1>3 DEF addEnvMetadata
<1>5. labels[cli[c].instance] # None
  BY <1>2, <1>4, KubeAssumption
<1>6. cli[c].instance <= created
  <2>1. created \in Nat /\ cli[c].instance \in Nat
    BY <1>1, <1>2, InstanceFacts DEF KubeTypes
  <2>2. ~(cli[c].instance > created)
    BY <1>1, <1>2, <1>5 DEF ClusterOK
  <2>. QED BY <2>1, <2>2
<1>. QED BY <1>2, <1>5, <1>6 DEF addEnvMetadata

LEMMA OthersKeep ==
  ASSUME KubeBasis, Steady, NEW d \in Cli, cli'[d] = cli[d]
  PROVE  CommandOK(d)' /\ PhaseOK(d)'
<1>1. CommandOK(d) /\ PhaseOK(d) /\ KubeTypes
  BY DEF KubeBasis
<1>2. cli[d].at \in Creating \cup Connecting =>
        cli[d].instance \in Instance /\ labels[cli[d].instance] # None
  BY LabelledFacts
<1>3. CommandOK(d)'
  BY <1>1, <1>2 DEF CommandOK, At, addEnvMetadata, Steady
<1>4. PhaseOK(d)'
  BY <1>1 DEF PhaseOK, Steady
<1>. QED BY <1>3, <1>4

\* The part of the invariant that is about the cluster, and its types.
ClusterTypes ==
  /\ object \in [Instance -> [Kind -> Status]]
  /\ labels \in [Instance -> [env : Env, template : Template \cup {None}] \cup {None}]
  /\ pod \in [Instance -> {"none", "pending", "ready"}]
  /\ created \in Instance /\ hurt \subseteq Instance /\ overlapped \subseteq Env
  /\ started \in 0 .. MaxCommands /\ faults \in 0 .. MaxFaults

LEMMA OneKeepsBasis ==
  ASSUME KubeBasis, NEW c \in Cli, NEW r, Becomes(c, r), ~At(c, "idle"), Alike(r, cli[c]),
         ClusterTypes', ClusterOK', Steady, overlapped \subseteq overlapped',
         CommandOK(c)', PhaseOK(c)',
         r.at \in Creating => \/ cli[c].at \in Creating /\ r.instance = cli[c].instance
                              \/ r.instance > created
  PROVE  KubeBasis'
<1>1. KubeTypes /\ Apart
  BY DEF KubeBasis
<1>2. cli'[c] = r /\ r \in KubeCommand /\ \A d \in Cli : d # c => cli'[d] = cli[d]
  BY <1>1 DEF Becomes, KubeTypes
<1>3. KubeTypes'
  BY <1>1, <1>2 DEF Becomes, KubeTypes, ClusterTypes
<1>4. \A d \in Cli : CommandOK(d)' /\ PhaseOK(d)'
  BY <1>2, OthersKeep
<1>5. Touches(r) = Touches(cli[c])
  BY DEF Touches, Alike
<1>6. ASSUME NEW d \in Cli, d # c
      PROVE  /\ cli'[c].at \in Creating /\ cli'[d].at \in Creating =>
                 cli'[c].instance # cli'[d].instance
             /\ ~At(c, "idle")' /\ ~At(d, "idle")' =>
                  Touches(cli'[c]) \cap Touches(cli'[d]) \subseteq overlapped'
  <2>1. cli[d].at \in Creating => cli[d].instance \in Nat /\ cli[d].instance <= created
    BY LabelledFacts, InstanceFacts
  <2>2. created \in Nat /\ r.instance \in Nat
    BY <1>1, <1>2, InstanceFacts DEF KubeTypes, KubeCommand
  <2>3. cli'[c].at \in Creating /\ cli'[d].at \in Creating => cli'[c].instance # cli'[d].instance
    BY <1>1, <1>2, <1>6, <2>1, <2>2 DEF Apart
  <2>4. ~At(d, "idle") => Touches(cli[c]) \cap Touches(cli[d]) \subseteq overlapped
    BY <1>1, <1>6 DEF Apart
  <2>. QED BY <1>2, <1>5, <1>6, <2>3, <2>4 DEF At
<1>7. Apart'
  <2>1. ASSUME NEW a \in Cli, NEW b \in Cli, a # b, a # c, b # c
        PROVE  /\ cli'[a].at \in Creating /\ cli'[b].at \in Creating =>
                   cli'[a].instance # cli'[b].instance
               /\ ~At(a, "idle")' /\ ~At(b, "idle")' =>
                    Touches(cli'[a]) \cap Touches(cli'[b]) \subseteq overlapped'
    BY <1>1, <1>2, <2>1 DEF Apart, At
  <2>. QED BY <1>6, <2>1 DEF Apart, At
<1>. QED BY <1>3, <1>4, <1>7 DEF KubeBasis

\* Events of the cluster change nothing of what commands are at.
LEMMA NoticesKeepBasis ==
  ASSUME KubeBasis, cli' \in [Cli -> KubeCommand],
         \A d \in Cli : /\ Notices(d)
                        /\ cli'[d].deleting \subseteq cli[d].deleting
                        /\ cli'[d].watching \subseteq cli[d].watching,
         ClusterTypes', ClusterOK', UNCHANGED <<labels, overlapped>>
  PROVE  KubeBasis'
<1>1. KubeTypes /\ Apart /\ \A d \in Cli : CommandOK(d) /\ PhaseOK(d)
  BY DEF KubeBasis
<1>2. KubeTypes'
  BY <1>1 DEF KubeTypes, ClusterTypes, Notices
<1>3. \A d \in Cli : Touches(cli'[d]) = Touches(cli[d])
  BY DEF Touches, Notices, Alike
<1>4. ASSUME NEW d \in Cli PROVE CommandOK(d)' /\ PhaseOK(d)'
  <2>1. CommandOK(d)'
    BY <1>1, <1>3 DEF CommandOK, Notices, Alike, At, addEnvMetadata
  <2>2. PhaseOK(d)'
    BY <1>1, <1>3 DEF PhaseOK, Notices
  <2>. QED BY <2>1, <2>2
<1>5. Apart'
  BY <1>1, <1>3 DEF Apart, Notices, At
<1>. QED BY <1>2, <1>4, <1>5 DEF KubeBasis

LEMMA SameCluster ==
  ASSUME ClusterOK, UNCHANGED <<object, labels, created>>
  PROVE  ClusterOK'
BY DEF ClusterOK, Whole

LEMMA InitBasis == Init => KubeBasis
<1>. SUFFICES ASSUME Init PROVE KubeBasis
  OBVIOUS
<1>1. KubeTypes
  BY InitTypes
<1>2. PICK old \in Env \cup {None} :
       /\ object = [i \in Instance |-> [k \in Kind |->
            IF i = 0 /\ old # None /\ k \in Legacy THEN "live" ELSE "absent"]]
       /\ labels = [i \in Instance |->
            IF i = 0 /\ old # None THEN [env |-> old, template |-> None] ELSE None]
  BY DEF Init
<1>3. created = 0 /\ overlapped = {} /\ cli = [c \in Cli |-> Idle]
  BY DEF Init
<1>4. old # None => [env |-> old, template |-> None] # None
  BY KubeAssumption
<1>5. ClusterOK
  <2>1. \A i \in Instance : i > created => labels[i] = None
    BY <1>2, <1>3, InstanceFacts
  <2>2. 1 .. created = {}
    BY <1>3
  <2>3. labels[0] # None => labels[0].template = None
    BY <1>2, InstanceFacts
  <2>4. \A i \in Instance, k \in Kind :
         /\ object[i][k] = "ending" => k = "PersistentVolumeClaim"
         /\ object[i][k] # "absent" => labels[i] # None /\ (i > 0 => k \in Whole(i))
    BY <1>2, <1>4, InstanceFacts DEF Whole
  <2>. QED BY <2>1, <2>2, <2>3, <2>4 DEF ClusterOK
<1>6. \A c \in Cli : CommandOK(c) /\ PhaseOK(c)
  BY <1>3 DEF CommandOK, PhaseOK, At, Idle
<1>7. Apart
  BY <1>3, IdleCommand DEF Apart, At, Creating
<1>. QED BY <1>1, <1>5, <1>6, <1>7 DEF KubeBasis

LEMMA StartKeepsBasis ==
  ASSUME KubeBasis, NEW c \in Cli, NEW j, Fresh(j), Start(c, j)
  PROVE  KubeBasis'
<1>1. KubeTypes /\ ClusterOK /\ Apart
  BY DEF KubeBasis
<1>2. KubeTypes'
  BY <1>1, StartTypes
<1>3. /\ UNCHANGED cluster /\ cli' = [cli EXCEPT ![c] = j]
      /\ overlapped' = overlapped \cup
           (Touches(j) \cap UNION {Touches(cli[d]) : d \in {x \in Cli : ~At(x, "idle")}})
  BY DEF Start
<1>4. ClusterOK' /\ Steady
  BY <1>1, <1>3, SameCluster DEF cluster, Steady
<1>5. cli'[c] = j /\ \A d \in Cli : d # c => cli'[d] = cli[d]
  BY <1>1, <1>3 DEF KubeTypes
<1>6. CommandOK(c)' /\ PhaseOK(c)'
  BY <1>5 DEF CommandOK, PhaseOK, Fresh, Creating, Connecting, At
<1>7. \A d \in Cli : d # c => CommandOK(d)' /\ PhaseOK(d)'
  BY <1>4, <1>5, OthersKeep
<1>8. \A d \in Cli : d # c /\ ~At(d, "idle") =>
       Touches(j) \cap Touches(cli[d]) \subseteq overlapped'
  BY <1>3
<1>9. Apart'
  BY <1>1, <1>3, <1>5, <1>8 DEF Apart, At, Fresh, Creating
<1>. QED BY <1>2, <1>4, <1>6, <1>7, <1>9 DEF KubeBasis

LEMMA StopKeepsBasis ==
  ASSUME KubeBasis, NEW c \in Cli, Stops(c)
  PROVE  KubeBasis'
<1>1. KubeTypes /\ ClusterOK /\ Apart
  BY DEF KubeBasis
<1>2. KubeTypes'
  BY <1>1, StopTypes DEF Stops
<1>3. UNCHANGED cluster /\ cli' = [cli EXCEPT ![c] = Idle] /\ overlapped' = overlapped
  BY DEF Stops, Stop
<1>4. ClusterOK' /\ Steady
  BY <1>1, <1>3, SameCluster DEF cluster, Steady
<1>5. cli'[c] = Idle /\ \A d \in Cli : d # c => cli'[d] = cli[d]
  BY <1>1, <1>3 DEF KubeTypes
<1>6. CommandOK(c)' /\ PhaseOK(c)'
  BY <1>5 DEF CommandOK, PhaseOK, Idle, At
<1>7. \A d \in Cli : d # c => CommandOK(d)' /\ PhaseOK(d)'
  BY <1>4, <1>5, OthersKeep
<1>8. Apart'
  BY <1>1, <1>3, <1>5, IdleCommand DEF Apart, At, Creating
<1>. QED BY <1>2, <1>4, <1>6, <1>7, <1>8 DEF KubeBasis

\* What is found of an environment is a workload of it that lives.
LEMMA FoundFacts ==
  ASSUME KubeBasis, NEW e
  PROVE  LET i == findEnvObject(e) IN
         /\ i = None => \A j \in Instance : ~Lives(j, e)
         /\ i # None => i \in Instance /\ Lives(i, e)
<1>. DEFINE new == listStatefulSets(envSelector(e, "StatefulSet"))
            old == listDeployments(envSelector(e, "Deployment"))
<1>1. KubeTypes /\ ClusterOK
  BY DEF KubeBasis
<1>2. ASSUME NEW j \in new \cup old PROVE j \in Instance /\ Lives(j, e)
  <2>1. j \in Instance /\ labels[j] # None /\ labels[j].env = e
        /\ There(j, Workload(j)) /\ object[j][Workload(j)] # "marked"
    BY <1>2 DEF listStatefulSets, listDeployments, envSelector
  <2>2. object[j][Workload(j)] # "ending"
    BY <1>1, <2>1, KindFacts DEF ClusterOK, Workload
  <2>. QED BY <2>1, <2>2 DEF Lives, There
<1>3. ASSUME NEW j \in Instance, Lives(j, e) PROVE j \in new \cup old
  BY <1>3 DEF Lives, listStatefulSets, listDeployments, envSelector, There, Workload
<1>4. new # {} => mostRecent(new) \in new
  BY MostRecent DEF listStatefulSets, envSelector
<1>5. old # {} => mostRecent(old) \in old
  BY MostRecent DEF listDeployments, envSelector
<1>6. findEnvObject(e) = IF new # {} THEN mostRecent(new)
                         ELSE IF old # {} THEN mostRecent(old) ELSE None
  BY DEF findEnvObject
<1>7. None \notin new \cup old
  BY <1>2, InstanceFacts
<1>. HIDE DEF new, old
<1>8. findEnvObject(e) \in new \cup old \/ (findEnvObject(e) = None /\ new \cup old = {})
  BY <1>4, <1>5, <1>6
<1>. QED BY <1>2, <1>3, <1>7, <1>8

LEMMA MovesKeepsBasis ==
  ASSUME KubeBasis, NEW c \in Cli, NEW r, Moves(c, r)
  PROVE  KubeBasis'
<1>. DEFINE x == cli[c]
<1>1. KubeTypes /\ ClusterOK /\ CommandOK(c) /\ PhaseOK(c) /\ x \in KubeCommand /\ r \in KubeCommand
  BY DEF KubeBasis, KubeTypes, Moves, Becomes
<1>2. Becomes(c, r) /\ Alike(r, x) /\ SameSets(r, x) /\ Same /\ x.at # "idle" /\ cli'[c] = r
  BY <1>1 DEF Moves, Becomes, KubeTypes, Connecting
<1>3. ClusterTypes' /\ ClusterOK' /\ Steady /\ overlapped' = overlapped
  BY <1>1, <1>2, SameCluster DEF Same, cluster, bounds, Steady, ClusterTypes, KubeTypes
<1>4. ASSUME r.at \in Creating \cup Connecting
      PROVE  /\ r.job = "up" /\ r.instance > 0
             /\ labels[r.instance] = [env |-> r.env, template |-> r.template]
  <2>1. CASE r.instance = x.instance /\ x.at \in Creating \cup Connecting
    BY <1>1, <1>2, <2>1 DEF CommandOK, At, addEnvMetadata, Alike, Creating, Connecting
  <2>2. CASE /\ x.at = "find" /\ r.at = "connect" /\ x.job = "up"
             /\ r.instance = findEnvObject(x.env) /\ labels[r.instance].template = x.template
    <3>1. findEnvObject(x.env) # None
      BY <1>1, <2>2, InstanceFacts DEF KubeCommand
    <3>2. r.instance \in Instance /\ Lives(r.instance, x.env)
      BY <2>2, <3>1, FoundFacts
    <3>3. x.template \in Template /\ x.template # None
      BY <1>1, <1>2, KubeAssumption DEF CommandOK, At
    <3>4. r.instance # 0
      <4>1. labels[r.instance] # None /\ labels[r.instance].template # None
        BY <2>2, <3>2, <3>3 DEF Lives
      <4>2. labels[0] # None => labels[0].template = None
        BY <1>1 DEF ClusterOK
      <4>. QED BY <4>1, <4>2
    <3>5. r.instance > 0
      <4>1. r.instance \in Nat
        BY <3>2, InstanceFacts
      <4>. QED BY <3>4, <4>1
    <3>6. labels[r.instance] \in [env : Env, template : Template \cup {None}]
      BY <1>1, <3>2 DEF KubeTypes, Lives
    <3>7. labels[r.instance] = [env |-> x.env, template |-> x.template]
      BY <2>2, <3>2, <3>6 DEF Lives
    <3>. QED BY <1>2, <2>2, <3>5, <3>7 DEF Alike
  <2>. QED BY <1>4, <2>1, <2>2 DEF Moves, Creating, Connecting
<1>5. CommandOK(c)'
  <2>1. r.at = "create" => r.job = "up"
    BY <1>2 DEF Moves, Alike, Connecting
  <2>2. r.at # "apply"
    BY DEF Moves, Connecting
  <2>3. r.template \in Template /\ Touches(r) \subseteq Env
    BY <1>1, <1>2 DEF CommandOK, At, Alike, Touches
  <2>4. labels' = labels
    BY <1>2 DEF Same, cluster
  <2>. QED BY <1>2, <1>4, <2>1, <2>2, <2>3, <2>4 DEF CommandOK, At, addEnvMetadata
<1>6. PhaseOK(c)'
  BY <1>1, <1>2 DEF PhaseOK, Moves, Same, cluster, SameSets, Alike, Touches, Creating, Connecting
<1>7. r.at \in Creating => x.at \in Creating /\ r.instance = x.instance
  BY DEF Moves, Creating, Connecting
<1>. QED BY <1>2, <1>3, <1>5, <1>6, <1>7, OneKeepsBasis DEF At

LEMMA AimsKeepsBasis ==
  ASSUME KubeBasis, NEW c \in Cli, NEW r, NEW S, Aims(c, r, S)
  PROVE  KubeBasis'
<1>. DEFINE x == cli[c]
<1>1. KubeTypes /\ ClusterOK /\ CommandOK(c) /\ PhaseOK(c) /\ x \in KubeCommand /\ r \in KubeCommand
  BY DEF KubeBasis, KubeTypes, Aims, Becomes
<1>2. /\ Becomes(c, r) /\ Alike(r, x) /\ Same /\ x.at = "find" /\ r.at = "delete" /\ cli'[c] = r
      /\ r.phase = Targets(S) /\ S \subseteq Instance
      /\ r.left = x.left /\ r.deleting = x.deleting /\ r.starting = x.starting
      /\ r.watching = x.watching /\ r.missed = x.missed
  BY <1>1 DEF Aims, Becomes, KubeTypes
<1>3. ClusterTypes' /\ ClusterOK' /\ Steady /\ overlapped' = overlapped /\ labels' = labels
  BY <1>1, <1>2, SameCluster DEF Same, cluster, bounds, Steady, ClusterTypes, KubeTypes
<1>4. ASSUME NEW i \in S PROVE labels[i] # None /\ labels[i].env \in Touches(x)
  <2>1. CASE x.job \in {"up", "down"} /\ S = {findEnvObject(x.env)} /\ S # {None}
    <3>1. Lives(i, x.env)
      BY <2>1, FoundFacts
    <3>. QED BY <2>1, <3>1 DEF Lives, Touches
  <2>2. CASE x.job = "purge" /\ S = listMachines
    <3>1. There(i, "StatefulSet") \/ There(i, "Deployment")
      BY <2>2 DEF listMachines, listStatefulSets, listDeployments
    <3>2. labels[i] # None
      BY <1>1, <1>2, <3>1, KindFacts DEF There, ClusterOK
    <3>3. labels[i].env \in Env
      BY <1>1, <1>2, <3>2 DEF KubeTypes
    <3>. QED BY <2>2, <3>2, <3>3 DEF Touches
  <2>. QED BY <2>1, <2>2 DEF Aims
<1>5. CommandOK(c)'
  BY <1>1, <1>2 DEF CommandOK, At, Alike, Touches, Creating, Connecting
<1>6. PhaseOK(c)'
  <2>1. ASSUME NEW i \in Instance
        PROVE  /\ r.phase[i] \in {"none", "types"}
               /\ r.phase[i] # "none" => labels[i] # None /\ labels[i].env \in Touches(r)
    BY <1>2, <1>4 DEF Targets, Alike, Touches
  <2>2. ASSUME NEW i \in Instance, NEW k \in Kind
        PROVE  <<i, k>> \notin r.left \cup r.deleting \cup r.starting \cup r.watching \cup r.missed
    BY <1>1, <1>2 DEF PhaseOK
  <2>. QED BY <1>2, <1>3, <2>1, <2>2 DEF PhaseOK, Creating
<1>. QED BY <1>2, <1>3, <1>5, <1>6, OneKeepsBasis DEF At, Creating

LEMMA CreatesKeepsBasis ==
  ASSUME KubeBasis, NEW c \in Cli, NEW r, Creates(c, r)
  PROVE  KubeBasis'
<1>. DEFINE x == cli[c]
            n == created + 1
            m == addEnvMetadata(c)
<1>1. KubeTypes /\ ClusterOK /\ CommandOK(c) /\ PhaseOK(c) /\ x \in KubeCommand /\ r \in KubeCommand
  BY DEF KubeBasis, KubeTypes, Creates, Becomes
<1>2. /\ Becomes(c, r) /\ Alike(r, x) /\ SameSets(r, x) /\ x.at = "create" /\ r.at = "apply"
      /\ cli'[c] = r /\ r.instance = n /\ r.applied = x.applied
      /\ created' = n /\ created < MaxInstances /\ labels' = [labels EXCEPT ![n] = m]
      /\ UNCHANGED <<object, pod, bounds, hurt>>
  BY <1>1 DEF Creates, Becomes, KubeTypes
<1>3. created \in Nat /\ created \in Instance /\ n \in Instance /\ n > created /\ n > 0
  BY <1>1, <1>2, InstanceFacts DEF KubeTypes
<1>4. x.job = "up" /\ x.env \in Env /\ x.template \in Template
  BY <1>1, <1>2 DEF CommandOK, At, Touches
<1>5. m \in [env : Env, template : Template] /\ m # None
  <2>1. m \in [env : Env, template : Template]
    BY <1>4 DEF addEnvMetadata
  <2>2. m \in [env : Env, template : Template \cup {None}]
    BY <1>4 DEF addEnvMetadata
  <2>. QED BY <2>1, <2>2, KubeAssumption
<1>. HIDE DEF m
<1>6. ClusterTypes'
  <2>1. labels' \in [Instance -> [env : Env, template : Template \cup {None}] \cup {None}]
    BY <1>1, <1>2, <1>3, <1>5 DEF KubeTypes
  <2>. QED BY <1>1, <1>2, <1>3, <2>1 DEF ClusterTypes, KubeTypes, bounds
<1>7. labels[n] = None /\ \A k \in Kind : object[n][k] = "absent"
  BY <1>1, <1>3 DEF ClusterOK
<1>8. labels'[n] = m /\ \A i \in Instance : i # n => labels'[i] = labels[i]
  BY <1>1, <1>2, <1>3 DEF KubeTypes
<1>9. ClusterOK'
  <2>1. \A i \in Instance : i > created' => labels'[i] = None
    BY <1>1, <1>2, <1>3, <1>8, InstanceFacts DEF ClusterOK
  <2>2. \A i \in 1 .. created' : labels'[i] \in [env : Env, template : Template]
    <3>. TAKE i \in 1 .. created'
    <3>1. i \in Instance /\ (i = n \/ i \in 1 .. created)
      BY <1>2, <1>3, KubeAssumption DEF Instance
    <3>. QED BY <1>1, <1>5, <1>8, <3>1 DEF ClusterOK
  <2>3. labels'[0] # None => labels'[0].template = None
    BY <1>1, <1>3, <1>8, InstanceFacts DEF ClusterOK
  <2>4. ASSUME NEW i \in Instance, NEW k \in Kind
        PROVE  /\ object'[i][k] = "ending" => k = "PersistentVolumeClaim"
               /\ object'[i][k] # "absent" => labels'[i] # None /\ (i > 0 => k \in Whole(i)')
    <3>1. CASE i = n
      BY <1>2, <1>7, <3>1
    <3>2. CASE i # n
      BY <1>1, <1>2, <1>8, <3>2 DEF ClusterOK, Whole
    <3>. QED BY <3>1, <3>2
  <2>. QED BY <2>1, <2>2, <2>3, <2>4 DEF ClusterOK
<1>10. Steady
  BY <1>7, <1>8 DEF Steady
<1>11. CommandOK(c)'
  <2>1. labels'[r.instance] = addEnvMetadata(c)'
    BY <1>2, <1>8 DEF m, addEnvMetadata, Alike
  <2>. QED BY <1>1, <1>2, <1>3, <1>4, <2>1 DEF CommandOK, At, Alike, Touches
<1>12. PhaseOK(c)'
  <2>1. \A i \in Instance : r.phase[i] # "none" => labels'[i] = labels[i] /\ i # n
    BY <1>1, <1>2, <1>7, <1>8 DEF PhaseOK, SameSets
  <2>. QED BY <1>1, <1>2, <2>1 DEF PhaseOK, SameSets, Alike, Touches
<1>. QED BY <1>2, <1>3, <1>6, <1>9, <1>10, <1>11, <1>12, OneKeepsBasis DEF At, bounds

LEMMA OneObject ==
  ASSUME KubeTypes, ClusterOK, NEW i \in Instance, NEW k \in Kind, NEW s \in Status,
         object' = [object EXCEPT ![i][k] = s], UNCHANGED <<labels, created>>,
         s = "ending" => k = "PersistentVolumeClaim",
         labels[i] # None, i > 0 => k \in Whole(i)
  PROVE  ClusterOK' /\ object' \in [Instance -> [Kind -> Status]]
<1>1. /\ object' \in [Instance -> [Kind -> Status]]
      /\ object'[i][k] = s
      /\ \A j \in Instance, l \in Kind : j # i \/ l # k => object'[j][l] = object[j][l]
  BY DEF KubeTypes
<1>2. \A j \in Instance : Whole(j)' = Whole(j)
  BY DEF Whole
<1>3. ASSUME NEW j \in Instance, NEW l \in Kind
      PROVE  /\ object'[j][l] = "ending" => l = "PersistentVolumeClaim"
             /\ object'[j][l] # "absent" => labels'[j] # None /\ (j > 0 => l \in Whole(j)')
  <2>1. CASE j = i /\ l = k
    BY <1>1, <1>2, <2>1
  <2>2. CASE j # i \/ l # k
    BY <1>1, <1>2, <2>2 DEF ClusterOK
  <2>. QED BY <2>1, <2>2
<1>. QED BY <1>1, <1>3 DEF ClusterOK

LEMMA AppliesKeepsBasis ==
  ASSUME KubeBasis, NEW c \in Cli, NEW r, AppliesNext(c, r)
  PROVE  KubeBasis'
<1>. DEFINE x == cli[c]
            n == x.applied + 1
            i == x.instance
            k == x.template[n]
<1>1. KubeTypes /\ ClusterOK /\ CommandOK(c) /\ PhaseOK(c) /\ x \in KubeCommand /\ r \in KubeCommand
  BY DEF KubeBasis, KubeTypes, AppliesNext, Becomes
<1>2. /\ Becomes(c, r) /\ Alike(r, x) /\ SameSets(r, x) /\ x.at = "apply" /\ r.at = "apply"
      /\ cli'[c] = r /\ r.instance = i /\ n <= Len(x.template) /\ r.applied = n
      /\ object' = [object EXCEPT ![i][k] = "live"]
      /\ UNCHANGED <<labels, pod, created, bounds, hurt>>
  BY <1>1 DEF AppliesNext, Becomes, KubeTypes
<1>3. /\ i \in Instance \ {0} /\ labels[i] # None /\ labels[i].template = x.template
      /\ x.template \in Template
  BY <1>1, <1>2, LabelledFacts DEF Creating, CommandOK, At
<1>4. k \in gatherTypes(x.template)
  <2>1. n \in 1 .. Len(x.template)
    <3>1. x.applied \in Nat
      BY <1>1 DEF KubeCommand
    <3>2. Len(x.template) \in Nat
      BY <1>3, KubeAssumption
    <3>. QED BY <1>2, <3>1, <3>2
  <2>. QED BY <2>1 DEF gatherTypes
<1>5. k \in Kind /\ k \in Whole(i)
  BY <1>3, <1>4, KindFacts, KubeAssumption DEF Whole, addAllTypesAnnotation
<1>. HIDE DEF k, i, n
<1>6. ClusterOK' /\ object' \in [Instance -> [Kind -> Status]]
  BY <1>1, <1>2, <1>3, <1>5, OneObject DEF Status
<1>7. ClusterTypes' /\ Steady
  BY <1>1, <1>2, <1>6 DEF ClusterTypes, KubeTypes, bounds, Steady
<1>8. CommandOK(c)'
  BY <1>1, <1>2, <1>3 DEF CommandOK, At, Alike, Touches, addEnvMetadata, Creating, Connecting, i
<1>9. PhaseOK(c)'
  BY <1>1, <1>2 DEF PhaseOK, SameSets, Alike, Touches, Creating, i
<1>. QED BY <1>2, <1>6, <1>7, <1>8, <1>9, OneKeepsBasis DEF At, bounds, Creating, i

LEMMA TurnsKeepsBasis ==
  ASSUME KubeBasis, NEW c \in Cli, NEW i \in Instance, NEW p, NEW q, NEW r, Turns(c, i, p, q, r),
         p # "none", q # "none", hurt' \subseteq Instance,
         \A k \in Kind : <<i, k>> \in r.left => q \in {"list", "mark", "delete"},
         \A j \in Instance, k \in Kind : j # i /\ <<j, k>> \in r.left => <<j, k>> \in cli[c].left,
         q # "delete" => \A k \in Kind :
           <<i, k>> \notin cli[c].deleting \cup cli[c].starting
                    \cup cli[c].watching \cup cli[c].missed
  PROVE  KubeBasis'
<1>. DEFINE x == cli[c]
<1>1. KubeTypes /\ ClusterOK /\ CommandOK(c) /\ PhaseOK(c) /\ x \in KubeCommand /\ r \in KubeCommand
  BY DEF KubeBasis, KubeTypes, Turns, Becomes
<1>2. /\ Becomes(c, r) /\ Alike(r, x) /\ x.at = "delete" /\ r.at = "delete" /\ cli'[c] = r
      /\ x.phase[i] = p /\ r.phase = [x.phase EXCEPT ![i] = q]
      /\ r.deleting = x.deleting /\ r.starting = x.starting
      /\ r.watching = x.watching /\ r.missed = x.missed
      /\ UNCHANGED <<cluster, bounds>>
  BY <1>1 DEF Turns, Becomes, KubeTypes
<1>3. ClusterTypes' /\ ClusterOK' /\ Steady /\ overlapped' = overlapped /\ labels' = labels
  BY <1>1, <1>2, SameCluster DEF cluster, bounds, Steady, ClusterTypes, KubeTypes
<1>4. CommandOK(c)'
  BY <1>1, <1>2 DEF CommandOK, At, Alike, Touches, Creating, Connecting
<1>5. PhaseOK(c)'
  <2>1. r.phase[i] = q /\ \A j \in Instance : j # i => r.phase[j] = x.phase[j]
    BY <1>1, <1>2 DEF KubeCommand
  <2>2. \A j \in Instance : r.phase[j] # "none" => labels[j] # None /\ labels[j].env \in Touches(r)
    BY <1>1, <1>2, <2>1 DEF PhaseOK, Alike, Touches
  <2>3. ASSUME NEW j \in Instance, NEW k \in Kind
        PROVE  /\ <<j, k>> \in r.left => r.phase[j] \in {"list", "mark", "delete"}
               /\ <<j, k>> \in r.deleting \cup r.starting \cup r.watching \cup r.missed =>
                    r.phase[j] = "delete"
    BY <1>1, <1>2, <2>1 DEF PhaseOK
  <2>. QED BY <1>2, <1>3, <2>2, <2>3 DEF PhaseOK, Creating
<1>. QED BY <1>2, <1>3, <1>4, <1>5, OneKeepsBasis DEF At, Creating

LEMMA HandlesKeepsBasis ==
  ASSUME KubeBasis, NEW c \in Cli, NEW r, Handles(c, r), ~At(c, "idle"),
         ClusterTypes', ClusterOK', UNCHANGED <<labels, overlapped>>,
         r.left \subseteq cli[c].left,
         \A i \in Instance, k \in Kind :
           <<i, k>> \in r.deleting \cup r.starting \cup r.watching \cup r.missed =>
             cli[c].phase[i] = "delete"
  PROVE  KubeBasis'
<1>. DEFINE x == cli[c]
<1>1. KubeTypes /\ ClusterOK /\ CommandOK(c) /\ PhaseOK(c) /\ x \in KubeCommand /\ r \in KubeCommand
  BY DEF KubeBasis, KubeTypes, Handles, Becomes
<1>2. /\ Becomes(c, r) /\ Alike(r, x) /\ x.at = r.at /\ cli'[c] = r
      /\ r.instance = x.instance /\ r.phase = x.phase
  BY <1>1 DEF Handles, Becomes, KubeTypes
<1>3. CommandOK(c)'
  BY <1>1, <1>2 DEF CommandOK, At, Alike, Touches, addEnvMetadata
<1>4. PhaseOK(c)'
  BY <1>1, <1>2 DEF PhaseOK, Alike, Touches
<1>. QED BY <1>2, <1>3, <1>4, OneKeepsBasis DEF Steady

LEMMA DeletionKeepsBasis ==
  ASSUME KubeBasis, NEW c \in Cli, Deletion(c)
  PROVE  KubeBasis'
<1>. DEFINE x == cli[c]
<1>1. KubeTypes /\ ClusterOK /\ CommandOK(c) /\ PhaseOK(c) /\ x \in KubeCommand
  BY DEF KubeBasis, KubeTypes
<1>2. x.left \subseteq Object /\ x.deleting \subseteq Object /\ x.starting \subseteq Object
      /\ x.found \subseteq Object
  BY <1>1 DEF KubeCommand
<1>3. ASSUME UNCHANGED <<cluster, bounds, hurt>> PROVE ClusterTypes' /\ ClusterOK'
  BY <1>1, <1>3, SameCluster DEF cluster, bounds, ClusterTypes, KubeTypes
<1>4. ASSUME NEW i \in Instance, NEW r, Typed(c, i, r) PROVE KubeBasis'
  <2>1. hurt' \subseteq Instance
    BY <1>1, <1>4 DEF Typed, FindTypes, KubeTypes
  <2>2. \A j \in Instance, k \in Kind : j # i /\ <<j, k>> \in r.left => <<j, k>> \in x.left
    BY <1>4 DEF Typed
  <2>3. \A k \in Kind : <<i, k>> \notin x.deleting \cup x.starting \cup x.watching \cup x.missed
    BY <1>1, <1>4 DEF Typed, Turns, PhaseOK
  <2>. QED BY <1>4, <2>1, <2>2, <2>3, TurnsKeepsBasis DEF Typed
<1>5. ASSUME NEW i \in Instance, NEW r, Listed(c, i, r) PROVE KubeBasis'
  <2>1. hurt' \subseteq Instance
    BY <1>1, <1>5 DEF Listed, listInstanceObjects, KubeTypes
  <2>2. \A j \in Instance, k \in Kind : <<j, k>> \in r.left => <<j, k>> \in x.left
    BY <1>5 DEF Listed, dynamicList, Of
  <2>3. \A k \in Kind : <<i, k>> \notin x.deleting \cup x.starting \cup x.watching \cup x.missed
    BY <1>1, <1>5 DEF Listed, Turns, PhaseOK
  <2>. QED BY <1>5, <2>1, <2>2, <2>3, TurnsKeepsBasis DEF Listed
<1>6. ASSUME NEW i \in Instance, NEW r, Marked(c, i, r) PROVE KubeBasis'
  <2>1. hurt' \subseteq Instance
    BY <1>1, <1>6 DEF Marked, AllMarked, KubeTypes
  <2>2. \A j \in Instance, k \in Kind : j # i /\ <<j, k>> \in r.left => <<j, k>> \in x.left
    BY <1>6 DEF Marked, Of
  <2>. QED BY <1>6, <2>1, <2>2, TurnsKeepsBasis DEF Marked
<1>7. ASSUME NEW i \in Instance, NEW r, Over(c, i, r) PROVE KubeBasis'
  <2>1. hurt' \subseteq Instance
    BY <1>1, <1>7 DEF Over, Deleted, KubeTypes
  <2>2. r.left = x.left
    BY <1>7 DEF Over
  <2>3. \A k \in Kind :
          <<i, k>> \notin x.left \cup x.deleting \cup x.starting \cup x.watching \cup x.missed
    BY <1>7 DEF Over, Deleted, Pending, Of
  <2>. QED BY <1>7, <2>1, <2>2, <2>3, TurnsKeepsBasis DEF Over
<1>8. ASSUME NEW o \in x.left, NEW r, Marks(c, o, r) PROVE KubeBasis'
  <2>1. PICK i \in Instance, k \in Kind : o = <<i, k>>
    BY <1>2 DEF Object
  <2>2. /\ object' = [object EXCEPT ![i][k] = markObjectAsDeleted(object[i][k])]
        /\ UNCHANGED <<labels, pod, created, bounds, hurt>>
        /\ Handles(c, r) /\ r.left = x.left \ {o} /\ x.at = "delete" /\ x.phase[i] = "mark"
        /\ r.deleting = x.deleting /\ r.starting = x.starting
        /\ r.watching = x.watching /\ r.missed = x.missed
    BY <1>1, <1>8, <2>1 DEF Marks, MarkObject, Deleting, At, KubeTypes
  <2>3. markObjectAsDeleted(object[i][k]) \in Status
        /\ (markObjectAsDeleted(object[i][k]) = "ending" => k = "PersistentVolumeClaim")
    BY <1>1 DEF KubeTypes, ClusterOK, Status, markObjectAsDeleted
  <2>4. CASE object[i][k] = "absent"
    <3>1. object' = object
      BY <1>1, <2>2, <2>4 DEF markObjectAsDeleted, KubeTypes
    <3>2. ClusterTypes' /\ ClusterOK'
      BY <1>3, <2>2, <3>1 DEF cluster
    <3>. QED BY <1>1, <2>2, <3>2, HandlesKeepsBasis DEF PhaseOK, At, bounds
  <2>5. CASE object[i][k] # "absent"
    <3>1. labels[i] # None /\ (i > 0 => k \in Whole(i))
      BY <1>1, <2>5 DEF ClusterOK
    <3>2. ClusterOK' /\ object' \in [Instance -> [Kind -> Status]]
      BY <1>1, <2>2, <2>3, <3>1, OneObject
    <3>3. ClusterTypes'
      BY <1>1, <2>2, <3>2 DEF ClusterTypes, KubeTypes, bounds
    <3>. QED BY <1>1, <2>2, <3>2, <3>3, HandlesKeepsBasis DEF PhaseOK, At, bounds
  <2>. QED BY <2>4, <2>5
<1>9. ASSUME NEW o \in x.left, NEW r, Reads(c, o, r) PROVE KubeBasis'
  <2>1. PICK i \in Instance, k \in Kind : o = <<i, k>>
    BY <1>2 DEF Object
  <2>2. x.at = "delete" /\ x.phase[i] = "delete" /\ UNCHANGED <<cluster, bounds, hurt>>
    BY <1>9, <2>1 DEF Reads, ReadObject, Deleting, At
  <2>3. ClusterTypes' /\ ClusterOK'
    BY <1>3, <2>2
  <2>4. \A j \in Instance, l \in Kind :
           <<j, l>> \in r.deleting \cup r.starting \cup r.watching \cup r.missed =>
             x.phase[j] = "delete"
    BY <1>1, <1>9, <2>1, <2>2 DEF Reads, PhaseOK
  <2>5. Handles(c, r) /\ r.left \subseteq x.left
    BY <1>9 DEF Reads
  <2>. QED BY <2>2, <2>3, <2>4, <2>5, HandlesKeepsBasis DEF At, cluster, bounds
<1>10. ASSUME NEW o \in x.starting, NEW r, Watches(c, o, r) PROVE KubeBasis'
  <2>1. PICK i \in Instance, k \in Kind : o = <<i, k>>
    BY <1>2 DEF Object
  <2>2. x.phase[i] = "delete" /\ x.at = "delete" /\ UNCHANGED <<cluster, bounds, hurt>>
    BY <1>1, <1>10, <2>1 DEF Watches, waitForDeletion, PhaseOK
  <2>3. ClusterTypes' /\ ClusterOK'
    BY <1>3, <2>2
  <2>4. \A j \in Instance, l \in Kind :
           <<j, l>> \in r.deleting \cup r.starting \cup r.watching \cup r.missed =>
             x.phase[j] = "delete"
    BY <1>1, <1>10, <2>1, <2>2 DEF Watches, PhaseOK
  <2>5. Handles(c, r) /\ r.left \subseteq x.left
    BY <1>10 DEF Watches
  <2>. QED BY <2>2, <2>3, <2>4, <2>5, HandlesKeepsBasis DEF At, cluster, bounds
<1>11. ASSUME NEW o \in x.deleting, Deletes(c, o) PROVE KubeBasis'
  <2>1. PICK i \in Instance, k \in Kind : o = <<i, k>>
    BY <1>2 DEF Object
  <2>. DEFINE s == IF Ends(o) THEN "ending" ELSE "gone"
  <2>2. /\ object' = [object EXCEPT ![i][k] = s]
        /\ UNCHANGED <<labels, pod, created, bounds, hurt>>
        /\ There(i, k)
    BY <1>11, <2>1 DEF Deletes
  <2>3. s \in Status /\ (s = "ending" => k = "PersistentVolumeClaim")
    BY <2>1 DEF Status, Ends
  <2>4. labels[i] # None /\ (i > 0 => k \in Whole(i))
    BY <1>1, <2>2 DEF ClusterOK, There
  <2>. HIDE DEF s
  <2>5. ClusterOK' /\ object' \in [Instance -> [Kind -> Status]]
    BY <1>1, <2>2, <2>3, <2>4, OneObject
  <2>6. ClusterTypes'
    BY <1>1, <2>2, <2>5 DEF ClusterTypes, KubeTypes, bounds
  <2>7. \A d \in Cli : /\ Notices(d) /\ cli'[d].deleting \subseteq cli[d].deleting
                       /\ cli'[d].watching \subseteq cli[d].watching
    BY <1>11 DEF Deletes
  <2>. QED BY <1>11, <2>2, <2>5, <2>6, <2>7, NoticesKeepBasis DEF Deletes, bounds
<1>. QED BY <1>4, <1>5, <1>6, <1>7, <1>8, <1>9, <1>10, <1>11 DEF Deletion

LEMMA ClusterKeepsBasis ==
  ASSUME KubeBasis, NEW i \in Instance, StartPod(i) \/ ReadyFor(i) \/ PodFails(i) \/ GoneFor(i)
  PROVE  KubeBasis'
<1>. DEFINE k == "PersistentVolumeClaim"
<1>1. KubeTypes /\ ClusterOK /\ k \in Kind
  BY KindFacts DEF KubeBasis
<1>2. CASE StartPod(i)
  <2>1. /\ There(i, Workload(i)) /\ pod' = [pod EXCEPT ![i] = "pending"]
        /\ object' = [object EXCEPT ![i][k] = IF @ = "absent" THEN "live" ELSE @]
        /\ UNCHANGED <<labels, created, cli, bounds, hurt>>
    BY <1>2 DEF StartPod
  <2>. DEFINE s == IF object[i][k] = "absent" THEN "live" ELSE object[i][k]
  <2>2. s \in Status
    BY <1>1 DEF KubeTypes, Status
  <2>3. object' = [object EXCEPT ![i][k] = s]
    BY <2>1
  <2>4. labels[i] # None
    BY <1>1, <2>1, KindFacts DEF ClusterOK, There
  <2>5. i > 0 => k \in Whole(i)
    <3>1. i > 0 => i \in 1 .. created
      <4>1. i \in Nat /\ created \in Nat /\ ~(i > created)
        BY <1>1, <2>4, InstanceFacts DEF ClusterOK, KubeTypes
      <4>. QED BY <4>1
    <3>2. i > 0 => labels[i].template # None
      BY <1>1, <3>1, KubeAssumption DEF ClusterOK
    <3>. QED BY <3>2 DEF Whole, addAllTypesAnnotation
  <2>. HIDE DEF s
  <2>6. ClusterOK' /\ object' \in [Instance -> [Kind -> Status]]
    BY <1>1, <2>1, <2>2, <2>3, <2>4, <2>5, OneObject
  <2>7. ClusterTypes'
    BY <1>1, <2>1, <2>6 DEF ClusterTypes, KubeTypes, bounds
  <2>8. cli' \in [Cli -> KubeCommand]
        /\ \A d \in Cli : /\ Notices(d) /\ cli'[d].deleting \subseteq cli[d].deleting
                          /\ cli'[d].watching \subseteq cli[d].watching
    BY <1>1, <2>1 DEF Notices, Alike, KubeTypes
  <2>. QED BY <2>1, <2>6, <2>7, <2>8, NoticesKeepBasis DEF bounds
<1>3. CASE ReadyFor(i) \/ PodFails(i)
  <2>1. /\ pod' \in [Instance -> {"none", "pending", "ready"}]
        /\ UNCHANGED <<object, labels, created, bounds, hurt>>
    BY <1>1, <1>3 DEF ReadyFor, PodReady, PodFails, KubeTypes
  <2>2. ClusterOK' /\ ClusterTypes'
    BY <1>1, <2>1, SameCluster DEF ClusterTypes, KubeTypes, bounds
  <2>3. cli' \in [Cli -> KubeCommand]
        /\ \A d \in Cli : /\ Notices(d) /\ cli'[d].deleting \subseteq cli[d].deleting
                          /\ cli'[d].watching \subseteq cli[d].watching
    BY <1>1, <1>3 DEF ReadyFor, PodFails, Notices, Alike, KubeTypes
  <2>. QED BY <2>1, <2>2, <2>3, NoticesKeepBasis DEF bounds
<1>4. CASE GoneFor(i)
  <2>1. /\ pod' = [pod EXCEPT ![i] = "none"] /\ UNCHANGED <<labels, created, bounds, hurt>>
        /\ object' = IF object[i][k] = "ending" THEN [object EXCEPT ![i][k] = "gone"] ELSE object
    BY <1>4 DEF GoneFor, PodGone
  <2>2. ClusterOK' /\ object' \in [Instance -> [Kind -> Status]]
    <3>1. CASE object[i][k] = "ending"
      <4>1. labels[i] # None /\ (i > 0 => k \in Whole(i))
        BY <1>1, <3>1 DEF ClusterOK
      <4>2. "gone" \in Status /\ object' = [object EXCEPT ![i][k] = "gone"]
        BY <2>1, <3>1 DEF Status
      <4>. QED BY <1>1, <2>1, <4>1, <4>2, OneObject
    <3>2. CASE object[i][k] # "ending"
      <4>1. object' = object
        BY <2>1, <3>2
      <4>. QED BY <1>1, <2>1, <4>1, SameCluster DEF KubeTypes
    <3>. QED BY <3>1, <3>2
  <2>3. ClusterTypes'
    BY <1>1, <2>1, <2>2 DEF ClusterTypes, KubeTypes, bounds
  <2>4. \A d \in Cli : /\ Notices(d) /\ cli'[d].deleting \subseteq cli[d].deleting
                       /\ cli'[d].watching \subseteq cli[d].watching
    BY <1>4 DEF GoneFor
  <2>. QED BY <1>4, <2>1, <2>2, <2>3, <2>4, NoticesKeepBasis DEF GoneFor, bounds
<1>. QED BY <1>2, <1>3, <1>4

LEMMA StepKeepsBasis ==
  ASSUME KubeBasis, KubeStep
  PROVE  KubeBasis'
BY StartKeepsBasis, StopKeepsBasis, MovesKeepsBasis, CreatesKeepsBasis, AppliesKeepsBasis,
   AimsKeepsBasis, DeletionKeepsBasis, ClusterKeepsBasis DEF KubeStep

\* The types of KubePods are right in every behaviour: no command leaves its
\* stages, or retries a command in the pod more often than it may.
THEOREM KubeTypeCorrect == Spec => []TypeOK
<1>1. Init => KubeBasis
  BY InitBasis
<1>2. KubeBasis /\ [Next]_vars => KubeBasis'
  <2>1. KubeBasis /\ UNCHANGED vars => KubeBasis'
    BY DEF vars, cluster, bounds, KubeBasis, KubeTypes, ClusterOK, CommandOK, PhaseOK, Apart,
           Whole, At, addEnvMetadata
  <2>. QED BY <2>1, NextDoes, StepKeepsBasis
<1>3. KubeBasis => TypeOK
  BY DEF KubeBasis, KubeTypes, KubeCommand, TypeOK
<1>. QED BY <1>1, <1>2, <1>3, PTL DEF Spec

-----------------------------------------------------------------------------
(* What is left of an instance *)

\* A command that creates an instance.
Applies(c, i) == At(c, "apply") /\ cli[c].instance = i

\* A command that deletes an instance will delete everything that is left of it.
Covers(c, i) ==
  LET r == cli[c] IN
  /\ r.phase[i] \in {"list", "mark", "delete"}
  /\ r.phase[i] = "list" => {i} \X Whole(i) \subseteq r.left
  /\ r.phase[i] = "mark" => \A k \in Kind : There(i, k) => <<i, k>> \in r.found
  /\ r.phase[i] = "delete" => \A k \in Kind :
       object[i][k] \in {"live", "marked"} => <<i, k>> \in r.left \cup r.deleting

Docker(i) == object[i]["StatefulSet"]

InstanceOK(i) ==
  /\ Docker(i) = "absent" => \E c \in Cli : Applies(c, i)
  /\ \A k \in Kind : object[i][k] \notin {"absent", "live"} => ~Incomplete(i)
  /\ \A c \in Cli :
       /\ cli[c].phase[i] \in {"mark", "delete", "over"} => ~Incomplete(i)
       /\ cli[c].phase[i] \notin {"none", "types"} => Docker(i) # "absent"
       /\ cli[c].phase[i] \in {"list", "mark", "delete"} /\ There(i, "StatefulSet") => Covers(c, i)
  /\ Docker(i) = "gone" =>
       \/ \E c \in Cli : Covers(c, i)
       \/ \A k \in Kind : object[i][k] \notin {"live", "marked"}

HistoryOK == \A i \in 1 .. created : i \notin hurt => InstanceOK(i)

\* What does not change for an instance when the record of a command does.
Goes(c, i, r) ==
  LET x == cli[c] IN
  /\ r.phase[i] \in {"mark", "delete", "over"} => ~Incomplete(i)
  /\ r.phase[i] \notin {"none", "types"} => Docker(i) # "absent"
  /\ r.phase[i] \in {"list", "mark", "delete"} /\ There(i, "StatefulSet") => Covers(c, i)'
  /\ Covers(c, i) => Covers(c, i)' \/ \A k \in Kind : object[i][k] \notin {"live", "marked"}
  /\ r.at = "apply" /\ r.instance = i =>
       Applies(c, i) /\ r.applied = x.applied /\ r.template = x.template
  /\ Applies(c, i) /\ ~(r.at = "apply" /\ r.instance = i) => Docker(i) # "absent"

LEMMA OneKeepsInstance ==
  ASSUME KubeBasis, NEW i \in 1 .. created, InstanceOK(i), NEW c \in Cli, NEW r,
         cli' = [cli EXCEPT ![c] = r], object' = object, labels'[i] = labels[i], Goes(c, i, r)
  PROVE  InstanceOK(i)'
<1>1. cli'[c] = r /\ \A d \in Cli : d # c => cli'[d] = cli[d]
  BY DEF KubeBasis, KubeTypes
<1>2. Whole(i)' = Whole(i) /\ Docker(i)' = Docker(i) /\ \A k : There(i, k)' = There(i, k)
  BY DEF Whole, Docker, There
<1>3. \A d \in Cli : d # c => Covers(d, i)' = Covers(d, i) /\ Applies(d, i)' = Applies(d, i)
  BY <1>1, <1>2 DEF Covers, Applies, At
<1>4. ~Incomplete(i) => ~Incomplete(i)'
  BY <1>1, <1>2 DEF Incomplete, Goes, Applies, At
<1>5. Docker(i)' = "absent" => \E d \in Cli : Applies(d, i)'
  <2>1. Applies(c, i) /\ Docker(i) = "absent" => Applies(c, i)'
    BY <1>1 DEF Goes, Applies, At
  <2>. QED BY <1>2, <1>3, <2>1 DEF InstanceOK
<1>6. \A k \in Kind : object'[i][k] \notin {"absent", "live"} => ~Incomplete(i)'
  BY <1>4 DEF InstanceOK
<1>7. ASSUME NEW d \in Cli
      PROVE  /\ cli'[d].phase[i] \in {"mark", "delete", "over"} => ~Incomplete(i)'
             /\ cli'[d].phase[i] \notin {"none", "types"} => Docker(i)' # "absent"
             /\ cli'[d].phase[i] \in {"list", "mark", "delete"} /\ There(i, "StatefulSet")' =>
                  Covers(d, i)'
  <2>1. CASE d = c
    BY <1>1, <1>2, <1>4, <2>1 DEF Goes
  <2>2. CASE d # c
    BY <1>1, <1>2, <1>3, <1>4, <2>2 DEF InstanceOK
  <2>. QED BY <2>1, <2>2
<1>8. Docker(i)' = "gone" => \/ \E d \in Cli : Covers(d, i)'
                             \/ \A k \in Kind : object'[i][k] \notin {"live", "marked"}
  BY <1>2, <1>3 DEF InstanceOK, Goes
<1>. QED BY <1>5, <1>6, <1>7, <1>8 DEF InstanceOK

LEMMA CreatedFacts ==
  ASSUME KubeBasis, NEW i \in 1 .. created
  PROVE  /\ i \in Instance /\ i # 0 /\ i > 0 /\ created \in Nat
         /\ labels[i] # None /\ labels[i] \in [env : Env, template : Template]
<1>1. KubeTypes /\ ClusterOK
  BY DEF KubeBasis
<1>2. created \in 0 .. MaxInstances /\ MaxInstances \in Nat
  BY <1>1, KubeAssumption DEF KubeTypes, Instance
<1>3. i \in 0 .. MaxInstances /\ i > 0 /\ created \in Nat
  BY <1>2
<1>4. labels[i] \in [env : Env, template : Template]
  BY <1>1 DEF ClusterOK
<1>5. labels[i] # None
  BY <1>4, KubeAssumption
<1>. QED BY <1>3, <1>4, <1>5 DEF Instance

LEMMA StartKeepsInstance ==
  ASSUME KubeBasis, NEW i \in 1 .. created, InstanceOK(i),
         NEW c \in Cli, NEW j, Fresh(j), Start(c, j)
  PROVE  InstanceOK(i)'
<1>1. i \in Instance /\ PhaseOK(c) /\ At(c, "idle")
  BY CreatedFacts DEF KubeBasis, Start
<1>2. cli' = [cli EXCEPT ![c] = j] /\ UNCHANGED <<object, labels>>
  BY DEF Start, cluster
<1>3. j.phase[i] = "none" /\ j.at = "find" /\ cli[c].phase[i] = "none"
  BY <1>1 DEF Fresh, PhaseOK, At
<1>4. ~Covers(c, i) /\ ~Applies(c, i)
  BY <1>1, <1>3 DEF Covers, Applies, At
<1>. QED BY <1>2, <1>3, <1>4, OneKeepsInstance DEF Goes

LEMMA StopKeepsInstance ==
  ASSUME KubeBasis, NEW i \in 1 .. created, InstanceOK(i), i \notin hurt', NEW c \in Cli, Stops(c)
  PROVE  InstanceOK(i)'
<1>1. i \in Instance /\ PhaseOK(c)
  BY CreatedFacts DEF KubeBasis
<1>2. cli' = [cli EXCEPT ![c] = Idle] /\ UNCHANGED <<object, labels>> /\ i \notin Busy(c)
  BY DEF Stops, Stop, cluster
<1>3. Idle.phase[i] = "none" /\ Idle.at = "idle"
  BY <1>1 DEF Idle
<1>4. ~Covers(c, i) /\ ~Applies(c, i)
  BY <1>1, <1>2 DEF Covers, Applies, At, Busy, PhaseOK
<1>. QED BY <1>2, <1>3, <1>4, OneKeepsInstance DEF Goes

LEMMA MovesKeepsInstance ==
  ASSUME KubeBasis, NEW i \in 1 .. created, InstanceOK(i), NEW c \in Cli, NEW r, Moves(c, r)
  PROVE  InstanceOK(i)'
<1>1. /\ cli' = [cli EXCEPT ![c] = r] /\ UNCHANGED <<object, labels>> /\ cli'[c] = r
      /\ SameSets(r, cli[c]) /\ Alike(r, cli[c])
  BY DEF KubeBasis, KubeTypes, Moves, Becomes, Same, cluster
<1>2. r.at # "apply"
  BY DEF Moves, Connecting
<1>3. Applies(c, i) => There(i, "StatefulSet")
  BY DEF Moves, Applies, At, Connecting
<1>4. Covers(c, i)' = Covers(c, i)
  BY <1>1 DEF Covers, SameSets, Whole, There
<1>. QED BY <1>1, <1>2, <1>3, <1>4, OneKeepsInstance DEF Goes, InstanceOK, SameSets, There, Docker

LEMMA AimsKeepsInstance ==
  ASSUME KubeBasis, NEW i \in 1 .. created, InstanceOK(i),
         NEW c \in Cli, NEW r, NEW S, Aims(c, r, S)
  PROVE  InstanceOK(i)'
<1>1. i \in Instance /\ PhaseOK(c)
  BY CreatedFacts DEF KubeBasis
<1>2. /\ cli' = [cli EXCEPT ![c] = r] /\ UNCHANGED <<object, labels>>
      /\ cli[c].at = "find" /\ r.at = "delete" /\ r.phase[i] \in {"none", "types"}
  BY <1>1 DEF Aims, Becomes, Same, cluster, Targets
<1>3. ~Covers(c, i) /\ ~Applies(c, i)
  BY <1>1, <1>2 DEF Covers, Applies, At, PhaseOK
<1>. QED BY <1>2, <1>3, OneKeepsInstance DEF Goes

\* A new instance is one that its command applies.
LEMMA CreatesKeepsInstance ==
  ASSUME KubeBasis, NEW c \in Cli, NEW r, Creates(c, r), NEW i \in 1 .. created',
         i <= created => InstanceOK(i)
  PROVE  InstanceOK(i)'
<1>1. /\ KubeTypes /\ ClusterOK /\ created \in Nat /\ created' = created + 1
      /\ cli' = [cli EXCEPT ![c] = r] /\ cli'[c] = r /\ object' = object
      /\ labels' = [labels EXCEPT ![created + 1] = addEnvMetadata(c)]
      /\ SameSets(r, cli[c]) /\ Alike(r, cli[c]) /\ r.at = "apply" /\ r.instance = created + 1
      /\ cli[c].at = "create" /\ created + 1 \in Instance
  BY InstanceFacts DEF KubeBasis, KubeTypes, Creates, Becomes
<1>2. CASE i = created + 1
  <2>1. labels[i] = None /\ \A k \in Kind : object[i][k] = "absent"
    BY <1>1, <1>2 DEF ClusterOK
  <2>2. ASSUME NEW d \in Cli PROVE cli'[d].phase[i] = "none"
    <3>1. cli[d].phase[i] = "none"
      BY <1>1, <1>2, <2>1 DEF KubeBasis, PhaseOK
    <3>. QED BY <1>1, <3>1 DEF KubeTypes, SameSets
  <2>3. Applies(c, i)'
    BY <1>1, <1>2 DEF Applies, At
  <2>4. \A k \in Kind : object'[i][k] = "absent"
    BY <1>1, <2>1
  <2>. QED BY <2>2, <2>3, <2>4, KindFacts DEF InstanceOK, Docker
<1>3. CASE i <= created
  <2>1. i \in 1 .. created /\ i \in Instance /\ i # created + 1
    BY <1>1, <1>3, InstanceFacts, KubeAssumption DEF Instance
  <2>2. labels'[i] = labels[i]
    BY <1>1, <2>1 DEF KubeTypes
  <2>3. Covers(c, i)' = Covers(c, i)
    BY <1>1, <2>2 DEF Covers, SameSets, Whole, There
  <2>4. ~Applies(c, i)
    BY <1>1 DEF Applies, At
  <2>5. InstanceOK(i)
    BY <1>3
  <2>. QED BY <1>1, <2>1, <2>2, <2>3, <2>4, <2>5, OneKeepsInstance DEF Goes, InstanceOK, SameSets
<1>4. i = created + 1 \/ i <= created
  BY <1>1
<1>. QED BY <1>2, <1>3, <1>4

LEMMA TypedKeepsInstance ==
  ASSUME KubeBasis, NEW i \in 1 .. created, InstanceOK(i), i \notin hurt', NEW c \in Cli,
         NEW j \in Instance, NEW r, Typed(c, j, r)
  PROVE  InstanceOK(i)'
<1>1. i \in Instance /\ PhaseOK(c) /\ i # 0 /\ KubeTypes
  BY CreatedFacts DEF KubeBasis
<1>2. /\ cli' = [cli EXCEPT ![c] = r] /\ cli'[c] = r /\ UNCHANGED <<object, labels>>
      /\ cli[c].at = "delete" /\ r.at = "delete" /\ cli[c].phase[j] = "types"
      /\ r.phase[j] = "list" /\ (\A l \in Instance : l # j => r.phase[l] = cli[c].phase[l])
      /\ r.found = cli[c].found /\ r.deleting = cli[c].deleting
      /\ r.left = cli[c].left \cup ({j} \X findInstanceAllTypes(c, j))
      /\ hurt' = IF object[j][Workload(j)] = "absent" THEN hurt \cup {j} ELSE hurt
  BY <1>1 DEF Typed, Turns, Becomes, KubeTypes, KubeCommand, FindTypes, cluster
<1>3. ~Applies(c, i)
  BY <1>2 DEF Applies, At
<1>4. CASE i # j
  <2>1. Covers(c, i)' = Covers(c, i)
    BY <1>1, <1>2, <1>4 DEF Covers, Whole, There
  <2>. QED BY <1>1, <1>2, <1>3, <1>4, <2>1, OneKeepsInstance DEF Goes, InstanceOK
<1>5. CASE i = j
  <2>1. Docker(i) # "absent"
    BY <1>1, <1>2, <1>5 DEF Docker, Workload
  <2>2. There(i, "StatefulSet") => Covers(c, i)'
    <3>1. There(i, "StatefulSet") => {i} \X Whole(i) \subseteq r.left
      BY <1>2, <1>5 DEF findInstanceAllTypes, readAllTypesAnnotation
    <3>. QED BY <1>2, <1>5, <3>1 DEF Covers, Whole
  <2>3. ~Covers(c, i)
    BY <1>2, <1>5 DEF Covers
  <2>. QED BY <1>2, <1>3, <1>5, <2>1, <2>2, <2>3, OneKeepsInstance DEF Goes
<1>. QED BY <1>4, <1>5

\* All that is there of a complete instance is of its kinds, and is found.
LEMMA ListedKeepsInstance ==
  ASSUME KubeBasis, NEW i \in 1 .. created, InstanceOK(i), i \notin hurt', NEW c \in Cli,
         NEW j \in Instance, NEW r, Listed(c, j, r)
  PROVE  InstanceOK(i)'
<1>1. i \in Instance /\ PhaseOK(c) /\ i > 0 /\ KubeTypes /\ ClusterOK
  BY CreatedFacts DEF KubeBasis
<1>2. /\ cli' = [cli EXCEPT ![c] = r] /\ cli'[c] = r /\ UNCHANGED <<object, labels>>
      /\ cli[c].at = "delete" /\ r.at = "delete" /\ cli[c].phase[j] = "list"
      /\ r.phase[j] = "mark" /\ (\A l \in Instance : l # j => r.phase[l] = cli[c].phase[l])
      /\ r.deleting = cli[c].deleting
      /\ hurt' = IF Incomplete(j) THEN hurt \cup {j} ELSE hurt
  BY <1>1 DEF Listed, Turns, Becomes, KubeTypes, KubeCommand, listInstanceObjects, cluster
<1>3. /\ \A k \in Kind, l \in Instance : l # j =>
           /\ <<l, k>> \in r.left <=> <<l, k>> \in cli[c].left
           /\ <<l, k>> \in r.found <=> <<l, k>> \in cli[c].found
      /\ \A k \in Kind : <<j, k>> \in cli[c].left /\ There(j, k) => <<j, k>> \in r.found
  BY DEF Listed, dynamicList, Of
<1>4. ~Applies(c, i)
  BY <1>2 DEF Applies, At
<1>5. CASE i # j
  <2>1. Whole(i) \subseteq Kind
    <3>1. labels[i] # None
      BY <1>1, KubeAssumption DEF ClusterOK
    <3>. QED BY <1>1, <3>1, WholeFacts
  <2>2. Covers(c, i)' = Covers(c, i)
    BY <1>1, <1>2, <1>3, <1>5, <2>1 DEF Covers, Whole, There
  <2>. QED BY <1>1, <1>2, <1>4, <1>5, <2>2, OneKeepsInstance DEF Goes, InstanceOK
<1>6. CASE i = j
  <2>1. ~Incomplete(i)
    BY <1>2, <1>6
  <2>2. Docker(i) # "absent"
    BY <1>2, <1>6 DEF InstanceOK
  <2>3. ASSUME Covers(c, i) PROVE Covers(c, i)'
    <3>1. {i} \X Whole(i) \subseteq cli[c].left
      BY <1>2, <1>6, <2>3 DEF Covers
    <3>2. \A k \in Kind : There(i, k) => k \in Whole(i)
      BY <1>1 DEF There, ClusterOK
    <3>3. \A k \in Kind : There(i, k)' => <<i, k>> \in r.found
      BY <1>2, <1>3, <1>6, <3>1, <3>2 DEF There
    <3>. QED BY <1>2, <1>6, <3>3 DEF Covers
  <2>4. There(i, "StatefulSet") => Covers(c, i)
    BY <1>2, <1>6 DEF InstanceOK
  <2>. QED BY <1>2, <1>4, <1>6, <2>1, <2>2, <2>3, <2>4, OneKeepsInstance DEF Goes
<1>. QED BY <1>5, <1>6

LEMMA MarkedKeepsInstance ==
  ASSUME KubeBasis, NEW i \in 1 .. created, InstanceOK(i), NEW c \in Cli,
         NEW j \in Instance, NEW r, Marked(c, j, r) \/ Over(c, j, r)
  PROVE  InstanceOK(i)'
<1>1. i \in Instance /\ PhaseOK(c) /\ KubeTypes
  BY CreatedFacts DEF KubeBasis
<1>2. /\ cli' = [cli EXCEPT ![c] = r] /\ cli'[c] = r /\ UNCHANGED <<object, labels>>
      /\ cli[c].at = "delete" /\ r.at = "delete"
      /\ (\A l \in Instance : l # j => r.phase[l] = cli[c].phase[l])
      /\ r.deleting = cli[c].deleting /\ r.found = cli[c].found
      /\ \/ /\ cli[c].phase[j] = "mark" /\ r.phase[j] = "delete"
            /\ r.left = cli[c].left \cup Of(j, cli[c].found)
         \/ /\ cli[c].phase[j] = "delete" /\ r.phase[j] = "over"
            /\ r.left = cli[c].left /\ Of(j, cli[c].left \cup cli[c].deleting) = {}
  BY <1>1 DEF Marked, Over, Turns, Becomes, KubeTypes, KubeCommand, cluster, Deleted, Pending, Of
<1>3. ~Applies(c, i)
  BY <1>2 DEF Applies, At
<1>4. CASE i # j
  <2>1. Covers(c, i)' <=> Covers(c, i)
    <3>1. \A k : <<i, k>> \in r.left <=> <<i, k>> \in cli[c].left
      BY <1>2, <1>4 DEF Of
    <3>2. {i} \X Whole(i) \subseteq r.left <=> {i} \X Whole(i) \subseteq cli[c].left
      BY <3>1
    <3>. QED BY <1>1, <1>2, <1>4, <3>1, <3>2 DEF Covers, Whole, There
  <2>. QED BY <1>1, <1>2, <1>3, <1>4, <2>1, OneKeepsInstance DEF Goes, InstanceOK
<1>5. CASE i = j /\ cli[c].phase[j] = "mark"
  <2>1. Covers(c, i) => Covers(c, i)'
    BY <1>2, <1>5 DEF Covers, There, Of
  <2>. QED BY <1>2, <1>3, <1>5, <2>1, OneKeepsInstance DEF Goes, InstanceOK
<1>6. CASE i = j /\ cli[c].phase[j] = "delete"
  <2>1. \A k \in Kind : <<i, k>> \notin cli[c].left \cup cli[c].deleting
    BY <1>2, <1>6 DEF Of
  <2>2. Covers(c, i) => \A k \in Kind : object[i][k] \notin {"live", "marked"}
    BY <1>6, <2>1 DEF Covers
  <2>. QED BY <1>2, <1>3, <1>6, <2>2, OneKeepsInstance DEF Goes, InstanceOK
<1>. QED BY <1>2, <1>4, <1>5, <1>6

\* A command is where it was with an instance, and handles all that is still there of it.
Attends(d, i) ==
  LET r == cli'[d] x == cli[d] IN
  /\ r.phase[i] = x.phase[i] /\ r.at = x.at /\ r.instance = x.instance
  /\ r.applied = x.applied /\ r.template = x.template
  /\ \A k \in Kind :
       /\ x.phase[i] = "list" /\ <<i, k>> \in x.left => <<i, k>> \in r.left
       /\ <<i, k>> \in x.found => <<i, k>> \in r.found
       /\ x.phase[i] = "delete" /\ object'[i][k] \in {"live", "marked"}
          /\ <<i, k>> \in x.left \cup x.deleting => <<i, k>> \in r.left \cup r.deleting

\* Nothing that was not there of an instance has come, and it does not lose its workload
\* but to a command that covers it.
Wanes(i) ==
  /\ \A k \in Kind :
       /\ object'[i][k] = "absent" <=> object[i][k] = "absent"
       /\ There(i, k)' => There(i, k)
       /\ object'[i][k] \in {"live", "marked"} => object[i][k] \in {"live", "marked"}
       /\ object'[i][k] \notin {"absent", "live"} =>
            object[i][k] \notin {"absent", "live"} \/ ~Incomplete(i)
  /\ Docker(i)' = "gone" => Docker(i) = "gone" \/ \E d \in Cli : Covers(d, i)

LEMMA WaningKeepsInstance ==
  ASSUME KubeBasis, NEW i \in 1 .. created, InstanceOK(i), labels' = labels, Wanes(i),
         \A d \in Cli : Attends(d, i)
  PROVE  InstanceOK(i)'
<1>1. Whole(i)' = Whole(i) /\ Whole(i) \subseteq Kind /\ "StatefulSet" \in Kind
  BY CreatedFacts, WholeFacts, KindFacts DEF Whole, KubeBasis
<1>2. ~Incomplete(i) => ~Incomplete(i)'
  BY <1>1 DEF Incomplete, Wanes, Attends, At
<1>3. \A d \in Cli : Applies(d, i)' = Applies(d, i)
  BY DEF Applies, At, Attends
<1>4. ASSUME NEW d \in Cli, Covers(d, i) PROVE Covers(d, i)'
  <2>1. CASE cli[d].phase[i] = "list"
    BY <1>1, <1>4, <2>1 DEF Covers, Attends
  <2>2. CASE cli[d].phase[i] = "mark"
    BY <1>4, <2>2 DEF Covers, Attends, Wanes
  <2>3. CASE cli[d].phase[i] = "delete"
    BY <1>4, <2>3 DEF Covers, Attends, Wanes
  <2>. QED BY <1>4, <2>1, <2>2, <2>3 DEF Covers
<1>5. Docker(i)' = "absent" <=> Docker(i) = "absent"
  BY <1>1 DEF Docker, Wanes
<1>6. Docker(i)' = "absent" => \E d \in Cli : Applies(d, i)'
  BY <1>3, <1>5 DEF InstanceOK
<1>7. \A k \in Kind : object'[i][k] \notin {"absent", "live"} => ~Incomplete(i)'
  BY <1>2 DEF InstanceOK, Wanes
<1>8. ASSUME NEW d \in Cli
      PROVE  /\ cli'[d].phase[i] \in {"mark", "delete", "over"} => ~Incomplete(i)'
             /\ cli'[d].phase[i] \notin {"none", "types"} => Docker(i)' # "absent"
             /\ cli'[d].phase[i] \in {"list", "mark", "delete"} /\ There(i, "StatefulSet")' =>
                  Covers(d, i)'
  <2>1. cli'[d].phase[i] = cli[d].phase[i]
    BY DEF Attends
  <2>2. There(i, "StatefulSet")' => There(i, "StatefulSet")
    BY <1>1 DEF Wanes
  <2>. QED BY <1>2, <1>4, <1>5, <2>1, <2>2 DEF InstanceOK
<1>9. Docker(i)' = "gone" => \/ \E d \in Cli : Covers(d, i)'
                             \/ \A k \in Kind : object'[i][k] \notin {"live", "marked"}
  BY <1>4 DEF InstanceOK, Wanes
<1>. QED BY <1>6, <1>7, <1>8, <1>9 DEF InstanceOK

LEMMA HandlesKeepsInstance ==
  ASSUME KubeBasis, NEW i \in 1 .. created, InstanceOK(i), NEW c \in Cli,
         \/ \E o \in cli[c].left : \E r : Marks(c, o, r) \/ Reads(c, o, r)
         \/ \E o \in cli[c].starting : \E r : Watches(c, o, r)
  PROVE  InstanceOK(i)'
<1>1. /\ i \in Instance /\ PhaseOK(c) /\ KubeTypes /\ cli[c].left \subseteq Object
      /\ cli[c].starting \subseteq Object
  BY CreatedFacts DEF KubeBasis, KubeTypes, KubeCommand
<1>2. ASSUME NEW r, Handles(c, r)
      PROVE  cli'[c] = r /\ \A d \in Cli : d # c => Attends(d, i)
  BY <1>1, <1>2 DEF Handles, Becomes, KubeTypes, Attends
<1>3. ASSUME object' = object PROVE Wanes(i)
  BY <1>3 DEF Wanes, There, Docker
<1>4. ASSUME NEW o \in cli[c].left, NEW r, Marks(c, o, r) PROVE InstanceOK(i)'
  <2>1. PICK j \in Instance, k \in Kind : o = <<j, k>>
    BY <1>1 DEF Object
  <2>2. /\ object' = [object EXCEPT ![j][k] = markObjectAsDeleted(object[j][k])]
        /\ labels' = labels /\ cli'[c] = r /\ Handles(c, r)
        /\ r.left = cli[c].left \ {o} /\ cli[c].phase[j] = "mark" /\ r.deleting = cli[c].deleting
    BY <1>1, <1>2, <1>4, <2>1 DEF Marks, MarkObject, Deleting, KubeTypes
  <2>3. Attends(c, i)
    BY <1>1, <2>1, <2>2 DEF Attends, Handles, Alike
  <2>4. \A l \in Kind : object'[i][l] = IF i = j /\ l = k THEN markObjectAsDeleted(object[i][l])
                                                           ELSE object[i][l]
    BY <1>1, <2>2 DEF KubeTypes
  <2>5. i = j => ~Incomplete(i)
    BY <2>2 DEF InstanceOK
  <2>6. Wanes(i)
    BY <2>4, <2>5, KindFacts DEF Wanes, markObjectAsDeleted, There, Docker
  <2>. QED BY <1>2, <2>2, <2>3, <2>6, WaningKeepsInstance
<1>5. ASSUME NEW o \in cli[c].left, NEW r, Reads(c, o, r) PROVE InstanceOK(i)'
  <2>1. PICK j \in Instance, k \in Kind : o = <<j, k>>
    BY <1>1 DEF Object
  <2>2. /\ UNCHANGED <<object, labels>> /\ cli'[c] = r /\ Handles(c, r)
        /\ r.left = cli[c].left \ {o} /\ cli[c].phase[j] = "delete"
        /\ r.deleting = IF There(j, k) THEN cli[c].deleting \cup {o} ELSE cli[c].deleting
    BY <1>1, <1>2, <1>5, <2>1 DEF Reads, ReadObject, Deleting, cluster
  <2>3. Attends(c, i)
    BY <1>1, <2>1, <2>2 DEF Attends, Handles, Alike, There
  <2>. QED BY <1>2, <1>3, <2>2, <2>3, WaningKeepsInstance
<1>6. ASSUME NEW o \in cli[c].starting, NEW r, Watches(c, o, r) PROVE InstanceOK(i)'
  <2>1. /\ UNCHANGED <<object, labels>> /\ cli'[c] = r /\ Handles(c, r)
        /\ r.left = cli[c].left /\ r.deleting = cli[c].deleting
    BY <1>2, <1>6 DEF Watches, waitForDeletion, cluster
  <2>2. Attends(c, i)
    BY <2>1 DEF Attends, Handles, Alike
  <2>. QED BY <1>2, <1>3, <2>1, <2>2, WaningKeepsInstance
<1>. QED BY <1>4, <1>5, <1>6

\* The workload is deleted by a command that covers the instance.
LEMMA DeletesKeepsInstance ==
  ASSUME KubeBasis, NEW i \in 1 .. created, InstanceOK(i), NEW c \in Cli,
         NEW o \in cli[c].deleting, Deletes(c, o)
  PROVE  InstanceOK(i)'
<1>1. i \in Instance /\ PhaseOK(c) /\ KubeTypes /\ cli[c].deleting \subseteq Object
  <2>1. i \in Instance
    BY CreatedFacts
  <2>2. PhaseOK(c) /\ KubeTypes
    BY DEF KubeBasis
  <2>3. cli[c] \in KubeCommand
    BY <2>2 DEF KubeTypes
  <2>. QED BY <2>1, <2>2, <2>3 DEF KubeCommand
<1>2. PICK j \in Instance, k \in Kind : o = <<j, k>>
  <2>1. o \in Object
    BY <1>1
  <2>. QED BY <2>1 DEF Object
<1>3. /\ There(j, k) /\ labels' = labels /\ cli[c].phase[j] = "delete"
      /\ object' = [object EXCEPT ![j][k] = IF Ends(o) THEN "ending" ELSE "gone"]
      /\ \A d \in Cli :
           /\ Notices(d)
           /\ cli'[d].deleting = IF d = c THEN cli[d].deleting \ {o} ELSE cli[d].deleting
  BY <1>1, <1>2 DEF Deletes, PhaseOK
<1>4. \A l \in Kind : object'[i][l] = IF i = j /\ l = k THEN IF Ends(o) THEN "ending" ELSE "gone"
                                                         ELSE object[i][l]
  BY <1>1, <1>3 DEF KubeTypes
<1>5. i = j => ~Incomplete(i)
  BY <1>3 DEF InstanceOK
<1>6. i = j /\ k = "StatefulSet" => Covers(c, i)
  BY <1>3 DEF InstanceOK
<1>7. Wanes(i)
  BY <1>3, <1>4, <1>5, <1>6, KindFacts DEF Wanes, There, Docker
<1>8. ASSUME NEW d \in Cli PROVE Attends(d, i)
  <2>1. ASSUME NEW l \in Kind, object'[i][l] \in {"live", "marked"} PROVE <<i, l>> # o
    BY <1>2, <1>4, <2>1
  <2>. QED BY <1>3, <2>1 DEF Attends, Notices, Alike
<1>. QED BY <1>3, <1>7, <1>8, WaningKeepsInstance

LEMMA AppliesKeepsInstance ==
  ASSUME KubeBasis, NEW i \in 1 .. created, InstanceOK(i), NEW c \in Cli, NEW r, AppliesNext(c, r)
  PROVE  InstanceOK(i)'
<1>. DEFINE x == cli[c]
            n == x.applied + 1
            k == x.template[n]
<1>1. /\ i \in Instance /\ KubeTypes /\ cli[c] \in KubeCommand /\ CommandOK(c)
  BY CreatedFacts DEF KubeBasis, KubeTypes
<1>2. /\ cli' = [cli EXCEPT ![c] = r] /\ cli'[c] = r /\ Alike(r, x) /\ SameSets(r, x)
      /\ x.at = "apply" /\ r.at = "apply" /\ r.instance = x.instance
      /\ n <= Len(x.template) /\ r.applied = n
      /\ object' = [object EXCEPT ![x.instance][k] = "live"] /\ labels' = labels
  BY <1>1 DEF AppliesNext, Becomes, KubeTypes
<1>3. \A d \in Cli : d # c => cli'[d] = cli[d]
  BY <1>1, <1>2 DEF KubeTypes
<1>4. Whole(i)' = Whole(i)
  BY <1>2 DEF Whole
<1>5. CASE x.instance # i
  <2>1. object'[i] = object[i]
    BY <1>1, <1>2, <1>5 DEF KubeTypes
  <2>2. Wanes(i)
    BY <2>1 DEF Wanes, There, Docker
  <2>3. ~Applies(c, i) /\ ~Applies(c, i)'
    BY <1>2, <1>5 DEF Applies
  <2>4. \A d \in Cli : Covers(d, i)' = Covers(d, i)
    BY <1>2, <1>3, <1>4, <2>1 DEF Covers, SameSets, There
  <2>5. \A d \in Cli : Applies(d, i)' = Applies(d, i)
    BY <1>2, <1>3, <2>3 DEF Applies, At
  <2>6. ~Incomplete(i) => ~Incomplete(i)'
    BY <1>2, <1>3, <1>4, <1>5, <2>1 DEF Incomplete, At
  <2>7. \A d \in Cli : cli'[d].phase = cli[d].phase
    BY <1>2, <1>3 DEF SameSets
  <2>. QED BY <2>1, <2>4, <2>5, <2>6, <2>7 DEF InstanceOK, Docker, There
<1>6. CASE x.instance = i
  <2>1. Incomplete(i)
    <3>1. x.applied < Len(x.template)
      <4>1. x.applied \in Nat
        BY <1>1 DEF KubeCommand
      <4>2. x.template \in Template
        BY <1>1, <1>2 DEF CommandOK, At
      <4>3. Len(x.template) \in Nat
        BY <4>2, KubeAssumption
      <4>. QED BY <1>2, <4>1, <4>3
    <3>. QED BY <1>2, <1>6, <3>1 DEF Incomplete, At
  <2>2. \A l \in Kind : object[i][l] \in {"absent", "live"}
    BY <2>1 DEF InstanceOK
  <2>3. \A l \in Kind : object'[i][l] \in {object[i][l], "live"}
    BY <1>1, <1>2, <1>6 DEF KubeTypes
  <2>4. \A l \in Kind : object'[i][l] \in {"absent", "live"}
    BY <2>2, <2>3
  <2>5. \A d \in Cli : SameSets(cli'[d], cli[d])
    BY <1>2, <1>3 DEF SameSets
  <2>6. Applies(c, i)'
    BY <1>2, <1>6 DEF Applies, At
  <2>7. ASSUME NEW d \in Cli
        PROVE  /\ cli'[d].phase[i] \notin {"mark", "delete", "over"}
               /\ cli'[d].phase[i] \notin {"none", "types"} => Docker(i)' # "absent"
               /\ cli'[d].phase[i] \in {"list", "mark", "delete"} /\ There(i, "StatefulSet")' =>
                    Covers(d, i)'
    <3>1. cli'[d].phase[i] = cli[d].phase[i] /\ cli[d].phase[i] \notin {"mark", "delete", "over"}
      BY <2>1, <2>5 DEF SameSets, InstanceOK
    <3>2. Docker(i) # "absent" => Docker(i)' # "absent" /\ There(i, "StatefulSet")
      BY <2>2, <2>3, KindFacts DEF Docker, There
    <3>3. cli[d].phase[i] = "list" /\ Covers(d, i) => Covers(d, i)'
      BY <1>4, <2>5, <3>1 DEF Covers, SameSets
    <3>. QED BY <3>1, <3>2, <3>3 DEF InstanceOK
  <2>. QED BY <2>4, <2>6, <2>7, KindFacts DEF InstanceOK, Docker
<1>. QED BY <1>5, <1>6

LEMMA ClusterKeepsInstance ==
  ASSUME KubeBasis, NEW i \in 1 .. created, InstanceOK(i), NEW j \in Instance,
         StartPod(j) \/ ReadyFor(j) \/ PodFails(j) \/ GoneFor(j)
  PROVE  InstanceOK(i)'
<1>. DEFINE k == "PersistentVolumeClaim"
<1>1. KubeTypes /\ i \in Instance /\ k \in Kind /\ labels[i].template # None
  <2>1. i \in Instance /\ labels[i].template \in Template
    BY CreatedFacts
  <2>. QED BY <2>1, KindFacts, KubeAssumption DEF KubeBasis
<1>2. k \in Whole(i)
  BY <1>1 DEF Whole, addAllTypesAnnotation
<1>3. labels' = labels /\ \A d \in Cli : Notices(d) /\ cli'[d].deleting = cli[d].deleting
  BY DEF StartPod, ReadyFor, PodReady, PodFails, GoneFor, PodGone, Notices, Alike
<1>4. \A d \in Cli : Attends(d, i)
  BY <1>3 DEF Attends, Notices, Alike
<1>5. CASE ReadyFor(j) \/ PodFails(j)
  <2>1. object' = object
    BY <1>5 DEF ReadyFor, PodReady, PodFails
  <2>2. Wanes(i)
    BY <2>1 DEF Wanes, There, Docker
  <2>. QED BY <1>3, <1>4, <2>2, WaningKeepsInstance
<1>6. CASE GoneFor(j)
  <2>1. \A l \in Kind :
          \/ object'[i][l] = object[i][l]
          \/ object[i][l] = "ending" /\ object'[i][l] = "gone" /\ l = k
    BY <1>1, <1>6 DEF GoneFor, PodGone, KubeTypes
  <2>2. Wanes(i)
    BY <2>1, KindFacts DEF Wanes, There, Docker
  <2>. QED BY <1>3, <1>4, <2>2, WaningKeepsInstance
<1>7. CASE StartPod(j) /\ ~(i = j /\ object[i][k] = "absent")
  <2>1. \A l \in Kind : object'[i][l] = object[i][l]
    BY <1>1, <1>7 DEF StartPod, KubeTypes
  <2>2. Wanes(i)
    BY <2>1, KindFacts DEF Wanes, There, Docker
  <2>. QED BY <1>3, <1>4, <2>2, WaningKeepsInstance
<1>8. CASE StartPod(j) /\ i = j /\ object[i][k] = "absent"
  <2>1. Incomplete(i)
    BY <1>2, <1>8 DEF Incomplete
  <2>2. \A l \in Kind : object[i][l] \in {"absent", "live"}
    BY <2>1 DEF InstanceOK
  <2>3. cli' = cli /\ \A l \in Kind : object'[i][l] = IF l = k THEN "live" ELSE object[i][l]
    BY <1>1, <1>8 DEF StartPod, KubeTypes
  <2>4. \A l \in Kind : object'[i][l] \in {"absent", "live"}
    BY <2>2, <2>3
  <2>5. Docker(i)' = Docker(i)
    BY <2>3, KindFacts DEF Docker
  <2>6. Whole(i)' = Whole(i)
    BY <1>3 DEF Whole
  <2>7. \A d \in Cli : Applies(d, i)' = Applies(d, i)
    BY <2>3 DEF Applies, At
  <2>8. ASSUME NEW d \in Cli
        PROVE  /\ cli'[d].phase[i] \notin {"mark", "delete", "over"}
               /\ cli'[d].phase[i] \notin {"none", "types"} => Docker(i)' # "absent"
               /\ cli'[d].phase[i] \in {"list", "mark", "delete"} /\ There(i, "StatefulSet")' =>
                    Covers(d, i)'
    <3>1. cli[d].phase[i] \notin {"mark", "delete", "over"}
      BY <2>1 DEF InstanceOK
    <3>2. There(i, "StatefulSet")' => There(i, "StatefulSet")
      BY <2>5 DEF Docker, There
    <3>3. cli[d].phase[i] = "list" /\ Covers(d, i) => Covers(d, i)'
      BY <2>3, <2>6 DEF Covers
    <3>. QED BY <2>3, <2>5, <3>1, <3>2, <3>3 DEF InstanceOK
  <2>. QED BY <2>4, <2>5, <2>7, <2>8, KindFacts DEF InstanceOK, Docker
<1>. QED BY <1>5, <1>6, <1>7, <1>8

LEMMA InitHistory == Init => HistoryOK
<1>1. Init => 1 .. created = {}
  BY DEF Init
<1>. QED BY <1>1 DEF HistoryOK

LEMMA StepKeepsHistory ==
  ASSUME KubeBasis, HistoryOK, KubeStep
  PROVE  HistoryOK'
<1>1. ASSUME NEW c \in Cli, NEW r, Creates(c, r) PROVE HistoryOK'
  <2>1. hurt' = hurt
    BY <1>1 DEF Creates
  <2>2. ASSUME NEW i \in 1 .. created', i \notin hurt' PROVE InstanceOK(i)'
    <3>1. created \in Nat /\ i \in Nat /\ (i <= created => i \in 1 .. created)
      <4>1. created \in Nat
        BY InstanceFacts DEF KubeBasis, KubeTypes
      <4>2. created' \in Nat
        BY <1>1, <4>1 DEF Creates
      <4>. QED BY <2>2, <4>1, <4>2
    <3>2. i <= created => InstanceOK(i)
      BY <2>1, <2>2, <3>1 DEF HistoryOK
    <3>. QED BY <1>1, <3>2, CreatesKeepsInstance
  <2>. QED BY <2>2 DEF HistoryOK
<1>2. ASSUME ~\E c \in Cli : \E r : Creates(c, r) PROVE HistoryOK'
  <2>1. created' = created /\ hurt \subseteq hurt'
    <3>1. ASSUME NEW c \in Cli, Deletion(c) PROVE created' = created /\ hurt \subseteq hurt'
      BY <3>1 DEF Deletion, Typed, FindTypes, Listed, listInstanceObjects, Marked, AllMarked, Over,
           Deleted, Marks, MarkObject, Reads, ReadObject, Watches, waitForDeletion, Deletes, cluster
    <3>2. ASSUME NEW i \in Instance, StartPod(i) \/ ReadyFor(i) \/ PodFails(i) \/ GoneFor(i)
          PROVE  created' = created /\ hurt \subseteq hurt'
      BY <3>2 DEF StartPod, ReadyFor, PodReady, PodFails, GoneFor, PodGone
    <3>3. ASSUME NEW c \in Cli, (\E j : Start(c, j)) \/ Stops(c)
          PROVE  created' = created /\ hurt \subseteq hurt'
      BY <3>3 DEF Start, Stops, Stop, cluster
    <3>4. ASSUME NEW c \in Cli, \E r : Moves(c, r) \/ AppliesNext(c, r) \/ \E S : Aims(c, r, S)
          PROVE  created' = created /\ hurt \subseteq hurt'
      BY <3>4 DEF Moves, AppliesNext, Aims, Same, cluster
    <3>. QED BY <1>2, <3>1, <3>2, <3>3, <3>4 DEF KubeStep
  <2>2. ASSUME NEW i \in 1 .. created, i \notin hurt' PROVE InstanceOK(i)'
    <3>1. InstanceOK(i)
      BY <2>1, <2>2 DEF HistoryOK
    <3>2. ASSUME NEW c \in Cli, Deletion(c) PROVE InstanceOK(i)'
      BY <2>2, <3>1, <3>2, TypedKeepsInstance, ListedKeepsInstance, MarkedKeepsInstance,
         HandlesKeepsInstance, DeletesKeepsInstance DEF Deletion
    <3>. QED BY <1>2, <2>2, <3>1, <3>2, StartKeepsInstance, StopKeepsInstance, MovesKeepsInstance,
                AimsKeepsInstance, AppliesKeepsInstance, ClusterKeepsInstance DEF KubeStep
  <2>. QED BY <2>1, <2>2 DEF HistoryOK
<1>. QED BY <1>1, <1>2

\* Each part of the invariant is about the present state only.
LEMMA StutterKeepsHistory ==
  ASSUME HistoryOK, UNCHANGED vars
  PROVE  HistoryOK'
<1>1. /\ object' = object /\ labels' = labels /\ cli' = cli /\ created' = created /\ hurt' = hurt
  BY DEF vars, cluster
<1>2. \A i : InstanceOK(i) => InstanceOK(i)'
  BY <1>1 DEF InstanceOK, Incomplete, Covers, Applies, At, Docker, There, Whole
<1>. QED BY <1>1, <1>2 DEF HistoryOK

LEMMA StutterKeepsBasis ==
  ASSUME KubeBasis, UNCHANGED vars
  PROVE  KubeBasis'
BY DEF vars, cluster, bounds, KubeBasis, KubeTypes, ClusterOK, CommandOK, PhaseOK, Apart,
       Whole, At, addEnvMetadata

\* An instance without its workload has nothing else that nobody deletes.
LEMMA HistoryExplains ==
  ASSUME KubeBasis, HistoryOK
  PROVE  OrphansExplained
<1>. SUFFICES ASSUME NEW i \in 1 .. MaxInstances, NEW k \in Kind,
                     object[i][k] \in {"live", "marked"},
                     ~There(i, Workload(i)), \A c \in Cli : i \notin Busy(c), i \notin hurt
              PROVE  FALSE
  BY DEF OrphansExplained
<1>1. KubeTypes /\ ClusterOK
  BY DEF KubeBasis
<1>2. i \in Instance /\ i # 0 /\ i \in Nat /\ created \in Nat /\ i > 0
  BY <1>1, KubeAssumption DEF Instance, KubeTypes
<1>3. labels[i] # None
  BY <1>1, <1>2 DEF ClusterOK
<1>4. i \in 1 .. created
  BY <1>1, <1>2, <1>3 DEF ClusterOK
<1>5. InstanceOK(i)
  BY <1>4 DEF HistoryOK
<1>6. Docker(i) \in {"absent", "gone"}
  BY <1>1, <1>2, KindFacts DEF KubeTypes, Docker, There, Workload, Status
<1>7. \A c \in Cli : ~Applies(c, i)
  BY <1>2 DEF Applies, Busy, At
<1>8. \A c \in Cli : ~Covers(c, i)
  BY <1>2 DEF Covers, Busy, At, KubeBasis, PhaseOK
<1>. QED BY <1>5, <1>6, <1>7, <1>8 DEF InstanceOK

\* What is left of an environment without its workload, so that no command finds
\* it again, is what a command that failed left, or what was not there yet when it
\* was deleted: a command that ends well leaves no objects behind.
THEOREM OrphansCorrect == Spec => []OrphansExplained
<1>1. Init => KubeBasis /\ HistoryOK
  BY InitBasis, InitHistory
<1>2. KubeBasis /\ HistoryOK /\ [Next]_vars => (KubeBasis /\ HistoryOK)'
  BY NextDoes, StepKeepsBasis, StepKeepsHistory, StutterKeepsBasis, StutterKeepsHistory
<1>3. KubeBasis /\ HistoryOK => OrphansExplained
  BY HistoryExplains
<1>. QED BY <1>1, <1>2, <1>3, PTL DEF Spec

-----------------------------------------------------------------------------
(* One instance of an environment *)

\* A command that no other one interferes with
AloneOK(c) ==
  LET r == cli[c] e == cli[c].env IN
  r.job = "up" /\ e \notin overlapped =>
    /\ r.at = "create" => \A i \in Instance : ~Lives(i, e)
    /\ r.at = "delete" => \A i \in Instance : Lives(i, e) => r.phase[i] # "none"
    /\ r.at = "apply" => /\ \A i \in Instance : Lives(i, e) => i = r.instance
                         /\ Docker(r.instance) \in {"absent", "live"}
    /\ r.at \in {"watch", "await"} \cup Connecting => Docker(r.instance) = "live"

MarkingOK(c) ==
  LET r == cli[c] IN
  \A i \in Instance : labels[i] # None /\ labels[i].env \notin overlapped =>
    /\ r.phase[i] \in {"list", "mark"} /\ object[i][Workload(i)] = "live" =>
         <<i, Workload(i)>> \in r.left
    /\ r.phase[i] \in {"delete", "over"} => object[i][Workload(i)] # "live"

OneOK == OneInstancePerEnv /\ \A c \in Cli : AloneOK(c) /\ MarkingOK(c)

\* What a step of others leaves to a command whose environments no other command
\* works on.
Unmoved(d) ==
  LET r == cli'[d] x == cli[d] IN
  /\ r.at = x.at /\ r.job = x.job /\ r.env = x.env /\ r.instance = x.instance
  /\ r.phase = x.phase /\ r.left = x.left
  /\ \A i \in Instance :
       object'[i][Workload(i)] = "live" /\ labels'[i] # None
         /\ labels'[i].env \in Touches(x) \ overlapped =>
           object[i][Workload(i)] = "live" /\ labels[i] = labels'[i]
  /\ x.job = "up" /\ x.at \in Creating \cup Connecting /\ x.env \notin overlapped =>
       Docker(x.instance)' = Docker(x.instance)

LEMMA UnmovedKeepsOne ==
  ASSUME KubeBasis, NEW d \in Cli, AloneOK(d), MarkingOK(d), Unmoved(d), Steady,
         overlapped \subseteq overlapped'
  PROVE  AloneOK(d)' /\ MarkingOK(d)'
<1>. DEFINE x == cli[d]
            e == cli[d].env
<1>1. x.job = "up" => Touches(x) = {e}
  BY DEF Touches
<1>2. AloneOK(d)'
  <2>. SUFFICES ASSUME x.job = "up", e \notin overlapped', e \notin overlapped
                PROVE  AloneOK(d)'
    BY DEF AloneOK, Unmoved
  <2>1. \A i \in Instance : Lives(i, e)' => Lives(i, e)
    BY <1>1 DEF Lives, Unmoved
  <2>2. x.at \in Creating \cup Connecting => Docker(x.instance)' = Docker(x.instance)
    BY DEF Unmoved
  <2>3. /\ cli'[d].at = x.at /\ cli'[d].env = e /\ cli'[d].instance = x.instance
        /\ cli'[d].phase = x.phase
    BY DEF Unmoved
  <2>4. x.at = "create" => \A i \in Instance : ~Lives(i, e)'
    BY <2>1 DEF AloneOK
  <2>5. x.at = "delete" => \A i \in Instance : Lives(i, e)' => x.phase[i] # "none"
    BY <2>1 DEF AloneOK
  <2>6. x.at = "apply" => /\ \A i \in Instance : Lives(i, e)' => i = x.instance
                          /\ Docker(x.instance)' \in {"absent", "live"}
    BY <2>1, <2>2 DEF AloneOK, Creating
  <2>7. x.at \in {"watch", "await"} \cup Connecting => Docker(x.instance)' = "live"
    BY <2>2 DEF AloneOK, Creating
  <2>. QED BY <2>3, <2>4, <2>5, <2>6, <2>7 DEF AloneOK, Lives, Docker
<1>3. MarkingOK(d)'
  <2>. SUFFICES ASSUME NEW i \in Instance, labels'[i] # None, labels'[i].env \notin overlapped',
                       cli'[d].phase[i] # "none", object'[i][Workload(i)] = "live"
                PROVE  /\ cli'[d].phase[i] \in {"list", "mark"} =>
                            <<i, Workload(i)>> \in cli'[d].left
                       /\ cli'[d].phase[i] \notin {"delete", "over"}
    BY DEF MarkingOK, Workload
  <2>1. labels[i] # None /\ labels[i].env \in Touches(x) /\ labels'[i] = labels[i]
    BY DEF KubeBasis, PhaseOK, Unmoved, Steady
  <2>2. object[i][Workload(i)] = "live"
    BY <2>1 DEF Unmoved
  <2>. QED BY <2>1, <2>2 DEF MarkingOK, Unmoved
<1>. QED BY <1>2, <1>3

\* Nothing has come to life.
Fades ==
  \A i \in Instance : object'[i][Workload(i)] = "live" =>
    object[i][Workload(i)] = "live" /\ labels'[i] = labels[i]

Rests(d) ==
  LET r == cli'[d] x == cli[d] IN
  /\ r.at = x.at /\ r.job = x.job /\ r.env = x.env /\ r.instance = x.instance
  /\ r.phase = x.phase /\ r.left = x.left
  /\ x.job = "up" /\ x.at \in Creating \cup Connecting /\ x.env \notin overlapped =>
       Docker(x.instance)' = Docker(x.instance)

LEMMA FadingKeepsOne ==
  ASSUME KubeBasis, OneOK, Fades, Steady, overlapped \subseteq overlapped',
         \A d \in Cli : Rests(d) \/ (AloneOK(d)' /\ MarkingOK(d)')
  PROVE  OneOK'
<1>1. OneInstancePerEnv'
  BY DEF OneOK, OneInstancePerEnv, Fades, Workload
<1>2. ASSUME NEW d \in Cli, Rests(d) PROVE AloneOK(d)' /\ MarkingOK(d)'
  <2>1. Unmoved(d)
    BY <1>2 DEF Unmoved, Rests, Fades
  <2>. QED BY <2>1, UnmovedKeepsOne DEF OneOK
<1>. QED BY <1>1, <1>2 DEF OneOK

\* A command does not delete what another one, that no one interferes with, creates.
LEMMA Spared ==
  ASSUME KubeBasis, NEW c \in Cli, NEW i \in Instance, cli[c].phase[i] \notin {"none", "over"},
         NEW d \in Cli, cli[d].job = "up", cli[d].at \in Creating \cup Connecting,
         cli[d].env \notin overlapped
  PROVE  cli[d].instance # i
<1>1. PhaseOK(c) /\ Apart
  BY DEF KubeBasis
<1>2. cli[c].at = "delete" /\ labels[i].env \in Touches(cli[c])
  BY <1>1 DEF PhaseOK
<1>3. c # d /\ cli[d].at # "idle"
  BY <1>2 DEF Creating, Connecting
<1>4. ASSUME cli[d].instance = i PROVE FALSE
  <2>1. labels[i].env = cli[d].env
    BY <1>4, LabelledFacts
  <2>2. cli[d].env \in Touches(cli[c]) \cap Touches(cli[d])
    BY <1>2, <2>1 DEF Touches
  <2>. QED BY <1>1, <1>2, <1>3, <2>2 DEF Apart, At
<1>. QED BY <1>4

LEMMA InitOne == Init => OneOK
<1>. SUFFICES ASSUME Init PROVE OneOK
  OBVIOUS
<1>1. PICK old \in Env \cup {None} :
       labels = [i \in Instance |-> IF i = 0 /\ old # None THEN [env |-> old, template |-> None]
                                ELSE None]
  BY DEF Init
<1>2. OneInstancePerEnv
  BY <1>1 DEF OneInstancePerEnv
<1>3. \A c \in Cli : AloneOK(c) /\ MarkingOK(c)
  BY DEF Init, Idle, AloneOK, MarkingOK, Creating, Connecting
<1>. QED BY <1>2, <1>3 DEF OneOK

\* Where the objects stay nothing comes to life.
LEMMA SameObjects ==
  ASSUME KubeBasis, object' = object, Steady, NEW c \in Cli, \A d \in Cli \ {c} : cli'[d] = cli[d]
  PROVE  Fades /\ \A d \in Cli \ {c} : Rests(d)
<1>1. Fades
  BY KindFacts DEF KubeBasis, ClusterOK, Fades, Steady
<1>2. \A d \in Cli \ {c} : Rests(d)
  BY DEF Rests, Docker
<1>. QED BY <1>1, <1>2

LEMMA OwnKeepsOne ==
  ASSUME KubeBasis, OneOK, object' = object, Steady, overlapped \subseteq overlapped',
         NEW c \in Cli, \A d \in Cli \ {c} : cli'[d] = cli[d], AloneOK(c)', MarkingOK(c)'
  PROVE  OneOK'
<1>1. Fades /\ \A d \in Cli \ {c} : Rests(d)
  BY SameObjects
<1>2. ASSUME NEW d \in Cli PROVE Rests(d) \/ (AloneOK(d)' /\ MarkingOK(d)')
  <2>1. CASE d = c
    <3>1. AloneOK(d)' /\ MarkingOK(d)'
      BY <2>1 DEF AloneOK, MarkingOK, At
    <3>. QED BY <3>1
  <2>2. CASE d # c
    BY <1>1, <2>2
  <2>. QED BY <2>1, <2>2
<1>. QED BY <1>1, <1>2, FadingKeepsOne

LEMMA StartStopKeepsOne ==
  ASSUME KubeBasis, OneOK, NEW c \in Cli, (\E j : Fresh(j) /\ Start(c, j)) \/ Stops(c)
  PROVE  OneOK'
<1>1. /\ UNCHANGED <<object, labels>> /\ overlapped \subseteq overlapped'
      /\ \A d \in Cli \ {c} : cli'[d] = cli[d]
      /\ cli'[c].at \in {"idle", "find"} /\ \A i \in Instance : cli'[c].phase[i] = "none"
  <2>1. CASE Stops(c)
    BY <2>1 DEF Stops, Stop, cluster, KubeBasis, KubeTypes, Idle
  <2>2. CASE \E j : Fresh(j) /\ Start(c, j)
    BY <2>2 DEF Start, cluster, KubeBasis, KubeTypes, Fresh
  <2>. QED BY <2>1, <2>2
<1>2. Steady
  BY <1>1 DEF Steady
<1>3. AloneOK(c)' /\ MarkingOK(c)'
  BY <1>1 DEF AloneOK, MarkingOK, Connecting
<1>. QED BY <1>1, <1>2, <1>3, OwnKeepsOne

\* up goes on to create when there is nothing, or nothing any more, that lives.
LEMMA MovesKeepsOne ==
  ASSUME KubeBasis, OneOK, NEW c \in Cli, NEW r, Moves(c, r)
  PROVE  OneOK'
<1>. DEFINE x == cli[c]
            e == cli[c].env
<1>1. /\ KubeTypes /\ CommandOK(c) /\ PhaseOK(c) /\ AloneOK(c) /\ MarkingOK(c)
  BY DEF KubeBasis, OneOK
<1>2. /\ UNCHANGED <<object, labels, overlapped>> /\ cli'[c] = r /\ Alike(r, x) /\ SameSets(r, x)
      /\ \A d \in Cli \ {c} : cli'[d] = cli[d]
  BY <1>1 DEF Moves, Becomes, KubeTypes, Same, cluster, bounds
<1>3. Steady
  BY <1>2 DEF Steady
<1>4. MarkingOK(c)'
  BY <1>1, <1>2 DEF MarkingOK, SameSets
<1>5. ASSUME x.job = "up", e \notin overlapped
      PROVE  /\ r.at = "create" => \A i \in Instance : ~Lives(i, e)
             /\ r.at \in {"watch", "await"} \cup Connecting => Docker(r.instance) = "live"
             /\ r.at \notin {"delete", "apply"}
  <2>1. CASE x.at = "find" /\ r.at = "create" /\ findEnvObject(x.env) = None
    BY <2>1, FoundFacts DEF Connecting
  <2>2. CASE x.at = "find" /\ r.at = "connect" /\ r.instance = findEnvObject(x.env)
             /\ labels[r.instance].template = x.template
    <3>1. r.instance \in Instance \cup {None}
      BY <2>2, FoundInstance
    <3>2. x.template \in Template /\ r.at \notin {"create", "delete", "apply"}
      BY <1>1, <2>2 DEF CommandOK, At
    <3>3. r.instance # None
      BY <1>2, <2>2, InstanceFacts DEF Moves, Becomes, KubeCommand
    <3>4. Lives(r.instance, e)
      BY <2>2, <3>3, FoundFacts
    <3>5. r.instance # 0
      BY <2>2, <3>2, <3>4, KubeAssumption DEF KubeBasis, ClusterOK, Lives
    <3>. QED BY <3>2, <3>4, <3>5 DEF Lives, Workload, Docker
  <2>3. CASE x.at = "delete" /\ (\A i \in Instance : x.phase[i] \in {"none", "over"})
             /\ r.at = "create"
    <3>1. ASSUME NEW i \in Instance PROVE ~Lives(i, e)
      BY <1>1, <1>5, <2>3 DEF AloneOK, MarkingOK, Lives
    <3>. QED BY <2>3, <3>1 DEF Connecting
  <2>4. CASE /\ r.instance = x.instance
             /\ \/ /\ x.at = "apply" /\ r.at = "watch" /\ There(x.instance, "StatefulSet")
                \/ x.at = "watch" /\ r.at = "await"
                \/ x.at = "await" /\ r.at = "connect"
                \/ x.at \in Connecting /\ r.at \in Connecting
    <3>1. r.at \notin {"create", "delete", "apply"}
      BY <2>4 DEF Connecting
    <3>2. Docker(x.instance) = "live"
      BY <1>1, <1>5, <2>4 DEF AloneOK, There, Docker, Connecting
    <3>. QED BY <2>4, <3>1, <3>2
  <2>. QED BY <1>5, <2>1, <2>2, <2>3, <2>4 DEF Moves
<1>6. AloneOK(c)'
  BY <1>2, <1>5 DEF AloneOK, Alike, Lives, Docker
<1>. QED BY <1>2, <1>3, <1>4, <1>6, OwnKeepsOne

\* What up finds is all that lives of its environment.
LEMMA AimsKeepsOne ==
  ASSUME KubeBasis, OneOK, NEW c \in Cli, NEW r, NEW S, Aims(c, r, S)
  PROVE  OneOK'
<1>. DEFINE x == cli[c]
            e == cli[c].env
<1>1. /\ KubeTypes /\ CommandOK(c) /\ PhaseOK(c) /\ MarkingOK(c) /\ OneInstancePerEnv
  BY DEF KubeBasis, OneOK
<1>2. /\ UNCHANGED <<object, labels, overlapped>> /\ cli'[c] = r /\ Alike(r, x)
      /\ x.at = "find" /\ r.at = "delete" /\ r.phase = Targets(S)
      /\ \A d \in Cli \ {c} : cli'[d] = cli[d]
  BY <1>1 DEF Aims, Becomes, KubeTypes, Same, cluster, bounds
<1>3. Steady
  BY <1>2 DEF Steady
<1>4. MarkingOK(c)'
  BY <1>2 DEF MarkingOK, Targets
<1>5. ASSUME x.job = "up", e \notin overlapped, NEW i \in Instance, Lives(i, e)
      PROVE  r.phase[i] # "none"
  <2>1. S = {findEnvObject(e)} /\ findEnvObject(e) # None
    BY <1>5 DEF Aims
  <2>2. findEnvObject(e) \in Instance /\ Lives(findEnvObject(e), e)
    BY <2>1, FoundFacts
  <2>3. e \in Env
    BY <1>1, <1>2, <1>5 DEF CommandOK, At, Touches
  <2>4. i = findEnvObject(e)
    BY <1>1, <1>5, <2>2, <2>3 DEF OneInstancePerEnv, Lives
  <2>. QED BY <1>2, <2>1, <2>4 DEF Targets
<1>6. AloneOK(c)'
  BY <1>2, <1>5 DEF AloneOK, Alike, Lives, Connecting
<1>. QED BY <1>2, <1>3, <1>4, <1>6, OwnKeepsOne

LEMMA CreatesKeepsOne ==
  ASSUME KubeBasis, OneOK, NEW c \in Cli, NEW r, Creates(c, r)
  PROVE  OneOK'
<1>. DEFINE x == cli[c]
            e == cli[c].env
            n == created + 1
<1>1. /\ KubeTypes /\ ClusterOK /\ PhaseOK(c) /\ AloneOK(c) /\ MarkingOK(c)
  BY DEF KubeBasis, OneOK
<1>2. /\ UNCHANGED <<object, overlapped>> /\ labels' = [labels EXCEPT ![n] = addEnvMetadata(c)]
      /\ cli'[c] = r /\ Alike(r, x) /\ SameSets(r, x)
      /\ x.at = "create" /\ r.at = "apply" /\ r.instance = n
      /\ \A d \in Cli \ {c} : cli'[d] = cli[d]
  BY <1>1 DEF Creates, Becomes, KubeTypes, bounds
<1>3. n \in Instance /\ n > created
  BY <1>1, InstanceFacts DEF KubeTypes, Creates
<1>4. labels[n] = None /\ \A k \in Kind : object[n][k] = "absent"
  BY <1>1, <1>3 DEF ClusterOK
<1>5. Steady
  BY <1>1, <1>2, <1>3, <1>4 DEF Steady, KubeTypes
<1>6. MarkingOK(c)'
  BY <1>1, <1>2, <1>4, <1>5 DEF MarkingOK, SameSets, PhaseOK, Steady
<1>7. ASSUME NEW i \in Instance, Lives(i, e)', x.job = "up", e \notin overlapped PROVE FALSE
  <2>1. i # n
    BY <1>2, <1>4, <1>7, KindFacts DEF Lives, Workload
  <2>2. Lives(i, e)
    BY <1>1, <1>2, <1>7, <2>1 DEF Lives, Workload, Alike, KubeTypes
  <2>. QED BY <1>1, <1>2, <1>7, <2>2 DEF AloneOK
<1>8. object'[n]["StatefulSet"] = "absent"
  BY <1>2, <1>4, KindFacts
<1>9. AloneOK(c)'
  BY <1>2, <1>7, <1>8 DEF AloneOK, Alike, Lives, Docker, Connecting
<1>. QED BY <1>2, <1>5, <1>6, <1>9, OwnKeepsOne

LEMMA TurnsKeepsOne ==
  ASSUME KubeBasis, OneOK, NEW c \in Cli, NEW i \in Instance, NEW p, NEW q, NEW r,
         Turns(c, i, p, q, r), q # "none", MarkingOK(c)'
  PROVE  OneOK'
<1>. DEFINE x == cli[c]
<1>1. KubeTypes /\ x \in KubeCommand /\ AloneOK(c)
  BY DEF KubeBasis, KubeTypes, OneOK
<1>2. /\ UNCHANGED <<object, labels, overlapped>> /\ cli'[c] = r /\ Alike(r, x)
      /\ x.at = "delete" /\ r.at = "delete"
      /\ \A d \in Cli \ {c} : cli'[d] = cli[d]
      /\ \A j \in Instance : x.phase[j] # "none" => r.phase[j] # "none"
  BY <1>1 DEF Turns, Becomes, KubeTypes, KubeCommand, cluster, bounds
<1>3. AloneOK(c)'
  BY <1>1, <1>2 DEF AloneOK, Alike, Lives, Connecting
<1>4. Steady
  BY <1>2 DEF Steady
<1>. QED BY <1>2, <1>3, <1>4, OwnKeepsOne

\* The workload is of the types, is listed and is marked.
LEMMA DeletionTurnsKeepOne ==
  ASSUME KubeBasis, OneOK, NEW c \in Cli, NEW i \in Instance, NEW r,
         Typed(c, i, r) \/ Listed(c, i, r) \/ Marked(c, i, r) \/ Over(c, i, r)
  PROVE  OneOK'
<1>. DEFINE x == cli[c]
<1>1. KubeTypes /\ ClusterOK /\ x \in KubeCommand /\ MarkingOK(c) /\ \A j : Workload(j) \in Kind
  BY KindFacts DEF KubeBasis, KubeTypes, OneOK
<1>2. ASSUME NEW p, NEW q, Turns(c, i, p, q, r)
      PROVE  /\ UNCHANGED <<object, labels, overlapped>> /\ cli'[c] = r
             /\ r.phase[i] = q /\ \A j \in Instance : j # i => r.phase[j] = x.phase[j]
  BY <1>1, <1>2 DEF Turns, Becomes, KubeTypes, KubeCommand, cluster, bounds
<1>3. CASE Typed(c, i, r)
  <2>1. Turns(c, i, "types", "list", r) /\ r.left = x.left \cup ({i} \X findInstanceAllTypes(c, i))
    BY <1>3 DEF Typed
  <2>2. object[i][Workload(i)] = "live" => <<i, Workload(i)>> \in r.left
    <3>1. CASE i = 0
      BY <2>1, <3>1 DEF findInstanceAllTypes, Workload
    <3>2. CASE i # 0 /\ object[i]["StatefulSet"] = "live"
      <4>1. i > 0 /\ There(i, "StatefulSet")
        BY <3>2, InstanceFacts DEF There, Instance
      <4>2. "StatefulSet" \in Whole(i)
        BY <1>1, <3>2, <4>1, KindFacts DEF ClusterOK
      <4>. QED BY <2>1, <3>2, <4>1, <4>2 DEF findInstanceAllTypes, readAllTypesAnnotation, Workload
    <3>. QED BY <3>1, <3>2 DEF Workload
  <2>3. MarkingOK(c)'
    BY <1>1, <1>2, <2>1, <2>2 DEF MarkingOK, Workload
  <2>. QED BY <2>1, <2>3, TurnsKeepsOne
<1>4. CASE Listed(c, i, r)
  <2>1. Turns(c, i, "list", "mark", r)
    BY <1>4 DEF Listed
  <2>2. \A j \in Instance : object[j][Workload(j)] = "live" /\ <<j, Workload(j)>> \in x.left =>
          <<j, Workload(j)>> \in r.left
    BY <1>4 DEF Listed, dynamicList, Of, There
  <2>3. x.phase[i] = "list"
    BY <2>1 DEF Turns
  <2>4. MarkingOK(c)'
    BY <1>1, <1>2, <2>1, <2>2, <2>3 DEF MarkingOK, Workload
  <2>. QED BY <2>1, <2>4, TurnsKeepsOne
<1>5. CASE Marked(c, i, r)
  <2>1. Turns(c, i, "mark", "delete", r) /\ x.left \subseteq r.left /\ Of(i, x.left) = {}
    BY <1>5 DEF Marked, AllMarked
  <2>2. x.phase[i] = "mark" /\ <<i, Workload(i)>> \notin x.left
    BY <2>1 DEF Turns, Of
  <2>3. MarkingOK(c)'
    BY <1>1, <1>2, <2>1, <2>2 DEF MarkingOK, Workload
  <2>. QED BY <2>1, <2>3, TurnsKeepsOne
<1>6. CASE Over(c, i, r)
  <2>1. Turns(c, i, "delete", "over", r) /\ r.left = x.left /\ x.phase[i] = "delete"
    BY <1>6 DEF Over, Turns
  <2>3. MarkingOK(c)'
    BY <1>1, <1>2, <2>1 DEF MarkingOK, Workload
  <2>. QED BY <2>1, <2>3, TurnsKeepsOne
<1>. QED BY <1>3, <1>4, <1>5, <1>6

\* What is not live any more is of an instance that its command deletes.
LEMMA HandlesKeepsOne ==
  ASSUME KubeBasis, OneOK, NEW c \in Cli,
         \/ \E o \in cli[c].left : \E r : Marks(c, o, r) \/ Reads(c, o, r)
         \/ \E o \in cli[c].starting : \E r : Watches(c, o, r)
  PROVE  OneOK'
<1>. DEFINE x == cli[c]
<1>1. /\ KubeTypes /\ x \in KubeCommand /\ PhaseOK(c) /\ AloneOK(c) /\ MarkingOK(c)
      /\ \A j : Workload(j) \in Kind
  BY KindFacts DEF KubeBasis, KubeTypes, OneOK
<1>2. x.left \subseteq Object /\ x.starting \subseteq Object
  BY <1>1 DEF KubeCommand
<1>3. ASSUME NEW r, Handles(c, r)
      PROVE  /\ cli'[c] = r /\ Alike(r, x) /\ r.at = x.at /\ r.instance = x.instance
             /\ r.phase = x.phase /\ \A d \in Cli \ {c} : cli'[d] = cli[d]
  BY <1>1, <1>3 DEF Handles, Becomes, KubeTypes
<1>4. ASSUME NEW r, Handles(c, r), r.left = x.left, UNCHANGED <<object, labels, overlapped>>
      PROVE  OneOK'
  <2>1. AloneOK(c)' /\ MarkingOK(c)' /\ Steady
    BY <1>1, <1>3, <1>4 DEF AloneOK, MarkingOK, Alike, Lives, Docker, Steady
  <2>. QED BY <1>3, <1>4, <2>1, OwnKeepsOne
<1>5. ASSUME NEW o \in x.starting, NEW r, Watches(c, o, r) PROVE OneOK'
  BY <1>4, <1>5 DEF Watches, waitForDeletion, cluster, bounds
<1>6. ASSUME NEW o \in x.left, NEW r, Reads(c, o, r) PROVE OneOK'
  <2>1. PICK j \in Instance, k \in Kind : o = <<j, k>>
    BY <1>2 DEF Object
  <2>2. /\ UNCHANGED <<object, labels, overlapped>> /\ Handles(c, r)
        /\ r.left = x.left \ {o} /\ x.phase[j] = "delete"
    BY <1>6, <2>1 DEF Reads, ReadObject, Deleting, cluster, bounds
  <2>3. AloneOK(c)' /\ Steady
    BY <1>1, <1>3, <2>2 DEF AloneOK, Alike, Lives, Docker, Steady
  <2>4. MarkingOK(c)'
    BY <1>1, <1>3, <2>1, <2>2 DEF MarkingOK, Workload
  <2>. QED BY <1>3, <2>2, <2>3, <2>4, OwnKeepsOne
<1>7. ASSUME NEW o \in x.left, NEW r, Marks(c, o, r) PROVE OneOK'
  <2>1. PICK j \in Instance, k \in Kind : o = <<j, k>>
    BY <1>2 DEF Object
  <2>2. /\ object' = [object EXCEPT ![j][k] = markObjectAsDeleted(object[j][k])]
        /\ UNCHANGED <<labels, overlapped>> /\ Handles(c, r)
        /\ r.left = x.left \ {o} /\ x.phase[j] = "mark"
    BY <1>7, <2>1 DEF Marks, MarkObject, Deleting, bounds
  <2>3. \A i \in Instance, l \in Kind :
          object'[i][l] = IF i = j /\ l = k THEN markObjectAsDeleted(object[i][l]) ELSE object[i][l]
    BY <1>1, <2>2 DEF KubeTypes
  <2>4. \A i \in Instance, l \in Kind :
          object'[i][l] = "live" => object[i][l] = "live" /\ <<i, l>> # o
    BY <2>1, <2>3 DEF markObjectAsDeleted
  <2>5. Fades /\ Steady
    BY <1>1, <2>2, <2>4 DEF Fades, Steady
  <2>6. x.at = "delete"
    BY <1>1, <2>2 DEF PhaseOK
  <2>7. AloneOK(c)'
    BY <1>1, <1>3, <2>2, <2>4, <2>6 DEF AloneOK, Alike, Lives, Connecting, Workload
  <2>8. MarkingOK(c)'
    BY <1>1, <1>3, <2>2, <2>4 DEF MarkingOK, Workload
  <2>9. ASSUME NEW d \in Cli \ {c} PROVE Rests(d)
    <3>1. ASSUME cli[d].job = "up", cli[d].at \in Creating \cup Connecting,
                 cli[d].env \notin overlapped
          PROVE  Docker(cli[d].instance)' = Docker(cli[d].instance)
      <4>1. cli[d].instance # j
        BY <2>2, <3>1, Spared
      <4>2. cli[d].instance \in Instance /\ cli'[d] = cli[d]
        BY <1>1, <1>3, <2>2 DEF KubeTypes, KubeCommand
      <4>. QED BY <2>3, <4>1, <4>2, KindFacts DEF Docker
    <3>. QED BY <1>3, <2>2, <3>1 DEF Rests
  <2>10. ASSUME NEW d \in Cli PROVE Rests(d) \/ (AloneOK(d)' /\ MarkingOK(d)')
    BY <2>7, <2>8, <2>9
  <2>. QED BY <2>2, <2>5, <2>10, FadingKeepsOne
<1>. QED BY <1>5, <1>6, <1>7

LEMMA DeletesKeepsOne ==
  ASSUME KubeBasis, OneOK, NEW c \in Cli, NEW o \in cli[c].deleting, Deletes(c, o)
  PROVE  OneOK'
<1>1. /\ KubeTypes /\ PhaseOK(c) /\ \A j : Workload(j) \in Kind
  BY KindFacts DEF KubeBasis
<1>2. cli[c] \in KubeCommand /\ o \in Object
  BY <1>1 DEF KubeTypes, KubeCommand
<1>3. PICK j \in Instance, k \in Kind : o = <<j, k>>
  BY <1>2 DEF Object
<1>4. /\ cli[c].phase[j] = "delete" /\ UNCHANGED <<labels, overlapped>>
      /\ object' = [object EXCEPT ![j][k] = IF Ends(o) THEN "ending" ELSE "gone"]
      /\ \A d \in Cli : Notices(d)
  BY <1>1, <1>3 DEF Deletes, PhaseOK, bounds
<1>5. \A i \in Instance, l \in Kind :
        object'[i][l] = IF i = j /\ l = k THEN IF Ends(o) THEN "ending" ELSE "gone"
                       ELSE object[i][l]
  BY <1>1, <1>4 DEF KubeTypes
<1>6. Fades /\ Steady
  BY <1>1, <1>4, <1>5 DEF Fades, Steady
<1>7. ASSUME NEW d \in Cli PROVE Rests(d)
  <2>1. ASSUME cli[d].job = "up", cli[d].at \in Creating \cup Connecting,
                 cli[d].env \notin overlapped
        PROVE  Docker(cli[d].instance)' = Docker(cli[d].instance)
    <3>1. cli[d].instance # j
      BY <1>4, <2>1, Spared
    <3>2. cli[d].instance \in Instance /\ cli'[d].instance = cli[d].instance
      BY <1>1, <1>4 DEF KubeTypes, KubeCommand, Notices
    <3>. QED BY <1>5, <3>1, <3>2, KindFacts DEF Docker
  <2>. QED BY <1>4, <2>1 DEF Rests, Notices, Alike
<1>. QED BY <1>4, <1>6, <1>7, FadingKeepsOne

LEMMA ClusterKeepsOne ==
  ASSUME KubeBasis, OneOK, NEW i \in Instance,
         StartPod(i) \/ ReadyFor(i) \/ PodFails(i) \/ GoneFor(i)
  PROVE  OneOK'
<1>1. /\ KubeTypes /\ \A j : Workload(j) \in Kind \ {"PersistentVolumeClaim"}
  BY KindFacts DEF KubeBasis, Workload
<1>2. UNCHANGED <<labels, overlapped>> /\ \A d \in Cli : Notices(d)
  BY DEF StartPod, ReadyFor, PodReady, PodFails, GoneFor, PodGone, Notices, Alike, bounds
<1>3. \A j \in Instance, l \in Kind \ {"PersistentVolumeClaim"} : object'[j][l] = object[j][l]
  <2>1. \/ object' = object
        \/ \E s : object' = [object EXCEPT ![i]["PersistentVolumeClaim"] = s]
    BY DEF StartPod, ReadyFor, PodReady, PodFails, GoneFor, PodGone
  <2>. QED BY <1>1, <2>1 DEF KubeTypes
<1>4. Fades /\ Steady
  BY <1>1, <1>2, <1>3 DEF Fades, Steady
<1>5. ASSUME NEW d \in Cli PROVE Rests(d)
  <2>1. cli[d].instance \in Instance /\ cli'[d].instance = cli[d].instance
    BY <1>1, <1>2 DEF KubeTypes, KubeCommand, Notices
  <2>2. Docker(cli[d].instance)' = Docker(cli[d].instance)
    BY <1>3, <2>1, KindFacts DEF Docker
  <2>. QED BY <1>2, <2>2 DEF Rests, Notices, Alike
<1>. QED BY <1>2, <1>4, <1>5, FadingKeepsOne

\* What a command applies is all that lives of its environment.
LEMMA AppliesKeepsOne ==
  ASSUME KubeBasis, OneOK, NEW c \in Cli, NEW r, AppliesNext(c, r)
  PROVE  OneOK'
<1>. DEFINE x == cli[c]
            k == x.template[x.applied + 1]
<1>1. /\ KubeTypes /\ ClusterOK /\ CommandOK(c) /\ PhaseOK(c) /\ AloneOK(c) /\ MarkingOK(c) /\ Apart
      /\ OneInstancePerEnv /\ x \in KubeCommand /\ \A j : Workload(j) \in Kind
  BY KindFacts DEF KubeBasis, KubeTypes, OneOK
<1>2. /\ cli'[c] = r /\ Alike(r, x) /\ SameSets(r, x) /\ x.at = "apply" /\ r.at = "apply"
      /\ r.instance = x.instance /\ object' = [object EXCEPT ![x.instance][k] = "live"]
      /\ UNCHANGED <<labels, overlapped>> /\ \A d \in Cli \ {c} : cli'[d] = cli[d]
  BY <1>1 DEF AppliesNext, Becomes, KubeTypes, bounds
<1>3. PICK n \in Instance, e \in Env : n = x.instance /\ e = x.env
  BY <1>1, <1>2 DEF KubeCommand, CommandOK, At, Creating, Touches
<1>4. x.job = "up" /\ Touches(x) = {e} /\ n # 0 /\ labels[n] # None /\ labels[n].env = e
  BY <1>1, <1>2, <1>3, LabelledFacts DEF CommandOK, At, Creating, Touches
<1>5. \A i \in Instance, l \in Kind :
        object'[i][l] = IF i = n /\ l = k THEN "live" ELSE object[i][l]
  BY <1>1, <1>2, <1>3 DEF KubeTypes
<1>6. \A i \in Instance : i # n => object'[i][Workload(i)] = object[i][Workload(i)]
  BY <1>1, <1>5
<1>7. Steady
  BY <1>2 DEF Steady
<1>8. ASSUME e \notin overlapped, NEW i \in Instance, labels[i] # None, labels[i].env = e,
             object'[i][Workload(i)] = "live"
      PROVE  i = n
  <2>1. i # n => Lives(i, e)
    BY <1>6, <1>8 DEF Lives
  <2>. QED BY <1>1, <1>2, <1>3, <1>4, <1>8, <2>1 DEF AloneOK
<1>9. OneInstancePerEnv'
  <2>. SUFFICES ASSUME NEW f \in Env \ overlapped, NEW i \in Instance, NEW j \in Instance,
                       labels[i] # None, labels[i].env = f, object'[i][Workload(i)] = "live",
                       labels[j] # None, labels[j].env = f, object'[j][Workload(j)] = "live"
                PROVE  i = j
    BY <1>2 DEF OneInstancePerEnv, Workload
  <2>1. CASE f = e
    BY <1>8, <2>1
  <2>2. CASE f # e
    <3>1. i # n /\ j # n
      BY <1>4, <2>2
    <3>. QED BY <1>1, <1>6, <3>1 DEF OneInstancePerEnv
  <2>. QED BY <2>1, <2>2
<1>10. AloneOK(c)'
  <2>1. e \notin overlapped => Docker(n) \in {"absent", "live"}
    BY <1>1, <1>2, <1>3, <1>4 DEF AloneOK
  <2>2. e \notin overlapped => object'[n]["StatefulSet"] \in {"absent", "live"}
    BY <1>5, <2>1, KindFacts DEF Docker
  <2>. QED BY <1>2, <1>3, <1>8, <2>2 DEF AloneOK, Alike, Lives, Docker, Workload, Connecting
<1>11. MarkingOK(c)'
  <2>1. x.phase[n] = "none"
    BY <1>1, <1>2, <1>3 DEF PhaseOK, Creating
  <2>. QED BY <1>1, <1>2, <1>6, <2>1 DEF MarkingOK, SameSets, Workload
<1>12. ASSUME NEW d \in Cli \ {c} PROVE AloneOK(d)' /\ MarkingOK(d)'
  <2>1. cli[d].at # "idle" => e \notin Touches(cli[d]) \ overlapped
    BY <1>1, <1>2, <1>4 DEF Apart, At
  <2>2. ASSUME cli[d].job = "up", cli[d].at \in Creating \cup Connecting,
                 cli[d].env \notin overlapped
        PROVE  Docker(cli[d].instance)' = Docker(cli[d].instance)
    <3>1. cli[d].at # "idle" /\ cli[d].env \in Touches(cli[d])
      BY <2>2 DEF Creating, Connecting, Touches
    <3>2. cli[d].env # e /\ labels[cli[d].instance].env = cli[d].env /\ cli[d].instance \in Instance
      BY <2>1, <2>2, <3>1, LabelledFacts
    <3>3. cli[d].instance # n /\ cli'[d] = cli[d]
      BY <1>2, <1>4, <3>2
    <3>. QED BY <1>5, <3>2, <3>3, KindFacts DEF Docker
  <2>3. CASE cli[d].at # "idle"
    <3>1. Unmoved(d)
      BY <1>2, <1>4, <1>6, <2>1, <2>2, <2>3 DEF Unmoved
    <3>. QED BY <1>2, <1>7, <3>1, UnmovedKeepsOne DEF OneOK
  <2>4. CASE cli[d].at = "idle"
    <3>1. \A i \in Instance : cli'[d].phase[i] = "none"
      BY <1>2, <2>4 DEF KubeBasis, PhaseOK
    <3>. QED BY <1>2, <2>4, <3>1 DEF AloneOK, MarkingOK, Connecting
  <2>. QED BY <2>3, <2>4
<1>13. ASSUME NEW d \in Cli PROVE AloneOK(d)' /\ MarkingOK(d)'
  BY <1>10, <1>11, <1>12
<1>. QED BY <1>9, <1>13 DEF OneOK

LEMMA StepKeepsOne ==
  ASSUME KubeBasis, OneOK, KubeStep
  PROVE  OneOK'
<1>1. ASSUME NEW c \in Cli, Deletion(c) PROVE OneOK'
  BY <1>1, DeletionTurnsKeepOne, HandlesKeepsOne, DeletesKeepsOne DEF Deletion
<1>. QED BY <1>1, StartStopKeepsOne, MovesKeepsOne, CreatesKeepsOne, AppliesKeepsOne, AimsKeepsOne,
            ClusterKeepsOne DEF KubeStep

LEMMA StutterKeepsOne ==
  ASSUME OneOK, UNCHANGED vars
  PROVE  OneOK'
BY DEF vars, cluster, bounds, OneOK, OneInstancePerEnv, AloneOK, MarkingOK, Lives, Docker, Workload

\* Commands that do not overlap leave an environment with one workload at most that is
\* not marked, whatever commands were killed before: up deletes what it finds, and it
\* finds all there is.
THEOREM OneInstanceCorrect == Spec => []OneInstancePerEnv
<1>1. Init => KubeBasis /\ OneOK
  BY InitBasis, InitOne
<1>2. KubeBasis /\ OneOK /\ [Next]_vars => (KubeBasis /\ OneOK)'
  BY NextDoes, StepKeepsBasis, StepKeepsOne, StutterKeepsBasis, StutterKeepsOne
<1>3. OneOK => OneInstancePerEnv
  BY DEF OneOK
<1>. QED BY <1>1, <1>2, <1>3, PTL DEF Spec

\* An up that no other command interferes with ends with a StatefulSet of its own
\* environment and template, on which no deletion has begun.
THEOREM KubeReadyCorrect == Spec => []ReadyAsAsked
<1>1. Init => KubeBasis /\ OneOK
  BY InitBasis, InitOne
<1>2. KubeBasis /\ OneOK /\ [Next]_vars => (KubeBasis /\ OneOK)'
  BY NextDoes, StepKeepsBasis, StepKeepsOne, StutterKeepsBasis, StutterKeepsOne
<1>3. KubeBasis /\ OneOK => ReadyAsAsked
  BY DEF KubeBasis, OneOK, ReadyAsAsked, CommandOK, AloneOK, At, Connecting, addEnvMetadata, Docker
<1>. QED BY <1>1, <1>2, <1>3, PTL DEF Spec

-----------------------------------------------------------------------------
(* What commands wait for *)

\* What a deletion has come to: until it deletes an instance it finds the types of
\* everything, and what it waits for is all that is there.
Awaits(c, i) ==
  LET r == cli[c] IN
  /\ r.phase[i] \in {"types", "list", "mark"} => Docker(i) # "gone"
  /\ r.phase[i] = "delete" /\ r.wait => \A k \in Kind :
       There(i, k) => <<i, k>> \in r.left \cup r.starting \cup r.watching
  /\ r.phase[i] = "over" /\ r.wait => \A k \in Kind : ~There(i, k)

DeletionOK(c) ==
  \A i \in 1 .. created : labels[i].env \notin overlapped /\ i \notin hurt => Awaits(c, i)

WaitingOK(c) ==
  /\ At(c, "await") => cli[c].event \/ ~findReadyPod(cli[c].instance)
  /\ \A o \in cli[c].watching : There(o[1], o[2])

WaitsOK == \A c \in Cli : DeletionOK(c) /\ WaitingOK(c)

\* A step leaves a command as it is, but for what it waits for.
Held(d) ==
  LET r == cli'[d] x == cli[d] IN
  /\ r.at = x.at /\ r.instance = x.instance
  /\ x.at = "await" => /\ x.event => r.event
                       /\ findReadyPod(x.instance)' => findReadyPod(x.instance) \/ r.event
  /\ \A o \in r.watching : o \in x.watching /\ (There(o[1], o[2]) => There(o[1], o[2])')

LEMMA HeldKeepsWaiting ==
  ASSUME NEW d \in Cli, WaitingOK(d), Held(d)
  PROVE  WaitingOK(d)'
<1>1. cli'[d].at = "await" => cli'[d].event \/ ~findReadyPod(cli[d].instance)'
  BY DEF WaitingOK, Held, At
<1>2. \A o \in cli'[d].watching : There(o[1], o[2])'
  BY DEF WaitingOK, Held
<1>. QED BY <1>1, <1>2 DEF WaitingOK, At, findReadyPod, findReadyPodForDeployment,
            findReadyPodForStatefulSet

\* A command that awaits a pod does so of its StatefulSet.
LEMMA AwaitedPod ==
  ASSUME KubeBasis, NEW d \in Cli, cli[d].at = "await", cli'[d].instance = cli[d].instance
  PROVE  LET i == cli[d].instance IN
         /\ i \in Instance \ {0}
         /\ findReadyPod(i) <=> There(i, "StatefulSet") /\ pod[i] = "ready"
         /\ findReadyPod(i)' <=> There(i, "StatefulSet")' /\ pod'[i] = "ready"
<1>1. cli[d].instance \in Instance \ {0}
  BY LabelledFacts DEF Creating
<1>. QED BY <1>1 DEF findReadyPod, findReadyPodForStatefulSet

LEMMA OwnKeepsWaiting ==
  ASSUME KubeBasis, \A d \in Cli : WaitingOK(d), NEW c \in Cli, UNCHANGED pod,
         \A i \in Instance, k \in Kind : There(i, k)' = There(i, k),
         \A d \in Cli \ {c} : cli'[d] = cli[d],
         cli'[c].at # "await" \/ cli'[c].event \/ ~findReadyPod(cli[c].instance)',
         \A o \in cli'[c].watching : There(o[1], o[2])'
  PROVE  \A d \in Cli : WaitingOK(d)'
<1>1. ASSUME NEW d \in Cli \ {c} PROVE WaitingOK(d)'
  <2>1. cli[d].watching \subseteq Object
    BY DEF KubeBasis, KubeTypes, KubeCommand
  <2>2. ASSUME cli[d].at = "await"
      PROVE findReadyPod(cli[d].instance)' => findReadyPod(cli[d].instance)
    BY <2>2, AwaitedPod, KindFacts
  <2>3. \A o \in Object : There(o[1], o[2])' = There(o[1], o[2])
    BY DEF Object
  <2>4. Held(d)
    BY <2>1, <2>2, <2>3 DEF Held
  <2>. QED BY <2>4, HeldKeepsWaiting
<1>2. WaitingOK(c)'
  BY DEF WaitingOK, At, findReadyPod, findReadyPodForDeployment, findReadyPodForStatefulSet
<1>3. ASSUME NEW d \in Cli PROVE WaitingOK(d)'
  <2>1. CASE d = c
    BY <1>2, <2>1
  <2>2. CASE d # c
    BY <1>1, <2>2
  <2>. QED BY <2>1, <2>2
<1>. QED BY <1>3

LEMMA CommandKeepsWaiting ==
  ASSUME KubeBasis, \A d \in Cli : WaitingOK(d), NEW c \in Cli,
         \/ \E j : Fresh(j) /\ Start(c, j)
         \/ Stops(c)
         \/ \E r : Moves(c, r) \/ Creates(c, r) \/ \E S : Aims(c, r, S)
         \/ \E i \in Instance : \E r : Typed(c, i, r) \/ Listed(c, i, r)
                                    \/ Marked(c, i, r) \/ Over(c, i, r)
         \/ \E o \in cli[c].left : \E r : Marks(c, o, r) \/ Reads(c, o, r)
         \/ \E o \in cli[c].starting : \E r : Watches(c, o, r)
  PROVE  \A d \in Cli : WaitingOK(d)'
<1>. DEFINE x == cli[c]
<1>1. /\ KubeTypes /\ x \in KubeCommand /\ PhaseOK(c) /\ WaitingOK(c)
  BY DEF KubeBasis, KubeTypes
<1>2. x.left \subseteq Object /\ x.starting \subseteq Object /\ x.watching \subseteq Object
  BY <1>1 DEF KubeCommand
<1>3. ASSUME object' = object PROVE \A i, k : There(i, k)' = There(i, k)
  BY <1>3 DEF There
<1>4. \A o \in x.watching : There(o[1], o[2])
  BY <1>1 DEF WaitingOK
<1>5. ASSUME NEW r, UNCHANGED <<object, pod>>, cli' = [cli EXCEPT ![c] = r],
             r.at # "await" \/ r.event \/ ~findReadyPod(r.instance),
             \A o \in r.watching : There(o[1], o[2])
      PROVE  \A d \in Cli : WaitingOK(d)'
  <2>1. cli'[c] = r /\ \A d \in Cli \ {c} : cli'[d] = cli[d]
    BY <1>1, <1>5 DEF KubeTypes
  <2>2. r.at # "await" \/ r.event \/ ~findReadyPod(cli[c].instance)'
    BY <1>5, <2>1 DEF findReadyPod, findReadyPodForDeployment, findReadyPodForStatefulSet, There
  <2>3. \A o \in r.watching : There(o[1], o[2])'
    BY <1>3, <1>5
  <2>. QED BY <1>3, <1>5, <2>1, <2>2, <2>3, OwnKeepsWaiting
<1>6. CASE \E j : Fresh(j) /\ Start(c, j)
  BY <1>5, <1>6 DEF Fresh, Start, cluster
<1>7. CASE Stops(c)
  <2>1. Idle.at = "idle" /\ Idle.watching = {}
    BY DEF Idle
  <2>2. UNCHANGED <<object, pod>> /\ cli' = [cli EXCEPT ![c] = Idle]
    BY <1>7 DEF Stops, Stop, cluster
  <2>. QED BY <1>5, <2>1, <2>2
<1>8. ASSUME NEW r, Moves(c, r) PROVE \A d \in Cli : WaitingOK(d)'
  <2>1. /\ UNCHANGED <<object, pod>> /\ cli' = [cli EXCEPT ![c] = r] /\ r.watching = x.watching
    BY <1>8 DEF Moves, Becomes, Same, SameSets, cluster
  <2>2. r.at # "await" \/ r.event \/ ~findReadyPod(r.instance)
    BY <1>8 DEF Moves, Connecting
  <2>. QED BY <1>4, <1>5, <2>1, <2>2
<1>9. ASSUME NEW r, Creates(c, r) \/ \E S : Aims(c, r, S) PROVE \A d \in Cli : WaitingOK(d)'
  <2>1. /\ UNCHANGED <<object, pod>> /\ cli' = [cli EXCEPT ![c] = r] /\ r.watching = x.watching
        /\ r.at # "await"
    BY <1>9 DEF Creates, Aims, Becomes, Same, SameSets, cluster
  <2>. QED BY <1>4, <1>5, <2>1
<1>10. ASSUME NEW i \in Instance, NEW r,
              Typed(c, i, r) \/ Listed(c, i, r) \/ Marked(c, i, r) \/ Over(c, i, r)
       PROVE  \A d \in Cli : WaitingOK(d)'
  <2>1. /\ UNCHANGED <<object, pod>> /\ cli' = [cli EXCEPT ![c] = r] /\ r.watching = x.watching
        /\ r.at # "await"
    BY <1>10 DEF Typed, Listed, Marked, Over, Turns, Becomes, cluster
  <2>. QED BY <1>4, <1>5, <2>1
<1>11. ASSUME NEW o \in x.left, NEW r, Reads(c, o, r) PROVE \A d \in Cli : WaitingOK(d)'
  <2>1. /\ UNCHANGED <<object, pod>> /\ cli' = [cli EXCEPT ![c] = r] /\ r.watching = x.watching
        /\ r.at # "await"
    BY <1>11 DEF Reads, ReadObject, Deleting, At, Handles, Becomes, cluster
  <2>. QED BY <1>4, <1>5, <2>1
<1>12. ASSUME NEW o \in x.starting, NEW r, Watches(c, o, r) PROVE \A d \in Cli : WaitingOK(d)'
  <2>1. x.at = "delete"
    <3>1. PICK j \in Instance, k \in Kind : o = <<j, k>>
      BY <1>2 DEF Object
    <3>. QED BY <1>1, <1>12, <3>1 DEF PhaseOK
  <2>2. /\ UNCHANGED <<object, pod>> /\ cli' = [cli EXCEPT ![c] = r]
        /\ r.watching \subseteq x.watching \cup (IF There(o[1], o[2]) THEN {o} ELSE {})
        /\ r.at # "await"
    BY <1>12, <2>1 DEF Watches, waitForDeletion, Handles, Becomes, cluster
  <2>3. \A a \in r.watching : There(a[1], a[2])
    BY <1>4, <2>2
  <2>. QED BY <1>5, <2>2, <2>3
<1>13. ASSUME NEW o \in x.left, NEW r, Marks(c, o, r) PROVE \A d \in Cli : WaitingOK(d)'
  <2>1. PICK j \in Instance, k \in Kind : o = <<j, k>>
    BY <1>2 DEF Object
  <2>2. /\ object' = [object EXCEPT ![j][k] = markObjectAsDeleted(object[j][k])]
        /\ pod' = pod /\ cli'[c] = r /\ r.watching = x.watching /\ r.at = "delete"
        /\ \A d \in Cli \ {c} : cli'[d] = cli[d]
    BY <1>1, <1>13, <2>1 DEF Marks, MarkObject, Deleting, At, Handles, Becomes, KubeTypes
  <2>3. \A i \in Instance, l \in Kind : There(i, l)' = There(i, l)
    BY <1>1, <2>2 DEF KubeTypes, There, markObjectAsDeleted
  <2>4. \A a \in r.watching : There(a[1], a[2])'
    BY <1>2, <1>4, <2>2, <2>3 DEF Object
  <2>. QED BY <2>2, <2>3, <2>4, OwnKeepsWaiting
<1>. QED BY <1>6, <1>7, <1>8, <1>9, <1>10, <1>11, <1>12, <1>13

LEMMA DeletesKeepsWaiting ==
  ASSUME KubeBasis, \A d \in Cli : WaitingOK(d), NEW c \in Cli,
         NEW o \in cli[c].deleting, Deletes(c, o)
  PROVE  \A d \in Cli : WaitingOK(d)'
<1>1. /\ KubeTypes
      /\ \A d \in Cli : cli[d].watching \subseteq Object /\ cli[d].deleting \subseteq Object
  BY DEF KubeBasis, KubeTypes, KubeCommand
<1>2. PICK j \in Instance, k \in Kind : o = <<j, k>>
  <2>1. o \in Object
    BY <1>1
  <2>. QED BY <2>1 DEF Object
<1>3. /\ pod' = pod /\ object' = [object EXCEPT ![j][k] = IF Ends(o) THEN "ending" ELSE "gone"]
      /\ There(j, k)
      /\ \A d \in Cli :
           /\ Notices(d) /\ cli'[d].event = cli[d].event
           /\ cli'[d].watching = IF Ends(o) THEN cli[d].watching ELSE cli[d].watching \ {o}
  BY <1>2 DEF Deletes
<1>4. \A i \in Instance, l \in Kind :
        object'[i][l] = IF i = j /\ l = k THEN IF Ends(o) THEN "ending" ELSE "gone"
                       ELSE object[i][l]
  BY <1>1, <1>3 DEF KubeTypes
<1>5. \A i \in Instance, l \in Kind :
        /\ There(i, l)' => There(i, l)
        /\ There(i, l) /\ (<<i, l>> # o \/ Ends(o)) => There(i, l)'
  BY <1>2, <1>3, <1>4 DEF There
<1>6. ASSUME NEW d \in Cli PROVE WaitingOK(d)'
  <2>1. cli'[d].at = cli[d].at /\ cli'[d].instance = cli[d].instance
    BY <1>3 DEF Notices
  <2>2. cli[d].at = "await" /\ findReadyPod(cli[d].instance)' => findReadyPod(cli[d].instance)
    BY <1>3, <1>5, <2>1, AwaitedPod, KindFacts
  <2>3. ASSUME NEW a \in cli'[d].watching, There(a[1], a[2])
        PROVE  a \in cli[d].watching /\ There(a[1], a[2])'
    <3>1. a \in cli[d].watching /\ a \in Object /\ (a # o \/ Ends(o))
      BY <1>1, <1>3
    <3>. QED BY <1>5, <2>3, <3>1 DEF Object
  <2>4. \A a \in cli'[d].watching : a \in cli[d].watching
    BY <1>3
  <2>5. Held(d)
    BY <1>3, <2>1, <2>2, <2>3, <2>4 DEF Held
  <2>. QED BY <2>5, HeldKeepsWaiting
<1>. QED BY <1>6

\* No command awaits the pod of an instance that another one applies.
LEMMA AppliesKeepsWaiting ==
  ASSUME KubeBasis, \A d \in Cli : WaitingOK(d), NEW c \in Cli, NEW r, AppliesNext(c, r)
  PROVE  \A d \in Cli : WaitingOK(d)'
<1>. DEFINE x == cli[c]
            k == x.template[x.applied + 1]
<1>1. KubeTypes /\ Apart /\ \A d \in Cli : cli[d].watching \subseteq Object
  BY DEF KubeBasis, KubeTypes, KubeCommand
<1>2. /\ cli'[c] = r /\ SameSets(r, x) /\ x.at = "apply" /\ r.at = "apply"
      /\ r.instance = x.instance
      /\ pod' = pod /\ object' = [object EXCEPT ![x.instance][k] = "live"]
      /\ \A d \in Cli \ {c} : cli'[d] = cli[d]
  BY <1>1 DEF AppliesNext, Becomes, KubeTypes
<1>3. \A i \in Instance, l \in Kind :
        /\ There(i, l) => There(i, l)'
        /\ i # x.instance => There(i, l)' = There(i, l)
  BY <1>1, <1>2 DEF KubeTypes, There
<1>4. ASSUME NEW d \in Cli PROVE WaitingOK(d)'
  <2>1. cli'[d].at = cli[d].at /\ cli'[d].instance = cli[d].instance
        /\ cli'[d].watching = cli[d].watching /\ (cli[d].at = "await" => cli'[d] = cli[d])
    BY <1>2 DEF SameSets
  <2>2. ASSUME cli[d].at = "await"
      PROVE findReadyPod(cli[d].instance)' => findReadyPod(cli[d].instance)
    <3>1. cli[d].instance # x.instance
      BY <1>1, <1>2, <2>2 DEF Apart, Creating
    <3>. QED BY <1>2, <1>3, <2>1, <2>2, <3>1, AwaitedPod, KindFacts
  <2>3. \A a \in cli[d].watching : There(a[1], a[2]) => There(a[1], a[2])'
    BY <1>1, <1>3 DEF Object
  <2>4. Held(d)
    BY <2>1, <2>2, <2>3 DEF Held
  <2>. QED BY <2>4, HeldKeepsWaiting
<1>. QED BY <1>4

\* That a pod gets ready is an event for the commands that await it.
LEMMA ClusterKeepsWaiting ==
  ASSUME KubeBasis, \A d \in Cli : WaitingOK(d), NEW i \in Instance,
         StartPod(i) \/ ReadyFor(i) \/ PodFails(i) \/ GoneFor(i)
  PROVE  \A d \in Cli : WaitingOK(d)'
<1>. DEFINE k == "PersistentVolumeClaim"
            pvc == <<i, k>>
<1>1. KubeTypes /\ \A d \in Cli : cli[d].watching \subseteq Object /\ k \in Kind
  BY KindFacts DEF KubeBasis, KubeTypes, KubeCommand
<1>2. ASSUME NEW d \in Cli
      PROVE  /\ cli'[d].at = cli[d].at /\ cli'[d].instance = cli[d].instance
             /\ cli[d].event => cli'[d].event
             /\ cli'[d].watching \subseteq cli[d].watching
             /\ ReadyFor(i) /\ cli[d].at = "await" /\ cli[d].instance = i => cli'[d].event
             /\ GoneFor(i) /\ object[i][k] = "ending" => pvc \notin cli'[d].watching
  BY DEF StartPod, ReadyFor, PodFails, GoneFor, Notices, At
<1>3. /\ \A j \in Instance, l \in Kind \ {k} : object'[j][l] = object[j][l]
      /\ \A j \in Instance : j # i => object'[j][k] = object[j][k]
      /\ \/ object'[i][k] = object[i][k]
         \/ object[i][k] = "absent"
         \/ GoneFor(i) /\ object[i][k] = "ending"
  <2>1. CASE StartPod(i)
    BY <1>1, <2>1 DEF StartPod, KubeTypes
  <2>2. CASE ReadyFor(i) \/ PodFails(i)
    BY <2>2 DEF ReadyFor, PodReady, PodFails
  <2>3. CASE GoneFor(i)
    <3>1. \/ object' = object
          \/ object[i][k] = "ending" /\ object' = [object EXCEPT ![i][k] = "gone"]
      BY <2>3 DEF GoneFor, PodGone
    <3>. QED BY <1>1, <2>3, <3>1 DEF KubeTypes
  <2>. QED BY <2>1, <2>2, <2>3
<1>4. \A j \in Instance : pod'[j] = "ready" => pod[j] = "ready" \/ (ReadyFor(i) /\ j = i)
  <2>1. \A j \in Instance : j # i => pod'[j] = pod[j]
    BY <1>1 DEF StartPod, ReadyFor, PodReady, PodFails, GoneFor, PodGone, KubeTypes
  <2>2. pod'[i] = "ready" => ReadyFor(i)
    BY <1>1 DEF StartPod, PodFails, GoneFor, PodGone, KubeTypes
  <2>. QED BY <2>1, <2>2
<1>5. ASSUME NEW d \in Cli PROVE WaitingOK(d)'
  <2>1. ASSUME cli[d].at = "await"
        PROVE  findReadyPod(cli[d].instance)' => findReadyPod(cli[d].instance) \/ cli'[d].event
    <3>1. There(cli[d].instance, "StatefulSet")' => There(cli[d].instance, "StatefulSet")
      BY <1>2, <1>3, <2>1, AwaitedPod, KindFacts DEF There
    <3>. QED BY <1>2, <1>4, <2>1, <3>1, AwaitedPod
  <2>2. ASSUME NEW a \in cli'[d].watching, There(a[1], a[2])
        PROVE  a \in cli[d].watching /\ There(a[1], a[2])'
    <3>1. a \in cli[d].watching
      BY <1>2
    <3>2. PICK j \in Instance, l \in Kind : a = <<j, l>>
      <4>1. a \in Object
        BY <1>1, <3>1
      <4>. QED BY <4>1 DEF Object
    <3>3. object'[j][l] = object[j][l]
      <4>1. CASE j = i /\ l = k
        BY <1>2, <1>3, <2>2, <3>2, <4>1 DEF There
      <4>2. CASE ~(j = i /\ l = k)
        BY <1>3, <4>2
      <4>. QED BY <4>1, <4>2
    <3>. QED BY <2>2, <3>1, <3>2, <3>3 DEF There
  <2>3. \A a \in cli'[d].watching : a \in cli[d].watching
    BY <1>2
  <2>4. Held(d)
    BY <1>2, <2>1, <2>2, <2>3 DEF Held
  <2>. QED BY <2>4, HeldKeepsWaiting
<1>. QED BY <1>5

LEMMA StepKeepsWaiting ==
  ASSUME KubeBasis, \A d \in Cli : WaitingOK(d), KubeStep
  PROVE  \A d \in Cli : WaitingOK(d)'
<1>1. ASSUME NEW c \in Cli, Deletion(c) PROVE \A d \in Cli : WaitingOK(d)'
  BY <1>1, CommandKeepsWaiting, DeletesKeepsWaiting DEF Deletion
<1>. QED BY <1>1, CommandKeepsWaiting, AppliesKeepsWaiting, ClusterKeepsWaiting DEF KubeStep

\* What a step leaves of a deletion.
Bears(d, i) ==
  LET r == cli'[d] x == cli[d] IN
  /\ r.phase[i] = x.phase[i] /\ r.wait = x.wait
  /\ x.phase[i] \in {"types", "list", "mark"} /\ Docker(i)' = "gone" => Docker(i) = "gone"
  /\ x.phase[i] \in {"delete", "over"} => \A k \in Kind : There(i, k)' => There(i, k)
  /\ x.phase[i] = "delete" => \A k \in Kind :
       There(i, k)' /\ <<i, k>> \in x.left \cup x.starting \cup x.watching =>
         <<i, k>> \in r.left \cup r.starting \cup r.watching

LEMMA BearsKeepsAwaits ==
  ASSUME NEW d \in Cli, NEW i, Awaits(d, i), Bears(d, i)
  PROVE  Awaits(d, i)'
<1>1. cli'[d].phase[i] \in {"types", "list", "mark"} => Docker(i)' # "gone"
  BY DEF Awaits, Bears
<1>2. cli'[d].phase[i] = "delete" /\ cli'[d].wait => \A k \in Kind :
        There(i, k)' => <<i, k>> \in cli'[d].left \cup cli'[d].starting \cup cli'[d].watching
  BY DEF Awaits, Bears
<1>3. cli'[d].phase[i] = "over" /\ cli'[d].wait => \A k \in Kind : ~There(i, k)'
  BY DEF Awaits, Bears
<1>. QED BY <1>1, <1>2, <1>3 DEF Awaits

\* Of an instance that only one command works on
Undisturbed(d, i) ==
  Awaits(d, i) /\ InstanceOK(i) /\ labels[i].env \notin overlapped /\ i \notin hurt'

LEMMA SameBears ==
  ASSUME NEW d \in Cli, NEW i, object' = object,
         Alike(cli'[d], cli[d]), SameSets(cli'[d], cli[d])
  PROVE  Bears(d, i)
BY DEF Bears, Alike, SameSets, There, Docker

LEMMA StartStopAwaits ==
  ASSUME KubeBasis, NEW d \in Cli, NEW i \in 1 .. created, Undisturbed(d, i),
         NEW c \in Cli, (\E j : Fresh(j) /\ Start(c, j)) \/ Stops(c)
  PROVE  Awaits(d, i)'
<1>1. /\ object' = object /\ cli'[c].phase[i] = "none" /\ \A a \in Cli \ {c} : cli'[a] = cli[a]
  <2>1. i \in Instance
    BY CreatedFacts
  <2>2. CASE Stops(c)
    BY <2>1, <2>2 DEF Stops, Stop, cluster, KubeBasis, KubeTypes, Idle
  <2>3. CASE \E j : Fresh(j) /\ Start(c, j)
    BY <2>1, <2>3 DEF Start, cluster, KubeBasis, KubeTypes, Fresh
  <2>. QED BY <2>2, <2>3
<1>2. CASE d = c
  BY <1>1, <1>2 DEF Awaits
<1>3. CASE d # c
  BY <1>1, <1>3, SameBears, BearsKeepsAwaits DEF Undisturbed, Alike, SameSets
<1>. QED BY <1>2, <1>3

\* A command aims at instances that have a workload, or that another one deletes.
LEMMA AimsAwaits ==
  ASSUME KubeBasis, NEW d \in Cli, NEW i \in 1 .. created, Undisturbed(d, i),
         NEW c \in Cli, NEW r, NEW S, Aims(c, r, S)
  PROVE  Awaits(d, i)'
<1>. DEFINE x == cli[c]
<1>1. /\ KubeTypes /\ ClusterOK /\ CommandOK(c) /\ PhaseOK(c) /\ Apart
      /\ i \in Instance /\ i # 0 /\ i > 0 /\ labels[i] # None /\ labels[i].env \in Env
  BY CreatedFacts DEF KubeBasis
<1>2. /\ object' = object /\ cli'[c] = r /\ r.phase = Targets(S) /\ x.at = "find"
      /\ \A a \in Cli \ {c} : cli'[a] = cli[a]
  BY <1>1 DEF Aims, Becomes, KubeTypes, Same, cluster
<1>3. ASSUME i \in S PROVE Docker(i) # "gone"
  <2>1. CASE x.job \in {"up", "down"} /\ S = {findEnvObject(x.env)} /\ S # {None}
    <3>1. Lives(i, x.env)
      BY <1>3, <2>1, FoundFacts
    <3>. QED BY <1>1, <3>1 DEF Lives, Workload, Docker
  <2>2. CASE x.job = "purge" /\ S = listMachines
    <3>. SUFFICES ASSUME Docker(i) = "gone" PROVE FALSE
      OBVIOUS
    <3>1. There(i, "Deployment")
      BY <1>3, <2>2 DEF listMachines, listStatefulSets, listDeployments, Docker, There
    <3>2. object[i]["Deployment"] \in {"live", "marked"}
      BY <1>1, <3>1, KindFacts DEF There, ClusterOK
    <3>3. PICK a \in Cli : Covers(a, i)
      BY <3>2, KindFacts DEF Undisturbed, InstanceOK
    <3>4. cli[a].at = "delete" /\ labels[i].env \in Touches(cli[a])
      BY <1>1, <3>3 DEF Covers, KubeBasis, PhaseOK
    <3>5. a # c /\ labels[i].env \in Touches(x)
      BY <1>1, <1>2, <2>2, <3>4 DEF Touches
    <3>. QED BY <1>1, <1>2, <3>4, <3>5 DEF Apart, At, Undisturbed
  <2>. QED BY <2>1, <2>2 DEF Aims
<1>4. CASE d = c
  <2>1. r.phase[i] \in {"types", "none"} /\ (r.phase[i] = "types" => i \in S)
    BY <1>1, <1>2 DEF Targets
  <2>. QED BY <1>2, <1>3, <1>4, <2>1 DEF Awaits, Docker
<1>5. CASE d # c
  BY <1>2, <1>5, SameBears, BearsKeepsAwaits DEF Undisturbed, Alike, SameSets
<1>. QED BY <1>4, <1>5

LEMMA MovesAwaits ==
  ASSUME KubeBasis, NEW d \in Cli, NEW i \in 1 .. created, Undisturbed(d, i),
         NEW c \in Cli, NEW r, Moves(c, r) \/ Creates(c, r)
  PROVE  Awaits(d, i)'
<1>1. /\ object' = object /\ cli'[c] = r /\ Alike(r, cli[c]) /\ SameSets(r, cli[c])
      /\ \A a \in Cli \ {c} : cli'[a] = cli[a]
  BY DEF Moves, Creates, Becomes, KubeBasis, KubeTypes, Same, cluster
<1>2. Alike(cli'[d], cli[d]) /\ SameSets(cli'[d], cli[d])
  BY <1>1 DEF Alike, SameSets
<1>. QED BY <1>1, <1>2, SameBears, BearsKeepsAwaits DEF Undisturbed

\* A deletion finds all that is there of a complete instance, and is over when that is gone.
LEMMA TurnsAwaits ==
  ASSUME KubeBasis, NEW d \in Cli, NEW i \in 1 .. created, Undisturbed(d, i),
         NEW c \in Cli, NEW j \in Instance, NEW r,
         Typed(c, j, r) \/ Listed(c, j, r) \/ Marked(c, j, r) \/ Over(c, j, r)
  PROVE  Awaits(d, i)'
<1>. DEFINE x == cli[c]
<1>1. KubeTypes /\ i \in Instance /\ x \in KubeCommand
  BY CreatedFacts DEF KubeBasis, KubeTypes
<1>2. ASSUME NEW p, NEW q, Turns(c, j, p, q, r)
      PROVE  /\ object' = object /\ cli'[c] = r /\ Alike(r, x) /\ x.phase[j] = p /\ r.phase[j] = q
             /\ \A l \in Instance : l # j => r.phase[l] = x.phase[l]
             /\ r.starting = x.starting /\ r.watching = x.watching
             /\ \A a \in Cli \ {c} : cli'[a] = cli[a]
  BY <1>1, <1>2 DEF Turns, Becomes, KubeTypes, KubeCommand, cluster
<1>3. PICK p, q : Turns(c, j, p, q, r)
  BY DEF Typed, Listed, Marked, Over
<1>4. CASE d # c
  BY <1>2, <1>3, <1>4, SameBears, BearsKeepsAwaits DEF Undisturbed, Alike, SameSets
<1>5. CASE d = c /\ i # j
  <2>1. \A k \in Kind : <<i, k>> \in x.left /\ There(i, k) => <<i, k>> \in r.left
    BY <1>5 DEF Typed, Listed, Marked, Over, Of, dynamicList
  <2>2. Bears(d, i)
    BY <1>1, <1>2, <1>3, <1>5, <2>1 DEF Bears, Alike, There, Docker
  <2>. QED BY <2>2, BearsKeepsAwaits DEF Undisturbed
<1>6. CASE d = c /\ i = j
  <2>1. CASE Typed(c, j, r) \/ Listed(c, j, r)
    <3>1. x.phase[i] \in {"types", "list"} /\ r.phase[i] \in {"list", "mark"}
          /\ object' = object /\ cli'[d] = r
      BY <1>2, <1>6, <2>1 DEF Typed, Listed
    <3>2. Docker(i) # "gone"
      BY <1>6, <3>1 DEF Undisturbed, Awaits
    <3>. QED BY <3>1, <3>2 DEF Awaits, Docker
  <2>2. CASE Marked(c, j, r)
    <3>1. x.phase[i] = "mark" /\ r.phase[i] = "delete" /\ object' = object /\ cli'[d] = r
          /\ r.left = x.left \cup Of(i, x.found)
      BY <1>2, <1>6, <2>2 DEF Marked
    <3>2. Docker(i) # "gone" /\ Docker(i) # "absent"
      BY <1>6, <3>1 DEF Undisturbed, Awaits, InstanceOK
    <3>3. There(i, "StatefulSet")
      BY <1>1, <3>2, KindFacts DEF KubeTypes, Status, Docker, There
    <3>4. Covers(c, i)
      BY <3>1, <3>3 DEF Undisturbed, InstanceOK
    <3>5. \A k \in Kind : There(i, k) => <<i, k>> \in r.left
      BY <3>1, <3>4 DEF Covers, Of
    <3>. QED BY <3>1, <3>5 DEF Awaits, There
  <2>3. CASE Over(c, j, r)
    <3>1. x.phase[i] = "delete" /\ r.phase[i] = "over" /\ object' = object /\ cli'[d] = r
          /\ r.wait = x.wait
      BY <1>2, <1>6, <2>3 DEF Over, Alike
    <3>2. \A k \in Kind : <<i, k>> \notin x.left \cup x.starting \cup x.watching
      BY <1>6, <2>3 DEF Over, Deleted, Pending, Of
    <3>3. x.wait => \A k \in Kind : ~There(i, k)
      BY <1>6, <3>1, <3>2 DEF Undisturbed, Awaits
    <3>. QED BY <3>1, <3>3 DEF Awaits, There
  <2>. QED BY <2>1, <2>2, <2>3
<1>. QED BY <1>4, <1>5, <1>6

LEMMA HandlesAwaits ==
  ASSUME KubeBasis, NEW d \in Cli, NEW i \in 1 .. created, Undisturbed(d, i), NEW c \in Cli,
         \/ \E o \in cli[c].left : \E r : Marks(c, o, r) \/ Reads(c, o, r)
         \/ \E o \in cli[c].starting : \E r : Watches(c, o, r)
  PROVE  Awaits(d, i)'
<1>. DEFINE x == cli[c]
<1>1. KubeTypes /\ i \in Instance
  BY CreatedFacts DEF KubeBasis
<1>2. x \in KubeCommand
  BY <1>1 DEF KubeTypes
<1>3. ASSUME NEW r, Handles(c, r)
      PROVE  /\ cli'[c] = r /\ r.phase = x.phase /\ r.wait = x.wait
             /\ \A a \in Cli \ {c} : cli'[a] = cli[a]
  BY <1>1, <1>3 DEF Handles, Becomes, Alike, KubeTypes
<1>4. ASSUME NEW r, Handles(c, r), d # c, object' = object PROVE Awaits(d, i)'
  BY <1>3, <1>4, SameBears, BearsKeepsAwaits DEF Undisturbed, Alike, SameSets
<1>5. ASSUME NEW r, Handles(c, r), d = c, object' = object,
             r.phase[i] = "delete" => \A k \in Kind :
               /\ r.wait /\ There(i, k) /\ <<i, k>> \in x.left \cup x.starting \cup x.watching
               => <<i, k>> \in r.left \cup r.starting \cup r.watching
      PROVE  Awaits(d, i)'
  <2>1. cli'[d] = r /\ r.phase = x.phase /\ r.wait = x.wait /\ Awaits(c, i)
    BY <1>3, <1>5 DEF Undisturbed
  <2>2. r.phase[i] = "delete" /\ r.wait => \A k \in Kind :
          There(i, k) => <<i, k>> \in r.left \cup r.starting \cup r.watching
    BY <1>5, <2>1 DEF Awaits
  <2>. QED BY <1>5, <2>1, <2>2 DEF Awaits, There, Docker
<1>6. ASSUME NEW o \in x.left, NEW r, Reads(c, o, r) PROVE Awaits(d, i)'
  <2>1. /\ Handles(c, r) /\ object' = object /\ r.left = x.left \ {o} /\ r.watching = x.watching
        /\ r.starting = IF There(o[1], o[2]) /\ x.wait THEN x.starting \cup {o} ELSE x.starting
        /\ r.wait = x.wait
    BY <1>6 DEF Reads, ReadObject, cluster, Handles, Alike
  <2>. QED BY <1>4, <1>5, <2>1
<1>7. ASSUME NEW o \in x.starting, NEW r, Watches(c, o, r) PROVE Awaits(d, i)'
  <2>1. /\ Handles(c, r) /\ object' = object /\ r.left = x.left /\ r.starting = x.starting \ {o}
        /\ r.watching = IF There(o[1], o[2]) THEN x.watching \cup {o} ELSE x.watching
    BY <1>7 DEF Watches, waitForDeletion, cluster
  <2>. QED BY <1>4, <1>5, <2>1
<1>8. ASSUME NEW o \in x.left, NEW r, Marks(c, o, r) PROVE Awaits(d, i)'
  <2>1. PICK j \in Instance, k \in Kind : o = <<j, k>>
    <3>1. o \in Object
      BY <1>2 DEF KubeCommand
    <3>. QED BY <3>1 DEF Object
  <2>2. /\ object' = [object EXCEPT ![j][k] = markObjectAsDeleted(object[j][k])]
        /\ Handles(c, r) /\ r.left = x.left \ {o} /\ x.phase[j] = "mark"
        /\ r.starting = x.starting /\ r.watching = x.watching
    BY <1>8, <2>1 DEF Marks, MarkObject, Deleting
  <2>3. \A l \in Kind :
          object'[i][l] = IF i = j /\ l = k THEN markObjectAsDeleted(object[i][l]) ELSE object[i][l]
    BY <1>1, <2>2 DEF KubeTypes
  <2>4. Docker(i)' = "gone" => Docker(i) = "gone"
    BY <2>3, KindFacts DEF Docker, markObjectAsDeleted
  <2>5. \A l \in Kind : There(i, l)' => There(i, l)
    BY <2>3 DEF There, markObjectAsDeleted
  <2>6. x.phase[i] = "delete" => i # j
    BY <2>2
  <2>7. cli'[d].phase = cli[d].phase /\ cli'[d].wait = cli[d].wait
    BY <1>3, <2>2
  <2>8. cli[d].phase[i] = "delete" => \A l \in Kind :
          <<i, l>> \in cli[d].left \cup cli[d].starting \cup cli[d].watching =>
            <<i, l>> \in cli'[d].left \cup cli'[d].starting \cup cli'[d].watching
    BY <1>3, <2>1, <2>2, <2>6
  <2>9. Bears(d, i)
    BY <2>4, <2>5, <2>7, <2>8 DEF Bears
  <2>. QED BY <2>9, BearsKeepsAwaits DEF Undisturbed
<1>. QED BY <1>6, <1>7, <1>8

LEMMA DeletesAwaits ==
  ASSUME KubeBasis, NEW d \in Cli, NEW i \in 1 .. created, Undisturbed(d, i), NEW c \in Cli,
         NEW o \in cli[c].deleting, Deletes(c, o)
  PROVE  Awaits(d, i)'
<1>1. KubeTypes /\ PhaseOK(c) /\ PhaseOK(d) /\ Apart /\ i \in Instance
  BY CreatedFacts DEF KubeBasis
<1>2. PICK j \in Instance, k \in Kind : o = <<j, k>>
  <2>1. cli[c] \in KubeCommand
    BY <1>1 DEF KubeTypes
  <2>2. o \in Object
    BY <2>1 DEF KubeCommand
  <2>. QED BY <2>2 DEF Object
<1>3. /\ object' = [object EXCEPT ![j][k] = IF Ends(o) THEN "ending" ELSE "gone"]
      /\ There(j, k) /\ cli[c].phase[j] = "delete" /\ Notices(d)
      /\ cli'[d].watching = IF Ends(o) THEN cli[d].watching ELSE cli[d].watching \ {o}
  BY <1>1, <1>2 DEF Deletes, PhaseOK
<1>4. \A l \in Kind :
        object'[i][l] = IF i = j /\ l = k THEN IF Ends(o) THEN "ending" ELSE "gone"
                       ELSE object[i][l]
  BY <1>1, <1>3 DEF KubeTypes
<1>5. \A l \in Kind : /\ There(i, l)' => There(i, l)
                      /\ There(i, l)' => <<i, l>> # o \/ Ends(o)
  BY <1>2, <1>3, <1>4 DEF There
<1>6. ASSUME cli[d].phase[i] \in {"types", "list", "mark"}, Docker(i)' = "gone", Docker(i) # "gone"
      PROVE  FALSE
  <2>1. i = j
    BY <1>4, <1>6, KindFacts DEF Docker
  <2>2. c # d
    BY <1>3, <1>6, <2>1
  <2>3. /\ cli[c].at = "delete" /\ cli[d].at = "delete"
        /\ labels[i].env \in Touches(cli[c]) \cap Touches(cli[d])
    BY <1>1, <1>3, <1>6, <2>1 DEF PhaseOK
  <2>. QED BY <1>1, <2>2, <2>3 DEF Apart, At, Undisturbed
<1>7. \A l \in Kind :
        There(i, l)' /\ <<i, l>> \in cli[d].left \cup cli[d].starting \cup cli[d].watching =>
          <<i, l>> \in cli'[d].left \cup cli'[d].starting \cup cli'[d].watching
  BY <1>3, <1>5 DEF Notices
<1>8. Bears(d, i)
  BY <1>3, <1>5, <1>6, <1>7 DEF Bears, Notices, Alike
<1>. QED BY <1>8, BearsKeepsAwaits DEF Undisturbed

\* Nothing comes to an instance that was complete when its deletion began.
LEMMA AppliesAwaits ==
  ASSUME KubeBasis, NEW d \in Cli, NEW i \in 1 .. created, Undisturbed(d, i), NEW c \in Cli,
         NEW r, AppliesNext(c, r)
  PROVE  Awaits(d, i)'
<1>. DEFINE x == cli[c]
            k == x.template[x.applied + 1]
<1>1. KubeTypes /\ i \in Instance /\ x \in KubeCommand /\ CommandOK(c)
  BY CreatedFacts DEF KubeBasis, KubeTypes
<1>2. /\ cli'[c] = r /\ Alike(r, x) /\ SameSets(r, x) /\ x.at = "apply"
      /\ x.applied + 1 <= Len(x.template)
      /\ object' = [object EXCEPT ![x.instance][k] = "live"]
      /\ \A a \in Cli \ {c} : cli'[a] = cli[a]
  BY <1>1 DEF AppliesNext, Becomes, KubeTypes
<1>3. \A l \in Kind : object'[i][l] = IF i = x.instance /\ l = k THEN "live" ELSE object[i][l]
  BY <1>1, <1>2 DEF KubeTypes
<1>4. Docker(i)' = "gone" => Docker(i) = "gone"
  BY <1>3, KindFacts DEF Docker
<1>5. ASSUME cli[d].phase[i] \in {"delete", "over"}
      PROVE \A l \in Kind : object'[i][l] = object[i][l]
  <2>1. ~Incomplete(i)
    BY <1>5 DEF Undisturbed, InstanceOK
  <2>2. x.applied < Len(x.template)
    <3>1. x.applied \in Nat /\ x.template \in Template
      BY <1>1, <1>2 DEF KubeCommand, CommandOK, At
    <3>2. Len(x.template) \in Nat
      BY <3>1, KubeAssumption
    <3>. QED BY <1>2, <3>1, <3>2
  <2>3. x.instance # i
    BY <1>2, <2>1, <2>2 DEF Incomplete, At
  <2>. QED BY <1>3, <2>3
<1>6. Alike(cli'[d], cli[d]) /\ SameSets(cli'[d], cli[d])
  BY <1>2 DEF Alike, SameSets
<1>7. Bears(d, i)
  BY <1>4, <1>5, <1>6 DEF Bears, Alike, SameSets, There
<1>. QED BY <1>7, BearsKeepsAwaits DEF Undisturbed

LEMMA ClusterAwaits ==
  ASSUME KubeBasis, NEW d \in Cli, NEW i \in 1 .. created, Undisturbed(d, i), NEW j \in Instance,
         StartPod(j) \/ ReadyFor(j) \/ PodFails(j) \/ GoneFor(j)
  PROVE  Awaits(d, i)'
<1>. DEFINE k == "PersistentVolumeClaim"
<1>1. KubeTypes /\ i \in Instance /\ k \in Kind /\ k # "StatefulSet" /\ k \in Whole(i)
  <2>1. i \in Instance /\ labels[i].template \in Template
    BY CreatedFacts
  <2>2. labels[i].template # None
    BY <2>1, KubeAssumption
  <2>. QED BY <2>1, <2>2, KindFacts DEF KubeBasis, Whole, addAllTypesAnnotation
<1>2. /\ Notices(d)
      /\ cli'[d].watching = IF GoneFor(j) /\ object[j][k] = "ending"
                               THEN cli[d].watching \ {<<j, k>>}
                                                                     ELSE cli[d].watching
  BY DEF StartPod, ReadyFor, PodFails, GoneFor, PodGone, PodReady, Notices, Alike
<1>3. \A l \in Kind :
        \/ object'[i][l] = object[i][l]
        \/ i = j /\ l = k /\ object[i][l] = "absent"
        \/ i = j /\ l = k /\ object[i][l] = "ending" /\ object'[i][l] = "gone"
  <2>1. CASE StartPod(j)
    BY <1>1, <2>1 DEF StartPod, KubeTypes
  <2>2. CASE ReadyFor(j) \/ PodFails(j)
    BY <2>2 DEF ReadyFor, PodReady, PodFails
  <2>3. CASE GoneFor(j)
    <3>1. \/ object' = object
          \/ object[j][k] = "ending" /\ object' = [object EXCEPT ![j][k] = "gone"]
      BY <2>3 DEF GoneFor, PodGone
    <3>. QED BY <1>1, <3>1 DEF KubeTypes
  <2>. QED BY <2>1, <2>2, <2>3
<1>4. GoneFor(j) /\ object[j][k] = "ending" => object'[j][k] = "gone"
  BY <1>1 DEF GoneFor, PodGone, KubeTypes
<1>5. Docker(i)' = Docker(i)
  BY <1>1, <1>3, KindFacts DEF Docker
<1>6. ASSUME cli[d].phase[i] \in {"delete", "over"}, NEW l \in Kind, There(i, l)' PROVE There(i, l)
  <2>1. object[i][k] # "absent"
    BY <1>1, <1>6 DEF Undisturbed, InstanceOK, Incomplete
  <2>. QED BY <1>3, <1>6, <2>1 DEF There
<1>7. \A l \in Kind :
        There(i, l)' /\ <<i, l>> \in cli[d].left \cup cli[d].starting \cup cli[d].watching =>
          <<i, l>> \in cli'[d].left \cup cli'[d].starting \cup cli'[d].watching
  BY <1>2, <1>4 DEF Notices, There
<1>8. Bears(d, i)
  BY <1>2, <1>5, <1>6, <1>7 DEF Bears, Notices, Alike
<1>. QED BY <1>8, BearsKeepsAwaits DEF Undisturbed

LEMMA StepKeepsDeletion ==
  ASSUME KubeBasis, HistoryOK, \A d \in Cli : DeletionOK(d), KubeStep
  PROVE  \A d \in Cli : DeletionOK(d)'
<1>1. KubeTypes /\ ClusterOK
  BY DEF KubeBasis
<1>2. ASSUME NEW d \in Cli, NEW i \in 1 .. created, Undisturbed(d, i) PROVE Awaits(d, i)'
  <2>1. ASSUME NEW c \in Cli, Deletion(c) PROVE Awaits(d, i)'
    BY <1>2, <2>1, TurnsAwaits, HandlesAwaits, DeletesAwaits DEF Deletion
  <2>. QED BY <1>2, <2>1, StartStopAwaits, MovesAwaits, AimsAwaits, AppliesAwaits, ClusterAwaits
           DEF KubeStep
<1>3. hurt \subseteq hurt' /\ overlapped \subseteq overlapped'
  <2>1. ASSUME NEW c \in Cli, Deletion(c)
      PROVE hurt \subseteq hurt' /\ overlapped \subseteq overlapped'
    BY <2>1 DEF Deletion, Typed, FindTypes, Listed, listInstanceObjects, Marked, AllMarked, Over,
         Deleted, Marks, MarkObject, Reads, ReadObject, Watches, waitForDeletion, Deletes, bounds
  <2>2. ASSUME NEW i \in Instance, StartPod(i) \/ ReadyFor(i) \/ PodFails(i) \/ GoneFor(i)
        PROVE  hurt \subseteq hurt' /\ overlapped \subseteq overlapped'
    BY <2>2 DEF StartPod, ReadyFor, PodReady, PodFails, GoneFor, PodGone, bounds
  <2>3. ASSUME NEW c \in Cli, (\E j : Start(c, j)) \/ Stops(c)
        PROVE  hurt \subseteq hurt' /\ overlapped \subseteq overlapped'
    BY <2>3 DEF Start, Stops, Stop
  <2>4. ASSUME NEW c \in Cli,
               \E r : Moves(c, r) \/ Creates(c, r) \/ AppliesNext(c, r) \/ \E S : Aims(c, r, S)
        PROVE  hurt \subseteq hurt' /\ overlapped \subseteq overlapped'
    BY <2>4 DEF Moves, Creates, AppliesNext, Aims, Same, bounds
  <2>. QED BY <2>1, <2>2, <2>3, <2>4 DEF KubeStep
<1>4. ASSUME NEW c \in Cli, NEW r, Creates(c, r)
      PROVE  /\ created' = created + 1
             /\ labels' = [labels EXCEPT ![created + 1] = addEnvMetadata(c)]
             /\ \A d \in Cli : cli'[d].phase = cli[d].phase
  BY <1>1, <1>4 DEF Creates, Becomes, KubeTypes, SameSets
<1>5. \/ created' = created /\ labels' = labels
      \/ \E c \in Cli : \E r : Creates(c, r)
  <2>1. ASSUME NEW c \in Cli, Deletion(c) PROVE created' = created /\ labels' = labels
    BY <2>1 DEF Deletion, Typed, FindTypes, Listed, listInstanceObjects, Marked, AllMarked, Over,
         Deleted, Marks, MarkObject, Reads, ReadObject, Watches, waitForDeletion, Deletes, cluster
  <2>2. ASSUME NEW i \in Instance, StartPod(i) \/ ReadyFor(i) \/ PodFails(i) \/ GoneFor(i)
        PROVE  created' = created /\ labels' = labels
    BY <2>2 DEF StartPod, ReadyFor, PodReady, PodFails, GoneFor, PodGone
  <2>3. ASSUME NEW c \in Cli, (\E j : Start(c, j)) \/ Stops(c)
        PROVE  created' = created /\ labels' = labels
    BY <2>3 DEF Start, Stops, Stop, cluster
  <2>4. ASSUME NEW c \in Cli,
               \E r : Moves(c, r) \/ AppliesNext(c, r) \/ \E S : Aims(c, r, S)
        PROVE  created' = created /\ labels' = labels
    BY <2>4 DEF Moves, AppliesNext, Aims, Same, cluster
  <2>. QED BY <2>1, <2>2, <2>3, <2>4 DEF KubeStep
<1>6. ASSUME NEW d \in Cli, NEW i \in 1 .. created, labels'[i] = labels[i],
             labels[i].env \notin overlapped', i \notin hurt'
      PROVE  Awaits(d, i)'
  <2>1. Undisturbed(d, i)
    BY <1>3, <1>6 DEF DeletionOK, HistoryOK, Undisturbed
  <2>. QED BY <1>2, <2>1
<1>7. CASE created' = created /\ labels' = labels
  BY <1>6, <1>7 DEF DeletionOK
<1>8. ASSUME NEW c \in Cli, NEW r, Creates(c, r), NEW d \in Cli PROVE DeletionOK(d)'
  <2>. SUFFICES ASSUME NEW i \in 1 .. created', labels'[i].env \notin overlapped', i \notin hurt'
                PROVE  Awaits(d, i)'
    BY DEF DeletionOK
  <2>1. created \in Nat /\ created + 1 \in Instance /\ created' = created + 1 /\ i \in Nat
    <3>1. created \in Nat /\ created + 1 \in Instance
      BY <1>1, <1>8, InstanceFacts DEF KubeTypes, Creates
    <3>. QED BY <1>4, <1>8, <3>1
  <2>2. CASE i = created + 1
    <3>1. labels[i] = None
      BY <1>1, <2>1, <2>2 DEF ClusterOK
    <3>2. cli'[d].phase[i] = "none"
      BY <1>4, <1>8, <2>1, <2>2, <3>1 DEF KubeBasis, PhaseOK
    <3>. QED BY <3>2 DEF Awaits
  <2>3. CASE i # created + 1
    <3>1. i \in 1 .. created
      BY <2>1, <2>3
    <3>2. i \in Instance
      BY <3>1, CreatedFacts
    <3>3. labels'[i] = labels[i]
      BY <1>1, <1>4, <1>8, <2>3, <3>2 DEF KubeTypes
    <3>. QED BY <1>6, <3>1, <3>3
  <2>. QED BY <2>2, <2>3
<1>. QED BY <1>5, <1>7, <1>8

LEMMA InitWaits == Init => WaitsOK
<1>. SUFFICES ASSUME Init PROVE WaitsOK
  OBVIOUS
<1>1. 1 .. created = {} /\ \A c \in Cli : cli[c].at = "idle" /\ cli[c].watching = {}
  BY DEF Init, Idle
<1>. QED BY <1>1 DEF WaitsOK, DeletionOK, WaitingOK, At

LEMMA StutterKeepsWaits ==
  ASSUME WaitsOK, UNCHANGED vars
  PROVE  WaitsOK'
BY DEF vars, cluster, bounds, WaitsOK, DeletionOK, Awaits, WaitingOK, Docker, There,
    At, findReadyPod,
       findReadyPodForDeployment, findReadyPodForStatefulSet

\* No command waits for what has been: it is told when the pod it awaits is ready, its
\* watches are of objects that are there, and a deletion with --wait that is over has
\* left nothing of a complete instance that no other command worked on.
THEOREM WaitsEndCorrect == Spec => []WaitsEnd
<1>1. Init => KubeBasis /\ HistoryOK /\ WaitsOK
  BY InitBasis, InitHistory, InitWaits
<1>2. KubeBasis /\ HistoryOK /\ WaitsOK /\ [Next]_vars => (KubeBasis /\ HistoryOK /\ WaitsOK)'
  <2>1. ASSUME KubeBasis, HistoryOK, WaitsOK, Next PROVE WaitsOK'
    BY <2>1, NextDoes, StepKeepsWaiting, StepKeepsDeletion DEF WaitsOK
  <2>. QED BY <2>1, NextDoes, StepKeepsBasis, StepKeepsHistory, StutterKeepsBasis,
              StutterKeepsHistory, StutterKeepsWaits
<1>3. KubeBasis /\ HistoryOK /\ WaitsOK => WaitsEnd
  <2>. SUFFICES ASSUME KubeBasis, WaitsOK, NEW c \in Cli, At(c, "done"), cli[c].wait,
                       NEW i \in 1 .. MaxInstances, cli[c].phase[i] = "over", i \notin hurt,
                       labels[i].env \notin overlapped
                PROVE  \A k \in Kind : ~There(i, k)
    BY DEF WaitsEnd, WaitsOK, WaitingOK
  <2>1. KubeTypes /\ ClusterOK /\ PhaseOK(c)
    BY DEF KubeBasis
  <2>2. i \in Instance /\ i \in Nat /\ created \in Nat /\ i > 0
    BY <2>1, KubeAssumption DEF Instance, KubeTypes
  <2>3. i \in 1 .. created
    BY <2>1, <2>2 DEF PhaseOK, ClusterOK
  <2>. QED BY <2>3 DEF WaitsOK, DeletionOK, Awaits
<1>. QED BY <1>1, <1>2, <1>3, PTL DEF Spec
=============================================================================
