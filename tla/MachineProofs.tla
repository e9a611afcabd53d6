---------------------------- MODULE MachineProofs ----------------------------
(****************************************************************************)
(* Proofs about MachineLifecycle, for any commands, environments, sizes and *)
(* bounds.                                                                  *)
(*                                                                          *)
(* However commands interleave, fail and are killed, the machine of an up   *)
(* that is ready is usable (ReadyUsable): a machine lives once, keeps its   *)
(* size, never loses a script that has run or its own metadata, and is      *)
(* completed by the command that has made it or by none.  The stored        *)
(* private key opens every machine (KeyUsable), and an environment has one  *)
(* machine at most (OneMachinePerEnv), but for the windows that they name.  *)
(*                                                                          *)
(* A command leaves nothing of its session with its machine (LeavesNothing).*)
(****************************************************************************)
EXTENDS MachineLifecycle, MachineSession, FiniteSetTheorems, TLAPS

\* up may still create a machine.
Creating == {"check", "replace", "plan", "key", "createKey", "writeKey", "create"}

Pending == {c \in Cli : cli[c].at \in Creating}

\* up works on its machine.
Working == {"connect", "customize", "verify", "finalize", "ready"}

Field == {"at", "env", "bundle", "machine", "snapshot", "origin", "key", "todo", "listed"}

\* What a command knows at each stage.
CommandOK(c) ==
  /\ DOMAIN cli[c] = Field
  /\ cli[c].at \in Stage
  /\ cli[c].env \in Env \cup {None}
  /\ cli[c].bundle \in Bundle \cup {None}
  /\ cli[c].machine \in Id \cup {None}
  /\ cli[c].snapshot \in Id \cup {None}
  /\ cli[c].origin \in Origin \cup {None}
  /\ cli[c].key \in KeyId \cup {None}
  /\ cli[c].todo \subseteq Resource \cup Task
  /\ cli[c].listed \subseteq Resource
  /\ cli[c].at \in Creating => cli[c].env \in Env
  /\ cli[c].at \in {"replace"} \cup Working => cli[c].machine \in Id
  /\ cli[c].at \in Working => cli[c].origin \in Origin
  /\ cli[c].at \in {"key", "createKey", "writeKey", "create"} =>
       cli[c].origin = IF cli[c].snapshot = None THEN "new-from-scratch"
                       ELSE "new-from-snapshot"
  /\ cli[c].at \in {"writeKey", "create"} => cli[c].key \in KeyId
  /\ cli[c].machine # None => cli[c].machine <= created
  /\ cli[c].at = "finalize" /\ cli[c].origin = "existing" => cli[c].todo = {}

CloudOK ==
  /\ machines \in [Id -> Machine \cup {None}]
  /\ snapshots \in [Id -> Snapshot \cup {None}]
  /\ created \in 0 .. MaxMachines
  /\ \A m \in Id : machines[m] # None => m <= created
  /\ \A m \in Id : snapshots[m] # None => snapshots[m].scripts = Scripts

\* There is room for the machines that may still be created.
RoomOK == created + Cardinality(Pending) <= MaxMachines

\* What up has established about a machine that it has made itself.
MadeOK(c) ==
  /\ cli[c].at = "connect" =>
       Instance(c).scripts = IF cli[c].origin = "new-from-scratch" THEN 0 ELSE Scripts
  /\ cli[c].at \in {"verify", "finalize", "ready"} => Instance(c).scripts = Scripts
  /\ (cli[c].at = "ready" \/ (cli[c].at = "finalize" /\ "metadata" \notin cli[c].todo)) =>
       Instance(c).metadata = cli[c].machine

\* What it has established about the machine that it works on.
WorkOK(c) ==
  (cli[c].at \in Working /\ Instance(c) # None) =>
    /\ cli[c].bundle # None => Instance(c).bundle = cli[c].bundle
    /\ cli[c].at \in {"finalize", "ready"} => HasDocker(Instance(c).scripts)
    /\ cli[c].at = "customize" => cli[c].origin # "existing" /\ Instance(c).scripts < Scripts
    /\ cli[c].origin # "existing" => MadeOK(c)

\* A machine has one maker.
MakersOK ==
  \A c, d \in Cli : (Making(c) /\ Making(d) /\ cli[c].machine = cli[d].machine) => c = d

\* One that is not complete is at work, or has stopped.
HalfOK ==
  \A m \in Id : machines[m] # None =>
    Complete(m) \/ m \in halfway \/ \E d \in Cli : Making(d) /\ cli[d].machine = m

\* What the variables outside of the commands and the machines are.
RestOK ==
  /\ pairs \subseteq KeyId /\ stored \in KeyId \cup {None}
  /\ started \in 0 .. MaxCommands /\ faults \in 0 .. MaxFaults
  /\ halfway \subseteq Id /\ mislaid \subseteq KeyId /\ crowded \subseteq Env

\* The inductive invariant.
LifecycleInv ==
  /\ DOMAIN cli = Cli
  /\ \A c \in Cli : CommandOK(c)
  /\ CloudOK /\ RestOK /\ RoomOK
  /\ \A c \in Cli : WorkOK(c)
  /\ MakersOK /\ HalfOK

-----------------------------------------------------------------------------
(* One command takes a step *)

\* The step is one of command c, of which the fields in F may change.
Alters(c, F) ==
  /\ DOMAIN cli' = Cli
  /\ \A d \in Cli \ {c} : cli'[d] = cli[d]
  /\ DOMAIN cli'[c] = Field
  /\ \A f \in Field \ F : cli'[c][f] = cli[c][f]

\* A machine lives once, keeps its size, and loses neither a script that has run
\* nor its own metadata.
Grows(m) ==
  machines'[m] # None =>
    /\ machines[m] # None
    /\ machines'[m].bundle = machines[m].bundle
    /\ machines[m].scripts <= machines'[m].scripts
    /\ machines[m].metadata = m => machines'[m].metadata = m

\* It does so, and no script runs.
Evolves(m) ==
  machines'[m] # None =>
    /\ machines[m] # None
    /\ machines'[m].bundle = machines[m].bundle
    /\ machines'[m].scripts = machines[m].scripts
    /\ machines[m].metadata = m => machines'[m].metadata = m

\* The command goes on with the machine that it makes, completes it, or gives it up.
Carries(c) ==
  /\ halfway \subseteq halfway'
  /\ Making(c)' => \/ Making(c) /\ cli'[c].machine = cli[c].machine
                   \/ ~(cli'[c].machine <= created)
  /\ \A m \in Id : (Making(c) /\ cli[c].machine = m /\ machines'[m] # None) =>
       Complete(m)' \/ m \in halfway' \/ (Making(c)' /\ cli'[c].machine = m)
  /\ \A m \in Id : (machines'[m] # None /\ ~(m <= created)) =>
       Making(c)' /\ cli'[c].machine = m

LEMMA InvParts ==
  ASSUME LifecycleInv, NEW c \in Cli
  PROVE  /\ CommandOK(c) /\ WorkOK(c) /\ CloudOK /\ RestOK /\ RoomOK
         /\ DOMAIN cli = Cli /\ DOMAIN cli[c] = Field
BY DEF LifecycleInv, CommandOK

LEMMA MachineFacts ==
  ASSUME CloudOK, NEW m \in Id, machines[m] # None
  PROVE  /\ machines[m] \in Machine /\ machines[m].scripts \in 0 .. Scripts
         /\ machines[m].scripts \in Nat /\ m <= created
BY DEF CloudOK, Machine, Scripts

LEMMA PendingFinite == IsFiniteSet(Pending) /\ Cardinality(Pending) \in Nat
<1>1. Pending \in SUBSET Cli
  BY DEF Pending
<1> QED
  BY <1>1, LifecycleAssumption, FS_Subset, FS_CardinalityType

LEMMA FewerPending ==
  ASSUME LifecycleInv, Pending' \subseteq Pending, created' = created
  PROVE  RoomOK'
<1>1. PICK P, Q : P = Pending /\ Q = Pending'
  OBVIOUS
<1>2. IsFiniteSet(P) /\ Cardinality(P) \in Nat
  BY <1>1, PendingFinite
<1>3. IsFiniteSet(Q) /\ Cardinality(Q) \in Nat /\ Cardinality(Q) <= Cardinality(P)
  BY <1>1, <1>2, FS_Subset, FS_CardinalityType
<1>4. created + Cardinality(P) <= MaxMachines /\ created \in Nat
  BY <1>1 DEF LifecycleInv, RoomOK, CloudOK
<1> QED
  BY <1>1, <1>2, <1>3, <1>4, LifecycleAssumption DEF RoomOK

LEMMA EvolvesGrows ==
  ASSUME CloudOK, NEW m \in Id, Evolves(m)
  PROVE  Grows(m)
BY MachineFacts DEF Evolves, Grows

\* What the other commands know stays true.
LEMMA OthersStay ==
  ASSUME LifecycleInv, NEW d \in Cli, cli'[d] = cli[d],
         CloudOK', created <= created', \A m \in Id : m <= created => Grows(m),
         (Making(d) /\ machines'[cli[d].machine] # None) =>
           machines'[cli[d].machine].scripts = machines[cli[d].machine].scripts
  PROVE  CommandOK(d)' /\ WorkOK(d)'
<1>1. CommandOK(d) /\ WorkOK(d) /\ created \in 0 .. MaxMachines /\ created' \in 0 .. MaxMachines
      /\ CloudOK
  BY DEF LifecycleInv, CloudOK
<1>2. CommandOK(d)'
  <2>1. cli[d].machine # None => cli[d].machine <= created'
    BY <1>1, LifecycleAssumption DEF CommandOK, Id
  <2> QED
    BY <1>1, <2>1 DEF CommandOK
<1>3. WorkOK(d)'
  <2>1. SUFFICES ASSUME cli[d].at \in Working, machines'[cli[d].machine] # None
                 PROVE  WorkOK(d)'
    BY DEF WorkOK, Instance
  <2>2. PICK m \in Id : m = cli[d].machine /\ m <= created
    BY <1>1, <2>1, LifecycleAssumption DEF CommandOK, Id
  <2>3. /\ machines[m] # None /\ machines'[m] # None
        /\ machines'[m].bundle = machines[m].bundle
        /\ machines[m].scripts <= machines'[m].scripts
        /\ machines[m].metadata = m => machines'[m].metadata = m
        /\ Making(d) => machines'[m].scripts = machines[m].scripts
    BY <2>1, <2>2 DEF Grows
  <2>4. /\ machines[m].scripts \in 0 .. Scripts /\ machines'[m].scripts \in 0 .. Scripts
    <3>1. machines[m] \in Machine /\ machines'[m] \in Machine
      BY <1>1, <2>3 DEF CloudOK
    <3> QED
      BY <3>1 DEF Machine
  <2>5. /\ Instance(d) = machines[m] /\ Instance(d)' = machines'[m]
    BY <2>2 DEF Instance
  <2>6. /\ HasDocker(machines[m].scripts) => HasDocker(machines'[m].scripts)
        /\ machines[m].scripts = Scripts => machines'[m].scripts = Scripts
    BY <2>3, <2>4 DEF HasDocker, Scripts
  <2>7. cli[d].origin # "existing" /\ cli[d].at # "ready" => Making(d)
    BY <2>1 DEF Making, Working
  <2>8. cli[d].origin # "existing" => MadeOK(d)'
    BY <1>1, <2>1, <2>2, <2>3, <2>5, <2>6, <2>7 DEF WorkOK, MadeOK
  <2> QED
    BY <1>1, <2>1, <2>3, <2>5, <2>6, <2>7, <2>8 DEF WorkOK
<1> QED
  BY <1>2, <1>3

\* Machines that are complete, or are made by others, stay so.
LEMMA MakersStay ==
  ASSUME LifecycleInv, NEW c \in Cli, NEW F, Alters(c, F), Carries(c), CloudOK',
         \A m \in Id : m <= created => Grows(m)
  PROVE  MakersOK' /\ HalfOK'
<1>1. /\ \A d \in Cli \ {c} : cli'[d] = cli[d] /\ (Making(d)' <=> Making(d))
      /\ CloudOK /\ MakersOK /\ HalfOK
  BY DEF Alters, LifecycleInv, Making
<1>2. \A d \in Cli : Making(d) => cli[d].machine \in Id /\ cli[d].machine <= created
  BY LifecycleAssumption DEF LifecycleInv, CommandOK, Making, Working, Id
<1>3. MakersOK'
  <2>1. ASSUME NEW d \in Cli \ {c}, Making(c)', Making(d)' PROVE cli'[c].machine # cli'[d].machine
    <3>1. Making(d) /\ cli'[d].machine = cli[d].machine
      BY <1>1, <2>1
    <3>2. CASE Making(c) /\ cli'[c].machine = cli[c].machine
      BY <1>1, <3>1, <3>2 DEF MakersOK
    <3>3. CASE ~(cli'[c].machine <= created)
      BY <1>2, <3>1, <3>3
    <3> QED
      BY <2>1, <3>2, <3>3 DEF Carries
  <2>2. \A d, e \in Cli \ {c} :
          (Making(d)' /\ Making(e)' /\ cli'[d].machine = cli'[e].machine) => d = e
    BY <1>1 DEF MakersOK
  <2> QED
    BY <2>1, <2>2 DEF MakersOK
<1>4. ASSUME NEW m \in Id, machines'[m] # None
      PROVE  Complete(m)' \/ m \in halfway' \/ \E d \in Cli : Making(d)' /\ cli'[d].machine = m
  <2>1. CASE ~(m <= created)
    BY <1>4, <2>1 DEF Carries
  <2>2. CASE m <= created
    <3>1. machines[m] # None /\ Grows(m)
      BY <1>4, <2>2 DEF Grows
    <3>2. CASE Complete(m)
      <4>1. machines'[m].scripts \in 0 .. Scripts
        BY <1>4 DEF CloudOK, Machine
      <4> QED
        BY <1>4, <3>1, <3>2, <4>1 DEF Complete, Grows, Scripts
    <3>3. CASE m \in halfway
      BY <3>3 DEF Carries
    <3>4. ASSUME NEW d \in Cli, Making(d), cli[d].machine = m
          PROVE  Complete(m)' \/ m \in halfway' \/ \E e \in Cli : Making(e)' /\ cli'[e].machine = m
      <4>1. CASE d = c
        BY <1>4, <3>4, <4>1 DEF Carries
      <4>2. CASE d # c
        BY <1>1, <3>4, <4>2
      <4> QED
        BY <4>1, <4>2
    <3> QED
      BY <1>1, <3>1, <3>2, <3>3, <3>4 DEF HalfOK
  <2> QED
    BY <2>1, <2>2
<1>5. HalfOK'
  BY <1>4 DEF HalfOK
<1> QED
  BY <1>3, <1>5

\* A step of one command keeps the invariant when it keeps what the command
\* knows, changes machines only as machines evolve, and runs scripts only on the
\* machine that it makes.
LEMMA CommandStepKeepsInv ==
  ASSUME LifecycleInv, NEW c \in Cli, NEW F, Alters(c, F),
         CommandOK(c)', WorkOK(c)', CloudOK', RestOK', RoomOK', Carries(c),
         created <= created',
         \A m \in Id : m <= created =>
           Evolves(m) \/ (Grows(m) /\ Making(c) /\ cli[c].machine = m)
  PROVE  LifecycleInv'
<1>1. CloudOK /\ MakersOK
  BY DEF LifecycleInv
<1>2. \A m \in Id : m <= created => Grows(m)
  BY <1>1, EvolvesGrows
<1>3. ASSUME NEW d \in Cli \ {c} PROVE CommandOK(d)' /\ WorkOK(d)'
  <2>1. CommandOK(d) /\ cli'[d] = cli[d]
    BY DEF LifecycleInv, Alters
  <2>2. ASSUME Making(d), machines'[cli[d].machine] # None
        PROVE  machines'[cli[d].machine].scripts = machines[cli[d].machine].scripts
    <3>1. PICK m \in Id : m = cli[d].machine /\ m <= created
      BY <2>1, <2>2, LifecycleAssumption DEF CommandOK, Making, Working, Id
    <3>2. ~(Making(c) /\ cli[c].machine = m)
      BY <1>1, <2>2, <3>1 DEF MakersOK
    <3> QED
      BY <2>2, <3>1, <3>2 DEF Evolves
  <2> QED
    BY <1>2, <2>1, <2>2, OthersStay
<1>4. MakersOK' /\ HalfOK'
  BY <1>2, MakersStay
<1> QED
  BY <1>3, <1>4 DEF LifecycleInv, Alters

\* A command that makes no machine, or goes on with the one it makes.
LEMMA GoesOn ==
  ASSUME NEW c \in Cli, CloudOK', created' = created, UNCHANGED halfway,
         Making(c)' <=> Making(c), Making(c) => cli'[c].machine = cli[c].machine
  PROVE  Carries(c)
BY DEF Carries, CloudOK

\* A step that does not touch the cloud.
LEMMA PlainStepKeepsInv ==
  ASSUME LifecycleInv, NEW c \in Cli, NEW F, Alters(c, F), UNCHANGED cloud,
         CommandOK(c)', WorkOK(c)', RestOK', Carries(c),
         cli'[c].at \in Creating => cli[c].at \in Creating
  PROVE  LifecycleInv'
<1>1. CloudOK' /\ created' = created /\ created \in 0 .. MaxMachines
  BY DEF LifecycleInv, CloudOK, cloud
<1>2. \A m \in Id : Evolves(m)
  BY DEF cloud, Evolves
<1>3. Pending' \subseteq Pending
  BY DEF Pending, Alters
<1>4. RoomOK'
  BY <1>1, <1>3, FewerPending
<1>5. created <= created'
  BY <1>1, LifecycleAssumption
<1> QED
  BY <1>1, <1>2, <1>4, <1>5, CommandStepKeepsInv

LEMMA GoSteps ==
  ASSUME LifecycleInv, NEW c \in Cli, NEW stage, Go(c, stage)
  PROVE  Alters(c, {"at"}) /\ cli'[c].at = stage
BY InvParts DEF Go, Alters, Field

LEMMA StopSteps ==
  ASSUME LifecycleInv, NEW c \in Cli, Stop(c)
  PROVE  Alters(c, Field) /\ CommandOK(c)' /\ WorkOK(c)' /\ cli'[c].at = "idle"
<1>1. cli'[c] = Idle /\ DOMAIN cli' = Cli /\ \A d \in Cli \ {c} : cli'[d] = cli[d]
  BY InvParts DEF Stop
<1>2. DOMAIN Idle = Field
  BY DEF Idle, Field
<1> QED
  BY <1>1, <1>2 DEF Alters, CommandOK, WorkOK, Idle, Stage, Creating, Working

\* A command ends, whatever it did; the machine that it was making is marked.
LEMMA StopKeepsInv ==
  ASSUME LifecycleInv, NEW c \in Cli, Stop(c), UNCHANGED cloud, RestOK',
         halfway \subseteq halfway', Making(c) => cli[c].machine \in halfway'
  PROVE  LifecycleInv'
<1>1. CloudOK' /\ created' = created
  BY DEF LifecycleInv, CloudOK, cloud
<1>2. ~Making(c)'
  BY StopSteps DEF Making
<1>3. Carries(c)
  BY <1>1, <1>2 DEF Carries, CloudOK
<1> QED
  BY <1>3, StopSteps, PlainStepKeepsInv DEF Creating

-----------------------------------------------------------------------------
(* Commands start and end *)

LEMMA StartKeepsInv ==
  ASSUME LifecycleInv, NEW c \in Cli,
         Purge(c) \/ \E e \in Env : Down(c, e) \/ \E b \in Wanted : Up(c, e, b)
  PROVE  LifecycleInv'
<1>1. PICK job :
        /\ Start(c, job)
        /\ DOMAIN job = Field
        /\ job.env \in Env \cup {None} /\ job.bundle \in Bundle \cup {None}
        /\ job.machine = None /\ job.snapshot = None /\ job.origin = None
        /\ job.key = None /\ job.todo = {} /\ job.listed = {}
        /\ \/ job.at \in {"find", "list"}
           \/ job.at = "check" /\ job.env \in Env /\ Room
  <2>0. DOMAIN Idle = Field /\ Idle.env = None /\ Idle.bundle = None /\ Idle.machine = None
        /\ Idle.snapshot = None /\ Idle.origin = None /\ Idle.key = None
        /\ Idle.todo = {} /\ Idle.listed = {}
    BY DEF Idle, Field
  <2>1. CASE Purge(c)
    <3> DEFINE job == [Idle EXCEPT !.at = "list"]
    <3>1. Start(c, job)
      BY <2>1 DEF Purge
    <3> QED
      BY <2>0, <3>1 DEF Field
  <2>2. ASSUME NEW e \in Env, Down(c, e)
        PROVE  \E job : /\ Start(c, job)
                        /\ DOMAIN job = Field
                        /\ job.env \in Env \cup {None} /\ job.bundle \in Bundle \cup {None}
                        /\ job.machine = None /\ job.snapshot = None /\ job.origin = None
                        /\ job.key = None /\ job.todo = {} /\ job.listed = {}
                        /\ job.at \in {"find", "list"}
    <3> DEFINE job == [Idle EXCEPT !.at = "find", !.env = e]
    <3>1. Start(c, job)
      BY <2>2 DEF Down
    <3>2. /\ DOMAIN job = Field /\ job.env = e /\ job.bundle = None
          /\ job.machine = None /\ job.snapshot = None /\ job.origin = None
          /\ job.key = None /\ job.todo = {} /\ job.listed = {} /\ job.at = "find"
      BY <2>0 DEF Field
    <3> HIDE DEF job
    <3> QED
      BY <3>1, <3>2
  <2>3. ASSUME NEW e \in Env, NEW b \in Wanted, Up(c, e, b)
        PROVE  \E job : /\ Start(c, job)
                        /\ DOMAIN job = Field
                        /\ job.env \in Env \cup {None} /\ job.bundle \in Bundle \cup {None}
                        /\ job.machine = None /\ job.snapshot = None /\ job.origin = None
                        /\ job.key = None /\ job.todo = {} /\ job.listed = {}
                        /\ job.at = "check" /\ job.env \in Env /\ Room
    <3> DEFINE job == [Idle EXCEPT !.at = "check", !.env = e, !.bundle = b]
    <3>1. Start(c, job) /\ Room /\ b \in Bundle \cup {None}
      BY <2>3, LifecycleAssumption DEF Up
    <3> QED
      BY <2>0, <3>1 DEF Field
  <2> QED
    BY <2>1, <2>2, <2>3
<1>2. /\ cli' = [cli EXCEPT ![c] = job] /\ UNCHANGED <<cloud, keys, faults, history>>
      /\ started' = started + 1 /\ started < MaxCommands /\ cli[c].at = "idle"
  BY <1>1 DEF Start, At
<1>3. Alters(c, Field) /\ cli'[c] = job
  BY <1>1, <1>2, InvParts DEF Alters
<1>4. RestOK'
  BY <1>2, LifecycleAssumption DEF LifecycleInv, RestOK, keys, history
<1>5. CommandOK(c)'
  BY <1>1, <1>3 DEF CommandOK, Stage, Creating, Working
<1>6. WorkOK(c)'
  BY <1>1, <1>3 DEF WorkOK, Working
<1>6a. Carries(c)
  <2>1. CloudOK' /\ created' = created /\ UNCHANGED halfway
    BY <1>2 DEF LifecycleInv, CloudOK, cloud, history
  <2>2. ~Making(c) /\ ~Making(c)'
    BY <1>1, <1>2, <1>3 DEF Making
  <2> QED
    BY <2>1, <2>2, GoesOn
<1>7. CASE job.at \in {"find", "list"}
  BY <1>2, <1>3, <1>4, <1>5, <1>6, <1>6a, <1>7, PlainStepKeepsInv DEF Creating
<1>8. CASE job.at = "check" /\ Room
  <2>1. created' = created /\ created \in 0 .. MaxMachines /\ CloudOK' /\ UNCHANGED machines
    BY <1>2 DEF cloud, LifecycleInv, CloudOK
  <2>2. Pending' = Pending \cup {c} /\ c \notin Pending
    BY <1>2, <1>3, <1>8 DEF Pending, Alters, Creating
  <2>3. PICK P, A : P = Pending /\ A = {d \in Cli : cli[d].env # None}
    OBVIOUS
  <2>4. IsFiniteSet(P) /\ Cardinality(P) \in Nat
    BY <2>3, PendingFinite
  <2>5. IsFiniteSet(A) /\ Cardinality(A) \in Nat
    <3>1. A \in SUBSET Cli
      BY <2>3
    <3> QED
      BY <3>1, LifecycleAssumption, FS_Subset, FS_CardinalityType
  <2>6. P \in SUBSET A
    <3>1. \A d \in Cli : cli[d].at \in Creating => cli[d].env # None
      BY InvParts, LifecycleAssumption DEF CommandOK
    <3> QED
      BY <2>3, <3>1 DEF Pending
  <2>7. Cardinality(P) <= Cardinality(A)
    BY <2>5, <2>6, FS_Subset
  <2>8. Cardinality(P \cup {c}) = Cardinality(P) + 1
    BY <2>2, <2>3, <2>4, FS_AddElement
  <2>9. created + Cardinality(A) < MaxMachines
    BY <1>8, <2>3 DEF Room
  <2>10. created + Cardinality(P \cup {c}) <= MaxMachines
    BY <2>1, <2>4, <2>5, <2>7, <2>8, <2>9, LifecycleAssumption
  <2>11. RoomOK'
    BY <2>1, <2>2, <2>3, <2>10 DEF RoomOK
  <2>12. (\A m \in Id : Evolves(m)) /\ created <= created'
    BY <2>1, LifecycleAssumption DEF Evolves
  <2> QED
    BY <1>3, <1>4, <1>5, <1>6, <1>6a, <2>1, <2>11, <2>12, CommandStepKeepsInv
<1> QED
  BY <1>1, <1>7, <1>8

LEMMA EndKeepsInv ==
  ASSUME LifecycleInv, NEW c \in Cli,
         Fault(c) \/ Finish(c) \/ Throw(c) \/ DoneStarted(c)
  PROVE  LifecycleInv'
<1>1. CommandOK(c) /\ RestOK
  BY InvParts
<1>2. CASE Fault(c) \/ Throw(c)
  <2>1. StopShort(c) /\ started' = started /\ faults' \in 0 .. MaxFaults
    BY <1>1, <1>2, LifecycleAssumption DEF Fault, Throw, bounds, RestOK
  <2>2. Stop(c) /\ UNCHANGED <<cloud, keys, crowded>>
    BY <2>1 DEF StopShort
  <2>3. /\ halfway \subseteq halfway' /\ halfway' \subseteq Id
        /\ Making(c) => cli[c].machine \in halfway'
    BY <1>1, <2>1 DEF StopShort, RestOK, CommandOK, Making, Working
  <2>4. mislaid' \subseteq KeyId
    BY <1>1, <2>1 DEF StopShort, RestOK, CommandOK, At
  <2>5. RestOK'
    BY <1>1, <2>1, <2>2, <2>3, <2>4 DEF RestOK, keys
  <2> QED
    BY <2>2, <2>3, <2>5, StopKeepsInv
<1>3. CASE Finish(c) \/ DoneStarted(c)
  <2>1. Stop(c) /\ UNCHANGED <<cloud, keys, rest>> /\ ~Making(c)
    BY <1>3 DEF Finish, DoneStarted, At, Making
  <2>2. RestOK' /\ UNCHANGED halfway
    BY <1>1, <2>1 DEF RestOK, keys, rest, bounds, history
  <2> QED
    BY <2>1, <2>2, StopKeepsInv
<1> QED
  BY <1>2, <1>3

-----------------------------------------------------------------------------
(* The steps of up *)


LEMMA CheckKeepsInv ==
  ASSUME LifecycleInv, NEW c \in Cli, CheckMachine(c)
  PROVE  LifecycleInv'
<1>1. /\ CommandOK(c) /\ CloudOK /\ RestOK /\ UNCHANGED <<cloud, keys, bounds, halfway, mislaid>>
      /\ cli[c].at = "check" /\ cli[c].env \in Env
  BY InvParts DEF CheckMachine, At, CommandOK, Creating
<1>2. RestOK' /\ CloudOK' /\ created' = created
  <2>1. crowded' \subseteq Env
    BY <1>1 DEF CheckMachine, Decides, RestOK
  <2> QED
    BY <1>1, <2>1 DEF RestOK, keys, bounds, CloudOK, cloud
<1>3. CASE Go(c, "plan")
  <2>1. Alters(c, {"at"}) /\ cli'[c].at = "plan"
    BY <1>3, GoSteps
  <2>2. CommandOK(c)' /\ WorkOK(c)'
    BY <1>1, <2>1 DEF CommandOK, WorkOK, Alters, Field, Creating, Working, Stage, cloud
  <2>3. Carries(c)
    BY <1>1, <1>2, <2>1, GoesOn DEF Making
  <2> QED
    BY <1>1, <1>2, <2>1, <2>2, <2>3, PlainStepKeepsInv DEF Creating
<1>4. ASSUME NEW m \in Found(cli[c].env),
             cli' = [cli EXCEPT ![c].machine = m, ![c].origin = "existing",
                       ![c].at = IF SpecDiff(c, m) THEN "replace" ELSE "connect"]
      PROVE  LifecycleInv'
  <2>1. m \in Id /\ machines[m] # None /\ m <= created
    BY <1>1 DEF Found, CloudOK
  <2>2. /\ Alters(c, {"machine", "origin", "at"})
        /\ cli'[c].machine = m /\ cli'[c].origin = "existing"
        /\ cli'[c].at = IF SpecDiff(c, m) THEN "replace" ELSE "connect"
    BY <1>4, InvParts DEF Alters, Field
  <2>3. CommandOK(c)'
    BY <1>1, <2>1, <2>2, LifecycleAssumption
    DEF CommandOK, Alters, Field, Creating, Working, Stage, Origin, cloud, Id
  <2>4. WorkOK(c)'
    BY <1>1, <2>1, <2>2 DEF WorkOK, Alters, Field, Working, SpecDiff, Instance, cloud
  <2>5. Carries(c)
    BY <1>1, <1>2, <2>2, GoesOn DEF Making
  <2> QED
    BY <1>1, <1>2, <2>2, <2>3, <2>4, <2>5, PlainStepKeepsInv DEF Creating
<1> QED
  BY <1>3, <1>4 DEF CheckMachine

\* A deletion that is started leaves everything but the status.
LEMMA DeletingMachine ==
  ASSUME CloudOK, NEW m \in Id, machines' = Deleting(machines, m)
  PROVE  /\ machines' \in [Id -> Machine \cup {None}]
         /\ \A x \in Id : machines'[x] # None =>
              /\ machines[x] # None
              /\ machines'[x].env = machines[x].env /\ machines'[x].key = machines[x].key
              /\ machines'[x].bundle = machines[x].bundle
              /\ machines'[x].scripts = machines[x].scripts
              /\ machines'[x].metadata = machines[x].metadata
              /\ IsUp(x)' => x # m /\ IsUp(x)
         /\ \A x \in Id : Evolves(x)
<1>1. CASE machines[m] = None
  BY <1>1 DEF Deleting, CloudOK, Evolves, IsUp
<1>2. CASE machines[m] # None
  <2>1. machines[m] \in Machine
    BY <1>2 DEF CloudOK
  <2>2. PICK d \in Machine : d = [machines[m] EXCEPT !.status = "deleting"]
    BY <2>1 DEF Machine
  <2>3. /\ d.env = machines[m].env /\ d.key = machines[m].key
        /\ d.bundle = machines[m].bundle /\ d.scripts = machines[m].scripts
        /\ d.metadata = machines[m].metadata /\ d.status = "deleting"
    BY <2>1, <2>2 DEF Machine
  <2>4. machines' = [machines EXCEPT ![m] = d]
    BY <1>2, <2>2 DEF Deleting
  <2>5. \A x \in Id : machines'[x] = IF x = m THEN d ELSE machines[x]
    BY <2>4 DEF CloudOK
  <2>6. machines' \in [Id -> Machine \cup {None}]
    BY <2>4 DEF CloudOK
  <2> QED
    BY <1>2, <2>3, <2>5, <2>6 DEF Evolves, IsUp
<1> QED
  BY <1>1, <1>2

LEMMA DeletingSnapshot ==
  ASSUME CloudOK, NEW m \in Id, snapshots' = Deleting(snapshots, m)
  PROVE  /\ snapshots' \in [Id -> Snapshot \cup {None}]
         /\ \A x \in Id : snapshots'[x] # None => snapshots'[x].scripts = Scripts
<1>1. CASE snapshots[m] = None
  BY <1>1 DEF Deleting, CloudOK
<1>2. CASE snapshots[m] # None
  <2>1. snapshots[m] \in Snapshot /\ snapshots[m].scripts = Scripts
    BY <1>2 DEF CloudOK
  <2>2. PICK new \in Snapshot : new = [snapshots[m] EXCEPT !.status = "deleting"]
    BY <2>1 DEF Snapshot
  <2>3. new.scripts = Scripts
    BY <2>1, <2>2 DEF Snapshot
  <2> QED
    BY <1>2, <2>2, <2>3 DEF Deleting, CloudOK
<1> QED
  BY <1>1, <1>2

LEMMA DeleteOldKeepsInv ==
  ASSUME LifecycleInv, NEW c \in Cli, DeleteOld(c)
  PROVE  LifecycleInv'
<1>1. CommandOK(c) /\ CloudOK /\ cli[c].at = "replace" /\ created' = created
      /\ UNCHANGED snapshots
  BY InvParts DEF DeleteOld, At
<1>2. Alters(c, {"at"}) /\ cli'[c].at = "plan"
  BY GoSteps DEF DeleteOld
<1>3. PICK m \in Id : m = cli[c].machine
  BY <1>1 DEF CommandOK
<1>4. machines' = Deleting(machines, m)
  BY <1>3 DEF DeleteOld
<1>5. machines' \in [Id -> Machine \cup {None}] /\ \A x \in Id : Evolves(x)
  BY <1>1, <1>4, DeletingMachine
<1>6. CloudOK'
  BY <1>1, <1>5 DEF CloudOK, Evolves
<1>7. RestOK' /\ created <= created'
  BY <1>1, InvParts, LifecycleAssumption
  DEF DeleteOld, RestOK, keys, rest, bounds, history, CloudOK
<1>8. CommandOK(c)' /\ WorkOK(c)'
  BY <1>1, <1>2 DEF CommandOK, WorkOK, Alters, Field, Creating, Working, Stage
<1>9. RoomOK'
  <2>1. Pending' \subseteq Pending
    BY <1>1, <1>2 DEF Pending, Alters, Creating
  <2> QED
    BY <1>1, <2>1, FewerPending
<1>10. Carries(c)
  BY <1>1, <1>2, <1>6, GoesOn DEF Making, DeleteOld, rest, history
<1> QED
  BY <1>2, <1>5, <1>6, <1>7, <1>8, <1>9, <1>10, CommandStepKeepsInv

LEMMA PlanKeepsInv ==
  ASSUME LifecycleInv, NEW c \in Cli, PlanMachine(c)
  PROVE  LifecycleInv'
<1>1. CommandOK(c) /\ RestOK' /\ UNCHANGED cloud /\ cli[c].at = "plan"
  BY InvParts DEF PlanMachine, At, LifecycleInv, RestOK, keys, rest, bounds, history
<1>2. PICK s \in IF Suitable(c) = {} THEN {None} ELSE Suitable(c) :
        LET have == s # None /\ snapshots[s].status = "available" IN
        cli' = [cli EXCEPT ![c].at = "key",
                  ![c].snapshot = IF have THEN s ELSE None,
                  ![c].origin = IF have THEN "new-from-snapshot" ELSE "new-from-scratch"]
  BY DEF PlanMachine
<1>3. s \in Id \cup {None}
  BY <1>2 DEF Suitable
<1>4. PICK snap \in Id \cup {None}, orig \in {"new-from-snapshot", "new-from-scratch"} :
        /\ cli' = [cli EXCEPT ![c].at = "key", ![c].snapshot = snap, ![c].origin = orig]
        /\ orig = IF snap = None THEN "new-from-scratch" ELSE "new-from-snapshot"
  BY <1>2, <1>3
<1>5. /\ Alters(c, {"at", "snapshot", "origin"}) /\ cli'[c].at = "key"
      /\ cli'[c].snapshot = snap /\ cli'[c].origin = orig
  BY <1>4, InvParts DEF Alters, Field
<1>6. CommandOK(c)' /\ WorkOK(c)'
  BY <1>1, <1>4, <1>5
  DEF CommandOK, WorkOK, Alters, Field, Creating, Working, Stage, Origin, cloud
<1>7. Carries(c)
  BY <1>1, <1>5, GoesOn DEF Making, PlanMachine, rest, history, LifecycleInv, CloudOK, cloud
<1> QED
  BY <1>1, <1>5, <1>6, <1>7, PlainStepKeepsInv DEF Creating

LEMMA KeyStepKeepsInv ==
  ASSUME LifecycleInv, NEW c \in Cli,
         FindKeyPair(c) \/ CreateKeyPair(c) \/ WriteKey(c)
  PROVE  LifecycleInv'
<1>1. CommandOK(c) /\ UNCHANGED <<cloud, bounds, halfway, crowded>>
      /\ cli[c].at \in {"key", "createKey", "writeKey"}
  BY InvParts DEF FindKeyPair, CreateKeyPair, WriteKey, At, rest, history
<1>2. /\ RestOK' /\ Alters(c, {"at", "key"})
      /\ cli'[c].key \in KeyId \cup {None}
      /\ \/ cli'[c].at = "createKey"
         \/ cli'[c].at \in {"writeKey", "create"} /\ cli'[c].key \in KeyId
  <2>0. RestOK /\ DOMAIN cli = Cli /\ DOMAIN cli[c] = Field
    BY InvParts
  <2>1. CASE At(c, "key") /\ Go(c, "createKey") /\ UNCHANGED <<keys, mislaid>>
    <3>1. Alters(c, {"at"}) /\ cli'[c].at = "createKey"
      BY <2>1, GoSteps
    <3> QED
      BY <1>1, <2>0, <2>1, <3>1 DEF Alters, Field, RestOK, keys, bounds, CommandOK
  <2>2. ASSUME NEW k \in pairs, UNCHANGED <<keys, mislaid>>,
               cli' = [cli EXCEPT ![c].key = k, ![c].at = "create"]
        PROVE  /\ RestOK' /\ Alters(c, {"at", "key"})
               /\ cli'[c].at = "create" /\ cli'[c].key \in KeyId
    BY <1>1, <2>0, <2>2 DEF Alters, Field, RestOK, keys, bounds
  <2>3. CASE CreateKeyPair(c)
    <3>1. PICK k \in KeyId : /\ pairs' = pairs \cup {k}
                             /\ cli' = [cli EXCEPT ![c].key = k, ![c].at = "writeKey"]
                             /\ mislaid' \subseteq mislaid \cup {k}
      BY <2>3 DEF CreateKeyPair
    <3>2. Alters(c, {"at", "key"}) /\ cli'[c].at = "writeKey" /\ cli'[c].key = k
      BY <2>0, <3>1 DEF Alters, Field
    <3> QED
      BY <1>1, <2>0, <2>3, <3>1, <3>2 DEF CreateKeyPair, RestOK, bounds
  <2>4. CASE WriteKey(c)
    <3>1. Alters(c, {"at"}) /\ cli'[c].at = "create"
      BY <2>4, GoSteps DEF WriteKey
    <3>2. cli[c].key \in KeyId /\ cli'[c].key = cli[c].key
      BY <1>1, <2>4, <3>1 DEF WriteKey, At, CommandOK, Alters, Field
    <3> QED
      BY <1>1, <2>0, <2>4, <3>1, <3>2 DEF WriteKey, Alters, Field, RestOK, rest, history, bounds
  <2> QED
    BY <2>1, <2>2, <2>3, <2>4 DEF FindKeyPair, rest, history
<1>3. CommandOK(c)'
  BY <1>1, <1>2
  DEF CommandOK, Alters, Field, Creating, Working, Stage, cloud
<1>4. WorkOK(c)' /\ cli[c].at \in Creating
  BY <1>1, <1>2 DEF WorkOK, Working, Creating
<1>5. Carries(c)
  BY <1>1, <1>2, GoesOn DEF Making, LifecycleInv, CloudOK, cloud
<1> QED
  BY <1>1, <1>2, <1>3, <1>4, <1>5, PlainStepKeepsInv

\* The next id is free, and within the bound.
LEMMA NextMachine ==
  ASSUME LifecycleInv, NEW c \in Pending
  PROVE  created + 1 \in Id /\ machines[created + 1] = None
<1>1. PICK P : P = Pending
  OBVIOUS
<1>2. IsFiniteSet(P) /\ Cardinality(P) \in Nat /\ P # {}
  BY <1>1, PendingFinite
<1>3. Cardinality(P) >= 1
  BY <1>2, FS_EmptySet
<1>4. created + Cardinality(P) <= MaxMachines /\ created \in 0 .. MaxMachines
  BY <1>1 DEF LifecycleInv, RoomOK, CloudOK
<1>5. created + 1 \in Id
  BY <1>2, <1>3, <1>4, LifecycleAssumption DEF Id
<1> QED
  BY <1>4, <1>5, LifecycleAssumption DEF LifecycleInv, CloudOK

\* The machine that is created.
LEMMA NewMachine ==
  ASSUME LifecycleInv, NEW c \in Cli, CreateInstance(c)
  PROVE  \E n \in Id, new \in Machine :
           /\ n = created + 1 /\ machines[n] = None
           /\ machines' = [machines EXCEPT ![n] = new]
           /\ new.env = cli[c].env /\ new.key = cli[c].key
           /\ new.bundle = Requested(c) /\ new.status = "running"
           /\ new.scripts = IF cli[c].snapshot = None THEN 0 ELSE Scripts
<1>1. CommandOK(c) /\ CloudOK /\ cli[c].at = "create"
  BY InvParts DEF CreateInstance, At
<1>2. PICK n \in Id : n = created + 1 /\ machines[n] = None
  BY <1>1, NextMachine DEF Pending, Creating
<1>3. PICK disk : disk = IF cli[c].snapshot = None THEN [scripts |-> 0, metadata |-> None]
                         ELSE snapshots[cli[c].snapshot]
  OBVIOUS
<1>4. /\ disk.scripts = (IF cli[c].snapshot = None THEN 0 ELSE Scripts)
      /\ disk.scripts \in 0 .. Scripts /\ disk.metadata \in Id \cup {None}
  <2>1. CASE cli[c].snapshot = None
    <3>1. disk = [scripts |-> 0, metadata |-> None]
      BY <1>3, <2>1, Zenon
    <3> QED
      BY <2>1, <3>1 DEF Scripts
  <2>2. CASE cli[c].snapshot # None
    <3>1. cli[c].snapshot \in Id /\ snapshots[cli[c].snapshot] # None
      BY <1>1, <2>2 DEF CommandOK, CreateInstance
    <3>2. disk \in Snapshot /\ disk.scripts = Scripts
      BY <1>1, <1>3, <2>2, <3>1 DEF CloudOK
    <3> QED
      BY <2>2, <3>2 DEF Snapshot
  <2> QED
    BY <2>1, <2>2
<1>5. Requested(c) \in Bundle /\ cli[c].env \in Env /\ cli[c].key \in KeyId
  BY <1>1, LifecycleAssumption DEF CommandOK, Requested, Creating
<1> DEFINE made == [env |-> cli[c].env, bundle |-> Requested(c), key |-> cli[c].key,
                    status |-> "running", scripts |-> disk.scripts,
                    metadata |-> disk.metadata]
<1>6. made \in Machine
  BY <1>4, <1>5 DEF Machine
<1>7. machines' = [machines EXCEPT ![n] = made]
  BY <1>2, <1>3 DEF CreateInstance
<1>8. /\ made.env = cli[c].env /\ made.key = cli[c].key
      /\ made.bundle = Requested(c) /\ made.status = "running"
      /\ made.scripts = IF cli[c].snapshot = None THEN 0 ELSE Scripts
  BY <1>4
<1> HIDE DEF made
<1> QED
  BY <1>2, <1>6, <1>7, <1>8

LEMMA CreateInstanceKeepsInv ==
  ASSUME LifecycleInv, NEW c \in Cli, CreateInstance(c)
  PROVE  LifecycleInv'
<1>1. CommandOK(c) /\ CloudOK /\ cli[c].at = "create" /\ UNCHANGED <<snapshots, keys, rest>>
      /\ DOMAIN cli = Cli /\ DOMAIN cli[c] = Field /\ created' = created + 1
  BY InvParts DEF CreateInstance, At
<1>2. c \in Pending
  BY <1>1 DEF Pending, Creating
<1>3. PICK n \in Id, new \in Machine :
        /\ n = created + 1 /\ machines[n] = None
        /\ machines' = [machines EXCEPT ![n] = new]
        /\ new.bundle = Requested(c)
        /\ new.scripts = IF cli[c].snapshot = None THEN 0 ELSE Scripts
  BY NewMachine
<1>4. /\ Alters(c, {"machine", "at"})
      /\ cli'[c].machine = n /\ cli'[c].at = "connect"
  <2>1. cli' = [cli EXCEPT ![c].machine = n, ![c].at = "connect"]
    BY <1>3 DEF CreateInstance
  <2> QED
    BY <1>1, <2>1 DEF Alters, Field
<1>5. created \in Nat /\ created' \in 0 .. MaxMachines /\ created <= created'
      /\ n \in Nat /\ n <= created' /\ ~(n <= created)
  BY <1>1, <1>3, LifecycleAssumption DEF CloudOK, Id
<1>6. CloudOK'
  <2>1. \A m \in Id : m <= created => m <= created'
    BY <1>1, <1>5, LifecycleAssumption DEF Id
  <2> QED
    BY <1>1, <1>3, <1>5, <2>1 DEF CloudOK
<1>7. \A m \in Id : m <= created => Evolves(m)
  BY <1>1, <1>3, <1>5 DEF CloudOK, Evolves
<1>8. RestOK' /\ UNCHANGED halfway
  BY <1>1, InvParts DEF RestOK, keys, rest, bounds, history
<1>9. CommandOK(c)'
  <2>1. /\ \A f \in Field \ {"machine", "at"} : cli'[c][f] = cli[c][f]
        /\ DOMAIN cli'[c] = Field
    BY <1>4 DEF Alters
  <2>2. cli[c].origin \in Origin
    BY <1>1 DEF CommandOK, Origin
  <2> QED
    BY <1>1, <1>4, <1>5, <2>1, <2>2 DEF CommandOK, Field, Creating, Working, Stage
<1>10. WorkOK(c)'
  <2>1. Instance(c)' = new /\ cli'[c].origin = cli[c].origin /\ cli'[c].bundle = cli[c].bundle
    BY <1>1, <1>3, <1>4 DEF Alters, Field, Instance, CloudOK
  <2>2. MadeOK(c)'
    BY <1>1, <1>3, <1>4, <2>1 DEF MadeOK, CommandOK
  <2> QED
    BY <1>3, <1>4, <2>1, <2>2 DEF WorkOK, Requested
<1>10a. Carries(c)
  <2>1. ~Making(c) /\ Making(c)'
    BY <1>1, <1>4 DEF Making, CommandOK, Alters, Field
  <2>2. \A m \in Id : machines'[m] # None /\ ~(m <= created) => m = n
    BY <1>1, <1>3 DEF CloudOK
  <2> QED
    BY <1>4, <1>5, <1>8, <2>1, <2>2 DEF Carries
<1>11. RoomOK'
  <2>1. Pending' = Pending \ {c}
    BY <1>1, <1>4 DEF Pending, Alters, Creating
  <2>2. PICK P : P = Pending
    OBVIOUS
  <2>3. IsFiniteSet(P) /\ Cardinality(P) \in Nat
    BY <2>2, PendingFinite
  <2>4. Cardinality(P \ {c}) = Cardinality(P) - 1
    BY <1>2, <2>2, <2>3, FS_RemoveElement
  <2>5. created + Cardinality(P) <= MaxMachines
    BY <2>2 DEF LifecycleInv, RoomOK
  <2>6. created' + Cardinality(P \ {c}) <= MaxMachines
    BY <1>1, <1>5, <2>3, <2>4, <2>5, LifecycleAssumption
  <2> QED
    BY <2>1, <2>2, <2>6 DEF RoomOK
<1> QED
  BY <1>4, <1>5, <1>6, <1>7, <1>8, <1>9, <1>10, <1>10a, <1>11, CommandStepKeepsInv

\* Steps that only move on.
LEMMA MoveOnKeepsInv ==
  ASSUME LifecycleInv, NEW c \in Cli, Connect(c) \/ Ready(c) \/ DoneWaiting(c)
  PROVE  LifecycleInv'
<1>1. /\ CommandOK(c) /\ WorkOK(c) /\ CloudOK /\ RestOK'
      /\ UNCHANGED <<cloud, keys, rest>>
  BY InvParts
  DEF Connect, Ready, DoneWaiting, LifecycleInv, RestOK, keys, rest, bounds, history
<1>2. Alters(c, {"at"})
      /\ \/ /\ cli[c].at = "connect" /\ Instance(c) # None
            /\ cli'[c].at = IF cli[c].origin = "new-from-scratch" THEN "customize" ELSE "verify"
         \/ cli[c].at = "finalize" /\ cli[c].todo = {} /\ cli'[c].at = "ready"
         \/ cli[c].at = "delete" /\ cli'[c].at = "done"
  <2>1. CASE Connect(c)
    BY <2>1, GoSteps DEF Connect, At, Reachable
  <2>2. CASE Ready(c)
    BY <2>2, GoSteps DEF Ready, At
  <2>3. CASE DoneWaiting(c)
    BY <2>3, GoSteps DEF DoneWaiting, At
  <2> QED
    BY <2>1, <2>2, <2>3
<1>3. CommandOK(c)'
  BY <1>1, <1>2 DEF CommandOK, Alters, Field, Creating, Working, Stage, cloud
<1>4. /\ Instance(c)' = Instance(c) /\ cli'[c].origin = cli[c].origin
      /\ cli'[c].machine = cli[c].machine /\ cli'[c].bundle = cli[c].bundle
      /\ cli'[c].todo = cli[c].todo
  BY <1>1, <1>2 DEF Alters, Field, Instance, cloud
<1>5. WorkOK(c)'
  <2>1. CASE cli[c].at = "connect"
    BY <1>1, <1>2, <1>4, <2>1 DEF WorkOK, MadeOK, Working, CommandOK, Origin, Scripts
  <2>2. CASE cli[c].at = "finalize"
    BY <1>1, <1>2, <1>4, <2>2 DEF WorkOK, MadeOK, Working
  <2>3. CASE cli[c].at = "delete"
    BY <1>2, <2>3 DEF WorkOK, Working
  <2> QED
    BY <1>2, <2>1, <2>2, <2>3
<1>6. Carries(c)
  <2>1. CloudOK' /\ created' = created /\ UNCHANGED <<machines, halfway>>
    BY <1>1 DEF CloudOK, cloud, rest, history
  <2>2. CASE cli[c].at # "finalize"
    <3>1. Making(c)' <=> Making(c)
      BY <1>2, <1>4, <2>2 DEF Making
    <3> QED
      BY <1>4, <2>1, <3>1, GoesOn
  <2>3. CASE cli[c].at = "finalize"
    <3>1. ~Making(c)'
      BY <1>2, <2>3 DEF Making
    <3>2. ASSUME NEW m \in Id, Making(c), cli[c].machine = m, machines'[m] # None
          PROVE  Complete(m)'
      BY <1>1, <1>2, <2>1, <2>3, <3>2 DEF Complete, WorkOK, MadeOK, Working, Making, Instance
    <3> QED
      BY <2>1, <3>1, <3>2 DEF Carries, CloudOK
  <2> QED
    BY <2>2, <2>3
<1> QED
  BY <1>1, <1>2, <1>3, <1>5, <1>6, PlainStepKeepsInv DEF Creating

\* A step that sets something on the machine of the command.
LEMMA ChangedMachine ==
  ASSUME CloudOK, NEW m \in Id, NEW new \in Machine, machines[m] # None,
         machines' = [machines EXCEPT ![m] = new], UNCHANGED <<snapshots, created>>,
         new.bundle = machines[m].bundle, machines[m].scripts <= new.scripts,
         machines[m].metadata = m => new.metadata = m
  PROVE  /\ CloudOK' /\ machines'[m] = new /\ Grows(m)
         /\ \A x \in Id \ {m} : Evolves(x)
         /\ new.scripts = machines[m].scripts => Evolves(m)
BY DEF CloudOK, Evolves, Grows

LEMMA CustomizeKeepsInv ==
  ASSUME LifecycleInv, NEW c \in Cli, Customize(c)
  PROVE  LifecycleInv'
<1>1. /\ CommandOK(c) /\ WorkOK(c) /\ CloudOK /\ RestOK' /\ cli[c].at = "customize"
      /\ UNCHANGED <<snapshots, created, halfway>>
  BY InvParts DEF Customize, At, LifecycleInv, RestOK, keys, rest, bounds, history
<1>2. PICK m \in Id : m = cli[c].machine /\ machines[m] # None
  BY <1>1 DEF CommandOK, Working, Customize, Reachable, Instance
<1>3. /\ machines[m] \in Machine /\ machines[m].scripts \in 0 .. Scripts
      /\ machines[m].scripts < Scripts /\ cli[c].origin # "existing"
      /\ Instance(c) = machines[m]
  BY <1>1, <1>2, MachineFacts DEF WorkOK, Working, Instance
<1>4. PICK k \in 0 .. Scripts : k = machines[m].scripts + 1
  BY <1>3 DEF Scripts
<1>5. Alters(c, {"at"}) /\ cli'[c].at = IF k = Scripts THEN "verify" ELSE "customize"
  BY <1>3, <1>4, GoSteps DEF Customize
<1>6. PICK new \in Machine : new = [machines[m] EXCEPT !.scripts = k]
  BY <1>3 DEF Machine
<1>7. /\ new.bundle = machines[m].bundle /\ new.scripts = k /\ machines[m].scripts <= k
      /\ new.metadata = machines[m].metadata
  BY <1>3, <1>4, <1>6 DEF Machine
<1>8. machines' = [machines EXCEPT ![m] = new]
  BY <1>1, <1>2, <1>4, <1>6 DEF Customize, CloudOK
<1>9. CloudOK' /\ machines'[m] = new /\ Grows(m) /\ \A x \in Id \ {m} : Evolves(x)
  BY <1>1, <1>2, <1>7, <1>8, ChangedMachine
<1>10. CommandOK(c)'
  BY <1>1, <1>5 DEF CommandOK, Alters, Field, Creating, Working, Stage
<1>11. /\ Instance(c)' = new /\ cli'[c].origin = cli[c].origin
       /\ cli'[c].machine = m /\ cli'[c].bundle = cli[c].bundle
  BY <1>2, <1>5, <1>9 DEF Alters, Field, Instance
<1>12. WorkOK(c)'
  <2>1. k # Scripts => k < Scripts
    BY <1>4 DEF Scripts
  <2> QED
    BY <1>1, <1>2, <1>3, <1>5, <1>7, <1>11, <2>1 DEF WorkOK, MadeOK, Working
<1>13. Making(c) /\ Making(c)'
  BY <1>1, <1>3, <1>5, <1>11 DEF Making
<1>14. Carries(c)
  BY <1>1, <1>2, <1>9, <1>11, <1>13, GoesOn
<1>15. RoomOK' /\ created <= created'
  <2>1. Pending' \subseteq Pending
    BY <1>5 DEF Pending, Alters, Creating
  <2> QED
    BY <1>1, <2>1, FewerPending, LifecycleAssumption DEF CloudOK
<1>16. \A x \in Id : Evolves(x) \/ (Grows(x) /\ Making(c) /\ cli[c].machine = x)
  BY <1>2, <1>9, <1>13
<1> QED
  BY <1>1, <1>5, <1>9, <1>10, <1>12, <1>14, <1>15, <1>16, CommandStepKeepsInv

LEMMA VerifyKeepsInv ==
  ASSUME LifecycleInv, NEW c \in Cli, Verify(c)
  PROVE  LifecycleInv'
<1>1. /\ CommandOK(c) /\ WorkOK(c) /\ RestOK' /\ UNCHANGED <<cloud, halfway>> /\ CloudOK
      /\ cli[c].at = "verify" /\ HasDocker(Instance(c).scripts)
  BY InvParts DEF Verify, At, LifecycleInv, RestOK, keys, rest, bounds, history
<1>2. cli[c].origin \in Origin
  BY <1>1 DEF CommandOK, Working
<1>3. PICK tasks \in SUBSET Task : tasks = Tasks(cli[c].origin)
  BY <1>2 DEF Tasks, Origin, Task
<1>4. IF cli[c].origin = "existing" THEN tasks = {} ELSE "metadata" \in tasks
  BY <1>2, <1>3 DEF Tasks, Origin
<1>5. Alters(c, {"at", "todo"}) /\ cli'[c].at = "finalize" /\ cli'[c].todo = tasks
  BY <1>3, InvParts DEF Verify, Alters, Field
<1>6. CommandOK(c)'
  BY <1>1, <1>4, <1>5 DEF CommandOK, Alters, Field, Creating, Working, Stage, cloud
<1>7. /\ Instance(c)' = Instance(c) /\ cli'[c].origin = cli[c].origin
      /\ cli'[c].machine = cli[c].machine /\ cli'[c].bundle = cli[c].bundle
  BY <1>1, <1>5 DEF Alters, Field, Instance, cloud
<1>8. WorkOK(c)'
  BY <1>1, <1>4, <1>5, <1>7 DEF WorkOK, MadeOK, Working
<1>9. Carries(c)
  BY <1>1, <1>5, <1>7, GoesOn DEF Making, CloudOK, cloud
<1> QED
  BY <1>1, <1>5, <1>6, <1>8, <1>9, PlainStepKeepsInv DEF Creating

LEMMA DoesSteps ==
  ASSUME LifecycleInv, NEW c \in Cli, NEW task, NEW next \in SUBSET Task,
         Does(c, task, next)
  PROVE  /\ Alters(c, {"todo"}) /\ cli[c].at = "finalize" /\ cli'[c].at = "finalize"
         /\ cli'[c].todo = (cli[c].todo \ {task}) \cup next
         /\ CommandOK(c)' /\ RestOK' /\ created' = created
         /\ created <= created' /\ RoomOK'
         /\ task \in cli[c].todo /\ cli[c].origin # "existing"
         /\ cli'[c].origin = cli[c].origin /\ cli'[c].machine = cli[c].machine
         /\ cli'[c].bundle = cli[c].bundle
         /\ CloudOK' => Carries(c)
<1>1. CommandOK(c) /\ RestOK /\ CloudOK /\ DOMAIN cli = Cli /\ DOMAIN cli[c] = Field
  BY InvParts
<1>2. /\ Alters(c, {"todo"}) /\ cli[c].at = "finalize" /\ cli'[c].at = "finalize"
      /\ cli'[c].todo = (cli[c].todo \ {task}) \cup next
      /\ UNCHANGED <<keys, created, rest>>
      /\ task \in cli[c].todo /\ cli[c].origin # "existing"
  BY <1>1 DEF Does, At, Alters, Field, CommandOK
<1>3. CommandOK(c)'
  BY <1>1, <1>2 DEF CommandOK, Alters, Field, Creating, Working
<1>4. Pending' \subseteq Pending
  BY <1>2 DEF Pending, Alters, Creating
<1>5. RoomOK'
  BY <1>2, <1>4, FewerPending
<1>6. /\ cli'[c].origin = cli[c].origin /\ cli'[c].machine = cli[c].machine
      /\ cli'[c].bundle = cli[c].bundle
  BY <1>2 DEF Alters, Field
<1>7. CloudOK' => Carries(c)
  BY <1>2, <1>6, GoesOn DEF Making, rest, history
<1> QED
  BY <1>1, <1>2, <1>3, <1>5, <1>6, <1>7, LifecycleAssumption
  DEF RestOK, keys, rest, bounds, history, CloudOK

LEMMA WriteMetadataKeepsInv ==
  ASSUME LifecycleInv, NEW c \in Cli, WriteMetadata(c)
  PROVE  LifecycleInv'
<1>1. CommandOK(c) /\ WorkOK(c) /\ CloudOK /\ UNCHANGED snapshots
  BY InvParts DEF WriteMetadata
<1>2. /\ Alters(c, {"todo"}) /\ cli[c].at = "finalize" /\ cli'[c].at = "finalize"
      /\ CommandOK(c)' /\ RestOK' /\ created' = created
      /\ created <= created' /\ RoomOK' /\ cli[c].origin # "existing"
      /\ cli'[c].origin = cli[c].origin /\ cli'[c].machine = cli[c].machine
      /\ cli'[c].bundle = cli[c].bundle /\ (CloudOK' => Carries(c))
  BY DoesSteps DEF WriteMetadata
<1>3. PICK m \in Id : m = cli[c].machine /\ machines[m] # None
  BY <1>1, <1>2 DEF CommandOK, Working, WriteMetadata, Reachable, Instance
<1>4. machines[m] \in Machine
  BY <1>1, <1>3 DEF CloudOK
<1>5. PICK new \in Machine : new = [machines[m] EXCEPT !.metadata = m]
  BY <1>4 DEF Machine
<1>6. new.bundle = machines[m].bundle /\ new.scripts = machines[m].scripts /\ new.metadata = m
  BY <1>4, <1>5 DEF Machine
<1>7. machines' = [machines EXCEPT ![m] = new]
  BY <1>3, <1>5 DEF WriteMetadata
<1>7a. machines[m].scripts <= new.scripts
  BY <1>1, <1>3, <1>6, MachineFacts
<1>8. CloudOK' /\ machines'[m] = new /\ \A x \in Id : Evolves(x)
  BY <1>1, <1>2, <1>3, <1>6, <1>7, <1>7a, ChangedMachine
<1>8a. Instance(c) = machines[m] /\ Instance(c)' = new
  BY <1>2, <1>3, <1>8 DEF Instance
<1>9. WorkOK(c)'
  BY <1>1, <1>2, <1>3, <1>6, <1>8a DEF WorkOK, MadeOK, Working
<1> QED
  BY <1>2, <1>8, <1>9, CommandStepKeepsInv

LEMMA SnapshotStepKeepsInv ==
  ASSUME LifecycleInv, NEW c \in Cli, FindSnapshot(c) \/ CreateSnapshot(c)
  PROVE  LifecycleInv'
<1>1. CommandOK(c) /\ WorkOK(c) /\ CloudOK /\ UNCHANGED machines
  BY InvParts DEF FindSnapshot, CreateSnapshot
<1>2. PICK task \in {"findSnapshot", "createSnapshot"}, next \in SUBSET Task :
        Does(c, task, next)
  BY DEF FindSnapshot, CreateSnapshot, Task
<1>3. /\ Alters(c, {"todo"}) /\ cli[c].at = "finalize" /\ cli'[c].at = "finalize"
      /\ cli'[c].todo = (cli[c].todo \ {task}) \cup next
      /\ CommandOK(c)' /\ RestOK' /\ created' = created
      /\ created <= created' /\ RoomOK' /\ cli[c].origin # "existing"
      /\ cli'[c].origin = cli[c].origin /\ cli'[c].machine = cli[c].machine
      /\ cli'[c].bundle = cli[c].bundle /\ (CloudOK' => Carries(c))
  BY <1>2, DoesSteps
<1>4. WorkOK(c)'
  <2>1. Instance(c)' = Instance(c)
    BY <1>1, <1>3 DEF Instance
  <2>2. "metadata" \notin cli'[c].todo => "metadata" \notin cli[c].todo
    BY <1>2, <1>3
  <2> QED
    BY <1>1, <1>3, <2>1, <2>2 DEF WorkOK, MadeOK, Working
<1>5. CloudOK'
  <2>1. CASE FindSnapshot(c)
    BY <1>1, <1>3, <2>1 DEF FindSnapshot, CloudOK
  <2>2. CASE CreateSnapshot(c)
    <3>1. cli[c].machine \in Id /\ Instance(c) \in Machine
      BY <1>1, <1>3, <2>2 DEF CommandOK, Working, CreateSnapshot, Reachable, Instance, CloudOK
    <3> DEFINE s == [bundle |-> Instance(c).bundle, status |-> "pending",
                     scripts |-> Instance(c).scripts, metadata |-> Instance(c).metadata]
    <3>2. s \in Snapshot /\ s.scripts = Scripts
      <4>1. Instance(c).scripts = Scripts
        BY <1>1, <1>3, <2>2 DEF WorkOK, MadeOK, Working, CreateSnapshot, Reachable
      <4> QED
        BY <3>1, <4>1 DEF Machine, Snapshot
    <3>3. snapshots' = [snapshots EXCEPT ![cli[c].machine] = s]
      BY <2>2 DEF CreateSnapshot
    <3> HIDE DEF s
    <3> QED
      BY <1>1, <1>3, <3>1, <3>2, <3>3 DEF CloudOK
  <2> QED
    BY <2>1, <2>2
<1>6. \A x \in Id : Evolves(x)
  BY <1>1 DEF Evolves
<1> QED
  BY <1>3, <1>4, <1>5, <1>6, CommandStepKeepsInv

-----------------------------------------------------------------------------
(* The steps of down and purge, and of the provider *)

LEMMA ListingKeepsInv ==
  ASSUME LifecycleInv, NEW c \in Cli,
         FindMachine(c) \/ \E types \in PurgeTypes : ListResources(c, types)
  PROVE  LifecycleInv'
<1>1. /\ CommandOK(c) /\ RestOK' /\ CloudOK /\ UNCHANGED <<cloud, halfway>>
      /\ cli[c].at \in {"find", "list"} /\ ~Making(c)
  BY InvParts DEF FindMachine, ListResources, At, Making, LifecycleInv, RestOK, keys, rest, bounds, history
<1>2. CASE Stop(c)
  BY <1>1, <1>2, StopKeepsInv
<1>3. ASSUME NEW todo \in SUBSET Resource, NEW F,
             Alters(c, F), F = {"at", "todo", "listed"},
             cli'[c].at = "delete", cli'[c].todo = todo, cli'[c].listed = todo
      PROVE  LifecycleInv'
  <2>1. CommandOK(c)' /\ WorkOK(c)'
    BY <1>1, <1>3
    DEF CommandOK, WorkOK, Alters, Field, Creating, Working, Stage, cloud
  <2>2. Carries(c)
    BY <1>1, <1>3, GoesOn DEF Making, CloudOK, cloud
  <2> QED
    BY <1>1, <1>3, <2>1, <2>2, PlainStepKeepsInv DEF Creating
<1>4. ASSUME NEW m \in Found(cli[c].env),
             cli' = [cli EXCEPT ![c].at = "delete", ![c].todo = {<<"machine", m>>},
                                ![c].listed = {<<"machine", m>>}]
      PROVE  LifecycleInv'
  <2>1. PICK todo \in SUBSET Resource : todo = {<<"machine", m>>}
    <3>1. m \in Id
      BY DEF Found
    <3>2. <<"machine", m>> \in Resource
      BY <3>1 DEF Resource
    <3> QED
      BY <3>2
  <2>2. Alters(c, {"at", "todo", "listed"}) /\ cli'[c].at = "delete"
        /\ cli'[c].todo = todo /\ cli'[c].listed = todo
    BY <1>4, <2>1, InvParts DEF Alters, Field
  <2> QED
    BY <1>3, <2>2
<1>5. ASSUME NEW types \in PurgeTypes, ListResources(c, types)
      PROVE  LifecycleInv'
  <2>1. PICK todo \in SUBSET Resource : todo = Listed(types)
    BY DEF Listed
  <2>2. Alters(c, {"at", "todo", "listed"}) /\ cli'[c].at = "delete"
        /\ cli'[c].todo = todo /\ cli'[c].listed = todo
    BY <1>5, <2>1, InvParts DEF ListResources, Alters, Field
  <2> QED
    BY <1>3, <2>2
<1> QED
  BY <1>2, <1>4, <1>5 DEF FindMachine

LEMMA DeleteResourceKeepsInv ==
  ASSUME LifecycleInv, NEW c \in Cli, NEW r \in cli[c].todo, DeleteResource(c, r)
  PROVE  LifecycleInv'
<1>1. /\ CommandOK(c) /\ CloudOK /\ RestOK /\ cli[c].at = "delete"
      /\ created' = created /\ UNCHANGED rest
      /\ DOMAIN cli = Cli /\ DOMAIN cli[c] = Field
  BY InvParts DEF DeleteResource, At
<1>2. /\ Alters(c, {"todo"}) /\ cli'[c].at = "delete"
      /\ cli'[c].todo \subseteq cli[c].todo
  BY <1>1 DEF DeleteResource, Alters, Field
<1>3. RestOK'
  BY <1>1 DEF DeleteResource, DeleteProviderKeyPair, DeleteStoredKey, RestOK, keys, rest, bounds,
     history
<1>4. r \in Resource \cup Task
  BY <1>1 DEF CommandOK
<1>5. CloudOK' /\ \A x \in Id : Evolves(x)
  <2>1. CASE UNCHANGED <<machines, snapshots>>
    BY <1>1, <2>1 DEF CloudOK, Evolves
  <2>2. CASE r[1] = "machine" /\ Exists(r) /\ machines' = Deleting(machines, r[2])
             /\ UNCHANGED snapshots
    <3>1. CASE r[2] \in Id
      <4>1. PICK m \in Id : m = r[2]
        BY <3>1
      <4>2. machines' = Deleting(machines, m)
        BY <2>2, <4>1
      <4>3. machines' \in [Id -> Machine \cup {None}]
            /\ (\A x \in Id : machines'[x] # None => machines[x] # None)
            /\ \A x \in Id : Evolves(x)
        BY <1>1, <4>2, DeletingMachine
      <4> QED
        BY <1>1, <2>2, <4>3 DEF CloudOK
    <3>2. CASE r[2] \notin Id
      <4>1. machines' = machines
        BY <1>1, <2>2, <3>2 DEF Deleting, CloudOK
      <4> QED
        BY <1>1, <2>2, <4>1 DEF CloudOK, Evolves
    <3> QED
      BY <3>1, <3>2
  <2>3. CASE r[1] = "snapshot" /\ Exists(r) /\ snapshots' = Deleting(snapshots, r[2])
             /\ UNCHANGED machines
    <3>1. CASE r[2] \in Id
      <4>1. PICK m \in Id : m = r[2]
        BY <3>1
      <4>2. /\ snapshots' \in [Id -> Snapshot \cup {None}]
            /\ \A x \in Id : snapshots'[x] # None => snapshots'[x].scripts = Scripts
        BY <1>1, <2>3, <4>1, DeletingSnapshot
      <4> QED
        BY <1>1, <2>3, <4>2, DeletingSnapshot DEF CloudOK, Evolves
    <3>2. CASE r[2] \notin Id
      <4>1. snapshots' = snapshots
        BY <1>1, <2>3, <3>2 DEF Deleting, CloudOK
      <4> QED
        BY <1>1, <2>3, <4>1 DEF CloudOK, Evolves
    <3> QED
      BY <3>1, <3>2
  <2> QED
    BY <2>1, <2>2, <2>3 DEF DeleteResource, keys
<1>6. CommandOK(c)' /\ WorkOK(c)'
  BY <1>1, <1>2 DEF CommandOK, WorkOK, Alters, Field, Creating, Working
<1>7. RoomOK' /\ created <= created'
  <2>1. Pending' \subseteq Pending
    BY <1>1, <1>2 DEF Pending, Alters, Creating
  <2> QED
    BY <1>1, <2>1, FewerPending, LifecycleAssumption DEF CloudOK
<1>8. Carries(c)
  BY <1>1, <1>2, <1>5, GoesOn DEF Making, rest, history
<1> QED
  BY <1>2, <1>3, <1>5, <1>6, <1>7, <1>8, CommandStepKeepsInv

\* What is being deleted goes, and a snapshot becomes available.
LEMMA ProviderStep ==
  ASSUME CloudOK, Provider
  PROVE  /\ CloudOK' /\ UNCHANGED <<created, keys, cli, rest>>
         /\ \A x \in Id : machines'[x] # None => machines'[x] = machines[x]
<1>1. UNCHANGED <<created, keys, cli, rest>>
  BY DEF Provider
<1>2. ASSUME NEW m \in Id, machines' = [machines EXCEPT ![m] = None], UNCHANGED snapshots
      PROVE  CloudOK' /\ \A x \in Id : machines'[x] # None => machines'[x] = machines[x]
  BY <1>1, <1>2 DEF CloudOK
<1>3. ASSUME NEW m \in Id, snapshots[m] # None, UNCHANGED machines,
             \/ snapshots' = [snapshots EXCEPT ![m] = None]
             \/ snapshots' = [snapshots EXCEPT ![m].status = "available"]
      PROVE  CloudOK' /\ \A x \in Id : machines'[x] # None => machines'[x] = machines[x]
  <2>1. snapshots[m] \in Snapshot
    BY <1>3 DEF CloudOK
  <2>2. PICK new \in Snapshot : new = [snapshots[m] EXCEPT !.status = "available"]
    BY <2>1 DEF Snapshot
  <2>2a. new.scripts = snapshots[m].scripts
    BY <2>1, <2>2 DEF Snapshot
  <2>3. /\ snapshots' \in [Id -> Snapshot \cup {None}]
        /\ \A x \in Id : snapshots'[x] # None => snapshots'[x].scripts = Scripts
    BY <1>3, <2>2, <2>2a DEF CloudOK
  <2> QED
    BY <1>1, <1>3, <2>3 DEF CloudOK
<1> QED
  BY <1>1, <1>2, <1>3 DEF Provider

LEMMA ProviderKeepsInv ==
  ASSUME LifecycleInv, Provider
  PROVE  LifecycleInv'
<1>1. CloudOK /\ RestOK /\ created \in 0 .. MaxMachines
  BY DEF LifecycleInv, RestOK, CloudOK
<1>2. /\ CloudOK' /\ UNCHANGED <<created, keys, cli, rest>>
      /\ \A x \in Id : machines'[x] # None => machines'[x] = machines[x]
  BY <1>1, ProviderStep
<1>3. \A x \in Id : Grows(x)
  BY <1>1, <1>2, MachineFacts DEF Grows
<1>4. ASSUME NEW d \in Cli PROVE CommandOK(d)' /\ WorkOK(d)'
  <2>1. CommandOK(d)
    BY InvParts
  <2>2. (Making(d) /\ machines'[cli[d].machine] # None) =>
          machines'[cli[d].machine].scripts = machines[cli[d].machine].scripts
    BY <1>2, <2>1 DEF CommandOK, Making, Working
  <2> QED
    BY <1>1, <1>2, <1>3, <2>2, OthersStay, LifecycleAssumption
<1>5. RoomOK'
  BY <1>2, FewerPending DEF Pending
<1>6. MakersOK' /\ HalfOK'
  BY <1>2 DEF LifecycleInv, MakersOK, HalfOK, Making, Complete, rest, history
<1> QED
  BY <1>1, <1>2, <1>4, <1>5, <1>6 DEF LifecycleInv, RestOK, keys, rest, bounds, history

-----------------------------------------------------------------------------
(* A machine that is ready is usable *)

LEMMA InitHasInv == Init => LifecycleInv
<1> SUFFICES ASSUME Init PROVE LifecycleInv
  OBVIOUS
<1>1. DOMAIN Idle = Field
  BY DEF Idle, Field
<1>2. \A c \in Cli : cli[c] = Idle
  BY DEF Init
<1>3. created = 0 /\ started = 0 /\ faults = 0 /\ 0 \in 0 .. MaxMachines
      /\ 0 \in 0 .. MaxCommands /\ 0 \in 0 .. MaxFaults
  BY LifecycleAssumption DEF Init
<1>4. \A c \in Cli : CommandOK(c) /\ WorkOK(c) /\ ~Making(c)
  BY <1>1, <1>2 DEF CommandOK, WorkOK, Making, Idle, Stage, Creating, Working
<1>5. CloudOK
  BY <1>3 DEF Init, CloudOK
<1>6. RoomOK
  <2>1. Pending = {}
    BY <1>2 DEF Pending, Idle, Creating
  <2> QED
    BY <1>3, <2>1, FS_EmptySet, LifecycleAssumption DEF RoomOK
<1> QED
  BY <1>3, <1>4, <1>5, <1>6 DEF Init, LifecycleInv, RestOK, MakersOK, HalfOK

LEMMA StepKeepsInv ==
  ASSUME LifecycleInv, [Next]_vars
  PROVE  LifecycleInv'
<1>1. CASE UNCHANGED vars
  <2>1. UNCHANGED <<machines, snapshots, created, pairs, stored, cli, started, faults>>
        /\ UNCHANGED <<halfway, mislaid, crowded>>
    BY <1>1 DEF vars, cloud, keys, rest, bounds, history
  <2>2. \A c \in Cli : CommandOK(c)' /\ WorkOK(c)'
    BY <2>1 DEF LifecycleInv, CommandOK, WorkOK, MadeOK, Instance
  <2>3. CloudOK' /\ RestOK' /\ RoomOK'
    BY <2>1 DEF LifecycleInv, CloudOK, RestOK, RoomOK, Pending
  <2>4. MakersOK' /\ HalfOK'
    BY <2>1 DEF LifecycleInv, MakersOK, HalfOK, Making, Complete
  <2> QED
    BY <2>1, <2>2, <2>3, <2>4 DEF LifecycleInv
<1>2. ASSUME NEW c \in Cli, UpStep(c) PROVE LifecycleInv'
  BY <1>2, CheckKeepsInv, DeleteOldKeepsInv, PlanKeepsInv, KeyStepKeepsInv,
     CreateInstanceKeepsInv, MoveOnKeepsInv, CustomizeKeepsInv, VerifyKeepsInv,
     WriteMetadataKeepsInv, SnapshotStepKeepsInv DEF UpStep
<1>3. ASSUME NEW c \in Cli, DownStep(c) PROVE LifecycleInv'
  BY <1>3, ListingKeepsInv, DeleteResourceKeepsInv, MoveOnKeepsInv, EndKeepsInv
  DEF DownStep
<1> QED
  BY <1>1, <1>2, <1>3, StartKeepsInv, EndKeepsInv, ProviderKeepsInv DEF Next, Step

LEMMA LifecycleInvariance == Spec => []LifecycleInv
BY InitHasInv, StepKeepsInv, PTL DEF Spec

\* The variables of the commands and of the cloud stay in their types.
THEOREM LifecycleTypeCorrect == Spec => []TypeOK
<1>1. LifecycleInv => TypeOK
  BY DEF LifecycleInv, RestOK, CommandOK, CloudOK, TypeOK
<1> QED
  BY <1>1, LifecycleInvariance, PTL

\* However many commands interleave, fail or are killed, the machine of an up
\* that is ready runs docker and has the size that was asked for; and all
\* customization scripts have run on it and its metadata are its own, unless the
\* command that has made it stopped on the way or is still at it (ensureMachine and
\* customizeNewMachine of core).
THEOREM ReadyUsableCorrect == Spec => []ReadyUsable
<1>1. ASSUME LifecycleInv PROVE ReadyUsable
  <2> SUFFICES ASSUME NEW c \in Cli, At(c, "ready"), Instance(c) # None
               PROVE  /\ HasDocker(Instance(c).scripts)
                      /\ cli[c].bundle # None => Instance(c).bundle = cli[c].bundle
                      /\ \/ Complete(cli[c].machine)
                         \/ /\ cli[c].origin = "existing"
                            /\ \/ cli[c].machine \in halfway
                               \/ \E d \in Cli : Making(d) /\ cli[d].machine = cli[c].machine
    BY DEF ReadyUsable
  <2>1. CommandOK(c) /\ WorkOK(c) /\ HalfOK /\ cli[c].machine \in Id /\ cli[c].at = "ready"
    BY <1>1, InvParts DEF LifecycleInv, CommandOK, Working, At
  <2>2. CASE cli[c].origin = "existing"
    BY <2>1, <2>2 DEF WorkOK, Working, HalfOK, Instance
  <2>3. CASE cli[c].origin # "existing"
    BY <2>1, <2>3 DEF WorkOK, MadeOK, Working, Complete, Instance
  <2> QED
    BY <2>2, <2>3
<1> QED
  BY <1>1, LifecycleInvariance, PTL

-----------------------------------------------------------------------------
(* Key pairs, and the machines of an environment *)

\* A machine keeps its environment and its key pair, and one that does not run
\* never runs again.
Fades(m) ==
  machines'[m] # None =>
    /\ machines[m] # None
    /\ machines'[m].env = machines[m].env /\ machines'[m].key = machines[m].key
    /\ IsUp(m)' => IsUp(m)

\* Every key pair belongs to a machine, to the store or to a command.  Only those that
\* are mislaid have no private key that is stored, or about to be.
KeysInv ==
  /\ \A m \in Id : machines[m] # None => machines[m].key \in pairs
  /\ \A c \in Cli :
       /\ At(c, "create") => cli[c].key \in pairs
       /\ At(c, "createKey") => pairs \subseteq mislaid
       /\ At(c, "writeKey") => cli[c].key \in pairs /\ pairs \ {cli[c].key} \subseteq mislaid
  /\ \A k \in pairs \ mislaid :
       stored = k \/ \E c \in Cli : At(c, "writeKey") /\ cli[c].key = k

\* Unless its environment is crowded, the command that has decided to create a machine
\* is the only one, and the machine that it replaces the only one that runs.
PlacesInv ==
  /\ OneMachinePerEnv
  /\ \A c \in Cli : (Decided(c) /\ cli[c].env \notin crowded) =>
       /\ \A d \in Cli : Decided(d) /\ cli[d].env = cli[c].env => d = c
       /\ \A m \in Id : IsUp(m) /\ machines[m].env = cli[c].env =>
            At(c, "replace") /\ m = cli[c].machine

LEMMA SameFade == UNCHANGED machines => \A m \in Id : Fades(m)
BY DEF Fades, IsUp

\* Steps that neither bring a command closer to a new machine nor create one.
Later(c) ==
  \/ Connect(c) \/ Customize(c) \/ Verify(c) \/ WriteMetadata(c) \/ FindSnapshot(c)
  \/ CreateSnapshot(c) \/ Ready(c) \/ DownStep(c) \/ Throw(c) \/ Fault(c) \/ Finish(c)
  \/ Purge(c) \/ \E e \in Env : Down(c, e)

LEMMA StartSteps ==
  ASSUME LifecycleInv, NEW c \in Cli, NEW job, Start(c, job)
  PROVE  /\ UNCHANGED <<cloud, keys, history>> /\ cli[c].at = "idle" /\ cli'[c] = job
         /\ DOMAIN cli' = Cli /\ \A d \in Cli \ {c} : cli'[d] = cli[d]
BY InvParts DEF Start, At

\* What the step of a command does to the others, and to what is recorded.
Frame(c) ==
  /\ \A d \in Cli \ {c} : cli'[d] = cli[d]
  /\ mislaid \subseteq mislaid' /\ crowded \subseteq crowded'

LEMMA LaterSteps ==
  ASSUME LifecycleInv, NEW c \in Cli, Later(c)
  PROVE  /\ UNCHANGED keys /\ cli'[c].at \notin Creating /\ Frame(c)
         /\ cli[c].at = "writeKey" => cli[c].key \in mislaid'
<1> USE DEF Creating
<1>0. DOMAIN cli = Cli /\ DOMAIN cli[c] = Field
  BY InvParts
<1>1. CASE Connect(c) \/ Customize(c) \/ Ready(c) \/ DoneWaiting(c)
  <2>1. PICK stage \in {"customize", "verify", "ready", "done"} : Go(c, stage)
    BY <1>1 DEF Connect, Customize, Ready, DoneWaiting
  <2>2. UNCHANGED <<keys, rest>> /\ cli[c].at # "writeKey"
    BY <1>1 DEF Connect, Customize, Ready, DoneWaiting, At
  <2> QED
    BY <2>1, <2>2, GoSteps DEF Alters, Frame, rest, history
<1>2. CASE Verify(c)
  BY <1>0, <1>2 DEF Verify, At, Field, Frame, rest, history
<1>3. CASE WriteMetadata(c) \/ FindSnapshot(c) \/ CreateSnapshot(c)
  <2>1. PICK task, next : Does(c, task, next)
    BY <1>3 DEF WriteMetadata, FindSnapshot, CreateSnapshot
  <2> QED
    BY <1>0, <2>1 DEF Does, At, Field, Frame, rest, history
<1>4. CASE Finish(c) \/ DoneStarted(c)
  <2>1. Stop(c) /\ UNCHANGED <<keys, rest>> /\ cli[c].at # "writeKey"
    BY <1>4 DEF Finish, DoneStarted, At
  <2> QED
    BY <2>1, StopSteps DEF Alters, Frame, rest, history
<1>5. CASE Throw(c) \/ Fault(c)
  <2>1. StopShort(c)
    BY <1>5 DEF Throw, Fault
  <2>2. Stop(c) /\ UNCHANGED <<keys, crowded>>
        /\ mislaid' = IF At(c, "writeKey") THEN mislaid \cup {cli[c].key} ELSE mislaid
    BY <2>1 DEF StopShort
  <2> QED
    BY <2>2, StopSteps DEF Alters, Frame, At
<1>6. CASE FindMachine(c)
  <2>1. UNCHANGED <<keys, rest>> /\ cli[c].at = "find"
    BY <1>6 DEF FindMachine, At
  <2>2. CASE Stop(c)
    BY <2>1, <2>2, StopSteps DEF Alters, Frame, rest, history
  <2>3. CASE \E m \in Found(cli[c].env) :
          cli' = [cli EXCEPT ![c].at = "delete", ![c].todo = {<<"machine", m>>},
                             ![c].listed = {<<"machine", m>>}]
    BY <1>0, <2>1, <2>3 DEF Field, Frame, rest, history
  <2> QED
    BY <1>6, <2>2, <2>3 DEF FindMachine
<1>7. ASSUME NEW types, ListResources(c, types)
      PROVE  UNCHANGED keys /\ cli'[c].at = "delete" /\ cli[c].at = "list" /\ Frame(c)
  BY <1>0, <1>7 DEF ListResources, At, Field, Frame, rest, history
<1>8. ASSUME NEW res, DeleteResource(c, res)
      PROVE  UNCHANGED keys /\ cli'[c].at = "delete" /\ cli[c].at = "delete" /\ Frame(c)
  <2>1. UNCHANGED <<keys, rest>>
    BY <1>8 DEF DeleteResource, DeleteProviderKeyPair, DeleteStoredKey, keys
  <2> QED
    BY <1>0, <1>8, <2>1 DEF DeleteResource, At, Field, Frame, rest, history
<1>9. CASE Purge(c) \/ \E e \in Env : Down(c, e)
  <2>1. PICK job : Start(c, job) /\ job.at \in {"list", "find"}
    <3>1. DOMAIN Idle = Field
      BY DEF Idle, Field
    <3>2. [Idle EXCEPT !.at = "list"].at = "list"
          /\ \A e \in Env : [Idle EXCEPT !.at = "find", !.env = e].at = "find"
      BY <3>1 DEF Field
    <3> QED
      BY <1>9, <3>2 DEF Purge, Down
  <2> QED
    BY <2>1, StartSteps DEF Frame, history
<1> QED
  BY <1>1, <1>2, <1>3, <1>4, <1>5, <1>6, <1>7, <1>8, <1>9 DEF Later, DownStep

LEMMA LaterFade ==
  ASSUME LifecycleInv, NEW c \in Cli, Later(c)
  PROVE  \A m \in Id : Fades(m)
<1>1. CloudOK /\ CommandOK(c)
  BY InvParts
<1>2. CASE Customize(c) \/ WriteMetadata(c)
  <2>1. cli[c].at \in {"customize", "finalize"}
    BY <1>2 DEF Customize, WriteMetadata, Does, At
  <2>2. PICK m \in Id : m = cli[c].machine /\ machines[m] # None
    BY <1>1, <1>2, <2>1
    DEF CommandOK, Working, Customize, WriteMetadata, Reachable, Instance
  <2>3. machines[m] \in Machine
    BY <1>1, <2>2 DEF CloudOK
  <2>4. PICK new : /\ machines' = [machines EXCEPT ![m] = new]
                   /\ new.env = machines[m].env /\ new.key = machines[m].key
                   /\ new.status = machines[m].status
    <3>1. CASE Customize(c)
      <4> DEFINE new == [machines[m] EXCEPT !.scripts = @ + 1]
      <4>1. machines' = [machines EXCEPT ![m] = new]
        BY <2>2, <3>1 DEF Customize
      <4>2. /\ new.env = machines[m].env /\ new.key = machines[m].key
            /\ new.status = machines[m].status
        BY <2>3 DEF Machine
      <4> HIDE DEF new
      <4> QED
        BY <4>1, <4>2
    <3>2. CASE WriteMetadata(c)
      <4> DEFINE new == [machines[m] EXCEPT !.metadata = m]
      <4>1. machines' = [machines EXCEPT ![m] = new]
        BY <2>2, <3>2 DEF WriteMetadata
      <4>2. /\ new.env = machines[m].env /\ new.key = machines[m].key
            /\ new.status = machines[m].status
        BY <2>3 DEF Machine
      <4> HIDE DEF new
      <4> QED
        BY <4>1, <4>2
    <3> QED
      BY <1>2, <3>1, <3>2
  <2> QED
    BY <1>1, <2>2, <2>4 DEF CloudOK, Fades, IsUp
<1>3. ASSUME NEW r, DeleteResource(c, r) PROVE \A m \in Id : Fades(m)
  <2>1. CASE UNCHANGED machines
    BY <2>1, SameFade
  <2>2. CASE machines' = Deleting(machines, r[2]) /\ r[2] \in Id
    <3>1. PICK m \in Id : machines' = Deleting(machines, m)
      BY <2>2
    <3> QED
      BY <1>1, <3>1, DeletingMachine DEF Fades
  <2>3. CASE machines' = Deleting(machines, r[2]) /\ r[2] \notin Id
    <3>1. UNCHANGED machines
      BY <1>1, <2>3 DEF Deleting, CloudOK
    <3> QED
      BY <3>1, SameFade
  <2> QED
    BY <1>3, <2>1, <2>2, <2>3 DEF DeleteResource
<1>4. CASE Purge(c) \/ \E e \in Env : Down(c, e)
  BY <1>4, SameFade DEF Purge, Down, Start, cloud
<1>5. CASE Connect(c) \/ Verify(c) \/ FindSnapshot(c) \/ CreateSnapshot(c) \/ Ready(c)
  BY <1>5, SameFade DEF Connect, Verify, FindSnapshot, CreateSnapshot, Ready, cloud
<1>6. CASE Throw(c) \/ Fault(c) \/ Finish(c) \/ DoneStarted(c) \/ DoneWaiting(c)
           \/ FindMachine(c) \/ \E types \in PurgeTypes : ListResources(c, types)
  BY <1>6, SameFade
  DEF Throw, Fault, StopShort, Finish, DoneStarted, DoneWaiting, FindMachine, ListResources, cloud
<1> QED
  BY <1>2, <1>3, <1>4, <1>5, <1>6 DEF Later, DownStep

\* How up gets to the point of creating a machine.
LEMMA CheckSteps ==
  ASSUME LifecycleInv, NEW c \in Cli, CheckMachine(c)
  PROVE  /\ UNCHANGED <<keys, machines, mislaid>> /\ Frame(c)
         /\ cli[c].at = "check" /\ cli'[c].env = cli[c].env
         /\ \/ cli'[c].at = "plan" /\ Found(cli[c].env) = {} /\ Decides(c, None)
            \/ cli'[c].at = "connect"
            \/ cli'[c].at = "replace" /\ Decides(c, cli'[c].machine)
<1>1. DOMAIN cli = Cli /\ DOMAIN cli[c] = Field
  BY InvParts
<1>2. /\ UNCHANGED <<keys, machines, mislaid>> /\ cli[c].at = "check"
      /\ \/ Found(cli[c].env) = {} /\ Go(c, "plan") /\ Decides(c, None)
         \/ \E m \in Found(cli[c].env) :
              /\ cli' = [cli EXCEPT ![c].machine = m, ![c].origin = "existing",
                                    ![c].at = IF SpecDiff(c, m) THEN "replace" ELSE "connect"]
              /\ IF SpecDiff(c, m) THEN Decides(c, m) ELSE UNCHANGED crowded
  BY DEF CheckMachine, At, cloud
<1>3. CASE Found(cli[c].env) = {} /\ Go(c, "plan") /\ Decides(c, None)
  <2>1. Alters(c, {"at"}) /\ cli'[c].at = "plan"
    BY <1>3, GoSteps
  <2>2. crowded \subseteq crowded'
    BY <1>3 DEF Decides
  <2> QED
    BY <1>2, <1>3, <2>1, <2>2 DEF Alters, Field, Frame
<1>4. ASSUME NEW m \in Found(cli[c].env),
             cli' = [cli EXCEPT ![c].machine = m, ![c].origin = "existing",
                       ![c].at = IF SpecDiff(c, m) THEN "replace" ELSE "connect"],
             IF SpecDiff(c, m) THEN Decides(c, m) ELSE UNCHANGED crowded
      PROVE  /\ cli'[c].env = cli[c].env /\ Frame(c)
             /\ \/ cli'[c].at = "connect"
                \/ cli'[c].at = "replace" /\ Decides(c, cli'[c].machine)
  <2>1. /\ cli'[c].machine = m /\ cli'[c].env = cli[c].env
        /\ cli'[c].at = IF SpecDiff(c, m) THEN "replace" ELSE "connect"
        /\ \A d \in Cli \ {c} : cli'[d] = cli[d]
    BY <1>1, <1>4 DEF Field
  <2>2. crowded \subseteq crowded'
    BY <1>4 DEF Decides
  <2> QED
    BY <1>2, <1>4, <2>1, <2>2 DEF Frame
<1> QED
  BY <1>2, <1>3, <1>4

LEMMA PlanSteps ==
  ASSUME LifecycleInv, NEW c \in Cli, PlanMachine(c)
  PROVE  /\ UNCHANGED <<keys, machines>> /\ Frame(c) /\ cli[c].at = "plan"
         /\ cli'[c].at = "key" /\ cli'[c].env = cli[c].env
<1>1. DOMAIN cli = Cli /\ DOMAIN cli[c] = Field
  BY InvParts
<1>2. PICK snap, orig :
        cli' = [cli EXCEPT ![c].at = "key", ![c].snapshot = snap, ![c].origin = orig]
  BY DEF PlanMachine
<1> QED
  BY <1>1, <1>2 DEF PlanMachine, At, Field, cloud, Frame, rest, history

LEMMA UpSteps ==
  ASSUME LifecycleInv, NEW c \in Cli, NEW e \in Env, NEW b \in Wanted, Up(c, e, b)
  PROVE  /\ UNCHANGED <<keys, machines>> /\ Frame(c)
         /\ cli[c].at = "idle" /\ cli'[c].at = "check"
<1>1. DOMAIN Idle = Field
  BY DEF Idle, Field
<1> DEFINE job == [Idle EXCEPT !.at = "check", !.env = e, !.bundle = b]
<1>2. job.at = "check"
  BY <1>1 DEF Field
<1>3. Start(c, job)
  BY DEF Up
<1> HIDE DEF job
<1> QED
  BY <1>2, <1>3, StartSteps DEF cloud, Frame, history

LEMMA KeySteps ==
  ASSUME LifecycleInv, NEW c \in Cli,
         FindKeyPair(c) \/ CreateKeyPair(c) \/ WriteKey(c)
  PROVE  /\ UNCHANGED machines /\ cli'[c].env = cli[c].env /\ Frame(c)
         /\ \/ /\ cli[c].at = "key" /\ cli'[c].at = "createKey" /\ pairs = {}
               /\ UNCHANGED keys
            \/ /\ cli[c].at = "key" /\ cli'[c].at = "create" /\ cli'[c].key \in pairs
               /\ UNCHANGED keys
            \/ /\ cli[c].at = "createKey" /\ cli'[c].at = "writeKey"
               /\ pairs' = pairs \cup {cli'[c].key} /\ UNCHANGED stored
               /\ (\E d \in Cli \ {c} : cli[d].at \in {"createKey", "writeKey"}) =>
                    cli'[c].key \in mislaid'
            \/ /\ cli[c].at = "writeKey" /\ cli'[c].at = "create"
               /\ cli'[c].key = cli[c].key /\ stored' = cli[c].key /\ UNCHANGED pairs
<1>0. DOMAIN cli = Cli /\ DOMAIN cli[c] = Field
  BY InvParts
<1>1. CASE At(c, "key") /\ pairs = {} /\ Go(c, "createKey") /\ UNCHANGED <<cloud, keys, rest>>
  <2>1. Alters(c, {"at"}) /\ cli'[c].at = "createKey"
    BY <1>1, GoSteps
  <2> QED
    BY <1>1, <2>1 DEF At, Alters, Field, cloud, Frame, rest, history
<1>2. ASSUME NEW k \in pairs, At(c, "key"), UNCHANGED <<cloud, keys, rest>>,
             cli' = [cli EXCEPT ![c].key = k, ![c].at = "create"]
      PROVE  /\ cli[c].at = "key" /\ cli'[c].at = "create" /\ cli'[c].key \in pairs
             /\ UNCHANGED <<keys, machines>> /\ cli'[c].env = cli[c].env /\ Frame(c)
  BY <1>0, <1>2 DEF At, Field, cloud, Frame, rest, history
<1>3. CASE CreateKeyPair(c)
  <2>1. PICK k : /\ pairs' = pairs \cup {k} /\ At(c, "createKey")
                 /\ UNCHANGED <<cloud, stored, crowded>>
                 /\ cli' = [cli EXCEPT ![c].key = k, ![c].at = "writeKey"]
                 /\ mislaid' = IF \E d \in Cli \ {c} : cli[d].at \in {"createKey", "writeKey"}
                               THEN mislaid \cup {k} ELSE mislaid
    BY <1>3 DEF CreateKeyPair
  <2>2. /\ cli'[c].key = k /\ cli'[c].at = "writeKey" /\ cli'[c].env = cli[c].env
        /\ \A d \in Cli \ {c} : cli'[d] = cli[d]
    BY <1>0, <2>1 DEF Field
  <2>3. /\ mislaid \subseteq mislaid'
        /\ (\E d \in Cli \ {c} : cli[d].at \in {"createKey", "writeKey"}) => k \in mislaid'
    BY <2>1
  <2>4. UNCHANGED <<machines, stored, crowded>> /\ pairs' = pairs \cup {k}
        /\ cli[c].at = "createKey"
    BY <2>1 DEF cloud, At
  <2>5. Frame(c)
    BY <2>2, <2>3, <2>4 DEF Frame
  <2> QED
    BY <2>2, <2>3, <2>4, <2>5
<1>4. CASE WriteKey(c)
  <2>1. Alters(c, {"at"}) /\ cli'[c].at = "create"
    BY <1>4, GoSteps DEF WriteKey
  <2> QED
    BY <1>4, <2>1 DEF WriteKey, At, Alters, Field, cloud, Frame, rest, history
<1> QED
  BY <1>1, <1>2, <1>3, <1>4 DEF FindKeyPair

LEMMA CreateSteps ==
  ASSUME LifecycleInv, NEW c \in Cli, CreateInstance(c)
  PROVE  UNCHANGED keys /\ Frame(c) /\ cli[c].at = "create" /\ cli'[c].at = "connect"
<1>1. DOMAIN cli = Cli /\ DOMAIN cli[c] = Field
  BY InvParts
<1> QED
  BY <1>1 DEF CreateInstance, At, Field, Frame, rest, history

LEMMA DeleteOldSteps ==
  ASSUME LifecycleInv, NEW c \in Cli, DeleteOld(c)
  PROVE  /\ UNCHANGED keys /\ Frame(c) /\ cli[c].at = "replace" /\ cli'[c].at = "plan"
         /\ cli'[c].env = cli[c].env /\ \A x \in Id : Fades(x)
         /\ \A x \in Id : IsUp(x)' => x # cli[c].machine
<1>1. CommandOK(c) /\ CloudOK /\ cli[c].at = "replace" /\ UNCHANGED <<keys, rest>>
  BY InvParts DEF DeleteOld, At
<1>2. Alters(c, {"at"}) /\ cli'[c].at = "plan"
  BY GoSteps DEF DeleteOld
<1>3. PICK m \in Id : m = cli[c].machine /\ machines' = Deleting(machines, m)
  BY <1>1 DEF DeleteOld, CommandOK
<1>4. \A x \in Id : Fades(x) /\ (IsUp(x)' => x # m)
  BY <1>1, <1>3, DeletingMachine DEF Fades, IsUp
<1> QED
  BY <1>1, <1>2, <1>3, <1>4 DEF Alters, Field, Frame, rest, history

\* A step that leaves the keys alone, of a command that does not go on to them.
LEMMA KeysStay ==
  ASSUME KeysInv, NEW c \in Cli, UNCHANGED keys, Frame(c), \A m \in Id : Fades(m),
         cli[c].at = "writeKey" => cli[c].key \in mislaid',
         cli'[c].at \notin {"createKey", "writeKey", "create"}
  PROVE  KeysInv'
<1>1. UNCHANGED <<pairs, stored>> /\ mislaid \subseteq mislaid'
      /\ \A d \in Cli \ {c} : cli'[d] = cli[d]
  BY DEF keys, Frame
<1>2. \A m \in Id : machines'[m] # None => machines'[m].key \in pairs'
  BY <1>1 DEF KeysInv, Fades
<1>3. ASSUME NEW d \in Cli
      PROVE  /\ At(d, "create")' => cli'[d].key \in pairs'
             /\ At(d, "createKey")' => pairs' \subseteq mislaid'
             /\ At(d, "writeKey")' =>
                  cli'[d].key \in pairs' /\ pairs' \ {cli'[d].key} \subseteq mislaid'
  <2>1. CASE d = c
    BY <2>1 DEF At
  <2>2. CASE d # c
    BY <1>1, <2>2 DEF KeysInv, At
  <2> QED
    BY <2>1, <2>2
<1>4. ASSUME NEW k \in pairs' \ mislaid'
      PROVE  stored' = k \/ \E d \in Cli : At(d, "writeKey")' /\ cli'[d].key = k
  <2>1. k \in pairs \ mislaid
    BY <1>1
  <2>2. CASE stored = k
    BY <1>1, <2>2
  <2>3. ASSUME NEW d \in Cli, At(d, "writeKey"), cli[d].key = k
        PROVE  \E x \in Cli : At(x, "writeKey")' /\ cli'[x].key = k
    <3>1. d # c
      BY <2>3 DEF At
    <3> QED
      BY <1>1, <2>3, <3>1 DEF At
  <2> QED
    BY <2>1, <2>2, <2>3 DEF KeysInv
<1> QED
  BY <1>2, <1>3, <1>4 DEF KeysInv

LEMMA KeyStepKeepsKeys ==
  ASSUME LifecycleInv, KeysInv, NEW c \in Cli,
         FindKeyPair(c) \/ CreateKeyPair(c) \/ WriteKey(c)
  PROVE  KeysInv'
<1>1. /\ UNCHANGED machines /\ mislaid \subseteq mislaid'
      /\ \A d \in Cli \ {c} : cli'[d] = cli[d]
  BY KeySteps DEF Frame
<1>2. CASE cli[c].at = "key"
  <2>1. /\ UNCHANGED <<pairs, stored>>
        /\ \/ cli'[c].at = "createKey" /\ pairs = {}
           \/ cli'[c].at = "create" /\ cli'[c].key \in pairs
    BY <1>2, KeySteps DEF keys
  <2>2. ASSUME NEW d \in Cli
        PROVE  /\ At(d, "create")' => cli'[d].key \in pairs'
               /\ At(d, "createKey")' => pairs' \subseteq mislaid'
               /\ At(d, "writeKey")' =>
                    cli'[d].key \in pairs' /\ pairs' \ {cli'[d].key} \subseteq mislaid'
    <3>1. CASE d = c
      BY <2>1, <3>1 DEF At
    <3>2. CASE d # c
      BY <1>1, <2>1, <3>2 DEF KeysInv, At
    <3> QED
      BY <3>1, <3>2
  <2>3. ASSUME NEW k \in pairs' \ mislaid'
        PROVE  stored' = k \/ \E d \in Cli : At(d, "writeKey")' /\ cli'[d].key = k
    <3>1. stored = k \/ \E d \in Cli : At(d, "writeKey") /\ cli[d].key = k
      BY <1>1, <2>1 DEF KeysInv
    <3> QED
      BY <1>1, <1>2, <2>1, <3>1 DEF At
  <2> QED
    BY <1>1, <2>1, <2>2, <2>3 DEF KeysInv
<1>3. CASE cli[c].at = "createKey"
  <2>1. PICK k : /\ k = cli'[c].key /\ cli'[c].at = "writeKey"
                 /\ pairs' = pairs \cup {k} /\ UNCHANGED stored
                 /\ (\E d \in Cli \ {c} : cli[d].at \in {"createKey", "writeKey"}) =>
                      k \in mislaid'
    BY <1>3, KeySteps
  <2>2. pairs \subseteq mislaid
    BY <1>3 DEF KeysInv, At
  <2>3. ASSUME NEW d \in Cli
        PROVE  /\ At(d, "create")' => cli'[d].key \in pairs'
               /\ At(d, "createKey")' => pairs' \subseteq mislaid'
               /\ At(d, "writeKey")' =>
                    cli'[d].key \in pairs' /\ pairs' \ {cli'[d].key} \subseteq mislaid'
    <3>1. CASE d = c
      BY <1>1, <2>1, <2>2, <3>1 DEF At
    <3>2. CASE d # c
      <4>1. cli'[d] = cli[d]
        BY <1>1, <3>2
      <4>2. cli[d].at \in {"createKey", "writeKey"} => k \in mislaid'
        BY <2>1, <3>2
      <4> QED
        BY <1>1, <2>1, <2>2, <4>1, <4>2 DEF KeysInv, At
    <3> QED
      BY <3>1, <3>2
  <2>4. ASSUME NEW j \in pairs' \ mislaid'
        PROVE  \E d \in Cli : At(d, "writeKey")' /\ cli'[d].key = j
    <3>1. j = k
      BY <1>1, <2>1, <2>2
    <3> QED
      BY <2>1, <3>1 DEF At
  <2>5. \A m \in Id : machines'[m] # None => machines'[m].key \in pairs'
    BY <1>1, <2>1 DEF KeysInv
  <2> QED
    BY <2>3, <2>4, <2>5 DEF KeysInv
<1>4. CASE cli[c].at = "writeKey"
  <2>1. /\ cli'[c].at = "create" /\ cli'[c].key = cli[c].key
        /\ stored' = cli[c].key /\ UNCHANGED pairs
    BY <1>4, KeySteps
  <2>2. cli[c].key \in pairs /\ pairs \ {cli[c].key} \subseteq mislaid
    BY <1>4 DEF KeysInv, At
  <2>3. ASSUME NEW d \in Cli
        PROVE  /\ At(d, "create")' => cli'[d].key \in pairs'
               /\ At(d, "createKey")' => pairs' \subseteq mislaid'
               /\ At(d, "writeKey")' =>
                    cli'[d].key \in pairs' /\ pairs' \ {cli'[d].key} \subseteq mislaid'
    <3>1. CASE d = c
      BY <2>1, <2>2, <3>1 DEF At
    <3>2. CASE d # c
      BY <1>1, <2>1, <3>2 DEF KeysInv, At
    <3> QED
      BY <3>1, <3>2
  <2>4. \A k \in pairs' \ mislaid' : stored' = k
    BY <1>1, <2>1, <2>2
  <2> QED
    BY <1>1, <2>1, <2>3, <2>4 DEF KeysInv
<1> QED
  BY <1>2, <1>3, <1>4, KeySteps

LEMMA CreateKeepsKeys ==
  ASSUME LifecycleInv, KeysInv, NEW c \in Cli, CreateInstance(c)
  PROVE  KeysInv'
<1>1. /\ UNCHANGED <<pairs, stored>> /\ mislaid \subseteq mislaid'
      /\ cli[c].at = "create" /\ cli'[c].at = "connect"
      /\ \A d \in Cli \ {c} : cli'[d] = cli[d]
  BY CreateSteps DEF keys, Frame
<1>2. PICK n \in Id, new \in Machine :
        machines' = [machines EXCEPT ![n] = new] /\ new.key = cli[c].key
  BY NewMachine
<1>3. CloudOK
  BY DEF LifecycleInv
<1>4. \A m \in Id : machines'[m] # None => machines'[m].key \in pairs'
  BY <1>1, <1>2, <1>3 DEF KeysInv, At, CloudOK
<1>5. ASSUME NEW d \in Cli
      PROVE  /\ At(d, "create")' => cli'[d].key \in pairs'
             /\ At(d, "createKey")' => pairs' \subseteq mislaid'
             /\ At(d, "writeKey")' =>
                  cli'[d].key \in pairs' /\ pairs' \ {cli'[d].key} \subseteq mislaid'
  <2>1. CASE d = c
    BY <1>1, <2>1 DEF At
  <2>2. CASE d # c
    BY <1>1, <2>2 DEF KeysInv, At
  <2> QED
    BY <2>1, <2>2
<1>6. ASSUME NEW k \in pairs' \ mislaid'
      PROVE  stored' = k \/ \E d \in Cli : At(d, "writeKey")' /\ cli'[d].key = k
  <2>1. stored = k \/ \E d \in Cli : At(d, "writeKey") /\ cli[d].key = k
    BY <1>1 DEF KeysInv
  <2> QED
    BY <1>1, <2>1 DEF At
<1> QED
  BY <1>4, <1>5, <1>6 DEF KeysInv

LEMMA StepKeepsKeys ==
  ASSUME LifecycleInv, KeysInv, [Next]_vars
  PROVE  KeysInv'
<1>1. CASE UNCHANGED vars
  BY <1>1 DEF vars, cloud, keys, rest, history, KeysInv, At
<1>2. CASE Provider
  <2>1. /\ UNCHANGED <<keys, cli, rest>>
        /\ \A x \in Id : machines'[x] # None => machines'[x] = machines[x]
    BY <1>2, ProviderStep DEF LifecycleInv
  <2> QED
    BY <2>1 DEF KeysInv, At, keys, rest, history
<1>3. ASSUME NEW c \in Cli, Later(c) PROVE KeysInv'
  <2>1. \A m \in Id : Fades(m)
    BY <1>3, LaterFade
  <2> QED
    BY <1>3, <2>1, LaterSteps, KeysStay DEF Creating
<1>4. ASSUME NEW c \in Cli,
             CheckMachine(c) \/ PlanMachine(c) \/ \E e \in Env, b \in Wanted : Up(c, e, b)
      PROVE  KeysInv'
  <2>1. /\ UNCHANGED <<keys, machines>> /\ cli[c].at # "writeKey" /\ Frame(c)
        /\ cli'[c].at \notin {"createKey", "writeKey", "create"}
    BY <1>4, CheckSteps, PlanSteps, UpSteps
  <2> QED
    BY <2>1, SameFade, KeysStay
<1>5. ASSUME NEW c \in Cli, DeleteOld(c) PROVE KeysInv'
  BY <1>5, DeleteOldSteps, KeysStay
<1>6. ASSUME NEW c \in Cli, FindKeyPair(c) \/ CreateKeyPair(c) \/ WriteKey(c)
      PROVE  KeysInv'
  BY <1>6, KeyStepKeepsKeys
<1>7. ASSUME NEW c \in Cli, CreateInstance(c) PROVE KeysInv'
  BY <1>7, CreateKeepsKeys
<1> QED
  BY <1>1, <1>2, <1>3, <1>4, <1>5, <1>6, <1>7 DEF Next, Step, UpStep, Later

\* However commands interleave, fail and are killed, the stored private key opens every
\* machine, or is about to: but for the machines of a key pair that two commands made at
\* a time, or whose maker stopped before it had stored the key (ensureMachineKeyPair
\* and the key store of the profile).
THEOREM KeyUsableCorrect == Spec => []KeyUsable
<1>1. Init => KeysInv
  BY DEF Init, KeysInv, At, Idle
<1>2. LifecycleInv /\ KeysInv /\ [Next]_vars => KeysInv'
  BY StepKeepsKeys
<1>3. KeysInv => KeyUsable
  BY DEF KeysInv, KeyUsable
<1> QED
  BY <1>1, <1>2, <1>3, LifecycleInvariance, PTL DEF Spec

\* Machines that fade leave at most one that runs in an environment.
LEMMA FadesKeepOne ==
  ASSUME OneMachinePerEnv, crowded \subseteq crowded', \A m \in Id : Fades(m)
  PROVE  /\ OneMachinePerEnv'
         /\ \A m \in Id : IsUp(m)' => IsUp(m) /\ machines'[m].env = machines[m].env
<1>1. \A m \in Id : IsUp(m)' => IsUp(m) /\ machines'[m].env = machines[m].env
  BY DEF Fades, IsUp
<1>2. \A m, n \in Id :
        (IsUp(m)' /\ IsUp(n)' /\ machines'[m].env = machines'[n].env
         /\ machines'[m].env \notin crowded') => m = n
  BY <1>1 DEF OneMachinePerEnv
<1> QED
  BY <1>1, <1>2 DEF OneMachinePerEnv

\* A step in which no machine starts to run, of a command that has not decided to create
\* one, or decided so before.
LEMMA PlacesStay ==
  ASSUME PlacesInv, NEW c \in Cli, Frame(c), \A m \in Id : Fades(m),
         Decided(c)' => /\ Decided(c) /\ cli[c].at # "replace"
                        /\ cli'[c].env = cli[c].env
  PROVE  PlacesInv'
<1>1. /\ crowded \subseteq crowded' /\ OneMachinePerEnv
      /\ \A d \in Cli \ {c} : cli'[d] = cli[d]
  BY DEF Frame, PlacesInv
<1>2. /\ OneMachinePerEnv'
      /\ \A m \in Id : IsUp(m)' => IsUp(m) /\ machines'[m].env = machines[m].env
  BY <1>1, FadesKeepOne
<1>3. \A d \in Cli : Decided(d)' => Decided(d) /\ cli'[d].env = cli[d].env
  BY <1>1 DEF Decided
<1>4. ASSUME NEW d \in Cli, Decided(d)', cli'[d].env \notin crowded'
      PROVE  /\ \A x \in Cli : Decided(x)' /\ cli'[x].env = cli'[d].env => x = d
             /\ \A m \in Id : IsUp(m)' /\ machines'[m].env = cli'[d].env =>
                  At(d, "replace")' /\ m = cli'[d].machine
  <2>1. /\ Decided(d) /\ cli'[d].env = cli[d].env /\ cli[d].env \notin crowded
    BY <1>1, <1>3, <1>4
  <2>2. \A x \in Cli : Decided(x)' /\ cli'[x].env = cli'[d].env => x = d
    BY <1>3, <2>1 DEF PlacesInv
  <2>3. ASSUME NEW m \in Id, IsUp(m)', machines'[m].env = cli'[d].env
        PROVE  At(d, "replace")' /\ m = cli'[d].machine
    <3>1. At(d, "replace") /\ m = cli[d].machine
      BY <1>2, <2>1, <2>3 DEF PlacesInv
    <3>2. d # c
      BY <1>4, <3>1 DEF At
    <3> QED
      BY <1>1, <3>1, <3>2 DEF At
  <2> QED
    BY <2>2, <2>3
<1> QED
  BY <1>2, <1>4 DEF PlacesInv

\* The command decides to create a machine.
LEMMA DecisionKeepsPlaces ==
  ASSUME PlacesInv, NEW c \in Cli, UNCHANGED machines, Frame(c), ~Decided(c),
         cli'[c].env = cli[c].env,
         \/ cli'[c].at = "plan" /\ Found(cli[c].env) = {}
         \/ cli'[c].at = "replace" /\ Decides(c, cli'[c].machine),
         Decides(c, None) \/ cli'[c].at = "replace"
  PROVE  PlacesInv'
<1>1. /\ crowded \subseteq crowded' /\ OneMachinePerEnv
      /\ \A d \in Cli \ {c} : cli'[d] = cli[d]
  BY DEF Frame, PlacesInv
<1>2. OneMachinePerEnv' /\ \A m \in Id : IsUp(m)' = IsUp(m)
  BY <1>1, SameFade, FadesKeepOne DEF IsUp
<1>3. PICK e : e = cli[c].env
  OBVIOUS
<1>4. ASSUME e \notin crowded'
      PROVE  /\ \A d \in Cli : Decided(d) => cli[d].env # e
             /\ \A m \in Id : IsUp(m) /\ machines[m].env = e =>
                  cli'[c].at = "replace" /\ m = cli'[c].machine
  <2>1. CASE cli'[c].at = "plan" /\ Found(e) = {} /\ Decides(c, None)
    BY <1>3, <1>4, <2>1 DEF Decides, Crowds, Found, IsUp
  <2>2. CASE cli'[c].at = "replace" /\ Decides(c, cli'[c].machine)
    BY <1>3, <1>4, <2>2 DEF Decides, Crowds, Found, IsUp
  <2> QED
    BY <1>3, <2>1, <2>2
<1>5. ASSUME NEW d \in Cli, Decided(d)', cli'[d].env \notin crowded'
      PROVE  /\ \A x \in Cli : Decided(x)' /\ cli'[x].env = cli'[d].env => x = d
             /\ \A m \in Id : IsUp(m)' /\ machines'[m].env = cli'[d].env =>
                  At(d, "replace")' /\ m = cli'[d].machine
  <2>1. CASE d = c
    <3>1. \A x \in Cli \ {c} : ~(Decided(x)' /\ cli'[x].env = e)
      BY <1>1, <1>3, <1>4, <1>5, <2>1 DEF Decided
    <3> QED
      BY <1>2, <1>3, <1>4, <1>5, <2>1, <3>1 DEF At
  <2>2. CASE d # c
    <3>1. cli'[d] = cli[d] /\ Decided(d) /\ cli[d].env \notin crowded
      BY <1>1, <1>5, <2>2 DEF Decided
    <3>2. cli[d].env # e
      BY <1>4, <1>5, <3>1
    <3>3. \A x \in Cli : Decided(x)' /\ cli'[x].env = cli'[d].env => x = d
      <4>1. \A x \in Cli \ {c} : Decided(x)' => Decided(x) /\ cli'[x].env = cli[x].env
        BY <1>1 DEF Decided
      <4> QED
        BY <1>3, <3>1, <3>2, <4>1 DEF PlacesInv
    <3>4. \A m \in Id : IsUp(m)' /\ machines'[m].env = cli'[d].env =>
            At(d, "replace")' /\ m = cli'[d].machine
      BY <1>2, <3>1 DEF PlacesInv, At
    <3> QED
      BY <3>3, <3>4
  <2> QED
    BY <2>1, <2>2
<1> QED
  BY <1>2, <1>5 DEF PlacesInv

LEMMA DeleteOldKeepsPlaces ==
  ASSUME LifecycleInv, PlacesInv, NEW c \in Cli, DeleteOld(c)
  PROVE  PlacesInv'
<1>1. /\ crowded \subseteq crowded' /\ OneMachinePerEnv
      /\ \A d \in Cli \ {c} : cli'[d] = cli[d]
      /\ cli[c].at = "replace" /\ cli'[c].at = "plan" /\ cli'[c].env = cli[c].env
      /\ \A x \in Id : IsUp(x)' => x # cli[c].machine
  BY DeleteOldSteps DEF Frame, PlacesInv
<1>2. /\ OneMachinePerEnv'
      /\ \A m \in Id : IsUp(m)' => IsUp(m) /\ machines'[m].env = machines[m].env
  BY <1>1, DeleteOldSteps, FadesKeepOne
<1>3. \A d \in Cli : Decided(d)' => Decided(d) /\ cli'[d].env = cli[d].env
  BY <1>1 DEF Decided
<1>4. ASSUME NEW d \in Cli, Decided(d)', cli'[d].env \notin crowded'
      PROVE  /\ \A x \in Cli : Decided(x)' /\ cli'[x].env = cli'[d].env => x = d
             /\ \A m \in Id : IsUp(m)' /\ machines'[m].env = cli'[d].env =>
                  At(d, "replace")' /\ m = cli'[d].machine
  <2>1. /\ Decided(d) /\ cli'[d].env = cli[d].env /\ cli[d].env \notin crowded
    BY <1>1, <1>3, <1>4
  <2>2. \A x \in Cli : Decided(x)' /\ cli'[x].env = cli'[d].env => x = d
    BY <1>3, <2>1 DEF PlacesInv
  <2>3. ASSUME NEW m \in Id, IsUp(m)', machines'[m].env = cli'[d].env
        PROVE  At(d, "replace")' /\ m = cli'[d].machine
    <3>1. At(d, "replace") /\ m = cli[d].machine
      BY <1>2, <2>1, <2>3 DEF PlacesInv
    <3>2. d # c
      BY <1>1, <2>3, <3>1
    <3> QED
      BY <1>1, <3>1, <3>2 DEF At
  <2> QED
    BY <2>2, <2>3
<1> QED
  BY <1>2, <1>4 DEF PlacesInv

LEMMA CreateKeepsPlaces ==
  ASSUME LifecycleInv, PlacesInv, NEW c \in Cli, CreateInstance(c)
  PROVE  PlacesInv'
<1>1. /\ crowded \subseteq crowded' /\ CloudOK
      /\ \A d \in Cli \ {c} : cli'[d] = cli[d]
      /\ cli[c].at = "create" /\ cli'[c].at = "connect"
  BY CreateSteps DEF Frame, LifecycleInv
<1>2. PICK k \in Id, new \in Machine :
        machines' = [machines EXCEPT ![k] = new] /\ new.env = cli[c].env
  BY NewMachine
<1>3. PICK e : e = cli[c].env
  OBVIOUS
<1>4. machines'[k].env = e /\ \A m \in Id \ {k} : machines'[m] = machines[m]
  BY <1>1, <1>2, <1>3 DEF CloudOK
<1>5. ASSUME e \notin crowded'
      PROVE  /\ \A m \in Id : IsUp(m) => machines[m].env # e
             /\ \A d \in Cli \ {c} : Decided(d) => cli[d].env # e
  BY <1>1, <1>3, <1>5 DEF PlacesInv, Decided, At
<1>6. \A m, n \in Id :
        (IsUp(m)' /\ IsUp(n)' /\ machines'[m].env = machines'[n].env
         /\ machines'[m].env \notin crowded') => m = n
  <2> SUFFICES ASSUME NEW m \in Id, NEW n \in Id, IsUp(m)', IsUp(n)',
                      machines'[m].env = machines'[n].env, machines'[m].env \notin crowded'
               PROVE  m = n
    OBVIOUS
  <2>1. m # k => IsUp(m) /\ machines'[m].env = machines[m].env
    BY <1>4 DEF IsUp
  <2>2. n # k => IsUp(n) /\ machines'[n].env = machines[n].env
    BY <1>4 DEF IsUp
  <2>3. CASE m # k /\ n # k
    BY <1>1, <2>1, <2>2, <2>3 DEF PlacesInv, OneMachinePerEnv
  <2>4. CASE m = k \/ n = k
    BY <1>4, <1>5, <2>1, <2>2, <2>4
  <2> QED
    BY <2>3, <2>4
<1>7. ASSUME NEW d \in Cli, Decided(d)', cli'[d].env \notin crowded'
      PROVE  /\ \A x \in Cli : Decided(x)' /\ cli'[x].env = cli'[d].env => x = d
             /\ \A m \in Id : IsUp(m)' /\ machines'[m].env = cli'[d].env =>
                  At(d, "replace")' /\ m = cli'[d].machine
  <2>1. d # c /\ \A x \in Cli : Decided(x)' => x # c /\ Decided(x) /\ cli'[x].env = cli[x].env
    BY <1>1, <1>7 DEF Decided
  <2>2. cli'[d] = cli[d] /\ Decided(d) /\ cli[d].env \notin crowded /\ cli[d].env # e
    BY <1>1, <1>5, <1>7, <2>1
  <2>3. \A x \in Cli : Decided(x)' /\ cli'[x].env = cli'[d].env => x = d
    BY <2>1, <2>2 DEF PlacesInv
  <2>4. ASSUME NEW m \in Id, IsUp(m)', machines'[m].env = cli'[d].env
        PROVE  At(d, "replace")' /\ m = cli'[d].machine
    <3>1. m # k /\ IsUp(m) /\ machines[m].env = cli[d].env
      BY <1>4, <2>2, <2>4 DEF IsUp
    <3> QED
      BY <2>2, <3>1 DEF PlacesInv, At
  <2> QED
    BY <2>3, <2>4
<1> QED
  BY <1>6, <1>7 DEF PlacesInv, OneMachinePerEnv

LEMMA StepKeepsPlaces ==
  ASSUME LifecycleInv, PlacesInv, [Next]_vars
  PROVE  PlacesInv'
<1>1. CASE UNCHANGED vars
  BY <1>1
  DEF vars, cloud, rest, history, PlacesInv, OneMachinePerEnv, IsUp, Decided, At
<1>2. CASE Provider
  <2>1. /\ UNCHANGED <<cli, crowded>>
        /\ \A x \in Id : machines'[x] # None => machines'[x] = machines[x]
    BY <1>2, ProviderStep DEF LifecycleInv, rest, history
  <2>2. /\ OneMachinePerEnv'
        /\ \A m \in Id : IsUp(m)' => IsUp(m) /\ machines'[m].env = machines[m].env
    BY <2>1, FadesKeepOne DEF PlacesInv, Fades, IsUp
  <2> QED
    BY <2>1, <2>2 DEF PlacesInv, Decided, At
<1>3. ASSUME NEW c \in Cli, Later(c) PROVE PlacesInv'
  BY <1>3, LaterFade, LaterSteps, PlacesStay DEF Creating, Decided
<1>4. ASSUME NEW c \in Cli, NEW e \in Env, NEW b \in Wanted, Up(c, e, b)
      PROVE  PlacesInv'
  BY <1>4, UpSteps, SameFade, PlacesStay DEF Decided
<1>5. ASSUME NEW c \in Cli, CheckMachine(c) PROVE PlacesInv'
  <2>1. CASE cli'[c].at = "connect"
    BY <1>5, <2>1, CheckSteps, SameFade, PlacesStay DEF Decided
  <2>2. CASE cli'[c].at # "connect"
    BY <1>5, <2>2, CheckSteps, DecisionKeepsPlaces DEF Decided
  <2> QED
    BY <2>1, <2>2
<1>6. ASSUME NEW c \in Cli, DeleteOld(c) PROVE PlacesInv'
  BY <1>6, DeleteOldKeepsPlaces
<1>7. ASSUME NEW c \in Cli,
             PlanMachine(c) \/ FindKeyPair(c) \/ CreateKeyPair(c) \/ WriteKey(c)
      PROVE  PlacesInv'
  <2>1. /\ UNCHANGED machines /\ cli'[c].env = cli[c].env /\ Frame(c)
        /\ cli[c].at \in {"plan", "key", "createKey", "writeKey"}
    BY <1>7, PlanSteps, KeySteps
  <2> QED
    BY <2>1, SameFade, PlacesStay DEF Decided
<1>8. ASSUME NEW c \in Cli, CreateInstance(c) PROVE PlacesInv'
  BY <1>8, CreateKeepsPlaces
<1> QED
  BY <1>1, <1>2, <1>3, <1>4, <1>5, <1>6, <1>7, <1>8 DEF Next, Step, UpStep, Later

\* However commands interleave, fail and are killed, and however long deletions take, an
\* environment never has two machines that run, but for one for which two commands have
\* decided to create a machine at a time, or one has replaced the wrong machine: the old
\* one is on its way out before a new one is created (ensureBareMachine).
THEOREM OneMachineCorrect == Spec => []OneMachinePerEnv
<1>1. Init => PlacesInv
  BY DEF Init, PlacesInv, OneMachinePerEnv, IsUp, Decided, Idle
<1>2. LifecycleInv /\ PlacesInv /\ [Next]_vars => PlacesInv'
  BY StepKeepsPlaces
<1>3. PlacesInv => OneMachinePerEnv
  BY DEF PlacesInv
<1> QED
  BY <1>1, <1>2, <1>3, LifecycleInvariance, PTL DEF Spec

-----------------------------------------------------------------------------
(* The session of a command with its machine *)

MachineSpec == MachineInit /\ [][MachineNext]_machineVars

SessionFields == {"at", "job", "driver", "conn", "last", "tries", "new", "build"}

\* A command has one connection at the most, the last one it made, and none when
\* it connects anew; nobody is connected to a local server that is not there.
MachineInv ==
  /\ DOMAIN session = SessionFields
  /\ open \subseteq {session.conn}
  /\ Doing({"idle", "connect", "reconnect", "spawn"}) => open = {}
  /\ forwarder \in {0, session.conn}
  /\ forwarder = 0 => \A d \in DockerClient : wire[d] = "none"
  /\ DOMAIN wire = DockerClient
  /\ LeavesNothing

LEMMA MachineInitHasInv == MachineInit => MachineInv
BY DEF MachineInit, MachineInv, LeavesNothing, NoSession, NoWires, SessionFields, Doing

LEMMA GoneKeepsInv == MachineInv /\ Gone => MachineInv'
BY DEF Gone, MachineInv, LeavesNothing, NoSession, NoWires, SessionFields, Doing

\* A step of a command without a local server.
LEMMA PlainKeepsInv ==
  ASSUME MachineInv, forwarder = 0, UNCHANGED <<forwarder, wire>>,
         DOMAIN session' = SessionFields, open' \subseteq {session'.conn},
         Doing({"idle", "connect", "reconnect", "spawn"})' => open' = {},
         Doing({"returned"})' => session'.job = "logs" \/ open' = {}
  PROVE  MachineInv'
BY DEF MachineInv, LeavesNothing

\* A failure keeps what there is.
LEMMA BreaksKeepsInv == MachineInv /\ Breaks => MachineInv'
<1> SUFFICES ASSUME MachineInv, Breaks PROVE MachineInv'
  OBVIOUS
<1>1. /\ DOMAIN session' = SessionFields /\ session'.at = "failed" /\ session'.conn = session.conn
      /\ session'.driver = session.driver /\ UNCHANGED <<open, forwarder, wire>>
  BY DEF Breaks, Goes, MachineInv, SessionFields
<1>2. Usable' = Usable
  BY <1>1 DEF Usable, Holding
<1> QED
  BY <1>1, <1>2 DEF MachineInv, LeavesNothing, Doing

\* Clients come and go only while the local server and its connection are there.
LEMMA WiresKeepInv ==
  ASSUME MachineInv, forwarder # 0, UNCHANGED <<session, open, forwarder>>,
         DOMAIN wire' = DockerClient,
         Usable \/ \A d \in DockerClient : wire'[d] \in {"none", "stuck"}
  PROVE  MachineInv'
BY DEF MachineInv, LeavesNothing, Usable, Holding, Doing

LEMMA MachineStepKeepsInv == MachineInv /\ [MachineNext]_machineVars => MachineInv'
<1> SUFFICES ASSUME MachineInv, [MachineNext]_machineVars PROVE MachineInv'
  OBVIOUS
<1>a. ~Doing({"compose", "failed"}) => forwarder = 0
  BY DEF MachineInv, LeavesNothing
<1>1. ASSUME NEW job, NEW driver, NEW new, NEW build, Runs(job, driver, new, build)
      PROVE  MachineInv'
  <2>1. DOMAIN session' = SessionFields /\ session'.at \in {"spawn", "connect"}
    BY <1>1 DEF Runs, NoSession, SessionFields
  <2>2. open = {} /\ open' = {} /\ forwarder = 0 /\ UNCHANGED <<forwarder, wire>>
    BY <1>1, <1>a DEF Runs, MachineInv, Doing
  <2> QED
    BY <2>1, <2>2, PlainKeepsInv DEF Doing
<1>2. CASE ErrorExits \/ Killed \/ LoopEmpties \/ ShellExits
  BY <1>2, GoneKeepsInv DEF ErrorExits, Killed, LoopEmpties, ShellExits
<1>3. CASE Connects
  <2>1. /\ DOMAIN session' = SessionFields /\ session'.conn = session.last + 1
        /\ session'.at \in {"first container", "socket", "exec", "failed"}
    BY <1>3 DEF Connects, AfterConnect, MachineInv, SessionFields
  <2>2. open = {} /\ open' \subseteq {session.last + 1} /\ forwarder = 0
        /\ UNCHANGED <<forwarder, wire>>
    BY <1>3, <1>a DEF Connects, Holding, MachineInv, Doing
  <2> QED
    BY <2>1, <2>2, PlainKeepsInv DEF Doing
<1>4. CASE Unreached
  <2>1. CASE Breaks
    BY <2>1, BreaksKeepsInv
  <2>2. CASE ~Breaks
    <3>1. /\ DOMAIN session' = SessionFields /\ session'.at = session.at /\ session'.conn = session.conn
          /\ UNCHANGED <<open, forwarder, wire>>
      BY <1>4, <2>2 DEF Unreached, MachineInv, SessionFields
    <3>2. forwarder = 0 /\ open = {} /\ session.at # "returned"
      BY <1>4, <1>a DEF Unreached, Doing, MachineInv
    <3> QED
      BY <3>1, <3>2, PlainKeepsInv DEF Doing
  <2> QED
    BY <2>1, <2>2
<1>5. ASSUME NEW c \in open, ConnectionLost(c) PROVE MachineInv'
  <2>1. c = session.conn /\ open' = {} /\ UNCHANGED session
    BY <1>5 DEF ConnectionLost, MachineInv
  <2>2. CASE forwarder = c
    <3>1. forwarder' = 0 /\ wire' = NoWires
      BY <1>5, <2>2 DEF ConnectionLost
    <3> QED
      BY <2>1, <3>1 DEF MachineInv, LeavesNothing, NoWires, Doing
  <2>3. CASE forwarder # c
    <3>1. forwarder = 0 /\ UNCHANGED <<forwarder, wire>>
      BY <1>5, <2>1, <2>3 DEF ConnectionLost, MachineInv
    <3> QED
      BY <2>1, <3>1, PlainKeepsInv DEF MachineInv
  <2> QED
    BY <2>2, <2>3
<1>6. CASE FirstContainer
  <2>1. /\ DOMAIN session' = SessionFields /\ session'.at = "exec" /\ session'.conn = session.conn
        /\ UNCHANGED <<open, forwarder, wire>>
    BY <1>6 DEF FirstContainer, Goes, MachineInv, SessionFields
  <2> QED
    BY <1>6, <1>a, <2>1, PlainKeepsInv DEF FirstContainer, Doing, MachineInv
<1>7. CASE FirstContainerFails
  <2>1. /\ DOMAIN session' = SessionFields /\ session'.at = "reconnect"
        /\ UNCHANGED <<forwarder, wire>>
    BY <1>7 DEF FirstContainerFails, Goes, MachineInv, SessionFields
  <2>2. open' = {}
    BY <1>7 DEF FirstContainerFails, MachineInv
  <2> QED
    BY <1>7, <1>a, <2>1, <2>2, PlainKeepsInv DEF FirstContainerFails, Doing
<1>8. CASE ExecSucceeds
  <2>1. /\ DOMAIN session' = SessionFields /\ session'.conn = session.conn
        /\ UNCHANGED <<forwarder, wire>> /\ forwarder = 0
    BY <1>8, <1>a DEF ExecSucceeds, Goes, Doing, MachineInv, SessionFields
  <2>2. \/ session'.at = "returned" /\ open' = {}
        \/ session'.at = "socket" /\ open' = open
    BY <1>8 DEF ExecSucceeds, Goes, MachineInv, SessionFields
  <2>3. open' \subseteq {session'.conn}
    BY <2>1, <2>2 DEF MachineInv
  <2> QED
    BY <2>1, <2>2, <2>3, PlainKeepsInv DEF Doing
<1>9. CASE ExecFails \/ ComposeFails \/ UrlsFail \/ ShellFails
  BY <1>9, BreaksKeepsInv DEF ExecFails, ComposeFails, UrlsFail, ShellFails
<1>10. CASE dockerEnvContext
  <2>1. CASE Breaks
    BY <2>1, BreaksKeepsInv
  <2>2. CASE ~Breaks
    <3>1. forwarder' = session.conn /\ Goes("compose") /\ UNCHANGED <<open, wire>>
      BY <1>10, <2>2 DEF dockerEnvContext
    <3>2. \A d \in DockerClient : wire[d] = "none"
      BY <1>10, <1>a DEF dockerEnvContext, Doing, MachineInv
    <3>3. DOMAIN session' = SessionFields /\ session'.at = "compose" /\ session'.conn = session.conn
      BY <3>1 DEF Goes, MachineInv, SessionFields
    <3> QED
      BY <3>1, <3>2, <3>3 DEF MachineInv, LeavesNothing, Doing
  <2> QED
    BY <2>1, <2>2
<1>11. ASSUME NEW d \in DockerClient, DockerConnects(d) PROVE MachineInv'
  <2>1. forwarder # 0 /\ UNCHANGED <<session, open, forwarder>>
        /\ wire' = [wire EXCEPT ![d] = IF Usable THEN "asked" ELSE "stuck"]
    BY <1>11 DEF DockerConnects
  <2>2. Usable \/ \A e \in DockerClient : wire'[e] \in {"none", "stuck"}
    BY <2>1 DEF MachineInv, LeavesNothing
  <2> QED
    BY <2>1, <2>2, WiresKeepInv DEF MachineInv
<1>12. ASSUME NEW d \in DockerClient, Forwarded(d) \/ Answered(d) PROVE MachineInv'
  <2>1. UNCHANGED <<session, open, forwarder>> /\ DOMAIN wire' = DockerClient
        /\ wire[d] \in {"asked", "piped"}
    BY <1>12 DEF Forwarded, Answered, MachineInv
  <2>2. forwarder # 0 /\ Usable
    BY <2>1 DEF MachineInv, LeavesNothing
  <2> QED
    BY <2>1, <2>2, WiresKeepInv
<1>13. CASE ComposeEnds
  <2>1. /\ DOMAIN session' = SessionFields /\ session'.conn = session.conn /\ session'.job = session.job
        /\ session'.at \in {"returned", "exec", "urls"}
        /\ session'.at = "returned" => session.job = "logs"
    BY <1>13 DEF ComposeEnds, MachineInv, SessionFields
  <2>2. UNCHANGED open /\ forwarder' = 0 /\ wire' = NoWires
    BY <1>13 DEF ComposeEnds
  <2> QED
    BY <2>1, <2>2 DEF MachineInv, LeavesNothing, NoWires, Doing
<1>14. CASE UpReturns
  <2>1. DOMAIN session' = SessionFields /\ session'.at = "returned" /\ UNCHANGED <<forwarder, wire>>
    BY <1>14 DEF UpReturns, Goes, MachineInv, SessionFields
  <2>2. open' = {} /\ forwarder = 0
    BY <1>14, <1>a DEF UpReturns, Doing, MachineInv
  <2> QED
    BY <2>1, <2>2, PlainKeepsInv
<1>15. CASE spawnRemoteCommand \/ ShellEnds
  <2>1. /\ DOMAIN session' = SessionFields /\ session'.at \in {"shell", "shell exits"}
        /\ session'.conn = session.conn /\ UNCHANGED <<open, forwarder, wire>>
    BY <1>15 DEF spawnRemoteCommand, ShellEnds, Goes, MachineInv, SessionFields
  <2>2. forwarder = 0
    BY <1>15, <1>a DEF spawnRemoteCommand, ShellEnds, Doing
  <2> QED
    BY <2>1, <2>2, PlainKeepsInv DEF MachineInv, Doing
<1>16. CASE KeyRemoved \/ UNCHANGED machineVars
  BY <1>16 DEF KeyRemoved, machineVars, MachineInv, LeavesNothing, Usable, Holding, Doing
<1> QED
  BY <1>1, <1>2, <1>3, <1>4, <1>5, <1>6, <1>7, <1>8, <1>9, <1>10, <1>11, <1>12, <1>13, <1>14,
     <1>15, <1>16 DEF MachineNext

\* Connections that are lost and made again at any point, any number of clients of
\* the local server and any number of retries: nothing is left of a command that
\* is done (customizeNewMachine, withConnection, forwardOutStreamLocal).
THEOREM LeavesNothingCorrect == MachineSpec => []LeavesNothing
<1>1. MachineInv => LeavesNothing
  BY DEF MachineInv
<1> QED
  BY <1>1, MachineInitHasInv, MachineStepKeepsInv, PTL DEF MachineSpec

=============================================================================
