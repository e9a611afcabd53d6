------------------------------ MODULE CloudProofs ------------------------------
(****************************************************************************)
(* Proofs about the machines of the Azure and the GCE driver, for any       *)
(* number of commands, environments, machines and faults.  Every machine    *)
(* lives once (LivesOnce); and with it, where commands did not work on the  *)
(* same environment at a time or stop on the way, an environment has one    *)
(* machine at most (OneMachinePerEnv), up ends with the one it was asked    *)
(* for (ReadyAsAsked), and purge leaves nothing (PurgeLeavesNothing).       *)
(****************************************************************************)
EXTENDS CloudMachines, FiniteSetTheorems, TLAPS

MachineFields == {"env", "size", "status"}

\* A machine that has not been created yet is absent: nothing else touches it.
LifeInv ==
  /\ created \in Id
  /\ DOMAIN machine = Id /\ \A m \in Id : DOMAIN machine[m] = MachineFields
  /\ \A m \in Id : m > created => machine[m].status = "absent"

\* Where the status of a machine may go in one step.
Follows(from, to) ==
  \/ to = from
  \/ from = "absent" /\ to \in {"parts", "starting"}
  \/ from = "parts" /\ to \in {"starting", "emptied"}
  \/ from = "starting" /\ to \in {"running", "stopped", "ending", "gone"}
  \/ from = "running" /\ to \in {"stopped", "ending"}
  \/ from = "stopped" /\ to = "ending"
  \/ from = "ending" /\ to \in {"emptied", "gone"}
  \/ from = "emptied" /\ to = "gone"

StatusFollows == \A m \in Id : Follows(machine[m].status, machine'[m].status)

LEMMA InitHasInv == Init => LifeInv
<1> SUFFICES ASSUME Init PROVE LifeInv
  OBVIOUS
<1> USE CloudAssumption
<1>1. PICK e \in Env, there \in SUBSET {0, 1}, ending \in BOOLEAN :
        /\ ending => 1 \in there
        /\ created = IF ending THEN 2 ELSE IF 1 \in there THEN 1 ELSE 0
        /\ machine = [m \in Id |->
             IF m \in there THEN [NoMachine EXCEPT !.env = e, !.status = "running"]
             ELSE IF m = 2 /\ ending THEN [NoMachine EXCEPT !.env = e, !.status = "ending"]
             ELSE NoMachine]
  BY DEF Init
<1>2. created \in Id
  BY <1>1 DEF Id
<1>3. /\ DOMAIN machine = Id
      /\ \A m \in Id : DOMAIN machine[m] = MachineFields
  BY <1>1 DEF NoMachine, MachineFields
<1>4. ASSUME NEW m \in Id, m > created PROVE machine[m].status = "absent"
  <2>1. m \notin there /\ ~(m = 2 /\ ending)
    BY <1>1, <1>4 DEF Id
  <2> QED
    BY <1>1, <2>1 DEF NoMachine
<1> QED
  BY <1>2, <1>3, <1>4 DEF LifeInv

\* A step that only changes the status of one machine that is there.
LEMMA StatusStep ==
  ASSUME LifeInv, NEW x, NEW to, UNCHANGED created,
         machine' = [machine EXCEPT ![x].status = to],
         x \in Id => /\ Follows(machine[x].status, to)
                     /\ machine[x].status = "absent" => to = "absent"
  PROVE  LifeInv' /\ StatusFollows
<1>1. DOMAIN machine' = Id /\ \A m \in Id \ {x} : machine'[m] = machine[m]
  BY DEF LifeInv
<1>2. x \in Id => DOMAIN machine'[x] = MachineFields /\ machine'[x].status = to
  BY DEF LifeInv, MachineFields
<1>3. Id' = Id
  BY DEF Id
<1> QED
  BY <1>1, <1>2, <1>3 DEF LifeInv, StatusFollows, Follows

LEMMA SameStep ==
  ASSUME LifeInv, UNCHANGED <<machine, created>>
  PROVE  LifeInv' /\ StatusFollows
BY DEF LifeInv, StatusFollows, Follows, Id

\* A new machine takes the next number, which no machine has had.
LEMMA CreateStep ==
  ASSUME LifeInv, NEW c \in Cli, NEW m \in newName(c) \cap Own, NEW status \in {"parts", "starting"},
         Create(c, m, status), created' = m
  PROVE  LifeInv' /\ StatusFollows
<1>1. m \in Id /\ m = created + 1 /\ machine[m].status = "absent"
  BY CloudAssumption DEF newName, Own, Id, LifeInv
<1>2. /\ DOMAIN machine' = Id /\ \A n \in Id \ {m} : machine'[n] = machine[n]
      /\ DOMAIN machine'[m] = MachineFields /\ machine'[m].status = status
  BY <1>1 DEF Create, LifeInv, MachineFields
<1>3. Id' = Id /\ \A n \in Id : n > m => n > created
  BY <1>1, CloudAssumption DEF Id, LifeInv
<1> QED
  BY <1>1, <1>2, <1>3 DEF LifeInv, StatusFollows, Follows

\* A step of the cloud.
LEMMA BecomesStep ==
  ASSUME LifeInv, NEW m \in Id, NEW from, NEW to, Becomes(m, from, to), "absent" \notin from,
         \A s \in from : Follows(s, to)
  PROVE  LifeInv' /\ StatusFollows
<1>1. machine[m].status \in from /\ machine' = [machine EXCEPT ![m].status = to]
  BY DEF Becomes, Is
<1>2. created' = created
  BY DEF Becomes
<1> QED
  BY <1>1, <1>2, StatusStep

LEMMA CommandStepFollows ==
  ASSUME LifeInv, NEW c \in Cli, CommandStep(c)
  PROVE  LifeInv' /\ StatusFollows
<1>1. CASE FindInstance(c) \/ FindVmResource(c) \/ GetVm(c) \/ ListMachines(c)
  BY <1>1, SameStep DEF FindInstance, FindVmResource, GetVm, ListMachines
<1>2. ASSUME NEW m \in cli[c].left, DeleteMachine(c, m) PROVE LifeInv' /\ StatusFollows
  <2> DEFINE from == machine[m].status
             to == CASE from = "parts" -> "emptied"
                     [] from \in {"starting", "running", "stopped"} -> "ending"
                     [] OTHER -> from
  <2>1. machine' = [machine EXCEPT ![m].status = to] /\ created' = created
    BY <1>2 DEF DeleteMachine, Doom
  <2>2. Follows(from, to) /\ (from = "absent" => to = "absent")
    BY DEF Follows
  <2> HIDE DEF to
  <2> QED
    BY <2>1, <2>2, StatusStep
<1>3. CASE DeletesAsked(c) \/ CreateParts(c) \/ \E m \in cli[c].waits : WaitForDeletion(c, m)
  BY <1>3, SameStep DEF DeletesAsked, WaitForDeletion, CreateParts
<1>4. CASE CreateGroup(c)
  BY <1>4, CreateStep DEF CreateGroup
<1>5. CASE createInstance(c)
  BY <1>5, CreateStep DEF createInstance
<1>6. CASE createVirtualMachine(c)
  <2>1. Follows("parts", "starting")
    BY DEF Follows
  <2> QED
    BY <1>6, <2>1, StatusStep DEF createVirtualMachine, Is
<1>7. CASE Started(c) \/ Connect(c) \/ Throw(c) \/ Finish(c)
  BY <1>7, SameStep DEF Started, Connect, Throw, Stop, Finish
<1> QED
  BY <1>1, <1>2, <1>3, <1>4, <1>5, <1>6, <1>7 DEF CommandStep

LEMMA StepFollows == LifeInv /\ [Next]_vars => LifeInv' /\ StatusFollows
<1> SUFFICES ASSUME LifeInv, [Next]_vars PROVE LifeInv' /\ StatusFollows
  OBVIOUS
<1>1. ASSUME NEW c \in Cli, NEW j, Start(c, j) PROVE LifeInv' /\ StatusFollows
  BY <1>1, SameStep DEF Start
<1>2. ASSUME NEW c \in Cli, CommandStep(c) PROVE LifeInv' /\ StatusFollows
  BY <1>2, CommandStepFollows
<1>3. ASSUME NEW c \in Cli, Fault(c) PROVE LifeInv' /\ StatusFollows
  BY <1>3, SameStep DEF Fault, Stop
<1>4. ASSUME NEW m \in Id, CloudStep(m) \/ VmFails(m) \/ VmStops(m)
      PROVE  LifeInv' /\ StatusFollows
  <2>1. CASE VmStarts(m)
    BY <2>1, BecomesStep DEF VmStarts, Follows
  <2>2. CASE VmEnds(m)
    BY <2>2, BecomesStep DEF VmEnds, Follows
  <2>3. CASE GroupEnds(m)
    BY <2>3, BecomesStep DEF GroupEnds, Follows
  <2>4. CASE VmFails(m)
    BY <2>4, BecomesStep DEF VmFails, Follows
  <2>5. CASE VmStops(m)
    BY <2>5, BecomesStep DEF VmStops, Follows
  <2> QED
    BY <1>4, <2>1, <2>2, <2>3, <2>4, <2>5 DEF CloudStep
<1>5. CASE UNCHANGED vars
  BY <1>5, SameStep DEF vars
<1> QED
  BY <1>1, <1>2, <1>3, <1>4, <1>5 DEF Next, Up, Down, Purge

-----------------------------------------------------------------------------
(* The refinement *)

\* A status that follows another is a step of the machine's life or none.
LEMMA FollowingLives ==
  ASSUME NEW m \in Own, Follows(machine[m].status, machine'[m].status)
  PROVE  [Lives(m)!Next]_(Life(m))
BY DEF Follows, Lives!Next, Lives!Begin, Lives!Complete, Lives!Doom, Lives!Moves, Life, Is

LEMMA InitLives == Init => \A m \in Own : Lives(m)!Init
<1> SUFFICES ASSUME Init, NEW m \in Own PROVE Lives(m)!Init
  OBVIOUS
<1>1. machine[m].status \in {"absent", "running", "ending"}
  <2>1. m \in Id
    BY DEF Own
  <2> QED
    BY <2>1 DEF Init, NoMachine
<1> QED
  BY <1>1 DEF Lives!Init, Life, Is

\* Every machine, whatever the commands do at a time and whatever fails, is
\* created once, and is never whole again once it is stopped or its deletion has
\* begun.
THEOREM LivesOnceCorrect == Spec => LivesOnce
<1>1. LifeInv /\ [Next]_vars => [\A m \in Own : [Lives(m)!Next]_(Life(m))]_vars
  <2> SUFFICES ASSUME LifeInv, [Next]_vars, NEW m \in Own
              PROVE  [Lives(m)!Next]_(Life(m))
    OBVIOUS
  <2>1. m \in Id
    BY DEF Own
  <2> QED
    BY <2>1, StepFollows, FollowingLives DEF StatusFollows
<1>2. LifeInv /\ [Next]_vars => LifeInv'
  BY StepFollows
<1> QED
  BY <1>1, <1>2, InitHasInv, InitLives, PTL DEF Spec, LivesOnce

-----------------------------------------------------------------------------
(* What commands know, and what holds while nobody disturbs them *)

Field == {"at", "job", "env", "want", "wait", "machine", "left", "waits", "listed"}

\* up has its machine, or is creating it.
Working == {"parts", "vm", "start", "connect", "ready"}

MachineOK(m) ==
  /\ machine[m].env \in Env \cup {None} /\ machine[m].size \in Size
  /\ machine[m].status \in Status
  /\ machine[m].status # "absent" => machine[m].env \in Env
  /\ driver = "gce" => machine[m].status \notin {"parts", "emptied"}

\* Each machine that a deletion found is still to be asked for, waited for, or at
\* its end; the deletion is done when that is so of all of them.
ChainsOK(c) ==
  /\ cli[c].waits \subseteq Id
  /\ cli[c].at \in {"delete", "done"} =>
       \A m \in cli[c].listed : m \in cli[c].left \cup cli[c].waits \/ Is(m, Ended(c))
  /\ cli[c].at = "done" => cli[c].left = {} /\ cli[c].waits = {}

\* A command deletes what it has found.
CommandOK(c) ==
  /\ DOMAIN cli[c] = Field
  /\ cli[c].at \in Stage /\ cli[c].job \in {"up", "down", "purge", None}
  /\ cli[c].env \in Env \cup {None} /\ cli[c].want \in Size \cup {None}
  /\ cli[c].wait \in BOOLEAN /\ cli[c].machine \in Id
  /\ cli[c].left \subseteq Id /\ cli[c].listed \subseteq Id
  /\ cli[c].at # "idle" => cli[c].job \in {"up", "down", "purge"}
  /\ cli[c].at = "idle" => cli[c].job = None
  /\ cli[c].job \in {"up", "down"} => cli[c].env \in Env
  /\ cli[c].at = "get" => cli[c].job # "purge"
  /\ cli[c].at \in {"create"} \cup Working => cli[c].job = "up"
  /\ cli[c].at \in {"get"} \cup Working =>
       /\ cli[c].machine <= created
       /\ machine[cli[c].machine].env = cli[c].env
  /\ cli[c].at \in {"parts", "vm", "start", "ready"} => cli[c].machine \in Own
  /\ cli[c].at \in Working /\ cli[c].want # None =>
       machine[cli[c].machine].size = cli[c].want
  /\ \A m \in cli[c].left :
       m <= created /\ machine[m].env \in Touches(cli[c]) /\ ~Is(m, {"absent"})
  /\ ChainsOK(c)

\* What up has come to, on an environment that nobody else works on.
UpOK(c) ==
  cli[c].job = "up" /\ cli[c].env \notin disturbed =>
    /\ cli[c].at = "delete" => Alive(cli[c].env) \subseteq cli[c].left
    /\ cli[c].at = "create" => Alive(cli[c].env) = {}
    /\ cli[c].at = "ready" => Is(cli[c].machine, {"running", "stopped"})

\* A purge that runs alone has found everything.
PurgeOK(c) ==
  cli[c].job = "purge" /\ c \notin crowded =>
    /\ Active = {c}
    /\ cli[c].at # "find" =>
         \A m \in Own : Is(m, {"absent", "gone"}) \/ m \in cli[c].listed

\* Two commands work on one environment only where it is disturbed.
Apart ==
  \A c, d \in Active : c # d => Touches(cli[c]) \cap Touches(cli[d]) \subseteq disturbed

One == \A e \in Env \ disturbed : \A m, n \in Alive(e) : m = n

\* A machine that is being created is one that up is at work on.
Made ==
  \A m \in Own : Life(m) = "creating" /\ machine[m].env \notin disturbed =>
    \E c \in Cli : cli[c].at \in {"parts", "vm", "start"} /\ cli[c].machine = m

CountersOK ==
  /\ driver \in {"azure", "gce"}
  /\ started \in 0 .. MaxCommands /\ faults \in 0 .. MaxFaults
  /\ disturbed \subseteq Env /\ crowded \subseteq Cli

\* The inductive invariant.
CloudInv ==
  /\ LifeInv /\ CountersOK
  /\ DOMAIN cli = Cli
  /\ \A m \in Id : MachineOK(m)
  /\ \A c \in Cli : CommandOK(c) /\ UpOK(c) /\ PurgeOK(c)
  /\ Apart /\ One /\ Made

LEMMA InvParts ==
  ASSUME CloudInv, NEW c \in Cli
  PROVE  /\ CommandOK(c) /\ UpOK(c) /\ PurgeOK(c) /\ LifeInv /\ CountersOK
         /\ DOMAIN cli = Cli /\ DOMAIN cli[c] = Field
         /\ created \in Nat /\ Id \subseteq Nat
BY DEF CloudInv, CommandOK, LifeInv, Id

\* A machine keeps its environment and its size.
Stays(m) ==
  m <= created =>
    /\ machine'[m].env = machine[m].env /\ machine'[m].size = machine[m].size
    /\ machine[m].status = "absent" => machine'[m].status = "absent"

\* The step is one of command c, and changes machines of its environment only.
Steps(c) ==
  /\ DOMAIN cli' = Cli /\ \A d \in Cli \ {c} : cli'[d] = cli[d]
  /\ cli[c].at # "idle"
  /\ \/ cli'[c].job = cli[c].job /\ cli'[c].env = cli[c].env
     \/ cli'[c].at = "idle"
  /\ disturbed \subseteq disturbed' /\ crowded' = crowded /\ driver' = driver
  /\ created <= created'
  /\ \A m \in Id : Stays(m)
  /\ \A m \in Id : machine'[m] # machine[m] => machine'[m].env \in Touches(cli[c])

\* A machine whose deletion has come that far does not come back.
LEMMA ChainsStand ==
  ASSUME CloudInv, NEW d \in Cli, StatusFollows,
         \A f \in {"wait", "left", "waits", "listed"} : cli'[d][f] = cli[d][f],
         cli'[d].at \in {"delete", "done"} => cli'[d].at = cli[d].at
  PROVE  ChainsOK(d)'
<1>1. ChainsOK(d) /\ cli[d].listed \subseteq Id
  BY InvParts DEF CommandOK
<1>2. \A m \in Id : Is(m, Ended(d)) => Is(m, Ended(d))'
  BY DEF StatusFollows, Follows, Is, Ended
<1> QED
  BY <1>1, <1>2 DEF ChainsOK, Id

LEMMA OthersKnow ==
  ASSUME CloudInv, NEW d \in Cli, cli'[d] = cli[d], LifeInv', StatusFollows,
         created <= created', \A m \in Id : Stays(m)
  PROVE  CommandOK(d)'
<1>1. CommandOK(d) /\ created \in Nat /\ created' \in Nat /\ Id \subseteq Nat
  BY DEF CloudInv, LifeInv, Id
<1>3. \A m \in Id : m <= created => m <= created' /\ machine'[m].env = machine[m].env
                                    /\ machine'[m].size = machine[m].size
  BY <1>1 DEF Stays
<1>4. \A m \in cli[d].left :
        m <= created' /\ machine'[m].env \in Touches(cli[d]) /\ ~Is(m, {"absent"})'
  BY <1>1, <1>3 DEF CommandOK, StatusFollows, Follows, Is
<1>5. ChainsOK(d)'
  BY ChainsStand
<1>6. cli[d].at \in {"get"} \cup Working =>
        cli[d].machine <= created' /\ machine'[cli[d].machine].env = cli[d].env
  <2>1. PICK m \in Id : m = cli[d].machine
    BY <1>1 DEF CommandOK
  <2> QED
    BY <1>1, <1>3, <2>1 DEF CommandOK
<1>7. cli[d].at \in Working /\ cli[d].want # None =>
        machine'[cli[d].machine].size = cli[d].want
  <2>1. PICK m \in Id : m = cli[d].machine
    BY <1>1 DEF CommandOK
  <2> QED
    BY <1>1, <1>3, <2>1 DEF CommandOK
<1> QED
  BY <1>1, <1>4, <1>5, <1>6, <1>7 DEF CommandOK, Touches, Is

LEMMA OthersKeep ==
  ASSUME CloudInv, NEW c \in Cli, Steps(c), LifeInv', StatusFollows, NEW d \in Cli \ {c}
  PROVE  CommandOK(d)' /\ UpOK(d)' /\ PurgeOK(d)'
<1>1. cli'[d] = cli[d] /\ c \in Active /\ CommandOK(d) /\ UpOK(d) /\ PurgeOK(d)
  BY DEF CloudInv, Steps, Active, At
<1>2. CommandOK(d)'
  BY <1>1, OthersKnow DEF Steps
<1>3. PurgeOK(d)'
  BY <1>1 DEF PurgeOK, Steps
<1>4. UpOK(d)'
  <2>1. SUFFICES ASSUME cli[d].job = "up", cli[d].env \notin disturbed'
                 PROVE  UpOK(d)'
    BY <1>1 DEF UpOK
  <2>2. PICK e \in Env : e = cli[d].env
    BY <1>1, <2>1 DEF CommandOK
  <2>3. d \in Active /\ e \notin disturbed /\ Touches(cli[d]) = {e}
    <3>1. cli[d].at # "idle"
      BY <1>1, <2>1, CloudAssumption DEF CommandOK
    <3> QED
      BY <1>1, <2>1, <2>2, <3>1 DEF Active, At, Steps, Touches
  <2>4. e \notin Touches(cli[c])
    BY <1>1, <2>3 DEF CloudInv, Apart
  <2>5. \A m \in Id : machine'[m].env = e => machine'[m] = machine[m]
    BY <2>4 DEF Steps
  <2>6. Alive(e)' \subseteq Alive(e)
    BY <2>5 DEF Alive, Own, Life, Is
  <2>7. cli[d].at = "ready" => Is(cli[d].machine, {"running", "stopped"})'
    <3>1. SUFFICES ASSUME cli[d].at = "ready"
                   PROVE  Is(cli[d].machine, {"running", "stopped"})'
      OBVIOUS
    <3>2. PICK m \in Id : m = cli[d].machine /\ m <= created /\ machine[m].env = e
      BY <1>1, <2>2, <3>1 DEF CommandOK, Working
    <3>3. machine'[m] = machine[m]
      BY <2>5, <3>2 DEF Steps, Stays
    <3> QED
      BY <1>1, <2>1, <2>2, <2>3, <3>1, <3>2, <3>3 DEF UpOK, Is
  <2> QED
    BY <1>1, <2>1, <2>2, <2>3, <2>6, <2>7 DEF UpOK, Is
<1> QED
  BY <1>2, <1>3, <1>4

LEMMA StepsKeepApart ==
  ASSUME CloudInv, NEW c \in Cli, Steps(c)
  PROVE  Apart'
<1>1. Active' \subseteq Active
  BY DEF Steps, Active, At
<1>2. \A d \in Active' : Touches(cli'[d]) = Touches(cli[d])
  <2>1. \A d \in Active' : cli'[d].job = cli[d].job /\ cli'[d].env = cli[d].env
    BY DEF Steps, Active, At
  <2> QED
    BY <2>1 DEF Touches
<1>3. Apart /\ disturbed \subseteq disturbed'
  BY DEF CloudInv, Steps
<1>4. \A a, b \in Active' : a # b => Touches(cli'[a]) \cap Touches(cli'[b]) \subseteq disturbed'
  BY <1>1, <1>2, <1>3 DEF Apart
<1> QED
  BY <1>4 DEF Apart, Touches

LEMMA CommandStepKeepsInv ==
  ASSUME CloudInv, NEW c \in Cli, Steps(c), LifeInv', StatusFollows, CountersOK',
         \A m \in Id : MachineOK(m)', CommandOK(c)', UpOK(c)', PurgeOK(c)', One', Made'
  PROVE  CloudInv'
<1>1. \A d \in Cli \ {c} : CommandOK(d)' /\ UpOK(d)' /\ PurgeOK(d)'
  BY OthersKeep
<1>2. Apart' /\ DOMAIN cli' = Cli
  BY StepsKeepApart DEF Steps
<1>3. Id' = Id
  BY DEF Id
<1> QED
  BY <1>1, <1>2, <1>3 DEF CloudInv

\* Without a new machine none comes to life, and the one that is being created
\* is still that of the up that creates it.
LEMMA FewerAlive ==
  ASSUME CloudInv, LifeInv', StatusFollows, UNCHANGED created, \A m \in Id : Stays(m)
  PROVE  /\ \A e : Alive(e)' \subseteq Alive(e)
         /\ \A m \in Own : Life(m)' = "creating" =>
              Life(m) = "creating" /\ machine'[m].env = machine[m].env
<1>1. created \in Nat /\ Id \subseteq Nat /\ Own \subseteq Id
  BY DEF CloudInv, LifeInv, Id, Own
<1>2. ASSUME NEW m \in Own, Life(m)' \in {"creating", "up"}
      PROVE  /\ machine'[m].env = machine[m].env /\ Life(m) \in {"creating", "up"}
             /\ Life(m)' = "creating" => Life(m) = "creating"
  <2>1. m \in Id /\ machine'[m].status \in {"parts", "starting", "running"}
        /\ (Life(m)' = "creating" => machine'[m].status # "running")
    BY <1>1, <1>2 DEF Life, Is
  <2>2. m <= created
    BY <1>1, <2>1 DEF LifeInv
  <2>3. /\ machine'[m].env = machine[m].env /\ machine[m].status # "absent"
        /\ Follows(machine[m].status, machine'[m].status)
    BY <2>1, <2>2 DEF Stays, StatusFollows
  <2>4. /\ machine[m].status \in {"parts", "starting", "running"}
        /\ Life(m)' = "creating" => machine[m].status # "running"
    BY <2>1, <2>3 DEF Follows
  <2> QED
    BY <2>3, <2>4 DEF Life, Is
<1> QED
  BY <1>2 DEF Alive

LEMMA NoneCreated ==
  ASSUME CloudInv, LifeInv', StatusFollows, UNCHANGED created, \A m \in Id : Stays(m),
         disturbed \subseteq disturbed'
  PROVE  One'
<1>1. \A e : Alive(e)' \subseteq Alive(e)
  BY FewerAlive
<1>2. \A e \in Env \ disturbed' : \A m, n \in Alive(e)' : m = n
  BY <1>1 DEF CloudInv, One
<1> QED
  BY <1>2 DEF One, Alive, Life, Is

LEMMA StillMade ==
  ASSUME CloudInv, NEW c \in Cli, LifeInv', StatusFollows, UNCHANGED created, Steps(c),
         \/ cli[c].at \notin {"parts", "vm", "start"}
         \/ cli'[c].at \in {"parts", "vm", "start"} /\ cli'[c].machine = cli[c].machine
         \/ \A m : m = cli[c].machine => Life(m)' # "creating"
         \/ cli[c].env \in disturbed'
  PROVE  Made'
<1> SUFFICES ASSUME NEW m \in Own, Life(m)' = "creating", machine'[m].env \notin disturbed'
             PROVE  \E d \in Cli : /\ cli'[d].at \in {"parts", "vm", "start"}
                                   /\ cli'[d].machine = m
  BY DEF Made, Own, Id
<1>1. Life(m) = "creating" /\ machine'[m].env = machine[m].env
  BY FewerAlive DEF Steps
<1>2. PICK d \in Cli : cli[d].at \in {"parts", "vm", "start"} /\ cli[d].machine = m
  BY <1>1 DEF CloudInv, Made, Steps
<1>3. CASE d # c
  BY <1>2, <1>3 DEF Steps
<1>4. CASE d = c
  <2>1. machine[m].env = cli[c].env
    BY <1>2, <1>4 DEF CloudInv, CommandOK, Working
  <2> QED
    BY <1>1, <1>2, <1>4, <2>1
<1> QED
  BY <1>3, <1>4

\* A step that leaves the machines alone.
LEMMA PlainStepKeepsInv ==
  ASSUME CloudInv, NEW c \in Cli, UNCHANGED <<driver, machine, created, crowded>>,
         DOMAIN cli' = Cli, \A d \in Cli \ {c} : cli'[d] = cli[d], cli[c].at # "idle",
         \/ cli'[c].job = cli[c].job /\ cli'[c].env = cli[c].env
         \/ cli'[c].at = "idle",
         disturbed \subseteq disturbed', CountersOK',
         \/ cli[c].at \notin {"parts", "vm", "start"}
         \/ cli'[c].at \in {"parts", "vm", "start"} /\ cli'[c].machine = cli[c].machine
         \/ Life(cli[c].machine) # "creating"
         \/ cli[c].env \in disturbed',
         CommandOK(c)', UpOK(c)', PurgeOK(c)'
  PROVE  CloudInv'
<1>1. LifeInv' /\ StatusFollows
  BY SameStep DEF CloudInv
<1>2. Steps(c)
  BY DEF Steps, Stays, CloudInv, LifeInv, Id
<1>3. One' /\ Made'
  <2>1. One'
    BY <1>1, <1>2, NoneCreated DEF Steps
  <2>2. \A m : Life(m)' = Life(m)
    BY DEF Life, Is
  <2> QED
    BY <1>1, <1>2, <2>1, <2>2, StillMade
<1>4. \A m \in Id : MachineOK(m)'
  BY DEF CloudInv, MachineOK
<1> QED
  BY <1>1, <1>2, <1>3, <1>4, CommandStepKeepsInv

LEMMA GoSteps ==
  ASSUME CloudInv, NEW c \in Cli, NEW stage, Go(c, stage)
  PROVE  /\ DOMAIN cli' = Cli /\ \A d \in Cli \ {c} : cli'[d] = cli[d]
         /\ DOMAIN cli'[c] = Field /\ cli'[c].at = stage
         /\ \A f \in Field \ {"at"} : cli'[c][f] = cli[c][f]
BY InvParts DEF Go, Field

\* A command ends.
LEMMA IdleSteps ==
  ASSUME CloudInv, NEW c \in Cli, cli' = [cli EXCEPT ![c] = Idle]
  PROVE  /\ DOMAIN cli' = Cli /\ \A d \in Cli \ {c} : cli'[d] = cli[d]
         /\ cli'[c].at = "idle" /\ CommandOK(c)' /\ UpOK(c)' /\ PurgeOK(c)'
<1>1. DOMAIN cli' = Cli /\ cli'[c] = Idle /\ \A d \in Cli \ {c} : cli'[d] = cli[d]
  BY InvParts
<1>2. DOMAIN Idle = Field /\ 0 \in Id
  BY CloudAssumption DEF Idle, Field, Id
<1>3. ChainsOK(c)'
  BY <1>1 DEF Idle, ChainsOK
<1> QED
  BY <1>1, <1>2, <1>3, CloudAssumption
  DEF Idle, CommandOK, UpOK, PurgeOK, Stage, Working, Id

\* What a purge knows does not change with its stage.
LEMMA PurgeGoesOn ==
  ASSUME CloudInv, NEW c \in Cli, UNCHANGED <<machine, crowded>>,
         \A d \in Cli \ {c} : cli'[d] = cli[d],
         cli[c].at \notin {"idle", "find"}, cli'[c].at # "idle",
         cli'[c].job = cli[c].job, cli'[c].listed = cli[c].listed
  PROVE  PurgeOK(c)'
<1>1. Active' = Active
  BY DEF Active, At
<1> QED
  BY <1>1, InvParts DEF PurgeOK, Is, Own, Id

\* Commands that end, or go on without another look at the machines.
LEMMA ActiveTouches ==
  ASSUME CloudInv, NEW c \in Cli, cli[c].at # "idle"
  PROVE  /\ Touches(cli[c]) \subseteq Env
         /\ cli[c].job # "purge" => Touches(cli[c]) = {cli[c].env} /\ cli[c].env \in Env
BY InvParts DEF CommandOK, Touches

LEMMA EndKeepsInv ==
  ASSUME CloudInv, NEW c \in Cli, Throw(c) \/ Fault(c) \/ Finish(c)
  PROVE  CloudInv'
<1>1. /\ cli' = [cli EXCEPT ![c] = Idle] /\ UNCHANGED <<driver, machine, created, crowded>>
      /\ started' = started
      /\ disturbed' = disturbed \/ disturbed' = disturbed \cup Touches(cli[c])
      /\ cli[c].at \notin {"ready", "done"} => disturbed' = disturbed \cup Touches(cli[c])
      /\ faults' = faults \/ (faults < MaxFaults /\ faults' = faults + 1)
  <2>1. CASE Throw(c) \/ Fault(c)
    BY <2>1 DEF Throw, Fault, Stop, Hurt, bounds
  <2>2. CASE Finish(c)
    BY <2>2 DEF Finish, bounds, history
  <2> QED
    BY <2>1, <2>2
<1>2. cli[c].at # "idle"
  BY DEF Throw, Doomed, AskedAgain, Fault, Finish, At
<1>3. CountersOK'
  BY <1>1, <1>2, InvParts, ActiveTouches, CloudAssumption DEF CountersOK
<1>4. cli[c].at \in {"parts", "vm", "start"} => cli[c].env \in disturbed'
  BY <1>1, <1>2, InvParts, ActiveTouches DEF CommandOK, Working
<1> QED
  BY <1>1, <1>2, <1>3, <1>4, IdleSteps, PlainStepKeepsInv

\* A command goes on to another stage, with the same job.
LEMMA StageSteps ==
  ASSUME CloudInv, NEW c \in Cli, NEW stage \in Stage \ {"idle", "delete", "done"},
         UNCHANGED <<machine, created, driver>>, cli[c].at # "idle",
         DOMAIN cli'[c] = Field, cli'[c].at = stage, cli'[c].machine \in Id,
         \A f \in Field \ {"at", "machine"} : cli'[c][f] = cli[c][f],
         stage = "get" => cli[c].job # "purge",
         stage \in {"create"} \cup Working => cli[c].job = "up",
         stage \in {"get"} \cup Working =>
           /\ cli'[c].machine <= created
           /\ machine[cli'[c].machine].env = cli[c].env,
         stage \in {"parts", "vm", "start", "ready"} => cli'[c].machine \in Own,
         stage \in Working /\ cli[c].want # None =>
           machine[cli'[c].machine].size = cli[c].want
  PROVE  CommandOK(c)'
<1>1. CommandOK(c)
  BY InvParts
<1>2. /\ cli'[c].job = cli[c].job /\ cli'[c].env = cli[c].env /\ cli'[c].want = cli[c].want
      /\ cli'[c].wait = cli[c].wait /\ cli'[c].left = cli[c].left
      /\ cli'[c].listed = cli[c].listed
  BY DEF Field
<1>3. Touches(cli'[c]) = Touches(cli[c])
  BY <1>2 DEF Touches
<1>4. \A m \in cli'[c].left :
        m <= created /\ machine[m].env \in Touches(cli'[c]) /\ ~Is(m, {"absent"})
  BY <1>1, <1>2, <1>3 DEF CommandOK
<1>5. ChainsOK(c)'
  BY SameStep, ChainsStand DEF CloudInv, Field
<1> QED
  BY <1>1, <1>2, <1>4, <1>5 DEF CommandOK, Touches, Id, Own, Is

LEMMA NobodyCreates ==
  ASSUME CloudInv, NEW c \in Cli, cli[c].job \in {"up", "down"},
         cli[c].env \notin disturbed, cli[c].at \in {"find", "get"},
         NEW m \in Alive(cli[c].env)
  PROVE  Is(m, {"running"})
<1>1. m \in Own /\ machine[m].env = cli[c].env
  BY DEF Alive
<1>2. CASE Life(m) = "creating"
  <2>1. PICK d \in Cli : cli[d].at \in {"parts", "vm", "start"} /\ cli[d].machine = m
    BY <1>1, <1>2 DEF CloudInv, Made
  <2>2. cli[d].env = cli[c].env /\ cli[d].job = "up" /\ cli[c].env \in Env
    BY <1>1, <2>1, InvParts DEF CommandOK, Working
  <2>3. c \in Active /\ d \in Active /\ c # d
    BY <2>1 DEF Active, At
  <2>4. Touches(cli[c]) = {cli[c].env} /\ Touches(cli[d]) = {cli[c].env}
    BY <2>2 DEF Touches
  <2> QED
    BY <2>3, <2>4 DEF CloudInv, Apart
<1>3. CASE Life(m) = "up"
  BY <1>3 DEF Life, Is
<1> QED
  BY <1>2, <1>3 DEF Alive

\* A lookup that finds no machine.
LEMMA MissingKeepsInv ==
  ASSUME CloudInv, NEW c \in Cli, Missing(c), cli[c].at \in {"find", "get"},
         cli[c].job # "purge", UNCHANGED <<driver, machine, created, bounds, crowded>>,
         disturbed \subseteq disturbed', disturbed' \subseteq Env,
         cli[c].env \notin disturbed' => Alive(cli[c].env) = {}
  PROVE  CloudInv'
<1>1. CountersOK' /\ cli[c].job \in {"up", "down"}
  BY InvParts DEF CountersOK, CommandOK, bounds
<1>2. CASE cli' = [cli EXCEPT ![c] = Idle]
  BY <1>1, <1>2, IdleSteps, PlainStepKeepsInv
<1>3. CASE Go(c, "create") /\ cli[c].job = "up"
  <2>1. /\ DOMAIN cli' = Cli /\ \A d \in Cli \ {c} : cli'[d] = cli[d]
        /\ DOMAIN cli'[c] = Field /\ cli'[c].at = "create"
        /\ \A f \in Field \ {"at"} : cli'[c][f] = cli[c][f]
    BY <1>3, GoSteps
  <2>2. CommandOK(c)'
    <3>1. "create" \in Stage \ {"idle", "delete", "done"} /\ cli'[c].machine \in Id
      BY <2>1, InvParts DEF Stage, Field, CommandOK
    <3> QED
      BY <1>3, <2>1, <3>1, StageSteps DEF Working
  <2>3. UpOK(c)' /\ PurgeOK(c)'
    BY <1>3, <2>1 DEF UpOK, PurgeOK, Field, Alive, Life, Is
  <2> QED
    BY <1>1, <2>1, <2>2, <2>3, PlainStepKeepsInv DEF Field
<1> QED
  BY <1>2, <1>3 DEF Missing

\* A lookup that finds a machine.
LEMMA ExistingKeepsInv ==
  ASSUME CloudInv, NEW c \in Cli, NEW m \in Id, Existing(c, m), cli[c].at \in {"find", "get"},
         cli[c].job # "purge", UNCHANGED <<driver, machine, created, bounds, crowded>>,
         disturbed \subseteq disturbed', disturbed' \subseteq Env,
         m <= created, machine[m].env = cli[c].env, ~Is(m, {"absent"}),
         cli[c].env \notin disturbed' => Alive(cli[c].env) \subseteq {m}
  PROVE  CloudInv'
<1>1. CountersOK' /\ cli[c].job \in {"up", "down"}
  BY InvParts DEF CountersOK, CommandOK, bounds
<1>2. /\ DOMAIN cli' = Cli /\ \A d \in Cli \ {c} : cli'[d] = cli[d]
      /\ DOMAIN cli'[c] = Field
      /\ \A f \in {"job", "env", "want", "wait", "waits"} : cli'[c][f] = cli[c][f]
      /\ cli'[c].machine = m /\ cli'[c].left = {m} /\ cli'[c].listed = {m}
      /\ \/ cli'[c].at = "delete"
         \/ cli'[c].at = "connect" /\ cli[c].job = "up" /\ ~specDiff(c, m)
  BY InvParts DEF Existing, Field
<1>3. CommandOK(c)'
  <2>1. ~specDiff(c, m) /\ cli[c].want # None => machine[m].size = cli[c].want
    BY InvParts DEF specDiff, vmSize, CountersOK
  <2>2. ChainsOK(c)'
    BY <1>2, InvParts DEF CommandOK, ChainsOK, Field, Id
  <2> QED
    BY <1>1, <1>2, <2>1, <2>2, InvParts DEF CommandOK, Field, Stage, Working, Touches, Is
<1>4. UpOK(c)' /\ PurgeOK(c)'
  BY <1>1, <1>2 DEF UpOK, PurgeOK, Alive, Life, Is
<1> QED
  BY <1>1, <1>2, <1>3, <1>4, PlainStepKeepsInv

LEMMA HasVmThere ==
  ASSUME CloudInv, NEW m \in Id, ~Is(m, {"absent"})
  PROVE  m <= created
BY DEF CloudInv, LifeInv, Is, Id

LEMMA FindKeepsInv ==
  ASSUME CloudInv, NEW c \in Cli, FindInstance(c) \/ FindVmResource(c)
  PROVE  CloudInv'
<1>1. /\ cli[c].at = "find" /\ cli[c].job \in {"up", "down"}
      /\ UNCHANGED <<driver, machine, created, bounds, history>> /\ cli[c].env \in Env
      /\ disturbed' = disturbed /\ disturbed \subseteq Env /\ crowded' = crowded
  BY InvParts DEF FindInstance, FindVmResource, At, history, CommandOK, CountersOK
<1>2. \A m \in Alive(cli[c].env) : cli[c].env \notin disturbed => Is(m, {"running"})
  BY <1>1, NobodyCreates
<1>3. \A m \in Alive(cli[c].env) : m \in Own /\ m \in Id /\ machine[m].env = cli[c].env
  BY DEF Alive, Own
<1>4. CASE FindInstance(c)
  <2>1. CASE findBestEnvInstance(cli[c].env) = {} /\ Missing(c)
    <3>1. findEnvInstances(cli[c].env) = {}
      BY <2>1 DEF findBestEnvInstance
    <3>2. cli[c].env \notin disturbed' => Alive(cli[c].env) = {}
      BY <1>1, <1>2, <1>3, <3>1 DEF findEnvInstances, HasVm, Is
    <3> QED
      BY <1>1, <2>1, <3>2, MissingKeepsInv
  <2>2. ASSUME NEW m \in findBestEnvInstance(cli[c].env), Existing(c, m)
        PROVE  CloudInv'
    <3>1. m \in findEnvInstances(cli[c].env)
      BY DEF findBestEnvInstance
    <3>2. m \in Id /\ m \in Own /\ machine[m].env = cli[c].env /\ m <= created
          /\ ~Is(m, {"absent"})
      BY <3>1, HasVmThere DEF findEnvInstances, Own, HasVm, Is
    <3>3. cli[c].env \notin disturbed' => Alive(cli[c].env) \subseteq {m}
      <4>1. SUFFICES ASSUME cli[c].env \notin disturbed, NEW n \in Alive(cli[c].env)
                     PROVE  n = m
        BY <1>1
      <4>2. n \in findEnvInstances(cli[c].env) /\ ~instanceError(n)
        BY <1>2, <1>3, <4>1 DEF findEnvInstances, HasVm, Is, instanceError
      <4>3. ~instanceError(m)
        BY <4>2 DEF findBestEnvInstance
      <4>4. m \in Alive(cli[c].env)
        BY <3>2, <4>3 DEF Alive, Life, Is, instanceError
      <4> QED
        BY <1>1, <4>1, <4>4 DEF CloudInv, One
    <3> QED
      BY <1>1, <2>2, <3>2, <3>3, ExistingKeepsInv
  <2> QED
    BY <1>4, <2>1, <2>2 DEF FindInstance
<1>5. CASE FindVmResource(c)
  <2>1. CASE vmResources(cli[c].env) = {} /\ Missing(c)
    <3>1. cli[c].env \notin disturbed' => Alive(cli[c].env) = {}
      BY <1>1, <1>2, <1>3, <2>1 DEF vmResources, HasVm, Is
    <3> QED
      BY <1>1, <2>1, <3>1, MissingKeepsInv
  <2>2. ASSUME NEW m \in vmResources(cli[c].env),
               cli' = [cli EXCEPT ![c].at = "get", ![c].machine = m]
        PROVE  CloudInv'
    <3>1. m \in Id /\ machine[m].env = cli[c].env /\ m <= created
      BY HasVmThere DEF vmResources, HasVm, Is
    <3>2. /\ DOMAIN cli' = Cli /\ \A d \in Cli \ {c} : cli'[d] = cli[d]
          /\ DOMAIN cli'[c] = Field /\ cli'[c].at = "get" /\ cli'[c].machine = m
          /\ \A f \in Field \ {"at", "machine"} : cli'[c][f] = cli[c][f]
      BY <2>2, InvParts DEF Field
    <3>3. CommandOK(c)'
      <4>1. "get" \in Stage \ {"idle", "delete", "done"}
        BY DEF Stage
      <4> QED
        BY <1>1, <3>1, <3>2, <4>1, StageSteps DEF Working
    <3>4. UpOK(c)' /\ PurgeOK(c)' /\ CountersOK'
      BY <1>1, <3>2, InvParts DEF UpOK, PurgeOK, Field, CountersOK, bounds
    <3> QED
      BY <1>1, <3>2, <3>3, <3>4, PlainStepKeepsInv DEF Field
  <2> QED
    BY <1>5, <2>1, <2>2 DEF FindVmResource
<1> QED
  BY <1>4, <1>5

LEMMA GetVmKeepsInv ==
  ASSUME CloudInv, NEW c \in Cli, GetVm(c)
  PROVE  CloudInv'
<1>1. PICK m \in Id : m = cli[c].machine /\ m <= created /\ machine[m].env = cli[c].env
  BY InvParts DEF GetVm, At, CommandOK
<1>2. /\ cli[c].at = "get" /\ cli[c].job \in {"up", "down"} /\ cli[c].env \in Env
      /\ UNCHANGED <<driver, machine, created, bounds, crowded>>
      /\ disturbed' = IF HasAddress(m) /\ m \in Own THEN disturbed
                      ELSE disturbed \cup {cli[c].env}
      /\ \/ HasAddress(m) /\ Existing(c, m)
         \/ Is(m, {"ending", "emptied", "gone"}) /\ Missing(c)
  BY <1>1, InvParts DEF GetVm, At, CommandOK
<1>3. disturbed \subseteq disturbed' /\ disturbed' \subseteq Env
  BY <1>2, InvParts DEF CountersOK
<1>4. CASE HasAddress(m) /\ Existing(c, m)
  <2>1. cli[c].env \notin disturbed' => Alive(cli[c].env) \subseteq {m}
    <3>1. SUFFICES ASSUME cli[c].env \notin disturbed' PROVE Alive(cli[c].env) \subseteq {m}
      OBVIOUS
    <3>2. m \in Alive(cli[c].env)
      BY <1>1, <1>2, <1>4, <3>1 DEF HasAddress, Alive, Life, Is
    <3> QED
      BY <1>2, <1>3, <3>1, <3>2 DEF CloudInv, One
  <2> QED
    BY <1>1, <1>2, <1>3, <1>4, <2>1, ExistingKeepsInv DEF HasAddress, Is
<1>5. CASE Is(m, {"ending", "emptied", "gone"}) /\ Missing(c)
  <2>1. cli[c].env \in disturbed'
    BY <1>2, <1>5 DEF HasAddress, Is
  <2> QED
    BY <1>2, <1>3, <1>5, <2>1, MissingKeepsInv
<1> QED
  BY <1>2, <1>4, <1>5

LEMMA ListKeepsInv ==
  ASSUME CloudInv, NEW c \in Cli, ListMachines(c)
  PROVE  CloudInv'
<1>1. /\ cli[c].at = "find" /\ cli[c].job = "purge"
      /\ UNCHANGED <<driver, machine, created, bounds, history>>
      /\ disturbed' = disturbed /\ crowded' = crowded
  BY DEF ListMachines, At, history
<1>2. /\ DOMAIN cli' = Cli /\ \A d \in Cli \ {c} : cli'[d] = cli[d]
      /\ DOMAIN cli'[c] = Field /\ cli'[c].at = "delete"
      /\ cli'[c].left = Deletable /\ cli'[c].listed = Deletable
      /\ \A f \in Field \ {"at", "left", "listed"} : cli'[c][f] = cli[c][f]
  BY InvParts DEF ListMachines, Field
<1>3. \A m \in Deletable :
        m \in Id /\ m <= created /\ machine[m].env \in Env /\ ~Is(m, {"absent"})
  <2>1. \A m \in Deletable : m \in Id /\ ~Is(m, {"absent"})
    BY DEF Deletable, Own, HasVm, Is
  <2> QED
    BY <2>1, HasVmThere DEF CloudInv, MachineOK, Is
<1>4. CommandOK(c)'
  <2>1. ChainsOK(c)'
    BY <1>2, <1>3, InvParts DEF CommandOK, ChainsOK, Field, Id
  <2>2. /\ cli'[c].job = "purge" /\ cli'[c].env = cli[c].env /\ cli'[c].want = cli[c].want
        /\ cli'[c].wait = cli[c].wait /\ cli'[c].machine = cli[c].machine
    BY <1>1, <1>2 DEF Field
  <2>3. \A m \in cli'[c].left :
          m <= created' /\ machine'[m].env \in Touches(cli'[c]) /\ ~Is(m, {"absent"})'
    BY <1>1, <1>2, <1>3, <2>2 DEF Touches, Is
  <2>4. cli'[c].left \subseteq Id /\ cli'[c].listed \subseteq Id
    BY <1>2, <1>3
  <2> QED
    BY <1>1, <1>2, <2>1, <2>2, <2>3, <2>4, InvParts DEF CommandOK, Stage, Working, Touches, Is, Id
<1>5. \A m \in Own : Is(m, {"absent", "gone"}) \/ m \in Deletable
  <2>1. \A m \in Own : MachineOK(m)
    BY DEF CloudInv, Own
  <2> QED
    BY <2>1, InvParts DEF MachineOK, Status, Deletable, HasVm, Is, CountersOK
<1>6. PurgeOK(c)'
  <2>1. Active' = Active
    BY <1>1, <1>2 DEF Active, At
  <2> QED
    BY <1>1, <1>2, <1>5, <2>1, InvParts DEF PurgeOK, Field, Is, Own, Id
<1>7. UpOK(c)' /\ CountersOK'
  BY <1>1, <1>2, InvParts DEF UpOK, Field, CountersOK, bounds
<1> QED
  BY <1>1, <1>2, <1>4, <1>6, <1>7, PlainStepKeepsInv DEF Field

\* The status of one machine changes.
LEMMA ChangedStatus ==
  ASSUME CloudInv, NEW m \in Id, NEW to \in Status \ {"absent"},
         machine[m].status # "absent", UNCHANGED <<driver, created>>,
         machine' = [machine EXCEPT ![m].status = to],
         Follows(machine[m].status, to), driver = "gce" => to \notin {"parts", "emptied"}
  PROVE  /\ LifeInv' /\ StatusFollows
         /\ \A x \in Id : Stays(x) /\ MachineOK(x)'
         /\ \A x \in Id \ {m} : machine'[x] = machine[x]
         /\ machine'[m].env = machine[m].env /\ machine'[m].size = machine[m].size
         /\ machine'[m].status = to
<1>1. LifeInv /\ DOMAIN machine = Id /\ DOMAIN machine[m] = MachineFields
      /\ \A x \in Id : MachineOK(x)
  BY DEF CloudInv, LifeInv
<1>2. LifeInv' /\ StatusFollows
  BY <1>1, StatusStep
<1>3. /\ \A x \in Id \ {m} : machine'[x] = machine[x]
      /\ machine'[m].env = machine[m].env /\ machine'[m].size = machine[m].size
      /\ machine'[m].status = to
  BY <1>1 DEF MachineFields
<1> QED
  BY <1>1, <1>2, <1>3 DEF Stays, MachineOK, Status

LEMMA DeleteKeepsInv ==
  ASSUME CloudInv, NEW c \in Cli, NEW x \in cli[c].left, DeleteMachine(c, x)
  PROVE  CloudInv'
<1>1. PICK m \in Id : m = x /\ m \in cli[c].left /\ m <= created
                      /\ machine[m].env \in Touches(cli[c]) /\ ~Is(m, {"absent"})
  BY InvParts DEF CommandOK
<1>2. /\ cli[c].at = "delete" /\ Doom(m)
      /\ cli' = [cli EXCEPT ![c].left = @ \ {m},
                            ![c].waits = IF cli[c].wait THEN @ \cup {m} ELSE @]
      /\ UNCHANGED <<driver, created, bounds, history>> /\ ~Is(m, {"gone"})
  BY <1>1 DEF DeleteMachine, At
<1>3. PICK to : to = CASE machine[m].status = "parts" -> "emptied"
                       [] machine[m].status \in {"starting", "running", "stopped"} -> "ending"
                       [] OTHER -> machine[m].status
  OBVIOUS
<1>4. machine' = [machine EXCEPT ![m].status = to]
  BY <1>2, <1>3 DEF Doom
<1>5. MachineOK(m) /\ machine[m].status # "gone"
  BY <1>2 DEF CloudInv, Is
<1>6. /\ DOMAIN cli' = Cli /\ \A d \in Cli \ {c} : cli'[d] = cli[d]
      /\ DOMAIN cli'[c] = Field /\ cli'[c].left = cli[c].left \ {m}
      /\ cli'[c].waits = IF cli[c].wait THEN cli[c].waits \cup {m} ELSE cli[c].waits
      /\ \A f \in Field \ {"left", "waits"} : cli'[c][f] = cli[c][f]
  BY <1>2, InvParts DEF Field
<1>7. /\ LifeInv' /\ StatusFollows /\ \A n \in Id : Stays(n) /\ MachineOK(n)'
      /\ \A n \in Id \ {m} : machine'[n] = machine[n]
      /\ machine'[m].env = machine[m].env /\ Life(m)' \notin {"creating", "up"}
      /\ Is(m, {"ending", "emptied", "gone"})'
  <2>1. machine[m].status # "absent"
    BY <1>1 DEF Is
  <2>2. to \in Status \ {"absent", "parts", "starting", "running"}
        /\ Follows(machine[m].status, to)
    BY <1>3, <1>5, <2>1 DEF MachineOK, Status, Follows
  <2>3. driver = "gce" => to \notin {"parts", "emptied"}
    BY <1>3, <1>5, <2>1 DEF MachineOK, Status
  <2>4. /\ LifeInv' /\ StatusFollows /\ \A n \in Id : Stays(n) /\ MachineOK(n)'
        /\ \A n \in Id \ {m} : machine'[n] = machine[n]
        /\ machine'[m].env = machine[m].env /\ machine'[m].status = to
    BY <1>2, <1>4, <2>1, <2>2, <2>3, ChangedStatus
  <2>5. to \in {"ending", "emptied", "gone"}
    BY <1>3, <1>5, <2>1 DEF MachineOK, Status
  <2> QED
    BY <2>2, <2>4, <2>5 DEF Life, Is
<1>8. Steps(c)
  BY <1>1, <1>2, <1>6, <1>7, InvParts DEF Steps, Field, history
<1>9. One' /\ Made'
  BY <1>2, <1>7, <1>8, NoneCreated, StillMade DEF Steps
<1>10. \A e : Alive(e)' \subseteq Alive(e) \ {m}
  <2>1. \A e : Alive(e)' \subseteq Alive(e)
    BY <1>2, <1>7, FewerAlive
  <2> QED
    BY <1>7, <2>1 DEF Alive
<1>11. UpOK(c)'
  <2>1. SUFFICES ASSUME cli[c].job = "up", cli[c].env \notin disturbed
                 PROVE  Alive(cli[c].env)' \subseteq cli[c].left \ {m}
    BY <1>2, <1>6, <1>10 DEF UpOK, Field, history, Alive, Life, Is
  <2>2. Alive(cli[c].env) \subseteq cli[c].left
    BY <1>2, <2>1, InvParts DEF UpOK
  <2>3. cli'[c].env = cli[c].env
    BY <1>6 DEF Field
  <2> QED
    BY <1>10, <2>2, <2>3 DEF Alive, Life, Is
<1>12. PurgeOK(c)'
  <2>1. Active' = Active
    BY <1>2, <1>6 DEF Active, At, Field
  <2>2. \A n \in Own : n \in Id /\ (Is(n, {"absent", "gone"}) => Is(n, {"absent", "gone"})')
    <3>1. \A n \in Own : n \in Id /\ (machine[n].status = "absent" => machine'[n].status = "absent")
      <4>1. \A n \in Id : machine[n].status = "absent" /\ n > created =>
                            machine'[n].status = "absent"
        BY <1>2, <1>7, InvParts DEF LifeInv
      <4> QED
        BY <1>7, <4>1, InvParts DEF Stays, Own
    <3> QED
      BY <1>7, <3>1 DEF StatusFollows, Follows, Is
  <2> QED
    BY <1>2, <1>6, <2>1, <2>2, InvParts DEF PurgeOK, Field, Is, Own, Id, history
<1>13. CommandOK(c)'
  <2>1. Touches(cli'[c]) = Touches(cli[c]) /\ cli'[c].at = "delete"
    BY <1>2, <1>6 DEF Touches, Field
  <2>2. \A n \in cli'[c].left : n \in cli[c].left /\ n \in Id
    BY <1>6, InvParts DEF CommandOK
  <2>3. \A n \in cli'[c].left :
          n <= created' /\ machine'[n].env \in Touches(cli'[c]) /\ ~Is(n, {"absent"})'
    BY <1>2, <1>7, <2>1, <2>2, InvParts DEF CommandOK, Stays, StatusFollows, Follows, Is
  <2>4. ChainsOK(c)'
    <3>1. cli[c].wait \in BOOLEAN /\ cli'[c].wait = cli[c].wait
          /\ cli'[c].listed = cli[c].listed /\ cli[c].listed \subseteq Id
      BY <1>6, InvParts DEF CommandOK, Field
    <3>2. \A n \in cli[c].listed : n \in cli[c].left \cup cli[c].waits \/ Is(n, Ended(c))
      BY <1>2, InvParts DEF CommandOK, ChainsOK
    <3>3. \A n \in Id : Is(n, Ended(c)) => Is(n, Ended(c))'
      BY <1>7, <3>1 DEF StatusFollows, Follows, Is, Ended
    <3>4. m \in cli'[c].waits \/ Is(m, Ended(c))'
      BY <1>6, <1>7, <3>1 DEF Ended, Is
    <3>5. \A n \in cli[c].listed : n \in cli'[c].left \cup cli'[c].waits \/ Is(n, Ended(c))'
      BY <1>6, <3>1, <3>2, <3>3, <3>4
    <3>6. cli'[c].waits \subseteq Id
      BY <1>6, InvParts DEF CommandOK, ChainsOK
    <3> QED
      BY <2>1, <3>1, <3>5, <3>6 DEF ChainsOK, Id
  <2> QED
    BY <1>2, <1>6, <2>1, <2>2, <2>3, <2>4, InvParts
    DEF CommandOK, Field, Touches, Working, Id, Is
<1>14. CountersOK'
  BY <1>2, InvParts DEF CountersOK, bounds, history
<1> QED
  BY <1>7, <1>8, <1>9, <1>11, <1>12, <1>13, <1>14, CommandStepKeepsInv

\* The steps of a command that only take it to another stage.
LEMMA GoKeepsInv ==
  ASSUME CloudInv, NEW c \in Cli, NEW stage \in Stage \ {"idle", "find"}, Go(c, stage),
         UNCHANGED <<driver, machine, created, bounds, history>>,
         cli[c].at \notin {"idle", "find"}, CommandOK(c)', UpOK(c)',
         \/ cli[c].at \notin {"parts", "vm", "start"}
         \/ stage \in {"parts", "vm", "start"}
         \/ Life(cli[c].machine) # "creating"
  PROVE  CloudInv'
<1>1. /\ DOMAIN cli' = Cli /\ \A d \in Cli \ {c} : cli'[d] = cli[d]
      /\ cli'[c].at = stage /\ cli'[c].job = cli[c].job /\ cli'[c].env = cli[c].env
      /\ cli'[c].machine = cli[c].machine /\ cli'[c].listed = cli[c].listed
  BY GoSteps DEF Field
<1>2. PurgeOK(c)' /\ CountersOK'
  BY <1>1, PurgeGoesOn, InvParts DEF CountersOK, bounds, history
<1> QED
  BY <1>1, <1>2, PlainStepKeepsInv DEF history

LEMMA DeletesAskedKeepsInv ==
  ASSUME CloudInv, NEW c \in Cli, DeletesAsked(c)
  PROVE  CloudInv'
<1>1. PICK stage \in {"create", "done"} :
        Go(c, stage) /\ (stage = "create" => cli[c].job = "up")
  BY DEF DeletesAsked
<1>2. /\ UNCHANGED <<driver, machine, created, bounds, history>>
      /\ cli[c].at = "delete" /\ cli[c].left = {} /\ cli[c].waits = {}
  BY DEF DeletesAsked, At
<1>3. /\ DOMAIN cli'[c] = Field /\ cli'[c].at = stage
      /\ \A f \in Field \ {"at"} : cli'[c][f] = cli[c][f]
  BY <1>1, GoSteps
<1>4. cli[c].job \in {"up", "down", "purge"}
  BY <1>2, InvParts DEF CommandOK
<1>5. CommandOK(c)'
  <2>1. Touches(cli'[c]) = Touches(cli[c])
    BY <1>3 DEF Touches, Field
  <2>2. \A m \in cli'[c].left :
          m <= created' /\ machine'[m].env \in Touches(cli'[c]) /\ ~Is(m, {"absent"})'
    BY <1>2, <1>3, <2>1, InvParts DEF CommandOK, Field, Is
  <2>3. ChainsOK(c)'
    <3>1. /\ cli'[c].left = {} /\ cli'[c].waits = {} /\ cli'[c].wait = cli[c].wait
          /\ cli'[c].listed = cli[c].listed
      BY <1>2, <1>3 DEF Field
    <3>2. \A m \in cli[c].listed : Is(m, Ended(c))
      BY <1>2, InvParts DEF CommandOK, ChainsOK
    <3> QED
      BY <1>2, <3>1, <3>2 DEF ChainsOK, Ended, Is, Id
  <2> QED
    BY <1>1, <1>2, <1>3, <1>4, <2>2, <2>3, InvParts
    DEF CommandOK, Field, Stage, Working, Touches, Is, Id
<1>6. UpOK(c)'
  BY <1>1, <1>2, <1>3, InvParts DEF UpOK, Field, history, Alive, Life, Is
<1>7. stage \in Stage \ {"idle", "find"}
  BY DEF Stage
<1> QED
  BY <1>1, <1>2, <1>5, <1>6, <1>7, GoKeepsInv

LEMMA WaitKeepsInv ==
  ASSUME CloudInv, NEW c \in Cli, NEW x \in cli[c].waits, WaitForDeletion(c, x)
  PROVE  CloudInv'
<1>1. PICK m \in Id : m = x /\ m \in cli[c].waits
  BY InvParts DEF CommandOK, ChainsOK
<1>2. /\ cli[c].at = "delete" /\ Is(m, {"gone"})
      /\ cli' = [cli EXCEPT ![c].waits = @ \ {m}]
      /\ UNCHANGED <<driver, machine, created, bounds, history>>
      /\ disturbed' = disturbed /\ crowded' = crowded
  BY <1>1 DEF WaitForDeletion, At, history
<1>3. /\ DOMAIN cli' = Cli /\ \A d \in Cli \ {c} : cli'[d] = cli[d]
      /\ DOMAIN cli'[c] = Field /\ cli'[c].waits = cli[c].waits \ {m}
      /\ \A f \in Field \ {"waits"} : cli'[c][f] = cli[c][f]
  BY <1>2, InvParts DEF Field
<1>4. /\ cli'[c].at = "delete" /\ cli'[c].job = cli[c].job /\ cli'[c].env = cli[c].env
      /\ cli'[c].listed = cli[c].listed /\ cli'[c].wait = cli[c].wait
      /\ cli'[c].left = cli[c].left /\ cli'[c].want = cli[c].want
      /\ cli'[c].machine = cli[c].machine
  BY <1>2, <1>3 DEF Field
<1>5. ChainsOK(c)'
  <2>1. Is(m, Ended(c))
    BY <1>2 DEF Ended, Is
  <2>2. /\ cli[c].waits \subseteq Id
        /\ \A n \in cli[c].listed : n \in cli[c].left \cup cli[c].waits \/ Is(n, Ended(c))
    BY <1>2, InvParts DEF CommandOK, ChainsOK
  <2>3. \A n \in cli[c].listed : n \in cli'[c].left \cup cli'[c].waits \/ Is(n, Ended(c))
    BY <1>3, <1>4, <2>1, <2>2
  <2> QED
    BY <1>2, <1>3, <1>4, <2>2, <2>3 DEF ChainsOK, Ended, Is, Id
<1>6. CommandOK(c)'
  <2>1. Touches(cli'[c]) = Touches(cli[c])
    BY <1>4 DEF Touches
  <2>2. \A n \in cli'[c].left :
          n <= created' /\ machine'[n].env \in Touches(cli'[c]) /\ ~Is(n, {"absent"})'
    BY <1>2, <1>4, <2>1, InvParts DEF CommandOK, Is
  <2> QED
    BY <1>2, <1>3, <1>4, <1>5, <2>2, InvParts DEF CommandOK, Stage, Working, Touches, Id, Is
<1>7. UpOK(c)' /\ PurgeOK(c)' /\ CountersOK'
  <2>1. UpOK(c)' /\ CountersOK'
    BY <1>2, <1>4, InvParts DEF UpOK, CountersOK, bounds, Alive, Life, Is
  <2> QED
    BY <1>2, <1>3, <1>4, <2>1, PurgeGoesOn
<1> QED
  BY <1>2, <1>3, <1>4, <1>6, <1>7, PlainStepKeepsInv

LEMMA CreatingGoesOn ==
  ASSUME CloudInv, NEW c \in Cli, CreateParts(c) \/ Started(c) \/ Connect(c)
  PROVE  CloudInv'
<1>1. PICK m \in Id : m = cli[c].machine /\ m <= created /\ machine[m].env = cli[c].env
                      /\ (cli[c].want # None => machine[m].size = cli[c].want)
                      /\ cli[c].job = "up"
  BY InvParts DEF CreateParts, Started, Connect, At, CommandOK, Working
<1>2. PICK stage \in {"vm", "connect", "ready"} :
        /\ Go(c, stage)
        /\ stage = "vm" => m \in Own
        /\ stage = "connect" => Life(m) # "creating"
        /\ stage = "ready" => m \in Own /\ Is(m, {"running"}) /\ cli[c].at = "connect"
  <2>1. CASE CreateParts(c)
    BY <1>1, <2>1, InvParts DEF CreateParts, At, CommandOK
  <2>2. CASE Started(c)
    BY <1>1, <2>2 DEF Started, waitForOperation, HasVm, HasAddress, Life, Is
  <2>3. CASE Connect(c)
    BY <1>1, <2>3 DEF Connect, At
  <2> QED
    BY <2>1, <2>2, <2>3
<1>3. /\ UNCHANGED <<driver, machine, created, bounds, history>>
      /\ cli[c].at \in {"parts", "start", "connect"}
  BY DEF CreateParts, Started, Connect, At
<1>4. /\ DOMAIN cli'[c] = Field /\ cli'[c].at = stage
      /\ \A f \in Field \ {"at"} : cli'[c][f] = cli[c][f]
  BY <1>2, GoSteps
<1>5. cli'[c].machine = m
  BY <1>1, <1>4 DEF Field
<1>6. CommandOK(c)'
  <2>1. stage \in Stage \ {"idle", "delete", "done"}
    BY DEF Stage
  <2> QED
    BY <1>1, <1>2, <1>3, <1>4, <1>5, <2>1, StageSteps
<1>7. UpOK(c)'
  BY <1>2, <1>3, <1>4, <1>5 DEF UpOK, Is
<1>8. stage \in Stage \ {"idle", "find"}
  BY DEF Stage
<1> QED
  BY <1>1, <1>2, <1>3, <1>6, <1>7, <1>8, GoKeepsInv

LEMMA VirtualMachineKeepsInv ==
  ASSUME CloudInv, NEW c \in Cli, createVirtualMachine(c)
  PROVE  CloudInv'
<1>1. PICK m \in Own : m = cli[c].machine /\ m <= created /\ machine[m].env = cli[c].env
                       /\ (cli[c].want # None => machine[m].size = cli[c].want)
                       /\ cli[c].job = "up"
  BY InvParts DEF createVirtualMachine, At, CommandOK, Working
<1>2. /\ cli[c].at = "vm" /\ machine[m].status = "parts"
      /\ machine' = [machine EXCEPT ![m].status = "starting"] /\ Go(c, "start")
      /\ UNCHANGED <<driver, created, bounds, history>> /\ m \in Id
  BY <1>1 DEF createVirtualMachine, At, Is, Own
<1>3. /\ LifeInv' /\ StatusFollows /\ \A x \in Id : Stays(x) /\ MachineOK(x)'
      /\ \A x \in Id \ {m} : machine'[x] = machine[x]
      /\ machine'[m].env = machine[m].env /\ machine'[m].size = machine[m].size
  BY <1>2, ChangedStatus DEF Follows, Status
<1>4. /\ DOMAIN cli' = Cli /\ \A d \in Cli \ {c} : cli'[d] = cli[d]
      /\ DOMAIN cli'[c] = Field /\ cli'[c].at = "start"
      /\ \A f \in Field \ {"at"} : cli'[c][f] = cli[c][f]
  BY <1>2, GoSteps
<1>5. cli'[c].machine = m /\ cli'[c].job = "up" /\ cli'[c].env = cli[c].env
  BY <1>1, <1>4 DEF Field
<1>6. Steps(c)
  BY <1>1, <1>2, <1>3, <1>4, <1>5, InvParts DEF Steps, Touches, history
<1>7. One' /\ Made'
  BY <1>1, <1>2, <1>3, <1>4, <1>5, <1>6, NoneCreated, StillMade DEF Steps
<1>8. UpOK(c)' /\ PurgeOK(c)' /\ CountersOK'
  BY <1>2, <1>4, <1>5, InvParts DEF UpOK, PurgeOK, CountersOK, bounds, history
<1>9. CommandOK(c)'
  <2>1. Touches(cli'[c]) = Touches(cli[c]) /\ cli'[c].left = cli[c].left
    BY <1>4, <1>5 DEF Touches, Field
  <2>2. \A n \in cli[c].left : n \in Id
    BY InvParts DEF CommandOK
  <2>3. \A n \in cli'[c].left :
          n <= created' /\ machine'[n].env \in Touches(cli'[c]) /\ ~Is(n, {"absent"})'
    BY <1>2, <1>3, <2>1, <2>2, InvParts DEF CommandOK, Stays, StatusFollows, Follows, Is
  <2>4. cli'[c].want = cli[c].want /\ m \in Id /\ machine'[m].size = machine[m].size
    BY <1>2, <1>3, <1>4 DEF Field
  <2>5. /\ cli'[c].wait = cli[c].wait /\ cli'[c].listed = cli[c].listed
        /\ cli[c].wait \in BOOLEAN /\ cli[c].listed \subseteq Id /\ cli[c].left \subseteq Id
        /\ cli[c].env \in Env /\ cli[c].want \in Size \cup {None}
    BY <1>1, <1>4, InvParts DEF Field, CommandOK
  <2>6. ChainsOK(c)'
    BY <1>3, <1>4, ChainsStand DEF Field
  <2> QED
    BY <1>1, <1>2, <1>3, <1>4, <1>5, <2>1, <2>3, <2>4, <2>5, <2>6
    DEF CommandOK, Touches, Working, Stage, Is
<1> QED
  BY <1>3, <1>6, <1>7, <1>8, <1>9, CommandStepKeepsInv

\* up creates the first part of its machine.
LEMMA CreateKeepsInv ==
  ASSUME CloudInv, NEW c \in Cli, CreateGroup(c) \/ createInstance(c)
  PROVE  CloudInv'
<1>1. PICK m \in newName(c) \cap Own, status \in {"parts", "starting"}, stage \in {"parts", "start"} :
        /\ Create(c, m, status) /\ created' = m
        /\ cli' = [cli EXCEPT ![c].at = stage, ![c].machine = m]
        /\ driver = "gce" => status = "starting"
  BY DEF CreateGroup, createInstance
<1>2. /\ cli[c].at = "create" /\ UNCHANGED <<driver, bounds, history>>
      /\ disturbed' = disturbed /\ crowded' = crowded
  BY DEF CreateGroup, createInstance, At, history
<1>3. cli[c].job = "up" /\ cli[c].env \in Env /\ Touches(cli[c]) = {cli[c].env}
  BY <1>2, InvParts DEF CommandOK, Touches
<1>4. m \in Id /\ m \in Own /\ m = created + 1 /\ machine[m].status = "absent"
  BY InvParts DEF newName, Own, LifeInv
<1>5. LifeInv' /\ StatusFollows
  BY <1>1, InvParts, CreateStep
<1>6. /\ \A n \in Id \ {m} : machine'[n] = machine[n]
      /\ machine'[m] = [env |-> cli[c].env, size |-> vmSize(c), status |-> status]
  BY <1>1, <1>4, InvParts DEF Create, LifeInv
<1>7. /\ DOMAIN cli' = Cli /\ \A d \in Cli \ {c} : cli'[d] = cli[d]
      /\ DOMAIN cli'[c] = Field /\ cli'[c].at = stage /\ cli'[c].machine = m
      /\ \A f \in Field \ {"at", "machine"} : cli'[c][f] = cli[c][f]
  BY <1>1, InvParts DEF Field
<1>8. /\ cli'[c].job = "up" /\ cli'[c].env = cli[c].env /\ cli'[c].want = cli[c].want
      /\ cli'[c].left = cli[c].left /\ cli'[c].listed = cli[c].listed
      /\ cli'[c].wait = cli[c].wait
  BY <1>3, <1>7 DEF Field
<1>9. Steps(c)
  <2>1. created <= created' /\ \A n \in Id : n <= created => n # m
    BY <1>1, <1>4, InvParts
  <2>2. \A n \in Id : machine'[n] # machine[n] => machine'[n].env \in Touches(cli[c])
    BY <1>3, <1>6
  <2> QED
    BY <1>2, <1>3, <1>6, <1>7, <1>8, <2>1, <2>2 DEF Steps, Stays
<1>10. \A n \in Id : MachineOK(n)'
  <2>1. MachineOK(m)'
    BY <1>1, <1>2, <1>3, <1>6, InvParts, CloudAssumption
    DEF MachineOK, Status, vmSize, CommandOK
  <2> QED
    BY <1>2, <1>6, <2>1 DEF CloudInv, MachineOK
<1>11. One'
  <2>1. SUFFICES ASSUME NEW e \in Env \ disturbed, NEW x \in Alive(e)', NEW y \in Alive(e)'
                 PROVE  x = y
    BY <1>2 DEF One, Alive, Life, Is
  <2>2. \A n \in Alive(e)' : n # m => n \in Alive(e)
    BY <1>6 DEF Alive, Life, Is, Own
  <2>3. CASE e = cli[c].env
    <3>1. Alive(e) = {}
      BY <1>2, <1>3, <2>1, <2>3, InvParts DEF UpOK
    <3> QED
      BY <2>2, <3>1
  <2>4. CASE e # cli[c].env
    <3>1. m \notin Alive(e)'
      BY <1>6, <2>4 DEF Alive
    <3> QED
      BY <2>1, <2>2, <3>1 DEF CloudInv, One
  <2> QED
    BY <2>3, <2>4
<1>12. Made'
  <2>1. SUFFICES ASSUME NEW x \in Own, Life(x)' = "creating", machine'[x].env \notin disturbed
                 PROVE  \E d \in Cli : /\ cli'[d].at \in {"parts", "vm", "start"}
                                       /\ cli'[d].machine = x
    BY <1>2 DEF Made, Own, Id
  <2>2. CASE x = m
    BY <1>7, <2>2
  <2>3. CASE x # m
    <3>1. machine'[x] = machine[x]
      BY <1>6, <2>3 DEF Own
    <3>2. Life(x) = "creating" /\ machine[x].env \notin disturbed
      BY <2>1, <3>1 DEF Life, Is
    <3>3. PICK d \in Cli : cli[d].at \in {"parts", "vm", "start"} /\ cli[d].machine = x
      BY <3>2 DEF CloudInv, Made
    <3> QED
      BY <1>2, <1>7, <3>3
  <2> QED
    BY <2>2, <2>3
<1>13. UpOK(c)' /\ PurgeOK(c)' /\ CountersOK'
  BY <1>2, <1>7, <1>8, InvParts DEF UpOK, PurgeOK, CountersOK, bounds
<1>14. CommandOK(c)'
  <2>1. Touches(cli'[c]) = Touches(cli[c])
    BY <1>3, <1>8 DEF Touches
  <2>2. \A n \in cli[c].left :
          n \in Id /\ n <= created /\ machine[n].env \in Touches(cli[c]) /\ ~Is(n, {"absent"})
    BY InvParts DEF CommandOK
  <2>3. \A n \in cli'[c].left :
          n <= created' /\ machine'[n].env \in Touches(cli'[c]) /\ ~Is(n, {"absent"})'
    BY <1>1, <1>4, <1>6, <1>8, <2>1, <2>2, InvParts DEF Is
  <2>4. cli[c].want # None => machine'[m].size = cli[c].want
    BY <1>6 DEF vmSize
  <2>5. cli[c].wait \in BOOLEAN /\ cli[c].listed \subseteq Id /\ cli[c].left \subseteq Id
        /\ cli[c].want \in Size \cup {None}
    BY InvParts DEF CommandOK
  <2>6. created' = m /\ m <= m
    BY <1>1, <1>4, InvParts
  <2>7. ChainsOK(c)'
    BY <1>5, <1>7, ChainsStand DEF Field
  <2> QED
    BY <1>3, <1>4, <1>6, <1>7, <1>8, <2>3, <2>4, <2>5, <2>6, <2>7
    DEF CommandOK, Touches, Working, Stage, Is
<1> QED
  BY <1>5, <1>9, <1>10, <1>11, <1>12, <1>13, <1>14, CommandStepKeepsInv

-----------------------------------------------------------------------------
(* Commands start *)

Job(j) ==
  /\ DOMAIN j = Field /\ j.at = "find" /\ j.job \in {"up", "down", "purge"}
  /\ j.env \in Env \cup {None} /\ j.want \in Size \cup {None} /\ j.wait \in BOOLEAN
  /\ j.machine = 0 /\ j.left = {} /\ j.waits = {} /\ j.listed = {}
  /\ j.job \in {"up", "down"} => j.env \in Env

LEMMA JobsStart ==
  ASSUME CloudInv, NEW c \in Cli,
         \/ \E e \in Env, s \in Wanted : Up(c, e, s)
         \/ \E e \in Env, w \in BOOLEAN : Down(c, e, w)
         \/ \E w \in BOOLEAN : Purge(c, w)
  PROVE  \E j : Start(c, j) /\ Job(j)
<1>0. /\ DOMAIN Idle = Field /\ Idle.env = None /\ Idle.want = None /\ Idle.wait = FALSE
      /\ Idle.machine = 0 /\ Idle.left = {} /\ Idle.waits = {} /\ Idle.listed = {}
  BY DEF Idle, Field
<1>1. ASSUME NEW e \in Env, NEW s \in Wanted, Up(c, e, s) PROVE \E j : Start(c, j) /\ Job(j)
  <2> DEFINE j == [Idle EXCEPT !.at = "find", !.job = "up", !.env = e, !.want = s]
  <2>1. Start(c, j)
    BY <1>1 DEF Up
  <2>2. Job(j)
    BY <1>0, CloudAssumption DEF Job, Field
  <2> QED
    BY <2>1, <2>2
<1>2. ASSUME NEW e \in Env, NEW w \in BOOLEAN, Down(c, e, w)
      PROVE  \E j : Start(c, j) /\ Job(j)
  <2> DEFINE j == [Idle EXCEPT !.at = "find", !.job = "down", !.env = e, !.wait = w]
  <2>1. Start(c, j)
    BY <1>2 DEF Down
  <2>2. Job(j)
    BY <1>0 DEF Job, Field
  <2> QED
    BY <2>1, <2>2
<1>3. ASSUME NEW w \in BOOLEAN, Purge(c, w) PROVE \E j : Start(c, j) /\ Job(j)
  <2> DEFINE j == [Idle EXCEPT !.at = "find", !.job = "purge", !.wait = w]
  <2>1. Start(c, j)
    BY <1>3 DEF Purge
  <2>2. Job(j)
    BY <1>0 DEF Job, Field
  <2> QED
    BY <2>1, <2>2
<1> QED
  BY <1>1, <1>2, <1>3

LEMMA StartKeepsInv ==
  ASSUME CloudInv, NEW c \in Cli, NEW j, Start(c, j), Job(j)
  PROVE  CloudInv'
<1>1. /\ cli[c].at = "idle" /\ UNCHANGED <<driver, machine, created, faults>>
      /\ started < MaxCommands /\ started' = started + 1
      /\ cli' = [cli EXCEPT ![c] = j]
      /\ disturbed' = disturbed \cup (Touches(j) \cap UNION {Touches(cli[d]) : d \in Active})
      /\ crowded' = IF Active = {} THEN {}
                    ELSE crowded \cup {d \in Active : cli[d].job = "purge"}
                           \cup IF j.job = "purge" THEN {c} ELSE {}
  BY DEF Start, At
<1>2. DOMAIN cli' = Cli /\ cli'[c] = j /\ \A d \in Cli \ {c} : cli'[d] = cli[d]
  BY <1>1, InvParts
<1>3. LifeInv' /\ StatusFollows /\ created \in Nat /\ disturbed \subseteq disturbed'
  BY <1>1, InvParts, SameStep
<1>4. Active' = Active \cup {c} /\ c \notin Active
  BY <1>1, <1>2 DEF Active, At, Job
<1>5. CountersOK'
  <2>1. started' \in 0 .. MaxCommands /\ faults' = faults /\ driver' = driver
    BY <1>1, InvParts, CloudAssumption DEF CountersOK
  <2>2. Touches(j) \subseteq Env
    BY DEF Job, Touches
  <2>3. disturbed' \subseteq Env
    BY <1>1, <2>2, InvParts DEF CountersOK
  <2>4. crowded' \subseteq Cli
    BY <1>1, InvParts DEF CountersOK, Active
  <2> QED
    BY <2>1, <2>3, <2>4, InvParts DEF CountersOK
<1>6. CommandOK(c)' /\ UpOK(c)'
  <2>1. 0 \in Id
    BY CloudAssumption DEF Id
  <2> QED
    BY <1>2, <2>1 DEF CommandOK, ChainsOK, UpOK, Job, Stage, Working
<1>7. PurgeOK(c)'
  BY <1>1, <1>2, <1>4 DEF PurgeOK, Job
<1>8. ASSUME NEW d \in Cli \ {c} PROVE CommandOK(d)' /\ UpOK(d)' /\ PurgeOK(d)'
  <2>1. CommandOK(d)'
    BY <1>1, <1>2, <1>3, OthersKnow DEF Stays
  <2>2. UpOK(d)'
    BY <1>1, <1>2, <1>3, InvParts DEF UpOK, Alive, Life, Is
  <2>3. PurgeOK(d)'
    <3>1. SUFFICES ASSUME cli[d].job = "purge", d \notin crowded' PROVE FALSE
      BY <1>2 DEF PurgeOK
    <3>2. d \in Active
      BY <3>1, InvParts, CloudAssumption DEF CommandOK, Active, At
    <3> QED
      BY <1>1, <3>1, <3>2
  <2> QED
    BY <2>1, <2>2, <2>3
<1>9. Apart'
  <2>1. SUFFICES ASSUME NEW a \in Active', NEW b \in Active', a # b
                 PROVE  Touches(cli'[a]) \cap Touches(cli'[b]) \subseteq disturbed'
    BY DEF Apart, Touches
  <2>2. CASE a = c
    <3>1. b \in Active /\ cli'[b] = cli[b] /\ cli'[a] = j
      BY <1>2, <1>4, <2>1, <2>2 DEF Active
    <3> QED
      BY <1>1, <3>1
  <2>3. CASE b = c
    <3>1. a \in Active /\ cli'[a] = cli[a] /\ cli'[b] = j
      BY <1>2, <1>4, <2>1, <2>3 DEF Active
    <3> QED
      BY <1>1, <3>1
  <2>4. CASE a # c /\ b # c
    <3>1. a \in Active /\ b \in Active /\ cli'[a] = cli[a] /\ cli'[b] = cli[b]
      BY <1>2, <1>4, <2>4 DEF Active
    <3> QED
      BY <1>3, <2>1, <3>1 DEF CloudInv, Apart
  <2> QED
    BY <2>2, <2>3, <2>4
<1>10. One'
  BY <1>1, <1>3 DEF CloudInv, One, Alive, Life, Is
<1>11. Made'
  <2>1. \A d \in Cli : cli[d].at \in {"parts", "vm", "start"} => cli'[d] = cli[d]
    BY <1>1, <1>2
  <2> QED
    BY <1>1, <1>3, <2>1 DEF CloudInv, Made, Life, Is, Own, Id
<1>12. \A m \in Id : MachineOK(m)'
  BY <1>1 DEF CloudInv, MachineOK
<1> QED
  BY <1>2, <1>3, <1>5, <1>6, <1>7, <1>8, <1>9, <1>10, <1>11, <1>12 DEF CloudInv, Id

-----------------------------------------------------------------------------
(* The cloud *)

LEMMA BecomesKeepsInv ==
  ASSUME CloudInv, NEW m \in Id, NEW from, NEW to \in Status \ {"absent"}, Becomes(m, from, to),
         "absent" \notin from, "stopped" \notin from, \A s \in from : Follows(s, to),
         "running" \in from => to = "stopped",
         driver = "gce" => to \notin {"parts", "emptied"}, faults' \in 0 .. MaxFaults
  PROVE  CloudInv'
<1>1. /\ machine[m].status \in from /\ machine' = [machine EXCEPT ![m].status = to]
      /\ UNCHANGED <<driver, cli, created, started, history>>
  BY DEF Becomes, Is
<1>2. /\ LifeInv' /\ StatusFollows /\ \A x \in Id : Stays(x) /\ MachineOK(x)'
      /\ \A x \in Id \ {m} : machine'[x] = machine[x]
      /\ machine'[m].env = machine[m].env /\ machine'[m].status = to
  BY <1>1, ChangedStatus
<1>3. /\ disturbed' = disturbed /\ crowded' = crowded /\ DOMAIN cli' = Cli
      /\ created \in Nat /\ Active' = Active /\ CountersOK'
  BY <1>1 DEF history, Active, At, CloudInv, CountersOK, LifeInv, Id
<1>4. \A e : Alive(e)' \subseteq Alive(e)
  BY <1>1, <1>2, FewerAlive
<1>5. ASSUME NEW d \in Cli PROVE CommandOK(d)' /\ UpOK(d)' /\ PurgeOK(d)'
  <2>1. CommandOK(d)'
    BY <1>1, <1>2, <1>3, OthersKnow
  <2>2. UpOK(d)'
    <3>1. \A n \in Id : Is(n, {"running", "stopped"}) => Is(n, {"running", "stopped"})'
      BY <1>1, <1>2 DEF Is
    <3>2. cli[d].machine \in Id
      BY InvParts DEF CommandOK
    <3>3. Is(cli[d].machine, {"running", "stopped"}) =>
            Is(cli[d].machine, {"running", "stopped"})'
      BY <1>1, <3>1, <3>2 DEF Is
    <3>4. Alive(cli[d].env)' \subseteq Alive(cli[d].env)
      BY <1>1, <1>4 DEF Alive, Life, Is
    <3> QED
      BY <1>1, <1>3, <3>3, <3>4, InvParts DEF UpOK
  <2>3. PurgeOK(d)'
    <3>1. \A n \in Own : n \in Id /\ (Is(n, {"absent", "gone"}) => Is(n, {"absent", "gone"})')
      BY <1>1, <1>2 DEF Is, Own, StatusFollows, Follows
    <3> QED
      BY <1>1, <1>3, <3>1, InvParts DEF PurgeOK, Own, Id
  <2> QED
    BY <2>1, <2>2, <2>3
<1>6. Apart'
  <2>1. \A a : Touches(cli'[a]) = Touches(cli[a])
    BY <1>1
  <2> QED
    BY <1>1, <1>3, <2>1 DEF CloudInv, Apart, Touches
<1>7. One'
  BY <1>1, <1>2, <1>3, NoneCreated
<1>8. Made'
  <2>1. \A x \in Own : Life(x)' = "creating" =>
          Life(x) = "creating" /\ machine'[x].env = machine[x].env
    BY <1>1, <1>2, FewerAlive
  <2> QED
    BY <1>1, <1>3, <2>1 DEF CloudInv, Made, Own, Id
<1> QED
  BY <1>2, <1>3, <1>5, <1>6, <1>7, <1>8 DEF CloudInv, Id

LEMMA CloudKeepsInv ==
  ASSUME CloudInv, NEW m \in Id, CloudStep(m) \/ VmFails(m) \/ VmStops(m)
  PROVE  CloudInv'
<1>1. /\ Unhurt => faults' \in 0 .. MaxFaults
      /\ Hurt => faults' \in 0 .. MaxFaults
  <2>1. faults \in 0 .. MaxFaults
    BY DEF CloudInv, CountersOK
  <2> QED
    BY <2>1, CloudAssumption DEF Unhurt, Hurt
<1>2. CASE VmStarts(m)
  BY <1>1, <1>2, BecomesKeepsInv DEF VmStarts, Follows, Status
<1>3. CASE VmEnds(m)
  BY <1>1, <1>3, BecomesKeepsInv DEF VmEnds, Follows, Status
<1>4. CASE GroupEnds(m)
  BY <1>1, <1>4, BecomesKeepsInv DEF GroupEnds, Follows, Status
<1>5. CASE VmFails(m)
  BY <1>1, <1>5, BecomesKeepsInv DEF VmFails, Follows, Status
<1>6. CASE VmStops(m)
  BY <1>1, <1>6, BecomesKeepsInv DEF VmStops, Follows, Status
<1> QED
  BY <1>2, <1>3, <1>4, <1>5, <1>6 DEF CloudStep

-----------------------------------------------------------------------------
(* The invariant, and what follows from it *)

LEMMA InitHasCloudInv == Init => CloudInv
<1> SUFFICES ASSUME Init PROVE CloudInv
  OBVIOUS
<1> USE CloudAssumption
<1>1. LifeInv
  BY InitHasInv
<1>2. PICK e \in Env :
        \A m \in Id :
          \/ machine[m] = NoMachine
          \/ machine[m] = [NoMachine EXCEPT !.env = e, !.status = "running"] /\ m \in {0, 1}
          \/ machine[m] = [NoMachine EXCEPT !.env = e, !.status = "ending"]
  BY DEF Init
<1>3. \A m \in Id :
        /\ machine[m].env \in {None, e} /\ machine[m].size = DefaultSize
        /\ \/ machine[m].status = "absent"
           \/ machine[m].status = "running" /\ machine[m].env = e /\ m \in {0, 1}
           \/ machine[m].status = "ending" /\ machine[m].env = e
  <2>1. /\ NoMachine.env = None /\ NoMachine.size = DefaultSize
        /\ NoMachine.status = "absent"
    BY DEF NoMachine
  <2>2. \A to : /\ [NoMachine EXCEPT !.env = e, !.status = to].env = e
                /\ [NoMachine EXCEPT !.env = e, !.status = to].size = DefaultSize
                /\ [NoMachine EXCEPT !.env = e, !.status = to].status = to
    BY DEF NoMachine
  <2>3. PICK runs, ends : /\ runs = [NoMachine EXCEPT !.env = e, !.status = "running"]
                          /\ ends = [NoMachine EXCEPT !.env = e, !.status = "ending"]
    OBVIOUS
  <2>4. /\ runs.env = e /\ runs.size = DefaultSize /\ runs.status = "running"
        /\ ends.env = e /\ ends.size = DefaultSize /\ ends.status = "ending"
    BY <2>2, <2>3
  <2>5. \A m \in Id : \/ machine[m] = NoMachine
                      \/ machine[m] = runs /\ m \in {0, 1}
                      \/ machine[m] = ends
    BY <1>2, <2>3
  <2> QED
    BY <2>1, <2>4, <2>5
<1>4. \A m \in Id : MachineOK(m)
  BY <1>3 DEF MachineOK, Status
<1>5. /\ cli = [c \in Cli |-> Idle] /\ started = 0 /\ faults = 0
      /\ disturbed = {} /\ crowded = {} /\ driver \in {"azure", "gce"}
  BY DEF Init
<1>6. \A c \in Cli : CommandOK(c) /\ UpOK(c) /\ PurgeOK(c)
  <2>1. DOMAIN Idle = Field /\ 0 \in Id
    BY DEF Idle, Field, Id
  <2> QED
    BY <1>5, <2>1 DEF Idle, CommandOK, ChainsOK, UpOK, PurgeOK, Stage, Working
<1>7. Apart
  BY <1>5 DEF Apart, Active, At, Idle
<1>8. \A m \in Own : Life(m) \in {"creating", "up"} => m = 1 /\ Life(m) = "up"
  BY <1>3 DEF Life, Is, Own
<1>9. One /\ Made
  BY <1>8 DEF One, Made, Alive
<1> QED
  BY <1>1, <1>4, <1>5, <1>6, <1>7, <1>9 DEF CloudInv, CountersOK

LEMMA StepKeepsInv == CloudInv /\ [Next]_vars => CloudInv'
<1> SUFFICES ASSUME CloudInv, [Next]_vars PROVE CloudInv'
  OBVIOUS
<1>1. ASSUME NEW c \in Cli, CommandStep(c) PROVE CloudInv'
  BY <1>1, FindKeepsInv, GetVmKeepsInv, ListKeepsInv, DeleteKeepsInv, WaitKeepsInv,
     DeletesAskedKeepsInv, CreateKeepsInv, CreatingGoesOn, VirtualMachineKeepsInv, EndKeepsInv
  DEF CommandStep
<1>2. ASSUME NEW c \in Cli, Fault(c) PROVE CloudInv'
  BY <1>2, EndKeepsInv
<1>3. ASSUME NEW c \in Cli,
             \/ \E e \in Env, s \in Wanted : Room /\ Up(c, e, s)
             \/ \E e \in Env, w \in BOOLEAN : Down(c, e, w)
             \/ \E w \in BOOLEAN : Purge(c, w)
      PROVE  CloudInv'
  BY <1>3, JobsStart, StartKeepsInv
<1>4. ASSUME NEW m \in Id, CloudStep(m) \/ VmFails(m) \/ VmStops(m) PROVE CloudInv'
  BY <1>4, CloudKeepsInv
<1>5. CASE UNCHANGED vars
  <2>1. /\ UNCHANGED <<driver, machine, cli, created, started, faults>>
        /\ UNCHANGED <<disturbed, crowded>>
    BY <1>5 DEF vars, bounds, history
  <2>2. LifeInv' /\ CountersOK' /\ \A m \in Id : MachineOK(m)'
    BY <2>1, SameStep DEF CloudInv, CountersOK, MachineOK
  <2>3. \A c \in Cli : CommandOK(c)'
    BY <2>1 DEF CloudInv, CommandOK, ChainsOK, Ended, Is
  <2>4. \A c \in Cli : UpOK(c)' /\ PurgeOK(c)'
    BY <2>1 DEF CloudInv, UpOK, PurgeOK, Active, At, Alive, Life, Is
  <2>5. Apart' /\ One' /\ Made'
    BY <2>1 DEF CloudInv, Apart, One, Made, Active, At, Alive, Life, Is, Touches
  <2> QED
    BY <2>1, <2>2, <2>3, <2>4, <2>5 DEF CloudInv, Id
<1> QED
  BY <1>1, <1>2, <1>3, <1>4, <1>5 DEF Next

LEMMA CloudInvariance == Spec => []CloudInv
BY InitHasCloudInv, StepKeepsInv, PTL DEF Spec

\* The type invariant of the module.
THEOREM CloudTypeCorrect == Spec => []TypeOK
<1>1. CloudInv => TypeOK
  BY DEF CloudInv, TypeOK, LifeInv, CountersOK, MachineOK, CommandOK, ChainsOK
<1> QED
  BY <1>1, CloudInvariance, PTL

\* Whatever the commands, the faults and the order of their steps, an environment
\* that no two commands worked on at a time, that no command stopped on, and that
\* no lookup mistook a machine of, has one machine at most: it is the up that runs
\* alone that creates it, and it has found and deleted the one before.
THEOREM OneMachineCorrect == Spec => []OneMachinePerEnv
<1>1. CloudInv => OneMachinePerEnv
  <2> SUFFICES ASSUME CloudInv, NEW e \in Env \ disturbed
              PROVE  Cardinality(Alive(e)) =< 1
    BY DEF OneMachinePerEnv
  <2>1. CASE Alive(e) = {}
    BY <2>1, FS_EmptySet
  <2>2. CASE \E m : m \in Alive(e)
    <3>1. PICK m : m \in Alive(e)
      BY <2>2
    <3>2. Alive(e) = {m}
      BY <3>1 DEF CloudInv, One
    <3> QED
      BY <3>2, FS_Singleton
  <2> QED
    BY <2>1, <2>2
<1> QED
  BY <1>1, CloudInvariance, PTL

\* up ends with a machine of the environment and of the size that was asked for:
\* what other commands do at the same time, they do to machines of theirs.
THEOREM ReadyAsAskedCorrect == Spec => []ReadyAsAsked
<1>1. CloudInv => ReadyAsAsked
  <2> SUFFICES ASSUME CloudInv, NEW c \in Cli, At(c, "ready"), cli[c].env \notin disturbed
              PROVE  /\ \/ cli[c].machine \in Alive(cli[c].env)
                        \/ Is(cli[c].machine, {"stopped"})
                     /\ machine[cli[c].machine].env = cli[c].env
                     /\ cli[c].want # None => machine[cli[c].machine].size = cli[c].want
    BY DEF ReadyAsAsked
  <2>1. CommandOK(c) /\ UpOK(c) /\ cli[c].at = "ready"
    BY DEF CloudInv, At
  <2>2. /\ machine[cli[c].machine].env = cli[c].env /\ cli[c].machine \in Own
        /\ cli[c].want # None => machine[cli[c].machine].size = cli[c].want
        /\ Is(cli[c].machine, {"running", "stopped"})
    BY <2>1 DEF CommandOK, UpOK, Working
  <2> QED
    BY <2>2 DEF Alive, Life, Is
<1> QED
  BY <1>1, CloudInvariance, PTL

\* Whatever order the chains of a deletion come to their ends in, when it succeeds
\* it has begun, or with --wait seen the end of, the deletion of everything it
\* found; and that is everything of the profile, after a purge that ran alone,
\* groups without a virtual machine included.
THEOREM PurgeLeavesNothingCorrect == Spec => []PurgeLeavesNothing
<1>1. CloudInv => PurgeLeavesNothing
  <2> SUFFICES ASSUME CloudInv, NEW c \in Cli, At(c, "done")
              PROVE  /\ \A m \in cli[c].listed : Is(m, Ended(c))
                     /\ cli[c].job = "purge" /\ c \notin crowded =>
                          \A m \in Own : Is(m, {"absent"} \cup Ended(c))
    BY DEF PurgeLeavesNothing
  <2>1. CommandOK(c) /\ PurgeOK(c) /\ cli[c].at = "done"
    BY DEF CloudInv, At
  <2>2. \A m \in cli[c].listed : Is(m, Ended(c))
    BY <2>1 DEF CommandOK, ChainsOK
  <2>3. "gone" \in Ended(c)
    BY DEF Ended
  <2> QED
    BY <2>1, <2>2, <2>3 DEF PurgeOK, Is
<1> QED
  BY <1>1, CloudInvariance, PTL
=============================================================================
