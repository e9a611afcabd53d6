------------------------- MODULE TunnelAgentProofs -------------------------
(****************************************************************************)
(* Proofs about TunnelAgent, for any containers, tunnels and bounds: type   *)
(* correctness, that the agent asks for each tunnel once (AsksOnce), and    *)
(* that /tunnels answers with the tunnels of one listing (AnswersExact).    *)
(*                                                                          *)
(* Between two updates the server serves exactly the forwards the agent     *)
(* knows; within one, the calls without a reply are all the difference, and *)
(* the forwards and the calls together are what the update wants.           *)
(****************************************************************************)
EXTENDS TunnelAgent, FiniteSetTheorems, SequenceTheorems, TLAPS

\* What the running update makes the tunnels.
Want == Head(queue).want

\* The requests of the calls under way.
Called == {calls[i].req : i \in DOMAIN calls}

Listing == [done : BOOLEAN, found : Services]

Update == [want : Services, awaited : BOOLEAN]

\* The types, with the sequences as such, and a stage that agrees with the queue
\* and the calls, whether updates have failed or not.
AgentTypeOK ==
  /\ TypeOK
  /\ listings \in Seq(Listing)
  /\ queue \in Seq(Update)
  /\ calls \in Seq(Call)
  /\ IsFiniteSet(forwards) /\ IsFiniteSet(inserts)
  /\ stage # "idle" => queue # <<>>
  /\ stage \in {"idle", "hello"} => Awaited

\* No request is called twice at a time.
CalledOnce ==
  \A i, j \in DOMAIN calls : i # j => calls[i].req # calls[j].req

\* A call that was answered well has changed what the server serves; one that
\* was not has left it.  A delete is never refused, it may wait for its streams.
CallsOK ==
  \A i \in DOMAIN calls :
    /\ calls[i].mine
    /\ calls[i].op = "unforward" =>
         /\ calls[i].req \in forwards
         /\ calls[i].reply \in {"none", "closing", "ok"}
         /\ calls[i].reply = "ok" <=> calls[i].req \notin listening
    /\ calls[i].op = "forward" =>
         /\ calls[i].req \notin forwards /\ calls[i].reply # "closing"
         /\ calls[i].reply = "ok" <=> calls[i].req \in listening

\* Without a call under way, the agent knows what is served.
ServedOK ==
  \A r \in Request \ Called : r \in forwards <=> r \in listening

\* The calls of a stage are what is left to do of it.
StageOK ==
  /\ stage \in {"idle", "hello"} => calls = <<>>
  /\ stage = "idle" => ~haveChanges
  /\ stage = "deletes" =>
       /\ \A i \in DOMAIN calls : calls[i].op = "unforward"
       /\ Called = forwards \ Want
       /\ inserts = Want \ forwards
  /\ stage = "creates" =>
       /\ \A i \in DOMAIN calls : calls[i].op = "forward"
       /\ Called = Want \ forwards
       /\ forwards \subseteq Want
  /\ stage = "hello" => forwards = Want

\* An update without changes has nothing to do, and the last hello still holds.
ChangesOK ==
  ~haveChanges => /\ calls = <<>> /\ inserts = {}
                  /\ state # None => state = forwards
                  /\ stage # "idle" => forwards = Want

\* What holds of the tunnels as long as no failed update has been absorbed.
UpdateOK == CalledOnce /\ CallsOK /\ ServedOK /\ StageOK /\ ChangesOK

\* The inductive invariant.
AgentInv ==
  /\ AgentTypeOK
  /\ ~absorbed => UpdateOK
  /\ AnswersExact

-----------------------------------------------------------------------------
(* The calls of an update *)

\* An order of a set has each of its elements once.
LEMMA OrderOfSet ==
  ASSUME NEW S, IsFiniteSet(S), NEW order \in SetToSeqs(S)
  PROVE  /\ order \in Seq(S)
         /\ \A i, j \in DOMAIN order : i # j => order[i] # order[j]
         /\ \A x \in S : \E i \in DOMAIN order : order[i] = x
<1> DEFINE n == Cardinality(S)
<1>1. n \in Nat
  BY FS_CardinalityType
<1>2. order \in [1 .. n -> S] /\ \A i, j \in 1 .. n : i # j => order[i] # order[j]
  BY DEF SetToSeqs
<1>3. IsFiniteSet(1 .. n) /\ Cardinality(1 .. n) = n
  BY <1>1, FS_Interval
<1>4. order \in Injection(1 .. n, S)
  BY <1>2 DEF Injection, IsInjective
<1>5. order \in Surjection(1 .. n, S)
  BY <1>3, <1>4, FS_Injection
<1> QED
  BY <1>1, <1>2, <1>5, SeqDef DEF Surjection

\* Calls are added, one for each request; when there were none, they are all.
LEMMA MakeCalls ==
  ASSUME calls \in Seq(Call), NEW op \in {"forward", "unforward"},
         NEW S \in SUBSET Request, IsFiniteSet(S), Make(op, S)
  PROVE  /\ calls' \in Seq(Call)
         /\ S = {} => calls' = calls
         /\ calls = <<>> =>
              /\ Called' = S
              /\ CalledOnce'
              /\ \A i \in DOMAIN calls' :
                   calls'[i].op = op /\ calls'[i].mine /\ calls'[i].reply = "none"
<1>1. PICK order \in SetToSeqs(S) :
        calls' = calls \o [i \in DOMAIN order |->
          [op |-> op, req |-> order[i], mine |-> TRUE, reply |-> "none"]]
  BY DEF Make
<1> DEFINE new == [i \in DOMAIN order |->
                    [op |-> op, req |-> order[i], mine |-> TRUE, reply |-> "none"]]
<1>2. /\ order \in Seq(S)
      /\ \A i, j \in DOMAIN order : i # j => order[i] # order[j]
      /\ \A x \in S : \E i \in DOMAIN order : order[i] = x
  BY OrderOfSet
<1>3. Len(order) \in Nat /\ DOMAIN order = 1 .. Len(order)
      /\ \A i \in DOMAIN order : order[i] \in S
  BY <1>2
<1>4. \A i \in DOMAIN order : new[i] \in Call
  BY <1>3, Zenon DEF Call
<1>5. new \in Seq(Call)
  BY <1>3, <1>4, SeqDef
<1>6. calls' \in Seq(Call)
  BY <1>1, <1>5, ConcatProperties
<1>7. S = {} => calls' = calls
  <2>1. S = {} => new = <<>>
    BY <1>2, <1>3
  <2> QED
    BY <1>1, <2>1, ConcatEmptySeq
<1>8. ASSUME calls = <<>>
      PROVE  /\ Called' = S
             /\ CalledOnce'
             /\ \A i \in DOMAIN calls' :
                  calls'[i].op = op /\ calls'[i].mine /\ calls'[i].reply = "none"
  <2>1. calls' = new
    BY <1>1, <1>5, <1>8, ConcatEmptySeq
  <2>2. DOMAIN calls' = DOMAIN order
        /\ \A i \in DOMAIN calls' :
             /\ calls'[i].req = order[i] /\ calls'[i].op = op
             /\ calls'[i].mine /\ calls'[i].reply = "none"
    BY <2>1
  <2> QED
    BY <1>2, <1>3, <2>2 DEF Called, CalledOnce
<1> QED
  BY <1>6, <1>7, <1>8

-----------------------------------------------------------------------------
(* Listings and restarts leave the tunnels alone *)

\* Every element of a sequence is of its type.
LEMMA SeqElements ==
  ASSUME NEW S, NEW s \in Seq(S)
  PROVE  \A i \in DOMAIN s : s[i] \in S
OBVIOUS

LEMMA InitHasInv == Init => AgentInv
<1> SUFFICES ASSUME Init PROVE AgentInv
  OBVIOUS
<1> USE AgentAssumption
<1>1. IsFiniteSet({}) /\ IsFiniteSet({Api})
  BY FS_EmptySet, FS_Singleton
<1>2. {Api} \in Services
  BY <1>1 DEF Services
<1>3. Asked \in Listing
  BY <1>2 DEF Asked, Listing
<1>4. AgentTypeOK
  <2>1. listings \in Seq(Listing) /\ Len(listings) = 1
        /\ \A i \in DOMAIN listings : listings[i] \in Listing
    BY <1>3 DEF Init
  <2>2. services \in Services /\ event \in BOOLEAN /\ overtaken \in BOOLEAN
        /\ up \in BOOLEAN /\ haveChanges \in BOOLEAN /\ absorbed \in BOOLEAN
    BY Zenon DEF Init
  <2>3. changes \in 0 .. MaxChanges /\ faults \in 0 .. MaxFaults
    BY DEF Init
  <2>4. TypeOK
    BY <2>1, <2>2, <2>3 DEF Init, TypeOK, Listing
  <2> QED
    BY <1>1, <2>1, <2>4 DEF Init, AgentTypeOK, Awaited
<1>5. UpdateOK
  BY DEF Init, UpdateOK, CalledOnce, CallsOK, ServedOK, StageOK, ChangesOK, Called
<1> QED
  BY <1>4, <1>5 DEF Init, AgentInv, AnswersExact

\* A step that leaves the tunnels and the running update alone.
LEMMA SameUpdate ==
  ASSUME ~absorbed => UpdateOK, AnswersExact, stage # "idle" => queue # <<>>,
         UNCHANGED <<stage, inserts, haveChanges, answer, tunnels>>,
         queue # <<>> => queue' # <<>> /\ Want' = Want
  PROVE  (~absorbed' => UpdateOK') /\ AnswersExact'
<1>1. AnswersExact'
  BY DEF AnswersExact, tunnels
<1>2. ASSUME ~absorbed, UpdateOK PROVE UpdateOK'
  <2>1. CalledOnce' /\ CallsOK' /\ ServedOK'
    BY <1>2 DEF tunnels, UpdateOK, CalledOnce, CallsOK, ServedOK, Called
  <2>2. StageOK'
    BY <1>2 DEF tunnels, UpdateOK, StageOK, Called
  <2>3. ChangesOK'
    BY <1>2 DEF tunnels, UpdateOK, StageOK, ChangesOK
  <2> QED
    BY <2>1, <2>2, <2>3 DEF UpdateOK
<1> QED
  BY <1>1, <1>2 DEF tunnels

LEMMA ListStepKeepsInv ==
  ASSUME AgentInv,
         \/ \E S \in Services : Change(S)
         \/ ListServices
         \/ \E i \in DOMAIN listings : DockerLists(i)
         \/ Restart
  PROVE  AgentInv'
<1> USE AgentAssumption
<1>1. IsFiniteSet({Api})
  BY FS_Singleton
<1>2. Asked \in Listing
  BY <1>1 DEF Asked, Listing, Services
<1>3. /\ UNCHANGED <<queue, stage, inserts, haveChanges, answer, tunnels>>
      /\ UNCHANGED faults
  BY DEF Change, ListServices, DockerLists, Restart, update
<1>4. (~absorbed' => UpdateOK') /\ AnswersExact'
  BY <1>3, SameUpdate DEF AgentInv, AgentTypeOK, Want
<1>5. listings' \in Seq(Listing) /\ Len(listings') <= MaxListings
  <2>1. listings \in Seq(Listing) /\ Len(listings) <= MaxListings /\ services \in Services
    BY DEF AgentInv, AgentTypeOK, TypeOK
  <2>2. CASE \E S \in Services : Change(S)
    BY <2>1, <2>2 DEF Change
  <2>3. CASE ListServices
    BY <1>2, <2>1, <2>3, AppendProperties DEF ListServices
  <2>4. CASE Restart
    BY <1>2, <2>4 DEF Restart
  <2>5. ASSUME NEW i \in DOMAIN listings, DockerLists(i)
        PROVE  listings' \in Seq(Listing) /\ Len(listings') <= MaxListings
    <3>1. [done |-> TRUE, found |-> services] \in Listing
      BY <2>1 DEF Listing
    <3> QED
      BY <2>1, <2>5, <3>1, ExceptSeq DEF DockerLists
  <2> QED
    BY <2>2, <2>3, <2>4, <2>5
<1>6. services' \in Services /\ event' \in BOOLEAN /\ overtaken' \in BOOLEAN
      /\ up' \in BOOLEAN /\ changes' \in 0 .. MaxChanges
  <2>1. services \in Services /\ event \in BOOLEAN /\ overtaken \in BOOLEAN
        /\ up \in BOOLEAN /\ changes \in 0 .. MaxChanges
    BY DEF AgentInv, AgentTypeOK, TypeOK
  <2>2. changes' \in 0 .. MaxChanges
    BY <2>1 DEF Change, ListServices, DockerLists, Restart, docker
  <2>3. overtaken' \in BOOLEAN
    BY <2>1, Zenon DEF Change, ListServices, DockerLists, Restart, Overtakes
  <2>4. event' \in BOOLEAN /\ up' \in BOOLEAN
    BY <2>1, Zenon DEF Change, ListServices, DockerLists, Restart
  <2> QED
    BY <2>1, <2>2, <2>3, <2>4 DEF Change, ListServices, DockerLists, Restart, docker
<1>7. AgentTypeOK'
  <2>1. \A i \in DOMAIN listings' : listings'[i] \in [done : BOOLEAN, found : Services]
    BY <1>5, SeqElements DEF Listing
  <2> QED
    BY <1>3, <1>5, <1>6, <2>1 DEF AgentInv, AgentTypeOK, TypeOK, tunnels, Awaited
<1> QED
  BY <1>4, <1>7 DEF AgentInv

\* The update that is started waits behind those that were started before it.
LEMMA OnChangeKeepsInv ==
  ASSUME AgentInv, NEW i \in DOMAIN listings, OnChange(i)
  PROVE  AgentInv'
<1> DEFINE u == [want |-> listings[i].found, awaited |-> FALSE]
<1>0. listings \in Seq(Listing) /\ queue \in Seq(Update)
      /\ Len(listings) <= MaxListings /\ Len(queue) <= MaxQueue
      /\ overtaken \in BOOLEAN
  BY DEF AgentInv, AgentTypeOK, TypeOK
<1>1. u \in Update
  <2>1. listings[i] \in Listing
    BY <1>0, SeqElements
  <2> QED
    BY <2>1 DEF Listing, Update
<1>2. UNCHANGED <<docker, event, up, stage, inserts, haveChanges, answer, tunnels,
                  faults>>
      /\ queue' = Append(queue, u) /\ Len(queue) < MaxQueue
      /\ overtaken' = (overtaken \/ i # 1)
      /\ listings' = RemoveAt(listings, i)
  BY DEF OnChange, Overtakes
<1> HIDE DEF u
<1>3. queue' \in Seq(Update) /\ Len(queue') <= MaxQueue
      /\ (queue # <<>> => queue' # <<>> /\ Want' = Want)
  <2>1. queue' \in Seq(Update) /\ Len(queue') = Len(queue) + 1 /\ queue' # <<>>
    BY <1>0, <1>1, <1>2, AppendProperties
  <2>2. queue # <<>> => Head(queue') = Head(queue)
    BY <1>0, <1>1, <1>2, HeadTailAppend
  <2>3. MaxQueue \in Nat /\ Len(queue) \in Nat
    BY <1>0, AgentAssumption
  <2> QED
    BY <1>2, <2>1, <2>2, <2>3 DEF Want
<1>4. (~absorbed' => UpdateOK') /\ AnswersExact'
  BY <1>2, <1>3, SameUpdate DEF AgentInv, AgentTypeOK
<1>5. listings' \in Seq(Listing) /\ Len(listings') <= MaxListings
  <2>1. Len(listings) \in Nat /\ i \in 1 .. Len(listings) /\ MaxListings \in Nat
        /\ \A j \in 1 .. Len(listings) : listings[j] \in Listing
    BY <1>0, AgentAssumption
  <2>2. /\ SubSeq(listings, 1, i - 1) \in Seq(Listing)
        /\ Len(SubSeq(listings, 1, i - 1)) = i - 1
    BY <2>1, SubSeqProperties
  <2>3. /\ SubSeq(listings, i + 1, Len(listings)) \in Seq(Listing)
        /\ Len(SubSeq(listings, i + 1, Len(listings))) = Len(listings) - i
    BY <2>1, SubSeqProperties
  <2>4. listings' \in Seq(Listing) /\ Len(listings') = (i - 1) + (Len(listings) - i)
    BY <1>2, <2>2, <2>3, ConcatProperties DEF RemoveAt
  <2> QED
    BY <1>0, <2>1, <2>4
<1>6. overtaken' \in BOOLEAN
  BY <1>0, <1>2, Zenon
<1>7. AgentTypeOK'
  <2>1. \A j \in DOMAIN listings' : listings'[j] \in [done : BOOLEAN, found : Services]
    BY <1>5, SeqElements DEF Listing
  <2>2. \A j \in DOMAIN queue' : queue'[j] \in [want : Services, awaited : BOOLEAN]
    BY <1>3, SeqElements DEF Update
  <2> QED
    BY <1>2, <1>3, <1>5, <1>6, <2>1, <2>2
    DEF AgentInv, AgentTypeOK, TypeOK, tunnels, docker, Awaited
<1> QED
  BY <1>4, <1>7 DEF AgentInv

LEMMA ReadKeepsInv ==
  ASSUME AgentInv, Read
  PROVE  AgentInv'
<1> DEFINE n == Len(queue)
<1>0. queue \in Seq(Update) /\ Len(queue) <= MaxQueue
  BY DEF AgentInv, AgentTypeOK, TypeOK
<1>1. n \in Nat \ {0} /\ n \in 1 .. Len(queue)
  BY <1>0, EmptySeq DEF Read
<1>2. PICK u \in Update : u.want = queue[n].want /\ queue' = [queue EXCEPT ![n] = u]
  <2>1. queue[n] \in Update
    BY <1>0, <1>1
  <2>2. [queue[n] EXCEPT !.awaited = TRUE] \in Update
        /\ [queue[n] EXCEPT !.awaited = TRUE].want = queue[n].want
    BY <2>1 DEF Update
  <2>3. queue' = [queue EXCEPT ![n] = [queue[n] EXCEPT !.awaited = TRUE]]
    BY DEF Read
  <2> QED
    BY <2>2, <2>3
<1>3. UNCHANGED <<docker, lists, up, stage, inserts, haveChanges, answer, tunnels, faults>>
  BY DEF Read
<1>4. queue' \in Seq(Update) /\ Len(queue') = Len(queue)
      /\ \A j \in 1 .. Len(queue) : queue'[j].want = queue[j].want
  BY <1>0, <1>1, <1>2, ExceptSeq
<1>5. queue' # <<>> /\ Want' = Want
  <2>1. queue' # <<>>
    BY <1>1, <1>4, EmptySeq
  <2>2. Head(queue') = queue'[1] /\ Head(queue) = queue[1] /\ 1 \in 1 .. Len(queue)
    BY <1>0, <1>1, <1>4, <2>1
  <2> QED
    BY <1>4, <2>1, <2>2 DEF Want
<1>6. (~absorbed' => UpdateOK') /\ AnswersExact'
  BY <1>3, <1>5, SameUpdate DEF AgentInv, AgentTypeOK
<1>7. AgentTypeOK'
  <2>1. \A j \in DOMAIN queue' : queue'[j] \in [want : Services, awaited : BOOLEAN]
    BY <1>4, SeqElements DEF Update
  <2> QED
    BY <1>0, <1>3, <1>4, <2>1
    DEF AgentInv, AgentTypeOK, TypeOK, tunnels, docker, lists, Awaited
<1> QED
  BY <1>6, <1>7 DEF AgentInv

\* A process that has exited serves nothing and knows nothing.
LEMMA ExitGivesInv ==
  ASSUME AgentTypeOK, Exit, UNCHANGED docker, faults' \in 0 .. MaxFaults
  PROVE  AgentInv'
<1>1. IsFiniteSet({})
  BY FS_EmptySet
<1>2. event' \in BOOLEAN /\ overtaken' \in BOOLEAN /\ up' \in BOOLEAN
      /\ haveChanges' \in BOOLEAN /\ absorbed' \in BOOLEAN
  BY Zenon DEF Exit
<1>3. AgentTypeOK'
  BY <1>1, <1>2, AgentAssumption DEF AgentTypeOK, TypeOK, Exit, docker, Awaited
<1>4. UpdateOK'
  BY DEF Exit, UpdateOK, CalledOnce, CallsOK, ServedOK, StageOK, ChangesOK, Called
<1> QED
  BY <1>3, <1>4 DEF AgentInv, AnswersExact, Exit

LEMMA ConnectionLostKeepsInv ==
  ASSUME AgentInv, ConnectionLost
  PROVE  AgentInv'
<1>1. faults' \in 0 .. MaxFaults
  BY AgentAssumption DEF AgentInv, AgentTypeOK, TypeOK, ConnectionLost
<1> QED
  BY <1>1, ExitGivesInv DEF AgentInv, ConnectionLost

-----------------------------------------------------------------------------
(* The steps of an update *)

LEMMA WantType ==
  ASSUME AgentTypeOK, queue # <<>>
  PROVE  /\ Head(queue) \in Update /\ Want \in Services
         /\ Want \subseteq Request /\ IsFiniteSet(Want)
<1>1. Head(queue) \in Update
  BY HeadTailProperties DEF AgentTypeOK
<1>2. Want \in Services
  BY <1>1 DEF Want, Update
<1> QED
  BY <1>1, <1>2 DEF Services

\* What the types ask of the calls.
LEMMA CallsType ==
  ASSUME calls \in Seq(Call)
  PROVE  \A i \in DOMAIN calls : calls[i] \in Call
BY SeqElements

LEMMA BeginKeepsInv ==
  ASSUME AgentInv, Begin
  PROVE  AgentInv'
<1>1. AgentTypeOK /\ queue # <<>> /\ stage = "idle"
  BY DEF AgentInv, Begin
<1>2. PICK deletes, wanted :
        /\ deletes = forwards \ wanted /\ wanted = Want
        /\ stage' = "deletes"
        /\ inserts' = wanted \ forwards
        /\ haveChanges' = Changed(wanted \ forwards, deletes)
        /\ Make("unforward", deletes)
        /\ UNCHANGED <<docker, lists, up, queue, answer, forwards, state, absorbed,
                       listening, faults>>
  BY DEF Begin, Want
<1>3. wanted \in Services /\ wanted \subseteq Request /\ IsFiniteSet(wanted)
  BY <1>1, <1>2, WantType
<1>4. forwards \subseteq Request /\ IsFiniteSet(forwards) /\ calls \in Seq(Call)
  BY <1>1 DEF AgentTypeOK, TypeOK
<1>5. deletes \in SUBSET Request /\ IsFiniteSet(deletes) /\ IsFiniteSet(wanted \ forwards)
  BY <1>2, <1>3, <1>4, FS_Subset
<1>6. /\ calls' \in Seq(Call)
      /\ deletes = {} => calls' = calls
      /\ calls = <<>> =>
           /\ Called' = deletes
           /\ CalledOnce'
           /\ \A i \in DOMAIN calls' : calls'[i].op = "unforward" /\ calls'[i].mine
                                       /\ calls'[i].reply = "none"
  BY <1>2, <1>4, <1>5, MakeCalls
<1>7. haveChanges' \in BOOLEAN /\ (~haveChanges' => wanted = forwards)
  BY <1>2, Zenon DEF Changed
<1>8. AgentTypeOK'
  <2>1. \A i \in DOMAIN calls' : calls'[i] \in Call
    BY <1>6, SeqElements
  <2> QED
    BY <1>1, <1>2, <1>3, <1>5, <1>6, <1>7, <2>1
    DEF AgentTypeOK, TypeOK, docker, lists
<1>9. AnswersExact'
  BY <1>2 DEF AgentInv, AnswersExact
<1>10. ASSUME ~absorbed PROVE UpdateOK'
  <2>2. UpdateOK
    BY <1>10 DEF AgentInv
  <2>3. calls = <<>>
    BY <1>1, <2>2 DEF UpdateOK, StageOK
  <2>4. \A r \in Request : r \in forwards <=> r \in listening
    BY <2>2, <2>3 DEF UpdateOK, ServedOK, Called
  <2>5. CalledOnce' /\ Called' = deletes
        /\ \A i \in DOMAIN calls' : /\ calls'[i].op = "unforward" /\ calls'[i].mine
                                    /\ calls'[i].reply = "none"
                                    /\ calls'[i].req \in deletes
    BY <1>6, <2>3 DEF Called
  <2>6. CallsOK'
    BY <1>2, <1>5, <2>4, <2>5 DEF CallsOK
  <2>7. ServedOK'
    BY <1>2, <2>4 DEF ServedOK
  <2>8. StageOK'
    BY <1>1, <1>2, <2>5 DEF StageOK, Want
  <2>9. ChangesOK'
    <3>1. SUFFICES ASSUME ~haveChanges' PROVE
              /\ calls' = <<>> /\ inserts' = {} /\ forwards' = Want'
              /\ state' # None => state' = forwards'
      BY DEF ChangesOK
    <3>2. wanted = forwards /\ deletes = {}
      BY <1>2, <1>7, <3>1
    <3>3. state # None => state = forwards
      BY <1>1, <2>2 DEF UpdateOK, ChangesOK, StageOK
    <3> QED
      BY <1>2, <1>6, <2>3, <3>2, <3>3 DEF Want
  <2> QED
    BY <2>5, <2>6, <2>7, <2>8, <2>9 DEF UpdateOK
<1> QED
  BY <1>2, <1>8, <1>9, <1>10 DEF AgentInv

LEMMA DeletesDoneKeepsInv ==
  ASSUME AgentInv, DeletesDone
  PROVE  AgentInv'
<1>1. AgentTypeOK /\ stage = "deletes" /\ Awaited
  BY DEF AgentInv, DeletesDone
<1>2. PICK creates :
        /\ creates = inserts /\ stage' = "creates"
        /\ Make("forward", creates)
        /\ UNCHANGED <<docker, lists, up, queue, inserts, haveChanges, answer,
                       forwards, state, absorbed, listening, faults>>
  BY DEF DeletesDone
<1>3. creates \in SUBSET Request /\ IsFiniteSet(creates) /\ calls \in Seq(Call)
  BY <1>1, <1>2 DEF AgentTypeOK, TypeOK
<1>4. /\ calls' \in Seq(Call)
      /\ creates = {} => calls' = calls
      /\ calls = <<>> =>
           /\ Called' = creates
           /\ CalledOnce'
           /\ \A i \in DOMAIN calls' : calls'[i].op = "forward" /\ calls'[i].mine
                                       /\ calls'[i].reply = "none"
  BY <1>2, <1>3, MakeCalls
<1>5. AgentTypeOK'
  <2>1. \A i \in DOMAIN calls' : calls'[i] \in Call
    BY <1>4, SeqElements
  <2> QED
    BY <1>1, <1>2, <1>4, <2>1 DEF AgentTypeOK, TypeOK, docker, lists
<1>6. AnswersExact'
  BY <1>2 DEF AgentInv, AnswersExact
<1>7. ASSUME ~absorbed PROVE UpdateOK'
  <2>1. UpdateOK
    BY <1>7 DEF AgentInv
  <2>2. DOMAIN calls = {}
    BY <1>1, <2>1 DEF UpdateOK, CallsOK, Awaited
  <2>3. calls = <<>> /\ Called = {}
    BY <1>3, <2>2, EmptySeq, LenProperties DEF Called
  <2>4. \A r \in Request : r \in forwards <=> r \in listening
    BY <2>1, <2>3 DEF UpdateOK, ServedOK
  <2>5. forwards \subseteq Want /\ creates = Want \ forwards
    BY <1>1, <1>2, <2>1, <2>3 DEF UpdateOK, StageOK
  <2>6. CalledOnce' /\ Called' = creates
        /\ \A i \in DOMAIN calls' : /\ calls'[i].op = "forward" /\ calls'[i].mine
                                    /\ calls'[i].reply = "none"
                                    /\ calls'[i].req \in creates
    BY <1>4, <2>3 DEF Called
  <2>7. CallsOK'
    BY <1>2, <1>3, <2>4, <2>5, <2>6 DEF CallsOK
  <2>8. ServedOK'
    BY <1>2, <2>4 DEF ServedOK
  <2>9. StageOK'
    BY <1>2, <2>5, <2>6 DEF StageOK, Want
  <2>10. ChangesOK'
    BY <1>1, <1>2, <1>4, <2>1, <2>3 DEF UpdateOK, ChangesOK, Want
  <2> QED
    BY <2>6, <2>7, <2>8, <2>9, <2>10 DEF UpdateOK
<1> QED
  BY <1>2, <1>5, <1>6, <1>7 DEF AgentInv

\* A resolved update leaves the queue to the next one.
LEMMA ResolveKeepsTypes ==
  ASSUME AgentTypeOK, queue # <<>>, Awaited, NEW found \in SUBSET Request, Resolve(found),
         UNCHANGED <<docker, lists, up, faults, forwards, calls, absorbed, listening>>,
         state' = None \/ state' \in SUBSET Request
  PROVE  AgentTypeOK'
<1>1. queue' \in Seq(Update) /\ Len(queue') <= MaxQueue
  <2>1. queue' \in Seq(Update) /\ Len(queue') = Len(queue) - 1
    BY HeadTailProperties DEF AgentTypeOK, Resolve
  <2> QED
    BY <2>1, AgentAssumption DEF AgentTypeOK, TypeOK
<1>2. \A i \in DOMAIN queue' : queue'[i] \in [want : Services, awaited : BOOLEAN]
  BY <1>1, SeqElements DEF Update
<1>3. answer' \in [want : Services, tunnels : SUBSET Request]
  BY WantType DEF Resolve, Want
<1>4. IsFiniteSet({}) /\ haveChanges' \in BOOLEAN
  BY FS_EmptySet, Zenon DEF Resolve
<1> QED
  BY <1>1, <1>2, <1>3, <1>4 DEF AgentTypeOK, TypeOK, Resolve, docker, lists, Awaited

LEMMA CreatesDoneKeepsInv ==
  ASSUME AgentInv, CreatesDone
  PROVE  AgentInv'
<1>1. AgentTypeOK /\ stage = "creates" /\ Awaited /\ calls \in Seq(Call)
      /\ queue # <<>> /\ (state = None \/ state \in SUBSET Request)
      /\ UNCHANGED <<docker, lists, up, tunnels, faults>>
      /\ UNCHANGED <<calls, forwards, state, absorbed, listening>>
  BY DEF AgentInv, CreatesDone, AgentTypeOK, TypeOK, tunnels
<1>2. ASSUME ~absorbed
      PROVE  /\ UpdateOK /\ calls = <<>> /\ Called = {}
             /\ forwards = Want
             /\ \A r \in Request : r \in forwards <=> r \in listening
  <2>1. UpdateOK
    BY <1>2 DEF AgentInv
  <2>2. DOMAIN calls = {}
    BY <1>1, <2>1 DEF UpdateOK, CallsOK, Awaited
  <2>3. calls = <<>> /\ Called = {}
    BY <1>1, <2>2, EmptySeq, LenProperties DEF Called
  <2> QED
    BY <1>1, <2>1, <2>3 DEF UpdateOK, ServedOK, StageOK
<1>3. CASE stage' = "hello" /\ UNCHANGED <<queue, inserts, haveChanges, answer>>
  <2>1. AgentTypeOK'
    BY <1>1, <1>3 DEF AgentTypeOK, TypeOK, docker, lists, Awaited
  <2>2. AnswersExact'
    BY <1>1, <1>3 DEF AgentInv, AnswersExact
  <2>3. ASSUME ~absorbed PROVE UpdateOK'
    BY <1>1, <1>2, <1>3, <2>3
    DEF UpdateOK, CalledOnce, CallsOK, ServedOK, StageOK, ChangesOK, Called, Want
  <2> QED
    BY <1>1, <2>1, <2>2, <2>3 DEF AgentInv
<1>4. CASE Resolve(state) /\ ~haveChanges /\ state # None
  <2>1. PICK found \in SUBSET Request : found = state /\ Resolve(found)
    BY <1>1, <1>4
  <2>2. AgentTypeOK'
    BY <1>1, <2>1, ResolveKeepsTypes
  <2>3. ASSUME ~absorbed PROVE UpdateOK' /\ AnswersExact'
    <3>1. state = forwards
      BY <1>2, <1>4, <2>3 DEF UpdateOK, ChangesOK
    <3>2. AnswersExact'
      BY <1>2, <2>1, <2>3, <3>1 DEF AnswersExact, Resolve, Want
    <3>3. UpdateOK'
      BY <1>1, <1>2, <1>4, <2>3, <3>1
      DEF Resolve, UpdateOK, CalledOnce, CallsOK, ServedOK, StageOK, ChangesOK, Called
    <3> QED
      BY <3>2, <3>3
  <2>4. absorbed => AnswersExact'
    BY <1>1 DEF AnswersExact
  <2> QED
    BY <1>1, <2>2, <2>3, <2>4 DEF AgentInv
<1> QED
  BY <1>3, <1>4 DEF CreatesDone

\* A rejected update ends the process, or is absorbed by the API request that
\* awaits it.
LEMMA RejectKeepsInv ==
  ASSUME AgentTypeOK, stage # "idle",
         NEW rest \in Seq(Call), NEW known \in SUBSET Request, IsFiniteSet(known), Reject(rest, known), UNCHANGED docker, UNCHANGED faults
  PROVE  AgentInv'
<1>1. CASE Exit
  <2>1. faults' \in 0 .. MaxFaults
    BY DEF AgentTypeOK, TypeOK
  <2> QED
    BY <1>1, <2>1, ExitGivesInv
<1>2. CASE Head(queue).awaited
  <2> DEFINE kept == [i \in DOMAIN rest |-> [rest[i] EXCEPT !.mine = FALSE]]
  <2>1. /\ queue' = Tail(queue)
        /\ stage' = "idle" /\ inserts' = {} /\ haveChanges' = FALSE
        /\ calls' = kept /\ forwards' = known /\ absorbed' = TRUE
        /\ UNCHANGED <<lists, up, state, answer, listening>>
    BY <1>2 DEF Reject
  <2>2. \A i \in DOMAIN rest : kept[i] \in Call /\ ~kept[i].mine
    <3>1. ASSUME NEW i \in DOMAIN rest PROVE kept[i] \in Call /\ ~kept[i].mine
      <4>1. rest[i] \in Call
        BY SeqElements
      <4>2. [rest[i] EXCEPT !.mine = FALSE] \in Call /\ ~[rest[i] EXCEPT !.mine = FALSE].mine
        BY <4>1 DEF Call
      <4> QED
        BY <4>2
    <3> QED
      BY <3>1
  <2>3. calls' \in Seq(Call)
    <3>1. Len(rest) \in Nat /\ DOMAIN rest = 1 .. Len(rest)
      BY LenProperties
    <3>2. kept \in [1 .. Len(rest) -> Call]
      BY <2>2, <3>1
    <3> QED
      BY <2>1, <3>1, <3>2, SeqDef
  <2>4. queue' \in Seq(Update) /\ Len(queue') = Len(queue) - 1 /\ Len(queue) \in Nat
    BY <2>1, HeadTailProperties, LenProperties DEF AgentTypeOK
  <2>5. \A i \in DOMAIN queue' : queue'[i] \in [want : Services, awaited : BOOLEAN]
    BY <2>4, SeqElements DEF Update
  <2>6. (\A i \in DOMAIN calls' : calls'[i] \in Call) /\ Awaited'
    BY <2>1, <2>2, <2>3, SeqElements DEF Awaited
  <2>7. Len(queue') <= MaxQueue
    BY <2>4, AgentAssumption DEF AgentTypeOK, TypeOK
  <2>8. IsFiniteSet({}) /\ haveChanges' \in BOOLEAN /\ absorbed' \in BOOLEAN
    BY <2>1, FS_EmptySet, Zenon
  <2> HIDE DEF kept
  <2>9. AgentTypeOK'
    BY <2>1, <2>3, <2>4, <2>5, <2>6, <2>7, <2>8 DEF AgentTypeOK, TypeOK, docker, lists
  <2> QED
    BY <2>1, <2>9 DEF AgentInv, AnswersExact
<1> QED
  BY <1>1, <1>2 DEF Reject

LEMMA HelloKeepsInv ==
  ASSUME AgentInv, Hello
  PROVE  AgentInv'
<1>1. AgentTypeOK /\ stage = "hello" /\ queue # <<>> /\ Awaited
      /\ UNCHANGED <<docker, faults>>
      /\ forwards \in SUBSET Request /\ IsFiniteSet(forwards) /\ calls \in Seq(Call)
      /\ listening \in SUBSET Request
  BY DEF AgentInv, Hello, AgentTypeOK, TypeOK
<1>2. CASE Reject(calls, forwards)
  <2>1. PICK rest \in Seq(Call), known \in SUBSET Request : rest = calls /\ known = forwards
    BY <1>1
  <2>2. Reject(rest, known) /\ IsFiniteSet(known)
    BY <1>1, <1>2, <2>1
  <2> QED
    BY <1>1, <2>2, RejectKeepsInv
<1>3. CASE /\ state' = listening /\ Resolve(listening)
           /\ UNCHANGED <<lists, up, calls, forwards, absorbed, listening>>
  <2>1. PICK found \in SUBSET Request : found = listening /\ Resolve(found)
    BY <1>1, <1>3
  <2>2. AgentTypeOK'
    BY <1>1, <1>3, <2>1, ResolveKeepsTypes
  <2>3. ASSUME ~absorbed PROVE UpdateOK' /\ AnswersExact'
    <3>1. UpdateOK
      BY <2>3 DEF AgentInv
    <3>2. calls = <<>> /\ forwards = Want /\ Called = {}
      BY <1>1, <3>1 DEF UpdateOK, StageOK, Called
    <3>3. listening = forwards
      BY <1>1, <3>1, <3>2 DEF UpdateOK, ServedOK
    <3>4. AnswersExact'
      BY <1>3, <3>2, <3>3 DEF AnswersExact, Resolve, Want
    <3>5. UpdateOK'
      BY <1>1, <1>3, <3>1, <3>2, <3>3
      DEF Resolve, UpdateOK, CalledOnce, CallsOK, ServedOK, StageOK, ChangesOK, Called
    <3> QED
      BY <3>4, <3>5
  <2>4. absorbed => AnswersExact'
    BY <1>3 DEF AnswersExact
  <2> QED
    BY <1>3, <2>2, <2>3, <2>4 DEF AgentInv
<1> QED
  BY <1>2, <1>3 DEF Hello

\* The calls that are left when the first has its reply.
LEMMA TailOfCalls ==
  ASSUME calls \in Seq(Call), calls # <<>>, calls' = Tail(calls)
  PROVE  /\ calls' \in Seq(Call)
         /\ 1 \in DOMAIN calls /\ Head(calls) = calls[1]
         /\ \A i \in DOMAIN calls' :
              i + 1 # 1 /\ i + 1 \in DOMAIN calls /\ calls'[i] = calls[i + 1]
         /\ \A i, j \in DOMAIN calls' : i + 1 = j + 1 => i = j
         /\ Called = Called' \cup {Head(calls).req}
<1>1. calls' \in Seq(Call) /\ Len(calls) \in Nat \ {0} /\ Len(calls') = Len(calls) - 1
      /\ DOMAIN calls = 1 .. Len(calls) /\ DOMAIN calls' = 1 .. Len(calls')
  BY HeadTailProperties, LenProperties, EmptySeq
<1>2. 1 \in DOMAIN calls /\ Head(calls) = calls[1]
  BY <1>1
<1>3. \A i \in DOMAIN calls' :
        i + 1 # 1 /\ i + 1 \in DOMAIN calls /\ calls'[i] = calls[i + 1]
  BY <1>1
<1>4. \A i, j \in DOMAIN calls' : i + 1 = j + 1 => i = j
  BY <1>1
<1>5. \A i \in DOMAIN calls : i = 1 \/ \E j \in DOMAIN calls' : calls'[j] = calls[i]
  <2>1. ASSUME NEW i \in DOMAIN calls, i # 1 PROVE \E j \in DOMAIN calls' : calls'[j] = calls[i]
    <3>1. i - 1 \in DOMAIN calls' /\ (i - 1) + 1 = i
      BY <1>1, <2>1
    <3> QED
      BY <1>3, <3>1
  <2> QED
    BY <2>1
<1>6. Called = Called' \cup {Head(calls).req}
  <2>1. \A i \in DOMAIN calls : calls[i].req \in Called' \cup {Head(calls).req}
    BY <1>2, <1>5 DEF Called
  <2>2. \A i \in DOMAIN calls' : calls'[i].req \in Called
    BY <1>3 DEF Called
  <2>3. Head(calls).req \in Called
    BY <1>2 DEF Called
  <2>4. Called \subseteq Called' \cup {Head(calls).req}
    BY <2>1 DEF Called
  <2>5. Called' \subseteq Called
    BY <2>2 DEF Called
  <2> QED
    BY <2>3, <2>4, <2>5
<1> QED
  BY <1>1, <1>2, <1>3, <1>4, <1>6

LEMMA KnownType ==
  ASSUME AgentTypeOK, NEW c \in Call
  PROVE  Known(c) \in SUBSET Request /\ IsFiniteSet(Known(c))
<1>1. c.req \in Request /\ forwards \subseteq Request /\ IsFiniteSet(forwards)
  BY DEF AgentTypeOK, TypeOK, Call
<1>2. IsFiniteSet(forwards \cup {c.req}) /\ IsFiniteSet(forwards \ {c.req})
  BY <1>1, FS_AddElement, FS_RemoveElement
<1> QED
  BY <1>1, <1>2 DEF Known

LEMMA RepliedKeepsInv ==
  ASSUME AgentInv, Replied
  PROVE  AgentInv'
<1>1. AgentTypeOK /\ calls \in Seq(Call) /\ calls # <<>> /\ UNCHANGED <<docker, faults>>
  BY DEF AgentInv, AgentTypeOK, Replied
<1>2. PICK c \in Call : c = Head(calls)
  BY <1>1, HeadTailProperties
<1>3. c.reply \in {"ok", "fail"}
  BY <1>2 DEF Replied
<1>4. 1 \in DOMAIN calls /\ c = calls[1]
  BY <1>1, <1>2, LenProperties, EmptySeq
<1>5. CASE Fails(c)
  <2>1. stage # "idle"
    BY <1>1, <1>4, <1>5 DEF AgentTypeOK, Awaited, Fails
  <2>2. Reject(Tail(calls), Known(c))
    BY <1>2, <1>5 DEF Replied
  <2>3. PICK rest \in Seq(Call), known \in SUBSET Request :
          rest = Tail(calls) /\ known = Known(c) /\ IsFiniteSet(known)
    BY <1>1, KnownType, HeadTailProperties
  <2>4. Reject(rest, known)
    BY <2>2, <2>3
  <2> QED
    BY <1>1, <2>1, <2>3, <2>4, RejectKeepsInv
<1>6. CASE ~Fails(c)
  <2>1. /\ calls' = Tail(calls) /\ forwards' = Known(c)
        /\ UNCHANGED <<lists, up, update, state, absorbed, listening>>
    BY <1>2, <1>6 DEF Replied
  <2>2. /\ calls' \in Seq(Call)
        /\ \A i \in DOMAIN calls' :
             i + 1 # 1 /\ i + 1 \in DOMAIN calls /\ calls'[i] = calls[i + 1]
        /\ \A i, j \in DOMAIN calls' : i + 1 = j + 1 => i = j
        /\ Called = Called' \cup {c.req}
    BY <1>1, <1>2, <2>1, TailOfCalls
  <2>3. forwards' \in SUBSET Request /\ IsFiniteSet(forwards')
    BY <1>1, <2>1, KnownType
  <2>4. AgentTypeOK'
    <3>1. \A i \in DOMAIN calls' : calls'[i] \in Call
      BY <2>2, SeqElements
    <3>2. Awaited => Awaited'
      BY <2>2 DEF Awaited
    <3> QED
      BY <1>1, <2>1, <2>2, <2>3, <3>1, <3>2 DEF AgentTypeOK, TypeOK, docker, lists, update
  <2>5. AnswersExact'
    BY <2>1 DEF AgentInv, AnswersExact, update
  <2>6. ASSUME ~absorbed PROVE UpdateOK'
    <3>1. UpdateOK
      BY <2>6 DEF AgentInv
    <3>2. CalledOnce' /\ \A i \in DOMAIN calls' : calls'[i].req # c.req
      BY <1>4, <2>2, <3>1 DEF UpdateOK, CalledOnce
    <3>3. Called' = Called \ {c.req} /\ c.req \in Called
      BY <2>2, <3>2 DEF Called
    <3>4. /\ c.op = "unforward" => /\ c.req \in forwards /\ c.req \notin listening
                                   /\ forwards' = forwards \ {c.req}
          /\ c.op = "forward" => /\ c.req \notin forwards /\ c.req \in listening
                                 /\ forwards' = forwards \cup {c.req}
          /\ c.op \in {"forward", "unforward"}
      BY <1>3, <1>4, <1>6, <2>1, <3>1 DEF UpdateOK, CallsOK, Fails, Known, Call
    <3>5. CallsOK'
      BY <2>1, <2>2, <3>1, <3>2, <3>4 DEF UpdateOK, CallsOK
    <3>6. ServedOK'
      BY <2>1, <3>1, <3>3, <3>4 DEF UpdateOK, ServedOK
    <3>7. stage \in {"deletes", "creates"}
      BY <1>1, <3>1 DEF UpdateOK, StageOK, AgentTypeOK, TypeOK
    <3>8. haveChanges
      BY <1>1, <3>1 DEF UpdateOK, ChangesOK
    <3>9. StageOK'
      <4>1. UNCHANGED <<stage, inserts, haveChanges>> /\ Want' = Want
        BY <2>1 DEF update, Want
      <4>2. CASE stage = "deletes"
        <5>1. /\ c.op = "unforward" /\ Called = forwards \ Want
              /\ inserts = Want \ forwards
              /\ \A i \in DOMAIN calls' : calls'[i].op = "unforward"
          BY <1>4, <2>2, <3>1, <4>2 DEF UpdateOK, StageOK
        <5>2. Called' = forwards' \ Want' /\ inserts' = Want' \ forwards'
          BY <3>3, <3>4, <4>1, <5>1
        <5> QED
          BY <4>1, <4>2, <5>1, <5>2 DEF StageOK
      <4>3. CASE stage = "creates"
        <5>1. /\ c.op = "forward" /\ Called = Want \ forwards
              /\ forwards \subseteq Want
              /\ \A i \in DOMAIN calls' : calls'[i].op = "forward"
          BY <1>4, <2>2, <3>1, <4>3 DEF UpdateOK, StageOK
        <5>2. Called' = Want' \ forwards' /\ forwards' \subseteq Want'
          BY <3>3, <3>4, <4>1, <5>1
        <5> QED
          BY <4>1, <4>3, <5>1, <5>2 DEF StageOK
      <4> QED
        BY <3>7, <4>2, <4>3
    <3>10. ChangesOK'
      BY <2>1, <3>8 DEF ChangesOK, update
    <3> QED
      BY <3>2, <3>5, <3>6, <3>9, <3>10 DEF UpdateOK
  <2> QED
    BY <2>1, <2>4, <2>5, <2>6 DEF AgentInv
<1> QED
  BY <1>5, <1>6

-----------------------------------------------------------------------------
(* The server answers *)

LEMMA AnswerCall ==
  ASSUME calls \in Seq(Call), NEW i \in DOMAIN calls,
         NEW reply \in {"waiting", "closing", "ok", "fail", "never"}, Answer(i, reply)
  PROVE  /\ calls' \in Seq(Call) /\ DOMAIN calls' = DOMAIN calls /\ calls' # <<>>
         /\ \A j \in DOMAIN calls :
              /\ calls'[j].op = calls[j].op /\ calls'[j].req = calls[j].req
              /\ calls'[j].mine = calls[j].mine
              /\ j # i => calls'[j].reply = calls[j].reply
         /\ calls'[i].reply = reply
         /\ Called' = Called
<1>1. calls[i] \in Call
  BY SeqElements
<1>2. PICK c \in Call : c = [calls[i] EXCEPT !.reply = reply]
  BY <1>1 DEF Call
<1>3. c.op = calls[i].op /\ c.req = calls[i].req /\ c.mine = calls[i].mine
      /\ c.reply = reply
  BY <1>1, <1>2 DEF Call
<1>4. calls' = [calls EXCEPT ![i] = c]
  BY <1>2 DEF Answer
<1>5. calls' \in Seq(Call) /\ DOMAIN calls' = DOMAIN calls
      /\ \A j \in DOMAIN calls : calls'[j] = IF j = i THEN c ELSE calls[j]
  <2>1. i \in 1 .. Len(calls) /\ DOMAIN calls = 1 .. Len(calls)
    BY LenProperties
  <2> QED
    BY <1>4, <2>1, ExceptSeq
<1>6. \A j \in DOMAIN calls : calls'[j].req = calls[j].req
  BY <1>3, <1>5
<1>7. Called' = Called
  BY <1>5, <1>6 DEF Called
<1>8. calls' # <<>>
  BY <1>5, EmptySeq
<1> QED
  BY <1>3, <1>5, <1>7, <1>8

\* An answer changes what is served and nothing that the agent knows.
LEMMA AnswerKeepsInv ==
  ASSUME AgentInv, NEW i \in DOMAIN calls,
         NEW reply \in {"waiting", "closing", "ok", "fail", "never"}, Answer(i, reply),
         listening' \in SUBSET Request, faults' \in 0 .. MaxFaults,
         ~absorbed => CallsOK' /\ ServedOK'
  PROVE  AgentInv'
<1>1. AgentTypeOK /\ calls \in Seq(Call)
      /\ UNCHANGED <<docker, lists, up, update, forwards, state, absorbed>>
  BY DEF AgentInv, AgentTypeOK, Answer
<1>2. /\ calls' \in Seq(Call) /\ DOMAIN calls' = DOMAIN calls
      /\ calls' # <<>>
      /\ \A j \in DOMAIN calls :
           /\ calls'[j].op = calls[j].op /\ calls'[j].req = calls[j].req
           /\ calls'[j].mine = calls[j].mine
      /\ Called' = Called
  BY <1>1, AnswerCall
<1>3. AgentTypeOK'
  <2>1. \A j \in DOMAIN calls' : calls'[j] \in Call
    BY <1>2, SeqElements
  <2>2. Awaited' <=> Awaited
    BY <1>2 DEF Awaited
  <2> QED
    BY <1>1, <1>2, <2>1, <2>2 DEF AgentTypeOK, TypeOK, docker, lists, update
<1>4. AnswersExact'
  BY <1>1 DEF AgentInv, AnswersExact, update
<1>5. ASSUME ~absorbed PROVE UpdateOK'
  <2>1. UpdateOK
    BY <1>5 DEF AgentInv
  <2>2. CalledOnce'
    BY <1>2, <2>1 DEF UpdateOK, CalledOnce
  <2>3. calls # <<>>
    BY EmptySeq
  <2>4. StageOK' /\ ChangesOK'
    BY <1>1, <1>2, <2>1, <2>3 DEF UpdateOK, StageOK, ChangesOK, update, Want
  <2> QED
    BY <1>5, <2>2, <2>4 DEF UpdateOK
<1> QED
  BY <1>1, <1>3, <1>4, <1>5 DEF AgentInv

LEMMA ServerStepKeepsInv ==
  ASSUME AgentInv, NEW i \in DOMAIN calls,
         \/ ServerForwards(i) \/ ServerFaults(i) \/ ServerRefuses(i)
         \/ ServerUnforwards(i) \/ SocketServerCloses(i)
  PROVE  AgentInv'
<1>1. /\ calls \in Seq(Call) /\ listening \subseteq Request
      /\ faults \in 0 .. MaxFaults /\ MaxFaults \in Nat
  BY AgentAssumption DEF AgentInv, AgentTypeOK, TypeOK
<1>2. calls[i] \in Call
  BY <1>1, SeqElements
<1>3. PICK r \in Request : r = calls[i].req
  BY <1>2 DEF Call
<1>4. PICK reply \in {"waiting", "closing", "ok", "fail", "never"} : Answer(i, reply)
        /\ \/ /\ reply \notin {"closing", "ok"} /\ listening' = listening
              /\ calls[i].reply # "ok" /\ calls[i].op = "forward"
           \/ /\ reply = "ok" /\ listening' = listening \cup {r}
              /\ calls[i].reply # "ok" /\ calls[i].op = "forward"
           \/ /\ calls[i].op = "unforward" /\ calls[i].reply = "none"
              /\ listening' = listening
              /\ reply = IF r \in listening THEN "closing" ELSE "fail"
           \/ /\ calls[i].reply = "closing" /\ reply = "ok"
              /\ listening' = listening \ {r}
           \/ /\ calls[i].reply = "waiting" /\ reply = "fail" /\ listening' = listening
  <2>1. CASE ServerForwards(i)
    BY <1>3, <2>1 DEF ServerForwards, Received
  <2>2. CASE ServerFaults(i)
    BY <2>2 DEF ServerFaults, Received
  <2>3. CASE ServerRefuses(i)
    BY <2>3 DEF ServerRefuses
  <2>4. CASE ServerUnforwards(i)
    BY <1>3, <2>4 DEF ServerUnforwards, Received
  <2>5. CASE SocketServerCloses(i)
    BY <1>3, <2>5 DEF SocketServerCloses
  <2> QED
    BY <2>1, <2>2, <2>3, <2>4, <2>5
<1>5. /\ DOMAIN calls' = DOMAIN calls
      /\ \A j \in DOMAIN calls :
           /\ calls'[j].op = calls[j].op /\ calls'[j].req = calls[j].req
           /\ calls'[j].mine = calls[j].mine
           /\ j # i => calls'[j].reply = calls[j].reply
      /\ calls'[i].reply = reply
      /\ Called' = Called
  BY <1>1, <1>4, AnswerCall
<1>6. faults' \in 0 .. MaxFaults
  BY <1>1 DEF ServerForwards, ServerFaults, ServerRefuses, ServerUnforwards,
     SocketServerCloses
<1>7. listening' \in SUBSET Request
  BY <1>1, <1>4
<1>8. ASSUME ~absorbed PROVE CallsOK' /\ ServedOK'
  <2>1. UpdateOK
    BY <1>8 DEF AgentInv
  <2>2. \A j \in DOMAIN calls : j # i => calls[j].req # r
    BY <1>3, <2>1 DEF UpdateOK, CalledOnce
  <2>3. UNCHANGED forwards /\ r \in Called
    BY <1>3, <1>4 DEF Answer, Called
  <2>4. calls[i].op \in {"forward", "unforward"}
        /\ (calls[i].op = "unforward" => calls[i].reply \in {"none", "closing", "ok"})
    BY <1>2, <2>1 DEF UpdateOK, CallsOK, Call
  <2>5. \A q \in Request : q # r => (q \in listening' <=> q \in listening)
    BY <1>4
  <2>6. ServedOK'
    BY <1>5, <2>1, <2>3, <2>5 DEF UpdateOK, ServedOK
  <2>7. \A j \in DOMAIN calls : calls[j].req \in Request
    <3>1. \A j \in DOMAIN calls : calls[j] \in Call
      BY <1>1, SeqElements
    <3> QED
      BY <3>1 DEF Call
  <2>8. CallsOK'
    <3>1. ASSUME NEW j \in DOMAIN calls'
          PROVE  /\ calls'[j].mine
                 /\ calls'[j].op = "unforward" =>
                      /\ calls'[j].req \in forwards'
                      /\ calls'[j].reply \in {"none", "closing", "ok"}
                      /\ calls'[j].reply = "ok" <=> calls'[j].req \notin listening'
                 /\ calls'[j].op = "forward" =>
                      /\ calls'[j].req \notin forwards' /\ calls'[j].reply # "closing"
                      /\ calls'[j].reply = "ok" <=> calls'[j].req \in listening'
      <4>1. CASE j # i
        BY <1>5, <2>1, <2>2, <2>3, <2>5, <2>7, <4>1 DEF UpdateOK, CallsOK
      <4>2. CASE j = i
        BY <1>3, <1>4, <1>5, <2>1, <2>3, <2>4, <4>2 DEF UpdateOK, CallsOK
      <4> QED
        BY <4>1, <4>2
    <3> QED
      BY <3>1 DEF CallsOK
  <2> QED
    BY <2>6, <2>8
<1> QED
  BY <1>4, <1>6, <1>7, <1>8, AnswerKeepsInv

-----------------------------------------------------------------------------
(* Results *)

LEMMA StepKeepsInv ==
  ASSUME AgentInv, [Next]_vars
  PROVE  AgentInv'
<1>1. CASE UNCHANGED vars
  BY <1>1 DEF vars, docker, lists, update, tunnels, AgentInv, AgentTypeOK, TypeOK,
     Awaited, UpdateOK, CalledOnce, CallsOK, ServedOK, StageOK, ChangesOK, Called,
     Want, AnswersExact
<1>2. CASE UpdateStep
  BY <1>2, BeginKeepsInv, DeletesDoneKeepsInv, CreatesDoneKeepsInv, HelloKeepsInv,
     RepliedKeepsInv DEF UpdateStep
<1>3. CASE Docker
  BY <1>3, ListStepKeepsInv, OnChangeKeepsInv DEF Docker
<1>4. CASE Server \/ \E i \in DOMAIN calls : ServerFaults(i) \/ SocketServerCloses(i)
  BY <1>4, ServerStepKeepsInv DEF Server
<1> QED
  BY <1>1, <1>2, <1>3, <1>4, ListStepKeepsInv, ReadKeepsInv, ConnectionLostKeepsInv
  DEF Next

LEMMA AgentInvariance == Spec => []AgentInv
BY InitHasInv, StepKeepsInv, PTL DEF Spec

\* The variables of the agent stay in their types.
THEOREM AgentTypeCorrect == Spec => []TypeOK
<1>1. AgentInv => TypeOK
  BY DEF AgentInv, AgentTypeOK
<1> QED
  BY <1>1, AgentInvariance, PTL

\* As long as no failed update has been absorbed, the agent never asks for a
\* tunnel that its connection serves already, or has another call under way for
\* (updateTunnels of tunnel-client.ts).
THEOREM AsksOnceCorrect == Spec => []AsksOnce
<1>1. ASSUME AgentInv PROVE AsksOnce
  <2>1. SUFFICES ASSUME ~absorbed, NEW i \in DOMAIN calls, calls[i].op = "forward",
                        calls[i].reply \in {"none", "waiting"}
                 PROVE  /\ ~ServesPath(PathOf[calls[i].req])
                        /\ \A j \in DOMAIN calls \ {i} :
                             PathOf[calls[j].req] # PathOf[calls[i].req]
    BY DEF AsksOnce
  <2>2. UpdateOK /\ AgentTypeOK
    BY <1>1, <2>1 DEF AgentInv
  <2>3. stage = "creates"
    <3>1. stage \in {"idle", "deletes", "creates", "hello"}
      BY <2>2 DEF AgentTypeOK, TypeOK
    <3>2. calls # <<>>
      BY EmptySeq
    <3> QED
      BY <2>1, <2>2, <3>1, <3>2 DEF UpdateOK, StageOK
  <2>4. Called = Want \ forwards /\ forwards \subseteq Want
    BY <2>2, <2>3 DEF UpdateOK, StageOK
  <2>5. \A q, s \in Want : PathOf[q] = PathOf[s] => q = s
    BY <2>2, <2>3, WantType DEF AgentTypeOK, Services
  <2>6. \A j \in DOMAIN calls : calls[j].req \in Want
    BY <2>4 DEF Called
  <2>7. listening \subseteq Want /\ calls[i].req \notin listening
    BY <2>1, <2>2, <2>4 DEF UpdateOK, ServedOK, CallsOK, AgentTypeOK, TypeOK
  <2>8. ~ServesPath(PathOf[calls[i].req])
    BY <2>5, <2>6, <2>7 DEF ServesPath
  <2>9. \A j \in DOMAIN calls \ {i} : PathOf[calls[j].req] # PathOf[calls[i].req]
    BY <2>2, <2>5, <2>6 DEF UpdateOK, CalledOnce
  <2> QED
    BY <2>8, <2>9
<1> QED
  BY <1>1, AgentInvariance, PTL

\* As long as no failed update has been absorbed, /tunnels answers with exactly
\* the tunnels of the services it reports as running (createApp of the agent).
THEOREM AnswersExactCorrect == Spec => []AnswersExact
<1>1. AgentInv => AnswersExact
  BY DEF AgentInv
<1> QED
  BY <1>1, AgentInvariance, PTL
=============================================================================
