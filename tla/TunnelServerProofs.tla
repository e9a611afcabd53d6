------------------------- MODULE TunnelServerProofs -------------------------
(****************************************************************************)
(* Proofs about TunnelServer, in three parts, and about those who log in    *)
(* and connect to it.                                                       *)
(*                                                                          *)
(* The store, whoever calls it in whatever order: every operation keeps its *)
(* entries apart (TxUnique) and its index in step with them (IndexExact),   *)
(* and a lookup by thumbprint is exact when nothing is pending.             *)
(*                                                                          *)
(* The server: type correctness, and that the store, the handlers and the   *)
(* registry of socket servers agree in every state (OwnerExact,             *)
(* SocketServersExact), from which follows that no tunnel is taken from a   *)
(* socket server that goes on listening (NoSteal).                          *)
(*                                                                          *)
(* Routing: under the mapping of route and asking, the initial states of    *)
(* the server are initial states of TunnelRouting, and every step is a step *)
(* of it or stutters.                                                       *)
(*                                                                          *)
(* A process that links has the organization of its user; what a command    *)
(* trusts, when it connects, is vouched for.                                *)
(****************************************************************************)
EXTENDS TunnelServer, Login, SshSession, TLAPS

-----------------------------------------------------------------------------
(* The store *)

\* An entry whose deletion is being announced is not stored any more.
ApartOK == \A k \in Key : Stored(k) => RefOf(k, map[k]) \notin deleting

\* The inductive invariant of the store.
StoreInv == StoreTypeOK /\ TxUnique /\ ApartOK /\ IndexExact

-----------------------------------------------------------------------------
(* What the sets of the properties contain *)

LEMMA LiveRef ==
  ASSUME NEW r
  PROVE  r \in LiveRefs <=>
           r \in deleting \/ \E k \in Key : Stored(k) /\ r = RefOf(k, map[k])
BY DEF LiveRefs

LEMMA LiveRefNext ==
  ASSUME NEW r
  PROVE  r \in LiveRefs' <=>
           r \in deleting' \/ \E k \in Key : Stored(k)' /\ r = RefOf(k, map'[k])
BY DEF LiveRefs, Stored, RefOf

\* What the index has of a thumbprint.
IndexAt(p) == {IndexEntry(r) : r \in {s \in LiveRefs \ adding : ThumbprintOf[s.value] = p}}

LEMMA StoredType ==
  ASSUME StoreTypeOK, NEW k \in Key, Stored(k)
  PROVE  /\ map[k] \in Entry /\ map[k].tx \in Nat /\ map[k].value \in Value
         /\ RefOf(k, map[k]) \in Ref
BY DEF StoreTypeOK, Stored, Entry, Ref, RefOf

LEMMA LiveRefType ==
  ASSUME StoreTypeOK
  PROVE  LiveRefs \subseteq Ref
BY StoredType, LiveRef DEF StoreTypeOK

-----------------------------------------------------------------------------
(* The operations *)

LEMMA SetKeepsType ==
  ASSUME StoreTypeOK, NEW k \in Key, NEW v \in Value, StoreSet(k, v)
  PROVE  StoreTypeOK'
<1> DEFINE e == [tx |-> nextTx, value |-> v]
<1>1. e \in Entry /\ RefOf(k, e) \in Ref
  BY DEF StoreTypeOK, Entry, Ref, RefOf
<1> QED
  BY <1>1 DEF StoreTypeOK, StoreSet

\* set adds one entry, of a transaction that no other one has.
LEMMA SetKeepsInv ==
  ASSUME StoreInv, NEW k \in Key, NEW v \in Value, StoreSet(k, v)
  PROVE  StoreInv'
<1> DEFINE e == [tx |-> nextTx, value |-> v]
           n == RefOf(k, e)
<1>0. StoreTypeOK'
  BY SetKeepsType DEF StoreInv
<1>1. /\ ~Stored(k) /\ map' = [map EXCEPT ![k] = e] /\ map \in [Key -> Entry \cup {None}]
      /\ adding' = adding \cup {n} /\ deleting' = deleting /\ index' = index
      /\ nextTx' = nextTx + 1 /\ nextTx \in Nat
  BY DEF StoreSet, StoreInv, StoreTypeOK
<1>2. e \in Entry /\ e # None /\ n.tx = nextTx /\ n.key = k
  BY <1>1, StoreAssumption DEF Entry, RefOf
<1>3. /\ \A l \in Key : Stored(l)' <=> l = k \/ Stored(l)
      /\ \A l \in Key \ {k} : map'[l] = map[l]
      /\ map'[k] = e
  BY <1>1, <1>2 DEF Stored
<1>4. \A r : r \in LiveRefs' <=> r = n \/ r \in LiveRefs
  BY <1>1, <1>3, LiveRef, LiveRefNext
<1>5. \A r \in LiveRefs : r.tx \in Nat /\ r.tx < nextTx
  BY LiveRefType DEF StoreInv, TxUnique, Ref
<1>6. n \notin LiveRefs
  BY <1>1, <1>2, <1>5
<1>7. TxUnique'
  <2>1. \A r, s \in LiveRefs' : r.tx = s.tx => r = s
    BY <1>1, <1>2, <1>4, <1>5 DEF StoreInv, TxUnique
  <2>2. \A r \in LiveRefs' : r.tx < nextTx'
    BY <1>1, <1>2, <1>4, <1>5
  <2>3. adding' \subseteq LiveRefs'
    BY <1>1, <1>4 DEF StoreInv, TxUnique
  <2> QED
    BY <2>1, <2>2, <2>3 DEF TxUnique
<1>8. ApartOK'
  <2>1. n \notin deleting
    BY <1>6, LiveRef
  <2> QED
    BY <1>1, <1>3, <2>1 DEF StoreInv, ApartOK
<1>9. IndexExact'
  <2>1. LiveRefs' \ adding' = LiveRefs \ adding
    BY <1>1, <1>4, <1>6
  <2> QED
    BY <1>1, <2>1 DEF StoreInv, IndexExact
<1> QED
  BY <1>0, <1>7, <1>8, <1>9 DEF StoreInv

\* The continuation of set: the entry is live, and from now on indexed.
LEMMA AddKeepsInv ==
  ASSUME StoreInv, NEW r, AddToIndex(r)
  PROVE  StoreInv'
<1>1. /\ r \in adding /\ r \in Ref /\ r \in LiveRefs /\ adding' = adding \ {r}
      /\ index' = [index EXCEPT ![ThumbprintOf[r.value]] = @ \cup {IndexEntry(r)}]
      /\ UNCHANGED <<map, nextTx, deleting>>
  BY DEF AddToIndex, StoreInv, StoreTypeOK, TxUnique
<1>2. IndexEntry(r) \in [key : Key, tx : Nat] /\ ThumbprintOf[r.value] \in Thumbprint
  BY <1>1, StoreAssumption DEF Ref, IndexEntry
<1>3. StoreTypeOK'
  BY <1>1, <1>2 DEF StoreInv, StoreTypeOK
<1>4. LiveRefs' = LiveRefs
  BY <1>1 DEF LiveRefs, Stored
<1>5. TxUnique' /\ ApartOK'
  BY <1>1, <1>4 DEF StoreInv, TxUnique, ApartOK, Stored
<1>6. IndexExact'
  <2> SUFFICES ASSUME NEW p \in Thumbprint
               PROVE  index'[p] = {IndexEntry(s) : s \in {t \in LiveRefs' \ adding' : ThumbprintOf[t.value] = p}}
    BY DEF IndexExact
  <2>1. index[p] = IndexAt(p) /\ index \in [Thumbprint -> SUBSET [key : Key, tx : Nat]]
    BY DEF StoreInv, IndexExact, IndexAt, StoreTypeOK
  <2>2. LiveRefs' \ adding' = (LiveRefs \ adding) \cup {r}
    BY <1>1, <1>4
  <2>3. CASE ThumbprintOf[r.value] = p
    BY <1>1, <2>1, <2>2, <2>3 DEF IndexAt
  <2>4. CASE ThumbprintOf[r.value] # p
    BY <1>1, <2>1, <2>2, <2>4 DEF IndexAt
  <2> QED
    BY <2>3, <2>4
<1> QED
  BY <1>3, <1>5, <1>6 DEF StoreInv

\* delete: the entry leaves the map and is announced, and is live all the while;
\* the delete of an older transaction changes nothing.
LEMMA DeleteKeepsInv ==
  ASSUME StoreInv, NEW k \in Key, NEW t, StoreDelete(k, t)
  PROVE  StoreInv'
<1>0. UNCHANGED <<nextTx, index, adding>>
  BY DEF StoreDelete
<1>1. CASE DeleteHits(k, t)
  <2>1. /\ Stored(k) /\ map' = [map EXCEPT ![k] = None] /\ map \in [Key -> Entry \cup {None}]
        /\ deleting' = deleting \cup {RefOf(k, map[k])}
    BY <1>1 DEF StoreDelete, DeleteHits, StoreInv, StoreTypeOK
  <2>2. RefOf(k, map[k]) \in Ref /\ RefOf(k, map[k]).key = k
    BY <2>1, StoredType DEF StoreInv, RefOf
  <2>3. StoreTypeOK'
    BY <1>0, <2>1, <2>2 DEF StoreInv, StoreTypeOK
  <2>4. /\ \A l \in Key : Stored(l)' <=> l # k /\ Stored(l)
        /\ \A l \in Key \ {k} : map'[l] = map[l]
    BY <2>1 DEF Stored
  <2>5. \A r : r \in LiveRefs' <=> r \in LiveRefs
    BY <2>1, <2>4, LiveRef, LiveRefNext
  <2>6. LiveRefs' = LiveRefs
    BY <2>5
  <2>7. TxUnique' /\ IndexExact'
    BY <1>0, <2>6 DEF StoreInv, TxUnique, IndexExact
  <2>8. ApartOK'
    <3> SUFFICES ASSUME NEW l \in Key, Stored(l)'
                 PROVE  RefOf(l, map'[l]) \notin deleting'
      BY DEF ApartOK
    <3>1. l # k /\ Stored(l) /\ map'[l] = map[l]
      BY <2>4
    <3>2. RefOf(l, map[l]).key = l
      BY DEF RefOf
    <3> QED
      BY <2>1, <2>2, <3>1, <3>2 DEF StoreInv, ApartOK
  <2> QED
    BY <2>3, <2>7, <2>8 DEF StoreInv
<1>2. CASE ~DeleteHits(k, t)
  BY <1>0, <1>2 DEF StoreDelete, StoreInv, StoreTypeOK, TxUnique, ApartOK, IndexExact,
       LiveRefs, Stored
<1> QED
  BY <1>1, <1>2

\* The announcement: the entry is live no more, and its index entry, which no
\* other live one has, goes with it.
LEMMA EmitKeepsInv ==
  ASSUME StoreInv, NEW r, EmitDelete(r)
  PROVE  StoreInv'
<1>1. /\ r \in deleting /\ r \in Ref /\ r \notin adding /\ deleting' = deleting \ {r}
      /\ index' = [index EXCEPT ![ThumbprintOf[r.value]] = @ \ {IndexEntry(r)}]
      /\ UNCHANGED <<map, nextTx, adding>>
  BY DEF EmitDelete, StoreInv, StoreTypeOK
<1>2. ThumbprintOf[r.value] \in Thumbprint /\ r \in LiveRefs
  BY <1>1, LiveRef, StoreAssumption DEF Ref
<1>3. StoreTypeOK'
  BY <1>1, <1>2 DEF StoreInv, StoreTypeOK
<1>4. \A l \in Key : Stored(l) => RefOf(l, map[l]) # r
  BY <1>1 DEF StoreInv, ApartOK
<1>5. \A s : s \in LiveRefs' <=> s \in LiveRefs /\ s # r
  BY <1>1, <1>4, LiveRef, LiveRefNext DEF Stored
<1>6. TxUnique'
  BY <1>1, <1>5 DEF StoreInv, TxUnique
<1>7. ApartOK'
  BY <1>1 DEF StoreInv, ApartOK, Stored
<1>8. \A s \in LiveRefs : IndexEntry(s) = IndexEntry(r) => s = r
  <2>1. \A s : IndexEntry(s).tx = s.tx
    BY DEF IndexEntry
  <2> QED
    BY <1>2, <2>1 DEF StoreInv, TxUnique
<1>9. IndexExact'
  <2> SUFFICES ASSUME NEW p \in Thumbprint
               PROVE  index'[p] = {IndexEntry(s) : s \in {t \in LiveRefs' \ adding' : ThumbprintOf[t.value] = p}}
    BY DEF IndexExact
  <2>1. index[p] = IndexAt(p) /\ index \in [Thumbprint -> SUBSET [key : Key, tx : Nat]]
    BY DEF StoreInv, IndexExact, IndexAt, StoreTypeOK
  <2>2. LiveRefs' \ adding' = (LiveRefs \ adding) \ {r}
    BY <1>1, <1>5
  <2>3. CASE ThumbprintOf[r.value] = p
    BY <1>1, <1>8, <2>1, <2>2, <2>3 DEF IndexAt
  <2>4. CASE ThumbprintOf[r.value] # p
    BY <1>1, <2>1, <2>2, <2>4 DEF IndexAt
  <2> QED
    BY <2>3, <2>4
<1> QED
  BY <1>3, <1>6, <1>7, <1>9 DEF StoreInv

LEMMA StutterKeepsInv == StoreInv /\ UNCHANGED storeVars => StoreInv'
BY DEF StoreInv, storeVars, StoreTypeOK, TxUnique, ApartOK, IndexExact, LiveRefs, Stored

LEMMA InitHasInv == StoreInit => StoreInv
<1> SUFFICES ASSUME StoreInit PROVE StoreInv
  OBVIOUS
<1>1. StoreTypeOK
  BY DEF StoreInit, StoreTypeOK
<1>2. LiveRefs = {} /\ \A k \in Key : ~Stored(k)
  BY DEF StoreInit, LiveRefs, Stored
<1>3. TxUnique /\ ApartOK
  BY <1>2 DEF StoreInit, TxUnique, ApartOK
<1>4. IndexExact
  BY <1>2 DEF StoreInit, IndexExact
<1> QED
  BY <1>1, <1>3, <1>4 DEF StoreInv

LEMMA StoreStepKeepsInv == StoreInv /\ [StoreNext]_storeVars => StoreInv'
<1> SUFFICES ASSUME StoreInv, [StoreNext]_storeVars PROVE StoreInv'
  OBVIOUS
<1>1. ASSUME NEW k \in Key, NEW v \in Value, StoreSet(k, v) PROVE StoreInv'
  BY <1>1, SetKeepsInv
<1>2. ASSUME NEW r \in adding, AddToIndex(r) PROVE StoreInv'
  BY <1>2, AddKeepsInv
<1>3. ASSUME NEW k \in Key, NEW t, StoreDelete(k, t) PROVE StoreInv'
  BY <1>3, DeleteKeepsInv
<1>4. ASSUME NEW r \in deleting, EmitDelete(r) PROVE StoreInv'
  BY <1>4, EmitKeepsInv
<1>5. CASE UNCHANGED storeVars
  BY <1>5, StutterKeepsInv
<1> QED
  BY <1>1, <1>2, <1>3, <1>4, <1>5 DEF StoreNext, StoreDeleteAny

-----------------------------------------------------------------------------
(* Lookups *)

\* When no callback is pending, what is indexed is what is stored.
LEMMA InvGivesLookup == StoreInv => LookupExact
<1> SUFFICES ASSUME StoreInv, adding = {}, deleting = {}, NEW p \in Thumbprint
             PROVE  GetByPkThumbprint(p) =
                      {map[k].value : k \in {l \in Key : Stored(l) /\ ThumbprintOf[map[l].value] = p}}
  BY DEF LookupExact
<1>1. \A r : r \in LiveRefs <=> \E k \in Key : Stored(k) /\ r = RefOf(k, map[k])
  BY LiveRef
<1>2. \A k \in Key : RefOf(k, map[k]).value = map[k].value
                     /\ IndexEntry(RefOf(k, map[k])).key = k
  BY DEF RefOf, IndexEntry
<1>3. index[p] = {IndexEntry(r) : r \in {s \in LiveRefs : ThumbprintOf[s.value] = p}}
  BY DEF StoreInv, IndexExact
<1>4. ASSUME NEW i \in index[p]
      PROVE  \E k \in Key : Stored(k) /\ ThumbprintOf[map[k].value] = p /\ i.key = k
  BY <1>1, <1>2, <1>3
<1>5. ASSUME NEW k \in Key, Stored(k), ThumbprintOf[map[k].value] = p
      PROVE  \E i \in index[p] : i.key = k
  BY <1>1, <1>2, <1>3, <1>5
<1> QED
  BY <1>4, <1>5 DEF GetByPkThumbprint

-----------------------------------------------------------------------------
(* Theorems *)

LEMMA StoreInvariance == StoreSpec => []StoreInv
BY InitHasInv, StoreStepKeepsInv, PTL DEF StoreSpec

\* The index has exactly the entries that were announced as set and not yet as
\* deleted, for callers that set and delete in any order, with any transactions
\* (set and the delete listener of tunnel-store/index.ts).
THEOREM StoreIndexCorrect == StoreSpec => []IndexExact
<1>1. StoreInv => IndexExact
  BY DEF StoreInv
<1> QED
  BY <1>1, StoreInvariance, PTL

\* A transaction names one entry, so that who holds that of a deleted one never
\* deletes its successor (delete of memory-store.ts).
THEOREM TransactionsUnique == StoreSpec => []TxUnique
<1>1. StoreInv => TxUnique
  BY DEF StoreInv
<1> QED
  BY <1>1, StoreInvariance, PTL

\* When no callback is pending, a lookup by thumbprint returns exactly the stored
\* tunnels of that thumbprint (getByPkThumbprint).
THEOREM LookupCorrect == StoreSpec => []LookupExact
BY InvGivesLookup, StoreInvariance, PTL

-----------------------------------------------------------------------------
(* The server *)

\* A handler that is at work knows its connection and its request, and its
\* transaction is one the store has handed out.
ActiveOK ==
  \A h \in Handler : pc[h] \notin Free =>
    /\ by[h] \in Conn
    /\ req[h] \in Request
    /\ tx[h] < nextTx

\* Transactions of stored entries are distinct and have been handed out.
TxOK ==
  /\ \A k \in Key : Stored(k) => map[k].tx < nextTx
  /\ \A k, l \in Key : (Stored(k) /\ Stored(l) /\ map[k].tx = map[l].tx) => k = l
  /\ \A k \in Key, d \in deleting : Stored(k) => map[k].tx # d.tx
  /\ \A d \in deleting : d.tx < nextTx

\* The entry a handler waits for, while it is stored, is another
\* connection's and has the handler's key.
RivalOK ==
  \A h \in Handler, k \in Key :
    (pc[h] \in {"ping", "awaitDelete"} /\ Stored(k) /\ map[k].tx = tx[h]) =>
      k = KeyAt(h) /\ map[k].value.client # by[h]

\* A handler can only wait beside an open socket server of its own request
\* when that one came later: the entry the handler waits for is gone, or
\* its deletion is being announced, and then the server is still listed, so
\* that the retry finds its entry.  This is what keeps Listening from
\* overwriting an open socket server.
Mine(h) == socketServers[by[h]][req[h]]

BesideAt(h) ==
  /\ (pc[h] \in {"ping", "awaitDelete"} /\ Mine(h) # None) =>
       /\ \A k \in Key : Stored(k) => map[k].tx # tx[h]
       /\ \A d \in deleting : d.tx = tx[h] => pc[Mine(h)] \in Listed
  /\ (pc[h] = "retry" /\ Mine(h) # None) => pc[Mine(h)] \in Listed
  /\ pc[h] = "accept" => Mine(h) = None

BesideOK == \A h \in Handler : BesideAt(h)

Agreement ==
  /\ ActiveOK
  /\ TxOK
  /\ OwnerExact
  /\ SocketServersExact
  /\ RivalOK
  /\ BesideOK

\* The inductive invariant.
IInv == TypeOK /\ Agreement

-----------------------------------------------------------------------------
(* Type correctness *)

\* What a stored entry is made of.
LEMMA EntryType ==
  ASSUME StoreTypeOK, NEW k \in Key, Stored(k)
  PROVE  /\ map[k] \in Entry
         /\ map[k].tx \in Nat
         /\ map[k].value \in Value
         /\ map[k].value.client \in Conn
         /\ map[k].value.target \in Handler
BY ServerAssumption DEF StoreTypeOK, Stored, Entry

LEMMA EntriesType ==
  ASSUME TypeOK
  PROVE  \A k \in Key : Stored(k) =>
           /\ map[k].tx \in Nat
           /\ map[k].value.client \in Conn
           /\ map[k].value.target \in Handler
BY EntryType DEF TypeOK

LEMMA KeyType ==
  ASSUME NEW c \in Conn, NEW r \in Request
  PROVE  ClientOf[c] \in Client /\ KeyOf[ClientOf[c]][r] \in Key
BY ServerAssumption

LEMMA NoneIsNoEntry == None \notin Entry /\ None \notin Conn /\ None \notin Handler
BY ServerAssumption, StoreAssumption

\* The store's operations keep its type.
LEMMA StoreDeleteType ==
  ASSUME StoreTypeOK, NEW k \in Key, NEW t, StoreDelete(k, t)
  PROVE  StoreTypeOK'
<1>1. CASE DeleteHits(k, t)
  <2>1. RefOf(k, map[k]) \in Ref
    BY <1>1, EntryType DEF DeleteHits, Ref, RefOf
  <2> QED
    BY <1>1, <2>1 DEF StoreTypeOK, StoreDelete
<1>2. CASE ~DeleteHits(k, t)
  BY <1>2 DEF StoreTypeOK, StoreDelete
<1> QED
  BY <1>1, <1>2

LEMMA IndexStepType ==
  ASSUME StoreTypeOK, NEW r \in Ref, AddToIndex(r) \/ EmitDelete(r)
  PROVE  StoreTypeOK'
<1>1. IndexEntry(r) \in [key : Key, tx : Nat]
  BY DEF Ref, IndexEntry
<1> QED
  BY <1>1 DEF StoreTypeOK, AddToIndex, EmitDelete

\* The operators the handlers' steps are built from.
HandlerTypeOK ==
  /\ pc \in [Handler -> Waiting \cup Owning \cup Open \cup Free]
  /\ by \in [Handler -> Conn \cup {None}]
  /\ req \in [Handler -> Request \cup {None}]
  /\ rival \in [Handler -> Conn \cup {None}]
  /\ tx \in [Handler -> Nat]

\* The other conjuncts of TypeOK.
ConnTypeOK ==
  /\ conn \in [Conn -> {"none", "live", "mute", "errored", "ended", "closed"}]
  /\ hangup \subseteq Conn
  /\ ping \in [Conn -> {"none", "pending", "pong", "error"}]
  /\ sshConnectionsGauge \in [Client -> Int]

TunnelTypeOK ==
  /\ socketServers \in [Conn -> [Request -> Handler \cup {None}]]
  /\ tunnels \in [Conn -> SUBSET Request]
  /\ tunnelsGauge \in [Client -> Int]

LEMMA TypeOKParts ==
  TypeOK <=> StoreTypeOK /\ ConnTypeOK /\ HandlerTypeOK /\ TunnelTypeOK
BY DEF TypeOK, ConnTypeOK, HandlerTypeOK, TunnelTypeOK

LEMMA TypeOKPartsNext ==
  TypeOK' <=> StoreTypeOK' /\ ConnTypeOK' /\ HandlerTypeOK' /\ TunnelTypeOK'
BY DEF TypeOK, ConnTypeOK, HandlerTypeOK, TunnelTypeOK

LEMMA SettleType ==
  ASSUME HandlerTypeOK, NEW h \in Handler, NEW how \in Free, Settle(h, how)
  PROVE  HandlerTypeOK'
BY DEF HandlerTypeOK, Settle

LEMMA SuspendType ==
  ASSUME HandlerTypeOK, NEW h \in Handler, NEW c \in Conn, NEW r \in Request,
         NEW at \in Waiting \cup Owning, NEW other \in Conn \cup {None}, NEW t \in Nat,
         Suspend(h, c, r, at, other, t)
  PROVE  HandlerTypeOK'
BY DEF HandlerTypeOK, Suspend

LEMMA TrySetType ==
  ASSUME TypeOK, NEW h \in Handler, NEW c \in Conn, NEW r \in Request, TrySet(h, c, r)
  PROVE  StoreTypeOK' /\ HandlerTypeOK' /\ (hangup \subseteq Conn)'
         /\ (ping \in [Conn -> {"none", "pending", "pong", "error"}])'
<1> DEFINE k == KeyOf[ClientOf[c]][r]
<1>0. k \in Key /\ StoreTypeOK /\ HandlerTypeOK /\ hangup \subseteq Conn
      /\ ping \in [Conn -> {"none", "pending", "pong", "error"}] /\ nextTx \in Nat
  BY KeyType DEF TypeOK, HandlerTypeOK, StoreTypeOK
<1>1. CASE ~Stored(k)
  <2>1. [client |-> c, target |-> h] \in Value
    BY ServerAssumption
  <2>2. /\ StoreSet(k, [client |-> c, target |-> h])
        /\ Suspend(h, c, r, "accept", None, nextTx)
        /\ UNCHANGED <<hangup, ping>>
    BY <1>1 DEF TrySet
  <2>3. StoreTypeOK'
    BY <1>0, <2>1, <2>2, SetKeepsType
  <2>4. HandlerTypeOK'
    BY <1>0, <2>2, SuspendType DEF Owning
  <2> QED
    BY <1>0, <2>2, <2>3, <2>4
<1>2. CASE Stored(k)
  <2>0. map[k].value.client \in Conn /\ map[k].tx \in Nat
    BY <1>0, <1>2, EntryType
  <2>1. UNCHANGED storeVars
    BY <1>2 DEF TrySet
  <2>2. StoreTypeOK'
    BY <1>0, <2>1 DEF StoreTypeOK, storeVars
  <2>3. CASE Settle(h, "rejected") /\ UNCHANGED <<hangup, ping>>
    BY <1>0, <2>2, <2>3, SettleType DEF Free
  <2>4. CASE /\ Suspend(h, c, r, "ping", map[k].value.client, map[k].tx)
             /\ ping' = [ping EXCEPT ![map[k].value.client] = "pending"]
             /\ UNCHANGED hangup
    BY <1>0, <2>0, <2>2, <2>4, SuspendType DEF Waiting
  <2>5. CASE /\ Suspend(h, c, r, "awaitDelete", map[k].value.client, map[k].tx)
             /\ HangUp(map[k].value.client)
             /\ UNCHANGED ping
    BY <1>0, <2>0, <2>2, <2>5, SuspendType DEF Waiting, HangUp
  <2> QED
    BY <1>2, <2>3, <2>4, <2>5 DEF TrySet
<1> QED
  BY <1>1, <1>2

LEMMA CleanupTunnelType ==
  ASSUME StoreTypeOK, TunnelTypeOK, NEW h \in Handler, by[h] \in Conn,
         req[h] \in Request, CleanupTunnel(h)
  PROVE  /\ StoreTypeOK'
         /\ (tunnels \in [Conn -> SUBSET Request])'
         /\ (tunnelsGauge \in [Client -> Int])'
<1>1. KeyAt(h) \in Key /\ ClientOf[by[h]] \in Client
  BY KeyType DEF KeyAt
<1>2. StoreTypeOK'
  BY <1>1, StoreDeleteType DEF CleanupTunnel
<1> QED
  BY <1>1, <1>2 DEF CleanupTunnel, TunnelTypeOK

LEMMA UnchangedType ==
  /\ StoreTypeOK /\ UNCHANGED storeVars => StoreTypeOK'
  /\ ConnTypeOK /\ UNCHANGED connVars => ConnTypeOK'
  /\ HandlerTypeOK /\ UNCHANGED handlerVars => HandlerTypeOK'
  /\ TunnelTypeOK /\ UNCHANGED tunnelVars => TunnelTypeOK'
BY DEF StoreTypeOK, ConnTypeOK, HandlerTypeOK, TunnelTypeOK,
       storeVars, connVars, handlerVars, tunnelVars

LEMMA InitType == Init => TypeOK
<1> SUFFICES ASSUME Init PROVE TypeOK
  OBVIOUS
<1>1. StoreTypeOK
  BY DEF Init, StoreInit, StoreTypeOK
<1>2. HandlerTypeOK
  BY DEF Init, HandlerTypeOK, Free
<1>3. ConnTypeOK
  BY DEF Init, ConnTypeOK
<1>4. TunnelTypeOK
  BY DEF Init, TunnelTypeOK
<1> QED
  BY <1>1, <1>2, <1>3, <1>4, TypeOKParts

\* A handler at work knows its connection and request.
LEMMA ActiveType ==
  ASSUME TypeOK, ActiveOK, NEW h \in Handler, pc[h] \notin Free
  PROVE  /\ by[h] \in Conn /\ req[h] \in Request
         /\ KeyAt(h) \in Key /\ ClientOf[by[h]] \in Client
BY KeyType DEF ActiveOK, KeyAt

\* Every step keeps the types.
LEMMA NextType ==
  ASSUME TypeOK, ActiveOK, Next
  PROVE  TypeOK'
<1>0. StoreTypeOK /\ ConnTypeOK /\ HandlerTypeOK /\ TunnelTypeOK
  BY TypeOKParts
<1> SUFFICES StoreTypeOK' /\ ConnTypeOK' /\ HandlerTypeOK' /\ TunnelTypeOK'
  BY TypeOKPartsNext
<1> USE DEF Waiting, Owning, Listed, Open, Free
<1>1. ASSUME NEW r \in adding, Indexed(r)
      PROVE  StoreTypeOK' /\ ConnTypeOK' /\ HandlerTypeOK' /\ TunnelTypeOK'
  <2>1. StoreTypeOK'
    BY <1>0, <1>1, IndexStepType DEF StoreTypeOK, Indexed
  <2> QED
    BY <1>0, <1>1, <2>1, UnchangedType DEF Indexed
<1>2. ASSUME NEW r \in deleting, DeleteEvent(r)
      PROVE  StoreTypeOK' /\ ConnTypeOK' /\ HandlerTypeOK' /\ TunnelTypeOK'
  <2>1. StoreTypeOK'
    BY <1>0, <1>2, IndexStepType DEF StoreTypeOK, DeleteEvent
  <2>2. HandlerTypeOK'
    BY <1>0, <1>2 DEF DeleteEvent, HandlerTypeOK
  <2> QED
    BY <1>0, <1>2, <2>1, <2>2, UnchangedType DEF DeleteEvent
<1>3. ASSUME NEW h \in Handler, Retry(h)
      PROVE  StoreTypeOK' /\ ConnTypeOK' /\ HandlerTypeOK' /\ TunnelTypeOK'
  <2>1. by[h] \in Conn /\ req[h] \in Request
    BY <1>3, ActiveType DEF Retry
  <2>2. StoreTypeOK' /\ HandlerTypeOK' /\ (hangup \subseteq Conn)'
         /\ (ping \in [Conn -> {"none", "pending", "pong", "error"}])'
    BY <1>3, <2>1, TrySetType DEF Retry
  <2> QED
    BY <1>0, <1>3, <2>2, UnchangedType DEF Retry, ConnTypeOK
<1>4. ASSUME NEW h \in Handler, Listening(h)
      PROVE  StoreTypeOK' /\ ConnTypeOK' /\ HandlerTypeOK' /\ TunnelTypeOK'
  <2>1. by[h] \in Conn /\ req[h] \in Request /\ ClientOf[by[h]] \in Client
    BY <1>4, ActiveType DEF Listening
  <2>2. (socketServers \in [Conn -> [Request -> Handler \cup {None}]])'
    BY <1>0, <1>4, <2>1 DEF TunnelTypeOK, Listening
  <2>3. TunnelTypeOK'
    BY <1>0, <1>4, <2>1, <2>2 DEF TunnelTypeOK, Listening
  <2>4. HandlerTypeOK'
    BY <1>0, <1>4 DEF Listening, HandlerTypeOK
  <2> QED
    BY <1>0, <1>4, <2>3, <2>4, UnchangedType DEF Listening
<1>5. ASSUME NEW h \in Handler, ListenFails(h)
      PROVE  StoreTypeOK' /\ ConnTypeOK' /\ HandlerTypeOK' /\ TunnelTypeOK'
  <2>1. StoreTypeOK'
    BY <1>0, <1>5, ActiveType, StoreDeleteType DEF ListenFails
  <2>2. HandlerTypeOK'
    BY <1>0, <1>5, SettleType DEF ListenFails
  <2> QED
    BY <1>0, <1>5, <2>1, <2>2, UnchangedType DEF ListenFails
<1>6. ASSUME NEW c \in Conn, NEW r \in Request, NEW h \in Handler, Forward(c, r, h)
      PROVE  StoreTypeOK' /\ ConnTypeOK' /\ HandlerTypeOK' /\ TunnelTypeOK'
  <2>1. CASE Settle(h, "rejected") /\ UNCHANGED <<storeVars, hangup, ping>>
    <3>1. HandlerTypeOK'
      BY <1>0, <2>1, SettleType
    <3>2. ConnTypeOK'
      BY <1>0, <1>6, <2>1 DEF ConnTypeOK, Forward
    <3> QED
      BY <1>0, <1>6, <2>1, <3>1, <3>2, UnchangedType DEF Forward
  <2>2. CASE TrySet(h, c, r)
    <3>1. StoreTypeOK' /\ HandlerTypeOK' /\ (hangup \subseteq Conn)'
          /\ (ping \in [Conn -> {"none", "pending", "pong", "error"}])'
      BY <2>2, TrySetType
    <3> QED
      BY <1>0, <1>6, <3>1, UnchangedType DEF Forward, ConnTypeOK
  <2> QED
    BY <1>6, <2>1, <2>2 DEF Forward
<1>7. ASSUME NEW c \in Conn, NEW r \in Request, Cancel(c, r)
      PROVE  StoreTypeOK' /\ ConnTypeOK' /\ HandlerTypeOK' /\ TunnelTypeOK'
  <2>1. HandlerTypeOK'
    BY <1>0, <1>7 DEF Cancel, HandlerTypeOK
  <2> QED
    BY <1>0, <1>7, <2>1, UnchangedType DEF Cancel
<1>8. ASSUME NEW h \in Handler, DeleteTimeout(h)
      PROVE  StoreTypeOK' /\ ConnTypeOK' /\ HandlerTypeOK' /\ TunnelTypeOK'
  <2>1. HandlerTypeOK'
    BY <1>0, <1>8, SettleType DEF DeleteTimeout
  <2> QED
    BY <1>0, <1>8, <2>1, UnchangedType DEF DeleteTimeout
<1>9. ASSUME NEW h \in Handler, SocketError(h)
      PROVE  StoreTypeOK' /\ ConnTypeOK' /\ HandlerTypeOK' /\ TunnelTypeOK'
  <2>1. StoreTypeOK' /\ TunnelTypeOK'
    BY <1>0, <1>9, ActiveType, CleanupTunnelType DEF SocketError, TunnelTypeOK
  <2>2. HandlerTypeOK'
    BY <1>0, <1>9 DEF SocketError, HandlerTypeOK
  <2> QED
    BY <1>0, <1>9, <2>1, <2>2, UnchangedType DEF SocketError
<1>10. ASSUME NEW h \in Handler, SocketClose(h)
       PROVE  StoreTypeOK' /\ ConnTypeOK' /\ HandlerTypeOK' /\ TunnelTypeOK'
  <2>1. by[h] \in Conn /\ req[h] \in Request
    BY <1>10, ActiveType DEF SocketClose
  <2>2. /\ StoreTypeOK' /\ (tunnels \in [Conn -> SUBSET Request])'
        /\ (tunnelsGauge \in [Client -> Int])'
    <3>1. CASE pc[h] = "failed"
      BY <1>0, <1>10, <3>1, UnchangedType DEF TunnelTypeOK, SocketClose
    <3>2. CASE pc[h] # "failed"
      BY <1>0, <1>10, <2>1, <3>2, CleanupTunnelType DEF SocketClose
    <3> QED
      BY <3>1, <3>2
  <2>3. TunnelTypeOK'
    BY <1>0, <1>10, <2>1, <2>2 DEF TunnelTypeOK, SocketClose
  <2>4. HandlerTypeOK'
    BY <1>0, <1>10, SettleType DEF SocketClose
  <2> QED
    BY <1>0, <1>10, <2>2, <2>3, <2>4, UnchangedType DEF SocketClose
<1>11. ASSUME NEW c \in Conn, Connect(c) \/ GoMute(c) \/ PingExpires(c)
       PROVE  StoreTypeOK' /\ ConnTypeOK' /\ HandlerTypeOK' /\ TunnelTypeOK'
  <2>1. ConnTypeOK'
    <3>1. ClientOf[c] \in Client
      BY ServerAssumption
    <3> QED
      BY <1>0, <1>11, <3>1 DEF ConnTypeOK, Connect, GoMute, PingExpires
  <2> QED
    BY <1>0, <1>11, <2>1, UnchangedType DEF Connect, GoMute, PingExpires
<1>12. ASSUME NEW c \in Conn, PingAnswered(c)
       PROVE  StoreTypeOK' /\ ConnTypeOK' /\ HandlerTypeOK' /\ TunnelTypeOK'
  <2>1. ConnTypeOK'
    BY <1>0, <1>12 DEF ConnTypeOK, PingAnswered
  <2>2. HandlerTypeOK'
    BY <1>0, <1>12 DEF HandlerTypeOK, PingAnswered
  <2> QED
    BY <1>0, <1>12, <2>1, <2>2, UnchangedType DEF PingAnswered
<1>13. ASSUME NEW c \in Conn, PingTimeout(c)
       PROVE  StoreTypeOK' /\ ConnTypeOK' /\ HandlerTypeOK' /\ TunnelTypeOK'
  <2>1. ConnTypeOK'
    BY <1>0, <1>13 DEF ConnTypeOK, PingTimeout, PingFails, HangUp
  <2>2. HandlerTypeOK'
    BY <1>0, <1>13 DEF HandlerTypeOK, PingTimeout, PingFails
  <2> QED
    BY <1>0, <1>13, <2>1, <2>2, UnchangedType DEF PingTimeout
<1>14. ASSUME NEW c \in Conn, ClientError(c)
       PROVE  StoreTypeOK' /\ ConnTypeOK' /\ HandlerTypeOK' /\ TunnelTypeOK'
  <2>1. (sshConnectionsGauge \in [Client -> Int])'
    <3>1. CleanupClient(c)
      BY <1>14 DEF ClientError
    <3>2. sshConnectionsGauge \in [Client -> Int] /\ ClientOf[c] \in Client
      BY <1>0, ServerAssumption DEF ConnTypeOK
    <3> QED
      BY <3>1, <3>2 DEF CleanupClient
  <2>2. (ping \in [Conn -> {"none", "pending", "pong", "error"}])'
    BY <1>0, <1>14, ServerAssumption DEF ConnTypeOK, ClientError, PingFails
  <2>3. ConnTypeOK'
    <3>1. HangUp(c) /\ conn' = [conn EXCEPT ![c] = "errored"]
      BY <1>14 DEF ClientError
    <3> QED
      BY <1>0, <2>1, <2>2, <3>1 DEF ConnTypeOK, HangUp
  <2>4. HandlerTypeOK'
    BY <1>0, <1>14 DEF HandlerTypeOK, ClientError, PingFails, handlerVars
  <2> QED
    BY <1>0, <1>14, <2>3, <2>4, UnchangedType DEF ClientError
<1>15. ASSUME NEW c \in Conn, ClientEnd(c) \/ ClientClose(c)
       PROVE  StoreTypeOK' /\ ConnTypeOK' /\ HandlerTypeOK' /\ TunnelTypeOK'
  <2>1. (sshConnectionsGauge \in [Client -> Int])'
    BY <1>0, <1>15, ServerAssumption DEF ConnTypeOK, ClientEnd, ClientClose, CleanupClient
  <2>2. ConnTypeOK'
    BY <1>0, <1>15, <2>1 DEF ConnTypeOK, ClientEnd, ClientClose
  <2>3. HandlerTypeOK'
    BY <1>0, <1>15 DEF HandlerTypeOK, ClientEnd, ClientClose, DestroySocketServers
  <2> QED
    BY <1>0, <1>15, <2>2, <2>3, UnchangedType DEF ClientEnd, ClientClose
<1> QED
  BY <1>1, <1>2, <1>3, <1>4, <1>5, <1>6, <1>7, <1>8, <1>9, <1>10, <1>11, <1>12,
     <1>13, <1>14, <1>15 DEF Next, Microtask

-----------------------------------------------------------------------------
(* Agreement of the store, the handlers and the registry *)

LEMMA InitAgreement == Init => Agreement
BY DEF Init, StoreInit, Agreement, ActiveOK, TxOK, OwnerExact, SocketServersExact,
       RivalOK, BesideOK, BesideAt, Mine, Stored, Free, Owning, Listed, Open, Waiting

\* A handler that owns a tunnel: its key is stored, as its own.
LEMMA OwnerFacts ==
  ASSUME IInv, NEW h \in Handler, pc[h] \in Owning
  PROVE  /\ by[h] \in Conn /\ req[h] \in Request /\ KeyAt(h) \in Key
         /\ Stored(KeyAt(h))
         /\ map[KeyAt(h)].value.target = h
         /\ map[KeyAt(h)].value.client = by[h]
         /\ map[KeyAt(h)].tx = tx[h]
         /\ \A k \in Key : (Stored(k) /\ map[k].value.target = h) => k = KeyAt(h)
<1>1. by[h] \in Conn /\ req[h] \in Request /\ KeyAt(h) \in Key
  BY ActiveType DEF IInv, Agreement, Owning, Free
<1>2. Stored(KeyAt(h)) /\ map[KeyAt(h)].value.target = h
  BY DEF IInv, Agreement, OwnerExact
<1>3. \A k \in Key : Stored(k) => Owns(map[k].value.target, k)
  BY DEF IInv, Agreement, OwnerExact
<1> QED
  BY <1>1, <1>2, <1>3 DEF Owns

\* The socket server beside a handler at work is open, and its request and
\* connection are the handler's.
LEMMA MineFacts ==
  ASSUME IInv, NEW h \in Handler, pc[h] \notin Free, Mine(h) # None
  PROVE  /\ Mine(h) \in Handler
         /\ pc[Mine(h)] \in Open
         /\ by[Mine(h)] = by[h] /\ req[Mine(h)] = req[h]
<1>1. by[h] \in Conn /\ req[h] \in Request
  BY ActiveType DEF IInv, Agreement
<1> QED
  BY <1>1 DEF IInv, Agreement, TypeOK, SocketServersExact, Serves, Mine

\* A request is rejected, or given up, by a handler that owns nothing.
LEMMA RejectAgreement ==
  ASSUME IInv, NEW h \in Handler, pc[h] \in Free \cup Waiting,
         NEW how \in Free, Settle(h, how), UNCHANGED <<storeVars, tunnelVars>>
  PROVE  Agreement'
<1> USE DEF IInv, Agreement, TypeOK, Settle, storeVars, tunnelVars,
            Free, Waiting, Owning, Listed, Open
<1>1. ActiveOK'
  BY DEF ActiveOK
<1>2. TxOK'
  BY DEF TxOK, Stored
<1>0. \A g \in Handler : g # h =>
        /\ pc'[g] = pc[g] /\ by'[g] = by[g] /\ req'[g] = req[g] /\ tx'[g] = tx[g]
        /\ KeyAt(g)' = KeyAt(g)
  BY DEF KeyAt
<1>3. OwnerExact'
  <2>1. ASSUME NEW k \in Key, Stored(k)
        PROVE  Owns(map[k].value.target, k)'
    <3>1. Owns(map[k].value.target, k) /\ map[k].value.target \in Handler
      BY <2>1, EntriesType DEF OwnerExact
    <3> QED
      BY <1>0, <3>1 DEF Owns
  <2> QED
    BY <1>0, <2>1 DEF OwnerExact, Stored
<1>4. SocketServersExact'
  BY DEF SocketServersExact, Serves
<1>5. RivalOK'
  BY EntriesType DEF RivalOK, Stored, KeyAt
<1>6. BesideOK'
  <2>1. SUFFICES ASSUME NEW g \in Handler, g # h, pc[g] \notin Free
        PROVE  BesideAt(g)'
    BY DEF BesideOK, BesideAt
  <2>2. Mine(g)' = Mine(g) /\ (Mine(g) # None => Mine(g) # h)
    BY <2>1, MineFacts DEF Mine
  <2> QED
    BY <2>1, <2>2, MineFacts DEF BesideOK, BesideAt, Stored
<1> QED
  BY <1>1, <1>2, <1>3, <1>4, <1>5, <1>6

\* The steps that store a tunnel, take one out of the store, or leave the
\* store alone, seen by the handlers that do not move.
Still(g) ==
  /\ pc'[g] = pc[g] /\ by'[g] = by[g] /\ req'[g] = req[g] /\ tx'[g] = tx[g]

LEMMA StillKey == ASSUME NEW g, Still(g) PROVE KeyAt(g)' = KeyAt(g)
BY DEF Still, KeyAt

\* A handler without a socket server does not disturb the registry.
LEMMA SocketServersStill ==
  ASSUME TypeOK, SocketServersExact, NEW h \in Handler,
         pc[h] \notin Open, pc'[h] \notin Open,
         \A g \in Handler : g # h => Still(g), UNCHANGED socketServers
  PROVE  SocketServersExact'
<1>1. ASSUME NEW c \in Conn, NEW r \in Request, socketServers[c][r] # None
      PROVE  Serves(socketServers[c][r], c, r)'
  <2>1. socketServers[c][r] \in Handler /\ Serves(socketServers[c][r], c, r)
    BY <1>1 DEF TypeOK, SocketServersExact
  <2> QED
    BY <2>1 DEF Serves, Still
<1>2. ASSUME NEW g \in Handler, pc'[g] \in Open
      PROVE  (socketServers[by[g]][req[g]] = g)'
  BY <1>2 DEF SocketServersExact, Still
<1> QED
  BY <1>1, <1>2 DEF SocketServersExact

\* A handler stores its tunnel.
LEMMA SetAgreement ==
  ASSUME IInv, NEW h \in Handler, NEW c \in Conn, NEW r \in Request,
         pc[h] \in Free \cup Waiting,
         socketServers[c][r] # None => pc[socketServers[c][r]] \in Listed,
         ~Stored(KeyOf[ClientOf[c]][r]),
         StoreSet(KeyOf[ClientOf[c]][r], [client |-> c, target |-> h]),
         Suspend(h, c, r, "accept", None, nextTx), UNCHANGED tunnelVars
  PROVE  Agreement'
<1> DEFINE k == KeyOf[ClientOf[c]][r]
<1> USE DEF IInv, Agreement
<1>1. \A g \in Handler : g # h => Still(g) /\ KeyAt(g)' = KeyAt(g)
  BY StillKey DEF Suspend, Still, TypeOK
<1>2. /\ pc'[h] = "accept" /\ by'[h] = c /\ req'[h] = r /\ tx'[h] = nextTx
      /\ KeyAt(h)' = k
  BY DEF Suspend, TypeOK, KeyAt
<1>3. /\ k \in Key /\ map'[k] = [tx |-> nextTx, value |-> [client |-> c, target |-> h]]
      /\ \A l \in Key : l # k => map'[l] = map[l]
      /\ nextTx \in Nat /\ nextTx' = nextTx + 1 /\ UNCHANGED deleting
      /\ Stored(k)' /\ \A l \in Key : l # k => Stored(l)' = Stored(l)
  <2>1. k \in Key /\ nextTx \in Nat
    BY KeyType DEF TypeOK, StoreTypeOK
  <2>2. /\ map'[k] = [tx |-> nextTx, value |-> [client |-> c, target |-> h]]
        /\ \A l \in Key : l # k => map'[l] = map[l]
    BY <2>1 DEF StoreSet, TypeOK, StoreTypeOK
  <2>3. map'[k] \in Entry
    BY <2>1, <2>2, ServerAssumption DEF Entry
  <2> QED
    BY <2>1, <2>2, <2>3, NoneIsNoEntry DEF StoreSet, Stored
<1>4. socketServers[c][r] = None
  <2> SUFFICES ASSUME socketServers[c][r] # None PROVE FALSE
    OBVIOUS
  <2> DEFINE g == socketServers[c][r]
  <2>1. g \in Handler /\ pc[g] \in Listed /\ by[g] = c /\ req[g] = r
    BY DEF TypeOK, SocketServersExact, Serves
  <2>2. Stored(KeyAt(g))
    BY <2>1, OwnerFacts DEF Listed, Owning
  <2> QED
    BY <2>1, <2>2 DEF KeyAt
<1>5. ActiveOK'
  <2>1. ASSUME NEW g \in Handler, g # h, pc'[g] \notin Free
        PROVE  by'[g] \in Conn /\ req'[g] \in Request /\ tx'[g] < nextTx'
    BY <1>1, <1>3, <2>1 DEF ActiveOK, Still, TypeOK
  <2> QED
    BY <1>2, <1>3, <2>1 DEF ActiveOK
<1>6. TxOK'
  <2>1. \A l \in Key : Stored(l) => map[l].tx < nextTx /\ map[l].tx \in Nat
    BY EntriesType DEF TxOK
  <2>2. \A d \in deleting : d.tx < nextTx /\ d.tx \in Nat
    BY DEF TxOK, TypeOK, StoreTypeOK, Ref
  <2>3. \A l \in Key : Stored(l)' => map'[l].tx < nextTx'
    BY <1>3, <2>1
  <2>4. \A l, m \in Key :
          (Stored(l)' /\ Stored(m)' /\ map'[l].tx = map'[m].tx) => l = m
    BY <1>3, <2>1 DEF TxOK
  <2>5. \A l \in Key, d \in deleting : Stored(l)' => map'[l].tx # d.tx
    BY <1>3, <2>2 DEF TxOK
  <2>6. \A d \in deleting : d.tx < nextTx'
    BY <1>3, <2>2
  <2> QED
    BY <1>3, <2>3, <2>4, <2>5, <2>6 DEF TxOK
<1>7. OwnerExact'
  <2>1. ASSUME NEW l \in Key, Stored(l)'
        PROVE  Owns(map[l].value.target, l)'
    <3>1. CASE l = k
      BY <1>2, <1>3, <3>1 DEF Owns, Owning
    <3>2. CASE l # k
      <4>1. Stored(l) /\ map'[l] = map[l]
        BY <1>3, <2>1, <3>2
      <4>2. Owns(map[l].value.target, l) /\ map[l].value.target \in Handler
        BY <4>1, EntriesType DEF OwnerExact
      <4>3. map[l].value.target # h
        BY <4>2 DEF Owns, Owning, Free, Waiting
      <4> QED
        BY <1>1, <4>1, <4>2, <4>3 DEF Owns, Still
    <3> QED
      BY <3>1, <3>2
  <2>2. ASSUME NEW g \in Handler, pc'[g] \in Owning
        PROVE  (Stored(KeyAt(g)) /\ map[KeyAt(g)].value.target = g)'
    <3>1. CASE g = h
      BY <1>2, <1>3, <3>1
    <3>2. CASE g # h
      <4>1. pc[g] \in Owning /\ KeyAt(g)' = KeyAt(g)
        BY <1>1, <2>2, <3>2 DEF Still
      <4>2. Stored(KeyAt(g)) /\ map[KeyAt(g)].value.target = g /\ KeyAt(g) \in Key
        BY <4>1, OwnerFacts
      <4>3. KeyAt(g) # k
        BY <4>2
      <4> QED
        BY <1>3, <4>1, <4>2, <4>3
    <3> QED
      BY <3>1, <3>2
  <2> QED
    BY <2>1, <2>2 DEF OwnerExact
<1>8. SocketServersExact'
  <2>1. pc[h] \notin Open /\ pc'[h] \notin Open
    BY <1>2 DEF Open, Listed, Free, Waiting
  <2> QED
    BY <1>1, <2>1, SocketServersStill DEF tunnelVars
<1>9. RivalOK'
  <2> SUFFICES ASSUME NEW g \in Handler, NEW l \in Key,
                      (pc[g] \in {"ping", "awaitDelete"} /\ Stored(l) /\ map[l].tx = tx[g])'
               PROVE  (l = KeyAt(g) /\ map[l].value.client # by[g])'
    BY DEF RivalOK
  <2>1. g # h
    BY <1>2
  <2>2. tx'[g] < nextTx
    BY <1>1, <2>1 DEF ActiveOK, Still, Free
  <2>3. l # k
    BY <1>3, <2>2
  <2> QED
    BY <1>1, <1>3, <2>1, <2>3 DEF RivalOK, Still
<1>10. BesideOK'
  <2> SUFFICES ASSUME NEW g \in Handler, pc'[g] \notin Free PROVE BesideAt(g)'
    BY DEF BesideOK, BesideAt, Free
  <2>1. CASE g = h
    BY <1>2, <1>4, <2>1 DEF BesideAt, Mine, tunnelVars
  <2>2. CASE g # h
    <3>1. pc[g] \notin Free /\ Mine(g)' = Mine(g) /\ tx[g] < nextTx
      BY <1>1, <2>2 DEF Still, Mine, tunnelVars, ActiveOK
    <3>2. Mine(g) # None => Mine(g) \in Handler /\ Mine(g) # h
      BY <3>1, MineFacts DEF Open, Listed, Free, Waiting
    <3> QED
      BY <1>1, <1>3, <2>2, <3>1, <3>2 DEF BesideOK, BesideAt, Still
  <2> QED
    BY <2>1, <2>2
<1> QED
  BY <1>5, <1>6, <1>7, <1>8, <1>9, <1>10

\* A handler starts to wait for another connection's tunnel to go.
LEMMA WaitAgreement ==
  ASSUME IInv, NEW h \in Handler, NEW c \in Conn, NEW r \in Request,
         pc[h] \in Free \cup Waiting,
         socketServers[c][r] # None => pc[socketServers[c][r]] \in Listed,
         Stored(KeyOf[ClientOf[c]][r]),
         map[KeyOf[ClientOf[c]][r]].value.client # c,
         NEW at \in {"ping", "awaitDelete"}, NEW other \in Conn,
         Suspend(h, c, r, at, other, map[KeyOf[ClientOf[c]][r]].tx),
         UNCHANGED <<storeVars, tunnelVars>>
  PROVE  Agreement'
<1> DEFINE k == KeyOf[ClientOf[c]][r]
<1> USE DEF IInv, Agreement
<1>0. k \in Key
  BY KeyType
<1>1. \A g \in Handler : g # h => Still(g) /\ KeyAt(g)' = KeyAt(g)
  BY StillKey DEF Suspend, Still, TypeOK
<1>2. /\ pc'[h] = at /\ by'[h] = c /\ req'[h] = r /\ tx'[h] = map[k].tx
      /\ KeyAt(h)' = k
  BY DEF Suspend, TypeOK, KeyAt
<1>3. UNCHANGED <<map, nextTx, deleting, socketServers>>
  BY DEF storeVars, tunnelVars
<1>4. socketServers[c][r] = None
  <2> SUFFICES ASSUME socketServers[c][r] # None PROVE FALSE
    OBVIOUS
  <2> DEFINE g == socketServers[c][r]
  <2>1. g \in Handler /\ pc[g] \in Listed /\ by[g] = c /\ req[g] = r
    BY DEF TypeOK, SocketServersExact, Serves
  <2>2. map[KeyAt(g)].value.client = c
    BY <2>1, OwnerFacts DEF Listed, Owning
  <2> QED
    BY <2>1, <2>2 DEF KeyAt
<1>5. ActiveOK'
  BY <1>0, <1>1, <1>2, <1>3 DEF ActiveOK, Still, TxOK
<1>6. TxOK'
  BY <1>3 DEF TxOK, Stored
<1>7. OwnerExact'
  <2>1. ASSUME NEW l \in Key, Stored(l)
        PROVE  Owns(map[l].value.target, l)'
    <3>1. Owns(map[l].value.target, l) /\ map[l].value.target \in Handler
      BY <2>1, EntriesType DEF OwnerExact
    <3>2. map[l].value.target # h
      BY <3>1 DEF Owns, Owning, Free, Waiting
    <3> QED
      BY <1>1, <1>3, <3>1, <3>2 DEF Owns, Still
  <2>2. ASSUME NEW g \in Handler, pc'[g] \in Owning
        PROVE  pc[g] \in Owning /\ KeyAt(g)' = KeyAt(g)
    BY <1>1, <1>2, <2>2 DEF Still, Owning
  <2> QED
    BY <1>3, <2>1, <2>2 DEF OwnerExact, Stored
<1>8. SocketServersExact'
  <2>1. pc[h] \notin Open /\ pc'[h] \notin Open
    BY <1>2 DEF Open, Listed, Free, Waiting
  <2> QED
    BY <1>1, <1>3, <2>1, SocketServersStill
<1>9. RivalOK'
  BY <1>0, <1>1, <1>2, <1>3 DEF RivalOK, Still, Stored, TxOK
<1>10. BesideOK'
  <2> SUFFICES ASSUME NEW g \in Handler, pc'[g] \notin Free PROVE BesideAt(g)'
    BY DEF BesideOK, BesideAt, Free
  <2>1. CASE g = h
    BY <1>2, <1>3, <1>4, <2>1 DEF BesideAt, Mine
  <2>2. CASE g # h
    <3>1. pc[g] \notin Free /\ Mine(g)' = Mine(g)
      BY <1>1, <1>3, <2>2 DEF Still, Mine
    <3>2. Mine(g) # None => Mine(g) \in Handler /\ Mine(g) # h
      BY <3>1, MineFacts DEF Open, Listed, Free, Waiting
    <3> QED
      BY <1>1, <1>3, <2>2, <3>1, <3>2 DEF BesideOK, BesideAt, Still, Stored
  <2> QED
    BY <2>1, <2>2
<1> QED
  BY <1>5, <1>6, <1>7, <1>8, <1>9, <1>10

LEMMA TrySetAgreement ==
  ASSUME IInv, NEW h \in Handler, NEW c \in Conn, NEW r \in Request,
         pc[h] \in Free \cup Waiting,
         socketServers[c][r] # None => pc[socketServers[c][r]] \in Listed,
         TrySet(h, c, r), UNCHANGED tunnelVars
  PROVE  Agreement'
<1> DEFINE k == KeyOf[ClientOf[c]][r]
           other == map[k].value.client
<1>1. CASE ~Stored(k)
  BY <1>1, SetAgreement DEF TrySet
<1>2. CASE Stored(k)
  <2>1. UNCHANGED storeVars /\ k \in Key /\ other \in Conn
    BY <1>2, EntriesType, KeyType DEF TrySet, IInv
  <2>2. CASE Settle(h, "rejected")
    BY <2>1, <2>2, RejectAgreement DEF Free
  <2>3. CASE other # c /\ Suspend(h, c, r, "ping", other, map[k].tx)
    BY <1>2, <2>1, <2>3, WaitAgreement
  <2>4. CASE other # c /\ Suspend(h, c, r, "awaitDelete", other, map[k].tx)
    BY <1>2, <2>1, <2>4, WaitAgreement
  <2> QED
    BY <1>2, <2>2, <2>3, <2>4 DEF TrySet
<1> QED
  BY <1>1, <1>2

\* Steps that move handlers between waiting and settled states, or between
\* states in which they own what they owned: the store and the registry are
\* untouched, and so is who owns what.
Shifts(g) ==
  \/ Still(g)
  \/ pc[g] \in {"ping", "awaitDelete"} /\ pc'[g] \in Free
  \/ /\ UNCHANGED <<by, req, tx>>
     /\ \/ pc[g] \in {"ping", "awaitDelete"} /\ pc'[g] \in {"ping", "awaitDelete"}
        \/ pc[g] \in Listed /\ pc'[g] \in Listed

LEMMA ShiftAgreement ==
  ASSUME IInv, TypeOK', \A g \in Handler : Shifts(g),
         UNCHANGED <<map, nextTx, deleting, socketServers>>
  PROVE  Agreement'
<1> USE DEF IInv, Agreement
<1>1. \A g \in Handler : pc'[g] \notin Free => UNCHANGED <<by[g], req[g], tx[g], KeyAt(g)>>
  BY DEF Shifts, Still, KeyAt
<1>2. \A g \in Handler : /\ pc'[g] \in Owning <=> pc[g] \in Owning
                         /\ pc'[g] \in Listed <=> pc[g] \in Listed
                         /\ pc'[g] \in Open <=> pc[g] \in Open
                         /\ pc'[g] \notin Free => pc[g] \notin Free
                         /\ pc'[g] = "retry" => pc[g] = "retry"
                         /\ pc'[g] = "accept" => pc[g] = "accept"
                         /\ pc'[g] \in {"ping", "awaitDelete"} => pc[g] \in {"ping", "awaitDelete"}
  BY DEF Shifts, Still, Free, Owning, Open, Listed
<1>3. /\ \A g \in Handler : pc[g] \in Open => pc'[g] \notin Free
      /\ \A g \in Handler : pc[g] \in Owning => pc'[g] \notin Free
  BY <1>2 DEF Open, Listed, Free, Owning
<1>4. ActiveOK'
  BY <1>1, <1>2 DEF ActiveOK
<1>5. TxOK'
  BY DEF TxOK, Stored
<1>6. OwnerExact'
  <2>1. ASSUME NEW k \in Key, Stored(k)
        PROVE  Owns(map[k].value.target, k)'
    <3>1. Owns(map[k].value.target, k) /\ map[k].value.target \in Handler
      BY <2>1, EntriesType DEF OwnerExact
    <3> QED
      BY <1>1, <1>2, <1>3, <3>1 DEF Owns
  <2>2. ASSUME NEW g \in Handler, pc'[g] \in Owning
        PROVE  pc[g] \in Owning /\ KeyAt(g)' = KeyAt(g)
    BY <1>1, <1>2, <1>3, <2>2
  <2> QED
    BY <2>1, <2>2 DEF OwnerExact, Stored
<1>7. SocketServersExact'
  <2>1. ASSUME NEW c \in Conn, NEW r \in Request, socketServers[c][r] # None
        PROVE  Serves(socketServers[c][r], c, r)'
    <3>1. socketServers[c][r] \in Handler /\ Serves(socketServers[c][r], c, r)
      BY <2>1 DEF TypeOK, SocketServersExact
    <3> QED
      BY <1>1, <1>2, <1>3, <3>1 DEF Serves
  <2>2. ASSUME NEW g \in Handler, pc'[g] \in Open
        PROVE  (socketServers[by[g]][req[g]] = g)'
    BY <1>1, <1>2, <1>3, <2>2 DEF SocketServersExact
  <2> QED
    BY <2>1, <2>2 DEF SocketServersExact
<1>8. RivalOK'
  <2> SUFFICES ASSUME NEW g \in Handler, NEW k \in Key,
                      pc'[g] \in {"ping", "awaitDelete"}, Stored(k), map[k].tx = tx'[g]
               PROVE  (k = KeyAt(g) /\ map[k].value.client # by[g])'
    BY DEF RivalOK, Stored
  <2>1. pc[g] \in {"ping", "awaitDelete"} /\ UNCHANGED <<by[g], tx[g], KeyAt(g)>>
    BY <1>1, <1>2 DEF Free
  <2> QED
    BY <2>1 DEF RivalOK
<1>9. BesideOK'
  <2> SUFFICES ASSUME NEW g \in Handler, pc'[g] \notin Free PROVE BesideAt(g)'
    BY DEF BesideOK, BesideAt, Free
  <2>1. pc[g] \notin Free /\ UNCHANGED <<Mine(g), tx[g]>>
    BY <1>1, <1>2 DEF Mine
  <2>2. Mine(g) # None => Mine(g) \in Handler
    BY <2>1, MineFacts
  <2> QED
    BY <1>2, <2>1, <2>2 DEF BesideOK, BesideAt, Stored
<1> QED
  BY <1>4, <1>5, <1>6, <1>7, <1>8, <1>9

\* What remains when the tunnel a handler owns is taken out of the store.
LEMMA RemoveFacts ==
  ASSUME IInv, NEW h \in Handler, pc[h] \in Owning, StoreDelete(KeyAt(h), tx[h])
  PROVE  /\ \A k \in Key : Stored(k)' <=> Stored(k) /\ k # KeyAt(h)
         /\ \A k \in Key : k # KeyAt(h) => map'[k] = map[k]
         /\ \A d \in deleting' : d \in deleting \/ d.tx = tx[h]
         /\ \A k \in Key : Stored(k) /\ map[k].tx = tx[h] => k = KeyAt(h)
         /\ \A k \in Key, g \in Handler :
              Stored(k) /\ k # KeyAt(h) /\ map[k].value.target = g => g # h
         /\ nextTx' = nextTx
<1>1. /\ KeyAt(h) \in Key /\ Stored(KeyAt(h)) /\ map[KeyAt(h)].tx = tx[h]
      /\ \A k \in Key : (Stored(k) /\ map[k].value.target = h) => k = KeyAt(h)
  BY OwnerFacts
<1>2. map' = [map EXCEPT ![KeyAt(h)] = None]
  BY <1>1 DEF StoreDelete, DeleteHits
<1>3. deleting' = deleting \cup {RefOf(KeyAt(h), map[KeyAt(h)])} /\ nextTx' = nextTx
  BY <1>1 DEF StoreDelete, DeleteHits
<1>4. \A k \in Key : map'[k] = IF k = KeyAt(h) THEN None ELSE map[k]
  BY <1>1, <1>2 DEF IInv, TypeOK, StoreTypeOK
<1>5. \A k \in Key : Stored(k) /\ map[k].tx = tx[h] => k = KeyAt(h)
  BY <1>1 DEF IInv, Agreement, TxOK
<1>6. \A d \in deleting' : d \in deleting \/ d.tx = tx[h]
  BY <1>1, <1>3 DEF RefOf
<1> QED
  BY <1>1, <1>3, <1>4, <1>5, <1>6 DEF Stored

\* A handler loses its tunnel: its socket server has failed, or closed, or
\* never listened.  No retry or acceptance runs beside it unless the handler
\* never had a socket server.
LEMMA LoseAgreement ==
  ASSUME IInv, NEW h \in Handler, pc[h] \in Owning, StoreDelete(KeyAt(h), tx[h]),
         \A g \in Handler : g # h => Still(g),
         \/ /\ pc[h] = "accept" /\ pc'[h] \in Free
            /\ UNCHANGED socketServers
         \/ /\ pc[h] \in Listed /\ pc'[h] \in Free /\ Drained
            /\ socketServers' = [socketServers EXCEPT ![by[h]][req[h]] = None]
         \/ /\ pc[h] \in Listed /\ pc'[h] = "failed" /\ Drained
            /\ UNCHANGED <<by, req, tx, socketServers>>
  PROVE  Agreement'
<1> USE DEF IInv, Agreement
<1>0. pc'[h] \notin Owning \cup Listed \cup Waiting
  BY DEF Owning, Listed, Waiting, Free
<1>1. by[h] \in Conn /\ req[h] \in Request /\ \A g \in Handler : g # h => KeyAt(g)' = KeyAt(g)
  BY OwnerFacts, StillKey
<1>2. ActiveOK'
  <2>1. ASSUME NEW g \in Handler, pc'[g] \notin Free
        PROVE  pc[g] \notin Free /\ UNCHANGED <<by[g], req[g], tx[g]>>
    BY <2>1 DEF Still, Owning, Free
  <2> QED
    BY <2>1, RemoveFacts DEF ActiveOK
<1>3. TxOK'
  <2>1. tx[h] < nextTx
    BY DEF ActiveOK, Owning, Free
  <2> QED
    BY <2>1, RemoveFacts DEF TxOK
<1>4. OwnerExact'
  <2>1. ASSUME NEW k \in Key, Stored(k)'
        PROVE  Owns(map[k].value.target, k)'
    <3>1. Stored(k) /\ k # KeyAt(h) /\ map'[k] = map[k]
      BY <2>1, RemoveFacts
    <3>2. /\ Owns(map[k].value.target, k) /\ map[k].value.target \in Handler
          /\ map[k].value.target # h
      BY <3>1, EntriesType, RemoveFacts DEF OwnerExact
    <3> QED
      BY <1>1, <3>1, <3>2 DEF Owns, Still
  <2>2. ASSUME NEW g \in Handler, pc'[g] \in Owning
        PROVE  (Stored(KeyAt(g)) /\ map[KeyAt(g)].value.target = g)'
    <3>1. g # h /\ pc[g] \in Owning /\ KeyAt(g)' = KeyAt(g)
      BY <1>0, <1>1, <2>2 DEF Still
    <3>2. KeyAt(g) \in Key /\ Stored(KeyAt(g)) /\ map[KeyAt(g)].value.target = g
      BY <3>1, OwnerFacts
    <3>3. KeyAt(g) # KeyAt(h)
      BY <3>1, <3>2, OwnerFacts
    <3> QED
      BY <3>1, <3>2, <3>3, RemoveFacts
  <2> QED
    BY <2>1, <2>2 DEF OwnerExact
<1>5. SocketServersExact'
  <2>1. CASE pc[h] = "accept" /\ pc'[h] \in Free /\ UNCHANGED socketServers
    BY <2>1, SocketServersStill DEF Open, Listed, Free
  <2>2. CASE /\ pc[h] \in Listed /\ pc'[h] \in Free
             /\ socketServers' = [socketServers EXCEPT ![by[h]][req[h]] = None]
    <3>1. ASSUME NEW c \in Conn, NEW r \in Request
          PROVE  socketServers'[c][r] =
                   IF c = by[h] /\ r = req[h] THEN None ELSE socketServers[c][r]
      BY <1>1, <2>2 DEF TypeOK
    <3>2. socketServers[by[h]][req[h]] = h
      BY <2>2 DEF SocketServersExact, Open
    <3>3. ASSUME NEW c \in Conn, NEW r \in Request, socketServers'[c][r] # None
          PROVE  Serves(socketServers[c][r], c, r)'
      <4>1. /\ socketServers'[c][r] = socketServers[c][r]
            /\ socketServers[c][r] \in Handler
            /\ Serves(socketServers[c][r], c, r)
        BY <3>1, <3>3 DEF TypeOK, SocketServersExact
      <4>2. socketServers[c][r] # h
        BY <3>1, <3>3, <4>1 DEF Serves
      <4> QED
        BY <4>1, <4>2 DEF Serves, Still
    <3>4. ASSUME NEW g \in Handler, pc'[g] \in Open
          PROVE  (socketServers[by[g]][req[g]] = g)'
      <4>1. g # h /\ pc[g] \in Open /\ by'[g] = by[g] /\ req'[g] = req[g]
        BY <2>2, <3>4 DEF Still, Open, Listed, Free
      <4>2. /\ by[g] \in Conn /\ req[g] \in Request
            /\ socketServers[by[g]][req[g]] = g
        BY <4>1, ActiveType DEF SocketServersExact, Open, Listed, Free
      <4> QED
        BY <3>1, <3>2, <4>1, <4>2
    <3> QED
      BY <3>3, <3>4 DEF SocketServersExact
  <2>3. CASE pc[h] \in Listed /\ pc'[h] = "failed" /\ UNCHANGED <<by, req, socketServers>>
    <3>1. \A g \in Handler : pc'[g] \in Open <=> pc[g] \in Open
      BY <2>3 DEF Still, Open
    <3> QED
      BY <2>3, <3>1 DEF SocketServersExact, Serves, TypeOK
  <2> QED
    BY <2>1, <2>2, <2>3
<1>6. RivalOK'
  <2> SUFFICES ASSUME NEW g \in Handler, NEW k \in Key,
                      (pc[g] \in {"ping", "awaitDelete"} /\ Stored(k) /\ map[k].tx = tx[g])'
               PROVE  (k = KeyAt(g) /\ map[k].value.client # by[g])'
    BY DEF RivalOK
  <2>1. g # h
    BY <1>0 DEF Waiting
  <2>2. Stored(k) /\ map'[k] = map[k]
    BY RemoveFacts
  <2> QED
    BY <1>1, <2>1, <2>2 DEF RivalOK, Still
<1>7. BesideOK'
  <2> SUFFICES ASSUME NEW g \in Handler, g # h, pc'[g] \notin Free PROVE BesideAt(g)'
    BY <1>0 DEF BesideOK, BesideAt, Waiting, Owning, Free
  <2>1. /\ pc[g] = pc'[g] /\ tx'[g] = tx[g] /\ pc[g] \notin Free
        /\ by'[g] = by[g] /\ req'[g] = req[g]
    BY DEF Still
  <2>2. by[g] \in Conn /\ req[g] \in Request
    BY <2>1, ActiveType
  <2>3. Mine(g)' = Mine(g) \/ Mine(g)' = None
    BY <1>1, <2>1, <2>2 DEF Mine, TypeOK
  <2>4. ASSUME pc[g] \in {"ping", "awaitDelete"}, Mine(g)' # None
        PROVE  /\ \A k \in Key : Stored(k)' => map'[k].tx # tx[g]
               /\ \A d \in deleting' : d.tx = tx[g] => pc'[Mine(g)'] \in Listed
    <3>1. /\ Mine(g)' = Mine(g) /\ Mine(g) \in Handler
          /\ \A k \in Key : Stored(k) => map[k].tx # tx[g]
          /\ \A d \in deleting : d.tx = tx[g] => pc[Mine(g)] \in Listed
      BY <2>1, <2>3, <2>4, MineFacts DEF BesideOK, BesideAt
    <3>2. tx[h] # tx[g]
      BY <3>1, OwnerFacts
    <3>3. \A d \in deleting : d.tx = tx[g] => pc'[Mine(g)] \in Listed
      BY <3>1 DEF Drained, Still, Listed
    <3> QED
      BY <3>1, <3>2, <3>3, RemoveFacts
  <2>5. ASSUME pc[g] = "retry", Mine(g)' # None PROVE pc'[Mine(g)'] \in Listed
    <3>1. pc[Mine(g)] \in Listed /\ Mine(g)' = Mine(g) /\ Mine(g) \in Handler
      BY <2>1, <2>3, <2>5, MineFacts DEF BesideOK, BesideAt
    <3>2. pc[h] = "accept"
      BY <2>5 DEF Drained
    <3> QED
      BY <3>1, <3>2 DEF Still, Listed
  <2>6. ASSUME pc[g] = "accept" PROVE Mine(g)' = None
    BY <2>3, <2>6 DEF BesideOK, BesideAt
  <2> QED
    BY <2>1, <2>4, <2>5, <2>6 DEF BesideAt
<1> QED
  BY <1>2, <1>3, <1>4, <1>5, <1>6, <1>7

\* A socket server that has failed closes: its tunnel went before.
LEMMA FailedCloseAgreement ==
  ASSUME IInv, NEW h \in Handler, pc[h] = "failed", pc'[h] \in Free, Drained,
         by[h] \in Conn, req[h] \in Request,
         \A g \in Handler : g # h => Still(g), UNCHANGED storeVars,
         socketServers' = [socketServers EXCEPT ![by[h]][req[h]] = None]
  PROVE  Agreement'
<1> USE DEF IInv, Agreement
<1>0. UNCHANGED <<map, nextTx, deleting>>
  BY DEF storeVars
<1>1. \A g \in Handler : g # h => KeyAt(g)' = KeyAt(g)
  BY StillKey
<1>2. \A c \in Conn, r \in Request :
        socketServers'[c][r] = IF c = by[h] /\ r = req[h] THEN None ELSE socketServers[c][r]
  BY DEF TypeOK
<1>3. socketServers[by[h]][req[h]] = h
  BY DEF SocketServersExact, Open
<1>4. ActiveOK'
  BY <1>0 DEF ActiveOK, Still
<1>5. TxOK'
  BY <1>0 DEF TxOK, Stored
<1>6. OwnerExact'
  <2>1. ASSUME NEW k \in Key, Stored(k) PROVE Owns(map[k].value.target, k)'
    <3>1. Owns(map[k].value.target, k) /\ map[k].value.target \in Handler
      BY <2>1, EntriesType DEF OwnerExact
    <3>2. map[k].value.target # h
      BY <3>1 DEF Owns, Owning
    <3> QED
      BY <1>0, <1>1, <3>1, <3>2 DEF Owns, Still
  <2>2. ASSUME NEW g \in Handler, pc'[g] \in Owning
        PROVE  g # h /\ pc[g] \in Owning /\ KeyAt(g)' = KeyAt(g)
    BY <1>1, <2>2 DEF Still, Owning, Free
  <2> QED
    BY <1>0, <2>1, <2>2 DEF OwnerExact, Stored
<1>7. SocketServersExact'
  <2>1. ASSUME NEW c \in Conn, NEW r \in Request, socketServers'[c][r] # None
        PROVE  Serves(socketServers[c][r], c, r)'
    <3>1. /\ socketServers'[c][r] = socketServers[c][r]
          /\ socketServers[c][r] \in Handler
          /\ Serves(socketServers[c][r], c, r)
      BY <1>2, <2>1 DEF TypeOK, SocketServersExact
    <3>2. socketServers[c][r] # h
      BY <1>2, <2>1, <3>1 DEF Serves
    <3> QED
      BY <3>1, <3>2 DEF Serves, Still
  <2>2. ASSUME NEW g \in Handler, pc'[g] \in Open
        PROVE  (socketServers[by[g]][req[g]] = g)'
    <3>1. g # h /\ pc[g] \in Open /\ by'[g] = by[g] /\ req'[g] = req[g]
      BY <2>2 DEF Still, Open, Listed, Free
    <3>2. /\ by[g] \in Conn /\ req[g] \in Request
          /\ socketServers[by[g]][req[g]] = g
      BY <3>1, ActiveType DEF SocketServersExact, Open, Listed, Free
    <3> QED
      BY <1>2, <1>3, <3>1, <3>2
  <2> QED
    BY <2>1, <2>2 DEF SocketServersExact
<1>8. RivalOK'
  <2> SUFFICES ASSUME NEW g \in Handler, NEW k \in Key,
                      pc'[g] \in {"ping", "awaitDelete"}, Stored(k), map[k].tx = tx'[g]
               PROVE  (k = KeyAt(g) /\ map[k].value.client # by[g])'
    BY <1>0 DEF RivalOK, Stored
  <2>1. g # h
    BY DEF Free
  <2> QED
    BY <1>0, <1>1, <2>1 DEF RivalOK, Still
<1>9. BesideOK'
  <2> SUFFICES ASSUME NEW g \in Handler, g # h, pc'[g] \notin Free PROVE BesideAt(g)'
    BY DEF BesideOK, BesideAt, Free
  <2>1. /\ pc[g] = pc'[g] /\ tx'[g] = tx[g] /\ pc[g] \notin Free
        /\ by'[g] = by[g] /\ req'[g] = req[g]
    BY DEF Still
  <2>2. by[g] \in Conn /\ req[g] \in Request
    BY <2>1, ActiveType
  <2>3. Mine(g)' = Mine(g) \/ Mine(g)' = None
    BY <1>2, <2>1, <2>2 DEF Mine
  <2>4. pc[g] \notin {"retry", "accept"} /\ deleting = {}
    BY DEF Drained
  <2> QED
    BY <1>0, <2>1, <2>3, <2>4 DEF BesideOK, BesideAt, Stored
<1> QED
  BY <1>4, <1>5, <1>6, <1>7, <1>8, <1>9

\* The 'delete' event of an entry resumes the handlers that wait for it.
LEMMA DeleteEventAgreement ==
  ASSUME IInv, NEW d \in deleting, DeleteEvent(d)
  PROVE  Agreement'
<1> USE DEF IInv, Agreement
<1>1. /\ UNCHANGED <<map, nextTx, by, req, tx, socketServers>>
      /\ deleting' = deleting \ {d}
      /\ \A g \in Handler : UNCHANGED <<KeyAt(g), Mine(g)>>
  BY DEF DeleteEvent, EmitDelete, tunnelVars, KeyAt, Mine
<1>2. \A g \in Handler :
        \/ pc'[g] = pc[g]
        \/ pc[g] = "awaitDelete" /\ tx[g] = d.tx /\ pc'[g] = "retry"
  BY DEF DeleteEvent
<1>3. \A g \in Handler : /\ pc'[g] \in Owning <=> pc[g] \in Owning
                         /\ pc'[g] \in Listed <=> pc[g] \in Listed
                         /\ pc'[g] \in Open <=> pc[g] \in Open
                         /\ pc'[g] \notin Free <=> pc[g] \notin Free
  BY <1>2 DEF Owning, Listed, Open, Free
<1>4. ActiveOK'
  BY <1>1, <1>3 DEF ActiveOK
<1>5. TxOK'
  BY <1>1 DEF TxOK, Stored
<1>6. OwnerExact'
  <2>1. ASSUME NEW k \in Key, Stored(k) PROVE Owns(map[k].value.target, k)'
    <3>1. Owns(map[k].value.target, k) /\ map[k].value.target \in Handler
      BY <2>1, EntriesType DEF OwnerExact
    <3> QED
      BY <1>1, <1>3, <3>1 DEF Owns
  <2> QED
    BY <1>1, <1>3, <2>1 DEF OwnerExact, Stored
<1>7. SocketServersExact'
  BY <1>1, <1>3 DEF SocketServersExact, Serves, TypeOK
<1>8. RivalOK'
  <2> SUFFICES ASSUME NEW g \in Handler, NEW k \in Key,
                      pc'[g] \in {"ping", "awaitDelete"}, Stored(k), map[k].tx = tx[g]
               PROVE  k = KeyAt(g) /\ map[k].value.client # by[g]
    BY <1>1 DEF RivalOK, Stored
  <2> QED
    BY <1>2 DEF RivalOK
<1>9. BesideOK'
  <2> SUFFICES ASSUME NEW g \in Handler, pc'[g] \notin Free PROVE BesideAt(g)'
    BY DEF BesideOK, BesideAt, Free
  <2>1. Mine(g) # None => Mine(g) \in Handler
    BY <1>3, MineFacts
  <2>2. BesideAt(g)
    BY DEF BesideOK
  <2> QED
    BY <1>1, <1>2, <1>3, <2>1, <2>2 DEF BesideAt, Stored
<1> QED
  BY <1>4, <1>5, <1>6, <1>7, <1>8, <1>9

\* The handler's socket server listens and enters the registry.
LEMMA ListeningAgreement ==
  ASSUME IInv, NEW h \in Handler, Listening(h)
  PROVE  Agreement'
<1> USE DEF IInv, Agreement
<1>0. /\ pc[h] = "accept" /\ pc' = [pc EXCEPT ![h] = "serving"]
      /\ UNCHANGED <<map, nextTx, deleting, by, req, tx>>
      /\ socketServers' = [socketServers EXCEPT ![by[h]][req[h]] = h]
  BY DEF Listening, storeVars
<1>1. /\ by[h] \in Conn /\ req[h] \in Request
      /\ Mine(h) = None
      /\ \A g \in Handler : KeyAt(g)' = KeyAt(g)
  BY <1>0, OwnerFacts DEF Owning, BesideOK, BesideAt, KeyAt
<1>2. /\ pc'[h] = "serving"
      /\ \A g \in Handler : g # h => pc'[g] = pc[g]
  BY <1>0 DEF TypeOK
<1>3. \A c \in Conn, r \in Request :
        socketServers'[c][r] = IF c = by[h] /\ r = req[h] THEN h ELSE socketServers[c][r]
  BY <1>0, <1>1 DEF TypeOK
<1>4. ActiveOK'
  BY <1>0, <1>2 DEF ActiveOK, Free
<1>5. TxOK'
  BY <1>0 DEF TxOK, Stored
<1>6. OwnerExact'
  <2>1. \A g \in Handler : pc'[g] \in Owning <=> pc[g] \in Owning
    BY <1>0, <1>2 DEF Owning
  <2>2. ASSUME NEW k \in Key, Stored(k) PROVE Owns(map[k].value.target, k)'
    <3>1. Owns(map[k].value.target, k) /\ map[k].value.target \in Handler
      BY <2>2, EntriesType DEF OwnerExact
    <3> QED
      BY <1>0, <1>1, <2>1, <3>1 DEF Owns
  <2> QED
    BY <1>0, <1>1, <2>1, <2>2 DEF OwnerExact, Stored
<1>7. SocketServersExact'
  <2>1. ASSUME NEW c \in Conn, NEW r \in Request, socketServers'[c][r] # None
        PROVE  Serves(socketServers[c][r], c, r)'
    <3>1. CASE c = by[h] /\ r = req[h]
      BY <1>0, <1>2, <1>3, <3>1 DEF Serves, Open, Listed
    <3>2. CASE ~(c = by[h] /\ r = req[h])
      <4>1. /\ socketServers'[c][r] = socketServers[c][r]
            /\ socketServers[c][r] \in Handler
            /\ Serves(socketServers[c][r], c, r)
        BY <1>3, <2>1, <3>2 DEF TypeOK, SocketServersExact
      <4> QED
        BY <1>0, <1>2, <4>1 DEF Serves, Open, Listed
    <3> QED
      BY <3>1, <3>2
  <2>2. ASSUME NEW g \in Handler, pc'[g] \in Open
        PROVE  (socketServers[by[g]][req[g]] = g)'
    <3>1. CASE g = h
      BY <1>0, <1>1, <1>3, <3>1
    <3>2. CASE g # h
      <4>1. pc[g] \in Open /\ Mine(g) = g /\ by[g] \in Conn /\ req[g] \in Request
        BY <1>2, <2>2, <3>2, ActiveType DEF SocketServersExact, Mine, Open, Listed, Free
      <4>2. ~(by[g] = by[h] /\ req[g] = req[h])
        BY <1>1, <4>1, NoneIsNoEntry DEF Mine
      <4> QED
        BY <1>0, <1>3, <4>1, <4>2 DEF Mine
    <3> QED
      BY <3>1, <3>2
  <2> QED
    BY <2>1, <2>2 DEF SocketServersExact
<1>8. RivalOK'
  <2> SUFFICES ASSUME NEW g \in Handler, NEW k \in Key,
                      pc'[g] \in {"ping", "awaitDelete"}, Stored(k), map[k].tx = tx[g]
               PROVE  k = KeyAt(g) /\ map[k].value.client # by[g]
    BY <1>0, <1>1 DEF RivalOK, Stored
  <2> QED
    BY <1>2 DEF RivalOK
<1>9. BesideOK'
  <2> SUFFICES ASSUME NEW g \in Handler, g # h, pc'[g] \notin Free PROVE BesideAt(g)'
    BY <1>2 DEF BesideOK, BesideAt, Free
  <2>1. pc'[g] = pc[g] /\ pc[g] \notin Free /\ by[g] \in Conn /\ req[g] \in Request
    BY <1>2, ActiveType
  <2>2. CASE by[g] = by[h] /\ req[g] = req[h]
    <3>1. Mine(g)' = h /\ KeyAt(g) = KeyAt(h)
      BY <1>0, <1>3, <2>1, <2>2 DEF Mine, KeyAt
    <3>2. pc[g] # "accept"
      BY <1>0, <3>1, OwnerFacts DEF Owning
    <3>3. ASSUME pc[g] \in {"ping", "awaitDelete"}, NEW k \in Key, Stored(k)
          PROVE  map[k].tx # tx[g]
      BY <1>0, <2>2, <3>1, <3>3, OwnerFacts DEF RivalOK, Owning
    <3> QED
      BY <1>0, <1>2, <2>1, <3>1, <3>2, <3>3 DEF BesideAt, Stored, Listed
  <2>3. CASE ~(by[g] = by[h] /\ req[g] = req[h])
    <3>1. Mine(g)' = Mine(g) /\ (Mine(g) # None => Mine(g) \in Handler)
      BY <1>0, <1>3, <2>1, <2>3, MineFacts DEF Mine
    <3>2. BesideAt(g)
      BY DEF BesideOK
    <3> QED
      BY <1>0, <1>2, <2>1, <3>1, <3>2 DEF BesideAt, Stored, Listed
  <2> QED
    BY <2>2, <2>3
<1> QED
  BY <1>4, <1>5, <1>6, <1>7, <1>8, <1>9

LEMMA NextAgreement ==
  ASSUME IInv, Next
  PROVE  Agreement'
<1>0. TypeOK'
  BY NextType DEF IInv, Agreement
<1>0a. TypeOK /\ StoreTypeOK
  BY DEF IInv, TypeOK
<1>1. ASSUME NEW r \in adding, Indexed(r) PROVE Agreement'
  BY <1>0, <1>1, ShiftAgreement DEF Indexed, AddToIndex, handlerVars, tunnelVars, Shifts, Still
<1>2. ASSUME NEW r \in deleting, DeleteEvent(r) PROVE Agreement'
  BY <1>2, DeleteEventAgreement
<1>3. ASSUME NEW h \in Handler, Retry(h) PROVE Agreement'
  <2>1. by[h] \in Conn /\ req[h] \in Request
    BY <1>3, ActiveType DEF Retry, IInv, Agreement, Free
  <2>2. Mine(h) # None => pc[Mine(h)] \in Listed
    BY <1>3 DEF Retry, IInv, Agreement, BesideOK, BesideAt
  <2> QED
    BY <1>3, <2>1, <2>2, TrySetAgreement DEF Retry, Mine, Waiting
<1>4. ASSUME NEW h \in Handler, Listening(h) PROVE Agreement'
  BY <1>4, ListeningAgreement
<1>5. ASSUME NEW h \in Handler, ListenFails(h) PROVE Agreement'
  <2>1. pc'[h] = "dropped" /\ \A g \in Handler : g # h => Still(g)
    BY <1>0a, <1>5 DEF ListenFails, Settle, Still, TypeOK
  <2> QED
    BY <1>5, <2>1, LoseAgreement DEF ListenFails, tunnelVars, Owning, Free
<1>6. ASSUME NEW c \in Conn, NEW r \in Request, NEW h \in Handler, Forward(c, r, h)
      PROVE  Agreement'
  <2>1. CASE Settle(h, "rejected") /\ UNCHANGED storeVars
    BY <1>6, <2>1, RejectAgreement DEF Forward, Free
  <2>2. CASE socketServers[c][r] = None /\ TrySet(h, c, r)
    BY <1>6, <2>2, TrySetAgreement DEF Forward
  <2> QED
    BY <1>6, <2>1, <2>2 DEF Forward
<1>7. ASSUME NEW c \in Conn, NEW r \in Request, Cancel(c, r) PROVE Agreement'
  <2>1. \A g \in Handler : Shifts(g)
    BY <1>0a, <1>7 DEF Cancel, Shifts, Still, Listed, TypeOK
  <2> QED
    BY <1>0, <1>7, <2>1, ShiftAgreement DEF Cancel, storeVars, tunnelVars
<1>8. ASSUME NEW h \in Handler, DeleteTimeout(h) PROVE Agreement'
  BY <1>8, RejectAgreement DEF DeleteTimeout, Waiting, Free
<1>9. ASSUME NEW h \in Handler, SocketError(h) PROVE Agreement'
  <2>1. /\ pc'[h] = "failed" /\ pc[h] \in Owning /\ pc[h] \in Listed
        /\ StoreDelete(KeyAt(h), tx[h])
        /\ \A g \in Handler : g # h => Still(g)
    BY <1>0a, <1>9 DEF SocketError, CleanupTunnel, Still, Owning, Listed, TypeOK
  <2> QED
    BY <1>9, <2>1, LoseAgreement DEF SocketError
<1>10. ASSUME NEW h \in Handler, SocketClose(h) PROVE Agreement'
  <2>1. /\ pc'[h] = "released" /\ \A g \in Handler : g # h => Still(g)
        /\ by[h] \in Conn /\ req[h] \in Request /\ Drained
        /\ socketServers' = [socketServers EXCEPT ![by[h]][req[h]] = None]
    BY <1>0a, <1>10, ActiveType DEF SocketClose, Settle, Still, Open, Listed, Free, TypeOK,
       IInv, Agreement
  <2>2. CASE pc[h] = "failed"
    BY <1>10, <2>1, <2>2, FailedCloseAgreement DEF SocketClose, Free
  <2>3. CASE pc[h] # "failed"
    <3>1. pc[h] \in Listed /\ pc[h] \in Owning /\ StoreDelete(KeyAt(h), tx[h])
      BY <1>10, <2>3 DEF SocketClose, Open, Listed, Owning, CleanupTunnel
    <3> QED
      BY <2>1, <3>1, LoseAgreement DEF Free
  <2> QED
    BY <2>2, <2>3
<1>11. ASSUME NEW c \in Conn, Connect(c) \/ GoMute(c) \/ PingExpires(c) PROVE Agreement'
  BY <1>0, <1>11, ShiftAgreement DEF Connect, GoMute, PingExpires,
     storeVars, handlerVars, tunnelVars, Shifts, Still
<1>12. ASSUME NEW c \in Conn, PingAnswered(c) PROVE Agreement'
  <2>1. \A g \in Handler : Shifts(g)
    BY <1>12 DEF PingAnswered, Pinging, Shifts, Still, Free
  <2> QED
    BY <1>0, <1>12, <2>1, ShiftAgreement DEF PingAnswered, storeVars, tunnelVars
<1>13. ASSUME NEW c \in Conn, PingTimeout(c) PROVE Agreement'
  <2>1. \A g \in Handler : Shifts(g)
    BY <1>13 DEF PingTimeout, PingFails, Pinging, Shifts, Still
  <2> QED
    BY <1>0, <1>13, <2>1, ShiftAgreement DEF PingTimeout, storeVars, tunnelVars
<1>14. ASSUME NEW c \in Conn, ClientError(c) PROVE Agreement'
  <2>1. \A g \in Handler : Shifts(g)
    BY <1>14 DEF ClientError, PingFails, Pinging, Shifts, Still, handlerVars
  <2> QED
    BY <1>0, <1>14, <2>1, ShiftAgreement DEF ClientError, storeVars, tunnelVars
<1>15. ASSUME NEW c \in Conn, ClientEnd(c) \/ ClientClose(c) PROVE Agreement'
  <2>1. \A g \in Handler : Shifts(g)
    BY <1>15 DEF ClientEnd, ClientClose, DestroySocketServers, Shifts, Still, Listed
  <2> QED
    BY <1>0, <1>15, <2>1, ShiftAgreement DEF ClientEnd, ClientClose, storeVars, tunnelVars
<1> QED
  BY <1>1, <1>2, <1>3, <1>4, <1>5, <1>6, <1>7, <1>8, <1>9, <1>10, <1>11, <1>12,
     <1>13, <1>14, <1>15 DEF Next, Microtask

LEMMA StutterIInv == ASSUME IInv, UNCHANGED vars PROVE IInv'
<1>1. TypeOK'
  BY UnchangedType, TypeOKParts, TypeOKPartsNext DEF IInv, vars
<1>2. Agreement'
  BY <1>1, ShiftAgreement DEF vars, storeVars, handlerVars, tunnelVars, Shifts, Still
<1> QED
  BY <1>1, <1>2 DEF IInv

LEMMA Invariance == Spec => []IInv
<1>1. Init => IInv
  BY InitType, InitAgreement DEF IInv
<1>2. IInv /\ [Next]_vars => IInv'
  BY NextType, NextAgreement, StutterIInv DEF IInv, Agreement
<1> QED
  BY <1>1, <1>2, PTL DEF Spec

-----------------------------------------------------------------------------
(* Theorems *)

\* Every variable keeps its type in every state of the tunnel server.
THEOREM TypeCorrect == Spec => []TypeOK
<1>1. IInv => TypeOK
  BY DEF IInv
<1> QED
  BY <1>1, Invariance, PTL

\* A stored tunnel always belongs to a handler whose socket server has not
\* closed, and the other way around: ssh/index.ts never leaves a route to a
\* closed socket, nor removes the tunnel of a successor.
THEOREM OwnerCorrect == Spec => []OwnerExact
<1>1. IInv => OwnerExact
  BY DEF IInv, Agreement
<1> QED
  BY <1>1, Invariance, PTL

\* The map of socket servers of base-server.ts holds exactly the servers
\* that have not closed.
THEOREM SocketServersCorrect == Spec => []SocketServersExact
<1>1. IInv => SocketServersExact
  BY DEF IInv, Agreement
<1> QED
  BY <1>1, Invariance, PTL

\* The step of NoSteal.
KeepsOrReleases ==
  \A k \in Key : (Stored(k) /\ map'[k] # map[k]) =>
    /\ map'[k] = None
    /\ pc'[map[k].value.target] \in {"dropped", "failed", "released"}

LEMMA RemovalReleases ==
  ASSUME IInv, NEW h \in Handler, pc[h] \in Owning, StoreDelete(KeyAt(h), tx[h]),
         pc'[h] \in {"dropped", "failed", "released"}
  PROVE  KeepsOrReleases
<1> SUFFICES ASSUME NEW k \in Key, Stored(k), map'[k] # map[k]
             PROVE  map'[k] = None /\ map[k].value.target = h
  BY DEF KeepsOrReleases
<1>1. k = KeyAt(h)
  BY RemoveFacts
<1> QED
  BY <1>1, RemoveFacts, OwnerFacts DEF Stored

LEMMA SetReleasesNothing ==
  ASSUME IInv, NEW c \in Conn, NEW r \in Request, NEW h, TrySet(h, c, r)
  PROVE  KeepsOrReleases
<1> DEFINE k == KeyOf[ClientOf[c]][r]
<1>1. CASE Stored(k)
  BY <1>1 DEF TrySet, storeVars, KeepsOrReleases
<1>2. CASE ~Stored(k)
  <2>1. StoreSet(k, [client |-> c, target |-> h])
    BY <1>2 DEF TrySet
  <2>2. \A l \in Key : l # k => map'[l] = map[l]
    BY <2>1 DEF StoreSet, IInv, TypeOK, StoreTypeOK
  <2> QED
    BY <1>2, <2>2 DEF KeepsOrReleases
<1> QED
  BY <1>1, <1>2

LEMMA NextKeepsOrReleases ==
  ASSUME IInv, Next
  PROVE  KeepsOrReleases
<1>1. ASSUME UNCHANGED map PROVE KeepsOrReleases
  BY <1>1 DEF KeepsOrReleases
<1>2. ASSUME NEW h \in Handler, Retry(h) PROVE KeepsOrReleases
  <2>1. by[h] \in Conn /\ req[h] \in Request
    BY <1>2, ActiveType DEF Retry, IInv, Agreement, Free
  <2> QED
    BY <1>2, <2>1, SetReleasesNothing DEF Retry
<1>3. ASSUME NEW c \in Conn, NEW r \in Request, NEW h \in Handler, Forward(c, r, h)
      PROVE  KeepsOrReleases
  BY <1>1, <1>3, SetReleasesNothing DEF Forward, storeVars
<1>4. ASSUME NEW h \in Handler, ListenFails(h) PROVE KeepsOrReleases
  <2>1. pc[h] \in Owning /\ pc'[h] = "dropped" /\ StoreDelete(KeyAt(h), tx[h])
    BY <1>4 DEF ListenFails, Settle, Owning, IInv, TypeOK
  <2> QED
    BY <2>1, RemovalReleases
<1>5. ASSUME NEW h \in Handler, SocketError(h) PROVE KeepsOrReleases
  <2>1. pc[h] \in Owning /\ pc'[h] = "failed" /\ StoreDelete(KeyAt(h), tx[h])
    BY <1>5 DEF SocketError, CleanupTunnel, Owning, IInv, TypeOK
  <2> QED
    BY <2>1, RemovalReleases
<1>6. ASSUME NEW h \in Handler, SocketClose(h) PROVE KeepsOrReleases
  <2>1. CASE pc[h] = "failed"
    BY <1>1, <1>6, <2>1 DEF SocketClose, storeVars
  <2>2. CASE pc[h] # "failed"
    <3>1. pc[h] \in Owning /\ pc'[h] = "released" /\ StoreDelete(KeyAt(h), tx[h])
      BY <1>6, <2>2 DEF SocketClose, CleanupTunnel, Settle, Open, Listed, Owning, IInv, TypeOK
    <3> QED
      BY <3>1, RemovalReleases
  <2> QED
    BY <2>1, <2>2
<1>7. ASSUME NEW r, Indexed(r) \/ DeleteEvent(r) PROVE UNCHANGED map
  BY <1>7 DEF Indexed, DeleteEvent, AddToIndex, EmitDelete
<1>8. ASSUME NEW h, Listening(h) \/ DeleteTimeout(h) PROVE UNCHANGED map
  BY <1>8 DEF Listening, DeleteTimeout, storeVars
<1>9. ASSUME NEW c, NEW r, Cancel(c, r) PROVE UNCHANGED map
  BY <1>9 DEF Cancel, storeVars
<1>10. ASSUME NEW c, \/ Connect(c) \/ GoMute(c)
                     \/ PingAnswered(c) \/ PingTimeout(c) \/ PingExpires(c)
                     \/ ClientError(c) \/ ClientEnd(c) \/ ClientClose(c)
       PROVE  UNCHANGED map
  BY <1>10 DEF Connect, GoMute, PingAnswered, PingTimeout, PingExpires,
     ClientError, ClientEnd, ClientClose, storeVars
<1> QED
  BY <1>1, <1>2, <1>3, <1>4, <1>5, <1>6, <1>7, <1>8, <1>9, <1>10 DEF Next, Microtask

\* A tunnel is never taken from a socket server that goes on listening,
\* whatever takeovers, disconnections and failures interleave.
THEOREM NeverStolen == Spec => NoSteal
<1>1. IInv /\ [Next]_vars => [KeepsOrReleases]_vars
  BY NextKeepsOrReleases
<1>2. NoSteal <=> [][KeepsOrReleases]_vars
  BY DEF NoSteal, KeepsOrReleases
<1> QED
  BY <1>1, <1>2, Invariance, PTL DEF Spec

-----------------------------------------------------------------------------
(* The server's use of the store, and what hello lists *)

\* What a step of the server does to the store.
StoreChanges ==
  \/ UNCHANGED storeVars
  \/ \E k \in Key, v \in Value : StoreSet(k, v)
  \/ \E r : AddToIndex(r) \/ EmitDelete(r)
  \/ \E k \in Key, t \in Nat : StoreDelete(k, t)

LEMMA TrySetChanges ==
  ASSUME NEW h \in Handler, NEW c \in Conn, NEW r \in Request, TrySet(h, c, r)
  PROVE  StoreChanges
<1> DEFINE k == KeyOf[ClientOf[c]][r]
<1>1. k \in Key /\ [client |-> c, target |-> h] \in Value
  BY KeyType, ServerAssumption
<1>2. UNCHANGED storeVars \/ StoreSet(k, [client |-> c, target |-> h])
  BY DEF TrySet
<1> QED
  BY <1>1, <1>2 DEF StoreChanges

\* No handler that works on a key is without one.
LEMMA RemovalChanges ==
  ASSUME IInv, NEW h \in Handler, pc[h] \notin Free, StoreDelete(KeyAt(h), tx[h])
  PROVE  StoreChanges
<1>1. KeyAt(h) \in Key /\ tx[h] \in Nat
  BY ActiveType DEF IInv, Agreement, TypeOK
<1> QED
  BY <1>1 DEF StoreChanges

LEMMA NextChanges ==
  ASSUME IInv, Next
  PROVE  StoreChanges
<1>1. ASSUME UNCHANGED storeVars PROVE StoreChanges
  BY <1>1 DEF StoreChanges
<1>2. ASSUME NEW h \in Handler, Retry(h) PROVE StoreChanges
  <2>1. by[h] \in Conn /\ req[h] \in Request
    BY <1>2, ActiveType DEF Retry, IInv, Agreement, Free
  <2> QED
    BY <1>2, <2>1, TrySetChanges DEF Retry
<1>3. ASSUME NEW c \in Conn, NEW r \in Request, NEW h \in Handler, Forward(c, r, h)
      PROVE  StoreChanges
  BY <1>1, <1>3, TrySetChanges DEF Forward
<1>4. ASSUME NEW h \in Handler, ListenFails(h) PROVE StoreChanges
  BY <1>4, RemovalChanges DEF ListenFails, Free
<1>5. ASSUME NEW h \in Handler, SocketError(h) PROVE StoreChanges
  BY <1>5, RemovalChanges DEF SocketError, CleanupTunnel, Free
<1>6. ASSUME NEW h \in Handler, SocketClose(h) PROVE StoreChanges
  <2>1. pc[h] \notin Free
    BY <1>6 DEF SocketClose, Open, Listed, Free
  <2> QED
    BY <1>1, <1>6, <2>1, RemovalChanges DEF SocketClose, CleanupTunnel, storeVars
<1>7. ASSUME NEW r, Indexed(r) \/ DeleteEvent(r) PROVE StoreChanges
  BY <1>7 DEF Indexed, DeleteEvent, StoreChanges
<1>8. ASSUME NEW h, Listening(h) \/ DeleteTimeout(h) PROVE UNCHANGED storeVars
  BY <1>8 DEF Listening, DeleteTimeout
<1>9. ASSUME NEW c, NEW r, Cancel(c, r) PROVE UNCHANGED storeVars
  BY <1>9 DEF Cancel
<1>10. ASSUME NEW c, \/ Connect(c) \/ GoMute(c)
                     \/ PingAnswered(c) \/ PingTimeout(c) \/ PingExpires(c)
                     \/ ClientError(c) \/ ClientEnd(c) \/ ClientClose(c)
       PROVE  UNCHANGED storeVars
  BY <1>10 DEF Connect, GoMute, PingAnswered, PingTimeout, PingExpires,
     ClientError, ClientEnd, ClientClose
<1> QED
  BY <1>1, <1>2, <1>3, <1>4, <1>5, <1>6, <1>7, <1>8, <1>9, <1>10 DEF Next, Microtask

\* Whatever the server does, its index has exactly the tunnels that were announced
\* as set and not yet as deleted (tunnel-store/index.ts, used by ssh/index.ts).
THEOREM IndexCorrect == Spec => []IndexExact
<1>1. Init => StoreInv
  BY InitHasInv DEF Init
<1>2. IInv /\ StoreInv /\ [Next]_vars => StoreInv'
  <2> SUFFICES ASSUME IInv, StoreInv, [Next]_vars PROVE StoreInv'
    OBVIOUS
  <2>1. StoreChanges
    BY NextChanges DEF vars, StoreChanges
  <2> QED
    BY <2>1, SetKeepsInv, AddKeepsInv, EmitKeepsInv, DeleteKeepsInv, StutterKeepsInv
    DEF StoreChanges
<1>3. StoreInv => IndexExact
  BY DEF StoreInv
<1> QED
  BY <1>1, <1>2, <1>3, Invariance, PTL DEF Spec

\* The handlers that hello lists stay the same, with their connections and requests.
ListedStill ==
  \A g \in Handler :
    /\ pc'[g] \in Listed <=> pc[g] \in Listed
    /\ pc[g] \in Listed => by'[g] = by[g] /\ req'[g] = req[g]

LEMMA StillHello ==
  ASSUME HelloExact, ListedStill, UNCHANGED tunnels
  PROVE  HelloExact'
<1> SUFFICES ASSUME NEW c \in Conn
             PROVE  tunnels'[c] = {req'[h] : h \in {g \in Handler : by'[g] = c /\ pc'[g] \in Listed}}
  BY DEF HelloExact, HandlersOf
<1>1. tunnels[c] = {req[h] : h \in {g \in Handler : by[g] = c /\ pc[g] \in Listed}}
  BY DEF HelloExact, HandlersOf
<1>2. \A g \in Handler : (by'[g] = c /\ pc'[g] \in Listed) <=> (by[g] = c /\ pc[g] \in Listed)
  BY DEF ListedStill
<1>3. \A g \in Handler : pc[g] \in Listed => req'[g] = req[g]
  BY DEF ListedStill
<1> QED
  BY <1>1, <1>2, <1>3

\* A handler that stops being listed takes its request off the list: no other one
\* of its connection has that request.
LEMMA RemovalHello ==
  ASSUME IInv, HelloExact, NEW h \in Handler, pc[h] \in Listed, pc'[h] \notin Listed,
         \A g \in Handler \ {h} : pc'[g] = pc[g] /\ by'[g] = by[g] /\ req'[g] = req[g],
         tunnels' = [tunnels EXCEPT ![by[h]] = @ \ {req[h]}]
  PROVE  HelloExact'
<1> SUFFICES ASSUME NEW c \in Conn
             PROVE  tunnels'[c] = {req'[g] : g \in {g \in Handler : by'[g] = c /\ pc'[g] \in Listed}}
  BY DEF HelloExact, HandlersOf
<1>1. tunnels[c] = {req[g] : g \in {g \in Handler : by[g] = c /\ pc[g] \in Listed}}
  BY DEF HelloExact, HandlersOf
<1>2. \A g \in Handler \ {h} : pc[g] \in Listed /\ by[g] = by[h] => req[g] # req[h]
  BY DEF IInv, Agreement, SocketServersExact, Open
<1>3. tunnels \in [Conn -> SUBSET Request]
  BY DEF IInv, TypeOK
<1>4. CASE by[h] = c
  BY <1>1, <1>2, <1>3, <1>4
<1>5. CASE by[h] # c
  BY <1>1, <1>3, <1>5
<1> QED
  BY <1>4, <1>5

LEMMA ListeningHello ==
  ASSUME IInv, HelloExact, NEW h \in Handler, Listening(h)
  PROVE  HelloExact'
<1>1. /\ pc[h] = "accept" /\ pc' = [pc EXCEPT ![h] = "serving"] /\ UNCHANGED <<by, req>>
      /\ tunnels' = [tunnels EXCEPT ![by[h]] = @ \cup {req[h]}]
      /\ pc \in [Handler -> Waiting \cup Owning \cup Open \cup Free]
      /\ tunnels \in [Conn -> SUBSET Request]
  BY DEF Listening, IInv, TypeOK
<1>2. pc[h] \notin Listed /\ pc'[h] \in Listed /\ \A g \in Handler \ {h} : pc'[g] = pc[g]
  BY <1>1 DEF Listed
<1> SUFFICES ASSUME NEW c \in Conn
             PROVE  tunnels'[c] = {req'[g] : g \in {g \in Handler : by'[g] = c /\ pc'[g] \in Listed}}
  BY DEF HelloExact, HandlersOf
<1>3. tunnels[c] = {req[g] : g \in {g \in Handler : by[g] = c /\ pc[g] \in Listed}}
  BY DEF HelloExact, HandlersOf
<1>4. CASE by[h] = c
  BY <1>1, <1>2, <1>3, <1>4
<1>5. CASE by[h] # c
  BY <1>1, <1>2, <1>3, <1>5
<1> QED
  BY <1>4, <1>5

\* The slot of a handler that is not listed is filled, suspended or freed.
LEMMA SlotHello ==
  ASSUME IInv, HelloExact, NEW h \in Handler, pc[h] \notin Listed, UNCHANGED tunnels,
         \/ \E how \in Free : Settle(h, how)
         \/ \E c \in Conn, r \in Request : TrySet(h, c, r)
  PROVE  HelloExact'
<1>0. DOMAIN pc = Handler /\ DOMAIN by = Handler /\ DOMAIN req = Handler
  BY DEF IInv, TypeOK
<1>a. ASSUME NEW at, at \notin Listed, NEW c, NEW r,
             pc' = [pc EXCEPT ![h] = at], by' = [by EXCEPT ![h] = c], req' = [req EXCEPT ![h] = r]
      PROVE  /\ pc'[h] \notin Listed
             /\ \A g \in Handler \ {h} : pc'[g] = pc[g] /\ by'[g] = by[g] /\ req'[g] = req[g]
  BY <1>0, <1>a
<1>b. \A how \in Free : how \notin Listed
  BY DEF Free, Listed
<1>c. "accept" \notin Listed /\ "ping" \notin Listed /\ "awaitDelete" \notin Listed
  BY DEF Listed
<1>d. "rejected" \in Free
  BY DEF Free
<1>e. ASSUME NEW how \in Free, Settle(h, how)
      PROVE  /\ pc'[h] \notin Listed
             /\ \A g \in Handler \ {h} : pc'[g] = pc[g] /\ by'[g] = by[g] /\ req'[g] = req[g]
  BY <1>a, <1>b, <1>e DEF Settle
<1>f. ASSUME NEW at, at \notin Listed, NEW c, NEW r, NEW other, NEW t, Suspend(h, c, r, at, other, t)
      PROVE  /\ pc'[h] \notin Listed
             /\ \A g \in Handler \ {h} : pc'[g] = pc[g] /\ by'[g] = by[g] /\ req'[g] = req[g]
  BY <1>a, <1>f DEF Suspend
<1>1. pc'[h] \notin Listed
      /\ \A g \in Handler \ {h} : pc'[g] = pc[g] /\ by'[g] = by[g] /\ req'[g] = req[g]
  BY <1>c, <1>d, <1>e, <1>f DEF TrySet
<1>2. ListedStill
  BY <1>1 DEF ListedStill
<1> QED
  BY <1>2, StillHello

LEMMA NextHello ==
  ASSUME IInv, HelloExact, Next
  PROVE  HelloExact'
<1> USE DEF Listed
<1>0. pc \in [Handler -> Waiting \cup Owning \cup Open \cup Free]
  BY DEF IInv, TypeOK
<1>1. ASSUME NEW r, Indexed(r) PROVE HelloExact'
  BY <1>1, StillHello DEF Indexed, handlerVars, tunnelVars, ListedStill
<1>2. ASSUME NEW r, DeleteEvent(r) PROVE HelloExact'
  BY <1>0, <1>2, StillHello DEF DeleteEvent, tunnelVars, ListedStill
<1>3. ASSUME NEW h \in Handler, Retry(h) PROVE HelloExact'
  <2>1. by[h] \in Conn /\ req[h] \in Request
    BY <1>3, ActiveType DEF Retry, IInv, Agreement, Free
  <2> QED
    BY <1>3, <2>1, SlotHello DEF Retry, tunnelVars
<1>4. ASSUME NEW h \in Handler, Listening(h) PROVE HelloExact'
  BY <1>4, ListeningHello
<1>5. ASSUME NEW h \in Handler, ListenFails(h) \/ DeleteTimeout(h) PROVE HelloExact'
  BY <1>5, SlotHello DEF ListenFails, DeleteTimeout, tunnelVars, Free
<1>6. ASSUME NEW c \in Conn, NEW r \in Request, NEW h \in Handler, Forward(c, r, h)
      PROVE  HelloExact'
  BY <1>6, SlotHello DEF Forward, tunnelVars, Free
<1>7. ASSUME NEW c \in Conn, NEW r \in Request, Cancel(c, r) PROVE HelloExact'
  BY <1>0, <1>7, StillHello DEF Cancel, tunnelVars, ListedStill
<1>8. ASSUME NEW h \in Handler, SocketError(h) PROVE HelloExact'
  BY <1>0, <1>8, RemovalHello DEF SocketError, CleanupTunnel
<1>9. ASSUME NEW h \in Handler, SocketClose(h) PROVE HelloExact'
  <2>1. Settle(h, "released") /\ pc'[h] \notin Listed
        /\ \A g \in Handler \ {h} : pc'[g] = pc[g] /\ by'[g] = by[g] /\ req'[g] = req[g]
    BY <1>9 DEF SocketClose, Settle, IInv, TypeOK
  <2>2. CASE pc[h] = "failed"
    BY <1>9, <2>1, <2>2, SlotHello DEF SocketClose, Free
  <2>3. CASE pc[h] # "failed"
    BY <1>9, <2>1, <2>3, RemovalHello DEF SocketClose, CleanupTunnel, Open
  <2> QED
    BY <2>2, <2>3
<1>10. ASSUME NEW c \in Conn, Connect(c) \/ GoMute(c) \/ PingExpires(c) PROVE HelloExact'
  BY <1>10, StillHello DEF Connect, GoMute, PingExpires, handlerVars, tunnelVars, ListedStill
<1>11. ASSUME NEW c \in Conn, PingAnswered(c) PROVE HelloExact'
  BY <1>0, <1>11, StillHello DEF PingAnswered, Pinging, tunnelVars, ListedStill
<1>12. ASSUME NEW c \in Conn, PingTimeout(c) \/ ClientError(c) PROVE HelloExact'
  BY <1>0, <1>12, StillHello
  DEF PingTimeout, ClientError, PingFails, Pinging, handlerVars, tunnelVars, ListedStill
<1>13. ASSUME NEW c \in Conn, ClientEnd(c) \/ ClientClose(c) PROVE HelloExact'
  BY <1>0, <1>13, StillHello
  DEF ClientEnd, ClientClose, DestroySocketServers, tunnelVars, ListedStill
<1> QED
  BY <1>1, <1>2, <1>3, <1>4, <1>5, <1>6, <1>7, <1>8, <1>9, <1>10, <1>11, <1>12, <1>13
  DEF Next, Microtask

\* hello lists exactly the requests of a connection whose tunnels are stored and
\* listening, whatever connections, takeovers and failures interleave
\* (ssh/index.ts:63-107).
THEOREM HelloCorrect == Spec => []HelloExact
<1>1. Init => HelloExact
  BY DEF Init, HelloExact, HandlersOf, Listed
<1>2. IInv /\ HelloExact /\ [Next]_vars => HelloExact'
  <2>1. ASSUME HelloExact, UNCHANGED vars PROVE HelloExact'
    BY <2>1, StillHello DEF vars, handlerVars, tunnelVars, ListedStill
  <2> QED
    BY <2>1, NextHello
<1> QED
  BY <1>1, <1>2, Invariance, PTL DEF Spec

-----------------------------------------------------------------------------
(* Routing *)

\* The handler waits for the same key, or for none, as it did.
AsksOn(g) ==
  \/ Still(g)
  \/ pc[g] \notin Waiting /\ pc'[g] \notin Waiting
  \/ pc[g] \in Waiting /\ pc'[g] \in Waiting /\ by'[g] = by[g] /\ req'[g] = req[g]

AskingAt(g) == IF pc[g] \in Waiting THEN KeyAt(g) ELSE None

LEMMA AsksOnKey ==
  ASSUME NEW g \in Handler, AsksOn(g)
  PROVE  AskingAt(g)' = AskingAt(g)
BY StillKey DEF AsksOn, Still, AskingAt, KeyAt

LEMMA AskingDef == asking = [g \in Handler |-> AskingAt(g)]
BY DEF asking, AskingAt

LEMMA AskingDefNext == asking' = [g \in Handler |-> AskingAt(g)']
BY DEF asking, AskingAt

LEMMA AskingSame ==
  ASSUME \A g \in Handler : AsksOn(g)
  PROVE  UNCHANGED asking
BY AsksOnKey, AskingDef, AskingDefNext

\* One handler changes what it waits for.
LEMMA AskingMoves ==
  ASSUME NEW h \in Handler, \A g \in Handler : g # h => AsksOn(g)
  PROVE  asking' = [asking EXCEPT ![h] = AskingAt(h)']
BY AsksOnKey, AskingDef, AskingDefNext

LEMMA RouteSame == UNCHANGED map => UNCHANGED route
BY DEF route, Stored

\* What TrySet does to the route of its key.
LEMMA RouteGranted ==
  ASSUME TypeOK, NEW k \in Key, NEW v \in Value, StoreSet(k, v)
  PROVE  route[k] = None /\ route' = [route EXCEPT ![k] = v.target]
<1> DEFINE e == [tx |-> nextTx, value |-> v]
<1>1. map' = [map EXCEPT ![k] = e] /\ e # None /\ ~Stored(k)
  <2>1. e \in Entry
    BY DEF Entry, TypeOK, StoreTypeOK
  <2> QED
    BY <2>1, NoneIsNoEntry DEF StoreSet
<1>2. \A l \in Key : map'[l] = IF l = k THEN e ELSE map[l]
  BY <1>1 DEF TypeOK, StoreTypeOK
<1>3. \A l \in Key : route'[l] = IF l = k THEN v.target ELSE route[l]
  BY <1>1, <1>2 DEF route, Stored
<1> QED
  BY <1>1, <1>3 DEF route

\* A tunnel that its owner deletes gives its route back.
LEMMA RouteReleased ==
  ASSUME IInv, NEW h \in Handler, pc[h] \in Owning, StoreDelete(KeyAt(h), tx[h]),
         \A g \in Handler : AsksOn(g)
  PROVE  \E k \in Key : Routing!Release(k)
<1> DEFINE k == KeyAt(h)
<1>1. k \in Key /\ Stored(k) /\ route[k] # None
  BY OwnerFacts, NoneIsNoEntry DEF route
<1>2. \A l \in Key : /\ Stored(l)' <=> Stored(l) /\ l # k
                     /\ l # k => map'[l] = map[l]
  BY RemoveFacts
<1>3. \A l \in Key : route'[l] = IF l = k THEN None ELSE route[l]
  BY <1>1, <1>2 DEF route
<1>4. route' = [route EXCEPT ![k] = None]
  BY <1>3 DEF route
<1> QED
  BY <1>1, <1>4, AskingSame DEF Routing!Release

\* A handler that takes a request, or retries one, holds no route, and waits
\* at most for the key that it tries to set.
LEMMA Unbound ==
  ASSUME IInv, NEW h \in Handler, pc[h] \in Free \cup Waiting
  PROVE  \A k \in Key : route[k] # h
BY NoneIsNoEntry DEF IInv, Agreement, OwnerExact, Owns, route, Free, Waiting, Owning, Stored

LEMMA TrySetRoutes ==
  ASSUME IInv, NEW h \in Handler, NEW c \in Conn, NEW r \in Request,
         TrySet(h, c, r),
         pc[h] \in Free \/ (pc[h] \in Waiting /\ by[h] = c /\ req[h] = r)
  PROVE  Routing!RoutingNext \/ UNCHANGED <<route, asking>>
<1> DEFINE k == KeyOf[ClientOf[c]][r]
<1>0. TypeOK /\ k \in Key /\ [client |-> c, target |-> h] \in Value
  BY KeyType, ServerAssumption DEF IInv
<1>1. AskingAt(h) = IF pc[h] \in Waiting THEN k ELSE None
  BY DEF AskingAt, KeyAt, Free, Waiting
<1>2. asking[h] = AskingAt(h) /\ \A l \in Key : route[l] # h
  BY AskingDef, Unbound
<1>3. pc \in [Handler -> Waiting \cup Owning \cup Open \cup Free]
      /\ by \in [Handler -> Conn \cup {None}] /\ req \in [Handler -> Request \cup {None}]
  BY <1>0 DEF TypeOK
<1>4. CASE ~Stored(k)
  <2>1. StoreSet(k, [client |-> c, target |-> h]) /\ Suspend(h, c, r, "accept", None, nextTx)
    BY <1>4 DEF TrySet
  <2>2. pc'[h] = "accept" /\ \A g \in Handler : g # h => AsksOn(g)
    BY <1>0, <1>3, <2>1 DEF Suspend, AsksOn, Still, TypeOK
  <2>3. asking' = [asking EXCEPT ![h] = None]
    BY <2>2, AskingMoves DEF AskingAt, Waiting
  <2>4. route[k] = None /\ route' = [route EXCEPT ![k] = h]
    BY <1>0, <2>1, RouteGranted
  <2>5. asking[h] = k \/ Routing!Unbound(h)
    BY <1>1, <1>2 DEF Routing!Unbound
  <2> QED
    BY <1>0, <2>3, <2>4, <2>5 DEF Routing!RoutingNext, Routing!Grant
<1>5. CASE Stored(k)
  <2>0. UNCHANGED route
    BY <1>5, RouteSame DEF TrySet, storeVars
  <2>1. CASE Settle(h, "rejected")
    <3> DEFINE S == {g \in {h} : asking[g] # None}
    <3>1. pc'[h] = "rejected" /\ \A g \in Handler : g # h => AsksOn(g)
      BY <1>0, <1>3, <2>1 DEF Settle, AsksOn, Still, TypeOK
    <3>2. asking' = [asking EXCEPT ![h] = None]
      BY <3>1, AskingMoves DEF AskingAt, Waiting
    <3>3. asking' = [g \in Handler |-> IF g \in S THEN None ELSE asking[g]]
      BY <3>2, AskingDef
    <3>4. Routing!Refuse(S)
      BY <2>0, <3>3 DEF Routing!Refuse
    <3>5. S \in SUBSET Handler
      OBVIOUS
    <3> QED
      BY <3>4, <3>5 DEF Routing!RoutingNext
  <2>2. CASE \E at \in {"ping", "awaitDelete"} : \E o, t : Suspend(h, c, r, at, o, t)
    <3>1. /\ pc'[h] \in Waiting /\ by'[h] = c /\ req'[h] = r
          /\ \A g \in Handler : g # h => AsksOn(g)
      BY <1>0, <1>3, <2>2 DEF Suspend, AsksOn, Still, Waiting, TypeOK
    <3>2. AskingAt(h)' = k
      BY <3>1 DEF AskingAt, KeyAt
    <3>3. asking' = [asking EXCEPT ![h] = k]
      BY <3>1, <3>2, AskingMoves
    <3>4. CASE pc[h] \in Waiting
      BY <1>1, <1>2, <2>0, <3>3, <3>4, AskingDef
    <3>5. CASE pc[h] \notin Waiting
      <4>1. Routing!Unbound(h) /\ route[k] # None
        BY <1>0, <1>1, <1>2, <1>5, <3>5, EntriesType, NoneIsNoEntry DEF Routing!Unbound, route
      <4> QED
        BY <1>0, <2>0, <3>3, <4>1 DEF Routing!RoutingNext, Routing!Ask
    <3> QED
      BY <3>4, <3>5
  <2> QED
    BY <1>5, <2>1, <2>2 DEF TrySet
<1> QED
  BY <1>4, <1>5

\* Handlers that wait for the same answer are refused together.
LEMMA RefusedTogether ==
  ASSUME NEW S \in SUBSET Handler, \A h \in S : pc[h] \in Waiting /\ pc'[h] \notin Waiting,
         \A g \in Handler \ S : AsksOn(g), UNCHANGED map, \A h \in S : KeyAt(h) # None
  PROVE  Routing!RoutingNext
<1>1. \A h \in S : asking[h] # None
  BY AskingDef DEF AskingAt
<1>2. \A g \in Handler : asking'[g] = IF g \in S THEN None ELSE asking[g]
  BY AskingDef, AskingDefNext, AsksOnKey DEF AskingAt
<1>3. asking' = [g \in Handler |-> IF g \in S THEN None ELSE asking[g]]
  BY <1>2, AskingDefNext
<1> QED
  BY <1>1, <1>3, RouteSame DEF Routing!RoutingNext, Routing!Refuse

\* A step that leaves the store alone, and after which every handler waits
\* for what it waited for, is invisible.
LEMMA Invisible ==
  ASSUME UNCHANGED map, \A g \in Handler : AsksOn(g)
  PROVE  UNCHANGED <<route, asking>>
BY AskingSame, RouteSame

LEMMA NextRoutes ==
  ASSUME IInv, Next
  PROVE  Routing!RoutingNext \/ UNCHANGED <<route, asking>>
<1> DEFINE Routes == Routing!RoutingNext \/ UNCHANGED <<route, asking>>
<1> SUFFICES Routes
  OBVIOUS
<1>0. TypeOK /\ ActiveOK
  BY DEF IInv, Agreement
<1>0a. pc \in [Handler -> Waiting \cup Owning \cup Open \cup Free]
       /\ \A h \in Handler : pc[h] \notin Free => KeyAt(h) \in Key /\ KeyAt(h) # None
  BY <1>0, ActiveType, ServerAssumption DEF TypeOK
<1> HIDE DEF Routes
<1>1. ASSUME UNCHANGED map, \A g \in Handler : AsksOn(g) PROVE Routes
  BY <1>1, Invisible DEF Routes
<1>2. ASSUME NEW h \in Handler, pc[h] \in Owning, StoreDelete(KeyAt(h), tx[h]),
             \A g \in Handler : AsksOn(g)
      PROVE  Routes
  BY <1>2, RouteReleased DEF Routes, Routing!RoutingNext
<1>3. ASSUME NEW S \in SUBSET Handler, UNCHANGED map,
             \A h \in S : pc[h] \in Waiting /\ pc'[h] \notin Waiting,
             \A g \in Handler \ S : AsksOn(g)
      PROVE  Routes
  <2>1. \A h \in S : KeyAt(h) # None
    BY <1>0a, <1>3 DEF Waiting, Free
  <2> QED
    BY <1>3, <2>1, RefusedTogether DEF Routes
<1>4. ASSUME NEW h \in Handler, Retry(h) PROVE Routes
  <2>1. by[h] \in Conn /\ req[h] \in Request /\ pc[h] \in Waiting
    BY <1>0, <1>4, ActiveType DEF Retry, Free, Waiting
  <2> QED
    BY <1>4, <2>1, TrySetRoutes DEF Retry, Routes
<1>5. ASSUME NEW c \in Conn, NEW r \in Request, NEW h \in Handler, Forward(c, r, h)
      PROVE  Routes
  <2>1. CASE TrySet(h, c, r)
    BY <1>5, <2>1, TrySetRoutes DEF Forward, Routes
  <2>2. CASE Settle(h, "rejected") /\ UNCHANGED storeVars
    <3>1. \A g \in Handler : AsksOn(g)
      BY <1>0, <1>5, <2>2 DEF Forward, Settle, AsksOn, Still, Free, Waiting, TypeOK
    <3> QED
      BY <1>1, <2>2, <3>1 DEF storeVars
  <2> QED
    BY <1>5, <2>1, <2>2 DEF Forward
<1>6. ASSUME NEW r, Indexed(r) \/ DeleteEvent(r) PROVE Routes
  <2>1. \A g \in Handler : AsksOn(g)
    BY <1>0a, <1>6 DEF Indexed, DeleteEvent, AsksOn, Still, Waiting, handlerVars
  <2> QED
    BY <1>1, <1>6, <2>1 DEF Indexed, DeleteEvent, AddToIndex, EmitDelete
<1>7. ASSUME NEW h \in Handler, Listening(h) PROVE Routes
  <2>1. \A g \in Handler : AsksOn(g)
    BY <1>0a, <1>7 DEF Listening, AsksOn, Still, Waiting
  <2> QED
    BY <1>1, <1>7, <2>1 DEF Listening, storeVars
<1>8. ASSUME NEW h \in Handler, ListenFails(h) PROVE Routes
  <2>1. pc[h] \in Owning /\ \A g \in Handler : AsksOn(g)
    BY <1>0, <1>8 DEF ListenFails, Settle, AsksOn, Still, Owning, Waiting, TypeOK
  <2> QED
    BY <1>2, <1>8, <2>1 DEF ListenFails
<1>9. ASSUME NEW c \in Conn, NEW r \in Request, Cancel(c, r) PROVE Routes
  <2>1. \A g \in Handler : AsksOn(g)
    BY <1>0a, <1>9 DEF Cancel, AsksOn, Still, Waiting
  <2> QED
    BY <1>1, <1>9, <2>1 DEF Cancel, storeVars
<1>10. ASSUME NEW h \in Handler, DeleteTimeout(h) PROVE Routes
  <2>1. /\ {h} \in SUBSET Handler /\ pc[h] \in Waiting /\ pc'[h] \notin Waiting
        /\ \A g \in Handler \ {h} : AsksOn(g)
    BY <1>0, <1>10 DEF DeleteTimeout, Settle, AsksOn, Still, Waiting, TypeOK
  <2>2. UNCHANGED map
    BY <1>10 DEF DeleteTimeout, storeVars
  <2> QED
    BY <1>3, <2>1, <2>2
<1>11. ASSUME NEW h \in Handler, SocketError(h) PROVE Routes
  <2>1. pc[h] \in Owning /\ \A g \in Handler : AsksOn(g)
    BY <1>0a, <1>11 DEF SocketError, AsksOn, Still, Owning, Waiting
  <2> QED
    BY <1>2, <1>11, <2>1 DEF SocketError, CleanupTunnel
<1>12. ASSUME NEW h \in Handler, SocketClose(h) PROVE Routes
  <2>1. \A g \in Handler : AsksOn(g)
    BY <1>0, <1>12 DEF SocketClose, Settle, AsksOn, Still, Open, Listed, Waiting, TypeOK
  <2>2. CASE pc[h] = "failed"
    BY <1>1, <1>12, <2>1, <2>2 DEF SocketClose, storeVars
  <2>3. CASE pc[h] # "failed"
    <3>1. pc[h] \in Owning /\ StoreDelete(KeyAt(h), tx[h])
      BY <1>12, <2>3 DEF SocketClose, CleanupTunnel, Open, Listed, Owning
    <3> QED
      BY <1>2, <2>1, <3>1
  <2> QED
    BY <2>2, <2>3
<1>13. ASSUME NEW c \in Conn, Connect(c) \/ GoMute(c) \/ PingExpires(c) PROVE Routes
  <2>1. \A g \in Handler : AsksOn(g)
    BY <1>13 DEF Connect, GoMute, PingExpires, AsksOn, Still, handlerVars
  <2> QED
    BY <1>1, <1>13, <2>1 DEF Connect, GoMute, PingExpires, storeVars
<1>14. ASSUME NEW c \in Conn, PingAnswered(c) PROVE Routes
  <2> DEFINE S == {h \in Handler : Pinging(h, c)}
  <2>1. /\ \A h \in S : pc[h] \in Waiting /\ pc'[h] \notin Waiting
        /\ \A g \in Handler \ S : AsksOn(g)
    BY <1>14 DEF PingAnswered, Pinging, AsksOn, Still, Waiting
  <2>2. UNCHANGED map /\ S \in SUBSET Handler
    BY <1>14 DEF PingAnswered, storeVars
  <2> QED
    BY <1>3, <2>1, <2>2
<1>15. ASSUME NEW c \in Conn, PingTimeout(c) \/ ClientError(c) PROVE Routes
  <2>1. \A g \in Handler : AsksOn(g)
    BY <1>0a, <1>15 DEF PingTimeout, ClientError, PingFails, Pinging, AsksOn, Still,
       Waiting, handlerVars
  <2> QED
    BY <1>1, <1>15, <2>1 DEF PingTimeout, ClientError, storeVars
<1>16. ASSUME NEW c \in Conn, ClientEnd(c) \/ ClientClose(c) PROVE Routes
  <2>1. \A g \in Handler : AsksOn(g)
    BY <1>0a, <1>16 DEF ClientEnd, ClientClose, DestroySocketServers, AsksOn, Still, Waiting
  <2> QED
    BY <1>1, <1>16, <2>1 DEF ClientEnd, ClientClose, storeVars
<1> QED
  BY <1>4, <1>5, <1>6, <1>7, <1>8, <1>9, <1>10, <1>11, <1>12, <1>13, <1>14,
     <1>15, <1>16 DEF Next, Microtask

LEMMA InitRoutes == Init => Routing!RoutingInit
BY DEF Init, StoreInit, Routing!RoutingInit, route, asking, Stored, Waiting

\* Whatever takeovers, failures and disconnections interleave, the routes of
\* the tunnel server change as TunnelRouting says: a route is granted only
\* when it is free, and a request that asks is granted its own key.
THEOREM RoutingImplemented == Spec => ImplementsRouting
<1>1. Init => Routing!RoutingInit
  BY InitRoutes
<1>2. IInv /\ [Next]_vars => [Routing!RoutingNext]_(Routing!routingVars)
  <2>1. ASSUME UNCHANGED vars PROVE UNCHANGED <<route, asking>>
    <3>1. UNCHANGED map /\ \A g \in Handler : AsksOn(g)
      BY <2>1 DEF vars, storeVars, handlerVars, AsksOn, Still
    <3> QED
      BY <3>1, Invisible
  <2> QED
    BY <2>1, NextRoutes DEF Routing!routingVars
<1> QED
  BY <1>1, <1>2, Invariance, PTL DEF Spec, ImplementsRouting, Routing!RoutingSafety

-----------------------------------------------------------------------------
(* Login *)

LoginSpec == LoginInit /\ [][LoginNext]_loginVars

\* A process that links has the organization of its user.
LoginInv ==
  /\ DOMAIN tokenFile = {"state", "user"}
  /\ DOMAIN runs = Process /\ \A p \in Process : DOMAIN runs[p] = {"at", "user"}
  /\ \A p \in Process : RunAt(p, "link") => runs[p].user \in members
  /\ LoginsJoin

LEMMA LoginInitHasInv == LoginInit => LoginInv
BY DEF LoginInit, LoginInv, LoginsJoin, NoFile, LoggedOut, RunAt

\* A run goes on, and whoever was joining still is, or has an organization, or
\* was stopped on the way.
LEMMA RunKeepsInv ==
  ASSUME LoginInv, NEW p \in Process, NEW at, RunGo(p, at),
         UNCHANGED <<tokenFile, linkedTo>>,
         members \subseteq members', interrupted \subseteq interrupted',
         at = "link" => runs[p].user \in members',
         Joining(p) => \/ at \in {"write", "postLogin", "prompt", "createOrg"}
                       \/ runs[p].user \in members' \cup interrupted'
  PROVE  LoginInv'
<1>1. /\ DOMAIN runs' = Process /\ \A q \in Process : DOMAIN runs'[q] = {"at", "user"}
      /\ runs'[p].at = at /\ \A q \in Process : runs'[q].user = runs[q].user
      /\ \A q \in Process \ {p} : runs'[q] = runs[q]
  BY DEF RunGo, LoginInv
<1>2. \A q \in Process : RunAt(q, "link")' => runs'[q].user \in members'
  BY <1>1 DEF RunAt, LoginInv
<1>3. LoginsJoin'
  BY <1>1 DEF LoginInv, LoginsJoin, Joining
<1> QED
  BY <1>1, <1>2, <1>3 DEF LoginInv

\* A run of which nobody was joining becomes another one.
LEMMA NewRunKeepsInv ==
  ASSUME LoginInv, NEW p \in Process, NEW at, NEW u, ~Joining(p), at # "link",
         runs' = [runs EXCEPT ![p] = [at |-> at, user |-> u]],
         UNCHANGED <<tokenFile, members, linkedTo, interrupted>>
  PROVE  LoginInv'
<1>1. /\ DOMAIN runs' = Process /\ \A q \in Process : DOMAIN runs'[q] = {"at", "user"}
      /\ runs'[p].at = at /\ \A q \in Process \ {p} : runs'[q] = runs[q]
  BY DEF LoginInv
<1>2. \A q \in Process : RunAt(q, "link")' => runs'[q].user \in members'
  BY <1>1 DEF RunAt, LoginInv
<1>3. LoginsJoin'
  BY <1>1 DEF LoginInv, LoginsJoin, Joining
<1> QED
  BY <1>1, <1>2, <1>3 DEF LoginInv

LEMMA LoginStepKeepsInv == LoginInv /\ [LoginNext]_loginVars => LoginInv'
<1> SUFFICES ASSUME LoginInv, [LoginNext]_loginVars PROVE LoginInv'
  OBVIOUS
<1>1. ASSUME NEW p \in Process, LoginStarts(p) PROVE LoginInv'
  BY <1>1, NewRunKeepsInv DEF LoginStarts, Joining
<1>2. ASSUME NEW p \in Process, RunStops(p) PROVE LoginInv'
  BY <1>2, RunKeepsInv DEF RunStops
<1>3. ASSUME NEW p \in Process, LoginReads(p) PROVE LoginInv'
  BY <1>3, RunKeepsInv DEF LoginReads, RunAt, Joining
<1>4. ASSUME NEW p \in Process, DeviceCode(p) PROVE LoginInv'
  BY <1>4, RunKeepsInv DEF DeviceCode, RunAt, Joining
<1>5. ASSUME NEW p \in Process, Approved(p) PROVE LoginInv'
  BY <1>5, NewRunKeepsInv DEF Approved, RunAt, Joining
<1>6. ASSUME NEW p \in Process, TokensCreate(p) PROVE LoginInv'
  <2>1. /\ DOMAIN runs' = Process /\ \A q \in Process : DOMAIN runs'[q] = {"at", "user"}
        /\ runs'[p].at = "write" /\ \A q \in Process \ {p} : runs'[q] = runs[q]
    BY <1>6 DEF TokensCreate, RunGo, LoginInv
  <2>2. DOMAIN tokenFile' = {"state", "user"} /\ tokenFile'.user = NoOne
    BY <1>6 DEF TokensCreate, EmptyFile
  <2>3. UNCHANGED <<members, linkedTo>>
    BY <1>6 DEF TokensCreate
  <2> QED
    BY <2>1, <2>2, <2>3 DEF LoginInv, LoginsJoin, RunAt
<1>7. ASSUME NEW p \in Process, TokensWritten(p) PROVE LoginInv'
  <2>1. /\ DOMAIN runs' = Process /\ \A q \in Process : DOMAIN runs'[q] = {"at", "user"}
        /\ runs'[p].at = "postLogin" /\ runs'[p].user = runs[p].user
        /\ \A q \in Process \ {p} : runs'[q] = runs[q]
    BY <1>7 DEF TokensWritten, RunGo, LoginInv
  <2>2. DOMAIN tokenFile' = {"state", "user"} /\ tokenFile'.user = runs[p].user
    BY <1>7 DEF TokensWritten, TokensOf
  <2>3. UNCHANGED <<members, linkedTo>>
    BY <1>7 DEF TokensWritten
  <2> QED
    BY <2>1, <2>2, <2>3 DEF LoginInv, LoginsJoin, RunAt, Joining
<1>8. ASSUME NEW p \in Process, PostLogin(p) PROVE LoginInv'
  BY <1>8, RunKeepsInv DEF PostLogin
<1>9. ASSUME NEW p \in Process, OrgNamed(p) PROVE LoginInv'
  BY <1>9, RunKeepsInv DEF OrgNamed
<1>10. ASSUME NEW p \in Process, CreateOrg(p) PROVE LoginInv'
  BY <1>10, RunKeepsInv DEF CreateOrg
<1>11. ASSUME NEW p \in Process, LinkReads(p) PROVE LoginInv'
  <2>1. PICK u : runs' = [runs EXCEPT ![p] = [at |-> "orgs", user |-> u]]
    BY <1>11 DEF LinkReads
  <2> QED
    BY <1>11, <2>1, NewRunKeepsInv DEF LinkReads, RunAt, Joining
<1>12. ASSUME NEW p \in Process, SelectOrg(p) PROVE LoginInv'
  BY <1>12, RunKeepsInv DEF SelectOrg, RunAt, Joining
<1>13. ASSUME NEW p \in Process, LinkProfile(p) PROVE LoginInv'
  <2>1. PICK at \in {"done", "stopped"} : RunGo(p, at)
    BY <1>13 DEF LinkProfile
  <2>2. /\ DOMAIN runs' = Process /\ \A q \in Process : DOMAIN runs'[q] = {"at", "user"}
        /\ runs'[p].at = at /\ \A q \in Process \ {p} : runs'[q] = runs[q]
    BY <2>1 DEF RunGo, LoginInv
  <2>3. linkedTo' \in members' /\ UNCHANGED <<tokenFile, members, interrupted>> /\ ~Joining(p)
    BY <1>13 DEF LinkProfile, LoginInv, RunAt, Joining
  <2>4. LoginsJoin'
    BY <2>2, <2>3 DEF LoginInv, LoginsJoin, Joining
  <2> QED
    BY <2>1, <2>2, <2>3, <2>4 DEF LoginInv, RunAt
<1>14. CASE TokensExpire
  <2>1. DOMAIN tokenFile' = {"state", "user"} /\ tokenFile'.user = tokenFile.user
    BY <1>14 DEF TokensExpire, LoginInv
  <2> QED
    BY <1>14, <2>1 DEF TokensExpire, LoginInv, LoginsJoin, Joining, RunAt
<1>15. CASE UNCHANGED loginVars
  BY <1>15 DEF loginVars, LoginInv, LoginsJoin, Joining, RunAt
<1> QED
  BY <1>1, <1>2, <1>3, <1>4, <1>5, <1>6, <1>7, <1>8, <1>9, <1>10, <1>11, <1>12, <1>13, <1>14,
     <1>15 DEF LoginNext

\* However many processes log in and link, and wherever they stop: tokens come
\* with an organization, or with somebody who is to blame that they do not
\* (login.ts).
THEOREM LoginsCorrect == LoginSpec => []LoginsJoin
<1>1. LoginInv => LoginsJoin
  BY DEF LoginInv
<1> QED
  BY <1>1, LoginInitHasInv, LoginStepKeepsInv, PTL DEF LoginSpec

-----------------------------------------------------------------------------
(* The session of a command with the tunnel server *)

SessionSpec == SessionInit /\ [][SessionNext]_sessionVars

MeFields == {"at", "job", "tls", "insecureSkipVerify", "known", "trusted", "host", "retries"}

\* What a command trusts is vouched for, be it from the profile or confirmed.
SessionInv ==
  /\ DOMAIN me = MeFields
  /\ me.known \subseteq vouched /\ me.trusted \subseteq vouched
  /\ Vouched

LEMMA SessionInitHasInv == SessionInit => SessionInv
BY DEF SessionInit, SessionInv, Vouched, NoOneAsks, MeFields

\* A step to another stage, at which nothing new is trusted.
LEMMA MoveKeepsInv ==
  ASSUME SessionInv, DOMAIN me' = MeFields, me'.known = me.known, me'.trusted = me.trusted,
         me'.host = me.host, UNCHANGED <<known, vouched>>,
         me'.at \in {"auth", "save", "asks"} => me.at \in {"auth", "save", "asks"}
  PROVE  SessionInv'
BY DEF SessionInv, Vouched

\* The same for the two operators that the actions move with.
LEMMA StageKeepsInv ==
  ASSUME SessionInv, NEW stage, Moves(stage) \/ (Fails /\ stage = "idle"), Kept,
         stage \in {"auth", "save", "asks"} => me.at \in {"auth", "save", "asks"}
  PROVE  SessionInv'
<1>1. PICK s : /\ me' = [me EXCEPT !.at = s]
               /\ s \in {"auth", "save", "asks"} => me.at \in {"auth", "save", "asks"}
  BY DEF Moves, Fails
<1>2. /\ DOMAIN me' = MeFields /\ me'.known = me.known /\ me'.trusted = me.trusted
      /\ me'.host = me.host /\ me'.at = s
  BY <1>1 DEF SessionInv, MeFields
<1> QED
  BY <1>1, <1>2, MoveKeepsInv DEF Kept

LEMMA SessionStepKeepsInv == SessionInv /\ [SessionNext]_sessionVars => SessionInv'
<1> SUFFICES ASSUME SessionInv, [SessionNext]_sessionVars PROVE SessionInv'
  OBVIOUS
<1>1. ASSUME NEW job, NEW isTls, NEW skip, Begin(job, isTls, skip) PROVE SessionInv'
  <2>1. /\ DOMAIN me' = MeFields /\ me'.at = "connecting"
        /\ me'.known = known /\ me'.trusted = known
    BY <1>1 DEF Begin, NoOneAsks, MeFields
  <2> QED
    BY <1>1, <2>1 DEF Begin, Kept, SessionInv, Vouched
<1>2. CASE Handshake
  <2>1. /\ DOMAIN me' = MeFields /\ me'.known = me.known /\ me'.trusted = me.trusted
        /\ me'.host = hostKey
        /\ me'.at = IF hostVerifier(hostKey) THEN "auth" ELSE "unverified"
    BY <1>2 DEF Handshake, SessionInv, MeFields
  <2>2. hostVerifier(hostKey) => hostKey \in vouched'
    BY <1>2 DEF Handshake, hostVerifier, SessionInv
  <2> QED
    BY <1>2, <2>1, <2>2 DEF Handshake, SessionInv, Vouched
<1>3. CASE confirmHostFingerprint
  <2>1. /\ DOMAIN me' = MeFields /\ me'.known = me.known
        /\ me'.trusted = me.trusted \cup {me.host} /\ me'.at = "connecting"
    BY <1>3 DEF confirmHostFingerprint, SessionInv, MeFields
  <2> QED
    BY <1>3, <2>1 DEF confirmHostFingerprint, SessionInv, Vouched
<1>4. CASE SaveHostKey
  <2>1. /\ DOMAIN me' = MeFields /\ me'.known = me.known /\ me'.trusted = me.trusted
        /\ me'.host = me.host
    BY <1>4 DEF SaveHostKey, Moves, SessionInv, MeFields
  <2> QED
    BY <1>4, <2>1 DEF SaveHostKey, Stage, SessionInv, Vouched
<1>5. CASE ConnectFails \/ Declined
  BY <1>5, StageKeepsInv DEF ConnectFails, Declined
<1>6. CASE Authenticated
  BY <1>6, StageKeepsInv DEF Authenticated, Stage
<1>7. ASSUME NEW q \in Command, Exec(q) \/ Data(q) PROVE SessionInv'
  BY <1>7 DEF Exec, Data, Kept, SessionInv, Vouched
<1>8. CASE Lost
  BY <1>8, StageKeepsInv DEF Lost
<1>9. CASE Answers
  <2>1. /\ DOMAIN me' = MeFields /\ me'.known = me.known /\ me'.trusted = me.trusted
        /\ me'.host = me.host
    BY <1>9 DEF Answers, SessionInv, MeFields
  <2>2. me.at = "asks" /\ UNCHANGED <<known, vouched>>
    BY <1>9 DEF Answers, Stage, Kept
  <2> QED
    BY <2>1, <2>2, MoveKeepsInv
<1>10. CASE EndFails \/ Queried \/ ReadMetadata \/ GivenUp
  BY <1>10, StageKeepsInv DEF EndFails, Queried, ReadMetadata, GivenUp
<1>11. CASE InspectProject \/ StartAgent
  BY <1>11, StageKeepsInv DEF InspectProject, StartAgent
<1>12. CASE QueryFails
  <2>1. CASE me.retries > 0
    <3>1. /\ DOMAIN me' = MeFields /\ me'.known = me.known /\ me'.trusted = me.trusted
          /\ me'.host = me.host /\ me'.at = me.at
      BY <1>12, <2>1 DEF QueryFails, SessionInv, MeFields
    <3> QED
      BY <1>12, <3>1, MoveKeepsInv DEF QueryFails, Kept
  <2>2. CASE ~(me.retries > 0)
    BY <1>12, <2>2, StageKeepsInv DEF QueryFails
  <2> QED
    BY <2>1, <2>2
<1>13. CASE ServerReplaced
  BY <1>13 DEF ServerReplaced, SessionInv, Vouched
<1>14. CASE UNCHANGED sessionVars
  BY <1>14 DEF sessionVars, SessionInv, Vouched
<1> QED
  BY <1>1, <1>2, <1>3, <1>4, <1>5, <1>6, <1>7, <1>8, <1>9, <1>10, <1>11, <1>12, <1>13, <1>14
  DEF SessionNext

\* Whatever keys the server shows, and however often the connection is tried
\* again: only vouched servers are asked, and remembered
\* (connectToTunnelServerSsh).
THEOREM VouchedCorrect == SessionSpec => []Vouched
<1>1. SessionInv => Vouched
  BY DEF SessionInv
<1> QED
  BY <1>1, SessionInitHasInv, SessionStepKeepsInv, PTL DEF SessionSpec

=============================================================================
