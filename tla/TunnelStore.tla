----------------------------- MODULE TunnelStore -----------------------------
(****************************************************************************)
(* The tunnel server's store of active tunnels: the key-value store of      *)
(* memory-store.ts, whose entries carry the transaction that set them, and  *)
(* the index by public key thumbprint that tunnel-store/index.ts keeps      *)
(* beside it.                                                               *)
(*                                                                          *)
(* The store is asynchronous in two places.  The index entry of a new key   *)
(* is added in the continuation of an awaited set (`adding`), and a         *)
(* deletion is announced to the watcher of the entry, which removes the     *)
(* index entry, in a nextTick callback (`deleting`).  Both are separate     *)
(* steps here, so a reader may run between them.                            *)
(****************************************************************************)
EXTENDS Naturals, FiniteSets

CONSTANTS
  Key,            \* the hostnames tunnels are stored under
  Value,          \* the tunnels
  Thumbprint,     \* thumbprints of client public keys
  ThumbprintOf,   \* the publicKeyThumbprint of a tunnel
  None,           \* what map.get returns for a key that is not set
  MaxTx           \* bound on the transactions handed out

Entry == [tx : Nat, value : Value]

ASSUME StoreAssumption ==
  /\ ThumbprintOf \in [Value -> Thumbprint]
  /\ None \notin Entry
  /\ MaxTx \in Nat

VARIABLES
  map,        \* the Map of memory-store.ts
  nextTx,     \* the next id of txIdGen
  index,      \* pkThumbprintToTunnel: thumbprint -> {[key, tx]}
  adding,     \* entries whose set has returned and are not yet indexed
  deleting    \* deleted entries whose watcher has not yet been called

storeVars == <<map, nextTx, index, adding, deleting>>

\* An entry together with its key, as the index and the callbacks hold it.
Ref == [key : Key, tx : Nat, value : Value]

RefOf(k, e) == [key |-> k, tx |-> e.tx, value |-> e.value]
IndexEntry(r) == [key |-> r.key, tx |-> r.tx]

StoreTypeOK ==
  /\ map \in [Key -> Entry \cup {None}]
  /\ nextTx \in Nat
  /\ index \in [Thumbprint -> SUBSET [key : Key, tx : Nat]]
  /\ adding \subseteq Ref
  /\ deleting \subseteq Ref

StoreInit ==
  /\ map = [k \in Key |-> None]
  /\ nextTx = 0
  /\ index = [p \in Thumbprint |-> {}]
  /\ adding = {}
  /\ deleting = {}

-----------------------------------------------------------------------------
(* Operations *)

Stored(k) == map[k] # None

\* set of a free key.  On a stored key set throws KeyAlreadyExistsError and
\* changes nothing.
StoreSet(k, v) ==
  LET e == [tx |-> nextTx, value |-> v] IN
  /\ ~Stored(k)
  /\ map' = [map EXCEPT ![k] = e]
  /\ nextTx' = nextTx + 1
  /\ adding' = adding \cup {RefOf(k, e)}
  /\ UNCHANGED <<index, deleting>>

\* The continuation of set: index the entry and watch its deletion.
AddToIndex(r) ==
  /\ r \in adding
  /\ adding' = adding \ {r}
  /\ index' = [index EXCEPT ![ThumbprintOf[r.value]] = @ \cup {IndexEntry(r)}]
  /\ UNCHANGED <<map, nextTx, deleting>>

\* delete(key, setTx): only the transaction that set the entry deletes it.
DeleteHits(k, tx) == Stored(k) /\ map[k].tx = tx

StoreDelete(k, tx) ==
  /\ IF DeleteHits(k, tx)
     THEN /\ map' = [map EXCEPT ![k] = None]
          /\ deleting' = deleting \cup {RefOf(k, map[k])}
     ELSE UNCHANGED <<map, deleting>>
  /\ UNCHANGED <<nextTx, index, adding>>

\* delete(key) without a transaction deletes whatever entry the key has.
StoreDeleteAny(k) ==
  /\ Stored(k)
  /\ StoreDelete(k, map[k].tx)

\* Mutant of EmitDelete: nobody listens to the event.
EmitDeleteUnheard(r) ==
  /\ r \in deleting
  /\ r \notin adding
  /\ deleting' = deleting \ {r}
  /\ UNCHANGED <<map, nextTx, index, adding>>

\* The nextTick callback: the watcher emits 'delete', and the listener that
\* set registered removes the index entry.  The continuation that registers
\* it was queued before the deletion's callback, hence the guard.
EmitDelete(r) ==
  /\ r \in deleting
  /\ r \notin adding
  /\ deleting' = deleting \ {r}
  /\ index' = [index EXCEPT ![ThumbprintOf[r.value]] = @ \ {IndexEntry(r)}]
  /\ UNCHANGED <<map, nextTx, adding>>

\* getByPkThumbprint: the values that the indexed keys have now.
GetByPkThumbprint(p) ==
  {map[i.key].value : i \in {j \in index[p] : Stored(j.key)}}

-----------------------------------------------------------------------------
(* The store with callers that set and delete keys in any order, a deletion *)
(* naming any transaction handed out so far.                                *)

StoreNext ==
  \/ \E k \in Key, v \in Value : nextTx < MaxTx /\ StoreSet(k, v)
  \/ \E r \in adding : AddToIndex(r)
  \/ \E k \in Key, tx \in 0 .. nextTx : StoreDelete(k, tx)
  \/ \E k \in Key : StoreDeleteAny(k)
  \/ \E r \in deleting : EmitDelete(r)

StoreSpec ==
  /\ StoreInit
  /\ [][StoreNext]_storeVars
  /\ WF_storeVars(\E r \in adding : AddToIndex(r))
  /\ WF_storeVars(\E r \in deleting : EmitDelete(r))

-----------------------------------------------------------------------------
(* Properties *)

\* The entries that exist for some observer: stored, or deleted but not yet
\* announced.
LiveRefs == {RefOf(k, map[k]) : k \in {l \in Key : Stored(l)}} \cup deleting

\* A transaction names one entry: whoever holds the transaction of an entry
\* that was deleted can never delete the entry that took its place.
TxUnique ==
  /\ \A r, s \in LiveRefs : r.tx = s.tx => r = s
  /\ \A r \in LiveRefs : r.tx < nextTx
  /\ adding \subseteq LiveRefs

\* The index holds exactly the entries that were announced as set and not
\* yet announced as deleted: no index entry outlives its tunnel, none is
\* lost when the key is set again before the deletion is announced.
IndexExact ==
  \A p \in Thumbprint :
    index[p] = {IndexEntry(r) : r \in {s \in LiveRefs \ adding :
                                         ThumbprintOf[s.value] = p}}

\* When no callback is pending, the lookup by thumbprint (the list of a
\* profile's tunnels) returns exactly the stored tunnels of that thumbprint.
LookupExact ==
  (adding = {} /\ deleting = {}) =>
    \A p \in Thumbprint :
      GetByPkThumbprint(p) =
        {map[k].value : k \in {l \in Key :
           Stored(l) /\ ThumbprintOf[map[l].value] = p}}

=============================================================================
