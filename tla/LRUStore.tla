------------------------------ MODULE LRUStore ------------------------------
(***************************************************************************)
(* The key-value engine behind every node: LRUStore over HashStore, as     *)
(* KiviTree exposes it.  The recency list is a std::list, so the index     *)
(* holds iterators: a list cell is a record of its identity and its key,   *)
(* and erasing through an iterator removes the cell of that identity.      *)
(*                                                                         *)
(* put, get and remove take no lock and are one step each here.            *)
(* set_kv_batch takes the store's lock and calls put once per pair in the  *)
(* hash map's order, so a batch is one step per pair and the unlocked      *)
(* operations of other threads run between its steps.                      *)
(***************************************************************************)
EXTENDS Naturals, FiniteSets, Sequences, SequencesExt

CONSTANTS
    Key,        \* keys used by the callers
    Value,      \* values used by the callers
    Cell,       \* identities of list cells: what an iterator refers to
    capacity    \* LRUStore::capacity

ASSUME CapacityAssumption == capacity \in Nat \ {0}

VARIABLES
    store,      \* HashStore::kv, a partial map from Key to Value
    lru_list,   \* most recently used first: records [cell, key]
    index,      \* key -> iterator into lru_list, a partial map to Cell
    batch,      \* pairs set_kv_batch has still to put; it holds the lock
    used,       \* history: keys put or found since the last batch was started
    removed     \* history: the keys of used that were removed after that use

vars == <<store, lru_list, index, batch, used, removed>>

PartialMap(S, T) == UNION {[D -> T] : D \in SUBSET S}
Without(f, k)    == [x \in DOMAIN f \ {k} |-> f[x]]
With(f, k, v)    == [x \in DOMAIN f \cup {k} |-> IF x = k THEN v ELSE f[x]]

Cells(list) == {list[i].cell : i \in DOMAIN list}
Keys(list)  == {list[i].key : i \in DOMAIN list}

Init ==
    /\ store = [k \in {} |-> k]
    /\ lru_list = << >>
    /\ index = [k \in {} |-> k]
    /\ batch = [k \in {} |-> k]
    /\ used = {}
    /\ removed = {}

\* lru_list.erase(it)
Erase(list, it) ==
    RemoveAt(list, CHOOSE i \in DOMAIN list : list[i].cell = it)

\* lru_list.push_front(key) on a list that allocates cell c for it
PushFront(list, c, key) == <<[cell |-> c, key |-> key]>> \o list

\* push_front(key) on what is left of the list, index[key] = begin()
ToFront(rest, key, ix) ==
    \E c \in Cell \ Cells(rest) :
        /\ lru_list' = PushFront(rest, c, key)
        /\ index' = With(ix, key, c)

Touch(key) ==
    /\ used' = used \cup {key}
    /\ removed' = removed \ {key}

-----------------------------------------------------------------------------
(* LRUStore::put                                                           *)

\* Mutant: an existing key is overwritten where it is, as if a put were no use.
PutExistingInPlace(key, value) ==
    /\ key \in DOMAIN index
    /\ store' = With(store, key, value)
    /\ UNCHANGED <<lru_list, index>>

\* The key is indexed: move it to the front and overwrite its value.
PutExisting(key, value) ==
    /\ key \in DOMAIN index
    /\ ToFront(Erase(lru_list, index[key]), key, index)
    /\ store' = With(store, key, value)

\* A new key while there is room.
PutRoom(key, value) ==
    /\ key \notin DOMAIN index
    /\ Len(lru_list) < capacity
    /\ ToFront(lru_list, key, index)
    /\ store' = With(store, key, value)

\* Mutant: the evicted key stays in the index.
PutEvictingStaleIndex(key, value) ==
    /\ key \notin DOMAIN index
    /\ Len(lru_list) >= capacity
    /\ LET lru_key == Last(lru_list).key
       IN  /\ ToFront(Front(lru_list), key, index)
           /\ store' = With(Without(store, lru_key), key, value)

\* A new key and no room: the key at the back of the list goes first.
PutEvicting(key, value) ==
    /\ key \notin DOMAIN index
    /\ Len(lru_list) >= capacity
    /\ LET lru_key == Last(lru_list).key
       IN  /\ ToFront(Front(lru_list), key, Without(index, lru_key))
           /\ store' = With(Without(store, lru_key), key, value)

put(key, value) ==
    /\ \/ PutExisting(key, value)
       \/ PutRoom(key, value)
       \/ PutEvicting(key, value)
    /\ Touch(key)

-----------------------------------------------------------------------------
(* The operations of the threads that share the store                      *)

Put(key, value) ==
    /\ put(key, value)
    /\ UNCHANGED batch

\* Mutant: a get leaves the recency list alone.
GetInPlace(key) ==
    /\ key \in DOMAIN store
    /\ Touch(key)
    /\ UNCHANGED <<store, lru_list, index, batch>>

\* A get that finds its key reorders the list; one that does not has no effect.
Get(key) ==
    /\ key \in DOMAIN store
    /\ ToFront(Erase(lru_list, index[key]), key, index)
    /\ Touch(key)
    /\ UNCHANGED <<store, batch>>

\* Mutant: the hash map keeps an empty value for a removed key.
RemoveKeyTombstone(key) ==
    /\ key \in DOMAIN store
    /\ lru_list' = Erase(lru_list, index[key])
    /\ index' = Without(index, key)
    /\ store' = With(store, key, "")
    /\ removed' = removed \cup ({key} \cap used)
    /\ UNCHANGED <<batch, used>>

RemoveKey(key) ==
    /\ key \in DOMAIN store
    /\ lru_list' = Erase(lru_list, index[key])
    /\ index' = Without(index, key)
    /\ store' = Without(store, key)
    /\ removed' = removed \cup ({key} \cap used)
    /\ UNCHANGED <<batch, used>>

\* set_kv_batch(kvs) takes the lock, which no other batch holds.
SetKvBatch(kvs) ==
    /\ DOMAIN batch = {}
    /\ DOMAIN kvs # {}
    /\ batch' = kvs
    /\ used' = {}
    /\ removed' = {}
    /\ UNCHANGED <<store, lru_list, index>>

\* One iteration of its loop; the lock goes with the last one.
BatchPut(key) ==
    /\ key \in DOMAIN batch
    /\ put(key, batch[key])
    /\ batch' = Without(batch, key)

Next ==
    \/ \E key \in Key, value \in Value : Put(key, value)
    \/ \E key \in Key : Get(key) \/ RemoveKey(key) \/ BatchPut(key)
    \/ \E kvs \in PartialMap(Key, Value) : SetKvBatch(kvs)

Spec == Init /\ [][Next]_vars

-----------------------------------------------------------------------------
(* Properties                                                              *)

TypeOK ==
    /\ store \in PartialMap(Key, Value)
    /\ lru_list \in Seq([cell : Cell, key : Key])
    /\ index \in PartialMap(Key, Cell)
    /\ batch \in PartialMap(Key, Value)
    /\ used \in SUBSET Key
    /\ removed \in SUBSET used

\* Every iterator of an index refers to a cell of the list that holds its key,
\* every cell is indexed, and no cell occurs twice.
Linked(list, ix) ==
    /\ DOMAIN ix = Keys(list)
    /\ \A i \in DOMAIN list : ix[list[i].key] = list[i].cell
    /\ \A i, j \in DOMAIN list : list[i].cell = list[j].cell => i = j

\* The hash map, the list and the index always describe the same keys, so no
\* erase is given a dangling iterator and a key reported present by the store
\* is indexed, and the list never outgrows the capacity (lru_store.cpp: the
\* early return of put, its eviction, get and remove together, also between
\* the puts of a batch).
Coherent ==
    /\ DOMAIN store = DOMAIN index
    /\ Linked(lru_list, index)
    /\ Len(lru_list) <= capacity

\* However other threads' operations fall between the puts of a batch, a key
\* used since the batch began and not removed again is still resident, unless
\* more than capacity distinct keys have been used since: a batch that fits
\* never evicts itself, which a follower's set_kv_batch of a leader's snapshot
\* relies on (lru_store.cpp, the eviction in put against the loop of the batch).
WindowResident ==
    Cardinality(used) <= capacity => used \ removed \subseteq DOMAIN store

\* The order in which the resident keys were last used.
Recency ==
    {p \in Keys(lru_list) \X Keys(lru_list) :
        \E i, j \in DOMAIN lru_list :
            i < j /\ lru_list[i].key = p[1] /\ lru_list[j].key = p[2]}

LRU == INSTANCE LRUCache WITH content <- store, usedAfter <- Recency

\* Every operation of the list, index and hash map is one operation of the
\* bounded map that LRUCache describes: what is evicted is always the key
\* used least recently, through puts, gets, removes and batches.
RefinesLRUCache == LRU!Spec

=============================================================================
