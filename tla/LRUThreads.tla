----------------------------- MODULE LRUThreads -----------------------------
(***************************************************************************)
(* LRUStore as several threads run it: put, get and remove, which take no  *)
(* lock, and get_kv_batch and set_kv_batch, which do.  A step is one       *)
(* statement.  The threads are the REST pool and the message server of a   *)
(* KiviLeaf node, or the detached client threads of KiviTreeServer.        *)
(*                                                                         *)
(* Two threads at statements that access one container, one of them to     *)
(* change it, are a data race.  What the build makes of it is undefined;   *)
(* here the calls on a container take effect one after the other, which is *)
(* the mildest of the outcomes.  Erasing through an iterator whose element *)
(* is gone, or taking the back of an empty list, is undefined too, and     *)
(* there the model stops (broken).  A list element is its cell in memory   *)
(* and its key; cells are reused.  Values are left out.                    *)
(***************************************************************************)
EXTENDS Naturals, FiniteSets, Sequences, SequencesExt

CONSTANTS
    Thread,     \* threads that call the store
    Key,        \* keys they use
    Cell,       \* identities of list cells
    capacity,   \* LRUStore::capacity
    MaxPairs    \* bound: pairs of a batch

ASSUME ThreadsAssumption ==
    /\ IsFiniteSet(Thread)
    /\ capacity \in Nat \ {0}
    /\ MaxPairs \in Nat

VARIABLES
    store,      \* keys of HashStore::kv
    lru_list,   \* most recently used first: records [cell, key]
    index,      \* key -> iterator into lru_list, a partial map to Cell
    frame,      \* frame[t]: the call that t is in
    broken,     \* what comes next is undefined
    raced       \* history: there has been a data race

vars == <<store, lru_list, index, frame, broken, raced>>

Call == {"none", "put", "get", "remove", "get_kv_batch", "set_kv_batch"}

\* What the statement at a label accesses.
Reads == [
    idle   |-> {},        lock   |-> {},        find   |-> {"index"},
    exists |-> {"store"}, size   |-> {"list"},  back   |-> {"list"},
    pop    |-> {},        unindex |-> {},       drop   |-> {},
    erase  |-> {},        push   |-> {},        link   |-> {"list"},
    save   |-> {},        fetch  |-> {"store"}, forget |-> {},
    delete |-> {},        copy   |-> {"store"}]

Writes == [
    idle   |-> {},        lock   |-> {},        find   |-> {},
    exists |-> {},        size   |-> {},        back   |-> {},
    pop    |-> {"list"},  unindex |-> {"index"}, drop  |-> {"store"},
    erase  |-> {"index", "list"}, push |-> {"list"}, link |-> {"index"},
    save   |-> {"store"}, fetch  |-> {},        forget |-> {"index"},
    delete |-> {"store"}, copy   |-> {}]

Label == DOMAIN Reads

NoKey == ""

\* A call: its statement, its key, the key it is about to evict, and the pairs
\* that set_kv_batch has still to put.
Frame == [call : Call, pc : Label, key : Key \cup {NoKey}, victim : SUBSET Key, rest : SUBSET Key]
Rest  == [call |-> "none", pc |-> "idle", key |-> NoKey, victim |-> {}, rest |-> {}]

TypeOK ==
    /\ store \in SUBSET Key
    /\ lru_list \in Seq([cell : Cell, key : Key])
    /\ \A k \in DOMAIN index : k \in Key /\ index[k] \in Cell
    /\ frame \in [Thread -> Frame]
    /\ broken \in BOOLEAN
    /\ raced \in BOOLEAN

Init ==
    /\ store = {}
    /\ lru_list = << >>
    /\ index = [k \in {} |-> k]
    /\ frame = [t \in Thread |-> Rest]
    /\ broken = FALSE
    /\ raced = FALSE

Cells(list) == {list[i].cell : i \in DOMAIN list}

Without(f, ks)  == [x \in DOMAIN f \ ks |-> f[x]]
With(f, k, c)   == [x \in DOMAIN f \cup {k} |-> IF x = k THEN c ELSE f[x]]

At(t, label)    == ~broken /\ frame[t].pc = label
GoTo(t, label)  == frame' = [frame EXCEPT ![t].pc = label]
Return(t)       == frame' = [frame EXCEPT ![t] = Rest]
Undefined       == broken' = TRUE /\ UNCHANGED <<store, lru_list, index, frame>>

-----------------------------------------------------------------------------
(* Calls                                                                   *)

Enter(t, call, label, k, rest) ==
    /\ At(t, "idle")
    /\ frame' = [frame EXCEPT ![t] = [call |-> call, pc |-> label, key |-> k,
                                      victim |-> {}, rest |-> rest]]
    /\ UNCHANGED <<store, lru_list, index, broken>>

put(t, k)    == Enter(t, "put", "find", k, {})
get(t, k)    == Enter(t, "get", "exists", k, {})
remove(t, k) == Enter(t, "remove", "exists", k, {})
get_kv_batch(t)     == Enter(t, "get_kv_batch", "lock", NoKey, {})
set_kv_batch(t, ks) == Enter(t, "set_kv_batch", "lock", NoKey, ks)

Locked(t, calls) == frame[t].call \in calls /\ frame[t].pc # "lock"

\* set_kv_batch puts its next pair, if there is one; put itself returns.
NextPair(t) ==
    IF frame[t].rest = {} THEN Return(t)
    ELSE \E k \in frame[t].rest :
            frame' = [frame EXCEPT ![t].pc = "find", ![t].key = k,
                                   ![t].victim = {}, ![t].rest = @ \ {k}]

\* Mutant: a shared lock for either.
LockShared(t) ==
    /\ At(t, "lock")
    /\ IF frame[t].call = "get_kv_batch" THEN GoTo(t, "copy") ELSE NextPair(t)
    /\ UNCHANGED <<store, lru_list, index, broken>>

\* A shared lock for get_kv_batch, a unique one for set_kv_batch.
Lock(t) ==
    /\ At(t, "lock")
    /\ \A u \in Thread \ {t} :
          /\ ~Locked(u, {"set_kv_batch"})
          /\ frame[t].call = "set_kv_batch" => ~Locked(u, {"get_kv_batch"})
    /\ IF frame[t].call = "get_kv_batch" THEN GoTo(t, "copy") ELSE NextPair(t)
    /\ UNCHANGED <<store, lru_list, index, broken>>

Copy(t) ==
    /\ At(t, "copy")
    /\ Return(t)
    /\ UNCHANGED <<store, lru_list, index, broken>>

-----------------------------------------------------------------------------
(* The statements of put, get and remove                                   *)

Find(t) ==
    /\ At(t, "find")
    /\ GoTo(t, IF frame[t].key \in DOMAIN index THEN "erase" ELSE "size")
    /\ UNCHANGED <<store, lru_list, index, broken>>

Exists(t) ==
    /\ At(t, "exists")
    /\ IF frame[t].key \in store THEN GoTo(t, "erase") ELSE Return(t)
    /\ UNCHANGED <<store, lru_list, index, broken>>

\* Mutant: off by one.
SizeTooLate(t) ==
    /\ At(t, "size")
    /\ GoTo(t, IF Len(lru_list) > capacity THEN "back" ELSE "push")
    /\ UNCHANGED <<store, lru_list, index, broken>>

Size(t) ==
    /\ At(t, "size")
    /\ GoTo(t, IF Len(lru_list) >= capacity THEN "back" ELSE "push")
    /\ UNCHANGED <<store, lru_list, index, broken>>

Back(t) ==
    /\ At(t, "back")
    /\ IF lru_list = << >> THEN Undefined
       ELSE /\ frame' = [frame EXCEPT ![t].pc = "pop", ![t].victim = {Last(lru_list).key}]
            /\ UNCHANGED <<store, lru_list, index, broken>>

Pop(t) ==
    /\ At(t, "pop")
    /\ IF lru_list = << >> THEN Undefined
       ELSE /\ lru_list' = Front(lru_list)
            /\ GoTo(t, "unindex")
            /\ UNCHANGED <<store, index, broken>>

\* Mutant: the key that was evicted stays indexed.
UnindexNothing(t) ==
    /\ At(t, "unindex")
    /\ GoTo(t, "drop")
    /\ UNCHANGED <<store, lru_list, index, broken>>

Unindex(t) ==
    /\ At(t, "unindex")
    /\ index' = Without(index, frame[t].victim)
    /\ GoTo(t, "drop")
    /\ UNCHANGED <<store, lru_list, broken>>

Drop(t) ==
    /\ At(t, "drop")
    /\ store' = store \ frame[t].victim
    /\ GoTo(t, "push")
    /\ UNCHANGED <<lru_list, index, broken>>

\* lru_list.erase(index[key]): nothing answers for a key that is no longer
\* indexed, or for an iterator whose element is gone.
Erase(t) ==
    /\ At(t, "erase")
    /\ LET key == frame[t].key
       IN  IF key \notin DOMAIN index \/ index[key] \notin Cells(lru_list)
           THEN Undefined
           ELSE /\ lru_list' = RemoveAt(lru_list, CHOOSE i \in DOMAIN lru_list :
                                                   lru_list[i].cell = index[key])
                /\ GoTo(t, IF frame[t].call = "remove" THEN "forget" ELSE "push")
                /\ UNCHANGED <<store, index, broken>>

Push(t) ==
    /\ At(t, "push")
    /\ \E c \in Cell \ Cells(lru_list) :
          lru_list' = <<[cell |-> c, key |-> frame[t].key]>> \o lru_list
    /\ GoTo(t, "link")
    /\ UNCHANGED <<store, index, broken>>

\* index[key] = begin(), whoever pushed what begin() refers to by now.  That of a
\* list emptied meanwhile is end(), which is no element: the model stops there.
Link(t) ==
    /\ At(t, "link")
    /\ IF lru_list = << >> THEN Undefined
       ELSE /\ index' = With(index, frame[t].key, Head(lru_list).cell)
            /\ GoTo(t, IF frame[t].call = "get" THEN "fetch" ELSE "save")
            /\ UNCHANGED <<store, lru_list, broken>>

Save(t) ==
    /\ At(t, "save")
    /\ store' = store \cup {frame[t].key}
    /\ NextPair(t)
    /\ UNCHANGED <<lru_list, index, broken>>

Fetch(t) ==
    /\ At(t, "fetch")
    /\ Return(t)
    /\ UNCHANGED <<store, lru_list, index, broken>>

Forget(t) ==
    /\ At(t, "forget")
    /\ index' = Without(index, {frame[t].key})
    /\ GoTo(t, "delete")
    /\ UNCHANGED <<store, lru_list, broken>>

Delete(t) ==
    /\ At(t, "delete")
    /\ store' = store \ {frame[t].key}
    /\ Return(t)
    /\ UNCHANGED <<lru_list, index, broken>>

-----------------------------------------------------------------------------

Statement(t) ==
    \/ Lock(t) \/ Copy(t)
    \/ Find(t) \/ Exists(t) \/ Size(t)
    \/ Back(t) \/ Pop(t) \/ Unindex(t) \/ Drop(t)
    \/ Erase(t) \/ Push(t) \/ Link(t) \/ Save(t) \/ Fetch(t)
    \/ Forget(t) \/ Delete(t)

\* handle_client, the REST handlers and the message handlers.
Begin(t) ==
    \/ \E k \in Key : put(t, k) \/ get(t, k) \/ remove(t, k)
    \/ get_kv_batch(t)
    \/ \E ks \in SUBSET Key : Cardinality(ks) \in 1..MaxPairs /\ set_kv_batch(t, ks)

Conflict(t, u) ==
    \E x \in {"index", "list", "store"} :
        /\ x \in Writes[frame[t].pc]
        /\ x \in Reads[frame[u].pc] \cup Writes[frame[u].pc]

Race == \E t, u \in Thread : t # u /\ Conflict(t, u)

Next ==
    /\ \E t \in Thread : Begin(t) \/ Statement(t)
    /\ raced' = (raced \/ Race')

Spec == Init /\ [][Next]_vars

-----------------------------------------------------------------------------
(* Properties                                                              *)

\* The calls that take the lock never race with each other: get_kv_batch never
\* copies what set_kv_batch is changing, and two batches do not mix.  Whatever
\* races is put, get or remove called on its own.
LockedCallsDoNotRace ==
    \A t, u \in Thread :
        t # u /\ Conflict(t, u) =>
            {frame[t].call, frame[u].call} \cap {"put", "get", "remove"} # {}

Coherent ==
    /\ DOMAIN index = store
    /\ {lru_list[i].key : i \in DOMAIN lru_list} = store
    /\ Len(lru_list) = Cardinality(store)
    /\ Len(lru_list) <= capacity
    /\ \A i \in DOMAIN lru_list : index[lru_list[i].key] = lru_list[i].cell

\* Without a race nothing breaks, and whenever all calls have returned the three
\* structures agree: statements of different calls may interleave as long as no
\* two of them meet at a container.
DamageNeedsRace ==
    raced \/ /\ ~broken
             /\ (\A t \in Thread : frame[t].pc = "idle") => Coherent

\* Even the mildest outcomes of the races let the list outgrow its capacity, by
\* one element per other thread: each has read the size before the others push.
OvershootBounded == Len(lru_list) <= capacity + Cardinality(Thread) - 1

=============================================================================
