------------------------------ MODULE LRUCache ------------------------------
(***************************************************************************)
(* What a bounded least-recently-used store promises its callers, with no  *)
(* list, no iterators and no hash index: a partial map of at most capacity *)
(* keys together with the order in which its keys were last used.  A key   *)
(* is lost only by Remove, or when a new key needs the room and every      *)
(* other key has been used after it.                                       *)
(* LRUStore.tla is shown to implement this specification.                  *)
(***************************************************************************)
EXTENDS Naturals, FiniteSets

CONSTANTS
    Key,        \* the keys a caller may use
    Value,      \* the values a caller may store
    capacity    \* the largest number of keys kept

VARIABLES
    content,    \* the resident keys with their values, a partial map
    usedAfter   \* <<k, j>> : resident k was used after resident j

vars == <<content, usedAfter>>

Resident == DOMAIN content

Init ==
    /\ content = [k \in {} |-> k]
    /\ usedAfter = {}

\* Key k becomes the most recently used of the resident keys ks.
Use(k, ks) ==
    usedAfter' = {p \in usedAfter : p[1] \in ks \ {k} /\ p[2] \in ks \ {k}}
                    \cup ({k} \X (ks \ {k}))

\* The keys ks hold their values and k holds v.
Bind(k, v, ks) ==
    content' = [x \in ks \cup {k} |-> IF x = k THEN v ELSE content[x]]

\* A put that needs no room: the key is resident, or the store is not full.
Put(k, v) ==
    /\ k \in Resident \/ Cardinality(Resident) < capacity
    /\ Bind(k, v, Resident)
    /\ Use(k, Resident)

\* A put of a new key into a full store drops the key used least recently.
PutEvicting(k, v) ==
    /\ k \notin Resident
    /\ Cardinality(Resident) >= capacity
    /\ \E victim \in Resident :
          /\ \A j \in Resident \ {victim} : <<j, victim>> \in usedAfter
          /\ Bind(k, v, Resident \ {victim})
          /\ Use(k, Resident \ {victim})

Get(k) ==
    /\ k \in Resident
    /\ Use(k, Resident)
    /\ UNCHANGED content

Remove(k) ==
    /\ k \in Resident
    /\ content' = [x \in Resident \ {k} |-> content[x]]
    /\ usedAfter' = {p \in usedAfter : p[1] # k /\ p[2] # k}

Next ==
    \E k \in Key :
        \/ \E v \in Value : Put(k, v) \/ PutEvicting(k, v)
        \/ Get(k)
        \/ Remove(k)

Spec == Init /\ [][Next]_vars

=============================================================================
