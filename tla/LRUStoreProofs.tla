--------------------------- MODULE LRUStoreProofs ---------------------------
(***************************************************************************)
(* Proofs about LRUStore for every set of keys, values and cells and every *)
(* capacity: its state is well typed, its three structures never come      *)
(* apart, it is the cache of LRUCache, and a batch leaves its last keys in *)
(* the list.  The lemmas follow the code: what erase does to a linked list *)
(* and index, what push_front does, and put, get and remove as the two in  *)
(* sequence.                                                               *)
(***************************************************************************)
EXTENDS LRUStore, SequenceTheorems, FunctionTheorems, FiniteSetTheorems, TLAPS

Node == [cell : Cell, key : Key]

-----------------------------------------------------------------------------
(* Operators on sequences                                                  *)

LEMMA RemoveAtProperties ==
    ASSUME NEW S, NEW s \in Seq(S), NEW i \in 1..Len(s)
    PROVE  /\ RemoveAt(s, i) \in Seq(S)
           /\ Len(RemoveAt(s, i)) = Len(s) - 1
           /\ \A j \in 1..(Len(s) - 1) :
                 RemoveAt(s, i)[j] = IF j < i THEN s[j] ELSE s[j + 1]
<1> DEFINE a == SubSeq(s, 1, i - 1)
           b == SubSeq(s, i + 1, Len(s))
<1>1. /\ a \in Seq(S)
      /\ Len(a) = i - 1
      /\ \A j \in 1..(i - 1) : a[j] = s[j]
  BY SubSeqProperties
<1>2. /\ b \in Seq(S)
      /\ Len(b) = Len(s) - i
      /\ \A j \in 1..(Len(s) - i) : b[j] = s[i + j]
  BY SubSeqProperties
<1> HIDE DEF a, b
<1>3. /\ a \o b \in Seq(S)
      /\ Len(a \o b) = Len(a) + Len(b)
      /\ \A j \in 1..(Len(a) + Len(b)) :
            (a \o b)[j] = IF j <= Len(a) THEN a[j] ELSE b[j - Len(a)]
  BY <1>1, <1>2, ConcatProperties
<1>4. Len(a) + Len(b) = Len(s) - 1
  BY <1>1, <1>2
<1>5. ASSUME NEW j \in 1..(Len(s) - 1)
      PROVE  (a \o b)[j] = IF j < i THEN s[j] ELSE s[j + 1]
  <2>1. CASE j < i
    BY <2>1, <1>1, <1>3, <1>4
  <2>2. CASE ~(j < i)
    <3>1. (a \o b)[j] = b[j - (i - 1)]
      BY <2>2, <1>1, <1>3, <1>4
    <3>2. j - (i - 1) \in 1..(Len(s) - i)
      BY <2>2
    <3> QED BY <3>1, <3>2, <2>2, <1>2
  <2> QED BY <2>1, <2>2
<1> QED BY <1>3, <1>4, <1>5 DEF RemoveAt, a, b

LEMMA FrontProperties ==
    ASSUME NEW S, NEW s \in Seq(S), Len(s) > 0
    PROVE  /\ Front(s) \in Seq(S)
           /\ Len(Front(s)) = Len(s) - 1
           /\ \A j \in 1..(Len(s) - 1) : Front(s)[j] = s[j]
           /\ Last(s) = s[Len(s)]
           /\ Last(s) \in S
<1> DEFINE n == Len(s) - 1
           f == SubSeq(s, 1, n)
<1>0. n \in 0..Len(s) /\ n \in Nat
  OBVIOUS
<1> HIDE DEF n
<1>1. /\ f \in Seq(S)
      /\ Len(f) = n
      /\ \A j \in 1..n : f[j] = s[j]
  BY <1>0, SubSeqProperties
<1>2. s[Len(s)] \in S
  OBVIOUS
<1> QED BY <1>1, <1>2 DEF Front, Last, n

LEMMA PushFrontProperties ==
    ASSUME NEW list \in Seq(Node), NEW c \in Cell, NEW key \in Key
    PROVE  /\ PushFront(list, c, key) \in Seq(Node)
           /\ Len(PushFront(list, c, key)) = Len(list) + 1
           /\ PushFront(list, c, key)[1] = [cell |-> c, key |-> key]
           /\ \A j \in 2..(Len(list) + 1) :
                 PushFront(list, c, key)[j] = list[j - 1]
<1> DEFINE e == <<[cell |-> c, key |-> key]>>
<1>1. e \in Seq(Node) /\ Len(e) = 1 /\ e[1] = [cell |-> c, key |-> key]
  BY DEF Node
<1> HIDE DEF e
<1>2. /\ e \o list \in Seq(Node)
      /\ Len(e \o list) = Len(e) + Len(list)
      /\ \A j \in 1..(Len(e) + Len(list)) :
            (e \o list)[j] = IF j <= Len(e) THEN e[j] ELSE list[j - Len(e)]
  BY <1>1, ConcatProperties
<1> QED BY <1>1, <1>2 DEF PushFront, e

-----------------------------------------------------------------------------
(* The list and the index                                                  *)

\* erase(index[k]) and index.erase(k) together leave a linked list and index.
LEMMA EraseLinked ==
    ASSUME NEW list \in Seq(Node), NEW ix, Linked(list, ix),
           NEW k \in DOMAIN ix
    PROVE  /\ Erase(list, ix[k]) \in Seq(Node)
           /\ Len(Erase(list, ix[k])) = Len(list) - 1
           /\ Linked(Erase(list, ix[k]), Without(ix, k))
<1>1. PICK i \in DOMAIN list : list[i].key = k
  BY DEF Linked, Keys
<1>2. /\ i \in 1..Len(list)
      /\ list[i].cell = ix[k]
  BY <1>1 DEF Linked
<1>3. (CHOOSE n \in DOMAIN list : list[n].cell = ix[k]) = i
  <2>1. \A n \in DOMAIN list : list[n].cell = ix[k] => n = i
    BY <1>1, <1>2 DEF Linked
  <2> QED BY <1>1, <1>2, <2>1
<1> DEFINE rest == RemoveAt(list, i)
<1>4. Erase(list, ix[k]) = rest
  BY <1>3 DEF Erase
<1>5. /\ rest \in Seq(Node)
      /\ Len(rest) = Len(list) - 1
      /\ \A j \in 1..(Len(list) - 1) :
            rest[j] = IF j < i THEN list[j] ELSE list[j + 1]
  BY <1>2, RemoveAtProperties
<1> HIDE DEF rest
<1>6. DOMAIN rest = 1..(Len(list) - 1) /\ DOMAIN list = 1..Len(list)
  BY <1>5
<1>7. ASSUME NEW j \in DOMAIN rest
      PROVE  \E n \in DOMAIN list :
                n # i /\ rest[j] = list[n] /\ n = (IF j < i THEN j ELSE j + 1)
  BY <1>2, <1>5, <1>6
<1>8. ASSUME NEW n \in DOMAIN list, n # i
      PROVE  \E j \in DOMAIN rest : rest[j] = list[n]
  <2>1. CASE n < i
    BY <2>1, <1>2, <1>5, <1>6
  <2>2. CASE n > i
    <3>1. n - 1 \in DOMAIN rest /\ rest[n - 1] = list[(n - 1) + 1]
      BY <2>2, <1>2, <1>5, <1>6
    <3> QED BY <3>1, <1>6
  <2> QED BY <2>1, <2>2, <1>8, <1>6, <1>2
<1>9. \A n \in DOMAIN list : n # i => list[n].key # k
  BY <1>1, <1>2 DEF Linked
<1>10. DOMAIN Without(ix, k) = Keys(rest)
  <2>1. Keys(rest) = Keys(list) \ {k}
    BY <1>1, <1>7, <1>8, <1>9 DEF Keys
  <2> QED BY <2>1 DEF Linked, Without
<1>11. \A j \in DOMAIN rest : Without(ix, k)[rest[j].key] = rest[j].cell
  <2> TAKE j \in DOMAIN rest
  <2>1. PICK n \in DOMAIN list : n # i /\ rest[j] = list[n]
    BY <1>7
  <2>2. list[n].key \in DOMAIN ix \ {k}
    BY <2>1, <1>9 DEF Linked, Keys
  <2> QED BY <2>1, <2>2 DEF Linked, Without
<1>12. \A j, m \in DOMAIN rest : rest[j].cell = rest[m].cell => j = m
  <2> SUFFICES ASSUME NEW j \in DOMAIN rest, NEW m \in DOMAIN rest,
                      rest[j].cell = rest[m].cell
               PROVE  j = m
    OBVIOUS
  <2>1. PICK n \in DOMAIN list :
          n # i /\ rest[j] = list[n] /\ n = (IF j < i THEN j ELSE j + 1)
    BY <1>7
  <2>2. PICK o \in DOMAIN list :
          o # i /\ rest[m] = list[o] /\ o = (IF m < i THEN m ELSE m + 1)
    BY <1>7
  <2>3. n = o
    BY <2>1, <2>2 DEF Linked
  <2> QED BY <2>1, <2>2, <2>3, <1>2, <1>6
<1> QED BY <1>4, <1>5, <1>10, <1>11, <1>12 DEF Linked

\* pop_back() and index.erase(lru_key) leave a linked list and index.
LEMMA PopBackLinked ==
    ASSUME NEW list \in Seq(Node), NEW ix, Linked(list, ix), Len(list) > 0
    PROVE  /\ Front(list) \in Seq(Node)
           /\ Len(Front(list)) = Len(list) - 1
           /\ Last(list).key \in DOMAIN ix
           /\ Linked(Front(list), Without(ix, Last(list).key))
<1> DEFINE n == Len(list)
           rest == Front(list)
           k == Last(list).key
<1>1. /\ rest \in Seq(Node)
      /\ Len(rest) = n - 1
      /\ \A j \in 1..(n - 1) : rest[j] = list[j]
      /\ Last(list) = list[n]
  BY FrontProperties
<1>2. DOMAIN rest = 1..(n - 1) /\ DOMAIN list = 1..n /\ n \in 1..n
  BY <1>1
<1> HIDE DEF rest, n, k
<1>3. k = list[n].key
  BY <1>1 DEF k
<1>4. \A j \in DOMAIN list : j # n => list[j].key # k
  BY <1>2, <1>3 DEF Linked
<1>5. k \in DOMAIN ix
  BY <1>2, <1>3 DEF Linked, Keys
<1>6. Keys(rest) = Keys(list) \ {k}
  <2>1. \A j \in DOMAIN list : j # n => j \in DOMAIN rest
    BY <1>1, <1>2
  <2>2. \A j \in DOMAIN rest : j \in DOMAIN list /\ j # n /\ rest[j] = list[j]
    BY <1>1, <1>2
  <2> QED BY <1>2, <1>3, <1>4, <2>1, <2>2 DEF Keys
<1>7. DOMAIN Without(ix, k) = Keys(rest)
  BY <1>6 DEF Linked, Without
<1>8. \A j \in DOMAIN rest : Without(ix, k)[rest[j].key] = rest[j].cell
  <2> TAKE j \in DOMAIN rest
  <2>1. j \in DOMAIN list /\ j # n /\ rest[j] = list[j]
    BY <1>1, <1>2
  <2>2. list[j].key \in DOMAIN ix \ {k}
    BY <2>1, <1>4 DEF Linked, Keys
  <2> QED BY <2>1, <2>2 DEF Linked, Without
<1>9. \A j, m \in DOMAIN rest : rest[j].cell = rest[m].cell => j = m
  BY <1>1, <1>2 DEF Linked
<1> QED BY <1>1, <1>5, <1>7, <1>8, <1>9 DEF Linked, rest, n, k

\* push_front(key) and index[key] = begin() on a linked list and index that do
\* not hold key leave a linked list and index that do.
LEMMA ToFrontLinked ==
    ASSUME NEW rest \in Seq(Node), NEW ix, NEW key \in Key,
           Linked(rest, Without(ix, key)), ToFront(rest, key, ix)
    PROVE  /\ lru_list' \in Seq(Node)
           /\ Len(lru_list') = Len(rest) + 1
           /\ Linked(lru_list', index')
           /\ DOMAIN index' = DOMAIN ix \cup {key}
<1>1. PICK c \in Cell \ Cells(rest) :
        /\ lru_list' = PushFront(rest, c, key)
        /\ index' = With(ix, key, c)
  BY DEF ToFront
<1>2. /\ lru_list' \in Seq(Node)
      /\ Len(lru_list') = Len(rest) + 1
      /\ lru_list'[1] = [cell |-> c, key |-> key]
      /\ \A j \in 2..(Len(rest) + 1) : lru_list'[j] = rest[j - 1]
  BY <1>1, PushFrontProperties
<1>3. /\ DOMAIN lru_list' = 1..(Len(rest) + 1)
      /\ DOMAIN rest = 1..Len(rest)
      /\ \A j \in DOMAIN rest : j + 1 \in DOMAIN lru_list'
      /\ 1 \in DOMAIN lru_list'
  BY <1>2
<1>4. ASSUME NEW j \in DOMAIN lru_list', j # 1
      PROVE  j - 1 \in DOMAIN rest /\ lru_list'[j] = rest[j - 1]
  BY <1>2, <1>3, <1>4
<1>5. ASSUME NEW j \in DOMAIN rest
      PROVE  lru_list'[j + 1] = rest[j]
  BY <1>2, <1>3
<1>6. DOMAIN index' = DOMAIN ix \cup {key}
  BY <1>1 DEF With
<1>7. DOMAIN Without(ix, key) = DOMAIN ix \ {key}
  BY DEF Without
<1>8. Keys(lru_list') = Keys(rest) \cup {key}
  <2>1. Keys(lru_list') \subseteq Keys(rest) \cup {key}
    BY <1>2, <1>4 DEF Keys
  <2>2. Keys(rest) \cup {key} \subseteq Keys(lru_list')
    BY <1>2, <1>3, <1>5 DEF Keys
  <2> QED BY <2>1, <2>2
<1>9. DOMAIN index' = Keys(lru_list')
  BY <1>6, <1>7, <1>8 DEF Linked
<1>10. \A j \in DOMAIN rest :
          rest[j].key \in DOMAIN ix \ {key} /\ ix[rest[j].key] = rest[j].cell
  BY <1>7 DEF Linked, Keys, Without
<1>11. \A j \in DOMAIN lru_list' : index'[lru_list'[j].key] = lru_list'[j].cell
  <2> TAKE j \in DOMAIN lru_list'
  <2>1. CASE j = 1
    BY <2>1, <1>1, <1>2 DEF With
  <2>2. CASE j # 1
    BY <2>2, <1>1, <1>4, <1>10 DEF With
  <2> QED BY <2>1, <2>2
<1>12. \A j \in DOMAIN rest : rest[j].cell # c
  BY <1>1 DEF Cells
<1>13. \A j, m \in DOMAIN lru_list' :
          lru_list'[j].cell = lru_list'[m].cell => j = m
  <2> SUFFICES ASSUME NEW j \in DOMAIN lru_list', NEW m \in DOMAIN lru_list',
                      lru_list'[j].cell = lru_list'[m].cell
               PROVE  j = m
    OBVIOUS
  <2>1. CASE j = 1 /\ m # 1
    BY <2>1, <1>2, <1>4, <1>12
  <2>2. CASE j # 1 /\ m = 1
    BY <2>2, <1>2, <1>4, <1>12
  <2>3. CASE j # 1 /\ m # 1
    <3>1. j - 1 = m - 1
      BY <2>3, <1>4 DEF Linked
    <3> QED BY <3>1, <1>3
  <2> QED BY <2>1, <2>2, <2>3
<1> QED BY <1>2, <1>6, <1>9, <1>11, <1>13 DEF Linked

\* index.erase(k) of a key that is not indexed changes nothing.
LEMMA WithoutAbsent ==
    ASSUME NEW list, NEW ix, Linked(list, ix), NEW k, k \notin DOMAIN ix
    PROVE  Linked(list, Without(ix, k))
<1>1. DOMAIN Without(ix, k) = DOMAIN ix
  BY DEF Without
<1>2. \A x \in DOMAIN ix : Without(ix, k)[x] = ix[x]
  BY DEF Without
<1>3. \A i \in DOMAIN list : list[i].key \in DOMAIN ix
  BY DEF Linked, Keys
<1> QED BY <1>1, <1>2, <1>3 DEF Linked

\* Index typing, kept apart from the shape of the list.
LEMMA WithoutTyped ==
    ASSUME NEW S, NEW T, NEW f \in PartialMap(S, T), NEW k
    PROVE  Without(f, k) \in PartialMap(S, T)
<1>1. PICK D \in SUBSET S : f \in [D -> T]
  BY DEF PartialMap
<1>2. Without(f, k) \in [D \ {k} -> T]
  BY <1>1 DEF Without
<1> QED BY <1>1, <1>2 DEF PartialMap

LEMMA WithTyped ==
    ASSUME NEW S, NEW T, NEW f \in PartialMap(S, T), NEW k \in S, NEW v \in T
    PROVE  With(f, k, v) \in PartialMap(S, T)
<1>1. PICK D \in SUBSET S : f \in [D -> T]
  BY DEF PartialMap
<1>2. With(f, k, v) \in [D \cup {k} -> T]
  BY <1>1 DEF With
<1> QED BY <1>1, <1>2 DEF PartialMap

LEMMA ToFrontTyped ==
    ASSUME NEW rest \in Seq(Node), NEW ix \in PartialMap(Key, Cell),
           NEW key \in Key, ToFront(rest, key, ix)
    PROVE  index' \in PartialMap(Key, Cell)
BY WithTyped DEF ToFront

-----------------------------------------------------------------------------
(* The three cases of put                                                  *)

ListInv == TypeOK /\ Coherent

LEMMA PutKeepsCoherent ==
    ASSUME ListInv, NEW key \in Key, NEW value \in Value, put(key, value)
    PROVE  /\ lru_list' \in Seq(Node)
           /\ index' \in PartialMap(Key, Cell)
           /\ store' \in PartialMap(Key, Value)
           /\ used' \in SUBSET Key
           /\ removed' \in SUBSET used'
           /\ Coherent'
<1> USE CapacityAssumption
<1>0. /\ lru_list \in Seq(Node)
      /\ index \in PartialMap(Key, Cell)
      /\ store \in PartialMap(Key, Value)
      /\ DOMAIN store = DOMAIN index
      /\ Linked(lru_list, index)
      /\ Len(lru_list) <= capacity
      /\ Len(lru_list) \in Nat
  BY DEF ListInv, TypeOK, Coherent, Node
<1>1. used' \in SUBSET Key /\ removed' \in SUBSET used'
  BY DEF ListInv, TypeOK, put, Touch
<1>2. CASE PutExisting(key, value)
  <2> DEFINE rest == Erase(lru_list, index[key])
  <2>1. key \in DOMAIN index /\ ToFront(rest, key, index)
    BY <1>2 DEF PutExisting
  <2>2. /\ rest \in Seq(Node)
        /\ Len(rest) = Len(lru_list) - 1
        /\ Linked(rest, Without(index, key))
    BY <1>0, <2>1, EraseLinked
  <2> HIDE DEF rest
  <2>3. /\ lru_list' \in Seq(Node)
        /\ Len(lru_list') = Len(rest) + 1
        /\ Linked(lru_list', index')
        /\ DOMAIN index' = DOMAIN index \cup {key}
    BY <2>1, <2>2, ToFrontLinked
  <2>4. index' \in PartialMap(Key, Cell)
    BY <1>0, <2>1, <2>2, ToFrontTyped
  <2>5. store' = With(store, key, value)
    BY <1>2 DEF PutExisting
  <2>6. store' \in PartialMap(Key, Value)
    BY <1>0, <2>5, WithTyped
  <2>7. DOMAIN store' = DOMAIN index'
    BY <1>0, <2>3, <2>5 DEF With
  <2> QED BY <1>0, <1>1, <2>2, <2>3, <2>4, <2>6, <2>7 DEF Coherent
<1>3. CASE PutRoom(key, value)
  <2>1. /\ key \notin DOMAIN index
        /\ Len(lru_list) < capacity
        /\ ToFront(lru_list, key, index)
        /\ store' = With(store, key, value)
    BY <1>3 DEF PutRoom
  <2>2. Linked(lru_list, Without(index, key))
    BY <1>0, <2>1, WithoutAbsent
  <2>3. /\ lru_list' \in Seq(Node)
        /\ Len(lru_list') = Len(lru_list) + 1
        /\ Linked(lru_list', index')
        /\ DOMAIN index' = DOMAIN index \cup {key}
    BY <1>0, <2>1, <2>2, ToFrontLinked
  <2>4. index' \in PartialMap(Key, Cell)
    BY <1>0, <2>1, ToFrontTyped
  <2>5. store' \in PartialMap(Key, Value) /\ DOMAIN store' = DOMAIN index'
    <3>1. store' \in PartialMap(Key, Value)
      BY <1>0, <2>1, WithTyped
    <3>2. DOMAIN store' = DOMAIN index'
      BY <1>0, <2>1, <2>3 DEF With
    <3> QED BY <3>1, <3>2
  <2> QED BY <1>0, <1>1, <2>1, <2>3, <2>4, <2>5 DEF Coherent
<1>4. CASE PutEvicting(key, value)
  <2> DEFINE rest    == Front(lru_list)
             lru_key == Last(lru_list).key
             ix      == Without(index, lru_key)
  <2>1. /\ key \notin DOMAIN index
        /\ Len(lru_list) >= capacity
        /\ ToFront(rest, key, ix)
        /\ store' = With(Without(store, lru_key), key, value)
    BY <1>4 DEF PutEvicting
  <2>2. /\ rest \in Seq(Node)
        /\ Len(rest) = Len(lru_list) - 1
        /\ lru_key \in DOMAIN index
        /\ Linked(rest, ix)
    BY <1>0, <2>1, PopBackLinked
  <2>3. ix \in PartialMap(Key, Cell)
    BY <1>0, WithoutTyped
  <2>4. DOMAIN ix = DOMAIN index \ {lru_key}
    BY DEF Without
  <2>5. Without(store, lru_key) \in PartialMap(Key, Value)
    BY <1>0, WithoutTyped
  <2>6. DOMAIN Without(store, lru_key) = DOMAIN ix
    BY <1>0 DEF Without
  <2> HIDE DEF rest, lru_key, ix
  <2>7. Linked(rest, Without(ix, key))
    <3>1. key \notin DOMAIN ix
      BY <2>1, <2>4
    <3> QED BY <2>2, <3>1, WithoutAbsent
  <2>8. /\ lru_list' \in Seq(Node)
        /\ Len(lru_list') = Len(rest) + 1
        /\ Linked(lru_list', index')
        /\ DOMAIN index' = DOMAIN ix \cup {key}
    BY <2>1, <2>2, <2>7, ToFrontLinked
  <2>9. index' \in PartialMap(Key, Cell)
    BY <2>1, <2>2, <2>3, ToFrontTyped
  <2>10. store' \in PartialMap(Key, Value)
    BY <2>1, <2>5, WithTyped
  <2>11. DOMAIN store' = DOMAIN index'
    BY <2>1, <2>6, <2>8 DEF With
  <2> QED BY <1>0, <1>1, <2>2, <2>8, <2>9, <2>10, <2>11 DEF Coherent
<1> QED BY <1>2, <1>3, <1>4 DEF put

-----------------------------------------------------------------------------
(* The theorems                                                            *)

LEMMA InitKeeps == Init => ListInv
<1> SUFFICES ASSUME Init PROVE ListInv
  OBVIOUS
<1>1. DOMAIN lru_list = {} /\ Len(lru_list) = 0 /\ lru_list \in Seq(Node)
  BY DEF Init, Node
<1>2. DOMAIN store = {} /\ DOMAIN index = {} /\ DOMAIN batch = {}
  BY DEF Init
<1>3. /\ store \in PartialMap(Key, Value)
      /\ index \in PartialMap(Key, Cell)
      /\ batch \in PartialMap(Key, Value)
  <2>1. \A T : [k \in {} |-> k] \in [{} -> T]
    OBVIOUS
  <2>2. {} \in SUBSET Key
    OBVIOUS
  <2> QED BY <2>1, <2>2 DEF Init, PartialMap
<1>4. TypeOK
  BY <1>1, <1>3 DEF Init, TypeOK, Node
<1>5. Linked(lru_list, index)
  BY <1>1, <1>2 DEF Linked, Keys
<1>6. Coherent
  BY <1>1, <1>2, <1>5, CapacityAssumption DEF Coherent
<1> QED BY <1>4, <1>6 DEF ListInv

LEMMA GetKeeps ==
    ASSUME ListInv, NEW key \in Key, Get(key)
    PROVE  ListInv'
<1> DEFINE rest == Erase(lru_list, index[key])
<1>1. /\ key \in DOMAIN index
      /\ ToFront(rest, key, index)
      /\ UNCHANGED <<store, batch>>
  BY DEF ListInv, Coherent, Get
<1>2. /\ lru_list \in Seq(Node)
      /\ index \in PartialMap(Key, Cell)
      /\ Linked(lru_list, index)
  BY DEF ListInv, TypeOK, Coherent, Node
<1>3. /\ rest \in Seq(Node)
      /\ Len(rest) = Len(lru_list) - 1
      /\ Linked(rest, Without(index, key))
  BY <1>1, <1>2, EraseLinked
<1> HIDE DEF rest
<1>4. /\ lru_list' \in Seq(Node)
      /\ Len(lru_list') = Len(rest) + 1
      /\ Linked(lru_list', index')
      /\ DOMAIN index' = DOMAIN index \cup {key}
  BY <1>1, <1>3, ToFrontLinked
<1>5. index' \in PartialMap(Key, Cell)
  BY <1>1, <1>2, <1>3, ToFrontTyped
<1>6. used' \in SUBSET Key /\ removed' \in SUBSET used'
  BY DEF ListInv, TypeOK, Get, Touch
<1>7. TypeOK'
  BY <1>1, <1>4, <1>5, <1>6 DEF ListInv, TypeOK, Node
<1>8. Len(lru_list') = Len(lru_list)
  BY <1>2, <1>3, <1>4
<1>9. Coherent'
  BY <1>1, <1>4, <1>8 DEF ListInv, Coherent
<1> QED BY <1>7, <1>9 DEF ListInv

LEMMA RemoveKeyKeeps ==
    ASSUME ListInv, NEW key \in Key, RemoveKey(key)
    PROVE  ListInv'
<1> USE CapacityAssumption
<1>1. /\ key \in DOMAIN index
      /\ lru_list' = Erase(lru_list, index[key])
      /\ index' = Without(index, key)
      /\ store' = Without(store, key)
      /\ UNCHANGED batch
  BY DEF ListInv, Coherent, RemoveKey
<1>2. /\ lru_list \in Seq(Node)
      /\ Len(lru_list) \in Nat
      /\ index \in PartialMap(Key, Cell)
      /\ store \in PartialMap(Key, Value)
      /\ Linked(lru_list, index)
  BY DEF ListInv, TypeOK, Coherent, Node
<1>3. /\ lru_list' \in Seq(Node)
      /\ Len(lru_list') = Len(lru_list) - 1
      /\ Linked(lru_list', index')
  BY <1>1, <1>2, EraseLinked
<1>4. /\ index' \in PartialMap(Key, Cell)
      /\ store' \in PartialMap(Key, Value)
  BY <1>1, <1>2, WithoutTyped
<1>5. used' \in SUBSET Key /\ removed' \in SUBSET used'
  BY DEF ListInv, TypeOK, RemoveKey
<1>6. TypeOK'
  BY <1>1, <1>3, <1>4, <1>5 DEF ListInv, TypeOK, Node
<1>7. DOMAIN store' = DOMAIN index'
  BY <1>1 DEF ListInv, Coherent, Without
<1>8. Coherent'
  BY <1>2, <1>3, <1>7 DEF ListInv, Coherent
<1> QED BY <1>6, <1>8 DEF ListInv

LEMMA NextKeeps == ListInv /\ [Next]_vars => ListInv'
<1> SUFFICES ASSUME ListInv, [Next]_vars PROVE ListInv'
  OBVIOUS
<1>1. ASSUME NEW key \in Key, NEW value \in Value, Put(key, value)
      PROVE  ListInv'
  <2>1. put(key, value) /\ UNCHANGED batch
    BY <1>1 DEF Put
  <2> QED BY <2>1, PutKeepsCoherent DEF ListInv, TypeOK, Node
<1>2. ASSUME NEW key \in Key, Get(key)
      PROVE  ListInv'
  BY <1>2, GetKeeps
<1>3. ASSUME NEW key \in Key, RemoveKey(key)
      PROVE  ListInv'
  BY <1>3, RemoveKeyKeeps
<1>4. ASSUME NEW key \in Key, BatchPut(key)
      PROVE  ListInv'
  <2>1. /\ key \in DOMAIN batch
        /\ put(key, batch[key])
        /\ batch' = Without(batch, key)
        /\ batch \in PartialMap(Key, Value)
    BY <1>4 DEF BatchPut, ListInv, TypeOK
  <2>2. batch[key] \in Value
    BY <2>1 DEF PartialMap
  <2>3. batch' \in PartialMap(Key, Value)
    BY <2>1, WithoutTyped
  <2> QED BY <2>1, <2>2, <2>3, PutKeepsCoherent DEF ListInv, TypeOK, Node
<1>5. ASSUME NEW kvs \in PartialMap(Key, Value), SetKvBatch(kvs)
      PROVE  ListInv'
  <2>1. TypeOK'
    BY <1>5 DEF ListInv, TypeOK, SetKvBatch
  <2>2. Coherent'
    BY <1>5 DEF ListInv, Coherent, Linked, Keys, SetKvBatch
  <2> QED BY <2>1, <2>2 DEF ListInv
<1>6. CASE UNCHANGED vars
  <2>1. TypeOK'
    BY <1>6 DEF ListInv, TypeOK, vars
  <2>2. Coherent'
    BY <1>6 DEF ListInv, Coherent, Linked, Keys, vars
  <2> QED BY <2>1, <2>2 DEF ListInv
<1> QED BY <1>1, <1>2, <1>3, <1>4, <1>5, <1>6 DEF Next

\* Every state of the store is well typed, whatever the capacity and however
\* the operations of several threads fall between the puts of a batch.
THEOREM StoreTyped == Spec => []TypeOK
<1>1. ListInv => TypeOK
  BY DEF ListInv
<1> QED BY <1>1, InitKeeps, NextKeeps, PTL DEF Spec

\* The hash map, the recency list and the index never disagree, no iterator
\* in the index ever dangles, and the list never outgrows the capacity.
THEOREM StoreCoherent == Spec => []Coherent
<1>1. ListInv => Coherent
  BY DEF ListInv
<1> QED BY <1>1, InitKeeps, NextKeeps, PTL DEF Spec

-----------------------------------------------------------------------------
(* The order of use                                                        *)

InFront(list, a, b) ==
    \E i, j \in DOMAIN list : i < j /\ list[i].key = a /\ list[j].key = b

Order(list) == {p \in Keys(list) \X Keys(list) : InFront(list, p[1], p[2])}

LEMMA RecencyIsOrder == Recency = Order(lru_list)
BY DEF Recency, Order, InFront

LEMMA KeyOnce ==
    ASSUME NEW list, NEW ix, Linked(list, ix)
    PROVE  \A m, n \in DOMAIN list : list[m].key = list[n].key => m = n
BY DEF Linked

\* A list without its i-th element has the other keys in the same order.
LEMMA DropOrder ==
    ASSUME NEW list \in Seq(Node), NEW i \in 1..Len(list),
           NEW rest \in Seq(Node), Len(rest) = Len(list) - 1,
           \A j \in 1..(Len(list) - 1) :
              rest[j] = IF j < i THEN list[j] ELSE list[j + 1],
           \A m, n \in DOMAIN list : list[m].key = list[n].key => m = n
    PROVE  /\ Keys(rest) = Keys(list) \ {list[i].key}
           /\ Order(rest) = {p \in Order(list) : p[1] # list[i].key /\ p[2] # list[i].key}
<1> DEFINE up(j) == IF j < i THEN j ELSE j + 1
           k == list[i].key
<1>1. DOMAIN list = 1..Len(list) /\ DOMAIN rest = 1..(Len(list) - 1) /\ Len(list) \in Nat
  OBVIOUS
<1>2. \A j \in DOMAIN rest :
         up(j) \in DOMAIN list /\ up(j) # i /\ rest[j] = list[up(j)]
  BY <1>1
<1>3. ASSUME NEW n \in DOMAIN list, n # i
      PROVE  \E j \in DOMAIN rest : n = up(j)
  <2>1. CASE n < i
    BY <1>1, <2>1
  <2>2. CASE n > i
    <3>1. n - 1 \in DOMAIN rest /\ up(n - 1) = n
      BY <1>1, <2>2
    <3> QED BY <3>1
  <2> QED BY <1>1, <1>3, <2>1, <2>2
<1>4. \A j, m \in DOMAIN rest : j < m <=> up(j) < up(m)
  BY <1>1
<1> HIDE DEF up
<1>5. Keys(rest) = Keys(list) \ {k}
  <2>1. ASSUME NEW j \in DOMAIN rest PROVE rest[j].key \in Keys(list) \ {k}
    <3>1. list[up(j)].key # list[i].key
      BY <1>1, <1>2
    <3> QED BY <1>2, <3>1 DEF Keys
  <2>2. Keys(list) \ {k} \subseteq Keys(rest)
    <3>1. ASSUME NEW a \in Keys(list), a # k PROVE a \in Keys(rest)
      <4>1. PICK n \in DOMAIN list : list[n].key = a
        BY DEF Keys
      <4>2. PICK j \in DOMAIN rest : n = up(j)
        BY <1>3, <3>1, <4>1
      <4> QED BY <1>2, <4>1, <4>2 DEF Keys
    <3> QED BY <3>1
  <2>3. Keys(rest) \subseteq Keys(list) \ {k}
    BY <2>1 DEF Keys
  <2> QED BY <2>2, <2>3
<1>6. ASSUME NEW a, NEW b, InFront(rest, a, b)
      PROVE  InFront(list, a, b)
  <2>1. PICK j, m \in DOMAIN rest : j < m /\ rest[j].key = a /\ rest[m].key = b
    BY <1>6 DEF InFront
  <2>2. up(j) < up(m)
    BY <1>4, <2>1
  <2> QED BY <1>2, <2>1, <2>2 DEF InFront
<1>7. ASSUME NEW a, NEW b, InFront(list, a, b), a # k, b # k
      PROVE  InFront(rest, a, b)
  <2>1. PICK n, o \in DOMAIN list : n < o /\ list[n].key = a /\ list[o].key = b
    BY <1>7 DEF InFront
  <2>2. n # i /\ o # i
    BY <1>7, <2>1
  <2>3. PICK j \in DOMAIN rest : n = up(j)
    BY <1>3, <2>2
  <2>4. PICK m \in DOMAIN rest : o = up(m)
    BY <1>3, <2>2
  <2>5. j < m
    BY <1>4, <2>1, <2>3, <2>4
  <2> QED BY <1>2, <2>1, <2>3, <2>4, <2>5 DEF InFront
<1> HIDE DEF k
<1>8. Order(rest) = {p \in Order(list) : p[1] # k /\ p[2] # k}
  BY <1>5, <1>6, <1>7 DEF Order
<1> QED BY <1>5, <1>8 DEF k

LEMMA EraseOrder ==
    ASSUME NEW list \in Seq(Node), NEW ix, Linked(list, ix), NEW k \in DOMAIN ix
    PROVE  /\ Keys(Erase(list, ix[k])) = Keys(list) \ {k}
           /\ Order(Erase(list, ix[k])) = {p \in Order(list) : p[1] # k /\ p[2] # k}
<1>1. PICK i \in DOMAIN list : list[i].key = k
  BY DEF Linked, Keys
<1>2. i \in 1..Len(list)
  BY <1>1
<1>3. (CHOOSE n \in DOMAIN list : list[n].cell = ix[k]) = i
  <2>1. list[i].cell = ix[k]
    BY <1>1 DEF Linked
  <2>2. \A n \in DOMAIN list : list[n].cell = ix[k] => n = i
    BY <1>1, <2>1 DEF Linked
  <2> QED BY <1>1, <2>1, <2>2
<1>4. Erase(list, ix[k]) = RemoveAt(list, i)
  BY <1>3 DEF Erase
<1>5. /\ RemoveAt(list, i) \in Seq(Node)
      /\ Len(RemoveAt(list, i)) = Len(list) - 1
      /\ \A j \in 1..(Len(list) - 1) :
            RemoveAt(list, i)[j] = IF j < i THEN list[j] ELSE list[j + 1]
  BY <1>2, RemoveAtProperties
<1>6. \A m, n \in DOMAIN list : list[m].key = list[n].key => m = n
  BY KeyOnce
<1> DEFINE rest == RemoveAt(list, i)
<1> HIDE DEF rest
<1>7. /\ Keys(rest) = Keys(list) \ {list[i].key}
      /\ Order(rest) = {p \in Order(list) : p[1] # list[i].key /\ p[2] # list[i].key}
  <2>1. /\ rest \in Seq(Node)
        /\ Len(rest) = Len(list) - 1
        /\ \A j \in 1..(Len(list) - 1) : rest[j] = IF j < i THEN list[j] ELSE list[j + 1]
    BY <1>5 DEF rest
  <2> QED BY <1>2, <1>6, <2>1, DropOrder
<1>8. Erase(list, ix[k]) = rest
  BY <1>4 DEF rest
<1> QED BY <1>1, <1>7, <1>8

\* The key at the back is the one used least recently.
LEMMA PopBackOrder ==
    ASSUME NEW list \in Seq(Node), NEW ix, Linked(list, ix), Len(list) > 0
    PROVE  LET k == Last(list).key
           IN  /\ k \in Keys(list)
               /\ Keys(Front(list)) = Keys(list) \ {k}
               /\ Order(Front(list)) = {p \in Order(list) : p[1] # k /\ p[2] # k}
               /\ \A j \in Keys(list) \ {k} : <<j, k>> \in Order(list)
<1> DEFINE n == Len(list)
           k == Last(list).key
           rest == Front(list)
<1>1. /\ rest \in Seq(Node)
      /\ Len(rest) = n - 1
      /\ \A j \in 1..(n - 1) : rest[j] = list[j]
      /\ Last(list) = list[n]
  BY FrontProperties
<1>2. n \in 1..n /\ DOMAIN list = 1..n
  OBVIOUS
<1>3. k = list[n].key
  BY <1>1
<1>4. \A m, o \in DOMAIN list : list[m].key = list[o].key => m = o
  BY KeyOnce
<1> HIDE DEF rest, k
<1>5. /\ Keys(rest) = Keys(list) \ {list[n].key}
      /\ Order(rest) = {p \in Order(list) : p[1] # list[n].key /\ p[2] # list[n].key}
  <2>1. \A j \in 1..(n - 1) : rest[j] = IF j < n THEN list[j] ELSE list[j + 1]
    BY <1>1
  <2>2. rest \in Seq(Node) /\ Len(rest) = n - 1 /\ n \in 1..n
    BY <1>1, <1>2
  <2> QED BY <1>4, <2>1, <2>2, DropOrder
<1>6. k \in Keys(list)
  BY <1>2, <1>3 DEF Keys
<1>7. ASSUME NEW j \in Keys(list) \ {k} PROVE <<j, k>> \in Order(list)
  <2>1. PICK m \in DOMAIN list : list[m].key = j
    BY DEF Keys
  <2>2. m < n
    BY <1>2, <1>3, <1>7, <2>1
  <2>3. InFront(list, j, k)
    BY <1>2, <1>3, <2>1, <2>2 DEF InFront
  <2> QED BY <1>6, <2>3 DEF Order
<1> QED BY <1>3, <1>5, <1>6, <1>7 DEF k, rest

\* A key in front of a list was used after all others.
LEMMA ToFrontOrder ==
    ASSUME NEW rest \in Seq(Node), NEW ix, NEW key \in Key \ Keys(rest),
           ToFront(rest, key, ix)
    PROVE  /\ Keys(lru_list') = Keys(rest) \cup {key}
           /\ Order(lru_list') = Order(rest) \cup ({key} \X Keys(rest))
<1> DEFINE list == lru_list'
<1>1. PICK c \in Cell : list = PushFront(rest, c, key)
  BY DEF ToFront
<1>a. /\ list \in Seq(Node)
      /\ Len(list) = Len(rest) + 1
      /\ list[1] = [cell |-> c, key |-> key]
      /\ \A j \in 2..(Len(rest) + 1) : list[j] = rest[j - 1]
  BY <1>1, PushFrontProperties
<1>2. /\ list \in Seq(Node)
      /\ Len(list) = Len(rest) + 1
      /\ list[1].key = key
      /\ \A j \in 2..(Len(rest) + 1) : list[j] = rest[j - 1]
  BY <1>a
<1> HIDE DEF list
<1>3. DOMAIN list = 1..(Len(rest) + 1) /\ DOMAIN rest = 1..Len(rest) /\ Len(rest) \in Nat
  BY <1>2
<1>4. \A j \in DOMAIN rest : j + 1 \in DOMAIN list /\ list[j + 1] = rest[j] /\ j + 1 > 1
  BY <1>2, <1>3
<1>5. \A j \in DOMAIN list : j # 1 => j - 1 \in DOMAIN rest /\ list[j] = rest[j - 1]
  BY <1>2, <1>3
<1>6. 1 \in DOMAIN list
  BY <1>3
<1>7. Keys(list) = Keys(rest) \cup {key}
  <2>1. Keys(list) \subseteq Keys(rest) \cup {key}
    BY <1>2, <1>5 DEF Keys
  <2>2. Keys(rest) \cup {key} \subseteq Keys(list)
    BY <1>2, <1>4, <1>6 DEF Keys
  <2> QED BY <2>1, <2>2
<1>8. ASSUME NEW a, NEW b, InFront(list, a, b)
      PROVE  InFront(rest, a, b) \/ (a = key /\ b \in Keys(rest))
  <2>1. PICK i, j \in DOMAIN list : i < j /\ list[i].key = a /\ list[j].key = b
    BY <1>8 DEF InFront
  <2>2. j # 1 /\ j - 1 \in DOMAIN rest /\ rest[j - 1].key = b
    BY <1>3, <1>5, <2>1
  <2>3. CASE i = 1
    BY <1>2, <2>1, <2>2, <2>3 DEF Keys
  <2>4. CASE i # 1
    <3>1. i - 1 \in DOMAIN rest /\ rest[i - 1].key = a
      BY <1>5, <2>1, <2>4
    <3>2. i - 1 < j - 1
      BY <1>3, <2>1
    <3> QED BY <2>2, <3>1, <3>2 DEF InFront
  <2> QED BY <2>3, <2>4
<1>9. ASSUME NEW a, NEW b, InFront(rest, a, b) PROVE InFront(list, a, b)
  <2>1. PICK i, j \in DOMAIN rest : i < j /\ rest[i].key = a /\ rest[j].key = b
    BY <1>9 DEF InFront
  <2>2. i + 1 < j + 1
    BY <1>3, <2>1
  <2> QED BY <1>4, <2>1, <2>2 DEF InFront
<1>10. ASSUME NEW b \in Keys(rest) PROVE InFront(list, key, b)
  <2>1. PICK j \in DOMAIN rest : rest[j].key = b
    BY DEF Keys
  <2>2. 1 < j + 1
    BY <1>3
  <2> QED BY <1>2, <1>4, <1>6, <2>1, <2>2 DEF InFront
<1>11. \A a, b : InFront(rest, a, b) => a \in Keys(rest) /\ b \in Keys(rest)
  BY DEF InFront, Keys
<1>12. Order(list) \subseteq Order(rest) \cup ({key} \X Keys(rest))
  BY <1>8, <1>11 DEF Order
<1>13. Order(rest) \subseteq Order(list)
  BY <1>7, <1>9 DEF Order
<1>14. {key} \X Keys(rest) \subseteq Order(list)
  BY <1>7, <1>10 DEF Order
<1>15. Order(list) = Order(rest) \cup ({key} \X Keys(rest))
  BY <1>12, <1>13, <1>14
<1> QED BY <1>7, <1>15 DEF list

LEMMA KeysCounted ==
    ASSUME NEW list \in Seq(Node), NEW ix, Linked(list, ix)
    PROVE  IsFiniteSet(Keys(list)) /\ Cardinality(Keys(list)) = Len(list)
<1> DEFINE f == [i \in 1..Len(list) |-> list[i].key]
<1>1. Len(list) \in Nat /\ DOMAIN list = 1..Len(list)
  OBVIOUS
<1>2. f \in [1..Len(list) -> Keys(list)]
  BY <1>1 DEF Keys
<1>3. \A a, b \in 1..Len(list) : f[a] = f[b] => a = b
  BY <1>1, KeyOnce
<1>4. \A k \in Keys(list) : \E i \in 1..Len(list) : f[i] = k
  BY <1>1 DEF Keys
<1> HIDE DEF f
<1>5. f \in Bijection(1..Len(list), Keys(list))
  BY <1>2, <1>3, <1>4, Fun_IsBij
<1>6. ExistsBijection(1..Len(list), Keys(list))
  BY <1>5 DEF ExistsBijection
<1>7. IsFiniteSet(1..Len(list)) /\ Cardinality(1..Len(list)) = Len(list)
  BY <1>1, FS_Interval
<1> QED BY <1>6, <1>7, FS_Bijection

-----------------------------------------------------------------------------
(* Every operation is one of LRUCache                                      *)

LEMMA ListFacts ==
    ASSUME ListInv
    PROVE  /\ lru_list \in Seq(Node)
           /\ Linked(lru_list, index)
           /\ DOMAIN store = DOMAIN index
           /\ DOMAIN store = Keys(lru_list)
           /\ IsFiniteSet(DOMAIN store)
           /\ Cardinality(DOMAIN store) = Len(lru_list)
           /\ Len(lru_list) \in Nat
<1>1. lru_list \in Seq(Node) /\ Linked(lru_list, index) /\ DOMAIN store = DOMAIN index
  BY DEF ListInv, TypeOK, Coherent, Node
<1>2. DOMAIN store = Keys(lru_list)
  BY <1>1 DEF Linked
<1> QED BY <1>1, <1>2, KeysCounted

\* Leaving one key out of an order, as the list does and as LRUCache says it.
LEMMA WithoutKey ==
    ASSUME NEW D, NEW R \in SUBSET (D \X D), NEW k
    PROVE  /\ {p \in R : p[1] # k /\ p[2] # k}
                = {p \in R : p[1] \in D \ {k} /\ p[2] \in D \ {k}}
           /\ k \notin D => D \ {k} = D /\ {p \in R : p[1] # k /\ p[2] # k} = R
<1>1. ASSUME NEW p \in R PROVE p[1] \in D /\ p[2] \in D
  OBVIOUS
<1>2. {p \in R : p[1] # k /\ p[2] # k}
         = {p \in R : p[1] \in D \ {k} /\ p[2] \in D \ {k}}
  BY <1>1
<1>3. k \notin D => D \ {k} = D /\ {p \in R : p[1] # k /\ p[2] # k} = R
  BY <1>1
<1> QED BY <1>2, <1>3

\* What is left of the list when a key goes to its front, in the terms of LRUCache.
LEMMA UseImplements ==
    ASSUME NEW rest \in Seq(Node), NEW ix, NEW key \in Key \ Keys(rest),
           ToFront(rest, key, ix), NEW ks,
           ks \ {key} = Keys(rest),
           Order(rest) = {p \in Recency : p[1] \in ks \ {key} /\ p[2] \in ks \ {key}}
    PROVE  LRU!Use(key, ks)
<1>1. Order(lru_list') = Order(rest) \cup ({key} \X Keys(rest))
  BY ToFrontOrder
<1>2. Recency' = Order(lru_list')
  BY DEF Recency, Order, InFront
<1> QED BY <1>1, <1>2 DEF LRU!Use

\* A key taken out of the list and put at its front.
LEMMA MoveImplements ==
    ASSUME ListInv, NEW key \in Key, key \in DOMAIN store,
           ToFront(Erase(lru_list, index[key]), key, index)
    PROVE  LRU!Use(key, DOMAIN store)
<1> DEFINE rest == Erase(lru_list, index[key])
<1>1. /\ lru_list \in Seq(Node)
      /\ Linked(lru_list, index)
      /\ key \in DOMAIN index
      /\ DOMAIN store = Keys(lru_list)
  BY ListFacts
<1>2. rest \in Seq(Node)
  BY <1>1, EraseLinked
<1>3. /\ Keys(rest) = DOMAIN store \ {key}
      /\ Order(rest) = {p \in Order(lru_list) : p[1] # key /\ p[2] # key}
  BY <1>1, EraseOrder
<1> HIDE DEF rest
<1>4. Order(lru_list) \in SUBSET ((DOMAIN store) \X (DOMAIN store))
  BY <1>1 DEF Order
<1>5. Order(rest) = {p \in Recency : p[1] \in DOMAIN store \ {key}
                                       /\ p[2] \in DOMAIN store \ {key}}
  BY <1>3, <1>4, WithoutKey, RecencyIsOrder
<1>6. ToFront(rest, key, index)
  BY DEF rest
<1> QED BY <1>2, <1>3, <1>5, <1>6, UseImplements

\* Both modules count alike: LRUCache's Cardinality is its own copy of FiniteSets.
LEMMA SameCardinality == \A S : LRU!Cardinality(S) = Cardinality(S)
BY DEF LRU!Cardinality, Cardinality, LRU!IsFiniteSet, IsFiniteSet

LEMMA PutImplements ==
    ASSUME ListInv, NEW key \in Key, NEW value \in Value, put(key, value)
    PROVE  LRU!Put(key, value) \/ LRU!PutEvicting(key, value)
<1>0. /\ lru_list \in Seq(Node)
      /\ Linked(lru_list, index)
      /\ DOMAIN store = DOMAIN index
      /\ DOMAIN store = Keys(lru_list)
      /\ Cardinality(DOMAIN store) = Len(lru_list)
      /\ Len(lru_list) \in Nat
      /\ capacity \in Nat \ {0}
  BY ListFacts, CapacityAssumption
<1>1. Recency = Order(lru_list)
  BY RecencyIsOrder
<1>2. Recency \in SUBSET ((DOMAIN store) \X (DOMAIN store))
  BY <1>0, <1>1 DEF Order
<1>3. CASE PutExisting(key, value)
  <2>1. key \in DOMAIN store /\ LRU!Use(key, DOMAIN store)
    BY <1>0, <1>3, MoveImplements DEF PutExisting
  <2>2. LRU!Bind(key, value, DOMAIN store)
    BY <1>3 DEF PutExisting, LRU!Bind, With
  <2> QED BY <2>1, <2>2 DEF LRU!Put, LRU!Resident
<1>4. CASE PutRoom(key, value)
  <2>1. /\ key \notin Keys(lru_list)
        /\ Len(lru_list) < capacity
        /\ ToFront(lru_list, key, index)
    BY <1>0, <1>4 DEF PutRoom
  <2>2. LRU!Use(key, DOMAIN store)
    <3>1. DOMAIN store \ {key} = Keys(lru_list)
      BY <1>0, <2>1
    <3>2. Order(lru_list) = {p \in Recency : p[1] \in DOMAIN store \ {key}
                                              /\ p[2] \in DOMAIN store \ {key}}
      BY <1>0, <1>1, <1>2, <2>1, WithoutKey
    <3> QED BY <1>0, <2>1, <3>1, <3>2, UseImplements
  <2>3. LRU!Bind(key, value, DOMAIN store)
    BY <1>4 DEF PutRoom, LRU!Bind, With
  <2> QED BY <1>0, <2>1, <2>2, <2>3, SameCardinality DEF LRU!Put, LRU!Resident
<1>5. CASE PutEvicting(key, value)
  <2> DEFINE rest    == Front(lru_list)
             lru_key == Last(lru_list).key
             ix      == Without(index, lru_key)
             kept    == DOMAIN store \ {lru_key}
  <2>1. /\ key \notin DOMAIN store
        /\ Len(lru_list) >= capacity
        /\ Len(lru_list) > 0
        /\ ToFront(rest, key, ix)
        /\ store' = With(Without(store, lru_key), key, value)
    BY <1>0, <1>5 DEF PutEvicting
  <2>2. rest \in Seq(Node)
    BY <1>0, <2>1, FrontProperties
  <2>3. /\ lru_key \in DOMAIN store
        /\ Keys(rest) = kept
        /\ Order(rest) = {p \in Recency : p[1] # lru_key /\ p[2] # lru_key}
        /\ \A j \in kept : <<j, lru_key>> \in Recency
    BY <1>0, <1>1, <2>1, PopBackOrder
  <2>4. store' = [x \in kept \cup {key} |-> IF x = key THEN value ELSE store[x]]
    BY <2>1 DEF With, Without
  <2> HIDE DEF rest, lru_key, ix
  <2>5. kept \ {key} = kept
    BY <2>1
  <2>6. Order(rest) = {p \in Recency : p[1] \in kept \ {key} /\ p[2] \in kept \ {key}}
    BY <1>2, <2>3, <2>5, WithoutKey
  <2>7. LRU!Use(key, kept)
    BY <2>1, <2>2, <2>3, <2>5, <2>6, UseImplements
  <2>8. LRU!Bind(key, value, kept)
    BY <2>4 DEF LRU!Bind
  <2> QED BY <1>0, <2>1, <2>3, <2>7, <2>8, SameCardinality
          DEF LRU!PutEvicting, LRU!Resident
<1> QED BY <1>3, <1>4, <1>5 DEF put

LEMMA GetImplements ==
    ASSUME ListInv, NEW key \in Key, Get(key)
    PROVE  LRU!Get(key)
<1>1. /\ key \in DOMAIN store
      /\ ToFront(Erase(lru_list, index[key]), key, index)
      /\ UNCHANGED store
  BY DEF Get
<1>2. LRU!Use(key, DOMAIN store)
  BY <1>1, MoveImplements
<1> QED BY <1>1, <1>2 DEF LRU!Get, LRU!Resident

LEMMA RemoveKeyImplements ==
    ASSUME ListInv, NEW key \in Key, RemoveKey(key)
    PROVE  LRU!Remove(key)
<1>1. lru_list \in Seq(Node) /\ Linked(lru_list, index) /\ DOMAIN store = DOMAIN index
  BY ListFacts
<1>2. /\ key \in DOMAIN store
      /\ lru_list' = Erase(lru_list, index[key])
      /\ store' = Without(store, key)
  BY DEF RemoveKey
<1>3. Order(lru_list') = {p \in Order(lru_list) : p[1] # key /\ p[2] # key}
  BY <1>1, <1>2, EraseOrder
<1>4. Recency = Order(lru_list) /\ Recency' = Order(lru_list')
  BY RecencyIsOrder DEF Recency, Order, InFront
<1> QED BY <1>2, <1>3, <1>4 DEF LRU!Remove, LRU!Resident, Without

\* Either a key is put, got or removed as LRUCache has it, or the cache stays as it is.
LEMMA StepImplements == ListInv /\ [Next]_vars => [LRU!Next]_(LRU!vars)
<1> SUFFICES ASSUME ListInv, [Next]_vars PROVE [LRU!Next]_(LRU!vars)
  OBVIOUS
<1>1. ASSUME NEW key \in Key, NEW value \in Value, Put(key, value)
      PROVE  LRU!Next
  BY <1>1, PutImplements DEF Put, LRU!Next
<1>2. ASSUME NEW key \in Key, Get(key) PROVE LRU!Next
  BY <1>2, GetImplements DEF LRU!Next
<1>3. ASSUME NEW key \in Key, RemoveKey(key) PROVE LRU!Next
  BY <1>3, RemoveKeyImplements DEF LRU!Next
<1>4. ASSUME NEW key \in Key, BatchPut(key) PROVE LRU!Next
  <2>1. put(key, batch[key]) /\ batch[key] \in Value
    BY <1>4 DEF BatchPut, ListInv, TypeOK, PartialMap
  <2> QED BY <2>1, PutImplements DEF LRU!Next
<1>5. CASE UNCHANGED <<store, lru_list>>
  BY <1>5 DEF LRU!vars, Recency, Keys
<1> QED BY <1>1, <1>2, <1>3, <1>4, <1>5 DEF Next, SetKvBatch, vars

\* List, iterators, index and hash map together behave, for every capacity and all
\* interleavings of batches with other calls, like the map of LRUCache: what is
\* evicted is always the key used least recently (lru_store.cpp).
THEOREM StoreImplementsCache == Spec => RefinesLRUCache
<1>1. Init => LRU!Init
  BY DEF Init, LRU!Init, Recency, Keys
<1> QED BY <1>1, InitKeeps, NextKeeps, StepImplements, PTL
      DEF Spec, RefinesLRUCache, LRU!Spec

-----------------------------------------------------------------------------
(* A batch that fits does not evict itself                                 *)

\* The keys used since the batch began are the front of the recency order: a
\* resident key used after one of them is one of them.
FrontUsed == \A a, b : <<a, b>> \in Recency /\ b \in used => a \in used

WindowInv ==
    /\ IsFiniteSet(used)
    /\ removed \cap DOMAIN store = {}
    /\ FrontUsed
    /\ WindowResident

\* Using a key that is counted as used keeps the used keys in front.
LEMMA UseKeepsFront ==
    ASSUME FrontUsed, NEW key, NEW ks, LRU!Use(key, ks), used' = used \cup {key}
    PROVE  FrontUsed'
<1> SUFFICES ASSUME NEW a, NEW b, <<a, b>> \in Recency', b \in used'
             PROVE  a \in used'
  BY DEF FrontUsed
<1>1. CASE <<a, b>> \in Recency /\ b # key
  BY <1>1 DEF FrontUsed
<1>2. CASE a = key
  BY <1>2
<1>3. (<<a, b>> \in Recency /\ b # key) \/ a = key
  BY DEF LRU!Use
<1> QED BY <1>1, <1>2, <1>3

LEMMA PutKeepsWindow ==
    ASSUME ListInv, WindowInv, NEW key \in Key, NEW value \in Value, put(key, value)
    PROVE  WindowInv'
<1>1. used' = used \cup {key} /\ removed' = removed \ {key}
  BY DEF put, Touch
<1>2. IsFiniteSet(used') /\ Cardinality(used) <= Cardinality(used')
  BY <1>1, FS_AddElement, FS_Subset DEF WindowInv
<1>3. CASE LRU!Put(key, value)
  <2>1. DOMAIN store' = DOMAIN store \cup {key} /\ LRU!Use(key, DOMAIN store)
    BY <1>3 DEF LRU!Put, LRU!Bind, LRU!Resident
  <2>2. FrontUsed'
    BY <1>1, <2>1, UseKeepsFront DEF WindowInv
  <2>3. removed' \cap DOMAIN store' = {}
    BY <1>1, <2>1 DEF WindowInv
  <2>4. ASSUME Cardinality(used') <= capacity
        PROVE  used' \ removed' \subseteq DOMAIN store'
    <3>1. Cardinality(used) <= capacity
      BY <1>2, <2>4, CapacityAssumption, FS_CardinalityType DEF WindowInv
    <3> QED BY <1>1, <2>1, <3>1 DEF WindowInv, WindowResident
  <2> QED BY <1>2, <2>2, <2>3, <2>4 DEF WindowInv, WindowResident
<1>4. CASE LRU!PutEvicting(key, value)
  <2>1. PICK victim \in DOMAIN store :
          /\ \A j \in DOMAIN store \ {victim} : <<j, victim>> \in Recency
          /\ LRU!Bind(key, value, DOMAIN store \ {victim})
          /\ LRU!Use(key, DOMAIN store \ {victim})
    BY <1>4 DEF LRU!PutEvicting, LRU!Resident
  <2>2. key \notin DOMAIN store /\ Cardinality(DOMAIN store) >= capacity
    BY <1>4, SameCardinality DEF LRU!PutEvicting, LRU!Resident
  <2>3. DOMAIN store' = (DOMAIN store \ {victim}) \cup {key}
    BY <2>1 DEF LRU!Bind
  <2>4. FrontUsed'
    BY <1>1, <2>1, UseKeepsFront DEF WindowInv
  <2>5. removed' \cap DOMAIN store' = {}
    BY <1>1, <2>3 DEF WindowInv
  <2>6. ASSUME victim \in used PROVE Cardinality(used') > capacity
    <3>1. DOMAIN store \subseteq used
      BY <2>1, <2>6 DEF WindowInv, FrontUsed
    <3>2. IsFiniteSet(DOMAIN store)
      BY ListFacts
    <3>3. /\ IsFiniteSet(DOMAIN store \cup {key})
          /\ Cardinality(DOMAIN store \cup {key}) = Cardinality(DOMAIN store) + 1
      BY <2>2, <3>2, FS_AddElement
    <3>4. Cardinality(DOMAIN store \cup {key}) <= Cardinality(used')
      BY <1>1, <1>2, <3>1, FS_Subset
    <3> QED BY <1>2, <2>2, <3>2, <3>3, <3>4, CapacityAssumption, FS_CardinalityType
  <2>7. ASSUME Cardinality(used') <= capacity
        PROVE  used' \ removed' \subseteq DOMAIN store'
    <3>1. victim \notin used
      BY <1>2, <2>6, <2>7, CapacityAssumption, FS_CardinalityType
    <3>2. Cardinality(used) <= capacity
      BY <1>2, <2>7, CapacityAssumption, FS_CardinalityType DEF WindowInv
    <3> QED BY <1>1, <2>3, <3>1, <3>2 DEF WindowInv, WindowResident
  <2> QED BY <1>2, <2>4, <2>5, <2>7 DEF WindowInv, WindowResident
<1> QED BY <1>3, <1>4, PutImplements

LEMMA GetKeepsWindow ==
    ASSUME ListInv, WindowInv, NEW key \in Key, Get(key)
    PROVE  WindowInv'
<1>1. used' = used \cup {key} /\ removed' = removed \ {key} /\ store' = store
  BY DEF Get, Touch
<1>2. key \in DOMAIN store
  BY DEF Get
<1>3. IsFiniteSet(used') /\ Cardinality(used) <= Cardinality(used')
  BY <1>1, FS_AddElement, FS_Subset DEF WindowInv
<1>4. LRU!Use(key, DOMAIN store)
  BY GetImplements DEF LRU!Get, LRU!Resident
<1>5. FrontUsed'
  BY <1>1, <1>4, UseKeepsFront DEF WindowInv
<1>6. ASSUME Cardinality(used') <= capacity
      PROVE  used' \ removed' \subseteq DOMAIN store'
  <2>1. Cardinality(used) <= capacity
    BY <1>3, <1>6, CapacityAssumption, FS_CardinalityType DEF WindowInv
  <2> QED BY <1>1, <1>2, <2>1 DEF WindowInv, WindowResident
<1> QED BY <1>1, <1>3, <1>5, <1>6 DEF WindowInv, WindowResident

LEMMA RemoveKeyKeepsWindow ==
    ASSUME ListInv, WindowInv, NEW key \in Key, RemoveKey(key)
    PROVE  WindowInv'
<1>1. /\ used' = used
      /\ removed' = removed \cup ({key} \cap used)
      /\ DOMAIN store' = DOMAIN store \ {key}
  BY DEF RemoveKey, Without
<1>2. Recency' \subseteq Recency
  BY RemoveKeyImplements DEF LRU!Remove
<1>3. FrontUsed'
  BY <1>1, <1>2 DEF WindowInv, FrontUsed
<1> QED BY <1>1, <1>3 DEF WindowInv, WindowResident

LEMMA NextKeepsWindow == ListInv /\ WindowInv /\ [Next]_vars => WindowInv'
<1> SUFFICES ASSUME ListInv, WindowInv, [Next]_vars PROVE WindowInv'
  OBVIOUS
<1>1. ASSUME NEW key \in Key, NEW value \in Value, Put(key, value) PROVE WindowInv'
  BY <1>1, PutKeepsWindow DEF Put
<1>2. ASSUME NEW key \in Key, Get(key) PROVE WindowInv'
  BY <1>2, GetKeepsWindow
<1>3. ASSUME NEW key \in Key, RemoveKey(key) PROVE WindowInv'
  BY <1>3, RemoveKeyKeepsWindow
<1>4. ASSUME NEW key \in Key, BatchPut(key) PROVE WindowInv'
  <2>1. put(key, batch[key]) /\ batch[key] \in Value
    BY <1>4 DEF BatchPut, ListInv, TypeOK, PartialMap
  <2> QED BY <2>1, PutKeepsWindow
<1>5. ASSUME NEW kvs, SetKvBatch(kvs) PROVE WindowInv'
  BY <1>5, FS_EmptySet DEF SetKvBatch, WindowInv, FrontUsed, WindowResident
<1>6. CASE UNCHANGED vars
  BY <1>6 DEF vars, WindowInv, FrontUsed, WindowResident, Recency, Keys
<1> QED BY <1>1, <1>2, <1>3, <1>4, <1>5, <1>6 DEF Next

\* A key used since the batch began and not removed again is still resident, unless
\* more than capacity distinct keys were used since, whatever the other threads do
\* between the puts of the batch (lru_store.cpp, put's eviction and set_kv_batch).
THEOREM StoreKeepsWindow == Spec => []WindowResident
<1>1. Init => WindowInv
  BY FS_EmptySet DEF Init, WindowInv, FrontUsed, WindowResident
<1>2. WindowInv => WindowResident
  BY DEF WindowInv
<1> QED BY <1>1, <1>2, InitKeeps, NextKeeps, NextKeepsWindow, PTL DEF Spec

=============================================================================
