-------------------------- MODULE LRUThreadsProofs --------------------------
(***************************************************************************)
(* Proofs about LRUThreads for every number of threads, keys and cells and *)
(* every capacity: types; by how much the races let the list outgrow the   *)
(* capacity; that the calls that take the lock do not race with each       *)
(* other; and that without a race nothing breaks and list, index and map   *)
(* agree.  A step is a statement of one thread, so a lemma about a step    *)
(* says what it does to that thread's frame and to the list.               *)
(***************************************************************************)
EXTENDS LRUThreads, SequenceTheorems, FunctionTheorems, FiniteSetTheorems, TLAPS

Element == [cell : Cell, key : Key]

LEMMA Labels ==
    Label = {"idle", "lock", "find", "exists", "size", "back", "pop", "unindex",
             "drop", "erase", "push", "link", "save", "fetch", "forget",
             "delete", "copy"}
BY DEF Label, Reads

-----------------------------------------------------------------------------
(* Operators on sequences                                                  *)

LEMMA RemoveAtTyped ==
    ASSUME NEW S, NEW s \in Seq(S), NEW i \in 1..Len(s)
    PROVE  /\ RemoveAt(s, i) \in Seq(S)
           /\ Len(RemoveAt(s, i)) = Len(s) - 1
<1> DEFINE a == SubSeq(s, 1, i - 1)
           b == SubSeq(s, i + 1, Len(s))
<1>1. a \in Seq(S) /\ Len(a) = i - 1
  BY SubSeqProperties
<1>2. b \in Seq(S) /\ Len(b) = Len(s) - i
  BY SubSeqProperties
<1> HIDE DEF a, b
<1>3. a \o b \in Seq(S) /\ Len(a \o b) = Len(a) + Len(b)
  BY <1>1, <1>2, ConcatProperties
<1>4. Len(a) + Len(b) = Len(s) - 1
  BY <1>1, <1>2
<1> QED BY <1>3, <1>4 DEF RemoveAt, a, b

LEMMA EraseTyped ==
    ASSUME NEW list \in Seq(Element), NEW it \in Cells(list)
    PROVE  LET rest == RemoveAt(list, CHOOSE i \in DOMAIN list : list[i].cell = it)
           IN  rest \in Seq(Element) /\ Len(rest) = Len(list) - 1
<1> DEFINE pos == CHOOSE i \in DOMAIN list : list[i].cell = it
<1>1. \E i \in DOMAIN list : list[i].cell = it
  BY DEF Cells
<1>2. pos \in DOMAIN list
  BY <1>1
<1>3. pos \in 1..Len(list)
  BY <1>2
<1> HIDE DEF pos
<1>4. RemoveAt(list, pos) \in Seq(Element) /\ Len(RemoveAt(list, pos)) = Len(list) - 1
  BY <1>3, RemoveAtTyped
<1> QED BY <1>4 DEF pos

LEMMA EndsTyped ==
    ASSUME NEW S, NEW s \in Seq(S), s # << >>
    PROVE  /\ Front(s) \in Seq(S) /\ Len(Front(s)) = Len(s) - 1
           /\ Last(s) \in S
           /\ Head(s) \in S
<1> DEFINE n == Len(s) - 1
           f == SubSeq(s, 1, n)
<1>1. n \in Nat /\ n <= Len(s)
  OBVIOUS
<1> HIDE DEF n
<1>2. f \in Seq(S) /\ Len(f) = n
  BY <1>1, SubSeqProperties
<1>3. s[Len(s)] \in S /\ Head(s) \in S
  OBVIOUS
<1> QED BY <1>2, <1>3 DEF Front, Last, n

LEMMA PushTyped ==
    ASSUME NEW list \in Seq(Element), NEW e \in Element
    PROVE  <<e>> \o list \in Seq(Element) /\ Len(<<e>> \o list) = Len(list) + 1
<1>1. <<e>> \in Seq(Element) /\ Len(<<e>>) = 1
  OBVIOUS
<1> QED BY <1>1, ConcatProperties

-----------------------------------------------------------------------------
(* The inductive invariants                                                *)

\* Statements that use a key have one.
Keyed ==
    \A t \in Thread : frame[t].pc \notin {"idle", "lock", "copy"} => frame[t].key \in Key

TypeInv == TypeOK /\ Keyed

\* Threads that have found or made room in the list and will push.
Pushes(t) == frame[t].pc \in {"unindex", "drop", "push"}
Pushing   == {t \in Thread : Pushes(t)}

\* The elements of the list together with those about to be pushed: a thread that
\* sees room lets the sum pass the capacity by no more than the others count for.
RoomInv == Len(lru_list) + Cardinality(Pushing) <= capacity + Cardinality(Thread) - 1

\* A step of t leaves the frames of the others alone.
Steps(t) ==
    /\ frame'[t] \in Frame
    /\ frame'[t].pc \notin {"idle", "lock", "copy"} => frame'[t].key \in Key
    /\ frame' = [frame EXCEPT ![t] = frame'[t]]

LEMMA FramesTyped ==
    ASSUME TypeInv, NEW t \in Thread, Steps(t)
    PROVE  frame' \in [Thread -> Frame] /\ Keyed'
BY DEF TypeInv, TypeOK, Keyed, Steps

\* What a step does to the number of threads that push.
LEMMA PushingCounts ==
    ASSUME TypeInv, NEW t \in Thread, Steps(t)
    PROVE  /\ Cardinality(Pushing) \in Nat
           /\ Cardinality(Pushing') = Cardinality(Pushing)
                + (IF Pushes(t)' THEN 1 ELSE 0) - (IF Pushes(t) THEN 1 ELSE 0)
           /\ ~Pushes(t) => Cardinality(Pushing) <= Cardinality(Thread) - 1
<1> DEFINE Others == Pushing \ {t}
<1>1. IsFiniteSet(Thread)
  BY ThreadsAssumption
<1>2. IsFiniteSet(Others) /\ IsFiniteSet(Thread \ {t}) /\ Cardinality(Others) \in Nat
  BY <1>1, FS_Subset, FS_CardinalityType DEF Pushing
<1>3. Cardinality(Others \cup {t}) = Cardinality(Others) + 1
  BY <1>2, FS_AddElement
<1>4. Pushing = IF Pushes(t) THEN Others \cup {t} ELSE Others
  BY DEF Pushing
<1>5. Pushing' = IF Pushes(t)' THEN Others \cup {t} ELSE Others
  <2>1. ASSUME NEW u \in Thread, u # t PROVE Pushes(u)' <=> Pushes(u)
    BY <2>1 DEF Steps, Pushes, TypeInv, TypeOK
  <2> QED BY <2>1 DEF Pushing
<1>6. Cardinality(Others) <= Cardinality(Thread \ {t})
  BY <1>2, FS_Subset DEF Pushing
<1>7. Cardinality(Thread \ {t}) = Cardinality(Thread) - 1 /\ Cardinality(Thread) \in Nat
  BY <1>1, FS_RemoveElement, FS_CardinalityType
<1> HIDE DEF Others
<1>8. Cardinality(Pushing) = Cardinality(Others) + (IF Pushes(t) THEN 1 ELSE 0)
  BY <1>2, <1>3, <1>4
<1>9. Cardinality(Pushing') = Cardinality(Others) + (IF Pushes(t)' THEN 1 ELSE 0)
  BY <1>2, <1>3, <1>5
<1> QED BY <1>2, <1>6, <1>7, <1>8, <1>9

-----------------------------------------------------------------------------
(* Frames after a statement                                                *)

LEMMA GoToSteps ==
    ASSUME TypeInv, NEW t \in Thread, NEW label \in Label, GoTo(t, label),
           label \notin {"idle", "lock", "copy"} => frame[t].key \in Key
    PROVE  Steps(t) /\ frame'[t].pc = label
BY DEF GoTo, Steps, Frame, TypeInv, TypeOK

LEMMA ReturnSteps ==
    ASSUME TypeInv, NEW t \in Thread, Return(t)
    PROVE  Steps(t) /\ frame'[t].pc = "idle"
BY Labels DEF Return, Rest, Steps, Frame, Call, TypeInv, TypeOK

LEMMA NextPairSteps ==
    ASSUME TypeInv, NEW t \in Thread, NextPair(t)
    PROVE  Steps(t) /\ frame'[t].pc \in {"idle", "find"}
<1>1. CASE frame[t].rest = {}
  BY <1>1, ReturnSteps DEF NextPair
<1>2. CASE frame[t].rest # {}
  <2>1. PICK k \in frame[t].rest :
           frame' = [frame EXCEPT ![t].pc = "find", ![t].key = k,
                                  ![t].victim = {}, ![t].rest = @ \ {k}]
    BY <1>2 DEF NextPair
  <2>2. frame[t] \in Frame /\ frame \in [Thread -> Frame]
    BY DEF TypeInv, TypeOK
  <2>3. k \in Key /\ frame[t].rest \ {k} \in SUBSET Key
    BY <2>2 DEF Frame
  <2>4. frame'[t] = [call |-> frame[t].call, pc |-> "find", key |-> k, victim |-> {},
                     rest |-> frame[t].rest \ {k}]
    BY <2>1, <2>2 DEF Frame
  <2>5. frame'[t] \in Frame
    BY <2>2, <2>3, <2>4, Labels DEF Frame
  <2>6. frame' = [frame EXCEPT ![t] = frame'[t]]
    BY <2>1, <2>2
  <2> QED BY <2>3, <2>4, <2>5, <2>6 DEF Steps
<1> QED BY <1>1, <1>2

LEMMA StayingSteps ==
    ASSUME TypeInv, NEW t \in Thread, UNCHANGED frame
    PROVE  Steps(t) /\ frame'[t].pc = frame[t].pc
BY DEF Steps, Frame, TypeInv, TypeOK, Keyed

-----------------------------------------------------------------------------
(* The steps                                                               *)

IndexTyped == \A k \in DOMAIN index : k \in Key /\ index[k] \in Cell

Typed == store \in SUBSET Key /\ lru_list \in Seq(Element) /\ IndexTyped /\ broken \in BOOLEAN

Weight(t) == IF Pushes(t) THEN 1 ELSE 0

\* Between them the list and t's element about to be pushed do not grow, or t has
\* seen room in the list.
KeepsRoom(t) ==
    \/ Len(lru_list') + Weight(t)' <= Len(lru_list) + Weight(t)
    \/ ~Pushes(t) /\ Len(lru_list') = Len(lru_list) /\ Len(lru_list) < capacity

LEMMA BeginEffect ==
    ASSUME TypeInv, NEW t \in Thread, Begin(t)
    PROVE  Steps(t) /\ Typed' /\ KeepsRoom(t)
<1>1. PICK call \in Call, label \in {"find", "exists", "lock"}, key \in Key \cup {NoKey},
           rest \in SUBSET Key :
             /\ Enter(t, call, label, key, rest)
             /\ label # "lock" => key \in Key
  BY DEF Begin, put, get, remove, get_kv_batch, set_kv_batch, Call
<1>2. frame'[t] = [call |-> call, pc |-> label, key |-> key, victim |-> {}, rest |-> rest]
  BY <1>1 DEF Enter, TypeInv, TypeOK
<1>3. frame'[t] \in Frame
  BY <1>2, Labels DEF Frame
<1>4. frame' = [frame EXCEPT ![t] = frame'[t]]
  BY <1>1, <1>2 DEF Enter
<1>5. Steps(t)
  <2>1. label # "lock" => frame'[t].key \in Key
    BY <1>1, <1>2
  <2> QED BY <1>2, <1>3, <1>4, <2>1 DEF Steps
<1>6. Typed' /\ lru_list' = lru_list
  BY <1>1 DEF Enter, TypeInv, TypeOK, Typed, IndexTyped, Element
<1>7. ~Pushes(t)'
  BY <1>1, <1>2 DEF Pushes
<1> QED BY <1>5, <1>6, <1>7 DEF KeepsRoom, Weight, TypeInv, TypeOK

\* Statements that leave the list alone: those that only look, and those that change
\* store or index.
LEMMA QuietEffect ==
    ASSUME TypeInv, NEW t \in Thread,
           \/ Lock(t) \/ Copy(t) \/ Find(t) \/ Exists(t) \/ Size(t) \/ Back(t)
           \/ Unindex(t) \/ Drop(t) \/ Link(t) \/ Save(t) \/ Fetch(t)
           \/ Forget(t) \/ Delete(t)
    PROVE  Steps(t) /\ Typed' /\ KeepsRoom(t)
<1> USE DEF At
<1>0. /\ lru_list \in Seq(Element) /\ Len(lru_list) \in Nat
      /\ frame \in [Thread -> Frame] /\ frame[t] \in Frame
  BY LenProperties DEF TypeInv, TypeOK, Element
<1>1. Typed
  BY DEF TypeInv, TypeOK, Typed, IndexTyped, Element
<1>2. CASE Lock(t)
  <2>1. CASE frame[t].call = "get_kv_batch"
    <3>1. Steps(t) /\ frame'[t].pc = "copy"
      BY <1>2, <2>1, GoToSteps, Labels DEF Lock
    <3> QED BY <1>0, <1>1, <1>2, <3>1 DEF Lock, Typed, IndexTyped, KeepsRoom, Weight, Pushes
  <2>2. CASE frame[t].call # "get_kv_batch"
    <3>1. Steps(t) /\ frame'[t].pc \in {"idle", "find"}
      BY <1>2, <2>2, NextPairSteps DEF Lock
    <3> QED BY <1>0, <1>1, <1>2, <3>1 DEF Lock, Typed, IndexTyped, KeepsRoom, Weight, Pushes
  <2> QED BY <2>1, <2>2
<1>3. CASE Copy(t) \/ Fetch(t) \/ Delete(t)
  <2>1. Steps(t) /\ frame'[t].pc = "idle"
    BY <1>3, ReturnSteps DEF Copy, Fetch, Delete
  <2>2. Typed' /\ lru_list' = lru_list
    BY <1>1, <1>3 DEF Copy, Fetch, Delete, Typed, IndexTyped
  <2> QED BY <1>0, <2>1, <2>2 DEF KeepsRoom, Weight, Pushes
<1>4. CASE Find(t)
  <2>1. Steps(t) /\ frame'[t].pc \in {"erase", "size"}
    BY <1>4, GoToSteps, Labels DEF Find, TypeInv, Keyed
  <2> QED BY <1>0, <1>1, <1>4, <2>1 DEF Find, Typed, IndexTyped, KeepsRoom, Weight, Pushes
<1>5. CASE Exists(t)
  <2>1. Steps(t) /\ frame'[t].pc \in {"erase", "idle"}
    BY <1>5, GoToSteps, ReturnSteps, Labels DEF Exists, TypeInv, Keyed
  <2> QED BY <1>0, <1>1, <1>5, <2>1 DEF Exists, Typed, IndexTyped, KeepsRoom, Weight, Pushes
<1>6. CASE Size(t)
  <2>1. Steps(t) /\ frame'[t].pc = (IF Len(lru_list) >= capacity THEN "back" ELSE "push")
    BY <1>6, GoToSteps, Labels DEF Size, TypeInv, Keyed
  <2>2. Typed' /\ lru_list' = lru_list /\ ~Pushes(t)
    BY <1>1, <1>6 DEF Size, Typed, IndexTyped, Pushes
  <2> QED BY <1>0, <2>1, <2>2, ThreadsAssumption DEF KeepsRoom, Weight, Pushes
<1>7. CASE Back(t)
  <2>1. CASE lru_list = << >>
    <3>1. Steps(t) /\ frame'[t].pc = frame[t].pc
      BY <1>7, <2>1, StayingSteps DEF Back, Undefined
    <3> QED BY <1>0, <1>1, <1>7, <2>1, <3>1
            DEF Back, Undefined, Typed, IndexTyped, KeepsRoom, Weight, Pushes
  <2>2. CASE lru_list # << >>
    <3>1. Last(lru_list).key \in Key
      BY <1>0, <2>2, EndsTyped DEF Element
    <3>2. frame' = [frame EXCEPT ![t].pc = "pop", ![t].victim = {Last(lru_list).key}]
      BY <1>7, <2>2 DEF Back
    <3>3. frame'[t] \in Frame /\ frame'[t].pc = "pop" /\ frame'[t].key = frame[t].key
      BY <1>0, <3>1, <3>2, Labels DEF Frame
    <3>4. frame' = [frame EXCEPT ![t] = frame'[t]]
      BY <1>0, <3>2
    <3>5. Steps(t)
      BY <1>7, <3>3, <3>4 DEF Back, Steps, TypeInv, Keyed
    <3> QED BY <1>0, <1>1, <1>7, <2>2, <3>3, <3>5
            DEF Back, Typed, IndexTyped, KeepsRoom, Weight, Pushes
  <2> QED BY <2>1, <2>2
<1>8. CASE Unindex(t)
  <2>1. Steps(t) /\ frame'[t].pc = "drop"
    BY <1>8, GoToSteps, Labels DEF Unindex, TypeInv, Keyed
  <2>2. Typed' /\ lru_list' = lru_list
    BY <1>1, <1>8 DEF Unindex, Typed, IndexTyped, Without
  <2> QED BY <1>0, <1>8, <2>1, <2>2 DEF Unindex, KeepsRoom, Weight, Pushes
<1>9. CASE Drop(t)
  <2>1. Steps(t) /\ frame'[t].pc = "push"
    BY <1>9, GoToSteps, Labels DEF Drop, TypeInv, Keyed
  <2>2. Typed' /\ lru_list' = lru_list
    BY <1>1, <1>9 DEF Drop, Typed, IndexTyped
  <2> QED BY <1>0, <1>9, <2>1, <2>2 DEF Drop, KeepsRoom, Weight, Pushes
<1>10. CASE Link(t)
  <2>1. CASE lru_list = << >>
    <3>1. Steps(t) /\ frame'[t].pc = frame[t].pc
      BY <1>10, <2>1, StayingSteps DEF Link, Undefined
    <3> QED BY <1>0, <1>1, <1>10, <2>1, <3>1
            DEF Link, Undefined, Typed, IndexTyped, KeepsRoom, Weight, Pushes
  <2>2. CASE lru_list # << >>
    <3>1. Head(lru_list).cell \in Cell
      BY <1>0, <2>2, EndsTyped DEF Element
    <3>2. frame[t].key \in Key
      BY <1>10 DEF Link, TypeInv, Keyed
    <3>3. Steps(t) /\ frame'[t].pc \in {"fetch", "save"}
      BY <1>10, <2>2, <3>2, GoToSteps, Labels DEF Link
    <3>4. Typed' /\ lru_list' = lru_list
      BY <1>1, <1>10, <2>2, <3>1, <3>2 DEF Link, Typed, IndexTyped, With
    <3> QED BY <1>0, <3>3, <3>4 DEF KeepsRoom, Weight, Pushes
  <2> QED BY <2>1, <2>2
<1>11. CASE Save(t)
  <2>1. Steps(t) /\ frame'[t].pc \in {"idle", "find"}
    BY <1>11, NextPairSteps DEF Save
  <2>2. Typed' /\ lru_list' = lru_list
    BY <1>1, <1>11 DEF Save, Typed, IndexTyped, TypeInv, Keyed
  <2> QED BY <1>0, <2>1, <2>2 DEF KeepsRoom, Weight, Pushes
<1>12. CASE Forget(t)
  <2>1. Steps(t) /\ frame'[t].pc = "delete"
    BY <1>12, GoToSteps, Labels DEF Forget, TypeInv, Keyed
  <2>2. Typed' /\ lru_list' = lru_list
    BY <1>1, <1>12 DEF Forget, Typed, IndexTyped, Without
  <2> QED BY <1>0, <2>1, <2>2 DEF KeepsRoom, Weight, Pushes
<1> QED BY <1>2, <1>3, <1>4, <1>5, <1>6, <1>7, <1>8, <1>9, <1>10, <1>11, <1>12

\* Statements that change the list.
LEMMA ListEffect ==
    ASSUME TypeInv, NEW t \in Thread, Pop(t) \/ Erase(t) \/ Push(t)
    PROVE  Steps(t) /\ Typed' /\ KeepsRoom(t)
<1> USE DEF At
<1>0. lru_list \in Seq(Element) /\ Len(lru_list) \in Nat
  BY LenProperties DEF TypeInv, TypeOK, Element
<1>1. Typed
  BY DEF TypeInv, TypeOK, Typed, IndexTyped, Element
<1>2. ASSUME Undefined PROVE Steps(t) /\ Typed' /\ KeepsRoom(t)
  <2>1. Steps(t) /\ frame'[t].pc = frame[t].pc
    BY <1>2, StayingSteps DEF Undefined
  <2> QED BY <1>0, <1>1, <1>2, <2>1 DEF Undefined, Typed, IndexTyped, KeepsRoom, Weight, Pushes
<1>3. CASE Pop(t) /\ lru_list # << >>
  <2>1. lru_list' \in Seq(Element) /\ Len(lru_list') = Len(lru_list) - 1
    BY <1>0, <1>3, EndsTyped DEF Pop
  <2>2. Steps(t) /\ frame'[t].pc = "unindex"
    BY <1>3, GoToSteps, Labels DEF Pop, TypeInv, Keyed
  <2>3. Typed'
    BY <1>1, <1>3, <2>1 DEF Pop, Typed, IndexTyped
  <2> QED BY <1>0, <1>3, <2>1, <2>2, <2>3 DEF Pop, KeepsRoom, Weight, Pushes
<1>4. CASE Erase(t) /\ frame[t].key \in DOMAIN index /\ index[frame[t].key] \in Cells(lru_list)
  <2>1. lru_list' \in Seq(Element) /\ Len(lru_list') = Len(lru_list) - 1
    BY <1>0, <1>4, EraseTyped DEF Erase
  <2>2. Steps(t) /\ frame'[t].pc \in {"forget", "push"}
    BY <1>4, GoToSteps, Labels DEF Erase, TypeInv, Keyed
  <2>3. Typed'
    BY <1>1, <1>4, <2>1 DEF Erase, Typed, IndexTyped
  <2> QED BY <1>0, <1>4, <2>1, <2>2, <2>3 DEF Erase, KeepsRoom, Weight, Pushes
<1>5. CASE Push(t)
  <2>1. PICK c \in Cell : lru_list' = <<[cell |-> c, key |-> frame[t].key]>> \o lru_list
    BY <1>5 DEF Push
  <2>2. [cell |-> c, key |-> frame[t].key] \in Element
    BY <1>5 DEF Push, TypeInv, Keyed, Element
  <2>3. lru_list' \in Seq(Element) /\ Len(lru_list') = Len(lru_list) + 1
    BY <1>0, <2>1, <2>2, PushTyped
  <2>4. Steps(t) /\ frame'[t].pc = "link"
    BY <1>5, GoToSteps, Labels DEF Push, TypeInv, Keyed
  <2>5. Typed'
    BY <1>1, <1>5, <2>3 DEF Push, Typed, IndexTyped
  <2> QED BY <1>0, <1>5, <2>3, <2>4, <2>5 DEF Push, KeepsRoom, Weight, Pushes
<1> QED BY <1>2, <1>3, <1>4, <1>5 DEF Pop, Erase

LEMMA StepEffect ==
    ASSUME TypeInv, NEW t \in Thread, Begin(t) \/ Statement(t)
    PROVE  Steps(t) /\ Typed' /\ KeepsRoom(t)
BY BeginEffect, QuietEffect, ListEffect DEF Statement

-----------------------------------------------------------------------------
(* Theorems                                                                *)

LEMMA TypeInit == Init => TypeInv
<1> SUFFICES ASSUME Init PROVE TypeInv
  OBVIOUS
<1>1. Rest \in Frame /\ Rest.pc = "idle"
  BY Labels DEF Rest, Frame, Call
<1>2. frame \in [Thread -> Frame] /\ Keyed
  BY <1>1 DEF Init, Keyed
<1>3. lru_list \in Seq(Element) /\ DOMAIN index = {}
  BY DEF Init
<1>4. store \in SUBSET Key /\ broken \in BOOLEAN /\ raced \in BOOLEAN
  BY DEF Init
<1> QED BY <1>2, <1>3, <1>4 DEF TypeInv, TypeOK, Element

LEMMA TypeNext == TypeInv /\ [Next]_vars => TypeInv'
<1> SUFFICES ASSUME TypeInv, [Next]_vars PROVE TypeInv'
  OBVIOUS
<1>1. CASE Next
  <2>1. PICK t \in Thread : Begin(t) \/ Statement(t)
    BY <1>1 DEF Next
  <2>2. Typed' /\ frame' \in [Thread -> Frame] /\ Keyed'
    BY <2>1, StepEffect, FramesTyped
  <2>3. raced' \in BOOLEAN
    BY <1>1, Zenon DEF Next, TypeInv, TypeOK, Race, Conflict
  <2> QED BY <2>2, <2>3 DEF TypeInv, TypeOK, Typed, IndexTyped, Element
<1>2. CASE UNCHANGED vars
  BY <1>2 DEF vars, TypeInv, TypeOK, Keyed
<1> QED BY <1>1, <1>2

\* Whatever the threads do to each other, list, index and frames keep their types: a
\* statement that uses a key has one (REST and message threads calling put, get,
\* remove and the batches of lru_store.cpp).
THEOREM ThreadsTyped == Spec => []TypeOK
<1>1. TypeInv => TypeOK
  BY DEF TypeInv
<1> QED BY <1>1, TypeInit, TypeNext, PTL DEF Spec

LEMMA RoomInit == Init => RoomInv
<1> SUFFICES ASSUME Init PROVE RoomInv
  OBVIOUS
<1>1. Pushing = {}
  BY DEF Init, Pushing, Pushes, Rest
<1>2. Len(lru_list) = 0 /\ Cardinality(Pushing) = 0
  BY <1>1, FS_EmptySet DEF Init
<1> QED BY <1>2, ThreadsAssumption, FS_CardinalityType DEF RoomInv

LEMMA RoomNext == TypeInv /\ RoomInv /\ [Next]_vars => RoomInv'
<1> SUFFICES ASSUME TypeInv, RoomInv, [Next]_vars PROVE RoomInv'
  OBVIOUS
<1>1. CASE Next
  <2>1. PICK t \in Thread : Begin(t) \/ Statement(t)
    BY <1>1 DEF Next
  <2>2. Steps(t) /\ Typed' /\ KeepsRoom(t)
    BY <2>1, StepEffect
  <2>3. /\ Cardinality(Pushing) \in Nat
        /\ Cardinality(Pushing') = Cardinality(Pushing) + Weight(t)' - Weight(t)
        /\ ~Pushes(t) => Cardinality(Pushing) <= Cardinality(Thread) - 1
    BY <2>2, PushingCounts DEF Weight
  <2>4. /\ Len(lru_list) \in Nat /\ Len(lru_list') \in Nat
        /\ capacity \in Nat /\ Cardinality(Thread) \in Nat
        /\ Weight(t) \in {0, 1} /\ Weight(t)' \in {0, 1}
        /\ ~Pushes(t) => Weight(t) = 0
    BY <2>2, ThreadsAssumption, FS_CardinalityType, LenProperties
       DEF Typed, TypeInv, TypeOK, Element, Weight
  <2>5. CASE Len(lru_list') + Weight(t)' <= Len(lru_list) + Weight(t)
    BY <2>3, <2>4, <2>5 DEF RoomInv
  <2>6. CASE ~Pushes(t) /\ Len(lru_list') = Len(lru_list) /\ Len(lru_list) < capacity
    BY <2>3, <2>4, <2>6 DEF RoomInv
  <2> QED BY <2>2, <2>5, <2>6 DEF KeepsRoom
<1>2. CASE UNCHANGED vars
  BY <1>2 DEF vars, RoomInv, Pushing, Pushes
<1> QED BY <1>1, <1>2

\* For every number of threads and every capacity, the list outgrows the capacity by
\* fewer elements than there are threads (the unlocked size check of put).
THEOREM OvershootIsBounded == Spec => []OvershootBounded
<1>1. TypeInv /\ RoomInv => OvershootBounded
  <2> SUFFICES ASSUME TypeInv, RoomInv PROVE OvershootBounded
    OBVIOUS
  <2>1. Cardinality(Pushing) \in Nat
    BY ThreadsAssumption, FS_Subset, FS_CardinalityType DEF Pushing
  <2>2. Len(lru_list) \in Nat /\ Cardinality(Thread) \in Nat /\ capacity \in Nat
    BY ThreadsAssumption, FS_CardinalityType, LenProperties DEF TypeInv, TypeOK
  <2> QED BY <2>1, <2>2 DEF RoomInv, OvershootBounded
<1> QED BY <1>1, TypeInit, TypeNext, RoomInit, RoomNext, PTL DEF Spec

-----------------------------------------------------------------------------
(* What the calls are at, and the lock                                     *)

\* The statements of each call.
Statements == [
    none |-> {"idle"},
    put  |-> {"find", "size", "back", "pop", "unindex", "drop", "erase", "push", "link",
              "save"},
    get  |-> {"exists", "erase", "push", "link", "fetch"},
    remove |-> {"exists", "erase", "forget", "delete"},
    get_kv_batch |-> {"lock", "copy"},
    set_kv_batch |-> {"lock", "find", "size", "back", "pop", "unindex", "drop", "erase", "push",
                      "link", "save"}]

Called(t) == frame[t].pc \in Statements[frame[t].call]

\* The locks: a batch that is past its lock has it.
LockInv ==
    \A t, u \in Thread :
        t # u /\ Locked(t, {"set_kv_batch"}) => ~Locked(u, {"get_kv_batch", "set_kv_batch"})

CallInv == LockInv /\ \A t \in Thread : Called(t)

\* Where a statement leads.
Leads(t) ==
    LET from == frame[t].pc
        to   == frame'[t].pc
    IN  /\ from = "idle" => to \in {"find", "exists", "lock"}
        /\ from = "lock" => to \in {"idle", "find", "copy"}
        /\ from \in {"copy", "fetch", "delete"} => to = "idle"
        /\ from = "find" => to \in {"erase", "size"}
        /\ from = "exists" => to \in {"erase", "idle"}
        /\ from = "size" => to \in {"back", "push"}
        /\ from = "back" => to = "pop"
        /\ from = "pop" => to = "unindex"
        /\ from = "unindex" => to = "drop"
        /\ from = "drop" => to = "push"
        /\ from = "erase" => to = IF frame[t].call = "remove" THEN "forget" ELSE "push"
        /\ from = "push" => to = "link"
        /\ from = "link" => to = IF frame[t].call = "get" THEN "fetch" ELSE "save"
        /\ from = "save" => to \in {"idle", "find"}
        /\ from = "forget" => to = "delete"

LEMMA GoToLeads ==
    ASSUME TypeInv, NEW t \in Thread, NEW label \in Label, GoTo(t, label)
    PROVE  /\ frame'[t].pc = label
           /\ frame'[t].call = frame[t].call
           /\ frame'[t].key = frame[t].key
           /\ frame'[t].victim = frame[t].victim
           /\ \A u \in Thread : u # t => frame'[u] = frame[u]
BY DEF GoTo, Frame, TypeInv, TypeOK

LEMMA ReturnLeads ==
    ASSUME TypeInv, NEW t \in Thread, Return(t)
    PROVE  /\ frame'[t].pc = "idle" /\ frame'[t].call = "none"
           /\ \A u \in Thread : u # t => frame'[u] = frame[u]
BY DEF Return, Rest, TypeInv, TypeOK

LEMMA NextPairLeads ==
    ASSUME TypeInv, NEW t \in Thread, NextPair(t)
    PROVE  /\ \/ frame'[t].pc = "idle" /\ frame'[t].call = "none"
              \/ /\ frame'[t].pc = "find" /\ frame'[t].call = frame[t].call
                 /\ frame[t].rest # {}
           /\ \A u \in Thread : u # t => frame'[u] = frame[u]
<1>1. frame \in [Thread -> Frame] /\ frame[t] \in Frame
  BY DEF TypeInv, TypeOK
<1>2. CASE frame[t].rest = {}
  BY <1>2, ReturnLeads DEF NextPair
<1>3. CASE frame[t].rest # {}
  <2>1. PICK k \in frame[t].rest :
           frame' = [frame EXCEPT ![t].pc = "find", ![t].key = k,
                                  ![t].victim = {}, ![t].rest = @ \ {k}]
    BY <1>3 DEF NextPair
  <2>2. frame'[t] = [call |-> frame[t].call, pc |-> "find", key |-> k, victim |-> {},
                     rest |-> frame[t].rest \ {k}]
    BY <1>1, <2>1 DEF Frame
  <2>3. \A u \in Thread : u # t => frame'[u] = frame[u]
    BY <1>1, <2>1
  <2> QED BY <1>3, <2>2, <2>3
<1> QED BY <1>2, <1>3

OthersStay(t) == \A u \in Thread : u # t => frame'[u] = frame[u]

\* A statement that is no end leaves the call and, within put, get and remove, its key and,
\* but for back, its victim.
Onward(t) ==
    /\ frame'[t].pc # "idle" /\ frame[t].pc # "idle" => frame'[t].call = frame[t].call
    /\ frame[t].pc = "idle" => frame'[t].pc = "lock" \/ frame'[t].call \in {"put", "get", "remove"}
    /\ frame'[t].pc # "idle" /\ frame[t].pc \notin {"idle", "lock", "save"} =>
         /\ frame'[t].key = frame[t].key
         /\ frame[t].pc # "back" => frame'[t].victim = frame[t].victim

LEMMA CalledMeans ==
    ASSUME TypeInv, NEW t \in Thread
    PROVE  Called(t) <=>
             \/ frame[t].call = "none" /\ frame[t].pc = "idle"
             \/ /\ frame[t].call = "put"
                /\ frame[t].pc \in {"find", "size", "back", "pop", "unindex", "drop", "erase",
                                    "push", "link", "save"}
             \/ frame[t].call = "get" /\ frame[t].pc \in {"exists", "erase", "push", "link", "fetch"}
             \/ frame[t].call = "remove" /\ frame[t].pc \in {"exists", "erase", "forget", "delete"}
             \/ frame[t].call = "get_kv_batch" /\ frame[t].pc \in {"lock", "copy"}
             \/ /\ frame[t].call = "set_kv_batch"
                /\ frame[t].pc \in {"lock", "find", "size", "back", "pop", "unindex", "drop",
                                    "erase", "push", "link", "save"}
<1> DEFINE c == frame[t].call
           p == frame[t].pc
<1>1. c \in {"none", "put", "get", "remove", "get_kv_batch", "set_kv_batch"}
  BY DEF TypeInv, TypeOK, Frame, Call
<1> HIDE DEF c, p
<1>2. /\ Statements["none"] = {"idle"}
      /\ Statements["put"] = {"find", "size", "back", "pop", "unindex", "drop", "erase", "push",
                              "link", "save"}
      /\ Statements["get"] = {"exists", "erase", "push", "link", "fetch"}
      /\ Statements["remove"] = {"exists", "erase", "forget", "delete"}
      /\ Statements["get_kv_batch"] = {"lock", "copy"}
      /\ Statements["set_kv_batch"] = {"lock", "find", "size", "back", "pop", "unindex", "drop",
                                       "erase", "push", "link", "save"}
  BY DEF Statements
<1>3. Called(t) <=> p \in Statements[c]
  BY DEF Called, c, p
<1> QED BY <1>1, <1>2, <1>3 DEF c, p

LEMMA StepLeads ==
    ASSUME TypeInv, NEW t \in Thread, Called(t), Begin(t) \/ Statement(t), ~broken'
    PROVE  Leads(t) /\ Onward(t) /\ OthersStay(t) /\ Called(t)'
<1>0. /\ frame \in [Thread -> Frame] /\ frame[t] \in Frame
      /\ frame' \in [Thread -> Frame]
  BY StepEffect, FramesTyped DEF TypeInv, TypeOK
<1>1. ASSUME NEW label \in Label, GoTo(t, label), frame[t].pc # "idle"
      PROVE  /\ frame'[t].pc = label /\ frame'[t].call = frame[t].call
             /\ Onward(t) /\ OthersStay(t)
  BY <1>1, GoToLeads DEF Onward, OthersStay
<1>2. ASSUME Return(t), frame[t].pc # "idle"
      PROVE  /\ frame'[t].pc = "idle" /\ frame'[t].call = "none"
             /\ Onward(t) /\ OthersStay(t)
  BY <1>2, ReturnLeads DEF Onward, OthersStay
<1>3. ASSUME NextPair(t), frame[t].pc \in {"lock", "save"}
      PROVE  /\ \/ frame'[t].pc = "idle" /\ frame'[t].call = "none"
                \/ frame'[t].pc = "find" /\ frame'[t].call = frame[t].call
             /\ Onward(t) /\ OthersStay(t)
  BY <1>3, NextPairLeads DEF Onward, OthersStay
<1> USE DEF At
<1> DEFINE c == frame[t].call
           p == frame[t].pc
           d == frame'[t].call
           q == frame'[t].pc
           Fine(call, at) ==
             \/ call = "none" /\ at = "idle"
             \/ /\ call = "put"
                /\ at \in {"find", "size", "back", "pop", "unindex", "drop", "erase",
                           "push", "link", "save"}
             \/ call = "get" /\ at \in {"exists", "erase", "push", "link", "fetch"}
             \/ call = "remove" /\ at \in {"exists", "erase", "forget", "delete"}
             \/ call = "get_kv_batch" /\ at \in {"lock", "copy"}
             \/ /\ call = "set_kv_batch"
                /\ at \in {"lock", "find", "size", "back", "pop", "unindex", "drop",
                           "erase", "push", "link", "save"}
<1>4. Fine(c, p)
  BY CalledMeans
<1>5. Fine(d, q) => Called(t)'
  <2>1. d \in {"none", "put", "get", "remove", "get_kv_batch", "set_kv_batch"}
    BY StepEffect DEF Steps, Frame, Call
  <2> HIDE DEF d, q
  <2>2. /\ Statements["none"] = {"idle"}
        /\ Statements["put"] = {"find", "size", "back", "pop", "unindex", "drop", "erase", "push",
                                "link", "save"}
        /\ Statements["get"] = {"exists", "erase", "push", "link", "fetch"}
        /\ Statements["remove"] = {"exists", "erase", "forget", "delete"}
        /\ Statements["get_kv_batch"] = {"lock", "copy"}
        /\ Statements["set_kv_batch"] = {"lock", "find", "size", "back", "pop", "unindex", "drop",
                                         "erase", "push", "link", "save"}
    BY DEF Statements
  <2>3. Called(t)' <=> q \in Statements[d]
    BY DEF Called, d, q
  <2> QED BY <2>1, <2>2, <2>3
<1>6. CASE Begin(t)
  <2>1. PICK call \in Call, label \in {"find", "exists", "lock"}, key \in Key \cup {NoKey},
             rest \in SUBSET Key :
               /\ Enter(t, call, label, key, rest) /\ Fine(call, label)
               /\ label = "lock" \/ call \in {"put", "get", "remove"}
    BY <1>6 DEF Begin, put, get, remove, get_kv_batch, set_kv_batch, Call
  <2>2. /\ p = "idle" /\ q = label /\ d = call
        /\ OthersStay(t)
    BY <1>0, <2>1 DEF Enter, OthersStay
  <2> HIDE DEF p, q, d
  <2>3. Leads(t) /\ Onward(t)
    BY <2>1, <2>2 DEF Leads, Onward, p, q, d
  <2>4. Fine(d, q)
    BY <2>1, <2>2
  <2> QED BY <1>5, <2>2, <2>3, <2>4
<1>7. CASE Lock(t)
  <2>1. /\ p = "lock" /\ q \in {"idle", "find", "copy"} /\ Fine(d, q)
        /\ Onward(t) /\ OthersStay(t)
    <3>1. CASE c = "get_kv_batch"
      BY <1>1, <1>7, <3>1, Labels DEF Lock
    <3>2. CASE c # "get_kv_batch"
      BY <1>3, <1>4, <1>7, <3>2 DEF Lock
    <3> QED BY <3>1, <3>2
  <2> QED BY <1>5, <2>1 DEF Leads
<1>8. CASE Copy(t) \/ Fetch(t) \/ Delete(t)
  <2>1. p \in {"copy", "fetch", "delete"} /\ Return(t)
    BY <1>8 DEF Copy, Fetch, Delete
  <2> QED BY <1>2, <1>5, <2>1 DEF Leads
<1>9. CASE Find(t) \/ Size(t) \/ Unindex(t) \/ Drop(t) \/ Forget(t) \/ Push(t)
  <2>1. PICK label \in Label :
          /\ GoTo(t, label)
          /\ \/ p = "find" /\ label \in {"erase", "size"}
             \/ p = "size" /\ label \in {"back", "push"}
             \/ p = "unindex" /\ label = "drop"
             \/ p = "drop" /\ label = "push"
             \/ p = "forget" /\ label = "delete"
             \/ p = "push" /\ label = "link"
    BY <1>9, Labels DEF Find, Size, Unindex, Drop, Forget, Push
  <2>2. q = label /\ d = c /\ Onward(t) /\ OthersStay(t)
    BY <1>1, <2>1
  <2>3. Fine(d, q)
    BY <1>4, <2>1, <2>2
  <2>4. Leads(t)
    BY <2>1, <2>2 DEF Leads
  <2> QED BY <1>5, <2>2, <2>3, <2>4
<1>10. CASE Exists(t)
  <2>1. p = "exists" /\ (GoTo(t, "erase") \/ Return(t))
    BY <1>10 DEF Exists
  <2>2. q \in {"erase", "idle"} /\ Onward(t) /\ OthersStay(t) /\ Fine(d, q)
    BY <1>1, <1>2, <1>4, <2>1, Labels
  <2> QED BY <1>5, <2>1, <2>2 DEF Leads
<1>11. CASE Back(t)
  <2>1. /\ p = "back"
        /\ frame' = [frame EXCEPT ![t].pc = "pop", ![t].victim = {Last(lru_list).key}]
    BY <1>11 DEF Back, Undefined
  <2>2. q = "pop" /\ d = c /\ frame'[t].key = frame[t].key /\ OthersStay(t)
    BY <1>0, <2>1 DEF Frame, OthersStay
  <2>3. Leads(t) /\ Onward(t)
    BY <2>1, <2>2 DEF Leads, Onward
  <2>4. Fine(d, q)
    BY <1>4, <2>1, <2>2
  <2> QED BY <1>5, <2>2, <2>3, <2>4
<1>12. CASE Pop(t)
  <2>1. p = "pop" /\ GoTo(t, "unindex")
    BY <1>12 DEF Pop, Undefined
  <2>2. q = "unindex" /\ d = c /\ Onward(t) /\ OthersStay(t)
    BY <1>1, <2>1, Labels
  <2>3. Fine(d, q)
    BY <1>4, <2>1, <2>2
  <2> QED BY <1>5, <2>1, <2>2, <2>3 DEF Leads
<1>13. CASE Erase(t)
  <2>1. p = "erase" /\ GoTo(t, IF c = "remove" THEN "forget" ELSE "push")
    BY <1>13 DEF Erase, Undefined
  <2>2. /\ q = (IF c = "remove" THEN "forget" ELSE "push")
        /\ d = c /\ Onward(t) /\ OthersStay(t)
    BY <1>1, <2>1, Labels
  <2>3. Fine(d, q)
    BY <1>4, <2>1, <2>2
  <2> QED BY <1>5, <2>1, <2>2, <2>3 DEF Leads
<1>14. CASE Link(t)
  <2>1. p = "link" /\ GoTo(t, IF c = "get" THEN "fetch" ELSE "save")
    BY <1>14 DEF Link, Undefined
  <2>2. /\ q = (IF c = "get" THEN "fetch" ELSE "save")
        /\ d = c /\ Onward(t) /\ OthersStay(t)
    BY <1>1, <2>1, Labels
  <2>3. Fine(d, q)
    BY <1>4, <2>1, <2>2
  <2> QED BY <1>5, <2>1, <2>2, <2>3 DEF Leads
<1>15. CASE Save(t)
  <2>1. p = "save" /\ NextPair(t)
    BY <1>15 DEF Save
  <2>2. q \in {"idle", "find"} /\ Fine(d, q) /\ Onward(t) /\ OthersStay(t)
    BY <1>3, <1>4, <2>1
  <2> QED BY <1>5, <2>1, <2>2 DEF Leads
<1> QED BY <1>6, <1>7, <1>8, <1>9, <1>10, <1>11, <1>12, <1>13, <1>14, <1>15 DEF Statement

LEMMA NextCalls ==
    ASSUME TypeInv, CallInv, NEW t \in Thread, Begin(t) \/ Statement(t)
    PROVE  CallInv'
<1>1. CASE broken'
  <2>1. ~broken
    BY DEF At, Begin, put, get, remove, get_kv_batch, set_kv_batch, Enter, Statement, Lock, Copy,
       Find, Exists, Size, Back, Pop, Unindex, Drop, Erase, Push, Link, Save, Fetch, Forget, Delete
  <2>2. UNCHANGED frame
    BY <1>1, <2>1 DEF Begin, put, get, remove, get_kv_batch, set_kv_batch, Enter, Statement,
       Lock, Copy, Find, Exists, Size, Back, Pop, Unindex, Drop, Erase, Push, Link, Save, Fetch,
       Forget, Delete, Undefined
  <2> QED BY <2>2 DEF CallInv, LockInv, Locked, Called
<1>2. CASE ~broken'
  <2>1. Leads(t) /\ Onward(t) /\ OthersStay(t) /\ Called(t)'
    BY <1>2, StepLeads DEF CallInv
  <2>2. \A u \in Thread : Called(u)'
    BY <2>1 DEF CallInv, OthersStay, Called
  <2>3. \A u \in Thread : \A calls : u # t => (Locked(u, calls)' <=> Locked(u, calls))
    BY <2>1 DEF OthersStay, Locked
  <2>4. ASSUME NEW calls \in SUBSET {"get_kv_batch", "set_kv_batch"}, Locked(t, calls)'
        PROVE  Locked(t, calls) \/ (frame[t].pc = "lock" /\ frame[t].call \in calls)
    <3>1. frame'[t].call \in calls /\ frame'[t].pc # "lock"
      BY <2>4 DEF Locked
    <3>2. frame'[t].pc # "idle"
      <4>1. /\ Statements["get_kv_batch"] = {"lock", "copy"}
            /\ "idle" \notin Statements["set_kv_batch"]
        BY DEF Statements
      <4>2. frame'[t].pc \in Statements[frame'[t].call]
        BY <2>1 DEF Called
      <4>3. frame'[t].call = "get_kv_batch" \/ frame'[t].call = "set_kv_batch"
        BY <3>1
      <4> QED BY <4>1, <4>2, <4>3
    <3>3. frame[t].pc # "idle"
      BY <2>1, <3>1, <3>2 DEF Onward
    <3>4. frame'[t].call = frame[t].call
      BY <2>1, <3>2, <3>3 DEF Onward
    <3> QED BY <3>1, <3>4 DEF Locked
  <2>5. CASE frame[t].pc = "lock"
    <3>1. Lock(t)
      BY <2>5 DEF At, Begin, put, get, remove, get_kv_batch, set_kv_batch, Enter, Statement, Lock,
         Copy, Find, Exists, Size, Back, Pop, Unindex, Drop, Erase, Push, Link, Save, Fetch, Forget,
         Delete
    <3>2. \A u \in Thread \ {t} :
            /\ ~Locked(u, {"set_kv_batch"})
            /\ frame[t].call = "set_kv_batch" => ~Locked(u, {"get_kv_batch"})
      BY <3>1 DEF Lock
    <3>3. \A u \in Thread \ {t} :
            /\ ~Locked(u, {"set_kv_batch"})'
            /\ frame[t].call = "set_kv_batch" => ~Locked(u, {"get_kv_batch", "set_kv_batch"})'
      BY <2>3, <3>2 DEF Locked
    <3>4. Locked(t, {"set_kv_batch"})' => frame[t].call = "set_kv_batch"
      <4>1. {"set_kv_batch"} \in SUBSET {"get_kv_batch", "set_kv_batch"}
        OBVIOUS
      <4>2. Locked(t, {"set_kv_batch"})' => Locked(t, {"set_kv_batch"})
                                               \/ frame[t].call \in {"set_kv_batch"}
        BY <2>4, <4>1
      <4> QED BY <4>2 DEF Locked
    <3>5. LockInv'
      BY <2>3, <3>3, <3>4 DEF CallInv, LockInv
    <3> QED BY <2>2, <3>5 DEF CallInv
  <2>6. CASE frame[t].pc # "lock"
    <3>1. \A calls \in SUBSET {"get_kv_batch", "set_kv_batch"} :
            Locked(t, calls)' => Locked(t, calls)
      BY <2>4, <2>6
    <3>2. LockInv'
      BY <2>3, <3>1 DEF CallInv, LockInv
    <3> QED BY <2>2, <3>2 DEF CallInv
  <2> QED BY <2>5, <2>6
<1> QED BY <1>1, <1>2

\* A batch only races with calls that take no lock.
LEMMA LocksProtect ==
    ASSUME TypeInv, CallInv
    PROVE  LockedCallsDoNotRace
<1> SUFFICES ASSUME NEW t \in Thread, NEW u \in Thread, t # u, Conflict(t, u),
                    {frame[t].call, frame[u].call} \cap {"put", "get", "remove"} = {}
             PROVE  FALSE
  BY DEF LockedCallsDoNotRace
<1>1. /\ frame[t].call \in {"none", "get_kv_batch", "set_kv_batch"}
      /\ frame[u].call \in {"none", "get_kv_batch", "set_kv_batch"}
  BY DEF TypeInv, TypeOK, Frame, Call
<1>2. Called(t) /\ Called(u)
  BY DEF CallInv
<1>3. PICK x \in {"index", "list", "store"} :
        /\ x \in Writes[frame[t].pc]
        /\ x \in Reads[frame[u].pc] \cup Writes[frame[u].pc]
  BY DEF Conflict
<1>4. frame[t].pc \notin {"idle", "lock", "copy"}
  BY <1>3 DEF Writes
<1>5. frame[u].pc \notin {"idle", "lock"}
  BY <1>3 DEF Reads, Writes
<1>6. Locked(t, {"set_kv_batch"})
  BY <1>1, <1>2, <1>4, CalledMeans DEF Locked
<1>7. Locked(u, {"get_kv_batch", "set_kv_batch"})
  BY <1>1, <1>2, <1>5, CalledMeans DEF Locked
<1> QED BY <1>6, <1>7 DEF CallInv, LockInv

LEMMA InitCalls == Init => CallInv
<1> SUFFICES ASSUME Init PROVE CallInv
  OBVIOUS
<1>1. \A t \in Thread : frame[t].pc = "idle" /\ frame[t].call = "none"
  BY DEF Init, Rest
<1>2. \A t \in Thread : Called(t)
  BY <1>1 DEF Called, Statements
<1> QED BY <1>1, <1>2 DEF CallInv, LockInv, Locked

LEMMA CallsInvariant == Spec => [](TypeInv /\ CallInv)
<1>1. TypeInv /\ CallInv /\ [Next]_vars => CallInv'
  <2> SUFFICES ASSUME TypeInv, CallInv, [Next]_vars PROVE CallInv'
    OBVIOUS
  <2>1. CASE UNCHANGED vars
    BY <2>1 DEF vars, CallInv, LockInv, Locked, Called
  <2> QED BY <2>1, NextCalls DEF Next
<1> QED BY <1>1, InitCalls, TypeInit, TypeNext, PTL DEF Spec

\* The mutex of LRUStore protects what takes it, for every number of threads: a batch is
\* never copied half set, and two batches do not mix (lru_store.cpp, get_kv_batch and
\* set_kv_batch).  What races is put, get or remove called on its own.
THEOREM LockedCallsAreSafe == Spec => []LockedCallsDoNotRace
BY LocksProtect, CallsInvariant, PTL

-----------------------------------------------------------------------------
(* What it takes to do damage                                              *)

\* The statements between finding a key and having the list and the index agree again.
Changing == {"find", "size", "back", "pop", "unindex", "drop", "erase", "push", "link",
             "forget"}

\* Of those, the ones that two threads may be at without having raced before.
Looking == {"find", "size", "back"}
Removes(t) == frame[t].call = "remove"
Beside(t, u) ==
    \/ frame[t].pc \in Looking /\ frame[u].pc \in Looking
    \/ frame[t].pc = "find" /\ frame[u].pc = "pop"
    \/ frame[t].pc = "drop" /\ frame[u].pc \in Looking \cup {"pop"}
    \/ frame[t].pc = "drop" /\ frame[u].pc = "erase" /\ ~Removes(u)

\* Two threads that can only go on by racing.
Jam == {<<"push", "find">>, <<"push", "drop">>, <<"push", "unindex">>, <<"link", "drop">>,
        <<"unindex", "drop">>}
Jammed == \E t, u \in Thread : t # u /\ <<frame[t].pc, frame[u].pc>> \in Jam

Apart == \A t, u \in Thread :
    t # u /\ frame[t].pc \in Changing /\ frame[u].pc \in Changing => Beside(t, u) \/ Beside(u, t)

Keys(list) == {list[i].key : i \in DOMAIN list}
Distinct == \A i, j \in DOMAIN lru_list :
    i # j => lru_list[i].cell # lru_list[j].cell /\ lru_list[i].key # lru_list[j].key

\* The list against the index.
Linking == \E t \in Thread : frame[t].pc = "link"
Indexed == \A i \in DOMAIN lru_list :
    i > 1 \/ ~Linking => /\ lru_list[i].key \in DOMAIN index
                         /\ index[lru_list[i].key] = lru_list[i].cell
Unlisted(t, k) == \/ frame[t].pc \in {"push", "forget"} /\ frame[t].key = k
                  \/ frame[t].pc = "unindex" /\ k \in frame[t].victim
Listed == \A k \in DOMAIN index :
    k \in Keys(lru_list) \/ \E t \in Thread : Unlisted(t, k)

\* The index against the map.
Stored   == \A k \in DOMAIN index :
    k \in store \/ \E t \in Thread : frame[t].pc = "save" /\ frame[t].key = k
Leaving(t, k) == \/ frame[t].pc = "delete" /\ frame[t].key = k
                 \/ frame[t].pc = "drop" /\ k \in frame[t].victim
NotStale == \A k \in store :
    k \in DOMAIN index \/ \E t \in Thread : Leaving(t, k)

\* What a thread at a statement has made sure of.
HasRoom(t) == frame[t].pc \in {"unindex", "drop", "push"} => Len(lru_list) < capacity
New(t)     == frame[t].pc \in {"size", "back", "pop", "unindex", "drop"}
                 => frame[t].key \notin DOMAIN index
Known(t)   == frame[t].pc = "erase" \/ (frame[t].call = "get" /\ frame[t].pc \in {"push", "link"})
                 => frame[t].key \in DOMAIN index
Off(t)     == /\ frame[t].pc \in {"push", "forget"} => frame[t].key \notin Keys(lru_list)
              /\ frame[t].pc = "unindex" => frame[t].victim \cap Keys(lru_list) = {}
AtHead(t)  == frame[t].pc = "link" => Head(lru_list).key = frame[t].key
AtLast(t)  == frame[t].pc = "pop" => frame[t].victim = {Last(lru_list).key}
Dropped(t) == frame[t].pc = "drop" => frame[t].victim \cap DOMAIN index = {}
Kept(t)    == /\ frame[t].pc = "save" => frame[t].key \in DOMAIN index
              /\ frame[t].pc = "delete" => frame[t].key \notin DOMAIN index
Sure(t) == HasRoom(t) /\ New(t) /\ Known(t) /\ Off(t) /\ AtHead(t) /\ AtLast(t)
              /\ Dropped(t) /\ Kept(t)

Consistent ==
    /\ Apart
    /\ Distinct /\ Indexed /\ Listed /\ Stored /\ NotStale
    /\ Len(lru_list) <= capacity
    /\ \A t \in Thread : Sure(t)

Filled == \A t \in Thread : frame[t].pc \in {"back", "pop", "link"} => lru_list # << >>

\* Until there has been a race: nothing is broken, and the structures differ only by what
\* threads between two statements account for.  Where two threads are jammed no more is
\* claimed: the list may be past its capacity already, but they race before they return.
DamageInv == raced \/ (~Race /\ ~broken /\ Filled /\ (Jammed \/ Consistent))

-----------------------------------------------------------------------------
(* Who may be where without having raced                                   *)

Clear(p, q) ==
    /\ \A x \in {"index", "list", "store"} : ~(x \in Writes[p] /\ x \in Reads[q] \cup Writes[q])
    /\ \A x \in {"index", "list", "store"} : ~(x \in Writes[q] /\ x \in Reads[p] \cup Writes[p])

\* What the statements access, the other way round.
LEMMA ClearMeans ==
    ASSUME NEW p, NEW q, Clear(p, q)
    PROVE  /\ p \in {"pop", "erase", "push"} =>
                q \notin {"size", "back", "link", "pop", "erase", "push"}
           /\ p \in {"unindex", "erase", "link", "forget"} =>
                q \notin {"find", "unindex", "erase", "link", "forget"}
           /\ p \in {"drop", "save", "delete"} =>
                q \notin {"exists", "fetch", "copy", "drop", "save", "delete"}
<1> DEFINE Meets(x) == x \in Writes[p] /\ x \in Reads[q] \cup Writes[q]
<1>1. ~Meets("list") /\ ~Meets("index") /\ ~Meets("store")
  BY DEF Clear
<1>2. p \in {"pop", "erase", "push"} => "list" \in Writes[p]
  BY DEF Writes
<1>3. p \in {"unindex", "erase", "link", "forget"} => "index" \in Writes[p]
  BY DEF Writes
<1>4. p \in {"drop", "save", "delete"} => "store" \in Writes[p]
  BY DEF Writes
<1>5. q \in {"size", "back", "link", "pop", "erase", "push"} => "list" \in Reads[q] \cup Writes[q]
  BY DEF Reads, Writes
<1>6. q \in {"find", "unindex", "erase", "link", "forget"} => "index" \in Reads[q] \cup Writes[q]
  BY DEF Reads, Writes
<1>7. q \in {"exists", "fetch", "copy", "drop", "save", "delete"}
        => "store" \in Reads[q] \cup Writes[q]
  BY DEF Reads, Writes
<1> QED BY <1>1, <1>2, <1>3, <1>4, <1>5, <1>6, <1>7

LEMMA ClearSymmetric ==
    ASSUME NEW p, NEW q, Clear(p, q)
    PROVE  Clear(q, p)
BY DEF Clear

\* A step after which there has still been no race.
Careful(t) ==
    /\ Leads(t) /\ Onward(t) /\ OthersStay(t) /\ Called(t)
    /\ \A u \in Thread : u # t => /\ Clear(frame[t].pc, frame[u].pc)
                                  /\ Clear(frame'[t].pc, frame[u].pc)

LEMMA NoRaceIsCareful ==
    ASSUME TypeInv, CallInv, ~Race, ~Race', ~broken',
           NEW t \in Thread, Begin(t) \/ Statement(t)
    PROVE  Careful(t)
<1>1. Leads(t) /\ Onward(t) /\ OthersStay(t) /\ Called(t)
  BY StepLeads DEF CallInv
<1> SUFFICES ASSUME NEW u \in Thread, u # t
             PROVE  Clear(frame[t].pc, frame[u].pc) /\ Clear(frame'[t].pc, frame[u].pc)
  BY <1>1 DEF Careful
<1>2. Clear(frame[t].pc, frame[u].pc)
  BY DEF Race, Conflict, Clear
<1>3. Clear(frame'[t].pc, frame'[u].pc)
  BY DEF Race, Conflict, Clear
<1> QED BY <1>1, <1>2, <1>3 DEF OthersStay

\* Two threads that are jammed stay so, or race.
LEMMA JamStays ==
    ASSUME TypeInv, NEW t \in Thread, Careful(t), Jammed
    PROVE  Jammed'
<1>1. PICK v, w \in Thread : v # w /\ <<frame[v].pc, frame[w].pc>> \in Jam
  BY DEF Jammed
<1>2. CASE v # t /\ w # t
  BY <1>1, <1>2 DEF Careful, OthersStay, Jammed
<1>3. CASE v = t
  <2> DEFINE p == frame[t].pc
             n == frame'[t].pc
             q == frame[w].pc
  <2>1. <<p, q>> \in Jam /\ Clear(n, q) /\ w # t /\ frame'[w].pc = q
    BY <1>1, <1>3 DEF Careful, OthersStay
  <2>2. /\ p = "push" => n = "link"
        /\ p = "link" => n \in {"fetch", "save"}
        /\ p = "unindex" => n = "drop"
    BY DEF Careful, Leads
  <2> HIDE DEF p, n, q
  <2>3. /\ n = "link" => q \notin {"find", "unindex"}
        /\ n \in {"drop", "save"} => q # "drop"
        /\ q = "drop" => n # "fetch"
    BY <2>1, ClearMeans, ClearSymmetric
  <2>4. <<n, q>> \in Jam
    BY <2>1, <2>2, <2>3 DEF Jam
  <2> QED BY <1>3, <2>1, <2>4 DEF Jammed, n
<1>4. CASE w = t
  <2> DEFINE p == frame[t].pc
             n == frame'[t].pc
             q == frame[v].pc
  <2>1. <<q, p>> \in Jam /\ Clear(n, q) /\ v # t /\ frame'[v].pc = q
    BY <1>1, <1>4 DEF Careful, OthersStay
  <2>2. /\ p = "find" => n \in {"erase", "size"}
        /\ p = "drop" => n = "push"
        /\ p = "unindex" => n = "drop"
    BY DEF Careful, Leads
  <2> HIDE DEF p, n, q
  <2>3. /\ n = "erase" => q # "push"
        /\ n = "push" => q \notin {"push", "link"}
        /\ q = "push" => n # "size"
    BY <2>1, ClearMeans, ClearSymmetric
  <2>4. <<q, n>> \in Jam \/ <<n, q>> \in Jam
    BY <2>1, <2>2, <2>3 DEF Jam
  <2> QED BY <1>4, <2>1, <2>4 DEF Jammed, n
<1> QED BY <1>1, <1>2, <1>3, <1>4

\* A step keeps the threads apart or jams two of them.
LEMMA StaysApart ==
    ASSUME TypeInv, NEW t \in Thread, Careful(t), Apart
    PROVE  Apart' \/ Jammed'
<1> SUFFICES ASSUME ~Jammed' PROVE Apart'
  OBVIOUS
<1>1. ASSUME NEW u \in Thread, u # t, frame'[t].pc \in Changing, frame'[u].pc \in Changing
      PROVE  Beside(t, u)' \/ Beside(u, t)'
  <2> DEFINE p == frame[t].pc
             n == frame'[t].pc
             q == frame[u].pc
             out  == frame[t].call = "remove"
             away == frame[u].call = "remove"
  <2>1. /\ Clear(p, q) /\ Clear(n, q)
        /\ frame'[u] = frame[u]
        /\ n \in Changing /\ q \in Changing
    BY <1>1 DEF Careful, OthersStay
  <2>2. /\ p = "idle" => n \in {"find", "exists", "lock"}
        /\ p = "lock" => n \in {"idle", "find", "copy"}
        /\ p \in {"copy", "fetch", "delete"} => n = "idle"
        /\ p = "find" => n \in {"erase", "size"}
        /\ p = "exists" => n \in {"erase", "idle"}
        /\ p = "size" => n \in {"back", "push"}
        /\ p = "back" => n = "pop"
        /\ p = "pop" => n = "unindex"
        /\ p = "unindex" => n = "drop"
        /\ p = "drop" => n = "push"
        /\ p = "erase" => n = IF out THEN "forget" ELSE "push"
        /\ p = "push" => n = "link"
        /\ p = "link" => n \in {"fetch", "save"}
        /\ p = "save" => n \in {"idle", "find"}
        /\ p = "forget" => n = "delete"
    BY DEF Careful, Leads
  <2>3. p \in Label
    BY DEF TypeInv, TypeOK, Frame
  <2>4. p = "find" => ~out
    BY CalledMeans DEF Careful
  <2>5. p = "find" => frame'[t].call = frame[t].call
    BY <1>1 DEF Careful, Onward, Changing
  <2>6. <<n, q>> \notin Jam /\ <<q, n>> \notin Jam
    BY <1>1, <2>1 DEF Jammed
  <2>7. p \in Changing =>
          \/ p \in Looking /\ q \in Looking
          \/ p = "find" /\ q = "pop"
          \/ p = "drop" /\ q \in Looking \cup {"pop"}
          \/ p = "drop" /\ q = "erase" /\ ~away
          \/ q = "find" /\ p = "pop"
          \/ q = "drop" /\ p \in Looking \cup {"pop"}
          \/ q = "drop" /\ p = "erase" /\ ~out
    BY <1>1, <2>1, Zenon DEF Apart, Beside, Removes
  <2> HIDE DEF p, n, q, out, away
  <2>8. /\ n \in {"pop", "erase", "push"} =>
                q \notin {"size", "back", "link", "pop", "erase", "push"}
        /\ n \in {"unindex", "erase", "link", "forget"} =>
                q \notin {"find", "unindex", "erase", "link", "forget"}
        /\ n = "drop" => q # "drop"
        /\ n = "find" => q \notin {"unindex", "erase", "link", "forget"}
        /\ n \in {"size", "back"} => q \notin {"pop", "erase", "push"}
        /\ p = "exists" => q # "drop"
    BY <2>1, ClearMeans, ClearSymmetric
  <2>9. /\ ~(n = "push" /\ q \in {"find", "drop", "unindex"})
        /\ ~(q = "push" /\ n \in {"find", "drop", "unindex"})
        /\ ~(n \in {"link", "unindex"} /\ q = "drop")
        /\ ~(q \in {"link", "unindex"} /\ n = "drop")
    BY <2>6 DEF Jam
  <2>10. \/ n \in Looking /\ q \in Looking
         \/ n = "find" /\ q = "pop"
         \/ n = "drop" /\ q \in Looking \cup {"pop"}
         \/ n = "drop" /\ q = "erase" /\ ~away
         \/ q = "find" /\ n = "pop"
         \/ q = "drop" /\ n \in Looking \cup {"pop"}
         \/ q = "drop" /\ n = "erase" /\ p = "find" /\ ~out
    <3>1. CASE p \notin Changing
      BY <3>1, <2>1, <2>2, <2>3, <2>8, <2>9, Labels DEF Changing, Looking
    <3>2. CASE p \in Changing
      BY <3>2, <2>1, <2>2, <2>4, <2>7, <2>8, <2>9 DEF Changing, Looking
    <3> QED BY <3>1, <3>2
  <2> QED BY <2>1, <2>5, <2>10, Zenon DEF Beside, Removes, n, q, p, out, away
<1>2. ASSUME NEW v \in Thread, NEW w \in Thread, v # w, v # t, w # t,
             frame'[v].pc \in Changing, frame'[w].pc \in Changing
      PROVE  Beside(v, w)' \/ Beside(w, v)'
  BY <1>2 DEF Careful, OthersStay, Apart, Beside, Removes
<1> QED BY <1>1, <1>2 DEF Apart

-----------------------------------------------------------------------------
(* Statements that leave the list alone                                    *)

Alone(t) == \A u \in Thread : u # t => frame[u].pc \notin Changing

LEMMA Company ==
    ASSUME TypeInv, NEW t \in Thread, Careful(t), Apart, Apart'
    PROVE  /\ frame[t].pc \in {"pop", "unindex", "erase", "push", "link", "forget"} => Alone(t)
           /\ frame[t].pc \in {"size", "drop"} => ~Linking
<1>1. ASSUME NEW u \in Thread, u # t, frame[u].pc \in Changing
      PROVE  frame[t].pc \notin {"unindex", "push", "link", "forget"}
  BY <1>1 DEF Apart, Beside, Changing, Looking
<1>2. ASSUME NEW u \in Thread, u # t, frame[u].pc \in Changing
      PROVE  frame'[t].pc \notin {"unindex", "push", "forget"}
  <2>1. frame'[u].pc = frame[u].pc
    BY <1>2 DEF Careful, OthersStay
  <2> QED BY <1>2, <2>1 DEF Apart, Beside, Changing, Looking
<1>3. frame[t].pc \in {"pop", "erase"} => frame'[t].pc \in {"unindex", "push", "forget"}
  BY DEF Careful, Leads
<1>4. ASSUME NEW u \in Thread, frame[u].pc = "link"
      PROVE  frame[t].pc \notin {"size", "drop"}
  BY <1>4 DEF Apart, Beside, Changing, Looking
<1> QED BY <1>1, <1>2, <1>3, <1>4 DEF Alone, Linking

Agree == Distinct /\ Indexed /\ Listed /\ Stored /\ NotStale /\ Len(lru_list) <= capacity

LEMMA AloneSure ==
    ASSUME NEW t \in Thread, Careful(t), Alone(t), NEW u \in Thread, u # t, Kept(u)'
    PROVE  Sure(u)'
<1>1. frame'[u].pc \notin Changing
  BY DEF Alone, Careful, OthersStay
<1> QED BY <1>1 DEF Changing, Sure, HasRoom, New, Known, Off, AtHead, AtLast, Dropped

LEMMA QuietAgree ==
    ASSUME TypeInv, Agree, NEW t \in Thread, Careful(t), UNCHANGED <<store, lru_list, index>>,
           frame[t].pc \in {"idle", "lock", "copy", "find", "exists", "size", "back", "fetch"}
    PROVE  Agree'
<1>1. frame'[t].pc # "link"
  BY DEF Careful, Leads
<1>2. \A u \in Thread : u # t => frame'[u] = frame[u]
  BY DEF Careful, OthersStay
<1>3. Linking' => Linking
  BY <1>1, <1>2 DEF Linking
<1>4. Distinct'
  BY DEF Agree, Distinct
<1>5. Indexed'
  BY <1>1, <1>2 DEF Agree, Indexed, Linking
<1>6. Listed'
  <2> SUFFICES ASSUME NEW k \in DOMAIN index, k \notin Keys(lru_list)
               PROVE  \E u \in Thread : Unlisted(u, k)'
    BY DEF Listed, Keys
  <2>1. PICK u \in Thread : Unlisted(u, k)
    BY DEF Agree, Listed
  <2>2. u # t
    BY <2>1 DEF Unlisted
  <2> QED BY <1>2, <2>1, <2>2 DEF Unlisted
<1>7. Stored'
  <2> SUFFICES ASSUME NEW k \in DOMAIN index, k \notin store
               PROVE  \E u \in Thread : (frame[u].pc = "save" /\ frame[u].key = k)'
    BY DEF Stored
  <2>1. PICK u \in Thread : frame[u].pc = "save" /\ frame[u].key = k
    BY DEF Agree, Stored
  <2>2. u # t
    BY <2>1
  <2> QED BY <1>2, <2>1, <2>2
<1>8. NotStale'
  <2> SUFFICES ASSUME NEW k \in store, k \notin DOMAIN index
               PROVE  \E u \in Thread : Leaving(u, k)'
    BY DEF NotStale
  <2>1. PICK u \in Thread : Leaving(u, k)
    BY DEF Agree, NotStale
  <2>2. u # t
    BY <2>1 DEF Leaving
  <2> QED BY <1>2, <2>1, <2>2 DEF Leaving
<1> QED BY <1>4, <1>5, <1>6, <1>7, <1>8 DEF Agree

LEMMA QuietSure ==
    ASSUME Consistent, NEW t \in Thread, Careful(t), UNCHANGED <<store, lru_list, index>>,
           NEW u \in Thread, u # t
    PROVE  Sure(u)'
<1>1. frame'[u] = frame[u] /\ Sure(u)
  BY DEF Careful, OthersStay, Consistent
<1> QED BY <1>1 DEF Sure, HasRoom, New, Known, Off, AtHead, AtLast, Dropped, Kept, Keys

\* Statements that only look.
LEMMA LookingKeeps ==
    ASSUME TypeInv, Consistent, NEW t \in Thread, Careful(t), Apart', ~broken',
           \/ Begin(t) \/ Lock(t) \/ Copy(t) \/ Find(t) \/ Exists(t) \/ Size(t) \/ Back(t)
           \/ Fetch(t)
    PROVE  Consistent'
<1> USE DEF At
<1>0. /\ UNCHANGED <<store, lru_list, index>>
      /\ frame[t].pc \in {"idle", "lock", "copy", "find", "exists", "size", "back", "fetch"}
  BY DEF Begin, put, get, remove, get_kv_batch, set_kv_batch, Enter, Lock, Copy, Find, Exists,
     Size, Back, Fetch, Undefined
<1>1. frame[t].pc = "idle" <=> Begin(t)
  BY <1>0 DEF Begin, put, get, remove, get_kv_batch, set_kv_batch, Enter, Lock, Copy, Find,
     Exists, Size, Back, Fetch
<1>2. Agree'
  BY <1>0, QuietAgree DEF Consistent, Agree
<1>3. \A u \in Thread : u # t => Sure(u)'
  BY <1>0, QuietSure
<1>4. /\ Distinct /\ Indexed /\ Listed /\ Stored /\ NotStale /\ Sure(t)
      /\ lru_list \in Seq(Element) /\ Len(lru_list) \in Nat /\ capacity \in Nat
  BY ThreadsAssumption, LenProperties DEF Consistent, TypeInv, TypeOK, Element
<1>5. Sure(t)'
  <2>1. CASE frame[t].pc \in {"idle", "lock", "copy", "fetch"}
    <3>1. frame'[t].pc \in {"idle", "find", "exists", "lock", "copy"}
      BY <2>1 DEF Careful, Leads
    <3> QED BY <3>1 DEF Sure, HasRoom, New, Known, Off, AtHead, AtLast, Dropped, Kept
  <2>2. CASE frame[t].pc = "find"
    <3>1. frame'[t].pc \in {"erase", "size"} /\ frame'[t].key = frame[t].key
      BY <2>2 DEF Careful, Leads, Onward
    <3>2. /\ frame'[t].pc = "erase" => frame'[t].key \in DOMAIN index'
          /\ frame'[t].pc = "size" => frame'[t].key \notin DOMAIN index'
      <4>1. Find(t)
        BY <1>1, <2>2 DEF Lock, Copy, Find, Exists, Size, Back, Fetch
      <4>2. frame'[t].pc = IF frame[t].key \in DOMAIN index THEN "erase" ELSE "size"
        BY <4>1, GoToLeads, Labels DEF Find
      <4> QED BY <1>0, <3>1, <4>2
    <3> QED BY <3>1, <3>2 DEF Sure, HasRoom, New, Known, Off, AtHead, AtLast, Dropped, Kept
  <2>3. CASE frame[t].pc = "exists"
    <3>1. frame'[t].pc \in {"erase", "idle"}
      BY <2>3 DEF Careful, Leads
    <3>2. ASSUME frame'[t].pc = "erase" PROVE frame'[t].key \in DOMAIN index'
      <4>1. Exists(t)
        BY <1>1, <2>3 DEF Lock, Copy, Find, Exists, Size, Back, Fetch
      <4>2. frame[t].key \in store
        BY <3>2, <4>1, ReturnLeads DEF Exists
      <4>3. \A u \in Thread : frame[u].pc \notin {"delete", "drop"}
        BY <2>3, ClearMeans, ClearSymmetric DEF Careful
      <4>4. frame[t].key \in DOMAIN index
        BY <1>4, <4>2, <4>3 DEF NotStale, Leaving
      <4> QED BY <1>0, <2>3, <3>2, <4>4 DEF Careful, Onward
    <3> QED BY <3>1, <3>2 DEF Sure, HasRoom, New, Known, Off, AtHead, AtLast, Dropped, Kept
  <2>4. CASE frame[t].pc = "size"
    <3>1. Size(t)
      BY <1>1, <2>4 DEF Lock, Copy, Find, Exists, Size, Back, Fetch
    <3>2. /\ frame'[t].pc = (IF Len(lru_list) >= capacity THEN "back" ELSE "push")
          /\ frame'[t].key = frame[t].key /\ frame'[t].call = frame[t].call
      BY <3>1, GoToLeads, Labels DEF Size
    <3>3. frame[t].key \notin DOMAIN index
      BY <1>4, <2>4 DEF Sure, New
    <3>4. ~Linking
      BY <2>4, Company DEF Consistent
    <3>5. frame[t].key \notin Keys(lru_list)
      BY <1>4, <3>3, <3>4 DEF Indexed, Keys
    <3>6. frame[t].call # "get"
      BY <2>4, CalledMeans DEF Careful
    <3>7. Keys(lru_list)' = Keys(lru_list) /\ Len(lru_list)' = Len(lru_list)
      BY <1>0 DEF Keys
    <3>8. CASE Len(lru_list) >= capacity
      <4>1. frame'[t].pc = "back" /\ frame'[t].key \notin DOMAIN index'
        BY <1>0, <3>2, <3>3, <3>8
      <4> QED BY <4>1 DEF Sure, HasRoom, New, Known, Off, AtHead, AtLast, Dropped, Kept
    <3>9. CASE ~(Len(lru_list) >= capacity)
      <4>1. frame'[t].pc = "push" /\ Len(lru_list)' < capacity
        BY <1>4, <3>2, <3>7, <3>9
      <4> QED BY <3>2, <3>5, <3>6, <3>7, <4>1
              DEF Sure, HasRoom, New, Known, Off, AtHead, AtLast, Dropped, Kept
    <3> QED BY <3>8, <3>9
  <2>5. CASE frame[t].pc = "back"
    <3>1. Back(t)
      BY <1>1, <2>5 DEF Lock, Copy, Find, Exists, Size, Back, Fetch
    <3>2. /\ frame'[t].pc = "pop" /\ frame'[t].key = frame[t].key
          /\ frame'[t].victim = {Last(lru_list).key}
      BY <3>1 DEF Back, Undefined, Frame, TypeInv, TypeOK
    <3>3. frame[t].key \notin DOMAIN index
      BY <1>4, <2>5 DEF Sure, New
    <3>4. frame'[t].key \notin DOMAIN index' /\ frame'[t].victim = {Last(lru_list').key}
      BY <1>0, <3>2, <3>3
    <3> QED BY <3>2, <3>4 DEF Sure, HasRoom, New, Known, Off, AtHead, AtLast, Dropped, Kept
  <2> QED BY <1>0, <2>1, <2>2, <2>3, <2>4, <2>5
<1>6. \A u \in Thread : Sure(u)'
  BY <1>3, <1>5
<1> QED BY <1>2, <1>6 DEF Consistent, Agree

\* Statements that change the map.
LEMMA StoreKeeps ==
    ASSUME TypeInv, Consistent, NEW t \in Thread, Careful(t), Apart', ~broken',
           Save(t) \/ Drop(t) \/ Delete(t)
    PROVE  Consistent'
<1> USE DEF At
<1>0. /\ UNCHANGED <<lru_list, index>>
      /\ frame[t].pc \in {"save", "drop", "delete"}
  BY DEF Save, Drop, Delete
<1>1. /\ frame[t].pc = "save" => store' = store \cup {frame[t].key}
      /\ frame[t].pc = "drop" => store' = store \ frame[t].victim
      /\ frame[t].pc = "delete" => store' = store \ {frame[t].key}
  BY DEF Save, Drop, Delete
<1>2. /\ \A u \in Thread : u # t => frame'[u] = frame[u]
      /\ frame'[t].pc \in {"idle", "find", "push"}
      /\ frame'[t].pc = "push" <=> frame[t].pc = "drop"
  BY <1>0 DEF Careful, OthersStay, Leads
<1>3. /\ Distinct /\ Indexed /\ Listed /\ Stored /\ NotStale /\ Len(lru_list) <= capacity
      /\ \A u \in Thread : Sure(u)
  BY DEF Consistent
<1>4. Keys(lru_list)' = Keys(lru_list) /\ Distinct' /\ Len(lru_list)' <= capacity
  BY <1>0, <1>3 DEF Keys, Distinct
<1>5. Indexed'
  BY <1>0, <1>2, <1>3 DEF Indexed, Linking
<1>6. Listed'
  <2> SUFFICES ASSUME NEW k \in DOMAIN index, k \notin Keys(lru_list)
               PROVE  \E u \in Thread : Unlisted(u, k)'
    BY <1>0, <1>4 DEF Listed
  <2>1. PICK u \in Thread : Unlisted(u, k)
    BY <1>3 DEF Listed
  <2>2. u # t
    BY <1>0, <2>1 DEF Unlisted
  <2> QED BY <1>2, <2>1, <2>2 DEF Unlisted
<1>7. Stored'
  <2> SUFFICES ASSUME NEW k \in DOMAIN index, k \notin store'
               PROVE  \E u \in Thread : (frame[u].pc = "save" /\ frame[u].key = k)'
    BY <1>0 DEF Stored
  <2>1. frame[t].pc = "save" => k # frame[t].key
    BY <1>1
  <2>2. k \notin store
    BY <1>0, <1>1, <1>3 DEF Sure, Dropped, Kept
  <2>3. PICK u \in Thread : frame[u].pc = "save" /\ frame[u].key = k
    BY <1>3, <2>2 DEF Stored
  <2>4. u # t
    BY <2>1, <2>3
  <2> QED BY <1>2, <2>3, <2>4
<1>8. NotStale'
  <2> SUFFICES ASSUME NEW k \in store', k \notin DOMAIN index
               PROVE  \E u \in Thread : Leaving(u, k)'
    BY <1>0 DEF NotStale
  <2>1. k \in store
    BY <1>0, <1>1, <1>3 DEF Sure, Kept
  <2>2. PICK u \in Thread : Leaving(u, k)
    BY <1>3, <2>1 DEF NotStale
  <2>3. u # t
    BY <1>1, <2>2 DEF Leaving
  <2> QED BY <1>2, <2>2, <2>3 DEF Leaving
<1>9. ASSUME NEW u \in Thread, u # t PROVE Sure(u)'
  <2>1. frame'[u] = frame[u] /\ Sure(u)
    BY <1>2, <1>3, <1>9
  <2> QED BY <1>0, <1>4, <2>1 DEF Sure, HasRoom, New, Known, Off, AtHead, AtLast, Dropped, Kept
<1>10. Sure(t)'
  <2>1. CASE frame[t].pc # "drop"
    <3>1. frame'[t].pc \in {"idle", "find"}
      BY <1>2, <2>1
    <3> QED BY <3>1 DEF Sure, HasRoom, New, Known, Off, AtHead, AtLast, Dropped, Kept
  <2>2. CASE frame[t].pc = "drop"
    <3>1. frame'[t].pc = "push" /\ frame'[t].key = frame[t].key /\ frame'[t].call = frame[t].call
      BY <1>2, <2>2 DEF Careful, Onward
    <3>2. frame[t].call # "get"
      BY <2>2, CalledMeans DEF Careful
    <3>3. frame[t].key \notin DOMAIN index /\ Len(lru_list) < capacity
      BY <1>3, <2>2 DEF Sure, New, HasRoom
    <3>4. ~Linking
      BY <2>2, Company DEF Consistent
    <3>5. frame[t].key \notin Keys(lru_list)
      BY <1>3, <3>3, <3>4 DEF Indexed, Keys
    <3> QED BY <1>0, <1>4, <3>1, <3>2, <3>3, <3>5
            DEF Sure, HasRoom, New, Known, Off, AtHead, AtLast, Dropped, Kept
  <2> QED BY <2>1, <2>2
<1>11. \A u \in Thread : Sure(u)'
  BY <1>9, <1>10
<1> QED BY <1>4, <1>5, <1>6, <1>7, <1>8, <1>11 DEF Consistent

\* Statements that take keys from the index.
LEMMA IndexShrinks ==
    ASSUME TypeInv, Consistent, NEW t \in Thread, Careful(t), Apart', ~broken',
           Unindex(t) \/ Forget(t)
    PROVE  Consistent'
<1> USE DEF At
<1> DEFINE gone == IF frame[t].pc = "unindex" THEN frame[t].victim ELSE {frame[t].key}
<1>0. /\ UNCHANGED <<lru_list, store>>
      /\ frame[t].pc \in {"unindex", "forget"}
      /\ index' = Without(index, gone)
  BY DEF Unindex, Forget
<1>1. /\ DOMAIN index' = DOMAIN index \ gone
      /\ \A k \in DOMAIN index' : index'[k] = index[k]
  BY <1>0 DEF Without
<1>2. /\ \A u \in Thread : u # t => frame'[u] = frame[u]
      /\ frame[t].pc = "unindex" => frame'[t].pc = "drop"
      /\ frame[t].pc = "forget" => frame'[t].pc = "delete"
      /\ frame'[t].key = frame[t].key /\ frame'[t].victim = frame[t].victim
  BY <1>0 DEF Careful, OthersStay, Leads, Onward
<1>3. /\ Distinct /\ Indexed /\ Listed /\ Stored /\ NotStale /\ Len(lru_list) <= capacity
      /\ \A u \in Thread : Sure(u)
  BY DEF Consistent
<1>4. Keys(lru_list)' = Keys(lru_list) /\ Distinct' /\ Len(lru_list)' <= capacity
  BY <1>0, <1>3 DEF Keys, Distinct
<1>5. Alone(t)
  BY <1>0, Company DEF Consistent
<1>6. gone \cap Keys(lru_list) = {}
  BY <1>0, <1>3 DEF Sure, Off
<1>7. \A k : k \in gone => Leaving(t, k)'
  BY <1>0, <1>2 DEF Leaving
<1>8. \A k : Unlisted(t, k) => k \in gone
  BY <1>0 DEF Unlisted
<1> HIDE DEF gone
<1>9. Indexed'
  <2> SUFFICES ASSUME NEW i \in DOMAIN lru_list
               PROVE  lru_list[i].key \in DOMAIN index' /\ index'[lru_list[i].key] = lru_list[i].cell
    BY <1>0 DEF Indexed
  <2>1. ~Linking
    BY <1>0, <1>5 DEF Alone, Linking, Changing
  <2>2. lru_list[i].key \in DOMAIN index /\ index[lru_list[i].key] = lru_list[i].cell
    BY <1>3, <2>1 DEF Indexed
  <2>3. lru_list[i].key \notin gone
    BY <1>6 DEF Keys
  <2> QED BY <1>1, <2>2, <2>3
<1>10. Listed'
  <2> SUFFICES ASSUME NEW k \in DOMAIN index', k \notin Keys(lru_list)
               PROVE  \E u \in Thread : Unlisted(u, k)'
    BY <1>4 DEF Listed
  <2>1. PICK u \in Thread : Unlisted(u, k)
    BY <1>1, <1>3 DEF Listed
  <2>2. u # t
    BY <1>1, <1>8, <2>1
  <2> QED BY <1>2, <2>1, <2>2 DEF Unlisted
<1>11. Stored'
  <2> SUFFICES ASSUME NEW k \in DOMAIN index', k \notin store
               PROVE  \E u \in Thread : (frame[u].pc = "save" /\ frame[u].key = k)'
    BY <1>0 DEF Stored
  <2>1. PICK u \in Thread : frame[u].pc = "save" /\ frame[u].key = k
    BY <1>1, <1>3 DEF Stored
  <2>2. u # t
    BY <1>0, <2>1
  <2> QED BY <1>2, <2>1, <2>2
<1>12. NotStale'
  <2> SUFFICES ASSUME NEW k \in store, k \notin DOMAIN index'
               PROVE  \E u \in Thread : Leaving(u, k)'
    BY <1>0 DEF NotStale
  <2>1. CASE k \in gone
    BY <1>7, <2>1
  <2>2. CASE k \notin gone
    <3>1. PICK u \in Thread : Leaving(u, k)
      BY <1>1, <1>3, <2>2 DEF NotStale
    <3>2. u # t
      BY <1>0, <3>1 DEF Leaving
    <3> QED BY <1>2, <3>1, <3>2 DEF Leaving
  <2> QED BY <2>1, <2>2
<1>13. ASSUME NEW u \in Thread, u # t PROVE Sure(u)'
  <2>1. Clear(frame'[t].pc, frame[u].pc)
    BY <1>13 DEF Careful
  <2>2. frame[u].pc \notin {"save", "delete"}
    BY <1>0, <1>2, <2>1, ClearMeans
  <2>3. Kept(u)'
    BY <1>2, <1>13, <2>2 DEF Kept
  <2> QED BY <1>5, <1>13, <2>3, AloneSure
<1>14. Sure(t)'
  <2>1. CASE frame[t].pc = "unindex"
    <3>1. frame[t].key \notin DOMAIN index /\ Len(lru_list) < capacity
      BY <1>3, <2>1 DEF Sure, New, HasRoom
    <3>2. frame'[t].key \notin DOMAIN index'
      BY <1>1, <1>2, <3>1
    <3>3. frame'[t].victim \cap DOMAIN index' = {}
      BY <1>1, <1>2, <2>1 DEF gone
    <3>4. Len(lru_list') < capacity /\ frame'[t].pc = "drop"
      BY <1>0, <1>2, <2>1, <3>1
    <3> QED BY <3>2, <3>3, <3>4
            DEF Sure, HasRoom, New, Known, Off, AtHead, AtLast, Dropped, Kept
  <2>2. CASE frame[t].pc = "forget"
    <3>1. frame'[t].key \notin DOMAIN index' /\ frame'[t].pc = "delete"
      BY <1>1, <1>2, <2>2 DEF gone
    <3> QED BY <3>1 DEF Sure, HasRoom, New, Known, Off, AtHead, AtLast, Dropped, Kept
  <2> QED BY <1>0, <2>1, <2>2
<1>15. \A u \in Thread : Sure(u)'
  BY <1>13, <1>14
<1> QED BY <1>4, <1>9, <1>10, <1>11, <1>12, <1>15 DEF Consistent

\* The statement that links the head of the list.
LEMMA LinkKeeps ==
    ASSUME TypeInv, Consistent, NEW t \in Thread, Careful(t), Apart', ~broken', Link(t)
    PROVE  Consistent'
<1> USE DEF At
<1> DEFINE key == frame[t].key
<1>0. /\ UNCHANGED <<lru_list, store>>
      /\ frame[t].pc = "link"
      /\ lru_list # << >>
      /\ index' = With(index, key, Head(lru_list).cell)
  BY DEF Link, Undefined
<1>1. /\ DOMAIN index' = DOMAIN index \cup {key}
      /\ index'[key] = Head(lru_list).cell
      /\ \A k \in DOMAIN index : k # key => index'[k] = index[k]
  BY <1>0 DEF With
<1>2. /\ \A u \in Thread : u # t => frame'[u] = frame[u]
      /\ frame'[t].pc = IF frame[t].call = "get" THEN "fetch" ELSE "save"
      /\ frame'[t].key = key
  BY <1>0 DEF Careful, OthersStay, Leads, Onward
<1>3. /\ Distinct /\ Indexed /\ Listed /\ Stored /\ NotStale /\ Len(lru_list) <= capacity
      /\ \A u \in Thread : Sure(u)
  BY DEF Consistent
<1>4. Keys(lru_list)' = Keys(lru_list) /\ Distinct' /\ Len(lru_list)' <= capacity
  BY <1>0, <1>3 DEF Keys, Distinct
<1>5. Alone(t)
  BY <1>0, Company DEF Consistent
<1>6. /\ lru_list \in Seq(Element) /\ 1 \in DOMAIN lru_list
      /\ Head(lru_list) = lru_list[1] /\ lru_list[1].key = key
      /\ DOMAIN lru_list \subseteq Nat \ {0}
  BY <1>0, <1>3 DEF TypeInv, TypeOK, Element, Sure, AtHead
<1> HIDE DEF key
<1>7. Indexed'
  <2> SUFFICES ASSUME NEW i \in DOMAIN lru_list
               PROVE  lru_list[i].key \in DOMAIN index' /\ index'[lru_list[i].key] = lru_list[i].cell
    BY <1>0 DEF Indexed
  <2>1. CASE i = 1
    BY <1>1, <1>6, <2>1
  <2>2. CASE i # 1
    <3>1. i > 1
      BY <1>6, <2>2
    <3>2. lru_list[i].key # key
      BY <1>3, <1>6, <2>2 DEF Distinct
    <3>3. lru_list[i].key \in DOMAIN index /\ index[lru_list[i].key] = lru_list[i].cell
      BY <1>3, <3>1 DEF Indexed
    <3> QED BY <1>1, <3>2, <3>3
  <2> QED BY <2>1, <2>2
<1>8. Listed'
  <2> SUFFICES ASSUME NEW k \in DOMAIN index', k \notin Keys(lru_list)
               PROVE  FALSE
    BY <1>4 DEF Listed
  <2>1. k \in DOMAIN index
    BY <1>1, <1>6 DEF Keys
  <2>2. PICK u \in Thread : Unlisted(u, k)
    BY <1>3, <2>1 DEF Listed
  <2>3. frame[u].pc \in Changing /\ u # t
    BY <1>0, <2>2 DEF Unlisted, Changing
  <2> QED BY <1>5, <2>3 DEF Alone
<1>9. Stored'
  <2> SUFFICES ASSUME NEW k \in DOMAIN index', k \notin store
               PROVE  \E u \in Thread : (frame[u].pc = "save" /\ frame[u].key = k)'
    BY <1>0 DEF Stored
  <2>1. CASE k \in DOMAIN index
    <3>1. PICK u \in Thread : frame[u].pc = "save" /\ frame[u].key = k
      BY <1>3, <2>1 DEF Stored
    <3>2. u # t
      BY <1>0, <3>1
    <3> QED BY <1>2, <3>1, <3>2
  <2>2. CASE k \notin DOMAIN index
    <3>1. k = key
      BY <1>1, <2>2
    <3>2. frame[t].call # "get"
      BY <1>0, <1>3, <2>2, <3>1 DEF Sure, Known, key
    <3> QED BY <1>2, <3>1, <3>2
  <2> QED BY <2>1, <2>2
<1>10. NotStale'
  <2> SUFFICES ASSUME NEW k \in store, k \notin DOMAIN index'
               PROVE  \E u \in Thread : Leaving(u, k)'
    BY <1>0 DEF NotStale
  <2>1. PICK u \in Thread : Leaving(u, k)
    BY <1>1, <1>3 DEF NotStale
  <2>2. u # t
    BY <1>0, <2>1 DEF Leaving
  <2> QED BY <1>2, <2>1, <2>2 DEF Leaving
<1>11. ASSUME NEW u \in Thread, u # t PROVE Sure(u)'
  <2>1. Clear(frame'[t].pc, frame[u].pc)
    BY <1>11 DEF Careful
  <2>2. frame[u].pc \notin {"save", "delete"}
    BY <1>2, <2>1, ClearMeans, ClearSymmetric
  <2>3. Kept(u)'
    BY <1>2, <1>11, <2>2 DEF Kept
  <2> QED BY <1>5, <1>11, <2>3, AloneSure
<1>12. Sure(t)'
  <2>1. frame'[t].pc \in {"fetch", "save"} /\ frame'[t].key \in DOMAIN index'
    BY <1>1, <1>2
  <2> QED BY <2>1 DEF Sure, HasRoom, New, Known, Off, AtHead, AtLast, Dropped, Kept
<1>13. \A u \in Thread : Sure(u)'
  BY <1>11, <1>12
<1> QED BY <1>4, <1>7, <1>8, <1>9, <1>10, <1>13 DEF Consistent

-----------------------------------------------------------------------------
(* Statements that change the list                                         *)

LEMMA FrontElements ==
    ASSUME NEW S, NEW s \in Seq(S), s # << >>
    PROVE  /\ \A i \in DOMAIN Front(s) : i \in DOMAIN s /\ i # Len(s) /\ Front(s)[i] = s[i]
           /\ \A i \in DOMAIN s : i # Len(s) => i \in DOMAIN Front(s)
           /\ Len(s) \in DOMAIN s /\ Last(s) = s[Len(s)]
<1>1. Len(s) \in Nat \ {0}
  OBVIOUS
<1> DEFINE n == Len(s) - 1
           f == SubSeq(s, 1, n)
<1>2. n \in Nat /\ n <= Len(s)
  BY <1>1
<1>3. f \in Seq(S) /\ Len(f) = n /\ \A i \in 1..n : f[i] = s[i]
  <2>1. \A i \in 1..n : i \in 1..Len(s) /\ s[i] \in S
    BY <1>2
  <2> HIDE DEF n
  <2> QED BY <1>2, <2>1, SubSeqProperties
<1>4. DOMAIN f = 1..n /\ DOMAIN s = 1..Len(s)
  BY <1>3
<1> HIDE DEF f
<1>5. Front(s) = f
  BY DEF Front, f
<1> QED BY <1>1, <1>3, <1>4, <1>5 DEF Last

LEMMA RemoveAtElements ==
    ASSUME NEW S, NEW s \in Seq(S), NEW p \in 1..Len(s)
    PROVE  /\ \A i \in DOMAIN RemoveAt(s, p) :
                \E j \in DOMAIN s : j # p /\ j = (IF i < p THEN i ELSE i + 1)
                                          /\ RemoveAt(s, p)[i] = s[j]
           /\ \A j \in DOMAIN s : j # p =>
                \E i \in DOMAIN RemoveAt(s, p) : RemoveAt(s, p)[i] = s[j]
<1> DEFINE a == SubSeq(s, 1, p - 1)
           b == SubSeq(s, p + 1, Len(s))
<1>0. Len(s) \in Nat /\ DOMAIN s = 1..Len(s) /\ p \in Nat /\ 1 <= p /\ p <= Len(s)
  OBVIOUS
<1>1. a \in Seq(S) /\ Len(a) = p - 1 /\ \A i \in 1..(p - 1) : a[i] = s[i]
  BY SubSeqProperties
<1>2. b \in Seq(S) /\ Len(b) = Len(s) - p /\ \A i \in 1..(Len(s) - p) : b[i] = s[p + i]
  BY SubSeqProperties
<1> HIDE DEF a, b
<1>3. /\ a \o b \in Seq(S) /\ Len(a \o b) = Len(a) + Len(b)
      /\ \A i \in 1..(Len(a) + Len(b)) :
            (a \o b)[i] = IF i <= Len(a) THEN a[i] ELSE b[i - Len(a)]
  BY <1>1, <1>2, ConcatProperties
<1>4. Len(a) + Len(b) = Len(s) - 1
  BY <1>0, <1>1, <1>2
<1>5. DOMAIN (a \o b) = 1..(Len(s) - 1)
  BY <1>3, <1>4
<1>6. \A i \in 1..(Len(s) - 1) : (a \o b)[i] = IF i < p THEN s[i] ELSE s[i + 1]
  <2> SUFFICES ASSUME NEW i \in 1..(Len(s) - 1)
               PROVE  (a \o b)[i] = IF i < p THEN s[i] ELSE s[i + 1]
    OBVIOUS
  <2>1. CASE i < p
    <3>1. i \in 1..(p - 1) /\ i <= Len(a)
      BY <1>0, <1>1, <2>1
    <3> QED BY <1>1, <1>3, <1>4, <2>1, <3>1
  <2>2. CASE ~(i < p)
    <3>1. i - Len(a) \in 1..(Len(s) - p) /\ ~(i <= Len(a)) /\ p + (i - Len(a)) = i + 1
      BY <1>0, <1>1, <2>2
    <3>2. (a \o b)[i] = b[i - Len(a)]
      BY <1>3, <1>4, <3>1
    <3> QED BY <1>2, <2>2, <3>1, <3>2
  <2> QED BY <2>1, <2>2
<1>7. RemoveAt(s, p) = a \o b
  BY DEF RemoveAt, a, b
<1> DEFINE r == a \o b
<1> HIDE DEF r
<1>8. DOMAIN r = 1..(Len(s) - 1) /\ \A i \in DOMAIN r : r[i] = IF i < p THEN s[i] ELSE s[i + 1]
  BY <1>5, <1>6 DEF r
<1>9. ASSUME NEW i \in DOMAIN r
      PROVE  \E j \in DOMAIN s : j # p /\ j = (IF i < p THEN i ELSE i + 1) /\ r[i] = s[j]
  <2>1. CASE i < p
    BY <1>0, <1>8, <2>1
  <2>2. CASE ~(i < p)
    <3>1. i + 1 \in DOMAIN s /\ i + 1 # p
      BY <1>0, <1>8, <2>2
    <3> QED BY <1>8, <2>2, <3>1
  <2> QED BY <2>1, <2>2
<1>10. ASSUME NEW j \in DOMAIN s, j # p
       PROVE  \E i \in DOMAIN r : r[i] = s[j]
  <2>1. CASE j < p
    <3>1. j \in DOMAIN r
      BY <1>0, <1>8, <2>1
    <3> QED BY <1>8, <2>1, <3>1
  <2>2. CASE ~(j < p)
    <3>1. j - 1 \in DOMAIN r /\ ~(j - 1 < p) /\ (j - 1) + 1 = j
      BY <1>0, <1>8, <1>10, <2>2
    <3> QED BY <1>8, <3>1
  <2> QED BY <2>1, <2>2
<1> QED BY <1>7, <1>9, <1>10 DEF r

LEMMA PushElements ==
    ASSUME NEW S, NEW s \in Seq(S), NEW e \in S
    PROVE  LET r == <<e>> \o s
           IN  /\ Len(r) = Len(s) + 1 /\ r # << >> /\ Head(r) = e /\ DOMAIN r = 1..(Len(s) + 1)
               /\ r[1] = e
               /\ \A i \in DOMAIN r : i # 1 => i > 1 /\ i - 1 \in DOMAIN s /\ r[i] = s[i - 1]
               /\ \A i \in DOMAIN s : i + 1 \in DOMAIN r /\ r[i + 1] = s[i]
<1> DEFINE a == <<e>>
<1>1. a \in Seq(S) /\ Len(a) = 1 /\ a[1] = e
  OBVIOUS
<1> HIDE DEF a
<1> DEFINE r == a \o s
<1>2. /\ r \in Seq(S) /\ Len(r) = Len(a) + Len(s)
      /\ \A i \in 1..(Len(a) + Len(s)) : r[i] = IF i <= Len(a) THEN a[i] ELSE s[i - Len(a)]
  BY <1>1, ConcatProperties
<1> HIDE DEF r
<1>3. Len(s) \in Nat /\ DOMAIN s = 1..Len(s) /\ Len(r) = Len(s) + 1 /\ DOMAIN r = 1..(Len(s) + 1)
  BY <1>1, <1>2
<1>4. r[1] = e /\ r # << >> /\ Head(r) = r[1]
  BY <1>1, <1>2, <1>3
<1>5. \A i \in DOMAIN r : i # 1 => i > 1 /\ i - 1 \in DOMAIN s /\ r[i] = s[i - 1]
  BY <1>1, <1>2, <1>3
<1>6. \A i \in DOMAIN s : i + 1 \in DOMAIN r /\ r[i + 1] = s[i]
  BY <1>3, <1>5
<1> QED BY <1>3, <1>4, <1>5, <1>6 DEF r, a

\* What a statement that changes the list leaves alone, when no one else is changing.
LEMMA ListRest ==
    ASSUME TypeInv, Consistent, NEW t \in Thread, Careful(t), Alone(t),
           UNCHANGED <<store, index>>, frame[t].pc \in {"pop", "erase", "push"}
    PROVE  /\ Stored' /\ NotStale'
           /\ \A u \in Thread : u # t => Sure(u)'
           /\ \A k \in DOMAIN index : k \in Keys(lru_list) \/ Unlisted(t, k)
           /\ ~Linking
<1>1. /\ \A u \in Thread : u # t => frame'[u] = frame[u]
      /\ Stored /\ NotStale /\ Listed /\ \A u \in Thread : Sure(u)
  BY DEF Careful, OthersStay, Consistent
<1>2. Stored'
  <2> SUFFICES ASSUME NEW k \in DOMAIN index, k \notin store
               PROVE  \E u \in Thread : (frame[u].pc = "save" /\ frame[u].key = k)'
    BY DEF Stored
  <2>1. PICK u \in Thread : frame[u].pc = "save" /\ frame[u].key = k
    BY <1>1 DEF Stored
  <2> QED BY <1>1, <2>1
<1>3. NotStale'
  <2> SUFFICES ASSUME NEW k \in store, k \notin DOMAIN index
               PROVE  \E u \in Thread : Leaving(u, k)'
    BY DEF NotStale
  <2>1. PICK u \in Thread : Leaving(u, k)
    BY <1>1 DEF NotStale
  <2>2. u # t
    BY <2>1 DEF Leaving
  <2> QED BY <1>1, <2>1, <2>2 DEF Leaving
<1>4. ASSUME NEW u \in Thread, u # t PROVE Sure(u)'
  <2>1. Kept(u)'
    BY <1>1, <1>4 DEF Sure, Kept
  <2> QED BY <1>4, <2>1, AloneSure
<1>5. ASSUME NEW k \in DOMAIN index, k \notin Keys(lru_list) PROVE Unlisted(t, k)
  <2>1. PICK u \in Thread : Unlisted(u, k)
    BY <1>1, <1>5 DEF Listed
  <2>2. frame[u].pc \in Changing
    BY <2>1 DEF Unlisted, Changing
  <2> QED BY <2>1, <2>2 DEF Alone
<1>6. ~Linking
  BY DEF Alone, Linking, Changing
<1> QED BY <1>2, <1>3, <1>4, <1>5, <1>6

LEMMA PopKeeps ==
    ASSUME TypeInv, Consistent, NEW t \in Thread, Careful(t), Apart', ~broken', Pop(t)
    PROVE  Consistent'
<1> USE DEF At
<1>0. /\ UNCHANGED <<store, index>>
      /\ frame[t].pc = "pop"
      /\ lru_list # << >>
      /\ lru_list' = Front(lru_list)
  BY DEF Pop, Undefined
<1>1. /\ frame'[t].pc = "unindex" /\ frame'[t].key = frame[t].key
      /\ frame'[t].victim = frame[t].victim
  BY <1>0 DEF Careful, Leads, Onward
<1>2. /\ Distinct /\ Indexed /\ Listed /\ Len(lru_list) <= capacity /\ Sure(t)
      /\ lru_list \in Seq(Element)
  BY DEF Consistent, TypeInv, TypeOK, Element
<1>3. Alone(t)
  BY <1>0, Company DEF Consistent
<1>4. /\ Stored' /\ NotStale'
      /\ \A u \in Thread : u # t => Sure(u)'
      /\ \A k \in DOMAIN index : k \in Keys(lru_list)
      /\ ~Linking
  BY <1>0, <1>3, ListRest DEF Unlisted
<1> DEFINE n == Len(lru_list)
<1>5. /\ \A i \in DOMAIN lru_list' : i \in DOMAIN lru_list /\ i # n /\ lru_list'[i] = lru_list[i]
      /\ \A i \in DOMAIN lru_list : i # n => i \in DOMAIN lru_list'
      /\ n \in DOMAIN lru_list /\ Last(lru_list) = lru_list[n]
  BY <1>0, <1>2, FrontElements
<1>6. n \in Nat /\ Len(lru_list') = n - 1 /\ capacity \in Nat
  BY <1>0, <1>2, EndsTyped, LenProperties, ThreadsAssumption
<1>7. frame[t].victim = {lru_list[n].key} /\ frame[t].key \notin DOMAIN index
  BY <1>0, <1>2, <1>5 DEF Sure, AtLast, New
<1> HIDE DEF n
<1>8. Distinct'
  BY <1>2, <1>5 DEF Distinct
<1>9. Indexed'
  BY <1>0, <1>2, <1>4, <1>5 DEF Indexed
<1>10. Listed'
  <2> SUFFICES ASSUME NEW k \in DOMAIN index
               PROVE  k \in Keys(lru_list') \/ Unlisted(t, k)'
    BY <1>0 DEF Listed
  <2>1. PICK i \in DOMAIN lru_list : lru_list[i].key = k
    BY <1>4 DEF Keys
  <2>2. CASE i = n
    BY <1>1, <1>7, <2>1, <2>2 DEF Unlisted
  <2>3. CASE i # n
    BY <1>5, <2>1, <2>3 DEF Keys
  <2> QED BY <2>2, <2>3
<1>11. Sure(t)'
  <2>1. frame'[t].victim \cap Keys(lru_list') = {}
    BY <1>1, <1>2, <1>5, <1>7 DEF Keys, Distinct
  <2>2. Len(lru_list') < capacity /\ frame'[t].key \notin DOMAIN index'
    BY <1>0, <1>1, <1>2, <1>6, <1>7 DEF n
  <2> QED BY <1>1, <2>1, <2>2
          DEF Sure, HasRoom, New, Known, Off, AtHead, AtLast, Dropped, Kept
<1>12. Len(lru_list)' <= capacity
  BY <1>2, <1>6 DEF n
<1>13. \A u \in Thread : Sure(u)'
  BY <1>4, <1>11
<1> QED BY <1>4, <1>8, <1>9, <1>10, <1>12, <1>13 DEF Consistent

\* A thread about to erase a key finds it.
LEMMA EraseFinds ==
    ASSUME TypeInv, Consistent, NEW t \in Thread, frame[t].pc = "erase"
    PROVE  /\ frame[t].key \in DOMAIN index
           /\ \E i \in DOMAIN lru_list :
                lru_list[i].key = frame[t].key /\ lru_list[i].cell = index[frame[t].key]
<1>1. frame[t].key \in DOMAIN index
  BY DEF Consistent, Sure, Known
<1>2. \A u \in Thread : frame[u].pc \notin {"push", "forget", "unindex", "link"}
  BY DEF Consistent, Apart, Beside, Changing, Looking
<1>3. frame[t].key \in Keys(lru_list)
  BY <1>1, <1>2 DEF Consistent, Listed, Unlisted
<1>4. PICK i \in DOMAIN lru_list : lru_list[i].key = frame[t].key
  BY <1>3 DEF Keys
<1>5. lru_list[i].cell = index[frame[t].key]
  BY <1>2, <1>4 DEF Consistent, Indexed, Linking
<1> QED BY <1>1, <1>4, <1>5

LEMMA EraseKeeps ==
    ASSUME TypeInv, Consistent, NEW t \in Thread, Careful(t), Apart', ~broken', Erase(t)
    PROVE  Consistent'
<1> USE DEF At
<1> DEFINE key == frame[t].key
           pos == CHOOSE i \in DOMAIN lru_list : lru_list[i].cell = index[key]
<1>0. /\ UNCHANGED <<store, index>>
      /\ frame[t].pc = "erase"
      /\ lru_list' = RemoveAt(lru_list, pos)
  BY DEF Erase, Undefined
<1>1. /\ frame'[t].pc = IF frame[t].call = "remove" THEN "forget" ELSE "push"
      /\ frame'[t].key = key /\ frame'[t].call = frame[t].call
  BY <1>0 DEF Careful, Leads, Onward
<1>2. /\ Distinct /\ Indexed /\ Listed /\ Len(lru_list) <= capacity /\ Sure(t)
      /\ lru_list \in Seq(Element)
  BY DEF Consistent, TypeInv, TypeOK, Element
<1>3. Alone(t)
  BY <1>0, Company DEF Consistent
<1>4. /\ Stored' /\ NotStale'
      /\ \A u \in Thread : u # t => Sure(u)'
      /\ \A k \in DOMAIN index : k \in Keys(lru_list)
      /\ ~Linking
  BY <1>0, <1>3, ListRest DEF Unlisted
<1>5. PICK j \in DOMAIN lru_list : lru_list[j].key = key /\ lru_list[j].cell = index[key]
  BY <1>0, EraseFinds
<1>6. pos = j
  <2>1. pos \in DOMAIN lru_list /\ lru_list[pos].cell = index[key]
    BY <1>5
  <2> HIDE DEF pos
  <2> QED BY <1>2, <1>5, <2>1 DEF Distinct
<1> HIDE DEF pos, key
<1>7. j \in 1..Len(lru_list) /\ j \in Nat
  BY <1>2
<1>8. /\ \A i \in DOMAIN lru_list' :
            \E m \in DOMAIN lru_list : m # j /\ m = (IF i < j THEN i ELSE i + 1)
                                             /\ lru_list'[i] = lru_list[m]
      /\ \A m \in DOMAIN lru_list : m # j =>
            \E i \in DOMAIN lru_list' : lru_list'[i] = lru_list[m]
      /\ Len(lru_list') = Len(lru_list) - 1 /\ lru_list' \in Seq(Element)
  <2>1. lru_list' = RemoveAt(lru_list, j)
    BY <1>0, <1>6
  <2>2. /\ \A i \in DOMAIN lru_list' :
              \E m \in DOMAIN lru_list : m # j /\ m = (IF i < j THEN i ELSE i + 1)
                                               /\ lru_list'[i] = lru_list[m]
        /\ \A m \in DOMAIN lru_list : m # j =>
              \E i \in DOMAIN lru_list' : lru_list'[i] = lru_list[m]
    BY <1>2, <1>7, <2>1, RemoveAtElements
  <2>3. Len(lru_list') = Len(lru_list) - 1 /\ lru_list' \in Seq(Element)
    BY <1>2, <1>7, <2>1, RemoveAtTyped
  <2> QED BY <2>2, <2>3
<1>9. Len(lru_list) \in Nat /\ capacity \in Nat /\ DOMAIN lru_list' \subseteq Nat
  BY <1>2, <1>8, LenProperties, ThreadsAssumption
<1>10. Distinct'
  <2> SUFFICES ASSUME NEW i \in DOMAIN lru_list', NEW h \in DOMAIN lru_list', i # h
               PROVE  lru_list'[i].cell # lru_list'[h].cell /\ lru_list'[i].key # lru_list'[h].key
    BY DEF Distinct
  <2>1. PICK m \in DOMAIN lru_list : m = (IF i < j THEN i ELSE i + 1) /\ lru_list'[i] = lru_list[m]
    BY <1>8
  <2>2. PICK l \in DOMAIN lru_list : l = (IF h < j THEN h ELSE h + 1) /\ lru_list'[h] = lru_list[l]
    BY <1>8
  <2>3. m # l
    BY <1>7, <1>9, <2>1, <2>2
  <2> QED BY <1>2, <2>1, <2>2, <2>3 DEF Distinct
<1>11. Indexed'
  <2> SUFFICES ASSUME NEW i \in DOMAIN lru_list'
               PROVE  lru_list'[i].key \in DOMAIN index /\ index[lru_list'[i].key] = lru_list'[i].cell
    BY <1>0 DEF Indexed
  <2>1. PICK m \in DOMAIN lru_list : lru_list'[i] = lru_list[m]
    BY <1>8
  <2> QED BY <1>2, <1>4, <2>1 DEF Indexed
<1>12. key \notin Keys(lru_list')
  <2> SUFFICES ASSUME NEW i \in DOMAIN lru_list', lru_list'[i].key = key PROVE FALSE
    BY DEF Keys
  <2>1. PICK m \in DOMAIN lru_list : m # j /\ lru_list'[i] = lru_list[m]
    BY <1>8
  <2> QED BY <1>2, <1>5, <2>1 DEF Distinct
<1>13. Listed'
  <2> SUFFICES ASSUME NEW k \in DOMAIN index
               PROVE  k \in Keys(lru_list') \/ Unlisted(t, k)'
    BY <1>0 DEF Listed
  <2>1. PICK m \in DOMAIN lru_list : lru_list[m].key = k
    BY <1>4 DEF Keys
  <2>2. CASE m = j
    BY <1>1, <1>5, <2>1, <2>2 DEF Unlisted
  <2>3. CASE m # j
    BY <1>8, <2>1, <2>3 DEF Keys
  <2> QED BY <2>2, <2>3
<1>14. Len(lru_list') < capacity
  BY <1>2, <1>8, <1>9
<1>15. Sure(t)'
  <2>1. frame'[t].key \in DOMAIN index'
    BY <1>0, <1>1, <1>2 DEF Sure, Known, key
  <2>2. frame'[t].key \notin Keys(lru_list') /\ frame'[t].pc \in {"forget", "push"}
    BY <1>1, <1>12
  <2> QED BY <1>14, <2>1, <2>2
          DEF Sure, HasRoom, New, Known, Off, AtHead, AtLast, Dropped, Kept
<1>16. \A u \in Thread : Sure(u)'
  BY <1>4, <1>15
<1>17. Len(lru_list)' <= capacity
  BY <1>2, <1>8, <1>9
<1> QED BY <1>4, <1>10, <1>11, <1>13, <1>16, <1>17 DEF Consistent

LEMMA PushKeeps ==
    ASSUME TypeInv, Consistent, NEW t \in Thread, Careful(t), Apart', ~broken', Push(t)
    PROVE  Consistent'
<1> USE DEF At
<1> DEFINE key == frame[t].key
<1>0. /\ UNCHANGED <<store, index>>
      /\ frame[t].pc = "push" /\ key \in Key
  BY DEF Push, TypeInv, Keyed
<1>1. PICK c \in Cell \ Cells(lru_list) : lru_list' = <<[cell |-> c, key |-> key]>> \o lru_list
  BY DEF Push
<1>2. /\ frame'[t].pc = "link" /\ frame'[t].key = key /\ frame'[t].call = frame[t].call
  BY <1>0 DEF Careful, Leads, Onward
<1>3. /\ Distinct /\ Indexed /\ Listed /\ Sure(t)
      /\ lru_list \in Seq(Element)
  BY DEF Consistent, TypeInv, TypeOK, Element
<1>4. Alone(t)
  BY <1>0, Company DEF Consistent
<1>5. /\ Stored' /\ NotStale'
      /\ \A u \in Thread : u # t => Sure(u)'
      /\ \A k \in DOMAIN index : k \in Keys(lru_list) \/ k = key
      /\ ~Linking
  BY <1>0, <1>4, ListRest DEF Unlisted
<1>6. key \notin Keys(lru_list) /\ Len(lru_list) < capacity
  BY <1>0, <1>3 DEF Sure, Off, HasRoom
<1>7. frame[t].call = "get" => key \in DOMAIN index
  BY <1>0, <1>3 DEF Sure, Known
<1> HIDE DEF key
<1> DEFINE e == [cell |-> c, key |-> key]
<1>8. e \in Element /\ e.cell = c /\ e.key = key
  BY <1>0 DEF Element
<1>9. /\ Len(lru_list') = Len(lru_list) + 1 /\ Head(lru_list') = e
      /\ DOMAIN lru_list' = 1..(Len(lru_list) + 1)
      /\ lru_list'[1] = e
      /\ \A i \in DOMAIN lru_list' :
            i # 1 => i > 1 /\ i - 1 \in DOMAIN lru_list /\ lru_list'[i] = lru_list[i - 1]
      /\ \A i \in DOMAIN lru_list : i + 1 \in DOMAIN lru_list' /\ lru_list'[i + 1] = lru_list[i]
  <2> HIDE DEF e
  <2>1. lru_list' = <<e>> \o lru_list
    BY <1>1 DEF e
  <2> QED BY <1>3, <1>8, <2>1, PushElements
<1>10. Len(lru_list) \in Nat /\ capacity \in Nat /\ 1 \in DOMAIN lru_list'
  BY <1>3, <1>9, LenProperties, ThreadsAssumption
<1> HIDE DEF e
<1>11. \A i \in DOMAIN lru_list : lru_list[i].cell # c /\ lru_list[i].key # key
  BY <1>6 DEF Cells, Keys
<1>12. Distinct'
  <2> SUFFICES ASSUME NEW i \in DOMAIN lru_list', NEW h \in DOMAIN lru_list', i # h
               PROVE  lru_list'[i].cell # lru_list'[h].cell /\ lru_list'[i].key # lru_list'[h].key
    BY DEF Distinct
  <2>1. CASE i = 1
    BY <1>8, <1>9, <1>11, <2>1
  <2>2. CASE h = 1
    BY <1>8, <1>9, <1>11, <2>2
  <2>3. CASE i # 1 /\ h # 1
    <3>1. i - 1 # h - 1
      BY <1>9
    <3> QED BY <1>3, <1>9, <2>3, <3>1 DEF Distinct
  <2> QED BY <2>1, <2>2, <2>3
<1>13. Indexed'
  <2> SUFFICES ASSUME NEW i \in DOMAIN lru_list', i > 1
               PROVE  lru_list'[i].key \in DOMAIN index /\ index[lru_list'[i].key] = lru_list'[i].cell
    BY <1>0, <1>2 DEF Indexed, Linking
  <2>1. i - 1 \in DOMAIN lru_list /\ lru_list'[i] = lru_list[i - 1]
    BY <1>9
  <2> QED BY <1>3, <1>5, <2>1 DEF Indexed
<1>14. Listed'
  <2> SUFFICES ASSUME NEW k \in DOMAIN index
               PROVE  k \in Keys(lru_list')
    BY <1>0 DEF Listed
  <2>1. CASE k = key
    BY <1>8, <1>9, <1>10, <2>1 DEF Keys
  <2>2. CASE k # key
    <3>1. PICK i \in DOMAIN lru_list : lru_list[i].key = k
      BY <1>5, <2>2 DEF Keys
    <3>2. i + 1 \in DOMAIN lru_list' /\ lru_list'[i + 1].key = k
      BY <1>9, <3>1
    <3> QED BY <3>2 DEF Keys
  <2> QED BY <2>1, <2>2
<1>15. Sure(t)'
  <2>1. Head(lru_list').key = frame'[t].key
    BY <1>2, <1>8, <1>9
  <2>2. frame'[t].call = "get" => frame'[t].key \in DOMAIN index'
    BY <1>0, <1>2, <1>7
  <2> QED BY <1>2, <2>1, <2>2
          DEF Sure, HasRoom, New, Known, Off, AtHead, AtLast, Dropped, Kept
<1>16. \A u \in Thread : Sure(u)'
  BY <1>5, <1>15
<1>17. Len(lru_list)' <= capacity
  BY <1>6, <1>9, <1>10
<1> QED BY <1>5, <1>12, <1>13, <1>14, <1>16, <1>17 DEF Consistent

-----------------------------------------------------------------------------
(* The invariant                                                           *)

LEMMA NothingBreaks ==
    ASSUME TypeInv, ~Race, ~broken, Filled, Jammed \/ Consistent,
           NEW t \in Thread, Begin(t) \/ Statement(t)
    PROVE  ~broken'
<1> USE DEF At
<1>1. CASE Begin(t) \/ Lock(t) \/ Copy(t) \/ Find(t) \/ Exists(t) \/ Size(t) \/ Unindex(t)
           \/ Drop(t) \/ Push(t) \/ Save(t) \/ Fetch(t) \/ Forget(t) \/ Delete(t)
  BY <1>1 DEF Begin, put, get, remove, get_kv_batch, set_kv_batch, Enter, Lock, Copy, Find,
     Exists, Size, Unindex, Drop, Push, Save, Fetch, Forget, Delete
<1>2. CASE Back(t) \/ Pop(t) \/ Link(t)
  <2>1. lru_list # << >>
    BY <1>2 DEF Back, Pop, Link, Filled
  <2> QED BY <1>2, <2>1 DEF Back, Pop, Link
<1>3. CASE Erase(t)
  <2>1. frame[t].pc = "erase"
    BY <1>3 DEF Erase
  <2>2. ~Jammed
    <3> SUFFICES ASSUME NEW v \in Thread, NEW w \in Thread, v # w,
                        <<frame[v].pc, frame[w].pc>> \in Jam
                 PROVE  FALSE
      BY DEF Jammed
    <3>1. frame[v].pc \in {"push", "link", "unindex"}
      BY DEF Jam
    <3>2. v # t
      BY <2>1, <3>1
    <3>3. Clear(frame[t].pc, frame[v].pc)
      BY <3>2 DEF Race, Conflict, Clear
    <3> QED BY <2>1, <3>1, <3>3, ClearMeans
  <2>3. /\ frame[t].key \in DOMAIN index
        /\ \E i \in DOMAIN lru_list :
              lru_list[i].key = frame[t].key /\ lru_list[i].cell = index[frame[t].key]
    BY <2>1, <2>2, EraseFinds
  <2>4. index[frame[t].key] \in Cells(lru_list)
    BY <2>3 DEF Cells
  <2> QED BY <1>3, <2>3, <2>4 DEF Erase
<1> QED BY <1>1, <1>2, <1>3 DEF Statement

LEMMA StaysFilled ==
    ASSUME TypeInv, Filled, NEW t \in Thread, Careful(t), ~broken', Begin(t) \/ Statement(t)
    PROVE  Filled'
<1> USE DEF At
<1>0. lru_list \in Seq(Element)
  BY DEF TypeInv, TypeOK, Element
<1>1. frame[t].pc \notin {"pop", "erase", "push"} => UNCHANGED lru_list
  BY DEF Begin, put, get, remove, get_kv_batch, set_kv_batch, Enter, Statement, Lock, Copy,
     Find, Exists, Size, Back, Pop, Unindex, Drop, Erase, Push, Link, Save, Fetch, Forget,
     Delete, Undefined
<1>2. ASSUME frame[t].pc = "push" PROVE lru_list' # << >>
  <2>1. Push(t)
    BY <1>2 DEF Begin, put, get, remove, get_kv_batch, set_kv_batch, Enter, Statement, Lock, Copy,
       Find, Exists, Size, Back, Pop, Unindex, Drop, Erase, Push, Link, Save, Fetch, Forget, Delete
  <2>2. PICK e \in Element : lru_list' = <<e>> \o lru_list
    BY <2>1 DEF Push, TypeInv, Keyed, Element
  <2> QED BY <1>0, <2>2, PushElements
<1>3. ASSUME NEW u \in Thread, u # t, frame'[u].pc \in {"back", "pop", "link"}
      PROVE  lru_list' # << >>
  <2>1. /\ frame[u].pc \in {"back", "pop", "link"}
        /\ Clear(frame[t].pc, frame[u].pc)
    BY <1>3 DEF Careful, OthersStay
  <2>2. frame[t].pc \notin {"pop", "erase", "push"}
    BY <2>1, ClearMeans
  <2> QED BY <1>1, <2>1, <2>2 DEF Filled
<1>4. ASSUME frame'[t].pc \in {"back", "pop", "link"} PROVE lru_list' # << >>
  <2>1. \/ frame[t].pc = "size" /\ frame'[t].pc = "back"
        \/ frame[t].pc = "back"
        \/ frame[t].pc = "push"
    BY <1>4, Labels DEF Careful, Leads, TypeInv, TypeOK, Frame
  <2>2. CASE frame[t].pc = "size" /\ frame'[t].pc = "back"
    <3>1. Size(t)
      BY <2>2 DEF Begin, put, get, remove, get_kv_batch, set_kv_batch, Enter, Statement, Lock,
         Copy, Find, Exists, Size, Back, Pop, Unindex, Drop, Erase, Push, Link, Save, Fetch,
         Forget, Delete
    <3>2. Len(lru_list) >= capacity
      BY <2>2, <3>1, GoToLeads, Labels DEF Size
    <3> QED BY <1>0, <1>1, <2>2, <3>2, ThreadsAssumption
  <2>3. CASE frame[t].pc = "back"
    BY <1>1, <2>3 DEF Filled
  <2> QED BY <1>2, <2>1, <2>2, <2>3
<1> QED BY <1>3, <1>4 DEF Filled

LEMMA StaysConsistent ==
    ASSUME TypeInv, Consistent, NEW t \in Thread, Careful(t), ~broken', Begin(t) \/ Statement(t)
    PROVE  Jammed' \/ Consistent'
<1>1. CASE Jammed'
  BY <1>1
<1>2. CASE Apart'
  BY <1>2, LookingKeeps, StoreKeeps, IndexShrinks, LinkKeeps, PopKeeps, EraseKeeps, PushKeeps
     DEF Statement
<1> QED BY <1>1, <1>2, StaysApart DEF Consistent

LEMMA DamageInit == Init => DamageInv
<1> SUFFICES ASSUME Init PROVE DamageInv
  OBVIOUS
<1>1. /\ \A t \in Thread : frame[t].pc = "idle"
      /\ store = {} /\ lru_list = << >> /\ DOMAIN index = {} /\ ~broken
  BY DEF Init, Rest
<1>2. ~Race
  BY <1>1 DEF Race, Conflict, Writes
<1>3. Filled /\ Apart
  BY <1>1 DEF Filled, Apart, Changing
<1>4. Distinct /\ Indexed /\ Listed /\ Stored /\ NotStale
  BY <1>1 DEF Distinct, Indexed, Listed, Stored, NotStale
<1>5. Len(lru_list) <= capacity
  BY <1>1, ThreadsAssumption
<1>6. \A t \in Thread : Sure(t)
  BY <1>1 DEF Sure, HasRoom, New, Known, Off, AtHead, AtLast, Dropped, Kept
<1> QED BY <1>1, <1>2, <1>3, <1>4, <1>5, <1>6 DEF DamageInv, Consistent

LEMMA DamageNext == TypeInv /\ CallInv /\ DamageInv /\ [Next]_vars => DamageInv'
<1> SUFFICES ASSUME TypeInv, CallInv, DamageInv, [Next]_vars PROVE DamageInv'
  OBVIOUS
<1>1. CASE UNCHANGED vars
  <2>1. Race' <=> Race
    BY <1>1 DEF vars, Race, Conflict
  <2>2. Filled' <=> Filled
    BY <1>1 DEF vars, Filled
  <2>3. Jammed' <=> Jammed
    BY <1>1 DEF vars, Jammed
  <2>4. Consistent => Consistent'
    BY <1>1 DEF vars, Consistent, Apart, Beside, Removes, Distinct, Indexed, Linking, Listed, Keys,
       Unlisted, Stored, NotStale, Leaving, Sure, HasRoom, New, Known, Off, AtHead, AtLast, Dropped,
       Kept
  <2> QED BY <1>1, <2>1, <2>2, <2>3, <2>4 DEF vars, DamageInv
<1>2. CASE Next
  <2>1. PICK t \in Thread : Begin(t) \/ Statement(t)
    BY <1>2 DEF Next
  <2>2. raced' = (raced \/ Race')
    BY <1>2 DEF Next
  <2>3. CASE raced'
    BY <2>3 DEF DamageInv
  <2>4. CASE ~raced'
    <3>1. ~raced /\ ~Race'
      BY <2>2, <2>4
    <3>2. ~Race /\ ~broken /\ Filled /\ (Jammed \/ Consistent)
      BY <3>1 DEF DamageInv
    <3>3. ~broken'
      BY <2>1, <3>2, NothingBreaks
    <3>4. Careful(t)
      BY <2>1, <3>1, <3>2, <3>3, NoRaceIsCareful
    <3>5. Filled'
      BY <2>1, <3>2, <3>3, <3>4, StaysFilled
    <3>6. Jammed' \/ Consistent'
      BY <2>1, <3>2, <3>3, <3>4, JamStays, StaysConsistent
    <3> QED BY <3>1, <3>3, <3>5, <3>6 DEF DamageInv
  <2> QED BY <2>3, <2>4
<1> QED BY <1>1, <1>2

\* When all calls have returned, nobody is halfway and the three structures agree.
LEMMA AllReturned ==
    ASSUME TypeInv, Consistent, \A t \in Thread : frame[t].pc = "idle"
    PROVE  Coherent
<1>1. /\ Distinct /\ Indexed /\ Listed /\ Stored /\ NotStale /\ Len(lru_list) <= capacity
      /\ lru_list \in Seq(Element)
  BY DEF Consistent, TypeInv, TypeOK, Element
<1>2. ~Linking
  BY DEF Linking
<1>3. DOMAIN index = store
  BY <1>1 DEF Stored, NotStale, Leaving
<1>4. Keys(lru_list) = store
  <2>1. DOMAIN index \subseteq Keys(lru_list)
    BY <1>1 DEF Listed, Unlisted
  <2>2. Keys(lru_list) \subseteq DOMAIN index
    BY <1>1, <1>2 DEF Indexed, Keys
  <2> QED BY <1>3, <2>1, <2>2
<1>5. \A i \in DOMAIN lru_list : index[lru_list[i].key] = lru_list[i].cell
  BY <1>1, <1>2 DEF Indexed
<1>6. Len(lru_list) = Cardinality(store)
  <2> DEFINE n == Len(lru_list)
             f == [i \in 1..n |-> lru_list[i].key]
  <2>1. n \in Nat /\ DOMAIN lru_list = 1..n
    BY <1>1
  <2> HIDE DEF n
  <2>2. \A i \in 1..n : f[i] \in store
    BY <1>4, <2>1 DEF Keys
  <2>3. \A i, j \in 1..n : f[i] = f[j] => i = j
    BY <1>1, <2>1 DEF Distinct
  <2>4. \A k \in store : \E i \in 1..n : f[i] = k
    BY <1>4, <2>1 DEF Keys
  <2>5. f \in [1..n -> store]
    BY <2>2
  <2> HIDE DEF f
  <2>6. f \in Bijection(1..n, store)
    BY <2>3, <2>4, <2>5, Fun_IsBij
  <2>7. ExistsBijection(1..n, store)
    BY <2>6 DEF ExistsBijection
  <2>8. Cardinality(store) = n
    BY <2>1, <2>7, FS_CountingElements
  <2> QED BY <2>8 DEF n
<1>7. {lru_list[i].key : i \in DOMAIN lru_list} = store
  BY <1>4 DEF Keys
<1> QED BY <1>1, <1>3, <1>5, <1>6, <1>7 DEF Coherent

\* For every number of threads, keys and cells and every capacity: as long as no two
\* threads have met at a container, nothing undefined has happened, and whenever all
\* calls have returned map, list and index hold the same keys, each once, within the
\* capacity (put, get and remove of lru_store.cpp, which take no lock).
THEOREM DamageTakesARace == Spec => []DamageNeedsRace
<1>1. TypeInv /\ DamageInv => DamageNeedsRace
  <2> SUFFICES ASSUME TypeInv, DamageInv, ~raced PROVE
             ~broken /\ ((\A t \in Thread : frame[t].pc = "idle") => Coherent)
    BY DEF DamageNeedsRace
  <2>1. ~broken /\ (Jammed \/ Consistent)
    BY DEF DamageInv
  <2>2. (\A t \in Thread : frame[t].pc = "idle") => ~Jammed
    BY DEF Jammed, Jam
  <2> QED BY <2>1, <2>2, AllReturned
<1> QED BY <1>1, DamageInit, DamageNext, TypeInit, TypeNext, InitCalls, CallsInvariant, PTL
        DEF Spec

=============================================================================
