-------------------------- MODULE LocalSyncProofs ---------------------------
(***************************************************************************)
(* Proofs about LocalSync for every set of followers and keys and every    *)
(* bound: types, and what a follower holds of a key on which no race is    *)
(* recorded.  The argument follows one follower and one key: what its      *)
(* store and its queue say of the key only ever rises, up to the leader's  *)
(* value, and the last word on it is the leader's.                         *)
(***************************************************************************)
EXTENDS LocalSync, TLAPS

-----------------------------------------------------------------------------
(* Type correctness                                                        *)

LEMMA HeadTyped ==
    ASSUME TypeOK, NEW f \in Follower, inbox[f] # << >>
    PROVE  /\ inbox[f] \in Seq(Message)
           /\ Head(inbox[f]) \in Message
           /\ Tail(inbox[f]) \in Seq(Message)
           /\ inbox' = [inbox EXCEPT ![f] = Tail(@)]
                => inbox' \in [Follower -> Seq(Message)]
<1>1. inbox[f] \in Seq(Message)
  BY DEF TypeOK
<1>2. Head(inbox[f]) \in Message /\ Tail(inbox[f]) \in Seq(Message)
  BY <1>1
<1> QED BY <1>1, <1>2 DEF TypeOK

LEMMA SendTyped ==
    ASSUME TypeOK, NEW f \in Follower, NEW msg \in Message, Send(f, msg)
    PROVE  inbox' \in [Follower -> Seq(Message)]
<1>1. Append(inbox[f], msg) \in Seq(Message)
  <2>1. inbox[f] \in Seq(Message)
    BY DEF TypeOK
  <2> QED BY <2>1
<1> QED BY <1>1 DEF Send, TypeOK

LEMMA MissesTyped ==
    ASSUME TypeOK, NEW f \in Follower, NEW ks \in SUBSET Key, Misses(f, ks)
    PROVE  raced' \in [Follower -> SUBSET Key]
BY DEF Misses, TypeOK

LEMMA MergedTyped ==
    ASSUME NEW s \in Store, NEW data \in Store
    PROVE  Merged(s, data) \in Store
BY DEF Merged, Store

LEMMA InitTyped == Init => TypeOK
<1> SUFFICES ASSUME Init PROVE TypeOK
  OBVIOUS
<1>1. Empty \in Store
  BY SyncAssumption DEF Empty, Store
<1>2. << >> \in Seq(Follower) /\ << >> \in Seq(Message)
  OBVIOUS
<1>3. puts \in 0..MaxPuts /\ crashes \in 0..MaxCrashes
  BY SyncAssumption DEF Init
<1> QED BY <1>1, <1>2, <1>3 DEF Init, TypeOK

LEMMA PutKeyTyped ==
    ASSUME TypeOK, NEW k \in Key, PutKey(k)
    PROVE  TypeOK'
<1>1. puts' \in 1..MaxPuts /\ puts' \in 0..MaxPuts
  BY SyncAssumption DEF PutKey, TypeOK
<1>2. leader_kv' \in Store
  BY <1>1 DEF PutKey, TypeOK, Store
<1>3. [key |-> k, value |-> puts', unread |-> Follower, sending |-> {}] \in Write
  BY <1>1 DEF Write
<1>4. writes' \in SUBSET Write
  BY <1>3 DEF PutKey, TypeOK
<1>5. raced' \in [Follower -> SUBSET Key]
  BY DEF PutKey, TypeOK
<1> QED BY <1>1, <1>2, <1>4, <1>5 DEF PutKey, TypeOK, follower

LEMMA LaunchTyped ==
    ASSUME TypeOK, NEW w \in writes, NEW f \in Follower, Launch(w, f)
    PROVE  TypeOK'
<1> DEFINE x == [w EXCEPT !.unread = @ \ {f}]
<1>1. w \in Write
  BY DEF TypeOK
<1>2. x \in Write /\ [x EXCEPT !.sending = @ \cup {f}] \in Write
  BY <1>1 DEF Write
<1>3. writes' \in SUBSET Write
  BY <1>2 DEF Launch, Replace, TypeOK
<1>4. w.key \in Key
  BY <1>1 DEF Write
<1>5. raced' \in [Follower -> SUBSET Key]
  <2>1. CASE is_alive[f]
    BY <2>1 DEF Launch, TypeOK
  <2>2. CASE ~is_alive[f]
    <3>1. Misses(f, {w.key})
      BY <2>2 DEF Launch
    <3> QED BY <1>4, <3>1, MissesTyped
  <2> QED BY <2>1, <2>2
<1> QED BY <1>3, <1>5 DEF Launch, TypeOK, follower

LEMMA PushTyped ==
    ASSUME TypeOK, NEW w \in writes, NEW f \in Follower, Push(w, f)
    PROVE  TypeOK'
<1>1. w \in Write
  BY DEF TypeOK
<1>2. [w EXCEPT !.sending = @ \ {f}] \in Write
  BY <1>1 DEF Write
<1>3. writes' \in SUBSET Write
  BY <1>2 DEF Push, Replace, TypeOK
<1>4. [type |-> "PUSH", key |-> w.key, value |-> w.value] \in Message
  BY <1>1 DEF Write, Message
<1>5. CASE Send(f, [type |-> "PUSH", key |-> w.key, value |-> w.value])
  <2>1. inbox' \in [Follower -> Seq(Message)] /\ UNCHANGED raced
    BY <1>4, <1>5, SendTyped DEF Send
  <2> QED BY <1>3, <2>1 DEF Push, TypeOK
<1>6. CASE UNCHANGED inbox /\ (UNCHANGED raced \/ Misses(f, {w.key}))
  <2>1. raced' \in [Follower -> SUBSET Key]
    <3>1. {w.key} \in SUBSET Key
      BY <1>1 DEF Write
    <3> QED BY <1>6, <3>1, MissesTyped DEF TypeOK
  <2> QED BY <1>3, <1>6, <2>1 DEF Push, TypeOK
<1> QED BY <1>5, <1>6 DEF Push

LEMMA TakeSnapshotTyped ==
    ASSUME TypeOK, TakeSnapshot
    PROVE  TypeOK'
<1>1. requests \in Seq(Follower) /\ requests # << >>
  BY DEF TakeSnapshot, TypeOK
<1>2. Head(requests) \in Follower /\ Tail(requests) \in Seq(Follower)
  BY <1>1
<1>3. answering' \in SUBSET [to : Follower, data : Store]
  BY <1>2 DEF TakeSnapshot, TypeOK
<1>4. snapped' \in [Follower -> BOOLEAN]
  BY <1>2 DEF TakeSnapshot, TypeOK
<1> QED BY <1>2, <1>3, <1>4 DEF TakeSnapshot, TypeOK, follower

LEMMA SendSnapshotTyped ==
    ASSUME TypeOK, SendSnapshot
    PROVE  TypeOK'
<1>1. PICK a \in answering :
        /\ \/ Send(a.to, [type |-> "SYNC_RESPONSE", data |-> a.data])
           \/ UNCHANGED inbox /\ Misses(a.to, Key)
        /\ answering' = {}
        /\ refused' \subseteq refused \cup {a.to}
        /\ UNCHANGED <<leader_kv, writes, is_alive, requests, puts, kv, up,
                       listening, pulling, crashes, snapped>>
  BY DEF SendSnapshot
<1>2. a.to \in Follower /\ a.data \in Store
  BY DEF TypeOK
<1>3. [type |-> "SYNC_RESPONSE", data |-> a.data] \in Message
  BY <1>2 DEF Message
<1>4. inbox' \in [Follower -> Seq(Message)]
  BY <1>1, <1>2, <1>3, SendTyped DEF TypeOK
<1>5. raced' \in [Follower -> SUBSET Key]
  <2>1. Key \in SUBSET Key
    OBVIOUS
  <2> QED BY <1>1, <1>2, <2>1, MissesTyped DEF Send, TypeOK
<1> QED BY <1>1, <1>2, <1>4, <1>5 DEF TypeOK

LEMMA ReceiveTyped ==
    ASSUME TypeOK, NEW f \in Follower, Receive(f)
    PROVE  TypeOK'
<1>1. CASE ReceivePush(f)
  <2>1. inbox' \in [Follower -> Seq(Message)] /\ Head(inbox[f]) \in Message
    BY <1>1, HeadTyped DEF ReceivePush
  <2>2. Head(inbox[f]).key \in Key /\ Head(inbox[f]).value \in 0..MaxPuts
    BY <1>1, <2>1, SyncAssumption DEF ReceivePush, Message
  <2>3. kv' \in [Follower -> Store]
    <3>1. CASE UNCHANGED kv
      BY <3>1 DEF TypeOK
    <3>2. CASE kv' = [kv EXCEPT ![f][Head(inbox[f]).key] = Head(inbox[f]).value]
      BY <2>2, <3>2 DEF TypeOK, Store
    <3> QED BY <1>1, <3>1, <3>2 DEF ReceivePush
  <2>4. raced' \in [Follower -> SUBSET Key]
    <3>1. {Head(inbox[f]).key} \in SUBSET Key
      BY <2>2
    <3> QED BY <1>1, <3>1, MissesTyped DEF ReceivePush, TypeOK
  <2> QED BY <1>1, <2>1, <2>3, <2>4 DEF ReceivePush, TypeOK, leader
<1>2. CASE ReceiveSyncResponse(f)
  <2>1. inbox' \in [Follower -> Seq(Message)] /\ Head(inbox[f]) \in Message
    BY <1>2, HeadTyped DEF ReceiveSyncResponse
  <2>2. Head(inbox[f]).data \in Store
    BY <1>2, <2>1 DEF ReceiveSyncResponse, Message
  <2>3. kv[f] \in Store
    BY DEF TypeOK
  <2>4. kv' \in [Follower -> Store] /\ raced' \in [Follower -> SUBSET Key]
    <3>1. Merged(kv[f], Head(inbox[f]).data) \in Store
      BY <2>2, <2>3, MergedTyped
    <3> QED BY <1>2, <3>1 DEF ReceiveSyncResponse, TypeOK
  <2> QED BY <1>2, <2>1, <2>4 DEF ReceiveSyncResponse, TypeOK, leader
<1> QED BY <1>1, <1>2 DEF Receive

LEMMA BootTyped ==
    ASSUME TypeOK, NEW f \in Follower, Start(f) \/ Boot(f) \/ Crash(f)
    PROVE  TypeOK'
<1>1. CASE Start(f)
  <2>1. Empty \in Store
    BY SyncAssumption DEF Empty, Store
  <2> QED BY <1>1, <2>1 DEF Start, TypeOK, leader
<1>2. CASE Listen(f)
  BY <1>2 DEF Listen, TypeOK, leader
<1>3. CASE PullLeaderData(f)
  <2>1. Append(requests, f) \in Seq(Follower) /\ Key \in SUBSET Key
    BY DEF TypeOK
  <2> QED BY <1>3, <2>1 DEF PullLeaderData, TypeOK
<1>4. CASE Crash(f)
  <2>1. << >> \in Seq(Message) /\ crashes' \in 0..MaxCrashes
    BY <1>4, SyncAssumption DEF Crash, TypeOK
  <2> QED BY <1>4, <2>1 DEF Crash, TypeOK, leader
<1> QED BY <1>1, <1>2, <1>3, <1>4 DEF Boot

LEMMA NextTyped == TypeOK /\ [Next]_vars => TypeOK'
<1> SUFFICES ASSUME TypeOK, [Next]_vars PROVE TypeOK'
  OBVIOUS
<1>1. CASE Handle
  <2>1. PICK w \in writes : \/ \E f \in Follower : Launch(w, f) \/ Push(w, f)
                            \/ Respond(w)
    BY <1>1 DEF Handle
  <2>2. CASE Respond(w)
    BY <2>2 DEF Respond, TypeOK, follower
  <2> QED BY <2>1, <2>2, LaunchTyped, PushTyped
<1>2. ASSUME NEW f \in Follower, ReceiveHeartBeat(f) \/ MarkDead(f) PROVE TypeOK'
  BY <1>2 DEF ReceiveHeartBeat, MarkDead, TypeOK, follower
<1>3. CASE UNCHANGED vars
  BY <1>3 DEF vars, leader, follower, TypeOK
<1> QED BY <1>1, <1>2, <1>3, PutKeyTyped, TakeSnapshotTyped, SendSnapshotTyped,
           ReceiveTyped, BootTyped DEF Next

\* The stores hold values of PUTs, the queues hold messages, and every pull, send
\* and answer is for a follower (kivileaf.cpp).
THEOREM SyncTyped == Spec => []TypeOK
BY InitTyped, NextTyped, PTL DEF Spec

-----------------------------------------------------------------------------
(* What a queue says of a key                                              *)

\* The value a message puts under k; 0 if it leaves k alone.
Carries(msg, k) ==
    IF msg.type = "PUSH" THEN (IF msg.key = k THEN msg.value ELSE 0) ELSE msg.data[k]

\* A store that holds v for k, and the messages it has still to apply in order, only
\* ever raise the value, and not beyond top.
InOrder(q, v, k, top) ==
    /\ v <= top
    /\ \A i \in DOMAIN q :
          Carries(q[i], k) <= top /\ (Carries(q[i], k) # 0 => v <= Carries(q[i], k))
    /\ \A i, j \in DOMAIN q :
          i < j /\ Carries(q[j], k) # 0 => Carries(q[i], k) <= Carries(q[j], k)

\* And they get there.
Reaches(q, v, k, top) == v = top \/ \E i \in DOMAIN q : Carries(q[i], k) = top

\* The value for k after the message.
After(v, msg, k) == IF Carries(msg, k) = 0 THEN v ELSE Carries(msg, k)

LEMMA CarriesTyped ==
    ASSUME NEW msg \in Message, NEW k \in Key
    PROVE  Carries(msg, k) \in Nat
<1>1. CASE msg.type = "PUSH"
  BY <1>1, SyncAssumption DEF Message, Carries
<1>2. CASE msg.type # "PUSH"
  BY <1>2, SyncAssumption DEF Message, Carries, Store
<1> QED BY <1>1, <1>2

\* A message that carries the latest value, or nothing, may join the queue.
LEMMA AppendInOrder ==
    ASSUME NEW q \in Seq(Message), NEW msg \in Message, NEW v \in Nat, NEW k \in Key,
           NEW top \in Nat, Carries(msg, k) = top \/ Carries(msg, k) = 0
    PROVE  /\ InOrder(q, v, k, top) => InOrder(Append(q, msg), v, k, top)
           /\ Reaches(q, v, k, top) => Reaches(Append(q, msg), v, k, top)
           /\ InOrder(q, v, k, top) /\ Carries(msg, k) = top
                => Reaches(Append(q, msg), v, k, top)
<1> DEFINE r == Append(q, msg)
           n == Len(q) + 1
           c(i) == Carries(r[i], k)
<1>1. /\ Len(q) \in Nat
      /\ DOMAIN q = 1..Len(q)
      /\ DOMAIN r = 1..n
      /\ \A i \in 1..Len(q) : r[i] = q[i]
      /\ r[n] = msg
      /\ r \in Seq(Message)
  OBVIOUS
<1>2. \A i \in DOMAIN r : r[i] \in Message
  BY <1>1
<1>3. \A i \in DOMAIN r : c(i) \in Nat
  BY <1>2, CarriesTyped
<1> HIDE DEF r, n
<1>4. \A i \in DOMAIN r : i = n \/ (i \in DOMAIN q /\ r[i] = q[i] /\ i < n)
  BY <1>1 DEF n
<1>5. n \in DOMAIN r /\ \A i \in DOMAIN q : i \in DOMAIN r /\ r[i] = q[i]
  BY <1>1 DEF n
<1>6. c(n) = top \/ c(n) = 0
  BY <1>1
<1>7. ASSUME InOrder(q, v, k, top) PROVE InOrder(r, v, k, top)
  <2>1. ASSUME NEW i \in DOMAIN r PROVE c(i) <= top /\ (c(i) # 0 => v <= c(i))
    BY <1>3, <1>4, <1>6, <1>7 DEF InOrder
  <2>2. ASSUME NEW i \in DOMAIN r, NEW j \in DOMAIN r, i < j, c(j) # 0
        PROVE  c(i) <= c(j)
    <3>1. CASE j = n
      BY <1>6, <2>1, <2>2, <3>1
    <3>2. CASE j # n
      <4>1. i # n
        BY <1>1, <1>4, <2>2, <3>2 DEF n
      <4> QED BY <1>4, <1>7, <2>2, <3>2, <4>1 DEF InOrder
    <3> QED BY <3>1, <3>2
  <2> QED BY <1>7, <2>1, <2>2 DEF InOrder
<1>8. ASSUME Reaches(q, v, k, top) PROVE Reaches(r, v, k, top)
  BY <1>5, <1>8 DEF Reaches
<1>9. ASSUME Carries(msg, k) = top PROVE Reaches(r, v, k, top)
  BY <1>1, <1>5, <1>9 DEF Reaches
<1> QED BY <1>7, <1>8, <1>9 DEF r

\* Applying the first message raises the value or leaves it.
LEMMA TailInOrder ==
    ASSUME NEW q \in Seq(Message), q # << >>, NEW v \in Nat, NEW k \in Key,
           NEW top \in Nat, InOrder(q, v, k, top)
    PROVE  LET w == After(v, Head(q), k)
           IN  /\ w \in Nat /\ v <= w
               /\ InOrder(Tail(q), w, k, top)
               /\ Reaches(q, v, k, top) => Reaches(Tail(q), w, k, top)
<1> DEFINE r == Tail(q)
           c(i) == Carries(q[i], k)
           w == After(v, Head(q), k)
<1>1. /\ Len(q) \in Nat \ {0}
      /\ DOMAIN q = 1..Len(q)
      /\ DOMAIN r = 1..(Len(q) - 1)
      /\ \A i \in 1..(Len(q) - 1) : r[i] = q[i + 1]
      /\ Head(q) = q[1]
  OBVIOUS
<1>2. \A i \in DOMAIN q : q[i] \in Message
  OBVIOUS
<1>3. \A i \in DOMAIN q : c(i) \in Nat
  BY <1>2, CarriesTyped
<1>4. 1 \in DOMAIN q /\ w = IF c(1) = 0 THEN v ELSE c(1)
  BY <1>1 DEF After
<1> HIDE DEF r, w
<1>5. \A i \in DOMAIN r : i + 1 \in DOMAIN q /\ r[i] = q[i + 1] /\ 1 < i + 1 /\ i \in Nat
  BY <1>1
<1>6. \A i \in DOMAIN q : i # 1 => i - 1 \in DOMAIN r /\ q[i] = r[i - 1]
  BY <1>1
<1>7. /\ v <= top
      /\ \A i \in DOMAIN q : c(i) <= top /\ (c(i) # 0 => v <= c(i))
      /\ \A i, j \in DOMAIN q : i < j /\ c(j) # 0 => c(i) <= c(j)
  BY DEF InOrder
<1> HIDE DEF c
<1>8. w \in Nat /\ v <= w /\ w <= top
  BY <1>3, <1>4, <1>7
<1>9. InOrder(r, w, k, top)
  <2>1. ASSUME NEW i \in DOMAIN r
        PROVE  c(i + 1) <= top /\ (c(i + 1) # 0 => w <= c(i + 1))
    BY <1>3, <1>4, <1>5, <1>7
  <2>2. ASSUME NEW i \in DOMAIN r, NEW j \in DOMAIN r, i < j, c(j + 1) # 0
        PROVE  c(i + 1) <= c(j + 1)
    <3>1. i + 1 < j + 1
      BY <1>5, <2>2
    <3> QED BY <1>5, <1>7, <2>2, <3>1
  <2>3. \A i \in DOMAIN r : Carries(r[i], k) = c(i + 1)
    BY <1>5 DEF c
  <2> QED BY <1>8, <2>1, <2>2, <2>3 DEF InOrder
<1>10. ASSUME Reaches(q, v, k, top) PROVE Reaches(r, w, k, top)
  <2>1. CASE w = top
    BY <2>1 DEF Reaches
  <2>2. CASE w # top
    <3>1. v # top
      BY <1>8, <2>2
    <3>2. PICK i \in DOMAIN q : c(i) = top
      BY <1>10, <3>1 DEF Reaches, c
    <3>3. i # 1
      BY <1>3, <1>4, <1>7, <2>2, <3>2, <3>1
    <3>4. Carries(r[i - 1], k) = top
      BY <1>6, <3>2, <3>3 DEF c
    <3> QED BY <1>6, <3>3, <3>4 DEF Reaches
  <2> QED BY <2>1, <2>2
<1> QED BY <1>8, <1>9, <1>10 DEF r, w

\* So does dropping it, which leaves the value.
LEMMA DropInOrder ==
    ASSUME NEW q \in Seq(Message), q # << >>, NEW v, NEW k, NEW top,
           InOrder(q, v, k, top)
    PROVE  InOrder(Tail(q), v, k, top)
<1> DEFINE r == Tail(q)
<1>1. /\ DOMAIN q = 1..Len(q) /\ Len(q) \in Nat \ {0}
      /\ DOMAIN r = 1..(Len(q) - 1)
      /\ \A i \in 1..(Len(q) - 1) : r[i] = q[i + 1]
  OBVIOUS
<1> HIDE DEF r
<1>2. \A i \in DOMAIN r : i + 1 \in DOMAIN q /\ r[i] = q[i + 1]
  BY <1>1
<1>3. \A i, j \in DOMAIN r : i < j => i + 1 < j + 1
  BY <1>1
<1> QED BY <1>2, <1>3 DEF InOrder, r

-----------------------------------------------------------------------------
(* The inductive invariant                                                 *)

Answered(f) == up[f] /\ snapped[f] /\ \A a \in answering : a.to # f

Waits(w, k, f) == w.key = k /\ f \in w.unread \cup w.sending

\* What holds of a follower and a key on which no race is recorded.
Fresh(f, k) ==
    /\ InOrder(inbox[f], kv[f][k], k, leader_kv[k])
    /\ \A a \in answering : a.to = f => a.data[k] = leader_kv[k]
    /\ \A w \in writes : Waits(w, k, f) => w.value = leader_kv[k]
    /\ Answered(f) /\ ~Unsent(k, f) => Reaches(inbox[f], kv[f][k], k, leader_kv[k])

FreshUnlessRaced == \A f \in Follower, k \in Key : k \in raced[f] \/ Fresh(f, k)

\* An answer that was sent before the follower listened is recorded, so that a push
\* that is refused later needs no record.
DeafIsRecorded == \A f \in Follower : Answered(f) /\ ~listening[f] => raced[f] = Key

OneAnswer == \A a, b \in answering : a = b

Numbered == \A k \in Key : leader_kv[k] <= puts

SyncInv == FreshUnlessRaced /\ DeafIsRecorded /\ OneAnswer /\ Numbered

LEMMA UnsentWaits ==
    ASSUME NEW f, NEW k
    PROVE  Unsent(k, f) <=> \E w \in writes : Waits(w, k, f)
BY DEF Unsent, Waits

LEMMA ValuesTyped ==
    ASSUME TypeOK, NEW f \in Follower, NEW k \in Key
    PROVE  /\ kv[f][k] \in Nat /\ leader_kv[k] \in Nat /\ puts \in Nat
           /\ inbox[f] \in Seq(Message)
BY SyncAssumption DEF TypeOK, Store

\* A step that leaves what f holds and is told of k, and gives f no reason to be
\* up to date that it had not before.
LEMMA FreshKept ==
    ASSUME NEW f \in Follower, NEW k \in Key, Fresh(f, k),
           kv'[f][k] = kv[f][k], inbox'[f] = inbox[f], leader_kv'[k] = leader_kv[k],
           \A a \in answering' : a.to = f => a.data[k] = leader_kv[k],
           \A w \in writes' : Waits(w, k, f) => w.value = leader_kv[k],
           Answered(f)' /\ ~Unsent(k, f)' => Answered(f) /\ ~Unsent(k, f)
    PROVE  Fresh(f, k)'
BY DEF Fresh

LEMMA MissesGrows ==
    ASSUME TypeOK, NEW f \in Follower, NEW ks, Misses(f, ks)
    PROVE  \A g \in Follower : raced[g] \subseteq raced'[g]
BY DEF Misses, TypeOK

\* Races are recorded for good.
LEMMA RacedGrows ==
    ASSUME TypeOK, [Next]_vars
    PROVE  \A f \in Follower : raced[f] \subseteq raced'[f]
<1>1. ASSUME NEW k \in Key, PutKey(k) PROVE \A f \in Follower : raced[f] \subseteq raced'[f]
  BY <1>1 DEF PutKey, TypeOK
<1>2. CASE Handle
  <2>1. PICK w \in writes : \/ \E f \in Follower : Launch(w, f) \/ Push(w, f)
                            \/ Respond(w)
    BY <1>2 DEF Handle
  <2>2. CASE Respond(w)
    BY <2>2 DEF Respond
  <2>3. ASSUME NEW f \in Follower, Launch(w, f)
        PROVE  \A g \in Follower : raced[g] \subseteq raced'[g]
    <3>1. UNCHANGED raced \/ Misses(f, {w.key})
      BY <2>3 DEF Launch
    <3> QED BY <3>1, MissesGrows
  <2>4. ASSUME NEW f \in Follower, Push(w, f)
        PROVE  \A g \in Follower : raced[g] \subseteq raced'[g]
    <3>1. UNCHANGED raced \/ Misses(f, {w.key})
      BY <2>4 DEF Push, Send
    <3> QED BY <3>1, MissesGrows
  <2> QED BY <2>1, <2>2, <2>3, <2>4
<1>3. CASE SendSnapshot
  <2>1. PICK a \in answering : UNCHANGED raced \/ Misses(a.to, Key)
    BY <1>3 DEF SendSnapshot, Send
  <2>2. a.to \in Follower
    BY DEF TypeOK
  <2> QED BY <2>1, <2>2, MissesGrows
<1>4. ASSUME NEW f \in Follower, Receive(f)
      PROVE  \A g \in Follower : raced[g] \subseteq raced'[g]
  <2>1. CASE ReceivePush(f)
    <3>1. UNCHANGED raced \/ Misses(f, {Head(inbox[f]).key})
      BY <2>1 DEF ReceivePush
    <3> QED BY <3>1, MissesGrows
  <2>2. CASE ReceiveSyncResponse(f)
    BY <2>2 DEF ReceiveSyncResponse, TypeOK
  <2> QED BY <1>4, <2>1, <2>2 DEF Receive
<1>5. ASSUME \/ TakeSnapshot
             \/ \E f \in Follower : \/ ReceiveHeartBeat(f) \/ MarkDead(f) \/ Start(f)
                                    \/ Listen(f) \/ Crash(f)
      PROVE  \A g \in Follower : raced[g] \subseteq raced'[g]
  BY <1>5 DEF TakeSnapshot, ReceiveHeartBeat, MarkDead, Start, Listen, Crash
<1>6. ASSUME NEW f \in Follower, PullLeaderData(f)
      PROVE  \A g \in Follower : raced[g] \subseteq raced'[g]
  BY <1>6 DEF PullLeaderData, TypeOK
<1>7. CASE UNCHANGED vars
  BY <1>7 DEF vars
<1> QED BY <1>1, <1>2, <1>3, <1>4, <1>5, <1>6, <1>7 DEF Next, Boot

-----------------------------------------------------------------------------
(* One lemma per operation                                                 *)

\* A new value that races with nothing is the last word for everybody it is sent to.
LEMMA PutKeyFresh ==
    ASSUME TypeOK, SyncInv, NEW key \in Key, PutKey(key),
           NEW f \in Follower, NEW k \in Key, k \notin raced'[f]
    PROVE  Fresh(f, k)'
<1> DEFINE new == [key |-> key, value |-> puts', unread |-> Follower, sending |-> {}]
<1>1. /\ puts' = puts + 1
      /\ leader_kv' = [leader_kv EXCEPT ![key] = puts']
      /\ writes' = writes \cup {new}
      /\ UNCHANGED <<answering, inbox, kv, up, snapped>>
      /\ k = key => ~Unsent(k, f) /\ \A a \in answering : a.to # f
      /\ k \notin raced[f]
  BY DEF PutKey, follower, TypeOK
<1>2. Fresh(f, k)
  BY <1>1 DEF SyncInv, FreshUnlessRaced
<1>3. /\ new.key = key /\ new.value = puts' /\ f \in new.unread
  OBVIOUS
<1> HIDE DEF new
<1>4. Answered(f)' <=> Answered(f)
  BY <1>1 DEF Answered
<1>5. CASE k # key
  <2>1. leader_kv'[k] = leader_kv[k]
    BY <1>1, <1>5 DEF TypeOK, Store
  <2>2. \A w \in writes' : Waits(w, k, f) => w \in writes
    BY <1>1, <1>3, <1>5 DEF Waits
  <2>3. Unsent(k, f) => Unsent(k, f)'
    BY <1>1 DEF Unsent
  <2>4. \A w \in writes' : Waits(w, k, f) => w.value = leader_kv[k]
    BY <1>2, <2>2 DEF Fresh
  <2>5. \A a \in answering' : a.to = f => a.data[k] = leader_kv[k]
    BY <1>1, <1>2 DEF Fresh
  <2> QED BY <1>1, <1>2, <1>4, <2>1, <2>3, <2>4, <2>5, FreshKept
<1>6. CASE k = key
  <2>1. leader_kv'[k] = puts'
    BY <1>1, <1>6 DEF TypeOK, Store
  <2>2. InOrder(inbox[f], kv[f][k], k, puts')
    <3>1. /\ kv[f][k] \in Nat /\ leader_kv[k] \in Nat /\ puts \in Nat
          /\ inbox[f] \in Seq(Message)
      BY ValuesTyped
    <3>2. leader_kv[k] <= puts'
      BY <1>1, <3>1 DEF SyncInv, Numbered
    <3>3. \A i \in DOMAIN inbox[f] : Carries(inbox[f][i], k) \in Nat
      BY <3>1, CarriesTyped
    <3>4. InOrder(inbox[f], kv[f][k], k, leader_kv[k])
      BY <1>2 DEF Fresh
    <3> QED BY <1>1, <3>1, <3>2, <3>3, <3>4 DEF InOrder
  <2>3. \A w \in writes' : Waits(w, k, f) => w.value = puts'
    BY <1>1, <1>3, <1>6 DEF Unsent, Waits
  <2>4. Unsent(k, f)'
    BY <1>1, <1>3, <1>6 DEF Unsent
  <2> QED BY <1>1, <1>6, <2>1, <2>2, <2>3, <2>4 DEF Fresh
<1> QED BY <1>5, <1>6

\* The thread of a PUT goes on: w becomes x.
LEMMA ReplaceWaits ==
    ASSUME NEW w \in writes, NEW x, Replace(w, x), x.key = w.key, x.value = w.value,
           NEW f, NEW k,
           f \in x.unread \cup x.sending => f \in w.unread \cup w.sending
    PROVE  /\ (\A y \in writes : Waits(y, k, f) => y.value = leader_kv[k])
                => \A y \in writes' : Waits(y, k, f) => y.value = leader_kv[k]
           /\ k # w.key \/ (f \in w.unread \cup w.sending => f \in x.unread \cup x.sending)
                => (Unsent(k, f) => Unsent(k, f)')
<1>1. writes' = (writes \ {w}) \cup {x}
  BY DEF Replace
<1>2. Waits(x, k, f) => Waits(w, k, f)
  BY DEF Waits
<1>3. (\A y \in writes : Waits(y, k, f) => y.value = leader_kv[k])
         => \A y \in writes' : Waits(y, k, f) => y.value = leader_kv[k]
  BY <1>1, <1>2
<1>4. ASSUME k # w.key \/ (f \in w.unread \cup w.sending => f \in x.unread \cup x.sending),
             Unsent(k, f)
      PROVE  Unsent(k, f)'
  <2>1. PICK y \in writes : y.key = k /\ f \in y.unread \cup y.sending
    BY <1>4 DEF Unsent
  <2>2. CASE y = w
    BY <1>1, <1>4, <2>1, <2>2 DEF Unsent
  <2>3. CASE y # w
    BY <1>1, <2>1, <2>3 DEF Unsent
  <2> QED BY <2>2, <2>3
<1> QED BY <1>3, <1>4

LEMMA LaunchFresh ==
    ASSUME TypeOK, SyncInv, NEW w \in writes, NEW to \in Follower, Launch(w, to),
           NEW f \in Follower, NEW k \in Key, k \notin raced'[f], k \notin raced[f]
    PROVE  Fresh(f, k)'
<1> DEFINE x == [w EXCEPT !.unread = @ \ {to}]
           y == [x EXCEPT !.sending = @ \cup {to}]
<1>1. /\ to \in w.unread
      /\ UNCHANGED <<leader_kv, answering, inbox, kv, up, snapped>>
      /\ is_alive[to] => Replace(w, y)
      /\ ~is_alive[to] => Replace(w, x) /\ Misses(to, {w.key})
  BY DEF Launch, follower
<1>2. Fresh(f, k)
  BY DEF SyncInv, FreshUnlessRaced
<1>3. /\ x.key = w.key /\ x.value = w.value
      /\ x.unread = w.unread \ {to} /\ x.sending = w.sending
      /\ y.key = w.key /\ y.value = w.value
      /\ y.unread = w.unread \ {to} /\ y.sending = w.sending \cup {to}
  BY DEF TypeOK, Write
<1> HIDE DEF x, y
<1>4. Answered(f)' <=> Answered(f)
  BY <1>1 DEF Answered
<1>5. \A a \in writes : Waits(a, k, f) => a.value = leader_kv[k]
  BY <1>2 DEF Fresh
<1>6. /\ \A a \in writes' : Waits(a, k, f) => a.value = leader_kv[k]
      /\ Answered(f)' /\ Unsent(k, f) => Unsent(k, f)'
  <2>1. CASE is_alive[to]
    BY <1>1, <1>3, <1>5, <2>1, ReplaceWaits
  <2>2. CASE ~is_alive[to]
    <3>1. \A a \in writes' : Waits(a, k, f) => a.value = leader_kv[k]
      BY <1>1, <1>3, <1>5, <2>2, ReplaceWaits
    <3>2. Answered(f) => f # to \/ k # w.key
      BY <1>1, <2>2 DEF Misses, Answered, TypeOK
    <3>3. Answered(f) /\ Unsent(k, f) => Unsent(k, f)'
      BY <1>1, <1>3, <2>2, <3>2, ReplaceWaits
    <3> QED BY <1>4, <3>1, <3>3
  <2> QED BY <2>1, <2>2
<1>7. \A a \in answering' : a.to = f => a.data[k] = leader_kv[k]
  BY <1>1, <1>2 DEF Fresh
<1> QED BY <1>1, <1>2, <1>4, <1>6, <1>7, FreshKept

\* The push that arrives puts the leader's value at the end of the queue; one that is
\* refused is recorded, or the follower has still to be answered.
LEMMA PushFresh ==
    ASSUME TypeOK, SyncInv, NEW w \in writes, NEW to \in Follower, Push(w, to),
           NEW f \in Follower, NEW k \in Key, k \notin raced'[f], k \notin raced[f]
    PROVE  Fresh(f, k)'
<1> DEFINE x == [w EXCEPT !.sending = @ \ {to}]
           msg == [type |-> "PUSH", key |-> w.key, value |-> w.value]
<1>1. /\ to \in w.sending
      /\ Replace(w, x)
      /\ \/ Send(to, msg)
         \/ UNCHANGED inbox /\ (listening[to] => Misses(to, {w.key}))
      /\ UNCHANGED <<leader_kv, answering, kv, up, snapped>>
  BY DEF Push
<1>2. Fresh(f, k)
  BY DEF SyncInv, FreshUnlessRaced
<1>3. /\ x.key = w.key /\ x.value = w.value
      /\ x.unread = w.unread /\ x.sending = w.sending \ {to}
  BY DEF TypeOK, Write
<1>4. msg \in Message /\ Carries(msg, k) = IF w.key = k THEN w.value ELSE 0
  BY DEF TypeOK, Write, Message, Carries
<1> HIDE DEF x, msg
<1>5. Answered(f)' <=> Answered(f)
  BY <1>1 DEF Answered
<1>6. \A a \in writes' : Waits(a, k, f) => a.value = leader_kv[k]
  <2>1. \A a \in writes : Waits(a, k, f) => a.value = leader_kv[k]
    BY <1>2 DEF Fresh
  <2> QED BY <1>1, <1>3, <2>1, ReplaceWaits
<1>7. \A a \in answering' : a.to = f => a.data[k] = leader_kv[k]
  BY <1>1, <1>2 DEF Fresh
<1>8. CASE f # to
  <2>1. inbox'[f] = inbox[f]
    BY <1>1, <1>8 DEF Send, TypeOK
  <2>2. Unsent(k, f) => Unsent(k, f)'
    BY <1>1, <1>3, <1>8, ReplaceWaits
  <2> QED BY <1>1, <1>2, <1>5, <1>6, <1>7, <2>1, <2>2, FreshKept
<1>9. CASE f = to
  <2>1. /\ kv[f][k] \in Nat /\ leader_kv[k] \in Nat
        /\ inbox[f] \in Seq(Message)
    BY ValuesTyped
  <2>2. w.key = k => w.value = leader_kv[k]
    BY <1>1, <1>2, <1>9 DEF Fresh, Waits
  <2>3. Carries(msg, k) = leader_kv[k] \/ Carries(msg, k) = 0
    BY <1>4, <2>2
  <2>4. k # w.key => (Unsent(k, f) => Unsent(k, f)')
    BY <1>1, <1>3, ReplaceWaits
  <2>5. InOrder(inbox[f], kv[f][k], k, leader_kv[k])
    BY <1>2 DEF Fresh
  <2>6. CASE Send(to, msg)
    <3>1. inbox'[f] = Append(inbox[f], msg)
      BY <1>1, <1>9, <2>6 DEF Send, TypeOK
    <3>2. InOrder(inbox'[f], kv[f][k], k, leader_kv[k])
      BY <1>4, <2>1, <2>3, <2>5, <3>1, AppendInOrder
    <3>3. ASSUME Answered(f), ~Unsent(k, f)'
          PROVE  Reaches(inbox'[f], kv[f][k], k, leader_kv[k])
      <4>1. CASE k = w.key
        <5>1. Carries(msg, k) = leader_kv[k]
          BY <1>4, <2>2, <4>1
        <5> QED BY <1>4, <2>1, <2>5, <3>1, <5>1, AppendInOrder
      <4>2. CASE k # w.key
        <5>1. Reaches(inbox[f], kv[f][k], k, leader_kv[k])
          BY <1>2, <2>4, <3>3, <4>2 DEF Fresh
        <5> QED BY <1>4, <2>1, <2>3, <3>1, <5>1, AppendInOrder
      <4> QED BY <4>1, <4>2
    <3> QED BY <1>1, <1>5, <1>6, <1>7, <3>2, <3>3 DEF Fresh
  <2>7. CASE UNCHANGED inbox /\ (listening[to] => Misses(to, {w.key}))
    <3>1. inbox'[f] = inbox[f]
      BY <2>7
    <3>2. k = w.key => ~Answered(f)
      <4>1. CASE listening[f]
        BY <1>9, <2>7, <4>1 DEF Misses, Answered, TypeOK
      <4>2. CASE ~listening[f]
        BY <4>2 DEF SyncInv, DeafIsRecorded
      <4> QED BY <4>1, <4>2
    <3> QED BY <1>1, <1>2, <1>5, <1>6, <1>7, <2>4, <3>1, <3>2, FreshKept
  <2> QED BY <1>1, <2>6, <2>7
<1> QED BY <1>8, <1>9

\* A copy of the store holds the leader's value; until it is sent the follower is not
\* answered.
LEMMA TakeSnapshotFresh ==
    ASSUME TypeOK, SyncInv, TakeSnapshot,
           NEW f \in Follower, NEW k \in Key, k \notin raced[f]
    PROVE  Fresh(f, k)'
<1> DEFINE to == Head(requests)
           answer == [to |-> to, data |-> leader_kv]
<1>1. /\ answering = {} /\ answering' = {answer}
      /\ snapped' = [snapped EXCEPT ![to] = @ \/ up[to]]
      /\ UNCHANGED <<leader_kv, writes, kv, up, inbox>>
  BY DEF TakeSnapshot, follower
<1>2. answer.to = to /\ answer.data = leader_kv
  OBVIOUS
<1> HIDE DEF to, answer
<1>3. Fresh(f, k)
  BY DEF SyncInv, FreshUnlessRaced
<1>4. Unsent(k, f)' <=> Unsent(k, f)
  BY <1>1 DEF Unsent
<1>5. Answered(f)' => Answered(f)
  BY <1>1, <1>2 DEF Answered, TypeOK
<1>6. \A w \in writes' : Waits(w, k, f) => w.value = leader_kv[k]
  BY <1>1, <1>3 DEF Fresh
<1>7. \A a \in answering' : a.to = f => a.data[k] = leader_kv[k]
  BY <1>1, <1>2
<1> QED BY <1>1, <1>3, <1>4, <1>5, <1>6, <1>7, FreshKept

\* The answer that arrives puts the leader's values at the end of the queue.
LEMMA SendSnapshotFresh ==
    ASSUME TypeOK, SyncInv, SendSnapshot,
           NEW f \in Follower, NEW k \in Key, k \notin raced'[f], k \notin raced[f]
    PROVE  Fresh(f, k)'
<1>1. PICK a \in answering :
        /\ \/ Send(a.to, [type |-> "SYNC_RESPONSE", data |-> a.data])
           \/ UNCHANGED inbox /\ Misses(a.to, Key)
        /\ answering' = {}
        /\ UNCHANGED <<leader_kv, writes, kv, up, snapped>>
  BY DEF SendSnapshot
<1> DEFINE msg == [type |-> "SYNC_RESPONSE", data |-> a.data]
<1>2. Fresh(f, k)
  BY DEF SyncInv, FreshUnlessRaced
<1>3. a.to \in Follower /\ a.data \in Store
  BY DEF TypeOK
<1>4. msg \in Message /\ Carries(msg, k) = a.data[k]
  BY <1>3 DEF Message, Carries
<1>5. Send(a.to, msg) \/ (UNCHANGED inbox /\ Misses(a.to, Key))
  BY <1>1
<1> HIDE DEF msg
<1>6. Unsent(k, f)' <=> Unsent(k, f)
  BY <1>1 DEF Unsent
<1>7. \A w \in writes' : Waits(w, k, f) => w.value = leader_kv[k]
  BY <1>1, <1>2 DEF Fresh
<1>8. \A b \in answering' : b.to = f => b.data[k] = leader_kv[k]
  BY <1>1
<1>9. CASE f # a.to
  <2>1. inbox'[f] = inbox[f]
    BY <1>3, <1>5, <1>9 DEF Send, TypeOK
  <2>2. Answered(f)' => Answered(f)
    BY <1>1, <1>9 DEF Answered, SyncInv, OneAnswer
  <2> QED BY <1>1, <1>2, <1>6, <1>7, <1>8, <2>1, <2>2, FreshKept
<1>10. CASE f = a.to /\ Send(a.to, msg)
  <2>1. /\ kv[f][k] \in Nat /\ leader_kv[k] \in Nat
        /\ inbox[f] \in Seq(Message)
    BY ValuesTyped
  <2>2. Carries(msg, k) = leader_kv[k]
    BY <1>2, <1>4, <1>10 DEF Fresh
  <2>3. InOrder(inbox[f], kv[f][k], k, leader_kv[k])
    BY <1>2 DEF Fresh
  <2>4. inbox'[f] = Append(inbox[f], msg)
    BY <1>10 DEF Send, TypeOK
  <2>5. /\ InOrder(inbox'[f], kv[f][k], k, leader_kv[k])
        /\ Reaches(inbox'[f], kv[f][k], k, leader_kv[k])
    BY <1>4, <2>1, <2>2, <2>3, <2>4, AppendInOrder
  <2> QED BY <1>1, <1>7, <1>8, <2>5 DEF Fresh
<1>11. CASE f = a.to /\ UNCHANGED inbox /\ Misses(a.to, Key)
  <2>1. inbox'[f] = inbox[f]
    BY <1>11
  <2>2. ~(up[f] /\ snapped[f])
    BY <1>11 DEF Misses, TypeOK
  <2>3. ~Answered(f)'
    BY <1>1, <2>2 DEF Answered
  <2> QED BY <1>1, <1>2, <1>7, <1>8, <2>1, <2>3, FreshKept
<1> QED BY <1>5, <1>9, <1>10, <1>11

\* What a follower does with the first message of its queue: the store takes the
\* value it carries, or leaves it as it is if the message is dropped, which is recorded
\* unless the follower has still to be answered.
LEMMA ReceiveValue ==
    ASSUME TypeOK, NEW to \in Follower, Receive(to),
           NEW f \in Follower, NEW k \in Key, k \notin raced'[f]
    PROVE  /\ f # to => kv'[f] = kv[f] /\ inbox'[f] = inbox[f]
           /\ f = to => /\ inbox[f] # << >>
                        /\ \/ kv'[f][k] = After(kv[f][k], Head(inbox[f]), k)
                           \/ kv'[f][k] = kv[f][k] /\ ~Answered(f)
                        /\ inbox'[f] = Tail(inbox[f])
<1> DEFINE msg == Head(inbox[to])
<1>1. CASE ReceivePush(to)
  <2>1. msg.type = "PUSH" /\ inbox[to] # << >>
    BY <1>1 DEF ReceivePush
  <2>2. /\ \/ kv' = [kv EXCEPT ![to][msg.key] = msg.value]
           \/ UNCHANGED kv /\ Misses(to, {msg.key})
        /\ inbox' = [inbox EXCEPT ![to] = Tail(@)]
    BY <1>1 DEF ReceivePush
  <2>3. msg \in Message
    BY <2>1, HeadTyped
  <2>4. msg.key \in Key /\ msg.value \in 1..MaxPuts
    BY <2>1, <2>3 DEF Message
  <2>5. Carries(msg, k) = IF msg.key = k THEN msg.value ELSE 0
    BY <2>1 DEF Carries
  <2> HIDE DEF msg
  <2>6. After(kv[to][k], msg, k) = IF msg.key = k THEN msg.value ELSE kv[to][k]
    BY <2>4, <2>5, SyncAssumption DEF After
  <2>7. ASSUME kv' = [kv EXCEPT ![to][msg.key] = msg.value]
        PROVE  kv'[to][k] = After(kv[to][k], msg, k)
    <3>1. kv'[to][k] = IF msg.key = k THEN msg.value ELSE kv[to][k]
      BY <2>4, <2>7 DEF TypeOK, Store
    <3> QED BY <2>6, <3>1
  <2>8. ASSUME f = to, UNCHANGED kv, Misses(to, {msg.key})
        PROVE  kv'[to][k] = After(kv[to][k], msg, k) \/ ~Answered(f)
    <3>1. CASE msg.key = k
      BY <2>8, <3>1 DEF Misses, Answered, TypeOK
    <3>2. CASE msg.key # k
      BY <2>6, <2>8, <3>2
    <3> QED BY <3>1, <3>2
  <2>9. f # to => kv'[f] = kv[f] /\ inbox'[f] = inbox[f]
    BY <2>2 DEF TypeOK
  <2>10. f = to => kv'[f][k] = After(kv[f][k], msg, k) \/ (UNCHANGED kv /\ ~Answered(f))
    BY <2>2, <2>7, <2>8
  <2>11. inbox'[to] = Tail(inbox[to])
    BY <2>2 DEF TypeOK
  <2> QED BY <2>1, <2>9, <2>10, <2>11 DEF msg
<1>2. CASE ReceiveSyncResponse(to)
  <2>1. msg.type # "PUSH" /\ inbox[to] # << >>
    BY <1>2 DEF ReceiveSyncResponse
  <2>2. /\ \/ kv' = [kv EXCEPT ![to] = Merged(@, msg.data)]
           \/ raced' = [raced EXCEPT ![to] = Key] /\ UNCHANGED kv
        /\ inbox' = [inbox EXCEPT ![to] = Tail(@)]
    BY <1>2 DEF ReceiveSyncResponse
  <2>3. Carries(msg, k) = msg.data[k]
    BY <2>1 DEF Carries
  <2> HIDE DEF msg
  <2>4. After(kv[to][k], msg, k) = Merged(kv[to], msg.data)[k]
    BY <2>3 DEF After, Merged
  <2>5. f = to => kv'[f][k] = After(kv[f][k], msg, k)
    BY <2>2, <2>4 DEF TypeOK
  <2>6. f # to => kv'[f] = kv[f] /\ inbox'[f] = inbox[f]
    BY <2>2 DEF TypeOK
  <2> QED BY <2>1, <2>2, <2>5, <2>6 DEF TypeOK, msg
<1> QED BY <1>1, <1>2 DEF Receive

LEMMA ReceiveFresh ==
    ASSUME TypeOK, SyncInv, NEW to \in Follower, Receive(to),
           NEW f \in Follower, NEW k \in Key, k \notin raced'[f], k \notin raced[f]
    PROVE  Fresh(f, k)' /\ kv'[f][k] >= kv[f][k]
<1>1. UNCHANGED <<leader_kv, writes, answering, up, snapped>>
  BY DEF Receive, ReceivePush, ReceiveSyncResponse, leader
<1>2. Fresh(f, k)
  BY DEF SyncInv, FreshUnlessRaced
<1>3. (Answered(f)' <=> Answered(f)) /\ (Unsent(k, f)' <=> Unsent(k, f))
  BY <1>1 DEF Answered, Unsent
<1>4. /\ \A w \in writes' : Waits(w, k, f) => w.value = leader_kv[k]
      /\ \A a \in answering' : a.to = f => a.data[k] = leader_kv[k]
  BY <1>1, <1>2 DEF Fresh
<1>5. /\ kv[f][k] \in Nat /\ leader_kv[k] \in Nat
      /\ inbox[f] \in Seq(Message)
  BY ValuesTyped
<1>6. CASE f # to
  <2>1. kv'[f] = kv[f] /\ inbox'[f] = inbox[f]
    BY <1>6, ReceiveValue
  <2> QED BY <1>1, <1>2, <1>3, <1>4, <1>5, <2>1, FreshKept
<1>7. CASE f = to
  <2>1. inbox[f] # << >> /\ inbox'[f] = Tail(inbox[f])
    BY <1>7, ReceiveValue
  <2>2. InOrder(inbox[f], kv[f][k], k, leader_kv[k])
    BY <1>2 DEF Fresh
  <2>3. CASE kv'[f][k] = After(kv[f][k], Head(inbox[f]), k)
    <3>1. /\ kv'[f][k] \in Nat /\ kv[f][k] <= kv'[f][k]
          /\ InOrder(inbox'[f], kv'[f][k], k, leader_kv[k])
          /\ Reaches(inbox[f], kv[f][k], k, leader_kv[k])
                => Reaches(inbox'[f], kv'[f][k], k, leader_kv[k])
      BY <1>5, <2>1, <2>2, <2>3, TailInOrder
    <3> QED BY <1>1, <1>2, <1>3, <1>4, <1>5, <3>1 DEF Fresh
  <2>4. CASE kv'[f][k] = kv[f][k] /\ ~Answered(f)
    <3>1. InOrder(inbox'[f], kv'[f][k], k, leader_kv[k])
      BY <1>5, <2>1, <2>2, <2>4, DropInOrder
    <3> QED BY <1>1, <1>3, <1>4, <1>5, <2>4, <3>1 DEF Fresh
  <2> QED BY <1>7, <2>3, <2>4, ReceiveValue
<1> QED BY <1>6, <1>7

\* A follower boots with an empty store and a queue of what was accepted for it.
LEMMA CycleFresh ==
    ASSUME TypeOK, SyncInv, NEW to \in Follower, Start(to) \/ Crash(to),
           NEW f \in Follower, NEW k \in Key, k \notin raced[f]
    PROVE  Fresh(f, k)'
<1>1. UNCHANGED <<leader_kv, writes, answering>>
  BY DEF Start, Crash, leader
<1>2. Fresh(f, k)
  BY DEF SyncInv, FreshUnlessRaced
<1>3. Unsent(k, f)' <=> Unsent(k, f)
  BY <1>1 DEF Unsent
<1>4. /\ \A w \in writes' : Waits(w, k, f) => w.value = leader_kv[k]
      /\ \A a \in answering' : a.to = f => a.data[k] = leader_kv[k]
  BY <1>1, <1>2 DEF Fresh
<1>5. /\ kv[f][k] \in Nat /\ leader_kv[k] \in Nat
      /\ inbox[f] \in Seq(Message)
      /\ \A i \in DOMAIN inbox[f] : Carries(inbox[f][i], k) \in Nat
  BY ValuesTyped, CarriesTyped
<1>6. CASE f # to
  <2>1. kv'[f] = kv[f] /\ inbox'[f] = inbox[f] /\ (Answered(f)' <=> Answered(f))
    BY <1>1, <1>6 DEF Start, Crash, Answered, TypeOK
  <2> QED BY <1>1, <1>2, <1>3, <1>4, <2>1, FreshKept
<1>7. CASE f = to
  <2>1. ~Answered(f)'
    BY <1>7 DEF Start, Crash, Answered, TypeOK
  <2>2. InOrder(inbox[f], kv[f][k], k, leader_kv[k])
    BY <1>2 DEF Fresh
  <2>3. CASE Start(to)
    <3>1. kv'[f][k] = 0 /\ inbox'[f] = inbox[f]
      BY <1>7, <2>3 DEF Start, Empty, TypeOK
    <3>2. InOrder(inbox'[f], 0, k, leader_kv[k])
      BY <1>5, <2>2, <3>1 DEF InOrder
    <3> QED BY <1>1, <1>4, <2>1, <3>1, <3>2 DEF Fresh
  <2>4. CASE Crash(to)
    <3>1. kv'[f] = kv[f] /\ inbox'[f] = << >>
      BY <1>7, <2>4 DEF Crash, TypeOK
    <3>2. InOrder(<< >>, kv[f][k], k, leader_kv[k])
      BY <2>2 DEF InOrder
    <3> QED BY <1>1, <1>4, <2>1, <3>1, <3>2 DEF Fresh
  <2> QED BY <2>3, <2>4
<1> QED BY <1>6, <1>7

-----------------------------------------------------------------------------
(* The invariant is inductive                                              *)

LEMMA InitSyncInv == Init => SyncInv
<1> SUFFICES ASSUME Init PROVE SyncInv
  OBVIOUS
<1>1. ASSUME NEW f \in Follower, NEW k \in Key PROVE Fresh(f, k)
  BY <1>1 DEF Init, Empty, Fresh, InOrder, Reaches
<1>2. FreshUnlessRaced /\ DeafIsRecorded /\ OneAnswer /\ Numbered
  BY <1>1 DEF Init, Empty, FreshUnlessRaced, DeafIsRecorded, OneAnswer, Numbered
<1> QED BY <1>2 DEF SyncInv

\* The steps that touch neither a store nor a queue.
LEMMA QuietFresh ==
    ASSUME TypeOK, SyncInv,
           NEW f \in Follower, NEW k \in Key, k \notin raced[f],
           \/ \E w \in writes : Respond(w)
           \/ \E g \in Follower : ReceiveHeartBeat(g) \/ MarkDead(g) \/ Boot(g)
           \/ UNCHANGED vars
    PROVE  Fresh(f, k)'
<1>1. /\ UNCHANGED <<leader_kv, answering, kv, up, inbox, snapped>>
      /\ writes' \subseteq writes
      /\ \A w \in writes : w \notin writes' => w.unread \cup w.sending = {}
  BY DEF Respond, ReceiveHeartBeat, MarkDead, Boot, Listen, PullLeaderData, vars,
     leader, follower
<1>2. Fresh(f, k)
  BY DEF SyncInv, FreshUnlessRaced
<1>3. (Answered(f)' <=> Answered(f)) /\ (Unsent(k, f) => Unsent(k, f)')
  BY <1>1 DEF Answered, Unsent
<1>4. /\ \A w \in writes' : Waits(w, k, f) => w.value = leader_kv[k]
      /\ \A a \in answering' : a.to = f => a.data[k] = leader_kv[k]
  BY <1>1, <1>2 DEF Fresh
<1> QED BY <1>1, <1>2, <1>3, <1>4, FreshKept

LEMMA NextFresh ==
    ASSUME TypeOK, SyncInv, [Next]_vars
    PROVE  FreshUnlessRaced'
<1> SUFFICES ASSUME NEW f \in Follower, NEW k \in Key, k \notin raced'[f]
             PROVE  Fresh(f, k)'
  BY DEF FreshUnlessRaced
<1>1. k \notin raced[f]
  BY RacedGrows
<1>2. CASE Handle
  <2>1. PICK w \in writes : \/ \E g \in Follower : Launch(w, g) \/ Push(w, g)
                            \/ Respond(w)
    BY <1>2 DEF Handle
  <2> QED BY <1>1, <2>1, LaunchFresh, PushFresh, QuietFresh
<1>3. ASSUME NEW g \in Follower, Start(g) \/ Crash(g) PROVE Fresh(f, k)'
  BY <1>1, <1>3, CycleFresh
<1>4. ASSUME NEW g \in Follower, ReceiveHeartBeat(g) \/ MarkDead(g) \/ Boot(g)
      PROVE  Fresh(f, k)'
  BY <1>1, <1>4, QuietFresh
<1>5. ASSUME NEW g \in Follower, Receive(g) PROVE Fresh(f, k)'
  BY <1>1, <1>5, ReceiveFresh
<1>6. CASE UNCHANGED vars
  BY <1>1, <1>6, QuietFresh
<1>7. CASE TakeSnapshot
  BY <1>1, <1>7, TakeSnapshotFresh
<1>8. CASE SendSnapshot
  BY <1>1, <1>8, SendSnapshotFresh
<1>9. ASSUME NEW key \in Key, PutKey(key) PROVE Fresh(f, k)'
  BY <1>9, PutKeyFresh
<1> QED BY <1>2, <1>3, <1>4, <1>5, <1>6, <1>7, <1>8, <1>9 DEF Next

LEMMA NextDeaf ==
    ASSUME TypeOK, SyncInv, [Next]_vars
    PROVE  DeafIsRecorded'
<1> SUFFICES ASSUME NEW f \in Follower, Answered(f)', ~listening'[f]
             PROVE  raced'[f] = Key
  BY DEF DeafIsRecorded
<1>1. raced[f] = Key => raced'[f] = Key
  <2>1. TypeOK'
    BY NextTyped
  <2> QED BY <2>1, RacedGrows DEF TypeOK
<1>2. Answered(f) /\ ~listening[f] => raced[f] = Key
  BY DEF SyncInv, DeafIsRecorded
<1>3. CASE SendSnapshot
  <2>1. PICK a \in answering :
          /\ ~listening[a.to] => Misses(a.to, Key)
          /\ UNCHANGED <<up, listening, snapped>>
    BY <1>3 DEF SendSnapshot, Send
  <2>2. up[f] /\ snapped[f] /\ ~listening[f]
    BY <2>1 DEF Answered
  <2>3. CASE f = a.to
    <3>1. Misses(f, Key)
      BY <2>1, <2>2, <2>3
    <3>2. raced' = [raced EXCEPT ![f] = @ \cup Key]
      BY <2>2, <3>1 DEF Misses
    <3>3. raced'[f] = raced[f] \cup Key /\ raced[f] \subseteq Key
      BY <3>2 DEF TypeOK
    <3> QED BY <3>3
  <2>4. CASE f # a.to
    <3>1. Answered(f)
      BY <2>2, <2>4 DEF Answered, SyncInv, OneAnswer
    <3> QED BY <1>1, <1>2, <2>2, <3>1
  <2> QED BY <2>3, <2>4
<1>4. CASE TakeSnapshot
  <2>1. f # Head(requests)
    BY <1>4 DEF TakeSnapshot, Answered
  <2>2. Answered(f) /\ ~listening[f]
    BY <1>4, <2>1 DEF TakeSnapshot, Answered, follower, TypeOK
  <2> QED BY <1>1, <1>2, <2>2
<1>5. ASSUME NEW g \in Follower,
             Start(g) \/ Crash(g) \/ Boot(g) \/ ReceiveHeartBeat(g) \/ MarkDead(g)
      PROVE  raced'[f] = Key
  <2>1. Answered(f) /\ ~listening[f]
    BY <1>5 DEF Start, Crash, Boot, Listen, PullLeaderData, ReceiveHeartBeat,
       MarkDead, Answered, leader, follower, TypeOK
  <2> QED BY <1>1, <1>2, <2>1
<1>6. ASSUME UNCHANGED <<answering, up, snapped, listening>> PROVE raced'[f] = Key
  BY <1>1, <1>2, <1>6 DEF Answered
<1>7. CASE Handle
  BY <1>6, <1>7 DEF Handle, Launch, Push, Respond, follower
<1>8. ASSUME NEW k \in Key, PutKey(k) PROVE raced'[f] = Key
  BY <1>6, <1>8 DEF PutKey, follower
<1>9. ASSUME NEW g \in Follower, Receive(g) PROVE raced'[f] = Key
  BY <1>6, <1>9 DEF Receive, ReceivePush, ReceiveSyncResponse, leader
<1>10. CASE UNCHANGED vars
  BY <1>6, <1>10 DEF vars, leader, follower
<1> QED BY <1>3, <1>4, <1>5, <1>7, <1>8, <1>9, <1>10 DEF Next

LEMMA NextOneAnswer ==
    ASSUME TypeOK, SyncInv, [Next]_vars
    PROVE  OneAnswer'
<1>1. CASE TakeSnapshot
  BY <1>1 DEF TakeSnapshot, OneAnswer
<1>2. CASE SendSnapshot
  BY <1>2 DEF SendSnapshot, OneAnswer
<1>3. ASSUME UNCHANGED answering PROVE OneAnswer'
  BY <1>3 DEF SyncInv, OneAnswer
<1>4. CASE Handle
  BY <1>3, <1>4 DEF Handle, Launch, Push, Respond
<1>5. ASSUME NEW k \in Key, PutKey(k) PROVE OneAnswer'
  BY <1>3, <1>5 DEF PutKey
<1>6. ASSUME NEW f \in Follower,
             \/ ReceiveHeartBeat(f) \/ MarkDead(f) \/ Start(f) \/ Boot(f)
             \/ Receive(f) \/ Crash(f)
      PROVE  OneAnswer'
  BY <1>3, <1>6 DEF ReceiveHeartBeat, MarkDead, Start, Boot, Listen, PullLeaderData,
     Receive, ReceivePush, ReceiveSyncResponse, Crash, leader
<1>7. CASE UNCHANGED vars
  BY <1>3, <1>7 DEF vars, leader
<1> QED BY <1>1, <1>2, <1>4, <1>5, <1>6, <1>7 DEF Next

LEMMA NextNumbered ==
    ASSUME TypeOK, SyncInv, [Next]_vars
    PROVE  Numbered'
<1>1. ASSUME NEW key \in Key, PutKey(key) PROVE Numbered'
  <2>1. ASSUME NEW k \in Key PROVE leader_kv'[k] <= puts'
    <3>1. leader_kv[k] \in Nat /\ puts \in Nat /\ leader_kv[k] <= puts
      BY SyncAssumption DEF TypeOK, Store, SyncInv, Numbered
    <3>2. leader_kv'[k] = puts' \/ leader_kv'[k] = leader_kv[k]
      BY <1>1 DEF PutKey, TypeOK, Store
    <3>3. puts' = puts + 1
      BY <1>1 DEF PutKey
    <3> QED BY <3>1, <3>2, <3>3
  <2> QED BY <2>1 DEF Numbered
<1>2. ASSUME UNCHANGED <<leader_kv, puts>> PROVE Numbered'
  BY <1>2 DEF SyncInv, Numbered
<1>3. CASE Handle
  BY <1>2, <1>3 DEF Handle, Launch, Push, Respond
<1>4. CASE TakeSnapshot \/ SendSnapshot
  BY <1>2, <1>4 DEF TakeSnapshot, SendSnapshot
<1>5. ASSUME NEW f \in Follower,
             \/ ReceiveHeartBeat(f) \/ MarkDead(f) \/ Start(f) \/ Boot(f)
             \/ Receive(f) \/ Crash(f)
      PROVE  Numbered'
  BY <1>2, <1>5 DEF ReceiveHeartBeat, MarkDead, Start, Boot, Listen, PullLeaderData,
     Receive, ReceivePush, ReceiveSyncResponse, Crash, leader
<1>6. CASE UNCHANGED vars
  BY <1>2, <1>6 DEF vars, leader
<1> QED BY <1>1, <1>3, <1>4, <1>5, <1>6 DEF Next

LEMMA NextSyncInv == TypeOK /\ SyncInv /\ [Next]_vars => SyncInv'
BY NextFresh, NextDeaf, NextOneAnswer, NextNumbered DEF SyncInv

LEMMA SyncInvariant == Spec => [](TypeOK /\ SyncInv)
BY InitTyped, InitSyncInv, NextTyped, NextSyncInv, PTL DEF Spec

\* A follower that was answered, has handled its queue and is not waited for by a PUT
\* agrees with its leader on every key on which no race and no loss is recorded
\* (push_to_followers, push_leader_data, pull_leader_data, receive_push,
\* set_kv_batch), whichever messages are refused or cut off: with an empty queue, the
\* last word has been applied, or its loss was recorded.
THEOREM FollowersAgree == Spec => []DivergenceNeedsRace
<1>1. TypeOK /\ SyncInv => DivergenceNeedsRace
  <2> SUFFICES ASSUME SyncInv, NEW f \in Follower, NEW k \in Key,
                      Settled(f, k), k \notin raced[f]
               PROVE  kv[f][k] = leader_kv[k]
    BY DEF DivergenceNeedsRace
  <2>1. Answered(f) /\ ~Unsent(k, f) /\ inbox[f] = << >>
    BY DEF Settled, Answered
  <2>2. Reaches(<< >>, kv[f][k], k, leader_kv[k])
    BY <2>1 DEF SyncInv, FreshUnlessRaced, Fresh
  <2> QED BY <2>2 DEF Reaches
<1> QED BY <1>1, SyncInvariant, PTL

\* No step of a running follower takes a key on which no race is recorded back to an
\* older value (receive_push, receive_sync_response): its queue only ever rises.
THEOREM FollowersRise == Spec => FollowerMonotonic
<1>1. TypeOK /\ SyncInv /\ [Next]_vars
        => [\A f \in Follower, k \in Key :
               up[f] /\ k \notin raced'[f] => kv'[f][k] >= kv[f][k]]_vars
  <2> SUFFICES ASSUME TypeOK, SyncInv, [Next]_vars, NEW f \in Follower, NEW k \in Key,
                      up[f], k \notin raced'[f]
               PROVE  kv'[f][k] >= kv[f][k]
    OBVIOUS
  <2>1. k \notin raced[f]
    BY RacedGrows
  <2>2. ASSUME NEW g \in Follower, Receive(g) PROVE kv'[f][k] >= kv[f][k]
    BY <2>1, <2>2, ReceiveFresh
  <2>3. ASSUME NEW g \in Follower, Start(g) PROVE kv'[f] = kv[f]
    BY <2>3 DEF Start, TypeOK
  <2>4. ASSUME NEW g \in Follower,
               ReceiveHeartBeat(g) \/ MarkDead(g) \/ Boot(g) \/ Crash(g)
        PROVE  kv'[f] = kv[f]
    BY <2>4 DEF ReceiveHeartBeat, MarkDead, Boot, Listen, PullLeaderData, Crash, follower
  <2>5. ASSUME Handle PROVE kv'[f] = kv[f]
    BY <2>5 DEF Handle, Launch, Push, Respond, follower
  <2>6. ASSUME TakeSnapshot \/ SendSnapshot \/ UNCHANGED vars PROVE kv'[f] = kv[f]
    BY <2>6 DEF TakeSnapshot, SendSnapshot, vars, follower
  <2>7. ASSUME NEW key \in Key, PutKey(key) PROVE kv'[f] = kv[f]
    BY <2>7 DEF PutKey, follower
  <2>8. kv'[f] = kv[f] => kv'[f][k] >= kv[f][k]
    BY ValuesTyped
  <2>9. kv'[f] = kv[f] \/ kv'[f][k] >= kv[f][k]
    BY <2>2, <2>3, <2>4, <2>5, <2>6, <2>7 DEF Next
  <2> QED BY <2>8, <2>9
<1> QED BY <1>1, SyncInvariant, PTL DEF Spec, FollowerMonotonic

=============================================================================
