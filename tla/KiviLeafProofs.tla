--------------------------- MODULE KiviLeafProofs ---------------------------
(***************************************************************************)
(* Proofs about KiviLeaf.                                                  *)
(*                                                                         *)
(* Type correctness; that until somebody boots again the data leaves the   *)
(* election alone, every step being a step of LocalCluster or none once    *)
(* the messages are seen without their data (ImplementsLocalCluster); and, *)
(* from the theorems of LocalClusterProofs through that refinement, that   *)
(* writes in progress stay with the leader (WritesStayWithLeader).         *)
(*                                                                         *)
(* Once nodes boot again the refinement says nothing.  There the argument  *)
(* is about the nodes that have stayed, up and not booted again since the  *)
(* start (StayedInv): everybody marks them alive, so whoever is elected is *)
(* lower than all of them, and among three nodes there is nobody else whom *)
(* a follower of such a leader could hear a notice of.                     *)
(*                                                                         *)
(* Three invariants are about the data.  OutliveInv: before a crash all    *)
(* have what is acknowledged, or have lost a push of it, after it somebody *)
(* has.  DataInv: until somebody boots again, the pushes of a key wait in  *)
(* the order of their values, also where an old and a new leader pushed.   *)
(* SurvivalInv: after one crash whoever may lead has, or is about to take, *)
(* what is acknowledged, unless a push of it was lost.                     *)
(***************************************************************************)
EXTENDS KiviLeaf, FiniteSetTheorems, SequenceTheorems, WellFoundedInduction, TLAPS

-----------------------------------------------------------------------------
(* Queues seen without the data                                            *)

Proven == INSTANCE LocalClusterProofs WITH inbox <- [n \in Node |-> Bare(inbox[n])]

\* What holds of 0 and passes from each number to the next holds of all.
LEMMA CountUp ==
    ASSUME NEW T, NEW n \in Nat, 0 \in T, \A i \in 0..(n - 1) : i \in T => i + 1 \in T
    PROVE  \A i \in 0..n : i \in T
<1> DEFINE missing == {i \in Nat : i <= n /\ i \notin T}
<1> SUFFICES missing = {}
  OBVIOUS
<1> SUFFICES ASSUME missing # {} PROVE FALSE
  OBVIOUS
<1>1. missing \subseteq Nat
  OBVIOUS
<1>2. PICK i \in missing : \A j \in missing : ~(<<j, i>> \in OpToRel(<, Nat))
  BY <1>1, NatLessThanWellFounded, WFMin
<1>3. \A j \in missing : ~(j < i)
  BY <1>1, <1>2 DEF OpToRel
<1>4. i \in Nat /\ i <= n /\ i \notin T /\ i # 0
  BY <1>2
<1> HIDE <1>2
<1>5. i - 1 \in 0..(n - 1) /\ i - 1 + 1 = i /\ i - 1 \in Nat /\ i - 1 <= n /\ i - 1 < i
  BY <1>4
<1>6. i - 1 \in T
  BY <1>3, <1>5
<1> QED BY <1>4, <1>5, <1>6

\* One step of the recursion of Bare.
Extend(queue, f, i) ==
    IF i = 0 THEN << >>
    ELSE IF queue[i].type = "LOCAL_SYNC_PUSH" THEN f[i - 1]
    ELSE Append(f[i - 1], [type |-> queue[i].type, from |-> queue[i].from])

\* f maps each length to what that much of the queue leaves.
Strips(queue, f, n) == f = [i \in 0..n |-> Extend(queue, f, i)]

LEMMA StripsExists ==
    ASSUME NEW queue, NEW n \in Nat
    PROVE  \E f : Strips(queue, f, n)
<1> DEFINE T == {i \in Nat : \E f : Strips(queue, f, i)}
<1>1. 0 \in T
  <2> DEFINE f == [i \in 0..0 |-> << >>]
  <2>1. Strips(queue, f, 0)
    BY DEF Strips, Extend
  <2> QED BY <2>1
<1>2. ASSUME NEW m \in 0..(n - 1), m \in T PROVE m + 1 \in T
  <2>1. PICK f : Strips(queue, f, m)
    BY <1>2
  <2> DEFINE g == [i \in 0..(m + 1) |-> IF i <= m THEN f[i] ELSE Extend(queue, f, i)]
  <2>2. ASSUME NEW i \in 0..(m + 1) PROVE g[i] = Extend(queue, g, i)
    <3>1. i # 0 => g[i - 1] = f[i - 1]
      OBVIOUS
    <3>2. Extend(queue, g, i) = Extend(queue, f, i)
      BY <3>1 DEF Extend
    <3>3. i <= m => f[i] = Extend(queue, f, i)
      BY <2>1 DEF Strips
    <3> QED BY <3>2, <3>3
  <2>3. g = [i \in 0..(m + 1) |-> Extend(queue, g, i)]
    BY <2>2
  <2>4. Strips(queue, g, m + 1)
    BY <2>3 DEF Strips
  <2> HIDE DEF g
  <2> QED BY <2>4
<1> HIDE DEF T
<1>3. n \in T
  BY <1>1, <1>2, CountUp
<1> QED BY <1>3 DEF T

LEMMA BareStrips ==
    ASSUME NEW queue, Len(queue) \in Nat
    PROVE  \E f : Strips(queue, f, Len(queue)) /\ Bare(queue) = f[Len(queue)]
<1> DEFINE F == CHOOSE f : f = [i \in 0..Len(queue) |-> Extend(queue, f, i)]
<1>1. Bare(queue) = F[Len(queue)]
  BY DEF Bare, Extend
<1>2. Strips(queue, F, Len(queue))
  BY StripsExists DEF Strips
<1> QED BY <1>1, <1>2

Strip(msg) == [type |-> msg.type, from |-> msg.from]

LEMMA StripsStep ==
    ASSUME NEW queue, NEW f, NEW n \in Nat, Strips(queue, f, n)
    PROVE  /\ f[0] = << >>
           /\ \A i \in 0..(n - 1) :
                 f[i + 1] = IF queue[i + 1].type = "LOCAL_SYNC_PUSH" THEN f[i]
                            ELSE Append(f[i], Strip(queue[i + 1]))
<1>1. \A i \in 0..n : f[i] = Extend(queue, f, i)
  BY DEF Strips
<1>2. f[0] = << >>
  <2>1. f[0] = Extend(queue, f, 0)
    BY <1>1
  <2> QED BY <2>1 DEF Extend
<1>3. ASSUME NEW i \in 0..(n - 1)
      PROVE  f[i + 1] = IF queue[i + 1].type = "LOCAL_SYNC_PUSH" THEN f[i]
                        ELSE Append(f[i], Strip(queue[i + 1]))
  <2>1. i + 1 \in 0..n /\ i + 1 # 0 /\ i + 1 - 1 = i
    OBVIOUS
  <2>2. f[i + 1] = Extend(queue, f, i + 1)
    BY <1>1, <2>1
  <2> QED BY <2>1, <2>2 DEF Extend, Strip
<1> QED BY <1>2, <1>3

BareMessage == [type : {"SELF_PROMOTION", "SYNC_REQUEST", "SYNC_RESPONSE"}, from : Node]

\* What the messages of a queue come to without the data.
Stripped(queue) ==
    {Strip(msg) : msg \in {x \in Range(queue) : x.type # "LOCAL_SYNC_PUSH"}}

LEMMA StripTyped ==
    ASSUME NEW msg \in Message, msg.type # "LOCAL_SYNC_PUSH"
    PROVE  Strip(msg) \in BareMessage
BY DEF Message, BareMessage, Strip

LEMMA StripsTyped ==
    ASSUME NEW queue \in Seq(Message), NEW f, Strips(queue, f, Len(queue))
    PROVE  \A i \in 0..Len(queue) : f[i] \in Seq(Stripped(queue))
<1> DEFINE n == Len(queue)
           T == {i \in Nat : f[i] \in Seq(Stripped(queue))}
<1>1. n \in Nat
  OBVIOUS
<1>2. 0 \in T
  <2>1. f[0] = << >>
    BY <1>1, StripsStep
  <2>2. f[0] \in Seq(Stripped(queue))
    BY <2>1, EmptySeq
  <2> QED BY <2>2
<1>3. ASSUME NEW i \in 0..(n - 1), i \in T PROVE i + 1 \in T
  <2>1. i + 1 \in 1..n /\ queue[i + 1] \in Range(queue)
    BY <1>1 DEF Range
  <2>2. f[i + 1] = IF queue[i + 1].type = "LOCAL_SYNC_PUSH" THEN f[i]
                   ELSE Append(f[i], Strip(queue[i + 1]))
    BY <1>1, StripsStep
  <2>3. queue[i + 1].type # "LOCAL_SYNC_PUSH" => Strip(queue[i + 1]) \in Stripped(queue)
    BY <2>1 DEF Stripped
  <2>4. f[i + 1] \in Seq(Stripped(queue))
    BY <1>3, <2>2, <2>3
  <2> QED BY <2>1, <2>4
<1> HIDE DEF T
<1>4. \A i \in 0..n : i \in T
  BY <1>1, <1>2, <1>3, CountUp
<1> QED BY <1>4 DEF T

LEMMA BareTyped ==
    ASSUME NEW queue \in Seq(Message)
    PROVE  /\ Bare(queue) \in Seq(BareMessage)
           /\ Range(Bare(queue)) \subseteq Stripped(queue)
<1>1. Len(queue) \in Nat
  OBVIOUS
<1>2. Bare(queue) \in Seq(Stripped(queue))
  BY <1>1, BareStrips, StripsTyped
<1>3. Stripped(queue) \subseteq BareMessage
  <2>1. Range(queue) \subseteq Message
    BY DEF Range
  <2> QED BY <2>1, StripTyped DEF Stripped
<1> QED BY <1>2, <1>3, SeqMonotonic DEF Range

LEMMA BareEmpty == Bare(<< >>) = << >>
<1>1. Len(<< >>) = 0
  OBVIOUS
<1> QED BY <1>1, BareStrips, StripsStep

LEMMA BareAppend ==
    ASSUME NEW queue \in Seq(Message), NEW msg \in Message
    PROVE  Bare(Append(queue, msg)) = IF msg.type = "LOCAL_SYNC_PUSH" THEN Bare(queue)
                                      ELSE Append(Bare(queue), Strip(msg))
<1> DEFINE n == Len(queue)
           longer == Append(queue, msg)
<1>1. /\ n \in Nat /\ Len(longer) = n + 1
      /\ \A i \in 1..n : longer[i] = queue[i]
      /\ longer[n + 1] = msg
  OBVIOUS
<1> HIDE DEF longer
<1>2. PICK f : Strips(queue, f, n) /\ Bare(queue) = f[n]
  BY <1>1, BareStrips
<1>3. PICK g : Strips(longer, g, n + 1) /\ Bare(longer) = g[n + 1]
  BY <1>1, BareStrips
<1> DEFINE T == {i \in Nat : f[i] = g[i]}
<1> HIDE DEF n
<1>4. 0 \in T
  BY <1>1, <1>2, <1>3, StripsStep
<1>5. ASSUME NEW i \in 0..(n - 1), i \in T PROVE i + 1 \in T
  <2>1. i \in 0..(n + 1 - 1) /\ longer[i + 1] = queue[i + 1] /\ i + 1 \in Nat
    BY <1>1
  <2>2. f[i + 1] = IF queue[i + 1].type = "LOCAL_SYNC_PUSH" THEN f[i]
                   ELSE Append(f[i], Strip(queue[i + 1]))
    BY <1>1, <1>2, StripsStep
  <2>3. g[i + 1] = IF longer[i + 1].type = "LOCAL_SYNC_PUSH" THEN g[i]
                   ELSE Append(g[i], Strip(longer[i + 1]))
    <3> DEFINE m == n + 1
    <3>1. m \in Nat /\ Strips(longer, g, m) /\ i \in 0..(m - 1)
      BY <1>1, <1>3, <2>1
    <3> HIDE DEF m
    <3>2. \A j \in 0..(m - 1) :
             g[j + 1] = IF longer[j + 1].type = "LOCAL_SYNC_PUSH" THEN g[j]
                        ELSE Append(g[j], Strip(longer[j + 1]))
      BY <3>1, StripsStep
    <3> QED BY <3>1, <3>2
  <2> QED BY <1>5, <2>1, <2>2, <2>3
<1> HIDE DEF T
<1>6. n \in T
  <2>1. \A i \in 0..n : i \in T
    BY <1>1, <1>4, <1>5, CountUp
  <2> QED BY <1>1, <2>1
<1>7. g[n + 1] = IF msg.type = "LOCAL_SYNC_PUSH" THEN g[n] ELSE Append(g[n], Strip(msg))
  <2>1. n + 1 \in Nat /\ n \in 0..(n + 1 - 1)
    BY <1>1
  <2> QED BY <1>1, <1>3, <2>1, StripsStep
<1> QED BY <1>2, <1>3, <1>6, <1>7 DEF T, longer

\* The first message of a queue leaves it alone, or is the first of what is left.
LEMMA BareTail ==
    ASSUME NEW queue \in Seq(Message), queue # << >>
    PROVE  /\ Head(queue).type = "LOCAL_SYNC_PUSH" => Bare(queue) = Bare(Tail(queue))
           /\ Head(queue).type # "LOCAL_SYNC_PUSH" =>
                 /\ Bare(queue) # << >>
                 /\ Head(Bare(queue)) = Strip(Head(queue))
                 /\ Tail(Bare(queue)) = Bare(Tail(queue))
<1> DEFINE n == Len(queue) - 1
           rest == Tail(queue)
           first == Head(queue)
<1>1. /\ n \in Nat /\ Len(queue) = n + 1 /\ Len(rest) = n
      /\ rest \in Seq(Message) /\ first \in Message
      /\ \A i \in 1..n : rest[i] = queue[i + 1]
      /\ queue[1] = first
  OBVIOUS
<1> HIDE DEF rest, first
<1>2. PICK f : Strips(queue, f, n + 1) /\ Bare(queue) = f[n + 1]
  BY <1>1, BareStrips
<1>3. PICK g : Strips(rest, g, n) /\ Bare(rest) = g[n]
  BY <1>1, BareStrips
<1>4. \A i \in 0..(n + 1) : f[i] \in Seq(Stripped(queue))
  BY <1>1, <1>2, StripsTyped
<1> DEFINE Same(i) ==
             IF first.type = "LOCAL_SYNC_PUSH" THEN f[i + 1] = g[i]
             ELSE f[i + 1] # << >> /\ Head(f[i + 1]) = Strip(first) /\ Tail(f[i + 1]) = g[i]
           T == {i \in Nat : Same(i)}
<1> HIDE DEF n
<1>5. 0 \in T
  <2>1. f[0] = << >> /\ g[0] = << >>
    BY <1>1, <1>2, <1>3, StripsStep
  <2>2. 0 \in 0..(n + 1 - 1) /\ 0 + 1 = 1
    BY <1>1
  <2>3. f[1] = IF first.type = "LOCAL_SYNC_PUSH" THEN f[0] ELSE Append(f[0], Strip(first))
    BY <1>1, <1>2, <2>2, StripsStep
  <2>4. first.type # "LOCAL_SYNC_PUSH" =>
           f[1] # << >> /\ Head(f[1]) = Strip(first) /\ Tail(f[1]) = << >>
    <3>1. ASSUME NEW S, NEW x \in S
          PROVE  Append(<< >>, x) # << >> /\ Head(Append(<< >>, x)) = x /\ Tail(Append(<< >>, x)) = << >>
      BY EmptySeq, HeadTailAppend, AppendProperties
    <3>2. first.type # "LOCAL_SYNC_PUSH" => Strip(first) \in BareMessage
      BY <1>1, StripTyped
    <3> QED BY <2>1, <2>3, <3>1, <3>2
  <2>5. 0 + 1 = 1
    OBVIOUS
  <2>6. Same(0)
    BY <2>1, <2>3, <2>4, <2>5
  <2> QED BY <2>6
<1>6. ASSUME NEW i \in 0..(n - 1), i \in T PROVE i + 1 \in T
  <2>1. /\ i + 1 \in 0..(n + 1 - 1) /\ i + 1 \in 1..n /\ i + 1 \in Nat
        /\ i + 1 \in 0..(n + 1) /\ i + 1 + 1 \in 1..(n + 1) /\ i \in 0..n
    BY <1>1
  <2>2. rest[i + 1] = queue[i + 1 + 1]
    BY <1>1, <2>1
  <2> DEFINE msg == rest[i + 1]
  <2>3. f[i + 1 + 1] = IF msg.type = "LOCAL_SYNC_PUSH" THEN f[i + 1]
                       ELSE Append(f[i + 1], Strip(msg))
    BY <1>1, <1>2, <2>1, <2>2, StripsStep
  <2>4. g[i + 1] = IF msg.type = "LOCAL_SYNC_PUSH" THEN g[i]
                   ELSE Append(g[i], Strip(msg))
    <3>1. n \in Nat /\ Strips(rest, g, n)
      BY <1>1, <1>3
    <3> QED BY <3>1, StripsStep
  <2>5. f[i + 1] \in Seq(Stripped(queue))
    BY <1>4, <2>1
  <2>6. msg.type # "LOCAL_SYNC_PUSH" => Strip(msg) \in Stripped(queue)
    <3>1. i + 1 + 1 \in DOMAIN queue
      BY <1>1, <2>1
    <3>2. msg \in Range(queue)
      BY <2>2, <3>1 DEF Range
    <3> QED BY <3>2 DEF Stripped
  <2> HIDE DEF msg
  <2>7. Same(i)
    BY <1>6
  <2>8. CASE msg.type = "LOCAL_SYNC_PUSH"
    BY <2>1, <2>3, <2>4, <2>7, <2>8
  <2>9. CASE msg.type # "LOCAL_SYNC_PUSH"
    <3>1. f[i + 1 + 1] = Append(f[i + 1], Strip(msg)) /\ g[i + 1] = Append(g[i], Strip(msg))
      BY <2>3, <2>4, <2>9
    <3>2. CASE first.type = "LOCAL_SYNC_PUSH"
      BY <2>1, <2>7, <3>1, <3>2
    <3>3. CASE first.type # "LOCAL_SYNC_PUSH"
      <4>1. f[i + 1] # << >> /\ Head(f[i + 1]) = Strip(first) /\ Tail(f[i + 1]) = g[i]
        BY <2>7, <3>3
      <4>2. /\ f[i + 1 + 1] # << >>
            /\ Head(f[i + 1 + 1]) = Head(f[i + 1])
            /\ Tail(f[i + 1 + 1]) = Append(Tail(f[i + 1]), Strip(msg))
        <5>1. Strip(msg) \in Stripped(queue)
          BY <2>6, <2>9
        <5>2. Append(f[i + 1], Strip(msg)) # << >>
          BY <2>5, <5>1, AppendProperties
        <5> QED BY <2>5, <3>1, <4>1, <5>2, HeadTailAppend
      <4>3. Same(i + 1)
        BY <3>1, <3>3, <4>1, <4>2
      <4> QED BY <2>1, <4>3
    <3> QED BY <3>2, <3>3
  <2> QED BY <2>8, <2>9
<1> HIDE DEF T
<1>7. n \in T
  <2>1. \A i \in 0..n : i \in T
    BY <1>1, <1>5, <1>6, CountUp
  <2> QED BY <1>1, <2>1
<1>8. Same(n)
  BY <1>7 DEF T
<1> QED BY <1>1, <1>2, <1>3, <1>8 DEF rest, first

-----------------------------------------------------------------------------
(* The queues of the nodes                                                 *)

BareQueues(queues) == [n \in Node |-> Bare(queues[n])]

\* A queue of these grows at its end.
Appended(queues, to, msg) == [queues EXCEPT ![to] = Append(@, msg)]

LEMMA AppendedBare ==
    ASSUME NEW queues \in [Node -> Seq(Message)], NEW to \in Node, NEW msg \in Message
    PROVE  /\ Appended(queues, to, msg) \in [Node -> Seq(Message)]
           /\ msg.type = "LOCAL_SYNC_PUSH"
                => BareQueues(Appended(queues, to, msg)) = BareQueues(queues)
           /\ msg.type # "LOCAL_SYNC_PUSH"
                => BareQueues(Appended(queues, to, msg))
                     = [BareQueues(queues) EXCEPT ![to] = Append(@, Strip(msg))]
<1> DEFINE sent == Appended(queues, to, msg)
<1>1. sent = [queues EXCEPT ![to] = Append(@, msg)]
  BY DEF Appended
<1>2. sent \in [Node -> Seq(Message)] /\ sent[to] = Append(queues[to], msg)
  BY <1>1
<1>3. \A n \in Node : n # to => sent[n] = queues[n]
  BY <1>1
<1> HIDE DEF sent
<1>4. /\ msg.type = "LOCAL_SYNC_PUSH" => Bare(sent[to]) = Bare(queues[to])
      /\ msg.type # "LOCAL_SYNC_PUSH" => Bare(sent[to]) = Append(Bare(queues[to]), Strip(msg))
  BY <1>2, BareAppend
<1>5. msg.type = "LOCAL_SYNC_PUSH" => BareQueues(sent) = BareQueues(queues)
  BY <1>3, <1>4 DEF BareQueues
<1>6. msg.type # "LOCAL_SYNC_PUSH"
        => BareQueues(sent) = [BareQueues(queues) EXCEPT ![to] = Append(@, Strip(msg))]
  BY <1>3, <1>4 DEF BareQueues
<1> QED BY <1>2, <1>5, <1>6 DEF sent

\* A send arrives or is lost.
LEMMA SendArrives ==
    ASSUME NEW queues, NEW to, NEW msg, NEW follower,
           Failover!Send(queues, to, msg, follower)
    PROVE  inbox' = queues \/ (up[to] /\ inbox' = Appended(queues, to, msg))
BY DEF Failover!Send, Appended

LEMMA SendTyped ==
    ASSUME NEW queues \in [Node -> Seq(Message)], NEW to \in Node, NEW msg \in Message,
           NEW follower \in Node, missed \subseteq Node,
           Failover!Send(queues, to, msg, follower)
    PROVE  /\ inbox' \in [Node -> Seq(Message)]
           /\ missed' \subseteq Node
<1>1. Appended(queues, to, msg) \in [Node -> Seq(Message)]
  BY AppendedBare
<1>2. inbox' \in [Node -> Seq(Message)]
  BY <1>1, SendArrives
<1> QED BY <1>2 DEF Failover!Send

\* The same send without the data.
LEMMA SendBare ==
    ASSUME NEW queues \in [Node -> Seq(Message)], NEW to \in Node, NEW msg \in Message,
           NEW follower \in Node, msg.type # "LOCAL_SYNC_PUSH",
           Failover!Send(queues, to, msg, follower)
    PROVE  Leadership!Send(BareQueues(queues), to, Strip(msg), follower)
<1>1. CASE up[to] /\ inbox' = Appended(queues, to, msg) /\ UNCHANGED missed
  <2>1. BareQueues(inbox') = [BareQueues(queues) EXCEPT ![to] = Append(@, Strip(msg))]
    <3>1. BareQueues(Appended(queues, to, msg))
            = [BareQueues(queues) EXCEPT ![to] = Append(BareQueues(queues)[to], Strip(msg))]
      BY AppendedBare
    <3>2. BareQueues(inbox') = BareQueues(Appended(queues, to, msg))
      BY <1>1
    <3> QED BY <3>1, <3>2
  <2> QED BY <1>1, <2>1 DEF Leadership!Send, BareQueues
<1>2. CASE /\ inbox' = queues
           /\ missed' = IF up[to] THEN missed \cup {follower} ELSE missed
  <2>1. BareQueues(inbox') = BareQueues(queues)
    BY <1>2 DEF BareQueues
  <2> QED BY <1>2, <2>1 DEF Leadership!Send, BareQueues
<1> QED BY <1>1, <1>2 DEF Failover!Send, Appended

LEMMA HandledBare ==
    ASSUME inbox \in [Node -> Seq(Message)], NEW n \in Node, inbox[n] # << >>
    PROVE  /\ Failover!Handled(n) \in [Node -> Seq(Message)]
           /\ Head(inbox[n]) \in Message
           /\ Head(inbox[n]).type = "LOCAL_SYNC_PUSH"
                => BareQueues(Failover!Handled(n)) = BareQueues(inbox)
           /\ Head(inbox[n]).type # "LOCAL_SYNC_PUSH"
                => /\ BareQueues(Failover!Handled(n)) = Leadership!Handled(n)
                   /\ Bare(inbox[n]) # << >>
                   /\ Head(Bare(inbox[n])) = Strip(Head(inbox[n]))
<1> DEFINE handled == Failover!Handled(n)
<1>1. inbox[n] \in Seq(Message) /\ Head(inbox[n]) \in Message /\ Tail(inbox[n]) \in Seq(Message)
  OBVIOUS
<1>2. handled = [inbox EXCEPT ![n] = Tail(@)]
  BY DEF Failover!Handled
<1>3. handled \in [Node -> Seq(Message)] /\ handled[n] = Tail(inbox[n])
  BY <1>1, <1>2
<1>4. \A m \in Node : m # n => handled[m] = inbox[m]
  BY <1>2
<1>5. Leadership!Handled(n) = [BareQueues(inbox) EXCEPT ![n] = Tail(@)]
  BY DEF Leadership!Handled, BareQueues
<1> HIDE DEF handled
<1>6. Head(inbox[n]).type = "LOCAL_SYNC_PUSH" => Bare(handled[n]) = Bare(inbox[n])
  BY <1>1, <1>3, BareTail
<1>7. Head(inbox[n]).type # "LOCAL_SYNC_PUSH"
        => /\ Bare(handled[n]) = Tail(Bare(inbox[n]))
           /\ Bare(inbox[n]) # << >>
           /\ Head(Bare(inbox[n])) = Strip(Head(inbox[n]))
  BY <1>1, <1>3, BareTail
<1>8. Head(inbox[n]).type = "LOCAL_SYNC_PUSH" => BareQueues(handled) = BareQueues(inbox)
  BY <1>4, <1>6 DEF BareQueues
<1>9. Head(inbox[n]).type # "LOCAL_SYNC_PUSH"
        => BareQueues(handled) = [BareQueues(inbox) EXCEPT ![n] = Tail(@)]
  BY <1>4, <1>7 DEF BareQueues
<1> QED BY <1>1, <1>3, <1>5, <1>7, <1>8, <1>9 DEF handled

-----------------------------------------------------------------------------
(* Type correctness                                                        *)

\* The variables of LocalCluster but the queues, whose messages carry data here.
Placed ==
    /\ up \in [Node -> BOOLEAN]
    /\ leaf_role \in [Node -> Failover!KiviLeafRole]
    /\ current_leader_id \in [Node -> Node]
    /\ is_alive \in [Node -> [Node -> BOOLEAN]]
    /\ suspects \in [Node -> SUBSET Node]
    /\ pc \in [Node -> Failover!PC]
    /\ announcing \in [Node -> SUBSET Node]
    /\ source \in [Node -> Node]
    /\ missed \subseteq Node
    /\ mistakes \in 0..MaxMistakes
    /\ crashes \in 0..MaxCrashes

\* A copy of the store that waits to be sent answers the first message of the queue.
Asked == \A n \in Node : answering[n] # {} => Failover!Handles(n, "SYNC_REQUEST")

Typed == TypeOK /\ Placed

LEMMA ClusterHolds ==
    /\ Leadership!Node = Node
    /\ InitLeader \in Node
    /\ Proven!ClusterAssumption
    /\ MaxMistakes \in Nat /\ MaxCrashes \in Nat /\ MaxEvents \in Nat
BY LeafAssumption DEF Node, Failover!Node, Leadership!Node, Proven!Node,
   Proven!ClusterAssumption, Range

\* All modules count alike: an instance of LocalCluster has its own copy of FiniteSets.
LEMMA SameCardinality ==
    \A S : /\ Failover!Cardinality(S) = Cardinality(S)
           /\ Leadership!Cardinality(S) = Cardinality(S)
BY DEF Failover!Cardinality, Leadership!Cardinality, Cardinality, Failover!IsFiniteSet,
   Leadership!IsFiniteSet, IsFiniteSet

LEMMA NodesAreFinite == IsFiniteSet(Node)
<1>1. Cluster \in Seq(Nat) /\ DOMAIN Cluster = 1..Len(Cluster) /\ Len(Cluster) \in Nat
  BY LeafAssumption
<1>2. IsFiniteSet(DOMAIN Cluster)
  BY <1>1, FS_Interval
<1>3. Cluster \in Surjection(DOMAIN Cluster, Node)
  BY <1>1 DEF Node, Failover!Node, Surjection
<1> QED BY <1>2, <1>3, FS_Surjection

LEMMA InitTyped == Init => Typed
<1> SUFFICES ASSUME Init PROVE Typed
  OBVIOUS
<1>1. << >> \in Seq(Message)
  BY EmptySeq
<1>2. Empty \in Store /\ 0 \in Value /\ 0 \in 0..MaxEvents
  BY ClusterHolds DEF Empty, Store, Value
<1>3. TypeOK
  BY <1>1, <1>2 DEF Init, Failover!Init, TypeOK, Node
<1>4. Placed
  BY ClusterHolds DEF Init, Failover!Init, Placed, Node, Failover!KiviLeafRole, Failover!PC
<1> QED BY <1>3, <1>4 DEF Typed

LEMMA ServeTyped ==
    ASSUME Typed, Serve
    PROVE  Typed'
<1> USE DEF Typed
<1>1. ASSUME NEW n \in Node, NEW k \in Key, Admit(n, k) PROVE Typed'
  <2>1. puts' \in Value
    BY <1>1, ClusterHolds DEF Admit, TypeOK, Value
  <2>2. [node |-> n, key |-> k, value |-> puts', stored |-> FALSE, unsent |-> {}] \in Write
    BY <2>1 DEF Write
  <2>3. writes' \in SUBSET Write /\ contended' \in SUBSET Key
    BY <1>1, <2>2 DEF Admit, TypeOK
  <2> QED BY <1>1, <2>1, <2>3 DEF Admit, TypeOK, Placed, cluster
<1>2. ASSUME NEW w \in writes, StorePair(w) PROVE Typed'
  <2>1. w \in Write
    BY DEF TypeOK
  <2>2. [w EXCEPT !.stored = TRUE, !.unsent = Node \ {w.node}] \in Write
    BY <2>1 DEF Write
  <2>3. writes' \in SUBSET Write
    BY <1>2, <2>2 DEF StorePair, Replace, TypeOK
  <2>4. kv' \in [Node -> Store]
    BY <1>2, <2>1 DEF StorePair, TypeOK, Store, Write
  <2> QED BY <1>2, <2>3, <2>4 DEF StorePair, TypeOK, Placed, cluster
<1>3. ASSUME NEW w \in writes, NEW f \in Node, Push(w, f) PROVE Typed'
  <2>1. w \in Write
    BY DEF TypeOK
  <2>2. [w EXCEPT !.unsent = @ \ {f}] \in Write
    BY <2>1 DEF Write
  <2>3. writes' \in SUBSET Write
    BY <1>3, <2>2 DEF Push, Replace, TypeOK
  <2> DEFINE msg == [type |-> "LOCAL_SYNC_PUSH", from |-> w.node, key |-> w.key,
                     value |-> w.value]
  <2>4. msg \in Message
    BY <2>1 DEF Message, Write
  <2>5. inbox' = Appended(inbox, f, msg) \/ inbox' = inbox
    BY <1>3 DEF Push, Appended
  <2> HIDE DEF msg
  <2>6. inbox' \in [Node -> Seq(Message)]
    BY <2>4, <2>5, AppendedBare DEF TypeOK
  <2>7. lost' \in [Node -> SUBSET Key]
    <3>1. w.key \in Key /\ lost \in [Node -> SUBSET Key]
      BY <2>1 DEF Write, TypeOK
    <3>2. lost' = lost \/ lost' = [lost EXCEPT ![f] = @ \cup {w.key}]
      BY <1>3 DEF Push
    <3> QED BY <3>1, <3>2
  <2> QED BY <1>3, <2>3, <2>6, <2>7 DEF Push, TypeOK, Placed
<1>4. ASSUME NEW w \in writes, Respond(w) PROVE Typed'
  <2>1. w.key \in Key /\ w.value \in Value
    BY DEF TypeOK, Write
  <2>2. acked' \in Store /\ writes' \in SUBSET Write
    BY <1>4, <2>1 DEF Respond, TypeOK, Store
  <2> QED BY <1>4, <2>2 DEF Respond, TypeOK, Placed, cluster
<1> QED BY <1>1, <1>2, <1>3, <1>4 DEF Serve

\* The messages that the handlers send.
LEMMA RepliesTyped ==
    ASSUME NEW n \in Node, NEW kvs \in Store
    PROVE  /\ [type |-> "SELF_PROMOTION", from |-> n] \in Message
           /\ [type |-> "SYNC_REQUEST", from |-> n] \in Message
           /\ [type |-> "SYNC_RESPONSE", from |-> n, data |-> kvs] \in Message
BY DEF Message

LEMMA EmptyIsStore == Empty \in Store
BY ClusterHolds DEF Empty, Store, Value

LEMMA ReceiveTyped ==
    ASSUME Typed, Asked, NEW n \in Node, Receive(n)
    PROVE  Typed'
<1> USE DEF Typed
<1>1. /\ inbox \in [Node -> Seq(Message)] /\ missed \subseteq Node
      /\ inbox[n] # << >> => /\ Failover!Handled(n) \in [Node -> Seq(Message)]
                             /\ Head(inbox[n]) \in Message
                             /\ Head(inbox[n]).from \in Node
  BY HandledBare DEF TypeOK, Placed, Message
<1>2. CASE ReceiveSelfPromotion(n)
  <2>1. /\ inbox[n] # << >>
        /\ Failover!Send(Failover!Handled(n), Head(inbox[n]).from,
                         [type |-> "SYNC_REQUEST", from |-> n], n)
    BY <1>2 DEF ReceiveSelfPromotion, Failover!ReceiveSelfPromotion, Failover!Handles
  <2>2. inbox' \in [Node -> Seq(Message)] /\ missed' \subseteq Node
    BY <1>1, <2>1, RepliesTyped, EmptyIsStore, SendTyped
  <2> QED BY <1>1, <1>2, <2>1, <2>2 DEF ReceiveSelfPromotion, Failover!ReceiveSelfPromotion,
         Failover!detector, data, TypeOK, Placed
<1>3. CASE TakeSnapshot(n)
  BY <1>3 DEF TakeSnapshot, TypeOK, Placed, cluster
<1>4. CASE SendSnapshot(n)
  <2>1. PICK copy \in answering[n] :
          /\ Failover!Send(Failover!Handled(n), Head(inbox[n]).from,
                           [type |-> "SYNC_RESPONSE", from |-> n, data |-> copy],
                           Head(inbox[n]).from)
          /\ answering' = [answering EXCEPT ![n] = {}]
          /\ UNCHANGED <<up, leaf_role, current_leader_id, is_alive, suspects, pc,
                         announcing, source, mistakes, crashes, kv, writes, pulling,
                         contended, acked, lost, rebooted, puts, restarts>>
    BY <1>4 DEF SendSnapshot
  <2>2. inbox[n] # << >>
    BY <2>1 DEF Asked, Failover!Handles
  <2>3. copy \in Store
    BY DEF TypeOK
  <2>4. inbox' \in [Node -> Seq(Message)] /\ missed' \subseteq Node
    BY <1>1, <2>1, <2>2, <2>3, RepliesTyped, SendTyped
  <2> QED BY <2>1, <2>4 DEF TypeOK, Placed
<1>5. CASE ReceiveSyncResponse(n)
  <2>1. inbox[n] # << >> /\ Head(inbox[n]).type = "SYNC_RESPONSE" /\ inbox' = Failover!Handled(n)
    BY <1>5 DEF ReceiveSyncResponse, Failover!ReceiveSyncResponse, Failover!DropSyncResponse,
       Failover!Handles
  <2>2. Head(inbox[n]).data \in Store
    BY <1>1, <2>1 DEF Message
  <2>3. kv' \in [Node -> Store]
    <3>1. \/ kv' = kv
          \/ kv' = [kv EXCEPT ![n] = [k \in Key |-> IF Head(inbox[n]).data[k] = 0 THEN @[k]
                                                   ELSE Head(inbox[n]).data[k]]]
      BY <1>5 DEF ReceiveSyncResponse
    <3>2. /\ kv \in [Node -> [Key -> Value]]
          /\ Head(inbox[n]).data \in [Key -> Value]
      BY <2>2 DEF TypeOK, Store
    <3>3. [k \in Key |-> IF Head(inbox[n]).data[k] = 0 THEN kv[n][k]
                         ELSE Head(inbox[n]).data[k]] \in [Key -> Value]
      BY <3>2
    <3> QED BY <3>1, <3>2, <3>3 DEF Store
  <2>4. missed' \subseteq Node /\ source' \in [Node -> Node]
    <3>1. /\ Head(inbox[n]) \in Message /\ Head(inbox[n]).from \in Node
          /\ missed \subseteq Node /\ source \in [Node -> Node]
      BY <1>1, <2>1 DEF Message, Placed
    <3>2. \/ source' = [source EXCEPT ![n] = Head(inbox[n]).from] /\ missed' = missed
          \/ source' = source /\ missed' = missed \cup {n}
      BY <1>5 DEF ReceiveSyncResponse, Failover!ReceiveSyncResponse,
         Failover!DropSyncResponse
    <3> QED BY <3>1, <3>2
  <2>5. UNCHANGED <<up, leaf_role, current_leader_id, is_alive, suspects, pc, announcing,
                    mistakes, crashes, writes, answering, pulling, contended, acked, lost,
                    rebooted, puts, restarts>>
    BY <1>5 DEF ReceiveSyncResponse, Failover!ReceiveSyncResponse,
       Failover!DropSyncResponse, Failover!detector
  <2>6. inbox' \in [Node -> Seq(Message)]
    BY <1>1, <2>1
  <2> QED BY <2>3, <2>4, <2>5, <2>6 DEF TypeOK, Placed
<1>6. CASE ReceivePush(n)
  <2>1. inbox[n] # << >> /\ Head(inbox[n]).type = "LOCAL_SYNC_PUSH" /\ inbox' = Failover!Handled(n)
    BY <1>6 DEF ReceivePush, Failover!Handles
  <2>2. Head(inbox[n]).key \in Key /\ Head(inbox[n]).value \in Value
    BY <1>1, <2>1 DEF Message
  <2>3. kv' \in [Node -> Store]
    BY <1>6, <2>2 DEF ReceivePush, TypeOK, Store
  <2> QED BY <1>1, <1>6, <2>1, <2>3 DEF ReceivePush, TypeOK, Placed
<1>7. ASSUME NEW m \in Node, ReceiveHeartBeat(n, m) PROVE Typed'
  BY <1>7 DEF ReceiveHeartBeat, Failover!ReceiveHeartBeat, data, TypeOK, Placed
<1> QED BY <1>2, <1>3, <1>4, <1>5, <1>6, <1>7 DEF Receive

LEMMA DetectTyped ==
    ASSUME Typed, NEW n \in Node, Detect(n)
    PROVE  Typed'
<1> USE DEF Typed
<1>1. UNCHANGED data /\ Failover!Detect(n)
  BY DEF Detect
<1>2. ASSUME NEW peers \in SUBSET {m \in Node \ {n} : is_alive[n][m]},
             Failover!WakeUp(n, peers)
      PROVE Typed'
  <2>1. /\ mistakes' = mistakes + Cardinality(peers \ Failover!Gone(n))
        /\ mistakes' <= MaxMistakes
    BY <1>2, SameCardinality DEF Failover!WakeUp
  <2>2. mistakes' \in 0..MaxMistakes
    <3>1. IsFiniteSet(peers \ Failover!Gone(n))
      BY NodesAreFinite, FS_Subset
    <3> QED BY <2>1, <3>1, FS_CardinalityType, ClusterHolds DEF Placed
  <2>3. suspects' \in [Node -> SUBSET Node]
    BY <1>2 DEF Failover!WakeUp, Placed
  <2>4. UNCHANGED <<up, leaf_role, current_leader_id, is_alive, pc, announcing, inbox, source,
                    missed, crashes>>
    BY <1>2 DEF Failover!WakeUp
  <2>5. Placed'
    BY <2>2, <2>3, <2>4 DEF Placed
  <2>6. TypeOK'
    BY <1>1, <2>4 DEF data, TypeOK
  <2> QED BY <2>5, <2>6
<1>3. CASE Failover!Examine(n)
  BY <1>1, <1>3 DEF Failover!Examine, Failover!PC, data, TypeOK, Placed
<1>4. CASE Failover!CheckLeader(n) \/ Failover!Elect(n)
  <2>1. pc' \in [Node -> Failover!PC]
    BY <1>4 DEF Failover!CheckLeader, Failover!Elect, Failover!GoOn, Failover!PC, Placed
  <2>2. UNCHANGED <<up, leaf_role, current_leader_id, is_alive, suspects, announcing, inbox,
                    source, missed, mistakes, crashes>>
    BY <1>4 DEF Failover!CheckLeader, Failover!Elect
  <2>3. Placed'
    BY <2>1, <2>2 DEF Placed
  <2>4. TypeOK'
    BY <1>1, <2>2 DEF data, TypeOK
  <2> QED BY <2>3, <2>4
<1>5. CASE Failover!Promote(n)
  BY <1>1, <1>5 DEF Failover!Promote, Failover!PC, Failover!KiviLeafRole, data, TypeOK, Placed,
     Node
<1>6. ASSUME NEW m \in Node, Failover!Announce(n, m) PROVE Typed'
  <2>1. \/ UNCHANGED <<inbox, missed>>
        \/ Failover!Send(inbox, m, [type |-> "SELF_PROMOTION", from |-> n], m)
    BY <1>6 DEF Failover!Announce
  <2>2. inbox' \in [Node -> Seq(Message)] /\ missed' \subseteq Node
    <3>1. [type |-> "SELF_PROMOTION", from |-> n] \in Message
      BY RepliesTyped, EmptyIsStore
    <3>2. inbox \in [Node -> Seq(Message)] /\ missed \subseteq Node
      BY DEF TypeOK, Placed
    <3> QED BY <2>1, <3>1, <3>2, SendTyped
  <2> QED BY <1>1, <1>6, <2>2 DEF Failover!Announce, data, TypeOK, Placed
<1>7. CASE Failover!Announced(n)
  BY <1>1, <1>7 DEF Failover!Announced, Failover!PC, data, TypeOK, Placed
<1> QED BY <1>1, <1>2, <1>3, <1>4, <1>5, <1>6, <1>7
       DEF Failover!Detect, Failover!Proceed, Node

LEMMA CycleTyped ==
    ASSUME Typed, NEW n \in Node, Crash(n) \/ Start(n) \/ PullLeaderData(n)
    PROVE  Typed'
<1> USE DEF Typed
<1>1. CASE Crash(n)
  <2>1. << >> \in Seq(Message) /\ Empty \in Store
    BY EmptySeq, EmptyIsStore
  <2>2. crashes' \in 0..MaxCrashes
    BY <1>1, ClusterHolds DEF Crash, Failover!Crash, Placed
  <2> QED BY <1>1, <2>1, <2>2 DEF Crash, Failover!Crash, Failover!detector, TypeOK, Placed
<1>2. CASE Start(n)
  <2>1. restarts' \in 0..MaxEvents
    BY <1>2, ClusterHolds DEF Start, TypeOK, Value
  <2> QED BY <1>2, <2>1, ClusterHolds
         DEF Start, TypeOK, Placed, Failover!KiviLeafRole, Failover!PC
<1>3. CASE PullLeaderData(n)
  <2>1. \/ UNCHANGED <<inbox, missed>>
        \/ Failover!Send(inbox, current_leader_id[n],
                         [type |-> "SYNC_REQUEST", from |-> n], n)
    BY <1>3 DEF PullLeaderData
  <2>2. inbox' \in [Node -> Seq(Message)] /\ missed' \subseteq Node
    <3>1. [type |-> "SYNC_REQUEST", from |-> n] \in Message
      BY RepliesTyped, EmptyIsStore
    <3>2. current_leader_id[n] \in Node /\ missed \subseteq Node
      BY DEF Placed
    <3> QED BY <2>1, <3>1, <3>2, SendTyped DEF TypeOK
  <2> QED BY <1>3, <2>2 DEF PullLeaderData, TypeOK, Placed
<1> QED BY <1>1, <1>2, <1>3

LEMMA NextTyped == Typed /\ Asked /\ [Next]_vars => Typed'
<1> SUFFICES ASSUME Typed, Asked, [Next]_vars PROVE Typed'
  OBVIOUS
<1>1. CASE UNCHANGED vars
  BY <1>1 DEF vars, cluster, data, Typed, TypeOK, Placed
<1> QED BY <1>1, ServeTyped, ReceiveTyped, DetectTyped, CycleTyped DEF Next

-----------------------------------------------------------------------------
(* Answers in the making                                                   *)

\* Sending only ever adds to the end of a queue.
LEMMA AppendKeepsHead ==
    ASSUME NEW queues \in [Node -> Seq(Message)], NEW to \in Node, NEW msg \in Message,
           NEW n \in Node, queues[n] # << >>
    PROVE  /\ Appended(queues, to, msg)[n] # << >>
           /\ Head(Appended(queues, to, msg)[n]) = Head(queues[n])
<1> DEFINE sent == Appended(queues, to, msg)
<1>1. sent[n] = queues[n] \/ sent[n] = Append(queues[n], msg)
  BY DEF Appended
<1>2. queues[n] \in Seq(Message)
  OBVIOUS
<1> HIDE DEF sent
<1>3. Append(queues[n], msg) # << >> /\ Head(Append(queues[n], msg)) = Head(queues[n])
  BY <1>2, HeadTailAppend, AppendProperties
<1> QED BY <1>1, <1>3 DEF sent

LEMMA AskedKept ==
    ASSUME Asked,
           \A n \in Node : answering'[n] # {} =>
               /\ answering[n] # {} /\ up'[n]
               /\ inbox[n] # << >> => inbox'[n] # << >> /\ Head(inbox'[n]) = Head(inbox[n])
    PROVE  Asked'
BY DEF Asked, Failover!Handles

LEMMA ReceiveAsked ==
    ASSUME Typed, Asked, NEW n \in Node, Receive(n)
    PROVE  Asked'
<1>1. /\ inbox \in [Node -> Seq(Message)]
      /\ answering \in [Node -> SUBSET Store]
      /\ up' = up
  BY DEF Typed, TypeOK, Receive, ReceiveSelfPromotion, TakeSnapshot, SendSnapshot,
     ReceiveSyncResponse, ReceivePush, ReceiveHeartBeat, Failover!ReceiveSelfPromotion,
     Failover!ReceiveSyncResponse, Failover!DropSyncResponse, Failover!ReceiveHeartBeat,
     cluster
<1>2. CASE TakeSnapshot(n)
  BY <1>1, <1>2 DEF TakeSnapshot, Asked, Failover!Handles, cluster
<1>3. ASSUME NEW m \in Node, ReceiveHeartBeat(n, m) PROVE Asked'
  BY <1>3 DEF ReceiveHeartBeat, Failover!ReceiveHeartBeat, Asked, Failover!Handles, data
<1>4. ASSUME inbox[n] # << >>, answering'[n] = {},
             \A m \in Node : m # n => answering'[m] = answering[m],
             \/ inbox' = Failover!Handled(n)
             \/ \E to \in Node, msg \in Message :
                   inbox' = Appended(Failover!Handled(n), to, msg)
      PROVE  Asked'
  <2>1. Failover!Handled(n) \in [Node -> Seq(Message)]
    BY <1>1, <1>4, HandledBare
  <2>2. \A m \in Node : m # n => Failover!Handled(n)[m] = inbox[m]
    BY <1>1 DEF Failover!Handled
  <2>3. ASSUME NEW m \in Node, answering'[m] # {}
        PROVE  /\ answering[m] # {} /\ up'[m]
               /\ inbox[m] # << >> => inbox'[m] # << >> /\ Head(inbox'[m]) = Head(inbox[m])
    <3>1. m # n /\ answering[m] # {}
      BY <1>4, <2>3
    <3>2. up'[m]
      BY <1>1, <3>1 DEF Asked, Failover!Handles
    <3>3. ASSUME inbox[m] # << >>
          PROVE  inbox'[m] # << >> /\ Head(inbox'[m]) = Head(inbox[m])
      <4>1. Failover!Handled(n)[m] = inbox[m]
        BY <2>2, <3>1
      <4> QED BY <1>4, <2>1, <3>3, <4>1, AppendKeepsHead
    <3> QED BY <3>1, <3>2, <3>3
  <2> QED BY <2>3, AskedKept
<1>5. inbox[n] # << >> => Head(inbox[n]).from \in Node
  BY <1>1, HandledBare DEF Message
<1>6. CASE ReceiveSelfPromotion(n)
  <2>1. /\ Failover!Handles(n, "SELF_PROMOTION")
        /\ Failover!Send(Failover!Handled(n), Head(inbox[n]).from,
                         [type |-> "SYNC_REQUEST", from |-> n], n)
        /\ answering' = answering
    BY <1>6 DEF ReceiveSelfPromotion, Failover!ReceiveSelfPromotion, data
  <2>2. answering[n] = {} /\ inbox[n] # << >>
    BY <2>1 DEF Asked, Failover!Handles
  <2>3. [type |-> "SYNC_REQUEST", from |-> n] \in Message
    BY RepliesTyped, EmptyIsStore
  <2>4. \/ inbox' = Failover!Handled(n)
        \/ inbox' = Appended(Failover!Handled(n), Head(inbox[n]).from,
                             [type |-> "SYNC_REQUEST", from |-> n])
    BY <2>1, SendArrives
  <2> QED BY <1>4, <1>5, <2>1, <2>2, <2>3, <2>4
<1>7. CASE SendSnapshot(n)
  <2>1. PICK copy \in answering[n] :
          /\ Failover!Send(Failover!Handled(n), Head(inbox[n]).from,
                           [type |-> "SYNC_RESPONSE", from |-> n, data |-> copy],
                           Head(inbox[n]).from)
          /\ answering' = [answering EXCEPT ![n] = {}]
    BY <1>7 DEF SendSnapshot
  <2>2. inbox[n] # << >> /\ copy \in Store
    BY <1>1 DEF Asked, Failover!Handles
  <2>3. [type |-> "SYNC_RESPONSE", from |-> n, data |-> copy] \in Message
    BY <2>2, RepliesTyped
  <2>4. \/ inbox' = Failover!Handled(n)
        \/ inbox' = Appended(Failover!Handled(n), Head(inbox[n]).from,
                             [type |-> "SYNC_RESPONSE", from |-> n, data |-> copy])
    BY <2>1, SendArrives
  <2> QED BY <1>1, <1>4, <1>5, <2>1, <2>2, <2>3, <2>4
<1>8. CASE ReceiveSyncResponse(n)
  <2>1. /\ Failover!Handles(n, "SYNC_RESPONSE") /\ inbox' = Failover!Handled(n)
        /\ answering' = answering
    BY <1>8 DEF ReceiveSyncResponse, Failover!ReceiveSyncResponse, Failover!DropSyncResponse
  <2>2. answering[n] = {} /\ inbox[n] # << >>
    BY <2>1 DEF Asked, Failover!Handles
  <2> QED BY <1>4, <2>1, <2>2
<1>9. CASE ReceivePush(n)
  <2>1. /\ Failover!Handles(n, "LOCAL_SYNC_PUSH") /\ inbox' = Failover!Handled(n)
        /\ answering' = answering
    BY <1>9 DEF ReceivePush
  <2>2. answering[n] = {} /\ inbox[n] # << >>
    BY <2>1 DEF Asked, Failover!Handles
  <2> QED BY <1>4, <2>1, <2>2
<1> QED BY <1>2, <1>3, <1>6, <1>7, <1>8, <1>9 DEF Receive

LEMMA NextAsked == Typed /\ Asked /\ [Next]_vars => Asked'
<1> SUFFICES ASSUME Typed, Asked, [Next]_vars PROVE Asked'
  OBVIOUS
<1>1. inbox \in [Node -> Seq(Message)] /\ answering \in [Node -> SUBSET Store]
  BY DEF Typed, TypeOK
<1>2. ASSUME UNCHANGED <<up, answering>>,
             \/ inbox' = inbox
             \/ \E to \in Node, msg \in Message : inbox' = Appended(inbox, to, msg)
      PROVE  Asked'
  <2>1. ASSUME NEW n \in Node, inbox[n] # << >>
        PROVE  inbox'[n] # << >> /\ Head(inbox'[n]) = Head(inbox[n])
    BY <1>1, <1>2, <2>1, AppendKeepsHead
  <2>2. \A n \in Node : answering[n] # {} => up[n]
    BY DEF Asked, Failover!Handles
  <2> QED BY <1>2, <2>1, <2>2, AskedKept
<1>3. ASSUME UNCHANGED <<up, answering>>, NEW n \in Node, NEW to \in Node, NEW m \in Node,
             NEW type \in {"SYNC_REQUEST", "SELF_PROMOTION"},
             Failover!Send(inbox, to, [type |-> type, from |-> n], m)
      PROVE  Asked'
  <2>1. [type |-> type, from |-> n] \in Message
    BY RepliesTyped, EmptyIsStore
  <2>2. inbox' = inbox \/ inbox' = Appended(inbox, to, [type |-> type, from |-> n])
    BY <1>3, SendArrives
  <2> QED BY <1>2, <1>3, <2>1, <2>2
<1>4. CASE Serve
  <2>1. ASSUME NEW w \in writes, NEW f \in Node, Push(w, f) PROVE Asked'
    <3>1. [type |-> "LOCAL_SYNC_PUSH", from |-> w.node, key |-> w.key, value |-> w.value]
            \in Message
      BY DEF Typed, TypeOK, Write, Message
    <3> QED BY <1>2, <2>1, <3>1 DEF Push, Appended
  <2> QED BY <1>2, <1>4, <2>1 DEF Serve, Admit, StorePair, Respond, cluster
<1>5. ASSUME NEW n \in Node, Detect(n) PROVE Asked'
  <2>1. UNCHANGED answering
    BY <1>5 DEF Detect, data
  <2>2. ASSUME NEW m \in Node, Failover!Announce(n, m) PROVE Asked'
    <3>1. UNCHANGED <<up, answering>>
      BY <2>1, <2>2 DEF Failover!Announce
    <3>2. \/ inbox' = inbox
          \/ Failover!Send(inbox, m, [type |-> "SELF_PROMOTION", from |-> n], m)
      BY <2>2 DEF Failover!Announce
    <3> QED BY <1>2, <1>3, <3>1, <3>2
  <2>3. ASSUME NEW peers, Failover!WakeUp(n, peers) PROVE Asked'
    BY <1>2, <2>1, <2>3 DEF Failover!WakeUp
  <2>4. CASE \/ Failover!Examine(n) \/ Failover!CheckLeader(n) \/ Failover!Elect(n)
             \/ Failover!Promote(n) \/ Failover!Announced(n)
    BY <1>2, <2>1, <2>4 DEF Failover!Examine, Failover!CheckLeader, Failover!Elect,
       Failover!Promote, Failover!Announced
  <2> QED BY <1>5, <2>2, <2>3, <2>4 DEF Detect, Failover!Detect, Failover!Proceed, Node
<1>6. ASSUME NEW n \in Node, Crash(n) PROVE Asked'
  BY <1>1, <1>6 DEF Crash, Failover!Crash, Asked, Failover!Handles, Typed, TypeOK, Placed
<1>7. ASSUME NEW n \in Node, Start(n) PROVE Asked'
  BY <1>1, <1>7 DEF Start, Asked, Failover!Handles, Typed, TypeOK, Placed
<1>8. ASSUME NEW n \in Node, PullLeaderData(n) PROVE Asked'
  <2>1. current_leader_id[n] \in Node
    BY DEF Typed, Placed
  <2>2. UNCHANGED <<up, answering>>
    BY <1>8 DEF PullLeaderData
  <2>3. \/ inbox' = inbox
        \/ Failover!Send(inbox, current_leader_id[n], [type |-> "SYNC_REQUEST", from |-> n], n)
    BY <1>8 DEF PullLeaderData
  <2> QED BY <1>2, <1>3, <2>1, <2>2, <2>3
<1>9. CASE UNCHANGED vars
  BY <1>2, <1>9 DEF vars, cluster, data
<1> QED BY <1>4, <1>5, <1>6, <1>7, <1>8, <1>9, ReceiveAsked DEF Next

\* A node pulls on its own only after a boot.
BootsPull == restarts = 0 => \A n \in Node : ~pulling[n]

LEMMA NextBootsPull == Typed /\ BootsPull /\ [Next]_vars => BootsPull'
<1> SUFFICES ASSUME Typed, BootsPull, [Next]_vars PROVE BootsPull'
  OBVIOUS
<1>1. CASE Serve
  BY <1>1 DEF Serve, Admit, StorePair, Push, Respond, BootsPull
<1>2. ASSUME NEW n \in Node, Receive(n) \/ Detect(n) PROVE BootsPull'
  BY <1>2 DEF Receive, ReceiveSelfPromotion, TakeSnapshot, SendSnapshot, ReceiveSyncResponse,
     ReceivePush, ReceiveHeartBeat, Detect, data, BootsPull
<1>3. ASSUME NEW n \in Node, Crash(n) \/ PullLeaderData(n) PROVE BootsPull'
  BY <1>3 DEF Crash, PullLeaderData, BootsPull, Typed, TypeOK
<1>4. ASSUME NEW n \in Node, Start(n) PROVE BootsPull'
  <2>1. restarts' # 0
    BY <1>4, ClusterHolds DEF Start, Typed, TypeOK
  <2> QED BY <2>1 DEF BootsPull
<1>5. CASE UNCHANGED vars
  BY <1>5 DEF vars, data, BootsPull
<1> QED BY <1>1, <1>2, <1>3, <1>4, <1>5 DEF Next

\* Stores and queues hold values of PUTs, every message and every PUT in progress is a
\* node's, and a copy of a store waits only under the pull request it answers
\* (kivileaf.cpp, kivileaf_rest_controller.cpp).
THEOREM LeafTyped == Spec => [](TypeOK /\ Placed /\ Asked)
<1>1. Init => Asked
  BY DEF Init, Asked
<1> QED BY <1>1, InitTyped, NextTyped, NextAsked, PTL DEF Spec, Typed

-----------------------------------------------------------------------------
(* Every step is a step of LocalCluster or none                            *)

LEMMA SameBare == inbox' = inbox => BareQueues(inbox') = BareQueues(inbox)
BY DEF BareQueues

\* PUTs in progress and pushes do not touch what LocalCluster looks at.
LEMMA ServeImplements ==
    ASSUME Typed, Serve
    PROVE  UNCHANGED Leadership!vars
<1>1. ASSUME NEW w \in writes, NEW f \in Node, Push(w, f)
      PROVE  BareQueues(inbox') = BareQueues(inbox)
  <2> DEFINE msg == [type |-> "LOCAL_SYNC_PUSH", from |-> w.node, key |-> w.key,
                     value |-> w.value]
  <2>1. msg \in Message
    BY DEF Typed, TypeOK, Write, Message
  <2>2. inbox' = inbox \/ inbox' = Appended(inbox, f, msg)
    BY <1>1 DEF Push, Appended
  <2>3. msg.type = "LOCAL_SYNC_PUSH"
    OBVIOUS
  <2> HIDE DEF msg
  <2>4. inbox \in [Node -> Seq(Message)]
    BY DEF Typed, TypeOK
  <2>5. BareQueues(Appended(inbox, f, msg)) = BareQueues(inbox)
    BY <2>1, <2>3, <2>4, AppendedBare
  <2> QED BY <2>2, <2>5
<1>2. \/ \E w \in writes, f \in Node : Push(w, f)
      \/ UNCHANGED inbox
  BY DEF Serve, Admit, StorePair, Respond, cluster
<1>3. BareQueues(inbox') = BareQueues(inbox)
  BY <1>1, <1>2, SameBare
<1>4. UNCHANGED <<up, leaf_role, current_leader_id, is_alive, suspects, pc, announcing,
                  source, missed, mistakes, crashes>>
  BY DEF Serve, Admit, StorePair, Push, Respond, cluster
<1> QED BY <1>3, <1>4 DEF Leadership!vars, BareQueues

\* The first message of a queue, when it is not a push, is the first of LocalCluster's.
LEMMA HandlesBare ==
    ASSUME Typed, NEW n \in Node, NEW type,
           Failover!Handles(n, type), type # "LOCAL_SYNC_PUSH"
    PROVE  /\ Leadership!Handles(n, type)
           /\ Head(BareQueues(inbox)[n]).from = Head(inbox[n]).from
           /\ Head(inbox[n]).from \in Node
           /\ Failover!Handled(n) \in [Node -> Seq(Message)]
           /\ BareQueues(Failover!Handled(n)) = Leadership!Handled(n)
<1>1. /\ up[n] /\ inbox[n] # << >> /\ Head(inbox[n]).type = type
      /\ inbox \in [Node -> Seq(Message)]
  BY DEF Failover!Handles, Typed, TypeOK
<1>2. /\ Failover!Handled(n) \in [Node -> Seq(Message)]
      /\ BareQueues(Failover!Handled(n)) = Leadership!Handled(n)
      /\ Bare(inbox[n]) # << >>
      /\ Head(Bare(inbox[n])) = Strip(Head(inbox[n]))
      /\ Head(inbox[n]) \in Message
  BY <1>1, HandledBare
<1>3. BareQueues(inbox)[n] = Bare(inbox[n])
  BY DEF BareQueues
<1>4. Leadership!Handles(n, type)
  BY <1>1, <1>2, <1>3 DEF Leadership!Handles, BareQueues, Strip
<1>5. Head(inbox[n]).from \in Node
  BY <1>2 DEF Message
<1> QED BY <1>2, <1>3, <1>4, <1>5 DEF Strip

\* A reply on top of that.
LEMMA ReplyBare ==
    ASSUME Typed, NEW n \in Node, NEW type,
           Failover!Handles(n, type), type # "LOCAL_SYNC_PUSH",
           NEW to \in Node, NEW msg \in Message, msg.type # "LOCAL_SYNC_PUSH",
           NEW follower \in Node, Failover!Send(Failover!Handled(n), to, msg, follower)
    PROVE  Leadership!Send(Leadership!Handled(n), to, Strip(msg), follower)
BY HandlesBare, SendBare

LEMMA ReceiveImplements ==
    ASSUME Typed, Asked, NEW n \in Node, Receive(n)
    PROVE  \/ Leadership!Receive(n)
           \/ \E m \in Node : Leadership!ReceiveHeartBeat(n, m)
           \/ UNCHANGED Leadership!vars
<1>1. CASE ReceiveSelfPromotion(n)
  <2> DEFINE leader == Head(inbox[n]).from
             msg == [type |-> "SYNC_REQUEST", from |-> n]
  <2>1. /\ Failover!Handles(n, "SELF_PROMOTION")
        /\ current_leader_id' = [current_leader_id EXCEPT ![n] = leader]
        /\ Failover!Send(Failover!Handled(n), leader, msg, n)
        /\ UNCHANGED <<up, source, mistakes, crashes, leaf_role, is_alive, suspects, pc,
                       announcing>>
    BY <1>1 DEF ReceiveSelfPromotion, Failover!ReceiveSelfPromotion, Failover!detector
  <2>2. msg \in Message /\ Strip(msg) = msg /\ msg.type # "LOCAL_SYNC_PUSH"
    BY RepliesTyped, EmptyIsStore DEF Strip
  <2> HIDE DEF msg
  <2>3. /\ Leadership!Handles(n, "SELF_PROMOTION")
        /\ Head(BareQueues(inbox)[n]).from = leader /\ leader \in Node
    BY <2>1, HandlesBare
  <2>4. Leadership!Send(Leadership!Handled(n), leader, msg, n)
    BY <2>1, <2>2, <2>3, ReplyBare
  <2>5. Leadership!ReceiveSelfPromotion(n)
    BY <2>1, <2>3, <2>4
       DEF Leadership!ReceiveSelfPromotion, Leadership!detector, BareQueues, msg
  <2> QED BY <2>5 DEF Leadership!Receive
<1>2. CASE TakeSnapshot(n)
  BY <1>2 DEF TakeSnapshot, cluster, Leadership!vars
<1>3. CASE SendSnapshot(n)
  <2>1. PICK copy \in answering[n] :
          /\ Failover!Send(Failover!Handled(n), Head(inbox[n]).from,
                           [type |-> "SYNC_RESPONSE", from |-> n, data |-> copy],
                           Head(inbox[n]).from)
          /\ UNCHANGED <<up, leaf_role, current_leader_id, is_alive, suspects, pc,
                         announcing, source, mistakes, crashes>>
    BY <1>3 DEF SendSnapshot
  <2> DEFINE to == Head(inbox[n]).from
             msg == [type |-> "SYNC_RESPONSE", from |-> n, data |-> copy]
  <2>2. Failover!Handles(n, "SYNC_REQUEST")
    BY DEF Asked
  <2>3. copy \in Store
    BY DEF Typed, TypeOK
  <2>4. /\ msg \in Message /\ msg.type # "LOCAL_SYNC_PUSH"
        /\ Strip(msg) = [type |-> "SYNC_RESPONSE", from |-> n]
    BY <2>3, RepliesTyped DEF Strip
  <2>5. Failover!Send(Failover!Handled(n), to, msg, to)
    BY <2>1
  <2> HIDE DEF msg
  <2>6. /\ Leadership!Handles(n, "SYNC_REQUEST")
        /\ Head(BareQueues(inbox)[n]).from = to /\ to \in Node
    BY <2>2, HandlesBare
  <2>7. Leadership!Send(Leadership!Handled(n), to, [type |-> "SYNC_RESPONSE", from |-> n], to)
    BY <2>2, <2>4, <2>5, <2>6, ReplyBare
  <2>8. Leadership!ReceiveSyncRequest(n)
    BY <2>1, <2>6, <2>7 DEF Leadership!ReceiveSyncRequest, Leadership!detector, BareQueues
  <2> QED BY <2>8 DEF Leadership!Receive
<1>4. CASE ReceiveSyncResponse(n)
  <2>1. /\ Failover!Handles(n, "SYNC_RESPONSE")
        /\ inbox' = Failover!Handled(n)
        /\ \/ source' = [source EXCEPT ![n] = Head(inbox[n]).from] /\ UNCHANGED missed
           \/ missed' = missed \cup {n} /\ UNCHANGED source
        /\ UNCHANGED <<up, current_leader_id, mistakes, crashes, leaf_role, is_alive,
                       suspects, pc, announcing>>
    BY <1>4 DEF ReceiveSyncResponse, Failover!ReceiveSyncResponse, Failover!DropSyncResponse,
       Failover!detector
  <2>2. /\ Leadership!Handles(n, "SYNC_RESPONSE")
        /\ Head(BareQueues(inbox)[n]).from = Head(inbox[n]).from
        /\ BareQueues(inbox') = Leadership!Handled(n)
    BY <2>1, HandlesBare
  <2>3. Leadership!ReceiveSyncResponse(n) \/ Leadership!DropSyncResponse(n)
    BY <2>1, <2>2 DEF Leadership!ReceiveSyncResponse, Leadership!DropSyncResponse,
       Leadership!detector, BareQueues
  <2> QED BY <2>3 DEF Leadership!Receive
<1>5. CASE ReceivePush(n)
  <2>1. /\ inbox[n] # << >> /\ Head(inbox[n]).type = "LOCAL_SYNC_PUSH"
        /\ inbox' = Failover!Handled(n)
        /\ UNCHANGED <<up, leaf_role, current_leader_id, is_alive, suspects, pc,
                       announcing, source, missed, mistakes, crashes>>
    BY <1>5 DEF ReceivePush, Failover!Handles
  <2>2. BareQueues(inbox') = BareQueues(inbox)
    BY <2>1, HandledBare DEF Typed, TypeOK
  <2> QED BY <2>1, <2>2 DEF Leadership!vars, BareQueues
<1>6. ASSUME NEW m \in Node, ReceiveHeartBeat(n, m)
      PROVE  Leadership!ReceiveHeartBeat(n, m)
  BY <1>6 DEF ReceiveHeartBeat, Failover!ReceiveHeartBeat, Leadership!ReceiveHeartBeat
<1> QED BY <1>1, <1>2, <1>3, <1>4, <1>5, <1>6 DEF Receive

\* Who has been heard out with its pushes has been heard out without them.
LEMMA GoneBare ==
    ASSUME Typed, NEW n \in Node
    PROVE  Failover!Gone(n) \subseteq Leadership!Gone(n)
<1> SUFFICES ASSUME NEW m \in Node, Failover!Drained(m, n) PROVE Leadership!Drained(m, n)
  BY ClusterHolds DEF Failover!Gone, Leadership!Gone, Node
<1>1. inbox[n] \in Seq(Message)
  BY DEF Typed, TypeOK
<1>2. Range(Bare(inbox[n])) \subseteq Stripped(inbox[n])
  BY <1>1, BareTyped
<1>3. \A msg \in Stripped(inbox[n]) : msg.from # m
  BY DEF Failover!Drained, Failover!Range, Range, Stripped, Strip
<1>4. \A msg \in Range(BareQueues(inbox)[n]) : msg.from # m
  BY <1>2, <1>3 DEF BareQueues
<1> QED BY <1>4 DEF Leadership!Drained, Leadership!Range, Range, BareQueues

\* With an accurate detector whoever is suspected is gone for both.
LEMMA WakeUpImplements ==
    ASSUME Typed, MaxMistakes = 0, NEW n \in Node,
           NEW peers \in SUBSET {m \in Node \ {n} : is_alive[n][m]},
           Failover!WakeUp(n, peers), UNCHANGED data
    PROVE  Leadership!WakeUp(n, peers)
<1>1. /\ mistakes' = mistakes + Cardinality(peers \ Failover!Gone(n))
      /\ mistakes' <= MaxMistakes /\ mistakes = 0
  BY SameCardinality DEF Failover!WakeUp, Typed, Placed
<1>2. IsFiniteSet(peers \ Failover!Gone(n))
  BY NodesAreFinite, FS_Subset
<1>3. Cardinality(peers \ Failover!Gone(n)) = 0
  BY <1>1, <1>2, FS_CardinalityType
<1>4. peers \ Failover!Gone(n) = {}
  BY <1>2, <1>3, FS_EmptySet
<1>5. peers \ Leadership!Gone(n) = {}
  BY <1>4, GoneBare
<1>6. Leadership!Cardinality(peers \ Leadership!Gone(n)) = 0
  BY <1>5, SameCardinality, FS_EmptySet
<1> QED BY <1>1, <1>3, <1>6 DEF Failover!WakeUp, Leadership!WakeUp

LEMMA AnnounceImplements ==
    ASSUME Typed, NEW n \in Node, NEW m \in Node, Failover!Announce(n, m), UNCHANGED data
    PROVE  Leadership!Announce(n, m)
<1> DEFINE msg == [type |-> "SELF_PROMOTION", from |-> n]
<1>1. msg \in Message /\ Strip(msg) = msg /\ msg.type # "LOCAL_SYNC_PUSH"
  BY RepliesTyped, EmptyIsStore DEF Strip
<1>2. inbox \in [Node -> Seq(Message)]
  BY DEF Typed, TypeOK
<1>3. IF is_alive[n][m] THEN Failover!Send(inbox, m, msg, m) ELSE UNCHANGED <<inbox, missed>>
  BY DEF Failover!Announce
<1> HIDE DEF msg
<1>4. Failover!Send(inbox, m, msg, m) => Leadership!Send(BareQueues(inbox), m, msg, m)
  BY <1>1, <1>2, SendBare
<1>5. IF is_alive[n][m] THEN Leadership!Send(BareQueues(inbox), m, msg, m)
      ELSE UNCHANGED <<BareQueues(inbox), missed>>
  BY <1>3, <1>4 DEF BareQueues
<1> QED BY <1>5 DEF Failover!Announce, Leadership!Announce, BareQueues, msg

LEMMA DetectImplements ==
    ASSUME Typed, MaxMistakes = 0, NEW n \in Node, Detect(n)
    PROVE  Leadership!Detect(n)
<1>1. UNCHANGED data /\ Failover!Detect(n)
  BY DEF Detect
<1>2. ASSUME NEW peers \in SUBSET {m \in Node \ {n} : is_alive[n][m]},
             Failover!WakeUp(n, peers)
      PROVE  Leadership!WakeUp(n, peers)
  BY <1>1, <1>2, WakeUpImplements
<1>3. ASSUME NEW m \in Node, Failover!Announce(n, m) PROVE Leadership!Announce(n, m)
  BY <1>1, <1>3, AnnounceImplements
<1>4. /\ Failover!Examine(n) => Leadership!Examine(n)
      /\ Failover!CheckLeader(n) => Leadership!CheckLeader(n)
      /\ Failover!Elect(n) => Leadership!Elect(n)
      /\ Failover!Promote(n) => Leadership!Promote(n)
      /\ Failover!Announced(n) => Leadership!Announced(n)
  <2>1. Failover!Examine(n) => Leadership!Examine(n)
    BY DEF Failover!Examine, Leadership!Examine, Failover!First, Leadership!First
  <2>2. Failover!CheckLeader(n) => Leadership!CheckLeader(n)
    BY DEF Failover!CheckLeader, Leadership!CheckLeader, Failover!GoOn, Leadership!GoOn
  <2>3. Failover!Elect(n) => Leadership!Elect(n)
    BY DEF Failover!Elect, Leadership!Elect, Failover!GoOn, Leadership!GoOn,
       Failover!IsLowest, Leadership!IsLowest, Failover!Node, Leadership!Node
  <2>4. Failover!Promote(n) => Leadership!Promote(n)
    BY DEF Failover!Promote, Leadership!Promote, Failover!Node, Leadership!Node
  <2>5. Failover!Announced(n) => Leadership!Announced(n)
    BY DEF Failover!Announced, Leadership!Announced
  <2> QED BY <2>1, <2>2, <2>3, <2>4, <2>5
<1> QED BY <1>1, <1>2, <1>3, <1>4, ClusterHolds
       DEF Failover!Detect, Failover!Proceed, Leadership!Detect, Leadership!Proceed, Node

LEMMA CrashImplements ==
    ASSUME Typed, NEW n \in Node, Crash(n)
    PROVE  Leadership!Crash(n)
<1>1. inbox' = [inbox EXCEPT ![n] = << >>]
  BY DEF Crash, Failover!Crash
<1>2. BareQueues(inbox') = [BareQueues(inbox) EXCEPT ![n] = << >>]
  BY <1>1, BareEmpty DEF BareQueues, Typed, TypeOK
<1> QED BY <1>2 DEF Crash, Failover!Crash, Leadership!Crash, BareQueues, Failover!detector,
       Leadership!detector

LEMMA InitImplements == Init => Leadership!Init
<1> SUFFICES ASSUME Init PROVE Leadership!Init
  OBVIOUS
<1>1. BareQueues(inbox) = [n \in Node |-> << >>]
  BY BareEmpty DEF Init, Failover!Init, BareQueues, Node
<1> QED BY <1>1 DEF Init, Failover!Init, Leadership!Init, BareQueues, Failover!Node,
       Leadership!Node, Node

LEMMA RestartsStay ==
    ASSUME Typed, [Next]_vars, restarts' = 0
    PROVE  restarts = 0 /\ \A n \in Node : ~Start(n)
<1>1. ASSUME NEW n \in Node, Start(n) PROVE FALSE
  BY <1>1, ClusterHolds DEF Start, Typed, TypeOK
<1>2. restarts = 0
  BY <1>1 DEF Next, Serve, Admit, StorePair, Push, Respond, Receive, ReceiveSelfPromotion,
     TakeSnapshot, SendSnapshot, ReceiveSyncResponse, ReceivePush, ReceiveHeartBeat, Detect,
     Crash, PullLeaderData, vars, data
<1> QED BY <1>1, <1>2

LEMMA NextImplements ==
    ASSUME Typed, Asked, BootsPull, MaxMistakes = 0, [Next]_vars, restarts' = 0
    PROVE  [Leadership!Next]_(Leadership!vars)
<1>1. ASSUME NEW n \in Node, Start(n) PROVE FALSE
  BY <1>1, RestartsStay
<1>2. restarts = 0
  BY RestartsStay
<1>3. ASSUME NEW n \in Node, PullLeaderData(n) PROVE FALSE
  BY <1>2, <1>3 DEF BootsPull, PullLeaderData
<1>4. CASE UNCHANGED vars
  BY <1>4 DEF vars, cluster, Leadership!vars
<1>5. CASE Serve
  BY <1>5, ServeImplements
<1>6. ASSUME NEW n \in Node, Receive(n) \/ Detect(n) \/ Crash(n)
      PROVE  Leadership!Next \/ UNCHANGED Leadership!vars
  <2>1. \/ Leadership!Receive(n)
        \/ \E m \in Node : Leadership!ReceiveHeartBeat(n, m)
        \/ Leadership!Detect(n)
        \/ Leadership!Crash(n)
        \/ UNCHANGED Leadership!vars
    BY <1>6, ReceiveImplements, DetectImplements, CrashImplements
  <2> QED BY <2>1, ClusterHolds DEF Leadership!Next
<1> QED BY <1>1, <1>3, <1>4, <1>5, <1>6 DEF Next

LEMMA BootsInvariant == Spec => [](Typed /\ Asked /\ BootsPull)
<1>1. Init => Asked /\ BootsPull
  BY DEF Init, Asked, BootsPull
<1> QED BY <1>1, InitTyped, NextTyped, NextAsked, NextBootsPull, PTL DEF Spec

\* Until somebody boots again, PUTs, pushes, pulls and answers leave the election alone
\* (kivileaf.cpp, kivileaf_rest_controller.cpp): every step is a step of LocalCluster
\* on the queues seen without the data, or none.
THEOREM DataLeavesElectionAlone ==
    ASSUME MaxMistakes = 0
    PROVE  Spec => ImplementsLocalCluster
<1>1. Typed /\ Asked /\ BootsPull /\ [Next]_vars
        => [restarts' = 0 => [Leadership!Next]_(Leadership!vars)]_vars
  BY NextImplements
<1> QED BY <1>1, InitImplements, BootsInvariant, PTL DEF Spec, ImplementsLocalCluster

-----------------------------------------------------------------------------
(* What the election keeps, with the data                                  *)

\* LocalCluster and the copy of it that the theorems of LocalClusterProofs are about.
LEMMA SameCluster ==
    /\ Leadership!Init <=> Proven!Init
    /\ Leadership!Next <=> Proven!Next
    /\ (UNCHANGED Leadership!vars) <=> (UNCHANGED Proven!vars)
<1> USE DEF Leadership!Node, Proven!Node
<1>1. Leadership!Init <=> Proven!Init
  BY DEF Leadership!Init, Proven!Init
<1>2. (UNCHANGED Leadership!vars) <=> (UNCHANGED Proven!vars)
  BY DEF Leadership!vars, Proven!vars
<1>3. ASSUME NEW n, NEW peers
      PROVE  Leadership!WakeUp(n, peers) <=> Proven!WakeUp(n, peers)
  BY DEF Leadership!WakeUp, Proven!WakeUp, Leadership!Gone, Proven!Gone,
     Leadership!Drained, Proven!Drained, Leadership!Range, Proven!Range,
     Leadership!Cardinality, Proven!Cardinality, Leadership!IsFiniteSet, Proven!IsFiniteSet
<1>4. ASSUME NEW n
      PROVE  Leadership!Proceed(n) <=> Proven!Proceed(n)
  BY DEF Leadership!Proceed, Proven!Proceed, Leadership!Examine, Proven!Examine,
     Leadership!First, Proven!First, Leadership!CheckLeader, Proven!CheckLeader,
     Leadership!GoOn, Proven!GoOn, Leadership!Elect, Proven!Elect,
     Leadership!IsLowest, Proven!IsLowest, Leadership!Promote, Proven!Promote,
     Leadership!Announce, Proven!Announce, Leadership!Send, Proven!Send,
     Leadership!Announced, Proven!Announced
<1>5. ASSUME NEW n
      PROVE  Leadership!Receive(n) <=> Proven!Receive(n)
  BY DEF Leadership!Receive, Proven!Receive,
     Leadership!ReceiveSelfPromotion, Proven!ReceiveSelfPromotion,
     Leadership!ReceiveSyncRequest, Proven!ReceiveSyncRequest,
     Leadership!ReceiveSyncResponse, Proven!ReceiveSyncResponse,
     Leadership!DropSyncResponse, Proven!DropSyncResponse,
     Leadership!Handles, Proven!Handles, Leadership!Handled, Proven!Handled,
     Leadership!Send, Proven!Send, Leadership!detector, Proven!detector
<1>6. ASSUME NEW n, NEW m
      PROVE  /\ Leadership!ReceiveHeartBeat(n, m) <=> Proven!ReceiveHeartBeat(n, m)
             /\ Leadership!Crash(n) <=> Proven!Crash(n)
  BY DEF Leadership!ReceiveHeartBeat, Proven!ReceiveHeartBeat, Leadership!Crash,
     Proven!Crash, Leadership!detector, Proven!detector
<1>7. Leadership!Next <=> Proven!Next
  BY <1>3, <1>4, <1>5, <1>6 DEF Leadership!Next, Proven!Next, Leadership!Detect,
     Proven!Detect
<1> QED BY <1>1, <1>2, <1>7

\* Until somebody boots again, the election is in a sound state.
Elected == restarts = 0 => Proven!TypeOK /\ Proven!LeadershipInv

LEMMA InitElected == Init => Elected
<1> SUFFICES ASSUME Init PROVE Proven!TypeOK /\ Proven!LeadershipInv
  BY DEF Elected
<1>1. Proven!Init
  BY InitImplements, SameCluster
<1> QED BY <1>1, ClusterHolds, Proven!InitTyped, Proven!InitLeadership

LEMMA NextElected ==
    ASSUME Typed, Asked, BootsPull, Elected, MaxMistakes = 0, [Next]_vars
    PROVE  Elected'
<1> SUFFICES ASSUME restarts' = 0 PROVE Proven!TypeOK' /\ Proven!LeadershipInv'
  BY DEF Elected
<1>1. restarts = 0
  BY RestartsStay
<1>2. [Proven!Next]_(Proven!vars)
  BY NextImplements, SameCluster
<1>3. mistakes' = 0
  BY NextTyped DEF Typed, Placed
<1>4. Proven!TypeOK /\ Proven!LeadershipInv
  BY <1>1 DEF Elected
<1> QED BY <1>2, <1>3, <1>4, ClusterHolds, Proven!NextTyped, Proven!NextLeadership

LEMMA ElectedInvariant ==
    ASSUME MaxMistakes = 0
    PROVE  Spec => [](Typed /\ Elected)
<1>1. Typed /\ Asked /\ BootsPull /\ Elected /\ [Next]_vars => Elected'
  BY NextElected
<1> QED BY <1>1, InitElected, BootsInvariant, PTL DEF Spec

LEMMA ElectionFacts ==
    ASSUME Typed, Elected, restarts = 0
    PROVE  /\ Node \subseteq Nat /\ InitLeader \in Node
           /\ \A n, m \in Node : m \in suspects[n] \/ ~is_alive[n][m] => ~up[m]
           /\ \A n \in Node :
                 /\ pc[n] # "scan" \/ current_leader_id[n] # InitLeader => ~up[InitLeader]
                 /\ current_leader_id[n] = n => leaf_role[n] = "LOCAL_LEADER"
                 /\ current_leader_id[n] = n /\ n # InitLeader => Failover!IsLowest(n)
                 /\ pc[n] \in {"elect", "promote"} => leaf_role[n] = "PROMOTION_READY_REPLICA"
                 /\ pc[n] = "promote" => Failover!IsLowest(n) /\ ~up[current_leader_id[n]]
                 /\ pc[n] = "announce" /\ up[n] => current_leader_id[n] = n
           /\ \A n, k \in Node : current_leader_id[n] = k /\ k # InitLeader =>
                 /\ \A m \in Node : up[m] => k <= m
                 /\ up[k] => current_leader_id[k] = k
<1>1. Proven!Node = Node /\ Node \subseteq Nat
  BY LeafAssumption DEF Proven!Node, Node, Failover!Node
<1>2. \A n : Proven!IsLowest(n) <=> Failover!IsLowest(n)
  BY DEF Proven!IsLowest, Failover!IsLowest, Proven!Node, Failover!Node
<1> QED BY <1>1, <1>2, ClusterHolds DEF Elected, Proven!LeadershipInv, Proven!DetectorExact,
       Proven!AfterFirstLeader, Proven!FollowedIsLowest, Proven!Candidate, Proven!LowestUp

\* A notice of another leader never waits for a node that leads.
LEMMA NoticeFacts ==
    ASSUME Typed, Elected, restarts = 0, NEW n \in Node, Failover!Handles(n, "SELF_PROMOTION")
    PROVE  /\ Head(inbox[n]).from \in Node /\ Head(inbox[n]).from # n
           /\ current_leader_id[n] # n /\ ~up[InitLeader]
<1> DEFINE leader == Head(inbox[n]).from
           notice == [type |-> "SELF_PROMOTION", from |-> leader]
<1>1. /\ up[n] /\ inbox[n] # << >> /\ Head(inbox[n]).type = "SELF_PROMOTION"
      /\ inbox \in [Node -> Seq(Message)] /\ inbox[n] \in Seq(Message)
  BY DEF Failover!Handles, Typed, TypeOK
<1>2. /\ Bare(inbox[n]) # << >>
      /\ Head(Bare(inbox[n])) = Strip(Head(inbox[n]))
      /\ leader \in Node
  BY <1>1, HandledBare, HandlesBare
<1>3. Bare(inbox[n]) \in Seq(BareMessage)
  BY <1>1, BareTyped
<1>4. Head(Bare(inbox[n])) = notice
  BY <1>1, <1>2 DEF Strip
<1> HIDE DEF notice
<1>5. notice \in Range(Bare(inbox[n]))
  BY <1>2, <1>3, <1>4 DEF Range
<1>6. Proven!Notice(leader, n)
  BY <1>5 DEF Proven!Notice, Proven!Sent, Proven!Range, Range, notice
<1>7. Proven!Node = Node
  BY DEF Proven!Node, Node, Failover!Node
<1> HIDE DEF leader
<1>8. leader # n /\ ~up[InitLeader]
  BY <1>2, <1>6, <1>7 DEF Elected, Proven!LeadershipInv, Proven!AfterFirstLeader,
     Proven!Candidate
<1>9. current_leader_id[n] # n
  BY <1>1, <1>2, <1>6, <1>7, ClusterHolds, Proven!NoNoticeToLeader DEF Elected
<1> QED BY <1>2, <1>8, <1>9 DEF leader

\* Between the check of the leader in /put and the end of its pushes, the node goes on
\* accepting writes, until somebody boots again (kivileaf_rest_controller.cpp, handle_put).
THEOREM WritesStay ==
    ASSUME MaxMistakes = 0
    PROVE  Spec => []WritesStayWithLeader
<1>1. Init => WritesStayWithLeader
  BY DEF Init, WritesStayWithLeader
<1>2. Typed /\ Elected /\ WritesStayWithLeader /\ [Next]_vars => WritesStayWithLeader'
  <2> SUFFICES ASSUME Typed, Elected, WritesStayWithLeader, [Next]_vars, restarts' = 0,
                      NEW x \in writes'
               PROVE  Failover!Accepts(x.node)'
    BY DEF WritesStayWithLeader
  <2>1. restarts = 0 /\ \A n \in Node : ~Start(n)
    BY RestartsStay
  <2>2. \A w \in writes : w.node \in Node /\ Failover!Accepts(w.node)
    BY <2>1 DEF WritesStayWithLeader, Typed, TypeOK, Write
  <2>3. CASE Serve
    <3>1. UNCHANGED <<up, current_leader_id>>
      BY <2>3 DEF Serve, Admit, StorePair, Push, Respond, cluster
    <3>2. Failover!Accepts(x.node)
      <4>1. ASSUME NEW n \in Node, NEW k \in Key, Admit(n, k) PROVE Failover!Accepts(x.node)
        BY <2>2, <4>1 DEF Admit
      <4>2. ASSUME NEW w \in writes, NEW f \in Node, StorePair(w) \/ Push(w, f)
            PROVE  Failover!Accepts(x.node)
        <5>1. w \in Write
          BY DEF Typed, TypeOK
        <5>2. [w EXCEPT !.stored = TRUE, !.unsent = Node \ {w.node}].node = w.node
          BY <5>1 DEF Write
        <5>3. [w EXCEPT !.unsent = @ \ {f}].node = w.node
          BY <5>1 DEF Write
        <5>4. x \in writes \/ x.node = w.node
          BY <4>2, <5>2, <5>3 DEF StorePair, Push, Replace
        <5> QED BY <2>2, <5>4
      <4>3. ASSUME NEW w \in writes, Respond(w) PROVE Failover!Accepts(x.node)
        BY <2>2, <4>3 DEF Respond
      <4> QED BY <2>3, <4>1, <4>2, <4>3, ClusterHolds DEF Serve
    <3> QED BY <3>1, <3>2 DEF Failover!Accepts
  <2>4. ASSUME x \in writes, up' = up, UNCHANGED current_leader_id
        PROVE  Failover!Accepts(x.node)'
    BY <2>2, <2>4 DEF Failover!Accepts
  <2>5. ASSUME NEW n \in Node, Receive(n) PROVE Failover!Accepts(x.node)'
    <3>1. x \in writes /\ up' = up
      BY <2>5 DEF Receive, ReceiveSelfPromotion, TakeSnapshot, SendSnapshot,
         ReceiveSyncResponse, ReceivePush, ReceiveHeartBeat, data, cluster,
         Failover!ReceiveSelfPromotion, Failover!ReceiveSyncResponse,
         Failover!DropSyncResponse, Failover!ReceiveHeartBeat
    <3>2. CASE ReceiveSelfPromotion(n)
      <4>1. /\ Failover!Handles(n, "SELF_PROMOTION")
            /\ current_leader_id' = [current_leader_id EXCEPT ![n] = Head(inbox[n]).from]
        BY <3>2 DEF ReceiveSelfPromotion, Failover!ReceiveSelfPromotion
      <4>2. x.node # n
        BY <2>1, <2>2, <3>1, <4>1, NoticeFacts DEF Failover!Accepts
      <4>3. current_leader_id'[x.node] = current_leader_id[x.node]
        BY <2>2, <3>1, <4>1, <4>2 DEF Typed, Placed
      <4> QED BY <2>2, <3>1, <4>3 DEF Failover!Accepts
    <3>3. CASE ~ReceiveSelfPromotion(n)
      <4>1. UNCHANGED current_leader_id
        BY <2>5, <3>3 DEF Receive, TakeSnapshot, SendSnapshot, ReceiveSyncResponse,
           ReceivePush, ReceiveHeartBeat, cluster, Failover!ReceiveSyncResponse,
           Failover!DropSyncResponse, Failover!ReceiveHeartBeat
      <4> QED BY <2>4, <3>1, <4>1
    <3> QED BY <3>2, <3>3
  <2>6. ASSUME NEW n \in Node, Detect(n) PROVE Failover!Accepts(x.node)'
    <3>1. x \in writes /\ up' = up
      BY <2>6 DEF Detect, data, Failover!Detect, Failover!Proceed, Failover!WakeUp,
         Failover!Examine, Failover!CheckLeader, Failover!Elect, Failover!Promote,
         Failover!Announce, Failover!Announced
    <3>2. CASE Failover!Promote(n)
      BY <2>2, <3>1, <3>2 DEF Failover!Promote, Failover!Accepts, Typed, Placed
    <3>3. CASE ~Failover!Promote(n)
      <4>1. UNCHANGED current_leader_id
        BY <2>6, <3>3 DEF Detect, Failover!Detect, Failover!Proceed, Failover!WakeUp,
           Failover!Examine, Failover!CheckLeader, Failover!Elect, Failover!Announce,
           Failover!Announced
      <4> QED BY <2>4, <3>1, <4>1
    <3> QED BY <3>2, <3>3
  <2>7. ASSUME NEW n \in Node, Crash(n) PROVE Failover!Accepts(x.node)'
    BY <2>2, <2>7 DEF Crash, Failover!Crash, Failover!Accepts, Typed, Placed
  <2>8. ASSUME NEW n \in Node, PullLeaderData(n) PROVE Failover!Accepts(x.node)'
    BY <2>4, <2>8 DEF PullLeaderData
  <2>9. CASE UNCHANGED vars
    BY <2>4, <2>9 DEF vars, cluster, data
  <2> QED BY <2>1, <2>3, <2>5, <2>6, <2>7, <2>8, <2>9 DEF Next
<1> QED BY <1>1, <1>2, ElectedInvariant, PTL DEF Spec

-----------------------------------------------------------------------------
(* Notices of new leaders                                                  *)

\* A notice of n in a queue, and in that of m.
Tells(queue, n) ==
    \E i \in 1..Len(queue) : queue[i] = [type |-> "SELF_PROMOTION", from |-> n]
Notice(n, m) == Tells(inbox[m], n)

LEMMA TellsAppend ==
    ASSUME NEW queue \in Seq(Message), NEW msg \in Message, NEW n \in Node,
           Tells(Append(queue, msg), n)
    PROVE  Tells(queue, n) \/ (msg.type = "SELF_PROMOTION" /\ msg.from = n)
<1>1. PICK i \in 1..(Len(queue) + 1) :
        Append(queue, msg)[i] = [type |-> "SELF_PROMOTION", from |-> n]
  BY DEF Tells
<1>2. CASE i = Len(queue) + 1
  <2>1. msg = [type |-> "SELF_PROMOTION", from |-> n]
    BY <1>1, <1>2
  <2> QED BY <2>1
<1>3. CASE i # Len(queue) + 1
  BY <1>1, <1>3 DEF Tells
<1> QED BY <1>2, <1>3

LEMMA TellsTail ==
    ASSUME NEW queue \in Seq(Message), queue # << >>, NEW n \in Node, Tells(Tail(queue), n)
    PROVE  Tells(queue, n)
<1>1. PICK i \in 1..Len(Tail(queue)) :
        Tail(queue)[i] = [type |-> "SELF_PROMOTION", from |-> n]
  BY DEF Tells
<1>2. i + 1 \in 1..Len(queue) /\ queue[i + 1] = Tail(queue)[i]
  BY <1>1
<1> QED BY <1>1, <1>2 DEF Tells

LEMMA TellsAppended ==
    ASSUME NEW queues \in [Node -> Seq(Message)], NEW to \in Node, NEW msg \in Message,
           NEW n \in Node, NEW m \in Node, Tells(Appended(queues, to, msg)[m], n)
    PROVE  \/ Tells(queues[m], n)
           \/ (m = to /\ msg.type = "SELF_PROMOTION" /\ msg.from = n)
<1>1. \/ Appended(queues, to, msg)[m] = queues[m]
      \/ /\ m = to
         /\ Appended(queues, to, msg)[m] = Append(queues[m], msg)
  BY DEF Appended
<1>2. queues[m] \in Seq(Message)
  OBVIOUS
<1>3. Tells(Append(queues[m], msg), n)
        => Tells(queues[m], n) \/ (msg.type = "SELF_PROMOTION" /\ msg.from = n)
  BY <1>2, TellsAppend
<1>4. Tells(queues[m], n) \/ (m = to /\ Tells(Append(queues[m], msg), n))
  BY <1>1
<1> QED BY <1>3, <1>4

LEMMA TellsHandled ==
    ASSUME inbox \in [Node -> Seq(Message)], NEW k \in Node, inbox[k] # << >>,
           NEW n \in Node, NEW m \in Node, Tells(Failover!Handled(k)[m], n)
    PROVE  Notice(n, m)
<1>1. \/ Failover!Handled(k)[m] = inbox[m]
      \/ /\ m = k
         /\ Failover!Handled(k)[m] = Tail(inbox[m])
  BY DEF Failover!Handled
<1>2. inbox[m] \in Seq(Message)
  OBVIOUS
<1> QED BY <1>1, <1>2, TellsTail DEF Notice

\* A notice is there before a step, or its sender sends it.
LEMMA NoticeSource ==
    ASSUME Typed, Asked, [Next]_vars, NEW n \in Node, NEW m \in Node, Notice(n, m)'
    PROVE  Notice(n, m) \/ (pc[n] = "announce" /\ m \in announcing[n])
<1> DEFINE Goal == Notice(n, m) \/ (pc[n] = "announce" /\ m \in announcing[n])
<1>0. /\ inbox \in [Node -> Seq(Message)]
      /\ Tells(inbox'[m], n)
  BY DEF Typed, TypeOK, Notice
<1>1. ASSUME inbox' = inbox PROVE Notice(n, m)
  BY <1>0, <1>1 DEF Notice
<1>2. ASSUME NEW to \in Node, NEW msg \in Message, msg.type # "SELF_PROMOTION",
             inbox' = inbox \/ inbox' = Appended(inbox, to, msg)
      PROVE  Notice(n, m)
  <2>1. ASSUME inbox' = Appended(inbox, to, msg) PROVE Tells(inbox[m], n)
    <3>1. Tells(Appended(inbox, to, msg)[m], n)
      BY <1>0, <2>1
    <3> QED BY <1>0, <1>2, <3>1, TellsAppended
  <2> QED BY <1>1, <1>2, <2>1 DEF Notice
<1>3. ASSUME NEW k \in Node, inbox[k] # << >>, inbox' = Failover!Handled(k)
      PROVE  Notice(n, m)
  BY <1>0, <1>3, TellsHandled
<1>4. ASSUME NEW k \in Node, inbox[k] # << >>, NEW to \in Node, NEW msg \in Message,
             msg.type # "SELF_PROMOTION", NEW follower,
             Failover!Send(Failover!Handled(k), to, msg, follower)
      PROVE  Notice(n, m)
  <2>1. Failover!Handled(k) \in [Node -> Seq(Message)]
    BY <1>0, <1>4, HandledBare
  <2>2. \/ inbox' = Failover!Handled(k)
        \/ inbox' = Appended(Failover!Handled(k), to, msg)
    BY <1>4, SendArrives
  <2>3. ASSUME inbox' = Appended(Failover!Handled(k), to, msg)
        PROVE  Tells(Failover!Handled(k)[m], n)
    <3>1. Tells(Appended(Failover!Handled(k), to, msg)[m], n)
      BY <1>0, <2>3
    <3> QED BY <1>4, <2>1, <3>1, TellsAppended
  <2>4. Tells(Failover!Handled(k)[m], n)
    BY <1>0, <2>2, <2>3
  <2> QED BY <1>0, <1>4, <2>4, TellsHandled
<1>5. ASSUME Serve PROVE Notice(n, m)
  <2>1. ASSUME NEW w \in writes, NEW f \in Node, Push(w, f) PROVE Notice(n, m)
    <3> DEFINE msg == [type |-> "LOCAL_SYNC_PUSH", from |-> w.node, key |-> w.key,
                       value |-> w.value]
    <3>1. msg \in Message /\ msg.type # "SELF_PROMOTION"
      BY DEF Typed, TypeOK, Write, Message
    <3>2. inbox' = inbox \/ inbox' = Appended(inbox, f, msg)
      BY <2>1 DEF Push, Appended
    <3> HIDE DEF msg
    <3> QED BY <1>2, <3>1, <3>2
  <2> QED BY <1>1, <1>5, <2>1 DEF Serve, Admit, StorePair, Respond, cluster
<1>6. ASSUME NEW k \in Node, Receive(k) PROVE Notice(n, m)
  <2>1. inbox[k] # << >> => Head(inbox[k]) \in Message /\ Head(inbox[k]).from \in Node
    BY <1>0, HandledBare DEF Message
  <2>2. ASSUME ReceiveSelfPromotion(k) PROVE Notice(n, m)
    <3> DEFINE msg == [type |-> "SYNC_REQUEST", from |-> k]
    <3>1. msg \in Message /\ msg.type # "SELF_PROMOTION"
      BY RepliesTyped, EmptyIsStore
    <3>2. /\ inbox[k] # << >>
          /\ Failover!Send(Failover!Handled(k), Head(inbox[k]).from, msg, k)
      BY <2>2 DEF ReceiveSelfPromotion, Failover!ReceiveSelfPromotion, Failover!Handles
    <3> HIDE DEF msg
    <3> QED BY <1>4, <2>1, <3>1, <3>2
  <2>3. ASSUME SendSnapshot(k) PROVE Notice(n, m)
    <3>1. PICK copy \in answering[k] :
            Failover!Send(Failover!Handled(k), Head(inbox[k]).from,
                          [type |-> "SYNC_RESPONSE", from |-> k, data |-> copy],
                          Head(inbox[k]).from)
      BY <2>3 DEF SendSnapshot
    <3> DEFINE msg == [type |-> "SYNC_RESPONSE", from |-> k, data |-> copy]
    <3>2. inbox[k] # << >> /\ copy \in Store
      BY <3>1 DEF Asked, Failover!Handles, Typed, TypeOK
    <3>3. msg \in Message /\ msg.type # "SELF_PROMOTION"
      BY <3>2, RepliesTyped
    <3>4. Failover!Send(Failover!Handled(k), Head(inbox[k]).from, msg, Head(inbox[k]).from)
      BY <3>1
    <3> HIDE DEF msg
    <3> QED BY <1>4, <2>1, <3>2, <3>3, <3>4
  <2> QED BY <1>1, <1>3, <1>6, <2>2, <2>3
         DEF Receive, TakeSnapshot, ReceiveSyncResponse, ReceivePush, ReceiveHeartBeat, cluster,
             Failover!ReceiveSyncResponse, Failover!DropSyncResponse, Failover!ReceiveHeartBeat,
             Failover!Handles
<1>7. ASSUME NEW k \in Node, Detect(k) PROVE Goal
  <2>1. ASSUME NEW f \in Node, Failover!Announce(k, f) PROVE Goal
    <3> DEFINE msg == [type |-> "SELF_PROMOTION", from |-> k]
    <3>1. msg \in Message /\ msg.from = k
      BY RepliesTyped, EmptyIsStore
    <3>2. /\ pc[k] = "announce" /\ f \in announcing[k]
          /\ inbox' = inbox \/ inbox' = Appended(inbox, f, msg)
      BY <2>1, SendArrives DEF Failover!Announce
    <3> HIDE DEF msg
    <3>3. inbox' = Appended(inbox, f, msg) => Notice(n, m) \/ (m = f /\ n = k)
      <4>1. ASSUME inbox' = Appended(inbox, f, msg)
            PROVE  Tells(inbox[m], n) \/ (m = f /\ msg.from = n)
        <5>1. Tells(Appended(inbox, f, msg)[m], n)
          BY <1>0, <4>1
        <5> QED BY <1>0, <3>1, <5>1, TellsAppended
      <4> QED BY <3>1, <4>1 DEF Notice
    <3> QED BY <1>1, <3>2, <3>3
  <2> QED BY <1>1, <1>7, <2>1 DEF Detect, Node, Failover!Detect, Failover!Proceed, Failover!WakeUp,
         Failover!Examine, Failover!CheckLeader, Failover!Elect, Failover!Promote,
         Failover!Announced
<1>8. ASSUME NEW k \in Node, Crash(k) PROVE Notice(n, m)
  <2>1. inbox'[m] = inbox[m] \/ inbox'[m] = << >>
    BY <1>0, <1>8 DEF Crash, Failover!Crash
  <2>2. ~Tells(<< >>, n)
    BY DEF Tells
  <2> QED BY <1>0, <2>1, <2>2 DEF Notice
<1>9. ASSUME NEW k \in Node, Start(k) PROVE Notice(n, m)
  BY <1>1, <1>9 DEF Start
<1>10. ASSUME NEW k \in Node, PullLeaderData(k) PROVE Notice(n, m)
  <2> DEFINE msg == [type |-> "SYNC_REQUEST", from |-> k]
  <2>1. msg \in Message /\ msg.type # "SELF_PROMOTION"
    BY RepliesTyped, EmptyIsStore
  <2>2. /\ inbox' = inbox \/ inbox' = Appended(inbox, current_leader_id[k], msg)
        /\ current_leader_id[k] \in Node
    BY <1>10, SendArrives DEF PullLeaderData, Typed, Placed
  <2> HIDE DEF msg
  <2> QED BY <1>2, <2>1, <2>2
<1>11. ASSUME UNCHANGED vars PROVE Notice(n, m)
  BY <1>1, <1>11 DEF vars, cluster
<1> QED BY <1>5, <1>6, <1>7, <1>8, <1>9, <1>10, <1>11 DEF Next

-----------------------------------------------------------------------------
(* Who has stayed                                                          *)

\* A node that is up and has not booted again.
Stayed(n) == up[n] /\ n \notin rebooted

\* What a step may do to the detector, the election and the leader of a node whose
\* detector makes no mistake.
Moves(n) ==
    /\ rebooted \subseteq rebooted'
    /\ up'[n] => up[n] \/ n \in rebooted'
    /\ \A m \in suspects'[n] : m \in suspects[n] \/ ~up[m]
    /\ \A m \in Node : is_alive[n][m] => is_alive'[n][m] \/ m \in suspects[n]
    /\ n \in announcing'[n] => n \in announcing[n]
    /\ pc'[n] = "check" => pc[n] = "check" \/ InitLeader \in suspects[n]
    /\ pc'[n] = "elect" =>
          pc[n] = "elect" \/ (pc[n] = "check" /\ leaf_role[n] = "PROMOTION_READY_REPLICA")
    /\ pc'[n] = "promote" => pc[n] = "promote" \/ (pc[n] = "elect" /\ Failover!IsLowest(n))
    /\ pc'[n] = "announce" =>
          pc[n] = "announce" \/ (pc[n] = "promote" /\ current_leader_id'[n] = n)
    /\ \/ leaf_role'[n] = leaf_role[n]
       \/ leaf_role'[n] = "LOCAL_LEADER"
       \/ n # InitLeader
    /\ \/ current_leader_id'[n] = current_leader_id[n]
       \/ pc[n] = "promote" /\ current_leader_id'[n] = n
       \/ ~up[n] /\ n \in rebooted' /\ current_leader_id'[n] = InitLeader
       \/ up[n] /\ Notice(current_leader_id'[n], n)

LEMMA HeadNotice ==
    ASSUME Typed, NEW n \in Node, Failover!Handles(n, "SELF_PROMOTION")
    PROVE  Notice(Head(inbox[n]).from, n) /\ Head(inbox[n]).from \in Node
<1>1. /\ inbox[n] \in Seq(Message) /\ inbox[n] # << >>
      /\ Head(inbox[n]).type = "SELF_PROMOTION"
  BY DEF Failover!Handles, Typed, TypeOK
<1>2. /\ Head(inbox[n]) \in Message /\ Head(inbox[n]) = inbox[n][1]
      /\ 1 \in 1..Len(inbox[n])
  BY <1>1
<1>3. /\ Head(inbox[n]) = [type |-> "SELF_PROMOTION", from |-> Head(inbox[n]).from]
      /\ Head(inbox[n]).from \in Node
  BY <1>1, <1>2 DEF Message
<1> QED BY <1>2, <1>3 DEF Notice, Tells

LEMMA FirstSuspect ==
    ASSUME Typed, NEW n \in Node, suspects[n] # {}
    PROVE  Failover!First(suspects[n]) \in suspects[n]
<1>1. /\ suspects[n] \in SUBSET Proven!Node
      /\ Proven!ClusterAssumption
  BY ClusterHolds DEF Typed, Placed, Node, Failover!Node, Proven!Node
<1>2. Proven!First(suspects[n]) \in suspects[n]
  BY <1>1, Proven!FirstIsMember
<1> QED BY <1>2 DEF Proven!First, Failover!First

LEMMA AllMove ==
    ASSUME Typed, MaxMistakes = 0, [Next]_vars, NEW n \in Node
    PROVE  Moves(n)
<1>0. /\ current_leader_id \in [Node -> Node]
      /\ up \in [Node -> BOOLEAN]
      /\ is_alive \in [Node -> [Node -> BOOLEAN]]
      /\ suspects \in [Node -> SUBSET Node]
      /\ announcing \in [Node -> SUBSET Node]
      /\ leaf_role \in [Node -> Failover!KiviLeafRole]
      /\ pc \in [Node -> Failover!PC]
      /\ InitLeader \in Node
  BY ClusterHolds DEF Typed, Placed
<1>1. ASSUME UNCHANGED <<up, leaf_role, current_leader_id, is_alive, suspects, pc, announcing,
                         rebooted>>
      PROVE  Moves(n)
  BY <1>1 DEF Moves
<1>2. CASE Serve
  <2>1. UNCHANGED <<up, leaf_role, current_leader_id, is_alive, suspects, pc, announcing, rebooted>>
    BY <1>2 DEF Serve, Admit, StorePair, Push, Respond, cluster
  <2> QED BY <1>1, <2>1
<1>3. ASSUME NEW k \in Node, ReceiveSelfPromotion(k) PROVE Moves(n)
  <2>1. /\ Failover!Handles(k, "SELF_PROMOTION")
        /\ current_leader_id' = [current_leader_id EXCEPT ![k] = Head(inbox[k]).from]
        /\ UNCHANGED <<up, leaf_role, is_alive, suspects, pc, announcing, rebooted>>
    BY <1>3 DEF ReceiveSelfPromotion, Failover!ReceiveSelfPromotion, Failover!detector, data
  <2>2. up[k] /\ Notice(Head(inbox[k]).from, k)
    BY <2>1, HeadNotice DEF Failover!Handles
  <2>3. \/ current_leader_id'[n] = current_leader_id[n]
        \/ up[n] /\ Notice(current_leader_id'[n], n)
    BY <1>0, <2>1, <2>2
  <2> QED BY <2>1, <2>3 DEF Moves
<1>4. ASSUME NEW k \in Node, NEW m \in Node, ReceiveHeartBeat(k, m) PROVE Moves(n)
  BY <1>0, <1>4 DEF ReceiveHeartBeat, Failover!ReceiveHeartBeat, data, Moves
<1>5. ASSUME NEW k \in Node, Receive(k) PROVE Moves(n)
  BY <1>1, <1>3, <1>4, <1>5 DEF Receive, TakeSnapshot, SendSnapshot, ReceiveSyncResponse,
     ReceivePush, Failover!ReceiveSyncResponse, Failover!DropSyncResponse,
     Failover!detector, cluster
<1>6. ASSUME NEW k \in Node, NEW peers \in SUBSET {m \in Node \ {k} : is_alive[k][m]},
             Failover!WakeUp(k, peers), UNCHANGED data
      PROVE  Moves(n)
  <2>1. /\ mistakes' = mistakes + Cardinality(peers \ Failover!Gone(k))
        /\ mistakes' <= MaxMistakes /\ mistakes = 0
    BY <1>6, SameCardinality DEF Failover!WakeUp, Typed, Placed
  <2>2. IsFiniteSet(peers \ Failover!Gone(k))
    BY NodesAreFinite, FS_Subset
  <2>3. Cardinality(peers \ Failover!Gone(k)) = 0
    BY <2>1, <2>2, FS_CardinalityType
  <2>4. peers \ Failover!Gone(k) = {}
    BY <2>2, <2>3, FS_EmptySet
  <2>5. \A m \in peers : ~up[m]
    BY <2>4 DEF Failover!Gone
  <2> QED BY <1>0, <1>6, <2>5 DEF Failover!WakeUp, data, Moves
<1>7. ASSUME NEW k \in Node, Failover!Examine(k), UNCHANGED data PROVE Moves(n)
  <2> DEFINE m == Failover!First(suspects[k])
  <2>1. /\ is_alive' = [is_alive EXCEPT ![k][m] = FALSE]
        /\ suspects' = [suspects EXCEPT ![k] = @ \ {m}]
        /\ pc' = [pc EXCEPT ![k] = IF m = InitLeader THEN "check" ELSE "scan"]
        /\ UNCHANGED <<up, leaf_role, current_leader_id, announcing, rebooted>>
    BY <1>7 DEF Failover!Examine, data
  <2>2. m \in suspects[k]
    BY <1>7, FirstSuspect DEF Failover!Examine
  <2> HIDE DEF m
  <2> QED BY <1>0, <2>1, <2>2 DEF Moves
<1>8. ASSUME NEW k \in Node, Failover!CheckLeader(k) \/ Failover!Elect(k), UNCHANGED data
      PROVE  Moves(n)
  BY <1>0, <1>8 DEF Failover!CheckLeader, Failover!Elect, Failover!GoOn, data, Moves
<1>9. ASSUME NEW k \in Node, Failover!Promote(k), UNCHANGED data PROVE Moves(n)
  BY <1>0, <1>9 DEF Failover!Promote, data, Moves, Node
<1>10. ASSUME NEW k \in Node, NEW m \in Node, Failover!Announce(k, m), UNCHANGED data
       PROVE  Moves(n)
  BY <1>0, <1>10 DEF Failover!Announce, data, Moves
<1>11. ASSUME NEW k \in Node, Failover!Announced(k), UNCHANGED data PROVE Moves(n)
  BY <1>0, <1>11 DEF Failover!Announced, data, Moves
<1>12. ASSUME NEW k \in Node, Detect(k) PROVE Moves(n)
  BY <1>6, <1>7, <1>8, <1>9, <1>10, <1>11, <1>12
     DEF Detect, Failover!Detect, Failover!Proceed, Node
<1>13. ASSUME NEW k \in Node, Crash(k) PROVE Moves(n)
  BY <1>0, <1>13 DEF Crash, Failover!Crash, Failover!detector, Moves
<1>14. ASSUME NEW k \in Node, Start(k) PROVE Moves(n)
  BY <1>0, <1>14 DEF Start, Moves
<1>15. ASSUME NEW k \in Node, PullLeaderData(k) PROVE Moves(n)
  BY <1>1, <1>15 DEF PullLeaderData
<1>16. CASE UNCHANGED vars
  BY <1>1, <1>16 DEF vars, cluster, data
<1> QED BY <1>2, <1>5, <1>12, <1>13, <1>14, <1>15, <1>16 DEF Next

\* Who has stayed is marked alive by everybody.
SeenAlive ==
    \A n, m \in Node : Stayed(m) => is_alive[n][m] /\ m \notin suspects[n]

\* While the first leader stays nobody else does anything about the leadership.
Calm ==
    Stayed(InitLeader) => \A n \in Node :
        /\ pc[n] = "scan"
        /\ current_leader_id[n] = InitLeader
        /\ \A m \in Node : ~Notice(n, m)

\* Who is about to lead, has led or is followed.
Claims(n) ==
    \/ pc[n] \in {"promote", "announce"}
    \/ \E m \in Node : current_leader_id[m] = n \/ Notice(n, m)

\* A new leader is lower than all that have stayed.
LowestClaims ==
    \A n, m \in Node : n # InitLeader /\ Claims(n) /\ Stayed(m) => n <= m

\* The first leader is never elected again: its role does not change.
OldLeaderRests ==
    /\ leaf_role[InitLeader] = "LOCAL_LEADER"
    /\ pc[InitLeader] \in {"scan", "check"}
    /\ \A m \in Node : ~Notice(InitLeader, m)

TellsOthers == \A n \in Node : n \notin announcing[n] /\ ~Notice(n, n)

\* A new leader that has stayed leads as long as another that has stayed follows it.
Settled ==
    \A n, k \in Node :
        /\ Stayed(n) /\ Stayed(k) /\ n # k /\ k # InitLeader
        /\ pc[k] = "announce" \/ current_leader_id[n] = k \/ Notice(k, n)
        => current_leader_id[k] = k

StayedInv == SeenAlive /\ Calm /\ LowestClaims /\ OldLeaderRests /\ TellsOthers /\ Settled

LEMMA InitStayed == Init => StayedInv
<1> SUFFICES ASSUME Init PROVE StayedInv
  OBVIOUS
<1>1. \A n \in Node :
        /\ current_leader_id[n] = InitLeader
        /\ suspects[n] = {}
        /\ pc[n] = "scan"
        /\ announcing[n] = {}
        /\ inbox[n] = << >>
        /\ \A m \in Node : is_alive[n][m]
  BY DEF Init, Failover!Init, Node
<1>2. \A n, m \in Node : ~Notice(n, m)
  BY <1>1 DEF Notice, Tells
<1>3. leaf_role[InitLeader] = "LOCAL_LEADER"
  BY ClusterHolds DEF Init, Failover!Init, Node
<1> QED BY <1>1, <1>2, <1>3, ClusterHolds
       DEF StayedInv, SeenAlive, Calm, Claims, LowestClaims, OldLeaderRests, TellsOthers, Settled

\* With at most three nodes there is no room for a fourth.
LEMMA NoFourth ==
    ASSUME Len(Cluster) <= 3, NEW a \in Node, NEW b \in Node, NEW c \in Node, NEW d \in Node
    PROVE  ~(a # b /\ a # c /\ a # d /\ b # c /\ b # d /\ c # d)
<1>1. /\ Node = {Cluster[i] : i \in DOMAIN Cluster}
      /\ DOMAIN Cluster = 1..Len(Cluster) /\ Len(Cluster) \in Nat
  BY LeafAssumption DEF Node, Failover!Node
<1>2. PICK i \in 1..Len(Cluster) : a = Cluster[i]
  BY <1>1
<1>3. PICK j \in 1..Len(Cluster) : b = Cluster[j]
  BY <1>1
<1>4. PICK k \in 1..Len(Cluster) : c = Cluster[k]
  BY <1>1
<1>5. PICK l \in 1..Len(Cluster) : d = Cluster[l]
  BY <1>1
<1>6. i \in 1..3 /\ j \in 1..3 /\ k \in 1..3 /\ l \in 1..3
  BY <1>1
<1>7. i = j \/ i = k \/ i = l \/ j = k \/ j = l \/ k = l
  BY <1>6
<1> QED BY <1>2, <1>3, <1>4, <1>5, <1>7

LEMMA NextStayed ==
    ASSUME Typed, Asked, StayedInv, MaxMistakes = 0, Len(Cluster) <= 3, [Next]_vars
    PROVE  StayedInv'
<1>1. \A n \in Node : Moves(n)
  BY AllMove
<1>2. \A n, m \in Node :
        Notice(n, m)' => Notice(n, m) \/ (pc[n] = "announce" /\ m \in announcing[n])
  BY NoticeSource
<1>3. /\ InitLeader \in Node /\ Node \subseteq Nat
      /\ \A n \in Node : /\ current_leader_id[n] \in Node
                         /\ current_leader_id'[n] \in Node
                         /\ suspects[n] \subseteq Node
                         /\ suspects'[n] \subseteq Node
                         /\ pc[n] \in Failover!PC
                         /\ pc'[n] \in Failover!PC
  <2>1. Typed'
    BY NextTyped
  <2>2. Node \subseteq Nat
    BY LeafAssumption DEF Node, Failover!Node
  <2> QED BY <2>1, <2>2, ClusterHolds DEF Typed, Placed
<1>4. \A n \in Node : Stayed(n)' => Stayed(n)
  BY <1>1 DEF Moves, Stayed
<1>5. SeenAlive'
  <2> SUFFICES ASSUME NEW n \in Node, NEW m \in Node, Stayed(m)'
               PROVE  is_alive'[n][m] /\ m \notin suspects'[n]
    BY DEF SeenAlive, Stayed
  <2>1. Stayed(m) /\ up[m] /\ is_alive[n][m] /\ m \notin suspects[n]
    BY <1>4 DEF StayedInv, SeenAlive, Stayed
  <2> QED BY <1>1, <2>1 DEF Moves
<1>6. Calm'
  <2> SUFFICES ASSUME Stayed(InitLeader)', NEW n \in Node
               PROVE  /\ pc'[n] = "scan"
                      /\ current_leader_id'[n] = InitLeader
                      /\ \A m \in Node : ~Notice(n, m)'
    BY DEF Calm, Stayed
  <2>1. /\ pc[n] = "scan" /\ current_leader_id[n] = InitLeader
        /\ \A k, m \in Node : ~Notice(k, m)
        /\ InitLeader \notin suspects[n]
    BY <1>3, <1>4 DEF StayedInv, Calm, SeenAlive
  <2>2. pc'[n] = "scan"
    BY <1>1, <1>3, <2>1 DEF Moves, Failover!PC
  <2>3. current_leader_id'[n] = InitLeader
    BY <1>1, <1>3, <2>1 DEF Moves
  <2> QED BY <1>2, <2>1, <2>2, <2>3
<1>7. OldLeaderRests'
  BY <1>1, <1>2, <1>3 DEF StayedInv, OldLeaderRests, Moves, Failover!PC
<1>8. TellsOthers'
  BY <1>1, <1>2 DEF StayedInv, TellsOthers, Moves
<1>9. LowestClaims'
  <2> SUFFICES ASSUME NEW n \in Node, NEW m \in Node, n # InitLeader, Claims(n)', Stayed(m)'
               PROVE  n <= m
    BY DEF LowestClaims, Claims, Stayed, Notice
  <2>1. Stayed(m) /\ is_alive[n][m]
    BY <1>4 DEF StayedInv, SeenAlive
  <2>2. CASE pc[n] = "elect" /\ Failover!IsLowest(n)
    BY <2>1, <2>2 DEF Failover!IsLowest, Node
  <2>3. CASE Claims(n)
    BY <2>1, <2>3 DEF StayedInv, LowestClaims
  <2>4. (pc[n] = "elect" /\ Failover!IsLowest(n)) \/ Claims(n)
    <3>1. CASE pc'[n] \in {"promote", "announce"}
      BY <1>1, <3>1 DEF Moves, Claims
    <3>2. ASSUME NEW k \in Node, current_leader_id'[k] = n PROVE Claims(n)
      BY <1>1, <3>2 DEF Moves, Claims
    <3>3. ASSUME NEW k \in Node, Notice(n, k)' PROVE Claims(n)
      BY <1>2, <3>3 DEF Claims
    <3> QED BY <3>1, <3>2, <3>3 DEF Claims
  <2> QED BY <2>2, <2>3, <2>4
<1>10. Settled'
  <2> SUFFICES ASSUME NEW n \in Node, NEW k \in Node, Stayed(n)', Stayed(k)', n # k,
                      k # InitLeader,
                      pc'[k] = "announce" \/ current_leader_id'[n] = k \/ Notice(k, n)'
               PROVE  current_leader_id'[k] = k
    BY DEF Settled, Stayed, Notice
  <2>1. Stayed(n) /\ Stayed(k) /\ up[n] /\ up[k]
    BY <1>4 DEF Stayed
  <2>2. CASE pc[k] = "promote" /\ current_leader_id'[k] = k
    BY <2>2
  <2>3. CASE pc[k] = "announce" \/ current_leader_id[n] = k \/ Notice(k, n)
    <3>1. current_leader_id[k] = k
      BY <2>1, <2>3 DEF StayedInv, Settled
    <3>2. Claims(k)
      BY <2>3 DEF Claims
    <3>3. ASSUME Notice(current_leader_id'[k], k), current_leader_id'[k] # k PROVE FALSE
      <4> DEFINE j == current_leader_id'[k]
      <4>1. j \in Node /\ Claims(j) /\ j # InitLeader
        BY <1>3, <3>3 DEF Claims, StayedInv, OldLeaderRests
      <4>2. j <= n /\ k <= n
        BY <2>1, <3>2, <4>1 DEF StayedInv, LowestClaims
      <4>3. n # InitLeader
        BY <2>1, <3>1, <1>3 DEF StayedInv, Calm
      <4>4. j # n
        BY <2>1, <3>2, <4>1, <4>2, <1>3 DEF StayedInv, LowestClaims
      <4> QED BY <1>3, <3>3, <4>1, <4>3, <4>4, NoFourth
    <3> QED BY <1>1, <2>1, <3>1, <3>3 DEF Moves
  <2>4. \/ pc[k] = "promote" /\ current_leader_id'[k] = k
        \/ pc[k] = "announce" \/ current_leader_id[n] = k \/ Notice(k, n)
    BY <1>1, <1>2, <2>1 DEF Moves
  <2> QED BY <2>2, <2>3, <2>4
<1> QED BY <1>5, <1>6, <1>7, <1>8, <1>9, <1>10 DEF StayedInv

\* With an accurate detector, and no more than the three nodes of main.cpp, two nodes accept
\* writes at once, or a redirect leads to a node that is up and does not accept them, only if
\* one of the two has booted again (kivileaf.cpp, try_self_promote; main.cpp).
THEOREM OnlyTheRebootedMislead ==
    ASSUME MaxMistakes = 0, Len(Cluster) <= 3
    PROVE  Spec => []OnlyRebootsMislead
<1>1. Typed /\ StayedInv => OnlyRebootsMislead
  <2> SUFFICES ASSUME Typed, StayedInv PROVE OnlyRebootsMislead
    OBVIOUS
  <2>1. InitLeader \in Node /\ Node \subseteq Nat /\ \A n \in Node : current_leader_id[n] \in Node
    <3>1. Node \subseteq Nat
      BY LeafAssumption DEF Node, Failover!Node
    <3> QED BY <3>1, ClusterHolds DEF Typed, Placed
  <2>2. ASSUME NEW n \in Node, NEW m \in Node, Failover!Accepts(n), Failover!Accepts(m), n # m,
               Stayed(n), Stayed(m)
        PROVE  FALSE
    <3>1. current_leader_id[n] = n /\ current_leader_id[m] = m
      BY <2>2 DEF Failover!Accepts
    <3>2. n # InitLeader /\ m # InitLeader
      BY <2>2, <3>1 DEF StayedInv, Calm
    <3>3. n <= m /\ m <= n
      BY <2>2, <3>1, <3>2 DEF StayedInv, LowestClaims, Claims
    <3> QED BY <2>1, <2>2, <3>3
  <2>3. ASSUME NEW n \in Node, Stayed(n), Stayed(current_leader_id[n]),
               current_leader_id[current_leader_id[n]] # current_leader_id[n]
        PROVE  FALSE
    BY <2>1, <2>3 DEF StayedInv, Calm, Settled
  <2> QED BY <2>1, <2>2, <2>3 DEF OnlyRebootsMislead, Stayed, Failover!Accepts
<1>2. Init => StayedInv
  BY InitStayed
<1>3. Typed /\ Asked /\ BootsPull /\ StayedInv /\ [Next]_vars => StayedInv'
  BY NextStayed
<1> QED BY <1>1, <1>2, <1>3, BootsInvariant, PTL DEF Spec

-----------------------------------------------------------------------------
(* What a step does to the queues, the stores and the PUTs in progress     *)

\* A push of key k that is not cut off, and the push of a PUT in progress.
PushOf(msg, k) == msg.type = "LOCAL_SYNC_PUSH" /\ msg.key = k /\ msg.value \notin Long
PushFor(w) == [type |-> "LOCAL_SYNC_PUSH", from |-> w.node, key |-> w.key, value |-> w.value]

\* A message that a step may add to the queue of n.
New(n, msg) ==
    /\ msg \in Message
    /\ up[n]
    /\ \/ msg.type = "SELF_PROMOTION" /\ pc[msg.from] = "announce"
       \/ /\ msg.type = "SYNC_REQUEST"
          /\ pulling[msg.from] \/ Failover!Handles(msg.from, "SELF_PROMOTION")
       \/ /\ msg.type = "SYNC_RESPONSE"
          /\ msg.data \in answering[msg.from]
          /\ Failover!Handles(msg.from, "SYNC_REQUEST")
          /\ Head(inbox[msg.from]).from = n
       \/ \E w \in writes : /\ Push(w, n) /\ n \in w.unsent /\ is_alive[w.node][n]
                            /\ msg = PushFor(w)

\* The queue of n ends up as some queue, or with a message more.
Adds(n, queue) ==
    inbox'[n] = queue \/ \E msg \in Message : New(n, msg) /\ inbox'[n] = Append(queue, msg)

\* The message server of n handles the first message.
Takes(n) ==
    /\ up[n] /\ inbox[n] # << >>
    /\ \A k \in Key : kv'[n][k] =
          IF PushOf(Head(inbox[n]), k) THEN Head(inbox[n]).value
          ELSE IF /\ Head(inbox[n]).type = "SYNC_RESPONSE" /\ Fits(Head(inbox[n]).data)
                  /\ Head(inbox[n]).data[k] # 0
          THEN Head(inbox[n]).data[k]
          ELSE kv[n][k]

\* A step as n's queue and store see it.
Seen(n) ==
    \/ Crash(n)
    \/ Takes(n) /\ Adds(n, Tail(inbox[n]))
    \/ Adds(n, inbox[n]) /\ (kv'[n] = kv[n] \/ \E w \in writes : StorePair(w) /\ w.node = n)

LEMMA SendAdds ==
    ASSUME NEW to \in Node, NEW msg \in Message, up[to] => New(to, msg),
           NEW queues \in [Node -> Seq(Message)],
           inbox' = queues \/ (up[to] /\ inbox' = Appended(queues, to, msg)),
           NEW n \in Node
    PROVE  Adds(n, queues[n])
<1>1. CASE inbox' = queues
  BY <1>1 DEF Adds
<1>2. CASE up[to] /\ inbox' = Appended(queues, to, msg)
  <2>1. inbox'[n] = IF n = to THEN Append(queues[n], msg) ELSE queues[n]
    BY <1>2 DEF Appended
  <2> QED BY <1>2, <2>1 DEF Adds
<1> QED BY <1>1, <1>2

LEMMA ServeSeen ==
    ASSUME Typed, Serve, NEW n \in Node
    PROVE  Seen(n)
<1>0. kv \in [Node -> Store] /\ inbox \in [Node -> Seq(Message)]
  BY DEF Typed, TypeOK
<1>1. CASE inbox' = inbox /\ kv' = kv
  BY <1>1 DEF Seen, Adds
<1>2. ASSUME NEW w \in writes, StorePair(w) PROVE Seen(n)
  <2>1. inbox' = inbox /\ (w.node = n \/ kv'[n] = kv[n])
    BY <1>0, <1>2 DEF StorePair, cluster
  <2> QED BY <1>2, <2>1 DEF Seen, Adds
<1>3. ASSUME NEW w \in writes, NEW f \in Node, Push(w, f) PROVE Seen(n)
  <2>1. PushFor(w) \in Message
    BY DEF Typed, TypeOK, Write, Message, PushFor
  <2>2. kv' = kv /\ f \in w.unsent
    BY <1>3 DEF Push
  <2>3. \/ inbox' = inbox
        \/ is_alive[w.node][f] /\ up[f] /\ inbox' = Appended(inbox, f, PushFor(w))
    BY <1>3 DEF Push, PushFor, Appended
  <2>4. CASE is_alive[w.node][f] /\ up[f] /\ inbox' = Appended(inbox, f, PushFor(w))
    <3>1. New(f, PushFor(w))
      BY <1>3, <2>1, <2>2, <2>4 DEF New
    <3>2. Adds(n, inbox[n])
      BY <1>0, <2>1, <2>4, <3>1, SendAdds
    <3> QED BY <2>2, <3>2 DEF Seen
  <2> QED BY <1>1, <2>2, <2>3, <2>4
<1> QED BY <1>1, <1>2, <1>3 DEF Serve, Admit, Respond, cluster

\* What handling the first message leaves of the queues.
LEMMA HandledLeaves ==
    ASSUME Typed, NEW k \in Node, inbox[k] # << >>, NEW n \in Node
    PROVE  /\ Failover!Handled(k) \in [Node -> Seq(Message)]
           /\ Failover!Handled(k)[n] = IF n = k THEN Tail(inbox[n]) ELSE inbox[n]
           /\ Head(inbox[k]) \in Message /\ Head(inbox[k]).from \in Node
<1>1. inbox \in [Node -> Seq(Message)]
  BY DEF Typed, TypeOK
<1>2. Failover!Handled(k) \in [Node -> Seq(Message)] /\ Head(inbox[k]) \in Message
  BY <1>1, HandledBare
<1> QED BY <1>1, <1>2 DEF Failover!Handled, Message

LEMMA ReceiveSeen ==
    ASSUME Typed, Asked, NEW k \in Node, Receive(k), NEW n \in Node
    PROVE  Seen(n)
<1>0. /\ kv \in [Node -> Store] /\ inbox \in [Node -> Seq(Message)]
      /\ answering \in [Node -> SUBSET Store]
  BY DEF Typed, TypeOK
<1>1. CASE inbox' = inbox /\ kv' = kv
  BY <1>1 DEF Seen, Adds
\* The first message is handled, and changes the store or not.
<1>2. ASSUME inbox[k] # << >>, up[k], Adds(n, Failover!Handled(k)[n]),
             n = k => Takes(k), n # k => kv'[n] = kv[n]
      PROVE  Seen(n)
  BY <1>2, HandledLeaves DEF Seen
<1>3. ASSUME inbox[k] # << >>, up[k], inbox' = Failover!Handled(k),
             n = k => Takes(k), n # k => kv'[n] = kv[n]
      PROVE  Seen(n)
  BY <1>2, <1>3 DEF Adds
<1>4. ASSUME inbox[k] # << >>, up[k], kv' = kv, NEW type,
             Head(inbox[k]).type = type, type # "LOCAL_SYNC_PUSH", type # "SYNC_RESPONSE"
      PROVE  Takes(k)
  BY <1>4 DEF Takes, PushOf
<1>5. CASE ReceiveSelfPromotion(k)
  <2> DEFINE leader == Head(inbox[k]).from
             msg == [type |-> "SYNC_REQUEST", from |-> k]
  <2>1. /\ Failover!Handles(k, "SELF_PROMOTION") /\ kv' = kv
        /\ \/ inbox' = Failover!Handled(k)
           \/ up[leader] /\ inbox' = Appended(Failover!Handled(k), leader, msg)
    BY <1>5, SendArrives DEF ReceiveSelfPromotion, Failover!ReceiveSelfPromotion, data
  <2>2. inbox[k] # << >> /\ up[k] /\ Head(inbox[k]).type = "SELF_PROMOTION"
    BY <2>1 DEF Failover!Handles
  <2>3. msg \in Message /\ msg.type = "SYNC_REQUEST" /\ msg.from = k
    BY RepliesTyped, EmptyIsStore
  <2>4. leader \in Node
    BY <2>2, HandledLeaves
  <2> HIDE DEF msg, leader
  <2>5. up[leader] => New(leader, msg)
    BY <2>1, <2>3 DEF New
  <2>6. Adds(n, Failover!Handled(k)[n])
    BY <2>1, <2>2, <2>3, <2>4, <2>5, SendAdds, HandledLeaves
  <2>7. Takes(k)
    BY <1>4, <2>1, <2>2
  <2> QED BY <1>2, <2>1, <2>2, <2>6, <2>7
<1>6. CASE TakeSnapshot(k)
  BY <1>1, <1>6 DEF TakeSnapshot, cluster
<1>7. CASE SendSnapshot(k)
  <2>1. PICK copy \in answering[k] :
          /\ Failover!Send(Failover!Handled(k), Head(inbox[k]).from,
                           [type |-> "SYNC_RESPONSE", from |-> k, data |-> copy],
                           Head(inbox[k]).from)
          /\ kv' = kv
    BY <1>7 DEF SendSnapshot
  <2> DEFINE to == Head(inbox[k]).from
             msg == [type |-> "SYNC_RESPONSE", from |-> k, data |-> copy]
  <2>2. /\ Failover!Handles(k, "SYNC_REQUEST") /\ inbox[k] # << >> /\ up[k]
        /\ Head(inbox[k]).type = "SYNC_REQUEST" /\ copy \in Store
    BY <1>0 DEF Asked, Failover!Handles
  <2>3. msg \in Message /\ msg.type = "SYNC_RESPONSE" /\ msg.from = k /\ msg.data = copy
    BY <2>2, RepliesTyped
  <2>4. to \in Node
    BY <2>2, HandledLeaves
  <2>5. \/ inbox' = Failover!Handled(k)
        \/ up[to] /\ inbox' = Appended(Failover!Handled(k), to, msg)
    BY <2>1, SendArrives
  <2>6. to = Head(inbox[k]).from
    OBVIOUS
  <2> HIDE DEF msg, to
  <2>7. up[to] => New(to, msg)
    BY <2>1, <2>2, <2>3, <2>6 DEF New
  <2>8. Adds(n, Failover!Handled(k)[n])
    BY <2>2, <2>3, <2>4, <2>5, <2>7, SendAdds, HandledLeaves
  <2>9. Takes(k)
    BY <1>4, <2>1, <2>2
  <2> QED BY <1>2, <2>1, <2>2, <2>8, <2>9
<1>8. CASE ReceiveSyncResponse(k)
  <2> DEFINE copy == Head(inbox[k]).data
             merged == [j \in Key |-> IF copy[j] = 0 THEN kv[k][j] ELSE copy[j]]
  <2>1. Failover!Handles(k, "SYNC_RESPONSE") /\ inbox' = Failover!Handled(k)
    BY <1>8 DEF ReceiveSyncResponse, Failover!ReceiveSyncResponse, Failover!DropSyncResponse
  <2>2. inbox[k] # << >> /\ up[k] /\ Head(inbox[k]).type = "SYNC_RESPONSE"
    BY <2>1 DEF Failover!Handles
  <2>3. IF Fits(copy) THEN kv' = [kv EXCEPT ![k] = merged] ELSE kv' = kv
    BY <1>0, <1>8 DEF ReceiveSyncResponse
  <2>4. kv'[k] = IF Fits(copy) THEN merged ELSE kv[k]
    BY <1>0, <2>3
  <2>5. Takes(k)
    BY <2>2, <2>4 DEF Takes, PushOf
  <2>6. n # k => kv'[n] = kv[n]
    BY <1>0, <2>3
  <2> QED BY <1>3, <2>1, <2>2, <2>5, <2>6
<1>9. CASE ReceivePush(k)
  <2> DEFINE push == Head(inbox[k])
  <2>1. /\ Failover!Handles(k, "LOCAL_SYNC_PUSH") /\ inbox' = Failover!Handled(k)
        /\ kv' = IF push.value \in Long THEN kv
                 ELSE [kv EXCEPT ![k][push.key] = push.value]
    BY <1>9 DEF ReceivePush
  <2>2. inbox[k] # << >> /\ up[k] /\ push.type = "LOCAL_SYNC_PUSH"
    BY <2>1 DEF Failover!Handles
  <2>3. push \in Message
    BY <2>2, HandledLeaves
  <2>4. push.key \in Key
    BY <2>2, <2>3 DEF Message
  <2>5. \A j \in Key : kv'[k][j] = IF j = push.key /\ push.value \notin Long THEN push.value
                                   ELSE kv[k][j]
    BY <1>0, <2>1, <2>4 DEF Store
  <2>6. Takes(k)
    BY <2>2, <2>5 DEF Takes, PushOf
  <2>7. n # k => kv'[n] = kv[n]
    BY <1>0, <2>1
  <2> QED BY <1>3, <2>1, <2>2, <2>6, <2>7
<1>10. ASSUME NEW m \in Node, ReceiveHeartBeat(k, m) PROVE Seen(n)
  BY <1>1, <1>10 DEF ReceiveHeartBeat, Failover!ReceiveHeartBeat, data
<1> QED BY <1>5, <1>6, <1>7, <1>8, <1>9, <1>10 DEF Receive

LEMMA AllSee ==
    ASSUME Typed, Asked, [Next]_vars, NEW n \in Node
    PROVE  Seen(n)
<1>0. /\ kv \in [Node -> Store] /\ inbox \in [Node -> Seq(Message)]
  BY DEF Typed, TypeOK
<1>1. CASE inbox' = inbox /\ kv' = kv
  BY <1>1 DEF Seen, Adds
<1>2. ASSUME NEW k \in Node, Detect(k) PROVE Seen(n)
  <2>1. kv' = kv
    BY <1>2 DEF Detect, data
  <2>2. ASSUME NEW f \in Node, Failover!Announce(k, f) PROVE Seen(n)
    <3> DEFINE msg == [type |-> "SELF_PROMOTION", from |-> k]
    <3>1. msg \in Message /\ msg.from = k /\ msg.type = "SELF_PROMOTION"
      BY RepliesTyped, EmptyIsStore
    <3>2. /\ pc[k] = "announce"
          /\ inbox' = inbox \/ (up[f] /\ inbox' = Appended(inbox, f, msg))
      BY <2>2, SendArrives DEF Failover!Announce
    <3> HIDE DEF msg
    <3>3. up[f] => New(f, msg)
      BY <3>1, <3>2 DEF New
    <3>4. Adds(n, inbox[n])
      BY <1>0, <3>1, <3>2, <3>3, SendAdds
    <3> QED BY <2>1, <3>4 DEF Seen
  <2> QED BY <1>1, <1>2, <2>1, <2>2 DEF Detect, Node, Failover!Detect, Failover!Proceed,
         Failover!WakeUp, Failover!Examine, Failover!CheckLeader, Failover!Elect,
         Failover!Promote, Failover!Announced
<1>3. ASSUME NEW k \in Node, Crash(k), k # n PROVE Seen(n)
  <2>1. inbox'[n] = inbox[n] /\ kv'[n] = kv[n]
    BY <1>0, <1>3 DEF Crash, Failover!Crash
  <2> QED BY <2>1 DEF Seen, Adds
<1>4. ASSUME NEW k \in Node, PullLeaderData(k) PROVE Seen(n)
  <2> DEFINE msg == [type |-> "SYNC_REQUEST", from |-> k]
             to == current_leader_id[k]
  <2>1. msg \in Message /\ msg.from = k /\ msg.type = "SYNC_REQUEST"
    BY RepliesTyped, EmptyIsStore
  <2>2. /\ pulling[k] /\ kv' = kv /\ to \in Node
        /\ inbox' = inbox \/ (up[to] /\ inbox' = Appended(inbox, to, msg))
    BY <1>4, SendArrives DEF PullLeaderData, Typed, Placed
  <2> HIDE DEF msg, to
  <2>3. up[to] => New(to, msg)
    BY <2>1, <2>2 DEF New
  <2>4. Adds(n, inbox[n])
    BY <1>0, <2>1, <2>2, <2>3, SendAdds
  <2> QED BY <2>2, <2>4 DEF Seen
<1>5. ASSUME NEW k \in Node, Start(k) PROVE Seen(n)
  BY <1>1, <1>5 DEF Start
<1>6. CASE UNCHANGED vars
  BY <1>1, <1>6 DEF vars, cluster, data
<1>7. ASSUME NEW k \in Node, Crash(k) PROVE Seen(n)
  BY <1>3, <1>7 DEF Seen
<1> QED BY <1>2, <1>4, <1>5, <1>6, <1>7, ServeSeen, ReceiveSeen DEF Next

\* Every message of a queue was there before the step, or is new.
LEMMA MessageSource ==
    ASSUME Typed, Asked, [Next]_vars, NEW n \in Node, NEW i \in 1..Len(inbox'[n])
    PROVE  \/ \E j \in 1..Len(inbox[n]) : inbox'[n][i] = inbox[n][j]
           \/ inbox'[n][i] \in Message /\ New(n, inbox'[n][i])
<1>0. inbox[n] \in Seq(Message) /\ inbox \in [Node -> Seq(Message)]
  BY DEF Typed, TypeOK
<1>1. ASSUME NEW queue \in Seq(Message), Adds(n, queue)
      PROVE  \/ \E j \in 1..Len(queue) : inbox'[n][i] = queue[j]
             \/ inbox'[n][i] \in Message /\ New(n, inbox'[n][i])
  <2>1. CASE inbox'[n] = queue
    BY <2>1
  <2>2. ASSUME NEW msg \in Message, New(n, msg), inbox'[n] = Append(queue, msg)
        PROVE  \/ \E j \in 1..Len(queue) : inbox'[n][i] = queue[j]
               \/ inbox'[n][i] \in Message /\ New(n, inbox'[n][i])
    <3>1. i \in 1..(Len(queue) + 1)
      BY <2>2
    <3>2. CASE i = Len(queue) + 1
      <4>1. inbox'[n][i] = msg
        BY <2>2, <3>2
      <4> QED BY <2>2, <4>1
    <3>3. CASE i # Len(queue) + 1
      <4>1. i \in 1..Len(queue) /\ inbox'[n][i] = queue[i]
        BY <2>2, <3>1, <3>3
      <4> QED BY <4>1
    <3> QED BY <3>2, <3>3
  <2> QED BY <1>1, <2>1, <2>2 DEF Adds
<1>2. CASE Crash(n)
  <2>1. inbox'[n] = << >>
    BY <1>0, <1>2 DEF Crash, Failover!Crash
  <2> QED BY <2>1
<1>3. CASE Takes(n) /\ Adds(n, Tail(inbox[n]))
  <2>1. /\ Tail(inbox[n]) \in Seq(Message)
        /\ \A j \in 1..Len(Tail(inbox[n])) :
              j + 1 \in 1..Len(inbox[n]) /\ inbox[n][j + 1] = Tail(inbox[n])[j]
    BY <1>0, <1>3 DEF Takes
  <2> QED BY <1>1, <1>3, <2>1
<1> QED BY <1>0, <1>1, <1>2, <1>3, AllSee DEF Seen

\* Every message stays in its queue until it is handled, or the node crashes.
LEMMA MessageKept ==
    ASSUME Typed, Asked, [Next]_vars, NEW n \in Node, ~Crash(n), NEW i \in 1..Len(inbox[n])
    PROVE  \/ \E j \in 1..Len(inbox'[n]) : inbox'[n][j] = inbox[n][i]
           \/ Takes(n) /\ inbox[n][i] = Head(inbox[n])
<1>0. inbox[n] \in Seq(Message)
  BY DEF Typed, TypeOK
<1>1. ASSUME NEW queue \in Seq(Message), Adds(n, queue), NEW l \in 1..Len(queue)
      PROVE  l \in 1..Len(inbox'[n]) /\ inbox'[n][l] = queue[l]
  BY <1>1 DEF Adds
<1>2. CASE Takes(n) /\ Adds(n, Tail(inbox[n])) /\ i # 1
  <2>1. /\ Tail(inbox[n]) \in Seq(Message)
        /\ i - 1 \in 1..Len(Tail(inbox[n])) /\ inbox[n][i] = Tail(inbox[n])[i - 1]
    BY <1>0, <1>2 DEF Takes
  <2>2. i - 1 \in 1..Len(inbox'[n]) /\ inbox'[n][i - 1] = Tail(inbox[n])[i - 1]
    BY <1>1, <1>2, <2>1
  <2> QED BY <2>1, <2>2
<1>3. CASE Takes(n) /\ i = 1
  BY <1>0, <1>3 DEF Takes
<1>4. CASE Adds(n, inbox[n])
  BY <1>0, <1>1, <1>4
<1> QED BY <1>2, <1>3, <1>4, AllSee DEF Seen

-----------------------------------------------------------------------------
(* What a step does to the PUTs in progress                                *)

\* A PUT in progress was there, with perhaps less to do, or has just been let in.
Advances(w, x) ==
    /\ x.node = w.node /\ x.key = w.key /\ x.value = w.value
    /\ \/ x = w
       \/ /\ writes' = (writes \ {w}) \cup {x}
          /\ \/ ~w.stored /\ StorePair(w) /\ x.stored /\ x.unsent = Node \ {w.node}
             \/ \E f \in w.unsent : Push(w, f) /\ x.stored = w.stored /\ x.unsent = w.unsent \ {f}

JustLetIn(x) ==
    /\ x.value = puts + 1 /\ ~x.stored /\ x.unsent = {}
    /\ puts' = puts + 1 /\ up' = up
    /\ Failover!Accepts(x.node)
    /\ writes' = writes \cup {x}
    /\ x.key \notin contended' => \A w \in writes : w.key # x.key

LEMMA WriteSource ==
    ASSUME Typed, [Next]_vars, NEW x \in writes'
    PROVE  (\E w \in writes : Advances(w, x)) \/ JustLetIn(x)
<1>1. CASE x \in writes
  BY <1>1 DEF Advances
<1>2. ASSUME NEW n \in Node, NEW k \in Key, Admit(n, k), x \notin writes PROVE JustLetIn(x)
  <2>1. x = [node |-> n, key |-> k, value |-> puts + 1, stored |-> FALSE, unsent |-> {}]
    BY <1>2 DEF Admit
  <2>2. /\ Failover!Accepts(n) /\ puts' = puts + 1 /\ up' = up
        /\ x.node = n /\ x.key = k /\ x.value = puts + 1 /\ ~x.stored /\ x.unsent = {}
        /\ writes' = writes \cup {x}
        /\ k \notin contended' => \A w \in writes : w.key # k
    BY <1>2, <2>1 DEF Admit, cluster
  <2> QED BY <1>2, <2>2 DEF JustLetIn
<1>3. ASSUME NEW w \in writes, StorePair(w), x \notin writes PROVE Advances(w, x)
  <2>1. w \in Write
    BY DEF Typed, TypeOK
  <2>2. x = [w EXCEPT !.stored = TRUE, !.unsent = Node \ {w.node}]
    BY <1>3 DEF StorePair, Replace
  <2>3. /\ writes' = (writes \ {w}) \cup {x}
        /\ x.node = w.node /\ x.key = w.key /\ x.value = w.value /\ x.stored
        /\ x.unsent = Node \ {w.node}
    BY <1>3, <2>1, <2>2 DEF Write, StorePair, Replace
  <2> QED BY <1>3, <2>3 DEF Advances, StorePair
<1>4. ASSUME NEW w \in writes, NEW f \in Node, Push(w, f), x \notin writes PROVE Advances(w, x)
  <2>1. w \in Write
    BY DEF Typed, TypeOK
  <2>2. x = [w EXCEPT !.unsent = @ \ {f}] /\ f \in w.unsent
    BY <1>4 DEF Push, Replace
  <2>3. /\ writes' = (writes \ {w}) \cup {x}
        /\ x.node = w.node /\ x.key = w.key /\ x.value = w.value /\ x.stored = w.stored
        /\ x.unsent = w.unsent \ {f}
    BY <1>4, <2>1, <2>2 DEF Write, Push, Replace
  <2> QED BY <1>4, <2>2, <2>3 DEF Advances
<1>5. ASSUME NEW w \in writes, Respond(w) PROVE x \in writes
  BY <1>5 DEF Respond
<1>6. ASSUME NEW n \in Node, Receive(n) \/ Detect(n) \/ Crash(n) \/ Start(n) \/ PullLeaderData(n)
      PROVE  x \in writes
  BY <1>6 DEF Receive, ReceiveSelfPromotion, TakeSnapshot, SendSnapshot, ReceiveSyncResponse,
     ReceivePush, ReceiveHeartBeat, Detect, Crash, Start, PullLeaderData, data
<1>7. ASSUME UNCHANGED vars PROVE x \in writes
  BY <1>7 DEF vars, data
<1> QED BY <1>1, <1>2, <1>3, <1>4, <1>5, <1>6, <1>7 DEF Next, Serve

\* Only the answer to a client acknowledges a value.
LEMMA AckedSource ==
    ASSUME [Next]_vars
    PROVE  \/ acked' = acked
           \/ \E w \in writes : Respond(w) /\ w.stored /\ w.unsent = {}
                                /\ acked' = [acked EXCEPT ![w.key] = w.value]
                                /\ writes' = writes \ {w}
BY DEF Next, Serve, Admit, StorePair, Push, Respond, Receive, ReceiveSelfPromotion, TakeSnapshot,
   SendSnapshot, ReceiveSyncResponse, ReceivePush, ReceiveHeartBeat, Detect, Crash, Start,
   PullLeaderData, data, vars

\* Crashes, and who is up.
LEMMA CrashSource ==
    ASSUME Typed, [Next]_vars
    PROVE  \/ crashes' = crashes /\ \A n \in Node : ~Crash(n) /\ (up[n] => up'[n])
           \/ /\ crashes' = crashes + 1
              /\ \E n \in Node : /\ Crash(n) /\ up[n] /\ ~up'[n] /\ inbox'[n] = << >>
                                 /\ kv'[n] = Empty
                                 /\ writes' = {w \in writes : w.node # n}
                                 /\ UNCHANGED <<contended, acked, restarts, puts, leaf_role,
                                                current_leader_id, is_alive, suspects, pc,
                                                announcing>>
                                 /\ \A m \in Node \ {n} :
                                       /\ up'[m] = up[m] /\ inbox'[m] = inbox[m]
                                       /\ kv'[m] = kv[m] /\ answering'[m] = answering[m]
<1>0. /\ up \in [Node -> BOOLEAN] /\ inbox \in [Node -> Seq(Message)] /\ kv \in [Node -> Store]
      /\ answering \in [Node -> SUBSET Store] /\ crashes \in Nat
  BY ClusterHolds DEF Typed, TypeOK, Placed
<1>1. ASSUME NEW n \in Node, Crash(n)
      PROVE  /\ crashes' = crashes + 1 /\ up[n] /\ ~up'[n] /\ inbox'[n] = << >>
             /\ kv'[n] = Empty
             /\ writes' = {w \in writes : w.node # n}
             /\ UNCHANGED <<contended, acked, restarts, puts, leaf_role, current_leader_id,
                            is_alive, suspects, pc, announcing>>
             /\ \A m \in Node \ {n} : /\ up'[m] = up[m] /\ inbox'[m] = inbox[m]
                                      /\ kv'[m] = kv[m] /\ answering'[m] = answering[m]
  BY <1>0, <1>1 DEF Crash, Failover!Crash, Failover!detector
<1>2. CASE \A n \in Node : ~Crash(n)
  <2>1. ASSUME NEW n \in Node, Start(n)
        PROVE  crashes' = crashes /\ \A m \in Node : up[m] => up'[m]
    BY <1>0, <2>1 DEF Start
  <2>2. ASSUME NEW n \in Node, Receive(n)
        PROVE  crashes' = crashes /\ up' = up
    BY <2>2 DEF Receive, ReceiveSelfPromotion, TakeSnapshot,
       SendSnapshot, ReceiveSyncResponse, ReceivePush, ReceiveHeartBeat, cluster,
       Failover!ReceiveSelfPromotion, Failover!ReceiveSyncResponse,
       Failover!DropSyncResponse, Failover!ReceiveHeartBeat
  <2>3. ASSUME NEW n \in Node, Detect(n)
        PROVE  crashes' = crashes /\ up' = up
    BY <2>3 DEF Detect, Failover!Detect, Failover!Proceed, Failover!WakeUp,
       Failover!Examine, Failover!CheckLeader, Failover!Elect, Failover!Promote,
       Failover!Announce, Failover!Announced
  <2>4. ASSUME Serve \/ (\E n \in Node : PullLeaderData(n)) \/ UNCHANGED vars
        PROVE  crashes' = crashes /\ up' = up
    BY <2>4 DEF Serve, Admit, StorePair, Push, Respond, PullLeaderData, cluster, vars
  <2> QED BY <1>2, <2>1, <2>2, <2>3, <2>4 DEF Next
<1> QED BY <1>1, <1>2

\* A loss is not forgotten.
LEMMA LostKept ==
    ASSUME Typed, [Next]_vars, NEW n \in Node
    PROVE  lost[n] \subseteq lost'[n]
<1>0. lost \in [Node -> SUBSET Key]
  BY DEF Typed, TypeOK
<1>1. ASSUME NEW w \in writes, NEW f \in Node, Push(w, f) PROVE lost[n] \subseteq lost'[n]
  BY <1>0, <1>1 DEF Push
<1>2. ASSUME NEW w \in writes, StorePair(w) \/ Respond(w) PROVE lost' = lost
  BY <1>2 DEF StorePair, Respond
<1>3. ASSUME NEW m \in Node, NEW k \in Key, Admit(m, k) PROVE lost' = lost
  BY <1>3 DEF Admit
<1>4. ASSUME NEW m \in Node, Receive(m) \/ Detect(m) \/ Crash(m) \/ Start(m) \/ PullLeaderData(m)
      PROVE  lost' = lost
  BY <1>4 DEF Receive, ReceiveSelfPromotion, TakeSnapshot, SendSnapshot, ReceiveSyncResponse,
     ReceivePush, ReceiveHeartBeat, Detect, Crash, Start, PullLeaderData, data
<1>5. CASE UNCHANGED vars
  BY <1>5 DEF vars, data
<1> QED BY <1>1, <1>2, <1>3, <1>4, <1>5 DEF Next, Serve

\* A push to a node that is up and marked alive gets there uncut, or its loss is noted.
LEMMA PushArrives ==
    ASSUME Typed, NEW w \in writes, NEW f \in Node, Push(w, f), is_alive[w.node][f], up[f]
    PROVE  \/ w.key \in lost'[f]
           \/ /\ w.value \notin Long
              /\ inbox'[f] = Append(inbox[f], PushFor(w))
<1>1. lost \in [Node -> SUBSET Key] /\ inbox \in [Node -> Seq(Message)] /\ w.key \in Key
  BY DEF Typed, TypeOK, Write
<1> QED BY <1>1 DEF Push, PushFor

-----------------------------------------------------------------------------
(* What outlives a crash                                                   *)

\* n has a value of k, or will take one from its queue.
Holds(n, k) == kv[n][k] # 0 \/ \E i \in 1..Len(inbox[n]) : PushOf(inbox[n][i], k)

\* No PUT writes what stands for no value.
NeverNothing ==
    /\ \A w \in writes : w.value # 0
    /\ \A n \in Node : \A i \in 1..Len(inbox[n]) :
          inbox[n][i].type = "LOCAL_SYNC_PUSH" => inbox[n][i].value # 0

WritersHold == \A w \in writes : up[w.node] /\ (w.stored => kv[w.node][w.key] # 0)

\* As long as nothing has crashed, the first leader leads, and everybody is pushed to.
Unbroken ==
    crashes = 0 =>
        /\ \A n, m \in Node : up[n] /\ is_alive[n][m] /\ m \notin suspects[n] /\ ~Notice(m, n)
        /\ \A n \in Node : pc[n] = "scan" /\ current_leader_id[n] = InitLeader
        /\ \A w \in writes :
              /\ w.node = InitLeader
              /\ w.stored => \A n \in Node \ w.unsent : Holds(n, w.key) \/ w.key \in lost[n]
        /\ \A k \in Key : acked[k] # 0 =>
              /\ kv[InitLeader][k] # 0
              /\ \A n \in Node : Holds(n, k) \/ k \in lost[n]

\* After a crash somebody has a value, or it was the first leader that crashed and all
\* others have or will take one, unless the push to them was lost.
SomebodyHolds ==
    crashes <= 1 => \A k \in Key : acked[k] # 0 =>
        \/ \E n \in Node : up[n] /\ kv[n][k] # 0
        \/ \A n \in Node \ {InitLeader} : up[n] /\ (Holds(n, k) \/ k \in lost[n])

OutliveInv == NeverNothing /\ WritersHold /\ Unbroken /\ SomebodyHolds

LEMMA InitOutlive == Init => OutliveInv
<1> SUFFICES ASSUME Init PROVE OutliveInv
  OBVIOUS
<1>1. \A k \in Key : acked[k] = 0
  BY DEF Init, Empty
<1>2. \A n \in Node : /\ inbox[n] = << >> /\ up[n] /\ suspects[n] = {} /\ pc[n] = "scan"
                      /\ current_leader_id[n] = InitLeader
                      /\ \A m \in Node : is_alive[n][m]
  BY DEF Init, Failover!Init, Node
<1>3. \A n, m \in Node : ~Notice(m, n)
  BY <1>2 DEF Notice, Tells
<1> QED BY <1>1, <1>2, <1>3
       DEF Init, OutliveInv, NeverNothing, WritersHold, Unbroken, SomebodyHolds

LEMMA NextNeverNothing ==
    ASSUME Typed, Asked, NeverNothing, [Next]_vars
    PROVE  NeverNothing'
<1>1. ASSUME NEW x \in writes' PROVE x.value # 0
  <2>1. puts \in Nat /\ puts + 1 # 0
    BY ClusterHolds DEF Typed, TypeOK, Value
  <2>2. ASSUME NEW w \in writes, Advances(w, x) PROVE x.value # 0
    BY <2>2 DEF NeverNothing, Advances
  <2>3. JustLetIn(x) => x.value # 0
    BY <2>1 DEF JustLetIn
  <2> QED BY <2>2, <2>3, WriteSource
<1>2. ASSUME NEW n \in Node, NEW i \in 1..Len(inbox'[n]), inbox'[n][i].type = "LOCAL_SYNC_PUSH"
      PROVE  inbox'[n][i].value # 0
  <2>1. CASE \E j \in 1..Len(inbox[n]) : inbox'[n][i] = inbox[n][j]
    BY <1>2, <2>1 DEF NeverNothing
  <2>2. CASE New(n, inbox'[n][i])
    <3>1. PICK w \in writes : inbox'[n][i] = PushFor(w)
      BY <1>2, <2>2 DEF New
    <3> QED BY <3>1 DEF PushFor, NeverNothing
  <2> QED BY <2>1, <2>2, MessageSource
<1> QED BY <1>1, <1>2 DEF NeverNothing

\* Who has a value of a key, or will take one, keeps one until it crashes.
LEMMA HoldsKept ==
    ASSUME Typed, Asked, NeverNothing, [Next]_vars, NEW n \in Node, ~Crash(n), NEW k \in Key
    PROVE  /\ kv[n][k] # 0 => kv'[n][k] # 0
           /\ Holds(n, k) => Holds(n, k)'
<1>0. inbox[n] \in Seq(Message) /\ kv \in [Node -> Store]
  BY DEF Typed, TypeOK
<1>1. ASSUME Takes(n), kv'[n][k] = 0
      PROVE  kv[n][k] = 0 /\ ~PushOf(Head(inbox[n]), k)
  <2>1. Head(inbox[n]) = inbox[n][1] /\ 1 \in 1..Len(inbox[n])
    BY <1>0, <1>1 DEF Takes
  <2>2. PushOf(Head(inbox[n]), k) => Head(inbox[n]).value # 0
    BY <2>1 DEF NeverNothing, PushOf
  <2> QED BY <1>1, <2>2 DEF Takes
<1>2. ASSUME kv[n][k] # 0 PROVE kv'[n][k] # 0
  <2>1. ASSUME NEW w \in writes, StorePair(w), w.node = n PROVE kv'[n][k] # 0
    <3>1. kv'[n][k] = kv[n][k] \/ kv'[n][k] = w.value
      BY <1>0, <2>1 DEF StorePair, Typed, TypeOK, Write, Store
    <3> QED BY <1>2, <3>1 DEF NeverNothing
  <2> QED BY <1>1, <1>2, <2>1, AllSee DEF Seen
<1>3. ASSUME NEW i \in 1..Len(inbox[n]), PushOf(inbox[n][i], k) PROVE Holds(n, k)'
  <2>1. CASE \E j \in 1..Len(inbox'[n]) : inbox'[n][j] = inbox[n][i]
    BY <1>3, <2>1 DEF Holds, PushOf
  <2>2. CASE Takes(n) /\ inbox[n][i] = Head(inbox[n])
    <3>1. kv'[n][k] # 0
      BY <1>1, <1>3, <2>2
    <3> QED BY <3>1 DEF Holds
  <2> QED BY <2>1, <2>2, MessageKept
<1> QED BY <1>2, <1>3 DEF Holds

\* Storing a pair and pushing it give the key to the node.
LEMMA StoreHolds ==
    ASSUME Typed, NeverNothing, NEW w \in writes, StorePair(w)
    PROVE  kv'[w.node][w.key] # 0
<1>1. w \in Write /\ kv \in [Node -> Store] /\ w.value # 0
  BY DEF Typed, TypeOK, NeverNothing
<1>2. kv'[w.node][w.key] = w.value
  BY <1>1 DEF StorePair, Write, Store
<1> QED BY <1>1, <1>2

LEMMA PushHolds ==
    ASSUME Typed, NEW w \in writes, NEW f \in Node, Push(w, f), is_alive[w.node][f], up[f]
    PROVE  Holds(f, w.key)' \/ w.key \in lost'[f]
<1> SUFFICES ASSUME w.value \notin Long, inbox'[f] = Append(inbox[f], PushFor(w))
             PROVE  Holds(f, w.key)'
  BY PushArrives
<1>1. PushFor(w) \in Message /\ inbox[f] \in Seq(Message)
  BY DEF Typed, TypeOK, Write, Message, PushFor
<1>2. /\ Len(inbox[f]) + 1 \in 1..Len(inbox'[f])
      /\ inbox'[f][Len(inbox[f]) + 1] = PushFor(w)
  BY <1>1
<1>3. PushOf(PushFor(w), w.key)
  BY DEF PushOf, PushFor
<1> QED BY <1>2, <1>3 DEF Holds, PushOf

LEMMA NextWritersHold ==
    ASSUME Typed, Asked, NeverNothing, WritersHold, [Next]_vars
    PROVE  WritersHold'
<1> SUFFICES ASSUME NEW x \in writes' PROVE up'[x.node] /\ (x.stored => kv'[x.node][x.key] # 0)
  BY DEF WritersHold
<1>0. \A w \in writes : w.node \in Node /\ w.key \in Key
  BY DEF Typed, TypeOK, Write
<1>1. ASSUME NEW n \in Node, up[n], ~Crash(n) PROVE up'[n]
  BY <1>1, CrashSource
<1>2. ASSUME NEW n \in Node, Crash(n) PROVE x.node # n
  BY <1>2 DEF Crash
<1>3. ASSUME NEW w \in writes, Advances(w, x)
      PROVE  up'[x.node] /\ (x.stored => kv'[x.node][x.key] # 0)
  <2>1. x.node = w.node /\ x.key = w.key /\ up[w.node] /\ ~Crash(w.node)
    BY <1>0, <1>2, <1>3 DEF Advances, WritersHold
  <2>2. w.stored => kv'[w.node][w.key] # 0
    BY <1>0, <2>1, HoldsKept DEF WritersHold
  <2>3. StorePair(w) => kv'[w.node][w.key] # 0
    BY StoreHolds
  <2>4. x.stored => w.stored \/ StorePair(w)
    BY <1>3 DEF Advances
  <2> QED BY <1>0, <1>1, <2>1, <2>2, <2>3, <2>4
<1>4. ASSUME JustLetIn(x) PROVE up'[x.node] /\ ~x.stored
  <2>1. up[x.node] /\ up' = up
    BY <1>4 DEF JustLetIn, Failover!Accepts
  <2> QED BY <1>4, <2>1 DEF JustLetIn
<1> QED BY <1>3, <1>4, WriteSource

LEMMA NextUnbroken ==
    ASSUME Typed, Asked, NeverNothing, WritersHold, Unbroken, MaxMistakes = 0, [Next]_vars,
           crashes' = 0
    PROVE  Unbroken'
<1>1. crashes = 0 /\ \A n \in Node : ~Crash(n) /\ (up[n] => up'[n])
  BY CrashSource, ClusterHolds DEF Typed, Placed
<1>2. /\ \A n, m \in Node : up[n] /\ is_alive[n][m] /\ m \notin suspects[n] /\ ~Notice(m, n)
      /\ \A n \in Node : pc[n] = "scan" /\ current_leader_id[n] = InitLeader
      /\ InitLeader \in Node
  BY <1>1, ClusterHolds DEF Unbroken
<1>3. ASSUME NEW n \in Node, NEW m \in Node
      PROVE  /\ up'[n] /\ is_alive'[n][m] /\ m \notin suspects'[n] /\ ~Notice(m, n)'
             /\ pc'[n] = "scan" /\ current_leader_id'[n] = InitLeader
  <2>1. /\ current_leader_id'[n] \in Node /\ pc'[n] \in Failover!PC
        /\ suspects[n] \subseteq Node /\ suspects'[n] \subseteq Node
    <3>1. Typed'
      BY NextTyped
    <3> QED BY <3>1 DEF Typed, Placed
  <2>2. Moves(n)
    BY AllMove
  <2>3. up'[n] /\ is_alive'[n][m] /\ m \notin suspects'[n]
    BY <1>1, <1>2, <2>1, <2>2 DEF Moves
  <2>4. pc'[n] = "scan"
    BY <1>2, <2>1, <2>2 DEF Moves, Failover!PC
  <2>5. current_leader_id'[n] = InitLeader
    BY <1>2, <2>1, <2>2 DEF Moves
  <2>6. ~Notice(m, n)'
    BY <1>2, NoticeSource
  <2> QED BY <2>3, <2>4, <2>5, <2>6
<1>4. ASSUME NEW n \in Node, NEW k \in Key, Holds(n, k) \/ k \in lost[n]
      PROVE  Holds(n, k)' \/ k \in lost'[n]
  BY <1>1, <1>4, HoldsKept, LostKept
<1>5. ASSUME NEW x \in writes' PROVE x.node = InitLeader
  <2>1. JustLetIn(x) => x.node = InitLeader
    <3>1. x.node \in Node
      <4>1. Typed'
        BY NextTyped
      <4> QED BY <4>1 DEF Typed, TypeOK, Write
    <3> QED BY <1>2, <3>1 DEF JustLetIn, Failover!Accepts
  <2> QED BY <1>1, <2>1, WriteSource DEF Advances, Unbroken
<1>6. ASSUME NEW x \in writes', x.stored, NEW n \in Node, n \notin x.unsent
      PROVE  Holds(n, x.key)' \/ x.key \in lost'[n]
  <2>1. PICK w \in writes : Advances(w, x)
    BY <1>6, WriteSource DEF JustLetIn
  <2>2. w.node \in Node /\ w.key \in Key /\ x.key = w.key
    BY <2>1 DEF Typed, TypeOK, Write, Advances
  <2>3. w.stored /\ n \notin w.unsent => Holds(n, w.key)' \/ w.key \in lost'[n]
    BY <1>1, <1>4, <2>2 DEF Unbroken
  <2>4. ASSUME StorePair(w), x.unsent = Node \ {w.node} PROVE Holds(n, w.key)'
    BY <1>6, <2>4, StoreHolds DEF Holds
  <2>5. ASSUME NEW f \in w.unsent, Push(w, f), x.stored = w.stored, x.unsent = w.unsent \ {f}
        PROVE  Holds(n, w.key)' \/ w.key \in lost'[n]
    <3>1. CASE n = f
      BY <1>2, <2>2, <2>5, <3>1, PushHolds
    <3>2. CASE n # f
      BY <1>6, <2>3, <2>5, <3>2
    <3> QED BY <3>1, <3>2
  <2>6. Holds(n, w.key)' \/ w.key \in lost'[n]
    BY <1>6, <2>1, <2>2, <2>3, <2>4, <2>5 DEF Advances
  <2> QED BY <2>2, <2>6 DEF Holds, PushOf
<1>7. ASSUME NEW k \in Key, acked'[k] # 0
      PROVE  /\ kv'[InitLeader][k] # 0
             /\ \A n \in Node : Holds(n, k)' \/ k \in lost'[n]
  <2>1. kv[InitLeader][k] # 0 /\ \A n \in Node : Holds(n, k) \/ k \in lost[n]
    <3>1. CASE acked[k] # 0
      BY <1>1, <3>1 DEF Unbroken
    <3>2. ASSUME NEW w \in writes, w.stored, w.unsent = {}, k = w.key
          PROVE  kv[InitLeader][k] # 0 /\ \A n \in Node : Holds(n, k) \/ k \in lost[n]
      <4>1. w.node = InitLeader
        BY <1>1 DEF Unbroken
      <4> QED BY <1>1, <3>2, <4>1 DEF Unbroken, WritersHold
    <3>3. ASSUME NEW w \in writes, acked' = [acked EXCEPT ![w.key] = w.value]
          PROVE  k = w.key \/ acked[k] # 0
      BY <1>7, <3>3 DEF Typed, TypeOK, Store
    <3> QED BY <1>7, <3>1, <3>2, <3>3, AckedSource
  <2> QED BY <1>1, <1>2, <1>4, <2>1, HoldsKept
<1> QED BY <1>3, <1>5, <1>6, <1>7 DEF Unbroken, Holds, PushOf, Notice

LEMMA NextSomebodyHolds ==
    ASSUME Typed, Asked, NeverNothing, WritersHold, Unbroken, SomebodyHolds, [Next]_vars
    PROVE  SomebodyHolds'
<1> SUFFICES ASSUME crashes' <= 1, NEW k \in Key, acked'[k] # 0
             PROVE  \/ \E n \in Node : up'[n] /\ kv'[n][k] # 0
                    \/ \A n \in Node \ {InitLeader} :
                          up'[n] /\ (Holds(n, k)' \/ k \in lost'[n])
  BY DEF SomebodyHolds, Holds, PushOf
<1>0. crashes \in Nat /\ InitLeader \in Node
  BY ClusterHolds DEF Typed, Placed
<1>1. CASE crashes' = crashes /\ \A n \in Node : ~Crash(n) /\ (up[n] => up'[n])
  <2>1. \/ \E n \in Node : up[n] /\ kv[n][k] # 0
        \/ \A n \in Node \ {InitLeader} : up[n] /\ (Holds(n, k) \/ k \in lost[n])
    <3>1. CASE acked[k] # 0
      BY <1>1, <3>1 DEF SomebodyHolds
    <3>2. CASE acked[k] = 0
      <4>1. PICK w \in writes : w.stored /\ acked' = [acked EXCEPT ![w.key] = w.value]
        BY <3>2, AckedSource
      <4>2. k = w.key /\ w.node \in Node
        BY <3>2, <4>1 DEF Typed, TypeOK, Store, Write
      <4> QED BY <4>1, <4>2 DEF WritersHold
    <3> QED BY <3>1, <3>2
  <2> QED BY <1>1, <2>1, HoldsKept, LostKept
<1>2. ASSUME crashes' = crashes + 1, NEW n \in Node, Crash(n), acked' = acked,
             \A m \in Node \ {n} : up'[m] = up[m]
      PROVE  \/ \E m \in Node : up'[m] /\ kv'[m][k] # 0
             \/ \A m \in Node \ {InitLeader} : up'[m] /\ (Holds(m, k)' \/ k \in lost'[m])
  <2>1. /\ \A m \in Node : up[m] /\ (Holds(m, k) \/ k \in lost[m])
        /\ kv[InitLeader][k] # 0
    BY <1>0, <1>2 DEF Unbroken
  <2>2. ASSUME NEW m \in Node \ {n} PROVE up'[m] /\ ~Crash(m)
    <3>1. up'[m]
      BY <1>2, <2>1
    <3> QED BY <3>1 DEF Crash, Failover!Crash, Typed, Placed
  <2>3. CASE n = InitLeader
    <3>1. ASSUME NEW m \in Node \ {InitLeader}
          PROVE  up'[m] /\ (Holds(m, k)' \/ k \in lost'[m])
      BY <2>1, <2>2, <2>3, HoldsKept, LostKept
    <3> QED BY <3>1
  <2>4. CASE n # InitLeader
    BY <1>0, <2>1, <2>2, <2>4, HoldsKept
  <2> QED BY <2>3, <2>4
<1> QED BY <1>1, <1>2, CrashSource

LEMMA NextOutlive ==
    ASSUME Typed, Asked, OutliveInv, MaxMistakes = 0, [Next]_vars
    PROVE  OutliveInv'
<1>1. NeverNothing' /\ WritersHold' /\ SomebodyHolds'
  BY NextNeverNothing, NextWritersHold, NextSomebodyHolds DEF OutliveInv
<1>2. Unbroken'
  <2>1. CASE crashes' = 0
    BY <2>1, NextUnbroken DEF OutliveInv
  <2>2. CASE crashes' # 0
    BY <2>2 DEF Unbroken
  <2> QED BY <2>1, <2>2
<1> QED BY <1>1, <1>2 DEF OutliveInv

\* With an accurate detector, a key whose PUT was answered OK does not vanish in a crash, also
\* that of the leader and whatever the process does when it boots again, if one replica at
\* least has lost no push of it: push_to_followers has sent before /put answers
\* (kivileaf_rest_controller.cpp), but looks at no result and at no length (rpc_client.cpp,
\* rpc_server.cpp).
THEOREM AckedKeysOutlive ==
    ASSUME MaxMistakes = 0
    PROVE  Spec => []AckedKeyOutlivesACrash
<1>1. Typed /\ OutliveInv => AckedKeyOutlivesACrash
  <2> SUFFICES ASSUME Typed, OutliveInv, crashes <= 1, NEW k \in Key, acked[k] # 0,
                      NEW replica \in Node \ {InitLeader}, k \notin lost[replica]
               PROVE  \E n \in Node :
                        /\ up[n]
                        /\ \/ kv[n][k] # 0
                           \/ \E msg \in Range(inbox[n]) :
                                 /\ msg.type = "LOCAL_SYNC_PUSH" /\ msg.key = k
                                 /\ msg.value \notin Long
    BY DEF AckedKeyOutlivesACrash
  <2>1. PICK n \in Node : up[n] /\ Holds(n, k)
    BY DEF OutliveInv, SomebodyHolds, Holds
  <2>2. inbox[n] \in Seq(Message)
    BY DEF Typed, TypeOK
  <2> QED BY <2>1, <2>2 DEF Holds, PushOf, Range
<1>2. Typed /\ Asked /\ BootsPull /\ OutliveInv /\ [Next]_vars => OutliveInv'
  BY NextOutlive
<1> QED BY <1>1, <1>2, InitOutlive, BootsInvariant, PTL DEF Spec

-----------------------------------------------------------------------------
(* A step of the election, node by node                                    *)

\* What a step may do to n's part in the election, as long as nobody boots.
Turns(n) ==
    /\ up'[n] => up[n]
    /\ pc'[n] # "scan" => pc[n] # "scan" \/ ~is_alive'[n][InitLeader]
    /\ pc'[n] = "announce" => pc[n] = "announce" \/ (pc[n] = "promote" /\ current_leader_id'[n] = n)
    /\ \A m \in Node : /\ is_alive'[n][m] => is_alive[n][m] \/ up[m]
                       /\ is_alive[n][m] => is_alive'[n][m] \/ m \in suspects[n]
    /\ \A m \in suspects'[n] :
          m \in suspects[n] \/ (m \in Failover!Gone(n) /\ inbox' = inbox)
    /\ \/ current_leader_id'[n] = current_leader_id[n] /\ leaf_role'[n] = leaf_role[n]
       \/ /\ pc[n] = "promote" /\ up[n] /\ current_leader_id'[n] = n
          /\ leaf_role'[n] = "LOCAL_LEADER"
          /\ UNCHANGED <<up, inbox, is_alive, data>>
          /\ \A m \in Node \ {n} : current_leader_id'[m] = current_leader_id[m]
       \/ /\ Failover!Handles(n, "SELF_PROMOTION")
          /\ current_leader_id'[n] = Head(inbox[n]).from
          /\ leaf_role'[n] = leaf_role[n]

LEMMA AllTurn ==
    ASSUME Typed, MaxMistakes = 0, [Next]_vars, \A n \in Node : ~Start(n), NEW n \in Node
    PROVE  Turns(n)
<1>0. /\ current_leader_id \in [Node -> Node]
      /\ up \in [Node -> BOOLEAN]
      /\ is_alive \in [Node -> [Node -> BOOLEAN]]
      /\ suspects \in [Node -> SUBSET Node]
      /\ leaf_role \in [Node -> Failover!KiviLeafRole]
      /\ pc \in [Node -> Failover!PC]
      /\ InitLeader \in Node
  BY ClusterHolds DEF Typed, Placed
<1>1. ASSUME UNCHANGED <<up, leaf_role, current_leader_id, is_alive, suspects, pc>>
      PROVE  Turns(n)
  BY <1>1 DEF Turns
<1>2. CASE Serve
  <2>1. UNCHANGED <<up, leaf_role, current_leader_id, is_alive, suspects, pc>>
    BY <1>2 DEF Serve, Admit, StorePair, Push, Respond, cluster
  <2> QED BY <1>1, <2>1
<1>3. ASSUME NEW k \in Node, ReceiveSelfPromotion(k) PROVE Turns(n)
  <2>1. /\ Failover!Handles(k, "SELF_PROMOTION")
        /\ current_leader_id' = [current_leader_id EXCEPT ![k] = Head(inbox[k]).from]
        /\ UNCHANGED <<up, leaf_role, is_alive, suspects, pc>>
    BY <1>3 DEF ReceiveSelfPromotion, Failover!ReceiveSelfPromotion, Failover!detector
  <2> QED BY <1>0, <2>1 DEF Turns
<1>4. ASSUME NEW k \in Node, NEW m \in Node, ReceiveHeartBeat(k, m) PROVE Turns(n)
  BY <1>0, <1>4 DEF ReceiveHeartBeat, Failover!ReceiveHeartBeat, Turns
<1>5. ASSUME NEW k \in Node, Receive(k) PROVE Turns(n)
  BY <1>1, <1>3, <1>4, <1>5 DEF Receive, TakeSnapshot, SendSnapshot, ReceiveSyncResponse,
     ReceivePush, Failover!ReceiveSyncResponse, Failover!DropSyncResponse,
     Failover!detector, cluster
<1>6. ASSUME NEW k \in Node, NEW peers \in SUBSET {m \in Node \ {k} : is_alive[k][m]},
             Failover!WakeUp(k, peers)
      PROVE  Turns(n)
  <2>1. /\ mistakes' = mistakes + Cardinality(peers \ Failover!Gone(k))
        /\ mistakes' <= MaxMistakes /\ mistakes = 0
    BY <1>6, SameCardinality DEF Failover!WakeUp, Typed, Placed
  <2>2. IsFiniteSet(peers \ Failover!Gone(k))
    BY NodesAreFinite, FS_Subset
  <2>3. Cardinality(peers \ Failover!Gone(k)) = 0
    BY <2>1, <2>2, FS_CardinalityType
  <2>4. peers \ Failover!Gone(k) = {}
    BY <2>2, <2>3, FS_EmptySet
  <2> QED BY <1>0, <1>6, <2>4 DEF Failover!WakeUp, Turns
<1>7. ASSUME NEW k \in Node, Failover!Examine(k) PROVE Turns(n)
  <2> DEFINE m == Failover!First(suspects[k])
  <2>1. /\ is_alive' = [is_alive EXCEPT ![k][m] = FALSE]
        /\ suspects' = [suspects EXCEPT ![k] = @ \ {m}]
        /\ pc' = [pc EXCEPT ![k] = IF m = InitLeader THEN "check" ELSE "scan"]
        /\ UNCHANGED <<up, leaf_role, current_leader_id>>
    BY <1>7 DEF Failover!Examine
  <2>2. m \in suspects[k]
    BY <1>7, FirstSuspect DEF Failover!Examine
  <2> HIDE DEF m
  <2> QED BY <1>0, <2>1, <2>2 DEF Turns
<1>8. ASSUME NEW k \in Node, Failover!CheckLeader(k) \/ Failover!Elect(k) PROVE Turns(n)
  BY <1>0, <1>8 DEF Failover!CheckLeader, Failover!Elect, Failover!GoOn, Turns
<1>9. ASSUME NEW k \in Node, Failover!Promote(k), UNCHANGED data PROVE Turns(n)
  BY <1>0, <1>9 DEF Failover!Promote, Turns, Node
<1>10. ASSUME NEW k \in Node, NEW m \in Node, Failover!Announce(k, m) PROVE Turns(n)
  BY <1>1, <1>10 DEF Failover!Announce
<1>11. ASSUME NEW k \in Node, Failover!Announced(k) PROVE Turns(n)
  BY <1>0, <1>11 DEF Failover!Announced, Turns
<1>12. ASSUME NEW k \in Node, Detect(k) PROVE Turns(n)
  BY <1>6, <1>7, <1>8, <1>9, <1>10, <1>11, <1>12
     DEF Detect, Failover!Detect, Failover!Proceed, Node
<1>13. ASSUME NEW k \in Node, Crash(k) PROVE Turns(n)
  BY <1>0, <1>13 DEF Crash, Failover!Crash, Failover!detector, Turns
<1>14. ASSUME NEW k \in Node, PullLeaderData(k) PROVE Turns(n)
  BY <1>1, <1>14 DEF PullLeaderData
<1>15. CASE UNCHANGED vars
  BY <1>1, <1>15 DEF vars, cluster
<1> QED BY <1>2, <1>5, <1>12, <1>13, <1>14, <1>15 DEF Next

-----------------------------------------------------------------------------
(* Whose pushes wait, until somebody boots again                           *)

\* A push of m waits for n.
PushFrom(m, n) ==
    \E i \in 1..Len(inbox[n]) : inbox[n][i].type = "LOCAL_SYNC_PUSH" /\ inbox[n][i].from = m

\* Whoever is suspected or marked dead has been heard out.
HeardOut == \A n, m \in Node : m \in suspects[n] \/ ~is_alive[n][m] => ~PushFrom(m, n)

\* Who runs for the leadership, or has won it, has marked the first leader dead.
FirstMarked ==
    \A n \in Node :
        up[n] /\ (pc[n] # "scan" \/ (current_leader_id[n] = n /\ n # InitLeader))
            => ~is_alive[n][InitLeader]

\* Pushes come from the first leader or, when it is down, from a lower node.
PushersLead ==
    \A n, m \in Node : PushFrom(m, n) => m # n /\ (m = InitLeader \/ (m < n /\ ~up[InitLeader]))

\* No PUT is pushed to its own node.
PushedToOthers == \A w \in writes : w.node \notin w.unsent

PushInv == HeardOut /\ FirstMarked /\ PushersLead /\ PushedToOthers

\* Nothing is pushed to a node that leads, or is about to.
LEMMA NoPushToLeader ==
    ASSUME Typed, Elected, PushInv, restarts = 0, NEW n \in Node, NEW m \in Node, up[n],
           current_leader_id[n] = n \/ pc[n] = "promote"
    PROVE  ~PushFrom(m, n)
<1> SUFFICES ASSUME PushFrom(m, n) PROVE FALSE
  OBVIOUS
<1>1. m # n /\ (m = InitLeader \/ (m < n /\ ~up[InitLeader])) /\ is_alive[n][m]
  BY DEF PushInv, PushersLead, HeardOut
<1>2. n # InitLeader
  BY <1>1, ElectionFacts
<1>3. m # InitLeader /\ Failover!IsLowest(n)
  BY <1>1, <1>2, ElectionFacts DEF PushInv, FirstMarked
<1>4. n <= m /\ m < n /\ n \in Nat /\ m \in Nat
  BY <1>1, <1>3, ElectionFacts DEF Failover!IsLowest, Node
<1> QED BY <1>4

LEMMA PushSource ==
    ASSUME Typed, Asked, [Next]_vars, NEW n \in Node, NEW m \in Node, PushFrom(m, n)'
    PROVE  \/ PushFrom(m, n)
           \/ up[n] /\ \E w \in writes : w.node = m /\ n \in w.unsent /\ is_alive[m][n] /\ Push(w, n)
<1>1. PICK i \in 1..Len(inbox'[n]) :
        inbox'[n][i].type = "LOCAL_SYNC_PUSH" /\ inbox'[n][i].from = m
  BY DEF PushFrom
<1>2. CASE \E j \in 1..Len(inbox[n]) : inbox'[n][i] = inbox[n][j]
  BY <1>1, <1>2 DEF PushFrom
<1>3. CASE New(n, inbox'[n][i])
  <2>1. PICK w \in writes : /\ Push(w, n) /\ n \in w.unsent /\ is_alive[w.node][n]
                            /\ inbox'[n][i] = PushFor(w)
    BY <1>1, <1>3 DEF New
  <2>2. w.node = m
    BY <1>1, <2>1 DEF PushFor
  <2> QED BY <1>3, <2>1, <2>2 DEF New
<1> QED BY <1>2, <1>3, MessageSource

LEMMA NextPush ==
    ASSUME Typed, Asked, Elected, WritesStayWithLeader, PushInv, MaxMistakes = 0, [Next]_vars,
           restarts' = 0
    PROVE  PushInv'
<1>0. restarts = 0 /\ \A n \in Node : ~Start(n)
  BY RestartsStay
<1>1. \A n \in Node : Turns(n)
  BY <1>0, AllTurn
<1>2. \A w \in writes : w.node \in Node /\ Failover!Accepts(w.node)
  BY <1>0 DEF WritesStayWithLeader, Typed, TypeOK, Write
<1>3. HeardOut'
  <2> SUFFICES ASSUME NEW n \in Node, NEW m \in Node,
                      m \in suspects'[n] \/ ~is_alive'[n][m], PushFrom(m, n)'
               PROVE  FALSE
    BY DEF HeardOut, PushFrom
  <2>1. CASE m \in suspects[n] \/ ~is_alive[n][m]
    <3>1. ~up[m] /\ ~PushFrom(m, n)
      BY <1>0, <2>1, ElectionFacts DEF PushInv, HeardOut
    <3> QED BY <1>2, <3>1, PushSource DEF Failover!Accepts
  <2>2. CASE m \in Failover!Gone(n) /\ inbox' = inbox
    <3>1. PushFrom(m, n)
      BY <2>2 DEF PushFrom
    <3>2. inbox[n] \in Seq(Message) /\ Failover!Drained(m, n)
      BY <2>2 DEF Failover!Gone, Typed, TypeOK
    <3> QED BY <3>1, <3>2 DEF PushFrom, Failover!Drained, Failover!Range
  <2> QED BY <1>1, <2>1, <2>2 DEF Turns
<1>4. FirstMarked'
  <2> SUFFICES ASSUME NEW n \in Node, up'[n],
                      pc'[n] # "scan" \/ (current_leader_id'[n] = n /\ n # InitLeader)
               PROVE  ~is_alive'[n][InitLeader]
    BY DEF FirstMarked
  <2>1. \/ ~is_alive'[n][InitLeader]
        \/ pc[n] # "scan" \/ (current_leader_id[n] = n /\ n # InitLeader)
    <3>1. pc[n] = "promote" => pc[n] # "scan"
      OBVIOUS
    <3>2. Failover!Handles(n, "SELF_PROMOTION") => Head(inbox[n]).from # n
      BY <1>0, NoticeFacts
    <3> QED BY <1>1, <3>1, <3>2 DEF Turns
  <2>2. CASE pc[n] # "scan" \/ (current_leader_id[n] = n /\ n # InitLeader)
    <3>1. up[n]
      BY <1>1 DEF Turns
    <3>2. ~is_alive[n][InitLeader] /\ ~up[InitLeader]
      BY <1>0, <2>2, <3>1, ElectionFacts DEF PushInv, FirstMarked
    <3> QED BY <1>1, <3>2, ClusterHolds DEF Turns
  <2> QED BY <2>1, <2>2
<1>5. PushersLead'
  <2> SUFFICES ASSUME NEW n \in Node, NEW m \in Node, PushFrom(m, n)'
               PROVE  m # n /\ (m = InitLeader \/ (m < n /\ ~up'[InitLeader]))
    BY DEF PushersLead, PushFrom
  <2>1. CASE PushFrom(m, n)
    BY <1>1, <2>1, ClusterHolds DEF PushInv, PushersLead, Turns
  <2>2. ASSUME NEW w \in writes, w.node = m, n \in w.unsent, is_alive[m][n], m # InitLeader
        PROVE  m < n /\ ~up'[InitLeader]
    <3>1. current_leader_id[m] = m /\ up[m] /\ m # n
      BY <1>2, <2>2 DEF Failover!Accepts, PushInv, PushedToOthers
    <3>2. Failover!IsLowest(m) /\ ~up[InitLeader]
      BY <1>0, <2>2, <3>1, ElectionFacts
    <3>3. m <= n
      BY <2>2, <3>2 DEF Failover!IsLowest, Node
    <3>4. m \in Nat /\ n \in Nat
      BY <1>0, ElectionFacts
    <3> QED BY <1>1, <3>1, <3>2, <3>3, <3>4, ClusterHolds DEF Turns
  <2> QED BY <2>1, <2>2, PushSource DEF PushInv, PushedToOthers
<1>6. PushedToOthers'
  <2> SUFFICES ASSUME NEW x \in writes' PROVE x.node \notin x.unsent
    BY DEF PushedToOthers
  <2> QED BY WriteSource DEF PushInv, PushedToOthers, Advances, JustLetIn
<1> QED BY <1>3, <1>4, <1>5, <1>6 DEF PushInv

-----------------------------------------------------------------------------
(* How new the values are, until somebody boots again                      *)

\* What a message sets k to, if anything.
Brings(msg, k) ==
    IF PushOf(msg, k) THEN msg.value ELSE IF msg.type = "SYNC_RESPONSE" THEN msg.data[k] ELSE 0

\* No value of k is above v.
NoneAbove(k, v) ==
    /\ acked[k] <= v
    /\ \A n \in Node : /\ kv[n][k] <= v
                       /\ \A i \in 1..Len(inbox[n]) : Brings(inbox[n][i], k) <= v
                       /\ \A copy \in answering[n] : copy[k] <= v

Counted == /\ \A k \in Key : NoneAbove(k, puts)
           /\ \A w \in writes : w.value <= puts

\* A PUT in progress of a key that is not contended is the only one of the key, with the
\* newest value of it.
Newest ==
    \A w \in writes : w.key \notin contended =>
        /\ NoneAbove(w.key, w.value)
        /\ \A x \in writes : x.key = w.key => x = w

\* In a queue, and after the value v, the pushes of k only ever go up.
Rises(queue, k, v) ==
    \A j \in 1..Len(queue) : PushOf(queue[j], k) =>
        /\ v <= queue[j].value
        /\ \A i \in 1..(j - 1) : Brings(queue[i], k) <= queue[j].value

Rising == \A n \in Node, k \in Key \ contended : Rises(inbox[n], k, kv[n][k])

ValueInv == Counted /\ Newest /\ Rising

DataInv == restarts = 0 => PushInv /\ ValueInv

LEMMA ValueTyped == Value \subseteq Nat
BY ClusterHolds DEF Value

LEMMA BringsTyped ==
    ASSUME NEW msg \in Message, NEW k \in Key
    PROVE  Brings(msg, k) \in Nat
BY ValueTyped DEF Message, Brings, PushOf, Store

LEMMA RisesTail ==
    ASSUME NEW queue \in Seq(Message), queue # << >>, NEW k \in Key, NEW v, Rises(queue, k, v),
           NEW u, u = v \/ u = Brings(Head(queue), k)
    PROVE  Rises(Tail(queue), k, u)
<1> SUFFICES ASSUME NEW j \in 1..Len(Tail(queue)), PushOf(Tail(queue)[j], k)
             PROVE  /\ u <= Tail(queue)[j].value
                    /\ \A i \in 1..(j - 1) : Brings(Tail(queue)[i], k) <= Tail(queue)[j].value
  BY DEF Rises
<1>1. /\ Len(queue) \in Nat /\ j + 1 \in 1..Len(queue) /\ Tail(queue)[j] = queue[j + 1]
      /\ Head(queue) = queue[1] /\ 1 \in 1..(j + 1 - 1)
      /\ \A i \in 1..(j - 1) : i + 1 \in 1..(j + 1 - 1) /\ Tail(queue)[i] = queue[i + 1]
  OBVIOUS
<1>2. /\ v <= queue[j + 1].value
      /\ \A i \in 1..(j + 1 - 1) : Brings(queue[i], k) <= queue[j + 1].value
  BY <1>1 DEF Rises
<1> QED BY <1>1, <1>2

LEMMA RisesAppend ==
    ASSUME NEW queue \in Seq(Message), NEW msg \in Message, NEW k \in Key, NEW v,
           Rises(queue, k, v),
           PushOf(msg, k) => /\ v <= msg.value
                             /\ \A i \in 1..Len(queue) : Brings(queue[i], k) <= msg.value
    PROVE  Rises(Append(queue, msg), k, v)
<1> DEFINE longer == Append(queue, msg)
<1> SUFFICES ASSUME NEW j \in 1..Len(longer), PushOf(longer[j], k)
             PROVE  /\ v <= longer[j].value
                    /\ \A i \in 1..(j - 1) : Brings(longer[i], k) <= longer[j].value
  BY DEF Rises
<1>1. /\ Len(longer) = Len(queue) + 1 /\ Len(queue) \in Nat
      /\ \A i \in 1..Len(queue) : longer[i] = queue[i]
      /\ longer[Len(queue) + 1] = msg
  OBVIOUS
<1> HIDE DEF longer
<1>2. \A i \in 1..(j - 1) : i \in 1..Len(queue)
  BY <1>1
<1>3. CASE j = Len(queue) + 1
  BY <1>1, <1>2, <1>3
<1>4. CASE j # Len(queue) + 1
  <2>1. j \in 1..Len(queue)
    BY <1>1, <1>4
  <2> QED BY <1>1, <1>2, <2>1 DEF Rises
<1> QED BY <1>3, <1>4

\* The copies that wait to be sent were taken from the store.
LEMMA CopySource ==
    ASSUME Typed, [Next]_vars, NEW n \in Node, NEW copy \in answering'[n]
    PROVE  copy \in answering[n] \/ (copy = kv[n] /\ Failover!Handles(n, "SYNC_REQUEST"))
<1>0. answering \in [Node -> SUBSET Store]
  BY DEF Typed, TypeOK
<1>1. ASSUME NEW k \in Node, Receive(k)
      PROVE  copy \in answering[n] \/ (copy = kv[n] /\ Failover!Handles(n, "SYNC_REQUEST"))
  <2>1. CASE TakeSnapshot(k)
    BY <1>0, <2>1 DEF TakeSnapshot
  <2>2. CASE SendSnapshot(k)
    BY <1>0, <2>2 DEF SendSnapshot
  <2>3. CASE ~TakeSnapshot(k) /\ ~SendSnapshot(k)
    <3>1. UNCHANGED answering
      BY <1>1, <2>3 DEF Receive, ReceiveSelfPromotion, ReceiveSyncResponse, ReceivePush,
         ReceiveHeartBeat, data
    <3> QED BY <3>1
  <2> QED BY <2>1, <2>2, <2>3
<1>2. ASSUME NEW k \in Node, Detect(k) \/ Crash(k) \/ Start(k) \/ PullLeaderData(k)
      PROVE  copy \in answering[n]
  BY <1>0, <1>2 DEF Detect, Crash, Start, PullLeaderData, data
<1>3. CASE Serve \/ UNCHANGED vars
  BY <1>3 DEF Serve, Admit, StorePair, Push, Respond, vars, data
<1> QED BY <1>1, <1>2, <1>3 DEF Next

LEMMA NoneAboveKept ==
    ASSUME Typed, Asked, [Next]_vars, NEW k \in Key, NEW v \in Nat, NoneAbove(k, v),
           \A w \in writes : w.key = k => w.value <= v
    PROVE  NoneAbove(k, v)'
<1>0. /\ kv \in [Node -> Store] /\ acked \in Store /\ answering \in [Node -> SUBSET Store]
      /\ \A n \in Node : inbox[n] \in Seq(Message)
      /\ \A w \in writes : w \in Write
  BY DEF Typed, TypeOK
<1>1. acked'[k] <= v
  <2>1. ASSUME NEW w \in writes, acked' = [acked EXCEPT ![w.key] = w.value]
        PROVE  acked'[k] <= v
    BY <1>0, <2>1 DEF NoneAbove, Store
  <2> QED BY <2>1, AckedSource DEF NoneAbove
<1>2. ASSUME NEW n \in Node PROVE kv'[n][k] <= v
  <2>1. CASE Crash(n)
    BY <1>0, <2>1 DEF Crash, Empty
  <2>2. CASE Takes(n)
    <3>1. 1 \in 1..Len(inbox[n]) /\ Head(inbox[n]) = inbox[n][1]
      BY <1>0, <2>2 DEF Takes
    <3>2. Brings(Head(inbox[n]), k) <= v
      BY <3>1 DEF NoneAbove
    <3> QED BY <2>2, <3>2 DEF Takes, Brings, NoneAbove, PushOf
  <2>3. ASSUME NEW w \in writes, StorePair(w), w.node = n PROVE kv'[n][k] <= v
    <3>1. kv'[n] = [kv[n] EXCEPT ![w.key] = w.value]
      BY <1>0, <2>3 DEF StorePair
    <3> QED BY <1>0, <3>1 DEF NoneAbove, Store
  <2> QED BY <2>1, <2>2, <2>3, AllSee DEF Seen, NoneAbove
<1>3. ASSUME NEW n \in Node, NEW i \in 1..Len(inbox'[n]) PROVE Brings(inbox'[n][i], k) <= v
  <2>1. CASE \E j \in 1..Len(inbox[n]) : inbox'[n][i] = inbox[n][j]
    BY <2>1 DEF NoneAbove
  <2>2. ASSUME NEW msg \in Message, New(n, msg) PROVE Brings(msg, k) <= v
    <3>1. CASE msg.type = "SYNC_RESPONSE"
      BY <2>2, <3>1 DEF New, Message, NoneAbove, Brings, PushOf, PushFor
    <3>2. ASSUME NEW w \in writes, msg = PushFor(w) PROVE Brings(msg, k) <= v
      BY <3>2 DEF Brings, PushOf, PushFor
    <3> QED BY <2>2, <3>1, <3>2 DEF New, Brings, PushOf
  <2> QED BY <2>1, <2>2, MessageSource
<1>4. ASSUME NEW n \in Node, NEW copy \in answering'[n] PROVE copy[k] <= v
  BY CopySource DEF NoneAbove
<1> QED BY <1>1, <1>2, <1>3, <1>4 DEF NoneAbove

LEMMA NoneAboveRises ==
    ASSUME Typed, NEW k \in Key, NEW u \in Nat, NEW v \in Nat, u <= v, NoneAbove(k, u)
    PROVE  NoneAbove(k, v)
<1>1. /\ kv \in [Node -> Store] /\ acked \in Store /\ answering \in [Node -> SUBSET Store]
      /\ \A n \in Node : inbox[n] \in Seq(Message)
  BY DEF Typed, TypeOK
<1>2. acked[k] \in Nat
  BY <1>1, ValueTyped DEF Store
<1>3. ASSUME NEW n \in Node
      PROVE  /\ kv[n][k] <= v
             /\ \A i \in 1..Len(inbox[n]) : Brings(inbox[n][i], k) <= v
             /\ \A copy \in answering[n] : copy[k] <= v
  <2>1. kv[n][k] \in Nat /\ \A copy \in answering[n] : copy[k] \in Nat
    BY <1>1, ValueTyped DEF Store
  <2>2. \A i \in 1..Len(inbox[n]) : Brings(inbox[n][i], k) \in Nat
    BY <1>1, BringsTyped
  <2> QED BY <2>1, <2>2 DEF NoneAbove
<1> QED BY <1>2, <1>3 DEF NoneAbove

\* What a step may do to the counters.
LEMMA CounterSource ==
    ASSUME Typed, [Next]_vars
    PROVE  contended \subseteq contended' /\ (puts' = puts \/ puts' = puts + 1)
<1>1. ASSUME NEW n \in Node, NEW k \in Key, Admit(n, k)
      PROVE  contended \subseteq contended' /\ puts' = puts + 1
  BY <1>1 DEF Admit
<1>2. ASSUME NEW w \in writes, NEW f \in Node, StorePair(w) \/ Push(w, f) \/ Respond(w)
      PROVE  contended' = contended /\ puts' = puts
  BY <1>2 DEF StorePair, Push, Respond
<1>3. ASSUME NEW n \in Node, Receive(n) \/ Detect(n) \/ Crash(n) \/ Start(n) \/ PullLeaderData(n)
      PROVE  contended' = contended /\ puts' = puts
  BY <1>3 DEF Receive, ReceiveSelfPromotion, TakeSnapshot, SendSnapshot, ReceiveSyncResponse,
     ReceivePush, ReceiveHeartBeat, Detect, Crash, Start, PullLeaderData, data
<1>4. CASE UNCHANGED vars
  BY <1>4 DEF vars, data
<1> QED BY <1>1, <1>2, <1>3, <1>4, ClusterHolds DEF Next, Serve

LEMMA NextCounted ==
    ASSUME Typed, Asked, Counted, [Next]_vars
    PROVE  Counted'
<1>0. Typed' /\ puts \in Nat /\ puts' \in Nat /\ puts <= puts'
  <2>1. Typed'
    BY NextTyped
  <2>2. puts \in Nat /\ puts' \in Nat
    BY <2>1, ValueTyped DEF Typed, TypeOK
  <2> QED BY <2>1, <2>2, CounterSource
<1>1. PICK u \in Nat : u = puts
  BY <1>0
<1>2. PICK v \in Nat : v = puts'
  BY <1>0
<1>3. \A w \in writes : w.value \in Nat
  BY ValueTyped DEF Typed, TypeOK, Write
<1>4. ASSUME NEW k \in Key PROVE NoneAbove(k, puts)'
  <2>1. NoneAbove(k, u) /\ u <= v
    BY <1>0, <1>1, <1>2 DEF Counted
  <2>2. NoneAbove(k, v)
    BY <2>1, NoneAboveRises
  <2>3. \A w \in writes : w.value <= v
    BY <1>0, <1>2, <1>3 DEF Counted
  <2>4. NoneAbove(k, v)'
    BY <2>2, <2>3, NoneAboveKept
  <2> QED BY <1>2, <2>4 DEF NoneAbove
<1>5. ASSUME NEW x \in writes' PROVE x.value <= puts'
  <2>1. ASSUME NEW w \in writes, Advances(w, x) PROVE x.value <= puts'
    <3>1. x.value = w.value /\ w.value <= puts /\ w.value \in Nat
      BY <1>3, <2>1 DEF Advances, Counted
    <3> QED BY <1>0, <3>1
  <2>2. JustLetIn(x) => x.value <= puts'
    BY <1>0 DEF JustLetIn
  <2> QED BY <2>1, <2>2, WriteSource
<1> QED BY <1>4, <1>5 DEF Counted

LEMMA NextNewest ==
    ASSUME Typed, Asked, Counted, Newest, [Next]_vars
    PROVE  Newest'
<1> SUFFICES ASSUME NEW x \in writes', x.key \notin contended'
             PROVE  NoneAbove(x.key, x.value)' /\ \A y \in writes' : y.key = x.key => y = x
  BY DEF Newest
<1>0. /\ \A w \in writes : w \in Write /\ w.key \in Key /\ w.value \in Nat
      /\ x.key \in Key /\ x.value \in Nat /\ x.key \notin contended
  <2>1. Typed'
    BY NextTyped
  <2> QED BY <2>1, ValueTyped, CounterSource DEF Typed, TypeOK, Write
<1>1. CASE JustLetIn(x)
  <2>1. \A w \in writes : w.key # x.key
    BY <1>1 DEF JustLetIn
  <2>2. PICK u \in Nat : u = puts
    BY ValueTyped DEF Typed, TypeOK
  <2>3. NoneAbove(x.key, u)
    BY <1>0, <2>2 DEF Counted
  <2>4. x.value = u + 1 /\ u <= x.value
    BY <1>0, <1>1, <2>2 DEF JustLetIn
  <2>5. NoneAbove(x.key, x.value)
    BY <1>0, <2>3, <2>4, NoneAboveRises
  <2>6. NoneAbove(x.key, x.value)'
    BY <1>0, <2>1, <2>5, NoneAboveKept
  <2> QED BY <1>1, <2>1, <2>6 DEF JustLetIn
<1>2. ASSUME NEW w \in writes, Advances(w, x)
      PROVE  NoneAbove(x.key, x.value)' /\ \A y \in writes' : y.key = x.key => y = x
  <2>1. x.key = w.key /\ x.value = w.value
    BY <1>2 DEF Advances
  <2>2. NoneAbove(w.key, w.value) /\ \A v \in writes : v.key = w.key => v = w
    BY <1>0, <2>1 DEF Newest
  <2>3. NoneAbove(x.key, x.value)'
    BY <1>0, <2>1, <2>2, NoneAboveKept
  <2>4. ASSUME NEW y \in writes', y.key = x.key PROVE y = x
    <3>1. ASSUME JustLetIn(y) PROVE FALSE
      BY <1>2, <2>1, <2>4, <3>1 DEF JustLetIn
    <3>2. PICK v \in writes : Advances(v, y)
      BY <3>1, WriteSource
    <3>3. v = w
      BY <2>1, <2>2, <2>4, <3>2 DEF Advances
    <3>4. x = w \/ writes' = (writes \ {w}) \cup {x}
      BY <1>2 DEF Advances
    <3>5. y = w \/ writes' = (writes \ {w}) \cup {y}
      BY <3>2, <3>3 DEF Advances
    <3> QED BY <2>1, <2>2, <2>4, <3>4, <3>5
  <2> QED BY <2>3, <2>4
<1> QED BY <1>1, <1>2, WriteSource

LEMMA NextRising ==
    ASSUME Typed, Asked, Elected, WritesStayWithLeader, PushInv, Newest, Rising, [Next]_vars,
           restarts' = 0
    PROVE  Rising'
<1> SUFFICES ASSUME NEW n \in Node, NEW k \in Key, k \notin contended'
             PROVE  Rises(inbox'[n], k, kv'[n][k])
  BY DEF Rising, Rises, PushOf, Brings
<1>0. /\ restarts = 0 /\ k \notin contended
      /\ inbox[n] \in Seq(Message) /\ inbox'[n] \in Seq(Message)
      /\ kv \in [Node -> Store] /\ kv' \in [Node -> Store]
      /\ \A w \in writes : w.node \in Node /\ w.key \in Key /\ w.value \in Nat
  <2>1. Typed'
    BY NextTyped
  <2> QED BY <2>1, RestartsStay, CounterSource, ValueTyped DEF Typed, TypeOK, Write
<1>1. Rises(inbox[n], k, kv[n][k])
  BY <1>0 DEF Rising
\* A push that is added is the newest.
<1>2. ASSUME NEW queue \in Seq(Message), Rises(queue, k, kv'[n][k]), Adds(n, queue),
             \A i \in 1..Len(queue) : \E j \in 1..Len(inbox[n]) : queue[i] = inbox[n][j]
      PROVE  Rises(inbox'[n], k, kv'[n][k])
  <2>1. ASSUME NEW msg \in Message, New(n, msg), inbox'[n] = Append(queue, msg)
        PROVE  Rises(Append(queue, msg), k, kv'[n][k])
    <3>1. ASSUME PushOf(msg, k)
          PROVE  /\ kv'[n][k] <= msg.value
                 /\ \A i \in 1..Len(queue) : Brings(queue[i], k) <= msg.value
      <4>1. PICK w \in writes : msg = PushFor(w)
        BY <2>1, <3>1 DEF New, PushOf
      <4>2. w.key = k /\ msg.value = w.value
        BY <3>1, <4>1 DEF PushFor, PushOf
      <4>3. NoneAbove(k, w.value) /\ \A x \in writes : x.key = k => x = w
        BY <1>0, <4>2 DEF Newest
      <4>4. NoneAbove(k, w.value)'
        BY <1>0, <4>2, <4>3, NoneAboveKept
      <4>5. kv'[n][k] <= w.value
        BY <4>4 DEF NoneAbove
      <4> QED BY <1>2, <4>2, <4>3, <4>5 DEF NoneAbove
    <3> QED BY <1>2, <2>1, <3>1, RisesAppend
  <2> QED BY <1>2, <2>1 DEF Adds
<1>3. CASE Crash(n)
  <2>1. inbox'[n] = << >>
    BY <1>3 DEF Crash, Failover!Crash, Typed, TypeOK
  <2> QED BY <2>1 DEF Rises
<1>4. CASE Takes(n) /\ Adds(n, Tail(inbox[n]))
  <2>1. kv'[n][k] = kv[n][k] \/ kv'[n][k] = Brings(Head(inbox[n]), k)
    BY <1>4 DEF Takes, Brings
  <2>2. /\ Tail(inbox[n]) \in Seq(Message) /\ inbox[n] # << >>
        /\ \A i \in 1..Len(Tail(inbox[n])) :
              i + 1 \in 1..Len(inbox[n]) /\ Tail(inbox[n])[i] = inbox[n][i + 1]
    BY <1>0, <1>4 DEF Takes
  <2>3. Rises(Tail(inbox[n]), k, kv'[n][k])
    BY <1>0, <1>1, <2>1, <2>2, RisesTail
  <2> QED BY <1>2, <1>4, <2>2, <2>3
<1>5. CASE Adds(n, inbox[n]) /\ kv'[n] = kv[n]
  BY <1>0, <1>1, <1>2, <1>5
<1>6. ASSUME Adds(n, inbox[n]), NEW w \in writes, StorePair(w), w.node = n
      PROVE  Rises(inbox'[n], k, kv'[n][k])
  <2>1. up[n] /\ current_leader_id[n] = n
    BY <1>0, <1>6 DEF WritesStayWithLeader, Failover!Accepts
  <2>2. \A m \in Node : ~PushFrom(m, n)
    BY <1>0, <2>1, NoPushToLeader
  <2>3. ASSUME NEW i \in 1..Len(inbox[n]) PROVE ~PushOf(inbox[n][i], k)
    <3>1. inbox[n][i] \in Message
      BY <1>0
    <3> QED BY <2>2, <3>1 DEF PushFrom, PushOf, Message
  <2>4. Rises(inbox[n], k, kv'[n][k])
    BY <2>3 DEF Rises
  <2> QED BY <1>0, <1>2, <1>6, <2>4
<1> QED BY <1>3, <1>4, <1>5, <1>6, AllSee DEF Seen

LEMMA InitData == Init => DataInv
<1> SUFFICES ASSUME Init PROVE PushInv /\ ValueInv
  BY DEF DataInv
<1>1. /\ \A k \in Key : acked[k] = 0
      /\ \A n \in Node : /\ inbox[n] = << >> /\ suspects[n] = {} /\ pc[n] = "scan"
                         /\ current_leader_id[n] = InitLeader /\ answering[n] = {}
                         /\ \A m \in Node : is_alive[n][m]
                         /\ \A k \in Key : kv[n][k] = 0
      /\ writes = {} /\ puts = 0
  BY DEF Init, Failover!Init, Node, Empty
<1>2. PushInv
  BY <1>1 DEF PushInv, HeardOut, FirstMarked, PushersLead, PushedToOthers, PushFrom
<1>3. ValueInv
  BY <1>1 DEF ValueInv, Counted, Newest, Rising, Rises, NoneAbove
<1> QED BY <1>2, <1>3

LEMMA NextData ==
    ASSUME Typed, Asked, Elected, WritesStayWithLeader, DataInv, MaxMistakes = 0, [Next]_vars
    PROVE  DataInv'
<1> SUFFICES ASSUME restarts' = 0 PROVE PushInv' /\ ValueInv'
  BY DEF DataInv
<1>1. restarts = 0 /\ PushInv /\ Counted /\ Newest /\ Rising
  BY RestartsStay DEF DataInv, ValueInv
<1> QED BY <1>1, NextPush, NextCounted, NextNewest, NextRising DEF ValueInv

LEMMA DataInvariant ==
    ASSUME MaxMistakes = 0
    PROVE  Spec => [](Typed /\ Asked /\ Elected /\ WritesStayWithLeader /\ DataInv)
<1>1. Spec => []WritesStayWithLeader
  BY WritesStay
<1>2. Spec => [](Typed /\ Elected)
  BY ElectedInvariant
<1>3. Typed /\ Asked /\ Elected /\ WritesStayWithLeader /\ DataInv /\ [Next]_vars => DataInv'
  BY NextData
<1> QED BY <1>1, <1>2, <1>3, InitData, BootsInvariant, PTL DEF Spec

\* With an accurate detector, and until somebody boots again, pushes of old and new leaders
\* never take a key back that was not put twice at a time, only an answer to a pull does
\* (kivileaf.cpp, handle_push_message applies them whoever sent them).
THEOREM PushesNeverGoBack ==
    ASSUME MaxMistakes = 0
    PROVE  Spec => OnlySnapshotsGoBack
<1>1. Typed /\ Asked /\ Elected /\ WritesStayWithLeader /\ DataInv /\ [Next]_vars
        => (restarts' = 0 =>
              \A n \in Node, k \in Key :
                 up'[n] /\ k \notin contended /\ kv'[n][k] < kv[n][k] =>
                     Head(inbox[n]).type = "SYNC_RESPONSE")
  <2> SUFFICES ASSUME Typed, Asked, Elected, WritesStayWithLeader, DataInv, [Next]_vars,
                      restarts' = 0, NEW n \in Node, NEW k \in Key, up'[n],
                      k \notin contended, kv'[n][k] < kv[n][k]
               PROVE  Head(inbox[n]).type = "SYNC_RESPONSE"
    OBVIOUS
  <2>0. /\ restarts = 0 /\ PushInv /\ Newest /\ Rising
        /\ kv \in [Node -> Store] /\ kv[n][k] \in Nat /\ inbox[n] \in Seq(Message)
        /\ kv'[n][k] \in Nat
        /\ \A w \in writes : w.key \in Key /\ w.value \in Nat
    <3>1. Typed' /\ restarts = 0
      BY NextTyped, RestartsStay
    <3>2. PushInv /\ Newest /\ Rising
      BY <3>1 DEF DataInv, ValueInv
    <3>3. kv \in [Node -> Store] /\ kv' \in [Node -> Store] /\ inbox[n] \in Seq(Message)
      BY <3>1 DEF Typed, TypeOK
    <3>4. \A w \in writes : w.key \in Key /\ w.value \in Nat
      BY ValueTyped DEF Typed, TypeOK, Write
    <3> QED BY <3>1, <3>2, <3>3, <3>4, ValueTyped DEF Store
  <2>1. ~Crash(n)
    BY DEF Crash, Failover!Crash, Typed, Placed
  <2>2. CASE Takes(n)
    <3>1. 1 \in 1..Len(inbox[n]) /\ Head(inbox[n]) = inbox[n][1]
      BY <2>0, <2>2 DEF Takes
    <3>2. ASSUME PushOf(Head(inbox[n]), k) PROVE FALSE
      <4>1. kv[n][k] <= Head(inbox[n]).value
        BY <2>0, <3>1, <3>2 DEF Rising, Rises
      <4>2. kv'[n][k] = Head(inbox[n]).value
        BY <2>2, <3>2 DEF Takes
      <4> QED BY <2>0, <4>1, <4>2
    <3> QED BY <2>0, <2>2, <3>2 DEF Takes
  <2>3. ASSUME NEW w \in writes, StorePair(w), w.node = n PROVE FALSE
    <3>1. kv'[n] = [kv[n] EXCEPT ![w.key] = w.value]
      BY <2>0, <2>3 DEF StorePair
    <3>2. w.key = k /\ kv'[n][k] = w.value
      BY <2>0, <3>1 DEF Store
    <3>3. kv[n][k] <= w.value
      BY <2>0, <3>2 DEF Newest, NoneAbove
    <3> QED BY <2>0, <3>2, <3>3
  <2> QED BY <2>0, <2>1, <2>2, <2>3, AllSee DEF Seen
<1> QED BY <1>1, DataInvariant, PTL DEF Spec, OnlySnapshotsGoBack

-----------------------------------------------------------------------------
(* What survives the leader                                                *)

OneDown == crashes <= 1 => \A n, m \in Node : up[n] \/ up[m] \/ n = m
NobodyDown == crashes = 0 => \A n \in Node : up[n]

\* Nobody has taken over from the first leader.
Unsucceeded == \A n \in Node : n # InitLeader => leaf_role[n] # "LOCAL_LEADER"

LeadersAccept ==
    /\ leaf_role[InitLeader] = "LOCAL_LEADER"
    /\ \A n \in Node : up[n] /\ leaf_role[n] = "LOCAL_LEADER" => current_leader_id[n] = n

\* Until then nothing but pushes is sent.
OnlyPushes ==
    Unsucceeded => \A n \in Node :
        /\ \A i \in 1..Len(inbox[n]) : inbox[n][i].type = "LOCAL_SYNC_PUSH"
        /\ answering[n] = {}
        /\ pc[n] # "announce"

\* Nobody who leads has asked for data.
LeadersPullNothing ==
    crashes <= 1 => \A n \in Node : Failover!Accepts(n) => \A m \in Node :
        \A i \in 1..Len(inbox[m]) :
            /\ inbox[m][i].type = "SYNC_REQUEST" => inbox[m][i].from # n
            /\ inbox[m][i].type = "SYNC_RESPONSE" => m # n

\* n has the value v of k or a newer one, or will take one from its queue.
Comes(n, k, v) ==
    \/ v <= kv[n][k]
    \/ \E i \in 1..Len(inbox[n]) : PushOf(inbox[n][i], k) /\ v <= inbox[n][i].value

\* The keys of which n may miss the newest value: put twice at a time, or a push was lost.
Excused(n) == contended \cup lost[n]

\* Until somebody has taken over, all have what is acknowledged, and what a PUT in progress
\* has been pushed to has its value.
AllHave ==
    crashes <= 1 /\ Unsucceeded => \A n \in Node : up[n] =>
        /\ \A k \in Key \ Excused(n) : Comes(n, k, acked[k])
        /\ \A w \in writes :
              w.stored /\ w.key \notin Excused(n) /\ n \notin w.unsent \cup {w.node}
                 => Comes(n, w.key, w.value)

Stored ==
    crashes <= 1 => \A w \in writes : w.stored /\ w.key \notin contended
                                        => kv[w.node][w.key] = w.value

LeadersHave ==
    crashes <= 1 => \A n \in Node : Failover!Accepts(n) =>
                       \A k \in Key \ Excused(n) : acked[k] <= kv[n][k]

SurvivalInv ==
    /\ OneDown /\ NobodyDown
    /\ restarts = 0 => /\ LeadersAccept /\ OnlyPushes
                       /\ LeadersPullNothing /\ AllHave /\ Stored /\ LeadersHave

LEMMA InitSurvival == Init => SurvivalInv
<1> SUFFICES ASSUME Init PROVE SurvivalInv
  OBVIOUS
<1>1. /\ \A k \in Key : acked[k] = 0
      /\ \A n \in Node : /\ up[n] /\ inbox[n] = << >> /\ pc[n] = "scan"
                         /\ current_leader_id[n] = InitLeader /\ answering[n] = {}
                         /\ n = InitLeader <=> leaf_role[n] = "LOCAL_LEADER"
                         /\ \A k \in Key : kv[n][k] = 0
      /\ writes = {} /\ InitLeader \in Node
  BY ClusterHolds DEF Init, Failover!Init, Node, Empty
<1> QED BY <1>1 DEF SurvivalInv, OneDown, NobodyDown, LeadersAccept, OnlyPushes,
       LeadersPullNothing, AllHave, Comes, Stored, LeadersHave

LEMMA NextDown ==
    ASSUME Typed, OneDown, NobodyDown, [Next]_vars
    PROVE  OneDown' /\ NobodyDown'
<1>1. crashes \in Nat
  BY ClusterHolds DEF Typed, Placed
<1> QED BY <1>1, CrashSource DEF OneDown, NobodyDown

\* As long as at most one node has crashed, who promotes itself is the first to take over.
LEMMA FirstSuccessor ==
    ASSUME Typed, Elected, restarts = 0, crashes <= 1, OneDown, LeadersAccept,
           NEW n \in Node, up[n], pc[n] = "promote"
    PROVE  Unsucceeded
<1> SUFFICES ASSUME NEW j \in Node, j # InitLeader, leaf_role[j] = "LOCAL_LEADER" PROVE FALSE
  BY DEF Unsucceeded
<1>1. ~up[InitLeader] /\ leaf_role[n] = "PROMOTION_READY_REPLICA" /\ Failover!IsLowest(n)
  BY ElectionFacts
<1>2. up[j] /\ current_leader_id[j] = j /\ j # n
  BY <1>1, ClusterHolds DEF OneDown, LeadersAccept
<1>3. j <= n /\ is_alive[n][j] /\ j \in Nat /\ n \in Nat
  BY <1>2, ElectionFacts
<1>4. n <= j
  BY <1>1, <1>3 DEF Failover!IsLowest, Node
<1> QED BY <1>2, <1>3, <1>4

LEMMA OneAccepts ==
    ASSUME Typed, Elected, restarts = 0, NEW n \in Node, NEW m \in Node,
           Failover!Accepts(n), Failover!Accepts(m)
    PROVE  n = m
<1>1. up[n] /\ up[m] /\ current_leader_id[n] = n /\ current_leader_id[m] = m
  BY DEF Failover!Accepts
<1>2. n # InitLeader \/ m # InitLeader => n # InitLeader /\ m # InitLeader
  BY <1>1, ElectionFacts
<1>3. n # InitLeader /\ m # InitLeader => n <= m /\ m <= n
  BY <1>1, ElectionFacts
<1>4. n \in Nat /\ m \in Nat
  BY ElectionFacts
<1> QED BY <1>2, <1>3, <1>4

\* Who accepts writes after a step did so before, or has just promoted itself.
LEMMA AcceptsSource ==
    ASSUME Typed, Elected, restarts = 0, \A n \in Node : Turns(n), NEW n \in Node,
           Failover!Accepts(n)'
    PROVE  \/ Failover!Accepts(n)
           \/ /\ pc[n] = "promote" /\ up[n] /\ UNCHANGED <<up, inbox, is_alive, data>>
              /\ \A m \in Node \ {n} : current_leader_id'[m] = current_leader_id[m]
<1>1. Failover!Handles(n, "SELF_PROMOTION") => Head(inbox[n]).from # n
  BY NoticeFacts
<1> QED BY <1>1 DEF Turns, Failover!Accepts

LEMMA NextLeadersAccept ==
    ASSUME Typed, Elected, restarts = 0, \A n \in Node : Turns(n), LeadersAccept
    PROVE  LeadersAccept'
<1>1. \A n \in Node : Failover!Handles(n, "SELF_PROMOTION") => current_leader_id[n] # n /\ up[n]
  BY NoticeFacts DEF Failover!Handles
<1> QED BY <1>1, ClusterHolds DEF Turns, LeadersAccept

LEMMA NextOnlyPushes ==
    ASSUME Typed, Asked, BootsPull, Elected, restarts = 0, \A n \in Node : Turns(n),
           LeadersAccept, OnlyPushes, [Next]_vars, Unsucceeded'
    PROVE  Unsucceeded /\ OnlyPushes'
<1>1. Unsucceeded
  BY DEF Turns, Unsucceeded
<1>2. ASSUME NEW n \in Node, inbox[n] # << >>
      PROVE  Head(inbox[n]).type = "LOCAL_SYNC_PUSH"
  <2>1. inbox[n] \in Seq(Message)
    BY DEF Typed, TypeOK
  <2>2. 1 \in 1..Len(inbox[n]) /\ Head(inbox[n]) = inbox[n][1]
    BY <1>2, <2>1
  <2> QED BY <1>1, <2>2 DEF OnlyPushes
<1>3. ASSUME NEW n \in Node, NEW type, type # "LOCAL_SYNC_PUSH" PROVE ~Failover!Handles(n, type)
  BY <1>2, <1>3 DEF Failover!Handles
<1>4. ASSUME NEW n \in Node, NEW i \in 1..Len(inbox'[n])
      PROVE  inbox'[n][i].type = "LOCAL_SYNC_PUSH"
  <2>1. CASE \E j \in 1..Len(inbox[n]) : inbox'[n][i] = inbox[n][j]
    BY <1>1, <2>1 DEF OnlyPushes
  <2>2. ASSUME NEW msg \in Message, New(n, msg) PROVE msg.type = "LOCAL_SYNC_PUSH"
    <3>1. msg.from \in Node
      BY DEF Message
    <3>2. pc[msg.from] # "announce" /\ answering[msg.from] = {} /\ ~pulling[msg.from]
      BY <1>1, <3>1 DEF OnlyPushes, BootsPull
    <3>3. ~Failover!Handles(msg.from, "SELF_PROMOTION")
      BY <1>3, <3>1
    <3> QED BY <2>2, <3>2, <3>3 DEF New, PushFor
  <2> QED BY <2>1, <2>2, MessageSource
<1>5. ASSUME NEW n \in Node PROVE answering'[n] = {}
  <2>1. \A copy \in answering'[n] : FALSE
    BY <1>1, <1>3, CopySource DEF OnlyPushes
  <2> QED BY <2>1
<1>6. ASSUME NEW n \in Node PROVE pc'[n] # "announce"
  <2>1. SUFFICES ASSUME pc[n] = "promote", current_leader_id'[n] = n PROVE FALSE
    BY <1>1 DEF Turns, OnlyPushes
  <2>2. leaf_role[n] = "PROMOTION_READY_REPLICA" /\ n # InitLeader
    BY <2>1, ElectionFacts DEF LeadersAccept
  <2>3. current_leader_id[n] # n /\ (Failover!Handles(n, "SELF_PROMOTION") => Head(inbox[n]).from # n)
    BY <2>2, ElectionFacts, NoticeFacts
  <2>4. leaf_role'[n] = "LOCAL_LEADER"
    BY <2>1, <2>3 DEF Turns
  <2> QED BY <2>2, <2>4 DEF Unsucceeded
<1> QED BY <1>1, <1>4, <1>5, <1>6 DEF OnlyPushes

LEMMA NextLeadersPullNothing ==
    ASSUME Typed, Asked, BootsPull, Elected, restarts = 0, \A n \in Node : Turns(n),
           OneDown, LeadersAccept, OnlyPushes, LeadersPullNothing, [Next]_vars, crashes <= 1
    PROVE  LeadersPullNothing'
<1> SUFFICES ASSUME NEW n \in Node, Failover!Accepts(n)', NEW m \in Node,
                    NEW i \in 1..Len(inbox'[m])
             PROVE  /\ inbox'[m][i].type = "SYNC_REQUEST" => inbox'[m][i].from # n
                    /\ inbox'[m][i].type = "SYNC_RESPONSE" => m # n
  BY DEF LeadersPullNothing, Failover!Accepts
<1>1. CASE Failover!Accepts(n)
  <2>1. CASE \E j \in 1..Len(inbox[m]) : inbox'[m][i] = inbox[m][j]
    BY <1>1, <2>1 DEF LeadersPullNothing
  <2>2. ASSUME NEW msg \in Message, New(m, msg)
        PROVE  /\ msg.type = "SYNC_REQUEST" => msg.from # n
               /\ msg.type = "SYNC_RESPONSE" => m # n
    <3>1. msg.from \in Node /\ ~pulling[msg.from]
      BY DEF Message, BootsPull
    <3>2. ~Failover!Handles(n, "SELF_PROMOTION")
      BY <1>1, NoticeFacts DEF Failover!Accepts
    <3>3. ASSUME NEW j \in Node, Failover!Handles(j, "SYNC_REQUEST") PROVE Head(inbox[j]).from # n
      <4>1. inbox[j] \in Seq(Message) /\ inbox[j] # << >> /\ Head(inbox[j]).type = "SYNC_REQUEST"
        BY <3>3 DEF Typed, TypeOK, Failover!Handles
      <4>2. 1 \in 1..Len(inbox[j]) /\ Head(inbox[j]) = inbox[j][1]
        BY <4>1
      <4> QED BY <1>1, <4>1, <4>2 DEF LeadersPullNothing
    <3>4. msg.type = "SYNC_REQUEST" => msg.from # n
      BY <2>2, <3>1, <3>2 DEF New, PushFor
    <3>5. msg.type = "SYNC_RESPONSE" => m # n
      BY <2>2, <3>1, <3>3 DEF New, PushFor
    <3> QED BY <3>4, <3>5
  <2> QED BY <2>1, <2>2, MessageSource
<1>2. CASE pc[n] = "promote" /\ up[n] /\ inbox' = inbox
  <2>1. Unsucceeded
    BY <1>2, FirstSuccessor
  <2> QED BY <1>2, <2>1 DEF OnlyPushes
<1> QED BY <1>1, <1>2, AcceptsSource

LEMMA ComesKept ==
    ASSUME Typed, Asked, Newest, Rising, [Next]_vars, NEW n \in Node, ~Crash(n),
           NEW k \in Key, k \notin contended, NEW v \in Nat, Comes(n, k, v),
           inbox[n] # << >> => Head(inbox[n]).type # "SYNC_RESPONSE"
    PROVE  Comes(n, k, v)'
<1>0. /\ inbox[n] \in Seq(Message) /\ kv \in [Node -> Store] /\ kv[n][k] \in Nat
      /\ kv'[n][k] \in Nat
      /\ \A w \in writes : w.node \in Node /\ w.key \in Key /\ w.value \in Nat
  <2>1. Typed'
    BY NextTyped
  <2>2. kv \in [Node -> Store] /\ kv' \in [Node -> Store] /\ inbox[n] \in Seq(Message)
    BY <2>1 DEF Typed, TypeOK
  <2>3. \A w \in writes : w.node \in Node /\ w.key \in Key /\ w.value \in Nat
    BY ValueTyped DEF Typed, TypeOK, Write
  <2> QED BY <2>2, <2>3, ValueTyped DEF Store
<1>1. kv[n][k] <= kv'[n][k]
  <2>1. CASE Takes(n)
    <3>1. 1 \in 1..Len(inbox[n]) /\ Head(inbox[n]) = inbox[n][1] /\ inbox[n] # << >>
      BY <1>0, <2>1 DEF Takes
    <3>2. PushOf(Head(inbox[n]), k) => kv[n][k] <= Head(inbox[n]).value
      BY <3>1 DEF Rising, Rises
    <3> QED BY <1>0, <2>1, <3>1, <3>2 DEF Takes
  <2>2. ASSUME NEW w \in writes, StorePair(w), w.node = n PROVE kv[n][k] <= kv'[n][k]
    <3>1. kv'[n] = [kv[n] EXCEPT ![w.key] = w.value]
      BY <1>0, <2>2 DEF StorePair
    <3>2. w.key = k => kv[n][k] <= w.value /\ kv'[n][k] = w.value
      BY <1>0, <3>1 DEF Newest, NoneAbove, Store
    <3>3. w.key # k => kv'[n][k] = kv[n][k]
      BY <1>0, <3>1 DEF Store
    <3> QED BY <1>0, <3>2, <3>3
  <2> QED BY <1>0, <2>1, <2>2, AllSee DEF Seen
<1>2. CASE v <= kv[n][k]
  <2>1. v <= kv'[n][k]
    BY <1>0, <1>1, <1>2
  <2> QED BY <2>1 DEF Comes
<1>3. ASSUME NEW i \in 1..Len(inbox[n]), PushOf(inbox[n][i], k), v <= inbox[n][i].value
      PROVE  Comes(n, k, v)'
  <2>1. CASE \E j \in 1..Len(inbox'[n]) : inbox'[n][j] = inbox[n][i]
    BY <1>3, <2>1 DEF Comes, PushOf
  <2>2. CASE Takes(n) /\ inbox[n][i] = Head(inbox[n])
    <3>1. v <= kv'[n][k]
      BY <1>3, <2>2 DEF Takes
    <3> QED BY <3>1 DEF Comes
  <2> QED BY <2>1, <2>2, MessageKept
<1> QED BY <1>2, <1>3 DEF Comes

LEMMA PushComes ==
    ASSUME Typed, NEW w \in writes, NEW f \in Node, Push(w, f), is_alive[w.node][f], up[f]
    PROVE  Comes(f, w.key, w.value)' \/ w.key \in lost'[f]
<1> SUFFICES ASSUME w.value \notin Long, inbox'[f] = Append(inbox[f], PushFor(w))
             PROVE  Comes(f, w.key, w.value)'
  BY PushArrives
<1>1. PushFor(w) \in Message /\ inbox[f] \in Seq(Message) /\ w.value \in Nat
  BY ValueTyped DEF Typed, TypeOK, Write, Message, PushFor
<1>2. /\ Len(inbox[f]) + 1 \in 1..Len(inbox'[f])
      /\ inbox'[f][Len(inbox[f]) + 1] = PushFor(w)
  BY <1>1
<1>3. PushOf(PushFor(w), w.key) /\ PushFor(w).value = w.value
  BY DEF PushOf, PushFor
<1>4. w.value <= PushFor(w).value
  BY <1>1, <1>3
<1> QED BY <1>2, <1>3, <1>4 DEF Comes, PushOf

\* The store of a node that leads changes by its own PUTs only.
LEMMA LeaderStores ==
    ASSUME Typed, Asked, Elected, PushInv, restarts = 0, crashes <= 1, LeadersPullNothing,
           [Next]_vars, NEW n \in Node, Failover!Accepts(n), ~Crash(n)
    PROVE  \/ \A k \in Key : kv'[n][k] = kv[n][k]
           \/ \E w \in writes : /\ StorePair(w) /\ ~w.stored /\ w.node = n
                                /\ kv'[n] = [kv[n] EXCEPT ![w.key] = w.value]
<1>1. ASSUME Takes(n), NEW k \in Key PROVE kv'[n][k] = kv[n][k]
  <2>1. inbox[n] \in Seq(Message)
    BY DEF Typed, TypeOK
  <2>2. 1 \in 1..Len(inbox[n]) /\ Head(inbox[n]) = inbox[n][1] /\ Head(inbox[n]) \in Message
    BY <1>1, <2>1 DEF Takes
  <2>3. Head(inbox[n]).type # "SYNC_RESPONSE"
    BY <2>2 DEF LeadersPullNothing
  <2>4. Head(inbox[n]).type # "LOCAL_SYNC_PUSH"
    <3>1. Head(inbox[n]).from \in Node
      BY <2>2 DEF Message
    <3>2. ~PushFrom(Head(inbox[n]).from, n)
      BY <3>1, NoPushToLeader DEF Failover!Accepts
    <3> QED BY <2>2, <3>2 DEF PushFrom
  <2> QED BY <1>1, <2>3, <2>4 DEF Takes, PushOf
<1>2. ASSUME NEW w \in writes, StorePair(w), w.node = n
      PROVE  ~w.stored /\ kv'[n] = [kv[n] EXCEPT ![w.key] = w.value]
  BY <1>2 DEF StorePair, Typed, TypeOK
<1> QED BY <1>1, <1>2, AllSee DEF Seen

LEMMA NextStored ==
    ASSUME Typed, Asked, Elected, WritesStayWithLeader, PushInv, Newest, restarts = 0,
           crashes <= 1, LeadersPullNothing, Stored, [Next]_vars
    PROVE  Stored'
<1> SUFFICES ASSUME NEW x \in writes', x.stored, x.key \notin contended'
             PROVE  kv'[x.node][x.key] = x.value
  BY DEF Stored
<1>1. PICK w \in writes : Advances(w, x)
  BY WriteSource DEF JustLetIn
<1>2. /\ x.node = w.node /\ x.key = w.key /\ x.value = w.value
      /\ w.node \in Node /\ w.key \in Key /\ w.key \notin contended
      /\ kv \in [Node -> Store]
  BY <1>1, CounterSource DEF Advances, Typed, TypeOK, Write
<1>3. Failover!Accepts(w.node) /\ \A v \in writes : v.key = w.key => v = w
  BY <1>2 DEF WritesStayWithLeader, Newest
<1>4. ~Crash(w.node)
  BY <1>2 DEF Crash
<1>5. CASE StorePair(w)
  BY <1>2, <1>5 DEF StorePair, Store
<1>6. CASE ~StorePair(w)
  <2>1. w.stored /\ kv[w.node][w.key] = w.value
    BY <1>1, <1>2, <1>6 DEF Advances, Stored
  <2>2. ASSUME NEW v \in writes, ~v.stored, kv'[w.node] = [kv[w.node] EXCEPT ![v.key] = v.value]
        PROVE  kv'[w.node][w.key] = kv[w.node][w.key]
    <3>1. v.key # w.key
      BY <1>3, <2>1, <2>2
    <3>2. DOMAIN kv[w.node] = Key
      BY <1>2 DEF Store
    <3> QED BY <1>2, <2>2, <3>1, <3>2
  <2>3. kv'[w.node][w.key] = kv[w.node][w.key]
    <3>1. \/ \A k \in Key : kv'[w.node][k] = kv[w.node][k]
          \/ \E v \in writes : /\ StorePair(v) /\ ~v.stored /\ v.node = w.node
                                /\ kv'[w.node] = [kv[w.node] EXCEPT ![v.key] = v.value]
      BY <1>2, <1>3, <1>4, LeaderStores
    <3> QED BY <1>2, <2>2, <3>1
  <2> QED BY <1>2, <2>1, <2>3
<1> QED BY <1>5, <1>6

LEMMA NextAllHave ==
    ASSUME Typed, Asked, BootsPull, Elected, Newest, Rising, restarts = 0, crashes' <= 1,
           \A n \in Node : Turns(n), LeadersAccept, OnlyPushes, AllHave, Stored, [Next]_vars
    PROVE  AllHave'
<1> SUFFICES ASSUME Unsucceeded', NEW n \in Node, up'[n]
             PROVE  /\ \A k \in Key \ Excused(n)' : Comes(n, k, acked[k])'
                    /\ \A x \in writes' :
                          x.stored /\ x.key \notin Excused(n)' /\ n \notin x.unsent \cup {x.node}
                             => Comes(n, x.key, x.value)'
  BY DEF AllHave, Comes, PushOf, Excused
<1>0. /\ Unsucceeded /\ up[n] /\ ~Crash(n) /\ crashes <= 1
      /\ Excused(n) \subseteq Excused(n)' /\ contended \subseteq Excused(n)
      /\ acked \in Store
      /\ kv \in [Node -> Store]
      /\ \A w \in writes : w.node \in Node /\ w.key \in Key /\ w.value \in Nat
  <2>1. up[n] /\ ~Crash(n)
    BY DEF Turns, Crash, Failover!Crash, Typed, Placed
  <2>2. crashes \in Nat
    BY ClusterHolds DEF Typed, Placed
  <2>3. crashes <= 1
    BY <2>2, CrashSource
  <2>4. Excused(n) \subseteq Excused(n)' /\ contended \subseteq Excused(n)
    BY CounterSource, LostKept DEF Excused
  <2> QED BY <2>1, <2>3, <2>4, NextOnlyPushes, ValueTyped DEF Typed, TypeOK, Write
<1>1. inbox[n] # << >> => Head(inbox[n]).type # "SYNC_RESPONSE"
  <2>1. inbox[n] \in Seq(Message)
    BY DEF Typed, TypeOK
  <2>2. inbox[n] # << >> => 1 \in 1..Len(inbox[n]) /\ Head(inbox[n]) = inbox[n][1]
    BY <2>1
  <2> QED BY <1>0, <2>2 DEF OnlyPushes
<1>2. ASSUME NEW k \in Key, k \notin contended, NEW v \in Nat, Comes(n, k, v)
      PROVE  Comes(n, k, v)'
  BY <1>0, <1>1, <1>2, ComesKept
<1>3. ASSUME NEW w \in writes, w.stored, w.key \notin Excused(n), n \notin w.unsent
      PROVE  Comes(n, w.key, w.value)
  <2>1. CASE n # w.node
    BY <1>0, <1>3, <2>1 DEF AllHave
  <2>2. CASE n = w.node
    <3>1. w.value <= kv[n][w.key]
      BY <1>0, <1>3, <2>2 DEF Stored
    <3> QED BY <3>1 DEF Comes
  <2> QED BY <2>1, <2>2
<1>4. ASSUME NEW k \in Key, k \notin Excused(n)' PROVE Comes(n, k, acked[k])'
  <2>1. PICK v \in Nat : v = acked'[k]
    <3>1. Typed'
      BY NextTyped
    <3> QED BY <3>1, ValueTyped DEF Typed, TypeOK, Store
  <2>2. Comes(n, k, v)
    <3>1. CASE acked'[k] = acked[k]
      BY <1>0, <1>4, <2>1, <3>1 DEF AllHave
    <3>2. ASSUME NEW w \in writes, w.stored, w.unsent = {},
                 acked' = [acked EXCEPT ![w.key] = w.value], acked'[k] # acked[k]
          PROVE  Comes(n, k, v)
      <4>1. k = w.key /\ v = w.value
        BY <1>0, <2>1, <3>2 DEF Store
      <4> QED BY <1>0, <1>3, <1>4, <3>2, <4>1
    <3> QED BY <3>1, <3>2, AckedSource
  <2>3. Comes(n, k, v)'
    BY <1>0, <1>2, <1>4, <2>2
  <2> QED BY <2>1, <2>3 DEF Comes
<1>5. ASSUME NEW x \in writes', x.stored, x.key \notin Excused(n)', n \notin x.unsent,
             n # x.node
      PROVE  Comes(n, x.key, x.value)'
  <2>1. PICK w \in writes : Advances(w, x)
    BY <1>5, WriteSource DEF JustLetIn
  <2>2. /\ x.node = w.node /\ x.key = w.key /\ x.value = w.value /\ w.key \in Key
        /\ w.value \in Nat /\ w.key \notin Excused(n) /\ w.key \notin Excused(n)'
        /\ w.node \in Node
    BY <1>0, <1>5, <2>1 DEF Advances
  <2>3. CASE w.stored /\ n \notin w.unsent
    <3>1. Comes(n, w.key, w.value)
      BY <1>3, <2>2, <2>3
    <3>2. Comes(n, w.key, w.value)'
      BY <1>0, <1>2, <2>2, <3>1
    <3> QED BY <2>2, <3>2 DEF Comes
  <2>4. CASE Push(w, n)
    <3>1. is_alive[w.node][n]
      BY <1>0, <2>2, ElectionFacts
    <3>2. Comes(n, w.key, w.value)'
      BY <1>0, <2>2, <2>4, <3>1, PushComes DEF Excused
    <3> QED BY <2>2, <3>2 DEF Comes
  <2>5. (w.stored /\ n \notin w.unsent) \/ Push(w, n)
    BY <1>5, <2>1, <2>2 DEF Advances
  <2> QED BY <2>3, <2>4, <2>5
<1> QED BY <1>4, <1>5

LEMMA NextLeadersHave ==
    ASSUME Typed, Asked, Elected, WritesStayWithLeader, PushInv, Newest, restarts = 0,
           crashes' <= 1, \A n \in Node : Turns(n), OneDown, LeadersAccept,
           LeadersPullNothing, AllHave, Stored, LeadersHave, [Next]_vars
    PROVE  LeadersHave'
<1> SUFFICES ASSUME NEW n \in Node, Failover!Accepts(n)', NEW k \in Key,
                    k \notin Excused(n)'
             PROVE  acked'[k] <= kv'[n][k]
  BY DEF LeadersHave, Failover!Accepts, Excused
<1>0. /\ crashes <= 1 /\ k \notin contended /\ k \notin Excused(n) /\ kv \in [Node -> Store] /\ acked \in Store
      /\ kv[n][k] \in Nat /\ acked[k] \in Nat
      /\ \A w \in writes : w.node \in Node /\ w.key \in Key /\ w.value \in Nat
  <2>1. crashes \in Nat
    BY ClusterHolds DEF Typed, Placed
  <2>2. crashes <= 1
    BY <2>1, CrashSource
  <2>3. kv \in [Node -> Store] /\ acked \in Store
    BY DEF Typed, TypeOK
  <2>4. \A w \in writes : w.node \in Node /\ w.key \in Key /\ w.value \in Nat
    BY ValueTyped DEF Typed, TypeOK, Write
  <2>5. k \notin contended /\ k \notin Excused(n)
    BY CounterSource, LostKept DEF Excused
  <2> QED BY <2>2, <2>3, <2>4, <2>5, ValueTyped DEF Store
<1>1. CASE Failover!Accepts(n)
  <2>1. ~Crash(n)
    BY DEF Failover!Accepts, Crash, Failover!Crash, Typed, Placed
  <2>2. kv'[n][k] = kv[n][k] \/ (kv[n][k] <= kv'[n][k] /\ acked' = acked)
    <3>1. ASSUME NEW w \in writes, StorePair(w), kv'[n] = [kv[n] EXCEPT ![w.key] = w.value]
          PROVE  kv'[n][k] = kv[n][k] \/ (kv[n][k] <= kv'[n][k] /\ acked' = acked)
      <4>1. CASE w.key = k
        BY <1>0, <3>1, <4>1 DEF Newest, NoneAbove, Store, StorePair
      <4>2. CASE w.key # k
        BY <1>0, <3>1, <4>2 DEF Store
      <4> QED BY <4>1, <4>2
    <3> QED BY <1>0, <1>1, <2>1, <3>1, LeaderStores
  <2>3. acked[k] <= kv[n][k]
    BY <1>0, <1>1 DEF LeadersHave
  <2>4. CASE acked'[k] = acked[k]
    <3>1. kv'[n][k] \in Nat
      <4>1. Typed'
        BY NextTyped
      <4>2. kv'[n] \in Store
        BY <4>1 DEF Typed, TypeOK
      <4> QED BY <4>2, ValueTyped DEF Store
    <3> QED BY <1>0, <2>2, <2>3, <2>4, <3>1
  <2>5. ASSUME NEW w \in writes, w.stored, acked' = [acked EXCEPT ![w.key] = w.value],
               acked'[k] # acked[k]
        PROVE  acked'[k] <= kv'[n][k]
    <3>1. k = w.key /\ acked'[k] = w.value
      BY <1>0, <2>5 DEF Store
    <3>2. w.node = n
      BY <1>0, <1>1, OneAccepts DEF WritesStayWithLeader
    <3>3. kv[n][k] = w.value
      BY <1>0, <2>5, <3>1, <3>2 DEF Stored
    <3>4. kv'[n][k] = kv[n][k]
      BY <2>2, <2>5
    <3> QED BY <1>0, <3>1, <3>3, <3>4
  <2> QED BY <2>4, <2>5, AckedSource
<1>2. CASE pc[n] = "promote" /\ up[n] /\ UNCHANGED data
  <2>1. Unsucceeded
    BY <1>0, <1>2, FirstSuccessor
  <2>2. Comes(n, k, acked[k])
    BY <1>0, <1>2, <2>1 DEF AllHave
  <2>3. ASSUME NEW i \in 1..Len(inbox[n]), PushOf(inbox[n][i], k) PROVE FALSE
    <3>1. inbox[n] \in Seq(Message)
      BY DEF Typed, TypeOK
    <3>2. inbox[n][i] \in Message
      BY <3>1
    <3>3. inbox[n][i].from \in Node
      BY <3>2 DEF Message
    <3>4. ~PushFrom(inbox[n][i].from, n)
      BY <1>2, <3>3, NoPushToLeader
    <3> QED BY <2>3, <3>4 DEF PushFrom, PushOf
  <2>4. acked[k] <= kv[n][k]
    BY <2>2, <2>3 DEF Comes
  <2> QED BY <1>2, <2>4 DEF data
<1> QED BY <1>1, <1>2, AcceptsSource

LEMMA NextSurvival ==
    ASSUME Typed, Asked, BootsPull, Elected, WritesStayWithLeader, DataInv, SurvivalInv,
           MaxMistakes = 0, [Next]_vars
    PROVE  SurvivalInv'
<1>1. OneDown' /\ NobodyDown'
  BY NextDown DEF SurvivalInv
<1> SUFFICES ASSUME restarts' = 0
             PROVE  /\ LeadersAccept' /\ OnlyPushes'
                    /\ LeadersPullNothing' /\ AllHave' /\ Stored' /\ LeadersHave'
  BY <1>1 DEF SurvivalInv
<1>2. restarts = 0 /\ \A n \in Node : ~Start(n)
  BY RestartsStay
<1>3. \A n \in Node : Turns(n)
  BY <1>2, AllTurn
<1>4. /\ PushInv /\ Newest /\ Rising
      /\ OneDown /\ LeadersAccept /\ OnlyPushes /\ LeadersPullNothing /\ AllHave /\ Stored
      /\ LeadersHave
  BY <1>2 DEF DataInv, ValueInv, SurvivalInv
<1>5. crashes' <= 1 => crashes <= 1
  <2>1. crashes \in Nat
    BY ClusterHolds DEF Typed, Placed
  <2> QED BY <2>1, CrashSource
<1>6. LeadersAccept'
  BY <1>2, <1>3, <1>4, NextLeadersAccept
<1>7. OnlyPushes'
  <2>1. CASE Unsucceeded'
    BY <1>2, <1>3, <1>4, <2>1, NextOnlyPushes
  <2>2. CASE ~Unsucceeded'
    BY <2>2 DEF OnlyPushes
  <2> QED BY <2>1, <2>2
<1>8. CASE crashes' <= 1
  BY <1>2, <1>3, <1>4, <1>5, <1>6, <1>7, <1>8, NextLeadersPullNothing, NextAllHave, NextStored,
     NextLeadersHave
<1>9. CASE ~(crashes' <= 1)
  BY <1>6, <1>7, <1>9 DEF LeadersPullNothing, AllHave, Stored, LeadersHave
<1> QED BY <1>8, <1>9

\* With an accurate detector, a PUT answered OK survives the leader: as long as one node at
\* most has crashed and none has booted again, whoever accepts writes has the last value
\* that was acknowledged, of every key that was not put twice at a time and of which no push
\* to it was lost or cut off (kivileaf_rest_controller.cpp, handle_put; kivileaf.cpp,
\* try_self_promote).
THEOREM AckedWritesSurvive ==
    ASSUME MaxMistakes = 0
    PROVE  Spec => []AckedSurvives
<1>1. Typed /\ SurvivalInv => AckedSurvives
  <2> SUFFICES ASSUME Typed, SurvivalInv, restarts = 0, crashes <= 1, NEW n \in Node,
                      NEW k \in Key, Failover!Accepts(n), k \notin contended \cup lost[n]
               PROVE  kv[n][k] >= acked[k]
    BY DEF AckedSurvives
  <2>1. acked[k] <= kv[n][k]
    BY DEF SurvivalInv, LeadersHave, Excused
  <2>2. acked \in Store /\ kv[n] \in Store
    BY DEF Typed, TypeOK
  <2>3. acked[k] \in Nat /\ kv[n][k] \in Nat
    BY <2>2, ValueTyped DEF Store
  <2> QED BY <2>1, <2>3
<1>2. Typed /\ Asked /\ BootsPull /\ Elected /\ WritesStayWithLeader /\ DataInv /\ SurvivalInv
        /\ [Next]_vars => SurvivalInv'
  BY NextSurvival
<1> QED BY <1>1, <1>2, InitSurvival, BootsInvariant, DataInvariant, PTL DEF Spec

=============================================================================
