--------------------------- MODULE LocalClusterProofs ---------------------------
(***************************************************************************)
(* Proofs about LocalCluster for every cluster and every bound: types, who *)
(* may be followed, and, until a detector makes a mistake, that at most    *)
(* one node accepts writes and that its notice is on its way to everyone   *)
(* who does not follow it yet.                                             *)
(***************************************************************************)
EXTENDS LocalCluster, FiniteSetTheorems, WellFoundedInduction, TLAPS

-----------------------------------------------------------------------------
(* The cluster and its queues                                              *)

LEMMA NodesAreNumbers == Node \subseteq Nat /\ IsFiniteSet(Node)
<1>1. Cluster \in Seq(Nat)
  BY ClusterAssumption
<1>2. DOMAIN Cluster = 1..Len(Cluster) /\ Len(Cluster) \in Nat
  BY <1>1
<1>3. IsFiniteSet(DOMAIN Cluster)
  BY <1>2, FS_Interval
<1>4. Cluster \in Surjection(DOMAIN Cluster, Node)
  BY <1>1 DEF Node, Surjection
<1>5. IsFiniteSet(Node)
  BY <1>3, <1>4, FS_Surjection
<1>6. \A i \in DOMAIN Cluster : Cluster[i] \in Nat
  BY <1>1
<1> QED BY <1>5, <1>6 DEF Node

\* A scan never examines a node it does not suspect.
LEMMA FirstIsMember ==
    ASSUME NEW nodes \in SUBSET Node, nodes # {}
    PROVE  First(nodes) \in nodes
<1> DEFINE At(i) == i \in DOMAIN Cluster /\ Cluster[i] \in nodes
           places == {i \in Nat : At(i)}
<1>1. DOMAIN Cluster = 1..Len(Cluster) /\ Len(Cluster) \in Nat
  BY ClusterAssumption
<1>2. places \in SUBSET Nat /\ places # {}
  BY <1>1 DEF Node
<1>3. PICK i \in places : \A j \in places : ~(<<j, i>> \in OpToRel(<, Nat))
  BY <1>2, NatLessThanWellFounded, WFMin
<1>4. \A j \in places : ~(j < i)
  BY <1>2, <1>3 DEF OpToRel
<1>5. \A j \in 1..(i - 1) : Cluster[j] \notin nodes
  <2> SUFFICES ASSUME NEW j \in 1..(i - 1), Cluster[j] \in nodes PROVE FALSE
    OBVIOUS
  <2>1. j \in places /\ j < i
    BY <1>1, <1>2
  <2> QED BY <2>1, <1>4
<1>6. \E x \in DOMAIN Cluster :
          /\ Cluster[x] \in nodes
          /\ \A j \in 1..(x - 1) : Cluster[j] \notin nodes
  BY <1>5
<1> QED BY <1>6 DEF First

\* Delivered or lost, a message disturbs no other.
LEMMA SendEffect ==
    ASSUME NEW queues \in [Node -> Seq(Message)], missed \subseteq Node,
           NEW to \in Node, NEW msg \in Message, NEW follower \in Node,
           Send(queues, to, msg, follower)
    PROVE  /\ inbox' \in [Node -> Seq(Message)]
           /\ \A n \in Node :
                 Range(inbox'[n]) \subseteq Range(queues[n]) \cup (IF n = to THEN {msg} ELSE {})
           /\ missed' \subseteq Node
           /\ missed \subseteq missed'
<1>1. CASE inbox' = queues
  BY <1>1 DEF Send
<1>2. CASE inbox' = [queues EXCEPT ![to] = Append(@, msg)]
  <2>1. Range(Append(queues[to], msg)) \subseteq Range(queues[to]) \cup {msg}
    BY DEF Range
  <2>2. \A n \in Node : inbox'[n] = IF n = to THEN Append(queues[to], msg) ELSE queues[n]
    BY <1>2
  <2>3. inbox' \in [Node -> Seq(Message)]
    BY <1>2
  <2> QED BY <2>1, <2>2, <2>3 DEF Send
<1> QED BY <1>1, <1>2 DEF Send

LEMMA HandledEffect ==
    ASSUME inbox \in [Node -> Seq(Message)],
           NEW n \in Node, inbox[n] # << >>
    PROVE  /\ Head(inbox[n]) \in Range(inbox[n])
           /\ Head(inbox[n]) \in Message
           /\ Handled(n) \in [Node -> Seq(Message)]
           /\ \A m \in Node : Range(Handled(n)[m]) \subseteq Range(inbox[m])
<1>1. inbox[n] \in Seq(Message) /\ Len(inbox[n]) \in Nat \ {0}
  OBVIOUS
<1>2. Head(inbox[n]) \in Message
  BY <1>1
<1>3. Head(inbox[n]) \in Range(inbox[n])
  BY <1>1 DEF Range
<1>4. Tail(inbox[n]) \in Seq(Message)
  BY <1>1
<1>5. Handled(n) \in [Node -> Seq(Message)]
  BY <1>4 DEF Handled
<1>6. Range(Tail(inbox[n])) \subseteq Range(inbox[n])
  BY <1>1 DEF Range
<1>7. \A m \in Node : Range(Handled(n)[m]) \subseteq Range(inbox[m])
  BY <1>6 DEF Handled
<1> QED BY <1>2, <1>3, <1>5, <1>7

-----------------------------------------------------------------------------
(* What each handler does to the queues                                    *)

LEMMA AnnounceQueues ==
    ASSUME TypeOK, NEW n \in Node, NEW m \in Node, Announce(n, m)
    PROVE  /\ inbox' \in [Node -> Seq(Message)]
           /\ \A a \in Node :
                 Range(inbox'[a]) \subseteq Range(inbox[a]) \cup
                    (IF a = m THEN {[type |-> "SELF_PROMOTION", from |-> n]} ELSE {})
           /\ missed' \subseteq Node /\ missed \subseteq missed'
<1>1. [type |-> "SELF_PROMOTION", from |-> n] \in Message
  BY DEF Message
<1>2. CASE is_alive[n][m]
  <2>1. Send(inbox, m, [type |-> "SELF_PROMOTION", from |-> n], m)
    BY <1>2 DEF Announce
  <2> QED BY <1>1, <2>1, SendEffect DEF TypeOK
<1>3. CASE ~is_alive[n][m]
  BY <1>3 DEF Announce, TypeOK
<1> QED BY <1>2, <1>3

LEMMA SelfPromotionQueues ==
    ASSUME TypeOK, NEW n \in Node, ReceiveSelfPromotion(n)
    PROVE  LET leader == Head(inbox[n]).from
           IN  /\ leader \in Node
               /\ Head(inbox[n]) \in Range(inbox[n])
               /\ Notice(leader, n)
               /\ inbox' \in [Node -> Seq(Message)]
               /\ \A a \in Node :
                     Range(inbox'[a]) \subseteq Range(inbox[a]) \cup
                        (IF a = leader THEN {[type |-> "SYNC_REQUEST", from |-> n]} ELSE {})
               /\ missed' \subseteq Node /\ missed \subseteq missed'
<1> DEFINE msg == Head(inbox[n])
           reply == [type |-> "SYNC_REQUEST", from |-> n]
<1>1. /\ inbox[n] # << >>
      /\ msg.type = "SELF_PROMOTION"
      /\ Send(Handled(n), msg.from, reply, n)
  BY DEF ReceiveSelfPromotion, Handles
<1>2. /\ msg \in Range(inbox[n])
      /\ msg \in Message
      /\ Handled(n) \in [Node -> Seq(Message)]
      /\ \A m \in Node : Range(Handled(n)[m]) \subseteq Range(inbox[m])
  BY <1>1, HandledEffect DEF TypeOK
<1>3. msg = [type |-> "SELF_PROMOTION", from |-> msg.from] /\ msg.from \in Node
  BY <1>1, <1>2 DEF Message
<1>4. reply \in Message
  BY DEF Message
<1>5. Notice(msg.from, n)
  BY <1>2, <1>3 DEF Notice, Sent
<1>6. /\ inbox' \in [Node -> Seq(Message)]
      /\ \A a \in Node : Range(inbox'[a])
            \subseteq Range(Handled(n)[a]) \cup (IF a = msg.from THEN {reply} ELSE {})
      /\ missed' \subseteq Node /\ missed \subseteq missed'
  BY <1>1, <1>2, <1>3, <1>4, SendEffect DEF TypeOK
<1> QED BY <1>2, <1>3, <1>5, <1>6

LEMMA SyncRequestQueues ==
    ASSUME TypeOK, NEW n \in Node, ReceiveSyncRequest(n)
    PROVE  LET msg == Head(inbox[n])
           IN  /\ msg \in Range(inbox[n])
               /\ msg.type = "SYNC_REQUEST"
               /\ msg.from \in Node
               /\ inbox' \in [Node -> Seq(Message)]
               /\ \A a \in Node :
                     Range(inbox'[a]) \subseteq Range(inbox[a]) \cup
                        (IF a = msg.from THEN {[type |-> "SYNC_RESPONSE", from |-> n]} ELSE {})
               /\ missed' \subseteq Node /\ missed \subseteq missed'
<1> DEFINE msg == Head(inbox[n])
           reply == [type |-> "SYNC_RESPONSE", from |-> n]
<1>1. /\ inbox[n] # << >>
      /\ msg.type = "SYNC_REQUEST"
      /\ Send(Handled(n), msg.from, reply, msg.from)
  BY DEF ReceiveSyncRequest, Handles
<1>2. /\ msg \in Range(inbox[n])
      /\ msg \in Message
      /\ Handled(n) \in [Node -> Seq(Message)]
      /\ \A m \in Node : Range(Handled(n)[m]) \subseteq Range(inbox[m])
  BY <1>1, HandledEffect DEF TypeOK
<1>3. msg.from \in Node /\ reply \in Message
  BY <1>2 DEF Message
<1>4. /\ inbox' \in [Node -> Seq(Message)]
      /\ \A a \in Node : Range(inbox'[a])
            \subseteq Range(Handled(n)[a]) \cup (IF a = msg.from THEN {reply} ELSE {})
      /\ missed' \subseteq Node /\ missed \subseteq missed'
  BY <1>1, <1>2, <1>3, SendEffect DEF TypeOK
<1> QED BY <1>1, <1>2, <1>3, <1>4

LEMMA SyncResponseQueues ==
    ASSUME TypeOK, NEW n \in Node, ReceiveSyncResponse(n) \/ DropSyncResponse(n)
    PROVE  LET msg == Head(inbox[n])
           IN  /\ msg \in Range(inbox[n])
               /\ msg.type = "SYNC_RESPONSE"
               /\ msg.from \in Node
               /\ inbox' \in [Node -> Seq(Message)]
               /\ \A a \in Node : Range(inbox'[a]) \subseteq Range(inbox[a])
               /\ missed' \subseteq Node /\ missed \subseteq missed'
<1>1. inbox[n] # << >>
  BY DEF ReceiveSyncResponse, DropSyncResponse, Handles
<1>2. Head(inbox[n]) \in Message
  BY <1>1, HandledEffect DEF TypeOK
<1>3. /\ Head(inbox[n]).type = "SYNC_RESPONSE" /\ inbox' = Handled(n)
      /\ missed' = missed \/ missed' = missed \cup {n}
  BY DEF ReceiveSyncResponse, DropSyncResponse, Handles
<1>4. /\ Head(inbox[n]).from \in Node /\ missed \subseteq Node
      /\ inbox \in [Node -> Seq(Message)]
  BY <1>2 DEF TypeOK, Message
<1> QED BY <1>1, <1>3, <1>4, HandledEffect

LEMMA CrashQueues ==
    ASSUME TypeOK, NEW n \in Node, Crash(n)
    PROVE  /\ inbox' \in [Node -> Seq(Message)]
           /\ \A a \in Node : Range(inbox'[a]) \subseteq Range(inbox[a])
<1>1. << >> \in Seq(Message) /\ Range(<< >>) = {}
  BY DEF Range
<1> QED BY <1>1 DEF Crash, TypeOK

-----------------------------------------------------------------------------
(* Type correctness                                                        *)

LEMMA InitTyped == Init => TypeOK
<1>1. << >> \in Seq(Message)
  OBVIOUS
<1> QED BY <1>1, ClusterAssumption DEF Init, TypeOK, KiviLeafRole, PC

LEMMA WakeUpCounts ==
    ASSUME TypeOK, NEW n \in Node, NEW peers \in SUBSET Node, WakeUp(n, peers)
    PROVE  /\ mistakes' \in 0..MaxMistakes
           /\ mistakes' = 0 => mistakes = 0 /\ peers \subseteq Gone(n)
<1>1. IsFiniteSet(peers)
  BY NodesAreNumbers, FS_Subset
<1>2. IsFiniteSet(peers \ Gone(n)) /\ Cardinality(peers \ Gone(n)) \in Nat
  BY <1>1, FS_Difference, FS_CardinalityType
<1>3. /\ mistakes' = mistakes + Cardinality(peers \ Gone(n))
      /\ mistakes' <= MaxMistakes
      /\ mistakes \in Nat /\ MaxMistakes \in Nat
  BY ClusterAssumption DEF WakeUp, TypeOK
<1>4. mistakes' \in 0..MaxMistakes
  BY <1>2, <1>3
<1>5. mistakes' = 0 => mistakes = 0 /\ Cardinality(peers \ Gone(n)) = 0
  BY <1>2, <1>3
<1>6. mistakes' = 0 => mistakes = 0 /\ peers \ Gone(n) = {}
  BY <1>1, <1>5, FS_Difference, FS_EmptySet
<1> QED BY <1>4, <1>6

LEMMA NextTyped == TypeOK /\ [Next]_vars => TypeOK'
<1> SUFFICES ASSUME TypeOK, [Next]_vars PROVE TypeOK'
  OBVIOUS
<1> USE ClusterAssumption DEF TypeOK
<1>1. ASSUME NEW n \in Node,
             NEW peers \in SUBSET {m \in Node \ {n} : is_alive[n][m]},
             WakeUp(n, peers)
      PROVE TypeOK'
  <2>1. peers \in SUBSET Node
    OBVIOUS
  <2>2. mistakes' \in 0..MaxMistakes
    BY <1>1, <2>1, WakeUpCounts
  <2> QED BY <1>1, <2>1, <2>2 DEF WakeUp
<1>2. ASSUME NEW n \in Node, Examine(n) PROVE TypeOK'
  BY <1>2 DEF Examine, PC
<1>3. ASSUME NEW n \in Node, CheckLeader(n) PROVE TypeOK'
  BY <1>3 DEF CheckLeader, GoOn, PC
<1>4. ASSUME NEW n \in Node, Elect(n) PROVE TypeOK'
  BY <1>4 DEF Elect, GoOn, PC
<1>5. ASSUME NEW n \in Node, Promote(n) PROVE TypeOK'
  BY <1>5 DEF Promote, PC, KiviLeafRole
<1>6. ASSUME NEW n \in Node, NEW m \in Node, Announce(n, m) PROVE TypeOK'
  BY <1>6, AnnounceQueues DEF Announce
<1>7. ASSUME NEW n \in Node, Announced(n) PROVE TypeOK'
  BY <1>7 DEF Announced, PC
<1>8. ASSUME NEW n \in Node, ReceiveSelfPromotion(n) PROVE TypeOK'
  BY <1>8, SelfPromotionQueues DEF ReceiveSelfPromotion, detector
<1>9. ASSUME NEW n \in Node, ReceiveSyncRequest(n) PROVE TypeOK'
  BY <1>9, SyncRequestQueues DEF ReceiveSyncRequest, detector
<1>10. ASSUME NEW n \in Node, ReceiveSyncResponse(n) PROVE TypeOK'
  BY <1>10, SyncResponseQueues DEF ReceiveSyncResponse, detector
<1>11. ASSUME NEW n \in Node, DropSyncResponse(n) PROVE TypeOK'
  BY <1>11, SyncResponseQueues DEF DropSyncResponse, detector
<1>12. ASSUME NEW n \in Node, NEW m \in Node, ReceiveHeartBeat(n, m) PROVE TypeOK'
  BY <1>12 DEF ReceiveHeartBeat
<1>13. ASSUME NEW n \in Node, Crash(n) PROVE TypeOK'
  BY <1>13, CrashQueues DEF Crash, detector
<1>14. CASE UNCHANGED vars
  BY <1>14 DEF vars
<1> QED BY <1>1, <1>2, <1>3, <1>4, <1>5, <1>6, <1>7, <1>8, <1>9, <1>10, <1>11,
           <1>12, <1>13, <1>14 DEF Next, Detect, Proceed, Receive

\* Every state the two threads of the nodes can reach is well typed.
THEOREM ClusterTyped == Spec => []TypeOK
<1>1. Init => TypeOK
  BY InitTyped
<1>2. TypeOK /\ [Next]_vars => TypeOK'
  BY NextTyped
<1> QED BY <1>1, <1>2, PTL DEF Spec

-----------------------------------------------------------------------------
(* Who is followed, whatever the detectors suspect                         *)

LEMMA InitTalks == Init => TalksToLeaders
<1>1. \A n \in Node : Range(<< >>) = {}
  BY DEF Range
<1> QED BY <1>1, ClusterAssumption DEF Init, TalksToLeaders, FollowsOnlyLeaders

LEMMA NextTalks == TypeOK /\ TalksToLeaders /\ [Next]_vars => TalksToLeaders'
<1> SUFFICES ASSUME TypeOK, TalksToLeaders, [Next]_vars PROVE TalksToLeaders'
  OBVIOUS
<1> USE DEF TypeOK, TalksToLeaders, FollowsOnlyLeaders
<1>1. ASSUME NEW n \in Node, NEW peers, WakeUp(n, peers) PROVE TalksToLeaders'
  BY <1>1 DEF WakeUp
<1>2. ASSUME NEW n \in Node, Examine(n) PROVE TalksToLeaders'
  BY <1>2 DEF Examine
<1>3. ASSUME NEW n \in Node, CheckLeader(n) PROVE TalksToLeaders'
  BY <1>3 DEF CheckLeader, GoOn
<1>4. ASSUME NEW n \in Node, Elect(n) PROVE TalksToLeaders'
  BY <1>4 DEF Elect, GoOn
<1>5. ASSUME NEW n \in Node, Promote(n) PROVE TalksToLeaders'
  <2>1. \A a \in Node : leaf_role[a] = "LOCAL_LEADER" => leaf_role'[a] = "LOCAL_LEADER"
    BY <1>5 DEF Promote
  <2>2. FollowsOnlyLeaders'
    BY <1>5, <2>1 DEF Promote
  <2>3. \A a \in Node : pc'[a] = "announce" => leaf_role'[a] = "LOCAL_LEADER"
    BY <1>5, <2>1 DEF Promote
  <2>4. \A a \in Node : \A msg \in Range(inbox'[a]) :
          leaf_role'[IF msg.type = "SYNC_REQUEST" THEN a ELSE msg.from] = "LOCAL_LEADER"
    BY <1>5 DEF Promote
  <2> QED BY <2>2, <2>3, <2>4
<1>6. ASSUME NEW n \in Node, NEW m \in Node, Announce(n, m) PROVE TalksToLeaders'
  <2>1. leaf_role[n] = "LOCAL_LEADER"
    BY <1>6 DEF Announce
  <2>2. UNCHANGED <<current_leader_id, source, leaf_role, pc>>
    BY <1>6 DEF Announce
  <2>3. \A a \in Node : Range(inbox'[a]) \subseteq
            Range(inbox[a]) \cup {[type |-> "SELF_PROMOTION", from |-> n]}
    BY <1>6, AnnounceQueues
  <2> QED BY <2>1, <2>2, <2>3
<1>7. ASSUME NEW n \in Node, Announced(n) PROVE TalksToLeaders'
  BY <1>7 DEF Announced
<1>8. ASSUME NEW n \in Node, ReceiveSelfPromotion(n) PROVE TalksToLeaders'
  <2> DEFINE msg == Head(inbox[n])
  <2>1. leaf_role[msg.from] = "LOCAL_LEADER"
    BY <1>8, SelfPromotionQueues DEF ReceiveSelfPromotion, Handles
  <2>2. /\ current_leader_id' = [current_leader_id EXCEPT ![n] = msg.from]
        /\ UNCHANGED <<source, leaf_role, pc>>
    BY <1>8 DEF ReceiveSelfPromotion, detector
  <2> HIDE DEF msg
  <2>3. FollowsOnlyLeaders'
    BY <2>1, <2>2
  <2>4. \A a \in Node : Range(inbox'[a]) \subseteq Range(inbox[a]) \cup
            (IF a = msg.from THEN {[type |-> "SYNC_REQUEST", from |-> n]} ELSE {})
    BY <1>8, SelfPromotionQueues DEF msg
  <2> QED BY <2>1, <2>2, <2>3, <2>4
<1>9. ASSUME NEW n \in Node, ReceiveSyncRequest(n) PROVE TalksToLeaders'
  <2>1. leaf_role[n] = "LOCAL_LEADER"
    BY <1>9, SyncRequestQueues
  <2>2. UNCHANGED <<current_leader_id, source, leaf_role, pc>>
    BY <1>9 DEF ReceiveSyncRequest, detector
  <2>3. \A a \in Node : Range(inbox'[a]) \subseteq
            Range(inbox[a]) \cup {[type |-> "SYNC_RESPONSE", from |-> n]}
    BY <1>9, SyncRequestQueues
  <2> QED BY <2>1, <2>2, <2>3
<1>10. ASSUME NEW n \in Node, ReceiveSyncResponse(n) PROVE TalksToLeaders'
  <2>1. leaf_role[Head(inbox[n]).from] = "LOCAL_LEADER"
    BY <1>10, SyncResponseQueues
  <2>2. /\ source' = [source EXCEPT ![n] = Head(inbox[n]).from]
        /\ UNCHANGED <<current_leader_id, leaf_role, pc>>
    BY <1>10 DEF ReceiveSyncResponse, detector
  <2>3. \A a \in Node : Range(inbox'[a]) \subseteq Range(inbox[a])
    BY <1>10, SyncResponseQueues
  <2> QED BY <2>1, <2>2, <2>3
<1>11. ASSUME NEW n \in Node, DropSyncResponse(n) PROVE TalksToLeaders'
  <2>1. UNCHANGED <<current_leader_id, source, leaf_role, pc>>
    BY <1>11 DEF DropSyncResponse, detector
  <2>2. \A a \in Node : Range(inbox'[a]) \subseteq Range(inbox[a])
    BY <1>11, SyncResponseQueues
  <2> QED BY <2>1, <2>2
<1>12. ASSUME NEW n \in Node, NEW m \in Node, ReceiveHeartBeat(n, m)
       PROVE TalksToLeaders'
  BY <1>12 DEF ReceiveHeartBeat
<1>13. ASSUME NEW n \in Node, Crash(n) PROVE TalksToLeaders'
  BY <1>13, CrashQueues DEF Crash, detector
<1>14. CASE UNCHANGED vars
  BY <1>14 DEF vars
<1> QED BY <1>1, <1>2, <1>3, <1>4, <1>5, <1>6, <1>7, <1>8, <1>9, <1>10, <1>11,
           <1>12, <1>13, <1>14 DEF Next, Detect, Proceed, Receive

\* Any number of false suspicions, crashes and interleavings: the node one
\* follows, and the node whose data one has merged, took the leadership once.
THEOREM FollowLeaders == Spec => []FollowsOnlyLeaders
<1>1. Init => TalksToLeaders
  BY InitTalks
<1>2. TypeOK /\ TalksToLeaders /\ [Next]_vars => TalksToLeaders'
  BY NextTalks
<1>3. TalksToLeaders => FollowsOnlyLeaders
  BY DEF TalksToLeaders
<1> QED BY <1>1, <1>2, <1>3, ClusterTyped, PTL DEF Spec

-----------------------------------------------------------------------------
(* A single leader, as long as the detectors made no mistake               *)

\* What the invariant says of the nodes that are up.
LEMMA RunningIsAlive ==
    ASSUME LeadershipInv, NEW n \in Node, NEW m \in Node, up[m], TypeOK
    PROVE  is_alive[n][m] /\ m \notin suspects[n]
BY DEF LeadershipInv, DetectorExact

LEMMA FollowedLeads ==
    ASSUME LeadershipInv, TypeOK,
           NEW n \in Node, up[current_leader_id[n]]
    PROVE  current_leader_id[current_leader_id[n]] = current_leader_id[n]
<1> DEFINE k == current_leader_id[n]
<1>1. k \in Node
  BY DEF TypeOK
<1>2. CASE k = InitLeader
  BY <1>1, <1>2 DEF LeadershipInv, AfterFirstLeader
<1>3. CASE k # InitLeader
  BY <1>1, <1>3 DEF LeadershipInv, FollowedIsLowest
<1> QED BY <1>2, <1>3

\* A node that leads never has another's notice waiting.
LEMMA NoNoticeToLeader ==
    ASSUME LeadershipInv, TypeOK,
           NEW n \in Node, NEW k \in Node, Notice(k, n), up[n]
    PROVE  current_leader_id[n] # n
<1> SUFFICES ASSUME current_leader_id[n] = n PROVE FALSE
  OBVIOUS
<1>1. ~up[InitLeader] /\ n # InitLeader
  BY DEF LeadershipInv, AfterFirstLeader
<1>2. LowestUp(k) /\ k # n
  BY DEF LeadershipInv, FollowedIsLowest, Candidate
<1>3. k <= n
  BY <1>2 DEF LowestUp
<1>4. IsLowest(n)
  BY <1>1 DEF LeadershipInv, Candidate
<1>5. is_alive[n][k]
  <2>1. ~Drained(k, n)
    BY DEF Notice, Sent, Drained
  <2> QED BY <2>1 DEF LeadershipInv, DetectorExact
<1>6. n <= k
  BY <1>4, <1>5 DEF IsLowest
<1> QED BY <1>2, <1>3, <1>6, NodesAreNumbers

LEMMA InitLeadership == Init => LeadershipInv
<1> SUFFICES ASSUME Init PROVE LeadershipInv
  OBVIOUS
<1>1. \A n \in Node : Range(inbox[n]) = {}
  BY DEF Init, Range
<1>2. DetectorExact
  BY DEF Init, DetectorExact
<1>3. AfterFirstLeader /\ FollowedIsLowest
  BY <1>1 DEF Init, AfterFirstLeader, FollowedIsLowest, Notice, Sent
<1>4. \A n \in Node : Candidate(n)
  BY <1>1 DEF Init, Candidate, Notice, Sent
<1> QED BY <1>2, <1>3, <1>4 DEF LeadershipInv

LEMMA WakeUpLeadership ==
    ASSUME TypeOK, LeadershipInv, mistakes' = 0,
           NEW n \in Node, NEW peers \in SUBSET Node, WakeUp(n, peers)
    PROVE  LeadershipInv'
<1> USE DEF TypeOK, LeadershipInv
<1>1. UNCHANGED <<up, leaf_role, current_leader_id, is_alive, announcing, inbox, pc>>
  BY DEF WakeUp
<1>2. peers \subseteq Gone(n)
  BY WakeUpCounts
<1>3. suspects' = [suspects EXCEPT ![n] = peers]
  BY DEF WakeUp
<1>4. DetectorExact'
  BY <1>1, <1>2, <1>3 DEF DetectorExact, Gone, Drained
<1>5. AfterFirstLeader' /\ FollowedIsLowest'
  BY <1>1 DEF AfterFirstLeader, FollowedIsLowest, Notice, Sent, LowestUp
<1>6. \A a \in Node : Candidate(a)'
  BY <1>1 DEF Candidate, Notice, Sent, IsLowest
<1> QED BY <1>4, <1>5, <1>6

LEMMA ExamineLeadership ==
    ASSUME TypeOK, LeadershipInv, NEW n \in Node, Examine(n)
    PROVE  LeadershipInv'
<1> USE DEF TypeOK, LeadershipInv
<1> DEFINE m == First(suspects[n])
<1>1. UNCHANGED <<up, leaf_role, current_leader_id, announcing, inbox>>
  BY DEF Examine
<1>2. m \in suspects[n] /\ m \in Node
  BY FirstIsMember DEF Examine
<1>3. /\ is_alive' = [is_alive EXCEPT ![n][m] = FALSE]
      /\ suspects' = [suspects EXCEPT ![n] = @ \ {m}]
      /\ pc' = [pc EXCEPT ![n] = IF m = InitLeader THEN "check" ELSE "scan"]
  BY DEF Examine
<1>4. ~up[m] /\ Drained(m, n)
  BY <1>2 DEF DetectorExact
<1> HIDE DEF m
<1>5. DetectorExact'
  BY <1>1, <1>2, <1>3, <1>4 DEF DetectorExact, Drained
<1>6. AfterFirstLeader'
  BY <1>1, <1>2, <1>3, <1>4 DEF AfterFirstLeader, Notice, Sent
<1>7. FollowedIsLowest'
  BY <1>1 DEF FollowedIsLowest, Notice, Sent, LowestUp
<1>8. ASSUME NEW a \in Node PROVE Candidate(a)'
  <2>1. Candidate(a)
    OBVIOUS
  <2>2. IsLowest(a) => IsLowest(a)'
    BY <1>2, <1>3 DEF IsLowest
  <2>3. pc'[a] \in {"elect", "promote", "announce"} => pc'[a] = pc[a]
    BY <1>3
  <2> QED BY <1>1, <2>1, <2>2, <2>3 DEF Candidate, Notice, Sent
<1> QED BY <1>5, <1>6, <1>7, <1>8

LEMMA CheckLeaderLeadership ==
    ASSUME TypeOK, LeadershipInv, NEW n \in Node, CheckLeader(n)
    PROVE  LeadershipInv'
<1> USE DEF TypeOK, LeadershipInv
<1>1. UNCHANGED <<up, leaf_role, current_leader_id, is_alive, suspects, announcing, inbox>>
  BY DEF CheckLeader
<1>2. DetectorExact' /\ FollowedIsLowest'
  BY <1>1 DEF DetectorExact, Drained, FollowedIsLowest, Notice, Sent, LowestUp
<1>3. AfterFirstLeader'
  BY <1>1 DEF CheckLeader, GoOn, AfterFirstLeader, Notice, Sent
<1>4. \A a \in Node : Candidate(a)'
  BY <1>1 DEF CheckLeader, GoOn, Candidate, Notice, Sent, IsLowest
<1> QED BY <1>2, <1>3, <1>4

\* The lowest node among those marked alive takes over only from a leader that
\* is down, although it looked at is_alive and at its leader at different times.
LEMMA ElectLeadership ==
    ASSUME TypeOK, LeadershipInv, NEW n \in Node, Elect(n)
    PROVE  LeadershipInv'
<1> USE DEF TypeOK, LeadershipInv
<1>1. UNCHANGED <<up, leaf_role, current_leader_id, is_alive, suspects, announcing, inbox>>
  BY DEF Elect
<1>2. DetectorExact' /\ FollowedIsLowest'
  BY <1>1 DEF DetectorExact, Drained, FollowedIsLowest, Notice, Sent, LowestUp
<1>3. AfterFirstLeader'
  BY <1>1 DEF Elect, GoOn, AfterFirstLeader, Notice, Sent
<1>4. ASSUME IsLowest(n) PROVE ~up[current_leader_id[n]]
  <2> DEFINE k == current_leader_id[n]
  <2> SUFFICES ASSUME up[k] PROVE FALSE
    OBVIOUS
  <2>1. k \in Node /\ leaf_role[n] = "PROMOTION_READY_REPLICA" /\ up[n]
    BY DEF Elect, Candidate
  <2>2. k # InitLeader
    BY <2>1 DEF Elect, AfterFirstLeader
  <2>3. LowestUp(k)
    BY <2>1, <2>2 DEF FollowedIsLowest
  <2>4. is_alive[n][k]
    BY <2>1, RunningIsAlive
  <2>5. n <= k /\ k <= n
    BY <1>4, <2>1, <2>3, <2>4 DEF IsLowest, LowestUp
  <2>6. k \in Nat /\ n \in Nat
    BY <2>1, NodesAreNumbers
  <2>7. k = n
    <3> HIDE DEF k
    <3> QED BY <2>5, <2>6
  <2> QED BY <2>1, <2>7 DEF Candidate
<1>5. \A a \in Node : Candidate(a)'
  BY <1>1, <1>4 DEF Elect, GoOn, Candidate, Notice, Sent, IsLowest
<1> QED BY <1>2, <1>3, <1>5

LEMMA PromoteLeadership ==
    ASSUME TypeOK, LeadershipInv, NEW n \in Node, Promote(n)
    PROVE  LeadershipInv'
<1> USE DEF TypeOK, LeadershipInv
<1>1. /\ UNCHANGED <<up, is_alive, suspects, inbox>>
      /\ current_leader_id' = [current_leader_id EXCEPT ![n] = n]
      /\ leaf_role' = [leaf_role EXCEPT ![n] = "LOCAL_LEADER"]
      /\ announcing' = [announcing EXCEPT ![n] = Node \ {n}]
      /\ pc' = [pc EXCEPT ![n] = "announce"]
      /\ up[n] /\ pc[n] = "promote"
  BY DEF Promote
<1>2. IsLowest(n)
  BY <1>1 DEF Candidate
<1>3. LowestUp(n)
  BY <1>2, RunningIsAlive DEF IsLowest, LowestUp
<1>4. DetectorExact'
  BY <1>1 DEF DetectorExact, Drained
<1>5. AfterFirstLeader'
  BY <1>1 DEF AfterFirstLeader, Notice, Sent
<1>6. FollowedIsLowest'
  BY <1>1, <1>3 DEF FollowedIsLowest, Notice, Sent, LowestUp
<1>7. ASSUME NEW a \in Node PROVE Candidate(a)'
  <2>1. Candidate(a)
    OBVIOUS
  <2>2. IsLowest(a)' <=> IsLowest(a)
    BY <1>1 DEF IsLowest
  <2>3. Notice(a, a)' <=> Notice(a, a)
    BY <1>1 DEF Notice, Sent
  <2>4. CASE a = n
    BY <1>1, <1>2, <2>1, <2>2, <2>3, <2>4 DEF Candidate
  <2>5. CASE a # n
    BY <1>1, <2>1, <2>2, <2>3, <2>5 DEF Candidate
  <2> QED BY <2>4, <2>5
<1> QED BY <1>4, <1>5, <1>6, <1>7

\* A running leader only tells others that it leads.
LEMMA AnnounceLeadership ==
    ASSUME TypeOK, LeadershipInv, NEW n \in Node, NEW m \in Node, Announce(n, m)
    PROVE  LeadershipInv'
<1> USE DEF TypeOK, LeadershipInv
<1>1. /\ UNCHANGED <<up, leaf_role, current_leader_id, is_alive, suspects, pc>>
      /\ announcing' = [announcing EXCEPT ![n] = @ \ {m}]
      /\ up[n] /\ pc[n] = "announce" /\ m \in announcing[n]
  BY DEF Announce
<1>2. \A a \in Node : Range(inbox'[a]) \subseteq Range(inbox[a]) \cup
          (IF a = m THEN {[type |-> "SELF_PROMOTION", from |-> n]} ELSE {})
  BY AnnounceQueues
<1>3. current_leader_id[n] = n /\ m # n
  BY <1>1 DEF Candidate
<1>4. ~up[InitLeader] /\ n # InitLeader
  BY <1>1 DEF AfterFirstLeader
<1>5. LowestUp(n)
  BY <1>3, <1>4 DEF FollowedIsLowest
<1>6. \A k, a \in Node : Notice(k, a)' => Notice(k, a) \/ (k = n /\ a = m)
  BY <1>2 DEF Notice, Sent
<1>7. \A k, a \in Node : Drained(k, a) => Drained(k, a)' \/ k = n
  BY <1>2 DEF Drained
<1>8. DetectorExact'
  BY <1>1, <1>7 DEF DetectorExact
<1>9. AfterFirstLeader'
  BY <1>1, <1>4, <1>6 DEF AfterFirstLeader
<1>10. FollowedIsLowest'
  BY <1>1, <1>3, <1>5, <1>6 DEF FollowedIsLowest, LowestUp
<1>11. \A a \in Node : Candidate(a)'
  BY <1>1, <1>3, <1>6 DEF Candidate, IsLowest
<1> QED BY <1>8, <1>9, <1>10, <1>11

LEMMA AnnouncedLeadership ==
    ASSUME TypeOK, LeadershipInv, NEW n \in Node, Announced(n)
    PROVE  LeadershipInv'
<1> USE DEF TypeOK, LeadershipInv
<1>1. UNCHANGED <<up, leaf_role, current_leader_id, is_alive, suspects, announcing, inbox>>
  BY DEF Announced
<1>2. DetectorExact' /\ FollowedIsLowest'
  BY <1>1 DEF DetectorExact, Drained, FollowedIsLowest, Notice, Sent, LowestUp
<1>3. AfterFirstLeader'
  BY <1>1 DEF Announced, AfterFirstLeader, Notice, Sent
<1>4. \A a \in Node : Candidate(a)'
  BY <1>1 DEF Announced, Candidate, Notice, Sent, IsLowest
<1> QED BY <1>2, <1>3, <1>4

\* The node that a notice makes a follower neither leads nor is about to.
LEMMA SelfPromotionLeadership ==
    ASSUME TypeOK, LeadershipInv, NEW n \in Node, ReceiveSelfPromotion(n)
    PROVE  LeadershipInv'
<1> DEFINE leader == Head(inbox[n]).from
<1>1. /\ leader \in Node
      /\ Notice(leader, n)
      /\ \A a \in Node : Range(inbox'[a]) \subseteq Range(inbox[a]) \cup
            (IF a = leader THEN {[type |-> "SYNC_REQUEST", from |-> n]} ELSE {})
  BY SelfPromotionQueues
<1>2. /\ UNCHANGED <<up, leaf_role, is_alive, suspects, pc, announcing>>
      /\ current_leader_id' = [current_leader_id EXCEPT ![n] = leader]
      /\ up[n]
  BY DEF ReceiveSelfPromotion, Handles, detector
<1> HIDE DEF leader
<1> USE DEF TypeOK, LeadershipInv
<1>3. current_leader_id[n] # n
  BY <1>1, <1>2, NoNoticeToLeader
<1>4. /\ LowestUp(leader) /\ leader # n
      /\ up[leader] => current_leader_id[leader] = leader
  BY <1>1 DEF FollowedIsLowest, Candidate
<1>5. ~IsLowest(n)
  <2>1. is_alive[n][leader]
    <3>1. ~Drained(leader, n)
      BY <1>1 DEF Notice, Sent, Drained
    <3> QED BY <1>1, <3>1 DEF DetectorExact
  <2>2. leader <= n
    BY <1>2, <1>4 DEF LowestUp
  <2>3. leader \in Nat /\ n \in Nat
    BY <1>1, NodesAreNumbers
  <2>4. ~(n <= leader)
    BY <1>4, <2>2, <2>3
  <2> QED BY <1>1, <2>1, <2>4 DEF IsLowest
<1>6. \A k, a \in Node : Notice(k, a)' => Notice(k, a)
  BY <1>1 DEF Notice, Sent
<1>7. \A k, a \in Node : Drained(k, a) => Drained(k, a)' \/ k = n
  BY <1>1 DEF Drained
<1>8. DetectorExact'
  BY <1>2, <1>7 DEF DetectorExact
<1>9. AfterFirstLeader'
  BY <1>1, <1>2, <1>6 DEF AfterFirstLeader
<1>10. FollowedIsLowest'
  <2> SUFFICES ASSUME NEW a \in Node, NEW k \in Node,
                      \/ current_leader_id'[a] = k /\ k # InitLeader
                      \/ Notice(k, a)'
               PROVE  LowestUp(k) /\ (up[k] => current_leader_id'[k] = k)
    BY <1>2 DEF FollowedIsLowest, LowestUp
  <2>1. LowestUp(k) /\ (up[k] => current_leader_id[k] = k)
    BY <1>1, <1>2, <1>4, <1>6 DEF FollowedIsLowest
  <2>2. up[k] => k # n
    BY <1>3, <2>1
  <2> QED BY <1>2, <2>1, <2>2
<1>11. ASSUME NEW a \in Node PROVE Candidate(a)'
  <2>1. Candidate(a)
    OBVIOUS
  <2>2. IsLowest(a)' <=> IsLowest(a)
    BY <1>2 DEF IsLowest
  <2>3. Notice(a, a)' => Notice(a, a)
    BY <1>6
  <2>4. CASE a = n
    BY <1>2, <1>3, <1>4, <1>5, <2>1, <2>2, <2>3, <2>4 DEF Candidate
  <2>5. CASE a # n
    BY <1>2, <2>1, <2>2, <2>3, <2>5 DEF Candidate
  <2> QED BY <2>4, <2>5
<1> QED BY <1>8, <1>9, <1>10, <1>11

\* Pull requests and pulled data change nothing that leadership depends on.
LEMMA SyncLeadership ==
    ASSUME TypeOK, LeadershipInv,
           NEW n \in Node,
           ReceiveSyncRequest(n) \/ ReceiveSyncResponse(n) \/ DropSyncResponse(n)
    PROVE  LeadershipInv'
<1> USE DEF TypeOK, LeadershipInv
<1>1. /\ UNCHANGED <<up, leaf_role, current_leader_id, is_alive, suspects, pc, announcing>>
      /\ up[n]
  BY DEF ReceiveSyncRequest, ReceiveSyncResponse, DropSyncResponse, Handles, detector
<1>2. \A a \in Node : Range(inbox'[a]) \subseteq
          Range(inbox[a]) \cup {[type |-> "SYNC_RESPONSE", from |-> n]}
  BY SyncRequestQueues, SyncResponseQueues
<1>3. \A k, a \in Node : Notice(k, a)' => Notice(k, a)
  BY <1>2 DEF Notice, Sent
<1>4. \A k, a \in Node : Drained(k, a) => Drained(k, a)' \/ k = n
  BY <1>2 DEF Drained
<1>5. DetectorExact'
  BY <1>1, <1>4 DEF DetectorExact
<1>6. AfterFirstLeader' /\ FollowedIsLowest'
  BY <1>1, <1>3 DEF AfterFirstLeader, FollowedIsLowest, LowestUp
<1>7. \A a \in Node : Candidate(a)'
  BY <1>1, <1>3 DEF Candidate, IsLowest
<1> QED BY <1>5, <1>6, <1>7

\* A heartbeat tells an accurate detector nothing new.
LEMMA HeartBeatLeadership ==
    ASSUME TypeOK, LeadershipInv,
           NEW n \in Node, NEW m \in Node, ReceiveHeartBeat(n, m)
    PROVE  LeadershipInv'
<1>1. is_alive[n][m] /\ m \notin suspects[n]
  BY RunningIsAlive DEF ReceiveHeartBeat
<1>2. is_alive' = is_alive /\ suspects' = suspects
  BY <1>1 DEF ReceiveHeartBeat, TypeOK
<1>3. UNCHANGED <<up, leaf_role, current_leader_id, pc, announcing, inbox>>
  BY DEF ReceiveHeartBeat
<1> QED BY <1>2, <1>3 DEF LeadershipInv, DetectorExact, Drained, AfterFirstLeader,
           FollowedIsLowest, Candidate, Notice, Sent, LowestUp, IsLowest

LEMMA CrashLeadership ==
    ASSUME TypeOK, LeadershipInv, NEW n \in Node, Crash(n)
    PROVE  LeadershipInv'
<1> USE DEF TypeOK, LeadershipInv
<1>1. /\ UNCHANGED <<leaf_role, current_leader_id, is_alive, suspects, pc, announcing>>
      /\ up' = [up EXCEPT ![n] = FALSE]
  BY DEF Crash, detector
<1>2. \A a \in Node : up'[a] => up[a]
  BY <1>1
<1>3. \A a \in Node : Range(inbox'[a]) \subseteq Range(inbox[a])
  BY CrashQueues
<1>4. \A k, a \in Node : /\ Notice(k, a)' => Notice(k, a)
                         /\ Drained(k, a) => Drained(k, a)'
  BY <1>3 DEF Notice, Sent, Drained
<1>5. DetectorExact'
  BY <1>1, <1>2, <1>4 DEF DetectorExact
<1>6. AfterFirstLeader'
  BY <1>1, <1>2, <1>4, ClusterAssumption DEF AfterFirstLeader
<1>7. FollowedIsLowest'
  BY <1>1, <1>2, <1>4 DEF FollowedIsLowest, LowestUp
<1>8. \A a \in Node : Candidate(a)'
  BY <1>1, <1>2, <1>4 DEF Candidate, IsLowest
<1> QED BY <1>5, <1>6, <1>7, <1>8

LEMMA NextLeadership ==
    TypeOK /\ LeadershipInv /\ mistakes' = 0 /\ [Next]_vars => LeadershipInv'
<1> SUFFICES ASSUME TypeOK, LeadershipInv, mistakes' = 0, [Next]_vars
             PROVE LeadershipInv'
  OBVIOUS
<1>1. ASSUME NEW n \in Node, Detect(n) PROVE LeadershipInv'
  <2>1. ASSUME NEW peers \in SUBSET {m \in Node \ {n} : is_alive[n][m]},
               WakeUp(n, peers)
        PROVE LeadershipInv'
    <3>1. peers \in SUBSET Node
      OBVIOUS
    <3> QED BY <2>1, <3>1, WakeUpLeadership
  <2> QED BY <1>1, <2>1, ExamineLeadership, CheckLeaderLeadership, ElectLeadership,
             PromoteLeadership, AnnounceLeadership, AnnouncedLeadership DEF Detect, Proceed
<1>2. ASSUME NEW n \in Node, Receive(n) PROVE LeadershipInv'
  BY <1>2, SelfPromotionLeadership, SyncLeadership DEF Receive
<1>3. ASSUME NEW n \in Node, NEW m \in Node, ReceiveHeartBeat(n, m)
      PROVE LeadershipInv'
  BY <1>3, HeartBeatLeadership
<1>4. ASSUME NEW n \in Node, Crash(n) PROVE LeadershipInv'
  BY <1>4, CrashLeadership
<1>5. CASE UNCHANGED vars
  BY <1>5 DEF vars, LeadershipInv, DetectorExact, Drained, AfterFirstLeader,
     FollowedIsLowest, Candidate, Notice, Sent, LowestUp, IsLowest
<1> QED BY <1>1, <1>2, <1>3, <1>4, <1>5 DEF Next

\* A mistake is never undone.
LEMMA MistakesStay == TypeOK /\ [Next]_vars /\ mistakes' = 0 => mistakes = 0
<1> SUFFICES ASSUME TypeOK, [Next]_vars, mistakes' = 0 PROVE mistakes = 0
  OBVIOUS
<1>1. ASSUME NEW n \in Node, NEW peers \in SUBSET {m \in Node \ {n} : is_alive[n][m]},
             WakeUp(n, peers)
      PROVE mistakes = 0
  <2>1. peers \in SUBSET Node
    OBVIOUS
  <2> QED BY <1>1, <2>1, WakeUpCounts
<1>2. CASE UNCHANGED mistakes
  BY <1>2
<1>3. CASE UNCHANGED vars
  BY <1>3 DEF vars
<1> QED BY <1>1, <1>2, <1>3 DEF Next, Detect, Proceed, Receive, Examine,
       CheckLeader, Elect, Promote, Announce, Announced, ReceiveSelfPromotion,
       ReceiveSyncRequest, ReceiveSyncResponse, DropSyncResponse, ReceiveHeartBeat, Crash

\* The inductive invariant behind the three theorems that follow: the election
\* is sound until a detector makes its first mistake.
THEOREM LeadershipInvariant == Spec => []SoundUntilMistaken
<1>1. Init => SoundUntilMistaken
  BY InitLeadership DEF SoundUntilMistaken
<1>2. TypeOK /\ SoundUntilMistaken /\ [Next]_vars => SoundUntilMistaken'
  BY NextLeadership, MistakesStay DEF SoundUntilMistaken
<1> QED BY <1>1, <1>2, ClusterTyped, PTL DEF Spec

LEMMA LeadershipIsSingle == TypeOK /\ SoundUntilMistaken => SingleLeader
<1> SUFFICES ASSUME TypeOK, LeadershipInv,
                    NEW n \in Node, NEW m \in Node, Accepts(n), Accepts(m)
             PROVE  n = m
  BY DEF SingleLeader, SoundUntilMistaken
<1> USE DEF LeadershipInv, Accepts
<1>1. CASE n # InitLeader /\ m # InitLeader
  <2>1. LowestUp(n) /\ LowestUp(m)
    BY <1>1 DEF FollowedIsLowest
  <2>2. n <= m /\ m <= n
    BY <2>1 DEF LowestUp
  <2> QED BY <2>2, NodesAreNumbers
<1>2. CASE n = InitLeader \/ m = InitLeader
  BY <1>2 DEF AfterFirstLeader
<1> QED BY <1>1, <1>2

\* Until a detector is wrong about who is down, at most one node accepts writes
\* at a time: in a cluster of any size, with any number of crashes.
THEOREM OneLeader == Spec => []SingleLeader
<1>1. TypeOK /\ SoundUntilMistaken => SingleLeader
  BY LeadershipIsSingle
<1> QED BY <1>1, ClusterTyped, LeadershipInvariant, PTL

\* Under the same condition a redirected write is accepted where it is sent, or
\* that node is down.
THEOREM RedirectsToLeader == Spec => []RedirectTargetAccepts
<1>1. TypeOK /\ SoundUntilMistaken => RedirectTargetAccepts
  BY FollowedLeads DEF RedirectTargetAccepts, Accepts, SoundUntilMistaken
<1> QED BY <1>1, ClusterTyped, LeadershipInvariant, PTL

\* And nobody takes the leadership from a node that is up.
THEOREM TakesOverOnlyFromDead == Spec => TakesOverFromTheDead
<1> DEFINE Takes == mistakes' = 0 => \A n \in Node :
                ~Accepts(n) /\ Accepts(n)' => ~up[current_leader_id[n]]
<1>1. TypeOK /\ SoundUntilMistaken /\ [Next]_vars => [Takes]_vars
  <2> SUFFICES ASSUME TypeOK, SoundUntilMistaken, Next, mistakes' = 0,
                      NEW n \in Node, ~Accepts(n), Accepts(n)'
               PROVE  ~up[current_leader_id[n]]
    OBVIOUS
  <2>0. LeadershipInv
    BY MistakesStay DEF SoundUntilMistaken
  <2>1. PICK a \in Node : \/ Detect(a)
                          \/ Receive(a)
                          \/ \E m \in Node : ReceiveHeartBeat(a, m)
                          \/ Crash(a)
    BY DEF Next
  <2>2. up[n] /\ current_leader_id[n] # n /\ current_leader_id'[n] = n
    BY <2>1 DEF Accepts, Detect, Proceed, WakeUp, Examine, CheckLeader, Elect, Promote,
       Announce, Announced, Receive, ReceiveSelfPromotion, ReceiveSyncRequest,
       ReceiveSyncResponse, DropSyncResponse, ReceiveHeartBeat, Crash, TypeOK
  <2>3. CASE Promote(a)
    BY <2>0, <2>2, <2>3 DEF Promote, LeadershipInv, Candidate, TypeOK
  <2>4. CASE ReceiveSelfPromotion(a)
    <3>1. /\ Notice(Head(inbox[a]).from, a)
          /\ current_leader_id' =
                [current_leader_id EXCEPT ![a] = Head(inbox[a]).from]
      BY <2>4, SelfPromotionQueues DEF ReceiveSelfPromotion
    <3>2. ~Notice(a, a)
      BY <2>0 DEF LeadershipInv, Candidate
    <3> QED BY <2>2, <3>1, <3>2 DEF TypeOK
  <2>5. CASE ~Promote(a) /\ ~ReceiveSelfPromotion(a)
    BY <2>1, <2>2, <2>5 DEF Detect, Proceed, WakeUp, Examine, CheckLeader, Elect,
       Announce, Announced, Receive, ReceiveSyncRequest,
       ReceiveSyncResponse, DropSyncResponse, ReceiveHeartBeat, Crash
  <2> QED BY <2>3, <2>4, <2>5
<1> QED BY <1>1, ClusterTyped, LeadershipInvariant, PTL
        DEF Spec, TakesOverFromTheDead

-----------------------------------------------------------------------------
(* Everybody hears of the new leader                                       *)

\* In a queue, no other node's notice comes after one of n.
LastNotice(q, n) ==
    \A i, j \in DOMAIN q :
        i < j /\ q[i].type = "SELF_PROMOTION" /\ q[i].from = n
              /\ q[j].type = "SELF_PROMOTION"
            => q[j].from = n

\* What m knows of a node n that leads: once it follows n, nothing in its queue will
\* lead it away; once it has been told and lost nothing, it follows n or will.
Reached(n, m) ==
    /\ LastNotice(inbox[m], n)
    /\ current_leader_id[m] = n => \A k \in Node : Notice(k, m) => k = n
    /\ up[m] /\ m \notin announcing[n] /\ m \notin missed
          => current_leader_id[m] = n \/ Notice(n, m)

ReachInv ==
    \A n \in Node :
        Accepts(n) /\ n # InitLeader => \A m \in Node \ {n} : Reached(n, m)

LEMMA AppendNotices ==
    ASSUME NEW q \in Seq(Message), NEW msg \in Message
    PROVE  /\ Range(Append(q, msg)) = Range(q) \cup {msg}
           /\ \A n : LastNotice(q, n) /\ (msg.type = "SELF_PROMOTION" => msg.from = n)
                    => LastNotice(Append(q, msg), n)
<1> DEFINE r == Append(q, msg)
<1>1. /\ Len(q) \in Nat
      /\ DOMAIN q = 1..Len(q)
      /\ DOMAIN r = 1..(Len(q) + 1)
      /\ \A i \in 1..Len(q) : r[i] = q[i]
      /\ r[Len(q) + 1] = msg
  OBVIOUS
<1> HIDE DEF r
<1>2. \A i \in DOMAIN r : i \in DOMAIN q \/ i = Len(q) + 1
  BY <1>1
<1>3. DOMAIN q \subseteq DOMAIN r /\ Len(q) + 1 \in DOMAIN r
  BY <1>1
<1>4. Range(r) = Range(q) \cup {msg}
  <2>1. Range(r) \subseteq Range(q) \cup {msg}
    BY <1>1, <1>2 DEF Range
  <2>2. Range(q) \cup {msg} \subseteq Range(r)
    BY <1>1, <1>3 DEF Range
  <2> QED BY <2>1, <2>2
<1>5. ASSUME NEW n, LastNotice(q, n), msg.type = "SELF_PROMOTION" => msg.from = n
      PROVE  LastNotice(r, n)
  <2> SUFFICES ASSUME NEW i \in DOMAIN r, NEW j \in DOMAIN r, i < j,
                      r[i].type = "SELF_PROMOTION", r[i].from = n,
                      r[j].type = "SELF_PROMOTION"
               PROVE  r[j].from = n
    BY DEF LastNotice
  <2>1. CASE j = Len(q) + 1
    BY <1>1, <1>5, <2>1
  <2>2. CASE j # Len(q) + 1
    <3>1. i \in DOMAIN q /\ j \in DOMAIN q
      BY <1>1, <2>2
    <3> QED BY <1>1, <1>5, <3>1 DEF LastNotice
  <2> QED BY <2>1, <2>2
<1> QED BY <1>4, <1>5 DEF r

LEMMA TailNotices ==
    ASSUME NEW q \in Seq(Message), q # << >>
    PROVE  /\ Range(q) = Range(Tail(q)) \cup {Head(q)}
           /\ \A n : LastNotice(q, n) => LastNotice(Tail(q), n)
           /\ \A n : LastNotice(q, n) /\ Head(q).type = "SELF_PROMOTION" /\ Head(q).from = n
                    => \A msg \in Range(Tail(q)) :
                          msg.type = "SELF_PROMOTION" => msg.from = n
<1> DEFINE r == Tail(q)
<1>1. /\ Len(q) \in Nat \ {0}
      /\ DOMAIN q = 1..Len(q)
      /\ DOMAIN r = 1..(Len(q) - 1)
      /\ \A i \in 1..(Len(q) - 1) : r[i] = q[i + 1]
      /\ Head(q) = q[1]
  OBVIOUS
<1> HIDE DEF r
<1>2. \A i \in DOMAIN r : i + 1 \in DOMAIN q /\ r[i] = q[i + 1] /\ 1 < i + 1
  BY <1>1
<1>3. \A i \in DOMAIN q : i # 1 => i - 1 \in DOMAIN r /\ q[i] = r[i - 1]
  BY <1>1
<1>4. 1 \in DOMAIN q
  BY <1>1
<1>5. Range(q) = Range(r) \cup {Head(q)}
  <2>1. Range(q) \subseteq Range(r) \cup {Head(q)}
    BY <1>1, <1>3 DEF Range
  <2>2. Range(r) \cup {Head(q)} \subseteq Range(q)
    BY <1>1, <1>2, <1>4 DEF Range
  <2> QED BY <2>1, <2>2
<1>6. ASSUME NEW n, LastNotice(q, n) PROVE LastNotice(r, n)
  <2> SUFFICES ASSUME NEW i \in DOMAIN r, NEW j \in DOMAIN r, i < j,
                      r[i].type = "SELF_PROMOTION", r[i].from = n,
                      r[j].type = "SELF_PROMOTION"
               PROVE  r[j].from = n
    BY DEF LastNotice
  <2>1. i + 1 < j + 1
    BY <1>1
  <2> QED BY <1>2, <1>6, <2>1 DEF LastNotice
<1>7. ASSUME NEW n, LastNotice(q, n), Head(q).type = "SELF_PROMOTION", Head(q).from = n,
             NEW msg \in Range(r), msg.type = "SELF_PROMOTION"
      PROVE  msg.from = n
  <2>1. PICK i \in DOMAIN r : msg = r[i]
    BY <1>7 DEF Range
  <2> QED BY <1>1, <1>2, <1>4, <1>7, <2>1 DEF LastNotice
<1> QED BY <1>5, <1>6, <1>7 DEF r

LEMMA SendNotices ==
    ASSUME NEW queues \in [Node -> Seq(Message)], NEW to \in Node,
           NEW msg \in Message, NEW follower \in Node, NEW a \in Node,
           Send(queues, to, msg, follower)
    PROVE  /\ Range(inbox'[a]) \subseteq Range(queues[a]) \cup {msg}
           /\ Range(queues[a]) \subseteq Range(inbox'[a])
           /\ a = to /\ up[to] /\ follower \notin missed' => msg \in Range(inbox'[a])
           /\ missed \subseteq missed'
           /\ \A n : /\ LastNotice(queues[a], n)
                    /\ (msg.type = "SELF_PROMOTION" => msg.from = n)
                    => LastNotice(inbox'[a], n)
<1>1. missed \subseteq missed'
  BY DEF Send
<1>2. CASE a = to /\ inbox' = [queues EXCEPT ![to] = Append(@, msg)]
  <2>1. inbox'[a] = Append(queues[a], msg)
    BY <1>2
  <2> QED BY <1>1, <1>2, <2>1, AppendNotices
<1>3. CASE a # to /\ inbox' = [queues EXCEPT ![to] = Append(@, msg)]
  <2>1. inbox'[a] = queues[a]
    BY <1>3
  <2> QED BY <1>1, <1>3, <2>1
<1>4. CASE inbox' = queues /\ missed' = IF up[to] THEN missed \cup {follower} ELSE missed
  BY <1>1, <1>4
<1> QED BY <1>2, <1>3, <1>4 DEF Send

LEMMA HandledNotices ==
    ASSUME TypeOK, NEW b \in Node, inbox[b] # << >>, NEW a \in Node
    PROVE  /\ Handled(b) \in [Node -> Seq(Message)]
           /\ Range(inbox[a]) = Range(Handled(b)[a]) \cup (IF a = b THEN {Head(inbox[b])} ELSE {})
           /\ \A n : LastNotice(inbox[a], n) => LastNotice(Handled(b)[a], n)
<1>1. inbox \in [Node -> Seq(Message)]
  BY DEF TypeOK
<1>2. Handled(b) \in [Node -> Seq(Message)]
  BY <1>1, HandledEffect
<1>3. CASE a = b
  BY <1>1, <1>3, TailNotices DEF Handled
<1>4. CASE a # b
  BY <1>1, <1>4 DEF Handled
<1> QED BY <1>2, <1>3, <1>4

\* A step that changes no leader and announces nothing, and loses notices only
\* with the node that had them waiting.
LEMMA QuietStep ==
    ASSUME ReachInv,
           UNCHANGED <<current_leader_id, announcing>>, missed \subseteq missed',
           \A a \in Node : up'[a] => up[a],
           \A a, n \in Node : LastNotice(inbox[a], n) => LastNotice(inbox'[a], n),
           \A a, k \in Node : Notice(k, a)' => Notice(k, a),
           \A a, k \in Node : up'[a] /\ Notice(k, a) => Notice(k, a)'
    PROVE  ReachInv'
<1> SUFFICES ASSUME NEW n \in Node, Accepts(n)', n # InitLeader, NEW m \in Node \ {n}
             PROVE  Reached(n, m)'
  BY DEF ReachInv
<1>1. Reached(n, m)
  BY DEF ReachInv, Accepts
<1> QED BY <1>1 DEF Reached

LEMMA PromoteReach ==
    ASSUME TypeOK, LeadershipInv, LeadershipInv', mistakes' = 0, TypeOK',
           NEW b \in Node, Promote(b)
    PROVE  ReachInv'
<1>1. /\ current_leader_id' = [current_leader_id EXCEPT ![b] = b]
      /\ announcing' = [announcing EXCEPT ![b] = Node \ {b}]
      /\ up[b] /\ pc[b] = "promote"
      /\ UNCHANGED <<up, inbox, missed>>
  BY DEF Promote
<1>2. current_leader_id[b] # b
  BY <1>1 DEF LeadershipInv, Candidate
<1>3. \A m \in Node : ~Notice(b, m) /\ (b # InitLeader => current_leader_id[m] # b)
  BY <1>1, <1>2 DEF LeadershipInv, FollowedIsLowest
<1> SUFFICES ASSUME NEW n \in Node, Accepts(n)', n # InitLeader, NEW m \in Node \ {n}
             PROVE  Reached(n, m)'
  BY DEF ReachInv
<1>4. n = b
  <2>1. Accepts(b)'
    BY <1>1 DEF Accepts, TypeOK
  <2>2. SingleLeader'
    <3>1. (TypeOK /\ SoundUntilMistaken => SingleLeader)'
      BY LeadershipIsSingle, PTL
    <3> QED BY <3>1 DEF SoundUntilMistaken
  <2> QED BY <2>1, <2>2 DEF SingleLeader
<1>5. LastNotice(inbox[m], n)
  <2> SUFFICES ASSUME NEW i \in DOMAIN inbox[m], inbox[m][i].type = "SELF_PROMOTION",
                      inbox[m][i].from = n
               PROVE  FALSE
    BY DEF LastNotice
  <2>1. inbox[m] \in Seq(Message)
    BY DEF TypeOK
  <2>2. inbox[m][i] = [type |-> "SELF_PROMOTION", from |-> n]
    <3>1. inbox[m][i] \in Message
      BY <2>1
    <3> QED BY <3>1 DEF Message
  <2>3. Notice(n, m)
    BY <2>2 DEF Notice, Sent, Range
  <2> QED BY <1>3, <1>4, <2>3
<1>6. current_leader_id'[m] # n
  BY <1>1, <1>3, <1>4 DEF TypeOK
<1>7. m \in announcing'[n]
  BY <1>1, <1>4 DEF TypeOK
<1> QED BY <1>1, <1>5, <1>6, <1>7 DEF Reached

LEMMA AnnounceReach ==
    ASSUME TypeOK, LeadershipInv, mistakes = 0, ReachInv,
           NEW b \in Node, NEW to \in Node, Announce(b, to)
    PROVE  ReachInv'
<1> DEFINE msg == [type |-> "SELF_PROMOTION", from |-> b]
<1>1. /\ UNCHANGED <<up, current_leader_id, is_alive>>
      /\ announcing' = [announcing EXCEPT ![b] = @ \ {to}]
      /\ up[b] /\ pc[b] = "announce" /\ to \in announcing[b]
      /\ IF is_alive[b][to] THEN Send(inbox, to, msg, to) ELSE UNCHANGED <<inbox, missed>>
  BY DEF Announce
<1>2. msg \in Message /\ msg.from = b /\ inbox \in [Node -> Seq(Message)]
  BY DEF Message, TypeOK
<1> SUFFICES ASSUME NEW n \in Node, Accepts(n)', n # InitLeader, NEW m \in Node \ {n}
             PROVE  Reached(n, m)'
  BY DEF ReachInv
<1>3. n = b
  <2>1. Accepts(b) /\ Accepts(n)
    BY <1>1 DEF Accepts, LeadershipInv, Candidate
  <2>2. SingleLeader
    BY LeadershipIsSingle DEF SoundUntilMistaken
  <2> QED BY <2>1, <2>2 DEF SingleLeader
<1>4. Reached(n, m)
  BY <1>1 DEF ReachInv, Accepts
<1>5. /\ LastNotice(inbox'[m], n)
      /\ Range(inbox'[m]) \subseteq Range(inbox[m]) \cup {msg}
      /\ Range(inbox[m]) \subseteq Range(inbox'[m])
      /\ is_alive[b][to] /\ m = to /\ up[m] /\ m \notin missed' => msg \in Range(inbox'[m])
      /\ missed \subseteq missed'
  <2> HIDE DEF msg
  <2>1. CASE is_alive[b][to]
    <3>1. Send(inbox, to, msg, to)
      BY <1>1, <2>1
    <3>2. /\ Range(inbox'[m]) \subseteq Range(inbox[m]) \cup {msg}
          /\ Range(inbox[m]) \subseteq Range(inbox'[m])
          /\ m = to /\ up[to] /\ to \notin missed' => msg \in Range(inbox'[m])
          /\ missed \subseteq missed'
      BY <1>2, <3>1, SendNotices
    <3>3. LastNotice(inbox'[m], n)
      <4>1. LastNotice(inbox[m], n)
        BY <1>4 DEF Reached
      <4>2. msg.type = "SELF_PROMOTION" => msg.from = n
        BY <1>2, <1>3
      <4> QED BY <1>2, <3>1, <4>1, <4>2, SendNotices
    <3> QED BY <3>2, <3>3
  <2>2. CASE ~is_alive[b][to]
    BY <1>1, <1>4, <2>2 DEF Reached
  <2> QED BY <2>1, <2>2
<1>6. \A k \in Node : Notice(k, m)' => Notice(k, m) \/ k = n
  BY <1>3, <1>5 DEF Notice, Sent
<1>7. ASSUME up[m], m \notin announcing'[n], m \notin missed'
      PROVE  current_leader_id[m] = n \/ Notice(n, m)'
  <2>1. CASE m = to
    <3>1. is_alive[b][to]
      BY <1>7, <2>1, RunningIsAlive
    <3> QED BY <1>3, <1>5, <1>7, <2>1, <3>1 DEF Notice, Sent
  <2>2. CASE m # to
    <3>1. m \notin announcing[n]
      BY <1>1, <1>3, <1>7, <2>2 DEF TypeOK
    <3>2. current_leader_id[m] = n \/ Notice(n, m)
      BY <1>4, <1>5, <1>7, <3>1 DEF Reached
    <3> QED BY <1>5, <3>2 DEF Notice, Sent
  <2> QED BY <2>1, <2>2
<1> QED BY <1>1, <1>4, <1>5, <1>6, <1>7 DEF Reached

LEMMA SelfPromotionReach ==
    ASSUME TypeOK, LeadershipInv, ReachInv, NEW b \in Node, ReceiveSelfPromotion(b)
    PROVE  ReachInv'
<1> DEFINE leader == Head(inbox[b]).from
           reply == [type |-> "SYNC_REQUEST", from |-> b]
<1>1. /\ inbox[b] # << >>
      /\ Head(inbox[b]).type = "SELF_PROMOTION"
      /\ current_leader_id' = [current_leader_id EXCEPT ![b] = leader]
      /\ Send(Handled(b), leader, reply, b)
      /\ UNCHANGED <<up, announcing>>
  BY DEF ReceiveSelfPromotion, Handles, detector
<1>2. /\ leader \in Node
      /\ Head(inbox[b]) = [type |-> "SELF_PROMOTION", from |-> leader]
      /\ Notice(leader, b)
  <2>1. Head(inbox[b]) \in Message
    BY <1>1, HandledEffect DEF TypeOK
  <2>2. leader \in Node /\ Notice(leader, b)
    BY SelfPromotionQueues
  <2> QED BY <1>1, <2>1, <2>2 DEF Message
<1>3. leader # b
  BY <1>2 DEF LeadershipInv, Candidate
<1>4. /\ reply \in Message /\ reply.type # "SELF_PROMOTION"
      /\ missed \subseteq missed'
  BY SelfPromotionQueues DEF Message
<1>5. ASSUME NEW a \in Node
      PROVE  /\ \A n : LastNotice(inbox[a], n) => LastNotice(inbox'[a], n)
             /\ Range(inbox'[a]) \subseteq Range(Handled(b)[a]) \cup {reply}
             /\ Range(Handled(b)[a]) \subseteq Range(inbox'[a])
             /\ Range(inbox[a]) = Range(Handled(b)[a])
                                    \cup (IF a = b THEN {Head(inbox[b])} ELSE {})
  <2>1. /\ Handled(b) \in [Node -> Seq(Message)]
        /\ Range(inbox[a]) = Range(Handled(b)[a]) \cup (IF a = b THEN {Head(inbox[b])} ELSE {})
        /\ \A n : LastNotice(inbox[a], n) => LastNotice(Handled(b)[a], n)
    BY <1>1, HandledNotices
  <2> HIDE DEF leader, reply
  <2>2. /\ Handled(b) \in [Node -> Seq(Message)] /\ leader \in Node
        /\ reply \in Message /\ reply.type # "SELF_PROMOTION"
        /\ Send(Handled(b), leader, reply, b)
    BY <1>1, <1>2, <1>4, <2>1
  <2>3. /\ Range(inbox'[a]) \subseteq Range(Handled(b)[a]) \cup {reply}
        /\ Range(Handled(b)[a]) \subseteq Range(inbox'[a])
    BY <2>2, SendNotices
  <2>4. \A n : LastNotice(Handled(b)[a], n) => LastNotice(inbox'[a], n)
    BY <2>2, SendNotices
  <2> QED BY <2>1, <2>3, <2>4
<1> SUFFICES ASSUME NEW n \in Node, Accepts(n)', n # InitLeader, NEW m \in Node \ {n}
             PROVE  Reached(n, m)'
  BY DEF ReachInv
<1>6. n # b /\ Accepts(n)
  BY <1>1, <1>3 DEF Accepts, TypeOK
<1>7. Reached(n, m)
  BY <1>6 DEF ReachInv
<1>8. LastNotice(inbox'[m], n)
  BY <1>5, <1>7 DEF Reached
<1>9. \A k \in Node : Notice(k, m)' => Notice(k, m)
  BY <1>4, <1>5 DEF Notice, Sent
<1>10. CASE m # b
  <2>1. current_leader_id'[m] = current_leader_id[m]
    BY <1>1, <1>10 DEF TypeOK
  <2>2. Notice(n, m) => Notice(n, m)'
    BY <1>5, <1>10 DEF Notice, Sent
  <2> QED BY <1>1, <1>4, <1>7, <1>8, <1>9, <2>1, <2>2 DEF Reached
<1>11. CASE m = b
  <2>1. current_leader_id'[m] = leader
    BY <1>1, <1>11 DEF TypeOK
  <2>2. ASSUME leader = n, NEW k \in Node, Notice(k, m)'
        PROVE  k = n
    <3>1. [type |-> "SELF_PROMOTION", from |-> k] \in Range(Handled(b)[b])
      BY <1>4, <1>5, <1>11, <2>2 DEF Notice, Sent
    <3>2. Handled(b)[b] = Tail(inbox[b]) /\ inbox[b] \in Seq(Message)
      BY DEF Handled, TypeOK
    <3>3. \A msg \in Range(Tail(inbox[b])) : msg.type = "SELF_PROMOTION" => msg.from = n
      BY <1>1, <1>7, <1>11, <2>2, <3>2, TailNotices DEF Reached
    <3> QED BY <3>1, <3>2, <3>3
  <2>3. ASSUME up[m], m \notin announcing[n], m \notin missed
        PROVE  leader = n \/ Notice(n, m)'
    <3>1. CASE current_leader_id[m] = n
      BY <1>2, <1>7, <1>11, <3>1 DEF Reached
    <3>2. CASE Notice(n, m)
      BY <1>2, <1>5, <1>11, <3>2 DEF Notice, Sent
    <3> QED BY <1>7, <2>3, <3>1, <3>2 DEF Reached
  <2> QED BY <1>1, <1>4, <1>8, <2>1, <2>2, <2>3 DEF Reached
<1> QED BY <1>10, <1>11

LEMMA SyncReach ==
    ASSUME TypeOK, ReachInv, NEW b \in Node,
           ReceiveSyncRequest(b) \/ ReceiveSyncResponse(b) \/ DropSyncResponse(b)
    PROVE  ReachInv'
<1> DEFINE reply == [type |-> "SYNC_RESPONSE", from |-> b]
           to == Head(inbox[b]).from
<1>1. /\ inbox[b] # << >>
      /\ Head(inbox[b]).type # "SELF_PROMOTION"
      /\ inbox' = Handled(b) \/ Send(Handled(b), to, reply, to)
      /\ UNCHANGED <<up, current_leader_id, announcing>>
  BY DEF ReceiveSyncRequest, ReceiveSyncResponse, DropSyncResponse, Handles, detector
<1>2. /\ to \in Node /\ reply \in Message /\ reply.type # "SELF_PROMOTION"
      /\ missed \subseteq missed'
  BY SyncRequestQueues, SyncResponseQueues DEF Message
<1> HIDE DEF reply, to
<1>3. ASSUME NEW a \in Node
      PROVE  /\ \A n : LastNotice(inbox[a], n) => LastNotice(inbox'[a], n)
             /\ Range(inbox'[a]) \subseteq Range(Handled(b)[a]) \cup {reply}
             /\ Range(Handled(b)[a]) \subseteq Range(inbox'[a])
             /\ Range(inbox[a]) = Range(Handled(b)[a])
                                    \cup (IF a = b THEN {Head(inbox[b])} ELSE {})
  <2>1. /\ Handled(b) \in [Node -> Seq(Message)]
        /\ Range(inbox[a]) = Range(Handled(b)[a]) \cup (IF a = b THEN {Head(inbox[b])} ELSE {})
        /\ \A n : LastNotice(inbox[a], n) => LastNotice(Handled(b)[a], n)
    BY <1>1, HandledNotices
  <2>2. CASE inbox' = Handled(b)
    BY <2>1, <2>2
  <2>3. CASE Send(Handled(b), to, reply, to)
    <3>1. /\ Range(inbox'[a]) \subseteq Range(Handled(b)[a]) \cup {reply}
          /\ Range(Handled(b)[a]) \subseteq Range(inbox'[a])
      BY <1>2, <2>1, <2>3, SendNotices
    <3>2. \A n : LastNotice(Handled(b)[a], n) => LastNotice(inbox'[a], n)
      BY <1>2, <2>1, <2>3, SendNotices
    <3> QED BY <2>1, <3>1, <3>2
  <2> QED BY <1>1, <2>2, <2>3
<1>4. \A a, k \in Node : Notice(k, a)' <=> Notice(k, a)
  BY <1>1, <1>2, <1>3 DEF Notice, Sent
<1> QED BY <1>1, <1>2, <1>3, <1>4, QuietStep

LEMMA CrashReach ==
    ASSUME TypeOK, ReachInv, NEW b \in Node, Crash(b)
    PROVE  ReachInv'
<1>1. /\ UNCHANGED <<current_leader_id, announcing, missed>>
      /\ up' = [up EXCEPT ![b] = FALSE]
      /\ inbox' = [inbox EXCEPT ![b] = << >>]
  BY DEF Crash, detector
<1>2. \A a \in Node : up'[a] => up[a] /\ a # b
  BY <1>1 DEF TypeOK
<1>3. \A a \in Node : inbox'[a] = IF a = b THEN << >> ELSE inbox[a]
  BY <1>1 DEF TypeOK
<1>4. \A n : LastNotice(<< >>, n)
  BY DEF LastNotice
<1>5. Range(<< >>) = {}
  BY DEF Range
<1>6. \A a, n \in Node : LastNotice(inbox[a], n) => LastNotice(inbox'[a], n)
  BY <1>3, <1>4
<1>7. \A a, k \in Node : /\ Notice(k, a)' => Notice(k, a)
                         /\ up'[a] /\ Notice(k, a) => Notice(k, a)'
  BY <1>2, <1>3, <1>5 DEF Notice, Sent
<1> QED BY <1>1, <1>2, <1>6, <1>7, QuietStep

LEMMA NextReach ==
    ASSUME TypeOK, TypeOK', LeadershipInv, LeadershipInv', mistakes = 0, mistakes' = 0,
           ReachInv, [Next]_vars
    PROVE  ReachInv'
<1>1. CASE UNCHANGED <<up, current_leader_id, announcing, inbox, missed>>
  BY <1>1, QuietStep DEF Notice, Sent
<1>2. ASSUME NEW n \in Node, Detect(n) PROVE ReachInv'
  <2>1. ASSUME NEW m \in Node, Announce(n, m) PROVE ReachInv'
    BY <2>1, AnnounceReach
  <2> QED BY <1>1, <1>2, <2>1, PromoteReach
          DEF Detect, Proceed, WakeUp, Examine, CheckLeader, Elect, Announced
<1>3. ASSUME NEW n \in Node, Receive(n) PROVE ReachInv'
  BY <1>3, SelfPromotionReach, SyncReach DEF Receive
<1>4. ASSUME NEW n \in Node, NEW m \in Node, ReceiveHeartBeat(n, m) PROVE ReachInv'
  BY <1>1, <1>4 DEF ReceiveHeartBeat
<1>5. ASSUME NEW n \in Node, Crash(n) PROVE ReachInv'
  BY <1>5, CrashReach
<1>6. CASE UNCHANGED vars
  BY <1>1, <1>6 DEF vars
<1> QED BY <1>2, <1>3, <1>4, <1>5, <1>6 DEF Next

\* Until a detector is wrong, every node that is up, has been visited by the new
\* leader's broadcast and lost no message follows it or will, in a cluster of any
\* size: is_alive filters out nobody who runs, and no notice of an earlier leader overtakes it (kivileaf.cpp,
\* broadcast_self_promotion and the SELF_PROMOTION handler).
THEOREM NoticeHeard == Spec => []NoticeReachesEveryone
<1> DEFINE Reaches == mistakes = 0 => ReachInv
<1>1. Init => Reaches
  BY DEF Init, ReachInv, Accepts
<1>2. /\ TypeOK /\ SoundUntilMistaken /\ Reaches
      /\ TypeOK' /\ SoundUntilMistaken' /\ [Next]_vars
      => Reaches'
  BY NextReach, MistakesStay DEF SoundUntilMistaken
<1>3. Reaches => NoticeReachesEveryone
  BY DEF ReachInv, Reached, NoticeReachesEveryone, Notice, Accepts
<1> QED BY <1>1, <1>2, <1>3, ClusterTyped, LeadershipInvariant, PTL DEF Spec

=============================================================================
