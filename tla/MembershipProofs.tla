-------------------------- MODULE MembershipProofs --------------------------
(***************************************************************************)
(* Proofs about Membership for every predefined cluster and every set of   *)
(* joiners, however they start, crash and forget: a node never has the     *)
(* same peer twice, and a loop over one of its lists is only broken when   *)
(* two joiners have come into that list.                                   *)
(***************************************************************************)
EXTENDS Membership, FiniteSetTheorems, SequenceTheorems, FunctionTheorems, TLAPS

-----------------------------------------------------------------------------
(* Type correctness                                                        *)

LEMMA PredefinedTyped ==
    /\ Predefined \in Seq(Node)
    /\ Leader \in Node
    /\ Range(Predefined) \subseteq Node
<1>1. Range(Predefined) \subseteq Node
  BY DEF Node
<1>2. Predefined \in Seq(Range(Predefined)) /\ Predefined # << >>
  BY MembershipAssumption
<1>3. Predefined \in Seq(Node)
  BY <1>1, <1>2
<1> QED BY <1>1, <1>2, <1>3 DEF Leader

LEMMA InitTyped == Init => TypeOK
<1> SUFFICES ASSUME Init PROVE TypeOK
  OBVIOUS
<1> QED BY PredefinedTyped, MembershipAssumption DEF Init, TypeOK, NoLoop

LEMMA PostTyped ==
    ASSUME TypeOK, NEW m \in HeartBeat \cup Request, NEW to \in Node, Post(m, to)
    PROVE  inbox' \in [Node -> Seq(HeartBeat \cup Request)]
BY DEF TypeOK, Post

LEMMA PushBackTyped ==
    ASSUME TypeOK, NEW n \in Node, n \in up, NEW list, NEW len, PushBack(n, list, len)
    PROVE  /\ loop' \in {NoLoop} \cup (Node \X {"local", "cluster"})
           /\ broken' \in SUBSET up
BY DEF TypeOK, PushBack

LEMMA AddNewNodeTyped ==
    ASSUME TypeOK, NEW n \in Node, n \in up, NEW j \in Node, NEW type,
           AddNewNode(n, j, type)
    PROVE  /\ local_cluster_nodes' \in [Node -> Seq(Node)]
           /\ cluster_nodes' \in [Node -> Seq(Node)]
           /\ loop' \in {NoLoop} \cup (Node \X {"local", "cluster"})
           /\ broken' \in SUBSET up
<1>1. /\ Append(local_cluster_nodes[n], j) \in Seq(Node)
      /\ Append(cluster_nodes[n], j) \in Seq(Node)
  <2>1. local_cluster_nodes[n] \in Seq(Node) /\ cluster_nodes[n] \in Seq(Node)
    BY DEF TypeOK
  <2> QED BY <2>1
<1>2. CASE type = 1
  <2>1. PushBack(n, "cluster", Len(cluster_nodes[n]))
    BY <1>2 DEF AddNewNode
  <2>2. /\ local_cluster_nodes' \in [Node -> Seq(Node)]
        /\ cluster_nodes' \in [Node -> Seq(Node)]
    BY <1>1, <1>2 DEF TypeOK, AddNewNode
  <2> QED BY <2>1, <2>2, PushBackTyped
<1>3. CASE type # 1
  <2>1. PushBack(n, "local", Len(local_cluster_nodes[n]))
    BY <1>3 DEF AddNewNode
  <2>2. /\ local_cluster_nodes' \in [Node -> Seq(Node)]
        /\ cluster_nodes' \in [Node -> Seq(Node)]
    BY <1>1, <1>3 DEF TypeOK, AddNewNode
  <2> QED BY <2>1, <2>2, PushBackTyped
<1> QED BY <1>2, <1>3

LEMMA HeadTyped ==
    ASSUME TypeOK, NEW n \in Node, inbox[n] # << >>
    PROVE  /\ Head(inbox[n]) \in HeartBeat \cup Request
           /\ Head(inbox[n]).from \in Node
           /\ Tail(inbox[n]) \in Seq(HeartBeat \cup Request)
<1>1. inbox[n] \in Seq(HeartBeat \cup Request)
  BY DEF TypeOK
<1>2. /\ Head(inbox[n]) \in HeartBeat \cup Request
      /\ Tail(inbox[n]) \in Seq(HeartBeat \cup Request)
  BY <1>1
<1> QED BY <1>2 DEF HeartBeat, Request

LEMMA NextTyped == TypeOK /\ [Next]_vars => TypeOK'
<1> SUFFICES ASSUME TypeOK, [Next]_vars PROVE TypeOK'
  OBVIOUS
<1>1. ASSUME NEW n \in Node, Start(n) PROVE TypeOK'
  BY <1>1 DEF Start, TypeOK
<1>2. ASSUME NEW n \in Node, Crash(n) PROVE TypeOK'
  <2>1. up' \in SUBSET Running /\ crashes' \in 0..MaxCrashes
    BY <1>2, MembershipAssumption DEF Crash, TypeOK
  <2>2. /\ local_cluster_nodes' \in [Node -> Seq(Node)]
        /\ cluster_nodes' \in [Node -> Seq(Node)]
        /\ inbox' \in [Node -> Seq(HeartBeat \cup Request)]
    BY <1>2, PredefinedTyped DEF Crash, TypeOK
  <2>3. /\ loop' \in {NoLoop} \cup (Node \X {"local", "cluster"})
        /\ broken' \in SUBSET up'
        /\ pulling' \in SUBSET up'
        /\ answered' \in SUBSET up'
    BY <1>2 DEF Crash, TypeOK
  <2> QED BY <2>1, <2>2, <2>3 DEF TypeOK
<1>3. ASSUME NEW n \in Node, PullLeaderData(n) PROVE TypeOK'
  <2>1. [type |-> "SYNC_REQUEST", from |-> n] \in HeartBeat \cup Request
    BY DEF Request
  <2>2. inbox' \in [Node -> Seq(HeartBeat \cup Request)]
    BY <1>3, <2>1, PredefinedTyped, PostTyped DEF PullLeaderData, TypeOK
  <2> QED BY <1>3, <2>2 DEF PullLeaderData, TypeOK
<1>4. ASSUME NEW n \in Node, Receive(n, "HEART_BEAT") PROVE TypeOK'
  <2>1. /\ Head(inbox[n]).from \in Node
        /\ inbox' \in [Node -> Seq(HeartBeat \cup Request)]
    BY <1>4, HeadTyped DEF Receive, TypeOK
  <2>2. /\ ReceiveHeartBeat(n, Head(inbox[n]))
        /\ n \in up
        /\ UNCHANGED <<up, pulling, crashes, answered>>
    BY <1>4 DEF Receive, Runs
  <2>3. /\ local_cluster_nodes' \in [Node -> Seq(Node)]
        /\ cluster_nodes' \in [Node -> Seq(Node)]
        /\ loop' \in {NoLoop} \cup (Node \X {"local", "cluster"})
        /\ broken' \in SUBSET up
    <3>1. CASE Head(inbox[n]).from \in Known(n)
      BY <2>2, <3>1 DEF ReceiveHeartBeat, TypeOK
    <3>2. CASE Head(inbox[n]).from \notin Known(n)
      BY <2>1, <2>2, <3>2, AddNewNodeTyped DEF ReceiveHeartBeat
    <3> QED BY <3>1, <3>2
  <2> QED BY <2>1, <2>2, <2>3 DEF TypeOK
<1>5. ASSUME NEW n \in Node, Receive(n, "SYNC_REQUEST") PROVE TypeOK'
  <2>1. inbox' \in [Node -> Seq(HeartBeat \cup Request)]
    BY <1>5, HeadTyped DEF Receive, TypeOK
  <2> QED BY <1>5, <2>1 DEF Receive, ReceiveSyncRequest, TypeOK
<1>6. ASSUME NEW n \in Node, NEW list \in {"local", "cluster"}, EnterLoop(n, list)
      PROVE  TypeOK'
  BY <1>6 DEF EnterLoop, TypeOK
<1>7. ASSUME NEW n \in Node, NEW m \in Node, NEW type \in {1, 2}, SendHeartBeat(n, m, type)
      PROVE  TypeOK'
  <2>1. [type |-> "HEART_BEAT", from |-> n, cluster_type |-> type] \in HeartBeat \cup Request
    BY DEF HeartBeat
  <2>2. inbox' \in [Node -> Seq(HeartBeat \cup Request)]
    BY <1>7, <2>1, PostTyped DEF SendHeartBeat
  <2> QED BY <1>7, <2>2 DEF SendHeartBeat, TypeOK
<1>8. CASE LeaveLoop
  BY <1>8 DEF LeaveLoop, TypeOK
<1>9. CASE UNCHANGED vars
  BY <1>9 DEF vars, TypeOK
<1> QED BY <1>1, <1>2, <1>3, <1>4, <1>5, <1>6, <1>7, <1>8, <1>9 DEF Next

\* The lists hold nodes, the boxes hold messages from nodes, and the threads that
\* loop, pull or have been broken belong to processes that run (paxos_node.cpp).
THEOREM MembershipTyped == Spec => []TypeOK
BY InitTyped, NextTyped, PTL DEF Spec

-----------------------------------------------------------------------------
(* A peer is known once                                                    *)

\* The nodes of main come first in the local list and stay there, both lists hold
\* everybody once, and only joiners, which are strangers, are added to either.
MemberOnce(n) ==
    /\ IsInjective(local_cluster_nodes[n])
    /\ IsInjective(cluster_nodes[n])
    /\ Range(Predefined) \subseteq Local(n)
    /\ Range(cluster_nodes[n]) \subseteq Joiner
    /\ Local(n) \cap Range(cluster_nodes[n]) = {}

MemberInv == \A n \in Node : MemberOnce(n)

LEMMA RangeCounted ==
    ASSUME NEW S, NEW s \in Seq(S), IsInjective(s)
    PROVE  IsFiniteSet(Range(s)) /\ Cardinality(Range(s)) = Len(s) /\ Len(s) \in Nat
<1>1. Len(s) \in Nat /\ DOMAIN s = 1..Len(s)
  OBVIOUS
<1>2. s \in [1..Len(s) -> Range(s)]
  BY <1>1 DEF Range
<1>3. \A a, b \in 1..Len(s) : s[a] = s[b] => a = b
  BY <1>1 DEF IsInjective
<1>4. \A x \in Range(s) : \E i \in 1..Len(s) : s[i] = x
  BY <1>1 DEF Range
<1>5. ExistsBijection(1..Len(s), Range(s))
  BY <1>2, <1>3, <1>4, Fun_IsBij DEF ExistsBijection
<1>6. IsFiniteSet(1..Len(s)) /\ Cardinality(1..Len(s)) = Len(s)
  BY <1>1, FS_Interval
<1> QED BY <1>1, <1>5, <1>6, FS_Bijection

\* push_back of a stranger.
LEMMA AppendStranger ==
    ASSUME NEW S, NEW s \in Seq(S), NEW x \in S
    PROVE  /\ Append(s, x) \in Seq(S)
           /\ Len(Append(s, x)) = Len(s) + 1
           /\ Range(Append(s, x)) = Range(s) \cup {x}
           /\ IsInjective(s) /\ x \notin Range(s) => IsInjective(Append(s, x))
<1> DEFINE t == Append(s, x)
<1>1. /\ t \in Seq(S)
      /\ Len(t) = Len(s) + 1
      /\ \A i \in 1..Len(s) : t[i] = s[i]
      /\ t[Len(s) + 1] = x
  OBVIOUS
<1>2. /\ Len(s) \in Nat
      /\ DOMAIN s = 1..Len(s)
      /\ DOMAIN t = 1..(Len(s) + 1)
  BY <1>1
<1> HIDE DEF t
<1>3. \A i \in DOMAIN t : i \in DOMAIN s \/ i = Len(s) + 1
  BY <1>2
<1>4. DOMAIN s \subseteq DOMAIN t /\ Len(s) + 1 \in DOMAIN t
  BY <1>2
<1>5. Range(t) = Range(s) \cup {x}
  <2>1. Range(t) \subseteq Range(s) \cup {x}
    BY <1>1, <1>2, <1>3 DEF Range
  <2>2. Range(s) \cup {x} \subseteq Range(t)
    BY <1>1, <1>2, <1>4 DEF Range
  <2> QED BY <2>1, <2>2
<1>6. ASSUME IsInjective(s), x \notin Range(s) PROVE IsInjective(t)
  <2>1. \A i \in DOMAIN s : t[i] = s[i] /\ t[i] # x
    BY <1>1, <1>2, <1>6 DEF Range
  <2>2. ASSUME NEW a \in DOMAIN t, NEW b \in DOMAIN t, t[a] = t[b] PROVE a = b
    BY <1>1, <1>3, <1>6, <2>1, <2>2 DEF IsInjective
  <2> QED BY <2>2 DEF IsInjective
<1> QED BY <1>1, <1>5, <1>6 DEF t

LEMMA PredefinedOnce ==
    ASSUME NEW n \in Node, local_cluster_nodes[n] = Predefined, cluster_nodes[n] = << >>
    PROVE  MemberOnce(n)
<1>1. Range(<< >>) = {} /\ IsInjective(<< >>)
  BY DEF Range, IsInjective
<1> QED BY <1>1, MembershipAssumption DEF MemberOnce, Local

\* A stranger that sends a heartbeat goes into one of the lists.
LEMMA AddNewNodeOnce ==
    ASSUME TypeOK, MemberInv, NEW n \in Node, NEW j \in Node, NEW type,
           j \notin Known(n), AddNewNode(n, j, type)
    PROVE  MemberInv'
<1>1. j \in Joiner
  BY DEF MemberInv, MemberOnce, Known, Node
<1>2. local_cluster_nodes[n] \in Seq(Node) /\ cluster_nodes[n] \in Seq(Node)
  BY DEF TypeOK
<1>3. MemberOnce(n) /\ j \notin Local(n) /\ j \notin Range(cluster_nodes[n])
  BY DEF MemberInv, Known
<1>4. CASE type = 1
  <2>1. /\ local_cluster_nodes' = local_cluster_nodes
        /\ cluster_nodes' = [cluster_nodes EXCEPT ![n] = Append(@, j)]
    BY <1>4 DEF AddNewNode
  <2>2. cluster_nodes'[n] = Append(cluster_nodes[n], j)
    BY <2>1 DEF TypeOK
  <2>3. /\ IsInjective(cluster_nodes'[n])
        /\ Range(cluster_nodes'[n]) = Range(cluster_nodes[n]) \cup {j}
    BY <1>2, <1>3, <2>2, AppendStranger DEF MemberOnce
  <2>4. MemberOnce(n)'
    BY <1>1, <1>3, <2>1, <2>3 DEF MemberOnce, Local
  <2>5. ASSUME NEW m \in Node, m # n PROVE MemberOnce(m)'
    BY <2>1, <2>5 DEF MemberInv, MemberOnce, Local, TypeOK
  <2> QED BY <2>4, <2>5 DEF MemberInv
<1>5. CASE type # 1
  <2>1. /\ cluster_nodes' = cluster_nodes
        /\ local_cluster_nodes' = [local_cluster_nodes EXCEPT ![n] = Append(@, j)]
    BY <1>5 DEF AddNewNode
  <2>2. local_cluster_nodes'[n] = Append(local_cluster_nodes[n], j)
    BY <2>1 DEF TypeOK
  <2>3. /\ IsInjective(local_cluster_nodes'[n])
        /\ Range(local_cluster_nodes'[n]) = Range(local_cluster_nodes[n]) \cup {j}
    BY <1>2, <1>3, <2>2, AppendStranger DEF MemberOnce, Local
  <2>4. MemberOnce(n)'
    BY <1>3, <2>1, <2>3 DEF MemberOnce, Local
  <2>5. ASSUME NEW m \in Node, m # n PROVE MemberOnce(m)'
    BY <2>1, <2>5 DEF MemberInv, MemberOnce, Local, TypeOK
  <2> QED BY <2>4, <2>5 DEF MemberInv
<1> QED BY <1>4, <1>5

LEMMA NextOnce == TypeOK /\ MemberInv /\ [Next]_vars => MemberInv'
<1> SUFFICES ASSUME TypeOK, MemberInv, [Next]_vars PROVE MemberInv'
  OBVIOUS
<1>1. CASE UNCHANGED <<local_cluster_nodes, cluster_nodes>>
  BY <1>1 DEF MemberInv, MemberOnce, Local
<1>2. ASSUME NEW n \in Node, Crash(n) PROVE MemberInv'
  <2>1. /\ local_cluster_nodes'[n] = Predefined
        /\ cluster_nodes'[n] = << >>
        /\ \A m \in Node \ {n} : /\ local_cluster_nodes'[m] = local_cluster_nodes[m]
                                 /\ cluster_nodes'[m] = cluster_nodes[m]
    BY <1>2 DEF Crash, TypeOK
  <2>2. MemberOnce(n)'
    <3>1. Range(<< >>) = {} /\ IsInjective(<< >>)
      BY DEF Range, IsInjective
    <3> QED BY <2>1, <3>1, MembershipAssumption DEF MemberOnce, Local
  <2>3. ASSUME NEW m \in Node, m # n PROVE MemberOnce(m)'
    BY <2>1, <2>3 DEF MemberInv, MemberOnce, Local
  <2> QED BY <2>2, <2>3 DEF MemberInv
<1>3. ASSUME NEW n \in Node, Receive(n, "HEART_BEAT") PROVE MemberInv'
  <2>1. ReceiveHeartBeat(n, Head(inbox[n])) /\ Head(inbox[n]).from \in Node
    BY <1>3, HeadTyped DEF Receive
  <2>2. CASE Head(inbox[n]).from \in Known(n)
    BY <1>1, <2>1, <2>2 DEF ReceiveHeartBeat
  <2>3. CASE Head(inbox[n]).from \notin Known(n)
    BY <2>1, <2>3, AddNewNodeOnce DEF ReceiveHeartBeat
  <2> QED BY <2>2, <2>3
<1>4. ASSUME NEW n \in Node,
             \/ Start(n) \/ PullLeaderData(n) \/ Receive(n, "SYNC_REQUEST")
             \/ \E list \in {"local", "cluster"} : EnterLoop(n, list)
             \/ \E m \in Node, type \in {1, 2} : SendHeartBeat(n, m, type)
      PROVE  MemberInv'
  BY <1>1, <1>4 DEF Start, PullLeaderData, Receive, EnterLoop, SendHeartBeat
<1>5. CASE LeaveLoop \/ UNCHANGED vars
  BY <1>1, <1>5 DEF LeaveLoop, vars
<1> QED BY <1>2, <1>3, <1>4, <1>5 DEF Next

LEMMA InitOnce == Init => MemberInv
BY PredefinedOnce DEF Init, MemberInv

\* Lists without repetition that have nobody in common count everybody once.
LEMMA OnceCounted ==
    ASSUME TypeOK, MemberInv
    PROVE  KnownOnce
<1> SUFFICES ASSUME NEW n \in Node
             PROVE  Cardinality(Known(n)) = Len(local_cluster_nodes[n]) + Len(cluster_nodes[n])
  BY DEF KnownOnce
<1>1. local_cluster_nodes[n] \in Seq(Node) /\ cluster_nodes[n] \in Seq(Node)
  BY DEF TypeOK
<1>2. MemberOnce(n)
  BY DEF MemberInv
<1>3. /\ IsFiniteSet(Local(n)) /\ Cardinality(Local(n)) = Len(local_cluster_nodes[n])
      /\ Len(local_cluster_nodes[n]) \in Nat
  BY <1>1, <1>2, RangeCounted DEF MemberOnce, Local
<1>4. /\ IsFiniteSet(Range(cluster_nodes[n]))
      /\ Cardinality(Range(cluster_nodes[n])) = Len(cluster_nodes[n])
      /\ Len(cluster_nodes[n]) \in Nat
  BY <1>1, <1>2, RangeCounted DEF MemberOnce
<1>5. Cardinality(Local(n) \cap Range(cluster_nodes[n])) = 0
  BY <1>2, FS_EmptySet DEF MemberOnce
<1>6. Cardinality(Local(n) \cup Range(cluster_nodes[n]))
        = Cardinality(Local(n)) + Cardinality(Range(cluster_nodes[n])) - 0
  BY <1>3, <1>4, <1>5, FS_Union
<1> QED BY <1>3, <1>4, <1>6 DEF Known

\* A node has every peer once, in one of its two lists, whatever heartbeats with
\* whatever cluster_type reach it and whatever it forgets in a crash: no copy of a
\* peer is ever given up while another is renewed (paxos_node.cpp, update_last_seen
\* before add_new_node).
THEOREM PeersKnownOnce == Spec => []KnownOnce
BY InitTyped, NextTyped, InitOnce, NextOnce, OnceCounted, PTL DEF Spec

-----------------------------------------------------------------------------
(* What it takes to break a loop                                           *)

\* A loop over the other clusters' nodes has found one; a broken node has had two
\* more nodes come into one of its lists than the code began with.
LoopInv ==
    /\ \A n \in Node : loop = <<n, "cluster">> => Len(cluster_nodes[n]) >= 1
    /\ \A n \in broken : \/ Len(local_cluster_nodes[n]) >= Len(Predefined) + 2
                         \/ Len(cluster_nodes[n]) >= 2

LEMMA LocalNoShorter ==
    ASSUME TypeOK, MemberInv, NEW n \in Node
    PROVE  /\ Len(Predefined) \in Nat
           /\ Len(local_cluster_nodes[n]) \in Nat
           /\ Len(cluster_nodes[n]) \in Nat
           /\ Len(local_cluster_nodes[n]) >= Len(Predefined)
           /\ IsFiniteSet(Local(n))
           /\ Cardinality(Local(n) \cap Joiner)
                 = Len(local_cluster_nodes[n]) - Len(Predefined)
           /\ Cardinality(Range(cluster_nodes[n]) \cap Joiner) = Len(cluster_nodes[n])
<1>1. local_cluster_nodes[n] \in Seq(Node) /\ cluster_nodes[n] \in Seq(Node)
  BY DEF TypeOK
<1>2. MemberOnce(n)
  BY DEF MemberInv
<1>3. /\ IsFiniteSet(Local(n)) /\ Cardinality(Local(n)) = Len(local_cluster_nodes[n])
      /\ Len(local_cluster_nodes[n]) \in Nat
  BY <1>1, <1>2, RangeCounted DEF MemberOnce, Local
<1>4. /\ Cardinality(Range(cluster_nodes[n])) = Len(cluster_nodes[n])
      /\ Len(cluster_nodes[n]) \in Nat
  BY <1>1, <1>2, RangeCounted DEF MemberOnce
<1>5. Cardinality(Range(Predefined)) = Len(Predefined) /\ Len(Predefined) \in Nat
  BY PredefinedTyped, MembershipAssumption, RangeCounted
<1>6. /\ Local(n) \cap Range(Predefined) = Range(Predefined)
      /\ Range(cluster_nodes[n]) \cap Joiner = Range(cluster_nodes[n])
  BY <1>2 DEF MemberOnce
<1>7. Local(n) \cap Joiner = Local(n) \ Range(Predefined)
  <2>1. Local(n) \subseteq Range(Predefined) \cup Joiner
    BY <1>1 DEF Local, Range, Node
  <2> QED BY <2>1, MembershipAssumption
<1>8. Cardinality(Local(n) \ Range(Predefined))
        = Cardinality(Local(n)) - Cardinality(Local(n) \cap Range(Predefined))
  BY <1>3, FS_Difference
<1>9. Cardinality(Range(Predefined)) <= Cardinality(Local(n))
  BY <1>2, <1>3, FS_Subset DEF MemberOnce
<1> QED BY <1>3, <1>4, <1>5, <1>6, <1>7, <1>8, <1>9

\* A push_back breaks a loop only if the list was full, and the predefined nodes
\* alone do not fill the local one.
LEMMA AddNewNodeLoops ==
    ASSUME TypeOK, MemberInv, LoopInv, ~FillsRoom(Len(Predefined)),
           NEW n \in Node, NEW j \in Node, NEW type, AddNewNode(n, j, type)
    PROVE  LoopInv'
<1>1. /\ local_cluster_nodes[n] \in Seq(Node) /\ cluster_nodes[n] \in Seq(Node)
      /\ broken \subseteq Node
  BY MembershipAssumption DEF TypeOK
<1>2. \A m \in Node : /\ Len(Predefined) \in Nat
                     /\ Len(local_cluster_nodes[m]) \in Nat
                     /\ Len(cluster_nodes[m]) \in Nat
                     /\ Len(local_cluster_nodes[m]) >= Len(Predefined)
  BY LocalNoShorter
<1>3. CASE type = 1
  <2>1. /\ local_cluster_nodes' = local_cluster_nodes
        /\ Len(cluster_nodes'[n]) = Len(cluster_nodes[n]) + 1
        /\ \A m \in Node \ {n} : cluster_nodes'[m] = cluster_nodes[m]
        /\ PushBack(n, "cluster", Len(cluster_nodes[n]))
    <3>1. Len(Append(cluster_nodes[n], j)) = Len(cluster_nodes[n]) + 1
      BY <1>1, AppendStranger
    <3> QED BY <1>3, <3>1 DEF AddNewNode, TypeOK
  <2>2. loop' \in {loop, NoLoop} /\ (n \in broken' \ broken => loop = <<n, "cluster">>)
        /\ broken' \subseteq broken \cup {n}
    BY <2>1 DEF PushBack
  <2>3. ASSUME NEW m \in Node, loop' = <<m, "cluster">>
        PROVE  Len(cluster_nodes'[m]) >= 1
    BY <1>2, <2>1, <2>2, <2>3 DEF LoopInv, NoLoop
  <2>4. ASSUME NEW m \in broken'
        PROVE  \/ Len(local_cluster_nodes'[m]) >= Len(Predefined) + 2
               \/ Len(cluster_nodes'[m]) >= 2
    <3>1. CASE m = n
      BY <1>2, <2>1, <2>2, <2>4, <3>1 DEF LoopInv
    <3>2. CASE m # n
      BY <1>1, <2>1, <2>2, <2>4, <3>2 DEF LoopInv
    <3> QED BY <3>1, <3>2
  <2> QED BY <2>3, <2>4 DEF LoopInv
<1>4. CASE type # 1
  <2>1. /\ cluster_nodes' = cluster_nodes
        /\ Len(local_cluster_nodes'[n]) = Len(local_cluster_nodes[n]) + 1
        /\ \A m \in Node \ {n} : local_cluster_nodes'[m] = local_cluster_nodes[m]
        /\ PushBack(n, "local", Len(local_cluster_nodes[n]))
    <3>1. Len(Append(local_cluster_nodes[n], j)) = Len(local_cluster_nodes[n]) + 1
      BY <1>1, AppendStranger
    <3> QED BY <1>4, <3>1 DEF AddNewNode, TypeOK
  <2>2. /\ loop' \in {loop, NoLoop}
        /\ n \in broken' \ broken => FillsRoom(Len(local_cluster_nodes[n]))
        /\ broken' \subseteq broken \cup {n}
    BY <2>1 DEF PushBack
  <2>3. ASSUME NEW m \in Node, loop' = <<m, "cluster">>
        PROVE  Len(cluster_nodes'[m]) >= 1
    BY <2>1, <2>2, <2>3 DEF LoopInv, NoLoop
  <2>4. ASSUME NEW m \in broken'
        PROVE  \/ Len(local_cluster_nodes'[m]) >= Len(Predefined) + 2
               \/ Len(cluster_nodes'[m]) >= 2
    <3>1. CASE m = n /\ m \in broken
      BY <1>2, <2>1, <3>1 DEF LoopInv
    <3>2. CASE m = n /\ m \notin broken
      <4>1. Len(local_cluster_nodes[n]) # Len(Predefined)
        BY <2>2, <2>4, <3>2
      <4> QED BY <1>2, <2>1, <3>2, <4>1
    <3>3. CASE m # n
      BY <1>1, <2>1, <2>2, <2>4, <3>3 DEF LoopInv
    <3> QED BY <3>1, <3>2, <3>3
  <2> QED BY <2>3, <2>4 DEF LoopInv
<1> QED BY <1>3, <1>4

LEMMA NextLoops ==
    ASSUME TypeOK, MemberInv, LoopInv, ~FillsRoom(Len(Predefined)), [Next]_vars
    PROVE  LoopInv'
<1>1. CASE UNCHANGED <<local_cluster_nodes, cluster_nodes, loop, broken>>
  BY <1>1 DEF LoopInv
<1>2. ASSUME NEW n \in Node, Crash(n) PROVE LoopInv'
  <2>1. /\ \A m \in Node \ {n} : /\ local_cluster_nodes'[m] = local_cluster_nodes[m]
                                 /\ cluster_nodes'[m] = cluster_nodes[m]
        /\ broken' = broken \ {n}
        /\ loop' = NoLoop \/ (loop' = loop /\ loop[1] # n)
        /\ broken \subseteq Node
    BY <1>2, MembershipAssumption DEF Crash, TypeOK
  <2>2. ASSUME NEW m \in Node, loop' = <<m, "cluster">>
        PROVE  m # n /\ loop = <<m, "cluster">>
    BY <2>1, <2>2 DEF NoLoop
  <2> QED BY <2>1, <2>2 DEF LoopInv
<1>3. ASSUME NEW n \in Node, Receive(n, "HEART_BEAT") PROVE LoopInv'
  <2>1. ReceiveHeartBeat(n, Head(inbox[n])) /\ Head(inbox[n]).from \in Node
    BY <1>3, HeadTyped DEF Receive
  <2>2. CASE Head(inbox[n]).from \in Known(n)
    BY <1>1, <2>1, <2>2 DEF ReceiveHeartBeat
  <2>3. CASE Head(inbox[n]).from \notin Known(n)
    BY <2>1, <2>3, AddNewNodeLoops DEF ReceiveHeartBeat
  <2> QED BY <2>2, <2>3
<1>4. ASSUME NEW n \in Node, NEW list \in {"local", "cluster"}, EnterLoop(n, list)
      PROVE  LoopInv'
  <2>1. /\ UNCHANGED <<local_cluster_nodes, cluster_nodes, broken>>
        /\ loop' = <<n, list>>
        /\ list = "cluster" => cluster_nodes[n] # << >>
    BY <1>4 DEF EnterLoop
  <2>2. list = "cluster" => Len(cluster_nodes[n]) >= 1
    <3>1. cluster_nodes[n] \in Seq(Node)
      BY DEF TypeOK
    <3> QED BY <2>1, <3>1
  <2> QED BY <2>1, <2>2 DEF LoopInv
<1>5. CASE LeaveLoop
  BY <1>5 DEF LeaveLoop, LoopInv, NoLoop
<1>6. ASSUME NEW n \in Node,
             \/ Start(n) \/ PullLeaderData(n) \/ Receive(n, "SYNC_REQUEST")
             \/ \E m \in Node, type \in {1, 2} : SendHeartBeat(n, m, type)
      PROVE  LoopInv'
  BY <1>1, <1>6 DEF Start, PullLeaderData, Receive, SendHeartBeat
<1>7. CASE UNCHANGED vars
  BY <1>1, <1>7 DEF vars
<1> QED BY <1>2, <1>3, <1>4, <1>5, <1>6, <1>7 DEF Next

LEMMA LoopsTwo ==
    ASSUME TypeOK, MemberInv, LoopInv
    PROVE  DanglingNeedsTwo
<1> SUFFICES ASSUME NEW n \in broken
             PROVE  \/ Cardinality(Local(n) \cap Joiner) > 1
                    \/ Cardinality(Range(cluster_nodes[n]) \cap Joiner) > 1
  BY DEF DanglingNeedsTwo
<1>1. n \in Node
  BY MembershipAssumption DEF TypeOK
<1>2. \/ Len(local_cluster_nodes[n]) >= Len(Predefined) + 2
      \/ Len(cluster_nodes[n]) >= 2
  BY DEF LoopInv
<1> QED BY <1>1, <1>2, LocalNoShorter

LEMMA InitLoops == Init => LoopInv
BY DEF Init, LoopInv, NoLoop

\* If the predefined nodes leave room in their vector, as main's three do (it has
\* grown to four), no heartbeat breaks a loop of another thread before two joiners
\* have come into the same list (paxos_node.cpp, the push_back of add_new_node).
THEOREM OneJoinerIsSafe ==
    ASSUME ~FillsRoom(Len(Predefined))
    PROVE  Spec => []DanglingNeedsTwo
<1>1. TypeOK /\ MemberInv /\ LoopInv /\ [Next]_vars => LoopInv'
  BY NextLoops
<1> QED BY <1>1, InitTyped, NextTyped, InitOnce, NextOnce, InitLoops, LoopsTwo, PTL DEF Spec

\* Three elements do not fill a vector that doubles: main's cluster has room.
LEMMA ThreeLeaveRoom == ~FillsRoom(3)
BY DEF FillsRoom

=============================================================================
