----------------------------- MODULE Membership -----------------------------
(***************************************************************************)
(* Who a PaxosNode knows.  main registers the predefined nodes in          *)
(* local_cluster_nodes; a node that is none of them may be started all the *)
(* same (a joiner), and makes itself known by its heartbeats.              *)
(*                                                                         *)
(* The heartbeat for the local cluster does not set cluster_type           *)
(* (iniate_heartbeat writes last_seen twice instead), so what is sent is   *)
(* whatever the memory held: 1, or something else.  It decides into which  *)
(* of its two lists the receiver puts a stranger.                          *)
(*                                                                         *)
(* The lists are vectors, to which the message server appends while other  *)
(* threads loop over them.  An append that moves the elements leaves such  *)
(* a loop with dangling iterators, and what the node does from there on is *)
(* undefined; here it stops (broken).  Liveness flags and times are the    *)
(* subject of HeartBeat.                                                   *)
(***************************************************************************)
EXTENDS Naturals, FiniteSets, Sequences, SequencesExt

CONSTANTS
    Predefined,     \* main's cluster, a sequence of nodes; the first one leads
    Joiner,         \* other nodes
    Running,        \* nodes that are started
    MaxPending,     \* bound: messages on their way at a time, and
                    \* at nodes that run
    MaxCrashes      \* bound: crashes in a behaviour

Node   == Range(Predefined) \cup Joiner
Leader == Predefined[1]

ASSUME MembershipAssumption ==
    /\ Predefined \in Seq(Range(Predefined)) \ {<< >>}
    /\ IsInjective(Predefined)
    /\ Joiner \cap Range(Predefined) = {}
    /\ Running \subseteq Node
    /\ MaxPending \in Nat \ {0}
    /\ MaxCrashes \in Nat

VARIABLES
    up,                     \* processes that run
    local_cluster_nodes,    \* per node, the ids in its list
    cluster_nodes,          \* per node, the ids in its list
    inbox,                  \* inbox[n]: messages n has still to handle, in order
    loop,                   \* a loop that is followed: <<node, list>>, or none
    broken,                 \* nodes with a dangling iterator
    pulling,                \* nodes that have booted and have still to pull
    answered,               \* nodes sent the leader's data since they booted
    crashes                 \* number of crashes so far

vars == <<up, local_cluster_nodes, cluster_nodes, inbox, loop, broken, pulling,
          answered, crashes>>

HeartBeat == [type : {"HEART_BEAT"}, from : Node, cluster_type : {1, 2}]
Request   == [type : {"SYNC_REQUEST"}, from : Node]
NoLoop    == << >>

Local(n) == Range(local_cluster_nodes[n])
Known(n) == Local(n) \cup Range(cluster_nodes[n])
Runs(n)  == n \in up \ broken

TypeOK ==
    /\ up \in SUBSET Running
    /\ local_cluster_nodes \in [Node -> Seq(Node)]
    /\ cluster_nodes \in [Node -> Seq(Node)]
    /\ inbox \in [Node -> Seq(HeartBeat \cup Request)]
    /\ loop \in {NoLoop} \cup (Node \X {"local", "cluster"})
    /\ broken \in SUBSET up
    /\ pulling \in SUBSET up
    /\ answered \in SUBSET up
    /\ crashes \in 0..MaxCrashes

Init ==
    /\ up = {}
    /\ local_cluster_nodes = [n \in Node |-> Predefined]    \* register_cluster_nodes
    /\ cluster_nodes = [n \in Node |-> << >>]
    /\ inbox = [n \in Node |-> << >>]
    /\ loop = NoLoop
    /\ broken = {}
    /\ pulling = {}
    /\ answered = {}
    /\ crashes = 0

-----------------------------------------------------------------------------
(* Loops                                                                   *)

\* A thread of n loops over a list: heartbeat rounds, failure detection, pushes,
\* the election.
EnterLoop(n, list) ==
    /\ Runs(n) /\ loop = NoLoop
    /\ list = "cluster" => cluster_nodes[n] # << >>
    /\ loop' = <<n, list>>
    /\ UNCHANGED <<up, local_cluster_nodes, cluster_nodes, inbox, broken, pulling,
                   answered, crashes>>

LeaveLoop ==
    /\ loop # NoLoop
    /\ loop' = NoLoop
    /\ UNCHANGED <<up, local_cluster_nodes, cluster_nodes, inbox, broken, pulling,
                   answered, crashes>>

\* Mutant: room for what is there and no more.
FillsRoomTight(len) == TRUE

\* std::vector doubles its room when it is full.
FillsRoom(len) == len = 0 \/ \E k \in 0..len : len = 2^k

\* push_back while n has a loop over the list.
PushBack(n, list, len) ==
    IF loop = <<n, list>> /\ FillsRoom(len)
      THEN broken' = broken \cup {n} /\ loop' = NoLoop
      ELSE UNCHANGED <<broken, loop>>

-----------------------------------------------------------------------------
(* Messages                                                                *)

Pending == {p \in Node \X (1..MaxPending) : Runs(p[1]) /\ p[2] <= Len(inbox[p[1]])}

Post(m, to) ==
    /\ Runs(to)
    /\ Cardinality(Pending) < MaxPending
    /\ inbox' = [inbox EXCEPT ![to] = Append(@, m)]

\* broadcast_heart_beat, to one node of a list.
SendHeartBeat(n, m, type) ==
    /\ Runs(n) /\ n # m
    /\ m \in Local(n) \/ (m \in Range(cluster_nodes[n]) /\ type = 1)
    /\ Post([type |-> "HEART_BEAT", from |-> n, cluster_type |-> type], m)
    /\ UNCHANGED <<up, local_cluster_nodes, cluster_nodes, loop, broken, pulling,
                   answered, crashes>>

\* add_new_node
AddNewNode(n, j, type) ==
    IF type = 1
      THEN /\ cluster_nodes' = [cluster_nodes EXCEPT ![n] = Append(@, j)]
           /\ PushBack(n, "cluster", Len(cluster_nodes[n]))
           /\ UNCHANGED local_cluster_nodes
      ELSE /\ local_cluster_nodes' = [local_cluster_nodes EXCEPT ![n] = Append(@, j)]
           /\ PushBack(n, "local", Len(local_cluster_nodes[n]))
           /\ UNCHANGED cluster_nodes

\* Mutant: a heartbeat is looked up in the list of its type.
ReceiveHeartBeatByType(n, h) ==
    IF h.from \in (IF h.cluster_type = 1 THEN Range(cluster_nodes[n]) ELSE Local(n))
      THEN UNCHANGED <<local_cluster_nodes, cluster_nodes, loop, broken>>
      ELSE AddNewNode(n, h.from, h.cluster_type)

\* Mutant: strangers are ignored.
ReceiveHeartBeatKnown(n, h) == UNCHANGED <<local_cluster_nodes, cluster_nodes, loop, broken>>

\* update_last_seen finds the sender in a list, or it is a new node.
ReceiveHeartBeat(n, h) ==
    IF h.from \in Known(n)
      THEN UNCHANGED <<local_cluster_nodes, cluster_nodes, loop, broken>>
      ELSE AddNewNode(n, h.from, h.cluster_type)

\* run: the pull at boot, once; it may find nobody, or overtake the heartbeats.
PullLeaderData(n) ==
    /\ Runs(n) /\ n \in pulling
    /\ pulling' = pulling \ {n}
    /\ IF Runs(Leader)
         THEN Post([type |-> "SYNC_REQUEST", from |-> n], Leader)
         ELSE UNCHANGED inbox
    /\ UNCHANGED <<up, local_cluster_nodes, cluster_nodes, loop, broken, answered, crashes>>

\* Mutant: the requester is looked up in the other list.
ReceiveSyncRequestGlobal(n, r) ==
    answered' = answered \cup ({r.from} \cap Range(cluster_nodes[n]) \cap up)

\* LOCAL_SYNC_REQUEST: answered if the requester is found among the local nodes.
ReceiveSyncRequest(n, r) == answered' = answered \cup ({r.from} \cap Local(n) \cap up)

\* The message server of n handles its next message.
Receive(n, type) ==
    /\ Runs(n) /\ inbox[n] # << >>
    /\ Head(inbox[n]).type = type
    /\ inbox' = [inbox EXCEPT ![n] = Tail(@)]
    /\ CASE type = "HEART_BEAT" ->
                ReceiveHeartBeat(n, Head(inbox[n])) /\ UNCHANGED answered
         [] type = "SYNC_REQUEST" ->
                /\ ReceiveSyncRequest(n, Head(inbox[n]))
                /\ UNCHANGED <<local_cluster_nodes, cluster_nodes, loop, broken>>
    /\ UNCHANGED <<up, pulling, crashes>>

-----------------------------------------------------------------------------
(* Processes                                                               *)

Start(n) ==
    /\ n \in Running \ up
    /\ up' = up \cup {n}
    /\ pulling' = IF n = Leader THEN pulling ELSE pulling \cup {n}
    /\ UNCHANGED <<local_cluster_nodes, cluster_nodes, inbox, loop, broken, answered,
                   crashes>>

\* Whoever n has met since it booted is forgotten.
Crash(n) ==
    /\ n \in up /\ crashes < MaxCrashes
    /\ crashes' = crashes + 1
    /\ up' = up \ {n}
    /\ local_cluster_nodes' = [local_cluster_nodes EXCEPT ![n] = Predefined]
    /\ cluster_nodes' = [cluster_nodes EXCEPT ![n] = << >>]
    /\ inbox' = [inbox EXCEPT ![n] = << >>]
    /\ loop' = IF loop # NoLoop /\ loop[1] = n THEN NoLoop ELSE loop
    /\ broken' = broken \ {n}
    /\ pulling' = pulling \ {n}
    /\ answered' = answered \ {n}

Next ==
    \/ \E n \in Node :
        \/ Start(n) \/ Crash(n) \/ PullLeaderData(n)
        \/ Receive(n, "HEART_BEAT") \/ Receive(n, "SYNC_REQUEST")
        \/ \E list \in {"local", "cluster"} : EnterLoop(n, list)
        \/ \E m \in Node, type \in {1, 2} : SendHeartBeat(n, m, type)
    \/ LeaveLoop

Spec == Init /\ [][Next]_vars

\* A joiner's rounds send to every node in its list: strongly fair, since the bound
\* on messages now and then disables what the code can do at any time.  Message
\* servers go on.  More is fair in the code, and not needed.
Fairness ==
    /\ \A j \in Joiner, n \in Range(Predefined) \cap Running :
        SF_vars(\E type \in {1, 2} : SendHeartBeat(j, n, type))
    /\ \A n \in Running :
        WF_vars(Receive(n, "HEART_BEAT") \/ Receive(n, "SYNC_REQUEST"))

FairSpec == Spec /\ Fairness

-----------------------------------------------------------------------------
(* Properties                                                              *)

\* A node is known once, in one of the two lists: otherwise one copy would be
\* renewed by heartbeats and the other be given up.
KnownOnce ==
    \A n \in Node : Cardinality(Known(n)) = Len(local_cluster_nodes[n]) + Len(cluster_nodes[n])

\* The three nodes of main leave room for one more: one joiner never breaks a loop of
\* another thread.  It takes a second one in the same list.
DanglingNeedsTwo ==
    \A n \in broken :
        \/ Cardinality(Local(n) \cap Joiner) > 1
        \/ Cardinality(Range(cluster_nodes[n]) \cap Joiner) > 1

\* paxos_node.hpp:93, "add new node to the cluster if new heart beat received": a
\* joiner that keeps running becomes known to every predefined node that does, also
\* to one that has forgotten it.
EventuallyKnown ==
    \A j \in Joiner, n \in Range(Predefined) :
        []<>(Runs(j) /\ Runs(n) => j \in Known(n))

\* A pull whose sender the leader knows by then, as a local node, gets an answer.
\* (One that overtakes the first heartbeat, or whose sender was put into the other
\* list, does not, and there is no second one.)
MembersAnswered ==
    \A j \in Joiner :
        LET asks == [type |-> "SYNC_REQUEST", from |-> j] \in Range(inbox[Leader])
        IN  (asks /\ j \in Local(Leader)) ~> (j \in answered \/ ~Runs(Leader) \/ ~Runs(j))

=============================================================================
