------------------------------ MODULE KiviLeaf ------------------------------
(***************************************************************************)
(* A local cluster of KiviLeaf nodes with its data: the leadership that    *)
(* LocalCluster describes, and over the same message servers the writes,   *)
(* pushes, pull requests and answers, across changes of leader.  Processes *)
(* crash and boot again with the role and the leader of their command      *)
(* line.                                                                   *)
(*                                                                         *)
(* What LocalSync looks at more closely is coarser here: a push reads      *)
(* is_alive and sends in one step, and the message server of a node that   *)
(* boots listens at once.  A value is the number of the PUT that wrote it, *)
(* counted when a node lets the PUT in; 0 is no value.                     *)
(*                                                                         *)
(* Messages get lost: a connection may fail, also to a node that is up,    *)
(* and nobody looks at the result of a send; and a server reads a message  *)
(* once, into a buffer of 4096 bytes, so that a longer push or answer is   *)
(* cut off, does not parse and is dropped.                                 *)
(***************************************************************************)
EXTENDS Naturals, FiniteSets, Sequences, Functions

CONSTANTS
    Cluster, InitLeader, MaxMistakes, MaxCrashes,   \* as in LocalCluster
    Key,            \* keys the clients put
    PoolSize,       \* threads of a REST server
    Long,           \* PUTs of a value so long that a message with it is cut off
    MaxPairs,       \* pairs of other values an answer carries uncut
    MaxEvents       \* bound: PUTs let in and processes booted again in a
                    \* behaviour, together

ASSUME LeafAssumption ==
    /\ Cluster \in Seq(Nat)
    /\ InitLeader \in Range(Cluster)
    /\ MaxMistakes \in Nat
    /\ MaxCrashes \in Nat
    /\ PoolSize \in Nat
    /\ Long \subseteq Nat
    /\ MaxPairs \in Nat
    /\ MaxEvents \in Nat

VARIABLES
    up, leaf_role, current_leader_id, is_alive, suspects, pc, announcing,
    inbox, source, missed, mistakes, crashes,       \* as in LocalCluster
    kv,             \* kv[n][k]: the store of n
    writes,         \* PUTs in progress
    answering,      \* answering[n]: the answer n's server is about to send
    pulling,        \* pulling[n]: run of n has still to pull and to start REST
    contended,      \* history: keys with PUTs in progress at the same time
    acked,          \* history: acked[k], the last PUT of k answered OK
    lost,           \* history: lost[n], the keys of which a push that n, while
                    \* up, was to get was lost or is too long for it
    rebooted,       \* history: nodes that have booted again
    puts,           \* number of PUTs so far
    restarts        \* number of restarts so far

Failover == INSTANCE LocalCluster

Node == Failover!Node

data    == <<kv, writes, answering, pulling, contended, acked, lost, rebooted, puts,
             restarts>>
cluster == <<up, leaf_role, current_leader_id, is_alive, suspects, pc,
             announcing, inbox, source, missed, mistakes, crashes>>
vars    == <<cluster, data>>

Value == 0..MaxEvents
Store == [Key -> Value]
Empty == [k \in Key |-> 0]

\* An answer with these pairs fits into the buffer of its receiver.
Fits(store) ==
    /\ \A k \in Key : store[k] \notin Long
    /\ Cardinality({k \in Key : store[k] # 0}) <= MaxPairs

\* A PUT in progress: let in by a node, then stored, then pushed to the nodes
\* that push_to_followers has still to visit.
Write == [node : Node, key : Key, value : Value, stored : BOOLEAN,
          unsent : SUBSET Node]

Message ==
    [type : {"SELF_PROMOTION", "SYNC_REQUEST"}, from : Node]
      \cup [type : {"SYNC_RESPONSE"}, from : Node, data : Store]
      \cup [type : {"LOCAL_SYNC_PUSH"}, from : Node, key : Key, value : Value]

TypeOK ==
    /\ inbox \in [Node -> Seq(Message)]
    /\ kv \in [Node -> Store]
    /\ writes \in SUBSET Write
    /\ answering \in [Node -> SUBSET Store]
    /\ pulling \in [Node -> BOOLEAN]
    /\ contended \in SUBSET Key
    /\ acked \in Store
    /\ lost \in [Node -> SUBSET Key]
    /\ rebooted \in SUBSET Node
    /\ puts \in Value
    /\ restarts \in 0..MaxEvents

Init ==
    /\ Failover!Init
    /\ kv = [n \in Node |-> Empty]
    /\ writes = {}
    /\ answering = [n \in Node |-> {}]
    /\ pulling = [n \in Node |-> FALSE]
    /\ contended = {}
    /\ acked = Empty
    /\ lost = [n \in Node |-> {}]
    /\ rebooted = {}
    /\ puts = 0
    /\ restarts = 0

-----------------------------------------------------------------------------
(* PUT: the REST threads of a node                                         *)

\* Mutant: no check of the leader.
AdmitAnywhere(n, k) ==
    /\ up[n]
    /\ puts + restarts < MaxEvents
    /\ puts' = puts + 1
    /\ writes' = writes \cup {[node |-> n, key |-> k, value |-> puts',
                               stored |-> FALSE, unsent |-> {}]}
    /\ UNCHANGED <<cluster, kv, answering, pulling, contended, acked, lost, rebooted,
                   restarts>>

\* The check of the leader; a node that follows another redirects instead.
Admit(n, k) ==
    /\ Failover!Accepts(n)
    /\ ~pulling[n]
    /\ Cardinality({w \in writes : w.node = n}) < PoolSize
    /\ puts + restarts < MaxEvents
    /\ puts' = puts + 1
    /\ writes' = writes \cup {[node |-> n, key |-> k, value |-> puts',
                               stored |-> FALSE, unsent |-> {}]}
    /\ contended' = IF \E w \in writes : w.key = k THEN contended \cup {k} ELSE contended
    /\ UNCHANGED <<cluster, kv, answering, pulling, acked, lost, rebooted, restarts>>

Replace(w, x) == writes' = (writes \ {w}) \cup {x}

\* Mutant: a node pushes to itself too.
StorePairTellingItself(w) ==
    /\ ~w.stored
    /\ kv' = [kv EXCEPT ![w.node][w.key] = w.value]
    /\ Replace(w, [w EXCEPT !.stored = TRUE, !.unsent = Node])
    /\ UNCHANGED <<cluster, answering, pulling, contended, acked, lost, rebooted,
                   puts, restarts>>

\* kivi.put, whoever leads by now.
StorePair(w) ==
    /\ ~w.stored
    /\ kv' = [kv EXCEPT ![w.node][w.key] = w.value]
    /\ Replace(w, [w EXCEPT !.stored = TRUE, !.unsent = Node \ {w.node}])
    /\ UNCHANGED <<cluster, answering, pulling, contended, acked, lost, rebooted,
                   puts, restarts>>

\* push_to_followers, one follower: only those marked alive are sent to, and a
\* push that gets no connection is not sent again.
Push(w, f) ==
    /\ f \in w.unsent
    /\ LET sent  == is_alive[w.node][f] /\ up[f]
           losing == [lost EXCEPT ![f] = @ \cup {w.key}]
       IN  \/ /\ sent
              /\ inbox' = [inbox EXCEPT ![f] =
                     Append(@, [type |-> "LOCAL_SYNC_PUSH", from |-> w.node,
                                key |-> w.key, value |-> w.value])]
              /\ lost' = IF w.value \in Long THEN losing ELSE lost
           \/ /\ lost' = IF sent THEN losing ELSE lost
              /\ UNCHANGED inbox
    /\ Replace(w, [w EXCEPT !.unsent = @ \ {f}])
    /\ UNCHANGED <<up, leaf_role, current_leader_id, is_alive, suspects, pc,
                   announcing, source, missed, mistakes, crashes, kv, answering,
                   pulling, contended, acked, rebooted, puts, restarts>>

\* Mutant: the client is told OK, and nobody is pushed to any more.
RespondAtOnce(w) ==
    /\ w.stored
    /\ writes' = writes \ {w}
    /\ acked' = [acked EXCEPT ![w.key] = w.value]
    /\ UNCHANGED <<cluster, kv, answering, pulling, contended, lost, rebooted, puts,
                   restarts>>

\* The client is told OK.
Respond(w) ==
    /\ w.stored /\ w.unsent = {}
    /\ writes' = writes \ {w}
    /\ acked' = [acked EXCEPT ![w.key] = w.value]
    /\ UNCHANGED <<cluster, kv, answering, pulling, contended, lost, rebooted, puts,
                   restarts>>

-----------------------------------------------------------------------------
(* The message server of a node                                            *)

\* Its handlers run one at a time, and answering takes two steps.
Idle(n) == answering[n] = {}

ReceiveHeartBeat(n, m) ==
    /\ Idle(n)
    /\ Failover!ReceiveHeartBeat(n, m)
    /\ UNCHANGED data

ReceiveSelfPromotion(n) ==
    /\ Failover!ReceiveSelfPromotion(n)
    /\ UNCHANGED data

\* push_leader_data copies the store ...
TakeSnapshot(n) ==
    /\ Idle(n)
    /\ Failover!Handles(n, "SYNC_REQUEST")
    /\ answering' = [answering EXCEPT ![n] = {kv[n]}]
    /\ UNCHANGED <<cluster, kv, writes, pulling, contended, acked, lost, rebooted,
                   puts, restarts>>

\* Mutant: a request is answered and left in the queue.
SendSnapshotAgain(n) ==
    \E copy \in answering[n] :
        /\ LET replica == Head(inbox[n]).from
               answer  == [type |-> "SYNC_RESPONSE", from |-> n, data |-> copy]
           IN  Failover!Send(inbox, replica, answer, replica)
        /\ answering' = [answering EXCEPT ![n] = {}]
        /\ UNCHANGED <<up, leaf_role, current_leader_id, is_alive, suspects, pc,
                       announcing, source, mistakes, crashes, kv, writes, pulling,
                       contended, acked, lost, rebooted, puts, restarts>>

\* ... and sends the copy.
SendSnapshot(n) ==
    \E copy \in answering[n] :
        /\ LET replica == Head(inbox[n]).from
               answer  == [type |-> "SYNC_RESPONSE", from |-> n, data |-> copy]
           IN  Failover!Send(Failover!Handled(n), replica, answer, replica)
        /\ answering' = [answering EXCEPT ![n] = {}]
        /\ UNCHANGED <<up, leaf_role, current_leader_id, is_alive, suspects, pc,
                       announcing, source, mistakes, crashes, kv, writes, pulling,
                       contended, acked, lost, rebooted, puts, restarts>>

\* set_kv_batch with the pairs of the answer, unless it was cut off.
ReceiveSyncResponse(n) ==
    /\ \/ /\ Failover!ReceiveSyncResponse(n)
          /\ Fits(Head(inbox[n]).data)
          /\ kv' = [kv EXCEPT ![n] = [k \in Key |->
                       IF Head(inbox[n]).data[k] = 0 THEN @[k]
                       ELSE Head(inbox[n]).data[k]]]
       \/ /\ Failover!DropSyncResponse(n)
          /\ ~Fits(Head(inbox[n]).data)
          /\ UNCHANGED kv
    /\ UNCHANGED <<writes, answering, pulling, contended, acked, lost, rebooted, puts,
                   restarts>>

\* Applied whoever sent it and whoever n follows by now, unless it was cut off.
ReceivePush(n) ==
    /\ Failover!Handles(n, "LOCAL_SYNC_PUSH")
    /\ LET push == Head(inbox[n])
       IN  kv' = IF push.value \in Long THEN kv
                 ELSE [kv EXCEPT ![n][push.key] = push.value]
    /\ inbox' = Failover!Handled(n)
    /\ UNCHANGED <<up, leaf_role, current_leader_id, is_alive, suspects, pc,
                   announcing, source, missed, mistakes, crashes, writes, answering,
                   pulling, contended, acked, lost, rebooted, puts, restarts>>

-----------------------------------------------------------------------------
(* The detection thread, crashes and boots                                 *)

Detect(n) == Failover!Detect(n) /\ UNCHANGED data

\* The store is in memory: a crash loses it, and the PUTs in progress.
Crash(n) ==
    /\ Failover!Crash(n)
    /\ kv' = [kv EXCEPT ![n] = Empty]
    /\ writes' = {w \in writes : w.node # n}
    /\ answering' = [answering EXCEPT ![n] = {}]
    /\ pulling' = [pulling EXCEPT ![n] = FALSE]
    /\ UNCHANGED <<contended, acked, lost, rebooted, puts, restarts>>

\* main: role and leader come from the command line, every peer counts as
\* alive, the store is empty.
Start(n) ==
    /\ ~up[n]
    /\ puts + restarts < MaxEvents
    /\ restarts' = restarts + 1
    /\ rebooted' = rebooted \cup {n}
    /\ up' = [up EXCEPT ![n] = TRUE]
    /\ leaf_role' = [leaf_role EXCEPT ![n] = IF n = InitLeader THEN "LOCAL_LEADER"
                                             ELSE "PROMOTION_READY_REPLICA"]
    /\ current_leader_id' = [current_leader_id EXCEPT ![n] = InitLeader]
    /\ is_alive' = [is_alive EXCEPT ![n] = [m \in Node |-> TRUE]]
    /\ suspects' = [suspects EXCEPT ![n] = {}]
    /\ pc' = [pc EXCEPT ![n] = "scan"]
    /\ announcing' = [announcing EXCEPT ![n] = {}]
    /\ pulling' = [pulling EXCEPT ![n] = TRUE]
    /\ UNCHANGED <<inbox, source, missed, mistakes, crashes, kv, writes, answering,
                   contended, acked, lost, puts>>

\* run pulls from the leader it knows, unless that is the node itself, and then
\* starts the REST server.
PullLeaderData(n) ==
    /\ pulling[n]
    /\ pulling' = [pulling EXCEPT ![n] = FALSE]
    /\ IF current_leader_id[n] = n THEN UNCHANGED <<inbox, missed>>
       ELSE Failover!Send(inbox, current_leader_id[n],
                          [type |-> "SYNC_REQUEST", from |-> n], n)
    /\ UNCHANGED <<up, leaf_role, current_leader_id, is_alive, suspects, pc,
                   announcing, source, mistakes, crashes, kv, writes, answering,
                   contended, acked, lost, rebooted, puts, restarts>>

-----------------------------------------------------------------------------

Serve ==
    \/ \E n \in Node, k \in Key : Admit(n, k)
    \/ \E w \in writes :
          \/ StorePair(w)
          \/ \E f \in Node : Push(w, f)
          \/ Respond(w)

Receive(n) ==
    \/ ReceiveSelfPromotion(n)
    \/ TakeSnapshot(n)
    \/ SendSnapshot(n)
    \/ ReceiveSyncResponse(n)
    \/ ReceivePush(n)
    \/ \E m \in Node : ReceiveHeartBeat(n, m)

Next ==
    \/ Serve
    \/ \E n \in Node :
          \/ Receive(n)
          \/ Detect(n)
          \/ Crash(n)
          \/ Start(n)
          \/ PullLeaderData(n)

Spec == Init /\ [][Next]_vars

-----------------------------------------------------------------------------
(* Properties, all for an accurate detector: MaxMistakes is zero           *)

\* A PUT answered OK survives the leader: as long as one node has crashed and
\* none has booted again, every node that accepts writes holds the last
\* acknowledged value of each key or a newer one, except of keys that were put
\* twice at the same time and of keys of which a push to it got no connection
\* or was too long: the client is answered OK all the same.  Otherwise the
\* client was answered after the sends, and a replica promotes itself only when
\* it has handled all that the old leader sent.  (A second crash can promote a
\* node that a pull has taken back.)
AckedSurvives ==
    restarts = 0 /\ crashes <= 1 =>
        \A n \in Node, k \in Key :
            Failover!Accepts(n) /\ k \notin contended \cup lost[n]
                => kv[n][k] >= acked[k]

\* Between the check of the leader in /put and the end of the pushes the
\* leadership does not pass to another node, as long as nobody has booted again.
WritesStayWithLeader ==
    restarts = 0 => \A w \in writes : Failover!Accepts(w.node)

\* Pushes of old and new leaders, which carry no term and which followers do
\* not check, never take a key back: only an answer to a pull does.
OnlySnapshotsGoBack ==
    [][restarts' = 0 =>
         \A n \in Node, k \in Key :
            up'[n] /\ k \notin contended /\ kv'[n][k] < kv[n][k] =>
                Head(inbox[n]).type = "SYNC_RESPONSE"]_vars

\* In a cluster of three, as in main.cpp, two nodes accept writes at once, or a
\* redirect leads to a node that is up and does not accept them, only if one of
\* the two has booted again.  (Among four, one that has booted again may take a
\* leader that has not away from its followers one after the other.)
OnlyRebootsMislead ==
    /\ \A n, m \in Node :
          Failover!Accepts(n) /\ Failover!Accepts(m) /\ n # m => rebooted \cap {n, m} # {}
    /\ \A n \in Node :
          LET leader == current_leader_id[n]
          IN  up[n] /\ up[leader] /\ ~Failover!Accepts(leader)
                  => rebooted \cap {n, leader} # {}

\* A key that was acknowledged does not vanish in a crash, also that of the
\* leader, whatever the process does when it boots again, if one replica at
\* least has lost no push of it: a node that is up has a value of it or will
\* take one from its inbox.
AckedKeyOutlivesACrash ==
    crashes <= 1 =>
        \A k \in Key :
            acked[k] # 0 /\ (\E n \in Node \ {InitLeader} : k \notin lost[n]) =>
                \E n \in Node :
                    /\ up[n]
                    /\ \/ kv[n][k] # 0
                       \/ \E msg \in Range(inbox[n]) :
                             /\ msg.type = "LOCAL_SYNC_PUSH" /\ msg.key = k
                             /\ msg.value \notin Long

\* A queue seen without the data: the messages of LocalCluster in their order.
Bare(queue) ==
    LET bare[i \in 0..Len(queue)] ==
          IF i = 0 THEN << >>
          ELSE IF queue[i].type = "LOCAL_SYNC_PUSH" THEN bare[i - 1]
          ELSE Append(bare[i - 1], [type |-> queue[i].type, from |-> queue[i].from])
    IN  bare[Len(queue)]

Leadership == INSTANCE LocalCluster WITH inbox <- [n \in Node |-> Bare(inbox[n])]

\* Until somebody boots again, every step with data is a step of LocalCluster or
\* none: pushes in the queues, the pause in the middle of an answer and PUTs in
\* progress do not interfere with the election.
ImplementsLocalCluster ==
    /\ Leadership!Init
    /\ [][restarts' = 0 => [Leadership!Next]_(Leadership!vars)]_vars

=============================================================================
