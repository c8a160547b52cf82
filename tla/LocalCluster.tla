---------------------------- MODULE LocalCluster ----------------------------
(***************************************************************************)
(* Leadership in a local cluster of KiviLeaf nodes: the failure detection  *)
(* thread with the callback it makes into try_self_promote, and the        *)
(* message server with its handlers for promotion notices, pull requests   *)
(* and pulled data.  The two threads of a node share current_leader_id and *)
(* the is_alive flags without a lock, so try_self_promote is one step per  *)
(* access.                                                                 *)
(*                                                                         *)
(* Time is abstracted: when the detector reads the clock it finds some     *)
(* peers silent for too long.  Such a peer is down and all that it sent    *)
(* has been handled, which is what HeartBeat shows of the timing, or else  *)
(* suspecting it is a mistake, and mistakes are counted.  Processes stop   *)
(* and do not come back.                                                   *)
(***************************************************************************)
EXTENDS Naturals, FiniteSets, Sequences, Functions

CONSTANTS
    Cluster,        \* node ids in the order of register_cluster_nodes
    InitLeader,     \* the leader named on the command line and in main
    MaxMistakes,    \* bound: running peers found silent in a behaviour
    MaxCrashes      \* bound: crashes in a behaviour

Node == {Cluster[i] : i \in DOMAIN Cluster}

ASSUME ClusterAssumption ==
    /\ Cluster \in Seq(Nat)
    /\ InitLeader \in Node
    /\ MaxMistakes \in Nat
    /\ MaxCrashes \in Nat

VARIABLES
    up,                 \* up[n]: the process of node n runs
    leaf_role,          \* leaf_role[n]
    current_leader_id,  \* current_leader_id[n]
    is_alive,           \* is_alive[n][m]: descriptor of m at n
    suspects,           \* suspects[n]: peers marked alive whose last_seen is
                        \* too old for the time the detector of n read last,
                        \* and which its scan has still to reach
    pc,                 \* pc[n]: where n's detector thread is
    announcing,         \* announcing[n]: followers the broadcast has yet to visit
    inbox,              \* inbox[n]: messages waiting for n's message server
    source,             \* source[n]: the node whose data n has pulled last
    missed,             \* nodes that a notice or an answer to them, or a pull
                        \* of theirs, was lost though the receiver was up
    mistakes,           \* number of running peers found silent so far
    crashes             \* number of crashes so far

vars == <<up, leaf_role, current_leader_id, is_alive, suspects, pc,
          announcing, inbox, source, missed, mistakes, crashes>>

detector == <<leaf_role, is_alive, suspects, pc, announcing>>

KiviLeafRole == {"LOCAL_LEADER", "PROMOTION_READY_REPLICA"}

Message ==
    [type : {"SELF_PROMOTION", "SYNC_REQUEST", "SYNC_RESPONSE"}, from : Node]

\* "check", "elect", "promote" and "announce" are the steps of
\* try_self_promote, which runs inside the scan; "scan" with no suspects left
\* is the sleep between two scans.
PC == {"scan", "check", "elect", "promote", "announce"}

TypeOK ==
    /\ up \in [Node -> BOOLEAN]
    /\ leaf_role \in [Node -> KiviLeafRole]
    /\ current_leader_id \in [Node -> Node]
    /\ is_alive \in [Node -> [Node -> BOOLEAN]]
    /\ suspects \in [Node -> SUBSET Node]
    /\ pc \in [Node -> PC]
    /\ announcing \in [Node -> SUBSET Node]
    /\ inbox \in [Node -> Seq(Message)]
    /\ source \in [Node -> Node]
    /\ missed \subseteq Node
    /\ mistakes \in 0..MaxMistakes
    /\ crashes \in 0..MaxCrashes

\* The cluster as the command lines of main set it up, booted and synced.
Init ==
    /\ up = [n \in Node |-> TRUE]
    /\ leaf_role = [n \in Node |-> IF n = InitLeader THEN "LOCAL_LEADER"
                                   ELSE "PROMOTION_READY_REPLICA"]
    /\ current_leader_id = [n \in Node |-> InitLeader]
    /\ is_alive = [n \in Node |-> [m \in Node |-> TRUE]]
    /\ suspects = [n \in Node |-> {}]
    /\ pc = [n \in Node |-> "scan"]
    /\ announcing = [n \in Node |-> {}]
    /\ inbox = [n \in Node |-> << >>]
    /\ source = [n \in Node |-> InitLeader]
    /\ missed = {}
    /\ mistakes = 0
    /\ crashes = 0

\* send_message: a connection to a process that is down fails; one to a process
\* that is up may fail too.  No caller looks at the result, so the message is
\* lost, and follower is the node that misses something by it.
Send(queues, to, msg, follower) ==
    \/ /\ inbox' = queues
       /\ missed' = IF up[to] THEN missed \cup {follower} ELSE missed
    \/ /\ up[to]
       /\ inbox' = [queues EXCEPT ![to] = Append(@, msg)]
       /\ UNCHANGED missed

\* A message of n waits for m's message server; nothing of n waits for it.
Sent(n, m, type) == [type |-> type, from |-> n] \in Range(inbox[m])
Drained(n, m)    == \A msg \in Range(inbox[m]) : msg.from # n

-----------------------------------------------------------------------------
(* The failure detection thread                                            *)

\* The peers marked alive that are down, with nothing of theirs unhandled.
Gone(n) == {m \in Node \ {n} : is_alive[n][m] /\ ~up[m] /\ Drained(m, n)}

\* The thread wakes up, reads the clock and finds some peers silent that are
\* marked alive.  A scan that has nobody to mark dead changes nothing and is
\* left out.
WakeUp(n, peers) ==
    /\ up[n]
    /\ pc[n] = "scan"
    /\ suspects[n] = {}
    /\ peers # {}
    /\ suspects' = [suspects EXCEPT ![n] = peers]
    /\ mistakes' = mistakes + Cardinality(peers \ Gone(n))
    /\ mistakes' <= MaxMistakes
    /\ UNCHANGED <<up, leaf_role, current_leader_id, is_alive, pc, announcing,
                   inbox, source, missed, crashes>>

\* The first of some nodes in the order of local_cluster_nodes.
First(nodes) ==
    Cluster[CHOOSE i \in DOMAIN Cluster :
                /\ Cluster[i] \in nodes
                /\ \A j \in 1..(i - 1) : Cluster[j] \notin nodes]

\* Mutant: the callback is never made.
ExamineQuietly(n) ==
    /\ up[n]
    /\ pc[n] = "scan"
    /\ suspects[n] # {}
    /\ LET m == First(suspects[n])
       IN  /\ is_alive' = [is_alive EXCEPT ![n][m] = FALSE]
           /\ suspects' = [suspects EXCEPT ![n] = @ \ {m}]
    /\ UNCHANGED <<up, leaf_role, current_leader_id, pc, announcing, inbox,
                   source, missed, mistakes, crashes>>

\* The scan reaches its next suspect and marks it dead.  local_cluster_leader
\* is set once, by main, so only the death of the first leader calls
\* on_leader_failure_detected, and the scan goes on when that returns.
Examine(n) ==
    /\ up[n]
    /\ pc[n] = "scan"
    /\ suspects[n] # {}
    /\ LET m == First(suspects[n])
       IN  /\ is_alive' = [is_alive EXCEPT ![n][m] = FALSE]
           /\ suspects' = [suspects EXCEPT ![n] = @ \ {m}]
           /\ pc' = [pc EXCEPT ![n] = IF m = InitLeader THEN "check" ELSE "scan"]
    /\ UNCHANGED <<up, leaf_role, current_leader_id, announcing, inbox, source,
                   missed, mistakes, crashes>>

-----------------------------------------------------------------------------
(* try_self_promote and broadcast_self_promotion                           *)

\* Go on to the next step when a condition holds, else return to the scan.
GoOn(n, condition, step) ==
    pc' = [pc EXCEPT ![n] = IF condition THEN step ELSE "scan"]

\* Mutant: the leader found dead is forgotten at once (0 is nobody's id).
CheckLeaderForgets(n) ==
    /\ up[n]
    /\ pc[n] = "check"
    /\ GoOn(n, /\ leaf_role[n] = "PROMOTION_READY_REPLICA"
               /\ ~is_alive[n][current_leader_id[n]],
            "elect")
    /\ current_leader_id' = [current_leader_id EXCEPT ![n] = 0]
    /\ UNCHANGED <<up, leaf_role, is_alive, suspects, announcing, inbox, source,
                   missed, mistakes, crashes>>

\* Not a replica, or the leader is marked alive: nothing to do.
CheckLeader(n) ==
    /\ up[n]
    /\ pc[n] = "check"
    /\ GoOn(n, /\ leaf_role[n] = "PROMOTION_READY_REPLICA"
               /\ ~is_alive[n][current_leader_id[n]],
            "elect")
    /\ UNCHANGED <<up, leaf_role, current_leader_id, is_alive, suspects,
                   announcing, inbox, source, missed, mistakes, crashes>>

\* Mutant: lower than some node that is alive, not than every one.
IsLowerThanSome(n) == \E m \in Node : is_alive[n][m] /\ n <= m

\* No node that is marked alive has a lower id.
IsLowest(n) == \A m \in Node : is_alive[n][m] => n <= m

\* Mutant: no election.
ElectAnyone(n) ==
    /\ up[n]
    /\ pc[n] = "elect"
    /\ GoOn(n, TRUE, "promote")
    /\ UNCHANGED <<up, leaf_role, current_leader_id, is_alive, suspects,
                   announcing, inbox, source, missed, mistakes, crashes>>

\* The lowest id that is marked alive goes on; every other node holds off.
Elect(n) ==
    /\ up[n]
    /\ pc[n] = "elect"
    /\ GoOn(n, IsLowest(n), "promote")
    /\ UNCHANGED <<up, leaf_role, current_leader_id, is_alive, suspects,
                   announcing, inbox, source, missed, mistakes, crashes>>

\* Mutants: only the role changes; only the leader id; the node tells itself too.
PromoteRoleOnly(n) ==
    /\ up[n]
    /\ pc[n] = "promote"
    /\ leaf_role' = [leaf_role EXCEPT ![n] = "LOCAL_LEADER"]
    /\ announcing' = [announcing EXCEPT ![n] = Node \ {n}]
    /\ pc' = [pc EXCEPT ![n] = "announce"]
    /\ UNCHANGED <<up, current_leader_id, is_alive, suspects, inbox, source,
                   missed, mistakes, crashes>>

PromoteIdOnly(n) ==
    /\ up[n]
    /\ pc[n] = "promote"
    /\ current_leader_id' = [current_leader_id EXCEPT ![n] = n]
    /\ announcing' = [announcing EXCEPT ![n] = Node \ {n}]
    /\ pc' = [pc EXCEPT ![n] = "announce"]
    /\ UNCHANGED <<up, leaf_role, is_alive, suspects, inbox, source, missed,
                   mistakes, crashes>>

PromoteTellingItself(n) ==
    /\ up[n]
    /\ pc[n] = "promote"
    /\ current_leader_id' = [current_leader_id EXCEPT ![n] = n]
    /\ leaf_role' = [leaf_role EXCEPT ![n] = "LOCAL_LEADER"]
    /\ announcing' = [announcing EXCEPT ![n] = Node]
    /\ pc' = [pc EXCEPT ![n] = "announce"]
    /\ UNCHANGED <<up, is_alive, suspects, inbox, source, missed, mistakes,
                   crashes>>

Promote(n) ==
    /\ up[n]
    /\ pc[n] = "promote"
    /\ current_leader_id' = [current_leader_id EXCEPT ![n] = n]
    /\ leaf_role' = [leaf_role EXCEPT ![n] = "LOCAL_LEADER"]
    /\ announcing' = [announcing EXCEPT ![n] = Node \ {n}]
    /\ pc' = [pc EXCEPT ![n] = "announce"]
    /\ UNCHANGED <<up, is_alive, suspects, inbox, source, missed, mistakes,
                   crashes>>

\* One follower of the broadcast; only those marked alive are told.
Announce(n, m) ==
    /\ up[n]
    /\ pc[n] = "announce"
    /\ m \in announcing[n]
    /\ IF is_alive[n][m]
       THEN Send(inbox, m, [type |-> "SELF_PROMOTION", from |-> n], m)
       ELSE UNCHANGED <<inbox, missed>>
    /\ announcing' = [announcing EXCEPT ![n] = @ \ {m}]
    /\ UNCHANGED <<up, leaf_role, current_leader_id, is_alive, suspects, pc,
                   source, mistakes, crashes>>

\* All sends are done: back to the scan.
Announced(n) ==
    /\ up[n]
    /\ pc[n] = "announce"
    /\ announcing[n] = {}
    /\ pc' = [pc EXCEPT ![n] = "scan"]
    /\ UNCHANGED <<up, leaf_role, current_leader_id, is_alive, suspects,
                   announcing, inbox, source, missed, mistakes, crashes>>

-----------------------------------------------------------------------------
(* The message server                                                      *)

\* A heartbeat of m reaches n: update_last_seen.
ReceiveHeartBeat(n, m) ==
    /\ up[n] /\ up[m]
    /\ m # n
    /\ is_alive' = [is_alive EXCEPT ![n][m] = TRUE]
    /\ suspects' = [suspects EXCEPT ![n] = @ \ {m}]
    /\ UNCHANGED <<up, leaf_role, current_leader_id, pc, announcing, inbox,
                   source, missed, mistakes, crashes>>

Handles(n, type) ==
    /\ up[n]
    /\ inbox[n] # << >>
    /\ Head(inbox[n]).type = type

Handled(n) == [inbox EXCEPT ![n] = Tail(@)]

\* Mutants: a notice is dropped while the old leader is marked alive; a notice
\* is followed and no data is pulled.
ReceiveSelfPromotionIfDead(n) ==
    /\ Handles(n, "SELF_PROMOTION")
    /\ LET leader == Head(inbox[n]).from
       IN  IF is_alive[n][current_leader_id[n]]
           THEN inbox' = Handled(n) /\ UNCHANGED <<current_leader_id, missed>>
           ELSE /\ current_leader_id' = [current_leader_id EXCEPT ![n] = leader]
                /\ Send(Handled(n), leader,
                        [type |-> "SYNC_REQUEST", from |-> n], n)
    /\ UNCHANGED <<up, source, mistakes, crashes, detector>>

ReceiveSelfPromotionNoPull(n) ==
    /\ Handles(n, "SELF_PROMOTION")
    /\ current_leader_id' = [current_leader_id EXCEPT ![n] = Head(inbox[n]).from]
    /\ inbox' = Handled(n)
    /\ UNCHANGED <<up, source, missed, mistakes, crashes, detector>>

\* The sender of the notice is the leader from now on; pull its data.
ReceiveSelfPromotion(n) ==
    /\ Handles(n, "SELF_PROMOTION")
    /\ LET leader == Head(inbox[n]).from
       IN  /\ current_leader_id' = [current_leader_id EXCEPT ![n] = leader]
           /\ Send(Handled(n), leader,
                   [type |-> "SYNC_REQUEST", from |-> n], n)
    /\ UNCHANGED <<up, source, mistakes, crashes, detector>>

\* push_leader_data: any node answers, leader or not.
ReceiveSyncRequest(n) ==
    /\ Handles(n, "SYNC_REQUEST")
    /\ LET replica == Head(inbox[n]).from
       IN  Send(Handled(n), replica,
                [type |-> "SYNC_RESPONSE", from |-> n], replica)
    /\ UNCHANGED <<up, current_leader_id, source, mistakes, crashes, detector>>

\* set_kv_batch: the data of the sender is merged.
ReceiveSyncResponse(n) ==
    /\ Handles(n, "SYNC_RESPONSE")
    /\ source' = [source EXCEPT ![n] = Head(inbox[n]).from]
    /\ inbox' = Handled(n)
    /\ UNCHANGED <<up, current_leader_id, missed, mistakes, crashes, detector>>

\* The server reads a message once, into a buffer of 4096 bytes: an answer with
\* more data is cut off, does not parse and reaches no handler.
DropSyncResponse(n) ==
    /\ Handles(n, "SYNC_RESPONSE")
    /\ inbox' = Handled(n)
    /\ missed' = missed \cup {n}
    /\ UNCHANGED <<up, current_leader_id, source, mistakes, crashes, detector>>

-----------------------------------------------------------------------------

\* The process dies, with the messages it has not handled; what it sent stays.
Crash(n) ==
    /\ up[n]
    /\ crashes < MaxCrashes
    /\ up' = [up EXCEPT ![n] = FALSE]
    /\ inbox' = [inbox EXCEPT ![n] = << >>]
    /\ crashes' = crashes + 1
    /\ UNCHANGED <<current_leader_id, source, missed, mistakes, detector>>

\* What a detector that has woken up goes on to do.
Proceed(n) ==
    \/ Examine(n)
    \/ CheckLeader(n)
    \/ Elect(n)
    \/ Promote(n)
    \/ \E m \in Node : Announce(n, m)
    \/ Announced(n)

Detect(n) ==
    \/ \E peers \in SUBSET {m \in Node \ {n} : is_alive[n][m]} : WakeUp(n, peers)
    \/ Proceed(n)

Receive(n) ==
    \/ ReceiveSelfPromotion(n)
    \/ ReceiveSyncRequest(n)
    \/ ReceiveSyncResponse(n)
    \/ DropSyncResponse(n)

Next ==
    \E n \in Node :
        \/ Detect(n)
        \/ Receive(n)
        \/ \E m \in Node : ReceiveHeartBeat(n, m)
        \/ Crash(n)

Spec == Init /\ [][Next]_vars

\* Both threads of every node run, and a detector that goes on waking up finds
\* every silent peer in the end: its timeout is finite.  Nobody has to make a
\* mistake.
Fairness ==
    \A n \in Node :
        /\ WF_vars(Proceed(n))
        /\ WF_vars(Receive(n))
        /\ SF_vars(WakeUp(n, Gone(n)))

FairSpec == Spec /\ Fairness

-----------------------------------------------------------------------------
(* Properties                                                              *)

\* A node accepts writes when it believes itself the leader (/put).
Accepts(n) == up[n] /\ current_leader_id[n] = n

\* As long as the detectors made no mistake two nodes never accept writes at
\* once, however the detectors of the replicas, the crashes and the notices
\* interleave: the election (kivileaf.cpp, try_self_promote) has each node
\* decide alone.
SingleLeader ==
    mistakes = 0 => \A n, m \in Node : Accepts(n) /\ Accepts(m) => n = m

\* Until then, a /put that a node redirects goes to a node that accepts it or to
\* one that is down, never round in circles between nodes that are up.
RedirectTargetAccepts ==
    mistakes = 0 => \A n \in Node :
        up[n] /\ up[current_leader_id[n]] => Accepts(current_leader_id[n])

\* Until then, once a new leader has told its followers, every node that is up
\* and lost no message follows it or has the notice waiting: the broadcast's
\* filter on is_alive leaves out nobody, and no older notice arrives after it.
NoticeReachesEveryone ==
    mistakes = 0 => \A n \in Node :
        Accepts(n) /\ n # InitLeader =>
            \A m \in Node \ ({n} \cup announcing[n] \cup missed) :
                up[m] => \/ current_leader_id[m] = n
                         \/ Sent(n, m, "SELF_PROMOTION")

\* Until then, a node only ever takes over from a leader that is down at that
\* moment, also when the leader it knew changed between the check and the
\* promotion.
TakesOverFromTheDead ==
    [][mistakes' = 0 => \A n \in Node :
          ~Accepts(n) /\ Accepts(n)' => ~up[current_leader_id[n]]]_vars

\* Whatever the detector suspects, nobody follows a node, or merges the data
\* of a node, that has not taken the leadership at some time.
FollowsOnlyLeaders ==
    \A n \in Node :
        /\ leaf_role[current_leader_id[n]] = "LOCAL_LEADER"
        /\ leaf_role[source[n]] = "LOCAL_LEADER"

Leads(k) ==
    /\ Accepts(k)
    /\ \A n \in Node : up[n] => current_leader_id[n] = k \/ n \in missed

\* When the first leader goes down, nobody else does and nobody is suspected by
\* mistake, some node in the end leads all that are up, except for those that
\* lost a message.
FailoverCompletes ==
    ~up[InitLeader] ~> crashes > 1 \/ mistakes > 0 \/ \E k \in Node : Leads(k)

\* And every follower then ends up with the data of the leader it follows,
\* unless the notice to it or its pull was lost or the answer was lost or cut
\* off: nothing is asked for again.
FollowersResync ==
    \A n \in Node :
        ~up[InitLeader] ~> \/ ~up[n] \/ crashes > 1 \/ mistakes > 0
                           \/ Accepts(n)
                           \/ n \in missed
                           \/ up[current_leader_id[n]] /\ source[n] = current_leader_id[n]

\* "leader was found dead" (paxos_node.cpp, the comment on the branch that
\* makes the callback): a scan that marks the leader of its node dead goes on
\* to handle the failure.
LeaderFoundDeadIsHandled ==
    [][\A n \in Node :
          is_alive[n][current_leader_id[n]] /\ ~is_alive'[n][current_leader_id[n]]
              => pc'[n] = "check"]_vars

\* "Node (x) is eligible to become leader. Holding off." (kivileaf.cpp): a
\* node that holds off while others take over sees somebody take over, as
\* long as there is a node left.
HoldOffEndsInLeader ==
    \A n \in Node :
        pc[n] = "elect" /\ ~IsLowest(n)
            ~> \/ ~up[n]
               \/ \E k \in Node : Accepts(k)

-----------------------------------------------------------------------------
(* Why there is a single leader: the inductive invariant                     *)

Notice(k, n) == Sent(k, n, "SELF_PROMOTION")

\* No node that is up has an id below k.
LowestUp(k) == \A m \in Node : up[m] => k <= m

\* Whoever is suspected or marked dead is down, and has been heard out.
DetectorExact ==
    \A n, m \in Node :
        m \in suspects[n] \/ ~is_alive[n][m] => ~up[m] /\ Drained(m, n)

\* Nothing changes before the first leader is down.
AfterFirstLeader ==
    \A n \in Node :
        (\/ pc[n] # "scan"
         \/ current_leader_id[n] # InitLeader
         \/ \E k \in Node : Notice(k, n))
            => ~up[InitLeader]

\* A node that is followed, or has announced itself, has no lower node running
\* and, as long as it runs, has not given way to another.
FollowedIsLowest ==
    \A n, k \in Node :
        (\/ current_leader_id[n] = k /\ k # InitLeader
         \/ Notice(k, n))
            => LowestUp(k) /\ (up[k] => current_leader_id[k] = k)

\* What a node's own steps through try_self_promote have established.
Candidate(n) ==
    /\ current_leader_id[n] = n => leaf_role[n] = "LOCAL_LEADER"
    /\ current_leader_id[n] = n /\ n # InitLeader => IsLowest(n)
    /\ pc[n] \in {"elect", "promote"} => leaf_role[n] = "PROMOTION_READY_REPLICA"
    /\ pc[n] = "promote" => IsLowest(n) /\ ~up[current_leader_id[n]]
    /\ pc[n] = "announce" /\ up[n] => current_leader_id[n] = n
    /\ n \notin announcing[n]
    /\ ~Notice(n, n)

LeadershipInv ==
    /\ DetectorExact
    /\ AfterFirstLeader
    /\ FollowedIsLowest
    /\ \A n \in Node : Candidate(n)

\* The election is sound as long as the detectors made no mistake; after one,
\* nothing of it need hold.
SoundUntilMistaken == mistakes = 0 => LeadershipInv

\* The inductive invariant behind FollowsOnlyLeaders, mistakes or not: pull
\* requests go to leaders, so notices and pulled data come from leaders.
TalksToLeaders ==
    /\ FollowsOnlyLeaders
    /\ \A n \in Node : pc[n] = "announce" => leaf_role[n] = "LOCAL_LEADER"
    /\ \A n \in Node : \A msg \in Range(inbox[n]) :
          leaf_role[IF msg.type = "SYNC_REQUEST" THEN n ELSE msg.from] = "LOCAL_LEADER"

=============================================================================
