----------------------------- MODULE HeartBeat -----------------------------
(***************************************************************************)
(* Liveness tracking between the nodes of a local cluster: the heartbeat   *)
(* thread, the failure detection thread and the heartbeat handler of       *)
(* PaxosNode, with the time between their steps.                           *)
(*                                                                         *)
(* Time is counted in ticks.  A node keeps, per peer, last_seen and        *)
(* is_alive; elapsed[n][m] is now - last_seen at node n for peer m, and    *)
(* age is now - last_seen of a heartbeat still on its way.  What is not    *)
(* under the program's control is bounded by named constants: how late a   *)
(* thread's round may be (Slack), how long a heartbeat may travel or wait  *)
(* for the message server (MaxDelay), how many heartbeats to one peer may  *)
(* fail in a row (MaxSkips), and how many processes may crash.  Clocks of  *)
(* different nodes agree.                                                  *)
(***************************************************************************)
EXTENDS Integers, FiniteSets

CONSTANTS
    Node,                   \* the nodes of the local cluster
    HEARTBEAT_SLEEP_TIME,   \* ticks between the rounds of either thread
    HEARTBEAT_SKIP_COUNT,   \* sleep times of silence before a peer is dead
    Slack,                  \* bound: how late a round may start
    MaxDelay,               \* bound: age of a heartbeat not yet handled
    MaxSkips,               \* bound: consecutive failed sends to one peer
    MaxCrashes              \* bound: crashes in a behaviour

ASSUME TimingAssumption ==
    /\ HEARTBEAT_SLEEP_TIME \in Nat \ {0}
    /\ HEARTBEAT_SKIP_COUNT \in Nat \ {0}
    /\ Slack \in Nat
    /\ MaxDelay \in Nat
    /\ MaxSkips \in Nat
    /\ MaxCrashes \in Nat
    /\ MaxDelay <= HEARTBEAT_SLEEP_TIME * HEARTBEAT_SKIP_COUNT

\* The longest time between two rounds of a thread.
Period == HEARTBEAT_SLEEP_TIME + Slack

\* The silence after which the detector gives a peer up.
Timeout == HEARTBEAT_SLEEP_TIME * HEARTBEAT_SKIP_COUNT

\* The longest time between two heartbeats that reach the same peer.
MaxGap == MaxSkips * Period + Period

\* The longest time from a boot to the first heartbeat that leaves.
FirstBeat == MaxSkips * Period + Slack

\* The timeout outlasts the longest silence of a peer that is up.
Timely == MaxGap + MaxDelay <= Timeout

\* Clocks saturate once nothing distinguishes longer times.
MaxElapsed == Timeout + 2 * Period + 1
MaxUptime  == FirstBeat + MaxDelay + 1
Later(t, cap) == IF t < cap THEN t + 1 ELSE t

VARIABLES
    up,         \* up[n]: the process of node n runs
    is_alive,   \* is_alive[n][m]: descriptor of m at n
    elapsed,    \* elapsed[n][m]: now - last_seen of that descriptor; a node
                \* never looks at its own, so elapsed[n][n] stays 0
    round,      \* round[n]: ticks since n's last heartbeat round began
    scanned,    \* scanned[n]: ticks since n's detector last read the clock
    todo,       \* todo[n]: peers the running scan has still to examine
    net,        \* heartbeats sent and not handled: [from, to, age]
    skips,      \* skips[m][n]: sends from m to n that failed in a row
    uptime,     \* history: ticks since the boot of a node
    crashes     \* number of crashes so far

vars == <<up, is_alive, elapsed, round, scanned, todo, net, skips, uptime,
          crashes>>

HeartBeatMessage == [from : Node, to : Node, age : 0..MaxDelay]

TypeOK ==
    /\ up \in [Node -> BOOLEAN]
    /\ is_alive \in [Node -> [Node -> BOOLEAN]]
    /\ elapsed \in [Node -> [Node -> 0..MaxElapsed]]
    /\ round \in [Node -> 0..Period]
    /\ scanned \in [Node -> 0..Period]
    /\ todo \in [Node -> SUBSET Node]
    /\ net \in SUBSET HeartBeatMessage
    /\ skips \in [Node -> [Node -> 0..MaxSkips]]
    /\ uptime \in [Node -> 0..MaxUptime]
    /\ crashes \in 0..MaxCrashes

Init ==
    /\ up = [n \in Node |-> FALSE]
    /\ is_alive = [n \in Node |-> [m \in Node |-> TRUE]]
    /\ elapsed = [n \in Node |-> [m \in Node |-> 0]]
    /\ round = [n \in Node |-> 0]
    /\ scanned = [n \in Node |-> 0]
    /\ todo = [n \in Node |-> {}]
    /\ net = {}
    /\ skips = [m \in Node |-> [n \in Node |-> 0]]
    /\ uptime = [n \in Node |-> 0]
    /\ crashes = 0

-----------------------------------------------------------------------------
(* Processes come and go                                                   *)

\* register_cluster_nodes and run: every peer is taken to be alive and seen
\* now; the first heartbeat round and the first scan are due at once.
Start(n) ==
    /\ ~up[n]
    /\ up' = [up EXCEPT ![n] = TRUE]
    /\ is_alive' = [is_alive EXCEPT ![n] = [m \in Node |-> TRUE]]
    /\ elapsed' = [elapsed EXCEPT ![n] = [m \in Node |-> 0]]
    /\ round' = [round EXCEPT ![n] = HEARTBEAT_SLEEP_TIME]
    /\ scanned' = [scanned EXCEPT ![n] = HEARTBEAT_SLEEP_TIME]
    /\ todo' = [todo EXCEPT ![n] = {}]
    /\ skips' = [skips EXCEPT ![n] = [m \in Node |-> 0]]
    /\ uptime' = [uptime EXCEPT ![n] = 0]
    /\ UNCHANGED <<net, crashes>>

\* The process dies: what it has sent is still delivered, what is on its way
\* to it is lost.
Crash(n) ==
    /\ up[n]
    /\ crashes < MaxCrashes
    /\ up' = [up EXCEPT ![n] = FALSE]
    /\ net' = {b \in net : b.to # n}
    /\ crashes' = crashes + 1
    /\ UNCHANGED <<is_alive, elapsed, round, scanned, todo, skips, uptime>>

-----------------------------------------------------------------------------
(* The heartbeat thread                                                    *)

\* One round sends a heartbeat to every other registered node; reached are
\* the peers whose connection is accepted.
BroadcastHeartBeat(m) ==
    /\ up[m]
    /\ round[m] >= HEARTBEAT_SLEEP_TIME
    /\ \E reached \in SUBSET {n \in Node \ {m} : up[n]} :
          /\ \A n \in Node \ {m} :
                up[n] /\ n \notin reached => skips[m][n] < MaxSkips
          /\ net' = net \cup [from : {m}, to : reached, age : {0}]
          /\ skips' = [skips EXCEPT ![m] = [n \in Node |->
                          IF up[n] /\ n # m /\ n \notin reached
                          THEN skips[m][n] + 1 ELSE 0]]
    /\ round' = [round EXCEPT ![m] = 0]
    /\ UNCHANGED <<up, is_alive, elapsed, scanned, todo, uptime, crashes>>

-----------------------------------------------------------------------------
(* The message server: receive_heart_beat and update_last_seen             *)

\* Mutant: heartbeats of one sender overtake each other.
NextFromAny(b) == b \in net

\* Heartbeats of one sender arrive in the order they were sent: each round
\* waits for its sends before the next begins.
NextFrom(b) ==
    \A x \in net : x.from = b.from /\ x.to = b.to => x.age <= b.age

\* Mutant: a heartbeat renews last_seen and does not revive a dead peer.
ReceiveHeartBeatOnlyTime(n) ==
    \E b \in net :
        /\ b.to = n
        /\ NextFrom(b)
        /\ elapsed' = [elapsed EXCEPT ![n][b.from] = b.age]
        /\ net' = net \ {b}
        /\ UNCHANGED <<up, is_alive, round, scanned, todo, skips, uptime, crashes>>

ReceiveHeartBeat(n) ==
    \E b \in net :
        /\ b.to = n
        /\ NextFrom(b)
        /\ elapsed' = [elapsed EXCEPT ![n][b.from] = b.age]
        /\ is_alive' = [is_alive EXCEPT ![n][b.from] = TRUE]
        /\ net' = net \ {b}
        /\ UNCHANGED <<up, round, scanned, todo, skips, uptime, crashes>>

-----------------------------------------------------------------------------
(* The failure detection thread                                            *)

\* Mutant: the deadline of the next scan is counted twice.
StartScanDrifting(n) ==
    /\ up[n]
    /\ todo[n] = {}
    /\ scanned[n] >= HEARTBEAT_SLEEP_TIME
    /\ scanned' = [scanned EXCEPT ![n] = @ - 2 * HEARTBEAT_SLEEP_TIME]
    /\ todo' = [todo EXCEPT ![n] = Node \ {n}]
    /\ UNCHANGED <<up, is_alive, elapsed, round, net, skips, uptime, crashes>>

\* now is read once, before the loop over the peers.
StartScan(n) ==
    /\ up[n]
    /\ todo[n] = {}
    /\ scanned[n] >= HEARTBEAT_SLEEP_TIME
    /\ scanned' = [scanned EXCEPT ![n] = 0]
    /\ todo' = [todo EXCEPT ![n] = Node \ {n}]
    /\ UNCHANGED <<up, is_alive, elapsed, round, net, skips, uptime, crashes>>

\* Mutants: off by one; the skip count applied twice; the operands swapped.
SilentEarly(n, m)    == elapsed[n][m] - scanned[n] >= Timeout
SilentTwice(n, m)    == elapsed[n][m] - scanned[n] > Timeout * HEARTBEAT_SKIP_COUNT
SilentBackward(n, m) == scanned[n] - elapsed[n][m] > Timeout

\* now is as old as the scan when a peer's last_seen is compared with it.
Silent(n, m) == elapsed[n][m] - scanned[n] > Timeout

Examine(n, m) ==
    /\ up[n]
    /\ m \in todo[n]
    /\ is_alive' = [is_alive EXCEPT ![n][m] = @ /\ ~Silent(n, m)]
    /\ todo' = [todo EXCEPT ![n] = @ \ {m}]
    /\ UNCHANGED <<up, elapsed, round, scanned, net, skips, uptime, crashes>>

-----------------------------------------------------------------------------

Aged(b) == [b EXCEPT !.age = @ + 1]

\* Time passes unless a thread's round or a heartbeat is overdue.
Tick ==
    /\ \A n \in Node : up[n] => round[n] < Period /\ scanned[n] < Period
    /\ \A b \in net : b.age < MaxDelay
    /\ elapsed' = [n \in Node |-> [m \in Node |->
                     IF up[n] /\ m # n THEN Later(elapsed[n][m], MaxElapsed)
                                        ELSE elapsed[n][m]]]
    /\ round' = [n \in Node |-> IF up[n] THEN round[n] + 1 ELSE round[n]]
    /\ scanned' = [n \in Node |-> IF up[n] THEN scanned[n] + 1 ELSE scanned[n]]
    /\ uptime' = [n \in Node |-> IF up[n] THEN Later(uptime[n], MaxUptime)
                                          ELSE uptime[n]]
    /\ net' = {Aged(b) : b \in net}
    /\ UNCHANGED <<up, is_alive, todo, skips, crashes>>

Step(n) ==
    \/ BroadcastHeartBeat(n)
    \/ ReceiveHeartBeat(n)
    \/ StartScan(n)
    \/ \E m \in Node : Examine(n, m)

Next ==
    \/ \E n \in Node : Start(n) \/ Crash(n) \/ Step(n)
    \/ Tick

Spec == Init /\ [][Next]_vars

\* Threads that can run do, and time goes on; nobody has to start or crash.
Fairness ==
    /\ WF_vars(Tick)
    /\ \A n \in Node :
          /\ WF_vars(BroadcastHeartBeat(n))
          /\ WF_vars(ReceiveHeartBeat(n))
          /\ WF_vars(StartScan(n))
          /\ WF_vars(\E m \in Node : Examine(n, m))

FairSpec == Spec /\ Fairness

-----------------------------------------------------------------------------
(* Properties                                                              *)

\* A peer that has been up long enough for its first heartbeat to arrive is
\* never marked dead by a node that is up, whatever the lateness of threads
\* and messages and the skipped heartbeats within the bounds: the detector
\* (paxos_node.cpp, initiate_heartbeat_failure_detection) against the sender
\* and the handler, which it shares nothing with but last_seen.
Accuracy ==
    \A n, m \in Node :
        n # m /\ up[n] /\ up[m] /\ uptime[m] > FirstBeat + MaxDelay
            => is_alive[n][m]

\* No node goes on believing in a peer that has been silent for longer than
\* the timeout and two rounds of the detector: one for the scan that had just
\* passed the peer when its time ran out, one for the scan that finds it.
PromptDetection ==
    \A n, m \in Node :
        n # m /\ up[n] /\ is_alive[n][m] => elapsed[n][m] <= Timeout + 2 * Period

\* last_seen never goes back in the life of a node, although update_last_seen
\* assigns whatever the heartbeat says and does not keep the later time: a peer
\* only ever looks longer silent because time has passed.
LastSeenMonotonic ==
    [][\A n, m \in Node :
          n # m /\ up[n] /\ up'[n] =>
              elapsed'[n][m] <= elapsed[n][m] \/ scanned'[n] > scanned[n]]_vars

\* A peer that goes down for good is in the end marked dead for good by every
\* node that stays up: no heartbeat still on its way revives it for ever.
CrashedEventuallyDead ==
    \A n, m \in Node :
        n # m => (<>[](up[n] /\ ~up[m]) => <>[]~is_alive[n][m])

\* The constant's own comment, "accomodate 3 skipped heartbeats"
\* (paxos_node.cpp, HEARTBEAT_SKIP_COUNT): as long as no more heartbeats than
\* that fail in a row, no peer that is up is marked dead.
SkippedHeartbeatsAccommodated ==
    (MaxSkips <= HEARTBEAT_SKIP_COUNT) => Accuracy

-----------------------------------------------------------------------------
(* Why: the inductive invariant behind Accuracy                            *)

Pending(n, m) == {b \in net : b.from = m /\ b.to = n}

\* How long ago, at most, m sent the last heartbeat that reached n.
SinceSend(n, m) == skips[m][n] * Period + round[m]

\* n has heard from m since then, or is about to, or m has yet to reach n.
HeardOrPending(n, m) ==
    \/ elapsed[n][m] <= SinceSend(n, m)
    \/ \E x \in Pending(n, m) : x.age <= SinceSend(n, m)
    \/ uptime[m] <= SinceSend(n, m) - HEARTBEAT_SLEEP_TIME

\* Behind every heartbeat on its way there is no gap longer than MaxGap.
NoGap(n, m) ==
    \A y \in Pending(n, m) :
        \/ elapsed[n][m] <= y.age + MaxGap
        \/ \E x \in Pending(n, m) : y.age < x.age /\ x.age <= y.age + MaxGap
        \/ uptime[m] <= y.age + FirstBeat

\* A peer that is marked dead although it is up has only just been started.
DeadIsNew(n, m) ==
    ~is_alive[n][m] =>
        \/ uptime[m] <= SinceSend(n, m) - HEARTBEAT_SLEEP_TIME
        \/ \E y \in Pending(n, m) : uptime[m] <= y.age + FirstBeat

\* A heartbeat on its way was sent after the last one handled.
InOrder(n, m) == \A b \in Pending(n, m) : b.age <= elapsed[n][m]

\* What the scans of n have made sure of about a peer it believes in.
Scanned(n, m) ==
    is_alive[n][m] =>
        elapsed[n][m] <= Timeout + scanned[n]
                            + (IF m \in todo[n] THEN Period ELSE 0)

\* The inductive invariant; its last conjunct needs Timely.
HeartBeatInv ==
    /\ \A b \in net : up[b.to]
    /\ \A n, m \in Node : n # m /\ up[n] =>
          /\ InOrder(n, m)
          /\ Scanned(n, m)
          /\ up[m] => HeardOrPending(n, m) /\ NoGap(n, m)
    /\ Timely =>
          \A n, m \in Node : n # m /\ up[n] /\ up[m] => DeadIsNew(n, m)

=============================================================================
