# KiviTree in TLA+

KiviTree is a small replicated key-value store in C++. A *KiviLeaf* node keeps an
LRU-bounded hash map, serves it over HTTP, and belongs to a *local cluster* of
nodes with one leader: the leader takes the writes and pushes them to the
others, all nodes exchange heartbeats, and when the first leader falls silent
the lowest surviving id promotes itself. This directory holds TLA+ models of
those parts, the TLC configurations that check them on small instances, and
proofs for TLAPS. Source paths below are relative to the repository; the own
code is about 2000 lines of `src/` and `include/` (the rest is vendored JSON and
HTTP libraries).

## 1. Inventory

| Part | State | Operations | Modelled by |
|---|---|---|---|
| Key-value engine: `KiviTree`, `HashStore`, `LRUStore` (`kivitree_core`) | hash map; LRU list of keys; index of list iterators; capacity; a mutex that only `set_kv_batch` and `get_kv_batch` take | `put`, `get`, `remove`, `set_kv_batch`, `get_kv_batch` | `LRUStore`, `LRUCache`, `LRUThreads` |
| Failure detection: `PaxosNode` | per peer `is_alive`, `last_seen` | heartbeat thread, detection thread, `update_last_seen` | `HeartBeat` |
| Membership: `PaxosNode` | `local_cluster_nodes`, `cluster_nodes` | `register_cluster_nodes`, `add_new_node`, `remove_node`, `join_cluster` | `Membership` (the last two have no caller) |
| Leadership: `KiviLeaf` | `leaf_role`, `current_leader_id`; `local_cluster_leader` of the detector | `try_self_promote`, `broadcast_self_promotion`, `handle_custom_message` | `LocalCluster`, `KiviLeaf` |
| Replication: `KiviLeaf` and its REST controller | the stores; PUTs in progress; pull requests and answers | `/put`, `push_to_followers`, `pull_leader_data`, `push_leader_data`, handlers of pushes and answers | `LocalSync`, `KiviLeaf` |
| RPC transport: `RPCClient`, `RPCServer` | sockets, the backlog, one connection at a time, a 4096-byte buffer | `send`, `start` | `RPCTransport`, `Mailbox`; failed connections and the buffer also in `LocalCluster`, `LocalSync`, `KiviLeaf` |
| Paxos messages, `TrieIndex` | none | empty handlers, a header | nothing to model |
| `KiviTreeServer` (commented out of the build) | a store behind a TCP loop, one thread per client | `handle_client` | its threads, by `LRUThreads` |

**Who calls whom.** A node has four sources of concurrency: the REST server's
thread pool, the message server (one thread, one connection at a time), the
heartbeat thread and the failure detection thread. They share `PaxosNode`'s
descriptors, `KiviLeaf`'s role and leader id, and the store, without a common
lock. The detector calls back into `KiviLeaf::try_self_promote` from the
middle of its scan, and that call broadcasts before the scan goes on. A
message handler may send messages itself (the pull request after a notice, the
answer to a pull), from the message server's thread. Nodes know each other
only by messages and by `connect` failing.

**What is hard here.** Each node elects a leader alone, from its own flags, while
the others crash, promote themselves and send notices. The failure detector
compares a clock read once per scan with times another thread renews. PUTs of
one key overlap, and a copy of the store is taken before it is sent, so a
follower may apply things in another order than the leader did. Nothing is ever
retried, and what `send` returns is looked at nowhere: a message to a live node may
find no connection, and one longer than the receiver's buffer is read in part and
dropped. `PROJECT.json` lists the hazards at their lines.

**What makes each part correct.**

- *Engine*: the three structures describe the same keys, no iterator dangles, the
  capacity holds, and what is evicted is the key used least recently, also
  between the puts of a batch.
- *Failure detection*: no running peer is given up as long as rounds and
  messages keep within stated bounds; a silent one is given up in time, and in
  the end for good, although heartbeats of the dead may still be on their way.
- *Leadership*: at most one node accepts writes; a redirected write ends at it; a
  node takes over only from a leader that is down; every survivor learns of
  it and pulls its data, unless a message of that was lost; nobody ever follows a
  node that never led.
- *Replication*: when nothing is on its way, a follower agrees with its leader, and
  never shows a key going back to an older value, except after one of a few
  named races and losses.

## 2. Modules

### LRUCache, LRUStore — the engine

`LRUStore` keeps the code's state: `store` (HashStore's map), `lru_list` (a
sequence of cells, each with its key), `index` (key to cell, that is, the
iterators of the code), and `batch`, what a running `set_kv_batch` has still to
put. `Put`, `Get`, `RemoveKey` are one step each; a batch is one step per pair,
since the lock it holds keeps nobody but other batches out. `used` and
`removed` are history variables for one property. A cell is reused once it is
freed, so a dangling iterator would show as an index entry that refers to a
cell of another key, or to none.

`LRUCache` is the abstract specification: a partial map and the order in which
its keys were last used, no list and no index. `LRUStore` implements it
(`RefinesLRUCache`) under the mapping `content <- store`,
`usedAfter <- Recency`, where `Recency` reads the order off the list.

### LRUThreads — the engine without its lock

The same operations and `get_kv_batch`, one statement at a time, by several
threads. `frame[t]` says at which statement of which call thread `t` is;
`Reads` and `Writes` say which of the three containers a statement accesses,
and `Race` that two threads are at statements that conflict. A race is
undefined behaviour; the model continues with the mildest outcome (the two
calls on the container take effect one after the other) and stops (`broken`)
where even that has no meaning: an iterator whose element is gone, the back of
an empty list. What it shows is therefore what the code can suffer at least,
and, for the properties that hold, what holds as long as containers stay
intact. Values are left out.

### HeartBeat — failure detection

Time is counted in ticks. `elapsed[n][m]` is `now - last_seen` of peer `m` at
node `n`. `BroadcastHeartBeat` is a round of the heartbeat thread, which reaches
any subset of the peers that accept the connection; `ReceiveHeartBeat` is
`update_last_seen`; `StartScan` reads `now` and `Examine` looks at one
peer, so that heartbeats are handled in the middle of a scan. `Start` and
`Crash` may happen at any time. What the program does not control is bounded
by named constants: `Slack` (lateness of a round), `MaxDelay` (age of a
heartbeat when handled), `MaxSkips` (failed sends in a row to one peer),
`MaxCrashes`.

Clocks of different nodes are taken to agree, since `last_seen` is the
sender's timestamp. A failed connect that hangs is lateness of the round.

### Membership — who is in the lists

`local_cluster_nodes[n]` and `cluster_nodes[n]` are the code's two vectors, as
sequences. `main` fills the first with the predefined nodes; a process that is
none of them (a *joiner*) can be started all the same and becomes known by its
heartbeats. `iniate_heartbeat` does not set `cluster_type` in the heartbeat for
the local cluster, so `SendHeartBeat` chooses it: it decides which list the
receiver files a stranger in. `EnterLoop`/`LeaveLoop` stand for any thread that
iterates over a list; `PushBack` breaks the node when the vector reallocates
under such a loop. `PullLeaderData` and `ReceiveSyncRequest` are the pull of a
node that boots, which the leader answers only if it knows the sender as local.

### LocalCluster — leadership

`pc[n]` is where node `n`'s detection thread is: in the scan, or in one of the
steps of `try_self_promote` (`check`, `elect`, `promote`, `announce`), each of
which reads and writes state the message server changes in between.
`WakeUp` abstracts `HeartBeat`: a scan finds some peers silent, all of them down
unless the detector makes one of at most `MaxMistakes` mistakes. `Examine`
marks the next of them dead, in the order of `local_cluster_nodes`, and enters
`try_self_promote` when it is the *first* leader, as the code does.
`inbox[n]` holds the messages in order of arrival. `mistakes` counts false
suspicions, so that a property can say what holds until the first one.
`Send` may lose any message: a connection to a process that is up can fail, and
nobody looks at the result. `DropSyncResponse` is an answer with more data than the
4096 bytes the server reads. A lost notice, pull or answer is not sent again, so the
history variable `missed` names the nodes that went without something by it, and
the properties about all survivors exempt exactly these.
A scan that finds nobody changes nothing and is left out, which is why a cluster
in which everything has been found may stop (`CHECK_DEADLOCK FALSE`).

### LocalSync — replication under one leader

The leader's PUT handlers (`PutKey`, `Launch`, `Push`, `Respond`), its message
server answering pulls in two steps (`TakeSnapshot`, `SendSnapshot`), and the
followers' message servers (`ReceivePush`, `ReceiveSyncResponse`), with
followers that crash, boot (`Start`, `Listen`, `PullLeaderData`, in any
order the threads allow) and are marked dead rightly or wrongly. A value
stands for the PUT that wrote it, in the order the leader stored them, which
lets a state say which of two values is older. `raced[f]` is a history variable:
the keys on which follower `f` has met one of the races
named at `DivergenceNeedsRace`; every one of the exemptions is needed (without it
TLC shows a follower that differs for ever). Two of them are losses. A send may
find no connection though the follower listens (`Send` beside its other disjunct),
and a message may be longer than the follower's buffer: values of the PUTs in
`Long` are too long for it, so that `ReceivePush` drops a push with one,
and `ReceiveSyncResponse` an answer that holds one or more than `MaxPairs` pairs
(`Fits`). A push lost before the answer to the follower's pull does no harm and is not
recorded. `refused` says who got no connection while booting, the condition of the
two properties about the pull at boot.

### KiviLeaf — leadership and data together

`KiviLeaf` has `LocalCluster`'s variables and, through
`Failover == INSTANCE LocalCluster`, its actions, and adds the stores (`kv`), the
PUTs in progress (`Admit`: the leader check; `StorePair`; `Push`, one
follower at a time; `Respond`), pushes in the inboxes, answers that carry a
copy of the store, and processes that boot again with the role and leader of
their command line (`Start`, `PullLeaderData`). A PUT that was let in goes on
whatever becomes of the leadership, and pushes carry no term and are applied
whoever sent them. Sends fail and long messages are dropped as in `LocalSync`
(`Push`, `ReceivePush`, `Fits`, and `LocalCluster`'s `Send` and `DropSyncResponse`),
while the client is answered OK all the same; `lost[n]` are the keys of which a push
to `n` went that way. Seen without the data it implements `LocalCluster`
(`ImplementsLocalCluster`) until a process boots again.

### Mailbox, RPCTransport — how messages get there

`Mailbox` is what the modules above use: per node an inbox, emptied
from the front, with the messages of each thread in the order they were sent,
some of them lost, none handled twice. (The modules above lose a message where
it is sent or where it is handled, which comes to the same.) `RPCTransport` is the code: a thread
connects (`Connect`, or `Fail` when nobody listens or the backlog stayed full
until the system gave up), sends and closes (`SendData`); the one thread of a
server takes a connection (`Accept`), reads once (`Read`, or `ReadNothing` when
the client died), runs the handler and, if that sends in return, is itself a
client in the meantime. `Listen` may end at another port, because the result of
`bind` is not looked at. It implements `Mailbox` (`ImplementsMailbox`): the box
is the connection being handled and the backlog.

### How they fit

`HeartBeat` justifies `WakeUp` of `LocalCluster` and `MarkDead` of `LocalSync`:
no mistakes is its `Accuracy`, and the fairness of `WakeUp` its
`PromptDetection`. `LocalCluster`, `LocalSync` and `KiviLeaf` share the ordered,
lossy inbox, which `RPCTransport` implements. `KiviLeaf` implements
`LocalCluster`. `LRUStore` implements `LRUCache`, the store that `LocalSync` and
`KiviLeaf` reduce to a map, with fewer keys than room; `LRUThreads` says what is
left of it when the callers of a node overlap. All of them fix the lists of
nodes, which is what `Membership` shows for clusters without joiners, and
describes for others.

## 3. Runs

| Run | Instance | Shows |
|---|---|---|
| `lru_store` | 4 keys, 2 values, capacity 3 | coherence, the batch's window, and the refinement of `LRUCache` |
| `lru_threads` | 2 threads, 3 keys, 3 cells, capacity 1, batches of up to 2 pairs | batches and copies never race with each other; whatever breaks needs a data race; races let the list outgrow its capacity by one element per other thread at most |
| `heartbeat` | 2 nodes, sleep 1, skip count 3, delay 1, one skip, one crash, fair | `Accuracy`, `PromptDetection`, the inductive invariant; `last_seen` in order; the dead end up dead |
| `heartbeat_skips` | 2 nodes, sleep 1, 3 skips, no lateness and no delay at all | *violation* (see Findings) |
| `cluster` | 3 nodes, up to 2 crashes and 2 mistakes, any message lost, fair | until a mistake: one leader, redirects that end, notices that reach everyone who lost none, no take-over from the living, the inductive invariant; always: nobody follows, or merges the data of, a node that never led; if only the first leader goes down, the survivors that lost no message agree on a leader and pull its data |
| `cluster_second_failure` | 3 nodes, 2 crashes | *violation* |
| `cluster_hold_off` | 3 nodes, 2 crashes, fair | *violation* |
| `sync` | 1 follower, 2 keys, pool of 2, 3 PUTs of which the second is too long for the buffer, any send refused, one crash, fair | `DivergenceNeedsRace`, `FollowerMonotonic`; followers end up agreeing; a follower that listens gets its data at boot if it fits |
| `sync_buffer` | 1 follower, 2 keys, a buffer for one pair, fair | *violation* |
| `kivileaf` | 3 nodes, 1 key, one crash, 2 events (PUTs and boots), the second PUT too long for the buffer, any message lost | an acknowledged write survives the leader at the nodes that lost no push of it, and does not vanish while one has not lost any; a write in progress keeps its leader; only nodes that boot again make two leaders or redirects that lead nowhere (in a cluster of three); only an answer to a pull takes a key back; the refinement of `LocalCluster` |
| `transport` | 2 nodes with one client thread each, backlog 1, 2 calls a thread, one crash, fair | what `send` returns is true, every call returns, every connection is dealt with, and the refinement of `Mailbox` |
| `membership` | 3 predefined nodes (one is enough to run) and 2 joiners, 2 messages under way, one crash, fair | a node is listed once; joiners become known for good; a pull of a known joiner is answered; a broken loop needs two joiners in one list |

**Why these bounds.** *Engine*: with one key more than the capacity every put may
evict, and with room for three there is a first, a middle and a last place in
the list. Two threads are enough for every pair of statements to meet; with
capacity one and three keys each put evicts, what it evicts may be what the
other thread is at, and the list still has room to overshoot. *Heartbeats*: every pair of
nodes is independent of the others, so two nodes show all there is; the times
are as short as keeps the code's proportions (timeout = three sleep times), and a
delay and a skip are what such a timeout can take. No round is late there
(`Slack = 0`): lateness, delay and skips together need longer times than TLC
gets through, so late rounds are covered by the proofs alone, which hold
for all values. (With `Slack = 1` and no skip TLC finds no error either.) *Leadership*: three nodes give a new leader a follower that
may hold off, be late or be wrong; two crashes cover the death of a second
leader, and two mistakes are enough for two leaders at once. Four nodes add
only survivors that are not the lowest; the proofs cover every number.
*Replication*: three PUTs overlap or fall on either side of a copy, followers do
not interact, and one crash gives one boot with messages of the past still on
their way. The long PUT is the second of three, so that short ones precede and
follow it. *Both*: two PUTs of a key make an order, or a PUT and a boot together bring a
deposed leader back, and one crash makes one failover. The second PUT is long, which leaves the order of two short
ones, and every other choice of `Long`, to the proofs. `OnlyRebootsMislead` is a
promise about three nodes: with a fourth one, a node that has booted again can take
another leader's followers away one by one. *Transport*: with a
backlog of one, two threads fill it and a server's answer finds it full; two
calls a thread make an order; two nodes can wait for each other.
*Membership*: a second joiner is what makes a full vector reallocate.
Runs of liveness properties use no symmetry.

**Fairness.** Threads are scheduled: the next step of a thread that can take one
is weakly fair (`Proceed`, `Receive`, `Handle`, `Send`, `Serve`, the boot of a
follower). Time passes (`Tick`). Nobody has to crash, boot, put, or make a
mistake. `WakeUp` with all silent peers is strongly fair: the detector wakes up
every sleep time and the timeout is finite, so it meets every silent peer in
the end, while a single scan may come too early for some of them; strong,
because the scan is now and then busy with other suspects. The heartbeats of a
joiner are strongly fair because `MaxPending`, a bound of the model, disables
them now and then, while the code's thread just sends again five seconds later. That a
`connect` to a full backlog gives up in the end (`Fail`) is the system's
timeout; without it two servers that answer each other wait for ever.

**Where a run may stop.** `CHECK_DEADLOCK FALSE` stands in the `cluster*` and
`kivileaf` runs (everything found, all messages handled, the bounds used up), in
`lru_threads` (undefined behaviour stops the model) and in `transport` (nobody
has to call again).

**Mutants.** Each property of a passing run has an operator that changes one
definition the way a slip in the code would (a guard dropped, an operand
swapped, an update left out). They stand right before the definition they
change, under a comment that starts with "Mutant". With the
changed definition TLC finds the property violated, so no property holds by
the shape of the model. Modules that are about data in motion (`LocalSync`,
`KiviLeaf`, `RPCTransport`, `Membership`, `LRUThreads`) keep their `TypeOK` as
documentation of the state; their runs check what can go wrong instead.

## 4. Findings

Where the code does something else than a comment or a log line of it says:

1. `HEARTBEAT_SKIP_COUNT = 3` is commented "accomodate 3 skipped heartbeats"
   (`paxos_node.cpp:18`). Three skipped heartbeats make a silence of four periods and
   the timeout is three: a running peer is marked dead. Two are
   accommodated, as long as nothing is late.
   (`heartbeat_skips`)
2. The branch commented "leader was found dead" (`paxos_node.cpp:190`) compares with
   `local_cluster_leader`, which only `main` sets. A second leader's death is
   found and not handled. (`cluster_second_failure`)
3. The callback runs in the middle of the scan that finds the first leader, once. A
   lower node that is down but comes later in the scan still counts as
   "eligible", the survivor holds off (`kivileaf.cpp:135`) and the cluster stays
   without a leader. (`cluster_hold_off`)
4. `run` pulls to "fetch data from leader on boot" (`kivileaf.cpp:244`). But a message is
   read with one `read` of 4096 bytes (`rpc_server.cpp:26`): an answer with a larger
   store is cut off, fails to parse and is dropped, and nobody asks again
   (`FetchesDataOfAnySize`, run `sync_buffer`; `FetchesDataWhenListening` holds with
   the store's size as a condition).

What else a maintainer should know, where the sources promise nothing else; each
stands as a condition in a property that needs it:

- The same read cuts off a push with a large value, and any push may find no
  connection. The result of the send is ignored (`kivileaf.cpp:78`) and the client is
  answered OK (`kivileaf_rest_controller.cpp:121-123`), so such a write may be at the
  leader alone and be lost with it, with nobody the wiser. Hence the losses among the
  causes in `DivergenceNeedsRace`, and `lost` in `AckedSurvives` and
  `AckedKeyOutlivesACrash`.
- Notices, pulls and answers are sent once too. A node to which one is lost goes on
  following a dead leader, or goes without the data (`missed` in
  `NoticeReachesEveryone`, `FailoverCompletes`, `FollowersResync`).
- `run` pulls the leader's data without waiting for its message server to
  listen (`kivileaf.cpp:248`), so the answer may be refused: hence *listening* in
  `FetchesDataWhenListening`.
- A write that was answered OK and lost no push survives one crash (`AckedSurvives`), not two: a
  follower that pulls while a PUT is pushed may be taken back to the copy, and be
  the one that is promoted next. Two PUTs of one key at the same time may reach
  followers in either order.
- A first leader that boots again believes in its command line and leads beside
  its successor (`OnlyRebootsMislead`); its stale values and its pushes may replace
  acknowledged ones. A key does not vanish altogether as long as one replica has lost no
  push of it (`AckedKeyOutlivesACrash`).
- Whether a joiner is listed as local depends on an uninitialized field. One that
  is filed in `cluster_nodes` is never pushed to and its pull is not answered.
  Joiners never learn of each other, since each sends only to the nodes it knows.
- The lists grow while other threads loop over them. From three predefined
  nodes the vector has room for a fourth, so the first joiner is harmless
  (`DanglingNeedsTwo`), the second is not.
- Two message servers can wait for each other, each in a handler's `connect` to the
  other's full backlog. Only the system's connect timeout ends it
  (`EveryCallReturns` fails without it).
- `put`, `get` and `remove` race with each other and with batches; besides undefined
  behaviour, the list outgrows the capacity (`OvershootBounded` says how far), and
  evictions, one for one put, do not bring it back.

## 5. Proofs

All proofs are for arbitrary values of the constants, bounds of the model included,
under the named assumptions of the modules and, where a theorem has them, the
hypotheses named below.

**`LRUStoreProofs`.** `StoreTyped` and `StoreCoherent`: `Spec => []TypeOK` and
`Spec => []Coherent` for any keys, cells and capacity. `Coherent` is inductive
together with `TypeOK`; the lemmas say what each list operation (move to the
front, insert at the front, erase, drop the last) does to `Linked`, and to the
order in which the keys stand. The latter give `StoreImplementsCache`, the refinement
of `LRUCache` (`put` and `get` are `Use`, a batch is `Use` again and again, what
the code drops from the back is the key used before all others). `StoreKeepsWindow`
is the promise for batches; its invariant `WindowInv` adds to it that the keys
used since the batch began stand before all others in the list (`FrontUsed`), so
that only they themselves can push one of them out.

**`LRUThreadsProofs`.** `OvershootIsBounded`, for any number of threads
and any capacity. How long the list is says too little about how long it
will be: a thread that has seen room, or made some, pushes later. `RoomInv`
therefore counts the list together with those threads
(`Pushing`); only a thread that sees room lets the sum grow, and it sees room
when the list itself is below the capacity and at most the other threads count.
`LockedCallsAreSafe`: the mutex of the batches works, from `LockInv`.
`DamageTakesARace`: until two threads meet at a container nothing undefined
happens, and when all calls have returned the three structures agree.
Between statements they do not agree, so `DamageInv` says for each thread
where it is in the structure it is changing: what it has looked up is still so
(`Sure`), and what it has changed and not yet changed everywhere is accounted for in
`Indexed`, `Listed` and `Stored`. Which two threads may be between which
statements without having raced is itself part of the invariant (`Apart`,
`Beside`), and so are the pairs that can only go on by racing (`Jam`): there the
structures may differ already, but the race is recorded before either call
returns.

**`HeartBeatProofs`.** `HeartBeatInvariant`, `AccurateDetector`,
`PromptDetector`, `LastSeenNeverGoesBack`, for any number of nodes and any
timing constants. `Accuracy` is not inductive: whether a peer is about to
be given up depends on heartbeats on their way and sends that failed.
`HeartBeatInv` relates, for each pair, the time since the last handled
heartbeat, the ages of those pending, and the sender's failed sends:
somebody always vouches for the peer (`HeardOrPending`), and behind every
pending heartbeat there is no gap longer than `MaxGap` (`NoGap`). `Accuracy` then
needs one assumption, `Timely`: the timeout is at least `MaxGap + MaxDelay`. The
other theorems do not need it.

**`MembershipProofs`.** `PeersKnownOnce`: no node lists a peer twice or in both lists,
for any number of joiners; inductive with the types and with what can be in
which list (`MemberOnce`). `OneJoinerIsSafe`, for any number of joiners: a
loop breaks only when two were added to one list. Its hypothesis is that the
predefined nodes do not fill their vector, `~FillsRoom(Len(Predefined))`, as three do
not once it has grown to four (`ThreeLeaveRoom`).

**`LocalClusterProofs`.** `ClusterTyped` and `FollowLeaders` hold with any number of
mistakes; the latter's invariant is `TalksToLeaders` (pull requests in
every inbox are addressed to leaders, notices and answers come from leaders).
`LeadershipInvariant`, `OneLeader`, `RedirectsToLeader`, `TakesOverOnlyFromDead`
and `NoticeHeard` say what holds until the first mistake, for any bounds on
mistakes and crashes: the invariant is proved of steps that end without a
mistake, and `mistakes` never goes down. `SingleLeader` alone is not
inductive, since two nodes may be on their way to promote themselves.
`LeadershipInv` says why they never both arrive: a node that is suspected or
marked dead is down and nothing it has sent is still in the inbox of the node
that gave it up (`DetectorExact`); a node about to promote itself is lower than
all it holds alive, and the leader it follows is down (`Candidate`); and whoever
is followed or has announced itself has no lower node running
(`FollowedIsLowest`). For `NoticeHeard` one has to know besides that no notice of an
earlier leader waits behind that of the present one (`ReachInv`); it exempts the nodes to
which a message was lost. The safety of the election needs no such exemption.

**`LocalSyncProofs`.** `FollowersAgree` and `FollowersRise`, for any number of
followers, keys and PUTs. Both come from one invariant about one follower and
one key, `SyncInv`: unless one of the named races is recorded, the follower's
value, the values in its queue in their order, and the leader's never go
down (`InOrder`), a copy about to be sent and a PUT about to be pushed hold
the leader's value, and if nothing is unsent the last value in the queue is that
of the leader (`Reaches`). Each exemption in `DivergenceNeedsRace` is the case in which one
of these breaks. `Long` and `MaxPairs` are arbitrary, and so is which sends fail.
A message that will be cut off holds the right value all the same, so the
order is that of the values that will be applied, and dropping one is recorded unless
an answer is still to come.

**`KiviLeafProofs`.** Every theorem but the one on types takes the detector to be
accurate (`MaxMistakes = 0`), as the properties do.
- `DataLeavesElectionAlone` is the refinement of `LocalCluster`. The mapping
  drops pushes from the inboxes and data from the answers (`Bare`, a recursive
  function); that it goes well with appending and taking the first message is
  proved along the queue. Through it all that is proved of
  `LocalCluster` holds here until somebody boots again, and `WritesStay`
  follows from `LeadershipInv`.
- `OnlyTheRebootedMislead` is for boots, of which the refinement says nothing. Its
  invariant (`StayedInv`) is about the nodes that have been up since the
  start. Its hypothesis is a cluster of three at most, as in `main.cpp`. That is
  not for the proof's sake: among four, a node that has booted again can take
  the followers of a leader that has not one by one.
- `AckedKeysOutlive`, with boots: until the first crash the first leader has all that is
  acknowledged, and every replica has it, or has it in its inbox, or lost a push of
  it; after the crash somebody who is up has it, or all replicas have lost a push of it
  (`OutliveInv`).
- `PushesNeverGoBack` rests on `DataInv`: whoever is marked dead has been heard out,
  so the pushes of an old leader are in front of those of the new one
  (`PushInv`), and for a key that is not put twice at a time the values in
  every queue rise (`ValueInv`).
- `AckedWritesSurvive` adds what a second crash would break (`SurvivalInv`): until
  somebody has taken over, nothing but pushes is sent, and every node that is up has,
  or is about to take, what is acknowledged, except of keys of which it lost a push
  (`AllHave`); whoever takes over has taken
  it (`LeadersHave`), and has nothing on its way that would take it back
  (`LeadersPullNothing`).

**`RPCTransportProofs`.** `SendTellsTheTruth`: a `send` that reported success had
connected, one that reported failure has left nothing at the receiver.
`TransportIsMailbox`: connecting is `Deposit`, reading is `Take`, a read that finds
the client gone is `Lose`, a crash is `LoseAll`, every other step is a stutter. The
invariant (`TransportInv`) says which thread is in which call (`Calling`, `Serving`),
that connections are where they were made to (`Addressed`), and that the calls of a
thread are numbered in the order in which they wait (`Numbered`, `Ordered`): this is what
makes the box a mailbox that keeps each thread's order.

**Model-checked only.** Liveness, which under fairness and with `ENABLED` is out of
TLAPS's reach: `CrashedEventuallyDead`, `FailoverCompletes`,
`FollowersResync`, `EventuallyAgrees`, `FetchesDataWhenListening`,
`EveryCallReturns`, `EveryConnectionServed`, `EventuallyKnown` and
`MembersAnswered`. The runs of section 4 show violations and prove nothing. Every
invariant, action property and refinement that the other runs check is proved.

## 6. Left out, and why

- **The vendored libraries.** `json.hpp` and `httplib.h` are 36 000 of the
  repository's 38 000 lines. They are third-party code; what the models need of
  them (a text that was cut off does not parse, a pool of REST threads) is in the
  models. So the definitions map to a small share of all lines, and to most of
  the repository's own code that changes state.
- **Empty code.** The paxos message handlers (nothing sends those messages),
  `get_local_cluster_leader`, `check_leader_health`, `join_cluster`, and
  `remove_node`, which has no caller. `TrieIndex` is a header.
- **Code without state.** Wording, logging, formats of timestamps and messages,
  printing, `/cluster-status`, and the parsing of commands by `KiviTreeServer`.
- **`last_sync_time`**: written and sent, read nowhere.
- **The detector's loop over `cluster_nodes`**: it marks as the other loop does and
  calls nobody back. `Membership` has the list, `HeartBeat` the marking.
- **Several things at once.** A store that evicts while it is replicated; joiners
  that take part in elections; clocks that disagree. Each is a product of two
  modules here, and would need bounds too small to say anything.

## 7. Plan

The models are complete as far as the code changes state, and all but liveness is proved.
What could be added:

1. `KiviLeafProofs` is by far the longest proof. Its lemmas on what one step does to a
   node's part in the election (`Turns`) and to its queue and store (`Seen`) came
   late; the older parts (`StayedInv`, `OutliveInv`) would be shorter with them.
2. `KiviLeaf` beyond three nodes: which redirects a node that booted again can
   mislead when there are four.
3. The link from `HeartBeat` to `WakeUp` of `LocalCluster`, which the text of section 2 makes,
   as a refinement: scans of many peers against the suspicions they yield.
