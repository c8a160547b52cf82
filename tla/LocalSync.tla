----------------------------- MODULE LocalSync -----------------------------
(***************************************************************************)
(* How the data of a local leader reaches its followers: the PUT handlers  *)
(* of the leader's REST pool, which store a pair and push it to every      *)
(* follower marked alive; the leader's message server, which answers a     *)
(* pull request with a copy of its store; and the followers' message       *)
(* servers, which apply what they receive in the order it arrives.         *)
(*                                                                         *)
(* Messages get lost: a connection may fail, also to a server that         *)
(* listens, and nobody looks at the result of a send; and a server reads a *)
(* message once, into a buffer of 4096 bytes, so that a longer one is cut  *)
(* off, does not parse and is dropped.                                     *)
(*                                                                         *)
(* The leader stays up; followers stop and boot again.  A value stands for *)
(* the PUT that wrote it: PUTs are numbered in the order in which the      *)
(* leader stores them, and 0 is no value.  There are fewer keys than the   *)
(* stores have room for, so nothing is evicted.  last_sync_time is left    *)
(* out: the code writes it and sends it, and reads it nowhere.             *)
(***************************************************************************)
EXTENDS Naturals, FiniteSets, Sequences, SequencesExt

CONSTANTS
    Follower,   \* the other nodes of the leader's local cluster
    Key,        \* keys the clients put
    PoolSize,   \* threads of the REST server: PUTs in progress at once
    Long,       \* PUTs of a value so long that a message with it is cut off
    MaxPairs,   \* pairs of other values a sync response carries uncut
    MaxPuts,    \* bound: PUTs in a behaviour
    MaxCrashes  \* bound: crashes in a behaviour

ASSUME SyncAssumption ==
    /\ IsFiniteSet(Key)
    /\ PoolSize \in Nat
    /\ Long \subseteq Nat
    /\ MaxPairs \in Nat
    /\ MaxPuts \in Nat
    /\ MaxCrashes \in Nat

VARIABLES
    leader_kv,  \* leader_kv[k]: the leader's store
    writes,     \* PUTs in progress at the leader
    is_alive,   \* is_alive[f]: the leader's descriptor of f
    requests,   \* followers whose pull requests wait for the leader's server
    answering,  \* the answer the leader's server is about to send, if any
    kv,         \* kv[f]: the store of f
    up,         \* up[f]: the process of f runs
    listening,  \* listening[f]: its message server is bound
    pulling,    \* pulling[f]: run of f has still to send its pull request
    inbox,      \* inbox[f]: messages waiting for f's message server
    snapped,    \* history: an answer for f has been prepared since f booted
    raced,      \* history: raced[f], the keys on which f may have lost a race
    refused,    \* history: followers whose pull, or an answer to them while
                \* they listened, got no connection since they booted
    puts,       \* number of PUTs so far
    crashes     \* number of crashes so far

leader   == <<leader_kv, writes, is_alive, requests, answering, puts>>
follower == <<kv, up, listening, pulling, inbox, crashes>>
vars     == <<leader, follower, snapped, raced, refused>>

Store == [Key -> 0..MaxPuts]
Empty == [k \in Key |-> 0]

\* push_to_followers of one PUT: the followers whose is_alive it has still to
\* read, and those it has still to send to.
Write == [key : Key, value : 1..MaxPuts,
          unread : SUBSET Follower, sending : SUBSET Follower]

Message == [type : {"PUSH"}, key : Key, value : 1..MaxPuts]
             \cup [type : {"SYNC_RESPONSE"}, data : Store]

TypeOK ==
    /\ leader_kv \in Store
    /\ writes \in SUBSET Write
    /\ is_alive \in [Follower -> BOOLEAN]
    /\ requests \in Seq(Follower)
    /\ answering \in SUBSET [to : Follower, data : Store]
    /\ kv \in [Follower -> Store]
    /\ up \in [Follower -> BOOLEAN]
    /\ listening \in [Follower -> BOOLEAN]
    /\ pulling \in [Follower -> BOOLEAN]
    /\ inbox \in [Follower -> Seq(Message)]
    /\ snapped \in [Follower -> BOOLEAN]
    /\ raced \in [Follower -> SUBSET Key]
    /\ refused \subseteq Follower
    /\ puts \in 0..MaxPuts
    /\ crashes \in 0..MaxCrashes

\* A cluster that has booted and holds no data.
Init ==
    /\ leader_kv = Empty
    /\ writes = {}
    /\ is_alive = [f \in Follower |-> TRUE]
    /\ requests = << >>
    /\ answering = {}
    /\ kv = [f \in Follower |-> Empty]
    /\ up = [f \in Follower |-> TRUE]
    /\ listening = [f \in Follower |-> TRUE]
    /\ pulling = [f \in Follower |-> FALSE]
    /\ inbox = [f \in Follower |-> << >>]
    /\ snapped = [f \in Follower |-> TRUE]
    /\ raced = [f \in Follower |-> {}]
    /\ refused = {}
    /\ puts = 0
    /\ crashes = 0

\* send_message, when the connection succeeds; it fails unless the message
\* server of f is bound, and may fail then too.
Send(f, msg) ==
    /\ listening[f]
    /\ inbox' = [inbox EXCEPT ![f] = Append(@, msg)]
    /\ UNCHANGED raced

\* f is left out of something about the keys ks and has been answered already,
\* so that no later answer makes up for it.
Misses(f, ks) ==
    raced' = IF up[f] /\ snapped[f] THEN [raced EXCEPT ![f] = @ \cup ks] ELSE raced

-----------------------------------------------------------------------------
(* PUT handlers of the leader: /put and push_to_followers                  *)

\* f has still to be told of a write of k.
Unsent(k, f) == \E w \in writes : w.key = k /\ f \in w.unread \cup w.sending

\* kivi.put.  The write races with another write of the key that is still being
\* pushed, and with an answer that holds an older copy of the store.
PutKey(k) ==
    /\ Cardinality(writes) < PoolSize
    /\ puts < MaxPuts
    /\ puts' = puts + 1
    /\ leader_kv' = [leader_kv EXCEPT ![k] = puts']
    /\ writes' = writes \cup {[key |-> k, value |-> puts',
                               unread |-> Follower, sending |-> {}]}
    /\ raced' = [f \in Follower |->
                    IF Unsent(k, f) \/ (\E a \in answering : a.to = f)
                    THEN raced[f] \cup {k} ELSE raced[f]]
    /\ UNCHANGED <<is_alive, requests, answering, snapped, refused, follower>>

Replace(w, x) == writes' = (writes \ {w}) \cup {x}

\* The loop over the cluster starts a send to f if f is marked alive.
Launch(w, f) ==
    /\ f \in w.unread
    /\ LET x == [w EXCEPT !.unread = @ \ {f}]
       IN  IF is_alive[f]
           THEN Replace(w, [x EXCEPT !.sending = @ \cup {f}]) /\ UNCHANGED raced
           ELSE Replace(w, x) /\ Misses(f, {w.key})
    /\ UNCHANGED <<leader_kv, is_alive, requests, answering, puts, snapped, refused,
                   follower>>

\* One of the sends, which run in parallel.  A follower that does not listen has
\* still to be answered, or its answer finds it deaf too.
Push(w, f) ==
    /\ f \in w.sending
    /\ Replace(w, [w EXCEPT !.sending = @ \ {f}])
    /\ \/ Send(f, [type |-> "PUSH", key |-> w.key, value |-> w.value])
       \/ /\ UNCHANGED inbox
          /\ IF listening[f] THEN Misses(f, {w.key}) ELSE UNCHANGED raced
    /\ UNCHANGED <<leader_kv, is_alive, requests, answering, puts, kv, up,
                   listening, pulling, crashes, snapped, refused>>

\* All sends are done: the client is told OK.
Respond(w) ==
    /\ w.unread = {} /\ w.sending = {}
    /\ writes' = writes \ {w}
    /\ UNCHANGED <<leader_kv, is_alive, requests, answering, puts, snapped, raced,
                   refused, follower>>

-----------------------------------------------------------------------------
(* The leader's message server and failure detector                        *)

\* Mutant: only a follower that is marked alive is answered.
TakeSnapshotIfAlive ==
    /\ answering = {}
    /\ requests # << >>
    /\ LET f == Head(requests)
       IN  /\ answering' = IF is_alive[f] THEN {[to |-> f, data |-> leader_kv]} ELSE {}
           /\ snapped' = [snapped EXCEPT ![f] = @ \/ up[f]]
    /\ requests' = Tail(requests)
    /\ UNCHANGED <<leader_kv, writes, is_alive, puts, raced, refused, follower>>

\* push_leader_data copies the store ...
TakeSnapshot ==
    /\ answering = {}
    /\ requests # << >>
    /\ answering' = {[to |-> Head(requests), data |-> leader_kv]}
    /\ requests' = Tail(requests)
    /\ snapped' = [snapped EXCEPT ![Head(requests)] = @ \/ up[Head(requests)]]
    /\ UNCHANGED <<leader_kv, writes, is_alive, puts, raced, refused, follower>>

\* ... and sends the copy.
SendSnapshot ==
    \E a \in answering :
        /\ \/ /\ Send(a.to, [type |-> "SYNC_RESPONSE", data |-> a.data])
              /\ UNCHANGED refused
           \/ /\ UNCHANGED inbox
              /\ Misses(a.to, Key)
              /\ refused' = IF listening[a.to] THEN refused \cup {a.to} ELSE refused
        /\ answering' = {}
        /\ UNCHANGED <<leader_kv, writes, is_alive, requests, puts, kv, up,
                       listening, pulling, crashes, snapped>>

\* Heartbeats wait while the server answers.
ReceiveHeartBeat(f) ==
    /\ up[f]
    /\ answering = {}
    /\ is_alive' = [is_alive EXCEPT ![f] = TRUE]
    /\ UNCHANGED <<leader_kv, writes, requests, answering, puts, snapped, raced,
                   refused, follower>>

\* Rightly or not; HeartBeat says when.
MarkDead(f) ==
    /\ is_alive[f]
    /\ is_alive' = [is_alive EXCEPT ![f] = FALSE]
    /\ UNCHANGED <<leader_kv, writes, requests, answering, puts, snapped, raced,
                   refused, follower>>

-----------------------------------------------------------------------------
(* Followers                                                               *)

\* KiviLeaf::run starts the threads, the message server among them ...
Start(f) ==
    /\ ~up[f]
    /\ up' = [up EXCEPT ![f] = TRUE]
    /\ kv' = [kv EXCEPT ![f] = Empty]
    /\ pulling' = [pulling EXCEPT ![f] = TRUE]
    /\ snapped' = [snapped EXCEPT ![f] = FALSE]
    /\ refused' = refused \ {f}
    /\ UNCHANGED <<leader, listening, inbox, crashes, raced>>

\* ... which is bound when its thread gets that far ...
Listen(f) ==
    /\ up[f] /\ ~listening[f]
    /\ listening' = [listening EXCEPT ![f] = TRUE]
    /\ UNCHANGED <<leader, kv, up, pulling, inbox, crashes, snapped, raced, refused>>

\* Mutant: a follower that does not listen yet gives up its pull.
PullLeaderDataIfListening(f) ==
    /\ pulling[f]
    /\ pulling' = [pulling EXCEPT ![f] = FALSE]
    /\ requests' = IF listening[f] THEN Append(requests, f) ELSE requests
    /\ UNCHANGED <<leader_kv, writes, is_alive, answering, puts, kv, up,
                   listening, inbox, crashes, snapped, raced, refused>>

\* ... and pulls the leader's data without waiting for that, once.
PullLeaderData(f) ==
    /\ pulling[f]
    /\ pulling' = [pulling EXCEPT ![f] = FALSE]
    /\ \/ requests' = Append(requests, f) /\ UNCHANGED <<raced, refused>>
       \/ /\ UNCHANGED requests
          /\ raced' = [raced EXCEPT ![f] = Key]
          /\ refused' = refused \cup {f}
    /\ UNCHANGED <<leader_kv, writes, is_alive, answering, puts, kv, up,
                   listening, inbox, crashes, snapped>>

\* Mutant: the newest message first.
ReceivePushNewest(f) ==
    /\ inbox[f] # << >>
    /\ Last(inbox[f]).type = "PUSH"
    /\ kv' = [kv EXCEPT ![f][Last(inbox[f]).key] = Last(inbox[f]).value]
    /\ inbox' = [inbox EXCEPT ![f] = Front(@)]
    /\ UNCHANGED <<leader, up, listening, pulling, crashes, snapped, raced, refused>>

\* A push that is cut off is dropped.
ReceivePush(f) ==
    /\ inbox[f] # << >>
    /\ LET push == Head(inbox[f])
       IN  /\ push.type = "PUSH"
           /\ IF push.value \in Long
              THEN Misses(f, {push.key}) /\ UNCHANGED kv
              ELSE kv' = [kv EXCEPT ![f][push.key] = push.value] /\ UNCHANGED raced
    /\ inbox' = [inbox EXCEPT ![f] = Tail(@)]
    /\ UNCHANGED <<leader, up, listening, pulling, crashes, snapped, refused>>

\* Mutant: what the store holds already stays.
MergedKeeping(store, data) == [k \in Key |-> IF store[k] = 0 THEN data[k] ELSE store[k]]

\* set_kv_batch: the pairs of the answer replace or join those of the store.
Merged(store, data) == [k \in Key |-> IF data[k] = 0 THEN store[k] ELSE data[k]]

Fits(data) ==
    /\ \A k \in Key : data[k] \notin Long
    /\ Cardinality({k \in Key : data[k] # 0}) <= MaxPairs

\* And so is an answer.
ReceiveSyncResponse(f) ==
    /\ inbox[f] # << >>
    /\ Head(inbox[f]).type = "SYNC_RESPONSE"
    /\ LET data == Head(inbox[f]).data
       IN  IF Fits(data)
           THEN kv' = [kv EXCEPT ![f] = Merged(@, data)] /\ UNCHANGED raced
           ELSE raced' = [raced EXCEPT ![f] = Key] /\ UNCHANGED kv
    /\ inbox' = [inbox EXCEPT ![f] = Tail(@)]
    /\ UNCHANGED <<leader, up, listening, pulling, crashes, snapped, refused>>

\* The follower dies with what it has not handled; its request stays.
Crash(f) ==
    /\ up[f]
    /\ crashes < MaxCrashes
    /\ up' = [up EXCEPT ![f] = FALSE]
    /\ listening' = [listening EXCEPT ![f] = FALSE]
    /\ pulling' = [pulling EXCEPT ![f] = FALSE]
    /\ inbox' = [inbox EXCEPT ![f] = << >>]
    /\ crashes' = crashes + 1
    /\ UNCHANGED <<leader, kv, snapped, raced, refused>>

-----------------------------------------------------------------------------

\* The handlers that serve PUTs, each as far as it can go.
Handle ==
    \E w \in writes :
        \/ \E f \in Follower : Launch(w, f) \/ Push(w, f)
        \/ Respond(w)

Boot(f) == Listen(f) \/ PullLeaderData(f)

Receive(f) == ReceivePush(f) \/ ReceiveSyncResponse(f)

Next ==
    \/ \E k \in Key : PutKey(k)
    \/ Handle
    \/ TakeSnapshot
    \/ SendSnapshot
    \/ \E f \in Follower :
          \/ ReceiveHeartBeat(f)
          \/ MarkDead(f)
          \/ Start(f)
          \/ Boot(f)
          \/ Receive(f)
          \/ Crash(f)

Spec == Init /\ [][Next]_vars

\* Threads that can run do; clients need not put and nobody has to boot again.
Fairness ==
    /\ WF_vars(Handle)
    /\ WF_vars(TakeSnapshot)
    /\ WF_vars(SendSnapshot)
    /\ \A f \in Follower : WF_vars(Listen(f)) /\ WF_vars(PullLeaderData(f))
                             /\ WF_vars(Receive(f))

FairSpec == Spec /\ Fairness

-----------------------------------------------------------------------------
(* Properties                                                              *)

\* Nothing about k is on its way to f.
Settled(f, k) ==
    /\ up[f] /\ snapped[f]
    /\ inbox[f] = << >>
    /\ \A a \in answering : a.to # f
    /\ ~Unsent(k, f)

\* A follower that has been answered and has nothing to wait for agrees with its
\* leader on every key, except where one of these came about: a push of the key
\* left out because the follower was marked dead, refused, or cut off, each after
\* the answer; two overlapping PUTs of the key; a PUT between the copy of the store
\* and its sending; an answer refused or cut off, or a pull refused.  There is no
\* other way for pushes, answers and boots to interleave to a difference, and a
\* push that is lost before the answer is none.
DivergenceNeedsRace ==
    \A f \in Follower, k \in Key :
        Settled(f, k) /\ k \notin raced[f] => kv[f][k] = leader_kv[k]

\* Nor does a reader at a follower see a key go back to an older value.
FollowerMonotonic ==
    [][\A f \in Follower, k \in Key :
          up[f] /\ k \notin raced'[f] => kv'[f][k] >= kv[f][k]]_vars

\* A follower that stays up in the end agrees with the leader for good, with
\* the same exceptions: no thread of the two waits for another for ever.
EventuallyAgrees ==
    \A f \in Follower, k \in Key :
        <>[]up[f] => <>[](k \in raced[f] \/ kv[f][k] = leader_kv[k])

\* "fetch data from leader on boot" (kivileaf.cpp, run): what the leader holds
\* when a follower is about to pull is in the follower's store in the end, if
\* its message server was bound in time and both connections were made.
FetchesDataOfAnySize ==
    \A f \in Follower, k \in Key :
        pulling[f] /\ listening[f] /\ leader_kv[k] # 0
            ~> ~up[f] \/ f \in refused \/ kv[f][k] # 0

\* So it is as long as the leader's store fits the buffer of the receiver.
FetchesDataWhenListening ==
    \A f \in Follower, k \in Key :
        pulling[f] /\ listening[f] /\ leader_kv[k] # 0
            ~> ~up[f] \/ f \in refused \/ kv[f][k] # 0 \/ ~Fits(leader_kv)

=============================================================================
