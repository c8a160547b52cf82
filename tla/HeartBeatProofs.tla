--------------------------- MODULE HeartBeatProofs ---------------------------
(***************************************************************************)
(* Proofs about HeartBeat for every set of nodes and every value of the    *)
(* timing constants.  Accuracy needs Timely; everything else does not.     *)
(***************************************************************************)
EXTENDS HeartBeat, WellFoundedInduction, TLAPS

-----------------------------------------------------------------------------
(* Arithmetic of the constants                                             *)

LEMMA Times ==
    /\ Period \in Nat /\ HEARTBEAT_SLEEP_TIME <= Period
    /\ Timeout \in Nat
    /\ FirstBeat \in Nat
    /\ MaxGap \in Nat
    /\ MaxGap = FirstBeat + HEARTBEAT_SLEEP_TIME
    /\ MaxElapsed \in Nat /\ MaxElapsed > Timeout + 2 * Period
    /\ MaxUptime \in Nat /\ MaxUptime > FirstBeat + MaxDelay
    /\ MaxDelay \in Nat /\ MaxDelay <= Timeout
    /\ HEARTBEAT_SLEEP_TIME \in Nat \ {0}
<1> USE TimingAssumption
<1>1. /\ Period \in Nat
      /\ HEARTBEAT_SLEEP_TIME <= Period
      /\ Period = HEARTBEAT_SLEEP_TIME + Slack
  BY DEF Period
<1>2. Timeout \in Nat /\ MaxDelay <= Timeout
  BY DEF Timeout
<1>3. MaxSkips * Period \in Nat
  BY <1>1
<1>4. /\ FirstBeat \in Nat
      /\ MaxGap \in Nat
      /\ MaxGap = FirstBeat + HEARTBEAT_SLEEP_TIME
  BY <1>1, <1>3 DEF FirstBeat, MaxGap
<1>5. MaxElapsed \in Nat /\ MaxElapsed > Timeout + 2 * Period
  BY <1>1, <1>2 DEF MaxElapsed
<1>6. MaxUptime \in Nat /\ MaxUptime > FirstBeat + MaxDelay
  BY <1>4 DEF MaxUptime
<1> QED BY <1>1, <1>2, <1>4, <1>5, <1>6

LEMMA SinceSendBound ==
    ASSUME NEW s \in 0..MaxSkips, NEW r \in 0..Period
    PROVE  /\ s * Period + r \in Nat
           /\ s * Period + r <= MaxGap
           /\ (s + 1) * Period = s * Period + Period
           /\ s * Period \in Nat
<1>1. Period \in Nat /\ MaxSkips \in Nat
  BY Times, TimingAssumption
<1>2. s * Period \in Nat /\ s * Period <= MaxSkips * Period
  BY <1>1
<1>3. MaxSkips * Period \in Nat
  BY <1>1
<1>4. (s + 1) * Period = s * Period + Period
  BY <1>1
<1> QED BY <1>1, <1>2, <1>3, <1>4 DEF MaxGap

\* Clocks advance by at most one and never fall back at a tick.
LEMMA LaterBound ==
    ASSUME NEW cap \in Nat, NEW t \in 0..cap
    PROVE  Later(t, cap) \in 0..cap /\ Later(t, cap) <= t + 1 /\ t <= Later(t, cap)
BY DEF Later

LEMMA AgedProperties ==
    ASSUME NEW b \in HeartBeatMessage
    PROVE  /\ Aged(b).from = b.from
           /\ Aged(b).to = b.to
           /\ Aged(b).age = b.age + 1
           /\ b.age < MaxDelay => Aged(b) \in HeartBeatMessage
<1>1. b.age \in 0..MaxDelay /\ b = [from |-> b.from, to |-> b.to, age |-> b.age]
  BY DEF HeartBeatMessage
<1>2. Aged(b) = [from |-> b.from, to |-> b.to, age |-> b.age + 1]
  BY <1>1 DEF Aged
<1>3. b.age < MaxDelay => b.age + 1 \in 0..MaxDelay
  BY <1>1, TimingAssumption
<1> QED BY <1>2, <1>3 DEF HeartBeatMessage

-----------------------------------------------------------------------------
(* Type correctness                                                        *)

LEMMA InitTyped == Init => TypeOK
BY Times, TimingAssumption DEF Init, TypeOK

LEMMA NextTyped == TypeOK /\ [Next]_vars => TypeOK'
<1> SUFFICES ASSUME TypeOK, [Next]_vars PROVE TypeOK'
  OBVIOUS
<1> USE Times, TimingAssumption DEF TypeOK
<1>1. ASSUME NEW n \in Node, Start(n) PROVE TypeOK'
  BY <1>1 DEF Start
<1>2. ASSUME NEW n \in Node, Crash(n) PROVE TypeOK'
  BY <1>2 DEF Crash
<1>3. ASSUME NEW m \in Node, BroadcastHeartBeat(m) PROVE TypeOK'
  <2>1. PICK reached \in SUBSET {n \in Node \ {m} : up[n]} :
          /\ \A n \in Node \ {m} :
                up[n] /\ n \notin reached => skips[m][n] < MaxSkips
          /\ net' = net \cup [from : {m}, to : reached, age : {0}]
          /\ skips' = [skips EXCEPT ![m] = [n \in Node |->
                          IF up[n] /\ n # m /\ n \notin reached
                          THEN skips[m][n] + 1 ELSE 0]]
    BY <1>3 DEF BroadcastHeartBeat
  <2>2. [from : {m}, to : reached, age : {0}] \subseteq HeartBeatMessage
    BY DEF HeartBeatMessage
  <2>3. net' \in SUBSET HeartBeatMessage
    BY <2>1, <2>2
  <2>4. [n \in Node |-> IF up[n] /\ n # m /\ n \notin reached
                        THEN skips[m][n] + 1 ELSE 0] \in [Node -> 0..MaxSkips]
    BY <2>1
  <2>5. skips' \in [Node -> [Node -> 0..MaxSkips]]
    BY <2>1, <2>4
  <2> QED BY <1>3, <2>3, <2>5 DEF BroadcastHeartBeat
<1>4. ASSUME NEW n \in Node, ReceiveHeartBeat(n) PROVE TypeOK'
  <2>1. PICK b \in net :
          /\ b.to = n
          /\ elapsed' = [elapsed EXCEPT ![n][b.from] = b.age]
          /\ is_alive' = [is_alive EXCEPT ![n][b.from] = TRUE]
          /\ net' = net \ {b}
          /\ UNCHANGED <<up, round, scanned, todo, skips, uptime, crashes>>
    BY <1>4 DEF ReceiveHeartBeat
  <2>2. b.from \in Node /\ b.age \in 0..MaxElapsed
    BY DEF HeartBeatMessage
  <2> QED BY <2>1, <2>2
<1>5. ASSUME NEW n \in Node, StartScan(n) PROVE TypeOK'
  BY <1>5 DEF StartScan
<1>6. ASSUME NEW n \in Node, NEW m \in Node, Examine(n, m) PROVE TypeOK'
  <2>1. (is_alive[n][m] /\ ~Silent(n, m)) \in BOOLEAN
    OBVIOUS
  <2> QED BY <1>6, <2>1 DEF Examine
<1>7. ASSUME Tick PROVE TypeOK'
  <2>1. elapsed' \in [Node -> [Node -> 0..MaxElapsed]]
    BY <1>7, LaterBound DEF Tick
  <2>2. uptime' \in [Node -> 0..MaxUptime]
    BY <1>7, LaterBound DEF Tick
  <2>3. round' \in [Node -> 0..Period] /\ scanned' \in [Node -> 0..Period]
    BY <1>7 DEF Tick
  <2>4. net' \in SUBSET HeartBeatMessage
    BY <1>7, AgedProperties DEF Tick
  <2> QED BY <1>7, <2>1, <2>2, <2>3, <2>4 DEF Tick
<1>8. CASE UNCHANGED vars
  BY <1>8 DEF vars
<1> QED BY <1>1, <1>2, <1>3, <1>4, <1>5, <1>6, <1>7, <1>8 DEF Next, Step

\* Every state is well typed: clocks stay within their rounds, and no send
\* fails oftener in a row than the bound allows.
THEOREM HeartBeatTyped == Spec => []TypeOK
BY InitTyped, NextTyped, PTL DEF Spec

-----------------------------------------------------------------------------
(* The oldest heartbeat of a channel                                       *)

LEMMA Oldest ==
    ASSUME NEW T \in SUBSET HeartBeatMessage, T # {}
    PROVE  \E x \in T : \A y \in T : y.age <= x.age
<1> DEFINE Room == {MaxDelay - b.age : b \in T}
           R    == OpToRel(<, Nat)
<1>1. \A b \in T : b.age \in 0..MaxDelay
  BY DEF HeartBeatMessage
<1>2. Room \subseteq Nat /\ Room # {}
  BY <1>1, TimingAssumption
<1>3. IsWellFoundedOn(R, Nat)
  BY NatLessThanWellFounded
<1> HIDE DEF R, Room
<1>4. \E d \in Room : \A e \in Room : ~ (<<e, d>> \in R)
  BY <1>2, <1>3, WFMin
<1>5. PICK d \in Room : \A e \in Room : ~ (<<e, d>> \in R)
  BY <1>4
<1>6. \A e \in Room : ~(e < d)
  BY <1>2, <1>5 DEF R, OpToRel
<1>7. PICK x \in T : d = MaxDelay - x.age
  BY DEF Room
<1>8. \A y \in T : MaxDelay - y.age \in Room
  BY DEF Room
<1> QED BY <1>1, <1>6, <1>7, <1>8, TimingAssumption

-----------------------------------------------------------------------------
(* The inductive invariant, one pair of nodes at a time                    *)

NetUp == \A b \in net : up[b.to]

PairInv(n, m) ==
    /\ InOrder(n, m)
    /\ Scanned(n, m)
    /\ up[m] => HeardOrPending(n, m) /\ NoGap(n, m)
    /\ Timely /\ up[m] => DeadIsNew(n, m)

AllPairs == \A n, m \in Node : n # m /\ up[n] => PairInv(n, m)

LEMMA HeartBeatInvPairs == HeartBeatInv <=> NetUp /\ AllPairs
BY DEF HeartBeatInv, NetUp, AllPairs, PairInv

\* A step that leaves alone all that a pair's invariant reads preserves it.
LEMMA Untouched ==
    ASSUME NEW n \in Node, NEW m \in Node, PairInv(n, m),
           Pending(n, m)' = Pending(n, m),
           elapsed'[n][m] = elapsed[n][m],
           is_alive'[n][m] = is_alive[n][m],
           scanned'[n] = scanned[n],
           (m \in todo[n])' <=> m \in todo[n],
           up'[m] => /\ up[m]
                     /\ skips'[m][n] = skips[m][n]
                     /\ round'[m] = round[m]
                     /\ uptime'[m] = uptime[m]
    PROVE  PairInv(n, m)'
<1>1. InOrder(n, m)'
  BY DEF PairInv, InOrder
<1>2. Scanned(n, m)'
  BY DEF PairInv, Scanned
<1>3. ASSUME up'[m] PROVE SinceSend(n, m)' = SinceSend(n, m)
  BY <1>3 DEF SinceSend
<1>4. up'[m] => HeardOrPending(n, m)' /\ NoGap(n, m)'
  BY <1>3 DEF PairInv, HeardOrPending, NoGap
<1>5. Timely /\ up'[m] => DeadIsNew(n, m)'
  BY <1>3 DEF PairInv, DeadIsNew
<1> QED BY <1>1, <1>2, <1>4, <1>5 DEF PairInv, Timely

LEMMA StartKeeps ==
    ASSUME TypeOK, NetUp, AllPairs, NEW k \in Node, Start(k)
    PROVE  NetUp' /\ AllPairs'
<1> USE Times
<1>1. NetUp'
  BY DEF NetUp, Start, TypeOK, HeartBeatMessage
<1>2. ASSUME NEW n \in Node, NEW m \in Node, n # m, up'[n]
      PROVE  PairInv(n, m)'
  <2>1. CASE n = k
    <3>1. Pending(n, m)' = {}
      BY <2>1 DEF Pending, NetUp, Start
    <3>2. elapsed'[n][m] = 0 /\ is_alive'[n][m] = TRUE
      BY <2>1 DEF Start, TypeOK
    <3>3. skips'[m][n] \in 0..MaxSkips /\ round'[m] \in 0..Period
      BY <1>2, <2>1 DEF Start, TypeOK
    <3>4. SinceSend(n, m)' \in Nat
      BY <3>3, SinceSendBound DEF SinceSend
    <3>5. scanned'[n] \in Nat
      BY <2>1 DEF Start, TypeOK
    <3>6. InOrder(n, m)' /\ NoGap(n, m)'
      BY <3>1 DEF InOrder, NoGap
    <3>7. Scanned(n, m)'
      BY <3>2, <3>5 DEF Scanned
    <3>8. HeardOrPending(n, m)'
      BY <3>2, <3>4 DEF HeardOrPending
    <3>9. DeadIsNew(n, m)'
      BY <3>2 DEF DeadIsNew
    <3> QED BY <3>6, <3>7, <3>8, <3>9 DEF PairInv
  <2>2. CASE m = k
    <3>0. up[n] /\ PairInv(n, m)
      BY <1>2, <2>2 DEF Start, TypeOK, AllPairs
    <3>1. /\ uptime'[m] = 0
          /\ skips'[m][n] = 0
          /\ round'[m] = HEARTBEAT_SLEEP_TIME
      BY <2>2 DEF Start, TypeOK
    <3>2. SinceSend(n, m)' = HEARTBEAT_SLEEP_TIME
      BY <3>1 DEF SinceSend
    <3>3. /\ Pending(n, m)' = Pending(n, m)
          /\ elapsed'[n][m] = elapsed[n][m]
          /\ is_alive'[n][m] = is_alive[n][m]
          /\ scanned'[n] = scanned[n]
          /\ todo'[n] = todo[n]
      BY <1>2, <2>2 DEF Start, TypeOK, Pending
    <3>4. \A y \in Pending(n, m) : y.age \in Nat
      BY DEF Pending, TypeOK, HeartBeatMessage
    <3>5. InOrder(n, m)'
      BY <3>0, <3>3 DEF PairInv, InOrder
    <3>6. Scanned(n, m)'
      BY <3>0, <3>3 DEF PairInv, Scanned
    <3>7. HeardOrPending(n, m)' /\ DeadIsNew(n, m)'
      BY <3>1, <3>2 DEF HeardOrPending, DeadIsNew
    <3>8. NoGap(n, m)'
      BY <3>1, <3>3, <3>4 DEF NoGap
    <3> QED BY <3>5, <3>6, <3>7, <3>8 DEF PairInv
  <2>3. CASE n # k /\ m # k
    <3>1. up[n] /\ PairInv(n, m)
      BY <1>2, <2>3 DEF Start, TypeOK, AllPairs
    <3>2. /\ Pending(n, m)' = Pending(n, m)
          /\ elapsed'[n][m] = elapsed[n][m]
          /\ is_alive'[n][m] = is_alive[n][m]
          /\ scanned'[n] = scanned[n]
          /\ todo'[n] = todo[n]
          /\ up'[m] = up[m]
          /\ skips'[m][n] = skips[m][n]
          /\ round'[m] = round[m]
          /\ uptime'[m] = uptime[m]
      BY <2>3 DEF Start, TypeOK, Pending
    <3> QED BY <3>1, <3>2, Untouched
  <2> QED BY <2>1, <2>2, <2>3
<1> QED BY <1>1, <1>2 DEF AllPairs

LEMMA CrashKeeps ==
    ASSUME TypeOK, NetUp, AllPairs, NEW k \in Node, Crash(k)
    PROVE  NetUp' /\ AllPairs'
<1>1. NetUp'
  BY DEF NetUp, Crash, TypeOK, HeartBeatMessage
<1>2. ASSUME NEW n \in Node, NEW m \in Node, n # m, up'[n]
      PROVE  PairInv(n, m)'
  <2>1. n # k /\ up[n] /\ PairInv(n, m)
    BY <1>2 DEF Crash, TypeOK, AllPairs
  <2>2. Pending(n, m)' = Pending(n, m)
    BY <2>1 DEF Crash, Pending
  <2>3. up'[m] => up[m]
    BY DEF Crash, TypeOK
  <2> QED BY <2>1, <2>2, <2>3, Untouched DEF Crash
<1> QED BY <1>1, <1>2 DEF AllPairs

LEMMA BroadcastKeeps ==
    ASSUME TypeOK, NetUp, AllPairs, NEW k \in Node, BroadcastHeartBeat(k)
    PROVE  NetUp' /\ AllPairs'
<1> USE Times
<1>1. PICK reached \in SUBSET {n \in Node \ {k} : up[n]} :
        /\ \A n \in Node \ {k} :
              up[n] /\ n \notin reached => skips[k][n] < MaxSkips
        /\ net' = net \cup [from : {k}, to : reached, age : {0}]
        /\ skips' = [skips EXCEPT ![k] = [n \in Node |->
                        IF up[n] /\ n # k /\ n \notin reached
                        THEN skips[k][n] + 1 ELSE 0]]
  BY DEF BroadcastHeartBeat
<1>2. /\ round' = [round EXCEPT ![k] = 0]
      /\ UNCHANGED <<up, is_alive, elapsed, scanned, todo, uptime, crashes>>
  BY DEF BroadcastHeartBeat
<1>3. NetUp'
  BY <1>1, <1>2 DEF NetUp
<1>4. ASSUME NEW n \in Node, NEW m \in Node, n # m, up'[n]
      PROVE  PairInv(n, m)'
  <2>1. up[n] /\ PairInv(n, m)
    BY <1>2, <1>4 DEF AllPairs
  <2>2. CASE m # k
    <3>1. Pending(n, m)' = Pending(n, m)
      BY <1>1, <2>2 DEF Pending
    <3>2. skips'[m][n] = skips[m][n] /\ round'[m] = round[m]
      BY <1>1, <1>2, <2>2 DEF TypeOK
    <3> QED BY <1>2, <2>1, <3>1, <3>2, Untouched
  <2>3. CASE m = k
    <3>0. /\ skips[m][n] \in 0..MaxSkips
          /\ round[m] \in 0..Period
          /\ uptime[m] \in Nat
          /\ elapsed[n][m] \in Nat
          /\ round'[m] = 0
          /\ \A y \in Pending(n, m) : y.age \in Nat
      BY <1>2, <2>3 DEF TypeOK, Pending, HeartBeatMessage
    <3>1. /\ SinceSend(n, m) \in Nat
          /\ SinceSend(n, m) <= MaxGap
          /\ SinceSend(n, m) <= skips[m][n] * Period + Period
          /\ skips[m][n] * Period + Period = (skips[m][n] + 1) * Period
          /\ skips[m][n] * Period \in Nat
      <4> DEFINE p == skips[m][n] * Period
      <4>1. /\ p + round[m] \in Nat
            /\ p + round[m] <= MaxGap
            /\ (skips[m][n] + 1) * Period = p + Period
            /\ p \in Nat
        BY <3>0, SinceSendBound
      <4>2. SinceSend(n, m) = p + round[m]
        BY DEF SinceSend
      <4> HIDE DEF p
      <4>3. p + round[m] <= p + Period
        BY <3>0, <4>1
      <4> QED BY <4>1, <4>2, <4>3 DEF p
    <3>2. /\ InOrder(n, m)
          /\ Scanned(n, m)
          /\ up[m] => HeardOrPending(n, m) /\ NoGap(n, m)
          /\ Timely /\ up[m] => DeadIsNew(n, m)
      BY <2>1 DEF PairInv
    <3>3. Scanned(n, m)'
      BY <1>2, <3>2 DEF Scanned
    <3>4. CASE n \in reached
      <4> DEFINE b == [from |-> m, to |-> n, age |-> 0]
      <4>1. Pending(n, m)' = Pending(n, m) \cup {b}
        BY <1>1, <2>3, <3>4 DEF Pending
      <4>2. b.age = 0 /\ b \in Pending(n, m)'
        BY <4>1
      <4> HIDE DEF b
      <4>3. skips'[m][n] = 0
        BY <1>1, <2>3, <3>4 DEF TypeOK
      <4>4. SinceSend(n, m)' = 0
        BY <3>0, <4>3 DEF SinceSend
      <4>5. InOrder(n, m)'
        BY <1>2, <3>0, <3>2, <4>1, <4>2 DEF InOrder
      <4>6. HeardOrPending(n, m)'
        BY <4>2, <4>4 DEF HeardOrPending
      <4>7. ASSUME up[m] PROVE NoGap(n, m)'
        <5>1. ASSUME NEW y \in Pending(n, m)
              PROVE  \/ elapsed'[n][m] <= y.age + MaxGap
                     \/ \E x \in Pending(n, m)' :
                            y.age < x.age /\ x.age <= y.age + MaxGap
                     \/ uptime'[m] <= y.age + FirstBeat
          BY <1>2, <3>2, <4>1, <4>7 DEF NoGap
        <5>2. CASE b \in Pending(n, m)
          BY <4>1, <5>1, <5>2 DEF NoGap
        <5>3. CASE b \notin Pending(n, m)
          <6>1. CASE elapsed[n][m] <= SinceSend(n, m)
            <7>1. elapsed'[n][m] <= b.age + MaxGap
              BY <1>2, <3>0, <3>1, <4>2, <6>1
            <7> QED BY <4>1, <5>1, <7>1 DEF NoGap
          <6>2. CASE \E x \in Pending(n, m) : x.age <= SinceSend(n, m)
            <7>1. PICK x \in Pending(n, m) : x.age <= SinceSend(n, m)
              BY <6>2
            <7>2. x.age # 0
              <8>1. x.from = m /\ x.to = n /\ x \in HeartBeatMessage
                BY DEF Pending, TypeOK
              <8>2. x = [from |-> x.from, to |-> x.to, age |-> x.age]
                BY <8>1 DEF HeartBeatMessage
              <8> QED BY <5>3, <8>1, <8>2 DEF b
            <7>3. b.age < x.age /\ x.age <= b.age + MaxGap
              BY <3>0, <3>1, <4>2, <7>1, <7>2
            <7>4. x \in Pending(n, m)'
              BY <4>1
            <7> QED BY <4>1, <5>1, <7>3, <7>4 DEF NoGap
          <6>3. CASE uptime[m] <= SinceSend(n, m) - HEARTBEAT_SLEEP_TIME
            <7>1. uptime'[m] <= b.age + FirstBeat
              BY <1>2, <3>0, <3>1, <4>2, <6>3
            <7> QED BY <4>1, <5>1, <7>1 DEF NoGap
          <6> QED BY <3>2, <4>7, <6>1, <6>2, <6>3 DEF HeardOrPending
        <5> QED BY <5>2, <5>3
      <4>8. ASSUME Timely, up[m] PROVE DeadIsNew(n, m)'
        <5>1. CASE uptime[m] <= SinceSend(n, m) - HEARTBEAT_SLEEP_TIME
          <6>1. uptime'[m] <= b.age + FirstBeat
            BY <1>2, <3>0, <3>1, <4>2, <5>1
          <6> QED BY <4>2, <6>1 DEF DeadIsNew
        <5>2. CASE \E y \in Pending(n, m) : uptime[m] <= y.age + FirstBeat
          BY <1>2, <4>1, <5>2 DEF DeadIsNew
        <5>3. CASE is_alive[n][m]
          BY <1>2, <5>3 DEF DeadIsNew
        <5> QED BY <3>2, <4>8, <5>1, <5>2, <5>3 DEF DeadIsNew
      <4> QED BY <1>2, <3>3, <4>5, <4>6, <4>7, <4>8 DEF PairInv, Timely
    <3>5. CASE n \notin reached
      <4>1. Pending(n, m)' = Pending(n, m)
        BY <1>1, <2>3, <3>5 DEF Pending
      <4>2. skips'[m][n] = skips[m][n] + 1
        BY <1>1, <1>4, <2>1, <2>3, <3>5 DEF TypeOK
      <4>3. /\ SinceSend(n, m)' = (skips[m][n] + 1) * Period + 0
            /\ SinceSend(n, m)' >= SinceSend(n, m)
            /\ SinceSend(n, m)' \in Nat
        <5>1. SinceSend(n, m)' = (skips[m][n] + 1) * Period + 0
          BY <3>0, <4>2 DEF SinceSend
        <5> HIDE DEF SinceSend
        <5> QED BY <3>1, <5>1
      <4>4. InOrder(n, m)'
        BY <1>2, <3>2, <4>1 DEF InOrder
      <4>5. up[m] => HeardOrPending(n, m)'
        BY <1>2, <3>0, <3>1, <3>2, <4>1, <4>3 DEF HeardOrPending
      <4>6. up[m] => NoGap(n, m)'
        BY <1>2, <3>2, <4>1 DEF NoGap
      <4>7. Timely /\ up[m] => DeadIsNew(n, m)'
        BY <1>2, <3>0, <3>1, <3>2, <4>1, <4>3 DEF DeadIsNew
      <4> QED BY <1>2, <3>3, <4>4, <4>5, <4>6, <4>7 DEF PairInv, Timely
    <3> QED BY <3>4, <3>5
  <2> QED BY <2>2, <2>3
<1> QED BY <1>2, <1>3, <1>4 DEF AllPairs

LEMMA ReceiveKeeps ==
    ASSUME TypeOK, NetUp, AllPairs, NEW k \in Node, ReceiveHeartBeat(k)
    PROVE  NetUp' /\ AllPairs'
<1> USE Times
<1>1. PICK b \in net :
        /\ b.to = k
        /\ NextFrom(b)
        /\ elapsed' = [elapsed EXCEPT ![k][b.from] = b.age]
        /\ is_alive' = [is_alive EXCEPT ![k][b.from] = TRUE]
        /\ net' = net \ {b}
        /\ UNCHANGED <<up, round, scanned, todo, skips, uptime, crashes>>
  BY DEF ReceiveHeartBeat
<1>2. NetUp'
  BY <1>1 DEF NetUp
<1>3. b.from \in Node /\ b.age \in 0..MaxDelay
  BY DEF TypeOK, HeartBeatMessage
<1>4. ASSUME NEW n \in Node, NEW m \in Node, n # m, up'[n]
      PROVE  PairInv(n, m)'
  <2>1. up[n] /\ PairInv(n, m)
    BY <1>1, <1>4 DEF AllPairs
  <2>2. CASE ~(n = k /\ m = b.from)
    <3>1. Pending(n, m)' = Pending(n, m)
      BY <1>1, <2>2 DEF Pending
    <3>2. elapsed'[n][m] = elapsed[n][m] /\ is_alive'[n][m] = is_alive[n][m]
      BY <1>1, <1>3, <2>2 DEF TypeOK
    <3> QED BY <1>1, <2>1, <3>1, <3>2, Untouched
  <2>3. CASE n = k /\ m = b.from
    <3>1. /\ b \in Pending(n, m)
          /\ Pending(n, m)' = Pending(n, m) \ {b}
          /\ elapsed'[n][m] = b.age
          /\ is_alive'[n][m] = TRUE
      BY <1>1, <1>3, <2>3 DEF Pending, TypeOK
    <3>2. /\ elapsed[n][m] \in Nat
          /\ scanned[n] \in Nat
          /\ uptime[m] \in Nat
          /\ \A y \in Pending(n, m) : y.age \in Nat
      BY DEF TypeOK, Pending, HeartBeatMessage
    <3>3. /\ InOrder(n, m)
          /\ up[m] => HeardOrPending(n, m) /\ NoGap(n, m)
      BY <2>1 DEF PairInv
    <3>4. b.age <= elapsed[n][m]
      BY <3>1, <3>3 DEF InOrder
    <3>5. \A y \in Pending(n, m)' : y \in Pending(n, m) /\ y.age <= b.age
      BY <1>1, <2>3, <3>1 DEF NextFrom, Pending
    <3>6. InOrder(n, m)'
      BY <3>1, <3>5 DEF InOrder
    <3>7. Scanned(n, m)'
      BY <1>1, <1>3, <3>1, <3>2 DEF Scanned
    <3>8. SinceSend(n, m)' = SinceSend(n, m) /\ SinceSend(n, m) \in Nat
      <4>1. skips[m][n] \in 0..MaxSkips /\ round[m] \in 0..Period
        BY DEF TypeOK
      <4> QED BY <1>1, <4>1, SinceSendBound DEF SinceSend
    <3>9. ASSUME up[m] PROVE HeardOrPending(n, m)'
      <4>1. CASE elapsed[n][m] <= SinceSend(n, m)
        BY <1>3, <3>1, <3>2, <3>4, <3>8, <4>1 DEF HeardOrPending
      <4>2. CASE \E x \in Pending(n, m) : x.age <= SinceSend(n, m)
        BY <3>1, <3>8, <4>2 DEF HeardOrPending
      <4>3. CASE uptime[m] <= SinceSend(n, m) - HEARTBEAT_SLEEP_TIME
        BY <1>1, <3>8, <4>3 DEF HeardOrPending
      <4> QED BY <3>3, <3>9, <4>1, <4>2, <4>3 DEF HeardOrPending
    <3>10. ASSUME up[m], NEW y \in Pending(n, m)'
           PROVE  \/ elapsed'[n][m] <= y.age + MaxGap
                  \/ \E x \in Pending(n, m)' :
                         y.age < x.age /\ x.age <= y.age + MaxGap
                  \/ uptime'[m] <= y.age + FirstBeat
      <4>1. y \in Pending(n, m) /\ y.age \in Nat
        BY <3>2, <3>5
      <4>2. CASE elapsed[n][m] <= y.age + MaxGap
        BY <1>3, <3>1, <3>2, <3>4, <4>1, <4>2
      <4>3. CASE \E x \in Pending(n, m) : y.age < x.age /\ x.age <= y.age + MaxGap
        BY <3>1, <4>3
      <4>4. CASE uptime[m] <= y.age + FirstBeat
        BY <1>1, <4>4
      <4> QED BY <3>3, <3>10, <4>1, <4>2, <4>3, <4>4 DEF NoGap
    <3>11. up[m] => NoGap(n, m)'
      BY <3>10 DEF NoGap
    <3>12. DeadIsNew(n, m)'
      BY <3>1 DEF DeadIsNew
    <3> QED BY <1>1, <3>6, <3>7, <3>9, <3>11, <3>12 DEF PairInv
  <2> QED BY <2>2, <2>3
<1> QED BY <1>1, <1>2, <1>4 DEF AllPairs

LEMMA StartScanKeeps ==
    ASSUME TypeOK, NetUp, AllPairs, NEW k \in Node, StartScan(k)
    PROVE  NetUp' /\ AllPairs'
<1> USE Times
<1>1. /\ todo[k] = {}
      /\ scanned' = [scanned EXCEPT ![k] = 0]
      /\ todo' = [todo EXCEPT ![k] = Node \ {k}]
      /\ UNCHANGED <<up, is_alive, elapsed, round, net, skips, uptime, crashes>>
  BY DEF StartScan
<1>2. NetUp'
  BY <1>1 DEF NetUp
<1>3. ASSUME NEW n \in Node, NEW m \in Node, n # m, up'[n]
      PROVE  PairInv(n, m)'
  <2>1. up[n] /\ PairInv(n, m) /\ Pending(n, m)' = Pending(n, m)
    BY <1>1, <1>3 DEF AllPairs, Pending
  <2>2. CASE n # k
    <3>1. scanned'[n] = scanned[n] /\ todo'[n] = todo[n]
      BY <1>1, <2>2 DEF TypeOK
    <3> QED BY <1>1, <2>1, <3>1, Untouched
  <2>3. CASE n = k
    <3>1. /\ m \notin todo[n]
          /\ scanned[n] \in 0..Period
          /\ scanned'[n] = 0
          /\ m \in todo'[n]
          /\ elapsed[n][m] \in Nat
      BY <1>1, <1>3, <2>3 DEF TypeOK
    <3>2. Scanned(n, m)'
      BY <1>1, <2>1, <3>1 DEF PairInv, Scanned
    <3>3. InOrder(n, m)' /\ (up[m] => HeardOrPending(n, m)' /\ NoGap(n, m)')
      BY <1>1, <2>1 DEF PairInv, InOrder, HeardOrPending, NoGap, SinceSend
    <3>4. Timely /\ up[m] => DeadIsNew(n, m)'
      BY <1>1, <2>1 DEF PairInv, DeadIsNew, SinceSend
    <3> QED BY <1>1, <3>2, <3>3, <3>4 DEF PairInv, Timely
  <2> QED BY <2>2, <2>3
<1> QED BY <1>1, <1>2, <1>3 DEF AllPairs

\* A peer that is up and silent for longer than the timeout is new: the
\* timeout outlasts every gap in front of the oldest heartbeat on its way.
LEMMA SilentIsNew ==
    ASSUME TypeOK, NEW n \in Node, NEW m \in Node, Timely,
           HeardOrPending(n, m), NoGap(n, m), elapsed[n][m] > Timeout
    PROVE  \/ uptime[m] <= SinceSend(n, m) - HEARTBEAT_SLEEP_TIME
           \/ \E y \in Pending(n, m) : uptime[m] <= y.age + FirstBeat
<1> USE Times
<1>1. /\ elapsed[n][m] \in Nat
      /\ \A y \in Pending(n, m) : y.age \in 0..MaxDelay
      /\ Pending(n, m) \in SUBSET HeartBeatMessage
  BY DEF TypeOK, Pending, HeartBeatMessage
<1>2. SinceSend(n, m) \in Nat /\ SinceSend(n, m) <= MaxGap
  <2>1. skips[m][n] \in 0..MaxSkips /\ round[m] \in 0..Period
    BY DEF TypeOK
  <2> QED BY <2>1, SinceSendBound DEF SinceSend
<1>3. ~(elapsed[n][m] <= SinceSend(n, m))
  BY <1>1, <1>2 DEF Timely
<1>4. CASE Pending(n, m) = {}
  BY <1>3, <1>4 DEF HeardOrPending
<1>5. CASE Pending(n, m) # {}
  <2>1. PICK y \in Pending(n, m) : \A x \in Pending(n, m) : x.age <= y.age
    BY <1>1, <1>5, Oldest
  <2>2. ~(elapsed[n][m] <= y.age + MaxGap)
    BY <1>1 DEF Timely
  <2>3. \A x \in Pending(n, m) : ~(y.age < x.age)
    BY <1>1, <2>1
  <2> QED BY <2>2, <2>3 DEF NoGap
<1> QED BY <1>4, <1>5

LEMMA ExamineKeeps ==
    ASSUME TypeOK, NetUp, AllPairs, NEW k \in Node, NEW j \in Node, Examine(k, j)
    PROVE  NetUp' /\ AllPairs'
<1> USE Times
<1>1. /\ is_alive' = [is_alive EXCEPT ![k][j] =
                         is_alive[k][j] /\ ~Silent(k, j)]
      /\ todo' = [todo EXCEPT ![k] = todo[k] \ {j}]
      /\ UNCHANGED <<up, elapsed, round, scanned, net, skips, uptime, crashes>>
  BY DEF Examine
<1>2. NetUp'
  BY <1>1 DEF NetUp
<1>3. ASSUME NEW n \in Node, NEW m \in Node, n # m, up'[n]
      PROVE  PairInv(n, m)'
  <2>1. up[n] /\ PairInv(n, m) /\ Pending(n, m)' = Pending(n, m)
    BY <1>1, <1>3 DEF AllPairs, Pending
  <2>2. CASE ~(n = k /\ m = j)
    <3>1. is_alive'[n][m] = is_alive[n][m] /\ ((m \in todo[n])' <=> m \in todo[n])
      BY <1>1, <2>2 DEF TypeOK
    <3> QED BY <1>1, <2>1, <3>1, Untouched
  <2>3. CASE n = k /\ m = j
    <3>1. /\ is_alive'[n][m] = (is_alive[n][m] /\ ~Silent(n, m))
          /\ m \notin todo'[n]
      BY <1>1, <2>3 DEF TypeOK
    <3>2. elapsed[n][m] \in Nat /\ scanned[n] \in Nat
      BY DEF TypeOK
    <3>3. Scanned(n, m)'
      <4>1. is_alive'[n][m] => ~Silent(n, m)
        BY <3>1, Zenon
      <4>2. ~Silent(n, m) => elapsed[n][m] <= Timeout + scanned[n]
        BY <3>2 DEF Silent
      <4> QED BY <1>1, <3>1, <3>2, <4>1, <4>2 DEF Scanned
    <3>4. InOrder(n, m)' /\ (up[m] => HeardOrPending(n, m)' /\ NoGap(n, m)')
      BY <1>1, <2>1 DEF PairInv, InOrder, HeardOrPending, NoGap, SinceSend
    <3>5. SinceSend(n, m)' = SinceSend(n, m)
      BY <1>1 DEF SinceSend
    <3>6. ASSUME Timely, up[m] PROVE DeadIsNew(n, m)'
      <4>1. CASE is_alive[n][m] /\ Silent(n, m)
        <5>1. elapsed[n][m] > Timeout
          BY <3>2, <4>1 DEF Silent
        <5>2. \/ uptime[m] <= SinceSend(n, m) - HEARTBEAT_SLEEP_TIME
              \/ \E y \in Pending(n, m) : uptime[m] <= y.age + FirstBeat
          BY <2>1, <3>6, <5>1, SilentIsNew DEF PairInv
        <5> QED BY <1>1, <2>1, <3>5, <5>2 DEF DeadIsNew
      <4>2. CASE ~is_alive[n][m]
        BY <1>1, <2>1, <3>5, <3>6, <4>2 DEF DeadIsNew, PairInv
      <4>3. CASE is_alive[n][m] /\ ~Silent(n, m)
        BY <3>1, <4>3 DEF DeadIsNew
      <4> QED BY <4>1, <4>2, <4>3
    <3> QED BY <1>1, <3>3, <3>4, <3>6 DEF PairInv, Timely
  <2> QED BY <2>2, <2>3
<1> QED BY <1>1, <1>2, <1>3 DEF AllPairs

LEMMA TickKeeps ==
    ASSUME TypeOK, NetUp, AllPairs, Tick
    PROVE  NetUp' /\ AllPairs'
<1> USE Times
<1>1. /\ \A b \in net : b.age < MaxDelay
      /\ net' = {Aged(b) : b \in net}
      /\ UNCHANGED <<up, is_alive, todo, skips, crashes>>
  BY DEF Tick
<1>2. \A b \in net : /\ Aged(b).from = b.from
                     /\ Aged(b).to = b.to
                     /\ Aged(b).age = b.age + 1
                     /\ b.age \in 0..MaxDelay
  BY AgedProperties DEF TypeOK, HeartBeatMessage
<1>3. NetUp'
  BY <1>1, <1>2 DEF NetUp
<1>4. ASSUME NEW n \in Node, NEW m \in Node, n # m, up'[n]
      PROVE  PairInv(n, m)'
  <2>1. up[n] /\ PairInv(n, m)
    BY <1>1, <1>4 DEF AllPairs
  <2>2. /\ elapsed[n][m] \in 0..MaxElapsed
        /\ elapsed'[n][m] = Later(elapsed[n][m], MaxElapsed)
        /\ scanned[n] \in Nat
        /\ scanned'[n] = scanned[n] + 1
        /\ up[m] => round'[m] = round[m] + 1 /\ uptime'[m] = Later(uptime[m], MaxUptime)
        /\ uptime[m] \in 0..MaxUptime
        /\ skips[m][n] \in 0..MaxSkips
        /\ round[m] \in 0..Period
    BY <1>4, <2>1 DEF Tick, TypeOK
  <2>3. /\ elapsed'[n][m] <= elapsed[n][m] + 1
        /\ elapsed'[n][m] >= elapsed[n][m]
        /\ elapsed'[n][m] \in 0..MaxElapsed
        /\ elapsed[n][m] < MaxElapsed => elapsed'[n][m] = elapsed[n][m] + 1
        /\ elapsed[n][m] >= MaxElapsed => elapsed'[n][m] >= MaxElapsed
    BY <2>2 DEF Later
  <2>4. up[m] => uptime'[m] <= uptime[m] + 1 /\ uptime'[m] \in 0..MaxUptime
    BY <2>2 DEF Later
  <2>5. Pending(n, m)' = {Aged(b) : b \in Pending(n, m)}
    BY <1>1, <1>2 DEF Pending
  <2>6. \A b \in Pending(n, m) : /\ Aged(b).age = b.age + 1
                                 /\ b.age \in 0..MaxDelay
                                 /\ b.age < MaxDelay
                                 /\ Aged(b) \in Pending(n, m)'
    BY <1>1, <1>2, <2>5 DEF Pending
  <2>7. \A y \in Pending(n, m)' :
          \E b \in Pending(n, m) : y = Aged(b) /\ y.age = b.age + 1
    BY <2>5, <2>6
  <2>8. SinceSend(n, m) \in Nat /\ (up[m] => SinceSend(n, m)' = SinceSend(n, m) + 1)
    <3>1. /\ skips[m][n] * Period \in Nat
          /\ skips[m][n] * Period + round[m] \in Nat
      BY <2>2, SinceSendBound
    <3>2. up[m] => SinceSend(n, m)' = skips[m][n] * Period + (round[m] + 1)
      BY <1>1, <2>2 DEF SinceSend
    <3>3. SinceSend(n, m) = skips[m][n] * Period + round[m]
      BY DEF SinceSend
    <3> QED BY <2>2, <3>1, <3>2, <3>3
  <2>9. /\ InOrder(n, m)
        /\ Scanned(n, m)
        /\ up[m] => HeardOrPending(n, m) /\ NoGap(n, m)
        /\ Timely /\ up[m] => DeadIsNew(n, m)
    BY <2>1 DEF PairInv
  <2>10. InOrder(n, m)'
    <3> SUFFICES ASSUME NEW y \in Pending(n, m)' PROVE y.age <= elapsed'[n][m]
      BY DEF InOrder
    <3>1. PICK b \in Pending(n, m) : y = Aged(b) /\ y.age = b.age + 1
      BY <2>7
    <3>2. b.age <= elapsed[n][m] /\ b.age \in 0..MaxDelay /\ b.age < MaxDelay
      BY <2>6, <2>9 DEF InOrder
    <3> QED BY <2>2, <2>3, <3>1, <3>2
  <2>11. Scanned(n, m)'
    BY <1>1, <2>2, <2>3, <2>9 DEF Scanned
  <2>12. ASSUME up[m] PROVE HeardOrPending(n, m)'
    <3>1. CASE elapsed[n][m] <= SinceSend(n, m)
      BY <2>2, <2>3, <2>8, <2>12, <3>1 DEF HeardOrPending
    <3>2. CASE \E x \in Pending(n, m) : x.age <= SinceSend(n, m)
      BY <2>6, <2>8, <2>12, <3>2 DEF HeardOrPending
    <3>3. CASE uptime[m] <= SinceSend(n, m) - HEARTBEAT_SLEEP_TIME
      BY <2>2, <2>4, <2>8, <2>12, <3>3 DEF HeardOrPending
    <3> QED BY <2>9, <2>12, <3>1, <3>2, <3>3 DEF HeardOrPending
  <2>13. ASSUME up[m] PROVE NoGap(n, m)'
    <3> SUFFICES ASSUME NEW y \in Pending(n, m)'
                 PROVE  \/ elapsed'[n][m] <= y.age + MaxGap
                        \/ \E x \in Pending(n, m)' :
                               y.age < x.age /\ x.age <= y.age + MaxGap
                        \/ uptime'[m] <= y.age + FirstBeat
      BY DEF NoGap
    <3>1. PICK b \in Pending(n, m) : y = Aged(b) /\ y.age = b.age + 1
      BY <2>7
    <3>2. b.age \in 0..MaxDelay
      BY <2>6
    <3>3. CASE elapsed[n][m] <= b.age + MaxGap
      BY <2>2, <2>3, <3>1, <3>2, <3>3
    <3>4. CASE \E x \in Pending(n, m) : b.age < x.age /\ x.age <= b.age + MaxGap
      <4>1. PICK x \in Pending(n, m) : b.age < x.age /\ x.age <= b.age + MaxGap
        BY <3>4
      <4>2. Aged(x).age = x.age + 1 /\ Aged(x) \in Pending(n, m)' /\ x.age \in Nat
        BY <2>6
      <4>3. y.age < Aged(x).age /\ Aged(x).age <= y.age + MaxGap
        BY <3>1, <3>2, <4>1, <4>2
      <4> QED BY <4>2, <4>3
    <3>5. CASE uptime[m] <= b.age + FirstBeat
      BY <2>2, <2>4, <2>13, <3>1, <3>2, <3>5
    <3> QED BY <2>9, <2>13, <3>3, <3>4, <3>5 DEF NoGap
  <2>14. ASSUME Timely, up[m] PROVE DeadIsNew(n, m)'
    <3>1. CASE uptime[m] <= SinceSend(n, m) - HEARTBEAT_SLEEP_TIME
      BY <2>2, <2>4, <2>8, <2>14, <3>1 DEF DeadIsNew
    <3>2. CASE \E y \in Pending(n, m) : uptime[m] <= y.age + FirstBeat
      BY <2>2, <2>4, <2>6, <2>14, <3>2 DEF DeadIsNew
    <3>3. CASE is_alive[n][m]
      BY <1>1, <3>3 DEF DeadIsNew
    <3> QED BY <2>9, <2>14, <3>1, <3>2, <3>3 DEF DeadIsNew
  <2> QED BY <1>1, <2>10, <2>11, <2>12, <2>13, <2>14 DEF PairInv, Timely
<1> QED BY <1>1, <1>3, <1>4 DEF AllPairs

-----------------------------------------------------------------------------
(* The theorems                                                            *)

LEMMA InitKeeps == Init => NetUp /\ AllPairs
BY DEF Init, NetUp, AllPairs

LEMMA NextKeeps == TypeOK /\ HeartBeatInv /\ [Next]_vars => HeartBeatInv'
<1> SUFFICES ASSUME TypeOK, NetUp, AllPairs, [Next]_vars
             PROVE  NetUp' /\ AllPairs'
  BY HeartBeatInvPairs DEF HeartBeatInv, NetUp, AllPairs, PairInv, Timely
<1>1. ASSUME NEW n \in Node, Step(n) PROVE NetUp' /\ AllPairs'
  BY <1>1, BroadcastKeeps, ReceiveKeeps, StartScanKeeps, ExamineKeeps DEF Step
<1>2. CASE UNCHANGED vars
  <2>1. NetUp'
    BY <1>2 DEF vars, NetUp
  <2>2. ASSUME NEW n \in Node, NEW m \in Node, n # m, up'[n]
        PROVE  PairInv(n, m)'
    <3>1. PairInv(n, m) /\ Pending(n, m)' = Pending(n, m)
      BY <1>2, <2>2 DEF vars, AllPairs, Pending
    <3> QED BY <1>2, <3>1, Untouched DEF vars
  <2> QED BY <2>1, <2>2 DEF AllPairs
<1> QED BY <1>1, <1>2, StartKeeps, CrashKeeps, TickKeeps DEF Next

\* The invariant that relates what a node has heard, what is on its way to it
\* and how long its peers have been running holds in every state.
THEOREM HeartBeatInvariant == Spec => []HeartBeatInv
<1>1. Init => HeartBeatInv
  BY InitKeeps, HeartBeatInvPairs
<1> QED BY <1>1, InitTyped, NextTyped, NextKeeps, PTL DEF Spec

\* A peer that is up is never suspected, for any number of nodes, lateness of
\* threads and messages and number of skipped heartbeats that together leave
\* the timeout longer than the longest silence of a running peer.
THEOREM AccurateDetector == ASSUME Timely PROVE Spec => []Accuracy
<1>1. TypeOK /\ HeartBeatInv => Accuracy
  <2> SUFFICES ASSUME TypeOK, HeartBeatInv, NEW n \in Node, NEW m \in Node,
                      n # m, up[n], up[m], uptime[m] > FirstBeat + MaxDelay,
                      ~is_alive[n][m]
               PROVE  FALSE
    BY DEF Accuracy
  <2>1. DeadIsNew(n, m)
    BY DEF HeartBeatInv
  <2>2. SinceSend(n, m) \in Nat /\ SinceSend(n, m) <= MaxGap
    <3>1. skips[m][n] \in 0..MaxSkips /\ round[m] \in 0..Period
      BY DEF TypeOK
    <3> QED BY <3>1, SinceSendBound DEF SinceSend
  <2>3. uptime[m] \in Nat /\ \A y \in Pending(n, m) : y.age \in 0..MaxDelay
    BY DEF TypeOK, Pending, HeartBeatMessage
  <2>4. ~(uptime[m] <= SinceSend(n, m) - HEARTBEAT_SLEEP_TIME)
    BY <2>2, <2>3, Times
  <2>5. \A y \in Pending(n, m) : ~(uptime[m] <= y.age + FirstBeat)
    BY <2>3, Times
  <2> QED BY <2>1, <2>4, <2>5 DEF DeadIsNew
<1> QED BY <1>1, HeartBeatTyped, HeartBeatInvariant, PTL

\* A silent peer is given up in bounded time, with no assumption on how the
\* timeout compares with the skipped heartbeats.
THEOREM PromptDetector == Spec => []PromptDetection
<1>1. TypeOK /\ HeartBeatInv => PromptDetection
  <2> SUFFICES ASSUME TypeOK, HeartBeatInv, NEW n \in Node, NEW m \in Node,
                      n # m, up[n], is_alive[n][m]
               PROVE  elapsed[n][m] <= Timeout + 2 * Period
    BY DEF PromptDetection
  <2>1. Scanned(n, m)
    BY DEF HeartBeatInv
  <2>2. elapsed[n][m] \in Nat /\ scanned[n] \in 0..Period
    BY DEF TypeOK
  <2> QED BY <2>1, <2>2, Times DEF Scanned
<1> QED BY <1>1, HeartBeatTyped, HeartBeatInvariant, PTL

\* No heartbeat that is handled makes a peer look older than it did.
THEOREM LastSeenNeverGoesBack == Spec => LastSeenMonotonic
<1> DEFINE NoOlder(n, m) == elapsed'[n][m] <= elapsed[n][m] \/ scanned'[n] > scanned[n]
<1>1. TypeOK /\ HeartBeatInv /\ [Next]_vars =>
        [\A n, m \in Node : n # m /\ up[n] /\ up'[n] => NoOlder(n, m)]_vars
  <2> SUFFICES ASSUME TypeOK, HeartBeatInv, [Next]_vars,
                      NEW n \in Node, NEW m \in Node, n # m, up[n], up'[n]
               PROVE  NoOlder(n, m)
    OBVIOUS
  <2>1. elapsed[n][m] \in Nat /\ scanned[n] \in 0..Period
    BY Times DEF TypeOK
  <2>2. ASSUME NEW k \in Node, Start(k) PROVE NoOlder(n, m)
    <3>1. elapsed'[n][m] = elapsed[n][m]
      BY <2>2 DEF Start, TypeOK
    <3> QED BY <2>1, <3>1
  <2>3. ASSUME NEW k \in Node, ReceiveHeartBeat(k) PROVE NoOlder(n, m)
    <3>1. PICK b \in net :
            /\ b.to = k
            /\ elapsed' = [elapsed EXCEPT ![k][b.from] = b.age]
      BY <2>3 DEF ReceiveHeartBeat
    <3>2. b.from \in Node
      BY DEF TypeOK, HeartBeatMessage
    <3>3. CASE n = k /\ m = b.from
      <4>1. b \in Pending(n, m)
        BY <3>1, <3>3 DEF Pending
      <4>2. b.age <= elapsed[n][m]
        BY <4>1 DEF HeartBeatInv, InOrder
      <4>3. elapsed'[n][m] = b.age
        BY <3>1, <3>2, <3>3 DEF TypeOK
      <4> QED BY <4>2, <4>3
    <3>4. CASE ~(n = k /\ m = b.from)
      <4>1. elapsed'[n][m] = elapsed[n][m]
        BY <3>1, <3>2, <3>4 DEF TypeOK
      <4> QED BY <2>1, <4>1
    <3> QED BY <3>3, <3>4
  <2>4. CASE Tick
    <3>1. scanned'[n] = scanned[n] + 1
      BY <2>4 DEF Tick
    <3> QED BY <2>1, <3>1, Times
  <2>5. CASE elapsed' = elapsed
    BY <2>1, <2>5
  <2>6. CASE UNCHANGED vars
    BY <2>5, <2>6 DEF vars
  <2>7. ASSUME NEW k \in Node,
               \/ Crash(k)
               \/ BroadcastHeartBeat(k)
               \/ StartScan(k)
               \/ \E j \in Node : Examine(k, j)
        PROVE  elapsed' = elapsed
    BY <2>7 DEF Crash, BroadcastHeartBeat, StartScan, Examine
  <2> QED BY <2>2, <2>3, <2>4, <2>5, <2>6, <2>7 DEF Next, Step
<1> QED BY <1>1, HeartBeatTyped, HeartBeatInvariant, PTL DEF Spec, LastSeenMonotonic

=============================================================================
