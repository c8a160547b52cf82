------------------------- MODULE RPCTransportProofs -------------------------
(***************************************************************************)
(* Proofs about RPCTransport for every set of nodes, every number of       *)
(* client threads, calls and crashes, and every length of the backlog:     *)
(* that it is the ordered, lossy mailbox of Mailbox, and that what send    *)
(* returns is true.                                                        *)
(***************************************************************************)
EXTENDS RPCTransport, SequenceTheorems, TLAPS

-----------------------------------------------------------------------------
(* The inductive invariant                                                 *)

Sending(t) == at[t] # "idle"

\* What a thread is in, and what it has made.
Calling ==
    \A t \in Thread : IF Idle(t) THEN call[t] \in [nr : Nat]
                                 ELSE call[t] \in Call /\ call[t].from = t

\* A connection is at the server it was made to.
Addressed ==
    \A n \in Node : /\ \A c \in Range(queue[n]) : c.to = n
                    /\ conn[n] # NoCall => conn[n].to = n

\* The handler that runs is that of the connection the server is at.
Serving ==
    \A n \in Node : Sending(Server(n)) => conn[n] # NoCall /\ Handled(n, conn[n])

\* The calls of a thread are numbered in the order in which it makes them, and the one that
\* has yet to connect is nowhere.
Older(t, nr) == nr <= call[t].nr /\ (at[t] = "connect" => nr < call[t].nr)
Numbered ==
    /\ \A n \in Node, t \in Thread : Older(t, latest[n][t])
    /\ \A n \in Node : \A c \in Range(Box(n)) : Older(c.from, c.nr)

\* The calls of a thread wait in the order of their numbers, after what has been handled.
Ordered ==
    \A n \in Node :
        /\ \A i, j \in DOMAIN Box(n) :
              i < j /\ Box(n)[i].from = Box(n)[j].from => Box(n)[i].nr < Box(n)[j].nr
        /\ \A c \in Range(Box(n)) : latest[n][c.from] < c.nr

\* Where data has come, a connection waits for it; where it is to come, too, unless
\* the connection has been cut.
Connected ==
    /\ \A c \in arrived : Sending(c.from) => c.nr < call[c.from].nr
    /\ \A n \in Node :
          /\ \A c \in arrived : c.to = n => c \in Range(Box(n))
          /\ \A t \in Thread : at[t] = "send" /\ t \notin cut /\ call[t].to = n
                                  => call[t] \in Range(Box(n))

TransportInv == Calling /\ Addressed /\ Serving /\ Numbered /\ Ordered /\ Connected

-----------------------------------------------------------------------------
(* Types                                                                   *)

LEMMA ThreadsAre ==
    /\ \A t \in Thread : Owner(t) \in Node
    /\ \A n \in Node : Server(n) \in Thread /\ Owner(Server(n)) = n
BY DEF Thread, Owner, Server

LEMMA BoxTyped ==
    ASSUME TypeOK, NEW n \in Node
    PROVE  Box(n) \in Seq(Call)
<1>1. queue[n] \in Seq(Call) /\ conn[n] \in Call \cup {NoCall}
  BY DEF TypeOK
<1>2. CASE conn[n] = NoCall \/ Handled(n, conn[n])
  BY <1>1, <1>2 DEF Box
<1>3. CASE ~(conn[n] = NoCall \/ Handled(n, conn[n]))
  <2>1. <<conn[n]>> \in Seq(Call)
    BY <1>1, <1>3
  <2>2. <<conn[n]>> \o queue[n] \in Seq(Call)
    BY <1>1, <2>1, ConcatProperties
  <2> QED BY <1>3, <2>2 DEF Box
<1> QED BY <1>2, <1>3

LEMMA CallsTyped ==
    ASSUME TypeOK, Calling, NEW t \in Thread
    PROVE  /\ call[t].nr \in Nat
           /\ Sending(t) => /\ call[t] \in Call /\ call[t].from = t
                            /\ call[t].to \in Node /\ call[t].nr \in Nat \ {0}
           /\ at[t] \in {"connect", "send"} => Sending(t)
BY DEF TypeOK, Calling, Call, Sending, Idle

LEMMA InitInv == Init => TypeOK /\ TransportInv
<1> SUFFICES ASSUME Init PROVE TypeOK /\ TransportInv
  OBVIOUS
<1>1. \A n \in Node : Box(n) = << >> /\ queue[n] = << >> /\ conn[n] = NoCall
  BY DEF Init, Box
<1>2. /\ \A t \in Thread : at[t] = "idle" /\ call[t] = NoCall
      /\ \A n \in Node, t \in Thread : latest[n][t] = 0
      /\ arrived = {} /\ cut = {}
  BY DEF Init
<1>3. NoCall \in [nr : Nat] /\ NoCall.nr = 0
  BY DEF NoCall, Done
<1>4. TypeOK
  <2>1. /\ port \in [Node -> {"down", "none", "own", "other"}]
        /\ queue \in [Node -> Seq(Call)]
        /\ \A n \in Node : Len(queue[n]) <= Backlog
        /\ conn \in [Node -> Call \cup {NoCall}]
    BY <1>1, TransportAssumption DEF Init
  <2>2. /\ at \in [Thread -> {"idle", "connect", "send"}]
        /\ call \in [Thread -> Call \cup [nr : Nat]]
        /\ latest \in [Node -> [Thread -> Nat]]
    BY <1>3 DEF Init
  <2>3. arrived \in SUBSET Call /\ cut \in SUBSET Thread /\ crashes \in 0..MaxCrashes
    BY TransportAssumption DEF Init
  <2> QED BY <2>1, <2>2, <2>3 DEF TypeOK
<1>5. Calling /\ Addressed /\ Serving
  BY <1>1, <1>2, <1>3, ThreadsAre DEF Calling, Idle, Addressed, Serving, Sending, Range
<1>6. Numbered
  BY <1>1, <1>2, <1>3 DEF Numbered, Older, Range
<1>7. Ordered /\ Connected
  BY <1>1, <1>2 DEF Ordered, Range, Connected
<1> QED BY <1>4, <1>5, <1>6, <1>7 DEF TransportInv

\* What a step leaves of types and calls.
LEMMA TypesNext ==
    ASSUME TypeOK, Calling, Next
    PROVE  TypeOK' /\ Calling'
<1>0. /\ \A t \in Thread : Owner(t) \in Node
      /\ \A n \in Node : Server(n) \in Thread
      /\ \A k \in Nat : Done(k) \in [nr : Nat]
  BY ThreadsAre DEF Done
<1>1. /\ port \in [Node -> {"down", "none", "own", "other"}]
      /\ queue \in [Node -> Seq(Call)]
      /\ \A n \in Node : Len(queue[n]) <= Backlog
      /\ conn \in [Node -> Call \cup {NoCall}]
      /\ arrived \in SUBSET Call
      /\ at \in [Thread -> {"idle", "connect", "send"}]
      /\ call \in [Thread -> Call \cup [nr : Nat]]
      /\ latest \in [Node -> [Thread -> Nat]]
      /\ cut \in SUBSET Thread
      /\ crashes \in 0..MaxCrashes
      /\ MaxCrashes \in Nat /\ Backlog \in Nat \ {0}
  BY TransportAssumption DEF TypeOK
<1>2. ASSUME NEW t \in Thread, NEW n \in Node, NEW type \in Type
      PROVE  NewCall(t, n, type) \in Call /\ NewCall(t, n, type).from = t
  <2>1. call[t].nr \in Nat
    BY CallsTyped
  <2> QED BY <2>1 DEF NewCall, Call
<1>3. ASSUME NEW t \in Thread, NEW n \in Node, NEW type \in Sent, Begin(t, n, type)
      PROVE  TypeOK' /\ Calling'
  <2>1. NewCall(t, n, type) \in Call /\ NewCall(t, n, type).from = t
    BY <1>2, TransportAssumption
  <2>2. TypeOK'
    BY <1>1, <1>3, <2>1 DEF Begin, TypeOK
  <2>3. Calling'
    BY <1>1, <1>3, <2>1 DEF Begin, Calling, Idle
  <2> QED BY <2>2, <2>3
<1>4. ASSUME NEW t \in Thread, Connect(t) PROVE TypeOK' /\ Calling'
  <2> DEFINE n == call[t].to
  <2>1. call[t] \in Call /\ n \in Node /\ at[t] = "connect"
    BY <1>4, CallsTyped DEF Connect
  <2>2. /\ Append(queue[n], call[t]) \in Seq(Call)
        /\ Len(Append(queue[n], call[t])) = Len(queue[n]) + 1
    BY <1>1, <2>1, AppendProperties
  <2>3. Len(queue[n]) \in Nat /\ Len(queue[n]) # Backlog
    BY <1>1, <1>4, <2>1, LenProperties DEF Connect, Full
  <2>4. queue' = [queue EXCEPT ![n] = Append(queue[n], call[t])]
    BY <1>4 DEF Connect
  <2> HIDE DEF n
  <2>5. queue' \in [Node -> Seq(Call)] /\ \A m \in Node : Len(queue'[m]) <= Backlog
    <3>1. Len(Append(queue[n], call[t])) <= Backlog
      BY <1>1, <2>1, <2>2, <2>3
    <3> QED BY <1>1, <2>1, <2>2, <2>4, <3>1
  <2>6. TypeOK'
    BY <1>1, <1>4, <2>5 DEF Connect, TypeOK
  <2>7. Calling'
    BY <1>1, <1>4, <2>1 DEF Connect, Calling, Idle
  <2> QED BY <2>6, <2>7
<1>5. ASSUME NEW t \in Thread, Ends(t)
      PROVE  /\ at' \in [Thread -> {"idle", "connect", "send"}]
             /\ call' \in [Thread -> Call \cup [nr : Nat]]
             /\ cut' \in SUBSET Thread
             /\ conn' \in [Node -> Call \cup {NoCall}]
             /\ Calling'
  <2>1. Done(call[t].nr) \in [nr : Nat]
    BY <1>0, CallsTyped
  <2> QED BY <1>1, <1>5, <2>1 DEF Ends, Calling, Idle
<1>6. ASSUME NEW t \in Thread, Fail(t) PROVE TypeOK' /\ Calling'
  BY <1>1, <1>5, <1>6 DEF Fail, TypeOK
<1>7. ASSUME NEW t \in Thread, SendData(t) PROVE TypeOK' /\ Calling'
  <2>1. call[t] \in Call
    BY <1>7, CallsTyped DEF SendData
  <2>2. Ends(t) /\ UNCHANGED <<port, queue, latest, crashes>>
    BY <1>7 DEF SendData
  <2>3. arrived' = arrived \/ arrived' = arrived \cup {call[t]}
    BY <1>7 DEF SendData
  <2>4. /\ at' \in [Thread -> {"idle", "connect", "send"}]
        /\ call' \in [Thread -> Call \cup [nr : Nat]]
        /\ cut' \in SUBSET Thread
        /\ conn' \in [Node -> Call \cup {NoCall}]
        /\ Calling'
    BY <1>5, <2>2
  <2>5. arrived' \in SUBSET Call
    BY <1>1, <2>1, <2>3
  <2>6. /\ port' \in [Node -> {"down", "none", "own", "other"}]
        /\ queue' \in [Node -> Seq(Call)]
        /\ \A n \in Node : Len(queue'[n]) <= Backlog
        /\ latest' \in [Node -> [Thread -> Nat]]
        /\ crashes' \in 0..MaxCrashes
    BY <1>1, <2>2
  <2> QED BY <2>4, <2>5, <2>6 DEF TypeOK
<1>8. ASSUME NEW n \in Node, Listen(n) \/ Start(n) PROVE TypeOK' /\ Calling'
  <2>1. UNCHANGED <<queue, conn, arrived, at, call, latest, cut, crashes>>
    BY <1>8 DEF Listen, Start
  <2>2. port' \in [Node -> {"down", "none", "own", "other"}]
    BY <1>1, <1>8 DEF Listen, Start
  <2>3. TypeOK'
    BY <1>1, <2>1, <2>2 DEF TypeOK
  <2>4. Calling'
    BY <2>1 DEF Calling, Idle
  <2> QED BY <2>3, <2>4
<1>9. ASSUME NEW n \in Node, Accept(n) PROVE TypeOK' /\ Calling'
  <2>1. /\ Head(queue[n]) \in Call /\ Tail(queue[n]) \in Seq(Call)
        /\ Len(Tail(queue[n])) = Len(queue[n]) - 1 /\ Len(queue[n]) \in Nat
    BY <1>1, <1>9, HeadTailProperties, LenProperties DEF Accept
  <2>2. queue' \in [Node -> Seq(Call)] /\ \A m \in Node : Len(queue'[m]) <= Backlog
    <3>1. Len(Tail(queue[n])) <= Backlog
      BY <1>1, <2>1
    <3> QED BY <1>1, <1>9, <2>1, <3>1 DEF Accept
  <2>3. TypeOK'
    BY <1>1, <1>9, <2>1, <2>2 DEF Accept, TypeOK
  <2> QED BY <1>9, <2>3 DEF Accept, Calling, Idle
<1>10. ASSUME NEW n \in Node, Read(n) PROVE TypeOK' /\ Calling'
  <2> DEFINE c == conn[n]
             t == Server(n)
  <2>1. c \in Call /\ c \in arrived /\ t \in Thread
    BY <1>0, <1>1, <1>10 DEF Read
  <2>2. c.from \in Thread /\ c.nr \in Nat /\ c.type \in Type /\ Owner(c.from) \in Node
    BY <1>0, <2>1 DEF Call
  <2>3. latest' \in [Node -> [Thread -> Nat]] /\ arrived' \in SUBSET Call
    BY <1>1, <1>10, <2>2 DEF Read
  <2>4. UNCHANGED <<port, queue, cut, crashes>>
    BY <1>10 DEF Read
  <2>5. CASE c.type \in DOMAIN Answer
    <3>1. Answer[c.type] \in Type
      BY <2>5 DEF Answer, Type
    <3>2. /\ call' = [call EXCEPT ![t] = NewCall(t, Owner(c.from), Answer[c.type])]
          /\ at' = [at EXCEPT ![t] = "connect"]
          /\ UNCHANGED conn
      BY <1>10, <2>5 DEF Read
    <3>3. /\ NewCall(t, Owner(c.from), Answer[c.type]) \in Call
          /\ NewCall(t, Owner(c.from), Answer[c.type]).from = t
      BY <1>2, <2>1, <2>2, <3>1
    <3> HIDE DEF t, c
    <3>4. TypeOK'
      BY <1>1, <2>1, <2>3, <2>4, <3>2, <3>3 DEF TypeOK
    <3>5. Calling'
      BY <1>1, <2>1, <3>2, <3>3 DEF Calling, Idle
    <3> QED BY <3>4, <3>5
  <2>6. CASE c.type \notin DOMAIN Answer
    <3>1. conn' = [conn EXCEPT ![n] = NoCall] /\ UNCHANGED <<call, at>>
      BY <1>10, <2>6 DEF Read
    <3> QED BY <1>1, <2>3, <2>4, <3>1 DEF TypeOK, Calling, Idle
  <2> QED BY <2>5, <2>6
<1>11. ASSUME NEW n \in Node, ReadNothing(n) PROVE TypeOK' /\ Calling'
  BY <1>1, <1>11 DEF ReadNothing, TypeOK, Calling, Idle
<1>12. ASSUME NEW n \in Node, Crash(n) PROVE TypeOK' /\ Calling'
  <2> DEFINE mine == {t \in Thread : Owner(t) = n}
  <2>1. /\ at' = [t \in Thread |-> IF t \in mine THEN "idle" ELSE at[t]]
        /\ call' = [t \in Thread |-> IF t \in mine THEN Done(call[t].nr) ELSE call[t]]
        /\ cut' = (cut \cup {t \in Thread : at[t] = "send" /\ call[t].to = n}) \ mine
    BY <1>12 DEF Crash
  <2>2. \A t \in Thread : Done(call[t].nr) \in [nr : Nat]
    BY <1>0, CallsTyped
  <2>3. /\ at' \in [Thread -> {"idle", "connect", "send"}]
        /\ call' \in [Thread -> Call \cup [nr : Nat]]
        /\ cut' \in SUBSET Thread
    BY <1>1, <2>1, <2>2
  <2>4. /\ port' \in [Node -> {"down", "none", "own", "other"}]
        /\ queue' \in [Node -> Seq(Call)]
        /\ \A m \in Node : Len(queue'[m]) <= Backlog
        /\ conn' \in [Node -> Call \cup {NoCall}]
        /\ arrived' \in SUBSET Call
        /\ latest' = latest
    BY <1>1, <1>12 DEF Crash
  <2>5. crashes' \in 0..MaxCrashes
    BY <1>1, <1>12 DEF Crash
  <2>6. Calling'
    BY <2>1, <2>2 DEF Calling, Idle
  <2> QED BY <1>1, <2>3, <2>4, <2>5, <2>6 DEF TypeOK
<1> QED BY <1>3, <1>4, <1>6, <1>7, <1>8, <1>9, <1>10, <1>11, <1>12 DEF Next

-----------------------------------------------------------------------------
(* What the steps do to the boxes                                          *)

BoxesStay == latest' = latest /\ \A n \in Node : Box(n)' = Box(n)

\* The first of n's box is gone.
FirstGone(n) ==
    /\ Box(n) # << >> /\ Head(Box(n)) = conn[n] /\ Box(n)' = Tail(Box(n))
    /\ \A m \in Node : m # n => Box(m)' = Box(m)

LEMMA FirstAndRest ==
    ASSUME NEW S, NEW s \in Seq(S), NEW e \in S
    PROVE  LET r == <<e>> \o s
           IN  r \in Seq(S) /\ r # << >> /\ Head(r) = e /\ Tail(r) = s
OBVIOUS

LEMMA FirstIsServed ==
    ASSUME TypeOK, NEW n \in Node, conn[n] # NoCall, ~Handled(n, conn[n])
    PROVE  Box(n) # << >> /\ Head(Box(n)) = conn[n] /\ Tail(Box(n)) = queue[n]
<1>1. queue[n] \in Seq(Call) /\ conn[n] \in Call
  BY DEF TypeOK
<1>2. Box(n) = <<conn[n]>> \o queue[n]
  BY DEF Box
<1> QED BY <1>1, <1>2, FirstAndRest

\* Steps that a box does not see.
LEMMA StepsAside ==
    ASSUME TypeOK, Calling, Serving, Ordered,
           \/ \E t \in Thread : \/ \E n \in Node, type \in Sent : Begin(t, n, type)
                                \/ Fail(t) \/ SendData(t)
           \/ \E n \in Node : Listen(n) \/ Accept(n) \/ Start(n)
    PROVE  BoxesStay
<1>1. CASE \/ \E t \in Thread, n \in Node, type \in Sent : Begin(t, n, type)
           \/ \E n \in Node : Listen(n) \/ Start(n)
  BY <1>1 DEF Begin, Listen, Start, BoxesStay, Box, Handled
<1>2. ASSUME NEW t \in Thread, Fail(t) \/ SendData(t) PROVE BoxesStay
  <2>1. /\ Ends(t) /\ Sending(t)
        /\ UNCHANGED <<queue, latest>>
    BY <1>2 DEF Fail, SendData, Sending
  <2>2. ASSUME NEW m \in Node PROVE Box(m)' = Box(m)
    <3>1. CASE conn'[m] = conn[m]
      BY <2>1, <3>1 DEF Box, Handled
    <3>2. CASE conn'[m] # conn[m]
      <4>1. t = Server(m) /\ conn'[m] = NoCall
        BY <2>1, <3>2 DEF Ends, TypeOK, Server, Owner
      <4>2. Box(m) = queue[m]
        BY <2>1, <4>1 DEF Serving, Box
      <4> QED BY <2>1, <4>1, <4>2 DEF Box
    <3> QED BY <3>1, <3>2
  <2> QED BY <2>1, <2>2 DEF BoxesStay
<1>3. ASSUME NEW n \in Node, Accept(n) PROVE BoxesStay
  <2>1. /\ conn[n] = NoCall /\ queue[n] # << >>
        /\ conn' = [conn EXCEPT ![n] = Head(queue[n])]
        /\ queue' = [queue EXCEPT ![n] = Tail(queue[n])]
        /\ UNCHANGED latest
    BY <1>3 DEF Accept
  <2>2. /\ conn'[n] = Head(queue[n]) /\ queue'[n] = Tail(queue[n])
        /\ \A m \in Node : m # n => conn'[m] = conn[m] /\ queue'[m] = queue[m]
    BY <2>1 DEF TypeOK
  <2>3. Box(n) = queue[n]
    BY <2>1 DEF Box
  <2>4. queue[n] \in Seq(Call) /\ Head(queue[n]) \in Range(queue[n])
    BY <2>1 DEF TypeOK, Range
  <2>5. ~Handled(n, Head(queue[n])) /\ Head(queue[n]) \in Call
    <3>1. Head(queue[n]) \in Call
      BY <2>1, <2>4
    <3>2. latest[n][Head(queue[n]).from] < Head(queue[n]).nr
      BY <2>3, <2>4 DEF Ordered
    <3>3. latest[n][Head(queue[n]).from] \in Nat /\ Head(queue[n]).nr \in Nat
      BY <3>1 DEF TypeOK, Call
    <3> QED BY <3>1, <3>2, <3>3 DEF Handled
  <2>6. Head(queue[n]) # NoCall
    BY <2>5 DEF Call, NoCall, Done
  <2>7. Box(n)' = <<Head(queue[n])>> \o Tail(queue[n])
    BY <2>1, <2>2, <2>5, <2>6 DEF Box, Handled
  <2>8. <<Head(queue[n])>> \o Tail(queue[n]) = queue[n]
    BY <2>1, <2>4
  <2>9. \A m \in Node : m # n => Box(m)' = Box(m)
    BY <2>1, <2>2 DEF Box, Handled
  <2> QED BY <2>1, <2>3, <2>7, <2>8, <2>9 DEF BoxesStay
<1> QED BY <1>1, <1>2, <1>3

LEMMA AppendOver ==
    ASSUME NEW S, NEW r \in Seq(S), NEW s \in Seq(S), NEW e \in S
    PROVE  r \o Append(s, e) = Append(r \o s, e)
<1>1. <<e>> \in Seq(S) /\ r \o s \in Seq(S)
  BY ConcatProperties
<1>2. Append(s, e) = s \o <<e>>
  BY AppendIsConcat
<1>3. Append(r \o s, e) = (r \o s) \o <<e>>
  BY <1>1, AppendIsConcat
<1>4. (r \o s) \o <<e>> = r \o (s \o <<e>>)
  BY <1>1, ConcatAssociative
<1> QED BY <1>2, <1>3, <1>4

LEMMA ConnectAppends ==
    ASSUME TypeOK, Calling, NEW t \in Thread, Connect(t), NEW n, n = call[t].to
    PROVE  /\ n \in Node /\ call[t] \in Call /\ call[t].from = t
           /\ Box(n)' = Append(Box(n), call[t])
           /\ \A m \in Node : m # n => Box(m)' = Box(m)
           /\ latest' = latest
<1> DEFINE c == call[t]
<1>1. /\ at[t] = "connect" /\ queue' = [queue EXCEPT ![n] = Append(queue[n], c)]
      /\ UNCHANGED <<conn, latest>>
  BY DEF Connect
<1>2. c \in Call /\ c.from = t /\ n \in Node
  BY <1>1, CallsTyped
<1> HIDE DEF c
<1>3. /\ queue'[n] = Append(queue[n], c)
      /\ \A m \in Node : m # n => queue'[m] = queue[m]
  BY <1>1, <1>2 DEF TypeOK
<1>4. Box(n)' = Append(Box(n), c)
  <2>1. queue[n] \in Seq(Call) /\ conn[n] \in Call \cup {NoCall}
    BY <1>2 DEF TypeOK
  <2>2. CASE conn[n] = NoCall \/ Handled(n, conn[n])
    BY <1>1, <1>3, <2>2 DEF Box, Handled
  <2>3. CASE ~(conn[n] = NoCall \/ Handled(n, conn[n]))
    <3>1. Box(n) = <<conn[n]>> \o queue[n] /\ Box(n)' = <<conn[n]>> \o Append(queue[n], c)
      BY <1>1, <1>3, <2>3 DEF Box, Handled
    <3>2. <<conn[n]>> \o Append(queue[n], c) = Append(<<conn[n]>> \o queue[n], c)
      <4>1. <<conn[n]>> \in Seq(Call)
        BY <2>1, <2>3
      <4> DEFINE r == <<conn[n]>>
                 s == queue[n]
      <4>2. r \in Seq(Call) /\ s \in Seq(Call) /\ c \in Call
        BY <1>2, <2>1, <4>1
      <4> HIDE DEF r, s
      <4>3. r \o Append(s, c) = Append(r \o s, c)
        BY <4>2, AppendOver
      <4> QED BY <4>3 DEF r, s
    <3> QED BY <3>1, <3>2
  <2> QED BY <2>2, <2>3
<1>5. \A m \in Node : m # n => Box(m)' = Box(m)
  BY <1>1, <1>3 DEF Box, Handled
<1> QED BY <1>1, <1>2, <1>4, <1>5 DEF c

LEMMA ReadTakes ==
    ASSUME TypeOK, Addressed, Ordered, Connected, NEW n \in Node, Read(n)
    PROVE  /\ FirstGone(n) /\ conn[n] \in Call /\ conn[n] \in arrived
           /\ ~Handled(n, conn[n])
           /\ conn[n] \in Range(Box(n))
           /\ latest' = [latest EXCEPT ![n][conn[n].from] = conn[n].nr]
<1> DEFINE c == conn[n]
<1>1. /\ c \in arrived /\ c \in Call
      /\ latest' = [latest EXCEPT ![n][c.from] = c.nr]
      /\ UNCHANGED queue
      /\ conn' = conn \/ conn' = [conn EXCEPT ![n] = NoCall]
  BY DEF Read, TypeOK
<1>2. c # NoCall /\ c.to = n /\ c.from \in Thread /\ c.nr \in Nat
  BY <1>1 DEF Call, NoCall, Done, Addressed
<1>3. c \in Range(Box(n))
  BY <1>1, <1>2 DEF Connected
<1>4. ~Handled(n, c)
  <2>1. latest[n][c.from] < c.nr /\ latest[n][c.from] \in Nat
    BY <1>2, <1>3 DEF Ordered, TypeOK
  <2> QED BY <1>2, <2>1 DEF Handled
<1>5. Box(n) # << >> /\ Head(Box(n)) = c /\ Tail(Box(n)) = queue[n]
  BY <1>2, <1>4, FirstIsServed
<1> HIDE DEF c
<1>6. latest'[n][c.from] = c.nr /\ \A m \in Node : m # n => latest'[m] = latest[m]
  BY <1>1, <1>2 DEF TypeOK
<1>7. conn'[n] = NoCall \/ Handled(n, conn[n])'
  <2>1. conn'[n] = NoCall \/ conn'[n] = c
    BY <1>1 DEF TypeOK, c
  <2>2. conn'[n] = c => Handled(n, conn[n])'
    BY <1>2, <1>6 DEF Handled
  <2> QED BY <2>1, <2>2
<1>8. Box(n)' = queue[n]
  BY <1>1, <1>7 DEF Box
<1>9. \A m \in Node : m # n => conn'[m] = conn[m]
  BY <1>1 DEF TypeOK
<1>10. \A m \in Node : m # n => Box(m)' = Box(m)
  BY <1>1, <1>6, <1>9 DEF Box, Handled
<1> QED BY <1>1, <1>3, <1>4, <1>5, <1>8, <1>10 DEF FirstGone, c

LEMMA ReadNothingLoses ==
    ASSUME TypeOK, NEW n \in Node, ReadNothing(n)
    PROVE  FirstGone(n) /\ latest' = latest
<1>1. /\ conn[n] # NoCall /\ ~Handled(n, conn[n])
      /\ conn' = [conn EXCEPT ![n] = NoCall]
      /\ UNCHANGED <<queue, latest>>
  BY DEF ReadNothing
<1>2. conn'[n] = NoCall /\ \A m \in Node : m # n => conn'[m] = conn[m]
  BY <1>1 DEF TypeOK
<1>3. Box(n)' = queue[n] /\ \A m \in Node : m # n => Box(m)' = Box(m)
  BY <1>1, <1>2 DEF Box, Handled
<1> QED BY <1>1, <1>3, FirstIsServed DEF FirstGone

LEMMA CrashEmpties ==
    ASSUME TypeOK, NEW n \in Node, Crash(n)
    PROVE  /\ Box(n)' = << >>
           /\ \A m \in Node : m # n => Box(m)' = Box(m)
           /\ latest' = latest
<1>1. /\ queue' = [queue EXCEPT ![n] = << >>]
      /\ conn' = [conn EXCEPT ![n] = NoCall]
      /\ UNCHANGED latest
  BY DEF Crash
<1>2. /\ queue'[n] = << >> /\ conn'[n] = NoCall
      /\ \A m \in Node : m # n => queue'[m] = queue[m] /\ conn'[m] = conn[m]
  BY <1>1 DEF TypeOK
<1> QED BY <1>1, <1>2 DEF Box, Handled

-----------------------------------------------------------------------------
(* What the steps do to the calls                                          *)

\* A thread that makes a call, gives it the next number.
CallsGoOn ==
    \A t \in Thread :
        /\ call'[t].nr \in Nat /\ call'[t].nr >= call[t].nr
        /\ at'[t] = "connect" => \/ at[t] = "connect" /\ call'[t].nr = call[t].nr
                                 \/ call'[t].nr > call[t].nr

\* Older, after the step.
Newer(t, nr) == nr <= call'[t].nr /\ (at'[t] = "connect" => nr < call'[t].nr)

LEMMA OlderStays ==
    ASSUME TypeOK, Calling, CallsGoOn, NEW t \in Thread, NEW k \in Nat, Older(t, k)
    PROVE  Newer(t, k)
<1>1. call[t].nr \in Nat /\ call'[t].nr \in Nat
  BY CallsTyped DEF CallsGoOn
<1> QED BY <1>1 DEF Older, Newer, CallsGoOn

LEMMA NewerIs ==
    ASSUME \A n \in Node, t \in Thread : Newer(t, latest'[n][t]),
           \A n \in Node : \A c \in Range(Box(n)') : Newer(c.from, c.nr)
    PROVE  Numbered'
BY DEF Numbered, Older, Newer

LEMMA EndsThen ==
    ASSUME TypeOK, NEW t \in Thread, Ends(t)
    PROVE  /\ at'[t] = "idle" /\ call'[t].nr = call[t].nr
           /\ \A u \in Thread : u # t => /\ at'[u] = at[u] /\ call'[u] = call[u]
                                         /\ u \in cut' <=> u \in cut
BY DEF Ends, Done, TypeOK

\* Which thread makes its next call in a step.
LEMMA ReadThen ==
    ASSUME TypeOK, Calling, Serving, NEW n \in Node, Read(n), ~Handled(n, conn[n])
    PROVE  /\ Idle(Server(n))
           /\ cut' = cut
           /\ \A u \in Thread : \/ at'[u] = at[u] /\ call'[u] = call[u]
                                \/ /\ u = Server(n) /\ at'[u] = "connect"
                                   /\ call'[u].nr = call[u].nr + 1
<1>1. Idle(Server(n))
  BY DEF Serving, Sending, Idle
<1>2. cut' = cut
  BY DEF Read
<1>3. Server(n) \in Thread
  BY ThreadsAre
<1>4. CASE UNCHANGED <<call, at>>
  BY <1>1, <1>2, <1>4
<1>5. CASE /\ call' = [call EXCEPT ![Server(n)] = NewCall(Server(n), Owner(conn[n].from),
                                                          Answer[conn[n].type])]
           /\ at' = [at EXCEPT ![Server(n)] = "connect"]
  <2>1. NewCall(Server(n), Owner(conn[n].from), Answer[conn[n].type]).nr = call[Server(n)].nr + 1
    BY DEF NewCall
  <2> QED BY <1>1, <1>2, <1>3, <1>5, <2>1 DEF TypeOK
<1> QED BY <1>4, <1>5 DEF Read

LEMMA CallsOnward ==
    ASSUME TypeOK, TransportInv, Next
    PROVE  CallsGoOn
<1>0. \A t \in Thread : call[t].nr \in Nat
  BY CallsTyped DEF TransportInv
<1>1. CASE UNCHANGED <<at, call>>
  BY <1>0, <1>1 DEF CallsGoOn
<1>2. ASSUME NEW t \in Thread, NEW n \in Node, NEW type \in Sent, Begin(t, n, type)
      PROVE  CallsGoOn
  <2>1. NewCall(t, n, type).nr = call[t].nr + 1
    BY DEF NewCall
  <2>2. \A u \in Thread : IF u = t THEN call'[u].nr = call[u].nr + 1
                                   ELSE call'[u] = call[u] /\ at'[u] = at[u]
    BY <1>2, <2>1 DEF Begin, TypeOK
  <2> QED BY <1>0, <2>2 DEF CallsGoOn
<1>3. ASSUME NEW t \in Thread, Connect(t) PROVE CallsGoOn
  <2>1. call' = call /\ \A u \in Thread : at'[u] = IF u = t THEN "send" ELSE at[u]
    BY <1>3 DEF Connect, TypeOK
  <2> QED BY <1>0, <2>1 DEF CallsGoOn
<1>4. ASSUME NEW t \in Thread, Fail(t) \/ SendData(t) PROVE CallsGoOn
  <2>1. Ends(t)
    BY <1>4 DEF Fail, SendData
  <2> QED BY <1>0, <2>1, EndsThen DEF CallsGoOn
<1>5. ASSUME NEW n \in Node, Read(n) PROVE CallsGoOn
  <2>1. ~Handled(n, conn[n])
    BY <1>5, ReadTakes DEF TransportInv
  <2>2. \A u \in Thread : \/ at'[u] = at[u] /\ call'[u] = call[u]
                          \/ call'[u].nr = call[u].nr + 1
    BY <1>5, <2>1, ReadThen DEF TransportInv
  <2> QED BY <1>0, <2>2 DEF CallsGoOn
<1>6. ASSUME NEW n \in Node, Crash(n) PROVE CallsGoOn
  <2>1. \A u \in Thread : /\ at'[u] \in {"idle", at[u]}
                          /\ call'[u] \in {call[u], Done(call[u].nr)}
    BY <1>6 DEF Crash
  <2>2. \A k : Done(k).nr = k
    BY DEF Done
  <2> QED BY <1>0, <2>1, <2>2 DEF CallsGoOn
<1> QED BY <1>1, <1>2, <1>3, <1>4, <1>5, <1>6 DEF Next, Listen, Accept, ReadNothing, Start

-----------------------------------------------------------------------------
(* The invariant is inductive                                              *)

LEMMA RangeOf ==
    ASSUME NEW S, NEW s \in Seq(S)
    PROVE  /\ Range(s) = {s[i] : i \in 1..Len(s)} /\ Range(s) \subseteq S
           /\ DOMAIN s = 1..Len(s) /\ Len(s) \in Nat
BY DEF Range

LEMMA RangeOfAppend ==
    ASSUME NEW S, NEW s \in Seq(S), NEW e \in S
    PROVE  /\ Range(Append(s, e)) = Range(s) \cup {e}
           /\ \A i, j \in DOMAIN Append(s, e) : i < j =>
                 /\ i \in DOMAIN s /\ Append(s, e)[i] = s[i]
                 /\ \/ j \in DOMAIN s /\ Append(s, e)[j] = s[j]
                    \/ Append(s, e)[j] = e
<1> DEFINE r == Append(s, e)
<1>1. /\ r \in Seq(S) /\ Len(r) = Len(s) + 1 /\ r[Len(s) + 1] = e
      /\ \A i \in 1..Len(s) : r[i] = s[i]
  BY AppendProperties
<1>2. Len(s) \in Nat /\ DOMAIN s = 1..Len(s) /\ DOMAIN r = 1..(Len(s) + 1)
  BY <1>1
<1> HIDE DEF r
<1>3. Range(r) = Range(s) \cup {e}
  <2>1. Range(r) \subseteq Range(s) \cup {e}
    BY <1>1, <1>2 DEF Range
  <2>2. Range(s) \cup {e} \subseteq Range(r)
    BY <1>1, <1>2 DEF Range
  <2> QED BY <2>1, <2>2
<1>4. ASSUME NEW i \in DOMAIN r, NEW j \in DOMAIN r, i < j
      PROVE  /\ i \in DOMAIN s /\ r[i] = s[i]
             /\ \/ j \in DOMAIN s /\ r[j] = s[j]
                \/ r[j] = e
  <2>1. i \in 1..Len(s) /\ (j \in 1..Len(s) \/ j = Len(s) + 1)
    BY <1>2, <1>4
  <2> QED BY <1>1, <1>2, <2>1
<1> QED BY <1>3, <1>4 DEF r

LEMMA RangeOfTail ==
    ASSUME NEW S, NEW s \in Seq(S), s # << >>
    PROVE  /\ Range(s) = Range(Tail(s)) \cup {Head(s)} /\ Head(s) = s[1] /\ 1 \in DOMAIN s
           /\ \A i \in DOMAIN Tail(s) : i + 1 \in DOMAIN s /\ Tail(s)[i] = s[i + 1] /\ i \in Nat
                                        /\ 1 < i + 1
<1> DEFINE r == Tail(s)
<1>1. /\ r \in Seq(S) /\ Len(r) = Len(s) - 1 /\ Head(s) = s[1]
      /\ \A i \in 1..Len(r) : r[i] = s[i + 1]
  BY HeadTailProperties
<1>2. Len(s) \in Nat \ {0} /\ DOMAIN s = 1..Len(s) /\ DOMAIN r = 1..(Len(s) - 1)
  BY <1>1
<1> HIDE DEF r
<1>3. \A i \in DOMAIN r : i + 1 \in DOMAIN s /\ r[i] = s[i + 1] /\ i \in Nat /\ 1 < i + 1
  BY <1>1, <1>2
<1>4. Range(r) \cup {s[1]} \subseteq Range(s)
  BY <1>2, <1>3 DEF Range
<1>5. Range(s) \subseteq Range(r) \cup {s[1]}
  <2> SUFFICES ASSUME NEW i \in DOMAIN s PROVE s[i] \in Range(r) \cup {s[1]}
    BY DEF Range
  <2>1. i = 1 \/ (i - 1 \in DOMAIN r /\ (i - 1) + 1 = i)
    BY <1>2
  <2>2. CASE i - 1 \in DOMAIN r /\ (i - 1) + 1 = i
    BY <1>3, <2>2 DEF Range
  <2> QED BY <2>1, <2>2
<1> QED BY <1>1, <1>2, <1>3, <1>4, <1>5 DEF r

\* What holds of a box in itself.
Sorted(box) ==
    \A i, j \in DOMAIN box : i < j /\ box[i].from = box[j].from => box[i].nr < box[j].nr

\* Orders and numbers, after the step.
SortedThen == \A n \in Node : /\ Sorted(Box(n)')
                              /\ \A c \in Range(Box(n)') : latest'[n][c.from] < c.nr
NumberedThen == /\ \A n \in Node, t \in Thread : Newer(t, latest'[n][t])
                /\ \A n \in Node : \A c \in Range(Box(n)') : Newer(c.from, c.nr)

LEMMA ThenIs ==
    /\ SortedThen => Ordered'
    /\ NumberedThen => Numbered'
<1>1. SortedThen => Ordered'
  BY DEF SortedThen, Ordered, Sorted
<1> QED BY <1>1, NewerIs DEF NumberedThen

LEMMA BoxesAre ==
    ASSUME TypeOK, TransportInv
    PROVE  /\ \A n \in Node : Box(n) \in Seq(Call) /\ Range(Box(n)) \subseteq Call
           /\ \A n \in Node, t \in Thread : latest[n][t] \in Nat
           /\ \A n \in Node : Sorted(Box(n))
           /\ \A n \in Node : \A c \in Range(Box(n)) : latest[n][c.from] < c.nr
           /\ \A c \in Call : c.from \in Thread /\ c.nr \in Nat
<1>1. \A n \in Node : Box(n) \in Seq(Call)
  BY BoxTyped
<1>2. \A n \in Node : Range(Box(n)) \subseteq Call
  BY <1>1, RangeOf
<1>3. /\ \A n \in Node : Sorted(Box(n))
      /\ \A n \in Node : \A c \in Range(Box(n)) : latest[n][c.from] < c.nr
  BY DEF TransportInv, Ordered, Sorted
<1>4. \A c \in Call : c.from \in Thread /\ c.nr \in Nat
  BY DEF Call
<1>5. \A n \in Node, t \in Thread : latest[n][t] \in Nat
  BY DEF TypeOK
<1> QED BY <1>1, <1>2, <1>3, <1>4, <1>5

\* Where nothing comes to a box, the calls in it stay older than what their threads do next.
LEMMA NothingComes ==
    ASSUME TypeOK, TransportInv, CallsGoOn,
           \A n \in Node : Range(Box(n)') \subseteq Range(Box(n))
    PROVE  /\ \A n \in Node : \A c \in Range(Box(n)') : Newer(c.from, c.nr)
           /\ \A n \in Node, t \in Thread : Newer(t, latest[n][t])
<1>1. ASSUME NEW n \in Node, NEW t \in Thread PROVE Newer(t, latest[n][t])
  <2>1. Older(t, latest[n][t]) /\ latest[n][t] \in Nat
    BY BoxesAre DEF TransportInv, Numbered
  <2> QED BY <2>1, OlderStays DEF TransportInv
<1>2. ASSUME NEW n \in Node, NEW c \in Range(Box(n)') PROVE Newer(c.from, c.nr)
  <2>1. c \in Range(Box(n)) /\ c.from \in Thread /\ c.nr \in Nat
    BY BoxesAre
  <2>2. Older(c.from, c.nr)
    BY <2>1 DEF TransportInv, Numbered
  <2> QED BY <2>1, <2>2, OlderStays DEF TransportInv
<1> QED BY <1>1, <1>2

LEMMA FirstGoneThen ==
    ASSUME TypeOK, TransportInv, NEW n \in Node, FirstGone(n)
    PROVE  /\ \A m \in Node : Range(Box(m)') \subseteq Range(Box(m)) /\ Sorted(Box(m)')
           /\ \A c \in Range(Box(n)') : c.from = conn[n].from => conn[n].nr < c.nr
           /\ Range(Box(n)) \ {conn[n]} \subseteq Range(Box(n)')
<1> DEFINE s == Box(n)
           r == Box(n)'
<1>0. /\ s \in Seq(Call) /\ Sorted(s)
      /\ s # << >> /\ Head(s) = conn[n] /\ r = Tail(s)
  BY BoxesAre DEF FirstGone
<1>1. \A m \in Node : m # n => Range(Box(m)') \subseteq Range(Box(m)) /\ Sorted(Box(m)')
  BY BoxesAre DEF FirstGone
<1> HIDE DEF s, r
<1>2. /\ Range(s) = Range(r) \cup {Head(s)} /\ Head(s) = s[1] /\ 1 \in DOMAIN s
      /\ \A i \in DOMAIN r : i + 1 \in DOMAIN s /\ r[i] = s[i + 1] /\ i \in Nat /\ 1 < i + 1
  BY <1>0, RangeOfTail
<1>3. Sorted(r)
  <2> SUFFICES ASSUME NEW i \in DOMAIN r, NEW j \in DOMAIN r, i < j, r[i].from = r[j].from
               PROVE  r[i].nr < r[j].nr
    BY DEF Sorted
  <2>1. i + 1 < j + 1
    BY <1>2
  <2> QED BY <1>0, <1>2, <2>1 DEF Sorted
<1>4. \A c \in Range(r) : c.from = conn[n].from => conn[n].nr < c.nr
  <2> SUFFICES ASSUME NEW i \in DOMAIN r, r[i].from = conn[n].from
               PROVE  conn[n].nr < r[i].nr
    BY DEF Range
  <2> QED BY <1>0, <1>2 DEF Sorted
<1>5. Range(s) \ {conn[n]} \subseteq Range(r)
  BY <1>0, <1>2
<1> QED BY <1>1, <1>2, <1>3, <1>4, <1>5 DEF s, r

LEMMA ConnectKeepsOrder ==
    ASSUME TypeOK, TransportInv, CallsGoOn, NEW t \in Thread, Connect(t)
    PROVE  SortedThen /\ NumberedThen
<1>1. PICK n : n = call[t].to
  OBVIOUS
<1> DEFINE c == call[t]
           s == Box(n)
           r == Box(n)'
<1>2. /\ n \in Node /\ c \in Call /\ c.from = t /\ r = Append(s, c)
      /\ \A m \in Node : m # n => Box(m)' = Box(m)
      /\ latest' = latest
  BY <1>1, ConnectAppends DEF TransportInv
<1>3. s \in Seq(Call) /\ Sorted(s) /\ Range(s) \subseteq Call /\ c.nr \in Nat
  BY <1>2, BoxesAre
<1>4. /\ \A d \in Range(s) : d.from = t => d.nr < c.nr
      /\ latest[n][t] < c.nr
  BY <1>2 DEF Connect, TransportInv, Numbered, Older
<1>5. Newer(t, c.nr)
  <2>1. at'[t] = "send"
    BY DEF Connect, TypeOK
  <2> QED BY <1>3, <2>1 DEF Newer, CallsGoOn
<1>6. \A d \in Range(s) : latest[n][d.from] < d.nr
  BY <1>2, BoxesAre
<1> HIDE DEF c, s, r
<1>7. /\ Range(r) = Range(s) \cup {c}
      /\ \A i, j \in DOMAIN r : i < j =>
            /\ i \in DOMAIN s /\ r[i] = s[i]
            /\ \/ j \in DOMAIN s /\ r[j] = s[j]
               \/ r[j] = c
  BY <1>2, <1>3, RangeOfAppend
<1>8. Sorted(r)
  <2> SUFFICES ASSUME NEW i \in DOMAIN r, NEW j \in DOMAIN r, i < j, r[i].from = r[j].from
               PROVE  r[i].nr < r[j].nr
    BY DEF Sorted
  <2>1. i \in DOMAIN s /\ r[i] = s[i] /\ s[i] \in Range(s)
    BY <1>7 DEF Range
  <2>2. CASE j \in DOMAIN s /\ r[j] = s[j]
    BY <1>3, <2>1, <2>2 DEF Sorted
  <2>3. CASE r[j] = c
    BY <1>2, <1>4, <2>1, <2>3
  <2> QED BY <1>7, <2>2, <2>3
<1>9. SortedThen
  <2> SUFFICES ASSUME NEW m \in Node
               PROVE  Sorted(Box(m)') /\ \A d \in Range(Box(m)') : latest[m][d.from] < d.nr
    BY <1>2 DEF SortedThen
  <2>1. CASE m = n
    <3>1. \A d \in Range(r) : latest[n][d.from] < d.nr
      BY <1>2, <1>4, <1>6, <1>7
    <3> QED BY <1>8, <2>1, <3>1 DEF r
  <2>2. CASE m # n
    BY <1>2, <2>2, BoxesAre
  <2> QED BY <2>1, <2>2
<1>10. NumberedThen
  <2>1. ASSUME NEW m \in Node, NEW u \in Thread PROVE Newer(u, latest'[m][u])
    <3>1. Older(u, latest[m][u]) /\ latest[m][u] \in Nat
      BY BoxesAre DEF TransportInv, Numbered
    <3> QED BY <1>2, <3>1, OlderStays DEF TransportInv
  <2>2. ASSUME NEW m \in Node, NEW d \in Range(Box(m)') PROVE Newer(d.from, d.nr)
    <3>1. CASE d \in Range(Box(m))
      <4>1. d.from \in Thread /\ d.nr \in Nat /\ Older(d.from, d.nr)
        BY <3>1, BoxesAre DEF TransportInv, Numbered
      <4> QED BY <4>1, OlderStays DEF TransportInv
    <3>2. CASE d \notin Range(Box(m))
      <4>1. m = n
        BY <1>2, <2>2, <3>2
      <4>2. d = c
        BY <1>7, <2>2, <3>2, <4>1 DEF s, r
      <4> QED BY <1>2, <1>5, <4>2
    <3> QED BY <3>1, <3>2
  <2> QED BY <2>1, <2>2 DEF NumberedThen
<1> QED BY <1>9, <1>10

LEMMA ReadKeepsOrder ==
    ASSUME TypeOK, TransportInv, CallsGoOn, NEW n \in Node, Read(n)
    PROVE  SortedThen /\ NumberedThen
<1> DEFINE c == conn[n]
<1>1. /\ FirstGone(n) /\ c \in Call /\ c \in Range(Box(n))
      /\ latest' = [latest EXCEPT ![n][c.from] = c.nr]
  BY ReadTakes DEF TransportInv
<1>2. c.from \in Thread /\ c.nr \in Nat
  BY <1>1, BoxesAre
<1>3. /\ \A m \in Node : Range(Box(m)') \subseteq Range(Box(m)) /\ Sorted(Box(m)')
      /\ \A d \in Range(Box(n)') : d.from = c.from => c.nr < d.nr
  BY <1>1, FirstGoneThen
<1> HIDE DEF c
<1>4. \A m \in Node, u \in Thread :
        latest'[m][u] = IF m = n /\ u = c.from THEN c.nr ELSE latest[m][u]
  BY <1>1, <1>2 DEF TypeOK
<1>5. SortedThen
  <2> SUFFICES ASSUME NEW m \in Node, NEW d \in Range(Box(m)') PROVE latest'[m][d.from] < d.nr
    BY <1>3 DEF SortedThen
  <2>1. d \in Range(Box(m)) /\ d.from \in Thread /\ latest[m][d.from] < d.nr
    BY <1>3, BoxesAre
  <2> QED BY <1>3, <1>4, <2>1
<1>6. NumberedThen
  <2>1. /\ \A m \in Node : \A d \in Range(Box(m)') : Newer(d.from, d.nr)
        /\ \A m \in Node, u \in Thread : Newer(u, latest[m][u])
    BY <1>3, NothingComes
  <2>2. Newer(c.from, c.nr)
    <3>1. Older(c.from, c.nr)
      BY <1>1 DEF TransportInv, Numbered
    <3> QED BY <1>2, <3>1, OlderStays DEF TransportInv
  <2>3. \A m \in Node, u \in Thread : Newer(u, latest'[m][u])
    BY <1>4, <2>1, <2>2
  <2> QED BY <2>1, <2>3 DEF NumberedThen
<1> QED BY <1>5, <1>6

LEMMA BoxesNext ==
    ASSUME TypeOK, TransportInv, Next
    PROVE  Ordered' /\ Numbered'
<1>0. CallsGoOn
  BY CallsOnward
<1> SUFFICES SortedThen /\ NumberedThen
  BY ThenIs
<1>1. ASSUME latest' = latest,
             \A n \in Node : Range(Box(n)') \subseteq Range(Box(n)) /\ Sorted(Box(n)')
      PROVE  SortedThen /\ NumberedThen
  <2>1. SortedThen
    BY <1>1, BoxesAre DEF SortedThen
  <2>2. NumberedThen
    BY <1>0, <1>1, NothingComes DEF NumberedThen
  <2> QED BY <2>1, <2>2
<1>2. CASE BoxesStay
  BY <1>1, <1>2, BoxesAre DEF BoxesStay
<1>3. ASSUME NEW t \in Thread, Connect(t) PROVE SortedThen /\ NumberedThen
  BY <1>0, <1>3, ConnectKeepsOrder
<1>4. ASSUME NEW n \in Node, Read(n) PROVE SortedThen /\ NumberedThen
  BY <1>0, <1>4, ReadKeepsOrder
<1>5. ASSUME NEW n \in Node, ReadNothing(n) PROVE SortedThen /\ NumberedThen
  BY <1>1, <1>5, ReadNothingLoses, FirstGoneThen
<1>6. ASSUME NEW n \in Node, Crash(n) PROVE SortedThen /\ NumberedThen
  <2>1. /\ Box(n)' = << >> /\ latest' = latest
        /\ \A m \in Node : m # n => Box(m)' = Box(m)
    BY <1>6, CrashEmpties
  <2>2. Range(<< >>) = {} /\ Sorted(<< >>)
    BY DEF Range, Sorted
  <2>3. \A m \in Node : Range(Box(m)') \subseteq Range(Box(m)) /\ Sorted(Box(m)')
    BY <2>1, <2>2, BoxesAre
  <2> QED BY <1>1, <2>1, <2>3
<1> QED BY <1>2, <1>3, <1>4, <1>5, <1>6, StepsAside DEF Next, TransportInv

LEMMA AddressedNext ==
    ASSUME TypeOK, TransportInv, Next
    PROVE  Addressed'
<1>0. \A n \in Node : queue[n] \in Seq(Call)
  BY DEF TypeOK
<1>1. CASE /\ queue' = queue
           /\ \A n \in Node : conn'[n] \in {conn[n], NoCall}
  BY <1>1 DEF TransportInv, Addressed
<1>2. ASSUME NEW t \in Thread, Connect(t) PROVE Addressed'
  <2>1. PICK n : n = call[t].to
    OBVIOUS
  <2>2. n \in Node /\ call[t] \in Call
    BY <1>2, <2>1, ConnectAppends DEF TransportInv
  <2>3. /\ queue'[n] = Append(queue[n], call[t]) /\ conn' = conn
        /\ \A m \in Node : m # n => queue'[m] = queue[m]
    BY <1>2, <2>1, <2>2 DEF Connect, TypeOK
  <2>4. Range(Append(queue[n], call[t])) = Range(queue[n]) \cup {call[t]}
    BY <1>0, <2>2, RangeOfAppend
  <2>5. \A m \in Node : \A c \in Range(queue'[m]) : c.to = m
    BY <2>1, <2>3, <2>4 DEF TransportInv, Addressed
  <2> QED BY <2>3, <2>5 DEF TransportInv, Addressed
<1>3. ASSUME NEW n \in Node, Accept(n) PROVE Addressed'
  <2>1. /\ queue[n] # << >> /\ conn'[n] = Head(queue[n]) /\ queue'[n] = Tail(queue[n])
        /\ \A m \in Node : m # n => conn'[m] = conn[m] /\ queue'[m] = queue[m]
    BY <1>3 DEF Accept, TypeOK
  <2>2. Range(queue[n]) = Range(Tail(queue[n])) \cup {Head(queue[n])}
    BY <1>0, <2>1, RangeOfTail
  <2>3. \A m \in Node : \A c \in Range(queue'[m]) : c.to = m
    BY <2>1, <2>2 DEF TransportInv, Addressed
  <2>4. \A m \in Node : conn'[m] # NoCall => conn'[m].to = m
    BY <2>1, <2>2 DEF TransportInv, Addressed
  <2> QED BY <2>3, <2>4 DEF Addressed
<1>4. ASSUME NEW t \in Thread, Fail(t) \/ SendData(t) PROVE Addressed'
  <2>1. queue' = queue /\ \A n \in Node : conn'[n] \in {conn[n], NoCall}
    BY <1>4 DEF Fail, SendData, Ends, TypeOK
  <2> QED BY <1>1, <2>1
<1>5. ASSUME NEW n \in Node, Read(n) \/ ReadNothing(n) PROVE Addressed'
  <2>1. queue' = queue /\ \A m \in Node : conn'[m] \in {conn[m], NoCall}
    BY <1>5 DEF Read, ReadNothing, TypeOK
  <2> QED BY <1>1, <2>1
<1>6. ASSUME NEW n \in Node, Crash(n) PROVE Addressed'
  <2>1. /\ queue'[n] = << >> /\ conn'[n] = NoCall
        /\ \A m \in Node : m # n => queue'[m] = queue[m] /\ conn'[m] = conn[m]
    BY <1>6 DEF Crash, TypeOK
  <2>2. Range(<< >>) = {}
    BY DEF Range
  <2>3. \A m \in Node : \A c \in Range(queue'[m]) : c.to = m
    BY <2>1, <2>2 DEF TransportInv, Addressed
  <2> QED BY <2>1, <2>3 DEF TransportInv, Addressed
<1>7. CASE UNCHANGED <<queue, conn>>
  BY <1>1, <1>7
<1> QED BY <1>2, <1>3, <1>4, <1>5, <1>6, <1>7 DEF Next, Begin, Listen, Start

LEMMA ServingNext ==
    ASSUME TypeOK, TransportInv, Next
    PROVE  Serving'
<1>0. /\ \A n \in Node : Server(n) \in Thread
      /\ \A t \in Thread : t = Server(Owner(t)) => Owner(t) \in Node
      /\ \A n, m \in Node : Server(n) = Server(m) => n = m
      /\ \A n \in Node : Server(n)[2] = "server"
  BY ThreadsAre DEF Server
<1>s. \A n \in Node : at[Server(n)] # "idle" => conn[n] # NoCall /\ Handled(n, conn[n])
  BY DEF TransportInv, Serving, Sending
<1> SUFFICES ASSUME NEW m \in Node, at'[Server(m)] # "idle"
             PROVE  conn'[m] # NoCall /\ conn'[m].nr <= latest'[m][conn'[m].from]
  BY DEF Serving, Sending, Handled
<1>1. CASE at[Server(m)] # "idle" /\ conn'[m] = conn[m] /\ latest'[m] = latest[m]
  BY <1>s, <1>1 DEF Handled
<1>2. ASSUME NEW t \in Thread, NEW n \in Node, NEW type \in Sent, Begin(t, n, type)
      PROVE  conn'[m] # NoCall /\ conn'[m].nr <= latest'[m][conn'[m].from]
  <2>1. t # Server(m) /\ at'[Server(m)] = at[Server(m)] /\ UNCHANGED <<conn, latest>>
    BY <1>0, <1>2 DEF Begin, TypeOK
  <2> QED BY <1>1, <2>1
<1>3. ASSUME NEW t \in Thread, Connect(t)
      PROVE  conn'[m] # NoCall /\ conn'[m].nr <= latest'[m][conn'[m].from]
  <2>1. at[Server(m)] # "idle" /\ UNCHANGED <<conn, latest>>
    BY <1>0, <1>3 DEF Connect, TypeOK
  <2> QED BY <1>1, <2>1
<1>4. ASSUME NEW t \in Thread, Fail(t) \/ SendData(t)
      PROVE  conn'[m] # NoCall /\ conn'[m].nr <= latest'[m][conn'[m].from]
  <2>1. Ends(t) /\ UNCHANGED latest
    BY <1>4 DEF Fail, SendData
  <2>2. t # Server(m) /\ at'[Server(m)] = at[Server(m)]
    BY <1>0, <2>1 DEF Ends, TypeOK
  <2>3. conn'[m] = conn[m]
    BY <1>0, <2>1, <2>2 DEF Ends, TypeOK
  <2> QED BY <1>1, <2>1, <2>2, <2>3
<1>5. ASSUME NEW n \in Node, Accept(n) \/ ReadNothing(n)
      PROVE  conn'[m] # NoCall /\ conn'[m].nr <= latest'[m][conn'[m].from]
  <2>1. /\ UNCHANGED <<at, latest>> /\ (conn[n] = NoCall \/ ~Handled(n, conn[n]))
        /\ m # n => conn'[m] = conn[m]
    BY <1>5 DEF Accept, ReadNothing, TypeOK
  <2>2. m # n
    BY <1>s, <2>1
  <2> QED BY <1>1, <2>1, <2>2
<1>6. ASSUME NEW n \in Node, Read(n)
      PROVE  conn'[m] # NoCall /\ conn'[m].nr <= latest'[m][conn'[m].from]
  <2>1. /\ conn[n] \in Call /\ ~Handled(n, conn[n])
        /\ latest' = [latest EXCEPT ![n][conn[n].from] = conn[n].nr]
    BY <1>6, ReadTakes DEF TransportInv
  <2>2. at[Server(n)] = "idle"
    BY <1>s, <2>1
  <2>3. CASE m # n
    <3>1. Server(m) # Server(n)
      BY <1>0, <2>3
    <3>2. at'[Server(m)] = at[Server(m)] /\ conn'[m] = conn[m] /\ latest'[m] = latest[m]
      BY <1>0, <1>6, <2>1, <2>3, <3>1 DEF Read, TypeOK
    <3> QED BY <1>1, <3>2
  <2>4. CASE m = n
    <3>1. conn' = conn
      BY <1>6, <2>2, <2>4 DEF Read
    <3>2. conn[n].from \in Thread /\ conn[n].nr \in Nat /\ conn[n] # NoCall
      BY <2>1 DEF Call, NoCall, Done
    <3>3. latest'[n][conn[n].from] = conn[n].nr
      BY <2>1, <3>2 DEF TypeOK
    <3> QED BY <2>4, <3>1, <3>2, <3>3
  <2> QED BY <2>3, <2>4
<1>7. ASSUME NEW n \in Node, Crash(n)
      PROVE  conn'[m] # NoCall /\ conn'[m].nr <= latest'[m][conn'[m].from]
  <2>1. m # n
    BY <1>0, <1>7, ThreadsAre DEF Crash
  <2>2. /\ at'[Server(m)] = at[Server(m)]
        /\ conn'[m] = conn[m] /\ latest' = latest
    BY <1>0, <1>7, <2>1, ThreadsAre DEF Crash, TypeOK
  <2> QED BY <1>1, <2>2
<1>8. CASE UNCHANGED <<conn, latest, at>>
  BY <1>1, <1>8
<1> QED BY <1>2, <1>3, <1>4, <1>5, <1>6, <1>7, <1>8 DEF Next, Listen, Start

\* Connections, after the step.
ConnectedThen ==
    /\ \A c \in arrived' : at'[c.from] # "idle" => c.nr < call'[c.from].nr
    /\ \A n \in Node :
          /\ \A c \in arrived' : c.to = n => c \in Range(Box(n)')
          /\ \A t \in Thread : at'[t] = "send" /\ t \notin cut' /\ call'[t].to = n
                                  => call'[t] \in Range(Box(n)')

\* What has arrived is older than what its thread is in, and waits.
LEMMA ArrivedAre ==
    ASSUME TypeOK, TransportInv, NEW c \in arrived
    PROVE  /\ c \in Call /\ c.from \in Thread /\ c.to \in Node /\ c.nr \in Nat
           /\ c \in Range(Box(c.to))
           /\ at[c.from] # "idle" => c.nr < call[c.from].nr
           /\ c.nr <= call[c.from].nr
           /\ \A t \in Thread : at[t] # "idle" => call[t] # c
<1>1. c \in Call /\ c.from \in Thread /\ c.to \in Node /\ c.nr \in Nat
  BY DEF TypeOK, Call
<1>2. c \in Range(Box(c.to)) /\ (at[c.from] # "idle" => c.nr < call[c.from].nr)
  BY <1>1 DEF TransportInv, Connected, Sending
<1>3. c.nr <= call[c.from].nr
  BY <1>1, <1>2 DEF TransportInv, Numbered, Older
<1>4. ASSUME NEW t \in Thread, at[t] # "idle", call[t] = c PROVE FALSE
  <2>1. c.from = t
    BY <1>4, CallsTyped DEF TransportInv, Sending
  <2> QED BY <1>1, <1>2, <1>4, <2>1
<1> QED BY <1>1, <1>2, <1>3, <1>4

\* A step in which nothing comes, nothing that waits goes, and who is in a call stays in it,
\* or makes his next one.
LEMMA ConnectedStays ==
    ASSUME TypeOK, TransportInv,
           \A c \in arrived' : c \in arrived,
           \A n \in Node : \A c \in arrived' : c.to = n => c \in Range(Box(n)'),
           \A t \in Thread :
              \/ at'[t] = "idle"
              \/ at'[t] = "connect" /\ call'[t].nr = call[t].nr + 1
              \/ /\ at'[t] = at[t] /\ call'[t] = call[t] /\ (t \in cut => t \in cut')
                 /\ \A n \in Node : at[t] = "send" /\ t \notin cut' /\ call[t].to = n =>
                       (call[t] \in Range(Box(n)) => call[t] \in Range(Box(n)'))
    PROVE  ConnectedThen
<1>1. ASSUME NEW c \in arrived', at'[c.from] # "idle" PROVE c.nr < call'[c.from].nr
  <2>1. /\ c.from \in Thread /\ c.nr \in Nat /\ call[c.from].nr \in Nat
        /\ c.nr <= call[c.from].nr
        /\ at[c.from] # "idle" => c.nr < call[c.from].nr
    BY ArrivedAre, CallsTyped DEF TransportInv
  <2> QED BY <1>1, <2>1
<1>2. ASSUME NEW n \in Node, NEW t \in Thread, at'[t] = "send", t \notin cut', call'[t].to = n
      PROVE  call'[t] \in Range(Box(n)')
  <2>1. call'[t] = call[t] /\ at[t] = "send" /\ t \notin cut /\ call[t].to = n
    BY <1>2
  <2>2. call[t] \in Range(Box(n))
    BY <2>1 DEF TransportInv, Connected
  <2> QED BY <1>2, <2>1, <2>2
<1> QED BY <1>1, <1>2 DEF ConnectedThen

LEMMA ConnectedNext ==
    ASSUME TypeOK, TransportInv, Next
    PROVE  Connected'
<1> SUFFICES ConnectedThen
  BY DEF Connected, ConnectedThen, Sending
<1>0. \A n \in Node : \A c \in arrived : c.to = n => c \in Range(Box(n))
  BY DEF TransportInv, Connected
<1>1. ASSUME NEW t \in Thread, NEW n \in Node, NEW type \in Sent, Begin(t, n, type)
      PROVE  ConnectedThen
  <2>1. /\ UNCHANGED <<arrived, cut>> /\ at'[t] = "connect" /\ call'[t].nr = call[t].nr + 1
        /\ \A u \in Thread : u # t => at'[u] = at[u] /\ call'[u] = call[u]
    BY <1>1 DEF Begin, NewCall, TypeOK
  <2>2. \A m \in Node : Box(m)' = Box(m)
    BY <1>1, StepsAside DEF TransportInv, BoxesStay
  <2> QED BY <1>0, <2>1, <2>2, ConnectedStays
<1>2. ASSUME NEW t \in Thread, Connect(t) PROVE ConnectedThen
  <2>1. PICK n : n = call[t].to
    OBVIOUS
  <2>2. /\ n \in Node /\ call[t] \in Call
        /\ Box(n)' = Append(Box(n), call[t])
        /\ \A m \in Node : m # n => Box(m)' = Box(m)
    BY <1>2, <2>1, ConnectAppends DEF TransportInv
  <2>3. Range(Append(Box(n), call[t])) = Range(Box(n)) \cup {call[t]}
    BY <2>2, BoxesAre, RangeOfAppend
  <2>4. /\ UNCHANGED <<arrived, call, cut>> /\ at[t] = "connect"
        /\ \A u \in Thread : u # t => at'[u] = at[u]
    BY <1>2 DEF Connect, TypeOK
  <2>5. \A m \in Node : Range(Box(m)) \subseteq Range(Box(m)')
    BY <2>2, <2>3
  <2>6. \A c \in arrived : at[c.from] # "idle" => c.nr < call[c.from].nr
    BY ArrivedAre
  <2>7. \A c \in arrived' : at'[c.from] # "idle" => c.nr < call'[c.from].nr
    <3> SUFFICES ASSUME NEW c \in arrived, at'[c.from] # "idle" PROVE c.nr < call[c.from].nr
      BY <2>4
    <3>1. c.from \in Thread
      BY ArrivedAre
    <3> QED BY <2>4, <2>6, <3>1
  <2>8. ASSUME NEW m \in Node, NEW u \in Thread, at'[u] = "send", u \notin cut', call'[u].to = m
        PROVE  call'[u] \in Range(Box(m)')
    <3>1. CASE u = t
      BY <2>1, <2>2, <2>3, <2>4, <2>8, <3>1
    <3>2. CASE u # t
      <4>1. call[u] \in Range(Box(m))
        BY <2>4, <2>8, <3>2 DEF TransportInv, Connected
      <4> QED BY <2>4, <2>5, <4>1
    <3> QED BY <3>1, <3>2
  <2>9. \A m \in Node : \A c \in arrived' : c.to = m => c \in Range(Box(m)')
    BY <1>0, <2>4, <2>5
  <2> QED BY <2>7, <2>8, <2>9 DEF ConnectedThen
<1>3. ASSUME NEW t \in Thread, Fail(t) PROVE ConnectedThen
  <2>1. Ends(t) /\ arrived' = arrived
    BY <1>3 DEF Fail
  <2>2. \A m \in Node : Box(m)' = Box(m)
    BY <1>3, StepsAside DEF TransportInv, BoxesStay
  <2> QED BY <1>0, <2>1, <2>2, EndsThen, ConnectedStays
<1>4. ASSUME NEW t \in Thread, SendData(t) PROVE ConnectedThen
  <2>1. /\ Ends(t) /\ at[t] = "send"
        /\ arrived' = IF t \in cut THEN arrived ELSE arrived \cup {call[t]}
    BY <1>4 DEF SendData
  <2>2. \A m \in Node : Box(m)' = Box(m)
    BY <1>4, StepsAside DEF TransportInv, BoxesStay
  <2>3. CASE t \in cut
    BY <1>0, <2>1, <2>2, <2>3, EndsThen, ConnectedStays
  <2>4. CASE t \notin cut
    <3>1. arrived' = arrived \cup {call[t]} /\ call[t].from = t
      BY <2>1, <2>4, CallsTyped DEF TransportInv
    <3>2. \A n \in Node : call[t].to = n => call[t] \in Range(Box(n))
      BY <2>1, <2>4 DEF TransportInv, Connected
    <3>3. /\ at'[t] = "idle"
          /\ \A u \in Thread : u # t => /\ at'[u] = at[u] /\ call'[u] = call[u]
                                        /\ u \in cut' <=> u \in cut
      BY <2>1, EndsThen
    <3>4. ASSUME NEW c \in arrived', at'[c.from] # "idle" PROVE c.nr < call'[c.from].nr
      <4>1. c.from # t /\ c \in arrived
        BY <3>1, <3>3, <3>4
      <4>2. c.from \in Thread
        BY <4>1, ArrivedAre
      <4> QED BY <3>3, <3>4, <4>1, <4>2, ArrivedAre
    <3>5. \A n \in Node : \A c \in arrived' : c.to = n => c \in Range(Box(n)')
      BY <1>0, <2>2, <3>1, <3>2
    <3>6. ASSUME NEW n \in Node, NEW u \in Thread, at'[u] = "send", u \notin cut', call'[u].to = n
          PROVE  call'[u] \in Range(Box(n)')
      <4>1. u # t /\ at[u] = "send" /\ u \notin cut /\ call'[u] = call[u]
        BY <3>3, <3>6
      <4> QED BY <2>2, <3>6, <4>1 DEF TransportInv, Connected
    <3> QED BY <3>4, <3>5, <3>6 DEF ConnectedThen
  <2> QED BY <2>3, <2>4
<1>5. ASSUME NEW n \in Node, Listen(n) \/ Accept(n) \/ Start(n) PROVE ConnectedThen
  <2>1. UNCHANGED <<arrived, at, call, cut>>
    BY <1>5 DEF Listen, Accept, Start
  <2>2. \A m \in Node : Box(m)' = Box(m)
    BY <1>5, StepsAside DEF TransportInv, BoxesStay
  <2> QED BY <1>0, <2>1, <2>2, ConnectedStays
<1>6. ASSUME NEW n \in Node, FirstGone(n), arrived' = arrived \ {conn[n]}, conn[n].to = n,
             \A t \in Thread : at[t] = "send" => call[t] # conn[n]
      PROVE  /\ \A m \in Node : \A c \in arrived' : c.to = m => c \in Range(Box(m)')
             /\ \A m \in Node, t \in Thread : at[t] = "send" /\ call[t] \in Range(Box(m))
                                                => call[t] \in Range(Box(m)')
  <2>1. /\ Range(Box(n)) \ {conn[n]} \subseteq Range(Box(n)')
        /\ \A m \in Node : m # n => Box(m)' = Box(m)
    BY <1>6, FirstGoneThen DEF FirstGone
  <2> QED BY <1>0, <1>6, <2>1
<1>7. ASSUME NEW n \in Node, Read(n) PROVE ConnectedThen
  <2>1. /\ FirstGone(n) /\ conn[n] \in Call /\ conn[n] \in arrived
        /\ ~Handled(n, conn[n])
    BY <1>7, ReadTakes DEF TransportInv
  <2>2. conn[n].to = n
    BY <2>1 DEF TransportInv, Addressed, Call, NoCall, Done
  <2>3. \A t \in Thread : at[t] = "send" => call[t] # conn[n]
    BY <2>1, ArrivedAre
  <2>4. arrived' = arrived \ {conn[n]}
    BY <1>7 DEF Read
  <2>5. /\ cut' = cut
        /\ \A u \in Thread : \/ at'[u] = at[u] /\ call'[u] = call[u]
                             \/ at'[u] = "connect" /\ call'[u].nr = call[u].nr + 1
    BY <1>7, <2>1, ReadThen DEF TransportInv
  <2> QED BY <1>6, <2>1, <2>2, <2>3, <2>4, <2>5, ConnectedStays
<1>8. ASSUME NEW n \in Node, ReadNothing(n) PROVE ConnectedThen
  <2>1. FirstGone(n)
    BY <1>8, ReadNothingLoses
  <2>2. conn[n] # NoCall /\ conn[n] \notin arrived /\ call[conn[n].from] # conn[n]
    BY <1>8 DEF ReadNothing
  <2>3. conn[n].to = n
    BY <2>2 DEF TransportInv, Addressed
  <2>4. \A t \in Thread : at[t] = "send" => call[t] # conn[n]
    BY <2>2, CallsTyped DEF TransportInv
  <2>5. UNCHANGED <<arrived, at, call, cut>>
    BY <1>8 DEF ReadNothing
  <2>6. arrived' = arrived \ {conn[n]}
    BY <2>2, <2>5
  <2> QED BY <1>6, <2>1, <2>3, <2>4, <2>5, <2>6, ConnectedStays
<1>9. ASSUME NEW n \in Node, Crash(n) PROVE ConnectedThen
  <2>1. \A m \in Node : m # n => Box(m)' = Box(m)
    BY <1>9, CrashEmpties
  <2>2. /\ arrived' = arrived \ Range(Box(n))
        /\ \A u \in Thread : Owner(u) = n => at'[u] = "idle"
        /\ \A u \in Thread : Owner(u) # n =>
              /\ at'[u] = at[u] /\ call'[u] = call[u] /\ (u \in cut => u \in cut')
              /\ at[u] = "send" /\ call[u].to = n => u \in cut'
    BY <1>9 DEF Crash
  <2>3. \A m \in Node : \A c \in arrived' : c.to = m => c \in Range(Box(m)')
    BY <1>0, <2>1, <2>2
  <2>4. \A u \in Thread :
           \/ at'[u] = "idle"
           \/ /\ at'[u] = at[u] /\ call'[u] = call[u] /\ (u \in cut => u \in cut')
              /\ \A m \in Node : at[u] = "send" /\ u \notin cut' /\ call[u].to = m =>
                    (call[u] \in Range(Box(m)) => call[u] \in Range(Box(m)'))
    BY <2>1, <2>2
  <2> QED BY <2>2, <2>3, <2>4, ConnectedStays
<1> QED BY <1>1, <1>2, <1>3, <1>4, <1>5, <1>7, <1>8, <1>9 DEF Next

LEMMA InvNext ==
    ASSUME TypeOK, TransportInv, [Next]_vars
    PROVE  TypeOK' /\ TransportInv'
<1>1. CASE Next
  <2>1. TypeOK' /\ Calling'
    BY <1>1, TypesNext DEF TransportInv
  <2> QED BY <1>1, <2>1, AddressedNext, ServingNext, BoxesNext, ConnectedNext DEF TransportInv
<1>2. CASE UNCHANGED vars
  <2>1. TypeOK'
    BY <1>2 DEF vars, TypeOK
  <2>2. Calling' /\ Addressed' /\ Serving'
    BY <1>2 DEF vars, TransportInv, Calling, Idle, Addressed, Serving, Sending, Handled
  <2>3. \A n \in Node : Box(n)' = Box(n)
    BY <1>2 DEF vars, Box, Handled
  <2>4. Ordered' /\ Numbered'
    BY <1>2, <2>3 DEF vars, TransportInv, Ordered, Numbered, Older
  <2>5. Connected'
    BY <1>2, <2>3 DEF vars, TransportInv, Connected, Sending
  <2> QED BY <2>1, <2>2, <2>4, <2>5 DEF TransportInv
<1> QED BY <1>1, <1>2

\* Behind every other theorem here: what is in a box is in the order in which its threads made
\* it, after all that has been handled and before all that they make next, and who has sent
\* is waited for.
THEOREM TransportInvariant == Spec => [](TypeOK /\ TransportInv)
<1>1. Init => TypeOK /\ TransportInv
  BY InitInv
<1>2. TypeOK /\ TransportInv /\ [Next]_vars => (TypeOK /\ TransportInv)'
  BY InvNext
<1> QED BY <1>1, <1>2, PTL DEF Spec

\* The types of the variables: only calls wait and are answered, a thread that is in none
\* keeps no more than its last number, and no backlog is longer than listen asked for.
THEOREM TransportTyped == Spec => []TypeOK
BY TransportInvariant, PTL

-----------------------------------------------------------------------------
(* What send returns                                                       *)

LEMMA ReturnsBy ==
    ASSUME TypeOK, Next, NEW t \in Thread, Returns(t)
    PROVE  Fail(t) \/ SendData(t)
<1>0. at[t] # "idle" /\ at'[t] = "idle" /\ port'[Owner(t)] # "down" /\ Owner(t) \in Node
  BY ThreadsAre DEF Returns, Idle, Up
<1>1. ASSUME NEW u \in Thread, u # t, Fail(u) \/ SendData(u) PROVE FALSE
  BY <1>0, <1>1, EndsThen DEF Fail, SendData
<1>2. ASSUME NEW u \in Thread, Connect(u) \/ \E n \in Node, type \in Sent : Begin(u, n, type)
      PROVE  FALSE
  BY <1>0, <1>2 DEF Connect, Begin, TypeOK
<1>3. ASSUME NEW n \in Node, Read(n) PROVE FALSE
  BY <1>0, <1>3 DEF Read, TypeOK
<1>4. ASSUME NEW n \in Node, Crash(n) PROVE FALSE
  BY <1>0, <1>4 DEF Crash, TypeOK
<1>5. ASSUME NEW n \in Node, Listen(n) \/ Accept(n) \/ ReadNothing(n) \/ Start(n) PROVE FALSE
  BY <1>0, <1>5 DEF Listen, Accept, ReadNothing, Start
<1> QED BY <1>1, <1>2, <1>3, <1>4, <1>5 DEF Next

LEMMA SendTells ==
    ASSUME TypeOK, TransportInv, Next, NEW t \in Thread, Returns(t), NEW c, c = call[t]
    PROVE  LET delivered == Handled(c.to, c)' \/ c \in Range(Box(c.to))' \cap arrived'
           IN  IF at[t] = "send" THEN delivered \/ t \in cut ELSE ~delivered
<1>0. Fail(t) \/ SendData(t)
  BY ReturnsBy
<1>1. /\ c \in Call /\ c.from = t /\ c.to \in Node /\ c.nr \in Nat
  BY CallsTyped DEF TransportInv, Returns, Idle, Sending
<1>2. PICK n \in Node : n = c.to
  BY <1>1
<1>3. Box(n)' = Box(n) /\ latest' = latest
  BY <1>0, StepsAside DEF TransportInv, BoxesStay
<1>4. Range(Box(n))' = Range(Box(n))
  BY <1>3 DEF Range
<1>5. CASE SendData(t)
  <2>1. at[t] = "send"
    BY <1>5 DEF SendData
  <2>2. CASE t \notin cut
    <3>1. c \in arrived'
      BY <1>5, <2>2 DEF SendData
    <3>2. c \in Range(Box(n))
      BY <1>2, <2>1, <2>2 DEF TransportInv, Connected
    <3> QED BY <1>2, <1>4, <2>1, <3>1, <3>2
  <2> QED BY <2>1, <2>2
<1>6. CASE Fail(t)
  <2>1. at[t] = "connect"
    BY <1>6 DEF Fail
  <2>2. latest[n][t] < c.nr /\ latest[n][t] \in Nat
    BY <1>1, <2>1, BoxesAre DEF TransportInv, Numbered, Older
  <2>3. c \notin Range(Box(n))
    BY <1>1, <2>1 DEF TransportInv, Numbered, Older
  <2>4. ~Handled(n, c)'
    BY <1>1, <1>3, <2>2 DEF Handled
  <2> QED BY <1>2, <1>4, <2>1, <2>3, <2>4
<1> QED BY <1>0, <1>5, <1>6

\* What send returns is true: of a call that says it was sent, the data waits at the receiver
\* or has been handled, unless the receiver crashed meanwhile, and one that says it failed has
\* left nothing there.
THEOREM SendTellsTheTruth == Spec => ResultsTell
<1>1. TypeOK /\ TransportInv /\ [Next]_vars =>
      [\A t \in Thread : Returns(t) => \A c \in {call[t]} :
        LET delivered == Handled(c.to, c)' \/ c \in Range(Box(c.to))' \cap arrived'
        IN  IF at[t] = "send" THEN delivered \/ t \in cut ELSE ~delivered]_vars
  BY SendTells
<1> QED BY <1>1, TransportInvariant, PTL DEF Spec, ResultsTell

-----------------------------------------------------------------------------
(* The mailbox                                                             *)

LetterOf(c) == [from |-> c.from, nr |-> c.nr]
Lettered(s) == [i \in DOMAIN s |-> LetterOf(s[i])]

LEMMA LettersAre ==
    ASSUME NEW s \in Seq(Call)
    PROVE  /\ Lettered(s) \in Seq(Inbox!Letter) /\ Len(Lettered(s)) = Len(s)
           /\ DOMAIN Lettered(s) = 1..Len(s) /\ Len(s) \in Nat
           /\ \A i \in 1..Len(s) : Lettered(s)[i] = LetterOf(s[i]) /\ s[i] \in Call
<1>1. DOMAIN s = 1..Len(s) /\ Len(s) \in Nat /\ \A i \in 1..Len(s) : s[i] \in Call
  OBVIOUS
<1>2. \A i \in 1..Len(s) : LetterOf(s[i]) \in Inbox!Letter
  BY <1>1 DEF LetterOf, Call, Inbox!Letter
<1>3. Lettered(s) = [i \in 1..Len(s) |-> LetterOf(s[i])]
  BY <1>1 DEF Lettered
<1> HIDE DEF LetterOf, Call
<1> QED BY <1>1, <1>2, <1>3

LEMMA LettersOfAppend ==
    ASSUME NEW s \in Seq(Call), NEW c \in Call
    PROVE  Lettered(Append(s, c)) = Append(Lettered(s), LetterOf(c))
<1> DEFINE r == Append(s, c)
           x == Lettered(s)
           e == LetterOf(c)
<1>1. /\ r \in Seq(Call) /\ Len(r) = Len(s) + 1 /\ r[Len(s) + 1] = c
      /\ \A i \in 1..Len(s) : r[i] = s[i]
  BY AppendProperties
<1>2. /\ Lettered(r) \in Seq(Inbox!Letter) /\ Len(Lettered(r)) = Len(r)
      /\ \A i \in 1..Len(r) : Lettered(r)[i] = LetterOf(r[i])
  BY <1>1, LettersAre
<1>3. /\ x \in Seq(Inbox!Letter) /\ Len(x) = Len(s) /\ Len(s) \in Nat
      /\ \A i \in 1..Len(s) : x[i] = LetterOf(s[i])
  BY LettersAre
<1>4. e \in Inbox!Letter
  BY DEF LetterOf, Call, Inbox!Letter
<1> HIDE DEF x, e, r
<1>5. /\ Append(x, e) \in Seq(Inbox!Letter) /\ Len(Append(x, e)) = Len(s) + 1
      /\ Append(x, e)[Len(s) + 1] = e
      /\ \A i \in 1..Len(s) : Append(x, e)[i] = x[i]
  BY <1>3, <1>4, AppendProperties
<1>6. \A i \in 1..Len(Lettered(r)) : Lettered(r)[i] = Append(x, e)[i]
  <2> SUFFICES ASSUME NEW i \in 1..(Len(s) + 1) PROVE Lettered(r)[i] = Append(x, e)[i]
    BY <1>1, <1>2
  <2>1. CASE i \in 1..Len(s)
    BY <1>1, <1>2, <1>3, <1>5, <2>1
  <2>2. CASE i = Len(s) + 1
    BY <1>1, <1>2, <1>3, <1>5, <2>2 DEF e
  <2> QED BY <1>3, <2>1, <2>2
<1>7. Lettered(r) = Append(x, e)
  BY <1>1, <1>2, <1>5, <1>6, SeqEqual
<1> QED BY <1>7 DEF r, x, e

LEMMA LettersOfTail ==
    ASSUME NEW s \in Seq(Call), s # << >>
    PROVE  /\ Lettered(s) # << >> /\ Head(Lettered(s)) = LetterOf(Head(s))
           /\ Lettered(Tail(s)) = Tail(Lettered(s))
<1> DEFINE r == Tail(s)
           x == Lettered(s)
<1>1. /\ r \in Seq(Call) /\ Len(r) = Len(s) - 1 /\ Len(s) \in Nat \ {0} /\ Head(s) = s[1]
      /\ \A i \in 1..Len(r) : r[i] = s[i + 1]
  BY HeadTailProperties, EmptySeq
<1>2. /\ Lettered(r) \in Seq(Inbox!Letter) /\ Len(Lettered(r)) = Len(r)
      /\ \A i \in 1..Len(r) : Lettered(r)[i] = LetterOf(r[i])
  BY <1>1, LettersAre
<1>3. /\ x \in Seq(Inbox!Letter) /\ Len(x) = Len(s)
      /\ \A i \in 1..Len(s) : x[i] = LetterOf(s[i])
  BY LettersAre
<1> HIDE DEF x, r
<1>4. x # << >> /\ Head(x) = x[1]
  BY <1>1, <1>3
<1>5. /\ Tail(x) \in Seq(Inbox!Letter) /\ Len(Tail(x)) = Len(x) - 1
      /\ \A i \in 1..Len(Tail(x)) : Tail(x)[i] = x[i + 1]
  BY <1>3, <1>4, HeadTailProperties
<1>6. \A i \in 1..Len(Lettered(r)) : Lettered(r)[i] = Tail(x)[i]
  <2> SUFFICES ASSUME NEW i \in 1..(Len(s) - 1) PROVE Lettered(r)[i] = Tail(x)[i]
    BY <1>1, <1>2
  <2>1. i \in 1..Len(r) /\ i \in 1..Len(Tail(x)) /\ i + 1 \in 1..Len(s)
    BY <1>1, <1>3, <1>5
  <2> QED BY <1>1, <1>2, <1>3, <1>5, <2>1
<1>7. Lettered(r) = Tail(x)
  BY <1>1, <1>2, <1>3, <1>5, <1>6, SeqEqual
<1>8. x[1] = LetterOf(s[1])
  BY <1>1, <1>3
<1> QED BY <1>1, <1>4, <1>7, <1>8 DEF r, x

LEMMA LettersOfNone == Lettered(<< >>) = << >>
<1>1. << >> \in Seq(Call) /\ Len(<< >>) = 0
  BY EmptySeq
<1>2. Lettered(<< >>) \in Seq(Inbox!Letter) /\ Len(Lettered(<< >>)) = 0
  BY <1>1, LettersAre
<1> QED BY <1>2, EmptySeq

LEMMA FirstRemoved ==
    ASSUME NEW S, NEW s \in Seq(S), s # << >>
    PROVE  1 \in DOMAIN s /\ Inbox!RemoveAt(s, 1) = Tail(s)
<1>1. Len(s) \in Nat \ {0} /\ DOMAIN s = 1..Len(s)
  BY EmptySeq
<1>2. SubSeq(s, 1, 1 - 1) = << >>
  BY SubSeqEmpty
<1>3. SubSeq(s, 1 + 1, Len(s)) = Tail(s) /\ Tail(s) \in Seq(S)
  BY TailIsSubSeq, HeadTailProperties
<1>4. << >> \o Tail(s) = Tail(s)
  BY <1>3
<1> QED BY <1>1, <1>2, <1>3, <1>4 DEF Inbox!RemoveAt

LEMMA BoxLetters ==
    /\ \A n \in Node : Letters(n) = Lettered(Box(n))
    /\ \A n \in Node : Letters(n)' = Lettered(Box(n)')
BY DEF Letters, Lettered, LetterOf

\* The boxes, as the mailbox sees them.
Boxes == [n \in Node |-> Letters(n)]

LEMMA BoxesAllAre ==
    /\ Boxes = [n \in Node |-> Lettered(Box(n))]
    /\ Boxes' = [n \in Node |-> Lettered(Box(n)')]
BY BoxLetters DEF Boxes

LEMMA BoxIs ==
    ASSUME NEW n \in Node
    PROVE  Boxes[n] = Lettered(Box(n)) /\ Boxes'[n] = Lettered(Box(n)')
BY BoxesAllAre

LEMMA BoxBecomes ==
    ASSUME NEW n \in Node, NEW v, Lettered(Box(n)') = v, \A m \in Node : m # n => Box(m)' = Box(m)
    PROVE  Boxes' = [Boxes EXCEPT ![n] = v]
BY BoxesAllAre

LEMMA ConnectDeposits ==
    ASSUME TypeOK, TransportInv, NEW t \in Thread, Connect(t)
    PROVE  Inbox!Next
<1>1. PICK n : n = call[t].to
  OBVIOUS
<1> DEFINE c == call[t]
           e == LetterOf(c)
<1>2. /\ n \in Node /\ c \in Call /\ c.from = t /\ Box(n)' = Append(Box(n), c)
      /\ \A m \in Node : m # n => Box(m)' = Box(m)
      /\ latest' = latest
  BY <1>1, ConnectAppends DEF TransportInv
<1>3. e \in Inbox!Letter /\ e.from = t /\ e.nr = c.nr /\ c.nr \in Nat
  BY <1>2 DEF LetterOf, Call, Inbox!Letter
<1>4. /\ \A d \in Range(Box(n)) : d.from = t => d.nr < c.nr
      /\ latest[n][t] < c.nr
  BY <1>2 DEF Connect, TransportInv, Numbered, Older
<1> HIDE DEF c, e
<1>5. Box(n) \in Seq(Call)
  BY <1>2, BoxesAre
<1>6. Lettered(Box(n)') = Append(Lettered(Box(n)), e)
  BY <1>2, <1>5, LettersOfAppend DEF e
<1>7. Boxes' = [Boxes EXCEPT ![n] = Append(Boxes[n], e)]
  <2>1. Boxes[n] = Lettered(Box(n))
    BY <1>2, BoxIs
  <2>2. Lettered(Box(n)') = Append(Boxes[n], e)
    BY <1>6, <2>1
  <2> QED BY <1>2, <2>2, BoxBecomes
<1>8. \A d \in Inbox!Range(Boxes[n]) : d.from = e.from => d.nr < e.nr
  <2>1. Boxes[n] = Lettered(Box(n))
    BY <1>2, BoxIs
  <2> SUFFICES ASSUME NEW i \in DOMAIN Lettered(Box(n)), Lettered(Box(n))[i].from = e.from
               PROVE  Lettered(Box(n))[i].nr < e.nr
    BY <2>1 DEF Inbox!Range
  <2>2. /\ i \in DOMAIN Box(n) /\ Lettered(Box(n))[i] = LetterOf(Box(n)[i])
        /\ Box(n)[i] \in Range(Box(n))
    BY DEF Lettered, Range
  <2> QED BY <1>3, <1>4, <2>2 DEF LetterOf
<1>9. e \in Inbox!Range(Boxes'[n])
  <2>1. Append(Lettered(Box(n)), e)[Len(Lettered(Box(n))) + 1] = e
        /\ Len(Lettered(Box(n))) + 1 \in DOMAIN Append(Lettered(Box(n)), e)
    BY <1>3, <1>5, LettersAre, AppendProperties
  <2> QED BY <1>2, <1>6, <2>1, BoxIs DEF Inbox!Range
<1>10. Inbox!Deposit(n, e)
  BY <1>2, <1>3, <1>4, <1>7, <1>8 DEF Inbox!Deposit, Boxes
<1> QED BY <1>2, <1>9, <1>10 DEF Inbox!Next, Boxes

LEMMA FirstGoneLetters ==
    ASSUME TypeOK, TransportInv, NEW n \in Node, FirstGone(n)
    PROVE  /\ Boxes[n] # << >> /\ Head(Boxes[n]) = LetterOf(conn[n])
           /\ Boxes' = [Boxes EXCEPT ![n] = Tail(Boxes[n])]
           /\ Boxes[n] \in Seq(Inbox!Letter)
<1>1. /\ Box(n) # << >> /\ Head(Box(n)) = conn[n] /\ Box(n)' = Tail(Box(n))
      /\ \A m \in Node : m # n => Box(m)' = Box(m)
      /\ Box(n) \in Seq(Call)
  BY BoxesAre DEF FirstGone
<1>2. /\ Lettered(Box(n)) # << >> /\ Head(Lettered(Box(n))) = LetterOf(conn[n])
      /\ Lettered(Box(n)') = Tail(Lettered(Box(n)))
  BY <1>1, LettersOfTail
<1>3. Lettered(Box(n)) \in Seq(Inbox!Letter)
  BY <1>1, LettersAre
<1>4. Boxes[n] = Lettered(Box(n))
  BY BoxIs
<1>5. Lettered(Box(n)') = Tail(Boxes[n])
  BY <1>2, <1>4
<1>6. Boxes' = [Boxes EXCEPT ![n] = Tail(Boxes[n])]
  BY <1>1, <1>5, BoxBecomes
<1> QED BY <1>2, <1>3, <1>4, <1>6

LEMMA ReadTakesLetter ==
    ASSUME TypeOK, TransportInv, NEW n \in Node, Read(n)
    PROVE  Inbox!Next
<1>1. /\ FirstGone(n)
      /\ latest' = [latest EXCEPT ![n][conn[n].from] = conn[n].nr]
  BY ReadTakes DEF TransportInv
<1>2. /\ Boxes[n] # << >> /\ Head(Boxes[n]) = LetterOf(conn[n])
      /\ Boxes' = [Boxes EXCEPT ![n] = Tail(Boxes[n])]
  BY <1>1, FirstGoneLetters
<1>3. latest' = [latest EXCEPT ![n][Head(Boxes[n]).from] = Head(Boxes[n]).nr]
  <2>1. Head(Boxes[n]).from = conn[n].from /\ Head(Boxes[n]).nr = conn[n].nr
    <3>1. LetterOf(conn[n]).from = conn[n].from /\ LetterOf(conn[n]).nr = conn[n].nr
      BY DEF LetterOf
    <3> QED BY <1>2, <3>1
  <2> QED BY <1>1, <2>1
<1>4. Inbox!Take(n)
  BY <1>2, <1>3 DEF Inbox!Take, Boxes
<1> QED BY <1>4 DEF Inbox!Next

LEMMA ReadNothingLosesLetter ==
    ASSUME TypeOK, TransportInv, NEW n \in Node, ReadNothing(n)
    PROVE  Inbox!Next
<1>1. FirstGone(n) /\ latest' = latest
  BY ReadNothingLoses
<1>2. /\ Boxes[n] # << >> /\ Boxes[n] \in Seq(Inbox!Letter)
      /\ Boxes' = [Boxes EXCEPT ![n] = Tail(Boxes[n])]
  BY <1>1, FirstGoneLetters
<1>3. 1 \in DOMAIN Boxes[n] /\ Inbox!RemoveAt(Boxes[n], 1) = Tail(Boxes[n])
  <2> DEFINE s == Boxes[n]
  <2>1. s \in Seq(Inbox!Letter) /\ s # << >>
    BY <1>2
  <2> HIDE DEF s
  <2>2. 1 \in DOMAIN s /\ Inbox!RemoveAt(s, 1) = Tail(s)
    BY <2>1, FirstRemoved
  <2> QED BY <2>2 DEF s
<1>4. Boxes' = [Boxes EXCEPT ![n] = Inbox!RemoveAt(Boxes[n], 1)]
  BY <1>2, <1>3
<1>5. Inbox!Lose(n, 1)
  BY <1>1, <1>4 DEF Inbox!Lose, Boxes
<1> QED BY <1>3, <1>5 DEF Inbox!Next, Boxes

LEMMA CrashLosesAll ==
    ASSUME TypeOK, NEW n \in Node, Crash(n)
    PROVE  Inbox!Next
<1>1. /\ Box(n)' = << >> /\ latest' = latest
      /\ \A m \in Node : m # n => Box(m)' = Box(m)
  BY CrashEmpties
<1>2. Boxes' = [Boxes EXCEPT ![n] = << >>]
  BY <1>1, LettersOfNone, BoxBecomes
<1>3. Inbox!LoseAll(n)
  BY <1>1, <1>2 DEF Inbox!LoseAll, Boxes
<1> QED BY <1>3 DEF Inbox!Next

LEMMA BoxesUnseen ==
    ASSUME latest' = latest, \A n \in Node : Box(n)' = Box(n)
    PROVE  UNCHANGED <<Boxes, latest>>
BY BoxesAllAre

LEMMA MailboxNext ==
    ASSUME TypeOK, TransportInv, [Next]_vars
    PROVE  [Inbox!Next]_<<Boxes, latest>>
<1>1. CASE BoxesStay
  BY <1>1, BoxesUnseen DEF BoxesStay
<1>2. CASE UNCHANGED vars
  <2>1. latest' = latest /\ \A n \in Node : Box(n)' = Box(n)
    BY <1>2 DEF vars, Box, Handled
  <2> QED BY <2>1, BoxesUnseen
<1>3. CASE Next /\ ~BoxesStay
  <2>1. \/ \E t \in Thread : Connect(t)
        \/ \E n \in Node : Read(n) \/ ReadNothing(n) \/ Crash(n)
    BY <1>3, StepsAside DEF Next, TransportInv
  <2> QED BY <2>1, ConnectDeposits, ReadTakesLetter, ReadNothingLosesLetter, CrashLosesAll
<1> QED BY <1>1, <1>2, <1>3

\* The calls between two nodes' processes make an ordered mailbox that loses and never repeats:
\* what the modules of the nodes take for granted of the transport.
THEOREM TransportIsMailbox == Spec => ImplementsMailbox
<1>1. Init => Inbox!Init
  <2> SUFFICES ASSUME Init PROVE Inbox!Init
    OBVIOUS
  <2>1. \A n \in Node : Box(n) = << >>
    BY DEF Init, Box
  <2>2. \A n \in Node : Letters(n) = << >>
    BY <2>1, BoxLetters, LettersOfNone
  <2>3. [n \in Node |-> Letters(n)] = [n \in Node |-> << >>]
    BY <2>2
  <2> QED BY <2>3 DEF Init, Inbox!Init
<1>2. TypeOK /\ TransportInv /\ [Next]_vars =>
      [Inbox!Next]_<<[n \in Node |-> Letters(n)], latest>>
  BY MailboxNext DEF Boxes
<1> QED BY <1>1, <1>2, TransportInvariant, PTL DEF Spec, ImplementsMailbox, Inbox!Spec
=============================================================================
