---------------------------- MODULE RPCTransport ----------------------------
(***************************************************************************)
(* RPCClient::send and RPCServer::start over the sockets of the system: a  *)
(* call connects, sends once and closes; a server takes one connection     *)
(* after the other from its backlog, reads once, and runs the handler of   *)
(* the message, which may itself call send before the next connection is   *)
(* accepted.  Processes crash and boot again.                              *)
(*                                                                         *)
(* A message is small enough for one read (LocalSync has those that are    *)
(* not), and it matters here only by what its handler sends in return.     *)
(***************************************************************************)
EXTENDS Naturals, Sequences, SequencesExt

CONSTANTS
    Node,
    Client,     \* a node's threads that send, other than its message server
    Sent,       \* types of the messages they send
    Backlog,    \* connections a server holds that it has not accepted, the 10
                \* of listen
    MaxCalls,   \* bound: calls of a client thread
    MaxCrashes  \* bound: crashes in a behaviour

Type == {"HEART_BEAT", "SYNC_REQUEST", "SYNC_RESPONSE", "SELF_PROMOTION"}

ASSUME TransportAssumption ==
    /\ Sent \subseteq Type
    /\ Backlog \in Nat \ {0}
    /\ MaxCalls \in Nat
    /\ MaxCrashes \in Nat

VARIABLES
    port,       \* port[n]: what n's message server listens at
    queue,      \* queue[n]: connections made and not accepted
    conn,       \* conn[n]: the connection that n's server is at, if any
    arrived,    \* calls whose data has come and is not read yet
    at,         \* at[t]: where in send thread t is
    call,       \* call[t]: the call t is in, or just the number of its last one
    latest,     \* history: latest[n][t], the last call of t that n has handled
    cut,        \* history: threads in a call whose receiver crashed
    crashes     \* number of crashes so far

vars == <<port, queue, conn, arrived, at, call, latest, cut, crashes>>

Thread == Node \X (Client \cup {"server"})
Owner(t)  == t[1]
Server(n) == <<n, "server">>

Call  == [from : Thread, nr : Nat \ {0}, to : Node, type : Type]
Done(k) == [nr |-> k]
NoCall  == Done(0)

\* What a handler sends in return.
Answer == [SYNC_REQUEST |-> "SYNC_RESPONSE", SELF_PROMOTION |-> "SYNC_REQUEST"]

Up(n)   == port[n] # "down"
Idle(t) == at[t] = "idle"

TypeOK ==
    /\ port \in [Node -> {"down", "none", "own", "other"}]
    /\ queue \in [Node -> Seq(Call)]
    /\ \A n \in Node : Len(queue[n]) <= Backlog
    /\ conn \in [Node -> Call \cup {NoCall}]
    /\ arrived \in SUBSET Call
    /\ at \in [Thread -> {"idle", "connect", "send"}]
    /\ call \in [Thread -> Call \cup [nr : Nat]]
    /\ latest \in [Node -> [Thread -> Nat]]
    /\ cut \in SUBSET Thread
    /\ crashes \in 0..MaxCrashes

Init ==
    /\ port = [n \in Node |-> "down"]
    /\ queue = [n \in Node |-> << >>]
    /\ conn = [n \in Node |-> NoCall]
    /\ arrived = {}
    /\ at = [t \in Thread |-> "idle"]
    /\ call = [t \in Thread |-> NoCall]
    /\ latest = [n \in Node |-> [t \in Thread |-> 0]]
    /\ cut = {}
    /\ crashes = 0

Handled(n, c) == c.nr <= latest[n][c.from]

\* What n has still to handle: its handler may be running for conn[n].
Box(n) ==
    IF conn[n] = NoCall \/ Handled(n, conn[n]) THEN queue[n] ELSE <<conn[n]>> \o queue[n]

-----------------------------------------------------------------------------
(* RPCClient::send                                                         *)

NewCall(t, n, type) == [from |-> t, nr |-> call[t].nr + 1, to |-> n, type |-> type]

Begin(t, n, type) ==
    /\ t[2] # "server"
    /\ Up(Owner(t)) /\ Idle(t)
    /\ call[t].nr < MaxCalls
    /\ Owner(t) # n
    /\ call' = [call EXCEPT ![t] = NewCall(t, n, type)]
    /\ at' = [at EXCEPT ![t] = "connect"]
    /\ UNCHANGED <<port, queue, conn, arrived, latest, cut, crashes>>

Full(n) == Len(queue[n]) = Backlog

\* Mutant: the result of connect is not looked at.
ConnectUnchecked(t) ==
    LET n == call[t].to IN
    /\ at[t] = "connect"
    /\ queue' = IF port[n] = "own" /\ ~Full(n) THEN [queue EXCEPT ![n] = Append(@, call[t])] ELSE queue
    /\ at' = [at EXCEPT ![t] = "send"]
    /\ UNCHANGED <<port, conn, arrived, call, latest, cut, crashes>>

Connect(t) ==
    LET n == call[t].to IN
    /\ at[t] = "connect"
    /\ port[n] = "own" /\ ~Full(n)
    /\ queue' = [queue EXCEPT ![n] = Append(@, call[t])]
    /\ at' = [at EXCEPT ![t] = "send"]
    /\ UNCHANGED <<port, conn, arrived, call, latest, cut, crashes>>

\* A call ends.  That of a handler is the last thing the handler does: its server
\* closes the connection and accepts the next.
Ends(t) ==
    /\ at' = [at EXCEPT ![t] = "idle"]
    /\ call' = [call EXCEPT ![t] = Done(@.nr)]
    /\ cut' = cut \ {t}
    /\ conn' = IF t = Server(Owner(t)) THEN [conn EXCEPT ![Owner(t)] = NoCall] ELSE conn

\* Mutant: connect never gives up on a full backlog.
FailIfRefused(t) ==
    /\ at[t] = "connect"
    /\ port[call[t].to] # "own"
    /\ Ends(t)
    /\ UNCHANGED <<port, queue, arrived, latest, crashes>>

\* Nobody listens, or the backlog has been full until the system gave up: false.
Fail(t) ==
    LET n == call[t].to IN
    /\ at[t] = "connect"
    /\ port[n] = "own" => Full(n)
    /\ Ends(t)
    /\ UNCHANGED <<port, queue, arrived, latest, crashes>>

\* The data goes out, to nowhere if the connection has been cut: true.
SendData(t) ==
    /\ at[t] = "send"
    /\ arrived' = IF t \in cut THEN arrived ELSE arrived \cup {call[t]}
    /\ Ends(t)
    /\ UNCHANGED <<port, queue, latest, crashes>>

-----------------------------------------------------------------------------
(* RPCServer::start                                                        *)

\* The result of bind is not looked at.  If the port is taken, by another process
\* or by a connection of the last one that lingers, listen gives the socket a
\* port that nobody knows.
Listen(n) ==
    /\ port[n] = "none"
    /\ \E p \in {"own", "other"} : port' = [port EXCEPT ![n] = p]
    /\ UNCHANGED <<queue, conn, arrived, at, call, latest, cut, crashes>>

\* Mutant: the connection stays in the backlog.
AcceptKeeping(n) ==
    /\ conn[n] = NoCall /\ queue[n] # << >>
    /\ conn' = [conn EXCEPT ![n] = Head(queue[n])]
    /\ UNCHANGED <<port, queue, arrived, at, call, latest, cut, crashes>>

Accept(n) ==
    /\ conn[n] = NoCall /\ queue[n] # << >>
    /\ conn' = [conn EXCEPT ![n] = Head(queue[n])]
    /\ queue' = [queue EXCEPT ![n] = Tail(@)]
    /\ UNCHANGED <<port, arrived, at, call, latest, cut, crashes>>

\* read returns a message; its handler sends an answer, or is done.
Read(n) ==
    LET c == conn[n]
        t == Server(n)
    IN
    /\ c \in arrived
    /\ arrived' = arrived \ {c}
    /\ latest' = [latest EXCEPT ![n][c.from] = c.nr]
    /\ IF c.type \in DOMAIN Answer
         THEN /\ call' = [call EXCEPT ![t] = NewCall(t, Owner(c.from), Answer[c.type])]
              /\ at' = [at EXCEPT ![t] = "connect"]
              /\ UNCHANGED conn
         ELSE /\ conn' = [conn EXCEPT ![n] = NoCall]
              /\ UNCHANGED <<call, at>>
    /\ UNCHANGED <<port, queue, cut, crashes>>

\* Mutant: nobody catches the parse error, and the server is stuck.
ReadNothingUncaught(n) ==
    /\ conn[n] # NoCall /\ ~Handled(n, conn[n])
    /\ conn[n] \notin arrived /\ call[conn[n].from] # conn[n]
    /\ UNCHANGED vars

\* The client died before it sent anything: read returns nothing, which does not
\* parse.
ReadNothing(n) ==
    LET c == conn[n] IN
    /\ c # NoCall /\ ~Handled(n, c)
    /\ c \notin arrived /\ call[c.from] # c
    /\ conn' = [conn EXCEPT ![n] = NoCall]
    /\ UNCHANGED <<port, queue, arrived, at, call, latest, cut, crashes>>

-----------------------------------------------------------------------------
(* Processes                                                               *)

Start(n) ==
    /\ ~Up(n)
    /\ port' = [port EXCEPT ![n] = "none"]
    /\ UNCHANGED <<queue, conn, arrived, at, call, latest, cut, crashes>>

Crash(n) ==
    LET mine == {t \in Thread : Owner(t) = n} IN
    /\ Up(n) /\ crashes < MaxCrashes
    /\ crashes' = crashes + 1
    /\ port' = [port EXCEPT ![n] = "down"]
    /\ queue' = [queue EXCEPT ![n] = << >>]
    /\ conn' = [conn EXCEPT ![n] = NoCall]
    /\ arrived' = arrived \ Range(Box(n))
    /\ at' = [t \in Thread |-> IF t \in mine THEN "idle" ELSE at[t]]
    /\ call' = [t \in Thread |-> IF t \in mine THEN Done(call[t].nr) ELSE call[t]]
    /\ cut' = (cut \cup {t \in Thread : at[t] = "send" /\ call[t].to = n}) \ mine
    /\ UNCHANGED latest

Send(t)  == Connect(t) \/ Fail(t) \/ SendData(t)
Serve(n) == Listen(n) \/ Accept(n) \/ Read(n) \/ ReadNothing(n)

Next ==
    \/ \E t \in Thread :
        \/ \E n \in Node, type \in Sent : Begin(t, n, type)
        \/ Connect(t) \/ Fail(t) \/ SendData(t)
    \/ \E n \in Node :
        \/ Listen(n) \/ Accept(n) \/ Read(n) \/ ReadNothing(n)
        \/ Start(n) \/ Crash(n)

Spec == Init /\ [][Next]_vars

\* Threads that can go on do; nobody has to call, crash or boot.
Fairness ==
    /\ \A t \in Thread : WF_vars(Send(t))
    /\ \A n \in Node : WF_vars(Serve(n))

FairSpec == Spec /\ Fairness

-----------------------------------------------------------------------------
(* Properties                                                              *)

\* The transport is an ordered, lossy mailbox: whatever crashes, a node handles
\* the messages of each sending thread in the order it sent them, and none twice.
Letters(n) == [i \in DOMAIN Box(n) |-> [from |-> Box(n)[i].from, nr |-> Box(n)[i].nr]]
Inbox == INSTANCE Mailbox WITH box <- [n \in Node |-> Letters(n)]
ImplementsMailbox == Inbox!Spec

\* What send returns is worth this much: a message it says it sent is handled or
\* about to be, unless the receiver has crashed in the meantime; one it says it
\* could not send has not been and (ImplementsMailbox) will not be handled, so that
\* sending it again would do no harm.
Returns(t) == ~Idle(t) /\ Idle(t)' /\ Up(Owner(t))'
ResultsTell ==
    [][\A t \in Thread : Returns(t) => \A c \in {call[t]} :
        LET delivered == Handled(c.to, c)' \/ c \in Range(Box(c.to))' \cap arrived'
        IN  IF at[t] = "send" THEN delivered \/ t \in cut ELSE ~delivered]_vars

\* Every call returns: two message servers that answer each other while both
\* backlogs are full wait only until connect gives up.
EveryCallReturns == \A t \in Thread : []<>Idle(t)

\* Every connection is dealt with: no client, dead or alive, and no answer that a
\* handler sends holds up a message server for ever, so that once the calls have
\* been made, nothing is left in any box.
EveryConnectionServed == []<>(\A n \in Node : Box(n) = << >>)

=============================================================================
