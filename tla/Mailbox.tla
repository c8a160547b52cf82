------------------------------ MODULE Mailbox ------------------------------
(***************************************************************************)
(* What the message transport promises the nodes: a box for each of them,  *)
(* emptied one message at a time from the front, where the messages of a   *)
(* thread lie in the order in which it sent them.  Messages may be lost,   *)
(* and are never handled twice.  This is the inbox that LocalCluster,      *)
(* LocalSync and KiviLeaf take for granted.                                *)
(***************************************************************************)
EXTENDS Naturals, Sequences, SequencesExt

CONSTANTS Node, Thread

Letter == [from : Thread, nr : Nat \ {0}]   \* the thread's nr-th message

VARIABLES
    box,        \* box[n]: the letters n has still to handle
    latest      \* latest[n][t]: the last message of thread t that n has handled

Init ==
    /\ box = [n \in Node |-> << >>]
    /\ latest = [n \in Node |-> [t \in Thread |-> 0]]

\* A thread sends: later than what it sent before.
Deposit(n, c) ==
    /\ c \in Letter
    /\ latest[n][c.from] < c.nr
    /\ \A d \in Range(box[n]) : d.from = c.from => d.nr < c.nr
    /\ box' = [box EXCEPT ![n] = Append(@, c)]
    /\ UNCHANGED latest

Take(n) ==
    /\ box[n] # << >>
    /\ latest' = [latest EXCEPT ![n][Head(box[n]).from] = Head(box[n]).nr]
    /\ box' = [box EXCEPT ![n] = Tail(@)]

\* A message is lost ...
Lose(n, i) ==
    /\ box' = [box EXCEPT ![n] = RemoveAt(@, i)]
    /\ UNCHANGED latest

\* ... or all that wait are.
LoseAll(n) ==
    /\ box' = [box EXCEPT ![n] = << >>]
    /\ UNCHANGED latest

\* A letter that is sent is in the box afterwards.
Next ==
    \E n \in Node :
        \/ \E c \in Range(box'[n]) : Deposit(n, c)
        \/ Take(n)
        \/ \E i \in DOMAIN box[n] : Lose(n, i)
        \/ LoseAll(n)

Spec == Init /\ [][Next]_<<box, latest>>

=============================================================================
