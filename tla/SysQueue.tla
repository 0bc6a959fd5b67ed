------------------------------ MODULE SysQueue ------------------------------
(***************************************************************************)
(* What the rendezvous queue of one server promises its clients, without   *)
(* process table, flags or pointers: requests are taken one at a time, in  *)
(* the order in which they were made, each of them once, and a client has  *)
(* at most one of them open.  That every request is answered is not part   *)
(* of it: a request may stay open for ever (a reply can get lost).         *)
(***************************************************************************)
EXTENDS Naturals, Sequences

CONSTANTS Client, NoClient

VARIABLES
  queue,    \* the clients whose requests wait, in order
  served,   \* the client whose request the server holds, or NoClient
  open      \* the clients that asked and have no answer yet

vars == <<queue, served, open>>

Init == queue = <<>> /\ served = NoClient /\ open \in SUBSET Client

Ask(c) ==
  /\ c \notin open
  /\ open' = open \cup {c}
  /\ \/ queue = <<>> /\ served = NoClient /\ served' = c /\ UNCHANGED queue
     \/ queue' = Append(queue, c) /\ UNCHANGED served

Take ==
  /\ served = NoClient /\ queue # <<>>
  /\ served' = Head(queue) /\ queue' = Tail(queue)
  /\ UNCHANGED open

\* The server is done with the request; its client has the answer or not yet.
Answer ==
  /\ served # NoClient
  /\ served' = NoClient
  /\ open' \in {open, open \ {served}}
  /\ UNCHANGED queue

\* A client picks up an answer that was held back for it.
Collect(c) ==
  /\ c \in open /\ c # served /\ \A i \in 1 .. Len(queue) : queue[i] # c
  /\ open' = open \ {c}
  /\ UNCHANGED <<queue, served>>

Next == Take \/ Answer \/ \E c \in Client : Ask(c) \/ Collect(c)

Spec == Init /\ [][Next]_vars

=============================================================================
