--------------------------- MODULE AdmissionQueue ---------------------------
(***************************************************************************)
(* What a concurrency limiter with a bounded waiting line promises, with   *)
(* nothing said about channels, timers or goroutines: at most Limit        *)
(* clients run at once, at most LineLimit wait, the line is served in      *)
(* order, nobody overtakes it, and a slot is never left idle while         *)
(* somebody waits for one.  Throttle is shown to implement it.             *)
(***************************************************************************)
EXTENDS Naturals, FiniteSets, SequencesExt

CONSTANTS Clients, Limit, LineLimit

VARIABLES running,  \* the clients that hold a slot
          line      \* the clients that wait for one, oldest first

queueVars == <<running, line>>

QueueInit == running = {} /\ line = <<>>

Outside(c) == c \notin running /\ c \notin ToSet(line)

\* A newcomer takes a free slot only when nobody waits for it.
Start(c) ==
    /\ Outside(c)
    /\ line = <<>>
    /\ Cardinality(running) < Limit
    /\ running' = running \cup {c}
    /\ UNCHANGED line

\* A newcomer waits only while every slot is taken and the line has room.
Join(c) ==
    /\ Outside(c)
    /\ Cardinality(running) = Limit
    /\ Len(line) < LineLimit
    /\ line' = Append(line, c)
    /\ UNCHANGED running

\* A waiter gives up, from any place in the line.
Leave(c) ==
    /\ \E i \in DOMAIN line : line[i] = c /\ line' = RemoveAt(line, i)
    /\ UNCHANGED running

\* A slot comes back: to the head of the line, or to the pool.
Finish(c) ==
    /\ c \in running
    /\ \/ /\ line = <<>>
          /\ running' = running \ {c}
          /\ UNCHANGED line
       \/ /\ line # <<>>
          /\ running' = (running \ {c}) \cup {Head(line)}
          /\ line' = Tail(line)

QueueNext == \E c \in Clients : Start(c) \/ Join(c) \/ Leave(c) \/ Finish(c)

QueueSpec == QueueInit /\ [][QueueNext]_queueVars
=============================================================================
