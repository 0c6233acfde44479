------------------------------ MODULE Throttle ------------------------------
(***************************************************************************)
(* The Throttle middleware (httpx/middleware/throttle.go): at most Limit   *)
(* requests are served at once, at most BacklogLimit more wait for a slot, *)
(* each for BacklogTimeout or until its client is gone.                    *)
(*                                                                         *)
(* The two buffered channels of the closure are counted by active and      *)
(* backlog.  A goroutine that blocks in the second select is parked on     *)
(* active; the Go runtime keeps parked senders in arrival order, and a     *)
(* receive from a full channel refills the buffer from the first of them   *)
(* in the same step, so nobody can slip in between.  A parked sender that  *)
(* leaves for its timer or its context is taken off that queue.            *)
(*                                                                         *)
(* A request that ended may come back: a member of Requests stands for     *)
(* one connection that sends request after request.                        *)
(***************************************************************************)
EXTENDS Naturals, FiniteSets, SequencesExt

CONSTANTS Requests,      \* the connections that send requests
          Limit,         \* ThrottleConfig.Limit
          BacklogLimit   \* ThrottleConfig.BacklogLimit, 0 for a nil backlog

ASSUME RequestsAssumption == IsFiniteSet(Requests)
ASSUME LimitAssumption == Limit \in Nat \ {0}
ASSUME BacklogLimitAssumption == BacklogLimit \in Nat

VARIABLES pc,        \* where the request is in the middleware
          timer,     \* its BacklogTimeout timer
          gone,      \* whether its context is done
          outcome,   \* how its last pass through the middleware ended
          active,    \* tokens in the active channel
          parked,    \* senders blocked on active, oldest first
          backlog    \* tokens in the backlog channel

vars == <<pc, timer, gone, outcome, active, parked, backlog>>

PCs == {"idle", "arrived", "full", "queued", "parked", "serving",
        "releasing", "unwinding"}
Timers == {"off", "running", "fired"}
Outcomes == {"none", "served", "panicked", "refused", "expired", "left"}

Init ==
    /\ pc = [r \in Requests |-> "idle"]
    /\ timer = [r \in Requests |-> "off"]
    /\ gone = [r \in Requests |-> FALSE]
    /\ outcome = [r \in Requests |-> "none"]
    /\ active = 0
    /\ parked = <<>>
    /\ backlog = 0

HoldsSlot(r) == pc[r] \in {"serving", "releasing"}

\* From the second select on, the deferred receive from backlog is pending.
HoldsBacklog(r) == timer[r] # "off"

(***************************************************************************)
(* The request's own steps.                                                *)
(***************************************************************************)
Arrive(r) ==
    /\ pc[r] = "idle"
    /\ pc' = [pc EXCEPT ![r] = "arrived"]
    /\ gone' = [gone EXCEPT ![r] = FALSE]
    /\ outcome' = [outcome EXCEPT ![r] = "none"]
    /\ UNCHANGED <<timer, active, parked, backlog>>

\* The first select: the active channel has room, or default.
TryActive(r) ==
    /\ pc[r] = "arrived"
    /\ \/ /\ active < Limit
          /\ active' = active + 1
          /\ pc' = [pc EXCEPT ![r] = "serving"]
       \/ /\ active = Limit
          /\ pc' = [pc EXCEPT ![r] = "full"]
          /\ UNCHANGED active
    /\ UNCHANGED <<timer, gone, outcome, parked, backlog>>

\* The nil test and the second select; the timer is started right after.
TryBacklog(r) ==
    /\ pc[r] = "full"
    /\ \/ /\ backlog < BacklogLimit
          /\ backlog' = backlog + 1
          /\ timer' = [timer EXCEPT ![r] = "running"]
          /\ pc' = [pc EXCEPT ![r] = "queued"]
          /\ UNCHANGED outcome
       \/ /\ backlog = BacklogLimit
          /\ outcome' = [outcome EXCEPT ![r] = "refused"]
          /\ pc' = [pc EXCEPT ![r] = "idle"]
          /\ UNCHANGED <<timer, backlog>>
    /\ UNCHANGED <<gone, active, parked>>

\* The third select: any ready case, or park when none is.
Select(r) ==
    /\ pc[r] = "queued"
    /\ \/ /\ active < Limit
          /\ active' = active + 1
          /\ pc' = [pc EXCEPT ![r] = "serving"]
          /\ UNCHANGED <<outcome, parked>>
       \/ /\ timer[r] = "fired"
          /\ outcome' = [outcome EXCEPT ![r] = "expired"]
          /\ pc' = [pc EXCEPT ![r] = "unwinding"]
          /\ UNCHANGED <<active, parked>>
       \/ /\ gone[r]
          /\ outcome' = [outcome EXCEPT ![r] = "left"]
          /\ pc' = [pc EXCEPT ![r] = "unwinding"]
          /\ UNCHANGED <<active, parked>>
       \/ /\ active = Limit
          /\ timer[r] # "fired"
          /\ ~gone[r]
          /\ parked' = Append(parked, r)
          /\ pc' = [pc EXCEPT ![r] = "parked"]
          /\ UNCHANGED <<active, outcome>>
    /\ UNCHANGED <<timer, gone, backlog>>

\* Where the deferred receive from active leaves r: it runs first, the
\* one from backlog, if the request came through the backlog, last.
AfterRelease(r) == IF HoldsBacklog(r) THEN "unwinding" ELSE "idle"

\* next.ServeHTTP returns or panics; the deferred calls run either way.
HandlerEnds(r) ==
    /\ pc[r] = "serving"
    /\ pc' = [pc EXCEPT ![r] = "releasing"]
    /\ \E how \in {"served", "panicked"} :
          outcome' = [outcome EXCEPT ![r] = how]
    /\ UNCHANGED <<timer, gone, active, parked, backlog>>

\* Mutant of ReleaseActive: a counter that is lowered and wakes nobody.
ReleaseActiveUnheard(r) ==
    /\ pc[r] = "releasing"
    /\ active > 0
    /\ active' = active - 1
    /\ pc' = [pc EXCEPT ![r] = AfterRelease(r)]
    /\ UNCHANGED <<timer, gone, outcome, parked, backlog>>

\* The deferred <-active: the token leaves, or is replaced by the one of
\* the first parked sender, whose select returns.
ReleaseActive(r) ==
    /\ pc[r] = "releasing"
    /\ active > 0
    /\ \/ /\ parked = <<>>
          /\ active' = active - 1
          /\ pc' = [pc EXCEPT ![r] = AfterRelease(r)]
          /\ UNCHANGED parked
       \/ /\ parked # <<>>
          /\ parked' = Tail(parked)
          /\ pc' = [pc EXCEPT ![r] = AfterRelease(r),
                              ![Head(parked)] = "serving"]
          /\ UNCHANGED active
    /\ UNCHANGED <<timer, gone, outcome, backlog>>

\* Mutant of ReleaseBacklog: no deferred <-backlog.
ReleaseBacklogForgotten(r) ==
    /\ pc[r] = "unwinding"
    /\ timer' = [timer EXCEPT ![r] = "off"]
    /\ pc' = [pc EXCEPT ![r] = "idle"]
    /\ UNCHANGED <<gone, outcome, active, parked, backlog>>

\* The deferred timer.Stop and <-backlog.
ReleaseBacklog(r) ==
    /\ pc[r] = "unwinding"
    /\ backlog > 0
    /\ backlog' = backlog - 1
    /\ timer' = [timer EXCEPT ![r] = "off"]
    /\ pc' = [pc EXCEPT ![r] = "idle"]
    /\ UNCHANGED <<gone, outcome, active, parked>>

(***************************************************************************)
(* What happens to the request: its timer fires, its client disconnects.   *)
(* A parked goroutine is woken by either; any other finds it out when, and *)
(* if, it reaches the third select.                                        *)
(***************************************************************************)
\* Mutant of LeaveParked: the line keeps a waiter that has left.
LeaveParkedStale(r, why) ==
    /\ pc' = [pc EXCEPT ![r] = "unwinding"]
    /\ outcome' = [outcome EXCEPT ![r] = why]
    /\ UNCHANGED parked

LeaveParked(r, why) ==
    /\ \E i \in DOMAIN parked : parked[i] = r /\ parked' = RemoveAt(parked, i)
    /\ pc' = [pc EXCEPT ![r] = "unwinding"]
    /\ outcome' = [outcome EXCEPT ![r] = why]

\* Mutant of TimerFires: the third select without its timer case.
TimerFiresUnheard(r) ==
    /\ timer[r] = "running"
    /\ timer' = [timer EXCEPT ![r] = "fired"]
    /\ UNCHANGED <<pc, gone, outcome, active, parked, backlog>>

TimerFires(r) ==
    /\ timer[r] = "running"
    /\ timer' = [timer EXCEPT ![r] = "fired"]
    /\ \/ pc[r] = "parked" /\ LeaveParked(r, "expired")
       \/ pc[r] # "parked" /\ UNCHANGED <<pc, outcome, parked>>
    /\ UNCHANGED <<gone, active, backlog>>

ClientGone(r) ==
    /\ pc[r] # "idle"
    /\ ~gone[r]
    /\ gone' = [gone EXCEPT ![r] = TRUE]
    /\ \/ pc[r] = "parked" /\ LeaveParked(r, "left")
       \/ pc[r] # "parked" /\ UNCHANGED <<pc, outcome, parked>>
    /\ UNCHANGED <<timer, active, backlog>>

\* The steps the Go scheduler owes a runnable goroutine.
Progress(r) ==
    TryActive(r) \/ TryBacklog(r) \/ Select(r)
        \/ ReleaseActive(r) \/ ReleaseBacklog(r)

Next ==
    \E r \in Requests :
        \/ Arrive(r) \/ Progress(r) \/ HandlerEnds(r)
        \/ TimerFires(r) \/ ClientGone(r)

Spec == Init /\ [][Next]_vars

\* Goroutines run and started timers fire.  Nothing makes a handler return,
\* a client come or a client leave.
FairSpec ==
    /\ Spec
    /\ \A r \in Requests : WF_vars(Progress(r)) /\ WF_vars(TimerFires(r))

-----------------------------------------------------------------------------
(***************************************************************************)
(* Properties.                                                             *)
(***************************************************************************)
TypeOK ==
    /\ pc \in [Requests -> PCs]
    /\ timer \in [Requests -> Timers]
    /\ gone \in [Requests -> BOOLEAN]
    /\ outcome \in [Requests -> Outcomes]
    /\ active \in 0..Limit
    /\ parked \in Seq(Requests)
    /\ backlog \in 0..BacklogLimit

\* Every token in the active channel belongs to one request that is being
\* served or is about to give it back.
SlotAccounting == Cardinality({r \in Requests : HoldsSlot(r)}) = active

\* Likewise for the backlog channel: a token for every request that passed
\* the second select and has not run its last deferred call.
BacklogAccounting ==
    Cardinality({r \in Requests : HoldsBacklog(r)}) = backlog

\* Whatever path a request took to its slot and however it ended, no slot and
\* no place in the backlog is lost or given back twice: not on a panic, a
\* timeout or a disconnection.  So at most Limit requests run.
TokensAreExact == SlotAccounting /\ BacklogAccounting

\* A request waits only while every slot is taken: a freed slot never sits
\* idle beside a parked request until that request times out.
NoIdleSlot == parked # <<>> => active = Limit

\* The parked senders are the requests blocked in the third select, each
\* once, and each with a live client and a timer still to fire: a slot is
\* never handed to a request that has already left, which would lose it.
ParkedAreWaiting ==
    /\ \A i, j \in DOMAIN parked : parked[i] = parked[j] => i = j
    /\ \A r \in Requests :
          r \in ToSet(parked) <=> pc[r] = "parked"
    /\ \A r \in Requests :
          pc[r] = "parked" => timer[r] = "running" /\ ~gone[r]

\* No barging: whoever starts being served while others are parked is the
\* one that was parked first.
ServesInOrder ==
    \A r \in Requests :
        pc[r] # "serving" /\ pc'[r] = "serving" /\ parked # <<>>
            => r = Head(parked)

NoOvertaking == [][ServesInOrder]_vars

\* Even if no handler ever returns, no request stays in the middleware
\* without being served: it is served, refused, expired or left behind.
WaitEnds ==
    \A r \in Requests :
        pc[r] \in {"arrived", "full", "queued", "parked"}
            ~> pc[r] \in {"serving", "idle"}

\* The middleware seen as a bounded waiting line in front of Limit slots.
Queue == INSTANCE AdmissionQueue WITH
             Clients <- Requests,
             LineLimit <- BacklogLimit,
             running <- {r \in Requests : HoldsSlot(r)},
             line <- parked

\* Throttle implements AdmissionQueue: served in order, work conserving,
\* Limit running, BacklogLimit waiting.
ImplementsQueue == Queue!QueueSpec
=============================================================================
