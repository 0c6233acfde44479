------------------------------- MODULE Limiter -------------------------------
(***************************************************************************)
(* The RateLimit middleware over a LimitCounter of the program's choice    *)
(* (httpx/middleware/rate_limit.go): a store that instances in several     *)
(* processes share, that keeps one count per key and fixed window, and     *)
(* whose calls may fail.                                                   *)
(*                                                                         *)
(* Every instance has a mutex, so it makes one check at a time; nothing    *)
(* keeps two instances apart between the Get and the IncrementBy of a      *)
(* check.  Each reads the clock of its own machine, so an instant may be   *)
(* any: ahead of the others', behind them, or set back.                    *)
(*                                                                         *)
(* An IncrementBy that fails may have been recorded, the answer being what *)
(* was lost, or not; the client gets the problem OnCounterError makes, 503 *)
(* by default, and is not let through.                                     *)
(***************************************************************************)
EXTENDS SlidingWindow

CONSTANT MaxFailures   \* bound on the failed IncrementBy per key and window

ASSUME MaxFailuresAssumption == MaxFailures \in Nat

VARIABLES calls,     \* per instance, the check it is making
          counts,    \* the store: per key and window, the requests recorded
          granted,   \* history: per key and window, the requests let through
          failed     \* history: per key and window, the IncrementBy that failed

limiterVars == <<calls, counts, granted, failed>>

None == [k \in Keys |-> [w \in Windows |-> 0]]
CountIn(k, w) == IF w \in Windows THEN counts[k][w] ELSE 0
OneMore(f, c) == [f EXCEPT ![c.key][c.at.window] = @ + 1]
Fetched(i) == calls[i] # NoCheck /\ calls[i].counted

LimiterInit ==
    /\ calls = [i \in Instances |-> NoCheck]
    /\ counts = None /\ granted = None /\ failed = None

\* Lock the instance's mutex, read the clock.
Lock(i, k) ==
    /\ calls[i] = NoCheck
    /\ \E now \in Instants :
          calls' = [calls EXCEPT ![i] = [counted |-> FALSE, key |-> k, at |-> now,
                                         current |-> 0, previous |-> 0]]
    /\ UNCHANGED <<counts, granted, failed>>

\* Get answers with the counts of the window and of the one before it.
Fetch(i) ==
    /\ calls[i] # NoCheck /\ ~calls[i].counted
    /\ LET k == calls[i].key
           w == calls[i].at.window
       IN  calls' = [calls EXCEPT ![i].counted = TRUE,
                                  ![i].current = CountIn(k, w),
                                  ![i].previous = CountIn(k, w - 1)]
    /\ UNCHANGED <<counts, granted, failed>>

\* Get fails: OnCounterError's answer, and the mutex is free.
FetchFails(i) ==
    /\ calls[i] # NoCheck /\ ~calls[i].counted
    /\ calls' = [calls EXCEPT ![i] = NoCheck]
    /\ UNCHANGED <<counts, granted, failed>>

\* Mutant of Refuse: a refused request is counted too.
RefuseCounted(i) ==
    /\ Fetched(i) /\ OverLimit(calls[i])
    /\ counts' = OneMore(counts, calls[i])
    /\ calls' = [calls EXCEPT ![i] = NoCheck]
    /\ UNCHANGED <<granted, failed>>

\* 429.
Refuse(i) ==
    /\ Fetched(i) /\ OverLimit(calls[i])
    /\ calls' = [calls EXCEPT ![i] = NoCheck]
    /\ UNCHANGED <<counts, granted, failed>>

\* IncrementBy succeeds, and the request goes on to the handler.
Record(i) ==
    /\ Fetched(i) /\ WithinLimit(calls[i])
    /\ counts' = OneMore(counts, calls[i])
    /\ granted' = OneMore(granted, calls[i])
    /\ calls' = [calls EXCEPT ![i] = NoCheck]
    /\ UNCHANGED failed

\* IncrementBy fails, recorded or not: OnCounterError's answer.
RecordFails(i) ==
    /\ Fetched(i) /\ WithinLimit(calls[i])
    /\ failed[calls[i].key][calls[i].at.window] < MaxFailures
    /\ counts' \in {counts, OneMore(counts, calls[i])}
    /\ failed' = OneMore(failed, calls[i])
    /\ calls' = [calls EXCEPT ![i] = NoCheck]
    /\ UNCHANGED granted

LimiterNext ==
    \E i \in Instances :
        \/ \E k \in Keys : Lock(i, k)
        \/ Fetch(i) \/ FetchFails(i) \/ Refuse(i) \/ Record(i) \/ RecordFails(i)

LimiterSpec == LimiterInit /\ [][LimiterNext]_limiterVars

-----------------------------------------------------------------------------
(***************************************************************************)
(* Properties.                                                             *)
(***************************************************************************)
LimiterTypeOK ==
    /\ calls \in [Instances -> Checks \cup {NoCheck}]
    /\ counts \in [Keys -> [Windows -> Nat]]
    /\ granted \in [Keys -> [Windows -> Nat]]
    /\ failed \in [Keys -> [Windows -> Nat]]

\* The instances of a deployment let through, per key and fixed window, at
\* most RequestLimit requests and one more for every instance beyond the
\* first, whatever their clocks say and whichever calls to the counter fail:
\* a request let through is always recorded, and one recorded by a call that
\* failed takes the place of another.
GrantsBounded ==
    \A k \in Keys, w \in Windows :
        /\ granted[k][w] <= counts[k][w]
        /\ counts[k][w] <= RequestLimit + Cardinality(Instances) - 1

\* What a client has made of its allowance in a window: requests let
\* through, and requests that were answered 503 when they were recorded.
Spent(k, w) == IF w \in Windows THEN granted[k][w] + failed[k][w] ELSE 0

\* A request is refused only if, in its window and the one before, as its
\* instance's clock has them, RequestLimit requests of the same key were let
\* through or failed while they were recorded.  So a counter that fails
\* costs a client at most the requests that were answered 503, and a refused
\* request costs it nothing.
RefusedOnlyIfSpent ==
    [][\A i \in Instances :
          LET c == calls[i]
          IN  c # NoCheck /\ c.counted /\ calls'[i] = NoCheck
              /\ UNCHANGED <<granted, failed>>
                => Spent(c.key, c.at.window) + Spent(c.key, c.at.window - 1)
                     >= RequestLimit]_limiterVars
=============================================================================
