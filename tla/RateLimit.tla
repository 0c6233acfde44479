------------------------------ MODULE RateLimit ------------------------------
(***************************************************************************)
(* The RateLimit middleware over the in-memory counter                     *)
(* (httpx/middleware/rate_limit.go): a sliding window blended from the     *)
(* counts of the current and of the previous fixed window.                 *)
(*                                                                         *)
(* An instance is one value returned by RateLimit.  Its mutex serializes   *)
(* its checks, so one check per instance is under way at any time;         *)
(* instances given the same Counter share the counts but no mutex.  Time   *)
(* may pass between reading the clock and each of the two calls a check    *)
(* makes to the counter.                                                   *)
(*                                                                         *)
(* Time is a wall clock that is never set back, in ticks.                  *)
(***************************************************************************)
EXTENDS SlidingWindow

VARIABLES clock,            \* [window, elapsed]
          trackedWindow,    \* localLimitCounter.trackedWindow
          currentCounts,    \* localLimitCounter.currentCounts
          previousCounts,   \* localLimitCounter.previousCounts
          check,            \* per instance, the check it is making
          answer,           \* per instance, the result of its last check
          admitted          \* history: per key, when requests were allowed

counter == <<trackedWindow, currentCounts, previousCounts>>
vars == <<clock, trackedWindow, currentCounts, previousCounts, check, answer,
          admitted>>

NoAnswer == [allowed |-> FALSE, remaining |-> 0]
NoCounts == [k \in Keys |-> 0]

Init ==
    /\ clock = [window |-> 0, elapsed |-> 0]
    /\ trackedWindow = 0
    /\ currentCounts = NoCounts
    /\ previousCounts = NoCounts
    /\ check = [i \in Instances |-> NoCheck]
    /\ answer = [i \in Instances |-> NoAnswer]
    /\ admitted = [k \in Keys |-> <<>>]

Tick ==
    /\ \/ /\ clock.elapsed + 1 < WindowLength
          /\ clock' = [clock EXCEPT !.elapsed = @ + 1]
       \/ /\ clock.elapsed + 1 = WindowLength
          /\ clock.window < MaxWindow
          /\ clock' = [window |-> clock.window + 1, elapsed |-> 0]
    /\ UNCHANGED <<trackedWindow, currentCounts, previousCounts, check, answer,
                   admitted>>

(***************************************************************************)
(* localLimitCounter.                                                      *)
(***************************************************************************)
\* evict: the counts once the counter tracks the given window.  An absent
\* map entry reads as zero.
EvictedCurrent(window) ==
    IF trackedWindow = window THEN currentCounts ELSE NoCounts

\* Mutant of EvictedPrevious: no bulk clear after an idle window.
EvictedPreviousKept(window) ==
    IF trackedWindow = window THEN previousCounts ELSE currentCounts

EvictedPrevious(window) ==
    IF trackedWindow = window THEN previousCounts
    ELSE IF trackedWindow = window - 1 THEN currentCounts
    ELSE NoCounts

\* IncrementBy(key, window, 1).
IncrementBy(key, window) ==
    /\ currentCounts' = [EvictedCurrent(window) EXCEPT ![key] = @ + 1]
    /\ previousCounts' = EvictedPrevious(window)
    /\ trackedWindow' = window

(***************************************************************************)
(* checkRateLimit, between mu.Lock and mu.Unlock.                          *)
(***************************************************************************)
\* Lock and read the clock.
ReadClock(i, k) ==
    /\ check[i] = NoCheck
    /\ check' = [check EXCEPT ![i] = [counted |-> FALSE, key |-> k, at |-> clock,
                                     current |-> 0, previous |-> 0]]
    /\ answer' = [answer EXCEPT ![i] = NoAnswer]
    /\ UNCHANGED <<clock, trackedWindow, currentCounts, previousCounts, admitted>>

\* Get the two counts of the key.
Get(i) ==
    /\ check[i] # NoCheck
    /\ ~check[i].counted
    /\ LET window == check[i].at.window
           key == check[i].key
       IN  /\ currentCounts' = EvictedCurrent(window)
           /\ previousCounts' = EvictedPrevious(window)
           /\ trackedWindow' = window
           /\ check' = [check EXCEPT ![i].counted = TRUE,
                                     ![i].current = EvictedCurrent(window)[key],
                                     ![i].previous = EvictedPrevious(window)[key]]
    /\ UNCHANGED <<clock, answer, admitted>>

Counted(i) == check[i] # NoCheck /\ check[i].counted

\* 429, and X-RateLimit-Remaining is written as 0.
Deny(i) ==
    /\ Counted(i)
    /\ OverLimit(check[i])
    /\ answer' = [answer EXCEPT ![i] = [allowed |-> FALSE, remaining |-> 0]]
    /\ check' = [check EXCEPT ![i] = NoCheck]
    /\ UNCHANGED <<clock, trackedWindow, currentCounts, previousCounts, admitted>>

\* Count the request in the window the check started in, unlock, go on.
Allow(i) ==
    /\ Counted(i)
    /\ WithinLimit(check[i])
    /\ LET c == check[i]
       IN  /\ IncrementBy(c.key, c.at.window)
           /\ answer' = [answer EXCEPT ![i] =
                           [allowed |-> TRUE,
                            remaining |-> AtLeastZero(Remaining(c) - 1)]]
           /\ admitted' = [admitted EXCEPT ![c.key] = Append(@, c.at)]
    /\ check' = [check EXCEPT ![i] = NoCheck]
    /\ UNCHANGED clock

Next ==
    \/ Tick
    \/ \E i \in Instances :
          (\E k \in Keys : ReadClock(i, k)) \/ Get(i) \/ Deny(i) \/ Allow(i)

Spec == Init /\ [][Next]_vars

-----------------------------------------------------------------------------
(***************************************************************************)
(* Properties.                                                             *)
(***************************************************************************)
TypeOK ==
    /\ clock \in Instants
    /\ trackedWindow \in Windows
    /\ currentCounts \in [Keys -> Nat]
    /\ previousCounts \in [Keys -> Nat]
    /\ check \in [Instances -> Checks \cup {NoCheck}]
    /\ answer \in [Instances -> [allowed: BOOLEAN, remaining: 0..RequestLimit]]
    /\ admitted \in [Keys -> Seq(Instants)]

\* Ticks from one instant to a later one.
Span(a, b) == (b.window - a.window) * WindowLength + b.elapsed - a.elapsed

\* With one instance: in any fixed window at most RequestLimit requests of
\* a key are allowed, and in any stretch of d ticks, up to a whole
\* WindowLength, at most RequestLimit * (1 + d / WindowLength).  So the
\* burst across a window boundary that the blend lets through is bounded,
\* and shrinks with the stretch.
BurstBound ==
    \A k \in Keys :
        \A m, n \in DOMAIN admitted[k] :
            LET a == admitted[k][m]
                b == admitted[k][n]
            IN  /\ m <= n /\ a.window = b.window => n - m + 1 <= RequestLimit
                /\ m <= n /\ Span(a, b) <= WindowLength
                     => (n - m + 1) * WindowLength
                          <= RequestLimit * (WindowLength + Span(a, b))

\* How many instants of a log, and how many requests that were allowed for
\* key k, are in fixed window w.
InWindow(log, w) == Cardinality({m \in DOMAIN log : log[m].window = w})
AdmittedIn(k, w) == InWindow(admitted[k], w)

\* A request is denied only if RequestLimit requests of the same key were
\* allowed in its window and the one before: no client is shut out by other
\* clients, by denied requests, or by old counts.  So it is also with
\* instances that share the counter, where a call for an older window, made
\* after one for a newer window, makes the counter forget: it never makes
\* it count what was not allowed.
DeniedOnlyWhenBusy ==
    [][\A i \in Instances :
          LET c == check[i]
          IN  c # NoCheck /\ c.counted /\ check'[i] = NoCheck
              /\ ~answer'[i].allowed
                => AdmittedIn(c.key, c.at.window)
                     + AdmittedIn(c.key, c.at.window - 1) >= RequestLimit]_vars

\* Instances that share a counter but no mutex let a count overshoot the
\* limit by at most one request per extra instance.
OvershootBounded ==
    \A k \in Keys :
        currentCounts[k] <= RequestLimit + Cardinality(Instances) - 1

\* With one instance, the middleware over the in-memory counter is a limiter
\* over a counter that keeps the count of every window for ever: dropping
\* the old ones in bulk, whenever the window changes, is never noticed.
Tally == [k \in Keys |-> [w \in Windows |-> AdmittedIn(k, w)]]

Ideal == INSTANCE Limiter WITH calls <- check, counts <- Tally, granted <- Tally,
                               failed <- [k \in Keys |-> [w \in Windows |-> 0]],
                               MaxFailures <- 0

ImplementsLimiter == Ideal!LimiterSpec
=============================================================================
