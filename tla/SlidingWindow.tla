---------------------------- MODULE SlidingWindow ----------------------------
(***************************************************************************)
(* What a check of the RateLimit middleware (httpx/middleware/             *)
(* rate_limit.go) computes from the clock and from the two counts it gets: *)
(* the rate of a sliding window, blended from the counts of the current    *)
(* and of the previous fixed window.                                       *)
(*                                                                         *)
(* An instant is the number of its fixed window                            *)
(* (now.Truncate(windowLength)) and the ticks elapsed in it.  The float64  *)
(* comparison is modelled by exact arithmetic: elapsed counts ticks, and a *)
(* rate that only equals the limit after rounding may go either way.       *)
(***************************************************************************)
EXTENDS Integers, Sequences, FiniteSets

CONSTANTS Instances,      \* RateLimit values that share one counter
          Keys,           \* what KeyFunc returns
          RequestLimit,   \* RateLimitConfig.RequestLimit
          WindowLength,   \* RateLimitConfig.WindowLength, in ticks
          MaxWindow       \* bound on the model's clocks

ASSUME InstancesAssumption == IsFiniteSet(Instances) /\ Instances # {}
ASSUME RequestLimitAssumption == RequestLimit \in Nat
ASSUME WindowLengthAssumption == WindowLength \in Nat \ {0}
ASSUME MaxWindowAssumption == MaxWindow \in Nat

Windows == 0..MaxWindow
Instants == [window: Windows, elapsed: 0..(WindowLength - 1)]

\* A check: its key and the instant it read, and, once it has got them, the
\* two counts.
Checks == [counted: BOOLEAN, key: Keys, at: Instants,
           current: Nat, previous: Nat]
NoCheck == [key |-> "no key"]

\* The effective rate of a check times WindowLength.
ScaledRate(c) ==
    c.previous * (WindowLength - c.at.elapsed) + c.current * WindowLength

\* rate+1 > limit, and its negation.  When the two sides are equal and the
\* weight is a proper fraction, float64 rounding decides.
OverLimit(c) ==
    \/ ScaledRate(c) + WindowLength > RequestLimit * WindowLength
    \/ /\ ScaledRate(c) + WindowLength = RequestLimit * WindowLength
       /\ c.previous > 0 /\ c.at.elapsed > 0

\* Mutant of WithinLimit: rate > limit in place of rate+1 > limit.
WithinLimitOffByOne(c) == ScaledRate(c) <= RequestLimit * WindowLength

WithinLimit(c) == ScaledRate(c) + WindowLength <= RequestLimit * WindowLength

AtLeastZero(n) == IF n < 0 THEN 0 ELSE n

\* max(limit-int(math.Round(rate)), 0): halves round up.
Remaining(c) ==
    AtLeastZero(RequestLimit
        - (2 * ScaledRate(c) + WindowLength) \div (2 * WindowLength))
=============================================================================
