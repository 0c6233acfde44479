--------------------------- MODULE RateLimitProofs ---------------------------
(***************************************************************************)
(* Proofs about RateLimit, for every set of keys, limit, window length and *)
(* bound on the clock: first with one instance, whose counts are then the  *)
(* history of what it admitted, which makes it a Limiter; then with        *)
(* several that share a counter, how far they go over the limit together   *)
(* and whom they deny; at the end about Limiter, whose counter may fail.   *)
(***************************************************************************)
EXTENDS RateLimit, Limiter, TLAPS, SequenceTheorems, FiniteSetTheorems

USE DEF Windows

(***************************************************************************)
(* Arithmetic with a variable window length.                               *)
(***************************************************************************)
\* A product of natural numbers is a natural number.
LEMMA ProductNonNegative ==
    ASSUME NEW x \in Nat, NEW y \in Nat PROVE x * y \in Nat
OBVIOUS

\* Multiplying by a natural number keeps the order.
LEMMA ProductMonotone ==
    ASSUME NEW x \in Int, NEW y \in Int, NEW w \in Nat, x <= y
    PROVE  x * w <= y * w
<1>1. y - x \in Nat /\ (y - x) * w \in Nat
  BY ProductNonNegative
<1>2. (y - x) * w = y * w - x * w
  OBVIOUS
<1> QED BY <1>1, <1>2

\* A positive factor can be cancelled.
LEMMA ProductCancel ==
    ASSUME NEW x \in Int, NEW y \in Int, NEW w \in Nat \ {0}, x * w <= y * w
    PROVE  x <= y
<1> SUFFICES ASSUME y + 1 <= x PROVE FALSE
  OBVIOUS
<1>1. (y + 1) * w <= x * w
  BY ProductMonotone
<1>2. (y + 1) * w = y * w + w
  OBVIOUS
<1> QED BY <1>1, <1>2

\* What the comparison of a check that goes through tells of its counts.
LEMMA AllowedCounts ==
    ASSUME NEW c \in Nat, NEW p \in Nat, NEW e \in 0..(WindowLength - 1),
           p <= RequestLimit,
           p * (WindowLength - e) + c * WindowLength + WindowLength
               <= RequestLimit * WindowLength
    PROVE  /\ c + 1 <= RequestLimit
           /\ \A d \in Nat : e <= d =>
                 (c + 1 + p) * WindowLength
                     <= RequestLimit * (WindowLength + d)
<1> USE RequestLimitAssumption, WindowLengthAssumption
<1>1. p * (WindowLength - e) \in Nat
  BY ProductNonNegative
<1>2. c + 1 <= RequestLimit
  <2>1. (c + 1) * WindowLength = c * WindowLength + WindowLength
    OBVIOUS
  <2>2. /\ c * WindowLength \in Nat
        /\ RequestLimit * WindowLength \in Nat
    BY ProductNonNegative
  <2>3. (c + 1) * WindowLength <= RequestLimit * WindowLength
    BY <1>1, <2>1, <2>2
  <2> QED BY <2>3, ProductCancel
<1>3. ASSUME NEW d \in Nat, e <= d
      PROVE  (c + 1 + p) * WindowLength <= RequestLimit * (WindowLength + d)
  <2>1. p * e <= RequestLimit * e
    BY ProductMonotone
  <2>2. e * RequestLimit <= d * RequestLimit
    BY <1>3, ProductMonotone
  <2>3. (c + 1 + p) * WindowLength
          = (p * (WindowLength - e) + c * WindowLength + WindowLength) + p * e
    OBVIOUS
  <2>4. RequestLimit * (WindowLength + d)
          = RequestLimit * WindowLength + d * RequestLimit
    OBVIOUS
  <2>5. RequestLimit * e = e * RequestLimit
    OBVIOUS
  <2> QED BY <2>1, <2>2, <2>3, <2>4, <2>5
<1> QED BY <1>2, <1>3

\* What the comparison of a denied check tells of its counts.
LEMMA DeniedCounts ==
    ASSUME NEW c \in Nat, NEW p \in Nat, NEW e \in 0..(WindowLength - 1),
           LET rate == p * (WindowLength - e) + c * WindowLength
           IN  \/ rate + WindowLength > RequestLimit * WindowLength
               \/ /\ rate + WindowLength = RequestLimit * WindowLength
                  /\ p > 0 /\ e > 0
    PROVE  RequestLimit <= c + p
<1> USE RequestLimitAssumption, WindowLengthAssumption
<1> SUFFICES ASSUME c + p + 1 <= RequestLimit PROVE FALSE
  OBVIOUS
<1>1. (c + p + 1) * WindowLength <= RequestLimit * WindowLength
  BY ProductMonotone
<1>2. (c + p + 1) * WindowLength
        = (p * (WindowLength - e) + c * WindowLength + WindowLength) + p * e
  OBVIOUS
<1>3. p * e \in Nat /\ (p > 0 /\ e > 0 => p * e > 0)
  <2>1. p * e \in Nat
    BY ProductNonNegative
  <2>2. ASSUME p > 0, e > 0 PROVE p * e > 0
    <3>1. 1 * e <= p * e
      BY <2>2, ProductMonotone
    <3> QED BY <2>2, <3>1
  <2> QED BY <2>1, <2>2
<1>4. /\ p * (WindowLength - e) \in Nat /\ c * WindowLength \in Nat
      /\ RequestLimit * WindowLength \in Nat
  BY ProductNonNegative
<1> QED BY <1>1, <1>2, <1>3, <1>4

-----------------------------------------------------------------------------
(***************************************************************************)
(* The log of one key.                                                     *)
(***************************************************************************)
Before(a, b) ==
    \/ a.window < b.window
    \/ a.window = b.window /\ a.elapsed <= b.elapsed

\* The log s ends with c requests of window t, before them p of window
\* t - 1, before them older ones.
Matches(s, t, c, p) ==
    /\ c + p <= Len(s)
    /\ \A m \in 1..Len(s) :
          /\ m > Len(s) - c => s[m].window = t
          /\ m \in (Len(s) - c - p + 1)..(Len(s) - c) => s[m].window = t - 1
          /\ m <= Len(s) - c - p => s[m].window < t - 1

Burst(s) ==
    \A m, n \in DOMAIN s :
        /\ m <= n /\ s[m].window = s[n].window => n - m + 1 <= RequestLimit
        /\ m <= n /\ Span(s[m], s[n]) <= WindowLength
             => (n - m + 1) * WindowLength
                  <= RequestLimit * (WindowLength + Span(s[m], s[n]))

\* What the entries of a log are made of.
LEMMA InstantsInLog ==
    ASSUME NEW s \in Seq(Instants)
    PROVE  /\ Len(s) \in Nat /\ DOMAIN s = 1..Len(s)
           /\ \A m \in 1..Len(s) : /\ s[m].window \in Nat
                                   /\ s[m].elapsed \in 0..(WindowLength - 1)
<1>1. Len(s) \in Nat /\ DOMAIN s = 1..Len(s)
  BY LenProperties
<1>2. \A m \in 1..Len(s) : s[m] \in Instants
  BY ElementOfSeq
<1> QED BY <1>1, <1>2 DEF Instants

\* Rolling to a later window: by one, the current requests become the
\* previous ones; by more, all become old.
LEMMA MatchesRoll ==
    ASSUME NEW s \in Seq(Instants), NEW t \in Int, NEW c \in Nat,
           NEW p \in Nat, Matches(s, t, c, p),
           NEW u \in Int, t < u
    PROVE  /\ u = t + 1 => Matches(s, u, 0, c)
           /\ u > t + 1 => Matches(s, u, 0, 0)
<1>1. Len(s) \in Nat /\ \A m \in 1..Len(s) : s[m].window \in Nat
  BY InstantsInLog
<1>2. c + p <= Len(s)
  BY DEF Matches
<1>3. ASSUME NEW m \in 1..Len(s)
      PROVE  /\ s[m].window \in Nat
             /\ s[m].window <= t
             /\ m > Len(s) - c => s[m].window = t
             /\ m <= Len(s) - c => s[m].window < t
  <2>1. m \in Int /\ s[m].window \in Nat
    BY <1>1
  <2>2. /\ m > Len(s) - c => s[m].window = t
        /\ m \in (Len(s) - c - p + 1)..(Len(s) - c) => s[m].window = t - 1
        /\ m <= Len(s) - c - p => s[m].window < t - 1
    BY DEF Matches
  <2> QED BY <1>1, <1>2, <2>1, <2>2
<1>4. CASE u = t + 1
  <2>1. ASSUME NEW m \in 1..Len(s)
        PROVE  /\ m > Len(s) - 0 => s[m].window = u
               /\ m \in (Len(s) - 0 - c + 1)..(Len(s) - 0) => s[m].window = u - 1
               /\ m <= Len(s) - 0 - c => s[m].window < u - 1
    BY <1>1, <1>3, <1>4
  <2>2. 0 + c <= Len(s)
    BY <1>1, <1>2
  <2> QED BY <1>4, <2>1, <2>2 DEF Matches
<1>5. CASE u > t + 1
  <2>1. ASSUME NEW m \in 1..Len(s)
        PROVE  /\ m > Len(s) - 0 => s[m].window = u
               /\ m \in (Len(s) - 0 - 0 + 1)..(Len(s) - 0) => s[m].window = u - 1
               /\ m <= Len(s) - 0 - 0 => s[m].window < u - 1
    BY <1>1, <1>3, <1>5
  <2>2. 0 + 0 <= Len(s)
    BY <1>1
  <2> QED BY <1>5, <2>1, <2>2 DEF Matches
<1> QED BY <1>4, <1>5

\* Logging one more request of the current window.
LEMMA MatchesAppend ==
    ASSUME NEW s \in Seq(Instants), NEW t \in Int, NEW c \in Nat,
           NEW p \in Nat, Matches(s, t, c, p),
           NEW x \in Instants, x.window = t
    PROVE  Matches(Append(s, x), t, c + 1, p)
<1>1. Len(s) \in Nat
  BY LenProperties
<1>2. /\ Len(Append(s, x)) = Len(s) + 1
      /\ \A m \in 1..Len(s) : Append(s, x)[m] = s[m]
      /\ Append(s, x)[Len(s) + 1] = x
  BY AppendProperties
<1> DEFINE a == Append(s, x)
<1>3. Len(a) = Len(s) + 1 /\ c + p <= Len(s)
  BY <1>2 DEF Matches
<1> HIDE DEF a
<1>4. ASSUME NEW m \in 1..Len(a)
      PROVE  /\ m > Len(a) - (c + 1) => a[m].window = t
             /\ m \in (Len(a) - (c + 1) - p + 1)..(Len(a) - (c + 1))
                  => a[m].window = t - 1
             /\ m <= Len(a) - (c + 1) - p => a[m].window < t - 1
  <2>1. CASE m = Len(s) + 1
    <3>1. a[m].window = t
      BY <1>2, <2>1 DEF a
    <3>2. ~(m <= Len(a) - (c + 1))
      BY <1>1, <1>3, <2>1
    <3>3. ~(m <= Len(a) - (c + 1) - p)
      BY <1>1, <1>3, <2>1
    <3> QED BY <3>1, <3>2, <3>3
  <2>2. CASE m # Len(s) + 1
    <3>1. m \in 1..Len(s)
      BY <1>1, <1>3, <2>2
    <3>2. a[m] = s[m]
      BY <1>2, <3>1 DEF a
    <3>3. /\ m > Len(s) - c => s[m].window = t
          /\ m \in (Len(s) - c - p + 1)..(Len(s) - c) => s[m].window = t - 1
          /\ m <= Len(s) - c - p => s[m].window < t - 1
      BY <3>1 DEF Matches
    <3>4. Len(a) - (c + 1) = Len(s) - c
      BY <1>1, <1>3
    <3> QED BY <3>2, <3>3, <3>4
  <2> QED BY <2>1, <2>2
<1>5. c + 1 + p <= Len(a)
  BY <1>1, <1>3
<1>6. Matches(a, t, c + 1, p)
  BY <1>4, <1>5 DEF Matches
<1> QED BY <1>6 DEF a

\* Logging a request that is not earlier than the others.
LEMMA BeforeAppend ==
    ASSUME NEW s \in Seq(Instants), NEW x \in Instants, NEW y \in Instants,
           \A m \in DOMAIN s : Before(s[m], y),
           Before(x, y)
    PROVE  /\ Append(s, x) \in Seq(Instants)
           /\ \A m \in DOMAIN Append(s, x) : Before(Append(s, x)[m], y)
<1>1. Len(s) \in Nat /\ DOMAIN s = 1..Len(s)
  BY LenProperties
<1>2. /\ Append(s, x) \in Seq(Instants)
      /\ Len(Append(s, x)) = Len(s) + 1
      /\ \A m \in 1..Len(s) : Append(s, x)[m] = s[m]
      /\ Append(s, x)[Len(s) + 1] = x
  BY AppendProperties
<1>3. DOMAIN Append(s, x) = 1..(Len(s) + 1)
  BY <1>2, LenProperties
<1> QED BY <1>1, <1>2, <1>3

\* The stretch between two ordered instants, by the windows they fall in.
LEMMA StretchCases ==
    ASSUME NEW x \in Instants, NEW y \in Instants, Before(y, x)
    PROVE  /\ y.window = x.window => Span(y, x) \in Nat
           /\ y.window = x.window - 1
                => Span(y, x) \in Nat /\ x.elapsed <= Span(y, x)
           /\ y.window # x.window /\ y.window # x.window - 1
                => ~(Span(y, x) <= WindowLength)
<1> USE WindowLengthAssumption
<1> DEFINE xw == x.window  xe == x.elapsed  yw == y.window  ye == y.elapsed
<1>1. /\ xw \in Nat /\ xe \in Nat /\ xe < WindowLength
      /\ yw \in Nat /\ ye \in Nat /\ ye < WindowLength
      /\ yw < xw \/ (yw = xw /\ ye <= xe)
  BY DEF Instants, Before
<1>2. Span(y, x) = (xw - yw) * WindowLength + xe - ye
  BY DEF Span
<1> HIDE DEF xw, xe, yw, ye
<1>3. CASE yw = xw
  <2>1. xw - yw = 0
    BY <1>1, <1>3
  <2>2. Span(y, x) \in Nat
    BY <1>1, <1>2, <1>3, <2>1
  <2> QED BY <1>1, <1>3, <2>2 DEF xw, yw
<1>4. CASE yw = xw - 1
  <2>1. xw - yw = 1
    BY <1>1, <1>4
  <2>2. Span(y, x) \in Nat /\ xe <= Span(y, x)
    BY <1>1, <1>2, <2>1
  <2>3. yw # xw
    BY <1>1, <1>4
  <2> QED BY <1>4, <2>2, <2>3 DEF xw, yw, xe
<1>5. CASE yw # xw /\ yw # xw - 1
  <2>1. xw - yw \in Int /\ 2 <= xw - yw
    BY <1>1, <1>5
  <2>2. 2 * WindowLength <= (xw - yw) * WindowLength
    BY <2>1, ProductMonotone
  <2>3. (xw - yw) * WindowLength \in Int
    BY <2>1
  <2>4. ~(Span(y, x) <= WindowLength)
    BY <1>1, <1>2, <2>2, <2>3
  <2> QED BY <1>5, <2>4 DEF xw, yw
<1> QED BY <1>3, <1>4, <1>5

\* The heart of the algorithm: a check that goes through keeps the burst
\* bound.
LEMMA BurstAppend ==
    ASSUME NEW s \in Seq(Instants), NEW x \in Instants,
           NEW c \in Nat, NEW p \in Nat,
           Matches(s, x.window, c, p), Burst(s),
           \A m \in DOMAIN s : Before(s[m], x),
           p <= RequestLimit,
           p * (WindowLength - x.elapsed) + c * WindowLength + WindowLength
               <= RequestLimit * WindowLength
    PROVE  Burst(Append(s, x))
<1> USE RequestLimitAssumption, WindowLengthAssumption
<1> DEFINE t == Append(s, x)
           N == Len(s) + 1
<1>1. Len(s) \in Nat /\ DOMAIN s = 1..Len(s)
  BY LenProperties
<1>2. /\ Len(t) = N /\ DOMAIN t = 1..N
      /\ \A m \in 1..Len(s) : t[m] = s[m]
      /\ t[N] = x
      /\ N \in Nat /\ N = Len(s) + 1
  BY <1>1, AppendProperties, LenProperties
<1>3. /\ x.window \in Nat /\ x.elapsed \in 0..(WindowLength - 1)
      /\ \A m \in 1..Len(s) : /\ s[m].window \in Nat
                              /\ s[m].elapsed \in 0..(WindowLength - 1)
                              /\ Before(s[m], x)
  <2>1. x.window \in Nat /\ x.elapsed \in 0..(WindowLength - 1)
    BY DEF Instants
  <2> QED BY <1>1, <2>1, InstantsInLog
<1>4. c + 1 <= RequestLimit
  BY <1>3, AllowedCounts
<1>7. \A d \in Nat : x.elapsed <= d =>
         (c + 1 + p) * WindowLength <= RequestLimit * (WindowLength + d)
  BY <1>3, AllowedCounts
<1> HIDE DEF t, N
\* A stretch that ends with the new request.
<1>5. ASSUME NEW m \in 1..N
      PROVE  /\ t[m].window = x.window => N - m + 1 <= RequestLimit
             /\ Span(t[m], x) <= WindowLength
                  => (N - m + 1) * WindowLength
                       <= RequestLimit * (WindowLength + Span(t[m], x))
  <2>1. CASE m = N
    <3>1. t[m] = x /\ N - m + 1 = 1
      BY <1>2, <2>1
    <3>2. Span(t[m], x) = 0
      BY <1>3, <3>1 DEF Span
    <3>3. 1 <= RequestLimit
      BY <1>4
    <3>4. 1 * WindowLength <= RequestLimit * WindowLength
      BY <3>3, ProductMonotone
    <3> QED BY <3>1, <3>2, <3>3, <3>4
  <2>2. CASE m # N
    <3> DEFINE y == s[m]
               d == Span(y, x)
               len == N - m + 1
    <3>0. m \in 1..Len(s)
      BY <1>1, <1>2, <2>2
    <3>1. /\ m \in 1..Len(s) /\ t[m] = y /\ len \in Nat
          /\ y.window \in Nat
          /\ y.elapsed \in Nat /\ y.elapsed < WindowLength
          /\ x.elapsed \in Nat /\ x.elapsed < WindowLength
      <4>1. t[m] = y
        BY <3>0, <1>2
      <4>2. len \in Nat
        BY <3>0, <1>1, <1>2
      <4>3. y.window \in Nat /\ y.elapsed \in 0..(WindowLength - 1)
        BY <3>0, <1>3
      <4> HIDE DEF y, len
      <4>4. y.elapsed \in Nat /\ y.elapsed < WindowLength
        BY <4>3
      <4>5. x.elapsed \in Nat /\ x.elapsed < WindowLength
        BY <1>3
      <4> QED BY <3>0, <4>1, <4>2, <4>3, <4>4, <4>5
    <3>11. /\ y.window = x.window => d \in Nat
           /\ y.window = x.window - 1 => d \in Nat /\ x.elapsed <= d
           /\ y.window # x.window /\ y.window # x.window - 1
                => ~(d <= WindowLength)
      <4>1. y \in Instants /\ Before(y, x)
        <5>1. y \in Instants
          BY <3>0, <1>1, ElementOfSeq
        <5> QED BY <3>0, <1>3, <5>1
      <4> QED BY <4>1, StretchCases
    <3>3. /\ m <= Len(s) - c - p => y.window < x.window - 1
          /\ m \in (Len(s) - c - p + 1)..(Len(s) - c)
               => y.window = x.window - 1
      BY <3>1 DEF Matches
    <3>4. len = Len(s) - m + 2
      BY <1>1, <1>2, <3>1
    <3> HIDE DEF y, d, len
    <3>5. CASE y.window = x.window
      <4>1. len <= c + 1
        <5>1. x.window \in Nat
          BY <1>3
        <5>2. ~(m <= Len(s) - c - p) /\ m \notin (Len(s) - c - p + 1)..(Len(s) - c)
          BY <3>3, <3>5, <5>1
        <5>3. m > Len(s) - c
          BY <1>1, <3>1, <5>2
        <5> QED BY <1>1, <3>1, <3>4, <5>3
      <4>3. d \in Nat
        BY <3>5, <3>11
      <4>8. len <= RequestLimit
        BY <1>4, <3>1, <4>1
      <4>4. len * WindowLength <= RequestLimit * WindowLength
        <5>1. len \in Int /\ RequestLimit \in Int /\ WindowLength \in Nat
          BY <3>1
        <5> QED BY <4>8, <5>1, ProductMonotone
      <4>5. RequestLimit * (WindowLength + d)
              = RequestLimit * WindowLength + RequestLimit * d
        BY <4>3
      <4>6. /\ RequestLimit * d \in Nat /\ len * WindowLength \in Nat
            /\ RequestLimit * WindowLength \in Nat
        BY <3>1, <4>3, ProductNonNegative
      <4>7. len * WindowLength <= RequestLimit * (WindowLength + d)
        BY <4>4, <4>5, <4>6
      <4> QED BY <3>1, <4>7, <4>8 DEF d, len
    <3>6. CASE y.window = x.window - 1
      <4>1. len <= c + 1 + p
        BY <1>1, <1>3, <3>1, <3>3, <3>4, <3>6
      <4>3. d \in Nat /\ x.elapsed <= d
        BY <3>6, <3>11
      <4>4. (c + 1 + p) * WindowLength <= RequestLimit * (WindowLength + d)
        BY <1>7, <4>3
      <4>5. len * WindowLength <= (c + 1 + p) * WindowLength
        <5>1. len \in Int /\ c + 1 + p \in Int /\ WindowLength \in Nat
          BY <3>1
        <5> QED BY <4>1, <5>1, ProductMonotone
      <4>6. /\ len * WindowLength \in Nat
            /\ (c + 1 + p) * WindowLength \in Nat
            /\ RequestLimit * (WindowLength + d) \in Nat
        BY <3>1, <4>3, ProductNonNegative
      <4>7. len * WindowLength <= RequestLimit * (WindowLength + d)
        BY <4>4, <4>5, <4>6
      <4>8. y.window # x.window
        BY <1>3, <3>6
      <4> QED BY <3>1, <4>7, <4>8 DEF d, len
    <3>7. CASE y.window # x.window /\ y.window # x.window - 1
      <4>5. ~(d <= WindowLength)
        BY <3>7, <3>11
      <4> QED BY <3>1, <3>7, <4>5 DEF d, len
    <3> QED BY <3>5, <3>6, <3>7
  <2> QED BY <2>1, <2>2
\* A stretch that ends earlier.
<1>6. ASSUME NEW m \in 1..N, NEW n \in 1..N, m <= n, n # N
      PROVE  /\ t[m].window = t[n].window => n - m + 1 <= RequestLimit
             /\ Span(t[m], t[n]) <= WindowLength
                  => (n - m + 1) * WindowLength
                       <= RequestLimit * (WindowLength + Span(t[m], t[n]))
  <2>1. m \in 1..Len(s) /\ n \in 1..Len(s) /\ t[m] = s[m] /\ t[n] = s[n]
    BY <1>1, <1>2, <1>6
  <2> QED BY <1>1, <1>6, <2>1 DEF Burst
<1> QED BY <1>2, <1>5, <1>6 DEF Burst, t

-----------------------------------------------------------------------------
(***************************************************************************)
(* The inductive invariant, with one instance.  A count is only tied to    *)
(* the log through Matches, and a check that is under way only decides     *)
(* right because nobody else can move the counter: its snapshot is still   *)
(* what the maps say.                                                      *)
(***************************************************************************)
KeyInv(k) ==
    /\ Matches(admitted[k], trackedWindow, currentCounts[k], previousCounts[k])
    /\ currentCounts[k] <= RequestLimit
    /\ previousCounts[k] <= RequestLimit
    /\ Burst(admitted[k])
    /\ \A m \in DOMAIN admitted[k] : Before(admitted[k][m], clock)

FreshCheck(c) ==
    /\ trackedWindow <= c.at.window
    /\ Before(c.at, clock)
    /\ \A m \in DOMAIN admitted[c.key] : Before(admitted[c.key][m], c.at)
    /\ c.counted => /\ c.at.window = trackedWindow
                    /\ c.current = currentCounts[c.key]
                    /\ c.previous = previousCounts[c.key]

IInv ==
    /\ TypeOK
    /\ trackedWindow <= clock.window
    /\ \A k \in Keys : KeyInv(k)
    /\ \A i \in Instances : check[i] # NoCheck => FreshCheck(check[i])

\* A check under way is a record with the snapshot it took.
LEMMA OpenCheck ==
    ASSUME TypeOK, NEW i \in Instances, check[i] # NoCheck
    PROVE  /\ check[i] \in Checks
           /\ check[i].key \in Keys /\ check[i].at \in Instants
           /\ check[i].current \in Nat /\ check[i].previous \in Nat
           /\ check[i].counted \in BOOLEAN
           /\ check[i].at.window \in Windows
           /\ check[i].at.elapsed \in 0..(WindowLength - 1)
<1>1. check[i] \in Checks
  BY DEF TypeOK
<1> QED BY <1>1 DEF Checks, Instants

\* Remaining counts down from the limit and stops at zero.
LEMMA RemainingInRange ==
    ASSUME NEW c \in Checks
    PROVE  /\ Remaining(c) \in 0..RequestLimit
           /\ AtLeastZero(Remaining(c) - 1) \in 0..RequestLimit
<1> USE RequestLimitAssumption, WindowLengthAssumption
<1> DEFINE a == 2 * ScaledRate(c) + WindowLength
           b == 2 * WindowLength
<1>1. c.previous \in Nat /\ c.current \in Nat
      /\ c.at.elapsed \in 0..(WindowLength - 1)
  BY DEF Checks, Instants
<1>2. /\ c.previous * (WindowLength - c.at.elapsed) \in Nat
      /\ c.current * WindowLength \in Nat
  <2>1. WindowLength - c.at.elapsed \in Nat
    BY <1>1
  <2> QED BY <1>1, <2>1, ProductNonNegative
<1>3. ScaledRate(c) \in Nat
  BY <1>2 DEF ScaledRate
<1>4. a \in Nat /\ b \in Nat \ {0}
  BY <1>3
<1> HIDE DEF a, b
<1>5. a \div b \in Nat
  BY <1>4
<1>6. Remaining(c) = AtLeastZero(RequestLimit - (a \div b))
  BY DEF Remaining, a, b
<1> QED BY <1>5, <1>6 DEF AtLeastZero

\* Evicting to any window, an earlier one too, leaves counts of the right
\* type: the old ones, or none.
LEMMA EvictedTypes ==
    ASSUME TypeOK, NEW u
    PROVE  /\ EvictedCurrent(u) \in [Keys -> Nat]
           /\ EvictedPrevious(u) \in [Keys -> Nat]
           /\ \/ EvictedCurrent(u) = currentCounts
              \/ EvictedCurrent(u) = NoCounts
<1>1. NoCounts \in [Keys -> Nat]
  BY DEF NoCounts
<1> QED BY <1>1 DEF EvictedCurrent, EvictedPrevious, TypeOK

\* Every step keeps the variables in their types, whoever shares the counter.
LEMMA TypeStep ==
    ASSUME TypeOK, [Next]_vars PROVE TypeOK'
<1> USE RequestLimitAssumption, WindowLengthAssumption, MaxWindowAssumption
<1>0. /\ clock \in Instants /\ trackedWindow \in Windows
      /\ currentCounts \in [Keys -> Nat] /\ previousCounts \in [Keys -> Nat]
      /\ check \in [Instances -> Checks \cup {NoCheck}]
      /\ answer \in [Instances -> [allowed: BOOLEAN, remaining: 0..RequestLimit]]
      /\ admitted \in [Keys -> Seq(Instants)]
  BY DEF TypeOK
<1>1. CASE Tick
  <2>1. /\ clock.window \in Windows
        /\ clock.elapsed \in 0..(WindowLength - 1)
        /\ clock = [window |-> clock.window, elapsed |-> clock.elapsed]
    BY <1>0 DEF Instants
  <2>2. \/ /\ clock.elapsed + 1 < WindowLength
           /\ clock' = [window |-> clock.window, elapsed |-> clock.elapsed + 1]
        \/ /\ clock.window < MaxWindow
           /\ clock' = [window |-> clock.window + 1, elapsed |-> 0]
    BY <1>1, <2>1 DEF Tick
  <2>3. clock' \in Instants
    BY <2>1, <2>2 DEF Instants
  <2> QED BY <1>0, <1>1, <2>3 DEF Tick, TypeOK
<1>2. ASSUME NEW i \in Instances, NEW k \in Keys, ReadClock(i, k) PROVE TypeOK'
  <2> DEFINE c == [counted |-> FALSE, key |-> k, at |-> clock, current |-> 0,
                   previous |-> 0]
  <2>1. c \in Checks /\ check' = [check EXCEPT ![i] = c]
    BY <1>0, <1>2 DEF ReadClock, Checks
  <2> HIDE DEF c
  <2>2. check' \in [Instances -> Checks \cup {NoCheck}]
    BY <1>0, <2>1
  <2>3. NoAnswer \in [allowed: BOOLEAN, remaining: 0..RequestLimit]
    BY DEF NoAnswer
  <2>4. answer' \in [Instances -> [allowed: BOOLEAN, remaining: 0..RequestLimit]]
    BY <1>0, <1>2, <2>3 DEF ReadClock
  <2> QED BY <1>0, <1>2, <2>2, <2>4 DEF ReadClock, TypeOK
<1>3. ASSUME NEW i \in Instances, Get(i) PROVE TypeOK'
  <2> DEFINE u == check[i].at.window
             k == check[i].key
             n == EvictedCurrent(u)[k]
             p == EvictedPrevious(u)[k]
             c == [check[i] EXCEPT !.counted = TRUE, !.current = n, !.previous = p]
  <2>1. /\ check[i] \in Checks /\ k \in Keys /\ u \in Windows
    BY <1>3, OpenCheck DEF Get
  <2>2. /\ EvictedCurrent(u) \in [Keys -> Nat]
        /\ EvictedPrevious(u) \in [Keys -> Nat]
    BY EvictedTypes
  <2>3. n \in Nat /\ p \in Nat
    BY <2>1, <2>2
  <2>4. /\ currentCounts' = EvictedCurrent(u) /\ previousCounts' = EvictedPrevious(u)
        /\ trackedWindow' = u /\ UNCHANGED <<clock, answer, admitted>>
        /\ check' = [check EXCEPT ![i] = c]
    BY <1>0, <1>3 DEF Get
  <2> HIDE DEF u, k, n, p
  <2>5. c \in Checks
    BY <2>1, <2>3 DEF Checks
  <2> HIDE DEF c
  <2>6. check' \in [Instances -> Checks \cup {NoCheck}]
    BY <1>0, <2>4, <2>5
  <2> QED BY <1>0, <2>1, <2>2, <2>4, <2>6 DEF TypeOK
<1>4. ASSUME NEW i \in Instances, Deny(i) PROVE TypeOK'
  <2>1. answer' \in [Instances -> [allowed: BOOLEAN, remaining: 0..RequestLimit]]
    BY <1>0, <1>4 DEF Deny
  <2>2. check' \in [Instances -> Checks \cup {NoCheck}]
    BY <1>0, <1>4 DEF Deny
  <2> QED BY <1>0, <1>4, <2>1, <2>2 DEF Deny, TypeOK
<1>5. ASSUME NEW i \in Instances, Allow(i) PROVE TypeOK'
  <2> DEFINE u == check[i].at.window
             k == check[i].key
             r == AtLeastZero(Remaining(check[i]) - 1)
  <2>1. /\ check[i] \in Checks /\ k \in Keys /\ u \in Windows
        /\ check[i].at \in Instants
    BY <1>5, OpenCheck DEF Allow, Counted
  <2>2. /\ EvictedCurrent(u) \in [Keys -> Nat]
        /\ EvictedPrevious(u) \in [Keys -> Nat]
    BY EvictedTypes
  <2>3. r \in 0..RequestLimit
    BY <2>1, RemainingInRange
  <2>4. /\ currentCounts' = [EvictedCurrent(u) EXCEPT ![k] = @ + 1]
        /\ previousCounts' = EvictedPrevious(u) /\ trackedWindow' = u
        /\ answer' = [answer EXCEPT ![i] = [allowed |-> TRUE, remaining |-> r]]
        /\ admitted' = [admitted EXCEPT ![k] = Append(@, check[i].at)]
        /\ check' = [check EXCEPT ![i] = NoCheck] /\ clock' = clock
    BY <1>5 DEF Allow, IncrementBy
  <2> HIDE DEF u, k, r
  <2>5. currentCounts' \in [Keys -> Nat]
    BY <2>1, <2>2, <2>4
  <2>6. answer' \in [Instances -> [allowed: BOOLEAN, remaining: 0..RequestLimit]]
    BY <1>0, <2>3, <2>4
  <2>7. admitted' \in [Keys -> Seq(Instants)]
    BY <1>0, <2>1, <2>4
  <2>8. check' \in [Instances -> Checks \cup {NoCheck}]
    BY <1>0, <2>4
  <2> QED BY <1>0, <2>1, <2>2, <2>4, <2>5, <2>6, <2>7, <2>8 DEF TypeOK
<1>6. CASE UNCHANGED vars
  BY <1>0, <1>6 DEF vars, TypeOK
<1> QED BY <1>1, <1>2, <1>3, <1>4, <1>5, <1>6 DEF Next

\* evict, when the window asked for is not behind the tracked one.
LEMMA EvictFacts ==
    ASSUME IInv, NEW u \in Nat, trackedWindow <= u
    PROVE  /\ EvictedCurrent(u) \in [Keys -> Nat]
           /\ EvictedPrevious(u) \in [Keys -> Nat]
           /\ \A k \in Keys :
                 /\ Matches(admitted[k], u, EvictedCurrent(u)[k],
                            EvictedPrevious(u)[k])
                 /\ EvictedCurrent(u)[k] <= RequestLimit
                 /\ EvictedPrevious(u)[k] <= RequestLimit
<1> USE RequestLimitAssumption
<1>1. /\ trackedWindow \in Nat
      /\ currentCounts \in [Keys -> Nat] /\ previousCounts \in [Keys -> Nat]
      /\ \A k \in Keys : admitted[k] \in Seq(Instants)
  <2>1. TypeOK
    BY DEF IInv
  <2>2. /\ trackedWindow \in Windows /\ admitted \in [Keys -> Seq(Instants)]
        /\ currentCounts \in [Keys -> Nat] /\ previousCounts \in [Keys -> Nat]
    BY <2>1 DEF TypeOK
  <2> QED BY <2>2, MaxWindowAssumption
<1>2. \A k \in Keys :
         /\ Matches(admitted[k], trackedWindow, currentCounts[k],
                    previousCounts[k])
         /\ currentCounts[k] <= RequestLimit
         /\ previousCounts[k] <= RequestLimit
  BY DEF IInv, KeyInv
<1>3. CASE u = trackedWindow
  <2>1. EvictedCurrent(u) = currentCounts /\ EvictedPrevious(u) = previousCounts
    BY <1>3 DEF EvictedCurrent, EvictedPrevious
  <2> QED BY <1>1, <1>2, <1>3, <2>1
<1>4. CASE u = trackedWindow + 1
  <2>1. EvictedCurrent(u) = NoCounts /\ EvictedPrevious(u) = currentCounts
    BY <1>1, <1>4 DEF EvictedCurrent, EvictedPrevious
  <2>2. NoCounts \in [Keys -> Nat] /\ \A k \in Keys : NoCounts[k] = 0
    BY DEF NoCounts
  <2>3. \A k \in Keys : Matches(admitted[k], u, 0, currentCounts[k])
    BY <1>1, <1>2, <1>4, MatchesRoll
  <2> QED BY <1>1, <1>2, <2>1, <2>2, <2>3
<1>5. CASE u > trackedWindow + 1
  <2>1. EvictedCurrent(u) = NoCounts /\ EvictedPrevious(u) = NoCounts
    BY <1>1, <1>5 DEF EvictedCurrent, EvictedPrevious
  <2>2. NoCounts \in [Keys -> Nat] /\ \A k \in Keys : NoCounts[k] = 0
    BY DEF NoCounts
  <2>3. \A k \in Keys : Matches(admitted[k], u, 0, 0)
    BY <1>1, <1>2, <1>5, MatchesRoll
  <2> QED BY <1>1, <1>2, <2>1, <2>2, <2>3
<1> QED BY <1>1, <1>3, <1>4, <1>5

\* The invariant holds at the start: nothing is counted, nothing logged.
LEMMA InitEstablishes == Init => IInv
<1> SUFFICES ASSUME Init PROVE IInv
  OBVIOUS
<1> USE RequestLimitAssumption, WindowLengthAssumption, MaxWindowAssumption
<1>1. \A k \in Keys : admitted[k] = <<>> /\ currentCounts[k] = 0
                        /\ previousCounts[k] = 0
  BY DEF Init, NoCounts
<1>2. TypeOK
  <2>1. clock \in Instants /\ trackedWindow \in Windows
    BY DEF Init, Instants
  <2>2. currentCounts \in [Keys -> Nat] /\ previousCounts \in [Keys -> Nat]
    BY DEF Init, NoCounts
  <2>3. check \in [Instances -> Checks \cup {NoCheck}]
    BY DEF Init
  <2>4. answer \in [Instances -> [allowed: BOOLEAN, remaining: 0..RequestLimit]]
    BY DEF Init, NoAnswer
  <2>5. admitted \in [Keys -> Seq(Instants)]
    BY DEF Init
  <2> QED BY <2>1, <2>2, <2>3, <2>4, <2>5 DEF TypeOK
<1>3. trackedWindow <= clock.window
  BY DEF Init
<1>4. ASSUME NEW k \in Keys PROVE KeyInv(k)
  <2>1. DOMAIN admitted[k] = {} /\ Len(admitted[k]) = 0
    BY <1>1
  <2>2. Matches(admitted[k], trackedWindow, 0, 0)
    BY <2>1 DEF Matches
  <2>3. Burst(admitted[k])
    BY <2>1 DEF Burst
  <2> QED BY <1>1, <2>1, <2>2, <2>3 DEF KeyInv
<1>5. \A i \in Instances : check[i] = NoCheck
  BY DEF Init
<1> QED BY <1>2, <1>3, <1>4, <1>5 DEF IInv

\* Time only moves forward, so what was logged stays in the past.
LEMMA TickPreserves ==
    ASSUME IInv, Tick PROVE IInv'
<1> USE RequestLimitAssumption, WindowLengthAssumption, MaxWindowAssumption
<1>1. /\ UNCHANGED <<trackedWindow, currentCounts, previousCounts, check, answer,
                      admitted>>
      /\ clock \in Instants /\ TypeOK
  BY DEF Tick, IInv, TypeOK
<1>2. /\ clock.window \in Windows /\ clock.elapsed \in 0..(WindowLength - 1)
      /\ clock = [window |-> clock.window, elapsed |-> clock.elapsed]
  BY <1>1 DEF Instants
<1>3. \/ /\ clock.elapsed + 1 < WindowLength
         /\ clock' = [window |-> clock.window, elapsed |-> clock.elapsed + 1]
      \/ /\ clock.window < MaxWindow
         /\ clock' = [window |-> clock.window + 1, elapsed |-> 0]
  BY <1>2 DEF Tick
<1>4. clock' \in Instants /\ clock.window <= clock'.window
  BY <1>2, <1>3 DEF Instants
<1>5. ASSUME NEW a \in Instants, Before(a, clock) PROVE Before(a, clock')
  <2>1. a.window \in Nat /\ a.elapsed \in Nat
    BY DEF Instants
  <2> QED BY <1>2, <1>3, <1>5, <2>1 DEF Before
<1>6. TypeOK'
  BY <1>1, TypeStep DEF Next
<1>7. (trackedWindow <= clock.window)'
  BY <1>1, <1>2, <1>4 DEF IInv, TypeOK, Instants
<1>8. ASSUME NEW k \in Keys PROVE KeyInv(k)'
  <2>1. KeyInv(k) /\ admitted[k] \in Seq(Instants)
    BY <1>1 DEF IInv, TypeOK
  <2>2. \A m \in DOMAIN admitted[k] : admitted[k][m] \in Instants
    BY <2>1
  <2>3. \A m \in DOMAIN admitted[k] : Before(admitted[k][m], clock')
    BY <1>5, <2>1, <2>2 DEF KeyInv
  <2> QED BY <1>1, <2>1, <2>3 DEF KeyInv
<1>9. ASSUME NEW i \in Instances, (check[i] # NoCheck)'
      PROVE  FreshCheck(check[i])'
  <2>1. check[i] # NoCheck /\ check'[i] = check[i]
    BY <1>1, <1>9
  <2>2. check[i].at \in Instants /\ FreshCheck(check[i])
    BY <1>1, <2>1, OpenCheck DEF IInv
  <2>3. Before(check[i].at, clock')
    BY <1>5, <2>2 DEF FreshCheck
  <2> QED BY <1>1, <2>1, <2>2, <2>3 DEF FreshCheck
<1> QED BY <1>6, <1>7, <1>8, <1>9 DEF IInv

\* What the proofs assume of Instances: the counter is not shared.
SingleInstance == \A i, j \in Instances : i = j

\* A check starts and reads the clock: nothing was logged later than now.
LEMMA ReadClockPreserves ==
    ASSUME SingleInstance, IInv, NEW i \in Instances, NEW k \in Keys,
           ReadClock(i, k)
    PROVE  IInv'
<1> USE RequestLimitAssumption, WindowLengthAssumption, MaxWindowAssumption
<1> DEFINE c == [counted |-> FALSE, key |-> k, at |-> clock, current |-> 0,
                 previous |-> 0]
<1>1. /\ check' = [check EXCEPT ![i] = c]
      /\ answer' = [answer EXCEPT ![i] = NoAnswer]
      /\ UNCHANGED <<clock, trackedWindow, currentCounts, previousCounts, admitted>>
  BY DEF ReadClock
<1>2. TypeOK /\ clock \in Instants /\ trackedWindow <= clock.window
  BY DEF IInv, TypeOK
<1>3. c \in Checks
  BY <1>2 DEF Checks
<1>4. /\ ~c.counted /\ c.at = clock /\ c.key = k
  OBVIOUS
<1> HIDE DEF c
<1>5. TypeOK'
  BY <1>2, TypeStep DEF Next
<1>6. (trackedWindow <= clock.window)'
  BY <1>1, <1>2
<1>7. ASSUME NEW q \in Keys PROVE KeyInv(q)'
  BY <1>1 DEF IInv, KeyInv
<1>8. ASSUME NEW j \in Instances, (check[j] # NoCheck)'
      PROVE  FreshCheck(check[j])'
  <2>1. check'[j] = c
    BY <1>1, <1>2 DEF TypeOK, SingleInstance
  <2>2. KeyInv(k)
    BY DEF IInv
  <2>3. Before(clock, clock)
    BY <1>2 DEF Before, Instants
  <2> QED BY <1>1, <1>2, <1>4, <2>1, <2>2, <2>3 DEF FreshCheck, KeyInv
<1> QED BY <1>5, <1>6, <1>7, <1>8 DEF IInv

\* The maps are rolled to the window of the check, which takes its snapshot
\* from them.
LEMMA GetPreserves ==
    ASSUME SingleInstance, IInv, NEW i \in Instances, Get(i)
    PROVE  IInv'
<1> USE RequestLimitAssumption, WindowLengthAssumption, MaxWindowAssumption
<1> DEFINE u == check[i].at.window
           k == check[i].key
           c == [check[i] EXCEPT !.counted = TRUE,
                                 !.current = EvictedCurrent(u)[k],
                                 !.previous = EvictedPrevious(u)[k]]
<1>1. /\ currentCounts' = EvictedCurrent(u)
      /\ previousCounts' = EvictedPrevious(u)
      /\ trackedWindow' = u
      /\ UNCHANGED <<clock, answer, admitted>>
      /\ check[i] # NoCheck /\ TypeOK /\ FreshCheck(check[i])
  BY DEF Get, IInv
<1>2. /\ check[i] \in Checks /\ k \in Keys /\ u \in Windows /\ u \in Nat
      /\ check[i].at \in Instants
      /\ trackedWindow <= u
  BY <1>1, OpenCheck DEF FreshCheck
<1>3. /\ EvictedCurrent(u) \in [Keys -> Nat]
      /\ EvictedPrevious(u) \in [Keys -> Nat]
      /\ \A q \in Keys :
            /\ Matches(admitted[q], u, EvictedCurrent(u)[q], EvictedPrevious(u)[q])
            /\ EvictedCurrent(u)[q] <= RequestLimit
            /\ EvictedPrevious(u)[q] <= RequestLimit
  BY <1>2, EvictFacts
<1>4. check' = [check EXCEPT ![i] = c]
  BY <1>1, <1>2 DEF Get, TypeOK
<1>5. /\ c \in Checks /\ c.at = check[i].at /\ c.key = k
      /\ c.current = EvictedCurrent(u)[k] /\ c.previous = EvictedPrevious(u)[k]
  BY <1>2, <1>3 DEF Checks
<1>6. c.at.window = u
  BY <1>5
<1> HIDE DEF u, c, k
<1>7. TypeOK'
  BY <1>1, TypeStep DEF Next
<1>8. Before(check[i].at, clock)
  BY <1>1 DEF FreshCheck
<1>9. (trackedWindow <= clock.window)'
  <2>1. u \in Nat /\ clock.window \in Nat /\ u = check[i].at.window
    BY <1>1, <1>2 DEF TypeOK, Instants, u
  <2> QED BY <1>1, <1>8, <2>1 DEF Before
<1>10. ASSUME NEW q \in Keys PROVE KeyInv(q)'
  <2>1. KeyInv(q)
    BY DEF IInv
  <2>2. Matches(admitted[q], trackedWindow, currentCounts[q], previousCounts[q])'
    BY <1>1, <1>3
  <2> QED BY <1>1, <1>3, <2>1, <2>2 DEF KeyInv
<1>11. ASSUME NEW j \in Instances, (check[j] # NoCheck)'
       PROVE  FreshCheck(check[j])'
  <2>1. check'[j] = c
    BY <1>1, <1>4 DEF TypeOK, SingleInstance
  <2>2. \A m \in DOMAIN admitted[k] : Before(admitted[k][m], c.at)
    BY <1>1, <1>5 DEF FreshCheck, k
  <2> QED BY <1>1, <1>2, <1>5, <1>6, <1>8, <2>1, <2>2 DEF FreshCheck
<1> QED BY <1>7, <1>9, <1>10, <1>11 DEF IInv

\* A check is refused: nothing moves but the answer.
LEMMA DenyPreserves ==
    ASSUME SingleInstance, IInv, NEW i \in Instances, Deny(i)
    PROVE  IInv'
<1> USE RequestLimitAssumption
<1>1. /\ answer' = [answer EXCEPT ![i] = [allowed |-> FALSE, remaining |-> 0]]
      /\ check' = [check EXCEPT ![i] = NoCheck]
      /\ UNCHANGED <<clock, trackedWindow, currentCounts, previousCounts, admitted>>
      /\ TypeOK
  BY DEF Deny, IInv
<1>2. TypeOK'
  BY <1>1, TypeStep DEF Next
<1>3. (trackedWindow <= clock.window)'
  BY <1>1 DEF IInv
<1>4. ASSUME NEW k \in Keys PROVE KeyInv(k)'
  BY <1>1 DEF IInv, KeyInv
<1>5. ASSUME NEW j \in Instances, (check[j] # NoCheck)'
      PROVE  FreshCheck(check[j])'
  BY <1>1, <1>5 DEF SingleInstance, TypeOK
<1> QED BY <1>2, <1>3, <1>4, <1>5 DEF IInv

\* A check goes through: its request is counted and logged, and the
\* comparison it passed is what keeps the burst bound.
LEMMA AllowPreserves ==
    ASSUME SingleInstance, IInv, NEW i \in Instances, Allow(i)
    PROVE  IInv'
<1> USE RequestLimitAssumption, WindowLengthAssumption, MaxWindowAssumption
<1> DEFINE c == check[i]
           k == c.key
           log == admitted[k]
<1>1. /\ check[i] # NoCheck /\ WithinLimit(c) /\ TypeOK
      /\ FreshCheck(c) /\ c.counted
  BY DEF Allow, IInv, Counted
<1>2. /\ c \in Checks /\ k \in Keys /\ c.at \in Instants
      /\ c.current \in Nat /\ c.previous \in Nat
      /\ c.at.window \in Windows
      /\ c.at.elapsed \in 0..(WindowLength - 1)
  BY <1>1, OpenCheck
<1>3. /\ currentCounts' = [currentCounts EXCEPT ![k] = @ + 1]
      /\ previousCounts' = previousCounts
      /\ trackedWindow' = trackedWindow
      /\ answer' = [answer EXCEPT ![i] =
                       [allowed |-> TRUE,
                        remaining |-> AtLeastZero(Remaining(c) - 1)]]
      /\ admitted' = [admitted EXCEPT ![k] = Append(@, c.at)]
      /\ check' = [check EXCEPT ![i] = NoCheck]
      /\ UNCHANGED clock
  BY <1>1 DEF Allow, IncrementBy, EvictedCurrent, EvictedPrevious, FreshCheck
<1>4. KeyInv(k) /\ log \in Seq(Instants)
      /\ currentCounts[k] = c.current /\ previousCounts[k] = c.previous
      /\ c.at.window = trackedWindow /\ clock \in Instants
      /\ Before(c.at, clock)
      /\ \A m \in DOMAIN log : Before(log[m], c.at)
  BY <1>1, <1>2 DEF IInv, FreshCheck, TypeOK
<1> HIDE DEF c, k, log
<1>5. /\ Matches(log, c.at.window, c.current, c.previous)
      /\ c.current <= RequestLimit /\ c.previous <= RequestLimit
      /\ Burst(log)
      /\ \A m \in DOMAIN log : Before(log[m], clock)
  BY <1>4 DEF KeyInv, log
<1>6. c.previous * (WindowLength - c.at.elapsed) + c.current * WindowLength
         + WindowLength <= RequestLimit * WindowLength
  BY <1>1 DEF WithinLimit, ScaledRate
<1>7. Append(log, c.at) \in Seq(Instants)
      /\ \A m \in DOMAIN Append(log, c.at) : Before(Append(log, c.at)[m], clock)
  BY <1>2, <1>4, <1>5, BeforeAppend
<1>8. Matches(Append(log, c.at), c.at.window, c.current + 1, c.previous)
  BY <1>2, <1>4, <1>5, MatchesAppend
<1>9. Burst(Append(log, c.at))
  BY <1>2, <1>4, <1>5, <1>6, BurstAppend
<1>10. c.current + 1 <= RequestLimit
  BY <1>2, <1>5, <1>6, AllowedCounts
<1>11. TypeOK'
  BY <1>1, TypeStep DEF Next
<1>12. (trackedWindow <= clock.window)'
  BY <1>3 DEF IInv
<1>13. ASSUME NEW q \in Keys PROVE KeyInv(q)'
  <2>1. CASE q = k
    <3>1. /\ admitted'[q] = Append(log, c.at)
          /\ currentCounts'[q] = c.current + 1
          /\ previousCounts'[q] = c.previous
          /\ trackedWindow' = c.at.window
      BY <1>1, <1>2, <1>3, <1>4, <2>1 DEF TypeOK, log
    <3>2. Matches(admitted[q], trackedWindow, currentCounts[q],
                  previousCounts[q])'
      BY <1>8, <3>1
    <3> QED BY <1>3, <1>5, <1>7, <1>9, <1>10, <3>1, <3>2 DEF KeyInv
  <2>2. CASE q # k
    <3>1. admitted'[q] = admitted[q] /\ currentCounts'[q] = currentCounts[q]
      BY <1>1, <1>3, <2>2 DEF TypeOK
    <3>2. KeyInv(q)
      BY DEF IInv
    <3> QED BY <1>3, <3>1, <3>2 DEF KeyInv
  <2> QED BY <2>1, <2>2
<1>14. ASSUME NEW j \in Instances, (check[j] # NoCheck)'
       PROVE  FreshCheck(check[j])'
  BY <1>1, <1>3, <1>14 DEF SingleInstance, TypeOK
<1> QED BY <1>11, <1>12, <1>13, <1>14 DEF IInv

\* Every step of RateLimit, or a stutter.
LEMMA StepPreserves ==
    ASSUME SingleInstance, IInv, [Next]_vars PROVE IInv'
<1>1. CASE Tick
  BY <1>1, TickPreserves
<1>2. ASSUME NEW i \in Instances, NEW k \in Keys, ReadClock(i, k) PROVE IInv'
  BY <1>2, ReadClockPreserves
<1>6. ASSUME NEW i \in Instances, Get(i) PROVE IInv'
  BY <1>6, GetPreserves
<1>3. ASSUME NEW i \in Instances, Deny(i) PROVE IInv'
  BY <1>3, DenyPreserves
<1>4. ASSUME NEW i \in Instances, Allow(i) PROVE IInv'
  BY <1>4, AllowPreserves
<1>5. CASE UNCHANGED vars
  <2>1. /\ clock' = clock /\ trackedWindow' = trackedWindow
        /\ currentCounts' = currentCounts /\ previousCounts' = previousCounts
        /\ check' = check /\ answer' = answer /\ admitted' = admitted
    BY <1>5 DEF vars
  <2>2. TypeOK'
    BY <1>5, TypeStep DEF IInv
  <2>3. \A k \in Keys : KeyInv(k)'
    BY <2>1 DEF IInv, KeyInv
  <2>4. \A i \in Instances : (check[i] # NoCheck => FreshCheck(check[i]))'
    BY <2>1 DEF IInv, FreshCheck
  <2> QED BY <2>1, <2>2, <2>3, <2>4 DEF IInv
<1> QED BY <1>1, <1>2, <1>3, <1>4, <1>5, <1>6 DEF Next

-----------------------------------------------------------------------------
(***************************************************************************)
(* Theorems.                                                               *)
(***************************************************************************)
\* The inductive invariant holds in every reachable state of a counter
\* that one RateLimit value uses.
THEOREM InductiveInvariant ==
    ASSUME SingleInstance PROVE Spec => []IInv
<1>1. IInv /\ [Next]_vars => IInv'
  BY StepPreserves
<1> QED BY <1>1, InitEstablishes, PTL DEF Spec

\* With one instance the two maps count, key by key, exactly the requests
\* allowed in the tracked window and in the one before it, through every
\* roll and bulk eviction: no count is lost, kept too long, or charged to
\* another key.
CountsMatchHistory ==
    \A k \in Keys :
        LET n == Len(admitted[k])
            c == currentCounts[k]
            p == previousCounts[k]
        IN  /\ c + p <= n
            /\ \A m \in 1..n :
                  LET window == admitted[k][m].window
                  IN  /\ m > n - c => window = trackedWindow
                      /\ m \in (n - c - p + 1)..(n - c)
                            => window = trackedWindow - 1
                      /\ m <= n - c - p => window < trackedWindow - 1

\* localLimitCounter never loses, keeps or misattributes a count, and its
\* variables keep their types.
THEOREM CountsAreExact ==
    ASSUME SingleInstance PROVE Spec => [](TypeOK /\ CountsMatchHistory)
<1>1. ASSUME IInv PROVE TypeOK /\ CountsMatchHistory
  <2>1. TypeOK
    BY <1>1 DEF IInv
  <2>2. ASSUME NEW k \in Keys
        PROVE Matches(admitted[k], trackedWindow, currentCounts[k],
                      previousCounts[k])
    BY <1>1 DEF IInv, KeyInv
  <2>3. CountsMatchHistory
    BY <2>2 DEF CountsMatchHistory, Matches
  <2> QED BY <2>1, <2>3
<1> QED BY <1>1, InductiveInvariant, PTL

\* The sliding window bounds every burst: RequestLimit in a fixed window,
\* RequestLimit * (1 + d / WindowLength) in any stretch of d ticks.
THEOREM BurstsAreBounded ==
    ASSUME SingleInstance PROVE Spec => []BurstBound
<1>1. ASSUME IInv PROVE BurstBound
  <2>1. \A k \in Keys : Burst(admitted[k])
    BY <1>1 DEF IInv, KeyInv
  <2> QED BY <2>1 DEF BurstBound, Burst
<1> QED BY <1>1, InductiveInvariant, PTL

-----------------------------------------------------------------------------
(***************************************************************************)
(* Several instances that share the counter.  Between the snapshot a check *)
(* takes and the request it counts, others count theirs, so the count may  *)
(* pass the limit; but each of them has at most one check under way, and   *)
(* only a check whose snapshot is below the limit counts anything.         *)
(***************************************************************************)
\* The instances whose check took a snapshot below the limit for the key:
\* those that may still count one request each.
Pending(k) ==
    {i \in Instances : /\ check[i] # NoCheck /\ check[i].counted
                       /\ check[i].key = k
                       /\ check[i].current < RequestLimit}

\* What is counted and what may still be counted stay within the bound.
Reserved(k) ==
    currentCounts[k] + Cardinality(Pending(k))
        <= RequestLimit + Cardinality(Instances) - 1

SharedInv == TypeOK /\ \A k \in Keys : Reserved(k)

\* How many instances may have a request pending.
LEMMA PendingSize ==
    ASSUME NEW k
    PROVE  /\ Cardinality(Instances) \in Nat /\ Cardinality(Instances) >= 1
           /\ IsFiniteSet(Pending(k)) /\ Cardinality(Pending(k)) \in Nat
           /\ Cardinality(Pending(k)) <= Cardinality(Instances)
           /\ \A i \in Instances : i \notin Pending(k)
                 => Cardinality(Pending(k)) <= Cardinality(Instances) - 1
<1> DEFINE P == Pending(k)
<1>0. IsFiniteSet(Instances) /\ Instances # {}
  BY InstancesAssumption
<1>1. Cardinality(Instances) \in Nat /\ Cardinality(Instances) # 0
  BY <1>0, FS_CardinalityType, FS_EmptySet
<1>2. P \in SUBSET Instances
  BY DEF Pending
<1> HIDE DEF P
<1>3. IsFiniteSet(P) /\ Cardinality(P) <= Cardinality(Instances)
  BY <1>0, <1>2, FS_Subset
<1>4. Cardinality(P) \in Nat
  BY <1>3, FS_CardinalityType
<1>5. ASSUME NEW i \in Instances, i \notin P
      PROVE  Cardinality(P) <= Cardinality(Instances) - 1
  <2>1. P # Instances
    BY <1>5
  <2>2. Cardinality(Instances) # Cardinality(P)
    BY <1>0, <1>2, <2>1, FS_Subset
  <2> QED BY <1>1, <1>3, <1>4, <2>2
<1> QED BY <1>1, <1>3, <1>4, <1>5 DEF P

\* Counts kept and nobody new pending: the bound stays.
LEMMA ReservedKept ==
    ASSUME NEW k \in Keys, Reserved(k), TypeOK, TypeOK',
           currentCounts'[k] = currentCounts[k], Pending(k)' \subseteq Pending(k)
    PROVE  Reserved(k)'
<1>1. /\ IsFiniteSet(Pending(k)) /\ Cardinality(Pending(k)) \in Nat
      /\ Cardinality(Instances) \in Nat
  BY PendingSize
<1>2. Pending(k)' \in SUBSET Pending(k)
  OBVIOUS
<1>3. /\ IsFiniteSet(Pending(k)') /\ Cardinality(Pending(k)') \in Nat
      /\ Cardinality(Pending(k)') <= Cardinality(Pending(k))
  BY <1>1, <1>2, FS_Subset, FS_CardinalityType
<1>4. currentCounts[k] \in Nat
  BY DEF TypeOK
<1> QED BY <1>1, <1>3, <1>4, RequestLimitAssumption DEF Reserved

\* A check that goes through saw a count below the limit.
LEMMA SnapshotBelowLimit ==
    ASSUME NEW c \in Checks, WithinLimit(c)
    PROVE  c.current < RequestLimit
<1> USE RequestLimitAssumption, WindowLengthAssumption
<1>1. /\ c.previous \in Nat /\ c.current \in Nat
      /\ c.at.elapsed \in 0..(WindowLength - 1)
  BY DEF Checks, Instants
<1>2. /\ c.previous * (WindowLength - c.at.elapsed) \in Nat
      /\ c.current * WindowLength \in Nat
      /\ RequestLimit * WindowLength \in Nat
  <2>1. WindowLength - c.at.elapsed \in Nat
    BY <1>1
  <2> QED BY <1>1, <2>1, ProductNonNegative
<1>3. (c.current + 1) * WindowLength = c.current * WindowLength + WindowLength
  BY <1>1
<1>4. (c.current + 1) * WindowLength <= RequestLimit * WindowLength
  BY <1>2, <1>3 DEF WithinLimit, ScaledRate
<1>5. c.current + 1 <= RequestLimit
  BY <1>1, <1>4, ProductCancel
<1> QED BY <1>1, <1>5

\* The bound holds at the start and after every step.
LEMMA SharedStep ==
    ASSUME SharedInv, [Next]_vars PROVE SharedInv'
<1> USE RequestLimitAssumption
<1>1. /\ TypeOK /\ TypeOK'
      /\ currentCounts \in [Keys -> Nat] /\ currentCounts' \in [Keys -> Nat]
      /\ check \in [Instances -> Checks \cup {NoCheck}]
      /\ \A k \in Keys : Reserved(k)
  BY TypeStep DEF SharedInv, TypeOK
<1>2. ASSUME currentCounts' = currentCounts, check' = check PROVE SharedInv'
  <2>1. \A k : Pending(k)' = Pending(k)
    BY <1>2 DEF Pending
  <2> QED BY <1>1, <1>2, <2>1, ReservedKept DEF SharedInv
<1>3. CASE Tick \/ UNCHANGED vars
  BY <1>2, <1>3 DEF Tick, vars
<1>4. ASSUME NEW i \in Instances, NEW q \in Keys, ReadClock(i, q)
      PROVE  SharedInv'
  <2>1. /\ currentCounts' = currentCounts
        /\ check'[i].counted = FALSE
        /\ \A j \in Instances \ {i} : check'[j] = check[j]
    BY <1>1, <1>4 DEF ReadClock
  <2>2. \A k : Pending(k)' \subseteq Pending(k)
    BY <2>1 DEF Pending
  <2> QED BY <1>1, <2>1, <2>2, ReservedKept DEF SharedInv
<1>5. ASSUME NEW i \in Instances, Deny(i) PROVE SharedInv'
  <2>1. /\ currentCounts' = currentCounts
        /\ check'[i] = NoCheck
        /\ \A j \in Instances \ {i} : check'[j] = check[j]
    BY <1>1, <1>5 DEF Deny
  <2>2. \A k : Pending(k)' \subseteq Pending(k)
    BY <2>1 DEF Pending
  <2> QED BY <1>1, <2>1, <2>2, ReservedKept DEF SharedInv
<1>6. ASSUME NEW i \in Instances, Get(i) PROVE SharedInv'
  <2> DEFINE u == check[i].at.window
             q == check[i].key
             n == EvictedCurrent(u)[q]
  <2>1. /\ check[i] \in Checks /\ q \in Keys /\ check[i].counted = FALSE
        /\ check[i] # NoCheck
    BY <1>1, <1>6, OpenCheck DEF Get
  <2>2. /\ currentCounts' = EvictedCurrent(u)
        /\ check'[i].key = q /\ check'[i].current = n
        /\ \A j \in Instances \ {i} : check'[j] = check[j]
    BY <1>1, <1>6, <2>1 DEF Get, Checks
  <2>3. currentCounts' = currentCounts \/ currentCounts' = NoCounts
    BY <1>1, <2>2, EvictedTypes
  <2>4. n = currentCounts'[q]
    BY <2>2
  <2> HIDE DEF u, n, q
  <2>5. ASSUME NEW k \in Keys PROVE Reserved(k)'
    <3>1. /\ Cardinality(Pending(k)) \in Nat /\ Cardinality(Pending(k)') \in Nat
          /\ Cardinality(Instances) \in Nat /\ Cardinality(Instances) >= 1
          /\ currentCounts[k] \in Nat /\ currentCounts'[k] \in Nat
          /\ Cardinality(Pending(k)') <= Cardinality(Instances)
      <4>1. \A m : /\ Cardinality(Pending(m)) \in Nat
                   /\ Cardinality(Instances) \in Nat
                   /\ Cardinality(Instances) >= 1
                   /\ Cardinality(Pending(m)) <= Cardinality(Instances)
        BY PendingSize
      <4>2. /\ Cardinality(Pending(k)') \in Nat
            /\ Cardinality(Pending(k)') <= Cardinality(Instances)
        <5>1. Pending(k)' \in SUBSET Instances
          BY DEF Pending
        <5>2. IsFiniteSet(Instances)
          BY InstancesAssumption
        <5> QED BY <5>1, <5>2, FS_Subset, FS_CardinalityType
      <4> QED BY <1>1, <4>1, <4>2
    <3>2. CASE k = q /\ n < RequestLimit
      BY <2>4, <3>1, <3>2 DEF Reserved
    <3>3. CASE ~(k = q /\ n < RequestLimit)
      <4>1. Pending(k)' \subseteq Pending(k) /\ i \notin Pending(k)
        BY <2>1, <2>2, <3>3 DEF Pending
      <4>2. CASE currentCounts' = currentCounts
        BY <1>1, <4>1, <4>2, ReservedKept
      <4>3. CASE currentCounts' = NoCounts
        <5>1. Cardinality(Pending(k)) <= Cardinality(Instances) - 1
          BY <4>1, PendingSize
        <5>2. Cardinality(Pending(k)') <= Cardinality(Pending(k))
          BY <4>1, FS_Subset, PendingSize
        <5>3. currentCounts'[k] = 0
          BY <4>3 DEF NoCounts
        <5> QED BY <3>1, <5>1, <5>2, <5>3 DEF Reserved
      <4> QED BY <2>3, <4>2, <4>3
    <3> QED BY <3>2, <3>3
  <2> QED BY <1>1, <2>5 DEF SharedInv
<1>7. ASSUME NEW i \in Instances, Allow(i) PROVE SharedInv'
  <2> DEFINE u == check[i].at.window
             q == check[i].key
  <2>1. /\ check[i] \in Checks /\ q \in Keys /\ check[i].counted
        /\ check[i] # NoCheck /\ WithinLimit(check[i])
    BY <1>1, <1>7, OpenCheck DEF Allow, Counted
  <2>2. check[i].current < RequestLimit
    BY <2>1, SnapshotBelowLimit
  <2>3. /\ currentCounts' = [EvictedCurrent(u) EXCEPT ![q] = @ + 1]
        /\ check'[i] = NoCheck
        /\ \A j \in Instances \ {i} : check'[j] = check[j]
    BY <1>1, <1>7 DEF Allow, IncrementBy
  <2>4. /\ EvictedCurrent(u) \in [Keys -> Nat]
        /\ EvictedCurrent(u) = currentCounts \/ EvictedCurrent(u) = NoCounts
    BY <1>1, EvictedTypes
  <2>5. i \in Pending(q)
    BY <2>1, <2>2 DEF Pending
  <2>6. \A k : Pending(k)' = Pending(k) \ {i}
    BY <2>3 DEF Pending
  <2> HIDE DEF u, q
  <2>7. ASSUME NEW k \in Keys PROVE Reserved(k)'
    <3>1. /\ IsFiniteSet(Pending(k)) /\ Cardinality(Pending(k)) \in Nat
          /\ Cardinality(Pending(k)) <= Cardinality(Instances)
          /\ Cardinality(Instances) \in Nat /\ Cardinality(Instances) >= 1
      BY PendingSize
    <3>2. Cardinality(Pending(k)') = IF i \in Pending(k)
                                     THEN Cardinality(Pending(k)) - 1
                                     ELSE Cardinality(Pending(k))
      BY <2>6, <3>1, FS_RemoveElement
    <3>3. CASE EvictedCurrent(u) = currentCounts
      <4>1. CASE k = q
        <5>1. currentCounts'[k] = currentCounts[k] + 1
          BY <1>1, <2>1, <2>3, <3>3, <4>1
        <5> QED BY <1>1, <2>5, <3>1, <3>2, <4>1, <5>1 DEF Reserved
      <4>2. CASE k # q
        <5>1. currentCounts'[k] = currentCounts[k]
          BY <1>1, <2>3, <3>3, <4>2
        <5> QED BY <1>1, <2>6, <5>1, ReservedKept
      <4> QED BY <4>1, <4>2
    <3>4. CASE EvictedCurrent(u) = NoCounts
      <4>1. currentCounts'[k] = IF k = q THEN 1 ELSE 0
        BY <2>1, <2>3, <2>4, <3>4 DEF NoCounts
      <4>2. Cardinality(Pending(k)') <= Cardinality(Instances) - 1
        <5>1. CASE i \in Pending(k)
          BY <3>1, <3>2, <5>1
        <5>2. CASE i \notin Pending(k)
          BY <3>1, <3>2, <5>2, PendingSize
        <5> QED BY <5>1, <5>2
      <4>3. Cardinality(Pending(k)') \in Nat /\ 1 <= RequestLimit
        BY <2>1, <2>2, <3>1, <3>2, FS_EmptySet DEF Checks
      <4> QED BY <3>1, <4>1, <4>2, <4>3 DEF Reserved
    <3> QED BY <2>4, <3>3, <3>4
  <2> QED BY <1>1, <2>7 DEF SharedInv
<1> QED BY <1>3, <1>4, <1>5, <1>6, <1>7 DEF Next

\* Instances that share a counter overshoot the limit by at most one request
\* per extra instance, in every behaviour.
THEOREM OvershootIsBounded == Spec => []OvershootBounded
<1>1. Init => SharedInv
  <2> SUFFICES ASSUME Init PROVE SharedInv
    OBVIOUS
  <2>1. TypeOK
    BY InitEstablishes DEF IInv
  <2>2. ASSUME NEW k \in Keys PROVE Reserved(k)
    <3>1. currentCounts[k] = 0
      BY DEF Init, NoCounts
    <3>2. \A i \in Instances : i \notin Pending(k)
      BY DEF Init, Pending
    <3>3. Pending(k) = {}
      BY <3>2 DEF Pending
    <3>4. Cardinality(Pending(k)) = 0
      BY <3>3, FS_EmptySet
    <3>5. Cardinality(Instances) \in Nat /\ Cardinality(Instances) >= 1
      BY PendingSize
    <3> QED BY <3>1, <3>4, <3>5, RequestLimitAssumption DEF Reserved
  <2> QED BY <2>1, <2>2 DEF SharedInv
<1>2. SharedInv /\ [Next]_vars => SharedInv'
  BY SharedStep
<1>3. SharedInv => OvershootBounded
  <2> SUFFICES ASSUME SharedInv, NEW k \in Keys
               PROVE  currentCounts[k]
                        <= RequestLimit + Cardinality(Instances) - 1
    BY DEF OvershootBounded
  <2>1. Reserved(k) /\ currentCounts[k] \in Nat
    BY DEF SharedInv, TypeOK
  <2>2. Cardinality(Instances) \in Nat /\ Cardinality(Pending(k)) \in Nat
    BY PendingSize
  <2> QED BY <2>1, <2>2, RequestLimitAssumption DEF Reserved
<1> QED BY <1>1, <1>2, <1>3, PTL DEF Spec

-----------------------------------------------------------------------------
(***************************************************************************)
(* Whom instances that share the counter deny.  A call for an older window *)
(* makes evict drop counts that are still in use; but what a map holds for *)
(* a key was allowed in the window the map is said to be of, so no count   *)
(* is ever more than the log has.                                          *)
(***************************************************************************)
\* The tally of a window is a number.
LEMMA InWindowType ==
    ASSUME NEW s \in Seq(Instants), NEW w
    PROVE  /\ IsFiniteSet({m \in DOMAIN s : s[m].window = w})
           /\ InWindow(s, w) \in Nat
<1> DEFINE M == {m \in DOMAIN s : s[m].window = w}
<1>1. Len(s) \in Nat /\ DOMAIN s = 1..Len(s)
  BY LenProperties
<1>2. IsFiniteSet(1..Len(s))
  BY <1>1, FS_Interval
<1>3. M \in SUBSET (1..Len(s))
  BY <1>1
<1>4. IsFiniteSet(M)
  BY <1>2, <1>3, FS_Subset
<1>5. Cardinality(M) \in Nat
  BY <1>4, FS_CardinalityType
<1> QED BY <1>4, <1>5 DEF InWindow

\* A request that is logged counts in its own window and in no other.
LEMMA InWindowAppend ==
    ASSUME NEW s \in Seq(Instants), NEW x \in Instants, NEW w
    PROVE  InWindow(Append(s, x), w)
             = IF x.window = w THEN InWindow(s, w) + 1 ELSE InWindow(s, w)
<1> DEFINE t == Append(s, x)
           N == Len(s) + 1
           M == {m \in DOMAIN s : s[m].window = w}
<1>1. Len(s) \in Nat /\ DOMAIN s = 1..Len(s)
  BY LenProperties
<1>2. /\ t \in Seq(Instants) /\ Len(t) = N /\ t[N] = x
      /\ \A m \in 1..Len(s) : t[m] = s[m]
  BY AppendProperties
<1>3. DOMAIN t = 1..N /\ N \in Nat /\ N = Len(s) + 1
  BY <1>1, <1>2, LenProperties
<1>4. IsFiniteSet(M) /\ N \notin M
  <2>1. IsFiniteSet(M)
    BY InWindowType
  <2>2. N \notin DOMAIN s
    BY <1>1
  <2> QED BY <2>1, <2>2
<1> HIDE DEF N, t
<1>5. CASE x.window = w
  <2>1. {m \in DOMAIN t : t[m].window = w} = M \cup {N}
    BY <1>1, <1>2, <1>3, <1>5
  <2>2. Cardinality(M \cup {N}) = Cardinality(M) + 1
    BY <1>4, FS_AddElement
  <2>3. InWindow(t, w) = InWindow(s, w) + 1
    BY <2>1, <2>2 DEF InWindow
  <2> QED BY <1>5, <2>3 DEF t
<1>6. CASE x.window # w
  <2>1. {m \in DOMAIN t : t[m].window = w} = M
    BY <1>1, <1>2, <1>3, <1>6
  <2>2. InWindow(t, w) = InWindow(s, w)
    BY <2>1 DEF InWindow
  <2> QED BY <1>6, <2>2 DEF t
<1> QED BY <1>5, <1>6

\* The counts of c are no more than the log of its key has.
Backed(c) ==
    /\ c.current <= AdmittedIn(c.key, c.at.window)
    /\ c.previous <= AdmittedIn(c.key, c.at.window - 1)

EarnedInv ==
    /\ TypeOK
    /\ \A k \in Keys :
          /\ currentCounts[k] <= AdmittedIn(k, trackedWindow)
          /\ previousCounts[k] <= AdmittedIn(k, trackedWindow - 1)
    /\ \A i \in Instances :
          check[i] # NoCheck /\ check[i].counted => Backed(check[i])

\* Whatever window evict is asked for, what it leaves is backed by the log.
LEMMA EvictEarned ==
    ASSUME EarnedInv, NEW u \in Int, NEW k \in Keys
    PROVE  /\ EvictedCurrent(u)[k] \in Nat /\ EvictedPrevious(u)[k] \in Nat
           /\ EvictedCurrent(u)[k] <= AdmittedIn(k, u)
           /\ EvictedPrevious(u)[k] <= AdmittedIn(k, u - 1)
<1>1. /\ TypeOK /\ trackedWindow \in Int
      /\ currentCounts[k] \in Nat /\ previousCounts[k] \in Nat
      /\ currentCounts[k] <= AdmittedIn(k, trackedWindow)
      /\ previousCounts[k] <= AdmittedIn(k, trackedWindow - 1)
  BY MaxWindowAssumption DEF EarnedInv, TypeOK
<1>2. \A w : AdmittedIn(k, w) \in Nat
  BY <1>1, InWindowType DEF AdmittedIn, TypeOK
<1>3. NoCounts[k] = 0
  BY DEF NoCounts
<1>4. EvictedCurrent(u)[k] \in Nat /\ EvictedCurrent(u)[k] <= AdmittedIn(k, u)
  BY <1>1, <1>2, <1>3 DEF EvictedCurrent
<1>5. /\ EvictedPrevious(u)[k] \in Nat
      /\ EvictedPrevious(u)[k] <= AdmittedIn(k, u - 1)
  BY <1>1, <1>2, <1>3 DEF EvictedPrevious
<1> QED BY <1>4, <1>5

\* Nothing is taken out of a log.
LEMMA AdmittedGrows ==
    ASSUME TypeOK, [Next]_vars, NEW k \in Keys, NEW w
    PROVE  /\ AdmittedIn(k, w) \in Nat /\ AdmittedIn(k, w)' \in Nat
           /\ AdmittedIn(k, w) <= AdmittedIn(k, w)'
<1>1. admitted \in [Keys -> Seq(Instants)]
  BY DEF TypeOK
<1>2. InWindow(admitted[k], w) \in Nat
  BY <1>1, InWindowType
<1>3. CASE admitted' = admitted
  BY <1>2, <1>3 DEF AdmittedIn
<1>4. CASE \E i \in Instances : Allow(i)
  <2>1. PICK i \in Instances : Allow(i)
    BY <1>4
  <2>2. check[i].key \in Keys /\ check[i].at \in Instants
    BY <2>1, OpenCheck DEF Allow, Counted
  <2>3. \/ admitted'[k] = admitted[k]
        \/ admitted'[k] = Append(admitted[k], check[i].at)
    BY <1>1, <2>1, <2>2 DEF Allow
  <2>4. InWindow(admitted'[k], w) \in {InWindow(admitted[k], w),
                                       InWindow(admitted[k], w) + 1}
    <3>1. PICK s \in Seq(Instants) : s = admitted[k]
      BY <1>1
    <3>2. PICK x \in Instants : x = check[i].at
      BY <2>2
    <3>3. InWindow(Append(s, x), w) \in {InWindow(s, w), InWindow(s, w) + 1}
      BY InWindowAppend
    <3> QED BY <2>3, <3>1, <3>2, <3>3
  <2> QED BY <1>2, <2>4 DEF AdmittedIn
<1> QED BY <1>3, <1>4 DEF Next, Tick, ReadClock, Get, Deny, vars

\* Checks that stay are still backed.
LEMMA StillBacked ==
    ASSUME EarnedInv, [Next]_vars, NEW j \in Instances, check'[j] = check[j],
           check[j] # NoCheck, check[j].counted
    PROVE  Backed(check[j])'
<1>1. TypeOK /\ Backed(check[j])
  BY DEF EarnedInv
<1>2. PICK c \in Checks : c = check[j] /\ c.key \in Keys
  BY <1>1, OpenCheck
<1>3. c.current \in Nat /\ c.previous \in Nat
  BY <1>2 DEF Checks
<1>4. \A w : /\ AdmittedIn(c.key, w) \in Nat /\ AdmittedIn(c.key, w)' \in Nat
             /\ AdmittedIn(c.key, w) <= AdmittedIn(c.key, w)'
  BY <1>1, <1>2, AdmittedGrows
<1>5. /\ c.current <= AdmittedIn(c.key, c.at.window)
      /\ c.previous <= AdmittedIn(c.key, c.at.window - 1)
  BY <1>1, <1>2 DEF Backed
<1>6. /\ c.current <= AdmittedIn(c.key, c.at.window)'
      /\ c.previous <= AdmittedIn(c.key, c.at.window - 1)'
  BY <1>3, <1>4, <1>5
<1>7. check'[j] = c
  BY <1>2
<1> QED BY <1>6, <1>7 DEF Backed, AdmittedIn

\* Every step keeps the counts backed.
LEMMA EarnedStep ==
    ASSUME EarnedInv, [Next]_vars PROVE EarnedInv'
<1>1. /\ TypeOK /\ TypeOK'
      /\ check \in [Instances -> Checks \cup {NoCheck}]
      /\ trackedWindow \in Windows /\ trackedWindow \in Int
  BY TypeStep, MaxWindowAssumption DEF EarnedInv, TypeOK
<1>2. \A k \in Keys : \A w :
         /\ AdmittedIn(k, w) \in Nat /\ AdmittedIn(k, w)' \in Nat
         /\ AdmittedIn(k, w) <= AdmittedIn(k, w)'
  BY <1>1, AdmittedGrows
<1>3. ASSUME NEW u \in Windows, NEW k \in Keys
      PROVE  /\ EvictedCurrent(u)[k] \in Nat /\ EvictedPrevious(u)[k] \in Nat
             /\ EvictedCurrent(u)[k] <= AdmittedIn(k, u)'
             /\ EvictedPrevious(u)[k] <= AdmittedIn(k, u - 1)'
  <2>1. u \in Int
    BY MaxWindowAssumption
  <2>2. /\ EvictedCurrent(u)[k] \in Nat /\ EvictedPrevious(u)[k] \in Nat
        /\ EvictedCurrent(u)[k] <= AdmittedIn(k, u)
        /\ EvictedPrevious(u)[k] <= AdmittedIn(k, u - 1)
    BY <2>1, EvictEarned
  <2> QED BY <1>2, <2>2
<1>4. ASSUME NEW i \in Instances,
             \A j \in Instances \ {i} : check'[j] = check[j],
             check'[i] # NoCheck /\ check'[i].counted => Backed(check[i])'
      PROVE  \A j \in Instances :
                (check[j] # NoCheck /\ check[j].counted => Backed(check[j]))'
  BY <1>4, StillBacked
<1>5. ASSUME UNCHANGED <<trackedWindow, currentCounts, previousCounts>>,
             NEW k \in Keys
      PROVE  (/\ currentCounts[k] <= AdmittedIn(k, trackedWindow)
              /\ previousCounts[k] <= AdmittedIn(k, trackedWindow - 1))'
  <2>1. /\ currentCounts[k] \in Nat /\ previousCounts[k] \in Nat
        /\ currentCounts[k] <= AdmittedIn(k, trackedWindow)
        /\ previousCounts[k] <= AdmittedIn(k, trackedWindow - 1)
    BY DEF EarnedInv, TypeOK
  <2>2. PICK t : t = trackedWindow
    OBVIOUS
  <2>3. /\ currentCounts[k] <= AdmittedIn(k, t)'
        /\ previousCounts[k] <= AdmittedIn(k, t - 1)'
    BY <1>2, <2>1, <2>2
  <2> QED BY <1>5, <2>2, <2>3 DEF AdmittedIn
<1>6. CASE Tick \/ UNCHANGED vars
  <2>1. UNCHANGED <<trackedWindow, currentCounts, previousCounts, check>>
    BY <1>6 DEF Tick, vars
  <2>2. \A j \in Instances :
           (check[j] # NoCheck /\ check[j].counted => Backed(check[j]))'
    BY <2>1, StillBacked
  <2> QED BY <1>1, <1>5, <2>1, <2>2 DEF EarnedInv
<1>7. ASSUME NEW i \in Instances, NEW q \in Keys, ReadClock(i, q)
      PROVE  EarnedInv'
  <2>1. /\ UNCHANGED <<trackedWindow, currentCounts, previousCounts>>
        /\ check'[i].counted = FALSE
        /\ \A j \in Instances \ {i} : check'[j] = check[j]
    BY <1>1, <1>7 DEF ReadClock
  <2> QED BY <1>1, <1>4, <1>5, <2>1 DEF EarnedInv
<1>8. ASSUME NEW i \in Instances, Deny(i) PROVE EarnedInv'
  <2>1. /\ UNCHANGED <<trackedWindow, currentCounts, previousCounts>>
        /\ check'[i] = NoCheck
        /\ \A j \in Instances \ {i} : check'[j] = check[j]
    BY <1>1, <1>8 DEF Deny
  <2> QED BY <1>1, <1>4, <1>5, <2>1 DEF EarnedInv
<1>9. ASSUME NEW i \in Instances, Get(i) PROVE EarnedInv'
  <2>1. PICK u \in Windows : u = check[i].at.window
    BY <1>1, <1>9, OpenCheck DEF Get
  <2>2. PICK q \in Keys : q = check[i].key
    BY <1>1, <1>9, OpenCheck DEF Get
  <2>3. check[i] \in Checks
    BY <1>1, <1>9, OpenCheck DEF Get
  <2>4. /\ currentCounts' = EvictedCurrent(u)
        /\ previousCounts' = EvictedPrevious(u)
        /\ trackedWindow' = u
        /\ \A j \in Instances \ {i} : check'[j] = check[j]
        /\ check'[i] = [check[i] EXCEPT !.counted = TRUE,
                                        !.current = EvictedCurrent(u)[q],
                                        !.previous = EvictedPrevious(u)[q]]
    BY <1>1, <1>9, <2>1, <2>2 DEF Get
  <2>5. /\ check'[i].key = q /\ check'[i].at.window = u
        /\ check'[i].current = EvictedCurrent(u)[q]
        /\ check'[i].previous = EvictedPrevious(u)[q]
    BY <2>1, <2>2, <2>3, <2>4 DEF Checks
  <2>6. Backed(check[i])'
    BY <1>3, <2>5 DEF Backed, AdmittedIn
  <2>7. \A k \in Keys : (/\ currentCounts[k] <= AdmittedIn(k, trackedWindow)
                         /\ previousCounts[k] <= AdmittedIn(k, trackedWindow - 1))'
    BY <1>3, <2>4 DEF AdmittedIn
  <2> QED BY <1>1, <1>4, <2>4, <2>6, <2>7 DEF EarnedInv
<1>10. ASSUME NEW i \in Instances, Allow(i) PROVE EarnedInv'
  <2>1. PICK u \in Windows : u = check[i].at.window
    BY <1>1, <1>10, OpenCheck DEF Allow, Counted
  <2>2. PICK q \in Keys : q = check[i].key
    BY <1>1, <1>10, OpenCheck DEF Allow, Counted
  <2>3. PICK x \in Instants : x = check[i].at
    BY <1>1, <1>10, OpenCheck DEF Allow, Counted
  <2>4. /\ currentCounts' = [EvictedCurrent(u) EXCEPT ![q] = @ + 1]
        /\ previousCounts' = EvictedPrevious(u)
        /\ trackedWindow' = u
        /\ admitted' = [admitted EXCEPT ![q] = Append(@, x)]
        /\ check'[i] = NoCheck
        /\ \A j \in Instances \ {i} : check'[j] = check[j]
    BY <1>1, <1>10, <2>1, <2>2, <2>3 DEF Allow, IncrementBy
  <2>5. u \in Int /\ EvictedCurrent(u) \in [Keys -> Nat]
    BY <1>1, EvictedTypes, MaxWindowAssumption
  <2>6. EvictedCurrent(u)[q] + 1 <= AdmittedIn(q, u)'
    <3>1. PICK s \in Seq(Instants) : s = admitted[q]
      BY <1>1 DEF TypeOK
    <3>2. InWindow(Append(s, x), u) = InWindow(s, u) + 1
      BY <2>1, <2>3, InWindowAppend
    <3>3. admitted'[q] = Append(s, x)
      BY <1>1, <2>4, <3>1 DEF TypeOK
    <3>4. AdmittedIn(q, u)' = AdmittedIn(q, u) + 1
      BY <3>1, <3>2, <3>3 DEF AdmittedIn
    <3>5. /\ EvictedCurrent(u)[q] \in Nat /\ AdmittedIn(q, u) \in Nat
          /\ EvictedCurrent(u)[q] <= AdmittedIn(q, u)
      BY <1>2, <2>5, EvictEarned
    <3> QED BY <3>4, <3>5
  <2>7. ASSUME NEW k \in Keys
        PROVE  (/\ currentCounts[k] <= AdmittedIn(k, trackedWindow)
                /\ previousCounts[k] <= AdmittedIn(k, trackedWindow - 1))'
    <3>1. currentCounts'[k] <= AdmittedIn(k, u)'
      <4>1. CASE k = q
        BY <2>4, <2>5, <2>6, <4>1
      <4>2. CASE k # q
        BY <1>3, <2>4, <2>5, <4>2
      <4> QED BY <4>1, <4>2
    <3>2. previousCounts'[k] <= AdmittedIn(k, u - 1)'
      BY <1>3, <2>4
    <3> QED BY <2>4, <3>1, <3>2 DEF AdmittedIn
  <2> QED BY <1>1, <1>4, <2>4, <2>7 DEF EarnedInv
<1> QED BY <1>6, <1>7, <1>8, <1>9, <1>10 DEF Next

\* A check that is over the limit is so on account of its own key's requests.
LEMMA OverLimitCounts ==
    ASSUME NEW c \in Checks, OverLimit(c)
    PROVE  RequestLimit <= c.current + c.previous
<1>1. /\ c.current \in Nat /\ c.previous \in Nat
      /\ c.at.elapsed \in 0..(WindowLength - 1)
  BY DEF Checks, Instants
<1>2. LET rate == c.previous * (WindowLength - c.at.elapsed)
                    + c.current * WindowLength
      IN  \/ rate + WindowLength > RequestLimit * WindowLength
          \/ /\ rate + WindowLength = RequestLimit * WindowLength
             /\ c.previous > 0 /\ c.at.elapsed > 0
  BY DEF OverLimit, ScaledRate
<1> QED BY <1>1, <1>2, DeniedCounts

\* Every 429 in every behaviour is a justified one, also of instances that
\* share the in-memory counter and make it roll back.
THEOREM DenialsAreJustified == Spec => DeniedOnlyWhenBusy
<1> DEFINE Justified ==
      \A i \in Instances :
          LET c == check[i]
          IN  c # NoCheck /\ c.counted /\ check'[i] = NoCheck
              /\ ~answer'[i].allowed
                => AdmittedIn(c.key, c.at.window)
                     + AdmittedIn(c.key, c.at.window - 1) >= RequestLimit
<1>1. Init => EarnedInv
  <2> SUFFICES ASSUME Init PROVE EarnedInv
    OBVIOUS
  <2>1. TypeOK
    BY InitEstablishes DEF IInv
  <2>2. ASSUME NEW k \in Keys PROVE /\ currentCounts[k] = 0 /\ previousCounts[k] = 0
                                    /\ \A w : AdmittedIn(k, w) \in Nat
    <3>1. currentCounts[k] = 0 /\ previousCounts[k] = 0
      BY DEF Init, NoCounts
    <3>2. admitted[k] \in Seq(Instants)
      BY <2>1 DEF TypeOK
    <3> QED BY <3>1, <3>2, InWindowType DEF AdmittedIn
  <2>3. \A i \in Instances : check[i] = NoCheck
    BY DEF Init
  <2> QED BY <2>1, <2>2, <2>3 DEF EarnedInv
<1>2. ASSUME EarnedInv, [Next]_vars PROVE [Justified]_vars
  <2>1. SUFFICES ASSUME Next, NEW i \in Instances, check[i] # NoCheck,
                        check[i].counted, check'[i] = NoCheck,
                        ~answer'[i].allowed
                 PROVE  AdmittedIn(check[i].key, check[i].at.window)
                          + AdmittedIn(check[i].key, check[i].at.window - 1)
                            >= RequestLimit
    BY <1>2
  <2>2. TypeOK /\ Backed(check[i]) /\ check[i] \in Checks /\ check[i].key \in Keys
    BY <1>2, <2>1, OpenCheck DEF EarnedInv
  <2>3. Deny(i)
    <3>1. /\ check \in [Instances -> Checks \cup {NoCheck}]
          /\ answer \in [Instances -> [allowed: BOOLEAN,
                                       remaining: 0..RequestLimit]]
      BY <2>2 DEF TypeOK
    <3>2. ~Tick
      BY <2>1 DEF Tick
    <3>3. ASSUME NEW j \in Instances, NEW k \in Keys, ReadClock(j, k) PROVE FALSE
      BY <2>1, <3>1, <3>3 DEF ReadClock
    <3>4. ASSUME NEW j \in Instances, Get(j) PROVE FALSE
      <4>1. j # i
        BY <2>1, <3>4 DEF Get
      <4> QED BY <2>1, <3>1, <3>4, <4>1 DEF Get
    <3>5. ASSUME NEW j \in Instances, Allow(j) PROVE FALSE
      <4>1. CASE j = i
        <5>1. answer' = [answer EXCEPT ![i] =
                           [allowed |-> TRUE,
                            remaining |-> AtLeastZero(Remaining(check[i]) - 1)]]
          BY <3>5, <4>1 DEF Allow
        <5> QED BY <2>1, <3>1, <5>1
      <4>2. CASE j # i
        BY <2>1, <3>1, <3>5, <4>2 DEF Allow
      <4> QED BY <4>1, <4>2
    <3>6. ASSUME NEW j \in Instances, Deny(j) PROVE j = i
      BY <2>1, <3>1, <3>6 DEF Deny
    <3> QED BY <2>1, <3>2, <3>3, <3>4, <3>5, <3>6 DEF Next
  <2>4. PICK c \in Checks : c = check[i]
    BY <2>2
  <2>5. RequestLimit <= c.current + c.previous
    BY <2>3, <2>4, OverLimitCounts DEF Deny
  <2>6. c.current <= AdmittedIn(c.key, c.at.window)
        /\ c.previous <= AdmittedIn(c.key, c.at.window - 1)
    BY <2>2, <2>4 DEF Backed
  <2>7. /\ c.current \in Nat /\ c.previous \in Nat
        /\ \A w : AdmittedIn(c.key, w) \in Nat
    BY <2>2, <2>4, InWindowType DEF Checks, TypeOK, AdmittedIn
  <2>8. AdmittedIn(c.key, c.at.window) + AdmittedIn(c.key, c.at.window - 1)
          >= RequestLimit
    BY <2>5, <2>6, <2>7, RequestLimitAssumption
  <2> QED BY <2>4, <2>8
<1>3. Spec => [][Justified]_vars
  BY <1>1, <1>2, EarnedStep, PTL DEF Spec
<1> QED BY <1>3 DEF DeniedOnlyWhenBusy

-----------------------------------------------------------------------------
(***************************************************************************)
(* Limiter: instances that share a counter which keeps every window, whose *)
(* calls may fail, under clocks that agree on nothing.  A check that took  *)
(* a snapshot below the limit holds one place of the window's bound until  *)
(* it is over; the histories stay on both sides of what is recorded.       *)
(***************************************************************************)
HIDE DEF Windows

Holders(k, w) ==
    {i \in Instances : /\ calls[i] # NoCheck /\ calls[i].counted
                       /\ calls[i].key = k /\ calls[i].at.window = w
                       /\ calls[i].current < RequestLimit}

Held(k, w) ==
    counts[k][w] + Cardinality(Holders(k, w))
        <= RequestLimit + Cardinality(Instances) - 1

Accounted(k, w) ==
    /\ granted[k][w] <= counts[k][w]
    /\ counts[k][w] <= granted[k][w] + failed[k][w]

\* A snapshot is never more than what the counter now has.
Past(c) ==
    /\ c.current <= CountIn(c.key, c.at.window)
    /\ c.previous <= CountIn(c.key, c.at.window - 1)

LimiterInv ==
    /\ LimiterTypeOK
    /\ \A k \in Keys, w \in Windows : Held(k, w) /\ Accounted(k, w)
    /\ \A i \in Instances : Fetched(i) => Past(calls[i])

\* A check under way is a record with the snapshot it took.
LEMMA OpenCall ==
    ASSUME LimiterTypeOK, NEW i \in Instances, calls[i] # NoCheck
    PROVE  /\ calls[i] \in Checks
           /\ calls[i].key \in Keys /\ calls[i].at.window \in Windows
           /\ calls[i].current \in Nat /\ calls[i].previous \in Nat
<1>1. calls[i] \in Checks
  BY DEF LimiterTypeOK
<1> QED BY <1>1 DEF Checks, Instants

\* One request more in the window of check c, and in no other.
LEMMA OneMoreCounts ==
    ASSUME NEW f \in [Keys -> [Windows -> Nat]], NEW c \in Checks
    PROVE  /\ OneMore(f, c) \in [Keys -> [Windows -> Nat]]
           /\ \A k \in Keys, w \in Windows :
                 OneMore(f, c)[k][w] = IF k = c.key /\ w = c.at.window
                                       THEN f[k][w] + 1 ELSE f[k][w]
<1>1. PICK q \in Keys : q = c.key
  BY DEF Checks
<1>2. PICK u \in Windows : u = c.at.window
  BY DEF Checks, Instants
<1> DEFINE row == [f[q] EXCEPT ![u] = @ + 1]
<1>3. f[q] \in [Windows -> Nat] /\ f[q][u] + 1 \in Nat
  OBVIOUS
<1>4. /\ row \in [Windows -> Nat]
      /\ \A w \in Windows : row[w] = IF w = u THEN f[q][w] + 1 ELSE f[q][w]
  BY <1>3
<1>5. OneMore(f, c) = [f EXCEPT ![q] = row]
  BY <1>1, <1>2 DEF OneMore
<1> HIDE DEF row
<1>6. OneMore(f, c) \in [Keys -> [Windows -> Nat]]
  BY <1>4, <1>5
<1>7. \A k \in Keys : OneMore(f, c)[k] = IF k = q THEN row ELSE f[k]
  BY <1>5
<1> QED BY <1>1, <1>2, <1>4, <1>6, <1>7

\* How many checks may hold a place.
LEMMA HoldersSize ==
    ASSUME NEW P \in SUBSET Instances
    PROVE  /\ Cardinality(Instances) \in Nat /\ Cardinality(Instances) >= 1
           /\ IsFiniteSet(P) /\ Cardinality(P) \in Nat
           /\ Cardinality(P) <= Cardinality(Instances)
<1>1. IsFiniteSet(Instances) /\ Instances # {}
  BY InstancesAssumption
<1>2. Cardinality(Instances) \in Nat /\ Cardinality(Instances) # 0
  BY <1>1, FS_CardinalityType, FS_EmptySet
<1>3. IsFiniteSet(P) /\ Cardinality(P) <= Cardinality(Instances)
  BY <1>1, FS_Subset
<1>4. Cardinality(P) \in Nat
  BY <1>3, FS_CardinalityType
<1> QED BY <1>2, <1>3, <1>4

\* The counter never forgets: snapshots that stay are still behind it.
LEMMA StillPast ==
    ASSUME LimiterInv, LimiterTypeOK', NEW j \in Instances,
           calls'[j] = calls[j], Fetched(j),
           \A k \in Keys, w \in Windows : counts[k][w] <= counts'[k][w]
    PROVE  Past(calls[j])'
<1>1. PICK c \in Checks : c = calls[j] /\ c.key \in Keys
  BY OpenCall DEF LimiterInv, Fetched
<1>2. c.current \in Nat /\ c.previous \in Nat
  BY DEF Checks
<1>3. \A w : /\ CountIn(c.key, w) \in Nat /\ CountIn(c.key, w)' \in Nat
             /\ CountIn(c.key, w) <= CountIn(c.key, w)'
  <2>1. /\ counts \in [Keys -> [Windows -> Nat]]
        /\ counts' \in [Keys -> [Windows -> Nat]]
    BY DEF LimiterInv, LimiterTypeOK
  <2>2. /\ counts[c.key] \in [Windows -> Nat] /\ counts'[c.key] \in [Windows -> Nat]
        /\ \A w \in Windows : counts[c.key][w] <= counts'[c.key][w]
    BY <1>1, <2>1
  <2> QED BY <2>2 DEF CountIn
<1>4. /\ c.current <= CountIn(c.key, c.at.window)
      /\ c.previous <= CountIn(c.key, c.at.window - 1)
  BY <1>1 DEF LimiterInv, Past
<1>5. /\ c.current <= CountIn(c.key, c.at.window)'
      /\ c.previous <= CountIn(c.key, c.at.window - 1)'
  BY <1>2, <1>3, <1>4
<1>6. calls'[j] = c
  BY <1>1
<1> QED BY <1>5, <1>6 DEF Past, CountIn

\* Every step keeps the variables in their types.
LEMMA LimiterTypeStep ==
    ASSUME LimiterTypeOK, [LimiterNext]_limiterVars PROVE LimiterTypeOK'
<1>1. /\ calls \in [Instances -> Checks \cup {NoCheck}]
      /\ counts \in [Keys -> [Windows -> Nat]]
      /\ granted \in [Keys -> [Windows -> Nat]]
      /\ failed \in [Keys -> [Windows -> Nat]]
  BY DEF LimiterTypeOK
<1>2. CASE UNCHANGED limiterVars
  BY <1>1, <1>2 DEF limiterVars, LimiterTypeOK
<1>3. ASSUME NEW i \in Instances, NEW k \in Keys, Lock(i, k) PROVE LimiterTypeOK'
  <2>1. PICK now \in Instants :
          calls' = [calls EXCEPT ![i] = [counted |-> FALSE, key |-> k, at |-> now,
                                         current |-> 0, previous |-> 0]]
    BY <1>3 DEF Lock
  <2>2. [counted |-> FALSE, key |-> k, at |-> now, current |-> 0, previous |-> 0]
           \in Checks
    BY DEF Checks
  <2>3. calls' \in [Instances -> Checks \cup {NoCheck}]
    BY <1>1, <2>1, <2>2
  <2> QED BY <1>1, <1>3, <2>3 DEF Lock, LimiterTypeOK
<1>4. ASSUME NEW i \in Instances, Fetch(i) PROVE LimiterTypeOK'
  <2>1. PICK c \in Checks : c = calls[i] /\ c.key \in Keys
    BY <1>4, OpenCall DEF Fetch
  <2>2. \A w : CountIn(c.key, w) \in Nat
    BY <1>1, <2>1 DEF CountIn
  <2> DEFINE n == CountIn(c.key, c.at.window)
             p == CountIn(c.key, c.at.window - 1)
             d == [c EXCEPT !.counted = TRUE, !.current = n, !.previous = p]
  <2>3. calls' = [calls EXCEPT ![i] = d]
    BY <1>1, <1>4, <2>1 DEF Fetch
  <2>4. n \in Nat /\ p \in Nat
    BY <2>2
  <2> HIDE DEF n, p
  <2>5. d \in Checks
    BY <2>4 DEF Checks
  <2> HIDE DEF d
  <2>6. calls' \in [Instances -> Checks \cup {NoCheck}]
    BY <1>1, <2>3, <2>5
  <2> QED BY <1>1, <1>4, <2>6 DEF Fetch, LimiterTypeOK
<1>5. ASSUME NEW i \in Instances, FetchFails(i) \/ Refuse(i) PROVE LimiterTypeOK'
  <2>1. /\ calls' = [calls EXCEPT ![i] = NoCheck]
        /\ UNCHANGED <<counts, granted, failed>>
    BY <1>5 DEF FetchFails, Refuse
  <2>2. calls' \in [Instances -> Checks \cup {NoCheck}]
    BY <1>1, <2>1
  <2> QED BY <1>1, <2>1, <2>2 DEF LimiterTypeOK
<1>6. ASSUME NEW i \in Instances, Record(i) \/ RecordFails(i) PROVE LimiterTypeOK'
  <2>1. PICK c \in Checks : c = calls[i]
    BY <1>6, OpenCall DEF Record, RecordFails, Fetched
  <2>2. /\ calls' = [calls EXCEPT ![i] = NoCheck]
        /\ counts' \in {counts, OneMore(counts, c)}
        /\ granted' \in {granted, OneMore(granted, c)}
        /\ failed' \in {failed, OneMore(failed, c)}
    BY <1>6, <2>1 DEF Record, RecordFails
  <2>3. /\ OneMore(counts, c) \in [Keys -> [Windows -> Nat]]
        /\ OneMore(granted, c) \in [Keys -> [Windows -> Nat]]
        /\ OneMore(failed, c) \in [Keys -> [Windows -> Nat]]
    BY <1>1, OneMoreCounts
  <2>4. calls' \in [Instances -> Checks \cup {NoCheck}]
    BY <1>1, <2>2
  <2> QED BY <1>1, <2>2, <2>3, <2>4 DEF LimiterTypeOK
<1> QED BY <1>2, <1>3, <1>4, <1>5, <1>6 DEF LimiterNext

\* A check that is not yet counted, or is over, holds no place; one that is
\* recorded gives the place it held to the request.
LEMMA ChargeKeeps ==
    ASSUME LimiterInv, LimiterTypeOK', NEW i \in Instances,
           \A j \in Instances \ {i} : calls'[j] = calls[j],
           ~Fetched(i)',
           \/ counts' = counts
           \/ /\ Fetched(i) /\ calls[i].current < RequestLimit
              /\ counts' = OneMore(counts, calls[i]),
           \A k \in Keys, w \in Windows : Accounted(k, w)'
    PROVE  LimiterInv'
<1>1. /\ counts \in [Keys -> [Windows -> Nat]]
      /\ counts' \in [Keys -> [Windows -> Nat]]
  BY DEF LimiterInv, LimiterTypeOK
<1>2. ASSUME NEW k \in Keys, NEW w \in Windows
      PROVE  /\ counts[k][w] \in Nat /\ counts'[k][w] \in Nat
             /\ counts[k][w] <= counts'[k][w]
             /\ \/ counts'[k][w] = counts[k][w]
                \/ /\ counts'[k][w] = counts[k][w] + 1
                   /\ i \in Holders(k, w)
  <2>1. counts[k] \in [Windows -> Nat] /\ counts'[k] \in [Windows -> Nat]
    BY <1>1
  <2>2. CASE counts' = counts
    BY <2>1, <2>2
  <2>3. CASE /\ Fetched(i) /\ calls[i].current < RequestLimit
             /\ counts' = OneMore(counts, calls[i])
    <3>1. PICK c \in Checks : c = calls[i]
      BY <2>3, OpenCall DEF LimiterInv, Fetched
    <3>2. counts'[k][w] = IF k = c.key /\ w = c.at.window
                          THEN counts[k][w] + 1 ELSE counts[k][w]
      BY <1>1, <2>3, <3>1, OneMoreCounts
    <3>3. k = c.key /\ w = c.at.window => i \in Holders(k, w)
      BY <2>3, <3>1 DEF Holders, Fetched
    <3> QED BY <2>1, <3>2, <3>3
  <2> QED BY <2>2, <2>3
<1>3. ASSUME NEW k \in Keys, NEW w \in Windows PROVE Held(k, w)'
  <2>1. Holders(k, w)' = Holders(k, w) \ {i}
    BY DEF Holders, Fetched
  <2>2. Holders(k, w) \in SUBSET Instances
    BY DEF Holders
  <2>3. /\ Cardinality(Instances) \in Nat
        /\ IsFiniteSet(Holders(k, w)) /\ Cardinality(Holders(k, w)) \in Nat
    BY <2>2, HoldersSize
  <2>4. Cardinality(Holders(k, w)') = IF i \in Holders(k, w)
                                      THEN Cardinality(Holders(k, w)) - 1
                                      ELSE Cardinality(Holders(k, w))
    BY <2>1, <2>3, FS_RemoveElement
  <2>5. Held(k, w)
    BY DEF LimiterInv
  <2>6. counts'[k][w] + Cardinality(Holders(k, w)')
          <= counts[k][w] + Cardinality(Holders(k, w))
    BY <1>2, <2>3, <2>4
  <2>7. Cardinality(Holders(k, w)') \in Int
    BY <2>3, <2>4
  <2> QED BY <1>2, <2>3, <2>5, <2>6, <2>7, RequestLimitAssumption DEF Held
<1>4. ASSUME NEW j \in Instances, Fetched(j)' PROVE Past(calls[j])'
  <2>1. j # i /\ calls'[j] = calls[j]
    BY <1>4
  <2>2. Fetched(j)
    BY <1>4, <2>1 DEF Fetched
  <2> QED BY <1>2, <2>1, <2>2, StillPast
<1> QED BY <1>3, <1>4 DEF LimiterInv

\* A snapshot below the limit takes a place that is free.
LEMMA FetchKeeps ==
    ASSUME LimiterInv, LimiterTypeOK', NEW i \in Instances, Fetch(i)
    PROVE  LimiterInv'
<1>1. PICK c \in Checks : c = calls[i] /\ c.key \in Keys /\ c.at.window \in Windows
  BY OpenCall DEF LimiterInv, Fetch
<1>2. /\ calls[i] # NoCheck /\ ~calls[i].counted
      /\ UNCHANGED <<counts, granted, failed>>
      /\ \A j \in Instances \ {i} : calls'[j] = calls[j]
      /\ calls'[i] = [c EXCEPT !.counted = TRUE,
                               !.current = CountIn(c.key, c.at.window),
                               !.previous = CountIn(c.key, c.at.window - 1)]
  BY <1>1 DEF Fetch, LimiterInv, LimiterTypeOK
<1>3. /\ calls'[i].key = c.key /\ calls'[i].at = c.at
      /\ calls'[i].current = CountIn(c.key, c.at.window)
      /\ calls'[i].previous = CountIn(c.key, c.at.window - 1)
  BY <1>2 DEF Checks
<1>4. \A k \in Keys, w \in Windows : counts[k][w] \in Nat
  BY DEF LimiterInv, LimiterTypeOK
<1>5. ASSUME NEW k \in Keys, NEW w \in Windows PROVE Held(k, w)'
  <2>1. /\ Holders(k, w) \in SUBSET Instances
        /\ Holders(k, w)' \in SUBSET Instances
        /\ i \notin Holders(k, w)
    BY <1>2 DEF Holders
  <2>2. /\ Cardinality(Instances) \in Nat /\ Cardinality(Instances) >= 1
        /\ Cardinality(Holders(k, w)) \in Nat
        /\ Cardinality(Holders(k, w)') \in Nat
        /\ Cardinality(Holders(k, w)') <= Cardinality(Instances)
    BY <2>1, HoldersSize
  <2>3. CASE i \in Holders(k, w)'
    <3>1. k = c.key /\ w = c.at.window /\ calls'[i].current < RequestLimit
      BY <1>3, <2>3 DEF Holders
    <3>2. counts[k][w] < RequestLimit
      BY <1>3, <3>1 DEF CountIn
    <3> QED BY <1>2, <1>4, <2>2, <3>2, RequestLimitAssumption DEF Held
  <2>4. CASE i \notin Holders(k, w)'
    <3>1. Holders(k, w)' = Holders(k, w)
      BY <1>2, <2>1, <2>4 DEF Holders
    <3> QED BY <1>2, <3>1 DEF Held, LimiterInv
  <2> QED BY <2>3, <2>4
<1>6. ASSUME NEW k \in Keys, NEW w \in Windows PROVE Accounted(k, w)'
  BY <1>2 DEF Accounted, LimiterInv
<1>7. ASSUME NEW j \in Instances, Fetched(j)' PROVE Past(calls[j])'
  <2>1. CASE j = i
    <3>1. /\ CountIn(c.key, c.at.window) \in Nat
          /\ CountIn(c.key, c.at.window - 1) \in Nat
      BY <1>1, <1>4 DEF CountIn
    <3>2. CountIn(c.key, c.at.window)' = CountIn(c.key, c.at.window)
          /\ CountIn(c.key, c.at.window - 1)' = CountIn(c.key, c.at.window - 1)
      BY <1>2 DEF CountIn
    <3> QED BY <1>3, <2>1, <3>1, <3>2 DEF Past, CountIn
  <2>2. CASE j # i
    <3>1. calls'[j] = calls[j] /\ Fetched(j)
      BY <1>2, <1>7, <2>2 DEF Fetched
    <3>2. \A k \in Keys, w \in Windows : counts[k][w] <= counts'[k][w]
      BY <1>2, <1>4
    <3> QED BY <3>1, <3>2, StillPast
  <2> QED BY <2>1, <2>2
<1> QED BY <1>5, <1>6, <1>7 DEF LimiterInv

\* Every step of Limiter keeps the invariant.
LEMMA LimiterStep ==
    ASSUME LimiterInv, [LimiterNext]_limiterVars PROVE LimiterInv'
<1>1. /\ LimiterTypeOK /\ LimiterTypeOK'
      /\ calls \in [Instances -> Checks \cup {NoCheck}]
      /\ \A k \in Keys, w \in Windows :
            /\ Accounted(k, w)
            /\ counts[k][w] \in Nat /\ granted[k][w] \in Nat /\ failed[k][w] \in Nat
  BY LimiterTypeStep DEF LimiterInv, LimiterTypeOK
<1>2. CASE UNCHANGED limiterVars
  <2>1. calls' = calls /\ counts' = counts /\ granted' = granted
        /\ failed' = failed
    BY <1>2 DEF limiterVars
  <2>2. \A k, w : Holders(k, w)' = Holders(k, w)
    BY <2>1 DEF Holders
  <2>3. \A k \in Keys, w \in Windows : (Held(k, w) /\ Accounted(k, w))'
    BY <2>1, <2>2 DEF LimiterInv, Held, Accounted
  <2>4. \A i \in Instances : (Fetched(i) => Past(calls[i]))'
    BY <2>1 DEF LimiterInv, Fetched, Past, CountIn
  <2> QED BY <1>1, <2>3, <2>4 DEF LimiterInv
<1>3. ASSUME UNCHANGED <<counts, granted, failed>>
      PROVE  \A k \in Keys, w \in Windows : Accounted(k, w)'
  BY <1>1, <1>3 DEF Accounted
<1>4. ASSUME NEW i \in Instances, NEW k \in Keys, Lock(i, k) PROVE LimiterInv'
  <2>1. /\ calls'[i].counted = FALSE
        /\ \A j \in Instances \ {i} : calls'[j] = calls[j]
        /\ UNCHANGED <<counts, granted, failed>>
    BY <1>1, <1>4 DEF Lock
  <2>2. ~Fetched(i)'
    BY <2>1 DEF Fetched
  <2> QED BY <1>1, <1>3, <2>1, <2>2, ChargeKeeps
<1>5. ASSUME NEW i \in Instances, Fetch(i) PROVE LimiterInv'
  BY <1>1, <1>5, FetchKeeps
<1>6. ASSUME NEW i \in Instances, FetchFails(i) \/ Refuse(i) PROVE LimiterInv'
  <2>1. /\ calls'[i] = NoCheck
        /\ \A j \in Instances \ {i} : calls'[j] = calls[j]
        /\ UNCHANGED <<counts, granted, failed>>
    BY <1>1, <1>6 DEF FetchFails, Refuse
  <2>2. ~Fetched(i)'
    BY <2>1 DEF Fetched
  <2> QED BY <1>1, <1>3, <2>1, <2>2, ChargeKeeps
<1>7. ASSUME NEW i \in Instances, Record(i) \/ RecordFails(i) PROVE LimiterInv'
  <2>1. PICK c \in Checks : c = calls[i]
    BY <1>1, <1>7, OpenCall DEF Record, RecordFails, Fetched
  <2>2. /\ Fetched(i) /\ WithinLimit(c)
        /\ calls'[i] = NoCheck
        /\ \A j \in Instances \ {i} : calls'[j] = calls[j]
        /\ \/ /\ counts' = OneMore(counts, c) /\ granted' = OneMore(granted, c)
              /\ failed' = failed
           \/ /\ counts' \in {counts, OneMore(counts, c)} /\ granted' = granted
              /\ failed' = OneMore(failed, c)
    BY <1>1, <1>7, <2>1 DEF Record, RecordFails
  <2>3. ~Fetched(i)'
    BY <2>2 DEF Fetched
  <2>4. calls[i].current < RequestLimit
    BY <2>1, <2>2, SnapshotBelowLimit
  <2>5. ASSUME NEW k \in Keys, NEW w \in Windows PROVE Accounted(k, w)'
    <3> DEFINE More(n) == IF k = c.key /\ w = c.at.window THEN n + 1 ELSE n
    <3>1. /\ OneMore(counts, c)[k][w] = More(counts[k][w])
          /\ OneMore(granted, c)[k][w] = More(granted[k][w])
          /\ OneMore(failed, c)[k][w] = More(failed[k][w])
      <4>1. /\ counts \in [Keys -> [Windows -> Nat]]
            /\ granted \in [Keys -> [Windows -> Nat]]
            /\ failed \in [Keys -> [Windows -> Nat]]
        BY <1>1 DEF LimiterTypeOK
      <4>2. ASSUME NEW f \in [Keys -> [Windows -> Nat]]
            PROVE  OneMore(f, c)[k][w] = More(f[k][w])
        BY OneMoreCounts
      <4> HIDE DEF More
      <4> QED BY <4>1, <4>2
    <3>2. /\ counts[k][w] \in Nat /\ granted[k][w] \in Nat /\ failed[k][w] \in Nat
          /\ granted[k][w] <= counts[k][w]
          /\ counts[k][w] <= granted[k][w] + failed[k][w]
      BY <1>1 DEF Accounted
    <3>3. \/ /\ counts'[k][w] = More(counts[k][w])
             /\ granted'[k][w] = More(granted[k][w])
             /\ failed'[k][w] = failed[k][w]
          \/ /\ counts'[k][w] \in {counts[k][w], More(counts[k][w])}
             /\ granted'[k][w] = granted[k][w]
             /\ failed'[k][w] = More(failed[k][w])
      BY <2>2, <3>1
    <3> QED BY <3>2, <3>3 DEF Accounted
  <2> QED BY <1>1, <2>1, <2>2, <2>3, <2>4, <2>5, ChargeKeeps
<1> QED BY <1>2, <1>4, <1>5, <1>6, <1>7 DEF LimiterNext

\* Limiter's inductive invariant holds in every reachable state.
THEOREM LimiterIsInvariant == LimiterSpec => []LimiterInv
<1>1. LimiterInit => LimiterInv
  <2> SUFFICES ASSUME LimiterInit PROVE LimiterInv
    OBVIOUS
  <2>1. None \in [Keys -> [Windows -> Nat]]
        /\ \A k \in Keys, w \in Windows : None[k][w] = 0
    BY DEF None
  <2>2. LimiterTypeOK
    BY <2>1 DEF LimiterInit, LimiterTypeOK
  <2>3. \A i \in Instances : calls[i] = NoCheck
    BY DEF LimiterInit
  <2>4. ASSUME NEW k \in Keys, NEW w \in Windows PROVE Held(k, w) /\ Accounted(k, w)
    <3>1. Holders(k, w) = {}
      BY <2>3 DEF Holders
    <3>2. Cardinality(Holders(k, w)) = 0
      BY <3>1, FS_EmptySet
    <3>3. Cardinality(Instances) \in Nat /\ Cardinality(Instances) >= 1
      BY HoldersSize
    <3>4. counts[k][w] = 0 /\ granted[k][w] = 0 /\ failed[k][w] = 0
      BY <2>1 DEF LimiterInit
    <3> QED BY <3>2, <3>3, <3>4, RequestLimitAssumption DEF Held, Accounted
  <2> QED BY <2>2, <2>3, <2>4 DEF LimiterInv, Fetched
<1> QED BY <1>1, LimiterStep, PTL DEF LimiterSpec

\* However many instances share the counter, wherever their clocks are and
\* whichever calls fail, a window lets through RequestLimit requests of a key
\* and at most one more for every instance beyond the first.
THEOREM GrantsAreBounded == LimiterSpec => []GrantsBounded
<1>1. LimiterInv => GrantsBounded
  <2> SUFFICES ASSUME LimiterInv, NEW k \in Keys, NEW w \in Windows
               PROVE  /\ granted[k][w] <= counts[k][w]
                      /\ counts[k][w] <= RequestLimit + Cardinality(Instances) - 1
    BY DEF GrantsBounded
  <2>1. Holders(k, w) \in SUBSET Instances
    BY DEF Holders
  <2>2. Cardinality(Instances) \in Nat /\ Cardinality(Holders(k, w)) \in Nat
    BY <2>1, HoldersSize
  <2>3. Held(k, w) /\ Accounted(k, w) /\ counts[k][w] \in Nat
    BY DEF LimiterInv, LimiterTypeOK
  <2> QED BY <2>2, <2>3, RequestLimitAssumption DEF Held, Accounted
<1> QED BY <1>1, LimiterIsInvariant, PTL

\* Every refusal, by any instance, is paid for by requests of the same key
\* that were let through or were answered 503 when they were recorded.
THEOREM RefusalsArePaid == LimiterSpec => RefusedOnlyIfSpent
<1> DEFINE Paid ==
      \A i \in Instances :
          LET c == calls[i]
          IN  c # NoCheck /\ c.counted /\ calls'[i] = NoCheck
              /\ UNCHANGED <<granted, failed>>
                => Spent(c.key, c.at.window) + Spent(c.key, c.at.window - 1)
                     >= RequestLimit
<1>1. ASSUME LimiterInv, [LimiterNext]_limiterVars PROVE [Paid]_limiterVars
  <2> SUFFICES ASSUME LimiterNext, NEW i \in Instances, calls[i] # NoCheck,
                      calls[i].counted, calls'[i] = NoCheck,
                      UNCHANGED <<granted, failed>>
               PROVE  Spent(calls[i].key, calls[i].at.window)
                        + Spent(calls[i].key, calls[i].at.window - 1)
                          >= RequestLimit
    BY <1>1
  <2>1. /\ LimiterTypeOK
        /\ calls \in [Instances -> Checks \cup {NoCheck}]
        /\ granted \in [Keys -> [Windows -> Nat]]
        /\ failed \in [Keys -> [Windows -> Nat]]
    BY <1>1 DEF LimiterInv, LimiterTypeOK
  <2>2. Refuse(i)
    <3>1. ASSUME NEW j \in Instances, NEW k \in Keys, Lock(j, k) PROVE FALSE
      BY <2>1, <3>1 DEF Lock
    <3>2. ASSUME NEW j \in Instances, Fetch(j) \/ FetchFails(j) PROVE FALSE
      <4>1. j # i
        BY <3>2 DEF Fetch, FetchFails
      <4> QED BY <2>1, <3>2, <4>1 DEF Fetch, FetchFails
    <3>3. ASSUME NEW j \in Instances, Record(j) \/ RecordFails(j) PROVE FALSE
      <4>1. PICK c \in Checks : c = calls[j] /\ c.key \in Keys
                                /\ c.at.window \in Windows
        BY <2>1, <3>3, OpenCall DEF Record, RecordFails, Fetched
      <4>2. \/ granted = OneMore(granted, c)
            \/ failed = OneMore(failed, c)
        BY <3>3, <4>1 DEF Record, RecordFails
      <4>3. /\ granted[c.key][c.at.window] \in Nat
            /\ failed[c.key][c.at.window] \in Nat
        BY <2>1, <4>1
      <4>4. /\ OneMore(granted, c)[c.key][c.at.window]
                 = granted[c.key][c.at.window] + 1
            /\ OneMore(failed, c)[c.key][c.at.window]
                 = failed[c.key][c.at.window] + 1
        BY <2>1, <4>1, OneMoreCounts
      <4> QED BY <4>2, <4>3, <4>4
    <3>4. ASSUME NEW j \in Instances, Refuse(j) PROVE j = i
      BY <2>1, <3>4 DEF Refuse
    <3> QED BY <3>1, <3>2, <3>3, <3>4 DEF LimiterNext
  <2>3. PICK c \in Checks : c = calls[i] /\ c.key \in Keys
    BY <2>1, OpenCall
  <2>4. RequestLimit <= c.current + c.previous
    BY <2>2, <2>3, OverLimitCounts DEF Refuse
  <2>5. /\ c.current <= CountIn(c.key, c.at.window)
        /\ c.previous <= CountIn(c.key, c.at.window - 1)
    BY <1>1, <2>3 DEF LimiterInv, Past, Fetched
  <2>6. \A w : /\ CountIn(c.key, w) \in Nat /\ Spent(c.key, w) \in Nat
               /\ CountIn(c.key, w) <= Spent(c.key, w)
    <3>1. \A w \in Windows :
             /\ Accounted(c.key, w)
             /\ counts[c.key][w] \in Nat /\ granted[c.key][w] \in Nat
             /\ failed[c.key][w] \in Nat
      BY <1>1, <2>3 DEF LimiterInv, LimiterTypeOK
    <3> QED BY <3>1 DEF CountIn, Spent, Accounted
  <2>7. c.current \in Nat /\ c.previous \in Nat
    BY DEF Checks
  <2>8. Spent(c.key, c.at.window) + Spent(c.key, c.at.window - 1) >= RequestLimit
    BY <2>4, <2>5, <2>6, <2>7, RequestLimitAssumption
  <2> QED BY <2>3, <2>8
<1>2. LimiterSpec => [][Paid]_limiterVars
  BY <1>1, LimiterIsInvariant, PTL DEF LimiterSpec
<1> QED BY <1>2 DEF RefusedOnlyIfSpent

-----------------------------------------------------------------------------
(***************************************************************************)
(* RateLimit over the in-memory counter, with one instance, implements     *)
(* Limiter: a check gets from the two maps, which evict may just have      *)
(* rolled or cleared, what a counter that keeps every window would say.    *)
(***************************************************************************)
\* What Matches says of the counts of a log, as tallies.
LEMMA MatchesTally ==
    ASSUME NEW s \in Seq(Instants), NEW t \in Int, NEW c \in Nat, NEW p \in Nat,
           Matches(s, t, c, p)
    PROVE  InWindow(s, t) = c /\ InWindow(s, t - 1) = p
<1> DEFINE n == Len(s)
<1>1. n \in Nat /\ DOMAIN s = 1..n /\ c + p <= n
  BY LenProperties DEF Matches
<1>2. \A m \in 1..n : /\ m > n - c => s[m].window = t
                      /\ m \in (n - c - p + 1)..(n - c) => s[m].window = t - 1
                      /\ m <= n - c - p => s[m].window < t - 1
  BY DEF Matches
<1>3. \A m \in 1..n : s[m].window \in Int
  BY InstantsInLog, MaxWindowAssumption
<1> HIDE DEF n
<1>4. {m \in DOMAIN s : s[m].window = t} = (n - c + 1)..n
  BY <1>1, <1>2, <1>3
<1>5. {m \in DOMAIN s : s[m].window = t - 1} = (n - c - p + 1)..(n - c)
  BY <1>1, <1>2, <1>3
<1>6. Cardinality((n - c + 1)..n) = c
  BY <1>1, FS_Interval
<1>7. Cardinality((n - c - p + 1)..(n - c)) = p
  BY <1>1, FS_Interval
<1> QED BY <1>4, <1>5, <1>6, <1>7 DEF InWindow

\* The two modules compute a check the same way.
LEMMA SameWindow ==
    /\ Ideal!Windows = Windows /\ Ideal!Instants = Instants
    /\ Ideal!NoCheck = NoCheck /\ Ideal!None = [k \in Keys |-> [w \in Windows |-> 0]]
    /\ \A c : /\ Ideal!OverLimit(c) <=> OverLimit(c)
              /\ Ideal!WithinLimit(c) <=> WithinLimit(c)
<1>1. Ideal!Windows = Windows
  BY DEF Ideal!Windows, Windows
<1>2. Ideal!Instants = Instants
  BY <1>1 DEF Ideal!Instants, Instants
<1>3. Ideal!None = [k \in Keys |-> [w \in Windows |-> 0]]
  BY <1>1 DEF Ideal!None
<1>4. Ideal!NoCheck = NoCheck
  BY DEF Ideal!NoCheck, NoCheck
<1>5. ASSUME NEW c PROVE /\ Ideal!OverLimit(c) <=> OverLimit(c)
                         /\ Ideal!WithinLimit(c) <=> WithinLimit(c)
  <2>1. Ideal!ScaledRate(c) = ScaledRate(c)
    BY DEF Ideal!ScaledRate, ScaledRate
  <2> QED BY <2>1 DEF Ideal!OverLimit, OverLimit, Ideal!WithinLimit, WithinLimit
<1> QED BY <1>1, <1>2, <1>3, <1>4, <1>5

\* The counter's answer is the tally of the log, for every window of a check
\* that is under way.
LEMMA CountsAreTallies ==
    ASSUME IInv, NEW u \in Windows, trackedWindow <= u, NEW k \in Keys
    PROVE  /\ EvictedCurrent(u)[k] = Ideal!CountIn(k, u)
           /\ EvictedPrevious(u)[k] = Ideal!CountIn(k, u - 1)
<1>1. u \in Nat /\ admitted[k] \in Seq(Instants)
  BY MaxWindowAssumption DEF Windows, IInv, TypeOK
<1>2. /\ EvictedCurrent(u)[k] \in Nat /\ EvictedPrevious(u)[k] \in Nat
      /\ Matches(admitted[k], u, EvictedCurrent(u)[k], EvictedPrevious(u)[k])
  BY <1>1, EvictFacts
<1>3. /\ AdmittedIn(k, u) = EvictedCurrent(u)[k]
      /\ AdmittedIn(k, u - 1) = EvictedPrevious(u)[k]
  BY <1>1, <1>2, MatchesTally DEF AdmittedIn
<1>4. ASSUME NEW w, w \notin Windows PROVE AdmittedIn(k, w) = 0
  <2>1. \A m \in DOMAIN admitted[k] : admitted[k][m] \in Instants
    BY <1>1, ElementOfSeq, LenProperties
  <2>2. {m \in DOMAIN admitted[k] : admitted[k][m].window = w} = {}
    BY <1>4, <2>1 DEF Instants
  <2> QED BY <2>2, FS_EmptySet DEF AdmittedIn, InWindow
<1>5. ASSUME NEW w PROVE Ideal!CountIn(k, w) = AdmittedIn(k, w)
  <2>1. CASE w \in Windows
    BY <2>1, SameWindow DEF Ideal!CountIn, Tally
  <2>2. CASE w \notin Windows
    BY <1>4, <2>2, SameWindow DEF Ideal!CountIn
  <2> QED BY <2>1, <2>2
<1> QED BY <1>3, <1>5

\* The tallies stay when the logs do.
LEMMA TallyStays == UNCHANGED admitted => UNCHANGED Tally
BY DEF Tally, AdmittedIn

\* A request that is allowed is one more in the tally of its window.
LEMMA TallyRecords ==
    ASSUME TypeOK, NEW c \in Checks,
           admitted' = [admitted EXCEPT ![c.key] = Append(@, c.at)]
    PROVE  Tally' = Ideal!OneMore(Tally, c)
<1>1. PICK q \in Keys : q = c.key
  BY DEF Checks
<1>2. PICK x \in Instants : x = c.at /\ x.window \in Windows
  BY DEF Checks, Instants
<1>3. /\ admitted \in [Keys -> Seq(Instants)]
      /\ admitted' = [admitted EXCEPT ![q] = Append(@, x)]
  BY <1>1, <1>2 DEF TypeOK
<1>4. ASSUME NEW k \in Keys, NEW w \in Windows
      PROVE  /\ AdmittedIn(k, w)' = IF k = q /\ w = x.window
                                    THEN AdmittedIn(k, w) + 1 ELSE AdmittedIn(k, w)
  <2>1. CASE k = q
    <3>1. PICK s \in Seq(Instants) : s = admitted[q]
      BY <1>3
    <3>2. InWindow(Append(s, x), w)
            = IF x.window = w THEN InWindow(s, w) + 1 ELSE InWindow(s, w)
      BY InWindowAppend
    <3>3. admitted'[k] = Append(s, x) /\ admitted[k] = s
      BY <1>3, <2>1, <3>1
    <3> QED BY <2>1, <3>2, <3>3 DEF AdmittedIn
  <2>2. CASE k # q
    BY <1>3, <2>2 DEF AdmittedIn
  <2> QED BY <2>1, <2>2
<1> DEFINE row == [Tally[q] EXCEPT ![x.window] = @ + 1]
<1>5. Tally[q] = [w \in Windows |-> AdmittedIn(q, w)]
  BY DEF Tally
<1>6. row = [w \in Windows |-> IF w = x.window THEN AdmittedIn(q, w) + 1
                               ELSE AdmittedIn(q, w)]
  BY <1>2, <1>5
<1>7. row = [w \in Windows |-> AdmittedIn(q, w)']
  BY <1>4, <1>6
<1> HIDE DEF row
<1>8. Tally' = [Tally EXCEPT ![q] = row]
  <2>1. Tally' = [k \in Keys |-> [w \in Windows |-> AdmittedIn(k, w)']]
    BY DEF Tally
  <2>2. ASSUME NEW k \in Keys, k # q
        PROVE  [w \in Windows |-> AdmittedIn(k, w)'] = Tally[k]
    BY <1>4, <2>2 DEF Tally
  <2>3. [Tally EXCEPT ![q] = row] = [k \in Keys |-> IF k = q THEN row ELSE Tally[k]]
    BY DEF Tally
  <2> QED BY <1>7, <2>1, <2>2, <2>3
<1> QED BY <1>1, <1>2, <1>8 DEF Ideal!OneMore, row

\* Every step of RateLimit is a step of Limiter, or nothing that it sees.
LEMMA LimiterSimulates ==
    ASSUME SingleInstance, IInv, [Next]_vars
    PROVE  [Ideal!LimiterNext]_(Ideal!limiterVars)
<1>1. /\ TypeOK /\ clock \in Instants
      /\ check \in [Instances -> Checks \cup {NoCheck}]
  BY DEF IInv, TypeOK
<1>2. CASE Tick \/ UNCHANGED vars
  BY <1>2, TallyStays DEF Tick, vars, Ideal!limiterVars
<1>3. ASSUME NEW i \in Instances, NEW k \in Keys, ReadClock(i, k)
      PROVE  Ideal!Lock(i, k)
  BY <1>1, <1>3, TallyStays, SameWindow DEF ReadClock, Ideal!Lock
<1>4. ASSUME NEW i \in Instances, Get(i) PROVE Ideal!Fetch(i)
  <2>1. PICK u \in Windows : u = check[i].at.window /\ trackedWindow <= u
    BY <1>1, <1>4, OpenCheck DEF Get, IInv, FreshCheck, Windows
  <2>2. PICK q \in Keys : q = check[i].key
    BY <1>1, <1>4, OpenCheck DEF Get
  <2>3. /\ EvictedCurrent(u)[q] = Ideal!CountIn(q, u)
        /\ EvictedPrevious(u)[q] = Ideal!CountIn(q, u - 1)
    BY <2>1, <2>2, CountsAreTallies
  <2>4. /\ check[i] # NoCheck /\ ~check[i].counted /\ UNCHANGED Tally
        /\ check' = [check EXCEPT ![i].counted = TRUE,
                                  ![i].current = EvictedCurrent(u)[q],
                                  ![i].previous = EvictedPrevious(u)[q]]
    BY <1>4, <2>1, <2>2, TallyStays DEF Get
  <2>5. check' = [check EXCEPT ![i].counted = TRUE,
                               ![i].current = Ideal!CountIn(q, u),
                               ![i].previous = Ideal!CountIn(q, u - 1)]
    BY <2>3, <2>4
  <2> QED BY <2>1, <2>2, <2>4, <2>5, SameWindow DEF Ideal!Fetch
<1>5. ASSUME NEW i \in Instances, Deny(i) PROVE Ideal!Refuse(i)
  BY <1>5, TallyStays, SameWindow DEF Deny, Counted, Ideal!Refuse, Ideal!Fetched
<1>6. ASSUME NEW i \in Instances, Allow(i) PROVE Ideal!Record(i)
  <2>1. PICK c \in Checks : c = check[i]
    BY <1>1, <1>6, OpenCheck DEF Allow, Counted
  <2>2. /\ check[i] # NoCheck /\ check[i].counted /\ WithinLimit(check[i])
        /\ admitted' = [admitted EXCEPT ![c.key] = Append(@, c.at)]
        /\ check' = [check EXCEPT ![i] = NoCheck]
    BY <1>6, <2>1 DEF Allow, Counted
  <2>3. Tally' = Ideal!OneMore(Tally, c)
    BY <1>1, <2>2, TallyRecords
  <2> QED BY <2>1, <2>2, <2>3, SameWindow DEF Ideal!Record, Ideal!Fetched
<1> QED BY <1>2, <1>3, <1>4, <1>5, <1>6 DEF Next, Ideal!LimiterNext

\* With one instance the in-memory counter cannot be told from one that
\* keeps the count of every window and never fails.
THEOREM ImplementsLimiterTheorem ==
    ASSUME SingleInstance PROVE Spec => ImplementsLimiter
<1>1. Init => Ideal!LimiterInit
  <2> SUFFICES ASSUME Init PROVE Ideal!LimiterInit
    OBVIOUS
  <2>1. \A k \in Keys : admitted[k] = <<>>
    BY DEF Init
  <2>2. ASSUME NEW k \in Keys, NEW w PROVE AdmittedIn(k, w) = 0
    <3>1. {m \in DOMAIN admitted[k] : admitted[k][m].window = w} = {}
      BY <2>1
    <3> QED BY <3>1, FS_EmptySet DEF AdmittedIn, InWindow
  <2>3. Tally = Ideal!None
    BY <2>2, SameWindow DEF Tally
  <2>4. Ideal!None = [k \in Keys |-> [w \in Windows |-> 0]]
    BY SameWindow
  <2> QED BY <2>3, <2>4, SameWindow DEF Init, Ideal!LimiterInit
<1>2. IInv /\ [Next]_vars => [Ideal!LimiterNext]_(Ideal!limiterVars)
  BY LimiterSimulates
<1> QED BY <1>1, <1>2, InductiveInvariant, PTL
        DEF Spec, ImplementsLimiter, Ideal!LimiterSpec
=============================================================================
