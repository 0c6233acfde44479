---------------------------- MODULE ChainProofs -----------------------------
(***************************************************************************)
(* Proofs about BuildChain and the way of a request through what it built, *)
(* for every set of configurations and of requests.                        *)
(*                                                                         *)
(* The loops of the code are folds.  What a fold computes is shown by      *)
(* induction, for which a set of naturals with a least element is enough:  *)
(* the set of those for which the claim is false.                          *)
(***************************************************************************)
EXTENDS Chain, SequenceTheorems, WellFoundedInduction, TLAPS

(***************************************************************************)
(* Induction and folds.                                                    *)
(***************************************************************************)
LEMMA LeastElement ==
    ASSUME NEW T, T \subseteq Nat, T # {}
    PROVE  \E m \in T : \A k \in T : m <= k
<1> DEFINE R == OpToRel(<, Nat)
<1>1. IsWellFoundedOn(R, Nat)
  BY NatLessThanWellFounded
<1>2. \A x, y \in Nat : <<x, y>> \in R <=> x < y
  BY DEF OpToRel
<1> HIDE DEF R
<1>3. PICK m \in T : \A k \in T : <<k, m>> \notin R
  BY <1>1, WFMin
<1>4. ASSUME NEW k \in T PROVE m <= k
  <2>1. m \in Nat /\ k \in Nat
    OBVIOUS
  <2>2. ~(k < m)
    BY <1>2, <1>3, <2>1
  <2> QED BY <2>1, <2>2
<1> QED BY <1>4

\* Induction on the numbers up to n, for a claim given as a set.
LEMMA InductionUpTo ==
    ASSUME NEW n \in Nat, NEW T, 0 \in T,
           \A k \in 0 .. n - 1 : k \in T => k + 1 \in T
    PROVE  0 .. n \subseteq T
<1> DEFINE Bad == (0 .. n) \ T
<1>1. SUFFICES ASSUME Bad # {} PROVE FALSE
  OBVIOUS
<1>2. Bad \subseteq Nat
  OBVIOUS
<1> HIDE DEF Bad
<1>3. PICK m \in Bad : \A k \in Bad : m <= k
  BY <1>1, <1>2, LeastElement
<1>4. m \in 0 .. n /\ m # 0
  BY DEF Bad
<1>5. m - 1 \notin Bad
  BY <1>3, <1>4
<1>6. m - 1 \in 0 .. n - 1 /\ m - 1 \in T
  BY <1>4, <1>5 DEF Bad
<1> QED BY <1>4, <1>6 DEF Bad

LEMMA MaxOfUpTo ==
    ASSUME NEW k \in Nat, NEW T \in SUBSET (1 .. k + 1), k + 1 \in T
    PROVE  Max(T) = k + 1
<1>1. \A x \in T : (\A y \in T : x >= y) => x = k + 1
  OBVIOUS
<1>2. \A y \in T : k + 1 >= y
  OBVIOUS
<1> QED BY <1>1, <1>2 DEF Max

(***************************************************************************)
(* FoldLeft is a recursive function on the sets of indices.  For a step    *)
(* given as a function there is one: of the sets within 1 .. k, for one k  *)
(* after the other.                                                        *)
(***************************************************************************)
Folds(f, k, base, step) ==
    \A t \in SUBSET (1 .. k) :
        /\ t # {} => Max(t) \in t
        /\ f[t] = IF t = {} THEN base ELSE step[<<Max(t), f[t \ {Max(t)}]>>]

LEMMA FoldExists ==
    ASSUME NEW n \in Nat, NEW A, NEW base \in A,
           NEW step \in [(1 .. n) \X A -> A]
    PROVE  \E f \in [SUBSET (1 .. n) -> A] : Folds(f, n, base, step)
<1> DEFINE T == {k \in 0 .. n :
                   \E f \in [SUBSET (1 .. k) -> A] : Folds(f, k, base, step)}
<1>1. 0 \in T
  <2> DEFINE f == [t \in SUBSET (1 .. 0) |-> base]
  <2>1. f \in [SUBSET (1 .. 0) -> A]
    OBVIOUS
  <2>2. \A t \in SUBSET (1 .. 0) : t = {}
    OBVIOUS
  <2>3. Folds(f, 0, base, step)
    BY <2>2 DEF Folds
  <2> QED BY <2>1, <2>3
<1>2. ASSUME NEW k \in 0 .. n - 1, k \in T PROVE k + 1 \in T
  <2>1. PICK f \in [SUBSET (1 .. k) -> A] : Folds(f, k, base, step)
    BY <1>2
  <2> DEFINE g == [t \in SUBSET (1 .. k + 1) |->
                     IF k + 1 \in t THEN step[<<k + 1, f[t \ {k + 1}]>>]
                     ELSE f[t]]
  <2>2. ASSUME NEW t \in SUBSET (1 .. k + 1)
        PROVE  /\ k + 1 \notin t => t \in SUBSET (1 .. k)
               /\ t \ {k + 1} \in SUBSET (1 .. k)
    OBVIOUS
  <2>3. g \in [SUBSET (1 .. k + 1) -> A]
    <3>1. ASSUME NEW t \in SUBSET (1 .. k + 1)
          PROVE  (IF k + 1 \in t THEN step[<<k + 1, f[t \ {k + 1}]>>]
                  ELSE f[t]) \in A
      <4>1. CASE k + 1 \in t
        <5>1. f[t \ {k + 1}] \in A
          BY <2>2
        <5>2. <<k + 1, f[t \ {k + 1}]>> \in (1 .. n) \X A
          BY <5>1
        <5> QED BY <4>1, <5>2
      <4>2. CASE k + 1 \notin t
        BY <2>2, <4>2
      <4> QED BY <4>1, <4>2
    <3> QED BY <3>1
  <2>4. ASSUME NEW t \in SUBSET (1 .. k + 1)
        PROVE  /\ t # {} => Max(t) \in t
               /\ g[t] = IF t = {} THEN base
                         ELSE step[<<Max(t), g[t \ {Max(t)}]>>]
    <3>1. CASE k + 1 \in t
      <4>1. Max(t) = k + 1
        BY <3>1, MaxOfUpTo
      <4>2. g[t \ {k + 1}] = f[t \ {k + 1}]
        BY <2>2
      <4>3. g[t] = step[<<k + 1, f[t \ {k + 1}]>>]
        BY <3>1
      <4> HIDE DEF g
      <4> QED BY <3>1, <4>1, <4>2, <4>3
    <3>2. CASE k + 1 \notin t
      <4>1. t \in SUBSET (1 .. k) /\ t \ {Max(t)} \in SUBSET (1 .. k)
        BY <2>2, <3>2
      <4>2. g[t] = f[t]
        BY <3>2
      <4>3. g[t \ {Max(t)}] = f[t \ {Max(t)}]
        BY <3>2, <4>1
      <4>4. /\ t # {} => Max(t) \in t
            /\ f[t] = IF t = {} THEN base ELSE step[<<Max(t), f[t \ {Max(t)}]>>]
        BY <2>1, <4>1 DEF Folds
      <4> HIDE DEF g
      <4> QED BY <4>2, <4>3, <4>4
    <3> QED BY <3>1, <3>2
  <2>5. Folds(g, k + 1, base, step)
    BY <2>4 DEF Folds
  <2> HIDE DEF g
  <2>6. k + 1 \in 0 .. n
    OBVIOUS
  <2> QED BY <2>3, <2>5, <2>6
<1>3. 0 .. n \subseteq T
  <2> HIDE DEF T
  <2> QED BY <1>1, <1>2, InductionUpTo
<1>4. n \in T
  <2> HIDE DEF T
  <2> QED BY <1>3
<1> QED BY <1>4

(***************************************************************************)
(*                               BUILDCHAIN                                *)
(***************************************************************************)
ExtraLink(i) == [stage |-> "extra", extra |-> i]
ExtraLinks == {ExtraLink(i) : i \in DOMAIN config.extras}
Links == {Stage(s) : s \in Anchors} \cup ExtraLinks

\* What the loop over Extra does with one entry.
AppendIf(side, anchor, links, i) ==
    IF config.extras[i][side] = anchor THEN Append(links, ExtraLink(i))
    ELSE links

\* Extras takes the entries one after the other.
LEMMA ExtrasSteps ==
    ASSUME NEW side, NEW anchor, NEW n \in Nat, DOMAIN config.extras = 1 .. n
    PROVE  \E e :
              /\ e[1 .. 0] = <<>>
              /\ \A k \in 0 .. n - 1 :
                    e[1 .. k + 1] = AppendIf(side, anchor, e[1 .. k], k + 1)
              /\ Extras(side, anchor) = e[1 .. n]
<1> DEFINE s == [i \in DOMAIN config.extras |-> i]
           A == Seq(ExtraLinks)
           step == [p \in (1 .. n) \X A |-> AppendIf(side, anchor, p[2], p[1])]
           Fold(f) == [t \in SUBSET DOMAIN s |->
                         IF t = {} THEN <<>>
                         ELSE AppendIf(side, anchor, f[t \ {Max(t)}], s[Max(t)])]
           e == CHOOSE f : f = Fold(f)
<1>0. DOMAIN s = 1 .. n
  OBVIOUS
<1>1. step \in [(1 .. n) \X A -> A]
  <2>1. ASSUME NEW i \in 1 .. n, NEW a \in A
        PROVE  AppendIf(side, anchor, a, i) \in A
    <3>1. ExtraLink(i) \in ExtraLinks
      BY DEF ExtraLinks
    <3> QED BY <3>1 DEF AppendIf
  <2> HIDE DEF A
  <2> QED BY <2>1
<1>2. PICK f \in [SUBSET (1 .. n) -> A] : Folds(f, n, <<>>, step)
  <2>1. <<>> \in A
    OBVIOUS
  <2> HIDE DEF step, A
  <2> QED BY <1>1, <2>1, FoldExists
<1>3. f = Fold(f)
  <2> HIDE DEF A
  <2>1. ASSUME NEW t \in SUBSET (1 .. n), t # {}
        PROVE  f[t] = AppendIf(side, anchor, f[t \ {Max(t)}], s[Max(t)])
    <3>1. Max(t) \in 1 .. n /\ f[t] = step[<<Max(t), f[t \ {Max(t)}]>>]
      BY <1>2, <2>1 DEF Folds
    <3>2. f[t \ {Max(t)}] \in A
      OBVIOUS
    <3>3. s[Max(t)] = Max(t)
      BY <3>1
    <3> HIDE DEF s
    <3> QED BY <3>1, <3>2, <3>3
  <2>2. f[{}] = <<>>
    BY <1>2 DEF Folds
  <2> HIDE DEF s
  <2> QED BY <1>0, <2>1, <2>2
<1>4. e = Fold(e)
  BY <1>3
<1>5. Extras(side, anchor) = e[1 .. n]
  <2>1. Extras(side, anchor) = e[DOMAIN s]
    BY DEF Extras, FoldLeftDomain, FoldLeft, MapThenFoldSet, AppendIf, ExtraLink
  <2> QED BY <1>0, <2>1
<1>6. \A i \in 1 .. n : s[i] = i
  OBVIOUS
<1> HIDE DEF e, s
<1>7. e[1 .. 0] = <<>>
  <2>1. 1 .. 0 = {} /\ {} \in SUBSET (1 .. n)
    OBVIOUS
  <2> QED BY <1>0, <1>4, <2>1
<1>8. ASSUME NEW k \in 0 .. n - 1
      PROVE  e[1 .. k + 1] = AppendIf(side, anchor, e[1 .. k], k + 1)
  <2> DEFINE t == 1 .. k + 1
  <2>1. t \in SUBSET (1 .. n) /\ k + 1 \in t /\ t \ {k + 1} = 1 .. k
    OBVIOUS
  <2>2. Max(t) = k + 1 /\ s[k + 1] = k + 1
    BY <1>6, <2>1, MaxOfUpTo
  <2> HIDE DEF t
  <2>3. e[t] = AppendIf(side, anchor, e[t \ {Max(t)}], s[Max(t)])
    BY <1>0, <1>4, <2>1
  <2> QED BY <2>1, <2>2, <2>3 DEF t
<1> QED BY <1>5, <1>7, <1>8

\* Extras yields the entries that name the anchor on that side, each once
\* and in the order of the list.
IsExtras(links, side, anchor, k) ==
    /\ links \in Seq(ExtraLinks)
    /\ \A p \in 1 .. Len(links) :
          /\ links[p].extra \in 1 .. k
          /\ links[p] = ExtraLink(links[p].extra)
          /\ config.extras[links[p].extra][side] = anchor
    /\ \A i \in 1 .. k : config.extras[i][side] = anchor =>
          \E p \in 1 .. Len(links) : links[p] = ExtraLink(i)
    /\ \A p, q \in 1 .. Len(links) : p < q => links[p].extra < links[q].extra

LEMMA ExtrasInOrder ==
    ASSUME NEW side, NEW anchor, NEW n \in Nat, DOMAIN config.extras = 1 .. n
    PROVE  IsExtras(Extras(side, anchor), side, anchor, n)
<1>1. PICK e :
         /\ e[1 .. 0] = <<>>
         /\ \A k \in 0 .. n - 1 :
               e[1 .. k + 1] = AppendIf(side, anchor, e[1 .. k], k + 1)
         /\ Extras(side, anchor) = e[1 .. n]
  BY ExtrasSteps
<1> DEFINE T == {k \in 0 .. n : IsExtras(e[1 .. k], side, anchor, k)}
<1>2. 0 \in T
  <2>1. IsExtras(<<>>, side, anchor, 0)
    BY DEF IsExtras
  <2> QED BY <1>1, <2>1
<1>3. ASSUME NEW k \in 0 .. n - 1, k \in T PROVE k + 1 \in T
  <2> DEFINE old == e[1 .. k]
             new == e[1 .. k + 1]
  <2>1. IsExtras(old, side, anchor, k)
    BY <1>3
  <2>2. new = AppendIf(side, anchor, old, k + 1)
    BY <1>1
  <2> HIDE DEF old, new
  <2>3. ExtraLink(k + 1) \in ExtraLinks
    BY DEF ExtraLinks
  <2>4. \A i \in 1 .. k + 1 : i \in 1 .. k \/ i = k + 1
    OBVIOUS
  <2>5. CASE config.extras[k + 1][side] # anchor
    <3>1. new = old
      BY <2>2, <2>5 DEF AppendIf
    <3>2. IsExtras(old, side, anchor, k + 1)
      BY <2>1, <2>4, <2>5 DEF IsExtras
    <3> QED BY <3>1, <3>2 DEF old, new
  <2>6. CASE config.extras[k + 1][side] = anchor
    <3>1. new = Append(old, ExtraLink(k + 1))
      BY <2>2, <2>6 DEF AppendIf
    <3>2. old \in Seq(ExtraLinks)
      BY <2>1 DEF IsExtras
    <3>3. /\ new \in Seq(ExtraLinks)
          /\ Len(new) = Len(old) + 1
          /\ \A p \in 1 .. Len(old) : new[p] = old[p]
          /\ new[Len(old) + 1] = ExtraLink(k + 1)
      BY <2>3, <3>1, <3>2, AppendProperties
    <3>4. Len(old) \in Nat
      BY <3>2
    <3>5. \A p \in 1 .. Len(new) : p \in 1 .. Len(old) \/ p = Len(old) + 1
      BY <3>3, <3>4
    <3>6. ExtraLink(k + 1).extra = k + 1
      BY DEF ExtraLink
    <3>7. \A p \in 1 .. Len(new) :
             /\ new[p].extra \in 1 .. k + 1
             /\ new[p] = ExtraLink(new[p].extra)
             /\ config.extras[new[p].extra][side] = anchor
      BY <2>1, <2>6, <3>3, <3>5, <3>6 DEF IsExtras
    <3>8. ASSUME NEW i \in 1 .. k + 1, config.extras[i][side] = anchor
          PROVE  \E p \in 1 .. Len(new) : new[p] = ExtraLink(i)
      <4>1. CASE i = k + 1
        <5>1. Len(old) + 1 \in 1 .. Len(new)
          BY <3>3, <3>4
        <5> QED BY <3>3, <4>1, <5>1
      <4>2. CASE i \in 1 .. k
        <5>1. PICK p \in 1 .. Len(old) : old[p] = ExtraLink(i)
          BY <2>1, <3>8, <4>2 DEF IsExtras
        <5>2. p \in 1 .. Len(new) /\ new[p] = ExtraLink(i)
          BY <3>3, <3>4, <5>1
        <5> QED BY <5>2
      <4> QED BY <2>4, <4>1, <4>2
    <3>9. ASSUME NEW p \in 1 .. Len(new), NEW q \in 1 .. Len(new), p < q
          PROVE  new[p].extra < new[q].extra
      <4>1. p \in 1 .. Len(old) /\ new[p] = old[p] /\ old[p].extra \in 1 .. k
        BY <2>1, <3>3, <3>4, <3>5, <3>9 DEF IsExtras
      <4>2. CASE q \in 1 .. Len(old)
        BY <2>1, <3>3, <3>9, <4>1, <4>2 DEF IsExtras
      <4>3. CASE q = Len(old) + 1
        BY <3>3, <3>6, <4>1, <4>3
      <4> QED BY <3>5, <4>2, <4>3
    <3>10. IsExtras(new, side, anchor, k + 1)
      BY <3>3, <3>7, <3>8, <3>9 DEF IsExtras
    <3> QED BY <3>10 DEF new
  <2> QED BY <2>5, <2>6
<1>4. n \in T
  <2> HIDE DEF T
  <2>1. 0 .. n \subseteq T
    BY <1>2, <1>3, InductionUpTo
  <2> QED BY <2>1
<1> QED BY <1>1, <1>4

(***************************************************************************)
(* The anchors, and where they put a link.                                 *)
(***************************************************************************)
LEMMA OrderFacts ==
    /\ DOMAIN Order = 1 .. 14
    /\ \A i \in 1 .. 14 : Order[i] \in Anchors /\ Order[i] \notin {"", "extra"}
    /\ \A i, j \in 1 .. 14 : Order[i] = Order[j] => i = j
    /\ \A a \in Anchors : \E i \in 1 .. 14 : a = Order[i]
<1>1. DOMAIN Order = 1 .. 14
  BY DEF Order
<1>2. ASSUME NEW i \in 1 .. 14 PROVE Order[i] # "" /\ Order[i] # "extra"
  <2>1. \/ Order[i] \in {"recover", "timeout", "strip_slashes",
                        "redirect_slashes", "real_ip", "request_id",
                        "secure_headers"}
        \/ Order[i] \in {"rate_limit", "throttle", "etag", "compress", "cors",
                        "service_desc", "logging"}
    BY DEF Order
  <2> QED BY <2>1
<1>3. \A i, j \in 1 .. 14 : Order[i] = Order[j] => i = j
  BY DEF Order
<1> QED BY <1>1, <1>2, <1>3 DEF Anchors, Range

\* A configuration that BuildChain takes.
Accepts == config \in Configs /\ ~Panics

LEMMA ExtrasAreValid ==
    ASSUME Accepts
    PROVE  \E n \in Nat :
              /\ DOMAIN config.extras = 1 .. n
              /\ \A i \in 1 .. n :
                    /\ config.extras[i] \in [before: STRING, after: STRING]
                    /\ ValidExtra(config.extras[i])
<1>1. config.extras \in Seq([before: STRING, after: STRING])
  BY ConfigsAssumption DEF Accepts
<1> DEFINE n == Len(config.extras)
<1>2. n \in Nat /\ DOMAIN config.extras = 1 .. n
  BY <1>1
<1>3. \A i \in DOMAIN config.extras : ValidExtra(config.extras[i])
  BY DEF Accepts, Panics
<1>4. \A i \in 1 .. n : config.extras[i] \in [before: STRING, after: STRING]
  BY <1>1, ElementOfSeq
<1> HIDE DEF n
<1> QED BY <1>2, <1>3, <1>4

LEMMA RankOfStage ==
    ASSUME NEW j \in 1 .. 14
    PROVE  Rank(Stage(Order[j])) = 3 * j
<1>1. (CHOOSE i \in DOMAIN Order : Order[i] = Order[j]) = j
  BY OrderFacts
<1> QED BY <1>1 DEF Rank, Stage

LEMMA RankOfExtra ==
    ASSUME Accepts, NEW i \in DOMAIN config.extras, NEW j \in 1 .. 14
    PROVE  /\ config.extras[i].before = Order[j] =>
                 Rank(ExtraLink(i)) = 3 * j - 1
           /\ config.extras[i].after = Order[j] =>
                 Rank(ExtraLink(i)) = 3 * j + 1
<1>1. (CHOOSE h \in DOMAIN Order : Order[h] = Order[j]) = j
  BY OrderFacts
<1>2. i # 0 /\ ValidExtra(config.extras[i])
  BY ExtrasAreValid
<1>3. Order[j] # ""
  BY OrderFacts
<1>4. ExtraLink(i).extra = i
  BY DEF ExtraLink
<1>5. config.extras[i].after = Order[j] => config.extras[i].before = ""
  BY <1>2, <1>3 DEF ValidExtra
<1> QED BY <1>1, <1>2, <1>3, <1>4, <1>5 DEF Rank

(***************************************************************************)
(* A part of a chain: the links of set S, in order, with ranks from low to *)
(* high.  Parts whose ranks follow each other can be joined.               *)
(***************************************************************************)
Earlier(a, b) ==
    \/ Rank(a) < Rank(b)
    \/ Rank(a) = Rank(b) /\ a.extra < b.extra

IsPart(links, S, low, high) ==
    /\ links \in Seq(Links)
    /\ \A p \in 1 .. Len(links) :
          /\ links[p] \in S
          /\ Rank(links[p]) \in low .. high
    /\ \A x \in S : \E p \in 1 .. Len(links) : x = links[p]
    /\ \A p, q \in 1 .. Len(links) : p < q => Earlier(links[p], links[q])

LEMMA PartsJoin ==
    ASSUME NEW a, NEW b, NEW S, NEW T,
           NEW low \in Int, NEW mid \in Int, NEW next \in Int, NEW high \in Int,
           low <= next, mid < next, mid <= high,
           IsPart(a, S, low, mid), IsPart(b, T, next, high)
    PROVE  IsPart(a \o b, S \cup T, low, high)
<1>1. a \in Seq(Links) /\ b \in Seq(Links)
  BY DEF IsPart
<1> DEFINE m == Len(a)
           n == Len(b)
           c == a \o b
<1>2. m \in Nat /\ n \in Nat
  BY <1>1
<1>3. /\ c \in Seq(Links)
      /\ Len(c) = m + n
      /\ \A p \in 1 .. m + n :
            c[p] = IF p <= m THEN a[p] ELSE b[p - m]
  BY <1>1, ConcatProperties
<1>4. ASSUME NEW p \in 1 .. m
      PROVE  c[p] = a[p] /\ a[p] \in S /\ Rank(a[p]) \in low .. mid /\ p \in 1 .. m + n
  BY <1>2, <1>3 DEF IsPart
<1>5. ASSUME NEW p \in 1 .. m + n, p > m
      PROVE  /\ p - m \in 1 .. n
             /\ c[p] = b[p - m] /\ b[p - m] \in T
             /\ Rank(b[p - m]) \in next .. high
  <2>1. p - m \in 1 .. n
    BY <1>2, <1>5
  <2>2. c[p] = b[p - m]
    BY <1>2, <1>3, <1>5
  <2> HIDE DEF c, m, n
  <2> QED BY <2>1, <2>2 DEF IsPart, n
<1>6. ASSUME NEW p \in 1 .. m + n PROVE p \in 1 .. m \/ p > m
  BY <1>2
<1> HIDE DEF c
<1>7. ASSUME NEW p \in 1 .. m + n
      PROVE  c[p] \in S \cup T /\ Rank(c[p]) \in low .. high
  <2>1. CASE p \in 1 .. m
    <3>1. c[p] \in S /\ Rank(c[p]) \in low .. mid
      BY <1>4, <2>1
    <3> QED BY <3>1
  <2>2. CASE p > m
    <3>1. c[p] \in T /\ Rank(c[p]) \in next .. high
      BY <1>5, <2>2
    <3> QED BY <3>1
  <2> QED BY <1>6, <2>1, <2>2
<1>8. ASSUME NEW x \in S \cup T PROVE \E p \in 1 .. m + n : x = c[p]
  <2>1. CASE x \in S
    <3>1. PICK p \in 1 .. m : x = a[p]
      BY <2>1 DEF IsPart
    <3> QED BY <1>4, <3>1
  <2>2. CASE x \in T
    <3>1. PICK p \in 1 .. n : x = b[p]
      BY <2>2 DEF IsPart
    <3>2. m + p \in 1 .. m + n /\ m + p > m /\ (m + p) - m = p
      BY <1>2
    <3> QED BY <1>5, <3>1, <3>2
  <2> QED BY <2>1, <2>2
<1>9. ASSUME NEW p \in 1 .. m + n, NEW q \in 1 .. m + n, p < q
      PROVE  Earlier(c[p], c[q])
  <2>1. CASE p > m
    <3>1. q > m /\ p - m < q - m
      BY <1>2, <1>9, <2>1
    <3>2. p - m \in 1 .. n /\ q - m \in 1 .. n
      BY <1>5, <2>1, <3>1
    <3>3. Earlier(b[p - m], b[q - m])
      BY <3>1, <3>2 DEF IsPart
    <3> QED BY <1>5, <2>1, <3>1, <3>3
  <2>2. CASE p \in 1 .. m /\ q > m
    <3>1. Rank(c[p]) \in low .. mid /\ Rank(c[q]) \in next .. high
      BY <1>4, <1>5, <2>2
    <3>2. Rank(c[p]) < Rank(c[q])
      BY <3>1
    <3> QED BY <3>2 DEF Earlier
  <2>3. CASE p \in 1 .. m /\ q \in 1 .. m
    <3>1. Earlier(a[p], a[q])
      BY <1>9, <2>3 DEF IsPart
    <3> QED BY <1>4, <2>3, <3>1
  <2> QED BY <1>6, <2>1, <2>2, <2>3
<1> QED BY <1>3, <1>7, <1>8, <1>9 DEF IsPart, c

(***************************************************************************)
(* appendStage adds three parts for its anchor.                            *)
(***************************************************************************)
Chosen(side, anchor) ==
    {ExtraLink(i) : i \in {h \in DOMAIN config.extras :
                              config.extras[h][side] = anchor}}

Own(anchor) ==
    Chosen("before", anchor)
    \cup {Stage(s) : s \in {anchor} \cap config.stages}
    \cup Chosen("after", anchor)

LEMMA ExtrasArePart ==
    ASSUME Accepts, NEW j \in 1 .. 14
    PROVE  /\ IsPart(Extras("before", Order[j]), Chosen("before", Order[j]),
                     3 * j - 1, 3 * j - 1)
           /\ IsPart(Extras("after", Order[j]), Chosen("after", Order[j]),
                     3 * j + 1, 3 * j + 1)
<1>1. PICK n \in Nat : DOMAIN config.extras = 1 .. n
  BY ExtrasAreValid
<1>2. ASSUME NEW side, NEW r \in Int,
             \A i \in 1 .. n : config.extras[i][side] = Order[j]
                                  => Rank(ExtraLink(i)) = r
      PROVE  IsPart(Extras(side, Order[j]), Chosen(side, Order[j]), r, r)
  <2> DEFINE links == Extras(side, Order[j])
  <2>1. IsExtras(links, side, Order[j], n)
    BY <1>1, ExtrasInOrder
  <2> HIDE DEF links
  <2>2. links \in Seq(Links)
    <3>1. links \in Seq(ExtraLinks)
      BY <2>1 DEF IsExtras
    <3>2. ExtraLinks \subseteq Links
      BY DEF Links
    <3> QED BY <3>1, <3>2
  <2>3. ASSUME NEW p \in 1 .. Len(links)
        PROVE  links[p] \in Chosen(side, Order[j]) /\ Rank(links[p]) = r
    <3> DEFINE i == links[p].extra
    <3>1. /\ i \in 1 .. n
          /\ links[p] = ExtraLink(i)
          /\ config.extras[i][side] = Order[j]
      BY <2>1 DEF IsExtras
    <3> HIDE DEF i
    <3> QED BY <1>1, <1>2, <3>1 DEF Chosen
  <2>4. ASSUME NEW x \in Chosen(side, Order[j])
        PROVE  \E p \in 1 .. Len(links) : x = links[p]
    <3>1. PICK i \in 1 .. n : x = ExtraLink(i) /\ config.extras[i][side] = Order[j]
      BY <1>1 DEF Chosen
    <3>2. PICK p \in 1 .. Len(links) : links[p] = ExtraLink(i)
      BY <2>1, <3>1 DEF IsExtras
    <3> QED BY <3>1, <3>2
  <2>5. ASSUME NEW p \in 1 .. Len(links), NEW q \in 1 .. Len(links), p < q
        PROVE  Earlier(links[p], links[q])
    <3>1. links[p].extra < links[q].extra
      BY <2>1, <2>5 DEF IsExtras
    <3>2. Rank(links[p]) = r /\ Rank(links[q]) = r
      BY <2>3
    <3> QED BY <3>1, <3>2 DEF Earlier
  <2> QED BY <2>2, <2>3, <2>4, <2>5 DEF IsPart, links
<1>3. ASSUME NEW i \in 1 .. n
      PROVE  /\ config.extras[i]["before"] = Order[j]
                   => Rank(ExtraLink(i)) = 3 * j - 1
             /\ config.extras[i]["after"] = Order[j]
                   => Rank(ExtraLink(i)) = 3 * j + 1
  BY <1>1, RankOfExtra
<1> QED BY <1>2, <1>3

LEMMA StageIsPart ==
    ASSUME NEW j \in 1 .. 14
    PROVE  IsPart(IF Order[j] \in config.stages THEN <<Stage(Order[j])>> ELSE <<>>,
                  {Stage(s) : s \in {Order[j]} \cap config.stages}, 3 * j, 3 * j)
<1>1. Stage(Order[j]) \in Links /\ Rank(Stage(Order[j])) = 3 * j
  BY OrderFacts, RankOfStage DEF Links
<1>2. CASE Order[j] \in config.stages
  <2> DEFINE links == <<Stage(Order[j])>>
  <2>1. links \in Seq(Links) /\ Len(links) = 1 /\ links[1] = Stage(Order[j])
    BY <1>1
  <2>2. {Stage(s) : s \in {Order[j]} \cap config.stages} = {Stage(Order[j])}
    BY <1>2
  <2> HIDE DEF links
  <2>3. IsPart(links, {Stage(Order[j])}, 3 * j, 3 * j)
    BY <1>1, <2>1 DEF IsPart
  <2> QED BY <1>2, <2>2, <2>3 DEF links
<1>3. CASE Order[j] \notin config.stages
  <2>1. {Stage(s) : s \in {Order[j]} \cap config.stages} = {}
    BY <1>3
  <2>2. IsPart(<<>>, {}, 3 * j, 3 * j)
    BY DEF IsPart
  <2> QED BY <1>3, <2>1, <2>2
<1> QED BY <1>2, <1>3

LEMMA AppendStageJoins ==
    ASSUME Accepts, NEW k \in 0 .. 13, NEW links, NEW S,
           IsPart(links, S, 2, 3 * k + 1)
    PROVE  IsPart(AppendStage(links, Order[k + 1]),
                  S \cup Own(Order[k + 1]), 2, 3 * (k + 1) + 1)
<1> DEFINE j == k + 1
           before == Extras("before", Order[j])
           stage == IF Order[j] \in config.stages THEN <<Stage(Order[j])>> ELSE <<>>
           after == Extras("after", Order[j])
           B == Chosen("before", Order[j])
           M == {Stage(s) : s \in {Order[j]} \cap config.stages}
           E == Chosen("after", Order[j])
<1>1. j \in 1 .. 14
  OBVIOUS
<1>2. IsPart(before, B, 3 * j - 1, 3 * j - 1)
  BY <1>1, ExtrasArePart
<1>3. IsPart(stage, M, 3 * j, 3 * j)
  BY <1>1, StageIsPart
<1>4. IsPart(after, E, 3 * j + 1, 3 * j + 1)
  BY <1>1, ExtrasArePart
<1>5. AppendStage(links, Order[j]) = ((links \o before) \o stage) \o after
  BY DEF AppendStage
<1>6. Own(Order[j]) = B \cup M \cup E
  BY DEF Own
<1> HIDE DEF before, stage, after, B, M, E
<1>7. IsPart(links \o before, S \cup B, 2, 3 * j - 1)
  BY <1>1, <1>2, PartsJoin
<1>8. IsPart((links \o before) \o stage, (S \cup B) \cup M, 2, 3 * j)
  BY <1>1, <1>3, <1>7, PartsJoin
<1>9. IsPart(((links \o before) \o stage) \o after, ((S \cup B) \cup M) \cup E,
             2, 3 * j + 1)
  BY <1>1, <1>4, <1>8, PartsJoin
<1>10. ((S \cup B) \cup M) \cup E = S \cup (B \cup M \cup E)
  OBVIOUS
<1> QED BY <1>5, <1>6, <1>9, <1>10

\* The whole chain of an accepted configuration.
Whole == FoldLeft(AppendStage, <<>>, Order)

LEMMA WholeSteps ==
    ASSUME Accepts
    PROVE  \E c :
              /\ c[1 .. 0] = <<>>
              /\ \A k \in 0 .. 13 :
                    c[1 .. k + 1] = AppendStage(c[1 .. k], Order[k + 1])
              /\ Whole = c[1 .. 14]
<1> DEFINE A == Seq(Links)
           step == [p \in (1 .. 14) \X A |-> AppendStage(p[2], Order[p[1]])]
           Fold(f) == [t \in SUBSET DOMAIN Order |->
                         IF t = {} THEN <<>>
                         ELSE AppendStage(f[t \ {Max(t)}], Order[Max(t)])]
           c == CHOOSE f : f = Fold(f)
<1>0. DOMAIN Order = 1 .. 14
  BY OrderFacts
<1>1. step \in [(1 .. 14) \X A -> A]
  <2>1. ASSUME NEW i \in 1 .. 14, NEW a \in A
        PROVE  AppendStage(a, Order[i]) \in A
    <3> DEFINE before == Extras("before", Order[i])
               stage == IF Order[i] \in config.stages THEN <<Stage(Order[i])>>
                        ELSE <<>>
               after == Extras("after", Order[i])
    <3>1. before \in A /\ stage \in A /\ after \in A
      BY ExtrasArePart, StageIsPart DEF IsPart
    <3>2. AppendStage(a, Order[i]) = ((a \o before) \o stage) \o after
      BY DEF AppendStage
    <3> HIDE DEF before, stage, after
    <3>3. a \o before \in A
      BY <3>1, ConcatProperties
    <3>4. (a \o before) \o stage \in A
      BY <3>1, <3>3, ConcatProperties
    <3>5. ((a \o before) \o stage) \o after \in A
      BY <3>1, <3>4, ConcatProperties
    <3> QED BY <3>2, <3>5
  <2> HIDE DEF A
  <2> QED BY <2>1
<1>2. PICK f \in [SUBSET (1 .. 14) -> A] : Folds(f, 14, <<>>, step)
  <2>1. <<>> \in A
    OBVIOUS
  <2> HIDE DEF step, A
  <2> QED BY <1>1, <2>1, FoldExists
<1>3. f = Fold(f)
  <2> HIDE DEF A
  <2>1. ASSUME NEW t \in SUBSET (1 .. 14), t # {}
        PROVE  f[t] = AppendStage(f[t \ {Max(t)}], Order[Max(t)])
    <3>1. Max(t) \in 1 .. 14 /\ f[t] = step[<<Max(t), f[t \ {Max(t)}]>>]
      BY <1>2, <2>1 DEF Folds
    <3>2. f[t \ {Max(t)}] \in A
      OBVIOUS
    <3> QED BY <3>1, <3>2
  <2>2. f[{}] = <<>>
    BY <1>2 DEF Folds
  <2> QED BY <1>0, <2>1, <2>2
<1>4. c = Fold(c)
  BY <1>3
<1>5. Whole = c[1 .. 14]
  <2>1. Whole = c[DOMAIN Order]
    BY DEF Whole, FoldLeft, MapThenFoldSet
  <2> QED BY <1>0, <2>1
<1> HIDE DEF c
<1>6. c[1 .. 0] = <<>>
  <2>1. 1 .. 0 = {} /\ {} \in SUBSET (1 .. 14)
    OBVIOUS
  <2> QED BY <1>0, <1>4, <2>1
<1>7. ASSUME NEW k \in 0 .. 13
      PROVE  c[1 .. k + 1] = AppendStage(c[1 .. k], Order[k + 1])
  <2> DEFINE t == 1 .. k + 1
  <2>1. t \in SUBSET (1 .. 14) /\ k + 1 \in t /\ t \ {k + 1} = 1 .. k
    OBVIOUS
  <2>2. Max(t) = k + 1
    BY <2>1, MaxOfUpTo
  <2> HIDE DEF t
  <2>3. c[t] = AppendStage(c[t \ {Max(t)}], Order[Max(t)])
    BY <1>0, <1>4, <2>1
  <2> QED BY <2>1, <2>2, <2>3 DEF t
<1> QED BY <1>5, <1>6, <1>7

\* The links of a configuration.
Wanted ==
    {Stage(s) : s \in config.stages} \cup ExtraLinks

LEMMA WholeIsPart ==
    ASSUME Accepts
    PROVE  IsPart(Whole, Wanted, 2, 43)
<1>1. PICK c :
         /\ c[1 .. 0] = <<>>
         /\ \A k \in 0 .. 13 :
               c[1 .. k + 1] = AppendStage(c[1 .. k], Order[k + 1])
         /\ Whole = c[1 .. 14]
  BY WholeSteps
<1> DEFINE Upto(k) == UNION {Own(Order[j]) : j \in 1 .. k}
           T == {k \in 0 .. 14 : IsPart(c[1 .. k], Upto(k), 2, 3 * k + 1)}
<1>2. 0 \in T
  <2>1. Upto(0) = {}
    OBVIOUS
  <2>2. IsPart(<<>>, {}, 2, 1)
    BY DEF IsPart
  <2> HIDE DEF Upto
  <2>3. 3 * 0 + 1 = 1
    OBVIOUS
  <2>4. IsPart(c[1 .. 0], Upto(0), 2, 3 * 0 + 1)
    BY <1>1, <2>1, <2>2, <2>3
  <2> QED BY <2>4
<1>3. ASSUME NEW k \in 0 .. 13, k \in T PROVE k + 1 \in T
  <2>1. IsPart(c[1 .. k], Upto(k), 2, 3 * k + 1)
    BY <1>3
  <2>2. Upto(k + 1) = Upto(k) \cup Own(Order[k + 1])
    <3>1. 1 .. k + 1 = (1 .. k) \cup {k + 1}
      OBVIOUS
    <3> QED BY <3>1
  <2> HIDE DEF Upto
  <2>3. IsPart(AppendStage(c[1 .. k], Order[k + 1]),
               Upto(k) \cup Own(Order[k + 1]), 2, 3 * (k + 1) + 1)
    BY <2>1, AppendStageJoins
  <2>4. IsPart(c[1 .. k + 1], Upto(k + 1), 2, 3 * (k + 1) + 1)
    BY <1>1, <2>2, <2>3
  <2>5. k + 1 \in 0 .. 14
    OBVIOUS
  <2> QED BY <2>4, <2>5
<1>4. 14 \in T
  <2> HIDE DEF T
  <2>1. 0 .. 14 \subseteq T
    BY <1>2, <1>3, InductionUpTo
  <2> QED BY <2>1
<1>5. IsPart(Whole, Upto(14), 2, 43)
  <2> HIDE DEF Upto
  <2> QED BY <1>1, <1>4
<1>6. Upto(14) = Wanted
  <2>1. ASSUME NEW x \in Wanted PROVE x \in Upto(14)
    <3>1. CASE x \in {Stage(s) : s \in config.stages}
      <4>1. PICK s \in config.stages : x = Stage(s)
        BY <3>1
      <4>2. s \in Anchors
        BY <4>1, ConfigsAssumption DEF Accepts
      <4>3. PICK j \in 1 .. 14 : s = Order[j]
        BY <4>2, OrderFacts
      <4>4. x \in Own(Order[j])
        BY <4>1, <4>3 DEF Own
      <4> QED BY <4>4
    <3>2. CASE x \in ExtraLinks
      <4>1. PICK i \in DOMAIN config.extras : x = ExtraLink(i)
        BY <3>2 DEF ExtraLinks
      <4>2. ValidExtra(config.extras[i])
        BY <4>1, ExtrasAreValid
      <4>3. \/ config.extras[i].before \in Anchors
            \/ config.extras[i].after \in Anchors
        BY <4>2 DEF ValidExtra
      <4>4. PICK j \in 1 .. 14 : \/ config.extras[i].before = Order[j]
                                 \/ config.extras[i].after = Order[j]
        BY <4>3, OrderFacts
      <4>5. \/ config.extras[i]["before"] = Order[j]
            \/ config.extras[i]["after"] = Order[j]
        BY <4>4
      <4>6. x \in Own(Order[j])
        BY <4>1, <4>5 DEF Own, Chosen
      <4> QED BY <4>6
    <3> QED BY <3>1, <3>2 DEF Wanted
  <2>2. ASSUME NEW x \in Upto(14) PROVE x \in Wanted
    <3>1. PICK j \in 1 .. 14 : x \in Own(Order[j])
      BY <2>2
    <3> QED BY <3>1 DEF Own, Chosen, Wanted, ExtraLinks
  <2> HIDE DEF Upto
  <2> QED BY <2>1, <2>2
<1> QED BY <1>5, <1>6

(***************************************************************************)
(* The chain a program has, once it is built.                              *)
(***************************************************************************)
BuildInv ==
    /\ config \in Configs
    /\ pc \in {"build", "panicked", "ready", "down", "done"}
    /\ Built => ~Panics /\ chain = Whole

LEMMA BuildInit == Init => BuildInv
BY DEF Init, BuildInv, Built

\* What is built depends on the configuration alone.
LEMMA WholeStays ==
    ASSUME config' = config
    PROVE  Whole' = Whole /\ Panics' = Panics
<1>1. Whole' = Whole
  BY DEF Whole, AppendStage, Extras, FoldLeftDomain, FoldLeft, MapThenFoldSet
<1>2. Panics' = Panics
  BY DEF Panics
<1> QED BY <1>1, <1>2

\* Nothing but BuildChain builds.
LEMMA BuildStays ==
    ASSUME BuildInv, UNCHANGED <<config, chain>>,
           pc' \in {"ready", "down", "done"}, Built
    PROVE  BuildInv'
<1>1. ~Panics /\ chain = Whole
  BY DEF BuildInv
<1>2. ~Panics' /\ chain' = Whole'
  BY <1>1, WholeStays
<1> QED BY <1>2 DEF BuildInv

LEMMA BuildNext == BuildInv /\ [Next]_vars => BuildInv'
<1> SUFFICES ASSUME BuildInv, [Next]_vars PROVE BuildInv'
  OBVIOUS
<1>1. CASE BuildChain
  <2>1. CASE Panics
    BY <1>1, <2>1 DEF BuildChain, BuildInv, Built
  <2>2. CASE ~Panics
    <3>1. chain' = Whole /\ config' = config /\ pc' = "ready"
      BY <1>1, <2>2 DEF BuildChain, Whole
    <3>2. Whole' = Whole /\ ~Panics'
      BY <2>2, <3>1, WholeStays
    <3> QED BY <3>1, <3>2 DEF BuildInv
  <2> QED BY <2>1, <2>2
<1>2. CASE Receive
  BY <1>2, BuildStays DEF Receive, Built
<1>3. CASE Down
  <2>1. pc = "down" /\ UNCHANGED <<config, chain>> /\ pc' \in {"down", "done"}
    BY <1>3 DEF Down, Enter, StripSlashes, RedirectSlashes, RealIP, RequestID,
       SecureHeaders, RateLimit, Throttle, Compress, CORS, ServiceDesc, Extra,
       Serve, At, AtMux, Forward, Answer
  <2> QED BY <2>1, BuildStays DEF Built
<1>4. CASE Expire \/ Fail
  <2>1. pc = "down" /\ UNCHANGED <<config, chain>> /\ pc' = "done"
    BY <1>4 DEF Expire, Fail, Cut, At, AtMux
  <2> QED BY <2>1, BuildStays DEF Built
<1>5. CASE UNCHANGED vars
  <2>1. UNCHANGED <<config, chain, pc>>
    BY <1>5 DEF vars
  <2>2. CASE Built
    BY <2>1, <2>2, BuildStays DEF Built
  <2>3. CASE ~Built
    BY <2>1, <2>3 DEF Built, BuildInv
  <2> QED BY <2>2, <2>3
<1> QED BY <1>1, <1>2, <1>3, <1>4, <1>5 DEF Next

LEMMA BuiltAsWanted == BuildInv /\ Built => Accepts /\ IsPart(chain, Wanted, 2, 43)
<1> SUFFICES ASSUME BuildInv, Built PROVE Accepts /\ IsPart(chain, Wanted, 2, 43)
  OBVIOUS
<1>1. Accepts /\ chain = Whole
  BY DEF BuildInv, Accepts
<1> QED BY <1>1, WholeIsPart

LEMMA PlacesAreKept == BuildInv => ExtrasKeepPlace
<1> SUFFICES ASSUME BuildInv, Built
             PROVE  /\ ~Panics
                    /\ Range(chain) =
                          {Stage(s) : s \in config.stages}
                          \cup {[stage |-> "extra", extra |-> i] :
                                   i \in DOMAIN config.extras}
                    /\ \A i, j \in DOMAIN chain : i < j =>
                          \/ Rank(chain[i]) < Rank(chain[j])
                          \/ /\ Rank(chain[i]) = Rank(chain[j])
                             /\ chain[i].extra < chain[j].extra
  BY DEF ExtrasKeepPlace
<1>1. Accepts /\ IsPart(chain, Wanted, 2, 43)
  BY BuiltAsWanted
<1>2. DOMAIN chain = 1 .. Len(chain)
  BY <1>1 DEF IsPart
<1>3. Range(chain) = Wanted
  BY <1>1, <1>2 DEF IsPart, Range
<1>4. Wanted = {Stage(s) : s \in config.stages}
               \cup {[stage |-> "extra", extra |-> i] : i \in DOMAIN config.extras}
  BY DEF Wanted, ExtraLinks, ExtraLink
<1>5. \A i, j \in DOMAIN chain : i < j => Earlier(chain[i], chain[j])
  BY <1>1, <1>2 DEF IsPart
<1> QED BY <1>1, <1>3, <1>4, <1>5 DEF Accepts, Earlier

\* Whatever is configured, BuildChain (chain.go:207-263, with
\* appendStage and validateExtraMiddleware) puts every stage and
\* every extra where its documentation says, or panics.
THEOREM ChainIsBuilt == Spec => []ExtrasKeepPlace
<1>1. Spec => []BuildInv
  BY BuildInit, BuildNext, PTL DEF Spec
<1> QED BY <1>1, PlacesAreKept, PTL

(***************************************************************************)
(*                               NEGOTIATION                               *)
(***************************************************************************)
\* Best goes through the matches one after the other.
LEMMA BestSteps ==
    ASSUME NEW s, NEW n \in Nat, DOMAIN s = 1 .. n
    PROVE  \E best :
              /\ best[1 .. 0] = Nothing
              /\ \A k \in 0 .. n - 1 :
                    best[1 .. k + 1] = Better(best[1 .. k], s[k + 1])
              /\ Best(s) = best[1 .. n]
<1> DEFINE A == {Nothing} \cup {s[i] : i \in 1 .. n}
           step == [p \in (1 .. n) \X A |-> Better(p[2], s[p[1]])]
           Fold(f) == [t \in SUBSET (1 .. n) |->
                         IF t = {} THEN Nothing
                         ELSE Better(f[t \ {Max(t)}], s[Max(t)])]
           best == CHOOSE f : f = Fold(f)
<1>1. step \in [(1 .. n) \X A -> A]
  BY DEF Better
<1>2. PICK f \in [SUBSET (1 .. n) -> A] : Folds(f, n, Nothing, step)
  <2> HIDE DEF step
  <2> QED BY <1>1, FoldExists
<1>3. f = Fold(f)
  <2>1. ASSUME NEW t \in SUBSET (1 .. n), t # {}
        PROVE  f[t] = Better(f[t \ {Max(t)}], s[Max(t)])
    <3>1. Max(t) \in 1 .. n /\ f[t] = step[<<Max(t), f[t \ {Max(t)}]>>]
      BY <1>2, <2>1 DEF Folds
    <3>2. f[t \ {Max(t)}] \in A
      OBVIOUS
    <3> QED BY <3>1, <3>2
  <2>2. f[{}] = Nothing
    BY <1>2 DEF Folds
  <2> QED BY <2>1, <2>2
<1>4. best = Fold(best)
  BY <1>3
<1>5. Best(s) = best[1 .. n]
  BY DEF Best, FoldLeft, MapThenFoldSet
<1> HIDE DEF best
<1>6. best[1 .. 0] = Nothing
  <2>1. 1 .. 0 = {} /\ {} \in SUBSET (1 .. n)
    OBVIOUS
  <2> QED BY <1>4, <2>1
<1>7. ASSUME NEW k \in 0 .. n - 1
      PROVE  best[1 .. k + 1] = Better(best[1 .. k], s[k + 1])
  <2> DEFINE t == 1 .. k + 1
  <2>1. t \in SUBSET (1 .. n) /\ k + 1 \in t /\ t \ {k + 1} = 1 .. k
    OBVIOUS
  <2>2. Max(t) = k + 1
    BY <2>1, MaxOfUpTo
  <2> HIDE DEF t
  <2>3. best[t] = Better(best[t \ {Max(t)}], s[Max(t)])
    BY <1>4, <2>1
  <2> QED BY <2>1, <2>2, <2>3 DEF t
<1> QED BY <1>5, <1>6, <1>7

\* The first of the most specific of the first k matches.
Leads(s, k, i) ==
    /\ s[i].specificity >= 0
    /\ \A j \in (1 .. k) \ {i} :
          \/ s[j].specificity < s[i].specificity
          \/ s[j].specificity = s[i].specificity /\ i < j

\* Best keeps the match that leads, if any entry matches.
LEMMA BestLeads ==
    ASSUME NEW s, NEW n \in Nat, DOMAIN s = 1 .. n,
           \A i \in 1 .. n : s[i].specificity \in Int /\ s[i].specificity >= -1
    PROVE  \/ /\ Best(s) = Nothing
              /\ \A i \in 1 .. n : s[i].specificity < 0
           \/ \E i \in 1 .. n : Best(s) = s[i] /\ Leads(s, n, i)
<1>1. PICK best :
         /\ best[1 .. 0] = Nothing
         /\ \A k \in 0 .. n - 1 :
               best[1 .. k + 1] = Better(best[1 .. k], s[k + 1])
         /\ Best(s) = best[1 .. n]
  BY BestSteps
<1> DEFINE Claim(k) ==
             \/ /\ best[1 .. k] = Nothing
                /\ \A i \in 1 .. k : s[i].specificity < 0
             \/ \E i \in 1 .. k : best[1 .. k] = s[i] /\ Leads(s, k, i)
           T == {k \in 0 .. n : Claim(k)}
<1>2. 0 \in T
  BY <1>1
<1>3. ASSUME NEW k \in 0 .. n - 1, k \in T PROVE k + 1 \in T
  <2>1. Claim(k)
    BY <1>3
  <2>2. best[1 .. k + 1] = Better(best[1 .. k], s[k + 1])
    BY <1>1
  <2>3. s[k + 1].specificity \in Int /\ s[k + 1].specificity >= -1
    OBVIOUS
  <2>4. \A i \in 1 .. k + 1 : i \in 1 .. k \/ i = k + 1
    OBVIOUS
  <2>5. CASE /\ best[1 .. k] = Nothing
             /\ \A i \in 1 .. k : s[i].specificity < 0
    <3>1. Nothing.specificity = -1
      BY DEF Nothing
    <3>2. CASE s[k + 1].specificity > -1
      <4>1. best[1 .. k + 1] = s[k + 1]
        BY <2>2, <2>5, <3>1, <3>2 DEF Better
      <4>2. Leads(s, k + 1, k + 1)
        BY <2>3, <2>4, <2>5, <3>2 DEF Leads
      <4>3. k + 1 \in 1 .. k + 1
        OBVIOUS
      <4>4. Claim(k + 1)
        BY <4>1, <4>2, <4>3
      <4> QED BY <4>4
    <3>3. CASE ~(s[k + 1].specificity > -1)
      <4>1. best[1 .. k + 1] = Nothing
        BY <2>2, <2>5, <3>1, <3>3 DEF Better
      <4>2. \A i \in 1 .. k + 1 : s[i].specificity < 0
        BY <2>3, <2>4, <2>5, <3>3
      <4>3. Claim(k + 1)
        BY <4>1, <4>2
      <4> QED BY <4>3
    <3> QED BY <3>2, <3>3
  <2>6. ASSUME NEW i \in 1 .. k, best[1 .. k] = s[i], Leads(s, k, i)
        PROVE  k + 1 \in T
    <3>1. s[i].specificity \in Int
      OBVIOUS
    <3>2. CASE s[k + 1].specificity > s[i].specificity
      <4>1. best[1 .. k + 1] = s[k + 1]
        BY <2>2, <2>6, <3>2 DEF Better
      <4>2. ASSUME NEW j \in (1 .. k + 1) \ {k + 1}
            PROVE  s[j].specificity < s[k + 1].specificity
        <5>1. j \in 1 .. k /\ s[j].specificity \in Int
          BY <2>4
        <5>2. s[j].specificity <= s[i].specificity
          BY <2>6, <3>1, <5>1 DEF Leads
        <5> QED BY <2>3, <3>1, <3>2, <5>1, <5>2
      <4>3. Leads(s, k + 1, k + 1)
        BY <2>3, <2>6, <3>1, <3>2, <4>2 DEF Leads
      <4>4. k + 1 \in 1 .. k + 1
        OBVIOUS
      <4>5. Claim(k + 1)
        BY <4>1, <4>3, <4>4
      <4> QED BY <4>5
    <3>3. CASE ~(s[k + 1].specificity > s[i].specificity)
      <4>1. best[1 .. k + 1] = s[i]
        BY <2>2, <2>6, <3>3 DEF Better
      <4>2. Leads(s, k + 1, i)
        BY <2>3, <2>4, <2>6, <3>1, <3>3 DEF Leads
      <4>3. i \in 1 .. k + 1
        OBVIOUS
      <4>4. Claim(k + 1)
        BY <4>1, <4>2, <4>3
      <4> QED BY <4>4
    <3> QED BY <3>2, <3>3
  <2> QED BY <2>1, <2>5, <2>6
<1>4. n \in T
  <2> HIDE DEF T
  <2>1. 0 .. n \subseteq T
    BY <1>2, <1>3, InductionUpTo
  <2> QED BY <2>1
<1>5. Claim(n)
  BY <1>4
<1> QED BY <1>1, <1>5

\* What the scan accepts, then, is what the leading entry says.
LEMMA BestIsWanted ==
    ASSUME NEW s, NEW n \in Nat, DOMAIN s = 1 .. n,
           \A i \in 1 .. n : s[i].specificity \in Int /\ s[i].specificity >= -1
    PROVE  Best(s).quality > 0
              <=> \E i \in 1 .. n : Leads(s, n, i) /\ s[i].quality > 0
<1>1. CASE Best(s) = Nothing /\ \A i \in 1 .. n : s[i].specificity < 0
  <2>1. Nothing.quality = 0
    BY DEF Nothing
  <2> QED BY <1>1, <2>1 DEF Leads
<1>2. ASSUME NEW i \in 1 .. n, Best(s) = s[i], Leads(s, n, i),
             NEW j \in 1 .. n, Leads(s, n, j)
      PROVE  i = j
  BY <1>2 DEF Leads
<1> QED BY <1>1, <1>2, BestLeads

LEMMA GzipIsAccepted ==
    ASSUME NEW ranges \in Ranges
    PROVE  AcceptsGzip(ranges) <=> Accepted(ranges, CodingSpecificity)
<1> DEFINE s == Matches(ranges, CodingSpecificity)
           n == Len(ranges)
<1>1. n \in Nat /\ DOMAIN ranges = 1 .. n /\ DOMAIN s = 1 .. n
  BY DEF Ranges, Matches
<1>2. ASSUME NEW i \in 1 .. n
      PROVE  /\ s[i].specificity = CodingSpecificity(ranges[i].range)
             /\ s[i].quality = Quality(ranges[i])
             /\ s[i].specificity \in Int /\ s[i].specificity >= -1
  <2>1. /\ s[i].specificity = CodingSpecificity(ranges[i].range)
        /\ s[i].quality = Quality(ranges[i])
    BY <1>1 DEF Matches
  <2>2. CodingSpecificity(ranges[i].range) \in {-1, 0, 1}
    BY DEF CodingSpecificity
  <2> QED BY <2>1, <2>2
<1>3. AcceptsGzip(ranges) <=> Best(s).quality > 0
  BY DEF AcceptsGzip
<1> HIDE DEF s, n
<1>4. AcceptsGzip(ranges)
         <=> \E i \in 1 .. n : Leads(s, n, i) /\ s[i].quality > 0
  BY <1>1, <1>2, <1>3, BestIsWanted
<1>5. ASSUME NEW i \in 1 .. n
      PROVE  Leads(s, n, i)
                <=> /\ CodingSpecificity(ranges[i].range) >= 0
                    /\ \A j \in DOMAIN ranges \ {i} :
                          \/ CodingSpecificity(ranges[j].range)
                                < CodingSpecificity(ranges[i].range)
                          \/ /\ CodingSpecificity(ranges[j].range)
                                   = CodingSpecificity(ranges[i].range)
                             /\ i < j
  BY <1>1, <1>2 DEF Leads
<1> QED BY <1>1, <1>2, <1>4, <1>5 DEF Accepted

LEMMA JSONIsAccepted ==
    ASSUME NEW ranges \in Ranges
    PROVE  AcceptsJSON(ranges)
              <=> ranges = <<>> \/ Accepted(ranges, MediaSpecificity)
<1> DEFINE s == Matches(ranges, MediaSpecificity)
           n == Len(ranges)
<1>1. n \in Nat /\ DOMAIN ranges = 1 .. n /\ DOMAIN s = 1 .. n
  BY DEF Ranges, Matches
<1>2. ASSUME NEW i \in 1 .. n
      PROVE  /\ s[i].specificity = MediaSpecificity(ranges[i].range)
             /\ s[i].quality = Quality(ranges[i])
             /\ s[i].specificity \in Int /\ s[i].specificity >= -1
  <2>1. /\ s[i].specificity = MediaSpecificity(ranges[i].range)
        /\ s[i].quality = Quality(ranges[i])
    BY <1>1 DEF Matches
  <2>2. MediaSpecificity(ranges[i].range) \in {-1, 0, 1, 2}
    BY DEF MediaSpecificity
  <2> QED BY <2>1, <2>2
<1>3. AcceptsJSON(ranges) <=> ranges = <<>> \/ Best(s).quality > 0
  BY DEF AcceptsJSON
<1> HIDE DEF s, n
<1>4. AcceptsJSON(ranges)
         <=> \/ ranges = <<>>
             \/ \E i \in 1 .. n : Leads(s, n, i) /\ s[i].quality > 0
  BY <1>1, <1>2, <1>3, BestIsWanted
<1>5. ASSUME NEW i \in 1 .. n
      PROVE  Leads(s, n, i)
                <=> /\ MediaSpecificity(ranges[i].range) >= 0
                    /\ \A j \in DOMAIN ranges \ {i} :
                          \/ MediaSpecificity(ranges[j].range)
                                < MediaSpecificity(ranges[i].range)
                          \/ /\ MediaSpecificity(ranges[j].range)
                                   = MediaSpecificity(ranges[i].range)
                             /\ i < j
  BY <1>1, <1>2 DEF Leads
<1> QED BY <1>1, <1>2, <1>4, <1>5 DEF Accepted

(***************************************************************************)
(*                                 REALIP                                  *)
(***************************************************************************)
\* Trust takes the options one after the other.
LEMMA TrustSteps ==
    ASSUME NEW n \in Nat, DOMAIN config.trust = 1 .. n
    PROVE  \E c :
              /\ c[1 .. 0] = [all |-> FALSE, proxies |-> {}]
              /\ \A k \in 0 .. n - 1 :
                    c[1 .. k + 1] = ApplyOption(c[1 .. k], config.trust[k + 1])
              /\ Trust = c[1 .. n]
<1> DEFINE s == config.trust
           Base == [all |-> FALSE, proxies |-> {}]
           U == UNION {s[i].proxies : i \in 1 .. n}
           A == [all: BOOLEAN, proxies: SUBSET U]
           step == [p \in (1 .. n) \X A |-> ApplyOption(p[2], s[p[1]])]
           Fold(f) == [t \in SUBSET (1 .. n) |->
                         IF t = {} THEN Base
                         ELSE ApplyOption(f[t \ {Max(t)}], s[Max(t)])]
           c == CHOOSE f : f = Fold(f)
<1>1. step \in [(1 .. n) \X A -> A]
  <2>1. ASSUME NEW i \in 1 .. n, NEW a \in A PROVE ApplyOption(a, s[i]) \in A
    <3>1. s[i].proxies \subseteq U
      OBVIOUS
    <3> HIDE DEF s, U
    <3> QED BY <3>1 DEF ApplyOption
  <2> HIDE DEF A, s
  <2> QED BY <2>1
<1>2. PICK f \in [SUBSET (1 .. n) -> A] : Folds(f, n, Base, step)
  <2>1. Base \in A
    OBVIOUS
  <2> HIDE DEF step, A, Base
  <2> QED BY <1>1, <2>1, FoldExists
<1>3. f = Fold(f)
  <2> HIDE DEF A, Base, s
  <2>1. ASSUME NEW t \in SUBSET (1 .. n), t # {}
        PROVE  f[t] = ApplyOption(f[t \ {Max(t)}], s[Max(t)])
    <3>1. Max(t) \in 1 .. n /\ f[t] = step[<<Max(t), f[t \ {Max(t)}]>>]
      BY <1>2, <2>1 DEF Folds
    <3>2. f[t \ {Max(t)}] \in A
      OBVIOUS
    <3> QED BY <3>1, <3>2
  <2>2. f[{}] = Base
    BY <1>2 DEF Folds
  <2> QED BY <2>1, <2>2
<1>4. c = Fold(c)
  BY <1>3
<1>5. Trust = c[1 .. n]
  BY DEF Trust, FoldLeft, MapThenFoldSet
<1> HIDE DEF c, s, Base
<1>6. c[1 .. 0] = Base
  <2>1. 1 .. 0 = {} /\ {} \in SUBSET (1 .. n)
    OBVIOUS
  <2> QED BY <1>4, <2>1
<1>7. ASSUME NEW k \in 0 .. n - 1
      PROVE  c[1 .. k + 1] = ApplyOption(c[1 .. k], s[k + 1])
  <2> DEFINE t == 1 .. k + 1
  <2>1. t \in SUBSET (1 .. n) /\ k + 1 \in t /\ t \ {k + 1} = 1 .. k
    OBVIOUS
  <2>2. Max(t) = k + 1
    BY <2>1, MaxOfUpTo
  <2> HIDE DEF t
  <2>3. c[t] = ApplyOption(c[t \ {Max(t)}], s[Max(t)])
    BY <1>4, <2>1
  <2> QED BY <2>1, <2>2, <2>3 DEF t
<1> QED BY <1>5, <1>6, <1>7 DEF s, Base

\* The last option decides whether everyone is trusted; the networks are
\* those of the options, the last one's among them.
LEMMA LastOptionDecides ==
    ASSUME NEW n \in Nat, DOMAIN config.trust = 1 .. n, n # 0,
           ~config.trust[n].any
    PROVE  /\ ~Trust.all
           /\ config.trust[n].proxies \subseteq Trust.proxies
           /\ Trust.proxies \subseteq UNION {config.trust[i].proxies : i \in 1 .. n}
<1> DEFINE U == UNION {config.trust[i].proxies : i \in 1 .. n}
<1>1. PICK c :
         /\ c[1 .. 0] = [all |-> FALSE, proxies |-> {}]
         /\ \A k \in 0 .. n - 1 :
               c[1 .. k + 1] = ApplyOption(c[1 .. k], config.trust[k + 1])
         /\ Trust = c[1 .. n]
  BY TrustSteps
<1> DEFINE T == {k \in 0 .. n : c[1 .. k].proxies \subseteq U}
<1>2. 0 \in T
  BY <1>1
<1>3. ASSUME NEW k \in 0 .. n - 1, k \in T PROVE k + 1 \in T
  <2>1. config.trust[k + 1].proxies \subseteq U
    OBVIOUS
  <2>2. c[1 .. k + 1] = ApplyOption(c[1 .. k], config.trust[k + 1])
    BY <1>1
  <2>3. c[1 .. k].proxies \subseteq U
    BY <1>3
  <2> HIDE DEF U
  <2>4. c[1 .. k + 1].proxies \subseteq U
    BY <2>1, <2>2, <2>3 DEF ApplyOption
  <2> QED BY <2>4
<1>4. n \in T
  <2> HIDE DEF T
  <2>1. 0 .. n \subseteq T
    BY <1>2, <1>3, InductionUpTo
  <2> QED BY <2>1
<1>5. Trust = ApplyOption(c[1 .. n - 1], config.trust[n])
  BY <1>1
<1> QED BY <1>1, <1>4, <1>5 DEF ApplyOption

(***************************************************************************)
(*                          THE WAY OF A REQUEST                           *)
(***************************************************************************)
\* Where the links are.
LEMMA PlaceFacts ==
    ASSUME BuildInv, Built
    PROVE  /\ Len(chain) \in Nat /\ DOMAIN chain = 1 .. Len(chain)
           /\ \A s \in config.stages :
                 /\ Place(s) \in 1 .. Len(chain) /\ Place(s) # 0
                 /\ chain[Place(s)] = Stage(s)
           /\ \A s \in Anchors \ config.stages : Place(s) = 0
           /\ \A i \in 1 .. Len(chain) :
                 chain[i].stage # "extra" =>
                    /\ chain[i].stage \in config.stages
                    /\ Place(chain[i].stage) = i
           /\ config.stages \subseteq Anchors
<1>1. IsPart(chain, Wanted, 2, 43)
  BY BuiltAsWanted
<1>2. config.stages \subseteq Anchors
  BY ConfigsAssumption DEF BuildInv
<1>3. Len(chain) \in Nat /\ DOMAIN chain = 1 .. Len(chain)
  BY <1>1 DEF IsPart
<1>4. \A i, j \in 1 .. Len(chain) : chain[i] = chain[j] => i = j
  <2>1. ASSUME NEW i \in 1 .. Len(chain), NEW j \in 1 .. Len(chain),
               i < j, chain[i] = chain[j]
        PROVE  FALSE
    <3>1. Earlier(chain[i], chain[j])
      BY <1>1, <2>1 DEF IsPart
    <3>2. PICK r \in 2 .. 43 : r = Rank(chain[i])
      BY <1>1 DEF IsPart
    <3>3. r = Rank(chain[j])
      BY <2>1, <3>2
    <3>4. chain[i].extra < chain[i].extra
      <4>1. r < r \/ chain[i].extra < chain[j].extra
        BY <3>1, <3>2, <3>3 DEF Earlier
      <4>2. ~(r < r)
        OBVIOUS
      <4> QED BY <2>1, <4>1, <4>2
    <3>5. chain[i] \in Wanted
      BY <1>1 DEF IsPart
    <3>6. chain[i].extra \in Nat
      <4>1. DOMAIN config.extras \subseteq Nat
        BY <2>1, BuiltAsWanted, ExtrasAreValid
      <4> QED BY <3>5, <4>1 DEF Wanted, Stage, ExtraLinks, ExtraLink
    <3> QED BY <3>4, <3>6
  <2> QED BY <2>1, <1>3
<1>5. ASSUME NEW s, NEW i \in 1 .. Len(chain), chain[i] = Stage(s)
      PROVE  Place(s) = i
  <2>1. {j \in DOMAIN chain : chain[j] = Stage(s)} = {i}
    BY <1>3, <1>4, <1>5
  <2> QED BY <2>1 DEF Place
<1>6. ASSUME NEW s \in config.stages
      PROVE  /\ Place(s) \in 1 .. Len(chain) /\ Place(s) # 0
             /\ chain[Place(s)] = Stage(s)
  <2>1. Stage(s) \in Wanted
    BY DEF Wanted
  <2>2. PICK i \in 1 .. Len(chain) : Stage(s) = chain[i]
    BY <1>1, <2>1 DEF IsPart
  <2>3. i # 0
    BY <1>3
  <2> QED BY <1>5, <2>2, <2>3
<1>7. ASSUME NEW i \in 1 .. Len(chain), chain[i].stage # "extra"
      PROVE  chain[i].stage \in config.stages /\ Place(chain[i].stage) = i
  <2>1. chain[i] \in Wanted
    BY <1>1 DEF IsPart
  <2>2. PICK s \in config.stages : chain[i] = Stage(s)
    BY <1>7, <2>1 DEF Wanted, ExtraLinks, ExtraLink
  <2>3. chain[i].stage = s
    BY <2>2 DEF Stage
  <2> QED BY <1>5, <2>2, <2>3
<1>8. ASSUME NEW s \in Anchors \ config.stages
      PROVE  Place(s) = 0
  <2>1. s # "extra"
    BY OrderFacts
  <2>2. ASSUME NEW i \in DOMAIN chain, chain[i] = Stage(s) PROVE FALSE
    <3>1. chain[i].stage = s
      BY <2>2 DEF Stage
    <3> QED BY <1>3, <1>7, <2>1, <3>1
  <2>3. {i \in DOMAIN chain : chain[i] = Stage(s)} = {}
    BY <2>2
  <2> QED BY <2>3 DEF Place
<1> QED BY <1>2, <1>3, <1>6, <1>7, <1>8

\* The names the proofs speak of are those of anchors.
LEMMA AnchorNames ==
    /\ {"recover", "timeout", "strip_slashes", "redirect_slashes", "real_ip",
        "request_id", "secure_headers"} \subseteq Anchors
    /\ {"rate_limit", "throttle", "etag", "compress", "cors", "service_desc",
        "logging"} \subseteq Anchors
<1>1. /\ Order[1] = "recover" /\ Order[2] = "timeout"
      /\ Order[3] = "strip_slashes" /\ Order[4] = "redirect_slashes"
      /\ Order[5] = "real_ip" /\ Order[6] = "request_id"
      /\ Order[7] = "secure_headers" /\ Order[8] = "rate_limit"
      /\ Order[9] = "throttle" /\ Order[10] = "etag"
      /\ Order[11] = "compress" /\ Order[12] = "cors"
      /\ Order[13] = "service_desc" /\ Order[14] = "logging"
  BY DEF Order
<1>2. \A i \in 1 .. 14 : Order[i] \in Anchors
  BY OrderFacts
<1> QED BY <1>1, <1>2

\* RealIP is outside RateLimit.
LEMMA RealIPFirst ==
    ASSUME BuildInv, Built, {"real_ip", "rate_limit"} \subseteq config.stages
    PROVE  Place("real_ip") < Place("rate_limit")
<1> DEFINE i == Place("real_ip")
           j == Place("rate_limit")
<1>1. /\ i \in 1 .. Len(chain) /\ chain[i] = Stage("real_ip")
      /\ j \in 1 .. Len(chain) /\ chain[j] = Stage("rate_limit")
  BY PlaceFacts
<1>2. Order[5] = "real_ip" /\ Order[8] = "rate_limit"
  BY DEF Order
<1>3. Rank(chain[i]) = 15 /\ Rank(chain[j]) = 24
  <2>1. Rank(Stage(Order[5])) = 3 * 5 /\ Rank(Stage(Order[8])) = 3 * 8
    BY RankOfStage
  <2> QED BY <1>1, <1>2, <2>1
<1>4. IsPart(chain, Wanted, 2, 43)
  BY BuiltAsWanted
<1> HIDE DEF i, j
<1>5. ~(j < i)
  <2>1. SUFFICES ASSUME j < i PROVE FALSE
    OBVIOUS
  <2>2. Earlier(chain[j], chain[i])
    BY <1>1, <1>4, <2>1 DEF IsPart
  <2> QED BY <1>3, <2>2 DEF Earlier
<1>6. i # j
  BY <1>3
<1>7. i < j
  BY <1>1, <1>5, <1>6, PlaceFacts
<1> QED BY <1>7 DEF i, j

(***************************************************************************)
(* What the links have made of the request when it is at a place, in terms *)
(* of those it has passed.                                                 *)
(***************************************************************************)
Passed(s) == Place(s) # 0 /\ Place(s) < at

\* The names a link that passes a request on sets in the header.
Says(s) ==
    CASE s = "request_id" -> {"X-Request-Id"}
      [] s = "secure_headers" -> {"X-Content-Type-Options"}
      [] s = "rate_limit" -> {"X-RateLimit-Limit"}
      [] s = "cors" -> CORSHeader
      [] s = "service_desc" -> {"Link"}
      [] OTHER -> {}

HeaderInv ==
    /\ \A h \in header :
          /\ h.at \in 1 .. Len(chain) /\ h.at < at
          /\ h.name \in Says(chain[h.at].stage)
    /\ \A s \in DOMAIN MarkOf : Passed(s) =>
          [name |-> MarkOf[s], at |-> Place(s)] \in header

Stripped == Passed("strip_slashes") /\ EndsInSlash(request)

Client ==
    LET named == IF Trusts(request.remote) THEN Forwarded(request) ELSE ""
    IN  IF named # "" THEN named
        ELSE IF request.port THEN request.remote ELSE ""

SeenInv ==
    /\ seen = [path |-> seen.path, slashes |-> seen.slashes,
               ip |-> seen.ip, gzip |-> seen.gzip]
    /\ seen.path = IF Stripped /\ request.path = "escaped"
                   THEN "unescaped" ELSE request.path
    /\ seen.slashes = IF Stripped THEN request.slashes - 1 ELSE request.slashes
    /\ seen.ip = IF Passed("real_ip") THEN Client ELSE ""
    /\ seen.gzip <=> /\ Passed("compress")
                     /\ AcceptsGzip(request.encodings)
                     /\ ~request.range
    /\ Passed("redirect_slashes") => ~EndsInSlash(request)

PreflightInv ==
    "cors" \in config.stages /\ IsPreflight(request) => at <= Place("cors")

KeyInv ==
    key # "none" =>
        key = Bucket[IF "real_ip" \in config.stages /\ Client # "" THEN Client
                     ELSE request.remote]

\* The links that can answer, each with what it says.
AnsweredAt(s, status, names, location) ==
    /\ at \in 1 .. Len(chain) /\ chain[at].stage = s
    /\ answer = [status |-> status, by |-> at, header |-> header \cup Set(names),
                 location |-> location]

\* What the buffers have let through when something panics.
Released == {h \in header : \A b \in Buffers : h.at < b \/ at < b}

ServedStatus ==
    LET status == MuxStatus(seen, request.method)
    IN  IF status = 200 /\ ~AcceptsJSON(request.accept) THEN 406 ELSE status

MuxAnswer ==
    [status |-> ServedStatus, by |-> at, header |-> header \cup Set({}),
     location |-> "none"]

ServedByMux == at = Len(chain) + 1 /\ answer = MuxAnswer

Verdict ==
    \/ answer.status = 0
    \/ /\ EndsInSlash(seen)
       /\ AnsweredAt("redirect_slashes", 308, {"Location"}, TrimSlash(seen).path)
    \/ AnsweredAt("rate_limit", 503, {}, "none")
    \/ AnsweredAt("rate_limit", 429, {"X-RateLimit-Limit", "Retry-After"}, "none")
    \/ AnsweredAt("throttle", 429, {}, "none")
    \/ AnsweredAt("throttle", 200, {}, "none")
    \/ AnsweredAt("cors", 204, CORSHeader, "none") /\ IsPreflight(request)
    \/ AnsweredAt("extra", 403, {}, "none")
    \/ ServedByMux
    \/ /\ Place("timeout") # 0 /\ at > Place("timeout")
       /\ answer = [status |-> 503, by |-> Place("timeout"),
                    header |-> Before(Place("timeout")), location |-> "none"]
    \/ /\ at = Len(chain) + 1 \/ chain[at].stage = "extra"
       /\ Place("recover") # 0 /\ at >= Place("recover")
       /\ answer = [status |-> 500, by |-> Place("recover"),
                    header |-> Released, location |-> "none"]

WayInv ==
    /\ BuildInv
    /\ pc \notin {"down", "done"} => header = {} /\ key = "none"
    /\ pc \in {"down", "done"} =>
          /\ request \in RequestsFor(config)
          /\ at \in 1 .. Len(chain) + 1
          /\ HeaderInv /\ SeenInv /\ KeyInv /\ PreflightInv
    /\ pc = "done" => Verdict

LEMMA WayInit == Init => WayInv
<1>1. Init => BuildInv
  BY BuildInit
<1> QED BY <1>1 DEF Init, WayInv

LEMMA WayReceive == WayInv /\ Receive => WayInv'
<1> SUFFICES ASSUME WayInv, Receive PROVE WayInv'
  OBVIOUS
<1>1. BuildInv /\ Built /\ BuildInv'
  <2>1. BuildInv /\ Built
    BY DEF WayInv, Receive, Built
  <2>2. [Next]_vars
    BY DEF Next
  <2> QED BY <2>1, <2>2, BuildNext
<1>2. /\ pc' = "down" /\ at' = 1 /\ header' = {} /\ key' = "none"
      /\ chain' = chain /\ config' = config /\ request' \in RequestsFor(config)
  BY DEF WayInv, Receive
<1>3. ASSUME NEW s \in Anchors PROVE Place(s)' = Place(s) /\ Place(s) \in Nat
  <2>1. Place(s) \in Nat
    BY <1>1, PlaceFacts
  <2> QED BY <1>2, <2>1 DEF Place
<1>4. ASSUME NEW s \in Anchors PROVE ~Passed(s)'
  BY <1>2, <1>3 DEF Passed
<1>5. DOMAIN MarkOf \subseteq Anchors
  BY AnchorNames DEF MarkOf
<1>6. HeaderInv'
  BY <1>2, <1>4, <1>5 DEF HeaderInv
<1>7. SeenInv'
  <2>1. /\ ~Passed("strip_slashes")' /\ ~Passed("redirect_slashes")'
        /\ ~Passed("real_ip")' /\ ~Passed("compress")'
    BY <1>4, AnchorNames
  <2>2. seen' = [path |-> request'.path, slashes |-> request'.slashes,
                 ip |-> "", gzip |-> FALSE]
    BY DEF Receive
  <2>3. /\ seen'.path = request'.path /\ seen'.slashes = request'.slashes
        /\ seen'.ip = "" /\ seen'.gzip = FALSE
    BY <2>2
  <2> QED BY <2>1, <2>2, <2>3 DEF SeenInv, Stripped
<1>8. KeyInv'
  BY <1>2 DEF KeyInv
<1>9. PreflightInv'
  <2>1. "cors" \in config.stages => Place("cors")' >= 1
    BY <1>1, <1>3, AnchorNames, PlaceFacts
  <2> QED BY <1>2, <2>1 DEF PreflightInv
<1>10. at' \in 1 .. Len(chain') + 1
  BY <1>1, <1>2, PlaceFacts
<1> QED BY <1>1, <1>2, <1>6, <1>7, <1>8, <1>9, <1>10 DEF WayInv

\* What depends on the configuration, the chain and the request alone.
LEMMA FrameStays ==
    ASSUME UNCHANGED <<config, chain, request>>
    PROVE  /\ \A s : Place(s)' = Place(s)
           /\ Client' = Client
           /\ AcceptsGzip(request.encodings)' = AcceptsGzip(request.encodings)
           /\ AcceptsJSON(request.accept)' = AcceptsJSON(request.accept)
           /\ EndsInSlash(request)' = EndsInSlash(request)
           /\ IsPreflight(request)' = IsPreflight(request)
           /\ CORSHeader' = CORSHeader
           /\ Buffers' = Buffers
<1>1. ASSUME NEW s PROVE Place(s)' = Place(s)
  BY DEF Place
<1>2. Client' = Client
  <2>1. Trust' = Trust
    BY DEF Trust, ApplyOption, FoldLeft, MapThenFoldSet
  <2>2. Trusts(request.remote)' = Trusts(request.remote)
    BY <2>1 DEF Trusts
  <2>3. Forwarded(request)' = Forwarded(request)
    BY DEF Forwarded
  <2> QED BY <2>2, <2>3 DEF Client
<1>3. AcceptsGzip(request.encodings)' = AcceptsGzip(request.encodings)
  OBVIOUS
<1>4. AcceptsJSON(request.accept)' = AcceptsJSON(request.accept)
  OBVIOUS
<1>5. EndsInSlash(request)' = EndsInSlash(request)
  BY DEF EndsInSlash
<1>6. IsPreflight(request)' = IsPreflight(request)
  BY DEF IsPreflight
<1>7. CORSHeader' = CORSHeader
  BY DEF CORSHeader, IsAllowedOrigin
<1>8. Buffers' = Buffers
  BY <1>1 DEF Buffers
<1> QED BY <1>1, <1>2, <1>3, <1>4, <1>5, <1>6, <1>7, <1>8

LEMMA MarkFacts ==
    /\ DOMAIN MarkOf \subseteq Anchors
    /\ \A s \in DOMAIN MarkOf : MarkOf[s] \in Says(s)
    /\ \A s \in DOMAIN MarkOf : \A t : MarkOf[s] \in Says(t) => t = s
<1>1. DOMAIN MarkOf = {"request_id", "secure_headers", "cors", "service_desc"}
  BY DEF MarkOf
<1>2. /\ MarkOf["request_id"] = "X-Request-Id"
      /\ MarkOf["secure_headers"] = "X-Content-Type-Options"
      /\ MarkOf["cors"] = "Vary"
      /\ MarkOf["service_desc"] = "Link"
  BY DEF MarkOf
<1>3. ASSUME NEW s \in DOMAIN MarkOf PROVE MarkOf[s] \in Says(s)
  BY <1>1, <1>2 DEF Says, CORSHeader
<1>4. CORSHeader \subseteq {"Vary", "Access-Control-Allow-Methods",
                            "Access-Control-Allow-Origin"}
  BY DEF CORSHeader
<1>5. ASSUME NEW t
      PROVE  /\ "X-Request-Id" \in Says(t) => t = "request_id"
             /\ "X-Content-Type-Options" \in Says(t) => t = "secure_headers"
             /\ "Vary" \in Says(t) => t = "cors"
             /\ "Link" \in Says(t) => t = "service_desc"
  BY <1>4 DEF Says
<1> QED BY <1>1, <1>2, <1>3, <1>5, AnchorNames

\* A link passes the request on.
Forwards ==
    /\ pc = "down"
    /\ at \in 1 .. Len(chain)
    /\ UNCHANGED <<config, chain, pc, request>>
    /\ at' = at + 1
    /\ header' = header \cup Set(Says(chain[at].stage))

LEMMA PassedNext ==
    ASSUME WayInv, Forwards
    PROVE  \A s \in Anchors :
              /\ Passed(s)' <=> Passed(s) \/ chain[at].stage = s
              /\ ~(Passed(s) /\ chain[at].stage = s)
              /\ chain[at].stage = s => s \in config.stages /\ Place(s) = at
<1> SUFFICES ASSUME NEW s \in Anchors
             PROVE  /\ Passed(s)' <=> Passed(s) \/ chain[at].stage = s
                    /\ ~(Passed(s) /\ chain[at].stage = s)
                    /\ chain[at].stage = s => s \in config.stages /\ Place(s) = at
  OBVIOUS
<1>1. BuildInv /\ Built
  BY DEF WayInv, Forwards, Built
<1>2. PICK n \in 1 .. Len(chain) : n = at /\ at' = n + 1
  BY DEF Forwards
<1>3. PICK p \in Nat : p = Place(s) /\ Place(s)' = p
  BY <1>1, PlaceFacts, FrameStays DEF Forwards
<1>4. n \in Nat /\ n >= 1
  BY <1>1, PlaceFacts
<1>5. chain[n].stage = s => s \in config.stages /\ p = n
  <2>1. s # "extra"
    BY OrderFacts
  <2>2. chain[n].stage # "extra" =>
           chain[n].stage \in config.stages /\ Place(chain[n].stage) = n
    BY <1>1, PlaceFacts
  <2> QED BY <1>3, <2>1, <2>2
<1>6. p = n => chain[n].stage = s
  <2>1. SUFFICES ASSUME p = n PROVE chain[n].stage = s
    OBVIOUS
  <2>2. s \in config.stages
    <3>1. Place(s) # 0
      BY <1>3, <1>4, <2>1
    <3> QED BY <1>1, <3>1, PlaceFacts
  <2>3. chain[n] = Stage(s)
    BY <1>1, <1>3, <2>1, <2>2, PlaceFacts
  <2> QED BY <2>3 DEF Stage
<1>7. Passed(s)' <=> p # 0 /\ p < n + 1
  BY <1>2, <1>3 DEF Passed
<1>8. Passed(s) <=> p # 0 /\ p < n
  BY <1>2, <1>3 DEF Passed
<1>9. p # 0 /\ p < n + 1 <=> (p # 0 /\ p < n) \/ p = n
  BY <1>3, <1>4
<1> QED BY <1>2, <1>3, <1>4, <1>5, <1>6, <1>7, <1>8, <1>9

LEMMA HeaderForward ==
    ASSUME WayInv, Forwards
    PROVE  HeaderInv'
<1>1. BuildInv /\ Built /\ HeaderInv
  BY DEF WayInv, Forwards, Built
<1>2. PICK n \in 1 .. Len(chain) : n = at /\ at' = n + 1
  BY DEF Forwards
<1>3. chain' = chain /\ header' = header \cup Set(Says(chain[at].stage))
  BY DEF Forwards
<1>4. n \in Nat /\ Len(chain) \in Nat
  BY <1>1, PlaceFacts
<1>5. ASSUME NEW h
      PROVE  Says(chain[h.at].stage)' = Says(chain[h.at].stage)
  <2>1. CORSHeader' = CORSHeader
    BY FrameStays DEF Forwards
  <2> QED BY <1>3, <2>1 DEF Says
<1>6. ASSUME NEW h \in header'
      PROVE  /\ h.at \in 1 .. Len(chain) /\ h.at < n + 1
             /\ h.name \in Says(chain[h.at].stage)
  <2>1. CASE h \in header
    BY <1>1, <1>2, <1>4, <2>1 DEF HeaderInv
  <2>2. CASE h \in Set(Says(chain[at].stage))
    <3>1. PICK m \in Says(chain[n].stage) : h = [name |-> m, at |-> n]
      BY <1>2, <2>2 DEF Set
    <3> QED BY <1>2, <1>4, <3>1
  <2> QED BY <1>3, <2>1, <2>2
<1>7. ASSUME NEW s \in DOMAIN MarkOf, Passed(s)'
      PROVE  [name |-> MarkOf[s], at |-> Place(s)] \in header'
  <2>1. Passed(s) \/ (chain[at].stage = s /\ Place(s) = at)
    BY <1>7, MarkFacts, PassedNext
  <2>2. CASE Passed(s)
    BY <1>1, <1>3, <2>2 DEF HeaderInv
  <2>3. CASE chain[at].stage = s /\ Place(s) = at
    <3>1. MarkOf[s] \in Says(chain[at].stage)
      BY <2>3, MarkFacts
    <3> QED BY <1>3, <2>3, <3>1 DEF Set
  <2> QED BY <2>1, <2>2, <2>3
<1>8. ASSUME NEW s PROVE Place(s)' = Place(s)
  BY FrameStays DEF Forwards
<1>9. \A h \in header' :
         /\ h.at \in 1 .. Len(chain') /\ h.at < at'
         /\ h.name \in Says(chain[h.at].stage)'
  BY <1>2, <1>3, <1>5, <1>6
<1>10. \A s \in DOMAIN MarkOf : Passed(s)' =>
          [name |-> MarkOf[s], at |-> Place(s)'] \in header'
  BY <1>7, <1>8
<1> QED BY <1>9, <1>10 DEF HeaderInv

LEMMA SeenForward ==
    ASSUME WayInv, Forwards,
           chain[at].stage = "strip_slashes" =>
              seen' = IF EndsInSlash(seen) THEN TrimSlash(seen) ELSE seen,
           chain[at].stage = "redirect_slashes" =>
              seen' = seen /\ ~EndsInSlash(seen),
           chain[at].stage = "real_ip" => seen' = [seen EXCEPT !.ip = Client],
           chain[at].stage = "compress" =>
              seen' = [seen EXCEPT !.gzip = /\ AcceptsGzip(request.encodings)
                                            /\ ~request.range],
           chain[at].stage \notin {"strip_slashes", "redirect_slashes",
                                   "real_ip", "compress"} =>
              seen' = seen
    PROVE  SeenInv'
<1>1. SeenInv
  BY DEF WayInv, Forwards
<1>2. ASSUME NEW s \in {"strip_slashes", "redirect_slashes", "real_ip", "compress"}
      PROVE  /\ Passed(s)' <=> Passed(s) \/ chain[at].stage = s
             /\ ~(Passed(s) /\ chain[at].stage = s)
             /\ chain[at].stage = s => s \in config.stages /\ Place(s) = at
  BY PassedNext, AnchorNames
<1>3. chain[at].stage \in {"strip_slashes", "redirect_slashes"} => ~Stripped
  <2>1. BuildInv /\ Built
    BY DEF WayInv, Forwards, Built
  <2>2. ~({"strip_slashes", "redirect_slashes"} \subseteq config.stages)
    BY <2>1 DEF BuildInv, Panics
  <2>3. Passed("strip_slashes") => "strip_slashes" \in config.stages
    BY <2>1, PlaceFacts, AnchorNames DEF Passed
  <2> QED BY <1>2, <2>2, <2>3 DEF Stripped
<1>4. Stripped' <=> Stripped \/ (chain[at].stage = "strip_slashes" /\ EndsInSlash(request))
  BY <1>2, FrameStays DEF Stripped, Forwards
<1>5. ~Stripped => (EndsInSlash(seen) <=> EndsInSlash(request))
  BY <1>1 DEF SeenInv, EndsInSlash
<1>6. \/ chain[at].stage = "strip_slashes" /\ EndsInSlash(seen)
      \/ chain[at].stage = "strip_slashes" /\ ~EndsInSlash(seen)
      \/ chain[at].stage = "redirect_slashes"
      \/ chain[at].stage = "real_ip"
      \/ chain[at].stage = "compress"
      \/ chain[at].stage \notin {"strip_slashes", "redirect_slashes",
                                 "real_ip", "compress"}
  OBVIOUS
\* What each link leaves as it was.
<1>7. /\ seen' = [path |-> seen'.path, slashes |-> seen'.slashes,
                  ip |-> seen'.ip, gzip |-> seen'.gzip]
      /\ seen'.path = IF chain[at].stage = "strip_slashes" /\ EndsInSlash(seen)
                         /\ seen.path = "escaped"
                      THEN "unescaped" ELSE seen.path
      /\ seen'.slashes = IF chain[at].stage = "strip_slashes" /\ EndsInSlash(seen)
                         THEN seen.slashes - 1 ELSE seen.slashes
      /\ seen'.ip = IF chain[at].stage = "real_ip" THEN Client ELSE seen.ip
      /\ chain[at].stage # "compress" => seen'.gzip = seen.gzip
      /\ chain[at].stage = "compress" =>
            (seen'.gzip <=> AcceptsGzip(request.encodings) /\ ~request.range)
  <2>1. CASE chain[at].stage = "strip_slashes" /\ EndsInSlash(seen)
    BY <1>1, <2>1 DEF SeenInv, TrimSlash
  <2>2. CASE chain[at].stage = "strip_slashes" /\ ~EndsInSlash(seen)
    BY <1>1, <2>2 DEF SeenInv
  <2>3. CASE chain[at].stage = "redirect_slashes"
    BY <1>1, <2>3 DEF SeenInv
  <2>4. CASE chain[at].stage = "real_ip"
    BY <1>1, <2>4 DEF SeenInv
  <2>5. CASE chain[at].stage = "compress"
    BY <1>1, <2>5 DEF SeenInv
  <2>6. CASE chain[at].stage \notin {"strip_slashes", "redirect_slashes",
                                     "real_ip", "compress"}
    BY <1>1, <2>6 DEF SeenInv
  <2> QED BY <1>6, <2>1, <2>2, <2>3, <2>4, <2>5, <2>6
<1>8. seen'.path = IF Stripped' /\ request.path = "escaped"
                   THEN "unescaped" ELSE request.path
  BY <1>1, <1>3, <1>4, <1>5, <1>7 DEF SeenInv
<1>9. seen'.slashes = IF Stripped' THEN request.slashes - 1 ELSE request.slashes
  BY <1>1, <1>3, <1>4, <1>5, <1>7 DEF SeenInv
<1>10. seen'.ip = IF Passed("real_ip")' THEN Client ELSE ""
  BY <1>1, <1>2, <1>7 DEF SeenInv
<1>11. seen'.gzip <=> /\ Passed("compress")'
                      /\ AcceptsGzip(request.encodings)
                      /\ ~request.range
  BY <1>1, <1>2, <1>7 DEF SeenInv
<1>12. Passed("redirect_slashes")' => ~EndsInSlash(request)
  BY <1>1, <1>2, <1>3, <1>5 DEF SeenInv
<1>13. /\ EndsInSlash(request)' = EndsInSlash(request) /\ request' = request
       /\ Client' = Client
       /\ AcceptsGzip(request.encodings)' = AcceptsGzip(request.encodings)
  BY FrameStays DEF Forwards
<1> QED BY <1>7, <1>8, <1>9, <1>10, <1>11, <1>12, <1>13 DEF SeenInv

LEMMA OnTheWay ==
    ASSUME WayInv, pc = "down"
    PROVE  /\ BuildInv /\ Built /\ HeaderInv /\ SeenInv /\ KeyInv /\ PreflightInv
           /\ Len(chain) \in Nat /\ at \in 1 .. Len(chain) + 1
<1>1. BuildInv /\ Built
  BY DEF WayInv, Built
<1>2. Len(chain) \in Nat
  BY <1>1, PlaceFacts
<1> QED BY <1>1, <1>2 DEF WayInv

LEMMA AtIsPlace ==
    ASSUME WayInv, NEW s, At(s)
    PROVE  at \in 1 .. Len(chain)
<1>1. pc = "down" /\ at <= Len(chain)
  BY DEF At
<1>2. Len(chain) \in Nat /\ at \in 1 .. Len(chain) + 1
  BY <1>1, OnTheWay
<1> QED BY <1>1, <1>2

LEMMA KeyStays ==
    ASSUME KeyInv, UNCHANGED <<config, chain, request, key>>
    PROVE  KeyInv'
<1>1. Client' = Client
  BY FrameStays
<1> QED BY <1>1 DEF KeyInv

\* RateLimit counts under what RealIP, if it is there, has found.
LEMMA KeyIsCounted ==
    ASSUME WayInv, At("rate_limit"), UNCHANGED <<config, chain, request>>,
           key' = Bucket[IF seen.ip # "" THEN seen.ip ELSE request.remote]
    PROVE  KeyInv'
<1>1. BuildInv /\ Built /\ SeenInv /\ at \in 1 .. Len(chain)
  BY OnTheWay, AtIsPlace DEF At
<1>2. Place("rate_limit") = at /\ "rate_limit" \in config.stages
  BY <1>1, PlaceFacts DEF At
<1>3. Passed("real_ip") <=> "real_ip" \in config.stages
  <2>1. CASE "real_ip" \in config.stages
    <3>1. Place("real_ip") < Place("rate_limit")
      BY <1>1, <1>2, <2>1, RealIPFirst
    <3>2. Place("real_ip") # 0
      BY <1>1, <2>1, PlaceFacts
    <3> QED BY <1>2, <2>1, <3>1, <3>2 DEF Passed
  <2>2. CASE "real_ip" \notin config.stages
    BY <1>1, <2>2, PlaceFacts, AnchorNames DEF Passed
  <2> QED BY <2>1, <2>2
<1>4. seen.ip = IF "real_ip" \in config.stages THEN Client ELSE ""
  BY <1>1, <1>3 DEF SeenInv
<1>5. Client' = Client
  BY FrameStays
<1> QED BY <1>4, <1>5 DEF KeyInv

LEMMA WayForward ==
    ASSUME WayInv, Forwards, Next, SeenInv', KeyInv',
           chain[at].stage = "cors" => ~IsPreflight(request)
    PROVE  WayInv'
<1>1. BuildInv /\ Built /\ PreflightInv
  BY DEF WayInv, Forwards, Built
<1>2. BuildInv'
  BY <1>1, BuildNext
<1>3. HeaderInv'
  BY HeaderForward
<1>4. at' \in 1 .. Len(chain') + 1
  BY <1>1, PlaceFacts DEF Forwards
<1>5. PreflightInv'
  <2>1. SUFFICES ASSUME "cors" \in config.stages, IsPreflight(request)
                 PROVE  at + 1 <= Place("cors")
    BY FrameStays DEF PreflightInv, Forwards
  <2>2. at <= Place("cors")
    BY <1>1, <2>1 DEF PreflightInv
  <2>3. at # Place("cors")
    <3>1. chain[Place("cors")] = Stage("cors")
      BY <1>1, <2>1, PlaceFacts
    <3> QED BY <2>1, <3>1 DEF Stage
  <2>4. PICK n \in Nat, p \in Nat : n = at /\ p = Place("cors")
    BY <1>1, <2>1, PlaceFacts DEF Forwards
  <2>5. n + 1 <= p
    BY <2>2, <2>3, <2>4
  <2> QED BY <2>4, <2>5
<1>6. pc' = "down" /\ request' \in RequestsFor(config')
  <2>1. request \in RequestsFor(config)
    BY DEF WayInv, Forwards
  <2> QED BY <2>1 DEF Forwards
<1> QED BY <1>2, <1>3, <1>4, <1>5, <1>6 DEF WayInv

\* The request comes to its end where it is.
Ends ==
    /\ pc = "down" /\ pc' = "done"
    /\ UNCHANGED <<config, chain, request, seen, at, header>>

LEMMA StandsStill ==
    ASSUME UNCHANGED <<config, chain, request, seen, at, header>>,
           HeaderInv, SeenInv, PreflightInv
    PROVE  HeaderInv' /\ SeenInv' /\ PreflightInv'
<1>1. ASSUME NEW s PROVE Passed(s)' <=> Passed(s)
  BY FrameStays DEF Passed
<1>2. HeaderInv'
  <2>1. ASSUME NEW h PROVE Says(chain[h.at].stage)' = Says(chain[h.at].stage)
    <3>1. CORSHeader' = CORSHeader
      BY FrameStays
    <3> QED BY <3>1 DEF Says
  <2>2. \A h \in header' : /\ h.at \in 1 .. Len(chain') /\ h.at < at'
                           /\ h.name \in Says(chain[h.at].stage)'
    BY <2>1 DEF HeaderInv
  <2>3. \A s \in DOMAIN MarkOf : Passed(s)' =>
           [name |-> MarkOf[s], at |-> Place(s)'] \in header'
    BY <1>1, FrameStays DEF HeaderInv
  <2> QED BY <2>2, <2>3 DEF HeaderInv
<1>3. SeenInv'
  <2>1. Stripped' <=> Stripped
    BY <1>1, FrameStays DEF Stripped
  <2> QED BY <1>1, <2>1, FrameStays DEF SeenInv
<1>4. PreflightInv'
  BY FrameStays DEF PreflightInv
<1> QED BY <1>2, <1>3, <1>4

LEMMA WayEnds ==
    ASSUME WayInv, Ends, Next, KeyInv', Verdict'
    PROVE  WayInv'
<1>1. BuildInv'
  BY BuildNext DEF WayInv
<1>2. HeaderInv' /\ SeenInv' /\ PreflightInv'
  BY StandsStill DEF WayInv, Ends
<1>3. at' \in 1 .. Len(chain') + 1 /\ request' \in RequestsFor(config')
  BY DEF WayInv, Ends
<1> QED BY <1>1, <1>2, <1>3 DEF WayInv, Ends

\* A link that leaves the key alone, and passes the request on.
LEMMA LinkForwards ==
    ASSUME WayInv, Next, NEW s, At(s), Forward(seen', Says(s)), UNCHANGED key,
           s = "strip_slashes" =>
              seen' = IF EndsInSlash(seen) THEN TrimSlash(seen) ELSE seen,
           s = "redirect_slashes" => seen' = seen /\ ~EndsInSlash(seen),
           s = "real_ip" => seen' = [seen EXCEPT !.ip = Client],
           s = "compress" =>
              seen' = [seen EXCEPT !.gzip = /\ AcceptsGzip(request.encodings)
                                            /\ ~request.range],
           s \notin {"strip_slashes", "redirect_slashes", "real_ip", "compress"} =>
              seen' = seen,
           s = "cors" => ~IsPreflight(request)
    PROVE  WayInv'
<1>1. at \in 1 .. Len(chain)
  BY AtIsPlace
<1>2. chain[at].stage = s
  BY DEF At
<1>3. Forwards
  BY <1>1, <1>2 DEF At, Forward, Forwards
<1>4. SeenInv'
  BY <1>2, <1>3, SeenForward
<1>5. KeyInv'
  BY <1>3, KeyStays DEF Forwards, WayInv
<1> QED BY <1>2, <1>3, <1>4, <1>5, WayForward

LEMMA SaysNothing ==
    /\ \A s \in {"recover", "timeout", "etag", "logging", "strip_slashes",
                 "redirect_slashes", "real_ip", "throttle", "compress", "extra"} :
          Says(s) = {}
    /\ Says("request_id") = {"X-Request-Id"}
    /\ Says("secure_headers") = {"X-Content-Type-Options"}
    /\ Says("rate_limit") = {"X-RateLimit-Limit"}
    /\ Says("cors") = CORSHeader
    /\ Says("service_desc") = {"Link"}
BY DEF Says

\* A link answers what the verdict lists.
LEMMA LinkAnswers ==
    ASSUME WayInv, NEW s, At(s), NEW status, NEW location, NEW names,
           Answer(status, names, location)
    PROVE  Ends /\ AnsweredAt(s, status, names, location)'
<1>1. at \in 1 .. Len(chain)
  BY AtIsPlace
<1>2. Ends
  BY DEF At, Answer, Ends
<1>3. chain[at].stage = s
  BY DEF At
<1>4. answer' = [status |-> status, by |-> at, header |-> header \cup Set(names),
                 location |-> location]
  BY DEF Answer
<1>5. Set(names)' = Set(names)
  BY <1>2 DEF Set, Ends
<1> QED BY <1>1, <1>2, <1>3, <1>4, <1>5 DEF AnsweredAt, Ends

LEMMA WayDown == WayInv /\ Down => WayInv'
<1> SUFFICES ASSUME WayInv, Down PROVE WayInv'
  OBVIOUS
<1>0. Next /\ pc = "down"
  BY DEF Next, Down, Enter, StripSlashes, RedirectSlashes, RealIP, RequestID,
     SecureHeaders, RateLimit, Throttle, Compress, CORS, ServiceDesc, Extra, Serve,
     At, AtMux
<1>1. HeaderInv /\ SeenInv /\ KeyInv
  BY <1>0, OnTheWay
<1>3. ASSUME Ends, UNCHANGED key, Verdict' PROVE WayInv'
  BY <1>0, <1>1, <1>3, KeyStays, WayEnds DEF Ends
<1>4. CASE Enter
  <2>1. PICK s \in {"recover", "timeout", "etag", "logging"} : At(s)
    BY <1>4 DEF Enter
  <2>2. Forward(seen', Says(s)) /\ UNCHANGED key /\ seen' = seen
    BY <1>4, <2>1, SaysNothing DEF Enter, Forward
  <2> QED BY <1>0, <2>1, <2>2, LinkForwards
<1>5. CASE StripSlashes
  <2>1. /\ At("strip_slashes") /\ Forward(seen', Says("strip_slashes")) /\ UNCHANGED key
        /\ seen' = IF EndsInSlash(seen) THEN TrimSlash(seen) ELSE seen
    BY <1>5, SaysNothing DEF StripSlashes, Forward
  <2> QED BY <1>0, <2>1, LinkForwards
<1>6. CASE RedirectSlashes
  <2>1. CASE ~EndsInSlash(seen)
    <3>1. /\ At("redirect_slashes") /\ Forward(seen', Says("redirect_slashes"))
          /\ UNCHANGED key /\ seen' = seen
      BY <1>6, <2>1, SaysNothing DEF RedirectSlashes, Forward
    <3> QED BY <1>0, <2>1, <3>1, LinkForwards
  <2>2. CASE EndsInSlash(seen)
    <3>1. At("redirect_slashes") /\ UNCHANGED key
      BY <1>6 DEF RedirectSlashes
    <3>2. PICK location : location = TrimSlash(seen).path
      OBVIOUS
    <3>3. Answer(308, {"Location"}, location)
      BY <1>6, <2>2, <3>2 DEF RedirectSlashes
    <3>4. Ends /\ AnsweredAt("redirect_slashes", 308, {"Location"}, location)'
      BY <3>1, <3>3, LinkAnswers
    <3>5. EndsInSlash(seen)' /\ TrimSlash(seen)'.path = location
      BY <2>2, <3>2, <3>4 DEF Ends, EndsInSlash, TrimSlash
    <3>6. Verdict'
      BY <3>4, <3>5 DEF Verdict, AnsweredAt
    <3> QED BY <1>3, <3>1, <3>4, <3>6
  <2> QED BY <2>1, <2>2
<1>7. CASE RealIP
  <2>1. /\ At("real_ip") /\ Forward(seen', Says("real_ip")) /\ UNCHANGED key
        /\ seen' = [seen EXCEPT !.ip = Client]
    BY <1>7, SaysNothing DEF RealIP, Forward, Client
  <2> QED BY <1>0, <2>1, LinkForwards
<1>8. CASE RequestID
  <2>1. /\ At("request_id") /\ Forward(seen', Says("request_id")) /\ UNCHANGED key
        /\ seen' = seen
    BY <1>8, SaysNothing DEF RequestID, Forward
  <2> QED BY <1>0, <2>1, LinkForwards
<1>9. CASE SecureHeaders
  <2>1. /\ At("secure_headers") /\ Forward(seen', Says("secure_headers"))
        /\ UNCHANGED key /\ seen' = seen
    BY <1>9, SaysNothing DEF SecureHeaders, Forward
  <2> QED BY <1>0, <2>1, LinkForwards
<1>10. CASE Compress
  <2>1. /\ At("compress") /\ Forward(seen', Says("compress")) /\ UNCHANGED key
        /\ seen' = [seen EXCEPT !.gzip = /\ AcceptsGzip(request.encodings)
                                         /\ ~request.range]
    BY <1>10, SaysNothing DEF Compress, Forward
  <2> QED BY <1>0, <2>1, LinkForwards
<1>11. CASE ServiceDesc
  <2>1. /\ At("service_desc") /\ Forward(seen', Says("service_desc"))
        /\ UNCHANGED key /\ seen' = seen
    BY <1>11, SaysNothing DEF ServiceDesc, Forward
  <2> QED BY <1>0, <2>1, LinkForwards
<1>12. CASE Throttle
  <2>1. At("throttle") /\ UNCHANGED key
    BY <1>12 DEF Throttle
  <2>2. CASE Answer(429, {}, "none")
    <3>1. Ends /\ AnsweredAt("throttle", 429, {}, "none")'
      BY <2>1, <2>2, LinkAnswers
    <3> QED BY <1>3, <2>1, <3>1 DEF Verdict
  <2>3. CASE Answer(200, {}, "none")
    <3>1. Ends /\ AnsweredAt("throttle", 200, {}, "none")'
      BY <2>1, <2>3, LinkAnswers
    <3> QED BY <1>3, <2>1, <3>1 DEF Verdict
  <2>4. CASE Forward(seen, {})
    <3>1. Forward(seen', Says("throttle")) /\ seen' = seen
      BY <2>4, SaysNothing DEF Forward
    <3> QED BY <1>0, <2>1, <3>1, LinkForwards
  <2> QED BY <1>12, <2>2, <2>3, <2>4 DEF Throttle
<1>13. CASE Extra
  <2>1. At("extra") /\ UNCHANGED key
    BY <1>13 DEF Extra
  <2>2. CASE Answer(403, {}, "none")
    <3>1. Ends /\ AnsweredAt("extra", 403, {}, "none")'
      BY <2>1, <2>2, LinkAnswers
    <3> QED BY <1>3, <2>1, <3>1 DEF Verdict
  <2>3. CASE Forward(seen, {})
    <3>1. Forward(seen', Says("extra")) /\ seen' = seen
      BY <2>3, SaysNothing DEF Forward
    <3> QED BY <1>0, <2>1, <3>1, LinkForwards
  <2> QED BY <1>13, <2>2, <2>3 DEF Extra
<1>14. CASE CORS
  <2>1. At("cors") /\ UNCHANGED key
    BY <1>14 DEF CORS
  <2>2. CASE IsPreflight(request)
    <3>1. PICK names : names = CORSHeader
      OBVIOUS
    <3>2. Ends /\ AnsweredAt("cors", 204, names, "none")'
      <4>1. Answer(204, names, "none")
        BY <1>14, <2>2, <3>1 DEF CORS
      <4> QED BY <2>1, <4>1, LinkAnswers
    <3>3. CORSHeader' = names /\ IsPreflight(request)'
      BY <2>2, <3>1, <3>2, FrameStays DEF Ends
    <3>4. AnsweredAt("cors", 204, CORSHeader, "none")'
      BY <3>2, <3>3 DEF AnsweredAt, Set
    <3>5. Verdict'
      BY <3>3, <3>4 DEF Verdict
    <3> QED BY <1>3, <2>1, <3>2, <3>5
  <2>3. CASE ~IsPreflight(request)
    <3>1. Forward(seen', Says("cors")) /\ seen' = seen
      BY <1>14, <2>3, SaysNothing DEF CORS, Forward
    <3> QED BY <1>0, <2>1, <2>3, <3>1, LinkForwards
  <2> QED BY <2>2, <2>3
<1>15. CASE RateLimit
  <2>1. /\ At("rate_limit")
        /\ key' = Bucket[IF seen.ip # "" THEN seen.ip ELSE request.remote]
        /\ UNCHANGED <<config, chain, request>>
    BY <1>15 DEF RateLimit, Answer, Forward
  <2>2. KeyInv'
    BY <2>1, KeyIsCounted
  <2>3. CASE Answer(503, {}, "none")
    <3>1. Ends /\ AnsweredAt("rate_limit", 503, {}, "none")'
      BY <2>1, <2>3, LinkAnswers
    <3> QED BY <1>0, <2>2, <3>1, WayEnds DEF Verdict
  <2>4. CASE Answer(429, {"X-RateLimit-Limit", "Retry-After"}, "none")
    <3>1. /\ Ends
          /\ AnsweredAt("rate_limit", 429, {"X-RateLimit-Limit", "Retry-After"}, "none")'
      BY <2>1, <2>4, LinkAnswers
    <3> QED BY <1>0, <2>2, <3>1, WayEnds DEF Verdict
  <2>5. CASE Forward(seen, {"X-RateLimit-Limit"})
    <3>1. chain[at].stage = "rate_limit" /\ at \in 1 .. Len(chain)
      BY <2>1, AtIsPlace DEF At
    <3>2. Forwards /\ seen' = seen
      BY <2>1, <2>5, <3>1, SaysNothing DEF At, Forward, Forwards
    <3>3. SeenInv'
      BY <3>1, <3>2, SeenForward
    <3> QED BY <1>0, <2>2, <3>1, <3>2, <3>3, WayForward
  <2> QED BY <1>15, <2>3, <2>4, <2>5 DEF RateLimit
<1>16. CASE Serve
  <2>1. /\ at = Len(chain) + 1 /\ Ends /\ UNCHANGED key
        /\ answer' = MuxAnswer
    BY <1>16 DEF Serve, AtMux, Answer, Ends, MuxAnswer, ServedStatus
  <2>2. /\ MuxStatus(seen, request.method)' = MuxStatus(seen, request.method)
        /\ AcceptsJSON(request.accept)' = AcceptsJSON(request.accept)
        /\ Set({})' = Set({})
    BY <2>1, FrameStays DEF Ends, MuxStatus, Set
  <2>3. at' = at /\ chain' = chain /\ header' = header
    BY <2>1 DEF Ends
  <2>4. MuxAnswer' = MuxAnswer
    <3>1. ServedStatus' = ServedStatus
      BY <2>2 DEF ServedStatus
    <3> QED BY <2>2, <2>3, <3>1 DEF MuxAnswer
  <2>5. ServedByMux'
    BY <2>1, <2>3, <2>4 DEF ServedByMux
  <2>6. Verdict'
    BY <2>5 DEF Verdict
  <2> QED BY <1>3, <2>1, <2>6
<1> QED BY <1>4, <1>5, <1>6, <1>7, <1>8, <1>9, <1>10, <1>11, <1>12, <1>13, <1>14,
           <1>15, <1>16 DEF Down

LEMMA WayCut == WayInv /\ (Expire \/ Fail) => WayInv'
<1> SUFFICES ASSUME WayInv, Expire \/ Fail PROVE WayInv'
  OBVIOUS
<1>1. Next /\ Ends /\ UNCHANGED key
  BY DEF Next, Expire, Fail, Cut, Ends, At, AtMux
<1>2. /\ \A s : Place(s)' = Place(s)
      /\ Buffers' = Buffers
      /\ UNCHANGED <<config, chain, request, at, header>>
  BY <1>1, FrameStays DEF Ends
<1>3. CASE Expire
  <2>1. Before(Place("timeout"))' = Before(Place("timeout"))
    BY <1>2 DEF Before
  <2>2. Verdict'
    BY <1>2, <1>3, <2>1 DEF Verdict, Expire, Cut
  <2> QED BY <1>1, <2>2, WayEnds, KeyStays DEF WayInv, Ends
<1>4. CASE Fail
  <2>1. CASE Place("recover") = 0 \/ at < Place("recover")
    <3>1. answer'.status = 0
      BY <1>4, <2>1 DEF Fail, Cut
    <3> QED BY <1>1, <3>1, WayEnds, KeyStays DEF WayInv, Ends, Verdict
  <2>2. CASE ~(Place("recover") = 0 \/ at < Place("recover"))
    <3>1. /\ at = Len(chain) + 1 \/ chain[at].stage = "extra"
          /\ answer' = [status |-> 500, by |-> Place("recover"),
                        header |-> Released, location |-> "none"]
      BY <1>4, <2>2 DEF Fail, Cut, At, AtMux, Released
    <3>2. Place("recover") # 0 /\ at >= Place("recover")
      <4>1. BuildInv /\ Built /\ at \in 1 .. Len(chain) + 1 /\ Len(chain) \in Nat
        BY <1>1, OnTheWay DEF Ends
      <4>2. Place("recover") \in Nat
        BY <4>1, PlaceFacts, AnchorNames
      <4> QED BY <2>2, <4>1, <4>2
    <3>3. Released' = Released
      BY <1>2 DEF Released
    <3>4. Verdict'
      BY <1>2, <3>1, <3>2, <3>3 DEF Verdict
    <3> QED BY <1>1, <3>4, WayEnds, KeyStays DEF WayInv, Ends
  <2> QED BY <2>1, <2>2
<1> QED BY <1>3, <1>4

LEMMA WayNext == WayInv /\ [Next]_vars => WayInv'
<1> SUFFICES ASSUME WayInv, [Next]_vars PROVE WayInv'
  OBVIOUS
<1>1. CASE BuildChain
  <2>1. BuildInv'
    BY BuildNext DEF WayInv
  <2>2. /\ pc' \notin {"down", "done"} /\ pc \notin {"down", "done"}
        /\ UNCHANGED <<header, key>>
    BY <1>1 DEF BuildChain
  <2> QED BY <2>1, <2>2 DEF WayInv
<1>2. CASE UNCHANGED vars
  <2>1. BuildInv'
    BY BuildNext DEF WayInv
  <2>2. /\ UNCHANGED <<config, chain, request, seen, at, header, key, pc, answer>>
    BY <1>2 DEF vars
  <2>3. CASE pc \notin {"down", "done"}
    BY <2>1, <2>2, <2>3 DEF WayInv
  <2>4. CASE pc \in {"down", "done"}
    <3>1. HeaderInv' /\ SeenInv' /\ PreflightInv' /\ KeyInv'
      BY <2>2, <2>4, StandsStill, KeyStays DEF WayInv
    <3>2. pc = "done" => Verdict'
      <4>1. Verdict' = Verdict
        BY <2>2, FrameStays DEF Verdict, AnsweredAt, Set, Before, Released,
           ServedByMux, MuxAnswer, ServedStatus, MuxStatus, EndsInSlash, TrimSlash
      <4> QED BY <4>1 DEF WayInv
    <3> QED BY <2>1, <2>2, <2>4, <3>1, <3>2 DEF WayInv
  <2> QED BY <2>3, <2>4
<1> QED BY <1>1, <1>2, WayReceive, WayDown, WayCut DEF Next

\* The way of a request (the closures the middlewares return, each calling
\* next.ServeHTTP at its end): at every place, the header has what the links
\* passed say, the request is what they made of it, and an answer is one of
\* those a link gives.
THEOREM WayIsKept == Spec => []WayInv
BY WayInit, WayNext, PTL DEF Spec

(***************************************************************************)
(* What is promised about the answer.                                      *)
(***************************************************************************)
LEMMA WayDone ==
    ASSUME WayInv, Done
    PROVE  /\ BuildInv /\ Built /\ HeaderInv /\ SeenInv /\ PreflightInv /\ Verdict
           /\ config \in Configs /\ request \in RequestsFor(config)
           /\ Len(chain) \in Nat /\ at \in 1 .. Len(chain) + 1
<1>1. BuildInv /\ Built
  BY DEF WayInv, Done, Built
<1>2. Len(chain) \in Nat
  BY <1>1, PlaceFacts
<1> QED BY <1>1, <1>2 DEF WayInv, Done, BuildInv

LEMMA PlaceOf ==
    ASSUME BuildInv, Built, NEW s \in Anchors, NEW i \in 1 .. Len(chain),
           chain[i].stage = s
    PROVE  Place(s) = i /\ chain[i] = Stage(s)
<1>1. s # "extra"
  BY OrderFacts
<1> QED BY <1>1, PlaceFacts

LEMMA WayKeepsHeaders == WayInv => HeadersReachAnswer
<1> SUFFICES ASSUME WayInv, Done, NEW s \in DOMAIN MarkOf \cap config.stages
             PROVE  (\E h \in answer.header : h.name = MarkOf[s]) <=>
                       IF AnsweredBy("timeout") THEN Place(s) < Place("timeout")
                       ELSE IF answer.status = 500
                       THEN /\ at > Place(s)
                            /\ \A b \in Buffers : at <= b \/ Place(s) < b
                       ELSE answer.by > Place(s) \/ AnsweredBy(s)
  BY DEF HeadersReachAnswer
<1>1. /\ BuildInv /\ Built /\ HeaderInv /\ Verdict
      /\ Len(chain) \in Nat /\ at \in 1 .. Len(chain) + 1
  BY WayDone
<1>2. PICK n \in 1 .. Len(chain) + 1 : n = at
  BY <1>1
<1>3. PICK p \in 1 .. Len(chain) : p = Place(s) /\ chain[p] = Stage(s)
  BY <1>1, PlaceFacts
<1>4. n \in Nat /\ p \in Nat /\ n # 0 /\ p # 0
  BY <1>1
<1>5. ASSUME NEW h \in header, h.name = MarkOf[s]
      PROVE  h.at = p /\ p < n
  <2>1. /\ h.at \in 1 .. Len(chain) /\ h.at < n
        /\ MarkOf[s] \in Says(chain[h.at].stage)
    BY <1>1, <1>2, <1>5 DEF HeaderInv
  <2>2. chain[h.at].stage = s
    BY <2>1, MarkFacts
  <2>3. Place(s) = h.at
    BY <1>1, <2>1, <2>2, PlaceOf, MarkFacts
  <2> QED BY <1>3, <2>1, <2>3
<1>6. p < n => [name |-> MarkOf[s], at |-> p] \in header
  BY <1>1, <1>2, <1>3, <1>4 DEF HeaderInv, Passed
\* What a buffer lets through.
<1>7. ASSUME NEW K, K \subseteq header,
             NEW P, P \in BOOLEAN, \A h \in header : h.at = p => (h \in K <=> P)
      PROVE  (\E h \in K : h.name = MarkOf[s]) <=> p < n /\ P
  <2>1. (\E h \in K : h.name = MarkOf[s]) => p < n /\ P
    BY <1>5, <1>7
  <2>2. p < n /\ P => \E h \in K : h.name = MarkOf[s]
    BY <1>6, <1>7
  <2> QED BY <2>1, <2>2
\* What a link answers itself.
<1>8. ASSUME NEW t, NEW status, NEW STATE names, NEW STATE location,
             AnsweredAt(t, status, names, location),
             t # "timeout", status # 500, MarkOf[s] \in names <=> t = s
      PROVE  /\ ~AnsweredBy("timeout") /\ answer.status # 500
             /\ (\E h \in answer.header : h.name = MarkOf[s]) <=>
                   answer.by > Place(s) \/ AnsweredBy(s)
  <2>1. n \in 1 .. Len(chain) /\ chain[n].stage = t
    BY <1>2, <1>8 DEF AnsweredAt
  <2>2. /\ answer.status = status /\ answer.by = n
        /\ answer.header = header \cup Set(names)
    BY <1>2, <1>8 DEF AnsweredAt
  <2>3. ASSUME NEW a PROVE AnsweredBy(a) => t = a
    BY <2>1, <2>2 DEF AnsweredBy, Stage
  <2>4. t = s => AnsweredBy(s) /\ n = p
    <3>1. SUFFICES ASSUME t = s PROVE AnsweredBy(s) /\ n = p
      OBVIOUS
    <3>2. Place(s) = n /\ chain[n] = Stage(s)
      BY <1>1, <2>1, <3>1, PlaceOf, MarkFacts
    <3>3. n \in DOMAIN chain
      BY <1>1, <2>1, PlaceFacts
    <3> QED BY <1>3, <2>2, <3>2, <3>3 DEF AnsweredBy
  <2>5. (\E h \in Set(names) : h.name = MarkOf[s]) <=> MarkOf[s] \in names
    <3>1. ASSUME MarkOf[s] \in names
          PROVE  \E h \in Set(names) : h.name = MarkOf[s]
      <4> DEFINE h == [name |-> MarkOf[s], at |-> at]
      <4>1. h \in Set(names) /\ h.name = MarkOf[s]
        BY <3>1 DEF Set
      <4> QED BY <4>1
    <3>2. ASSUME NEW h \in Set(names), h.name = MarkOf[s]
          PROVE  MarkOf[s] \in names
      BY <3>2 DEF Set
    <3> QED BY <3>1, <3>2
  <2>6. (\E h \in header : h.name = MarkOf[s]) <=> p < n
    BY <1>5, <1>6
  <2>7. (\E h \in answer.header : h.name = MarkOf[s]) <=> p < n \/ t = s
    BY <1>8, <2>2, <2>5, <2>6
  <2> QED BY <1>3, <1>8, <2>2, <2>3, <2>4, <2>7
<1>9. MarkOf[s] \in {"X-Request-Id", "X-Content-Type-Options", "Vary", "Link"}
  BY DEF MarkOf
<1>10. s \notin {"redirect_slashes", "rate_limit", "throttle", "extra"}
       /\ (MarkOf[s] \in CORSHeader <=> s = "cors")
  <2>1. CORSHeader = Says("cors")
    BY SaysNothing
  <2>2. MarkOf[s] \in Says("cors") => s = "cors"
    BY MarkFacts
  <2>3. s = "cors" => MarkOf[s] \in Says("cors")
    BY MarkFacts
  <2>4. s \in {"request_id", "secure_headers", "cors", "service_desc"}
    BY DEF MarkOf
  <2> QED BY <2>1, <2>2, <2>3, <2>4
<1>11. CASE AnsweredAt("redirect_slashes", 308, {"Location"}, TrimSlash(seen).path)
  <2>1. MarkOf[s] \in {"Location"} <=> "redirect_slashes" = s
    BY <1>9, <1>10
  <2> QED BY <1>8, <1>11, <2>1
<1>12. CASE AnsweredAt("rate_limit", 503, {}, "none")
  <2>1. MarkOf[s] \in {} <=> "rate_limit" = s
    BY <1>10
  <2> QED BY <1>8, <1>12, <2>1
<1>13. CASE AnsweredAt("rate_limit", 429, {"X-RateLimit-Limit", "Retry-After"}, "none")
  <2>1. MarkOf[s] \in {"X-RateLimit-Limit", "Retry-After"} <=> "rate_limit" = s
    BY <1>9, <1>10
  <2> QED BY <1>8, <1>13, <2>1
<1>14. CASE \/ AnsweredAt("throttle", 429, {}, "none")
            \/ AnsweredAt("throttle", 200, {}, "none")
  <2>1. MarkOf[s] \in {} <=> "throttle" = s
    BY <1>10
  <2> QED BY <1>8, <1>14, <2>1
<1>15. CASE AnsweredAt("cors", 204, CORSHeader, "none")
  <2>1. MarkOf[s] \in CORSHeader <=> "cors" = s
    BY <1>10
  <2> QED BY <1>8, <1>15, <2>1
<1>16. CASE AnsweredAt("extra", 403, {}, "none")
  <2>1. MarkOf[s] \in {} <=> "extra" = s
    BY <1>10
  <2> QED BY <1>8, <1>16, <2>1
<1>17. CASE /\ at = Len(chain) + 1 /\ answer.by = at
            /\ answer.header = header \cup Set({})
            /\ answer.status # 500
  <2>1. n = Len(chain) + 1 /\ n \notin DOMAIN chain /\ p < n
    <3>1. DOMAIN chain = 1 .. Len(chain)
      BY <1>1, PlaceFacts
    <3> QED BY <1>1, <1>2, <1>17, <3>1
  <2>2. ASSUME NEW a PROVE ~AnsweredBy(a)
    BY <1>2, <1>17, <2>1 DEF AnsweredBy
  <2>3. Set({}) = {}
    BY DEF Set
  <2>4. \E h \in answer.header : h.name = MarkOf[s]
    BY <1>6, <1>17, <2>1
  <2> QED BY <1>2, <1>3, <1>17, <2>1, <2>2, <2>4
<1>18. CASE /\ Place("timeout") # 0 /\ at > Place("timeout")
            /\ answer.by = Place("timeout")
            /\ answer.header = Before(Place("timeout"))
  <2>1. "timeout" \in config.stages
    BY <1>1, <1>18, PlaceFacts, AnchorNames
  <2>2. AnsweredBy("timeout")
    BY <1>1, <1>18, <2>1, PlaceFacts DEF AnsweredBy
  <2>3. PICK t \in 1 .. Len(chain) : t = Place("timeout")
    BY <1>1, <2>1, PlaceFacts
  <2>4. t \in Nat /\ n > t
    BY <1>1, <1>2, <1>18, <2>3
  <2>5. (\E h \in Before(t) : h.name = MarkOf[s]) <=> p < n /\ p < t
    <3>1. Before(t) \subseteq header
      BY DEF Before
    <3>2. \A h \in header : h.at = p => (h \in Before(t) <=> p < t)
      BY DEF Before
    <3>3. (p < t) \in BOOLEAN
      OBVIOUS
    <3> HIDE DEF Before
    <3> QED BY <1>7, <3>1, <3>2, <3>3
  <2>6. p < n /\ p < t <=> p < t
    BY <1>4, <2>4
  <2> QED BY <1>3, <1>18, <2>2, <2>3, <2>5, <2>6
<1>19. CASE /\ at = Len(chain) + 1 \/ chain[at].stage = "extra"
            /\ Place("recover") # 0
            /\ answer.by = Place("recover") /\ answer.status = 500
            /\ answer.header = Released
  <2>1. ~AnsweredBy("timeout")
    <3>1. "recover" \in config.stages
      BY <1>1, <1>19, PlaceFacts, AnchorNames
    <3>2. chain[Place("recover")] = Stage("recover")
      BY <1>1, <3>1, PlaceFacts
    <3> QED BY <1>19, <3>2 DEF AnsweredBy, Stage
  <2>2. ASSUME NEW b \in Buffers PROVE b \in Nat /\ b # n
    <3>1. PICK a \in {"timeout", "etag"} : b = Place(a) /\ b # 0
      BY DEF Buffers
    <3>2. a \in config.stages /\ a # "extra"
      BY <1>1, <3>1, PlaceFacts, AnchorNames
    <3>3. b \in 1 .. Len(chain) /\ chain[b].stage = a
      <4>1. Place(a) \in 1 .. Len(chain) /\ chain[Place(a)] = Stage(a)
        BY <1>1, <3>2, PlaceFacts
      <4>2. chain[b] = Stage(a)
        BY <3>1, <4>1
      <4> QED BY <3>1, <4>1, <4>2 DEF Stage
    <3>4. b # Len(chain) + 1 /\ b \in Nat
      BY <1>1, <3>3
    <3> QED BY <1>2, <1>19, <3>2, <3>3, <3>4
  <2> DEFINE P == \A b \in Buffers : p < b \/ n < b
  <2>3. (\E h \in Released : h.name = MarkOf[s]) <=> p < n /\ P
    <3>1. Released \subseteq header
      BY DEF Released
    <3>2. \A h \in header : h.at = p => (h \in Released <=> P)
      BY <1>2 DEF Released
    <3>3. P \in BOOLEAN
      OBVIOUS
    <3> HIDE DEF P
    <3> QED BY <1>7, <3>1, <3>2, <3>3
  <2>4. P <=> \A b \in Buffers : n <= b \/ p < b
    <3>1. ASSUME NEW b \in Buffers PROVE p < b \/ n < b <=> n <= b \/ p < b
      BY <1>4, <2>2
    <3> QED BY <3>1
  <2>5. p < n <=> n > p
    BY <1>4
  <2> HIDE DEF P
  <2> QED BY <1>2, <1>3, <1>19, <2>1, <2>3, <2>4, <2>5
<1>20. answer.status # 0
  BY DEF Done
<1>21. MuxStatus(seen, request.method) \in {200, 301, 404, 405}
  BY DEF MuxStatus
<1> QED BY <1>1, <1>11, <1>12, <1>13, <1>14, <1>15, <1>16, <1>17, <1>18, <1>19,
           <1>20, <1>21 DEF Verdict, ServedByMux, MuxAnswer, ServedStatus

\* A header a middleware sets is on the answer of every link below it, its own
\* included, and only a deadline or a panic takes it away
\* (request_id.go:15-48, secure_headers.go:35-83, cors.go:43-157,
\* service_desc.go:16-42; timeout.go:41-113, recover.go:29-63, etag.go:57-86).
THEOREM HeadersAreSent == Spec => []HeadersReachAnswer
BY WayIsKept, WayKeepsHeaders, PTL

LEMMA WayKeepsPreflights == WayInv => OnlyPreflightsAreAnswered
<1> SUFFICES ASSUME WayInv, Done, "cors" \in config.stages
             PROVE  /\ answer.status = 204 <=>
                          IsPreflight(request) /\ AnsweredBy("cors")
                    /\ IsPreflight(request) => answer.by <= Place("cors")
                    /\ (\E h \in answer.header :
                           h.name = "Access-Control-Allow-Origin") =>
                          /\ request.origin # ""
                          /\ {"*", request.origin} \cap config.origins # {}
  BY DEF OnlyPreflightsAreAnswered
<1>1. /\ BuildInv /\ Built /\ HeaderInv /\ PreflightInv /\ Verdict
      /\ Len(chain) \in Nat /\ at \in 1 .. Len(chain) + 1
  BY WayDone
<1>2. PICK n \in 1 .. Len(chain) + 1 : n = at
  BY <1>1
<1>3. PICK c \in 1 .. Len(chain) : c = Place("cors") /\ chain[c] = Stage("cors")
  BY <1>1, PlaceFacts
<1>4. n \in Nat /\ c \in Nat
  BY <1>1
<1>5. "Access-Control-Allow-Origin" \in CORSHeader =>
         /\ request.origin # ""
         /\ {"*", request.origin} \cap config.origins # {}
  BY DEF CORSHeader, IsAllowedOrigin
<1>6. ASSUME NEW h \in header, h.name = "Access-Control-Allow-Origin"
      PROVE  "Access-Control-Allow-Origin" \in CORSHeader
  <2>1. \E s : "Access-Control-Allow-Origin" \in Says(s)
    BY <1>1, <1>6 DEF HeaderInv
  <2> QED BY <2>1 DEF Says
<1>7. IsPreflight(request) => n <= c
  BY <1>1, <1>2, <1>3 DEF PreflightInv
<1>8. ASSUME NEW t, NEW status, NEW STATE names, NEW STATE location,
             AnsweredAt(t, status, names, location)
      PROVE  /\ answer.status = status /\ answer.by = n
             /\ answer.header = header \cup Set(names)
             /\ AnsweredBy("cors") => t = "cors"
             /\ t = "cors" => AnsweredBy("cors")
  <2>1. n \in 1 .. Len(chain) /\ chain[n].stage = t
    BY <1>2, <1>8 DEF AnsweredAt
  <2>2. /\ answer.status = status /\ answer.by = n
        /\ answer.header = header \cup Set(names)
    BY <1>2, <1>8 DEF AnsweredAt
  <2>3. AnsweredBy("cors") => t = "cors"
    BY <2>1, <2>2 DEF AnsweredBy, Stage
  <2>4. t = "cors" => AnsweredBy("cors")
    <3>1. SUFFICES ASSUME t = "cors" PROVE AnsweredBy("cors")
      OBVIOUS
    <3>2. chain[n] = Stage("cors")
      BY <1>1, <2>1, <3>1, PlaceOf, AnchorNames
    <3>3. n \in DOMAIN chain
      BY <1>1, <2>1, PlaceFacts
    <3> QED BY <2>2, <3>2, <3>3 DEF AnsweredBy
  <2> QED BY <2>2, <2>3, <2>4
\* The links that are not CORS.
<1>9. ASSUME NEW t, NEW status, NEW STATE names, NEW STATE location,
             AnsweredAt(t, status, names, location),
             t # "cors", status # 204, "Access-Control-Allow-Origin" \notin names
      PROVE  /\ answer.status # 204 /\ ~AnsweredBy("cors") /\ answer.by = n
             /\ (\E h \in answer.header : h.name = "Access-Control-Allow-Origin") =>
                   "Access-Control-Allow-Origin" \in CORSHeader
  <2>1. ASSUME NEW h \in Set(names) PROVE h.name # "Access-Control-Allow-Origin"
    BY <1>9 DEF Set
  <2> QED BY <1>6, <1>8, <1>9, <2>1
<1>10. /\ answer.status = 204 <=> IsPreflight(request) /\ AnsweredBy("cors")
       /\ IsPreflight(request) => answer.by <= c
       /\ (\E h \in answer.header : h.name = "Access-Control-Allow-Origin") =>
             "Access-Control-Allow-Origin" \in CORSHeader
  <2>1. CASE \/ AnsweredAt("redirect_slashes", 308, {"Location"}, TrimSlash(seen).path)
             \/ AnsweredAt("rate_limit", 503, {}, "none")
             \/ AnsweredAt("rate_limit", 429, {"X-RateLimit-Limit", "Retry-After"}, "none")
             \/ AnsweredAt("throttle", 429, {}, "none")
             \/ AnsweredAt("throttle", 200, {}, "none")
             \/ AnsweredAt("extra", 403, {}, "none")
    BY <1>7, <1>9, <2>1
  <2>2. CASE AnsweredAt("cors", 204, CORSHeader, "none") /\ IsPreflight(request)
    <3>1. ASSUME NEW h \in Set(CORSHeader), h.name = "Access-Control-Allow-Origin"
          PROVE  "Access-Control-Allow-Origin" \in CORSHeader
      BY <3>1 DEF Set
    <3> QED BY <1>6, <1>7, <1>8, <2>2, <3>1
  <2>3. CASE /\ at = Len(chain) + 1 /\ answer.by = at
             /\ answer.header = header \cup Set({})
             /\ answer.status # 204
    <3>1. n \notin DOMAIN chain /\ ~(n <= c)
      <4>1. DOMAIN chain = 1 .. Len(chain)
        BY <1>1, PlaceFacts
      <4> QED BY <1>1, <1>2, <2>3, <4>1
    <3>2. ~AnsweredBy("cors") /\ Set({}) = {}
      BY <1>2, <2>3, <3>1 DEF AnsweredBy, Set
    <3> QED BY <1>6, <1>7, <2>3, <3>1, <3>2
  <2>4. ASSUME NEW a \in {"timeout", "recover"}, Place(a) # 0, at >= Place(a),
               answer.by = Place(a), answer.status # 204, answer.header \subseteq header
        PROVE  /\ ~AnsweredBy("cors") /\ (n <= c => answer.by <= c)
               /\ (\E h \in answer.header : h.name = "Access-Control-Allow-Origin") =>
                     "Access-Control-Allow-Origin" \in CORSHeader
    <3>1. a \in config.stages /\ a # "cors"
      BY <1>1, <2>4, PlaceFacts, AnchorNames
    <3>2. ~AnsweredBy("cors")
      <4>1. chain[Place(a)] = Stage(a)
        BY <1>1, <3>1, PlaceFacts
      <4>2. Stage(a) # Stage("cors")
        BY <3>1 DEF Stage
      <4> QED BY <2>4, <4>1, <4>2 DEF AnsweredBy
    <3>3. PICK p \in 1 .. Len(chain) : p = Place(a)
      BY <1>1, <3>1, PlaceFacts
    <3>4. n <= c => p <= c
      BY <1>2, <1>4, <2>4, <3>3
    <3> QED BY <1>6, <2>4, <3>2, <3>3, <3>4
  <2>5. CASE /\ Place("timeout") # 0 /\ at > Place("timeout")
             /\ answer.status = 503 /\ answer.by = Place("timeout")
             /\ answer.header = Before(Place("timeout"))
    <3>1. at >= Place("timeout")
      <4>1. Place("timeout") \in Nat
        BY <1>1, PlaceFacts, AnchorNames
      <4> QED BY <1>2, <1>4, <2>5, <4>1
    <3>2. answer.header \subseteq header
      BY <2>5 DEF Before
    <3> QED BY <1>7, <2>4, <2>5, <3>1, <3>2
  <2>6. CASE /\ Place("recover") # 0 /\ at >= Place("recover")
             /\ answer.status = 500 /\ answer.by = Place("recover")
             /\ answer.header = Released
    <3>1. answer.header \subseteq header
      BY <2>6 DEF Released
    <3> QED BY <1>7, <2>4, <2>6, <3>1
  <2>7. MuxStatus(seen, request.method) \in {200, 301, 404, 405}
    BY DEF MuxStatus
  <2>8. answer.status # 0
    BY DEF Done
  <2> QED BY <1>1, <2>1, <2>2, <2>3, <2>5, <2>6, <2>7, <2>8
          DEF Verdict, ServedByMux, MuxAnswer, ServedStatus
<1> QED BY <1>3, <1>5, <1>10

\* A preflight stops at CORS, which answers nothing else, and only an allowed
\* origin is told that it may read (cors.go:43-175).
THEOREM PreflightsStop == Spec => []OnlyPreflightsAreAnswered
BY WayIsKept, WayKeepsPreflights, PTL

\* What the mux answers.
LEMMA ServedAtMux ==
    ASSUME WayInv, Done, answer.by = Len(chain) + 1
    PROVE  /\ at = Len(chain) + 1
           /\ answer.status = LET status == MuxStatus(seen, request.method)
                              IN  IF status = 200 /\ ~AcceptsJSON(request.accept)
                                  THEN 406 ELSE status
           /\ \A s \in Anchors : Passed(s) <=> s \in config.stages
<1>1. /\ BuildInv /\ Built /\ Verdict
      /\ Len(chain) \in Nat /\ at \in 1 .. Len(chain) + 1
  BY WayDone
<1>2. ASSUME NEW s, NEW status, NEW STATE names, NEW STATE location,
             AnsweredAt(s, status, names, location)
      PROVE  FALSE
  <2>1. at \in 1 .. Len(chain) /\ answer.by = at
    BY <1>2 DEF AnsweredAt
  <2>2. at # Len(chain) + 1
    BY <1>1, <2>1
  <2> QED BY <2>1, <2>2
<1>3. ASSUME NEW s \in {"timeout", "recover"}, Place(s) # 0, answer.by = Place(s)
      PROVE  FALSE
  <2>1. s \in config.stages
    BY <1>1, <1>3, PlaceFacts, AnchorNames
  <2>2. Place(s) \in 1 .. Len(chain)
    BY <1>1, <2>1, PlaceFacts
  <2>3. Place(s) # Len(chain) + 1
    BY <1>1, <2>2
  <2> QED BY <1>3, <2>3
<1>4. answer.status # 0
  BY DEF Done
<1>5. ~(/\ Place("timeout") # 0 /\ at > Place("timeout")
        /\ answer = [status |-> 503, by |-> Place("timeout"),
                     header |-> Before(Place("timeout")), location |-> "none"])
  BY <1>3
<1>6. ~(/\ at = Len(chain) + 1 \/ chain[at].stage = "extra"
        /\ Place("recover") # 0 /\ at >= Place("recover")
        /\ answer = [status |-> 500, by |-> Place("recover"),
                     header |-> Released, location |-> "none"])
  BY <1>3
<1>7. /\ at = Len(chain) + 1
      /\ answer.status = LET status == MuxStatus(seen, request.method)
                         IN  IF status = 200 /\ ~AcceptsJSON(request.accept)
                             THEN 406 ELSE status
  BY <1>1, <1>2, <1>4, <1>5, <1>6 DEF Verdict, ServedByMux, MuxAnswer, ServedStatus
<1>8. ASSUME NEW s \in Anchors PROVE Passed(s) <=> s \in config.stages
  <2>1. CASE s \in config.stages
    <3>1. PICK p \in 1 .. Len(chain) : p = Place(s) /\ p # 0
      BY <1>1, <2>1, PlaceFacts
    <3>2. p < Len(chain) + 1
      BY <1>1
    <3> QED BY <1>7, <2>1, <3>1, <3>2 DEF Passed
  <2>2. CASE s \notin config.stages
    BY <1>1, <2>2, PlaceFacts DEF Passed
  <2> QED BY <2>1, <2>2
<1> QED BY <1>7, <1>8

LEMMA WayNegotiates == WayInv => NegotiationIsExact
<1> SUFFICES ASSUME WayInv, Done, answer.by = Len(chain) + 1
             PROVE  /\ seen.gzip <=>
                          /\ "compress" \in config.stages
                          /\ Accepted(request.encodings, CodingSpecificity)
                          /\ ~request.range
                    /\ answer.status = 406 =>
                          /\ request.accept # <<>>
                          /\ ~Accepted(request.accept, MediaSpecificity)
                    /\ answer.status = 200 =>
                          \/ request.accept = <<>>
                          \/ Accepted(request.accept, MediaSpecificity)
  BY DEF NegotiationIsExact
<1>1. SeenInv /\ config \in Configs /\ request \in RequestsFor(config)
  BY WayDone
<1>2. request.encodings \in Ranges /\ request.accept \in Ranges
  BY <1>1, RequestsAssumption
<1>3. /\ answer.status = LET status == MuxStatus(seen, request.method)
                         IN  IF status = 200 /\ ~AcceptsJSON(request.accept)
                             THEN 406 ELSE status
      /\ Passed("compress") <=> "compress" \in config.stages
  BY ServedAtMux, AnchorNames
<1>4. PICK gzip \in BOOLEAN :
         gzip <=> Accepted(request.encodings, CodingSpecificity)
  OBVIOUS
<1>5. AcceptsGzip(request.encodings) <=> gzip
  BY <1>2, <1>4, GzipIsAccepted
<1>6. PICK json \in BOOLEAN :
         json <=> Accepted(request.accept, MediaSpecificity)
  OBVIOUS
<1>7. AcceptsJSON(request.accept) <=> request.accept = <<>> \/ json
  BY <1>2, <1>6, JSONIsAccepted
<1>8. MuxStatus(seen, request.method) \in {200, 301, 404, 405}
  BY DEF MuxStatus
<1>9. seen.gzip <=> /\ "compress" \in config.stages
                    /\ gzip /\ ~request.range
  BY <1>1, <1>3, <1>5 DEF SeenInv
<1>10. /\ answer.status = 406 => ~AcceptsJSON(request.accept)
       /\ answer.status = 200 => AcceptsJSON(request.accept)
  BY <1>3, <1>8
<1> QED BY <1>4, <1>6, <1>7, <1>9, <1>10

\* What is compressed and what is 406 is what RFC 9110 makes of the header,
\* entry by entry, although acceptsGzip and acceptsJSON go through it once and
\* keep the best so far (compress.go:293-367, httpx/accept.go:26-111).
THEOREM NegotiationFollowsRanges == Spec => []NegotiationIsExact
BY WayIsKept, WayNegotiates, PTL

LEMMA WaySlashes == WayInv => SlashMakesNoDifference
<1> SUFFICES ASSUME WayInv, Done, request.path # "escaped", request.slashes <= 1
             PROVE  /\ {"strip_slashes", "redirect_slashes"} \cap config.stages # {}
                       /\ answer.by = Len(chain) + 1 =>
                          answer.status \in
                             {406, MuxStatus([path |-> request.path, slashes |-> 0],
                                             request.method)}
                    /\ answer.status = 308 => answer.location = request.path
                    /\ request.path = "root" => answer.status # 308
  BY DEF SlashMakesNoDifference
<1>1. SeenInv /\ Verdict /\ config \in Configs /\ request \in RequestsFor(config)
  BY WayDone
<1>2. request.slashes \in {0, 1}
  <2>1. request.slashes \in Nat
    BY <1>1, RequestsAssumption
  <2> QED BY <2>1
<1>3. seen.path = request.path
  BY <1>1 DEF SeenInv
<1>4. ASSUME {"strip_slashes", "redirect_slashes"} \cap config.stages # {},
             answer.by = Len(chain) + 1
      PROVE  answer.status \in
                {406, MuxStatus([path |-> request.path, slashes |-> 0],
                                request.method)}
  <2>1. ~EndsInSlash(request) \/ Passed("strip_slashes")
    <3>1. Passed("strip_slashes") \/ Passed("redirect_slashes")
      BY <1>4, ServedAtMux, AnchorNames
    <3> QED BY <1>1, <3>1 DEF SeenInv
  <2>2. EndsInSlash(request) <=> request.slashes = 1 /\ request.path # "root"
    BY <1>2 DEF EndsInSlash
  <2>3. seen.slashes = IF request.path = "root" THEN request.slashes ELSE 0
    <3>1. Stripped <=> request.slashes = 1 /\ request.path # "root"
      BY <2>1, <2>2 DEF Stripped
    <3>2. seen.slashes = IF Stripped THEN request.slashes - 1 ELSE request.slashes
      BY <1>1 DEF SeenInv
    <3>3. CASE request.slashes = 1 /\ request.path # "root"
      BY <3>1, <3>2, <3>3
    <3>4. CASE ~(request.slashes = 1 /\ request.path # "root")
      <4>1. seen.slashes = request.slashes
        BY <3>1, <3>2, <3>4
      <4> QED BY <1>2, <3>4, <4>1
    <3> QED BY <3>3, <3>4
  <2>4. MuxStatus(seen, request.method) =
           MuxStatus([path |-> request.path, slashes |-> 0], request.method)
    <3>1. CASE request.path = "root"
      BY <1>2, <1>3, <2>3, <3>1 DEF MuxStatus
    <3>2. CASE request.path # "root"
      BY <1>3, <2>3, <3>2 DEF MuxStatus
    <3> QED BY <3>1, <3>2
  <2> QED BY <1>4, <2>4, ServedAtMux
<1>5. answer.status = 308 =>
         EndsInSlash(seen) /\ answer.location = TrimSlash(seen).path
  <2>1. MuxStatus(seen, request.method) \in {200, 301, 404, 405}
    BY DEF MuxStatus
  <2>2. answer.status # 0
    BY DEF Done
  <2> QED BY <1>1, <2>1, <2>2 DEF Verdict, AnsweredAt, ServedByMux, MuxAnswer, ServedStatus
<1>6. TrimSlash(seen).path = request.path
  BY <1>1, <1>3 DEF TrimSlash, SeenInv
<1>7. request.path = "root" => ~EndsInSlash(seen)
  <2>1. seen.slashes \in {request.slashes, request.slashes - 1}
    BY <1>1 DEF SeenInv
  <2> QED BY <1>2, <1>3, <2>1 DEF EndsInSlash
<1> QED BY <1>4, <1>5, <1>6, <1>7

\* One slash at the end of a path means nothing to the mux once
\* StripSlashes or RedirectSlashes is in front of it, and a redirect leads to
\* the path without it (stripslashes.go:15-50, redirectslashes.go:20-57).
THEOREM SlashesDoNotMatter == Spec => []SlashMakesNoDifference
BY WayIsKept, WaySlashes, PTL

LEMMA HeadOfRange ==
    ASSUME NEW S, NEW s \in Seq(S), s # <<>>
    PROVE  Head(s) \in Range(s) /\ Head(s) \in S
<1>1. Head(s) = s[1] /\ 1 \in DOMAIN s
  OBVIOUS
<1>2. s[1] \in S
  BY <1>1, ElementOfSeq
<1> QED BY <1>1, <1>2 DEF Range

LEMMA WayCounts == WayInv => KeyIsClient
<1> DEFINE nets == UNION {config.trust[i].proxies : i \in DOMAIN config.trust}
           last == config.trust[Len(config.trust)]
           strict == config.trust # <<>> /\ ~last.any /\ last.proxies # {}
           names == Range(request.forwarded) \cup Range(request.xff)
                       \cup {request.xreal}
<1> SUFFICES ASSUME WayInv, key # "none"
             PROVE  /\ "real_ip" \notin config.stages => key = Bucket[request.remote]
                    /\ strict /\ request.remote \notin nets =>
                          key = Bucket[request.remote]
                    /\ key # Bucket[request.remote] =>
                          \E name \in names :
                             name \in DOMAIN Bucket /\ key = Bucket[name]
  BY DEF KeyIsClient
<1>1. config \in Configs /\ request \in RequestsFor(config) /\ KeyInv
  BY DEF WayInv, BuildInv
<1>2. key = Bucket[IF "real_ip" \in config.stages /\ Client # "" THEN Client
                   ELSE request.remote]
  BY <1>1 DEF KeyInv
<1>3. ASSUME strict, request.remote \notin nets
      PROVE  ~Trusts(request.remote)
  <2>1. config.trust \in Seq([any: BOOLEAN, proxies: SUBSET STRING])
    BY <1>1, ConfigsAssumption
  <2>2. PICK n \in Nat : n = Len(config.trust) /\ DOMAIN config.trust = 1 .. n
    BY <2>1
  <2>3. n # 0
    BY <1>3, <2>1, <2>2
  <2>4. /\ ~Trust.all /\ last.proxies \subseteq Trust.proxies
        /\ Trust.proxies \subseteq nets
    BY <1>3, <2>2, <2>3, LastOptionDecides
  <2> HIDE DEF nets, last
  <2> QED BY <1>3, <2>4 DEF Trusts
<1>4. ~Trusts(request.remote) => Client \in {"", request.remote}
  BY DEF Client
<1>5. Client \in {"", request.remote, Forwarded(request)}
  BY DEF Client
<1>6. Forwarded(request) # "" =>
         Forwarded(request) \in names /\ Forwarded(request) \in DOMAIN Bucket
  <2>1. /\ request.forwarded \in Seq(DOMAIN Bucket \cup {"", "unknown"})
        /\ request.xff \in Seq(DOMAIN Bucket \cup {""})
        /\ request.xreal \in DOMAIN Bucket \cup {""}
    BY <1>1, RequestsAssumption
  <2>2. request.forwarded # <<>> =>
           /\ Head(request.forwarded) \in Range(request.forwarded)
           /\ Head(request.forwarded) \in DOMAIN Bucket \cup {"", "unknown"}
    BY <2>1, HeadOfRange
  <2>3. request.xff # <<>> =>
           /\ Head(request.xff) \in Range(request.xff)
           /\ Head(request.xff) \in DOMAIN Bucket \cup {""}
    BY <2>1, HeadOfRange
  <2> QED BY <2>1, <2>2, <2>3 DEF Forwarded
<1> HIDE DEF nets, strict, names, last
<1>7. "real_ip" \notin config.stages => key = Bucket[request.remote]
  BY <1>2
<1>8. strict /\ request.remote \notin nets => key = Bucket[request.remote]
  BY <1>2, <1>3, <1>4
<1>9. key # Bucket[request.remote] =>
         \E name \in names : name \in DOMAIN Bucket /\ key = Bucket[name]
  BY <1>2, <1>5, <1>6
<1> QED BY <1>7, <1>8, <1>9

\* RateLimit counts under the address a trusted proxy names, or under the
\* peer, whatever the order of RealIP's options (real_ip.go:50-110,
\* real_ip_trust.go:38-117, rate_limit.go:237-250).
THEOREM KeysAreClients == Spec => []KeyIsClient
BY WayIsKept, WayCounts, PTL
=============================================================================
