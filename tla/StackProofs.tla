---------------------------- MODULE StackProofs -----------------------------
(***************************************************************************)
(* Proofs about Throttle, and about Recover, Timeout and Throttle          *)
(* together, for every set of requests and every limit.                    *)
(***************************************************************************)
EXTENDS Stack, TLAPS, FiniteSetTheorems, SequenceTheorems

(***************************************************************************)
(*                                THROTTLE                                 *)
(***************************************************************************)

(***************************************************************************)
(* Lines without duplicates, as the queue of parked senders is.            *)
(***************************************************************************)
NoDuplicates(s) == \A i, j \in DOMAIN s : s[i] = s[j] => i = j

\* Taking an element out of such a line keeps it one and removes just that
\* element (a parked sender leaves).
LEMMA RemoveAtFacts ==
    ASSUME NEW S, NEW s \in Seq(S), NoDuplicates(s), NEW k \in DOMAIN s
    PROVE  /\ RemoveAt(s, k) \in Seq(S)
           /\ NoDuplicates(RemoveAt(s, k))
           /\ ToSet(RemoveAt(s, k)) = ToSet(s) \ {s[k]}
<1> DEFINE a == SubSeq(s, 1, k - 1)
           b == SubSeq(s, k + 1, Len(s))
           t == a \o b
<1>1. Len(s) \in Nat /\ DOMAIN s = 1..Len(s) /\ k \in 1..Len(s)
  BY LenProperties
<1>2. \A i \in 1..Len(s) : s[i] \in S
  BY ElementOfSeq
<1>3. /\ a \in Seq(S) /\ Len(a) = k - 1
      /\ \A i \in 1..(k - 1) : a[i] = s[i]
  <2>1. \A i \in 1..(k - 1) : s[i] \in S
    BY <1>1, <1>2
  <2>2. /\ a \in Seq(S)
        /\ Len(a) = IF 1 <= k - 1 THEN (k - 1) - 1 + 1 ELSE 0
        /\ \A i \in 1..((k - 1) - 1 + 1) : a[i] = s[1 + i - 1]
    BY <1>1, <2>1, SubSeqProperties
  <2> QED BY <1>1, <2>2
<1>4. /\ b \in Seq(S) /\ Len(b) = Len(s) - k
      /\ \A i \in 1..(Len(s) - k) : b[i] = s[k + i]
  <2>1. \A i \in (k + 1)..Len(s) : s[i] \in S
    BY <1>1, <1>2
  <2>2. /\ b \in Seq(S)
        /\ Len(b) = IF k + 1 <= Len(s) THEN Len(s) - (k + 1) + 1 ELSE 0
        /\ \A i \in 1..(Len(s) - (k + 1) + 1) : b[i] = s[(k + 1) + i - 1]
    BY <1>1, <2>1, SubSeqProperties
  <2> QED BY <1>1, <2>2
<1>5. /\ t \in Seq(S) /\ Len(t) = Len(s) - 1 /\ DOMAIN t = 1..(Len(s) - 1)
      /\ \A i \in 1..(Len(s) - 1) : t[i] = IF i < k THEN s[i] ELSE s[i + 1]
  <2> HIDE DEF a, b
  <2>1. /\ a \o b \in Seq(S) /\ Len(a \o b) = Len(a) + Len(b)
        /\ \A i \in 1..(Len(a) + Len(b)) :
              (a \o b)[i] = IF i <= Len(a) THEN a[i] ELSE b[i - Len(a)]
    BY <1>3, <1>4, ConcatProperties
  <2>2. Len(a) + Len(b) = Len(s) - 1
    BY <1>1, <1>3, <1>4
  <2>3. DOMAIN (a \o b) = 1..(Len(s) - 1)
    BY <2>1, <2>2, LenProperties
  <2>4. ASSUME NEW i \in 1..(Len(s) - 1)
        PROVE  (a \o b)[i] = IF i < k THEN s[i] ELSE s[i + 1]
    <3>1. CASE i < k
      BY <1>1, <1>3, <2>1, <2>2, <3>1
    <3>2. CASE ~(i < k)
      <4> DEFINE j == i - (k - 1)
      <4>1. j \in 1..(Len(s) - k) /\ k + j = i + 1 /\ i - Len(a) = j
        BY <1>1, <1>3, <3>2
      <4>2. (a \o b)[i] = b[i - Len(a)]
        BY <1>1, <1>3, <2>1, <2>2, <3>2
      <4>3. b[j] = s[k + j]
        BY <1>4, <4>1
      <4> QED BY <3>2, <4>1, <4>2, <4>3
    <3> QED BY <3>1, <3>2
  <2> QED BY <2>1, <2>2, <2>3, <2>4
<1>6. RemoveAt(s, k) = t
  BY DEF RemoveAt
<1> HIDE DEF t
<1>7. NoDuplicates(t)
  <2> DEFINE at(i) == IF i < k THEN i ELSE i + 1
  <2>1. \A i \in 1..(Len(s) - 1) : at(i) \in DOMAIN s /\ t[i] = s[at(i)]
    BY <1>1, <1>5
  <2>2. \A i, j \in 1..(Len(s) - 1) : at(i) = at(j) => i = j
    BY <1>1
  <2> HIDE DEF at
  <2> QED BY <1>5, <2>1, <2>2 DEF NoDuplicates
<1>8. ToSet(t) = ToSet(s) \ {s[k]}
  <2>1. ASSUME NEW x \in ToSet(t) PROVE x \in ToSet(s) \ {s[k]}
    BY <1>1, <1>5, <2>1 DEF ToSet, NoDuplicates
  <2>2. ASSUME NEW x \in ToSet(s), x # s[k] PROVE x \in ToSet(t)
    <3>1. PICK i \in 1..Len(s) : x = s[i]
      BY <1>1 DEF ToSet
    <3>2. CASE i < k
      BY <1>1, <1>5, <3>1, <3>2 DEF ToSet
    <3>3. CASE i > k
      <4>1. i - 1 \in 1..(Len(s) - 1) /\ ~(i - 1 < k) /\ (i - 1) + 1 = i
        BY <1>1, <3>3
      <4> QED BY <1>5, <3>1, <4>1 DEF ToSet
    <3> QED BY <1>1, <2>2, <3>1, <3>2, <3>3
  <2> QED BY <2>1, <2>2
<1> QED BY <1>5, <1>6, <1>7, <1>8

\* The same for the head of the line (a slot is handed over).
LEMMA TailFacts ==
    ASSUME NEW S, NEW s \in Seq(S), NoDuplicates(s), s # <<>>
    PROVE  /\ Head(s) \in S
           /\ Tail(s) \in Seq(S)
           /\ NoDuplicates(Tail(s))
           /\ ToSet(Tail(s)) = ToSet(s) \ {Head(s)}
           /\ Head(s) \in ToSet(s)
<1>1. /\ Len(s) \in Nat \ {0} /\ DOMAIN s = 1..Len(s)
      /\ Head(s) \in S /\ Tail(s) \in Seq(S)
      /\ Len(Tail(s)) = Len(s) - 1
      /\ \A i \in 1..Len(Tail(s)) : Tail(s)[i] = s[i + 1]
  BY EmptySeq, LenProperties, HeadTailProperties
<1>2. DOMAIN Tail(s) = 1..(Len(s) - 1) /\ Head(s) = s[1] /\ 1 \in 1..Len(s)
  BY <1>1, LenProperties
<1>3. NoDuplicates(Tail(s))
  BY <1>1, <1>2 DEF NoDuplicates
<1>4. ASSUME NEW x \in ToSet(Tail(s)) PROVE x \in ToSet(s) \ {Head(s)}
  <2>1. PICK i \in 1..(Len(s) - 1) : x = s[i + 1]
    BY <1>1, <1>2 DEF ToSet
  <2>2. i + 1 \in 1..Len(s) /\ i + 1 # 1
    BY <1>1
  <2> QED BY <1>1, <1>2, <2>1, <2>2 DEF ToSet, NoDuplicates
<1>5. ASSUME NEW x \in ToSet(s), x # Head(s) PROVE x \in ToSet(Tail(s))
  <2>1. PICK i \in 1..Len(s) : x = s[i]
    BY <1>1 DEF ToSet
  <2>2. i # 1
    BY <1>2, <1>5, <2>1
  <2>3. i - 1 \in 1..(Len(s) - 1) /\ (i - 1) + 1 = i
    BY <1>1, <2>2
  <2> QED BY <1>1, <1>2, <2>1, <2>3 DEF ToSet
<1> QED BY <1>1, <1>2, <1>3, <1>4, <1>5 DEF ToSet

\* The same for the end of the line (a sender parks).
LEMMA AppendFacts ==
    ASSUME NEW S, NEW s \in Seq(S), NoDuplicates(s),
           NEW x \in S, x \notin ToSet(s)
    PROVE  /\ Append(s, x) \in Seq(S)
           /\ NoDuplicates(Append(s, x))
           /\ ToSet(Append(s, x)) = ToSet(s) \cup {x}
           /\ Append(s, x) # <<>>
<1> DEFINE t == Append(s, x)
<1>1. /\ Len(s) \in Nat /\ DOMAIN s = 1..Len(s)
      /\ t \in Seq(S) /\ t # <<>> /\ Len(t) = Len(s) + 1
      /\ \A i \in 1..Len(s) : t[i] = s[i]
      /\ t[Len(s) + 1] = x
  BY LenProperties, AppendProperties
<1>2. DOMAIN t = 1..(Len(s) + 1)
  BY <1>1, LenProperties
<1> HIDE DEF t
<1>3. NoDuplicates(t)
  BY <1>1, <1>2 DEF NoDuplicates, ToSet
<1>4. ToSet(t) = ToSet(s) \cup {x}
  BY <1>1, <1>2 DEF ToSet
<1> QED BY <1>1, <1>3, <1>4 DEF t

-----------------------------------------------------------------------------
(***************************************************************************)
(* The inductive invariant.  The counts alone are not inductive: a request *)
(* that takes a backlog token must not hold one yet, one that gives it     *)
(* back must hold it, and a parked request must hold no slot.              *)
(***************************************************************************)
Slots == {r \in Requests : HoldsSlot(r)}
Tokens == {r \in Requests : HoldsBacklog(r)}

\* Where in the middleware a request holds a backlog token: nowhere before
\* the second select, everywhere from there to its last deferred call.
BacklogStage ==
    \A r \in Requests :
        /\ pc[r] \in {"idle", "arrived", "full"} => timer[r] = "off"
        /\ pc[r] \in {"queued", "parked", "unwinding"} => timer[r] # "off"

IInv ==
    /\ TypeOK
    /\ SlotAccounting
    /\ BacklogAccounting
    /\ NoIdleSlot
    /\ ParkedAreWaiting
    /\ BacklogStage

\* The two sets behind the counters are finite, and counted by them.
LEMMA CountersAreCardinalities ==
    /\ IsFiniteSet(Slots) /\ IsFiniteSet(Tokens)
    /\ SlotAccounting <=> Cardinality(Slots) = active
    /\ BacklogAccounting <=> Cardinality(Tokens) = backlog
<1>1. Slots \in SUBSET Requests /\ Tokens \in SUBSET Requests
  BY DEF Slots, Tokens
<1> QED BY <1>1, RequestsAssumption, FS_Subset
           DEF Slots, Tokens, SlotAccounting, BacklogAccounting

\* Some parked sender is blocked exactly when the queue is not empty, and
\* its first element is one of them.
LEMMA HeadIsParked ==
    ASSUME IInv, parked # <<>>
    PROVE  /\ Head(parked) \in Requests
           /\ pc[Head(parked)] = "parked"
           /\ Tail(parked) \in Seq(Requests)
           /\ NoDuplicates(Tail(parked))
           /\ ToSet(Tail(parked)) = ToSet(parked) \ {Head(parked)}
<1>1. parked \in Seq(Requests) /\ NoDuplicates(parked)
  BY DEF IInv, TypeOK, ParkedAreWaiting, NoDuplicates
<1>2. /\ Head(parked) \in Requests /\ Head(parked) \in ToSet(parked)
      /\ Tail(parked) \in Seq(Requests)
      /\ NoDuplicates(Tail(parked))
      /\ ToSet(Tail(parked)) = ToSet(parked) \ {Head(parked)}
  BY <1>1, TailFacts
<1> QED BY <1>2 DEF IInv, ParkedAreWaiting

\* No request is in the middleware at the start.
LEMMA InitEstablishes == Init => IInv
<1> SUFFICES ASSUME Init PROVE IInv
  OBVIOUS
<1>1. parked = <<>> /\ parked \in Seq(Requests) /\ DOMAIN parked = {}
  BY EmptySeq, LenProperties DEF Init
<1>2. TypeOK
  BY <1>1, LimitAssumption, BacklogLimitAssumption
     DEF Init, TypeOK, PCs, Timers, Outcomes
<1>3. Slots = {} /\ Tokens = {}
  BY DEF Init, Slots, Tokens, HoldsSlot, HoldsBacklog
<1>4. SlotAccounting /\ BacklogAccounting
  BY <1>3, FS_EmptySet, CountersAreCardinalities DEF Init
<1>5. NoIdleSlot /\ ParkedAreWaiting /\ BacklogStage
  BY <1>1 DEF Init, NoIdleSlot, ParkedAreWaiting, BacklogStage, ToSet
<1> QED BY <1>2, <1>4, <1>5 DEF IInv

\* The step of a parked request that leaves, for either reason.
LEMMA LeaveParkedFacts ==
    ASSUME IInv, NEW r \in Requests, NEW why \in Outcomes, pc[r] = "parked",
           LeaveParked(r, why)
    PROVE  /\ parked' \in Seq(Requests)
           /\ NoDuplicates(parked')
           /\ ToSet(parked') = ToSet(parked) \ {r}
           /\ parked' # <<>> => parked # <<>>
           /\ pc' \in [Requests -> PCs]
           /\ outcome' \in [Requests -> Outcomes]
<1>1. parked \in Seq(Requests) /\ NoDuplicates(parked)
  BY DEF IInv, TypeOK, ParkedAreWaiting, NoDuplicates
<1>2. PICK i \in DOMAIN parked : parked[i] = r /\ parked' = RemoveAt(parked, i)
  BY DEF LeaveParked
<1>3. /\ parked' \in Seq(Requests) /\ NoDuplicates(parked')
      /\ ToSet(parked') = ToSet(parked) \ {r}
  BY <1>1, <1>2, RemoveAtFacts
<1>4. parked # <<>>
  <2>1. DOMAIN <<>> = {}
    BY EmptySeq, LenProperties
  <2> QED BY <1>2, <2>1
<1> QED BY <1>3, <1>4 DEF IInv, TypeOK, LeaveParked, PCs, Outcomes

\* The induction step: one case per action of Throttle, one part of the
\* invariant at a time.
LEMMA StepPreserves == IInv /\ [Next]_vars => IInv'
<1> SUFFICES ASSUME IInv, [Next]_vars PROVE IInv'
  OBVIOUS
<1> USE DEF PCs, Timers, Outcomes
<1>0. /\ active \in Nat /\ backlog \in Nat /\ Limit \in Nat
      /\ BacklogLimit \in Nat
      /\ Cardinality(Slots) = active /\ Cardinality(Tokens) = backlog
      /\ IsFiniteSet(Slots) /\ IsFiniteSet(Tokens)
      /\ parked \in Seq(Requests) /\ NoDuplicates(parked)
  BY LimitAssumption, BacklogLimitAssumption, CountersAreCardinalities
     DEF IInv, TypeOK, NoDuplicates, ParkedAreWaiting
\* What is left to show of a step whose effect on the two channels is known.
<1>a. ASSUME TypeOK', Cardinality(Slots') = active',
             Cardinality(Tokens') = backlog', NoIdleSlot', ParkedAreWaiting',
             BacklogStage'
      PROVE  IInv'
  BY <1>a DEF IInv, SlotAccounting, BacklogAccounting, Slots, Tokens
<1>1. ASSUME NEW r \in Requests, Arrive(r) PROVE IInv'
  <2>1. TypeOK'
    BY <1>1 DEF IInv, TypeOK, Arrive
  <2>2. Slots' = Slots /\ Tokens' = Tokens
    BY <1>1 DEF IInv, TypeOK, Arrive, Slots, Tokens, HoldsSlot, HoldsBacklog
  <2>3. NoIdleSlot' /\ ParkedAreWaiting' /\ BacklogStage'
    BY <1>1 DEF IInv, TypeOK, Arrive, NoIdleSlot, ParkedAreWaiting,
                BacklogStage
  <2> QED BY <1>0, <1>1, <1>a, <2>1, <2>2, <2>3 DEF Arrive
<1>2. ASSUME NEW r \in Requests, TryActive(r) PROVE IInv'
  <2>1. CASE active < Limit
    <3>1. TypeOK'
      BY <1>0, <1>2, <2>1 DEF IInv, TypeOK, TryActive
    <3>2. Slots' = Slots \cup {r} /\ r \notin Slots /\ Tokens' = Tokens
      BY <1>0, <1>2, <2>1
         DEF IInv, TypeOK, TryActive, Slots, Tokens, HoldsSlot, HoldsBacklog
    <3>3. Cardinality(Slots') = active'
      <4>1. Cardinality(Slots \cup {r}) = active + 1
        BY <1>0, <3>2, FS_AddElement
      <4>2. active' = active + 1
        BY <1>0, <1>2, <2>1 DEF TryActive
      <4> QED BY <3>2, <4>1, <4>2
    <3>4. parked = <<>> /\ NoIdleSlot'
      BY <1>0, <1>2, <2>1 DEF IInv, NoIdleSlot, TryActive
    <3>5. ParkedAreWaiting' /\ BacklogStage'
      BY <1>0, <1>2, <2>1
         DEF IInv, TypeOK, TryActive, ParkedAreWaiting, BacklogStage
    <3> QED BY <1>0, <1>2, <1>a, <3>1, <3>2, <3>3, <3>4, <3>5 DEF TryActive
  <2>2. CASE active = Limit
    <3>1. TypeOK'
      BY <1>0, <1>2, <2>2 DEF IInv, TypeOK, TryActive
    <3>2. Slots' = Slots /\ Tokens' = Tokens /\ active' = active
      BY <1>0, <1>2, <2>2
         DEF IInv, TypeOK, TryActive, Slots, Tokens, HoldsSlot, HoldsBacklog
    <3>3. NoIdleSlot' /\ ParkedAreWaiting' /\ BacklogStage'
      BY <1>0, <1>2, <2>2
         DEF IInv, TypeOK, TryActive, NoIdleSlot, ParkedAreWaiting,
             BacklogStage
    <3> QED BY <1>0, <1>2, <1>a, <3>1, <3>2, <3>3 DEF TryActive
  <2> QED BY <1>2, <2>1, <2>2 DEF TryActive
<1>3. ASSUME NEW r \in Requests, TryBacklog(r) PROVE IInv'
  <2>1. CASE backlog < BacklogLimit
    <3>1. TypeOK'
      BY <1>0, <1>3, <2>1 DEF IInv, TypeOK, TryBacklog
    <3>2. Tokens' = Tokens \cup {r} /\ r \notin Tokens /\ Slots' = Slots
      BY <1>0, <1>3, <2>1
         DEF IInv, TypeOK, TryBacklog, Slots, Tokens, HoldsSlot,
             HoldsBacklog, BacklogStage
    <3>3. Cardinality(Tokens') = backlog'
      <4>1. Cardinality(Tokens \cup {r}) = backlog + 1
        BY <1>0, <3>2, FS_AddElement
      <4>2. backlog' = backlog + 1
        BY <1>0, <1>3, <2>1 DEF TryBacklog
      <4> QED BY <3>2, <4>1, <4>2
    <3>4. NoIdleSlot' /\ ParkedAreWaiting' /\ BacklogStage'
      BY <1>0, <1>3, <2>1
         DEF IInv, TypeOK, TryBacklog, NoIdleSlot, ParkedAreWaiting,
             BacklogStage
    <3> QED BY <1>0, <1>3, <1>a, <3>1, <3>2, <3>3, <3>4 DEF TryBacklog
  <2>2. CASE backlog = BacklogLimit
    <3>1. TypeOK'
      BY <1>0, <1>3, <2>2 DEF IInv, TypeOK, TryBacklog
    <3>2. Slots' = Slots /\ Tokens' = Tokens /\ backlog' = backlog
      BY <1>0, <1>3, <2>2
         DEF IInv, TypeOK, TryBacklog, Slots, Tokens, HoldsSlot, HoldsBacklog
    <3>3. NoIdleSlot' /\ ParkedAreWaiting' /\ BacklogStage'
      BY <1>0, <1>3, <2>2
         DEF IInv, TypeOK, TryBacklog, NoIdleSlot, ParkedAreWaiting,
             BacklogStage
    <3> QED BY <1>0, <1>3, <1>a, <3>1, <3>2, <3>3 DEF TryBacklog
  <2> QED BY <1>3, <2>1, <2>2 DEF TryBacklog
<1>4. ASSUME NEW r \in Requests, Select(r) PROVE IInv'
  <2>0. Tokens' = Tokens /\ backlog' = backlog
    BY <1>4 DEF Select, Tokens, HoldsBacklog
  <2>1. CASE /\ active < Limit /\ active' = active + 1
             /\ pc' = [pc EXCEPT ![r] = "serving"]
             /\ UNCHANGED <<outcome, parked>>
    <3>1. TypeOK'
      BY <1>0, <1>4, <2>1 DEF IInv, TypeOK, Select
    <3>2. Slots' = Slots \cup {r} /\ r \notin Slots
      BY <1>0, <1>4, <2>1 DEF IInv, TypeOK, Select, Slots, HoldsSlot
    <3>3. Cardinality(Slots') = active'
      BY <1>0, <2>1, <3>2, FS_AddElement
    <3>4. parked = <<>> /\ NoIdleSlot'
      BY <1>0, <2>1 DEF IInv, NoIdleSlot
    <3>5. ParkedAreWaiting' /\ BacklogStage'
      BY <1>0, <1>4, <2>1
         DEF IInv, TypeOK, Select, ParkedAreWaiting, BacklogStage
    <3> QED BY <1>0, <1>a, <2>0, <3>1, <3>3, <3>4, <3>5
  <2>2. CASE /\ timer[r] = "fired" \/ gone[r]
             /\ \E why \in {"expired", "left"} :
                   outcome' = [outcome EXCEPT ![r] = why]
             /\ pc' = [pc EXCEPT ![r] = "unwinding"]
             /\ UNCHANGED <<active, parked>>
    <3>1. TypeOK'
      BY <1>0, <1>4, <2>2 DEF IInv, TypeOK, Select
    <3>2. Slots' = Slots
      BY <1>0, <1>4, <2>2 DEF IInv, TypeOK, Select, Slots, HoldsSlot
    <3>3. NoIdleSlot' /\ ParkedAreWaiting' /\ BacklogStage'
      BY <1>0, <1>4, <2>2
         DEF IInv, TypeOK, Select, NoIdleSlot, ParkedAreWaiting, BacklogStage
    <3> QED BY <1>0, <1>a, <2>0, <2>2, <3>1, <3>2, <3>3
  <2>3. CASE /\ active = Limit /\ timer[r] # "fired" /\ ~gone[r]
             /\ parked' = Append(parked, r)
             /\ pc' = [pc EXCEPT ![r] = "parked"]
             /\ UNCHANGED <<active, outcome>>
    <3>1. r \notin ToSet(parked)
      BY <1>4 DEF IInv, ParkedAreWaiting, Select
    <3>2. /\ parked' \in Seq(Requests) /\ NoDuplicates(parked')
          /\ ToSet(parked') = ToSet(parked) \cup {r}
      BY <1>0, <2>3, <3>1, AppendFacts
    <3>3. TypeOK'
      BY <1>0, <1>4, <2>3, <3>2 DEF IInv, TypeOK, Select
    <3>4. Slots' = Slots
      BY <1>0, <1>4, <2>3 DEF IInv, TypeOK, Select, Slots, HoldsSlot
    <3>5. NoIdleSlot'
      BY <2>3 DEF NoIdleSlot
    <3>6. timer[r] = "running"
      BY <1>4, <2>3 DEF IInv, TypeOK, Select, BacklogStage
    <3>7. ParkedAreWaiting'
      BY <1>0, <1>4, <2>3, <3>2, <3>6
         DEF IInv, TypeOK, Select, ParkedAreWaiting, NoDuplicates
    <3>8. BacklogStage'
      BY <1>4, <2>3 DEF IInv, TypeOK, Select, BacklogStage
    <3> QED BY <1>0, <1>a, <2>0, <2>3, <3>3, <3>4, <3>5, <3>7, <3>8
  <2> QED BY <1>4, <2>1, <2>2, <2>3 DEF Select
<1>5. ASSUME NEW r \in Requests, HandlerEnds(r) PROVE IInv'
  <2>1. TypeOK'
    BY <1>5 DEF IInv, TypeOK, HandlerEnds
  <2>2. Slots' = Slots /\ Tokens' = Tokens
    BY <1>5
       DEF IInv, TypeOK, HandlerEnds, Slots, Tokens, HoldsSlot, HoldsBacklog
  <2>3. NoIdleSlot' /\ ParkedAreWaiting' /\ BacklogStage'
    BY <1>5 DEF IInv, TypeOK, HandlerEnds, NoIdleSlot, ParkedAreWaiting,
                BacklogStage
  <2> QED BY <1>0, <1>5, <1>a, <2>1, <2>2, <2>3 DEF HandlerEnds
<1>6. ASSUME NEW r \in Requests, ReleaseActive(r) PROVE IInv'
  <2>0. /\ Tokens' = Tokens /\ backlog' = backlog /\ r \in Slots
        /\ AfterRelease(r) \in {"unwinding", "idle"}
    BY <1>6 DEF ReleaseActive, Tokens, HoldsBacklog, Slots, HoldsSlot,
                AfterRelease
  <2>1. CASE parked = <<>>
    <3>1. TypeOK'
      BY <1>0, <1>6, <2>0, <2>1 DEF IInv, TypeOK, ReleaseActive
    <3>2. Slots' = Slots \ {r}
      BY <1>6, <2>0, <2>1 DEF IInv, TypeOK, ReleaseActive, Slots, HoldsSlot
    <3>3. Cardinality(Slots') = active'
      BY <1>0, <1>6, <2>0, <2>1, <3>2, FS_RemoveElement DEF ReleaseActive
    <3>4. NoIdleSlot'
      BY <1>6, <2>1 DEF ReleaseActive, NoIdleSlot
    <3>5. ParkedAreWaiting'
      BY <1>6, <2>0, <2>1 DEF IInv, TypeOK, ReleaseActive, ParkedAreWaiting
    <3>6. BacklogStage'
      BY <1>6, <2>1
         DEF IInv, TypeOK, ReleaseActive, AfterRelease, HoldsBacklog,
             BacklogStage
    <3> QED BY <1>0, <1>a, <2>0, <3>1, <3>3, <3>4, <3>5, <3>6
  <2>2. CASE parked # <<>>
    <3> DEFINE h == Head(parked)
    <3>1. /\ h \in Requests /\ pc[h] = "parked"
          /\ parked' \in Seq(Requests) /\ NoDuplicates(parked')
          /\ ToSet(parked') = ToSet(parked) \ {h}
      BY <1>6, <2>2, HeadIsParked DEF ReleaseActive
    <3>2. /\ pc' = [pc EXCEPT ![r] = AfterRelease(r), ![h] = "serving"]
          /\ active' = active /\ h # r
      BY <1>6, <2>2, <3>1 DEF ReleaseActive
    <3> HIDE DEF h
    <3>3. TypeOK'
      BY <1>0, <1>6, <2>0, <3>1, <3>2 DEF IInv, TypeOK, ReleaseActive
    <3>4. Slots' = (Slots \ {r}) \cup {h} /\ h \notin Slots \ {r}
      BY <1>6, <2>0, <3>1, <3>2 DEF IInv, TypeOK, Slots, HoldsSlot
    <3>5. Cardinality(Slots') = active'
      <4>1. /\ IsFiniteSet(Slots \ {r})
            /\ Cardinality(Slots \ {r}) = active - 1
        BY <1>0, <2>0, FS_RemoveElement
      <4>2. Cardinality((Slots \ {r}) \cup {h}) = (active - 1) + 1
        BY <3>4, <4>1, FS_AddElement
      <4> QED BY <1>0, <3>2, <3>4, <4>2
    <3>6. NoIdleSlot'
      BY <2>2, <3>2 DEF IInv, NoIdleSlot
    <3>7. ParkedAreWaiting'
      <4>1. \A q \in Requests : pc'[q] = "parked" <=> pc[q] = "parked" /\ q # h
        BY <1>6, <2>0, <3>1, <3>2 DEF IInv, TypeOK, ReleaseActive
      <4> QED BY <1>6, <3>1, <4>1
              DEF IInv, ParkedAreWaiting, NoDuplicates, ReleaseActive
    <3>8. BacklogStage'
      BY <1>6, <3>1, <3>2
         DEF IInv, TypeOK, ReleaseActive, AfterRelease, HoldsBacklog,
             BacklogStage
    <3> QED BY <1>0, <1>a, <2>0, <3>3, <3>5, <3>6, <3>7, <3>8
  <2> QED BY <2>1, <2>2
<1>7. ASSUME NEW r \in Requests, ReleaseBacklog(r) PROVE IInv'
  <2>1. TypeOK'
    BY <1>0, <1>7 DEF IInv, TypeOK, ReleaseBacklog
  <2>2. Tokens' = Tokens \ {r} /\ r \in Tokens /\ Slots' = Slots
    BY <1>7 DEF IInv, TypeOK, ReleaseBacklog, Slots, Tokens, HoldsSlot,
                HoldsBacklog, BacklogStage
  <2>3. Cardinality(Tokens') = backlog'
    BY <1>0, <1>7, <2>2, FS_RemoveElement DEF ReleaseBacklog
  <2>4. NoIdleSlot' /\ ParkedAreWaiting' /\ BacklogStage'
    BY <1>7 DEF IInv, TypeOK, ReleaseBacklog, NoIdleSlot, ParkedAreWaiting,
                BacklogStage
  <2> QED BY <1>0, <1>7, <1>a, <2>1, <2>2, <2>3, <2>4 DEF ReleaseBacklog
<1>8. ASSUME NEW r \in Requests, TimerFires(r) PROVE IInv'
  <2>1. Tokens' = Tokens
    BY <1>8 DEF IInv, TypeOK, TimerFires, Tokens, HoldsBacklog
  <2>2. CASE pc[r] = "parked" /\ LeaveParked(r, "expired")
    <3>1. /\ parked' \in Seq(Requests) /\ NoDuplicates(parked')
          /\ ToSet(parked') = ToSet(parked) \ {r}
          /\ parked' # <<>> => parked # <<>>
          /\ pc' \in [Requests -> PCs] /\ outcome' \in [Requests -> Outcomes]
      BY <2>2, LeaveParkedFacts
    <3>2. pc' = [pc EXCEPT ![r] = "unwinding"]
      BY <2>2 DEF LeaveParked
    <3>3. TypeOK'
      BY <1>0, <1>8, <3>1 DEF IInv, TypeOK, TimerFires
    <3>4. Slots' = Slots
      BY <2>2, <3>2 DEF IInv, TypeOK, Slots, HoldsSlot
    <3>5. NoIdleSlot' /\ BacklogStage'
      BY <1>8, <3>1, <3>2
         DEF IInv, TypeOK, TimerFires, NoIdleSlot, BacklogStage
    <3>6. ParkedAreWaiting'
      BY <1>8, <3>1, <3>2
         DEF IInv, TypeOK, TimerFires, ParkedAreWaiting, NoDuplicates
    <3> QED BY <1>0, <1>8, <1>a, <2>1, <3>3, <3>4, <3>5, <3>6 DEF TimerFires
  <2>3. CASE pc[r] # "parked" /\ UNCHANGED <<pc, outcome, parked>>
    <3>1. TypeOK' /\ Slots' = Slots
      BY <1>8, <2>3 DEF IInv, TypeOK, TimerFires, Slots, HoldsSlot
    <3>2. NoIdleSlot' /\ ParkedAreWaiting' /\ BacklogStage'
      BY <1>8, <2>3 DEF IInv, TypeOK, TimerFires, NoIdleSlot,
                        ParkedAreWaiting, BacklogStage
    <3> QED BY <1>0, <1>8, <1>a, <2>1, <3>1, <3>2 DEF TimerFires
  <2> QED BY <1>8, <2>2, <2>3 DEF TimerFires
<1>9. ASSUME NEW r \in Requests, ClientGone(r) PROVE IInv'
  <2>1. Tokens' = Tokens
    BY <1>9 DEF IInv, TypeOK, ClientGone, Tokens, HoldsBacklog
  <2>2. CASE pc[r] = "parked" /\ LeaveParked(r, "left")
    <3>1. /\ parked' \in Seq(Requests) /\ NoDuplicates(parked')
          /\ ToSet(parked') = ToSet(parked) \ {r}
          /\ parked' # <<>> => parked # <<>>
          /\ pc' \in [Requests -> PCs] /\ outcome' \in [Requests -> Outcomes]
      BY <2>2, LeaveParkedFacts
    <3>2. pc' = [pc EXCEPT ![r] = "unwinding"]
      BY <2>2 DEF LeaveParked
    <3>3. TypeOK'
      BY <1>0, <1>9, <3>1 DEF IInv, TypeOK, ClientGone
    <3>4. Slots' = Slots
      BY <2>2, <3>2 DEF IInv, TypeOK, Slots, HoldsSlot
    <3>5. NoIdleSlot' /\ BacklogStage'
      BY <1>9, <2>2, <3>1, <3>2
         DEF IInv, TypeOK, ClientGone, NoIdleSlot, BacklogStage
    <3>6. ParkedAreWaiting'
      BY <1>9, <3>1, <3>2
         DEF IInv, TypeOK, ClientGone, ParkedAreWaiting, NoDuplicates
    <3> QED BY <1>0, <1>9, <1>a, <2>1, <3>3, <3>4, <3>5, <3>6 DEF ClientGone
  <2>3. CASE pc[r] # "parked" /\ UNCHANGED <<pc, outcome, parked>>
    <3>1. TypeOK' /\ Slots' = Slots
      BY <1>9, <2>3 DEF IInv, TypeOK, ClientGone, Slots, HoldsSlot
    <3>2. NoIdleSlot' /\ ParkedAreWaiting' /\ BacklogStage'
      BY <1>9, <2>3 DEF IInv, TypeOK, ClientGone, NoIdleSlot,
                        ParkedAreWaiting, BacklogStage
    <3> QED BY <1>0, <1>9, <1>a, <2>1, <3>1, <3>2 DEF ClientGone
  <2> QED BY <1>9, <2>2, <2>3 DEF ClientGone
<1>10. CASE UNCHANGED vars
  BY <1>10 DEF IInv, TypeOK, SlotAccounting, BacklogAccounting, NoIdleSlot,
               ParkedAreWaiting, BacklogStage, HoldsSlot, HoldsBacklog, vars
<1> QED BY <1>1, <1>2, <1>3, <1>4, <1>5, <1>6, <1>7, <1>8, <1>9, <1>10
        DEF Next, Progress

\* Every reachable state satisfies the inductive invariant.
THEOREM InductiveInvariant == Spec => []IInv
<1> QED BY InitEstablishes, StepPreserves, PTL DEF Spec

\* No request is lost or forged by the accounting of the two channels, on
\* any path: the counters always equal the number of requests that hold a
\* slot and a backlog token.
THEOREM AccountingIsExact ==
    Spec => [](TypeOK /\ TokensAreExact)
<1>1. IInv => TypeOK /\ TokensAreExact
  BY DEF IInv, TokensAreExact
<1> QED BY <1>1, InductiveInvariant, PTL

\* The limit itself: never more than Limit requests hold a slot, never more
\* than BacklogLimit hold a place in the backlog.
THEOREM ConcurrencyBounded ==
    Spec => [](/\ Cardinality(Slots) <= Limit
               /\ Cardinality(Tokens) <= BacklogLimit)
<1>1. IInv => /\ Cardinality(Slots) <= Limit
              /\ Cardinality(Tokens) <= BacklogLimit
  BY CountersAreCardinalities, LimitAssumption, BacklogLimitAssumption
     DEF IInv, TypeOK
<1> QED BY <1>1, InductiveInvariant, PTL

\* A request is parked only while every slot is taken.
THEOREM WorkConserving == Spec => []NoIdleSlot
<1>1. IInv => NoIdleSlot
  BY DEF IInv
<1> QED BY <1>1, InductiveInvariant, PTL

\* The queue of parked senders holds just the requests still waiting.
THEOREM OnlyWaitersAreParked == Spec => []ParkedAreWaiting
<1>1. IInv => ParkedAreWaiting
  BY DEF IInv
<1> QED BY <1>1, InductiveInvariant, PTL

\* Whoever starts being served while others wait is the first of them.
LEMMA StepServesInOrder == IInv /\ [Next]_vars => [ServesInOrder]_vars
<1> SUFFICES ASSUME IInv, Next, NEW q \in Requests,
                    pc[q] # "serving", pc'[q] = "serving", parked # <<>>
             PROVE  q = Head(parked)
  BY DEF ServesInOrder
<1>0. active = Limit /\ Limit \in Nat
  BY LimitAssumption DEF IInv, NoIdleSlot
<1>1. ASSUME NEW r \in Requests, Arrive(r) \/ HandlerEnds(r) PROVE FALSE
  BY <1>1 DEF IInv, TypeOK, Arrive, HandlerEnds
<1>2. ASSUME NEW r \in Requests, TryActive(r) \/ Select(r) PROVE FALSE
  BY <1>0, <1>2 DEF IInv, TypeOK, TryActive, Select
<1>3. ASSUME NEW r \in Requests, TryBacklog(r) \/ ReleaseBacklog(r)
      PROVE  FALSE
  BY <1>3 DEF IInv, TypeOK, TryBacklog, ReleaseBacklog
<1>4. ASSUME NEW r \in Requests, ReleaseActive(r) PROVE q = Head(parked)
  BY <1>4 DEF IInv, TypeOK, ReleaseActive, AfterRelease
<1>5. ASSUME NEW r \in Requests, TimerFires(r) \/ ClientGone(r) PROVE FALSE
  BY <1>5 DEF IInv, TypeOK, TimerFires, ClientGone, LeaveParked
<1> QED BY <1>1, <1>2, <1>3, <1>4, <1>5 DEF Next, Progress

\* No barging, in every step of every behaviour.
THEOREM ServedInOrder == Spec => NoOvertaking
<1> QED BY InductiveInvariant, StepServesInOrder, PTL DEF Spec, NoOvertaking

-----------------------------------------------------------------------------
(***************************************************************************)
(* The refinement: the slots are the abstract queue's running clients and  *)
(* the parked senders its line.                                            *)
(***************************************************************************)
\* The abstract module's copies of the library operators are the library's.
LEMMA SameOperators ==
    /\ \A S : Queue!Cardinality(S) = Cardinality(S)
    /\ \A s : Queue!ToSet(s) = ToSet(s)
    /\ \A s, i : Queue!RemoveAt(s, i) = RemoveAt(s, i)
<1>1. \A S : Queue!Cardinality(S) = Cardinality(S)
  BY DEF Queue!Cardinality, Cardinality
<1>2. \A s : Queue!ToSet(s) = ToSet(s)
  BY DEF Queue!ToSet, ToSet
<1>3. \A s, i : Queue!RemoveAt(s, i) = RemoveAt(s, i)
  BY DEF Queue!RemoveAt, RemoveAt
<1> QED BY <1>1, <1>2, <1>3

\* The queue starts empty, with nobody running.
LEMMA InitRefines == Init => Queue!QueueInit
BY DEF Init, Queue!QueueInit, HoldsSlot

\* Every step of Throttle is a Start, Join, Leave or Finish of the queue,
\* or leaves it alone.
LEMMA StepRefines ==
    IInv /\ IInv' /\ [Next]_vars => [Queue!QueueNext]_(Queue!queueVars)
<1> SUFFICES ASSUME IInv, IInv', [Next]_vars
             PROVE  Queue!QueueNext \/ UNCHANGED <<Slots, parked>>
  BY DEF Queue!queueVars, Slots
<1> USE DEF PCs
<1>0. /\ active \in Nat /\ Limit \in Nat /\ BacklogLimit \in Nat
      /\ Cardinality(Slots) = active
      /\ parked \in Seq(Requests)
  BY LimitAssumption, BacklogLimitAssumption, CountersAreCardinalities
     DEF IInv, TypeOK
<1>s. Slots = {r \in Requests : HoldsSlot(r)}
  BY DEF Slots
\* A request that takes a free slot starts in the abstract queue.
<1>1. ASSUME NEW r \in Requests, active < Limit,
             pc[r] \in {"arrived", "queued"},
             pc' = [pc EXCEPT ![r] = "serving"], UNCHANGED parked
      PROVE  Queue!QueueNext
  <2>1. parked = <<>>
    BY <1>0, <1>1 DEF IInv, NoIdleSlot
  <2>2. Slots' = Slots \cup {r} /\ r \notin Slots /\ r \notin ToSet(parked)
    BY <1>1 DEF IInv, TypeOK, ParkedAreWaiting, Slots, HoldsSlot
  <2>3. Queue!Start(r)
    BY <1>0, <1>1, <2>1, <2>2, SameOperators
       DEF Queue!Start, Queue!Outside, Slots
  <2> QED BY <2>3 DEF Queue!QueueNext
\* A request that parks joins the line, which has room: the parked hold a
\* backlog token each, and so does the newcomer.
<1>2. ASSUME NEW r \in Requests, active = Limit, pc[r] = "queued",
             pc' = [pc EXCEPT ![r] = "parked"],
             parked' = Append(parked, r)
      PROVE  Queue!QueueNext
  <2>1. Slots' = Slots /\ r \notin Slots /\ r \notin ToSet(parked)
    BY <1>2 DEF IInv, TypeOK, ParkedAreWaiting, Slots, HoldsSlot
  <2>2. Len(parked) < BacklogLimit
    <3>1. Len(parked) = Cardinality(ToSet(parked)) /\ IsFiniteSet(ToSet(parked))
      <4>1. Len(parked) \in Nat /\ DOMAIN parked = 1..Len(parked)
        BY <1>0, LenProperties
      <4>2. parked \in Bijection(1..Len(parked), ToSet(parked))
        <5>1. parked \in [1..Len(parked) -> ToSet(parked)]
          BY <1>0, <4>1, LenProperties DEF ToSet
        <5>2. \A i, j \in 1..Len(parked) : parked[i] = parked[j] => i = j
          BY <4>1 DEF IInv, ParkedAreWaiting
        <5>3. \A x \in ToSet(parked) : \E i \in 1..Len(parked) : parked[i] = x
          BY <4>1 DEF ToSet
        <5> QED BY <5>1, <5>2, <5>3
                DEF Bijection, Injection, Surjection, IsInjective
      <4>3. ExistsBijection(1..Len(parked), ToSet(parked))
        BY <4>2 DEF ExistsBijection
      <4>4. Cardinality(ToSet(parked)) = Len(parked)
        BY <4>1, <4>3, FS_CountingElements
      <4>5. ToSet(parked) \in SUBSET Requests
        BY <4>2, <1>0, LenProperties DEF ToSet, Bijection, Injection
      <4> QED BY <4>4, <4>5, RequestsAssumption, FS_Subset
    <3>2. /\ Cardinality(ToSet(parked) \cup {r}) = Len(parked) + 1
          /\ IsFiniteSet(ToSet(parked) \cup {r})
      BY <2>1, <3>1, FS_AddElement
    <3>3. ToSet(parked) \cup {r} \in SUBSET Tokens
      <4>1. \A q \in ToSet(parked) : q \in Requests
        BY <1>0, LenProperties, ElementOfSeq DEF ToSet
      <4>2. \A q \in ToSet(parked) : pc[q] = "parked"
        BY <4>1 DEF IInv, ParkedAreWaiting
      <4> QED BY <1>2, <4>1, <4>2
              DEF IInv, BacklogStage, Tokens, HoldsBacklog
    <3>4. /\ IsFiniteSet(Tokens) /\ Cardinality(Tokens) = backlog
          /\ backlog \in 0..BacklogLimit
      BY CountersAreCardinalities DEF IInv, TypeOK
    <3>5. Len(parked) + 1 <= backlog
      BY <3>2, <3>3, <3>4, FS_Subset
    <3> QED BY <1>0, <3>4, <3>5, LenProperties
  <2>3. Queue!Join(r)
    BY <1>0, <1>2, <2>1, <2>2, SameOperators
       DEF Queue!Join, Queue!Outside, Slots
  <2> QED BY <2>3 DEF Queue!QueueNext
\* A parked request that leaves for its timer or its context.
<1>3. ASSUME NEW r \in Requests, NEW why, pc[r] = "parked",
             LeaveParked(r, why)
      PROVE  Queue!QueueNext
  <2>1. Slots' = Slots
    BY <1>3 DEF IInv, TypeOK, LeaveParked, Slots, HoldsSlot
  <2>2. Queue!Leave(r)
    BY <1>3, <2>1, SameOperators DEF LeaveParked, Queue!Leave, Slots
  <2> QED BY <2>2 DEF Queue!QueueNext
\* A slot that comes back, to the pool or to the head of the line.
<1>4. ASSUME NEW r \in Requests, ReleaseActive(r) PROVE Queue!QueueNext
  <2>0. r \in Slots /\ AfterRelease(r) \in {"unwinding", "idle"}
    BY <1>4 DEF ReleaseActive, Slots, HoldsSlot, AfterRelease
  <2>1. CASE parked = <<>>
    <3>1. Slots' = Slots \ {r} /\ UNCHANGED parked
      BY <1>4, <2>0, <2>1 DEF IInv, TypeOK, ReleaseActive, Slots, HoldsSlot
    <3> QED BY <2>0, <2>1, <3>1 DEF Queue!QueueNext, Queue!Finish, Slots
  <2>2. CASE parked # <<>>
    <3> DEFINE h == Head(parked)
    <3>1. h \in Requests /\ pc[h] = "parked"
      BY <2>2, HeadIsParked
    <3>2. /\ pc' = [pc EXCEPT ![r] = AfterRelease(r), ![h] = "serving"]
          /\ parked' = Tail(parked) /\ h # r
      BY <1>4, <2>2, <3>1 DEF ReleaseActive
    <3> HIDE DEF h
    <3>3. Slots' = (Slots \ {r}) \cup {h}
      BY <1>4, <2>0, <3>1, <3>2 DEF IInv, TypeOK, Slots, HoldsSlot
    <3>4. Queue!Finish(r)
      BY <2>0, <2>2, <3>2, <3>3 DEF Queue!Finish, Slots, h
    <3> QED BY <3>4 DEF Queue!QueueNext
  <2> QED BY <2>1, <2>2
\* Every other step leaves the slots and the line alone.
<1>5. ASSUME NEW r \in Requests,
             Arrive(r) \/ TryBacklog(r) \/ HandlerEnds(r) \/ ReleaseBacklog(r)
      PROVE  UNCHANGED <<Slots, parked>>
  BY <1>5 DEF IInv, TypeOK, Arrive, TryBacklog, HandlerEnds, ReleaseBacklog,
              Slots, HoldsSlot
<1>6. ASSUME NEW r \in Requests, TryActive(r)
      PROVE  Queue!QueueNext \/ UNCHANGED <<Slots, parked>>
  <2>1. CASE active < Limit
    BY <1>0, <1>1, <1>6, <2>1 DEF TryActive
  <2>2. CASE active = Limit
    BY <1>0, <1>6, <2>2 DEF IInv, TypeOK, TryActive, Slots, HoldsSlot
  <2> QED BY <1>6, <2>1, <2>2 DEF TryActive
<1>7. ASSUME NEW r \in Requests, Select(r)
      PROVE  Queue!QueueNext \/ UNCHANGED <<Slots, parked>>
  <2>1. CASE active < Limit /\ pc' = [pc EXCEPT ![r] = "serving"]
                            /\ UNCHANGED parked
    BY <1>1, <1>7, <2>1 DEF Select
  <2>2. CASE pc' = [pc EXCEPT ![r] = "unwinding"] /\ UNCHANGED parked
    BY <1>7, <2>2 DEF IInv, TypeOK, Select, Slots, HoldsSlot
  <2>3. CASE active = Limit /\ parked' = Append(parked, r)
                            /\ pc' = [pc EXCEPT ![r] = "parked"]
    BY <1>2, <1>7, <2>3 DEF Select
  <2> QED BY <1>7, <2>1, <2>2, <2>3 DEF Select
<1>8. ASSUME NEW r \in Requests, TimerFires(r) \/ ClientGone(r)
      PROVE  Queue!QueueNext \/ UNCHANGED <<Slots, parked>>
  <2>1. CASE pc[r] = "parked"
    BY <1>3, <1>8, <2>1 DEF TimerFires, ClientGone
  <2>2. CASE pc[r] # "parked"
    BY <1>8, <2>2 DEF TimerFires, ClientGone, Slots, HoldsSlot
  <2> QED BY <2>1, <2>2
<1>9. CASE UNCHANGED vars
  BY <1>9 DEF vars, Slots, HoldsSlot
<1> QED BY <1>4, <1>5, <1>6, <1>7, <1>8, <1>9 DEF Next, Progress

\* Throttle is a bounded, fair and work-conserving waiting line.
THEOREM Refinement == Spec => ImplementsQueue
<1> QED BY InductiveInvariant, InitRefines, StepRefines, PTL
        DEF Spec, ImplementsQueue, Queue!QueueSpec

(***************************************************************************)
(*                                THE STACK                                *)
(*                                                                         *)
(* What the first part shows of Throttle alone is carried over by showing  *)
(* that the stack runs it; the invariant then adds what the outer          *)
(* goroutine knows of the inner one.                                       *)
(***************************************************************************)

\* Steps of the inner goroutine, deadlines aside.
Runs(r) == Progress(r) \/ HandlerEnds(r) \/ TimerFires(r)

\* Every step of the stack is one of Throttle or leaves it alone.
LEMMA StackStepIsThrottleStep == StackNext => [Next]_vars
BY DEF StackNext, Enter, Inner, Expire, Outer, ReplyFailed, ReplyDone,
       ReplyLate, Reply, Next

\* Timeout around it and Recover around that leave Throttle what it is
\* (chain.go:216-241): the stack implements the module Throttle.
THEOREM ThrottleInside == StackSpec => Spec
<1>1. StackInit => Init
  BY DEF StackInit
<1>2. [StackNext]_stackVars => [Next]_vars
  BY StackStepIsThrottleStep DEF stackVars
<1> QED BY <1>1, <1>2, PTL DEF StackSpec, Spec

\* So no slot and no place in the backlog is lost to deadlines, panics that
\* cross goroutines, or handlers that outlive their answer.
THEOREM StackAccountingIsExact ==
    StackSpec => [](TypeOK /\ TokensAreExact)
<1> QED BY ThrottleInside, AccountingIsExact

-----------------------------------------------------------------------------
(***************************************************************************)
(* The inductive invariant.  AnswerNamesOutcome speaks of requests that    *)
(* were answered; before that, the outcome must be known by the time the   *)
(* inner goroutine is over, and a request that was given up must have had  *)
(* its context done.                                                       *)
(***************************************************************************)
OutcomeTells ==
    \A r \in Requests :
        /\ pc[r] = "releasing" => outcome[r] \in {"served", "panicked"}
        /\ pc[r] = "unwinding" => outcome[r] # "none"
        /\ outcome[r] = "left" => gone[r]

OverMeansOutcome ==
    \A r \in Requests :
        outer[r] = "waiting" /\ InnerOver(r) => outcome[r] # "none"

StackIInv ==
    /\ IInv
    /\ StackTypeOK
    /\ OutcomeTells
    /\ OverMeansOutcome
    /\ AnswerNamesOutcome

\* A request whose goroutine is over is left alone by the goroutines that
\* run, and one that ends in a step has an outcome.
LEMMA RunsFacts ==
    ASSUME IInv, OutcomeTells, NEW q \in Requests, Runs(q)
    PROVE  /\ gone' = gone
           /\ \A r \in Requests :
                 /\ pc[r] = "idle" => pc'[r] = "idle" /\ outcome'[r] = outcome[r]
                 /\ pc[r] # "idle" /\ pc'[r] = "idle" => outcome'[r] # "none"
           /\ OutcomeTells'
<1> USE DEF PCs, Timers, Outcomes
<1>0. /\ pc \in [Requests -> PCs] /\ outcome \in [Requests -> Outcomes]
      /\ timer \in [Requests -> Timers] /\ gone \in [Requests -> BOOLEAN]
  BY DEF IInv, TypeOK
<1>1. CASE TryActive(q)
  BY <1>0, <1>1 DEF TryActive, OutcomeTells
<1>2. CASE TryBacklog(q)
  BY <1>0, <1>2 DEF TryBacklog, OutcomeTells
<1>3. CASE Select(q)
  BY <1>0, <1>3 DEF Select, OutcomeTells
<1>4. CASE HandlerEnds(q)
  BY <1>0, <1>4 DEF HandlerEnds, OutcomeTells
<1>5. CASE ReleaseActive(q)
  <2>1. CASE parked = <<>>
    BY <1>0, <1>5, <2>1 DEF ReleaseActive, AfterRelease, OutcomeTells
  <2>2. CASE parked # <<>>
    <3>1. Head(parked) \in Requests /\ pc[Head(parked)] = "parked"
      BY <2>2, HeadIsParked
    <3> QED BY <1>0, <1>5, <2>2, <3>1
            DEF ReleaseActive, AfterRelease, OutcomeTells
  <2> QED BY <2>1, <2>2
<1>6. CASE ReleaseBacklog(q)
  BY <1>0, <1>6 DEF ReleaseBacklog, OutcomeTells
<1>7. CASE TimerFires(q)
  <2>1. CASE pc[q] = "parked"
    BY <1>0, <1>7, <2>1 DEF TimerFires, LeaveParked, OutcomeTells
  <2>2. CASE pc[q] # "parked"
    BY <1>0, <1>7, <2>2 DEF TimerFires, OutcomeTells
  <2> QED BY <2>1, <2>2
<1> QED BY <1>1, <1>2, <1>3, <1>4, <1>5, <1>6, <1>7 DEF Runs, Progress

\* A deadline only adds to the contexts that are done, and lets a parked
\* request go.
LEMMA ExpireFacts ==
    ASSUME IInv, OutcomeTells, NEW q \in Requests, ClientGone(q)
    PROVE  /\ \A r \in Requests :
                 /\ gone[r] => gone'[r]
                 /\ pc[r] = "idle" <=> pc'[r] = "idle"
                 /\ pc[r] = "idle" => outcome'[r] = outcome[r]
           /\ OutcomeTells'
<1> USE DEF PCs, Timers, Outcomes
<1>0. /\ pc \in [Requests -> PCs] /\ outcome \in [Requests -> Outcomes]
      /\ gone \in [Requests -> BOOLEAN]
  BY DEF IInv, TypeOK
<1>1. CASE pc[q] = "parked"
  BY <1>0, <1>1 DEF ClientGone, LeaveParked, OutcomeTells
<1>2. CASE pc[q] # "parked"
  BY <1>0, <1>2 DEF ClientGone, OutcomeTells
<1> QED BY <1>1, <1>2

\* Nothing was received and nothing answered at the start.
LEMMA StackInitEstablishes == StackInit => StackIInv
<1> SUFFICES ASSUME StackInit PROVE StackIInv
  OBVIOUS
<1>1. IInv
  BY InitEstablishes DEF StackInit
<1>2. StackTypeOK /\ OutcomeTells /\ OverMeansOutcome /\ AnswerNamesOutcome
  BY DEF StackInit, Init, StackTypeOK, Answers, OutcomeTells,
         OverMeansOutcome, AnswerNamesOutcome
<1> QED BY <1>1, <1>2 DEF StackIInv

\* The induction step: arrivals, the inner goroutine, deadlines, and the
\* three answers.
LEMMA StackStepPreserves == StackIInv /\ [StackNext]_stackVars => StackIInv'
<1> SUFFICES ASSUME StackIInv, [StackNext]_stackVars PROVE StackIInv'
  OBVIOUS
<1>0. /\ IInv /\ StackTypeOK /\ OutcomeTells /\ OverMeansOutcome /\ AnswerNamesOutcome
      /\ pc \in [Requests -> PCs] /\ outcome \in [Requests -> Outcomes]
      /\ gone \in [Requests -> BOOLEAN]
  BY DEF StackIInv, IInv, TypeOK
<1>a. IInv'
  BY <1>0, StepPreserves, StackStepIsThrottleStep DEF stackVars
<1>1. ASSUME NEW q \in Requests, Enter(q) PROVE StackIInv'
  <2>1. StackTypeOK'
    BY <1>0, <1>1 DEF Enter, StackTypeOK, Answers
  <2>2. OutcomeTells'
    BY <1>0, <1>1 DEF Enter, Arrive, OutcomeTells
  <2>3. OverMeansOutcome'
    BY <1>0, <1>1 DEF Enter, Arrive, OverMeansOutcome, InnerOver, StackTypeOK
  <2>4. AnswerNamesOutcome'
    BY <1>0, <1>1 DEF Enter, Arrive, AnswerNamesOutcome, InnerOver, StackTypeOK
  <2> QED BY <1>a, <2>1, <2>2, <2>3, <2>4 DEF StackIInv
<1>2. ASSUME NEW q \in Requests, Inner(q) PROVE StackIInv'
  <2>1. outer' = outer /\ answer' = answer /\ Runs(q)
    BY <1>2 DEF Inner, Runs
  <2>2. /\ gone' = gone /\ OutcomeTells'
        /\ \A r \in Requests :
              /\ pc[r] = "idle" => pc'[r] = "idle" /\ outcome'[r] = outcome[r]
              /\ pc[r] # "idle" /\ pc'[r] = "idle" => outcome'[r] # "none"
    BY <1>0, <2>1, RunsFacts
  <2>3. StackTypeOK'
    BY <1>0, <2>1 DEF StackTypeOK
  <2>4. OverMeansOutcome'
    BY <1>0, <2>1, <2>2 DEF OverMeansOutcome, InnerOver
  <2>5. AnswerNamesOutcome'
    BY <1>0, <2>1, <2>2 DEF AnswerNamesOutcome, InnerOver
  <2> QED BY <1>a, <2>2, <2>3, <2>4, <2>5 DEF StackIInv
<1>3. ASSUME NEW q \in Requests, Expire(q) PROVE StackIInv'
  <2>1. outer' = outer /\ answer' = answer /\ ClientGone(q)
    BY <1>3 DEF Expire
  <2>2. /\ OutcomeTells'
        /\ \A r \in Requests :
              /\ gone[r] => gone'[r]
              /\ pc[r] = "idle" <=> pc'[r] = "idle"
              /\ pc[r] = "idle" => outcome'[r] = outcome[r]
    BY <1>0, <2>1, ExpireFacts
  <2>3. StackTypeOK'
    BY <1>0, <2>1 DEF StackTypeOK
  <2>4. OverMeansOutcome'
    BY <1>0, <2>1, <2>2 DEF OverMeansOutcome, InnerOver
  <2>5. AnswerNamesOutcome'
    BY <1>0, <2>1, <2>2 DEF AnswerNamesOutcome, InnerOver
  <2> QED BY <1>a, <2>2, <2>3, <2>4, <2>5 DEF StackIInv
<1>4. ASSUME NEW q \in Requests, Outer(q) PROVE StackIInv'
  <2>1. /\ vars' = vars
        /\ pc' = pc /\ outcome' = outcome /\ gone' = gone
        /\ outer[q] = "waiting" /\ outer' = [outer EXCEPT ![q] = "answered"]
    BY <1>4 DEF Outer, ReplyFailed, ReplyDone, ReplyLate, Reply, vars
  <2>2. OutcomeTells' /\ OverMeansOutcome'
    BY <1>0, <2>1 DEF OutcomeTells, OverMeansOutcome, InnerOver, StackTypeOK
  <2>3. PICK what \in Answers :
           /\ answer' = [answer EXCEPT ![q] = what]
           /\ ~InnerOver(q) => what = "late" /\ gone[q]
           /\ what = "handler" => outcome[q] = "served"
           /\ what = "failed" => outcome[q] = "panicked"
           /\ what = "refused" => outcome[q] \in {"refused", "expired"}
           /\ what = "empty" => outcome[q] = "left" /\ gone[q]
    <3>1. CASE ReplyFailed(q)
      BY <3>1 DEF ReplyFailed, Reply, Answers
    <3>2. CASE ReplyDone(q)
      <4>1. outcome[q] \in {"served", "refused", "expired", "left"}
        BY <1>0, <2>1, <3>2
           DEF ReplyDone, OverMeansOutcome, Outcomes, InnerOver
      <4>2. outcome[q] = "left" => gone[q]
        BY <1>0 DEF OutcomeTells
      <4>3. CASE outcome[q] = "served"
        BY <3>2, <4>3 DEF ReplyDone, Reply, Answers
      <4>4. CASE outcome[q] \in {"refused", "expired"}
        BY <3>2, <4>4 DEF ReplyDone, Reply, Answers
      <4>5. CASE outcome[q] = "left"
        BY <3>2, <4>2, <4>5 DEF ReplyDone, Reply, Answers
      <4> QED BY <4>1, <4>3, <4>4, <4>5
    <3>3. CASE ReplyLate(q)
      BY <3>3 DEF ReplyLate, Reply, Answers
    <3> QED BY <1>4, <3>1, <3>2, <3>3 DEF Outer
  <2>4. StackTypeOK'
    BY <1>0, <2>1, <2>3 DEF StackTypeOK
  <2>5. AnswerNamesOutcome'
    BY <1>0, <2>1, <2>3 DEF AnswerNamesOutcome, InnerOver, StackTypeOK
  <2> QED BY <1>a, <2>2, <2>4, <2>5 DEF StackIInv
<1>5. ASSUME UNCHANGED stackVars PROVE StackIInv'
  <2>1. outer' = outer /\ answer' = answer /\ pc' = pc
        /\ outcome' = outcome /\ gone' = gone
    BY <1>5 DEF stackVars, vars
  <2> QED BY <1>0, <1>a, <2>1 DEF StackIInv, StackTypeOK, OutcomeTells,
                                  OverMeansOutcome, AnswerNamesOutcome, InnerOver
<1> QED BY <1>1, <1>2, <1>3, <1>4, <1>5 DEF StackNext

\* The invariant holds of every execution of the stack.
THEOREM StackInvariant == StackSpec => []StackIInv
<1> QED BY StackInitEstablishes, StackStepPreserves, PTL DEF StackSpec

\* timeout.go and recover.go together: a request is answered before its
\* goroutine is over only with the timeout answer and its context done, and
\* every other answer names how that goroutine ended.  A 503 for every
\* request past its deadline does not follow, and does not hold: one that
\* Throttle gave up may get an empty 200.
THEOREM AnswersNameOutcome == StackSpec => [](StackTypeOK /\ AnswerNamesOutcome)
<1>1. StackIInv => StackTypeOK /\ AnswerNamesOutcome
  BY DEF StackIInv
<1> QED BY <1>1, StackInvariant, PTL

-----------------------------------------------------------------------------
SlotStep(r) ==
    /\ HoldsSlot(r) /\ ~HoldsSlot(r)' => pc[r] = "releasing"
    /\ outer[r] = "answered" /\ ~HoldsSlot(r) /\ HoldsSlot(r)'
          => pc[r] \in {"arrived", "queued"}

\* One step of Throttle, seen from one request: a slot is lost only by the
\* deferred release, and won in the first or third select, or from the line.
LEMMA SlotMoves ==
    ASSUME IInv, [Next]_vars, NEW r \in Requests
    PROVE  /\ HoldsSlot(r) /\ ~HoldsSlot(r)' => pc[r] = "releasing"
           /\ ~HoldsSlot(r) /\ HoldsSlot(r)'
                 => pc[r] \in {"arrived", "queued", "parked"}
<1> USE DEF HoldsSlot
<1>0. pc \in [Requests -> PCs]
  BY DEF IInv, TypeOK
<1>1. ASSUME NEW q \in Requests, ReleaseActive(q) PROVE
         /\ pc'[r] \in {"serving", "releasing"} =>
               pc[r] \in {"serving", "releasing", "parked"}
         /\ pc[r] \in {"serving", "releasing"} =>
               pc'[r] \in {"serving", "releasing"} \/ pc[r] = "releasing"
  <2>1. CASE parked = <<>>
    BY <1>0, <1>1, <2>1 DEF ReleaseActive, AfterRelease
  <2>2. CASE parked # <<>>
    <3>1. Head(parked) \in Requests /\ pc[Head(parked)] = "parked"
      BY <2>2, HeadIsParked
    <3> QED BY <1>0, <1>1, <2>2, <3>1 DEF ReleaseActive, AfterRelease
  <2> QED BY <2>1, <2>2
<1>2. ASSUME NEW q \in Requests, Arrive(q) \/ TryActive(q) \/ TryBacklog(q)
                                 \/ Select(q) \/ HandlerEnds(q) \/ ReleaseBacklog(q)
      PROVE  /\ HoldsSlot(r) => HoldsSlot(r)'
             /\ HoldsSlot(r)' => HoldsSlot(r) \/ pc[r] \in {"arrived", "queued"}
  BY <1>0, <1>2 DEF Arrive, TryActive, TryBacklog, Select, HandlerEnds,
                    ReleaseBacklog
<1>3. ASSUME NEW q \in Requests, TimerFires(q) \/ ClientGone(q)
      PROVE  HoldsSlot(r) <=> HoldsSlot(r)'
  BY <1>0, <1>3 DEF TimerFires, ClientGone, LeaveParked
<1>4. ASSUME UNCHANGED vars PROVE HoldsSlot(r) <=> HoldsSlot(r)'
  BY <1>4 DEF vars
<1> QED BY <1>1, <1>2, <1>3, <1>4 DEF Next, Progress

\* An answered request whose goroutine goes on has its context done, so it
\* is not parked.
LEMMA StepKeepsSlots ==
    ASSUME StackIInv, [StackNext]_stackVars, NEW r \in Requests
    PROVE  SlotStep(r)
<1>1. IInv /\ AnswerNamesOutcome
  BY DEF StackIInv
<1>2. [Next]_vars
  BY StackStepIsThrottleStep DEF stackVars
<1>3. outer[r] = "answered" => pc[r] # "parked"
  <2>1. pc[r] = "parked" => ~gone[r]
    BY <1>1 DEF IInv, ParkedAreWaiting
  <2> QED BY <1>1, <2>1 DEF AnswerNamesOutcome, InnerOver
<1> QED BY <1>1, <1>2, <1>3, SlotMoves DEF SlotStep

\* chain.go puts Timeout outside of Throttle: a handler abandoned at its
\* deadline gives its slot back when it is over and not before, and no slot
\* is handed to a waiter that has its answer.
THEOREM SlotsOutliveAnswers == StackSpec => SlotOutlivesAnswer
<1>1. StackIInv /\ [StackNext]_stackVars => [\A r \in Requests : SlotStep(r)]_stackVars
  BY StepKeepsSlots
<1> QED BY <1>1, StackInvariant, PTL DEF StackSpec, SlotOutlivesAnswer, SlotStep
=============================================================================
