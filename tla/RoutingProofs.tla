--------------------------- MODULE RoutingProofs ----------------------------
(***************************************************************************)
(* Proofs about Routing and OpenAPI, for every set of handlers, patterns   *)
(* and prefixes and programs of any length: the document and the routes    *)
(* agree, a route goes through the middlewares of its scope, references    *)
(* lead to the schemas they name, and the document takes nothing back.     *)
(***************************************************************************)
EXTENDS Routing, SequenceTheorems, WellFoundedInduction, TLAPS

LogIsSequence == \E R : log \in Seq(R)

Inv == LogIsSequence /\ DocumentMatchesRoutes

LEMMA AppendedTo ==
    ASSUME NEW R, NEW s \in Seq(R), NEW c
    PROVE  /\ Append(s, c) \in Seq(R \cup {c})
           /\ DOMAIN s = 1..Len(s) /\ Len(s) \in Nat
           /\ DOMAIN Append(s, c) = 1..(Len(s) + 1)
           /\ Append(s, c)[Len(s) + 1] = c
           /\ \A i \in 1..Len(s) : Append(s, c)[i] = s[i]
<1>1. s \in Seq(R \cup {c})
  OBVIOUS
<1> QED BY <1>1

\* The log grows and forgets nothing.
LEMMA LogGrows ==
    ASSUME LogIsSequence, NEW c, Called(c)
    PROVE  /\ LogIsSequence'
           /\ \E i \in DOMAIN log' : log'[i] = c
           /\ \A i \in DOMAIN log : i \in DOMAIN log' /\ log'[i] = log[i]
<1>1. PICK R : log \in Seq(R)
  BY DEF LogIsSequence
<1>2. log' = Append(log, c)
  BY DEF Called
<1>3. /\ log' \in Seq(R \cup {c})
      /\ DOMAIN log = 1..Len(log) /\ Len(log) \in Nat
      /\ DOMAIN log' = 1..(Len(log) + 1)
      /\ log'[Len(log) + 1] = c
      /\ \A i \in 1..Len(log) : log'[i] = log[i]
  BY <1>1, <1>2, AppendedTo
<1>4. Len(log) + 1 \in DOMAIN log'
  BY <1>3
<1> QED BY <1>3, <1>4 DEF LogIsSequence

LEMMA HandlerById ==
    ASSUME NEW handler \in Handlers PROVE HandlerOf(handler.id) = handler
  BY HandlersAssumption DEF HandlerOf

\* What Register does to the paths.
LEMMA RegisterPaths ==
    ASSUME NEW method, NEW path, NEW operation, NEW request, NEW response
    PROVE  LET new == Register(generator, method, path, operation, request,
                               response).paths
           IN  /\ method \notin Slots => new = generator.paths
               /\ method \in Slots =>
                     /\ DOMAIN new = DOMAIN generator.paths \cup {<<method, path>>}
                     /\ new[<<method, path>>].request = request.id
                     /\ new[<<method, path>>].response = response.id
                     /\ \A k \in DOMAIN generator.paths :
                           k # <<method, path>> => new[k] = generator.paths[k]
<1> DEFINE built == BuildOperation(generator, method, operation, request,
                                   response)
           entry == [op |-> built.operation, request |-> request.id,
                     response |-> response.id]
           paths == IF method \in Slots
                    THEN Put(generator.paths, <<method, path>>, entry)
                    ELSE generator.paths
<1>1. \E a, b, c : built.generator =
                     [paths |-> generator.paths, schemas |-> a, tags |-> b,
                      maps |-> c]
  BY DEF BuildOperation
<1>2. Register(generator, method, path, operation, request, response) =
        [built.generator EXCEPT
           !.paths = IF method \in Slots THEN Put(@, <<method, path>>, entry)
                     ELSE @]
  BY DEF Register
<1>3. entry.request = request.id /\ entry.response = response.id
  OBVIOUS
<1> HIDE DEF built, entry
<1>4. Register(generator, method, path, operation, request, response).paths
        = paths
  BY <1>1, <1>2
<1>5. method \in Slots =>
        /\ DOMAIN paths = DOMAIN generator.paths \cup {<<method, path>>}
        /\ paths[<<method, path>>] = entry
        /\ \A k \in DOMAIN generator.paths :
              k # <<method, path>> => paths[k] = generator.paths[k]
  BY DEF Put
<1> QED BY <1>3, <1>4, <1>5

\* A call that registers nothing.
LEMMA OtherCall ==
    ASSUME Inv, NEW c, Called(c), UNCHANGED <<routes, generator, options>>
    PROVE  Inv'
<1>1. /\ LogIsSequence'
      /\ \A i \in DOMAIN log : i \in DOMAIN log' /\ log'[i] = log[i]
  BY LogGrows DEF Inv
<1>2. \A k : \A i \in CallsFor(k) : i \in CallsFor(k)' /\ log'[i] = log[i]
  BY <1>1 DEF CallsFor
<1>3. DocumentIsServed'
  BY <1>2 DEF Inv, DocumentMatchesRoutes, DocumentIsServed, HandlerOf
<1>4. ServedIsDocumented'
  BY DEF Inv, DocumentMatchesRoutes, ServedIsDocumented, HandlerOf
<1> QED BY <1>1, <1>3, <1>4 DEF Inv, DocumentMatchesRoutes

\* A call that registers a route, or fails to.
LEMMA RegisteringCall ==
    ASSUME Inv, NEW g, NEW pattern, NEW handler \in Handlers, NEW middlewares,
           RegisterRoute(g, pattern, handler, middlewares), UNCHANGED options
    PROVE  Inv'
<1> DEFINE key == <<pattern.method, pattern.path>>
           call(ok) == [name |-> "handle", group |-> g, ok |-> ok,
                        handler |-> handler.id, pattern |-> pattern]
           route == [method |-> pattern.method, path |-> pattern.path,
                     handler |-> handler.id, call |-> Len(log) + 1,
                     chain |-> Chain(middlewares)]
<1>1. CASE Documents(handler) /\ ~IsValid(pattern)
  <2>1. Called(call(FALSE)) /\ UNCHANGED <<routes, generator, options>>
    BY <1>1 DEF RegisterRoute, Panics
  <2> HIDE DEF call
  <2> QED BY <2>1, OtherCall
<1>2. CASE ~(Documents(handler) /\ ~IsValid(pattern))
  <2>1. generator' = IF Documents(handler)
                     THEN Register(generator, pattern.method, pattern.path,
                                   handler.operation, handler.request,
                                   handler.response)
                     ELSE generator
    BY <1>2 DEF RegisterRoute
  <2>2. \/ Called(call(TRUE)) /\ routes' = routes \cup {route}
        \/ Called(call(FALSE)) /\ routes' = routes
    BY <1>2 DEF RegisterRoute, Panics
  <2>3. /\ LogIsSequence'
        /\ \A i \in DOMAIN log : i \in DOMAIN log' /\ log'[i] = log[i]
        /\ \E i \in DOMAIN log' : log'[i] \in {call(TRUE), call(FALSE)}
        /\ routes' = routes =>
              \/ \E i \in DOMAIN log' : log'[i] = call(FALSE)
              \/ route \in routes'
    <3> HIDE DEF call, route
    <3> QED BY <2>2, LogGrows DEF Inv
  <2>4. routes \subseteq routes' /\ routes' \subseteq routes \cup {route}
    BY <2>2
  <2>5. route \in routes' \/ \E i \in CallsFor(key)' : ~log'[i].ok
    <3> SUFFICES ASSUME route \notin routes'
                 PROVE  \E i \in CallsFor(key)' : ~log'[i].ok
      OBVIOUS
    <3>1. PICK i \in DOMAIN log' : log'[i] = call(FALSE)
      <4> HIDE DEF call, route
      <4> QED BY <2>2, <2>3
    <3>2. /\ log'[i].name = "handle" /\ ~log'[i].ok
          /\ log'[i].pattern.method = pattern.method
          /\ log'[i].pattern.path = pattern.path
      BY <3>1
    <3> QED BY <3>2 DEF CallsFor
  <2>6. \A k : \A i \in CallsFor(k) : i \in CallsFor(k)' /\ log'[i] = log[i]
    BY <2>3 DEF CallsFor
  <2>7. route.method = pattern.method /\ route.path = pattern.path
          /\ HandlerOf(route.handler) = handler
    BY HandlerById
  <2> DEFINE written == Documents(handler) /\ pattern.method \in Slots
  <2>8. /\ DOMAIN generator'.paths = IF written
                                     THEN DOMAIN generator.paths \cup {key}
                                     ELSE DOMAIN generator.paths
        /\ written => /\ generator'.paths[key].request = handler.request.id
                      /\ generator'.paths[key].response = handler.response.id
        /\ \A k \in DOMAIN generator.paths :
              ~written \/ k # key => generator'.paths[k] = generator.paths[k]
    <3>1. CASE ~Documents(handler)
      BY <2>1, <3>1
    <3>2. CASE Documents(handler)
      <4> DEFINE new == Register(generator, pattern.method, pattern.path,
                                 handler.operation, handler.request,
                                 handler.response).paths
      <4>1. generator'.paths = new
        BY <2>1, <3>2
      <4>2. /\ pattern.method \notin Slots => new = generator.paths
            /\ pattern.method \in Slots =>
                 /\ DOMAIN new = DOMAIN generator.paths \cup {key}
                 /\ new[key].request = handler.request.id
                 /\ new[key].response = handler.response.id
                 /\ \A k \in DOMAIN generator.paths :
                       k # key => new[k] = generator.paths[k]
        BY RegisterPaths
      <4> HIDE DEF new, key
      <4> QED BY <3>2, <4>1, <4>2
    <3> QED BY <3>1, <3>2
  <2> HIDE DEF call, route
  <2>9. DocumentIsServed'
    <3> SUFFICES ASSUME NEW k \in DOMAIN generator'.paths
                 PROVE  \/ \E r \in routes' :
                             /\ <<r.method, r.path>> = k
                             /\ HandlerOf(r.handler).request.id
                                   = generator'.paths[k].request
                             /\ HandlerOf(r.handler).response.id
                                   = generator'.paths[k].response
                        \/ \E i \in CallsFor(k)' : ~log'[i].ok
      BY DEF DocumentIsServed, HandlerOf
    <3>1. CASE written /\ k = key
      BY <2>5, <2>7, <2>8, <3>1
    <3>2. CASE ~(written /\ k = key)
      <4>1. /\ k \in DOMAIN generator.paths
            /\ generator'.paths[k] = generator.paths[k]
        BY <2>8, <3>2
      <4>2. \/ \E r \in routes :
                 /\ <<r.method, r.path>> = k
                 /\ HandlerOf(r.handler).request.id = generator.paths[k].request
                 /\ HandlerOf(r.handler).response.id = generator.paths[k].response
            \/ \E i \in CallsFor(k) : ~log[i].ok
        BY <4>1 DEF Inv, DocumentMatchesRoutes, DocumentIsServed
      <4> QED BY <2>4, <2>6, <4>1, <4>2
    <3> QED BY <3>1, <3>2
  <2>10. ServedIsDocumented'
    <3> SUFFICES ASSUME options.openAPI, NEW r \in routes'
                 PROVE  \/ <<r.method, r.path>> \in DOMAIN generator'.paths
                        \/ ~HandlerOf(r.handler).documented
                        \/ Len(HandlerOf(r.handler).wraps) >= MaxDepth
                        \/ \E i \in DOMAIN HandlerOf(r.handler).wraps :
                              HandlerOf(r.handler).wraps[i] \notin Transparent
                        \/ r.method = "CONNECT"
      BY DEF ServedIsDocumented, HandlerOf
    <3>1. CASE r \in routes
      BY <2>8, <3>1 DEF Inv, DocumentMatchesRoutes, ServedIsDocumented
    <3>2. CASE r = route
      <4>1. Documents(handler) =>
              /\ pattern.method \in Slots \cup {"CONNECT"}
              /\ written => key \in DOMAIN generator'.paths
        BY <1>2, <2>8 DEF IsValid, Methods
      <4>2. ~Documents(handler) =>
              \/ ~handler.documented \/ Len(handler.wraps) >= MaxDepth
              \/ \E i \in DOMAIN handler.wraps :
                    handler.wraps[i] \notin Transparent
        BY HandlersAssumption, MaxDepthAssumption DEF Documents, FindsProvider
      <4> QED BY <2>7, <3>2, <4>1, <4>2
    <3> QED BY <2>4, <3>1, <3>2
  <2> QED BY <2>3, <2>9, <2>10 DEF Inv, DocumentMatchesRoutes
<1> QED BY <1>1, <1>2

LEMMA StepKeepsInv == ASSUME Inv, [Next]_vars PROVE Inv'
<1>1. CASE UNCHANGED vars
  <2>1. /\ log' = log /\ routes' = routes
        /\ generator' = generator /\ options' = options
    BY <1>1 DEF vars
  <2>2. \A k : CallsFor(k)' = CallsFor(k)
    BY <2>1 DEF CallsFor
  <2>3. LogIsSequence'
    BY <2>1 DEF Inv, LogIsSequence
  <2>4. DocumentIsServed'
    BY <2>1, <2>2 DEF Inv, DocumentMatchesRoutes, DocumentIsServed, HandlerOf
  <2>5. ServedIsDocumented'
    BY <2>1 DEF Inv, DocumentMatchesRoutes, ServedIsDocumented, HandlerOf
  <2> QED BY <2>3, <2>4, <2>5 DEF Inv, DocumentMatchesRoutes
<1>2. CASE RouterUse \/ \E g \in DOMAIN groups : GroupUse(g)
  BY <1>2, OtherCall DEF RouterUse, GroupUse
<1>3. ASSUME NEW prefix \in GroupPrefixes,
             RouterGroup(prefix) \/ \E g \in DOMAIN groups : GroupGroup(g, prefix)
      PROVE  Inv'
  BY <1>3, OtherCall DEF RouterGroup, GroupGroup
<1>4. ASSUME NEW pattern, NEW handler \in Handlers,
             RouterHandle(pattern, handler)
      PROVE  Inv'
  BY <1>4, RegisteringCall DEF RouterHandle
<1>5. ASSUME NEW g \in DOMAIN groups, NEW pattern, NEW handler \in Handlers,
             GroupHandle(g, pattern, handler)
      PROVE  Inv'
  <2>1. CASE IsValid(pattern)
    BY <1>5, <2>1, RegisteringCall DEF GroupHandle
  <2>2. CASE ~IsValid(pattern)
    <3> DEFINE c == [name |-> "handle", group |-> g, ok |-> FALSE,
                     handler |-> handler.id, pattern |-> pattern]
    <3>1. Called(c) /\ UNCHANGED <<routes, generator, options>>
      BY <1>5, <2>2 DEF GroupHandle, Panics
    <3> HIDE DEF c
    <3> QED BY <3>1, OtherCall
  <2> QED BY <2>1, <2>2
<1>6. ASSUME NEW pattern \in Patterns, NEW handler \in Handlers,
             \/ RouterVerb(pattern.method, pattern.path, handler)
             \/ \E g \in DOMAIN groups :
                   GroupVerb(g, pattern.method, pattern.path, handler)
             \/ RouterHandle(pattern, handler)
             \/ \E g \in DOMAIN groups : GroupHandle(g, pattern, handler)
      PROVE  Inv'
  BY <1>4, <1>5, <1>6 DEF RouterVerb, GroupVerb
<1> QED BY <1>1, <1>2, <1>3, <1>6 DEF Next

\* Whatever a program registers, in whatever order, through whatever groups
\* and whichever calls panic, the document describes what is served, and what
\* is served and can be found is described.
THEOREM DocumentAgrees == Spec => []DocumentMatchesRoutes
<1>1. Init => Inv
  <2>1. Init => log \in Seq({})
    BY DEF Init
  <2>2. Init => routes = {} /\ DOMAIN generator.paths = {}
    BY DEF Init, NewGenerator
  <2> QED BY <2>1, <2>2 DEF Inv, LogIsSequence, DocumentMatchesRoutes,
                            DocumentIsServed, ServedIsDocumented
<1>2. Inv => DocumentMatchesRoutes
  BY DEF Inv
<1> QED BY <1>1, <1>2, StepKeepsInv, PTL DEF Spec
-----------------------------------------------------------------------------
(***************************************************************************)
(* What a route goes through.  The inductive invariant types the log, the  *)
(* groups and the routes, says which call made each group, and keeps the   *)
(* chains in order.                                                        *)
(***************************************************************************)
\* Call i, and no other, made group g.
MadeAt(g, i) ==
    /\ i \in DOMAIN log /\ log[i].name = "group" /\ log[i].made = g
    /\ \A j \in DOMAIN log : log[j].name = "group" /\ log[j].made = g => j = i

CallsTyped ==
    /\ LogIsSequence
    /\ \A i \in DOMAIN log :
          /\ log[i].group \in 0..Len(groups)
          /\ log[i].name = "group" => log[i].made \in 1..Len(groups)

Uses(middlewares, calls) ==
    /\ middlewares \in Seq(Nat)
    /\ \A i \in DOMAIN middlewares :
          /\ middlewares[i] \in DOMAIN calls
          /\ calls[middlewares[i]].name = "use"

GroupsTyped ==
    /\ \E G : groups \in Seq(G)
    /\ \A g \in DOMAIN groups :
          /\ groups[g] \in [prefix : {groups[g].prefix}, middlewares : Seq(Nat)]
          /\ Uses(groups[g].middlewares, log)
          /\ \E i : MadeAt(g, i)

RouterTyped == Uses(globals, log) /\ InOrder(globals, Own(Router))

\* What a route on g made by call t is wrapped in.
Wrapping(g, t) == {i \in {Instrument} : options.instrument} \cup InScope(g, t)

RouteTyped(r) ==
    /\ r.call \in DOMAIN log /\ log[r.call].ok
    /\ r.chain \in Seq(Nat)
    /\ InOrder(r.chain, Wrapping(log[r.call].group, r.call))

RoutesTyped == \A r \in routes : RouteTyped(r)

PathsTyped == \A k \in DOMAIN generator.paths : k[1] \in Slots

ScopeInv ==
    /\ CallsTyped /\ GroupsTyped /\ RouterTyped /\ GroupsInherit
    /\ RoutesTyped /\ PathsTyped

\* A number after all others goes at the end.
LEMMA InOrderAppend ==
    ASSUME NEW s \in Seq(Nat), NEW S, InOrder(s, S), NEW n \in Nat,
           \A i \in S : i < n
    PROVE  Append(s, n) \in Seq(Nat) /\ InOrder(Append(s, n), S \cup {n})
<1>1. /\ Append(s, n) \in Seq(Nat) /\ Len(s) \in Nat
      /\ DOMAIN s = 1..Len(s) /\ DOMAIN Append(s, n) = 1..(Len(s) + 1)
      /\ Append(s, n)[Len(s) + 1] = n
      /\ \A i \in 1..Len(s) : Append(s, n)[i] = s[i] /\ s[i] \in Nat
  OBVIOUS
<1> DEFINE t == Append(s, n)
<1> HIDE DEF t
<1>2. Range(s) = S
  BY DEF InOrder
<1>3. Range(t) = S \cup {n}
  BY <1>1, <1>2 DEF Range, t
<1>4. ASSUME NEW i \in DOMAIN t, NEW j \in DOMAIN t, i < j
      PROVE  t[i] < t[j]
  <2>1. i \in 1..Len(s) /\ t[i] = s[i]
    BY <1>1, <1>4 DEF t
  <2>2. CASE j \in 1..Len(s)
    BY <1>1, <1>4, <2>1, <2>2 DEF t, InOrder
  <2>3. CASE j = Len(s) + 1
    <3>1. s[i] \in S
      BY <1>1, <1>2, <2>1 DEF Range
    <3> QED BY <1>1, <2>1, <2>3, <3>1 DEF t
  <2> QED BY <1>1, <1>4, <2>2, <2>3 DEF t
<1> QED BY <1>1, <1>3, <1>4 DEF t, InOrder

\* A number before all others goes in front.
LEMMA InOrderBehind ==
    ASSUME NEW s \in Seq(Nat), NEW S, InOrder(s, S), NEW n \in Nat,
           \A i \in S : n < i
    PROVE  <<n>> \o s \in Seq(Nat) /\ InOrder(<<n>> \o s, {n} \cup S)
<1> DEFINE t == <<n>> \o s
<1>1. /\ <<n>> \in Seq(Nat) /\ Len(<<n>>) = 1 /\ <<n>>[1] = n
      /\ Len(s) \in Nat /\ DOMAIN s = 1..Len(s)
      /\ \A i \in 1..Len(s) : s[i] \in Nat
  OBVIOUS
<1>2. /\ t \in Seq(Nat) /\ Len(t) = 1 + Len(s)
      /\ \A i \in 1..(1 + Len(s)) :
            t[i] = IF i <= 1 THEN <<n>>[i] ELSE s[i - 1]
  BY <1>1, ConcatProperties
<1> HIDE DEF t
<1>3. DOMAIN t = 1..(1 + Len(s))
  BY <1>2
<1>4. t[1] = n /\ \A i \in 1..Len(s) : t[i + 1] = s[i]
  <2>1. t[1] = n
    BY <1>1, <1>2
  <2>2. ASSUME NEW i \in 1..Len(s) PROVE t[i + 1] = s[i]
    <3>1. i + 1 \in 1..(1 + Len(s)) /\ ~(i + 1 <= 1) /\ (i + 1) - 1 = i
      BY <1>1
    <3> QED BY <1>2, <3>1
  <2> QED BY <2>1, <2>2
<1>5. Range(s) = S
  BY DEF InOrder
<1>6. \A i \in DOMAIN t : i = 1 \/ (i - 1 \in 1..Len(s) /\ t[i] = s[i - 1])
  BY <1>1, <1>2, <1>3
<1>7. Range(t) = {n} \cup S
  <2>1. ASSUME NEW x \in Range(t) PROVE x \in {n} \cup S
    BY <1>1, <1>4, <1>5, <1>6 DEF Range
  <2>2. ASSUME NEW x \in {n} \cup S PROVE x \in Range(t)
    <3>1. CASE x = n
      BY <1>1, <1>3, <1>4, <3>1 DEF Range
    <3>2. CASE x \in S
      <4>1. PICK i \in 1..Len(s) : x = s[i]
        BY <1>1, <1>5, <3>2 DEF Range
      <4>2. i + 1 \in DOMAIN t /\ t[i + 1] = x
        BY <1>1, <1>3, <1>4, <4>1
      <4> QED BY <4>2 DEF Range
    <3> QED BY <3>1, <3>2
  <2> QED BY <2>1, <2>2
<1>8. ASSUME NEW i \in DOMAIN t, NEW j \in DOMAIN t, i < j
      PROVE  t[i] < t[j]
  <2>1. j - 1 \in 1..Len(s) /\ t[j] = s[j - 1]
    BY <1>1, <1>3, <1>6, <1>8
  <2>2. CASE i = 1
    <3>1. s[j - 1] \in S
      BY <1>1, <1>5, <2>1 DEF Range
    <3> QED BY <1>4, <2>1, <2>2, <3>1
  <2>3. CASE i # 1
    <3>1. i - 1 \in 1..Len(s) /\ t[i] = s[i - 1]
      BY <1>6, <2>3
    <3>2. i - 1 < j - 1
      BY <1>1, <1>3, <1>8
    <3> QED BY <1>1, <2>1, <3>1, <3>2 DEF InOrder
  <2> QED BY <2>2, <2>3
<1> QED BY <1>2, <1>7, <1>8 DEF InOrder, t

LEMMA MadeByIsUnique ==
    ASSUME NEW g, NEW i, MadeAt(g, i) PROVE MadeBy(g) = i
  BY DEF MadeAt, MadeBy

\* What a call adds to the log.
LEMMA CallGrows ==
    ASSUME LogIsSequence, NEW c, Called(c)
    PROVE  /\ LogIsSequence' /\ Len(log) \in Nat
           /\ DOMAIN log = 1..Len(log) /\ DOMAIN log' = 1..(Len(log) + 1)
           /\ log'[Len(log) + 1] = c
           /\ \A i \in DOMAIN log : log'[i] = log[i]
<1>1. PICK R : log \in Seq(R)
  BY DEF LogIsSequence
<1>2. log' = Append(log, c)
  BY DEF Called
<1>3. /\ log' \in Seq(R \cup {c})
      /\ DOMAIN log = 1..Len(log) /\ Len(log) \in Nat
      /\ DOMAIN log' = 1..(Len(log) + 1)
      /\ log'[Len(log) + 1] = c
      /\ \A i \in 1..Len(log) : log'[i] = log[i]
  BY <1>1, <1>2, AppendedTo
<1> QED BY <1>3 DEF LogIsSequence

\* A call leaves alone what was in scope before it, if the groups only take
\* the middleware it installs.
LEMMA ScopeKept ==
    ASSUME CallsTyped, GroupsTyped, NEW c, Called(c),
           c.name = "group" => c.made \notin DOMAIN groups,
           \A g \in DOMAIN groups : \A i :
              i # Len(log) + 1 =>
                 (i \in Range(groups'[g].middlewares)
                     <=> i \in Range(groups[g].middlewares))
    PROVE  /\ \A g, i : g \in DOMAIN groups /\ MadeAt(g, i) => MadeAt(g, i)'
           /\ \A g \in DOMAIN groups :
                 /\ MadeBy(g) \in DOMAIN log /\ Parent(g) \in 0..Len(groups)
                 /\ MadeBy(g)' = MadeBy(g) /\ Parent(g)' = Parent(g)
           /\ \A g \in 0..Len(groups), t \in DOMAIN log :
                 InScope(g, t)' = InScope(g, t)
<1>1. /\ Len(log) \in Nat
      /\ DOMAIN log = 1..Len(log) /\ DOMAIN log' = 1..(Len(log) + 1)
      /\ log'[Len(log) + 1] = c
      /\ \A i \in DOMAIN log : log'[i] = log[i]
  BY CallGrows DEF CallsTyped
<1>2. DOMAIN groups = 1..Len(groups) /\ Len(groups) \in Nat
  BY DEF GroupsTyped
<1>3. ASSUME NEW g \in DOMAIN groups, NEW i, MadeAt(g, i)
      PROVE  MadeAt(g, i)'
  <2>1. i \in DOMAIN log' /\ log'[i].name = "group" /\ log'[i].made = g
    BY <1>1, <1>3 DEF MadeAt
  <2>2. ASSUME NEW j \in DOMAIN log', log'[j].name = "group", log'[j].made = g
        PROVE  j = i
    <3>1. j # Len(log) + 1
      BY <1>1, <2>2
    <3>2. j \in DOMAIN log /\ log'[j] = log[j]
      BY <1>1, <3>1
    <3> QED BY <1>3, <2>2, <3>2 DEF MadeAt
  <2> QED BY <2>1, <2>2 DEF MadeAt
<1>4. ASSUME NEW g \in DOMAIN groups
      PROVE  /\ MadeBy(g) \in DOMAIN log /\ Parent(g) \in 0..Len(groups)
             /\ MadeBy(g)' = MadeBy(g) /\ Parent(g)' = Parent(g)
  <2>1. PICK i : MadeAt(g, i)
    BY DEF GroupsTyped
  <2>2. MadeBy(g) = i /\ i \in DOMAIN log
    BY <2>1, MadeByIsUnique DEF MadeAt
  <2>3. MadeAt(g, i)'
    BY <1>3, <2>1
  <2>4. MadeBy(g)' = i
    BY <2>3 DEF MadeAt, MadeBy
  <2> QED BY <1>1, <2>2, <2>4 DEF Parent, CallsTyped
<1>5. ASSUME NEW g \in 0..Len(groups), NEW t \in DOMAIN log
      PROVE  InScope(g, t)' = InScope(g, t)
  <2>1. CASE g = Router
    BY <2>1 DEF InScope
  <2>2. CASE g # Router
    <3>1. g \in DOMAIN groups
      BY <1>2, <2>2 DEF Router
    <3>2. \A i : i < t => i # Len(log) + 1
      BY <1>1
    <3>3. {i \in Range(groups'[g].middlewares) : i < t}
            = {i \in Range(groups[g].middlewares) : i < t}
      BY <3>1, <3>2
    <3> QED BY <2>2, <3>3 DEF InScope
  <2> QED BY <2>1, <2>2
<1> QED BY <1>3, <1>4, <1>5

\* A route made before a call is wrapped as it was.
LEMMA RouteKept ==
    ASSUME CallsTyped, GroupsTyped, NEW c, Called(c),
           c.name = "group" => c.made \notin DOMAIN groups,
           \A g \in DOMAIN groups : \A i :
              i # Len(log) + 1 =>
                 (i \in Range(groups'[g].middlewares)
                     <=> i \in Range(groups[g].middlewares)),
           UNCHANGED options, NEW r, RouteTyped(r)
    PROVE  RouteTyped(r)'
<1>1. /\ DOMAIN log \subseteq DOMAIN log'
      /\ \A i \in DOMAIN log : log'[i] = log[i]
  BY CallGrows DEF CallsTyped
<1>2. r.call \in DOMAIN log /\ log[r.call].group \in 0..Len(groups)
  BY DEF RouteTyped, CallsTyped
<1>3. log'[r.call] = log[r.call]
  BY <1>1, <1>2
<1> DEFINE g == log[r.call].group
           t == r.call
<1>4. InScope(g, t)' = InScope(g, t)
  <2>1. \A h \in 0..Len(groups), u \in DOMAIN log :
           InScope(h, u)' = InScope(h, u)
    BY ScopeKept
  <2> QED BY <1>2, <1>3, <2>1
<1>5. Wrapping(g, t)' = Wrapping(g, t)
  BY <1>4 DEF Wrapping
<1> HIDE DEF g
<1>6. InOrder(r.chain, Wrapping(g, t)')
  BY <1>5 DEF RouteTyped, g
<1> QED BY <1>1, <1>2, <1>3, <1>6 DEF RouteTyped, g

LEMMA OwnGrows ==
    ASSUME LogIsSequence, NEW c, Called(c)
    PROVE  \A g : /\ Own(g)' = Own(g) \cup {i \in {Len(log) + 1} :
                                              c.name = "use" /\ c.group = g}
                  /\ \A i \in Own(g) : i < Len(log) + 1
<1>1. /\ Len(log) \in Nat
      /\ DOMAIN log = 1..Len(log) /\ DOMAIN log' = 1..(Len(log) + 1)
      /\ log'[Len(log) + 1] = c
      /\ \A i \in DOMAIN log : log'[i] = log[i]
  BY CallGrows
<1>2. DOMAIN log' = DOMAIN log \cup {Len(log) + 1}
  BY <1>1
<1>3. ASSUME NEW g
      PROVE  Own(g)' = Own(g) \cup {i \in {Len(log) + 1} :
                                       c.name = "use" /\ c.group = g}
  BY <1>1, <1>2 DEF Own
<1> QED BY <1>1, <1>3 DEF Own

LEMMA UsesKept ==
    ASSUME LogIsSequence, NEW c, Called(c), NEW m, Uses(m, log)
    PROVE  Uses(m, log')
<1>1. /\ DOMAIN log \subseteq DOMAIN log'
      /\ \A i \in DOMAIN log : log'[i] = log[i]
  BY CallGrows
<1> QED BY <1>1 DEF Uses

LEMMA UsesGrow ==
    ASSUME LogIsSequence, NEW c, Called(c), c.name = "use", NEW m, Uses(m, log)
    PROVE  Uses(Append(m, Len(log) + 1), log')
<1>1. /\ Len(log) \in Nat /\ DOMAIN log' = 1..(Len(log) + 1)
      /\ log'[Len(log) + 1] = c
  BY CallGrows
<1>2. Uses(m, log')
  BY UsesKept
<1>3. /\ Append(m, Len(log) + 1) \in Seq(Nat)
      /\ DOMAIN m = 1..Len(m) /\ Len(m) \in Nat
      /\ DOMAIN Append(m, Len(log) + 1) = 1..(Len(m) + 1)
      /\ Append(m, Len(log) + 1)[Len(m) + 1] = Len(log) + 1
      /\ \A i \in 1..Len(m) : Append(m, Len(log) + 1)[i] = m[i]
  BY <1>1, <1>2 DEF Uses
<1>4. ASSUME NEW i \in DOMAIN Append(m, Len(log) + 1)
      PROVE  /\ Append(m, Len(log) + 1)[i] \in DOMAIN log'
             /\ log'[Append(m, Len(log) + 1)[i]].name = "use"
  <2>1. CASE i \in 1..Len(m)
    BY <1>2, <1>3, <2>1 DEF Uses
  <2>2. CASE i = Len(m) + 1
    BY <1>1, <1>3, <2>2
  <2> QED BY <1>3, <2>1, <2>2
<1> QED BY <1>3, <1>4 DEF Uses

\* The calls of a list of middlewares, one more installed.
LEMMA RangeOfAppend ==
    ASSUME NEW s \in Seq(Nat), NEW n \in Nat
    PROVE  Range(Append(s, n)) = Range(s) \cup {n}
<1>1. /\ DOMAIN s = 1..Len(s) /\ DOMAIN Append(s, n) = 1..(Len(s) + 1)
      /\ Len(s) \in Nat /\ Append(s, n)[Len(s) + 1] = n
      /\ \A i \in 1..Len(s) : Append(s, n)[i] = s[i]
  OBVIOUS
<1> DEFINE t == Append(s, n)
<1> HIDE DEF t
<1> QED BY <1>1 DEF Range, t

LEMMA CallsStayTyped ==
    ASSUME CallsTyped, Len(groups) \in Nat, Len(groups') \in Nat,
           Len(groups) <= Len(groups'), NEW c, Called(c),
           c.group \in 0..Len(groups'),
           c.name = "group" => c.made \in 1..Len(groups')
    PROVE  CallsTyped'
<1>1. /\ LogIsSequence' /\ Len(log) \in Nat
      /\ DOMAIN log = 1..Len(log) /\ DOMAIN log' = 1..(Len(log) + 1)
      /\ log'[Len(log) + 1] = c
      /\ \A i \in DOMAIN log : log'[i] = log[i]
  BY CallGrows DEF CallsTyped
<1>2. ASSUME NEW i \in DOMAIN log'
      PROVE  /\ log'[i].group \in 0..Len(groups')
             /\ log'[i].name = "group" => log'[i].made \in 1..Len(groups')
  <2>1. CASE i = Len(log) + 1
    BY <1>1, <2>1
  <2>2. CASE i # Len(log) + 1
    <3>1. i \in DOMAIN log /\ log'[i] = log[i]
      BY <1>1, <2>2
    <3>2. /\ log[i].group \in 0..Len(groups)
          /\ log[i].name = "group" => log[i].made \in 1..Len(groups)
      BY <3>1 DEF CallsTyped
    <3> QED BY <3>1, <3>2
  <2> QED BY <2>1, <2>2
<1> QED BY <1>1, <1>2 DEF CallsTyped

\* What a call that leaves the groups alone keeps.
LEMMA GroupsKept ==
    ASSUME CallsTyped, GroupsTyped, GroupsInherit, RoutesTyped,
           NEW c, Called(c), c.name \in {"use", "handle"},
           c.group \in 0..Len(groups),
           c.name = "use" => c.group = Router,
           UNCHANGED <<groups, options>>
    PROVE  /\ CallsTyped' /\ GroupsTyped' /\ GroupsInherit'
           /\ \A r \in routes : RouteTyped(r)'
<1>1. c.name # "group"
  OBVIOUS
<1>2. DOMAIN groups = 1..Len(groups) /\ Len(groups) \in Nat
  BY DEF GroupsTyped
<1>3. CallsTyped'
  BY <1>1, <1>2, CallsStayTyped
<1>4. /\ \A g, i : g \in DOMAIN groups /\ MadeAt(g, i) => MadeAt(g, i)'
      /\ \A g \in DOMAIN groups :
            /\ MadeBy(g) \in DOMAIN log /\ Parent(g) \in 0..Len(groups)
            /\ MadeBy(g)' = MadeBy(g) /\ Parent(g)' = Parent(g)
      /\ \A g \in 0..Len(groups), t \in DOMAIN log :
            InScope(g, t)' = InScope(g, t)
  BY <1>1, ScopeKept
<1>5. GroupsTyped'
  <2>1. LogIsSequence
    BY DEF CallsTyped
  <2>2. ASSUME NEW g \in DOMAIN groups
        PROVE  Uses(groups[g].middlewares, log')
    <3>1. Uses(groups[g].middlewares, log)
      BY DEF GroupsTyped
    <3> QED BY <2>1, <3>1, UsesKept
  <2>3. ASSUME NEW g \in DOMAIN groups PROVE \E i : MadeAt(g, i)'
    BY <1>4 DEF GroupsTyped
  <2> QED BY <2>2, <2>3 DEF GroupsTyped
<1>6. GroupsInherit'
  <2>1. ASSUME NEW g \in DOMAIN groups PROVE Own(g)' = Own(g)
    <3>1. ~(c.name = "use" /\ c.group = g)
      BY <1>2 DEF Router
    <3>2. Own(g)' = Own(g) \cup {i \in {Len(log) + 1} :
                                     c.name = "use" /\ c.group = g}
      <4>1. LogIsSequence
        BY DEF CallsTyped
      <4> QED BY <4>1, OwnGrows
    <3> QED BY <3>1, <3>2
  <2>2. ASSUME NEW g \in DOMAIN groups
        PROVE  InScope(Parent(g), MadeBy(g))' = InScope(Parent(g), MadeBy(g))
    <3> DEFINE p == Parent(g)
               t == MadeBy(g)
    <3>1. p \in 0..Len(groups) /\ t \in DOMAIN log
      BY <1>4
    <3>2. InScope(Parent(g), MadeBy(g))'
            = IF p = Router THEN {}
              ELSE {i \in Range(groups'[p].middlewares) : i < t}
      BY <1>4 DEF InScope
    <3>3. InScope(p, t) = IF p = Router THEN {}
                          ELSE {i \in Range(groups[p].middlewares) : i < t}
      BY DEF InScope
    <3> QED BY <3>2, <3>3
  <2> QED BY <2>1, <2>2 DEF GroupsInherit
<1>7. ASSUME NEW r \in routes PROVE RouteTyped(r)'
  <2>1. RouteTyped(r)
    BY DEF RoutesTyped
  <2> QED BY <1>1, <2>1, RouteKept
<1> QED BY <1>3, <1>5, <1>6, <1>7

\* Router.Use.
LEMMA RouterUseKeeps ==
    ASSUME ScopeInv, RouterUse PROVE ScopeInv'
<1> DEFINE c == [name |-> "use", group |-> Router]
<1>1. /\ globals' = Append(globals, Len(log) + 1) /\ Called(c)
      /\ UNCHANGED <<groups, routes, generator, options>>
  BY DEF RouterUse, NextMiddleware
<1>2. c.name = "use" /\ c.group = Router /\ LogIsSequence
      /\ Len(groups) \in Nat
  BY DEF ScopeInv, CallsTyped, GroupsTyped
<1> HIDE DEF c
<1>3. /\ CallsTyped' /\ GroupsTyped' /\ GroupsInherit'
      /\ \A r \in routes : RouteTyped(r)'
  BY <1>1, <1>2, GroupsKept DEF ScopeInv, Router
<1>4. RouterTyped'
  <2>1. Uses(globals, log) /\ globals \in Seq(Nat) /\ Len(log) \in Nat
    BY <1>1, <1>2, CallGrows DEF ScopeInv, RouterTyped, Uses
  <2>2. Uses(globals', log')
    BY <1>1, <1>2, <2>1, UsesGrow
  <2>3. /\ \A i \in Own(Router) : i < Len(log) + 1
        /\ Own(Router)' = Own(Router) \cup {i \in {Len(log) + 1} :
                                     c.name = "use" /\ c.group = Router}
    BY <1>1, <1>2, OwnGrows
  <2>4. Own(Router)' = Own(Router) \cup {Len(log) + 1}
    BY <1>2, <2>3
  <2>5. InOrder(Append(globals, Len(log) + 1), Own(Router) \cup {Len(log) + 1})
    BY <2>1, <2>3, InOrderAppend DEF ScopeInv, RouterTyped
  <2> QED BY <1>1, <2>2, <2>4, <2>5 DEF RouterTyped
<1>5. RoutesTyped' /\ PathsTyped'
  BY <1>1, <1>3 DEF ScopeInv, RoutesTyped, PathsTyped
<1> QED BY <1>3, <1>4, <1>5 DEF ScopeInv

\* The router's own middlewares, under a call that is not Router.Use.
LEMMA RouterKept ==
    ASSUME RouterTyped, LogIsSequence, NEW c, Called(c),
           ~(c.name = "use" /\ c.group = Router), UNCHANGED globals
    PROVE  RouterTyped'
<1>1. Uses(globals, log')
  BY UsesKept DEF RouterTyped
<1>2. Own(Router)' = Own(Router) \cup {i \in {Len(log) + 1} :
                                     c.name = "use" /\ c.group = Router}
  BY OwnGrows
<1>3. Own(Router)' = Own(Router)
  BY <1>2
<1> QED BY <1>1, <1>3 DEF RouterTyped

\* Group.Use.
LEMMA GroupUseKeeps ==
    ASSUME ScopeInv, NEW g \in DOMAIN groups, GroupUse(g) PROVE ScopeInv'
<1> DEFINE c == [name |-> "use", group |-> g]
           n == Len(log) + 1
<1>1. /\ groups' = [groups EXCEPT ![g].middlewares = Append(@, n)]
      /\ Called(c) /\ UNCHANGED <<globals, routes, generator, options>>
  BY DEF GroupUse, NextMiddleware
<1>2. c.name = "use" /\ c.group = g /\ LogIsSequence
  BY DEF ScopeInv, CallsTyped
<1> HIDE DEF c
<1>3. /\ DOMAIN groups = 1..Len(groups) /\ Len(groups) \in Nat
      /\ \E G : groups \in Seq(G)
  BY DEF ScopeInv, GroupsTyped
<1>4. \A h \in DOMAIN groups :
         /\ groups[h] \in [prefix : {groups[h].prefix}, middlewares : Seq(Nat)]
         /\ Uses(groups[h].middlewares, log) /\ \E i : MadeAt(h, i)
  BY DEF ScopeInv, GroupsTyped
<1>5. n \in Nat /\ Len(log) \in Nat /\ DOMAIN log = 1..Len(log)
  BY <1>1, <1>2, CallGrows
<1> DEFINE m(h) == IF h = g THEN Append(groups[h].middlewares, n)
                   ELSE groups[h].middlewares
<1> HIDE DEF n
<1>6. /\ DOMAIN groups' = DOMAIN groups /\ Len(groups') = Len(groups)
      /\ \E G : groups' \in Seq(G)
      /\ \A h \in DOMAIN groups :
            /\ groups'[h].middlewares = m(h)
            /\ groups'[h].prefix = groups[h].prefix
            /\ m(h) \in Seq(Nat)
            /\ groups'[h] \in [prefix : {groups[h].prefix},
                               middlewares : Seq(Nat)]
  <2>1. \A h \in DOMAIN groups : m(h) \in Seq(Nat)
    BY <1>4, <1>5
  <2>2. PICK G : groups \in Seq(G)
    BY <1>3
  <2> DEFINE new == [groups[g] EXCEPT !.middlewares = m(g)]
  <2>3. groups' = [groups EXCEPT ![g] = new]
    BY <1>1
  <2>4. /\ new.middlewares = m(g) /\ new.prefix = groups[g].prefix
        /\ new \in [prefix : {groups[g].prefix}, middlewares : Seq(Nat)]
    BY <1>4, <2>1
  <2> HIDE DEF new
  <2>5. groups' \in Seq(G \cup {new}) /\ Len(groups') = Len(groups)
    BY <1>3, <2>2, <2>3
  <2> QED BY <1>3, <1>4, <2>1, <2>3, <2>4, <2>5
<1>7. \A h \in DOMAIN groups : \A i :
         i # Len(log) + 1 =>
            (i \in Range(groups'[h].middlewares)
                <=> i \in Range(groups[h].middlewares))
  <2>1. ASSUME NEW h \in DOMAIN groups
        PROVE  Range(m(h)) \subseteq Range(groups[h].middlewares) \cup {n}
               /\ Range(groups[h].middlewares) \subseteq Range(m(h))
    <3>1. groups[h].middlewares \in Seq(Nat)
      BY <1>4
    <3> QED BY <1>5, <3>1, RangeOfAppend
  <2> HIDE DEF m
  <2> QED BY <1>6, <2>1 DEF n
<1>8. c.name # "group" /\ CallsTyped /\ GroupsTyped
  BY <1>2 DEF ScopeInv
<1>9. /\ \A h, i : h \in DOMAIN groups /\ MadeAt(h, i) => MadeAt(h, i)'
      /\ \A h \in DOMAIN groups :
            /\ MadeBy(h) \in DOMAIN log /\ Parent(h) \in 0..Len(groups)
            /\ MadeBy(h)' = MadeBy(h) /\ Parent(h)' = Parent(h)
      /\ \A h \in 0..Len(groups), t \in DOMAIN log :
            InScope(h, t)' = InScope(h, t)
  BY <1>1, <1>7, <1>8, ScopeKept
<1>10. CallsTyped'
  BY <1>1, <1>2, <1>3, <1>6, <1>8, CallsStayTyped
<1>11. GroupsTyped'
  <2>1. ASSUME NEW h \in DOMAIN groups PROVE Uses(m(h), log')
    <3>1. CASE h = g
      BY <1>1, <1>2, <1>4, <3>1, UsesGrow DEF n
    <3>2. CASE h # g
      BY <1>1, <1>2, <1>4, <3>2, UsesKept
    <3> QED BY <3>1, <3>2
  <2>2. ASSUME NEW h \in DOMAIN groups PROVE \E i : MadeAt(h, i)'
    BY <1>4, <1>9
  <2> HIDE DEF m
  <2> QED BY <1>6, <2>1, <2>2 DEF GroupsTyped
<1>12. GroupsInherit'
  <2>1. ASSUME NEW h \in DOMAIN groups
        PROVE  InOrder(m(h), Own(h)' \cup InScope(Parent(h), MadeBy(h))')
    <3> DEFINE up == InScope(Parent(h), MadeBy(h))
    <3>1. InScope(Parent(h), MadeBy(h))' = up
      <4> DEFINE p == Parent(h)
                 t == MadeBy(h)
      <4>1. p \in 0..Len(groups) /\ t \in DOMAIN log
        BY <1>9
      <4>2. InScope(p, t) = IF p = Router THEN {}
                            ELSE {i \in Range(groups[p].middlewares) : i < t}
        BY DEF InScope
      <4>3. InScope(Parent(h), MadeBy(h))'
              = IF p = Router THEN {}
                ELSE {i \in Range(groups'[p].middlewares) : i < t}
        BY <1>9 DEF InScope
      <4>4. p # Router =>
              {i \in Range(groups'[p].middlewares) : i < t}
                = {i \in Range(groups[p].middlewares) : i < t}
        <5>1. \A i : i < t => i # Len(log) + 1
          BY <1>5, <4>1
        <5>2. p # Router => p \in DOMAIN groups
          BY <1>3, <4>1 DEF Router
        <5> QED BY <1>7, <5>1, <5>2
      <4> QED BY <4>2, <4>3, <4>4
    <3>2. Own(h)' = Own(h) \cup {i \in {n} : c.name = "use" /\ c.group = h}
          /\ \A i \in Own(h) : i < n
      BY <1>1, <1>2, OwnGrows DEF n
    <3>3. InOrder(groups[h].middlewares, Own(h) \cup up)
      BY DEF ScopeInv, GroupsInherit
    <3>4. \A i \in up : i < n
      <4>1. MadeBy(h) \in 1..Len(log)
        BY <1>5, <1>9
      <4>2. \A i \in up : i \in Nat /\ i < MadeBy(h)
        <5>1. Parent(h) = Router \/ Parent(h) \in DOMAIN groups
          BY <1>3, <1>9 DEF Router
        <5>2. \A k \in DOMAIN groups :
                 \A i \in Range(groups[k].middlewares) : i \in Nat
          BY <1>4 DEF Range
        <5> QED BY <5>1, <5>2 DEF InScope
      <4> HIDE DEF up
      <4> QED BY <1>5, <4>1, <4>2 DEF n
    <3> HIDE DEF up
    <3>5. CASE h = g
      <4>1. Own(h)' = Own(h) \cup {n}
        BY <1>2, <3>2, <3>5
      <4>2. InOrder(Append(groups[h].middlewares, n), (Own(h) \cup up) \cup {n})
        <5>1. groups[h].middlewares \in Seq(Nat)
          BY <1>4
        <5>2. \A i \in Own(h) \cup up : i < n
          BY <3>2, <3>4
        <5> QED BY <1>5, <3>3, <5>1, <5>2, InOrderAppend
      <4>3. (Own(h) \cup up) \cup {n} = Own(h)' \cup up
        BY <4>1
      <4> QED BY <3>1, <3>5, <4>2, <4>3
    <3>6. CASE h # g
      <4>1. Own(h)' = Own(h)
        BY <1>2, <3>2, <3>6
      <4> QED BY <3>1, <3>3, <3>6, <4>1
    <3> QED BY <3>5, <3>6
  <2> HIDE DEF m
  <2> QED BY <1>6, <2>1 DEF GroupsInherit
<1>13. RouterTyped'
  <2>1. g # Router
    BY <1>3 DEF Router
  <2> QED BY <1>1, <1>2, <2>1, RouterKept DEF ScopeInv
<1>14. RoutesTyped'
  <2>1. ASSUME NEW r \in routes PROVE RouteTyped(r)'
    BY <1>1, <1>7, <1>8, RouteKept DEF ScopeInv, RoutesTyped
  <2> QED BY <1>1, <2>1 DEF RoutesTyped
<1>15. PathsTyped'
  BY <1>1 DEF ScopeInv, PathsTyped
<1> QED BY <1>10, <1>11, <1>12, <1>13, <1>14, <1>15 DEF ScopeInv

\* Router.Group and Group.Group: the new group starts with what its parent
\* has.
LEMMA MakingKeeps ==
    ASSUME ScopeInv, NEW p \in 0..Len(groups), NEW new,
           new \in [prefix : {new.prefix}, middlewares : Seq(Nat)],
           new.middlewares = IF p = Router THEN <<>> ELSE groups[p].middlewares,
           groups' = Append(groups, new),
           Called([name |-> "group", group |-> p, made |-> Len(groups) + 1]),
           UNCHANGED <<globals, routes, generator, options>>
    PROVE  ScopeInv'
<1> DEFINE c == [name |-> "group", group |-> p, made |-> Len(groups) + 1]
<1>20. PICK n : n = Len(log) + 1
  OBVIOUS
<1>21. PICK g : g = Len(groups) + 1
  OBVIOUS
<1>1. Called(c) /\ c.name = "group" /\ c.group = p /\ c.made = g
  BY <1>21
<1> HIDE DEF c
<1>2. CallsTyped /\ GroupsTyped /\ LogIsSequence
  BY DEF ScopeInv, CallsTyped
<1>3. /\ DOMAIN groups = 1..Len(groups) /\ Len(groups) \in Nat
      /\ \E G : groups \in Seq(G)
  BY <1>2 DEF GroupsTyped
<1>4. \A h \in DOMAIN groups :
         /\ groups[h] \in [prefix : {groups[h].prefix}, middlewares : Seq(Nat)]
         /\ Uses(groups[h].middlewares, log) /\ \E i : MadeAt(h, i)
  BY <1>2 DEF GroupsTyped
<1>5. /\ n \in Nat /\ Len(log) \in Nat /\ DOMAIN log = 1..Len(log)
      /\ DOMAIN log' = 1..n /\ log'[n] = c
      /\ \A i \in DOMAIN log : log'[i] = log[i]
  BY <1>1, <1>2, <1>20, CallGrows
<1>6. /\ DOMAIN groups' = 1..g /\ Len(groups') = g
      /\ \E G : groups' \in Seq(G)
      /\ groups'[g] = new
      /\ \A h \in DOMAIN groups : groups'[h] = groups[h]
  <2>1. PICK G : groups \in Seq(G)
    BY <1>3
  <2>2. groups' \in Seq(G \cup {new})
    BY <2>1, AppendedTo
  <2> QED BY <1>3, <1>21, <2>1, <2>2, AppendedTo
<1>7. c.name = "group" => c.made \notin DOMAIN groups
  BY <1>1, <1>3, <1>21
<1>8. \A h \in DOMAIN groups : \A i :
         i # Len(log) + 1 =>
            (i \in Range(groups'[h].middlewares)
                <=> i \in Range(groups[h].middlewares))
  BY <1>6
<1>9. /\ \A h, i : h \in DOMAIN groups /\ MadeAt(h, i) => MadeAt(h, i)'
      /\ \A h \in DOMAIN groups :
            /\ MadeBy(h) \in DOMAIN log /\ Parent(h) \in 0..Len(groups)
            /\ MadeBy(h)' = MadeBy(h) /\ Parent(h)' = Parent(h)
      /\ \A h \in 0..Len(groups), t \in DOMAIN log :
            InScope(h, t)' = InScope(h, t)
  BY <1>1, <1>2, <1>7, <1>8, ScopeKept
<1>10. CallsTyped'
  <2>1. /\ Len(groups') \in Nat /\ Len(groups) <= Len(groups')
        /\ c.group \in 0..Len(groups') /\ c.made \in 1..Len(groups')
    BY <1>1, <1>3, <1>6, <1>21
  <2> QED BY <1>1, <1>2, <1>3, <2>1, CallsStayTyped
<1>11. MadeAt(g, n)'
  <2>1. ASSUME NEW j \in DOMAIN log', log'[j].name = "group", log'[j].made = g
        PROVE  j = n
    <3>1. SUFFICES ASSUME j # n PROVE FALSE
      OBVIOUS
    <3>2. j \in DOMAIN log /\ log'[j] = log[j]
      BY <1>5, <1>20, <3>1
    <3>3. log[j].made \in 1..Len(groups)
      BY <1>2, <2>1, <3>2 DEF CallsTyped
    <3> QED BY <1>3, <1>21, <2>1, <3>2, <3>3
  <2>2. n \in DOMAIN log' /\ log'[n].name = "group" /\ log'[n].made = g
    BY <1>1, <1>5, <1>20
  <2> QED BY <2>1, <2>2 DEF MadeAt
<1>12. MadeBy(g)' = n /\ Parent(g)' = p
  <2>1. MadeBy(g)' = n
    BY <1>11 DEF MadeAt, MadeBy
  <2> QED BY <1>1, <1>5, <2>1 DEF Parent
<1>13. Uses(new.middlewares, log')
  <2>1. CASE p = Router
    <3>1. new.middlewares = <<>> /\ <<>> \in Seq(Nat)
      BY <2>1
    <3> QED BY <3>1 DEF Uses
  <2>2. CASE p # Router
    <3>1. p \in DOMAIN groups
      BY <1>3, <2>2 DEF Router
    <3>2. Uses(new.middlewares, log)
      BY <1>4, <2>2, <3>1
    <3> QED BY <1>1, <1>2, <3>2, UsesKept
  <2> QED BY <2>1, <2>2
<1>14. GroupsTyped'
  <2>1. ASSUME NEW h \in DOMAIN groups'
        PROVE  /\ groups'[h] \in [prefix : {groups'[h].prefix},
                                  middlewares : Seq(Nat)]
               /\ Uses(groups'[h].middlewares, log')
               /\ \E i : MadeAt(h, i)'
    <3>1. CASE h = g
      BY <1>6, <1>11, <1>13, <3>1
    <3>2. CASE h # g
      <4>1. h \in DOMAIN groups /\ groups'[h] = groups[h]
        BY <1>3, <1>6, <1>21, <3>2
      <4>2. Uses(groups[h].middlewares, log')
        <5>1. Uses(groups[h].middlewares, log)
          BY <1>4, <4>1
        <5> QED BY <1>1, <1>2, <5>1, UsesKept
      <4> QED BY <1>4, <1>9, <4>1, <4>2
    <3> QED BY <3>1, <3>2
  <2> QED BY <1>6, <2>1 DEF GroupsTyped
<1>15. \A h : Own(h)' = Own(h)
  <2>1. \A h : Own(h)' = Own(h) \cup {i \in {Len(log) + 1} :
                                        c.name = "use" /\ c.group = h}
    BY <1>1, <1>2, OwnGrows
  <2> QED BY <1>1, <2>1
<1>16. GroupsInherit'
  <2>1. ASSUME NEW h \in DOMAIN groups
        PROVE  InOrder(groups'[h].middlewares,
                       Own(h)' \cup InScope(Parent(h), MadeBy(h))')
    <3> DEFINE q == Parent(h)
               t == MadeBy(h)
    <3>1. q \in 0..Len(groups) /\ t \in DOMAIN log
      BY <1>9
    <3>2. q = Router \/ q \in DOMAIN groups
      BY <1>3, <3>1 DEF Router
    <3>3. InScope(q, t) = IF q = Router THEN {}
                          ELSE {i \in Range(groups[q].middlewares) : i < t}
      BY DEF InScope
    <3>4. InScope(Parent(h), MadeBy(h))'
            = IF q = Router THEN {}
              ELSE {i \in Range(groups'[q].middlewares) : i < t}
      BY <1>9 DEF InScope
    <3>5. InScope(Parent(h), MadeBy(h))' = InScope(q, t)
      BY <1>6, <3>2, <3>3, <3>4
    <3>6. InOrder(groups[h].middlewares, Own(h) \cup InScope(q, t))
      BY DEF ScopeInv, GroupsInherit
    <3> QED BY <1>6, <1>15, <3>5, <3>6
  <2>2. InOrder(new.middlewares, Own(g)' \cup InScope(Parent(g), MadeBy(g))')
    <3>1. Own(g)' = {}
      <4>1. \A i \in DOMAIN log : log[i].group # g
        BY <1>2, <1>3, <1>21 DEF CallsTyped
      <4>2. Own(g) = {}
        BY <4>1 DEF Own
      <4> QED BY <1>15, <4>2
    <3>2. InScope(Parent(g), MadeBy(g))'
            = IF p = Router THEN {}
              ELSE {i \in Range(groups'[p].middlewares) : i < n}
      BY <1>12 DEF InScope
    <3>3. CASE p = Router
      <4>1. new.middlewares = <<>> /\ InOrder(<<>>, {})
        BY <3>3 DEF InOrder, Range
      <4> QED BY <3>1, <3>2, <3>3, <4>1
    <3>4. CASE p # Router
      <4>1. p \in DOMAIN groups
        BY <1>3, <3>4 DEF Router
      <4> DEFINE m == groups[p].middlewares
      <4>2. new.middlewares = m /\ groups'[p].middlewares = m
        BY <1>6, <3>4, <4>1
      <4>3. \A i \in Range(m) : i < n
        BY <1>4, <1>5, <1>20, <4>1 DEF Uses, Range
      <4>4. InOrder(m, Range(m))
        BY <4>1 DEF ScopeInv, GroupsInherit, InOrder
      <4>5. {i \in Range(m) : i < n} = Range(m)
        BY <4>3
      <4> HIDE DEF m
      <4> QED BY <3>1, <3>2, <3>4, <4>2, <4>4, <4>5
    <3> QED BY <3>3, <3>4
  <2>3. \A h \in DOMAIN groups' : h \in DOMAIN groups \/ h = g
    BY <1>3, <1>6, <1>21
  <2> QED BY <1>6, <2>1, <2>2, <2>3 DEF GroupsInherit
<1>17. RouterTyped'
  BY <1>1, <1>2, RouterKept DEF ScopeInv
<1>18. RoutesTyped'
  <2>1. ASSUME NEW r \in routes PROVE RouteTyped(r)'
    BY <1>1, <1>2, <1>7, <1>8, RouteKept DEF ScopeInv, RoutesTyped
  <2> QED BY <2>1 DEF RoutesTyped
<1>19. PathsTyped'
  BY DEF ScopeInv, PathsTyped
<1> QED BY <1>10, <1>14, <1>16, <1>17, <1>18, <1>19 DEF ScopeInv

\* A call that registers nothing, or fails to.
LEMMA NoRouteKeeps ==
    ASSUME ScopeInv, NEW g \in 0..Len(groups), NEW c, Called(c),
           c.name = "handle", c.group = g,
           UNCHANGED <<globals, groups, routes, options>>, PathsTyped'
    PROVE  ScopeInv'
<1>1. /\ CallsTyped' /\ GroupsTyped' /\ GroupsInherit'
      /\ \A r \in routes : RouteTyped(r)'
  <2>1. /\ c.name \in {"use", "handle"} /\ c.group \in 0..Len(groups)
        /\ c.name = "use" => c.group = Router
    OBVIOUS
  <2> QED BY <2>1, GroupsKept DEF ScopeInv
<1>2. RouterTyped'
  BY RouterKept DEF ScopeInv, CallsTyped
<1> QED BY <1>1, <1>2 DEF ScopeInv, RoutesTyped

\* What the mux keeps for a route on g.
LEMMA ChainIsInOrder ==
    ASSUME ScopeInv, NEW g \in 0..Len(groups),
           NEW m, m = IF g = Router THEN <<>> ELSE groups[g].middlewares
    PROVE  /\ Chain(m) \in Seq(Nat)
           /\ InOrder(Chain(m), Wrapping(g, Len(log) + 1))
<1>1. /\ Len(log) \in Nat /\ DOMAIN log = 1..Len(log)
      /\ DOMAIN groups = 1..Len(groups) /\ Len(groups) \in Nat
  BY DEF ScopeInv, CallsTyped, LogIsSequence, GroupsTyped
<1>2. /\ m \in Seq(Nat) /\ InOrder(m, Range(m))
      /\ \A i \in Range(m) : i \in 1..Len(log)
      /\ InScope(g, Len(log) + 1) = Range(m)
  <2>1. CASE g = Router
    <3>1. m = <<>> /\ DOMAIN m = {} /\ InScope(g, Len(log) + 1) = {}
      BY <2>1 DEF InScope
    <3>2. m \in Seq(Nat)
      <4>1. <<>> \in Seq(Nat)
        OBVIOUS
      <4>2. m = <<>>
        BY <3>1
      <4> QED BY <4>1, <4>2, Zenon
    <3>3. Range(m) = {}
      BY <3>1 DEF Range
    <3>4. InOrder(m, Range(m))
      BY <3>1 DEF InOrder
    <3> QED BY <3>1, <3>2, <3>3, <3>4
  <2>2. CASE g # Router
    <3>1. g \in DOMAIN groups /\ m = groups[g].middlewares
      BY <1>1, <2>2 DEF Router
    <3>2. Uses(m, log)
      BY <3>1 DEF ScopeInv, GroupsTyped
    <3>3. m \in Seq(Nat) /\ \A i \in Range(m) : i \in 1..Len(log)
      BY <1>1, <3>2 DEF Uses, Range
    <3>4. InOrder(m, Range(m))
      BY <3>1 DEF ScopeInv, GroupsInherit, InOrder
    <3>5. {i \in Range(m) : i < Len(log) + 1} = Range(m)
      BY <1>1, <3>3
    <3>6. InScope(g, Len(log) + 1) = {i \in Range(m) : i < Len(log) + 1}
      BY <2>2, <3>1 DEF InScope
    <3> QED BY <3>3, <3>4, <3>5, <3>6
  <2> QED BY <2>1, <2>2
<1>3. CASE options.instrument
  <2>1. Chain(m) = <<0>> \o m
    BY <1>3 DEF Chain, Instrument
  <2>2. Wrapping(g, Len(log) + 1) = {0} \cup Range(m)
    BY <1>2, <1>3 DEF Wrapping, Instrument
  <2>3. \A i \in Range(m) : 0 < i
    BY <1>1, <1>2
  <2>4. /\ <<0>> \o m \in Seq(Nat)
        /\ InOrder(<<0>> \o m, {0} \cup Range(m))
    <3> DEFINE first == 0
    <3>1. first \in Nat /\ \A i \in Range(m) : first < i
      BY <2>3
    <3> HIDE DEF first
    <3>2. /\ <<first>> \o m \in Seq(Nat)
          /\ InOrder(<<first>> \o m, {first} \cup Range(m))
      BY <1>2, <3>1, InOrderBehind
    <3> QED BY <3>2 DEF first
  <2> QED BY <2>1, <2>2, <2>4
<1>4. CASE ~options.instrument
  <2>1. Chain(m) = m
    BY <1>2, <1>4, ConcatEmptySeq DEF Chain
  <2>2. Wrapping(g, Len(log) + 1) = Range(m)
    BY <1>2, <1>4 DEF Wrapping
  <2> QED BY <1>2, <2>1, <2>2
<1> QED BY <1>3, <1>4

\* Router.Handle and Group.Handle, from where they agree.
LEMMA RegisterKeeps ==
    ASSUME ScopeInv, NEW g \in 0..Len(groups), NEW pattern, NEW handler,
           NEW m, m = IF g = Router THEN <<>> ELSE groups[g].middlewares,
           RegisterRoute(g, pattern, handler, m),
           UNCHANGED <<globals, groups, options>>
    PROVE  ScopeInv'
<1> DEFINE call(ok) == [name |-> "handle", group |-> g, ok |-> ok,
                        handler |-> handler.id, pattern |-> pattern]
           route == [method |-> pattern.method, path |-> pattern.path,
                     handler |-> handler.id, call |-> Len(log) + 1,
                     chain |-> Chain(m)]
<1>1. PathsTyped'
  <2>1. CASE generator' = generator
    BY <2>1 DEF ScopeInv, PathsTyped
  <2>2. CASE generator' = Register(generator, pattern.method, pattern.path,
                                   handler.operation, handler.request,
                                   handler.response)
    <3> DEFINE key == <<pattern.method, pattern.path>>
               new == Register(generator, pattern.method, pattern.path,
                               handler.operation, handler.request,
                               handler.response).paths
    <3>1. /\ pattern.method \notin Slots => new = generator.paths
          /\ pattern.method \in Slots =>
               /\ DOMAIN new = DOMAIN generator.paths \cup {key}
               /\ new[key].request = handler.request.id
               /\ new[key].response = handler.response.id
               /\ \A k \in DOMAIN generator.paths :
                     k # key => new[k] = generator.paths[k]
      BY RegisterPaths
    <3>2. generator'.paths = new /\ key[1] = pattern.method
      BY <2>2
    <3> HIDE DEF new, key
    <3> QED BY <3>1, <3>2 DEF ScopeInv, PathsTyped
  <2> QED BY <2>1, <2>2 DEF RegisterRoute
<1>2. \/ Called(call(TRUE)) /\ routes' = routes \cup {route}
      \/ Called(call(FALSE)) /\ routes' = routes
  BY DEF RegisterRoute, Panics
<1>3. \A ok \in BOOLEAN : /\ call(ok).name = "handle" /\ call(ok).group = g
                          /\ call(ok).ok = ok
  OBVIOUS
<1>4. /\ route.call = Len(log) + 1 /\ route.chain = Chain(m)
  OBVIOUS
<1> HIDE DEF call, route
<1>5. CASE Called(call(FALSE)) /\ routes' = routes
  BY <1>1, <1>3, <1>5, NoRouteKeeps
<1>6. CASE Called(call(TRUE)) /\ routes' = routes \cup {route}
  <2>0. PICK c : c = call(TRUE)
    OBVIOUS
  <2>1. Called(c) /\ c.name = "handle" /\ c.group = g /\ c.ok
    BY <1>3, <1>6, <2>0
  <2>2. /\ c.name \in {"use", "handle"} /\ c.group \in 0..Len(groups)
        /\ c.name = "use" => c.group = Router
    BY <2>1
  <2>3. /\ CallsTyped' /\ GroupsTyped' /\ GroupsInherit'
        /\ \A r \in routes : RouteTyped(r)'
    BY <2>1, <2>2, GroupsKept DEF ScopeInv
  <2>4. RouterTyped'
    BY <2>1, RouterKept DEF ScopeInv, CallsTyped
  <2>5. /\ Len(log) \in Nat /\ DOMAIN log' = 1..(Len(log) + 1)
        /\ log'[Len(log) + 1] = c
    BY <2>1, CallGrows DEF ScopeInv, CallsTyped
  <2>6. PICK n : n = Len(log) + 1
    OBVIOUS
  <2>7. Chain(m) \in Seq(Nat) /\ InOrder(Chain(m), Wrapping(g, n))
    BY <2>6, ChainIsInOrder
  <2>8. PICK r : r = route
    OBVIOUS
  <2>9. RouteTyped(r)'
    <3>1. /\ r.call = n /\ r.chain = Chain(m) /\ n \in DOMAIN log'
          /\ log'[n].group = g /\ log'[n].ok
      BY <1>4, <2>1, <2>5, <2>6, <2>8
    <3>2. Wrapping(g, n)' = Wrapping(g, n)
      BY DEF Wrapping, InScope
    <3>3. InOrder(r.chain, Wrapping(g, n)')
      BY <2>7, <3>1, <3>2
    <3> QED BY <2>7, <3>1, <3>3 DEF RouteTyped
  <2>10. RoutesTyped'
    BY <1>6, <2>3, <2>8, <2>9 DEF RoutesTyped
  <2> QED BY <1>1, <2>3, <2>4, <2>10 DEF ScopeInv
<1> QED BY <1>2, <1>5, <1>6

LEMMA StepKeepsScopes == ASSUME ScopeInv, [Next]_vars PROVE ScopeInv'
<1>0. DOMAIN groups = 1..Len(groups) /\ Len(groups) \in Nat
  BY DEF ScopeInv, GroupsTyped
<1>1. CASE UNCHANGED vars
  <2>1. UNCHANGED <<globals, groups, routes, generator, options, log>>
    BY <1>1 DEF vars
  <2>2. \A g, i : MadeAt(g, i)' = MadeAt(g, i)
    BY <2>1 DEF MadeAt
  <2>3. \A g : Own(g)' = Own(g)
    BY <2>1 DEF Own
  <2>4. \A g : MadeBy(g)' = MadeBy(g)
    BY <2>1 DEF MadeBy
  <2>5. \A g : InScope(Parent(g), MadeBy(g))' = InScope(Parent(g), MadeBy(g))
    BY <2>1, <2>4 DEF InScope, Parent
  <2>6. \A r : RouteTyped(r)' = RouteTyped(r)
    BY <2>1 DEF RouteTyped, Wrapping, InScope
  <2>7. CallsTyped' /\ PathsTyped'
    BY <2>1 DEF ScopeInv, CallsTyped, LogIsSequence, PathsTyped
  <2>8. GroupsTyped'
    BY <2>1, <2>2 DEF ScopeInv, GroupsTyped, Uses
  <2>9. RouterTyped'
    BY <2>1, <2>3 DEF ScopeInv, RouterTyped, Uses
  <2>10. GroupsInherit' /\ RoutesTyped'
    BY <2>1, <2>3, <2>5, <2>6 DEF ScopeInv, GroupsInherit, RoutesTyped
  <2> QED BY <2>7, <2>8, <2>9, <2>10 DEF ScopeInv
<1>2. CASE RouterUse
  BY <1>2, RouterUseKeeps
<1>3. ASSUME NEW g \in DOMAIN groups, GroupUse(g) PROVE ScopeInv'
  BY <1>3, GroupUseKeeps
<1>4. ASSUME NEW prefix \in GroupPrefixes, RouterGroup(prefix)
      PROVE  ScopeInv'
  <2> DEFINE new == [prefix |-> prefix, middlewares |-> <<>>]
  <2>1. /\ new \in [prefix : {new.prefix}, middlewares : Seq(Nat)]
        /\ new.middlewares = <<>>
    OBVIOUS
  <2>2. /\ groups' = Append(groups, new)
        /\ Called([name |-> "group", group |-> Router, made |-> Len(groups) + 1])
        /\ UNCHANGED <<globals, routes, generator, options>>
    BY <1>4 DEF RouterGroup
  <2> HIDE DEF new
  <2>3. Router \in 0..Len(groups)
    BY <1>0 DEF Router
  <2> QED BY <2>1, <2>2, <2>3, MakingKeeps
<1>5. ASSUME NEW prefix \in GroupPrefixes, NEW g \in DOMAIN groups,
             GroupGroup(g, prefix)
      PROVE  ScopeInv'
  <2> DEFINE new == [groups[g] EXCEPT !.prefix = JoinPath(@, prefix)]
  <2>1. groups[g] \in [prefix : {groups[g].prefix}, middlewares : Seq(Nat)]
    BY DEF ScopeInv, GroupsTyped
  <2>2. /\ new \in [prefix : {new.prefix}, middlewares : Seq(Nat)]
        /\ new.middlewares = groups[g].middlewares
    BY <2>1
  <2>3. /\ groups' = Append(groups, new)
        /\ Called([name |-> "group", group |-> g, made |-> Len(groups) + 1])
        /\ UNCHANGED <<globals, routes, generator, options>>
    BY <1>5 DEF GroupGroup
  <2> HIDE DEF new
  <2>4. g \in 0..Len(groups) /\ g # Router
    BY <1>0 DEF Router
  <2> QED BY <2>2, <2>3, <2>4, MakingKeeps
<1>6. ASSUME NEW pattern, NEW handler \in Handlers,
             RouterHandle(pattern, handler)
      PROVE  ScopeInv'
  <2>1. Router \in 0..Len(groups)
    BY <1>0 DEF Router
  <2> QED BY <1>6, <2>1, RegisterKeeps DEF RouterHandle
<1>7. ASSUME NEW g \in DOMAIN groups, NEW pattern, NEW handler \in Handlers,
             GroupHandle(g, pattern, handler)
      PROVE  ScopeInv'
  <2>1. g \in 0..Len(groups) /\ g # Router
    BY <1>0 DEF Router
  <2>2. CASE IsValid(pattern)
    BY <1>7, <2>1, <2>2, RegisterKeeps DEF GroupHandle
  <2>3. CASE ~IsValid(pattern)
    <3> DEFINE c == [name |-> "handle", group |-> g, ok |-> FALSE,
                     handler |-> handler.id, pattern |-> pattern]
    <3>1. /\ Called(c) /\ c.name = "handle" /\ c.group = g
          /\ UNCHANGED <<globals, groups, routes, generator, options>>
      BY <1>7, <2>3 DEF GroupHandle, Panics
    <3>2. PathsTyped'
      BY <3>1 DEF ScopeInv, PathsTyped
    <3> HIDE DEF c
    <3> QED BY <2>1, <3>1, <3>2, NoRouteKeeps
  <2> QED BY <2>2, <2>3
<1>8. ASSUME NEW pattern \in Patterns, NEW handler \in Handlers,
             \/ RouterVerb(pattern.method, pattern.path, handler)
             \/ \E g \in DOMAIN groups :
                   GroupVerb(g, pattern.method, pattern.path, handler)
             \/ RouterHandle(pattern, handler)
             \/ \E g \in DOMAIN groups : GroupHandle(g, pattern, handler)
      PROVE  ScopeInv'
  BY <1>6, <1>7, <1>8 DEF RouterVerb, GroupVerb
<1> QED BY <1>1, <1>2, <1>3, <1>4, <1>5, <1>8 DEF Next

LEMMA InitScopes == ASSUME Init PROVE ScopeInv
<1>1. /\ log = <<>> /\ groups = <<>> /\ globals = <<>> /\ routes = {}
      /\ DOMAIN generator.paths = {}
  BY DEF Init, NewGenerator
<1>2. log \in Seq({}) /\ groups \in Seq({}) /\ globals \in Seq(Nat)
  BY <1>1
<1>3. InOrder(globals, Own(Router))
  BY <1>1 DEF InOrder, Own, Range
<1> QED BY <1>1, <1>2, <1>3 DEF ScopeInv, CallsTyped, LogIsSequence,
            GroupsTyped, RouterTyped, Uses, GroupsInherit, RoutesTyped,
            PathsTyped

LEMMA ScopesHold == Spec => []ScopeInv
  BY InitScopes, StepKeepsScopes, PTL DEF Spec

\* The two parts of a concatenation.
LEMMA SplitConcat ==
    ASSUME NEW s \in Seq(Nat), NEW t \in Seq(Nat)
    PROVE  /\ SubSeq(s \o t, 1, Len(s)) = s
           /\ SubSeq(s \o t, Len(s) + 1, Len(s \o t)) = t
           /\ Len(s) \in 0..Len(s \o t)
<1> DEFINE u == s \o t
<1>1. /\ u \in Seq(Nat) /\ Len(u) = Len(s) + Len(t)
      /\ Len(s) \in Nat /\ Len(t) \in Nat
      /\ \A i \in 1..(Len(s) + Len(t)) :
            u[i] = IF i <= Len(s) THEN s[i] ELSE t[i - Len(s)]
  BY ConcatProperties
<1> HIDE DEF u
<1>2. \A i \in 1..Len(s) : u[i] = s[i] /\ u[i] \in Nat
  BY <1>1
<1>3. ASSUME NEW i \in 1..Len(t) PROVE u[Len(s) + i] = t[i]
  <2>1. /\ Len(s) + i \in 1..(Len(s) + Len(t)) /\ ~(Len(s) + i <= Len(s))
        /\ (Len(s) + i) - Len(s) = i
    BY <1>1
  <2> QED BY <1>1, <2>1
<1>4. SubSeq(u, 1, Len(s)) = s
  <2>1. SubSeq(u, 1, Len(s)) \in Seq(Nat)
          /\ Len(SubSeq(u, 1, Len(s))) = Len(s)
          /\ \A i \in 1..Len(s) : SubSeq(u, 1, Len(s))[i] = u[i]
    BY <1>1, <1>2
  <2> QED BY <1>2, <2>1, SeqEqual
<1>5. SubSeq(u, Len(s) + 1, Len(u)) = t
  <2> DEFINE v == SubSeq(u, Len(s) + 1, Len(s) + Len(t))
  <2>0. \A i \in (Len(s) + 1)..(Len(s) + Len(t)) : u[i] \in Nat
    BY <1>1
  <2>1. /\ v \in Seq(Nat) /\ Len(v) = Len(t)
        /\ \A i \in 1..Len(t) : v[i] = u[Len(s) + i]
    BY <1>1, <2>0
  <2> HIDE DEF v
  <2>2. v = t
    BY <1>3, <2>1, SeqEqual
  <2> QED BY <1>1, <2>2 DEF v
<1> QED BY <1>1, <1>4, <1>5 DEF u

\* A middleware's number is that of the call that installed it, a route's of
\* the call that registered it, and the document has only the methods OpenAPI
\* knows.
THEOREM RoutingTyped == Spec => []TypeOK
<1>1. ASSUME ScopeInv PROVE TypeOK
  BY <1>1 DEF ScopeInv, GroupsTyped, RouterTyped, RoutesTyped, RouteTyped,
              PathsTyped, Uses, TypeOK
<1> QED BY <1>1, ScopesHold, PTL

\* A request goes through the router's middlewares of the moment and those
\* its group had when the route was registered, each once and in the order
\* they were installed, whatever is called on which group in whatever order.
THEOREM ScopesNest == Spec => []RoutesGoThrough
<1>1. ASSUME ScopeInv, NEW r \in routes
      PROVE  \E n \in 0..Len(Served(r)) :
                /\ InOrder(SubSeq(Served(r), 1, n), Own(Router))
                /\ InOrder(SubSeq(Served(r), n + 1, Len(Served(r))),
                           Wrapping(log[r.call].group, r.call))
  <2> DEFINE s == globals \o r.chain
             n == Len(globals)
  <2>1. globals \in Seq(Nat) /\ InOrder(globals, Own(Router))
    BY <1>1 DEF ScopeInv, RouterTyped, Uses
  <2>2. /\ r.chain \in Seq(Nat)
        /\ InOrder(r.chain, Wrapping(log[r.call].group, r.call))
    BY <1>1 DEF ScopeInv, RoutesTyped, RouteTyped
  <2>3. SubSeq(s, 1, n) = globals /\ SubSeq(s, n + 1, Len(s)) = r.chain
           /\ n \in 0..Len(s)
    BY <2>1, <2>2, SplitConcat
  <2> QED BY <2>1, <2>2, <2>3 DEF Served
<1>2. ASSUME ScopeInv PROVE RoutesGoThrough
  BY <1>1, <1>2 DEF ScopeInv, RoutesGoThrough, RoutesHaveScope, Wrapping
<1> QED BY <1>2, ScopesHold, PTL

-----------------------------------------------------------------------------
(***************************************************************************)
(* What the references of the document lead to.  The inductive invariant   *)
(* says where every schema came from, that every response of every map     *)
(* refers to a schema, and that the maps the generator made are no one     *)
(* else's.                                                                 *)
(***************************************************************************)
MapsTyped ==
    /\ \E M : generator.maps \in Seq(M)
    /\ Len(CallerMaps) <= Len(generator.maps)

MapsRefer ==
    \A i \in DOMAIN generator.maps : \A s \in DOMAIN generator.maps[i] :
        generator.maps[i][s] \in DOMAIN generator.schemas \cup {NoRef}

SchemasHaveOrigin ==
    \A n \in DOMAIN generator.schemas :
        \/ generator.schemas[n] \in BuiltIn
        \/ \E i \in DOMAIN log : Brought(i, generator.schemas[n])

EntryTyped(k) ==
    /\ generator.paths[k].op.responses \in DOMAIN generator.maps
    /\ generator.paths[k].op.body \subseteq DOMAIN generator.schemas

EntryLeads(k) ==
    /\ \A n \in generator.paths[k].op.body :
          LeadsTo(n, generator.paths[k].request, k)
    /\ \/ generator.paths[k].op.responses <= Len(CallerMaps)
       \/ \A s \in DOMAIN generator.maps[generator.paths[k].op.responses] :
             /\ generator.maps[generator.paths[k].op.responses][s]
                   \in DOMAIN generator.schemas
             /\ LeadsTo(generator.maps[generator.paths[k].op.responses][s],
                        generator.paths[k].response, k)

RefsInv ==
    /\ LogIsSequence /\ MapsTyped /\ MapsRefer /\ SchemasHaveOrigin
    /\ \A k \in DOMAIN generator.paths : EntryTyped(k) /\ EntryLeads(k)

\* The name decides: the first type of a name has it.
LEMMA RegisterSchemaResult ==
    ASSUME NEW schemas, NEW type
    PROVE  /\ DOMAIN RegisterSchema(schemas, type)
                 = DOMAIN schemas \cup {type.name}
           /\ \A n \in DOMAIN RegisterSchema(schemas, type) :
                 RegisterSchema(schemas, type)[n]
                    = IF n \in DOMAIN schemas THEN schemas[n] ELSE type.id
<1>1. CASE type.name \in DOMAIN schemas
  BY <1>1 DEF RegisterSchema
<1>2. CASE type.name \notin DOMAIN schemas
  BY <1>2 DEF RegisterSchema, Put
<1> QED BY <1>1, <1>2

LEMMA RegisterProblemResult ==
    ASSUME NEW schemas
    PROVE  /\ DOMAIN schemas \subseteq DOMAIN RegisterProblemSchema(schemas)
           /\ "Problem" \in DOMAIN RegisterProblemSchema(schemas)
           /\ \A n \in DOMAIN RegisterProblemSchema(schemas) :
                 \/ n \in DOMAIN schemas
                       /\ RegisterProblemSchema(schemas)[n] = schemas[n]
                 \/ RegisterProblemSchema(schemas)[n] \in BuiltIn
           /\ \A n \in DOMAIN schemas :
                 \/ RegisterProblemSchema(schemas)[n] = schemas[n]
                 \/ /\ n \in ProblemParts /\ "Problem" \notin DOMAIN schemas
                    /\ RegisterProblemSchema(schemas)[n] \in BuiltIn
<1>1. CASE "Problem" \in DOMAIN schemas
  BY <1>1 DEF RegisterProblemSchema
<1>2. CASE "Problem" \notin DOMAIN schemas
  BY <1>2 DEF RegisterProblemSchema, BuiltIn
<1> QED BY <1>1, <1>2

\* The schemas of one more operation.
LEMMA BringSchemasResult ==
    ASSUME NEW gen, NEW method, NEW operation, NEW request, NEW response
    PROVE  LET old == gen.schemas
               new == BringSchemas(gen, method, operation, request, response)
           IN  /\ DOMAIN old \cup {response.name} \subseteq DOMAIN new
               /\ HasBody(method, request) => request.name \in DOMAIN new
               /\ ~Listed(gen, operation) => "Problem" \in DOMAIN new
               /\ \A n \in DOMAIN new :
                     \/ n \in DOMAIN old /\ new[n] = old[n]
                     \/ new[n] \in BuiltIn \cup {request.id, response.id}
               /\ \A n \in DOMAIN old :
                     \/ new[n] = old[n]
                     \/ /\ n \in ProblemParts /\ "Problem" \notin DOMAIN old
                        /\ new[n] \in BuiltIn
<1> DEFINE old == gen.schemas
           bound == IF HasBody(method, request)
                    THEN RegisterSchema(old, request) ELSE old
           named == RegisterSchema(bound, response)
           new == BringSchemas(gen, method, operation, request, response)
<1>1. new = IF Listed(gen, operation) THEN named
            ELSE RegisterProblemSchema(named)
  BY DEF BringSchemas
<1>2. /\ DOMAIN old \subseteq DOMAIN bound
      /\ HasBody(method, request) => request.name \in DOMAIN bound
      /\ \A n \in DOMAIN bound :
            bound[n] = IF n \in DOMAIN old THEN old[n] ELSE request.id
  <2>1. CASE HasBody(method, request)
    <3>1. bound = RegisterSchema(old, request)
      BY <2>1
    <3>2. /\ DOMAIN RegisterSchema(old, request)
                = DOMAIN old \cup {request.name}
          /\ \A n \in DOMAIN RegisterSchema(old, request) :
                RegisterSchema(old, request)[n]
                   = IF n \in DOMAIN old THEN old[n] ELSE request.id
      BY RegisterSchemaResult
    <3> HIDE DEF bound, old
    <3> QED BY <3>1, <3>2
  <2>2. CASE ~HasBody(method, request)
    BY <2>2
  <2> QED BY <2>1, <2>2
<1> HIDE DEF bound
<1>3. /\ DOMAIN named = DOMAIN bound \cup {response.name}
      /\ \A n \in DOMAIN named :
            named[n] = IF n \in DOMAIN bound THEN bound[n] ELSE response.id
  BY RegisterSchemaResult
<1> HIDE DEF named, new, old
<1>4. /\ DOMAIN named \subseteq DOMAIN new
      /\ ~Listed(gen, operation) => "Problem" \in DOMAIN new
      /\ \A n \in DOMAIN new :
            \/ n \in DOMAIN named /\ new[n] = named[n]
            \/ new[n] \in BuiltIn
      /\ \A n \in DOMAIN named :
            \/ new[n] = named[n]
            \/ /\ n \in ProblemParts /\ "Problem" \notin DOMAIN named
               /\ new[n] \in BuiltIn
  BY <1>1, RegisterProblemResult
<1>5. \A n \in DOMAIN new :
         \/ n \in DOMAIN old /\ new[n] = old[n]
         \/ new[n] \in BuiltIn \cup {request.id, response.id}
  BY <1>2, <1>3, <1>4
<1>6. \A n \in DOMAIN old :
         \/ new[n] = old[n]
         \/ /\ n \in ProblemParts /\ "Problem" \notin DOMAIN old
            /\ new[n] \in BuiltIn
  BY <1>2, <1>3, <1>4
<1>7. /\ DOMAIN old \cup {response.name} \subseteq DOMAIN new
      /\ HasBody(method, request) => request.name \in DOMAIN new
      /\ ~Listed(gen, operation) => "Problem" \in DOMAIN new
  BY <1>2, <1>3, <1>4
<1> QED BY <1>5, <1>6, <1>7 DEF new, old

LEMMA DefaultsRefer ==
    ASSUME NEW operation, NEW response
    PROVE  \A s \in DOMAIN Defaults(operation, response) :
              Defaults(operation, response)[s] \in {response.name, "Problem"}
  BY DEF Defaults

\* The maps after one more operation: its own has its defaults if it had
\* nothing listed, the others are as they were.
LEMMA FillMapResult ==
    ASSUME NEW gen, NEW M, gen.maps \in Seq(M), NEW operation, NEW response,
           operation.responses \in 0..Len(gen.maps)
    PROVE  LET old == gen.maps
               new == FillMap(gen, operation, response)
               own == OwnMap(gen, operation)
           IN  /\ \E N : new \in Seq(N)
               /\ Len(old) \in Nat /\ Len(new) \in Nat /\ Len(old) <= Len(new)
               /\ DOMAIN old = 1..Len(old) /\ DOMAIN new = 1..Len(new)
               /\ own \in DOMAIN new
               /\ own \in DOMAIN old => own = operation.responses
               /\ \A i \in DOMAIN new : i = own \/ i \in DOMAIN old
               /\ \A i \in DOMAIN old : i # own => new[i] = old[i]
               /\ \/ own \in DOMAIN old /\ Listed(gen, operation)
                        /\ new[own] = old[own]
                  \/ ~Listed(gen, operation)
                        /\ new[own] = Defaults(operation, response)
<1> DEFINE old == gen.maps
           filled == Defaults(operation, response)
           r == operation.responses
<1>1. Len(old) \in Nat /\ DOMAIN old = 1..Len(old) /\ old \in Seq(M \cup {filled})
  OBVIOUS
<1>2. CASE r = 0
  <2>1. /\ FillMap(gen, operation, response) = Append(old, filled)
        /\ OwnMap(gen, operation) = Len(old) + 1
        /\ ~Listed(gen, operation)
    BY <1>2 DEF FillMap, OwnMap, NilMap, Listed
  <2> DEFINE new == Append(old, filled)
  <2> HIDE DEF filled, old
  <2>2. /\ new \in Seq(M \cup {filled}) /\ Len(new) = Len(old) + 1
        /\ DOMAIN new = 1..(Len(old) + 1) /\ new[Len(old) + 1] = filled
        /\ \A i \in 1..Len(old) : new[i] = old[i]
    BY <1>1
  <2> HIDE DEF new
  <2> QED BY <1>1, <2>1, <2>2 DEF new, filled, old
<1>3. CASE r # 0 /\ Listed(gen, operation)
  <2>1. FillMap(gen, operation, response) = old /\ OwnMap(gen, operation) = r
    BY <1>3 DEF FillMap, OwnMap, NilMap
  <2> QED BY <1>1, <1>3, <2>1
<1>4. CASE r # 0 /\ ~Listed(gen, operation)
  <2>1. /\ FillMap(gen, operation, response) = [old EXCEPT ![r] = filled]
        /\ OwnMap(gen, operation) = r
    BY <1>4 DEF FillMap, OwnMap, NilMap
  <2> DEFINE new == [old EXCEPT ![r] = filled]
  <2> HIDE DEF filled, old
  <2>2. r \in 1..Len(old)
    BY <1>1, <1>4 DEF old
  <2>3. /\ new \in Seq(M \cup {filled}) /\ Len(new) = Len(old)
        /\ DOMAIN new = DOMAIN old /\ new[r] = filled
        /\ \A i \in DOMAIN old : i # r => new[i] = old[i]
    BY <1>1, <2>2
  <2> HIDE DEF new
  <2> QED BY <1>1, <1>4, <2>1, <2>2, <2>3 DEF new, filled, old
<1> QED BY <1>2, <1>3, <1>4

\* The parts of what Register returns.
LEMMA RegisterResult ==
    ASSUME NEW gen, NEW method, NEW path, NEW operation, NEW request,
           NEW response, NEW new,
           new = Register(gen, method, path, operation, request, response)
    PROVE  /\ new.schemas = BringSchemas(gen, method, operation, request,
                                         response)
           /\ new.maps = FillMap(gen, operation, response)
           /\ method \notin Slots => new.paths = gen.paths
           /\ method \in Slots =>
                new.paths =
                  Put(gen.paths, <<method, path>>,
                      [op |-> [parameters |-> Parameters(request),
                               body |-> IF HasBody(method, request)
                                        THEN {request.name} ELSE {},
                               responses |-> OwnMap(gen, operation)],
                       request |-> request.id, response |-> response.id])
<1> DEFINE schemas == BringSchemas(gen, method, operation, request, response)
           tags == RegisterTags(gen.tags, operation.tags)
           maps == FillMap(gen, operation, response)
           op == [parameters |-> Parameters(request),
                  body |-> IF HasBody(method, request) THEN {request.name}
                           ELSE {},
                  responses |-> OwnMap(gen, operation)]
           base == [paths |-> gen.paths, schemas |-> schemas, tags |-> tags,
                    maps |-> maps]
           entry == [op |-> op, request |-> request.id,
                     response |-> response.id]
           paths == IF method \in Slots
                    THEN Put(gen.paths, <<method, path>>, entry)
                    ELSE gen.paths
<1>1. BuildOperation(gen, method, operation, request, response)
        = [generator |-> base, operation |-> op]
  BY DEF BuildOperation
<1> HIDE DEF schemas, tags, maps, op
<1>2. Register(gen, method, path, operation, request, response)
        = [base EXCEPT !.paths = IF method \in Slots
                                 THEN Put(@, <<method, path>>, entry) ELSE @]
  BY <1>1 DEF Register
<1> HIDE DEF entry
<1>3. new.schemas = schemas /\ new.maps = maps /\ new.paths = paths
  BY <1>2
<1>4. /\ new.schemas = schemas /\ new.maps = maps
      /\ method \notin Slots => new.paths = gen.paths
      /\ method \in Slots => new.paths = Put(gen.paths, <<method, path>>, entry)
  BY <1>3
<1> QED BY <1>4 DEF schemas, maps, entry, op

\* What led to a schema still does after another call.
LEMMA LeadsStill ==
    ASSUME LogIsSequence, NEW c, Called(c),
           \A n \in DOMAIN generator.schemas :
              /\ n \in DOMAIN generator'.schemas
              /\ \/ generator'.schemas[n] = generator.schemas[n]
                 \/ generator'.schemas[n] \in BuiltIn
    PROVE  /\ \A i \in DOMAIN log : i \in DOMAIN log'
           /\ \A i \in DOMAIN log : \A id : Brought(i, id) => Brought(i, id)'
           /\ \A n \in DOMAIN generator.schemas : \A id, k :
                 LeadsTo(n, id, k) => LeadsTo(n, id, k)'
<1>1. /\ Len(log) \in Nat
      /\ DOMAIN log = 1..Len(log) /\ DOMAIN log' = 1..(Len(log) + 1)
      /\ \A i \in DOMAIN log : log'[i] = log[i]
  BY CallGrows
<1>2. \A i \in DOMAIN log : i \in DOMAIN log'
  BY <1>1
<1>3. \A i \in DOMAIN log : \A id : Brought(i, id) => Brought(i, id)'
  BY <1>1 DEF Brought, HandlerOf
<1>4. \A k, i : i \in CallsFor(k) => i \in CallsFor(k)' /\ i \in DOMAIN log
  BY <1>1, <1>2 DEF CallsFor
<1>5. ASSUME NEW n \in DOMAIN generator.schemas, NEW id, NEW k,
             LeadsTo(n, id, k)
      PROVE  LeadsTo(n, id, k)'
  <2>1. CASE generator'.schemas[n] \in BuiltIn
    BY <2>1 DEF LeadsTo
  <2>2. CASE generator'.schemas[n] = generator.schemas[n]
    <3>1. CASE generator.schemas[n] = id \/ generator.schemas[n] \in BuiltIn
      BY <2>2, <3>1 DEF LeadsTo
    <3>2. CASE \E j \in CallsFor(k) : \E i \in 1..j :
                  Brought(i, generator.schemas[n])
      <4>1. PICK found : found = generator.schemas[n]
        OBVIOUS
      <4>2. PICK j \in CallsFor(k) : \E i \in 1..j : Brought(i, found)
        BY <3>2, <4>1
      <4>3. PICK i \in 1..j : Brought(i, found)
        BY <4>2
      <4>4. j \in CallsFor(k)' /\ i \in DOMAIN log
        BY <1>1, <1>4
      <4>5. Brought(i, found)'
        BY <1>3, <4>3, <4>4
      <4>6. generator'.schemas[n] = found
        BY <2>2, <4>1
      <4> QED BY <4>4, <4>5, <4>6 DEF LeadsTo
    <3> QED BY <1>5, <3>1, <3>2 DEF LeadsTo
  <2> QED BY <2>1, <2>2
<1> QED BY <1>2, <1>3, <1>5

\* Entry k leads where entry says when that is what the next step stores.
LEMMA LeadsThen ==
    ASSUME NEW k, NEW entry, NEW map, generator'.paths[k] = entry,
           \A n \in entry.op.body : LeadsTo(n, entry.request, k)',
           \/ entry.op.responses <= Len(CallerMaps)
           \/ /\ generator'.maps[entry.op.responses] = map
              /\ \A s \in DOMAIN map : /\ map[s] \in DOMAIN generator'.schemas
                                       /\ LeadsTo(map[s], entry.response, k)'
    PROVE  EntryLeads(k)'
<1>1. (\A n \in generator.paths[k].op.body :
         LeadsTo(n, generator.paths[k].request, k))'
  BY DEF LeadsTo, CallsFor, Brought
<1>2. CASE entry.op.responses <= Len(CallerMaps)
  BY <1>1, <1>2 DEF EntryLeads
<1>3. CASE /\ generator'.maps[entry.op.responses] = map
           /\ \A s \in DOMAIN map : /\ map[s] \in DOMAIN generator'.schemas
                                    /\ LeadsTo(map[s], entry.response, k)'
  <2>1. (\A s \in DOMAIN generator.maps[generator.paths[k].op.responses] :
           /\ generator.maps[generator.paths[k].op.responses][s]
                 \in DOMAIN generator.schemas
           /\ LeadsTo(generator.maps[generator.paths[k].op.responses][s],
                      generator.paths[k].response, k))'
    BY <1>3 DEF LeadsTo, CallsFor, Brought
  <2> QED BY <1>1, <2>1 DEF EntryLeads
<1> QED BY <1>2, <1>3

\* A call that documents nothing.
LEMMA UndocumentedKeeps ==
    ASSUME RefsInv, NEW c, Called(c), generator' = generator
    PROVE  RefsInv'
<1>1. /\ \A i \in DOMAIN log : i \in DOMAIN log'
      /\ \A i \in DOMAIN log : \A id : Brought(i, id) => Brought(i, id)'
      /\ \A n \in DOMAIN generator.schemas : \A id, k :
            LeadsTo(n, id, k) => LeadsTo(n, id, k)'
  BY LeadsStill DEF RefsInv
<1>2. LogIsSequence'
  BY CallGrows DEF RefsInv
<1>3. MapsTyped' /\ MapsRefer'
  BY DEF RefsInv, MapsTyped, MapsRefer
<1>4. SchemasHaveOrigin'
  <2>1. ASSUME NEW n \in DOMAIN generator.schemas
        PROVE  \/ generator.schemas[n] \in BuiltIn
               \/ \E i \in DOMAIN log' : Brought(i, generator.schemas[n])'
    <3>1. PICK found : found = generator.schemas[n]
      OBVIOUS
    <3>2. found \in BuiltIn \/ \E i \in DOMAIN log : Brought(i, found)
      BY <3>1 DEF RefsInv, SchemasHaveOrigin
    <3>3. found \in BuiltIn \/ \E i \in DOMAIN log' : Brought(i, found)'
      BY <1>1, <3>2
    <3> QED BY <3>1, <3>3 DEF Brought
  <2> QED BY <2>1 DEF SchemasHaveOrigin, Brought
<1>5. ASSUME NEW k \in DOMAIN generator.paths
      PROVE  EntryTyped(k)' /\ EntryLeads(k)'
  <2>1. EntryTyped(k) /\ EntryLeads(k)
    BY DEF RefsInv
  <2>2. EntryTyped(k)'
    BY <2>1 DEF EntryTyped
  <2>3. PICK entry : entry = generator.paths[k]
    OBVIOUS
  <2>4. PICK map : map = generator.maps[entry.op.responses]
    OBVIOUS
  <2>5. \A n \in entry.op.body : LeadsTo(n, entry.request, k)'
    BY <1>1, <2>1, <2>3 DEF EntryTyped, EntryLeads
  <2>6. \/ entry.op.responses <= Len(CallerMaps)
        \/ \A s \in DOMAIN map : /\ map[s] \in DOMAIN generator.schemas
                                 /\ LeadsTo(map[s], entry.response, k)'
    BY <1>1, <2>1, <2>3, <2>4 DEF EntryLeads
  <2>7. generator'.paths[k] = entry /\ generator'.maps[entry.op.responses] = map
    BY <2>3, <2>4
  <2>8. \/ entry.op.responses <= Len(CallerMaps)
        \/ /\ generator'.maps[entry.op.responses] = map
           /\ \A s \in DOMAIN map : /\ map[s] \in DOMAIN generator'.schemas
                                    /\ LeadsTo(map[s], entry.response, k)'
    BY <2>6, <2>7
  <2>9. EntryLeads(k)'
    BY <2>5, <2>7, <2>8, LeadsThen
  <2> QED BY <2>2, <2>9
<1> QED BY <1>2, <1>3, <1>4, <1>5 DEF RefsInv

\* What one more operation does to schemas and maps.
LEMMA DocumentingEffect ==
    ASSUME RefsInv, NEW handler \in Handlers, NEW method, NEW path,
           generator' = Register(generator, method, path, handler.operation,
                                 handler.request, handler.response)
    PROVE  LET own == OwnMap(generator, handler.operation)
           IN  /\ \A n \in DOMAIN generator.schemas :
                     /\ n \in DOMAIN generator'.schemas
                     /\ \/ generator'.schemas[n] = generator.schemas[n]
                        \/ generator'.schemas[n] \in BuiltIn
               /\ \A n \in DOMAIN generator'.schemas :
                     \/ n \in DOMAIN generator.schemas
                           /\ generator'.schemas[n] = generator.schemas[n]
                     \/ generator'.schemas[n]
                           \in BuiltIn \cup {handler.request.id,
                                             handler.response.id}
               /\ HasBody(method, handler.request) =>
                     handler.request.name \in DOMAIN generator'.schemas
               /\ MapsTyped' /\ MapsRefer'
               /\ own \in DOMAIN generator'.maps
               /\ \A i \in DOMAIN generator.maps :
                     /\ i \in DOMAIN generator'.maps
                     /\ i > Len(CallerMaps) =>
                           generator'.maps[i] = generator.maps[i]
               /\ own > Len(CallerMaps) =>
                     \A s \in DOMAIN generator'.maps[own] :
                        generator'.maps[own][s] \in DOMAIN generator'.schemas
<1> DEFINE operation == handler.operation
           old == generator.schemas
           new == BringSchemas(generator, method, operation, handler.request,
                               handler.response)
           maps == FillMap(generator, operation, handler.response)
           own == OwnMap(generator, operation)
<1>1. generator'.schemas = new /\ generator'.maps = maps
  <2>1. /\ generator'.schemas
              = BringSchemas(generator, method, handler.operation,
                             handler.request, handler.response)
        /\ generator'.maps
              = FillMap(generator, handler.operation, handler.response)
        /\ method \notin Slots => generator'.paths = generator.paths
        /\ method \in Slots =>
             generator'.paths =
               Put(generator.paths, <<method, path>>,
                   [op |-> [parameters |-> Parameters(handler.request),
                            body |-> IF HasBody(method, handler.request)
                                     THEN {handler.request.name} ELSE {},
                            responses |-> OwnMap(generator, handler.operation)],
                    request |-> handler.request.id,
                    response |-> handler.response.id])
    BY RegisterResult
  <2> QED BY <2>1
<1>2. /\ DOMAIN old \cup {handler.response.name} \subseteq DOMAIN new
      /\ HasBody(method, handler.request) =>
            handler.request.name \in DOMAIN new
      /\ ~Listed(generator, operation) => "Problem" \in DOMAIN new
      /\ \A n \in DOMAIN new :
            \/ n \in DOMAIN old /\ new[n] = old[n]
            \/ new[n] \in BuiltIn \cup {handler.request.id, handler.response.id}
      /\ \A n \in DOMAIN old :
            \/ new[n] = old[n]
            \/ /\ n \in ProblemParts /\ "Problem" \notin DOMAIN old
               /\ new[n] \in BuiltIn
  BY BringSchemasResult
<1>3. PICK M : generator.maps \in Seq(M)
  BY DEF RefsInv, MapsTyped
<1>4. /\ Len(CallerMaps) \in Nat /\ Len(generator.maps) \in Nat
      /\ Len(CallerMaps) <= Len(generator.maps)
      /\ operation.responses \in 0..Len(CallerMaps)
  BY <1>3, HandlersAssumption, CallerMapsAssumption DEF RefsInv, MapsTyped
<1>5. operation.responses \in 0..Len(generator.maps)
  BY <1>4
<1>6. /\ \E N : maps \in Seq(N)
      /\ Len(generator.maps) \in Nat /\ Len(maps) \in Nat
      /\ Len(generator.maps) <= Len(maps)
      /\ DOMAIN generator.maps = 1..Len(generator.maps)
      /\ DOMAIN maps = 1..Len(maps)
      /\ own \in DOMAIN maps
      /\ own \in DOMAIN generator.maps => own = operation.responses
      /\ \A i \in DOMAIN maps : i = own \/ i \in DOMAIN generator.maps
      /\ \A i \in DOMAIN generator.maps :
            i # own => maps[i] = generator.maps[i]
      /\ \/ own \in DOMAIN generator.maps /\ Listed(generator, operation)
               /\ maps[own] = generator.maps[own]
         \/ ~Listed(generator, operation)
               /\ maps[own] = Defaults(operation, handler.response)
  BY <1>3, <1>5, FillMapResult
<1>7. \A s \in DOMAIN Defaults(operation, handler.response) :
         Defaults(operation, handler.response)[s]
            \in {handler.response.name, "Problem"}
  BY DefaultsRefer
<1> HIDE DEF operation, old, new, maps, own
<1>8. ~Listed(generator, operation) =>
         \A s \in DOMAIN maps[own] : maps[own][s] \in DOMAIN new
  BY <1>2, <1>6, <1>7
<1>9. MapsRefer'
  <2>1. ASSUME NEW i \in DOMAIN maps, NEW s \in DOMAIN maps[i]
        PROVE  maps[i][s] \in DOMAIN new \cup {NoRef}
    <3>1. CASE i = own /\ ~Listed(generator, operation)
      BY <1>8, <3>1
    <3>2. CASE i # own \/ Listed(generator, operation)
      <4>1. i \in DOMAIN generator.maps /\ maps[i] = generator.maps[i]
        BY <1>6, <3>2
      <4>2. maps[i][s] \in DOMAIN old \cup {NoRef}
        BY <4>1 DEF RefsInv, MapsRefer, old
      <4> QED BY <1>2, <4>2
    <3> QED BY <3>1, <3>2
  <2> QED BY <1>1, <2>1 DEF MapsRefer
<1>10. MapsTyped'
  BY <1>1, <1>4, <1>6 DEF MapsTyped
<1>11. \A i \in DOMAIN generator.maps :
          /\ i \in DOMAIN maps
          /\ i > Len(CallerMaps) => maps[i] = generator.maps[i]
  BY <1>4, <1>6
<1>12. own > Len(CallerMaps) =>
          \A s \in DOMAIN maps[own] : maps[own][s] \in DOMAIN new
  BY <1>4, <1>6, <1>8
<1>13. \A n \in DOMAIN old :
          n \in DOMAIN new /\ (new[n] = old[n] \/ new[n] \in BuiltIn)
  BY <1>2
<1> QED BY <1>1, <1>2, <1>6, <1>9, <1>10, <1>11, <1>12, <1>13 DEF own, operation, old

\* A call that documents an operation, whether or not the mux then takes the
\* route.
LEMMA DocumentingKeeps ==
    ASSUME RefsInv, NEW handler \in Handlers, NEW pattern, NEW c, Called(c),
           c.name = "handle", c.handler = handler.id, c.pattern = pattern,
           generator' = Register(generator, pattern.method, pattern.path,
                                 handler.operation, handler.request,
                                 handler.response)
    PROVE  RefsInv'
<1>1. PICK key : key = <<pattern.method, pattern.path>>
  OBVIOUS
<1> DEFINE own == OwnMap(generator, handler.operation)
<1>2. own = OwnMap(generator, handler.operation)
  OBVIOUS
<1>3. /\ \A n \in DOMAIN generator.schemas :
            /\ n \in DOMAIN generator'.schemas
            /\ \/ generator'.schemas[n] = generator.schemas[n]
               \/ generator'.schemas[n] \in BuiltIn
      /\ \A n \in DOMAIN generator'.schemas :
            \/ n \in DOMAIN generator.schemas
                  /\ generator'.schemas[n] = generator.schemas[n]
            \/ generator'.schemas[n]
                  \in BuiltIn \cup {handler.request.id, handler.response.id}
      /\ HasBody(pattern.method, handler.request) =>
            handler.request.name \in DOMAIN generator'.schemas
      /\ MapsTyped' /\ MapsRefer'
      /\ own \in DOMAIN generator'.maps
      /\ \A i \in DOMAIN generator.maps :
            /\ i \in DOMAIN generator'.maps
            /\ i > Len(CallerMaps) =>
                  generator'.maps[i] = generator.maps[i]
      /\ own > Len(CallerMaps) =>
            \A s \in DOMAIN generator'.maps[own] :
               generator'.maps[own][s] \in DOMAIN generator'.schemas
  BY DocumentingEffect
<1> HIDE DEF own
<1>4. /\ LogIsSequence' /\ Len(log) \in Nat
      /\ DOMAIN log = 1..Len(log) /\ DOMAIN log' = 1..(Len(log) + 1)
      /\ log'[Len(log) + 1] = c
  BY CallGrows DEF RefsInv
<1>5. PICK last : last = Len(log) + 1
  OBVIOUS
<1>6. /\ \A i \in DOMAIN log : i \in DOMAIN log'
      /\ \A i \in DOMAIN log : \A id : Brought(i, id) => Brought(i, id)'
      /\ \A n \in DOMAIN generator.schemas : \A id, k :
            LeadsTo(n, id, k) => LeadsTo(n, id, k)'
  BY <1>3, LeadsStill DEF RefsInv
<1>7. /\ last \in DOMAIN log' /\ last \in CallsFor(key)'
      /\ \A id \in {handler.request.id, handler.response.id} :
            Brought(last, id)'
  <2>1. last \in DOMAIN log' /\ log'[last] = c
    BY <1>4, <1>5
  <2>2. last \in CallsFor(key)'
    BY <1>1, <2>1 DEF CallsFor
  <2>3. HandlerOf(log'[last].handler) = handler
    BY <2>1, HandlerById
  <2> QED BY <2>1, <2>2, <2>3 DEF Brought, HandlerOf
<1>8. ASSUME NEW n \in DOMAIN generator'.schemas,
             NEW found, found = generator'.schemas[n]
      PROVE  found \in BuiltIn \/ \E i \in DOMAIN log' : Brought(i, found)'
  <2>1. CASE n \in DOMAIN generator.schemas
                /\ generator'.schemas[n] = generator.schemas[n]
    <3>1. found = generator.schemas[n]
      BY <1>8, <2>1
    <3>2. found \in BuiltIn \/ \E i \in DOMAIN log : Brought(i, found)
      BY <2>1, <3>1 DEF RefsInv, SchemasHaveOrigin
    <3> QED BY <1>6, <3>2
  <2>2. CASE generator'.schemas[n]
                \in BuiltIn \cup {handler.request.id, handler.response.id}
    BY <1>7, <1>8, <2>2
  <2> QED BY <1>3, <2>1, <2>2
<1>9. SchemasHaveOrigin'
  BY <1>8 DEF SchemasHaveOrigin, Brought
<1>10. ASSUME NEW n \in DOMAIN generator'.schemas, NEW id
       PROVE  LeadsTo(n, id, key)'
  <2>1. PICK found : found = generator'.schemas[n]
    OBVIOUS
  <2>2. found \in BuiltIn \/ \E i \in DOMAIN log' : Brought(i, found)'
    BY <1>8, <2>1
  <2>3. CASE found \in BuiltIn
    BY <2>1, <2>3 DEF LeadsTo
  <2>4. CASE \E i \in DOMAIN log' : Brought(i, found)'
    <3>1. PICK i \in DOMAIN log' : Brought(i, found)'
      BY <2>4
    <3>2. i \in 1..last
      BY <1>4, <1>5
    <3>3. \E j \in CallsFor(key)' : \E h \in 1..j : Brought(h, found)'
      BY <1>7, <3>1, <3>2
    <3> QED BY <2>1, <3>3 DEF LeadsTo
  <2> QED BY <2>2, <2>3, <2>4
<1> DEFINE op == [parameters |-> Parameters(handler.request),
                  body |-> IF HasBody(pattern.method, handler.request)
                           THEN {handler.request.name} ELSE {},
                  responses |-> own]
           new == [op |-> op, request |-> handler.request.id,
                   response |-> handler.response.id]
<1>11. /\ pattern.method \notin Slots => generator'.paths = generator.paths
       /\ pattern.method \in Slots =>
             generator'.paths = Put(generator.paths, key, new)
  <2> DEFINE entry == [op |-> [parameters |-> Parameters(handler.request),
                               body |-> IF HasBody(pattern.method,
                                                   handler.request)
                                        THEN {handler.request.name} ELSE {},
                               responses |-> OwnMap(generator,
                                                    handler.operation)],
                       request |-> handler.request.id,
                       response |-> handler.response.id]
  <2>1. /\ pattern.method \notin Slots => generator'.paths = generator.paths
        /\ pattern.method \in Slots =>
              generator'.paths = Put(generator.paths,
                                     <<pattern.method, pattern.path>>, entry)
    BY RegisterResult
  <2>2. entry = new
    BY <1>2
  <2> HIDE DEF entry, new
  <2> QED BY <1>1, <2>1, <2>2
<1>12. /\ new.op.body \subseteq DOMAIN generator'.schemas
       /\ new.op.responses = own
       /\ new.request = handler.request.id /\ new.response = handler.response.id
  BY <1>3
<1>13. ASSUME NEW k \in DOMAIN generator'.paths
       PROVE  EntryTyped(k)' /\ EntryLeads(k)'
  <2>1. CASE k = key /\ pattern.method \in Slots
    <3> HIDE DEF new, op
    <3>1. PICK entry : entry = new
      OBVIOUS
    <3>2. generator'.paths[k] = entry
      BY <1>11, <2>1, <3>1 DEF Put
    <3>3. EntryTyped(k)'
      BY <1>3, <1>12, <3>1, <3>2 DEF EntryTyped
    <3>4. \A n \in entry.op.body : LeadsTo(n, entry.request, k)'
      BY <1>10, <1>12, <2>1, <3>1
    <3>5. PICK map : map = generator'.maps[own]
      OBVIOUS
    <3>6. own > Len(CallerMaps) =>
             \A s \in DOMAIN map : /\ map[s] \in DOMAIN generator'.schemas
                                   /\ LeadsTo(map[s], entry.response, k)'
      BY <1>3, <1>10, <2>1, <3>5
    <3>7. own <= Len(CallerMaps) \/ own > Len(CallerMaps)
      BY <1>3, CallerMapsAssumption DEF MapsTyped
    <3>8. entry.op.responses = own /\ generator'.maps[entry.op.responses] = map
      BY <1>12, <3>1, <3>5
    <3>9. \/ entry.op.responses <= Len(CallerMaps)
          \/ /\ generator'.maps[entry.op.responses] = map
             /\ \A s \in DOMAIN map : /\ map[s] \in DOMAIN generator'.schemas
                                      /\ LeadsTo(map[s], entry.response, k)'
      BY <3>6, <3>7, <3>8
    <3>10. EntryLeads(k)'
      BY <3>2, <3>4, <3>9, LeadsThen
    <3> QED BY <3>3, <3>10
  <2>2. CASE ~(k = key /\ pattern.method \in Slots)
    <3> HIDE DEF new, op
    <3>1. k \in DOMAIN generator.paths
      BY <1>11, <2>2 DEF Put
    <3>2. PICK entry : entry = generator.paths[k]
      OBVIOUS
    <3>3. generator'.paths[k] = entry
      BY <1>11, <2>2, <3>1, <3>2 DEF Put
    <3>4. EntryTyped(k) /\ EntryLeads(k)
      BY <3>1 DEF RefsInv
    <3>5. EntryTyped(k)'
      BY <1>3, <3>2, <3>3, <3>4 DEF EntryTyped
    <3>6. \A n \in entry.op.body : LeadsTo(n, entry.request, k)'
      BY <1>6, <3>2, <3>4 DEF EntryTyped, EntryLeads
    <3>7. PICK map : map = generator.maps[entry.op.responses]
      OBVIOUS
    <3>8. \/ entry.op.responses <= Len(CallerMaps)
          \/ /\ generator'.maps[entry.op.responses] = map
             /\ \A s \in DOMAIN map :
                   /\ map[s] \in DOMAIN generator'.schemas
                   /\ LeadsTo(map[s], entry.response, k)'
      <4>1. CASE entry.op.responses <= Len(CallerMaps)
        BY <4>1
      <4>2. CASE ~(entry.op.responses <= Len(CallerMaps))
        <5>1. \A s \in DOMAIN map : /\ map[s] \in DOMAIN generator.schemas
                                    /\ LeadsTo(map[s], entry.response, k)
          BY <3>2, <3>4, <3>7, <4>2 DEF EntryLeads
        <5>2. entry.op.responses \in DOMAIN generator.maps
          BY <3>2, <3>4 DEF EntryTyped
        <5>3. entry.op.responses > Len(CallerMaps)
          BY <4>2, <5>2, CallerMapsAssumption DEF RefsInv, MapsTyped
        <5>4. generator'.maps[entry.op.responses] = map
          BY <1>3, <3>7, <5>2, <5>3
        <5> QED BY <1>3, <1>6, <5>1, <5>4
      <4> QED BY <4>1, <4>2
    <3>9. EntryLeads(k)'
      BY <3>3, <3>6, <3>8, LeadsThen
    <3> QED BY <3>5, <3>9
  <2> QED BY <2>1, <2>2
<1> HIDE DEF new, op
<1> QED BY <1>3, <1>4, <1>9, <1>13 DEF RefsInv

\* Every step makes a call that documents an operation or nothing.
LEMMA StepDocuments ==
    ASSUME Next
    PROVE  \E c : /\ Called(c)
                  /\ \/ generator' = generator
                     \/ \E pattern : \E handler \in Handlers :
                           /\ c.name = "handle" /\ c.handler = handler.id
                           /\ c.pattern = pattern
                           /\ generator' =
                                Register(generator, pattern.method,
                                         pattern.path, handler.operation,
                                         handler.request, handler.response)
<1> DEFINE Handled(c, pattern, handler) ==
             /\ c.name = "handle" /\ c.handler = handler.id
             /\ c.pattern = pattern
             /\ generator' = Register(generator, pattern.method, pattern.path,
                                      handler.operation, handler.request,
                                      handler.response)
           Documented(c) ==
             \/ generator' = generator
             \/ \E pattern : \E handler \in Handlers : Handled(c, pattern, handler)
<1>1. ASSUME RouterUse
      PROVE  \E c : Called(c) /\ generator' = generator
  BY <1>1 DEF RouterUse
<1>2. ASSUME NEW g \in DOMAIN groups, GroupUse(g)
      PROVE  \E c : Called(c) /\ generator' = generator
  BY <1>2 DEF GroupUse
<1>3. ASSUME NEW prefix \in GroupPrefixes,
             RouterGroup(prefix) \/ \E g \in DOMAIN groups : GroupGroup(g, prefix)
      PROVE  \E c : Called(c) /\ generator' = generator
  BY <1>3 DEF RouterGroup, GroupGroup
<1>4. ASSUME NEW g, NEW pattern, NEW handler, Panics(g, pattern, handler)
      PROVE  \E c : Called(c) /\ c.name = "handle" /\ c.handler = handler.id
                      /\ c.pattern = pattern
  BY <1>4 DEF Panics
<1>5. ASSUME NEW g, NEW pattern, NEW handler \in Handlers, NEW m,
             RegisterRoute(g, pattern, handler, m)
      PROVE  \E c : Called(c) /\ Documented(c)
  <2>1. \E c : Called(c) /\ c.name = "handle" /\ c.handler = handler.id
                  /\ c.pattern = pattern
    <3> DEFINE c == [name |-> "handle", group |-> g, ok |-> TRUE,
                     handler |-> handler.id, pattern |-> pattern]
    <3>1. Panics(g, pattern, handler) \/ Called(c)
      BY <1>5 DEF RegisterRoute
    <3>2. c.name = "handle" /\ c.handler = handler.id /\ c.pattern = pattern
      OBVIOUS
    <3> HIDE DEF c
    <3> QED BY <1>4, <3>1, <3>2
  <2>2. \/ generator' = generator
        \/ generator' = Register(generator, pattern.method, pattern.path,
                                 handler.operation, handler.request,
                                 handler.response)
    BY <1>5 DEF RegisterRoute
  <2>3. PICK c : /\ Called(c) /\ c.name = "handle" /\ c.handler = handler.id
                 /\ c.pattern = pattern
    BY <2>1
  <2>4. CASE generator' = generator
    BY <2>3, <2>4
  <2>5. CASE generator' # generator
    <3>1. Handled(c, pattern, handler)
      BY <2>2, <2>3, <2>5
    <3> HIDE DEF Handled
    <3> QED BY <2>3, <3>1
  <2> QED BY <2>4, <2>5
<1>6. ASSUME NEW pattern, NEW handler \in Handlers,
             RouterHandle(pattern, handler)
      PROVE  \E c : Called(c) /\ Documented(c)
  <2> HIDE DEF Documented
  <2> QED BY <1>5, <1>6 DEF RouterHandle
<1>7. ASSUME NEW g, NEW pattern, NEW handler \in Handlers,
             GroupHandle(g, pattern, handler)
      PROVE  \E c : Called(c) /\ Documented(c)
  <2>1. CASE IsValid(pattern)
    <3> HIDE DEF Documented
    <3> QED BY <1>5, <1>7, <2>1 DEF GroupHandle
  <2>2. CASE ~IsValid(pattern)
    <3>1. Panics(g, pattern, handler) /\ generator' = generator
      BY <1>7, <2>2 DEF GroupHandle
    <3> QED BY <1>4, <3>1
  <2> QED BY <2>1, <2>2
<1>8. ASSUME NEW pattern \in Patterns, NEW handler \in Handlers,
             \/ RouterVerb(pattern.method, pattern.path, handler)
             \/ \E g \in DOMAIN groups :
                   GroupVerb(g, pattern.method, pattern.path, handler)
             \/ RouterHandle(pattern, handler)
             \/ \E g \in DOMAIN groups : GroupHandle(g, pattern, handler)
      PROVE  \E c : Called(c) /\ Documented(c)
  <2> HIDE DEF Documented
  <2> QED BY <1>6, <1>7, <1>8 DEF RouterVerb, GroupVerb
<1>9. \E c : Called(c) /\ Documented(c)
  <2>1. \A c : generator' = generator => Documented(c)
    OBVIOUS
  <2>2. (\E c : Called(c) /\ generator' = generator)
           => \E c : Called(c) /\ Documented(c)
    BY <2>1
  <2> HIDE DEF Documented
  <2> QED BY <1>1, <1>2, <1>3, <1>8, <2>2 DEF Next
<1> QED BY <1>9

LEMMA StepKeepsRefs == ASSUME RefsInv, [Next]_vars PROVE RefsInv'
<1>1. CASE UNCHANGED vars
  <2>1. log' = log /\ generator' = generator
    BY <1>1 DEF vars
  <2>2. \A n, id, k : LeadsTo(n, id, k)' = LeadsTo(n, id, k)
    BY <2>1 DEF LeadsTo, CallsFor, Brought
  <2>3. /\ LogIsSequence' /\ MapsTyped' /\ MapsRefer'
        /\ SchemasHaveOrigin'
    BY <2>1 DEF RefsInv, LogIsSequence, MapsTyped, MapsRefer,
                SchemasHaveOrigin, Brought
  <2>4. \A k \in DOMAIN generator.paths : EntryTyped(k)'
    BY <2>1 DEF RefsInv, EntryTyped
  <2>5. ASSUME NEW k \in DOMAIN generator.paths
        PROVE  EntryLeads(k)'
    <3>1. EntryLeads(k)
      BY DEF RefsInv
    <3>2. \A n \in generator.paths[k].op.body :
             LeadsTo(n, generator.paths[k].request, k)'
      BY <2>1, <3>1 DEF EntryLeads, LeadsTo, CallsFor, Brought
    <3>3. \/ generator.paths[k].op.responses <= Len(CallerMaps)
          \/ \A s \in DOMAIN generator.maps[generator.paths[k].op.responses] :
                /\ generator.maps[generator.paths[k].op.responses][s]
                      \in DOMAIN generator.schemas
                /\ LeadsTo(generator.maps[generator.paths[k].op.responses][s],
                           generator.paths[k].response, k)'
      BY <2>1, <3>1 DEF EntryLeads, LeadsTo, CallsFor, Brought
    <3> QED BY <2>1, <3>2, <3>3 DEF EntryLeads
  <2> QED BY <2>1, <2>3, <2>4, <2>5 DEF RefsInv
<1>2. CASE Next
  <2>1. PICK c : /\ Called(c)
                 /\ \/ generator' = generator
                    \/ \E pattern : \E handler \in Handlers :
                          /\ c.name = "handle" /\ c.handler = handler.id
                          /\ c.pattern = pattern
                          /\ generator' =
                               Register(generator, pattern.method,
                                        pattern.path, handler.operation,
                                        handler.request, handler.response)
    BY <1>2, StepDocuments
  <2>2. CASE generator' = generator
    BY <2>1, <2>2, UndocumentedKeeps
  <2>3. CASE generator' # generator
    <3>1. PICK pattern, handler :
             /\ handler \in Handlers
             /\ c.name = "handle" /\ c.handler = handler.id
             /\ c.pattern = pattern
             /\ generator' = Register(generator, pattern.method, pattern.path,
                                      handler.operation, handler.request,
                                      handler.response)
      BY <2>1, <2>3
    <3> QED BY <2>1, <3>1, DocumentingKeeps
  <2> QED BY <2>2, <2>3
<1> QED BY <1>1, <1>2

LEMMA RefsHold == Spec => []RefsInv
<1>1. ASSUME Init PROVE RefsInv
  <2>1. /\ log = <<>> /\ generator.maps = CallerMaps
        /\ DOMAIN generator.paths = {} /\ DOMAIN generator.schemas = {}
    BY <1>1 DEF Init, NewGenerator
  <2>2. log \in Seq({})
    BY <2>1
  <2>3. MapsTyped
    BY <2>1, CallerMapsAssumption DEF MapsTyped
  <2>4. MapsRefer
    BY <2>1, CallerMapsAssumption DEF MapsRefer
  <2> QED BY <2>1, <2>2, <2>3, <2>4 DEF RefsInv, LogIsSequence,
                                        SchemasHaveOrigin
<1> QED BY <1>1, StepKeepsRefs, PTL DEF Spec

\* Whatever is registered, every reference of the document leads to a schema
\* of it, and an operation's references to the schemas of its types, or of
\* types of the same name that came no later; the maps callers share are the
\* one exception.
THEOREM ReferencesLead == Spec => []RefsMeanTheirTypes
<1>1. ASSUME RefsInv PROVE RefsMeanTheirTypes
  <2>1. ASSUME NEW k \in DOMAIN generator.paths
        PROVE  /\ RefsOf(generator, generator.paths[k])
                     \subseteq DOMAIN generator.schemas
               /\ EntryLeads(k)
    <3>1. EntryTyped(k) /\ EntryLeads(k) /\ MapsRefer
      BY <1>1 DEF RefsInv
    <3>2. PICK entry : entry = generator.paths[k]
      OBVIOUS
    <3>3. PICK map : map = generator.maps[entry.op.responses]
      OBVIOUS
    <3>4. \A s \in DOMAIN map : map[s] \in DOMAIN generator.schemas \cup {NoRef}
      BY <3>1, <3>2, <3>3 DEF EntryTyped, MapsRefer
    <3>5. RefsOf(generator, entry)
            = (entry.op.body \cup {map[s] : s \in DOMAIN map}) \ {NoRef}
      BY <3>3 DEF RefsOf
    <3>6. entry.op.body \subseteq DOMAIN generator.schemas
      BY <3>1, <3>2 DEF EntryTyped
    <3> QED BY <3>1, <3>2, <3>4, <3>5, <3>6
  <2> QED BY <2>1 DEF RefsMeanTheirTypes, EntryLeads
<1> QED BY <1>1, RefsHold, PTL

\* Once a name stands for a schema, no registration changes what it stands
\* for, but for a type of the program called like a part of Problem that
\* comes before Problem does.
LEMMA SchemasNext ==
    [Next]_vars => \A n \in DOMAIN generator.schemas : SchemaKept(n)
<1>1. ASSUME [Next]_vars, NEW n \in DOMAIN generator.schemas
      PROVE  SchemaKept(n)
  <2>1. CASE generator' = generator
    BY <2>1 DEF SchemaKept
  <2>2. ASSUME NEW pattern, NEW handler \in Handlers,
               generator' = Register(generator, pattern.method, pattern.path,
                                     handler.operation, handler.request,
                                     handler.response)
        PROVE  SchemaKept(n)
    <3> DEFINE old == generator.schemas
               new == BringSchemas(generator, pattern.method,
                                   handler.operation, handler.request,
                                   handler.response)
    <3>1. generator'.schemas = new
      <4>1. /\ generator'.schemas = new
            /\ generator'.maps
                  = FillMap(generator, handler.operation, handler.response)
            /\ pattern.method \notin Slots =>
                  generator'.paths = generator.paths
            /\ pattern.method \in Slots =>
                 generator'.paths =
                   Put(generator.paths, <<pattern.method, pattern.path>>,
                       [op |-> [parameters |-> Parameters(handler.request),
                                body |-> IF HasBody(pattern.method,
                                                    handler.request)
                                         THEN {handler.request.name} ELSE {},
                                responses |-> OwnMap(generator,
                                                     handler.operation)],
                        request |-> handler.request.id,
                        response |-> handler.response.id])
        BY <2>2, RegisterResult
      <4> QED BY <4>1
    <3>2. /\ DOMAIN old \cup {handler.response.name} \subseteq DOMAIN new
          /\ HasBody(pattern.method, handler.request) =>
                handler.request.name \in DOMAIN new
          /\ ~Listed(generator, handler.operation) => "Problem" \in DOMAIN new
          /\ \A k \in DOMAIN new :
                \/ k \in DOMAIN old /\ new[k] = old[k]
                \/ new[k] \in BuiltIn \cup {handler.request.id,
                                            handler.response.id}
          /\ \A k \in DOMAIN old :
                \/ new[k] = old[k]
                \/ /\ k \in ProblemParts /\ "Problem" \notin DOMAIN old
                   /\ new[k] \in BuiltIn
      BY BringSchemasResult
    <3> HIDE DEF new
    <3> QED BY <3>1, <3>2 DEF SchemaKept
  <2>3. UNCHANGED vars => generator' = generator
    BY DEF vars
  <2>4. Next => \/ generator' = generator
                \/ \E pattern : \E handler \in Handlers :
                      generator' = Register(generator, pattern.method,
                                            pattern.path, handler.operation,
                                            handler.request, handler.response)
    BY StepDocuments
  <2> QED BY <1>1, <2>1, <2>2, <2>3, <2>4
<1> QED BY <1>1

(***************************************************************************)
(*                                  TAGS                                   *)
(*                                                                         *)
(* RegisterTags is a fold over the tags of an operation.  What a fold      *)
(* computes is shown by induction, for which a set of naturals with a      *)
(* least element is enough: the set of those for which the claim is false. *)
(***************************************************************************)
LEMMA LeastElement ==
    ASSUME NEW T, T \subseteq Nat, T # {}
    PROVE  \E m \in T : \A k \in T : m <= k
<1> DEFINE R == OpToRel(<, Nat)
<1>1. IsWellFoundedOn(R, Nat)
  BY NatLessThanWellFounded
<1>2. \A x, y \in Nat : <<x, y>> \in R <=> x < y
  BY DEF OpToRel
<1> HIDE DEF R
<1>3. PICK m \in T : \A k \in T : <<k, m>> \notin R
  BY <1>1, WFMin
<1>4. ASSUME NEW k \in T PROVE m <= k
  <2>1. m \in Nat /\ k \in Nat
    OBVIOUS
  <2>2. ~(k < m)
    BY <1>2, <1>3, <2>1
  <2> QED BY <2>1, <2>2
<1> QED BY <1>4

\* Induction on the numbers up to n, for a claim given as a set.
LEMMA InductionUpTo ==
    ASSUME NEW n \in Nat, NEW T, 0 \in T,
           \A k \in 0 .. n - 1 : k \in T => k + 1 \in T
    PROVE  0 .. n \subseteq T
<1> DEFINE Bad == (0 .. n) \ T
<1>1. SUFFICES ASSUME Bad # {} PROVE FALSE
  OBVIOUS
<1>2. Bad \subseteq Nat
  OBVIOUS
<1> HIDE DEF Bad
<1>3. PICK m \in Bad : \A k \in Bad : m <= k
  BY <1>1, <1>2, LeastElement
<1>4. m \in 0 .. n /\ m # 0
  BY DEF Bad
<1>5. m - 1 \notin Bad
  BY <1>3, <1>4
<1>6. m - 1 \in 0 .. n - 1 /\ m - 1 \in T
  BY <1>4, <1>5 DEF Bad
<1> QED BY <1>4, <1>6 DEF Bad

LEMMA MaxOfUpTo ==
    ASSUME NEW k \in Nat, NEW T \in SUBSET (1 .. k + 1), k + 1 \in T
    PROVE  Max(T) = k + 1
<1>1. \A x \in T : (\A y \in T : x >= y) => x = k + 1
  OBVIOUS
<1>2. \A y \in T : k + 1 >= y
  OBVIOUS
<1> QED BY <1>1, <1>2 DEF Max

(***************************************************************************)
(* FoldLeft is a recursive function on the sets of indices.  For a step    *)
(* given as a function there is one: of the sets within 1 .. k, for one k  *)
(* after the other.                                                        *)
(***************************************************************************)
Folds(f, k, base, step) ==
    \A t \in SUBSET (1 .. k) :
        /\ t # {} => Max(t) \in t
        /\ f[t] = IF t = {} THEN base ELSE step[<<Max(t), f[t \ {Max(t)}]>>]

LEMMA FoldExists ==
    ASSUME NEW n \in Nat, NEW A, NEW base \in A,
           NEW step \in [(1 .. n) \X A -> A]
    PROVE  \E f \in [SUBSET (1 .. n) -> A] : Folds(f, n, base, step)
<1> DEFINE T == {k \in 0 .. n :
                   \E f \in [SUBSET (1 .. k) -> A] : Folds(f, k, base, step)}
<1>1. 0 \in T
  <2> DEFINE f == [t \in SUBSET (1 .. 0) |-> base]
  <2>1. f \in [SUBSET (1 .. 0) -> A]
    OBVIOUS
  <2>2. \A t \in SUBSET (1 .. 0) : t = {}
    OBVIOUS
  <2>3. Folds(f, 0, base, step)
    BY <2>2 DEF Folds
  <2> QED BY <2>1, <2>3
<1>2. ASSUME NEW k \in 0 .. n - 1, k \in T PROVE k + 1 \in T
  <2>1. PICK f \in [SUBSET (1 .. k) -> A] : Folds(f, k, base, step)
    BY <1>2
  <2> DEFINE g == [t \in SUBSET (1 .. k + 1) |->
                     IF k + 1 \in t THEN step[<<k + 1, f[t \ {k + 1}]>>]
                     ELSE f[t]]
  <2>2. ASSUME NEW t \in SUBSET (1 .. k + 1)
        PROVE  /\ k + 1 \notin t => t \in SUBSET (1 .. k)
               /\ t \ {k + 1} \in SUBSET (1 .. k)
    OBVIOUS
  <2>3. g \in [SUBSET (1 .. k + 1) -> A]
    <3>1. ASSUME NEW t \in SUBSET (1 .. k + 1)
          PROVE  (IF k + 1 \in t THEN step[<<k + 1, f[t \ {k + 1}]>>]
                  ELSE f[t]) \in A
      <4>1. CASE k + 1 \in t
        <5>1. f[t \ {k + 1}] \in A
          BY <2>2
        <5>2. <<k + 1, f[t \ {k + 1}]>> \in (1 .. n) \X A
          BY <5>1
        <5> QED BY <4>1, <5>2
      <4>2. CASE k + 1 \notin t
        BY <2>2, <4>2
      <4> QED BY <4>1, <4>2
    <3> QED BY <3>1
  <2>4. ASSUME NEW t \in SUBSET (1 .. k + 1)
        PROVE  /\ t # {} => Max(t) \in t
               /\ g[t] = IF t = {} THEN base
                         ELSE step[<<Max(t), g[t \ {Max(t)}]>>]
    <3>1. CASE k + 1 \in t
      <4>1. Max(t) = k + 1
        BY <3>1, MaxOfUpTo
      <4>2. g[t \ {k + 1}] = f[t \ {k + 1}]
        BY <2>2
      <4>3. g[t] = step[<<k + 1, f[t \ {k + 1}]>>]
        BY <3>1
      <4> HIDE DEF g
      <4> QED BY <3>1, <4>1, <4>2, <4>3
    <3>2. CASE k + 1 \notin t
      <4>1. t \in SUBSET (1 .. k) /\ t \ {Max(t)} \in SUBSET (1 .. k)
        BY <2>2, <3>2
      <4>2. g[t] = f[t]
        BY <3>2
      <4>3. g[t \ {Max(t)}] = f[t \ {Max(t)}]
        BY <3>2, <4>1
      <4>4. /\ t # {} => Max(t) \in t
            /\ f[t] = IF t = {} THEN base ELSE step[<<Max(t), f[t \ {Max(t)}]>>]
        BY <2>1, <4>1 DEF Folds
      <4> HIDE DEF g
      <4> QED BY <4>2, <4>3, <4>4
    <3> QED BY <3>1, <3>2
  <2>5. Folds(g, k + 1, base, step)
    BY <2>4 DEF Folds
  <2> HIDE DEF g
  <2>6. k + 1 \in 0 .. n
    OBVIOUS
  <2> QED BY <2>3, <2>5, <2>6
<1>3. 0 .. n \subseteq T
  <2> HIDE DEF T
  <2> QED BY <1>1, <1>2, InductionUpTo
<1>4. n \in T
  <2> HIDE DEF T
  <2> QED BY <1>3
<1> QED BY <1>4

(***************************************************************************)
(* The tags of the document, each what is said of it.                      *)
(***************************************************************************)
Tag == [name: STRING, fields: [TagFields -> STRING]]
TagMaps == UNION {[names -> [TagFields -> STRING]] : names \in SUBSET STRING}

LEMMA TagMapFacts ==
    /\ \A tags \in TagMaps :
          /\ DOMAIN tags \in SUBSET STRING
          /\ tags \in [DOMAIN tags -> [TagFields -> STRING]]
    /\ \A names \in SUBSET STRING :
          [names -> [TagFields -> STRING]] \subseteq TagMaps
BY DEF TagMaps

\* What tags says is still said by new.
KeepsTags(tags, new) ==
    \A n \in DOMAIN tags :
        /\ n \in DOMAIN new
        /\ \A f \in TagFields : tags[n][f] # "" => new[n][f] = tags[n][f]

LEMMA OneTag ==
    ASSUME NEW tags \in TagMaps, NEW tag \in Tag
    PROVE  /\ RegisterTag(tags, tag) \in TagMaps
           /\ KeepsTags(tags, RegisterTag(tags, tag))
<1> DEFINE names == DOMAIN tags
           Said == [TagFields -> STRING]
<1>1. names \in SUBSET STRING /\ tags \in [names -> Said]
  BY TagMapFacts
<1>2. tag.name \in STRING /\ tag.fields \in Said
  BY DEF Tag
<1>3. CASE tag.name = ""
  BY <1>3 DEF RegisterTag, KeepsTags
<1>4. CASE tag.name # "" /\ tag.name \in names
  <2> DEFINE filled == FillTag(tags[tag.name], tag)
             new == [tags EXCEPT ![tag.name] = filled]
  <2>1. filled \in Said
    BY <1>1, <1>2, <1>4 DEF FillTag
  <2>2. \A f \in TagFields :
           tags[tag.name][f] # "" => filled[f] = tags[tag.name][f]
    BY <1>1, <1>4 DEF FillTag
  <2>3. RegisterTag(tags, tag) = new
    BY <1>4 DEF RegisterTag
  <2> HIDE DEF filled
  <2>4. new \in [names -> Said]
    BY <1>1, <2>1
  <2>5. KeepsTags(tags, new)
    BY <1>1, <2>2, <2>4 DEF KeepsTags
  <2> QED BY <1>1, <2>3, <2>4, <2>5, TagMapFacts
<1>5. CASE tag.name # "" /\ tag.name \notin names
  <2> DEFINE new == Put(tags, tag.name, tag.fields)
  <2>1. RegisterTag(tags, tag) = new
    BY <1>5 DEF RegisterTag
  <2>2. new \in [names \cup {tag.name} -> Said]
    BY <1>1, <1>2 DEF Put
  <2>3. names \cup {tag.name} \in SUBSET STRING
    BY <1>1, <1>2
  <2>4. \A n \in names : n \in DOMAIN new /\ new[n] = tags[n]
    BY <1>5 DEF Put
  <2> HIDE DEF new
  <2> QED BY <2>1, <2>2, <2>3, <2>4, TagMapFacts DEF KeepsTags
<1> QED BY <1>3, <1>4, <1>5

LEMMA KeepingIsTransitive ==
    ASSUME NEW a, NEW b, NEW c, KeepsTags(a, b), KeepsTags(b, c)
    PROVE  KeepsTags(a, c)
<1> SUFFICES ASSUME NEW n \in DOMAIN a
             PROVE  /\ n \in DOMAIN c
                    /\ \A f \in TagFields : a[n][f] # "" => c[n][f] = a[n][f]
  BY DEF KeepsTags
<1>1. /\ n \in DOMAIN b
      /\ \A f \in TagFields : a[n][f] # "" => b[n][f] = a[n][f]
  BY DEF KeepsTags
<1>2. /\ n \in DOMAIN c
      /\ \A f \in TagFields : b[n][f] # "" => c[n][f] = b[n][f]
  BY <1>1 DEF KeepsTags
<1> QED BY <1>1, <1>2

LEMMA TagsAreKept ==
    ASSUME NEW tags \in TagMaps, NEW list \in Seq(Tag)
    PROVE  /\ RegisterTags(tags, list) \in TagMaps
           /\ KeepsTags(tags, RegisterTags(tags, list))
<1> DEFINE n == Len(list)
           step == [p \in (1 .. n) \X TagMaps |-> RegisterTag(p[2], list[p[1]])]
           Fold(f) == [t \in SUBSET DOMAIN list |->
                         IF t = {} THEN tags
                         ELSE RegisterTag(f[t \ {Max(t)}], list[Max(t)])]
           c == CHOOSE f : f = Fold(f)
<1>0. n \in Nat /\ DOMAIN list = 1 .. n /\ \A i \in 1 .. n : list[i] \in Tag
  BY ElementOfSeq
<1>1. step \in [(1 .. n) \X TagMaps -> TagMaps]
  <2>1. ASSUME NEW i \in 1 .. n, NEW a \in TagMaps
        PROVE  RegisterTag(a, list[i]) \in TagMaps
    BY <1>0, OneTag
  <2> HIDE DEF n
  <2> QED BY <2>1
<1>2. PICK f \in [SUBSET (1 .. n) -> TagMaps] : Folds(f, n, tags, step)
  <2> HIDE DEF step, n
  <2> QED BY <1>0, <1>1, FoldExists
<1>3. f = Fold(f)
  <2>1. ASSUME NEW t \in SUBSET (1 .. n), t # {}
        PROVE  f[t] = RegisterTag(f[t \ {Max(t)}], list[Max(t)])
    <3> HIDE DEF n
    <3>1. Max(t) \in 1 .. n /\ f[t] = step[<<Max(t), f[t \ {Max(t)}]>>]
      BY <1>2, <2>1 DEF Folds
    <3>2. f[t \ {Max(t)}] \in TagMaps
      OBVIOUS
    <3> QED BY <3>1, <3>2
  <2>2. f[{}] = tags
    BY <1>2 DEF Folds
  <2> HIDE DEF n, step
  <2> QED BY <1>0, <2>1, <2>2
<1>4. c = Fold(c)
  BY <1>3
<1>5. RegisterTags(tags, list) = c[1 .. n]
  BY <1>0 DEF RegisterTags, FoldLeft, MapThenFoldSet
<1> HIDE DEF c, n
<1>6. c[1 .. 0] = tags
  <2>1. 1 .. 0 = {} /\ {} \in SUBSET DOMAIN list
    OBVIOUS
  <2> QED BY <1>4, <2>1
<1>7. ASSUME NEW k \in 0 .. n - 1
      PROVE  c[1 .. k + 1] = RegisterTag(c[1 .. k], list[k + 1])
  <2> DEFINE t == 1 .. k + 1
  <2>1. t \in SUBSET (1 .. n) /\ k + 1 \in t /\ t \ {k + 1} = 1 .. k
    BY <1>0
  <2>2. Max(t) = k + 1
    BY <2>1, MaxOfUpTo
  <2> HIDE DEF t
  <2>3. c[t] = RegisterTag(c[t \ {Max(t)}], list[Max(t)])
    BY <1>0, <1>4, <2>1
  <2> QED BY <2>1, <2>2, <2>3 DEF t
<1> DEFINE T == {k \in 0 .. n : c[1 .. k] \in TagMaps /\ KeepsTags(tags, c[1 .. k])}
<1>8. 0 \in T
  <2>1. KeepsTags(tags, tags)
    BY DEF KeepsTags
  <2> QED BY <1>0, <1>6, <2>1
<1>9. ASSUME NEW k \in 0 .. n - 1, k \in T PROVE k + 1 \in T
  <2>1. list[k + 1] \in Tag /\ k + 1 \in 0 .. n
    BY <1>0
  <2>2. c[1 .. k] \in TagMaps /\ KeepsTags(tags, c[1 .. k])
    BY <1>9
  <2>3. /\ c[1 .. k + 1] \in TagMaps
        /\ KeepsTags(c[1 .. k], c[1 .. k + 1])
    BY <1>7, <2>1, <2>2, OneTag
  <2>4. KeepsTags(tags, c[1 .. k + 1])
    BY <2>2, <2>3, KeepingIsTransitive
  <2> QED BY <2>1, <2>3, <2>4
<1>10. n \in T
  <2> HIDE DEF T
  <2>1. 0 .. n \subseteq T
    BY <1>0, <1>8, <1>9, InductionUpTo
  <2> QED BY <1>0, <2>1
<1> QED BY <1>5, <1>10

\* The only step that registers tags.
LEMMA RegisteredTags ==
    ASSUME NEW gen, NEW method, NEW path, NEW operation, NEW request, NEW response
    PROVE  Register(gen, method, path, operation, request, response).tags
              = RegisterTags(gen.tags, operation.tags)
<1> DEFINE built == BuildOperation(gen, method, operation, request, response)
           entry == [op |-> built.operation, request |-> request.id,
                     response |-> response.id]
           tags == RegisterTags(gen.tags, operation.tags)
<1>1. \E a, b : built.generator =
                   [paths |-> gen.paths, schemas |-> a, tags |-> tags, maps |-> b]
  BY DEF BuildOperation
<1>2. Register(gen, method, path, operation, request, response) =
        [built.generator EXCEPT
           !.paths = IF method \in Slots THEN Put(@, <<method, path>>, entry)
                     ELSE @]
  BY DEF Register
<1> HIDE DEF built, entry, tags
<1>3. Register(gen, method, path, operation, request, response).tags = tags
  BY <1>1, <1>2
<1> QED BY <1>3 DEF tags

TagsInv == generator.tags \in TagMaps

LEMMA TagsNext ==
    ASSUME TagsInv, [Next]_vars
    PROVE  TagsInv' /\ KeepsTags(generator.tags, generator.tags')
<1>1. CASE generator' = generator
  BY <1>1 DEF TagsInv, KeepsTags
<1>2. ASSUME NEW pattern, NEW handler \in Handlers,
             generator' = Register(generator, pattern.method, pattern.path,
                                   handler.operation, handler.request,
                                   handler.response)
      PROVE  TagsInv' /\ KeepsTags(generator.tags, generator.tags')
  <2>1. generator'.tags = RegisterTags(generator.tags, handler.operation.tags)
    BY <1>2, RegisteredTags
  <2>2. handler.operation.tags \in Seq(Tag)
    BY HandlersAssumption DEF Tag
  <2> QED BY <2>1, <2>2, TagsAreKept DEF TagsInv
<1>3. UNCHANGED vars => generator' = generator
  BY DEF vars
<1>4. Next => \/ generator' = generator
              \/ \E pattern : \E handler \in Handlers :
                    generator' = Register(generator, pattern.method,
                                          pattern.path, handler.operation,
                                          handler.request, handler.response)
  BY StepDocuments
<1> QED BY <1>1, <1>2, <1>3, <1>4

\* What one route has said of a schema or a tag no later one takes back or
\* rewrites: registerSchema (generator.go:337) keeps a name that is taken, and
\* registerTags (generator.go:388-426) only fills what is empty.
THEOREM DocumentGrows == Spec => DocumentOnlyGrows
<1>1. Init => TagsInv
  <2>1. ASSUME Init PROVE generator.tags = <<>>
    BY <2>1 DEF Init, NewGenerator
  <2>2. <<>> \in [{} -> [TagFields -> STRING]]
    OBVIOUS
  <2> QED BY <2>1, <2>2, TagMapFacts DEF TagsInv
<1>2. TagsInv /\ [Next]_vars => TagsInv'
  BY TagsNext
<1>3. TagsInv /\ [Next]_vars => \A n \in DOMAIN generator.tags : TagKept(n)
  <2> SUFFICES ASSUME TagsInv, [Next]_vars, NEW n \in DOMAIN generator.tags
               PROVE  TagKept(n)
    OBVIOUS
  <2>1. KeepsTags(generator.tags, generator.tags')
    BY TagsNext
  <2> QED BY <2>1 DEF KeepsTags, TagKept
<1> QED BY <1>1, <1>2, <1>3, SchemasNext, PTL DEF Spec, DocumentOnlyGrows
=============================================================================
