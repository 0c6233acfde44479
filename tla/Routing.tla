------------------------------ MODULE Routing ------------------------------
(***************************************************************************)
(* The router and its groups (package httpx/routing): the calls a program  *)
(* makes at startup, in any order, and what a request then goes through.   *)
(* A documented route also enters the OpenAPI document: module OpenAPI.    *)
(*                                                                         *)
(* A path is the sequence of its slashes and segments.  A handler is a     *)
(* record: whether it is an endpoint with an operation, with what types,   *)
(* and the hand-made wrappers around it, outermost first.  A call that     *)
(* panics may be recovered by the program, which goes on.                  *)
(***************************************************************************)
EXTENDS OpenAPI

CONSTANTS Handlers,      \* what the program registers
          Patterns,     \* the patterns it registers it under
          GroupPrefixes,     \* the prefixes of its groups
          CallerMaps,   \* the Responses maps its operations refer to
          MaxDepth,     \* unwrapToProvider's bound, 32 in the code
          MaxCalls, MaxRoutes, MaxGroups   \* bounds on the program

ASSUME MaxDepthAssumption == MaxDepth \in Nat \ {0}

\* A handler is known by its id; its operation refers to a map or to none,
\* and has tags.
ASSUME HandlersAssumption ==
    /\ \A h, k \in Handlers : h.id = k.id => h = k
    /\ \A h \in Handlers : /\ Len(h.wraps) \in Nat
                          /\ h.operation.responses \in 0..Len(CallerMaps)
                          /\ h.operation.tags \in
                                Seq([name: STRING, fields: [TagFields -> STRING]])

\* A caller's own responses carry no reference of the generator's.
ASSUME CallerMapsAssumption ==
    /\ CallerMaps \in Seq(Range(CallerMaps))
    /\ \A i \in DOMAIN CallerMaps : \A s \in DOMAIN CallerMaps[i] :
          CallerMaps[i][s] = NoRef

VARIABLES globals,      \* Router.middlewares
          groups,       \* the groups made so far
          routes,       \* the mux's patterns
          generator,    \* the OpenAPI registry
          options,      \* NewRouter's options
          log           \* history: the calls made, with how they ended

vars == <<globals, groups, routes, generator, options, log>>

Router == 0   \* stands for the router where a group's number is expected

\* NewRouter, with or without WithOpenAPI and WithInstrumentation.
Init ==
    /\ globals = <<>>
    /\ groups = <<>>
    /\ routes = {}
    /\ generator = NewGenerator(CallerMaps)
    /\ options \in [openAPI: BOOLEAN, instrument: BOOLEAN]
    /\ log = <<>>

(***************************************************************************)
(* Patterns.                                                               *)
(***************************************************************************)
Methods == Slots \cup {"CONNECT"}

TrimSuffix(path) ==
    IF path # <<>> /\ Last(path) = "/" THEN Front(path) ELSE path
TrimPrefix(path) ==
    IF path # <<>> /\ Head(path) = "/" THEN Tail(path) ELSE path

\* One slash between the two, none at the end of "/".
JoinPath(left, right) ==
    LET l == TrimSuffix(left)
        r == TrimPrefix(right)
    IN  IF l = <<>> THEN <<"/">> \o r
        ELSE IF r = <<>> THEN l
        ELSE l \o <<"/">> \o r

\* splitPattern's three errors; method "" stands for a pattern of one field.
IsValid(pattern) ==
    /\ pattern.method \in Methods
    /\ pattern.path # <<>> /\ Head(pattern.path) = "/"

\* net/http takes any method, none, and a host before the first slash.
MuxTakes(pattern) ==
    /\ \E i \in DOMAIN pattern.path : pattern.path[i] = "/"
    /\ \A r \in routes : <<r.method, r.path>> # <<pattern.method, pattern.path>>

(***************************************************************************)
(* Registration.                                                           *)
(***************************************************************************)
\* The middlewares of httpx/middleware whose result is made by Wrap: all of
\* them but CORS, which returns a closure.
Transparent ==
    {"AllowContentType", "Compress", "ETag", "Logging", "MaxBodyBytes",
     "NoCache", "RateLimit", "RealIP", "Recover", "RedirectSlashes",
     "RequestID", "SecureHeaders", "ServiceDesc", "StripSlashes", "Throttle",
     "Timeout"}

\* Mutant of FindsProvider: only the outermost handler is asked.
FindsProviderOutermost(handler) == handler.wraps = <<>>

\* unwrapToProvider: wrappers made by Wrap are looked through, a closure is
\* not, and no more than MaxDepth handlers are looked at.
FindsProvider(handler) ==
    /\ Len(handler.wraps) < MaxDepth
    /\ \A i \in DOMAIN handler.wraps : handler.wraps[i] \in Transparent

Documents(handler) ==
    options.openAPI /\ handler.documented /\ FindsProvider(handler)

\* What the mux keeps for a route: Chain puts the first middleware
\* outermost, and the instrumentation goes around all of them.
Instrument == 0
Chain(middlewares) ==
    (IF options.instrument THEN <<Instrument>> ELSE <<>>) \o middlewares

\* ServeHTTP: a request goes through the global middlewares of the moment,
\* whether the mux then finds a route or not.
Served(route) == globals \o route.chain

Called(call) == log' = Append(log, call)

Calls(name) == Len(SelectSeq(log, LAMBDA c : c.name = name))

MayCall == Len(log) < MaxCalls

\* A middleware is named by the call that installed it.
NextMiddleware == Len(log) + 1

\* Router.Use.
RouterUse ==
    /\ MayCall
    /\ globals' = Append(globals, NextMiddleware)
    /\ Called([name |-> "use", group |-> Router])
    /\ UNCHANGED <<groups, routes, generator, options>>

\* Mutant of GroupUse: a middleware reaches the groups made of this one.
GroupUseDown(g) ==
    /\ MayCall
    /\ groups' = [h \in DOMAIN groups |->
                   [groups[h] EXCEPT !.middlewares =
                        IF h >= g THEN Append(@, NextMiddleware) ELSE @]]
    /\ Called([name |-> "use", group |-> g])
    /\ UNCHANGED <<globals, routes, generator, options>>

\* Group.Use.
GroupUse(g) ==
    /\ MayCall
    /\ groups' = [groups EXCEPT ![g].middlewares = Append(@, NextMiddleware)]
    /\ Called([name |-> "use", group |-> g])
    /\ UNCHANGED <<globals, routes, generator, options>>

\* Router.Group takes the prefix as it is.
RouterGroup(prefix) ==
    /\ MayCall
    /\ Len(groups) < MaxGroups
    /\ groups' = Append(groups, [prefix |-> prefix, middlewares |-> <<>>])
    /\ Called([name |-> "group", group |-> Router, made |-> Len(groups) + 1])
    /\ UNCHANGED <<globals, routes, generator, options>>

\* Group.Group joins it and copies the middlewares of the parent.
GroupGroup(g, prefix) ==
    /\ MayCall
    /\ Len(groups) < MaxGroups
    /\ groups' = Append(groups,
                       [groups[g] EXCEPT !.prefix = JoinPath(@, prefix)])
    /\ Called([name |-> "group", group |-> g, made |-> Len(groups) + 1])
    /\ UNCHANGED <<globals, routes, generator, options>>

Panics(g, pattern, handler) ==
    /\ Called([name |-> "handle", group |-> g, ok |-> FALSE,
               handler |-> handler.id, pattern |-> pattern])
    /\ UNCHANGED routes

\* registerOpenAPI, which panics on a pattern it cannot split, and what
\* follows it: the mux may still panic, and the document keeps the route.
RegisterRoute(g, pattern, handler, middlewares) ==
    IF Documents(handler) /\ ~IsValid(pattern)
    THEN Panics(g, pattern, handler) /\ UNCHANGED generator
    ELSE /\ generator' =
              IF Documents(handler)
              THEN Register(generator, pattern.method, pattern.path,
                            handler.operation, handler.request,
                            handler.response)
              ELSE generator
         /\ IF MuxTakes(pattern)
            THEN /\ routes' = routes \cup
                      {[method |-> pattern.method, path |-> pattern.path,
                        handler |-> handler.id, call |-> Len(log) + 1,
                        chain |-> Chain(middlewares)]}
                 /\ Called([name |-> "handle", group |-> g, ok |-> TRUE,
                            handler |-> handler.id, pattern |-> pattern])
            ELSE Panics(g, pattern, handler)

MayRegister == MayCall /\ Calls("handle") < MaxRoutes

\* Router.Handle hands the pattern on unchecked.
RouterHandle(pattern, handler) ==
    /\ MayRegister
    /\ RegisterRoute(Router, pattern, handler, <<>>)
    /\ UNCHANGED <<globals, groups, options>>

\* Group.Handle splits and joins it first, or panics.
GroupHandle(g, pattern, handler) ==
    /\ MayRegister
    /\ IF IsValid(pattern)
       THEN RegisterRoute(g, [pattern EXCEPT
                                !.path = JoinPath(groups[g].prefix, @)],
                          handler, groups[g].middlewares)
       ELSE Panics(g, pattern, handler) /\ UNCHANGED generator
    /\ UNCHANGED <<globals, groups, options>>

\* GET, HEAD, POST, ..., QUERY: Handle with the method put in front.
RouterVerb(method, path, handler) ==
    RouterHandle([method |-> method, path |-> path], handler)
GroupVerb(g, method, path, handler) ==
    GroupHandle(g, [method |-> method, path |-> path], handler)

\* A call with a pattern of a known method is one of the verbs.
Next ==
    \/ RouterUse
    \/ \E g \in DOMAIN groups : GroupUse(g)
    \/ \E prefix \in GroupPrefixes :
          RouterGroup(prefix) \/ \E g \in DOMAIN groups : GroupGroup(g, prefix)
    \/ \E pattern \in Patterns, handler \in Handlers :
          IF pattern.method \in Methods
          THEN \/ RouterVerb(pattern.method, pattern.path, handler)
               \/ \E g \in DOMAIN groups :
                     GroupVerb(g, pattern.method, pattern.path, handler)
          ELSE \/ RouterHandle(pattern, handler)
               \/ \E g \in DOMAIN groups : GroupHandle(g, pattern, handler)

Spec == Init /\ [][Next]_vars

-----------------------------------------------------------------------------
(***************************************************************************)
(* Properties.                                                             *)
(***************************************************************************)
TypeOK ==
    /\ \A g \in DOMAIN groups : \A i \in DOMAIN groups[g].middlewares :
          log[groups[g].middlewares[i]].name = "use"
    /\ \A i \in DOMAIN globals : log[globals[i]].name = "use"
    /\ \A r \in routes : r.call \in DOMAIN log /\ log[r.call].ok
    /\ \A k \in DOMAIN generator.paths : k[1] \in Slots

\* The calls that installed a middleware on g.
Own(g) == {i \in DOMAIN log : log[i].name = "use" /\ log[i].group = g}

\* The call that made group g, and the group it was called on.
MadeBy(g) ==
    CHOOSE i \in DOMAIN log : log[i].name = "group" /\ log[i].made = g
Parent(g) == log[MadeBy(g)].group

\* What was in scope for a route or a group made on g by call t: what g had
\* then.  The router's own middlewares are not handed down.
InScope(g, t) ==
    IF g = Router THEN {} ELSE {i \in Range(groups[g].middlewares) : i < t}

\* The middlewares installed by these calls, each once, in the order of the
\* calls.
InOrder(middlewares, calls) ==
    /\ Range(middlewares) = calls
    /\ \A i, j \in DOMAIN middlewares : i < j => middlewares[i] < middlewares[j]

\* A group has its own middlewares and those its parent had when the group
\* was made.
GroupsInherit ==
    \A g \in DOMAIN groups :
        InOrder(groups[g].middlewares,
                Own(g) \cup InScope(Parent(g), MadeBy(g)))

\* A request for a route goes through the middlewares of the router of the
\* moment, then the instrumentation, whose number comes before any, then
\* the middlewares its group had when it was registered.
RoutesHaveScope ==
    \A r \in routes : \E n \in 0..Len(Served(r)) :
        /\ InOrder(SubSeq(Served(r), 1, n), Own(Router))
        /\ InOrder(SubSeq(Served(r), n + 1, Len(Served(r))),
                   {i \in {Instrument} : options.instrument}
                       \cup InScope(log[r.call].group, r.call))

\* Use on a group counts for the routes and groups made after it, in order,
\* Use on the router for every request, whenever it was called; nothing
\* done to one group reaches another.
RoutesGoThrough == GroupsInherit /\ RoutesHaveScope

HandlerOf(id) == CHOOSE h \in Handlers : h.id = id

\* The calls that may have made entry k of the document.
CallsFor(k) ==
    {i \in DOMAIN log : log[i].name = "handle"
                       /\ <<log[i].pattern.method, log[i].pattern.path>> = k}

\* The document describes what is served: behind every operation is a route
\* with its method and path and a handler of its types, unless a call that
\* was to register it panicked after it had documented it.
DocumentIsServed ==
    \A k \in DOMAIN generator.paths :
        \/ \E r \in routes :
              /\ <<r.method, r.path>> = k
              /\ HandlerOf(r.handler).request.id = generator.paths[k].request
              /\ HandlerOf(r.handler).response.id = generator.paths[k].response
        \/ \E i \in CallsFor(k) : ~log[i].ok

\* An endpoint that is served is in the document, unless a closure or too
\* many wrappers hide it, or its method is CONNECT.
ServedIsDocumented ==
    options.openAPI =>
        \A r \in routes :
            \/ <<r.method, r.path>> \in DOMAIN generator.paths
            \/ LET h == HandlerOf(r.handler)
               IN  \/ ~h.documented
                   \/ Len(h.wraps) >= MaxDepth
                   \/ \E i \in DOMAIN h.wraps : h.wraps[i] \notin Transparent
            \/ r.method = "CONNECT"

\* Both ways: in whatever order routers, groups and routes are set up,
\* wrapped, refused and recovered from, the document and the routes agree.
DocumentMatchesRoutes == DocumentIsServed /\ ServedIsDocumented

\* Whether call i brought type id.
Brought(i, id) ==
    log[i].name = "handle"
        /\ id \in {HandlerOf(log[i].handler).request.id,
                   HandlerOf(log[i].handler).response.id}

\* Name n, in entry k, leads to the schema of type id, or to that of a type
\* of the same name that came first.
LeadsTo(n, id, k) ==
    LET found == generator.schemas[n]
    IN  \/ found = id
        \/ found \in BuiltIn
        \/ \E j \in CallsFor(k) : \E i \in 1..j : Brought(i, found)

\* Every reference leads to a schema of the document, and the schema an
\* operation names is that of its type, unless an earlier route brought
\* another type of that name: another package's, another slice, or the
\* generator's own.  Its responses are its own, unless the caller gave it a
\* map, which another operation may have filled.
RefsMeanTheirTypes ==
    \A k \in DOMAIN generator.paths :
        LET entry == generator.paths[k]
            map == generator.maps[entry.op.responses]
        IN  /\ RefsOf(generator, entry) \subseteq DOMAIN generator.schemas
            /\ \A n \in entry.op.body : LeadsTo(n, entry.request, k)
            /\ \/ entry.op.responses <= Len(CallerMaps)
               \/ \A s \in DOMAIN map : LeadsTo(map[s], entry.response, k)

\* A name stands for one type for good; the exception is a type of the
\* program called like a part of Problem, which registerProblemSchema
\* overwrites if Problem comes later.
SchemaKept(n) ==
    /\ n \in DOMAIN generator'.schemas
    /\ \/ generator'.schemas[n] = generator.schemas[n]
       \/ n \in ProblemParts /\ "Problem" \notin DOMAIN generator.schemas

\* What a route once said of a tag.
TagKept(n) ==
    \A f \in TagFields :
        generator.tags[n][f] # "" =>
            /\ n \in DOMAIN generator'.tags
            /\ generator'.tags[n][f] = generator.tags[n][f]

\* No route takes back or rewrites what another has said of a schema, or of
\* a tag, whatever the order of registration.
DocumentOnlyGrows ==
    [][/\ \A n \in DOMAIN generator.schemas : SchemaKept(n)
       /\ \A n \in DOMAIN generator.tags : TagKept(n)]_vars
=============================================================================
