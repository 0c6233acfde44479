# A TLA+ model of arnon

arnon is a Go framework for JSON HTTP APIs: typed endpoints on top of
`net/http.ServeMux`, Problem Details (RFC 9457) for every error, a generated
OpenAPI document, and a set of middleware. This directory holds TLA+ modules
that model it, TLC configurations that check them on small instances, and
proofs that the TLAPS proof system checks for every instance.

## 1. Inventory

Requests run concurrently, one goroutine each (two under `Timeout`). Much of the
framework is either wired up once at start, before the server runs, or
computed per request. That decides where the hard behaviour is: in the few
objects requests share, in the two goroutines of `Timeout`, in writers that wrap
writers, and in the order of the calls a program makes while it sets up.

| component | state it keeps | operations | interacts with | hard behaviour | what makes it correct |
|---|---|---|---|---|---|
| Throttle (`httpx/middleware/throttle.go`) | two buffered channels shared by all requests | three selects per request, a backlog timer, deferred receives | the request's context, which `Timeout` cancels; the handler, which may panic or never end | promotion against expiry against disconnection; tokens on every exit path | tokens exact, slot never idle beside a waiter, nobody overtakes, every wait ends |
| Timeout (`timeout.go`) | per request: buffered writer, two channels, a context | handler goroutine, select over panic, done, deadline | everything inside it in the chain runs in its second goroutine; `Recover` outside it | three events at once; a handler that goes on after the 503; an unlocked header map | one whole answer; no race; no goroutine left behind |
| RateLimit, localLimitCounter (`rate_limit.go`) | two maps of counts, the tracked window; one mutex per RateLimit, one per counter | read clock, `Get`, compare, `IncrementBy`; bulk eviction | a `LimitCounter` that may be shared | window boundaries, rounding, a counter shared by instances, calls out of order, calls that fail half way | dropping old counts is never noticed, bursts bounded, denials deserved |
| Recover (`recover.go`) | none | recovers, logs, writes a problem | whatever buffers the response below it | a panic after part of the response is out | one answer |
| ETag, Compress, Logging (`etag.go`, `compress.go`, `logging.go`) | per-request writer state machines | WriteHeader, Write, flush/close | each other, Timeout, Recover | nesting order, panics, hints, headers after the status | the client can read what the handler wrote |
| BuildChain (`chain.go`) | none | orders stages and extras | all middleware | anchors of stages that are left out | documented order |
| RealIP, CORS, content type, body limit, slashes, request id, secure headers, service desc | none | decisions on headers | rate-limit key (RealIP), the mux (slashes, CORS) | precedence of sources, order in the chain | tables, and that their headers reach every answer |
| Patch, Precondition (`httpx/patch`, `httpx/precondition`) | none of their own; the resource's | GET, check, apply, PUT | the application's GET and PUT handlers, ETag | another writer between GET and PUT; weak or coarse validators | no lost update when PUT checks atomically |
| Router, Group (`httpx/routing`) | middleware lists, mux, registrar | Use, Group, Handle, verbs, ServeHTTP | OpenAPI generator | order of registration calls; panics half way | what is served is what is documented |
| OpenAPI generator (`openapi/generator.go`, `problem.go`) | one document, tag and schema maps | Register, Generate | Router | shared maps and slices, name collisions | the document describes the routes |
| Endpoint pipeline (`httpx/endpoint.go`, `binding`, `responder.go`, `problem_*.go`) | none | accept, bind, sanitize, validate, handle, write | Sanitize, Validation, Problem | several sources fail at once; one field with several sources | one answer that names every fault |
| Sanitize, Validation registries | global maps, a lazily built default validator | register, look up, build | Endpoint, OpenAPI | registration after first use, lazy seeding | every user of a tag sees the same rule |
| Problem | value objects | constructors, Clone | all of the above | shared extension maps | a clone is independent |
| OpenAPI/docs handlers, NoCache, observability, examples, scripts | none, or a library's | output and wiring | | | not modelled, see section 8 |

`PROJECT.json` lists the hazards of this code at the lines where they bite, with
the properties that cover them; those without a property say why.

## 2. Modules

| module | what it is |
|---|---|
| `AdmissionQueue` | abstract: a concurrency limiter with a bounded waiting line |
| `Throttle` | `throttle.go`, all requests at once; implements `AdmissionQueue` |
| `Timeout` | `timeout.go`, one request |
| `Stack` | composes `Throttle` with the goroutine of `Recover` and `Timeout` outside it |
| `SlidingWindow` | the rate `checkRateLimit` computes from two counts, and its limit |
| `Limiter` | `RateLimit` over an external counter that instances share and that may fail |
| `RateLimit` | `checkRateLimit` and `localLimitCounter`; implements `Limiter` for one instance |
| `ConditionalDocument` | abstract: a document with conditional, atomic PUT and PATCH |
| `Documents` | the documents and patches of `format.go` |
| `Precondition` | `precondition.go`, as operators |
| `Patch` | `patch.go` among other writers; composes the two above, implements `ConditionalDocument` |
| `Writers` | the response writers of Recover, Timeout, ETag, Compress and Logging, nested |
| `Negotiation` | `accept.go` and `acceptsGzip` against what RFC 9110 asks for |
| `Chain` | `BuildChain` and a request's way down the chain it built; uses `Negotiation` |
| `OpenAPI` | the generator, as operators from one document to the next |
| `Routing` | router and groups at start-up; composes `OpenAPI` |
| `Registries` | custom rules, default validator, sanitizers, and when an endpoint is built |
| `Endpoint` | the pipeline of one request while registration goes on; composes `Registries` |
| `MC…` | the instances for TLC, one for each module with a run |
| `…Proofs` | the proofs about `Timeout`, `Stack` (with `Throttle`), `RateLimit`, `Patch`, `Writers`, `Routing`, `Endpoint` and `Chain` |

Definitions headed *Mutant of X* are X with a bug a programmer could have made
there. They are used by no specification; replacing X by one of them makes TLC
report the property paired with it in `PROJECT.json`, which shows that the
property can fail.

### Throttle

A member of `Requests` is a connection that sends request after request. `pc`
says which select or deferred call the request is at; `active` and `backlog`
count the tokens in the two channels; `parked` is the queue of goroutines the
Go runtime keeps blocked on `active`.

| code | action |
|---|---|
| first `select` (55) | `TryActive` |
| nil test, second `select`, timer start (69-86) | `TryBacklog` |
| third `select` (88) | `Select`: any ready case, else park |
| `ServeHTTP` returns or panics | `HandlerEnds` |
| deferred `<-active` | `ReleaseActive`: hands the token to the first parked sender |
| deferred `timer.Stop`, `<-backlog` | `ReleaseBacklog` |
| `timer.C`, `Context().Done()` | `TimerFires`, `ClientGone`; they wake a parked request |

Two facts of the Go runtime are taken as given: parked senders are queued in
arrival order, and a receive from a full channel refills the buffer from the
first of them in the same step. A goroutine of a select is taken off the
queue when another case wakes it.

### Timeout

The handler is any program: `SetHeader`, `WriteHeader`, `Write` in any order,
then `HandlerReturns` or `HandlerPanics`, or neither, ever. `buffered` is the
`timeoutResponseWriter`, `real` the connection's writer, `wrote` a history
variable of what the handler wrote whether or not it was kept. The mutex is
held by the outer goroutine in `copying` and `answering`; the header map is
deliberately outside it, as in the code. Every ready case of the `select` may
be taken. `ChooseDone` and `CopyResponse`, and `ChooseDeadline`, `Freeze` and
`WriteTimeout`, are separate steps because the handler goroutine can run
between them.

### Stack

`BuildChain` puts Recover outside Timeout outside Throttle. A request is two
goroutines: `outer` is the one of net/http, in Timeout's select; module
`Throttle`, extended, is the one Timeout starts. `Enter` starts both, `Inner` is
any step of the second, `Expire` makes the context both share done (`gone`).
`ReplyFailed` (a re-raised panic and Recover's answer), `ReplyDone` and
`ReplyLate` are the cases of the select, any of them if several are ready. After
`ReplyLate` the outer goroutine is over and the inner one is not.

### RateLimit

Time is a pair, fixed window and ticks elapsed in it. A check is three steps,
`ReadClock`, `Get`, then `Deny` or `Allow`, and time may pass and other
instances may act between them. `trackedWindow`, `currentCounts` and
`previousCounts` are the fields of `localLimitCounter`, `EvictedCurrent` and
`EvictedPrevious` what `evict` makes of the maps. `admitted` is a history
variable: when each key's requests were allowed.

The code compares `float64`s. `ScaledRate` is the exact rate times
`WindowLength`. When the exact rate plus one equals the limit and a
fraction was involved, rounding may push it either way: both outcomes are
allowed. Otherwise the two sides differ by at least 1/WindowLength, far more
than the rounding error for realistic windows and limits. An absent map entry
and a zero are the same. The rate and its limit are in `SlidingWindow`, which
`RateLimit` and `Limiter` share.

### Limiter

`LimitCounter` is an interface, and its documentation is about stores that
several processes share. `Limiter` is the middleware over such a store, which is
external: `counts` keeps a count for every key and window, `Fetch` is `Get`, and
`Record` and `RecordFails` are `IncrementBy`. A failed one may have been recorded
or not. `Lock` is the instance's mutex and its clock: an instance reads any
instant, so clocks may differ and be set back. `granted` and `failed` are
history variables. `MaxFailures` bounds the failures of a window.

`ImplementsLimiter` maps `RateLimit` to it: what is under way is `check`, and the
counts of all windows are those of the log `admitted` (`Tally`). It says that a
counter which only keeps two windows, and clears both maps when it moves by
more than one, answers every `Get` as one that keeps them all. It is about one
instance. With several on one counter it is false, since a late call rolls the
counter back and clears it.

### Patch

A member of `Clients` is a connection that sends PUTs and PATCHes. The resource
is `doc` and `mtime`; it belongs to the application, whose handlers are
external: each reads, or checks and writes, in one step, as `store.get` and
`store.put` of `examples/cmd/patch` do under their mutex, and its PUT creates
what does not exist. Constants say what the application does: whether its GET
sends strong, weak or no tags (`Tagging`) and dates (`Dated`), whether it is
wrapped in `Compress`, whether its PUT calls `precondition.Check` and requires
a condition.

| code | action |
|---|---|
| clone of the request, `get.ServeHTTP`, `isSuccess`, `copyTo` (81-94) | `InternalGet`: 404, 304 or a buffered response in `got` |
| `CheckRequest`, `ReadAll`, `apply` (96-132) | `Merge`: 412, a body that cannot be read, 415, 400, or `merged` |
| validators onto the clone, `put.ServeHTTP` (134-148) | `InternalPut` |
| a PUT by itself, a DELETE, time | `ClientPut`, `Delete`, `Tick` |

An object gives values to some fields and a patch sets or removes one field,
which is what tells a lost update from a kept one. A tag is what it stands
for: the hash of `ETag` is taken to be free of collisions, and `ETag` to see
the body before `Compress` does. Tags of content do not tell a document from
an equal earlier one; what is promised, and checked, is about content.

### Writers

One request that meets its deadline, and any subset of Recover, Timeout, ETag
and Compress around it. Timeout and ETag hand down buffers of their own,
Compress and Logging pass calls on, so a handler's call ends in `Base`: the
innermost buffer, or the connection. `ConnWriteHeader` and `ConnWrite` are
net/http's writer (a hint is not a status, 204 and 304 take no body);
`BufferWriteHeader` and `BufferWrite` those of the two buffers, which keep the
first status whatever it is. `CompressWriteHeader`, `CompressWrite` and
`CompressClose` are `compressResponseWriter`, `Flush` is that of
`etagResponseWriter`, `CopyBuffered` the done case of Timeout, `WriteProblem` what
Recover does. `SetHeader`, `WriteHeader`, `Write`, `Return` and `Panic` are the
handler's; the last two do all that is deferred or done after `next.ServeHTTP`
at every layer, in order. The handler may call them in any order. In
particular it may set a header after its status, as it can in Go: `Header()` is
the live map of `Base`, and while net/http ignores what comes after the status,
both buffers pass it on, also over what Compress has set, and ETag decides its
304 by it. `logged` is what Logging's writer records.

Two history variables are needed to say what the handler asked for: `plain`,
the same calls on a bare connection, and `asked`, every header it set, whenever
it did. `KeptHeader` is the one of the two that can reach the client.

### Chain

`BuildChain` folds `AppendStage` over the anchors, or panics. Then one request
goes down: `at` is its place, `seen` what the middlewares have made of it, each
link is an action enabled at its own place, that calls `Forward` or `Answer`.
`header` records what is set and where, so that `Expire` (Timeout's 503) and
`Fail` (a panic) can drop what Timeout's and ETag's buffers held back. The
decisions of RateLimit and Throttle are left open here (admit, refuse, or, for
Throttle, give up without writing, which becomes an implicit 200); `Stack` and
`RateLimit` are about them. `Serve` is the mux with an endpoint. `Negotiation` holds the
folds over Accept and Accept-Encoding, and `Accepted`, what they should compute.
The extras of an anchor and the trust options are folds too (`Extras`,
`ApplyOption`), as the loops of the code are. `ConfigsAssumption` and
`RequestsAssumption` say what a program can configure and what net/http can hand
to a handler: sequences of any length, over addresses that have a bucket.

### OpenAPI and Routing

A generator is a record of paths, schemas, tags and the `Responses` maps.
A map is a reference, so that two operations may share one and `FillMap`
changes it for both. `BuildOperation`, `RegisterTags`, `RegisterSchema`,
`RegisterProblemSchema` and `Register` are the functions of the package.

`Routing` lets a program make calls in any order: `RouterUse`, `GroupUse`,
`RouterGroup`, `GroupGroup`, `RouterVerb`/`GroupVerb` and, with a pattern of
no known method, `RouterHandle`/`GroupHandle`. `RegisterRoute` documents first
and hands the pattern to the mux second; the mux may panic on a conflict, the
program may recover and go on, and the document keeps what it was told.
`FindsProvider` is `unwrapToProvider`. A group copies its parent's middlewares
when it is made and wraps a handler in its own when it is registered; the
router's are looked up at every request (`Served`). `log` is a history of the
calls, and `RoutesGoThrough` states the scope of a group with it, one level at a
time: its own middlewares and what its parent had when it was made.

### Registries and Endpoint

`RegisterCustomRule`, `RegisterFuncEnter` and `RegisterFunc` (which seeds in one
critical section and registers in another), `BuildEndpoint` (default validator
built once, then `sanitize.Prepare`, with their panics) and `RegisterRoute` (the
schema is generated from the rules of that moment) may happen in any order that
the program's goroutines allow, and go on while a request is served.

`Endpoint` is that request: `MaxBodyBytes`, `AllowContentType`, `Accept`, the four
binders (`BindFrom` thrice, `BindJSON`), `Bound`, `Sanitize`, `Validate`,
`HandlerFails` or `HandlerReturns`. A binder goes to the end whatever fails and
adds to `errors`; `Refuse` is `WriteProblem`.

A body is what its bytes are (`kind`), whether it is longer than the limit
(`over`), whether a decoder is through with it before the limit (`early`), and,
for an object, the members that fill fields (`sets`, a function on those that
are there). These are independent: a body over the limit may be any of them,
and what becomes of it depends on whether its length is known and on `early`
(`TooLong`, `CutShort`). A member counts because it is there, with the zero
value too; a text of the path, the query or a header counts if it is not empty,
since the binders skip empty ones. A handler's problem may have any of
`Problems`, 413 among them.

## 3. Runs

| run | question | instance | result |
|---|---|---|---|
| `throttle_backlog` | are the tokens exact, is the slot busy, does Throttle implement `AdmissionQueue`, does every wait end? | 3 connections, 1 slot, 2 backlog places, fairness | holds, 60,001 states |
| `timeout_answer` | one whole answer, no race, no goroutine left? | 2 headers, 2 statuses, 2 chunks, fairness | holds, 7,646 states |
| `stack` | is every request answered by what became of it, and do slots come back? | 2 requests, 1 slot, 1 place, fairness | holds, 3,706 states |
| `ratelimit_window` | are bursts bounded, does `RateLimit` implement `Limiter`? | 1 instance, 2 keys, limit 2, 3 windows of 3 ticks | holds, 235,803 states |
| `ratelimit_shared` | how far can sharing overshoot, and does it ever cost a client? | 3 instances, 1 key, limit 1, 2 windows of 2 ticks | at most 2 over, no denial undeserved, 443,320 states |
| `limiter` | what do failures and clocks of an external counter change? | 2 instances, 1 key, limit 2, 3 windows of 2 ticks, 1 failure per window | holds, 323,921 states |
| `patch_checked` | are PATCHes atomic, refusals justified, does Patch implement `ConditionalDocument`? | 2 clients, 2 fields, 30 requests, strong tags, GET in Compress, a PUT that checks and requires | holds, 134,350 states |
| `patch_dates` | what do dates alone protect from? | 2 clients, 9 requests, no tags, 2 seconds of 2 ticks | holds, 188,997 states |
| `writers` | does the client get the handler's status and headers, can it read what the handler wrote, does the log say what was sent, what is left of a panic? | all 16 subsets, 24 requests (GET, HEAD, POST, a range; lists of strong and weak tags), final codes 204 and 500, 3 header fields set at any time, 2 calls of WriteHeader, 1 chunk | holds, 11,077,680 states |
| `chain` | order of extras, headers on every answer, rate-limit key, slashes, preflights, negotiation | 2,829 configurations and up to 702 requests each | holds, 61,415 states |
| `routing` | do routes go through their middlewares, does the document describe them, and never take anything back? | 4 calls, 2 of them Handle, 2 groups, 6 handlers, 5 patterns, unwrapping 2 deep | holds, 2,074,172 states |
| `endpoint` | which value wins, are all faults reported, who is blamed, are documented rules enforced, do replaced sanitizers stay? | 3 fields, 2 texts, every text in every place and every object within the limit, bodies of every kind, 3 registrations | holds, 4,348,536 states |

Bounds. Three connections on one slot are one running and two waiting, with a
newcomer whenever one of them comes back while the others wait. Three windows
are needed to see counts become previous and then be dropped, and to skip a
window; two keys to see one key's eviction touch the other's. Limit 2 with three
ticks gives every order of the weighted rate and the limit, ties included. In
`limiter` the two instances may read any instant of three windows at any time,
and one failure in each window is enough for a failed call to take a place
another request then misses; keys do not meet there. Two requests on one slot
are the abandoned handler and the one that waits for its slot. Connections,
clients, keys and instances are symmetric; no symmetry is used in a run with a
liveness property.

Two clients give the one race there is, a writer between another's GET and
PUT; `Delete` is a third writer. Two fields with one value let two edits be
independent or conflict. Two ticks to a second give writes in the same second
and in the next. The clients' conditions are none, `*`, a tag, a list with a
weak tag, a date, and a date that does not parse.

In `writers` the codes are one that takes no body and one that is Recover's own;
200 comes with the implicit WriteHeader and 304 from ETag. Two calls of
WriteHeader give a hint before a status, a status after a status and a hint
alone. Three header fields are a compressible type, a length or an encoding that
may contradict it, and one of `policy` and the tag. In `routing` four calls are enough for every pair of Use, Group and
Handle to come in either order, and for a conflict after a success; the
handlers are a plain one, two that share a type's name (one of them an empty
Responses map), one with responses and a type named like the generator's own,
one inside CORS and one in two wrappers. `MaxDepth` is 32 in the code and 2 here,
so that the last of these is one wrapper deeper than the walk goes. In
`endpoint` the fields are a required number with a path tag that JSON may set
too (and clear: the zero value then fails `required`), a text that only the
query may set, with a custom rule, and a text with a header tag that JSON may
set, with the same rule and a sanitizer: a validation error can come from a
field with one source and from fields with two, whichever the value came from.
Bodies within the limit are absent, empty, malformed, truncated, mistyped, with
an unknown member, or any object; those over it are of every kind too, with a
known length or not, and done before the limit or not.

`MaxWindow`, `MaxFailures`, `MaxTime`, `MaxWrites`, `MaxHeaders`, `MaxCalls`, `MaxRoutes`,
`MaxGroups`, `MaxRegistrations` and the two calls of `WriteHeader` in `Writers`
are the bounds that exist for TLC alone. Where there is a proof, it holds for
any value of the constants among them.

Some readings of the comments hold only in part. `rate_limit.go:78` says "the
maximum number of requests allowed per client key within WindowLength", but
requests bunched at the end of a window weigh less than one each in the next;
what holds, and is proved, is `BurstBound`: in any stretch of d ticks, at most
RequestLimit * (1 + d / WindowLength). And `patch.go:63-66` makes the race of
GET and PUT depend only on whether the PUT checks, but a date of whole seconds
cannot tell two writes of one second apart, and a resource that does not exist
has no date to compare (`precondition.go:163`); what holds is
`StaleOnlyWithinSecond`.

The shared run's bound, `RequestLimit + Cardinality(Instances) - 1`, is per
fixed window: each instance has one check under way, and once the count is at
the limit an instance can only add the request whose check read it earlier.
`GrantsBounded` says the same of an external counter, for every window at once,
since that one is never rolled back. A counter that rolls back gives clients a
part of their allowance again; that it never costs them any is
`DeniedOnlyWhenBusy`, for any number of instances.

### Disagreements and edges the models have

These are in the models as the code has them, and the properties are stated
around them.

- Every middleware of the package but one builds its handler with `routing.Wrap`;
  CORS returns a bare `http.HandlerFunc` (`cors.go:79`), so
  `Chain(endpoint, CORS(...))` is served and left out of the document.
  `routing/doc.go:24` says that every one of them keeps the endpoint documented.
  `DocumentMatchesRoutes` makes an exception of what is not `Transparent`.
- A request promoted from the backlog keeps its place while it is served
  (`throttle.go:77`), so a newcomer can be refused with nobody waiting; the
  comment at `throttle.go:19` counts requests that wait.
- When the deadline wins, nobody receives from `panicChan`: a later panic, or one
  that loses the select, is swallowed (`timeout.go:31` says re-raised).
- A request whose context is done while it waits in the backlog is given up
  without a response (`throttle.go:100-102`). If that ends the inner goroutine
  before Timeout's select has run, both of its cases are ready, and the select
  may copy the untouched buffer: the client of a request that was never served
  gets an empty 200, where `timeout.go:17-19` promises a 503 past the deadline.
  `AnswerNamesOutcome` names this answer and says it is sent in no other case;
  it does not say that the answer is the one promised.
- `evict` rolls a shared counter back when an instance reaches it with an older
  window (`rate_limit.go:446`). With one instance the mutex rules this out.
- If-None-Match travels on the internal GET of a PATCH, which is then answered
  304; Accept-Encoding travels too, and behind Compress the patch is applied to
  gzip and refused as the client's fault (`patch.go:23-25`).
- Every buffering writer takes an informational status for the answer: after a
  103 the client gets 200 whatever follows (`HandlersAnswerWins` states it).
- A chunked body over the limit is refused only if it has to be read that far. If
  the decoder is through with it earlier, with a value or with a syntax error,
  the answer is a 200 or a 400; `body_limit.go:18-23` says that it "still ends
  up as a 413" (`FaultsAreReportedTogether` says exactly when).
- A JSON member sets its field over the path, the query and the header also
  with the zero value: `{"id": 0}` clears the path's id, and `required` then
  fails, blamed on the path (`HandlerSeesWinners`, `BlameFits`).
- A header set after the status is ignored by net/http and passed on by Timeout
  and ETag: a late Content-Length or Content-Encoding is sent over the body that
  Compress has encoded by then (`DecodesToWritten` names both), and a late ETag
  decides a 304 (`HandlersAnswerWins`).
- Logging records the status of the last WriteHeader, also one that came too
  late to be sent, and sits inside ETag, whose 304 it does not see
  (`LogIsAnswer`).
- ETag's flush adds headers where Timeout replaces them: a header set on both
  sides of ETag arrives twice (`HandlersAnswerWins`).
- Without a buffer Recover's problem is appended to what is already out, under
  the encoding and length set for it (`PanicAnswerClean` says exactly when).
- A header set below Timeout or ETag is lost with a deadline or a panic, and the
  429, 503 and 308 made outside CORS carry no CORS headers (`HeadersReachAnswer`).
- `WithTrustedProxies()` with no networks trusts every peer (`KeyIsClient`).
- Stripping a slash leaves `RawPath` stale, and an escaped slash becomes one like
  any other (`SlashMakesNoDifference` excludes it).
- The comment on `RateLimitConfig.KeyFunc` says that RealIP has no
  trusted-proxy list; it has one.
- A custom rule registered after the default validator was built is documented
  and not enforced, and if its tag was unknown then, validation panics
  (`DocumentedRulesAreEnforced` is about programs that do not do this).
- A custom rule under the tag of a rule the mapper knows is enforced and
  documented as the application's, and its failure reported under the built-in
  code. And one rule nobody registered makes validation panic whatever field
  it is on, which ends the request with a 500: the property promises none only
  if every tag in use has a rule.

## 4. Fairness

`Throttle`, `Timeout` and `Stack` assume weak fairness of the steps a runnable
goroutine takes by itself (the Go scheduler runs every runnable goroutine, and
a select with a ready case proceeds), and of timers and deadlines (a started
timer fires). Nothing is assumed of handlers, clients, or of which ready case a
select takes: `WaitEnds`, `BothGoroutinesEnd` (for a handler that ends) and
`EveryRequestAnswered` hold though handlers may never end. `SlotsComeBack` names
its own assumption, `HandlersHonourContext`, as an antecedent: a handler whose
context is done ends.

The other modules have no liveness property. `Timeout`, `Writers`, `Chain`,
`Routing` and `Endpoint` stop once a request is answered or a program has made
its calls, so their runs do not check deadlock. In `Throttle`, `Stack`,
`RateLimit`, `Limiter` and `Patch` something can always happen, and it is checked.

## 5. Proofs

Everything below is proved for every value of the constants, under the named
assumptions on them.

Of the properties of the passing runs, every safety property, every action
property and all three refinements are stated by a theorem. That the
variables of a module keep their types is a part of the invariant its proofs
rest on, or a theorem (`TypeCorrect`, `WritersTyped`, `RoutingTyped`); no run asks
it. The eight modules follow the components; what two of them need is stated in
each, since they share no ancestor.

**StackProofs, first part: Throttle.** The accounting properties are not
inductive by themselves: that a hand-over keeps `active` equal to the requests
that hold a slot needs the head of `parked` to be a request that is parked,
holds no slot and appears once. `IInv` is therefore the types, both
accountings, `ParkedAreWaiting`, `NoIdleSlot`, and the relation between `pc` and
`timer`. From it follow `AccountingIsExact`, `ConcurrencyBounded`,
`WorkConserving`, `OnlyWaitersAreParked` and, as an action property,
`ServedInOrder`. `Refinement` maps every step to a `Start`, `Join`, `Leave` or
`Finish` of `AdmissionQueue` or to a stutter; the line is bounded because every
parked request holds a backlog token. The counting steps rest on the library's
facts on finite sets, the steps on `parked` on lemmas about removal, tails and
appending stated once.

**StackProofs, second part: the stack.** `ThrottleInside` shows that every step
of `Stack` is one of `Throttle` or leaves it alone, so that what is proved of
`Throttle` holds of its goroutines here (`StackAccountingIsExact`).
`AnswersNameOutcome` needs two facts about the inner goroutine: by the time it is
over its `outcome` is settled (`OverMeansOutcome`), and it leaves only if its
context is done (`OutcomeTells`). `SlotsOutliveAnswers` needs that a parked
request's context is not done, which is part of Throttle's invariant: a done
one is taken off the queue at once.

**TimeoutProofs.** `OneOutcome` speaks of the end. `IInv` adds what holds on the
way: until the deadline freezes it, the buffered writer mirrors `wrote`; the
real writer is clean until the answer; `done` is closed only after the handler
is over; and a handler's answer, once sent, is stable because the handler has
ended. `OutcomeIsOne` and `HeaderMapIsSafe` follow. `TypeCorrect` needs that
each of the two sends on the panic channel happens at most once, and that a
body grows by appending.

**RateLimitProofs.** First with one instance (`SingleInstance`). `KeyInv` ties
the two counts of a key to the end of its log; `FreshCheck` says that the
snapshot of a check under way is still what the maps say, which is what the
mutex is for. The arithmetic with a variable window length is nonlinear, so
products get lemmas of their own. `BurstAppend` is the heart: a stretch that
ends with the new request starts in this window, in the previous one, or is
longer than a window, and the comparison bounds the first two.
`CountsAreExact` and `BurstsAreBounded` follow.

Then with any finite number of instances (`InstancesAssumption`) that share the
counter. The bound on the count is not inductive: an instance that read a count
below the limit will still add to it. `SharedInv` therefore bounds the count
plus the number of such checks (`Pending`, `Reserved`). A new snapshot joins
them only while the count is below the limit, when there is room for all the
others; `Allow` turns one of them into one more on the count; a new window
clears the count of whatever is older. `OvershootIsBounded` follows.
`DenialsAreJustified` cannot use that the counts equal the log, because a
rollback loses some. It needs one direction only: neither the maps nor a
snapshot ever say more than the log does (`EarnedInv`), whichever window `evict`
is asked for.

Then the external counter. `LimiterInv` is the argument of `SharedInv` for every
window at once: a check whose snapshot is below the limit holds a place
(`Holders`, `Held`), and `Record`, or a failure that was recorded, turns the
place into a count. `Accounted` keeps the counts between the two histories, and
`Past` keeps snapshots below the counts, which only grow. `GrantsAreBounded` and
`RefusalsArePaid` follow.

`ImplementsLimiterTheorem` needs that both answers of `Get` are the tally of the
log (`CountsAreTallies`). By `KeyInv` the end of a key's log is a block of the
window asked for, before it a block of the previous one, before it only older
instants, so the sizes of the blocks are the tallies. `Allow` adds one to one
entry of the tally, and no other step changes it.

**PatchProofs.** `TypeCorrect` holds for every application. The rest is first
about `CheckedSite`: strong tags, a PUT that checks. `Inv` ties what a handler
remembers to what it read: the tag in `got` is the tag of its body, `merged` is
the patch applied to that body, and the client's condition was met by that
tag. `PutSeesWhatGetRead` is the heart: a tag tells its document from every
other, and matches nothing when the resource is gone, so the PUT goes ahead
exactly when the document is the one that was read. From it follow
`PatchesAreAtomic`, `RefusalsAreJustified` (the other direction),
`ConditionsAreSupplied`, and `PatchRefinesDocument`, for which the client's
condition, met by the document that was read, is met by the one that is there.

`UpdatesLostWithinSecond` is about `DatedSite`: a GET that sends dates, whatever
it does about tags, and a PUT that checks. The invariant adds that a date read
is not later than the resource's own, since the clock does not go back
(`SecondsGrow`): a PUT that goes ahead on the date has then found a resource
written in the very second that was read, or none.

**WritersProofs.** For every set of final codes and of requests, any number of
chunks and header fields, and all sixteen subsets.
`PanicAnswerIsWhole` needs the connection while the handler runs: with a buffer
nothing has reached it (`BuffersKeep`); without one it has the status and the
emptiness of the bare connection, the same length and encoding as long as gzip
is off, and an encoding once it is on (`ConnFollows`).

What the client gets needs more, `Delivery`. `History` says what the handler's
calls amount to on a bare connection, and what gzip has decided from them;
`BaseFollows` says that the innermost writer, whichever layer it is, holds
exactly that, gzipped or not, and that no other writer has been touched. Of the
header `KeptHeader` says what it holds; a field set after the status is the case
in which that and the bare connection part (`HeaderHistory`). The
steps of the handler keep it by one argument for all subsets, because a call
ends in `Base`. The end is the hard part: `Return` closes gzip and flushes ETag
and Timeout, in order, and each of them copies a header and a body into the
next writer. What each copy makes of status, header and body is a lemma, and
the subsets are compositions of them; whether ETag hits is the same question
for the tag it computes and for the one the handler asked for (`SameTag`).
`WritersTyped`, `HandlersAnswerReaches`, `AnswerIsReadable` and `LogIsTrue`, which
compares the log with what was sent, follow.

**RoutingProofs.** Four invariants. `DocumentAgrees`: the property is inductive
once `log` is known to be a sequence: `log` and `routes` only grow, so that an
entry of the document keeps the route or the panic behind it, and
`RegisteringCall` goes through the ways one call of Handle can end. A later
registration of an entry either makes its route or is itself in the log as
having panicked.

`ScopeInv`, for `RoutingTyped` and `ScopesNest`: one call made each group, a
group's list is in the order of the calls and holds those in its scope, and
the list of a route is fixed when it is registered. A later `Use` is later than
every call in a list, so it goes to the end of one group's and into no other's
(`InOrderAppend`), and it is in the scope of no earlier route.

`RefsInv`, for `ReferencesLead`: every response of every map of the document
refers to a schema, every schema comes from a call or from the generator
itself, and the maps that the generator made belong to one operation each. The
maps of the callers do not, which is the exception the property makes.
`HandlersAssumption` and `CallerMapsAssumption` say that a handler is known by its
id and that what a caller brings refers to nothing of the generator's.

`DocumentGrows` is an action property: no registration changes what a schema's
name stands for, or takes back what was said of a tag. registerTags is a loop
over the tags of an operation, here a fold. What a fold computes for a sequence
of any length is shown by induction on its prefixes, and the induction by the
least number for which the claim is false, which the library's facts on
well-founded orders provide without an operator parameter (`LeastElement`,
`InductionUpTo`, `Folds`).

**EndpointProofs.** `SetUp` relates the registries to the endpoint: a sanitizer
is registered only after the seeding, although `RegisterFunc` lets go of the
lock in between. `Progress` says what `errors` is at each place of the pipeline,
the faults of the sources passed so far, and `Verdict` what the answer made of
it; `Filled` says the same of `dto`, each source over the one before. All four
are `InductiveInvariant`. `ReplacementsStay`, `FaultsTogether` and
`HandlerGetsWinners` follow. `TypeCorrect` adds that what binding, decoding and
sanitizing put into `dto` are values, and what an answer lists are details.
`FaultsTogether` assumes `NoRuleOverrides`: no custom rule of the application
takes the code `payload_too_large`, which would turn its failure into a 413.

`BlameIsFit` compares two orders, in which the binders write a field and in
which the mapper looks for its source; with one source they agree
(`BlamedIsASource`), with several the mapper names the first. That two fields do
not share a name is in `FieldsAssumption`, that only a field JSON may set has a
member in `RequestsAssumption`. `DocumentedIsEnforced` needs
`RulesAgree`: the validator and the document take their rules from the registry
at moments of their own, and unless a rule is registered late they took the
same.

**ChainProofs.** For every set of configurations and requests, with any number of
extras, trust options and ranges. The loops are folds, and the induction is the
one of `RoutingProofs`. `ChainIsBuilt`: every stage and extra has a rank, three
for each anchor; the links of one anchor are a part of the chain in an interval
of ranks (`IsPart`), and parts of consecutive intervals join to a part. The
whole chain then has every link once and in order, and where an extra is
follows from its rank.

For the request, `WayInv` says what is true at every place of the chain, in
terms of the links passed: the header holds what they say (`HeaderInv`), the
request is what they made of it (`SeenInv`), a preflight has not passed CORS
(`PreflightInv`), the rate-limit key is that of the client (`KeyInv`), and an
answer is one that some link gives (`Verdict`). A link is passed by one action,
enabled at its own place. `HeadersAreSent` follows by asking which headers an
answer at one place carries, `PreflightsStop`, `SlashesDoNotMatter` and
`KeysAreClients` from the part about them. `KeysAreClients` also needs what the
folds over the options and the forwarding headers find,
`NegotiationFollowsRanges` that the one pass over the ranges, which keeps the
best match so far, finds what the definition asks of all of them.

**Only model-checked.** The liveness properties, `WaitEnds`, `BothGoroutinesEnd`,
`EveryRequestAnswered` and `SlotsComeBack`: TLAPS has no rules for fairness here.

## 6. What the modules leave out

- Throttle: the content of the refusal. The body is a constant problem.
- Timeout: errors and short writes of the connection. Headers are sets of names
  here; values and informational statuses are in `Writers`.
- RateLimit: a wall clock set back over the in-memory counter, which clears it;
  a second `WindowLength` on one counter; what `OnCounterError` answers; a
  custom `KeyFunc`; the values of `X-RateLimit-*` and `Retry-After`.
- Patch: the OpenAPI description of a derived PATCH; a partial (206) answer to
  the internal GET, which From patches like a whole one; several If-Match lines,
  of which `Header.Get` sees the first; a clock set back.
- Writers: deadlines (they are in `Timeout`), `http.ResponseController` through
  `Unwrap`, write errors, the configuration of compressible types and the
  quoting of tags. A hash is taken to be one to one, a header's name is one of
  five. The handler sets each field at most once, and deletes none. For HEAD
  the body is the one the header describes; net/http sends none of it. The
  attributes of Logging's entry other than the status are left out.
- Chain: quoting and ports in Forwarded, network prefixes (a proxy is one
  address), credentials and caching in CORS, the fixed values
  SecureHeaders sets. Each middleware sets one or two headers that stand for
  all it sets.
- OpenAPI: schemas of fields and constraints of tags, parameters listed by the
  caller, component names beyond `Name()`.
- Endpoint: values are texts, the zero value of every kind is the empty one, and a
  field has one rule and one sanitizer; a body that cannot be decoded sets no
  field (one with a fault never reaches the handler); nested values, JSON pointers, the depth limits, and how the content type is parsed
  are left out. `Registries` has one endpoint.

## 7. What could follow

1. One counter used by two window lengths: the second RateLimit configures the
   length by which the first one's calls are evicted.
2. `Writers` under a deadline: `Timeout` and `Writers` composed.
3. Nested values in `Sanitize` and `FieldMap`, as recursive functions against a
   reference that works on paths.
4. The lemmas on folds, which `RoutingProofs` and `ChainProofs` both state, in a
   module of their own.

## 8. Not modelled, and why

Reflection over Go types, struct tags and the validator library; JSON, gzip and
HTTP parsing; the handlers for the OpenAPI document and the documentation page,
which encode a finished value; OpenTelemetry and slog adapters; NoCache, which
sets fixed headers; the constructors of Problem, which are tables of a status
and a text, and `Clone`; examples, scripts and assets. They are output, wiring
or other people's code, with no state or choice a model would add to.
