------------------------------- MODULE Chain --------------------------------
(***************************************************************************)
(* middleware.BuildChain and the way of one request through the chain it   *)
(* builds, down to the mux and an endpoint.  What each middleware does to  *)
(* the request it passes on, to the header of the response, and what it    *)
(* answers itself.  Stack models the goroutines of Timeout and Throttle,   *)
(* Writers what becomes of bodies, RateLimit the counting: here Timeout    *)
(* and ETag are two places that hold a header back, and the decisions of   *)
(* RateLimit and Throttle are left open.                                   *)
(***************************************************************************)
EXTENDS Negotiation, FiniteSets, TLC

CONSTANTS Configs,         \* what BuildChain is given
          RequestsFor(_),  \* the requests a chain is tried with
          Bucket           \* CanonicalizeIP, on the addresses

VARIABLES config,
          chain,    \* the middlewares, outermost first
          pc,
          request,  \* as it arrived
          seen,     \* what the middlewares made of it
          at,       \* the place in the chain it has reached
          header,   \* the response header: what is set, and where
          key,      \* the key RateLimit counted it under
          answer

vars == <<config, chain, pc, request, seen, at, header, key, answer>>

(***************************************************************************)
(* BuildChain.                                                             *)
(***************************************************************************)
\* The anchors, in chain order.
Order ==
    <<"recover", "timeout", "strip_slashes", "redirect_slashes", "real_ip",
      "request_id", "secure_headers", "rate_limit", "throttle", "etag",
      "compress", "cors", "service_desc", "logging">>

Anchors == Range(Order)

\* What a program can configure, and what net/http can hand to a handler.
Ranges == Seq([range: STRING, q: Seq(STRING)])

ASSUME ConfigsAssumption ==
    \A c \in Configs :
        /\ c.stages \subseteq Anchors
        /\ c.extras \in Seq([before: STRING, after: STRING])
        /\ c.trust \in Seq([any: BOOLEAN, proxies: SUBSET STRING])

\* Every address has a bucket; what is no address stands for none.
ASSUME RequestsAssumption ==
    \A c \in Configs : \A r \in RequestsFor(c) :
        /\ r.slashes \in Nat
        /\ r.encodings \in Ranges /\ r.accept \in Ranges
        /\ r.forwarded \in Seq(DOMAIN Bucket \cup {"", "unknown"})
        /\ r.xff \in Seq(DOMAIN Bucket \cup {""})
        /\ r.xreal \in DOMAIN Bucket \cup {""}
        /\ r.remote \in DOMAIN Bucket

\* validateExtraMiddleware, on an entry with a Before and an After, "" if
\* not set.
ValidExtra(extra) ==
    /\ (extra.before = "") # (extra.after = "")
    /\ extra.before \in Anchors \cup {""}
    /\ extra.after \in Anchors \cup {""}

Panics ==
    \/ {"strip_slashes", "redirect_slashes"} \subseteq config.stages
    \/ \E i \in DOMAIN config.extras : ~ValidExtra(config.extras[i])

Stage(name) == [stage |-> name, extra |-> 0]

\* The entries of Extra set before an anchor, or after it, in their order.
Extras(side, anchor) ==
    FoldLeftDomain(LAMBDA links, i :
                      IF config.extras[i][side] = anchor
                      THEN Append(links, [stage |-> "extra", extra |-> i])
                      ELSE links,
                   <<>>, config.extras)

\* Mutant of AppendStage: the extras of a stage that is off are dropped.
AppendStageWithExtras(links, anchor) ==
    IF anchor \notin config.stages THEN links
    ELSE links \o Extras("before", anchor)
               \o <<Stage(anchor)>>
               \o Extras("after", anchor)

\* appendStage.
AppendStage(links, anchor) ==
    links \o Extras("before", anchor)
          \o (IF anchor \in config.stages THEN <<Stage(anchor)>> ELSE <<>>)
          \o Extras("after", anchor)

NoAnswer == [status |-> 0, by |-> 0, header |-> {}, location |-> "none"]

Init ==
    /\ config \in Configs
    /\ chain = <<>>
    /\ pc = "build"
    /\ request = "none" /\ seen = "none"
    /\ at = 0
    /\ header = {}
    /\ key = "none"
    /\ answer = NoAnswer

BuildChain ==
    /\ pc = "build"
    /\ IF Panics THEN pc' = "panicked" /\ UNCHANGED chain
       ELSE pc' = "ready" /\ chain' = FoldLeft(AppendStage, <<>>, Order)
    /\ UNCHANGED <<config, request, seen, at, header, key, answer>>

\* Where a stage is, 0 if it is left out.
Place(name) ==
    LET places == {i \in DOMAIN chain : chain[i] = Stage(name)}
    IN  IF places = {} THEN 0 ELSE CHOOSE i \in places : TRUE

(***************************************************************************)
(* The way down.                                                           *)
(***************************************************************************)
Receive ==
    /\ pc = "ready"
    /\ request' \in RequestsFor(config)
    /\ seen' = [path |-> request'.path, slashes |-> request'.slashes,
                ip |-> "", gzip |-> FALSE]
    /\ at' = 1
    /\ pc' = "down"
    /\ UNCHANGED <<config, chain, header, key, answer>>

\* What the links do: each is enabled at its own place.
At(name) == pc = "down" /\ at <= Len(chain) /\ chain[at].stage = name

\* header.Set and header.Add, here.
Set(names) == {[name |-> n, at |-> at] : n \in names}

\* next.ServeHTTP with request q, names set in the header.
Forward(q, names) ==
    /\ at' = at + 1
    /\ seen' = q
    /\ header' = header \cup Set(names)
    /\ UNCHANGED <<config, chain, pc, request, answer>>

\* A response with what is in the header and what is set now.
Answer(status, names, location) ==
    /\ pc' = "done"
    /\ answer' = [status |-> status, by |-> at, header |-> header \cup Set(names),
                  location |-> location]
    /\ UNCHANGED <<config, chain, request, seen, at, header>>

\* Recover, Timeout and ETag do their work when the answer is there: see
\* Fail, Expire and Cut.  What Logging writes is in Writers.
Enter ==
    /\ \E s \in {"recover", "timeout", "etag", "logging"} : At(s)
    /\ Forward(seen, {}) /\ UNCHANGED key

\* URL.Path without its last slash; RawPath no longer fits it, so that an
\* escaped slash in it is one like any other.
TrimSlash(q) ==
    [q EXCEPT !.slashes = @ - 1,
              !.path = IF @ = "escaped" THEN "unescaped" ELSE @]

\* The root path is its slash, and stays.
EndsInSlash(q) == q.slashes > (IF q.path = "root" THEN 1 ELSE 0)

\* Mutant of StripSlashes: the request itself is passed on.
StripSlashesForgotten ==
    At("strip_slashes") /\ Forward(seen, {}) /\ UNCHANGED key

StripSlashes ==
    /\ At("strip_slashes")
    /\ Forward(IF EndsInSlash(seen) THEN TrimSlash(seen) ELSE seen, {})
    /\ UNCHANGED key

RedirectSlashes ==
    /\ At("redirect_slashes")
    /\ IF ~EndsInSlash(seen) THEN Forward(seen, {})
       ELSE Answer(308, {"Location"}, TrimSlash(seen).path)
    /\ UNCHANGED key

(***************************************************************************)
(* RealIP.                                                                 *)
(***************************************************************************)
\* WithTrustedProxies adds networks, WithTrustAnyProxy forgets them.
ApplyOption(c, option) ==
    IF option.any THEN [all |-> TRUE, proxies |-> {}]
    ELSE [all |-> FALSE, proxies |-> c.proxies \cup option.proxies]

Trust == FoldLeft(ApplyOption, [all |-> FALSE, proxies |-> {}], config.trust)

\* Mutant of Trusts: any peer, once a network is given.
TrustsAny(peer) == TRUE

Trusts(peer) == Trust.all \/ Trust.proxies = {} \/ peer \in Trust.proxies

\* The "for" of the first hop of Forwarded, the first X-Forwarded-For,
\* X-Real-IP.
Forwarded(r) ==
    LET for == IF r.forwarded = <<>> THEN "" ELSE Head(r.forwarded)
        xff == IF r.xff = <<>> THEN "" ELSE Head(r.xff)
    IN  IF for \notin {"", "unknown"} THEN for
        ELSE IF xff # "" THEN xff
        ELSE r.xreal

\* A RemoteAddr without a port is no address for SplitHostPort.
RealIP ==
    /\ At("real_ip")
    /\ LET named == IF Trusts(request.remote) THEN Forwarded(request) ELSE ""
       IN  Forward([seen EXCEPT !.ip = IF named # "" THEN named
                                     ELSE IF request.port THEN request.remote
                                     ELSE ""], {})
    /\ UNCHANGED key

\* The id is the client's or a new one; only that there is one matters here.
RequestID ==
    At("request_id") /\ Forward(seen, {"X-Request-Id"}) /\ UNCHANGED key

SecureHeaders ==
    At("secure_headers") /\ Forward(seen, {"X-Content-Type-Options"}) /\ UNCHANGED key

\* defaultRateLimitKey; the counter fails, denies or allows.
RateLimit ==
    /\ At("rate_limit")
    /\ key' = Bucket[IF seen.ip # "" THEN seen.ip ELSE request.remote]
    /\ \/ Answer(503, {}, "none")
       \/ Answer(429, {"X-RateLimit-Limit", "Retry-After"}, "none")
       \/ Forward(seen, {"X-RateLimit-Limit"})

\* Refused, served, or given up because its context is done: then nothing
\* is written, which is an empty 200 once all have returned.  A client is
\* there to get it only if the context was Timeout's.
Throttle ==
    /\ At("throttle")
    /\ \/ Answer(429, {}, "none")
       \/ Answer(200, {}, "none")
       \/ Forward(seen, {})
    /\ UNCHANGED key

Compress ==
    /\ At("compress")
    /\ Forward([seen EXCEPT !.gzip = AcceptsGzip(request.encodings) /\ ~request.range],
             {})
    /\ UNCHANGED key

(***************************************************************************)
(* CORS, ServiceDesc, the application's own.                               *)
(***************************************************************************)
IsAllowedOrigin(origin) == {"*", origin} \cap config.origins # {}

CORSHeader ==
    {"Vary", "Access-Control-Allow-Methods"}
    \cup (IF request.origin # "" /\ IsAllowedOrigin(request.origin)
          THEN {"Access-Control-Allow-Origin"} ELSE {})

IsPreflight(r) == r.method = "OPTIONS" /\ r.asks

\* Mutant of CORS: every OPTIONS is answered.
CORSAnyOptions ==
    /\ At("cors")
    /\ IF request.method = "OPTIONS" THEN Answer(204, CORSHeader, "none")
       ELSE Forward(seen, CORSHeader)
    /\ UNCHANGED key

CORS ==
    /\ At("cors")
    /\ IF IsPreflight(request) THEN Answer(204, CORSHeader, "none")
       ELSE Forward(seen, CORSHeader)
    /\ UNCHANGED key

ServiceDesc ==
    At("service_desc") /\ Forward(seen, {"Link"}) /\ UNCHANGED key

Extra ==
    /\ At("extra")
    /\ \/ Answer(403, {}, "none")
       \/ Forward(seen, {})
    /\ UNCHANGED key

\* The mux knows GET and POST of two paths: it cleans a path with doubled
\* slashes, and takes an escaped slash for a letter.
MuxStatus(q, method) ==
    IF q.slashes > 1 THEN 301
    ELSE IF q.slashes = 1 \/ q.path \notin {"users", "unescaped"} THEN 404
    ELSE IF method = "OPTIONS" THEN 405
    ELSE 200

AtMux == pc = "down" /\ at = Len(chain) + 1

Serve ==
    /\ AtMux
    /\ LET status == MuxStatus(seen, request.method)
       IN  Answer(IF status = 200 /\ ~AcceptsJSON(request.accept) THEN 406
                  ELSE status, {}, "none")
    /\ UNCHANGED key

(***************************************************************************)
(* What cuts a request short.                                              *)
(***************************************************************************)
\* The places of those that keep their own header until next returns.
Buffers ==
    {i \in {Place("timeout")} : i # 0}
    \cup {i \in {Place("etag")} :
             i # 0 /\ request.method \in {"GET", "HEAD"} /\ ~request.range}

Before(i) == {h \in header : h.at < i}

Cut(status, by, kept) ==
    /\ pc' = "done"
    /\ answer' = [status |-> status, by |-> by, header |-> kept, location |-> "none"]
    /\ UNCHANGED <<config, chain, request, seen, at, header, key>>

\* Timeout's own answer, when the request is below it.
Expire ==
    /\ pc = "down" /\ Place("timeout") # 0 /\ at > Place("timeout")
    /\ Cut(503, Place("timeout"), Before(Place("timeout")))

\* Mutant of Fail: ETag hands on the header it holds when next panics.
FailFlushing ==
    /\ AtMux \/ At("extra")
    /\ IF Place("recover") = 0 \/ at < Place("recover") THEN Cut(0, 0, {})
       ELSE Cut(500, Place("recover"), header)

\* An endpoint or an extra panics.  Recover writes its problem on the header
\* as the outermost buffer left it; without it the connection is dropped.
Fail ==
    /\ AtMux \/ At("extra")
    /\ IF Place("recover") = 0 \/ at < Place("recover") THEN Cut(0, 0, {})
       ELSE Cut(500, Place("recover"),
                {h \in header : \A b \in Buffers : h.at < b \/ at < b})

Down ==
    \/ Enter \/ StripSlashes \/ RedirectSlashes \/ RealIP \/ RequestID
    \/ SecureHeaders \/ RateLimit \/ Throttle \/ Compress \/ CORS
    \/ ServiceDesc \/ Extra \/ Serve

Next == BuildChain \/ Receive \/ Down \/ Expire \/ Fail

Spec == Init /\ [][Next]_vars

-----------------------------------------------------------------------------
(***************************************************************************)
(* Properties.                                                             *)
(***************************************************************************)
Built == pc \in {"ready", "down", "done"}
Done == pc = "done" /\ answer.status # 0
AnsweredBy(s) == answer.by \in DOMAIN chain /\ chain[answer.by] = Stage(s)

\* Where BuildChain's documentation puts a link: a third before its anchor,
\* at it, or a third after.
Rank(link) ==
    LET index(a) == CHOOSE i \in DOMAIN Order : Order[i] = a
    IN  IF link.extra = 0 THEN 3 * index(link.stage)
        ELSE LET e == config.extras[link.extra]
             IN  IF e.before # "" THEN 3 * index(e.before) - 1
                 ELSE 3 * index(e.after) + 1

\* Every stage that is on and every extra is in the chain once, each in its
\* place whatever else is on, and the extras of one place in the order of
\* the list; a configuration that names no place, or two, builds nothing.
ExtrasKeepPlace ==
    Built =>
        /\ ~Panics
        /\ Range(chain) =
              {Stage(s) : s \in config.stages}
              \cup {[stage |-> "extra", extra |-> i] : i \in DOMAIN config.extras}
        /\ \A i, j \in DOMAIN chain : i < j =>
              \/ Rank(chain[i]) < Rank(chain[j])
              \/ /\ Rank(chain[i]) = Rank(chain[j])
                 /\ chain[i].extra < chain[j].extra

\* What a middleware says of every response it says of the responses of all
\* below it, the refusals included; only a deadline, and a panic behind
\* Timeout or ETag, take it away again.  A stage outside of which the answer
\* was made says nothing of it.
MarkOf ==
    [s \in {"request_id", "secure_headers", "cors", "service_desc"} |->
        CASE s = "request_id" -> "X-Request-Id"
          [] s = "secure_headers" -> "X-Content-Type-Options"
          [] s = "cors" -> "Vary"
          [] s = "service_desc" -> "Link"]

HeadersReachAnswer ==
    Done =>
        \A s \in DOMAIN MarkOf \cap config.stages :
            LET carried == \E h \in answer.header : h.name = MarkOf[s]
                timed == AnsweredBy("timeout")
                failed == answer.status = 500
            IN  carried <=>
                    IF timed THEN Place(s) < Place("timeout")
                    ELSE IF failed
                    THEN at > Place(s) /\ \A b \in Buffers : at <= b \/ Place(s) < b
                    ELSE answer.by > Place(s) \/ AnsweredBy(s)

\* RateLimit counts a request under the client a trusted proxy names, and
\* under its peer if it comes from elsewhere once a network is named,
\* whatever its headers say.
KeyIsClient ==
    key # "none" =>
        LET nets == UNION {config.trust[i].proxies : i \in DOMAIN config.trust}
            last == config.trust[Len(config.trust)]
            strict == config.trust # <<>> /\ ~last.any /\ last.proxies # {}
        IN  /\ "real_ip" \notin config.stages => key = Bucket[request.remote]
            /\ strict /\ request.remote \notin nets => key = Bucket[request.remote]
            /\ key # Bucket[request.remote] =>
                  \E name \in Range(request.forwarded) \cup Range(request.xff)
                                \cup {request.xreal} :
                      name \in DOMAIN Bucket /\ key = Bucket[name]

\* With StripSlashes one slash at the end makes no difference to what the
\* mux finds, with RedirectSlashes it leads the client to the same path
\* without it, and nobody away from the root; not so if the path has an
\* escaped slash, or more than one at its end.
SlashMakesNoDifference ==
    Done /\ request.path # "escaped" /\ request.slashes <= 1 =>
        /\ {"strip_slashes", "redirect_slashes"} \cap config.stages # {}
           /\ answer.by = Len(chain) + 1 =>
              answer.status \in
                  {406, MuxStatus([path |-> request.path, slashes |-> 0],
                                  request.method)}
        /\ answer.status = 308 => answer.location = request.path
        /\ request.path = "root" => answer.status # 308

\* A preflight never gets past CORS, and no other OPTIONS is answered by
\* it; what the browser may read is decided by the list.
OnlyPreflightsAreAnswered ==
    Done /\ "cors" \in config.stages =>
        /\ answer.status = 204 <=>
              IsPreflight(request) /\ AnsweredBy("cors")
        /\ IsPreflight(request) => answer.by <= Place("cors")
        /\ (\E h \in answer.header : h.name = "Access-Control-Allow-Origin") =>
              /\ request.origin # ""
              /\ {"*", request.origin} \cap config.origins # {}

\* gzip and JSON are what the most specific range in the header makes of
\* them, the first one if there are several.
NegotiationIsExact ==
    Done /\ answer.by = Len(chain) + 1 =>
        /\ seen.gzip <=>
              /\ "compress" \in config.stages
              /\ Accepted(request.encodings, CodingSpecificity)
              /\ ~request.range
        /\ answer.status = 406 =>
              request.accept # <<>> /\ ~Accepted(request.accept, MediaSpecificity)
        /\ answer.status = 200 =>
              request.accept = <<>> \/ Accepted(request.accept, MediaSpecificity)
=============================================================================
