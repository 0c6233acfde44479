------------------------------- MODULE Patch --------------------------------
(***************************************************************************)
(* patch.From (httpx/patch/patch.go): a PATCH handler made of a GET and a  *)
(* PUT handler of the same resource.  It reads the resource through the    *)
(* GET, checks the client's own conditions against what it read, applies   *)
(* the patch, and writes the result through the PUT with the validators of *)
(* what it read as the PUT's conditions.  Other requests run meanwhile.    *)
(*                                                                         *)
(* The GET and PUT handlers are the application's.  What From relies on:   *)
(* each reads, or checks and writes, the resource in one step (a lock held *)
(* for the whole handler, as in examples/cmd/patch); the GET may be        *)
(* wrapped in ETag, which answers If-None-Match, and in Compress; the PUT  *)
(* creates what does not exist, may call precondition.Check, and may       *)
(* refuse the body for reasons of its own.  Tags stand for content: the    *)
(* hash of ETag is taken to be free of collisions.                         *)
(***************************************************************************)
EXTENDS Documents, Precondition

CONSTANTS Clients,     \* connections, one request at a time each
          Requests,    \* what they may ask
          Tagging,     \* the ETag of the GET: "none", "weak" or "strong"
          Dated,       \* whether the GET sends Last-Modified
          Compressed,  \* whether the GET is wrapped in Compress
          PutChecks,   \* whether the PUT calls precondition.Check
          Require,     \* the Config.Require it passes
          MaxTime,     \* bound on the clock
          NoResponse   \* no internal GET is being used

ETags == [weak: BOOLEAN, of: Docs]

AllRequests ==
    [method: {"PUT", "PATCH"},
     ifMatch: {NoHeader, Star} \cup SUBSET ETags,
     ifUnmodifiedSince: {NoHeader, Unreadable} \cup Nat,
     ifNoneMatch: {NoHeader, Star} \cup SUBSET ETags,
     gzip: BOOLEAN,
     patch: Patches,   \* the body of a PATCH
     body: Docs]       \* the body of a PUT

ASSUME RequestsAssumption == Requests \subseteq AllRequests
ASSUME SiteAssumption ==
    /\ Tagging \in {"none", "weak", "strong"}
    /\ {Dated, Compressed, PutChecks, Require} \subseteq BOOLEAN
    /\ MaxTime \in Nat
ASSUME MarkersAssumption ==
    /\ \A tags \in SUBSET ETags : tags \notin {NoHeader, Star}
    /\ NoHeader # Star
    /\ NoHeader \notin Nat /\ Unreadable \notin Nat /\ Untracked \notin Nat
    /\ NoETag \notin ETags

VARIABLES doc,      \* the resource, or Missing
          mtime,    \* when it was last written
          now,      \* the server's clock, in ticks
          request,  \* each client's request
          pc,       \* where its handler is
          got,      \* the buffered response of the internal GET
          merged,   \* the body of the internal PUT
          status    \* what the last request was answered

vars == <<doc, mtime, now, request, pc, got, merged, status>>

Init ==
    /\ doc \in Docs \cup {Missing}
    /\ mtime = 0
    /\ now = 0
    /\ request \in [Clients -> Requests]
    /\ pc = [c \in Clients |-> "idle"]
    /\ got = [c \in Clients |-> NoResponse]
    /\ merged = [c \in Clients |-> Missing]
    /\ status = [c \in Clients |-> "none"]

(***************************************************************************)
(* The resource's validators.                                              *)
(***************************************************************************)
\* Mutant of ETagOf: every tag is marked weak.
ETagOfWeak(d) ==
    IF d = Missing \/ Tagging = "none"
    THEN NoETag
    ELSE [weak |-> TRUE, of |-> d]

ETagOf(d) ==
    IF d = Missing \/ Tagging = "none"
    THEN NoETag
    ELSE [weak |-> Tagging = "weak", of |-> d]

LastModifiedHeader ==
    IF Dated THEN Second(mtime) ELSE NoHeader

\* parseLastModified: the header is a whole second, or absent.
ParseLastModified(header) ==
    IF header = NoHeader THEN Untracked ELSE header * TicksPerSecond

\* What the PUT passes to precondition.Check.
CurrentState ==
    [etag |-> ETagOf(doc),
     lastModified |-> IF Dated /\ doc # Missing THEN mtime ELSE Untracked]

\* ETag's ifNoneMatchMatches: weak comparison.
IfNoneMatchMatches(header, etag) ==
    \/ header = Star
    \/ /\ header \notin {NoHeader, Star}
       /\ \E candidate \in header : candidate.of = etag.of

(***************************************************************************)
(* The handlers' steps.                                                    *)
(***************************************************************************)
Finish(c, code) ==
    /\ status' = [status EXCEPT ![c] = code]
    /\ pc' = [pc EXCEPT ![c] = "idle"]
    /\ got' = [got EXCEPT ![c] = NoResponse]
    /\ merged' = [merged EXCEPT ![c] = Missing]
    /\ UNCHANGED <<now, request>>

Ask(c) ==
    /\ pc[c] = "idle"
    /\ \E r \in Requests :
          /\ request' = [request EXCEPT ![c] = r]
          /\ pc' = [pc EXCEPT ![c] = IF r.method = "PUT" THEN "put" ELSE "get"]
    /\ status' = [status EXCEPT ![c] = "none"]
    /\ UNCHANGED <<doc, mtime, now, got, merged>>

\* get.ServeHTTP with a clone of the request: every header travels with it.
InternalGet(c) ==
    /\ pc[c] = "get"
    /\ UNCHANGED <<doc, mtime>>
    /\ \/ doc = Missing /\ Finish(c, "404")
       \/ /\ doc # Missing
          /\ ETagOf(doc) # NoETag
          /\ IfNoneMatchMatches(request[c].ifNoneMatch, ETagOf(doc))
          /\ Finish(c, "304")
       \/ /\ doc # Missing
          /\ \/ ETagOf(doc) = NoETag
             \/ ~IfNoneMatchMatches(request[c].ifNoneMatch, ETagOf(doc))
          /\ got' = [got EXCEPT ![c] =
                 [body |-> doc,
                  gzip |-> Compressed /\ request[c].gzip,
                  etag |-> ETagOf(doc),
                  lastModified |-> LastModifiedHeader]]
          /\ pc' = [pc EXCEPT ![c] = "merge"]
          /\ UNCHANGED <<now, request, merged, status>>

\* Mutant of Merge: the client's own conditions are not looked at.
MergeUnconditionally(c) ==
    /\ pc[c] = "merge"
    /\ Applies(request[c].patch, got[c].body)
    /\ merged' = [merged EXCEPT ![c] = Apply(request[c].patch, got[c].body)]
    /\ pc' = [pc EXCEPT ![c] = "internalput"]
    /\ UNCHANGED <<doc, mtime, now, request, got, status>>

ClientCheck(c) ==
    Check([ifMatch |-> request[c].ifMatch,
           ifUnmodifiedSince |-> request[c].ifUnmodifiedSince],
          [etag |-> got[c].etag,
           lastModified |-> ParseLastModified(got[c].lastModified)],
          FALSE)

\* From the client's conditions to the merged document: precondition.Check,
\* the request body, apply.  A body the client fails to deliver is a 400 of
\* its own, here "unread".
Merge(c) ==
    /\ pc[c] = "merge"
    /\ UNCHANGED <<doc, mtime>>
    /\ LET patch == request[c].patch
           readable == ~got[c].gzip /\ Applies(patch, got[c].body)
       IN  \/ ClientCheck(c) # "proceed" /\ Finish(c, ClientCheck(c))
           \/ ClientCheck(c) = "proceed" /\ Finish(c, "unread")
           \/ /\ ClientCheck(c) = "proceed"
              /\ patch.format = "other"
              /\ Finish(c, "415")
           \/ /\ ClientCheck(c) = "proceed"
              /\ patch.format # "other"
              /\ ~readable
              /\ Finish(c, "400")
           \/ /\ ClientCheck(c) = "proceed"
              /\ readable
              /\ merged' = [merged EXCEPT ![c] = Apply(patch, got[c].body)]
              /\ pc' = [pc EXCEPT ![c] = "internalput"]
              /\ UNCHANGED <<now, request, got, status>>

\* The validators of what was read replace the client's conditions.
PropagatedHeaders(c) ==
    [ifMatch |-> IF got[c].etag # NoETag
                 THEN {got[c].etag}
                 ELSE request[c].ifMatch,
     ifUnmodifiedSince |-> IF got[c].lastModified # NoHeader
                           THEN got[c].lastModified
                           ELSE request[c].ifUnmodifiedSince]

\* The application's PUT handler, run under its own lock.
PutHandler(c, headers, body) ==
    LET verdict == IF PutChecks
                   THEN Check(headers, CurrentState, Require)
                   ELSE "proceed"
    IN  \/ Finish(c, "422") /\ UNCHANGED <<doc, mtime>>
        \/ verdict # "proceed" /\ Finish(c, verdict) /\ UNCHANGED <<doc, mtime>>
        \/ /\ verdict = "proceed"
           /\ doc' = body
           /\ mtime' = now
           /\ Finish(c, "200")

InternalPut(c) ==
    /\ pc[c] = "internalput"
    /\ PutHandler(c, PropagatedHeaders(c), merged[c])

\* A PUT of its own, which does not go through From.
ClientPut(c) ==
    /\ pc[c] = "put"
    /\ PutHandler(c,
                  [ifMatch |-> request[c].ifMatch,
                   ifUnmodifiedSince |-> request[c].ifUnmodifiedSince],
                  request[c].body)

\* Somebody deletes the resource.
Delete ==
    /\ doc # Missing
    /\ doc' = Missing
    /\ mtime' = now
    /\ UNCHANGED <<now, request, pc, got, merged, status>>

Tick ==
    /\ now < MaxTime
    /\ now' = now + 1
    /\ UNCHANGED <<doc, mtime, request, pc, got, merged, status>>

ClientStep(c) ==
    Ask(c) \/ InternalGet(c) \/ Merge(c) \/ InternalPut(c) \/ ClientPut(c)

Next == Delete \/ Tick \/ \E c \in Clients : ClientStep(c)

Spec == Init /\ [][Next]_vars

(***************************************************************************)
(* Properties.                                                             *)
(***************************************************************************)
Responses ==
    [body: Docs,
     gzip: BOOLEAN,
     etag: ETags \cup {NoETag},
     lastModified: Nat \cup {NoHeader}]

\* Every variable holds a value of its kind.
TypeOK ==
    /\ doc \in Docs \cup {Missing}
    /\ mtime \in 0 .. now
    /\ now \in 0 .. MaxTime
    /\ request \in [Clients -> Requests]
    /\ pc \in [Clients -> {"idle", "get", "merge", "internalput", "put"}]
    /\ got \in [Clients -> Responses \cup {NoResponse}]
    /\ merged \in [Clients -> Docs \cup {Missing}]
    /\ status \in [Clients -> {"none", "200", "304", "400", "404", "412",
                               "415", "422", "428", "unread"}]

\* c's PATCH takes effect in this step.
PatchTakesEffect(c) == pc[c] = "internalput" /\ status'[c] = "200"

\* No lost update: a PATCH that succeeds has edited the document that was
\* there in the step of its PUT, whatever happened since its GET.
PatchIsAtomic ==
    [][\A c \in Clients : PatchTakesEffect(c) =>
          /\ doc # Missing
          /\ Applies(request[c].patch, doc)
          /\ doc' = Apply(request[c].patch, doc)]_vars

\* A PATCH without conditions of its own is answered 412 only when another
\* write overtook it between its GET and its PUT.
RefusedOnlyIfOvertaken ==
    [][\A c \in Clients :
          /\ request[c].method = "PATCH"
          /\ request[c].ifMatch = NoHeader
          /\ request[c].ifUnmodifiedSince = NoHeader
          /\ status[c] # "412" /\ status'[c] = "412"
          => doc # got[c].body]_vars

\* A client that leaves the conditions to From is never told to send one,
\* even by a PUT that requires them.
PatchNeedsNoCondition ==
    \A c \in Clients : status[c] = "428" => request[c].method = "PUT"

\* With dates alone an update is lost only to another write in the second of
\* the version that was read, or to a deletion.
StaleOnlyWithinSecond ==
    [][\A c \in Clients : PatchTakesEffect(c) =>
          \/ doc = Missing
          \/ doc = got[c].body
          \/ Second(mtime) = got[c].lastModified]_vars

\* The abstract view of a request: asked, done or refused.
answer ==
    [c \in Clients |->
        IF pc[c] # "idle" THEN "pending"
        ELSE IF status[c] \in {"none", "200"}
             THEN IF status[c] = "none" THEN "none" ELSE "done"
             ELSE "refused"]

CD == INSTANCE ConditionalDocument

\* Each PUT and each PATCH behaves as one conditional write.
ImplementsConditionalDocument == CD!DocumentSpec
=============================================================================
