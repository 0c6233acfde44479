------------------------------ MODULE Writers ------------------------------
(***************************************************************************)
(* The response writers that Recover, Timeout, ETag, Compress and Logging  *)
(* put between a handler and the connection (package httpx/middleware), in *)
(* the order BuildChain nests them, for one request that meets its         *)
(* deadline.  Any subset of them is installed.                             *)
(*                                                                         *)
(* Timeout and ETag hand down a buffer of their own; Compress and Logging  *)
(* pass calls on, so the handler's calls end in the innermost buffer, or   *)
(* in the connection when there is none: Base.  A header maps a name to    *)
(* the sequence of its values, as http.Header does; a buffer's is live     *)
(* until the buffer is passed on, the connection's is settled by its       *)
(* status.  A body is a sequence of pieces.  (For HEAD net/http sends none *)
(* of it: it is then the body the header describes.)                       *)
(***************************************************************************)
EXTENDS Naturals, FiniteSets, Sequences, SequencesExt

CONSTANTS Codes,       \* the final status codes a handler writes
          Requests,    \* what the middlewares look at of a request
          MaxHeaders,  \* bound on the header fields a handler sets
          MaxWrites    \* bound on the chunks a handler writes

ASSUME CodesAssumption == Codes \subseteq 200..599
ASSUME BoundsAssumption == MaxHeaders \in Nat /\ MaxWrites \in Nat

VARIABLES config,   \* the middlewares installed
          request,  \* what of the request they look at
          writers,  \* the connection and the two buffers
          gzip,     \* compressResponseWriter: wroteHeader, compressible
          logged,   \* responseWriter.statusCode, and whether it was logged
          pc,       \* whether the handler runs or how it ended
          plain,    \* history: the same calls on a bare connection
          asked,    \* history: every header field the handler has set
          did       \* history: the calls a bare connection would not show

vars == <<config, request, writers, gzip, logged, pc, plain, asked, did>>

Early == 103                 \* http.StatusEarlyHints
Names == {"type", "encoding", "etag", "length", "policy"}
NoHeader == [n \in Names |-> <<>>]
Fresh == [header |-> NoHeader, status |-> 0, body |-> <<>>]

\* Pieces of a body: the handler's chunks, the same inside a gzip stream,
\* the end of that stream, and a problem document.
Plain(k) == <<"plain", k>>
Zipped(k) == <<"gzip", k>>
Trailer == <<"gzip", 0>>
ProblemBody == <<"problem", 0>>

\* A tag is the hash of a body, taken to be one to one, or the handler's,
\* and may be weak.
HashTag(body) == [kind |-> "hash", body |-> body, weak |-> FALSE]
OwnTag == [kind |-> "own", body |-> <<>>, weak |-> FALSE]
AnyTag == [kind |-> "any", body |-> <<>>, weak |-> FALSE]

\* "W/" in front of it.
Weak(tag) == [tag EXCEPT !.weak = TRUE]
Opaque(tag) == [tag EXCEPT !.weak = FALSE]

Tags == [kind: {"hash", "own", "any"},
         body: Seq({"plain", "gzip"} \X Nat), weak: BOOLEAN]

\* If-None-Match is a list of tags, empty if it is not sent; a lone AnyTag
\* is "*".
ASSUME RequestsAssumption ==
    Requests \subseteq [method: {"GET", "HEAD", "POST"}, range: BOOLEAN,
                        gzip: BOOLEAN, match: SUBSET Tags]

\* ETag steps aside for other methods and for ranges.
ETagApplies ==
    "etag" \in config /\ request.method \in {"GET", "HEAD"} /\ ~request.range

\* Compress steps aside unless the client takes gzip, and for ranges.
CompressApplies == "compress" \in config /\ request.gzip /\ ~request.range

BelowETag == IF "timeout" \in config THEN "timeout" ELSE "conn"
Base == IF ETagApplies THEN "etag" ELSE BelowETag

\* SecureHeaders, between Timeout and ETag, has set a header already.
Init ==
    /\ config \in SUBSET {"recover", "timeout", "etag", "compress"}
    /\ request \in Requests
    /\ writers = [w \in {"conn", "timeout", "etag"} |->
                    IF w = BelowETag
                    THEN [Fresh EXCEPT !.header["policy"] = <<"outer">>]
                    ELSE Fresh]
    /\ gzip = [wrote |-> FALSE, on |-> FALSE]
    /\ logged = [status |-> 200, done |-> FALSE]
    /\ pc = "running"
    /\ plain = Fresh
    /\ asked = NoHeader
    /\ did = [calls |-> 0, chunks |-> 0, early |-> FALSE, late |-> FALSE]

(***************************************************************************)
(* http.ResponseWriter of the connection and of the two buffers: ws is a   *)
(* state of writers, w the writer called.                                  *)
(***************************************************************************)
\* net/http: a header field set after the status is not sent.
PutHeader(ws, w, n, values) ==
    [ws EXCEPT ![w] = IF w = "conn" /\ @.status # 0 THEN @
                      ELSE [@ EXCEPT !.header[n] = values]]

\* An informational status is sent at once and is not the answer, the first
\* final one is.  Statuses 204 and 304 take no body.
ConnWriteHeader(conn, code) ==
    IF conn.status # 0 \/ code < 200 THEN conn ELSE [conn EXCEPT !.status = code]

ConnWrite(conn, pieces) ==
    LET sent == ConnWriteHeader(conn, 200)
    IN  IF sent.status \in {204, 304} THEN sent
        ELSE [sent EXCEPT !.body = @ \o pieces]

\* timeoutResponseWriter and etagResponseWriter keep the first status,
\* whatever it is.
BufferWriteHeader(buffer, code) ==
    IF buffer.status # 0 THEN buffer ELSE [buffer EXCEPT !.status = code]

BufferWrite(buffer, pieces) ==
    [BufferWriteHeader(buffer, 200) EXCEPT !.body = @ \o pieces]

PutStatus(ws, w, code) ==
    [ws EXCEPT ![w] = IF w = "conn" THEN ConnWriteHeader(@, code)
                      ELSE BufferWriteHeader(@, code)]

PutBody(ws, w, pieces) ==
    [ws EXCEPT ![w] = IF w = "conn" THEN ConnWrite(@, pieces)
                      ELSE BufferWrite(@, pieces)]

(***************************************************************************)
(* compressResponseWriter.  Its first WriteHeader, even for an             *)
(* informational status, decides; the header it changes is that of Base.   *)
(***************************************************************************)
IsCompressible(header) == header["type"] = <<"text">>

\* Mutant of StartsGzip: Accept-Encoding and Range are not looked at.
StartsGzipAlways ==
    "compress" \in config /\ ~gzip.wrote /\ IsCompressible(writers[Base].header)

StartsGzip == CompressApplies /\ ~gzip.wrote
                 /\ IsCompressible(writers[Base].header)

GzipHeader(header) ==
    [header EXCEPT !["encoding"] = <<"gzip">>, !["length"] = <<>>]

CompressWriteHeader(code) ==
    /\ gzip' = [wrote |-> TRUE, on |-> gzip.on \/ StartsGzip]
    /\ writers' =
         PutStatus(IF StartsGzip
                   THEN [writers EXCEPT ![Base].header = GzipHeader(@)]
                   ELSE writers, Base, code)

\* Write: an implicit 200 first, then the chunk, through gzip or not.
CompressWrite(chunk) ==
    LET on == gzip.on \/ StartsGzip
        ws == IF StartsGzip
              THEN [writers EXCEPT ![Base].header = GzipHeader(@)]
              ELSE writers
    IN  /\ gzip' = [wrote |-> TRUE, on |-> on]
        /\ writers' = PutBody(IF gzip.wrote THEN ws ELSE PutStatus(ws, Base, 200),
                              Base, <<IF on THEN Zipped(chunk) ELSE Plain(chunk)>>)

\* Mutant of CompressClose: the deferred Close is forgotten.
CompressCloseForgotten(ws) == ws

\* The deferred Close ends the gzip stream, on a panic too.
CompressClose(ws) == IF gzip.on THEN PutBody(ws, Base, <<Trailer>>) ELSE ws

(***************************************************************************)
(* etagResponseWriter.flush.                                               *)
(***************************************************************************)
\* Mutant of CopyHeader: Set in place of Add.
CopyHeaderSet(dst, src) ==
    [n \in Names |-> IF src[n] = <<>> THEN dst[n] ELSE src[n]]

\* copyHeader adds to what is there, maps.Copy replaces it.
CopyHeader(dst, src) == [n \in Names |-> dst[n] \o src[n]]
ReplaceHeader(dst, src) ==
    [n \in Names |-> IF src[n] = <<>> THEN dst[n] ELSE src[n]]

TagOf(buffer) ==
    IF buffer.header["etag"] = <<>> THEN HashTag(buffer.body)
    ELSE buffer.header["etag"][1]

\* The comparison is weak: "W/" on either side is ignored.
IfNoneMatchMatches(tag) ==
    \/ request.match = {AnyTag}
    \/ \E candidate \in request.match : Opaque(candidate) = Opaque(tag)

Flush(ws) ==
    LET buffer == BufferWriteHeader(ws["etag"], 200)
        copied == [ws EXCEPT ![BelowETag].header =
                                 CopyHeader(@, buffer.header)]
        tagged == [copied EXCEPT ![BelowETag].header["etag"] = <<TagOf(buffer)>>]
        replay(to) == PutBody(PutStatus(to, BelowETag, buffer.status),
                              BelowETag, buffer.body)
    IN  IF buffer.status \notin 200..299 THEN replay(copied)
        ELSE IF IfNoneMatchMatches(TagOf(buffer))
        THEN PutStatus(tagged, BelowETag, 304)
        ELSE replay(tagged)

\* Timeout's done case: copy the buffer to the connection.
CopyBuffered(ws) ==
    LET buffer == BufferWriteHeader(ws["timeout"], 200)
        headed == [ws EXCEPT !["conn"].header =
                                 ReplaceHeader(@, buffer.header)]
    IN  PutBody(PutStatus(headed, "conn", buffer.status), "conn", buffer.body)

\* WriteProblem: only Content-Type is set, on top of what is there.
WriteProblem(ws, w, code) ==
    PutBody(PutStatus(PutHeader(ws, w, "type", <<"problem">>), w, code),
            w, <<ProblemBody>>)

(***************************************************************************)
(* The handler: header fields, statuses and chunks in any order, then it   *)
(* returns or panics.  Each field is set once.                             *)
(***************************************************************************)
\* Header() of Base is the live map: what is set there after the status is
\* passed on with the rest when Base is a buffer, also over what Compress
\* has set.
SetHeader(n, v) ==
    /\ pc = "running"
    /\ asked[n] = <<>>
    /\ Cardinality({m \in Names : asked[m] # <<>>}) < MaxHeaders
    /\ asked' = [asked EXCEPT ![n] = <<v>>]
    /\ plain' = IF plain.status # 0 THEN plain
                ELSE [plain EXCEPT !.header[n] = <<v>>]
    /\ writers' = PutHeader(writers, Base, n, <<v>>)
    /\ UNCHANGED <<config, request, gzip, logged, pc, did>>

HeaderValues == {<<"type", "text">>, <<"type", "image">>,
                 <<"encoding", "own">>, <<"length", "plain">>,
                 <<"policy", "handler">>}

\* responseWriter.WriteHeader of Logging, then that of Compress.
WriteHeader(code) ==
    /\ pc = "running"
    /\ did.calls < 2
    /\ did' = [did EXCEPT !.calls = @ + 1,
                          !.early = @ \/ (code = Early /\ plain.status = 0),
                          !.late = @ \/ plain.status # 0]
    /\ plain' = ConnWriteHeader(plain, code)
    /\ logged' = [logged EXCEPT !.status = code]
    /\ CompressWriteHeader(code)
    /\ UNCHANGED <<config, request, pc, asked>>

\* Logging's writer has no Write of its own: the implicit 200 passes it by.
Write ==
    /\ pc = "running"
    /\ did.chunks < MaxWrites
    /\ did' = [did EXCEPT !.chunks = @ + 1]
    /\ plain' = ConnWrite(plain, <<Plain(did.chunks + 1)>>)
    /\ CompressWrite(did.chunks + 1)
    /\ UNCHANGED <<config, request, logged, pc, asked>>

\* Mutant of Return: Logging logs before it calls next.
ReturnUnlogged ==
    /\ pc = "running"
    /\ pc' = "returned"
    /\ logged' = [logged EXCEPT !.status = 200, !.done = TRUE]
    /\ LET closed == CompressClose(writers)
           flushed == IF ETagApplies THEN Flush(closed) ELSE closed
       IN  writers' = IF "timeout" \in config THEN CopyBuffered(flushed)
                      ELSE flushed
    /\ UNCHANGED <<config, request, gzip, plain, asked, did>>

\* The handler returns: Logging logs, Compress closes, ETag flushes and
\* Timeout copies.
Return ==
    /\ pc = "running"
    /\ pc' = "returned"
    /\ logged' = [logged EXCEPT !.done = TRUE]
    /\ LET closed == CompressClose(writers)
           flushed == IF ETagApplies THEN Flush(closed) ELSE closed
       IN  writers' = IF "timeout" \in config THEN CopyBuffered(flushed)
                      ELSE flushed
    /\ UNCHANGED <<config, request, gzip, plain, asked, did>>

\* Mutant of Panic: ETag's flush is deferred.
PanicFlushed ==
    /\ pc = "running"
    /\ pc' = "panicked"
    /\ LET closed == CompressClose(writers)
           flushed == IF ETagApplies THEN Flush(closed) ELSE closed
       IN  writers' = IF "recover" \in config
                      THEN WriteProblem(flushed, "conn", 500) ELSE flushed
    /\ UNCHANGED <<config, request, gzip, logged, plain, asked, did>>

\* A panic passes Logging, ETag and Timeout by; Compress still closes, and
\* Recover, if installed, writes a problem to the connection.
Panic ==
    /\ pc = "running"
    /\ pc' = "panicked"
    /\ LET closed == CompressClose(writers)
       IN  writers' = IF "recover" \in config
                      THEN WriteProblem(closed, "conn", 500) ELSE closed
    /\ UNCHANGED <<config, request, gzip, logged, plain, asked, did>>

Next ==
    \/ \E p \in HeaderValues : SetHeader(p[1], p[2])
    \/ \E tag \in {OwnTag, Weak(OwnTag)} : SetHeader("etag", tag)
    \/ \E code \in Codes \cup {Early} : WriteHeader(code)
    \/ Write \/ Return \/ Panic

Spec == Init /\ [][Next]_vars

-----------------------------------------------------------------------------
(***************************************************************************)
(* Properties of the answer the client gets.                               *)
(***************************************************************************)
Answer == writers["conn"]

Layers == {"conn", "timeout", "etag"}

TypeOK ==
    /\ gzip.on => gzip.wrote /\ CompressApplies
    /\ \A w \in Layers :
          writers[w].status \in Codes \cup {0, Early, 200, 304, 500}
    /\ Answer.status # Early
    /\ pc \in {"running", "returned", "panicked"}

Buffered == "timeout" \in config \/ ETagApplies

\* A hint sent through a buffer is taken for the answer.
Swallowed == did.early /\ Buffered

PlainBody == [k \in 1..did.chunks |-> Plain(k)]
ZippedBody ==
    Append([k \in 1..did.chunks |-> Zipped(k)], Trailer)

PlainStatus == IF plain.status = 0 THEN 200 ELSE plain.status

\* net/http sends a 200 for a handler that gave no status.
Sent == IF Answer.status = 0 THEN 200 ELSE Answer.status

\* What of the handler's header can reach the client: behind a buffer also
\* what it set after the status.
KeptHeader == IF Buffered THEN asked ELSE plain.header

\* The client names the answer's representation.  The bytes behind the tag
\* are those of the etag buffer, so that the tags of the plain and of the
\* gzip variant of a response differ; a tag of the handler's counts if it
\* was set at any time.
NotModified ==
    /\ ETagApplies /\ ~did.early
    /\ PlainStatus \in 200..299
    /\ LET tag == IF asked["etag"] # <<>> THEN OwnTag
                  ELSE HashTag(IF gzip.on THEN ZippedBody ELSE PlainBody)
       IN  \/ request.match = {AnyTag}
           \/ \E t \in request.match : t \in {tag, Weak(tag)}

\* The status the handler gave first reaches the client, whatever is
\* installed between them, with two exceptions: ETag's 304, sent exactly
\* for a GET or HEAD without Range whose 2xx answer is the representation
\* the client names; and 200 for every handler that sends an early hint
\* through a buffer.  And a header the handler sets takes the place of an
\* outer middleware's, except below ETag, whose flush adds to it: the client
\* gets both.  A header set after the status does so behind a buffer, and
\* only there.
HandlersAnswerWins ==
    pc = "returned" =>
        /\ Sent = CASE NotModified -> 304
                    [] Swallowed -> 200
                    [] OTHER -> PlainStatus
        /\ Answer.header["policy"] =
              IF KeptHeader["policy"] = <<>> THEN <<"outer">>
              ELSE IF ETagApplies THEN <<"outer", "handler">>
              ELSE <<"handler">>

\* What the client decodes by the headers it got is what the handler wrote
\* by the headers it set, those set after the status included where a
\* buffer keeps them.
Readable ==
    IF gzip.on /\ Answer.body # <<>>
    THEN /\ Answer.header["encoding"] = <<"gzip">>
         /\ Answer.header["length"] = <<>>
         /\ KeptHeader["encoding"] = <<>>
         /\ Answer.body = ZippedBody
    ELSE /\ Answer.body = plain.body
         /\ Answer.header["encoding"] = KeptHeader["encoding"]
                \/ Answer.body = <<>>

\* The client can read the answer, compressed or not, with these
\* exceptions: Compress was given a body the handler had encoded itself (it
\* encodes it again, under one Content-Encoding), or calls so only after
\* the status, which takes the place of "gzip" in a buffer; the handler set
\* the length of its own body after the status, over the gzip body in a
\* buffer; or a hint made Compress or a buffer decide too early.
DecodesToWritten ==
    pc = "returned" /\ Answer.status # 304 =>
        \/ Readable
        \/ gzip.on /\ \/ KeptHeader["encoding"] # <<>>
                      \/ KeptHeader["length"] # plain.header["length"]
                      \/ did.early
        \/ Swallowed

\* The log says what was sent, unless ETag, outside Logging, sent a 304 for
\* it; the handler called WriteHeader again after its status was settled,
\* which is logged although it has no effect; or it gave a hint and a 200
\* was sent that Logging does not know of, because a buffer took the hint
\* for the status or because no status but hints was given.
LogIsAnswer ==
    logged.done /\ ~did.late =>
        \/ logged.status = Sent
        \/ NotModified
        \/ did.early /\ Sent = 200 /\ (Buffered \/ logged.status = Early)

\* After a panic Recover's problem is the whole answer exactly if a buffer
\* kept what the handler had written, or the handler had written nothing at
\* all, and set neither a length nor an encoding, which WriteProblem leaves
\* in place, nor had Compress decide by a hint.
PanicAnswerClean ==
    pc = "panicked" /\ "recover" \in config =>
        (  /\ Answer.status = 500
           /\ Answer.body = <<ProblemBody>>
           /\ Answer.header["type"] = <<"problem">>
           /\ Answer.header["encoding"] = <<>>
           /\ Answer.header["length"] = <<>>)
        <=> \/ Buffered
            \/ /\ plain.status = 0
               /\ ~gzip.on
               /\ plain.header["encoding"] = <<>>
               /\ plain.header["length"] = <<>>
=============================================================================
