----------------------------- MODULE MCWriters ------------------------------
EXTENDS Writers

\* If-None-Match: not sent, "*", and lists of tags, strong and weak, of the
\* bodies one chunk makes and of the handler's tag.
MCMatches ==
    {{}, {AnyTag}, {HashTag(<<Plain(1)>>)}, {Weak(HashTag(<<Zipped(1), Trailer>>))},
     {HashTag(<<>>), OwnTag}}

\* ETag looks at If-None-Match for GET and HEAD without Range only.
MCRequests ==
    [method: {"GET", "HEAD"}, range: {FALSE}, gzip: BOOLEAN, match: MCMatches]
    \cup [method: {"POST"}, range: {FALSE}, gzip: BOOLEAN, match: {{AnyTag}}]
    \cup [method: {"GET"}, range: {TRUE}, gzip: BOOLEAN, match: {{AnyTag}}]
=============================================================================
