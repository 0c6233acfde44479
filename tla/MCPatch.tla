------------------------------ MODULE MCPatch -------------------------------
(***************************************************************************)
(* Instances of Patch: two fields with one value each, so that there are   *)
(* four documents, and two clients that choose among a few requests.       *)
(***************************************************************************)
EXTENDS Patch, TLC

CONSTANTS name, bio, v

Tag(d) == [weak |-> FALSE, of |-> d]
Full == (name :> v) @@ (bio :> v)
OnlyName == name :> v

Removal(format, field) == [format |-> format, field |-> field, value |-> Null]
Setting(format, field) == [format |-> format, field |-> field, value |-> v]

Plain(method, patch, body) ==
    [method |-> method, ifMatch |-> NoHeader, ifUnmodifiedSince |-> NoHeader,
     ifNoneMatch |-> NoHeader, gzip |-> FALSE, patch |-> patch, body |-> body]

PlainRequests ==
    {Plain("PATCH", patch, Full) :
        patch \in {Removal("merge", name), Removal("json", bio),
                   Setting("merge", bio), Setting("bad", bio),
                   Setting("other", bio)}}
    \cup {Plain("PUT", Removal("merge", name), body) : body \in {Full, OnlyName}}

\* The conditions a client may put on a request it would send anyway.
WithIfMatch(requests, headers) ==
    {[r EXCEPT !.ifMatch = h] : r \in requests, h \in headers}
WithIfUnmodifiedSince(requests, headers) ==
    {[r EXCEPT !.ifUnmodifiedSince = h] : r \in requests, h \in headers}
WithIfNoneMatch(requests, headers) ==
    {[r EXCEPT !.ifNoneMatch = h] : r \in requests, h \in headers}

TaggedRequests ==
    PlainRequests
    \cup WithIfMatch(PlainRequests,
             {Star, {Tag(Full)}, {[Tag(Full) EXCEPT !.weak = TRUE], Tag(OnlyName)}})
    \cup WithIfNoneMatch({Plain("PATCH", Removal("merge", name), Full)}, {Star})
    \cup {[r EXCEPT !.gzip = TRUE] : r \in {Plain("PATCH", Removal("json", bio), Full)}}

DatedRequests ==
    LET edits == {Plain("PATCH", Removal("merge", name), Full),
                  Plain("PATCH", Setting("json", bio), Full),
                  Plain("PUT", Removal("merge", name), OnlyName)}
    IN  edits \cup WithIfUnmodifiedSince(edits, {Unreadable, 0})

\* Clients are interchangeable.
ClientSymmetry == Permutations(Clients)
=============================================================================
