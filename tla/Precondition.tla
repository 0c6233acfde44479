---------------------------- MODULE Precondition ----------------------------
(***************************************************************************)
(* httpx/precondition: whether a write may go ahead, given the conditional *)
(* headers of the request and the resource as the caller just read it.     *)
(*                                                                         *)
(* An entity tag is a record: what it stands for, and whether it is weak.  *)
(* If-Match is NoHeader, Star or a set of tags; If-Unmodified-Since is     *)
(* NoHeader, Unreadable or a number of seconds.  Times the server keeps    *)
(* are finer than a second: a number of ticks.                             *)
(***************************************************************************)
EXTENDS Naturals

CONSTANTS NoHeader,        \* the request does not carry the header
          Star,            \* If-Match: *
          Unreadable,      \* a date http.ParseTime rejects
          NoETag,          \* State.ETag = ""
          Untracked,       \* State.LastModified is the zero time
          TicksPerSecond

ASSUME TicksAssumption == TicksPerSecond \in Nat \ {0}

Second(ticks) == ticks \div TicksPerSecond

\* Mutant of IfMatchMatches: a resource without a tag satisfies everything.
IfMatchMatchesUntagged(header, etag) ==
    \/ etag = NoETag
    \/ header # Star /\ ~etag.weak /\ etag \in header

\* Strong comparison: a weak tag matches nothing, on either side.
IfMatchMatches(header, etag) ==
    IF header = Star
    THEN etag # NoETag
    ELSE etag # NoETag /\ ~etag.weak /\ etag \in header

\* Mutant of UnmodifiedSince: only an older resource is refused.
UnmodifiedSinceReversed(header, lastModified) ==
    \/ lastModified = Untracked
    \/ header = Unreadable
    \/ Second(lastModified) >= header

\* What cannot be evaluated does not block; dates are whole seconds.
UnmodifiedSince(header, lastModified) ==
    \/ lastModified = Untracked
    \/ header = Unreadable
    \/ Second(lastModified) <= header

\* "proceed", or the status of the problem that is returned.
Check(client, current, require) ==
    IF client.ifMatch = NoHeader /\ client.ifUnmodifiedSince = NoHeader
    THEN IF require THEN "428" ELSE "proceed"
    ELSE IF \/ /\ client.ifMatch # NoHeader
               /\ IfMatchMatches(client.ifMatch, current.etag)
            \/ /\ client.ifMatch = NoHeader
               /\ UnmodifiedSince(client.ifUnmodifiedSince, current.lastModified)
         THEN "proceed"
         ELSE "412"
=============================================================================
