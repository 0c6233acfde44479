------------------------------- MODULE Timeout -------------------------------
(***************************************************************************)
(* The Timeout middleware (httpx/middleware/timeout.go), for one request:  *)
(* the goroutine that serves the request waits for the handler, which runs *)
(* in a goroutine of its own against a buffered writer, for its panic, or  *)
(* for the context, which ends at the deadline or when the client leaves.  *)
(*                                                                         *)
(* The handler is any program: it sets headers, writes a status and chunks *)
(* of the body in any order, then returns or panics, or never ends.  The   *)
(* mutex of the buffered writer is held by the outer goroutine from        *)
(* "copying" or "answering" until it is done; the handler's calls take and *)
(* release it within one step.  Informational (1xx) statuses are left out. *)
(***************************************************************************)
EXTENDS Naturals, Sequences

CONSTANTS Headers,     \* header names
          Codes,       \* the status codes a handler writes
          OK,          \* http.StatusOK, one of Codes
          MaxWrites    \* bound on the chunks of body a handler writes

ASSUME CodesAssumption == OK \in Codes
ASSUME MaxWritesAssumption == MaxWrites \in Nat

VARIABLES outer,      \* where the goroutine that runs Timeout is
          handler,    \* where the handler goroutine is
          ctx,        \* the request's context
          done,       \* whether the channel done is closed
          panicChan,  \* what the channel panicChan holds: at most one value
          buffered,   \* the timeoutResponseWriter
          real,       \* the http.ResponseWriter of the connection
          wrote       \* history: everything the handler ever wrote

vars == <<outer, handler, ctx, done, panicChan, buffered, real, wrote>>

NoStatus == "no status"
Problem503 == "service unavailable"
ProblemBody == <<0>>   \* the handler's chunks are numbered from 1
Statuses == Codes \cup {NoStatus, Problem503}
Origins == {"unset", "outer", "handler"}

\* A header set by an outer middleware may be on the real writer already.
Init ==
    /\ outer = "selecting"
    /\ handler = "running"
    /\ ctx = "live"
    /\ done = FALSE
    /\ panicChan = <<>>
    /\ buffered = [header |-> {}, status |-> NoStatus, body |-> <<>>,
                   err |-> FALSE]
    /\ \E preset \in SUBSET Headers :
          real = [header |-> [h \in Headers |->
                                IF h \in preset THEN "outer" ELSE "unset"],
                  status |-> NoStatus, body |-> <<>>]
    /\ wrote = [header |-> {}, status |-> NoStatus, body |-> <<>>]

MutexHeld == outer \in {"copying", "answering"}

(***************************************************************************)
(* The handler goroutine.                                                  *)
(***************************************************************************)
\* writer.Header().Set(h, ...): the map is not protected by the mutex.
SetHeader(h) ==
    /\ handler = "running"
    /\ buffered' = [buffered EXCEPT !.header = @ \cup {h}]
    /\ wrote' = [wrote EXCEPT !.header = @ \cup {h}]
    /\ UNCHANGED <<outer, handler, ctx, done, panicChan, real>>

\* writeHeaderLocked: the first status wins, none is recorded once err is
\* set.
RecordStatus(w, code) ==
    IF w.status = NoStatus THEN [w EXCEPT !.status = code] ELSE w

WriteHeader(code) ==
    /\ handler = "running"
    /\ ~MutexHeld
    /\ buffered' = IF buffered.err THEN buffered ELSE RecordStatus(buffered, code)
    /\ wrote' = RecordStatus(wrote, code)
    /\ UNCHANGED <<outer, handler, ctx, done, panicChan, real>>

\* Write: fails once err is set, else an implicit 200 and the chunk.
Write ==
    /\ handler = "running"
    /\ ~MutexHeld
    /\ Len(wrote.body) < MaxWrites
    /\ LET chunk == Len(wrote.body) + 1
           written(w) == [RecordStatus(w, OK) EXCEPT !.body = Append(@, chunk)]
       IN  /\ buffered' = IF buffered.err THEN buffered ELSE written(buffered)
           /\ wrote' = written(wrote)
    /\ UNCHANGED <<outer, handler, ctx, done, panicChan, real>>

HandlerReturns ==
    /\ handler = "running"
    /\ handler' = "returned"
    /\ UNCHANGED <<outer, ctx, done, panicChan, buffered, real, wrote>>

HandlerPanics ==
    /\ handler = "running"
    /\ handler' = "recovered"
    /\ UNCHANGED <<outer, ctx, done, panicChan, buffered, real, wrote>>

\* Mutant of CloseDone: done is closed before ServeHTTP has returned.
CloseDoneEarly ==
    /\ handler \in {"running", "returned"}
    /\ done' = TRUE
    /\ handler' = IF handler = "returned" THEN "ended" ELSE handler
    /\ UNCHANGED <<outer, ctx, panicChan, buffered, real, wrote>>

\* close(done), reached only when ServeHTTP returned.
CloseDone ==
    /\ handler = "returned"
    /\ done' = TRUE
    /\ handler' = "ended"
    /\ UNCHANGED <<outer, ctx, panicChan, buffered, real, wrote>>

\* Mutant of SendPanic: panicChan has no buffer, so a send needs a receiver.
SendPanicUnbuffered ==
    /\ handler = "recovered"
    /\ outer = "selecting"
    /\ panicChan' = Append(panicChan, "panic value")
    /\ handler' = "ended"
    /\ UNCHANGED <<outer, ctx, done, buffered, real, wrote>>

\* The deferred panicChan <- recovered: it blocks while the buffer is full.
SendPanic ==
    /\ handler = "recovered"
    /\ Len(panicChan) < 1
    /\ panicChan' = Append(panicChan, "panic value")
    /\ handler' = "ended"
    /\ UNCHANGED <<outer, ctx, done, buffered, real, wrote>>

(***************************************************************************)
(* The context: the deadline passes, or the client disconnects.            *)
(***************************************************************************)
Deadline ==
    /\ ctx = "live"
    /\ ctx' = "expired"
    /\ UNCHANGED <<outer, handler, done, panicChan, buffered, real, wrote>>

ClientGone ==
    /\ ctx = "live"
    /\ ctx' = "cancelled"
    /\ UNCHANGED <<outer, handler, done, panicChan, buffered, real, wrote>>

(***************************************************************************)
(* The goroutine that runs Timeout.  The select takes any ready case.      *)
(***************************************************************************)
\* panic(recovered), and the deferred cancel.
Repanic ==
    /\ outer = "selecting"
    /\ panicChan # <<>>
    /\ panicChan' = Tail(panicChan)
    /\ outer' = "panicked"
    /\ ctx' = IF ctx = "live" THEN "cancelled" ELSE ctx
    /\ UNCHANGED <<handler, done, buffered, real, wrote>>

ChooseDone ==
    /\ outer = "selecting"
    /\ done
    /\ outer' = "copying"
    /\ UNCHANGED <<handler, ctx, done, panicChan, buffered, real, wrote>>

\* Copy the headers over those already there, write the status, 200 if the
\* handler wrote none, and the body; unlock and cancel.
CopyResponse ==
    /\ outer = "copying"
    /\ real' = [header |-> [h \in Headers |-> IF h \in buffered.header
                                              THEN "handler"
                                              ELSE real.header[h]],
                status |-> RecordStatus(buffered, OK).status,
                body |-> buffered.body]
    /\ buffered' = RecordStatus(buffered, OK)
    /\ outer' = "ended"
    /\ ctx' = IF ctx = "live" THEN "cancelled" ELSE ctx
    /\ UNCHANGED <<handler, done, panicChan, wrote>>

ChooseDeadline ==
    /\ outer = "selecting"
    /\ ctx # "live"
    /\ outer' = "late"
    /\ UNCHANGED <<handler, ctx, done, panicChan, buffered, real, wrote>>

\* Lock the buffered writer and make it refuse what comes.
Freeze ==
    /\ outer = "late"
    /\ buffered' = [buffered EXCEPT !.err = TRUE]
    /\ outer' = "answering"
    /\ UNCHANGED <<handler, ctx, done, panicChan, real, wrote>>

WriteTimeout ==
    /\ outer = "answering"
    /\ real' = [real EXCEPT !.status = Problem503, !.body = ProblemBody]
    /\ outer' = "ended"
    /\ UNCHANGED <<handler, ctx, done, panicChan, buffered, wrote>>

OuterProgress ==
    Repanic \/ ChooseDone \/ CopyResponse \/ ChooseDeadline \/ Freeze
        \/ WriteTimeout

\* What the handler goroutine does once the handler is over.
HandlerEpilogue == CloseDone \/ SendPanic

HandlerCode ==
    \/ \E h \in Headers : SetHeader(h)
    \/ \E code \in Codes : WriteHeader(code)
    \/ Write \/ HandlerReturns \/ HandlerPanics

Next ==
    \/ OuterProgress
    \/ HandlerEpilogue
    \/ HandlerCode
    \/ Deadline \/ ClientGone

Spec == Init /\ [][Next]_vars

\* Goroutines run and the deadline passes.  The handler owes nothing.
FairSpec ==
    /\ Spec
    /\ WF_vars(OuterProgress)
    /\ WF_vars(HandlerEpilogue)
    /\ WF_vars(Deadline)

-----------------------------------------------------------------------------
(***************************************************************************)
(* Properties.                                                             *)
(***************************************************************************)
\* The chunks in the order written, at most MaxWrites of them.
Bodies == UNION {[1..n -> 1..MaxWrites] : n \in 0..MaxWrites}

TypeOK ==
    /\ outer \in {"selecting", "copying", "late", "answering", "ended",
                  "panicked"}
    /\ handler \in {"running", "returned", "recovered", "ended"}
    /\ ctx \in {"live", "expired", "cancelled"}
    /\ done \in BOOLEAN
    /\ panicChan \in {<<>>, <<"panic value">>}
    /\ buffered \in [header: SUBSET Headers, status: Codes \cup {NoStatus},
                     body: Bodies, err: BOOLEAN]
    /\ real \in [header: [Headers -> Origins], status: Statuses,
                 body: Bodies \cup {ProblemBody}]
    /\ wrote \in [header: SUBSET Headers, status: Codes \cup {NoStatus},
                  body: Bodies]

IsHandlersAnswer ==
    /\ real.status = RecordStatus(wrote, OK).status
    /\ real.body = wrote.body
    /\ \A h \in wrote.header : real.header[h] = "handler"

IsProblemAnswer ==
    /\ real.status = Problem503
    /\ real.body = ProblemBody
    /\ \A h \in Headers : real.header[h] # "handler"

\* The client gets one whole answer: everything the handler ever wrote,
\* status, headers and body, or the 503 problem with nothing of the
\* handler's in it.  Never a part, never a mixture, whatever the order of
\* writes, deadline, return and the choices of the select.
WholeAnswer == outer = "ended" => IsHandlersAnswer \/ IsProblemAnswer

\* A re-raised panic finds the real writer untouched, so that an outer
\* Recover can still write a clean 500.
PanicLeavesCleanWriter ==
    outer \in {"selecting", "panicked"} =>
        /\ real.status = NoStatus /\ real.body = <<>>
        /\ \A h \in Headers : real.header[h] # "handler"

\* However it ends, the client never gets a part or a mixture: a whole
\* answer, or a panic over an untouched writer.
OneOutcome == WholeAnswer /\ PanicLeavesCleanWriter

\* The header map is shared without a lock: the outer goroutine reads it
\* only when the handler can touch it no more, which rests on done being
\* closed after ServeHTTP returned.
NoHeaderRace == outer = "copying" => handler = "ended"

\* The middleware answers even if the handler never ends; and the handler
\* goroutine ends once the handler has, even if nobody is left to receive from
\* its channels: neither a late end nor a late panic leaks it.
BothGoroutinesEnd ==
    /\ outer = "selecting" ~> outer \in {"ended", "panicked"}
    /\ handler \in {"returned", "recovered"} ~> handler = "ended"
=============================================================================
