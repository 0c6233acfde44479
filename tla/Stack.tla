------------------------------- MODULE Stack -------------------------------
(***************************************************************************)
(* Recover, Timeout and Throttle as BuildChain nests them (chain.go):      *)
(* Recover outside Timeout, Timeout outside Throttle.  Every request is    *)
(* two goroutines: the one net/http started, which runs Recover and waits  *)
(* in Timeout's select, and the one Timeout started, which goes through    *)
(* Throttle to the handler.  Module Throttle is the second; its gone[r] is *)
(* the context Timeout made, done at the deadline or when the client       *)
(* leaves.  The buffered writer between the two is module Timeout.         *)
(*                                                                         *)
(* The outer goroutine may answer and be over while the inner one goes on. *)
(* A member of Requests is taken again when both are over.                 *)
(***************************************************************************)
EXTENDS Throttle

VARIABLES outer,   \* where the goroutine of net/http is
          answer   \* what it wrote to the client

stackVars == <<vars, outer, answer>>

\* "handler": the handler's response; "failed": Recover's 500; "late":
\* Timeout's 503; "refused": Throttle's problem; "empty": the implicit 200
\* of a buffered response nobody wrote to.
Answers == {"none", "handler", "failed", "late", "refused", "empty"}

StackInit ==
    /\ Init
    /\ outer = [r \in Requests |-> "idle"]
    /\ answer = [r \in Requests |-> "none"]

InnerOver(r) == pc[r] = "idle"

\* A request reaches Recover, then Timeout, which starts the inner goroutine.
Enter(r) ==
    /\ outer[r] # "waiting"
    /\ Arrive(r)
    /\ outer' = [outer EXCEPT ![r] = "waiting"]
    /\ answer' = [answer EXCEPT ![r] = "none"]

\* A step of the inner goroutine, its backlog timer included.
Inner(r) ==
    /\ Progress(r) \/ HandlerEnds(r) \/ TimerFires(r)
    /\ UNCHANGED <<outer, answer>>

\* Mutant of Expire: the request goes on without WithContext.
ExpireUnheard(r) ==
    /\ outer[r] = "waiting"
    /\ pc[r] # "serving"
    /\ ClientGone(r)
    /\ UNCHANGED <<outer, answer>>

\* The deadline passes or the client leaves.
Expire(r) ==
    /\ outer[r] = "waiting"
    /\ ClientGone(r)
    /\ UNCHANGED <<outer, answer>>

Reply(r, what) ==
    /\ outer[r] = "waiting"
    /\ outer' = [outer EXCEPT ![r] = "answered"]
    /\ answer' = [answer EXCEPT ![r] = what]
    /\ UNCHANGED vars

\* panicChan: Timeout panics again, the deferred call of Recover answers.
ReplyFailed(r) ==
    /\ InnerOver(r) /\ outcome[r] = "panicked"
    /\ Reply(r, "failed")

\* Mutant of ReplyDone: done is closed before the inner goroutine is over.
ReplyDoneEarly(r) ==
    /\ outcome[r] # "panicked"
    /\ Reply(r, CASE outcome[r] \in {"served", "none"} -> "handler"
                  [] outcome[r] \in {"refused", "expired"} -> "refused"
                  [] OTHER -> "empty")

\* done: the buffered response is copied.
ReplyDone(r) ==
    /\ InnerOver(r) /\ outcome[r] # "panicked"
    /\ Reply(r, CASE outcome[r] = "served" -> "handler"
                  [] outcome[r] \in {"refused", "expired"} -> "refused"
                  [] OTHER -> "empty")

\* Mutant of ReplyLate: the timeout answer waits for the inner goroutine.
ReplyLateAfterInner(r) ==
    /\ InnerOver(r)
    /\ Reply(r, "late")

\* ctx.Done: the context may also be done when the inner goroutine just
\* ended, and select takes any ready case.
ReplyLate(r) ==
    /\ gone[r] \/ InnerOver(r)
    /\ Reply(r, "late")

Outer(r) == ReplyFailed(r) \/ ReplyDone(r) \/ ReplyLate(r)

StackNext ==
    \E r \in Requests : Enter(r) \/ Inner(r) \/ Expire(r) \/ Outer(r)

StackSpec == StackInit /\ [][StackNext]_stackVars

\* Goroutines run, timers fire and deadlines pass.  No handler has to end.
StackFairSpec ==
    /\ StackSpec
    /\ \A r \in Requests :
          /\ WF_stackVars(Progress(r) /\ UNCHANGED <<outer, answer>>)
          /\ WF_stackVars(TimerFires(r) /\ UNCHANGED <<outer, answer>>)
          /\ WF_stackVars(Expire(r))
          /\ WF_stackVars(Outer(r))

-----------------------------------------------------------------------------
(***************************************************************************)
(* Properties.                                                             *)
(***************************************************************************)
StackTypeOK ==
    /\ outer \in [Requests -> {"idle", "waiting", "answered"}]
    /\ answer \in [Requests -> Answers]

\* Whatever the handlers do, every request is answered: none waits for an
\* admission or a handler past its deadline.
EveryRequestAnswered ==
    \A r \in Requests : outer[r] = "waiting" ~> outer[r] = "answered"

\* While the inner goroutine still runs, only the timeout answer is sent,
\* and then the context is done.  Every other answer names how the inner
\* goroutine ended.  The 200 with nothing in it is the answer timeout.go
\* does not promise: it is sent for a request that was never served, and
\* only for one that Throttle gave up, without a word, because its context
\* was done, while the select took the buffered response of that.
AnswerNamesOutcome ==
    \A r \in Requests : outer[r] = "answered" =>
        /\ ~InnerOver(r) => answer[r] = "late" /\ gone[r]
        /\ answer[r] = "handler" => outcome[r] = "served"
        /\ answer[r] = "failed" => outcome[r] = "panicked"
        /\ answer[r] = "refused" => outcome[r] \in {"refused", "expired"}
        /\ answer[r] = "empty" => outcome[r] = "left" /\ gone[r]

\* A handler abandoned at the deadline keeps its slot until it is over, and
\* a parked request is not handed a slot once it was answered.  (One that
\* was still on its way to the third select may yet get one: the select
\* does not prefer the context.)
SlotOutlivesAnswer ==
    [][\A r \in Requests :
          /\ HoldsSlot(r) /\ ~HoldsSlot(r)' => pc[r] = "releasing"
          /\ outer[r] = "answered" /\ ~HoldsSlot(r) /\ HoldsSlot(r)'
                => pc[r] \in {"arrived", "queued"}]_stackVars

\* Handlers that end once their context is done.
HandlersHonourContext ==
    \A r \in Requests : WF_stackVars(Inner(r) /\ HandlerEnds(r) /\ gone[r])

\* Behind Timeout, and with such handlers, no slot is taken for good.
SlotsComeBack ==
    HandlersHonourContext =>
        \A r \in Requests : HoldsSlot(r) ~> ~HoldsSlot(r)
=============================================================================
