---------------------------- MODULE TimeoutProofs ----------------------------
(***************************************************************************)
(* Proofs about Timeout, for every set of headers and codes and any number *)
(* of writes.                                                              *)
(***************************************************************************)
EXTENDS Timeout, TLAPS, SequenceTheorems

(***************************************************************************)
(* The inductive invariant.  WholeAnswer speaks of the end of the run; on  *)
(* the way there the buffered writer must hold exactly what the handler    *)
(* wrote until the deadline froze it, the real writer must be clean, and   *)
(* the outer goroutine must start copying only after the handler is over.  *)
(***************************************************************************)
Shape ==
    /\ outer \in {"selecting", "copying", "late", "answering", "ended",
                  "panicked"}
    /\ handler \in {"running", "returned", "recovered", "ended"}
    /\ ctx \in {"live", "expired", "cancelled"}
    /\ done \in BOOLEAN
    /\ buffered \in [header: SUBSET Headers, status: Codes \cup {NoStatus},
                     body: Bodies, err: BOOLEAN]
    /\ real \in [header: [Headers -> Origins], status: Statuses,
                 body: Bodies \cup {ProblemBody}]
    /\ wrote \in [header: SUBSET Headers, status: Codes \cup {NoStatus},
                  body: Bodies]

\* The channel of capacity one.
Channel == panicChan \in {<<>>, <<"panic value">>}

\* done is closed by the last step of a handler that returned.
DoneMeansOver ==
    /\ done => handler = "ended"
    /\ outer = "copying" => done

\* err is set by the deadline's branch and by nothing else, before it answers.
ErrMeansLate ==
    /\ buffered.err => outer \in {"answering", "ended"}
    /\ outer \in {"answering", "ended"} => buffered.err \/ handler = "ended"

\* Until it is frozen, the buffered writer mirrors the handler's writes.
Mirror ==
    ~buffered.err /\ outer # "ended" =>
        /\ buffered.header = wrote.header
        /\ buffered.status = wrote.status
        /\ buffered.body = wrote.body

CleanWriter ==
    outer # "ended" =>
        /\ real.status = NoStatus /\ real.body = <<>>
        /\ \A h \in Headers : real.header[h] # "handler"

\* The answer, with what makes it stable: a handler's answer is sent when
\* the handler can write no more.
Settled ==
    outer = "ended" =>
        \/ IsHandlersAnswer /\ handler = "ended"
        \/ IsProblemAnswer

IInv ==
    /\ Shape
    /\ DoneMeansOver
    /\ ErrMeansLate
    /\ Mirror
    /\ CleanWriter
    /\ Settled

\* A body starts empty and grows by its next chunk.
LEMMA EmptyBody == <<>> \in Bodies
<1>1. 0 \in 0..MaxWrites /\ <<>> \in [1..0 -> 1..MaxWrites]
  BY MaxWritesAssumption
<1> QED BY <1>1 DEF Bodies

LEMMA GrownBody ==
    ASSUME NEW b \in Bodies, Len(b) < MaxWrites
    PROVE  Append(b, Len(b) + 1) \in Bodies
<1>1. PICK n \in 0..MaxWrites : b \in [1..n -> 1..MaxWrites]
  BY DEF Bodies
<1>2. b \in Seq(1..MaxWrites) /\ Len(b) = n
  BY <1>1, MaxWritesAssumption
<1>3. n + 1 \in 0..MaxWrites /\ n + 1 \in 1..MaxWrites
  BY <1>2, MaxWritesAssumption
<1>4. /\ Append(b, n + 1) \in Seq(1..MaxWrites)
      /\ Len(Append(b, n + 1)) = n + 1
  BY <1>2, <1>3
<1>5. Append(b, n + 1) \in [1..(n + 1) -> 1..MaxWrites]
  BY <1>4, LenProperties
<1> QED BY <1>2, <1>3, <1>5 DEF Bodies

\* Nothing is written and nothing has ended at the start.
LEMMA InitEstablishes == Init => IInv
<1> SUFFICES ASSUME Init PROVE IInv
  OBVIOUS
<1>1. /\ real.header \in [Headers -> Origins]
      /\ real.status = NoStatus /\ real.body = <<>>
      /\ real = [header |-> real.header, status |-> NoStatus, body |-> <<>>]
      /\ \A h \in Headers : real.header[h] # "handler"
  BY DEF Init, Origins
<1> QED BY <1>1, EmptyBody
        DEF Init, IInv, Shape, DoneMeansOver, ErrMeansLate, Mirror,
            CleanWriter, Settled, Statuses

\* The induction step: one case per action of Timeout.
LEMMA StepPreserves == IInv /\ [Next]_vars => IInv'
<1> SUFFICES ASSUME IInv, [Next]_vars PROVE IInv'
  OBVIOUS
<1> USE CodesAssumption
        DEF IInv, Shape, DoneMeansOver, ErrMeansLate, Mirror, CleanWriter,
            Settled, IsHandlersAnswer, IsProblemAnswer
<1>1. ASSUME NEW h \in Headers, SetHeader(h) PROVE IInv'
  BY <1>1 DEF SetHeader
<1>2. ASSUME NEW code \in Codes, WriteHeader(code) PROVE IInv'
  BY <1>2 DEF WriteHeader, RecordStatus, MutexHeld
<1>3. CASE Write
  <2> DEFINE chunk == Len(wrote.body) + 1
             implicit(status) == IF status = NoStatus THEN OK ELSE status
  <2>1. /\ Append(wrote.body, chunk) \in Bodies
        /\ ~buffered.err => buffered.body = wrote.body
    BY <1>3, GrownBody DEF Write
  <2>2. wrote' = [header |-> wrote.header, status |-> implicit(wrote.status),
                  body |-> Append(wrote.body, chunk)]
    BY <1>3 DEF Write, RecordStatus
  <2>3. /\ handler = "running" /\ ~MutexHeld
        /\ UNCHANGED <<outer, handler, ctx, done, panicChan, real>>
    BY <1>3 DEF Write
  <2>4. CASE buffered.err
    <3>1. buffered' = buffered
      BY <1>3, <2>4 DEF Write
    <3> QED BY <2>1, <2>2, <2>3, <2>4, <3>1
  <2>5. CASE ~buffered.err
    <3>1. buffered' = [header |-> buffered.header,
                       status |-> implicit(buffered.status),
                       body |-> Append(buffered.body, chunk),
                       err |-> FALSE]
      BY <1>3, <2>5 DEF Write, RecordStatus
    <3> QED BY <2>1, <2>2, <2>3, <2>5, <3>1
  <2> QED BY <2>4, <2>5
<1>4. CASE HandlerReturns \/ HandlerPanics
  BY <1>4 DEF HandlerReturns, HandlerPanics
<1>5. CASE HandlerEpilogue
  BY <1>5 DEF HandlerEpilogue, CloseDone, SendPanic
<1>6. CASE Deadline \/ ClientGone
  BY <1>6 DEF Deadline, ClientGone
<1>7. CASE Repanic \/ ChooseDone \/ ChooseDeadline
  BY <1>7 DEF Repanic, ChooseDone, ChooseDeadline
<1>8. CASE CopyResponse
  BY <1>8 DEF CopyResponse, RecordStatus, Origins, Statuses
<1>9. CASE Freeze
  BY <1>9 DEF Freeze
<1>10. CASE WriteTimeout
  BY <1>10 DEF WriteTimeout, Statuses
<1>11. CASE UNCHANGED vars
  BY <1>11 DEF vars
<1> QED BY <1>1, <1>2, <1>3, <1>4, <1>5, <1>6, <1>7, <1>8, <1>9, <1>10, <1>11
        DEF Next, OuterProgress, HandlerCode

\* The inductive invariant of Timeout holds in every reachable state.
THEOREM InductiveInvariant == Spec => []IInv
<1> QED BY InitEstablishes, StepPreserves, PTL DEF Spec

LEMMA ChannelStep == Channel /\ [Next]_vars => Channel'
<1> SUFFICES ASSUME Channel, [Next]_vars PROVE Channel'
  OBVIOUS
<1>1. \/ panicChan' = panicChan
      \/ Len(panicChan) < 1 /\ panicChan' = Append(panicChan, "panic value")
      \/ panicChan # <<>> /\ panicChan' = Tail(panicChan)
  BY DEF Next, OuterProgress, HandlerCode, vars, SetHeader, WriteHeader, Write,
         HandlerReturns, HandlerPanics, HandlerEpilogue, CloseDone, SendPanic,
         Deadline, ClientGone, Repanic, ChooseDone, ChooseDeadline,
         CopyResponse, Freeze, WriteTimeout
<1>2. CASE panicChan' = panicChan
  BY <1>2 DEF Channel
<1>3. CASE Len(panicChan) < 1 /\ panicChan' = Append(panicChan, "panic value")
  <2>1. /\ Append(<<>>, "panic value") = <<"panic value">>
        /\ ~(Len(<<"panic value">>) < 1)
    OBVIOUS
  <2> QED BY <1>3, <2>1 DEF Channel
<1>4. CASE panicChan # <<>> /\ panicChan' = Tail(panicChan)
  <2>1. Tail(<<"panic value">>) = <<>>
    OBVIOUS
  <2> QED BY <1>4, <2>1 DEF Channel
<1> QED BY <1>1, <1>2, <1>3, <1>4

\* Every variable has its type: a status is one somebody chose, a body has no
\* more than MaxWrites chunks, and the channel of capacity one never holds a
\* second value.
THEOREM TypeCorrect == Spec => []TypeOK
<1>1. Init => Channel
  BY DEF Init, Channel
<1>2. IInv /\ Channel => TypeOK
  BY DEF IInv, Shape, Channel, TypeOK
<1> QED BY <1>1, <1>2, ChannelStep, InductiveInvariant, PTL DEF Spec

\* The client gets the handler's whole answer or the whole problem, and a
\* panic is re-raised over an untouched writer.
THEOREM OutcomeIsOne == Spec => []OneOutcome
<1>1. IInv => WholeAnswer
  BY DEF IInv, Settled, WholeAnswer
<1>2. IInv => PanicLeavesCleanWriter
  BY DEF IInv, CleanWriter, PanicLeavesCleanWriter
<1>3. IInv => OneOutcome
  BY <1>1, <1>2 DEF OneOutcome
<1> QED BY <1>3, InductiveInvariant, PTL

\* The header map is never read and written at once.
THEOREM HeaderMapIsSafe == Spec => []NoHeaderRace
<1>1. IInv => NoHeaderRace
  BY DEF IInv, DoneMeansOver, NoHeaderRace
<1> QED BY <1>1, InductiveInvariant, PTL
=============================================================================
