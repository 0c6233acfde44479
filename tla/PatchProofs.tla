---------------------------- MODULE PatchProofs -----------------------------
(***************************************************************************)
(* Proofs about Patch, for every set of fields, values, clients and        *)
(* requests: first for every application, then for one whose GET sends     *)
(* strong tags and whose PUT checks them, and then for one whose GET sends *)
(* dates and whose PUT checks them.                                        *)
(***************************************************************************)
EXTENDS Patch, TLAPS

\* A patch that applies turns a document into a document (format.go's apply).
LEMMA ApplyIsDocument ==
    ASSUME NEW p \in Patches, NEW d \in Docs
    PROVE  Apply(p, d) \in Docs
<1>1. PICK S \in SUBSET Fields : d \in [S -> Values]
  BY DEF Docs
<1>2. p.field \in Fields /\ p.value \in Values \cup {Null}
  BY DEF Patches
<1>3. DOMAIN d = S /\ \A f \in S : d[f] \in Values
  BY <1>1
<1>4. CASE p.value = Null
  <2>1. Apply(p, d) \in [S \ {p.field} -> Values]
    BY <1>3, <1>4 DEF Apply
  <2>2. S \ {p.field} \in SUBSET Fields
    OBVIOUS
  <2> QED BY <2>1, <2>2 DEF Docs
<1>5. CASE p.value # Null
  <2>1. Apply(p, d) \in [S \cup {p.field} -> Values]
    BY <1>2, <1>3, <1>5 DEF Apply
  <2>2. S \cup {p.field} \in SUBSET Fields
    BY <1>2
  <2> QED BY <2>1, <2>2 DEF Docs
<1> QED BY <1>4, <1>5

\* What Check can answer.
LEMMA CheckAnswers ==
    ASSUME NEW client, NEW current, NEW require
    PROVE  Check(client, current, require) \in {"proceed", "412", "428"}
BY DEF Check

\* The fields of a request are of their kinds.
LEMMA RequestFields ==
    ASSUME NEW r \in Requests
    PROVE  /\ r.method \in {"PUT", "PATCH"}
           /\ r.patch \in Patches
           /\ r.body \in Docs
           /\ r.ifMatch \in {NoHeader, Star} \cup SUBSET ETags
BY RequestsAssumption DEF AllRequests

\* The tag of a document tells it from every other one (computeETag).
LEMMA ETagOfDocument ==
    ASSUME NEW d \in Docs
    PROVE  /\ ETagOf(d) \in ETags \cup {NoETag}
           /\ Tagging = "strong" => /\ ETagOf(d) = [weak |-> FALSE, of |-> d]
                                    /\ ETagOf(d) # NoETag
<1>1. d # Missing
  BY MissingAssumption
<1>2. (Tagging = "weak") \in BOOLEAN
  OBVIOUS
<1>3. ETagOf(d) \in ETags \cup {NoETag}
  BY <1>2 DEF ETagOf, ETags
<1>4. ASSUME Tagging = "strong"
      PROVE  ETagOf(d) = [weak |-> FALSE, of |-> d]
  <2>1. Tagging # "weak" /\ Tagging # "none"
    BY <1>4
  <2>2. (Tagging = "weak") = FALSE
    BY <2>1
  <2> QED BY <1>1, <2>1, <2>2 DEF ETagOf
<1>5. [weak |-> FALSE, of |-> d] \in ETags
  BY DEF ETags
<1> QED BY <1>3, <1>4, <1>5, MarkersAssumption

(***************************************************************************)
(* What a handler remembers agrees with what it read.                      *)
(***************************************************************************)
Remembers(c) ==
    /\ pc[c] # "idle" => status[c] = "none"
    /\ pc[c] = "put" => request[c].method = "PUT"
    /\ pc[c] \in {"get", "merge", "internalput"} => request[c].method = "PATCH"
    /\ pc[c] \in {"merge", "internalput"} =>
          /\ got[c] \in Responses
          /\ got[c].etag = ETagOf(got[c].body)
    /\ pc[c] = "internalput" =>
          /\ Applies(request[c].patch, got[c].body)
          /\ merged[c] = Apply(request[c].patch, got[c].body)
          /\ ClientCheck(c) = "proceed"

Inv == TypeOK /\ \A c \in Clients : Remembers(c)

\* A handler that no step touches remembers what it remembered.
LEMMA RemembersUntouched ==
    ASSUME NEW c \in Clients, Remembers(c),
           pc'[c] = pc[c], request'[c] = request[c],
           got'[c] = got[c], merged'[c] = merged[c], status'[c] = status[c]
    PROVE  Remembers(c)'
BY DEF Remembers, ClientCheck, ETagOf

\* An answered request remembers nothing.
LEMMA FinishKeepsInv ==
    ASSUME Inv, NEW c \in Clients, NEW code,
           code \in {"200", "304", "400", "404", "412", "415", "422", "428", "unread"},
           Finish(c, code),
           doc' \in Docs \cup {Missing}, mtime' \in 0 .. now
    PROVE  Inv'
<1>1. TypeOK'
  BY DEF Inv, TypeOK, Finish
<1>2. ASSUME NEW e \in Clients
      PROVE  Remembers(e)'
  <2>1. CASE e = c
    <3>1. pc'[e] = "idle"
      BY <2>1 DEF Inv, TypeOK, Finish
    <3> QED BY <3>1 DEF Remembers
  <2>2. CASE e # c
    BY <2>2, RemembersUntouched DEF Inv, TypeOK, Finish
  <2> QED BY <2>1, <2>2
<1> QED BY <1>1, <1>2 DEF Inv

\* The PUT handler keeps the invariant whatever the headers are.
LEMMA PutKeepsInv ==
    ASSUME Inv, NEW c \in Clients, NEW headers, NEW body \in Docs,
           PutHandler(c, headers, body)
    PROVE  Inv'
<1> DEFINE verdict == IF PutChecks
                      THEN Check(headers, CurrentState, Require)
                      ELSE "proceed"
<1>1. verdict \in {"proceed", "412", "428"}
  BY CheckAnswers
<1>2. /\ doc \in Docs \cup {Missing} /\ mtime \in 0 .. now
      /\ now \in 0 .. now /\ now \in Nat
  BY SiteAssumption DEF Inv, TypeOK
<1>3. \/ Finish(c, "422") /\ UNCHANGED <<doc, mtime>>
      \/ verdict # "proceed" /\ Finish(c, verdict) /\ UNCHANGED <<doc, mtime>>
      \/ doc' = body /\ mtime' = now /\ Finish(c, "200")
  BY DEF PutHandler
<1>4. CASE Finish(c, "422") /\ UNCHANGED <<doc, mtime>>
  BY <1>2, <1>4, FinishKeepsInv
<1>5. CASE verdict # "proceed" /\ Finish(c, verdict) /\ UNCHANGED <<doc, mtime>>
  <2> HIDE DEF verdict
  <2> QED BY <1>1, <1>2, <1>5, FinishKeepsInv
<1>6. CASE doc' = body /\ mtime' = now /\ Finish(c, "200")
  BY <1>2, <1>6, FinishKeepsInv
<1> QED BY <1>3, <1>4, <1>5, <1>6

\* A document merged from what was read is what the internal PUT sends.
LEMMA MergedIsDocument ==
    ASSUME Inv, NEW c \in Clients, pc[c] = "internalput"
    PROVE  /\ got[c].body \in Docs
           /\ merged[c] \in Docs
<1>1. got[c].body \in Docs
  BY DEF Inv, Remembers, Responses
<1>2. request[c].patch \in Patches
  BY RequestFields DEF Inv, TypeOK
<1> QED BY <1>1, <1>2, ApplyIsDocument DEF Inv, Remembers

\* Each step of a client keeps the invariant.
LEMMA ClientStepKeepsInv ==
    ASSUME Inv, NEW c \in Clients, ClientStep(c)
    PROVE  Inv'
<1>1. CASE Ask(c)
  <2>1. PICK r \in Requests :
            /\ request' = [request EXCEPT ![c] = r]
            /\ pc' = [pc EXCEPT ![c] = IF r.method = "PUT" THEN "put" ELSE "get"]
    BY <1>1 DEF Ask
  <2>2. r.method \in {"PUT", "PATCH"}
    BY RequestFields
  <2>3. TypeOK'
    BY <1>1, <2>1 DEF Ask, Inv, TypeOK
  <2>4. ASSUME NEW e \in Clients
        PROVE  Remembers(e)'
    <3>1. CASE e = c
      BY <1>1, <2>1, <2>2, <3>1 DEF Ask, Inv, TypeOK, Remembers
    <3>2. CASE e # c
      BY <1>1, <2>1, <3>2, RemembersUntouched DEF Ask, Inv, TypeOK
    <3> QED BY <3>1, <3>2
  <2> QED BY <2>3, <2>4 DEF Inv
<1>2. CASE InternalGet(c)
  <2>1. doc \in Docs \cup {Missing} /\ mtime \in 0 .. now
    BY DEF Inv, TypeOK
  <2>2. CASE Finish(c, "404") \/ Finish(c, "304")
    BY <1>2, <2>1, <2>2, FinishKeepsInv DEF InternalGet
  <2>3. CASE /\ doc # Missing
             /\ got' = [got EXCEPT ![c] =
                    [body |-> doc,
                     gzip |-> Compressed /\ request[c].gzip,
                     etag |-> ETagOf(doc),
                     lastModified |-> LastModifiedHeader]]
             /\ pc' = [pc EXCEPT ![c] = "merge"]
             /\ UNCHANGED <<now, request, merged, status>>
    <3> DEFINE response == [body |-> doc,
                            gzip |-> Compressed /\ request[c].gzip,
                            etag |-> ETagOf(doc),
                            lastModified |-> LastModifiedHeader]
    <3>1. response \in Responses
      <4>1. doc \in Docs
        BY <2>1, <2>3
      <4>2. (Compressed /\ request[c].gzip) \in BOOLEAN
        OBVIOUS
      <4>3. mtime \in Nat
        BY SiteAssumption DEF Inv, TypeOK
      <4>4. LastModifiedHeader \in Nat \cup {NoHeader}
        BY <4>3, TicksAssumption DEF LastModifiedHeader, Second
      <4>5. ETagOf(doc) \in ETags \cup {NoETag}
        BY <4>1, ETagOfDocument
      <4> QED BY <4>1, <4>2, <4>4, <4>5 DEF Responses
    <3>2. got'[c] = response /\ pc'[c] = "merge" /\ request'[c] = request[c]
      BY <2>3 DEF Inv, TypeOK
    <3>3. TypeOK'
      <4> HIDE DEF response
      <4>1. got' = [got EXCEPT ![c] = response]
        BY <2>3 DEF response
      <4> QED BY <1>2, <2>3, <3>1, <4>1 DEF InternalGet, Inv, TypeOK
    <3>4. ASSUME NEW e \in Clients
          PROVE  Remembers(e)'
      <4>1. CASE e = c
        <5>1. request[c].method = "PATCH" /\ status'[c] = "none"
          BY <1>2, <2>3 DEF InternalGet, Inv, Remembers
        <5>2. response.body = doc /\ response.etag = ETagOf(doc)
          OBVIOUS
        <5> HIDE DEF response
        <5> QED BY <3>1, <3>2, <4>1, <5>1, <5>2 DEF Remembers, ETagOf
      <4>2. CASE e # c
        BY <2>3, <4>2, RemembersUntouched DEF Inv, TypeOK
      <4> QED BY <4>1, <4>2
    <3> QED BY <3>3, <3>4 DEF Inv
  <2> QED BY <1>2, <2>2, <2>3 DEF InternalGet
<1>3. CASE Merge(c)
  <2>1. doc \in Docs \cup {Missing} /\ mtime \in 0 .. now
    BY DEF Inv, TypeOK
  <2>2. CASE \/ Finish(c, "unread") \/ Finish(c, "415") \/ Finish(c, "400")
    BY <1>3, <2>1, <2>2, FinishKeepsInv DEF Merge
  <2>3. CASE ClientCheck(c) # "proceed" /\ Finish(c, ClientCheck(c))
    <3>1. ClientCheck(c) \in {"proceed", "412", "428"}
      BY CheckAnswers DEF ClientCheck
    <3> QED BY <1>3, <2>1, <2>3, <3>1, FinishKeepsInv DEF Merge
  <2>4. CASE /\ ClientCheck(c) = "proceed"
             /\ Applies(request[c].patch, got[c].body)
             /\ merged' = [merged EXCEPT ![c] =
                    Apply(request[c].patch, got[c].body)]
             /\ pc' = [pc EXCEPT ![c] = "internalput"]
             /\ UNCHANGED <<now, request, got, status>>
    <3>1. request[c].patch \in Patches /\ got[c].body \in Docs
      BY <1>3, RequestFields DEF Merge, Inv, TypeOK, Remembers, Responses
    <3>2. Apply(request[c].patch, got[c].body) \in Docs
      BY <3>1, ApplyIsDocument
    <3>3. TypeOK'
      BY <1>3, <2>4, <3>2 DEF Merge, Inv, TypeOK
    <3>4. ASSUME NEW e \in Clients
          PROVE  Remembers(e)'
      <4>1. CASE e = c
        BY <1>3, <2>4, <4>1 DEF Merge, Inv, TypeOK, Remembers, ETagOf, ClientCheck
      <4>2. CASE e # c
        BY <2>4, <4>2, RemembersUntouched DEF Inv, TypeOK
      <4> QED BY <4>1, <4>2
    <3> QED BY <3>3, <3>4 DEF Inv
  <2> QED BY <1>3, <2>2, <2>3, <2>4 DEF Merge
<1>4. CASE InternalPut(c)
  BY <1>4, MergedIsDocument, PutKeepsInv DEF InternalPut
<1>5. CASE ClientPut(c)
  <2>1. request[c].body \in Docs
    BY RequestFields DEF Inv, TypeOK
  <2> QED BY <1>5, <2>1, PutKeepsInv DEF ClientPut
<1> QED BY <1>1, <1>2, <1>3, <1>4, <1>5 DEF ClientStep

\* What a handler remembers always agrees with what it read.
THEOREM InductiveInvariant == Spec => []Inv
<1>1. Init => Inv
  BY SiteAssumption DEF Init, Inv, TypeOK, Remembers
<1>2. Inv /\ [Next]_vars => Inv'
  <2> SUFFICES ASSUME Inv, [Next]_vars PROVE Inv'
    OBVIOUS
  <2>1. CASE Delete
    <3>1. TypeOK'
      BY <2>1, SiteAssumption DEF Delete, Inv, TypeOK
    <3>2. \A c \in Clients : Remembers(c)'
      BY <2>1, RemembersUntouched DEF Delete, Inv
    <3> QED BY <3>1, <3>2 DEF Inv
  <2>2. CASE Tick
    <3>1. TypeOK'
      BY <2>2, SiteAssumption DEF Tick, Inv, TypeOK
    <3>2. \A c \in Clients : Remembers(c)'
      BY <2>2, RemembersUntouched DEF Tick, Inv
    <3> QED BY <3>1, <3>2 DEF Inv
  <2>3. ASSUME NEW c \in Clients, ClientStep(c) PROVE Inv'
    BY <2>3, ClientStepKeepsInv
  <2>4. CASE UNCHANGED vars
    <3>1. TypeOK'
      BY <2>4 DEF vars, Inv, TypeOK
    <3>2. \A c \in Clients : Remembers(c)'
      BY <2>4, RemembersUntouched DEF vars, Inv
    <3> QED BY <3>1, <3>2 DEF Inv
  <2> QED BY <2>1, <2>2, <2>3, <2>4 DEF Next
<1> QED BY <1>1, <1>2, PTL DEF Spec

\* Every variable keeps to its kind, for every application.
THEOREM TypeCorrect == Spec => []TypeOK
<1>1. Inv => TypeOK
  BY DEF Inv
<1> QED BY <1>1, InductiveInvariant, PTL

(***************************************************************************)
(* An application whose GET sends strong tags and whose PUT checks them.   *)
(***************************************************************************)
CheckedSite == Tagging = "strong" /\ PutChecks

\* How a PUT handler ends.
LEMMA PutOutcome ==
    ASSUME Inv, NEW c \in Clients, NEW headers, NEW body,
           PutHandler(c, headers, body), PutChecks
    PROVE  /\ status'[c] = "200" =>
                  Check(headers, CurrentState, Require) = "proceed" /\ doc' = body
           /\ status'[c] \in {"412", "428"} =>
                  /\ Check(headers, CurrentState, Require) = status'[c]
           /\ status'[c] # "200" => doc' = doc
<1>1. \/ status'[c] = "422" /\ doc' = doc
      \/ /\ Check(headers, CurrentState, Require) # "proceed"
         /\ status'[c] = Check(headers, CurrentState, Require)
         /\ doc' = doc
      \/ /\ Check(headers, CurrentState, Require) = "proceed"
         /\ status'[c] = "200"
         /\ doc' = body
  BY DEF PutHandler, Finish, Inv, TypeOK
<1>2. Check(headers, CurrentState, Require) \in {"proceed", "412", "428"}
  BY CheckAnswers
<1> QED BY <1>1, <1>2

\* The status of a client changes in its own steps only, and Ask clears it.
LEMMA StatusIsOnesOwn ==
    ASSUME Inv, [Next]_vars, NEW c \in Clients,
           status'[c] # status[c], status'[c] # "none"
    PROVE  InternalGet(c) \/ Merge(c) \/ InternalPut(c) \/ ClientPut(c)
<1>1. CASE Delete \/ Tick \/ UNCHANGED vars
  BY <1>1 DEF Delete, Tick, vars
<1>2. ASSUME NEW e \in Clients, ClientStep(e), e # c
      PROVE  FALSE
  BY <1>2 DEF ClientStep, Ask, InternalGet, Merge, InternalPut, ClientPut,
              PutHandler, Finish, Inv, TypeOK
<1>3. CASE ClientStep(c)
  <2>1. ~Ask(c)
    BY DEF Ask, Inv, TypeOK
  <2> QED BY <1>3, <2>1 DEF ClientStep
<1> QED BY <1>1, <1>2, <1>3 DEF Next

\* A PATCH that takes effect does so in the step of its internal PUT.
LEMMA EffectIsInternalPut ==
    ASSUME Inv, [Next]_vars, NEW c \in Clients, PatchTakesEffect(c)
    PROVE  InternalPut(c)
<1>1. pc[c] = "internalput" /\ status[c] = "none" /\ status'[c] = "200"
  BY DEF PatchTakesEffect, Inv, Remembers
<1> QED BY <1>1, StatusIsOnesOwn DEF InternalGet, Merge, ClientPut

\* The tag the internal PUT carries is the tag of what was read.
LEMMA PropagatedTag ==
    ASSUME Inv, CheckedSite, NEW c \in Clients, pc[c] = "internalput"
    PROVE  /\ got[c].body \in Docs
           /\ got[c].etag = [weak |-> FALSE, of |-> got[c].body]
           /\ PropagatedHeaders(c).ifMatch = {got[c].etag}
           /\ {got[c].etag} # NoHeader /\ {got[c].etag} # Star
<1>1. got[c].body \in Docs /\ got[c].etag = ETagOf(got[c].body)
  BY DEF Inv, Remembers, Responses
<1>2. /\ got[c].etag = [weak |-> FALSE, of |-> got[c].body]
      /\ got[c].etag # NoETag
      /\ got[c].etag \in ETags
  BY <1>1, ETagOfDocument DEF CheckedSite
<1>3. {got[c].etag} \in SUBSET ETags
  BY <1>2
<1> QED BY <1>1, <1>2, <1>3, MarkersAssumption DEF PropagatedHeaders

\* Such a PUT goes ahead only on the very document that was read.
LEMMA PutSeesWhatGetRead ==
    ASSUME Inv, CheckedSite, NEW c \in Clients, pc[c] = "internalput"
    PROVE  /\ Check(PropagatedHeaders(c), CurrentState, Require) = "proceed"
              <=> doc = got[c].body
           /\ Check(PropagatedHeaders(c), CurrentState, Require) # "428"
<1> DEFINE read == got[c].body
           tag == [weak |-> FALSE, of |-> read]
<1>1. /\ read \in Docs
      /\ PropagatedHeaders(c).ifMatch = {tag}
      /\ {tag} # NoHeader /\ {tag} # Star
  BY PropagatedTag
<1>2. /\ Check(PropagatedHeaders(c), CurrentState, Require) = "proceed"
         <=> IfMatchMatches({tag}, ETagOf(doc))
      /\ Check(PropagatedHeaders(c), CurrentState, Require) # "428"
  BY <1>1 DEF Check, CurrentState
<1>3. IfMatchMatches({tag}, ETagOf(doc)) <=> doc = read
  <2>1. CASE doc = Missing
    BY <1>1, <2>1, MissingAssumption DEF IfMatchMatches, ETagOf
  <2>2. CASE doc # Missing
    <3>1. doc \in Docs
      BY <2>2 DEF Inv, TypeOK
    <3>2. ETagOf(doc) = [weak |-> FALSE, of |-> doc] /\ ETagOf(doc) # NoETag
      BY <3>1, ETagOfDocument DEF CheckedSite
    <3>3. ~ETagOf(doc).weak /\ ETagOf(doc).of = doc
      BY <3>2
    <3>4. IfMatchMatches({tag}, ETagOf(doc)) <=> ETagOf(doc) = tag
      BY <1>1, <3>2, <3>3 DEF IfMatchMatches
    <3>5. tag.of = read
      OBVIOUS
    <3> QED BY <3>2, <3>3, <3>4, <3>5
  <2> QED BY <2>1, <2>2
<1> QED BY <1>2, <1>3

\* No update is lost: a PATCH that succeeds edits the current document.
THEOREM PatchesAreAtomic ==
    ASSUME CheckedSite PROVE Spec => PatchIsAtomic
<1> DEFINE Atomic ==
          \A c \in Clients : PatchTakesEffect(c) =>
          /\ doc # Missing
          /\ Applies(request[c].patch, doc)
          /\ doc' = Apply(request[c].patch, doc)
<1>1. ASSUME Inv, [Next]_vars
      PROVE  Atomic
  <2> SUFFICES ASSUME NEW c \in Clients, PatchTakesEffect(c)
               PROVE  /\ doc # Missing
                      /\ Applies(request[c].patch, doc)
                      /\ doc' = Apply(request[c].patch, doc)
    OBVIOUS
  <2>1. InternalPut(c) /\ pc[c] = "internalput" /\ status'[c] = "200"
    BY <1>1, EffectIsInternalPut DEF PatchTakesEffect
  <2>2. /\ Check(PropagatedHeaders(c), CurrentState, Require) = "proceed"
        /\ doc' = merged[c]
    BY <1>1, <2>1, PutOutcome DEF InternalPut, CheckedSite
  <2>3. doc = got[c].body /\ got[c].body \in Docs
    BY <1>1, <2>1, <2>2, PutSeesWhatGetRead, PropagatedTag
  <2> QED BY <1>1, <2>1, <2>2, <2>3, MissingAssumption DEF Inv, Remembers
<1>2. Spec => [][Atomic]_vars
  <2> HIDE DEF Atomic
  <2> QED BY <1>1, InductiveInvariant, PTL DEF Spec
<1> QED BY <1>2 DEF PatchIsAtomic

\* A PATCH without conditions fails one only when another write overtook it.
THEOREM RefusalsAreJustified ==
    ASSUME CheckedSite PROVE Spec => RefusedOnlyIfOvertaken
<1> DEFINE Justified ==
          \A c \in Clients :
          /\ request[c].method = "PATCH"
          /\ request[c].ifMatch = NoHeader
          /\ request[c].ifUnmodifiedSince = NoHeader
          /\ status[c] # "412" /\ status'[c] = "412"
          => doc # got[c].body
<1>1. ASSUME Inv, [Next]_vars
      PROVE  Justified
  <2> SUFFICES ASSUME NEW c \in Clients,
                      request[c].method = "PATCH",
                      request[c].ifMatch = NoHeader,
                      request[c].ifUnmodifiedSince = NoHeader,
                      status[c] # "412", status'[c] = "412"
               PROVE  doc # got[c].body
    OBVIOUS
  <2>1. InternalGet(c) \/ Merge(c) \/ InternalPut(c) \/ ClientPut(c)
    BY <1>1, StatusIsOnesOwn
  <2>2. ~ClientPut(c)
    BY <1>1 DEF ClientPut, Inv, Remembers
  <2>3. ~InternalGet(c)
    BY <1>1 DEF InternalGet, Finish, Inv, TypeOK
  <2>4. ~Merge(c)
    <3>1. ClientCheck(c) = "proceed"
      BY DEF ClientCheck, Check
    <3> QED BY <1>1, <3>1 DEF Merge, Finish, Inv, TypeOK
  <2>5. InternalPut(c) /\ pc[c] = "internalput"
    BY <2>1, <2>2, <2>3, <2>4 DEF InternalPut
  <2>6. Check(PropagatedHeaders(c), CurrentState, Require) = "412"
    BY <1>1, <2>5, PutOutcome DEF InternalPut, CheckedSite
  <2> QED BY <1>1, <2>5, <2>6, PutSeesWhatGetRead
<1>2. Spec => [][Justified]_vars
  <2> HIDE DEF Justified
  <2> QED BY <1>1, InductiveInvariant, PTL DEF Spec
<1> QED BY <1>2 DEF RefusedOnlyIfOvertaken

\* From satisfies a PUT that requires a condition on the client's behalf.
THEOREM ConditionsAreSupplied ==
    ASSUME CheckedSite PROVE Spec => []PatchNeedsNoCondition
<1>1. Init => PatchNeedsNoCondition
  BY DEF Init, PatchNeedsNoCondition
<1>2. ASSUME Inv, [Next]_vars, PatchNeedsNoCondition
      PROVE  PatchNeedsNoCondition'
  <2> SUFFICES ASSUME NEW c \in Clients, status'[c] = "428"
               PROVE  request'[c].method = "PUT"
    BY DEF PatchNeedsNoCondition
  <2>1. CASE status'[c] = status[c]
    <3>1. request[c].method = "PUT"
      BY <1>2, <2>1 DEF PatchNeedsNoCondition
    <3>2. request'[c] = request[c]
      BY <1>2, <2>1 DEF Next, vars, Delete, Tick, ClientStep, Ask, InternalGet,
         Merge, InternalPut, ClientPut, PutHandler, Finish, Inv, TypeOK
    <3> QED BY <3>1, <3>2
  <2>2. CASE status'[c] # status[c]
    <3>1. InternalGet(c) \/ Merge(c) \/ InternalPut(c) \/ ClientPut(c)
      BY <1>2, <2>2, StatusIsOnesOwn
    <3>2. ~InternalGet(c)
      BY <1>2, <2>2 DEF InternalGet, Finish, Inv, TypeOK
    <3>3. ~Merge(c)
      <4>1. ClientCheck(c) # "428"
        BY DEF ClientCheck, Check
      <4> QED BY <1>2, <2>2, <4>1 DEF Merge, Finish, Inv, TypeOK
    <3>4. ~InternalPut(c)
      <4>1. ASSUME InternalPut(c)
            PROVE  FALSE
        <5>1. Check(PropagatedHeaders(c), CurrentState, Require) = "428"
          BY <1>2, <4>1, PutOutcome DEF InternalPut, CheckedSite
        <5> QED BY <1>2, <4>1, <5>1, PutSeesWhatGetRead DEF InternalPut
      <4> QED BY <4>1
    <3>5. ClientPut(c) /\ request'[c] = request[c]
      BY <3>1, <3>2, <3>3, <3>4 DEF ClientPut, PutHandler, Finish
    <3> QED BY <1>2, <3>5 DEF ClientPut, Inv, Remembers
  <2> QED BY <2>1, <2>2
<1>3. PatchNeedsNoCondition /\ UNCHANGED vars => PatchNeedsNoCondition'
  BY DEF PatchNeedsNoCondition, vars
<1> QED BY <1>1, <1>2, InductiveInvariant, PTL DEF Spec

(***************************************************************************)
(* Such an application implements ConditionalDocument.                     *)
(***************************************************************************)
\* An answered handler is a done or refused request of the abstract view.
LEMMA FinishAnswers ==
    ASSUME Inv, NEW c \in Clients, pc[c] # "idle", NEW code, code # "none",
           Finish(c, code)
    PROVE  /\ answer[c] = "pending"
           /\ answer' = [answer EXCEPT ![c] =
                            IF code = "200" THEN "done" ELSE "refused"]
           /\ request' = request
<1>1. \A e \in Clients : e # c => pc'[e] = pc[e] /\ status'[e] = status[e]
  BY DEF Finish, Inv, TypeOK
<1>2. pc'[c] = "idle" /\ status'[c] = code
  BY DEF Finish, Inv, TypeOK
<1> QED BY <1>1, <1>2 DEF answer, Finish

\* A step that leaves every pc idle or busy as it was answers nobody.
LEMMA AnswerUntouched ==
    ASSUME Inv, status' = status,
           \A e \in Clients : pc'[e] = "idle" <=> pc[e] = "idle"
    PROVE  answer' = answer
BY DEF answer

\* If-Match satisfied by the tag of a document is an expectation met.
LEMMA MatchIsExpectation ==
    ASSUME CheckedSite, NEW c \in Clients, Inv, NEW d \in Docs \cup {Missing},
           \/ request[c].ifMatch = NoHeader
           \/ IfMatchMatches(request[c].ifMatch, ETagOf(d))
    PROVE  CD!Expects(request[c], d)
<1> DEFINE r == request[c]
<1>1. r.ifMatch \in {NoHeader, Star} \cup SUBSET ETags
  BY RequestFields DEF Inv, TypeOK
<1>2. CASE r.ifMatch = NoHeader
  BY <1>2 DEF CD!Expects
<1>3. CASE r.ifMatch # NoHeader
  <2>1. IfMatchMatches(r.ifMatch, ETagOf(d)) /\ ETagOf(d) # NoETag
    BY <1>3 DEF IfMatchMatches
  <2>2. d # Missing /\ d \in Docs
    BY <2>1 DEF ETagOf
  <2>3. CASE r.ifMatch = Star
    BY <2>2, <2>3 DEF CD!Expects
  <2>4. CASE r.ifMatch # Star
    <3>1. ETagOf(d) = [weak |-> FALSE, of |-> d]
      BY <2>2, ETagOfDocument DEF CheckedSite
    <3>2. ETagOf(d) \in r.ifMatch
      BY <2>1, <2>4 DEF IfMatchMatches
    <3>3. ~ETagOf(d).weak /\ ETagOf(d).of = d
      BY <3>1
    <3> QED BY <1>3, <2>4, <3>2, <3>3 DEF CD!Expects
  <2> QED BY <2>3, <2>4
<1> QED BY <1>2, <1>3

\* Check goes ahead with an If-Match only if it matches.
LEMMA ProceedMeansMatch ==
    ASSUME NEW client, NEW current, NEW require,
           Check(client, current, require) = "proceed"
    PROVE  client.ifMatch = NoHeader \/ IfMatchMatches(client.ifMatch, current.etag)
BY DEF Check

\* The internal PUT is an edit of the current document, or a refusal.
LEMMA InternalPutImplements ==
    ASSUME CheckedSite, Inv, NEW c \in Clients, InternalPut(c)
    PROVE  CD!Edit(c) \/ CD!Refuse(c)
<1>1. pc[c] = "internalput" /\ request[c].method = "PATCH"
  BY DEF InternalPut, Inv, Remembers
<1>2. CASE status'[c] = "200"
  <2>1. /\ Check(PropagatedHeaders(c), CurrentState, Require) = "proceed"
        /\ doc' = merged[c]
    BY <1>2, PutOutcome DEF InternalPut, CheckedSite
  <2>2. doc = got[c].body /\ got[c].body \in Docs
    BY <1>1, <2>1, PutSeesWhatGetRead, PropagatedTag
  <2>3. /\ Applies(request[c].patch, doc)
        /\ doc' = Apply(request[c].patch, doc)
        /\ ClientCheck(c) = "proceed"
        /\ got[c].etag = ETagOf(doc)
    BY <1>1, <2>1, <2>2 DEF Inv, Remembers
  <2>4. CD!Expects(request[c], doc)
    <3>1. \/ request[c].ifMatch = NoHeader
          \/ IfMatchMatches(request[c].ifMatch, ETagOf(doc))
      BY <2>3 DEF ClientCheck, Check
    <3> QED BY <2>2, <3>1, MatchIsExpectation
  <2>5. Finish(c, "200")
    BY <1>2, CheckAnswers DEF InternalPut, PutHandler, Finish, Inv, TypeOK
  <2>6. /\ answer[c] = "pending" /\ request' = request
        /\ answer' = [answer EXCEPT ![c] = "done"]
    BY <1>1, <2>5, FinishAnswers
  <2>7. doc # Missing
    BY <2>2, MissingAssumption
  <2> QED BY <1>1, <2>3, <2>4, <2>6, <2>7 DEF CD!Edit, CD!Applies, CD!Apply,
             Applies, Apply
<1>3. CASE status'[c] # "200"
  <2>1. PICK code \in {"412", "422", "428"} : Finish(c, code)
    BY <1>3, CheckAnswers DEF InternalPut, PutHandler, Finish, Inv, TypeOK
  <2>2. doc' = doc
    BY <1>3, PutOutcome DEF InternalPut, CheckedSite
  <2> QED BY <1>1, <2>1, <2>2, FinishAnswers DEF CD!Refuse
<1> QED BY <1>2, <1>3

\* A PUT of a client's own is a replacement, or a refusal.
LEMMA ClientPutImplements ==
    ASSUME CheckedSite, Inv, NEW c \in Clients, ClientPut(c)
    PROVE  CD!Replace(c) \/ CD!Refuse(c)
<1> DEFINE headers == [ifMatch |-> request[c].ifMatch,
                       ifUnmodifiedSince |-> request[c].ifUnmodifiedSince]
<1>1. /\ pc[c] = "put" /\ request[c].method = "PUT"
      /\ PutHandler(c, headers, request[c].body)
  BY DEF ClientPut, Inv, Remembers
<1>2. CASE status'[c] = "200"
  <2>1. /\ Check(headers, CurrentState, Require) = "proceed"
        /\ doc' = request[c].body
    BY <1>1, <1>2, PutOutcome DEF CheckedSite
  <2>2. \/ request[c].ifMatch = NoHeader
        \/ IfMatchMatches(request[c].ifMatch, ETagOf(doc))
    BY <2>1, ProceedMeansMatch DEF CurrentState
  <2>3. CD!Expects(request[c], doc)
    BY <2>2, MatchIsExpectation DEF Inv, TypeOK
  <2>4. Finish(c, "200")
    BY <1>1, <1>2, CheckAnswers DEF PutHandler, Finish, Inv, TypeOK
  <2>5. /\ answer[c] = "pending" /\ request' = request
        /\ answer' = [answer EXCEPT ![c] = "done"]
    BY <1>1, <2>4, FinishAnswers
  <2> QED BY <1>1, <2>1, <2>3, <2>5 DEF CD!Replace
<1>3. CASE status'[c] # "200"
  <2>1. PICK code \in {"412", "422", "428"} : Finish(c, code)
    BY <1>1, <1>3, CheckAnswers DEF PutHandler, Finish, Inv, TypeOK
  <2>2. doc' = doc
    BY <1>1, <1>3, PutOutcome DEF CheckedSite
  <2> QED BY <1>1, <2>1, <2>2, FinishAnswers DEF CD!Refuse
<1> QED BY <1>2, <1>3

\* Each step of a client is a step of the abstract document, or none.
LEMMA ClientStepImplements ==
    ASSUME CheckedSite, Inv, NEW c \in Clients, ClientStep(c)
    PROVE  CD!DocumentNext \/ UNCHANGED CD!documentVars
<1>1. CASE Ask(c)
  <2>1. /\ answer[c] # "pending"
        /\ answer' = [answer EXCEPT ![c] = "pending"]
    <3>1. pc[c] = "idle" /\ pc'[c] # "idle"
      BY <1>1 DEF Ask, Inv, TypeOK
    <3>2. \A e \in Clients : e # c => pc'[e] = pc[e] /\ status'[e] = status[e]
      BY <1>1 DEF Ask, Inv, TypeOK
    <3> QED BY <3>1, <3>2 DEF answer
  <2> QED BY <1>1, <2>1 DEF Ask, CD!Ask, CD!DocumentNext
<1>2. CASE InternalGet(c)
  <2>1. pc[c] = "get" /\ doc' = doc
    BY <1>2 DEF InternalGet
  <2>2. CASE Finish(c, "404") \/ Finish(c, "304")
    BY <2>1, <2>2, FinishAnswers DEF CD!Refuse, CD!DocumentNext
  <2>3. CASE pc' = [pc EXCEPT ![c] = "merge"] /\ UNCHANGED <<request, status>>
    <3>1. answer' = answer
      BY <2>1, <2>3, AnswerUntouched DEF Inv, TypeOK
    <3> QED BY <2>1, <2>3, <3>1 DEF CD!documentVars
  <2> QED BY <1>2, <2>2, <2>3 DEF InternalGet
<1>3. CASE Merge(c)
  <2>1. pc[c] = "merge" /\ doc' = doc
    BY <1>3 DEF Merge
  <2>2. ASSUME NEW code \in {"400", "412", "415", "428", "unread"},
               Finish(c, code)
        PROVE  CD!DocumentNext
    BY <2>1, <2>2, FinishAnswers DEF CD!Refuse, CD!DocumentNext
  <2>3. CASE pc' = [pc EXCEPT ![c] = "internalput"] /\ UNCHANGED <<request, status>>
    <3>1. answer' = answer
      BY <2>1, <2>3, AnswerUntouched DEF Inv, TypeOK
    <3> QED BY <2>1, <2>3, <3>1 DEF CD!documentVars
  <2>4. ClientCheck(c) \in {"proceed", "412", "428"}
    BY CheckAnswers DEF ClientCheck
  <2> QED BY <1>3, <2>2, <2>3, <2>4 DEF Merge
<1>4. CASE InternalPut(c)
  BY <1>4, InternalPutImplements DEF CD!DocumentNext
<1>5. CASE ClientPut(c)
  BY <1>5, ClientPutImplements DEF CD!DocumentNext
<1> QED BY <1>1, <1>2, <1>3, <1>4, <1>5 DEF ClientStep

\* With strong tags and a checking PUT, each PUT and each PATCH behaves as
\* one conditional write of a resource that knows nothing of requests.
THEOREM PatchRefinesDocument ==
    ASSUME CheckedSite PROVE Spec => ImplementsConditionalDocument
<1>1. Init => CD!DocumentInit
  BY DEF Init, answer, CD!DocumentInit, Docs, CD!Docs
<1>2. ASSUME Inv, [Next]_vars
      PROVE  [CD!DocumentNext]_(CD!documentVars)
  <2>1. CASE Delete
    <3>1. answer' = answer
      BY <2>1, AnswerUntouched, <1>2 DEF Delete
    <3> QED BY <2>1, <3>1 DEF Delete, CD!Delete, CD!DocumentNext
  <2>2. CASE Tick
    <3>1. answer' = answer
      BY <2>2, AnswerUntouched, <1>2 DEF Tick
    <3> QED BY <2>2, <3>1 DEF Tick, CD!documentVars
  <2>3. ASSUME NEW c \in Clients, ClientStep(c)
        PROVE  CD!DocumentNext \/ UNCHANGED CD!documentVars
    BY <1>2, <2>3, ClientStepImplements
  <2>4. CASE UNCHANGED vars
    <3>1. answer' = answer
      BY <2>4, AnswerUntouched, <1>2 DEF vars
    <3> QED BY <2>4, <3>1 DEF vars, CD!documentVars
  <2> QED BY <1>2, <2>1, <2>2, <2>3, <2>4 DEF Next
<1> QED BY <1>1, <1>2, InductiveInvariant, PTL
        DEF Spec, ImplementsConditionalDocument, CD!DocumentSpec

(***************************************************************************)
(* An application whose GET sends a date and whose PUT checks it.  Dates   *)
(* are whole seconds, so what follows is weaker than for tags; it holds    *)
(* whatever tags are sent besides.                                         *)
(***************************************************************************)
DatedSite == Dated /\ PutChecks

LEMMA SecondsGrow ==
    ASSUME NEW s \in Nat, NEW t \in Nat, s <= t
    PROVE  /\ Second(s) \in Nat /\ Second(t) \in Nat
           /\ Second(s) <= Second(t)
<1> DEFINE d == TicksPerSecond
<1>1. d \in Nat \ {0}
  BY TicksAssumption
<1> HIDE DEF d
<1>2. /\ s \div d \in Nat /\ t \div d \in Nat
      /\ d * (s \div d) <= s /\ t < d * (t \div d) + d
  BY <1>1
<1>3. s \div d <= t \div d
  BY <1>1
<1> QED BY <1>2, <1>3 DEF Second, d

\* The date that was read is no later than that of the last write.
ReadDate(c) ==
    pc[c] \in {"merge", "internalput"} =>
        /\ got[c].lastModified \in Nat
        /\ got[c].lastModified <= Second(mtime)

\* A handler keeps what it read, or has just read it.
LEMMA ReadOrKept ==
    ASSUME Inv, [Next]_vars, NEW c \in Clients,
           pc'[c] \in {"merge", "internalput"}
    PROVE  \/ pc[c] \in {"merge", "internalput"} /\ got'[c] = got[c]
           \/ got'[c].lastModified = LastModifiedHeader /\ mtime' = mtime
<1>1. CASE Delete \/ Tick \/ UNCHANGED vars
  BY <1>1 DEF Delete, Tick, vars
<1>2. ASSUME NEW e \in Clients, ClientStep(e), e # c
      PROVE  pc'[c] = pc[c] /\ got'[c] = got[c]
  BY <1>2 DEF ClientStep, Ask, InternalGet, Merge, InternalPut, ClientPut,
              PutHandler, Finish, Inv, TypeOK
<1>3. CASE ClientStep(c)
  <2>1. ~Finish(c, status'[c])
    BY DEF Finish, Inv, TypeOK
  <2>2. \A code : ~Finish(c, code)
    BY DEF Finish, Inv, TypeOK
  <2>3. ~Ask(c)
    <3>1. SUFFICES ASSUME Ask(c) PROVE FALSE
      OBVIOUS
    <3>2. PICK r \in Requests :
             pc' = [pc EXCEPT ![c] = IF r.method = "PUT" THEN "put" ELSE "get"]
      BY <3>1 DEF Ask
    <3> QED BY <3>2 DEF Inv, TypeOK
  <2>4. ~InternalPut(c) /\ ~ClientPut(c)
    BY <2>2 DEF InternalPut, ClientPut, PutHandler
  <2>5. CASE InternalGet(c)
    <3> DEFINE response == [body |-> doc,
                            gzip |-> Compressed /\ request[c].gzip,
                            etag |-> ETagOf(doc),
                            lastModified |-> LastModifiedHeader]
    <3>1. got' = [got EXCEPT ![c] = response] /\ mtime' = mtime
      BY <2>2, <2>5 DEF InternalGet
    <3>2. response.lastModified = LastModifiedHeader
      OBVIOUS
    <3> HIDE DEF response
    <3> QED BY <3>1, <3>2 DEF Inv, TypeOK
  <2>6. CASE Merge(c)
    BY <2>2, <2>6 DEF Merge
  <2> QED BY <1>3, <2>3, <2>4, <2>5, <2>6 DEF ClientStep
<1> QED BY <1>1, <1>2, <1>3 DEF Next

LEMMA ReadDatesHold ==
    ASSUME DatedSite PROVE Spec => [](\A c \in Clients : ReadDate(c))
<1> DEFINE Dates == \A c \in Clients : ReadDate(c)
<1>1. Init => Dates
  BY DEF Init, ReadDate
<1>2. ASSUME Inv, Dates, [Next]_vars
      PROVE  Dates'
  <2>1. mtime \in Nat /\ mtime' \in Nat /\ mtime <= mtime'
    <3>1. mtime \in Nat /\ now \in Nat /\ mtime <= now
      BY <1>2, SiteAssumption DEF Inv, TypeOK
    <3>2. mtime' = mtime \/ mtime' = now
      BY <1>2 DEF Next, vars, Delete, Tick, ClientStep, Ask, InternalGet,
                  Merge, InternalPut, ClientPut, PutHandler
    <3> QED BY <3>1, <3>2
  <2>2. /\ Second(mtime) \in Nat /\ Second(mtime') \in Nat
        /\ Second(mtime) <= Second(mtime')
    BY <2>1, SecondsGrow
  <2>3. LastModifiedHeader = Second(mtime)
    BY DEF LastModifiedHeader, DatedSite
  <2> SUFFICES ASSUME NEW c \in Clients,
                      pc'[c] \in {"merge", "internalput"}
               PROVE  /\ got'[c].lastModified \in Nat
                      /\ got'[c].lastModified <= Second(mtime')
    BY DEF ReadDate, Second
  <2>4. \/ pc[c] \in {"merge", "internalput"} /\ got'[c] = got[c]
        \/ got'[c].lastModified = LastModifiedHeader /\ mtime' = mtime
    BY <1>2, ReadOrKept
  <2>5. CASE pc[c] \in {"merge", "internalput"} /\ got'[c] = got[c]
    BY <1>2, <2>2, <2>5 DEF ReadDate
  <2>6. CASE got'[c].lastModified = LastModifiedHeader /\ mtime' = mtime
    BY <2>2, <2>3, <2>6
  <2> QED BY <2>4, <2>5, <2>6
<1> HIDE DEF Dates
<1>3. Spec => []Dates
  BY <1>1, <1>2, InductiveInvariant, PTL DEF Spec
<1> QED BY <1>3 DEF Dates

\* A document with a tag is the only one with it.
LEMMA TagTellsDocument ==
    ASSUME NEW d, NEW e, ETagOf(d) # NoETag, ETagOf(e) = ETagOf(d)
    PROVE  d = e
<1>1. ETagOf(d).of = d /\ ETagOf(e).of = e
  BY DEF ETagOf
<1> QED BY <1>1

\* With dates an update is lost only to a write in the same second or to a
\* deletion, whatever the client's own conditions were.
THEOREM UpdatesLostWithinSecond ==
    ASSUME DatedSite PROVE Spec => StaleOnlyWithinSecond
<1> DEFINE Dates == \A c \in Clients : ReadDate(c)
           Stale == \A c \in Clients : PatchTakesEffect(c) =>
                       \/ doc = Missing
                       \/ doc = got[c].body
                       \/ Second(mtime) = got[c].lastModified
<1>1. ASSUME Inv, Dates, [Next]_vars
      PROVE  Stale
  <2> SUFFICES ASSUME NEW c \in Clients, PatchTakesEffect(c), doc # Missing
               PROVE  \/ doc = got[c].body
                      \/ Second(mtime) = got[c].lastModified
    OBVIOUS
  <2> DEFINE headers == PropagatedHeaders(c)
             read == got[c]
  <2>1. InternalPut(c) /\ pc[c] = "internalput" /\ status'[c] = "200"
    BY <1>1, EffectIsInternalPut DEF PatchTakesEffect
  <2>2. Check(headers, CurrentState, Require) = "proceed"
    BY <1>1, <2>1, PutOutcome DEF InternalPut, DatedSite
  <2>3. /\ read.etag = ETagOf(read.body) /\ read.etag \in ETags \cup {NoETag}
        /\ ClientCheck(c) = "proceed"
    BY <1>1, <2>1 DEF Inv, Remembers, Responses
  <2>4. read.lastModified \in Nat /\ read.lastModified <= Second(mtime)
    BY <1>1, <2>1 DEF ReadDate
  <2>5. mtime \in Nat /\ Second(mtime) \in Nat
    <3>1. mtime \in Nat
      BY <1>1, SiteAssumption DEF Inv, TypeOK
    <3> QED BY <3>1, SecondsGrow
  <2>6. headers.ifMatch = IF read.etag # NoETag THEN {read.etag}
                          ELSE request[c].ifMatch
    BY DEF PropagatedHeaders
  <2>7. headers.ifUnmodifiedSince = read.lastModified
          /\ read.lastModified # Unreadable /\ read.lastModified # NoHeader
    BY <2>4, MarkersAssumption DEF PropagatedHeaders
  <2>8. /\ CurrentState.etag = ETagOf(doc)
        /\ CurrentState.lastModified = mtime /\ mtime # Untracked
    BY <2>5, MarkersAssumption DEF CurrentState, DatedSite
  <2>9. CASE headers.ifMatch # NoHeader
    <3>1. IfMatchMatches(headers.ifMatch, ETagOf(doc))
      BY <2>2, <2>8, <2>9 DEF Check
    <3>2. CASE read.etag # NoETag
      <4>1. headers.ifMatch = {read.etag} /\ {read.etag} \in SUBSET ETags
        BY <2>3, <2>6, <3>2
      <4>2. {read.etag} # Star
        BY <4>1, MarkersAssumption
      <4>3. ETagOf(doc) = ETagOf(read.body) /\ ETagOf(doc) # NoETag
        BY <2>3, <3>1, <4>1, <4>2 DEF IfMatchMatches
      <4> QED BY <4>3, TagTellsDocument
    <3>3. CASE read.etag = NoETag
      <4>1. request[c].ifMatch # NoHeader
        BY <2>6, <2>9, <3>3
      <4>2. ~IfMatchMatches(request[c].ifMatch, read.etag)
        BY <3>3 DEF IfMatchMatches
      <4>3. ClientCheck(c) # "proceed"
        BY <4>1, <4>2 DEF ClientCheck, Check
      <4> QED BY <2>3, <4>3
    <3> QED BY <3>2, <3>3
  <2>10. CASE headers.ifMatch = NoHeader
    <3>1. UnmodifiedSince(read.lastModified, mtime)
      BY <2>2, <2>7, <2>8, <2>10 DEF Check
    <3>2. Second(mtime) <= read.lastModified
      BY <2>7, <2>8, <3>1 DEF UnmodifiedSince
    <3> QED BY <2>4, <2>5, <3>2
  <2> QED BY <2>9, <2>10
<1>2. Spec => []Dates
  BY ReadDatesHold
<1>3. Spec => [][Stale]_vars
  <2> HIDE DEF Stale, Dates
  <2> QED BY <1>1, <1>2, InductiveInvariant, PTL DEF Spec
<1> QED BY <1>3 DEF StaleOnlyWithinSecond
=============================================================================
