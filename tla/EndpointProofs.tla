--------------------------- MODULE EndpointProofs ---------------------------
(***************************************************************************)
(* Proofs about Endpoint and Registries, for every request type, every set *)
(* of rules and sanitizers and any number of registrations.                *)
(***************************************************************************)
EXTENDS Endpoint, TLAPS, FiniteSetTheorems

Validators == {"unbuilt", "built", "failed"}

(***************************************************************************)
(* Set-up.  A sanitizer gets into the registry only after the seeding has  *)
(* run: RegisterFunc seeds in a critical section of its own, so that it is *)
(* the calls between their two sections that carry this over.              *)
(***************************************************************************)
SetUp ==
    /\ funcs \in [FuncNames -> FuncVersions \cup {"builtin", NoFunc}]
    /\ seeded \in BOOLEAN
    /\ entering \subseteq FuncNames \X FuncVersions
    /\ (entering # {} \/ \E n \in FuncNames : funcs[n] # NoFunc) => seeded
    /\ customRules \in [RuleTags -> RuleVersions \cup {NoRule}]
    /\ defaultValidator.state \in Validators
    /\ endpoint \in {"none", "built", "served"}
    /\ endpoint # "none" =>
          /\ defaultValidator.state = "built"
          /\ \A n \in UsedFuncs : funcs[n] # NoFunc

LEMMA InitSetsUp == Init => SetUp
<1>1. Init => /\ funcs = [n \in FuncNames |-> NoFunc] /\ entering = {}
              /\ customRules = [t \in RuleTags |-> NoRule]
              /\ seeded = FALSE /\ endpoint = "none"
              /\ defaultValidator.state = "unbuilt"
  BY DEF Init, RegistriesInit, NoRules
<1>2. Init => \A n \in FuncNames : funcs[n] = NoFunc
  BY <1>1
<1> QED BY <1>1, <1>2 DEF SetUp, Validators

LEMMA SetUpIsKept ==
    ASSUME SetUp, [Next]_vars PROVE SetUp'
<1>1. CASE UNCHANGED registryVars
  BY <1>1 DEF SetUp, registryVars
<1>2. ASSUME NEW t \in RuleTags, NEW v \in RuleVersions,
             RegisterCustomRule(t, v)
      PROVE  SetUp'
  BY <1>2 DEF RegisterCustomRule, SetUp
<1>3. ASSUME NEW n \in FuncNames, NEW v \in FuncVersions,
             RegisterFuncEnter(n, v)
      PROVE  SetUp'
  <2>1. funcs' = Seeded /\ seeded' = TRUE
    BY <1>3 DEF RegisterFuncEnter
  <2>2. funcs' \in [FuncNames -> FuncVersions \cup {"builtin", NoFunc}]
    BY <2>1 DEF Seeded, SetUp
  <2>3. \A m \in FuncNames : funcs[m] # NoFunc => funcs'[m] # NoFunc
    BY <2>1, FuncsAssumption DEF Seeded, SetUp
  <2> QED BY <1>3, <2>1, <2>2, <2>3, FuncsAssumption DEF RegisterFuncEnter, SetUp
<1>4. ASSUME NEW n \in FuncNames, NEW v \in FuncVersions, RegisterFunc(n, v)
      PROVE  SetUp'
  <2>1. /\ <<n, v>> \in entering
        /\ funcs' = [funcs EXCEPT ![n] = v]
        /\ entering' = entering \ {<<n, v>>}
        /\ UNCHANGED <<seeded, customRules, defaultValidator, endpoint>>
    BY <1>4 DEF RegisterFunc
  <2>2. seeded
    BY <2>1 DEF SetUp
  <2>3. \A m \in UsedFuncs : funcs[m] # NoFunc => funcs'[m] # NoFunc
    BY <2>1, FuncsAssumption DEF SetUp
  <2>4. funcs' \in [FuncNames -> FuncVersions \cup {"builtin", NoFunc}]
    BY <2>1 DEF SetUp
  <2> QED BY <2>1, <2>2, <2>3, <2>4 DEF SetUp
<1>5. CASE BuildEndpoint
  <2>1. Default.state \in {"built", "failed"}
    BY DEF Default, SetUp, Validators
  <2>2. /\ defaultValidator' = Default
        /\ UNCHANGED <<customRules, entering>>
        /\ endpoint = "none"
    BY <1>5 DEF BuildEndpoint
  <2>3. CASE Default.state = "failed"
    BY <1>5, <2>1, <2>2, <2>3 DEF BuildEndpoint, SetUp, Validators
  <2>4. CASE Default.state # "failed"
    <3>1. /\ funcs' = IF UsedFuncs = {} THEN funcs ELSE Seeded
          /\ seeded' = (seeded \/ UsedFuncs # {})
          /\ endpoint' = IF Prepared THEN "built" ELSE "none"
      BY <1>5, <2>4 DEF BuildEndpoint
    <3>2. funcs' \in [FuncNames -> FuncVersions \cup {"builtin", NoFunc}]
      BY <3>1 DEF Seeded, SetUp
    <3>3. endpoint' # "none" => \A n \in UsedFuncs : funcs'[n] # NoFunc
      BY <3>1 DEF Prepared
    <3>4. endpoint' \in {"none", "built", "served"} /\ seeded' \in BOOLEAN
      BY <3>1 DEF SetUp
    <3>5. (entering' # {} \/ \E n \in FuncNames : funcs'[n] # NoFunc) => seeded'
      BY <2>2, <3>1 DEF SetUp
    <3> QED BY <2>1, <2>2, <2>4, <3>2, <3>3, <3>4, <3>5 DEF SetUp, Validators
  <2> QED BY <2>3, <2>4
<1>6. CASE RegisterRoute
  BY <1>6 DEF RegisterRoute, SetUp
<1>7. Receive \/ Pipeline \/ UNCHANGED vars => UNCHANGED registryVars
  BY DEF Receive, Pipeline, vars, MaxBodyBytes, AllowContentType, Accept,
         BindPath, BindQuery, BindHeader, BindFrom, BindJSON, Bound, Sanitize,
         Validate, HandlerFails, HandlerReturns, Call, Refuse, Proceed
<1> QED BY <1>1, <1>2, <1>3, <1>4, <1>5, <1>6, <1>7 DEF Next, Registration

\* A step that seeds leaves every function an application registered.
LEMMA SeedingKeeps ==
    ASSUME SetUp, NEW n \in FuncNames, funcs[n] \in FuncVersions
    PROVE  Seeded[n] = funcs[n]
  BY FuncsAssumption DEF SetUp, Seeded

LEMMA StepKeepsReplaced ==
    ASSUME SetUp, [Next]_vars, NEW n \in FuncNames, funcs[n] \in FuncVersions
    PROVE  funcs'[n] \in FuncVersions
<1>1. CASE UNCHANGED funcs
  BY <1>1
<1>2. ASSUME NEW m \in FuncNames, NEW v \in FuncVersions,
             RegisterFuncEnter(m, v)
      PROVE  funcs'[n] \in FuncVersions
  BY <1>2, SeedingKeeps DEF RegisterFuncEnter
<1>3. ASSUME NEW m \in FuncNames, NEW v \in FuncVersions, RegisterFunc(m, v)
      PROVE  funcs'[n] \in FuncVersions
  BY <1>3 DEF RegisterFunc, SetUp
<1>4. CASE BuildEndpoint
  BY <1>4, SeedingKeeps DEF BuildEndpoint
<1>5. \A t \in RuleTags, v \in RuleVersions :
         RegisterCustomRule(t, v) => UNCHANGED funcs
  BY DEF RegisterCustomRule
<1>6. RegisterRoute \/ Receive \/ Pipeline \/ UNCHANGED vars => UNCHANGED funcs
  BY DEF RegisterRoute, Receive, Pipeline, vars, registryVars, MaxBodyBytes,
         AllowContentType, Accept, BindPath, BindQuery, BindHeader, BindFrom,
         BindJSON, Bound, Sanitize, Validate, HandlerFails, HandlerReturns,
         Call, Refuse, Proceed
<1> QED BY <1>1, <1>2, <1>3, <1>4, <1>5, <1>6 DEF Next, Registration

THEOREM SetUpInvariant == Spec => []SetUp
<1> QED BY InitSetsUp, SetUpIsKept, PTL DEF Spec

\* Whoever registers, builds or seeds first, and however the two halves of
\* RegisterFunc interleave with them, a replaced sanitizer stays replaced.
THEOREM ReplacementsStay == Spec => ReplacedStaysReplaced
<1>1. SetUp /\ [Next]_vars =>
        [\A n \in FuncNames :
            funcs[n] \in FuncVersions => funcs'[n] \in FuncVersions]_vars
  BY StepKeepsReplaced
<1> QED BY <1>1, SetUpInvariant, PTL DEF Spec, ReplacedStaysReplaced

-----------------------------------------------------------------------------
(***************************************************************************)
(* One request.  What is wrong with it in each source is fixed when it     *)
(* arrives; binding collects it source by source, and whatever it found    *)
(* decides at the end, at once, what happens next.                         *)
(***************************************************************************)
FaultsAt(place) ==
    {Invalid(place, f) : f \in
        {g \in Fields : /\ Offers(place, g)
                       /\ ~Parses(g.kind, request.texts[<<place, g.name>>])}}

\* What binding has found by the time it comes to a place.
Collected ==
    IF pc = "query" THEN FaultsAt("path")
    ELSE IF pc = "header" THEN FaultsAt("path") \cup FaultsAt("query")
    ELSE IF pc = "body"
    THEN FaultsAt("path") \cup FaultsAt("query") \cup FaultsAt("header")
    ELSE IF pc = "bound" THEN Faults
    ELSE {}

Running == {"idle", "limit", "type", "accept", "path", "query", "header",
            "body", "bound", "sanitize", "validate", "handler"}

\* A body that is too long and says so gets no further than the limit.
Announced == TooLong /\ request.sized

Progress ==
    /\ pc \in Running \cup {"done"}
    /\ config \in [limit: BOOLEAN, types: BOOLEAN]
    /\ request \in IF pc = "idle" THEN {NoRequest} ELSE Requests
    /\ pc # "idle" => endpoint = "served"
    /\ pc \in Running \ {"idle", "limit"} => ~Announced
    /\ pc \in Running => /\ errors = Collected
                         /\ answer = NoAnswer
                         /\ called = <<>>
    /\ pc \in {"sanitize", "validate", "handler"} => Faults = {}

\* The answer, by the step that gave it.
Refusal ==
    \/ answer.by = "limit" /\ Announced /\ answer.status = 413
    \/ answer.by \in {"type", "accept"} /\ answer.status \in {400, 406, 415}

Verdict ==
    pc = "done" =>
        \/ Refusal /\ answer.errors = {} /\ called = <<>>
        \/ /\ ~Announced
           /\ answer.by = "bound" /\ Faults # {} /\ called = <<>>
           /\ answer.errors = Faults /\ answer.status \in {400, 413}
           /\ answer.status = 413 <=> CutShort
        \/ /\ ~Announced
           /\ answer.by = "validate" /\ Faults = {} /\ called = <<>>
           /\ \/ answer.status = 500 /\ answer.errors = {}
              \/ answer.status = ValidationStatus(answer.errors)
           /\ \A e \in answer.errors :
                 \/ e.code \in {BuiltinCodes[t] : t \in DOMAIN BuiltinCodes}
                 \/ e.code \in {RuleCodes[v] : v \in RuleVersions}
                 \/ e.code = "validation_failed"
        \/ /\ ~Announced
           /\ answer.by = "handler" /\ Faults = {} /\ answer.errors = {}
           /\ answer.status \in {200, 400, 500} \cup Problems

Inv == SetUp /\ Progress /\ Verdict

\* Places x Fields, place by place.
LEMMA FaultsBySource ==
    Faults = FaultsAt("path") \cup FaultsAt("query") \cup FaultsAt("header")
                 \cup BodyError
<1> DEFINE Bad == {x \in Places \X Fields :
                      /\ Offers(x[1], x[2])
                      /\ ~Parses(x[2].kind, request.texts[<<x[1], x[2].name>>])}
<1>1. ASSUME NEW x \in Bad
      PROVE  \E p \in Places : Invalid(x[1], x[2]) \in FaultsAt(p)
  BY DEF FaultsAt
<1>2. ASSUME NEW p \in Places, NEW e \in FaultsAt(p)
      PROVE  e \in {Invalid(x[1], x[2]) : x \in Bad}
  <2>1. PICK f \in Fields : /\ e = Invalid(p, f) /\ Offers(p, f)
                            /\ ~Parses(f.kind, request.texts[<<p, f.name>>])
    BY DEF FaultsAt
  <2>2. <<p, f>> \in Bad
    BY <2>1
  <2>3. e = Invalid(<<p, f>>[1], <<p, f>>[2])
    BY <2>1
  <2> QED BY <2>2, <2>3
<1>3. Faults = {Invalid(x[1], x[2]) : x \in Bad} \cup BodyError
  BY DEF Faults
<1>4. \A p \in Places : FaultsAt(p) \subseteq Faults
  BY <1>2, <1>3
<1>5. ASSUME NEW e \in Faults, e \notin BodyError
      PROVE  \E p \in Places : e \in FaultsAt(p)
  <2>1. PICK x \in Bad : e = Invalid(x[1], x[2])
    BY <1>3, <1>5
  <2> QED BY <1>1, <2>1
<1>6. BodyError \subseteq Faults
  BY <1>3
<1> HIDE DEF Bad
<1> QED BY <1>4, <1>5, <1>6 DEF Places

\* While the request and the configuration stay, so do its faults.
LEMMA FaultsStay ==
    ASSUME UNCHANGED <<request, config>>
    PROVE  /\ Faults' = Faults /\ BodyError' = BodyError /\ TooLong' = TooLong
           /\ CutShort' = CutShort /\ Announced' = Announced
           /\ FaultsAt("path")' = FaultsAt("path")
           /\ FaultsAt("query")' = FaultsAt("query")
           /\ FaultsAt("header")' = FaultsAt("header")
<1>1. /\ TooLong' = TooLong /\ BodyError' = BodyError
      /\ CutShort' = CutShort /\ Announced' = Announced
  BY DEF TooLong, CutShort, Announced, BodyError
<1>2. /\ FaultsAt("path")' = FaultsAt("path")
      /\ FaultsAt("query")' = FaultsAt("query")
      /\ FaultsAt("header")' = FaultsAt("header")
  BY DEF FaultsAt, Offers
<1>3. Faults' = Faults
  BY <1>1 DEF Faults, Offers
<1> QED BY <1>1, <1>2, <1>3

\* The codes of binding: only a body cut off at the limit asks for 413.
LEMMA BindingStatus ==
    /\ ValidationStatus(Faults) \in {400, 413}
    /\ ValidationStatus(Faults) = 413 <=> CutShort
<1>1. ASSUME NEW p, NEW e \in FaultsAt(p) PROVE e.code = "invalid_type"
  <2>1. PICK f \in Fields : e = Invalid(p, f)
    BY DEF FaultsAt
  <2> QED BY <2>1 DEF Invalid
<1>2. ASSUME CutShort PROVE \E e \in BodyError : e.code = "payload_too_large"
  <2> DEFINE e == [in |-> "body", field |-> "/", code |-> "payload_too_large"]
  <2>1. e \in BodyError
    BY <1>2 DEF BodyError
  <2>2. e.code = "payload_too_large"
    OBVIOUS
  <2> QED BY <2>1, <2>2
<1>3. ASSUME ~CutShort, NEW e \in BodyError PROVE e.code # "payload_too_large"
  <2>1. PICK c \in {"malformed_json", "invalid_type"} :
           e = [in |-> "body", field |-> "/", code |-> c]
    BY <1>3 DEF BodyError
  <2> QED BY <2>1
<1> QED BY <1>1, <1>2, <1>3, FaultsBySource DEF ValidationStatus, Override

\* What one binder adds.
LEMMA BinderCollects ==
    ASSUME NEW place, NEW next, BindFrom(place, next)
    PROVE  /\ errors' = errors \cup FaultsAt(place)
           /\ pc = place /\ pc' = next
           /\ UNCHANGED <<registryVars, config, request, answer, called>>
  BY DEF BindFrom, FaultsAt

LEMMA InitProgresses == Init => Progress /\ Verdict
  BY DEF Init, Progress, Verdict, Running, Collected

\* A step that leaves the request where it is.
LEMMA NothingHappens ==
    ASSUME Inv, UNCHANGED pipelineVars,
           endpoint = "served" => endpoint' = "served"
    PROVE  Progress' /\ Verdict'
<1>1. UNCHANGED <<config, request, pc, errors, answer, called>>
  BY DEF pipelineVars
<1>2. /\ Collected' = Collected /\ Faults' = Faults
      /\ CutShort' = CutShort /\ Announced' = Announced
  BY <1>1, FaultsStay DEF Collected
<1>3. Progress'
  BY <1>1, <1>2 DEF Inv, Progress
<1>4. Verdict'
  <2>1. Refusal' <=> Refusal
    BY <1>1, <1>2 DEF Refusal
  <2> QED BY <1>1, <1>2, <2>1 DEF Inv, Verdict, ValidationStatus
<1> QED BY <1>3, <1>4

\* A step to the next stage, with what it has found.
LEMMA GoesOn ==
    ASSUME Inv, pc \in Running, pc # "idle", pc' \in Running, pc' # "idle",
           UNCHANGED <<endpoint, config, request, answer, called>>,
           errors' = Collected',
           pc' \in {"sanitize", "validate", "handler"} => Faults = {},
           pc' \in Running \ {"idle", "limit"} => ~Announced
    PROVE  Progress' /\ Verdict'
<1>1. Faults' = Faults /\ Announced' = Announced
  BY FaultsStay
<1>2. "done" \notin Running
  BY DEF Running
<1> QED BY <1>1, <1>2 DEF Inv, Progress, Verdict

\* The end of the request, by way of a problem or the handler's answer.
LEMMA Ends ==
    ASSUME Inv, pc' = "done", pc \in Running, pc # "idle",
           UNCHANGED <<endpoint, config, request>>
    PROVE  Progress'
<1>1. "done" \notin Running \cup {"idle", "sanitize", "validate", "handler"}
  BY DEF Running
<1> QED BY <1>1 DEF Inv, Progress

LEMMA SetUpLeavesRequest ==
    ASSUME Inv, Registration, UNCHANGED pipelineVars
    PROVE  Progress' /\ Verdict'
<1>1. endpoint = "served" => endpoint' = "served"
  BY DEF Registration, RegisterCustomRule, RegisterFuncEnter, RegisterFunc,
         BuildEndpoint, RegisterRoute
<1> QED BY <1>1, NothingHappens

LEMMA ReceiveStarts == ASSUME Inv, Receive PROVE Progress' /\ Verdict'
<1>1. /\ pc = "idle" /\ endpoint = "served" /\ pc' = "limit"
      /\ request' \in Requests
      /\ UNCHANGED <<endpoint, config, errors, answer, called>>
  BY DEF Receive, registryVars
<1>2. /\ errors = {} /\ answer = NoAnswer /\ called = <<>>
      /\ config \in [limit: BOOLEAN, types: BOOLEAN]
  BY <1>1 DEF Inv, Progress, Running, Collected
<1> QED BY <1>1, <1>2 DEF Progress, Verdict, Running, Collected

LEMMA FrontSteps ==
    ASSUME Inv, MaxBodyBytes \/ AllowContentType \/ Accept
    PROVE  Progress' /\ Verdict'
<1>1. /\ pc \in {"limit", "type", "accept"} /\ pc \in Running
      /\ UNCHANGED <<endpoint, config, request, errors, called>>
      /\ errors = {} /\ answer = NoAnswer /\ called = <<>>
      /\ pc # "limit" => ~Announced
  BY DEF MaxBodyBytes, AllowContentType, Accept, Refuse, Proceed, Inv,
         Progress, Running, Collected, registryVars
<1>2. CASE pc' = "done"
  <2>1. /\ answer'.errors = {}
        /\ \/ answer'.by = "limit" /\ Announced /\ answer'.status = 413
           \/ answer'.by \in {"type", "accept"} /\ answer'.status \in {400, 406, 415}
    BY <1>1, <1>2 DEF MaxBodyBytes, AllowContentType, Accept, Refuse, Proceed,
                      Announced
  <2>2. Announced' = Announced
    BY <1>1, FaultsStay
  <2>3. Verdict'
    BY <1>1, <2>1, <2>2 DEF Verdict, Refusal
  <2> QED BY <1>1, <1>2, <2>3, Ends
<1>3. CASE pc' # "done"
  <2>1. pc' \in {"type", "accept", "path"} /\ UNCHANGED answer
    BY <1>1, <1>3 DEF MaxBodyBytes, AllowContentType, Accept, Refuse, Proceed
  <2>2. errors' = Collected' /\ pc' \in Running /\ pc' # "idle"
    BY <1>1, <2>1 DEF Collected, Running
  <2>3. ~Announced
    BY <1>1, <1>3 DEF MaxBodyBytes, Refuse, Announced, AllowContentType, Accept
  <2> QED BY <1>1, <2>1, <2>2, <2>3, GoesOn
<1> QED BY <1>2, <1>3

LEMMA BindingSteps ==
    ASSUME Inv, BindPath \/ BindQuery \/ BindHeader \/ BindJSON
    PROVE  Progress' /\ Verdict'
<1>1. /\ pc \in Running /\ pc # "idle"
      /\ pc' \in {"query", "header", "body", "bound"}
      /\ UNCHANGED <<endpoint, config, request, answer, called>>
      /\ errors = Collected /\ ~Announced
  BY DEF BindPath, BindQuery, BindHeader, BindFrom, BindJSON, Inv, Progress,
         Running, registryVars
<1>2. errors' = Collected'
  <2>1. CASE BindPath
    BY <2>1, <1>1, BinderCollects, FaultsStay DEF BindPath, Collected
  <2>2. CASE BindQuery
    BY <2>2, <1>1, BinderCollects, FaultsStay DEF BindQuery, Collected
  <2>3. CASE BindHeader
    BY <2>3, <1>1, BinderCollects, FaultsStay DEF BindHeader, Collected
  <2>4. CASE BindJSON
    <3>1. /\ pc = "body" /\ pc' = "bound" /\ errors' = errors \cup BodyError
      BY <2>4 DEF BindJSON
    <3> QED BY <1>1, <3>1, FaultsStay, FaultsBySource DEF Collected
  <2> QED BY <2>1, <2>2, <2>3, <2>4
<1> QED BY <1>1, <1>2, GoesOn DEF Running

LEMMA BoundStep == ASSUME Inv, Bound PROVE Progress' /\ Verdict'
<1>1. /\ pc = "bound" /\ pc \in Running
      /\ UNCHANGED <<endpoint, config, request, errors, called>>
      /\ errors = Faults /\ called = <<>> /\ ~Announced
  BY DEF Bound, Refuse, Proceed, Inv, Progress, Running, Collected,
         registryVars
<1>2. CASE errors # {}
  <2>1. /\ answer' = [by |-> "bound", status |-> ValidationStatus(Faults),
                      errors |-> Faults]
        /\ pc' = "done"
    BY <1>1, <1>2 DEF Bound, Refuse
  <2>2. Faults' = Faults /\ CutShort' = CutShort /\ Announced' = Announced
    BY <1>1, FaultsStay
  <2>3. Verdict'
    BY <1>1, <1>2, <2>1, <2>2, BindingStatus DEF Verdict
  <2> QED BY <1>1, <2>1, <2>3, Ends
<1>3. CASE errors = {}
  <2>1. pc' = "sanitize" /\ UNCHANGED answer
    BY <1>1, <1>3 DEF Bound, Proceed
  <2> QED BY <1>1, <1>3, <2>1, GoesOn DEF Collected, Running
<1> QED BY <1>2, <1>3

LEMMA SanitizeStep == ASSUME Inv, Sanitize PROVE Progress' /\ Verdict'
<1>1. /\ pc = "sanitize" /\ pc' = "validate"
      /\ UNCHANGED <<endpoint, config, request, errors, answer, called>>
  BY DEF Sanitize, registryVars
<1>2. Faults = {} /\ errors = {} /\ ~Announced
  BY <1>1 DEF Inv, Progress, Running, Collected
<1> QED BY <1>1, <1>2, GoesOn DEF Collected, Running

\* The codes of validation.
LEMMA ValidationCodes ==
    ASSUME SetUp, NEW e \in ValidationErrors
    PROVE  \/ e.code \in {BuiltinCodes[t] : t \in DOMAIN BuiltinCodes}
           \/ e.code \in {RuleCodes[v] : v \in RuleVersions}
           \/ e.code = "validation_failed"
<1>1. PICK f \in Fields : e.code = CodeOf(f.rule)
  BY DEF ValidationErrors
<1>2. f.rule \in RuleTags /\ customRules[f.rule] # NoRule
        => customRules[f.rule] \in RuleVersions
  BY DEF SetUp
<1> QED BY <1>1, <1>2 DEF CodeOf

LEMMA ValidateStep == ASSUME Inv, Validate PROVE Progress' /\ Verdict'
<1>1. /\ pc = "validate" /\ pc \in Running /\ Faults = {} /\ errors = {}
      /\ UNCHANGED <<endpoint, config, request, errors, called>>
      /\ called = <<>> /\ ~Announced
  BY DEF Validate, Refuse, Proceed, Inv, Progress, Running, Collected,
         registryVars
<1>2. CASE pc' = "done"
  <2>1. /\ answer'.by = "validate"
        /\ \/ answer'.status = 500 /\ answer'.errors = {}
           \/ /\ answer'.status = ValidationStatus(ValidationErrors)
              /\ answer'.errors = ValidationErrors
    BY <1>1, <1>2 DEF Validate, Refuse, Proceed
  <2>2. Faults' = Faults /\ Announced' = Announced
    BY <1>1, FaultsStay
  <2>3. /\ \/ answer'.status = 500 /\ answer'.errors = {}
           \/ answer'.status = ValidationStatus(answer'.errors)
        /\ \A e \in answer'.errors : e \in ValidationErrors
    BY <2>1
  <2>4. \A e \in answer'.errors :
           \/ e.code \in {BuiltinCodes[t] : t \in DOMAIN BuiltinCodes}
           \/ e.code \in {RuleCodes[v] : v \in RuleVersions}
           \/ e.code = "validation_failed"
    BY <2>3, ValidationCodes DEF Inv
  <2>5. Verdict'
    BY <1>1, <2>1, <2>2, <2>3, <2>4 DEF Verdict, ValidationStatus
  <2> QED BY <1>1, <1>2, <2>5, Ends
<1>3. CASE pc' # "done"
  <2>1. pc' = "handler" /\ UNCHANGED answer
    BY <1>1, <1>3 DEF Validate, Refuse, Proceed
  <2> QED BY <1>1, <2>1, GoesOn DEF Collected, Running
<1> QED BY <1>2, <1>3

LEMMA HandlerSteps ==
    ASSUME Inv, HandlerFails \/ HandlerReturns
    PROVE  Progress' /\ Verdict'
<1>1. PICK status \in {200, 400, 500} \cup Problems :
         pc = "handler" /\ Call(status)
  <2>1. \A err \in HandlerErrors : Map(err) \in {200, 400, 500} \cup Problems
    BY DEF HandlerErrors, Map
  <2>2. CASE HandlerFails
    BY <2>1, <2>2 DEF HandlerFails
  <2>3. CASE HandlerReturns
    <3>1. \A encodes \in BOOLEAN :
             (IF encodes THEN 200 ELSE 500) \in {200, 400, 500} \cup Problems
      OBVIOUS
    <3> QED BY <2>3, <3>1 DEF HandlerReturns
  <2> QED BY <2>2, <2>3
<1>2. /\ pc' = "done" /\ UNCHANGED <<endpoint, config, request>>
      /\ answer' = [by |-> "handler", status |-> status, errors |-> {}]
  BY <1>1 DEF Call, registryVars
<1>3. Faults = {} /\ pc \in Running /\ ~Announced
  BY <1>1 DEF Inv, Progress, Running
<1>4. Verdict'
  BY <1>2, <1>3, FaultsStay DEF Verdict
<1> QED BY <1>1, <1>2, <1>3, <1>4, Ends

LEMMA StepKeepsInv == ASSUME Inv, [Next]_vars PROVE Inv'
<1>1. UNCHANGED vars => UNCHANGED pipelineVars /\ UNCHANGED endpoint
  BY DEF vars, registryVars
<1>2. UNCHANGED vars => Progress' /\ Verdict'
  BY <1>1, NothingHappens
<1>3. Registration /\ UNCHANGED pipelineVars => Progress' /\ Verdict'
  BY SetUpLeavesRequest
<1>4. Receive => Progress' /\ Verdict'
  BY ReceiveStarts
<1>5. Pipeline => Progress' /\ Verdict'
  BY FrontSteps, BindingSteps, BoundStep, SanitizeStep, ValidateStep,
     HandlerSteps DEF Pipeline
<1>6. Progress' /\ Verdict'
  BY <1>2, <1>3, <1>4, <1>5 DEF Next
<1> QED BY <1>6, SetUpIsKept DEF Inv

LEMMA InvHolds == Spec => []Inv
<1>1. Init => Inv
  BY InitSetsUp, InitProgresses DEF Inv
<1> QED BY <1>1, StepKeepsInv, PTL DEF Spec

-----------------------------------------------------------------------------
(***************************************************************************)
(* What follows for the answer.                                            *)
(***************************************************************************)
\* No rule of the application takes the one code that overrides the status.
NoRuleOverrides ==
    \A v \in RuleVersions : RuleCodes[v] # "payload_too_large"

LEMMA BuiltinsDoNotOverride ==
    \A t \in DOMAIN BuiltinCodes : BuiltinCodes[t] # "payload_too_large"
  BY DEF BuiltinCodes

\* Once the request is read one answer names all faults of all sources, and
\* but for a handler's own it is a 413 exactly if the body is over the limit
\* and says so, or has to be read that far.
THEOREM FaultsTogether ==
    ASSUME NoRuleOverrides PROVE Spec => []FaultsAreReportedTogether
<1>1. ASSUME Inv, pc = "done" PROVE FaultsAreReportedTogether
  <2>1. CASE Refusal /\ answer.errors = {} /\ called = <<>>
    BY <1>1, <2>1 DEF FaultsAreReportedTogether, Refusal, Announced
  <2>2. CASE /\ ~Announced
             /\ answer.by = "bound" /\ Faults # {} /\ called = <<>>
             /\ answer.errors = Faults /\ answer.status \in {400, 413}
             /\ answer.status = 413 <=> CutShort
    BY <1>1, <2>2 DEF FaultsAreReportedTogether, Announced, CutShort
  <2>3. ASSUME Faults = {}, ~Announced
        PROVE  ~(TooLong /\ (request.sized \/ ~request.body.early))
    BY <2>3, BindingStatus DEF ValidationStatus, Announced, CutShort
  <2>4. CASE /\ ~Announced
             /\ answer.by = "validate" /\ Faults = {} /\ called = <<>>
             /\ \/ answer.status = 500 /\ answer.errors = {}
                \/ answer.status = ValidationStatus(answer.errors)
             /\ \A e \in answer.errors :
                   \/ e.code \in {BuiltinCodes[t] : t \in DOMAIN BuiltinCodes}
                   \/ e.code \in {RuleCodes[v] : v \in RuleVersions}
                   \/ e.code = "validation_failed"
    <3>1. \A e \in answer.errors : e.code # "payload_too_large"
      BY <2>4, BuiltinsDoNotOverride DEF NoRuleOverrides
    <3>2. answer.status # 413
      BY <2>4, <3>1 DEF ValidationStatus, Override
    <3> QED BY <1>1, <2>3, <2>4, <3>2 DEF FaultsAreReportedTogether
  <2>5. CASE /\ ~Announced
             /\ answer.by = "handler" /\ Faults = {} /\ answer.errors = {}
             /\ answer.status \in {200, 400, 500} \cup Problems
    BY <1>1, <2>3, <2>5 DEF FaultsAreReportedTogether
  <2> QED BY <1>1, <2>1, <2>2, <2>4, <2>5 DEF Inv, Verdict
<1>2. Inv => FaultsAreReportedTogether
  BY <1>1 DEF FaultsAreReportedTogether
<1> QED BY <1>2, InvHolds, PTL

-----------------------------------------------------------------------------
(***************************************************************************)
(* Types.  The value takes texts from the places of a request, members     *)
(* from its body and what a sanitizer makes of either; details come from   *)
(* binding and from validation.                                            *)
(***************************************************************************)
Statuses == {0, 200, 400, 406, 413, 415, 500} \cup Problems

Typed ==
    /\ dto \in [Names -> Values]
    /\ errors \in SUBSET Details
    /\ answer \in [by: PCs \cup {"nobody"}, status: Statuses, errors: SUBSET Details]
    /\ called \in {<<>>, <<dto>>}

TypeInv == Inv /\ Typed

LEMMA InvalidIsADetail ==
    ASSUME NEW p \in Places, NEW f \in Fields PROVE Invalid(p, f) \in Details
  BY DEF Invalid, Details, Names, Codes

LEMMA BodyErrorsAreDetails == BodyError \subseteq Details
<1>1. ASSUME NEW e \in BodyError PROVE e \in Details
  <2>1. PICK c \in {"payload_too_large", "malformed_json", "invalid_type"} :
           e = [in |-> "body", field |-> "/", code |-> c]
    BY <1>1 DEF BodyError
  <2> QED BY <2>1 DEF Details, Codes
<1> QED BY <1>1

LEMMA ValidationErrorsAreDetails ==
    ASSUME SetUp PROVE ValidationErrors \subseteq Details
<1>1. ASSUME NEW e \in ValidationErrors PROVE e \in Details
  <2>1. PICK f \in Fields :
           e = [in |-> BlamedOn(f), field |-> f.name, code |-> CodeOf(f.rule)]
    BY DEF ValidationErrors
  <2>2. BlamedOn(f) \in Places \cup {"body"} /\ f.name \in Names
    BY DEF BlamedOn, Places, Names
  <2>3. e.code \in Codes
    BY ValidationCodes DEF Codes
  <2> QED BY <2>1, <2>2, <2>3 DEF Details
<1> QED BY <1>1

\* What the body sets is a value.
LEMMA MembersAreValues ==
    ASSUME request \in Requests, NEW n \in DOMAIN Decoded
    PROVE  Decoded[n] \in Values
<1>1. n \in DOMAIN request.body.sets /\ Decoded = request.body.sets
  BY DEF Decoded
<1>2. request.body.sets \in Objects
  BY RequestsAssumption DEF IsBody
<1>3. PICK S \in SUBSET {g.name : g \in {h \in Fields : h.json}} :
         request.body.sets \in [S -> Values]
  BY <1>2 DEF Objects
<1> QED BY <1>1, <1>3

LEMMA BinderTypes ==
    ASSUME TypeInv, NEW place \in Places, NEW next, BindFrom(place, next),
           request \in Requests
    PROVE  dto' \in [Names -> Values] /\ errors' \in SUBSET Details
<1>1. /\ \A n \in Names : request.texts[<<place, n>>] \in Values
      /\ \A n \in Names : dto[n] \in Values
  BY RequestsAssumption DEF TypeInv, Typed
<1>2. dto' \in [Names -> Values]
  BY <1>1 DEF BindFrom
<1>3. FaultsAt(place) \subseteq Details
  BY InvalidIsADetail DEF FaultsAt
<1>4. errors' = errors \cup FaultsAt(place)
  BY BinderCollects
<1> QED BY <1>2, <1>3, <1>4 DEF TypeInv, Typed

\* A refusal by the step at hand.
LEMMA RefusalTypes ==
    ASSUME TypeInv, NEW status \in Statuses, NEW details \in SUBSET Details,
           Refuse(status, details), pc \in PCs
    PROVE  Typed'
  BY DEF Refuse, TypeInv, Typed

LEMMA ProceedTypes == ASSUME TypeInv, NEW next, Proceed(next) PROVE Typed'
  BY DEF Proceed, TypeInv, Typed

LEMMA StepTypes == ASSUME TypeInv, [Next]_vars PROVE Typed'
<1>1. CASE UNCHANGED pipelineVars
  BY <1>1 DEF pipelineVars, TypeInv, Typed
<1>2. CASE Receive
  BY <1>2 DEF Receive, TypeInv, Typed
<1>3. CASE MaxBodyBytes \/ AllowContentType \/ Accept
  <2>1. pc \in PCs /\ {400, 406, 413, 415} \subseteq Statuses
    BY <1>3 DEF MaxBodyBytes, AllowContentType, Accept, PCs, Statuses
  <2>2. {} \in SUBSET Details
    OBVIOUS
  <2>3. \/ \E next : Proceed(next)
        \/ \E status \in {400, 406, 413, 415} : Refuse(status, {})
    BY <1>3 DEF MaxBodyBytes, AllowContentType, Accept
  <2> QED BY <2>1, <2>2, <2>3, RefusalTypes, ProceedTypes
<1>4. CASE BindPath \/ BindQuery \/ BindHeader
  <2>1. /\ pc \in {"path", "query", "header"} /\ called = <<>>
        /\ request \in Requests /\ UNCHANGED <<answer, called>>
    BY <1>4 DEF BindPath, BindQuery, BindHeader, BindFrom, TypeInv, Inv,
                Progress, Running
  <2>2. dto' \in [Names -> Values] /\ errors' \in SUBSET Details
    BY <1>4, <2>1, BinderTypes DEF BindPath, BindQuery, BindHeader, Places
  <2> QED BY <2>1, <2>2 DEF TypeInv, Typed
<1>5. CASE BindJSON
  <2>1. /\ called = <<>> /\ request \in Requests
        /\ UNCHANGED <<answer, called>>
        /\ errors' = errors \cup BodyError
        /\ dto' = [n \in Names |-> IF n \in DOMAIN Decoded THEN Decoded[n]
                                   ELSE dto[n]]
    BY <1>5 DEF BindJSON, TypeInv, Inv, Progress, Running
  <2>2. dto' \in [Names -> Values]
    BY <2>1, MembersAreValues DEF TypeInv, Typed
  <2> QED BY <2>1, <2>2, BodyErrorsAreDetails DEF TypeInv, Typed
<1>6. CASE Bound
  <2>1. /\ pc \in PCs /\ errors \in SUBSET Details
        /\ ValidationStatus(errors) \in Statuses
    BY <1>6 DEF Bound, PCs, TypeInv, Typed, ValidationStatus, Statuses
  <2>2. Proceed("sanitize") \/ Refuse(ValidationStatus(errors), errors)
    BY <1>6 DEF Bound
  <2> QED BY <2>1, <2>2, RefusalTypes, ProceedTypes
<1>7. CASE Sanitize
  <2>1. /\ called = <<>> /\ UNCHANGED <<errors, answer, called>>
        /\ pc = "sanitize"
    BY <1>7 DEF Sanitize, TypeInv, Inv, Progress, Running
  <2>2. ASSUME NEW f \in Fields, Sanitizes(f), NEW v \in Values
        PROVE  Sanitizers[funcs[f.sanitize]][v] \in Values
    <3>1. funcs[f.sanitize] \in {"builtin"} \cup FuncVersions
      BY <2>1, <2>2, FieldsAssumption, FuncsAssumption
         DEF Sanitizes, TypeInv, Inv, Progress, SetUp
    <3> QED BY <3>1, SanitizersAssumption
  <2>3. ASSUME NEW n \in Names PROVE dto'[n] \in Values
    <3>1. dto[n] \in Values
      BY DEF TypeInv, Typed
    <3>2. dto'[n] = IF \E f \in Fields : f.name = n /\ Sanitizes(f)
                    THEN LET f == CHOOSE g \in Fields : g.name = n
                         IN  Sanitizers[funcs[f.sanitize]][dto[n]]
                    ELSE dto[n]
      BY <1>7 DEF Sanitize
    <3>3. CASE \E f \in Fields : f.name = n /\ Sanitizes(f)
      <4>1. PICK f \in Fields : f.name = n /\ Sanitizes(f)
        BY <3>3
      <4>2. f = CHOOSE g \in Fields : g.name = n
        BY <4>1, FieldsAssumption
      <4> QED BY <2>2, <3>1, <3>2, <4>1, <4>2
    <3> QED BY <3>1, <3>2, <3>3
  <2>4. dto' \in [Names -> Values]
    <3>1. dto' = [n \in Names |-> dto'[n]]
      BY <1>7 DEF Sanitize
    <3> QED BY <2>3, <3>1
  <2> QED BY <2>1, <2>4 DEF TypeInv, Typed
<1>8. CASE Validate
  <2>1. /\ pc \in PCs /\ 500 \in Statuses /\ {} \in SUBSET Details
        /\ ValidationStatus(ValidationErrors) \in Statuses
        /\ ValidationErrors \in SUBSET Details
    BY <1>8, ValidationErrorsAreDetails
       DEF Validate, PCs, TypeInv, Inv, ValidationStatus, Statuses
  <2>2. \/ Proceed("handler") \/ Refuse(500, {})
        \/ Refuse(ValidationStatus(ValidationErrors), ValidationErrors)
    BY <1>8 DEF Validate
  <2> QED BY <2>1, <2>2, RefusalTypes, ProceedTypes
<1>9. CASE HandlerFails \/ HandlerReturns
  <2>1. PICK status \in Statuses : Call(status)
    <3>1. \A err \in HandlerErrors : Map(err) \in Statuses
      BY DEF HandlerErrors, Map, Statuses
    <3>2. CASE HandlerFails
      BY <3>1, <3>2 DEF HandlerFails
    <3>3. CASE HandlerReturns
      BY <3>3 DEF HandlerReturns, Statuses
    <3> QED BY <1>9, <3>2, <3>3
  <2>2. /\ UNCHANGED <<dto, errors>> /\ called' = <<dto>>
        /\ answer' = [by |-> "handler", status |-> status, errors |-> {}]
    BY <2>1 DEF Call
  <2> QED BY <2>2 DEF TypeInv, Typed, PCs
<1>10. UNCHANGED vars => UNCHANGED pipelineVars
  BY DEF vars
<1> QED BY <1>1, <1>2, <1>3, <1>4, <1>5, <1>6, <1>7, <1>8, <1>9, <1>10
        DEF Next, Pipeline

\* Every variable of the pipeline has its type, and the types carry over: a
\* request is done when it has an answer, one with details is a 400 or a 413
\* and the handler was not called, and an endpoint there is has a validator
\* and every sanitizer it names.
THEOREM TypeCorrect == Spec => []TypeOK
<1>1. Init => TypeInv
  <2>1. Init => Typed
    <3>1. Init => /\ dto \in [Names -> Values] /\ errors = {} /\ called = <<>>
                  /\ answer = NoAnswer
      BY DEF Init, Zero, Values
    <3>2. NoAnswer \in [by: PCs \cup {"nobody"}, status: Statuses,
                       errors: SUBSET Details]
      BY DEF NoAnswer, Statuses
    <3> QED BY <3>1, <3>2 DEF Typed
  <2> QED BY <2>1, InitSetsUp, InitProgresses DEF TypeInv, Inv
<1>2. TypeInv /\ [Next]_vars => TypeInv'
  BY StepTypes, StepKeepsInv DEF TypeInv
<1>3. ASSUME TypeInv PROVE TypeOK
  <2>1. /\ config \in [limit: BOOLEAN, types: BOOLEAN]
        /\ request \in Requests \cup {NoRequest}
        /\ pc \in PCs
    BY <1>3 DEF TypeInv, Inv, Progress, Running, PCs
  <2>2. pc = "done" <=> answer.status # 0
    <3>1. CASE pc = "done"
      <4>1. 0 \notin Problems
        BY ProblemsAssumption
      <4> QED BY <1>3, <3>1, <4>1
              DEF TypeInv, Inv, Verdict, Refusal, ValidationStatus
    <3>2. CASE pc # "done"
      BY <1>3, <3>2 DEF TypeInv, Inv, Progress, NoAnswer
    <3> QED BY <3>1, <3>2
  <2>3. answer.errors # {} => answer.status \in {400, 413} /\ called = <<>>
    <3>1. CASE pc = "done"
      BY <1>3, <3>1 DEF TypeInv, Inv, Verdict, ValidationStatus
    <3>2. CASE pc # "done"
      BY <1>3, <3>2 DEF TypeInv, Inv, Progress, NoAnswer
    <3> QED BY <3>1, <3>2
  <2> QED BY <1>3, <2>1, <2>2, <2>3 DEF TypeInv, Inv, SetUp, Typed, TypeOK, Statuses
<1> QED BY <1>1, <1>2, <1>3, PTL DEF Spec

-----------------------------------------------------------------------------
(***************************************************************************)
(* What the handler is called with.  Binding overwrites, source by source, *)
(* so the last one that offers a value wins; a request with a fault does   *)
(* not get that far.                                                       *)
(***************************************************************************)
Text(place, f) == request.texts[<<place, f.name>>]

AfterPath(f) == IF Offers("path", f) THEN Text("path", f) ELSE ""
AfterQuery(f) == IF Offers("query", f) THEN Text("query", f) ELSE AfterPath(f)
AfterHeader(f) == IF Offers("header", f) THEN Text("header", f) ELSE AfterQuery(f)

Sanitized(f, value) ==
    IF Sanitizes(f) THEN \E s \in DOMAIN Sanitizers : value = Sanitizers[s][Supplied(f)]
    ELSE value = Supplied(f)

Filled ==
    /\ pc \in {"idle", "limit", "type", "accept", "path"} => dto = Zero
    /\ \A f \in Fields :
          /\ errors = {} =>
                /\ pc = "query" => dto[f.name] = AfterPath(f)
                /\ pc = "header" => dto[f.name] = AfterQuery(f)
                /\ pc = "body" => dto[f.name] = AfterHeader(f)
                /\ pc = "bound" => dto[f.name] = Supplied(f)
          /\ pc = "sanitize" => dto[f.name] = Supplied(f)
          /\ pc \in {"validate", "handler"} => Sanitized(f, dto[f.name])
          /\ pc = "handler" =>
                Satisfies(f, dto[f.name], defaultValidator.rules)

ValueInv == Inv /\ Filled /\ HandlerSeesWinners

LEMMA SuppliedByLast ==
    \A f \in Fields :
        Supplied(f) = IF f.name \in DOMAIN request.body.sets
                      THEN request.body.sets[f.name] ELSE AfterHeader(f)
  BY DEF Supplied, Winner, AfterHeader, AfterQuery, AfterPath, Text

\* Values depend on the request alone.
LEMMA SuppliedStays ==
    ASSUME UNCHANGED request, NEW f \in Fields
    PROVE  /\ Supplied(f)' = Supplied(f) /\ AfterHeader(f)' = AfterHeader(f)
           /\ AfterQuery(f)' = AfterQuery(f) /\ AfterPath(f)' = AfterPath(f)
           /\ \A p : Offers(p, f)' = Offers(p, f) /\ Text(p, f)' = Text(p, f)
  BY DEF Supplied, Winner, AfterHeader, AfterQuery, AfterPath, Text, Offers

\* A binder that finds no fault writes what its source offers and nothing
\* else.
LEMMA BinderBinds ==
    ASSUME NEW place, NEW next, BindFrom(place, next), errors' = {},
           NEW f \in Fields
    PROVE  dto'[f.name] = IF Offers(place, f) THEN Text(place, f)
                          ELSE dto[f.name]
<1> DEFINE offered == {g \in Fields : Offers(place, g)}
           good == {g \in offered : Parses(g.kind, request.texts[<<place, g.name>>])}
<1>1. /\ dto' = [n \in Names |-> IF \E g \in good : g.name = n
                                  THEN request.texts[<<place, n>>] ELSE dto[n]]
      /\ {Invalid(place, g) : g \in offered \ good} = {}
  BY DEF BindFrom
<1>2. f \in good <=> Offers(place, f)
  BY <1>1
<1>3. (\E g \in good : g.name = f.name) <=> f \in good
  BY FieldsAssumption
<1>4. f.name \in Names
  BY DEF Names
<1> HIDE DEF good, offered
<1> QED BY <1>1, <1>2, <1>3, <1>4 DEF Text

LEMMA BindingFills ==
    ASSUME ValueInv, BindPath \/ BindQuery \/ BindHeader \/ BindJSON
    PROVE  Filled' /\ HandlerSeesWinners'
<1>1. called' = <<>>
  BY DEF ValueInv, Inv, Progress, Running, BindPath, BindQuery, BindHeader,
         BindFrom, BindJSON
<1>2. errors' = {} => errors = {}
  BY DEF BindPath, BindQuery, BindHeader, BindFrom, BindJSON
<1>3. UNCHANGED request
  BY DEF BindPath, BindQuery, BindHeader, BindFrom, BindJSON
<1>4. CASE BindPath
  <2>1. pc = "path" /\ pc' = "query" /\ dto = Zero
    BY <1>4 DEF BindPath, BindFrom, ValueInv, Filled
  <2>2. ASSUME NEW f \in Fields, errors' = {} PROVE dto'[f.name] = AfterPath(f)'
    BY <1>3, <1>4, <2>1, <2>2, BinderBinds, SuppliedStays
       DEF BindPath, AfterPath, Zero, Names
  <2> QED BY <1>1, <2>1, <2>2 DEF Filled, HandlerSeesWinners
<1>5. CASE BindQuery
  <2>1. pc = "query" /\ pc' = "header"
    BY <1>5 DEF BindQuery, BindFrom
  <2>2. ASSUME NEW f \in Fields, errors' = {} PROVE dto'[f.name] = AfterQuery(f)'
    BY <1>2, <1>3, <1>5, <2>1, <2>2, BinderBinds, SuppliedStays
       DEF BindQuery, AfterQuery, ValueInv, Filled
  <2> QED BY <1>1, <2>1, <2>2 DEF Filled, HandlerSeesWinners
<1>6. CASE BindHeader
  <2>1. pc = "header" /\ pc' = "body"
    BY <1>6 DEF BindHeader, BindFrom
  <2>2. ASSUME NEW f \in Fields, errors' = {} PROVE dto'[f.name] = AfterHeader(f)'
    BY <1>2, <1>3, <1>6, <2>1, <2>2, BinderBinds, SuppliedStays
       DEF BindHeader, AfterHeader, ValueInv, Filled
  <2> QED BY <1>1, <2>1, <2>2 DEF Filled, HandlerSeesWinners
<1>7. CASE BindJSON
  <2>1. /\ pc = "body" /\ pc' = "bound"
        /\ errors' = errors \cup BodyError
        /\ dto' = [n \in Names |-> IF n \in DOMAIN Decoded THEN Decoded[n]
                                   ELSE dto[n]]
    BY <1>7 DEF BindJSON
  <2>2. ASSUME NEW f \in Fields, errors' = {} PROVE dto'[f.name] = Supplied(f)'
    <3>1. f.name \in Names /\ dto[f.name] = AfterHeader(f)
      BY <1>2, <2>1, <2>2 DEF Names, ValueInv, Filled
    <3>2. Decoded = request.body.sets
      <4>1. BodyError = {}
        BY <2>1, <2>2
      <4> QED BY <4>1 DEF BodyError, Decoded
    <3> QED BY <1>3, <2>1, <3>1, <3>2, SuppliedByLast, SuppliedStays
  <2> QED BY <1>1, <2>1, <2>2 DEF Filled, HandlerSeesWinners
<1> QED BY <1>4, <1>5, <1>6, <1>7

LEMMA SanitizeFills ==
    ASSUME ValueInv, Sanitize PROVE Filled' /\ HandlerSeesWinners'
<1>1. /\ pc = "sanitize" /\ pc' = "validate" /\ UNCHANGED <<request, called>>
      /\ called = <<>> /\ endpoint = "served"
  BY DEF Sanitize, ValueInv, Inv, Progress, Running
<1>2. ASSUME NEW f \in Fields PROVE Sanitized(f, dto'[f.name])
  <2>1. f.name \in Names /\ dto[f.name] = Supplied(f)
    BY <1>1 DEF Names, ValueInv, Filled
  <2>2. dto'[f.name] =
          IF \E h \in Fields : h.name = f.name /\ Sanitizes(h)
          THEN LET g == CHOOSE h \in Fields : h.name = f.name
               IN  Sanitizers[funcs[g.sanitize]][dto[f.name]]
          ELSE dto[f.name]
    BY <2>1 DEF Sanitize
  <2>3. f = CHOOSE h \in Fields : h.name = f.name
    BY FieldsAssumption
  <2>4. (\E h \in Fields : h.name = f.name /\ Sanitizes(h)) <=> Sanitizes(f)
    BY FieldsAssumption
  <2>5. Sanitizes(f) => funcs[f.sanitize] \in DOMAIN Sanitizers
    BY <1>1, FieldsAssumption, FuncsAssumption, SanitizersAssumption
       DEF ValueInv, Inv, SetUp, Sanitizes
  <2> QED BY <2>1, <2>2, <2>3, <2>4, <2>5 DEF Sanitized
<1>3. \A f \in Fields : Supplied(f)' = Supplied(f)
  BY <1>1, SuppliedStays
<1>4. \A f \in Fields : Sanitized(f, dto[f.name])'
  BY <1>2, <1>3 DEF Sanitized
<1> QED BY <1>1, <1>4 DEF Filled, HandlerSeesWinners

LEMMA ValidateFills ==
    ASSUME ValueInv, Validate PROVE Filled' /\ HandlerSeesWinners'
<1>1. /\ pc = "validate" /\ called = <<>>
      /\ UNCHANGED <<request, dto, called, defaultValidator>>
      /\ pc' \in {"done", "handler"}
      /\ pc' = "handler" => ValidationErrors = {}
  BY DEF Validate, Refuse, Proceed, ValueInv, Inv, Progress, Running,
         registryVars
<1>2. ASSUME NEW f \in Fields, ValidationErrors = {}
      PROVE  Satisfies(f, dto[f.name], defaultValidator.rules)
  BY <1>2 DEF ValidationErrors
<1>3. ASSUME NEW f \in Fields
      PROVE  /\ Sanitized(f, dto[f.name])'
             /\ Satisfies(f, dto[f.name], defaultValidator.rules)'
                   <=> Satisfies(f, dto[f.name], defaultValidator.rules)
  BY <1>1, SuppliedStays DEF ValueInv, Filled, Sanitized, Satisfies
<1> QED BY <1>1, <1>2, <1>3 DEF Filled, HandlerSeesWinners

LEMMA HandlerGets ==
    ASSUME ValueInv, HandlerFails \/ HandlerReturns
    PROVE  Filled' /\ HandlerSeesWinners'
<1>1. /\ pc = "handler" /\ pc' = "done" /\ called' = <<dto>>
      /\ UNCHANGED <<request, defaultValidator>>
  BY DEF HandlerFails, HandlerReturns, Call, registryVars
<1>2. ASSUME NEW f \in Fields
      PROVE  /\ Sanitized(f, dto[f.name]) /\ Supplied(f)' = Supplied(f)
             /\ Satisfies(f, dto[f.name], defaultValidator.rules)
  BY <1>1, SuppliedStays DEF ValueInv, Filled
<1>3. called'[1] = dto
  BY <1>1
<1>4. HandlerSeesWinners'
  BY <1>1, <1>2, <1>3 DEF HandlerSeesWinners, Sanitized, Satisfies
<1> QED BY <1>1, <1>4 DEF Filled

LEMMA OthersFill ==
    ASSUME ValueInv,
           \/ Registration /\ UNCHANGED pipelineVars
           \/ Receive \/ MaxBodyBytes \/ AllowContentType \/ Accept \/ Bound
           \/ UNCHANGED vars
    PROVE  Filled' /\ HandlerSeesWinners'
<1>1. CASE UNCHANGED pipelineVars /\ (Registration \/ UNCHANGED vars)
  <2>1. UNCHANGED <<request, pc, dto, errors, called>>
    BY <1>1 DEF pipelineVars
  <2>2. pc # "idle" => UNCHANGED defaultValidator
    BY <1>1 DEF Registration, RegisterCustomRule, RegisterFuncEnter,
       RegisterFunc, BuildEndpoint, RegisterRoute, ValueInv, Inv, Progress,
       vars, registryVars
  <2>3. pc = "idle" => called = <<>>
    BY DEF ValueInv, Inv, Progress, Running
  <2>4. Filled'
    BY <2>1, <2>2, SuppliedStays DEF ValueInv, Filled, Sanitized, Satisfies
  <2>5. HandlerSeesWinners'
    BY <2>1, <2>2, <2>3, SuppliedStays
       DEF ValueInv, HandlerSeesWinners, Satisfies
  <2> QED BY <2>4, <2>5
<1>2. CASE Receive \/ MaxBodyBytes \/ AllowContentType \/ Accept
  <2>1. /\ pc \in {"idle", "limit", "type", "accept"}
        /\ pc' \in {"limit", "type", "accept", "path", "done"}
        /\ UNCHANGED <<dto, called>>
    BY <1>2 DEF Receive, MaxBodyBytes, AllowContentType, Accept, Refuse, Proceed
  <2>2. called = <<>>
    BY <2>1 DEF ValueInv, Inv, Progress, Running
  <2> QED BY <2>1, <2>2 DEF ValueInv, Filled, HandlerSeesWinners
<1>3. CASE Bound
  <2>1. /\ pc = "bound" /\ pc' \in {"done", "sanitize"}
        /\ pc' = "sanitize" => errors = {}
        /\ UNCHANGED <<request, dto, called>> /\ called = <<>>
    BY <1>3 DEF Bound, Refuse, Proceed, ValueInv, Inv, Progress, Running
  <2> QED BY <2>1, SuppliedStays DEF ValueInv, Filled, HandlerSeesWinners
<1>4. UNCHANGED vars => UNCHANGED pipelineVars
  BY DEF vars
<1> QED BY <1>1, <1>2, <1>3, <1>4

LEMMA InitFills == Init => ValueInv
<1>1. Init => Filled /\ HandlerSeesWinners
  BY DEF Init, Filled, HandlerSeesWinners
<1> QED BY <1>1, InitSetsUp, InitProgresses DEF ValueInv, Inv

LEMMA ValueStep == ASSUME ValueInv, [Next]_vars PROVE ValueInv'
<1>1. Filled' /\ HandlerSeesWinners'
  BY BindingFills, SanitizeFills, ValidateFills, HandlerGets, OthersFill
     DEF Next, Pipeline
<1> QED BY <1>1, StepKeepsInv DEF ValueInv

\* What holds on the way: the registries are set up (SetUp), errors has what
\* the binders so far have found and an answer says what decided it
\* (Progress, Verdict), and until there is an error the value is what the
\* binders so far have made of it (Filled).
THEOREM InductiveInvariant == Spec => []ValueInv
<1>1. ValueInv /\ [Next]_vars => ValueInv'
  BY ValueStep
<1> QED BY <1>1, InitFills, PTL DEF Spec

\* The handler is called with the value of the source that wins, a JSON
\* member with the zero value included, sanitized, and its rules are met,
\* whatever is registered meanwhile.
THEOREM HandlerGetsWinners == Spec => []HandlerSeesWinners
<1>1. ValueInv => HandlerSeesWinners
  BY DEF ValueInv
<1> QED BY <1>1, InductiveInvariant, PTL

-----------------------------------------------------------------------------
(***************************************************************************)
(* Whom a validation error blames.                                         *)
(***************************************************************************)
\* Two members of Sources(f) make it larger than one, none or one do not.
LEMMA CountSources ==
    ASSUME NEW f \in Fields
    PROVE  /\ Cardinality(Sources(f)) \in Nat
           /\ \A p, q \in Sources(f) : p # q => Cardinality(Sources(f)) > 1
           /\ Sources(f) \subseteq {"body"} => Cardinality(Sources(f)) <= 1
<1>1. Sources(f) \subseteq {"path", "query", "header", "body"}
  BY FieldsAssumption DEF Sources
<1>2. IsFiniteSet({"path", "query", "header", "body"})
  <2>1. IsFiniteSet({"path"}) /\ IsFiniteSet({"path"} \cup {"query"})
    BY FS_Singleton, FS_AddElement
  <2>2. IsFiniteSet(({"path"} \cup {"query"}) \cup {"header"})
    BY <2>1, FS_AddElement
  <2>3. IsFiniteSet((({"path"} \cup {"query"}) \cup {"header"}) \cup {"body"})
    BY <2>2, FS_AddElement
  <2>4. {"path", "query", "header", "body"}
           = (({"path"} \cup {"query"}) \cup {"header"}) \cup {"body"}
    OBVIOUS
  <2> QED BY <2>3, <2>4
<1>3. IsFiniteSet(Sources(f))
  BY <1>1, <1>2, FS_Subset
<1>4. Cardinality(Sources(f)) \in Nat
  BY <1>3, FS_CardinalityType
<1>5. ASSUME NEW p \in Sources(f), NEW q \in Sources(f), p # q
      PROVE  Cardinality(Sources(f)) > 1
  <2>1. Cardinality(Sources(f)) # 0
    BY <1>3, FS_EmptySet
  <2>2. Cardinality(Sources(f)) # 1
    BY <1>3, <1>5, FS_Singleton
  <2> QED BY <1>4, <2>1, <2>2
<1>6. ASSUME Sources(f) \subseteq {"body"} PROVE Cardinality(Sources(f)) <= 1
  <2>1. Sources(f) = {} \/ Sources(f) = {"body"}
    BY <1>6
  <2>2. Cardinality({}) = 0 /\ Cardinality({"body"}) = 1
    BY FS_EmptySet, FS_Singleton
  <2> QED BY <2>1, <2>2
<1> QED BY <1>4, <1>5, <1>6

\* Only a field that json may set has a member in the body.
LEMMA MembersAreFields ==
    ASSUME NEW f \in Fields, request \in Requests,
           f.name \in DOMAIN request.body.sets
    PROVE  f.json
<1>1. request.body.sets \in Objects
  BY RequestsAssumption DEF IsBody
<1>2. PICK S \in SUBSET {g.name : g \in {h \in Fields : h.json}} :
         request.body.sets \in [S -> Values]
  BY <1>1 DEF Objects
<1>3. PICK g \in Fields : g.json /\ g.name = f.name
  BY <1>2
<1> QED BY <1>3, FieldsAssumption

Blames(f, place) ==
    IF Cardinality(Sources(f)) <= 1 THEN Winner(f) \in {place, "none"}
    ELSE \E i \in DOMAIN Order :
            /\ place = Order[i] /\ Order[i] \in Sources(f)
            /\ \A j \in 1..(i - 1) : Order[j] \notin Sources(f)

\* The first tag is the one source, or the first of several.
LEMMA BlamedIsASource ==
    ASSUME NEW f \in Fields, request \in Requests
    PROVE  Blames(f, BlamedOn(f))
<1>1. f.tags \subseteq {"path", "query", "header"}
  BY FieldsAssumption
<1>2. CASE Cardinality(Sources(f)) <= 1
  <2>1. Winner(f) # "none" => Winner(f) \in Sources(f)
    BY MembersAreFields DEF Winner, Offers, Sources
  <2>2. Winner(f) # "none" => BlamedOn(f) \in Sources(f)
    <3>1. CASE f.tags = {}
      BY <2>1, <3>1 DEF BlamedOn, Winner, Offers, Sources
    <3>2. CASE f.tags # {}
      BY <1>1, <3>2 DEF BlamedOn, Sources
    <3> QED BY <3>1, <3>2
  <2>3. Winner(f) # "none" => Winner(f) = BlamedOn(f)
    BY <1>2, <2>1, <2>2, CountSources
  <2> QED BY <1>2, <2>3 DEF Blames
<1>3. CASE ~(Cardinality(Sources(f)) <= 1)
  <2>1. \A p \in {"path", "query", "header"} : p \in Sources(f) <=> p \in f.tags
    BY DEF Sources
  <2>2. /\ DOMAIN Order = 1..4
        /\ Order[1] = "path" /\ Order[2] = "query" /\ Order[3] = "header"
    BY DEF Order
  <2>3. f.tags # {}
    BY <1>3, CountSources DEF Sources
  <2>4. PICK i \in 1..3 : /\ BlamedOn(f) = Order[i] /\ Order[i] \in f.tags
                          /\ \A j \in 1..(i - 1) : Order[j] \notin f.tags
    <3>1. CASE "path" \in f.tags
      <4>1. BlamedOn(f) = Order[1] /\ \A j \in 1..(1 - 1) : Order[j] \notin f.tags
        BY <2>2, <3>1 DEF BlamedOn
      <4> QED BY <2>2, <3>1, <4>1
    <3>2. CASE "path" \notin f.tags /\ "query" \in f.tags
      <4>1. BlamedOn(f) = Order[2] /\ \A j \in 1..(2 - 1) : Order[j] \notin f.tags
        BY <2>2, <3>2 DEF BlamedOn
      <4> QED BY <2>2, <3>2, <4>1
    <3>3. CASE "path" \notin f.tags /\ "query" \notin f.tags
      <4>1. "header" \in f.tags
        BY <1>1, <2>3, <3>3
      <4>2. BlamedOn(f) = Order[3] /\ \A j \in 1..(3 - 1) : Order[j] \notin f.tags
        BY <2>2, <3>3, <4>1 DEF BlamedOn
      <4> QED BY <2>2, <4>1, <4>2
    <3> QED BY <3>1, <3>2, <3>3
  <2>5. \A j \in 1..(i - 1) : Order[j] \notin Sources(f)
    <3>1. \A j \in 1..(i - 1) : j \in 1..3
      BY <2>4
    <3> QED BY <2>1, <2>2, <2>4, <3>1
  <2> QED BY <1>3, <2>1, <2>2, <2>4, <2>5 DEF Blames
<1> QED BY <1>2, <1>3

\* The errors of validation, field by field.
LEMMA ErrorOfField ==
    ASSUME NEW e \in ValidationErrors, NEW f \in Fields, e.field = f.name
    PROVE  e.in = BlamedOn(f) /\ e.code = CodeOf(f.rule)
<1>1. PICK g \in Fields :
         e = [in |-> BlamedOn(g), field |-> g.name, code |-> CodeOf(g.rule)]
  BY DEF ValidationErrors
<1>2. g = f
  BY <1>1, FieldsAssumption
<1> QED BY <1>1, <1>2

\* Only Validate answers with the errors of validation.
LEMMA OnlyValidateBlames ==
    ASSUME Pipeline
    PROVE  \/ Validate
           \/ UNCHANGED <<request, answer, documented, late>>
           \/ answer'.by # "validate" /\ UNCHANGED request
<1>1. ASSUME NEW status, NEW details, Refuse(status, details), pc # "validate"
      PROVE  answer'.by # "validate" /\ UNCHANGED request
  BY <1>1 DEF Refuse
<1>2. ASSUME NEW next, Proceed(next)
      PROVE  UNCHANGED <<request, answer, documented, late>>
  BY <1>2 DEF Proceed, registryVars
<1>3. MaxBodyBytes \/ AllowContentType \/ Accept \/ Bound
        => \/ UNCHANGED <<request, answer, documented, late>>
           \/ answer'.by # "validate" /\ UNCHANGED request
  BY <1>1, <1>2 DEF MaxBodyBytes, AllowContentType, Accept, Bound
<1>4. BindPath \/ BindQuery \/ BindHeader \/ BindJSON \/ Sanitize
        => UNCHANGED <<request, answer, documented, late>>
  BY DEF BindPath, BindQuery, BindHeader, BindFrom, BindJSON, Sanitize,
         registryVars
<1>5. HandlerFails \/ HandlerReturns
        => answer'.by # "validate" /\ UNCHANGED request
  BY DEF HandlerFails, HandlerReturns, Call
<1> QED BY <1>3, <1>4, <1>5 DEF Pipeline

LEMMA BlameStep == ASSUME Inv, BlameFits, [Next]_vars PROVE BlameFits'
<1>1. CASE Validate
  <2>1. /\ UNCHANGED request /\ answer = NoAnswer /\ request \in Requests
        /\ answer' = NoAnswer \/ answer'.errors \in {{}, ValidationErrors}
    BY <1>1 DEF Validate, Refuse, Proceed, Inv, Progress, Running
  <2>2. \A f \in Fields : Winner(f)' = Winner(f)
    BY <2>1 DEF Winner, Offers
  <2>3. ASSUME answer'.by = "validate", NEW e \in answer'.errors,
               NEW f \in Fields, e.field = f.name
        PROVE  Blames(f, e.in)'
    <3>1. e \in ValidationErrors
      BY <2>1, <2>3 DEF NoAnswer
    <3>2. Blames(f, e.in)
      BY <2>1, <2>3, <3>1, ErrorOfField, BlamedIsASource
    <3> QED BY <2>2, <3>2 DEF Blames
  <2> QED BY <2>3 DEF BlameFits, Blames
<1>2. CASE UNCHANGED <<request, answer>>
  <2>1. \A f \in Fields : Winner(f)' = Winner(f)
    BY <1>2 DEF Winner, Offers
  <2> QED BY <1>2, <2>1 DEF BlameFits
<1>3. CASE answer'.by # "validate"
  BY <1>3 DEF BlameFits
<1>4. Receive => answer' = NoAnswer
  BY DEF Receive, Inv, Progress, Running
<1>5. CASE Receive
  BY <1>3, <1>4, <1>5 DEF NoAnswer
<1>6. CASE Pipeline
  BY <1>1, <1>2, <1>3, <1>6, OnlyValidateBlames
<1>7. CASE (Registration /\ UNCHANGED pipelineVars) \/ UNCHANGED vars
  BY <1>2, <1>7 DEF vars, pipelineVars
<1> QED BY <1>5, <1>6, <1>7 DEF Next

\* A validation error names the one source of its field, which the value
\* came from if it came from anywhere, or the first of several.
THEOREM BlameIsFit == Spec => []BlameFits
<1>1. Init => BlameFits
  BY DEF Init, BlameFits, NoAnswer
<1>2. Inv /\ BlameFits /\ [Next]_vars => BlameFits'
  BY BlameStep
<1> QED BY <1>1, <1>2, InvHolds, PTL DEF Spec

-----------------------------------------------------------------------------
(***************************************************************************)
(* Document and validator.  They take their rules from the registry at     *)
(* different moments; unless a rule is registered between or after them,   *)
(* they agree.                                                             *)
(***************************************************************************)
RulesAgree ==
    /\ endpoint # "served" => documented = NoRules
    /\ ~late =>
          /\ defaultValidator.state = "built" => defaultValidator.rules = customRules
          /\ endpoint = "served" => documented = customRules

DocumentInv == ValueInv /\ RulesAgree /\ DocumentedRulesAreEnforced

LEMMA RulesStep == ASSUME SetUp, RulesAgree, [Next]_vars PROVE RulesAgree'
<1>1. CASE UNCHANGED registryVars
  BY <1>1 DEF RulesAgree, registryVars
<1>2. ASSUME NEW t \in RuleTags, NEW v \in RuleVersions, RegisterCustomRule(t, v)
      PROVE  RulesAgree'
  BY <1>2 DEF RegisterCustomRule, RulesAgree, SetUp
<1>3. ASSUME NEW n \in FuncNames, NEW v \in FuncVersions,
             RegisterFuncEnter(n, v) \/ RegisterFunc(n, v)
      PROVE  RulesAgree'
  BY <1>3 DEF RegisterFuncEnter, RegisterFunc, RulesAgree
<1>4. CASE BuildEndpoint
  <2>1. /\ defaultValidator' = Default /\ endpoint = "none"
        /\ endpoint' \in {"none", "built"}
        /\ UNCHANGED <<customRules, documented, late>>
    BY <1>4 DEF BuildEndpoint
  <2>2. Default.state = "built" /\ defaultValidator.state = "unbuilt"
          => Default.rules = customRules
    BY DEF Default
  <2>3. defaultValidator.state # "unbuilt" => Default = defaultValidator
    BY DEF Default
  <2> QED BY <2>1, <2>2, <2>3 DEF RulesAgree
<1>5. CASE RegisterRoute
  BY <1>5 DEF RegisterRoute, RulesAgree
<1>6. Receive \/ Pipeline \/ UNCHANGED vars => UNCHANGED registryVars
  BY DEF Receive, Pipeline, vars, MaxBodyBytes, AllowContentType, Accept,
         BindPath, BindQuery, BindHeader, BindFrom, BindJSON, Bound, Sanitize,
         Validate, HandlerFails, HandlerReturns, Call, Refuse, Proceed
<1> QED BY <1>1, <1>2, <1>3, <1>4, <1>5, <1>6 DEF Next, Registration

\* The code and the verdict of one validation.
Enforced(by, details, status) ==
    ~late =>
        /\ \A f \in {g \in Fields : g.rule \in RuleTags} :
              documented[f.rule] # NoRule =>
                  \A e \in details :
                      by = "validate" /\ e.field = f.name
                      /\ f.rule \notin DOMAIN BuiltinCodes =>
                          e.code = RuleCodes[documented[f.rule]]
        /\ by = "validate"
           /\ (\A f \in Fields : f.rule \in RuleTags => documented[f.rule] # NoRule)
             => status # 500

LEMMA ValidateEnforces ==
    ASSUME Inv, RulesAgree, Validate, pc' = "done"
    PROVE  Enforced("validate", answer'.errors, answer'.status)
<1>1. SUFFICES ASSUME ~late
               PROVE  Enforced("validate", answer'.errors, answer'.status)
  BY DEF Enforced
<1>2. documented = customRules /\ defaultValidator.rules = customRules
  BY <1>1 DEF Validate, Inv, Progress, SetUp, RulesAgree
<1>3. CASE Unknown
  <2>1. answer'.errors = {}
    BY <1>3 DEF Validate, Refuse
  <2>2. \E f \in Fields : f.rule \in RuleTags /\ documented[f.rule] = NoRule
    BY <1>2, <1>3 DEF Unknown
  <2> QED BY <2>1, <2>2 DEF Enforced
<1>4. CASE ~Unknown
  <2>1. /\ answer'.errors = ValidationErrors
        /\ answer'.status = ValidationStatus(ValidationErrors)
    BY <1>4 DEF Validate, Refuse, Proceed, Inv, Progress
  <2>2. answer'.status # 500
    BY <2>1 DEF ValidationStatus
  <2>3. ASSUME NEW f \in Fields, f.rule \in RuleTags, documented[f.rule] # NoRule,
               NEW e \in ValidationErrors, e.field = f.name,
               f.rule \notin DOMAIN BuiltinCodes
        PROVE  e.code = RuleCodes[documented[f.rule]]
    BY <1>2, <2>3, ErrorOfField DEF CodeOf
  <2> QED BY <2>1, <2>2, <2>3 DEF Enforced
<1> QED BY <1>3, <1>4

LEMMA DocumentStep ==
    ASSUME DocumentInv, [Next]_vars, ValueInv', RulesAgree'
    PROVE  DocumentedRulesAreEnforced'
<1>1. SUFFICES ASSUME ~late' PROVE DocumentedRulesAreEnforced'
  BY DEF DocumentedRulesAreEnforced
\* A value the handler was called with satisfies the rules that ran.
<1>2. ASSUME NEW f \in Fields, f.rule \in RuleTags,
             documented'[f.rule] # NoRule, called' # <<>>
      PROVE  called'[1][f.name] \in RuleAccepts[documented'[f.rule]]
  <2>1. Satisfies(f, called'[1][f.name], defaultValidator'.rules)
    BY <1>2 DEF ValueInv, HandlerSeesWinners
  <2>2. endpoint' = "served"
    BY <1>2 DEF RulesAgree, NoRules
  <2>3. documented' = defaultValidator'.rules
    BY <1>1, <2>2 DEF RulesAgree, ValueInv, Inv, SetUp
  <2> QED BY <1>2, <2>1, <2>3 DEF Satisfies
\* What a client was told stays what it was told.
<1>3. Enforced(answer.by, answer.errors, answer.status)
  BY DEF DocumentInv, DocumentedRulesAreEnforced, Enforced
<1>4. Enforced(answer.by, answer.errors, answer.status)'
  <2>1. CASE Validate /\ pc' = "done"
    <3>1. /\ UNCHANGED <<documented, late>> /\ answer'.by = "validate"
      BY <2>1 DEF Validate, Refuse, Proceed, registryVars
    <3> QED BY <2>1, <3>1, ValidateEnforces DEF Enforced, DocumentInv, ValueInv
  <2>2. CASE answer'.by # "validate"
    BY <2>2 DEF Enforced
  <2>3. CASE UNCHANGED <<answer, documented, late>>
    BY <1>3, <2>3 DEF Enforced
  <2>4. CASE Registration /\ UNCHANGED pipelineVars
    <3>1. UNCHANGED answer
      BY <2>4 DEF pipelineVars
    <3>2. CASE pc = "idle"
      BY <2>2, <3>1, <3>2 DEF DocumentInv, ValueInv, Inv, Progress, Running, NoAnswer
    <3>3. CASE pc # "idle"
      <4>1. endpoint = "served"
        BY <3>3 DEF DocumentInv, ValueInv, Inv, Progress
      <4>2. \/ UNCHANGED <<documented, late>>
            \/ documented' = documented /\ late' = (late \/ TRUE)
        <5>1. defaultValidator.state # "unbuilt"
          BY <4>1 DEF DocumentInv, ValueInv, Inv, SetUp
        <5>2. ASSUME NEW t \in RuleTags, NEW v \in RuleVersions,
                     RegisterCustomRule(t, v)
              PROVE  documented' = documented /\ late' = (late \/ TRUE)
          BY <5>1, <5>2 DEF RegisterCustomRule
        <5> QED BY <2>4, <4>1, <5>2 DEF Registration, RegisterFuncEnter,
                   RegisterFunc, BuildEndpoint, RegisterRoute
      <4>3. CASE UNCHANGED <<documented, late>>
        BY <1>3, <3>1, <4>3 DEF Enforced
      <4>4. CASE late' = (late \/ TRUE)
        BY <1>1, <4>4
      <4> QED BY <4>2, <4>3, <4>4
    <3> QED BY <3>2, <3>3
  <2>5. Validate /\ pc' # "done" => UNCHANGED <<answer, documented, late>>
    BY DEF Validate, Refuse, Proceed, registryVars
  <2>6. Receive \/ UNCHANGED vars => UNCHANGED <<answer, documented, late>>
    BY DEF Receive, vars, pipelineVars, registryVars
  <2>7. Pipeline => \/ Validate \/ UNCHANGED <<answer, documented, late>>
                    \/ answer'.by # "validate"
    BY OnlyValidateBlames
  <2> QED BY <2>1, <2>2, <2>3, <2>4, <2>5, <2>6, <2>7 DEF Next
<1> QED BY <1>2, <1>4 DEF DocumentedRulesAreEnforced, Enforced

\* What is documented is enforced, whenever the registrations come before
\* the validator is first asked for.
THEOREM DocumentedIsEnforced == Spec => []DocumentedRulesAreEnforced
<1>1. Init => DocumentInv
  <2>1. Init => RulesAgree /\ DocumentedRulesAreEnforced
    BY DEF Init, RegistriesInit, RulesAgree, DocumentedRulesAreEnforced,
           NoAnswer
  <2> QED BY <2>1, InitFills DEF DocumentInv
<1>2. DocumentInv /\ [Next]_vars => DocumentInv'
  <2> SUFFICES ASSUME DocumentInv, [Next]_vars PROVE DocumentInv'
    OBVIOUS
  <2>1. ValueInv' /\ RulesAgree'
    BY ValueStep, RulesStep DEF DocumentInv, ValueInv, Inv
  <2> QED BY <2>1, DocumentStep DEF DocumentInv
<1>3. DocumentInv => DocumentedRulesAreEnforced
  BY DEF DocumentInv
<1> QED BY <1>1, <1>2, <1>3, PTL DEF Spec
=============================================================================
