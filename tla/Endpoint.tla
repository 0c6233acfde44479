------------------------------ MODULE Endpoint ------------------------------
(***************************************************************************)
(* The pipeline of a typed endpoint (httpx/endpoint.go) behind MaxBodyBytes *)
(* and AllowContentType: negotiate, bind the path, the query, the header   *)
(* and the body, sanitize, validate, call the handler, write; every        *)
(* failure ends in one problem.  One request goes through it, once the     *)
(* endpoint is set up (Registries), and registrations go on meanwhile.     *)
(*                                                                         *)
(* A field of the request type is a record: its name, kind, the tags that  *)
(* name a source, whether JSON may set it, its validation rule and its     *)
(* sanitizer, each possibly "none".  The zero value of every field is "".  *)
(* A text is what a place of the request carries for a field, "" when it   *)
(* carries none: the binders skip it.  A JSON member that is there counts  *)
(* with any value, the zero value too; null is as good as no member.       *)
(***************************************************************************)
EXTENDS Registries, Sequences, TLC

CONSTANTS Fields,       \* the fields of TRequest
          Texts,        \* the texts a request may carry
          IntTexts,     \* those strconv.Atoi takes
          BoolTexts,    \* those strconv.ParseBool takes
          Sanitizers,   \* "builtin" and FuncVersions: functions on texts
          RuleAccepts,  \* the texts a version of a rule accepts
          RuleCodes,    \* and its code
          Problems,     \* the statuses of the problems a handler returns
          Requests      \* the requests the endpoint gets

\* Fields have names of their own, tags name the three places, and Prepare
\* sees every sanitize tag.
ASSUME FieldsAssumption ==
    /\ \A f, g \in Fields : f.name = g.name => f = g
    /\ \A f \in Fields : f.tags \subseteq {"path", "query", "header"}
    /\ \A f \in Fields : f.sanitize # "none" => f.sanitize \in UsedFuncs

Values == Texts \cup {""}

ASSUME SanitizersAssumption ==
    Sanitizers \in [{"builtin"} \cup FuncVersions -> [Values -> Values]]

\* net/http panics on any other status.
ASSUME ProblemsAssumption == Problems \subseteq 100..999

VARIABLES config,     \* the middlewares in front
          request,
          pc,
          dto,        \* the request value
          errors,     \* binding or validation errors, a set
          answer,     \* the response, and the step that wrote it
          called      \* history: the values the handler was called with

pipelineVars == <<config, request, pc, dto, errors, answer, called>>
vars == <<registryVars, pipelineVars>>

Places == {"path", "query", "header"}
Names == {f.name : f \in Fields}
NoAnswer == [by |-> "nobody", status |-> 0, errors |-> {}]
Zero == [n \in Names |-> ""]

\* What the bytes of a body are.
BodyKinds ==
    {"nil", "empty", "malformed", "truncated", "mistyped", "unknown", "object"}

Parses(kind, text) ==
    /\ kind = "int" => text \in IntTexts
    /\ kind = "bool" => text \in BoolTexts

\* The members of a JSON object that fill a field: any set of them, each
\* with a value of the field's type.
Objects ==
    {s \in UNION {[S -> Values] : S \in SUBSET {f.name : f \in {g \in Fields : g.json}}} :
        \A f \in Fields : f.name \in DOMAIN s =>
            s[f.name] = "" \/ Parses(f.kind, s[f.name])}

\* A body may be longer than the limit whatever it is, and the value in it,
\* or its first syntax error, may nevertheless end before the limit.
IsBody(b) ==
    /\ b \in [kind: BodyKinds, over: BOOLEAN, early: BOOLEAN, sets: Objects]
    /\ b.kind # "object" => b.sets = <<>>
    /\ b.kind = "nil" => ~b.over
    /\ b.early => b.over /\ b.kind \in {"malformed", "mistyped", "unknown", "object"}

\* A request names its length or not, and has a text for a field only where
\* a tag says so.
ASSUME RequestsAssumption ==
    \A r \in Requests :
        /\ r = [sized |-> r.sized, texts |-> r.texts, body |-> r.body]
        /\ r.sized \in BOOLEAN
        /\ r.texts \in [Places \X Names -> Values]
        /\ \A f \in Fields : \A p \in Places \ f.tags : r.texts[<<p, f.name>>] = ""
        /\ IsBody(r.body)

NoRequest ==
    [sized |-> FALSE, texts |-> [x \in Places \X Names |-> ""],
     body |-> [kind |-> "nil", over |-> FALSE, early |-> FALSE, sets |-> <<>>]]

Init ==
    /\ RegistriesInit
    /\ config \in [limit: BOOLEAN, types: BOOLEAN]
    /\ request = NoRequest
    /\ pc = "idle"
    /\ dto = Zero
    /\ errors = {}
    /\ answer = NoAnswer
    /\ called = <<>>

\* A request reaches the route.
Receive ==
    /\ pc = "idle" /\ endpoint = "served"
    /\ request' \in Requests
    /\ pc' = "limit"
    /\ UNCHANGED <<registryVars, config, dto, errors, answer, called>>

\* WriteProblem, the end of the request.
Refuse(status, details) ==
    /\ answer' = [by |-> pc, status |-> status, errors |-> details]
    /\ pc' = "done"
    /\ UNCHANGED <<registryVars, config, request, dto, errors, called>>

Proceed(next) ==
    /\ pc' = next
    /\ UNCHANGED <<registryVars, config, request, dto, errors, answer, called>>

(***************************************************************************)
(* MaxBodyBytes, AllowContentType, Accept.                                 *)
(***************************************************************************)
TooLong == config.limit /\ request.body.over

\* A Content-Length over the limit is refused at once; a body without one is
\* cut off where the limit is, when it is read.  The decoder looks at what
\* it has read before it looks at the error.
MaxBodyBytes ==
    /\ pc = "limit"
    /\ IF TooLong /\ request.sized THEN Refuse(413, {}) ELSE Proceed("type")

CutShort == TooLong /\ ~request.body.early

\* A Content-Type that is missing or on the list passes; the others cannot
\* be parsed or are not on it.
AllowContentType ==
    /\ pc = "type"
    /\ \/ Proceed("accept")
       \/ config.types /\ Refuse(400, {})
       \/ config.types /\ Refuse(415, {})

\* acceptsJSON (see Negotiation).
Accept ==
    /\ pc = "accept"
    /\ Proceed("path") \/ Refuse(406, {})

(***************************************************************************)
(* Binding: path, query, header, body, in this order and to the end,       *)
(* whatever fails.                                                         *)
(***************************************************************************)
\* The kinds each binder has a case for; any other is left alone.
Supports ==
    [path |-> {"string", "int"},
     query |-> {"string", "int", "bool", "list"},
     header |-> {"string", "list"}]

Offers(place, f) ==
    /\ place \in f.tags
    /\ f.kind \in Supports[place]
    /\ request.texts[<<place, f.name>>] # ""

Invalid(place, f) == [in |-> place, field |-> f.name, code |-> "invalid_type"]

\* Mutant of BindFrom: the first text that does not parse ends the binding.
BindFromStops(place, next) ==
    /\ pc = place
    /\ LET offered == {f \in Fields : Offers(place, f)}
           good == {f \in offered : Parses(f.kind, request.texts[<<place, f.name>>])}
           bad == {Invalid(place, f) : f \in offered \ good}
       IN  /\ dto' = [n \in Names |-> IF \E f \in good : f.name = n
                                      THEN request.texts[<<place, n>>] ELSE dto[n]]
           /\ errors' = errors \cup bad
           /\ pc' = IF bad = {} THEN next ELSE "bound"
    /\ UNCHANGED <<registryVars, config, request, answer, called>>

\* bindPath, bindQuery, bindHeader.
BindFrom(place, next) ==
    /\ pc = place
    /\ LET offered == {f \in Fields : Offers(place, f)}
           good == {f \in offered : Parses(f.kind, request.texts[<<place, f.name>>])}
       IN  /\ dto' = [n \in Names |-> IF \E f \in good : f.name = n
                                      THEN request.texts[<<place, n>>] ELSE dto[n]]
           /\ errors' = errors \cup {Invalid(place, f) : f \in offered \ good}
    /\ pc' = next
    /\ UNCHANGED <<registryVars, config, request, answer, called>>

BindPath == BindFrom("path", "query")
BindQuery == BindFrom("query", "header")
BindHeader == BindFrom("header", "body")

\* mapJSONError: an empty body is no error; a body cut short by its sender
\* ends in io.ErrUnexpectedEOF, which is not a syntax error.
BodyError ==
    LET kind == request.body.kind
        codes == IF CutShort THEN {"payload_too_large"}
                 ELSE IF kind = "malformed" THEN {"malformed_json"}
                 ELSE IF kind \in {"mistyped", "unknown", "truncated"}
                 THEN {"invalid_type"} ELSE {}
    IN  {[in |-> "body", field |-> "/", code |-> c] : c \in codes}

\* The members the decoder finds.
Decoded == IF CutShort THEN <<>> ELSE request.body.sets

\* Mutant of BindJSON: a member with the zero value is taken for none.
BindJSONNonZero ==
    /\ pc = "body"
    /\ dto' = [n \in Names |->
                 IF n \in DOMAIN Decoded /\ Decoded[n] # "" THEN Decoded[n]
                 ELSE dto[n]]
    /\ errors' = errors \cup BodyError
    /\ pc' = "bound"
    /\ UNCHANGED <<registryVars, config, request, answer, called>>

\* bindJSON decodes into the same value: it sets every field that has a
\* member, to the zero value too, over what the path, the query or the
\* header said.
BindJSON ==
    /\ pc = "body"
    /\ dto' = [n \in Names |-> IF n \in DOMAIN Decoded THEN Decoded[n] ELSE dto[n]]
    /\ errors' = errors \cup BodyError
    /\ pc' = "bound"
    /\ UNCHANGED <<registryVars, config, request, answer, called>>

\* StatusOverride: one code asks for another status than 400.
Override(code) == IF code = "payload_too_large" THEN 413 ELSE 0

\* writeValidationProblem: the first override wins, and there is one.
ValidationStatus(details) ==
    IF \E d \in details : Override(d.code) # 0 THEN 413 ELSE 400

Bound ==
    /\ pc = "bound"
    /\ IF errors # {} THEN Refuse(ValidationStatus(errors), errors)
       ELSE Proceed("sanitize")

(***************************************************************************)
(* Sanitize and validate.                                                  *)
(***************************************************************************)
\* Apply transforms strings only.
Sanitizes(f) == f.kind = "string" /\ f.sanitize # "none"

\* Apply, with the function registered now.
Sanitize ==
    /\ pc = "sanitize"
    /\ dto' = [n \in Names |->
                 IF \E f \in Fields : f.name = n /\ Sanitizes(f)
                 THEN LET f == CHOOSE g \in Fields : g.name = n
                      IN  Sanitizers[funcs[f.sanitize]][dto[n]]
                 ELSE dto[n]]
    /\ pc' = "validate"
    /\ UNCHANGED <<registryVars, config, request, errors, answer, called>>

\* What a field's rule says of a value, given the custom rules.
Satisfies(f, value, rules) ==
    /\ f.rule = "required" => value # ""
    /\ f.rule \in RuleTags => value \in RuleAccepts[rules[f.rule]]

\* Mutant of BlamedOn: only the path tag is looked at.
BlamedOnPathOnly(f) == IF "path" \in f.tags THEN "path" ELSE "body"

\* resolveValidationSource: the first tag names the source, whichever it
\* was the value came from.
BlamedOn(f) ==
    IF "path" \in f.tags THEN "path"
    ELSE IF "query" \in f.tags THEN "query"
    ELSE IF "header" \in f.tags THEN "header"
    ELSE "body"

\* mapFieldError: the code of each tag it knows.
BuiltinCodes ==
    [required |-> "required", min |-> "min_length", max |-> "max_length",
     gt |-> "greater_than", gte |-> "greater_than_or_equal",
     lt |-> "less_than", lte |-> "less_than_or_equal",
     len |-> "exact_length", oneof |-> "invalid_value", eq |-> "equal",
     ne |-> "not_equal", uuid |-> "invalid_uuid", email |-> "invalid_email",
     url |-> "invalid_url"]

\* Any other is that of the rule registered now, not of the one that ran, or
\* the general one.
CodeOf(tag) ==
    IF tag \in DOMAIN BuiltinCodes THEN BuiltinCodes[tag]
    ELSE IF tag \in RuleTags /\ customRules[tag] # NoRule
    THEN RuleCodes[customRules[tag]]
    ELSE "validation_failed"

ValidationErrors ==
    {[in |-> BlamedOn(f), field |-> f.name, code |-> CodeOf(f.rule)] :
        f \in {g \in Fields : ~Satisfies(g, dto[g.name], defaultValidator.rules)}}

\* validator/v10 panics on a tag it was never given: Recover's 500.
Unknown == \E f \in Fields :
    f.rule \in RuleTags /\ defaultValidator.rules[f.rule] = NoRule

Validate ==
    /\ pc = "validate"
    /\ IF Unknown THEN Refuse(500, {})
       ELSE IF ValidationErrors = {} THEN Proceed("handler")
       ELSE Refuse(ValidationStatus(ValidationErrors), ValidationErrors)

(***************************************************************************)
(* The handler, and what becomes of its result.                            *)
(***************************************************************************)
\* What errors.As finds in an error: a JSON syntax or type error, a Problem
\* of some status (0 for none).
HandlerErrors == [json: BOOLEAN, problem: {0} \cup Problems]

\* DefaultProblemMapper.Map: a JSON error is looked for first, also behind a
\* Problem, which unwraps to its cause.
Map(err) ==
    IF err.json THEN 400 ELSE IF err.problem # 0 THEN err.problem ELSE 500

\* The handler's values, and the answer.
Call(status) ==
    /\ called' = <<dto>>
    /\ answer' = [by |-> "handler", status |-> status, errors |-> {}]
    /\ pc' = "done"
    /\ UNCHANGED <<registryVars, config, request, dto, errors>>

HandlerFails ==
    /\ pc = "handler"
    /\ \E err \in HandlerErrors : Call(Map(err))

\* WriteJSON encodes before it writes, so that a response that cannot be
\* encoded is a clean 500.
HandlerReturns ==
    /\ pc = "handler"
    /\ \E encodes \in BOOLEAN : Call(IF encodes THEN 200 ELSE 500)

Pipeline ==
    \/ MaxBodyBytes \/ AllowContentType \/ Accept
    \/ BindPath \/ BindQuery \/ BindHeader \/ BindJSON \/ Bound
    \/ Sanitize \/ Validate \/ HandlerFails \/ HandlerReturns

Next ==
    \/ Registration /\ UNCHANGED pipelineVars
    \/ Receive
    \/ Pipeline

Spec == Init /\ [][Next]_vars

-----------------------------------------------------------------------------
(***************************************************************************)
(* Properties.                                                             *)
(***************************************************************************)
PCs == {"idle", "limit", "type", "accept", "path", "query", "header", "body",
        "bound", "sanitize", "validate", "handler", "done"}

Codes ==
    {"payload_too_large", "malformed_json", "invalid_type", "validation_failed"}
    \cup {BuiltinCodes[t] : t \in DOMAIN BuiltinCodes}
    \cup {RuleCodes[v] : v \in RuleVersions}

Details == [in: Places \cup {"body"}, field: Names \cup {"/"}, code: Codes]

TypeOK ==
    /\ config \in [limit: BOOLEAN, types: BOOLEAN]
    /\ request \in Requests \cup {NoRequest}
    /\ pc \in PCs
    /\ dto \in [Names -> Values]
    /\ errors \in SUBSET Details
    /\ answer \in [by: PCs \cup {"nobody"}, errors: SUBSET Details,
                  status: {0, 200, 400, 406, 413, 415, 500} \cup Problems]
    /\ called \in {<<>>, <<dto>>}
    /\ pc = "done" <=> answer.status # 0
    /\ answer.errors # {} => answer.status \in {400, 413} /\ called = <<>>
    /\ endpoint # "none" => defaultValidator.state = "built"
    /\ \A n \in UsedFuncs : endpoint # "none" => funcs[n] # NoFunc

\* Where a field's value came from: of the places that offer one the body
\* goes first, then the header, the query, the path.
Winner(f) ==
    IF f.name \in DOMAIN request.body.sets THEN "body"
    ELSE IF Offers("header", f) THEN "header"
    ELSE IF Offers("query", f) THEN "query"
    ELSE IF Offers("path", f) THEN "path"
    ELSE "none"

Supplied(f) ==
    CASE Winner(f) = "body" -> request.body.sets[f.name]
      [] Winner(f) = "none" -> ""
      [] OTHER -> request.texts[<<Winner(f), f.name>>]

\* The handler is called with the one value per field this order picks, as
\* one registered sanitizer leaves it, and every value satisfies its rule as
\* sanitized.  (So a body can set a path field, or clear it with the zero
\* value, unless json may not set it.)
HandlerSeesWinners ==
    called # <<>> =>
        \A f \in Fields :
            /\ IF Sanitizes(f)
               THEN \E s \in DOMAIN Sanitizers :
                        called[1][f.name] = Sanitizers[s][Supplied(f)]
               ELSE called[1][f.name] = Supplied(f)
            /\ Satisfies(f, called[1][f.name], defaultValidator.rules)

\* What is wrong with the request as sent.
Faults ==
    {Invalid(pf[1], pf[2]) : pf \in
        {x \in Places \X Fields :
            /\ Offers(x[1], x[2])
            /\ ~Parses(x[2].kind, request.texts[<<x[1], x[2].name>>])}}
    \cup BodyError

\* Once the request is read, one answer names every fault of binding at
\* once, in every source, and nothing reaches the handler.  A request is
\* answered 413, among whatever other faults, exactly if its body is over
\* the limit and either says so in its Content-Length or needs to be read
\* that far, unless it is refused for a header that is looked at before the
\* body is read; a longer body whose value, or whose first error, ends
\* before the limit is answered for that.  Only a handler may answer 413
\* besides.
FaultsAreReportedTogether ==
    pc = "done" =>
        /\ Faults # {} /\ answer.by \notin {"limit", "type", "accept"} =>
              /\ answer.errors = Faults
              /\ answer.status \in {400, 413}
              /\ called = <<>>
        /\ answer.status = 413 /\ answer.by # "handler"
              <=> /\ TooLong /\ (request.sized \/ ~request.body.early)
                  /\ answer.by \notin {"type", "accept"}

Sources(f) == f.tags \cup (IF f.json THEN {"body"} ELSE {})
Order == <<"path", "query", "header", "body">>

\* A validation error of a field with one source names it, and no other, if
\* the value came from anywhere.  For a field with several it always names
\* the first of them in the order of binding, also where the value that
\* failed came from a later one.
BlameFits ==
    answer.by = "validate" =>
        \A e \in answer.errors : \A f \in Fields :
            e.field = f.name =>
                IF Cardinality(Sources(f)) <= 1 THEN Winner(f) \in {e.in, "none"}
                ELSE \E i \in DOMAIN Order :
                        /\ e.in = Order[i] /\ Order[i] \in Sources(f)
                        /\ \A j \in 1..(i - 1) : Order[j] \notin Sources(f)

\* If no rule is registered after the default validator was first asked for,
\* then what the document says of a field is what its values are held to,
\* the code a client gets is that rule's (unless the tag is one the mapper
\* has a code for), and with a rule for every tag nothing panics.
DocumentedRulesAreEnforced ==
    ~late =>
        /\ \A f \in {g \in Fields : g.rule \in RuleTags} :
              documented[f.rule] # NoRule =>
                  /\ called # <<>> =>
                        called[1][f.name] \in RuleAccepts[documented[f.rule]]
                  /\ \A e \in answer.errors :
                        answer.by = "validate" /\ e.field = f.name
                        /\ f.rule \notin DOMAIN BuiltinCodes =>
                            e.code = RuleCodes[documented[f.rule]]
        /\ answer.by = "validate"
           /\ (\A f \in Fields : f.rule \in RuleTags => documented[f.rule] # NoRule)
             => answer.status # 500

\* A sanitizer an application registered under the name of a built-in one is
\* never overwritten by the seeding.
ReplacedStaysReplaced ==
    [][\A n \in FuncNames :
          funcs[n] \in FuncVersions => funcs'[n] \in FuncVersions]_vars
=============================================================================
