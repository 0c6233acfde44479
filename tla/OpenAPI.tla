------------------------------ MODULE OpenAPI ------------------------------
(***************************************************************************)
(* The document generator (openapi/generator.go, openapi/problem.go): how  *)
(* one registered route after another adds to paths, component schemas,    *)
(* tags and responses.  A generator is a record; every function of the     *)
(* package that changes one is an operator from the old to the new.        *)
(*                                                                         *)
(* A Go type is a record of its identity, its Name(), which is empty for a *)
(* slice and does not tell the package, and its fields.  A Responses map   *)
(* is a reference: maps[i] is what reference i points to, and a caller may *)
(* put the same one into several operations.  The schemas of fields and    *)
(* Parameters listed by the caller are left out.                           *)
(***************************************************************************)
EXTENDS Naturals, Sequences, SequencesExt, TLC

NilMap == 0
Slots == {"GET", "POST", "PUT", "PATCH", "DELETE", "HEAD", "OPTIONS", "TRACE",
          "QUERY"}
TagFields == {"summary", "description"}

\* The schemas Problem refers to, which registerProblemSchema writes too.
ProblemParts == {"ValidationSource", "ValidationError"}

\* The generator's own types, each with the id and the name of its schema.
BuiltIn == {"Problem"} \cup ProblemParts

\* A map after key was set.
Put(map, key, value) ==
    [k \in DOMAIN map \cup {key} |-> IF k = key THEN value ELSE map[k]]

\* NewGenerator; the maps are those of the caller's operations.
NewGenerator(callerMaps) ==
    [paths |-> <<>>, schemas |-> <<>>, tags |-> <<>>, maps |-> callerMaps]

(***************************************************************************)
(* registerTags: a tag without a name is not registered; one seen before   *)
(* keeps every field it has and takes those it lacks.                      *)
(***************************************************************************)
\* Mutant of FillTag: the later tag's fields replace the earlier ones.
FillTagLast(old, new) ==
    [f \in TagFields |-> IF new.fields[f] = "" THEN old[f] ELSE new.fields[f]]

FillTag(old, new) ==
    [f \in TagFields |-> IF old[f] = "" THEN new.fields[f] ELSE old[f]]

RegisterTag(tags, tag) ==
    IF tag.name = "" THEN tags
    ELSE IF tag.name \in DOMAIN tags
    THEN [tags EXCEPT ![tag.name] = FillTag(@, tag)]
    ELSE Put(tags, tag.name, tag.fields)

RegisterTags(tags, list) == FoldLeft(RegisterTag, tags, list)

(***************************************************************************)
(* registerSchema and registerProblemSchema: the name decides.             *)
(***************************************************************************)
\* Mutant of RegisterSchema: the last type of a name wins.
RegisterSchemaLast(schemas, type) == Put(schemas, type.name, type.id)

RegisterSchema(schemas, type) ==
    IF type.name \in DOMAIN schemas THEN schemas
    ELSE Put(schemas, type.name, type.id)

\* The two schemas Problem refers to are written over whatever has their
\* names, unless there is a Problem already.
RegisterProblemSchema(schemas) ==
    IF "Problem" \in DOMAIN schemas THEN schemas
    ELSE [n \in DOMAIN schemas \cup BuiltIn |->
             IF n \in BuiltIn THEN n ELSE schemas[n]]

(***************************************************************************)
(* addParameters, shouldGenerateBody and buildOperation.                   *)
(***************************************************************************)
Parameters(type) ==
    {[name |-> f.name, in |-> f.location,
      required |-> f.required \/ f.location = "path"] :
         f \in {g \in type.fields : g.location # "body"}}

HasBody(method, type) ==
    method # "GET" /\ \E f \in type.fields : f.location = "body"

\* The three responses a route gets when its caller listed none.
Defaults(operation, response) ==
    LET success == IF operation.success = 0 THEN 200 ELSE operation.success
    IN  [s \in {success, 400, 500} |->
            IF s = success THEN response.name ELSE "Problem"]

\* The Responses map of an operation: a nil one becomes a new one.
OwnMap(generator, operation) ==
    IF operation.responses = NilMap THEN Len(generator.maps) + 1
    ELSE operation.responses

Listed(generator, operation) ==
    operation.responses # NilMap /\ generator.maps[operation.responses] # <<>>

\* An empty map is filled with the defaults in place, for whoever shares it.
FillMap(generator, operation, response) ==
    IF operation.responses = NilMap
    THEN Append(generator.maps, Defaults(operation, response))
    ELSE IF Listed(generator, operation) THEN generator.maps
    ELSE [generator.maps EXCEPT ![operation.responses] =
                                    Defaults(operation, response)]

\* The schemas an operation refers to, in the order it brings them.
BringSchemas(generator, method, operation, request, response) ==
    LET bound == IF HasBody(method, request)
                 THEN RegisterSchema(generator.schemas, request)
                 ELSE generator.schemas
        named == RegisterSchema(bound, response)
    IN  IF Listed(generator, operation) THEN named
        ELSE RegisterProblemSchema(named)

BuildOperation(generator, method, operation, request, response) ==
    [generator |->
       [paths |-> generator.paths,
        schemas |-> BringSchemas(generator, method, operation, request, response),
        tags |-> RegisterTags(generator.tags, operation.tags),
        maps |-> FillMap(generator, operation, response)],
     operation |->
       [parameters |-> Parameters(request),
        body |-> IF HasBody(method, request) THEN {request.name} ELSE {},
        responses |-> OwnMap(generator, operation)]]

\* Mutant of Register: a slot for every method.
RegisterAnyMethod(generator, method, path, operation, request, response) ==
    LET built == BuildOperation(generator, method, operation, request, response)
        entry == [op |-> built.operation, request |-> request.id,
                  response |-> response.id]
    IN  [built.generator EXCEPT !.paths = Put(@, <<method, path>>, entry)]

\* Register and RegisterTypes: the operation takes the method's slot of the
\* path, over any other; CONNECT has none, its types and tags stay.
Register(generator, method, path, operation, request, response) ==
    LET built == BuildOperation(generator, method, operation, request, response)
        entry == [op |-> built.operation, request |-> request.id,
                  response |-> response.id]
    IN  [built.generator EXCEPT
           !.paths = IF method \in Slots THEN Put(@, <<method, path>>, entry)
                     ELSE @]

-----------------------------------------------------------------------------
(***************************************************************************)
(* What the references of an operation lead to.  A caller's own responses  *)
(* carry no reference of the generator's.                                  *)
(***************************************************************************)
NoRef == "none"

RefsOf(generator, entry) ==
    LET map == generator.maps[entry.op.responses]
    IN  (entry.op.body \cup {map[s] : s \in DOMAIN map}) \ {NoRef}
=============================================================================
