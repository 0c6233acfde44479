----------------------------- MODULE MCRouting ------------------------------
EXTENDS Routing

Field(name, location) == [name |-> name, location |-> location, required |-> TRUE]
Type(id, name, fields) == [id |-> id, name |-> name, fields |-> fields]

None == Type("none", "", {})
User1 == Type("a.User", "User", {Field("name", "body")})
User2 == Type("b.User", "User", {Field("id", "path"), Field("name", "body")})
Error1 == Type("a.ValidationError", "ValidationError", {})

Tag(summary, description) ==
    [name |-> "t",
     fields |-> [f \in TagFields |->
                   IF f = "summary" THEN summary ELSE description]]

Operation(tags, responses) ==
    [tags |-> tags, responses |-> responses, success |-> 0]

Handler(id, documented, wraps, operation, request, response) ==
    [id |-> id, documented |-> documented, wraps |-> wraps,
     operation |-> operation, request |-> request, response |-> response]

\* A plain handler; endpoints that share a tag, an empty Responses map and
\* the name of a type; one with its own responses and a type named like a
\* part of Problem; one inside CORS, and one in as many wrappers as the walk
\* looks at.
MCHandlers ==
    {Handler("plain", FALSE, <<>>, Operation(<<>>, NilMap), None, None),
     Handler("one", TRUE, <<"ETag">>, Operation(<<Tag("x", "")>>, NilMap),
             User1, None),
     Handler("two", TRUE, <<>>, Operation(<<Tag("y", "z")>>, 1), User2, User2),
     Handler("three", TRUE, <<>>, Operation(<<>>, 2), None, Error1),
     Handler("hidden", TRUE, <<"CORS">>, Operation(<<>>, NilMap),
             User1, User1),
     Handler("deep", TRUE, <<"ETag", "Timeout">>, Operation(<<>>, NilMap),
             None, None)}

\* The shared map is empty, the other lists its responses.
MCCallerMaps == <<<<>>, 200 :> NoRef>>

Pattern(method, path) == [method |-> method, path |-> path]
MCPatterns ==
    {Pattern("GET", <<"/">>), Pattern("POST", <<"/", "a", "/">>),
     Pattern("CONNECT", <<"/", "a">>), Pattern("FOO", <<"/", "a">>),
     Pattern("POST", <<"a">>)}

MCPrefixes == {<<"/", "v">>, <<"/">>, <<"v">>}
=============================================================================
