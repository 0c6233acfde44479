----------------------------- MODULE MCEndpoint -----------------------------
EXTENDS Endpoint

\* type Update struct {
\*   ID   int    `path:"id" json:"id" validate:"required"`
\*   Q    string `query:"q" json:"-" validate:"short"`
\*   Name string `header:"X-Name" json:"name" validate:"short" sanitize:"digits"`
\* }
MCFields ==
    {[name |-> "id", kind |-> "int", tags |-> {"path"}, json |-> TRUE,
      rule |-> "required", sanitize |-> "none"],
     [name |-> "q", kind |-> "string", tags |-> {"query"}, json |-> FALSE,
      rule |-> "short", sanitize |-> "none"],
     [name |-> "name", kind |-> "string", tags |-> {"header"}, json |-> TRUE,
      rule |-> "short", sanitize |-> "digits"]}

\* A number, and a text without digits.
MCTexts == {"7", " "}

\* The application's sanitizer keeps the digits; the built-in is "trim".
MCSanitizers ==
    [n \in {"builtin", "mine"} |->
        [t \in {"", "7", " "} |-> IF t = " " THEN "" ELSE t]]

MCRuleAccepts == [v1 |-> {"", "7"}, v2 |-> {"7", " "}]
MCRuleCodes == [v1 |-> "code1", v2 |-> "code2"]

\* Every object within the limit, every other kind of body, and the bodies
\* over the limit, whose length alone may be known.
Body(kind, over, early, sets) ==
    [kind |-> kind, over |-> over, early |-> early, sets |-> sets]

Within ==
    {Body("object", FALSE, FALSE, s) : s \in Objects}
    \cup {Body(k, FALSE, FALSE, <<>>) : k \in BodyKinds \ {"object"}}

Over ==
    {Body(k, TRUE, FALSE, <<>>) : k \in BodyKinds \ {"nil"}}
    \cup {Body(k, TRUE, TRUE, <<>>) : k \in {"malformed", "mistyped", "unknown"}}
    \cup {Body("object", TRUE, early, "id" :> "7") : early \in BOOLEAN}

MCTextsOf ==
    {t \in [Places \X Names -> Values] :
        \A f \in Fields : \A p \in Places \ f.tags : t[<<p, f.name>>] = ""}

MCRequests ==
    [sized: {FALSE}, texts: MCTextsOf, body: Within]
    \cup [sized: BOOLEAN, texts: MCTextsOf, body: Over]
=============================================================================
