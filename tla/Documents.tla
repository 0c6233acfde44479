----------------------------- MODULE Documents ------------------------------
(***************************************************************************)
(* JSON objects and the two patch formats of httpx/patch/format.go, as far *)
(* as they can be told apart by whoever reads a resource and writes it     *)
(* back: an object gives a value to some of the fields; a patch sets one   *)
(* field or removes it.  A merge patch always applies; a JSON Patch        *)
(* replaces or removes only a field that is there.                         *)
(***************************************************************************)
CONSTANTS Fields, Values,
          Null,      \* the value that removes a field
          Missing    \* no document: the resource does not exist

ASSUME NullAssumption == Null \notin Values

Docs == UNION {[S -> Values] : S \in SUBSET Fields}

ASSUME MissingAssumption == Missing \notin Docs

\* "json" is application/json-patch+json, "bad" a patch document that does
\* not parse, "other" any Content-Type that is neither format.
Formats == {"merge", "json", "bad", "other"}
Patches == [format: Formats, field: Fields, value: Values \cup {Null}]

Applies(patch, original) ==
    \/ patch.format = "merge"
    \/ patch.format = "json" /\ patch.field \in DOMAIN original

Apply(patch, original) ==
    IF patch.value = Null
    THEN [f \in DOMAIN original \ {patch.field} |-> original[f]]
    ELSE [f \in DOMAIN original \cup {patch.field} |->
             IF f = patch.field THEN patch.value ELSE original[f]]
=============================================================================
