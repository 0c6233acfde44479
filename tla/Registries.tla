----------------------------- MODULE Registries -----------------------------
(***************************************************************************)
(* What a program sets up before an endpoint serves: the global registry   *)
(* of custom validation rules (validation/registry.go), the default        *)
(* validator, built once from a snapshot of it (default.go), the global    *)
(* registry of sanitizers, seeded lazily (sanitize/registry.go), and the   *)
(* registration of the endpoint's route, when its schema is generated.     *)
(* Each registry has a lock, so each call is a step; RegisterFunc seeds    *)
(* first, under the same lock but in a critical section of its own.        *)
(***************************************************************************)
EXTENDS Naturals, FiniteSets

CONSTANTS RuleTags,      \* tags of custom rules
          ReservedTags,  \* those validator/v10 refuses
          RuleVersions,  \* definitions of a rule
          NoRule,        \* there is none
          Builtins,      \* the sanitizers seeded: "trim", "email"
          FuncNames,     \* names of sanitizers
          FuncVersions,  \* an application's sanitizers
          NoFunc,        \* there is none
          UsedFuncs,     \* the names in the endpoint's sanitize tags
          MaxRegistrations  \* bound on the calls of the two Register functions

\* A registered function is none of the others, and tags name known ones or
\* strangers, which FuncNames then includes.
ASSUME FuncsAssumption ==
    /\ NoFunc \notin FuncVersions \cup {"builtin"}
    /\ UsedFuncs \subseteq FuncNames

VARIABLES customRules,       \* validation: by tag
          funcs,             \* sanitize: the registry, by name
          seeded,            \* seedOnce
          entering,          \* calls of RegisterFunc that have seeded
          defaultValidator,  \* its state, and the rules it runs
          endpoint,          \* "none", "built", or "served" by a route
          documented,        \* the rules in the generated schema
          registrations,     \* how many calls were made
          late               \* history: a rule came after Default

registryVars == <<customRules, funcs, seeded, entering, defaultValidator,
                  endpoint, documented, registrations, late>>

NoRules == [t \in RuleTags |-> NoRule]

RegistriesInit ==
    /\ customRules = NoRules
    /\ funcs = [n \in FuncNames |-> NoFunc]
    /\ seeded = FALSE
    /\ entering = {}
    /\ defaultValidator = [state |-> "unbuilt", rules |-> NoRules]
    /\ endpoint = "none"
    /\ documented = NoRules
    /\ registrations = 0
    /\ late = FALSE

\* RegisterCustomRule: the last definition of a tag counts.  One with no tag
\* or no function is refused and changes nothing.
RegisterCustomRule(tag, version) ==
    /\ registrations < MaxRegistrations
    /\ registrations' = registrations + 1
    /\ customRules' = [customRules EXCEPT ![tag] = version]
    /\ late' = (late \/ defaultValidator.state # "unbuilt")
    /\ UNCHANGED <<funcs, seeded, entering, defaultValidator, endpoint, documented>>

\* seedBuiltins: the registry once it has run.
Seeded ==
    [n \in FuncNames |-> IF n \in Builtins /\ ~seeded THEN "builtin" ELSE funcs[n]]

\* Mutant of RegisterFuncEnter: RegisterFunc does not seed.
RegisterFuncEnterUnseeded(name, version) ==
    /\ registrations < MaxRegistrations
    /\ registrations' = registrations + 1
    /\ entering' = entering \cup {<<name, version>>}
    /\ UNCHANGED <<customRules, funcs, seeded, defaultValidator, endpoint,
                   documented, late>>

\* RegisterFunc, up to its own critical section.
RegisterFuncEnter(name, version) ==
    /\ registrations < MaxRegistrations
    /\ registrations' = registrations + 1
    /\ funcs' = Seeded
    /\ seeded' = TRUE
    /\ entering' = entering \cup {<<name, version>>}
    /\ UNCHANGED <<customRules, defaultValidator, endpoint, documented, late>>

RegisterFunc(name, version) ==
    /\ <<name, version>> \in entering
    /\ entering' = entering \ {<<name, version>>}
    /\ funcs' = [funcs EXCEPT ![name] = version]
    /\ UNCHANGED <<customRules, seeded, defaultValidator, endpoint, documented,
                   registrations, late>>

\* Mutant of Default: built without the rules.
DefaultBare ==
    IF defaultValidator.state # "unbuilt" THEN defaultValidator
    ELSE [state |-> "built", rules |-> NoRules]

\* Default: built on first use from the rules there are, or failed for good
\* on a reserved tag.
Default ==
    IF defaultValidator.state # "unbuilt" THEN defaultValidator
    ELSE IF \E t \in ReservedTags : customRules[t] # NoRule
    THEN [state |-> "failed", rules |-> NoRules]
    ELSE [state |-> "built", rules |-> customRules]

\* sanitize.Prepare looks every name up.
Prepared == \A n \in UsedFuncs : Seeded[n] # NoFunc

\* Endpoint: WithDefaults asks for the default validator, which panics when
\* it failed; then Prepare, whose error is a panic too.
BuildEndpoint ==
    /\ endpoint = "none"
    /\ defaultValidator' = Default
    /\ IF Default.state = "failed"
       THEN UNCHANGED <<funcs, seeded, endpoint>>
       ELSE /\ funcs' = IF UsedFuncs = {} THEN funcs ELSE Seeded
            /\ seeded' = (seeded \/ UsedFuncs # {})
            /\ endpoint' = IF Prepared THEN "built" ELSE "none"
    /\ UNCHANGED <<customRules, entering, documented, registrations, late>>

\* Router.Handle: applyCustomRule takes the schema of the rule there is now.
RegisterRoute ==
    /\ endpoint = "built"
    /\ endpoint' = "served"
    /\ documented' = customRules
    /\ UNCHANGED <<customRules, funcs, seeded, entering, defaultValidator,
                   registrations, late>>

Registration ==
    \/ \E t \in RuleTags, v \in RuleVersions : RegisterCustomRule(t, v)
    \/ \E n \in FuncNames, v \in FuncVersions :
          RegisterFuncEnter(n, v) \/ RegisterFunc(n, v)
    \/ BuildEndpoint \/ RegisterRoute
=============================================================================
