CONSTANTS
    RuleTags = {"short", "dive"}
    ReservedTags = {"dive"}
    RuleVersions = {"v1", "v2"}
    NoRule = "none"
    Builtins = {"trim"}
    FuncNames = {"trim", "digits"}
    FuncVersions = {"mine"}
    NoFunc = "none"
    UsedFuncs = {"digits"}
    MaxRegistrations = 3
    Fields <- MCFields
    Texts <- MCTexts
    IntTexts = {"7"}
    BoolTexts = {}
    Sanitizers <- MCSanitizers
    RuleAccepts <- MCRuleAccepts
    RuleCodes <- MCRuleCodes
    Problems = {404, 413}
    Requests <- MCRequests
SPECIFICATION Spec
CHECK_DEADLOCK FALSE
INVARIANTS
    HandlerSeesWinners
    FaultsAreReportedTogether
    BlameFits
    DocumentedRulesAreEnforced
PROPERTIES
    ReplacedStaysReplaced
