CONSTANTS
    Configs <- MCConfigs
    RequestsFor <- MCRequestsFor
    Bucket <- MCBucket
SPECIFICATION Spec
CHECK_DEADLOCK FALSE
INVARIANTS
    ExtrasKeepPlace
    HeadersReachAnswer
    KeyIsClient
    SlashMakesNoDifference
    OnlyPreflightsAreAnswered
    NegotiationIsExact
