CONSTANTS
    Handlers <- MCHandlers
    Patterns <- MCPatterns
    GroupPrefixes <- MCPrefixes
    CallerMaps <- MCCallerMaps
    MaxDepth = 2
    MaxCalls = 4
    MaxRoutes = 2
    MaxGroups = 2
SPECIFICATION Spec
CHECK_DEADLOCK FALSE
INVARIANTS
    RoutesGoThrough
    DocumentMatchesRoutes
    RefsMeanTheirTypes
PROPERTIES
    DocumentOnlyGrows
