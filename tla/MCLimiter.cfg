CONSTANTS
    Instances = {i1, i2}
    Keys = {k1}
    RequestLimit = 2
    WindowLength = 2
    MaxWindow = 2
    MaxFailures = 1
SYMMETRY LimiterSymmetry
SPECIFICATION LimiterSpec
INVARIANTS
    GrantsBounded
PROPERTIES
    RefusedOnlyIfSpent
