CONSTANTS
    Instances = {i1}
    Keys = {k1, k2}
    RequestLimit = 2
    WindowLength = 3
    MaxWindow = 2
SYMMETRY KeySymmetry
SPECIFICATION Spec
INVARIANTS
    BurstBound
PROPERTIES
    ImplementsLimiter
