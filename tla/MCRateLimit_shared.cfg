CONSTANTS
    Instances = {i1, i2, i3}
    Keys = {k1}
    RequestLimit = 1
    WindowLength = 2
    MaxWindow = 1
SYMMETRY InstanceSymmetry
SPECIFICATION Spec
INVARIANTS
    OvershootBounded
PROPERTIES
    DeniedOnlyWhenBusy
