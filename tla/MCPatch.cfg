CONSTANTS
    Fields = {name, bio}
    Values = {v}
    name = name
    bio = bio
    v = v
    Null = Null
    Missing = Missing
    NoHeader = NoHeader
    Star = Star
    Unreadable = Unreadable
    NoETag = NoETag
    Untracked = Untracked
    NoResponse = NoResponse
    Clients = {c1, c2}
    Tagging = "strong"
    Dated = FALSE
    Compressed = TRUE
    PutChecks = TRUE
    Require = TRUE
    TicksPerSecond = 2
    MaxTime = 0
    Requests <- TaggedRequests
SPECIFICATION Spec
SYMMETRY ClientSymmetry
PROPERTIES
    PatchIsAtomic
    RefusedOnlyIfOvertaken
    ImplementsConditionalDocument
