CONSTANTS
    Fields = {name, bio}
    Values = {v}
    name = name
    bio = bio
    v = v
    Null = Null
    Missing = Missing
    NoHeader = NoHeader
    Star = Star
    Unreadable = Unreadable
    NoETag = NoETag
    Untracked = Untracked
    NoResponse = NoResponse
    Clients = {c1, c2}
    Tagging = "none"
    Dated = TRUE
    Compressed = FALSE
    PutChecks = TRUE
    Require = FALSE
    TicksPerSecond = 2
    MaxTime = 3
    Requests <- DatedRequests
SPECIFICATION Spec
SYMMETRY ClientSymmetry
PROPERTIES
    StaleOnlyWithinSecond
