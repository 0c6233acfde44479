\* A request is served once: the system stops when both goroutines have ended.
CONSTANTS
    Headers = {h1, h2}
    Codes = {ok, missing}
    OK = ok
    MaxWrites = 2
SPECIFICATION FairSpec
CHECK_DEADLOCK FALSE
INVARIANTS
    OneOutcome
    NoHeaderRace
PROPERTIES
    BothGoroutinesEnd
