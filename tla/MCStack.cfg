CONSTANTS
    Requests = {r1, r2}
    Limit = 1
    BacklogLimit = 1
SPECIFICATION StackFairSpec
INVARIANTS
    AnswerNamesOutcome
PROPERTIES
    EveryRequestAnswered
    SlotOutlivesAnswer
    SlotsComeBack
