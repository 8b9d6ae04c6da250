CONSTANTS
    RenderLengthLimit = 1
    RenderScoreLimit = 3
    AssignScoreLimit = 2
    Sizes = {0, 1}
    Scores = {1}
    MaxLength = 2
    MaxCalls = 8
    MaxScore = 4
SPECIFICATION Spec
INVARIANTS
    Settled
    LimitsHold
    Ledger
PROPERTY BillImplemented
CHECK_DEADLOCK FALSE
