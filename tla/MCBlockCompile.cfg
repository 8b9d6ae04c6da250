CONSTANTS
    Key = {k1, k2}
    NoKey = NoKey
    IndexMod = 8
    MaxIns = 6
    MaxNesting = 3
    MaxFilterArgs = 2
    MaxHashSize = 1
    HashSizes = {1}
SPECIFICATION Spec
SYMMETRY KeySymmetry
INVARIANTS
    TypeOK
    CodeRuns
    StackSizeExact
    ConstantsSound
    IdleIsFinished
    VariableLeavesOne
CHECK_DEADLOCK FALSE
