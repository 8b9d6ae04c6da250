CONSTANTS
    Key = {k}
    k = k
    NoKey = NoKey
    IndexMod = 65536
    Templates <- MCTemplates
    Expressions <- MCExpressions
    Variables <- MCVariables
    CapBits = 5
    MaxFrames = 3
    FiltersReenter = FALSE
    Escapes = FALSE
SPECIFICATION FairSpec
INVARIANTS
    StackKept
    ErrorCostsOneVariable
    FilteringNotStale
    FilterErrorsTranslated
PROPERTIES
    SkipsOneVariable
    OnlyFilterErrorsTranslated
    Terminates
CHECK_DEADLOCK FALSE
