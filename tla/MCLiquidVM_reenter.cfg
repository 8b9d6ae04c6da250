CONSTANTS
    Key = {k}
    k = k
    NoKey = NoKey
    IndexMod = 65536
    Templates <- MCTemplates
    Expressions <- MCExpressions
    Variables <- MCVariables
    CapBits = 5
    MaxFrames = 3
    FiltersReenter = TRUE
    Escapes = FALSE
SPECIFICATION Spec
INVARIANT FilterErrorsTranslated
CHECK_DEADLOCK FALSE
