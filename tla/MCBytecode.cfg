CONSTANTS
    Integer <- MCInteger
    Index <- MCIndex
    Operand <- MCOperand
    LineNumber <- MCLineNumber
    TextSize <- MCTextSize
    TextByte <- MCTextByte
    Increments <- MCIncrements
    MaxLength = 2
SPECIFICATION Spec
INVARIANTS
    VisitsInstructions
    DecodersAgree
    UpdatesIndicesOnly
    RemovesOnlyTexts
CHECK_DEADLOCK FALSE
