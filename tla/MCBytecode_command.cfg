CONSTANTS
    Integer <- CommandIntegers
    Index <- MCIndex
    Operand <- MCOperand
    LineNumber <- MCLineNumber
    TextSize <- MCTextSize
    TextByte <- MCTextByte
    Increments <- MCIncrements
    MaxLength = 3
SPECIFICATION Spec
INVARIANT OnlyCommandsAreCommands
CHECK_DEADLOCK FALSE
