----------------------------- MODULE MCBytecode -----------------------------
(* Instances of Bytecode for TLC: the values at which an encoding changes, *)
(* and bytes of texts that are opcodes.                                    *)
EXTENDS Bytecode

MCInteger == {-32768, -129, -128, -1, 0, 127, 128, 32767}
MCIndex == {0, 255, 256, 65535}
MCOperand == {0, 3, 255}
MCLineNumber == {0, 256, 2^24 - 1}
MCTextSize == {1, 255, 256}
MCTextByte == {Op.LEAVE, Op.POP_WRITE}
MCIncrements == {0, 1, 255, 256}

(* obj[3840] and the like *)
CommandIntegers == {15, 3840}
=============================================================================
