----------------------------- MODULE MCLiquidVM -----------------------------
(* Instances of LiquidVM for TLC: the code of a few bodies, as the         *)
(* assembler compiles it.                                                  *)
EXTENDS LiquidVM

CONSTANT k

(* {{ k }} *)
Simple(c) == AddPopWrite(AddFindStaticVariable(AddRenderVariableRescue(c), k))

(* {{ k | filter: k: k }}: the second find runs with values on the stack *)
Filtered(c) == AddPopWrite(AddBuiltinFilter(AddHashNew(AddFindStaticVariable(AddPushConst(
    AddFindStaticVariable(AddRenderVariableRescue(c), k), k), k), 1), 1))

(* text, two variables and a tag *)
MCTemplates == {AddLeave(AddWriteNode(Filtered(Simple(AddWriteRaw(Fresh))), k))}
(* (k[1]..1) *)
MCExpressions == {AddLeave(AddNewIntRange(AddPushImmediate(AddLookupKey(AddPushImmediate(
    AddFindStaticVariable(Fresh, k))))))}
MCVariables == {AddLeave(AddBuiltinFilter(AddPushConst(Fresh, k), 0))}
=============================================================================
