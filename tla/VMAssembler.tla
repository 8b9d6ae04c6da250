---------------------------- MODULE VMAssembler ----------------------------
(***************************************************************************)
(* The bytecode assembler of ext/liquid_c/vm_assembler.{h,c}.              *)
(*                                                                         *)
(* A vm_assembler_t is a record ("code").  Its fields are those of the C   *)
(* struct, with the instruction bytes abstracted to a sequence of          *)
(* instructions [op, const, n]:                                            *)
(*   const  the 16-bit index of the instruction's constant (0 if none),    *)
(*   n      what the instruction takes off the stack when that is not      *)
(*          fixed by the opcode: the size of a hash, or the number of      *)
(*          arguments of a filter, input included (OP_FILTER keeps it in   *)
(*          its constant, OP_BUILTIN_FILTER in its last operand byte).     *)
(* Two history fields say what the instructions mean to the VM that will   *)
(* run them; no operator reads them to compute a field of the struct:      *)
(*   trace  trace[i] is the situation of liquid_vm.c when it is about to   *)
(*          execute instruction i: the depth of its stack, relative to     *)
(*          where the code was entered, and whether a variable is being    *)
(*          rendered (OP_RENDER_VARIABLE_RESCUE seen, OP_POP_WRITE not).   *)
(*   meant  the constant that instruction i was compiled for.              *)
(***************************************************************************)
EXTENDS Integers, Sequences

CONSTANTS
    Key,       \* Ruby objects that can be constants of the code
    NoKey,     \* meant by an instruction without a constant
    IndexMod   \* constant indices are uint16_t: 65536 in the code

ASSUME KeyAssumption == NoKey \notin Key
ASSUME IndexModAssumption == IndexMod \in Nat \ {0}

NoIndex == -1      \* the key has no entry in constants_table

-----------------------------------------------------------------------------
(* The instruction set, by what each instruction does to the VM's stack.   *)

ConstantOps == {"PUSH_CONST", "WRITE_NODE", "FIND_STATIC_VAR",
                "LOOKUP_CONST_KEY", "LOOKUP_COMMAND", "FILTER"}

(* OP_PUSH_NIL, _TRUE, _FALSE, _INT8 and _INT16 differ only in the value.  *)
PushOps == {"PUSH_IMMEDIATE", "PUSH_CONST", "FIND_STATIC_VAR"}
ScratchOps == {"LOOKUP_CONST_KEY", "LOOKUP_COMMAND"}
UnaryOps == {"FIND_VAR"} \cup ScratchOps
BinaryOps == {"LOOKUP_KEY", "NEW_INT_RANGE"}
FilterOps == {"FILTER", "BUILTIN_FILTER"}
NodeOps == {"WRITE_RAW", "WRITE_NODE", "RENDER_VARIABLE_RESCUE"}
Ops == PushOps \cup UnaryOps \cup BinaryOps \cup FilterOps \cup NodeOps
         \cup {"HASH_NEW", "POP_WRITE", "LEAVE"}

Instruction == [op : Ops, const : Nat, n : Nat]

Pops(i) == IF i.op \in UnaryOps \cup {"POP_WRITE"} THEN 1
           ELSE IF i.op \in BinaryOps THEN 2
           ELSE IF i.op = "HASH_NEW" THEN 2 * i.n
           ELSE IF i.op \in FilterOps THEN i.n
           ELSE 0

Pushes(i) == IF i.op \in NodeOps \cup {"POP_WRITE", "LEAVE"} THEN 0 ELSE 1

(* The VM before its first instruction, and after one more.                *)
Entry == [depth |-> 0, open |-> FALSE]

Step(t, i) == [depth |-> t.depth - Pops(i) + Pushes(i),
               open |-> \/ i.op = "RENDER_VARIABLE_RESCUE"
                        \/ t.open /\ i.op # "POP_WRITE"]

(* What liquid_vm.c needs to execute i in situation t, with room for max   *)
(* values: it finds what it pops (the assert of vm_stack_peek_n), it pushes *)
(* no further than what was reserved (the assert of vm_stack_push; the two  *)
(* LOOKUPs with a constant push it before they pop), nodes are written      *)
(* between variables and with nothing on the stack, and a variable ends     *)
(* with its one value.                                                      *)
Runs(t, i, max) ==
    /\ Pops(i) <= t.depth
    /\ t.depth - Pops(i) + Pushes(i) <= max
    /\ i.op \in ScratchOps => t.depth + 1 <= max
    /\ i.op \in NodeOps => ~t.open /\ t.depth = 0
    /\ i.op = "POP_WRITE" => t.open /\ t.depth = 1

-----------------------------------------------------------------------------
(* vm_assembler_init and vm_assembler_reset *)
Fresh == [ins |-> << >>, consts |-> << >>, table |-> [k \in Key |-> NoIndex],
          max |-> 0, stack |-> 0, prot |-> 0, parsing |-> TRUE,
          trace |-> <<Entry>>, meant |-> << >>]

Last(s) == s[Len(s)]
Larger(a, b) == IF a >= b THEN a ELSE b

(* vm_assembler_write_opcode and c_buffer_extend_for_write *)
Write(c, i, k) ==
    [c EXCEPT !.ins = Append(c.ins, i),
              !.trace = Append(c.trace, Step(Last(c.trace), i)),
              !.meant = Append(c.meant, k)]

Plain(op, n) == [op |-> op, const |-> 0, n |-> n]

(* vm_assembler_write_ruby_constant *)
ConstantIndex(c, k) ==
    IF c.table[k] # NoIndex THEN c.table[k] ELSE Len(c.consts) % IndexMod

WriteConstant(c, k) ==
    IF c.table[k] # NoIndex THEN c
    ELSE [c EXCEPT !.table[k] = ConstantIndex(c, k),
                   !.consts = Append(c.consts, k)]

IncrementStack(c, amount) ==
    [c EXCEPT !.stack = c.stack + amount, !.max = Larger(c.max, c.stack + amount)]

ReserveStack(c, amount) == [c EXCEPT !.max = Larger(c.max, c.stack + amount)]

AddOpWithConstant(c, k, op, n) ==
    Write(WriteConstant(c, k),
          [op |-> op, const |-> ConstantIndex(c, k), n |-> n], k)

AddWriteRaw(c) == Write(c, Plain("WRITE_RAW", 0), NoKey)
AddWriteNode(c, k) == AddOpWithConstant(c, k, "WRITE_NODE", 0)
AddRenderVariableRescue(c) == Write(c, Plain("RENDER_VARIABLE_RESCUE", 0), NoKey)
AddPopWrite(c) ==
    Write([c EXCEPT !.stack = c.stack - 1], Plain("POP_WRITE", 0), NoKey)

AddPushImmediate(c) ==
    Write(IncrementStack(c, 1), Plain("PUSH_IMMEDIATE", 0), NoKey)
AddPushConst(c, k) == AddOpWithConstant(IncrementStack(c, 1), k, "PUSH_CONST", 0)
AddFindStaticVariable(c, k) ==
    AddOpWithConstant(IncrementStack(c, 1), k, "FIND_STATIC_VAR", 0)
AddFindVariable(c) == Write(c, Plain("FIND_VAR", 0), NoKey)
(* Mutant: no room for the key, which the VM pushes.                       *)
AddLookupConstKeyUnreserved(c, k) == AddOpWithConstant(c, k, "LOOKUP_CONST_KEY", 0)
AddLookupConstKey(c, k) ==
    AddOpWithConstant(ReserveStack(c, 1), k, "LOOKUP_CONST_KEY", 0)
AddLookupCommand(c, k) ==
    AddOpWithConstant(ReserveStack(c, 1), k, "LOOKUP_COMMAND", 0)
AddLookupKey(c) ==
    Write([c EXCEPT !.stack = c.stack - 1], Plain("LOOKUP_KEY", 0), NoKey)
AddNewIntRange(c) ==
    Write([c EXCEPT !.stack = c.stack - 1], Plain("NEW_INT_RANGE", 0), NoKey)

(* vm_assembler_add_hash_new: stack_size goes down, then up by one without *)
(* vm_assembler_increment_stack_size, so max_stack_size is not touched.    *)
AddHashNew(c, size) ==
    Write([c EXCEPT !.stack = c.stack - 2 * size + 1], Plain("HASH_NEW", size), NoKey)

(* vm_assembler_add_filter: a filter of Liquid::StandardFilters has its    *)
(* index in the instruction; any other one has a constant [name, argc + 1] *)
(* of its own.                                                             *)
AddBuiltinFilter(c, argc) ==
    Write([c EXCEPT !.stack = c.stack - argc],
          Plain("BUILTIN_FILTER", argc + 1), NoKey)
AddNamedFilter(c, k, argc) ==
    AddOpWithConstant([c EXCEPT !.stack = c.stack - argc], k, "FILTER", argc + 1)

AddLeave(c) ==
    [Write(c, Plain("LEAVE", 0), NoKey) EXCEPT !.parsing = FALSE]
(* Mutant: parsing goes on behind the LEAVE.                               *)
RemoveLeaveFlagOnly(c) == [c EXCEPT !.parsing = TRUE]
RemoveLeave(c) ==
    [c EXCEPT !.parsing = TRUE,
              !.ins = SubSeq(c.ins, 1, Len(c.ins) - 1),
              !.trace = SubSeq(c.trace, 1, Len(c.trace) - 1),
              !.meant = SubSeq(c.meant, 1, Len(c.meant) - 1)]

(* update_instructions_constants_table_index_ref, for one instruction *)
Relocate(i, increment) ==
    IF i.op \in ConstantOps
      THEN [i EXCEPT !.const = (i.const + increment) % IndexMod] ELSE i

(* vm_assembler_concat.  An entry of src's table replaces dest's.          *)
Concat(dest, src) ==
    LET base == Len(dest.consts)
        at == Last(dest.trace)
    IN [dest EXCEPT
          !.table = [k \in Key |-> IF src.table[k] # NoIndex
                                     THEN (src.table[k] + base) % IndexMod
                                     ELSE dest.table[k]],
          !.consts = dest.consts \o src.consts,
          !.ins = dest.ins \o [j \in 1..Len(src.ins) |-> Relocate(src.ins[j], base)],
          !.max = Larger(dest.max, dest.stack + src.max),
          !.stack = dest.stack + src.stack,
          !.trace = dest.trace \o
                    [j \in 1..Len(src.ins) |->
                       [depth |-> at.depth + src.trace[j + 1].depth,
                        open |-> at.open \/ src.trace[j + 1].open]],
          !.meant = dest.meant \o src.meant]

(* vm_assembler_require_stack_args *)
HasStackArgs(c, count) == c.stack >= c.prot + count

-----------------------------------------------------------------------------
(* What the other components rely on.                                      *)

(* The code can be run, from its first instruction to the last.            *)
TraceSound(c) ==
    /\ Len(c.trace) = Len(c.ins) + 1
    /\ c.trace[1] = Entry
    /\ \A i \in 1..Len(c.ins) : /\ c.trace[i + 1] = Step(c.trace[i], c.ins[i])
                                /\ Runs(c.trace[i], c.ins[i], c.max)

(* stack_size is the depth the VM will have reached.                       *)
LedgerSound(c) == c.stack = Last(c.trace).depth /\ c.stack <= c.max

(* An entry of constants_table is the place of its key.                    *)
TableSound(c) ==
    \A k \in Key : c.table[k] # NoIndex =>
        c.table[k] \in 0..(Len(c.consts) - 1) /\ c.consts[c.table[k] + 1] = k

(* Every instruction finds the constant it was compiled for.               *)
ConstantsResolve(c) ==
    /\ Len(c.meant) = Len(c.ins)
    /\ \A i \in 1..Len(c.ins) : c.ins[i].op \in ConstantOps =>
         /\ c.ins[i].const \in 0..(Len(c.consts) - 1)
         /\ c.consts[c.ins[i].const + 1] = c.meant[i]

(* The code is complete: LEAVE is its last instruction and the only one,   *)
(* it is reached with `result' values and outside any variable.            *)
Finished(c, result) ==
    /\ ~c.parsing /\ c.ins # << >>
    /\ \A i \in 1..Len(c.ins) : c.ins[i].op = "LEAVE" <=> i = Len(c.ins)
    /\ Last(c.trace) = [depth |-> result, open |-> FALSE]

(* Outside of its variables a body leaves nothing on the stack.            *)
NodesAlone(c) == \A i \in 1..Len(c.trace) : c.trace[i].open \/ c.trace[i].depth = 0

CodeType ==
    [ins : Seq(Instruction), consts : Seq(Key), table : [Key -> Int],
     max : Nat, stack : Nat, prot : Nat, parsing : BOOLEAN,
     trace : Seq([depth : Nat, open : BOOLEAN]), meant : Seq(Key \cup {NoKey})]
=============================================================================
