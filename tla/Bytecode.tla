------------------------------ MODULE Bytecode ------------------------------
(***************************************************************************)
(* The bytes of the instructions: how vm_assembler.{h,c} writes them and   *)
(* the three hand-written decoders of liquid_vm.c and vm_assembler.c that  *)
(* must agree on where an instruction ends and what it says: the switch of *)
(* vm_render_until_error, liquid_vm_next_instruction, which skips          *)
(* instructions without running them, and the patching of constant indices *)
(* by update_instructions_constants_table_index_ref.                       *)
(*                                                                         *)
(* A program is written one instruction at a time.  A position is the      *)
(* 1-based index of a byte.                                                *)
(***************************************************************************)
EXTENDS Integers, Sequences

CONSTANTS
    Integer,    \* small integers of the source, in the range of int16_t
    Index,      \* indices of constants, in the range of uint16_t
    Operand,    \* hash sizes, filter indices and argument counts: bytes
    LineNumber, \* in the range of 24 bits
    TextSize,   \* sizes of raw texts, below 2^24
    TextByte,   \* bytes of raw texts
    Increments, \* sizes of dest->constants at a concat
    MaxLength   \* bound on the instructions of a program

Byte == 0..255

ASSUME SampleAssumption ==
    /\ \A x \in Integer : x \in Int /\ -32768 <= x /\ x <= 32767
    /\ \A x \in Index : x \in Nat /\ x <= 65535
    /\ Operand \subseteq Byte /\ TextByte \subseteq Byte
    /\ \A x \in LineNumber : x \in Nat /\ x <= 16777215
    /\ \A x \in TextSize : x \in Nat \ {0} /\ x <= 16777215
    /\ Increments \subseteq Nat /\ MaxLength \in Nat

VARIABLES
    program, \* the instructions written, as they are meant
    starts,  \* the position of each
    bytes    \* code->instructions

vars == <<program, starts, bytes>>

-----------------------------------------------------------------------------
(* enum opcode *)
Op == [LEAVE |-> 0, WRITE_RAW_W |-> 1, WRITE_NODE |-> 2, POP_WRITE |-> 3,
       WRITE_RAW_SKIP |-> 4, PUSH_CONST |-> 5, PUSH_NIL |-> 6, PUSH_TRUE |-> 7,
       PUSH_FALSE |-> 8, PUSH_INT8 |-> 9, PUSH_INT16 |-> 10, FIND_STATIC_VAR |-> 11,
       FIND_VAR |-> 12, LOOKUP_CONST_KEY |-> 13, LOOKUP_KEY |-> 14,
       LOOKUP_COMMAND |-> 15, NEW_INT_RANGE |-> 16, HASH_NEW |-> 17, FILTER |-> 18,
       BUILTIN_FILTER |-> 19, RENDER_VARIABLE_RESCUE |-> 20, WRITE_RAW |-> 21,
       JUMP_FWD_W |-> 22, JUMP_FWD |-> 23]

(* vm_assembler_opcode_has_constant *)
HasConstant(op) ==
    op \in {Op.PUSH_CONST, Op.WRITE_NODE, Op.FIND_STATIC_VAR, Op.LOOKUP_CONST_KEY,
            Op.LOOKUP_COMMAND, Op.FILTER}

Bare == {Op.LEAVE, Op.POP_WRITE, Op.PUSH_NIL, Op.PUSH_TRUE, Op.PUSH_FALSE,
         Op.FIND_VAR, Op.LOOKUP_KEY, Op.NEW_INT_RANGE}
WithIndex == {op \in {Op[name] : name \in DOMAIN Op} : HasConstant(op)}

-----------------------------------------------------------------------------
(* Writing.  A C conversion to uint8_t keeps the low byte; >> is an        *)
(* arithmetic shift.                                                       *)
Low(x) == x % 256
Bytes16(x) == <<Low(x \div 256), Low(x)>>
Bytes24(x) == <<Low(x \div 65536), Low(x \div 256), Low(x)>>

(* vm_assembler_add_push_fixnum, within int16_t *)
IntBytes(x) ==
    IF x \in -128..127 THEN <<Op.PUSH_INT8, Low(x)>>
    ELSE <<Op.PUSH_INT16>> \o Bytes16(x)

(* vm_assembler_add_write_raw *)
RawBytes(size, text) ==
    (IF size > 255 THEN <<Op.WRITE_RAW_W>> \o Bytes24(size)
                   ELSE <<Op.WRITE_RAW, size>>) \o text

Instruction(kind, value) == [kind |-> kind, value |-> value]

Emit(instruction, code) ==
    /\ Len(program) < MaxLength
    /\ program' = Append(program, instruction)
    /\ starts' = Append(starts, Len(bytes) + 1)
    /\ bytes' = bytes \o code

AddBare == \E op \in Bare : Emit(Instruction(op, 0), <<op>>)

(* vm_assembler_add_op_with_constant *)
AddWithConstant == \E op \in WithIndex : \E index \in Index :
    Emit(Instruction(op, index), <<op>> \o Bytes16(index))

AddPushInteger == \E x \in Integer : Emit(Instruction(IntBytes(x)[1], x), IntBytes(x))

AddHashNew == \E size \in Operand : Emit(Instruction(Op.HASH_NEW, size), <<Op.HASH_NEW, size>>)

AddBuiltinFilter == \E filter, args \in Operand :
    Emit(Instruction(Op.BUILTIN_FILTER, <<filter, args>>), <<Op.BUILTIN_FILTER, filter, args>>)

AddRenderVariableRescue == \E line \in LineNumber :
    Emit(Instruction(Op.RENDER_VARIABLE_RESCUE, line),
         <<Op.RENDER_VARIABLE_RESCUE>> \o Bytes24(line))

AddWriteRaw == \E size \in TextSize : \E byte \in TextByte :
    LET code == RawBytes(size, [j \in 1..size |-> byte])
    IN Emit(Instruction(code[1], size), code)

Init == program = << >> /\ starts = << >> /\ bytes = << >>

Next == \/ AddBare \/ AddWithConstant \/ AddPushInteger \/ AddHashNew
        \/ AddBuiltinFilter \/ AddRenderVariableRescue \/ AddWriteRaw

Spec == Init /\ [][Next]_vars

-----------------------------------------------------------------------------
(* Reading                                                                 *)

Uint16(code, ip) == code[ip] * 256 + code[ip + 1]
Uint24(code, ip) == code[ip] * 65536 + code[ip + 1] * 256 + code[ip + 2]
Unsigned(byte) == byte    \* mutant
Signed(byte) == IF byte >= 128 THEN byte - 256 ELSE byte

(* Mutant: the second operand of a builtin filter is forgotten.            *)
NextInstructionShort(code, ip) ==
    LET op == code[ip]
    IN  CASE op \in Bare -> ip + 1
          [] op \in {Op.HASH_NEW, Op.PUSH_INT8, Op.BUILTIN_FILTER} -> ip + 2
          [] op = Op.PUSH_INT16 \/ HasConstant(op) -> ip + 3
          [] op = Op.RENDER_VARIABLE_RESCUE -> ip + 4
          [] op \in {Op.WRITE_RAW_W, Op.JUMP_FWD_W} -> ip + 4 + Uint24(code, ip + 1)
          [] op \in {Op.WRITE_RAW, Op.JUMP_FWD} -> ip + 2 + code[ip + 1]

(* liquid_vm_next_instruction *)
NextInstruction(code, ip) ==
    LET op == code[ip]
    IN  CASE op \in Bare -> ip + 1
          [] op \in {Op.HASH_NEW, Op.PUSH_INT8} -> ip + 2
          [] op \in {Op.BUILTIN_FILTER, Op.PUSH_INT16} \/ HasConstant(op) -> ip + 3
          [] op = Op.RENDER_VARIABLE_RESCUE -> ip + 4
          [] op \in {Op.WRITE_RAW_W, Op.JUMP_FWD_W} -> ip + 4 + Uint24(code, ip + 1)
          [] op \in {Op.WRITE_RAW, Op.JUMP_FWD} -> ip + 2 + code[ip + 1]

(* What the switch of vm_render_until_error reads of the instruction at ip, *)
(* and the position it goes on with.                                       *)
Run(code, ip) ==
    LET op == code[ip]
        Reads(value, next) == [kind |-> op, value |-> value, next |-> next]
    IN  CASE op \in Bare -> Reads(0, ip + 1)
          [] HasConstant(op) -> Reads(Uint16(code, ip + 1), ip + 3)
          [] op = Op.PUSH_INT8 -> Reads(Signed(code[ip + 1]), ip + 2)
          [] op = Op.PUSH_INT16 -> Reads(Signed(code[ip + 1]) * 256 + code[ip + 2], ip + 3)
          [] op = Op.HASH_NEW -> Reads(code[ip + 1], ip + 2)
          [] op = Op.BUILTIN_FILTER -> Reads(<<code[ip + 1], code[ip + 2]>>, ip + 3)
          [] op = Op.RENDER_VARIABLE_RESCUE -> Reads(Uint24(code, ip + 1), ip + 4)
          [] op \in {Op.WRITE_RAW_W, Op.JUMP_FWD_W} ->
               Reads(Uint24(code, ip + 1), ip + 4 + Uint24(code, ip + 1))
          [] op \in {Op.WRITE_RAW, Op.JUMP_FWD} -> Reads(code[ip + 1], ip + 2 + code[ip + 1])

(* The positions that liquid_vm_next_instruction visits from the first on. *)
(* What it would do outside of the code is not represented: a position     *)
(* that does not lead forward within the code is the last.                 *)
Visited(code) ==
    LET From[ip \in 1..Len(code) + 1] ==
          IF ip = Len(code) + 1 \/ NextInstruction(code, ip) \notin ip + 1..Len(code) + 1
            THEN {ip} \ {Len(code) + 1}
            ELSE {ip} \cup From[NextInstruction(code, ip)]
    IN From[1]

(* Mutant: no carry into the high byte.                                    *)
UpdateLowBytes(code, increment) ==
    [j \in 1..Len(code) |->
       IF \E ip \in Visited(code) : j = ip + 2 /\ HasConstant(code[ip])
         THEN Low(code[j] + increment) ELSE code[j]]

(* update_instructions_constants_table_index_ref *)
UpdateIndices(code, increment) ==
    LET patched == {ip \in Visited(code) : HasConstant(code[ip])}
        New(ip) == Bytes16(Uint16(code, ip + 1) + increment)
    IN [j \in 1..Len(code) |->
          IF j - 1 \in patched THEN New(j - 1)[1]
          ELSE IF j - 2 \in patched THEN New(j - 2)[2]
          ELSE code[j]]

(* Mutant: a wide text becomes a narrow jump.                              *)
RemoveBlankStringsNarrow(code) ==
    [j \in 1..Len(code) |->
       IF j \in Visited(code) /\ code[j] \in {Op.WRITE_RAW, Op.WRITE_RAW_W}
         THEN Op.JUMP_FWD ELSE code[j]]

(* block_body_remove_blank_strings *)
RemoveBlankStrings(code) ==
    [j \in 1..Len(code) |->
       IF j \notin Visited(code) THEN code[j]
       ELSE IF code[j] = Op.WRITE_RAW /\ code[j + 1] # 0 THEN Op.JUMP_FWD
       ELSE IF code[j] = Op.WRITE_RAW_W /\ Uint24(code, j + 1) # 0 THEN Op.JUMP_FWD_W
       ELSE code[j]]

(* is_command of OP_LOOKUP_KEY, whose three bytes before the next          *)
(* instruction are its own only when control falls through from            *)
(* OP_LOOKUP_CONST_KEY or OP_LOOKUP_COMMAND.  Outside of the code any byte. *)
IsCommand(code, ip) ==
    LET next == Run(code, ip).next
    IN next > 3 /\ code[next - 3] = Op.LOOKUP_COMMAND

-----------------------------------------------------------------------------
Boundaries == {starts[j] : j \in 1..Len(starts)}

(* Skipping instructions one by one visits each of them and nothing else,  *)
(* even when a raw text or an operand looks like an opcode: the scans for  *)
(* OP_POP_WRITE and OP_LEAVE cannot stop in the middle of an instruction.  *)
VisitsInstructions == Visited(bytes) = Boundaries

(* Only bytes are written, and the VM reads what was meant, with its sign,  *)
(* and goes on where skipping would have gone on.                          *)
DecodersAgree ==
    /\ bytes \in Seq(Byte)
    /\ \A j \in 1..Len(program) :
         LET read == Run(bytes, starts[j])
         IN /\ read.kind = program[j].kind /\ read.value = program[j].value
            /\ read.next = NextInstruction(bytes, starts[j])

(* Concat adds to every index of a constant, across a byte if need be, and *)
(* changes nothing else that the VM reads.                                 *)
UpdatesIndicesOnly ==
    \A increment \in Increments : \A j \in 1..Len(program) :
        LET before == Run(bytes, starts[j])
            after == Run(UpdateIndices(bytes, increment), starts[j])
        IN /\ after.kind = before.kind /\ after.next = before.next
           /\ after.value = IF HasConstant(before.kind)
                              THEN (before.value + increment) % 65536 ELSE before.value

(* Removing blank strings turns every raw text into a jump over it and     *)
(* moves no instruction.                                                   *)
RemovesOnlyTexts ==
    LET removed == RemoveBlankStrings(bytes)
    IN /\ Visited(removed) = Boundaries
       /\ \A ip \in Boundaries :
            LET before == Run(bytes, ip)
                after == Run(removed, ip)
            IN /\ after.next = before.next /\ after.value = before.value
               /\ after.kind \notin {Op.WRITE_RAW, Op.WRITE_RAW_W}
               /\ after.kind # before.kind =>
                    before.kind \in {Op.WRITE_RAW, Op.WRITE_RAW_W}

(* A lookup is a command (size, first, last) just if it was compiled as one  *)
(* (compile_ext.rb): obj[key] is not, whatever its key is.                  *)
OnlyCommandsAreCommands ==
    \A j \in 1..Len(program) :
        program[j].kind \in {Op.LOOKUP_KEY, Op.LOOKUP_CONST_KEY, Op.LOOKUP_COMMAND} =>
            (IsCommand(bytes, starts[j]) <=> program[j].kind = Op.LOOKUP_COMMAND)
=============================================================================
