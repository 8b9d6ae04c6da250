---------------------------- MODULE BlockCompile ----------------------------
(***************************************************************************)
(* Compilation of one Liquid::C::BlockBody: the parse loop of block.c, the *)
(* recursive descent parser of parser.c and the strict parse, rescue and   *)
(* lax parse of a variable in variable.c, down to every call they make to  *)
(* the assembler (VMAssembler).                                            *)
(*                                                                         *)
(* The source text is not represented: which token comes next is a choice  *)
(* of the action, and a SyntaxError may be raised wherever the parser      *)
(* consumes a token.  The C stack of the recursive descent is `todo', a    *)
(* stack of what is left to do, its last element first.                    *)
(***************************************************************************)
EXTENDS VMAssembler

CONSTANTS
    MaxIns,         \* bound on the instructions of code and kw together
    MaxNesting,     \* bound on the depth of the recursive descent
    MaxFilterArgs,  \* 254 in vm_assembler_add_filter
    MaxHashSize,    \* 255 in vm_assembler_add_hash_new
    HashSizes       \* the sizes a compile_evaluate may give to add_hash_new

ASSUME BoundsAssumption ==
    /\ MaxIns \in Nat /\ MaxNesting \in Nat
    /\ MaxFilterArgs \in Nat /\ MaxHashSize \in Nat
    /\ HashSizes \subseteq Nat

VARIABLES
    code,    \* body->as.intermediate.code
    kw,      \* push_keywords_expr->code: the keyword arguments of a filter
    phase,   \* where internal_block_body_parse is
    todo,    \* activations of the recursive descent
    saved,   \* variable_strict_parse_rescue_t: sizes at the variable's start
    argc,    \* arg_count of the filter being compiled
    kwargc   \* its keyword_arg_count

vars == <<code, kw, phase, todo, saved, argc, kwargc>>

StrictPhases == {"name", "filters", "args", "positional", "keyword"}
Phases == {"idle", "block", "lax", "write", "failed"} \cup StrictPhases

Activities == {"Expression", "FindVariable", "Lookups", "LookupKey", "NewIntRange"}
Gain(what) == IF what = "Expression" THEN 1
              ELSE IF what \in {"LookupKey", "NewIntRange"} THEN -1
              ELSE 0

Nothing == [ins |-> 0, consts |-> 0, stack |-> 0]

(* vm_assembler_pool_alloc_assembler and add_leave, in BlockBody#initialize *)
Init == /\ code = AddLeave(Fresh) /\ kw = Fresh
        /\ phase = "idle" /\ todo = << >> /\ saved = Nothing
        /\ argc = 0 /\ kwargc = 0

(* Bounds.  That the constants fit 16-bit indices is not checked in C.     *)
Room(n) ==
    /\ Len(code.ins) + Len(kw.ins) + n <= MaxIns
    /\ Len(code.consts) + Len(kw.consts) + n <= IndexMod

-----------------------------------------------------------------------------
(* parse_and_compile_expression.  cur is the assembler it was called with. *)
(* An activation's `at' is the value of stack_size when it gets control (a *)
(* history field: the C stack does not hold it).                           *)

cur == IF phase = "keyword" THEN kw ELSE code

SetCur(c) == IF phase = "keyword" THEN kw' = c /\ code' = code
                                  ELSE code' = c /\ kw' = kw

Parsing == phase \in {"name", "positional", "keyword"} /\ todo # << >>

Top == Last(todo)
Below == SubSeq(todo, 1, Len(todo) - 1)
Do(what, at) == [what |-> what, at |-> at]

Descend(what) == Parsing /\ Top.what = what /\ Room(1)

(* The activation emits c and is replaced by the activations in next.      *)
Emit(c, next) ==
    /\ SetCur(c)
    /\ todo' = Below \o next
    /\ UNCHANGED <<phase, saved, argc, kwargc>>

(* try_parse_literal, parse_and_compile_number, a string, a constant range *)
Literal == Descend("Expression") /\
    \/ Emit(AddPushImmediate(cur), << >>)
    \/ \E k \in Key : Emit(AddPushConst(cur, k), << >>)

(* parse_and_compile_variable_lookup: `name' or `[expression]' *)
VariableName == Descend("Expression") /\
    \E k \in Key : LET c == AddFindStaticVariable(cur, k)
                   IN Emit(c, <<Do("Lookups", c.stack)>>)

BracketName ==
    /\ Descend("Expression") /\ Len(todo) < MaxNesting
    /\ LET s == Top.at
       IN Emit(cur, <<Do("FindVariable", s + 1), Do("Expression", s)>>)

FindVariable == Descend("FindVariable") /\
    LET c == AddFindVariable(cur) IN Emit(c, <<Do("Lookups", c.stack)>>)

DotLookup == Descend("Lookups") /\
    \E k \in Key : \E c \in {AddLookupConstKey(cur, k), AddLookupCommand(cur, k)} :
        Emit(c, <<Do("Lookups", c.stack)>>)

BracketLookup ==
    /\ Descend("Lookups") /\ Len(todo) < MaxNesting
    /\ LET s == Top.at
       IN Emit(cur, <<Do("Lookups", s), Do("LookupKey", s + 1), Do("Expression", s)>>)

LookupKey == Descend("LookupKey") /\ Emit(AddLookupKey(cur), << >>)

EndLookups == Parsing /\ Top.what = "Lookups" /\ Emit(cur, << >>)

(* parse_and_compile_range, when try_parse_constant_range has backtracked  *)
Range ==
    /\ Descend("Expression") /\ Len(todo) < MaxNesting
    /\ LET s == Top.at
       IN Emit(cur, <<Do("NewIntRange", s + 2), Do("Expression", s + 1),
                      Do("Expression", s)>>)

NewIntRange == Descend("NewIntRange") /\ Emit(AddNewIntRange(cur), << >>)

-----------------------------------------------------------------------------
(* try_variable_strict_parse, called by internal_variable_compile          *)

Variable ==
    /\ phase = "block" /\ Room(1)
    /\ LET c == AddRenderVariableRescue(code)
       IN /\ code' = c
          /\ saved' = [ins |-> Len(c.ins), consts |-> Len(c.consts), stack |-> c.stack]
          /\ todo' = <<Do("Expression", c.stack)>>
    /\ phase' = "name"
    /\ UNCHANGED <<kw, argc, kwargc>>

EmptyMarkup ==
    /\ phase = "name" /\ Room(1)
    /\ todo = <<Do("Expression", saved.stack)>> /\ Len(code.ins) = saved.ins
    /\ code' = AddPushImmediate(code)
    /\ phase' = "write" /\ todo' = << >>
    /\ UNCHANGED <<kw, saved, argc, kwargc>>

EndName ==
    /\ phase = "name" /\ todo = << >>
    /\ phase' = "filters"
    /\ UNCHANGED <<code, kw, todo, saved, argc, kwargc>>

FilterName ==
    /\ phase = "filters"
    /\ phase' = "args" /\ argc' = 0 /\ kwargc' = 0 /\ kw' = Fresh
    /\ UNCHANGED <<code, todo, saved>>

PositionalArg ==
    /\ phase = "args" /\ Room(1)
    /\ phase' = "positional" /\ todo' = <<Do("Expression", code.stack)>>
    /\ UNCHANGED <<code, kw, saved, argc, kwargc>>

EndPositionalArg ==
    /\ phase = "positional" /\ todo = << >>
    /\ phase' = "args" /\ argc' = argc + 1
    /\ UNCHANGED <<code, kw, todo, saved, kwargc>>

(* The keyword's name is pushed, then its value, on an assembler of their own *)
KeywordArg ==
    /\ phase = "args" /\ Room(1)
    /\ \E k \in Key : LET c == AddPushConst(kw, k)
                      IN kw' = c /\ todo' = <<Do("Expression", c.stack)>>
    /\ phase' = "keyword" /\ kwargc' = kwargc + 1
    /\ UNCHANGED <<code, saved, argc>>

EndKeywordArg ==
    /\ phase = "keyword" /\ todo = << >>
    /\ phase' = "args"
    /\ UNCHANGED <<code, kw, todo, saved, argc, kwargc>>

(* A filter array [name, argc + 1] is a new object.                        *)
Unused(c, k) == \A j \in 1..Len(c.consts) : c.consts[j] # k

WithFilter(c, n) ==
    {AddBuiltinFilter(c, n)} \cup {AddNamedFilter(c, k, n) : k \in {l \in Key : Unused(c, l)}}

KeywordsPushed == AddHashNew(Concat(code, kw), kwargc)

EndFilter ==
    /\ phase = "args" /\ Room(2)
    /\ kwargc <= MaxHashSize
    /\ LET c == IF kwargc > 0 THEN KeywordsPushed ELSE code
           n == IF kwargc > 0 THEN argc + 1 ELSE argc
       IN n <= MaxFilterArgs /\ code' \in WithFilter(c, n)
    /\ phase' = "filters" /\ kw' = Fresh /\ argc' = 0 /\ kwargc' = 0
    /\ UNCHANGED <<todo, saved>>

EndStrictParse ==
    /\ phase = "filters"
    /\ phase' = "write"
    /\ UNCHANGED <<code, kw, todo, saved, argc, kwargc>>

-----------------------------------------------------------------------------
(* variable_strict_parse_rescue                                            *)

(* Mutants: stack_size is not restored; the table keeps what is dropped.   *)
UndoKeepsStack(c) ==
    LET gone == {c.consts[j] : j \in (saved.consts + 1)..Len(c.consts)}
    IN [c EXCEPT
          !.table = [k \in Key |-> IF k \in gone THEN NoIndex ELSE c.table[k]],
          !.ins = SubSeq(c.ins, 1, saved.ins),
          !.consts = SubSeq(c.consts, 1, saved.consts),
          !.trace = SubSeq(c.trace, 1, saved.ins + 1),
          !.meant = SubSeq(c.meant, 1, saved.ins)]
UndoKeepsTable(c) ==
    [c EXCEPT
       !.ins = SubSeq(c.ins, 1, saved.ins),
       !.consts = SubSeq(c.consts, 1, saved.consts),
       !.stack = saved.stack,
       !.trace = SubSeq(c.trace, 1, saved.ins + 1),
       !.meant = SubSeq(c.meant, 1, saved.ins)]

(* undo partial strict parse: max_stack_size keeps its value               *)
Undo(c) ==
    LET gone == {c.consts[j] : j \in (saved.consts + 1)..Len(c.consts)}
    IN [c EXCEPT
          !.table = [k \in Key |-> IF k \in gone THEN NoIndex ELSE c.table[k]],
          !.ins = SubSeq(c.ins, 1, saved.ins),
          !.consts = SubSeq(c.consts, 1, saved.consts),
          !.stack = saved.stack,
          !.trace = SubSeq(c.trace, 1, saved.ins + 1),
          !.meant = SubSeq(c.meant, 1, saved.ins)]

(* code when the exception is raised.  vm_assembler_add_filter finds that   *)
(* there are too many arguments after the keywords have been compiled.     *)
TooManyArgs == phase = "args" /\ argc + 1 > MaxFilterArgs
AtRaise ==
    {code} \cup (IF TooManyArgs /\ kwargc \in 1..MaxHashSize THEN {KeywordsPushed} ELSE {})

Abandon == kw' = Fresh /\ todo' = << >> /\ argc' = 0 /\ kwargc' = 0 /\ UNCHANGED saved

(* error_mode lax or warn: Liquid::Variable#compile_evaluate takes over    *)
RescueSyntaxError ==
    /\ phase \in StrictPhases
    /\ \E c \in AtRaise : code' = [Undo(c) EXCEPT !.prot = saved.stack]
    /\ phase' = "lax" /\ Abandon

(* error_mode strict, or an exception that is not a SyntaxError            *)
RescueAndRaise ==
    /\ phase \in StrictPhases
    /\ \E c \in AtRaise : code' = Undo(c)
    /\ phase' = "failed" /\ Abandon

(* A Liquid::C::Expression, compiled by internal_expression_parse          *)
Expressions ==
    {AddLeave(AddLookupConstKey(AddFindStaticVariable(Fresh, k), l)) : k, l \in Key}

(* vm_assembler_add_evaluate_expression_from_ruby, on a literal, on any    *)
(* other object, on a Liquid::C::Expression; on a VariableLookup it calls  *)
(* compile_evaluate, which is more calls like those of Lax.                *)
Evaluated(c) ==
    {AddPushImmediate(c)} \cup {AddPushConst(c, k) : k \in Key}
      \cup {RemoveLeave(Concat(c, e)) : e \in Expressions}
      \cup {AddFindStaticVariable(c, k) : k \in Key}

(* One call of a compile_evaluate to BlockBody#add_*.  Those of Variable,  *)
(* VariableLookup and RangeLookup are in lib/liquid/c/compile_ext.rb; what *)
(* a call may do to the code does not rest on how they behave.             *)
LaxPush == code' \in Evaluated(code)
LaxFindVariable == code' \in {AddFindVariable(c) : c \in Evaluated(code)}
LaxLookup ==
    /\ HasStackArgs(code, 1)
    /\ \/ \E k \in Key : code' \in {AddLookupCommand(code, k), AddLookupConstKey(code, k)}
       \/ code' \in {AddLookupKey(c) : c \in Evaluated(code)}
LaxNewIntRange == HasStackArgs(code, 2) /\ code' = AddNewIntRange(code)
LaxHashNew == \E size \in HashSizes :
    /\ HasStackArgs(code, 2 * size) /\ size <= MaxHashSize
    /\ code' = AddHashNew(code, size)
(* Mutant: the arguments are not required to be there.                     *)
LaxFilterUnchecked == \E n \in 0..MaxFilterArgs : code' \in WithFilter(code, n)
LaxFilter == \E n \in 0..MaxFilterArgs :
    /\ HasStackArgs(code, n + 1)
    /\ code' \in WithFilter(code, n)

Lax ==
    /\ phase = "lax" /\ code.parsing /\ Room(3)
    /\ \/ LaxPush \/ LaxFindVariable \/ LaxLookup
       \/ LaxNewIntRange \/ LaxHashNew \/ LaxFilter
    /\ UNCHANGED <<kw, phase, todo, saved, argc, kwargc>>

(* Mutant: what compile_evaluate leaves is not checked.                    *)
LaxDoneUnchecked ==
    /\ phase = "lax"
    /\ phase' = "write"
    /\ UNCHANGED <<code, kw, todo, saved, argc, kwargc>>
LaxDone ==
    /\ phase = "lax" /\ code.stack = code.prot + 1
    /\ phase' = "write"
    /\ UNCHANGED <<code, kw, todo, saved, argc, kwargc>>

(* compile_evaluate raised, or it did not leave exactly one new element    *)
LaxFailed ==
    /\ phase = "lax"
    /\ phase' = "failed"
    /\ UNCHANGED <<code, kw, todo, saved, argc, kwargc>>

-----------------------------------------------------------------------------
(* block_body_parse and internal_block_body_parse                          *)

Quiet == UNCHANGED <<kw, todo, saved, argc, kwargc>>

BeginParse ==
    /\ phase = "idle" /\ ~code.parsing
    /\ code' = RemoveLeave(code)
    /\ phase' = "block" /\ Quiet

RawToken == /\ phase = "block" /\ Room(1)
            /\ code' = AddWriteRaw(code)
            /\ UNCHANGED phase /\ Quiet

TagToken == /\ phase = "block" /\ Room(1)
            /\ \E tag \in Key : code' = AddWriteNode(code, tag)
            /\ UNCHANGED phase /\ Quiet

PopWrite == /\ phase = "write" /\ Room(1)
            /\ code' = AddPopWrite(code)
            /\ phase' = "block" /\ Quiet

EndParse == /\ phase = "block" /\ Room(1)
            /\ code' = AddLeave(code)
            /\ phase' = "idle" /\ Quiet

(* A tag's parse, or a missing terminator, raises out of BlockBody#parse.  *)
ParseError == /\ phase = "block"
              /\ phase' = "failed"
              /\ UNCHANGED code /\ Quiet

Next ==
    \/ Literal \/ VariableName \/ BracketName \/ FindVariable \/ DotLookup
    \/ BracketLookup \/ LookupKey \/ EndLookups \/ Range \/ NewIntRange
    \/ Variable \/ EmptyMarkup \/ EndName \/ FilterName
    \/ PositionalArg \/ EndPositionalArg \/ KeywordArg \/ EndKeywordArg
    \/ EndFilter \/ EndStrictParse
    \/ RescueSyntaxError \/ RescueAndRaise
    \/ Lax \/ LaxDone \/ LaxFailed
    \/ BeginParse \/ RawToken \/ TagToken \/ PopWrite \/ EndParse \/ ParseError

Spec == Init /\ [][Next]_vars

-----------------------------------------------------------------------------
TodoType == Seq([what : Activities, at : Nat])

(* Every component keeps to its type: sizes never go below zero.           *)
TypeOK ==
    /\ code \in CodeType /\ kw \in CodeType
    /\ phase \in Phases /\ todo \in TodoType
    /\ saved \in [ins : Nat, consts : Nat, stack : Nat]
    /\ argc \in Nat /\ kwargc \in Nat

(* The code compiled so far, at any point of any parse (in the middle of an *)
(* expression, after an undone strict parse, during a lax one) can be run:  *)
(* nothing is popped that was not pushed, nothing is pushed beyond the      *)
(* max_stack_size that the VM reserves, and what writes to the output runs  *)
(* with nothing else on the stack.                                         *)
CodeRuns == TraceSound(code) /\ TraceSound(kw)

(* The assembler's stack_size, which it adjusts by hand in each add_        *)
(* function, in concat and in the rescue, is the depth the VM will have.    *)
StackSizeExact == LedgerSound(code) /\ LedgerSound(kw)

(* Whatever was shared, relocated by concat or dropped by the rescue, every *)
(* instruction still finds the constant it was compiled for, and the table  *)
(* that later instructions will take their index from is right.             *)
ConstantsSound ==
    /\ ConstantsResolve(code) /\ TableSound(code)
    /\ ConstantsResolve(kw) /\ TableSound(kw)

(* A block body that is left by its parse ends with its only LEAVE and      *)
(* every variable in it is closed (the scan of vm_render_rescue for the     *)
(* next OP_POP_WRITE stays in its variable), with nothing left between them. *)
IdleIsFinished == phase = "idle" => Finished(code, 0) /\ NodesAlone(code)

(* A variable has pushed exactly one value when OP_POP_WRITE is compiled,   *)
(* by a strict or by a lax parse.                                          *)
VariableLeavesOne ==
    phase = "write" => code.stack = saved.stack + 1 /\ Last(code.trace).open

=============================================================================
