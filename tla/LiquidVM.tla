------------------------------ MODULE LiquidVM ------------------------------
(***************************************************************************)
(* The virtual machine of ext/liquid_c/liquid_vm.c: one vm_t, shared by    *)
(* every render and evaluation of a Liquid::Context, which nest because    *)
(* filters, tags, drops and conversions are Ruby code that may call back   *)
(* into liquid_vm_render and liquid_vm_evaluate.                           *)
(*                                                                         *)
(* Values are not represented, only how many there are.  An invocation of  *)
(* the VM is a frame; the C stack is the sequence of frames, the innermost *)
(* last.  A frame with `calling' # "no" is suspended in a call made by the *)
(* instruction at pc (or by vm_render_rescue); what the instruction pops   *)
(* has popped by then is off the stack, its result is pushed when the call  *)
(* returns.                                                                *)
(***************************************************************************)
EXTENDS VMAssembler

CONSTANTS
    Templates,     \* finished code of block bodies: what liquid_vm_render runs
    Expressions,   \* finished code of Liquid::C::Expression objects
    Variables,     \* finished code of Liquid::C::VariableExpression objects
    CapBits,       \* bound: the VM's stack holds at most 2^CapBits values
    MaxFrames,     \* bound on the nesting of invocations
    FiltersReenter,\* may a filter use the context it is called with?
    Escapes        \* may Ruby code leave by throw, or by an exception that
                   \* is not a StandardError?  rb_rescue does not see those.

ASSUME VMAssumption ==
    /\ CapBits \in Nat /\ MaxFrames \in Nat
    /\ FiltersReenter \in BOOLEAN /\ Escapes \in BOOLEAN

VARIABLES
    frames,          \* invocations of vm_render_until_error
    size,            \* c_buffer_size(&vm->stack), in values
    cap,             \* c_buffer_capacity(&vm->stack), in values
    invoking_filter, \* vm->invoking_filter
    exc,             \* the exception in flight in the innermost Ruby code
    handled          \* the last exception given to c_rescue_render_node

vars == <<frames, size, cap, invoking_filter, exc, handled>>

Kinds == {"render", "expression", "variable"}
CodeOf(kind) == IF kind = "render" THEN Templates
                ELSE IF kind = "expression" THEN Expressions ELSE Variables

Codes == Templates \cup Expressions \cup Variables

(* What BlockCompile shows of the code of a body; that of an expression     *)
(* leaves its value on the stack, and only variables have filters.          *)
ASSUME CodeAssumption ==
    /\ Codes \subseteq CodeType
    /\ \A c \in Templates : TraceSound(c) /\ Finished(c, 0) /\ NodesAlone(c)
    /\ \A c \in Expressions \cup Variables : TraceSound(c) /\ Finished(c, 1)
    /\ \A c \in Expressions : \A i \in 1..Len(c.ins) : c.ins[i].op \notin FilterOps

(* Exceptions: Ruby's ArgumentError, the Liquid::ArgumentError it is        *)
(* translated to, Liquid::MemoryError (a resource limit), any other         *)
(* StandardError, and what rb_rescue lets through.  `from' tells whether it *)
(* was raised by a filter method itself (a history field).                 *)
Errors == {"Argument", "Liquid", "Memory", "Other"}
Exceptions == [error : Errors \cup {"Escape"}, from : {"filter", "elsewhere"}]
NoExc == [error |-> "None", from |-> "elsewhere"]

Running == frames # << >> /\ exc = NoExc
top == Last(frames)
Ins == top.code.ins[top.pc]
SetTop(f) == frames' = [frames EXCEPT ![Len(frames)] = f]
Executing(op) == Running /\ top.calling = "no" /\ Ins.op = op
Returning(call) == Running /\ top.calling = call

Init == /\ frames = << >> /\ size = 0 /\ cap = 0
        /\ invoking_filter = FALSE /\ exc = NoExc /\ handled = NoExc

-----------------------------------------------------------------------------
(* Entry: liquid_vm_render, liquid_vm_evaluate                             *)

(* c_buffer_reserve_for_write: to the least power of two that is enough    *)
Capacities == {2^bits : bits \in 0..CapBits}
ASSUME CapacityAssumption == Capacities \subseteq Nat

Reserve(n) ==
    IF size + n <= cap THEN cap' = cap
    ELSE /\ cap' \in Capacities /\ size + n <= cap'
         /\ \A c \in Capacities : c < cap' => c < size + n

RubyCalls == {"find", "lookup", "end_to_integer", "to_integer", "filter", "to_liquid", "node", "write",
              "rescue"}

(* Ruby code runs: the caller of the outermost invocation, or a callback   *)
InRuby == frames # << >> => top.calling \in RubyCalls

MayEnter ==
    /\ exc = NoExc /\ InRuby
    /\ frames # << >> /\ top.calling = "filter" => FiltersReenter

Enter(kind) ==
    /\ MayEnter /\ Len(frames) < MaxFrames
    /\ \E c \in CodeOf(kind) :
         /\ Reserve(c.max)
         /\ frames' = Append(frames, [kind |-> kind, code |-> c, pc |-> 1, base |-> size,
                                      rescue |-> 0,
                                      calling |-> IF kind = "render" THEN "render_score" ELSE "no"])
    /\ UNCHANGED <<size, invoking_filter, exc, handled>>

(* resource_limits_increment_render_score, before rb_rescue: may raise     *)
RenderScored ==
    /\ Returning("render_score")
    /\ SetTop([top EXCEPT !.calling = "no"])
    /\ UNCHANGED <<size, cap, invoking_filter, exc, handled>>

-----------------------------------------------------------------------------
(* vm_render_until_error                                                   *)

Push == size' = size - Pops(Ins) + Pushes(Ins)
NextIns == [top EXCEPT !.pc = top.pc + 1, !.calling = "no"]

PushValue ==
    /\ \E op \in {"PUSH_IMMEDIATE", "PUSH_CONST", "HASH_NEW"} : Executing(op)
    /\ Push /\ SetTop(NextIns)
    /\ UNCHANGED <<cap, invoking_filter, exc, handled>>

(* vm_invoke_filter of a name that filter_methods does not have returns    *)
(* the input; with strict_filters it raises UndefinedFilter (see Raise).   *)
UnknownFilter ==
    /\ \E op \in FilterOps : Executing(op)
    /\ Push /\ SetTop(NextIns)
    /\ UNCHANGED <<cap, invoking_filter, exc, handled>>

RenderVariableRescue ==
    /\ Executing("RENDER_VARIABLE_RESCUE")
    /\ SetTop([NextIns EXCEPT !.rescue = top.pc + 1])
    /\ UNCHANGED <<size, cap, invoking_filter, exc, handled>>

(* The call that an instruction makes once it has popped its operands.     *)
CallOf(op) == IF op \in {"FIND_STATIC_VAR", "FIND_VAR"} THEN "find"
              ELSE IF op \in ScratchOps \cup {"LOOKUP_KEY"} THEN "lookup"
              ELSE IF op \in FilterOps THEN "filter"
              ELSE IF op = "WRITE_NODE" THEN "node"
              ELSE IF op = "POP_WRITE" THEN "write"
              ELSE "none"

Call ==
    /\ Running /\ top.calling = "no" /\ CallOf(Ins.op) # "none"
    /\ size' = size - Pops(Ins)
    /\ invoking_filter' = (invoking_filter \/ Ins.op \in FilterOps)
    /\ SetTop([top EXCEPT !.calling = CallOf(Ins.op)])
    /\ UNCHANGED <<cap, exc, handled>>

(* OP_NEW_INT_RANGE: range_value_to_integer of the end, while the begin is   *)
(* still on the stack, then of the begin                                    *)
ConvertEnd ==
    /\ Executing("NEW_INT_RANGE")
    /\ size' = size - 1 /\ SetTop([top EXCEPT !.calling = "end_to_integer"])
    /\ UNCHANGED <<cap, invoking_filter, exc, handled>>

ConvertBegin ==
    /\ Returning("end_to_integer")
    /\ size' = size - 1 /\ SetTop([top EXCEPT !.calling = "to_integer"])
    /\ UNCHANGED <<cap, invoking_filter, exc, handled>>

(* The value found, looked up or built is pushed.                          *)
ReturnValue ==
    /\ \E call \in {"find", "lookup", "to_integer", "to_liquid"} : Returning(call)
    /\ size' = size + 1 /\ SetTop(NextIns)
    /\ UNCHANGED <<cap, invoking_filter, exc, handled>>

(* Mutant: invoking_filter is not reset.                                   *)
FilterReturnsMarked ==
    /\ Returning("filter")
    /\ SetTop([top EXCEPT !.calling = "to_liquid"])
    /\ UNCHANGED <<size, cap, invoking_filter, exc, handled>>

FilterReturns ==
    /\ Returning("filter")
    /\ invoking_filter' = FALSE
    /\ SetTop([top EXCEPT !.calling = "to_liquid"])
    /\ UNCHANGED <<size, cap, exc, handled>>

(* write_obj has written the value: the rescue block ends                  *)
WriteReturns ==
    /\ Returning("write")
    /\ SetTop([top EXCEPT !.calling = "write_score", !.rescue = 0])
    /\ UNCHANGED <<size, cap, invoking_filter, exc, handled>>

WriteRaw ==
    /\ Executing("WRITE_RAW")
    /\ SetTop([top EXCEPT !.calling = "write_score"])
    /\ UNCHANGED <<size, cap, invoking_filter, exc, handled>>

NodeReturns ==
    /\ Returning("node")
    /\ SetTop([top EXCEPT !.calling = "write_score"])
    /\ UNCHANGED <<size, cap, invoking_filter, exc, handled>>

(* resource_limits_increment_write_score: may raise                        *)
Scored ==
    /\ Returning("write_score")
    /\ SetTop(NextIns)
    /\ UNCHANGED <<size, cap, invoking_filter, exc, handled>>

Pop == frames' = SubSeq(frames, 1, Len(frames) - 1)

(* OP_LEAVE: liquid_vm_evaluate takes the result off the stack             *)
Leave ==
    /\ Executing("LEAVE")
    /\ Pop /\ size' = IF top.kind = "render" THEN size ELSE size - 1
    /\ UNCHANGED <<cap, invoking_filter, exc, handled>>

(* A node has pushed an interrupt (break, continue): the body is left      *)
Interrupted ==
    /\ Returning("node")
    /\ Pop
    /\ UNCHANGED <<size, cap, invoking_filter, exc, handled>>

-----------------------------------------------------------------------------
(* Exceptions                                                              *)

(* A call raises; of resource limits, Liquid::MemoryError.                 *)
Raise ==
    /\ Running
    /\ \/ top.calling \in RubyCalls /\
          \E e \in Errors \cup (IF Escapes THEN {"Escape"} ELSE {}) :
            exc' = [error |-> e,
                    from |-> IF top.calling = "filter" THEN "filter" ELSE "elsewhere"]
       \/ top.calling \in {"render_score", "write_score"} /\ exc' = [error |-> "Memory", from |-> "elsewhere"]
    /\ UNCHANGED <<frames, size, cap, invoking_filter, handled>>

(* UndefinedFilter: the arguments are popped, invoking_filter is not set   *)
UndefinedFilter ==
    /\ \E op \in FilterOps : Executing(op)
    /\ exc' = [error |-> "Other", from |-> "elsewhere"]
    /\ size' = size - Pops(Ins)
    /\ UNCHANGED <<frames, cap, invoking_filter, handled>>

(* Ruby code that called the VM, or the caller of a node, rescues it       *)
Rescued ==
    /\ exc # NoExc /\ InRuby
    /\ exc' = NoExc
    /\ UNCHANGED <<frames, size, cap, invoking_filter, handled>>

(* Mutant: the filter's ArgumentError is raised again as it is.            *)
Untranslated == exc

(* vm_translate_if_filter_argument_error                                   *)
Translated == IF invoking_filter /\ exc.error = "Argument"
              THEN [exc EXCEPT !.error = "Liquid"] ELSE exc

Propagating == exc # NoExc /\ frames # << >>
(* rb_rescue does not run its handler, or the handler itself has raised,   *)
(* or the exception was raised before rb_rescue: the frame is just gone.   *)
Unprotected ==
    /\ Propagating
    /\ exc.error = "Escape" \/ top.calling \in {"render_score", "rescue"}
    /\ Pop
    /\ UNCHANGED <<size, cap, invoking_filter, exc, handled>>

Protected ==
    Propagating /\ exc.error # "Escape" /\ top.calling \notin {"render_score", "rescue"}

(* Mutant: the whole stack is dropped, not what was pushed since entry.    *)
EvaluateRescueFromBottom ==
    /\ Protected /\ top.kind \in {"expression", "variable"}
    /\ Pop /\ size' = 0
    /\ IF top.kind = "variable"
         THEN exc' = Translated /\ invoking_filter' = FALSE
         ELSE UNCHANGED <<exc, invoking_filter>>
    /\ UNCHANGED <<cap, handled>>

(* Mutant: invoking_filter is not reset.                                   *)
EvaluateRescueMarked ==
    /\ Protected /\ top.kind \in {"expression", "variable"}
    /\ Pop /\ size' = top.base
    /\ exc' = IF top.kind = "variable" THEN Translated ELSE exc
    /\ UNCHANGED <<cap, invoking_filter, handled>>

(* vm_evaluate_rescue; a Liquid::C::VariableExpression then translates     *)
EvaluateRescue ==
    /\ Protected /\ top.kind \in {"expression", "variable"}
    /\ Pop /\ size' = top.base
    /\ IF top.kind = "variable"
         THEN exc' = Translated /\ invoking_filter' = FALSE
         ELSE UNCHANGED <<exc, invoking_filter>>
    /\ UNCHANGED <<cap, handled>>

(* vm_render_rescue, outside a variable: the exception is raised again     *)
RenderReraise ==
    /\ Protected /\ top.kind = "render" /\ top.rescue = 0
    /\ Pop
    /\ exc' = Translated /\ invoking_filter' = FALSE
    /\ UNCHANGED <<size, cap, handled>>

(* Mutants: one instruction too early; after the last OP_POP_WRITE.        *)
AtPopWrite(c, from) ==
    CHOOSE p \in from..Len(c.ins) + 1 :
        /\ c.ins[p].op = "POP_WRITE"
        /\ \A q \in from..p - 1 : c.ins[q].op # "POP_WRITE"
AfterLastPopWrite(c, from) ==
    CHOOSE p \in from..Len(c.ins) + 1 :
        /\ p > from /\ c.ins[p - 1].op = "POP_WRITE"
        /\ \A q \in p..Len(c.ins) : c.ins[q].op # "POP_WRITE"

(* The instruction after the first OP_POP_WRITE from pc on                 *)
AfterPopWrite(c, from) ==
    CHOOSE p \in from..Len(c.ins) + 1 :
        /\ p > from /\ c.ins[p - 1].op = "POP_WRITE"
        /\ \A q \in from..p - 2 : c.ins[q].op # "POP_WRITE"

(* Mutant: rendering resumes at the variable that failed.                  *)
RenderRescueRetries ==
    /\ Protected /\ top.kind = "render" /\ top.rescue # 0
    /\ SetTop([top EXCEPT !.pc = top.rescue - 1, !.calling = "rescue"])
    /\ size' = top.base
    /\ handled' = Translated /\ exc' = NoExc /\ invoking_filter' = FALSE
    /\ UNCHANGED cap

(* vm_render_rescue, in a variable: what it pushed is dropped and          *)
(* c_rescue_render_node renders the error; rendering then resumes.         *)
RenderRescue ==
    /\ Protected /\ top.kind = "render" /\ top.rescue # 0
    /\ LET p == AfterPopWrite(top.code, top.rescue)
       IN SetTop([top EXCEPT !.pc = p, !.rescue = p, !.calling = "rescue"])
    /\ size' = top.base
    /\ handled' = Translated /\ exc' = NoExc /\ invoking_filter' = FALSE
    /\ UNCHANGED cap

Resume ==
    /\ Returning("rescue")
    /\ SetTop([top EXCEPT !.calling = "no", !.rescue = 0])
    /\ UNCHANGED <<size, cap, invoking_filter, exc, handled>>

Next ==
    \/ \E kind \in Kinds : Enter(kind)
    \/ RenderScored \/ PushValue \/ UnknownFilter \/ RenderVariableRescue
    \/ Call \/ ConvertEnd \/ ConvertBegin \/ ReturnValue \/ FilterReturns \/ WriteReturns \/ WriteRaw
    \/ NodeReturns \/ Scored \/ Leave \/ Interrupted
    \/ Raise \/ UndefinedFilter \/ Rescued
    \/ Unprotected \/ EvaluateRescue \/ RenderReraise \/ RenderRescue \/ Resume

Spec == Init /\ [][Next]_vars

(* The VM goes on by itself; Ruby code that was called may call the VM     *)
(* again, raise and rescue, but no call goes on like that for ever: if it   *)
(* does not leave by an exception, it returns.                             *)
VMStep ==
    \/ PushValue \/ UnknownFilter \/ RenderVariableRescue \/ Call \/ ConvertEnd \/ WriteRaw
    \/ Leave \/ UndefinedFilter \/ Unprotected \/ EvaluateRescue \/ RenderReraise \/ RenderRescue
CallEnds ==
    \/ RenderScored \/ ConvertBegin \/ ReturnValue \/ FilterReturns \/ WriteReturns
    \/ NodeReturns \/ Scored \/ Interrupted \/ Resume

Fairness ==
    /\ WF_vars(VMStep)
    /\ \A n \in 1..MaxFrames : SF_vars(Len(frames) = n /\ CallEnds)
FairSpec == Spec /\ Fairness

-----------------------------------------------------------------------------
Frame == [kind : Kinds, code : Codes,
          pc : Nat, base : Nat, rescue : Nat,
          calling : RubyCalls \cup {"no", "render_score", "write_score"}]

TypeOK ==
    /\ frames \in Seq(Frame)
    /\ size \in Nat /\ cap \in Nat /\ invoking_filter \in BOOLEAN
    /\ exc \in Exceptions \cup {NoExc} /\ handled \in Exceptions \cup {NoExc}

(* What a frame has on the stack, by its code and where it is in it.       *)
Held(f) ==
    IF f.calling \in {"find", "lookup", "to_integer", "filter", "to_liquid", "write"}
      THEN f.code.trace[f.pc].depth - Pops(f.code.ins[f.pc])
    ELSE IF f.calling = "end_to_integer" THEN f.code.trace[f.pc].depth - 1
    ELSE IF f.calling = "write_score" THEN f.code.trace[f.pc + 1].depth
    ELSE f.code.trace[f.pc].depth

(* The frames share one stack and none touches the part of another: each   *)
(* begins where its caller is suspended, and what the innermost one holds   *)
(* is all there is above.  (An error in an expression drops its part.)     *)
FramesStacked ==
    /\ frames = << >> => size = 0
    /\ frames # << >> => frames[1].base = 0 /\ size >= top.base
    /\ \A i \in 1..Len(frames) - 1 :
          frames[i + 1].base = frames[i].base + Held(frames[i])
    /\ Running => size = top.base + Held(top)

(* No push goes beyond the capacity reserved on entry (the assertion of    *)
(* vm_stack_push), however invocations nest and fail.                      *)
NoOverflow ==
    /\ size <= cap
    /\ Running /\ top.calling = "no" => size - Pops(Ins) + Pushes(Ins) <= cap
    /\ Running /\ top.calling = "no" /\ Ins.op \in ScratchOps => size + 1 <= cap

(* No instruction pops a value of the frame below.                         *)
NoUnderflow ==
    Running /\ top.calling = "no" => size - Pops(Ins) >= top.base

(* The assertions at the end of liquid_vm_render and liquid_vm_evaluate.   *)
StackRestored ==
    Executing("LEAVE") => size = IF top.kind = "render" THEN top.base ELSE top.base + 1

(* Invocations that nest, fail and resume keep the one stack in order: each *)
(* has its own part, goes neither below nor above it, and leaves it as it   *)
(* found it.                                                               *)
StackKept == FramesStacked /\ NoOverflow /\ NoUnderflow /\ StackRestored

(* An error in a variable costs that variable and no other: the VM goes on *)
(* after its OP_POP_WRITE, with nothing left on the stack.                  *)
ErrorCostsOneVariable ==
    \A i \in 1..Len(frames) : frames[i].calling = "rescue" =>
        LET f == frames[i]
        IN /\ f.code.ins[f.pc - 1].op = "POP_WRITE"
           /\ f.code.trace[f.pc] = Entry

SkipsOneVariable ==
    [][RenderRescue =>
         \A p \in top.rescue..top'.pc - 2 :
            top.code.ins[p].op \notin {"RENDER_VARIABLE_RESCUE", "POP_WRITE", "LEAVE"}]_vars

(* Outside of any filter c_filtering? is false, whatever has failed.       *)
FilteringNotStale ==
    invoking_filter => \E i \in 1..Len(frames) : frames[i].calling = "filter"

(* What a filter raises for a wrong argument is rendered as an error of    *)
(* the template (Liquid::ArgumentError), not as an internal error.          *)
FilterErrorsTranslated ==
    handled.from = "filter" => handled.error # "Argument"

(* And an ArgumentError of other Ruby code stays an internal error.        *)
OnlyFilterErrorsTranslated == [][RenderRescue \/ RenderReraise \/ EvaluateRescue =>
    (exc.error = "Argument" /\ exc.from = "elsewhere" => Translated = exc)]_vars

(* Every render ends: after an error rendering resumes further on.         *)
Terminates == frames # << >> ~> frames = << >>
=============================================================================
