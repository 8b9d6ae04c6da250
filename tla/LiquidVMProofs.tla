--------------------------- MODULE LiquidVMProofs ---------------------------
(***************************************************************************)
(* The VM's stack is safe for every finished code, however invocations of  *)
(* the VM nest and fail, as long as Ruby code leaves by a StandardError.   *)
(*                                                                         *)
(* The inductive invariant is StackInv.  Of each frame it says where the   *)
(* frame is in its code (FrameInv), of the chain of frames that each       *)
(* begins where its caller is suspended and fits in the capacity, and of   *)
(* size that it is what the innermost frame has pushed.  FilterInv adds    *)
(* where a filter may be in the chain when filters do not use the context. *)
(***************************************************************************)
EXTENDS LiquidVM, WellFoundedInduction, TLAPS

(* A non-empty set of natural numbers has a least one.                     *)
LEMMA Least ==
    ASSUME NEW T \in SUBSET Nat, T # {}
    PROVE  \E x \in T : \A y \in T : x <= y
<1> DEFINE R == OpToRel(<, Nat)
<1>1. IsWellFoundedOn(R, Nat)
  BY NatLessThanWellFounded
<1>2. \A x, y \in Nat : <<y, x>> \in R <=> y < x
  BY DEF OpToRel
<1> HIDE DEF R
<1>3. PICK x \in T : \A y \in T : ~ (<<y, x>> \in R)
  BY <1>1, WFMin
<1>4. \A y \in T : ~(y < x)
  BY <1>2, <1>3, Zenon
<1>5. \A y \in T : x <= y
  BY <1>4
<1> QED
  BY <1>5

-----------------------------------------------------------------------------
(* Codes                                                                   *)

Good(c, result) == c \in CodeType /\ TraceSound(c) /\ Finished(c, result)

ResultOf(kind) == IF kind = "render" THEN 0 ELSE 1

LEMMA CodeGood ==
    ASSUME NEW kind \in Kinds, NEW c \in CodeOf(kind)
    PROVE  /\ Good(c, ResultOf(kind))
           /\ kind = "render" => NodesAlone(c)
           /\ kind = "expression" => \A i \in 1..Len(c.ins) : c.ins[i].op \notin FilterOps
<1>1. CASE kind = "render"
  BY <1>1, CodeAssumption DEF CodeOf, Codes, Good, ResultOf, Kinds
<1>2. CASE kind = "expression"
  BY <1>2, CodeAssumption DEF CodeOf, Codes, Good, ResultOf, Kinds
<1>3. CASE kind = "variable"
  BY <1>3, CodeAssumption DEF CodeOf, Codes, Good, ResultOf, Kinds
<1> QED
  BY <1>1, <1>2, <1>3 DEF Kinds

Situation == [depth : Nat, open : BOOLEAN]

(* What a code says of one of its instructions.                            *)
At(c, p, result) ==
    /\ c.ins[p] \in Instruction /\ Pops(c.ins[p]) \in Nat /\ Pushes(c.ins[p]) \in {0, 1}
    /\ c.trace[p] \in Situation /\ c.trace[p + 1] \in Situation
    /\ c.trace[p + 1] = Step(c.trace[p], c.ins[p])
    /\ Runs(c.trace[p], c.ins[p], c.max)
    /\ c.max \in Nat /\ c.trace[p].depth <= c.max /\ c.trace[p + 1].depth <= c.max
    /\ c.ins[p].op = "LEAVE" <=> p = Len(c.ins)
    /\ p = Len(c.ins) => c.trace[p + 1] = [depth |-> result, open |-> FALSE]

LEMMA Positions ==
    ASSUME NEW result \in Nat, NEW c, Good(c, result), NEW p \in 1..Len(c.ins)
    PROVE  At(c, p, result)
<1>1. /\ c.ins \in Seq(Instruction) /\ c.trace \in Seq(Situation) /\ c.max \in Nat
      /\ Len(c.ins) \in Nat /\ Len(c.trace) = Len(c.ins) + 1
  BY DEF Good, CodeType, Situation, TraceSound
<1>2. c.ins[p] \in Instruction
  BY <1>1
<1>3. c.trace[p] \in Situation /\ c.trace[p + 1] \in Situation
  BY <1>1
<1>4. /\ c.trace[p + 1] = Step(c.trace[p], c.ins[p])
      /\ Runs(c.trace[p], c.ins[p], c.max)
  BY DEF Good, TraceSound
<1>5. Pops(c.ins[p]) \in Nat /\ Pushes(c.ins[p]) \in {0, 1}
  BY <1>2 DEF Instruction, Pops, Pushes
<1>6. c.trace[p + 1].depth <= c.max
  BY <1>3, <1>4, <1>5 DEF Runs, Step, Situation
<1>7. c.trace[p].depth <= c.max
  <2>1. CASE p = 1
    BY <2>1, <1>1 DEF Good, TraceSound, Entry
  <2>2. CASE p > 1
    <3> DEFINE q == p - 1
    <3>1. q \in 1..Len(c.ins) /\ p = q + 1
      BY <2>2, <1>1
    <3>2. /\ c.trace[q + 1] = Step(c.trace[q], c.ins[q])
          /\ Runs(c.trace[q], c.ins[q], c.max)
      BY <3>1 DEF Good, TraceSound
    <3>3. c.ins[q] \in Instruction /\ c.trace[q] \in Situation
      BY <1>1, <3>1
    <3> HIDE DEF q
    <3>4. Pops(c.ins[q]) \in Nat /\ Pushes(c.ins[q]) \in {0, 1}
      BY <3>3 DEF Instruction, Pops, Pushes
    <3> QED
      BY <3>1, <3>2, <3>3, <3>4 DEF Runs, Step, Situation
  <2> QED
    BY <2>1, <2>2, <1>1
<1>8. c.ins[p].op = "LEAVE" <=> p = Len(c.ins)
  BY DEF Good, Finished
<1>9. p = Len(c.ins) => c.trace[p + 1] = [depth |-> result, open |-> FALSE]
  BY <1>1 DEF Good, Finished, Last
<1> QED
  BY <1>1, <1>2, <1>3, <1>4, <1>5, <1>6, <1>7, <1>8, <1>9 DEF At

(* The scan of vm_render_rescue, from inside of a variable, stops behind    *)
(* the OP_POP_WRITE of that variable, where nothing is on the stack.        *)
SkipTo(c, from, p) ==
    /\ p \in from + 1..Len(c.ins) /\ c.ins[p - 1].op = "POP_WRITE"
    /\ c.trace[p] = Entry
    /\ \A q \in from..p - 2 :
         c.ins[q].op \notin {"RENDER_VARIABLE_RESCUE", "POP_WRITE", "LEAVE"}

LEMMA Skip ==
    ASSUME NEW result \in Nat, NEW c, Good(c, result),
           NEW from \in 1..Len(c.ins), c.trace[from].open
    PROVE  SkipTo(c, from, AfterPopWrite(c, from))
<1> DEFINE n == Len(c.ins)
           Shut == {q \in from..n + 1 : ~c.trace[q].open}
           Found(p) == /\ p > from /\ c.ins[p - 1].op = "POP_WRITE"
                       /\ \A q \in from..p - 2 : c.ins[q].op # "POP_WRITE"
<1>1. n \in Nat /\ from \in 1..n
  BY DEF Good, CodeType
<1>2. \A p \in 1..n : At(c, p, result)
  BY Positions
<1>3. n + 1 \in Shut /\ Shut \in SUBSET Nat
  <2>1. c.trace[n + 1] = [depth |-> result, open |-> FALSE]
    <3>1. At(c, n, result)
      BY <1>1, <1>2
    <3> QED
      BY <3>1 DEF At
  <2> QED
    BY <1>1, <2>1
<1>4. PICK s \in Shut : \A y \in Shut : s <= y
  BY <1>3, Least
<1>5. s \in from + 1..n + 1 /\ ~c.trace[s].open
  BY <1>1, <1>4
<1>6. \A q \in from..s - 1 : c.trace[q].open
  BY <1>1, <1>4, <1>5
<1> HIDE DEF Shut
<1>7. \A q \in from..s - 1 : At(c, q, result)
  BY <1>1, <1>2, <1>5
<1>8. c.ins[s - 1].op = "POP_WRITE"
  <2> DEFINE r == s - 1
  <2>1. r \in from..s - 1 /\ s = r + 1
    BY <1>1, <1>5
  <2>2. At(c, r, result) /\ c.trace[r].open /\ ~c.trace[r + 1].open
    BY <1>5, <1>6, <1>7, <2>1
  <2> HIDE DEF r
  <2>3. c.ins[r].op = "POP_WRITE"
    BY <2>2 DEF At, Step
  <2> QED
    BY <2>1, <2>3 DEF r
<1>9. \A q \in from..s - 2 : c.ins[q].op # "POP_WRITE"
  <2> SUFFICES ASSUME NEW q \in from..s - 2, c.ins[q].op = "POP_WRITE"
               PROVE  FALSE
    OBVIOUS
  <2>1. q \in from..s - 1 /\ q + 1 \in from..s - 1
    BY <1>1, <1>5
  <2>2. c.trace[q + 1] = Step(c.trace[q], c.ins[q]) /\ c.trace[q + 1].open
    BY <1>6, <1>7, <2>1 DEF At
  <2> QED
    BY <2>2 DEF Step
<1>10. Found(s) /\ s \in from..n + 1
  BY <1>1, <1>5, <1>8, <1>9
<1>11. PICK p \in from..n + 1 : Found(p) /\ p = AfterPopWrite(c, from)
  BY <1>10 DEF AfterPopWrite
<1>12. p = s
  BY <1>1, <1>5, <1>8, <1>9, <1>11
<1>13. At(c, s - 1, result) /\ s - 1 \in 1..n /\ c.ins[s - 1].op = "POP_WRITE"
  BY <1>1, <1>5, <1>7, <1>8
<1>14. s \in from + 1..n
  BY <1>1, <1>5, <1>13 DEF At
<1>15. c.trace[s] = Entry
  <2> DEFINE r == s - 1
  <2>1. At(c, r, result) /\ s = r + 1 /\ c.ins[r].op = "POP_WRITE"
    BY <1>1, <1>5, <1>13
  <2> HIDE DEF r
  <2>2. Pops(c.ins[r]) = 1 /\ Pushes(c.ins[r]) = 0
    BY <2>1 DEF Pops, Pushes, UnaryOps, NodeOps, ScratchOps
  <2>3. c.trace[r].depth = 1 /\ c.trace[r + 1] = Step(c.trace[r], c.ins[r])
    BY <2>1 DEF At, Runs
  <2> QED
    BY <2>1, <2>2, <2>3 DEF Step, Entry
<1>16. \A q \in from..s - 2 :
         c.ins[q].op \notin {"RENDER_VARIABLE_RESCUE", "POP_WRITE", "LEAVE"}
  <2> SUFFICES ASSUME NEW q \in from..s - 2
               PROVE  c.ins[q].op \notin {"RENDER_VARIABLE_RESCUE", "POP_WRITE", "LEAVE"}
    OBVIOUS
  <2>1. q \in from..s - 1 /\ q < n
    BY <1>1, <1>5
  <2>2. At(c, q, result) /\ c.trace[q].open
    BY <1>6, <1>7, <2>1
  <2>3. c.ins[q].op # "LEAVE" /\ c.ins[q].op \notin NodeOps
    BY <2>1, <2>2 DEF At, Runs
  <2> QED
    BY <1>9, <2>3 DEF NodeOps
<1> QED
  BY <1>8, <1>11, <1>12, <1>14, <1>15, <1>16 DEF SkipTo

-----------------------------------------------------------------------------
(* Frames                                                                  *)

OpOf(f) == f.code.ins[f.pc].op

(* The call a frame waits for is one of the instruction at its pc.         *)
InCall(f) ==
    /\ f.calling \in {"find", "lookup", "filter", "node", "write"} => f.calling = CallOf(OpOf(f))
    /\ f.calling \in {"end_to_integer", "to_integer"} => OpOf(f) = "NEW_INT_RANGE"
    /\ f.calling = "to_liquid" => OpOf(f) \in FilterOps
    /\ f.calling = "write_score" => OpOf(f) \in {"WRITE_RAW", "WRITE_NODE", "POP_WRITE"}
    /\ f.calling = "render_score" => f.pc = 1
    /\ f.calling = "rescue" => /\ f.pc > 1 /\ f.code.ins[f.pc - 1].op = "POP_WRITE"
                               /\ f.code.trace[f.pc] = Entry

(* rescue is set from OP_RENDER_VARIABLE_RESCUE to OP_POP_WRITE.           *)
InVariable(f) ==
    /\ f.calling = "write_score" => f.rescue = 0
    /\ f.calling \notin {"write_score", "rescue"} =>
         /\ f.rescue # 0 <=> f.code.trace[f.pc].open
         /\ f.rescue # 0 => f.rescue \in 1..Len(f.code.ins) /\ f.code.trace[f.rescue].open

FrameInv(f) ==
    /\ f \in Frame /\ f.code \in CodeOf(f.kind)
    /\ f.pc \in 1..Len(f.code.ins)
    /\ InCall(f) /\ InVariable(f)

(* What a frame has on the stack, also when strict_filters has raised.     *)
Used(f, raised) ==
    IF raised /\ f.calling = "no"
      THEN f.code.trace[f.pc].depth - Pops(f.code.ins[f.pc]) ELSE Held(f)

Result(f) == ResultOf(f.kind)

LEMMA Depths ==
    ASSUME NEW c, NEW p, NEW result, At(c, p, result)
    PROVE  /\ c.trace[p].depth \in Nat /\ c.trace[p + 1].depth \in Nat
           /\ Pops(c.ins[p]) \in Nat /\ Pushes(c.ins[p]) \in {0, 1}
           /\ Pops(c.ins[p]) <= c.trace[p].depth
           /\ c.trace[p + 1].depth = c.trace[p].depth - Pops(c.ins[p]) + Pushes(c.ins[p])
BY DEF At, Step, Situation, Runs

LEMMA FrameFacts ==
    ASSUME NEW f, FrameInv(f)
    PROVE  /\ f.kind \in Kinds /\ f.pc \in Nat /\ f.base \in Nat /\ f.rescue \in Nat
           /\ Result(f) \in {0, 1} /\ Good(f.code, Result(f))
           /\ At(f.code, f.pc, Result(f))
           /\ Len(f.code.ins) \in Nat /\ f.pc \in 1..Len(f.code.ins)
           /\ f.kind = "render" => NodesAlone(f.code)
           /\ f.kind = "expression" => OpOf(f) \notin FilterOps
<1>1. /\ f.kind \in Kinds /\ f.pc \in Nat /\ f.base \in Nat /\ f.rescue \in Nat
      /\ f.code \in CodeOf(f.kind) /\ f.pc \in 1..Len(f.code.ins)
  BY DEF FrameInv, Frame
<1>2. Good(f.code, Result(f)) /\ Result(f) \in {0, 1}
  BY <1>1, CodeGood DEF Result, ResultOf
<1>3. Len(f.code.ins) \in Nat
  BY <1>2 DEF Good, CodeType
<1>4. At(f.code, f.pc, Result(f))
  BY <1>1, <1>2, Positions
<1>5. /\ f.kind = "render" => NodesAlone(f.code)
      /\ f.kind = "expression" => OpOf(f) \notin FilterOps
  BY <1>1, CodeGood DEF OpOf
<1> QED
  BY <1>1, <1>2, <1>3, <1>4, <1>5

LEMMA RangePops ==
    ASSUME NEW ins, ins.op = "NEW_INT_RANGE"
    PROVE  Pops(ins) = 2
BY DEF Pops, UnaryOps, BinaryOps, ScratchOps

(* What a frame has on the stack fits in what was reserved for its code.   *)
LEMMA UsedBound ==
    ASSUME NEW f, FrameInv(f), NEW raised \in BOOLEAN
    PROVE  Used(f, raised) \in Nat /\ Used(f, raised) <= f.code.max /\ f.code.max \in Nat
<1>1. At(f.code, f.pc, Result(f))
  BY FrameFacts
<1>2. f.calling = "end_to_integer" => Pops(f.code.ins[f.pc]) = 2
  BY RangePops DEF FrameInv, InCall, OpOf
<1>3. CASE f.calling = "end_to_integer"
  <2>1. Used(f, raised) = f.code.trace[f.pc].depth - 1
    BY <1>3 DEF Used, Held
  <2> QED
    BY <1>1, <1>2, <1>3, <2>1 DEF At, Runs, Situation
<1>4. CASE f.calling # "end_to_integer"
  BY <1>1, <1>4 DEF At, Used, Held, Runs, Situation
<1> QED
  BY <1>3, <1>4

LEMMA MovedFrame ==
    ASSUME NEW f \in Frame, NEW p \in Nat
    PROVE  LET g == [f EXCEPT !.pc = p, !.calling = "no"]
           IN  /\ g \in Frame /\ [g EXCEPT !.rescue = p] \in Frame
               /\ [f EXCEPT !.pc = p, !.rescue = p, !.calling = "rescue"] \in Frame
BY DEF Frame, RubyCalls

(* An instruction is done.                                                 *)
Next1(f) == [f EXCEPT !.pc = f.pc + 1, !.calling = "no"]

LEMMA Advance ==
    ASSUME NEW f, FrameInv(f), f.calling # "rescue",
           OpOf(f) \notin {"LEAVE", "RENDER_VARIABLE_RESCUE"},
           OpOf(f) = "POP_WRITE" => f.calling = "write_score"
    PROVE  /\ FrameInv(Next1(f))
           /\ Held(Next1(f)) = f.code.trace[f.pc + 1].depth
<1> DEFINE g == Next1(f)
<1>1. /\ f \in Frame /\ f.code \in CodeOf(f.kind) /\ f.pc \in Nat
      /\ f.pc \in 1..Len(f.code.ins) /\ Len(f.code.ins) \in Nat
      /\ At(f.code, f.pc, Result(f))
  BY FrameFacts DEF FrameInv
<1>2. g \in Frame
  <2> DEFINE p == f.pc + 1
  <2>1. p \in Nat
    BY <1>1
  <2> HIDE DEF p
  <2> QED
    BY <1>1, <2>1, MovedFrame DEF Next1, p
<1>3. /\ g.code = f.code /\ g.kind = f.kind /\ g.pc = f.pc + 1
      /\ g.calling = "no" /\ g.rescue = f.rescue
  BY <1>1 DEF Next1, Frame
<1> HIDE DEF g
<1>4. g.pc \in 1..Len(g.code.ins)
  BY <1>1, <1>3 DEF At, OpOf
<1>5. InCall(g)
  BY <1>3 DEF InCall
<1>6. g.code.trace[g.pc].open <=>
        f.code.trace[f.pc].open /\ OpOf(f) # "POP_WRITE"
  BY <1>1, <1>3, SMTT(20) DEF At, Step, OpOf, Situation
<1>7. InVariable(g)
  <2>1. CASE f.calling = "write_score"
    <3>1. f.rescue = 0 /\ OpOf(f) \in {"WRITE_RAW", "WRITE_NODE", "POP_WRITE"}
      BY <2>1 DEF FrameInv, InVariable, InCall
    <3>2. ~g.code.trace[g.pc].open
      BY <3>1, <1>1, <1>6 DEF At, Runs, OpOf, NodeOps
    <3> QED
      BY <3>1, <3>2, <1>3 DEF InVariable
  <2>2. CASE f.calling # "write_score"
    BY <2>2, <1>3, <1>6 DEF FrameInv, InVariable
  <2> QED
    BY <2>1, <2>2
<1>8. Held(g) = f.code.trace[f.pc + 1].depth
  BY <1>3 DEF Held
<1> QED
  BY <1>2, <1>3, <1>1, <1>4, <1>5, <1>7, <1>8 DEF FrameInv, g

LEMMA AdvanceRescue ==
    ASSUME NEW f, FrameInv(f), f.calling = "no", OpOf(f) = "RENDER_VARIABLE_RESCUE",
           NEW g, g = [Next1(f) EXCEPT !.rescue = f.pc + 1]
    PROVE  FrameInv(g) /\ Held(g) = f.code.trace[f.pc].depth /\ Held(g) = 0
<1>1. /\ f \in Frame /\ f.code \in CodeOf(f.kind) /\ f.pc \in Nat
      /\ f.pc \in 1..Len(f.code.ins) /\ Len(f.code.ins) \in Nat
      /\ At(f.code, f.pc, Result(f))
  BY FrameFacts DEF FrameInv
<1>2. g \in Frame
  <2> DEFINE p == f.pc + 1
  <2>1. p \in Nat
    BY <1>1
  <2> HIDE DEF p
  <2> QED
    BY <1>1, <2>1, MovedFrame DEF Next1, p
<1>3. /\ g.code = f.code /\ g.kind = f.kind /\ g.pc = f.pc + 1
      /\ g.calling = "no" /\ g.rescue = f.pc + 1
  BY <1>1 DEF Next1, Frame
<1>4. g.pc \in 1..Len(g.code.ins)
  BY <1>1, <1>3 DEF At, OpOf
<1>5. InCall(g)
  BY <1>3 DEF InCall
<1>6. g.code.trace[g.pc].open /\ g.code.trace[g.pc].depth = 0 /\ f.code.trace[f.pc].depth = 0
  <2>1. OpOf(f) \in NodeOps /\ Pops(f.code.ins[f.pc]) = 0 /\ Pushes(f.code.ins[f.pc]) = 0
    BY DEF OpOf, NodeOps, Pops, Pushes, UnaryOps, BinaryOps, ScratchOps, FilterOps
  <2>2. /\ f.code.trace[f.pc].depth = 0
        /\ f.code.trace[f.pc + 1] = Step(f.code.trace[f.pc], f.code.ins[f.pc])
    BY <1>1, <2>1 DEF At, Runs, OpOf
  <2> QED
    BY <1>3, <2>1, <2>2 DEF Step, OpOf
<1>7. InVariable(g)
  BY <1>1, <1>3, <1>4, <1>6 DEF InVariable
<1> QED
  BY <1>2, <1>3, <1>1, <1>4, <1>5, <1>6, <1>7 DEF FrameInv, Held

(* An instruction pops its operands and makes a call.                      *)
LEMMA Suspend ==
    ASSUME NEW f, FrameInv(f), f.calling = "no", CallOf(OpOf(f)) # "none",
           NEW g, g = [f EXCEPT !.calling = CallOf(OpOf(f))]
    PROVE  /\ FrameInv(g) /\ g.calling \in RubyCalls
           /\ Held(g) = f.code.trace[f.pc].depth - Pops(f.code.ins[f.pc])
<1>1. /\ f \in Frame /\ f.code \in CodeOf(f.kind)
      /\ f.pc \in 1..Len(f.code.ins) /\ At(f.code, f.pc, Result(f))
  BY FrameFacts DEF FrameInv
<1>2. CallOf(OpOf(f)) \in {"find", "lookup", "filter", "node", "write"}
  BY DEF CallOf
<1>3. /\ g.code = f.code /\ g.kind = f.kind /\ g.pc = f.pc
      /\ g.calling = CallOf(OpOf(f)) /\ g.rescue = f.rescue
  BY <1>1 DEF Frame
<1>4. g \in Frame /\ g.calling \in RubyCalls
  BY <1>1, <1>2 DEF Frame, RubyCalls
<1>5. InCall(g)
  BY <1>2, <1>3 DEF InCall, OpOf
<1>6. InVariable(g)
  BY <1>2, <1>3 DEF InVariable, FrameInv
<1>7. Held(g) = f.code.trace[f.pc].depth - Pops(f.code.ins[f.pc])
  <2>1. CASE g.calling = "node"
    <3>1. OpOf(f) = "WRITE_NODE"
      BY <2>1, <1>3 DEF CallOf
    <3>2. Pops(f.code.ins[f.pc]) = 0
      BY <3>1 DEF OpOf, Pops, UnaryOps, BinaryOps, ScratchOps, FilterOps
    <3> QED
      BY <2>1, <3>2, <1>1, <1>3 DEF Held, At, Situation
  <2>2. CASE g.calling # "node"
    BY <2>2, <1>2, <1>3 DEF Held
  <2> QED
    BY <2>1, <2>2
<1> QED
  BY <1>1, <1>3, <1>4, <1>5, <1>6, <1>7 DEF FrameInv

(* OP_NEW_INT_RANGE pops its operands one by one.                           *)
LEMMA Converting ==
    ASSUME NEW f, FrameInv(f), f.calling \in {"no", "end_to_integer"}, OpOf(f) = "NEW_INT_RANGE",
           NEW g, g = [f EXCEPT !.calling = IF f.calling = "no" THEN "end_to_integer" ELSE "to_integer"]
    PROVE  /\ FrameInv(g) /\ g.calling \in {"end_to_integer", "to_integer"}
           /\ g.base = f.base /\ g.code = f.code
           /\ Held(f) \in Nat /\ Held(g) \in Nat /\ Held(g) = Held(f) - 1
<1> DEFINE call == IF f.calling = "no" THEN "end_to_integer" ELSE "to_integer"
<1>1. /\ f \in Frame /\ f.code \in CodeOf(f.kind) /\ f.pc \in 1..Len(f.code.ins)
      /\ At(f.code, f.pc, Result(f)) /\ InVariable(f)
  BY FrameFacts DEF FrameInv
<1>2. call \in {"end_to_integer", "to_integer"} /\ (call = "end_to_integer" <=> f.calling = "no")
  OBVIOUS
<1>3. g = [f EXCEPT !.calling = call]
  OBVIOUS
<1> HIDE DEF call
<1>4. /\ g.code = f.code /\ g.kind = f.kind /\ g.pc = f.pc /\ g.base = f.base
      /\ g.calling = call /\ g.rescue = f.rescue /\ g \in Frame
  BY <1>1, <1>2, <1>3 DEF Frame, RubyCalls
<1>5. InCall(g) /\ InVariable(g)
  BY <1>1, <1>2, <1>4 DEF InCall, OpOf, InVariable
<1>6. Pops(f.code.ins[f.pc]) = 2
  BY RangePops DEF OpOf
<1>7. f.code.trace[f.pc].depth \in Nat /\ f.code.trace[f.pc].depth >= 2
  BY <1>1, <1>6 DEF At, Runs, Situation
<1>8. Held(f) \in Nat /\ Held(g) \in Nat /\ Held(g) = Held(f) - 1
  BY <1>2, <1>4, <1>6, <1>7 DEF Held
<1> QED
  BY <1>1, <1>2, <1>4, <1>5, <1>8 DEF FrameInv

(* A call returns, or ends in the score of what it has written.            *)
Answer(f, g) ==
    \/ f.calling = "filter" /\ g = [f EXCEPT !.calling = "to_liquid"]
    \/ f.calling = "write" /\ g = [f EXCEPT !.calling = "write_score", !.rescue = 0]
    \/ f.calling = "no" /\ OpOf(f) = "WRITE_RAW" /\ g = [f EXCEPT !.calling = "write_score"]
    \/ f.calling = "node" /\ g = [f EXCEPT !.calling = "write_score"]
    \/ f.calling = "render_score" /\ g = [f EXCEPT !.calling = "no"]
    \/ f.calling = "rescue" /\ g = [f EXCEPT !.calling = "no", !.rescue = 0]

LEMMA Answered ==
    ASSUME NEW f, FrameInv(f), NEW g, Answer(f, g)
    PROVE  FrameInv(g) /\ Held(g) = Held(f)
<1>1. /\ f \in Frame /\ f.code \in CodeOf(f.kind)
      /\ f.pc \in 1..Len(f.code.ins) /\ At(f.code, f.pc, Result(f))
      /\ InCall(f) /\ InVariable(f)
  BY FrameFacts DEF FrameInv
<1>2. /\ g \in Frame /\ g.code = f.code /\ g.kind = f.kind /\ g.pc = f.pc
  <2>1. g = [f EXCEPT !.calling = g.calling] \/ g = [f EXCEPT !.calling = g.calling, !.rescue = 0]
    BY <1>1 DEF Answer, Frame
  <2>2. g.calling \in {"to_liquid", "write_score", "no"}
    BY <1>1 DEF Answer, Frame
  <2> DEFINE call == g.calling
  <2>3. g = [f EXCEPT !.calling = call] \/ g = [f EXCEPT !.calling = call, !.rescue = 0]
    BY <2>1
  <2>4. call \in RubyCalls \cup {"no", "render_score", "write_score"}
    BY <2>2 DEF RubyCalls
  <2> HIDE DEF call
  <2>5. CASE g = [f EXCEPT !.calling = call]
    BY <1>1, <2>4, <2>5 DEF Frame
  <2>6. CASE g = [f EXCEPT !.calling = call, !.rescue = 0]
    BY <1>1, <2>4, <2>6 DEF Frame
  <2> QED
    BY <2>3, <2>5, <2>6
<1>3. CASE f.calling = "filter"
  <2>1. g.calling = "to_liquid" /\ g.rescue = f.rescue
    BY <1>1, <1>3 DEF Answer, Frame
  <2>2. OpOf(f) \in FilterOps
    BY <1>1, <1>3 DEF InCall, CallOf
  <2>3. InCall(g)
    BY <1>2, <2>1, <2>2 DEF InCall, OpOf
  <2>4. InVariable(g)
    BY <1>1, <1>2, <1>3, <2>1 DEF InVariable
  <2> QED
    BY <1>1, <1>2, <1>3, <2>1, <2>3, <2>4 DEF FrameInv, Held
<1>4. CASE f.calling = "write"
  <2>1. g.calling = "write_score" /\ g.rescue = 0
    BY <1>1, <1>4 DEF Answer, Frame
  <2>2. OpOf(f) = "POP_WRITE"
    BY <1>1, <1>4 DEF InCall, CallOf
  <2>3. InCall(g) /\ InVariable(g)
    BY <1>2, <2>1, <2>2 DEF InCall, InVariable, OpOf
  <2>4. Pushes(f.code.ins[f.pc]) = 0
    BY <2>2 DEF OpOf, Pushes
  <2>5. f.code.trace[f.pc + 1].depth = f.code.trace[f.pc].depth - Pops(f.code.ins[f.pc])
    BY <1>1, <2>4 DEF At, Step, Situation
  <2>6. Held(g) = Held(f)
    BY <1>2, <1>4, <2>1, <2>5 DEF Held
  <2> QED
    BY <1>1, <1>2, <2>3, <2>6 DEF FrameInv
<1>5. CASE f.calling \in {"no", "node"}
  <2>1. CASE g.calling = "no"
    BY <1>5, <2>1, <1>1 DEF Answer, Frame
  <2>2. CASE g.calling # "no"
    <3>1. g.calling = "write_score" /\ g.rescue = f.rescue
      BY <1>1, <1>5, <2>2 DEF Answer, Frame
    <3>2. OpOf(f) \in {"WRITE_RAW", "WRITE_NODE"}
      BY <1>1, <1>5 DEF Answer, InCall, CallOf
    <3>3. /\ Pushes(f.code.ins[f.pc]) = 0 /\ Pops(f.code.ins[f.pc]) = 0
          /\ ~f.code.trace[f.pc].open
      BY <1>1, <3>2 DEF OpOf, Pushes, Pops, NodeOps, At, Runs, UnaryOps, BinaryOps,
         ScratchOps, FilterOps
    <3>4. f.rescue = 0
      BY <1>1, <1>5, <3>3 DEF InVariable
    <3>5. InCall(g) /\ InVariable(g)
      BY <1>2, <3>1, <3>2, <3>4 DEF InCall, InVariable, OpOf
    <3>6. Held(g) = Held(f)
      BY <1>1, <1>2, <1>5, <3>1, <3>3 DEF Held, At, Step, Situation
    <3> QED
      BY <1>1, <1>2, <3>5, <3>6 DEF FrameInv
  <2> QED
    BY <2>1, <2>2
<1>6. CASE f.calling = "render_score"
  <2>1. g.calling = "no" /\ g.rescue = f.rescue
    BY <1>1, <1>6 DEF Answer, Frame
  <2>2. InCall(g) /\ InVariable(g)
    BY <1>1, <1>2, <1>6, <2>1 DEF InCall, InVariable
  <2> QED
    BY <1>1, <1>2, <1>6, <2>1, <2>2 DEF FrameInv, Held
<1>7. CASE f.calling = "rescue"
  <2>1. g.calling = "no" /\ g.rescue = 0
    BY <1>1, <1>7 DEF Answer, Frame
  <2>2. InCall(g) /\ InVariable(g)
    BY <1>1, <1>2, <1>7, <2>1 DEF InCall, InVariable, Entry
  <2> QED
    BY <1>1, <1>2, <1>7, <2>1, <2>2 DEF FrameInv, Held
<1> QED
  BY <1>3, <1>4, <1>5, <1>6, <1>7 DEF Answer

(* vm_render_rescue in a variable: the scan ends behind that variable.     *)
LEMMA Rescuing ==
    ASSUME NEW f, FrameInv(f), f.rescue # 0, f.calling \notin {"rescue", "render_score"},
           NEW p, p = AfterPopWrite(f.code, f.rescue),
           NEW g, g = [f EXCEPT !.pc = p, !.rescue = p, !.calling = "rescue"]
    PROVE  FrameInv(g) /\ Held(g) = 0 /\ SkipTo(f.code, f.rescue, p)
<1>1. /\ f \in Frame /\ f.code \in CodeOf(f.kind) /\ Good(f.code, Result(f))
      /\ f.rescue \in Nat /\ Len(f.code.ins) \in Nat /\ Result(f) \in Nat
  BY FrameFacts DEF FrameInv
<1>2. f.rescue \in 1..Len(f.code.ins) /\ f.code.trace[f.rescue].open
  BY DEF FrameInv, InVariable
<1>3. SkipTo(f.code, f.rescue, p)
  BY <1>1, <1>2, Skip
<1>4. p \in Nat /\ p \in 1..Len(f.code.ins) /\ p > 1
  BY <1>1, <1>2, <1>3 DEF SkipTo
<1>5. /\ g \in Frame /\ g.code = f.code /\ g.kind = f.kind /\ g.pc = p
      /\ g.calling = "rescue"
  BY <1>1, <1>4, MovedFrame DEF Frame
<1>6. InCall(g) /\ InVariable(g) /\ Held(g) = 0
  BY <1>3, <1>4, <1>5 DEF InCall, InVariable, SkipTo, Held, Entry
<1> QED
  BY <1>1, <1>3, <1>4, <1>5, <1>6 DEF FrameInv

(* Outside of any variable a render has nothing on the stack, whatever     *)
(* raises there.                                                           *)
LEMMA Outside ==
    ASSUME NEW f, FrameInv(f),
           \/ f.kind = "render" /\ f.rescue = 0
           \/ f.calling \in {"render_score", "rescue", "node"}
    PROVE  Used(f, TRUE) = 0
<1>1. /\ f.pc \in 1..Len(f.code.ins) /\ At(f.code, f.pc, Result(f))
      /\ InCall(f) /\ InVariable(f) /\ Len(f.code.ins) \in Nat /\ Good(f.code, Result(f))
      /\ f.kind = "render" => NodesAlone(f.code)
  BY FrameFacts DEF FrameInv
<1>2. CASE f.calling = "rescue"
  BY <1>1, <1>2 DEF InCall, Used, Held, Entry
<1>3. CASE f.calling = "render_score"
  BY <1>1, <1>3 DEF InCall, Used, Held, Entry, Good, TraceSound
<1>4. CASE f.calling = "node"
  <2>1. f.code.ins[f.pc].op = "WRITE_NODE"
    BY <1>1, <1>4 DEF InCall, CallOf, OpOf
  <2> QED
    BY <1>1, <1>4, <2>1 DEF At, Runs, NodeOps, Used, Held
<1>5. CASE f.calling = "write_score"
  <2>1. f.code.ins[f.pc].op \in {"WRITE_RAW", "WRITE_NODE", "POP_WRITE"}
    BY <1>1, <1>5 DEF InCall, OpOf
  <2>2. Pushes(f.code.ins[f.pc]) = 0 /\ f.code.trace[f.pc].depth = Pops(f.code.ins[f.pc])
    BY <1>1, <2>1 DEF At, Runs, NodeOps, Pushes, Pops, UnaryOps, BinaryOps, ScratchOps,
       FilterOps
  <2> QED
    BY <1>1, <1>5, <2>2 DEF At, Step, Used, Held, Situation
<1>6. CASE f.calling \notin {"rescue", "render_score", "node", "write_score"}
  <2>1. ~f.code.trace[f.pc].open
    BY <1>1, <1>6 DEF InVariable
  <2>2. f.pc \in 1..Len(f.code.trace)
    BY <1>1 DEF Good, TraceSound
  <2>3. f.code.trace[f.pc].depth = 0
    BY <1>1, <1>6, <2>1, <2>2 DEF NodesAlone
  <2>4. Pops(f.code.ins[f.pc]) = 0
    BY <1>1, <2>3 DEF At, Runs
  <2>5. \/ Used(f, TRUE) = f.code.trace[f.pc].depth - Pops(f.code.ins[f.pc])
        \/ Used(f, TRUE) = f.code.trace[f.pc].depth
    <3>1. CASE f.calling = "no"
      BY <3>1 DEF Used
    <3>2. CASE f.calling # "no"
      <4>1. Used(f, TRUE) = Held(f)
        BY <3>2 DEF Used
      <4>2. f.calling # "write_score"
        BY <1>6
      <4>3. f.calling # "end_to_integer"
        BY <1>1, <2>4, RangePops DEF InCall, OpOf
      <4> QED
        BY <4>1, <4>2, <4>3 DEF Held
    <3> QED
      BY <3>1, <3>2
  <2>6. f.code.trace[f.pc].depth - Pops(f.code.ins[f.pc]) = 0
    BY <1>1, <2>3, <2>4 DEF At
  <2> QED
    BY <2>3, <2>5, <2>6
<1> QED
  BY <1>2, <1>3, <1>4, <1>5, <1>6

-----------------------------------------------------------------------------
(* The inductive invariant                                                 *)

Fits(f) == FrameInv(f) /\ f.base + f.code.max <= cap

Chain ==
    /\ frames # << >> => frames[1].base = 0
    /\ \A i \in 1..Len(frames) - 1 :
         /\ frames[i].calling \in RubyCalls
         /\ frames[i + 1].base = frames[i].base + Held(frames[i])

StackSize == IF frames = << >> THEN 0 ELSE top.base + Used(top, exc # NoExc)

Registers ==
    /\ invoking_filter \in BOOLEAN /\ handled \in Exceptions \cup {NoExc}
    /\ exc \in Exceptions \cup {NoExc} /\ exc.error # "Escape"

StackInv ==
    /\ frames \in Seq(Frame) /\ cap \in Nat /\ Registers
    /\ \A i \in 1..Len(frames) : Fits(frames[i])
    /\ Chain
    /\ size = StackSize
    /\ FilteringNotStale

(* The innermost frame goes on as g.                                       *)
Replaces(g) ==
    /\ frames # << >> /\ FrameInv(g) /\ g.base = top.base /\ g.code = top.code
    /\ SetTop(g) /\ cap' = cap /\ size' = top.base + Used(g, exc' # NoExc)
    /\ Registers'
    /\ invoking_filter' => \/ g.calling = "filter"
                           \/ invoking_filter /\ top.calling # "filter"

(* The innermost frame is left.                                            *)
Drops ==
    /\ frames # << >> /\ Pop /\ cap' = cap /\ size' = top.base
    /\ Registers'
    /\ invoking_filter' => invoking_filter /\ top.calling # "filter"

LEMMA Shortened ==
    ASSUME NEW S, NEW s \in Seq(S), s # << >>
    PROVE  LET t == SubSeq(s, 1, Len(s) - 1)
           IN  /\ t \in Seq(S) /\ Len(t) = Len(s) - 1
               /\ \A i \in 1..Len(s) - 1 : t[i] = s[i]
<1> DEFINE n == Len(s) - 1
<1>1. n \in Nat /\ 1 \in Nat /\ \A i \in 1..n : s[i] \in S
  OBVIOUS
<1> HIDE DEF n
<1>2. Len(SubSeq(s, 1, n)) = n /\ \A i \in 1..n : SubSeq(s, 1, n)[i] = s[i]
  BY <1>1
<1>3. SubSeq(s, 1, n) \in Seq(S)
  BY <1>1
<1> QED
  BY <1>2, <1>3 DEF n

LEMMA ReplacesKeeps ==
    ASSUME StackInv, NEW g, Replaces(g)
    PROVE  StackInv'
<1> DEFINE n == Len(frames)
<1>1. /\ n \in Nat \ {0} /\ frames \in Seq(Frame) /\ g \in Frame /\ cap \in Nat /\ cap' = cap
  BY DEF StackInv, Replaces, FrameInv
<1>2. /\ frames' \in Seq(Frame) /\ Len(frames') = n /\ frames'[n] = g
      /\ \A i \in 1..n - 1 : frames'[i] = frames[i]
      /\ frames' # << >> /\ top' = g /\ top = frames[n]
  BY <1>1 DEF Replaces, SetTop, top, Last
<1>3. \A i \in 1..n : Fits(frames[i]) /\ frames[i].base \in Nat
  BY FrameFacts DEF StackInv, Fits
<1> HIDE DEF n
<1>4. \A i \in 1..n : Fits(frames[i])'
  <2> SUFFICES ASSUME NEW i \in 1..n
               PROVE  FrameInv(frames'[i]) /\ frames'[i].base + frames'[i].code.max <= cap'
    BY DEF Fits
  <2>1. CASE i = n
    BY <2>1, <1>1, <1>2, <1>3 DEF Fits, Replaces
  <2>2. CASE i # n
    BY <2>2, <1>1, <1>2, <1>3 DEF Fits
  <2> QED
    BY <2>1, <2>2
<1>5. Chain'
  <2>1. frames'[1].base = 0
    <3>1. CASE n = 1
      BY <3>1, <1>1, <1>2 DEF StackInv, Chain, Replaces
    <3>2. CASE n # 1
      BY <3>2, <1>1, <1>2 DEF StackInv, Chain, n
    <3> QED
      BY <3>1, <3>2
  <2>2. ASSUME NEW i \in 1..n - 1
        PROVE  /\ frames'[i].calling \in RubyCalls
               /\ frames'[i + 1].base = frames'[i].base + Held(frames'[i])
    <3>1. /\ frames[i].calling \in RubyCalls
          /\ frames[i + 1].base = frames[i].base + Held(frames[i])
      BY DEF StackInv, Chain, n
    <3>2. frames'[i + 1].base = frames[i + 1].base
      <4>1. CASE i + 1 = n
        BY <4>1, <1>2 DEF Replaces
      <4>2. CASE i + 1 # n
        BY <4>2, <1>1, <1>2
      <4> QED
        BY <4>1, <4>2
    <3> QED
      BY <3>1, <3>2, <1>2
  <2> QED
    BY <2>1, <2>2, <1>2 DEF Chain
<1>6. size' = StackSize'
  BY <1>2 DEF Replaces, StackSize
<1>7. FilteringNotStale'
  <2> SUFFICES ASSUME invoking_filter'
               PROVE  \E i \in 1..n : frames'[i].calling = "filter"
    BY <1>2 DEF FilteringNotStale
  <2>1. CASE g.calling = "filter"
    BY <2>1, <1>1, <1>2
  <2>2. CASE invoking_filter /\ top.calling # "filter"
    <3>1. PICK i \in 1..n : frames[i].calling = "filter"
      BY <2>2 DEF StackInv, FilteringNotStale, n
    <3>2. i \in 1..n - 1
      BY <3>1, <2>2, <1>1, <1>2
    <3> QED
      BY <3>1, <3>2, <1>2
  <2> QED
    BY <2>1, <2>2 DEF Replaces
<1> QED
  BY <1>1, <1>2, <1>4, <1>5, <1>6, <1>7 DEF StackInv, Replaces

LEMMA DropsKeeps ==
    ASSUME StackInv, Drops
    PROVE  StackInv'
<1> DEFINE n == Len(frames)
<1>1. /\ n \in Nat \ {0} /\ frames \in Seq(Frame) /\ cap \in Nat /\ cap' = cap
  BY DEF StackInv, Drops
<1>2. /\ frames' \in Seq(Frame) /\ Len(frames') = n - 1
      /\ \A i \in 1..n - 1 : frames'[i] = frames[i]
      /\ top = frames[n]
  BY <1>1, Shortened DEF Drops, Pop, top, Last
<1> HIDE DEF n
<1>3. \A i \in 1..n - 1 : Fits(frames[i])'
  <2> SUFFICES ASSUME NEW i \in 1..n - 1
               PROVE  FrameInv(frames'[i]) /\ frames'[i].base + frames'[i].code.max <= cap'
    BY DEF Fits
  <2>1. Fits(frames[i])
    BY <1>1 DEF StackInv, n
  <2> QED
    BY <2>1, <1>1, <1>2 DEF Fits
<1>4. Chain'
  <2>1. ASSUME n > 1
        PROVE  frames'[1].base = 0
    BY <2>1, <1>1, <1>2 DEF StackInv, Chain, n
  <2>2. ASSUME NEW i \in 1..n - 2
        PROVE  /\ frames'[i].calling \in RubyCalls
               /\ frames'[i + 1].base = frames'[i].base + Held(frames'[i])
    <3>1. /\ frames[i].calling \in RubyCalls
          /\ frames[i + 1].base = frames[i].base + Held(frames[i])
      BY <1>1 DEF StackInv, Chain, n
    <3> QED
      BY <3>1, <1>1, <1>2
  <2>3. frames' # << >> => n > 1
    BY <1>1, <1>2
  <2> QED
    BY <2>1, <2>2, <2>3, <1>1, <1>2 DEF Chain
<1>5. size' = StackSize'
  <2>1. CASE n = 1
    <3>1. frames' = << >>
      BY <2>1, <1>1, <1>2
    <3>2. top.base = 0
      BY <2>1, <1>1, <1>2 DEF StackInv, Chain, Drops
    <3> QED
      BY <3>1, <3>2 DEF StackSize, Drops
  <2>2. CASE n > 1
    <3> DEFINE m == n - 1
    <3>1. m \in 1..n - 1 /\ n = m + 1
      BY <2>2, <1>1
    <3> HIDE DEF m
    <3>2. /\ frames[m].calling \in RubyCalls
          /\ frames[m + 1].base = frames[m].base + Held(frames[m])
      BY <3>1 DEF StackInv, Chain, n
    <3>3. frames' # << >> /\ top' = frames[m] /\ top = frames[m + 1]
      BY <3>1, <1>1, <1>2 DEF top, Last
    <3>4. Used(top', exc' # NoExc) = Held(frames[m])
      BY <3>2, <3>3 DEF Used, RubyCalls
    <3> QED
      BY <3>2, <3>3, <3>4 DEF StackSize, Drops
  <2> QED
    BY <2>1, <2>2, <1>1
<1>6. FilteringNotStale'
  <2> SUFFICES ASSUME invoking_filter'
               PROVE  \E i \in 1..n - 1 : frames'[i].calling = "filter"
    BY <1>2 DEF FilteringNotStale
  <2>1. PICK i \in 1..n : frames[i].calling = "filter"
    BY DEF StackInv, FilteringNotStale, Drops, n
  <2>2. i \in 1..n - 1
    BY <2>1, <1>1, <1>2 DEF Drops
  <2> QED
    BY <2>1, <2>2, <1>2
<1> QED
  BY <1>1, <1>2, <1>3, <1>4, <1>5, <1>6 DEF StackInv, Drops

LEMMA TopFacts ==
    ASSUME StackInv, frames # << >>
    PROVE  /\ FrameInv(top) /\ At(top.code, top.pc, Result(top)) /\ top.base \in Nat
           /\ size = top.base + Used(top, exc # NoExc)
           /\ Used(top, exc # NoExc) \in Nat /\ Used(top, exc # NoExc) <= top.code.max
           /\ top.base + top.code.max <= cap /\ cap \in Nat /\ top.code.max \in Nat
           /\ top = frames[Len(frames)] /\ Len(frames) \in Nat /\ Len(frames) > 0
<1>1. Len(frames) \in Nat /\ Len(frames) > 0 /\ cap \in Nat
  BY DEF StackInv
<1>2. top = frames[Len(frames)] /\ Fits(top)
  BY <1>1 DEF StackInv, top, Last
<1>3. FrameInv(top) /\ (exc # NoExc) \in BOOLEAN
  BY <1>2 DEF Fits
<1> QED
  BY <1>1, <1>2, <1>3, FrameFacts, UsedBound DEF Fits, StackInv, StackSize

(* The sizes of the stack around the instruction of the innermost frame.   *)
Arithmetic(before, pops, pushes, after) ==
    /\ before \in Nat /\ pops \in Nat /\ pushes \in {0, 1} /\ after \in Nat
    /\ pops <= before /\ after = before - pops + pushes

LEMMA TopDepths ==
    ASSUME StackInv, frames # << >>
    PROVE  Arithmetic(top.code.trace[top.pc].depth, Pops(top.code.ins[top.pc]),
                      Pushes(top.code.ins[top.pc]), top.code.trace[top.pc + 1].depth)
<1>1. At(top.code, top.pc, Result(top))
  BY TopFacts
<1> QED
  BY <1>1, Depths DEF Arithmetic

LEMMA SizeFacts ==
    ASSUME StackInv
    PROVE  size \in Nat /\ size <= cap /\ cap \in Nat
<1>1. CASE frames = << >>
  BY <1>1 DEF StackInv, StackSize
<1>2. CASE frames # << >>
  BY <1>2, TopFacts
<1> QED
  BY <1>1, <1>2

LEMMA EnterKeeps ==
    ASSUME StackInv, NEW kind \in Kinds, Enter(kind)
    PROVE  StackInv'
<1> DEFINE n == Len(frames)
<1>1. PICK c \in CodeOf(kind) :
        /\ Reserve(c.max)
        /\ frames' = Append(frames, [kind |-> kind, code |-> c, pc |-> 1, base |-> size,
                               rescue |-> 0,
                               calling |-> IF kind = "render" THEN "render_score" ELSE "no"])
  BY DEF Enter
<1> DEFINE g == [kind |-> kind, code |-> c, pc |-> 1, base |-> size, rescue |-> 0,
                 calling |-> IF kind = "render" THEN "render_score" ELSE "no"]
<1>2. /\ Good(c, ResultOf(kind)) /\ ResultOf(kind) \in Nat /\ c \in Codes
      /\ size \in Nat /\ size <= cap /\ cap \in Nat /\ c.max \in Nat
  <2>1. Good(c, ResultOf(kind)) /\ ResultOf(kind) \in Nat
    BY CodeGood DEF ResultOf
  <2>2. c \in Codes
    BY DEF CodeOf, Codes
  <2>3. c.max \in Nat
    BY <2>1 DEF Good, CodeType
  <2> QED
    BY <2>1, <2>2, <2>3, SizeFacts
<1>3. cap' \in Nat /\ cap' >= cap /\ size + c.max <= cap'
  <2>1. CASE size + c.max <= cap
    BY <2>1, <1>1, <1>2 DEF Reserve
  <2>2. CASE ~(size + c.max <= cap)
    <3>1. cap' \in Capacities /\ size + c.max <= cap'
      BY <2>2, <1>1 DEF Reserve
    <3>2. cap' \in Nat
      BY <3>1, CapacityAssumption
    <3> QED
      BY <2>2, <3>1, <3>2, <1>2
  <2> QED
    BY <2>1, <2>2
<1>4. 1 \in 1..Len(c.ins) /\ c.trace[1] = Entry
  BY <1>2 DEF Good, CodeType, Finished, TraceSound
<1>5. /\ g.kind = kind /\ g.code = c /\ g.pc = 1 /\ g.base = size /\ g.rescue = 0
      /\ g.calling \in {"render_score", "no"}
  OBVIOUS
<1>6. FrameInv(g)
  <2>1. g \in Frame
    BY <1>2 DEF Frame
  <2>2. InCall(g) /\ InVariable(g)
    BY <1>4, <1>5 DEF InCall, InVariable, Entry
  <2> QED
    BY <2>1, <2>2, <1>4, <1>5 DEF FrameInv
<1>7. Held(g) = 0 /\ \A raised \in BOOLEAN : ~raised => Used(g, raised) = 0
  BY <1>4, <1>5 DEF Held, Used, Entry
<1>8. frames' = Append(frames, g)
  BY <1>1
<1> HIDE DEF g
<1>9. /\ frames \in Seq(Frame) /\ n \in Nat /\ g \in Frame
      /\ frames' \in Seq(Frame) /\ Len(frames') = n + 1 /\ frames'[n + 1] = g
      /\ \A i \in 1..n : frames'[i] = frames[i]
      /\ frames' # << >> /\ top' = g
  BY <1>6, <1>8 DEF StackInv, FrameInv, top, Last
<1>10. exc = NoExc /\ exc' = NoExc /\ invoking_filter' = invoking_filter /\ size' = size
       /\ handled' = handled /\ InRuby
  BY DEF Enter, MayEnter
<1> HIDE DEF n
<1>11. \A i \in 1..n + 1 : Fits(frames[i])'
  <2> SUFFICES ASSUME NEW i \in 1..n + 1
               PROVE  FrameInv(frames'[i]) /\ frames'[i].base + frames'[i].code.max <= cap'
    BY DEF Fits
  <2>1. CASE i = n + 1
    BY <2>1, <1>3, <1>5, <1>6, <1>9
  <2>2. CASE i # n + 1
    <3>1. i \in 1..n /\ frames'[i] = frames[i] /\ Fits(frames[i])
      BY <2>2, <1>9 DEF StackInv, n
    <3>2. frames[i].base \in Nat /\ frames[i].code.max \in Nat
      BY <3>1, FrameFacts, UsedBound DEF Fits
    <3> QED
      BY <3>1, <3>2, <1>2, <1>3 DEF Fits
  <2> QED
    BY <2>1, <2>2
<1>12. Chain'
  <2>1. frames'[1].base = 0
    <3>1. CASE n = 0
      <4>1. frames = << >>
        BY <3>1, <1>9 DEF n
      <4> QED
        BY <4>1, <3>1, <1>5, <1>9 DEF StackInv, StackSize
    <3>2. CASE n # 0
      BY <3>2, <1>9 DEF StackInv, Chain, n
    <3> QED
      BY <3>1, <3>2
  <2>2. ASSUME NEW i \in 1..n
        PROVE  /\ frames'[i].calling \in RubyCalls
               /\ frames'[i + 1].base = frames'[i].base + Held(frames'[i])
    <3>1. CASE i = n
      <4>1. frames # << >> /\ top = frames[n]
        BY <3>1, <1>9 DEF top, Last, n
      <4>2. top.calling \in RubyCalls /\ size = top.base + Used(top, FALSE)
        BY <4>1, <1>10, TopFacts DEF InRuby
      <4>3. Used(top, FALSE) = Held(top)
        BY DEF Used
      <4> QED
        BY <3>1, <4>1, <4>2, <4>3, <1>5, <1>9
    <3>2. CASE i # n
      <4>1. i \in 1..n - 1 /\ i + 1 \in 1..n
        BY <3>2, <1>9
      <4> QED
        BY <4>1, <1>9 DEF StackInv, Chain, n
    <3> QED
      BY <3>1, <3>2
  <2> QED
    BY <2>1, <2>2, <1>9 DEF Chain
<1>13. size' = StackSize'
  <2>1. Used(g, exc' # NoExc) = 0
    BY <1>7, <1>10
  <2> QED
    BY <2>1, <1>2, <1>5, <1>9, <1>10 DEF StackSize
<1>14. FilteringNotStale'
  BY <1>9, <1>10 DEF StackInv, FilteringNotStale, n
<1> QED
  BY <1>3, <1>9, <1>10, <1>11, <1>12, <1>13, <1>14 DEF StackInv, Registers

-----------------------------------------------------------------------------
(* The steps of the VM                                                     *)

Same == UNCHANGED <<cap, invoking_filter, exc, handled>>

(* An instruction without a call, or the end of one.                       *)
LEMMA AdvanceKeeps ==
    ASSUME StackInv, Running, SetTop(NextIns), Same,
           top.calling \notin {"rescue", "filter"},
           OpOf(top) \notin {"LEAVE", "RENDER_VARIABLE_RESCUE"},
           OpOf(top) = "POP_WRITE" => top.calling = "write_score",
           size' = top.base + top.code.trace[top.pc + 1].depth
    PROVE  StackInv'
<1>1. FrameInv(top) /\ frames # << >> /\ exc = NoExc
  BY TopFacts DEF Running
<1>2. NextIns = Next1(top)
  BY DEF NextIns, Next1
<1>3. /\ FrameInv(NextIns) /\ Held(NextIns) = top.code.trace[top.pc + 1].depth
  BY <1>1, <1>2, Advance
<1>4. NextIns.base = top.base /\ NextIns.code = top.code
  BY <1>1 DEF NextIns, FrameInv, Frame
<1>5. Used(NextIns, exc' # NoExc) = Held(NextIns)
  BY <1>1 DEF Used, Same
<1>6. Replaces(NextIns)
  BY <1>1, <1>3, <1>4, <1>5 DEF Replaces, Same, StackInv, Registers
<1> QED
  BY <1>6, ReplacesKeeps

LEMMA PushKeeps ==
    ASSUME StackInv, NEW op, Executing(op), Push, SetTop(NextIns), Same,
           op \notin {"LEAVE", "RENDER_VARIABLE_RESCUE", "POP_WRITE"}
    PROVE  StackInv'
<1>1. /\ Running /\ frames # << >> /\ exc = NoExc /\ top.calling = "no" /\ OpOf(top) = op
      /\ Ins = top.code.ins[top.pc]
  BY DEF Executing, Running, Ins, OpOf
<1>2. At(top.code, top.pc, Result(top)) /\ top.base \in Nat /\ size = top.base + Used(top, FALSE)
  BY <1>1, TopFacts
<1>3. Used(top, FALSE) = top.code.trace[top.pc].depth
  BY <1>1 DEF Used, Held
<1>4. size' = top.base + top.code.trace[top.pc + 1].depth
  <2>1. size' = size - Pops(top.code.ins[top.pc]) + Pushes(top.code.ins[top.pc])
    BY <1>1 DEF Push
  <2> DEFINE before == top.code.trace[top.pc].depth
             pops == Pops(top.code.ins[top.pc])
             pushes == Pushes(top.code.ins[top.pc])
             after == top.code.trace[top.pc + 1].depth
  <2>2. Arithmetic(before, pops, pushes, after)
    BY <1>1, TopDepths
  <2>3. size' = size - pops + pushes /\ size = top.base + before /\ top.base \in Nat
    BY <2>1, <1>2, <1>3
  <2> HIDE DEF before, pops, pushes, after
  <2>4. size' = top.base + after
    BY <2>2, <2>3 DEF Arithmetic
  <2> QED
    BY <2>4 DEF after
<1> QED
  BY <1>1, <1>4, AdvanceKeeps

LEMMA PushValueKeeps ==
    ASSUME StackInv, PushValue
    PROVE  StackInv'
BY PushKeeps DEF PushValue, Same

LEMMA UnknownFilterKeeps ==
    ASSUME StackInv, UnknownFilter
    PROVE  StackInv'
BY PushKeeps DEF UnknownFilter, Same, FilterOps

LEMMA RenderVariableRescueKeeps ==
    ASSUME StackInv, RenderVariableRescue
    PROVE  StackInv'
<1> DEFINE g == [Next1(top) EXCEPT !.rescue = top.pc + 1]
<1>1. /\ frames # << >> /\ exc = NoExc /\ top.calling = "no"
      /\ OpOf(top) = "RENDER_VARIABLE_RESCUE" /\ SetTop(g)
      /\ UNCHANGED <<size, cap, invoking_filter, exc, handled>>
  BY DEF RenderVariableRescue, Executing, Running, Ins, OpOf, NextIns, Next1
<1>2. FrameInv(top) /\ top.base \in Nat /\ size = top.base + Used(top, FALSE)
  BY <1>1, TopFacts
<1>3. FrameInv(g) /\ Held(g) = top.code.trace[top.pc].depth
  BY <1>1, <1>2, AdvanceRescue
<1>4. g.base = top.base /\ g.code = top.code
  BY <1>2 DEF Next1, FrameInv, Frame
<1> HIDE DEF g
<1>5. Used(g, exc' # NoExc) = Used(top, FALSE)
  BY <1>1, <1>3 DEF Used, Held
<1>6. Replaces(g)
  BY <1>1, <1>2, <1>3, <1>4, <1>5 DEF Replaces, StackInv, Registers
<1> QED
  BY <1>6, ReplacesKeeps

LEMMA CallKeeps ==
    ASSUME StackInv, Call
    PROVE  StackInv'
<1> DEFINE g == [top EXCEPT !.calling = CallOf(OpOf(top))]
<1>1. /\ frames # << >> /\ exc = NoExc /\ top.calling = "no" /\ CallOf(OpOf(top)) # "none"
      /\ SetTop(g) /\ size' = size - Pops(top.code.ins[top.pc])
      /\ invoking_filter' = (invoking_filter \/ OpOf(top) \in FilterOps)
      /\ UNCHANGED <<cap, exc, handled>>
  BY DEF Call, Running, Ins, OpOf
<1>2. /\ FrameInv(top) /\ top.base \in Nat /\ size = top.base + Used(top, FALSE)
      /\ At(top.code, top.pc, Result(top))
  BY <1>1, TopFacts
<1>3. /\ FrameInv(g) /\ g.calling \in RubyCalls
      /\ Held(g) = top.code.trace[top.pc].depth - Pops(top.code.ins[top.pc])
  BY <1>1, <1>2, Suspend
<1>4. g.base = top.base /\ g.code = top.code /\ g.calling = CallOf(OpOf(top))
  BY <1>2 DEF FrameInv, Frame
<1> HIDE DEF g
<1>5. Used(top, FALSE) = top.code.trace[top.pc].depth
  BY <1>1 DEF Used, Held
<1>6. size' = top.base + Used(g, exc' # NoExc)
  <2> DEFINE before == top.code.trace[top.pc].depth
             pops == Pops(top.code.ins[top.pc])
             pushes == Pushes(top.code.ins[top.pc])
             after == top.code.trace[top.pc + 1].depth
             used == Used(g, exc' # NoExc)
  <2>1. Arithmetic(before, pops, pushes, after)
    BY <1>1, TopDepths
  <2>2. used = before - pops
    BY <1>1, <1>3 DEF Used
  <2>3. size' = size - pops /\ size = top.base + before /\ top.base \in Nat
    BY <1>1, <1>2, <1>5
  <2> HIDE DEF before, pops, pushes, after, used
  <2>4. size' = top.base + used
    BY <2>1, <2>2, <2>3 DEF Arithmetic
  <2> QED
    BY <2>4 DEF used
<1>7. OpOf(top) \in FilterOps => g.calling = "filter"
  BY <1>4 DEF CallOf, FilterOps, ScratchOps
<1>8. Replaces(g)
  BY <1>1, <1>2, <1>3, <1>4, <1>6, <1>7 DEF Replaces, StackInv, Registers
<1> QED
  BY <1>8, ReplacesKeeps

LEMMA ConvertKeeps ==
    ASSUME StackInv, ConvertEnd \/ ConvertBegin
    PROVE  StackInv'
<1> DEFINE g == [top EXCEPT !.calling = IF top.calling = "no" THEN "end_to_integer" ELSE "to_integer"]
<1>1. /\ frames # << >> /\ exc = NoExc /\ top.calling \in {"no", "end_to_integer"}
      /\ SetTop(g) /\ size' = size - 1 /\ UNCHANGED <<cap, invoking_filter, exc, handled>>
  BY DEF ConvertEnd, ConvertBegin, Executing, Returning, Running
<1>2. FrameInv(top) /\ top.base \in Nat /\ size = top.base + Used(top, FALSE)
  BY <1>1, TopFacts
<1>3. OpOf(top) = "NEW_INT_RANGE"
  BY <1>2 DEF ConvertEnd, ConvertBegin, Executing, Returning, Ins, OpOf, FrameInv, InCall
<1>4. /\ FrameInv(g) /\ g.calling \in {"end_to_integer", "to_integer"}
      /\ g.base = top.base /\ g.code = top.code
      /\ Held(top) \in Nat /\ Held(g) \in Nat /\ Held(g) = Held(top) - 1
  BY <1>1, <1>2, <1>3, Converting
<1> HIDE DEF g
<1>5. Used(g, exc' # NoExc) = Held(g) /\ Used(top, FALSE) = Held(top)
  BY <1>1 DEF Used
<1>6. size' = top.base + Used(g, exc' # NoExc)
  <2> DEFINE before == Held(top)
             after == Held(g)
             base == top.base
  <2>1. /\ before \in Nat /\ after \in Nat /\ after = before - 1 /\ base \in Nat
        /\ size = base + before /\ size' = size - 1
    BY <1>1, <1>2, <1>4, <1>5
  <2> HIDE DEF before, after, base
  <2>2. size' = base + after
    BY <2>1
  <2> QED
    BY <1>5, <2>2 DEF after, base
<1>7. Replaces(g)
  BY <1>1, <1>4, <1>6 DEF Replaces, StackInv, Registers
<1> QED
  BY <1>7, ReplacesKeeps

(* The value that the call returns is pushed.                              *)
LEMMA ReturnValueKeeps ==
    ASSUME StackInv, ReturnValue
    PROVE  StackInv'
<1>1. /\ Running /\ frames # << >> /\ exc = NoExc /\ SetTop(NextIns) /\ size' = size + 1
      /\ top.calling \in {"find", "lookup", "to_integer", "to_liquid"} /\ Same
  BY DEF ReturnValue, Returning, Running, Same
<1>2. /\ FrameInv(top) /\ InCall(top) /\ top.base \in Nat /\ size = top.base + Used(top, FALSE)
      /\ At(top.code, top.pc, Result(top))
  BY <1>1, TopFacts DEF FrameInv
<1>3. OpOf(top) \in PushOps \cup UnaryOps \cup BinaryOps \cup FilterOps
  BY <1>1, <1>2 DEF InCall, CallOf, PushOps, UnaryOps, BinaryOps, ScratchOps
<1>4. /\ OpOf(top) \notin {"LEAVE", "RENDER_VARIABLE_RESCUE", "POP_WRITE"}
      /\ Pushes(top.code.ins[top.pc]) = 1
  BY <1>3 DEF PushOps, UnaryOps, BinaryOps, FilterOps, ScratchOps, Pushes, NodeOps, OpOf
<1>5. Used(top, FALSE) = top.code.trace[top.pc].depth - Pops(top.code.ins[top.pc])
  BY <1>1 DEF Used, Held
<1>6. size' = top.base + top.code.trace[top.pc + 1].depth
  <2> DEFINE before == top.code.trace[top.pc].depth
             pops == Pops(top.code.ins[top.pc])
             pushes == Pushes(top.code.ins[top.pc])
             after == top.code.trace[top.pc + 1].depth
  <2>1. Arithmetic(before, pops, pushes, after)
    BY <1>1, TopDepths
  <2>2. size' = size + 1 /\ size = top.base + (before - pops) /\ top.base \in Nat /\ pushes = 1
    BY <1>1, <1>2, <1>4, <1>5
  <2> HIDE DEF before, pops, pushes, after
  <2>3. size' = top.base + after
    BY <2>1, <2>2 DEF Arithmetic
  <2> QED
    BY <2>3 DEF after
<1> QED
  BY <1>1, <1>4, <1>6, AdvanceKeeps

LEMMA ScoredKeeps ==
    ASSUME StackInv, Scored
    PROVE  StackInv'
<1>1. /\ Running /\ frames # << >> /\ exc = NoExc /\ SetTop(NextIns) /\ size' = size
      /\ top.calling = "write_score" /\ Same
  BY DEF Scored, Returning, Running, Same
<1>2. InCall(top) /\ top.base \in Nat /\ size = top.base + Used(top, FALSE)
  BY <1>1, TopFacts DEF FrameInv
<1>3. OpOf(top) \in {"WRITE_RAW", "WRITE_NODE", "POP_WRITE"}
  BY <1>1, <1>2 DEF InCall
<1>4. Used(top, FALSE) = top.code.trace[top.pc + 1].depth
  BY <1>1 DEF Used, Held
<1>5. size' = top.base + top.code.trace[top.pc + 1].depth
  BY <1>1, <1>2, <1>4
<1> QED
  BY <1>1, <1>3, <1>5, AdvanceKeeps

(* The call returns or ends without a value.                               *)
LEMMA AnswerKeeps ==
    ASSUME StackInv, Running, NEW g, Answer(top, g), SetTop(g),
           UNCHANGED <<size, cap, exc, handled>>,
           invoking_filter' = IF top.calling = "filter" THEN FALSE ELSE invoking_filter
    PROVE  StackInv'
<1>1. FrameInv(top) /\ frames # << >> /\ exc = NoExc /\ size = top.base + Used(top, FALSE)
  BY TopFacts DEF Running
<1>2. FrameInv(g) /\ Held(g) = Held(top)
  BY <1>1, Answered
<1>3. g.base = top.base /\ g.code = top.code
  BY <1>1 DEF Answer, FrameInv, Frame
<1>4. Used(g, exc' # NoExc) = Used(top, FALSE)
  BY <1>1, <1>2 DEF Used
<1>5. Replaces(g)
  BY <1>1, <1>2, <1>3, <1>4 DEF Replaces, StackInv, Registers
<1> QED
  BY <1>5, ReplacesKeeps

LEMMA AnswersKeep ==
    ASSUME StackInv,
           \/ RenderScored \/ FilterReturns \/ WriteReturns
           \/ WriteRaw \/ NodeReturns \/ Resume
    PROVE  StackInv'
<1>1. CASE RenderScored
  BY <1>1, AnswerKeeps DEF RenderScored, Returning, Answer
<1>2. CASE FilterReturns
  BY <1>2, AnswerKeeps DEF FilterReturns, Returning, Answer
<1>3. CASE WriteReturns
  BY <1>3, AnswerKeeps DEF WriteReturns, Returning, Answer
<1>4. CASE WriteRaw
  BY <1>4, AnswerKeeps DEF WriteRaw, Executing, Answer, Ins, OpOf
<1>5. CASE NodeReturns
  BY <1>5, AnswerKeeps DEF NodeReturns, Returning, Answer
<1>6. CASE Resume
  BY <1>6, AnswerKeeps DEF Resume, Returning, Answer
<1> QED
  BY <1>1, <1>2, <1>3, <1>4, <1>5, <1>6

(* The size of the stack, once the innermost frame's part of it is known.  *)
UsedNow == IF exc = NoExc THEN Used(top, FALSE) ELSE Used(top, TRUE)

LEMMA SizeIs ==
    ASSUME StackInv, frames # << >>
    PROVE  /\ UsedNow = 0 => size = top.base
           /\ UsedNow = 1 => size - 1 = top.base
<1>1. size = top.base + Used(top, exc # NoExc) /\ top.base \in Nat
  BY TopFacts
<1>2. Used(top, exc # NoExc) = UsedNow
  BY DEF Used, UsedNow
<1> QED
  BY <1>1, <1>2

(* A frame is left where it has nothing on the stack.                      *)
LEMMA LeaveKeeps ==
    ASSUME StackInv, Leave
    PROVE  StackInv'
<1>1. /\ frames # << >> /\ exc = NoExc /\ top.calling = "no" /\ OpOf(top) = "LEAVE" /\ Pop
      /\ size' = (IF top.kind = "render" THEN size ELSE size - 1) /\ Same
  BY DEF Leave, Executing, Running, Ins, OpOf, Same
<1>2. /\ FrameInv(top) /\ top.base \in Nat /\ size = top.base + Used(top, FALSE)
      /\ At(top.code, top.pc, Result(top))
  BY <1>1, TopFacts
<1>3. Used(top, FALSE) = Result(top)
  <2> DEFINE before == top.code.trace[top.pc].depth
             pops == Pops(top.code.ins[top.pc])
             pushes == Pushes(top.code.ins[top.pc])
             after == top.code.trace[top.pc + 1].depth
  <2>1. Arithmetic(before, pops, pushes, after)
    BY <1>1, TopDepths
  <2>2. pops = 0 /\ pushes = 0
    BY <1>1 DEF OpOf, Pops, Pushes, UnaryOps, BinaryOps, ScratchOps, FilterOps
  <2>3. after = Result(top)
    BY <1>1, <1>2 DEF At, OpOf
  <2>4. Used(top, FALSE) = before
    BY <1>1 DEF Used, Held
  <2> HIDE DEF before, pops, pushes, after
  <2>5. before = after
    BY <2>1, <2>2 DEF Arithmetic
  <2> QED
    BY <2>3, <2>4, <2>5
<1>4. size' = top.base
  <2>1. CASE top.kind = "render"
    <3>1. Used(top, FALSE) = 0
      BY <2>1, <1>3 DEF Result, ResultOf
    <3> QED
      BY <2>1, <3>1, <1>1, SizeIs DEF UsedNow
  <2>2. CASE top.kind # "render"
    <3>1. Used(top, FALSE) = 1
      BY <2>2, <1>3 DEF Result, ResultOf
    <3> QED
      BY <2>2, <3>1, <1>1, SizeIs DEF UsedNow
  <2> QED
    BY <2>1, <2>2
<1>5. Drops
  BY <1>1, <1>4 DEF Drops, Same, StackInv, Registers
<1> QED
  BY <1>5, DropsKeeps

LEMMA InterruptedKeeps ==
    ASSUME StackInv, Interrupted
    PROVE  StackInv'
<1>1. /\ frames # << >> /\ exc = NoExc /\ top.calling = "node" /\ Pop /\ size' = size /\ Same
  BY DEF Interrupted, Returning, Running, Same
<1>2. FrameInv(top)
  BY <1>1, TopFacts
<1>3. Used(top, TRUE) = 0
  BY <1>1, <1>2, Outside
<1>4. Used(top, FALSE) = 0
  BY <1>1, <1>3 DEF Used
<1>5. size' = top.base
  BY <1>1, <1>4, SizeIs DEF UsedNow
<1>6. Drops
  BY <1>1, <1>5 DEF Drops, Same, StackInv, Registers
<1> QED
  BY <1>6, DropsKeeps

(* An exception is raised or rescued in the innermost frame.               *)
LEMMA SameFramesKeeps ==
    ASSUME StackInv, frames # << >>, UNCHANGED <<frames, cap, invoking_filter>>,
           Registers', size' = top.base + Used(top, exc' # NoExc)
    PROVE  StackInv'
<1>1. FrameInv(top) /\ top = frames[Len(frames)] /\ frames \in Seq(Frame)
  BY TopFacts DEF StackInv
<1>2. SetTop(top)
  <2>1. [frames EXCEPT ![Len(frames)] = top] = frames
    BY <1>1
  <2> QED
    BY <2>1 DEF SetTop
<1>3. invoking_filter' => \/ top.calling = "filter"
                          \/ invoking_filter /\ top.calling # "filter"
  BY DEF StackInv, Registers
<1>4. Replaces(top)
  BY <1>1, <1>2, <1>3 DEF Replaces
<1> QED
  BY <1>4, ReplacesKeeps

LEMMA ErrorTypes ==
    /\ \A e \in Errors : \A f \in {"filter", "elsewhere"} :
         LET x == [error |-> e, from |-> f]
         IN x \in Exceptions /\ x # NoExc /\ x.error # "Escape"
    /\ \A x \in Exceptions : x # NoExc
    /\ \A x \in Exceptions : [x EXCEPT !.error = "Liquid"] \in Exceptions
    /\ \A x \in Exceptions : [x EXCEPT !.error = "Liquid"].error = "Liquid"
    /\ NoExc.error # "Escape"
BY DEF Exceptions, Errors, NoExc

LEMMA RaiseKeeps ==
    ASSUME StackInv, Raise, ~Escapes
    PROVE  StackInv'
<1>1. /\ frames # << >> /\ exc = NoExc /\ top.calling # "no"
      /\ UNCHANGED <<frames, size, cap, invoking_filter, handled>>
  BY DEF Raise, Running, RubyCalls
<1>2. exc' \in Exceptions /\ exc' # NoExc /\ exc'.error # "Escape"
  <2>1. \E e \in Errors : \E f \in {"filter", "elsewhere"} : exc' = [error |-> e, from |-> f]
    BY DEF Raise, Errors
  <2> QED
    BY <2>1, ErrorTypes
<1>3. size = top.base + Used(top, FALSE)
  BY <1>1, TopFacts
<1>4. Used(top, exc' # NoExc) = Used(top, FALSE)
  BY <1>1 DEF Used
<1> QED
  BY <1>1, <1>2, <1>3, <1>4, SameFramesKeeps DEF StackInv, Registers

LEMMA UndefinedFilterKeeps ==
    ASSUME StackInv, UndefinedFilter
    PROVE  StackInv'
<1>1. /\ frames # << >> /\ exc = NoExc /\ top.calling = "no"
      /\ size' = size - Pops(top.code.ins[top.pc])
      /\ exc' = [error |-> "Other", from |-> "elsewhere"]
      /\ UNCHANGED <<frames, cap, invoking_filter, handled>>
  BY DEF UndefinedFilter, Executing, Running, Ins
<1>2. exc' \in Exceptions /\ exc' # NoExc /\ exc'.error # "Escape"
  BY <1>1, ErrorTypes DEF Errors
<1>3. size' = top.base + Used(top, exc' # NoExc)
  <2> DEFINE before == top.code.trace[top.pc].depth
             pops == Pops(top.code.ins[top.pc])
             used == Used(top, exc' # NoExc)
  <2>1. before \in Nat /\ pops \in Nat
    BY <1>1, TopDepths DEF Arithmetic
  <2>2. used = before - pops
    BY <1>1, <1>2 DEF Used
  <2>3. Used(top, FALSE) = before
    BY <1>1 DEF Used, Held
  <2>4. size' = size - pops /\ size = top.base + before /\ top.base \in Nat
    BY <1>1, <2>3, TopFacts
  <2> HIDE DEF before, pops, used
  <2>5. size' = top.base + used
    BY <2>1, <2>2, <2>4
  <2> QED
    BY <2>5 DEF used
<1> QED
  BY <1>1, <1>2, <1>3, SameFramesKeeps DEF StackInv, Registers

LEMMA RescuedKeeps ==
    ASSUME StackInv, Rescued
    PROVE  StackInv'
<1>1. /\ exc # NoExc /\ InRuby /\ exc' = NoExc
      /\ UNCHANGED <<frames, size, cap, invoking_filter, handled>>
  BY DEF Rescued
<1>2. CASE frames = << >>
  BY <1>1, <1>2, ErrorTypes DEF StackInv, Registers, Fits, Chain, StackSize, FilteringNotStale
<1>3. CASE frames # << >>
  <2>1. size = top.base + Used(top, TRUE)
    BY <1>1, <1>3, TopFacts
  <2>2. Used(top, exc' # NoExc) = Used(top, TRUE)
    BY <1>1, <1>3 DEF Used, InRuby, RubyCalls
  <2> QED
    BY <1>1, <1>3, <2>1, <2>2, ErrorTypes, SameFramesKeeps DEF StackInv, Registers
<1> QED
  BY <1>2, <1>3

LEMMA TranslatedType ==
    ASSUME StackInv, exc # NoExc
    PROVE  Translated \in Exceptions /\ Translated.error # "Escape"
BY ErrorTypes DEF StackInv, Registers, Translated

(* An exception leaves the innermost frame.                                *)
LEMMA UnprotectedKeeps ==
    ASSUME StackInv, Unprotected
    PROVE  StackInv'
<1>1. /\ frames # << >> /\ exc # NoExc /\ top.calling \in {"render_score", "rescue"}
      /\ Pop /\ UNCHANGED <<size, cap, invoking_filter, exc, handled>>
  BY DEF Unprotected, Propagating, StackInv, Registers
<1>2. FrameInv(top)
  BY <1>1, TopFacts
<1>3. Used(top, TRUE) = 0
  BY <1>1, <1>2, Outside
<1>4. size' = top.base
  BY <1>1, <1>3, SizeIs DEF UsedNow
<1>5. Drops
  BY <1>1, <1>4 DEF Drops, StackInv, Registers
<1> QED
  BY <1>5, DropsKeeps

LEMMA EvaluateRescueKeeps ==
    ASSUME StackInv, EvaluateRescue
    PROVE  StackInv'
<1>1. /\ frames # << >> /\ exc # NoExc /\ Pop /\ size' = top.base /\ cap' = cap
      /\ handled' = handled
      /\ top.calling \notin {"render_score", "rescue"}
  BY DEF EvaluateRescue, Protected, Propagating
<1>2. CASE top.kind = "variable"
  <2>1. exc' = Translated /\ invoking_filter' = FALSE
    BY <1>2 DEF EvaluateRescue
  <2>2. Drops
    BY <1>1, <2>1, TranslatedType DEF Drops, StackInv, Registers
  <2> QED
    BY <2>2, DropsKeeps
<1>3. CASE top.kind # "variable"
  <2>1. top.kind = "expression" /\ exc' = exc /\ invoking_filter' = invoking_filter
    BY <1>3 DEF EvaluateRescue
  <2>2. InCall(top) /\ OpOf(top) \notin FilterOps
    BY <1>1, <2>1, TopFacts, FrameFacts DEF FrameInv
  <2>3. top.calling # "filter"
    BY <2>2 DEF InCall, CallOf
  <2>4. Drops
    BY <1>1, <2>1, <2>3 DEF Drops, StackInv, Registers
  <2> QED
    BY <2>4, DropsKeeps
<1> QED
  BY <1>2, <1>3

LEMMA RenderReraiseKeeps ==
    ASSUME StackInv, RenderReraise
    PROVE  StackInv'
<1>1. /\ frames # << >> /\ exc # NoExc /\ Pop /\ UNCHANGED <<size, cap, handled>>
      /\ top.kind = "render" /\ top.rescue = 0
      /\ exc' = Translated /\ invoking_filter' = FALSE
  BY DEF RenderReraise, Protected, Propagating
<1>2. FrameInv(top)
  BY <1>1, TopFacts
<1>3. Used(top, TRUE) = 0
  BY <1>1, <1>2, Outside
<1>4. size' = top.base
  BY <1>1, <1>3, SizeIs DEF UsedNow
<1>5. Drops
  BY <1>1, <1>4, TranslatedType DEF Drops, StackInv, Registers
<1> QED
  BY <1>5, DropsKeeps

(* vm_render_rescue resumes the innermost frame behind the variable.       *)
LEMMA RenderRescueKeeps ==
    ASSUME StackInv, RenderRescue
    PROVE  /\ StackInv' /\ top'.pc = AfterPopWrite(top.code, top.rescue)
           /\ SkipTo(top.code, top.rescue, top'.pc) /\ top.rescue \in Nat
<1> DEFINE p == AfterPopWrite(top.code, top.rescue)
           g == [top EXCEPT !.pc = p, !.rescue = p, !.calling = "rescue"]
<1>1. /\ frames # << >> /\ exc # NoExc /\ SetTop(g) /\ size' = top.base /\ cap' = cap
      /\ top.rescue # 0 /\ top.calling \notin {"render_score", "rescue"}
      /\ handled' = Translated /\ exc' = NoExc /\ invoking_filter' = FALSE
  BY DEF RenderRescue, Protected, Propagating
<1>2. FrameInv(top) /\ top \in Frame /\ top.base \in Nat /\ top.rescue \in Nat
  BY <1>1, TopFacts, FrameFacts DEF FrameInv
<1>3. FrameInv(g) /\ Held(g) = 0 /\ SkipTo(top.code, top.rescue, p)
  BY <1>1, <1>2, Rescuing
<1>4. g.base = top.base /\ g.code = top.code /\ g.pc = p
  BY <1>2 DEF Frame
<1> HIDE DEF g
<1>5. size' = top.base + Used(g, exc' # NoExc)
  BY <1>1, <1>2, <1>3 DEF Used
<1>6. Replaces(g)
  BY <1>1, <1>3, <1>4, <1>5, TranslatedType, ErrorTypes DEF Replaces, Registers
<1>7. top' = g
  BY <1>1, TopFacts DEF SetTop, top, Last, StackInv
<1> QED
  BY <1>2, <1>3, <1>4, <1>6, <1>7, ReplacesKeeps

-----------------------------------------------------------------------------
(* What the invariant says                                                 *)

LEMMA InitInv ==
    ASSUME Init
    PROVE  StackInv
<1>1. exc = NoExc /\ handled = NoExc /\ invoking_filter = FALSE
  BY DEF Init
<1>2. Registers
  BY <1>1, ErrorTypes DEF Registers
<1>3. frames = << >> /\ Len(frames) = 0 /\ frames \in Seq(Frame) /\ size = 0 /\ cap = 0
  BY DEF Init
<1> QED
  BY <1>1, <1>2, <1>3 DEF StackInv, Chain, StackSize, FilteringNotStale

LEMMA NextInv ==
    ASSUME StackInv, [Next]_vars, ~Escapes
    PROVE  StackInv'
<1>1. CASE \E kind \in Kinds : Enter(kind)
  BY <1>1, EnterKeeps
<1>2. CASE RenderScored \/ FilterReturns \/ WriteReturns \/ WriteRaw \/ NodeReturns \/ Resume
  BY <1>2, AnswersKeep
<1>3. CASE \/ PushValue \/ UnknownFilter \/ RenderVariableRescue \/ Call
           \/ ConvertEnd \/ ConvertBegin \/ ReturnValue \/ Scored
  BY <1>3, PushValueKeeps, UnknownFilterKeeps, RenderVariableRescueKeeps, CallKeeps,
     ConvertKeeps, ReturnValueKeeps, ScoredKeeps
<1>4. CASE Leave \/ Interrupted
  BY <1>4, LeaveKeeps, InterruptedKeeps
<1>5. CASE Raise \/ UndefinedFilter \/ Rescued
  BY <1>5, RaiseKeeps, UndefinedFilterKeeps, RescuedKeeps
<1>6. CASE Unprotected \/ EvaluateRescue \/ RenderReraise \/ RenderRescue
  BY <1>6, UnprotectedKeeps, EvaluateRescueKeeps, RenderReraiseKeeps, RenderRescueKeeps
<1>7. CASE UNCHANGED vars
  BY <1>7 DEF vars, StackInv, Registers, Fits, Chain, StackSize, top, FilteringNotStale
<1> QED
  BY <1>1, <1>2, <1>3, <1>4, <1>5, <1>6, <1>7 DEF Next

LEMMA InvTypeOK ==
    ASSUME StackInv
    PROVE  TypeOK
BY SizeFacts DEF StackInv, Registers, TypeOK

LEMMA InvFramesStacked ==
    ASSUME StackInv
    PROVE  FramesStacked
<1>1. frames = << >> => size = 0
  BY DEF StackInv, StackSize
<1>2. ASSUME frames # << >>
      PROVE  frames[1].base = 0 /\ size >= top.base
  BY <1>2, TopFacts DEF StackInv, Chain
<1>3. \A i \in 1..Len(frames) - 1 : frames[i + 1].base = frames[i].base + Held(frames[i])
  BY DEF StackInv, Chain
<1>4. ASSUME Running
      PROVE  size = top.base + Held(top)
  BY <1>4, TopFacts DEF Running, Used
<1> QED
  BY <1>1, <1>2, <1>3, <1>4 DEF FramesStacked

(* The innermost frame is about to execute an instruction.                 *)
LEMMA BeforeInstruction ==
    ASSUME StackInv, Running, top.calling = "no"
    PROVE  /\ size = top.base + top.code.trace[top.pc].depth
           /\ top.base \in Nat /\ top.code.max \in Nat /\ cap \in Nat
           /\ top.base + top.code.max <= cap
           /\ top.code.trace[top.pc].depth \in Nat
           /\ Runs(top.code.trace[top.pc], Ins, top.code.max)
           /\ Pops(Ins) \in Nat /\ Pushes(Ins) \in {0, 1}
           /\ FrameInv(top) /\ At(top.code, top.pc, Result(top))
<1>1. frames # << >> /\ exc = NoExc
  BY DEF Running
<1>2. size = top.base + Held(top)
  BY InvFramesStacked DEF FramesStacked
<1>3. Held(top) = top.code.trace[top.pc].depth
  BY DEF Held
<1> QED
  BY <1>1, <1>2, <1>3, TopFacts DEF At, Situation, Ins

LEMMA InvNoOverflow ==
    ASSUME StackInv
    PROVE  NoOverflow
<1>1. size <= cap
  BY SizeFacts
<1>2. ASSUME Running, top.calling = "no"
      PROVE  /\ size - Pops(Ins) + Pushes(Ins) <= cap
             /\ Ins.op \in ScratchOps => size + 1 <= cap
  <2> DEFINE depth == top.code.trace[top.pc].depth
             pops == Pops(Ins)
             pushes == Pushes(Ins)
             base == top.base
             max == top.code.max
  <2>1. /\ size = base + depth /\ base \in Nat /\ max \in Nat /\ cap \in Nat
        /\ depth \in Nat /\ pops \in Nat /\ pushes \in {0, 1} /\ base + max <= cap
    BY <1>2, BeforeInstruction
  <2>2. /\ depth - pops + pushes <= max
        /\ Ins.op \in ScratchOps => depth + 1 <= max
    BY <1>2, BeforeInstruction DEF Runs
  <2> HIDE DEF depth, pops, pushes, base, max
  <2>3. size - pops + pushes <= cap
    BY <2>1, <2>2
  <2>4. Ins.op \in ScratchOps => size + 1 <= cap
    BY <2>1, <2>2
  <2> QED
    BY <2>3, <2>4 DEF pops, pushes
<1> QED
  BY <1>1, <1>2 DEF NoOverflow

LEMMA InvNoUnderflow ==
    ASSUME StackInv
    PROVE  NoUnderflow
<1> SUFFICES ASSUME Running, top.calling = "no"
             PROVE  size - Pops(Ins) >= top.base
  BY DEF NoUnderflow
<1> DEFINE depth == top.code.trace[top.pc].depth
           pops == Pops(Ins)
           base == top.base
<1>1. size = base + depth /\ base \in Nat /\ depth \in Nat /\ pops \in Nat
  BY BeforeInstruction
<1>2. pops <= depth
  BY BeforeInstruction DEF Runs
<1> HIDE DEF depth, pops, base
<1>3. size - pops >= base
  BY <1>1, <1>2
<1> QED
  BY <1>3 DEF pops, base

LEMMA InvStackRestored ==
    ASSUME StackInv
    PROVE  StackRestored
<1> SUFFICES ASSUME Executing("LEAVE")
             PROVE  size = IF top.kind = "render" THEN top.base ELSE top.base + 1
  BY DEF StackRestored
<1>1. Running /\ frames # << >> /\ top.calling = "no" /\ OpOf(top) = "LEAVE"
  BY DEF Executing, Running, Ins, OpOf
<1>2. /\ size = top.base + top.code.trace[top.pc].depth /\ top.base \in Nat
      /\ At(top.code, top.pc, Result(top))
  BY <1>1, BeforeInstruction
<1>3. top.code.trace[top.pc].depth = Result(top)
  <2> DEFINE before == top.code.trace[top.pc].depth
             pops == Pops(top.code.ins[top.pc])
             pushes == Pushes(top.code.ins[top.pc])
             after == top.code.trace[top.pc + 1].depth
  <2>1. Arithmetic(before, pops, pushes, after)
    BY <1>1, TopDepths
  <2>2. pops = 0 /\ pushes = 0
    BY <1>1 DEF OpOf, Pops, Pushes, UnaryOps, BinaryOps, ScratchOps, FilterOps
  <2>3. after = Result(top)
    BY <1>1, <1>2 DEF At, OpOf
  <2> HIDE DEF before, pops, pushes, after
  <2>4. before = after
    BY <2>1, <2>2 DEF Arithmetic
  <2> QED
    BY <2>3, <2>4 DEF before
<1> QED
  BY <1>2, <1>3 DEF Result, ResultOf

LEMMA InvErrorCostsOneVariable ==
    ASSUME StackInv
    PROVE  ErrorCostsOneVariable
BY DEF StackInv, Fits, FrameInv, InCall, ErrorCostsOneVariable

LEMMA StepSkipsOneVariable ==
    ASSUME StackInv, RenderRescue
    PROVE  \A p \in top.rescue..top'.pc - 2 :
             top.code.ins[p].op \notin {"RENDER_VARIABLE_RESCUE", "POP_WRITE", "LEAVE"}
BY RenderRescueKeeps DEF SkipTo

-----------------------------------------------------------------------------
(* The marks of filters, when no filter uses the context it is called with: *)
(* then nothing is entered above a filter, and invoking_filter is set just   *)
(* while the innermost frame waits for one.                                  *)
InFilter == frames # << >> /\ top.calling = "filter"

NoneBelow == \A i \in 1..Len(frames) - 1 : frames[i].calling # "filter"

Marked ==
    /\ invoking_filter <=> InFilter
    /\ exc.error = "Argument" /\ exc.from = "filter" => InFilter
    /\ exc # NoExc /\ exc.from = "elsewhere" => ~InFilter

FilterInv == NoneBelow /\ Marked /\ FilterErrorsTranslated

LEMMA NotEscaped ==
    /\ NoExc.from = "elsewhere" /\ NoExc.error # "Argument"
    /\ \A x \in Exceptions \cup {NoExc} : x.from \in {"filter", "elsewhere"}
    /\ \A x \in Exceptions : [x EXCEPT !.error = "Liquid"].from = x.from
BY DEF Exceptions, NoExc

(* The innermost frame goes on as g; is left.                               *)
LEMMA FilterSet ==
    ASSUME StackInv, NoneBelow, frames # << >>, NEW g, SetTop(g)
    PROVE  NoneBelow' /\ (InFilter' <=> g.calling = "filter")
<1>1. /\ frames \in Seq(Frame) /\ Len(frames) \in Nat /\ Len(frames) > 0
      /\ frames' = [frames EXCEPT ![Len(frames)] = g]
  BY TopFacts DEF StackInv, SetTop
<1>2. /\ Len(frames') = Len(frames) /\ frames'[Len(frames)] = g
      /\ \A i \in 1..Len(frames) - 1 : frames'[i] = frames[i]
  BY <1>1
<1>3. top' = g
  BY <1>1, <1>2 DEF top, Last
<1>5. frames' # << >>
  <2>1. Len(frames) # 0
    BY <1>1
  <2>2. Len(frames') # 0
    BY <1>2, <2>1, Zenon
  <2>3. Len(<< >>) = 0
    OBVIOUS
  <2> QED
    BY <2>2, <2>3, Zenon
<1>4. NoneBelow'
  BY <1>2 DEF NoneBelow
<1> QED
  BY <1>3, <1>4, <1>5 DEF InFilter

LEMMA FilterPop ==
    ASSUME StackInv, NoneBelow, frames # << >>, Pop
    PROVE  NoneBelow' /\ ~InFilter'
<1> DEFINE n == Len(frames) - 1
<1>1. frames \in Seq(Frame) /\ n \in Nat
  BY TopFacts DEF StackInv
<1>2. /\ frames' \in Seq(Frame) /\ Len(frames') = n
      /\ \A i \in 1..n : frames'[i] = frames[i]
  BY <1>1, Shortened DEF Pop
<1> HIDE DEF n
<1>3. \A i \in 1..n : frames'[i].calling # "filter"
  BY <1>2 DEF NoneBelow, n
<1>4. NoneBelow'
  BY <1>1, <1>2, <1>3 DEF NoneBelow
<1>5. ASSUME frames' # << >>
      PROVE  top'.calling # "filter"
  <2>1. n \in 1..n /\ top' = frames'[n]
    BY <1>1, <1>2, <1>5 DEF top, Last
  <2> QED
    BY <1>3, <2>1
<1> QED
  BY <1>4, <1>5 DEF InFilter

(* Nothing happens to a filter: its frame is not the one that moves.        *)
Unmarked == UNCHANGED <<invoking_filter, exc, handled>>

LEMMA UnmarkedStep ==
    ASSUME FilterInv, Unmarked, NoneBelow', ~InFilter, ~InFilter'
    PROVE  FilterInv'
BY DEF FilterInv, Marked, Unmarked, FilterErrorsTranslated

LEMMA EnterMarks ==
    ASSUME StackInv, FilterInv, ~FiltersReenter, NEW kind \in Kinds, Enter(kind)
    PROVE  FilterInv'
<1>1. /\ frames \in Seq(Frame) /\ Len(frames) \in Nat /\ Unmarked /\ exc = NoExc
      /\ frames # << >> => top.calling # "filter"
  BY DEF StackInv, Enter, MayEnter, Unmarked
<1>2. PICK f : frames' = Append(frames, f) /\ f.calling \in {"render_score", "no"}
  BY DEF Enter
<1>3. /\ Len(frames') = Len(frames) + 1 /\ frames'[Len(frames) + 1] = f
      /\ \A i \in 1..Len(frames) : frames'[i] = frames[i]
  BY <1>1, <1>2
<1>4. ~InFilter
  BY <1>1 DEF InFilter
<1>5. ~InFilter'
  <2>1. top' = f
    BY <1>3 DEF top, Last
  <2> QED
    BY <1>2, <2>1 DEF InFilter
<1>6. ASSUME NEW i \in 1..Len(frames)
      PROVE  frames[i].calling # "filter"
  <2>1. CASE i = Len(frames)
    BY <1>1, <2>1 DEF top, Last
  <2>2. CASE i # Len(frames)
    BY <1>1, <2>2 DEF FilterInv, NoneBelow
  <2> QED
    BY <2>1, <2>2
<1>7. NoneBelow'
  BY <1>1, <1>3, <1>6 DEF NoneBelow
<1> QED
  BY <1>1, <1>4, <1>5, <1>7, UnmarkedStep

LEMMA MovesMark ==
    ASSUME StackInv, FilterInv,
           \/ RenderScored \/ PushValue \/ UnknownFilter \/ RenderVariableRescue
           \/ ConvertEnd \/ ConvertBegin \/ ReturnValue \/ WriteReturns \/ WriteRaw \/ NodeReturns \/ Scored \/ Resume
    PROVE  FilterInv'
<1>1. Running /\ top.calling # "filter" /\ Unmarked
  BY DEF RenderScored, PushValue, UnknownFilter, RenderVariableRescue, ConvertEnd,
         ConvertBegin, ReturnValue, WriteReturns, WriteRaw, NodeReturns, Scored, Resume, Executing, Returning, Unmarked
<1>2. top \in Frame
  BY <1>1, TopFacts DEF Running, FrameInv
<1>3. PICK g : SetTop(g) /\ g.calling # "filter"
  <2>1. CASE PushValue \/ UnknownFilter \/ ReturnValue \/ Scored
    <3>1. NextIns.calling # "filter"
      BY <1>2 DEF NextIns, Frame
    <3>2. SetTop(NextIns)
      BY <2>1 DEF PushValue, UnknownFilter, ReturnValue, Scored
    <3> QED
      BY <3>1, <3>2
  <2>2. CASE RenderVariableRescue
    <3> DEFINE f == [NextIns EXCEPT !.rescue = top.pc + 1]
    <3>1. f.calling # "filter"
      BY <1>2 DEF NextIns, Frame
    <3>2. SetTop(f)
      BY <2>2 DEF RenderVariableRescue
    <3> HIDE DEF f
    <3> QED
      BY <3>1, <3>2
  <2>3. CASE RenderScored \/ WriteRaw \/ NodeReturns \/ ConvertEnd \/ ConvertBegin
    <3>1. PICK c \in {"no", "write_score", "end_to_integer", "to_integer"} :
            SetTop([top EXCEPT !.calling = c])
      BY <2>3 DEF RenderScored, WriteRaw, NodeReturns, ConvertEnd, ConvertBegin
    <3> DEFINE f == [top EXCEPT !.calling = c]
    <3>2. f.calling # "filter"
      BY <1>2 DEF Frame
    <3> HIDE DEF f
    <3> QED
      BY <3>1, <3>2 DEF f
  <2>4. CASE WriteReturns \/ Resume
    <3>1. PICK c \in {"no", "write_score"} : SetTop([top EXCEPT !.calling = c, !.rescue = 0])
      BY <2>4 DEF WriteReturns, Resume
    <3> DEFINE f == [top EXCEPT !.calling = c, !.rescue = 0]
    <3>2. f.calling # "filter"
      BY <1>2 DEF Frame
    <3> HIDE DEF f
    <3> QED
      BY <3>1, <3>2 DEF f
  <2> QED
    BY <2>1, <2>2, <2>3, <2>4
<1>4. NoneBelow' /\ ~InFilter' /\ ~InFilter
  BY <1>1, <1>3, FilterSet DEF Running, InFilter, FilterInv
<1> QED
  BY <1>1, <1>4, UnmarkedStep

LEMMA CallMarks ==
    ASSUME StackInv, FilterInv, Call
    PROVE  FilterInv'
<1> DEFINE g == [top EXCEPT !.calling = CallOf(Ins.op)]
<1>1. /\ frames # << >> /\ exc = NoExc /\ top.calling = "no" /\ SetTop(g)
      /\ invoking_filter' = (invoking_filter \/ Ins.op \in FilterOps)
      /\ exc' = exc /\ handled' = handled
  BY DEF Call, Running
<1>2. top \in Frame
  BY <1>1, TopFacts DEF FrameInv
<1>3. g.calling = "filter" <=> Ins.op \in FilterOps
  BY <1>2 DEF Frame, CallOf, FilterOps, ScratchOps
<1> HIDE DEF g
<1>4. NoneBelow' /\ (InFilter' <=> g.calling = "filter")
  BY <1>1, FilterSet DEF FilterInv
<1>5. ~InFilter
  BY <1>1 DEF InFilter
<1>6. Marked'
  BY <1>1, <1>3, <1>4, <1>5, NotEscaped DEF FilterInv, Marked
<1> QED
  BY <1>1, <1>4, <1>6 DEF FilterInv, FilterErrorsTranslated

LEMMA FilterReturnsMarks ==
    ASSUME StackInv, FilterInv, FilterReturns
    PROVE  FilterInv'
<1> DEFINE g == [top EXCEPT !.calling = "to_liquid"]
<1>1. /\ frames # << >> /\ exc = NoExc /\ SetTop(g) /\ invoking_filter' = FALSE
      /\ exc' = exc /\ handled' = handled
  BY DEF FilterReturns, Returning, Running
<1>2. top \in Frame
  BY <1>1, TopFacts DEF FrameInv
<1>3. g.calling # "filter"
  BY <1>2 DEF Frame
<1> HIDE DEF g
<1>4. NoneBelow' /\ ~InFilter'
  BY <1>1, <1>3, FilterSet DEF FilterInv
<1>5. Marked'
  BY <1>1, <1>4, NotEscaped DEF FilterInv, Marked
<1> QED
  BY <1>1, <1>4, <1>5 DEF FilterInv, FilterErrorsTranslated

LEMMA LeavesMark ==
    ASSUME StackInv, FilterInv, Leave \/ Interrupted
    PROVE  FilterInv'
<1>1. frames # << >> /\ exc = NoExc /\ top.calling # "filter" /\ Pop /\ Unmarked
  BY DEF Leave, Interrupted, Executing, Returning, Running, Unmarked
<1>2. NoneBelow' /\ ~InFilter' /\ ~InFilter
  BY <1>1, FilterPop DEF FilterInv, InFilter
<1> QED
  BY <1>1, <1>2, UnmarkedStep

(* The frames stay.                                                        *)
LEMMA RaisesMark ==
    ASSUME StackInv, FilterInv, Raise \/ UndefinedFilter \/ Rescued
    PROVE  FilterInv'
<1>1. frames' = frames /\ invoking_filter' = invoking_filter /\ handled' = handled
  BY DEF Raise, UndefinedFilter, Rescued
<1>2. NoneBelow' /\ (InFilter' <=> InFilter)
  BY <1>1 DEF FilterInv, NoneBelow, InFilter, top
<1>3. /\ exc'.error = "Argument" /\ exc'.from = "filter" => InFilter
      /\ exc' # NoExc /\ exc'.from = "elsewhere" => ~InFilter
  <2>1. CASE Raise
    <3>1. exc'.from = IF InFilter THEN "filter" ELSE "elsewhere"
      BY <2>1 DEF Raise, Running, InFilter
    <3> QED
      BY <3>1
  <2>2. CASE UndefinedFilter
    <3>1. ~InFilter /\ exc'.error = "Other"
      BY <2>2 DEF UndefinedFilter, Executing, InFilter
    <3> QED
      BY <3>1
  <2>3. CASE Rescued
    BY <2>3, NotEscaped DEF Rescued
  <2> QED
    BY <2>1, <2>2, <2>3
<1>4. Marked'
  BY <1>1, <1>2, <1>3 DEF FilterInv, Marked
<1> QED
  BY <1>1, <1>2, <1>4 DEF FilterInv, FilterErrorsTranslated

(* What is rescued or raised again is translated just when it should be.    *)
LEMMA TranslatesFilterErrors ==
    ASSUME StackInv, FilterInv, exc # NoExc
    PROVE  /\ Translated.error = "Argument" => Translated.from = "elsewhere"
           /\ exc.from = "elsewhere" => Translated = exc
<1>1. exc \in Exceptions /\ exc.from \in {"filter", "elsewhere"}
  BY NotEscaped DEF StackInv, Registers
<1>2. [exc EXCEPT !.error = "Liquid"].error = "Liquid"
  BY <1>1, ErrorTypes
<1> QED
  BY <1>1, <1>2 DEF FilterInv, Marked, Translated

LEMMA RescuesMark ==
    ASSUME StackInv, FilterInv,
           Unprotected \/ EvaluateRescue \/ RenderReraise \/ RenderRescue
    PROVE  FilterInv'
<1>1. frames # << >> /\ exc # NoExc
  BY DEF Unprotected, EvaluateRescue, RenderReraise, RenderRescue, Protected, Propagating
<1>2. ASSUME Unprotected \/ EvaluateRescue \/ RenderReraise
      PROVE  FilterInv'
  <2>1. Pop /\ handled' = handled
    BY <1>2 DEF Unprotected, EvaluateRescue, RenderReraise
  <2>2. NoneBelow' /\ ~InFilter'
    BY <1>1, <2>1, FilterPop DEF FilterInv
  <2>3. ASSUME exc' = Translated, invoking_filter' = FALSE
        PROVE  Marked'
    <3>1. ~(exc'.error = "Argument" /\ exc'.from = "filter")
      BY <1>1, <2>3, TranslatesFilterErrors
    <3> QED
      BY <2>2, <2>3, <3>1 DEF Marked
  <2>4. ASSUME exc' = exc, invoking_filter' = invoking_filter, top.calling # "filter"
        PROVE  Marked'
    <3>1. ~InFilter
      BY <2>4 DEF InFilter
    <3> QED
      BY <2>2, <2>4, <3>1 DEF FilterInv, Marked
  <2>5. CASE Unprotected
    <3>1. top.calling # "filter"
      BY <2>5 DEF Unprotected, StackInv, Registers
    <3> QED
      BY <2>1, <2>2, <2>4, <2>5, <3>1 DEF Unprotected, FilterInv, FilterErrorsTranslated
  <2>6. CASE EvaluateRescue /\ top.kind # "variable"
    <3>1. top.kind = "expression" /\ exc' = exc /\ invoking_filter' = invoking_filter
      BY <2>6 DEF EvaluateRescue
    <3>2. InCall(top) /\ OpOf(top) \notin FilterOps
      BY <1>1, <3>1, TopFacts, FrameFacts DEF FrameInv
    <3>3. top.calling # "filter"
      BY <3>2 DEF InCall, CallOf
    <3> QED
      BY <2>1, <2>2, <2>4, <3>1, <3>3 DEF FilterInv, FilterErrorsTranslated
  <2>7. CASE RenderReraise \/ (EvaluateRescue /\ top.kind = "variable")
    <3>1. exc' = Translated /\ invoking_filter' = FALSE
      BY <2>7 DEF RenderReraise, EvaluateRescue
    <3> QED
      BY <2>1, <2>2, <2>3, <3>1 DEF FilterInv, FilterErrorsTranslated
  <2> QED
    BY <1>2, <2>5, <2>6, <2>7
<1>3. ASSUME RenderRescue
      PROVE  FilterInv'
  <2>1. PICK g : SetTop(g) /\ g.calling = "rescue"
    <3> DEFINE p == AfterPopWrite(top.code, top.rescue)
               f == [top EXCEPT !.pc = p, !.rescue = p, !.calling = "rescue"]
    <3>1. top \in Frame
      BY <1>1, TopFacts DEF FrameInv
    <3>2. f.calling = "rescue"
      BY <3>1 DEF Frame
    <3>3. SetTop(f)
      BY <1>3 DEF RenderRescue
    <3> HIDE DEF f
    <3> QED
      BY <3>2, <3>3
  <2>2. NoneBelow' /\ ~InFilter'
    BY <1>1, <2>1, FilterSet DEF FilterInv
  <2>3. handled' = Translated /\ exc' = NoExc /\ invoking_filter' = FALSE
    BY <1>3 DEF RenderRescue
  <2>4. Marked'
    BY <2>2, <2>3, NotEscaped DEF Marked
  <2>5. FilterErrorsTranslated'
    BY <1>1, <2>3, TranslatesFilterErrors DEF FilterErrorsTranslated
  <2> QED
    BY <2>2, <2>4, <2>5 DEF FilterInv
<1> QED
  BY <1>2, <1>3

LEMMA InitFilterInv ==
    ASSUME Init
    PROVE  FilterInv
BY NotEscaped DEF Init, FilterInv, NoneBelow, Marked, InFilter, FilterErrorsTranslated

LEMMA NextFilterInv ==
    ASSUME StackInv, FilterInv, [Next]_vars, ~FiltersReenter
    PROVE  FilterInv'
<1>1. CASE UNCHANGED vars
  BY <1>1 DEF vars, FilterInv, NoneBelow, Marked, InFilter, top, FilterErrorsTranslated
<1> QED
  BY <1>1, EnterMarks, MovesMark, CallMarks, FilterReturnsMarks, LeavesMark, RaisesMark,
     RescuesMark DEF Next

-----------------------------------------------------------------------------
LEMMA StackInvariant == ~Escapes => (Spec => []StackInv)
<1> SUFFICES ASSUME ~Escapes
             PROVE  Spec => []StackInv
  OBVIOUS
<1>1. Init => StackInv
  BY InitInv
<1>2. StackInv /\ [Next]_vars => StackInv'
  BY NextInv
<1> QED
  BY <1>1, <1>2, PTL DEF Spec

LEMMA FilterInvariant == ~Escapes /\ ~FiltersReenter => (Spec => [](StackInv /\ FilterInv))
<1> SUFFICES ASSUME ~Escapes, ~FiltersReenter
             PROVE  Spec => [](StackInv /\ FilterInv)
  OBVIOUS
<1>1. Spec => []StackInv
  BY StackInvariant
<1>2. Init => FilterInv
  BY InitFilterInv
<1>3. StackInv /\ FilterInv /\ [Next]_vars => FilterInv'
  BY NextFilterInv
<1> QED
  BY <1>1, <1>2, <1>3, PTL DEF Spec

(* Invocations of the VM share its stack safely: what each has on it lies   *)
(* above what its caller has, every push fits in the capacity reserved on   *)
(* entry and every pop finds a value of the same frame, so that the         *)
(* assertions of vm_stack_push, vm_stack_peek_n, liquid_vm_render and       *)
(* liquid_vm_evaluate hold; for every set of finished codes and every       *)
(* nesting and failing of invocations, unless Ruby code leaves by something *)
(* that rb_rescue does not see.                                             *)
THEOREM StackSafety == ~Escapes => (Spec => [](TypeOK /\ StackKept))
<1> SUFFICES ASSUME ~Escapes
             PROVE  Spec => [](TypeOK /\ StackKept)
  OBVIOUS
<1>1. StackInv => TypeOK /\ StackKept
  BY InvTypeOK, InvFramesStacked, InvNoOverflow, InvNoUnderflow, InvStackRestored
     DEF StackKept
<1> QED
  BY <1>1, StackInvariant, PTL

(* Where vm_render_rescue resumes, in whatever frame it is still waiting for *)
(* the error to be rendered: behind an OP_POP_WRITE and with nothing of the *)
(* failed variable left on the stack.                                       *)
THEOREM OneVariableLost == ~Escapes => (Spec => []ErrorCostsOneVariable)
<1> SUFFICES ASSUME ~Escapes
             PROVE  Spec => []ErrorCostsOneVariable
  OBVIOUS
<1>1. StackInv => ErrorCostsOneVariable
  BY InvErrorCostsOneVariable
<1> QED
  BY <1>1, StackInvariant, PTL

(* Rendering resumes in the same body behind the variable that failed: the  *)
(* scan of vm_render_rescue passes neither another variable nor the end of  *)
(* the body.                                                                *)
THEOREM RescueSkipsOneVariable ==
    ~Escapes => (Spec => SkipsOneVariable)
<1> SUFFICES ASSUME ~Escapes
             PROVE  Spec => SkipsOneVariable
  OBVIOUS
<1>1. Spec => []StackInv
  BY StackInvariant
<1>2. StackInv /\ [Next]_vars =>
        [RenderRescue =>
           \A p \in top.rescue..top'.pc - 2 :
              top.code.ins[p].op \notin {"RENDER_VARIABLE_RESCUE", "POP_WRITE", "LEAVE"}]_vars
  BY StepSkipsOneVariable
<1> QED
  BY <1>1, <1>2, PTL DEF Spec, SkipsOneVariable

(* c_filtering? is never left set: however filters fail, in whatever nesting *)
(* of invocations, invoking_filter is true only while some frame waits for a *)
(* filter.                                                                   *)
THEOREM FilteringCurrent == ~Escapes => (Spec => []FilteringNotStale)
<1> SUFFICES ASSUME ~Escapes
             PROVE  Spec => []FilteringNotStale
  OBVIOUS
<1>1. StackInv => FilteringNotStale
  BY DEF StackInv
<1> QED
  BY <1>1, StackInvariant, PTL

(* An ArgumentError of a filter reaches c_rescue_render_node as an error of  *)
(* the template, through any number of frames, if no filter renders or       *)
(* evaluates in the context it was called with (which clears                *)
(* invoking_filter while the filter is still running).                      *)
THEOREM FilterErrorsReported ==
    ~Escapes /\ ~FiltersReenter => (Spec => []FilterErrorsTranslated)
<1> SUFFICES ASSUME ~Escapes, ~FiltersReenter
             PROVE  Spec => []FilterErrorsTranslated
  OBVIOUS
<1>1. FilterInv => FilterErrorsTranslated
  BY DEF FilterInv
<1> QED
  BY <1>1, FilterInvariant, PTL

(* And no other ArgumentError is taken for one of a filter: that of a drop, *)
(* a tag or a conversion passes every rescue as it is.                      *)
THEOREM OtherErrorsKept ==
    ~Escapes /\ ~FiltersReenter => (Spec => OnlyFilterErrorsTranslated)
<1> SUFFICES ASSUME ~Escapes, ~FiltersReenter
             PROVE  Spec => OnlyFilterErrorsTranslated
  OBVIOUS
<1>1. ASSUME StackInv, FilterInv, RenderRescue \/ RenderReraise \/ EvaluateRescue
      PROVE  exc.error = "Argument" /\ exc.from = "elsewhere" => Translated = exc
  BY <1>1, TranslatesFilterErrors
       DEF RenderRescue, RenderReraise, EvaluateRescue, Protected, Propagating
<1>2. StackInv /\ FilterInv =>
        [RenderRescue \/ RenderReraise \/ EvaluateRescue =>
           (exc.error = "Argument" /\ exc.from = "elsewhere" => Translated = exc)]_vars
  BY <1>1
<1> QED
  BY <1>2, FilterInvariant, PTL DEF Spec, OnlyFilterErrorsTranslated
=============================================================================
