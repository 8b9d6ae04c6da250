--------------------------- MODULE ResourceLimits ---------------------------
(***************************************************************************)
(* The scores of a render (resource_limits.c), as the VM (liquid_vm.c) and *)
(* the tags of the gem drive them.  One number, last_capture_length, is    *)
(* used for every string that is rendered to: the growth of the output     *)
(* since the last write is charged, whichever string that was.  Captures   *)
(* nest, tags render to strings of their own without a capture             *)
(* (ifchanged), nodes and values fail or interrupt the render in the       *)
(* middle, and a partial that is rendered as a template of its own resets  *)
(* the limits of a render, and of captures, that are still going on.        *)
(***************************************************************************)
EXTENDS Integers, Sequences

CONSTANTS
    RenderLengthLimit, RenderScoreLimit, AssignScoreLimit,
    Sizes,     \* lengths of what one write appends
    Scores,    \* render scores of bodies, assign scores of values
    MaxLength, \* bound on the length of a string
    MaxCalls,  \* bound on the C stack
    MaxScore   \* bound on the scores at which a MemoryError is rescued

ASSUME LimitsAssumption ==
    /\ RenderLengthLimit \in Nat /\ RenderScoreLimit \in Nat /\ AssignScoreLimit \in Nat
    /\ Sizes \subseteq Nat /\ Scores \subseteq Nat
    /\ MaxLength \in Nat /\ MaxCalls \in Nat /\ MaxScore \in Nat

VARIABLES
    limits,   \* resource_limits_t
    captures, \* capture_ensure_t of each with_capture on the C stack, with
              \* history: from, the length from which its string has been
              \* charged since the last reset, -1 if it has not; owed, what
              \* the captures around it have been charged since
    out,      \* lengths of the strings that are rendered to, innermost last
    calls,    \* the C stack, with history: due, may there be output, or a charge
              \* for another string, that no write has followed?  strings and
              \* depth, how many strings and captures the call has found
    exc,      \* exception that is propagating
    settled,  \* history: charges for assignments and for ended captures
    handled,  \* history: has a MemoryError been rescued since the last reset?
    older     \* history: captures that are open since before the last reset

history == <<settled, handled, older>>
vars == <<limits, captures, out, calls, exc, history>>

-----------------------------------------------------------------------------
Kinds == {"template", "vm", "node", "value", "capture", "private"}
Ruby == {"node", "value", "private"} \* may have written at any time

top == calls[Len(calls)]
written == out[Len(out)]
Pop(s) == SubSeq(s, 1, Len(s) - 1)
Below == Pop(calls)
Push(call, due) == Append(calls, [call |-> call, due |-> due, strings |-> Len(out'),
                                  depth |-> Len(captures')])

At(kinds) == exc = "none" /\ calls # << >> /\ top.call \in kinds
Appended(n) == [out EXCEPT ![Len(out)] = @ + n]
Room(n) == written + n <= MaxLength
WithDue(stack, due) ==
    [stack EXCEPT ![Len(stack)].due = due \/ stack[Len(stack)].call \in Ruby]

(* resource_limits_reset; reached_limit is true from the beginning          *)
Reset == [reached |-> TRUE, last |-> -1, render |-> 0, assign |-> 0]

Init ==
    /\ limits = Reset /\ captures = << >> /\ out = << >> /\ calls = << >>
    /\ exc = "none" /\ settled = 0 /\ handled = FALSE /\ older = 0

Raised(over) == IF over THEN "memory" ELSE "none"

(* resource_limits_increment_assign_score                                  *)
(* Mutant: the score is checked before it is increased.                    *)
IncrementAssignScoreLate(n) ==
    /\ limits' = [limits EXCEPT !.assign = @ + n]
    /\ exc' = Raised(limits.assign > AssignScoreLimit)
IncrementAssignScore(n) ==
    /\ limits' = [limits EXCEPT !.assign = @ + n]
    /\ exc' = Raised(limits.assign + n > AssignScoreLimit)

(* Mutant: a capture is only charged when it grows beyond its longest.      *)
IncrementWriteScoreGrowing(captured) ==
    IF limits.last >= 0
    THEN LET n == captured - limits.last
         IN IF n < 0 THEN UNCHANGED <<limits, exc>>
            ELSE /\ limits' = [limits EXCEPT !.last = captured, !.assign = @ + n]
                 /\ exc' = Raised(limits.assign + n > AssignScoreLimit)
    ELSE exc' = Raised(captured > RenderLengthLimit) /\ UNCHANGED limits

(* resource_limits_increment_write_score of a string of that length        *)
IncrementWriteScore(captured) ==
    IF limits.last >= 0
    THEN LET n == captured - limits.last
         IN /\ limits' = [limits EXCEPT !.last = captured, !.assign = @ + n]
            /\ exc' = Raised(limits.assign + n > AssignScoreLimit)
    ELSE exc' = Raised(captured > RenderLengthLimit) /\ UNCHANGED limits

-----------------------------------------------------------------------------
(* Nothing has been charged, and the string of the innermost capture is     *)
(* not even counted until that capture ends.                                *)
Uncharged == [i \in 1..Len(captures) |->
    [captures[i] EXCEPT
        !.owed = 0,
        !.from = IF i = Len(captures) THEN -1 ELSE captures[i + 1].saved]]

ResetLimits ==
    /\ limits' = Reset /\ captures' = Uncharged
    /\ settled' = 0 /\ handled' = FALSE /\ older' = Len(captures)

(* Liquid::Template#render resets the limits of the context and renders to  *)
(* a string that may have been given to it; it handles every exception.     *)
RenderTemplate == \E n \in Sizes :
    /\ calls = << >> /\ n <= MaxLength
    /\ ResetLimits
    /\ out' = <<n>> /\ UNCHANGED exc
    /\ calls' = Push("template", TRUE)

EndTemplate ==
    /\ calls # << >> /\ top.call = "template"
    /\ calls' = << >> /\ out' = << >> /\ exc' = "none"
    /\ UNCHANGED <<limits, captures, history>>

(* A tag such as include renders a template into the output it was given:   *)
(* Template#render resets the limits of the same context (ResetPartial),    *)
(* renders the body (Render), and rescues a MemoryError (Rescue).           *)
ResetPartial ==
    /\ At({"node", "value", "capture", "private"})
    /\ ResetLimits
    /\ calls' = WithDue(calls, TRUE)
    /\ UNCHANGED <<out, exc>>

(* Ruby code rescues an exception, as Template#render does with the         *)
(* MemoryError of a partial, and the render around it goes on.              *)
Rescue ==
    /\ calls # << >> /\ top.call \in {"node", "value", "capture", "private"}
    /\ exc # "none"
    /\ exc = "memory" => limits.render <= MaxScore /\ limits.assign <= MaxScore
    /\ exc' = "none" /\ handled' = (handled \/ exc = "memory")
    /\ calls' = WithDue(calls, TRUE)
    /\ UNCHANGED <<limits, captures, out, settled, older>>

(* liquid_vm_render: the score is charged before there is anything to rescue *)
Render == \E score \in Scores :
    /\ At({"template", "node", "value", "capture", "private"})
    /\ Len(calls) < MaxCalls
    /\ limits' = [limits EXCEPT !.render = @ + score]
    /\ exc' = Raised(limits.render + score > RenderScoreLimit)
    /\ UNCHANGED <<captures, out, history>>
    /\ calls' = IF exc' = "none" THEN Push("vm", top.call = "capture" => top.due)
                                ELSE calls

(* OP_WRITE_RAW                                                            *)
WriteRaw == \E n \in Sizes :
    /\ At({"vm"}) /\ Room(n)
    /\ out' = Appended(n) /\ IncrementWriteScore(written + n)
    /\ calls' = WithDue(calls, FALSE)
    /\ UNCHANGED <<captures, history>>

(* OP_WRITE_NODE, and the instructions of a variable: Ruby code runs        *)
Call ==
    /\ At({"vm"}) /\ Len(calls) < MaxCalls
    /\ UNCHANGED <<limits, captures, out, exc, history>>
    /\ \E kind \in {"node", "value"} : calls' = Push(kind, TRUE)

(* The VM goes on after the node has returned, or has failed and            *)
(* BlockBody.render_node has written the message.                           *)
NodeReturns == \E n \in Sizes :
    /\ calls # << >> /\ top.call = "node" /\ exc # "memory" /\ Room(n)
    /\ n > 0 => exc = "error"
    /\ out' = Appended(n) /\ IncrementWriteScore(written + n)
    /\ calls' = WithDue(Below, FALSE)
    /\ UNCHANGED <<captures, history>>

(* The node returns with an interrupt: the render ends without a charge.    *)
NodeInterrupts ==
    /\ At({"node"})
    /\ calls' = WithDue(Pop(Below), TRUE)
    /\ UNCHANGED <<limits, captures, out, exc, history>>

(* OP_POP_WRITE                                                            *)
ValueReturns == \E n \in Sizes :
    /\ At({"value"}) /\ Room(n)
    /\ out' = Appended(n) /\ IncrementWriteScore(written + n)
    /\ calls' = WithDue(Below, FALSE)
    /\ UNCHANGED <<captures, history>>

(* vm_render_rescue: part of an array, and the message, are in the output.  *)
(* It passes a MemoryError on, and what handle_error raises again.          *)
ValueFails == \E n \in Sizes :
    /\ calls # << >> /\ top.call = "value" /\ exc # "none" /\ Room(n)
    /\ out' = Appended(n)
    /\ exc' \in IF exc = "error" THEN {"none", "error"} ELSE {exc}
    /\ calls' = WithDue(Below, TRUE)
    /\ UNCHANGED <<limits, captures, history>>

(* OP_LEAVE                                                                *)
Leave ==
    /\ At({"vm"})
    /\ calls' = WithDue(Below, top.due)
    /\ UNCHANGED <<limits, captures, out, exc, history>>

-----------------------------------------------------------------------------
(* What the Ruby code of a tag, or of a value, does between its renders     *)

(* It writes to the output by itself.                                      *)
NodeWrites == \E n \in Sizes :
    /\ At({"node"}) /\ n > 0 /\ Room(n)
    /\ out' = Appended(n)
    /\ UNCHANGED <<limits, captures, calls, exc, history>>

(* Liquid::Assign: increment_assign_score                                  *)
Assign == \E n \in Scores :
    /\ At({"node"})
    /\ IncrementAssignScore(n)
    /\ settled' = settled + n
    /\ UNCHANGED <<captures, out, calls, handled, older>>

(* What the captures that are open have been charged since the last reset   *)
innermost == captures[Len(captures)]
OpenCharges == IF captures = << >> THEN 0
               ELSE innermost.owed + limits.last - innermost.from

(* with_capture, and a string to capture                                   *)
(* Mutant: the length of the string outside is kept.                       *)
BeginCaptureKeepsLength ==
    /\ At({"node", "value"}) /\ Len(calls) < MaxCalls
    /\ captures' = Append(captures, [saved |-> limits.last, from |-> 0,
                                      owed |-> OpenCharges])
    /\ limits' = [limits EXCEPT !.last = IF @ < 0 THEN 0 ELSE @]
    /\ out' = Append(out, 0) /\ calls' = Push("capture", FALSE)
    /\ UNCHANGED <<exc, history>>
BeginCapture ==
    /\ At({"node", "value"}) /\ Len(calls) < MaxCalls
    /\ captures' = Append(captures, [saved |-> limits.last, from |-> 0,
                                      owed |-> OpenCharges])
    /\ limits' = [limits EXCEPT !.last = 0]
    /\ out' = Append(out, 0) /\ calls' = Push("capture", FALSE)
    /\ UNCHANGED <<exc, history>>

(* capture_ensure, when the block returns and when an exception passes      *)
(* Mutant: the length is only restored by the outermost.                    *)
EndCaptureUnrestored ==
    /\ calls # << >> /\ top.call = "capture"
    /\ captures' = Pop(captures)
    /\ limits' = [limits EXCEPT !.last = IF Len(captures) = 1 THEN -1 ELSE @]
    /\ settled' = settled + limits.last - innermost.from
    /\ older' = IF older < Len(captures) THEN older ELSE Len(captures) - 1
    /\ out' = Pop(out) /\ calls' = Below
    /\ UNCHANGED <<exc, handled>>
EndCapture ==
    /\ calls # << >> /\ top.call = "capture"
    /\ captures' = Pop(captures)
    /\ limits' = [limits EXCEPT !.last = innermost.saved]
    /\ settled' = settled + limits.last - innermost.from
    /\ older' = IF older < Len(captures) THEN older ELSE Len(captures) - 1
    /\ out' = Pop(out) /\ calls' = Below
    /\ UNCHANGED <<exc, handled>>

(* A string of its own, as in Liquid::Ifchanged, appended at the end or not *)
BeginPrivate ==
    /\ At({"node", "value"}) /\ Len(calls) < MaxCalls
    /\ out' = Append(out, 0) /\ UNCHANGED <<limits, captures, exc, history>>
    /\ calls' = Push("private", TRUE)

EndPrivate ==
    /\ calls # << >> /\ top.call = "private"
    /\ LET n == out[Len(out) - 1]
       IN \E m \in {0, written} :
            /\ m > 0 => exc = "none" /\ calls[Len(calls) - 1].call = "node"
            /\ n + m <= MaxLength
            /\ out' = Append(Pop(Pop(out)), n + m)
    /\ calls' = Below
    /\ UNCHANGED <<limits, captures, exc, history>>

(* Ruby code raises anything but a MemoryError.                             *)
Fail ==
    /\ At({"node", "value", "capture", "private"})
    /\ exc' = "error"
    /\ UNCHANGED <<limits, captures, out, calls, history>>

(* render_node lets a MemoryError pass, and what handle_error raises again  *)
Passes ==
    /\ exc # "none" /\ calls # << >> /\ top.call \in {"vm", "node"}
    /\ calls' = Below
    /\ UNCHANGED <<limits, captures, out, exc, history>>

Next ==
    \/ RenderTemplate \/ EndTemplate \/ ResetPartial \/ Rescue \/ Render \/ Leave
    \/ WriteRaw \/ Call \/ NodeReturns \/ NodeInterrupts \/ ValueReturns \/ ValueFails
    \/ NodeWrites \/ Assign \/ BeginCapture \/ EndCapture \/ BeginPrivate \/ EndPrivate
    \/ Fail \/ Passes

Spec == Init /\ [][Next]_vars

-----------------------------------------------------------------------------
(* The fields have their types, there is a string for every call that has   *)
(* one of its own, and a capture is charged exactly while one is open that  *)
(* has not been reset: the length comes back with the end of a              *)
(* with_capture, however it ends.                                          *)
TypeOK ==
    /\ limits \in [reached : BOOLEAN, last : Int, render : Nat, assign : Int]
    /\ captures \in Seq([saved : Int, from : Int, owed : Int])
    /\ out \in Seq(Nat)
    /\ calls \in Seq([call : Kinds, due : BOOLEAN, strings : Nat, depth : Nat])
    /\ calls # << >> => top.strings = Len(out) /\ top.depth = Len(captures)
    /\ exc \in {"none", "error", "memory"}
    /\ settled \in Int /\ handled \in BOOLEAN /\ older \in 0..Len(captures)
    /\ limits.last >= 0 <=> captures # << >> /\ innermost.from >= 0
    /\ limits.last >= -1

(* Where the VM stands after a write, the output is accounted for in full:  *)
(* what is being captured has been charged to the last byte, whatever other *)
(* strings were rendered to in between, and every other output is within    *)
(* the render length limit; so is the string of a capture in which a        *)
(* partial has reset the limits.  The exceptions are due: the message of a  *)
(* failed value, what a node wrote before an interrupt, and what Ruby code  *)
(* has in its string when it resets the limits or rescues an exception.     *)
Settled ==
    At({"vm", "capture", "template"}) /\ ~top.due =>
        IF limits.last >= 0 THEN limits.last = written
        ELSE written <= RenderLengthLimit

(* As long as a render goes on, it is within its scores: a MemoryError is   *)
(* raised by the step that exceeds one, and nothing goes on after it until  *)
(* Ruby code rescues it.  Only a reset makes up for that.                   *)
LimitsHold ==
    exc # "memory" /\ calls # << >> /\ ~handled =>
        /\ limits.render <= RenderScoreLimit
        /\ limits.assign <= AssignScoreLimit

(* Since the last reset, the assign score is what was assigned and captured *)
(* and what each open capture has been charged so far: no byte is charged   *)
(* for two captures, an inner capture does not disturb the account of an    *)
(* outer one, and one that a reset has stopped from counting goes on        *)
(* uncounted after every capture in it.                                    *)
Ledger ==
    /\ limits.assign = settled + OpenCharges
    /\ \A i \in 1..Len(captures) :
         IF i = 1 THEN captures[i].saved = -1 /\ captures[i].owed = 0
         ELSE LET outer == captures[i - 1]
              IN /\ captures[i].saved >= 0 <=> outer.from >= 0
                 /\ captures[i].owed = outer.owed + captures[i].saved - outer.from

(* Without what the open captures have been charged, the assign score is a  *)
(* bill: assignments and ends of captures add to it, a reset clears it, and *)
(* only a capture that is older than the reset can lower it.               *)
Bill == INSTANCE AssignBill WITH bill <- limits.assign - OpenCharges, depth <- Len(captures)
BillImplemented == Bill!Spec
=============================================================================
