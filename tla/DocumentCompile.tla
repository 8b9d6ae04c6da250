-------------------------- MODULE DocumentCompile --------------------------
(***************************************************************************)
(* The life of the block bodies of a document (block.c, document_body.c,   *)
(* vm_assembler_pool.c, parse_context.c, and Document.parse as patched in  *)
(* lib/liquid/c.rb).  The parse methods of tags, in Ruby, create, parse,   *)
(* trim and freeze bodies in the middle of the parse of others; the bodies  *)
(* of a document share one buffer and one array of constants, and their    *)
(* assemblers come from one pool.  All of it hangs on two instance         *)
(* variables of the ParseContext, which may be used for one document after *)
(* another.                                                                *)
(*                                                                         *)
(* What the instructions are is abstracted to what block.c tells apart; how *)
(* those of a variable are compiled is in BlockCompile.                    *)
(***************************************************************************)
EXTENDS Integers, Sequences, FiniteSets

CONSTANTS
    Bodies,   \* Liquid::C::BlockBody objects
    MaxDocs,  \* bound on the documents parsed with the ParseContext
    MaxNodes, \* bound on the nodes of each body
    MaxCalls  \* bound on the nesting of calls to parse

ASSUME LifeAssumption ==
    MaxDocs \in Nat /\ MaxNodes \in [Bodies -> Nat] /\ MaxCalls \in Nat

VARIABLES
    document,  \* @document_body of the ParseContext: an index of docs, 0 if nil
    pool,      \* its @vm_assembler_pool: an index of freelists, 0 if nil
    docs,      \* Liquid::C::DocumentBody objects
    freelists, \* the freelist of each Liquid::C::VMAssemblerPool
    asms,      \* the vm_assembler_t of each vm_assembler_element_t
    body,      \* block_body_t of each BlockBody
    calls,     \* the C stack of Document.parse, BlockBody#parse and the
               \* parse loops of {% liquid %} tags
    rendering  \* bodies that liquid_vm_render is running

vars == <<document, pool, docs, freelists, asms, body, calls, rendering>>

-----------------------------------------------------------------------------
Last(s) == s[Len(s)]
Front(s) == SubSeq(s, 1, Len(s) - 1)

(* Instructions.  "text" and "space" are OP_WRITE_RAW of a text that is not *)
(* or is blank, "jump" the OP_JUMP_FWD that remove_blank_strings makes of   *)
(* it, "var" the instructions of one variable.                             *)
Instr(op, const) == [op |-> op, const |-> const]
NodeOps == {"text", "space", "var", "node"}

Reset == [ins |-> << >>, consts |-> << >>, parsing |-> TRUE]
(* Mutant: the LEAVE is not written.                                       *)
AddLeaveFlagOnly(code) == [code EXCEPT !.parsing = FALSE]
AddLeave(code) ==
    [code EXCEPT !.ins = Append(code.ins, Instr("leave", 0)), !.parsing = FALSE]
RemoveLeave(code) == [code EXCEPT !.ins = Front(code.ins), !.parsing = TRUE]
AddNode(code, node) ==
    [code EXCEPT !.ins = Append(code.ins, Instr("node", Len(code.consts))),
                 !.consts = Append(code.consts, node)]

Unborn == [phase |-> "none", blank |-> TRUE, score |-> 0, pool |-> 0, code |-> 0,
           doc |-> 0, offset |-> 0, meant |-> Reset]

Init ==
    /\ document = 0 /\ pool = 0
    /\ docs = << >> /\ freelists = << >> /\ asms = << >>
    /\ body = [b \in Bodies |-> Unborn]
    /\ calls = << >> /\ rendering = {}

CodeOf(b) == asms[body[b].code]
Open(b) == body[b].phase = "open"
Compiled(b) == body[b].phase = "compiled"
Suspended(b) == \E i \in 1..Len(calls) : calls[i].body = b

-----------------------------------------------------------------------------
(* Liquid::C::DocumentClassPatch#parse                                     *)

(* start_liquid_c_parsing *)
StartDocument ==
    /\ document = 0 /\ Len(docs) < MaxDocs /\ Len(calls) < MaxCalls
    /\ docs' = Append(docs, [frozen |-> FALSE, buffer |-> << >>, constants |-> << >>])
    /\ document' = Len(docs')
    /\ freelists' = Append(freelists, << >>) /\ pool' = Len(freelists')
    /\ calls' = Append(calls, [call |-> "document", body |-> 0, score |-> 0])
    /\ UNCHANGED <<asms, body, rendering>>

(* cleanup_liquid_c_parsing (rb_obj_freeze(nil) has no effect) *)
Cleanup ==
    /\ docs' = IF document = 0 THEN docs ELSE [docs EXCEPT ![document].frozen = TRUE]
    /\ document' = 0 /\ pool' = 0

(* start_liquid_c_parsing raises when there is a document body, inside the *)
(* begin block, whose ensure clause cleans up: the document of the parse     *)
(* around it is gone.                                                       *)
RefuseDocument ==
    /\ document # 0
    /\ Cleanup
    /\ UNCHANGED <<freelists, asms, body, calls, rendering>>

(* Document.parse returns or lets an exception pass.                       *)
EndDocument ==
    /\ calls # << >> /\ Last(calls).call = "document"
    /\ Cleanup
    /\ calls' = Front(calls)
    /\ UNCHANGED <<freelists, asms, body, rendering>>

-----------------------------------------------------------------------------
(* Mutant: the assembler stays in the freelist.                            *)
NewBodySharing(b) ==
    /\ body[b].phase = "none" /\ pool # 0
    /\ LET free == freelists[pool]
           a == IF free # << >> THEN Head(free) ELSE Len(asms) + 1
       IN /\ asms' = IF free # << >> THEN [asms EXCEPT ![a] = AddLeave(asms[a])]
                                     ELSE Append(asms, AddLeave(Reset))
          /\ body' = [body EXCEPT ![b] = [Unborn EXCEPT !.phase = "open", !.pool = pool,
                                                        !.code = a]]
    /\ UNCHANGED <<document, pool, docs, freelists, calls, rendering>>

(* BlockBody.new: vm_assembler_pool_alloc_assembler, vm_assembler_add_leave *)
NewBody(b) ==
    /\ body[b].phase = "none" /\ pool # 0
    /\ LET free == freelists[pool]
           recycled == free # << >>
           a == IF recycled THEN Head(free) ELSE Len(asms) + 1
       IN /\ freelists' = IF recycled THEN [freelists EXCEPT ![pool] = Tail(free)]
                                      ELSE freelists
          /\ asms' = IF recycled THEN [asms EXCEPT ![a] = AddLeave(asms[a])]
                                 ELSE Append(asms, AddLeave(Reset))
          /\ body' = [body EXCEPT ![b] = [Unborn EXCEPT !.phase = "open", !.pool = pool,
                                                        !.code = a]]
    /\ UNCHANGED <<document, pool, docs, calls, rendering>>

(* block_body_parse, up to internal_block_body_parse                       *)
BeginParse(b) ==
    /\ Open(b) /\ ~CodeOf(b).parsing /\ Len(calls) < MaxCalls
    /\ asms' = [asms EXCEPT ![body[b].code] = RemoveLeave(CodeOf(b))]
    /\ calls' = Append(calls, [call |-> "body", body |-> b, score |-> 0])
    /\ UNCHANGED <<document, pool, docs, freelists, body, rendering>>

(* The body whose parse loop is the innermost call goes on with code c.    *)
Parsing(b) == calls # << >> /\ Last(calls).call \in {"body", "liquid"} /\ Last(calls).body = b

Emit(b, c, blank) ==
    /\ Len(c.ins) <= MaxNodes[b] /\ body[b].score + Last(calls).score < MaxNodes[b]
    /\ asms' = [asms EXCEPT ![body[b].code] = c]
    /\ body' = [body EXCEPT ![b].blank = body[b].blank /\ blank]
    /\ calls' = [calls EXCEPT ![Len(calls)].score = Last(calls).score + 1]
    /\ UNCHANGED <<document, pool, docs, freelists, rendering>>

AddInstr(b, op) == [CodeOf(b) EXCEPT !.ins = Append(CodeOf(b).ins, Instr(op, 0))]

RawToken(b) == Parsing(b) /\ \E op \in {"text", "space"} :
    Emit(b, AddInstr(b, op), op = "space")

(* Mutant: a variable does not clear blank.                                *)
BlankVariableToken(b) == Parsing(b) /\ Emit(b, AddInstr(b, "var"), TRUE)
VariableToken(b) == Parsing(b) /\ Emit(b, AddInstr(b, "var"), FALSE)

(* The tag's parse has returned: between two steps of this loop it has run  *)
(* any of the actions of this module.                                      *)
TagToken(b) == Parsing(b) /\ \E blank \in BOOLEAN :
    Emit(b, AddNode(CodeOf(b), <<b, Len(CodeOf(b).ins)>>), blank)

(* {% raw %}: its body is written instead of a node; an empty one is not    *)
(* written at all, but counts.  Liquid::Raw is blank when it is empty.     *)
RawTag(b) == Parsing(b) /\
    \/ Emit(b, CodeOf(b), TRUE)
    \/ \E op \in {"text", "space"} : Emit(b, AddInstr(b, op), FALSE)

(* {% liquid %}: internal_block_body_parse calls itself; what it has        *)
(* counted is added to the body's score when it returns.                   *)
LiquidTag(b) ==
    /\ Parsing(b) /\ Len(calls) < MaxCalls
    /\ calls' = Append(calls, [call |-> "liquid", body |-> b, score |-> 0])
    /\ UNCHANGED <<document, pool, docs, freelists, asms, body, rendering>>

LoopReturns(b) ==
    /\ body' = [body EXCEPT ![b].score = body[b].score + Last(calls).score]
    /\ calls' = Front(calls)

EndLiquidTag(b) ==
    /\ Parsing(b) /\ Last(calls).call = "liquid"
    /\ LoopReturns(b)
    /\ UNCHANGED <<document, pool, docs, freelists, asms, rendering>>

EndParse(b) ==
    /\ Parsing(b) /\ Last(calls).call = "body"
    /\ LoopReturns(b)
    /\ asms' = [asms EXCEPT ![body[b].code] = AddLeave(CodeOf(b))]
    /\ UNCHANGED <<document, pool, docs, freelists, rendering>>

(* The call of BlockBody#parse is left, with its {% liquid %} loops.       *)
ParseCall == CHOOSE i \in 1..Len(calls) :
    calls[i].call = "body" /\ \A j \in i + 1..Len(calls) : calls[j].call = "liquid"
Unwind == calls' = SubSeq(calls, 1, ParseCall - 1)

(* An exception leaves the parse loop; the Ruby code that called parse may  *)
(* rescue it, or this happens to the next call too.                        *)
ParseRaises(b) ==
    /\ Parsing(b)
    /\ Unwind
    /\ UNCHANGED <<document, pool, docs, freelists, asms, body, rendering>>

(* Mutant: what has been removed already is counted again.                 *)
RemoveBlankStringsAgain(b) ==
    /\ Open(b) /\ ~CodeOf(b).parsing /\ body[b].blank
    /\ LET Blank(i) == i.op \in {"text", "space", "jump"}
           ins == CodeOf(b).ins
       IN /\ asms' = [asms EXCEPT ![body[b].code].ins =
                        [j \in 1..Len(ins) |-> IF Blank(ins[j]) THEN Instr("jump", 0) ELSE ins[j]]]
          /\ body' = [body EXCEPT ![b].score =
                        body[b].score - Len(SelectSeq(ins, LAMBDA i : Blank(i)))]
    /\ UNCHANGED <<document, pool, docs, freelists, calls, rendering>>

(* block_body_remove_blank_strings                                         *)
RemoveBlankStrings(b) ==
    /\ Open(b) /\ ~CodeOf(b).parsing /\ body[b].blank
    /\ LET Removed(i) == IF i.op \in {"text", "space"} THEN Instr("jump", 0) ELSE i
           removed == {j \in 1..Len(CodeOf(b).ins) : CodeOf(b).ins[j].op \in {"text", "space"}}
       IN /\ asms' = [asms EXCEPT ![body[b].code].ins =
                        [j \in 1..Len(CodeOf(b).ins) |-> Removed(CodeOf(b).ins[j])]]
          /\ body' = [body EXCEPT ![b].score = body[b].score - Cardinality(removed)]
    /\ UNCHANGED <<document, pool, docs, freelists, calls, rendering>>

-----------------------------------------------------------------------------
(* block_body_freeze                                                       *)

(* Mutant: every body has its constants at the start.                      *)
HeaderWithoutOffset(b, d) ==
    [op |-> "header", instructions |-> Len(CodeOf(b).ins), constants_offset |-> 0,
     constants_len |-> Len(CodeOf(b).consts), blank |-> body[b].blank, score |-> body[b].score]
Header(b, d) ==
    [op |-> "header", instructions |-> Len(CodeOf(b).ins),
     constants_offset |-> Len(docs[d].constants), constants_len |-> Len(CodeOf(b).consts),
     blank |-> body[b].blank, score |-> body[b].score]

(* document_body_write_block_body *)
WriteBlockBody(b, d) ==
    [docs EXCEPT ![d].buffer = docs[d].buffer \o <<Header(b, d)>> \o CodeOf(b).ins,
                 ![d].constants = docs[d].constants \o CodeOf(b).consts]

(* Ruby code that holds b may freeze it, also if its parse has failed: not   *)
(* while it waits for its parse.                                            *)
Freeze(b) ==
    /\ Open(b) /\ ~Suspended(b)
    /\ document # 0 /\ ~docs[document].frozen
    /\ docs' = WriteBlockBody(b, document)
    /\ body' = [body EXCEPT ![b] = [Unborn EXCEPT !.phase = "compiled", !.doc = document,
                                                  !.offset = Len(docs[document].buffer),
                                                  !.meant = CodeOf(b)]]
    /\ freelists' = [freelists EXCEPT ![body[b].pool] = <<body[b].code>> \o freelists[body[b].pool]]
    /\ asms' = [asms EXCEPT ![body[b].code] = Reset]
    /\ UNCHANGED <<document, pool, calls, rendering>>

(* Mutant: ensure_body_compiled is enough, the document may still grow.    *)
BeginRenderUnfrozen(b) ==
    /\ Compiled(b) /\ b \notin rendering
    /\ rendering' = rendering \cup {b}
    /\ UNCHANGED <<document, pool, docs, freelists, asms, body, calls>>

(* block_body_render_to_output_buffer, around liquid_vm_render             *)
BeginRender(b) ==
    /\ Compiled(b) /\ b \notin rendering
    /\ docs[body[b].doc].frozen
    /\ rendering' = rendering \cup {b}
    /\ UNCHANGED <<document, pool, docs, freelists, asms, body, calls>>

EndRender(b) ==
    /\ b \in rendering
    /\ rendering' = rendering \ {b}
    /\ UNCHANGED <<document, pool, docs, freelists, asms, body, calls>>

Next ==
    \/ StartDocument \/ RefuseDocument \/ EndDocument
    \/ \E b \in Bodies :
         \/ NewBody(b) \/ BeginParse(b) \/ EndParse(b) \/ ParseRaises(b)
         \/ RawToken(b) \/ VariableToken(b) \/ TagToken(b) \/ RawTag(b)
         \/ LiquidTag(b) \/ EndLiquidTag(b)
         \/ RemoveBlankStrings(b) \/ Freeze(b) \/ BeginRender(b) \/ EndRender(b)

Spec == Init /\ [][Next]_vars

-----------------------------------------------------------------------------
(* What is read back from the document                                     *)

(* document_body_get_block_body_header_ptr, block_body_instructions_ptr    *)
HeaderOf(b) == docs[body[b].doc].buffer[body[b].offset + 1]
InstructionsOf(b) ==
    SubSeq(docs[body[b].doc].buffer, body[b].offset + 2,
           body[b].offset + 1 + HeaderOf(b).instructions)

(* document_body_get_constants_ptr, for liquid_vm_render                   *)
ConstantFor(b, i) == docs[body[b].doc].constants[HeaderOf(b).constants_offset + i.const + 1]

(* block_body_nodelist and _disassemble take &entry->body->constants       *)
NodelistConstant(b, i) == docs[body[b].doc].constants[i.const + 1]

NodesOf(s) == SelectSeq(s, LAMBDA i : i.op = "node")
Executed(s) == Cardinality({j \in 1..Len(s) : s[j].op \in NodeOps})

-----------------------------------------------------------------------------
CodeRecord == [ins : Seq([op : NodeOps \cup {"jump", "leave"}, const : Nat]),
               consts : Seq(Bodies \X Nat), parsing : BOOLEAN]

(* Scores stay natural numbers, indices stay in their arrays.              *)
TypeOK ==
    /\ document \in 0..Len(docs) /\ pool \in 0..Len(freelists)
    /\ \A d \in 1..Len(docs) : docs[d].frozen \in BOOLEAN
    /\ \A p \in 1..Len(freelists) : freelists[p] \in Seq(1..Len(asms))
    /\ asms \in Seq(CodeRecord)
    /\ body \in [Bodies -> [phase : {"none", "open", "compiled"}, blank : BOOLEAN,
                            score : Nat, pool : 0..Len(freelists), code : 0..Len(asms),
                            doc : 0..Len(docs), offset : Nat, meant : CodeRecord]]
    /\ calls \in Seq([call : {"document", "body", "liquid"}, body : Bodies \cup {0}, score : Nat])
    /\ rendering \subseteq Bodies

(* An assembler belongs to one body or waits in one freelist, there empty:  *)
(* no body ever writes into the code of another, whatever fails and in     *)
(* whatever order the bodies of one or two documents are frozen.           *)
AssemblersOwned ==
    /\ \A b, c \in Bodies : Open(b) /\ Open(c) /\ b # c => body[b].code # body[c].code
    /\ \A p \in 1..Len(freelists) : \A i \in 1..Len(freelists[p]) :
         LET a == freelists[p][i]
         IN /\ asms[a] = Reset
            /\ \A b \in Bodies : Open(b) => body[b].code # a
            /\ \A q \in 1..Len(freelists) : \A j \in 1..Len(freelists[q]) :
                 freelists[q][j] = a => p = q /\ i = j

(* However much is written to the document after it, a compiled body reads  *)
(* its own instructions, and with them its own constants.                  *)
CompiledIntact == \A b \in Bodies : Compiled(b) =>
    /\ InstructionsOf(b) = body[b].meant.ins
    /\ \A j \in 1..Len(InstructionsOf(b)) : InstructionsOf(b)[j].op = "node" =>
         ConstantFor(b, InstructionsOf(b)[j])
           = body[b].meant.consts[InstructionsOf(b)[j].const + 1]

(* The VM holds pointers into the document while tags run Ruby code: what   *)
(* they point to does not change, even if that code parses with the same   *)
(* ParseContext.                                                           *)
RenderedDocumentsStay ==
    [][\A b \in rendering : docs'[body[b].doc] = docs[body[b].doc]]_vars

(* A body that is blank? renders nothing but whitespace and blank tags, so  *)
(* that remove_blank_strings, which goes by it, takes no text away.        *)
BlankRendersNothing ==
    /\ \A b \in Bodies : Open(b) /\ body[b].blank =>
         \A j \in 1..Len(CodeOf(b).ins) : CodeOf(b).ins[j].op \notin {"text", "var"}
    /\ \A b \in Bodies : Compiled(b) /\ HeaderOf(b).blank =>
         \A j \in 1..Len(InstructionsOf(b)) : InstructionsOf(b)[j].op \notin {"text", "var"}

(* The render score charges at least every node that will be executed: the  *)
(* increments of one parse and the decrements of remove_blank_strings,      *)
(* called in any order and more than once, do not lose any.                *)
ScoreCoversNodes ==
    /\ \A b \in Bodies : Open(b) /\ ~CodeOf(b).parsing =>
         body[b].score >= Executed(CodeOf(b).ins)
    /\ \A b \in Bodies : Compiled(b) /\ ~body[b].meant.parsing =>
         HeaderOf(b).score >= Executed(InstructionsOf(b))

(* "prevent executing when incomplete" (vm_assembler.h): what can be rendered *)
(* ends with OP_LEAVE, if it is not what is left of a parse that failed, and *)
(* was frozen all the same.                                                  *)
RenderedIsComplete == \A b \in rendering : ~body[b].meant.parsing =>
    LET ins == InstructionsOf(b) IN ins # << >> /\ Last(ins).op = "leave"

(* The nodelist of a body holds the tags that were compiled into it.       *)
NodelistHoldsTags == \A b \in Bodies : Compiled(b) =>
    LET nodes == NodesOf(InstructionsOf(b))
    IN \A j \in 1..Len(nodes) : NodelistConstant(b, nodes[j]) = ConstantFor(b, nodes[j])
=============================================================================
