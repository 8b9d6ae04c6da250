# A TLA+ model of liquid-c

liquid-c compiles Liquid templates to bytecode and runs it: a C extension (`ext/liquid_c`) that replaces the
block bodies, the variables and the expressions of the Ruby gem `liquid`, and calls back into that gem for tags,
filters and errors. This directory models the parts of it that keep state: the assembler of the bytecode, the
compilation of a body, the life of the bodies of a document, the virtual machine, the encoding of the instructions,
the tokenizer and the loops that share it, the accounts of the resource limits, and the search for variables. TLC
checks them on small instances; TLAPS proves their safety properties for all of them.

Paths are relative to `ext/liquid_c` unless they begin with `lib` or `test`.

## The system

There are no threads of its own and no messages. What makes the program hard is that C and Ruby call each other
at almost every step. Ruby code may call back in, raise, `throw`, rescue what an inner call raised and go on with
objects that were left in the middle of an operation. The C code answers with hand-kept ledgers: stack sizes,
capacities, indices, flags.

| component | state | operations | who calls it | what makes it right |
|---|---|---|---|---|
| assembler `vm_assembler.{h,c}` | instructions, constants and their table, `stack_size`, `max_stack_size`, `protected_stack_size`, `parsing` | `vm_assembler_add_*`, `concat`, `init`, `reset` | the parsers; Ruby through `BlockBody#add_*` | `max_stack_size` is enough, `stack_size` is the depth the VM will have, indices find their constants |
| body parser `block.c`, `variable.c`, `parser.c`, `lib/liquid/c/compile_ext.rb` | the body's assembler, the C stack, the sizes saved for the rescue | the parse loop, the recursive descent, strict parse, its rescue, lax parse | `parse` methods of tags | at any point, also after a rescue, the code compiled so far can be run |
| documents `block.c`, `document_body.{c,h}` | a buffer and an array of constants that all bodies of a document share; `blank`, `render_score` of a body | `new`, `parse`, `remove_blank_strings`, `freeze`, `render_to_output_buffer`, `nodelist` | tags, in the order they choose | a compiled body reads back what was compiled into it; nothing changes under a render |
| parse context and pool `parse_context.c`, `vm_assembler_pool.c`, `lib/liquid/c.rb` | `@document_body`, `@vm_assembler_pool`, the freelist | start, cleanup, alloc, recycle | `Document.parse` | an assembler has one owner, in whatever order bodies are frozen |
| virtual machine `liquid_vm.c` | one stack per context, `invoking_filter`; per invocation `ip` and the rescue state | the instructions, `liquid_vm_render`, `liquid_vm_evaluate`, their rescues | `render`, `Context#evaluate`, and any Ruby code the VM calls | no frame touches the stack of another; an error costs one variable; rendering ends |
| encoding `vm_assembler.{h,c}`, `liquid_vm.c`, `intutil.h` | bytes | writing, running, skipping, patching | all of the above | four pieces of code agree on every byte |
| tokenizer `tokenizer.c`, raw `raw.c` | cursor, trimming flag, line number, `raw_tag_body` | `tokenizer_next`, `Raw#c_parse` | the parse loop, block tags | tokens concatenate to the source; the body of a raw tag is handed over once |
| resource limits `resource_limits.c` | scores, `last_capture_length`, `reached_limit` | increments, `with_capture`, `reset` | the VM, `capture`, `assign`, every `Template#render` | what a capture counts is charged once, to it; the step that exceeds a limit raises |
| context, lookup `context.c`, `variable_lookup.c` | fields of the context cached when its VM is made | `find_variable`, lookup, evaluate, `strict_variables=` | the VM, the gem | what is undefined when it must be; the cache is not stale |
| lexer `lexer.c` | none | characters to tokens | the parser | pure |

How they interact: `Document.parse` starts a document; the parse loop of a body takes tokens, compiles texts and
variables itself, and calls the `parse` method of a tag, in Ruby, which makes, parses, trims and freezes other
bodies before it returns and becomes a node. `freeze` copies the assembler into the document and recycles it. A
render runs the instructions of a frozen body; nodes, filters, drops and conversions are Ruby code that may render
and evaluate again on the same stack.

## The modules

| module | models |
|---|---|
| `VMAssembler` | `vm_assembler_t` as a record and each function on it as an operator |
| `BlockCompile` (extends it) | the compilation of one body: one action per production of the parser, per token of the loop, per call of a lax parse |
| `LiquidVM` (extends `VMAssembler`) | the VM: one action per kind of instruction, per return of a call, per rescue |
| `DocumentCompile` | `Document.parse`, bodies, documents, pools: one action per operation |
| `Bytecode` | the bytes; pure operators for the writers and the decoders |
| `ResourceLimits` | the scores of a render: the limits as a record, one action per write, call, capture, reset, failure and rescue of the VM and of the tags and partials that it calls |
| `AssignBill` | the abstract account that `ResourceLimits` implements |
| `Tokenizer` | `tokenizer_next` on a source, its scans as recursive functions; the loops that shift tokens, `{% liquid %}` and `{% raw %}` as actions |
| `Context` | the VM of a context, the setters, and the search for a variable or a key with the Ruby code it calls: `key?` and `[]`, procs, default procs |
| `VMAssemblerProofs`, `BlockCompileProofs`, `LiquidVMProofs`, `DocumentProofs`, `BytecodeProofs`, `ResourceLimitsProofs`, `ContextProofs`, `TokenizerProofs` | proofs |
| `MC*` | instances for TLC |

`BlockCompile` and `LiquidVM` are joined by what code is: the constants `Templates`, `Expressions` and `Variables`
of the VM are records of `VMAssembler`, and the assumption `CodeAssumption` of the VM (`TraceSound`, `Finished`,
`NodesAlone`) is what `BlockCompile` checks as `CodeRuns` and `IdleIsFinished` of every body it leaves. For the
one-value code of expressions, `LiquidVM`'s assumption is the assertion `stack_size == 1` of `expression.c:57` and
`variable.c:171` together with the same invariants.

The other modules cut the same program along other lines. The C stack of `LiquidVM` comes back in `ResourceLimits`,
with lengths of strings in place of stack slots: a "value" there is everything between RENDER_VARIABLE_RESCUE and
POP_WRITE, a "node" a call by OP_WRITE_NODE. What `LiquidVM` calls a push of a found variable is a whole behaviour of
`Context`. What `BlockCompile` and `DocumentCompile` take as a choice, the next token, is computed in `Tokenizer`; in
turn `Tokenizer` knows of a tag only whether it is a block, raw, liquid or another tag.

### Abstractions

* **The source text is not there.** Which token comes next is a choice of the action, and a SyntaxError may be raised
  wherever the parser consumes a token. That includes every parse of a real template, and some that no text has.
* **Instructions** of `VMAssembler` are `[op, const, n]`; the five immediate pushes are one. Two history fields,
  `trace` and `meant`, record what the VM will have on its stack and which constant an instruction was compiled for.
  They are what the ledgers of the code are compared with, and no operator reads them to compute a field of the struct.
* **Values** of the VM are not represented, only their number. (The two ends of a range are converted by two calls, the
  first with the other end still on the stack.) `frames` is the C stack; a frame says which call it is suspended in. The
  rendered output is not represented.
* **Resource limits** may be exceeded, in `LiquidVM`, at any point where the code checks them. In `ResourceLimits`
  strings are lengths. Ruby code may call `Template#render` with the context it runs in, as the gem's tags do for a
  partial that is a template: that is a reset of the limits (`ResetPartial`), a render (`Render`) and a rescue (`Rescue`),
  in the middle of renders and captures that go on. After such a reset the scores begin at zero; the innermost
  capture is no longer counted (`last_capture_length` is -1) but held to the render length limit, and the one around it
  is again counted when it ends. After such a rescue the outer render goes on above the limit. Ruby code may rescue
  anything else too. `due` of a call is history: it is TRUE where output may stand that no write has charged, after
  the message of a failed value (`vm_render_rescue` writes it without a charge), after what a node wrote before an
  interrupt, and after a reset or a rescue in Ruby code. `from`, `owed`, `settled`, `handled` and `older` are history
  too: they repeat the account from the calls alone.
* **Tokens.** The word characters of `Tokenizer` are whole words. Line numbers are on. Ruby code is only there as the
  gem's tags: a tag that rescued a SyntaxError inside `{% liquid %}`, and went on with a tokenizer that is still in
  liquid mode, is left out, as is a tag of another kind that delegates to `Liquid::Raw`.
* **Places.** Scopes, environments and objects are one function, `store`. A proc, a default proc, and `key?` and `[]` of a
  place that is not a hash are calls, in which Ruby code may put values anywhere, remove them, look up, raise, or return;
  what `[]` returns is what the place holds by then. A lookup keeps as history which places have held its key all
  the time, and whether any has while it was left to look in. `strict_variables=` is not called from within a lookup.
* **Sharing.** `Key` stands for objects that are equal as `VALUE`s. A filter array is a new object each time
  (`vm_assembler.c:363`), which is the guard `Unused`.
* `DocumentCompile` keeps of the instructions what `block.c` tells apart. One `ParseContext` is used for one document
  after another; several of them share nothing.
* Ruby code may do whatever the API allows, with two exceptions that are constants of `LiquidVM` (`FiltersReenter`,
  `Escapes`): with them TRUE, some property fails (see Disagreements). One thing is left out altogether: freezing a body
  while its own `parse` is on the C stack, which the tags of the gem cannot do because the body is not theirs.

## The runs

Passing runs, and what they show (the type invariants of `LiquidVM`, `ResourceLimits` and `Context` are proved, and
not checked again):

| run | shows | bounds |
|---|---|---|
| `block_compile` | At every step of every parse, strict, undone by the rescue or lax, the code can be run (`CodeRuns`), `stack_size` is right (`StackSizeExact`), instructions find their constants (`ConstantsSound`), a body that is left by its parse ends with its only LEAVE (`IdleIsFinished`), and a variable leaves one value (`VariableLeavesOne`). | two constants, six instructions, three levels of recursion, two filter arguments: enough for a filter with a positional and a keyword argument on a lookup, undone and compiled again, beside another node. Seven instructions give no new situation of the ledgers, only longer bodies. |
| `vm` | Frames keep to their part of the stack, no pop goes below it and no push beyond what was reserved, and it is left as it was found (`StackKept`), an error costs one variable (`ErrorCostsOneVariable`, `SkipsOneVariable`), `invoking_filter` is not left set (`FilteringNotStale`). The ArgumentErrors of filters are translated (`FilterErrorsTranslated`) and no other (`OnlyFilterErrorsTranslated`), if filters do not call back into the VM (other Ruby code does), and every render ends (`Terminates`). | three nested invocations; one template with text, two variables, one of them with a hash and a filter, and a node; a range over a lookup; a variable expression. Three are the least for a frame that is neither the outermost nor the innermost. |
| `documents` | Assemblers have one owner (`AssemblersOwned`), compiled bodies read back what was compiled (`CompiledIntact`), a document does not change under a render (`RenderedDocumentsStay`), a blank body has nothing to lose (`BlankRendersNothing`), the render score covers the nodes (`ScoreCoversNodes`) through several parses, `{% liquid %}` loops and removals of blank strings, and what is rendered is complete if its parse has not failed (`RenderedIsComplete`). Any call may fail, a nested parse be refused, and a body be frozen after its parse has failed. | two bodies, two documents, two nodes together (both in one body or one in each; `TwoTogether` counts what is written and what is scored), three nested calls: bodies of one document and of two, recycled assemblers, a body frozen in a later document than the one it was made for, a node beside one that is removed or scored twice. |
| `bytecode` | Skipping visits the instructions and nothing else (`VisitsInstructions`), the VM reads what was meant (`DecodersAgree`), relocation and removal of blank strings change what they should (`UpdatesIndicesOnly`, `RemovesOnlyTexts`). | every program of two instructions with the operands at which an encoding changes; texts of 1, 255 and 256 bytes that are opcodes. A decoder's state is a position, so pairs show all there is. |
| `resource_limits` | Where the VM stands after a write, what a capture counts is charged to the last byte, and other output is within the render length limit (`Settled`). No render goes on beyond a limit, unless Ruby code has rescued the MemoryError since the last reset (`LimitsHold`). The assign score is what was assigned plus what the captures, ended and open, were charged, and every capture has its own account, counting or not, behind all that is nested in it (`Ledger`). It implements the abstract bill (`BillImplemented`). All this whatever fails, interrupts, resets or rescues. | eight nested calls: a capture in a private string in a capture, each with a VM between; strings of up to two bytes, writes of at most one; limits of 1 (length), 3 (renders) and 2 (assignments), which are reached and exceeded. `MaxScore` bounds the scores at which a MemoryError is rescued: at 4, it has been raised for either score, and an outer render goes on above the limit. |
| `tokenizer` | Tokens are what the source delimits (`TokensAsDelimited`), nothing is skipped or parsed twice (`SourceCovered`), line numbers (`LinesCounted`) and trims (`TrimsAsMarked`) are those of the source, a raw tag sees what the gem's regular expression does (`RawTokens`), its body is handed over once (`RawBodyTaken`), and parsing ends (`Forward`). | every string of `{ % } -` of up to six characters and of `{ % } t` of up to five; every inside of a liquid tag of five words, block tags among them, or four with other characters, before another tag; every inside of a raw tag of four fragments; every text of four tags, variables and characters. The scans compare at most three characters and keep no other state; that a delimiter is tried again needs a repetition of it. |
| `context` | The VM reads as strictly as the context says (`VMFollows`). A strict lookup raises only if no place held the key all the time, a TypeError just for keys that are not strings, and it does raise if none held it while it was left to look in (`UndefinedRaises`); what a lookup took from a place is what the place holds (`ReturnedIsStored`), while Ruby code puts, removes and looks up. | an environment with a default proc, and an object that is not a hash and is also the scope before it and the static environment after it, so that one lookup asks it twice with a default proc between. A string key and an Integer; nil and another value. `MCBounds`: only the object holds anything at the Integer, it holds no nil and no proc there, and settings are made between lookups. Two nested lookups, the least for one that is disturbed by another. |

A constant index is 16 bits (`IndexMod`); the guard `Room` of `BlockCompile` keeps the constants below it, because the
code does not check and a body with 65536 constants is out of the reach of the runs. `CapBits` bounds the stack of the
VM at 32 values, more than the instances use. Deadlock is checked of `tokenizer` and `context`; in the other runs a program that
calls no more is not stuck.

**Fairness** is used by `vm` only. The VM's own steps are weakly fair: they are C code that runs on. The return
of a call is strongly fair for each depth of the C stack: Ruby code that the VM calls may call the VM again any number
of times, raise and rescue, but it does not do so for ever; if it does not leave by an exception it returns. Without
this a filter with an endless loop would be the counterexample. Nothing is assumed of `Enter`, `Raise` or `Rescued`.

That parsing ends is stated without fairness, by `Forward`: each step of `Tokenizer` moves the cursor, or takes one of
a number of pending returns (`Pending`), and the run checks that there is no deadlock before the parse is over. TLC
would have to evaluate ENABLED of recursive scans for the liveness formula.

### Disagreements

These runs check one property each that a comment, an assertion or a test states, and TLC finds it violated.

* `document_nodelist`: `nodelist` (block.c:442) and `disassemble` (block.c:470) index the document's constants without
  the body's `constants_offset`, which rendering adds. From the second frozen body on, they show tags of other bodies,
  although `test/unit/block_test.rb:75-87` takes the tag from `nodelist[2]`.
* `bytecode_command`: `is_command = ip[-3] == OP_LOOKUP_COMMAND` (liquid_vm.c:305) reads operands of the previous
  instruction when the instruction is a plain OP_LOOKUP_KEY, which `lib/liquid/c/compile_ext.rb:28-33` writes for what
  is no command. After a pushed integer of 3840 to 4095 it is TRUE. A hash or an array finds the key by `[]` all the
  same (variable_lookup.c:16-23), but `obj[3840]` on nil, a string or an integer is a TypeError
  (variable_lookup.c:26) where any other index is nil.
* `context_settings`: the settings of a context are read once, when its VM is made by the first lookup or render
  (context.c:27-41), and only `strict_variables=` is replaced (context.c:187-193), which makes the VM. `strict_filters=`,
  `global_filter=` and `add_filters` after that are without effect, although line 21 of the repository's `README.md`
  says to "just use the documented API for the liquid Gem".
* `vm_reenter`: `invoking_filter` is one flag, and filters nest. A filter that evaluates another filter and then raises
  ArgumentError is reported as an internal error, against the comment of `lib/liquid/c.rb:198-199`.
* `vm_escape`: `throw`, and exceptions outside StandardError, pass `rb_rescue`; what was pushed stays on the stack, and
  the assertion of liquid_vm.c:607 fails for the frame around.

Others were met and have no run of their own:

* A nested `Document.parse` with the same ParseContext is refused, but its `ensure` (lib/liquid/c.rb:121-126) cleans up
  the parse around it (`RefuseDocument`). The next freeze of one of its bodies fails the assertion of parse_context.c:19.
* A value that Ruby code puts while the proc in its place is being called is overwritten by what the proc returns
  (`ReturnedIsStored` holds because of it).
* A raw tag whose last token is an unfinished variable, `{{ {% endraw -%}`, ends there, but the dash does not trim the text
  behind: only tokens of tags and of variables set `lstrip_flag` (the exception in `TrimsAsMarked`).
* `reached?` is TRUE from the first reset on (resource_limits.c:25), before anything is reached.
* `freeze` (block.c:314) does not look at `code->parsing`, so that a body whose parse has failed can be rendered without
  a LEAVE; vm_assembler.h:50 says the flag is to "prevent executing when incomplete". `RenderedIsComplete` without its
  hypothesis is violated.
* A partial that resets the limits takes the capture around it out of the account, and a partial that rescues a
  MemoryError lets the outer render go on above the limit (see Abstractions).
* `add_hash_new(0)` may leave `max_stack_size` one short of the assertion of liquid_vm.c:140. The `compile_evaluate` of
  the gem does not call it so. `block_compile` with `HashSizes = {0}` violates `CodeRuns`.

## The proofs

`LiquidVMProofs` proves, for every set of codes that satisfies `CodeAssumption`, every bound and every nesting:

* `StackSafety`: if `~Escapes`, then `Spec => [](TypeOK /\ StackKept /\ ErrorCostsOneVariable /\ FilteringNotStale)`,
  where `StackKept` is `FramesStacked /\ NoOverflow /\ NoUnderflow /\ StackRestored`;
* `RescueSkipsOneVariable`: if `~Escapes`, then `Spec => SkipsOneVariable`;
* `FilterErrorsReported`, `OtherErrorsKept`: if `~Escapes` and `~FiltersReenter`, then
  `Spec => []FilterErrorsTranslated` and `Spec => OnlyFilterErrorsTranslated`.

(`OneVariableLost` and `FilteringCurrent` are parts of `StackSafety`.) None of these is inductive. `NoOverflow` speaks of the innermost frame that executes; to be kept when that frame
leaves, each suspended frame must still have its room: its `base` plus the `max` of its code is at most `cap`.
`FramesStacked` must hold of frames in any state of their call. While an exception passes, only `size >= base` is
known of the innermost frame, and for the rescue to find an OP_POP_WRITE the frame with `rescue # 0` must be between a
RENDER_VARIABLE_RESCUE and its OP_POP_WRITE. `StackInv` is the conjunction of these; each action has a step, and under
it one for each part it can disturb. That the scan finds an OP_POP_WRITE at all rests on a lemma about finished code:
a variable that is open at an instruction is closed before the LEAVE, which is found as the least of a set of positions
(`WFMin` of the library instead of an induction). `~Escapes` is needed: `vm_escape` shows that the theorem fails
without it.

For the errors of filters, `FilterInv` says that only the innermost frame can be in a filter (`NoneBelow`), that
`invoking_filter` is set just when it is, and that an exception on its way is marked as a filter's own just when it was
raised there (`Marked`). A filter that used its context would put a frame above the one that waits for it; `vm_reenter`
shows the property failing then.

`BlockCompileProofs` proves, for any constants and nesting, and any failures and rescues, if `0 \notin HashSizes`:

* `CompiledCodeRuns`, `StackSizesExact`, `ConstantsStaySound`, `VariablesLeaveOne`, `IdleBodiesFinished` and
  `CompileTypes`: `Spec => []P` for the invariants that `block_compile` checks;
* `BodiesAreTemplates`: a body that its parse has left is code as `CodeAssumption` wants the templates of the VM, so
  that the proofs of `LiquidVM` are about what the parser compiles. (Its second part, about the code of expressions,
  rests on the assertions of `expression.c:57` and `variable.c:171`.)

The hypothesis excludes `add_hash_new(0)`, which the gem's `compile_evaluate` does not call (see Disagreements). The proof
rests on lemmas of `VMAssemblerProofs`: `Sound` is the conjunction of `CodeType`, `TraceSound`, `TableSound`,
`ConstantsResolve` and `LedgerSound`; each `add_*` and `Concat` keeps it. What the ledger says of the descent is the
heart of `IInv`: the activations that wait are a chain (`Chain`), each to be resumed at the depth at which the ones
above it will leave the stack, so that the innermost one finds `cur.stack` to be its own `at` and the outermost leaves
one value. The rescue needs `Opened`: what was saved is the code up to the RENDER_VARIABLE_RESCUE of the open variable,
and the constants that the undo drops are used by nothing before it. That the constants fit their 16 bits is the guard
`Room`.

`DocumentProofs` proves, for any number of bodies, documents and nodes and any nesting of calls:

* `BodiesKept`, `OwnersApart`, `BlankIsEmpty`: `Spec => [](AssemblersOwned /\ CompiledIntact /\ BlankRendersNothing)`;
* `NodesCharged`: `Spec => []ScoreCoversNodes`;
* `BodyTypes`: `Spec => []TypeOK`;
* `RenderedStay`: `Spec => RenderedDocumentsStay`;
* `RenderedComplete`: `Spec => []RenderedIsComplete`.

The strengthening (`IInv`) has three parts. What is in an assembler is `Sound`: a node has its
constant, and code that is not being parsed ends with a LEAVE. Where a compiled body is found in its document is
`Reads`: its header, its instructions and its constants lie within the lengths that the document had then, so that a
document that only grows (`Grown`) keeps it (`ReadsGrown`). And the C stack has a `Shape`: a body is in at most one call
of `parse`, a {% liquid %} loop lies directly on the call it belongs to, and the bodies of all calls are open with
`parsing` set (`CallsOK`), which is why none of them can be trimmed, frozen or parsed again in between. The actions that
write into the code of one body are instances of one lemma (`EditKeeps`).

That scores cover nodes needs a second invariant (`ScoresOK`), because a parse adds to the score of its body when it
ends, and not before. What is missing at a moment is what the calls on the C stack have counted, over all the calls of
one body (a tag may parse it again in a {% liquid %} loop). The sum is not written as a recursive operator: it is a
function on the prefixes of `calls`, which the invariant says to exist, each of its values the one before plus what
that call will add (`Counts`), so that a step of the innermost call moves only the last value, and a new call appends
one. `BodyTypes` needs of the headers in documents that they lie in range (`RangesOK`).

`BytecodeProofs` proves, for programs of any length and all operands within the widths of the instructions:

* `DecodingRight`, `SkippingRight`, `RelocationRight`, `RemovalRight`: `Spec => []P` for the invariants that `bytecode`
  checks.

`IInv` lays the program out over the bytes (`LaidOut`): instruction follows instruction without a gap, and each reads
back as it was meant (`Right`). Each `add_*` is shown to encode one instruction (`Encoded`), by the arithmetic of
bytes; an instruction reads the same wherever its bytes are moved (`Elsewhere`), so that appending one disturbs none
(`Extend`). `Visited` is a recursive function; that it exists, and that it is the set of the starts of instructions on
code that is laid out so, are inductions on the distance from the end (`VisitedExists`, `VisitedAre`). Both patches
then write within one instruction, since no two overlap (`NoOverlap`).

`ResourceLimitsProofs` proves, for all limits, all sizes and any nesting, with resets and rescues wherever Ruby code runs:

* `WritesSettled`: `Spec => []Settled`;
* `NothingBeyondLimits`: `Spec => []LimitsHold`;
* `AccountsRight`: `Spec => [](TypeOK /\ Ledger)`;
* `BillRefined`: `Spec => BillImplemented`, the refinement of `AssignBill`.

`Settled` speaks of the innermost call. It needs no memory of the others, because the VM writes where it goes on after
Ruby code, and that write charges or checks the whole of the string that is innermost by then; it does need that the
strings and captures are those that the calls on the C stack have found (`Chain`), so that what a call leaves behind
is what the call below had. `Ledger` is two sums: what open captures have been charged moves into the account when
they end, and a reset takes both to zero. For the bill only to rise at the end of a capture, the captures that are open
since before the reset must be told from those begun since, which are charged from the start (`Fresh`).

`ContextProofs` proves, for all places, keys, values, settings and depths:

* `ContextFollowed`: `Spec => [](TypeOK /\ VMFollows)`;
* `UndefinedReported`: `Spec => []UndefinedRaises`;
* `LookupsRight`: `Spec => []ReturnedIsStored`.

Strictness is the same for the whole of a lookup, which the invariant needs of each one that waits. It says of a strict one
(`Known`) that the places which have held its key all the time do, and are left to look in; that if none has held it,
none of those that are left does; and that it asks for a value, by `[]` or of a proc, only if one has. A step of Ruby
code under it changes what places hold and its history together (`Noted`), also when a lookup deeper on the stack stores
what a proc has returned.

`TokenizerProofs` proves, for every set of sources, of any length:

* `Types`, `Delimits`, `Covers`, `CountsLines`, `Trims`, `MatchesAsGem`, `TakesRawBody`: `Spec => []P` for each invariant
  that `tokenizer` checks;
* `Advances`: `Spec => Forward`.

The scans are recursive functions. That such a function exists, and therefore obeys its rule, is shown once for
functions that are defined from later values (`Recursion`, `Jumps`); what a scan finds is then shown from the last
character down (`Descending`): `ScanTag` misses no `%}` although it steps over runs of percents (`TagFacts`), and what the
scan of raw.c has collected at a character is the word that follows there, behind blanks at most (`BackFacts`). That the
scan from the end stops at the last start of a tag with a name is `MatchIs`: the place where the scan stops grows
strictly with the start of the tag, since `{` is no percent. The inductive invariant says of the tokenizers that
`{% liquid %}` tags have saved that each is as sane as the current one (`Sane`: its line number counts its newlines, its
flag is that of the last delimiter), and that each goes on behind all that is nested in it (`LiquidsOK`); that is why the
restored tokenizer never goes back. And the inside of a `{% liquid %}` tag has no `%}` left, so that a raw tag in it never
finds its end (`NoRawEndInLiquid`): a raw body is only ever left to a loop of a template.

Model-checked only: liveness (`Terminates`), which the prover has no means for. Induction is used for sets of numbers,
in the form of the least element that a well-founded relation gives (`LeastElement`, `LeastNatural`); the induction
theorems of the library take an operator and cannot be instantiated by the provers. So what a recursive function yields
is proved from its rule, never by an induction over data.

## Plan

1. Core, in this order: `VMAssembler`, `BlockCompile`, `LiquidVM`, `DocumentCompile`, `Bytecode` (done).
2. `ResourceLimits` and the bill that it implements (done).
3. `Tokenizer` with `Raw` (done).
4. `Context`: the order of the search, strict variables and the fields cached when the VM is made (done).
5. Expression objects with their code in `BlockCompile`, to show what a second concat of one of them does.
6. An abstract VM, a stack of invocations that each return or fail as a whole, implemented by `LiquidVM`.
7. Proofs of the safety properties of all modules (done).

## Not modelled

The lexer, a pure function from characters to tokens that keeps nothing; marking and freeing for the garbage
collector, which depends on the interpreter; `disassemble`, which prints, and on a body that is not frozen reads the
other member of a union; `usage.c` and the initialisation of the extension; the Ruby parser that takes over when
liquid-c is disabled; the rendered text and with it the partial output of an array whose items raise
(`liquid_vm.c:117-130`); an index of more than 16 bits (`vm_assembler.h:96`), which takes 65537 constants; an
`Expression` that is concatenated twice, whose indices `concat` relocates in place. Of lookups: the commands `size`,
`first` and `last` and `to_liquid` (in `LiquidVM` they are calls that return or raise), and `strict_variables=` from
within a lookup. Of the limits: their setters.
