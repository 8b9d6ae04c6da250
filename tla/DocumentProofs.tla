--------------------------- MODULE DocumentProofs ---------------------------
(***************************************************************************)
(* The bodies of a document keep what was compiled into them, however the  *)
(* tags create, parse, trim, freeze and render them, for any number of     *)
(* bodies, documents and nodes.                                            *)
(*                                                                         *)
(* The inductive invariant adds to the properties what each part knows of   *)
(* the others: what code looks like (Sound), where a compiled body is in    *)
(* its document (Reads), and that the bodies on the C stack are open and   *)
(* being parsed, each by one call (Shape, CallsOK).  ScoresOK, a second     *)
(* invariant on top of it, adds what the calls on the C stack have counted  *)
(* to the score of their body.                                             *)
(***************************************************************************)
EXTENDS DocumentCompile, FiniteSetTheorems, TLAPS

Ops == NodeOps \cup {"jump", "leave"}
Instrs == [op : Ops, const : Nat]
Headers == [op : {"header"}, instructions : Nat, constants_offset : Nat, constants_len : Nat,
            blank : BOOLEAN, score : Int]
Docs == [frozen : BOOLEAN, buffer : Seq(Headers \cup Instrs), constants : Seq(Bodies \X Nat)]
BodyRecord == [phase : {"none", "open", "compiled"}, blank : BOOLEAN, score : Int,
               pool : Nat, code : Nat, doc : Nat, offset : Nat, meant : CodeRecord]
CallRecord == [call : {"document", "body", "liquid"}, body : Bodies \cup {0}, score : Nat]

(* Code whose nodes have their constants, and which ends with a LEAVE when  *)
(* it is not being parsed                                                   *)
Sound(c) ==
    /\ c \in CodeRecord
    /\ \A j \in 1..Len(c.ins) : c.ins[j].op = "node" => c.ins[j].const < Len(c.consts)
    /\ ~c.parsing => c.ins # << >> /\ Last(c.ins).op = "leave"

NoText(c) == \A j \in 1..Len(c.ins) : c.ins[j].op \notin {"text", "var"}

DocsOK ==
    /\ docs \in Seq(Docs) /\ document \in 0..Len(docs)
    /\ document # 0 => ~docs[document].frozen

AsmsOK == asms \in Seq(CodeRecord) /\ \A a \in 1..Len(asms) : Sound(asms[a])

ListsOK ==
    /\ freelists \in Seq(Seq(Nat)) /\ pool \in 0..Len(freelists)
    /\ \A p \in 1..Len(freelists) : \A i \in 1..Len(freelists[p]) :
         freelists[p][i] \in 1..Len(asms)

OpenOK == \A b \in Bodies : Open(b) =>
    /\ body[b].code \in 1..Len(asms) /\ body[b].pool \in 1..Len(freelists)
    /\ body[b].blank => NoText(CodeOf(b))

(* Where a compiled body r is in the documents ds                           *)
Reads(ds, r) ==
    LET d == ds[r.doc]
        h == d.buffer[r.offset + 1]
    IN /\ r.doc \in 1..Len(ds) /\ Sound(r.meant)
       /\ r.offset + 1 + Len(r.meant.ins) <= Len(d.buffer)
       /\ h \in Headers /\ h.instructions = Len(r.meant.ins)
       /\ \A j \in 1..Len(r.meant.ins) : d.buffer[r.offset + 1 + j] = r.meant.ins[j]
       /\ h.constants_offset + Len(r.meant.consts) <= Len(d.constants)
       /\ \A j \in 1..Len(r.meant.consts) :
            d.constants[h.constants_offset + j] = r.meant.consts[j]
       /\ h.blank => NoText(r.meant)

CompiledOK == \A b \in Bodies : Compiled(b) => Reads(docs, body[b])

RenderingOK == \A b \in rendering : b \in Bodies /\ Compiled(b) /\ docs[body[b].doc].frozen

(* A {% liquid %} loop is in the call of parse for its body                 *)
InLoop(s, k, i) ==
    /\ s[k].call = "body" /\ s[k].body = s[i].body
    /\ \A n \in k + 1..i : s[n].call = "liquid"

Shape(s) ==
    /\ s \in Seq(CallRecord)
    /\ \A i \in 1..Len(s) : s[i].call # "document" => s[i].body \in Bodies
    /\ \A i, j \in 1..Len(s) :
         i < j /\ s[i].call # "document" /\ s[j].call = "body" => s[i].body # s[j].body
    /\ \A i \in 1..Len(s) : s[i].call = "liquid" => \E k \in 1..i : InLoop(s, k, i)

CallsOK ==
    /\ Shape(calls)
    /\ \A i \in 1..Len(calls) : calls[i].call # "document" =>
         Open(calls[i].body) /\ CodeOf(calls[i].body).parsing

StateOK ==
    /\ DocsOK /\ AsmsOK /\ ListsOK /\ body \in [Bodies -> BodyRecord]
    /\ OpenOK /\ CompiledOK /\ RenderingOK /\ AssemblersOwned

IInv == StateOK /\ CallsOK

-----------------------------------------------------------------------------
(* The C stack                                                             *)

LEMMA PrefixFacts ==
    ASSUME NEW T, NEW s \in Seq(T), NEW n \in 0..Len(s)
    PROVE  /\ SubSeq(s, 1, n) \in Seq(T) /\ Len(SubSeq(s, 1, n)) = n
           /\ \A i \in 1..n : SubSeq(s, 1, n)[i] = s[i]
OBVIOUS

LEMMA ShapePrefix ==
    ASSUME NEW s, Shape(s), NEW n \in 0..Len(s)
    PROVE  Shape(SubSeq(s, 1, n))
<1> DEFINE t == SubSeq(s, 1, n)
<1>1. /\ t \in Seq(CallRecord) /\ Len(t) = n /\ Len(s) \in Nat
      /\ \A i \in 1..n : t[i] = s[i] /\ i \in 1..Len(s)
  BY PrefixFacts DEF Shape
<1> HIDE DEF t
<1>2. ASSUME NEW i \in 1..n, t[i].call = "liquid"
      PROVE  \E k \in 1..i : InLoop(t, k, i)
  <2>1. PICK k \in 1..i : InLoop(s, k, i)
    BY <1>1, <1>2 DEF Shape
  <2>2. InLoop(t, k, i)
    BY <1>1, <2>1 DEF InLoop
  <2> QED
    BY <2>2
<1>3. \A i \in 1..n : t[i].call # "document" => t[i].body \in Bodies
  BY <1>1 DEF Shape
<1>4. \A i, j \in 1..n :
         i < j /\ t[i].call # "document" /\ t[j].call = "body" => t[i].body # t[j].body
  BY <1>1 DEF Shape
<1>5. Shape(t)
  BY <1>1, <1>2, <1>3, <1>4 DEF Shape
<1> QED
  BY <1>5 DEF t

LEMMA ShapePush ==
    ASSUME NEW s, Shape(s), NEW f \in CallRecord,
           f.call # "document" => f.body \in Bodies,
           f.call = "body" => \A i \in 1..Len(s) : s[i].call # "document" => s[i].body # f.body,
           f.call = "liquid" => s # << >> /\ Last(s).call \in {"body", "liquid"}
                                /\ Last(s).body = f.body
    PROVE  Shape(Append(s, f))
<1> DEFINE t == Append(s, f)
           n == Len(s)
<1>1. /\ t \in Seq(CallRecord) /\ Len(t) = n + 1 /\ n \in Nat /\ t[n + 1] = f
      /\ \A i \in 1..n : t[i] = s[i]
      /\ s # << >> => n \in 1..n /\ Last(s) = s[n]
  BY DEF Shape, Last
<1>2. \A i \in 1..Len(t) : i \in 1..n \/ i = n + 1
  BY <1>1
<1> HIDE DEF t
<1>3. \A i \in 1..Len(t) : t[i].call # "document" => t[i].body \in Bodies
  BY <1>1, <1>2 DEF Shape
<1>4. \A i, j \in 1..Len(t) :
         i < j /\ t[i].call # "document" /\ t[j].call = "body" => t[i].body # t[j].body
  <2> SUFFICES ASSUME NEW i \in 1..Len(t), NEW j \in 1..Len(t), i < j,
                      t[i].call # "document", t[j].call = "body"
               PROVE  t[i].body # t[j].body
    OBVIOUS
  <2>1. i \in 1..n
    BY <1>1, <1>2
  <2>2. CASE j \in 1..n
    BY <1>1, <2>1, <2>2 DEF Shape
  <2>3. CASE j = n + 1
    BY <1>1, <2>1, <2>3
  <2> QED
    BY <1>2, <2>2, <2>3
<1>5. ASSUME NEW i \in 1..Len(t), t[i].call = "liquid"
      PROVE  \E k \in 1..i : InLoop(t, k, i)
  <2>1. ASSUME NEW m \in 1..n, s[m].call = "liquid"
        PROVE  \E k \in 1..m : InLoop(s, k, m) /\ InLoop(t, k, m)
    <3>1. PICK k \in 1..m : InLoop(s, k, m)
      BY <2>1 DEF Shape
    <3>2. InLoop(t, k, m)
      BY <1>1, <3>1 DEF InLoop
    <3> QED
      BY <3>1, <3>2
  <2>2. CASE i \in 1..n
    BY <1>1, <1>5, <2>1, <2>2
  <2>3. CASE i = n + 1 /\ Last(s).call = "liquid"
    <3>1. n \in 1..n /\ s[n].call = "liquid" /\ s[n].body = f.body
      BY <1>1, <1>5, <2>3
    <3>2. PICK k \in 1..n : InLoop(t, k, n)
      BY <2>1, <3>1
    <3>3. \A m \in k + 1..i : m \in k + 1..n \/ m = i
      BY <1>1, <2>3
    <3>4. InLoop(t, k, i)
      BY <1>1, <1>5, <2>3, <3>1, <3>2, <3>3 DEF InLoop
    <3> QED
      BY <1>1, <2>3, <3>4
  <2>4. CASE i = n + 1 /\ Last(s).call = "body"
    <3>1. n \in 1..n /\ s[n].call = "body" /\ s[n].body = f.body
      BY <1>1, <1>5, <2>4
    <3>2. InLoop(t, n, i)
      BY <1>1, <1>5, <2>4, <3>1 DEF InLoop
    <3> QED
      BY <1>1, <2>4, <3>1, <3>2
  <2> QED
    BY <1>1, <1>2, <1>5, <2>2, <2>3, <2>4
<1>6. Shape(t)
  BY <1>1, <1>3, <1>4, <1>5 DEF Shape
<1> QED
  BY <1>6 DEF t

(* Counting in a loop does not change the stack.                            *)
LEMMA ShapeSame ==
    ASSUME NEW s, Shape(s), NEW t \in Seq(CallRecord), Len(t) = Len(s),
           \A i \in 1..Len(s) : t[i].call = s[i].call /\ t[i].body = s[i].body
    PROVE  Shape(t)
<1>1. ASSUME NEW i \in 1..Len(t), t[i].call = "liquid"
      PROVE  \E k \in 1..i : InLoop(t, k, i)
  <2>1. PICK k \in 1..i : InLoop(s, k, i)
    BY <1>1 DEF Shape
  <2>2. Len(s) \in Nat /\ \A n \in k..i : n \in 1..Len(s)
    BY DEF Shape
  <2>3. InLoop(t, k, i)
    BY <2>1, <2>2 DEF InLoop
  <2> QED
    BY <2>3
<1> QED
  BY <1>1 DEF Shape

-----------------------------------------------------------------------------
(* Documents only grow                                                     *)

Extends(e, d) ==
    /\ Len(d.buffer) <= Len(e.buffer) /\ \A j \in 1..Len(d.buffer) : e.buffer[j] = d.buffer[j]
    /\ Len(d.constants) <= Len(e.constants)
    /\ \A j \in 1..Len(d.constants) : e.constants[j] = d.constants[j]
    /\ d.frozen => e.frozen

Grown == Len(docs) <= Len(docs') /\ \A d \in 1..Len(docs) : Extends(docs'[d], docs[d])

LEMMA SoundFacts ==
    ASSUME NEW c, Sound(c)
    PROVE  c \in CodeRecord /\ Len(c.ins) \in Nat /\ Len(c.consts) \in Nat
           /\ c.ins \in Seq(Instrs) /\ c.consts \in Seq(Bodies \X Nat)
BY DEF Sound, CodeRecord, Instrs, Ops

LEMMA DocFacts ==
    ASSUME DocsOK
    PROVE  /\ Len(docs) \in Nat
           /\ \A d \in 1..Len(docs) : docs[d] \in Docs /\ Len(docs[d].buffer) \in Nat
                                      /\ Len(docs[d].constants) \in Nat
<1>1. Len(docs) \in Nat /\ \A d \in 1..Len(docs) : docs[d] \in Docs
  BY DEF DocsOK
<1>2. \A d \in Docs : d.buffer \in Seq(Headers \cup Instrs) /\ d.constants \in Seq(Bodies \X Nat)
  BY DEF Docs
<1>3. \A d \in Docs : Len(d.buffer) \in Nat /\ Len(d.constants) \in Nat
  BY <1>2
<1> QED
  BY <1>1, <1>3

LEMMA ReadsDocument ==
    \A ds, r : Reads(ds, r) => r.doc \in 1..Len(ds) /\ Sound(r.meant)
BY DEF Reads

LEMMA ReadsGrown ==
    ASSUME DocsOK, Grown, docs' \in Seq(Docs), NEW r \in BodyRecord, Reads(docs, r)
    PROVE  Reads(docs', r)
<1> DEFINE d == docs[r.doc]
           e == docs'[r.doc]
           n == r.offset + 1
           h == d.buffer[n]
<1>1. r.doc \in 1..Len(docs) /\ Sound(r.meant) /\ n \in Nat \ {0} /\ Len(docs) \in Nat
  <2>1. r.doc \in 1..Len(docs) /\ Sound(r.meant)
    BY ReadsDocument
  <2>2. r.offset \in Nat
    BY DEF BodyRecord
  <2> QED
    BY <2>1, <2>2, DocFacts
<1>2. Len(r.meant.ins) \in Nat /\ Len(r.meant.consts) \in Nat
  BY <1>1, SoundFacts
<1>3. d \in Docs /\ Len(d.buffer) \in Nat /\ Len(d.constants) \in Nat
  BY <1>1, DocFacts
<1>4. r.doc \in 1..Len(docs') /\ Extends(e, d)
  BY <1>1 DEF Grown
<1>5. Len(e.buffer) \in Nat /\ Len(e.constants) \in Nat
  BY <1>4, SMTT(20) DEF Docs
<1>6. /\ n + Len(r.meant.ins) <= Len(d.buffer) /\ h \in Headers
      /\ h.constants_offset \in Nat
      /\ h.constants_offset + Len(r.meant.consts) <= Len(d.constants)
  BY DEF Reads, Headers
<1> DEFINE o == h.constants_offset
<1>7. /\ h.instructions = Len(r.meant.ins)
      /\ \A j \in 1..Len(r.meant.ins) : d.buffer[n + j] = r.meant.ins[j]
      /\ \A j \in 1..Len(r.meant.consts) : d.constants[o + j] = r.meant.consts[j]
      /\ h.blank => NoText(r.meant)
  BY DEF Reads
<1>8. /\ Len(d.buffer) <= Len(e.buffer) /\ Len(d.constants) <= Len(e.constants)
      /\ \A j \in 1..Len(d.buffer) : e.buffer[j] = d.buffer[j]
      /\ \A j \in 1..Len(d.constants) : e.constants[j] = d.constants[j]
  BY <1>4 DEF Extends
<1>9. /\ r.doc \in 1..Len(docs') /\ Sound(r.meant)
      /\ n + Len(r.meant.ins) <= Len(e.buffer)
      /\ e.buffer[n] \in Headers /\ e.buffer[n].instructions = Len(r.meant.ins)
      /\ \A j \in 1..Len(r.meant.ins) : e.buffer[n + j] = r.meant.ins[j]
      /\ e.buffer[n].constants_offset + Len(r.meant.consts) <= Len(e.constants)
      /\ \A j \in 1..Len(r.meant.consts) :
           e.constants[e.buffer[n].constants_offset + j] = r.meant.consts[j]
      /\ e.buffer[n].blank => NoText(r.meant)
  <2> DEFINE p == Len(r.meant.ins)
             q == Len(r.meant.consts)
  <2>1. p \in Nat /\ q \in Nat /\ o \in Nat /\ n \in Nat /\ n >= 1
    BY <1>1, <1>2, <1>6
  <2>2. n + p <= Len(d.buffer) /\ o + q <= Len(d.constants)
    BY <1>6
  <2> HIDE DEF d, e, n, o, h, p, q
  <2>3. /\ n \in 1..Len(d.buffer) /\ \A j \in 1..p : n + j \in 1..Len(d.buffer)
        /\ \A j \in 1..q : o + j \in 1..Len(d.constants)
        /\ n + p <= Len(e.buffer) /\ o + q <= Len(e.constants)
    BY <1>3, <1>5, <1>8, <2>1, <2>2, SMTT(20)
  <2>4. e.buffer[n] = h
    BY <1>8, <2>3 DEF h
  <2>5. \A j \in 1..p : e.buffer[n + j] = r.meant.ins[j]
    BY <1>7, <1>8, <2>3 DEF p
  <2>6. \A j \in 1..q : e.constants[o + j] = r.meant.consts[j]
    BY <1>7, <1>8, <2>3 DEF q
  <2> QED
    BY <1>1, <1>4, <1>6, <1>7, <2>3, <2>4, <2>5, <2>6 DEF p, q, o
<1> QED
  BY <1>9 DEF Reads

LEMMA CompiledStay ==
    ASSUME DocsOK, Grown, docs' \in Seq(Docs), body \in [Bodies -> BodyRecord], CompiledOK,
           NEW b \in Bodies, Compiled(b), body'[b] = body[b]
    PROVE  Reads(docs', body'[b])
<1>1. body[b] \in BodyRecord /\ Reads(docs, body[b])
  BY DEF CompiledOK
<1>2. Reads(docs', body[b])
  BY <1>1, ReadsGrown
<1> QED
  BY <1>2

LEMMA DocsStay ==
    ASSUME DocsOK, docs' = docs
    PROVE  Grown /\ docs' \in Seq(Docs)
<1>1. \A d \in 1..Len(docs) : Extends(docs[d], docs[d])
  BY DocFacts DEF Extends
<1> QED
  BY <1>1, DocFacts DEF Grown, DocsOK

-----------------------------------------------------------------------------
(* An open body gets new code in the assembler that is its own.             *)

Edit(b, c) ==
    /\ Open(b) /\ Sound(c) /\ asms' = [asms EXCEPT ![body[b].code] = c]
    /\ body' \in [Bodies -> BodyRecord] /\ \A x \in Bodies : x # b => body'[x] = body[x]
    /\ body'[b].phase = "open" /\ body'[b].code = body[b].code /\ body'[b].pool = body[b].pool
    /\ body'[b].blank => NoText(c)
    /\ UNCHANGED <<document, pool, docs, freelists, rendering>>

LEMMA EditKeeps ==
    ASSUME StateOK, NEW b \in Bodies, NEW c, Edit(b, c)
    PROVE  /\ StateOK' /\ CodeOf(b)' = c
           /\ \A x \in Bodies : Open(x)' <=> Open(x)
           /\ \A x \in Bodies : Open(x) /\ x # b => CodeOf(x)' = CodeOf(x)
<1> DEFINE a == body[b].code
<1>1. /\ a \in 1..Len(asms) /\ asms \in Seq(CodeRecord) /\ c \in CodeRecord
      /\ Len(asms') = Len(asms) /\ asms' \in Seq(CodeRecord) /\ asms'[a] = c
      /\ \A i \in 1..Len(asms) : i # a => asms'[i] = asms[i]
  <2>1. a \in 1..Len(asms) /\ asms \in Seq(CodeRecord) /\ c \in CodeRecord
    BY DEF StateOK, OpenOK, AsmsOK, Edit, Sound
  <2>2. asms' = [asms EXCEPT ![a] = c]
    BY DEF Edit
  <2> QED
    BY <2>1, <2>2
<1>2. \A x \in Bodies : Open(x)' <=> Open(x)
  BY DEF Edit, Open
<1>3. \A x \in Bodies : Compiled(x)' <=> Compiled(x)
  BY DEF Edit, Open, Compiled
<1>4. CodeOf(b)' = c
  BY <1>1 DEF Edit, CodeOf
<1>5. \A x \in Bodies : Open(x) /\ x # b => /\ body[x].code # a /\ body[x].code \in 1..Len(asms)
                                            /\ CodeOf(x)' = CodeOf(x)
  <2>1. \A x \in Bodies : Open(x) /\ x # b => body[x].code # a /\ body[x].code \in 1..Len(asms)
    BY DEF StateOK, AssemblersOwned, OpenOK, Edit
  <2> QED
    BY <1>1, <2>1 DEF Edit, CodeOf
<1>6. AsmsOK'
  BY <1>1 DEF StateOK, AsmsOK, Edit
<1>7. DocsOK' /\ ListsOK'
  BY <1>1 DEF StateOK, DocsOK, ListsOK, Edit
<1>8. OpenOK'
  <2> SUFFICES ASSUME NEW x \in Bodies, Open(x)'
               PROVE  /\ body'[x].code \in 1..Len(asms') /\ body'[x].pool \in 1..Len(freelists')
                      /\ body'[x].blank => NoText(CodeOf(x)')
    BY DEF OpenOK, NoText
  <2>1. Open(x)
    BY <1>2
  <2>2. CASE x = b
    BY <1>1, <1>4, <2>2 DEF StateOK, OpenOK, Edit
  <2>3. CASE x # b
    BY <1>1, <1>5, <2>1, <2>3 DEF StateOK, OpenOK, Edit
  <2> QED
    BY <2>2, <2>3
<1>9. CompiledOK'
  <2> SUFFICES ASSUME NEW x \in Bodies, Compiled(x)
               PROVE  Reads(docs', body'[x])
    BY <1>3 DEF CompiledOK, Reads
  <2>1. body'[x] = body[x] /\ docs' = docs
    BY DEF Compiled, Open, Edit
  <2> QED
    BY <2>1 DEF StateOK, CompiledOK
<1>10. RenderingOK'
  <2>1. \A x \in Bodies : Compiled(x) => body'[x] = body[x]
    BY DEF Compiled, Open, Edit
  <2> QED
    BY <1>3, <2>1 DEF StateOK, RenderingOK, Edit
<1>11. AssemblersOwned'
  <2>1. \A x, y \in Bodies : Open(x)' /\ Open(y)' /\ x # y => body'[x].code # body'[y].code
    BY <1>2 DEF StateOK, AssemblersOwned, Edit
  <2>2. ASSUME NEW p \in 1..Len(freelists), NEW i \in 1..Len(freelists[p])
        PROVE  asms'[freelists[p][i]] = Reset
    BY <1>1 DEF StateOK, AssemblersOwned, ListsOK, Edit
  <2>3. \A p \in 1..Len(freelists) : \A i \in 1..Len(freelists[p]) :
          \A x \in Bodies : Open(x)' => body'[x].code # freelists[p][i]
    BY <1>2 DEF StateOK, AssemblersOwned, Edit
  <2>4. freelists' = freelists
    BY DEF Edit
  <2> QED
    BY <2>1, <2>2, <2>3, <2>4 DEF StateOK, AssemblersOwned
<1>12. body' \in [Bodies -> BodyRecord]
  BY DEF Edit
<1> QED
  BY <1>2, <1>4, <1>5, <1>6, <1>7, <1>8, <1>9, <1>10, <1>11, <1>12 DEF StateOK

-----------------------------------------------------------------------------
(* Code                                                                    *)

LEMMA CodeRecordIs ==
    CodeRecord = [ins : Seq(Instrs), consts : Seq(Bodies \X Nat), parsing : BOOLEAN]
BY DEF CodeRecord, Instrs, Ops

LEMMA AppendFacts ==
    ASSUME NEW T, NEW s \in Seq(T), NEW x \in T
    PROVE  /\ Append(s, x) \in Seq(T) /\ Len(Append(s, x)) = Len(s) + 1 /\ Len(s) \in Nat
           /\ Append(s, x)[Len(s) + 1] = x /\ Append(s, x) # << >>
           /\ \A j \in 1..Len(s) : Append(s, x)[j] = s[j] /\ s[j] \in T
OBVIOUS

LEMMA AppendSound ==
    ASSUME NEW c, Sound(c), NEW i \in Instrs, NEW d \in CodeRecord,
           d.ins = Append(c.ins, i), Len(d.consts) >= Len(c.consts), Len(d.consts) \in Nat,
           i.op = "node" => i.const < Len(d.consts),
           ~d.parsing => i.op = "leave"
    PROVE  Sound(d) /\ (NoText(c) /\ i.op \notin {"text", "var"} => NoText(d))
<1>1. /\ c.ins \in Seq(Instrs) /\ Len(c.ins) \in Nat /\ Len(c.consts) \in Nat
  BY SoundFacts
<1> DEFINE n == Len(c.ins)
<1>2. /\ Len(d.ins) = n + 1 /\ n \in Nat /\ d.ins[n + 1] = i /\ d.ins # << >>
      /\ \A j \in 1..n : d.ins[j] = c.ins[j] /\ c.ins[j].const \in Nat
  <2>1. /\ Len(d.ins) = n + 1 /\ d.ins[n + 1] = i /\ d.ins # << >>
        /\ \A j \in 1..n : d.ins[j] = c.ins[j] /\ c.ins[j] \in Instrs
    BY <1>1, AppendFacts
  <2> QED
    BY <1>1, <2>1 DEF Instrs
<1> HIDE DEF n
<1>3. \A j \in 1..Len(d.ins) : j \in 1..n \/ j = n + 1
  BY <1>2
<1>4. \A j \in 1..Len(d.ins) : d.ins[j].op = "node" => d.ins[j].const < Len(d.consts)
  BY <1>1, <1>2, <1>3 DEF Sound, n
<1>5. ~d.parsing => d.ins # << >> /\ Last(d.ins).op = "leave"
  BY <1>2 DEF Last
<1>6. NoText(c) /\ i.op \notin {"text", "var"} => NoText(d)
  BY <1>2, <1>3 DEF NoText, n
<1> QED
  BY <1>4, <1>5, <1>6 DEF Sound

LEMMA AddInstrSound ==
    ASSUME NEW b, Sound(CodeOf(b)), CodeOf(b).parsing, NEW op \in {"text", "space", "var"}
    PROVE  /\ Sound(AddInstr(b, op)) /\ AddInstr(b, op).parsing
           /\ NoText(CodeOf(b)) /\ op = "space" => NoText(AddInstr(b, op))
<1> DEFINE c == CodeOf(b)
           d == AddInstr(b, op)
           i == Instr(op, 0)
<1>1. i \in Instrs /\ i.op = op
  BY DEF Instr, Instrs, Ops, NodeOps
<1>2. c \in CodeRecord /\ Len(c.consts) \in Nat
  BY SoundFacts
<1>3. /\ d \in CodeRecord /\ d.ins = Append(c.ins, i) /\ d.consts = c.consts
      /\ d.parsing = c.parsing
  <2>1. c.ins \in Seq(Instrs) /\ Append(c.ins, i) \in Seq(Instrs)
    BY <1>1, SoundFacts, AppendFacts
  <2>2. d = [c EXCEPT !.ins = Append(c.ins, i)]
    BY DEF AddInstr
  <2> HIDE DEF c, d, i
  <2> QED
    BY <1>2, <2>1, <2>2, CodeRecordIs
<1>4. Sound(c) /\ c.parsing
  OBVIOUS
<1> HIDE DEF c, d, i
<1>5. Sound(d) /\ (NoText(c) /\ i.op \notin {"text", "var"} => NoText(d))
  <2>1. /\ i \in Instrs /\ d \in CodeRecord /\ d.ins = Append(c.ins, i) /\ i.op # "node"
        /\ Len(d.consts) >= Len(c.consts) /\ Len(d.consts) \in Nat /\ d.parsing
    BY <1>1, <1>2, <1>3, <1>4
  <2> QED
    BY <1>4, <2>1, AppendSound
<1> QED
  BY <1>1, <1>3, <1>4, <1>5 DEF c, d

LEMMA AddNodeSound ==
    ASSUME NEW c, Sound(c), c.parsing, NEW node \in Bodies \X Nat
    PROVE  /\ Sound(AddNode(c, node)) /\ AddNode(c, node).parsing
           /\ NoText(c) => NoText(AddNode(c, node))
<1> DEFINE d == AddNode(c, node)
           i == Instr("node", Len(c.consts))
<1>1. c \in CodeRecord /\ Len(c.consts) \in Nat
  BY SoundFacts
<1>2. i \in Instrs /\ i.op = "node" /\ i.const = Len(c.consts)
  BY <1>1 DEF Instr, Instrs, Ops, NodeOps
<1>3. /\ d \in CodeRecord /\ d.ins = Append(c.ins, i) /\ d.parsing = c.parsing
      /\ Len(d.consts) = Len(c.consts) + 1
  <2>1. Append(c.ins, i) \in Seq(Instrs) /\ Append(c.consts, node) \in Seq(Bodies \X Nat)
        /\ Len(Append(c.consts, node)) = Len(c.consts) + 1
    BY <1>2, SoundFacts, AppendFacts
  <2>2. d = [c EXCEPT !.ins = Append(c.ins, i), !.consts = Append(c.consts, node)]
    BY DEF AddNode
  <2> HIDE DEF d, i
  <2> QED
    BY <1>1, <2>1, <2>2, CodeRecordIs
<1> HIDE DEF d, i
<1>4. /\ Len(d.consts) >= Len(c.consts) /\ Len(d.consts) \in Nat
      /\ i.op = "node" => i.const < Len(d.consts)
  BY <1>1, <1>2, <1>3
<1>5. ~d.parsing => i.op = "leave"
  BY <1>2, <1>3
<1>6. Sound(d) /\ (NoText(c) /\ i.op \notin {"text", "var"} => NoText(d))
  <2>1. i \in Instrs /\ d \in CodeRecord /\ d.ins = Append(c.ins, i)
    BY <1>2, <1>3
  <2> QED
    BY <2>1, <1>4, <1>5, AppendSound
<1> QED
  BY <1>2, <1>3, <1>6 DEF d

LEMMA AddLeaveSound ==
    ASSUME NEW c, Sound(c)
    PROVE  /\ Sound(AddLeave(c)) /\ ~AddLeave(c).parsing
           /\ NoText(c) => NoText(AddLeave(c))
<1> DEFINE d == AddLeave(c)
           i == Instr("leave", 0)
<1>1. c \in CodeRecord /\ Len(c.consts) \in Nat
  BY SoundFacts
<1>2. i \in Instrs /\ i.op = "leave"
  BY DEF Instr, Instrs, Ops
<1>3. /\ d \in CodeRecord /\ d.ins = Append(c.ins, i) /\ d.parsing = FALSE
      /\ d.consts = c.consts
  <2>1. Append(c.ins, i) \in Seq(Instrs)
    BY <1>2, SoundFacts, AppendFacts
  <2>2. d = [c EXCEPT !.ins = Append(c.ins, i), !.parsing = FALSE]
    BY DEF AddLeave
  <2> HIDE DEF d, i
  <2> QED
    BY <1>1, <2>1, <2>2, CodeRecordIs
<1> HIDE DEF d, i
<1>4. /\ Len(d.consts) >= Len(c.consts) /\ Len(d.consts) \in Nat
      /\ i.op = "node" => i.const < Len(d.consts)
  BY <1>1, <1>2, <1>3
<1>5. ~d.parsing => i.op = "leave"
  BY <1>2, <1>3
<1>6. Sound(d) /\ (NoText(c) /\ i.op \notin {"text", "var"} => NoText(d))
  BY <1>2, <1>3, <1>4, <1>5, AppendSound
<1> QED
  BY <1>2, <1>3, <1>6 DEF d

LEMMA RemoveLeaveSound ==
    ASSUME NEW c, Sound(c), ~c.parsing
    PROVE  /\ Sound(RemoveLeave(c)) /\ RemoveLeave(c).parsing
           /\ NoText(c) => NoText(RemoveLeave(c))
<1> DEFINE d == RemoveLeave(c)
           n == Len(c.ins) - 1
<1>1. c \in CodeRecord /\ c.ins \in Seq(Instrs) /\ n \in 0..Len(c.ins) /\ Len(c.ins) \in Nat
  BY SoundFacts DEF Sound
<1>2. /\ Front(c.ins) \in Seq(Instrs) /\ Len(Front(c.ins)) = n
      /\ \A j \in 1..n : Front(c.ins)[j] = c.ins[j] /\ j \in 1..Len(c.ins)
  BY <1>1, PrefixFacts DEF Front
<1>3. /\ d \in CodeRecord /\ d.ins = Front(c.ins) /\ d.consts = c.consts /\ d.parsing = TRUE
  BY <1>1, <1>2 DEF RemoveLeave, CodeRecord, Instrs, Ops
<1> HIDE DEF d, n
<1> QED
  BY <1>2, <1>3 DEF Sound, NoText, d

LEMMA ResetSound == Sound(Reset) /\ NoText(Reset) /\ Reset.parsing
BY DEF Reset, Sound, CodeRecord, NoText

-----------------------------------------------------------------------------
(* Actions on open bodies                                                  *)

LEMMA CallsFacts ==
    ASSUME CallsOK
    PROVE  /\ calls \in Seq(CallRecord) /\ Len(calls) \in Nat
           /\ \A i \in 1..Len(calls) : calls[i] \in CallRecord
           /\ \A i \in 1..Len(calls) : calls[i].call # "document" => calls[i].body \in Bodies
BY DEF CallsOK, Shape

LEMMA TopFacts ==
    ASSUME CallsOK, NEW b \in Bodies, Parsing(b)
    PROVE  /\ Len(calls) \in 1..Len(calls) /\ Last(calls) = calls[Len(calls)]
           /\ Last(calls) \in CallRecord /\ Last(calls).body = b
           /\ Last(calls).call \in {"body", "liquid"}
           /\ Open(b) /\ CodeOf(b).parsing
<1>1. Len(calls) \in 1..Len(calls) /\ calls[Len(calls)] \in CallRecord
  BY CallsFacts DEF Parsing
<1>2. Last(calls) = calls[Len(calls)]
  BY DEF Last
<1> QED
  BY <1>1, <1>2 DEF Parsing, CallsOK

LEMMA OpenFacts ==
    ASSUME StateOK, NEW b \in Bodies, Open(b)
    PROVE  /\ body[b] \in BodyRecord /\ body[b].code \in 1..Len(asms) /\ Sound(CodeOf(b))
           /\ body[b].blank => NoText(CodeOf(b))
BY DEF StateOK, OpenOK, AsmsOK, CodeOf

(* The calls that stay have bodies that are still open and being parsed.     *)
LEMMA CallsStay ==
    ASSUME CallsOK, Shape(calls'), Len(calls') <= Len(calls),
           \A i \in 1..Len(calls') : calls'[i].call = calls[i].call
                                     /\ calls'[i].body = calls[i].body,
           \A i \in 1..Len(calls') : calls[i].call # "document" =>
             LET b == calls[i].body
             IN body'[b].phase = "open" /\ asms'[body'[b].code].parsing
    PROVE  CallsOK'
<1>1. Shape(calls)'
  BY DEF Shape, InLoop
<1> QED
  BY <1>1 DEF CallsOK, Open, CodeOf

LEMMA EmitInv ==
    ASSUME IInv, NEW b \in Bodies, Parsing(b), NEW c, Sound(c), c.parsing,
           NEW blank \in BOOLEAN, blank /\ NoText(CodeOf(b)) => NoText(c),
           Emit(b, c, blank)
    PROVE  IInv'
<1> DEFINE n == Len(calls)
           t == [calls EXCEPT ![n].score = Last(calls).score + 1]
<1>1. /\ StateOK /\ CallsOK /\ n \in 1..n /\ calls \in Seq(CallRecord)
      /\ Last(calls) = calls[n] /\ calls[n] \in CallRecord /\ Open(b)
  BY TopFacts, CallsFacts DEF IInv
<1>2. body[b] \in BodyRecord /\ body \in [Bodies -> BodyRecord] /\ (body[b].blank => NoText(CodeOf(b)))
  BY <1>1, OpenFacts DEF StateOK
<1>3. body' = [body EXCEPT ![b].blank = body[b].blank /\ blank]
  BY DEF Emit
<1>4. /\ body' \in [Bodies -> BodyRecord] /\ \A x \in Bodies : x # b => body'[x] = body[x]
      /\ body'[b] = [body[b] EXCEPT !.blank = body[b].blank /\ blank]
  <2>1. [body[b] EXCEPT !.blank = body[b].blank /\ blank] \in BodyRecord
    BY <1>2 DEF BodyRecord
  <2> QED
    BY <1>2, <1>3, <2>1
<1>5. /\ body'[b].phase = "open" /\ body'[b].code = body[b].code /\ body'[b].pool = body[b].pool
      /\ body'[b].blank => NoText(c)
  BY <1>1, <1>2, <1>4 DEF BodyRecord, Open
<1>6. Edit(b, c)
  BY <1>1, <1>4, <1>5 DEF Edit, Emit
<1>7. /\ StateOK' /\ CodeOf(b)' = c /\ \A x \in Bodies : Open(x)' <=> Open(x)
      /\ \A x \in Bodies : Open(x) /\ x # b => CodeOf(x)' = CodeOf(x)
  BY <1>1, <1>6, EditKeeps
<1>8. /\ calls' = t /\ t \in Seq(CallRecord) /\ Len(t) = n
      /\ \A i \in 1..n : t[i].call = calls[i].call /\ t[i].body = calls[i].body
  <2>1. [calls[n] EXCEPT !.score = Last(calls).score + 1] \in CallRecord
    BY <1>1, SMTT(20) DEF CallRecord
  <2>2. calls' = t
    BY DEF Emit
  <2> QED
    BY <1>1, <2>1, <2>2 DEF CallRecord
<1> HIDE DEF t
<1>9. Shape(calls')
  BY <1>1, <1>8, ShapeSame DEF CallsOK
<1>10. CallsOK'
  <2>1. ASSUME NEW i \in 1..n, calls[i].call # "document"
        PROVE  LET x == calls[i].body
               IN body'[x].phase = "open" /\ asms'[body'[x].code].parsing
    <3>1. calls[i].body \in Bodies /\ Open(calls[i].body) /\ CodeOf(calls[i].body).parsing
      BY <1>1, <2>1, CallsFacts DEF CallsOK
    <3> QED
      BY <1>7, <3>1 DEF Open, CodeOf
  <2> QED
    BY <1>1, <1>8, <1>9, <2>1, CallsStay
<1> QED
  BY <1>7, <1>10 DEF IInv

LEMMA RawTokenInv ==
    ASSUME IInv, NEW b \in Bodies, RawToken(b)
    PROVE  IInv'
<1>1. PICK op \in {"text", "space"} : Parsing(b) /\ Emit(b, AddInstr(b, op), op = "space")
  BY DEF RawToken
<1>2. StateOK /\ CallsOK
  BY DEF IInv
<1>3. Sound(CodeOf(b)) /\ CodeOf(b).parsing
  BY <1>1, <1>2, TopFacts, OpenFacts
<1>4. op \in {"text", "space", "var"} /\ (op = "space") \in BOOLEAN
  OBVIOUS
<1>5. /\ Sound(AddInstr(b, op)) /\ AddInstr(b, op).parsing
      /\ (op = "space") /\ NoText(CodeOf(b)) => NoText(AddInstr(b, op))
  BY <1>3, <1>4, AddInstrSound
<1> QED
  BY <1>1, <1>4, <1>5, EmitInv

LEMMA VariableTokenInv ==
    ASSUME IInv, NEW b \in Bodies, VariableToken(b)
    PROVE  IInv'
<1>1. Parsing(b) /\ Emit(b, AddInstr(b, "var"), FALSE) /\ StateOK /\ CallsOK
  BY DEF VariableToken, IInv
<1>2. Sound(CodeOf(b)) /\ CodeOf(b).parsing
  BY <1>1, TopFacts, OpenFacts
<1>3. Sound(AddInstr(b, "var")) /\ AddInstr(b, "var").parsing
  BY <1>2, AddInstrSound
<1> QED
  BY <1>1, <1>3, EmitInv

LEMMA TagTokenInv ==
    ASSUME IInv, NEW b \in Bodies, TagToken(b)
    PROVE  IInv'
<1> DEFINE node == <<b, Len(CodeOf(b).ins)>>
<1>1. PICK blank \in BOOLEAN : Parsing(b) /\ Emit(b, AddNode(CodeOf(b), node), blank)
  BY DEF TagToken
<1>2. StateOK /\ CallsOK
  BY DEF IInv
<1>3. Sound(CodeOf(b)) /\ CodeOf(b).parsing
  BY <1>1, <1>2, TopFacts, OpenFacts
<1>4. node \in Bodies \X Nat
  BY <1>3, SoundFacts
<1> HIDE DEF node
<1>5. /\ Sound(AddNode(CodeOf(b), node)) /\ AddNode(CodeOf(b), node).parsing
      /\ NoText(CodeOf(b)) => NoText(AddNode(CodeOf(b), node))
  BY <1>3, <1>4, AddNodeSound
<1> QED
  BY <1>1, <1>5, EmitInv

LEMMA RawTagInv ==
    ASSUME IInv, NEW b \in Bodies, RawTag(b)
    PROVE  IInv'
<1>1. Parsing(b) /\ StateOK /\ CallsOK
  BY DEF RawTag, IInv
<1>2. Sound(CodeOf(b)) /\ CodeOf(b).parsing
  BY <1>1, TopFacts, OpenFacts
<1>3. CASE Emit(b, CodeOf(b), TRUE)
  BY <1>1, <1>2, <1>3, EmitInv
<1>4. ASSUME NEW op \in {"text", "space"}, Emit(b, AddInstr(b, op), FALSE)
      PROVE  IInv'
  <2>1. Sound(AddInstr(b, op)) /\ AddInstr(b, op).parsing
    BY <1>2, AddInstrSound
  <2> QED
    BY <1>1, <1>4, <2>1, EmitInv
<1> QED
  BY <1>3, <1>4 DEF RawTag

LEMMA StateSame ==
    ASSUME StateOK, UNCHANGED <<document, pool, docs, freelists, asms, body, rendering>>
    PROVE  StateOK'
BY DEF StateOK, DocsOK, AsmsOK, ListsOK, OpenOK, CompiledOK, RenderingOK, AssemblersOwned,
       Open, Compiled, CodeOf

(* The body of every call, for CallsStay                                    *)
LEMMA CallsOpen ==
    ASSUME CallsOK, NEW i \in 1..Len(calls), calls[i].call # "document"
    PROVE  /\ calls[i].body \in Bodies /\ Open(calls[i].body)
           /\ CodeOf(calls[i].body).parsing
BY DEF CallsOK, Shape

LEMMA BeginParseInv ==
    ASSUME IInv, NEW b \in Bodies, BeginParse(b)
    PROVE  IInv'
<1> DEFINE c == RemoveLeave(CodeOf(b))
           f == [call |-> "body", body |-> b, score |-> 0]
           n == Len(calls)
<1>1. StateOK /\ CallsOK /\ Open(b) /\ ~CodeOf(b).parsing
  BY DEF IInv, BeginParse
<1>2. Sound(CodeOf(b)) /\ (body[b].blank => NoText(CodeOf(b)))
  BY <1>1, OpenFacts
<1>3. Sound(c) /\ c.parsing /\ (body[b].blank => NoText(c))
  BY <1>1, <1>2, RemoveLeaveSound
<1>4. asms' = [asms EXCEPT ![body[b].code] = c]
      /\ UNCHANGED <<document, pool, docs, freelists, body, rendering>>
  BY DEF BeginParse
<1>5. calls' = Append(calls, f)
  BY DEF BeginParse
<1> HIDE DEF c
<1>6. Edit(b, c)
  BY <1>1, <1>3, <1>4 DEF Edit, StateOK, Open
<1>7. /\ StateOK' /\ CodeOf(b)' = c /\ \A x \in Bodies : Open(x)' <=> Open(x)
      /\ \A x \in Bodies : Open(x) /\ x # b => CodeOf(x)' = CodeOf(x)
  BY <1>1, <1>6, EditKeeps
<1>8. \A i \in 1..n : calls[i].call # "document" => calls[i].body # b
  BY <1>1, CallsOpen
<1>9. f \in CallRecord /\ f.call = "body" /\ f.body = b
  BY DEF CallRecord
<1> HIDE DEF f
<1>10. Shape(Append(calls, f))
  BY <1>1, <1>8, <1>9, ShapePush DEF CallsOK
<1>11. /\ Len(calls') = n + 1 /\ calls'[n + 1] = f /\ \A i \in 1..n : calls'[i] = calls[i]
       /\ \A i \in 1..n + 1 : i \in 1..n \/ i = n + 1
  BY <1>1, <1>5, <1>9, CallsFacts, AppendFacts
<1>12. CallsOK'
  <2>1. ASSUME NEW i \in 1..n + 1, calls'[i].call # "document"
        PROVE  LET x == calls'[i].body
               IN body'[x].phase = "open" /\ asms'[body'[x].code].parsing
    <3>1. CASE i = n + 1
      BY <1>1, <1>3, <1>7, <1>9, <1>11, <3>1 DEF Open, CodeOf
    <3>2. CASE i \in 1..n
      <4>1. calls'[i] = calls[i] /\ calls[i].body \in Bodies /\ Open(calls[i].body)
            /\ CodeOf(calls[i].body).parsing /\ calls[i].body # b
        BY <1>1, <1>8, <1>11, <2>1, <3>2, CallsOpen
      <4> QED
        BY <1>7, <4>1 DEF Open, CodeOf
    <3> QED
      BY <1>11, <3>1, <3>2
  <2>2. Shape(calls)'
    BY <1>5, <1>10, SMTT(20) DEF Shape, InLoop
  <2> QED
    BY <1>11, <2>1, <2>2 DEF CallsOK, Open, CodeOf
<1> QED
  BY <1>7, <1>12 DEF IInv

LEMMA LiquidTagInv ==
    ASSUME IInv, NEW b \in Bodies, LiquidTag(b)
    PROVE  IInv'
<1> DEFINE f == [call |-> "liquid", body |-> b, score |-> 0]
           n == Len(calls)
<1>1. StateOK /\ CallsOK /\ Parsing(b)
  BY DEF IInv, LiquidTag
<1>2. UNCHANGED <<document, pool, docs, freelists, asms, body, rendering>>
      /\ calls' = Append(calls, f)
  BY DEF LiquidTag
<1>3. StateOK'
  BY <1>1, <1>2, StateSame
<1>4. f \in CallRecord /\ f.call = "liquid" /\ f.body = b
  BY DEF CallRecord
<1> HIDE DEF f
<1>5. /\ n \in 1..n /\ Last(calls).call \in {"body", "liquid"} /\ Last(calls).body = b
      /\ Open(b) /\ CodeOf(b).parsing
  BY <1>1, TopFacts
<1>6. calls # << >>
  BY <1>1 DEF Parsing
<1>7. Shape(Append(calls, f))
  BY <1>1, <1>4, <1>5, <1>6, ShapePush DEF CallsOK
<1>8. /\ Len(calls') = n + 1 /\ calls'[n + 1] = f /\ \A i \in 1..n : calls'[i] = calls[i]
      /\ \A i \in 1..n + 1 : i \in 1..n \/ i = n + 1
  BY <1>1, <1>2, <1>4, CallsFacts, AppendFacts
<1>9. CallsOK'
  <2>1. ASSUME NEW i \in 1..n + 1, calls'[i].call # "document"
        PROVE  LET x == calls'[i].body
               IN body[x].phase = "open" /\ asms[body[x].code].parsing
    <3>1. CASE i = n + 1
      BY <1>4, <1>5, <1>8, <3>1 DEF Open, CodeOf
    <3>2. CASE i \in 1..n
      BY <1>1, <1>8, <2>1, <3>2, CallsOpen DEF Open, CodeOf
    <3> QED
      BY <1>8, <3>1, <3>2
  <2>2. Shape(calls)'
    BY <1>2, <1>7, SMTT(20) DEF Shape, InLoop
  <2> QED
    BY <1>2, <1>8, <2>1, <2>2 DEF CallsOK, Open, CodeOf
<1> QED
  BY <1>3, <1>9 DEF IInv

(* The innermost call of a body returns                                     *)
LEMMA ReturnsInv ==
    ASSUME IInv, NEW b \in Bodies, Parsing(b), NEW c, Sound(c),
           NoText(CodeOf(b)) => NoText(c), LoopReturns(b),
           asms' = [asms EXCEPT ![body[b].code] = c],
           c.parsing \/ Last(calls).call = "body",
           UNCHANGED <<document, pool, docs, freelists, rendering>>
    PROVE  IInv'
<1> DEFINE n == Len(calls)
           m == Len(calls) - 1
<1>1. /\ StateOK /\ CallsOK /\ n \in 1..n /\ n \in Nat
      /\ Last(calls) = calls[n] /\ Last(calls) \in CallRecord /\ Open(b) /\ calls[n].body = b
      /\ calls \in Seq(CallRecord)
  BY TopFacts, CallsFacts DEF IInv
<1>2. /\ body[b] \in BodyRecord /\ body \in [Bodies -> BodyRecord]
      /\ body[b].blank => NoText(CodeOf(b))
  BY <1>1, OpenFacts DEF StateOK
<1>3. /\ body' \in [Bodies -> BodyRecord] /\ \A x \in Bodies : x # b => body'[x] = body[x]
      /\ body'[b] = [body[b] EXCEPT !.score = body[b].score + Last(calls).score]
  <2> DEFINE s == body[b].score + Last(calls).score
  <2>1. body[b].score \in Int /\ Last(calls).score \in Nat
    BY <1>1, <1>2 DEF BodyRecord, CallRecord
  <2>2. s \in Int /\ body' = [body EXCEPT ![b].score = s]
    BY <2>1 DEF LoopReturns
  <2> HIDE DEF s
  <2>3. [body[b] EXCEPT !.score = s] \in BodyRecord
    BY <1>2, <2>2 DEF BodyRecord
  <2>4. body'[b] = [body[b] EXCEPT !.score = s]
    BY <1>2, <2>2
  <2>5. body' \in [Bodies -> BodyRecord] /\ \A x \in Bodies : x # b => body'[x] = body[x]
    BY <1>2, <2>2, <2>3
  <2> QED
    BY <2>4, <2>5 DEF s
<1>4. /\ body'[b].phase = "open" /\ body'[b].code = body[b].code /\ body'[b].pool = body[b].pool
      /\ body'[b].blank => NoText(c)
  BY <1>1, <1>2, <1>3 DEF BodyRecord, Open
<1>5. Edit(b, c)
  BY <1>1, <1>3, <1>4 DEF Edit
<1>6. /\ StateOK' /\ CodeOf(b)' = c /\ \A x \in Bodies : Open(x)' <=> Open(x)
      /\ \A x \in Bodies : Open(x) /\ x # b => CodeOf(x)' = CodeOf(x)
  BY <1>1, <1>5, EditKeeps
<1>7. /\ calls' = SubSeq(calls, 1, m) /\ m \in 0..n
      /\ Len(calls') = m /\ \A i \in 1..m : calls'[i] = calls[i] /\ i \in 1..n /\ i < n
  <2>1. calls' = SubSeq(calls, 1, m) /\ m \in 0..n /\ m < n
    BY <1>1 DEF LoopReturns, Front
  <2> HIDE DEF m
  <2>2. Len(SubSeq(calls, 1, m)) = m /\ \A i \in 1..m : SubSeq(calls, 1, m)[i] = calls[i]
    BY <1>1, <2>1, PrefixFacts
  <2>3. \A i \in 1..m : i \in 1..n /\ i < n
    BY <1>1, <2>1
  <2> QED
    BY <2>1, <2>2, <2>3
<1> HIDE DEF m
<1>8. Shape(calls')
  BY <1>1, <1>7, ShapePrefix DEF CallsOK
<1>9. CallsOK'
  <2>1. ASSUME NEW i \in 1..m, calls[i].call # "document"
        PROVE  LET x == calls[i].body
               IN body'[x].phase = "open" /\ asms'[body'[x].code].parsing
    <3>1. calls[i].body \in Bodies /\ Open(calls[i].body) /\ CodeOf(calls[i].body).parsing
      BY <1>1, <1>7, <2>1, CallsOpen
    <3>2. CASE calls[i].body # b
      BY <1>6, <3>1, <3>2 DEF Open, CodeOf
    <3>3. CASE calls[i].body = b
      <4>1. calls[n].call # "body"
        BY <1>1, <1>7, <2>1, <3>3 DEF CallsOK, Shape
      <4>2. c.parsing
        BY <1>1, <4>1
      <4> QED
        BY <1>1, <1>6, <3>3, <4>2 DEF Open, CodeOf
    <3> QED
      BY <3>2, <3>3
  <2> QED
    BY <1>1, <1>7, <1>8, <2>1, CallsStay
<1> QED
  BY <1>6, <1>9 DEF IInv

LEMMA EndLiquidTagInv ==
    ASSUME IInv, NEW b \in Bodies, EndLiquidTag(b)
    PROVE  IInv'
<1> DEFINE c == CodeOf(b)
<1>1. /\ Parsing(b) /\ LoopReturns(b) /\ StateOK /\ CallsOK
      /\ UNCHANGED <<document, pool, docs, freelists, asms, rendering>>
  BY DEF EndLiquidTag, IInv
<1>2. Open(b) /\ c.parsing /\ Sound(c)
  BY <1>1, TopFacts, OpenFacts
<1>3. asms' = [asms EXCEPT ![body[b].code] = c]
  <2>1. asms \in Seq(CodeRecord) /\ body[b].code \in 1..Len(asms)
    BY <1>1, <1>2, OpenFacts DEF StateOK, AsmsOK
  <2> QED
    BY <1>1, <2>1 DEF CodeOf
<1> HIDE DEF c
<1>4. NoText(CodeOf(b)) => NoText(c)
  BY DEF c
<1> QED
  BY <1>1, <1>2, <1>3, <1>4, ReturnsInv

LEMMA EndParseInv ==
    ASSUME IInv, NEW b \in Bodies, EndParse(b)
    PROVE  IInv'
<1> DEFINE c == AddLeave(CodeOf(b))
<1>1. /\ Parsing(b) /\ LoopReturns(b) /\ StateOK /\ CallsOK /\ Last(calls).call = "body"
      /\ UNCHANGED <<document, pool, docs, freelists, rendering>>
      /\ asms' = [asms EXCEPT ![body[b].code] = c]
  BY DEF EndParse, IInv
<1>2. Open(b) /\ Sound(CodeOf(b))
  BY <1>1, TopFacts, OpenFacts
<1>3. Sound(c) /\ (NoText(CodeOf(b)) => NoText(c))
  BY <1>2, AddLeaveSound
<1> HIDE DEF c
<1> QED
  BY <1>1, <1>3, ReturnsInv

LEMMA ParseCallFacts ==
    ASSUME CallsOK, NEW b \in Bodies, Parsing(b)
    PROVE  /\ ParseCall \in 1..Len(calls) /\ calls[ParseCall].call = "body"
           /\ \A j \in ParseCall + 1..Len(calls) : calls[j].call = "liquid"
<1> DEFINE n == Len(calls)
<1>1. n \in 1..n /\ n \in Nat /\ calls[n].call \in {"body", "liquid"}
  BY TopFacts, CallsFacts
<1>2. \E i \in 1..n : calls[i].call = "body" /\ \A j \in i + 1..n : calls[j].call = "liquid"
  <2>1. CASE calls[n].call = "body"
    BY <1>1, <2>1
  <2>2. CASE calls[n].call = "liquid"
    <3>1. PICK k \in 1..n : InLoop(calls, k, n)
      BY <1>1, <2>2 DEF CallsOK, Shape
    <3> QED
      BY <3>1 DEF InLoop
  <2> QED
    BY <1>1, <2>1, <2>2
<1> QED
  BY <1>2 DEF ParseCall

LEMMA ParseRaisesInv ==
    ASSUME IInv, NEW b \in Bodies, ParseRaises(b)
    PROVE  IInv'
<1> DEFINE n == Len(calls)
           m == ParseCall - 1
<1>1. /\ StateOK /\ CallsOK /\ Parsing(b) /\ n \in 1..n /\ n \in Nat
      /\ Last(calls) = calls[n] /\ Last(calls).call \in {"body", "liquid"}
      /\ calls \in Seq(CallRecord)
  <2>1. StateOK /\ CallsOK /\ Parsing(b)
    BY DEF IInv, ParseRaises
  <2> QED
    BY <2>1, TopFacts, CallsFacts
<1>2. UNCHANGED <<document, pool, docs, freelists, asms, body, rendering>>
      /\ calls' = SubSeq(calls, 1, m)
  BY DEF ParseRaises, Unwind
<1>3. StateOK'
  BY <1>1, <1>2, StateSame
<1>4. ParseCall \in 1..n
  BY <1>1, ParseCallFacts
<1>5. m \in 0..n /\ m \in Nat
  BY <1>1, <1>4
<1> HIDE DEF m
<1>6. Len(calls') = m /\ \A i \in 1..m : calls'[i] = calls[i]
  BY <1>1, <1>2, <1>5, PrefixFacts
<1>7. \A i \in 1..m : i \in 1..n
  BY <1>1, <1>5
<1>8. Shape(calls')
  BY <1>1, <1>2, <1>5, ShapePrefix DEF CallsOK
<1>9. CallsOK'
  <2>1. ASSUME NEW i \in 1..m, calls[i].call # "document"
        PROVE  LET x == calls[i].body
               IN body'[x].phase = "open" /\ asms'[body'[x].code].parsing
    BY <1>1, <1>2, <1>7, <2>1, CallsOpen DEF Open, CodeOf
  <2> QED
    BY <1>1, <1>5, <1>6, <1>8, <2>1, CallsStay
<1> QED
  BY <1>3, <1>9 DEF IInv

LEMMA RemoveBlankStringsInv ==
    ASSUME IInv, NEW b \in Bodies, RemoveBlankStrings(b)
    PROVE  IInv'
<1> DEFINE ins == CodeOf(b).ins
           Removed(i) == IF i.op \in {"text", "space"} THEN Instr("jump", 0) ELSE i
           trimmed == [j \in 1..Len(ins) |-> Removed(ins[j])]
           removed == {j \in 1..Len(ins) : ins[j].op \in {"text", "space"}}
           c == [CodeOf(b) EXCEPT !.ins = trimmed]
           s == body[b].score - Cardinality(removed)
<1>1. /\ StateOK /\ CallsOK /\ Open(b) /\ ~CodeOf(b).parsing /\ body[b].blank
      /\ asms' = [asms EXCEPT ![body[b].code].ins = trimmed]
      /\ body' = [body EXCEPT ![b].score = s]
      /\ UNCHANGED <<document, pool, docs, freelists, calls, rendering>>
  BY DEF IInv, RemoveBlankStrings
<1>2. /\ Sound(CodeOf(b)) /\ NoText(CodeOf(b)) /\ body[b] \in BodyRecord
      /\ body[b].code \in 1..Len(asms) /\ asms \in Seq(CodeRecord)
      /\ body \in [Bodies -> BodyRecord]
  BY <1>1, OpenFacts DEF StateOK, AsmsOK
<1>3. ins \in Seq(Instrs) /\ Len(ins) \in Nat /\ CodeOf(b) \in CodeRecord
  BY <1>2, SoundFacts
<1>4. \A j \in 1..Len(ins) : /\ trimmed[j] \in Instrs
                             /\ trimmed[j].op = "node" => trimmed[j] = ins[j]
                             /\ ins[j].op = "leave" => trimmed[j].op = "leave"
                             /\ trimmed[j].op \in {"text", "var"} => ins[j].op = "var"
  <2>1. \A j \in 1..Len(ins) : ins[j] \in Instrs
    BY <1>3
  <2>2. \A j \in 1..Len(ins) :
          trimmed[j] = IF ins[j].op \in {"text", "space"} THEN Instr("jump", 0) ELSE ins[j]
    OBVIOUS
  <2>3. Instr("jump", 0) \in Instrs /\ Instr("jump", 0).op = "jump"
    BY DEF Instr, Instrs, Ops
  <2> HIDE DEF ins, trimmed
  <2> QED
    BY <2>1, <2>2, <2>3
<1>5. trimmed \in Seq(Instrs) /\ Len(trimmed) = Len(ins)
  <2> DEFINE n == Len(ins)
  <2>1. n \in Nat /\ trimmed \in [1..n -> Instrs]
    BY <1>3, <1>4
  <2> HIDE DEF trimmed, n
  <2>2. trimmed \in Seq(Instrs) /\ Len(trimmed) = n
    BY <2>1
  <2> QED
    BY <2>2 DEF n
<1>6. s \in Int
  <2>1. IsFiniteSet(1..Len(ins))
    BY <1>3, FS_Interval
  <2>2. removed \subseteq 1..Len(ins)
    OBVIOUS
  <2> HIDE DEF removed
  <2>3. IsFiniteSet(removed)
    BY <2>1, <2>2, FS_Subset
  <2>4. Cardinality(removed) \in Nat
    BY <2>3, FS_CardinalityType
  <2>5. body[b].score \in Int
    BY <1>2 DEF BodyRecord
  <2> QED
    BY <2>4, <2>5
<1>7. asms' = [asms EXCEPT ![body[b].code] = c]
  BY <1>1 DEF CodeOf
<1> HIDE DEF trimmed, removed, s
<1>8. c \in CodeRecord /\ c.ins = trimmed /\ c.consts = CodeOf(b).consts /\ ~c.parsing
  BY <1>1, <1>3, <1>5, CodeRecordIs
<1> HIDE DEF c
<1>9. Sound(c) /\ NoText(c)
  <2>1. ins # << >> /\ Last(ins).op = "leave" /\ Len(ins) # 0
    BY <1>1, <1>2, <1>3 DEF Sound
  <2>2. trimmed # << >> /\ Last(trimmed).op = "leave"
    BY <1>3, <1>4, <1>5, <2>1 DEF Last
  <2>3. \A j \in 1..Len(c.ins) : c.ins[j].op = "node" => c.ins[j].const < Len(c.consts)
    BY <1>2, <1>4, <1>5, <1>8 DEF Sound
  <2>4. NoText(c)
    BY <1>2, <1>4, <1>5, <1>8 DEF NoText
  <2> QED
    BY <1>8, <2>2, <2>3, <2>4 DEF Sound
<1> HIDE DEF ins
<1>10. /\ body' \in [Bodies -> BodyRecord] /\ \A x \in Bodies : x # b => body'[x] = body[x]
       /\ body'[b] = [body[b] EXCEPT !.score = s]
  <2>1. [body[b] EXCEPT !.score = s] \in BodyRecord
    BY <1>2, <1>6 DEF BodyRecord
  <2>2. body'[b] = [body[b] EXCEPT !.score = s]
    BY <1>1, <1>2
  <2> QED
    BY <1>1, <1>2, <2>1, <2>2
<1>11. /\ body'[b].phase = "open" /\ body'[b].code = body[b].code
       /\ body'[b].pool = body[b].pool
  BY <1>1, <1>2, <1>10 DEF BodyRecord, Open
<1>12. Edit(b, c)
  BY <1>1, <1>7, <1>9, <1>10, <1>11 DEF Edit
<1>13. /\ StateOK' /\ \A x \in Bodies : Open(x)' <=> Open(x)
       /\ \A x \in Bodies : Open(x) /\ x # b => CodeOf(x)' = CodeOf(x)
  BY <1>1, <1>12, EditKeeps
<1>14. CallsOK'
  <2>1. ASSUME NEW i \in 1..Len(calls), calls[i].call # "document"
        PROVE  LET x == calls[i].body
               IN body'[x].phase = "open" /\ asms'[body'[x].code].parsing
    <3>1. calls[i].body \in Bodies /\ Open(calls[i].body) /\ CodeOf(calls[i].body).parsing
      BY <1>1, <2>1, CallsOpen
    <3>2. calls[i].body # b
      BY <1>1, <3>1
    <3> QED
      BY <1>13, <3>1, <3>2 DEF Open, CodeOf
  <2>2. calls' = calls /\ Len(calls) \in Nat /\ Shape(calls')
    BY <1>1, CallsFacts DEF CallsOK
  <2> QED
    BY <1>1, <2>1, <2>2, CallsStay
<1> QED
  BY <1>13, <1>14 DEF IInv

-----------------------------------------------------------------------------
(* Documents start and end                                                 *)

LEMMA DocumentsState ==
    ASSUME StateOK, UNCHANGED <<asms, body, rendering>>, DocsOK', Grown, ListsOK',
           Len(freelists) <= Len(freelists'),
           \A p \in 1..Len(freelists') : \A i \in 1..Len(freelists'[p]) :
             p \in 1..Len(freelists) /\ freelists'[p] = freelists[p]
    PROVE  StateOK'
<1>1. AsmsOK' /\ body' \in [Bodies -> BodyRecord]
  BY DEF StateOK, AsmsOK
<1>2. OpenOK'
  <2>1. Len(freelists) \in Nat /\ Len(freelists') \in Nat
    BY DEF StateOK, ListsOK
  <2>2. \A p \in 1..Len(freelists) : p \in 1..Len(freelists')
    BY <2>1
  <2> QED
    BY <2>2 DEF StateOK, OpenOK, Open, CodeOf, NoText
<1>3. CompiledOK'
  <2>1. docs' \in Seq(Docs)
    BY DEF DocsOK
  <2>2. \A b \in Bodies : Compiled(b) => Reads(docs', body'[b])
    BY <2>1, CompiledStay DEF StateOK
  <2> QED
    BY <2>2 DEF CompiledOK, Compiled, Reads
<1>4. RenderingOK'
  <2>1. ASSUME NEW b \in rendering
        PROVE  b \in Bodies /\ Compiled(b) /\ docs'[body[b].doc].frozen
    <3>1. b \in Bodies /\ Compiled(b) /\ docs[body[b].doc].frozen
          /\ body[b].doc \in 1..Len(docs)
      BY DEF StateOK, RenderingOK, CompiledOK, Reads
    <3> QED
      BY <3>1 DEF Grown, Extends
  <2> QED
    BY <2>1 DEF RenderingOK, Compiled
<1>5. AssemblersOwned'
  <2>1. \A p \in 1..Len(freelists') : \A i \in 1..Len(freelists'[p]) :
          /\ asms[freelists'[p][i]] = Reset
          /\ \A b \in Bodies : Open(b) => body[b].code # freelists'[p][i]
          /\ \A q \in 1..Len(freelists') : \A j \in 1..Len(freelists'[q]) :
               freelists'[q][j] = freelists'[p][i] => p = q /\ i = j
    BY SMTT(20) DEF StateOK, AssemblersOwned
  <2>2. \A b, c \in Bodies : Open(b) /\ Open(c) /\ b # c => body[b].code # body[c].code
    BY DEF StateOK, AssemblersOwned
  <2>3. asms' = asms /\ body' = body
    OBVIOUS
  <2>4. \A b, c \in Bodies : Open(b)' /\ Open(c)' /\ b # c => body'[b].code # body'[c].code
    BY <2>2, <2>3 DEF Open
  <2>5. \A p \in 1..Len(freelists') : \A i \in 1..Len(freelists'[p]) :
          /\ asms'[freelists'[p][i]] = Reset
          /\ \A b \in Bodies : Open(b)' => body'[b].code # freelists'[p][i]
    BY <2>1, <2>3 DEF Open
  <2>6. \A p \in 1..Len(freelists') : \A i \in 1..Len(freelists'[p]) :
          \A q \in 1..Len(freelists') : \A j \in 1..Len(freelists'[q]) :
            freelists'[q][j] = freelists'[p][i] => p = q /\ i = j
    BY <2>1
  <2> QED
    BY <2>4, <2>5, <2>6 DEF AssemblersOwned
<1> QED
  BY <1>1, <1>2, <1>3, <1>4, <1>5 DEF StateOK

LEMMA StartDocumentInv ==
    ASSUME IInv, StartDocument
    PROVE  IInv'
<1> DEFINE new == [frozen |-> FALSE, buffer |-> << >>, constants |-> << >>]
           f == [call |-> "document", body |-> 0, score |-> 0]
           n == Len(calls)
<1>1. /\ StateOK /\ CallsOK /\ document = 0
      /\ docs \in Seq(Docs) /\ freelists \in Seq(Seq(Nat))
      /\ docs' = Append(docs, new) /\ document' = Len(docs')
      /\ freelists' = Append(freelists, << >>) /\ pool' = Len(freelists')
      /\ calls' = Append(calls, f) /\ UNCHANGED <<asms, body, rendering>>
  BY DEF IInv, StartDocument, StateOK, DocsOK, ListsOK
<1>2. new \in Docs /\ new.frozen = FALSE
  BY DEF Docs
<1>3. f \in CallRecord /\ f.call = "document"
  BY DEF CallRecord
<1>4. << >> \in Seq(Nat) /\ Len(<< >>) = 0
  OBVIOUS
<1> HIDE DEF new, f
<1>5. /\ docs' \in Seq(Docs) /\ Len(docs') = Len(docs) + 1 /\ Len(docs) \in Nat
      /\ docs'[Len(docs) + 1] = new /\ \A d \in 1..Len(docs) : docs'[d] = docs[d]
  BY <1>1, <1>2, AppendFacts
<1>6. /\ freelists' \in Seq(Seq(Nat)) /\ Len(freelists') = Len(freelists) + 1
      /\ Len(freelists) \in Nat /\ freelists'[Len(freelists) + 1] = << >>
      /\ \A p \in 1..Len(freelists) : freelists'[p] = freelists[p]
  BY <1>1, <1>4, AppendFacts
<1>7. DocsOK'
  BY <1>1, <1>2, <1>5 DEF DocsOK
<1>8. Grown
  <2>1. \A d \in 1..Len(docs) : Extends(docs[d], docs[d])
    BY <1>1, DocFacts DEF StateOK, Extends
  <2> QED
    BY <1>5, <2>1 DEF Grown
<1>9. \A p \in 1..Len(freelists') : \A i \in 1..Len(freelists'[p]) :
        p \in 1..Len(freelists) /\ freelists'[p] = freelists[p]
  <2>1. \A p \in 1..Len(freelists') : p \in 1..Len(freelists) \/ p = Len(freelists) + 1
    BY <1>6
  <2> QED
    BY <1>4, <1>6, <2>1, SMTT(20)
<1>10. ListsOK'
  <2>1. \A p \in 1..Len(freelists') : \A i \in 1..Len(freelists'[p]) :
          freelists'[p][i] \in 1..Len(asms')
    BY <1>1, <1>9 DEF StateOK, ListsOK
  <2>2. pool' \in 0..Len(freelists')
    BY <1>1, <1>6
  <2> QED
    BY <1>6, <2>1, <2>2 DEF ListsOK
<1>11. StateOK'
  BY <1>1, <1>6, <1>7, <1>8, <1>9, <1>10, DocumentsState
<1>12. /\ Len(calls') = n + 1 /\ calls'[n + 1] = f /\ \A i \in 1..n : calls'[i] = calls[i]
       /\ \A i \in 1..n + 1 : i \in 1..n \/ i = n + 1
  BY <1>1, <1>3, CallsFacts, AppendFacts
<1>13. Shape(Append(calls, f))
  BY <1>1, <1>3, ShapePush DEF CallsOK
<1>14. CallsOK'
  <2>1. ASSUME NEW i \in 1..n + 1, calls'[i].call # "document"
        PROVE  LET x == calls'[i].body
               IN body[x].phase = "open" /\ asms[body[x].code].parsing
    <3>1. i \in 1..n
      BY <1>3, <1>12, <2>1
    <3> QED
      BY <1>1, <1>12, <2>1, <3>1, CallsOpen DEF Open, CodeOf
  <2>2. Shape(calls)'
    <3>1. calls' = Append(calls, f)
      BY <1>1
    <3> QED
      BY <1>13, <3>1 DEF Shape, InLoop
  <2> QED
    BY <1>1, <1>12, <2>1, <2>2 DEF CallsOK, Open, CodeOf
<1> QED
  BY <1>11, <1>14 DEF IInv

(* The document that is frozen last keeps what it holds.                    *)
LEMMA CleanupGrows ==
    ASSUME StateOK, Cleanup
    PROVE  docs' \in Seq(Docs) /\ Grown
<1> DEFINE new == [docs[document] EXCEPT !.frozen = TRUE]
<1>1. /\ docs \in Seq(Docs) /\ document \in 0..Len(docs) /\ Len(docs) \in Nat
      /\ \A d \in 1..Len(docs) : Extends(docs[d], docs[d])
  <2>1. DocsOK
    BY DEF StateOK
  <2> QED
    BY <2>1, DocFacts DEF Extends, DocsOK
<1>2. docs' \in Seq(Docs) /\ Grown
  <2>1. CASE document = 0
    BY <1>1, <2>1 DEF Cleanup, Grown
  <2>2. CASE document # 0
    <3>1. document \in 1..Len(docs) /\ docs[document] \in Docs
      BY <1>1, <2>2
    <3>2. docs' = [docs EXCEPT ![document] = new]
      BY <2>2 DEF Cleanup
    <3>3. new \in Docs /\ Extends(new, docs[document])
      BY <1>1, <3>1 DEF Docs, Extends
    <3> HIDE DEF new
    <3>4. docs' \in Seq(Docs) /\ Len(docs') = Len(docs) /\ docs'[document] = new
          /\ \A d \in 1..Len(docs) : d # document => docs'[d] = docs[d]
      BY <1>1, <3>1, <3>2, <3>3
    <3> QED
      BY <1>1, <3>3, <3>4 DEF Grown
  <2> QED
    BY <2>1, <2>2
<1> QED
  BY <1>2

LEMMA CleanupState ==
    ASSUME StateOK, Cleanup, UNCHANGED <<freelists, asms, body, rendering>>
    PROVE  StateOK'
<1>2. docs' \in Seq(Docs) /\ Grown
  BY CleanupGrows
<1>3. DocsOK'
  BY <1>2 DEF DocsOK, Cleanup
<1>4. ListsOK'
  BY DEF StateOK, ListsOK, Cleanup
<1> QED
  BY <1>2, <1>3, <1>4, DocumentsState DEF StateOK, ListsOK

LEMMA RefuseDocumentInv ==
    ASSUME IInv, RefuseDocument
    PROVE  IInv'
<1>1. StateOK /\ CallsOK /\ Cleanup /\ UNCHANGED <<freelists, asms, body, calls, rendering>>
  BY DEF IInv, RefuseDocument
<1>2. StateOK'
  BY <1>1, CleanupState
<1>3. CallsOK'
  BY <1>1 DEF CallsOK, Shape, InLoop, Open, CodeOf
<1> QED
  BY <1>2, <1>3 DEF IInv

LEMMA EndDocumentInv ==
    ASSUME IInv, EndDocument
    PROVE  IInv'
<1> DEFINE n == Len(calls)
           m == Len(calls) - 1
<1>1. /\ StateOK /\ CallsOK /\ Cleanup /\ UNCHANGED <<freelists, asms, body, rendering>>
      /\ calls # << >> /\ calls \in Seq(CallRecord) /\ calls[n].call = "document"
      /\ calls' = SubSeq(calls, 1, m)
  BY CallsFacts DEF IInv, EndDocument, Front, Last
<1>2. StateOK'
  BY <1>1, CleanupState
<1>3. n \in 1..n /\ n \in Nat /\ m \in 0..n /\ m \in Nat /\ m < n
  BY <1>1
<1> HIDE DEF m
<1>4. /\ Len(calls') = m /\ \A i \in 1..m : calls'[i] = calls[i]
      /\ Shape(calls')
  BY <1>1, <1>3, PrefixFacts, ShapePrefix DEF CallsOK
<1>5. \A i \in 1..m : i \in 1..n /\ i # n
  BY <1>3
<1>6. CallsOK'
  <2>1. ASSUME NEW i \in 1..m, calls[i].call # "document"
        PROVE  LET x == calls[i].body
               IN body'[x].phase = "open" /\ asms'[body'[x].code].parsing
    BY <1>1, <1>5, <2>1, CallsOpen DEF Open, CodeOf
  <2> QED
    BY <1>1, <1>3, <1>4, <2>1, CallsStay
<1> QED
  BY <1>2, <1>6 DEF IInv

-----------------------------------------------------------------------------
(* A body takes an assembler from the pool, and gives it back               *)

LEMMA TailFacts ==
    ASSUME NEW T, NEW s \in Seq(T), s # << >>
    PROVE  /\ Tail(s) \in Seq(T) /\ Len(Tail(s)) = Len(s) - 1 /\ Len(s) \in Nat \ {0}
           /\ Head(s) = s[1] /\ \A i \in 1..Len(s) - 1 : Tail(s)[i] = s[i + 1]
OBVIOUS

LEMMA OwnedFacts ==
    ASSUME AssemblersOwned
    PROVE  /\ \A x, y \in Bodies : Open(x) /\ Open(y) /\ x # y => body[x].code # body[y].code
           /\ \A p \in 1..Len(freelists) : \A i \in 1..Len(freelists[p]) :
                asms[freelists[p][i]] = Reset
           /\ \A p \in 1..Len(freelists) : \A i \in 1..Len(freelists[p]) :
                \A x \in Bodies : Open(x) => body[x].code # freelists[p][i]
           /\ \A p, q \in 1..Len(freelists) :
                \A i \in 1..Len(freelists[p]), j \in 1..Len(freelists[q]) :
                  freelists[q][j] = freelists[p][i] => p = q /\ i = j
BY DEF AssemblersOwned

LEMMA OwnedOnce ==
    ASSUME AssemblersOwned, NEW p \in 1..Len(freelists), NEW q \in 1..Len(freelists),
           NEW i \in 1..Len(freelists[p]), NEW j \in 1..Len(freelists[q]),
           freelists[q][j] = freelists[p][i]
    PROVE  p = q /\ i = j
BY OwnedFacts

LEMMA NewBodyInv ==
    ASSUME IInv, NEW b \in Bodies, NewBody(b)
    PROVE  IInv'
<1> DEFINE free == freelists[pool]
           recycled == free # << >>
           a == IF recycled THEN Head(free) ELSE Len(asms) + 1
           c == AddLeave(Reset)
           r == [Unborn EXCEPT !.phase = "open", !.pool = pool, !.code = a]
           shift(p) == IF recycled /\ p = pool THEN 1 ELSE 0
<1>1. /\ StateOK /\ CallsOK /\ body[b].phase = "none" /\ pool # 0
      /\ UNCHANGED <<document, pool, docs, calls, rendering>>
      /\ body' = [body EXCEPT ![b] = r]
      /\ freelists' = IF recycled THEN [freelists EXCEPT ![pool] = Tail(free)] ELSE freelists
      /\ asms' = IF recycled THEN [asms EXCEPT ![a] = AddLeave(asms[a])] ELSE Append(asms, c)
  BY DEF IInv, NewBody
<1>2. /\ freelists \in Seq(Seq(Nat)) /\ Len(freelists) \in Nat /\ pool \in 1..Len(freelists)
      /\ free \in Seq(Nat) /\ asms \in Seq(CodeRecord) /\ Len(asms) \in Nat
      /\ body \in [Bodies -> BodyRecord] /\ (\A i \in 1..Len(asms) : Sound(asms[i]))
      /\ \A p \in 1..Len(freelists) : /\ freelists[p] \in Seq(Nat) /\ Len(freelists[p]) \in Nat
                                      /\ \A i \in 1..Len(freelists[p]) :
                                           freelists[p][i] \in 1..Len(asms)
  BY <1>1, SMTT(20) DEF StateOK, ListsOK, AsmsOK
<1>22. /\ \A x, y \in Bodies : Open(x) /\ Open(y) /\ x # y => body[x].code # body[y].code
       /\ \A p \in 1..Len(freelists) : \A i \in 1..Len(freelists[p]) :
            asms[freelists[p][i]] = Reset
       /\ \A p \in 1..Len(freelists) : \A i \in 1..Len(freelists[p]) :
            \A x \in Bodies : Open(x) => body[x].code # freelists[p][i]
       /\ \A p, q \in 1..Len(freelists) :
            \A i \in 1..Len(freelists[p]), j \in 1..Len(freelists[q]) :
              freelists[q][j] = freelists[p][i] => p = q /\ i = j
  BY <1>1, OwnedFacts DEF StateOK
<1>3. Sound(c) /\ ~c.parsing /\ NoText(c) /\ c \in CodeRecord
  BY ResetSound, AddLeaveSound DEF Sound
<1> HIDE DEF c
<1>4. /\ asms' \in Seq(CodeRecord) /\ Len(asms') \in Nat /\ Len(asms) <= Len(asms')
      /\ a \in 1..Len(asms') /\ asms'[a] = c
      /\ \A i \in 1..Len(asms) : i # a => asms'[i] = asms[i]
      /\ \A i \in 1..Len(asms') : i \in 1..Len(asms) \/ i = a
      /\ recycled => a = freelists[pool][1] /\ 1 \in 1..Len(freelists[pool])
      /\ ~recycled => a \notin 1..Len(asms)
  <2>1. CASE recycled
    <3>1. a = free[1] /\ 1 \in 1..Len(free)
      BY <1>2, <2>1, TailFacts
    <3>2. a \in 1..Len(asms) /\ asms[a] = Reset
      <4>1. free[1] \in 1..Len(asms) /\ asms[free[1]] = Reset
        BY <1>2, <1>22, <3>1
      <4> QED
        BY <3>1, <4>1
    <3>3. asms' = [asms EXCEPT ![a] = c]
      BY <1>1, <2>1, <3>2 DEF c
    <3>4. a = freelists[pool][1] /\ 1 \in 1..Len(freelists[pool])
      BY <3>1
    <3>5. /\ asms' \in Seq(CodeRecord) /\ Len(asms') = Len(asms) /\ asms'[a] = c
          /\ \A i \in 1..Len(asms) : i # a => asms'[i] = asms[i]
      <4> HIDE DEF a
      <4> QED
        BY <1>2, <1>3, <3>2, <3>3
    <3> QED
      BY <1>2, <2>1, <3>2, <3>4, <3>5
  <2>2. CASE ~recycled
    <3>1. a = Len(asms) + 1 /\ asms' = Append(asms, c)
      BY <1>1, <2>2
    <3>2. /\ asms' \in Seq(CodeRecord) /\ Len(asms') = Len(asms) + 1
          /\ asms'[Len(asms) + 1] = c /\ \A i \in 1..Len(asms) : asms'[i] = asms[i]
      BY <1>2, <1>3, <3>1, AppendFacts
    <3> HIDE DEF free
    <3> QED
      BY <1>2, <2>2, <3>1, <3>2
  <2> QED
    BY <2>1, <2>2
<1>5. /\ freelists' \in Seq(Seq(Nat)) /\ Len(freelists') = Len(freelists)
      /\ \A p \in 1..Len(freelists) : \A i \in 1..Len(freelists'[p]) :
           /\ i + shift(p) \in 1..Len(freelists[p])
           /\ freelists'[p][i] = freelists[p][i + shift(p)]
  <2>1. CASE recycled
    <3>1. /\ Tail(free) \in Seq(Nat) /\ Len(Tail(free)) = Len(free) - 1 /\ Len(free) \in Nat
          /\ \A i \in 1..Len(free) - 1 : Tail(free)[i] = free[i + 1]
      BY <1>2, <2>1, TailFacts
    <3>2. freelists' = [freelists EXCEPT ![pool] = Tail(free)]
      BY <1>1, <2>1
    <3>3. /\ freelists' \in Seq(Seq(Nat)) /\ Len(freelists') = Len(freelists)
          /\ freelists'[pool] = Tail(free)
          /\ \A p \in 1..Len(freelists) : p # pool => freelists'[p] = freelists[p]
      BY <1>2, <3>1, <3>2
    <3>4. ASSUME NEW p \in 1..Len(freelists), NEW i \in 1..Len(freelists'[p])
          PROVE  /\ i + shift(p) \in 1..Len(freelists[p])
                 /\ freelists'[p][i] = freelists[p][i + shift(p)]
      <4>1. CASE p = pool
        <5>1. shift(p) = 1
          BY <2>1, <4>1
        <5>2. freelists'[p] = Tail(free) /\ freelists[p] = free
          BY <3>3, <4>1
        <5> HIDE DEF shift, free
        <5>3. i \in 1..Len(free) - 1 /\ i + 1 \in 1..Len(free)
          BY <3>1, <5>2
        <5> QED
          BY <3>1, <5>1, <5>2, <5>3
      <4>2. CASE p # pool
        <5>1. shift(p) = 0
          BY <4>2
        <5> QED
          BY <1>2, <3>3, <4>2, <5>1, SMTT(20)
      <4> QED
        BY <4>1, <4>2
    <3> QED
      BY <3>3, <3>4
  <2>2. CASE ~recycled
    <3>1. freelists' = freelists /\ \A p \in 1..Len(freelists) : shift(p) = 0
      BY <1>1, <2>2
    <3>2. \A p \in 1..Len(freelists) : \A i \in 1..Len(freelists[p]) : i + 0 = i
      BY <1>2
    <3> QED
      BY <1>2, <3>1, <3>2
  <2> QED
    BY <2>1, <2>2
<1>6. \A x \in Bodies : Open(x) => body[x].code # a /\ body[x].code \in 1..Len(asms)
  <2>1. \A x \in Bodies : Open(x) => body[x].code \in 1..Len(asms)
    BY <1>1 DEF StateOK, OpenOK
  <2>2. CASE recycled
    <3>1. a = freelists[pool][1] /\ 1 \in 1..Len(freelists[pool]) /\ pool \in 1..Len(freelists)
      BY <1>2, <1>4, <2>2
    <3> HIDE DEF a
    <3> QED
      BY <1>22, <2>1, <3>1
  <2>3. CASE ~recycled
    BY <1>4, <2>1, <2>3
  <2> QED
    BY <2>1, <2>2, <2>3
<1>7. \A p \in 1..Len(freelists) : \A i \in 1..Len(freelists'[p]) :
        freelists'[p][i] # a /\ freelists'[p][i] \in 1..Len(asms)
  <2> SUFFICES ASSUME NEW p \in 1..Len(freelists), NEW i \in 1..Len(freelists'[p])
               PROVE  freelists'[p][i] # a /\ freelists'[p][i] \in 1..Len(asms)
    OBVIOUS
  <2> DEFINE k == i + shift(p)
  <2>1. k \in 1..Len(freelists[p]) /\ freelists'[p][i] = freelists[p][k]
    BY <1>5
  <2>2. freelists[p][k] \in 1..Len(asms)
    BY <1>2, <2>1
  <2>3. CASE recycled
    <3>1. p = pool => k # 1
      BY <1>2, <1>5, <2>3
    <3> HIDE DEF k
    <3>2. freelists[p][k] = freelists[pool][1] => p = pool /\ k = 1
      <4>1. /\ 1 \in 1..Len(freelists[pool]) /\ pool \in 1..Len(freelists)
            /\ k \in 1..Len(freelists[p]) /\ AssemblersOwned
        BY <1>1, <1>2, <1>4, <2>1, <2>3 DEF StateOK
      <4> QED
        BY <4>1, OwnedOnce
    <3> QED
      BY <1>4, <2>1, <2>2, <2>3, <3>1, <3>2
  <2>4. CASE ~recycled
    BY <1>4, <2>1, <2>2, <2>4
  <2> QED
    BY <2>3, <2>4
<1>8. r \in BodyRecord /\ r.phase = "open" /\ r.code = a /\ r.pool = pool
  <2>1. a \in Nat /\ pool \in Nat /\ Reset \in CodeRecord
    BY <1>2, <1>4, ResetSound DEF Sound
  <2> HIDE DEF a
  <2>2. Unborn \in BodyRecord
    BY <2>1 DEF BodyRecord, Unborn
  <2> QED
    BY <2>1, <2>2 DEF BodyRecord
<1> HIDE DEF r, a, free, recycled, shift
<1>9. /\ body' \in [Bodies -> BodyRecord] /\ body'[b] = r
      /\ \A x \in Bodies : x # b => body'[x] = body[x]
  BY <1>1, <1>2, <1>8
<1>10. \A x \in Bodies : Open(x) => x # b
  BY <1>1 DEF Open
<1>11. \A x \in Bodies : Open(x)' <=> Open(x) \/ x = b
  BY <1>8, <1>9, <1>10 DEF Open
<1>12. \A x \in Bodies : Open(x) => body'[x] = body[x] /\ asms'[body'[x].code] = CodeOf(x)
  BY <1>4, <1>6, <1>9, <1>10 DEF CodeOf
<1>13. AsmsOK'
  BY <1>2, <1>3, <1>4 DEF AsmsOK
<1>14. DocsOK'
  BY <1>1 DEF StateOK, DocsOK
<1>15. ListsOK'
  <2>1. \A p \in 1..Len(freelists') : \A i \in 1..Len(freelists'[p]) :
          freelists'[p][i] \in 1..Len(asms')
    <3>1. \A x \in 1..Len(asms) : x \in 1..Len(asms')
      BY <1>2, <1>4
    <3> QED
      BY <1>5, <1>7, <3>1
  <2>2. pool' \in 0..Len(freelists') /\ freelists' \in Seq(Seq(Nat))
    BY <1>1, <1>2, <1>5
  <2> QED
    BY <2>1, <2>2 DEF ListsOK
<1>16. OpenOK'
  <2> SUFFICES ASSUME NEW x \in Bodies, Open(x)'
               PROVE  /\ body'[x].code \in 1..Len(asms') /\ body'[x].pool \in 1..Len(freelists')
                      /\ body'[x].blank => NoText(asms'[body'[x].code])
    BY DEF OpenOK, NoText, CodeOf
  <2>1. CASE x = b
    BY <1>2, <1>3, <1>4, <1>5, <1>8, <1>9, <2>1
  <2>2. CASE Open(x)
    <3>1. /\ body[x].code \in 1..Len(asms) /\ body[x].pool \in 1..Len(freelists)
          /\ body[x].blank => NoText(CodeOf(x))
      BY <1>1, <2>2 DEF StateOK, OpenOK
    <3>2. body'[x] = body[x] /\ asms'[body'[x].code] = CodeOf(x)
      BY <1>12, <2>2
    <3>3. body'[x].code \in 1..Len(asms') /\ body'[x].pool \in 1..Len(freelists')
      <4>1. \A y \in 1..Len(asms) : y \in 1..Len(asms')
        BY <1>2, <1>4
      <4> QED
        BY <1>5, <3>1, <3>2, <4>1
    <3> QED
      BY <3>1, <3>2, <3>3
  <2> QED
    BY <1>11, <2>1, <2>2
<1>17. CompiledOK' /\ RenderingOK'
  <2>1. \A x \in Bodies : Compiled(x)' <=> Compiled(x)
    BY <1>1, <1>8, <1>9 DEF Compiled
  <2>2. \A x \in Bodies : Compiled(x) => body'[x] = body[x]
    BY <1>1, <1>9 DEF Compiled
  <2>3. docs' = docs /\ rendering' = rendering
    BY <1>1
  <2>4. \A x \in Bodies : Compiled(x)' => Reads(docs', body'[x])
    BY <1>1, <2>1, <2>2, <2>3 DEF StateOK, CompiledOK
  <2>5. \A x \in rendering : x \in Bodies /\ Compiled(x)' /\ docs'[body'[x].doc].frozen
    BY <1>1, <2>1, <2>2, <2>3 DEF StateOK, RenderingOK
  <2> QED
    BY <2>3, <2>4, <2>5 DEF CompiledOK, RenderingOK, Compiled, Reads
<1>18. AssemblersOwned'
  <2>1. \A x, y \in Bodies : Open(x)' /\ Open(y)' /\ x # y => body'[x].code # body'[y].code
    BY <1>6, <1>8, <1>9, <1>11, <1>12, <1>22
  <2>2. ASSUME NEW p \in 1..Len(freelists), NEW i \in 1..Len(freelists'[p])
        PROVE  /\ asms'[freelists'[p][i]] = Reset
               /\ \A x \in Bodies : Open(x)' => body'[x].code # freelists'[p][i]
               /\ \A q \in 1..Len(freelists) : \A j \in 1..Len(freelists'[q]) :
                    freelists'[q][j] = freelists'[p][i] => p = q /\ i = j
    <3> DEFINE k == i + shift(p)
    <3>1. k \in 1..Len(freelists[p]) /\ freelists'[p][i] = freelists[p][k]
      BY <1>5
    <3>2. freelists'[p][i] # a /\ freelists'[p][i] \in 1..Len(asms)
      BY <1>7
    <3>3. asms'[freelists'[p][i]] = asms[freelists'[p][i]]
      BY <1>4, <3>2
    <3>4. ASSUME NEW q \in 1..Len(freelists), NEW j \in 1..Len(freelists'[q]),
                 freelists'[q][j] = freelists'[p][i]
          PROVE  p = q /\ i = j
      <4> DEFINE l == j + shift(q)
      <4>1. l \in 1..Len(freelists[q]) /\ freelists'[q][j] = freelists[q][l]
        BY <1>5
      <4> HIDE DEF k, l
      <4>2. p = q /\ k = l
        <5>1. freelists[q][l] = freelists[p][k]
          BY <3>1, <3>4, <4>1
        <5>2. AssemblersOwned
          BY <1>1 DEF StateOK
        <5> QED
          BY <3>1, <4>1, <5>1, <5>2, OwnedOnce
      <4>3. i + shift(p) = j + shift(p)
        BY <4>2 DEF k, l
      <4>4. i \in Int /\ j \in Int /\ shift(p) \in Int
        BY <1>5 DEF shift
      <4> QED
        BY <4>2, <4>3, <4>4
    <3> HIDE DEF k
    <3>5. \A x \in Bodies : Open(x)' => body'[x].code # freelists'[p][i]
      <4>1. \A x \in Bodies : Open(x) => body[x].code # freelists'[p][i]
        BY <1>22, <3>1
      <4> QED
        BY <1>8, <1>9, <1>11, <1>12, <3>2, <4>1
    <3>6. asms[freelists'[p][i]] = Reset
      BY <1>22, <3>1
    <3> QED
      BY <3>3, <3>4, <3>5, <3>6
  <2> QED
    BY <1>5, <2>1, <2>2 DEF AssemblersOwned
<1>19. StateOK'
  BY <1>9, <1>13, <1>14, <1>15, <1>16, <1>17, <1>18 DEF StateOK
<1>20. CallsOK'
  <2>1. ASSUME NEW i \in 1..Len(calls), calls[i].call # "document"
        PROVE  LET x == calls[i].body
               IN body'[x].phase = "open" /\ asms'[body'[x].code].parsing
    <3>1. calls[i].body \in Bodies /\ Open(calls[i].body) /\ CodeOf(calls[i].body).parsing
      BY <1>1, <2>1, CallsOpen
    <3> QED
      BY <1>12, <3>1 DEF Open
  <2>2. CallsOK /\ calls' = calls
    BY <1>1
  <2>3. Len(calls) \in Nat /\ Shape(calls')
    BY <2>2, CallsFacts DEF CallsOK
  <2> QED
    BY <2>1, <2>2, <2>3, CallsStay
<1> QED
  BY <1>19, <1>20 DEF IInv

LEMMA ConcatFacts ==
    ASSUME NEW T, NEW s \in Seq(T), NEW t \in Seq(T)
    PROVE  /\ s \o t \in Seq(T) /\ Len(s \o t) = Len(s) + Len(t)
           /\ Len(s) \in Nat /\ Len(t) \in Nat
           /\ \A i \in 1..Len(s) : (s \o t)[i] = s[i]
           /\ \A i \in 1..Len(t) : (s \o t)[Len(s) + i] = t[i]
OBVIOUS

LEMMA OneFacts ==
    ASSUME NEW T, NEW x \in T
    PROVE  <<x>> \in Seq(T) /\ Len(<<x>>) = 1 /\ <<x>>[1] = x
OBVIOUS

(* What a document holds when c is written to it after the header h        *)
Written(d, h, c) == [d EXCEPT !.buffer = d.buffer \o <<h>> \o c.ins,
                              !.constants = d.constants \o c.consts]

Holds(e, d, h, c) ==
    /\ e \in Docs /\ Extends(e, d) /\ e.frozen = d.frozen
    /\ e.buffer[Len(d.buffer) + 1] = h
    /\ Len(d.buffer) + 1 + Len(c.ins) <= Len(e.buffer)
    /\ \A j \in 1..Len(c.ins) : e.buffer[Len(d.buffer) + 1 + j] = c.ins[j]
    /\ Len(d.constants) + Len(c.consts) <= Len(e.constants)
    /\ \A j \in 1..Len(c.consts) : e.constants[Len(d.constants) + j] = c.consts[j]

LEMMA SumFacts ==
    ASSUME NEW i \in Nat, NEW j \in Nat
    PROVE  i + 1 \in 1..i + 1 /\ i <= i + 1 + j /\ i <= i + j
OBVIOUS

LEMMA WrittenFacts ==
    ASSUME NEW d \in Docs, NEW h \in Headers, NEW c, Sound(c)
    PROVE  Holds(Written(d, h, c), d, h, c)
<1> DEFINE e == Written(d, h, c)
           T == Headers \cup Instrs
           p == d.buffer
           s == p \o <<h>>
           t == s \o c.ins
           n == Len(p)
           k == d.constants
           u == k \o c.consts
<1>1. p \in Seq(T) /\ k \in Seq(Bodies \X Nat) /\ <<h>> \in Seq(T) /\ Len(<<h>>) = 1 /\ <<h>>[1] = h
      /\ c.ins \in Seq(T) /\ c.consts \in Seq(Bodies \X Nat) /\ d.frozen \in BOOLEAN
  <2>1. c.ins \in Seq(Instrs) /\ c.consts \in Seq(Bodies \X Nat)
    BY SoundFacts
  <2> QED
    BY <2>1, OneFacts DEF Docs
<1>2. /\ e = [frozen |-> d.frozen, buffer |-> t, constants |-> u]
      /\ e.buffer = t /\ e.constants = u /\ e.frozen = d.frozen
  <2>1. e = [d EXCEPT !.buffer = t, !.constants = u]
    BY DEF Written
  <2> HIDE DEF t, u, e
  <2> QED
    BY <2>1 DEF Docs
<1> HIDE DEF T, p, k
<1>3. /\ s \in Seq(T) /\ Len(s) = n + 1 /\ n \in Nat /\ s[n + 1] = h
      /\ \A i \in 1..n : s[i] = p[i]
  <2>1. Len(s) = n + 1 /\ n \in Nat /\ 1 \in 1..Len(<<h>>) /\ s \in Seq(T)
    BY <1>1, ConcatFacts
  <2>2. \A i \in 1..Len(<<h>>) : s[n + i] = <<h>>[i]
    BY <1>1, ConcatFacts
  <2>3. \A i \in 1..n : s[i] = p[i]
    BY <1>1, ConcatFacts
  <2> QED
    BY <1>1, <2>1, <2>2, <2>3
<1> HIDE DEF s
<1>4. /\ t \in Seq(T) /\ Len(t) = n + 1 + Len(c.ins) /\ Len(c.ins) \in Nat
      /\ \A i \in 1..n + 1 : t[i] = s[i]
      /\ \A i \in 1..Len(c.ins) : t[n + 1 + i] = c.ins[i]
  <2>1. /\ t \in Seq(T) /\ Len(t) = Len(s) + Len(c.ins) /\ Len(c.ins) \in Nat
        /\ \A i \in 1..Len(s) : t[i] = s[i]
        /\ \A i \in 1..Len(c.ins) : t[Len(s) + i] = c.ins[i]
    <3>1. s \in Seq(T) /\ c.ins \in Seq(T)
      BY <1>1, <1>3
    <3> QED
      BY <3>1, ConcatFacts
  <2> HIDE DEF t
  <2> QED
    BY <1>3, <2>1
<1>5. /\ u \in Seq(Bodies \X Nat) /\ Len(u) = Len(k) + Len(c.consts) /\ Len(k) \in Nat
      /\ Len(c.consts) \in Nat
      /\ \A i \in 1..Len(k) : u[i] = k[i]
      /\ \A i \in 1..Len(c.consts) : u[Len(k) + i] = c.consts[i]
  BY <1>1, ConcatFacts
<1> HIDE DEF t, u, n, e
<1>6. e \in Docs
  BY <1>1, <1>2, <1>4, <1>5 DEF Docs, T
<1>7. e.buffer = t /\ e.constants = u /\ e.frozen = d.frozen
  BY <1>2
<1>8. \A i \in 1..n : t[i] = p[i]
  <2>1. \A i \in 1..n : i \in 1..n + 1
    BY <1>3
  <2> QED
    BY <1>3, <1>4, <2>1
<1>9. n <= Len(t) /\ Len(k) <= Len(u) /\ t[n + 1] = h
  <2>1. n + 1 \in 1..n + 1 /\ n <= n + 1 + Len(c.ins) /\ Len(k) <= Len(k) + Len(c.consts)
    <3>1. n \in Nat /\ Len(c.ins) \in Nat /\ Len(k) \in Nat /\ Len(c.consts) \in Nat
      BY <1>3, <1>4, <1>5
    <3> QED
      BY <3>1, SumFacts
  <2> QED
    BY <1>3, <1>4, <1>5, <2>1
<1>10. Extends(e, d)
  BY <1>5, <1>7, <1>8, <1>9 DEF Extends, n, p, k
<1>11. /\ e.buffer[n + 1] = h /\ n + 1 + Len(c.ins) <= Len(e.buffer)
       /\ \A j \in 1..Len(c.ins) : e.buffer[n + 1 + j] = c.ins[j]
       /\ Len(k) + Len(c.consts) <= Len(e.constants)
       /\ \A j \in 1..Len(c.consts) : e.constants[Len(k) + j] = c.consts[j]
  <2>1. t[n + 1] = h /\ n + 1 + Len(c.ins) <= Len(t) /\ Len(k) + Len(c.consts) <= Len(u)
    BY <1>3, <1>4, <1>5, <1>9
  <2>2. \A j \in 1..Len(c.ins) : e.buffer[n + 1 + j] = c.ins[j]
    BY <1>4, <1>7
  <2>3. \A j \in 1..Len(c.consts) : e.constants[Len(k) + j] = c.consts[j]
    BY <1>5, <1>7
  <2> QED
    BY <1>7, <2>1, <2>2, <2>3
<1>12. Holds(e, d, h, c)
  BY <1>6, <1>7, <1>10, <1>11 DEF Holds, n, p, k
<1> QED
  BY <1>12 DEF e

LEMMA FreezeWrites ==
    ASSUME IInv, NEW b \in Bodies, Freeze(b)
    PROVE  /\ DocsOK' /\ Grown /\ body'[b] \in BodyRecord /\ Reads(docs', body'[b])
           /\ body'[b].phase = "compiled" /\ body' \in [Bodies -> BodyRecord]
           /\ \A x \in Bodies : x # b => body'[x] = body[x]
           /\ body'[b].meant = CodeOf(b) /\ body'[b].score = 0
           /\ docs'[body'[b].doc].buffer[body'[b].offset + 1].score = body[b].score
<1> DEFINE D == document
           d == docs[document]
           c == CodeOf(b)
           h == Header(b, document)
           e == Written(d, h, c)
           r == [Unborn EXCEPT !.phase = "compiled", !.doc = D, !.offset = Len(d.buffer),
                               !.meant = c]
<1>1. /\ StateOK /\ Open(b) /\ document # 0 /\ ~d.frozen
      /\ docs' = WriteBlockBody(b, document) /\ body' = [body EXCEPT ![b] = r]
      /\ document' = document
  BY DEF IInv, Freeze
<1>2. /\ docs \in Seq(Docs) /\ D \in 1..Len(docs) /\ Len(docs) \in Nat /\ d \in Docs
      /\ Len(d.buffer) \in Nat /\ Len(d.constants) \in Nat
      /\ body \in [Bodies -> BodyRecord] /\ body[b] \in BodyRecord
  <2>1. DocsOK /\ body \in [Bodies -> BodyRecord]
    BY <1>1 DEF StateOK
  <2>2. docs \in Seq(Docs) /\ D \in 1..Len(docs) /\ Len(docs) \in Nat
    BY <1>1, <2>1 DEF DocsOK
  <2> QED
    BY <2>1, <2>2, DocFacts
<1>3. /\ Sound(c) /\ Len(c.ins) \in Nat /\ Len(c.consts) \in Nat /\ c \in CodeRecord
      /\ body[b].blank => NoText(c)
  BY <1>1, OpenFacts, SoundFacts
<1>4. /\ h \in Headers /\ h.instructions = Len(c.ins) /\ h.constants_offset = Len(d.constants)
      /\ h.blank = body[b].blank /\ h.score = body[b].score
  BY <1>2, <1>3 DEF Header, Headers, BodyRecord
<1>5. docs' = [docs EXCEPT ![D] = e]
  BY <1>1 DEF WriteBlockBody, Written
<1>6. /\ r \in BodyRecord /\ r.phase = "compiled" /\ r.doc = D /\ r.offset = Len(d.buffer)
      /\ r.meant = c /\ r.score = 0
  <2>1. Unborn \in BodyRecord /\ Unborn.score = 0
    BY ResetSound DEF Unborn, BodyRecord, Sound
  <2>2. D \in Nat /\ Len(d.buffer) \in Nat /\ c \in CodeRecord
    BY <1>2, <1>3
  <2> HIDE DEF D, d, c
  <2> QED
    BY <2>1, <2>2 DEF BodyRecord
<1> HIDE DEF r, h, c, e, D
<1>7. /\ e \in Docs /\ Extends(e, d) /\ e.frozen = d.frozen
      /\ e.buffer[Len(d.buffer) + 1] = h
      /\ Len(d.buffer) + 1 + Len(c.ins) <= Len(e.buffer)
      /\ \A j \in 1..Len(c.ins) : e.buffer[Len(d.buffer) + 1 + j] = c.ins[j]
      /\ Len(d.constants) + Len(c.consts) <= Len(e.constants)
      /\ \A j \in 1..Len(c.consts) : e.constants[Len(d.constants) + j] = c.consts[j]
  <2>1. d \in Docs /\ h \in Headers /\ Sound(c)
    BY <1>2, <1>3, <1>4
  <2>2. Holds(e, d, h, c)
    BY <2>1, WrittenFacts DEF e
  <2> QED
    BY <2>2 DEF Holds
<1> HIDE DEF d
<1>8. /\ docs' \in Seq(Docs) /\ Len(docs') = Len(docs) /\ docs'[D] = e
      /\ \A x \in 1..Len(docs) : x # D => docs'[x] = docs[x]
  BY <1>2, <1>5, <1>7
<1>9. Grown
  <2>1. \A x \in 1..Len(docs) : Extends(docs[x], docs[x])
    BY <1>1, DocFacts DEF StateOK, Extends
  <2> QED
    BY <1>2, <1>7, <1>8, <2>1 DEF Grown, d, D
<1>10. DocsOK'
  <2>1. document' = D /\ D \in 1..Len(docs') /\ ~docs'[D].frozen
    BY <1>1, <1>2, <1>7, <1>8 DEF D, d
  <2> QED
    BY <1>8, <2>1 DEF DocsOK
<1>11. Reads(docs', r)
  <2> DEFINE g == docs'[r.doc]
             k == g.buffer[r.offset + 1]
  <2>1. g = e /\ k = h /\ r.doc \in 1..Len(docs') /\ r.offset = Len(d.buffer) /\ r.meant = c
    BY <1>2, <1>6, <1>7, <1>8
  <2> HIDE DEF g, k
  <2>3. /\ Sound(r.meant) /\ r.offset + 1 + Len(r.meant.ins) <= Len(g.buffer)
        /\ k \in Headers /\ k.instructions = Len(r.meant.ins)
        /\ k.blank => NoText(r.meant)
    BY <1>3, <1>4, <1>7, <2>1
  <2>4. \A j \in 1..Len(r.meant.ins) : g.buffer[r.offset + 1 + j] = r.meant.ins[j]
    BY <1>7, <2>1
  <2>5. /\ k.constants_offset + Len(r.meant.consts) <= Len(g.constants)
        /\ \A j \in 1..Len(r.meant.consts) :
             g.constants[k.constants_offset + j] = r.meant.consts[j]
    BY <1>4, <1>7, <2>1
  <2>6. r.doc \in 1..Len(docs')
    BY <2>1
  <2>7. /\ r.doc \in 1..Len(docs') /\ Sound(r.meant)
        /\ r.offset + 1 + Len(r.meant.ins) <= Len(g.buffer)
        /\ k \in Headers /\ k.instructions = Len(r.meant.ins)
        /\ \A j \in 1..Len(r.meant.ins) : g.buffer[r.offset + 1 + j] = r.meant.ins[j]
        /\ k.constants_offset + Len(r.meant.consts) <= Len(g.constants)
        /\ \A j \in 1..Len(r.meant.consts) :
             g.constants[k.constants_offset + j] = r.meant.consts[j]
        /\ k.blank => NoText(r.meant)
    <3>1. r.doc \in 1..Len(docs')
      BY <2>6
    <3>2. Sound(r.meant)
        /\ r.offset + 1 + Len(r.meant.ins) <= Len(g.buffer)
        /\ k \in Headers /\ k.instructions = Len(r.meant.ins)
      BY <2>3
    <3>3. k.blank => NoText(r.meant)
      BY <2>3, Zenon
    <3>5. \A j \in 1..Len(r.meant.ins) : g.buffer[r.offset + 1 + j] = r.meant.ins[j]
      BY <2>4, Zenon
    <3>6. k.constants_offset + Len(r.meant.consts) <= Len(g.constants)
      BY <2>5
    <3>7. \A j \in 1..Len(r.meant.consts) :
             g.constants[k.constants_offset + j] = r.meant.consts[j]
      BY <2>5, Zenon
    <3> QED
      BY <3>1, <3>2, <3>3, <3>5, <3>6, <3>7, Zenon
  <2> USE DEF g, k
  <2> QED
    BY <2>7 DEF Reads
<1>12. /\ body'[b] = r /\ body' \in [Bodies -> BodyRecord]
       /\ \A x \in Bodies : x # b => body'[x] = body[x]
  BY <1>1, <1>2, <1>6
<1>13. docs'[r.doc].buffer[r.offset + 1].score = body[b].score
  BY <1>4, <1>6, <1>7, <1>8
<1>14. r.meant = CodeOf(b)
  BY <1>6 DEF c
<1> QED
  BY <1>6, <1>9, <1>10, <1>11, <1>12, <1>13, <1>14

LEMMA FreezeInv ==
    ASSUME IInv, NEW b \in Bodies, Freeze(b)
    PROVE  IInv'
<1> DEFINE a == body[b].code
           P == body[b].pool
           list == <<a>> \o freelists[P]
<1>1. /\ StateOK /\ CallsOK /\ Open(b) /\ ~Suspended(b)
      /\ UNCHANGED <<document, pool, calls, rendering>>
      /\ freelists' = [freelists EXCEPT ![P] = list]
      /\ asms' = [asms EXCEPT ![a] = Reset]
  BY DEF IInv, Freeze
<1>2. /\ DocsOK' /\ Grown /\ body'[b] \in BodyRecord /\ Reads(docs', body'[b])
      /\ body'[b].phase = "compiled" /\ body' \in [Bodies -> BodyRecord]
      /\ \A x \in Bodies : x # b => body'[x] = body[x]
  BY FreezeWrites
<1>3. /\ freelists \in Seq(Seq(Nat)) /\ Len(freelists) \in Nat /\ asms \in Seq(CodeRecord)
      /\ Len(asms) \in Nat /\ body \in [Bodies -> BodyRecord]
      /\ a \in 1..Len(asms) /\ P \in 1..Len(freelists)
      /\ \A i \in 1..Len(asms) : Sound(asms[i])
      /\ \A p \in 1..Len(freelists) : /\ freelists[p] \in Seq(Nat) /\ Len(freelists[p]) \in Nat
                                      /\ \A i \in 1..Len(freelists[p]) :
                                           freelists[p][i] \in 1..Len(asms)
  BY <1>1 DEF StateOK, ListsOK, AsmsOK, OpenOK
<1>4. /\ \A x, y \in Bodies : Open(x) /\ Open(y) /\ x # y => body[x].code # body[y].code
      /\ \A p \in 1..Len(freelists) : \A i \in 1..Len(freelists[p]) :
           asms[freelists[p][i]] = Reset
      /\ \A p \in 1..Len(freelists) : \A i \in 1..Len(freelists[p]) :
           \A x \in Bodies : Open(x) => body[x].code # freelists[p][i]
  BY <1>1, OwnedFacts DEF StateOK
<1>5. /\ asms' \in Seq(CodeRecord) /\ Len(asms') = Len(asms) /\ asms'[a] = Reset
      /\ \A i \in 1..Len(asms) : i # a => asms'[i] = asms[i]
  <2>1. Reset \in CodeRecord
    BY ResetSound DEF Sound
  <2> HIDE DEF a
  <2> QED
    BY <1>1, <1>3, <2>1
<1>6. /\ list \in Seq(Nat) /\ Len(list) = Len(freelists[P]) + 1 /\ list[1] = a
      /\ \A i \in 1..Len(freelists[P]) : list[1 + i] = freelists[P][i]
  <2>1. <<a>> \in Seq(Nat) /\ Len(<<a>>) = 1 /\ <<a>>[1] = a /\ freelists[P] \in Seq(Nat)
    BY <1>3, OneFacts
  <2> QED
    BY <2>1, ConcatFacts
<1> HIDE DEF list, P, a
<1>7. /\ freelists' \in Seq(Seq(Nat)) /\ Len(freelists') = Len(freelists)
      /\ freelists'[P] = list
      /\ \A p \in 1..Len(freelists) : p # P => freelists'[p] = freelists[p]
  BY <1>1, <1>3, <1>6
(* What is in a freelist is what was there, or the assembler of b           *)
<1>8. ASSUME NEW p \in 1..Len(freelists), NEW i \in 1..Len(freelists'[p])
      PROVE  \/ p = P /\ i = 1 /\ freelists'[p][i] = a
             \/ p = P /\ i - 1 \in 1..Len(freelists[p])
                /\ freelists'[p][i] = freelists[p][i - 1]
             \/ p # P /\ i \in 1..Len(freelists[p]) /\ freelists'[p][i] = freelists[p][i]
  <2>1. CASE p # P
    BY <1>7, <2>1
  <2>2. CASE p = P /\ i = 1
    BY <1>6, <1>7, <2>2
  <2>3. CASE p = P /\ i # 1
    <3>1. i \in 1..Len(freelists[P]) + 1 /\ Len(freelists[P]) \in Nat
      BY <1>3, <1>6, <1>7, <2>3
    <3>2. i - 1 \in 1..Len(freelists[P]) /\ 1 + (i - 1) = i
      BY <2>3, <3>1
    <3>3. list[1 + (i - 1)] = freelists[P][i - 1]
      BY <1>6, <3>2
    <3> QED
      BY <1>7, <2>3, <3>2, <3>3
  <2> QED
    BY <2>1, <2>2, <2>3
<1>9. \A p \in 1..Len(freelists) : \A i \in 1..Len(freelists[p]) : freelists[p][i] # a
  BY <1>1, <1>4 DEF a
<1>23. ASSUME NEW p \in 1..Len(freelists), NEW i \in 1..Len(freelists'[p])
       PROVE  \/ freelists'[p][i] = a
              \/ \E k \in 1..Len(freelists[p]) : freelists'[p][i] = freelists[p][k]
  BY <1>8
<1>10. \A x \in Bodies : Open(x)' <=> Open(x) /\ x # b
  BY <1>2 DEF Open
<1>11. \A x \in Bodies : Open(x) /\ x # b =>
         /\ body'[x] = body[x] /\ body[x].code # a /\ body[x].code \in 1..Len(asms)
         /\ asms'[body'[x].code] = CodeOf(x)
  <2>1. \A x \in Bodies : Open(x) => body[x].code \in 1..Len(asms)
    BY <1>1 DEF StateOK, OpenOK
  <2> QED
    BY <1>1, <1>2, <1>4, <1>5, <2>1 DEF a, CodeOf
<1>12. AsmsOK'
  <2>1. \A i \in 1..Len(asms') : Sound(asms'[i])
    BY <1>3, <1>5, ResetSound
  <2> QED
    BY <1>5, <2>1 DEF AsmsOK
<1>13. ListsOK'
  <2>1. ASSUME NEW p \in 1..Len(freelists), NEW i \in 1..Len(freelists'[p])
        PROVE  freelists'[p][i] \in 1..Len(asms)
    BY <1>3, <1>8, <2>1
  <2>2. pool' \in 0..Len(freelists')
    BY <1>1, <1>7 DEF StateOK, ListsOK
  <2>3. \A p \in 1..Len(freelists') : \A i \in 1..Len(freelists'[p]) :
          freelists'[p][i] \in 1..Len(asms')
    BY <1>5, <1>7, <2>1
  <2> QED
    BY <1>7, <2>2, <2>3 DEF ListsOK
<1>14. OpenOK'
  <2> SUFFICES ASSUME NEW x \in Bodies, Open(x)'
               PROVE  /\ body'[x].code \in 1..Len(asms') /\ body'[x].pool \in 1..Len(freelists')
                      /\ body'[x].blank => NoText(asms'[body'[x].code])
    BY DEF OpenOK, NoText, CodeOf
  <2>1. Open(x) /\ x # b
    BY <1>10
  <2>2. body[x].pool \in 1..Len(freelists) /\ (body[x].blank => NoText(CodeOf(x)))
    BY <1>1, <2>1 DEF StateOK, OpenOK
  <2> QED
    BY <1>5, <1>7, <1>11, <2>1, <2>2
<1>15. \A x \in Bodies : Compiled(x)' <=> Compiled(x) \/ x = b
  BY <1>1, <1>2 DEF Compiled
<1>16. \A x \in Bodies : Compiled(x) => x # b
  BY <1>1 DEF Compiled, Open
<1>17. CompiledOK'
  <2>1. ASSUME NEW x \in Bodies, Compiled(x)
        PROVE  Reads(docs', body'[x])
    <3>1. body'[x] = body[x] /\ docs' \in Seq(Docs) /\ DocsOK /\ CompiledOK
      BY <1>1, <1>2, <1>16, <2>1 DEF StateOK, DocsOK
    <3> QED
      BY <1>2, <1>3, <2>1, <3>1, CompiledStay
  <2>2. \A x \in Bodies : Compiled(x)' => Reads(docs', body'[x])
    BY <1>2, <1>15, <2>1
  <2> QED
    BY <2>2 DEF CompiledOK, Compiled, Reads
<1>18. RenderingOK'
  <2>1. ASSUME NEW x \in rendering
        PROVE  x \in Bodies /\ Compiled(x)' /\ docs'[body'[x].doc].frozen
    <3>1. x \in Bodies /\ Compiled(x) /\ docs[body[x].doc].frozen
          /\ body[x].doc \in 1..Len(docs)
      BY <1>1 DEF StateOK, RenderingOK, CompiledOK, Reads
    <3>2. body'[x] = body[x] /\ Compiled(x)'
      BY <1>2, <1>15, <1>16, <3>1
    <3> QED
      BY <1>2, <3>1, <3>2 DEF Grown, Extends
  <2>2. rendering' = rendering
    BY <1>1
  <2> QED
    BY <2>1, <2>2 DEF RenderingOK, Compiled
<1>19. AssemblersOwned'
  <2>1. \A x, y \in Bodies : Open(x)' /\ Open(y)' /\ x # y => body'[x].code # body'[y].code
    BY <1>4, <1>10, <1>11
  <2>2. ASSUME NEW p \in 1..Len(freelists), NEW i \in 1..Len(freelists'[p])
        PROVE  asms'[freelists'[p][i]] = Reset
    <3>1. \A q \in 1..Len(freelists) : \A j \in 1..Len(freelists[q]) :
            asms'[freelists[q][j]] = Reset
      BY <1>3, <1>4, <1>5, <1>9
    <3>2. CASE freelists'[p][i] = a
      BY <1>5, <3>2
    <3>3. ASSUME NEW k \in 1..Len(freelists[p]), freelists'[p][i] = freelists[p][k]
          PROVE  asms'[freelists'[p][i]] = Reset
      BY <3>1, <3>3
    <3> QED
      BY <1>23, <3>2, <3>3
  <2>3. ASSUME NEW p \in 1..Len(freelists), NEW i \in 1..Len(freelists'[p]),
               NEW x \in Bodies, Open(x)'
        PROVE  body'[x].code # freelists'[p][i]
    <3>1. Open(x) /\ body'[x].code = body[x].code /\ body[x].code # a
      BY <1>10, <1>11, <2>3
    <3>2. ASSUME NEW k \in 1..Len(freelists[p]), freelists'[p][i] = freelists[p][k]
          PROVE  body'[x].code # freelists'[p][i]
      BY <1>4, <3>1, <3>2
    <3> QED
      BY <1>23, <3>1, <3>2
  <2>4. ASSUME NEW p \in 1..Len(freelists), NEW i \in 1..Len(freelists'[p]),
               NEW q \in 1..Len(freelists), NEW j \in 1..Len(freelists'[q]),
               freelists'[q][j] = freelists'[p][i]
        PROVE  p = q /\ i = j
    <3> DEFINE k == IF p = P THEN i - 1 ELSE i
               l == IF q = P THEN j - 1 ELSE j
    <3>1. CASE freelists'[p][i] = a
      <4>1. p = P /\ i = 1
        BY <1>8, <1>9, <3>1
      <4>2. q = P /\ j = 1
        <5>1. freelists'[q][j] = a
          BY <2>4, <3>1
        <5> QED
          BY <1>8, <1>9, <5>1
      <4> QED
        BY <4>1, <4>2
    <3>2. CASE freelists'[p][i] # a
      <4>1. k \in 1..Len(freelists[p]) /\ freelists'[p][i] = freelists[p][k]
        BY <1>8, <3>2
      <4>2. l \in 1..Len(freelists[q]) /\ freelists'[q][j] = freelists[q][l]
        BY <1>8, <2>4, <3>2
      <4> HIDE DEF k, l
      <4>3. freelists[q][l] = freelists[p][k] /\ AssemblersOwned
        BY <1>1, <2>4, <4>1, <4>2 DEF StateOK
      <4>4. p = q /\ k = l
        BY <4>1, <4>2, <4>3, OwnedOnce, SMTT(20)
      <4>5. i \in Int /\ j \in Int
        OBVIOUS
      <4> QED
        BY <4>4, <4>5 DEF k, l
    <3> QED
      BY <3>1, <3>2
  <2> QED
    BY <1>7, <2>1, <2>2, <2>3, <2>4 DEF AssemblersOwned
<1>20. StateOK'
  BY <1>2, <1>12, <1>13, <1>14, <1>17, <1>18, <1>19 DEF StateOK
<1>21. CallsOK'
  <2>1. ASSUME NEW i \in 1..Len(calls), calls[i].call # "document"
        PROVE  LET x == calls[i].body
               IN body'[x].phase = "open" /\ asms'[body'[x].code].parsing
    <3>1. calls[i].body \in Bodies /\ Open(calls[i].body) /\ CodeOf(calls[i].body).parsing
      BY <1>1, <2>1, CallsOpen
    <3>2. calls[i].body # b
      BY <1>1 DEF Suspended
    <3> QED
      BY <1>11, <3>1, <3>2 DEF Open
  <2>2. CallsOK /\ calls' = calls
    BY <1>1
  <2>3. Len(calls) \in Nat /\ Shape(calls')
    BY <2>2, CallsFacts DEF CallsOK
  <2> QED
    BY <2>1, <2>2, <2>3, CallsStay
<1> QED
  BY <1>20, <1>21 DEF IInv

-----------------------------------------------------------------------------
(* Renders, and the invariant                                              *)

LEMMA RenderInv ==
    ASSUME IInv, NEW b \in Bodies, BeginRender(b) \/ EndRender(b)
    PROVE  IInv'
<1>1. /\ StateOK /\ CallsOK
      /\ UNCHANGED <<document, pool, docs, freelists, asms, body, calls>>
      /\ \A x \in rendering' : x \in rendering \/ (x = b /\ Compiled(b)
                                                  /\ docs[body[b].doc].frozen)
  BY DEF IInv, BeginRender, EndRender
<1>2. RenderingOK'
  BY <1>1 DEF StateOK, RenderingOK, Compiled
<1>3. /\ DocsOK' /\ AsmsOK' /\ ListsOK' /\ body' \in [Bodies -> BodyRecord] /\ OpenOK'
      /\ CompiledOK' /\ AssemblersOwned'
  BY <1>1 DEF StateOK, DocsOK, AsmsOK, ListsOK, OpenOK, CompiledOK, AssemblersOwned,
              Open, Compiled, CodeOf
<1>4. CallsOK'
  BY <1>1 DEF CallsOK, Shape, InLoop, Open, CodeOf
<1> QED
  BY <1>2, <1>3, <1>4 DEF IInv, StateOK

LEMMA StutterInv ==
    ASSUME IInv, UNCHANGED vars
    PROVE  IInv'
<1>1. /\ StateOK /\ CallsOK
      /\ UNCHANGED <<document, pool, docs, freelists, asms, body, rendering>> /\ calls' = calls
  BY DEF IInv, vars
<1>2. StateOK'
  BY <1>1, StateSame
<1>3. CallsOK'
  BY <1>1 DEF CallsOK, Shape, InLoop, Open, CodeOf
<1> QED
  BY <1>2, <1>3 DEF IInv

LEMMA InitInv == Init => IInv
<1> SUFFICES ASSUME Init
             PROVE  IInv
  OBVIOUS
<1>1. /\ document = 0 /\ pool = 0 /\ docs = << >> /\ freelists = << >> /\ asms = << >>
      /\ body = [b \in Bodies |-> Unborn] /\ calls = << >> /\ rendering = {}
  BY DEF Init
<1>2. Unborn \in BodyRecord /\ Unborn.phase = "none"
  BY ResetSound DEF Unborn, BodyRecord, Sound
<1>3. body \in [Bodies -> BodyRecord] /\ \A b \in Bodies : ~Open(b) /\ ~Compiled(b)
  BY <1>1, <1>2 DEF Open, Compiled
<1>4. DocsOK /\ AsmsOK /\ ListsOK /\ RenderingOK
  BY <1>1 DEF DocsOK, AsmsOK, ListsOK, RenderingOK
<1>5. OpenOK /\ CompiledOK
  BY <1>3 DEF OpenOK, CompiledOK
<1>6. AssemblersOwned
  BY <1>1, <1>3 DEF AssemblersOwned
<1>7. CallsOK
  BY <1>1 DEF CallsOK, Shape
<1> QED
  BY <1>3, <1>4, <1>5, <1>6, <1>7 DEF IInv, StateOK

LEMMA NextInv == IInv /\ [Next]_vars => IInv'
<1> SUFFICES ASSUME IInv, [Next]_vars
             PROVE  IInv'
  OBVIOUS
<1>1. CASE StartDocument
  BY <1>1, StartDocumentInv
<1>2. CASE RefuseDocument
  BY <1>2, RefuseDocumentInv
<1>3. CASE EndDocument
  BY <1>3, EndDocumentInv
<1>4. ASSUME NEW b \in Bodies, NewBody(b) \/ Freeze(b) \/ BeginRender(b) \/ EndRender(b)
      PROVE  IInv'
  BY <1>4, NewBodyInv, FreezeInv, RenderInv
<1>5. ASSUME NEW b \in Bodies, BeginParse(b) \/ EndParse(b) \/ ParseRaises(b)
      PROVE  IInv'
  BY <1>5, BeginParseInv, EndParseInv, ParseRaisesInv
<1>6. ASSUME NEW b \in Bodies, RawToken(b) \/ VariableToken(b) \/ TagToken(b) \/ RawTag(b)
      PROVE  IInv'
  BY <1>6, RawTokenInv, VariableTokenInv, TagTokenInv, RawTagInv
<1>7. ASSUME NEW b \in Bodies, LiquidTag(b) \/ EndLiquidTag(b) \/ RemoveBlankStrings(b)
      PROVE  IInv'
  BY <1>7, LiquidTagInv, EndLiquidTagInv, RemoveBlankStringsInv
<1>8. CASE UNCHANGED vars
  BY <1>8, StutterInv
<1> QED
  BY <1>1, <1>2, <1>3, <1>4, <1>5, <1>6, <1>7, <1>8 DEF Next

LEMMA Inductive == Spec => []IInv
BY InitInv, NextInv, PTL DEF Spec

-----------------------------------------------------------------------------
(* What the invariant says of the properties                               *)

LEMMA SubSeqIs ==
    ASSUME NEW T, NEW U, NEW s \in Seq(T), NEW t \in Seq(U), NEW o \in Nat,
           o + Len(t) <= Len(s), \A j \in 1..Len(t) : s[o + j] = t[j]
    PROVE  SubSeq(s, o + 1, o + Len(t)) = t
<1> DEFINE n == Len(t)
           u == SubSeq(s, o + 1, o + n)
<1>1. n \in Nat /\ Len(s) \in Nat
  OBVIOUS
<1>2. u = [j \in 1..n |-> s[o + j]]
  OBVIOUS
<1>3. t = [j \in 1..n |-> t[j]]
  OBVIOUS
<1> QED
  BY <1>2, <1>3

(* What a compiled body reads back is what it was compiled to, with its own *)
(* constants.                                                              *)
LEMMA ReadsBack ==
    ASSUME IInv, NEW b \in Bodies, Compiled(b)
    PROVE  /\ InstructionsOf(b) = body[b].meant.ins /\ Sound(body[b].meant)
           /\ HeaderOf(b).blank => NoText(body[b].meant)
           /\ \A i \in Instrs : i.const < Len(body[b].meant.consts) =>
                ConstantFor(b, i) = body[b].meant.consts[i.const + 1]
<1> DEFINE r == body[b]
           d == docs[r.doc]
           o == r.offset + 1
           h == d.buffer[o]
           n == Len(r.meant.ins)
<1>1. Reads(docs, r) /\ DocsOK /\ r \in BodyRecord
  BY DEF IInv, StateOK, CompiledOK
<1>2. /\ r.doc \in 1..Len(docs) /\ Sound(r.meant) /\ o + n <= Len(d.buffer)
      /\ h \in Headers /\ h.instructions = n
      /\ \A j \in 1..n : d.buffer[o + j] = r.meant.ins[j]
      /\ h.constants_offset + Len(r.meant.consts) <= Len(d.constants)
      /\ \A j \in 1..Len(r.meant.consts) :
           d.constants[h.constants_offset + j] = r.meant.consts[j]
      /\ h.blank => NoText(r.meant)
  BY <1>1 DEF Reads
<1>3. /\ d.buffer \in Seq(Headers \cup Instrs) /\ n \in Nat /\ o \in Nat
      /\ r.meant.ins \in Seq(Instrs) /\ h.constants_offset \in Nat /\ Len(r.meant.consts) \in Nat
  <2>1. d \in Docs /\ Len(r.meant.consts) \in Nat /\ r.meant.ins \in Seq(Instrs) /\ n \in Nat
    BY <1>1, <1>2, DocFacts, SoundFacts
  <2>2. o \in Nat
    BY <1>1 DEF BodyRecord
  <2>3. h.constants_offset \in Nat
    BY <1>2 DEF Headers
  <2> HIDE DEF d, n, o, h
  <2>4. d.buffer \in Seq(Headers \cup Instrs)
    BY <2>1 DEF Docs
  <2> QED
    BY <2>1, <2>2, <2>3, <2>4
<1>4. /\ HeaderOf(b) = h
      /\ InstructionsOf(b) = SubSeq(d.buffer, r.offset + 2, r.offset + 1 + n)
      /\ \A i : ConstantFor(b, i) = d.constants[h.constants_offset + i.const + 1]
  BY <1>2 DEF HeaderOf, InstructionsOf, ConstantFor
<1>5. InstructionsOf(b) = r.meant.ins
  <2>1. r.offset + 2 = o + 1 /\ r.offset + 1 + n = o + n
    BY <1>1 DEF BodyRecord
  <2>2. InstructionsOf(b) = SubSeq(d.buffer, o + 1, o + n)
    BY <1>4, <2>1
  <2> HIDE DEF d, o, n, h
  <2>3. SubSeq(d.buffer, o + 1, o + n) = r.meant.ins
    BY <1>2, <1>3, SubSeqIs DEF n
  <2> QED
    BY <2>2, <2>3
<1>6. \A i \in Instrs : i.const < Len(r.meant.consts) =>
        ConstantFor(b, i) = r.meant.consts[i.const + 1]
  <2> SUFFICES ASSUME NEW i \in Instrs, i.const < Len(r.meant.consts)
               PROVE  ConstantFor(b, i) = r.meant.consts[i.const + 1]
    OBVIOUS
  <2> HIDE DEF d, h, r
  <2>1. /\ i.const + 1 \in 1..Len(r.meant.consts)
        /\ h.constants_offset + i.const + 1 = h.constants_offset + (i.const + 1)
    <3>1. i.const \in Nat
      BY DEF Instrs
    <3> QED
      BY <1>3, <3>1
  <2> QED
    BY <1>2, <1>4, <2>1
<1> QED
  BY <1>2, <1>4, <1>5, <1>6

(* An assembler of the pool has one owner at a time, the body that is open  *)
(* with it, whatever order bodies are created, frozen and dropped in.       *)
THEOREM OwnersApart == Spec => []AssemblersOwned
<1>1. IInv => AssemblersOwned
  BY DEF IInv, StateOK
<1> QED
  BY <1>1, Inductive, PTL

(* What is compiled of a body is what its own parse meant, with its own     *)
(* constants: whatever the tags of its document create, parse, trim, freeze *)
(* and render in between, in whatever order, and whichever of these calls   *)
(* raises.                                                                  *)
THEOREM BodiesKept == Spec => []CompiledIntact
<1>1. IInv => CompiledIntact
  <2> SUFFICES ASSUME IInv, NEW b \in Bodies, Compiled(b)
               PROVE  /\ InstructionsOf(b) = body[b].meant.ins
                      /\ \A j \in 1..Len(InstructionsOf(b)) : InstructionsOf(b)[j].op = "node" =>
                           ConstantFor(b, InstructionsOf(b)[j])
                             = body[b].meant.consts[InstructionsOf(b)[j].const + 1]
    BY DEF CompiledIntact
  <2>1. InstructionsOf(b) = body[b].meant.ins /\ Sound(body[b].meant)
    BY ReadsBack
  <2>2. ASSUME NEW j \in 1..Len(body[b].meant.ins), body[b].meant.ins[j].op = "node"
        PROVE  ConstantFor(b, body[b].meant.ins[j])
                 = body[b].meant.consts[body[b].meant.ins[j].const + 1]
    <3>1. /\ body[b].meant.ins[j] \in Instrs
          /\ body[b].meant.ins[j].const < Len(body[b].meant.consts)
      BY <2>1, <2>2, SoundFacts DEF Sound
    <3> QED
      BY <3>1, ReadsBack
  <2> QED
    BY <2>1, <2>2
<1> QED
  BY <1>1, Inductive, PTL

(* A body that says it is blank holds no text and no variable, open or      *)
(* compiled, after any sequence of trims by remove_blank_strings.           *)
THEOREM BlankIsEmpty == Spec => []BlankRendersNothing
<1>1. IInv => BlankRendersNothing
  <2> SUFFICES ASSUME IInv
               PROVE  BlankRendersNothing
    OBVIOUS
  <2>1. ASSUME NEW b \in Bodies, Open(b), body[b].blank
        PROVE  \A j \in 1..Len(CodeOf(b).ins) : CodeOf(b).ins[j].op \notin {"text", "var"}
    BY <2>1 DEF IInv, StateOK, OpenOK, NoText
  <2>2. ASSUME NEW b \in Bodies, Compiled(b), HeaderOf(b).blank
        PROVE  \A j \in 1..Len(InstructionsOf(b)) :
                 InstructionsOf(b)[j].op \notin {"text", "var"}
    <3>1. InstructionsOf(b) = body[b].meant.ins /\ NoText(body[b].meant)
      BY <2>2, ReadsBack
    <3> QED
      BY <3>1 DEF NoText
  <2> QED
    BY <2>1, <2>2 DEF BlankRendersNothing
<1> QED
  BY <1>1, Inductive, PTL

(* While the VM runs a body, nothing is written to the document that the   *)
(* body is in: only a document that is not frozen yet is written to, and    *)
(* none is rendered from before it is frozen.                              *)
THEOREM RenderedStay == Spec => RenderedDocumentsStay
<1>1. ASSUME IInv, Next, NEW b \in rendering
      PROVE  docs'[body[b].doc] = docs[body[b].doc]
  <2> DEFINE x == body[b].doc
  <2>1. b \in Bodies /\ Compiled(b) /\ docs[x].frozen /\ x \in 1..Len(docs) /\ DocsOK
    BY <1>1 DEF IInv, StateOK, RenderingOK, CompiledOK, Reads
  <2>2. x # document
    BY <2>1 DEF DocsOK
  <2>3. docs \in Seq(Docs) /\ document \in 0..Len(docs)
    BY <2>1 DEF DocsOK
  <2> HIDE DEF x
  <2>4. CASE StartDocument
    <3>1. docs' = Append(docs, [frozen |-> FALSE, buffer |-> << >>, constants |-> << >>])
      BY <2>4 DEF StartDocument
    <3>2. [frozen |-> FALSE, buffer |-> << >>, constants |-> << >>] \in Docs
      BY DEF Docs
    <3>3. docs'[x] = docs[x]
      BY <2>1, <2>3, <3>1, <3>2, AppendFacts
    <3> QED
      BY <3>3 DEF x
  <2>5. CASE RefuseDocument \/ EndDocument
    <3>1. docs'[x] = docs[x]
      BY <2>1, <2>2, <2>3, <2>5 DEF RefuseDocument, EndDocument, Cleanup
    <3> QED
      BY <3>1 DEF x
  <2>6. ASSUME NEW c \in Bodies, Freeze(c)
        PROVE  docs'[x] = docs[x]
    BY <2>1, <2>2, <2>3, <2>6 DEF Freeze, WriteBlockBody
  <2>7. ASSUME NEW c \in Bodies,
               \/ NewBody(c) \/ BeginParse(c) \/ EndParse(c) \/ ParseRaises(c)
               \/ RawToken(c) \/ VariableToken(c) \/ TagToken(c) \/ RawTag(c)
               \/ LiquidTag(c) \/ EndLiquidTag(c)
               \/ RemoveBlankStrings(c) \/ BeginRender(c) \/ EndRender(c)
        PROVE  docs' = docs
    BY <2>7 DEF NewBody, BeginParse, EndParse, ParseRaises, RawToken, VariableToken, TagToken,
                RawTag, LiquidTag, EndLiquidTag, RemoveBlankStrings, BeginRender, EndRender, Emit
  <2> QED
    BY <1>1, <2>4, <2>5, <2>6, <2>7 DEF Next, x
<1>2. IInv /\ [Next]_vars => [\A b \in rendering : docs'[body[b].doc] = docs[body[b].doc]]_vars
  BY <1>1 DEF vars
<1> QED
  BY <1>2, Inductive, PTL DEF Spec, RenderedDocumentsStay

(* "prevent executing when incomplete": what is rendered ends with OP_LEAVE, *)
(* unless it was frozen after its parse had raised.                         *)
THEOREM RenderedComplete == Spec => []RenderedIsComplete
<1>1. ASSUME IInv
      PROVE  RenderedIsComplete
  <2> SUFFICES ASSUME NEW b \in rendering, ~body[b].meant.parsing
               PROVE  InstructionsOf(b) # << >> /\ Last(InstructionsOf(b)).op = "leave"
    BY DEF RenderedIsComplete
  <2>1. b \in Bodies /\ Compiled(b)
    BY <1>1 DEF IInv, StateOK, RenderingOK
  <2>2. InstructionsOf(b) = body[b].meant.ins /\ Sound(body[b].meant)
    BY <1>1, <2>1, ReadsBack
  <2> QED
    BY <2>2 DEF Sound
<1> QED
  BY <1>1, Inductive, PTL

-----------------------------------------------------------------------------
(* The scores of the calls of parse                                        *)

Mine(f, b) == f.call # "document" /\ f.body = b
Waiting(b) == \E i \in 1..Len(calls) : Mine(calls[i], b)

(* f adds up what the calls s count for b.  (The last conjunct follows from *)
(* the one before it by induction.)                                         *)
Counts(s, b, f) ==
    /\ f \in [0..Len(s) -> Nat] /\ f[0] = 0
    /\ \A i \in 1..Len(s) : f[i] = f[i - 1] + (IF Mine(s[i], b) THEN s[i].score ELSE 0)
    /\ \A i, j \in 0..Len(s) :
         i <= j /\ (\A k \in i + 1..j : ~Mine(s[k], b)) => f[i] = f[j]

(* The score m of b with what s counts covers n nodes.                      *)
Charged(s, b, m, n) == \E f : Counts(s, b, f) /\ m + f[Len(s)] >= n

(* A call that has begun has not counted anything.                          *)
LEMMA ChargedPush ==
    ASSUME NEW s \in Seq(CallRecord), NEW b \in Bodies, NEW e \in CallRecord, e.score = 0,
           NEW m \in Nat, NEW n \in Nat, Charged(s, b, m, n)
    PROVE  Charged(Append(s, e), b, m, n)
<1> DEFINE l == Len(s)
           t == Append(s, e)
<1>1. PICK f : Counts(s, b, f) /\ m + f[l] >= n
  BY DEF Charged
<1> DEFINE g == [i \in 0..l + 1 |-> IF i <= l THEN f[i] ELSE f[l]]
<1>2. /\ l \in Nat /\ Len(t) = l + 1 /\ t[l + 1] = e /\ \A i \in 1..l : t[i] = s[i]
  BY AppendFacts
<1>3. /\ f \in [0..l -> Nat] /\ f[0] = 0
      /\ \A i \in 1..l : f[i] = f[i - 1] + (IF Mine(s[i], b) THEN s[i].score ELSE 0)
      /\ \A i, j \in 0..l : i <= j /\ (\A k \in i + 1..j : ~Mine(s[k], b)) => f[i] = f[j]
  BY <1>1 DEF Counts
<1>4. /\ g \in [0..l + 1 -> Nat] /\ \A i \in 0..l : g[i] = f[i]
      /\ g[l + 1] = f[l] /\ f[l] \in Nat /\ l \in 0..l /\ 0 \in 0..l
  BY <1>2, <1>3
<1> HIDE DEF g, t, l
<1>5. g[0] = 0
  BY <1>3, <1>4
<1>6. ASSUME NEW i \in 1..l + 1
      PROVE  g[i] = g[i - 1] + (IF Mine(t[i], b) THEN t[i].score ELSE 0)
  <2>1. CASE i \in 1..l
    <3>1. i \in 0..l /\ i - 1 \in 0..l
      BY <1>2, <2>1
    <3>2. g[i] = f[i] /\ g[i - 1] = f[i - 1]
      BY <1>4, <3>1
    <3>3. f[i] = f[i - 1] + (IF Mine(s[i], b) THEN s[i].score ELSE 0) /\ t[i] = s[i]
      BY <1>2, <1>3, <2>1
    <3> QED
      BY <3>2, <3>3
  <2>2. CASE i = l + 1
    <3>1. i - 1 = l /\ t[i] = e /\ g[i] = f[l] /\ g[l] = f[l]
      BY <1>2, <1>4, <2>2
    <3> QED
      BY <1>4, <3>1
  <2> QED
    BY <1>2, <2>1, <2>2
<1>7. ASSUME NEW i \in 0..l + 1, NEW j \in 0..l + 1, i <= j,
             \A k \in i + 1..j : ~Mine(t[k], b)
      PROVE  g[i] = g[j]
  <2>1. CASE j \in 0..l
    <3>1. i \in 0..l /\ \A k \in i + 1..j : k \in 1..l
      BY <1>2, <1>7, <2>1
    <3>2. \A k \in i + 1..j : ~Mine(s[k], b)
      BY <1>2, <1>7, <3>1
    <3> QED
      BY <1>3, <1>4, <1>7, <2>1, <3>1, <3>2
  <2>2. CASE i = j
    BY <2>2
  <2>3. CASE j = l + 1 /\ i # j
    <3>1. i \in 0..l /\ i <= l /\ \A k \in i + 1..l : k \in 1..l /\ k \in i + 1..j
      BY <1>2, <1>7, <2>3
    <3>2. \A k \in i + 1..l : ~Mine(s[k], b)
      BY <1>2, <1>7, <3>1
    <3>3. f[i] = f[l]
      BY <1>3, <1>4, <3>1, <3>2
    <3> QED
      BY <1>4, <2>3, <3>1, <3>3
  <2> QED
    BY <1>2, <2>1, <2>2, <2>3
<1>8. Counts(t, b, g)
  BY <1>2, <1>4, <1>5, <1>6, <1>7 DEF Counts
<1>9. m + g[Len(t)] >= n
  BY <1>1, <1>2, <1>4
<1>10. Charged(t, b, m, n)
  BY <1>8, <1>9 DEF Charged
<1> QED
  BY <1>10 DEF t

(* What no call counts for                                                  *)
LEMMA ChargedFree ==
    ASSUME NEW s \in Seq(CallRecord), NEW b \in Bodies,
           \A i \in 1..Len(s) : ~Mine(s[i], b), NEW m \in Nat, NEW n \in Nat
    PROVE  Charged(s, b, m, n) <=> m >= n
<1> DEFINE l == Len(s)
           z == [i \in 0..l |-> 0]
<1>1. l \in Nat /\ l \in 0..l /\ 0 \in 0..l
  OBVIOUS
<1>2. z \in [0..l -> Nat] /\ \A i \in 0..l : z[i] = 0
  OBVIOUS
<1> HIDE DEF z
<1>3. \A i \in 1..l : i \in 0..l /\ i - 1 \in 0..l
  BY <1>1
<1>4. Counts(s, b, z)
  BY <1>1, <1>2, <1>3 DEF Counts
<1>5. m >= n => Charged(s, b, m, n)
  <2>1. m + z[l] = m
    BY <1>1, <1>2
  <2> QED
    BY <1>4, <2>1 DEF Charged
<1>6. ASSUME NEW f, Counts(s, b, f), m + f[l] >= n
      PROVE  m >= n
  <2>1. f[0] = 0 /\ f[0] = f[l]
    <3>1. 0 <= l /\ \A k \in 0 + 1..l : ~Mine(s[k], b)
      BY <1>1
    <3> QED
      BY <1>1, <1>6, <3>1 DEF Counts
  <2> QED
    BY <1>6, <2>1
<1> QED
  BY <1>5, <1>6 DEF Charged

(* Calls that are left do not matter to the bodies they are not of.         *)
LEMMA ChargedPrefix ==
    ASSUME NEW s \in Seq(CallRecord), NEW b \in Bodies, NEW p \in 0..Len(s),
           \A i \in p + 1..Len(s) : ~Mine(s[i], b),
           NEW m \in Nat, NEW n \in Nat, Charged(s, b, m, n)
    PROVE  Charged(SubSeq(s, 1, p), b, m, n)
<1> DEFINE l == Len(s)
           t == SubSeq(s, 1, p)
<1>1. PICK f : Counts(s, b, f) /\ m + f[l] >= n
  BY DEF Charged
<1> DEFINE g == [i \in 0..p |-> f[i]]
<1>2. /\ l \in Nat /\ p \in Nat /\ p <= l /\ Len(t) = p /\ \A i \in 1..p : t[i] = s[i]
  BY PrefixFacts
<1>3. /\ f \in [0..l -> Nat] /\ f[0] = 0
      /\ \A i \in 1..l : f[i] = f[i - 1] + (IF Mine(s[i], b) THEN s[i].score ELSE 0)
      /\ \A i, j \in 0..l : i <= j /\ (\A k \in i + 1..j : ~Mine(s[k], b)) => f[i] = f[j]
  BY <1>1 DEF Counts
<1>4. /\ \A i \in 0..p : i \in 0..l /\ g[i] = f[i]
      /\ \A i \in 1..p : i \in 1..l /\ i \in 0..p /\ i - 1 \in 0..p
      /\ g \in [0..p -> Nat] /\ 0 \in 0..p /\ p \in 0..p /\ l \in 0..l
  <2> HIDE DEF l
  <2>1. /\ \A i \in 0..p : i \in 0..l
        /\ \A i \in 1..p : i \in 1..l /\ i \in 0..p /\ i - 1 \in 0..p
        /\ 0 \in 0..p /\ p \in 0..p /\ l \in 0..l
    BY <1>2
  <2> QED
    BY <1>3, <2>1
<1>5. f[p] = f[l]
  <2>1. p \in 0..l /\ \A k \in p + 1..l : ~Mine(s[k], b)
    BY <1>2
  <2> QED
    BY <1>2, <1>3, <1>4, <2>1
<1> HIDE DEF g, t, l
<1>6. \A i, j \in 0..p : i <= j /\ (\A k \in i + 1..j : ~Mine(t[k], b)) => g[i] = g[j]
  <2> SUFFICES ASSUME NEW i \in 0..p, NEW j \in 0..p, i <= j,
                      \A k \in i + 1..j : ~Mine(t[k], b)
               PROVE  g[i] = g[j]
    OBVIOUS
  <2>1. \A k \in i + 1..j : k \in 1..p
    BY <1>2
  <2>2. \A k \in i + 1..j : ~Mine(s[k], b)
    BY <1>2, <2>1
  <2> QED
    BY <1>3, <1>4, <2>2
<1>7. \A i \in 1..p : g[i] = g[i - 1] + (IF Mine(t[i], b) THEN t[i].score ELSE 0)
  BY <1>2, <1>3, <1>4, ZenonT(30)
<1>8. Counts(t, b, g)
  BY <1>2, <1>3, <1>4, <1>6, <1>7 DEF Counts
<1>9. m + g[Len(t)] >= n
  BY <1>1, <1>2, <1>4, <1>5
<1>10. Charged(t, b, m, n)
  BY <1>8, <1>9 DEF Charged
<1> QED
  BY <1>10 DEF t

(* The innermost call counts one more.                                      *)
LEMMA ChargedTop ==
    ASSUME NEW s \in Seq(CallRecord), NEW b \in Bodies, NEW t \in Seq(CallRecord),
           Len(t) = Len(s), Len(s) # 0,
           \A i \in 1..Len(s) : Mine(t[i], b) <=> Mine(s[i], b),
           \A i \in 1..Len(s) : i # Len(s) => t[i].score = s[i].score,
           t[Len(s)].score = s[Len(s)].score + 1,
           NEW m \in Nat, NEW n \in Nat, Charged(s, b, m, n)
    PROVE  /\ Charged(t, b, m, n)
           /\ Mine(s[Len(s)], b) => Charged(t, b, m, n + 1)
<1> DEFINE l == Len(s)
           one == IF Mine(s[l], b) THEN 1 ELSE 0
<1>1. PICK f : Counts(s, b, f) /\ m + f[l] >= n
  BY DEF Charged
<1> DEFINE g == [i \in 0..l |-> IF i = l THEN f[l] + one ELSE f[i]]
<1>2. l \in Nat /\ l # 0 /\ l \in 1..l /\ l - 1 \in 0..l /\ one \in Nat
      /\ \A i \in 1..l : s[i].score \in Nat /\ t[i].score \in Nat
  <2>1. \A i \in 1..l : s[i] \in CallRecord /\ t[i] \in CallRecord
    OBVIOUS
  <2>2. \A e \in CallRecord : e.score \in Nat
    BY DEF CallRecord
  <2> QED
    BY <2>1, <2>2
<1>3. /\ f \in [0..l -> Nat] /\ f[0] = 0
      /\ \A i \in 1..l : f[i] = f[i - 1] + (IF Mine(s[i], b) THEN s[i].score ELSE 0)
      /\ \A i, j \in 0..l : i <= j /\ (\A k \in i + 1..j : ~Mine(s[k], b)) => f[i] = f[j]
  BY <1>1 DEF Counts
<1>4. /\ g \in [0..l -> Nat] /\ g[l] = f[l] + one /\ \A i \in 0..l : i # l => g[i] = f[i]
      /\ \A i \in 0..l : f[i] \in Nat
  <2> HIDE DEF one, l
  <2>1. l \in 0..l /\ \A i \in 0..l : f[i] \in Nat
    BY <1>2, <1>3
  <2>2. f[l] + one \in Nat
    BY <1>2, <2>1
  <2> QED
    BY <2>1, <2>2
<1> HIDE DEF g
<1>5. g[0] = 0
  BY <1>2, <1>3, <1>4
<1>6. ASSUME NEW i \in 1..l
      PROVE  g[i] = g[i - 1] + (IF Mine(t[i], b) THEN t[i].score ELSE 0)
  <2> DEFINE u == t[i].score
             v == s[i].score
  <2>1. i - 1 \in 0..l /\ i - 1 # l /\ i \in 0..l /\ u \in Nat /\ v \in Nat
    BY <1>2
  <2>2. g[i - 1] = f[i - 1] /\ f[i - 1] \in Nat /\ f[i] \in Nat
    BY <1>4, <2>1
  <2>3. f[i] = f[i - 1] + (IF Mine(s[i], b) THEN v ELSE 0) /\ (Mine(t[i], b) <=> Mine(s[i], b))
    BY <1>3
  <2>4. CASE i # l
    BY <1>4, <2>1, <2>2, <2>3, <2>4
  <2>5. CASE i = l
    <3>1. u = v + 1 /\ g[i] = f[i] + one
      BY <1>4, <2>5
    <3>2. CASE Mine(s[i], b)
      <4>1. one = 1
        BY <2>5, <3>2
      <4> HIDE DEF one, u, v
      <4>2. g[i] = g[i - 1] + u
        BY <2>1, <2>2, <2>3, <3>1, <3>2, <4>1, SMTT(20)
      <4> QED
        BY <2>3, <3>2, <4>2 DEF u
    <3>3. CASE ~Mine(s[i], b)
      <4>1. one = 0
        BY <2>5, <3>3
      <4> HIDE DEF one, u, v
      <4>2. g[i] = g[i - 1] + 0
        BY <2>1, <2>2, <2>3, <3>1, <3>3, <4>1
      <4> QED
        BY <2>3, <3>3, <4>2
    <3> QED
      BY <3>2, <3>3
  <2> QED
    BY <2>4, <2>5
<1>7. ASSUME NEW i \in 0..l, NEW j \in 0..l, i <= j, \A k \in i + 1..j : ~Mine(t[k], b)
      PROVE  g[i] = g[j]
  <2>1. \A k \in i + 1..j : k \in 1..l
    BY <1>2, <1>7
  <2>2. f[i] = f[j]
    <3>1. \A k \in i + 1..j : ~Mine(s[k], b)
      BY <1>7, <2>1
    <3> QED
      BY <1>3, <1>7, <3>1
  <2>3. CASE i = j
    BY <2>3
  <2>4. CASE i # j /\ j # l
    <3>1. i # l
      BY <1>2, <1>7, <2>4
    <3> QED
      BY <1>4, <2>2, <2>4, <3>1
  <2>5. CASE i # j /\ j = l
    <3>1. l \in i + 1..j /\ i # l
      BY <1>2, <1>7, <2>5
    <3>2. ~Mine(s[l], b)
      BY <1>2, <1>7, <3>1
    <3> QED
      BY <1>4, <2>2, <2>5, <3>1, <3>2
  <2> QED
    BY <2>3, <2>4, <2>5
<1>8. Counts(t, b, g)
  BY <1>4, <1>5, <1>6, <1>7 DEF Counts
<1>9. m + g[Len(t)] >= n /\ (Mine(s[l], b) => m + g[Len(t)] >= n + 1)
  <2>1. f[l] \in Nat /\ m + f[l] >= n /\ g[l] = f[l] + one /\ Len(t) = l
    BY <1>1, <1>2, <1>4
  <2>2. Mine(s[l], b) => one = 1
    OBVIOUS
  <2>3. m + (f[l] + one) >= n /\ (one = 1 => m + (f[l] + one) >= n + 1)
    BY <1>2, <2>1
  <2> HIDE DEF one
  <2> QED
    BY <2>1, <2>2, <2>3
<1> QED
  BY <1>8, <1>9 DEF Charged

(* The innermost call returns: what it has counted goes to the body.        *)
LEMMA ChargedPop ==
    ASSUME NEW s \in Seq(CallRecord), NEW b \in Bodies, Len(s) # 0, Mine(s[Len(s)], b),
           NEW m \in Nat, NEW n \in Nat, Charged(s, b, m, n)
    PROVE  Charged(SubSeq(s, 1, Len(s) - 1), b, m + s[Len(s)].score, n)
<1> DEFINE l == Len(s)
           p == Len(s) - 1
           t == SubSeq(s, 1, p)
           v == s[l].score
<1>1. PICK f : Counts(s, b, f) /\ m + f[l] >= n
  BY DEF Charged
<1> DEFINE g == [i \in 0..p |-> f[i]]
<1>2. l \in Nat /\ p \in Nat /\ p \in 0..l /\ l \in 1..l /\ v \in Nat
  <2>1. l \in 1..l /\ s[l] \in CallRecord
    OBVIOUS
  <2> QED
    BY <2>1 DEF CallRecord
<1>3. /\ f \in [0..l -> Nat] /\ f[0] = 0
      /\ \A i \in 1..l : f[i] = f[i - 1] + (IF Mine(s[i], b) THEN s[i].score ELSE 0)
      /\ \A i, j \in 0..l : i <= j /\ (\A k \in i + 1..j : ~Mine(s[k], b)) => f[i] = f[j]
  BY <1>1 DEF Counts
<1>4. /\ \A i \in 0..p : i \in 0..l /\ g[i] = f[i]
      /\ \A i \in 1..p : i \in 1..l /\ i \in 0..p /\ i - 1 \in 0..p
      /\ g \in [0..p -> Nat] /\ 0 \in 0..p /\ p \in 0..p /\ l \in 0..l
  BY <1>2, <1>3
<1>5. f[l] = f[p] + v /\ f[l] \in Nat /\ f[p] \in Nat
  BY <1>2, <1>3, <1>4
<1>10. Len(t) = p /\ \A i \in 1..p : t[i] = s[i]
  <2> HIDE DEF p
  <2> QED
    BY <1>2, PrefixFacts
<1> HIDE DEF g, t, l, p, v
<1>6. \A i, j \in 0..p : i <= j /\ (\A k \in i + 1..j : ~Mine(t[k], b)) => g[i] = g[j]
  <2> SUFFICES ASSUME NEW i \in 0..p, NEW j \in 0..p, i <= j,
                      \A k \in i + 1..j : ~Mine(t[k], b)
               PROVE  g[i] = g[j]
    OBVIOUS
  <2>1. \A k \in i + 1..j : k \in 1..p
    BY <1>2
  <2>2. \A k \in i + 1..j : ~Mine(s[k], b)
    BY <1>10, <2>1
  <2> QED
    BY <1>3, <1>4, <2>2
<1>7. \A i \in 1..p : g[i] = g[i - 1] + (IF Mine(t[i], b) THEN t[i].score ELSE 0)
  BY <1>10, <1>3, <1>4
<1>8. Counts(t, b, g)
  BY <1>10, <1>3, <1>4, <1>6, <1>7 DEF Counts
<1>9. (m + v) + g[Len(t)] >= n
  BY <1>1, <1>2, <1>4, <1>5, <1>10
<1>11. Charged(t, b, m + v, n)
  BY <1>8, <1>9 DEF Charged
<1> QED
  BY <1>11 DEF t, p, l, v

LEMMA ChargedLess ==
    ASSUME NEW s \in Seq(CallRecord), NEW b, NEW m \in Nat, NEW n \in Nat, NEW k \in Nat,
           k <= n, Charged(s, b, m, n)
    PROVE  Charged(s, b, m, k)
<1>1. PICK f : Counts(s, b, f) /\ m + f[Len(s)] >= n
  BY DEF Charged
<1>2. f[Len(s)] \in Nat
  <2>1. Len(s) \in 0..Len(s)
    OBVIOUS
  <2> QED
    BY <1>1, <2>1 DEF Counts
<1>3. m + f[Len(s)] >= k
  BY <1>1, <1>2
<1> QED
  BY <1>1, <1>3 DEF Charged

-----------------------------------------------------------------------------
(* How many instructions of a body count                                   *)

LEMMA ExecutedType ==
    ASSUME NEW s \in Seq(Instrs)
    PROVE  /\ Executed(s) \in Nat
           /\ IsFiniteSet({j \in 1..Len(s) : s[j].op \in NodeOps})
<1>1. IsFiniteSet(1..Len(s))
  BY FS_Interval
<1>2. {j \in 1..Len(s) : s[j].op \in NodeOps} \in SUBSET (1..Len(s))
  OBVIOUS
<1>3. IsFiniteSet({j \in 1..Len(s) : s[j].op \in NodeOps})
  BY <1>1, <1>2, FS_Subset
<1> QED
  BY <1>3, FS_CardinalityType DEF Executed

LEMMA ExecutedAppend ==
    ASSUME NEW s \in Seq(Instrs), NEW i \in Instrs
    PROVE  /\ Executed(Append(s, i)) <= Executed(s) + 1
           /\ i.op \notin NodeOps => Executed(Append(s, i)) = Executed(s)
<1> DEFINE t == Append(s, i)
           S == {j \in 1..Len(s) : s[j].op \in NodeOps}
           T == {j \in 1..Len(t) : t[j].op \in NodeOps}
           n == Len(s) + 1
<1>1. /\ Len(t) = n /\ t[n] = i /\ Len(s) \in Nat /\ \A j \in 1..Len(s) : t[j] = s[j]
      /\ \A j \in 1..n : j \in 1..Len(s) \/ j = n
  BY AppendFacts
<1>2. Executed(s) = Cardinality(S) /\ Executed(t) = Cardinality(T) /\ Cardinality(S) \in Nat
      /\ IsFiniteSet(S)
  BY ExecutedType DEF Executed
<1>3. CASE i.op \in NodeOps
  <2>1. T = S \cup {n}
    BY <1>1, <1>3
  <2>2. Cardinality(T) = IF n \in S THEN Cardinality(S) ELSE Cardinality(S) + 1
    <3> HIDE DEF S, n
    <3>1. Cardinality(S \cup {n}) = IF n \in S THEN Cardinality(S) ELSE Cardinality(S) + 1
      BY <1>2, FS_AddElement
    <3> QED
      BY <2>1, <3>1
  <2> HIDE DEF S, T, t, n
  <2>3. Cardinality(T) <= Cardinality(S) + 1
    BY <1>2, <2>2
  <2>4. Executed(t) <= Executed(s) + 1
    BY <1>2, <2>3
  <2> QED
    BY <1>3, <2>4 DEF t
<1>4. CASE i.op \notin NodeOps
  <2>1. T = S
    BY <1>1, <1>4
  <2>2. Executed(t) = Executed(s) /\ Executed(s) \in Nat
    BY <1>2, <2>1
  <2> HIDE DEF t
  <2>3. Executed(t) <= Executed(s) + 1
    BY <2>2
  <2> QED
    BY <2>2, <2>3 DEF t
<1> QED
  BY <1>3, <1>4

LEMMA ExecutedFront ==
    ASSUME NEW s \in Seq(Instrs), s # << >>
    PROVE  Executed(Front(s)) <= Executed(s) /\ Front(s) \in Seq(Instrs)
<1> DEFINE t == Front(s)
           n == Len(s) - 1
           S == {j \in 1..Len(s) : s[j].op \in NodeOps}
           T == {j \in 1..Len(t) : t[j].op \in NodeOps}
<1>1. n \in 0..Len(s)
  OBVIOUS
<1>2. t \in Seq(Instrs) /\ Len(t) = n /\ \A j \in 1..n : t[j] = s[j] /\ j \in 1..Len(s)
  <2>1. t = SubSeq(s, 1, n)
    BY DEF Front
  <2>2. \A j \in 1..n : j \in 1..Len(s)
    BY <1>1
  <2> HIDE DEF n
  <2> QED
    BY <1>1, <2>1, <2>2, PrefixFacts
<1>3. T \in SUBSET S
  BY <1>2
<1>4. Cardinality(T) <= Cardinality(S)
  BY <1>3, ExecutedType, FS_Subset
<1> QED
  BY <1>2, <1>4 DEF Executed

(* What remove_blank_strings takes off the score is what it takes out.      *)
LEMMA ExecutedTrim ==
    ASSUME NEW s \in Seq(Instrs), NEW t \in Seq(Instrs), Len(t) = Len(s),
           \A j \in 1..Len(s) :
             t[j] = IF s[j].op \in {"text", "space"} THEN Instr("jump", 0) ELSE s[j]
    PROVE  LET removed == {j \in 1..Len(s) : s[j].op \in {"text", "space"}}
           IN Cardinality(removed) \in Nat /\ Executed(t) = Executed(s) - Cardinality(removed)
<1> DEFINE S == {j \in 1..Len(s) : s[j].op \in NodeOps}
           T == {j \in 1..Len(s) : t[j].op \in NodeOps}
           R == {j \in 1..Len(s) : s[j].op \in {"text", "space"}}
<1>1. IsFiniteSet(S) /\ Executed(s) = Cardinality(S) /\ Executed(t) = Cardinality(T)
  BY ExecutedType DEF Executed
<1>2. R \in SUBSET S /\ S \cap R = R /\ T = S \ R
  <2>1. Instr("jump", 0).op = "jump" /\ "jump" \notin NodeOps
        /\ {"text", "space"} \subseteq NodeOps
    BY DEF Instr, NodeOps
  <2> QED
    BY <2>1
<1>3. IsFiniteSet(R) /\ Cardinality(R) \in Nat
  BY <1>1, <1>2, FS_Subset, FS_CardinalityType
<1>4. Cardinality(S \ R) = Cardinality(S) - Cardinality(S \cap R)
  BY <1>1, FS_Difference
<1> HIDE DEF S, T, R
<1>5. Executed(t) = Executed(s) - Cardinality(R)
  BY <1>1, <1>2, <1>4
<1> QED
  BY <1>3, <1>5 DEF R

-----------------------------------------------------------------------------
(* What each body has been charged                                         *)

(* Fine(b): while b may still be frozen after a parse that ends well, its   *)
(* score and what its calls of parse have counted cover what is in it.      *)
Fine(b) ==
    /\ body[b].score \in Nat
    /\ Open(b) /\ (CodeOf(b).parsing => Waiting(b)) =>
         Charged(calls, b, body[b].score, Executed(CodeOf(b).ins))
    /\ Compiled(b) /\ ~body[b].meant.parsing =>
         HeaderOf(b).score >= Executed(body[b].meant.ins)

ScoresOK == \A b \in Bodies : Fine(b)

(* What the calls count for x is not less, and none has begun.              *)
Moves(x) ==
    /\ Waiting(x)' => Waiting(x)
    /\ \A m, n \in Nat : Charged(calls, x, m, n) => Charged(calls', x, m, n)

LEMMA FineSame ==
    ASSUME IInv, Grown, NEW x \in Bodies, Fine(x), body'[x] = body[x],
           Open(x) => CodeOf(x)' = CodeOf(x), Moves(x)
    PROVE  Fine(x)'
<1>1. body'[x].score \in Nat
  BY DEF Fine
<1>2. ASSUME Open(x)', CodeOf(x)'.parsing => Waiting(x)'
      PROVE  Charged(calls', x, body'[x].score, Executed(CodeOf(x)'.ins))
  <2>1. Open(x) /\ CodeOf(x)' = CodeOf(x)
    BY <1>2 DEF Open
  <2>2. Executed(CodeOf(x).ins) \in Nat
    BY <2>1, OpenFacts, SoundFacts, ExecutedType DEF IInv
  <2>3. CodeOf(x).parsing => Waiting(x)
    BY <1>2, <2>1 DEF Moves
  <2>4. Charged(calls, x, body[x].score, Executed(CodeOf(x).ins))
    BY <2>1, <2>3 DEF Fine
  <2> QED
    BY <1>1, <2>1, <2>2, <2>4 DEF Moves
<1>3. ASSUME Compiled(x)', ~body'[x].meant.parsing
      PROVE  HeaderOf(x)'.score >= Executed(body'[x].meant.ins)
  <2>1. Compiled(x) /\ HeaderOf(x).score >= Executed(body[x].meant.ins)
    BY <1>3 DEF Compiled, Fine
  <2>2. HeaderOf(x)' = HeaderOf(x)
    <3>1. Reads(docs, body[x]) /\ body[x] \in BodyRecord /\ DocsOK
      BY <2>1 DEF IInv, StateOK, CompiledOK
    <3> DEFINE d == docs[body[x].doc]
               e == docs'[body[x].doc]
               o == body[x].offset + 1
    <3>2. body[x].doc \in 1..Len(docs) /\ o \in Nat \ {0} /\ Len(body[x].meant.ins) \in Nat
          /\ o + Len(body[x].meant.ins) <= Len(d.buffer) /\ Len(d.buffer) \in Nat
      <4>1. body[x].doc \in 1..Len(docs) /\ Sound(body[x].meant)
            /\ o + Len(body[x].meant.ins) <= Len(d.buffer)
        BY <3>1 DEF Reads
      <4>2. o \in Nat \ {0}
        BY <3>1 DEF BodyRecord
      <4> HIDE DEF o
      <4> QED
        BY <3>1, <4>1, <4>2, SoundFacts, DocFacts
    <3>3. \A j \in 1..Len(d.buffer) : e.buffer[j] = d.buffer[j]
      BY <3>2 DEF Grown, Extends
    <3> HIDE DEF d, e, o
    <3>4. o \in 1..Len(d.buffer)
      BY <3>2
    <3>5. e.buffer[o] = d.buffer[o]
      BY <3>3, <3>4
    <3> QED
      BY <3>5 DEF HeaderOf, d, e, o
  <2> QED
    BY <2>1, <2>2
<1> QED
  BY <1>1, <1>2, <1>3 DEF Fine, Open, Compiled, CodeOf

LEMMA MovesSame ==
    ASSUME calls' = calls, NEW x
    PROVE  Moves(x)
BY DEF Moves, Waiting

LEMMA MovesPush ==
    ASSUME CallsOK, NEW f \in CallRecord, calls' = Append(calls, f), f.score = 0,
           NEW x \in Bodies, ~Mine(f, x)
    PROVE  Moves(x)
<1>1. calls \in Seq(CallRecord)
  BY CallsFacts
<1>2. /\ Len(calls') = Len(calls) + 1 /\ calls'[Len(calls) + 1] = f /\ Len(calls) \in Nat
      /\ \A j \in 1..Len(calls) : calls'[j] = calls[j]
  BY <1>1, AppendFacts
<1>3. \A i \in 1..Len(calls') : i \in 1..Len(calls) \/ i = Len(calls) + 1
  BY <1>2
<1>4. Waiting(x)' => Waiting(x)
  BY <1>2, <1>3 DEF Waiting
<1>5. \A m, n \in Nat : Charged(calls, x, m, n) => Charged(calls', x, m, n)
  BY <1>1, ChargedPush
<1> QED
  BY <1>4, <1>5 DEF Moves

LEMMA MovesPrefix ==
    ASSUME CallsOK, NEW p \in 0..Len(calls), calls' = SubSeq(calls, 1, p),
           NEW x \in Bodies, \A i \in p + 1..Len(calls) : ~Mine(calls[i], x)
    PROVE  Moves(x)
<1>1. calls \in Seq(CallRecord) /\ Len(calls) \in Nat
  BY CallsFacts
<1>2. Len(calls') = p /\ \A j \in 1..p : calls'[j] = calls[j] /\ j \in 1..Len(calls)
  <2>1. \A j \in 1..p : j \in 1..Len(calls)
    BY <1>1
  <2> QED
    BY <1>1, <2>1, PrefixFacts
<1>3. Waiting(x)' => Waiting(x)
  BY <1>2 DEF Waiting
<1>4. \A m, n \in Nat : Charged(calls, x, m, n) => Charged(calls', x, m, n)
  BY <1>1, ChargedPrefix
<1> QED
  BY <1>3, <1>4 DEF Moves

(* Only the assembler of b is written to.                                   *)
LEMMA CodeKeeps ==
    ASSUME StateOK, NEW b \in Bodies, Open(b), NEW c,
           asms' = [asms EXCEPT ![body[b].code] = c],
           \A x \in Bodies : x # b => body'[x] = body[x]
    PROVE  /\ asms'[body[b].code] = c
           /\ \A x \in Bodies : x # b /\ Open(x) => CodeOf(x)' = CodeOf(x)
<1>1. /\ body[b].code \in 1..Len(asms) /\ asms \in Seq(CodeRecord)
      /\ \A x \in Bodies : x # b /\ Open(x) =>
           body[x].code # body[b].code /\ body[x].code \in 1..Len(asms)
  BY OwnedFacts DEF StateOK, OpenOK, AsmsOK
<1>2. /\ asms'[body[b].code] = c
      /\ \A i \in 1..Len(asms) : i # body[b].code => asms'[i] = asms[i]
  BY <1>1
<1> QED
  BY <1>1, <1>2 DEF CodeOf

(* A body that is not being parsed has what covers it in its score.         *)
LEMMA FineParsed ==
    ASSUME IInv, NEW b \in Bodies, Fine(b), Open(b), ~CodeOf(b).parsing
    PROVE  /\ body[b].score \in Nat /\ Executed(CodeOf(b).ins) \in Nat
           /\ body[b].score >= Executed(CodeOf(b).ins) /\ ~Waiting(b)
           /\ calls \in Seq(CallRecord)
<1>1. calls \in Seq(CallRecord) /\ \A i \in 1..Len(calls) : ~Mine(calls[i], b)
  BY CallsOpen, CallsFacts DEF IInv, Mine
<1>2. Executed(CodeOf(b).ins) \in Nat
  BY OpenFacts, SoundFacts, ExecutedType DEF IInv
<1>3. body[b].score \in Nat /\ Charged(calls, b, body[b].score, Executed(CodeOf(b).ins))
  BY DEF Fine
<1>4. body[b].score >= Executed(CodeOf(b).ins)
  BY <1>1, <1>2, <1>3, ChargedFree
<1> QED
  BY <1>1, <1>2, <1>3, <1>4 DEF Waiting

LEMMA ScoreStep ==
    ASSUME IInv, ScoresOK, Grown, NEW b \in Bodies, Fine(b)',
           \A x \in Bodies : x # b =>
             body'[x] = body[x] /\ (Open(x) => CodeOf(x)' = CodeOf(x)) /\ Moves(x)
    PROVE  ScoresOK'
<1>1. ASSUME NEW x \in Bodies
      PROVE  Fine(x)'
  <2>1. CASE x = b
    BY <2>1
  <2>2. CASE x # b
    BY <2>2, FineSame DEF ScoresOK
  <2> QED
    BY <2>1, <2>2
<1> QED
  BY <1>1 DEF ScoresOK

(* Steps that neither change a body nor its code                            *)
LEMMA ScoreIdle ==
    ASSUME IInv, ScoresOK, Grown, UNCHANGED <<asms, body>>, \A x \in Bodies : Moves(x)
    PROVE  ScoresOK'
<1>1. \A x \in Bodies : CodeOf(x)' = CodeOf(x)
  BY DEF CodeOf
<1>2. ASSUME NEW x \in Bodies
      PROVE  Fine(x)'
  BY <1>1, FineSame DEF ScoresOK
<1> QED
  BY <1>2 DEF ScoresOK

(* A new node counts at most one, in the innermost call.                    *)
LEMMA EmitScores ==
    ASSUME IInv, ScoresOK, NEW b \in Bodies, Parsing(b), NEW c, Sound(c), NEW blank,
           Executed(c.ins) <= Executed(CodeOf(b).ins) + 1, Emit(b, c, blank)
    PROVE  ScoresOK'
<1> DEFINE n == Len(calls)
           e == [calls[n] EXCEPT !.score = Last(calls).score + 1]
<1>1. /\ StateOK /\ CallsOK /\ Fine(b) /\ Open(b) /\ n \in 1..n /\ n \in Nat /\ n # 0
      /\ Last(calls) = calls[n] /\ calls[n] \in CallRecord /\ calls[n].body = b
      /\ calls[n].call \in {"body", "liquid"} /\ calls \in Seq(CallRecord)
      /\ body \in [Bodies -> BodyRecord] /\ docs' = docs
  BY TopFacts, CallsFacts DEF IInv, ScoresOK, StateOK, Emit
<1>2. Grown
  BY <1>1, DocsStay DEF StateOK
<1>3. /\ \A x \in Bodies : x # b => body'[x] = body[x]
      /\ body'[b].phase = "open" /\ body'[b].code = body[b].code
      /\ body'[b].score = body[b].score
  <2>1. body[b] \in BodyRecord /\ body[b].phase = "open"
    BY <1>1 DEF Open
  <2>2. body' = [body EXCEPT ![b] = [body[b] EXCEPT !.blank = body[b].blank /\ blank]]
    BY DEF Emit
  <2> QED
    BY <1>1, <2>1, <2>2 DEF BodyRecord
<1>4. /\ asms'[body[b].code] = c
      /\ \A x \in Bodies : x # b /\ Open(x) => CodeOf(x)' = CodeOf(x)
  <2>1. asms' = [asms EXCEPT ![body[b].code] = c]
    BY DEF Emit
  <2> QED
    BY <1>1, <1>3, <2>1, CodeKeeps
<1>5. /\ e \in CallRecord /\ e.call = calls[n].call /\ e.body = calls[n].body
      /\ e.score = calls[n].score + 1
  BY <1>1, SMTT(20) DEF CallRecord
<1>6. calls' = [calls EXCEPT ![n] = e]
  BY DEF Emit
<1> HIDE DEF e
<1>7. /\ calls' \in Seq(CallRecord) /\ Len(calls') = n /\ calls'[n] = e
      /\ \A i \in 1..n : i # n => calls'[i] = calls[i]
  BY <1>1, <1>5, <1>6
<1>8. /\ \A i \in 1..n : \A x : Mine(calls'[i], x) <=> Mine(calls[i], x)
      /\ \A i \in 1..n : i # n => calls'[i].score = calls[i].score
      /\ calls'[n].score = calls[n].score + 1 /\ Mine(calls[n], b)
  BY <1>1, <1>5, <1>7 DEF Mine
<1>9. ASSUME NEW x \in Bodies
      PROVE  Moves(x)
  <2>1. Waiting(x)' => Waiting(x)
    BY <1>7, <1>8 DEF Waiting
  <2>2. \A m, k \in Nat : Charged(calls, x, m, k) => Charged(calls', x, m, k)
    BY <1>1, <1>7, <1>8, ChargedTop
  <2> QED
    BY <2>1, <2>2 DEF Moves
<1>10. Charged(calls', b, body[b].score, Executed(c.ins))
  <2>1. Executed(c.ins) \in Nat /\ Executed(CodeOf(b).ins) \in Nat /\ body[b].score \in Nat
    BY <1>1, OpenFacts, SoundFacts, ExecutedType DEF Fine
  <2>2. Charged(calls, b, body[b].score, Executed(CodeOf(b).ins))
    BY <1>1, <1>8 DEF Fine, Waiting
  <2>3. Charged(calls', b, body[b].score, Executed(CodeOf(b).ins) + 1)
    BY <1>1, <1>7, <1>8, <2>1, <2>2, ChargedTop
  <2>4. Executed(CodeOf(b).ins) + 1 \in Nat
    BY <2>1
  <2> QED
    BY <1>7, <2>1, <2>3, <2>4, ChargedLess
<1>11. Fine(b)'
  <2>1. CodeOf(b)' = c
    BY <1>3, <1>4 DEF CodeOf
  <2>2. body'[b].score \in Nat /\ ~Compiled(b)'
    BY <1>1, <1>3 DEF Fine, Compiled
  <2>3. Charged(calls', b, body'[b].score, Executed(CodeOf(b)'.ins))
    BY <1>3, <1>10, <2>1
  <2> QED
    BY <2>2, <2>3 DEF Fine, CodeOf, Compiled
<1> QED
  BY <1>2, <1>3, <1>4, <1>9, <1>11, ScoreStep

(* Every token and tag that adds to the code counts.                        *)
LEMMA TokenScores ==
    ASSUME IInv, ScoresOK, NEW b \in Bodies,
           RawToken(b) \/ VariableToken(b) \/ TagToken(b) \/ RawTag(b)
    PROVE  ScoresOK'
<1>1. /\ Parsing(b) /\ Open(b) /\ CodeOf(b).parsing /\ Sound(CodeOf(b))
      /\ CodeOf(b).ins \in Seq(Instrs) /\ CodeOf(b) \in CodeRecord
      /\ Executed(CodeOf(b).ins) \in Nat
  <2>1. Parsing(b) /\ StateOK /\ CallsOK
    BY DEF RawToken, VariableToken, TagToken, RawTag, IInv
  <2> QED
    BY <2>1, TopFacts, OpenFacts, SoundFacts, ExecutedType
<1>2. ASSUME NEW op \in {"text", "space", "var"}, NEW blank, Emit(b, AddInstr(b, op), blank)
      PROVE  ScoresOK'
  <2>1. Sound(AddInstr(b, op))
    BY <1>1, AddInstrSound
  <2>2. AddInstr(b, op).ins = Append(CodeOf(b).ins, Instr(op, 0))
    BY <1>1 DEF AddInstr, CodeRecord
  <2>3. Instr(op, 0) \in Instrs
    BY DEF Instr, Instrs, Ops, NodeOps
  <2>4. Executed(AddInstr(b, op).ins) <= Executed(CodeOf(b).ins) + 1
    BY <1>1, <2>2, <2>3, ExecutedAppend
  <2> QED
    BY <1>1, <1>2, <2>1, <2>4, EmitScores
<1>3. CASE RawToken(b)
  BY <1>2, <1>3 DEF RawToken
<1>4. CASE VariableToken(b)
  BY <1>2, <1>4 DEF VariableToken
<1>5. CASE TagToken(b)
  <2> DEFINE node == <<b, Len(CodeOf(b).ins)>>
             c == AddNode(CodeOf(b), node)
  <2>1. PICK blank \in BOOLEAN : Emit(b, c, blank)
    BY <1>5 DEF TagToken
  <2>2. node \in Bodies \X Nat
    BY <1>1, SoundFacts
  <2> HIDE DEF node
  <2>3. Sound(c)
    BY <1>1, <2>2, AddNodeSound
  <2>4. c.ins = Append(CodeOf(b).ins, Instr("node", Len(CodeOf(b).consts)))
    BY <1>1 DEF AddNode, CodeRecord
  <2>5. Instr("node", Len(CodeOf(b).consts)) \in Instrs
    BY <1>1, SoundFacts DEF Instr, Instrs, Ops, NodeOps
  <2> HIDE DEF c
  <2>6. Executed(c.ins) <= Executed(CodeOf(b).ins) + 1
    BY <1>1, <2>4, <2>5, ExecutedAppend
  <2> QED
    BY <1>1, <2>1, <2>3, <2>6, EmitScores
<1>6. CASE RawTag(b)
  <2>1. Executed(CodeOf(b).ins) <= Executed(CodeOf(b).ins) + 1
    BY <1>1
  <2>2. CASE Emit(b, CodeOf(b), TRUE)
    BY <1>1, <2>1, <2>2, EmitScores
  <2>3. CASE \E op \in {"text", "space"} : Emit(b, AddInstr(b, op), FALSE)
    BY <1>2, <2>3
  <2> QED
    BY <1>6, <2>2, <2>3 DEF RawTag
<1> QED
  BY <1>3, <1>4, <1>5, <1>6

LEMMA BeginParseScores ==
    ASSUME IInv, ScoresOK, NEW b \in Bodies, BeginParse(b)
    PROVE  ScoresOK'
<1> DEFINE c == RemoveLeave(CodeOf(b))
           f == [call |-> "body", body |-> b, score |-> 0]
<1>1. /\ StateOK /\ CallsOK /\ Fine(b) /\ Open(b) /\ ~CodeOf(b).parsing
      /\ asms' = [asms EXCEPT ![body[b].code] = c] /\ calls' = Append(calls, f)
      /\ body' = body /\ docs' = docs
  BY DEF IInv, ScoresOK, BeginParse
<1>2. Grown
  BY <1>1, DocsStay DEF StateOK
<1>3. f \in CallRecord /\ f.score = 0 /\ \A x \in Bodies : x # b => ~Mine(f, x)
  BY DEF CallRecord, Mine
<1>4. /\ body[b].score \in Nat /\ Executed(CodeOf(b).ins) \in Nat
      /\ body[b].score >= Executed(CodeOf(b).ins) /\ calls \in Seq(CallRecord)
      /\ CodeOf(b).ins \in Seq(Instrs) /\ Sound(CodeOf(b)) /\ CodeOf(b) \in CodeRecord
  BY <1>1, FineParsed, OpenFacts, SoundFacts
<1>5. c.ins = Front(CodeOf(b).ins) /\ CodeOf(b).ins # << >>
  BY <1>1, <1>4 DEF RemoveLeave, CodeRecord, Sound
<1> HIDE DEF c, f
<1>6. Executed(c.ins) \in Nat /\ Executed(c.ins) <= Executed(CodeOf(b).ins)
  BY <1>4, <1>5, ExecutedFront, ExecutedType
<1>7. Charged(calls', b, body[b].score, Executed(c.ins))
  <2>1. Charged(calls, b, body[b].score, Executed(CodeOf(b).ins))
    BY <1>1 DEF Fine
  <2>2. Charged(calls, b, body[b].score, Executed(c.ins))
    BY <1>4, <1>6, <2>1, ChargedLess
  <2> QED
    BY <1>1, <1>3, <1>4, <1>6, <2>2, ChargedPush
<1>8. /\ asms'[body[b].code] = c
      /\ \A x \in Bodies : x # b /\ Open(x) => CodeOf(x)' = CodeOf(x)
  BY <1>1, CodeKeeps
<1>9. Fine(b)'
  <2>1. CodeOf(b)' = c
    BY <1>1, <1>8 DEF CodeOf
  <2>2. body'[b].score \in Nat /\ ~Compiled(b)'
    BY <1>1, <1>4 DEF Open, Compiled
  <2>3. Charged(calls', b, body'[b].score, Executed(CodeOf(b)'.ins))
    BY <1>1, <1>7, <2>1
  <2> QED
    BY <2>2, <2>3 DEF Fine, CodeOf, Compiled
<1>10. \A x \in Bodies : x # b => Moves(x)
  BY <1>1, <1>3, MovesPush
<1> QED
  BY <1>1, <1>2, <1>8, <1>9, <1>10, ScoreStep

LEMMA LiquidTagScores ==
    ASSUME IInv, ScoresOK, NEW b \in Bodies, LiquidTag(b)
    PROVE  ScoresOK'
<1> DEFINE f == [call |-> "liquid", body |-> b, score |-> 0]
<1>1. /\ StateOK /\ CallsOK /\ Fine(b) /\ Parsing(b) /\ calls' = Append(calls, f)
      /\ UNCHANGED <<asms, body, docs>>
  BY DEF IInv, ScoresOK, LiquidTag
<1>2. Grown
  BY <1>1, DocsStay DEF StateOK
<1>3. f \in CallRecord /\ f.score = 0 /\ \A x \in Bodies : x # b => ~Mine(f, x)
  BY DEF CallRecord, Mine
<1>4. /\ Open(b) /\ Last(calls) = calls[Len(calls)] /\ Len(calls) \in 1..Len(calls)
      /\ Mine(calls[Len(calls)], b) /\ calls \in Seq(CallRecord)
  <2>1. Last(calls).body = b /\ Last(calls).call # "document"
    BY <1>1, TopFacts
  <2> QED
    BY <1>1, <2>1, TopFacts, CallsFacts DEF Mine
<1>5. body[b].score \in Nat /\ Executed(CodeOf(b).ins) \in Nat
      /\ Charged(calls, b, body[b].score, Executed(CodeOf(b).ins))
  BY <1>1, <1>4, OpenFacts, SoundFacts, ExecutedType DEF Fine, Waiting
<1> HIDE DEF f
<1>6. Charged(calls', b, body[b].score, Executed(CodeOf(b).ins))
  BY <1>1, <1>3, <1>4, <1>5, ChargedPush
<1>7. \A x \in Bodies : CodeOf(x)' = CodeOf(x)
  BY <1>1 DEF CodeOf
<1>8. Fine(b)'
  <2>1. body'[b].score \in Nat /\ ~Compiled(b)'
    BY <1>1, <1>4, <1>5 DEF Open, Compiled
  <2>2. Charged(calls', b, body'[b].score, Executed(CodeOf(b)'.ins))
    BY <1>1, <1>6, <1>7
  <2> QED
    BY <2>1, <2>2 DEF Fine, CodeOf, Compiled
<1>9. \A x \in Bodies : x # b => Moves(x)
  BY <1>1, <1>3, MovesPush
<1> QED
  BY <1>1, <1>2, <1>7, <1>8, <1>9, ScoreStep

(* What the innermost call of b has counted goes to b when it returns.      *)
LEMMA ReturnScores ==
    ASSUME IInv, ScoresOK, NEW b \in Bodies, Parsing(b), NEW c, LoopReturns(b), Sound(c),
           Executed(c.ins) <= Executed(CodeOf(b).ins),
           asms' = [asms EXCEPT ![body[b].code] = c], docs' = docs
    PROVE  ScoresOK'
<1> DEFINE n == Len(calls)
           m == Len(calls) - 1
<1>1. /\ StateOK /\ CallsOK /\ Fine(b) /\ Open(b) /\ n \in 1..n /\ n \in Nat /\ n # 0
      /\ Last(calls) = calls[n] /\ calls[n] \in CallRecord /\ calls[n].body = b
      /\ calls[n].call \in {"body", "liquid"} /\ calls \in Seq(CallRecord)
      /\ body \in [Bodies -> BodyRecord]
  BY TopFacts, CallsFacts DEF IInv, ScoresOK, StateOK
<1>2. Grown
  BY <1>1, DocsStay DEF StateOK
<1>3. /\ Mine(calls[n], b) /\ \A x \in Bodies : x # b => ~Mine(calls[n], x)
      /\ calls[n].score \in Nat /\ body[b].score \in Nat
  BY <1>1 DEF Mine, CallRecord, Fine
<1>4. /\ \A x \in Bodies : x # b => body'[x] = body[x]
      /\ body'[b].phase = "open" /\ body'[b].code = body[b].code
      /\ body'[b].score = body[b].score + calls[n].score
  <2> DEFINE s == body[b].score + calls[n].score
  <2>1. body[b] \in BodyRecord /\ body[b].phase = "open"
    BY <1>1 DEF Open
  <2>2. body' = [body EXCEPT ![b] = [body[b] EXCEPT !.score = s]]
    BY <1>1 DEF LoopReturns
  <2> HIDE DEF s
  <2>3. /\ \A x \in Bodies : x # b => body'[x] = body[x]
        /\ body'[b].phase = "open" /\ body'[b].code = body[b].code /\ body'[b].score = s
    BY <1>1, <2>1, <2>2 DEF BodyRecord
  <2> QED
    BY <2>3 DEF s
<1>5. /\ asms'[body[b].code] = c
      /\ \A x \in Bodies : x # b /\ Open(x) => CodeOf(x)' = CodeOf(x)
  BY <1>1, <1>4, CodeKeeps
<1>6. calls' = SubSeq(calls, 1, m) /\ m \in 0..n
  BY <1>1 DEF LoopReturns, Front
<1>7. \A x \in Bodies : x # b => Moves(x)
  <2>1. \A i \in m + 1..n : i = n
    BY <1>1
  <2> HIDE DEF m
  <2>2. \A x \in Bodies : x # b => \A i \in m + 1..n : ~Mine(calls[i], x)
    BY <1>3, <2>1
  <2> QED
    BY <1>1, <1>6, <2>2, MovesPrefix
<1>8. Charged(calls', b, body'[b].score, Executed(c.ins))
  <2>1. Executed(c.ins) \in Nat /\ Executed(CodeOf(b).ins) \in Nat
    BY <1>1, OpenFacts, SoundFacts, ExecutedType
  <2>2. Charged(calls, b, body[b].score, Executed(CodeOf(b).ins))
    BY <1>1, <1>3 DEF Fine, Waiting
  <2>3. Charged(calls, b, body[b].score, Executed(c.ins))
    BY <1>1, <1>3, <2>1, <2>2, ChargedLess
  <2>4. Charged(SubSeq(calls, 1, n - 1), b, body[b].score + calls[n].score, Executed(c.ins))
    BY <1>1, <1>3, <2>1, <2>3, ChargedPop
  <2> QED
    BY <1>4, <1>6, <2>4
<1>9. Fine(b)'
  <2>1. CodeOf(b)' = c
    BY <1>4, <1>5 DEF CodeOf
  <2>2. body'[b].score \in Nat /\ ~Compiled(b)'
    BY <1>3, <1>4 DEF Compiled
  <2>3. Charged(calls', b, body'[b].score, Executed(CodeOf(b)'.ins))
    BY <1>8, <2>1
  <2> QED
    BY <2>2, <2>3 DEF Fine, CodeOf, Compiled
<1> QED
  BY <1>2, <1>4, <1>5, <1>7, <1>9, ScoreStep

LEMMA EndScores ==
    ASSUME IInv, ScoresOK, NEW b \in Bodies, EndLiquidTag(b) \/ EndParse(b)
    PROVE  ScoresOK'
<1>1. /\ Parsing(b) /\ LoopReturns(b) /\ docs' = docs /\ Open(b) /\ Sound(CodeOf(b))
      /\ CodeOf(b).ins \in Seq(Instrs) /\ CodeOf(b) \in CodeRecord
      /\ Executed(CodeOf(b).ins) \in Nat
  <2>1. Parsing(b) /\ StateOK /\ CallsOK /\ LoopReturns(b) /\ docs' = docs
    BY DEF EndLiquidTag, EndParse, IInv
  <2> QED
    BY <2>1, TopFacts, OpenFacts, SoundFacts, ExecutedType
<1>2. CASE EndLiquidTag(b)
  <2>1. asms' = [asms EXCEPT ![body[b].code] = CodeOf(b)]
    <3>1. asms \in Seq(CodeRecord) /\ body[b].code \in 1..Len(asms) /\ asms' = asms
      BY <1>1, <1>2, OpenFacts DEF IInv, StateOK, AsmsOK, EndLiquidTag
    <3> QED
      BY <3>1 DEF CodeOf
  <2>2. Executed(CodeOf(b).ins) <= Executed(CodeOf(b).ins)
    BY <1>1
  <2> QED
    BY <1>1, <2>1, <2>2, ReturnScores
<1>3. CASE EndParse(b)
  <2> DEFINE c == AddLeave(CodeOf(b))
  <2>1. asms' = [asms EXCEPT ![body[b].code] = c]
    BY <1>3 DEF EndParse
  <2>2. c.ins = Append(CodeOf(b).ins, Instr("leave", 0)) /\ Sound(c)
    BY <1>1, AddLeaveSound DEF AddLeave, CodeRecord
  <2>3. Instr("leave", 0) \in Instrs /\ Instr("leave", 0).op \notin NodeOps
    BY DEF Instr, Instrs, Ops, NodeOps
  <2> HIDE DEF c
  <2>4. Executed(c.ins) <= Executed(CodeOf(b).ins)
    <3>1. Executed(c.ins) = Executed(CodeOf(b).ins)
      BY <1>1, <2>2, <2>3, ExecutedAppend
    <3> QED
      BY <1>1, <3>1
  <2> QED
    BY <1>1, <2>1, <2>2, <2>4, ReturnScores
<1> QED
  BY <1>2, <1>3

(* A parse that raises loses what its calls have counted, and leaves its    *)
(* body without the LEAVE, so that it counts for nobody.                    *)
LEMMA RaiseScores ==
    ASSUME IInv, ScoresOK, NEW b \in Bodies, ParseRaises(b)
    PROVE  ScoresOK'
<1> DEFINE n == Len(calls)
           k == ParseCall
           p == ParseCall - 1
<1>1. /\ StateOK /\ CallsOK /\ Fine(b) /\ Open(b) /\ CodeOf(b).parsing
      /\ n \in 1..n /\ n \in Nat /\ calls[n].body = b
      /\ calls \in Seq(CallRecord) /\ k \in 1..n /\ calls[k].call = "body"
      /\ \A j \in k + 1..n : calls[j].call = "liquid"
      /\ UNCHANGED <<asms, body, docs>> /\ calls' = SubSeq(calls, 1, p)
  <2>1. Parsing(b) /\ StateOK /\ CallsOK /\ Fine(b)
        /\ UNCHANGED <<asms, body, docs>> /\ calls' = SubSeq(calls, 1, p)
    BY DEF ParseRaises, Unwind, IInv, ScoresOK
  <2> QED
    BY <2>1, TopFacts, CallsFacts, ParseCallFacts
<1> HIDE DEF k
<1>2. Grown
  BY <1>1, DocsStay DEF StateOK
<1>3. ASSUME NEW j \in k + 1..n
      PROVE  calls[j].body = calls[k].body
  <2>1. j \in 1..n /\ calls[j].call = "liquid" /\ k \in Nat
    BY <1>1
  <2>2. PICK i \in 1..j : InLoop(calls, i, j)
    BY <1>1, <2>1 DEF CallsOK, Shape
  <2>3. ~(i < k) /\ ~(i > k)
    <3>1. i < k => k \in i + 1..j
      BY <1>1, <2>1
    <3>2. i > k => i \in k + 1..n
      BY <1>1, <2>1
    <3> QED
      BY <1>1, <2>2, <3>1, <3>2 DEF InLoop
  <2>4. i = k
    BY <2>1, <2>3
  <2> QED
    BY <2>2, <2>4 DEF InLoop
<1>4. \A j \in k..n : calls[j].body = b /\ calls[k].body = b
  <2>1. n = k \/ n \in k + 1..n
    BY <1>1
  <2>2. calls[k].body = b
    BY <1>1, <1>3, <2>1
  <2>3. \A j \in k..n : j = k \/ j \in k + 1..n
    BY <1>1
  <2> QED
    BY <1>3, <2>2, <2>3
<1>5. p \in 0..n /\ \A i \in p + 1..n : i \in k..n
  BY <1>1 DEF k
<1>6. \A x \in Bodies : x # b => Moves(x)
  <2> HIDE DEF p
  <2>1. \A x \in Bodies : x # b => \A i \in p + 1..n : ~Mine(calls[i], x)
    BY <1>4, <1>5 DEF Mine
  <2> QED
    BY <1>1, <1>5, <2>1, MovesPrefix
<1>7. ~Waiting(b)'
  <2>1. k \in k..n /\ \A i \in 1..p : i \in 1..n /\ i < k
    BY <1>1 DEF k
  <2> HIDE DEF p
  <2>2. Len(calls') = p /\ \A i \in 1..p : calls'[i] = calls[i]
    BY <1>1, <1>5, PrefixFacts
  <2>3. \A i \in 1..p : calls[i].call # "document" => calls[i].body # calls[k].body
    BY <1>1, <2>1 DEF CallsOK, Shape
  <2> QED
    BY <1>4, <2>1, <2>2, <2>3 DEF Waiting, Mine
<1>8. \A x \in Bodies : CodeOf(x)' = CodeOf(x)
  BY <1>1 DEF CodeOf
<1>9. Fine(b)'
  <2>1. CodeOf(b)'.parsing /\ ~Compiled(b)' /\ body'[b].score \in Nat
    BY <1>1, <1>8 DEF Open, Compiled, Fine
  <2> QED
    BY <1>7, <2>1 DEF Fine, CodeOf, Compiled, Waiting
<1> QED
  BY <1>1, <1>2, <1>6, <1>8, <1>9, ScoreStep

LEMMA TrimScores ==
    ASSUME IInv, ScoresOK, NEW b \in Bodies, RemoveBlankStrings(b)
    PROVE  ScoresOK'
<1> DEFINE ins == CodeOf(b).ins
           trimmed == [j \in 1..Len(ins) |->
                         IF ins[j].op \in {"text", "space"} THEN Instr("jump", 0) ELSE ins[j]]
           removed == {j \in 1..Len(ins) : ins[j].op \in {"text", "space"}}
           c == [CodeOf(b) EXCEPT !.ins = trimmed]
           k == Cardinality(removed)
           s == body[b].score - k
<1>1. /\ StateOK /\ CallsOK /\ Fine(b) /\ Open(b) /\ ~CodeOf(b).parsing
      /\ asms' = [asms EXCEPT ![body[b].code].ins = trimmed]
      /\ body' = [body EXCEPT ![b].score = s]
      /\ docs' = docs /\ calls' = calls /\ body \in [Bodies -> BodyRecord]
  BY DEF IInv, ScoresOK, RemoveBlankStrings, StateOK
<1>2. asms' = [asms EXCEPT ![body[b].code] = c]
  BY <1>1 DEF CodeOf
<1>3. Grown
  BY <1>1, DocsStay DEF StateOK
<1>4. /\ body[b].score \in Nat /\ Executed(ins) \in Nat /\ body[b].score >= Executed(ins)
      /\ ~Waiting(b) /\ calls \in Seq(CallRecord)
      /\ ins \in Seq(Instrs) /\ CodeOf(b) \in CodeRecord
  BY <1>1, FineParsed, OpenFacts, SoundFacts
<1> HIDE DEF ins
<1>5. /\ trimmed \in Seq(Instrs) /\ Len(trimmed) = Len(ins)
      /\ \A j \in 1..Len(ins) :
           trimmed[j] = IF ins[j].op \in {"text", "space"} THEN Instr("jump", 0) ELSE ins[j]
  <2>1. Instr("jump", 0) \in Instrs /\ \A j \in 1..Len(ins) : ins[j] \in Instrs
    <3>1. Instr("jump", 0) \in Instrs
      BY DEF Instr, Instrs, Ops
    <3> QED
      BY <1>4, <3>1
  <2> DEFINE n == Len(ins)
  <2>2. n \in Nat /\ trimmed \in [1..n -> Instrs]
    BY <1>4, <2>1
  <2>3. \A j \in 1..n :
          trimmed[j] = IF ins[j].op \in {"text", "space"} THEN Instr("jump", 0) ELSE ins[j]
    OBVIOUS
  <2> HIDE DEF trimmed, n
  <2>4. trimmed \in Seq(Instrs) /\ Len(trimmed) = n
    BY <2>2
  <2> QED
    BY <2>3, <2>4 DEF n
<1> HIDE DEF trimmed
<1>6. k \in Nat /\ Executed(trimmed) = Executed(ins) - k
  BY <1>4, <1>5, ExecutedTrim
<1> HIDE DEF removed, k
<1>7. c.ins = trimmed
  BY <1>4 DEF CodeRecord
<1> HIDE DEF c
<1>8. Executed(trimmed) \in Nat
  BY <1>5, ExecutedType
<1>9. s \in Nat /\ s >= Executed(trimmed)
  BY <1>4, <1>6, <1>8
<1> HIDE DEF s
<1>10. /\ \A x \in Bodies : x # b => body'[x] = body[x]
       /\ body'[b].phase = "open" /\ body'[b].code = body[b].code /\ body'[b].score = s
  <2>1. body[b] \in BodyRecord /\ body[b].phase = "open"
    BY <1>1 DEF Open
  <2> QED
    BY <1>1, <2>1 DEF BodyRecord
<1>11. /\ asms'[body[b].code] = c
       /\ \A x \in Bodies : x # b /\ Open(x) => CodeOf(x)' = CodeOf(x)
  BY <1>1, <1>2, <1>10, CodeKeeps
<1>12. Charged(calls', b, s, Executed(trimmed))
  <2>1. \A i \in 1..Len(calls) : ~Mine(calls[i], b)
    BY <1>4 DEF Waiting
  <2> QED
    BY <1>1, <1>4, <1>8, <1>9, <2>1, ChargedFree
<1>13. Fine(b)'
  <2>1. CodeOf(b)' = c
    BY <1>10, <1>11 DEF CodeOf
  <2>2. body'[b].score \in Nat /\ ~Compiled(b)'
    BY <1>9, <1>10 DEF Compiled
  <2>3. Charged(calls', b, body'[b].score, Executed(CodeOf(b)'.ins))
    BY <1>7, <1>10, <1>12, <2>1
  <2> QED
    BY <2>2, <2>3 DEF Fine, CodeOf, Compiled
<1>14. \A x \in Bodies : Moves(x)
  BY <1>1, MovesSame
<1> QED
  BY <1>3, <1>10, <1>11, <1>13, <1>14, ScoreStep
(* A new body has the assembler of another in its hands only if that one is *)
(* done with it.                                                           *)
LEMMA NewScores ==
    ASSUME IInv, ScoresOK, NEW b \in Bodies, NewBody(b)
    PROVE  ScoresOK'
<1> DEFINE free == freelists[pool]
           a == IF free # << >> THEN Head(free) ELSE Len(asms) + 1
           c == AddLeave(Reset)
           r == [Unborn EXCEPT !.phase = "open", !.pool = pool, !.code = a]
<1>1. /\ StateOK /\ CallsOK /\ body[b].phase = "none" /\ pool # 0
      /\ docs' = docs /\ calls' = calls /\ body' = [body EXCEPT ![b] = r]
      /\ asms' = IF free # << >> THEN [asms EXCEPT ![a] = AddLeave(asms[a])]
                                 ELSE Append(asms, c)
      /\ body \in [Bodies -> BodyRecord]
  BY DEF IInv, NewBody, StateOK
<1>2. /\ pool \in 1..Len(freelists) /\ free \in Seq(Nat) /\ asms \in Seq(CodeRecord)
      /\ Len(asms) \in Nat /\ \A i \in 1..Len(free) : free[i] \in 1..Len(asms)
      /\ \A x \in Bodies : Open(x) => body[x].code \in 1..Len(asms)
      /\ \A i \in 1..Len(free) : asms[free[i]] = Reset
      /\ \A i \in 1..Len(free) : \A x \in Bodies : Open(x) => body[x].code # free[i]
  <2>1. pool \in 1..Len(freelists)
    BY <1>1 DEF StateOK, ListsOK
  <2> QED
    BY <1>1, <2>1, OwnedFacts DEF StateOK, ListsOK, AsmsOK, OpenOK
<1>3. c \in CodeRecord
  BY ResetSound, AddLeaveSound DEF Sound
<1> HIDE DEF c
<1>4. /\ asms'[a] = c
      /\ \A x \in Bodies : Open(x) => asms'[body[x].code] = asms[body[x].code]
  <2>1. CASE free # << >>
    <3>1. 1 \in 1..Len(free) /\ a = free[1]
      BY <1>2, <2>1, TailFacts
    <3>2. a \in 1..Len(asms) /\ asms[a] = Reset
      BY <1>2, <3>1
    <3>3. asms' = [asms EXCEPT ![a] = c]
      BY <1>1, <2>1, <3>2 DEF c
    <3>4. \A x \in Bodies : Open(x) => body[x].code # a
      BY <1>2, <3>1
    <3> HIDE DEF a
    <3> QED
      BY <1>2, <3>2, <3>3, <3>4
  <2>2. CASE free = << >>
    <3>1. a = Len(asms) + 1 /\ asms' = Append(asms, c)
      BY <1>1, <2>2
    <3>2. asms'[Len(asms) + 1] = c /\ \A i \in 1..Len(asms) : asms'[i] = asms[i]
      BY <1>2, <1>3, <3>1, AppendFacts
    <3> QED
      BY <1>2, <3>1, <3>2
  <2> QED
    BY <2>1, <2>2
<1>5. /\ \A x \in Bodies : x # b => body'[x] = body[x]
      /\ body'[b].phase = "open" /\ body'[b].score = 0 /\ body'[b].code = a
  <2> HIDE DEF a
  <2> QED
    BY <1>1 DEF Unborn
<1> HIDE DEF a
<1>6. \A x \in Bodies : x # b /\ Open(x) => CodeOf(x)' = CodeOf(x)
  BY <1>4, <1>5 DEF CodeOf
<1>7. Executed(c.ins) = 0
  <2>1. c.ins = Append(<< >>, Instr("leave", 0)) /\ << >> \in Seq(Instrs)
    BY DEF c, AddLeave, Reset
  <2>2. Instr("leave", 0) \in Instrs /\ Instr("leave", 0).op \notin NodeOps
    BY DEF Instr, Instrs, Ops, NodeOps
  <2>3. Executed(<< >>) = 0
    <3>1. {j \in 1..Len(<< >>) : << >>[j].op \in NodeOps} = {}
      OBVIOUS
    <3> QED
      BY <3>1, FS_EmptySet DEF Executed
  <2> QED
    BY <2>1, <2>2, <2>3, ExecutedAppend
<1>8. Charged(calls', b, 0, 0)
  <2>1. calls \in Seq(CallRecord) /\ \A i \in 1..Len(calls) : ~Mine(calls[i], b)
    BY <1>1, CallsOpen, CallsFacts DEF Mine, Open
  <2>2. 0 \in Nat /\ 0 >= 0
    OBVIOUS
  <2> QED
    BY <1>1, <2>1, <2>2, ChargedFree
<1>9. Fine(b)'
  <2>1. CodeOf(b)' = c
    BY <1>4, <1>5 DEF CodeOf
  <2>2. body'[b].score \in Nat /\ ~Compiled(b)'
    BY <1>5 DEF Compiled
  <2>3. Charged(calls', b, body'[b].score, Executed(CodeOf(b)'.ins))
    BY <1>5, <1>7, <1>8, <2>1
  <2> QED
    BY <2>2, <2>3 DEF Fine, CodeOf, Compiled
<1>10. \A x \in Bodies : Moves(x)
  BY <1>1, MovesSame
<1>11. Grown
  BY <1>1, DocsStay DEF StateOK
<1> QED
  BY <1>5, <1>6, <1>9, <1>10, <1>11, ScoreStep

(* The header that freeze writes has the score that covers the code.        *)
LEMMA FreezeScores ==
    ASSUME IInv, ScoresOK, NEW b \in Bodies, Freeze(b)
    PROVE  ScoresOK'
<1>1. /\ StateOK /\ CallsOK /\ Fine(b) /\ Open(b)
      /\ asms' = [asms EXCEPT ![body[b].code] = Reset] /\ calls' = calls
  BY DEF IInv, ScoresOK, Freeze
<1>2. /\ Grown /\ body'[b].phase = "compiled" /\ body'[b].meant = CodeOf(b)
      /\ body'[b].score = 0 /\ HeaderOf(b)'.score = body[b].score
      /\ \A x \in Bodies : x # b => body'[x] = body[x]
  BY FreezeWrites DEF HeaderOf
<1>3. \A x \in Bodies : x # b /\ Open(x) => CodeOf(x)' = CodeOf(x)
  BY <1>1, <1>2, CodeKeeps
<1>4. Fine(b)'
  <2>1. body'[b].score \in Nat /\ ~Open(b)'
    BY <1>2 DEF Open
  <2>2. ~CodeOf(b).parsing => body[b].score >= Executed(CodeOf(b).ins)
    BY <1>1, FineParsed
  <2>3. ~body'[b].meant.parsing => HeaderOf(b)'.score >= Executed(body'[b].meant.ins)
    BY <1>2, <2>2
  <2> QED
    BY <2>1, <2>3 DEF Fine, Open, HeaderOf
<1>5. \A x \in Bodies : Moves(x)
  BY <1>1, MovesSame
<1> QED
  BY <1>2, <1>3, <1>4, <1>5, ScoreStep

LEMMA DocumentScores ==
    ASSUME IInv, ScoresOK, StartDocument \/ RefuseDocument \/ EndDocument
    PROVE  ScoresOK'
<1>1. StateOK /\ CallsOK /\ UNCHANGED <<asms, body>> /\ calls \in Seq(CallRecord)
  BY CallsFacts DEF IInv, StartDocument, RefuseDocument, EndDocument
<1>2. CASE StartDocument
  <2> DEFINE f == [call |-> "document", body |-> 0, score |-> 0]
             new == [frozen |-> FALSE, buffer |-> << >>, constants |-> << >>]
  <2>1. calls' = Append(calls, f) /\ docs' = Append(docs, new)
    BY <1>2 DEF StartDocument
  <2>2. f \in CallRecord /\ f.score = 0 /\ \A x : ~Mine(f, x)
    BY DEF CallRecord, Mine
  <2>3. new \in Docs /\ docs \in Seq(Docs)
    BY <1>1 DEF Docs, StateOK, DocsOK
  <2> HIDE DEF f, new
  <2>4. \A x \in Bodies : Moves(x)
    BY <1>1, <2>1, <2>2, MovesPush
  <2>5. Grown
    <3>1. \A d \in 1..Len(docs) : Extends(docs[d], docs[d])
      BY <1>1, DocFacts DEF StateOK, Extends
    <3>2. Len(docs') = Len(docs) + 1 /\ Len(docs) \in Nat
          /\ \A d \in 1..Len(docs) : docs'[d] = docs[d]
      BY <2>1, <2>3, AppendFacts
    <3> QED
      BY <3>1, <3>2 DEF Grown
  <2> QED
    BY <1>1, <2>4, <2>5, ScoreIdle
<1>3. CASE RefuseDocument
  <2>1. Grown /\ calls' = calls
    BY <1>1, <1>3, CleanupGrows DEF RefuseDocument
  <2> QED
    BY <1>1, <2>1, MovesSame, ScoreIdle
<1>4. CASE EndDocument
  <2> DEFINE n == Len(calls)
             p == Len(calls) - 1
  <2>1. Grown /\ calls' = SubSeq(calls, 1, p) /\ calls[n].call = "document" /\ calls # << >>
    BY <1>1, <1>4, CleanupGrows DEF EndDocument, Front, Last
  <2>2. p \in 0..n /\ \A i \in p + 1..n : i = n
    BY <1>1, <2>1
  <2> HIDE DEF p
  <2>3. \A x : \A i \in p + 1..n : ~Mine(calls[i], x)
    BY <2>1, <2>2 DEF Mine
  <2>4. \A x \in Bodies : Moves(x)
    BY <1>1, <2>1, <2>2, <2>3, MovesPrefix
  <2> QED
    BY <1>1, <2>1, <2>4, ScoreIdle
<1> QED
  BY <1>2, <1>3, <1>4

LEMMA IdleScores ==
    ASSUME IInv, ScoresOK,
           UNCHANGED vars \/ \E b \in Bodies : BeginRender(b) \/ EndRender(b)
    PROVE  ScoresOK'
<1>1. StateOK /\ UNCHANGED <<asms, body>> /\ docs' = docs /\ calls' = calls
  BY DEF IInv, vars, BeginRender, EndRender
<1>2. Grown
  BY <1>1, DocsStay DEF StateOK
<1> QED
  BY <1>1, <1>2, MovesSame, ScoreIdle

LEMMA InitScores == Init => ScoresOK
<1> SUFFICES ASSUME Init, NEW b \in Bodies
             PROVE  Fine(b)
  BY DEF ScoresOK
<1>1. body[b].phase = "none" /\ body[b].score = 0
  BY DEF Init, Unborn
<1> QED
  BY <1>1 DEF Fine, Open, Compiled

LEMMA NextScores == IInv /\ ScoresOK /\ [Next]_vars => ScoresOK'
<1> SUFFICES ASSUME IInv, ScoresOK, [Next]_vars
             PROVE  ScoresOK'
  OBVIOUS
<1>1. CASE StartDocument \/ RefuseDocument \/ EndDocument
  BY <1>1, DocumentScores
<1>2. ASSUME NEW b \in Bodies, NewBody(b) \/ Freeze(b) \/ BeginParse(b) \/ LiquidTag(b)
      PROVE  ScoresOK'
  BY <1>2, NewScores, FreezeScores, BeginParseScores, LiquidTagScores
<1>3. ASSUME NEW b \in Bodies, RawToken(b) \/ VariableToken(b) \/ TagToken(b) \/ RawTag(b)
      PROVE  ScoresOK'
  BY <1>3, TokenScores
<1>4. ASSUME NEW b \in Bodies,
             EndLiquidTag(b) \/ EndParse(b) \/ ParseRaises(b) \/ RemoveBlankStrings(b)
      PROVE  ScoresOK'
  BY <1>4, EndScores, RaiseScores, TrimScores
<1>5. CASE UNCHANGED vars \/ \E b \in Bodies : BeginRender(b) \/ EndRender(b)
  BY <1>5, IdleScores
<1> QED
  BY <1>1, <1>2, <1>3, <1>4, <1>5 DEF Next

LEMMA ScoresStay == Spec => []ScoresOK
<1>1. Spec => [](IInv /\ ScoresOK)
  BY InitInv, NextInv, InitScores, NextScores, PTL DEF Spec
<1> QED
  BY <1>1, PTL

(* A body that can be rendered after a parse that ended well is charged at  *)
(* least one for every node that will be executed, whatever was parsed in   *)
(* nested calls and {% liquid %} loops, raised, and trimmed.                *)
THEOREM NodesCharged == Spec => []ScoreCoversNodes
<1>1. ASSUME IInv, ScoresOK
      PROVE  ScoreCoversNodes
  <2>1. ASSUME NEW b \in Bodies, Open(b), ~CodeOf(b).parsing
        PROVE  body[b].score >= Executed(CodeOf(b).ins)
    BY <1>1, <2>1, FineParsed DEF ScoresOK
  <2>2. ASSUME NEW b \in Bodies, Compiled(b), ~body[b].meant.parsing
        PROVE  HeaderOf(b).score >= Executed(InstructionsOf(b))
    <3>1. InstructionsOf(b) = body[b].meant.ins
      BY <1>1, <2>2, ReadsBack
    <3> QED
      BY <1>1, <2>2, <3>1 DEF ScoresOK, Fine
  <2> QED
    BY <2>1, <2>2 DEF ScoreCoversNodes
<1> QED
  BY <1>1, Inductive, ScoresStay, PTL

-----------------------------------------------------------------------------
(* Types                                                                   *)

(* What a body does not have yet, or any more                               *)
RangesOK == \A b \in Bodies :
    /\ body[b].phase # "compiled" => body[b].doc = 0
    /\ body[b].phase # "open" => body[b].pool = 0 /\ body[b].code = 0

(* Only its maker and freeze change these parts of a body.                  *)
Alike(r, s) == r.phase = s.phase /\ r.doc = s.doc /\ r.pool = s.pool /\ r.code = s.code

LEMMA RangesAlike ==
    ASSUME RangesOK, \A x \in Bodies : Alike(body'[x], body[x])
    PROVE  RangesOK'
BY DEF RangesOK, Alike

LEMMA NextRanges == IInv /\ RangesOK /\ [Next]_vars => RangesOK'
<1> SUFFICES ASSUME IInv, RangesOK, [Next]_vars
             PROVE  RangesOK'
  OBVIOUS
<1>1. body \in [Bodies -> BodyRecord]
  BY DEF IInv, StateOK
<1>2. ASSUME NEW b \in Bodies, NEW v, body' = [body EXCEPT ![b].blank = v]
      PROVE  RangesOK'
  <2>1. \A x \in Bodies : Alike(body'[x], body[x])
    BY <1>1, <1>2 DEF Alike, BodyRecord
  <2> QED
    BY <2>1, RangesAlike
<1>3. ASSUME NEW b \in Bodies, NEW v, body' = [body EXCEPT ![b].score = v]
      PROVE  RangesOK'
  <2>1. \A x \in Bodies : Alike(body'[x], body[x])
    BY <1>1, <1>3 DEF Alike, BodyRecord
  <2> QED
    BY <2>1, RangesAlike
<1>4. CASE body' = body
  BY <1>4 DEF RangesOK
<1>5. ASSUME NEW b \in Bodies, NewBody(b)
      PROVE  RangesOK'
  <2> DEFINE a == IF freelists[pool] # << >> THEN Head(freelists[pool]) ELSE Len(asms) + 1
             r == [Unborn EXCEPT !.phase = "open", !.pool = pool, !.code = a]
  <2>1. body' = [body EXCEPT ![b] = r]
    BY <1>5 DEF NewBody
  <2>2. r.phase = "open" /\ r.doc = 0
    BY DEF Unborn
  <2> HIDE DEF r
  <2> QED
    BY <1>1, <2>1, <2>2 DEF RangesOK
<1>6. ASSUME NEW b \in Bodies, Freeze(b)
      PROVE  RangesOK'
  <2> DEFINE r == [Unborn EXCEPT !.phase = "compiled", !.doc = document,
                                 !.offset = Len(docs[document].buffer), !.meant = CodeOf(b)]
  <2>1. body' = [body EXCEPT ![b] = r]
    BY <1>6 DEF Freeze
  <2>2. r.phase = "compiled" /\ r.pool = 0 /\ r.code = 0
    BY DEF Unborn
  <2> HIDE DEF r
  <2> QED
    BY <1>1, <2>1, <2>2 DEF RangesOK
<1>7. CASE StartDocument \/ RefuseDocument \/ EndDocument \/ UNCHANGED vars
  BY <1>4, <1>7 DEF StartDocument, RefuseDocument, EndDocument, vars
<1>8. ASSUME NEW b \in Bodies,
             BeginParse(b) \/ ParseRaises(b) \/ LiquidTag(b) \/ BeginRender(b) \/ EndRender(b)
      PROVE  RangesOK'
  BY <1>4, <1>8 DEF BeginParse, ParseRaises, LiquidTag, BeginRender, EndRender
<1>9. ASSUME NEW b \in Bodies, EndParse(b) \/ EndLiquidTag(b) \/ RemoveBlankStrings(b)
      PROVE  RangesOK'
  <2>1. \E v : body' = [body EXCEPT ![b].score = v]
    BY <1>9 DEF EndParse, EndLiquidTag, LoopReturns, RemoveBlankStrings
  <2> QED
    BY <1>3, <2>1
<1>10. ASSUME NEW b \in Bodies, RawToken(b) \/ VariableToken(b) \/ TagToken(b) \/ RawTag(b)
       PROVE  RangesOK'
  <2>1. \E v : body' = [body EXCEPT ![b].blank = v]
    BY <1>10 DEF RawToken, VariableToken, TagToken, RawTag, Emit
  <2> QED
    BY <1>2, <2>1
<1> QED
  BY <1>5, <1>6, <1>7, <1>8, <1>9, <1>10 DEF Next

(* No score of a body or a call goes below zero, whatever is trimmed, and   *)
(* every index of a document, a pool or an assembler is that of one.        *)
THEOREM BodyTypes == Spec => []TypeOK
<1>1. Init => RangesOK
  BY DEF Init, RangesOK, Unborn
<1>2. ASSUME IInv, ScoresOK, RangesOK
      PROVE  TypeOK
  <2>1. /\ docs \in Seq(Docs) /\ document \in 0..Len(docs) /\ asms \in Seq(CodeRecord)
        /\ freelists \in Seq(Seq(Nat)) /\ pool \in 0..Len(freelists)
        /\ calls \in Seq(CallRecord) /\ rendering \subseteq Bodies
        /\ body \in [Bodies -> BodyRecord]
    BY <1>2, CallsFacts DEF IInv, StateOK, DocsOK, AsmsOK, ListsOK, RenderingOK
  <2>2. \A d \in 1..Len(docs) : docs[d].frozen \in BOOLEAN
    <3>1. \A d \in 1..Len(docs) : docs[d] \in Docs
      BY <2>1
    <3> QED
      BY <3>1 DEF Docs
  <2>3. ASSUME NEW p \in 1..Len(freelists)
        PROVE  freelists[p] \in Seq(1..Len(asms))
    <3> DEFINE f == freelists[p]
               S == 1..Len(asms)
    <3>1. f \in Seq(Nat) /\ \A i \in 1..Len(f) : f[i] \in S
      BY <1>2, <2>1 DEF IInv, StateOK, ListsOK
    <3> HIDE DEF f, S
    <3>2. f \in Seq(S)
      <4>1. Len(f) \in Nat /\ f = [i \in 1..Len(f) |-> f[i]]
        BY <3>1
      <4>2. f \in [1..Len(f) -> S]
        BY <3>1, <4>1
      <4> QED
        BY <4>1, <4>2
    <3> QED
      BY <3>2 DEF f, S
  <2>4. ASSUME NEW b \in Bodies
        PROVE  body[b] \in [phase : {"none", "open", "compiled"}, blank : BOOLEAN,
                            score : Nat, pool : 0..Len(freelists), code : 0..Len(asms),
                            doc : 0..Len(docs), offset : Nat, meant : CodeRecord]
    <3>1. body[b] \in BodyRecord /\ body[b].score \in Nat
      BY <1>2, <2>1 DEF ScoresOK, Fine
    <3>2. Len(freelists) \in Nat /\ Len(asms) \in Nat /\ Len(docs) \in Nat
      BY <2>1
    <3>3. body[b].pool \in 0..Len(freelists) /\ body[b].code \in 0..Len(asms)
      <4>1. CASE Open(b)
        BY <1>2, <3>2, <4>1 DEF IInv, StateOK, OpenOK
      <4>2. CASE ~Open(b)
        BY <1>2, <3>2, <4>2 DEF RangesOK, Open
      <4> QED
        BY <4>1, <4>2
    <3>4. body[b].doc \in 0..Len(docs)
      <4>1. CASE Compiled(b)
        <5>1. Reads(docs, body[b])
          BY <1>2, <4>1 DEF IInv, StateOK, CompiledOK
        <5>2. body[b].doc \in 1..Len(docs)
          BY <5>1, ReadsDocument
        <5> QED
          BY <3>2, <5>2
      <4>2. CASE ~Compiled(b)
        BY <1>2, <3>2, <4>2 DEF RangesOK, Compiled
      <4> QED
        BY <4>1, <4>2
    <3> QED
      BY <3>1, <3>3, <3>4 DEF BodyRecord
  <2>5. calls \in Seq([call : {"document", "body", "liquid"}, body : Bodies \cup {0},
                       score : Nat])
    BY <2>1 DEF CallRecord
  <2> QED
    BY <2>1, <2>2, <2>3, <2>4, <2>5 DEF TypeOK
<1>3. Spec => []RangesOK
  <2>1. Spec => [](IInv /\ RangesOK)
    BY <1>1, InitInv, NextInv, NextRanges, PTL DEF Spec
  <2> QED
    BY <2>1, PTL
<1> QED
  BY <1>2, <1>3, Inductive, ScoresStay, PTL
=============================================================================
