------------------------- MODULE BlockCompileProofs -------------------------
(***************************************************************************)
(* The invariants of BlockCompile, for every set of constants, every size  *)
(* of index, every nesting and every number of arguments.                  *)
(*                                                                         *)
(* What a parse has yet to do is in todo, each activation with the         *)
(* stack_size it starts from: the inductive invariant says that these      *)
(* sizes form a chain, from that of the assembler to what the parse of the *)
(* whole expression must leave.                                            *)
(***************************************************************************)
EXTENDS BlockCompile, VMAssemblerProofs

VariablePhases == StrictPhases \cup {"lax", "write"}
ExpressionPhases == {"name", "positional", "keyword"}

(* What an activation finds on the stack, at least.                        *)
Needs(what) == IF what = "Expression" THEN 0
               ELSE IF what \in {"LookupKey", "NewIntRange"} THEN 2
               ELSE 1

(* The stack_size that activation i of t starts from; that of the whole,   *)
(* when none is left, is target.                                           *)
Due(t, i, target) == IF i = 0 THEN target ELSE t[i].at

Chain(t, target, stack) ==
    /\ \A i \in 1..Len(t) : /\ t[i].at + Gain(t[i].what) = Due(t, i - 1, target)
                            /\ t[i].at >= Needs(t[i].what)
    /\ stack = Due(t, Len(t), target)

(* A code that is being compiled.                                          *)
Working(c) ==
    /\ Sound(c) /\ c.prot = 0 /\ c.parsing = TRUE /\ NodesAlone(c)
    /\ \A j \in 1..Len(c.ins) : c.ins[j].op # "LEAVE"

Resting(c) == Sound(c) /\ c.prot = 0 /\ NodesAlone(c) /\ Finished(c, 0)

(* The rescue of a variable that started at s can cut c back to there.     *)
Opened(c, s) ==
    /\ s.ins <= Len(c.ins) /\ s.consts <= Len(c.consts)
    /\ c.trace[s.ins + 1] = Open /\ Last(c.trace).open = TRUE
    /\ \A j \in 1..s.ins : c.ins[j].op \in ConstantOps => c.ins[j].const < s.consts

SavedType == [ins : Nat, consts : Nat, stack : {0}]

Sizes ==
    /\ phase = "name" => Chain(todo, 1, code.stack)
    /\ phase = "positional" => Chain(todo, 2 + argc, code.stack)
    /\ phase = "keyword" => Chain(todo, 2 * kwargc, kw.stack)
    /\ phase \in {"filters", "write"} => code.stack = 1
    /\ phase \in {"args", "keyword"} => code.stack = 1 + argc
    /\ phase \in {"args", "positional"} => kw.stack = 2 * kwargc
    /\ phase = "block" => code.stack = 0 /\ Last(code.trace).open = FALSE
    /\ phase \notin ExpressionPhases => todo = << >>

IInv ==
    /\ phase \in Phases /\ todo \in TodoType /\ saved \in SavedType
    /\ argc \in Nat /\ kwargc \in Nat
    /\ Grown(Fresh, kw, kw.stack)
    /\ Len(code.consts) + Len(kw.consts) <= IndexMod
    /\ IF phase = "idle" THEN Resting(code) ELSE Working(code)
    /\ phase \in VariablePhases => Opened(code, saved)
    /\ Sizes

-----------------------------------------------------------------------------
(* What is left to do                                                      *)

Activation == [what : Activities, at : Nat]

LEMMA ChainTop ==
    ASSUME NEW t \in TodoType, t # << >>, NEW target, NEW stack, Chain(t, target, stack)
    PROVE  /\ Last(t) \in Activation /\ Last(t).at = stack
           /\ Last(t).at >= Needs(Last(t).what) /\ Len(t) \in Nat \ {0}
<1>1. t \in Seq(Activation)
  BY DEF TodoType, Activation
<1>2. Len(t) \in Nat \ {0} /\ Len(t) \in 1..Len(t)
  BY <1>1
<1>3. t[Len(t)] \in Activation
  BY <1>1, <1>2, ElementOf
<1>4. stack = t[Len(t)].at
  BY <1>2 DEF Chain, Due
<1> QED
  BY <1>2, <1>3, <1>4 DEF Chain, Last

(* The last activation may be replaced by some that do the same together.  *)
LEMMA ChainReplaced ==
    ASSUME NEW t \in TodoType, t # << >>, NEW target \in Int, NEW stack, Chain(t, target, stack),
           NEW next \in TodoType, NEW s,
           Chain(next, Last(t).at + Gain(Last(t).what), s)
    PROVE  LET u == SubSeq(t, 1, Len(t) - 1) \o next
           IN  u \in TodoType /\ Chain(u, target, s)
<1> DEFINE n == Len(t) - 1
           m == Len(next)
           b == SubSeq(t, 1, n)
           u == b \o next
           T == Last(t).at + Gain(Last(t).what)
<1>1. t \in Seq(Activation) /\ next \in Seq(Activation) /\ m \in Nat
  BY DEF TodoType, Activation
<1>2. n \in Nat /\ Len(t) = n + 1 /\ n \in 0..Len(t)
  <2>1. Len(t) \in Nat \ {0}
    BY <1>1
  <2> QED
    BY <2>1
<1>3. b \in Seq(Activation) /\ Len(b) = n /\ \A i \in 1..n : b[i] = t[i]
  BY <1>1, <1>2, PrefixElements
<1> HIDE DEF b, n, m
<1>4. Parts(Activation, b, next, n, m)
  BY <1>1, <1>3 DEF Parts, m
<1>5. PartsJoined(Activation, b, next, n, m, u)
  BY <1>4, JoinParts
<1> HIDE DEF u
<1>6. /\ u \in Seq(Activation) /\ Len(u) = n + m
      /\ \A i \in 1..n : u[i] = t[i]
      /\ \A i \in 1..m : u[n + i] = next[i]
  BY <1>3, <1>5 DEF PartsJoined
<1>7. \A i \in 0..n : Due(u, i, target) = Due(t, i, target)
  <2> SUFFICES ASSUME NEW i \in 0..n
               PROVE  Due(u, i, target) = Due(t, i, target)
    OBVIOUS
  <2>1. CASE i = 0
    BY <2>1 DEF Due
  <2>2. CASE i # 0
    <3>1. i \in 1..n
      BY <1>2, <2>2
    <3> QED
      BY <1>6, <2>2, <3>1 DEF Due
  <2> QED
    BY <2>1, <2>2
<1>8. T = Due(t, n, target)
  <2>1. n + 1 \in 1..Len(t) /\ (n + 1) - 1 = n
    BY <1>2
  <2>2. t[n + 1].at + Gain(t[n + 1].what) = Due(t, n, target)
    BY <2>1 DEF Chain
  <2> QED
    BY <1>2, <2>2 DEF Last
<1>9. \A i \in 0..m : Due(u, n + i, target) = Due(next, i, T)
  <2> SUFFICES ASSUME NEW i \in 0..m
               PROVE  Due(u, n + i, target) = Due(next, i, T)
    OBVIOUS
  <2>1. CASE i = 0
    <3>1. n + i = n /\ n \in 0..n
      BY <1>2, <2>1
    <3>2. Due(next, i, T) = T
      BY <2>1 DEF Due
    <3> QED
      BY <1>7, <1>8, <3>1, <3>2
  <2>2. CASE i # 0
    <3>1. i \in 1..m /\ n + i # 0
      BY <1>1, <1>2, <2>2
    <3> QED
      BY <1>6, <2>2, <3>1 DEF Due
  <2> QED
    BY <2>1, <2>2
<1> HIDE DEF T
<1>10. ASSUME NEW i \in 1..Len(u)
       PROVE  /\ u[i].at + Gain(u[i].what) = Due(u, i - 1, target)
              /\ u[i].at >= Needs(u[i].what)
  <2>1. CASE i \in 1..n
    <3>1. i \in 1..Len(t) /\ i - 1 \in 0..n
      BY <1>2, <2>1
    <3> QED
      BY <1>6, <1>7, <2>1, <3>1 DEF Chain
  <2>2. CASE i \notin 1..n
    <3> DEFINE l == i - n
    <3>1. l \in 1..m /\ i = n + l /\ l - 1 \in 0..m /\ n + (l - 1) = i - 1
      BY <1>1, <1>2, <1>6, <2>2
    <3> HIDE DEF l
    <3>2. /\ next[l].at + Gain(next[l].what) = Due(next, l - 1, T)
          /\ next[l].at >= Needs(next[l].what)
      BY <3>1 DEF Chain, m, T
    <3>3. u[i] = next[l] /\ Due(u, i - 1, target) = Due(next, l - 1, T)
      BY <1>6, <1>9, <3>1
    <3> QED
      BY <3>2, <3>3
  <2> QED
    BY <2>1, <2>2
<1>11. s = Due(u, Len(u), target)
  <2>1. m \in 0..m
    BY <1>1
  <2>2. s = Due(next, m, T)
    BY DEF Chain, m, T
  <2> QED
    BY <1>6, <1>9, <2>1, <2>2
<1>12. u \in TodoType /\ Chain(u, target, s)
  BY <1>6, <1>10, <1>11 DEF TodoType, Activation, Chain
<1> QED
  BY <1>12 DEF u, b, n

LEMMA ChainNone ==
    ASSUME NEW a, NEW b, a = b
    PROVE  Chain(<< >>, a, b) /\ << >> \in TodoType
<1>1. Len(<< >>) = 0 /\ << >> \in TodoType
  BY DEF TodoType
<1>2. \A i \in 1..0 : FALSE
  OBVIOUS
<1> QED
  BY <1>1, <1>2 DEF Chain, Due

LEMMA ChainOne ==
    ASSUME NEW w \in Activities, NEW s \in Nat, s >= Needs(w), NEW a, a = s + Gain(w),
           NEW b, b = s
    PROVE  Chain(<<Do(w, s)>>, a, b) /\ <<Do(w, s)>> \in TodoType
<1> DEFINE x == Do(w, s)
           t == <<x>>
<1>1. x \in Activation /\ x.what = w /\ x.at = s
  BY DEF Do, Activation
<1> HIDE DEF x
<1>2. t \in TodoType /\ Len(t) = 1 /\ t[1] = x
  BY <1>1 DEF TodoType, Activation
<1> HIDE DEF t
<1>3. \A i \in 1..Len(t) : i = 1 /\ i - 1 = 0
  BY <1>2
<1>4. Chain(t, a, b)
  BY <1>1, <1>2, <1>3 DEF Chain, Due
<1> QED
  BY <1>2, <1>4 DEF t, x

LEMMA ChainTwo ==
    ASSUME NEW w \in Activities, NEW v \in Activities, NEW s \in Nat, NEW r \in Nat,
           r >= Needs(w), s >= Needs(v), s + Gain(v) = r, NEW a, a = r + Gain(w), NEW b, b = s
    PROVE  Chain(<<Do(w, r), Do(v, s)>>, a, b) /\ <<Do(w, r), Do(v, s)>> \in TodoType
<1> DEFINE x == Do(w, r)
           y == Do(v, s)
           t == <<x, y>>
<1>1. /\ x \in Activation /\ x.what = w /\ x.at = r
      /\ y \in Activation /\ y.what = v /\ y.at = s
  BY DEF Do, Activation
<1> HIDE DEF x, y
<1>2. t \in TodoType /\ Len(t) = 2 /\ t[1] = x /\ t[2] = y
  BY <1>1 DEF TodoType, Activation
<1> HIDE DEF t
<1>3. \A i \in 1..Len(t) : (i = 1 /\ i - 1 = 0) \/ (i = 2 /\ i - 1 = 1)
  BY <1>2
<1>4. Chain(t, a, b)
  BY <1>1, <1>2, <1>3 DEF Chain, Due
<1> QED
  BY <1>2, <1>4 DEF t, x, y

LEMMA ChainThree ==
    ASSUME NEW w \in Activities, NEW v \in Activities, NEW q \in Activities,
           NEW s \in Nat, NEW r \in Nat, NEW p \in Nat,
           p >= Needs(w), r >= Needs(v), s >= Needs(q), r + Gain(v) = p, s + Gain(q) = r,
           NEW a, a = p + Gain(w), NEW b, b = s
    PROVE  /\ Chain(<<Do(w, p), Do(v, r), Do(q, s)>>, a, b)
           /\ <<Do(w, p), Do(v, r), Do(q, s)>> \in TodoType
<1> DEFINE x == Do(w, p)
           y == Do(v, r)
           z == Do(q, s)
           t == <<x, y, z>>
<1>1. /\ x \in Activation /\ x.what = w /\ x.at = p
      /\ y \in Activation /\ y.what = v /\ y.at = r
      /\ z \in Activation /\ z.what = q /\ z.at = s
  BY DEF Do, Activation
<1> HIDE DEF x, y, z
<1>2. t \in TodoType /\ Len(t) = 3 /\ t[1] = x /\ t[2] = y /\ t[3] = z
  BY <1>1 DEF TodoType, Activation
<1> HIDE DEF t
<1>3. \A i \in 1..Len(t) : \/ i = 1 /\ i - 1 = 0
                           \/ i = 2 /\ i - 1 = 1
                           \/ i = 3 /\ i - 1 = 2
  BY <1>2
<1>4. Chain(t, a, b)
  BY <1>1, <1>2, <1>3 DEF Chain, Due
<1> QED
  BY <1>2, <1>4 DEF t, x, y, z

-----------------------------------------------------------------------------
(* The code of a body                                                      *)

LEMMA GrownWorking ==
    ASSUME NEW c, NEW d, NEW g, NEW s \in SavedType, Working(c), Opened(c, s), Grown(c, d, g)
    PROVE  /\ Working(d) /\ Opened(d, s) /\ d.stack = c.stack + g
           /\ Len(c.consts) <= Len(d.consts) /\ Len(d.consts) \in Nat
<1>1. Sound(c) /\ Sound(d)
  BY DEF Working, Grown
<1>2. /\ Len(c.ins) \in Nat /\ Len(d.ins) \in Nat /\ Len(c.consts) \in Nat
      /\ Len(d.consts) \in Nat /\ Len(c.trace) = Len(c.ins) + 1
      /\ Len(d.trace) = Len(d.ins) + 1 /\ Last(d.trace) = d.trace[Len(d.ins) + 1]
  BY <1>1, CodeParts
<1>3. /\ Len(d.ins) >= Len(c.ins) /\ Len(d.consts) >= Len(c.consts)
      /\ \A j \in 1..Len(c.ins) : d.ins[j] = c.ins[j]
      /\ \A j \in 1..Len(c.ins) + 1 : d.trace[j] = c.trace[j]
      /\ \A j \in Len(c.ins) + 1..Len(d.ins) : d.ins[j].op \in ExpressionOps
      /\ d.prot = c.prot /\ d.parsing = c.parsing /\ d.stack = c.stack + g
  BY DEF Grown
<1>4. \A j \in Len(c.ins) + 1..Len(d.ins) + 1 : d.trace[j].open = TRUE
  BY DEF Grown, Opened
<1>5. NodesAlone(d)
  <2> SUFFICES ASSUME NEW j \in 1..Len(d.trace)
               PROVE  d.trace[j].open \/ d.trace[j].depth = 0
    BY DEF NodesAlone
  <2>1. CASE j \in 1..Len(c.ins) + 1
    <3>1. c.trace[j].open \/ c.trace[j].depth = 0
      BY <1>2, <2>1 DEF Working, NodesAlone
    <3> QED
      BY <1>3, <2>1, <3>1
  <2>2. CASE j \notin 1..Len(c.ins) + 1
    <3>1. j \in Len(c.ins) + 1..Len(d.ins) + 1
      BY <1>2, <2>2
    <3> QED
      BY <1>4, <3>1
  <2> QED
    BY <2>1, <2>2
<1>6. ASSUME NEW j \in 1..Len(d.ins)
      PROVE  d.ins[j].op # "LEAVE"
  <2>1. CASE j \in 1..Len(c.ins)
    BY <1>3, <2>1 DEF Working
  <2>2. CASE j \notin 1..Len(c.ins)
    <3>1. j \in Len(c.ins) + 1..Len(d.ins)
      BY <1>2, <2>2
    <3>2. "LEAVE" \notin ExpressionOps
      BY DEF ExpressionOps, PushOps, UnaryOps, ScratchOps, BinaryOps, FilterOps
    <3> QED
      BY <1>3, <3>1, <3>2
  <2> QED
    BY <2>1, <2>2
<1>7. d.prot = 0 /\ d.parsing = TRUE
  BY <1>3 DEF Working
<1>8. Working(d)
  BY <1>1, <1>5, <1>6, <1>7 DEF Working
<1>9. s.ins \in Nat /\ s.consts \in Nat /\ s.ins <= Len(c.ins) /\ s.consts <= Len(c.consts)
  BY DEF SavedType, Opened
<1>10. Opened(d, s)
  <2>1. s.ins <= Len(d.ins) /\ s.consts <= Len(d.consts)
    BY <1>2, <1>3, <1>9, SMTT(20)
  <2>2. d.trace[s.ins + 1] = Open
    <3>1. s.ins + 1 \in 1..Len(c.ins) + 1
      BY <1>2, <1>9
    <3> QED
      BY <1>3, <3>1 DEF Opened
  <2>3. Last(d.trace).open = TRUE
    <3>1. Len(d.ins) + 1 \in Len(c.ins) + 1..Len(d.ins) + 1
      BY <1>2, <1>3
    <3> QED
      BY <1>2, <1>4, <3>1
  <2>4. ASSUME NEW j \in 1..s.ins, d.ins[j].op \in ConstantOps
        PROVE  d.ins[j].const < s.consts
    <3>1. j \in 1..Len(c.ins)
      BY <1>2, <1>9
    <3> QED
      BY <1>3, <2>4, <3>1 DEF Opened
  <2> QED
    BY <2>1, <2>2, <2>3, <2>4 DEF Opened
<1> QED
  BY <1>2, <1>3, <1>8, <1>10

LEMMA AddedAlone ==
    ASSUME NEW c, NEW d, NEW op, NEW t, Sound(c), NodesAlone(c), Added(c, d, op, t),
           t.open \/ t.depth = 0
    PROVE  NodesAlone(d)
<1>1. Sound(d)
  BY DEF Added
<1>2. /\ Len(c.ins) \in Nat /\ Len(c.trace) = Len(c.ins) + 1
      /\ Len(d.trace) = Len(d.ins) + 1 /\ Last(d.trace) = d.trace[Len(d.ins) + 1]
  BY <1>1, CodeParts
<1>3. /\ Len(d.ins) = Len(c.ins) + 1 /\ Last(d.trace) = t
      /\ \A j \in 1..Len(c.ins) + 1 : d.trace[j] = c.trace[j]
  BY DEF Added
<1> SUFFICES ASSUME NEW j \in 1..Len(d.trace)
             PROVE  d.trace[j].open \/ d.trace[j].depth = 0
  BY DEF NodesAlone
<1>4. CASE j \in 1..Len(c.ins) + 1
  <2>1. c.trace[j].open \/ c.trace[j].depth = 0
    BY <1>2, <1>4 DEF NodesAlone
  <2> QED
    BY <1>3, <1>4, <2>1
<1>5. CASE j \notin 1..Len(c.ins) + 1
  <2>1. j = Len(d.ins) + 1
    BY <1>2, <1>3, <1>5
  <2> QED
    BY <1>2, <1>3, <2>1
<1> QED
  BY <1>4, <1>5

LEMMA AddedWorking ==
    ASSUME NEW c, NEW d, NEW op, NEW t, Working(c), Added(c, d, op, t), op # "LEAVE",
           d.parsing = c.parsing, t.open \/ t.depth = 0
    PROVE  Working(d)
<1>1. Sound(c) /\ Sound(d)
  BY DEF Working, Added
<1>2. Len(c.ins) \in Nat
  BY <1>1, CodeParts
<1>3. /\ Len(d.ins) = Len(c.ins) + 1 /\ d.ins[Len(c.ins) + 1].op = op
      /\ \A j \in 1..Len(c.ins) : d.ins[j] = c.ins[j]
      /\ d.prot = c.prot
  BY DEF Added
<1>4. NodesAlone(d)
  BY <1>1, AddedAlone DEF Working
<1>5. ASSUME NEW j \in 1..Len(d.ins)
      PROVE  d.ins[j].op # "LEAVE"
  <2>1. CASE j \in 1..Len(c.ins)
    BY <1>3, <2>1 DEF Working
  <2>2. CASE j \notin 1..Len(c.ins)
    <3>1. j = Len(c.ins) + 1
      BY <1>2, <1>3, <2>2
    <3> QED
      BY <1>3, <3>1
  <2> QED
    BY <2>1, <2>2
<1>6. d.prot = 0 /\ d.parsing = TRUE
  BY <1>3 DEF Working
<1> QED
  BY <1>1, <1>4, <1>5, <1>6 DEF Working

(* variable_strict_parse_rescue gives back the code as it was when the     *)
(* variable started.                                                       *)
LEMMA UndoOpened ==
    ASSUME NEW c, Working(c), saved \in SavedType, Opened(c, saved)
    PROVE  LET d == Undo(c)
           IN  /\ Working(d) /\ Opened(d, saved) /\ d.stack = 0
               /\ Len(d.consts) = saved.consts
<1> DEFINE n == saved.ins
           h == saved.consts
           gone == {c.consts[j] : j \in (h + 1)..Len(c.consts)}
           tb == [k \in Key |-> IF k \in gone THEN NoIndex ELSE c.table[k]]
           x == SubSeq(c.ins, 1, n)
           y == SubSeq(c.meant, 1, n)
           z == SubSeq(c.trace, 1, n + 1)
           v == SubSeq(c.consts, 1, h)
           d == Undo(c)
<1>0. Sound(c)
  BY DEF Working
<1>1. /\ c \in CodeType /\ c.ins \in Seq(Instruction) /\ c.trace \in Seq(Situation)
      /\ c.meant \in Seq(Key \cup {NoKey}) /\ c.consts \in Seq(Key)
      /\ c.table \in [Key -> Int]
  BY <1>0, CodeParts
<1>2. /\ Len(c.trace) = Len(c.ins) + 1 /\ Len(c.meant) = Len(c.ins)
      /\ Len(c.ins) \in Nat /\ Len(c.consts) \in Nat
  BY <1>0, CodeParts
<1>3. n \in Nat /\ h \in Nat /\ n <= Len(c.ins) /\ h <= Len(c.consts) /\ saved.stack = 0
  BY DEF SavedType, Opened
<1>4. /\ n \in 0..Len(c.ins) /\ n \in 0..Len(c.meant) /\ n + 1 \in 0..Len(c.trace)
      /\ h \in 0..Len(c.consts)
  BY <1>2, <1>3
<1>5. d = [c EXCEPT !.table = tb, !.ins = x, !.consts = v, !.stack = 0,
                    !.trace = z, !.meant = y]
  <2>1. saved.stack = 0
    BY <1>3
  <2> QED
    BY <2>1, Zenon DEF Undo
<1>6. x \in Seq(Instruction) /\ y \in Seq(Key \cup {NoKey}) /\ z \in Seq(Situation)
      /\ v \in Seq(Key) /\ Len(v) = h /\ \A j \in 1..h : v[j] = c.consts[j]
  <2>1. x \in Seq(Instruction)
    BY <1>1, <1>4, PrefixElements
  <2>2. y \in Seq(Key \cup {NoKey})
    BY <1>1, <1>4, PrefixElements
  <2>3. z \in Seq(Situation)
    BY <1>1, <1>4, PrefixElements
  <2>4. v \in Seq(Key) /\ Len(v) = h /\ \A j \in 1..h : v[j] = c.consts[j]
    BY <1>1, <1>4, PrefixElements
  <2> QED
    BY <2>1, <2>2, <2>3, <2>4
<1>7. tb \in [Key -> Int] /\ \A k \in Key : tb[k] # NoIndex => k \notin gone /\ tb[k] = c.table[k]
  BY <1>1 DEF NoIndex
<1>13. \A j \in (h + 1)..Len(c.consts) : c.consts[j] \in gone
  OBVIOUS
<1> HIDE DEF d, x, y, z, v, tb, gone
<1>8. /\ d \in CodeType /\ d.ins = x /\ d.meant = y /\ d.trace = z /\ d.max = c.max
      /\ d.stack = 0 /\ d.prot = c.prot /\ d.consts = v /\ d.table = tb
  BY <1>1, <1>5, <1>6, <1>7 DEF CodeType, Situation
<1>9. d.parsing = c.parsing
  BY <1>1, <1>5 DEF CodeType
<1>10. Cut(c, d, n)
  BY <1>4, <1>8 DEF Cut, x, y, z
<1>11. Prefix(c, d, n)
  BY <1>0, <1>10, CutPrefix
<1>12. /\ Len(d.ins) = n /\ Len(d.trace) = n + 1
       /\ \A j \in 1..n : d.ins[j] = c.ins[j]
       /\ \A j \in 1..n + 1 : d.trace[j] = c.trace[j]
  BY <1>11 DEF Prefix
<1> HIDE DEF n, h
<1>14. TableSound(d)
  <2> SUFFICES ASSUME NEW k \in Key, d.table[k] # NoIndex
               PROVE  d.table[k] \in 0..(Len(d.consts) - 1) /\ d.consts[d.table[k] + 1] = k
    BY DEF TableSound
  <2> DEFINE i == c.table[k]
  <2>1. d.table[k] = i /\ k \notin gone /\ i # NoIndex
    BY <1>7, <1>8
  <2>2. i \in 0..(Len(c.consts) - 1) /\ c.consts[i + 1] = k
    BY <1>0, <2>1 DEF Sound, Body, TableSound
  <2> HIDE DEF i
  <2>3. i + 1 \notin (h + 1)..Len(c.consts)
    BY <1>13, <2>1, <2>2
  <2>4. i \in 0..(h - 1) /\ i + 1 \in 1..h
    BY <1>2, <1>3, <2>2, <2>3
  <2> QED
    BY <1>6, <1>8, <2>1, <2>2, <2>4
<1>15. c.trace[n + 1] = Open /\ Open.depth = 0 /\ Open.open = TRUE
  BY DEF Opened, n, Open
<1>16. Sound(d)
  <2>1. d.stack = c.trace[n + 1].depth
    BY <1>8, <1>15
  <2>2. d.stack <= d.max
    <3>1. c.max \in Nat
      BY <1>0, CodeParts
    <3> QED
      BY <1>8, <3>1
  <2>3. \A j \in 1..Len(d.consts) : d.consts[j] = c.consts[j]
    BY <1>6, <1>8
  <2>4. \A j \in 1..n : c.ins[j].op \in ConstantOps => c.ins[j].const < Len(d.consts)
    BY <1>6, <1>8 DEF Opened, n, h
  <2> QED
    BY <1>0, <1>10, <1>14, <2>1, <2>2, <2>3, <2>4, CutSound
<1>17. \A j \in 1..n + 1 : j \in 1..Len(c.trace)
  BY <1>2, <1>3
<1>18. \A j \in 1..n : j \in 1..Len(c.ins)
  BY <1>2, <1>3
<1>19. NodesAlone(d)
  BY <1>12, <1>17 DEF Working, NodesAlone
<1>20. \A j \in 1..Len(d.ins) : d.ins[j].op # "LEAVE"
  BY <1>12, <1>18 DEF Working
<1>21. Working(d)
  BY <1>8, <1>9, <1>16, <1>19, <1>20 DEF Working
<1>22. Opened(d, saved)
  <2>1. Len(d.ins) = saved.ins /\ Len(d.consts) = saved.consts
    BY <1>6, <1>8, <1>12 DEF n, h
  <2>2. n + 1 \in 1..n + 1 /\ saved.ins <= Len(d.ins) /\ saved.consts <= Len(d.consts)
    BY <1>3, <2>1 DEF n, h
  <2>3. d.trace[n + 1] = Open
    BY <1>12, <1>15, <2>2
  <2>4. Last(d.trace) = d.trace[n + 1]
    BY <1>12 DEF Last
  <2>5. \A j \in 1..n : d.ins[j].op \in ConstantOps => d.ins[j].const < saved.consts
    BY <1>12 DEF Opened, n
  <2> QED
    BY <1>15, <2>2, <2>3, <2>4, <2>5 DEF Opened, n
<1>23. Len(d.consts) = saved.consts
  BY <1>6, <1>8 DEF h
<1> QED
  BY <1>8, <1>21, <1>22, <1>23 DEF d

-----------------------------------------------------------------------------
(* The recursive descent                                                   *)

Target == IF phase = "name" THEN 1
          ELSE IF phase = "positional" THEN 2 + argc ELSE 2 * kwargc

(* What the assembler that an expression is compiled on satisfies.         *)
LEMMA Parsed ==
    ASSUME IInv, Parsing
    PROVE  /\ phase \in ExpressionPhases /\ Sound(cur) /\ Target \in Int
           /\ Chain(todo, Target, cur.stack) /\ todo \in TodoType /\ todo # << >>
           /\ Top \in Activation /\ Top.at = cur.stack /\ Top.at >= Needs(Top.what)
           /\ Working(code) /\ Opened(code, saved) /\ saved \in SavedType
           /\ Grown(Fresh, kw, kw.stack)
<1>1. phase \in ExpressionPhases /\ todo # << >>
  BY DEF Parsing, ExpressionPhases
<1>2. /\ todo \in TodoType /\ saved \in SavedType /\ Grown(Fresh, kw, kw.stack)
      /\ argc \in Nat /\ kwargc \in Nat
  BY DEF IInv
<1>3. phase # "idle" /\ phase \in VariablePhases
  BY <1>1 DEF ExpressionPhases, VariablePhases, StrictPhases
<1>4. Working(code) /\ Opened(code, saved)
  BY <1>3 DEF IInv
<1>5. Sound(cur)
  <2>1. Sound(code) /\ Sound(kw)
    BY <1>2, <1>4, GrownLoose DEF Working
  <2> QED
    BY <2>1 DEF cur
<1>6. Chain(todo, Target, cur.stack)
  BY <1>1 DEF IInv, Sizes, Target, cur, ExpressionPhases
<1>7. Target \in Int
  BY <1>2 DEF Target
<1>8. Top \in Activation /\ Top.at = cur.stack /\ Top.at >= Needs(Top.what)
  BY <1>1, <1>2, <1>6, ChainTop DEF Top
<1> QED
  BY <1>1, <1>2, <1>4, <1>5, <1>6, <1>7, <1>8

LEMMA OneMoreFits ==
    ASSUME NEW x \in Nat, NEW y \in Nat, NEW z \in Nat, x + y + 1 <= IndexMod
    PROVE  (z <= y + 1 => x + z <= IndexMod) /\ (z <= x + 1 => z + y <= IndexMod)
BY IndexModAssumption

LEMMA BothBelow ==
    ASSUME NEW x \in Nat, NEW y \in Nat, x + y + 1 <= IndexMod
    PROVE  x < IndexMod /\ y < IndexMod
BY IndexModAssumption

(* A step of the descent adds instructions to its assembler and replaces   *)
(* the activation that had control.                                        *)
LEMMA EmitKeeps ==
    ASSUME IInv, Parsing, NEW c, NEW g \in Int, Grown(cur, c, g),
           c = cur \/ (Len(c.consts) <= Len(cur.consts) + 1 /\ Room(1)),
           NEW next \in TodoType, Chain(next, Top.at + Gain(Top.what), c.stack),
           Emit(c, next)
    PROVE  IInv'
<1>1. /\ phase \in ExpressionPhases /\ Sound(cur) /\ Target \in Int
      /\ Chain(todo, Target, cur.stack) /\ todo \in TodoType /\ todo # << >>
      /\ Working(code) /\ Opened(code, saved) /\ saved \in SavedType
      /\ Grown(Fresh, kw, kw.stack)
  BY Parsed
<1>2. /\ SetCur(c) /\ todo' = Below \o next
      /\ phase' = phase /\ saved' = saved /\ argc' = argc /\ kwargc' = kwargc
  BY DEF Emit
<1>3. todo' \in TodoType /\ Chain(todo', Target, c.stack)
  <2>1. LET u == SubSeq(todo, 1, Len(todo) - 1) \o next
        IN  u \in TodoType /\ Chain(u, Target, c.stack)
    BY <1>1, ChainReplaced DEF Top
  <2> QED
    BY <1>2, <2>1 DEF Below
<1>4. /\ phase' \in Phases /\ argc' \in Nat /\ kwargc' \in Nat /\ saved' \in SavedType
  BY <1>2 DEF IInv
<1>5. Sound(c) /\ c.stack = cur.stack + g
  BY DEF Grown
<1>6. phase' # "idle" /\ phase' \in VariablePhases /\ phase' \in ExpressionPhases
  BY <1>1, <1>2 DEF ExpressionPhases, VariablePhases, StrictPhases
<1>7. Len(code'.consts) + Len(kw'.consts) <= IndexMod
  <2>1. Len(code.consts) + Len(kw.consts) <= IndexMod
    BY DEF IInv
  <2>2. CASE c = cur
    BY <1>2, <2>1, <2>2 DEF SetCur, cur
  <2>3. CASE Len(c.consts) <= Len(cur.consts) + 1 /\ Room(1)
    <3>1. /\ Len(code.consts) \in Nat /\ Len(kw.consts) \in Nat /\ Len(c.consts) \in Nat
      <4>1. Sound(kw) /\ Sound(code)
        BY <1>1, GrownLoose DEF Working
      <4> QED
        BY <1>5, <4>1, CodeParts
    <3>2. Len(code.consts) + Len(kw.consts) + 1 <= IndexMod
      BY <2>3 DEF Room
    <3>3. CASE phase = "keyword"
      <4>1. code' = code /\ kw' = c /\ Len(c.consts) <= Len(kw.consts) + 1
        BY <1>2, <2>3, <3>3 DEF SetCur, cur
      <4>2. Len(code.consts) + Len(c.consts) <= IndexMod
        BY <3>1, <3>2, <4>1, OneMoreFits
      <4> QED
        BY <4>1, <4>2, Zenon
    <3>4. CASE phase # "keyword"
      <4>1. code' = c /\ kw' = kw /\ Len(c.consts) <= Len(code.consts) + 1
        BY <1>2, <2>3, <3>4 DEF SetCur, cur
      <4>2. Len(c.consts) + Len(kw.consts) <= IndexMod
        BY <3>1, <3>2, <4>1, OneMoreFits
      <4> QED
        BY <4>1, <4>2, Zenon
    <3> QED
      BY <3>3, <3>4
  <2> QED
    BY <2>2, <2>3
<1>8. CASE phase = "keyword"
  <2>1. code' = code /\ kw' = c /\ cur = kw
    BY <1>2, <1>8 DEF SetCur, cur
  <2>2. Grown(Fresh, kw', kw'.stack)
    <3>1. kw.stack \in Nat
      BY <1>1, <2>1, CodeParts
    <3>2. Grown(Fresh, c, kw.stack + g)
      BY <1>1, <2>1, <3>1, FreshSound, GrownTwice
    <3> QED
      BY <1>5, <2>1, <3>2
  <2>3. /\ phase' = "keyword" /\ Chain(todo', 2 * kwargc', kw'.stack)
        /\ code'.stack = 1 + argc'
    BY <1>2, <1>3, <1>8, <2>1 DEF Target, IInv, Sizes
  <2>4. Sizes'
    BY <2>3 DEF Sizes, ExpressionPhases
  <2>5. Working(code') /\ Opened(code', saved')
    BY <1>1, <1>2, <2>1
  <2> QED
    BY <1>3, <1>4, <1>6, <1>7, <2>2, <2>4, <2>5 DEF IInv
<1>9. CASE phase # "keyword"
  <2>1. code' = c /\ kw' = kw /\ cur = code
    BY <1>2, <1>9 DEF SetCur, cur
  <2>2. Grown(Fresh, kw', kw'.stack)
    BY <1>1, <2>1
  <2>3. Working(code') /\ Opened(code', saved')
    BY <1>1, <1>2, <2>1, GrownWorking
  <2>4. Sizes'
    <3>1. CASE phase = "name"
      <4>1. phase' = "name" /\ Chain(todo', 1, code'.stack)
        BY <1>2, <1>3, <2>1, <3>1 DEF Target
      <4> QED
        BY <4>1 DEF Sizes, ExpressionPhases
    <3>2. CASE phase = "positional"
      <4>1. /\ phase' = "positional" /\ Chain(todo', 2 + argc', code'.stack)
            /\ kw'.stack = 2 * kwargc'
        BY <1>2, <1>3, <2>1, <3>2 DEF Target, IInv, Sizes
      <4> QED
        BY <4>1 DEF Sizes, ExpressionPhases
    <3> QED
      BY <1>1, <1>9, <3>1, <3>2 DEF ExpressionPhases
  <2> QED
    BY <1>3, <1>4, <1>6, <1>7, <2>2, <2>3, <2>4 DEF IInv
<1> QED
  BY <1>8, <1>9

LEMMA Descended ==
    ASSUME IInv, NEW what, Descend(what)
    PROVE  /\ Sound(cur) /\ cur.stack \in Nat /\ Top.what = what /\ Top.at = cur.stack
           /\ cur.stack >= Needs(what) /\ Len(cur.consts) < IndexMod /\ Room(1) /\ Parsing
<1>1. Parsing /\ Top.what = what /\ Room(1)
  BY DEF Descend
<1>2. /\ Sound(cur) /\ Top.at = cur.stack /\ Top.at >= Needs(Top.what)
      /\ Working(code) /\ Grown(Fresh, kw, kw.stack)
  BY <1>1, Parsed
<1>3. cur.stack \in Nat
  BY <1>2, CodeParts
<1>4. Len(code.consts) \in Nat /\ Len(kw.consts) \in Nat
  <2>1. Sound(code) /\ Sound(kw)
    BY <1>2, GrownLoose DEF Working
  <2> QED
    BY <2>1, CodeParts
<1>5. Len(code.consts) + Len(kw.consts) + 1 <= IndexMod
  BY <1>1 DEF Room
<1>6. Len(code.consts) < IndexMod /\ Len(kw.consts) < IndexMod
  BY <1>4, <1>5, BothBelow
<1>7. Len(cur.consts) < IndexMod
  BY <1>6 DEF cur
<1> QED
  BY <1>1, <1>2, <1>3, <1>7

LEMMA GainedKeeps ==
    ASSUME IInv, NEW what, Descend(what), NEW c, NEW g \in Int, Gained(cur, c, g),
           NEW next \in TodoType, Chain(next, cur.stack + Gain(what), c.stack),
           Emit(c, next)
    PROVE  IInv'
<1>1. /\ Top.what = what /\ Top.at = cur.stack /\ Room(1) /\ Parsing
  BY Descended
<1>2. Grown(cur, c, g) /\ Len(c.consts) <= Len(cur.consts) + 1
  BY DEF Gained
<1>3. Chain(next, Top.at + Gain(Top.what), c.stack)
  BY <1>1
<1> QED
  BY <1>1, <1>2, <1>3, EmitKeeps

LEMMA GainedStack ==
    ASSUME NEW c, NEW d, NEW g, Gained(c, d, g)
    PROVE  d.stack = c.stack + g /\ d.stack \in Nat
<1>1. Sound(d) /\ d.stack = c.stack + g
  BY DEF Gained, Grown
<1> QED
  BY <1>1, CodeParts

LEMMA Gains ==
    /\ Gain("Expression") = 1 /\ Gain("FindVariable") = 0 /\ Gain("Lookups") = 0
    /\ Gain("LookupKey") = -1 /\ Gain("NewIntRange") = -1
    /\ Needs("Expression") = 0 /\ Needs("FindVariable") = 1 /\ Needs("Lookups") = 1
    /\ Needs("LookupKey") = 2 /\ Needs("NewIntRange") = 2
    /\ "Expression" \in Activities /\ "FindVariable" \in Activities
    /\ "Lookups" \in Activities /\ "LookupKey" \in Activities
    /\ "NewIntRange" \in Activities
BY DEF Gain, Needs, Activities

LEMMA LiteralKeeps ==
    ASSUME IInv, Literal
    PROVE  IInv'
<1>1. Descend("Expression")
  BY DEF Literal
<1>2. /\ Sound(cur) /\ cur.stack \in Nat /\ Len(cur.consts) < IndexMod
  BY <1>1, Descended
<1>3. ASSUME NEW c, Gained(cur, c, 1), Emit(c, << >>)
      PROVE  IInv'
  <2>1. c.stack = cur.stack + 1
    BY <1>3, GainedStack
  <2>2. Chain(<< >>, cur.stack + Gain("Expression"), c.stack) /\ << >> \in TodoType
    BY <2>1, Gains, ChainNone
  <2> QED
    BY <1>1, <1>3, <2>2, GainedKeeps
<1>4. Gained(cur, AddPushImmediate(cur), 1)
  BY <1>2, PushImmediateGained
<1>5. \A k \in Key : Gained(cur, AddPushConst(cur, k), 1)
  BY <1>2, PushConstGained
<1> QED
  BY <1>3, <1>4, <1>5 DEF Literal

LEMMA VariableNameKeeps ==
    ASSUME IInv, VariableName
    PROVE  IInv'
<1>1. Descend("Expression")
  BY DEF VariableName
<1>2. /\ Sound(cur) /\ cur.stack \in Nat /\ Len(cur.consts) < IndexMod
  BY <1>1, Descended
<1> PICK k \in Key : LET c == AddFindStaticVariable(cur, k)
                     IN  Emit(c, <<Do("Lookups", c.stack)>>)
  BY DEF VariableName
<1> DEFINE c == AddFindStaticVariable(cur, k)
<1>3. Emit(c, <<Do("Lookups", c.stack)>>)
  OBVIOUS
<1>4. Gained(cur, c, 1)
  BY <1>2, FindStaticVariableGained
<1> HIDE DEF c
<1>5. c.stack = cur.stack + 1 /\ c.stack \in Nat
  BY <1>4, GainedStack
<1>6. c.stack >= 1 /\ cur.stack + 1 = c.stack + 0
  BY <1>2, <1>5
<1>7. /\ Chain(<<Do("Lookups", c.stack)>>, cur.stack + Gain("Expression"), c.stack)
      /\ <<Do("Lookups", c.stack)>> \in TodoType
  BY <1>5, <1>6, Gains, ChainOne
<1> QED
  BY <1>1, <1>3, <1>4, <1>7, GainedKeeps

LEMMA UnchangedKeeps ==
    ASSUME IInv, Parsing, NEW next \in TodoType,
           Chain(next, Top.at + Gain(Top.what), cur.stack), Emit(cur, next)
    PROVE  IInv'
<1>1. Sound(cur)
  BY Parsed
<1>2. Grown(cur, cur, 0)
  BY <1>1, GrownNothing
<1> QED
  BY <1>2, EmitKeeps

LEMMA BracketNameKeeps ==
    ASSUME IInv, BracketName
    PROVE  IInv'
<1>1. Descend("Expression") /\ Parsing
  BY DEF BracketName, Descend
<1>2. cur.stack \in Nat /\ Top.what = "Expression" /\ Top.at = cur.stack
  BY <1>1, Descended
<1> DEFINE s == Top.at
           next == <<Do("FindVariable", s + 1), Do("Expression", s)>>
<1>3. Emit(cur, next)
  BY DEF BracketName
<1>4. s \in Nat /\ s + 1 \in Nat /\ s = cur.stack
  BY <1>2
<1> HIDE DEF s
<1>5. s + 1 >= 1 /\ s >= 0 /\ s + 1 = (s + 1) + 0
  BY <1>4
<1>6. Chain(next, s + 1, s) /\ next \in TodoType
  BY <1>4, <1>5, Gains, ChainTwo
<1> HIDE DEF next
<1>7. Chain(next, Top.at + Gain(Top.what), cur.stack)
  BY <1>2, <1>4, <1>6, Gains
<1> QED
  BY <1>1, <1>3, <1>6, <1>7, UnchangedKeeps

LEMMA FindVariableKeeps ==
    ASSUME IInv, FindVariable
    PROVE  IInv'
<1>1. Descend("FindVariable")
  BY DEF FindVariable
<1>2. /\ Sound(cur) /\ cur.stack \in Nat /\ cur.stack >= 1
  BY <1>1, Descended, Gains
<1> DEFINE c == AddFindVariable(cur)
<1>3. Emit(c, <<Do("Lookups", c.stack)>>)
  BY DEF FindVariable
<1>4. Gained(cur, c, 0)
  BY <1>2, FindVariableGained
<1> HIDE DEF c
<1>5. c.stack = cur.stack /\ c.stack \in Nat /\ c.stack >= 1
  <2>1. c.stack = cur.stack + 0 /\ c.stack \in Nat
    BY <1>4, GainedStack
  <2> QED
    BY <1>2, <2>1
<1>6. cur.stack + 0 = c.stack + 0
  BY <1>5
<1>7. /\ Chain(<<Do("Lookups", c.stack)>>, cur.stack + Gain("FindVariable"), c.stack)
      /\ <<Do("Lookups", c.stack)>> \in TodoType
  BY <1>5, <1>6, Gains, ChainOne
<1> QED
  BY <1>1, <1>3, <1>4, <1>7, GainedKeeps

LEMMA DotLookupKeeps ==
    ASSUME IInv, DotLookup
    PROVE  IInv'
<1>1. Descend("Lookups")
  BY DEF DotLookup
<1>2. /\ Sound(cur) /\ cur.stack \in Nat /\ cur.stack >= 1 /\ Len(cur.consts) < IndexMod
  BY <1>1, Descended, Gains
<1> PICK k \in Key : \E c \in {AddLookupConstKey(cur, k), AddLookupCommand(cur, k)} :
        Emit(c, <<Do("Lookups", c.stack)>>)
  BY DEF DotLookup
<1> PICK c \in {AddLookupConstKey(cur, k), AddLookupCommand(cur, k)} :
        Emit(c, <<Do("Lookups", c.stack)>>)
  OBVIOUS
<1>4. Gained(cur, c, 0)
  <2>1. Gained(cur, AddLookupConstKey(cur, k), 0)
    BY <1>2, LookupConstKeyGained
  <2>2. Gained(cur, AddLookupCommand(cur, k), 0)
    BY <1>2, LookupCommandGained
  <2> QED
    BY <2>1, <2>2
<1>5. c.stack = cur.stack /\ c.stack \in Nat /\ c.stack >= 1
  <2>1. c.stack = cur.stack + 0 /\ c.stack \in Nat
    BY <1>4, GainedStack
  <2> QED
    BY <1>2, <2>1
<1>6. cur.stack + 0 = c.stack + 0
  BY <1>5
<1>7. /\ Chain(<<Do("Lookups", c.stack)>>, cur.stack + Gain("Lookups"), c.stack)
      /\ <<Do("Lookups", c.stack)>> \in TodoType
  BY <1>5, <1>6, Gains, ChainOne
<1> QED
  BY <1>1, <1>4, <1>7, GainedKeeps

LEMMA BracketLookupKeeps ==
    ASSUME IInv, BracketLookup
    PROVE  IInv'
<1>1. Descend("Lookups") /\ Parsing
  BY DEF BracketLookup, Descend
<1>2. cur.stack \in Nat /\ Top.what = "Lookups" /\ Top.at = cur.stack /\ cur.stack >= 1
  BY <1>1, Descended, Gains
<1> DEFINE s == Top.at
           next == <<Do("Lookups", s), Do("LookupKey", s + 1), Do("Expression", s)>>
<1>3. Emit(cur, next)
  BY DEF BracketLookup
<1>4. s \in Nat /\ s + 1 \in Nat /\ s = cur.stack /\ s >= 1
  BY <1>2
<1> HIDE DEF s
<1>5. s + 1 >= 2 /\ s >= 0 /\ (s + 1) + (-1) = s /\ s + 0 = s
  BY <1>4
<1>6. Chain(next, s + 0, s) /\ next \in TodoType
  BY <1>4, <1>5, Gains, ChainThree
<1> HIDE DEF next
<1>7. Chain(next, Top.at + Gain(Top.what), cur.stack)
  BY <1>2, <1>4, <1>6, Gains
<1> QED
  BY <1>1, <1>3, <1>6, <1>7, UnchangedKeeps

LEMMA LookupKeyKeeps ==
    ASSUME IInv, LookupKey
    PROVE  IInv'
<1>1. Descend("LookupKey") /\ Emit(AddLookupKey(cur), << >>)
  BY DEF LookupKey
<1>2. /\ Sound(cur) /\ cur.stack \in Nat /\ cur.stack >= 2
  BY <1>1, Descended, Gains
<1>3. Gained(cur, AddLookupKey(cur), -1)
  BY <1>2, LookupKeyGained
<1>4. AddLookupKey(cur).stack = cur.stack + (-1)
  BY <1>3, GainedStack
<1>5. /\ Chain(<< >>, cur.stack + Gain("LookupKey"), AddLookupKey(cur).stack)
      /\ << >> \in TodoType
  BY <1>4, Gains, ChainNone
<1> QED
  BY <1>1, <1>3, <1>5, GainedKeeps

LEMMA EndLookupsKeeps ==
    ASSUME IInv, EndLookups
    PROVE  IInv'
<1>1. Parsing /\ Top.what = "Lookups" /\ Emit(cur, << >>)
  BY DEF EndLookups
<1>2. Top.at = cur.stack /\ cur.stack \in Nat
  <2>1. Sound(cur) /\ Top.at = cur.stack
    BY <1>1, Parsed
  <2> QED
    BY <2>1, CodeParts
<1>3. Top.at + Gain(Top.what) = cur.stack
  BY <1>1, <1>2, Gains
<1>4. Chain(<< >>, Top.at + Gain(Top.what), cur.stack) /\ << >> \in TodoType
  BY <1>3, ChainNone
<1> QED
  BY <1>1, <1>4, UnchangedKeeps

LEMMA RangeKeeps ==
    ASSUME IInv, Range
    PROVE  IInv'
<1>1. Descend("Expression") /\ Parsing
  BY DEF Range, Descend
<1>2. cur.stack \in Nat /\ Top.what = "Expression" /\ Top.at = cur.stack
  BY <1>1, Descended
<1> DEFINE s == Top.at
           next == <<Do("NewIntRange", s + 2), Do("Expression", s + 1), Do("Expression", s)>>
<1>3. Emit(cur, next)
  BY DEF Range
<1>4. s \in Nat /\ s + 1 \in Nat /\ s + 2 \in Nat /\ s = cur.stack
  BY <1>2
<1> HIDE DEF s
<1>5. s + 2 >= 2 /\ s + 1 >= 0 /\ s >= 0 /\ (s + 1) + 1 = s + 2 /\ s + 1 = (s + 2) + (-1)
  BY <1>4
<1>6. Chain(next, s + 1, s) /\ next \in TodoType
  BY <1>4, <1>5, Gains, ChainThree
<1> HIDE DEF next
<1>7. Chain(next, Top.at + Gain(Top.what), cur.stack)
  BY <1>2, <1>4, <1>6, Gains
<1> QED
  BY <1>1, <1>3, <1>6, <1>7, UnchangedKeeps

LEMMA NewIntRangeKeeps ==
    ASSUME IInv, NewIntRange
    PROVE  IInv'
<1>1. Descend("NewIntRange") /\ Emit(AddNewIntRange(cur), << >>)
  BY DEF NewIntRange
<1>2. /\ Sound(cur) /\ cur.stack \in Nat /\ cur.stack >= 2
  BY <1>1, Descended, Gains
<1>3. Gained(cur, AddNewIntRange(cur), -1)
  BY <1>2, NewIntRangeGained
<1>4. AddNewIntRange(cur).stack = cur.stack + (-1)
  BY <1>3, GainedStack
<1>5. /\ Chain(<< >>, cur.stack + Gain("NewIntRange"), AddNewIntRange(cur).stack)
      /\ << >> \in TodoType
  BY <1>4, Gains, ChainNone
<1> QED
  BY <1>1, <1>3, <1>5, GainedKeeps

-----------------------------------------------------------------------------
(* The strict parse of a variable                                          *)

LEMMA CodeFacts ==
    ASSUME IInv
    PROVE  /\ Sound(code) /\ Sound(kw) /\ Grown(Fresh, kw, kw.stack)
           /\ Len(code.consts) \in Nat /\ Len(kw.consts) \in Nat
           /\ code.stack \in Nat /\ kw.stack \in Nat
           /\ Len(code.consts) + Len(kw.consts) <= IndexMod
           /\ argc \in Nat /\ kwargc \in Nat /\ saved \in SavedType /\ todo \in TodoType
           /\ phase # "idle" => Working(code)
           /\ phase \in VariablePhases => Opened(code, saved)
<1>1. /\ Grown(Fresh, kw, kw.stack) /\ Len(code.consts) + Len(kw.consts) <= IndexMod
      /\ argc \in Nat /\ kwargc \in Nat /\ saved \in SavedType /\ todo \in TodoType
  BY DEF IInv
<1>2. /\ phase # "idle" => Working(code)
      /\ phase = "idle" => Resting(code)
      /\ phase \in VariablePhases => Opened(code, saved)
  BY DEF IInv
<1>3. Sound(code) /\ Sound(kw)
  BY <1>1, <1>2, GrownLoose DEF Working, Resting
<1>4. /\ Len(code.consts) \in Nat /\ Len(kw.consts) \in Nat
      /\ code.stack \in Nat /\ kw.stack \in Nat
  BY <1>3, CodeParts
<1> QED
  BY <1>1, <1>2, <1>3, <1>4

LEMMA FreshKw ==
    /\ Grown(Fresh, Fresh, Fresh.stack) /\ Fresh.stack = 0 /\ Len(Fresh.consts) = 0
<1>1. Fresh.stack = 0 /\ Len(Fresh.consts) = 0
  BY DEF Fresh
<1>2. Grown(Fresh, Fresh, 0)
  BY FreshSound, GrownNothing
<1> QED
  BY <1>1, <1>2

(* The constants of a code that is alone fit when they did with kw's.      *)
LEMMA AloneFits ==
    ASSUME NEW x \in Nat, NEW y \in Nat, x + y <= IndexMod, NEW z \in Nat, z <= x
    PROVE  z + 0 <= IndexMod
BY IndexModAssumption

LEMMA VariableKeeps ==
    ASSUME IInv, Variable
    PROVE  IInv'
<1> DEFINE c == AddRenderVariableRescue(code)
<1>1. /\ phase = "block" /\ Room(1) /\ code' = c /\ phase' = "name"
      /\ saved' = [ins |-> Len(c.ins), consts |-> Len(c.consts), stack |-> c.stack]
      /\ todo' = <<Do("Expression", c.stack)>>
      /\ kw' = kw /\ argc' = argc /\ kwargc' = kwargc
  BY DEF Variable
<1>2. /\ Working(code) /\ code.stack = 0 /\ Last(code.trace).open = FALSE
  BY <1>1 DEF IInv, Sizes
<1>3. Added(code, c, "RENDER_VARIABLE_RESCUE", Open) /\ c.parsing = code.parsing
  BY <1>2, RenderVariableRescueAdded DEF Working
<1> HIDE DEF c
<1>4. Open.open = TRUE /\ Open.depth = 0
  BY DEF Open
<1>5. Working(c)
  BY <1>2, <1>3, <1>4, AddedWorking
<1>6. /\ Sound(c) /\ Last(c.trace) = Open /\ c.stack = 0 /\ Len(c.ins) \in Nat
      /\ Len(c.consts) \in Nat /\ Last(c.trace) = c.trace[Len(c.ins) + 1]
      /\ Len(c.consts) <= Len(code.consts) + 1
  <2>1. Sound(c) /\ Last(c.trace) = Open /\ Len(c.consts) <= Len(code.consts) + 1
    BY <1>3 DEF Added
  <2> QED
    BY <1>4, <2>1, CodeParts
<1>7. /\ saved' \in SavedType /\ saved'.ins = Len(c.ins) /\ saved'.consts = Len(c.consts)
  BY <1>1, <1>6 DEF SavedType
<1>8. Opened(c, saved')
  <2>1. \A j \in 1..Len(c.ins) : c.ins[j].op \in ConstantOps =>
           c.ins[j].const \in 0..(Len(c.consts) - 1)
    BY <1>6 DEF Sound, Body, ConstantsResolve
  <2>2. \A a \in Nat : \A b \in 0..(a - 1) : b < a
    OBVIOUS
  <2>3. \A j \in 1..Len(c.ins) : c.ins[j].op \in ConstantOps =>
           c.ins[j].const < Len(c.consts)
    BY <1>6, <2>1, <2>2
  <2>4. Len(c.ins) <= Len(c.ins) /\ Len(c.consts) <= Len(c.consts)
    BY <1>6
  <2> QED
    BY <1>4, <1>6, <1>7, <2>3, <2>4 DEF Opened
<1>9. Len(c.consts) + Len(kw.consts) <= IndexMod
  <2>1. Len(code.consts) + Len(kw.consts) + 1 <= IndexMod
    BY <1>1 DEF Room
  <2> QED
    BY <1>6, <2>1, CodeFacts, OneMoreFits
<1>10. Chain(todo', 1, c.stack) /\ todo' \in TodoType
  <2>1. c.stack \in Nat /\ c.stack >= 0 /\ 1 = c.stack + 1
    BY <1>6
  <2> QED
    BY <1>1, <2>1, Gains, ChainOne
<1>11. Sizes'
  BY <1>1, <1>10 DEF Sizes, ExpressionPhases
<1>12. /\ phase' \in Phases /\ phase' # "idle"
  BY <1>1 DEF Phases, StrictPhases
<1>13. Grown(Fresh, kw', kw'.stack) /\ argc' \in Nat /\ kwargc' \in Nat
  BY <1>1, CodeFacts
<1> QED
  BY <1>1, <1>5, <1>7, <1>8, <1>9, <1>10, <1>11, <1>12, <1>13 DEF IInv

LEMMA EmptyMarkupKeeps ==
    ASSUME IInv, EmptyMarkup
    PROVE  IInv'
<1> DEFINE c == AddPushImmediate(code)
<1>1. /\ phase = "name" /\ Room(1) /\ todo = <<Do("Expression", saved.stack)>>
      /\ code' = c /\ phase' = "write" /\ todo' = << >>
      /\ kw' = kw /\ saved' = saved /\ argc' = argc /\ kwargc' = kwargc
  BY DEF EmptyMarkup
<1>2. /\ Sound(code) /\ Working(code) /\ Opened(code, saved) /\ saved \in SavedType
      /\ Chain(todo, 1, code.stack)
  BY <1>1, CodeFacts DEF IInv, Sizes, VariablePhases, StrictPhases
<1>3. code.stack = 0
  <2>1. saved.stack = 0
    BY <1>2 DEF SavedType
  <2>2. Len(todo) = 1 /\ todo[1].at = 0
    BY <1>1, <2>1 DEF Do
  <2> QED
    BY <1>2, <2>2 DEF Chain, Due
<1>4. Gained(code, c, 1)
  BY <1>2, PushImmediateGained
<1> HIDE DEF c
<1>5. Grown(code, c, 1) /\ Len(c.consts) <= Len(code.consts) + 1
  BY <1>4 DEF Gained
<1>6. Working(c) /\ Opened(c, saved) /\ c.stack = 0 + 1 /\ Len(c.consts) \in Nat
  BY <1>2, <1>3, <1>5, GrownWorking
<1>7. Len(c.consts) + Len(kw.consts) <= IndexMod
  <2>1. Len(code.consts) + Len(kw.consts) + 1 <= IndexMod
    BY <1>1 DEF Room
  <2> QED
    BY <1>5, <1>6, <2>1, CodeFacts, OneMoreFits
<1>8. Sizes'
  BY <1>1, <1>6 DEF Sizes, ExpressionPhases
<1>9. phase' \in Phases /\ phase' # "idle" /\ << >> \in TodoType
  BY <1>1 DEF Phases, TodoType
<1>10. Grown(Fresh, kw', kw'.stack) /\ argc' \in Nat /\ kwargc' \in Nat /\ saved' \in SavedType
  BY <1>1, CodeFacts
<1> QED
  BY <1>1, <1>6, <1>7, <1>8, <1>9, <1>10 DEF IInv

(* The steps that leave both assemblers as they are.                       *)
LEMMA SameCode ==
    ASSUME IInv, phase \in VariablePhases, phase' \in VariablePhases \cup {"failed"},
           code' = code, kw' = kw, saved' = saved, argc' \in Nat, kwargc' \in Nat,
           todo' \in TodoType, Sizes'
    PROVE  IInv'
<1>1. phase' \in Phases /\ phase' # "idle" /\ phase # "idle"
  BY DEF Phases, VariablePhases, StrictPhases
<1>2. /\ Grown(Fresh, kw, kw.stack) /\ Working(code) /\ Opened(code, saved)
      /\ saved \in SavedType /\ Len(code.consts) + Len(kw.consts) <= IndexMod
  BY <1>1, CodeFacts
<1> QED
  BY <1>1, <1>2 DEF IInv

LEMMA EndNameKeeps ==
    ASSUME IInv, EndName
    PROVE  IInv'
<1>1. /\ phase = "name" /\ todo = << >> /\ phase' = "filters"
      /\ code' = code /\ kw' = kw /\ todo' = todo /\ saved' = saved
      /\ argc' = argc /\ kwargc' = kwargc
  BY DEF EndName
<1>2. code.stack = 1
  <2>1. Chain(todo, 1, code.stack)
    BY <1>1 DEF IInv, Sizes
  <2>2. Len(todo) = 0
    BY <1>1
  <2> QED
    BY <2>1, <2>2 DEF Chain, Due
<1>3. Sizes'
  BY <1>1, <1>2 DEF Sizes, ExpressionPhases
<1>4. phase \in VariablePhases /\ phase' \in VariablePhases
  BY <1>1 DEF VariablePhases, StrictPhases
<1> QED
  BY <1>1, <1>3, <1>4, CodeFacts, SameCode

LEMMA FilterNameKeeps ==
    ASSUME IInv, FilterName
    PROVE  IInv'
<1>1. /\ phase = "filters" /\ phase' = "args" /\ argc' = 0 /\ kwargc' = 0 /\ kw' = Fresh
      /\ code' = code /\ todo' = todo /\ saved' = saved
  BY DEF FilterName
<1>2. code.stack = 1 /\ todo = << >>
  BY <1>1 DEF IInv, Sizes, ExpressionPhases
<1>3. Sizes'
  <2>1. code'.stack = 1 + argc' /\ kw'.stack = 2 * kwargc'
    BY <1>1, <1>2, FreshKw
  <2> QED
    BY <1>1, <1>2, <2>1 DEF Sizes, ExpressionPhases
<1>4. phase \in VariablePhases /\ phase' \in VariablePhases /\ phase # "idle"
      /\ phase' # "idle" /\ phase' \in Phases
  BY <1>1 DEF VariablePhases, StrictPhases, Phases
<1>5. /\ Working(code) /\ Opened(code, saved) /\ saved \in SavedType /\ todo \in TodoType
  BY <1>4, CodeFacts
<1>6. Len(code.consts) + Len(Fresh.consts) <= IndexMod
  <2>1. Len(code.consts) <= Len(code.consts)
    BY CodeFacts
  <2>2. Len(code.consts) + 0 <= IndexMod
    BY <2>1, CodeFacts, AloneFits
  <2> QED
    BY <2>2, FreshKw
<1> QED
  BY <1>1, <1>3, <1>4, <1>5, <1>6, FreshKw DEF IInv

LEMMA PositionalArgKeeps ==
    ASSUME IInv, PositionalArg
    PROVE  IInv'
<1>1. /\ phase = "args" /\ phase' = "positional" /\ todo' = <<Do("Expression", code.stack)>>
      /\ code' = code /\ kw' = kw /\ saved' = saved /\ argc' = argc /\ kwargc' = kwargc
  BY DEF PositionalArg
<1>2. code.stack = 1 + argc /\ kw.stack = 2 * kwargc
  BY <1>1 DEF IInv, Sizes
<1>3. Chain(todo', 2 + argc, code.stack) /\ todo' \in TodoType
  <2>1. code.stack \in Nat /\ code.stack >= 0 /\ 2 + argc = code.stack + 1
    BY <1>2, CodeFacts
  <2> QED
    BY <1>1, <2>1, Gains, ChainOne
<1>4. Sizes'
  BY <1>1, <1>2, <1>3 DEF Sizes, ExpressionPhases
<1>5. phase \in VariablePhases /\ phase' \in VariablePhases
  BY <1>1 DEF VariablePhases, StrictPhases
<1> QED
  BY <1>1, <1>3, <1>4, <1>5, CodeFacts, SameCode

LEMMA EndPositionalArgKeeps ==
    ASSUME IInv, EndPositionalArg
    PROVE  IInv'
<1>1. /\ phase = "positional" /\ todo = << >> /\ phase' = "args" /\ argc' = argc + 1
      /\ code' = code /\ kw' = kw /\ todo' = todo /\ saved' = saved /\ kwargc' = kwargc
  BY DEF EndPositionalArg
<1>2. code.stack = 2 + argc /\ kw.stack = 2 * kwargc
  <2>1. Chain(todo, 2 + argc, code.stack) /\ kw.stack = 2 * kwargc
    BY <1>1 DEF IInv, Sizes
  <2>2. Len(todo) = 0
    BY <1>1
  <2> QED
    BY <2>1, <2>2 DEF Chain, Due
<1>3. argc' \in Nat /\ code.stack = 1 + argc'
  BY <1>1, <1>2, CodeFacts
<1>4. Sizes'
  BY <1>1, <1>2, <1>3 DEF Sizes, ExpressionPhases
<1>5. phase \in VariablePhases /\ phase' \in VariablePhases
  BY <1>1 DEF VariablePhases, StrictPhases
<1> QED
  BY <1>1, <1>3, <1>4, <1>5, CodeFacts, SameCode

LEMMA KeywordArgKeeps ==
    ASSUME IInv, KeywordArg
    PROVE  IInv'
<1> PICK k \in Key : LET c == AddPushConst(kw, k)
                     IN  kw' = c /\ todo' = <<Do("Expression", c.stack)>>
  BY DEF KeywordArg
<1> DEFINE c == AddPushConst(kw, k)
<1>1. /\ phase = "args" /\ Room(1) /\ phase' = "keyword" /\ kwargc' = kwargc + 1
      /\ code' = code /\ saved' = saved /\ argc' = argc
      /\ kw' = c /\ todo' = <<Do("Expression", c.stack)>>
  BY DEF KeywordArg
<1>2. code.stack = 1 + argc /\ kw.stack = 2 * kwargc
  BY <1>1 DEF IInv, Sizes
<1>3. Len(code.consts) + Len(kw.consts) + 1 <= IndexMod
  BY <1>1 DEF Room
<1>4. Gained(kw, c, 1)
  <2>1. Len(kw.consts) < IndexMod
    BY <1>3, CodeFacts, BothBelow
  <2> QED
    BY <2>1, CodeFacts, PushConstGained
<1> HIDE DEF c
<1>5. Grown(kw, c, 1) /\ Len(c.consts) <= Len(kw.consts) + 1 /\ c.stack = kw.stack + 1
      /\ c.stack \in Nat
  BY <1>4, GainedStack DEF Gained
<1>6. Grown(Fresh, c, c.stack) /\ Len(c.consts) \in Nat
  <2>1. kw.stack \in Int /\ Grown(Fresh, kw, kw.stack)
    BY CodeFacts
  <2>2. Grown(Fresh, c, kw.stack + 1)
    BY <1>5, <2>1, FreshSound, GrownTwice
  <2>3. Sound(c)
    BY <1>5 DEF Grown
  <2> QED
    BY <1>5, <2>2, <2>3, CodeParts
<1>7. Len(code.consts) + Len(c.consts) <= IndexMod
  BY <1>3, <1>5, <1>6, CodeFacts, OneMoreFits
<1>8. Chain(todo', 2 * kwargc', kw'.stack) /\ todo' \in TodoType /\ kwargc' \in Nat
  <2>1. kwargc \in Nat
    BY CodeFacts
  <2>2. c.stack >= 0 /\ 2 * kwargc' = c.stack + 1 /\ kwargc' \in Nat
    BY <1>1, <1>2, <1>5, <2>1
  <2> QED
    BY <1>1, <1>5, <2>2, Gains, ChainOne
<1>9. Sizes'
  BY <1>1, <1>2, <1>8 DEF Sizes, ExpressionPhases
<1>10. phase \in VariablePhases /\ phase' \in VariablePhases /\ phase # "idle"
      /\ phase' # "idle" /\ phase' \in Phases
  BY <1>1 DEF VariablePhases, StrictPhases, Phases
<1>11. /\ Working(code) /\ Opened(code, saved) /\ saved \in SavedType /\ argc \in Nat
  BY <1>10, CodeFacts
<1> QED
  BY <1>1, <1>6, <1>7, <1>8, <1>9, <1>10, <1>11 DEF IInv

LEMMA EndKeywordArgKeeps ==
    ASSUME IInv, EndKeywordArg
    PROVE  IInv'
<1>1. /\ phase = "keyword" /\ todo = << >> /\ phase' = "args"
      /\ code' = code /\ kw' = kw /\ todo' = todo /\ saved' = saved
      /\ argc' = argc /\ kwargc' = kwargc
  BY DEF EndKeywordArg
<1>2. code.stack = 1 + argc /\ kw.stack = 2 * kwargc
  <2>1. Chain(todo, 2 * kwargc, kw.stack) /\ code.stack = 1 + argc
    BY <1>1 DEF IInv, Sizes
  <2>2. Len(todo) = 0
    BY <1>1
  <2> QED
    BY <2>1, <2>2 DEF Chain, Due
<1>3. Sizes'
  BY <1>1, <1>2 DEF Sizes, ExpressionPhases
<1>4. phase \in VariablePhases /\ phase' \in VariablePhases
  BY <1>1 DEF VariablePhases, StrictPhases
<1> QED
  BY <1>1, <1>3, <1>4, CodeFacts, SameCode

LEMMA EndStrictParseKeeps ==
    ASSUME IInv, EndStrictParse
    PROVE  IInv'
<1>1. /\ phase = "filters" /\ phase' = "write"
      /\ code' = code /\ kw' = kw /\ todo' = todo /\ saved' = saved
      /\ argc' = argc /\ kwargc' = kwargc
  BY DEF EndStrictParse
<1>2. code.stack = 1 /\ todo = << >>
  BY <1>1 DEF IInv, Sizes, ExpressionPhases
<1>3. Sizes'
  BY <1>1, <1>2 DEF Sizes, ExpressionPhases
<1>4. phase \in VariablePhases /\ phase' \in VariablePhases
  BY <1>1 DEF VariablePhases, StrictPhases
<1> QED
  BY <1>1, <1>3, <1>4, CodeFacts, SameCode

(* The arguments of a filter                                               *)
LEMMA FilterGained ==
    ASSUME NEW c, Sound(c), NEW n \in Nat, c.stack >= n + 1, Len(c.consts) < IndexMod,
           NEW d \in WithFilter(c, n)
    PROVE  Gained(c, d, -n)
<1>1. Gained(c, AddBuiltinFilter(c, n), -n)
  BY BuiltinFilterGained
<1>2. \A k \in Key : Gained(c, AddNamedFilter(c, k, n), -n)
  BY NamedFilterGained
<1> QED
  BY <1>1, <1>2 DEF WithFilter

LEMMA KeywordsGrown ==
    ASSUME IInv, phase = "args", kwargc > 0
    PROVE  /\ Grown(code, KeywordsPushed, 1)
           /\ Len(KeywordsPushed.consts) <= Len(code.consts) + Len(kw.consts) + 1
<1> DEFINE c == Concat(code, kw)
           d == AddHashNew(c, kwargc)
<1>11. /\ Sound(code) /\ Sound(kw) /\ kwargc \in Nat /\ code.stack \in Nat
       /\ Len(code.consts) + Len(kw.consts) <= IndexMod
  BY CodeFacts
<1>12. \A x \in Nat : x > 0 => x >= 1
  OBVIOUS
<1>1. /\ Sound(code) /\ Sound(kw) /\ kwargc \in Nat /\ kwargc >= 1 /\ code.stack \in Nat
      /\ Len(code.consts) + Len(kw.consts) <= IndexMod
  BY <1>11, <1>12
<1>2. Loose(kw) /\ \A j \in 1..Len(kw.ins) : kw.ins[j].op \in ExpressionOps
  BY CodeFacts, GrownLoose
<1>3. kw.stack = 2 * kwargc
  BY DEF IInv, Sizes
<1>4. Grown(code, c, kw.stack) /\ Len(c.consts) = Len(code.consts) + Len(kw.consts)
  BY <1>1, <1>2, ConcatGrown
<1> HIDE DEF c
<1>5. Sound(c) /\ c.stack >= 2 * kwargc
  <2>1. Sound(c) /\ c.stack = code.stack + 2 * kwargc
    BY <1>3, <1>4 DEF Grown
  <2> QED
    BY <1>1, <2>1
<1>6. Gained(c, d, 1 - 2 * kwargc)
  BY <1>1, <1>5, HashNewGained
<1> DEFINE g == 2 * kwargc
           h == 1 - 2 * kwargc
<1>7. g \in Int /\ h \in Int /\ g + h = 1
  BY <1>1
<1>8. Grown(code, c, g) /\ Grown(c, d, h)
  BY <1>3, <1>4, <1>6 DEF Gained
<1> HIDE DEF g, h, d
<1>9. Grown(code, d, 1)
  <2>1. Grown(code, d, g + h)
    BY <1>1, <1>7, <1>8, GrownTwice
  <2> QED
    BY <1>7, <2>1
<1>10. Len(d.consts) <= Len(c.consts) + 1
  BY <1>6 DEF Gained, d
<1> QED
  BY <1>4, <1>9, <1>10 DEF KeywordsPushed, d, c

LEMMA TwoMoreFit ==
    ASSUME NEW x \in Nat, NEW y \in Nat, x + y + 2 <= IndexMod,
           NEW z \in Nat, z <= x + y + 1
    PROVE  z < IndexMod /\ \A w \in Nat : w <= z + 1 => w + 0 <= IndexMod
BY IndexModAssumption

LEMMA EndFilterKeeps ==
    ASSUME IInv, EndFilter
    PROVE  IInv'
<1> DEFINE c == IF kwargc > 0 THEN KeywordsPushed ELSE code
           n == IF kwargc > 0 THEN argc + 1 ELSE argc
           g == IF kwargc > 0 THEN 1 ELSE 0
<1>1. /\ phase = "args" /\ Room(2) /\ code' \in WithFilter(c, n)
      /\ phase' = "filters" /\ kw' = Fresh /\ argc' = 0 /\ kwargc' = 0
      /\ todo' = todo /\ saved' = saved
  BY DEF EndFilter
<1>2. /\ Sound(code) /\ Sound(kw) /\ kwargc \in Nat /\ argc \in Nat /\ code.stack \in Nat
      /\ Len(code.consts) \in Nat /\ Len(kw.consts) \in Nat
      /\ Len(code.consts) + Len(kw.consts) <= IndexMod
      /\ saved \in SavedType /\ todo \in TodoType
  BY CodeFacts
<1>3. Working(code) /\ Opened(code, saved)
  BY <1>1, CodeFacts DEF VariablePhases, StrictPhases
<1>4. code.stack = 1 + argc /\ todo = << >>
  BY <1>1 DEF IInv, Sizes, ExpressionPhases
<1>5. Grown(code, c, g) /\ Len(c.consts) <= Len(code.consts) + Len(kw.consts) + 1
  <2>1. CASE kwargc > 0
    <3>1. c = KeywordsPushed /\ g = 1
      BY <2>1
    <3> QED
      BY <1>1, <2>1, <3>1, KeywordsGrown
  <2>2. CASE ~(kwargc > 0)
    <3>1. c = code /\ g = 0
      BY <2>2
    <3>2. Grown(code, code, 0)
      BY <1>2, GrownNothing
    <3>3. \A x, y \in Nat : x <= x + y + 1
      OBVIOUS
    <3>4. Len(code.consts) <= Len(code.consts) + Len(kw.consts) + 1
      BY <1>2, <3>3
    <3> QED
      BY <3>1, <3>2, <3>4
  <2> QED
    BY <2>1, <2>2
<1>6. g \in Int /\ n \in Nat /\ code.stack + g = n + 1
  BY <1>2, <1>4
<1> HIDE DEF c, n, g
<1>7. Sound(c) /\ c.stack = n + 1 /\ c.stack >= n + 1 /\ Len(c.consts) \in Nat
  <2>1. Sound(c) /\ c.stack = n + 1
    BY <1>5, <1>6 DEF Grown
  <2> QED
    BY <1>6, <2>1, CodeParts
<1>8. Len(c.consts) < IndexMod /\ \A w \in Nat : w <= Len(c.consts) + 1 => w + 0 <= IndexMod
  <2>1. Len(code.consts) + Len(kw.consts) + 2 <= IndexMod
    BY <1>1 DEF Room
  <2> QED
    BY <1>2, <1>5, <1>7, <2>1, TwoMoreFit
<1>9. Gained(c, code', -n)
  BY <1>1, <1>6, <1>7, <1>8, FilterGained
<1>10. /\ Grown(c, code', -n) /\ Len(code'.consts) <= Len(c.consts) + 1 /\ Sound(code')
       /\ code'.stack = c.stack + (-n)
  BY <1>9 DEF Gained, Grown
<1>11. code'.stack = 1 /\ Len(code'.consts) \in Nat
  BY <1>6, <1>7, <1>10, CodeParts
<1>12. Grown(code, code', g + (-n))
  <2>1. -n \in Int
    BY <1>6
  <2> QED
    BY <1>2, <1>5, <1>6, <1>10, <2>1, GrownTwice
<1>13. Working(code') /\ Opened(code', saved)
  BY <1>2, <1>3, <1>12, GrownWorking
<1>14. Len(code'.consts) + Len(kw'.consts) <= IndexMod
  <2>1. Len(code'.consts) + 0 <= IndexMod
    BY <1>8, <1>10, <1>11
  <2> QED
    BY <1>1, <2>1, FreshKw
<1>15. Sizes'
  BY <1>1, <1>4, <1>11 DEF Sizes, ExpressionPhases
<1>16. phase' \in Phases /\ phase' # "idle"
  BY <1>1 DEF Phases, StrictPhases
<1>17. argc' \in Nat /\ kwargc' \in Nat /\ Grown(Fresh, kw', kw'.stack)
  BY <1>1, FreshKw
<1> QED
  BY <1>1, <1>2, <1>13, <1>14, <1>15, <1>16, <1>17 DEF IInv

-----------------------------------------------------------------------------
(* The rescue and the lax parse                                            *)

LEMMA RaisedUndone ==
    ASSUME IInv, phase \in StrictPhases, NEW c \in AtRaise
    PROVE  LET d == Undo(c)
           IN  /\ Working(d) /\ Opened(d, saved) /\ d.stack = 0
               /\ Len(d.consts) <= Len(code.consts) /\ Len(d.consts) \in Nat
<1>1. phase \in VariablePhases /\ phase # "idle"
  BY DEF VariablePhases, StrictPhases
<1>2. Working(code) /\ Opened(code, saved) /\ saved \in SavedType /\ Sound(code)
  BY <1>1, CodeFacts
<1>3. Working(c) /\ Opened(c, saved)
  <2>1. CASE c = code
    BY <1>2, <2>1
  <2>2. CASE c # code
    <3>1. c = KeywordsPushed /\ phase = "args" /\ kwargc \in 1..MaxHashSize
      BY <2>2 DEF AtRaise, TooManyArgs
    <3>2. kwargc > 0
      BY <3>1, BoundsAssumption
    <3>3. Grown(code, c, 1)
      BY <3>1, <3>2, KeywordsGrown
    <3> QED
      BY <1>2, <3>3, GrownWorking
  <2> QED
    BY <2>1, <2>2
<1> DEFINE d == Undo(c)
<1>4. Working(d) /\ Opened(d, saved) /\ d.stack = 0 /\ Len(d.consts) = saved.consts
  BY <1>2, <1>3, UndoOpened
<1>5. saved.consts <= Len(code.consts) /\ saved.consts \in Nat
  BY <1>2 DEF Opened, SavedType
<1> HIDE DEF d
<1>6. Len(d.consts) <= Len(code.consts) /\ Len(d.consts) \in Nat
  BY <1>4, <1>5
<1> QED
  BY <1>4, <1>6 DEF d

LEMMA AbandonKeeps ==
    ASSUME IInv, phase \in StrictPhases, NEW d, Working(d), Opened(d, saved),
           Len(d.consts) <= Len(code.consts), Len(d.consts) \in Nat,
           code' = d, phase' \in {"lax", "failed"}, Abandon
    PROVE  IInv'
<1>1. /\ kw' = Fresh /\ todo' = << >> /\ argc' = 0 /\ kwargc' = 0 /\ saved' = saved
  BY DEF Abandon
<1>2. Len(code'.consts) + Len(kw'.consts) <= IndexMod
  <2>1. Len(d.consts) + 0 <= IndexMod
    BY CodeFacts, AloneFits
  <2> QED
    BY <1>1, <2>1, FreshKw
<1>3. Sizes'
  BY <1>1 DEF Sizes, ExpressionPhases
<1>4. phase' \in Phases /\ phase' # "idle" /\ << >> \in TodoType /\ saved \in SavedType
  BY CodeFacts DEF Phases, StrictPhases, TodoType
<1> QED
  BY <1>1, <1>2, <1>3, <1>4, FreshKw DEF IInv

LEMMA RescueSyntaxErrorKeeps ==
    ASSUME IInv, RescueSyntaxError
    PROVE  IInv'
<1> PICK c \in AtRaise : code' = [Undo(c) EXCEPT !.prot = saved.stack]
  BY DEF RescueSyntaxError
<1>1. phase \in StrictPhases /\ phase' = "lax" /\ Abandon
  BY DEF RescueSyntaxError
<1> DEFINE d == Undo(c)
<1>2. /\ Working(d) /\ Opened(d, saved) /\ d.stack = 0
      /\ Len(d.consts) <= Len(code.consts) /\ Len(d.consts) \in Nat
  BY <1>1, RaisedUndone
<1>3. code' = [d EXCEPT !.prot = saved.stack]
  OBVIOUS
<1> HIDE DEF d
<1>4. d = [d EXCEPT !.prot = saved.stack]
  <2>1. d.prot = 0 /\ saved.stack = 0 /\ d \in CodeType
    BY <1>2, CodeFacts DEF Working, Sound, SavedType
  <2> QED
    BY <2>1 DEF CodeType
<1>5. code' = d
  BY <1>3, <1>4
<1> QED
  BY <1>1, <1>2, <1>5, AbandonKeeps

LEMMA RescueAndRaiseKeeps ==
    ASSUME IInv, RescueAndRaise
    PROVE  IInv'
<1> PICK c \in AtRaise : code' = Undo(c)
  BY DEF RescueAndRaise
<1>1. phase \in StrictPhases /\ phase' = "failed" /\ Abandon
  BY DEF RescueAndRaise
<1> DEFINE d == Undo(c)
<1>2. /\ Working(d) /\ Opened(d, saved) /\ d.stack = 0
      /\ Len(d.consts) <= Len(code.consts) /\ Len(d.consts) \in Nat
  BY <1>1, RaisedUndone
<1>3. code' = d
  OBVIOUS
<1> HIDE DEF d
<1> QED
  BY <1>1, <1>2, <1>3, AbandonKeeps

(* d is code with what one call of a compile_evaluate adds to it.          *)
Evaluating(d) == \E g \in Int : Grown(code, d, g) /\ Len(d.consts) <= Len(code.consts) + 3

LEMMA ThreeFit ==
    ASSUME NEW x \in Nat, NEW y \in Nat, x + y + 3 <= IndexMod
    PROVE  /\ 2 < IndexMod /\ x + 2 < IndexMod
           /\ \A z \in 0..2 : x + z <= IndexMod
           /\ \A z \in Nat : z <= x + 2 => z < IndexMod
           /\ \A z \in Nat : z <= x + 3 => z + y <= IndexMod
BY IndexModAssumption

LEMMA GainedTwice ==
    ASSUME NEW c, Sound(c), NEW d, NEW e, NEW g \in Int, NEW h \in Int,
           Grown(c, d, g), Gained(d, e, h)
    PROVE  Grown(c, e, g + h) /\ Len(e.consts) <= Len(d.consts) + 1
<1>1. Grown(d, e, h) /\ Len(e.consts) <= Len(d.consts) + 1
  BY DEF Gained
<1> QED
  BY <1>1, GrownTwice

(* A Liquid::C::Expression, without its LEAVE                              *)
LEMMA LooseExpression ==
    ASSUME NEW k \in Key, NEW l \in Key, 2 < IndexMod
    PROVE  LET x == AddLookupConstKey(AddFindStaticVariable(Fresh, k), l)
           IN  Grown(Fresh, x, 1) /\ Len(x.consts) \in 0..2
<1> DEFINE a == AddFindStaticVariable(Fresh, k)
           x == AddLookupConstKey(a, l)
<1>1. Sound(Fresh) /\ Fresh.stack = 0 /\ Len(Fresh.consts) = 0 /\ 0 < IndexMod /\ 1 < IndexMod
  BY FreshSound, FreshKw, IndexModAssumption
<1>2. Gained(Fresh, a, 1)
  BY <1>1, FindStaticVariableGained
<1> HIDE DEF a
<1>3. /\ Grown(Fresh, a, 1) /\ Sound(a) /\ a.stack = 0 + 1 /\ Len(a.consts) <= 0 + 1
      /\ Len(a.consts) \in Nat
  <2>1. Grown(Fresh, a, 1) /\ Sound(a) /\ Len(a.consts) <= 0 + 1
    BY <1>1, <1>2 DEF Gained, Grown
  <2> QED
    BY <1>1, <1>2, <2>1, GainedStack, CodeParts
<1>4. a.stack >= 1 /\ Len(a.consts) < IndexMod
  <2>1. \A y, z \in Nat : y <= 0 + 1 /\ 1 < z => y < z
    OBVIOUS
  <2> QED
    BY <1>1, <1>3, <2>1, IndexModAssumption
<1>5. Gained(a, x, 0)
  BY <1>3, <1>4, LookupConstKeyGained
<1> HIDE DEF x
<1>6. Grown(Fresh, x, 1 + 0) /\ Len(x.consts) <= Len(a.consts) + 1
  BY <1>1, <1>3, <1>5, GainedTwice
<1>7. Len(x.consts) \in 0..2
  <2>1. Sound(x)
    BY <1>6 DEF Grown
  <2>2. Len(x.consts) \in Nat
    BY <2>1, CodeParts
  <2>3. \A y, z \in Nat : y <= 0 + 1 /\ z <= y + 1 => z \in 0..2
    OBVIOUS
  <2> QED
    BY <1>3, <1>6, <2>2, <2>3
<1> QED
  BY <1>6, <1>7 DEF x, a

LEMMA EvaluatedGrown ==
    ASSUME IInv, phase = "lax", Room(3), NEW d \in Evaluated(code)
    PROVE  /\ Grown(code, d, 1) /\ Sound(d) /\ d.stack = code.stack + 1
           /\ Len(d.consts) \in Nat /\ Len(d.consts) <= Len(code.consts) + 2
<1> SUFFICES Grown(code, d, 1) /\ Len(d.consts) <= Len(code.consts) + 2
  <2>1. Grown(code, d, 1) => Sound(d) /\ d.stack = code.stack + 1
    BY DEF Grown
  <2> QED
    BY <2>1, CodeParts
<1>1. /\ Sound(code) /\ Working(code) /\ code.parsing = TRUE
      /\ Len(code.consts) \in Nat /\ Len(kw.consts) \in Nat
  BY CodeFacts DEF Working
<1>2. Len(code.consts) + Len(kw.consts) + 3 <= IndexMod
  BY DEF Room
<1>3. /\ 2 < IndexMod /\ Len(code.consts) + 2 < IndexMod
      /\ \A z \in 0..2 : Len(code.consts) + z <= IndexMod
      /\ Len(code.consts) < IndexMod
  <2>1. \A x \in Nat : x <= x + 2
    OBVIOUS
  <2> QED
    BY <1>1, <1>2, <2>1, ThreeFit
<1>4. ASSUME Gained(code, d, 1)
      PROVE  Grown(code, d, 1) /\ Len(d.consts) <= Len(code.consts) + 2
  <2>1. Grown(code, d, 1) /\ Len(d.consts) <= Len(code.consts) + 1 /\ Sound(d)
    BY <1>4 DEF Gained, Grown
  <2>2. Len(d.consts) \in Nat
    BY <2>1, CodeParts
  <2>3. \A x, y \in Nat : x <= y + 1 => x <= y + 2
    OBVIOUS
  <2> QED
    BY <1>1, <2>1, <2>2, <2>3
<1>5. CASE d = AddPushImmediate(code)
  BY <1>1, <1>4, <1>5, PushImmediateGained
<1>6. CASE \E k \in Key : d = AddPushConst(code, k)
  BY <1>1, <1>3, <1>4, <1>6, PushConstGained
<1>7. CASE \E k \in Key : d = AddFindStaticVariable(code, k)
  BY <1>1, <1>3, <1>4, <1>7, FindStaticVariableGained
<1>8. CASE \E e \in Expressions : d = RemoveLeave(Concat(code, e))
  <2> PICK e \in Expressions : d = RemoveLeave(Concat(code, e))
    BY <1>8
  <2> PICK k \in Key, l \in Key :
          e = AddLeave(AddLookupConstKey(AddFindStaticVariable(Fresh, k), l))
    BY DEF Expressions
  <2> DEFINE x == AddLookupConstKey(AddFindStaticVariable(Fresh, k), l)
  <2>1. Grown(Fresh, x, 1) /\ Len(x.consts) \in 0..2 /\ e = AddLeave(x)
    BY <1>3, LooseExpression
  <2> HIDE DEF x
  <2>2. Len(code.consts) + Len(x.consts) <= IndexMod
    BY <1>3, <2>1
  <2>3. Grown(code, d, 1) /\ Len(d.consts) = Len(code.consts) + Len(x.consts)
    <3> DEFINE y == RemoveLeave(Concat(code, AddLeave(x)))
    <3>1. Grown(code, y, 1) /\ Len(y.consts) = Len(code.consts) + Len(x.consts)
      <4>1. 1 \in Int /\ Sound(code) /\ code.parsing = TRUE /\ Grown(Fresh, x, 1)
        BY <1>1, <2>1
      <4> QED
        BY <2>2, <4>1, ExpressionGrown, Zenon
    <3>2. d = y
      BY <2>1
    <3> QED
      BY <3>1, <3>2, Zenon
  <2>4. \A a, b, z \in Nat : z \in 0..2 /\ a = b + z => a <= b + 2
    OBVIOUS
  <2>5. Len(d.consts) \in Nat /\ Len(x.consts) \in Nat
    <3>1. Sound(d)
      BY <2>3 DEF Grown
    <3> QED
      BY <2>1, <3>1, CodeParts
  <2> QED
    BY <1>1, <2>1, <2>3, <2>4, <2>5
<1> QED
  BY <1>5, <1>6, <1>7, <1>8 DEF Evaluated

LEMMA LaxEvaluating ==
    ASSUME IInv, 0 \notin HashSizes, Lax
    PROVE  Evaluating(code')
<1>1. /\ phase = "lax" /\ Room(3)
      /\ LaxPush \/ LaxFindVariable \/ LaxLookup \/ LaxNewIntRange \/ LaxHashNew \/ LaxFilter
  BY DEF Lax
<1>2. /\ Sound(code) /\ code.prot = 0 /\ code.stack \in Nat
      /\ Len(code.consts) \in Nat /\ Len(kw.consts) \in Nat
  BY <1>1, CodeFacts DEF Working
<1>3. Len(code.consts) + Len(kw.consts) + 3 <= IndexMod
  BY <1>1 DEF Room
<1>4. Len(code.consts) < IndexMod /\ \A z \in Nat : z <= Len(code.consts) + 2 => z < IndexMod
  <2>1. \A x \in Nat : x <= x + 2
    OBVIOUS
  <2> QED
    BY <1>2, <1>3, <2>1, ThreeFit
<1>5. \A x, y \in Nat : /\ x <= y + 1 => x <= y + 3
                        /\ x <= y + 2 => x <= y + 3
                        /\ \A z \in Nat : x <= z + 1 /\ z <= y + 2 => x <= y + 3
  OBVIOUS
<1>6. ASSUME NEW g \in Int, Gained(code, code', g)
      PROVE  Evaluating(code')
  <2>1. Grown(code, code', g) /\ Len(code'.consts) <= Len(code.consts) + 1 /\ Sound(code')
    BY <1>6 DEF Gained, Grown
  <2>2. Len(code'.consts) \in Nat
    BY <2>1, CodeParts
  <2>3. Len(code'.consts) <= Len(code.consts) + 3
    BY <1>2, <1>5, <2>1, <2>2
  <2> QED
    BY <2>1, <2>3 DEF Evaluating
<1>7. ASSUME NEW c \in Evaluated(code), NEW g \in Int, Gained(c, code', g)
      PROVE  Evaluating(code')
  <2>1. /\ Grown(code, c, 1) /\ Len(c.consts) \in Nat /\ Len(c.consts) <= Len(code.consts) + 2
    BY <1>1, EvaluatedGrown
  <2>2. Grown(code, code', 1 + g) /\ Len(code'.consts) <= Len(c.consts) + 1
    BY <1>2, <1>7, <2>1, GainedTwice
  <2>3. Len(code'.consts) \in Nat
    <3>1. Sound(code')
      BY <2>2 DEF Grown
    <3> QED
      BY <3>1, CodeParts
  <2>4. Len(code'.consts) <= Len(code.consts) + 3
    BY <1>2, <1>5, <2>1, <2>2, <2>3
  <2>5. 1 + g \in Int
    OBVIOUS
  <2> QED
    BY <2>2, <2>4, <2>5 DEF Evaluating
<1>8. CASE LaxPush
  <2>1. code' \in Evaluated(code)
    BY <1>8 DEF LaxPush
  <2>2. /\ Grown(code, code', 1) /\ Len(code'.consts) \in Nat
        /\ Len(code'.consts) <= Len(code.consts) + 2
    BY <1>1, <2>1, EvaluatedGrown
  <2>3. Len(code'.consts) <= Len(code.consts) + 3
    BY <1>2, <1>5, <2>2
  <2> QED
    BY <2>2, <2>3 DEF Evaluating
<1>9. CASE LaxFindVariable
  <2> PICK c \in Evaluated(code) : code' = AddFindVariable(c)
    BY <1>9 DEF LaxFindVariable
  <2>1. Sound(c) /\ c.stack = code.stack + 1
    BY <1>1, EvaluatedGrown
  <2>2. c.stack >= 1
    BY <1>2, <2>1
  <2>3. Gained(c, code', 0)
    BY <2>1, <2>2, FindVariableGained
  <2> QED
    BY <1>7, <2>3
<1>10. CASE LaxLookup
  <2>1. code.stack >= 1
    BY <1>2, <1>10 DEF LaxLookup, HasStackArgs
  <2>2. CASE \E k \in Key : code' \in {AddLookupCommand(code, k), AddLookupConstKey(code, k)}
    <3> PICK k \in Key : code' \in {AddLookupCommand(code, k), AddLookupConstKey(code, k)}
      BY <2>2
    <3>1. Gained(code, AddLookupCommand(code, k), 0)
      BY <1>2, <1>4, <2>1, LookupCommandGained
    <3>2. Gained(code, AddLookupConstKey(code, k), 0)
      BY <1>2, <1>4, <2>1, LookupConstKeyGained
    <3>3. Gained(code, code', 0)
      BY <3>1, <3>2
    <3> QED
      BY <1>6, <3>3
  <2>3. CASE code' \in {AddLookupKey(c) : c \in Evaluated(code)}
    <3> PICK c \in Evaluated(code) : code' = AddLookupKey(c)
      BY <2>3
    <3>1. Sound(c) /\ c.stack = code.stack + 1
      BY <1>1, EvaluatedGrown
    <3>2. c.stack >= 2
      BY <1>2, <2>1, <3>1
    <3>3. Gained(c, code', -1)
      BY <3>1, <3>2, LookupKeyGained
    <3> QED
      BY <1>7, <3>3
  <2> QED
    BY <1>10, <2>2, <2>3 DEF LaxLookup
<1>11. CASE LaxNewIntRange
  <2>1. code.stack >= 2 /\ code' = AddNewIntRange(code)
    BY <1>2, <1>11 DEF LaxNewIntRange, HasStackArgs
  <2>2. Gained(code, code', -1)
    BY <1>2, <2>1, NewIntRangeGained
  <2> QED
    BY <1>6, <2>2
<1>12. CASE LaxHashNew
  <2> PICK size \in HashSizes : HasStackArgs(code, 2 * size) /\ code' = AddHashNew(code, size)
    BY <1>12 DEF LaxHashNew
  <2>1. size \in Nat /\ size >= 1
    BY BoundsAssumption
  <2>2. code.stack >= 2 * size /\ 1 - 2 * size \in Int
    BY <1>2, <2>1 DEF HasStackArgs
  <2>3. Gained(code, code', 1 - 2 * size)
    BY <1>2, <2>1, <2>2, HashNewGained
  <2> QED
    BY <1>6, <2>2, <2>3
<1>13. CASE LaxFilter
  <2> PICK n \in 0..MaxFilterArgs : HasStackArgs(code, n + 1) /\ code' \in WithFilter(code, n)
    BY <1>13 DEF LaxFilter
  <2>1. n \in Nat /\ -n \in Int
    BY BoundsAssumption
  <2>2. code.stack >= n + 1
    BY <1>2, <2>1 DEF HasStackArgs
  <2>3. Gained(code, code', -n)
    BY <1>2, <1>4, <2>1, <2>2, FilterGained
  <2> QED
    BY <1>6, <2>1, <2>3
<1> QED
  BY <1>1, <1>8, <1>9, <1>10, <1>11, <1>12, <1>13

LEMMA LaxKeeps ==
    ASSUME IInv, 0 \notin HashSizes, Lax
    PROVE  IInv'
<1>1. /\ phase = "lax" /\ Room(3) /\ phase' = "lax" /\ kw' = kw /\ todo' = todo
      /\ saved' = saved /\ argc' = argc /\ kwargc' = kwargc
  BY DEF Lax
<1>2. Evaluating(code')
  BY LaxEvaluating
<1> PICK g \in Int : Grown(code, code', g) /\ Len(code'.consts) <= Len(code.consts) + 3
  BY <1>2 DEF Evaluating
<1>3. /\ Working(code) /\ Opened(code, saved) /\ saved \in SavedType
      /\ Len(code.consts) \in Nat /\ Len(kw.consts) \in Nat
  BY <1>1, CodeFacts DEF VariablePhases
<1>4. Working(code') /\ Opened(code', saved) /\ Len(code'.consts) \in Nat
  BY <1>3, GrownWorking
<1>5. Len(code'.consts) + Len(kw.consts) <= IndexMod
  <2>1. Len(code.consts) + Len(kw.consts) + 3 <= IndexMod
    BY <1>1 DEF Room
  <2> QED
    BY <1>3, <1>4, <2>1, ThreeFit
<1>6. Sizes'
  <2>1. todo = << >>
    BY <1>1 DEF IInv, Sizes, ExpressionPhases
  <2> QED
    BY <1>1, <2>1 DEF Sizes, ExpressionPhases
<1>7. phase' \in Phases /\ phase' # "idle"
  BY <1>1 DEF Phases
<1>8. /\ Grown(Fresh, kw', kw'.stack) /\ argc' \in Nat /\ kwargc' \in Nat
      /\ todo' \in TodoType /\ saved' \in SavedType
  BY <1>1, CodeFacts
<1> QED
  BY <1>1, <1>4, <1>5, <1>6, <1>7, <1>8 DEF IInv

LEMMA LaxDoneKeeps ==
    ASSUME IInv, LaxDone
    PROVE  IInv'
<1>1. /\ phase = "lax" /\ code.stack = code.prot + 1 /\ phase' = "write"
      /\ code' = code /\ kw' = kw /\ todo' = todo /\ saved' = saved
      /\ argc' = argc /\ kwargc' = kwargc
  BY DEF LaxDone
<1>2. code.stack = 1 /\ todo = << >>
  <2>1. code.prot = 0
    BY <1>1, CodeFacts DEF Working
  <2>2. todo = << >>
    BY <1>1 DEF IInv, Sizes, ExpressionPhases
  <2> QED
    BY <1>1, <2>1, <2>2
<1>3. Sizes'
  BY <1>1, <1>2 DEF Sizes, ExpressionPhases
<1>4. phase \in VariablePhases /\ phase' \in VariablePhases
  BY <1>1 DEF VariablePhases, StrictPhases
<1> QED
  BY <1>1, <1>3, <1>4, CodeFacts, SameCode

LEMMA LaxFailedKeeps ==
    ASSUME IInv, LaxFailed
    PROVE  IInv'
<1>1. /\ phase = "lax" /\ phase' = "failed"
      /\ code' = code /\ kw' = kw /\ todo' = todo /\ saved' = saved
      /\ argc' = argc /\ kwargc' = kwargc
  BY DEF LaxFailed
<1>2. todo = << >>
  BY <1>1 DEF IInv, Sizes, ExpressionPhases
<1>3. Sizes'
  BY <1>1, <1>2 DEF Sizes, ExpressionPhases
<1>4. phase \in VariablePhases /\ phase' \in VariablePhases \cup {"failed"}
  BY <1>1 DEF VariablePhases, StrictPhases
<1> QED
  BY <1>1, <1>3, <1>4, CodeFacts, SameCode

-----------------------------------------------------------------------------
(* The parse of a body                                                     *)

(* The steps that add a node, or the end of a variable.                    *)
LEMMA NodeKeeps ==
    ASSUME IInv, phase \in {"block", "write"}, Room(1), NEW d, NEW op,
           Added(code, d, op, Closed) /\ d.parsing = code.parsing, op # "LEAVE",
           code' = d, phase' = "block", Quiet
    PROVE  IInv'
<1>1. phase # "idle" /\ kw' = kw /\ todo' = todo /\ saved' = saved /\ argc' = argc
      /\ kwargc' = kwargc
  BY DEF Quiet
<1>2. Closed.open = FALSE /\ Closed.depth = 0
  BY DEF Closed
<1>3. Working(d)
  BY <1>1, <1>2, CodeFacts, AddedWorking
<1>4. /\ Sound(d) /\ Last(d.trace) = Closed /\ Len(d.consts) <= Len(code.consts) + 1
  BY DEF Added
<1>5. Len(d.consts) \in Nat /\ d.stack = 0
  BY <1>2, <1>4, CodeParts
<1>6. Len(d.consts) + Len(kw.consts) <= IndexMod
  <2>1. Len(code.consts) + Len(kw.consts) + 1 <= IndexMod
    BY DEF Room
  <2> QED
    BY <1>4, <1>5, <2>1, CodeFacts, OneMoreFits
<1>7. Sizes'
  <2>1. todo = << >>
    BY DEF IInv, Sizes, ExpressionPhases
  <2>2. code'.stack = 0 /\ Last(code'.trace).open = FALSE
    BY <1>2, <1>4, <1>5
  <2> QED
    BY <1>1, <2>1, <2>2 DEF Sizes, ExpressionPhases
<1>8. phase' \in Phases /\ phase' # "idle" /\ phase' \notin VariablePhases
  BY DEF Phases, VariablePhases, StrictPhases
<1>9. /\ Grown(Fresh, kw', kw'.stack) /\ argc' \in Nat /\ kwargc' \in Nat
      /\ todo' \in TodoType /\ saved' \in SavedType
  BY <1>1, CodeFacts
<1> QED
  BY <1>1, <1>3, <1>6, <1>7, <1>8, <1>9 DEF IInv

LEMMA InBlock ==
    ASSUME IInv, phase = "block"
    PROVE  /\ Working(code) /\ Sound(code) /\ code.stack = 0 /\ Last(code.trace).open = FALSE
           /\ todo = << >> /\ Last(code.trace) = Closed
<1>1. Working(code) /\ Sound(code)
  BY CodeFacts
<1>2. code.stack = 0 /\ Last(code.trace).open = FALSE /\ todo = << >>
  BY DEF IInv, Sizes, ExpressionPhases
<1>3. Last(code.trace) = Closed
  <2>1. Last(code.trace) \in Situation /\ Last(code.trace).depth = 0
    BY <1>1, <1>2, CodeParts
  <2> QED
    BY <1>2, <2>1 DEF Situation, Closed
<1> QED
  BY <1>1, <1>2, <1>3

LEMMA RawTokenKeeps ==
    ASSUME IInv, RawToken
    PROVE  IInv'
<1>1. /\ phase = "block" /\ Room(1) /\ code' = AddWriteRaw(code) /\ phase' = "block" /\ Quiet
  BY DEF RawToken
<1>2. Added(code, code', "WRITE_RAW", Closed) /\ code'.parsing = code.parsing
  BY <1>1, InBlock, WriteRawAdded
<1> QED
  BY <1>1, <1>2, NodeKeeps

LEMMA TagTokenKeeps ==
    ASSUME IInv, TagToken
    PROVE  IInv'
<1> PICK tag \in Key : code' = AddWriteNode(code, tag)
  BY DEF TagToken
<1>1. /\ phase = "block" /\ Room(1) /\ phase' = "block" /\ Quiet
  BY DEF TagToken
<1>2. Len(code.consts) < IndexMod
  <2>1. Len(code.consts) + Len(kw.consts) + 1 <= IndexMod
    BY <1>1 DEF Room
  <2> QED
    BY <2>1, CodeFacts, BothBelow
<1>3. Added(code, code', "WRITE_NODE", Closed) /\ code'.parsing = code.parsing
  BY <1>1, <1>2, InBlock, WriteNodeAdded
<1> QED
  BY <1>1, <1>3, NodeKeeps

LEMMA PopWriteKeeps ==
    ASSUME IInv, PopWrite
    PROVE  IInv'
<1>1. /\ phase = "write" /\ Room(1) /\ code' = AddPopWrite(code) /\ phase' = "block" /\ Quiet
  BY DEF PopWrite
<1>2. Sound(code) /\ code.stack = 1 /\ Last(code.trace).open = TRUE
  <2>1. Opened(code, saved)
    BY <1>1, CodeFacts DEF VariablePhases
  <2> QED
    BY <1>1, <2>1, CodeFacts DEF Opened, IInv, Sizes
<1>3. Added(code, code', "POP_WRITE", Closed) /\ code'.parsing = code.parsing
  BY <1>1, <1>2, PopWriteAdded
<1> QED
  BY <1>1, <1>3, NodeKeeps

LEMMA ParseErrorKeeps ==
    ASSUME IInv, ParseError
    PROVE  IInv'
<1>1. /\ phase = "block" /\ phase' = "failed" /\ code' = code /\ kw' = kw /\ todo' = todo
      /\ saved' = saved /\ argc' = argc /\ kwargc' = kwargc
  BY DEF ParseError, Quiet
<1>2. Sizes'
  BY <1>1, InBlock DEF Sizes, ExpressionPhases
<1>3. phase' \in Phases /\ phase' # "idle" /\ phase' \notin VariablePhases
  BY <1>1 DEF Phases, VariablePhases, StrictPhases
<1> QED
  BY <1>1, <1>2, <1>3, CodeFacts DEF IInv

(* A complete code: its LEAVE is the last instruction and the only one.     *)
LEMMA LeftFinished ==
    ASSUME NEW c, NEW d, Sound(c), NodesAlone(c), c.prot = 0,
           \A j \in 1..Len(c.ins) : c.ins[j].op # "LEAVE",
           Last(c.trace) = Closed, Added(c, d, "LEAVE", Closed), d.parsing = FALSE
    PROVE  Resting(d)
<1>1. Closed.open = FALSE /\ Closed.depth = 0
  BY DEF Closed
<1>2. NodesAlone(d)
  BY <1>1, AddedAlone
<1>3. /\ Sound(d) /\ d.prot = 0 /\ Last(d.trace) = Closed
      /\ Len(d.ins) = Len(c.ins) + 1 /\ d.ins[Len(c.ins) + 1].op = "LEAVE"
      /\ \A j \in 1..Len(c.ins) : d.ins[j] = c.ins[j]
  BY DEF Added
<1>4. Len(c.ins) \in Nat
  BY CodeParts
<1>5. ASSUME NEW j \in 1..Len(d.ins)
      PROVE  d.ins[j].op = "LEAVE" <=> j = Len(d.ins)
  <2>1. CASE j \in 1..Len(c.ins)
    <3>1. j # Len(d.ins)
      BY <1>3, <1>4, <2>1
    <3> QED
      BY <1>3, <2>1, <3>1
  <2>2. CASE j \notin 1..Len(c.ins)
    <3>1. j = Len(c.ins) + 1 /\ j = Len(d.ins)
      BY <1>3, <1>4, <2>2
    <3> QED
      BY <1>3, <3>1
  <2> QED
    BY <2>1, <2>2
<1>6. d.ins # << >>
  <2>1. Len(<< >>) = 0
    OBVIOUS
  <2>2. Len(d.ins) # 0
    BY <1>3, <1>4
  <2> QED
    BY <2>1, <2>2, Zenon
<1>7. Finished(d, 0)
  BY <1>3, <1>5, <1>6 DEF Finished, Closed
<1> QED
  BY <1>2, <1>3, <1>7 DEF Resting

LEMMA RestingKeeps ==
    ASSUME Resting(code'), Len(code'.consts) + Len(kw'.consts) <= IndexMod,
           Grown(Fresh, kw', kw'.stack), argc' \in Nat, kwargc' \in Nat,
           saved' \in SavedType, todo' = << >>, phase' = "idle"
    PROVE  IInv'
<1>1. Sizes'
  BY DEF Sizes, ExpressionPhases
<1>2. phase' \in Phases /\ phase' \notin VariablePhases /\ << >> \in TodoType
  BY DEF Phases, VariablePhases, StrictPhases, TodoType
<1> QED
  BY <1>1, <1>2 DEF IInv

LEMMA EndParseKeeps ==
    ASSUME IInv, EndParse
    PROVE  IInv'
<1> DEFINE d == AddLeave(code)
<1>1. /\ phase = "block" /\ code' = d /\ phase' = "idle" /\ kw' = kw /\ todo' = todo
      /\ saved' = saved /\ argc' = argc /\ kwargc' = kwargc
  BY DEF EndParse, Quiet
<1>2. /\ Working(code) /\ Sound(code) /\ Last(code.trace) = Closed /\ todo = << >>
  BY <1>1, InBlock
<1>3. Added(code, d, "LEAVE", Closed) /\ d.parsing = FALSE /\ d.consts = code.consts
  BY <1>2, LeaveAdded
<1> HIDE DEF d
<1>4. Resting(d)
  BY <1>2, <1>3, LeftFinished DEF Working
<1> QED
  BY <1>1, <1>2, <1>3, <1>4, CodeFacts, RestingKeeps

LEMMA BeginParseKeeps ==
    ASSUME IInv, BeginParse
    PROVE  IInv'
<1> DEFINE d == RemoveLeave(code)
           n == Len(code.ins) - 1
<1>1. /\ phase = "idle" /\ code' = d /\ phase' = "block" /\ kw' = kw /\ todo' = todo
      /\ saved' = saved /\ argc' = argc /\ kwargc' = kwargc
  BY DEF BeginParse, Quiet
<1>2. /\ Resting(code) /\ Sound(code) /\ todo = << >>
  BY <1>1, CodeFacts DEF IInv, Sizes, ExpressionPhases
<1>3. /\ code.prot = 0 /\ NodesAlone(code) /\ code.ins # << >>
      /\ \A j \in 1..Len(code.ins) : code.ins[j].op = "LEAVE" <=> j = Len(code.ins)
      /\ Last(code.trace) = Closed
  BY <1>2 DEF Resting, Finished, Closed
<1>4. /\ code.ins \in Seq(Instruction) /\ Len(code.trace) = Len(code.ins) + 1
      /\ Len(code.ins) \in Nat
  BY <1>2, CodeParts
<1>5. Len(code.ins) # 0
  BY <1>3, <1>4
<1>6. n \in Nat /\ Len(code.ins) = n + 1 /\ n + 1 \in 1..Len(code.ins)
  BY <1>4, <1>5
<1> HIDE DEF n, d
<1>7. code.ins[n + 1].op = "LEAVE"
  BY <1>3, <1>6
<1>8. /\ Sound(d) /\ Prefix(code, d, n) /\ Last(d.trace) = Last(code.trace)
      /\ d.stack = code.stack /\ d.prot = code.prot /\ d.parsing = TRUE
      /\ d.consts = code.consts
  BY <1>2, <1>6, <1>7, LeaveRemoved DEF d
<1>9. /\ Len(d.ins) = n /\ Len(d.trace) = n + 1
      /\ \A j \in 1..n : d.ins[j] = code.ins[j]
      /\ \A j \in 1..n + 1 : d.trace[j] = code.trace[j]
  BY <1>8 DEF Prefix
<1>10. NodesAlone(d)
  <2>1. \A j \in 1..n + 1 : j \in 1..Len(code.trace)
    BY <1>4, <1>6
  <2> QED
    BY <1>3, <1>9, <2>1 DEF NodesAlone
<1>11. \A j \in 1..Len(d.ins) : d.ins[j].op # "LEAVE"
  <2>1. \A j \in 1..n : j \in 1..Len(code.ins) /\ j # Len(code.ins)
    BY <1>6
  <2> QED
    BY <1>3, <1>9, <2>1
<1>12. Working(d)
  BY <1>3, <1>8, <1>10, <1>11 DEF Working
<1>13. d.stack = 0 /\ Last(d.trace).open = FALSE
  BY <1>3, <1>8, CodeParts DEF Closed
<1>14. Sizes'
  BY <1>1, <1>2, <1>13 DEF Sizes, ExpressionPhases
<1>15. phase' \in Phases /\ phase' # "idle" /\ phase' \notin VariablePhases
  BY <1>1 DEF Phases, VariablePhases, StrictPhases
<1>16. /\ Grown(Fresh, kw', kw'.stack) /\ argc' \in Nat /\ kwargc' \in Nat
       /\ todo' \in TodoType /\ saved' \in SavedType
       /\ Len(code'.consts) + Len(kw'.consts) <= IndexMod
  BY <1>1, <1>8, CodeFacts
<1> QED
  BY <1>1, <1>12, <1>14, <1>15, <1>16 DEF IInv

-----------------------------------------------------------------------------
(* The invariant                                                           *)

LEMMA InitKeeps ==
    ASSUME Init
    PROVE  IInv
<1>1. /\ code = AddLeave(Fresh) /\ kw = Fresh /\ phase = "idle" /\ todo = << >>
      /\ saved = Nothing /\ argc = 0 /\ kwargc = 0
  BY DEF Init
<1>2. /\ Sound(Fresh) /\ Fresh.prot = 0 /\ Fresh.trace = <<Entry>> /\ Fresh.ins = << >>
  BY FreshSound DEF Fresh
<1>3. Len(Fresh.trace) = 1 /\ Fresh.trace[1] = Entry /\ Len(Fresh.ins) = 0
  BY <1>2
<1>4. NodesAlone(Fresh) /\ Last(Fresh.trace) = Closed
  BY <1>3 DEF NodesAlone, Last, Entry, Closed
<1>5. \A j \in 1..Len(Fresh.ins) : Fresh.ins[j].op # "LEAVE"
  BY <1>3
<1> DEFINE d == AddLeave(Fresh)
<1>6. Added(Fresh, d, "LEAVE", Closed) /\ d.parsing = FALSE /\ d.consts = Fresh.consts
  BY <1>2, <1>4, LeaveAdded
<1> HIDE DEF d
<1>7. Resting(d)
  BY <1>2, <1>4, <1>5, <1>6, LeftFinished
<1>8. Len(code.consts) + Len(kw.consts) <= IndexMod
  <2>1. Len(code.consts) = 0 /\ Len(kw.consts) = 0
    BY <1>1, <1>6, FreshKw DEF d
  <2> QED
    BY <2>1, IndexModAssumption
<1>9. Sizes
  BY <1>1 DEF Sizes, ExpressionPhases
<1>10. /\ phase \in Phases /\ phase \notin VariablePhases /\ todo \in TodoType
       /\ saved \in SavedType /\ argc \in Nat /\ kwargc \in Nat
  BY <1>1 DEF Phases, VariablePhases, StrictPhases, TodoType, SavedType, Nothing
<1> QED
  BY <1>1, <1>7, <1>8, <1>9, <1>10, FreshKw DEF IInv, d

LEMMA NextKeeps ==
    ASSUME 0 \notin HashSizes, IInv, [Next]_vars
    PROVE  IInv'
<1>1. CASE \/ Literal \/ VariableName \/ BracketName \/ FindVariable \/ DotLookup
           \/ BracketLookup \/ LookupKey \/ EndLookups \/ Range \/ NewIntRange
  BY <1>1, LiteralKeeps, VariableNameKeeps, BracketNameKeeps, FindVariableKeeps,
     DotLookupKeeps, BracketLookupKeeps, LookupKeyKeeps, EndLookupsKeeps, RangeKeeps,
     NewIntRangeKeeps
<1>2. CASE \/ Variable \/ EmptyMarkup \/ EndName \/ FilterName
           \/ PositionalArg \/ EndPositionalArg \/ KeywordArg \/ EndKeywordArg
           \/ EndFilter \/ EndStrictParse
  BY <1>2, VariableKeeps, EmptyMarkupKeeps, EndNameKeeps, FilterNameKeeps,
     PositionalArgKeeps, EndPositionalArgKeeps, KeywordArgKeeps, EndKeywordArgKeeps,
     EndFilterKeeps, EndStrictParseKeeps
<1>3. CASE RescueSyntaxError \/ RescueAndRaise \/ Lax \/ LaxDone \/ LaxFailed
  BY <1>3, RescueSyntaxErrorKeeps, RescueAndRaiseKeeps, LaxKeeps, LaxDoneKeeps,
     LaxFailedKeeps
<1>4. CASE BeginParse \/ RawToken \/ TagToken \/ PopWrite \/ EndParse \/ ParseError
  BY <1>4, BeginParseKeeps, RawTokenKeeps, TagTokenKeeps, PopWriteKeeps, EndParseKeeps,
     ParseErrorKeeps
<1>5. CASE UNCHANGED vars
  <2>1. /\ code' = code /\ kw' = kw /\ phase' = phase /\ todo' = todo /\ saved' = saved
        /\ argc' = argc /\ kwargc' = kwargc
    BY <1>5 DEF vars
  <2> QED
    BY <2>1 DEF IInv, Sizes
<1> QED
  BY <1>1, <1>2, <1>3, <1>4, <1>5 DEF Next

LEMMA Invariance ==
    0 \notin HashSizes => (Spec => []IInv)
<1> SUFFICES ASSUME 0 \notin HashSizes
             PROVE  Spec => []IInv
  OBVIOUS
<1>1. Init => IInv
  BY InitKeeps
<1>2. IInv /\ [Next]_vars => IInv'
  BY NextKeeps
<1> QED
  BY <1>1, <1>2, PTL DEF Spec

-----------------------------------------------------------------------------
(* The theorems.  vm_assembler_add_hash_new leaves max_stack_size alone,    *)
(* which is right if it takes something off the stack: 0 \notin HashSizes   *)
(* says that no compile_evaluate asks for an empty hash.                    *)

(* No size of the parse, the assembler or the rescue goes below zero, and   *)
(* every component keeps to its type, for any number of constants and any   *)
(* nesting.                                                                *)
THEOREM CompileTypes == 0 \notin HashSizes => (Spec => []TypeOK)
<1> SUFFICES ASSUME 0 \notin HashSizes
             PROVE  Spec => []TypeOK
  OBVIOUS
<1>1. IInv => TypeOK
  <2> SUFFICES ASSUME IInv PROVE TypeOK
    OBVIOUS
  <2>1. code \in CodeType /\ kw \in CodeType
    BY CodeFacts, CodeParts
  <2>2. saved \in [ins : Nat, consts : Nat, stack : Nat]
    BY CodeFacts DEF SavedType
  <2> QED
    BY <2>1, <2>2 DEF IInv, TypeOK
<1> QED
  BY <1>1, Invariance, PTL

(* At any point of any parse, for whatever tokens come and wherever a       *)
(* SyntaxError is raised: the VM could run the code compiled so far; it     *)
(* pops only what the code has pushed and stays within max_stack_size.      *)
THEOREM CompiledCodeRuns == 0 \notin HashSizes => (Spec => []CodeRuns)
<1> SUFFICES ASSUME 0 \notin HashSizes
             PROVE  Spec => []CodeRuns
  OBVIOUS
<1>1. IInv => CodeRuns
  BY CodeFacts DEF Sound, Body, CodeRuns
<1> QED
  BY <1>1, Invariance, PTL

(* The stack_size that each function of the assembler adjusts by hand, that *)
(* concat adds up and that the rescue puts back is the depth the VM will    *)
(* have there, and is within max_stack_size.                               *)
THEOREM StackSizesExact == 0 \notin HashSizes => (Spec => []StackSizeExact)
<1> SUFFICES ASSUME 0 \notin HashSizes
             PROVE  Spec => []StackSizeExact
  OBVIOUS
<1>1. IInv => StackSizeExact
  BY CodeFacts DEF Sound, StackSizeExact
<1> QED
  BY <1>1, Invariance, PTL

(* Constants that are shared, relocated by concat or dropped by the rescue: *)
(* every instruction finds the one it was compiled for, and the table       *)
(* answers with the right index, as long as the indices fit their 16 bits.  *)
THEOREM ConstantsStaySound == 0 \notin HashSizes => (Spec => []ConstantsSound)
<1> SUFFICES ASSUME 0 \notin HashSizes
             PROVE  Spec => []ConstantsSound
  OBVIOUS
<1>1. IInv => ConstantsSound
  BY CodeFacts DEF Sound, Body, ConstantsSound
<1> QED
  BY <1>1, Invariance, PTL

(* A body between two parses is complete: one LEAVE, at its end, reached    *)
(* with an empty stack, and every variable closed before it.                *)
THEOREM IdleBodiesFinished == 0 \notin HashSizes => (Spec => []IdleIsFinished)
<1> SUFFICES ASSUME 0 \notin HashSizes
             PROVE  Spec => []IdleIsFinished
  OBVIOUS
<1>1. IInv => IdleIsFinished
  BY DEF IInv, Resting, IdleIsFinished
<1> QED
  BY <1>1, Invariance, PTL

(* Whether the strict parse got to its end or the lax one took over after   *)
(* the rescue, a variable has left one value when its OP_POP_WRITE comes.   *)
THEOREM VariablesLeaveOne == 0 \notin HashSizes => (Spec => []VariableLeavesOne)
<1> SUFFICES ASSUME 0 \notin HashSizes
             PROVE  Spec => []VariableLeavesOne
  OBVIOUS
<1>1. IInv => VariableLeavesOne
  <2> SUFFICES ASSUME IInv, phase = "write"
               PROVE  code.stack = saved.stack + 1 /\ Last(code.trace).open
    BY DEF VariableLeavesOne
  <2>1. code.stack = 1 /\ Opened(code, saved) /\ saved \in SavedType
    BY CodeFacts DEF IInv, Sizes, VariablePhases
  <2>2. saved.stack = 0 /\ Last(code.trace).open = TRUE
    BY <2>1 DEF SavedType, Opened
  <2> QED
    BY <2>1, <2>2
<1> QED
  BY <1>1, Invariance, PTL

(* What LiquidVM assumes of its templates (CodeAssumption): every body that *)
(* is left by its parse is code of the right type that runs from an empty   *)
(* stack to its LEAVE, with its nodes outside of variables.                 *)
THEOREM BodiesAreTemplates ==
    0 \notin HashSizes =>
      (Spec => [](phase = "idle" =>
                    code \in CodeType /\ TraceSound(code) /\ Finished(code, 0) /\ NodesAlone(code)))
<1> SUFFICES ASSUME 0 \notin HashSizes
             PROVE  Spec => [](phase = "idle" =>
                      code \in CodeType /\ TraceSound(code) /\ Finished(code, 0) /\ NodesAlone(code))
  OBVIOUS
<1>1. IInv => (phase = "idle" =>
                 code \in CodeType /\ TraceSound(code) /\ Finished(code, 0) /\ NodesAlone(code))
  <2> SUFFICES ASSUME IInv, phase = "idle"
               PROVE  code \in CodeType /\ TraceSound(code) /\ Finished(code, 0) /\ NodesAlone(code)
    OBVIOUS
  <2>1. Resting(code)
    BY DEF IInv
  <2> QED
    BY <2>1, CodeFacts, CodeParts DEF Resting, Sound, Body
<1> QED
  BY <1>1, Invariance, PTL
=============================================================================
