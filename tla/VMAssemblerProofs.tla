------------------------- MODULE VMAssemblerProofs -------------------------
(***************************************************************************)
(* What the operations of the assembler preserve, for every code, every    *)
(* set of constants and every size.                                        *)
(***************************************************************************)
EXTENDS VMAssembler, TLAPS

LEMMA AppendElements ==
    ASSUME NEW S, NEW s \in Seq(S), NEW x
    PROVE  /\ Len(Append(s, x)) = Len(s) + 1
           /\ Append(s, x)[Len(s) + 1] = x
           /\ \A j \in 1..Len(s) : Append(s, x)[j] = s[j]
OBVIOUS

LEMMA SmallMod ==
    ASSUME NEW a \in Nat, NEW b \in Nat, a < b
    PROVE  a % b = a
OBVIOUS

LEMMA ElementOf ==
    ASSUME NEW S, NEW s \in Seq(S), NEW j \in 1..Len(s)
    PROVE  s[j] \in S
OBVIOUS

(* Everything but stack_size, which an operation changes before it writes.  *)
Body(c) == TraceSound(c) /\ TableSound(c) /\ ConstantsResolve(c)

Sound(c) == c \in CodeType /\ Body(c) /\ LedgerSound(c)

(* d is c with one more instruction.                                       *)
Extended(c, d, i, k) ==
    /\ d.ins = Append(c.ins, i)
    /\ d.trace = Append(c.trace, Step(Last(c.trace), i))
    /\ d.meant = Append(c.meant, k)
    /\ d.max >= c.max
    /\ Len(d.consts) >= Len(c.consts)
    /\ \A j \in 1..Len(c.consts) : d.consts[j] = c.consts[j]

(* An instruction that the VM can run may be added to a sound code.        *)
LEMMA ExtendSound ==
    ASSUME NEW c \in CodeType, NEW d \in CodeType, NEW i \in Instruction,
           NEW k \in Key \cup {NoKey}, Body(c), Extended(c, d, i, k), TableSound(d),
           Runs(Last(c.trace), i, d.max),
           i.op \in ConstantOps => /\ i.const \in 0..(Len(d.consts) - 1)
                                   /\ d.consts[i.const + 1] = k
    PROVE  Body(d) /\ Last(d.trace) = Step(Last(c.trace), i)
<1> DEFINE n == Len(c.ins)
<1>0. /\ n \in Nat /\ Len(c.trace) = n + 1 /\ Len(c.meant) = n
      /\ c.ins \in Seq(Instruction) /\ c.meant \in Seq(Key \cup {NoKey})
      /\ c.trace \in Seq([depth : Nat, open : BOOLEAN])
  BY DEF Body, TraceSound, ConstantsResolve, CodeType
<1>1. /\ Len(d.ins) = n + 1 /\ Len(d.trace) = n + 2 /\ Len(d.meant) = n + 1
      /\ d.ins[n + 1] = i /\ d.meant[n + 1] = k
      /\ \A j \in 1..n : d.ins[j] = c.ins[j] /\ d.meant[j] = c.meant[j]
      /\ \A j \in 1..n + 1 : d.trace[j] = c.trace[j]
      /\ d.trace[n + 2] = Step(Last(c.trace), i)
      /\ Last(c.trace) = c.trace[n + 1]
  <2>1. /\ Len(d.ins) = n + 1 /\ d.ins[n + 1] = i
        /\ \A j \in 1..n : d.ins[j] = c.ins[j]
    BY <1>0, AppendElements DEF Extended
  <2>2. /\ Len(d.meant) = n + 1 /\ d.meant[n + 1] = k
        /\ \A j \in 1..n : d.meant[j] = c.meant[j]
    BY <1>0, AppendElements DEF Extended
  <2>3. /\ Len(d.trace) = n + 2 /\ d.trace[n + 2] = Step(Last(c.trace), i)
        /\ \A j \in 1..n + 1 : d.trace[j] = c.trace[j]
    <3> DEFINE x == Step(Last(c.trace), i)
    <3>1. d.trace = Append(c.trace, x)
      BY DEF Extended
    <3> HIDE DEF x
    <3>2. /\ Len(d.trace) = Len(c.trace) + 1 /\ d.trace[Len(c.trace) + 1] = x
          /\ \A j \in 1..Len(c.trace) : d.trace[j] = c.trace[j]
      BY <1>0, <3>1, AppendElements
    <3>3. QED BY <1>0, <3>2 DEF x
  <2>4. QED BY <1>0, <2>1, <2>2, <2>3 DEF Last
<1> HIDE DEF n
<1>2. Last(d.trace) = Step(Last(c.trace), i)
  BY <1>0, <1>1 DEF Last
<1>3. TraceSound(d)
  <2>1. d.trace[1] = Entry
    BY <1>0, <1>1 DEF Body, TraceSound
  <2>2. ASSUME NEW j \in 1..Len(d.ins)
        PROVE  d.trace[j + 1] = Step(d.trace[j], d.ins[j]) /\ Runs(d.trace[j], d.ins[j], d.max)
    <3>1. CASE j = n + 1
      BY <1>0, <1>1, <3>1
    <3>2. CASE j \in 1..n
      <4>1. c.trace[j + 1] = Step(c.trace[j], c.ins[j]) /\ Runs(c.trace[j], c.ins[j], c.max)
        BY <3>2 DEF Body, TraceSound, n
      <4>2. j + 1 \in 1..n + 1 /\ j \in 1..n + 1
        BY <1>0, <3>2
      <4>3. c.trace[j].depth \in Nat /\ Pops(c.ins[j]) \in Nat /\ Pushes(c.ins[j]) \in Nat
        <5>1. c.trace[j] \in [depth : Nat, open : BOOLEAN] /\ c.ins[j] \in Instruction
          <6>1. j \in 1..Len(c.trace) /\ j \in 1..Len(c.ins)
            BY <1>0, <3>2, <4>2 DEF n
          <6>2. QED BY <1>0, <6>1, ElementOf
        <5>2. QED BY <5>1 DEF Pops, Pushes, Instruction
      <4>4. Runs(c.trace[j], c.ins[j], d.max)
        <5>1. c.max \in Nat /\ d.max \in Nat /\ d.max >= c.max
          BY DEF Extended, CodeType
        <5>2. QED BY <4>1, <4>3, <5>1 DEF Runs
      <4>5. QED BY <4>1, <4>2, <4>4, <1>1, <3>2
    <3>3. QED BY <3>1, <3>2, <1>0, <1>1
  <2>3. QED BY <2>1, <2>2, <1>0, <1>1 DEF TraceSound
<1>4. ConstantsResolve(d)
  <2>1. ASSUME NEW j \in 1..Len(d.ins), d.ins[j].op \in ConstantOps
        PROVE  /\ d.ins[j].const \in 0..(Len(d.consts) - 1)
               /\ d.consts[d.ins[j].const + 1] = d.meant[j]
    <3>1. CASE j = n + 1
      BY <1>0, <1>1, <2>1, <3>1
    <3>2. CASE j \in 1..n
      <4>1. /\ c.ins[j].const \in 0..(Len(c.consts) - 1)
            /\ c.consts[c.ins[j].const + 1] = c.meant[j]
        BY <1>1, <2>1, <3>2 DEF Body, ConstantsResolve, n
      <4>2. /\ Len(c.consts) \in Nat /\ Len(d.consts) \in Nat
            /\ Len(d.consts) >= Len(c.consts)
            /\ \A m \in 1..Len(c.consts) : d.consts[m] = c.consts[m]
        <5>1. c.consts \in Seq(Key) /\ d.consts \in Seq(Key)
          BY DEF CodeType
        <5>2. QED BY <5>1 DEF Extended
      <4> DEFINE m == c.ins[j].const
      <4>3. /\ m \in 0..(Len(d.consts) - 1) /\ m + 1 \in 1..Len(c.consts)
            /\ c.consts[m + 1] = c.meant[j]
        BY <4>1, <4>2
      <4>4. d.consts[m + 1] = c.meant[j]
        BY <4>2, <4>3
      <4>5. QED BY <4>3, <4>4, <1>1, <3>2
    <3>3. QED BY <3>1, <3>2, <1>0, <1>1
  <2>2. QED BY <2>1, <1>0, <1>1 DEF ConstantsResolve
<1>5. QED BY <1>2, <1>3, <1>4 DEF Body

-----------------------------------------------------------------------------
(* The instructions of an expression: all but nodes, OP_POP_WRITE and LEAVE *)
ExpressionOps ==
    PushOps \cup UnaryOps \cup BinaryOps \cup FilterOps \cup {"HASH_NEW"}

(* d is c with some more instructions of an expression, which leave `gain'  *)
(* more values on the stack.                                               *)
Grown(c, d, gain) ==
    /\ Sound(d)
    /\ d.stack = c.stack + gain /\ d.prot = c.prot /\ d.parsing = c.parsing
    /\ Len(d.ins) >= Len(c.ins) /\ Len(d.consts) >= Len(c.consts)
    /\ \A j \in Len(c.ins) + 1..Len(d.ins) + 1 : d.trace[j].open = Last(c.trace).open
    /\ \A j \in 1..Len(c.ins) : d.ins[j] = c.ins[j]
    /\ \A j \in 1..Len(c.ins) + 1 : d.trace[j] = c.trace[j]
    /\ \A j \in Len(c.ins) + 1..Len(d.ins) : d.ins[j].op \in ExpressionOps

(* vm_assembler_write_ruby_constant returns the index of its constant, and *)
(* moves no other one, as long as 16 bits are enough for the index.        *)
LEMMA WriteConstantSound ==
    ASSUME NEW c \in CodeType, NEW k \in Key, TableSound(c), Len(c.consts) < IndexMod,
           NEW d, d = WriteConstant(c, k), NEW x, x = ConstantIndex(c, k)
    PROVE  /\ d \in CodeType /\ TableSound(d)
           /\ d.ins = c.ins /\ d.trace = c.trace /\ d.meant = c.meant
           /\ d.max = c.max /\ d.stack = c.stack /\ d.prot = c.prot
           /\ d.parsing = c.parsing
           /\ Len(d.consts) \in Len(c.consts)..Len(c.consts) + 1
           /\ \A j \in 1..Len(c.consts) : d.consts[j] = c.consts[j]
           /\ x \in 0..(Len(d.consts) - 1) /\ d.consts[x + 1] = k
<1>0. c.consts \in Seq(Key) /\ Len(c.consts) \in Nat /\ c.table \in [Key -> Int]
  BY DEF CodeType
<1>1. CASE c.table[k] # NoIndex
  <2>1. d = c /\ x = c.table[k]
    BY <1>1 DEF WriteConstant, ConstantIndex
  <2>2. x \in 0..(Len(c.consts) - 1) /\ c.consts[x + 1] = k
    BY <1>1, <2>1 DEF TableSound
  <2>3. Len(c.consts) \in Len(c.consts)..Len(c.consts) + 1
    BY <1>0
  <2>4. /\ d \in CodeType /\ TableSound(d)
        /\ Len(d.consts) \in Len(c.consts)..Len(c.consts) + 1
        /\ x \in 0..(Len(d.consts) - 1) /\ d.consts[x + 1] = k
    BY <2>1, <2>2, <2>3
  <2>5. QED BY <2>1, <2>4
<1>2. CASE c.table[k] = NoIndex
  <2>1. x = Len(c.consts)
    BY <1>0, <1>2, IndexModAssumption, SmallMod DEF ConstantIndex
  <2>2. d = [c EXCEPT !.table[k] = x, !.consts = Append(c.consts, k)]
    BY <1>2 DEF WriteConstant
  <2>3. /\ d.ins = c.ins /\ d.trace = c.trace /\ d.meant = c.meant
        /\ d.max = c.max /\ d.stack = c.stack /\ d.prot = c.prot
        /\ d.parsing = c.parsing
        /\ d.table = [c.table EXCEPT ![k] = x] /\ d.consts = Append(c.consts, k)
    BY <2>2 DEF CodeType
  <2>4. /\ Len(d.consts) = Len(c.consts) + 1 /\ d.consts[x + 1] = k
        /\ \A j \in 1..Len(c.consts) : d.consts[j] = c.consts[j]
    BY <1>0, <2>1, <2>3, AppendElements
  <2>5. d \in CodeType
    <3>1. [c.table EXCEPT ![k] = x] \in [Key -> Int] /\ Append(c.consts, k) \in Seq(Key)
      BY <1>0, <2>1
    <3>2. d = [c EXCEPT !.table = [c.table EXCEPT ![k] = x], !.consts = Append(c.consts, k)]
      BY <2>2
    <3>3. QED BY <3>1, <3>2 DEF CodeType
  <2>6. TableSound(d)
    <3>1. ASSUME NEW l \in Key, d.table[l] # NoIndex
          PROVE  d.table[l] \in 0..(Len(d.consts) - 1) /\ d.consts[d.table[l] + 1] = l
      <4>1. CASE l = k
        BY <1>0, <2>1, <2>3, <2>4, <4>1
      <4>2. CASE l # k
        <5>1. d.table[l] = c.table[l]
          BY <1>0, <2>3, <4>2
        <5>2. d.table[l] \in 0..(Len(c.consts) - 1) /\ c.consts[d.table[l] + 1] = l
          BY <3>1, <5>1 DEF TableSound
        <5>3. d.table[l] + 1 \in 1..Len(c.consts) /\ d.table[l] \in 0..(Len(d.consts) - 1)
          BY <1>0, <2>4, <5>2
        <5>4. QED BY <2>4, <5>2, <5>3
      <4>3. QED BY <4>1, <4>2
    <3>2. QED BY <3>1 DEF TableSound
  <2>7. QED BY <1>0, <2>1, <2>3, <2>4, <2>5, <2>6
<1>3. QED BY <1>1, <1>2

LEMMA SituationType ==
    ASSUME NEW c \in CodeType, TraceSound(c)
    PROVE  Last(c.trace) \in [depth : Nat, open : BOOLEAN]
<1>1. c.trace \in Seq([depth : Nat, open : BOOLEAN]) /\ Len(c.trace) \in 1..Len(c.trace)
  BY DEF CodeType, TraceSound
<1>2. QED BY <1>1, ElementOf DEF Last

LEMMA PopsPushes ==
    ASSUME NEW i \in Instruction
    PROVE  Pops(i) \in Nat /\ Pushes(i) \in Nat
BY DEF Pops, Pushes, Instruction

(* b is c just before it writes instruction i: stack_size and              *)
(* max_stack_size are up to date and the constant is in.                   *)
Prepared(c, b, i) ==
    /\ b \in CodeType /\ TableSound(b)
    /\ b.ins = c.ins /\ b.trace = c.trace /\ b.meant = c.meant
    /\ b.prot = c.prot /\ b.parsing = c.parsing
    /\ b.stack = c.stack - Pops(i) + Pushes(i) /\ c.max <= b.max
    /\ Len(c.consts) <= Len(b.consts)
    /\ \A j \in 1..Len(c.consts) : b.consts[j] = c.consts[j]

(* and the VM can run i there, and find its constant k.                     *)
Writable(c, b, i, k) ==
    /\ Sound(c) /\ i \in Instruction /\ k \in Key \cup {NoKey}
    /\ Prepared(c, b, i) /\ Runs(Last(c.trace), i, b.max)
    /\ i.op \in ConstantOps => /\ i.const \in 0..(Len(b.consts) - 1)
                               /\ b.consts[i.const + 1] = k

(* d is c with instruction i at its end, and the constants of b.           *)
Written(c, b, i, d) ==
    /\ Sound(d) /\ Last(d.trace) = Step(Last(c.trace), i)
    /\ d.stack = b.stack /\ d.prot = c.prot /\ d.parsing = c.parsing
    /\ d.consts = b.consts
    /\ Len(d.ins) = Len(c.ins) + 1 /\ d.ins[Len(c.ins) + 1] = i
    /\ \A j \in 1..Len(c.ins) : d.ins[j] = c.ins[j]
    /\ \A j \in 1..Len(c.ins) + 1 : d.trace[j] = c.trace[j]

LEMMA WriteSound ==
    ASSUME NEW c, NEW b, NEW i, NEW k, Writable(c, b, i, k)
    PROVE  Written(c, b, i, Write(b, i, k))
<1> DEFINE d == Write(b, i, k)
<1> /\ Sound(c) /\ i \in Instruction /\ k \in Key \cup {NoKey}
    /\ Prepared(c, b, i) /\ Runs(Last(c.trace), i, b.max)
    /\ i.op \in ConstantOps => /\ i.const \in 0..(Len(b.consts) - 1)
                               /\ b.consts[i.const + 1] = k
  BY DEF Writable
<1>0. /\ c \in CodeType /\ b \in CodeType /\ Body(c)
      /\ c.ins \in Seq(Instruction) /\ c.trace \in Seq([depth : Nat, open : BOOLEAN])
      /\ c.meant \in Seq(Key \cup {NoKey}) /\ Len(c.trace) = Len(c.ins) + 1
      /\ c.stack \in Nat /\ b.stack \in Nat /\ b.max \in Nat
      /\ c.stack = Last(c.trace).depth
  BY DEF Sound, Prepared, CodeType, Body, TraceSound, LedgerSound
<1> DEFINE t == Step(Last(c.trace), i)
<1>1. t \in [depth : Nat, open : BOOLEAN] /\ t.depth = b.stack /\ b.stack <= b.max
  <2>1. Last(c.trace) \in [depth : Nat, open : BOOLEAN] /\ Pops(i) \in Nat /\ Pushes(i) \in Nat
    BY <1>0, SituationType, PopsPushes DEF Body
  <2>2. Pops(i) <= Last(c.trace).depth
        /\ Last(c.trace).depth - Pops(i) + Pushes(i) <= b.max
    BY DEF Runs
  <2>3. QED BY <1>0, <2>1, <2>2 DEF Step, Prepared
<1> HIDE DEF t
<1>2. /\ d.ins = Append(c.ins, i) /\ d.trace = Append(c.trace, t)
      /\ d.meant = Append(c.meant, k)
      /\ d.max = b.max /\ d.stack = b.stack /\ d.prot = b.prot
      /\ d.parsing = b.parsing /\ d.table = b.table /\ d.consts = b.consts
  BY <1>0 DEF Write, Prepared, CodeType, t
<1>11. d = [b EXCEPT !.ins = Append(c.ins, i), !.trace = Append(c.trace, t),
                     !.meant = Append(c.meant, k)]
  BY DEF Write, Prepared, t
<1> HIDE DEF d
<1>3. d \in CodeType
  <2>1. /\ Append(c.ins, i) \in Seq(Instruction) /\ Append(c.meant, k) \in Seq(Key \cup {NoKey})
        /\ Append(c.trace, t) \in Seq([depth : Nat, open : BOOLEAN])
    BY <1>0, <1>1
  <2>2. QED BY <1>0, <2>1, <1>11 DEF CodeType
<1>4. TableSound(d)
  BY <1>2 DEF TableSound, Prepared
<1>5. Extended(c, d, i, k)
  <2>1. d.max \in Nat /\ c.max \in Nat /\ Len(d.consts) \in Nat /\ Len(c.consts) \in Nat
    <3>1. c.consts \in Seq(Key) /\ d.consts \in Seq(Key) /\ d.max \in Nat /\ c.max \in Nat
      BY <1>0, <1>3 DEF CodeType
    <3>2. QED BY <3>1
  <2>2. /\ c.max <= b.max /\ Len(c.consts) <= Len(b.consts)
        /\ \A j \in 1..Len(c.consts) : b.consts[j] = c.consts[j]
    BY DEF Prepared
  <2>3. d.max >= c.max /\ Len(d.consts) >= Len(c.consts)
        /\ \A j \in 1..Len(c.consts) : d.consts[j] = c.consts[j]
    BY <1>2, <2>1, <2>2
  <2>4. QED BY <1>2, <2>3 DEF Extended, t
<1>6. Body(d) /\ Last(d.trace) = t
  BY <1>0, <1>2, <1>3, <1>4, <1>5, ExtendSound DEF t
<1>7. LedgerSound(d)
  BY <1>1, <1>2, <1>6 DEF LedgerSound
<1>8. /\ Len(d.ins) = Len(c.ins) + 1 /\ d.ins[Len(c.ins) + 1] = i
      /\ \A j \in 1..Len(c.ins) : d.ins[j] = c.ins[j]
      /\ \A j \in 1..Len(c.ins) + 1 : d.trace[j] = c.trace[j]
  BY <1>0, <1>2, AppendElements
<1>9. Written(c, b, i, d)
  BY <1>2, <1>3, <1>6, <1>7, <1>8 DEF Sound, Prepared, Written, t
<1>10. QED BY <1>9 DEF d

LEMMA WriteGrown ==
    ASSUME NEW c, NEW b, NEW i, NEW k, Writable(c, b, i, k), i.op \in ExpressionOps
    PROVE  /\ Grown(c, Write(b, i, k), Pushes(i) - Pops(i))
           /\ Write(b, i, k).consts = b.consts
<1> DEFINE d == Write(b, i, k)
           gain == Pushes(i) - Pops(i)
<1> Sound(c) /\ i \in Instruction /\ Prepared(c, b, i)
  BY DEF Writable
<1>0. Written(c, b, i, d)
  BY WriteSound
<1> HIDE DEF d
<1>1. /\ Sound(d) /\ Last(d.trace) = Step(Last(c.trace), i)
      /\ d.stack = b.stack /\ d.prot = c.prot /\ d.parsing = c.parsing
      /\ d.consts = b.consts
      /\ Len(d.ins) = Len(c.ins) + 1 /\ d.ins[Len(c.ins) + 1] = i
      /\ \A j \in 1..Len(c.ins) : d.ins[j] = c.ins[j]
      /\ \A j \in 1..Len(c.ins) + 1 : d.trace[j] = c.trace[j]
  BY <1>0 DEF Written
<1>2. Last(d.trace).open = Last(c.trace).open
  <2>1. i.op # "RENDER_VARIABLE_RESCUE" /\ i.op # "POP_WRITE"
    BY DEF ExpressionOps, PushOps, UnaryOps, ScratchOps, BinaryOps, FilterOps
  <2>2. Last(c.trace) \in [depth : Nat, open : BOOLEAN]
    BY SituationType DEF Sound, Body
  <2>3. Last(c.trace).open \in BOOLEAN
    BY <2>2
  <2>4. Step(Last(c.trace), i).open = Last(c.trace).open
    BY <2>1, <2>3 DEF Step
  <2>5. QED BY <1>1, <2>4
<1>3. /\ Len(c.ins) \in Nat /\ Len(c.consts) \in Nat /\ Len(d.consts) \in Nat
      /\ c.stack \in Nat /\ Pops(i) \in Nat /\ Pushes(i) \in Nat
  <2>1. c \in CodeType /\ d \in CodeType
    BY <1>1 DEF Sound
  <2>2. QED BY <2>1, PopsPushes DEF CodeType
<1>4. \A j \in Len(c.ins) + 1..Len(d.ins) : d.ins[j].op \in ExpressionOps
  BY <1>1, <1>3
<1>5. d.stack = c.stack + gain /\ Len(d.consts) >= Len(c.consts)
  BY <1>1, <1>3 DEF Prepared
<1>6. Len(d.ins) >= Len(c.ins)
  BY <1>1, <1>3
<1> HIDE DEF gain
<1>9. ASSUME NEW j \in Len(c.ins) + 1..Len(d.ins) + 1
      PROVE  d.trace[j].open = Last(c.trace).open
  <2>1. /\ Last(c.trace) = c.trace[Len(c.ins) + 1]
        /\ Last(d.trace) = d.trace[Len(c.ins) + 2]
    <3>1. Len(c.trace) = Len(c.ins) + 1 /\ Len(d.trace) = Len(c.ins) + 1 + 1
      BY <1>1 DEF Sound, Body, TraceSound
    <3> QED
      BY <1>3, <3>1 DEF Last
  <2>2. j = Len(c.ins) + 1 \/ j = Len(c.ins) + 2
    <3>1. Len(d.ins) + 1 = Len(c.ins) + 2 /\ Len(c.ins) \in Nat
      BY <1>1, <1>3
    <3> QED
      BY <3>1
  <2>3. d.trace[Len(c.ins) + 1] = c.trace[Len(c.ins) + 1]
    BY <1>1, <1>3, SMTT(20)
  <2> QED
    BY <1>2, <2>1, <2>2, <2>3
<1>7. Grown(c, d, gain)
  BY <1>1, <1>9, <1>4, <1>5, <1>6 DEF Grown
<1>8. QED BY <1>1, <1>7 DEF d, gain

-----------------------------------------------------------------------------
(* The two ways an instruction is written: without a constant, and by      *)
(* vm_assembler_add_op_with_constant.                                      *)

(* c with its stack_size and max_stack_size adjusted                       *)
Sized(c, s, m) == [c EXCEPT !.stack = s, !.max = m]

LEMMA PlainInstruction ==
    ASSUME NEW op \in Ops, NEW n \in Nat
    PROVE  Plain(op, n) \in Instruction /\ Plain(op, n).op = op /\ Plain(op, n).n = n
BY DEF Plain, Instruction

LEMMA PlainPrepared ==
    ASSUME NEW c, Sound(c), NEW i \in Instruction, NEW s \in Nat, NEW m \in Nat,
           s = c.stack - Pops(i) + Pushes(i), c.max <= m
    PROVE  /\ Prepared(c, Sized(c, s, m), i) /\ Sized(c, s, m).max = m
           /\ Sized(c, s, m).stack = s /\ Sized(c, s, m).consts = c.consts
<1> DEFINE b == Sized(c, s, m)
<1>1. c \in CodeType /\ TableSound(c)
  BY DEF Sound, Body
<1>2. /\ b \in CodeType /\ b.ins = c.ins /\ b.trace = c.trace /\ b.meant = c.meant
      /\ b.prot = c.prot /\ b.parsing = c.parsing /\ b.stack = s /\ b.max = m
      /\ b.consts = c.consts /\ b.table = c.table
  BY <1>1 DEF CodeType, Sized
<1> HIDE DEF b
<1>3. TableSound(b)
  BY <1>1, <1>2 DEF TableSound
<1>4. Len(c.consts) <= Len(b.consts)
      /\ \A j \in 1..Len(c.consts) : b.consts[j] = c.consts[j]
  <2>1. c.consts \in Seq(Key)
    BY <1>1 DEF CodeType
  <2>2. Len(c.consts) \in Nat
    BY <2>1
  <2>3. QED BY <1>2, <2>2
<1>5. Prepared(c, b, i)
  BY <1>2, <1>3, <1>4 DEF Prepared
<1>6. QED BY <1>2, <1>5 DEF b

LEMMA ConstantPrepared ==
    ASSUME NEW c, Sound(c), NEW i \in Instruction, NEW s \in Nat, NEW m \in Nat,
           s = c.stack - Pops(i) + Pushes(i), c.max <= m,
           NEW k \in Key, Len(c.consts) < IndexMod,
           NEW e, e = Sized(c, s, m),
           NEW b, b = WriteConstant(e, k), NEW x, x = ConstantIndex(e, k)
    PROVE  /\ Prepared(c, b, i) /\ b.max = m /\ b.stack = s
           /\ Len(b.consts) <= Len(c.consts) + 1
           /\ x \in 0..(Len(b.consts) - 1) /\ b.consts[x + 1] = k
<1>1. Prepared(c, e, i) /\ e.max = m /\ e.stack = s /\ e.consts = c.consts
  BY PlainPrepared
<1> e \in CodeType /\ TableSound(e) /\ Len(e.consts) < IndexMod
  BY <1>1 DEF Prepared
<1>2. /\ b \in CodeType /\ TableSound(b)
      /\ b.ins = e.ins /\ b.trace = e.trace /\ b.meant = e.meant
      /\ b.max = e.max /\ b.stack = e.stack /\ b.prot = e.prot
      /\ b.parsing = e.parsing
      /\ Len(b.consts) \in Len(e.consts)..Len(e.consts) + 1
      /\ \A j \in 1..Len(e.consts) : b.consts[j] = e.consts[j]
      /\ x \in 0..(Len(b.consts) - 1) /\ b.consts[x + 1] = k
  BY WriteConstantSound, SMTT(20)
<1>3. Len(c.consts) <= Len(b.consts) /\ Len(b.consts) <= Len(c.consts) + 1
  <2>1. c.consts \in Seq(Key) /\ b.consts \in Seq(Key)
    BY <1>2 DEF Sound, CodeType
  <2>2. Len(c.consts) \in Nat /\ Len(b.consts) \in Nat
    BY <2>1
  <2>3. QED BY <1>1, <1>2, <2>2
<1>4. QED BY <1>1, <1>2, <1>3 DEF Prepared

(* An instruction of an expression, without and with a constant.           *)
LEMMA PlainGrown ==
    ASSUME NEW c, Sound(c), NEW op \in ExpressionOps \ ConstantOps, NEW n \in Nat,
           NEW s \in Nat, NEW m \in Nat, c.max <= m,
           s = c.stack - Pops(Plain(op, n)) + Pushes(Plain(op, n)),
           Runs(Last(c.trace), Plain(op, n), m)
    PROVE  LET d == Write(Sized(c, s, m), Plain(op, n), NoKey)
           IN  /\ Grown(c, d, Pushes(Plain(op, n)) - Pops(Plain(op, n)))
               /\ d.consts = c.consts
<1> DEFINE i == Plain(op, n)
           b == Sized(c, s, m)
<1>1. i \in Instruction /\ i.op \in ExpressionOps /\ i.op \notin ConstantOps
  <2>1. op \in Ops
    BY DEF ExpressionOps, Ops
  <2>2. QED BY <2>1, PlainInstruction
<1>2. s = c.stack - Pops(i) + Pushes(i) /\ Runs(Last(c.trace), i, m)
  OBVIOUS
<1> HIDE DEF i
<1>3. Prepared(c, b, i) /\ b.max = m /\ b.consts = c.consts
  BY <1>1, <1>2, PlainPrepared
<1> HIDE DEF b
<1>4. Writable(c, b, i, NoKey)
  BY <1>1, <1>2, <1>3 DEF Writable
<1>5. /\ Grown(c, Write(b, i, NoKey), Pushes(i) - Pops(i))
      /\ Write(b, i, NoKey).consts = b.consts
  BY <1>1, <1>4, WriteGrown
<1>6. QED BY <1>3, <1>5 DEF i, b

LEMMA ConstantGrown ==
    ASSUME NEW c, Sound(c), NEW op \in ExpressionOps \cap ConstantOps, NEW n \in Nat,
           NEW s \in Nat, NEW m \in Nat, c.max <= m,
           s = c.stack - Pops(Plain(op, n)) + Pushes(Plain(op, n)),
           Runs(Last(c.trace), Plain(op, n), m),
           NEW k \in Key, Len(c.consts) < IndexMod
    PROVE  LET d == AddOpWithConstant(Sized(c, s, m), k, op, n)
           IN  /\ Grown(c, d, Pushes(Plain(op, n)) - Pops(Plain(op, n)))
               /\ Len(d.consts) <= Len(c.consts) + 1
<1> DEFINE e == Sized(c, s, m)
           x == ConstantIndex(e, k)
           b == WriteConstant(e, k)
           i == [op |-> op, const |-> x, n |-> n]
           p == Plain(op, n)
<1>1. p \in Instruction /\ p.op = op /\ p.n = n
  <2>1. op \in Ops
    BY DEF ExpressionOps, Ops
  <2>2. QED BY <2>1, PlainInstruction
<1>2. /\ Prepared(c, b, p) /\ b.max = m /\ b.stack = s
      /\ Len(b.consts) <= Len(c.consts) + 1
      /\ x \in 0..(Len(b.consts) - 1) /\ b.consts[x + 1] = k
  BY <1>1, ConstantPrepared, SMTT(20)
<1>3. i.op = p.op /\ i.n = p.n /\ i.const = x
  BY <1>1
<1>5. x \in Nat
  <2>1. b.consts \in Seq(Key)
    BY <1>2 DEF Prepared, CodeType
  <2>2. Len(b.consts) \in Nat
    BY <2>1
  <2>3. QED BY <1>2, <2>2
<1>6. i \in Instruction
  BY <1>1, <1>5 DEF Instruction
<1> HIDE DEF e, x, b, i, p
<1>7. Pops(i) = Pops(p) /\ Pushes(i) = Pushes(p)
  BY <1>3 DEF Pops, Pushes
<1>8. Runs(Last(c.trace), i, b.max)
  BY <1>2, <1>3, <1>7 DEF Runs, p
<1>9. Prepared(c, b, i)
  BY <1>2, <1>7 DEF Prepared
<1>10. i.op \in ExpressionOps
  BY <1>1, <1>3
<1>11. i.const \in 0..(Len(b.consts) - 1) /\ b.consts[i.const + 1] = k
  BY <1>2, <1>3
<1>12. Writable(c, b, i, k)
  BY <1>6, <1>8, <1>9, <1>11 DEF Writable
<1>13. /\ Grown(c, Write(b, i, k), Pushes(i) - Pops(i))
       /\ Write(b, i, k).consts = b.consts
  BY <1>10, <1>12, WriteGrown
<1>14. AddOpWithConstant(e, k, op, n) = Write(b, i, k)
  BY DEF AddOpWithConstant, b, i, x
<1>15. QED BY <1>2, <1>7, <1>13, <1>14 DEF e, p

-----------------------------------------------------------------------------
(* Sequences of instructions                                               *)

LEMMA JoinElements ==
    ASSUME NEW S, NEW s \in Seq(S), NEW t \in Seq(S)
    PROVE  /\ s \o t \in Seq(S) /\ Len(s \o t) = Len(s) + Len(t)
           /\ \A i \in 1..Len(s) : (s \o t)[i] = s[i]
           /\ \A i \in 1..Len(t) : (s \o t)[Len(s) + i] = t[i]
OBVIOUS

(* The same, where the lengths have names.                                 *)
Parts(S, s, t, n, m) == s \in Seq(S) /\ t \in Seq(S) /\ Len(s) = n /\ Len(t) = m

PartsJoined(S, s, t, n, m, d) ==
    /\ d \in Seq(S) /\ Len(d) = n + m
    /\ \A i \in 1..n : d[i] = s[i]
    /\ \A i \in 1..m : d[n + i] = t[i]

LEMMA JoinParts ==
    ASSUME NEW S, NEW s, NEW t, NEW n, NEW m, Parts(S, s, t, n, m)
    PROVE  PartsJoined(S, s, t, n, m, s \o t)
<1>1. s \in Seq(S) /\ t \in Seq(S) /\ Len(s) = n /\ Len(t) = m
  BY DEF Parts
<1>2. /\ s \o t \in Seq(S) /\ Len(s \o t) = n + m
      /\ \A i \in 1..n : (s \o t)[i] = s[i]
      /\ \A i \in 1..m : (s \o t)[n + i] = t[i]
  BY <1>1
<1> DEFINE d == s \o t
<1> HIDE DEF d
<1> QED
  BY <1>2 DEF PartsJoined, d

LEMMA PrefixElements ==
    ASSUME NEW S, NEW s \in Seq(S), NEW n \in 0..Len(s)
    PROVE  /\ SubSeq(s, 1, n) \in Seq(S) /\ Len(SubSeq(s, 1, n)) = n
           /\ \A i \in 1..n : SubSeq(s, 1, n)[i] = s[i]
<1>1. n \in Nat /\ Len(s) \in Nat /\ \A i \in 1..n : s[i] \in S
  OBVIOUS
<1>2. Len(SubSeq(s, 1, n)) = n /\ \A i \in 1..n : SubSeq(s, 1, n)[i] = s[i]
  BY <1>1
<1>3. SubSeq(s, 1, n) \in Seq(S)
  BY <1>1
<1> QED
  BY <1>2, <1>3

LEMMA MadeElements ==
    ASSUME NEW S, NEW n \in Nat, NEW f(_), \A j \in 1..n : f(j) \in S
    PROVE  /\ [j \in 1..n |-> f(j)] \in Seq(S) /\ Len([j \in 1..n |-> f(j)]) = n
           /\ \A j \in 1..n : [i \in 1..n |-> f(i)][j] = f(j)
OBVIOUS

Situation == [depth : Nat, open : BOOLEAN]

LEMMA CodeParts ==
    ASSUME NEW c, Sound(c)
    PROVE  /\ c \in CodeType
           /\ c.ins \in Seq(Instruction) /\ c.trace \in Seq(Situation)
           /\ c.meant \in Seq(Key \cup {NoKey}) /\ c.consts \in Seq(Key)
           /\ c.table \in [Key -> Int] /\ c.max \in Nat /\ c.stack \in Nat
           /\ c.prot \in Nat /\ c.parsing \in BOOLEAN
           /\ Len(c.ins) \in Nat /\ Len(c.consts) \in Nat
           /\ Len(c.trace) = Len(c.ins) + 1 /\ Len(c.meant) = Len(c.ins)
           /\ Last(c.trace) = c.trace[Len(c.ins) + 1] /\ Last(c.trace) \in Situation
           /\ c.stack = Last(c.trace).depth /\ c.stack <= c.max
           /\ c.trace[1] = Entry
<1>1. c \in CodeType /\ TraceSound(c) /\ ConstantsResolve(c) /\ LedgerSound(c)
  BY DEF Sound, Body
<1>2. /\ c.ins \in Seq(Instruction) /\ c.trace \in Seq(Situation)
      /\ c.meant \in Seq(Key \cup {NoKey}) /\ c.consts \in Seq(Key)
      /\ c.table \in [Key -> Int] /\ c.max \in Nat /\ c.stack \in Nat
      /\ c.prot \in Nat /\ c.parsing \in BOOLEAN
  BY <1>1 DEF CodeType, Situation
<1>3. Len(c.ins) \in Nat /\ Len(c.consts) \in Nat
  BY <1>2
<1>4. Len(c.trace) = Len(c.ins) + 1 /\ Len(c.meant) = Len(c.ins) /\ c.trace[1] = Entry
  BY <1>1 DEF TraceSound, ConstantsResolve
<1>5. Last(c.trace) \in Situation
  BY <1>1, SituationType DEF Situation
<1>6. c.stack = Last(c.trace).depth /\ c.stack <= c.max
  BY <1>1 DEF LedgerSound
<1>7. Last(c.trace) = c.trace[Len(c.ins) + 1]
  BY <1>4 DEF Last
<1> QED
  BY <1>1, <1>2, <1>3, <1>4, <1>5, <1>6, <1>7

(* What growing preserves adds up.                                         *)
LEMMA GrownTwice ==
    ASSUME NEW c, NEW d, NEW e, NEW g \in Int, NEW h \in Int,
           Sound(c), Grown(c, d, g), Grown(d, e, h)
    PROVE  Grown(c, e, g + h)
<1>1. Sound(d) /\ Sound(e)
  BY DEF Grown
<1>2. /\ Len(c.ins) \in Nat /\ Len(d.ins) \in Nat /\ Len(e.ins) \in Nat
      /\ Len(c.consts) \in Nat /\ Len(d.consts) \in Nat /\ Len(e.consts) \in Nat
      /\ c.stack \in Nat /\ d.stack \in Nat /\ e.stack \in Nat
      /\ Last(d.trace) = d.trace[Len(d.ins) + 1]
  BY <1>1, CodeParts
<1>3. /\ Len(d.ins) >= Len(c.ins) /\ Len(d.consts) >= Len(c.consts)
      /\ Len(e.ins) >= Len(d.ins) /\ Len(e.consts) >= Len(d.consts)
      /\ d.stack = c.stack + g /\ e.stack = d.stack + h
  BY DEF Grown
<1>10. e.prot = c.prot /\ e.parsing = c.parsing
  BY DEF Grown
<1>4. /\ e.stack = c.stack + (g + h)
      /\ Len(e.ins) >= Len(c.ins) /\ Len(e.consts) >= Len(c.consts)
  <2>1. /\ c.stack \in Int /\ d.stack = c.stack + g /\ e.stack = d.stack + h
    BY <1>2, <1>3
  <2>2. \A x \in Int : (x + g) + h = x + (g + h)
    OBVIOUS
  <2>3. e.stack = c.stack + (g + h)
    BY <2>1, <2>2, Zenon
  <2>4. \A x, y, z \in Nat : y >= x /\ z >= y => z >= x
    OBVIOUS
  <2>5. Len(e.ins) >= Len(c.ins) /\ Len(e.consts) >= Len(c.consts)
    BY <1>2, <1>3, <2>4
  <2> QED
    BY <2>3, <2>5
<1>5. /\ \A j \in 1..Len(c.ins) : e.ins[j] = c.ins[j]
      /\ \A j \in 1..Len(c.ins) + 1 : e.trace[j] = c.trace[j]
  <2>1. /\ \A j \in 1..Len(c.ins) : j \in 1..Len(d.ins)
        /\ \A j \in 1..Len(c.ins) + 1 : j \in 1..Len(d.ins) + 1
    BY <1>2, <1>3, SMTT(20)
  <2> QED
    BY <2>1 DEF Grown
<1>6. ASSUME NEW j \in Len(c.ins) + 1..Len(e.ins)
      PROVE  e.ins[j].op \in ExpressionOps
  <2>1. \/ j \in 1..Len(d.ins) /\ j \in Len(c.ins) + 1..Len(d.ins)
        \/ j \in Len(d.ins) + 1..Len(e.ins)
    BY <1>2
  <2> QED
    BY <2>1 DEF Grown
<1>7. ASSUME NEW j \in Len(c.ins) + 1..Len(e.ins) + 1
      PROVE  e.trace[j].open = Last(c.trace).open
  <2>5. \A x, y \in Nat : y >= x => y + 1 \in x + 1..y + 1
    OBVIOUS
  <2>6. Len(c.ins) \in Nat /\ Len(d.ins) \in Nat /\ Len(d.ins) >= Len(c.ins)
    BY <1>2, <1>3
  <2>1. Len(d.ins) + 1 \in Len(c.ins) + 1..Len(d.ins) + 1
    BY <2>5, <2>6, Zenon
  <2>2. Last(d.trace).open = Last(c.trace).open
    BY <1>2, <2>1 DEF Grown
  <2>3. CASE j \in Len(c.ins) + 1..Len(d.ins) + 1
    <3>1. j \in 1..Len(d.ins) + 1
      BY <1>2, <2>3
    <3> QED
      BY <2>3, <3>1 DEF Grown
  <2>4. CASE j \in Len(d.ins) + 1..Len(e.ins) + 1
    BY <2>2, <2>4 DEF Grown
  <2> QED
    BY <1>2, <2>3, <2>4
<1> DEFINE gain == g + h
<1> HIDE DEF gain
<1>8. e.stack = c.stack + gain
  BY <1>4 DEF gain
<1>9. Grown(c, e, gain)
  BY <1>1, <1>10, <1>4, <1>5, <1>6, <1>7, <1>8 DEF Grown
<1> QED
  BY <1>9 DEF gain

-----------------------------------------------------------------------------
(* vm_assembler_concat: code that was compiled on an assembler of its own   *)
(* runs after the code that it is added to, and finds its constants.        *)

(* What is added are the instructions of an expression, maybe with LEAVE.   *)
Loose(s) ==
    \A j \in 1..Len(s.ins) : s.ins[j].op \in ExpressionOps \cup {"LEAVE"}
                             /\ ~s.trace[j + 1].open

Joined(c, s, d) ==
    /\ Sound(d) /\ d.stack = c.stack + s.stack /\ d.prot = c.prot /\ d.parsing = c.parsing
    /\ Len(d.consts) = Len(c.consts) + Len(s.consts)
    /\ Len(d.ins) = Len(c.ins) + Len(s.ins)
    /\ \A j \in 1..Len(c.ins) : d.ins[j] = c.ins[j]
    /\ \A j \in 1..Len(c.ins) + 1 : d.trace[j] = c.trace[j]
    /\ \A j \in 1..Len(s.ins) : d.ins[Len(c.ins) + j].op = s.ins[j].op
    /\ \A j \in 1..Len(s.ins) : d.trace[Len(c.ins) + 1 + j].open = Last(c.trace).open

LEMMA RelocateFacts ==
    ASSUME NEW i \in Instruction, NEW base \in Nat
    PROVE  /\ Relocate(i, base) \in Instruction
           /\ Relocate(i, base).op = i.op /\ Relocate(i, base).n = i.n
           /\ Pops(Relocate(i, base)) = Pops(i) /\ Pushes(Relocate(i, base)) = Pushes(i)
           /\ i.op \in ConstantOps /\ i.const + base < IndexMod =>
                Relocate(i, base).const = i.const + base
<1> DEFINE x == (i.const + base) % IndexMod
           r == Relocate(i, base)
<1>1. i.const \in Nat /\ x \in Nat
  BY IndexModAssumption DEF Instruction
<1>2. i.const + base < IndexMod => x = i.const + base
  BY <1>1, SmallMod, IndexModAssumption
<1>3. r = IF i.op \in ConstantOps THEN [i EXCEPT !.const = x] ELSE i
  BY DEF Relocate
<1> HIDE DEF x, r
<1>4. /\ r \in Instruction /\ r.op = i.op /\ r.n = i.n
      /\ i.op \in ConstantOps => r.const = x
  BY <1>1, <1>3 DEF Instruction
<1>5. Pops(r) = Pops(i) /\ Pushes(r) = Pushes(i)
  BY <1>4 DEF Pops, Pushes
<1> QED
  BY <1>2, <1>4, <1>5 DEF r

(* The situation t of an added code, where `at' was reached before it.      *)
Shift(at, t) == [depth |-> at.depth + t.depth, open |-> at.open \/ t.open]

LEMMA ShiftRuns ==
    ASSUME NEW at \in Situation, NEW t \in Situation, NEW i \in Instruction,
           NEW base \in Nat, NEW max \in Nat, NEW most \in Nat,
           i.op \in ExpressionOps \cup {"LEAVE"}, Runs(t, i, max), at.depth + max <= most
    PROVE  /\ Runs(Shift(at, t), Relocate(i, base), most)
           /\ Step(Shift(at, t), Relocate(i, base)) = Shift(at, Step(t, i))
<1> DEFINE r == Relocate(i, base)
           p == Pops(i)
           q == Pushes(i)
           a == at.depth
           b == t.depth
<1>1. /\ r.op = i.op /\ Pops(r) = p /\ Pushes(r) = q /\ p \in Nat /\ q \in Nat
      /\ a \in Nat /\ b \in Nat
  BY RelocateFacts, PopsPushes DEF Situation
<1>2. /\ p <= b /\ b - p + q <= max /\ (i.op \in ScratchOps => b + 1 <= max)
  BY DEF Runs
<1>3. i.op \notin NodeOps /\ i.op # "POP_WRITE" /\ i.op # "RENDER_VARIABLE_RESCUE"
  BY DEF ExpressionOps, NodeOps, PushOps, UnaryOps, ScratchOps, BinaryOps, FilterOps
<1>4. Shift(at, t).depth = a + b /\ Shift(at, t).open = (at.open \/ t.open)
  BY DEF Shift
<1>9. a + max <= most
  OBVIOUS
<1> HIDE DEF r, p, q, a, b
<1>5. /\ p <= a + b /\ a + b - p + q <= most /\ (i.op \in ScratchOps => a + b + 1 <= most)
      /\ a + b - p + q = a + (b - p + q)
  BY <1>1, <1>2, <1>9
<1>6. Runs(Shift(at, t), r, most)
  BY <1>1, <1>3, <1>4, <1>5 DEF Runs
<1>7. Step(Shift(at, t), r) = Shift(at, Step(t, i))
  <2>1. Step(Shift(at, t), r) = [depth |-> a + b - p + q, open |-> at.open \/ t.open]
    <3> DEFINE o == at.open \/ t.open
               st == Shift(at, t)
    <3>1. o \in BOOLEAN /\ st.depth = a + b /\ st.open = o
      BY <1>4
    <3> HIDE DEF o, st
    <3> DEFINE x == st.depth - Pops(r) + Pushes(r)
               y == \/ r.op = "RENDER_VARIABLE_RESCUE"
                    \/ st.open /\ r.op # "POP_WRITE"
    <3>2. Step(st, r) = [depth |-> x, open |-> y]
      BY Zenon DEF Step
    <3>4. y = o
      BY <1>1, <1>3, <3>1
    <3>5. x = a + b - p + q
      BY <1>1, <3>1
    <3> HIDE DEF x, y
    <3>3. Step(st, r) = [depth |-> a + b - p + q, open |-> o]
      BY <3>2, <3>4, <3>5, Zenon
    <3> QED
      BY <3>3 DEF o, st
  <2>2. Step(t, i) = [depth |-> b - p + q, open |-> t.open]
    <3>1. t.open \in BOOLEAN
      BY DEF Situation
    <3> QED
      BY <1>3, <3>1 DEF Step, b, p, q
  <2>3. Shift(at, Step(t, i)) = [depth |-> a + (b - p + q), open |-> at.open \/ t.open]
    BY <2>2 DEF Shift, a
  <2> QED
    BY <1>5, <2>1, <2>3
<1> QED
  BY <1>6, <1>7 DEF r

LEMMA RunsMore ==
    ASSUME NEW t \in Situation, NEW i \in Instruction, NEW max \in Nat, NEW most \in Nat,
           max <= most, Runs(t, i, max)
    PROVE  Runs(t, i, most)
<1>1. t.depth \in Nat /\ Pops(i) \in Nat /\ Pushes(i) \in Nat
  BY PopsPushes DEF Situation
<1> QED
  BY <1>1 DEF Runs

LEMMA ShiftType ==
    ASSUME NEW at \in Situation, NEW t \in Situation
    PROVE  Shift(at, t) \in Situation
<1> DEFINE o == at.open \/ t.open
           n == at.depth + t.depth
<1>1. o \in BOOLEAN
  BY DEF Situation
<1>2. n \in Nat
  BY DEF Situation
<1>3. Shift(at, t) = [depth |-> n, open |-> o]
  BY DEF Shift
<1> HIDE DEF o, n
<1> QED
  BY <1>1, <1>2, <1>3 DEF Situation

LEMMA ConcatJoined ==
    ASSUME NEW c, NEW s, Sound(c), Sound(s), Loose(s),
           Len(c.consts) + Len(s.consts) <= IndexMod
    PROVE  Joined(c, s, Concat(c, s))
<1> DEFINE n == Len(c.ins)
           m == Len(s.ins)
           base == Len(c.consts)
           at == Last(c.trace)
           mi == [j \in 1..m |-> Relocate(s.ins[j], base)]
           mt == [j \in 1..m |-> Shift(at, s.trace[j + 1])]
           d == Concat(c, s)
           h == Len(s.consts)
<1>1. /\ c \in CodeType /\ c.ins \in Seq(Instruction) /\ c.trace \in Seq(Situation)
      /\ c.meant \in Seq(Key \cup {NoKey}) /\ c.consts \in Seq(Key)
  BY CodeParts
<1>2. /\ s.ins \in Seq(Instruction) /\ s.trace \in Seq(Situation)
      /\ s.meant \in Seq(Key \cup {NoKey}) /\ s.consts \in Seq(Key)
      /\ s.trace[1] = Entry
  BY CodeParts
<1>31. n \in Nat /\ m \in Nat /\ base \in Nat /\ h \in Nat
  BY CodeParts
<1>32. /\ Len(c.ins) = n /\ Len(c.trace) = n + 1 /\ Len(c.meant) = n
       /\ Len(c.consts) = base
       /\ Len(s.ins) = m /\ Len(s.trace) = m + 1 /\ Len(s.meant) = m
       /\ Len(s.consts) = h
  BY CodeParts
<1>33. at = c.trace[n + 1] /\ at \in Situation
  BY CodeParts
<1>34. at.depth \in Nat /\ at.open \in BOOLEAN
  BY <1>33 DEF Situation
<1>35. /\ c.max \in Nat /\ c.stack \in Nat /\ s.max \in Nat /\ s.stack \in Nat
       /\ c.stack = at.depth /\ c.stack <= c.max /\ s.stack <= s.max
  BY CodeParts
<1>36. s.stack = s.trace[m + 1].depth
  BY CodeParts
<1>37. base + h <= IndexMod /\ IndexMod \in Nat \ {0}
  BY IndexModAssumption
<1>0. n = Len(c.ins) /\ m = Len(s.ins) /\ base = Len(c.consts) /\ at = Last(c.trace)
  OBVIOUS
<1> HIDE DEF n, m, base, at, h
<1>3. \A j \in 1..m : s.ins[j] \in Instruction
  BY <1>32, <1>2, ElementOf
<1>4. \A j \in 1..m + 1 : s.trace[j] \in Situation
  BY <1>32, <1>2, ElementOf
<1>5. /\ mi \in Seq(Instruction) /\ Len(mi) = m
      /\ \A j \in 1..m : mi[j] = Relocate(s.ins[j], base)
  <2>1. \A j \in 1..m : Relocate(s.ins[j], base) \in Instruction
    BY <1>31, <1>3, RelocateFacts
  <2> QED
    BY <1>31, <2>1 DEF mi
<1>6. /\ mt \in Seq(Situation) /\ Len(mt) = m
      /\ \A j \in 1..m : mt[j] = Shift(at, s.trace[j + 1])
  <2>1. \A j \in 1..m : Shift(at, s.trace[j + 1]) \in Situation
    <3>1. \A j \in 1..m : j + 1 \in 1..m + 1
      BY <1>31
    <3> QED
      BY <1>33, <1>4, <3>1, ShiftType
  <2> DEFINE f(j) == Shift(at, s.trace[j + 1])
  <2>2. mt = [j \in 1..m |-> f(j)] /\ \A j \in 1..m : f(j) \in Situation
    BY <2>1 DEF mt
  <2> HIDE DEF f, mt
  <2>3. /\ mt \in Seq(Situation) /\ Len(mt) = m
        /\ \A j \in 1..m : mt[j] = f(j)
    BY <1>31, <2>2
  <2> QED
    BY <2>3 DEF f
<1>39. \A j \in 1..m : Relocate(s.ins[j], base).op = s.ins[j].op
  <2> SUFFICES ASSUME NEW j \in 1..m
               PROVE  Relocate(s.ins[j], base).op = s.ins[j].op
    OBVIOUS
  <2>1. s.ins[j] \in Instruction
    BY <1>3
  <2> QED
    BY <1>31, <2>1, RelocateFacts
<1> DEFINE tb == [k \in Key |-> IF s.table[k] # NoIndex
                                  THEN (s.table[k] + base) % IndexMod ELSE c.table[k]]
           mx == Larger(c.max, c.stack + s.max)
<1>7. d = [c EXCEPT !.table = tb, !.consts = c.consts \o s.consts, !.ins = c.ins \o mi,
                    !.max = mx, !.stack = c.stack + s.stack, !.trace = c.trace \o mt,
                    !.meant = c.meant \o s.meant]
  BY DEF Concat, Shift, mi, mt, m, at, base
<1>8. mx \in Nat /\ mx >= c.max /\ c.stack + s.max <= mx /\ c.stack + s.stack \in Nat
  BY <1>35 DEF Larger
<1>9. tb \in [Key -> Int] /\ \A k \in Key : s.table[k] # NoIndex =>
         /\ tb[k] = s.table[k] + base /\ s.table[k] \in 0..h - 1
         /\ s.consts[s.table[k] + 1] = k
  <2>1. /\ \A k \in Key : s.table[k] # NoIndex =>
             s.table[k] \in 0..h - 1 /\ s.consts[s.table[k] + 1] = k
    BY <1>32 DEF Sound, Body, TableSound
  <2>3. s.table \in [Key -> Int] /\ c.table \in [Key -> Int]
    BY CodeParts
  <2>2. ASSUME NEW k \in Key, s.table[k] # NoIndex
        PROVE  (s.table[k] + base) % IndexMod = s.table[k] + base
               /\ s.table[k] + base \in Int
    <3>1. s.table[k] \in 0..h - 1
      BY <2>1, <2>2
    <3>2. s.table[k] + base \in Nat /\ s.table[k] + base < IndexMod
      BY <1>31, <1>37, <3>1
    <3> QED
      BY <1>37, <3>2, SmallMod
  <2>4. ASSUME NEW k \in Key
        PROVE  /\ tb[k] \in Int
               /\ s.table[k] # NoIndex => tb[k] = s.table[k] + base
    <3>1. tb[k] = IF s.table[k] # NoIndex
                    THEN (s.table[k] + base) % IndexMod ELSE c.table[k]
      OBVIOUS
    <3>2. c.table[k] \in Int
      BY <2>3
    <3> HIDE DEF tb
    <3> QED
      BY <2>2, <3>1, <3>2
  <2>5. tb \in [Key -> Int]
    BY <2>4
  <2> HIDE DEF tb
  <2> QED
    BY <2>1, <2>4, <2>5
<1> HIDE DEF mi, mt, tb, mx, d
<1>38. /\ mi \in Seq(Instruction) /\ Len(mi) = m /\ mt \in Seq(Situation) /\ Len(mt) = m
  BY <1>5, <1>6
<1>10. /\ d.table = tb /\ d.consts = c.consts \o s.consts /\ d.ins = c.ins \o mi
       /\ d.max = mx /\ d.stack = c.stack + s.stack /\ d.trace = c.trace \o mt
       /\ d.meant = c.meant \o s.meant
  BY <1>1, <1>7 DEF CodeType
<1>11. d.prot = c.prot /\ d.parsing = c.parsing
  BY <1>1, <1>7 DEF CodeType
<1>12. /\ d.ins \in Seq(Instruction) /\ Len(d.ins) = n + m
       /\ \A j \in 1..n : d.ins[j] = c.ins[j]
       /\ \A j \in 1..m : d.ins[n + j] = Relocate(s.ins[j], base)
  <2>1. Parts(Instruction, c.ins, mi, n, m)
    BY <1>1, <1>2, <1>32, <1>38 DEF Parts
  <2>2. PartsJoined(Instruction, c.ins, mi, n, m, d.ins)
    BY <1>10, <2>1, JoinParts
  <2> QED
    BY <1>5, <2>2 DEF PartsJoined
<1>13. /\ d.trace \in Seq(Situation) /\ Len(d.trace) = n + 1 + m
       /\ \A j \in 1..n + 1 : d.trace[j] = c.trace[j]
       /\ \A j \in 1..m : d.trace[n + 1 + j] = Shift(at, s.trace[j + 1])
  <2>1. Parts(Situation, c.trace, mt, n + 1, m)
    BY <1>1, <1>2, <1>32, <1>38 DEF Parts
  <2>2. PartsJoined(Situation, c.trace, mt, n + 1, m, d.trace)
    BY <1>10, <2>1, JoinParts
  <2> QED
    BY <1>6, <2>2 DEF PartsJoined
<1>14. /\ d.consts \in Seq(Key) /\ Len(d.consts) = base + h
       /\ \A j \in 1..base : d.consts[j] = c.consts[j]
       /\ \A j \in 1..h : d.consts[base + j] = s.consts[j]
  <2>1. Parts(Key, c.consts, s.consts, base, h)
    BY <1>1, <1>2, <1>32, <1>38 DEF Parts
  <2>2. PartsJoined(Key, c.consts, s.consts, base, h, d.consts)
    BY <1>10, <2>1, JoinParts
  <2> QED
    BY <2>2 DEF PartsJoined
<1>15. /\ d.meant \in Seq(Key \cup {NoKey}) /\ Len(d.meant) = n + m
       /\ \A j \in 1..n : d.meant[j] = c.meant[j]
       /\ \A j \in 1..m : d.meant[n + j] = s.meant[j]
  <2>1. Parts(Key \cup {NoKey}, c.meant, s.meant, n, m)
    BY <1>1, <1>2, <1>32, <1>38 DEF Parts
  <2>2. PartsJoined(Key \cup {NoKey}, c.meant, s.meant, n, m, d.meant)
    BY <1>10, <2>1, JoinParts
  <2> QED
    BY <2>2 DEF PartsJoined
<1>16. d \in CodeType
  <2>1. /\ c.ins \o mi \in Seq(Instruction) /\ c.trace \o mt \in Seq(Situation)
        /\ c.consts \o s.consts \in Seq(Key) /\ c.meant \o s.meant \in Seq(Key \cup {NoKey})
    BY <1>10, <1>12, <1>13, <1>14, <1>15
  <2> DEFINE a1 == c.ins \o mi
             a2 == c.trace \o mt
             a3 == c.consts \o s.consts
             a4 == c.meant \o s.meant
             a5 == c.stack + s.stack
  <2>2. d = [c EXCEPT !.table = tb, !.consts = a3, !.ins = a1,
                      !.max = mx, !.stack = a5, !.trace = a2, !.meant = a4]
    BY <1>7
  <2>3. /\ a1 \in Seq(Instruction) /\ a2 \in Seq([depth : Nat, open : BOOLEAN])
        /\ a3 \in Seq(Key) /\ a4 \in Seq(Key \cup {NoKey}) /\ a5 \in Nat
        /\ tb \in [Key -> Int] /\ mx \in Nat
    BY <1>8, <1>9, <2>1 DEF Situation
  <2> HIDE DEF a1, a2, a3, a4, a5
  <2> QED
    BY <1>1, <2>2, <2>3 DEF CodeType
<1>17. TableSound(d)
  <2> SUFFICES ASSUME NEW k \in Key, d.table[k] # NoIndex
               PROVE  d.table[k] \in 0..(Len(d.consts) - 1) /\ d.consts[d.table[k] + 1] = k
    BY DEF TableSound
  <2>1. CASE s.table[k] # NoIndex
    <3> DEFINE x == s.table[k]
    <3>1. d.table[k] = x + base /\ x \in 0..h - 1 /\ s.consts[x + 1] = k
      BY <1>9, <1>10, <2>1
    <3> HIDE DEF x
    <3>2. x + 1 \in 1..h /\ x + base + 1 = base + (x + 1)
          /\ x + base \in 0..(Len(d.consts) - 1)
      <4>1. Len(d.consts) = base + h /\ x \in 0..h - 1
        BY <1>14, <3>1
      <4> QED
        BY <1>31, <4>1
    <3> QED
      BY <1>14, <3>1, <3>2
  <2>2. CASE s.table[k] = NoIndex
    <3> DEFINE x == c.table[k]
    <3>1. d.table[k] = x
      BY <1>10, <2>2 DEF tb
    <3>2. x \in 0..(base - 1) /\ c.consts[x + 1] = k
      BY <1>32, <3>1 DEF Sound, Body, TableSound
    <3> HIDE DEF x
    <3>3. x + 1 \in 1..base /\ x \in 0..(Len(d.consts) - 1)
      <4>1. Len(d.consts) = base + h /\ x \in 0..(base - 1)
        BY <1>14, <3>2
      <4> QED
        BY <1>31, <4>1
    <3> QED
      BY <1>14, <3>1, <3>2, <3>3
  <2> QED
    BY <2>1, <2>2
<1>18. \A j \in 0..m : d.trace[n + 1 + j] = Shift(at, s.trace[j + 1])
  <2>1. Shift(at, s.trace[1]) = at
    <3> DEFINE x == at.depth
               o == at.open
    <3>1. x \in Nat /\ o \in BOOLEAN /\ at = [depth |-> x, open |-> o]
      BY <1>33 DEF Situation
    <3> HIDE DEF x, o
    <3>2. Shift(at, s.trace[1]) = [depth |-> x + 0, open |-> o \/ FALSE]
      BY <1>2 DEF Shift, Entry, x, o
    <3>3. x + 0 = x
      BY <3>1
    <3> QED
      BY <3>1, <3>2, <3>3, Zenon
  <2>2. d.trace[n + 1] = at
    BY <1>31, <1>33, <1>13
  <2> SUFFICES ASSUME NEW j \in 0..m
               PROVE  d.trace[n + 1 + j] = Shift(at, s.trace[j + 1])
    OBVIOUS
  <2>3. CASE j = 0
    <3>1. n + 1 + j = n + 1 /\ j + 1 = 1
      BY <1>31, <2>3
    <3> QED
      BY <2>1, <2>2, <3>1
  <2>4. CASE j # 0
    <3>1. j \in 1..m
      BY <1>31, <2>4
    <3> QED
      BY <1>13, <3>1
  <2> QED
    BY <2>3, <2>4
<1>19. TraceSound(d)
  <2>1. d.trace[1] = Entry /\ Len(d.trace) = Len(d.ins) + 1
    <3>1. c.trace[1] = Entry /\ 1 \in 1..n + 1
      BY <1>31, CodeParts
    <3>2. n + 1 + m = (n + m) + 1
      BY <1>31
    <3> QED
      BY <1>12, <1>13, <3>1, <3>2
  <2>2. ASSUME NEW j \in 1..n
        PROVE  d.trace[j + 1] = Step(d.trace[j], d.ins[j]) /\ Runs(d.trace[j], d.ins[j], d.max)
    <3>1. c.trace[j + 1] = Step(c.trace[j], c.ins[j]) /\ Runs(c.trace[j], c.ins[j], c.max)
      BY <1>32 DEF Sound, Body, TraceSound
    <3>4. j + 1 \in 1..n + 1 /\ j \in 1..n + 1
      BY <1>31
    <3>2. /\ c.trace[j] \in Situation /\ c.ins[j] \in Instruction
      BY <1>1, <1>32, <3>4, ElementOf
    <3>3. Runs(c.trace[j], c.ins[j], mx)
      BY <1>35, <1>8, <3>1, <3>2, RunsMore
    <3> QED
      BY <1>10, <1>12, <1>13, <3>1, <3>4, <3>3
  <2>3. ASSUME NEW l \in 1..m
        PROVE  /\ d.trace[n + l + 1] = Step(d.trace[n + l], d.ins[n + l])
               /\ Runs(d.trace[n + l], d.ins[n + l], d.max)
    <3>1. s.trace[l + 1] = Step(s.trace[l], s.ins[l]) /\ Runs(s.trace[l], s.ins[l], s.max)
      BY <1>32 DEF Sound, Body, TraceSound
    <3>2. /\ l - 1 \in 0..m /\ l \in 0..m /\ n + 1 + (l - 1) = n + l /\ (l - 1) + 1 = l
          /\ n + 1 + l = n + l + 1 /\ l \in 1..m + 1
      BY <1>31
    <3>3. d.trace[n + l] = Shift(at, s.trace[l]) /\ d.trace[n + l + 1] = Shift(at, s.trace[l + 1])
      BY <1>18, <3>2
    <3>4. s.trace[l] \in Situation /\ s.ins[l] \in Instruction
          /\ s.ins[l].op \in ExpressionOps \cup {"LEAVE"}
      BY <1>32, <1>3, <1>4, <3>2 DEF Loose
    <3>5. at.depth + s.max <= mx
      BY <1>35, <1>8
    <3>6. /\ Runs(Shift(at, s.trace[l]), Relocate(s.ins[l], base), mx)
          /\ Step(Shift(at, s.trace[l]), Relocate(s.ins[l], base))
               = Shift(at, Step(s.trace[l], s.ins[l]))
      BY <1>31, <1>33, <1>35, <1>8, <3>1, <3>4, <3>5, ShiftRuns, SMTT(20)
    <3> QED
      BY <1>10, <1>12, <3>1, <3>3, <3>6
  <2>4. ASSUME NEW j \in 1..Len(d.ins)
        PROVE  d.trace[j + 1] = Step(d.trace[j], d.ins[j]) /\ Runs(d.trace[j], d.ins[j], d.max)
    <3>1. CASE j \in 1..n
      BY <2>2, <3>1
    <3>2. CASE j \notin 1..n
      <4> DEFINE l == j - n
      <4>1. l \in 1..m /\ j = n + l
        BY <1>31, <1>12, <3>2
      <4> HIDE DEF l
      <4> QED
        BY <2>3, <4>1
    <3> QED
      BY <3>1, <3>2
  <2> QED
    BY <2>1, <2>4 DEF TraceSound
<1>20. ConstantsResolve(d)
  <2> SUFFICES ASSUME NEW j \in 1..Len(d.ins), d.ins[j].op \in ConstantOps
               PROVE  /\ d.ins[j].const \in 0..(Len(d.consts) - 1)
                      /\ d.consts[d.ins[j].const + 1] = d.meant[j]
    BY <1>12, <1>15 DEF ConstantsResolve
  <2>0. d.ins[j].op \in ConstantOps
    OBVIOUS
  <2>1. CASE j \in 1..n
    <3> DEFINE x == c.ins[j].const
    <3>1. d.ins[j].const = x /\ d.meant[j] = c.meant[j] /\ c.ins[j].op \in ConstantOps
      BY <1>12, <1>15, <2>1
    <3>2. x \in 0..(base - 1) /\ c.consts[x + 1] = c.meant[j]
      BY <1>32, <2>1, <3>1 DEF Sound, Body, ConstantsResolve
    <3> HIDE DEF x
    <3>3. x + 1 \in 1..base /\ x \in 0..(Len(d.consts) - 1)
      <4>1. Len(d.consts) = base + h /\ x \in 0..(base - 1)
        BY <1>14, <3>2
      <4> QED
        BY <1>31, <4>1
    <3> QED
      BY <1>14, <3>1, <3>2, <3>3
  <2>2. CASE j \notin 1..n
    <3> DEFINE l == j - n
               x == s.ins[l].const
    <3>1. l \in 1..m /\ j = n + l
      BY <1>31, <1>12, <2>2
    <3> HIDE DEF l
    <3>2. d.ins[j] = Relocate(s.ins[l], base) /\ d.meant[j] = s.meant[l]
      BY <1>12, <1>15, <3>1
    <3>3. s.ins[l] \in Instruction /\ s.ins[l].op \in ConstantOps
      <4>1. s.ins[l] \in Instruction
        BY <1>3, <3>1
      <4> QED
        BY <1>39, <2>0, <3>1, <3>2, <4>1
    <3>4. x \in 0..(h - 1) /\ s.consts[x + 1] = s.meant[l]
      BY <1>32, <3>1, <3>3 DEF Sound, Body, ConstantsResolve
    <3>5. s.ins[l].const + base < IndexMod
      <4> HIDE DEF x
      <4>1. x + base < IndexMod
        BY <1>31, <1>37, <3>4
      <4> QED
        BY <4>1 DEF x
    <3>6. d.ins[j].const = x + base
      BY <1>31, <3>2, <3>3, <3>5, RelocateFacts
    <3> HIDE DEF x
    <3>7. /\ x + 1 \in 1..h /\ x + base + 1 = base + (x + 1)
          /\ x + base \in 0..(Len(d.consts) - 1)
      <4>1. Len(d.consts) = base + h
        BY <1>14
      <4> QED
        BY <1>31, <3>4, <4>1
    <3> QED
      BY <1>14, <3>2, <3>4, <3>6, <3>7
  <2> QED
    BY <2>1, <2>2
<1>21. LedgerSound(d)
  <2>1. Last(d.trace) = Shift(at, s.trace[m + 1])
    <3>1. Last(d.trace) = d.trace[n + 1 + m] /\ m \in 0..m
      BY <1>31, <1>13 DEF Last
    <3> QED
      BY <1>18, <3>1
  <2>2. Last(d.trace).depth = c.stack + s.stack
    BY <1>35, <1>36, <2>1 DEF Shift
  <2>3. c.stack + s.stack <= mx
    BY <1>35, <1>8
  <2> QED
    BY <1>10, <2>2, <2>3 DEF LedgerSound
<1>22. Sound(d)
  BY <1>16, <1>17, <1>19, <1>20, <1>21 DEF Sound, Body
<1>23. \A j \in 1..m : d.ins[n + j].op = s.ins[j].op
  BY <1>12, <1>39
<1>24. \A j \in 1..m : d.trace[n + 1 + j].open = at.open
  <2> SUFFICES ASSUME NEW j \in 1..m
               PROVE  d.trace[n + 1 + j].open = at.open
    OBVIOUS
  <2>1. d.trace[n + 1 + j].open = (at.open \/ s.trace[j + 1].open)
    <3>1. d.trace[n + 1 + j] = Shift(at, s.trace[j + 1])
      BY <1>13
    <3>2. Shift(at, s.trace[j + 1]).open = (at.open \/ s.trace[j + 1].open)
      BY DEF Shift
    <3> QED
      BY <3>1, <3>2, Zenon
  <2>2. ~s.trace[j + 1].open
    BY <1>32 DEF Loose
  <2> QED
    BY <1>34, <2>1, <2>2, Zenon
<1>25. Joined(c, s, d)
  <2>1. d.stack = c.stack + s.stack
    BY <1>10
  <2> QED
    BY <1>0, <1>11, <1>12, <1>13, <1>14, <1>22, <1>23, <1>24, <2>1, Zenon DEF Joined, h
<1> QED
  BY <1>25 DEF d

-----------------------------------------------------------------------------
(* The add_ functions of an expression's instructions                      *)

(* As Grown, with at most one constant more.                               *)
Gained(c, d, gain) == Grown(c, d, gain) /\ Len(d.consts) <= Len(c.consts) + 1

LEMMA SizedSame ==
    ASSUME NEW c \in CodeType
    PROVE  /\ c = Sized(c, c.stack, c.max)
           /\ \A s : [c EXCEPT !.stack = s] = Sized(c, s, c.max)
           /\ \A m : [c EXCEPT !.max = m] = Sized(c, c.stack, m)
BY DEF CodeType, Sized

LEMMA RunsExpression ==
    ASSUME NEW c, Sound(c), NEW i \in Instruction, NEW m \in Nat, NEW p \in Nat, p = Pops(i),
           i.op \in ExpressionOps, p <= c.stack, c.stack - p + 1 <= m,
           i.op \in ScratchOps => c.stack + 1 <= m
    PROVE  Runs(Last(c.trace), i, m) /\ Pushes(i) = 1
<1>1. c.stack = Last(c.trace).depth
  BY CodeParts
<1>2. i.op \notin NodeOps /\ i.op # "POP_WRITE" /\ i.op # "LEAVE"
  BY DEF ExpressionOps, NodeOps, PushOps, UnaryOps, ScratchOps, BinaryOps, FilterOps
<1>3. Pushes(i) = 1
  BY <1>2 DEF Pushes
<1> QED
  BY <1>1, <1>2, <1>3 DEF Runs

LEMMA PlainAdd ==
    ASSUME NEW c, Sound(c), NEW op \in ExpressionOps \ ConstantOps, NEW n \in Nat,
           NEW p \in Nat, p = Pops(Plain(op, n)), p <= c.stack,
           NEW m \in Nat, c.max <= m, NEW s, s = c.stack - p + 1, s <= m
    PROVE  Gained(c, Write(Sized(c, s, m), Plain(op, n), NoKey), 1 - p)
<1> DEFINE i == Plain(op, n)
<1>1. i \in Instruction /\ i.op = op
  <2>1. op \in Ops
    BY DEF ExpressionOps, Ops
  <2> QED
    BY <2>1, PlainInstruction
<1>2. op \notin ScratchOps
  BY DEF ScratchOps, ConstantOps
<1>3. c.stack \in Nat /\ Len(c.consts) \in Nat
  BY CodeParts
<1>4. s \in Nat
  BY <1>3
<1>5. Runs(Last(c.trace), i, m) /\ Pushes(i) = 1 /\ p = Pops(i)
  BY <1>1, <1>2, RunsExpression
<1>6. s = c.stack - Pops(i) + Pushes(i)
  BY <1>5
<1>7. LET d == Write(Sized(c, s, m), Plain(op, n), NoKey)
      IN  /\ Grown(c, d, Pushes(Plain(op, n)) - Pops(Plain(op, n)))
          /\ d.consts = c.consts
  BY <1>4, <1>5, <1>6, PlainGrown
<1> DEFINE d == Write(Sized(c, s, m), i, NoKey)
<1>8. Grown(c, d, 1 - p) /\ d.consts = c.consts
  BY <1>5, <1>7
<1> HIDE DEF d
<1>9. Gained(c, d, 1 - p)
  BY <1>3, <1>8 DEF Gained
<1> QED
  BY <1>9 DEF d

LEMMA ConstantAdd ==
    ASSUME NEW c, Sound(c), NEW op \in ExpressionOps \cap ConstantOps, NEW n \in Nat,
           NEW p \in Nat, p = Pops(Plain(op, n)), p <= c.stack,
           NEW m \in Nat, c.max <= m, NEW s, s = c.stack - p + 1, s <= m,
           op \in ScratchOps => c.stack + 1 <= m,
           NEW k \in Key, Len(c.consts) < IndexMod
    PROVE  Gained(c, AddOpWithConstant(Sized(c, s, m), k, op, n), 1 - p)
<1> DEFINE i == Plain(op, n)
<1>1. i \in Instruction /\ i.op = op
  <2>1. op \in Ops
    BY DEF ExpressionOps, Ops
  <2> QED
    BY <2>1, PlainInstruction
<1>3. c.stack \in Nat
  BY CodeParts
<1>4. s \in Nat
  BY <1>3
<1>5. Runs(Last(c.trace), i, m) /\ Pushes(i) = 1 /\ p = Pops(i)
  BY <1>1, RunsExpression
<1>6. s = c.stack - Pops(i) + Pushes(i)
  BY <1>5
<1>7. LET d == AddOpWithConstant(Sized(c, s, m), k, op, n)
      IN  /\ Grown(c, d, Pushes(Plain(op, n)) - Pops(Plain(op, n)))
          /\ Len(d.consts) <= Len(c.consts) + 1
  BY <1>4, <1>5, <1>6, ConstantGrown
<1> DEFINE d == AddOpWithConstant(Sized(c, s, m), k, op, n)
<1>8. Grown(c, d, 1 - p) /\ Len(d.consts) <= Len(c.consts) + 1
  BY <1>5, <1>7
<1> HIDE DEF d
<1>9. Gained(c, d, 1 - p)
  BY <1>8 DEF Gained
<1> QED
  BY <1>9 DEF d

LEMMA LargerNat ==
    ASSUME NEW a \in Nat, NEW b \in Nat
    PROVE  Larger(a, b) \in Nat /\ a <= Larger(a, b) /\ b <= Larger(a, b)
BY DEF Larger

LEMMA PushImmediateGained ==
    ASSUME NEW c, Sound(c)
    PROVE  Gained(c, AddPushImmediate(c), 1)
<1> DEFINE m == Larger(c.max, c.stack + 1)
           s == c.stack + 1
           p == 0
<1>1. c \in CodeType /\ c.stack \in Nat /\ c.max \in Nat /\ c.stack <= c.max
  BY CodeParts
<1>2. m \in Nat /\ c.max <= m /\ s <= m
  <2>1. c.stack + 1 \in Nat
    BY <1>1
  <2> QED
    BY <1>1, <2>1, LargerNat
<1>3. s = c.stack - p + 1 /\ p \in Nat /\ p <= c.stack
  BY <1>1
<1>4. p = Pops(Plain("PUSH_IMMEDIATE", 0))
  BY DEF Pops, Plain, UnaryOps, ScratchOps, BinaryOps, FilterOps
<1>5. "PUSH_IMMEDIATE" \in ExpressionOps \ ConstantOps
  BY DEF ExpressionOps, ConstantOps, PushOps, UnaryOps, ScratchOps, BinaryOps, FilterOps
<1>6. AddPushImmediate(c) = Write(Sized(c, s, m), Plain("PUSH_IMMEDIATE", 0), NoKey)
  BY Zenon DEF AddPushImmediate, IncrementStack, Sized
<1> HIDE DEF m, s, p
<1>7. Gained(c, Write(Sized(c, s, m), Plain("PUSH_IMMEDIATE", 0), NoKey), 1 - p)
  BY <1>2, <1>3, <1>4, <1>5, PlainAdd
<1>9. 1 - p = 1
  BY DEF p
<1> QED
  BY <1>6, <1>7, <1>9

LEMMA PushConstGained ==
    ASSUME NEW c, Sound(c),
           NEW k \in Key, Len(c.consts) < IndexMod
    PROVE  Gained(c, AddPushConst(c, k), 1)
<1> DEFINE m == Larger(c.max, c.stack + 1)
           s == c.stack + 1
           p == 0
<1>1. c \in CodeType /\ c.stack \in Nat /\ c.max \in Nat /\ c.stack <= c.max
  BY CodeParts
<1>2. m \in Nat /\ c.max <= m /\ s <= m
  <2>1. c.stack + 1 \in Nat
    BY <1>1
  <2> QED
    BY <1>1, <2>1, LargerNat
<1>3. s = c.stack - p + 1 /\ p \in Nat /\ p <= c.stack
  BY <1>1
<1>4. p = Pops(Plain("PUSH_CONST", 0))
  BY DEF Pops, Plain, UnaryOps, ScratchOps, BinaryOps, FilterOps
<1>5. "PUSH_CONST" \in ExpressionOps \cap ConstantOps
  BY DEF ExpressionOps, ConstantOps, PushOps, UnaryOps, ScratchOps, BinaryOps, FilterOps
<1>6. AddPushConst(c, k) = AddOpWithConstant(Sized(c, s, m), k, "PUSH_CONST", 0)
  BY Zenon DEF AddPushConst, IncrementStack, Sized
<1> HIDE DEF m, s, p
<1>8. "PUSH_CONST" \notin ScratchOps
  BY DEF ScratchOps
<1>7. Gained(c, AddOpWithConstant(Sized(c, s, m), k, "PUSH_CONST", 0), 1 - p)
  BY <1>2, <1>3, <1>4, <1>5, <1>8, ConstantAdd
<1>9. 1 - p = 1
  BY DEF p
<1> QED
  BY <1>6, <1>7, <1>9

LEMMA FindStaticVariableGained ==
    ASSUME NEW c, Sound(c),
           NEW k \in Key, Len(c.consts) < IndexMod
    PROVE  Gained(c, AddFindStaticVariable(c, k), 1)
<1> DEFINE m == Larger(c.max, c.stack + 1)
           s == c.stack + 1
           p == 0
<1>1. c \in CodeType /\ c.stack \in Nat /\ c.max \in Nat /\ c.stack <= c.max
  BY CodeParts
<1>2. m \in Nat /\ c.max <= m /\ s <= m
  <2>1. c.stack + 1 \in Nat
    BY <1>1
  <2> QED
    BY <1>1, <2>1, LargerNat
<1>3. s = c.stack - p + 1 /\ p \in Nat /\ p <= c.stack
  BY <1>1
<1>4. p = Pops(Plain("FIND_STATIC_VAR", 0))
  BY DEF Pops, Plain, UnaryOps, ScratchOps, BinaryOps, FilterOps
<1>5. "FIND_STATIC_VAR" \in ExpressionOps \cap ConstantOps
  BY DEF ExpressionOps, ConstantOps, PushOps, UnaryOps, ScratchOps, BinaryOps, FilterOps
<1>6. AddFindStaticVariable(c, k) = AddOpWithConstant(Sized(c, s, m), k, "FIND_STATIC_VAR", 0)
  BY Zenon DEF AddFindStaticVariable, IncrementStack, Sized
<1> HIDE DEF m, s, p
<1>8. "FIND_STATIC_VAR" \notin ScratchOps
  BY DEF ScratchOps
<1>7. Gained(c, AddOpWithConstant(Sized(c, s, m), k, "FIND_STATIC_VAR", 0), 1 - p)
  BY <1>2, <1>3, <1>4, <1>5, <1>8, ConstantAdd
<1>9. 1 - p = 1
  BY DEF p
<1> QED
  BY <1>6, <1>7, <1>9

LEMMA FindVariableGained ==
    ASSUME NEW c, Sound(c),
           c.stack >= 1
    PROVE  Gained(c, AddFindVariable(c), 0)
<1> DEFINE m == c.max
           s == c.stack
           p == 1
<1>1. c \in CodeType /\ c.stack \in Nat /\ c.max \in Nat /\ c.stack <= c.max
  BY CodeParts
<1>2. m \in Nat /\ c.max <= m /\ s <= m
  BY <1>1
<1>3. s = c.stack - p + 1 /\ p \in Nat /\ p <= c.stack
  BY <1>1
<1>4. p = Pops(Plain("FIND_VAR", 0))
  BY DEF Pops, Plain, UnaryOps, ScratchOps, BinaryOps, FilterOps
<1>5. "FIND_VAR" \in ExpressionOps \ ConstantOps
  BY DEF ExpressionOps, ConstantOps, PushOps, UnaryOps, ScratchOps, BinaryOps, FilterOps
<1>6. AddFindVariable(c) = Write(Sized(c, s, m), Plain("FIND_VAR", 0), NoKey)
  BY <1>1, SizedSame, Zenon DEF AddFindVariable
<1> HIDE DEF m, s, p
<1>7. Gained(c, Write(Sized(c, s, m), Plain("FIND_VAR", 0), NoKey), 1 - p)
  BY <1>2, <1>3, <1>4, <1>5, PlainAdd
<1>9. 1 - p = 0
  BY DEF p
<1> QED
  BY <1>6, <1>7, <1>9

LEMMA LookupConstKeyGained ==
    ASSUME NEW c, Sound(c),
           c.stack >= 1,
           NEW k \in Key, Len(c.consts) < IndexMod
    PROVE  Gained(c, AddLookupConstKey(c, k), 0)
<1> DEFINE m == Larger(c.max, c.stack + 1)
           s == c.stack
           p == 1
<1>1. c \in CodeType /\ c.stack \in Nat /\ c.max \in Nat /\ c.stack <= c.max
  BY CodeParts
<1>2. m \in Nat /\ c.max <= m /\ s <= m /\ c.stack + 1 <= m
  <2>1. c.stack + 1 \in Nat
    BY <1>1
  <2>2. m \in Nat /\ c.max <= m /\ c.stack + 1 <= m
    BY <1>1, <2>1, LargerNat
  <2> HIDE DEF m
  <2> QED
    BY <1>1, <2>2
<1>3. s = c.stack - p + 1 /\ p \in Nat /\ p <= c.stack
  BY <1>1
<1>4. p = Pops(Plain("LOOKUP_CONST_KEY", 0))
  BY DEF Pops, Plain, UnaryOps, ScratchOps, BinaryOps, FilterOps
<1>5. "LOOKUP_CONST_KEY" \in ExpressionOps \cap ConstantOps
  BY DEF ExpressionOps, ConstantOps, PushOps, UnaryOps, ScratchOps, BinaryOps, FilterOps
<1>6. AddLookupConstKey(c, k) = AddOpWithConstant(Sized(c, s, m), k, "LOOKUP_CONST_KEY", 0)
  BY <1>1, SizedSame, Zenon DEF AddLookupConstKey, ReserveStack
<1> HIDE DEF m, s, p
<1>7. Gained(c, AddOpWithConstant(Sized(c, s, m), k, "LOOKUP_CONST_KEY", 0), 1 - p)
  BY <1>2, <1>3, <1>4, <1>5, ConstantAdd
<1>9. 1 - p = 0
  BY DEF p
<1> QED
  BY <1>6, <1>7, <1>9

LEMMA LookupCommandGained ==
    ASSUME NEW c, Sound(c),
           c.stack >= 1,
           NEW k \in Key, Len(c.consts) < IndexMod
    PROVE  Gained(c, AddLookupCommand(c, k), 0)
<1> DEFINE m == Larger(c.max, c.stack + 1)
           s == c.stack
           p == 1
<1>1. c \in CodeType /\ c.stack \in Nat /\ c.max \in Nat /\ c.stack <= c.max
  BY CodeParts
<1>2. m \in Nat /\ c.max <= m /\ s <= m /\ c.stack + 1 <= m
  <2>1. c.stack + 1 \in Nat
    BY <1>1
  <2>2. m \in Nat /\ c.max <= m /\ c.stack + 1 <= m
    BY <1>1, <2>1, LargerNat
  <2> HIDE DEF m
  <2> QED
    BY <1>1, <2>2
<1>3. s = c.stack - p + 1 /\ p \in Nat /\ p <= c.stack
  BY <1>1
<1>4. p = Pops(Plain("LOOKUP_COMMAND", 0))
  BY DEF Pops, Plain, UnaryOps, ScratchOps, BinaryOps, FilterOps
<1>5. "LOOKUP_COMMAND" \in ExpressionOps \cap ConstantOps
  BY DEF ExpressionOps, ConstantOps, PushOps, UnaryOps, ScratchOps, BinaryOps, FilterOps
<1>6. AddLookupCommand(c, k) = AddOpWithConstant(Sized(c, s, m), k, "LOOKUP_COMMAND", 0)
  BY <1>1, SizedSame, Zenon DEF AddLookupCommand, ReserveStack
<1> HIDE DEF m, s, p
<1>7. Gained(c, AddOpWithConstant(Sized(c, s, m), k, "LOOKUP_COMMAND", 0), 1 - p)
  BY <1>2, <1>3, <1>4, <1>5, ConstantAdd
<1>9. 1 - p = 0
  BY DEF p
<1> QED
  BY <1>6, <1>7, <1>9

LEMMA LookupKeyGained ==
    ASSUME NEW c, Sound(c),
           c.stack >= 2
    PROVE  Gained(c, AddLookupKey(c), -1)
<1> DEFINE m == c.max
           s == c.stack - 1
           p == 2
<1>1. c \in CodeType /\ c.stack \in Nat /\ c.max \in Nat /\ c.stack <= c.max
  BY CodeParts
<1>2. m \in Nat /\ c.max <= m /\ s <= m
  BY <1>1
<1>3. s = c.stack - p + 1 /\ p \in Nat /\ p <= c.stack
  BY <1>1
<1>4. p = Pops(Plain("LOOKUP_KEY", 0))
  BY DEF Pops, Plain, UnaryOps, ScratchOps, BinaryOps, FilterOps
<1>5. "LOOKUP_KEY" \in ExpressionOps \ ConstantOps
  BY DEF ExpressionOps, ConstantOps, PushOps, UnaryOps, ScratchOps, BinaryOps, FilterOps
<1>6. AddLookupKey(c) = Write(Sized(c, s, m), Plain("LOOKUP_KEY", 0), NoKey)
  BY <1>1, SizedSame, Zenon DEF AddLookupKey
<1> HIDE DEF m, s, p
<1>7. Gained(c, Write(Sized(c, s, m), Plain("LOOKUP_KEY", 0), NoKey), 1 - p)
  BY <1>2, <1>3, <1>4, <1>5, PlainAdd
<1>9. 1 - p = -1
  BY DEF p
<1> QED
  BY <1>6, <1>7, <1>9

LEMMA NewIntRangeGained ==
    ASSUME NEW c, Sound(c),
           c.stack >= 2
    PROVE  Gained(c, AddNewIntRange(c), -1)
<1> DEFINE m == c.max
           s == c.stack - 1
           p == 2
<1>1. c \in CodeType /\ c.stack \in Nat /\ c.max \in Nat /\ c.stack <= c.max
  BY CodeParts
<1>2. m \in Nat /\ c.max <= m /\ s <= m
  BY <1>1
<1>3. s = c.stack - p + 1 /\ p \in Nat /\ p <= c.stack
  BY <1>1
<1>4. p = Pops(Plain("NEW_INT_RANGE", 0))
  BY DEF Pops, Plain, UnaryOps, ScratchOps, BinaryOps, FilterOps
<1>5. "NEW_INT_RANGE" \in ExpressionOps \ ConstantOps
  BY DEF ExpressionOps, ConstantOps, PushOps, UnaryOps, ScratchOps, BinaryOps, FilterOps
<1>6. AddNewIntRange(c) = Write(Sized(c, s, m), Plain("NEW_INT_RANGE", 0), NoKey)
  BY <1>1, SizedSame, Zenon DEF AddNewIntRange
<1> HIDE DEF m, s, p
<1>7. Gained(c, Write(Sized(c, s, m), Plain("NEW_INT_RANGE", 0), NoKey), 1 - p)
  BY <1>2, <1>3, <1>4, <1>5, PlainAdd
<1>9. 1 - p = -1
  BY DEF p
<1> QED
  BY <1>6, <1>7, <1>9

LEMMA HashNewGained ==
    ASSUME NEW c, Sound(c),
           NEW size \in Nat,
           size >= 1,
           c.stack >= 2 * size
    PROVE  Gained(c, AddHashNew(c, size), 1 - 2 * size)
<1> DEFINE m == c.max
           s == c.stack - 2 * size + 1
           p == 2 * size
<1>1. c \in CodeType /\ c.stack \in Nat /\ c.max \in Nat /\ c.stack <= c.max
  BY CodeParts
<1>2. m \in Nat /\ c.max <= m /\ s <= m
  BY <1>1
<1>3. s = c.stack - p + 1 /\ p \in Nat /\ p <= c.stack
  BY <1>1
<1>4. p = Pops(Plain("HASH_NEW", size))
  BY DEF Pops, Plain, UnaryOps, ScratchOps, BinaryOps, FilterOps
<1>5. "HASH_NEW" \in ExpressionOps \ ConstantOps
  BY DEF ExpressionOps, ConstantOps, PushOps, UnaryOps, ScratchOps, BinaryOps, FilterOps
<1>6. AddHashNew(c, size) = Write(Sized(c, s, m), Plain("HASH_NEW", size), NoKey)
  BY <1>1, SizedSame, Zenon DEF AddHashNew
<1> HIDE DEF m, s, p
<1>7. Gained(c, Write(Sized(c, s, m), Plain("HASH_NEW", size), NoKey), 1 - p)
  BY <1>2, <1>3, <1>4, <1>5, PlainAdd
<1>9. 1 - p = 1 - 2 * size
  BY DEF p
<1> QED
  BY <1>6, <1>7, <1>9

LEMMA BuiltinFilterGained ==
    ASSUME NEW c, Sound(c),
           NEW argc \in Nat,
           c.stack >= argc + 1
    PROVE  Gained(c, AddBuiltinFilter(c, argc), -argc)
<1> DEFINE m == c.max
           s == c.stack - argc
           p == argc + 1
<1>1. c \in CodeType /\ c.stack \in Nat /\ c.max \in Nat /\ c.stack <= c.max
  BY CodeParts
<1>2. m \in Nat /\ c.max <= m /\ s <= m
  BY <1>1
<1>3. s = c.stack - p + 1 /\ p \in Nat /\ p <= c.stack
  BY <1>1
<1>4. p = Pops(Plain("BUILTIN_FILTER", argc + 1))
  BY DEF Pops, Plain, UnaryOps, ScratchOps, BinaryOps, FilterOps
<1>5. "BUILTIN_FILTER" \in ExpressionOps \ ConstantOps
  BY DEF ExpressionOps, ConstantOps, PushOps, UnaryOps, ScratchOps, BinaryOps, FilterOps
<1>6. AddBuiltinFilter(c, argc) = Write(Sized(c, s, m), Plain("BUILTIN_FILTER", argc + 1), NoKey)
  BY <1>1, SizedSame, Zenon DEF AddBuiltinFilter
<1> HIDE DEF m, s, p
<1>7. Gained(c, Write(Sized(c, s, m), Plain("BUILTIN_FILTER", argc + 1), NoKey), 1 - p)
  BY <1>2, <1>3, <1>4, <1>5, PlainAdd
<1>9. 1 - p = -argc
  BY DEF p
<1> QED
  BY <1>6, <1>7, <1>9

LEMMA NamedFilterGained ==
    ASSUME NEW c, Sound(c),
           NEW argc \in Nat,
           c.stack >= argc + 1,
           NEW k \in Key, Len(c.consts) < IndexMod
    PROVE  Gained(c, AddNamedFilter(c, k, argc), -argc)
<1> DEFINE m == c.max
           s == c.stack - argc
           p == argc + 1
<1>1. c \in CodeType /\ c.stack \in Nat /\ c.max \in Nat /\ c.stack <= c.max
  BY CodeParts
<1>2. m \in Nat /\ c.max <= m /\ s <= m
  BY <1>1
<1>3. s = c.stack - p + 1 /\ p \in Nat /\ p <= c.stack
  BY <1>1
<1>4. p = Pops(Plain("FILTER", argc + 1))
  BY DEF Pops, Plain, UnaryOps, ScratchOps, BinaryOps, FilterOps
<1>5. "FILTER" \in ExpressionOps \cap ConstantOps
  BY DEF ExpressionOps, ConstantOps, PushOps, UnaryOps, ScratchOps, BinaryOps, FilterOps
<1>6. AddNamedFilter(c, k, argc) = AddOpWithConstant(Sized(c, s, m), k, "FILTER", argc + 1)
  BY <1>1, SizedSame, Zenon DEF AddNamedFilter
<1> HIDE DEF m, s, p
<1>8. "FILTER" \notin ScratchOps
  BY DEF ScratchOps
<1>7. Gained(c, AddOpWithConstant(Sized(c, s, m), k, "FILTER", argc + 1), 1 - p)
  BY <1>2, <1>3, <1>4, <1>5, <1>8, ConstantAdd
<1>9. 1 - p = -argc
  BY DEF p
<1> QED
  BY <1>6, <1>7, <1>9

-----------------------------------------------------------------------------
(* Instructions that are not part of an expression                         *)

(* d is c with one more instruction, behind which the situation is t.      *)
Added(c, d, op, t) ==
    /\ Sound(d) /\ Last(d.trace) = t /\ d.prot = c.prot
    /\ Len(c.consts) <= Len(d.consts) /\ Len(d.consts) <= Len(c.consts) + 1
    /\ Len(d.ins) = Len(c.ins) + 1 /\ d.ins[Len(c.ins) + 1].op = op
    /\ \A j \in 1..Len(c.ins) : d.ins[j] = c.ins[j]
    /\ \A j \in 1..Len(c.ins) + 1 : d.trace[j] = c.trace[j]

LEMMA WrittenAdded ==
    ASSUME NEW c, NEW b, NEW i, NEW k, NEW t, Writable(c, b, i, k), t = Step(Last(c.trace), i),
           Len(b.consts) <= Len(c.consts) + 1
    PROVE  /\ Added(c, Write(b, i, k), i.op, t)
           /\ Write(b, i, k).parsing = c.parsing
<1> DEFINE d == Write(b, i, k)
<1>1. Written(c, b, i, d)
  BY WriteSound
<1>2. Len(c.consts) <= Len(b.consts)
  BY DEF Writable, Prepared
<1> HIDE DEF d
<1>3. Added(c, d, i.op, t) /\ d.parsing = c.parsing
  BY <1>1, <1>2 DEF Written, Added
<1> QED
  BY <1>3 DEF d

LEMMA PlainAdded ==
    ASSUME NEW c, Sound(c), NEW op \in Ops \ ConstantOps, NEW s \in Nat,
           s = c.stack - Pops(Plain(op, 0)) + Pushes(Plain(op, 0)),
           Runs(Last(c.trace), Plain(op, 0), c.max), NEW t,
           t = Step(Last(c.trace), Plain(op, 0))
    PROVE  LET d == Write(Sized(c, s, c.max), Plain(op, 0), NoKey)
           IN  Added(c, d, op, t) /\ d.parsing = c.parsing
<1> DEFINE i == Plain(op, 0)
           b == Sized(c, s, c.max)
<1>1. i \in Instruction /\ i.op = op /\ i.op \notin ConstantOps
  BY PlainInstruction
<1>2. s = c.stack - Pops(i) + Pushes(i) /\ Runs(Last(c.trace), i, c.max)
      /\ t = Step(Last(c.trace), i)
  OBVIOUS
<1> HIDE DEF i
<1>3. c.max \in Nat /\ c.max <= c.max /\ Len(c.consts) \in Nat
  BY CodeParts
<1>4. Prepared(c, b, i) /\ b.max = c.max /\ b.consts = c.consts
  BY <1>1, <1>2, <1>3, PlainPrepared
<1> HIDE DEF b
<1>5. Writable(c, b, i, NoKey)
  BY <1>1, <1>2, <1>4 DEF Writable
<1>6. Len(b.consts) <= Len(c.consts) + 1
  BY <1>3, <1>4
<1>7. Added(c, Write(b, i, NoKey), i.op, t) /\ Write(b, i, NoKey).parsing = c.parsing
  BY <1>2, <1>5, <1>6, WrittenAdded
<1> QED
  BY <1>1, <1>7 DEF i, b

(* Outside of a variable, and at the start of one.                         *)
Closed == [depth |-> 0, open |-> FALSE]
Open == [depth |-> 0, open |-> TRUE]

LEMMA NodeRuns ==
    ASSUME NEW c, Sound(c), c.stack = 0, ~Last(c.trace).open,
           NEW i \in Instruction, i.op \in NodeOps
    PROVE  /\ Runs(Last(c.trace), i, c.max) /\ Pops(i) = 0 /\ Pushes(i) = 0
           /\ Step(Last(c.trace), i) = [depth |-> 0, open |-> i.op = "RENDER_VARIABLE_RESCUE"]
<1>1. c.max \in Nat /\ Last(c.trace).depth = 0
  BY CodeParts
<1>2. /\ i.op \notin UnaryOps \cup BinaryOps \cup FilterOps \cup ScratchOps
      /\ i.op # "POP_WRITE" /\ i.op # "HASH_NEW"
  BY DEF NodeOps, UnaryOps, ScratchOps, BinaryOps, FilterOps
<1>3. Pops(i) = 0 /\ Pushes(i) = 0
  BY <1>2 DEF Pops, Pushes
<1>4. Runs(Last(c.trace), i, c.max)
  BY <1>1, <1>2, <1>3 DEF Runs
<1>5. Step(Last(c.trace), i) = [depth |-> 0, open |-> i.op = "RENDER_VARIABLE_RESCUE"]
  <2> DEFINE t == Last(c.trace)
             x == t.depth - Pops(i) + Pushes(i)
             o == i.op = "RENDER_VARIABLE_RESCUE" \/ (t.open /\ i.op # "POP_WRITE")
             w == i.op = "RENDER_VARIABLE_RESCUE"
  <2>1. Step(t, i) = [depth |-> x, open |-> o]
    BY Zenon DEF Step
  <2>2. x = 0
    BY <1>1, <1>3
  <2>3. o = w
    <3>1. ~t.open
      OBVIOUS
    <3> QED
      BY <3>1
  <2> HIDE DEF t, x, o, w
  <2>4. Step(t, i) = [depth |-> 0, open |-> w]
    BY <2>1, <2>2, <2>3, Zenon
  <2> QED
    BY <2>4 DEF t, w
<1> QED
  BY <1>3, <1>4, <1>5

LEMMA WriteRawAdded ==
    ASSUME NEW c, Sound(c), c.stack = 0, ~Last(c.trace).open
    PROVE  Added(c, AddWriteRaw(c), "WRITE_RAW", Closed) /\ AddWriteRaw(c).parsing = c.parsing
<1> DEFINE i == Plain("WRITE_RAW", 0)
<1>1. i \in Instruction /\ i.op = "WRITE_RAW" /\ i.op \in NodeOps
      /\ "WRITE_RAW" \in Ops \ ConstantOps
  BY PlainInstruction DEF NodeOps, Ops, ConstantOps
<1>2. /\ Runs(Last(c.trace), i, c.max) /\ Pops(i) = 0 /\ Pushes(i) = 0
      /\ Step(Last(c.trace), i) = [depth |-> 0, open |-> i.op = "RENDER_VARIABLE_RESCUE"]
  BY <1>1, NodeRuns
<1>3. Step(Last(c.trace), i) = Closed
  <2>1. (i.op = "RENDER_VARIABLE_RESCUE") = FALSE
    BY <1>1
  <2> QED
    BY <1>2, <2>1, Zenon DEF Closed
<1>4. 0 = c.stack - Pops(i) + Pushes(i)
  BY <1>2
<1>5. AddWriteRaw(c) = Write(Sized(c, 0, c.max), i, NoKey)
  <2>1. c = Sized(c, c.stack, c.max)
    BY CodeParts, SizedSame
  <2> QED
    BY <2>1, Zenon DEF AddWriteRaw
<1> QED
  BY <1>1, <1>2, <1>3, <1>4, <1>5, PlainAdded

LEMMA RenderVariableRescueAdded ==
    ASSUME NEW c, Sound(c), c.stack = 0, ~Last(c.trace).open
    PROVE  /\ Added(c, AddRenderVariableRescue(c), "RENDER_VARIABLE_RESCUE", Open)
           /\ AddRenderVariableRescue(c).parsing = c.parsing
<1> DEFINE i == Plain("RENDER_VARIABLE_RESCUE", 0)
<1>1. i \in Instruction /\ i.op = "RENDER_VARIABLE_RESCUE" /\ i.op \in NodeOps
      /\ "RENDER_VARIABLE_RESCUE" \in Ops \ ConstantOps
  BY PlainInstruction DEF NodeOps, Ops, ConstantOps
<1>2. /\ Runs(Last(c.trace), i, c.max) /\ Pops(i) = 0 /\ Pushes(i) = 0
      /\ Step(Last(c.trace), i) = [depth |-> 0, open |-> i.op = "RENDER_VARIABLE_RESCUE"]
  BY <1>1, NodeRuns
<1>3. Step(Last(c.trace), i) = Open
  <2>1. (i.op = "RENDER_VARIABLE_RESCUE") = TRUE
    BY <1>1
  <2> QED
    BY <1>2, <2>1, Zenon DEF Open
<1>4. 0 = c.stack - Pops(i) + Pushes(i)
  BY <1>2
<1>5. AddRenderVariableRescue(c) = Write(Sized(c, 0, c.max), i, NoKey)
  <2>1. c = Sized(c, c.stack, c.max)
    BY CodeParts, SizedSame
  <2> QED
    BY <2>1, Zenon DEF AddRenderVariableRescue
<1> QED
  BY <1>1, <1>2, <1>3, <1>4, <1>5, PlainAdded

LEMMA WriteNodeAdded ==
    ASSUME NEW c, Sound(c), c.stack = 0, ~Last(c.trace).open,
           NEW k \in Key, Len(c.consts) < IndexMod
    PROVE  /\ Added(c, AddWriteNode(c, k), "WRITE_NODE", Closed)
           /\ AddWriteNode(c, k).parsing = c.parsing
<1> DEFINE b == WriteConstant(c, k)
           x == ConstantIndex(c, k)
           i == [op |-> "WRITE_NODE", const |-> x, n |-> 0]
           p == Plain("WRITE_NODE", 0)
<1>0. c = Sized(c, 0, c.max) /\ c.max \in Nat /\ c.max <= c.max /\ Len(c.consts) \in Nat
  <2>1. c = Sized(c, c.stack, c.max)
    BY CodeParts, SizedSame
  <2> QED
    BY <2>1, CodeParts
<1>1. p \in Instruction /\ p.op = "WRITE_NODE" /\ p.op \in NodeOps
  <2>1. "WRITE_NODE" \in Ops
    BY DEF NodeOps, Ops
  <2> QED
    BY <2>1, PlainInstruction DEF NodeOps
<1>2. Pops(p) = 0 /\ Pushes(p) = 0
  BY <1>1, NodeRuns
<1>3. 0 = c.stack - Pops(p) + Pushes(p)
  BY <1>2
<1>4. /\ Prepared(c, b, p) /\ b.max = c.max /\ b.stack = 0
      /\ Len(b.consts) <= Len(c.consts) + 1
      /\ x \in 0..(Len(b.consts) - 1) /\ b.consts[x + 1] = k
  <2> HIDE DEF p
  <2> QED
    BY <1>0, <1>1, <1>3, ConstantPrepared
<1>5. x \in Nat
  <2>1. b.consts \in Seq(Key)
    BY <1>4 DEF Prepared, CodeType
  <2>2. Len(b.consts) \in Nat
    BY <2>1
  <2> HIDE DEF x
  <2> QED
    BY <1>4, <2>2
<1>6. i \in Instruction /\ i.op = "WRITE_NODE" /\ i.const = x /\ i.op \in NodeOps
  <2>1. "WRITE_NODE" \in Ops /\ "WRITE_NODE" \in NodeOps
    BY DEF NodeOps, Ops
  <2> HIDE DEF x
  <2> QED
    BY <1>5, <2>1 DEF Instruction
<1>12. AddWriteNode(c, k) = Write(b, i, k)
  BY DEF AddWriteNode, AddOpWithConstant
<1> HIDE DEF b, x, i, p
<1>7. /\ Runs(Last(c.trace), i, c.max) /\ Pops(i) = 0 /\ Pushes(i) = 0
      /\ Step(Last(c.trace), i) = [depth |-> 0, open |-> i.op = "RENDER_VARIABLE_RESCUE"]
  BY <1>6, NodeRuns
<1>8. Closed = Step(Last(c.trace), i)
  <2>1. (i.op = "RENDER_VARIABLE_RESCUE") = FALSE
    BY <1>6
  <2> QED
    BY <1>7, <2>1, Zenon DEF Closed
<1>9. Prepared(c, b, i)
  BY <1>2, <1>4, <1>7 DEF Prepared
<1>13. i.const \in 0..(Len(b.consts) - 1) /\ b.consts[i.const + 1] = k
  BY <1>4, <1>6
<1>10. Writable(c, b, i, k)
  BY <1>4, <1>6, <1>7, <1>9, <1>13 DEF Writable
<1>11. Added(c, Write(b, i, k), i.op, Closed) /\ Write(b, i, k).parsing = c.parsing
  BY <1>4, <1>8, <1>10, WrittenAdded
<1> QED
  BY <1>6, <1>11, <1>12

LEMMA PopWriteAdded ==
    ASSUME NEW c, Sound(c), c.stack = 1, Last(c.trace).open
    PROVE  Added(c, AddPopWrite(c), "POP_WRITE", Closed) /\ AddPopWrite(c).parsing = c.parsing
<1> DEFINE i == Plain("POP_WRITE", 0)
           t == Last(c.trace)
<1>1. i \in Instruction /\ i.op = "POP_WRITE" /\ "POP_WRITE" \in Ops \ ConstantOps
  BY PlainInstruction DEF Ops, ConstantOps
<1>2. Pops(i) = 1 /\ Pushes(i) = 0
  BY <1>1 DEF Pops, Pushes
<1>3. c.max \in Nat /\ t.depth = 1
  BY CodeParts
<1>4. Runs(t, i, c.max)
  <2>1. t.open
    OBVIOUS
  <2> HIDE DEF t, i
  <2> QED
    BY <1>1, <1>2, <1>3, <2>1 DEF Runs, NodeOps, ScratchOps
<1>5. Step(t, i) = Closed
  <2> DEFINE x == t.depth - Pops(i) + Pushes(i)
             o == i.op = "RENDER_VARIABLE_RESCUE" \/ (t.open /\ i.op # "POP_WRITE")
  <2>1. Step(t, i) = [depth |-> x, open |-> o]
    BY Zenon DEF Step
  <2>2. x = 0
    BY <1>2, <1>3
  <2>3. o = FALSE
    BY <1>1
  <2> HIDE DEF t, x, o
  <2> QED
    BY <2>1, <2>2, <2>3, Zenon DEF Closed
<1>6. 0 = c.stack - Pops(i) + Pushes(i)
  BY <1>2
<1>7. AddPopWrite(c) = Write(Sized(c, 0, c.max), i, NoKey)
  <2>1. c.stack - 1 = 0 /\ c \in CodeType
    BY CodeParts
  <2>2. [c EXCEPT !.stack = c.stack - 1] = Sized(c, c.stack - 1, c.max)
    BY <2>1, SizedSame, Zenon
  <2> QED
    BY <2>1, <2>2, Zenon DEF AddPopWrite
<1> HIDE DEF i
<1> QED
  BY <1>1, <1>4, <1>5, <1>6, <1>7, PlainAdded DEF i

-----------------------------------------------------------------------------
(* The end of a code                                                       *)

LEMMA FreshSound == Sound(Fresh)
<1> DEFINE f == Fresh
<1>1. /\ f.ins = << >> /\ f.consts = << >> /\ f.table = [k \in Key |-> NoIndex]
      /\ f.max = 0 /\ f.stack = 0 /\ f.prot = 0 /\ f.parsing = TRUE
      /\ f.trace = <<Entry>> /\ f.meant = << >>
  BY DEF Fresh
<1>2. /\ Len(f.ins) = 0 /\ Len(f.consts) = 0 /\ Len(f.meant) = 0 /\ Len(f.trace) = 1
      /\ f.trace[1] = Entry
  BY <1>1
<1>3. Entry \in [depth : Nat, open : BOOLEAN] /\ Entry.depth = 0
  BY DEF Entry
<1>4. f \in CodeType
  <2>1. /\ f.ins \in Seq(Instruction) /\ f.consts \in Seq(Key)
        /\ f.trace \in Seq([depth : Nat, open : BOOLEAN])
        /\ f.meant \in Seq(Key \cup {NoKey})
    BY <1>1, <1>3
  <2>2. f.table \in [Key -> Int]
    BY <1>1 DEF NoIndex
  <2>3. f = [ins |-> f.ins, consts |-> f.consts, table |-> f.table,
             max |-> f.max, stack |-> f.stack, prot |-> f.prot, parsing |-> f.parsing,
             trace |-> f.trace, meant |-> f.meant]
    BY DEF Fresh
  <2> HIDE DEF f
  <2>4. f.max \in Nat /\ f.stack \in Nat /\ f.prot \in Nat
    BY <1>1
  <2>5. f.parsing \in BOOLEAN
    BY <1>1
  <2> QED
    BY <2>1, <2>2, <2>3, <2>4, <2>5 DEF CodeType
<1> HIDE DEF f
<1>5. TraceSound(f) /\ ConstantsResolve(f)
  BY <1>2 DEF TraceSound, ConstantsResolve
<1>6. TableSound(f)
  BY <1>1 DEF TableSound
<1>7. LedgerSound(f)
  BY <1>1, <1>2, <1>3 DEF LedgerSound, Last
<1> QED
  BY <1>4, <1>5, <1>6, <1>7 DEF Sound, Body, f

LEMMA GrownNothing ==
    ASSUME NEW c, Sound(c)
    PROVE  Grown(c, c, 0)
<1>1. Len(c.ins) \in Nat /\ Len(c.consts) \in Nat /\ c.stack \in Nat
      /\ Last(c.trace) = c.trace[Len(c.ins) + 1]
  BY CodeParts
<1>2. c.stack = c.stack + 0 /\ Len(c.ins) >= Len(c.ins) /\ Len(c.consts) >= Len(c.consts)
  BY <1>1
<1>3. \A j \in Len(c.ins) + 1..Len(c.ins) + 1 : c.trace[j].open = Last(c.trace).open
  BY <1>1
<1>4. \A j \in Len(c.ins) + 1..Len(c.ins) : FALSE
  BY <1>1
<1> QED
  BY <1>2, <1>3, <1>4 DEF Grown

(* An expression that is compiled on an assembler of its own               *)
LEMMA GrownLoose ==
    ASSUME NEW s, NEW g, Grown(Fresh, s, g)
    PROVE  /\ Sound(s) /\ Loose(s) /\ s.stack = 0 + g /\ s.prot = 0 /\ s.parsing = TRUE
           /\ \A j \in 1..Len(s.ins) : s.ins[j].op \in ExpressionOps
           /\ \A j \in 1..Len(s.ins) + 1 : s.trace[j].open = FALSE
<1>1. /\ Len(Fresh.ins) = 0 /\ Fresh.stack = 0 /\ Fresh.prot = 0 /\ Fresh.parsing = TRUE
      /\ Last(Fresh.trace).open = FALSE
  BY DEF Fresh, Last, Entry
<1>2. Sound(s) /\ Len(s.ins) \in Nat
  BY CodeParts DEF Grown
<1>3. s.stack = 0 + g /\ s.prot = 0 /\ s.parsing = TRUE
  BY <1>1 DEF Grown
<1>4. \A j \in 0 + 1..Len(s.ins) : s.ins[j].op \in ExpressionOps
  BY <1>1 DEF Grown
<1>5. \A j \in 0 + 1..Len(s.ins) + 1 : s.trace[j].open = FALSE
  BY <1>1 DEF Grown
<1>6. \A j \in 1..Len(s.ins) : j + 1 \in 1..Len(s.ins) + 1
  BY <1>2
<1>7. /\ \A j \in 1..Len(s.ins) : s.ins[j].op \in ExpressionOps
      /\ \A j \in 1..Len(s.ins) + 1 : s.trace[j].open = FALSE
  BY <1>4, <1>5
<1>8. Loose(s)
  BY <1>6, <1>7 DEF Loose
<1> QED
  BY <1>2, <1>3, <1>7, <1>8

LEMMA ConcatGrown ==
    ASSUME NEW c, NEW s, Sound(c), Sound(s), Loose(s),
           \A j \in 1..Len(s.ins) : s.ins[j].op \in ExpressionOps,
           Len(c.consts) + Len(s.consts) <= IndexMod
    PROVE  /\ Grown(c, Concat(c, s), s.stack)
           /\ Len(Concat(c, s).consts) = Len(c.consts) + Len(s.consts)
<1> DEFINE d == Concat(c, s)
           n == Len(c.ins)
           m == Len(s.ins)
<1>1. Joined(c, s, d)
  BY ConcatJoined
<1>2. /\ n \in Nat /\ m \in Nat /\ Len(c.consts) \in Nat /\ Len(s.consts) \in Nat
      /\ Last(c.trace) = c.trace[n + 1]
  BY CodeParts
<1> HIDE DEF d
<1>3. /\ Sound(d) /\ d.stack = c.stack + s.stack /\ d.prot = c.prot /\ d.parsing = c.parsing
      /\ Len(d.consts) = Len(c.consts) + Len(s.consts)
      /\ Len(d.ins) = n + m
      /\ \A j \in 1..n : d.ins[j] = c.ins[j]
      /\ \A j \in 1..n + 1 : d.trace[j] = c.trace[j]
  BY <1>1 DEF Joined
<1>4. /\ \A j \in 1..m : d.ins[n + j].op = s.ins[j].op
      /\ \A j \in 1..m : d.trace[n + 1 + j].open = Last(c.trace).open
  BY <1>1 DEF Joined
<1> HIDE DEF n, m
<1>5. Len(d.ins) >= n /\ Len(d.consts) >= Len(c.consts)
  <2>1. \A x, y, z \in Nat : z = x + y => z >= x
    OBVIOUS
  <2>2. Len(d.ins) \in Nat /\ Len(d.consts) \in Nat
    BY <1>3, CodeParts
  <2> QED
    BY <1>2, <1>3, <2>1, <2>2
<1>6. ASSUME NEW j \in n + 1..Len(d.ins)
      PROVE  d.ins[j].op \in ExpressionOps
  <2> DEFINE l == j - n
  <2>1. l \in 1..m /\ j = n + l
    BY <1>2, <1>3
  <2> HIDE DEF l
  <2>2. s.ins[l].op \in ExpressionOps
    BY <2>1 DEF m
  <2> QED
    BY <1>4, <2>1, <2>2
<1>7. ASSUME NEW j \in n + 1..Len(d.ins) + 1
      PROVE  d.trace[j].open = Last(c.trace).open
  <2>1. CASE j = n + 1
    <3>1. j \in 1..n + 1
      BY <1>2, <2>1
    <3> QED
      BY <1>2, <1>3, <2>1, <3>1
  <2>2. CASE j # n + 1
    <3> DEFINE l == j - (n + 1)
    <3>1. l \in 1..m /\ j = n + 1 + l
      BY <1>2, <1>3, <2>2
    <3> HIDE DEF l
    <3> QED
      BY <1>4, <3>1
  <2> QED
    BY <2>1, <2>2
<1>8. Grown(c, d, s.stack)
  BY <1>3, <1>5, <1>6, <1>7 DEF Grown, n
<1> QED
  BY <1>3, <1>8 DEF d

LEMMA SameSound ==
    ASSUME NEW c, Sound(c), NEW d \in CodeType, d.ins = c.ins, d.trace = c.trace,
           d.meant = c.meant, d.consts = c.consts, d.table = c.table,
           d.max = c.max, d.stack = c.stack
    PROVE  Sound(d)
<1>1. TraceSound(d)
  BY DEF Sound, Body, TraceSound
<1>2. TableSound(d)
  BY DEF Sound, Body, TableSound
<1>3. ConstantsResolve(d)
  BY DEF Sound, Body, ConstantsResolve
<1>4. LedgerSound(d)
  BY DEF Sound, LedgerSound
<1> QED
  BY <1>1, <1>2, <1>3, <1>4 DEF Sound, Body

LEMMA LeaveAdded ==
    ASSUME NEW c, Sound(c)
    PROVE  /\ Added(c, AddLeave(c), "LEAVE", Last(c.trace))
           /\ AddLeave(c).parsing = FALSE /\ AddLeave(c).consts = c.consts
<1> DEFINE i == Plain("LEAVE", 0)
           t == Last(c.trace)
           b == Sized(c, c.stack, c.max)
           w == Write(b, i, NoKey)
           d == AddLeave(c)
<1>1. i \in Instruction /\ i.op = "LEAVE" /\ i.op \notin ConstantOps
  BY PlainInstruction DEF Ops, ConstantOps
<1>2. /\ c \in CodeType /\ t \in Situation /\ c.max \in Nat /\ c.stack \in Nat
      /\ c.stack = t.depth /\ c.stack <= c.max /\ Len(c.consts) \in Nat
  BY CodeParts
<1>3. Pops(i) = 0 /\ Pushes(i) = 0
  BY <1>1 DEF Pops, Pushes, UnaryOps, ScratchOps, BinaryOps, FilterOps
<1>4. t.depth \in Nat /\ t.open \in BOOLEAN
  BY <1>2 DEF Situation
<1>13. d = [w EXCEPT !.parsing = FALSE]
  <2>1. c = b
    BY <1>2, SizedSame
  <2> QED
    BY <2>1, Zenon DEF AddLeave
<1> HIDE DEF i
<1>5. Runs(t, i, c.max)
  BY <1>1, <1>2, <1>3, <1>4 DEF Runs, NodeOps, ScratchOps
<1>6. t = Step(t, i)
  <2> DEFINE x == t.depth - Pops(i) + Pushes(i)
             o == i.op = "RENDER_VARIABLE_RESCUE" \/ (t.open /\ i.op # "POP_WRITE")
             a == t.depth
             u == t.open
  <2>1. Step(t, i) = [depth |-> x, open |-> o]
    BY Zenon DEF Step
  <2>2. x = a
    BY <1>3, <1>4
  <2>3. o = u
    BY <1>1, <1>4
  <2>4. t = [depth |-> a, open |-> u]
    BY <1>2 DEF Situation
  <2> HIDE DEF t, x, o, a, u
  <2> QED
    BY <2>1, <2>2, <2>3, <2>4, Zenon
<1>7. c.stack = c.stack - Pops(i) + Pushes(i) /\ c.max <= c.max
  BY <1>2, <1>3
<1>8. Prepared(c, b, i) /\ b.max = c.max /\ b.consts = c.consts
  BY <1>1, <1>2, <1>7, PlainPrepared
<1> HIDE DEF b
<1>9. Writable(c, b, i, NoKey)
  BY <1>1, <1>5, <1>8 DEF Writable
<1>10. Len(b.consts) <= Len(c.consts) + 1
  BY <1>2, <1>8
<1>11. Added(c, w, "LEAVE", t)
  BY <1>1, <1>6, <1>9, <1>10, WrittenAdded
<1>12. Written(c, b, i, w)
  BY <1>9, WriteSound
<1>14. Sound(w) /\ w \in CodeType /\ w.consts = c.consts
  BY <1>8, <1>12 DEF Written, Sound
<1> HIDE DEF w, d, t
<1>15. /\ d \in CodeType /\ d.ins = w.ins /\ d.trace = w.trace /\ d.meant = w.meant
       /\ d.consts = w.consts /\ d.table = w.table /\ d.max = w.max
       /\ d.stack = w.stack /\ d.prot = w.prot /\ d.parsing = FALSE
  BY <1>13, <1>14 DEF CodeType
<1>16. Sound(d)
  BY <1>14, <1>15, SameSound
<1>17. Added(c, d, "LEAVE", t)
  BY <1>11, <1>15, <1>16 DEF Added
<1> QED
  BY <1>14, <1>15, <1>17 DEF d, t

(* d is what is left of c when its last instructions are dropped.          *)
Cut(c, d, n) ==
    /\ d \in CodeType /\ n \in 0..Len(c.ins)
    /\ d.ins = SubSeq(c.ins, 1, n) /\ d.trace = SubSeq(c.trace, 1, n + 1)
    /\ d.meant = SubSeq(c.meant, 1, n) /\ d.max = c.max

Prefix(c, d, n) ==
    /\ Len(d.ins) = n /\ Len(d.trace) = n + 1 /\ Len(d.meant) = n
    /\ \A j \in 1..n : d.ins[j] = c.ins[j] /\ d.meant[j] = c.meant[j]
    /\ \A j \in 1..n + 1 : d.trace[j] = c.trace[j]

LEMMA CutPrefix ==
    ASSUME NEW c, NEW d, NEW n, Sound(c), Cut(c, d, n)
    PROVE  Prefix(c, d, n)
<1>1. /\ c.ins \in Seq(Instruction) /\ c.trace \in Seq(Situation)
      /\ c.meant \in Seq(Key \cup {NoKey})
  BY CodeParts
<1>2. /\ Len(c.ins) \in Nat /\ Len(c.trace) = Len(c.ins) + 1 /\ Len(c.meant) = Len(c.ins)
  BY CodeParts
<1>3. n \in 0..Len(c.ins)
  BY DEF Cut
<1>4. n \in 0..Len(c.meant) /\ n + 1 \in 0..Len(c.trace)
  BY <1>2, <1>3
<1>5. /\ Len(SubSeq(c.ins, 1, n)) = n
      /\ \A j \in 1..n : SubSeq(c.ins, 1, n)[j] = c.ins[j]
  BY <1>1, <1>3, PrefixElements
<1>6. /\ Len(SubSeq(c.meant, 1, n)) = n
      /\ \A j \in 1..n : SubSeq(c.meant, 1, n)[j] = c.meant[j]
  BY <1>1, <1>4, PrefixElements
<1>7. /\ Len(SubSeq(c.trace, 1, n + 1)) = n + 1
      /\ \A j \in 1..n + 1 : SubSeq(c.trace, 1, n + 1)[j] = c.trace[j]
  BY <1>1, <1>4, PrefixElements
<1> DEFINE x == SubSeq(c.ins, 1, n)
           y == SubSeq(c.meant, 1, n)
           z == SubSeq(c.trace, 1, n + 1)
<1>8. d.ins = x /\ d.meant = y /\ d.trace = z
  BY DEF Cut
<1>9. /\ Len(x) = n /\ (\A j \in 1..n : x[j] = c.ins[j])
      /\ Len(y) = n /\ (\A j \in 1..n : y[j] = c.meant[j])
      /\ Len(z) = n + 1 /\ (\A j \in 1..n + 1 : z[j] = c.trace[j])
  BY <1>5, <1>6, <1>7
<1> HIDE DEF x, y, z
<1> QED
  BY <1>8, <1>9 DEF Prefix

LEMMA CutSound ==
    ASSUME NEW c, NEW d, NEW n, Sound(c), Cut(c, d, n), TableSound(d),
           d.stack = c.trace[n + 1].depth, d.stack <= d.max,
           \A j \in 1..Len(d.consts) : d.consts[j] = c.consts[j],
           \A j \in 1..n : c.ins[j].op \in ConstantOps => c.ins[j].const < Len(d.consts)
    PROVE  Sound(d)
<1>1. Prefix(c, d, n)
  BY CutPrefix
<1>2. /\ Len(d.ins) = n /\ Len(d.trace) = n + 1 /\ Len(d.meant) = n
      /\ \A j \in 1..n : d.ins[j] = c.ins[j] /\ d.meant[j] = c.meant[j]
      /\ \A j \in 1..n + 1 : d.trace[j] = c.trace[j]
  BY <1>1 DEF Prefix
<1>3. n \in Nat /\ Len(c.ins) \in Nat /\ n <= Len(c.ins) /\ d \in CodeType /\ d.max = c.max
  BY CodeParts DEF Cut
<1>4. \A j \in 1..n : j \in 1..Len(c.ins) /\ j \in 1..n + 1 /\ j + 1 \in 1..n + 1
  BY <1>3
<1>5. TraceSound(d)
  <2>1. d.trace[1] = Entry
    <3>1. 1 \in 1..n + 1 /\ c.trace[1] = Entry
      BY <1>3, CodeParts
    <3> QED
      BY <1>2, <3>1
  <2>2. \A j \in 1..Len(c.ins) : /\ c.trace[j + 1] = Step(c.trace[j], c.ins[j])
                                 /\ Runs(c.trace[j], c.ins[j], c.max)
    BY DEF Sound, Body, TraceSound
  <2>3. ASSUME NEW j \in 1..n
        PROVE  d.trace[j + 1] = Step(d.trace[j], d.ins[j]) /\ Runs(d.trace[j], d.ins[j], d.max)
    BY <1>2, <1>3, <1>4, <2>2
  <2> QED
    BY <1>2, <2>1, <2>3 DEF TraceSound
<1>6. ConstantsResolve(d)
  <2>1. \A j \in 1..Len(c.ins) : c.ins[j].op \in ConstantOps =>
           /\ c.ins[j].const \in 0..(Len(c.consts) - 1)
           /\ c.consts[c.ins[j].const + 1] = c.meant[j]
    BY DEF Sound, Body, ConstantsResolve
  <2>2. Len(c.consts) \in Nat /\ Len(d.consts) \in Nat
    <3>1. d.consts \in Seq(Key)
      BY <1>3 DEF CodeType
    <3> QED
      BY <3>1, CodeParts
  <2>3. ASSUME NEW j \in 1..n, d.ins[j].op \in ConstantOps
        PROVE  /\ d.ins[j].const \in 0..(Len(d.consts) - 1)
               /\ d.consts[d.ins[j].const + 1] = d.meant[j]
    <3> DEFINE x == c.ins[j].const
    <3>1. d.ins[j].const = x /\ d.meant[j] = c.meant[j] /\ c.ins[j].op \in ConstantOps
      BY <1>2, <2>3
    <3>2. x \in 0..(Len(c.consts) - 1) /\ c.consts[x + 1] = c.meant[j] /\ x < Len(d.consts)
      BY <1>4, <2>1, <3>1
    <3> HIDE DEF x
    <3>3. x \in 0..(Len(d.consts) - 1) /\ x + 1 \in 1..Len(d.consts)
      BY <2>2, <3>2
    <3> QED
      BY <3>1, <3>2, <3>3
  <2> QED
    BY <1>2, <2>3 DEF ConstantsResolve
<1>7. LedgerSound(d)
  <2>1. Last(d.trace) = c.trace[n + 1]
    <3>1. n + 1 \in 1..n + 1
      BY <1>3
    <3> QED
      BY <1>2, <3>1 DEF Last
  <2> QED
    BY <2>1 DEF LedgerSound
<1> QED
  BY <1>3, <1>5, <1>6, <1>7 DEF Sound, Body

LEMMA LeaveRemoved ==
    ASSUME NEW c, Sound(c), NEW n \in Nat, Len(c.ins) = n + 1, c.ins[n + 1].op = "LEAVE"
    PROVE  LET d == RemoveLeave(c)
           IN  /\ Sound(d) /\ Prefix(c, d, n) /\ Last(d.trace) = Last(c.trace)
               /\ d.stack = c.stack /\ d.prot = c.prot /\ d.parsing = TRUE
               /\ d.consts = c.consts
<1> DEFINE d == RemoveLeave(c)
           x == SubSeq(c.ins, 1, n)
           y == SubSeq(c.meant, 1, n)
           z == SubSeq(c.trace, 1, n + 1)
<1>1. /\ c \in CodeType /\ c.ins \in Seq(Instruction) /\ c.trace \in Seq(Situation)
      /\ c.meant \in Seq(Key \cup {NoKey})
  BY CodeParts
<1>2. /\ Len(c.trace) = n + 2 /\ Len(c.meant) = n + 1
      /\ c.stack = Last(c.trace).depth /\ Last(c.trace) \in Situation
      /\ Last(c.trace) = c.trace[n + 2] /\ c.stack <= c.max
  <2>1. /\ Len(c.trace) = n + 1 + 1 /\ Last(c.trace) = c.trace[n + 1 + 1]
        /\ Len(c.meant) = n + 1 /\ c.stack <= c.max
        /\ c.stack = Last(c.trace).depth /\ Last(c.trace) \in Situation
    BY CodeParts
  <2>2. n + 1 + 1 = n + 2
    OBVIOUS
  <2> QED
    BY <2>1, <2>2, Zenon
<1>3. d = [c EXCEPT !.parsing = TRUE, !.ins = x, !.trace = z, !.meant = y]
  <2>1. Len(c.ins) - 1 = n /\ Len(c.trace) - 1 = n + 1 /\ Len(c.meant) - 1 = n
    BY <1>2
  <2> QED
    BY <2>1, Zenon DEF RemoveLeave
<1>4. n \in 0..Len(c.ins) /\ n \in 0..Len(c.meant) /\ n + 1 \in 0..Len(c.trace)
  BY <1>2
<1>5. x \in Seq(Instruction) /\ y \in Seq(Key \cup {NoKey}) /\ z \in Seq(Situation)
  <2>1. x \in Seq(Instruction)
    BY <1>1, <1>4, PrefixElements
  <2>2. y \in Seq(Key \cup {NoKey})
    BY <1>1, <1>4, PrefixElements
  <2>3. z \in Seq(Situation)
    BY <1>1, <1>4, PrefixElements
  <2> QED
    BY <2>1, <2>2, <2>3
<1> HIDE DEF d, x, y, z
<1>6. /\ d \in CodeType /\ d.ins = x /\ d.meant = y /\ d.trace = z /\ d.max = c.max
      /\ d.stack = c.stack /\ d.prot = c.prot /\ d.consts = c.consts /\ d.table = c.table
      /\ d.parsing = TRUE
  BY <1>1, <1>3, <1>5 DEF CodeType, Situation
<1>7. Cut(c, d, n)
  BY <1>4, <1>6 DEF Cut, x, y, z
<1>8. Prefix(c, d, n)
  BY <1>7, CutPrefix
<1>9. c.trace[n + 1] = Last(c.trace)
  <2>1. n + 1 \in 1..Len(c.ins) /\ (n + 1) + 1 = n + 2
    BY <1>4
  <2>2. c.trace[n + 2] = Step(c.trace[n + 1], c.ins[n + 1])
    BY <2>1 DEF Sound, Body, TraceSound
  <2>3. c.trace[n + 1] \in Situation
    <3>1. n + 1 \in 1..Len(c.trace)
      BY <1>2
    <3> QED
      BY <1>1, <3>1, ElementOf
  <2> DEFINE t == c.trace[n + 1]
             i == c.ins[n + 1]
             a == t.depth
             u == t.open
             v == t.depth - Pops(i) + Pushes(i)
             o == i.op = "RENDER_VARIABLE_RESCUE" \/ (t.open /\ i.op # "POP_WRITE")
  <2>4. Step(t, i) = [depth |-> v, open |-> o]
    BY Zenon DEF Step
  <2>5. t = [depth |-> a, open |-> u] /\ a \in Nat /\ u \in BOOLEAN
    BY <2>3 DEF Situation
  <2>6. i.op = "LEAVE"
    OBVIOUS
  <2> HIDE DEF t, i
  <2>7. Pops(i) = 0 /\ Pushes(i) = 0
    BY <2>6 DEF Pops, Pushes, UnaryOps, ScratchOps, BinaryOps, FilterOps
  <2>8. v = a
    BY <2>5, <2>7
  <2>9. o = u
    BY <2>5, <2>6
  <2> HIDE DEF v, o, a, u
  <2>10. Step(t, i) = t
    BY <2>4, <2>5, <2>8, <2>9, Zenon
  <2> QED
    BY <1>2, <2>2, <2>10 DEF t, i
<1>10. TableSound(d)
  BY <1>6 DEF Sound, Body, TableSound
<1>11. \A j \in 1..n : c.ins[j].op \in ConstantOps => c.ins[j].const < Len(d.consts)
  <2>1. \A j \in 1..n : j \in 1..Len(c.ins)
    BY <1>4
  <2>2. \A j \in 1..Len(c.ins) : c.ins[j].op \in ConstantOps =>
           c.ins[j].const \in 0..(Len(c.consts) - 1)
    BY DEF Sound, Body, ConstantsResolve
  <2>3. Len(c.consts) \in Nat
    BY CodeParts
  <2>4. \A a \in Nat : \A b \in 0..(a - 1) : b < a
    OBVIOUS
  <2>5. \A j \in 1..n : c.ins[j].op \in ConstantOps => c.ins[j].const < Len(c.consts)
    BY <2>1, <2>2, <2>3, <2>4
  <2> QED
    BY <1>6, <2>5
<1>12. Sound(d)
  <2>1. d.stack = c.trace[n + 1].depth /\ d.stack <= d.max
    BY <1>2, <1>6, <1>9
  <2>2. \A j \in 1..Len(d.consts) : d.consts[j] = c.consts[j]
    BY <1>6
  <2> QED
    BY <1>7, <1>10, <1>11, <2>1, <2>2, CutSound
<1>13. Last(d.trace) = Last(c.trace)
  <2>1. Len(d.trace) = n + 1 /\ d.trace[n + 1] = c.trace[n + 1]
    <3>1. n + 1 \in 1..n + 1
      OBVIOUS
    <3> QED
      BY <1>8, <3>1 DEF Prefix
  <2>2. Last(d.trace) = d.trace[n + 1]
    BY <2>1 DEF Last
  <2> QED
    BY <1>9, <2>1, <2>2
<1> QED
  BY <1>6, <1>8, <1>12, <1>13 DEF d

(* vm_assembler_add_evaluate_expression_from_ruby on a Liquid::C::Expression: *)
(* its code is added without its LEAVE.                                    *)
LEMMA ExpressionGrown ==
    ASSUME NEW c, NEW x, NEW g \in Int, Sound(c), c.parsing = TRUE, Grown(Fresh, x, g),
           Len(c.consts) + Len(x.consts) <= IndexMod
    PROVE  /\ Grown(c, RemoveLeave(Concat(c, AddLeave(x))), g)
           /\ Len(RemoveLeave(Concat(c, AddLeave(x))).consts)
                = Len(c.consts) + Len(x.consts)
<1> DEFINE e == AddLeave(x)
           j1 == Concat(c, e)
           d == RemoveLeave(j1)
           n == Len(c.ins)
           m == Len(x.ins)
<1>1. /\ Sound(x) /\ x.stack = 0 + g
      /\ \A j \in 1..m : x.ins[j].op \in ExpressionOps
      /\ \A j \in 1..m + 1 : x.trace[j].open = FALSE
  BY GrownLoose
<1>2. /\ n \in Nat /\ m \in Nat /\ c.stack \in Nat /\ x.stack \in Nat
      /\ Len(c.consts) \in Nat /\ Len(x.consts) \in Nat
      /\ Last(c.trace) = c.trace[n + 1] /\ Last(x.trace) = x.trace[m + 1]
  BY <1>1, CodeParts
<1>3. Added(x, e, "LEAVE", Last(x.trace)) /\ e.consts = x.consts
  BY <1>1, LeaveAdded
<1> HIDE DEF e
<1>4. /\ Sound(e) /\ Last(e.trace) = Last(x.trace) /\ Len(e.ins) = m + 1
      /\ e.ins[m + 1].op = "LEAVE"
      /\ \A j \in 1..m : e.ins[j] = x.ins[j]
      /\ \A j \in 1..m + 1 : e.trace[j] = x.trace[j]
  BY <1>3 DEF Added
<1>5. e.stack = x.stack /\ e.trace[m + 2] = x.trace[m + 1]
  <2>1. /\ e.stack = Last(e.trace).depth /\ x.stack = Last(x.trace).depth
        /\ Last(e.trace) = e.trace[(m + 1) + 1] /\ (m + 1) + 1 = m + 2
    BY <1>1, <1>2, <1>4, CodeParts, SMTT(20)
  <2> QED
    BY <1>2, <1>4, <2>1
<1>6. Loose(e)
  <2>1. ASSUME NEW j \in 1..m + 1
        PROVE  e.ins[j].op \in ExpressionOps \cup {"LEAVE"} /\ e.trace[j + 1].open = FALSE
    <3>1. CASE j = m + 1
      <4>1. j + 1 = m + 2 /\ m + 1 \in 1..m + 1
        BY <1>2, <3>1
      <4> QED
        BY <1>1, <1>4, <1>5, <3>1, <4>1
    <3>2. CASE j # m + 1
      <4>1. j \in 1..m /\ j + 1 \in 1..m + 1
        BY <1>2, <3>2
      <4> QED
        BY <1>1, <1>4, <4>1
    <3> QED
      BY <3>1, <3>2
  <2>2. \A j \in 1..m + 1 : e.trace[j + 1].open = FALSE => ~e.trace[j + 1].open
    OBVIOUS
  <2> QED
    BY <1>4, <2>1, <2>2 DEF Loose
<1>7. Joined(c, e, j1)
  BY <1>3, <1>4, <1>6, ConcatJoined
<1> HIDE DEF j1
<1>8. /\ Sound(j1) /\ j1.stack = c.stack + e.stack /\ j1.prot = c.prot
      /\ Len(j1.consts) = Len(c.consts) + Len(x.consts)
      /\ Len(j1.ins) = n + (m + 1)
      /\ \A j \in 1..n : j1.ins[j] = c.ins[j]
      /\ \A j \in 1..n + 1 : j1.trace[j] = c.trace[j]
      /\ \A j \in 1..m + 1 : j1.ins[n + j].op = e.ins[j].op
      /\ \A j \in 1..m + 1 : j1.trace[n + 1 + j].open = Last(c.trace).open
  BY <1>3, <1>4, <1>7 DEF Joined
<1>9. /\ n + m \in Nat /\ Len(j1.ins) = (n + m) + 1 /\ j1.ins[(n + m) + 1].op = "LEAVE"
  <2> HIDE DEF n, m
  <2>1. (n + m) + 1 = n + (m + 1) /\ m + 1 \in 1..m + 1 /\ n + m \in Nat
    BY <1>2
  <2>2. j1.ins[n + (m + 1)].op = "LEAVE"
    BY <1>4, <1>8, <2>1, Zenon
  <2> QED
    BY <1>8, <2>1, <2>2, Zenon
<1>10. /\ Sound(d) /\ Prefix(j1, d, n + m)
       /\ d.stack = j1.stack /\ d.prot = j1.prot /\ d.parsing = TRUE
       /\ d.consts = j1.consts
  BY <1>8, <1>9, LeaveRemoved
<1> HIDE DEF d
<1>11. /\ Len(d.ins) = n + m
       /\ \A j \in 1..n + m : d.ins[j] = j1.ins[j]
       /\ \A j \in 1..n + m + 1 : d.trace[j] = j1.trace[j]
  BY <1>10 DEF Prefix
<1>12. d.stack = c.stack + g /\ d.prot = c.prot /\ d.parsing = c.parsing
  <2>1. x.stack = g
    BY <1>1
  <2> QED
    BY <1>5, <1>8, <1>10, <2>1
<1>13. Len(d.ins) >= n /\ Len(d.consts) >= Len(c.consts)
  <2>1. \A a, b, k \in Nat : k = a + b => k >= a
    OBVIOUS
  <2>2. Len(d.ins) \in Nat /\ Len(d.consts) \in Nat
    BY <1>10, CodeParts
  <2>3. Len(d.consts) = Len(c.consts) + Len(x.consts)
    BY <1>8, <1>10
  <2> QED
    BY <1>2, <1>11, <2>1, <2>2, <2>3
<1> HIDE DEF n, m
<1>14. /\ \A j \in 1..n : d.ins[j] = c.ins[j]
       /\ \A j \in 1..n + 1 : d.trace[j] = c.trace[j]
  <2>1. \A j \in 1..n : j \in 1..n + m
    BY <1>2
  <2>2. \A j \in 1..n + 1 : j \in 1..n + m + 1
    BY <1>2
  <2> QED
    BY <1>8, <1>11, <2>1, <2>2
<1>15. ASSUME NEW j \in n + 1..Len(d.ins)
       PROVE  d.ins[j].op \in ExpressionOps
  <2> DEFINE l == j - n
  <2>1. l \in 1..m /\ l \in 1..m + 1 /\ j = n + l /\ j \in 1..n + m
    BY <1>2, <1>11
  <2> HIDE DEF l
  <2>2. x.ins[l].op \in ExpressionOps
    BY <1>1, <2>1 DEF m
  <2>3. e.ins[l] = x.ins[l]
    BY <1>4, <2>1
  <2> QED
    BY <1>8, <1>11, <2>1, <2>2, <2>3
<1>16. ASSUME NEW j \in n + 1..Len(d.ins) + 1
       PROVE  d.trace[j].open = Last(c.trace).open
  <2>1. j \in 1..n + m + 1
    BY <1>2, <1>11
  <2>2. CASE j = n + 1
    <3>1. j \in 1..n + 1
      BY <1>2, <2>2
    <3> QED
      BY <1>2, <1>14, <2>2, <3>1
  <2>3. CASE j # n + 1
    <3> DEFINE l == j - (n + 1)
    <3>1. l \in 1..m + 1 /\ j = n + 1 + l
      BY <1>2, <1>11, <2>3
    <3> HIDE DEF l
    <3> QED
      BY <1>8, <1>11, <2>1, <3>1
  <2> QED
    BY <2>2, <2>3
<1>17. Grown(c, d, g)
  BY <1>10, <1>12, <1>13, <1>14, <1>15, <1>16 DEF Grown, n
<1>18. Len(d.consts) = Len(c.consts) + Len(x.consts)
  BY <1>8, <1>10
<1> QED
  BY <1>17, <1>18 DEF d, j1, e
=============================================================================
