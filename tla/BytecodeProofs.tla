--------------------------- MODULE BytecodeProofs ---------------------------
(***************************************************************************)
(* Proofs about Bytecode, for programs of any length and any operands      *)
(* within the widths of the instructions.                                  *)
(*                                                                         *)
(* The inductive invariant (IInv) lays the program out over the bytes: the *)
(* instructions follow each other without a gap, and each reads back as    *)
(* what was written.  Visited is a recursive function over the positions;  *)
(* that it exists, and what it is on code that is laid out so, is proved   *)
(* by induction on the distance from the end.                              *)
(***************************************************************************)
EXTENDS Bytecode, WellFoundedInduction, TLAPS

(* A set of numbers that is not empty has a least element.                 *)
LEMMA LeastElement ==
    ASSUME NEW T, T \subseteq Nat, T # {}
    PROVE  \E x \in T : \A y \in T : x <= y
<1> DEFINE R == OpToRel(<, Nat)
<1>1. IsWellFoundedOn(R, Nat)
  BY NatLessThanWellFounded
<1>2. \A x, y \in Nat : x < y => <<x, y>> \in R
  BY DEF OpToRel
<1> HIDE DEF R
<1>3. PICK x \in T : \A y \in T : ~(<<y, x>> \in R)
  BY <1>1, WFMin
<1>4. \A y \in T : ~(y < x)
  BY <1>2, <1>3, Zenon
<1>5. \A y \in T : x <= y
  BY <1>4
<1> QED
  BY <1>5

(* Induction over the numbers, for a set instead of a predicate.           *)
LEMMA Induction ==
    ASSUME NEW S, 0 \in S, \A n \in Nat : n \in S => n + 1 \in S
    PROVE  Nat \subseteq S
<1> SUFFICES ASSUME NEW n \in Nat, n \notin S
             PROVE  FALSE
  OBVIOUS
<1> DEFINE T == {m \in Nat : m \notin S}
<1>1. T \subseteq Nat /\ T # {}
  OBVIOUS
<1> HIDE DEF T
<1>2. PICK x \in T : \A y \in T : x <= y
  BY <1>1, LeastElement
<1>3. x \in Nat /\ x \notin S
  BY DEF T
<1>4. x # 0 /\ x - 1 \in Nat
  BY <1>3
<1>5. x - 1 \notin T
  BY <1>1, <1>2, <1>4
<1>6. x - 1 \in S
  BY <1>4, <1>5 DEF T
<1> QED
  BY <1>3, <1>4, <1>6

-----------------------------------------------------------------------------
(* What an instruction says, by its opcode and the three bytes behind it,  *)
(* and how many of the four it depends on.                                 *)

Wide == {Op.WRITE_RAW_W, Op.JUMP_FWD_W}
Narrow == {Op.WRITE_RAW, Op.JUMP_FWD}
Indexed == {op \in 0..23 : HasConstant(op)}

Width(op) ==
    IF op \in Bare THEN 1
    ELSE IF op \in Narrow \cup {Op.PUSH_INT8, Op.HASH_NEW} THEN 2
    ELSE IF op \in Wide \cup {Op.RENDER_VARIABLE_RESCUE} THEN 4
    ELSE 3

Value(op, a, b, c) ==
    IF op \in Bare THEN 0
    ELSE IF op \in Indexed THEN a * 256 + b
    ELSE IF op = Op.PUSH_INT8 THEN Signed(a)
    ELSE IF op = Op.PUSH_INT16 THEN Signed(a) * 256 + b
    ELSE IF op = Op.BUILTIN_FILTER THEN <<a, b>>
    ELSE IF op \in Narrow \cup {Op.HASH_NEW} THEN a
    ELSE a * 65536 + b * 256 + c

Size(op, a, b, c) ==
    IF op \in Wide THEN 4 + (a * 65536 + b * 256 + c)
    ELSE IF op \in Narrow THEN 2 + a
    ELSE Width(op)

(* The numbers of the opcodes, and their classes by number.                *)
LEMMA Opcodes ==
    /\ Op.LEAVE = 0 /\ Op.WRITE_RAW_W = 1 /\ Op.WRITE_NODE = 2 /\ Op.POP_WRITE = 3
    /\ Op.WRITE_RAW_SKIP = 4 /\ Op.PUSH_CONST = 5 /\ Op.PUSH_NIL = 6 /\ Op.PUSH_TRUE = 7
    /\ Op.PUSH_FALSE = 8 /\ Op.PUSH_INT8 = 9 /\ Op.PUSH_INT16 = 10
    /\ Op.FIND_STATIC_VAR = 11 /\ Op.FIND_VAR = 12 /\ Op.LOOKUP_CONST_KEY = 13
    /\ Op.LOOKUP_KEY = 14 /\ Op.LOOKUP_COMMAND = 15 /\ Op.NEW_INT_RANGE = 16
    /\ Op.HASH_NEW = 17 /\ Op.FILTER = 18 /\ Op.BUILTIN_FILTER = 19
    /\ Op.RENDER_VARIABLE_RESCUE = 20 /\ Op.WRITE_RAW = 21 /\ Op.JUMP_FWD_W = 22
    /\ Op.JUMP_FWD = 23
BY DEF Op

LEMMA Classes ==
    /\ Bare = {0, 3, 6, 7, 8, 12, 14, 16}
    /\ Indexed = {2, 5, 11, 13, 15, 18}
    /\ Wide = {1, 22} /\ Narrow = {21, 23}
    /\ \A op \in 0..23 : HasConstant(op) <=> op \in Indexed
BY Opcodes, Z3 DEF Bare, Indexed, Wide, Narrow, HasConstant

Kinds == 0..23 \ {Op.WRITE_RAW_SKIP}

Reads(op, value, next) == [kind |-> op, value |-> value, next |-> next]

LEMMA RunIs ==
    ASSUME NEW code, NEW ip \in Nat, code[ip] \in Kinds,
           \A k \in 1..3 : k < Width(code[ip]) => code[ip + k] \in Byte
    PROVE  LET value == Value(code[ip], code[ip + 1], code[ip + 2], code[ip + 3])
               next == ip + Size(code[ip], code[ip + 1], code[ip + 2], code[ip + 3])
           IN Run(code, ip) = Reads(code[ip], value, next) /\ NextInstruction(code, ip) = next
<1> DEFINE op == code[ip]
<1>1. op \in 0..23 /\ op # 4 /\ (HasConstant(op) <=> op \in Indexed)
  BY Opcodes, Classes DEF Kinds
<1>2. CASE op \in Bare
  BY <1>1, <1>2, Opcodes, Classes DEF Run, NextInstruction, Reads, Value, Size, Width
<1>3. CASE op \in Indexed
  BY <1>1, <1>3, Opcodes, Classes DEF Run, NextInstruction, Reads, Value, Size, Width, Uint16
<1>4. CASE op = Op.PUSH_INT8
  BY <1>1, <1>4, Opcodes, Classes DEF Run, NextInstruction, Reads, Value, Size, Width
<1>5. CASE op = Op.PUSH_INT16
  BY <1>1, <1>5, Opcodes, Classes DEF Run, NextInstruction, Reads, Value, Size, Width
<1>6. CASE op = Op.HASH_NEW
  BY <1>1, <1>6, Opcodes, Classes DEF Run, NextInstruction, Reads, Value, Size, Width
<1>7. CASE op = Op.BUILTIN_FILTER
  BY <1>1, <1>7, Opcodes, Classes DEF Run, NextInstruction, Reads, Value, Size, Width
<1>8. CASE op = Op.RENDER_VARIABLE_RESCUE
  BY <1>1, <1>8, Opcodes, Classes DEF Run, NextInstruction, Reads, Value, Size, Width, Uint24
<1>9. CASE op \in Wide
  <2>1. Width(op) = 4
    BY <1>9, Opcodes, Classes DEF Width
  <2>2. code[ip + 1] \in Nat /\ code[ip + 2] \in Nat /\ code[ip + 3] \in Nat
    BY <2>1 DEF Byte
  <2> QED
    BY <1>1, <1>9, <2>1, <2>2, Opcodes, Classes DEF Run, NextInstruction, Reads, Value, Size, Width, Uint24
<1>10. CASE op \in Narrow
  <2>1. Width(op) = 2
    BY <1>10, Opcodes, Classes DEF Width
  <2>2. code[ip + 1] \in Nat
    BY <2>1 DEF Byte
  <2> QED
    BY <1>1, <1>10, <2>1, <2>2, Opcodes, Classes DEF Run, NextInstruction, Reads, Value, Size, Width
<1> QED
  BY <1>1, <1>2, <1>3, <1>4, <1>5, <1>6, <1>7, <1>8, <1>9, <1>10, Opcodes, Classes

(* The instruction said lies in code from one position to before another,  *)
(* and is read back.  A raw text is not empty.                             *)
Right(code, said, from, to) ==
    /\ from \in Nat \ {0} /\ to \in Nat
    /\ code[from] = said.kind /\ said.kind \in Kinds
    /\ from + Width(said.kind) <= to /\ to <= Len(code) + 1
    /\ Run(code, from) = Reads(said.kind, said.value, to)
    /\ NextInstruction(code, from) = to
    /\ said.kind \in {Op.WRITE_RAW, Op.WRITE_RAW_W} => said.value # 0

LEMMA Widths ==
    \A op \in Kinds : Width(op) \in 1..4
BY DEF Width

LEMMA Operands ==
    \A op \in Kinds : \A a, b, c, x, y, z :
       (Width(op) > 1 => a = x) /\ (Width(op) > 2 => b = y) /\ (Width(op) > 3 => c = z)
         => Value(op, a, b, c) = Value(op, x, y, z) /\ Size(op, a, b, c) = Size(op, x, y, z)
<1> SUFFICES ASSUME NEW op \in Kinds, NEW a, NEW b, NEW c, NEW x, NEW y, NEW z,
                    Width(op) > 1 => a = x, Width(op) > 2 => b = y, Width(op) > 3 => c = z
             PROVE  Value(op, a, b, c) = Value(op, x, y, z) /\ Size(op, a, b, c) = Size(op, x, y, z)
  OBVIOUS
<1>1. CASE Width(op) = 1
  BY <1>1, Opcodes, Classes DEF Width, Value, Size, Kinds
<1>2. CASE Width(op) = 2
  BY <1>2, Opcodes, Classes DEF Width, Value, Size, Kinds
<1>3. CASE Width(op) = 3
  BY <1>3, Opcodes, Classes DEF Width, Value, Size, Kinds
<1>4. CASE Width(op) = 4
  BY <1>4
<1> QED
  BY <1>1, <1>2, <1>3, <1>4, Widths

LEMMA Sizes ==
    ASSUME NEW op \in Kinds, NEW code, NEW ip,
           \A n \in 1..3 : n < Width(op) => code[ip + n] \in Byte
    PROVE  Size(op, code[ip + 1], code[ip + 2], code[ip + 3]) \in Int
<1>1. CASE op \in Wide
  <2>1. Width(op) = 4
    BY <1>1, Opcodes, Classes DEF Width
  <2>2. code[ip + 1] \in Int /\ code[ip + 2] \in Int /\ code[ip + 3] \in Int
    BY <2>1 DEF Byte
  <2> QED
    BY <1>1, <2>2 DEF Size
<1>2. CASE op \in Narrow
  <2>1. Width(op) = 2
    BY <1>2, Opcodes, Classes DEF Width
  <2> QED
    BY <1>2, <2>1, Opcodes, Classes DEF Size, Byte
<1>3. CASE op \notin Wide \cup Narrow
  BY <1>3, Widths DEF Size
<1> QED
  BY <1>1, <1>2, <1>3

(* What is read of an instruction depends on its own bytes only.           *)
LEMMA Elsewhere ==
    ASSUME NEW c \in Seq(Byte), NEW d \in Seq(Byte), NEW said, NEW from, NEW to,
           Right(c, said, from, to), NEW at \in Nat \ {0},
           \A n \in 0..3 : n < Width(said.kind) => d[at + n] = c[from + n],
           at + (to - from) <= Len(d) + 1
    PROVE  Right(d, said, at, at + (to - from))
<1> DEFINE op == said.kind
<1>1. /\ from \in Nat \ {0} /\ to \in Nat /\ c[from] = op /\ op \in Kinds
      /\ from + Width(op) <= to /\ to <= Len(c) + 1
  BY DEF Right
<1>2. Width(op) \in 1..4
  BY <1>1, Widths
<1>3. d[at] = op
  <2>1. d[at + 0] = c[from + 0]
    BY <1>2
  <2>2. at + 0 = at /\ from + 0 = from
    BY <1>1
  <2> QED
    BY <1>1, <2>1, <2>2
<1>4. \A n \in 1..3 : n < Width(op) => d[at + n] = c[from + n] /\ c[from + n] \in Byte
  <2> SUFFICES ASSUME NEW n \in 1..3, n < Width(op)
               PROVE  d[at + n] = c[from + n] /\ c[from + n] \in Byte
    OBVIOUS
  <2>1. from + n \in 1..Len(c)
    BY <1>1, <1>2
  <2> QED
    BY <2>1
<1> DEFINE v == Value(op, c[from + 1], c[from + 2], c[from + 3])
           z == Size(op, c[from + 1], c[from + 2], c[from + 3])
<1>5. Run(c, from) = Reads(op, v, from + z) /\ NextInstruction(c, from) = from + z
  BY <1>1, <1>4, RunIs
<1>6. /\ v = Value(op, d[at + 1], d[at + 2], d[at + 3])
      /\ z = Size(op, d[at + 1], d[at + 2], d[at + 3])
  <2>1. /\ Width(op) > 1 => c[from + 1] = d[at + 1]
        /\ Width(op) > 2 => c[from + 2] = d[at + 2]
        /\ Width(op) > 3 => c[from + 3] = d[at + 3]
    BY <1>2, <1>4
  <2>2. op \in Kinds
    BY <1>1
  <2> DEFINE a1 == c[from + 1]
             a2 == c[from + 2]
             a3 == c[from + 3]
             b1 == d[at + 1]
             b2 == d[at + 2]
             b3 == d[at + 3]
  <2>3. /\ Width(op) > 1 => a1 = b1
        /\ Width(op) > 2 => a2 = b2
        /\ Width(op) > 3 => a3 = b3
    BY <2>1
  <2>4. Value(op, a1, a2, a3) = Value(op, b1, b2, b3) /\ Size(op, a1, a2, a3) = Size(op, b1, b2, b3)
    <3> HIDE DEF op, a1, a2, a3, b1, b2, b3
    <3> QED
      BY <2>2, <2>3, Operands, Z3T(20)
  <2> QED
    BY <2>4
<1>7. Run(d, at) = Reads(op, v, at + z) /\ NextInstruction(d, at) = at + z
  <2>1. d[at] \in Kinds /\ \A n \in 1..3 : n < Width(d[at]) => d[at + n] \in Byte
    BY <1>1, <1>3, <1>4
  <2>2. LET value == Value(d[at], d[at + 1], d[at + 2], d[at + 3])
            next == at + Size(d[at], d[at + 1], d[at + 2], d[at + 3])
        IN Run(d, at) = Reads(d[at], value, next) /\ NextInstruction(d, at) = next
    BY <2>1, RunIs
  <2> QED
    BY <1>3, <1>6, <2>2, Zenon
<1>8. v = said.value /\ from + z = to
  BY <1>5 DEF Right, Reads
<1>9. z = to - from
  <2>1. z \in Int
    BY <1>1, <1>4, Sizes
  <2> QED
    BY <1>1, <1>8, <2>1
<1>10. at + z = at + (to - from) /\ at + Width(op) <= at + (to - from)
  BY <1>1, <1>2, <1>9, SMTT(20)
<1>11. said.kind \in {Op.WRITE_RAW, Op.WRITE_RAW_W} => said.value # 0
  BY DEF Right
<1> HIDE DEF v, z
<1>12. Run(d, at) = Reads(op, said.value, at + (to - from))
  BY <1>7, <1>8, <1>10, Zenon
<1>13. at + (to - from) \in Nat
  BY <1>1, <1>2, SMTT(20)
<1> QED
  BY <1>1, <1>3, <1>7, <1>10, <1>11, <1>12, <1>13 DEF Right

-----------------------------------------------------------------------------
(* What is written can be read back                                        *)

LEMMA ByteIsInt ==
    \A x \in Byte : x \in Int
BY DEF Byte

LEMMA LowIsByte ==
    \A x \in Int : Low(x) \in Byte
BY SMT DEF Low, Byte

LEMMA LowAndRest ==
    ASSUME NEW x \in Int
    PROVE  /\ x \div 256 \in Int /\ Low(x) \in Int
           /\ x = 256 * (x \div 256) + Low(x) /\ 0 <= Low(x) /\ Low(x) <= 255
BY SMT DEF Low

LEMMA LowOfByte ==
    ASSUME NEW x \in Int, x >= 0, x <= 255
    PROVE  Low(x) = x
BY SMT DEF Low

LEMMA TwoBytes ==
    ASSUME NEW x \in Int, x >= 0, x <= 65535
    PROVE  Low(x \div 256) * 256 + Low(x) = x
<1> DEFINE q == x \div 256
           l == Low(x)
<1>1. q \in Int /\ l \in Int /\ x = 256 * q + l /\ 0 <= l /\ l <= 255
  BY LowAndRest, SMT
<1> HIDE DEF q, l
<1>2. q >= 0 /\ q <= 255
  BY <1>1, SMT
<1>3. Low(q) = q
  BY <1>1, <1>2, LowOfByte, SMT
<1>4. Low(q) * 256 + l = x
  BY <1>1, <1>3, SMT
<1> QED
  BY <1>4, SMT DEF q, l

LEMMA ThreeBytes ==
    ASSUME NEW x \in Int, x >= 0, x <= 16777215
    PROVE  Low(x \div 65536) * 65536 + Low(x \div 256) * 256 + Low(x) = x
<1> DEFINE q == x \div 256
           r == q \div 256
           l == Low(x)
           m == Low(q)
<1>1. q \in Int /\ l \in Int /\ x = 256 * q + l /\ 0 <= l /\ l <= 255
  BY LowAndRest, SMT
<1>2. r = x \div 65536
  BY SMT
<1> HIDE DEF q, l
<1>3. r \in Int /\ m \in Int /\ q = 256 * r + m /\ 0 <= m /\ m <= 255
  BY <1>1, LowAndRest, SMT
<1> HIDE DEF r, m
<1>4. r >= 0 /\ r <= 255
  BY <1>1, <1>3, SMT
<1>5. Low(r) = r
  BY <1>3, <1>4, LowOfByte, SMT
<1>6. Low(r) * 65536 + m * 256 + l = x
  BY <1>1, <1>3, <1>5, SMT
<1> QED
  BY <1>2, <1>6, SMT DEF q, l, m

LEMMA SignedByte ==
    ASSUME NEW x \in Int, x >= -128, x <= 127
    PROVE  Signed(Low(x)) = x
BY SMT DEF Low, Signed

LEMMA SignedBytes ==
    ASSUME NEW x \in Int, x >= -32768, x <= 32767
    PROVE  Signed(Low(x \div 256)) * 256 + Low(x) = x
<1> DEFINE q == x \div 256
           l == Low(x)
<1>1. q \in Int /\ l \in Int /\ x = 256 * q + l /\ 0 <= l /\ l <= 255
  BY LowAndRest, SMT
<1> HIDE DEF q, l
<1>2. q >= -128 /\ q <= 127
  BY <1>1, SMT
<1>3. Signed(Low(q)) = q
  BY <1>1, <1>2, SignedByte, SMT
<1>4. Signed(Low(q)) * 256 + l = x
  BY <1>1, <1>3, SMT
<1> QED
  BY <1>4, SMT DEF q, l

Written == [kind : Kinds, value : Int \cup (Byte \X Byte)]

(* The bytes code are the instruction said and nothing else.               *)
Encoded(said, code) ==
    said \in Written /\ code \in Seq(Byte) /\ Right(code, said, 1, Len(code) + 1)

LEMMA ReadBack ==
    ASSUME NEW code \in Seq(Byte), NEW op \in Kinds, NEW value \in Int \cup (Byte \X Byte),
           code[1] = op, Width(op) <= Len(code),
           Value(op, code[2], code[3], code[4]) = value,
           Size(op, code[2], code[3], code[4]) = Len(code),
           op \in {Op.WRITE_RAW, Op.WRITE_RAW_W} => value # 0
    PROVE  Encoded(Instruction(op, value), code)
<1> DEFINE said == Instruction(op, value)
<1>1. said.kind = op /\ said.value = value /\ said \in Written
  BY DEF Instruction, Written
<1>2. \A n \in 1..3 : n < Width(code[1]) => code[1 + n] \in Byte
  <2> SUFFICES ASSUME NEW n \in 1..3, n < Width(op)
               PROVE  code[1 + n] \in Byte
    OBVIOUS
  <2>1. Width(op) \in 1..4
    BY Widths
  <2>2. 1 + n \in 1..Len(code)
    BY <2>1
  <2> QED
    BY <2>2
<1>3. /\ Run(code, 1) = Reads(op, value, 1 + Len(code))
      /\ NextInstruction(code, 1) = 1 + Len(code)
  <2>1. LET v == Value(code[1], code[1 + 1], code[1 + 2], code[1 + 3])
            next == 1 + Size(code[1], code[1 + 1], code[1 + 2], code[1 + 3])
        IN Run(code, 1) = Reads(code[1], v, next) /\ NextInstruction(code, 1) = next
    BY <1>2, RunIs
  <2> QED
    BY <2>1
<1>4. 1 + Len(code) = Len(code) + 1 /\ Len(code) + 1 \in Nat
  OBVIOUS
<1>5. 1 + Width(op) <= Len(code) + 1
  BY Widths
<1> HIDE DEF said
<1> QED
  BY <1>1, <1>3, <1>4, <1>5 DEF Encoded, Right, said

LEMMA JoinElements ==
    ASSUME NEW S, NEW s \in Seq(S), NEW t \in Seq(S)
    PROVE  /\ s \o t \in Seq(S) /\ Len(s \o t) = Len(s) + Len(t)
           /\ \A i \in 1..Len(s) : (s \o t)[i] = s[i]
           /\ \A i \in 1..Len(t) : (s \o t)[Len(s) + i] = t[i]
OBVIOUS

LEMMA Behind ==
    ASSUME NEW x \in Byte, NEW s \in Seq(Byte), NEW code, code = <<x>> \o s
    PROVE  /\ code \in Seq(Byte) /\ Len(code) = 1 + Len(s)
           /\ code[1] = x /\ \A n \in 1..Len(s) : code[1 + n] = s[n]
<1> DEFINE h == <<x>>
<1>1. h \in Seq(Byte) /\ Len(h) = 1 /\ h[1] = x
  OBVIOUS
<1>2. code = h \o s
  OBVIOUS
<1> HIDE DEF h
<1>3. /\ code \in Seq(Byte) /\ Len(code) = Len(h) + Len(s)
      /\ \A i \in 1..Len(h) : code[i] = h[i]
      /\ \A i \in 1..Len(s) : code[Len(h) + i] = s[i]
  BY <1>1, <1>2, JoinElements
<1> QED
  BY <1>1, <1>3

LEMMA TwoBehind ==
    ASSUME NEW x \in Byte, NEW y \in Byte, NEW z \in Byte, NEW code, code = <<x>> \o <<y, z>>
    PROVE  code \in Seq(Byte) /\ Len(code) = 3 /\ code[1] = x /\ code[2] = y /\ code[3] = z
<1> DEFINE s == <<y, z>>
<1>1. s \in Seq(Byte) /\ Len(s) = 2 /\ s[1] = y /\ s[2] = z
  OBVIOUS
<1>2. code = <<x>> \o s
  OBVIOUS
<1> HIDE DEF s
<1>3. /\ code \in Seq(Byte) /\ Len(code) = 3 /\ code[1] = x
      /\ code[1 + 1] = s[1] /\ code[1 + 2] = s[2]
  BY <1>1, <1>2, Behind
<1> QED
  BY <1>1, <1>3

LEMMA ThreeBehind ==
    ASSUME NEW x \in Byte, NEW y \in Byte, NEW z \in Byte, NEW w \in Byte,
           NEW code, code = <<x>> \o <<y, z, w>>
    PROVE  code \in Seq(Byte) /\ Len(code) = 4 /\ code[1] = x
           /\ code[2] = y /\ code[3] = z /\ code[4] = w
<1> DEFINE s == <<y, z, w>>
<1>1. s \in Seq(Byte) /\ Len(s) = 3 /\ s[1] = y /\ s[2] = z /\ s[3] = w
  OBVIOUS
<1>2. code = <<x>> \o s
  OBVIOUS
<1> HIDE DEF s
<1>3. /\ code \in Seq(Byte) /\ Len(code) = 4 /\ code[1] = x
      /\ code[1 + 1] = s[1] /\ code[1 + 2] = s[2] /\ code[1 + 3] = s[3]
  BY <1>1, <1>2, Behind
<1> QED
  BY <1>1, <1>3

LEMMA BareEncoded ==
    ASSUME NEW op \in Bare
    PROVE  Encoded(Instruction(op, 0), <<op>>)
<1> DEFINE code == <<op>>
<1>1. op \in Kinds /\ op \in Byte /\ op \notin {Op.WRITE_RAW, Op.WRITE_RAW_W}
      /\ op \notin Wide \cup Narrow
  BY Opcodes, Classes DEF Kinds, Byte
<1>2. code \in Seq(Byte) /\ Len(code) = 1 /\ code[1] = op
  BY <1>1
<1>3. Width(op) = 1 /\ Value(op, code[2], code[3], code[4]) = 0
  BY DEF Width, Value
<1>4. Size(op, code[2], code[3], code[4]) = 1
  BY <1>1, <1>3 DEF Size
<1> HIDE DEF code
<1>5. Encoded(Instruction(op, 0), code)
  BY <1>1, <1>2, <1>3, <1>4, ReadBack
<1> QED
  BY <1>5 DEF code

LEMMA IndexEncoded ==
    ASSUME NEW op \in WithIndex, NEW index \in Index
    PROVE  Encoded(Instruction(op, index), <<op>> \o Bytes16(index))
<1> DEFINE a == Low(index \div 256)
           b == Low(index)
           code == <<op>> \o Bytes16(index)
<1>1. op \in Indexed /\ op \in Kinds /\ op \in Byte /\ op \notin {Op.WRITE_RAW, Op.WRITE_RAW_W}
      /\ op \notin Wide \cup Narrow \cup Bare
  <2>1. op \in 0..23
    BY Opcodes DEF WithIndex, HasConstant
  <2>2. op \in Indexed
    BY <2>1 DEF WithIndex, Indexed
  <2> QED
    BY <2>1, <2>2, Opcodes, Classes DEF Kinds, Byte
<1>2. index \in Int /\ index >= 0 /\ index <= 65535
  BY SampleAssumption, SMT
<1>3. a \in Byte /\ b \in Byte
  BY <1>2, LowIsByte, LowAndRest, SMT
<1>4. a * 256 + b = index
  BY <1>2, TwoBytes, SMT
<1> HIDE DEF a, b
<1>5. code = <<op>> \o <<a, b>>
  BY SMT DEF Bytes16, a, b
<1> HIDE DEF code
<1>6. code \in Seq(Byte) /\ Len(code) = 3 /\ code[1] = op /\ code[2] = a /\ code[3] = b
  BY <1>1, <1>3, <1>5, TwoBehind, SMT
<1>7. Width(op) = 3
  BY <1>1, Opcodes, Classes, SMT DEF Width
<1>8. Value(op, code[2], code[3], code[4]) = index
  BY <1>1, <1>4, <1>6, SMT DEF Value
<1>9. Size(op, code[2], code[3], code[4]) = 3
  BY <1>1, <1>7, SMT DEF Size
<1> HIDE DEF code
<1>10. Encoded(Instruction(op, index), code)
  BY <1>1, <1>2, <1>6, <1>7, <1>8, <1>9, ReadBack, SMT
<1> QED
  BY <1>10, SMT DEF code

LEMMA HighAndLow ==
    ASSUME NEW x \in Int
    PROVE  Low(x \div 256) \in Byte /\ Low(x) \in Byte
<1> DEFINE q == x \div 256
<1>1. q \in Int
  BY LowAndRest, SMT
<1> HIDE DEF q
<1>2. Low(q) \in Byte /\ Low(x) \in Byte
  BY <1>1, LowIsByte, SMT
<1> QED
  BY <1>2, SMT DEF q

LEMMA ShortIntegerEncoded ==
    ASSUME NEW x \in Int, x >= -128, x <= 127
    PROVE  Encoded(Instruction(Op.PUSH_INT8, x), <<Op.PUSH_INT8, Low(x)>>)
<1> DEFINE op == Op.PUSH_INT8
           a == Low(x)
           code == <<op, a>>
<1>1. op \in Kinds /\ op \in Byte /\ op \notin {Op.WRITE_RAW, Op.WRITE_RAW_W}
      /\ op \notin Wide \cup Narrow \cup Bare \cup Indexed
  BY Opcodes, Classes DEF Kinds, Byte
<1>2. a \in Byte /\ Signed(a) = x
  BY LowIsByte, SignedByte, SMT
<1> HIDE DEF a
<1>3. code \in Seq(Byte) /\ Len(code) = 2 /\ code[1] = op /\ code[2] = a
  BY <1>1, <1>2, SMT
<1> HIDE DEF code
<1>4. Width(op) = 2
  BY <1>1, SMT DEF Width
<1>5. Value(op, code[2], code[3], code[4]) = x
  BY <1>1, <1>2, <1>3, SMT DEF Value
<1>6. Size(op, code[2], code[3], code[4]) = 2
  BY <1>1, <1>4, SMT DEF Size
<1>7. Encoded(Instruction(op, x), code)
  BY <1>1, <1>3, <1>4, <1>5, <1>6, ReadBack, SMT
<1> QED
  BY <1>7, SMT DEF code, a

LEMMA LongIntegerEncoded ==
    ASSUME NEW x \in Int, x >= -32768, x <= 32767
    PROVE  Encoded(Instruction(Op.PUSH_INT16, x), <<Op.PUSH_INT16>> \o Bytes16(x))
<1> DEFINE op == Op.PUSH_INT16
           a == Low(x \div 256)
           b == Low(x)
           code == <<op>> \o Bytes16(x)
<1>1. op \in Kinds /\ op \in Byte /\ op \notin {Op.WRITE_RAW, Op.WRITE_RAW_W}
      /\ op \notin Wide \cup Narrow \cup Bare \cup Indexed /\ op # Op.PUSH_INT8
  BY Opcodes, Classes DEF Kinds, Byte
<1>2. a \in Byte /\ b \in Byte /\ Signed(a) * 256 + b = x
  BY HighAndLow, SignedBytes, SMT
<1>3. code = <<op>> \o <<a, b>>
  BY SMT DEF Bytes16
<1> HIDE DEF a, b, code
<1>4. code \in Seq(Byte) /\ Len(code) = 3 /\ code[1] = op /\ code[2] = a /\ code[3] = b
  BY <1>1, <1>2, <1>3, TwoBehind, SMT
<1>5. Width(op) = 3
  BY Opcodes, Classes, SMT DEF Width
<1>6. Value(op, code[2], code[3], code[4]) = x
  BY <1>1, <1>2, <1>4, SMT DEF Value
<1>7. Size(op, code[2], code[3], code[4]) = 3
  BY <1>1, <1>5, SMT DEF Size
<1>8. Encoded(Instruction(op, x), code)
  BY <1>1, <1>4, <1>5, <1>6, <1>7, ReadBack, SMT
<1> QED
  BY <1>8, SMT DEF code

LEMMA IntegerEncoded ==
    ASSUME NEW x \in Integer
    PROVE  Encoded(Instruction(IntBytes(x)[1], x), IntBytes(x))
<1>1. x \in Int /\ x >= -32768 /\ x <= 32767
  BY SampleAssumption, SMT
<1>2. CASE x \in -128..127
  <2>1. IntBytes(x) = <<Op.PUSH_INT8, Low(x)>> /\ IntBytes(x)[1] = Op.PUSH_INT8
    BY <1>2, SMT DEF IntBytes
  <2>2. Encoded(Instruction(Op.PUSH_INT8, x), <<Op.PUSH_INT8, Low(x)>>)
    BY <1>1, <1>2, ShortIntegerEncoded, SMT
  <2> QED
    BY <2>1, <2>2, SMT
<1>3. CASE x \notin -128..127
  <2> DEFINE a == Low(x \div 256)
             b == Low(x)
  <2>1. a \in Byte /\ b \in Byte /\ Op.PUSH_INT16 \in Byte
    BY <1>1, HighAndLow, Opcodes, SMT DEF Byte
  <2>2. IntBytes(x) = <<Op.PUSH_INT16>> \o Bytes16(x)
    BY <1>3, Zenon DEF IntBytes
  <2>3. Bytes16(x) = <<a, b>>
    BY SMT DEF Bytes16
  <2> HIDE DEF a, b
  <2>4. (<<Op.PUSH_INT16>> \o <<a, b>>)[1] = Op.PUSH_INT16
    BY <2>1, TwoBehind, SMT
  <2>5. Encoded(Instruction(Op.PUSH_INT16, x), <<Op.PUSH_INT16>> \o Bytes16(x))
    BY <1>1, LongIntegerEncoded, SMT
  <2> QED
    BY <2>2, <2>3, <2>4, <2>5, SMT
<1> QED
  BY <1>2, <1>3, SMT

LEMMA HashEncoded ==
    ASSUME NEW size \in Operand
    PROVE  Encoded(Instruction(Op.HASH_NEW, size), <<Op.HASH_NEW, size>>)
<1> DEFINE op == Op.HASH_NEW
           code == <<op, size>>
<1>1. op \in Kinds /\ op \in Byte /\ op \notin {Op.WRITE_RAW, Op.WRITE_RAW_W}
      /\ op \notin Wide \cup Narrow \cup Bare \cup Indexed
      /\ op \notin {Op.PUSH_INT8, Op.PUSH_INT16, Op.BUILTIN_FILTER}
  BY Opcodes, Classes DEF Kinds, Byte
<1>2. size \in Byte /\ size \in Int
  BY SampleAssumption, SMT DEF Byte
<1>3. code \in Seq(Byte) /\ Len(code) = 2 /\ code[1] = op /\ code[2] = size
  BY <1>1, <1>2, SMT
<1> HIDE DEF code
<1>4. Width(op) = 2
  BY <1>1, SMT DEF Width
<1>5. Value(op, code[2], code[3], code[4]) = size
  BY <1>1, <1>3, SMT DEF Value
<1>6. Size(op, code[2], code[3], code[4]) = 2
  BY <1>1, <1>4, SMT DEF Size
<1>7. Encoded(Instruction(op, size), code)
  BY <1>1, <1>2, <1>3, <1>4, <1>5, <1>6, ReadBack, SMT
<1> QED
  BY <1>7, SMT DEF code

LEMMA FilterEncoded ==
    ASSUME NEW filter \in Operand, NEW args \in Operand
    PROVE  Encoded(Instruction(Op.BUILTIN_FILTER, <<filter, args>>),
                   <<Op.BUILTIN_FILTER, filter, args>>)
<1> DEFINE op == Op.BUILTIN_FILTER
           code == <<op, filter, args>>
           value == <<filter, args>>
<1>1. op \in Kinds /\ op \in Byte /\ op \notin {Op.WRITE_RAW, Op.WRITE_RAW_W}
      /\ op \notin Wide \cup Narrow \cup Bare \cup Indexed
      /\ op \notin {Op.PUSH_INT8, Op.PUSH_INT16}
  BY Opcodes, Classes DEF Kinds, Byte
<1>2. filter \in Byte /\ args \in Byte /\ value \in Byte \X Byte
  BY SampleAssumption, SMT
<1>3. code \in Seq(Byte) /\ Len(code) = 3 /\ code[1] = op /\ code[2] = filter /\ code[3] = args
  BY <1>1, <1>2, SMT
<1> HIDE DEF code
<1>4. Width(op) = 3
  BY Opcodes, Classes, SMT DEF Width
<1>5. Value(op, code[2], code[3], code[4]) = value
  BY <1>1, <1>3, SMT DEF Value
<1>6. Size(op, code[2], code[3], code[4]) = 3
  BY <1>1, <1>4, SMT DEF Size
<1> HIDE DEF value, op
<1>7. value \in Int \cup (Byte \X Byte)
  BY <1>2
<1>8. Encoded(Instruction(op, value), code)
  BY <1>1, <1>3, <1>4, <1>5, <1>6, <1>7, ReadBack, SMT
<1> QED
  BY <1>8 DEF code, value, op

LEMMA ThreeInBytes ==
    ASSUME NEW x \in Int
    PROVE  Low(x \div 65536) \in Byte /\ Low(x \div 256) \in Byte /\ Low(x) \in Byte
<1> DEFINE q == x \div 65536
<1>1. q \in Int
  BY SMT
<1> HIDE DEF q
<1>2. Low(q) \in Byte
  BY <1>1, LowIsByte, SMT
<1>3. Low(x \div 256) \in Byte /\ Low(x) \in Byte
  BY HighAndLow, SMT
<1> QED
  BY <1>2, <1>3, SMT DEF q

LEMMA RescueEncoded ==
    ASSUME NEW line \in LineNumber
    PROVE  Encoded(Instruction(Op.RENDER_VARIABLE_RESCUE, line),
                   <<Op.RENDER_VARIABLE_RESCUE>> \o Bytes24(line))
<1> DEFINE op == Op.RENDER_VARIABLE_RESCUE
           a == Low(line \div 65536)
           b == Low(line \div 256)
           c == Low(line)
           code == <<op>> \o Bytes24(line)
<1>1. op \in Kinds /\ op \in Byte /\ op \notin {Op.WRITE_RAW, Op.WRITE_RAW_W}
      /\ op \notin Wide \cup Narrow \cup Bare \cup Indexed
      /\ op \notin {Op.PUSH_INT8, Op.PUSH_INT16, Op.BUILTIN_FILTER, Op.HASH_NEW}
  BY Opcodes, Classes DEF Kinds, Byte
<1>2. line \in Int /\ line >= 0 /\ line <= 16777215
  BY SampleAssumption, SMT
<1>3. a \in Byte /\ b \in Byte /\ c \in Byte
  BY <1>2, ThreeInBytes, SMT
<1>4. a * 65536 + b * 256 + c = line
  BY <1>2, ThreeBytes, SMT
<1>5. code = <<op>> \o <<a, b, c>>
  BY SMT DEF Bytes24
<1> HIDE DEF a, b, c, code
<1>6. code \in Seq(Byte) /\ Len(code) = 4 /\ code[1] = op
      /\ code[2] = a /\ code[3] = b /\ code[4] = c
  BY <1>1, <1>3, <1>5, ThreeBehind, SMT
<1>7. Width(op) = 4
  BY Opcodes, Classes, SMT DEF Width
<1>8. Value(op, code[2], code[3], code[4]) = line
  BY <1>1, <1>4, <1>6, SMT DEF Value
<1>9. Size(op, code[2], code[3], code[4]) = 4
  BY <1>1, <1>7, SMT DEF Size
<1>10. /\ op \in Kinds /\ line \in Int \cup (Byte \X Byte)
       /\ op \notin {Op.WRITE_RAW, Op.WRITE_RAW_W} /\ Width(op) <= Len(code)
  BY <1>1, <1>2, <1>6, <1>7, SMT
<1> HIDE DEF op
<1>11. Encoded(Instruction(op, line), code)
  BY <1>6, <1>7, <1>8, <1>9, <1>10, ReadBack
<1> QED
  BY <1>11, SMT DEF code, op

LEMMA NarrowTextEncoded ==
    ASSUME NEW size \in Int, size >= 1, size <= 255, NEW text \in Seq(Byte), Len(text) = size,
           NEW code, code = <<Op.WRITE_RAW, size>> \o text
    PROVE  code[1] = Op.WRITE_RAW /\ Encoded(Instruction(code[1], size), code)
<1> DEFINE op == Op.WRITE_RAW
           h == <<op, size>>
<1>1. op \in Kinds /\ op \in Byte /\ op \in Narrow /\ op \notin Wide \cup Bare \cup Indexed
      /\ op \notin {Op.PUSH_INT8, Op.PUSH_INT16, Op.BUILTIN_FILTER}
  BY Opcodes, Classes DEF Kinds, Byte
<1>2. size \in Byte
  BY DEF Byte
<1>3. h \in Seq(Byte) /\ Len(h) = 2 /\ h[1] = op /\ h[2] = size
  BY <1>1, <1>2
<1>4. code = h \o text
  OBVIOUS
<1> HIDE DEF h
<1>5. code \in Seq(Byte) /\ Len(code) = 2 + size /\ code[1] = op /\ code[2] = size
  BY <1>3, <1>4, JoinElements
<1>6. Width(op) = 2
  BY <1>1 DEF Width
<1>7. Value(op, code[2], code[3], code[4]) = size
  BY <1>1, <1>5 DEF Value
<1>8. Size(op, code[2], code[3], code[4]) = 2 + size
  BY <1>1, <1>5 DEF Size
<1>9. op \in Kinds /\ size \in Int \cup (Byte \X Byte) /\ Width(op) <= Len(code) /\ size # 0
  BY <1>1, <1>5, <1>6
<1> HIDE DEF op
<1>10. Encoded(Instruction(op, size), code)
  BY <1>5, <1>7, <1>8, <1>9, ReadBack
<1> QED
  BY <1>5, <1>10 DEF op

(* The size of a text; the bound is kept in a name of its own.             *)
TextFits(size) == size \in Int /\ size >= 1 /\ size <= 16777215

LEMMA WideTextEncoded ==
    ASSUME NEW size, TextFits(size), NEW text \in Seq(Byte),
           Len(text) = size, NEW code, code = (<<Op.WRITE_RAW_W>> \o Bytes24(size)) \o text
    PROVE  code[1] = Op.WRITE_RAW_W /\ Encoded(Instruction(code[1], size), code)
<1> DEFINE op == Op.WRITE_RAW_W
           a == Low(size \div 65536)
           b == Low(size \div 256)
           c == Low(size)
           h == <<op>> \o Bytes24(size)
<1>1. op \in Kinds /\ op \in Byte /\ op \in Wide /\ op \notin Narrow \cup Bare \cup Indexed
      /\ op \notin {Op.PUSH_INT8, Op.PUSH_INT16, Op.BUILTIN_FILTER, Op.HASH_NEW}
  BY Opcodes, Classes, SMT DEF Kinds, Byte
<1>2. a \in Byte /\ b \in Byte /\ c \in Byte
  BY ThreeInBytes, SMT DEF TextFits
<1>3. a * 65536 + b * 256 + c = size
  BY ThreeBytes, SMT DEF TextFits
<1>4. h = <<op>> \o <<a, b, c>>
  BY SMT DEF Bytes24
<1>5. code = h \o text /\ size \in Nat /\ size # 0
  BY SMT DEF TextFits
<1> HIDE DEF a, b, c, h
<1>6. h \in Seq(Byte) /\ Len(h) = 4 /\ h[1] = op /\ h[2] = a /\ h[3] = b /\ h[4] = c
  BY <1>1, <1>2, <1>4, ThreeBehind
<1>7. code \in Seq(Byte) /\ Len(code) = 4 + size /\ code[1] = op
      /\ code[2] = a /\ code[3] = b /\ code[4] = c
  <2>1. /\ code \in Seq(Byte) /\ Len(code) = Len(h) + Len(text)
        /\ \A i \in 1..Len(h) : code[i] = h[i]
    <3>1. /\ h \o text \in Seq(Byte) /\ Len(h \o text) = Len(h) + Len(text)
          /\ \A i \in 1..Len(h) : (h \o text)[i] = h[i]
      BY <1>6, JoinElements, ZenonT(30)
    <3> QED
      BY <1>5, <3>1, Zenon
  <2> QED
    BY <1>6, <2>1
<1>8. Width(op) = 4
  BY Opcodes, Classes, SMT DEF Width
<1>9. Value(op, code[2], code[3], code[4]) = size
  BY <1>1, <1>3, <1>7, SMT DEF Value
<1>10. Size(op, code[2], code[3], code[4]) = 4 + size
  BY <1>1, <1>3, <1>7, SMT DEF Size
<1>11. op \in Kinds /\ size \in Int \cup (Byte \X Byte) /\ Width(op) <= Len(code) /\ size # 0
  BY <1>1, <1>5, <1>7, <1>8
<1> HIDE DEF op
<1>12. Encoded(Instruction(op, size), code)
  BY <1>7, <1>9, <1>10, <1>11, ReadBack
<1> QED
  BY <1>7, <1>12 DEF op

LEMMA TextEncoded ==
    ASSUME NEW size \in TextSize, NEW byte \in TextByte, NEW code,
           code = RawBytes(size, [j \in 1..size |-> byte])
    PROVE  Encoded(Instruction(code[1], size), code)
<1> DEFINE text == [j \in 1..size |-> byte]
<1>1. TextFits(size)
  BY SampleAssumption, SMT DEF TextFits
<1>2. size \in Nat /\ size >= 1 /\ byte \in Byte
  BY <1>1, SampleAssumption, SMT DEF TextFits
<1>3. text \in Seq(Byte) /\ Len(text) = size
  BY <1>2
<1>4. code = RawBytes(size, text)
  OBVIOUS
<1> HIDE DEF text
<1>5. CASE size > 255
  <2>1. code = (<<Op.WRITE_RAW_W>> \o Bytes24(size)) \o text
    BY <1>4, <1>5, Zenon DEF RawBytes
  <2> QED
    BY <1>1, <1>3, <2>1, WideTextEncoded
<1>6. CASE ~(size > 255)
  <2>1. code = <<Op.WRITE_RAW, size>> \o text
    BY <1>4, <1>6, Zenon DEF RawBytes
  <2>2. size <= 255 /\ size \in Int
    BY <1>2, <1>6
  <2> QED
    BY <1>2, <1>3, <2>1, <2>2, NarrowTextEncoded
<1> QED
  BY <1>5, <1>6

(* Whatever is written is one instruction, encoded.                        *)
LEMMA StepEmits ==
    ASSUME Next
    PROVE  \E said, code : Emit(said, code) /\ Encoded(said, code)
<1>1. CASE AddBare
  BY <1>1, BareEncoded DEF AddBare
<1>2. CASE AddWithConstant
  BY <1>2, IndexEncoded DEF AddWithConstant
<1>3. CASE AddPushInteger
  BY <1>3, IntegerEncoded DEF AddPushInteger
<1>4. CASE AddHashNew
  BY <1>4, HashEncoded DEF AddHashNew
<1>5. CASE AddBuiltinFilter
  BY <1>5, FilterEncoded DEF AddBuiltinFilter
<1>6. CASE AddRenderVariableRescue
  BY <1>6, RescueEncoded DEF AddRenderVariableRescue
<1>7. CASE AddWriteRaw
  BY <1>7, TextEncoded DEF AddWriteRaw
<1> QED
  BY <1>1, <1>2, <1>3, <1>4, <1>5, <1>6, <1>7 DEF Next

-----------------------------------------------------------------------------
(* The inductive invariant                                                 *)

End(pos, code, j) == IF j < Len(pos) THEN pos[j + 1] ELSE Len(code) + 1

(* The instructions of prog lie in code at pos, one behind the other, from *)
(* the first byte to the last.                                             *)
LaidOut(prog, pos, code) ==
    /\ prog \in Seq(Written) /\ pos \in Seq(Nat \ {0}) /\ code \in Seq(Byte)
    /\ Len(pos) = Len(prog)
    /\ IF Len(pos) = 0 THEN Len(code) = 0 ELSE pos[1] = 1
    /\ \A j \in 1..Len(pos) : Right(code, prog[j], pos[j], End(pos, code, j))
    /\ \A i, j \in 1..Len(pos) : i < j => End(pos, code, i) <= pos[j]

LEMMA AppendElements ==
    ASSUME NEW S, NEW s \in Seq(S), NEW x \in S
    PROVE  /\ Append(s, x) \in Seq(S) /\ Len(Append(s, x)) = Len(s) + 1
           /\ \A i \in 1..Len(s) : Append(s, x)[i] = s[i]
           /\ Append(s, x)[Len(s) + 1] = x
OBVIOUS

LEMMA Extend ==
    ASSUME NEW prog, NEW pos, NEW code, LaidOut(prog, pos, code),
           NEW said, NEW more, Encoded(said, more)
    PROVE  LaidOut(Append(prog, said), Append(pos, Len(code) + 1), code \o more)
<1> DEFINE n == Len(pos)
           l == Len(code)
           m == Len(more)
           prog2 == Append(prog, said)
           pos2 == Append(pos, Len(code) + 1)
           code2 == code \o more
<1>1. /\ prog \in Seq(Written) /\ pos \in Seq(Nat \ {0}) /\ code \in Seq(Byte)
      /\ Len(prog) = n /\ n \in Nat /\ l \in Nat
      /\ \A j \in 1..n : pos[j] \in Nat \ {0}
      /\ (IF n = 0 THEN l = 0 ELSE pos[1] = 1)
  BY DEF LaidOut
<1>2. /\ \A j \in 1..n : Right(code, prog[j], pos[j], End(pos, code, j))
      /\ \A i, j \in 1..n : i < j => End(pos, code, i) <= pos[j]
  BY DEF LaidOut
<1>3. said \in Written /\ more \in Seq(Byte) /\ Right(more, said, 1, m + 1)
  BY DEF Encoded
<1>4. m \in Nat /\ m + 1 \in Nat \ {0} /\ l + 1 \in Nat \ {0} /\ n + 1 \in Nat
  BY <1>1, <1>3
<1>5. /\ prog2 \in Seq(Written) /\ Len(prog2) = n + 1 /\ prog2[n + 1] = said
      /\ \A j \in 1..n : prog2[j] = prog[j]
  BY <1>1, <1>3, AppendElements
<1>6. /\ pos2 \in Seq(Nat \ {0}) /\ Len(pos2) = n + 1 /\ pos2[n + 1] = l + 1
      /\ \A j \in 1..n : pos2[j] = pos[j]
  BY <1>1, <1>4, AppendElements
<1>7. /\ code2 \in Seq(Byte) /\ Len(code2) = l + m
      /\ \A i \in 1..l : code2[i] = code[i]
      /\ \A i \in 1..m : code2[l + i] = more[i]
  BY <1>1, <1>3, JoinElements
<1>8. \A j \in 1..n : End(pos, code, j) = IF j < n THEN pos[j + 1] ELSE l + 1
  BY DEF End
<1>9. \A j \in 1..n + 1 : End(pos2, code2, j) = IF j < n + 1 THEN pos2[j + 1] ELSE l + m + 1
  BY <1>6, <1>7 DEF End
<1> HIDE DEF n, l, m, prog2, pos2, code2
<1>10. \A j \in 1..n : End(pos2, code2, j) = End(pos, code, j)
  <2> TAKE j \in 1..n
  <2>1. j \in 1..n + 1 /\ j < n + 1
    BY <1>1
  <2>2. End(pos2, code2, j) = pos2[j + 1]
    BY <1>9, <2>1
  <2>3. CASE j < n
    <3>1. j + 1 \in 1..n
      BY <1>1, <2>3
    <3> QED
      BY <1>6, <1>8, <2>2, <2>3, <3>1
  <2>4. CASE ~(j < n)
    <3>1. j = n
      BY <1>1, <2>4
    <3> QED
      BY <1>6, <1>8, <2>2, <2>4, <3>1
  <2> QED
    BY <2>3, <2>4
<1>11. End(pos2, code2, n + 1) = l + m + 1
  BY <1>1, <1>9
<1>12. ASSUME NEW j \in 1..n
       PROVE  Right(code2, prog2[j], pos2[j], End(pos2, code2, j))
  <2> DEFINE p == pos[j]
             e == End(pos, code, j)
             w == Width(prog[j].kind)
  <2>1. Right(code, prog[j], p, e)
    BY <1>2
  <2>2. p \in Nat \ {0} /\ e \in Nat /\ prog[j].kind \in Kinds /\ p + w <= e /\ e <= l + 1
    BY <2>1 DEF Right, l
  <2>3. w \in 1..4
    BY <2>2, Widths
  <2>4. \A k \in 0..3 : k < w => code2[p + k] = code[p + k]
    <3> HIDE DEF p, e, w
    <3> TAKE k \in 0..3
    <3> HAVE k < w
    <3>1. p + k \in 1..l
      BY <1>1, <2>2, <2>3
    <3> QED
      BY <1>7, <3>1
  <2>5. p + (e - p) = e /\ p + (e - p) <= Len(code2) + 1
    <3> HIDE DEF p, e, w
    <3> QED
      BY <1>1, <1>4, <1>7, <2>2
  <2> HIDE DEF p, e
  <2>6. Right(code2, prog[j], p, p + (e - p))
    BY <1>1, <1>7, <2>1, <2>2, <2>4, <2>5, Elsewhere
  <2>7. prog2[j] = prog[j] /\ pos2[j] = p /\ End(pos2, code2, j) = e
    BY <1>5, <1>6, <1>10 DEF p, e
  <2> QED
    BY <2>5, <2>6, <2>7
<1>13. Right(code2, prog2[n + 1], pos2[n + 1], End(pos2, code2, n + 1))
  <2> DEFINE w == Width(said.kind)
  <2>1. said.kind \in Kinds /\ 1 + w <= m + 1
    BY <1>3 DEF Right
  <2>2. w \in 1..4
    BY <2>1, Widths
  <2>3. \A k \in 0..3 : k < w => code2[(l + 1) + k] = more[1 + k]
    <3> HIDE DEF w
    <3> TAKE k \in 0..3
    <3> HAVE k < w
    <3>1. 1 + k \in 1..m /\ (l + 1) + k = l + (1 + k)
      BY <1>1, <1>4, <2>1, <2>2
    <3> QED
      BY <1>7, <3>1
  <2>4. (l + 1) + ((m + 1) - 1) = l + m + 1 /\ (l + 1) + ((m + 1) - 1) <= Len(code2) + 1
    BY <1>1, <1>4, <1>7
  <2>5. Right(code2, said, l + 1, (l + 1) + ((m + 1) - 1))
    BY <1>3, <1>4, <1>7, <2>3, <2>4, Elsewhere
  <2> QED
    BY <1>5, <1>6, <1>11, <2>4, <2>5
<1>14. ASSUME NEW i \in 1..n + 1, NEW j \in 1..n + 1, i < j
       PROVE  End(pos2, code2, i) <= pos2[j]
  <2>1. i \in 1..n
    BY <1>1, <1>14
  <2>2. End(pos2, code2, i) = End(pos, code, i)
    BY <1>10, <2>1
  <2>3. CASE j \in 1..n
    BY <1>2, <1>6, <1>14, <2>1, <2>2, <2>3
  <2>4. CASE j = n + 1
    <3>1. End(pos, code, i) <= l + 1
      BY <1>2, <2>1 DEF Right, l
    <3> QED
      BY <1>6, <2>2, <2>4, <3>1
  <2> QED
    BY <1>1, <2>3, <2>4
<1>15. pos2[1] = 1
  <2>1. CASE n = 0
    BY <1>1, <1>6, <2>1
  <2>2. CASE n # 0
    BY <1>1, <1>6, <2>2
  <2> QED
    BY <2>1, <2>2
<1>16. n + 1 # 0
  BY <1>1
<1>17. ASSUME NEW j \in 1..n + 1
       PROVE  Right(code2, prog2[j], pos2[j], End(pos2, code2, j))
  <2>1. j \in 1..n \/ j = n + 1
    BY <1>1
  <2> QED
    BY <1>12, <1>13, <2>1
<1>18. LaidOut(prog2, pos2, code2)
  BY <1>5, <1>6, <1>7, <1>14, <1>15, <1>16, <1>17 DEF LaidOut
<1> QED
  BY <1>18 DEF prog2, pos2, code2

IInv == LaidOut(program, starts, bytes)

LEMMA Laid ==
    Spec => []IInv
<1>1. Init => IInv
  <2> SUFFICES ASSUME Init PROVE IInv
    OBVIOUS
  <2>1. program = << >> /\ starts = << >> /\ bytes = << >>
    BY DEF Init
  <2>2. << >> \in Seq(Written) /\ << >> \in Seq(Nat \ {0}) /\ << >> \in Seq(Byte) /\ Len(<< >>) = 0
    OBVIOUS
  <2> QED
    BY <2>1, <2>2 DEF IInv, LaidOut
<1>2. IInv /\ [Next]_vars => IInv'
  <2> SUFFICES ASSUME IInv, [Next]_vars PROVE IInv'
    OBVIOUS
  <2>1. CASE Next
    <3>1. PICK said, code : Emit(said, code) /\ Encoded(said, code)
      BY <2>1, StepEmits
    <3>2. LaidOut(Append(program, said), Append(starts, Len(bytes) + 1), bytes \o code)
      BY <3>1, Extend DEF IInv
    <3> QED
      BY <3>1, <3>2 DEF IInv, Emit
  <2>2. CASE UNCHANGED vars
    BY <2>2 DEF vars, IInv
  <2> QED
    BY <2>1, <2>2
<1> QED
  BY <1>1, <1>2, PTL DEF Spec

(* Only bytes are written, and the VM reads what was meant, with its sign, *)
(* and goes on where skipping would have gone on.                          *)
THEOREM DecodingRight ==
    Spec => []DecodersAgree
<1>1. IInv => DecodersAgree
  <2> SUFFICES ASSUME IInv PROVE DecodersAgree
    OBVIOUS
  <2>1. /\ bytes \in Seq(Byte) /\ Len(starts) = Len(program)
        /\ \A j \in 1..Len(starts) : Right(bytes, program[j], starts[j], End(starts, bytes, j))
    BY DEF IInv, LaidOut
  <2>2. ASSUME NEW j \in 1..Len(program)
        PROVE  LET read == Run(bytes, starts[j])
               IN /\ read.kind = program[j].kind /\ read.value = program[j].value
                  /\ read.next = NextInstruction(bytes, starts[j])
    <3>1. /\ Run(bytes, starts[j])
              = Reads(program[j].kind, program[j].value, End(starts, bytes, j))
          /\ NextInstruction(bytes, starts[j]) = End(starts, bytes, j)
      BY <2>1 DEF Right
    <3> QED
      BY <3>1 DEF Reads
  <2> QED
    BY <2>1, <2>2 DEF DecodersAgree
<1> QED
  BY <1>1, Laid, PTL

-----------------------------------------------------------------------------
(* The positions visited                                                   *)

Onward(code, F, ip) ==
    IF ip = Len(code) + 1 \/ NextInstruction(code, ip) \notin ip + 1..Len(code) + 1
      THEN {ip} \ {Len(code) + 1}
      ELSE {ip} \cup F[NextInstruction(code, ip)]

Follows(code, F) == F = [ip \in 1..Len(code) + 1 |-> Onward(code, F, ip)]

LEMMA VisitedIs ==
    \A code : Visited(code) = (CHOOSE F : Follows(code, F))[1]
BY DEF Visited, Follows, Onward

(* The function in the definition of Visited exists.  It is made from its  *)
(* last position backwards: what is right behind a position stays so.      *)
LEMMA VisitedExists ==
    ASSUME NEW code, Len(code) \in Nat
    PROVE  \E F : Follows(code, F)
<1> DEFINE l == Len(code)
           D == 1..l + 1
           S == {d \in Nat : \E f \in [D -> SUBSET D] :
                    \A ip \in D : ip > l + 1 - d => f[ip] = Onward(code, f, ip)}
<1>1. 0 \in S
  <2> DEFINE f == [ip \in D |-> {}]
  <2>1. f \in [D -> SUBSET D] /\ \A ip \in D : ~(ip > l + 1 - 0)
    OBVIOUS
  <2> QED
    BY <2>1
<1>2. ASSUME NEW d \in Nat, d \in S
      PROVE  d + 1 \in S
  <2>1. PICK f \in [D -> SUBSET D] :
           \A ip \in D : ip > l + 1 - d => f[ip] = Onward(code, f, ip)
    BY <1>2
  <2> DEFINE x == l + 1 - d
             g == [f EXCEPT ![x] = Onward(code, f, x)]
  <2>2. CASE x \notin D
    <3>1. \A ip \in D : ip > l + 1 - (d + 1) => ip > l + 1 - d
      BY <2>2
    <3> QED
      BY <2>1, <3>1
  <2>3. CASE x \in D
    <3>1. ASSUME NEW ip \in D, ip >= x
          PROVE  Onward(code, g, ip) = Onward(code, f, ip)
      <4>1. ip + 1 > x
        BY <3>1
      <4>2. CASE NextInstruction(code, ip) \in ip + 1..l + 1
        <5>1. NextInstruction(code, ip) # x /\ NextInstruction(code, ip) \in D
          BY <2>3, <3>1, <4>2
        <5>2. g[NextInstruction(code, ip)] = f[NextInstruction(code, ip)]
          BY <5>1
        <5> HIDE DEF g
        <5> QED
          BY <5>2 DEF Onward
      <4>3. CASE NextInstruction(code, ip) \notin ip + 1..l + 1
        BY <4>3 DEF Onward
      <4> QED
        BY <4>2, <4>3
    <3>2. Onward(code, f, x) \in SUBSET D
      <4>1. CASE x = l + 1 \/ NextInstruction(code, x) \notin x + 1..l + 1
        BY <2>3, <4>1 DEF Onward
      <4>2. CASE ~(x = l + 1 \/ NextInstruction(code, x) \notin x + 1..l + 1)
        <5>1. NextInstruction(code, x) \in D
          BY <2>3, <4>2
        <5>2. f[NextInstruction(code, x)] \in SUBSET D
          BY <5>1
        <5>3. Onward(code, f, x) = {x} \cup f[NextInstruction(code, x)]
          BY <4>2 DEF Onward
        <5> QED
          BY <2>3, <5>2, <5>3
      <4> QED
        BY <4>1, <4>2
    <3>3. g \in [D -> SUBSET D] /\ g[x] = Onward(code, f, x)
          /\ \A ip \in D : ip # x => g[ip] = f[ip]
      BY <2>3, <3>2
    <3> HIDE DEF g
    <3>4. ASSUME NEW ip \in D, ip > l + 1 - (d + 1)
          PROVE  g[ip] = Onward(code, g, ip)
      <4>1. ip >= x
        BY <3>4
      <4>2. CASE ip = x
        BY <3>1, <3>3, <4>1, <4>2
      <4>3. CASE ip # x
        <5>1. ip > x
          BY <4>1, <4>3
        <5> QED
          BY <2>1, <3>1, <3>3, <4>1, <4>3, <5>1
      <4> QED
        BY <4>2, <4>3
    <3> QED
      BY <3>3, <3>4
  <2> QED
    BY <2>2, <2>3
<1> HIDE DEF S
<1>3. l + 1 \in S
  BY <1>1, <1>2, Induction
<1>4. PICK f \in [D -> SUBSET D] :
         \A ip \in D : ip > l + 1 - (l + 1) => f[ip] = Onward(code, f, ip)
  BY <1>3 DEF S
<1>5. \A ip \in D : f[ip] = Onward(code, f, ip)
  BY <1>4
<1>6. f = [ip \in D |-> Onward(code, f, ip)]
  BY <1>4, <1>5
<1> QED
  BY <1>6 DEF Follows

(* The positions pos are a chain from the first byte to behind the last.   *)
Chain(code, pos) ==
    /\ Len(code) \in Nat /\ pos \in Seq(Nat \ {0})
    /\ IF Len(pos) = 0 THEN Len(code) = 0 ELSE pos[1] = 1
    /\ \A j \in 1..Len(pos) :
          /\ NextInstruction(code, pos[j]) = End(pos, code, j)
          /\ End(pos, code, j) \in pos[j] + 1..Len(code) + 1

LEMMA VisitedAre ==
    ASSUME NEW code, NEW pos, Chain(code, pos)
    PROVE  Visited(code) = {pos[j] : j \in 1..Len(pos)}
<1> DEFINE l == Len(code)
           n == Len(pos)
           F == CHOOSE G : Follows(code, G)
           S == {d \in Nat : \A j \in 1..n : j > n - d => F[pos[j]] = {pos[i] : i \in j..n}}
<1>1. /\ l \in Nat /\ n \in Nat /\ \A j \in 1..n : pos[j] \in Nat \ {0}
      /\ IF n = 0 THEN l = 0 ELSE pos[1] = 1
      /\ \A j \in 1..n : /\ NextInstruction(code, pos[j]) = End(pos, code, j)
                         /\ End(pos, code, j) \in pos[j] + 1..l + 1
  BY DEF Chain
<1>2. Follows(code, F)
  BY <1>1, VisitedExists
<1>3. \A ip \in 1..l + 1 : F[ip] = Onward(code, F, ip)
  <2> HIDE DEF F
  <2> QED
    BY <1>2 DEF Follows
<1>4. Visited(code) = F[1]
  BY VisitedIs
<1>5. \A j \in 1..n : End(pos, code, j) = IF j < n THEN pos[j + 1] ELSE l + 1
  BY DEF End
<1> HIDE DEF l, n, F
<1>6. F[l + 1] = {}
  <2>1. F[l + 1] = Onward(code, F, l + 1)
    BY <1>1, <1>3
  <2>2. Onward(code, F, l + 1) = {l + 1} \ {l + 1}
    BY DEF Onward, l
  <2> QED
    BY <2>1, <2>2
<1>7. ASSUME NEW j \in 1..n
      PROVE  F[pos[j]] = {pos[j]} \cup F[End(pos, code, j)]
  <2>1. pos[j] \in 1..l + 1 /\ pos[j] # l + 1
    BY <1>1
  <2>2. F[pos[j]] = Onward(code, F, pos[j])
    BY <1>3, <2>1
  <2>3. NextInstruction(code, pos[j]) \in pos[j] + 1..l + 1
    BY <1>1
  <2> QED
    BY <1>1, <2>1, <2>2, <2>3 DEF Onward, l
<1>8. 0 \in S
  BY <1>1
<1>9. ASSUME NEW d \in Nat, d \in S
      PROVE  d + 1 \in S
  <2>1. ASSUME NEW j \in 1..n, j > n - (d + 1)
        PROVE  F[pos[j]] = {pos[i] : i \in j..n}
    <3>1. CASE j = n
      <4>1. End(pos, code, j) = l + 1
        BY <1>1, <1>5, <3>1
      <4>2. j..n = {j}
        BY <1>1, <3>1
      <4>3. F[pos[j]] = {pos[j]}
        BY <1>6, <1>7, <4>1
      <4> QED
        BY <4>2, <4>3
    <3>2. CASE j # n
      <4>1. j < n /\ j + 1 \in 1..n /\ j + 1 > n - d
        BY <1>1, <2>1, <3>2
      <4>2. End(pos, code, j) = pos[j + 1]
        BY <1>5, <4>1
      <4>3. F[pos[j + 1]] = {pos[i] : i \in j + 1..n}
        BY <1>9, <4>1
      <4>4. j..n = {j} \cup (j + 1..n)
        BY <1>1, <4>1
      <4>5. F[pos[j]] = {pos[j]} \cup {pos[i] : i \in j + 1..n}
        BY <1>7, <4>2, <4>3
      <4> QED
        BY <4>4, <4>5
    <3> QED
      BY <3>1, <3>2
  <2> QED
    BY <2>1
<1>10. n \in S
  <2> HIDE DEF S
  <2> QED
    BY <1>1, <1>8, <1>9, Induction
<1>11. CASE n = 0
  <2>1. F[1] = {}
    BY <1>1, <1>6, <1>11
  <2> QED
    BY <1>1, <1>4, <1>11, <2>1 DEF n
<1>12. CASE n # 0
  <2>1. 1 \in 1..n /\ 1 > n - n /\ pos[1] = 1
    BY <1>1, <1>12
  <2>2. F[pos[1]] = {pos[i] : i \in 1..n}
    BY <1>10, <2>1
  <2> QED
    BY <1>4, <2>1, <2>2 DEF n
<1> QED
  BY <1>11, <1>12

(* What LaidOut says of one instruction.                                   *)
LEMMA LaidParts ==
    ASSUME NEW prog, NEW pos, NEW code, LaidOut(prog, pos, code)
    PROVE  /\ pos \in Seq(Nat \ {0}) /\ code \in Seq(Byte) /\ Len(code) \in Nat
           /\ Len(pos) \in Nat /\ Len(prog) = Len(pos)
           /\ \A j \in 1..Len(pos) :
                /\ Right(code, prog[j], pos[j], End(pos, code, j))
                /\ pos[j] \in Nat \ {0} /\ prog[j].kind \in Kinds /\ code[pos[j]] = prog[j].kind
                /\ Width(prog[j].kind) \in 1..4 /\ End(pos, code, j) \in Nat
                /\ pos[j] + Width(prog[j].kind) <= End(pos, code, j)
                /\ End(pos, code, j) <= Len(code) + 1
           /\ \A i, j \in 1..Len(pos) : i < j => End(pos, code, i) <= pos[j]
<1>1. /\ pos \in Seq(Nat \ {0}) /\ code \in Seq(Byte) /\ Len(prog) = Len(pos)
      /\ \A j \in 1..Len(pos) : Right(code, prog[j], pos[j], End(pos, code, j))
      /\ \A i, j \in 1..Len(pos) : i < j => End(pos, code, i) <= pos[j]
  BY DEF LaidOut
<1>2. ASSUME NEW j \in 1..Len(pos)
      PROVE  /\ pos[j] \in Nat \ {0} /\ prog[j].kind \in Kinds /\ code[pos[j]] = prog[j].kind
             /\ Width(prog[j].kind) \in 1..4 /\ End(pos, code, j) \in Nat
             /\ pos[j] + Width(prog[j].kind) <= End(pos, code, j)
             /\ End(pos, code, j) <= Len(code) + 1
  <2>1. Right(code, prog[j], pos[j], End(pos, code, j))
    BY <1>1
  <2> QED
    BY <2>1, Widths DEF Right
<1> QED
  BY <1>1, <1>2

LEMMA LaidChain ==
    ASSUME NEW prog, NEW pos, NEW code, LaidOut(prog, pos, code)
    PROVE  Chain(code, pos)
<1>1. /\ pos \in Seq(Nat \ {0}) /\ Len(code) \in Nat
      /\ IF Len(pos) = 0 THEN Len(code) = 0 ELSE pos[1] = 1
  BY LaidParts DEF LaidOut
<1>2. ASSUME NEW j \in 1..Len(pos)
      PROVE  /\ NextInstruction(code, pos[j]) = End(pos, code, j)
             /\ End(pos, code, j) \in pos[j] + 1..Len(code) + 1
  <2>1. Right(code, prog[j], pos[j], End(pos, code, j))
    BY LaidParts
  <2>2. /\ pos[j] \in Nat /\ Width(prog[j].kind) \in 1..4 /\ End(pos, code, j) \in Nat
        /\ pos[j] + Width(prog[j].kind) <= End(pos, code, j)
        /\ End(pos, code, j) <= Len(code) + 1
    BY LaidParts
  <2>3. End(pos, code, j) \in pos[j] + 1..Len(code) + 1
    BY <1>1, <2>2
  <2> QED
    BY <2>1, <2>3 DEF Right
<1> QED
  BY <1>1, <1>2 DEF Chain

(* Skipping instructions one by one visits each of them and nothing else.  *)
THEOREM SkippingRight ==
    Spec => []VisitsInstructions
<1>1. IInv => VisitsInstructions
  BY LaidChain, VisitedAre DEF IInv, VisitsInstructions, Boundaries
<1> QED
  BY <1>1, Laid, PTL

(* No instruction begins within another: bytes of one are not bytes of a   *)
(* second one.                                                             *)
LEMMA NoOverlap ==
    ASSUME NEW prog, NEW pos, NEW code, LaidOut(prog, pos, code),
           NEW i \in 1..Len(pos), NEW j \in 1..Len(pos), NEW x \in Int,
           pos[i] <= x, x < End(pos, code, i), pos[j] <= x, x < End(pos, code, j)
    PROVE  i = j
<1>1. /\ pos[i] \in Nat /\ pos[j] \in Nat
      /\ End(pos, code, i) \in Nat /\ End(pos, code, j) \in Nat
      /\ i < j => End(pos, code, i) <= pos[j]
      /\ j < i => End(pos, code, j) <= pos[i]
  BY LaidParts
<1> QED
  BY <1>1

-----------------------------------------------------------------------------
(* Relocation of constants                                                 *)

LEMMA TwoBytesWrap ==
    ASSUME NEW x \in Int
    PROVE  Low(x \div 256) * 256 + Low(x) = x % 65536
<1> DEFINE q == x \div 256
           r == q \div 256
           l == Low(x)
           m == Low(q)
<1>1. q \in Int /\ l \in Int /\ x = 256 * q + l /\ 0 <= l /\ l <= 255
  BY LowAndRest, SMT
<1> HIDE DEF q, l
<1>2. r \in Int /\ m \in Int /\ q = 256 * r + m /\ 0 <= m /\ m <= 255
  BY <1>1, LowAndRest, SMT
<1> HIDE DEF r, m
<1>3. x = 65536 * r + (256 * m + l) /\ 256 * m + l >= 0 /\ 256 * m + l < 65536
  BY <1>1, <1>2, SMT
<1>4. x % 65536 = m * 256 + l
  BY <1>1, <1>2, <1>3, SMT
<1> QED
  BY <1>4, SMT DEF q, l, m

(* Only the two bytes behind an opcode that has a constant are written.    *)
LEMMA Patched ==
    ASSUME NEW prog, NEW pos, NEW code, LaidOut(prog, pos, code), NEW increment \in Nat
    PROVE  LET new == UpdateIndices(code, increment)
           IN /\ new \in Seq(Byte) /\ Len(new) = Len(code)
              /\ \A j \in 1..Len(pos) : \A x \in Int :
                    pos[j] <= x /\ x < End(pos, code, j) =>
                      IF HasConstant(prog[j].kind) /\ x = pos[j] + 1
                        THEN new[x] = Low((Uint16(code, pos[j] + 1) + increment) \div 256)
                      ELSE IF HasConstant(prog[j].kind) /\ x = pos[j] + 2
                        THEN new[x] = Low(Uint16(code, pos[j] + 1) + increment)
                      ELSE new[x] = code[x]
<1> DEFINE new == UpdateIndices(code, increment)
           patched == {ip \in Visited(code) : HasConstant(code[ip])}
           n == Len(pos)
           l == Len(code)
           v(ip) == Uint16(code, ip + 1) + increment
<1>1. /\ l \in Nat /\ n \in Nat /\ code \in Seq(Byte)
      /\ \A j \in 1..n :
            /\ pos[j] \in Nat \ {0} /\ prog[j].kind \in Kinds /\ code[pos[j]] = prog[j].kind
            /\ Width(prog[j].kind) \in 1..4 /\ End(pos, code, j) \in Nat
            /\ pos[j] + Width(prog[j].kind) <= End(pos, code, j)
            /\ End(pos, code, j) <= l + 1
  BY LaidParts
<1>2. Visited(code) = {pos[j] : j \in 1..n}
  BY LaidChain, VisitedAre
<1>3. \A ip \in patched : \E j \in 1..n : ip = pos[j] /\ HasConstant(prog[j].kind)
  BY <1>1, <1>2
<1>4. \A j \in 1..n : HasConstant(prog[j].kind) => pos[j] \in patched
  BY <1>1, <1>2
<1>5. \A ip : Bytes16(v(ip))[1] = Low(v(ip) \div 256) /\ Bytes16(v(ip))[2] = Low(v(ip))
  BY DEF Bytes16
<1>6. new = [x \in 1..l |->
               IF x - 1 \in patched THEN Low(v(x - 1) \div 256)
               ELSE IF x - 2 \in patched THEN Low(v(x - 2))
               ELSE code[x]]
  BY <1>5 DEF UpdateIndices
<1>7. \A op \in Kinds : HasConstant(op) => Width(op) = 3
  BY Opcodes, Classes DEF Width, Kinds
<1> HIDE DEF patched, n, l
<1>8. ASSUME NEW j \in 1..n, HasConstant(prog[j].kind)
      PROVE  pos[j] \in Nat \ {0} /\ pos[j] + 3 <= End(pos, code, j) /\ End(pos, code, j) <= l + 1
  BY <1>1, <1>7, <1>8
<1>9. ASSUME NEW ip \in patched
      PROVE  v(ip) \in Int
  <2>1. PICK j \in 1..n : ip = pos[j] /\ HasConstant(prog[j].kind)
    BY <1>3
  <2>2. ip \in Nat /\ ip + 3 <= l + 1
    BY <1>1, <1>8, <2>1
  <2>3. ip + 1 \in 1..l /\ (ip + 1) + 1 \in 1..l
    BY <1>1, <2>2
  <2>4. code[ip + 1] \in Nat /\ code[(ip + 1) + 1] \in Nat
    <3>1. \A y \in 1..l : code[y] \in Byte
      BY <1>1 DEF l
    <3>2. code[ip + 1] \in Byte /\ code[(ip + 1) + 1] \in Byte
      BY <2>3, <3>1
    <3> QED
      BY <3>2 DEF Byte
  <2> QED
    BY <2>4 DEF Uint16
<1>10. ASSUME NEW x \in 1..l
       PROVE  new[x] \in Byte
  <2>1. CASE x - 1 \in patched
    <3>1. Low(v(x - 1) \div 256) \in Byte
      BY <1>9, <2>1, HighAndLow
    <3> QED
      BY <1>6, <2>1, <3>1
  <2>2. CASE x - 1 \notin patched /\ x - 2 \in patched
    <3>1. Low(v(x - 2)) \in Byte
      BY <1>9, <2>2, HighAndLow
    <3> QED
      BY <1>6, <2>2, <3>1
  <2>3. CASE x - 1 \notin patched /\ x - 2 \notin patched
    BY <1>1, <1>6, <2>3 DEF l
  <2> QED
    BY <2>1, <2>2, <2>3
<1>11. DOMAIN new = 1..l
  BY <1>6
<1> HIDE DEF new
<1>12. new \in Seq(Byte) /\ Len(new) = l
  <2>1. new = [x \in 1..l |-> new[x]]
    BY <1>6, <1>11
  <2>2. new \in [1..l -> Byte]
    BY <1>10, <1>11, <2>1
  <2> QED
    BY <1>1, <2>2
<1>13. ASSUME NEW j \in 1..n, NEW x \in Int, pos[j] <= x, x < End(pos, code, j)
       PROVE  IF HasConstant(prog[j].kind) /\ x = pos[j] + 1
                THEN new[x] = Low(v(pos[j]) \div 256)
              ELSE IF HasConstant(prog[j].kind) /\ x = pos[j] + 2
                THEN new[x] = Low(v(pos[j]))
              ELSE new[x] = code[x]
  <2>1. x \in 1..l
    BY <1>1, <1>13
  <2>2. ASSUME NEW k \in 1..2, x - k \in patched
        PROVE  x - k = pos[j] /\ HasConstant(prog[j].kind)
    <3>1. PICK i \in 1..n : x - k = pos[i] /\ HasConstant(prog[i].kind)
      BY <1>3, <2>2
    <3>2. pos[i] <= x /\ x < End(pos, code, i)
      BY <1>1, <1>8, <2>1, <3>1
    <3>3. i = j
      BY <1>13, <3>2, NoOverlap DEF n
    <3> QED
      BY <3>1, <3>3
  <2>3. CASE HasConstant(prog[j].kind) /\ x = pos[j] + 1
    <3>1. x - 1 = pos[j] /\ x - 1 \in patched
      BY <1>1, <1>4, <2>3
    <3> QED
      BY <1>6, <2>1, <2>3, <3>1
  <2>4. CASE HasConstant(prog[j].kind) /\ x = pos[j] + 2
    <3>1. x - 2 = pos[j] /\ x - 2 \in patched
      BY <1>1, <1>4, <2>4
    <3>2. x - 1 \notin patched
      BY <1>1, <2>2, <3>1
    <3>3. x # pos[j] + 1
      BY <1>1, <2>4
    <3> QED
      BY <1>6, <2>1, <2>4, <3>1, <3>2, <3>3
  <2>5. CASE ~(HasConstant(prog[j].kind) /\ (x = pos[j] + 1 \/ x = pos[j] + 2))
    <3>1. x - 1 \notin patched /\ x - 2 \notin patched
      BY <1>1, <2>1, <2>2, <2>5
    <3>2. new[x] = code[x]
      BY <1>6, <2>1, <3>1
    <3> QED
      BY <2>5, <3>2
  <2> QED
    BY <2>3, <2>4, <2>5
<1> QED
  BY <1>12, <1>13 DEF n, l, new

RelocatedAt(code, ip, increment) ==
    LET before == Run(code, ip)
        after == Run(UpdateIndices(code, increment), ip)
    IN /\ after.kind = before.kind /\ after.next = before.next
       /\ after.value = IF HasConstant(before.kind)
                          THEN (before.value + increment) % 65536 ELSE before.value

LEMMA Relocated ==
    ASSUME NEW prog, NEW pos, NEW code, LaidOut(prog, pos, code), NEW increment \in Nat,
           NEW j \in 1..Len(pos)
    PROVE  RelocatedAt(code, pos[j], increment)
<1> DEFINE new == UpdateIndices(code, increment)
           op == prog[j].kind
           p == pos[j]
           e == End(pos, code, j)
           v == Uint16(code, p + 1) + increment
<1>1. /\ Right(code, prog[j], p, e) /\ p \in Nat \ {0} /\ op \in Kinds /\ code[p] = op
      /\ Width(op) \in 1..4 /\ e \in Nat /\ p + Width(op) <= e /\ e <= Len(code) + 1
      /\ Len(code) \in Nat /\ code \in Seq(Byte)
  BY LaidParts
<1>2. /\ new \in Seq(Byte) /\ Len(new) = Len(code)
      /\ \A x \in Int : p <= x /\ x < e =>
            IF HasConstant(op) /\ x = p + 1 THEN new[x] = Low(v \div 256)
            ELSE IF HasConstant(op) /\ x = p + 2 THEN new[x] = Low(v)
            ELSE new[x] = code[x]
  BY Patched
<1>3. Run(code, p) = Reads(op, prog[j].value, e)
  BY <1>1 DEF Right
<1> HIDE DEF new, op, p, e
<1>4. CASE ~HasConstant(op)
  <2>1. \A k \in 0..3 : k < Width(op) => new[p + k] = code[p + k]
    <3> TAKE k \in 0..3
    <3> HAVE k < Width(op)
    <3>1. p + k \in Int /\ p <= p + k /\ p + k < e
      BY <1>1
    <3> QED
      BY <1>2, <1>4, <3>1
  <2>2. p + (e - p) = e
    BY <1>1
  <2>3. Right(new, prog[j], p, p + (e - p))
    BY <1>1, <1>2, <2>1, <2>2, Elsewhere DEF op
  <2>4. Run(new, p) = Reads(op, prog[j].value, e)
    BY <2>2, <2>3 DEF Right, op
  <2> QED
    BY <1>3, <1>4, <2>4, SMT DEF RelocatedAt, Reads, new, p
<1>5. CASE HasConstant(op)
  <2>1. Width(op) = 3 /\ op \in Indexed /\ op \notin Wide \cup Narrow \cup Bare
    <3>1. op \in 0..23 /\ op \in Indexed
      BY <1>1, <1>5, Classes DEF Kinds
    <3>2. op \notin Wide \cup Narrow \cup Bare
      BY <3>1, Classes, SMTT(20)
    <3> QED
      BY <3>1, <3>2, Opcodes, Classes, SMTT(20) DEF Width
  <2>2. p + 1 \in 1..Len(code) /\ p + 2 \in 1..Len(code) /\ (p + 1) + 1 = p + 2
    BY <1>1, <2>1
  <2>3. \A y \in 1..Len(code) : code[y] \in Byte /\ new[y] \in Byte
    BY <1>1, <1>2
  <2>4. code[p + 1] \in Byte /\ code[p + 2] \in Byte /\ new[p + 1] \in Byte /\ new[p + 2] \in Byte
    BY <2>2, <2>3
  <2>5. /\ p \in Int /\ p <= p /\ p < e /\ p # p + 1 /\ p # p + 2
        /\ p + 1 \in Int /\ p <= p + 1 /\ p + 1 < e /\ p + 1 # p + 2
        /\ p + 2 \in Int /\ p <= p + 2 /\ p + 2 < e /\ p + 2 # p + 1
    BY <1>1, <2>1
  <2> HIDE DEF v
  <2>6. new[p] = code[p] /\ new[p + 1] = Low(v \div 256) /\ new[p + 2] = Low(v)
    BY <1>2, <1>5, <2>5
  <2>7. Run(code, p) = Reads(op, code[p + 1] * 256 + code[p + 2], p + 3)
    <3>1. \A k \in 1..3 : k < Width(code[p]) => code[p + k] \in Byte
      BY <1>1, <2>1, <2>4
    <3>2. Run(code, p) = Reads(code[p], Value(code[p], code[p + 1], code[p + 2], code[p + 3]),
                               p + Size(code[p], code[p + 1], code[p + 2], code[p + 3]))
      BY <1>1, <3>1, RunIs
    <3>3. Value(op, code[p + 1], code[p + 2], code[p + 3]) = code[p + 1] * 256 + code[p + 2]
      BY <2>1 DEF Value
    <3>4. Size(op, code[p + 1], code[p + 2], code[p + 3]) = 3
      BY <2>1 DEF Size
    <3> QED
      BY <1>1, <3>2, <3>3, <3>4
  <2>8. Run(new, p) = Reads(op, new[p + 1] * 256 + new[p + 2], p + 3)
    <3>1. new[p] = op /\ \A k \in 1..3 : k < Width(new[p]) => new[p + k] \in Byte
      BY <1>1, <2>1, <2>4, <2>6
    <3>2. Run(new, p) = Reads(new[p], Value(new[p], new[p + 1], new[p + 2], new[p + 3]),
                              p + Size(new[p], new[p + 1], new[p + 2], new[p + 3]))
      BY <1>1, <3>1, RunIs
    <3>3. Value(op, new[p + 1], new[p + 2], new[p + 3]) = new[p + 1] * 256 + new[p + 2]
      BY <2>1 DEF Value
    <3>4. Size(op, new[p + 1], new[p + 2], new[p + 3]) = 3
      BY <2>1 DEF Size
    <3> QED
      BY <3>1, <3>2, <3>3, <3>4
  <2>9. v = code[p + 1] * 256 + code[p + 2] + increment /\ v \in Int
    <3>1. v = code[p + 1] * 256 + code[p + 2] + increment
      BY <2>2 DEF v, Uint16
    <3>2. code[p + 1] \in Int /\ code[p + 2] \in Int
      BY <2>4, ByteIsInt
    <3> QED
      BY <3>1, <3>2
  <2>10. new[p + 1] * 256 + new[p + 2] = (code[p + 1] * 256 + code[p + 2] + increment) % 65536
    <3>1. Low(v \div 256) * 256 + Low(v) = v % 65536
      BY <2>9, TwoBytesWrap, SMT
    <3> QED
      BY <2>6, <2>9, <3>1, SMT
  <2> DEFINE w == code[p + 1] * 256 + code[p + 2]
             z == new[p + 1] * 256 + new[p + 2]
             before == Run(code, p)
             after == Run(new, p)
  <2>11. before = Reads(op, w, p + 3) /\ after = Reads(op, z, p + 3)
         /\ z = (w + increment) % 65536
    BY <2>7, <2>8, <2>10, SMT
  <2> HIDE DEF w, z, before, after
  <2>12. /\ after.value = (before.value + increment) % 65536
         /\ before.kind = op /\ after.kind = op /\ after.next = before.next
    BY <2>11, SMT DEF Reads
  <2> QED
    BY <1>5, <2>12, SMT DEF RelocatedAt, before, after, new, p
<1> QED
  BY <1>4, <1>5

(* Concat adds to every index of a constant, across a byte if need be, and *)
(* changes nothing else that the VM reads.                                 *)
THEOREM RelocationRight ==
    Spec => []UpdatesIndicesOnly
<1>1. IInv => UpdatesIndicesOnly
  <2> SUFFICES ASSUME IInv PROVE UpdatesIndicesOnly
    OBVIOUS
  <2>1. \A increment \in Increments : \A j \in 1..Len(program) :
           RelocatedAt(bytes, starts[j], increment)
    <3> SUFFICES ASSUME NEW increment \in Increments, NEW j \in 1..Len(program)
                 PROVE  RelocatedAt(bytes, starts[j], increment)
      OBVIOUS
    <3>1. increment \in Nat
      BY SampleAssumption, SMT
    <3>2. LaidOut(program, starts, bytes) /\ j \in 1..Len(starts)
      BY LaidParts, SMT DEF IInv
    <3> QED
      BY <3>1, <3>2, Relocated, SMT
  <2> QED
    BY <2>1, SMT DEF UpdatesIndicesOnly, RelocatedAt
<1> QED
  BY <1>1, Laid, PTL

-----------------------------------------------------------------------------
(* Removal of blank strings                                                *)

(* What becomes of an opcode                                               *)
Jump(op) == IF op = Op.WRITE_RAW THEN Op.JUMP_FWD
            ELSE IF op = Op.WRITE_RAW_W THEN Op.JUMP_FWD_W
            ELSE op

LEMMA JumpsAlike ==
    ASSUME NEW op \in Kinds
    PROVE  /\ Jump(op) \in Kinds /\ Jump(op) \in Byte /\ Width(Jump(op)) = Width(op)
           /\ Jump(op) \notin {Op.WRITE_RAW, Op.WRITE_RAW_W}
           /\ Jump(op) # op => op \in {Op.WRITE_RAW, Op.WRITE_RAW_W}
           /\ \A a, b, c : Value(Jump(op), a, b, c) = Value(op, a, b, c)
                           /\ Size(Jump(op), a, b, c) = Size(op, a, b, c)
<1>1. CASE op = Op.WRITE_RAW
  <2>1. Jump(op) = 23 /\ op = 21
    BY <1>1, Opcodes DEF Jump
  <2>2. Jump(op) \in Kinds /\ Jump(op) \in Byte
    BY <2>1, Opcodes DEF Kinds, Byte
  <2> QED
    BY <2>1, <2>2, Opcodes, Classes DEF Width, Value, Size
<1>2. CASE op = Op.WRITE_RAW_W
  <2>1. Jump(op) = 22 /\ op = 1
    BY <1>2, Opcodes DEF Jump
  <2>2. Jump(op) \in Kinds /\ Jump(op) \in Byte
    BY <2>1, Opcodes DEF Kinds, Byte
  <2>3. Width(22) = 4 /\ Width(1) = 4
    BY Opcodes, Classes DEF Width
  <2>4. \A a, b, c : Value(22, a, b, c) = a * 65536 + b * 256 + c
                     /\ Value(1, a, b, c) = a * 65536 + b * 256 + c
    BY Opcodes, Classes, SMT DEF Value
  <2>5. \A a, b, c : Size(22, a, b, c) = 4 + (a * 65536 + b * 256 + c)
                     /\ Size(1, a, b, c) = 4 + (a * 65536 + b * 256 + c)
    BY Classes, SMT DEF Size
  <2> QED
    BY <2>1, <2>2, <2>3, <2>4, <2>5, Opcodes, SMT
<1>3. CASE op \notin {Op.WRITE_RAW, Op.WRITE_RAW_W}
  <2>1. Jump(op) = op
    BY <1>3 DEF Jump
  <2>2. op \in Byte
    BY DEF Kinds, Byte
  <2> QED
    BY <1>3, <2>1, <2>2
<1> QED
  BY <1>1, <1>2, <1>3

(* Only the opcodes of raw texts are written; none of the texts is empty.  *)
LEMMA TextsTurned ==
    ASSUME NEW prog, NEW pos, NEW code, LaidOut(prog, pos, code)
    PROVE  LET removed == RemoveBlankStrings(code)
           IN /\ removed \in Seq(Byte) /\ Len(removed) = Len(code)
              /\ \A j \in 1..Len(pos) : \A x \in Int :
                    pos[j] <= x /\ x < End(pos, code, j) =>
                      removed[x] = IF x = pos[j] THEN Jump(prog[j].kind) ELSE code[x]
<1> DEFINE removed == RemoveBlankStrings(code)
           n == Len(pos)
           l == Len(code)
           At(x) == IF code[x] = Op.WRITE_RAW /\ code[x + 1] # 0 THEN Op.JUMP_FWD
                    ELSE IF code[x] = Op.WRITE_RAW_W /\ Uint24(code, x + 1) # 0
                      THEN Op.JUMP_FWD_W
                    ELSE code[x]
<1>1. /\ l \in Nat /\ n \in Nat /\ code \in Seq(Byte)
      /\ \A j \in 1..n :
            /\ Right(code, prog[j], pos[j], End(pos, code, j))
            /\ pos[j] \in Nat \ {0} /\ prog[j].kind \in Kinds /\ code[pos[j]] = prog[j].kind
            /\ Width(prog[j].kind) \in 1..4 /\ End(pos, code, j) \in Nat
            /\ pos[j] + Width(prog[j].kind) <= End(pos, code, j)
            /\ End(pos, code, j) <= l + 1
  BY LaidParts
<1>2. Visited(code) = {pos[j] : j \in 1..n}
  BY LaidChain, VisitedAre
<1>3. removed = [x \in 1..l |-> IF x \notin Visited(code) THEN code[x] ELSE At(x)]
  BY DEF RemoveBlankStrings
<1>4. ASSUME NEW j \in 1..n
      PROVE  At(pos[j]) = Jump(prog[j].kind)
  <2> DEFINE p == pos[j]
             op == prog[j].kind
             value == prog[j].value
  <2>1. /\ Run(code, p) = Reads(op, value, End(pos, code, j))
        /\ op \in {Op.WRITE_RAW, Op.WRITE_RAW_W} => value # 0
    BY <1>1 DEF Right
  <2>2. p \in Nat /\ code[p] = op /\ op \in Kinds
    BY <1>1
  <2>3. (p + 1) + 1 = p + 2 /\ (p + 1) + 2 = p + 3
    BY <2>2
  <2> HIDE DEF p, op, value
  <2>4. CASE op = Op.WRITE_RAW
    <3>1. Run(code, p).value = code[p + 1]
      BY <2>2, <2>4, Opcodes, Classes DEF Run, HasConstant
    <3>2. code[p + 1] # 0
      BY <2>1, <2>4, <3>1 DEF Reads
    <3> QED
      BY <2>2, <2>4, <3>2 DEF Jump, p, op
  <2>5. CASE op = Op.WRITE_RAW_W
    <3>1. Run(code, p).value = Uint24(code, p + 1)
      BY <2>2, <2>5, Opcodes, Classes DEF Run, HasConstant
    <3>2. Uint24(code, p + 1) # 0
      BY <2>1, <2>5, <3>1 DEF Reads
    <3>3. op # Op.WRITE_RAW
      BY <2>5, Opcodes
    <3> QED
      BY <2>2, <2>5, <3>2, <3>3 DEF Jump, p, op
  <2>6. CASE op \notin {Op.WRITE_RAW, Op.WRITE_RAW_W}
    BY <2>2, <2>6 DEF Jump, p, op
  <2> QED
    BY <2>4, <2>5, <2>6
<1> HIDE DEF At, n, l
<1>5. ASSUME NEW j \in 1..n, NEW x \in Int, pos[j] <= x, x < End(pos, code, j)
      PROVE  removed[x] = IF x = pos[j] THEN Jump(prog[j].kind) ELSE code[x]
  <2>1. x \in 1..l
    BY <1>1, <1>5
  <2>2. CASE x = pos[j]
    <3>1. x \in Visited(code)
      BY <1>2, <2>2
    <3>2. removed[x] = At(x)
      BY <1>3, <2>1, <3>1
    <3> QED
      BY <1>4, <2>2, <3>2
  <2>3. CASE x # pos[j]
    <3>1. ASSUME NEW i \in 1..n, x = pos[i]
          PROVE  FALSE
      <4>1. pos[i] <= x /\ x < End(pos, code, i)
        BY <1>1, <3>1
      <4>2. i = j
        BY <1>5, <4>1, NoOverlap DEF n
      <4> QED
        BY <2>3, <3>1, <4>2
    <3>2. x \notin Visited(code)
      BY <1>2, <3>1
    <3> QED
      BY <1>3, <2>1, <2>3, <3>2
  <2> QED
    BY <2>2, <2>3
<1>6. ASSUME NEW x \in 1..l
      PROVE  removed[x] \in Byte
  <2>1. CASE x \notin Visited(code)
    <3>1. \A y \in 1..l : code[y] \in Byte
      BY <1>1 DEF l
    <3> QED
      BY <1>3, <2>1, <3>1
  <2>2. CASE x \in Visited(code)
    <3>1. PICK j \in 1..n : x = pos[j]
      BY <1>2, <2>2
    <3>2. removed[x] = Jump(prog[j].kind)
      BY <1>3, <1>4, <2>2, <3>1
    <3> QED
      BY <1>1, <3>2, JumpsAlike
  <2> QED
    BY <2>1, <2>2
<1>7. DOMAIN removed = 1..l
  BY <1>3
<1>8. removed = [x \in 1..l |-> removed[x]]
  BY <1>3, <1>7
<1> HIDE DEF removed
<1>9. removed \in [1..l -> Byte]
  BY <1>6, <1>7, <1>8
<1>10. removed \in Seq(Byte) /\ Len(removed) = l
  BY <1>1, <1>7, <1>9
<1> QED
  BY <1>5, <1>10 DEF n, l, removed

LEMMA TurnedRead ==
    ASSUME NEW prog, NEW pos, NEW code, LaidOut(prog, pos, code), NEW j \in 1..Len(pos)
    PROVE  LET removed == RemoveBlankStrings(code)
               next == End(pos, code, j)
           IN /\ Run(code, pos[j]) = Reads(prog[j].kind, prog[j].value, next)
              /\ Run(removed, pos[j]) = Reads(Jump(prog[j].kind), prog[j].value, next)
              /\ NextInstruction(removed, pos[j]) = next
<1> DEFINE removed == RemoveBlankStrings(code)
           op == prog[j].kind
           p == pos[j]
           e == End(pos, code, j)
<1>1. /\ Right(code, prog[j], p, e) /\ p \in Nat \ {0} /\ op \in Kinds /\ code[p] = op
      /\ Width(op) \in 1..4 /\ e \in Nat /\ p + Width(op) <= e /\ e <= Len(code) + 1
      /\ Len(code) \in Nat /\ code \in Seq(Byte)
  BY LaidParts
<1>2. \A x \in Int : p <= x /\ x < e => removed[x] = IF x = p THEN Jump(op) ELSE code[x]
  BY TextsTurned
<1>3. Run(code, p) = Reads(op, prog[j].value, e)
  BY <1>1 DEF Right
<1> HIDE DEF removed, op, p, e
<1>4. removed[p] = Jump(op)
  BY <1>1, <1>2
<1>5. \A k \in 1..3 : k < Width(op) => removed[p + k] = code[p + k] /\ code[p + k] \in Byte
  <2> TAKE k \in 1..3
  <2> HAVE k < Width(op)
  <2>1. p + k \in Int /\ p <= p + k /\ p + k < e /\ p + k # p /\ p + k \in 1..Len(code)
    BY <1>1
  <2> QED
    BY <1>1, <1>2, <2>1
<1> DEFINE a == code[p + 1]
           b == code[p + 2]
           c == code[p + 3]
           x == removed[p + 1]
           y == removed[p + 2]
           z == removed[p + 3]
<1>6. Run(code, p) = Reads(op, Value(op, a, b, c), p + Size(op, a, b, c))
  BY <1>1, <1>5, RunIs
<1>7. /\ Run(removed, p) = Reads(Jump(op), Value(Jump(op), x, y, z), p + Size(Jump(op), x, y, z))
      /\ NextInstruction(removed, p) = p + Size(Jump(op), x, y, z)
  <2>1. /\ removed[p] \in Kinds
        /\ \A k \in 1..3 : k < Width(removed[p]) => removed[p + k] \in Byte
    BY <1>1, <1>4, <1>5, JumpsAlike
  <2>2. /\ Run(removed, p)
             = Reads(removed[p], Value(removed[p], x, y, z), p + Size(removed[p], x, y, z))
        /\ NextInstruction(removed, p) = p + Size(removed[p], x, y, z)
    BY <1>1, <2>1, RunIs
  <2> QED
    BY <1>4, <2>2
<1>8. /\ Width(op) > 1 => a = x
      /\ Width(op) > 2 => b = y
      /\ Width(op) > 3 => c = z
  BY <1>1, <1>5
<1> HIDE DEF a, b, c, x, y, z
<1>9. /\ Value(Jump(op), x, y, z) = Value(op, a, b, c)
      /\ Size(Jump(op), x, y, z) = Size(op, a, b, c)
  <2>1. Value(op, a, b, c) = Value(op, x, y, z) /\ Size(op, a, b, c) = Size(op, x, y, z)
    <3>1. op \in Kinds
      BY <1>1
    <3> QED
      BY <1>8, <3>1, Operands
  <2> QED
    BY <1>1, <2>1, JumpsAlike
<1>10. Value(op, a, b, c) = prog[j].value /\ p + Size(op, a, b, c) = e
  BY <1>3, <1>6 DEF Reads
<1>11. /\ Run(removed, p) = Reads(Jump(op), prog[j].value, e)
       /\ NextInstruction(removed, p) = e
  BY <1>7, <1>9, <1>10
<1> QED
  BY <1>3, <1>11 DEF removed, op, p, e

(* Removing blank strings turns every raw text into a jump over it and     *)
(* moves no instruction.                                                   *)
THEOREM RemovalRight ==
    Spec => []RemovesOnlyTexts
<1>1. IInv => RemovesOnlyTexts
  <2> SUFFICES ASSUME IInv PROVE RemovesOnlyTexts
    OBVIOUS
  <2> DEFINE removed == RemoveBlankStrings(bytes)
  <2>1. LaidOut(program, starts, bytes)
    BY DEF IInv
  <2>2. Chain(bytes, starts)
    BY <2>1, LaidChain
  <2>3. Len(removed) = Len(bytes)
    BY <2>1, TextsTurned
  <2>4. ASSUME NEW j \in 1..Len(starts)
        PROVE  NextInstruction(removed, starts[j]) = End(starts, bytes, j)
    BY <2>1, TurnedRead
  <2>5. \A j : End(starts, removed, j) = End(starts, bytes, j)
    BY <2>3 DEF End
  <2> HIDE DEF removed
  <2>6. Chain(removed, starts)
    BY <2>2, <2>3, <2>4, <2>5 DEF Chain
  <2>7. Visited(removed) = Boundaries
    BY <2>6, VisitedAre DEF Boundaries
  <2>8. ASSUME NEW ip \in Boundaries
        PROVE  LET before == Run(bytes, ip)
                   after == Run(removed, ip)
               IN /\ after.next = before.next /\ after.value = before.value
                  /\ after.kind \notin {Op.WRITE_RAW, Op.WRITE_RAW_W}
                  /\ after.kind # before.kind =>
                       before.kind \in {Op.WRITE_RAW, Op.WRITE_RAW_W}
    <3>1. PICK j \in 1..Len(starts) : ip = starts[j]
      BY DEF Boundaries
    <3> DEFINE op == program[j].kind
               value == program[j].value
               next == End(starts, bytes, j)
    <3>2. Run(bytes, ip) = Reads(op, value, next) /\ Run(removed, ip) = Reads(Jump(op), value, next)
      BY <2>1, <3>1, TurnedRead DEF removed
    <3>3. op \in Kinds
      BY <2>1, LaidParts
    <3> HIDE DEF op, value, next
    <3> QED
      BY <3>2, <3>3, JumpsAlike DEF Reads
  <2> QED
    BY <2>7, <2>8 DEF RemovesOnlyTexts, removed
<1> QED
  BY <1>1, Laid, PTL
=============================================================================
