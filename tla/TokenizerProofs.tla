------------------------- MODULE TokenizerProofs -------------------------
(***************************************************************************)
(* Proofs about the tokenizer, for any set of sources.  The scans are       *)
(* recursive functions: that each exists, and so obeys its rule, is shown   *)
(* first, and what it finds is then shown from the last character down.     *)
(* The inductive invariant adds to the properties that the tokenizers which *)
(* liquid tags have saved are as sane as the current one, and nest.         *)
(***************************************************************************)
EXTENDS Tokenizer, FiniteSetTheorems, WellFoundedInduction, TLAPS

-----------------------------------------------------------------------------
(* Least and greatest elements                                             *)

LEMMA LeastNatural ==
    ASSUME NEW S, S \subseteq Nat, S # {}
    PROVE  \E x \in S : \A y \in S : x <= y
<1> DEFINE R == OpToRel(<, Nat)
<1>1. IsWellFoundedOn(R, Nat)
  BY NatLessThanWellFounded
<1>2. \E x \in S : \A y \in S : <<y, x>> \notin R
  <2> HIDE DEF R
  <2> QED
    BY <1>1, WFMin, Zenon
<1>3. PICK x \in S : \A y \in S : <<y, x>> \notin R
  BY <1>2
<1>4. \A y \in S : <<y, x>> \in R \/ ~(y < x)
  BY DEF OpToRel
<1>5. \A y \in S : ~(y < x)
  BY <1>3, <1>4
<1> QED
  BY <1>5

LEMMA MinFacts ==
    ASSUME NEW S, S \subseteq Nat, S # {}
    PROVE  Min(S) \in S /\ \A y \in S : Min(S) <= y
<1>1. \E x \in S : \A y \in S : x <= y
  BY LeastNatural
<1> QED
  BY <1>1 DEF Min

LEMMA MaxFacts ==
    ASSUME NEW n \in Int, NEW S, S \subseteq Int, \A x \in S : x <= n, S # {}
    PROVE  Max(S) \in S /\ \A y \in S : Max(S) >= y
<1> DEFINE T == {n - x : x \in S}
<1>1. T \subseteq Nat /\ T # {}
  OBVIOUS
<1>2. PICK z \in T : \A y \in T : z <= y
  <2> HIDE DEF T
  <2> QED
    BY <1>1, LeastNatural
<1>3. PICK x \in S : z = n - x
  OBVIOUS
<1>4. \A y \in S : n - x <= n - y
  BY <1>2, <1>3
<1>5. \A y \in S : x >= y
  BY <1>4
<1>6. \E w \in S : \A y \in S : w >= y
  BY <1>5
<1> QED
  BY <1>6 DEF Max

Inherited(a, b, S) == \A i \in a..b : (\A j \in i + 1..b : j \in S) => i \in S

LEMMA Descending ==
    ASSUME NEW a \in Nat, NEW b \in Nat, NEW S, Inherited(a, b, S)
    PROVE  \A i \in a..b : i \in S
<1> SUFFICES ASSUME NEW k \in a..b, k \notin S
             PROVE  FALSE
  OBVIOUS
<1> DEFINE T == {b - i : i \in {j \in a..b : j \notin S}}
<1>1. T \subseteq Nat /\ T # {}
  OBVIOUS
<1>2. PICK t \in T : \A y \in T : t <= y
  <2> HIDE DEF T
  <2> QED
    BY <1>1, LeastNatural
<1>3. PICK i \in a..b : i \notin S /\ t = b - i
  OBVIOUS
<1>4. \A j \in a..b : j \notin S => b - i <= b - j
  BY <1>2, <1>3
<1>5. \A j \in i + 1..b : j \in a..b /\ j > i
  OBVIOUS
<1>6. \A j \in i + 1..b : j \in S
  BY <1>4, <1>5
<1> QED
  BY <1>3, <1>6 DEF Inherited

-----------------------------------------------------------------------------
(* A function that is defined from its later values exists                  *)

Downward(a, b, stop, value, step, next, V) ==
    \A i \in a..b : IF i \in stop THEN value[i] \in V
                     ELSE next[i] \in i + 1..b /\ \A v \in V : step[i][v] \in V

LEMMA Recursion ==
    ASSUME NEW a \in Nat, NEW b \in Nat, NEW stop, NEW value, NEW step, NEW next,
           NEW V, Downward(a, b, stop, value, step, next, V)
    PROVE  \E g : /\ g = [i \in a..b |-> IF i \in stop THEN value[i] ELSE step[i][g[next[i]]]]
                  /\ \A i \in a..b : g[i] \in V
<1> USE DEF Downward
<1> DEFINE rule(g, i) == IF i \in stop THEN value[i] ELSE step[i][g[next[i]]]
           From(g, k) == g = [i \in k..b |-> rule(g, i)] /\ \A i \in k..b : g[i] \in V
           S == {k \in Nat : k >= a /\ k <= b + 1 /\ \E g : From(g, k)}
<1>1. CASE a > b
  <2> DEFINE e == [i \in a..b |-> 0]
  <2>1. \A i : i \notin a..b
    BY <1>1
  <2>2. e = [i \in a..b |-> rule(e, i)] /\ \A i \in a..b : e[i] \in V
    BY <2>1
  <2> QED
    BY <2>2
<1>2. CASE a <= b
  <2>1. b + 1 \in S
    <3> DEFINE e == [i \in b + 1..b |-> 0]
    <3>1. \A i : i \notin b + 1..b
      OBVIOUS
    <3>2. From(e, b + 1)
      BY <3>1
    <3> HIDE DEF From
    <3> QED
      BY <1>2, <3>2
  <2>2. PICK k \in S : \A m \in S : k <= m
    <3>1. S \subseteq Nat /\ S # {}
      BY <2>1
    <3> HIDE DEF S
    <3> QED
      BY <3>1, LeastNatural
  <2>3. PICK g : From(g, k)
    OBVIOUS
  <2>4. k \in Nat /\ k >= a /\ k <= b + 1
    OBVIOUS
  <2> HIDE DEF S
  <2>5. CASE k # a
    <3> DEFINE n == k - 1
               h == [i \in n..b |-> IF i = n THEN rule(g, n) ELSE g[i]]
    <3> HIDE DEF rule, h
    <3>1. n \in Nat /\ n >= a /\ n <= b + 1 /\ n \in a..b /\ n \in n..b /\ n < k
      BY <1>2, <2>4, <2>5
    <3>2. \A i \in k..b : i \in n..b /\ i # n /\ i \in a..b
      BY <2>4
    <3>3. \A i \in n..b : i = n \/ i \in k..b
      BY <2>4
    <3>4. \A i \in k..b : h[i] = g[i] /\ g[i] = rule(g, i)
      BY <2>3, <3>2 DEF h
    <3>5. h[n] = rule(g, n)
      BY <3>1 DEF h
    <3>6. \A i \in n..b : i \notin stop => next[i] \in k..b
      <4>1. \A i \in n..b : i \in a..b /\ i + 1 >= k
        BY <2>4, <2>5
      <4>2. \A i \in n..b : i \notin stop => next[i] \in i + 1..b
        BY <4>1
      <4> QED
        BY <2>4, <4>1, <4>2
    <3>7. \A i \in n..b : rule(h, i) = rule(g, i)
      BY <3>4, <3>6 DEF rule
    <3>8. \A i \in n..b : h[i] = rule(h, i)
      <4> HIDE DEF n
      <4> QED
        BY <3>3, <3>4, <3>5, <3>7
    <3>11. \A i \in n..b : h[i] \in V
      <4>1. rule(g, n) \in V
        <5>1. n \notin stop => next[n] \in k..b
          BY <3>1, <3>6
        <5>2. n \notin stop => g[next[n]] \in V
          BY <2>3, <5>1
        <5> QED
          BY <3>1, <5>2 DEF rule
      <4> HIDE DEF n
      <4> QED
        BY <2>3, <3>3, <3>4, <3>5, <4>1
    <3>9. From(h, n)
      <4>1. h = [i \in n..b |-> h[i]]
        BY DEF h
      <4> QED
        BY <3>8, <3>11, <4>1
    <3>10. n \in S
      <4> HIDE DEF From, n
      <4> QED
        BY <3>1, <3>9 DEF S
    <3> QED
      BY <2>2, <2>4, <3>1, <3>10
  <2>6. CASE k = a
    BY <2>3, <2>6
  <2> QED
    BY <2>5, <2>6
<1> QED
  BY <1>1, <1>2

Jumping(a, b, stop, value, next) ==
    \A i \in a..b : IF i \in stop THEN value[i] \in Int ELSE next[i] \in i + 1..b

LEMMA Jumps ==
    ASSUME NEW a \in Nat, NEW b \in Nat, NEW stop, NEW value, NEW next,
           Jumping(a, b, stop, value, next)
    PROVE  \E g : g = [i \in a..b |-> IF i \in stop THEN value[i] ELSE g[next[i]]]
<1> DEFINE same == [v \in Int |-> v]
           step == [i \in a..b |-> same]
<1>1. \A i \in a..b : \A v \in Int : step[i][v] = v
  OBVIOUS
<1> HIDE DEF step
<1>2. PICK g : /\ g = [i \in a..b |-> IF i \in stop THEN value[i] ELSE step[i][g[next[i]]]]
               /\ \A i \in a..b : g[i] \in Int
  <2>1. Downward(a, b, stop, value, step, next, Int)
    BY <1>1 DEF Jumping, Downward
  <2> QED
    BY <2>1, Recursion
<1>3. \A i \in a..b : i \notin stop => next[i] \in a..b
  BY DEF Jumping
<1>4. \A i \in a..b : i \notin stop => step[i][g[next[i]]] = g[next[i]]
  BY <1>1, <1>2, <1>3
<1>5. g = [i \in a..b |-> IF i \in stop THEN value[i] ELSE g[next[i]]]
  BY <1>2, <1>4
<1> QED
  BY <1>5

-----------------------------------------------------------------------------
(* The scans as functions                                                  *)

StartRule(f, from, last) ==
    [i \in from..last + 1 |->
       IF i >= last THEN last + 1
       ELSE IF source[i] # Open THEN f[i + 1]
       ELSE IF source[i + 1] \notin {"%", Open} THEN f[i + 2]
       ELSE i]

PercentsRule(f, from, last) ==
    [i \in from..last |-> IF source[i] = "%" /\ i < last THEN f[i + 1] ELSE i]

TagRule(f, from, last) ==
    [i \in from..last + 1 |->
       IF i >= last THEN 0
       ELSE IF source[i] # "%" THEN f[i + 1]
       ELSE LET j == SkipPercents(i + 1, last)
            IN IF source[j] = Close THEN j ELSE f[j + 1]]

VariableRule(f, from, last) ==
    [i \in from..last + 1 |->
       IF i >= last THEN 0
       ELSE IF source[i] # Close THEN f[i + 1] ELSE i]

LEMMA StartIs ==
    ASSUME NEW from \in Nat, NEW last \in Nat
    PROVE  \E f : f = StartRule(f, from, last) /\ ScanStart(from, last) = f[from]
<1> DEFINE start(i) == source[i] = Open /\ source[i + 1] \in {"%", Open}
           stop == {i \in from..last + 1 : i >= last \/ start(i)}
           value == [i \in from..last + 1 |-> IF i >= last THEN last + 1 ELSE i]
           next == [i \in from..last + 1 |-> IF source[i] # Open THEN i + 1 ELSE i + 2]
<1>1. \E f : f = StartRule(f, from, last)
  <2>1. Jumping(from, last + 1, stop, value, next)
    <3>1. \A i \in from..last + 1 :
            i >= last \/ (i + 1 \in i + 1..last + 1 /\ i + 2 \in i + 1..last + 1)
      OBVIOUS
    <3>2. \A i \in from..last + 1 : value[i] \in Int
      OBVIOUS
    <3>3. \A i \in from..last + 1 : i \in stop \/ next[i] \in i + 1..last + 1
      BY <3>1
    <3> HIDE DEF stop, value, next
    <3> QED
      BY <3>2, <3>3 DEF Jumping
  <2>2. PICK f : f = [i \in from..last + 1 |-> IF i \in stop THEN value[i] ELSE f[next[i]]]
    <3> HIDE DEF stop, value, next
    <3> QED
      BY <2>1, Jumps
  <2>3. f = StartRule(f, from, last)
    BY <2>2 DEF StartRule
  <2> QED
    BY <2>3
<1>2. ASSUME NEW f, f = StartRule(f, from, last)
      PROVE  LET g == CHOOSE g : g = StartRule(g, from, last)
             IN g = StartRule(g, from, last) /\ ScanStart(from, last) = g[from]
  BY <1>2 DEF ScanStart, StartRule
<1> QED
  BY <1>1, <1>2

LEMMA PercentsIs ==
    ASSUME NEW from \in Nat, NEW last \in Nat
    PROVE  \E f : f = PercentsRule(f, from, last) /\ SkipPercents(from, last) = f[from]
<1> DEFINE stop == {i \in from..last : source[i] # "%" \/ i >= last}
           value == [i \in from..last |-> i]
           next == [i \in from..last |-> i + 1]
<1>1. \E f : f = PercentsRule(f, from, last)
  <2>1. Jumping(from, last, stop, value, next)
    <3>1. \A i \in from..last : i >= last \/ i + 1 \in i + 1..last
      OBVIOUS
    <3>2. \A i \in from..last : value[i] \in Int
      OBVIOUS
    <3>3. \A i \in from..last : i \in stop \/ next[i] \in i + 1..last
      BY <3>1
    <3> HIDE DEF stop, value, next
    <3> QED
      BY <3>2, <3>3 DEF Jumping
  <2>2. PICK f : f = [i \in from..last |-> IF i \in stop THEN value[i] ELSE f[next[i]]]
    <3> HIDE DEF stop, value, next
    <3> QED
      BY <2>1, Jumps
  <2>3. f = PercentsRule(f, from, last)
    BY <2>2 DEF PercentsRule
  <2> QED
    BY <2>3
<1>2. ASSUME NEW f, f = PercentsRule(f, from, last)
      PROVE  LET g == CHOOSE g : g = PercentsRule(g, from, last)
             IN g = PercentsRule(g, from, last) /\ SkipPercents(from, last) = g[from]
  BY <1>2 DEF SkipPercents, PercentsRule
<1> QED
  BY <1>1, <1>2

(* The scan over percents stops after them, at the last character at most    *)
LEMMA PercentsFacts ==
    ASSUME NEW last \in Nat, NEW from \in Nat, from <= last
    PROVE  LET j == SkipPercents(from, last)
           IN /\ j \in from..last
              /\ \A k \in from..j - 1 : source[k] = "%"
              /\ j < last => source[j] # "%"
<1>1. PICK f : f = PercentsRule(f, from, last) /\ SkipPercents(from, last) = f[from]
  BY PercentsIs
<1> DEFINE good(i) == /\ f[i] \in i..last
                      /\ \A k \in i..f[i] - 1 : source[k] = "%"
                      /\ f[i] < last => source[f[i]] # "%"
           S == {i \in from..last : good(i)}
<1>2. ASSUME NEW i \in from..last, \A j \in i + 1..last : j \in S
      PROVE  i \in S
  <2>1. CASE source[i] = "%" /\ i < last
    <3>3. i + 1 \in i + 1..last
      BY <2>1
    <3>1. f[i] = f[i + 1] /\ good(i + 1)
      <4>1. f[i] = f[i + 1]
        BY <1>1, <2>1 DEF PercentsRule
      <4> QED
        BY <1>2, <3>3, <4>1
    <3>2. \A k \in i..f[i + 1] - 1 : k = i \/ k \in i + 1..f[i + 1] - 1
      BY <3>1
    <3> QED
      BY <2>1, <3>1, <3>2
  <2>2. CASE ~(source[i] = "%" /\ i < last)
    <3>1. f[i] = i
      BY <1>1, <2>2 DEF PercentsRule
    <3> QED
      BY <2>2, <3>1
  <2> QED
    BY <2>1, <2>2
<1>3. \A i \in from..last : i \in S
  <2> HIDE DEF S
  <2>1. Inherited(from, last, S)
    BY <1>2 DEF Inherited
  <2> QED
    BY <2>1, Descending
<1> QED
  BY <1>1, <1>3

LEMMA TagIs ==
    ASSUME NEW from \in Nat, NEW last \in Nat
    PROVE  \E f : f = TagRule(f, from, last) /\ ScanTag(from, last) = f[from]
<1> DEFINE j(i) == SkipPercents(i + 1, last)
           stop == {i \in from..last + 1 : i >= last \/ (source[i] = "%" /\ source[j(i)] = Close)}
           value == [i \in from..last + 1 |-> IF i >= last THEN 0 ELSE j(i)]
           next == [i \in from..last + 1 |-> IF source[i] # "%" THEN i + 1 ELSE j(i) + 1]
<1>0. \A i \in from..last + 1 : i >= last \/ j(i) \in i + 1..last
  BY PercentsFacts
<1> HIDE DEF j
<1>1. \E f : f = TagRule(f, from, last)
  <2>1. Jumping(from, last + 1, stop, value, next)
    <3>1. \A i \in from..last + 1 :
            i >= last \/ (i + 1 \in i + 1..last + 1 /\ j(i) + 1 \in i + 1..last + 1)
      BY <1>0
    <3>2. \A i \in from..last + 1 : value[i] \in Int
      BY <1>0
    <3>3. \A i \in from..last + 1 : i \in stop \/ next[i] \in i + 1..last + 1
      BY <3>1
    <3> HIDE DEF stop, value, next
    <3> QED
      BY <3>2, <3>3 DEF Jumping
  <2>2. PICK f : f = [i \in from..last + 1 |-> IF i \in stop THEN value[i] ELSE f[next[i]]]
    <3> HIDE DEF stop, value, next
    <3> QED
      BY <2>1, Jumps
  <2>3. f = TagRule(f, from, last)
    BY <2>2 DEF TagRule, j
  <2> QED
    BY <2>3
<1>2. ASSUME NEW f, f = TagRule(f, from, last)
      PROVE  LET g == CHOOSE g : g = TagRule(g, from, last)
             IN g = TagRule(g, from, last) /\ ScanTag(from, last) = g[from]
  BY <1>2 DEF ScanTag, TagRule
<1> QED
  BY <1>1, <1>2

LEMMA VariableIs ==
    ASSUME NEW from \in Nat, NEW last \in Nat
    PROVE  \E f : f = VariableRule(f, from, last) /\ ScanVariable(from, last) = f[from]
<1> DEFINE stop == {i \in from..last + 1 : i >= last \/ source[i] = Close}
           value == [i \in from..last + 1 |-> IF i >= last THEN 0 ELSE i]
           next == [i \in from..last + 1 |-> i + 1]
<1>1. \E f : f = VariableRule(f, from, last)
  <2>1. Jumping(from, last + 1, stop, value, next)
    <3>1. \A i \in from..last + 1 : i >= last \/ i + 1 \in i + 1..last + 1
      OBVIOUS
    <3>2. \A i \in from..last + 1 : value[i] \in Int
      OBVIOUS
    <3>3. \A i \in from..last + 1 : i \in stop \/ next[i] \in i + 1..last + 1
      BY <3>1
    <3> HIDE DEF stop, value, next
    <3> QED
      BY <3>2, <3>3 DEF Jumping
  <2>2. PICK f : f = [i \in from..last + 1 |-> IF i \in stop THEN value[i] ELSE f[next[i]]]
    <3> HIDE DEF stop, value, next
    <3> QED
      BY <2>1, Jumps
  <2>3. f = VariableRule(f, from, last)
    BY <2>2 DEF VariableRule
  <2> QED
    BY <2>3
<1>2. ASSUME NEW f, f = VariableRule(f, from, last)
      PROVE  LET g == CHOOSE g : g = VariableRule(g, from, last)
             IN g = VariableRule(g, from, last) /\ ScanVariable(from, last) = g[from]
  BY <1>2 DEF ScanVariable, VariableRule
<1> QED
  BY <1>1, <1>2

-----------------------------------------------------------------------------
(* What the scans find                                                     *)

LEMMA Letters ==
    /\ "%" # Close /\ "%" # Open /\ Open # Close
    /\ Open \notin Word /\ "%" \notin Word /\ "-" \notin Word
    /\ Open \notin Blank /\ "%" \notin Blank /\ "-" \notin Blank
    /\ Word \cap Blank = {}
<1>1. "%" # Close /\ "%" # Open /\ Open # Close
  BY Zenon DEF Open, Close
<1>2. Open \notin Word /\ "%" \notin Word /\ "-" \notin Word
  BY Zenon DEF Open, Word
<1>3. Open \notin Blank /\ "%" \notin Blank /\ "-" \notin Blank
  BY Zenon DEF Open, Blank, Space, Newline
<1>4. \A c \in Word : c \notin Blank
  BY Zenon DEF Word, Blank, Space, Newline
<1> QED
  BY <1>1, <1>2, <1>3, <1>4

StartAt(i) == source[i] = Open /\ source[i + 1] \in {"%", Open}
EndAt(i) == source[i] = "%" /\ source[i + 1] = Close

(* The scan for a delimiter finds the first one                             *)
LEMMA StartFacts ==
    ASSUME NEW from \in Nat, NEW last \in Nat, from <= last + 1
    PROVE  LET at == ScanStart(from, last)
           IN /\ at \in from..last + 1
              /\ \A j \in from..at - 1 : j < last => ~StartAt(j)
              /\ at # last + 1 => at < last /\ StartAt(at)
<1>1. PICK f : f = StartRule(f, from, last) /\ ScanStart(from, last) = f[from]
  BY StartIs
<1>4. \A i \in from..last + 1 :
        f[i] = IF i >= last THEN last + 1
               ELSE IF source[i] # Open THEN f[i + 1]
               ELSE IF source[i + 1] \notin {"%", Open} THEN f[i + 2]
               ELSE i
  BY <1>1 DEF StartRule
<1> DEFINE good(i) == /\ f[i] \in i..last + 1
                      /\ \A j \in i..f[i] - 1 : j < last => ~StartAt(j)
                      /\ f[i] # last + 1 => f[i] < last /\ StartAt(f[i])
           S == {i \in from..last + 1 : good(i)}
<1>2. ASSUME NEW i \in from..last + 1, \A j \in i + 1..last + 1 : j \in S
      PROVE  i \in S
  <2> SUFFICES good(i)
    OBVIOUS
  <2>0. \A j \in i + 1..last + 1 : good(j)
    BY <1>2
  <2> HIDE DEF S
  <2>1. CASE i >= last
    <3>1. f[i] = last + 1
      BY <1>4, <2>1
    <3> QED
      BY <2>1, <3>1
  <2>2. CASE i < last /\ source[i] # Open
    <3>1. f[i] = f[i + 1]
      BY <1>4, <2>2
    <3>2. good(i + 1)
      <4>1. i + 1 \in i + 1..last + 1
        BY <2>2
      <4> QED
        BY <2>0, <4>1
    <3>3. \A j \in i..f[i] - 1 : j = i \/ j \in i + 1..f[i + 1] - 1
      BY <3>1, <3>2
    <3>4. ~StartAt(i)
      BY <2>2 DEF StartAt
    <3> QED
      BY <2>2, <3>1, <3>2, <3>3, <3>4
  <2>3. CASE i < last /\ source[i] = Open /\ source[i + 1] \notin {"%", Open}
    <3>1. f[i] = f[i + 2]
      BY <1>4, <2>3
    <3>2. good(i + 2)
      <4>1. i + 2 \in i + 1..last + 1
        BY <2>3
      <4> QED
        BY <2>0, <4>1
    <3>3. \A j \in i..f[i] - 1 : j = i \/ j = i + 1 \/ j \in i + 2..f[i + 2] - 1
      BY <3>1, <3>2
    <3>4. ~StartAt(i) /\ ~StartAt(i + 1)
      BY <2>3 DEF StartAt
    <3> QED
      BY <2>3, <3>1, <3>2, <3>3, <3>4
  <2>4. CASE i < last /\ StartAt(i)
    <3>1. f[i] = i
      BY <1>4, <2>4 DEF StartAt
    <3> QED
      BY <2>4, <3>1
  <2> QED
    BY <2>1, <2>2, <2>3, <2>4 DEF StartAt
<1>3. \A i \in from..last + 1 : i \in S
  <2> HIDE DEF S
  <2>1. Inherited(from, last + 1, S)
    BY <1>2 DEF Inherited
  <2> QED
    BY <2>1, Descending
<1> QED
  BY <1>1, <1>3

(* The scan for the end of a tag finds the first one, even when it is        *)
(* behind more percents (tokenizer.c:145-147)                              *)
LEMMA TagFacts ==
    ASSUME NEW from \in Nat, NEW last \in Nat, from <= last + 1
    PROVE  LET end == ScanTag(from, last)
           IN \/ end = 0 /\ \A j \in from..last - 1 : ~EndAt(j)
              \/ /\ end \in from + 1..last /\ EndAt(end - 1)
                 /\ \A j \in from..end - 2 : ~EndAt(j)
<1>1. PICK f : f = TagRule(f, from, last) /\ ScanTag(from, last) = f[from]
  BY TagIs
<1>4. \A i \in from..last + 1 :
        f[i] = IF i >= last THEN 0
               ELSE IF source[i] # "%" THEN f[i + 1]
               ELSE LET j == SkipPercents(i + 1, last)
                    IN IF source[j] = Close THEN j ELSE f[j + 1]
  BY <1>1 DEF TagRule
<1> DEFINE good(i) == \/ f[i] = 0 /\ \A j \in i..last - 1 : ~EndAt(j)
                      \/ /\ f[i] \in i + 1..last /\ EndAt(f[i] - 1)
                         /\ \A j \in i..f[i] - 2 : ~EndAt(j)
           S == {i \in from..last + 1 : good(i)}
<1>2. ASSUME NEW i \in from..last + 1, \A j \in i + 1..last + 1 : j \in S
      PROVE  i \in S
  <2> SUFFICES good(i)
    OBVIOUS
  <2>0. \A j \in i + 1..last + 1 : good(j)
    BY <1>2
  <2> HIDE DEF S
  <2>1. CASE i >= last
    <3>1. f[i] = 0
      BY <1>4, <2>1
    <3> QED
      BY <2>1, <3>1
  <2>2. CASE i < last /\ source[i] # "%"
    <3>1. f[i] = f[i + 1]
      BY <1>4, <2>2
    <3>2. good(i + 1)
      <4>1. i + 1 \in i + 1..last + 1
        BY <2>2
      <4> QED
        BY <2>0, <4>1
    <3>3. \A j \in Int : j >= i => j = i \/ j >= i + 1
      OBVIOUS
    <3>4. ~EndAt(i)
      BY <2>2 DEF EndAt
    <3> QED
      BY <2>2, <3>1, <3>2, <3>3, <3>4
  <2>3. CASE i < last /\ source[i] = "%"
    <3> DEFINE s == SkipPercents(i + 1, last)
    <3>1. /\ s \in i + 1..last
          /\ \A k \in i..s - 1 : source[k] = "%"
          /\ s < last => source[s] # "%"
      <4>1. /\ s \in i + 1..last
            /\ \A k \in i + 1..s - 1 : source[k] = "%"
            /\ s < last => source[s] # "%"
        BY <2>3, PercentsFacts
      <4>2. \A k \in i..s - 1 : k = i \/ k \in i + 1..s - 1
        BY <4>1
      <4> QED
        BY <2>3, <4>1, <4>2
    <3>2. f[i] = IF source[s] = Close THEN s ELSE f[s + 1]
      BY <1>4, <2>3
    <3> HIDE DEF s
    <3>3. \A j \in i..s - 2 : ~EndAt(j)
      <4>1. \A j \in i..s - 2 : j + 1 \in i..s - 1
        BY <3>1
      <4> QED
        BY <3>1, <4>1, Letters DEF EndAt
    <3>4. CASE source[s] = Close
      <4>1. s - 1 \in i..s - 1 /\ (s - 1) + 1 = s
        BY <3>1
      <4>2. EndAt(s - 1)
        BY <3>1, <3>4, <4>1 DEF EndAt
      <4> QED
        BY <3>1, <3>2, <3>3, <3>4, <4>2
    <3>5. CASE source[s] # Close
      <4>1. ~EndAt(s - 1)
        <5>1. (s - 1) + 1 = s
          BY <3>1
        <5> QED
          BY <3>5, <5>1 DEF EndAt
      <4>2. s < last => ~EndAt(s)
        BY <3>1 DEF EndAt
      <4>3. good(s + 1) /\ f[i] = f[s + 1]
        <5>1. s + 1 \in i + 1..last + 1
          BY <3>1
        <5> QED
          BY <2>0, <3>2, <3>5, <5>1
      <4>4. \A j \in Int : j >= i => j \in i..s - 2 \/ j = s - 1 \/ j = s \/ j >= s + 1
        BY <3>1
      <4> QED
        BY <2>3, <3>1, <3>3, <4>1, <4>2, <4>3, <4>4
    <3> QED
      BY <3>4, <3>5
  <2> QED
    BY <2>1, <2>2, <2>3
<1>3. \A i \in from..last + 1 : i \in S
  <2> HIDE DEF S
  <2>1. Inherited(from, last + 1, S)
    BY <1>2 DEF Inherited
  <2> QED
    BY <2>1, Descending
<1> QED
  BY <1>1, <1>3

(* The scan for the end of a variable finds the first brace                  *)
LEMMA VariableFacts ==
    ASSUME NEW from \in Nat, NEW last \in Nat, from <= last + 1
    PROVE  LET end == ScanVariable(from, last)
           IN \/ end = 0 /\ \A j \in from..last - 1 : source[j] # Close
              \/ /\ end \in from..last - 1 /\ source[end] = Close
                 /\ \A j \in from..end - 1 : source[j] # Close
<1>1. PICK f : f = VariableRule(f, from, last) /\ ScanVariable(from, last) = f[from]
  BY VariableIs
<1>4. \A i \in from..last + 1 :
        f[i] = IF i >= last THEN 0
               ELSE IF source[i] # Close THEN f[i + 1] ELSE i
  BY <1>1 DEF VariableRule
<1> DEFINE good(i) == \/ f[i] = 0 /\ \A j \in i..last - 1 : source[j] # Close
                      \/ /\ f[i] \in i..last - 1 /\ source[f[i]] = Close
                         /\ \A j \in i..f[i] - 1 : source[j] # Close
           S == {i \in from..last + 1 : good(i)}
<1>2. ASSUME NEW i \in from..last + 1, \A j \in i + 1..last + 1 : j \in S
      PROVE  i \in S
  <2> SUFFICES good(i)
    OBVIOUS
  <2>0. \A j \in i + 1..last + 1 : good(j)
    BY <1>2
  <2> HIDE DEF S
  <2>1. CASE i >= last
    <3>1. f[i] = 0
      BY <1>4, <2>1
    <3> QED
      BY <2>1, <3>1
  <2>2. CASE i < last /\ source[i] # Close
    <3>1. f[i] = f[i + 1]
      BY <1>4, <2>2
    <3>2. good(i + 1)
      <4>1. i + 1 \in i + 1..last + 1
        BY <2>2
      <4> QED
        BY <2>0, <4>1
    <3>3. \A j \in Int : j >= i => j = i \/ j >= i + 1
      OBVIOUS
    <3> QED
      BY <2>2, <3>1, <3>2, <3>3
  <2>3. CASE i < last /\ source[i] = Close
    <3>1. f[i] = i
      BY <1>4, <2>3
    <3> QED
      BY <2>3, <3>1
  <2> QED
    BY <2>1, <2>2, <2>3
<1>3. \A i \in from..last + 1 : i \in S
  <2> HIDE DEF S
  <2>1. Inherited(from, last + 1, S)
    BY <1>2 DEF Inherited
  <2> QED
    BY <2>1, Descending
<1> QED
  BY <1>1, <1>3

-----------------------------------------------------------------------------
(* Reading over characters, and counting them                              *)

LEMMA ReadWhileFacts ==
    ASSUME NEW a \in Nat, NEW b \in Int, a <= b + 1, NEW set
    PROVE  LET r == ReadWhile(a, b, set)
           IN /\ r \in a..b + 1
              /\ \A k \in a..r - 1 : source[k] \in set
              /\ r <= b => source[r] \notin set
<1> DEFINE S == {i \in a..b : source[i] \notin set} \cup {b + 1}
<1>1. S \subseteq Nat /\ S # {} /\ \A i \in S : i \in a..b + 1
  OBVIOUS
<1>2. Min(S) \in S /\ \A i \in S : Min(S) <= i
  <2> HIDE DEF S
  <2> QED
    BY <1>1, MinFacts
<1> DEFINE r == Min(S)
<1> HIDE DEF r
<1>3. r \in a..b + 1
  BY <1>1, <1>2 DEF r
<1>4. r <= b => source[r] \notin set
  BY <1>2, <1>3 DEF r
<1>5. ASSUME NEW k \in a..r - 1
      PROVE  source[k] \in set
  <2>1. k \in a..b /\ ~(r <= k)
    BY <1>3
  <2> QED
    BY <1>2, <2>1 DEF r
<1>6. ReadWhile(a, b, set) = r
  BY DEF ReadWhile, r
<1> QED
  BY <1>3, <1>4, <1>5, <1>6

LEMMA ReadWhileIs ==
    ASSUME NEW a \in Nat, NEW b \in Int, a <= b + 1, NEW set, NEW r \in a..b + 1,
           \A k \in a..r - 1 : source[k] \in set, r <= b => source[r] \notin set
    PROVE  ReadWhile(a, b, set) = r
<1> DEFINE s == ReadWhile(a, b, set)
<1>1. /\ s \in a..b + 1
      /\ \A k \in a..s - 1 : source[k] \in set
      /\ s <= b => source[s] \notin set
  BY ReadWhileFacts
<1> HIDE DEF s
<1>2. ~(r < s)
  <2>1. r < s => r \in a..s - 1 /\ r <= b
    BY <1>1
  <2> QED
    BY <1>1, <2>1
<1>3. ~(s < r)
  <2>1. s < r => s \in a..r - 1 /\ s <= b
    BY <1>1
  <2> QED
    BY <1>1, <2>1
<1>4. s = r
  BY <1>1, <1>2, <1>3
<1> QED
  BY <1>4 DEF s

LEMMA ReadWhileReverseFacts ==
    ASSUME NEW a \in Int, NEW b \in Int, a <= b + 1, NEW set
    PROVE  LET r == ReadWhileReverse(a, b, set)
           IN /\ r \in a - 1..b
              /\ \A k \in r + 1..b : source[k] \in set
              /\ r >= a => source[r] \notin set
<1> DEFINE S == {i \in a..b : source[i] \notin set} \cup {a - 1}
<1>1. S \subseteq Int /\ S # {} /\ (\A i \in S : i \in a - 1..b) /\ \A i \in S : i <= b
  OBVIOUS
<1>2. Max(S) \in S /\ \A i \in S : Max(S) >= i
  <2> HIDE DEF S
  <2> QED
    BY <1>1, MaxFacts
<1> DEFINE r == Max(S)
<1> HIDE DEF r
<1>3. r \in a - 1..b
  BY <1>1, <1>2 DEF r
<1>4. r >= a => source[r] \notin set
  BY <1>2, <1>3 DEF r
<1>5. ASSUME NEW k \in r + 1..b
      PROVE  source[k] \in set
  <2>1. k \in a..b /\ ~(r >= k)
    BY <1>3
  <2> QED
    BY <1>2, <2>1 DEF r
<1>6. ReadWhileReverse(a, b, set) = r
  BY DEF ReadWhileReverse, r
<1> QED
  BY <1>3, <1>4, <1>5, <1>6

Newlines(a, b) == {i \in a..b : source[i] = Newline}

LEMMA NewlinesFinite ==
    ASSUME NEW a \in Int, NEW b \in Int
    PROVE  IsFiniteSet(Newlines(a, b)) /\ CountNewlines(a, b) = Cardinality(Newlines(a, b))
           /\ CountNewlines(a, b) \in Nat
<1>1. IsFiniteSet(a..b)
  BY FS_Interval
<1>2. Newlines(a, b) \subseteq a..b
  BY DEF Newlines
<1>3. IsFiniteSet(Newlines(a, b))
  BY <1>1, <1>2, FS_Subset
<1>4. CountNewlines(a, b) = Cardinality(Newlines(a, b))
  BY DEF CountNewlines, Newlines
<1> QED
  BY <1>3, <1>4, FS_CardinalityType

LEMMA CountType ==
    \A a, b \in Int : CountNewlines(a, b) \in Nat
BY NewlinesFinite

LEMMA CountFromFirst ==
    \A b \in Int : CountNewlines(1, b) \in Nat
BY NewlinesFinite

LEMMA CountJoined ==
    ASSUME NEW a \in Int, NEW b \in Int, NEW m \in Int, a <= m + 1, m <= b
    PROVE  CountNewlines(a, b) = CountNewlines(a, m) + CountNewlines(m + 1, b)
<1> DEFINE S == Newlines(a, m)
           T == Newlines(m + 1, b)
<1>1. IsFiniteSet(S) /\ IsFiniteSet(T)
  BY NewlinesFinite
<1>2. Newlines(a, b) = S \cup T
  BY DEF Newlines
<1>3. S \cap T = {}
  BY DEF Newlines
<1>4. Cardinality(S \cup T) = Cardinality(S) + Cardinality(T)
  <2> HIDE DEF S, T
  <2>1. Cardinality(S \cup T) = Cardinality(S) + Cardinality(T) - Cardinality(S \cap T)
    BY <1>1, FS_Union
  <2>2. Cardinality(S \cap T) = 0
    BY <1>3, FS_EmptySet
  <2>3. Cardinality(S) \in Nat /\ Cardinality(T) \in Nat
    BY <1>1, FS_CardinalityType
  <2> QED
    BY <2>1, <2>2, <2>3
<1>5. CountNewlines(a, b) = Cardinality(S \cup T)
  BY <1>2, NewlinesFinite
<1>6. CountNewlines(a, m) = Cardinality(S) /\ CountNewlines(m + 1, b) = Cardinality(T)
  BY NewlinesFinite
<1> HIDE DEF S, T
<1> QED
  BY <1>4, <1>5, <1>6

LEMMA CountNone ==
    ASSUME NEW a \in Int, NEW b \in Int, \A i \in a..b : source[i] # Newline
    PROVE  CountNewlines(a, b) = 0
<1>1. Newlines(a, b) = {}
  BY DEF Newlines
<1> QED
  BY <1>1, NewlinesFinite, FS_EmptySet

LEMMA CountOne ==
    ASSUME NEW a \in Int, source[a] = Newline
    PROVE  CountNewlines(a, a) = 1
<1>1. Newlines(a, a) = {a}
  BY DEF Newlines
<1>2. Cardinality({a}) = 1
  BY FS_Singleton
<1> QED
  BY <1>1, <1>2, NewlinesFinite

(* Two characters that stand in the source                                 *)
LEMMA TextOfTwo ==
    ASSUME source \in Seq(Chars), NEW i \in 1..Length - 1, NEW x, NEW y
    PROVE  Text(i, i + 1) = <<x, y>> <=> source[i] = x /\ source[i + 1] = y
<1> DEFINE s == Text(i, i + 1)
<1>1. s \in Seq(Chars) /\ Len(s) = 2 /\ s[1] = source[i] /\ s[2] = source[i + 1]
  BY DEF Text, Length
<1> HIDE DEF s
<1>2. s = <<s[1], s[2]>>
  BY <1>1
<1>3. s = <<x, y>> <=> s[1] = x /\ s[2] = y
  BY <1>2
<1> QED
  BY <1>1, <1>3 DEF s

-----------------------------------------------------------------------------
(* The inductive invariant                                                 *)

Characters == source \in Seq(Chars)

Tokenizers == [cursor : Nat, last : Nat, line : Nat, lstrip : BOOLEAN, liquid : BOOLEAN,
               bug : BOOLEAN, raw : {<< >>} \cup Seq(0..Length)]

(* What is true of the tokenizer and of those that liquid tags have saved,   *)
(* when the template has been tokenized up to p                             *)
Sane(k, p) ==
    /\ k \in Tokenizers /\ k.last <= Length /\ k.cursor \in 1..k.last + 1
    /\ k.line = 1 + CountNewlines(1, k.cursor - 1)
    /\ k.liquid => \A i \in k.cursor..k.last - 1 : ~EndAt(i)
    /\ ~k.liquid => /\ k.last = Length /\ k.cursor = p.upto + 1
                    /\ k.lstrip <=> p.type \in {"tag", "variable"} /\ source[p.upto - 2] = "-"

(* A token that tokenizer_next returns for a template                       *)
Delimited(t) == t.type \in {"tag", "variable"}
TemplateTokenOK(t) ==
    /\ t.from = tk.cursor /\ t.to \in t.from..tk.last
    /\ t.type \in {"text", "tag", "variable", "invalid"}
    /\ t.lstrip \in BOOLEAN /\ t.rstrip \in BOOLEAN
    /\ Delimited(t) => /\ t.to >= t.from + IF t.lstrip THEN 4 ELSE 3
                       /\ t.rstrip <=> source[t.to - 2] = "-"
    /\ t.type = "tag" =>
         \A i \in (t.from + IF t.lstrip THEN 3 ELSE 2)..t.to - 2 : ~EndAt(i)
    /\ t.type = "text" => /\ t.lstrip = tk.lstrip
                          /\ t.rstrip <=> Holds(t.to + 3, tk.last, "-")

LEMMA TemplateFacts ==
    ASSUME Characters, Sane(tk, template), ~tk.liquid, tk.cursor <= tk.last
    PROVE  TemplateTokenOK(TemplateToken)
<1> DEFINE from == tk.cursor
           last == tk.last
           at == ScanStart(from, last)
           dash == Holds(at + 2, last, "-")
           inner == at + IF dash THEN 3 ELSE 2
           tag == source[at + 1] = "%"
           end == IF tag THEN ScanTag(inner, last) ELSE ScanVariable(inner, last)
           done(type, to) == Tok(type, from, to, dash, source[to - 2] = "-")
           t == IF at > last THEN Tok("text", from, last, tk.lstrip, FALSE)
                ELSE IF at > from THEN Tok("text", from, at - 1, tk.lstrip, dash)
                ELSE IF end = 0 THEN Tok("invalid", from, from + 1, dash, FALSE)
                ELSE IF tag THEN done("tag", end)
                ELSE IF source[end + 1] = Close THEN done("variable", end + 1)
                ELSE Tok("invalid", from, end, dash, FALSE)
<1>1. TemplateToken = t
  BY DEF TemplateToken
<1>2. from \in Nat /\ last \in Nat /\ from >= 1 /\ from <= last /\ tk.lstrip \in BOOLEAN
  BY DEF Sane, Tokenizers
<1>3. at \in from..last + 1 /\ (at # last + 1 => at < last)
  <2> HIDE DEF from, last
  <2> QED
    BY <1>2, StartFacts
<1>4. dash \in BOOLEAN /\ (dash => at + 2 <= last)
  BY DEF Holds
<1> HIDE DEF at, dash
<1>5. ASSUME at < last
      PROVE  /\ inner \in Nat /\ inner <= last + 1
             /\ tag => \/ end = 0
                       \/ end \in inner + 1..last /\ \A i \in inner..end - 2 : ~EndAt(i)
             /\ ~tag => end = 0 \/ end \in inner..last - 1
  <2>1. inner \in Nat /\ inner <= last + 1
    BY <1>2, <1>3, <1>4, <1>5
  <2> HIDE DEF inner, last
  <2>2. CASE tag
    BY <1>2, <2>1, <2>2, TagFacts
  <2>3. CASE ~tag
    BY <1>2, <2>1, <2>3, VariableFacts
  <2> QED
    BY <2>1, <2>2, <2>3
<1> HIDE DEF tag, end
<1>6. CASE at > last
  <2>1. t = Tok("text", from, last, tk.lstrip, FALSE)
    BY <1>6
  <2>2. ~Holds(last + 3, last, "-")
    BY <1>2 DEF Holds
  <2> HIDE DEF t
  <2> QED
    BY <1>1, <1>2, <2>1, <2>2 DEF Tok, TemplateTokenOK, Delimited
<1>7. CASE at <= last /\ at > from
  <2>4. ~(at > last)
    BY <1>2, <1>3, <1>7
  <2>1. t = Tok("text", from, at - 1, tk.lstrip, dash)
    BY <1>7, <2>4
  <2>2. dash <=> Holds((at - 1) + 3, last, "-")
    <3>1. (at - 1) + 3 = at + 2
      BY <1>3
    <3> QED
      BY <3>1 DEF dash
  <2>3. at - 1 \in from..last
    BY <1>2, <1>3, <1>7
  <2> HIDE DEF t, last
  <2> QED
    BY <1>1, <1>2, <1>4, <2>1, <2>2, <2>3 DEF Tok, TemplateTokenOK, Delimited, last
<1>8. CASE at = from
  <2>1. at < last /\ ~(at > last) /\ ~(at > from)
    BY <1>2, <1>3, <1>8
  <2>2. /\ inner \in Nat /\ inner <= last + 1 /\ inner = from + IF dash THEN 3 ELSE 2
        /\ tag => \/ end = 0
                  \/ end \in inner + 1..last /\ \A i \in inner..end - 2 : ~EndAt(i)
        /\ ~tag => end = 0 \/ end \in inner..last - 1
    BY <1>5, <1>8, <2>1
  <2> HIDE DEF inner
  <2>3. CASE end = 0
    <3>1. t = Tok("invalid", from, from + 1, dash, FALSE)
      BY <2>1, <2>3
    <3>2. from + 1 \in from..last
      BY <1>2, <1>8, <2>1
    <3> HIDE DEF t
    <3> QED
      BY <1>1, <1>4, <3>1, <3>2 DEF Tok, TemplateTokenOK, Delimited
  <2>4. CASE end # 0 /\ tag
    <3>1. t = done("tag", end)
      BY <2>1, <2>4
    <3>2. end \in from..last /\ end >= from + (IF dash THEN 4 ELSE 3)
          /\ \A i \in (from + IF dash THEN 3 ELSE 2)..end - 2 : ~EndAt(i)
      BY <1>2, <2>2, <2>4
    <3> HIDE DEF t
    <3> QED
      BY <1>1, <1>4, <3>1, <3>2 DEF Tok, TemplateTokenOK, Delimited
  <2>5. CASE end # 0 /\ ~tag /\ source[end + 1] = Close
    <3>1. t = done("variable", end + 1)
      BY <2>1, <2>5
    <3>2. end + 1 \in from..last /\ end + 1 >= from + (IF dash THEN 4 ELSE 3)
      BY <1>2, <2>2, <2>5
    <3> HIDE DEF t
    <3> QED
      BY <1>1, <1>4, <3>1, <3>2 DEF Tok, TemplateTokenOK, Delimited
  <2>6. CASE end # 0 /\ ~tag /\ source[end + 1] # Close
    <3>1. t = Tok("invalid", from, end, dash, FALSE)
      BY <2>1, <2>6
    <3>2. end \in from..last
      BY <1>2, <2>2, <2>6
    <3> HIDE DEF t
    <3> QED
      BY <1>1, <1>4, <3>1, <3>2 DEF Tok, TemplateTokenOK, Delimited
  <2> QED
    BY <2>3, <2>4, <2>5, <2>6
<1> QED
  BY <1>2, <1>3, <1>6, <1>7, <1>8

(* A token that tokenizer_next returns inside a liquid tag: a line           *)
LineTokenOK(t) ==
    /\ t.from = tk.cursor /\ t.to = LineEnd - 1 /\ t.type \in {"tag", "blank"}
    /\ LineEnd \in tk.cursor..tk.last + 1
    /\ t.type = "tag" => \E i \in t.from..t.to : source[i] \notin Blank

LEMMA LineFacts ==
    ASSUME Characters, Sane(tk, template), tk.cursor <= tk.last
    PROVE  /\ LineTokenOK(LiquidToken)
           /\ \A i \in tk.cursor..LineEnd - 1 : source[i] # Newline
           /\ LineEnd <= tk.last => source[LineEnd] = Newline
<1> DEFINE from == tk.cursor
           last == tk.last
           inline == Chars \ {Newline}
           end == ReadWhile(from, last, inline)
           word == ReadWhile(from, end - 1, Blank)
<1>1. from \in Nat /\ last \in Nat /\ from >= 1 /\ from <= last /\ last <= Length
  BY DEF Sane, Tokenizers
<1>2. LineEnd = end
  BY DEF LineEnd
<1> HIDE DEF from, last, inline
<1>3. /\ end \in from..last + 1 /\ (\A i \in from..end - 1 : source[i] \in inline)
      /\ end <= last => source[end] \notin inline
  BY <1>1, ReadWhileFacts
<1> HIDE DEF end
<1>4. /\ word \in from..(end - 1) + 1 /\ (\A i \in from..word - 1 : source[i] \in Blank)
      /\ word <= end - 1 => source[word] \notin Blank
  <2>1. end - 1 \in Int /\ from <= (end - 1) + 1
    BY <1>1, <1>3
  <2> QED
    BY <1>1, <2>1, ReadWhileFacts
<1>5. LiquidToken = Tok(IF word = end THEN "blank" ELSE "tag", from, end - 1, FALSE, FALSE)
  BY <1>2 DEF LiquidToken, from, last
<1> HIDE DEF word
<1>6. LineTokenOK(LiquidToken)
  <2>1. word # end => word \in from..end - 1 /\ source[word] \notin Blank
    BY <1>1, <1>3, <1>4
  <2>2. end \in from..last + 1
    BY <1>3
  <2> QED
    BY <1>2, <1>5, <2>1, <2>2 DEF LineTokenOK, Tok, from, last
<1>7. \A i \in from..end - 1 : source[i] # Newline
  BY <1>3 DEF inline
<1>8. end <= last => source[end] = Newline
  <2>1. end <= last => source[end] \in Chars
    BY <1>1, <1>3 DEF Characters, Length
  <2> QED
    BY <1>3, <2>1 DEF inline
<1> QED
  BY <1>2, <1>6, <1>7, <1>8 DEF from, last

(* The next token is a line or a token of the template, or there is none     *)
LEMMA TokenFacts ==
    ASSUME Characters, Sane(tk, template), Token.type # "none"
    PROVE  /\ tk.cursor <= tk.last
           /\ tk.liquid => Token = LiquidToken /\ LineTokenOK(Token)
           /\ ~tk.liquid => Token = TemplateToken /\ TemplateTokenOK(Token)
<1>1. tk.cursor <= tk.last
  <2>1. tk.cursor \in Nat /\ tk.last \in Nat
    BY DEF Sane, Tokenizers
  <2>2. ~(tk.cursor > tk.last)
    BY DEF Token, NoToken, Tok
  <2> QED
    BY <2>1, <2>2
<1>2. Token = IF tk.liquid THEN LiquidToken ELSE TemplateToken
  <2>1. ~(tk.cursor > tk.last)
    BY <1>1 DEF Sane, Tokenizers
  <2> QED
    BY <2>1 DEF Token
<1> QED
  BY <1>1, <1>2, LineFacts, TemplateFacts

LEMMA NoTokenFacts ==
    ASSUME Characters, Sane(tk, template), Token.type = "none"
    PROVE  tk.cursor = tk.last + 1
<1>1. tk.cursor \in 1..tk.last + 1 /\ tk.last \in Nat
  BY DEF Sane, Tokenizers
<1>2. CASE tk.cursor <= tk.last
  <2>1. Token = IF tk.liquid THEN LiquidToken ELSE TemplateToken
    <3>1. ~(tk.cursor > tk.last)
      BY <1>1, <1>2
    <3> QED
      BY <3>1 DEF Token
  <2>2. LiquidToken.type # "none"
    BY <1>2, LineFacts DEF LineTokenOK
  <2>3. ~tk.liquid => TemplateToken.type # "none"
    BY <1>2, TemplateFacts DEF TemplateTokenOK
  <2> QED
    BY <2>1, <2>2, <2>3
<1> QED
  BY <1>1, <1>2

(* What is trimmed off a token is in it                                    *)
LEMMA TrimmedFacts ==
    ASSUME Characters, Sane(tk, template), Token.type \in {"tag", "variable"}
    PROVE  LET t == Token
           IN /\ t.from = tk.cursor /\ t.to \in t.from..tk.last
              /\ Trimmed(t)[1] \in Nat /\ Trimmed(t)[2] \in Int
              /\ t.from <= Trimmed(t)[1] /\ Trimmed(t)[1] - 1 <= Trimmed(t)[2]
              /\ Trimmed(t)[2] <= t.to
              /\ ~tk.liquid => /\ Trimmed(t)[1] = t.from + IF t.lstrip THEN 3 ELSE 2
                               /\ Trimmed(t)[2] <= t.to - 2
<1> DEFINE t == Token
<1>1. tk.cursor \in Nat /\ tk.last \in Nat /\ tk.cursor >= 1
  BY DEF Sane, Tokenizers
<1>2. /\ tk.cursor <= tk.last
      /\ tk.liquid => LineTokenOK(t)
      /\ ~tk.liquid => TemplateTokenOK(t)
  BY TokenFacts
<1>3. t.type \in {"tag", "variable"}
  OBVIOUS
<1> HIDE DEF t
<1>4. CASE tk.liquid
  <2> DEFINE from == ReadWhile(t.from, t.to, Blank)
             to == ReadWhileReverse(from, t.to, Blank)
  <2>1. t.from = tk.cursor /\ t.to \in t.from..tk.last /\ t.from \in Nat /\ t.to \in Int
    <3>1. t.from = tk.cursor /\ t.to = LineEnd - 1 /\ LineEnd \in tk.cursor..tk.last + 1
          /\ \E i \in t.from..t.to : source[i] \notin Blank
      BY <1>2, <1>3, <1>4 DEF LineTokenOK
    <3> QED
      BY <1>1, <3>1
  <2>2. from \in t.from..t.to + 1
    <3>1. t.from <= t.to + 1
      BY <2>1
    <3> QED
      BY <2>1, <3>1, ReadWhileFacts
  <2> HIDE DEF from
  <2>3. to \in from - 1..t.to
    <3>1. from \in Int /\ from <= t.to + 1
      BY <2>1, <2>2
    <3> QED
      BY <2>1, <3>1, ReadWhileReverseFacts
  <2> HIDE DEF to
  <2>4. Trimmed(t) = <<from, to>>
    BY <1>4 DEF Trimmed, from, to
  <2> QED
    BY <1>4, <2>1, <2>2, <2>3, <2>4 DEF t
<1>5. CASE ~tk.liquid
  <2> DEFINE from == t.from + IF t.lstrip THEN 3 ELSE 2
             end == t.to - 2
             to == IF t.rstrip /\ end >= from THEN end - 1 ELSE end
  <2>1. t.from = tk.cursor /\ t.to \in t.from..tk.last /\ t.from \in Nat /\ t.to \in Int
        /\ end >= from - 1
    <3>1. t.from = tk.cursor /\ t.to \in t.from..tk.last
          /\ t.to >= t.from + IF t.lstrip THEN 4 ELSE 3
      BY <1>2, <1>3, <1>5 DEF TemplateTokenOK, Delimited
    <3> QED
      BY <1>1, <3>1
  <2>2. from \in Nat /\ end \in Int /\ from >= t.from
    BY <2>1
  <2>3. to \in Int /\ to >= from - 1 /\ to <= end
    <3> HIDE DEF from, end
    <3> QED
      BY <2>1, <2>2
  <2>4. Trimmed(t) = <<from, to>>
    BY <1>5 DEF Trimmed
  <2> HIDE DEF to
  <2> QED
    BY <1>5, <2>1, <2>2, <2>3, <2>4 DEF t
<1> QED
  BY <1>4, <1>5

-----------------------------------------------------------------------------
(* The tokenizer after a token, and inside a liquid tag                     *)

Reached == IF tk.liquid THEN template ELSE [upto |-> Token.to, type |-> Token.type]

LEMMA AfterFacts ==
    ASSUME Characters, Sane(tk, template), Token.type # "none"
    PROVE  LET x == After(Token)
           IN /\ Sane(x, Reached)
              /\ x.cursor > tk.cursor /\ x.cursor > Token.to
              /\ x.last = tk.last /\ x.liquid = tk.liquid /\ x.bug = tk.bug /\ x.raw = tk.raw
<1> DEFINE t == Token
           x == After(t)
           from == tk.cursor
           last == tk.last
<1>1. /\ from \in Nat /\ last \in Nat /\ from >= 1 /\ last <= Length
      /\ tk.line = 1 + CountNewlines(1, from - 1) /\ tk.line \in Nat
  BY DEF Sane, Tokenizers
<1>6. tk \in Tokenizers /\ tk.lstrip \in BOOLEAN
  BY DEF Sane, Tokenizers
<1>7. from - 1 \in Int /\ (from - 1) + 1 = from
  BY <1>1
<1>2. /\ from <= last
      /\ tk.liquid => LineTokenOK(t)
      /\ ~tk.liquid => TemplateTokenOK(t)
  BY TokenFacts
<1>3. t.type # "none"
  OBVIOUS
<1> HIDE DEF t
<1>4. CASE tk.liquid
  <2> DEFINE end == LineEnd
  <2>1. /\ t.from = from /\ t.to = end - 1 /\ end \in from..last + 1
        /\ \A i \in from..end - 1 : source[i] # Newline
        /\ end <= last => source[end] = Newline
    BY <1>2, <1>4, LineFacts DEF LineTokenOK
  <2>2. CountNewlines(1, end - 1) = CountNewlines(1, from - 1)
    <3>1. CountNewlines(from, end - 1) = 0
      BY <1>1, <2>1, CountNone
    <3>2. CountNewlines(1, end - 1) = CountNewlines(1, from - 1) + CountNewlines((from - 1) + 1, end - 1)
      <4>1. from - 1 \in Int /\ end - 1 \in Int /\ 1 <= (from - 1) + 1 /\ from - 1 <= end - 1
        BY <1>1, <2>1
      <4> QED
        BY <4>1, CountJoined
    <3>3. (from - 1) + 1 = from /\ CountNewlines(1, from - 1) \in Nat
      BY <1>7, CountFromFirst
    <3> QED
      BY <3>1, <3>2, <3>3
  <2>3. \A i \in from..last - 1 : ~EndAt(i)
    BY <1>4 DEF Sane
  <2>4. CASE end <= last
    <3>1. CountNewlines(1, end) = CountNewlines(1, end - 1) + 1
      <4>1. end - 1 \in Int /\ end \in Int /\ 1 <= (end - 1) + 1 /\ end - 1 <= end /\ (end - 1) + 1 = end
        BY <1>1, <2>1
      <4>2. CountNewlines(1, end) = CountNewlines(1, end - 1) + CountNewlines(end, end)
        BY <4>1, CountJoined
      <4>3. CountNewlines(end, end) = 1
        BY <2>1, <2>4, <4>1, CountOne
      <4> QED
        BY <4>2, <4>3
    <3>2. x = [tk EXCEPT !.cursor = end + 1, !.line = @ + 1]
      BY <1>4, <2>4 DEF After
    <3>3. end + 1 \in Nat /\ tk.line + 1 \in Nat /\ (end + 1) - 1 = end
      BY <1>1, <2>1
    <3> HIDE DEF end, x
    <3>4. /\ x \in Tokenizers /\ x.cursor = end + 1 /\ x.line = tk.line + 1
          /\ x.last = tk.last /\ x.liquid = tk.liquid /\ x.bug = tk.bug /\ x.raw = tk.raw
      BY <1>6, <3>2, <3>3 DEF Tokenizers
    <3>5. x.line = 1 + CountNewlines(1, x.cursor - 1)
      <4>1. CountNewlines(1, from - 1) \in Nat
        BY <1>7, CountFromFirst
      <4> QED
        BY <1>1, <2>2, <3>1, <3>3, <3>4, <4>1
    <3>6. x.cursor \in 1..x.last + 1 /\ x.cursor > from /\ x.cursor > t.to
      BY <1>1, <2>1, <2>4, <3>4
    <3>7. \A i \in x.cursor..x.last - 1 : ~EndAt(i)
      BY <1>1, <2>1, <2>3, <3>4
    <3>8. Sane(x, Reached)
      BY <1>1, <1>4, <3>4, <3>5, <3>6, <3>7 DEF Sane
    <3> QED
      BY <3>4, <3>6, <3>8 DEF t, x
  <2>5. CASE ~(end <= last)
    <3>1. end = last + 1
      BY <1>1, <2>1, <2>5
    <3>2. x = [tk EXCEPT !.cursor = end]
      BY <1>4, <2>5 DEF After
    <3>3. end \in Nat
      BY <1>1, <2>1
    <3> HIDE DEF end, x
    <3>4. /\ x \in Tokenizers /\ x.cursor = end /\ x.line = tk.line
          /\ x.last = tk.last /\ x.liquid = tk.liquid /\ x.bug = tk.bug /\ x.raw = tk.raw
      BY <1>6, <3>2, <3>3 DEF Tokenizers
    <3>5. x.line = 1 + CountNewlines(1, x.cursor - 1)
      BY <1>1, <2>2, <3>4
    <3>6. x.cursor \in 1..x.last + 1 /\ x.cursor > from /\ x.cursor > t.to
      BY <1>1, <1>2, <2>1, <3>1, <3>4
    <3>7. \A i \in x.cursor..x.last - 1 : ~EndAt(i)
      BY <1>1, <2>1, <2>3, <3>4
    <3>8. Sane(x, Reached)
      BY <1>1, <1>4, <3>4, <3>5, <3>6, <3>7 DEF Sane
    <3> QED
      BY <3>4, <3>6, <3>8 DEF t, x
  <2> QED
    BY <2>4, <2>5
<1>5. CASE ~tk.liquid
  <2> DEFINE l == tk.line + CountNewlines(t.from, t.to)
             s == Delimited(t) /\ t.rstrip
             c == t.to + 1
  <2>1. /\ t.from = from /\ t.to \in from..last /\ t.rstrip \in BOOLEAN
        /\ Delimited(t) => (t.rstrip <=> source[t.to - 2] = "-")
    BY <1>2, <1>5 DEF TemplateTokenOK
  <2>2. x = [tk EXCEPT !.cursor = c, !.line = l, !.lstrip = s]
    BY <1>5, <1>6 DEF After, Delimited, Tokenizers
  <2>3. c \in Nat /\ l \in Nat /\ s \in BOOLEAN /\ from - 1 \in Int /\ (from - 1) + 1 = from /\ c - 1 = t.to
        /\ t.to \in Int
    <3>1. CountNewlines(t.from, t.to) \in Nat
      <4>1. t.from \in Int /\ t.to \in Int
        BY <1>1, <2>1
      <4> QED
        BY <4>1, CountType
    <3> QED
      BY <1>1, <2>1, <3>1 DEF Delimited
  <2> HIDE DEF c, l, s, x
  <2>4. /\ x \in Tokenizers /\ x.cursor = c /\ x.line = l /\ x.lstrip = s
        /\ x.last = tk.last /\ x.liquid = tk.liquid /\ x.bug = tk.bug /\ x.raw = tk.raw
    BY <1>6, <2>2, <2>3 DEF Tokenizers
  <2>5. l = 1 + CountNewlines(1, c - 1)
    <3>1. CountNewlines(1, t.to) = CountNewlines(1, from - 1) + CountNewlines(from, t.to)
      <4>1. 1 <= (from - 1) + 1 /\ from - 1 <= t.to
        BY <1>1, <2>1
      <4> QED
        BY <2>3, <4>1, CountJoined
    <3>3. CountNewlines(1, from - 1) \in Nat
      BY <1>7, CountFromFirst
    <3>2. CountNewlines(from, t.to) \in Nat
      <4>1. from \in Int /\ t.to \in Int
        BY <1>1, <2>3
      <4> QED
        BY <4>1, CountType
    <3> QED
      BY <1>1, <2>1, <2>3, <3>1, <3>2, <3>3 DEF l
  <2>6. x.cursor \in 1..x.last + 1 /\ x.cursor > from /\ x.cursor > t.to
    BY <1>1, <2>1, <2>4 DEF c
  <2>7. last = Length
    BY <1>5 DEF Sane
  <2>8. s <=> t.type \in {"tag", "variable"} /\ source[t.to - 2] = "-"
    BY <2>1 DEF s, Delimited
  <2>9. Reached = [upto |-> t.to, type |-> t.type]
    BY <1>5 DEF Reached, t
  <2>10. Sane(x, Reached)
    BY <1>1, <1>5, <2>4, <2>5, <2>6, <2>7, <2>8, <2>9 DEF Sane, c
  <2> QED
    BY <2>4, <2>6, <2>10 DEF t, x
<1> QED
  BY <1>4, <1>5

(* The name of a tag and what is behind it                                  *)
LEMMA NameFacts ==
    ASSUME Characters, Sane(tk, template), Token.type = "tag"
    PROVE  LET t == Token
           IN /\ NameStart(t) \in Trimmed(t)[1]..Trimmed(t)[2] + 1
              /\ NameEnd(t) \in NameStart(t) - 1..Trimmed(t)[2]
<1> DEFINE t == Token
           a == Trimmed(t)[1]
           b == Trimmed(t)[2]
           at == NameStart(t)
           end == ReadWhile(at, b, Word)
<1>1. a \in Nat /\ b \in Int /\ a <= b + 1
  BY TrimmedFacts
<1> HIDE DEF a, b
<1>2. at \in a..b + 1
  BY <1>1, ReadWhileFacts DEF NameStart, a, b
<1> HIDE DEF at
<1>3. end \in at..b + 1
  <2>1. at \in Nat /\ at <= b + 1
    BY <1>1, <1>2
  <2> QED
    BY <1>1, <2>1, ReadWhileFacts
<1> HIDE DEF end
<1>4. NameEnd(t) = IF end - 1 < at /\ Holds(at, b, "#") THEN at ELSE end - 1
  BY DEF NameEnd, at, b, end
<1>5. Holds(at, b, "#") => at <= b
  BY DEF Holds
<1>6. NameEnd(t) \in at - 1..b
  BY <1>1, <1>2, <1>3, <1>4, <1>5
<1> QED
  BY <1>2, <1>6 DEF a, b, at

LEMMA NameOfOne ==
    ASSUME Characters, Sane(tk, template), Token.type = "tag", NEW c, Name(Token) = <<c>>
    PROVE  NameEnd(Token) = NameStart(Token)
<1> DEFINE t == Token
           a == NameStart(t)
           b == NameEnd(t)
<1>1. a \in Int /\ b \in Int
  <2>1. Trimmed(t)[1] \in Nat /\ Trimmed(t)[2] \in Int
    BY TrimmedFacts
  <2> QED
    BY <2>1, NameFacts
<1> HIDE DEF a, b
<1>2. Len(SubSeq(source, a, b)) = IF a <= b THEN b - a + 1 ELSE 0
  BY <1>1 DEF Characters
<1>3. SubSeq(source, a, b) = <<c>>
  BY DEF Name, Text, a, b
<1>4. b = a
  BY <1>1, <1>2, <1>3
<1> QED
  BY <1>4 DEF a, b

(* What is passed to the tokenizer for a liquid tag                         *)
Markup == ReadWhile(NameEnd(Token) + 1, Trimmed(Token)[2], Blank)
Inside == [tk EXCEPT !.cursor = Markup, !.last = Trimmed(Token)[2], !.lstrip = FALSE,
                     !.liquid = TRUE, !.line = @ + CountNewlines(Token.from, Markup - 1)]

LEMMA InsideFacts ==
    ASSUME Characters, Sane(tk, template), Token.type = "tag", Name(Token) = <<"l">>,
           NEW p
    PROVE  /\ Sane(Inside, p) /\ Inside.liquid /\ Inside.bug = tk.bug /\ Inside.raw = tk.raw
           /\ Inside.cursor > tk.cursor /\ Inside.last <= Token.to /\ Inside.last <= tk.last
<1> DEFINE t == Token
           from == tk.cursor
           a == Trimmed(t)[1]
           b == Trimmed(t)[2]
           m == Markup
           l == tk.line + CountNewlines(t.from, m - 1)
           x == Inside
<1>1. /\ from \in Nat /\ from >= 1 /\ tk.last \in Nat /\ tk.last <= Length
      /\ tk.line = 1 + CountNewlines(1, from - 1) /\ tk.line \in Nat
  BY DEF Sane, Tokenizers
<1>2. tk \in Tokenizers
  BY DEF Sane
<1>3. /\ t.from = from /\ t.to \in from..tk.last /\ a \in Nat /\ b \in Int
      /\ from <= a /\ a - 1 <= b /\ b <= t.to
      /\ ~tk.liquid => /\ a = from + IF t.lstrip THEN 3 ELSE 2
                       /\ b <= t.to - 2
  BY TrimmedFacts
<1>4. m \in a + 1..b + 1
  <2> DEFINE s == NameStart(t)
             e == NameEnd(t)
  <2>1. s \in a..b + 1 /\ e \in s - 1..b /\ e = s
    BY NameFacts, NameOfOne
  <2> HIDE DEF a, b, s, e
  <2>2. e + 1 \in Nat /\ e + 1 <= b + 1 /\ e + 1 >= a + 1
    BY <1>3, <2>1
  <2>3. m = ReadWhile(e + 1, b, Blank)
    BY DEF Markup, b, e
  <2> HIDE DEF m
  <2>4. ReadWhile(e + 1, b, Blank) \in e + 1..b + 1
    BY <1>3, <2>2, ReadWhileFacts
  <2> QED
    BY <1>3, <2>1, <2>2, <2>3, <2>4
<1>5. x = [tk EXCEPT !.cursor = m, !.last = b, !.lstrip = FALSE, !.liquid = TRUE, !.line = l]
  BY <1>2 DEF Inside, Tokenizers
<1>6. \A i \in m..b - 1 : ~EndAt(i)
  <2>1. CASE tk.liquid
    <3>1. \A i \in m..b - 1 : i \in from..tk.last - 1
      BY <1>1, <1>3, <1>4
    <3> HIDE DEF m, b
    <3> QED
      BY <2>1, <3>1 DEF Sane
  <2>2. CASE ~tk.liquid
    <3>1. \A i \in (from + IF t.lstrip THEN 3 ELSE 2)..t.to - 2 : ~EndAt(i)
      BY <1>3, <2>2, TokenFacts DEF TemplateTokenOK
    <3>2. \A i \in m..b - 1 : i \in a..t.to - 2
      BY <1>1, <1>3, <1>4, <2>2
    <3> HIDE DEF m, a, b
    <3> QED
      BY <1>3, <2>2, <3>1, <3>2
  <2> QED
    BY <2>1, <2>2
<1> HIDE DEF x, m, a, b
<1>7. m - 1 \in Int /\ from - 1 \in Int /\ (from - 1) + 1 = from /\ from - 1 <= m - 1 /\ 1 <= (from - 1) + 1
  BY <1>1, <1>3, <1>4
<1>8. l = 1 + CountNewlines(1, m - 1)
  <2>1. CountNewlines(1, m - 1) = CountNewlines(1, from - 1) + CountNewlines(from, m - 1)
    BY <1>7, CountJoined
  <2>2. CountNewlines(1, from - 1) \in Nat
    BY <1>7, CountFromFirst
  <2>3. CountNewlines(from, m - 1) \in Nat
    <3>1. from \in Int
      BY <1>1
    <3> QED
      BY <1>7, <3>1, CountType
  <2> QED
    BY <1>1, <1>3, <2>1, <2>2, <2>3
<1>9. m \in Nat /\ b \in Nat /\ l \in Nat
  <2>1. CountNewlines(1, m - 1) \in Nat
    BY <1>7, CountFromFirst
  <2> HIDE DEF l
  <2> QED
    BY <1>1, <1>3, <1>4, <1>8, <2>1
<1> HIDE DEF l
<1>10. /\ x \in Tokenizers /\ x.cursor = m /\ x.last = b /\ x.line = l
       /\ x.liquid = TRUE /\ x.bug = tk.bug /\ x.raw = tk.raw
  BY <1>2, <1>5, <1>9 DEF Tokenizers
<1>11. x.cursor \in 1..x.last + 1 /\ x.last <= Length /\ x.cursor > from /\ x.last <= t.to /\ x.last <= tk.last
  <2>1. x.cursor = m /\ x.last = b
    BY <1>10
  <2>2. m \in 1..b + 1 /\ m > from
    BY <1>1, <1>3, <1>4
  <2>3. b <= tk.last /\ b <= Length
    BY <1>1, <1>3 DEF Characters, Length
  <2> QED
    BY <1>3, <2>1, <2>2, <2>3
<1>12. Sane(x, p)
  BY <1>6, <1>8, <1>10, <1>11 DEF Sane
<1> QED
  BY <1>10, <1>11, <1>12 DEF x

-----------------------------------------------------------------------------
(* The loops                                                               *)

Frames == [loop : {"body", "liquid", "raw"}, saved : Tokenizers \cup {<< >>}, from : Nat,
           plain : BOOLEAN]
Liquids(s) == {i \in 1..Len(s) : s[i].loop = "liquid"}

LoopsOK(s, k) ==
    /\ s \in Seq(Frames) /\ s # << >> /\ s[1] = Body
    /\ \A i \in 1..Len(s) - 1 : s[i].loop # "raw"
    /\ \A i \in 1..Len(s) : s[i].loop = "raw" => s[i].from <= k.cursor

(* Liquid tags nest in the source as their loops do on the stack: the saved   *)
(* tokenizers go on behind what is tokenized now, and behind each other       *)
LiquidsOK(s, k, p) ==
    /\ k.liquid <=> Liquids(s) # {}
    /\ \A i \in Liquids(s) :
         LET x == s[i].saved
         IN /\ Sane(x, p) /\ x.raw = << >> /\ x.bug = k.bug /\ x.cursor > k.last
            /\ x.liquid <=> \E j \in Liquids(s) : j < i
            /\ \A j \in Liquids(s) : i < j => x.cursor > s[j].saved.last

RawOK ==
    tk.raw # << >> =>
      /\ status = "parsing" /\ returned /\ loop.loop = "body"
      /\ Match(token).delimiter = <<"e">> /\ tk.raw[1] <= tk.raw[2] + 1

Whole(t) == t.type \notin {"none", "line"} => t.from \in Nat \ {0} /\ t.to \in t.from..Length

IInv ==
    /\ Characters /\ Sane(tk, template) /\ LoopsOK(loops, tk) /\ LiquidsOK(loops, tk, template)
    /\ template.upto \in Nat /\ returned \in BOOLEAN /\ status \in {"parsing", "raised", "done"}
    /\ status = "done" => ~tk.liquid /\ template.upto = Length
    /\ RawOK /\ Whole(token) /\ TrimsAsMarked

LEMMA PushFacts ==
    ASSUME NEW S, NEW s \in Seq(S), NEW f \in S
    PROVE  LET t == Append(s, f)
           IN /\ t \in Seq(S) /\ Len(t) = Len(s) + 1 /\ t[Len(t)] = f /\ Len(s) \in Nat
              /\ \A i \in 1..Len(s) : t[i] = s[i]
              /\ \A i \in 1..Len(t) : i \in 1..Len(s) \/ i = Len(t)
OBVIOUS

LEMMA PrefixFacts ==
    ASSUME NEW S, NEW s \in Seq(S), NEW n \in 0..Len(s)
    PROVE  /\ SubSeq(s, 1, n) \in Seq(S) /\ Len(SubSeq(s, 1, n)) = n
           /\ \A i \in 1..n : SubSeq(s, 1, n)[i] = s[i]
OBVIOUS

LEMMA PopFacts ==
    ASSUME NEW S, NEW s \in Seq(S), s # << >>
    PROVE  LET t == SubSeq(s, 1, Len(s) - 1)
           IN /\ t \in Seq(S) /\ Len(t) = Len(s) - 1 /\ Len(t) \in Nat
              /\ \A i \in 1..Len(t) : t[i] = s[i] /\ i \in 1..Len(s)
<1> DEFINE n == Len(s) - 1
           t == SubSeq(s, 1, n)
<1>1. Len(s) \in Nat /\ Len(s) >= 1 /\ n \in Nat
  OBVIOUS
<1>2. t \in Seq(S) /\ Len(t) = n /\ \A i \in 1..n : t[i] = s[i]
  <2>1. n \in 0..Len(s)
    BY <1>1
  <2> HIDE DEF n
  <2> QED
    BY <2>1, PrefixFacts
<1>3. \A i \in 1..n : t[i] = s[i] /\ i \in 1..Len(s)
  BY <1>1, <1>2
<1> QED
  BY <1>1, <1>2, <1>3

(* The loops go on with a tokenizer that has moved                          *)
LEMMA LoopsMove ==
    ASSUME NEW s, NEW k, NEW x, LoopsOK(s, k), k.cursor \in Nat, x.cursor \in Nat, x.cursor >= k.cursor
    PROVE  LoopsOK(s, x)
<1>1. \A i \in 1..Len(s) : s[i].loop = "raw" => s[i].from <= x.cursor
  <2> SUFFICES ASSUME NEW i \in 1..Len(s), s[i].loop = "raw"
               PROVE  s[i].from <= x.cursor
    OBVIOUS
  <2>3. s[i] \in Frames
    BY DEF LoopsOK
  <2>1. s[i].from \in Nat
    BY <2>3 DEF Frames
  <2>2. s[i].from <= k.cursor
    BY DEF LoopsOK
  <2> QED
    BY <2>1, <2>2
<1> QED
  BY <1>1 DEF LoopsOK

Same(x, k) == x.liquid = k.liquid /\ x.bug = k.bug /\ x.last = k.last

LEMMA LiquidsMove ==
    ASSUME NEW s, NEW k, NEW x, NEW p, NEW q, LiquidsOK(s, k, p), Same(x, k),
           k.liquid => q = p
    PROVE  LiquidsOK(s, x, q)
<1>1. CASE Liquids(s) = {}
  BY <1>1 DEF LiquidsOK, Same
<1>2. CASE Liquids(s) # {}
  <2>1. k.liquid
    BY <1>2 DEF LiquidsOK
  <2> QED
    BY <2>1 DEF LiquidsOK, Same
<1> QED
  BY <1>1, <1>2

LEMMA LoopsPush ==
    ASSUME NEW s, NEW k, LoopsOK(s, k), s[Len(s)].loop # "raw", NEW f \in Frames,
           f.loop = "raw" => f.from = 0, k.cursor \in Nat
    PROVE  LoopsOK(Append(s, f), k)
<1> DEFINE t == Append(s, f)
<1>1. s \in Seq(Frames) /\ s # << >>
  BY DEF LoopsOK
<1>2. /\ t \in Seq(Frames) /\ Len(t) = Len(s) + 1 /\ t[Len(t)] = f /\ Len(s) \in Nat
      /\ \A i \in 1..Len(s) : t[i] = s[i]
      /\ \A i \in 1..Len(t) : i \in 1..Len(s) \/ i = Len(t)
  BY <1>1, PushFacts
<1>3. 1 \in 1..Len(s) /\ t # << >>
  BY <1>1, <1>2
<1> HIDE DEF t
<1>4. \A i \in 1..Len(t) - 1 : t[i].loop # "raw"
  <2>1. \A i \in 1..Len(t) - 1 : i \in 1..Len(s) /\ (i = Len(s) \/ i \in 1..Len(s) - 1)
    BY <1>2
  <2> QED
    BY <1>2, <2>1 DEF LoopsOK
<1>5. \A i \in 1..Len(t) : t[i].loop = "raw" => t[i].from <= k.cursor
  BY <1>2 DEF LoopsOK
<1>6. t[1] = Body
  BY <1>2, <1>3 DEF LoopsOK
<1> QED
  BY <1>2, <1>3, <1>4, <1>5, <1>6 DEF LoopsOK, t

LEMMA LoopsPop ==
    ASSUME NEW s, NEW k, LoopsOK(s, k), s[Len(s)].loop # "body" \/ Len(s) > 1
    PROVE  LET t == SubSeq(s, 1, Len(s) - 1)
           IN LoopsOK(t, k) /\ t[Len(t)].loop # "raw" /\ Len(t) = Len(s) - 1
              /\ Len(t) \in Nat \ {0} /\ \A i \in 1..Len(t) : t[i] = s[i]
<1> DEFINE t == SubSeq(s, 1, Len(s) - 1)
<1>1. s \in Seq(Frames) /\ s # << >> /\ s[1] = Body /\ Body.loop = "body"
  BY DEF LoopsOK, Body
<1>2. /\ t \in Seq(Frames) /\ Len(t) = Len(s) - 1 /\ Len(t) \in Nat
      /\ \A i \in 1..Len(t) : t[i] = s[i] /\ i \in 1..Len(s)
  BY <1>1, PopFacts
<1>3. Len(s) > 1
  BY <1>1
<1> HIDE DEF t
<1>4. 1 \in 1..Len(t) /\ Len(t) \in 1..Len(t) /\ Len(t) \in 1..Len(s) - 1 /\ t # << >>
  BY <1>2, <1>3
<1>5. \A i \in 1..Len(t) - 1 : t[i].loop # "raw"
  <2>1. \A i \in 1..Len(t) - 1 : i \in 1..Len(t) /\ i \in 1..Len(s) - 1
    BY <1>2
  <2> QED
    BY <1>2, <2>1 DEF LoopsOK
<1>6. \A i \in 1..Len(t) : t[i].loop = "raw" => t[i].from <= k.cursor
  BY <1>2 DEF LoopsOK
<1>7. t[1] = Body /\ t[Len(t)].loop # "raw"
  BY <1>1, <1>2, <1>4 DEF LoopsOK
<1> QED
  BY <1>2, <1>4, <1>5, <1>6, <1>7 DEF LoopsOK, t

(* A loop that is no liquid tag changes nothing for those that are            *)
LEMMA LiquidsPush ==
    ASSUME NEW s \in Seq(Frames), NEW k, NEW p, LiquidsOK(s, k, p), NEW f \in Frames,
           f.loop # "liquid"
    PROVE  LiquidsOK(Append(s, f), k, p)
<1> DEFINE t == Append(s, f)
<1>1. /\ Len(t) = Len(s) + 1 /\ t[Len(t)] = f /\ Len(s) \in Nat
      /\ \A i \in 1..Len(s) : t[i] = s[i] /\ i \in 1..Len(t)
      /\ \A i \in 1..Len(t) : i \in 1..Len(s) \/ i = Len(t)
  BY PushFacts
<1> HIDE DEF t
<1>2. Liquids(t) = Liquids(s) /\ \A i \in Liquids(s) : t[i] = s[i]
  BY <1>1 DEF Liquids
<1>3. LiquidsOK(t, k, p)
  BY <1>2 DEF LiquidsOK
<1> QED
  BY <1>3 DEF t

LEMMA LiquidsPop ==
    ASSUME NEW s \in Seq(Frames), s # << >>, NEW k, NEW p, LiquidsOK(s, k, p),
           s[Len(s)].loop # "liquid"
    PROVE  LiquidsOK(SubSeq(s, 1, Len(s) - 1), k, p)
<1> DEFINE t == SubSeq(s, 1, Len(s) - 1)
<1>1. /\ Len(t) = Len(s) - 1 /\ Len(t) \in Nat
      /\ \A i \in 1..Len(t) : t[i] = s[i] /\ i \in 1..Len(s)
  BY PopFacts
<1>2. \A i \in 1..Len(s) : i \in 1..Len(t) \/ i = Len(s)
  BY <1>1
<1> HIDE DEF t
<1>3. Liquids(t) = Liquids(s) /\ \A i \in Liquids(s) : t[i] = s[i]
  BY <1>1, <1>2 DEF Liquids
<1>4. LiquidsOK(t, k, p)
  BY <1>3 DEF LiquidsOK
<1> QED
  BY <1>4 DEF t

LEMMA LiquidsEnter ==
    ASSUME NEW s \in Seq(Frames), NEW k, NEW p, LiquidsOK(s, k, p), NEW f \in Frames,
           f.loop = "liquid", k.last \in Nat,
           NEW q, k.liquid => q = p,
           Sane(f.saved, q), Same(f.saved, k), f.saved.raw = << >>,
           NEW y, y.liquid, y.bug = k.bug, y.last \in Nat, y.last <= k.last,
           f.saved.cursor > y.last
    PROVE  LiquidsOK(Append(s, f), y, q)
<1> DEFINE t == Append(s, f)
           n == Len(t)
<1>1. /\ n = Len(s) + 1 /\ t[n] = f /\ Len(s) \in Nat
      /\ \A i \in 1..Len(s) : t[i] = s[i] /\ i \in 1..n /\ i < n
      /\ \A i \in 1..n : i \in 1..Len(s) \/ i = n
  BY PushFacts
<1> HIDE DEF t, n
<1>2. Liquids(t) = Liquids(s) \cup {n} /\ \A i \in Liquids(s) : t[i] = s[i] /\ i < n
  BY <1>1 DEF Liquids, n
<1>3. \A i \in Liquids(s) : s[i].saved.cursor \in Nat
  BY DEF LiquidsOK, Sane, Tokenizers
<1>4. n \in Nat /\ \A i \in Liquids(s) : i \in Nat
  BY <1>1 DEF Liquids
<1>5. ASSUME NEW i \in Liquids(s)
      PROVE  LET x == t[i].saved
             IN /\ Sane(x, q) /\ x.raw = << >> /\ x.bug = y.bug /\ x.cursor > y.last
                /\ x.liquid <=> \E j \in Liquids(t) : j < i
                /\ \A j \in Liquids(t) : i < j => x.cursor > t[j].saved.last
  <2> DEFINE x == s[i].saved
  <2>1. q = p
    BY <1>5 DEF LiquidsOK
  <2>2. Sane(x, q) /\ x.raw = << >> /\ x.bug = y.bug /\ x.cursor > k.last
    BY <2>1 DEF LiquidsOK
  <2>3. x.cursor > y.last
    BY <1>3, <2>2
  <2>4. x.liquid <=> \E j \in Liquids(t) : j < i
    <3>1. x.liquid <=> \E j \in Liquids(s) : j < i
      BY DEF LiquidsOK
    <3>2. ~(n < i)
      BY <1>2, <1>4
    <3> QED
      BY <1>2, <3>1, <3>2
  <2>5. \A j \in Liquids(t) : i < j => x.cursor > t[j].saved.last
    <3>1. \A j \in Liquids(s) : i < j => x.cursor > t[j].saved.last
      BY <1>2 DEF LiquidsOK
    <3>2. x.cursor > t[n].saved.last
      BY <1>1, <2>2 DEF Same
    <3> QED
      BY <1>2, <3>1, <3>2
  <2> QED
    BY <1>2, <2>2, <2>3, <2>4, <2>5
<1>6. LET x == t[n].saved
      IN /\ Sane(x, q) /\ x.raw = << >> /\ x.bug = y.bug /\ x.cursor > y.last
         /\ x.liquid <=> \E j \in Liquids(t) : j < n
         /\ \A j \in Liquids(t) : n < j => x.cursor > t[j].saved.last
  <2> DEFINE x == f.saved
  <2>1. Sane(x, q) /\ x.raw = << >> /\ x.bug = y.bug /\ x.cursor > y.last
    BY DEF Same
  <2>2. x.liquid <=> Liquids(s) # {}
    BY DEF Same, LiquidsOK
  <2>3. ~(n < n) /\ \A j \in Liquids(s) : ~(n < j)
    BY <1>2, <1>4
  <2>4. x.liquid <=> \E j \in Liquids(t) : j < n
    BY <1>2, <2>2, <2>3
  <2> QED
    BY <1>1, <1>2, <2>1, <2>3, <2>4
<1>7. LiquidsOK(t, y, q)
  BY <1>2, <1>5, <1>6 DEF LiquidsOK
<1> QED
  BY <1>7 DEF t

LEMMA LiquidsLeave ==
    ASSUME NEW s \in Seq(Frames), s # << >>, NEW k, NEW p, LiquidsOK(s, k, p),
           s[Len(s)].loop = "liquid"
    PROVE  LET y == s[Len(s)].saved
           IN /\ LiquidsOK(SubSeq(s, 1, Len(s) - 1), y, p)
              /\ Sane(y, p) /\ y.raw = << >> /\ y.bug = k.bug /\ y.cursor > k.last /\ k.liquid
<1> DEFINE t == SubSeq(s, 1, Len(s) - 1)
           n == Len(s)
           y == s[n].saved
<1>1. /\ Len(t) = n - 1 /\ Len(t) \in Nat /\ n \in 1..n
      /\ \A i \in 1..Len(t) : t[i] = s[i] /\ i \in 1..n
  BY PopFacts
<1>2. \A i \in 1..n : i \in 1..Len(t) <=> i < n
  BY <1>1
<1> HIDE DEF t, n
<1>3. n \in Liquids(s) /\ \A i : i \in Liquids(t) <=> i \in Liquids(s) /\ i < n
  <2>1. n \in Liquids(s)
    BY <1>1 DEF Liquids, n
  <2>2. \A i : i \in Liquids(t) => i \in Liquids(s) /\ i < n
    BY <1>1, <1>2 DEF Liquids, n
  <2>3. \A i : i \in Liquids(s) /\ i < n => i \in Liquids(t)
    BY <1>1, <1>2 DEF Liquids, n
  <2> QED
    BY <2>1, <2>2, <2>3
<1>4. \A i \in Liquids(t) : t[i] = s[i]
  BY <1>1 DEF Liquids
<1>5. \A i \in Liquids(s) : i \in Int
  BY DEF Liquids
<1>6. /\ Sane(y, p) /\ y.raw = << >> /\ y.bug = k.bug /\ y.cursor > k.last
      /\ y.liquid <=> \E j \in Liquids(s) : j < n
  BY <1>3 DEF LiquidsOK
<1>7. y.liquid <=> Liquids(t) # {}
  BY <1>3, <1>6
<1>8. ASSUME NEW i \in Liquids(t)
      PROVE  LET x == t[i].saved
             IN /\ Sane(x, p) /\ x.raw = << >> /\ x.bug = y.bug /\ x.cursor > y.last
                /\ x.liquid <=> \E j \in Liquids(t) : j < i
                /\ \A j \in Liquids(t) : i < j => x.cursor > t[j].saved.last
  <2> DEFINE x == s[i].saved
  <2>1. i \in Liquids(s) /\ i < n /\ t[i] = s[i]
    BY <1>3, <1>4
  <2>2. Sane(x, p) /\ x.raw = << >> /\ x.bug = y.bug
    BY <1>6, <2>1 DEF LiquidsOK
  <2>3. x.cursor > y.last
    BY <1>3, <2>1 DEF LiquidsOK
  <2>4. x.liquid <=> \E j \in Liquids(t) : j < i
    <3>1. x.liquid <=> \E j \in Liquids(s) : j < i
      BY <2>1 DEF LiquidsOK
    <3>2. \A j \in Liquids(s) : j < i => j < n
      <4>1. n \in Int /\ i \in Int /\ \A j \in Liquids(s) : j \in Int
        BY <1>3, <1>5, <2>1
      <4> QED
        BY <2>1, <4>1
    <3> QED
      BY <1>3, <3>1, <3>2
  <2>5. \A j \in Liquids(t) : i < j => x.cursor > t[j].saved.last
    BY <1>3, <1>4, <2>1 DEF LiquidsOK
  <2> QED
    BY <2>1, <2>2, <2>3, <2>4, <2>5
<1>9. LiquidsOK(t, y, p)
  BY <1>7, <1>8 DEF LiquidsOK
<1>10. k.liquid
  BY <1>3 DEF LiquidsOK
<1> QED
  BY <1>6, <1>9, <1>10 DEF t, n

-----------------------------------------------------------------------------
(* The scan of a raw tag from the end of a token                            *)

(* From a place, the first character that is not blank                      *)
First(i, t) == ReadWhile(i, t.to - 2, Blank)
Named(i, t) == First(i, t) <= t.to - 2 /\ source[First(i, t)] \in Word

BackRule(f, t) ==
    [i \in t.from..t.to - 1 |->
       IF i = t.to - 1 THEN [start |-> 0, length |-> 0, space |-> TRUE]
       ELSE IF source[i] \in Word
       THEN [start |-> i, length |-> IF f[i + 1].space THEN 1 ELSE f[i + 1].length + 1,
             space |-> FALSE]
       ELSE IF source[i] \in Blank
       THEN [start |-> f[i + 1].start, length |-> f[i + 1].length, space |-> TRUE]
       ELSE [start |-> 0, length |-> 0, space |-> FALSE]]

LEMMA BackIs ==
    ASSUME NEW t, t.from \in Nat, t.to \in Nat \ {0}
    PROVE  ScanBack(t) = BackRule(ScanBack(t), t)
<1> DEFINE a == t.from
           b == t.to - 1
           V == [start : Nat, length : Nat, space : BOOLEAN]
           none == [start |-> 0, length |-> 0, space |-> TRUE]
           stop == {b}
           value == [i \in a..b |-> none]
           next == [i \in a..b |-> i + 1]
           read(i, v) == IF source[i] \in Word
                         THEN [start |-> i, length |-> IF v.space THEN 1 ELSE v.length + 1,
                               space |-> FALSE]
                         ELSE IF source[i] \in Blank
                         THEN [start |-> v.start, length |-> v.length, space |-> TRUE]
                         ELSE [start |-> 0, length |-> 0, space |-> FALSE]
           step == [i \in a..b |-> [v \in V |-> read(i, v)]]
<1>1. a \in Nat /\ b \in Nat
  OBVIOUS
<1>2. \A i \in a..b : \A v \in V : read(i, v) \in V
  BY <1>1
<1>3. none \in V
  OBVIOUS
<1> HIDE DEF V, none, read
<1>4. \A i \in a..b : value[i] = none /\ next[i] = i + 1 /\ \A v \in V : step[i][v] = read(i, v)
  OBVIOUS
<1>5. \A i \in a..b : i \in stop \/ i + 1 \in i + 1..b
  BY <1>1
<1> HIDE DEF value, next, step
<1>6. Downward(a, b, stop, value, step, next, V)
  <2> HIDE DEF stop, b
  <2> QED
    BY <1>2, <1>3, <1>4, <1>5 DEF Downward
<1>7. PICK g : /\ g = [i \in a..b |-> IF i \in stop THEN value[i] ELSE step[i][g[next[i]]]]
               /\ \A i \in a..b : g[i] \in V
  <2> HIDE DEF a, b, stop
  <2> QED
    BY <1>1, <1>6, Recursion
<1>8. g = [i \in a..b |-> IF i = b THEN none ELSE read(i, g[i + 1])]
  <2>1. \A i \in a..b : i # b => step[i][g[next[i]]] = read(i, g[i + 1])
    <3>1. \A i \in a..b : i # b => i + 1 \in a..b
      BY <1>1
    <3> HIDE DEF a, b
    <3> QED
      BY <1>4, <1>7, <3>1
  <2> QED
    BY <1>4, <1>7, <2>1
<1>9. g = BackRule(g, t)
  BY <1>8 DEF BackRule, none, read
<1>10. LET h == CHOOSE h : h = BackRule(h, t)
       IN h = BackRule(h, t) /\ ScanBack(t) = h
  BY <1>9 DEF ScanBack, BackRule
<1> QED
  BY <1>10

(* Reading from a character on that is read, or is not                      *)
LEMMA ReadWhileStep ==
    ASSUME NEW a \in Nat, NEW b \in Int, a <= b + 1, NEW set
    PROVE  /\ a <= b /\ source[a] \in set => ReadWhile(a, b, set) = ReadWhile(a + 1, b, set)
           /\ a > b \/ source[a] \notin set => ReadWhile(a, b, set) = a
<1>1. CASE a <= b /\ source[a] \in set
  <2> DEFINE r == ReadWhile(a + 1, b, set)
  <2>1. a + 1 \in Nat /\ a + 1 <= b + 1
    BY <1>1
  <2>2. /\ r \in a + 1..b + 1
        /\ \A k \in a + 1..r - 1 : source[k] \in set
        /\ r <= b => source[r] \notin set
    BY <2>1, ReadWhileFacts
  <2> HIDE DEF r
  <2>3. \A k \in a..r - 1 : k = a \/ k \in a + 1..r - 1
    OBVIOUS
  <2>4. ReadWhile(a, b, set) = r
    BY <1>1, <2>2, <2>3, ReadWhileIs
  <2> QED
    BY <1>1, <2>4 DEF r
<1>2. CASE a > b \/ source[a] \notin set
  <2>1. a \in a..b + 1 /\ a..a - 1 = {} /\ (a <= b => source[a] \notin set)
    BY <1>2
  <2>2. ReadWhile(a, b, set) = a
    BY <2>1, ReadWhileIs
  <2> QED
    BY <1>2, <2>2
<1> QED
  BY <1>1, <1>2

(* What has been read of a delimiter at a character is the word that comes    *)
(* next, behind blanks at most                                             *)
LEMMA BackFacts ==
    ASSUME NEW t, t.from \in Nat \ {0}, t.to \in Nat, t.from <= t.to - 1
    PROVE  \A i \in t.from..t.to - 1 :
             LET r == ScanBack(t)[i]
             IN /\ r.length > 0 <=> Named(i, t)
                /\ Named(i, t) => /\ r.start = First(i, t)
                                  /\ r.length = ReadWhile(First(i, t), t.to - 2, Word) - First(i, t)
<1> DEFINE a == t.from
           b == t.to - 1
           f == ScanBack(t)
           word(i) == ReadWhile(First(i, t), t.to - 2, Word)
           good(i) == /\ f[i].length \in Nat
                      /\ f[i].length > 0 <=> Named(i, t)
                      /\ Named(i, t) => f[i].start = First(i, t) /\ f[i].length = word(i) - First(i, t)
                      /\ f[i].space <=> i = b \/ source[i] \in Blank
           S == {i \in a..b : good(i)}
<1>1. a \in Nat /\ b \in Nat /\ b - 1 = t.to - 2 /\ t.to - 2 \in Int /\ a <= b
  OBVIOUS
<1>2. \A i \in a..b :
        f[i] = IF i = b THEN [start |-> 0, length |-> 0, space |-> TRUE]
               ELSE IF source[i] \in Word
               THEN [start |-> i, length |-> IF f[i + 1].space THEN 1 ELSE f[i + 1].length + 1,
                     space |-> FALSE]
               ELSE IF source[i] \in Blank
               THEN [start |-> f[i + 1].start, length |-> f[i + 1].length, space |-> TRUE]
               ELSE [start |-> 0, length |-> 0, space |-> FALSE]
  <2>1. f = BackRule(f, t)
    BY BackIs
  <2> HIDE DEF f
  <2> QED
    BY <2>1 DEF BackRule
<1> HIDE DEF f
<1>3. ASSUME NEW i \in a..b, \A j \in i + 1..b : j \in S
      PROVE  i \in S
  <2> SUFFICES good(i)
    OBVIOUS
  <2>1. i \in Nat /\ (i # b => i + 1 \in i + 1..b /\ i + 1 \in Nat /\ i <= b - 1)
    BY <1>1
  <2>2. i # b => good(i + 1)
    BY <1>3, <2>1
  <2> HIDE DEF S
  <2>3. CASE i = b
    <3>1. f[i] = [start |-> 0, length |-> 0, space |-> TRUE]
      BY <1>2, <2>3
    <3>2. First(i, t) \in i..(t.to - 2) + 1
      BY <1>1, <2>1, <2>3, ReadWhileFacts DEF First
    <3>3. ~Named(i, t)
      BY <1>1, <2>3, <3>2 DEF Named
    <3> QED
      BY <2>3, <3>1, <3>3
  <2>4. CASE i # b /\ source[i] \notin Blank
    <3>1. First(i, t) = i /\ i <= t.to - 2
      <4>1. i <= (t.to - 2) + 1 /\ i <= t.to - 2
        BY <1>1, <2>1, <2>4
      <4> QED
        BY <1>1, <2>1, <2>4, <4>1, ReadWhileStep DEF First
    <3>2. Named(i, t) <=> source[i] \in Word
      BY <3>1 DEF Named
    <3>3. CASE source[i] \notin Word
      <4>1. f[i] = [start |-> 0, length |-> 0, space |-> FALSE]
        BY <1>2, <2>4, <3>3
      <4> QED
        BY <2>4, <3>2, <3>3, <4>1
    <3>4. CASE source[i] \in Word
      <4>1. f[i] = [start |-> i, length |-> IF f[i + 1].space THEN 1 ELSE f[i + 1].length + 1,
                    space |-> FALSE]
        BY <1>2, <2>4, <3>4
      <4>2. word(i) = ReadWhile(i + 1, t.to - 2, Word)
        <5>1. i <= (t.to - 2) + 1
          BY <1>1, <2>1, <2>4
        <5> QED
          BY <1>1, <2>1, <3>1, <3>4, <5>1, ReadWhileStep
      <4>3. i + 1 \in Nat /\ i + 1 <= (t.to - 2) + 1 /\ (i + 1 = b <=> i + 1 > t.to - 2)
        BY <1>1, <2>1, <2>4
      <4>4. CASE i + 1 = b \/ source[i + 1] \notin Word
        <5>1. word(i) = i + 1
          BY <1>1, <4>2, <4>3, <4>4, ReadWhileStep
        <5>2. f[i + 1].space \/ f[i + 1].length = 0
          <6>1. CASE i + 1 = b \/ source[i + 1] \in Blank
            BY <2>2, <2>4, <6>1
          <6>2. CASE i + 1 # b /\ source[i + 1] \notin Blank
            <7>1. First(i + 1, t) = i + 1
              BY <1>1, <4>3, <6>2, ReadWhileStep DEF First
            <7>2. ~Named(i + 1, t)
              BY <4>4, <6>2, <7>1 DEF Named
            <7>3. f[i + 1].length \in Nat /\ ~(f[i + 1].length > 0)
              BY <2>2, <2>4, <7>2
            <7> QED
              BY <7>3
          <6> QED
            BY <6>1, <6>2
        <5>3. f[i].length = 1 /\ f[i].start = i /\ f[i].space = FALSE
          BY <4>1, <5>2
        <5>4. word(i) - First(i, t) = 1
          BY <2>1, <3>1, <5>1
        <5> HIDE DEF word
        <5> QED
          BY <2>4, <3>1, <3>2, <3>4, <5>3, <5>4
      <4>5. CASE i + 1 # b /\ source[i + 1] \in Word
        <5>1. source[i + 1] \notin Blank
          BY <4>5, Letters
        <5>2. First(i + 1, t) = i + 1
          BY <1>1, <4>3, <5>1, ReadWhileStep DEF First
        <5>3. Named(i + 1, t)
          BY <4>3, <4>5, <5>2 DEF Named
        <5>4. f[i + 1].length = word(i) - (i + 1) /\ f[i + 1].length \in Nat
          BY <2>2, <2>4, <4>2, <5>2, <5>3
        <5>5. ~f[i + 1].space
          BY <2>2, <2>4, <4>5, <5>1
        <5>6. f[i].length = f[i + 1].length + 1 /\ f[i].start = i /\ f[i].space = FALSE
          BY <4>1, <5>5
        <5>7. word(i) \in Int
          BY <1>1, <4>2, <4>3, ReadWhileFacts
        <5> HIDE DEF word
        <5>8. f[i].length = word(i) - i /\ f[i].length \in Nat /\ f[i].length > 0
          BY <2>1, <5>4, <5>6, <5>7
        <5> QED
          BY <2>4, <3>1, <3>2, <3>4, <5>6, <5>8
      <4> QED
        BY <4>4, <4>5
    <3> QED
      BY <3>3, <3>4
  <2>5. CASE i # b /\ source[i] \in Blank
    <3>1. First(i, t) = First(i + 1, t)
      <4>1. i <= (t.to - 2) + 1 /\ i <= t.to - 2
        BY <1>1, <2>1, <2>5
      <4> QED
        BY <1>1, <2>1, <2>5, <4>1, ReadWhileStep DEF First
    <3>2. Named(i, t) <=> Named(i + 1, t)
      BY <3>1 DEF Named
    <3>3. source[i] \notin Word
      BY <2>5, Letters
    <3>4. f[i] = [start |-> f[i + 1].start, length |-> f[i + 1].length, space |-> TRUE]
      BY <1>2, <2>5, <3>3
    <3>5. f[i].start = f[i + 1].start /\ f[i].length = f[i + 1].length /\ f[i].space = TRUE
      BY <3>4
    <3> QED
      BY <2>2, <2>5, <3>1, <3>2, <3>5
  <2> QED
    BY <2>3, <2>4, <2>5
<1>4. \A i \in a..b : i \in S
  <2> HIDE DEF S
  <2>1. Inherited(a, b, S)
    BY <1>3 DEF Inherited
  <2> QED
    BY <1>1, <2>1, Descending
<1>5. \A i \in a..b : good(i)
  BY <1>4
<1> HIDE DEF good
<1> QED
  BY <1>5 DEF good, f

(* Three characters that stand in the source                               *)
LEMMA TextOfThree ==
    ASSUME Characters, NEW i \in 1..Length - 2, NEW x, NEW y, NEW z
    PROVE  Text(i, i + 2) = <<x, y, z>> <=> source[i] = x /\ source[i + 1] = y /\ source[i + 2] = z
<1> DEFINE s == Text(i, i + 2)
<1>1. /\ s \in Seq(Chars) /\ Len(s) = 3
      /\ s[1] = source[i] /\ s[2] = source[i + 1] /\ s[3] = source[i + 2]
  <2>1. source \in Seq(Chars) /\ i \in Int /\ i >= 1 /\ i + 2 <= Len(source)
    BY DEF Characters, Length
  <2>2. s = SubSeq(source, i, i + 2)
    BY DEF Text
  <2> HIDE DEF s
  <2>3. s \in Seq(Chars) /\ Len(s) = 3
    BY <2>1, <2>2
  <2>4. s[1] = source[i] /\ s[2] = source[i + 1] /\ s[3] = source[i + 2]
    BY <2>1, <2>2
  <2> QED
    BY <2>3, <2>4
<1> HIDE DEF s
<1>2. s = <<s[1], s[2], s[3]>>
  BY <1>1
<1>3. s = <<x, y, z>> <=> s[1] = x /\ s[2] = y /\ s[3] = z
  BY <1>2
<1> QED
  BY <1>1, <1>3 DEF s

(* The starts of tags in a token that a name follows, and where the scan is    *)
(* when it comes to them                                                   *)
Behind(p) == IF DashAt(p + 2) THEN p + 3 ELSE p + 2
TagNames(t) ==
    {p \in t.from..t.to - 4 : source[p] = Open /\ source[p + 1] = "%" /\ Named(Behind(p), t)}
Found(t) ==
    {i \in t.from + 2..t.to - 2 :
       ScanBack(t)[i].length > 0 /\ (Text(i - 2, i - 1) = <<Open, "%">> \/ Dashed(i, t))}

LEMMA FoundIs ==
    ASSUME Characters, NEW t, t.from \in Nat \ {0}, t.to \in t.from..Length, t.to - t.from >= 4
    PROVE  /\ \A p \in TagNames(t) : Behind(p) \in Found(t)
           /\ \A i \in Found(t) : \E p \in TagNames(t) : i = Behind(p)
<1> DEFINE a == t.from
           b == t.to
<1>1. a \in Nat /\ b \in Nat /\ a >= 1 /\ b <= Length /\ a <= b - 4 /\ Length \in Nat
  BY DEF Characters, Length
<1>2. \A i \in a..b - 1 : ScanBack(t)[i].length > 0 <=> Named(i, t)
  <2>1. t.from <= t.to - 1
    BY <1>1
  <2> QED
    BY <1>1, <2>1, BackFacts
<1>3. \A i \in a + 2..b - 2 : /\ Text(i - 2, i - 1) = <<Open, "%">>
                                   <=> source[i - 2] = Open /\ source[i - 1] = "%"
                              /\ Dashed(i, t) <=> i - 3 >= a /\ source[i - 3] = Open
                                                  /\ source[i - 2] = "%" /\ source[i - 1] = "-"
  <2> SUFFICES ASSUME NEW i \in a + 2..b - 2
               PROVE  /\ Text(i - 2, i - 1) = <<Open, "%">>
                            <=> source[i - 2] = Open /\ source[i - 1] = "%"
                      /\ Dashed(i, t) <=> i - 3 >= a /\ source[i - 3] = Open
                                          /\ source[i - 2] = "%" /\ source[i - 1] = "-"
    OBVIOUS
  <2>1. i - 2 \in 1..Length - 1 /\ (i - 2) + 1 = i - 1
    BY <1>1
  <2>2. i - 3 >= a => i - 3 \in 1..Length - 2 /\ (i - 3) + 1 = i - 2 /\ (i - 3) + 2 = i - 1
    BY <1>1
  <2>3. Text(i - 2, (i - 2) + 1) = <<Open, "%">> <=> source[i - 2] = Open /\ source[(i - 2) + 1] = "%"
    <3>1. \A q \in 1..Length - 1 :
            Text(q, q + 1) = <<Open, "%">> <=> source[q] = Open /\ source[q + 1] = "%"
      BY TextOfTwo DEF Characters
    <3> QED
      BY <2>1, <3>1
  <2>4. i - 3 >= a => (Text(i - 3, (i - 3) + 2) = <<Open, "%", "-">>
           <=> source[i - 3] = Open /\ source[(i - 3) + 1] = "%" /\ source[(i - 3) + 2] = "-")
    <3>1. \A q \in 1..Length - 2 :
            Text(q, q + 2) = <<Open, "%", "-">>
              <=> source[q] = Open /\ source[q + 1] = "%" /\ source[q + 2] = "-"
      BY TextOfThree
    <3> QED
      BY <2>2, <3>1
  <2> QED
    BY <2>1, <2>2, <2>3, <2>4 DEF Dashed
<1>4. ASSUME NEW p \in TagNames(t)
      PROVE  Behind(p) \in Found(t)
  <2> DEFINE i == Behind(p)
  <2>1. p \in a..b - 4 /\ source[p] = Open /\ source[p + 1] = "%" /\ Named(i, t)
    BY DEF TagNames
  <2>2. (i = p + 3 /\ source[p + 2] = "-") \/ i = p + 2
    BY DEF Behind, DashAt, Holds
  <2> HIDE DEF i
  <2>3. i \in Nat /\ i <= (b - 2) + 1 /\ b - 2 \in Int
    BY <1>1, <2>1, <2>2
  <2>4. First(i, t) \in i..(b - 2) + 1
    BY <2>3, ReadWhileFacts DEF First
  <2>5. i \in a + 2..b - 2 /\ i \in a..b - 1
    <3>1. First(i, t) <= b - 2
      BY <2>1 DEF Named
    <3> QED
      BY <1>1, <2>1, <2>2, <2>3, <2>4, <3>1
  <2>6. ScanBack(t)[i].length > 0
    BY <1>2, <2>1, <2>5
  <2>7. Text(i - 2, i - 1) = <<Open, "%">> \/ Dashed(i, t)
    <3>1. CASE i = p + 2
      <4>1. i - 2 = p /\ i - 1 = p + 1
        BY <2>1, <3>1
      <4> QED
        BY <1>3, <2>1, <2>5, <4>1
    <3>2. CASE i = p + 3 /\ source[p + 2] = "-"
      <4>1. i - 3 = p /\ i - 2 = p + 1 /\ i - 1 = p + 2 /\ p >= a
        BY <1>1, <2>1, <3>2
      <4> QED
        BY <1>3, <2>1, <2>5, <3>2, <4>1
    <3> QED
      BY <2>2, <3>1, <3>2
  <2> QED
    BY <2>5, <2>6, <2>7 DEF Found, i
<1>5. ASSUME NEW i \in Found(t)
      PROVE  \E p \in TagNames(t) : i = Behind(p)
  <2>1. i \in a + 2..b - 2 /\ i \in a..b - 1 /\ i \in Nat
    BY <1>1 DEF Found
  <2>2. Named(i, t)
    BY <1>2, <2>1 DEF Found
  <2>3. Text(i - 2, i - 1) = <<Open, "%">> \/ Dashed(i, t)
    BY DEF Found
  <2>4. CASE Text(i - 2, i - 1) = <<Open, "%">>
    <3>1. i - 2 \in a..b - 4 /\ (i - 2) + 1 = i - 1 /\ (i - 2) + 2 = i
      BY <1>1, <2>1
    <3>2. source[i - 2] = Open /\ source[(i - 2) + 1] = "%"
      BY <1>3, <2>1, <2>4, <3>1
    <3>3. source[i] # "-"
      <4> SUFFICES ASSUME source[i] = "-"
                   PROVE  FALSE
        OBVIOUS
      <4>1. source[i] \notin Blank /\ source[i] \notin Word
        BY Letters
      <4>2. First(i, t) = i
        <5>1. i <= (b - 2) + 1 /\ b - 2 \in Int
          BY <1>1, <2>1
        <5> QED
          BY <2>1, <4>1, <5>1, ReadWhileStep DEF First
      <4> QED
        BY <2>2, <4>1, <4>2 DEF Named
    <3>4. Behind(i - 2) = i
      BY <3>1, <3>3 DEF Behind, DashAt, Holds
    <3> QED
      BY <2>2, <3>1, <3>2, <3>4 DEF TagNames
  <2>5. CASE Dashed(i, t)
    <3>1. i - 3 >= a /\ source[i - 3] = Open /\ source[i - 2] = "%" /\ source[i - 1] = "-"
      BY <1>3, <2>1, <2>5
    <3>2. i - 3 \in a..b - 4 /\ (i - 3) + 1 = i - 2 /\ (i - 3) + 2 = i - 1 /\ (i - 3) + 3 = i /\ i - 1 <= Length
      BY <1>1, <2>1, <3>1
    <3>3. Behind(i - 3) = i
      BY <3>1, <3>2 DEF Behind, DashAt, Holds
    <3> QED
      BY <2>2, <3>1, <3>2, <3>3 DEF TagNames
  <2> QED
    BY <2>3, <2>4, <2>5
<1> QED
  BY <1>4, <1>5

(* The last start of a tag that a name follows is where the scan stops         *)
LEMMA MatchIs ==
    ASSUME Characters, NEW t, t.from \in Nat \ {0}, t.to \in t.from..Length
    PROVE  IF EndAt(t.to - 1) /\ TagNames(t) # {}
           THEN LET p == Max(TagNames(t))
                    n == First(Behind(p), t)
                IN /\ p \in TagNames(t)
                   /\ Match(t) = [body |-> p - 1,
                                  delimiter |-> Text(n, ReadWhile(n, t.to - 2, Word) - 1)]
           ELSE Match(t) = NoMatch
<1> DEFINE a == t.from
           b == t.to
           read == ScanBack(t)
           at == Max(Found(t))
<1>1. a \in Nat /\ b \in Nat /\ a >= 1 /\ b <= Length /\ Length \in Nat
  BY DEF Characters, Length
<1>2. Match(t) = IF b - a < 4 \/ Text(b - 1, b) # <<"%", Close>> \/ Found(t) = {} THEN NoMatch
                 ELSE [body |-> IF source[at - 1] = "-" THEN at - 4 ELSE at - 3,
                       delimiter |-> Text(read[at].start, read[at].start + read[at].length - 1)]
  BY DEF Match, Found
<1>3. b - a >= 4 => (Text(b - 1, b) = <<"%", Close>> <=> EndAt(b - 1))
  <2> SUFFICES ASSUME b - a >= 4
               PROVE  Text(b - 1, b) = <<"%", Close>> <=> EndAt(b - 1)
    OBVIOUS
  <2>1. b - 1 \in 1..Length - 1 /\ (b - 1) + 1 = b
    BY <1>1
  <2>2. \A q \in 1..Length - 1 :
          Text(q, q + 1) = <<"%", Close>> <=> source[q] = "%" /\ source[q + 1] = Close
    BY TextOfTwo DEF Characters
  <2> QED
    BY <2>1, <2>2 DEF EndAt
<1>4. \A p \in TagNames(t) : p \in a..b - 4 /\ source[p] = Open /\ source[p + 1] = "%" /\ Named(Behind(p), t)
  BY DEF TagNames
<1>5. TagNames(t) # {} => b - a >= 4
  BY <1>1, <1>4
<1>6. b - a >= 4 => (Found(t) = {} <=> TagNames(t) = {})
  <2>1. b - a >= 4 => /\ \A p \in TagNames(t) : Behind(p) \in Found(t)
                      /\ \A i \in Found(t) : \E p \in TagNames(t) : i = Behind(p)
    BY FoundIs
  <2> QED
    BY <2>1
<1>7. CASE ~(EndAt(b - 1) /\ TagNames(t) # {})
  <2>1. b - a < 4 \/ Text(b - 1, b) # <<"%", Close>> \/ Found(t) = {}
    BY <1>1, <1>3, <1>6, <1>7
  <2>2. Match(t) = NoMatch
    BY <1>2, <2>1
  <2> QED
    BY <1>7, <2>2
<1>8. CASE EndAt(b - 1) /\ TagNames(t) # {}
  <2> DEFINE q == Max(TagNames(t))
             n == First(Behind(q), t)
             end == ReadWhile(n, b - 2, Word)
  <2>1. b - a >= 4 /\ Text(b - 1, b) = <<"%", Close>> /\ Found(t) # {} /\ ~(b - a < 4)
    BY <1>1, <1>3, <1>5, <1>6, <1>8
  <2>2. q \in TagNames(t) /\ \A p \in TagNames(t) : q >= p
    <3>1. TagNames(t) \subseteq Int /\ \A p \in TagNames(t) : p <= b
      BY <1>1, <1>4
    <3> QED
      BY <1>1, <1>8, <3>1, MaxFacts
  <2> HIDE DEF q
  <2>3. /\ \A p \in TagNames(t) : Behind(p) \in Found(t)
        /\ \A i \in Found(t) : \E p \in TagNames(t) : i = Behind(p)
    BY <2>1, FoundIs
  <2>4. \A i \in Found(t) : i \in a + 2..b - 2
    BY DEF Found
  <2>5. at \in Found(t) /\ \A i \in Found(t) : at >= i
    <3>1. Found(t) \subseteq Int /\ \A i \in Found(t) : i <= b
      BY <1>1, <2>4
    <3> QED
      BY <1>1, <2>1, <3>1, MaxFacts
  <2> HIDE DEF at
  <2>6. \A p \in TagNames(t) : p \in Int /\ (Behind(p) = p + 2 \/ Behind(p) = p + 3)
    BY <1>4 DEF Behind
  <2>7. PICK p \in TagNames(t) : at = Behind(p)
    BY <2>3, <2>5
  <2>8. p = q
    <3>1. p <= q /\ Behind(p) >= Behind(q)
      BY <2>2, <2>3, <2>5, <2>7
    <3>2. p # q => q = p + 1
      BY <2>2, <2>6, <3>1
    <3>3. source[p + 1] = "%" /\ source[q] = Open
      BY <1>4, <2>2
    <3> QED
      BY <3>2, <3>3, Letters
  <2>9. at \in a + 2..b - 2 /\ at \in a..b - 1
    BY <1>1, <2>4, <2>5
  <2>10. Named(at, t) /\ read[at].start = n /\ read[at].length = end - n
    <3>1. Named(at, t)
      BY <1>4, <2>7
    <3>2. t.from <= t.to - 1 /\ t.to \in Nat
      BY <1>1, <2>1
    <3> QED
      BY <2>7, <2>8, <2>9, <3>1, <3>2, BackFacts
  <2>11. n \in Nat /\ n <= b - 2
    <3>1. at \in Nat /\ b - 2 \in Int /\ at <= (b - 2) + 1
      BY <1>1, <2>9
    <3>2. First(at, t) \in at..(b - 2) + 1
      BY <3>1, ReadWhileFacts DEF First
    <3>3. First(at, t) <= b - 2
      BY <2>10 DEF Named
    <3> QED
      BY <1>1, <2>7, <2>8, <3>1, <3>2, <3>3
  <2>12. end \in Int
    <3>1. b - 2 \in Int /\ n <= (b - 2) + 1
      BY <1>1, <2>11
    <3> HIDE DEF n
    <3> QED
      BY <2>11, <3>1, ReadWhileFacts
  <2> HIDE DEF n, end
  <2>13. read[at].start + read[at].length - 1 = end - 1
    BY <2>10, <2>11, <2>12
  <2>14. (IF source[at - 1] = "-" THEN at - 4 ELSE at - 3) = q - 1
    <3>1. CASE DashAt(q + 2)
      <4>1. at = q + 3 /\ at - 1 = q + 2 /\ at - 4 = q - 1
        BY <2>6, <2>7, <2>8, <3>1 DEF Behind
      <4>2. source[at - 1] = "-"
        BY <3>1, <4>1 DEF DashAt, Holds
      <4> QED
        BY <4>1, <4>2
    <3>2. CASE ~DashAt(q + 2)
      <4>1. at = q + 2 /\ at - 1 = q + 1 /\ at - 3 = q - 1
        BY <2>6, <2>7, <2>8, <3>2 DEF Behind
      <4>2. source[at - 1] # "-"
        BY <1>4, <2>2, <4>1, Zenon
      <4> QED
        BY <4>1, <4>2
    <3> QED
      BY <3>1, <3>2
  <2>15. Match(t) = [body |-> q - 1, delimiter |-> Text(n, end - 1)]
    BY <1>2, <2>1, <2>10, <2>13, <2>14
  <2> QED
    BY <1>8, <2>2, <2>15 DEF q, n, end
<1> QED
  BY <1>7, <1>8

(* A token with the end of a raw tag is long enough for it, and the body that  *)
(* it leaves in the token is before the last start of a tag                   *)
LEMMA MatchFacts ==
    ASSUME Characters, NEW t, t.from \in Nat \ {0}, t.to \in t.from..Length,
           Match(t).delimiter = <<"e">>
    PROVE  EndAt(t.to - 1) /\ t.to - t.from >= 4 /\ Match(t).body \in t.from - 1..t.to - 5
<1>0. ~(EndAt(t.to - 1) /\ TagNames(t) # {}) => Match(t) = NoMatch
  BY MatchIs
<1>1. EndAt(t.to - 1) /\ TagNames(t) # {}
  <2>1. NoMatch.delimiter = << >>
    BY DEF NoMatch
  <2>2. Len(<<"e">>) = 1 /\ Len(<< >>) = 0
    OBVIOUS
  <2>3. <<"e">> # << >>
    BY <2>2, Zenon
  <2>4. Match(t) # NoMatch
    BY <2>1, <2>3, Zenon
  <2> QED
    BY <1>0, <2>4, Zenon
<1>2. PICK p \in TagNames(t) : Match(t).body = p - 1
  BY <1>1, MatchIs
<1>3. p \in t.from..t.to - 4
  BY DEF TagNames
<1> QED
  BY <1>1, <1>2, <1>3

LEMMA RawFacts ==
    ASSUME Characters, Whole(token)
    PROVE  RawTokens
<1> SUFFICES ASSUME token.type \notin {"none", "line"}
             PROVE  RawTokens
  BY DEF RawTokens
<1> DEFINE a == token.from
           b == token.to
           NameAt(p) == ReadWhile(IF DashAt(p + 2) THEN p + 3 ELSE p + 2, token.to - 2, Blank)
           named == {p \in token.from..token.to - 4 :
                       Text(p, p + 1) = <<Open, "%">> /\ Holds(NameAt(p), token.to - 2, source[NameAt(p)])
                       /\ source[NameAt(p)] \in Word}
           ended == Text(token.to - 1, token.to) = <<"%", Close>>
<1>1. a \in Nat \ {0} /\ b \in a..Length /\ b \in Nat /\ Length \in Nat
  BY DEF Whole, Characters, Length
<1>2. \A p : NameAt(p) = First(Behind(p), token)
  BY DEF First, Behind
<1> HIDE DEF NameAt
<1>3. \A p : Named(Behind(p), token) <=> Holds(NameAt(p), token.to - 2, source[NameAt(p)])
                                         /\ source[NameAt(p)] \in Word
  BY <1>2 DEF Named, Holds
<1>4. \A p \in a..b - 4 : Text(p, p + 1) = <<Open, "%">> <=> source[p] = Open /\ source[p + 1] = "%"
  <2>1. \A q \in 1..Length - 1 : Text(q, q + 1) = <<Open, "%">> <=> source[q] = Open /\ source[q + 1] = "%"
    BY TextOfTwo DEF Characters
  <2>2. \A p \in a..b - 4 : p \in 1..Length - 1
    BY <1>1
  <2> QED
    BY <2>1, <2>2
<1>5. named = TagNames(token)
  BY <1>3, <1>4 DEF TagNames
<1>6. named # {} => (ended <=> EndAt(b - 1))
  <2>1. named # {} => b - 1 \in 1..Length - 1 /\ (b - 1) + 1 = b
    BY <1>1
  <2>2. \A q \in 1..Length - 1 :
          Text(q, q + 1) = <<"%", Close>> <=> source[q] = "%" /\ source[q + 1] = Close
    BY TextOfTwo DEF Characters
  <2> HIDE DEF named
  <2> QED
    BY <2>1, <2>2 DEF EndAt
<1>7. IF named # {} /\ ended
      THEN LET p == Max(named)
           IN Match(token) = [body |-> p - 1,
                              delimiter |-> Text(NameAt(p), ReadWhile(NameAt(p), token.to - 2, Word) - 1)]
      ELSE Match(token) = NoMatch
  <2> HIDE DEF named, ended
  <2> QED
    BY <1>1, <1>2, <1>5, <1>6, MatchIs
<1> QED
  BY <1>7 DEF RawTokens, NameAt

-----------------------------------------------------------------------------
(* The tokens of a template as the source delimits them                      *)

LEMMA MinIs ==
    ASSUME NEW S, S \subseteq Nat, NEW m \in S, \A y \in S : m <= y
    PROVE  Min(S) = m
<1>1. Min(S) \in S /\ \A y \in S : Min(S) <= y
  BY MinFacts
<1>2. Min(S) <= m /\ m <= Min(S) /\ Min(S) \in Nat /\ m \in Nat
  BY <1>1
<1> QED
  BY <1>2

LEMMA MaxIs ==
    ASSUME NEW S, S \subseteq Int, NEW m \in S, \A y \in S : m >= y
    PROVE  Max(S) = m
<1>1. Max(S) \in S /\ \A y \in S : Max(S) >= y
  BY MaxFacts
<1>2. Max(S) <= m /\ m <= Max(S) /\ Max(S) \in Int /\ m \in Int
  BY <1>1
<1> QED
  BY <1>2

LEMMA DelimitedFacts ==
    ASSUME Characters, Sane(tk, template)
    PROVE  TokensAsDelimited
<1> SUFFICES ASSUME ~tk.liquid, tk.cursor <= Length
             PROVE  LET from == tk.cursor
                        later == {i \in Starts : i >= from}
                    IN IF from \notin later
                       THEN /\ Token.type = "text"
                            /\ Token.to = Min({i - 1 : i \in later} \cup {Length})
                       ELSE IF Ends(from) = {} THEN Token.type = "invalid" /\ Token.to = from + 1
                       ELSE LET to == Min(Ends(from))
                            IN /\ Token.to = to
                               /\ Token.type = IF ~Complete(from, to) THEN "invalid"
                                               ELSE IF source[from + 1] = "%" THEN "tag"
                                                    ELSE "variable"
                               /\ Complete(from, to) =>
                                    <<Token.lstrip, Token.rstrip>> = Dashes(from, to)
  BY DEF TokensAsDelimited
<1> DEFINE from == tk.cursor
           last == tk.last
           at == ScanStart(from, last)
           dash == Holds(at + 2, last, "-")
           inner == at + IF dash THEN 3 ELSE 2
           tag == source[at + 1] = "%"
           end == IF tag THEN ScanTag(inner, last) ELSE ScanVariable(inner, last)
           done(type, to) == Tok(type, from, to, dash, source[to - 2] = "-")
           t == IF at > last THEN Tok("text", from, last, tk.lstrip, FALSE)
                ELSE IF at > from THEN Tok("text", from, at - 1, tk.lstrip, dash)
                ELSE IF end = 0 THEN Tok("invalid", from, from + 1, dash, FALSE)
                ELSE IF tag THEN done("tag", end)
                ELSE IF source[end + 1] = Close THEN done("variable", end + 1)
                ELSE Tok("invalid", from, end, dash, FALSE)
           later == {i \in Starts : i >= from}
<1>1. from \in Nat /\ last \in Nat /\ from >= 1 /\ from <= last /\ last = Length
  BY DEF Sane, Tokenizers
<1>2. Token = t
  <2>1. ~(tk.cursor > tk.last) /\ ~tk.liquid
    BY <1>1
  <2>2. Token = TemplateToken
    BY <2>1 DEF Token
  <2> QED
    BY <2>2 DEF TemplateToken
<1>3. /\ at \in from..last + 1 /\ (at # last + 1 => at < last /\ StartAt(at))
      /\ \A j \in from..at - 1 : j < last => ~StartAt(j)
  <2>0. from \in Nat /\ last \in Nat /\ from <= last + 1
    BY <1>1
  <2>1. at \in from..last + 1 /\ (at # last + 1 => at < last)
    <3> HIDE DEF from, last
    <3> QED
      BY <2>0, StartFacts
  <2>2. \A j \in from..at - 1 : j < last => ~StartAt(j)
    <3> HIDE DEF from, last
    <3> QED
      BY <2>0, StartFacts
  <2>3. at # last + 1 => StartAt(at)
    <3> HIDE DEF from, last
    <3> QED
      BY <2>0, StartFacts
  <2> QED
    BY <2>1, <2>2, <2>3
<1>4. later = {i \in from..last - 1 : StartAt(i)}
  BY <1>1 DEF Starts, StartAt
<1> HIDE DEF at, later
<1>5. from \in later <=> at = from
  BY <1>1, <1>3, <1>4
<1>6. CASE from \notin later
  <2>1. at > from /\ at - 1 \in Nat
    BY <1>1, <1>3, <1>5, <1>6
  <2>2. Token.type = "text" /\ Token.to = at - 1
    <3>1. CASE at > last
      <4>1. t = Tok("text", from, last, tk.lstrip, FALSE) /\ last = at - 1
        BY <1>1, <1>3, <3>1
      <4> HIDE DEF t
      <4> QED
        BY <1>2, <4>1 DEF Tok
    <3>2. CASE ~(at > last)
      <4>1. t = Tok("text", from, at - 1, tk.lstrip, dash)
        BY <2>1, <3>2
      <4> HIDE DEF t
      <4> QED
        BY <1>2, <4>1 DEF Tok
    <3> QED
      BY <3>1, <3>2
  <2>3. Min({i - 1 : i \in later} \cup {Length}) = at - 1
    <3> DEFINE S == {i - 1 : i \in later} \cup {Length}
    <3>1. \A i \in later : i \in Nat /\ i >= 1 /\ i >= at
      BY <1>1, <1>3, <1>4
    <3>2. S \subseteq Nat /\ \A y \in S : at - 1 <= y
      BY <1>1, <1>3, <3>1
    <3>3. at - 1 \in S
      <4>1. CASE at = last + 1
        BY <1>1, <4>1
      <4>2. CASE at # last + 1
        <5>1. at \in later
          BY <1>1, <1>3, <1>4, <4>2
        <5> QED
          BY <5>1
      <4> QED
        BY <4>1, <4>2
    <3> HIDE DEF S
    <3>4. Min(S) = at - 1
      BY <3>2, <3>3, MinIs
    <3> QED
      BY <3>4 DEF S
  <2> QED
    BY <1>6, <2>2, <2>3 DEF later
<1>7. CASE from \in later
  <2>1. at = from /\ at < last /\ ~(at > last) /\ ~(at > from) /\ StartAt(from)
    BY <1>1, <1>3, <1>5, <1>7
  <2>2. /\ dash <=> DashAt(from + 2)
        /\ inner = Inner(from) /\ inner \in Nat /\ inner <= last + 1 /\ inner >= from + 2
    BY <1>1, <2>1 DEF DashAt, Holds, Inner
  <2>3. tag <=> source[from + 1] = "%"
    BY <2>1
  <2> HIDE DEF dash, inner
  <2>4. CASE tag
    <3> DEFINE E == {j \in inner..last - 1 : EndAt(j)}
    <3>1. Ends(from) = {i + 1 : i \in E}
      <4>1. \A q \in 1..Length - 1 : Text(q, q + 1) = <<"%", Close>> <=> EndAt(q)
        BY TextOfTwo DEF Characters, EndAt
      <4>2. \A j \in inner..last - 1 : j \in 1..Length - 1
        BY <1>1, <2>2
      <4>3. \A j \in inner..last - 1 : Text(j, j + 1) = <<"%", Close>> <=> EndAt(j)
        BY <4>1, <4>2
      <4>4. Ends(from) =
              {i + 1 : i \in {j \in inner..last - 1 : Text(j, j + 1) = <<"%", Close>>}}
        BY <1>1, <2>2, <2>3, <2>4 DEF Ends
      <4> QED
        BY <4>3, <4>4
    <3>2. \/ end = 0 /\ \A j \in inner..last - 1 : ~EndAt(j)
          \/ /\ end \in inner + 1..last /\ EndAt(end - 1)
             /\ \A j \in inner..end - 2 : ~EndAt(j)
      BY <1>1, <2>2, <2>4, TagFacts
    <3> HIDE DEF end, tag
    <3>3. CASE end = 0
      <4>1. \A j \in inner..last - 1 : ~EndAt(j)
        BY <1>1, <2>2, <3>2, <3>3
      <4>2. Ends(from) = {}
        BY <3>1, <4>1
      <4>3. t = Tok("invalid", from, from + 1, dash, FALSE)
        BY <2>1, <3>3
      <4> HIDE DEF t
      <4>4. Token.type = "invalid" /\ Token.to = from + 1
        BY <1>2, <4>3 DEF Tok
      <4> QED
        BY <1>7, <4>2, <4>4 DEF later
    <3>4. CASE end # 0
      <4>1. /\ end \in inner + 1..last /\ EndAt(end - 1)
            /\ \A j \in inner..end - 2 : ~EndAt(j)
        BY <3>2, <3>4
      <4>2. end - 1 \in E /\ (end - 1) + 1 = end
        BY <1>1, <2>2, <4>1
      <4>3. end \in Ends(from)
        BY <3>1, <4>2
      <4>4. Ends(from) \subseteq Nat /\ \A y \in Ends(from) : end <= y
        <5>1. \A i \in E : i + 1 \in Nat /\ end <= i + 1
          BY <2>2, <4>1
        <5> HIDE DEF E
        <5> QED
          BY <3>1, <5>1
      <4>5. Min(Ends(from)) = end
        BY <4>3, <4>4, MinIs
      <4>6. Complete(from, end)
        <5>1. end - 1 \in 1..Length - 1
          BY <1>1, <2>2, <4>1
        <5>2. \A q \in 1..Length - 1 : Text(q, q + 1) = <<"%", Close>> <=> EndAt(q)
          BY TextOfTwo DEF Characters, EndAt
        <5>3. Text(end - 1, end) = <<"%", Close>>
          BY <4>1, <4>2, <5>1, <5>2
        <5> QED
          BY <2>3, <2>4, <5>3 DEF Complete
      <4>7. t = done("tag", end)
        BY <2>1, <2>4, <3>4
      <4> HIDE DEF t
      <4>8. Token.to = end /\ Token.type = "tag"
            /\ <<Token.lstrip, Token.rstrip>> = <<dash, source[end - 2] = "-">>
        BY <1>2, <4>7 DEF Tok
      <4>9. dash \in BOOLEAN /\ DashAt(from + 2) \in BOOLEAN
        BY DEF dash, DashAt, Holds
      <4>10. <<Token.lstrip, Token.rstrip>> = Dashes(from, end)
        BY <2>2, <4>8, <4>9 DEF Dashes
      <4> QED
        BY <1>7, <2>3, <2>4, <4>3, <4>5, <4>6, <4>8, <4>10 DEF later
    <3> QED
      BY <3>3, <3>4
  <2>5. CASE ~tag
    <3> DEFINE braces == {j \in inner..last - 1 : source[j] = Close}
    <3>1. Ends(from) =
            IF braces = {} THEN {}
            ELSE {IF source[Min(braces) + 1] = Close THEN Min(braces) + 1 ELSE Min(braces)}
      BY <1>1, <2>2, <2>3, <2>5 DEF Ends
    <3>2. \/ end = 0 /\ \A j \in inner..last - 1 : source[j] # Close
          \/ /\ end \in inner..last - 1 /\ source[end] = Close
             /\ \A j \in inner..end - 1 : source[j] # Close
      BY <1>1, <2>2, <2>5, VariableFacts
    <3> HIDE DEF end, tag
    <3>3. CASE end = 0
      <4>1. \A j \in inner..last - 1 : source[j] # Close
        BY <1>1, <2>2, <3>2, <3>3
      <4>2. Ends(from) = {}
        BY <3>1, <4>1
      <4>3. t = Tok("invalid", from, from + 1, dash, FALSE)
        BY <2>1, <3>3
      <4> HIDE DEF t
      <4>4. Token.type = "invalid" /\ Token.to = from + 1
        BY <1>2, <4>3 DEF Tok
      <4> QED
        BY <1>7, <4>2, <4>4 DEF later
    <3>4. CASE end # 0
      <4>1. /\ end \in inner..last - 1 /\ source[end] = Close
            /\ \A j \in inner..end - 1 : source[j] # Close
        BY <3>2, <3>4
      <4>2. end \in braces /\ braces # {}
        BY <4>1
      <4>3. braces \subseteq Nat /\ \A y \in braces : end <= y
        BY <2>2, <4>1
      <4> HIDE DEF braces
      <4>4. Min(braces) = end
        BY <4>2, <4>3, MinIs
      <4> DEFINE to == IF source[end + 1] = Close THEN end + 1 ELSE end
      <4>5. Ends(from) = {to}
        BY <3>1, <4>2, <4>4
      <4>6. to \in Nat /\ to \in 2..Length /\ end \in Nat
        BY <1>1, <2>2, <4>1
      <4>7. Min(Ends(from)) = to
        <5> HIDE DEF to
        <5> QED
          BY <4>5, <4>6, MinIs
      <4>8. \A q \in 2..Length : Text(q - 1, q) = <<Close, Close>> <=> source[q - 1] = Close /\ source[q] = Close
        <5>1. \A q \in 1..Length - 1 :
                Text(q, q + 1) = <<Close, Close>> <=> source[q] = Close /\ source[q + 1] = Close
          BY TextOfTwo DEF Characters
        <5>2. \A q \in 2..Length : q - 1 \in 1..Length - 1 /\ (q - 1) + 1 = q
          BY <1>1
        <5> QED
          BY <5>1, <5>2
      <4>9. Complete(from, to) <=> source[to - 1] = Close /\ source[to] = Close
        <5> HIDE DEF to
        <5> QED
          BY <2>3, <2>5, <4>6, <4>8 DEF Complete
      <4>10. CASE source[end + 1] = Close
        <5>1. to = end + 1 /\ to - 1 = end
          BY <4>6, <4>10
        <5>2. Complete(from, to)
          BY <4>1, <4>9, <4>10, <5>1
        <5>3. t = done("variable", end + 1)
          BY <2>1, <2>5, <3>4, <4>10
        <5> HIDE DEF t, to
        <5>4. Token.to = to /\ Token.type = "variable"
              /\ <<Token.lstrip, Token.rstrip>> = <<dash, source[to - 2] = "-">>
          BY <1>2, <5>1, <5>3 DEF Tok
        <5>5. dash \in BOOLEAN /\ DashAt(from + 2) \in BOOLEAN
          BY DEF dash, DashAt, Holds
        <5>6. <<Token.lstrip, Token.rstrip>> = Dashes(from, to)
          BY <2>2, <5>4, <5>5 DEF Dashes
        <5> QED
          BY <1>7, <2>3, <2>5, <4>5, <4>7, <5>2, <5>4, <5>6 DEF later
      <4>11. CASE source[end + 1] # Close
        <5>1. to = end
          BY <4>11
        <5>2. source[end - 1] # Close
          <6>1. CASE end > inner
            <7>1. end - 1 \in inner..end - 1
              BY <2>2, <4>6, <6>1
            <7> QED
              BY <4>1, <7>1
          <6>2. CASE end = inner /\ dash
            <7>1. end - 1 = from + 2
              BY <1>1, <2>1, <6>2 DEF inner
            <7>2. source[from + 2] = "-"
              BY <2>2, <6>2 DEF DashAt, Holds
            <7>3. "-" # Close
              BY Zenon DEF Close
            <7> QED
              BY <7>1, <7>2, <7>3
          <6>3. CASE end = inner /\ ~dash
            <7>1. end - 1 = from + 1
              BY <1>1, <2>1, <6>3 DEF inner
            <7>2. source[from + 1] \in {"%", Open}
              BY <2>1 DEF StartAt
            <7> QED
              BY <7>1, <7>2, Letters
          <6> QED
            BY <2>2, <4>1, <4>6, <6>1, <6>2, <6>3
        <5>3. ~Complete(from, to)
          BY <4>9, <5>1, <5>2
        <5>4. t = Tok("invalid", from, end, dash, FALSE)
          BY <2>1, <2>5, <3>4, <4>11
        <5> HIDE DEF t, to
        <5>5. Token.to = to /\ Token.type = "invalid"
          BY <1>2, <5>1, <5>4 DEF Tok
        <5> QED
          BY <1>7, <4>5, <4>7, <5>3, <5>5 DEF later
      <4> QED
        BY <4>10, <4>11
    <3> QED
      BY <3>3, <3>4
  <2> QED
    BY <2>4, <2>5
<1> QED
  BY <1>6, <1>7

-----------------------------------------------------------------------------
(* The inductive invariant implies what the runs check                       *)

LEMMA Implied ==
    ASSUME IInv
    PROVE  TypeOK /\ TokensAsDelimited /\ SourceCovered /\ LinesCounted /\ TrimsAsMarked
           /\ RawTokens /\ RawBodyTaken
<1>1. Characters /\ Sane(tk, template) /\ LoopsOK(loops, tk) /\ LiquidsOK(loops, tk, template)
      /\ Whole(token) /\ RawOK
  BY DEF IInv
<1>2. TypeOK
  <2>1. tk.last \in 0..Length /\ tk.cursor \in 1..tk.last + 1
    <3>1. tk.last \in Nat /\ tk.last <= Length /\ tk.cursor \in 1..tk.last + 1 /\ Length \in Nat
      BY <1>1 DEF Sane, Tokenizers, Characters, Length
    <3> QED
      BY <3>1
  <2>2. tk.line \in Nat \ {0}
    <3>1. tk.cursor - 1 \in Int
      BY <2>1
    <3>2. CountNewlines(1, tk.cursor - 1) \in Nat
      BY <3>1, CountFromFirst
    <3>3. tk.line = 1 + CountNewlines(1, tk.cursor - 1)
      BY <1>1 DEF Sane
    <3> QED
      BY <3>2, <3>3
  <2>3. tk.lstrip \in BOOLEAN /\ tk.liquid \in BOOLEAN /\ tk.raw \in {<< >>} \cup Seq(0..Length)
    BY <1>1 DEF Sane, Tokenizers
  <2>4. loops # << >> /\ loops[1] = Body /\ returned \in BOOLEAN
        /\ status \in {"parsing", "raised", "done"}
    BY <1>1 DEF LoopsOK, IInv
  <2>5. Token.type \in {"tag", "variable"} =>
          Token.from <= Trimmed(Token)[1] /\ Trimmed(Token)[1] - 1 <= Trimmed(Token)[2]
          /\ Trimmed(Token)[2] <= Token.to
    BY <1>1, TrimmedFacts
  <2> QED
    BY <2>1, <2>2, <2>3, <2>4, <2>5 DEF TypeOK
<1>3. TokensAsDelimited
  BY <1>1, DelimitedFacts
<1>4. SourceCovered
  BY <1>1 DEF SourceCovered, Sane, IInv
<1>5. LinesCounted
  BY <1>1 DEF LinesCounted, Sane
<1>6. RawTokens
  BY <1>1, RawFacts
<1>7. RawBodyTaken
  <2>1. status = "parsing" /\ ~returned => tk.raw = << >>
    BY <1>1 DEF RawOK
  <2>2. \A i \in 1..Len(loops) : loops[i].loop = "liquid" => loops[i].saved.raw = << >>
    BY <1>1 DEF LiquidsOK, Liquids
  <2>3. tk.raw # << >> => loop.loop = "body" /\ Match(token).delimiter = <<"e">>
                          /\ tk.raw[1] <= tk.raw[2] + 1
    BY <1>1 DEF RawOK
  <2> QED
    BY <2>1, <2>2, <2>3 DEF RawBodyTaken
<1> QED
  BY <1>2, <1>3, <1>4, <1>5, <1>6, <1>7 DEF IInv

LEMMA Initially ==
    ASSUME Init
    PROVE  IInv
<1>1. PICK bug \in BOOLEAN :
        tk = [cursor |-> 1, last |-> Length, line |-> 1, lstrip |-> FALSE, liquid |-> FALSE,
              bug |-> bug, raw |-> << >>]
  BY DEF Init
<1>2. Characters /\ Length \in Nat
  BY SourcesAssumption DEF Init, Characters, Length
<1>3. tk \in Tokenizers /\ tk.cursor = 1 /\ tk.last = Length /\ tk.line = 1 /\ ~tk.lstrip
      /\ ~tk.liquid /\ tk.raw = << >>
  BY <1>1, <1>2 DEF Tokenizers
<1>4. template.upto = 0 /\ template.type = "none" /\ loops = <<Body>> /\ ~returned
      /\ returned \in BOOLEAN /\ status = "parsing" /\ token.type = "none" /\ text = << >>
  BY DEF Init, NoToken, Tok
<1>5. Sane(tk, template)
  <2>1. CountNewlines(1, 1 - 1) = 0
    <3>1. \A i \in 1..0 : source[i] # Newline
      OBVIOUS
    <3> QED
      BY <3>1, CountNone
  <2>2. tk.cursor \in 1..tk.last + 1 /\ tk.cursor = template.upto + 1
    BY <1>2, <1>3, <1>4
  <2>3. tk.line = 1 + CountNewlines(1, tk.cursor - 1)
    BY <1>3, <2>1
  <2>4. template.type \notin {"tag", "variable"}
    BY <1>4
  <2>5. tk.last <= Length
    BY <1>2, <1>3
  <2> QED
    BY <1>3, <2>2, <2>3, <2>4, <2>5 DEF Sane
<1>6. Body \in Frames /\ Body.loop = "body"
  BY DEF Body, Frames
<1>7. Len(loops) = 1 /\ loops[1] = Body /\ loops \in Seq(Frames) /\ loops # << >>
  BY <1>4, <1>6
<1>8. LoopsOK(loops, tk)
  <2>1. \A i \in 1..Len(loops) : i = 1
    BY <1>7
  <2>2. \A i \in 1..Len(loops) : loops[i].loop = "body"
    BY <1>6, <1>7, <2>1
  <2>3. 1..Len(loops) - 1 = {}
    BY <1>7
  <2> QED
    BY <1>7, <2>2, <2>3 DEF LoopsOK
<1>9. LiquidsOK(loops, tk, template)
  <2>1. Liquids(loops) = {}
    <3>1. \A i \in 1..Len(loops) : loops[i].loop = "body"
      BY <1>6, <1>7
    <3> QED
      BY <3>1 DEF Liquids
  <2> QED
    BY <1>3, <2>1 DEF LiquidsOK
<1>10. RawOK /\ Whole(token) /\ TrimsAsMarked
  BY <1>3, <1>4 DEF RawOK, Whole, TrimsAsMarked
<1> QED
  BY <1>2, <1>4, <1>5, <1>8, <1>9, <1>10 DEF IInv

-----------------------------------------------------------------------------
(* Nothing that is read from the source changes, as it does not               *)

LEMMA MatchKept ==
    ASSUME source' = source
    PROVE  \A t : Match(t)' = Match(t)
<1> SUFFICES ASSUME NEW t
             PROVE  Match(t)' = Match(t)
  OBVIOUS
<1> QED
  BY DEF Match, ScanBack, Dashed, Text

LEMMA SaneKept ==
    ASSUME source' = source
    PROVE  \A k, p : Sane(k, p)' <=> Sane(k, p)
<1>1. Length' = Length
  BY DEF Length
<1>2. \A a, b : CountNewlines(a, b)' = CountNewlines(a, b)
  BY DEF CountNewlines
<1>3. \A i : EndAt(i)' <=> EndAt(i)
  BY DEF EndAt
<1>4. Tokenizers' = Tokenizers
  BY <1>1 DEF Tokenizers
<1> QED
  BY <1>1, <1>2, <1>3, <1>4 DEF Sane

LEMMA TrimsKept ==
    ASSUME TrimsAsMarked, source' = source, text' = text, tk'.bug = tk.bug
    PROVE  TrimsAsMarked'
<1>1. Length' = Length
  BY DEF Length
<1>2. \A i : DashAt(i)' <=> DashAt(i)
  BY <1>1 DEF DashAt, Holds
<1> QED
  BY <1>1, <1>2 DEF TrimsAsMarked

(* What is to be shown of a step                                            *)
LEMMA StepOK ==
    ASSUME Characters, source' = source, Sane(tk', template'), LoopsOK(loops', tk'),
           LiquidsOK(loops', tk', template'), template'.upto \in Nat, returned' \in BOOLEAN,
           status' \in {"parsing", "raised", "done"},
           status' = "done" => ~tk'.liquid /\ template'.upto = Length,
           tk'.raw # << >> =>
             /\ status' = "parsing" /\ returned' /\ loops'[Len(loops')].loop = "body"
             /\ Match(token').delimiter = <<"e">> /\ tk'.raw[1] <= tk'.raw[2] + 1,
           Whole(token'), TrimsAsMarked'
    PROVE  IInv'
<1>1. Length' = Length
  BY DEF Length
<1>2. Characters'
  BY DEF Characters
<1>3. Sane(tk, template)'
  BY SaneKept
<1>4. Tokenizers' = Tokenizers
  BY <1>1 DEF Tokenizers
<1>5. LoopsOK(loops, tk)'
  BY <1>4 DEF LoopsOK, Frames
<1>6. LiquidsOK(loops, tk, template)'
  <2>1. Liquids(loops)' = Liquids(loops')
    BY DEF Liquids
  <2> QED
    BY <2>1, SaneKept DEF LiquidsOK
<1>7. RawOK'
  <2>1. Match(token)' = Match(token')
    BY MatchKept
  <2>2. loop' = loops'[Len(loops')]
    BY DEF loop
  <2> QED
    BY <2>1, <2>2 DEF RawOK
<1>8. Whole(token)'
  BY <1>1 DEF Whole
<1> QED
  BY <1>1, <1>2, <1>3, <1>5, <1>6, <1>7, <1>8 DEF IInv

-----------------------------------------------------------------------------
(* Every step keeps the invariant                                           *)

IsTok(t) == t = Tok(t.type, t.from, t.to, t.lstrip, t.rstrip)

LEMMA TokenIs ==
    IsTok(Token)
<1>1. \A type, from, to, lstrip, rstrip : IsTok(Tok(type, from, to, lstrip, rstrip))
  BY DEF Tok, IsTok
<1>2. IsTok(LiquidToken)
  BY <1>1 DEF LiquidToken
<1>3. IsTok(NoToken)
  BY <1>1 DEF NoToken
<1>4. IsTok(TemplateToken)
  <2> DEFINE from == tk.cursor
             last == tk.last
             at == ScanStart(from, last)
             dash == Holds(at + 2, last, "-")
             inner == at + IF dash THEN 3 ELSE 2
             tag == source[at + 1] = "%"
             end == IF tag THEN ScanTag(inner, last) ELSE ScanVariable(inner, last)
             done(type, to) == Tok(type, from, to, dash, source[to - 2] = "-")
             braced == IF source[end + 1] = Close THEN done("variable", end + 1)
                       ELSE Tok("invalid", from, end, dash, FALSE)
             ended == IF tag THEN done("tag", end) ELSE braced
             begun == IF end = 0 THEN Tok("invalid", from, from + 1, dash, FALSE) ELSE ended
             some == IF at > from THEN Tok("text", from, at - 1, tk.lstrip, dash) ELSE begun
             t == IF at > last THEN Tok("text", from, last, tk.lstrip, FALSE) ELSE some
  <2>1. TemplateToken = t
    BY DEF TemplateToken
  <2> HIDE DEF from, last, at, dash, tag, end
  <2>2. IsTok(braced)
    BY <1>1
  <2> HIDE DEF braced
  <2>3. IsTok(ended)
    BY <1>1, <2>2
  <2> HIDE DEF ended
  <2>4. IsTok(begun)
    BY <1>1, <2>3
  <2> HIDE DEF begun
  <2>5. IsTok(some)
    BY <1>1, <2>4
  <2> HIDE DEF some
  <2>6. IsTok(t)
    BY <1>1, <2>5
  <2> HIDE DEF t
  <2> QED
    BY <2>1, <2>6
<1> QED
  BY <1>2, <1>3, <1>4 DEF Token

LEMMA ParsingFacts ==
    ASSUME IInv, status = "parsing", ~returned
    PROVE  /\ Characters /\ Sane(tk, template) /\ LoopsOK(loops, tk)
           /\ LiquidsOK(loops, tk, template)
           /\ tk \in Tokenizers /\ tk.raw = << >> /\ tk.cursor >= 1 /\ tk.cursor <= tk.last + 1
           /\ tk.last <= Length /\ template.upto \in Nat /\ Length \in Nat
           /\ loops \in Seq(Frames) /\ loops # << >> /\ loop = loops[Len(loops)]
<1>1. /\ Characters /\ Sane(tk, template) /\ LoopsOK(loops, tk)
      /\ LiquidsOK(loops, tk, template) /\ template.upto \in Nat
  BY DEF IInv
<1>2. tk.raw = << >>
  BY DEF IInv, RawOK
<1>3. tk \in Tokenizers /\ tk.cursor >= 1 /\ tk.cursor <= tk.last + 1 /\ tk.last <= Length
  BY <1>1 DEF Sane, Tokenizers
<1>4. loops \in Seq(Frames) /\ loops # << >>
  BY <1>1 DEF LoopsOK
<1>5. Length \in Nat
  BY <1>1 DEF Characters, Length
<1> QED
  BY <1>1, <1>2, <1>3, <1>4, <1>5 DEF loop

LEMMA ShiftFacts ==
    ASSUME IInv, status = "parsing", ~returned, Token.type # "none", Shifted(Token)
    PROVE  LET x == After(Token)
           IN /\ Sane(x, template') /\ LoopsOK(loops, x) /\ LiquidsOK(loops, x, template')
              /\ x.raw = << >> /\ x.bug = tk.bug /\ x.cursor > tk.cursor
              /\ x.cursor \in Nat
              /\ template' = Reached /\ (tk.liquid => template' = template)
              /\ template'.upto \in Nat /\ Whole(token')
<1> DEFINE x == After(Token)
           t == Token
<1>1. /\ Characters /\ Sane(tk, template) /\ LoopsOK(loops, tk)
      /\ LiquidsOK(loops, tk, template) /\ tk \in Tokenizers /\ tk.raw = << >>
      /\ tk.cursor >= 1 /\ tk.last <= Length /\ template.upto \in Nat
  BY ParsingFacts
<1>2. template' = Reached /\ (tk.liquid => template' = template)
  BY DEF Shifted, Reached
<1>3. /\ Sane(x, Reached) /\ x.cursor > tk.cursor /\ x.raw = << >>
      /\ x.last = tk.last /\ x.liquid = tk.liquid /\ x.bug = tk.bug
  BY <1>1, AfterFacts
<1>4. tk.cursor \in Nat /\ tk.last \in Nat
  BY <1>1 DEF Tokenizers
<1>5. ~tk.liquid => t.from = tk.cursor /\ t.to \in t.from..tk.last
  BY <1>1, TokenFacts DEF TemplateTokenOK
<1>6. template'.upto \in Nat
  <2>1. CASE tk.liquid
    BY <1>1, <1>2, <2>1
  <2>2. CASE ~tk.liquid
    <3>1. template'.upto = t.to
      BY <2>2 DEF Shifted
    <3> QED
      BY <1>4, <1>5, <2>2, <3>1
  <2> QED
    BY <2>1, <2>2
<1>7. Whole(token')
  <2>1. t = Tok(t.type, t.from, t.to, t.lstrip, t.rstrip)
    BY TokenIs DEF IsTok
  <2>2. token' = [t EXCEPT !.type = IF tk.liquid THEN "line" ELSE t.type]
    BY DEF Shifted
  <2> HIDE DEF t
  <2>3. token'.type = (IF tk.liquid THEN "line" ELSE t.type) /\ token'.from = t.from
        /\ token'.to = t.to
    BY <2>1, <2>2 DEF Tok
  <2>4. ~tk.liquid => t.from \in Nat \ {0} /\ t.to \in t.from..Length
    BY <1>1, <1>4, <1>5 DEF Characters, Length
  <2> QED
    BY <2>3, <2>4 DEF Whole
<1>8. x.cursor \in Nat /\ x.cursor >= tk.cursor
  <2>1. x.cursor \in Nat
    BY <1>3 DEF Sane, Tokenizers
  <2> QED
    BY <1>3, <1>4, <2>1
<1>9. LoopsOK(loops, x)
  <2> HIDE DEF x
  <2> QED
    BY <1>1, <1>4, <1>8, LoopsMove
<1>10. LiquidsOK(loops, x, template')
  <2>1. Same(x, tk)
    BY <1>3 DEF Same
  <2> HIDE DEF x
  <2> QED
    BY <1>1, <1>2, <2>1, LiquidsMove
<1> QED
  BY <1>2, <1>3, <1>6, <1>7, <1>8, <1>9, <1>10

Moves == \/ status' # "parsing"
         \/ tk'.cursor > tk.cursor
         \/ tk'.cursor = tk.cursor /\ Pending' < Pending

(* A token is shifted, and the loops and the text are as they were            *)
LEMMA ShiftKeeps ==
    ASSUME IInv, status = "parsing", ~returned, Token.type # "none", tk' = After(Token),
           Shifted(Token), UNCHANGED <<source, loops, text>>, returned' \in BOOLEAN,
           status' \in {"parsing", "raised"}
    PROVE  IInv' /\ Moves
<1>1. Characters /\ Sane(tk, template)
  BY ParsingFacts
<1>2. /\ Sane(tk', template') /\ LoopsOK(loops', tk') /\ LiquidsOK(loops', tk', template')
      /\ tk'.raw = << >> /\ tk'.bug = tk.bug /\ tk'.cursor > tk.cursor
      /\ template'.upto \in Nat /\ Whole(token')
  BY ShiftFacts
<1>3. TrimsAsMarked'
  BY <1>2, TrimsKept DEF IInv
<1>4. IInv'
  <2>1. status' # "done" /\ status' \in {"parsing", "raised", "done"}
    OBVIOUS
  <2> QED
    BY <1>1, <1>2, <1>3, <2>1, StepOK
<1> QED
  BY <1>2, <1>4 DEF Moves

LEMMA InvalidStep == ASSUME IInv, ParseInvalid PROVE IInv' /\ Moves
<1>1. /\ status = "parsing" /\ ~returned /\ Token.type # "none" /\ tk' = After(Token)
      /\ Shifted(Token) /\ UNCHANGED <<source, loops, text>> /\ returned' = returned
      /\ status' = "raised"
  BY DEF ParseInvalid, Shift, Parsing, Raises
<1>2. returned' \in BOOLEAN
  BY <1>1 DEF IInv
<1> QED
  BY <1>1, <1>2, ShiftKeeps

LEMMA VariableStep == ASSUME IInv, ParseVariable PROVE IInv' /\ Moves
<1>1. /\ status = "parsing" /\ ~returned /\ Token.type # "none" /\ tk' = After(Token)
      /\ Shifted(Token) /\ UNCHANGED <<source, loops, text>> /\ returned' = returned
      /\ status' = "parsing"
  BY DEF ParseVariable, Shift, Parsing, Goes
<1>2. returned' \in BOOLEAN
  BY <1>1 DEF IInv
<1> QED
  BY <1>1, <1>2, ShiftKeeps

LEMMA BlankLineStep == ASSUME IInv, SkipBlankLine PROVE IInv' /\ Moves
<1>1. /\ status = "parsing" /\ ~returned /\ Token.type # "none" /\ tk' = After(Token)
      /\ Shifted(Token) /\ UNCHANGED <<source, loops, text>> /\ returned' = returned
      /\ status' = "parsing"
  BY DEF SkipBlankLine, Shift, Parsing, Goes
<1>2. returned' \in BOOLEAN
  BY <1>1 DEF IInv
<1> QED
  BY <1>1, <1>2, ShiftKeeps

LEMMA TagStep == ASSUME IInv, ParseTag PROVE IInv' /\ Moves
<1>1. /\ status = "parsing" /\ ~returned /\ Token.type # "none" /\ tk' = After(Token)
      /\ Shifted(Token) /\ UNCHANGED <<source, loops, text>> /\ returned' \in BOOLEAN
      /\ status' = "parsing"
  BY DEF ParseTag, ShiftTag, Shift, Parsing, Goes
<1> QED
  BY <1>1, ShiftKeeps

(* A token is shifted, and a loop is entered that is no liquid tag            *)
LEMMA ShiftPushes ==
    ASSUME IInv, Parsing, Token.type # "none", tk' = After(Token), Shifted(Token),
           NEW f \in Frames, f.loop # "liquid", f.loop = "raw" => f.from = 0,
           loops' = Push(f), UNCHANGED <<source, status, returned, text>>
    PROVE  IInv' /\ Moves
<1>1. /\ Characters /\ Sane(tk, template) /\ loops \in Seq(Frames) /\ loops # << >>
      /\ status = "parsing" /\ ~returned /\ loops[Len(loops)].loop # "raw"
  BY ParsingFacts DEF Parsing
<1>2. /\ Sane(tk', template') /\ LoopsOK(loops, tk') /\ LiquidsOK(loops, tk', template')
      /\ tk'.raw = << >> /\ tk'.bug = tk.bug /\ tk'.cursor > tk.cursor /\ tk'.cursor \in Nat
      /\ template'.upto \in Nat /\ Whole(token')
  BY <1>1, ShiftFacts
<1>3. LoopsOK(loops', tk')
  BY <1>1, <1>2, LoopsPush DEF Push
<1>4. LiquidsOK(loops', tk', template')
  BY <1>1, <1>2, LiquidsPush DEF Push
<1>5. TrimsAsMarked'
  BY <1>2, TrimsKept DEF IInv
<1>6. IInv'
  <2>1. status' # "done" /\ status' \in {"parsing", "raised", "done"}
    BY <1>1
  <2>2. returned' \in BOOLEAN
    BY DEF IInv
  <2> QED
    BY <1>1, <1>2, <1>3, <1>4, <1>5, <2>1, <2>2, StepOK
<1> QED
  BY <1>2, <1>6 DEF Moves

LEMMA BlockStep == ASSUME IInv, ParseBlock PROVE IInv' /\ Moves
<1>1. /\ Parsing /\ Token.type # "none" /\ tk' = After(Token) /\ Shifted(Token)
      /\ loops' = Push(Body) /\ UNCHANGED <<source, status, returned, text>>
  BY DEF ParseBlock, ShiftTag, Shift, Goes
<1>2. Body \in Frames /\ Body.loop # "liquid" /\ Body.loop # "raw"
  BY DEF Body, Frames
<1> QED
  BY <1>1, <1>2, ShiftPushes

LEMMA RawStep == ASSUME IInv, ParseRaw PROVE IInv' /\ Moves
<1>1. PICK plain \in BOOLEAN :
        /\ Parsing /\ Token.type # "none" /\ tk' = After(Token) /\ Shifted(Token)
        /\ loops' = Push([Body EXCEPT !.loop = "raw", !.plain = plain])
        /\ UNCHANGED <<source, status, returned, text>>
  BY DEF ParseRaw, ShiftTag, Shift, Goes
<1> DEFINE f == [Body EXCEPT !.loop = "raw", !.plain = plain]
<1>2. f \in Frames /\ f.loop # "liquid" /\ f.from = 0
  BY DEF Body, Frames
<1> HIDE DEF f
<1> QED
  BY <1>1, <1>2, ShiftPushes DEF f

(* What text is trimmed to, and what it should be trimmed to                  *)
Trim(t) ==
    LET from == IF t.lstrip THEN ReadWhile(t.from, t.to, Blank) ELSE t.from
        to == IF ~t.rstrip THEN t.to
              ELSE IF ~tk.bug THEN ReadWhileReverse(from, t.to, Blank)
              ELSE IF from > t.to THEN t.to ELSE ReadWhileReverse(from + 1, t.to, Blank)
    IN [from |-> from, to |-> to, token |-> t, after |-> template.type]

Marked(x, bug) ==
    LET t == x.token
        left == x.after \in {"tag", "variable"} /\ source[t.from - 3] = "-"
        filled == {i \in t.from..t.to : source[i] \notin Blank}
        from == IF ~left THEN t.from
                ELSE IF filled = {} THEN t.to + 1 ELSE Min(filled)
        to == IF ~DashAt(t.to + 3) THEN t.to
              ELSE IF filled = {} THEN from - 1 ELSE Max(filled)
    IN /\ x.from = from
       /\ x.to = IF bug /\ filled = {} /\ from <= t.to /\ DashAt(t.to + 3)
                 THEN from ELSE to

LEMMA TrimFacts ==
    ASSUME NEW t, t.from \in Nat, t.to \in Nat, t.from <= t.to,
           t.lstrip <=> template.type \in {"tag", "variable"} /\ source[t.from - 3] = "-",
           t.rstrip <=> DashAt(t.to + 3)
    PROVE  Marked(Trim(t), tk.bug)
<1> DEFINE a == t.from
           b == t.to
           filled == {i \in a..b : source[i] \notin Blank}
           from == IF t.lstrip THEN ReadWhile(a, b, Blank) ELSE a
           to == IF ~t.rstrip THEN b
                 ELSE IF ~tk.bug THEN ReadWhileReverse(from, b, Blank)
                 ELSE IF from > b THEN b ELSE ReadWhileReverse(from + 1, b, Blank)
           from2 == IF ~t.lstrip THEN a ELSE IF filled = {} THEN b + 1 ELSE Min(filled)
           to2 == IF ~t.rstrip THEN b ELSE IF filled = {} THEN from2 - 1 ELSE Max(filled)
<1>1. a \in Nat /\ b \in Nat /\ a <= b
  OBVIOUS
<1>2. /\ from \in a..b + 1 /\ (\A k \in a..from - 1 : source[k] \in Blank)
      /\ t.lstrip /\ from <= b => source[from] \notin Blank
  <2>1. CASE t.lstrip
    <3>1. a <= b + 1
      BY <1>1
    <3> HIDE DEF a, b
    <3> QED
      BY <1>1, <2>1, <3>1, ReadWhileFacts
  <2>2. CASE ~t.lstrip
    <3>1. from = a /\ a..a - 1 = {}
      BY <1>1, <2>2
    <3> HIDE DEF from
    <3> QED
      BY <1>1, <2>2, <3>1
  <2> QED
    BY <2>1, <2>2
<1>3. from2 = from
  <2>1. CASE t.lstrip /\ filled = {}
    <3>1. from = b + 1
      BY <1>1, <1>2, <2>1
    <3> QED
      BY <2>1, <3>1
  <2>2. CASE t.lstrip /\ filled # {}
    <3> HIDE DEF from
    <3>1. filled \subseteq Nat
      BY <1>1
    <3>2. \A i \in filled : from <= i
      BY <1>1, <1>2
    <3>3. from \in filled
      <4>1. from <= b
        BY <1>1, <1>2, <2>2, <3>2
      <4> QED
        BY <1>1, <1>2, <2>2, <4>1
    <3> HIDE DEF filled
    <3>4. Min(filled) = from
      BY <3>1, <3>2, <3>3, MinIs
    <3> QED
      BY <2>2, <3>4
  <2> QED
    BY <2>1, <2>2
<1> HIDE DEF from, from2
<1>4. ASSUME NEW r \in from - 1..b, \A k \in r + 1..b : source[k] \in Blank,
             filled # {}, r >= from => source[r] \notin Blank \/ r = from
      PROVE  Max(filled) = r
  <2>1. filled \subseteq Int /\ \A i \in filled : i >= from /\ i <= r
    BY <1>1, <1>2, <1>4
  <2>2. r \in filled
    <3>1. PICK i \in filled : TRUE
      BY <1>4
    <3>2. i >= from /\ i <= r /\ i \in a..b /\ source[i] \notin Blank
      BY <2>1
    <3>3. source[r] \notin Blank
      <4>1. r = from => i = r
        BY <1>1, <1>2, <3>2
      <4>2. r >= from
        BY <1>1, <1>2, <3>2
      <4> QED
        BY <1>4, <3>2, <4>1, <4>2
    <3> QED
      BY <1>1, <1>2, <3>2, <3>3
  <2> HIDE DEF filled
  <2> QED
    BY <2>1, <2>2, MaxIs
<1>5. to = IF tk.bug /\ filled = {} /\ from <= b /\ t.rstrip THEN from ELSE to2
  <2>0. from \in Int /\ from <= b + 1 /\ from >= a
    BY <1>1, <1>2
  <2>1. CASE ~t.rstrip
    BY <2>1
  <2>2. CASE t.rstrip /\ ~tk.bug
    <3> DEFINE r == ReadWhileReverse(from, b, Blank)
    <3>1. /\ r \in from - 1..b
          /\ \A k \in r + 1..b : source[k] \in Blank
          /\ r >= from => source[r] \notin Blank
      BY <1>1, <2>0, ReadWhileReverseFacts
    <3>2. to = r
      BY <2>2
    <3> HIDE DEF r, to
    <3>3. CASE filled = {}
      <4>1. r = from - 1
        <5>1. r >= from => r \in filled
          BY <1>1, <2>0, <3>1
        <5> QED
          BY <2>0, <3>1, <3>3, <5>1
      <4> QED
        BY <1>3, <2>2, <3>2, <3>3, <4>1
    <3>4. CASE filled # {}
      <4>1. Max(filled) = r
        BY <1>4, <3>1, <3>4
      <4> QED
        BY <2>2, <3>2, <3>4, <4>1
    <3> QED
      BY <3>3, <3>4
  <2>3. CASE t.rstrip /\ tk.bug /\ from > b
    <3>1. from = b + 1 /\ filled = {} /\ ~(from <= b) /\ from - 1 = b
      BY <1>1, <1>2, <2>3
    <3> QED
      BY <1>3, <2>3, <3>1
  <2>4. CASE t.rstrip /\ tk.bug /\ ~(from > b)
    <3> DEFINE r == ReadWhileReverse(from + 1, b, Blank)
    <3>0. from <= b /\ from + 1 \in Int /\ from + 1 <= b + 1 /\ (from + 1) - 1 = from
      BY <1>1, <2>0, <2>4
    <3>1. /\ r \in from..b
          /\ \A k \in r + 1..b : source[k] \in Blank
          /\ r >= from + 1 => source[r] \notin Blank
      <4>1. /\ r \in (from + 1) - 1..b
            /\ \A k \in r + 1..b : source[k] \in Blank
            /\ r >= from + 1 => source[r] \notin Blank
        BY <1>1, <3>0, ReadWhileReverseFacts
      <4> HIDE DEF r
      <4> QED
        BY <3>0, <4>1
    <3>2. to = r
      BY <2>4
    <3> HIDE DEF r, to
    <3>3. CASE filled = {}
      <4>1. r = from
        <5>1. r >= from + 1 => r \in filled
          BY <1>1, <2>0, <3>1
        <5> QED
          BY <2>0, <3>1, <3>3, <5>1
      <4> QED
        BY <2>4, <3>0, <3>2, <3>3, <4>1
    <3>4. CASE filled # {}
      <4>1. Max(filled) = r
        <5>1. r \in from - 1..b /\ (r >= from => r >= from + 1 \/ r = from)
          BY <1>1, <2>0, <3>1
        <5> QED
          BY <1>4, <3>1, <3>4, <5>1
      <4> QED
        BY <2>4, <3>2, <3>4, <4>1
    <3> QED
      BY <3>3, <3>4
  <2> QED
    BY <2>1, <2>2, <2>3, <2>4
<1>6. Trim(t) = [from |-> from, to |-> to, token |-> t, after |-> template.type]
  BY DEF Trim, from
<1> HIDE DEF to
<1>7. Trim(t).token = t /\ Trim(t).after = template.type /\ Trim(t).from = from /\ Trim(t).to = to
  BY <1>6
<1> QED
  BY <1>3, <1>5, <1>7 DEF Marked, from2

LEMMA TextStep == ASSUME IInv, ParseText PROVE IInv' /\ Moves
<1>1. /\ status = "parsing" /\ ~returned /\ Token.type = "text" /\ tk' = After(Token)
      /\ Shifted(Token) /\ UNCHANGED <<source, loops>> /\ returned' = returned
      /\ status' = "parsing" /\ text' = Trim(Token)
  BY DEF ParseText, Shift, Parsing, Goes, Trim
<1>2. /\ Characters /\ Sane(tk, template) /\ tk \in Tokenizers
  BY <1>1, ParsingFacts
<1>3. /\ Sane(tk', template') /\ LoopsOK(loops', tk') /\ LiquidsOK(loops', tk', template')
      /\ tk'.raw = << >> /\ tk'.bug = tk.bug /\ tk'.cursor > tk.cursor
      /\ template'.upto \in Nat /\ Whole(token')
  BY <1>1, ShiftFacts
<1>4. ~tk.liquid /\ TemplateTokenOK(Token)
  <2>1. ~tk.liquid
    BY <1>1, <1>2, TokenFacts DEF LineTokenOK
  <2> QED
    BY <1>1, <1>2, <2>1, TokenFacts
<1>5. Marked(Trim(Token), tk.bug)
  <2> DEFINE t == Token
  <2>1. /\ t.from = tk.cursor /\ t.to \in t.from..tk.last
        /\ t.lstrip = tk.lstrip /\ (t.rstrip <=> Holds(t.to + 3, tk.last, "-"))
    BY <1>1, <1>4 DEF TemplateTokenOK
  <2>2. /\ tk.last = Length /\ tk.cursor = template.upto + 1
        /\ tk.lstrip <=> template.type \in {"tag", "variable"} /\ source[template.upto - 2] = "-"
    BY <1>2, <1>4 DEF Sane
  <2>3. template.upto \in Nat /\ tk.last \in Nat
    BY <1>2 DEF IInv, Tokenizers
  <2> HIDE DEF t
  <2>4. t.from \in Nat /\ t.to \in Nat /\ t.from <= t.to /\ t.from - 3 = template.upto - 2
    BY <2>1, <2>2, <2>3
  <2>5. t.rstrip <=> DashAt(t.to + 3)
    BY <2>1, <2>2 DEF DashAt
  <2>6. t.lstrip <=> template.type \in {"tag", "variable"} /\ source[t.from - 3] = "-"
    BY <2>1, <2>2, <2>4
  <2>7. Marked(Trim(t), tk.bug)
    BY <2>4, <2>5, <2>6, TrimFacts
  <2> QED
    BY <2>7 DEF t
<1>6. TrimsAsMarked'
  <2>1. Length' = Length
    BY <1>1 DEF Length
  <2>2. \A i : DashAt(i)' <=> DashAt(i)
    BY <1>1, <2>1 DEF DashAt, Holds
  <2>3. Marked(text', tk'.bug)
    BY <1>1, <1>3, <1>5
  <2>4. source' = source
    BY <1>1
  <2> QED
    BY <2>2, <2>3, <2>4 DEF TrimsAsMarked, Marked
<1>7. IInv'
  <2>1. status' # "done" /\ status' \in {"parsing", "raised", "done"} /\ source' = source
    BY <1>1
  <2>2. returned' \in BOOLEAN
    BY <1>1 DEF IInv
  <2> QED
    BY <1>2, <1>3, <1>6, <2>1, <2>2, StepOK
<1> QED
  BY <1>3, <1>7 DEF Moves

LEMMA LiquidStep == ASSUME IInv, ParseLiquid PROVE IInv' /\ Moves
<1> DEFINE y == After(Token)
           f == [Body EXCEPT !.loop = "liquid", !.saved = y]
<1>1. /\ Parsing /\ status = "parsing" /\ ~returned /\ Token.type = "tag" /\ Name(Token) = <<"l">>
      /\ Shifted(Token) /\ UNCHANGED <<source, status, text>> /\ returned' = returned
      /\ tk' = Inside /\ loops' = Push(f)
  BY DEF ParseLiquid, Parsing, Goes, Inside, Markup
<1>2. /\ Characters /\ Sane(tk, template) /\ tk \in Tokenizers /\ tk.raw = << >>
      /\ loops \in Seq(Frames) /\ loops # << >> /\ loops[Len(loops)].loop # "raw"
      /\ LoopsOK(loops, tk) /\ LiquidsOK(loops, tk, template)
  BY <1>1, ParsingFacts DEF Parsing
<1>3. /\ Sane(y, template') /\ y.raw = << >> /\ y.bug = tk.bug
      /\ (tk.liquid => template' = template) /\ template'.upto \in Nat /\ Whole(token')
  BY <1>1, ShiftFacts
<1>4. y.cursor > Token.to /\ y.last = tk.last /\ y.liquid = tk.liquid
  BY <1>1, <1>2, AfterFacts
<1>5. /\ Sane(tk', template') /\ tk'.liquid /\ tk'.bug = tk.bug /\ tk'.raw = << >>
      /\ tk'.cursor > tk.cursor /\ tk'.last <= Token.to /\ tk'.last <= tk.last
  BY <1>1, <1>2, InsideFacts
<1> HIDE DEF y
<1>6. f \in Frames /\ f.loop = "liquid" /\ f.saved = y
  <2>1. y \in Tokenizers
    BY <1>3 DEF Sane
  <2> QED
    BY <2>1 DEF Body, Frames
<1> HIDE DEF f
<1>7. /\ tk.cursor \in Nat /\ tk.last \in Nat /\ tk'.cursor \in Nat /\ tk'.last \in Nat
      /\ y.cursor \in Nat
  BY <1>2, <1>3, <1>5 DEF Sane, Tokenizers
<1>8. Token.to \in Int
  <2>1. Token.to \in Token.from..tk.last
    BY <1>1, <1>2, TrimmedFacts
  <2> QED
    BY <2>1
<1>9. LoopsOK(loops', tk')
  <2>1. LoopsOK(loops, tk')
    <3>1. tk'.cursor >= tk.cursor
      BY <1>5, <1>7
    <3> QED
      BY <1>2, <1>7, <3>1, LoopsMove
  <2>2. f.loop # "raw"
    BY <1>6
  <2> QED
    BY <1>1, <1>2, <1>6, <1>7, <2>1, <2>2, LoopsPush DEF Push
<1>10. LiquidsOK(loops', tk', template')
  <2>1. f.saved.cursor > tk'.last
    BY <1>4, <1>5, <1>6, <1>7, <1>8
  <2>2. Same(f.saved, tk)
    BY <1>3, <1>4, <1>6 DEF Same
  <2>3. Sane(f.saved, template') /\ f.saved.raw = << >>
    BY <1>3, <1>6
  <2> QED
    BY <1>1, <1>2, <1>3, <1>5, <1>6, <1>7, <2>1, <2>2, <2>3, LiquidsEnter DEF Push
<1>11. TrimsAsMarked'
  BY <1>1, <1>5, TrimsKept DEF IInv
<1>12. IInv'
  <2>1. status' # "done" /\ status' \in {"parsing", "raised", "done"} /\ source' = source
    BY <1>1
  <2>2. returned' \in BOOLEAN
    BY <1>1 DEF IInv
  <2> QED
    BY <1>2, <1>3, <1>5, <1>9, <1>10, <1>11, <2>1, <2>2, StepOK
<1> QED
  BY <1>5, <1>12 DEF Moves

LEMMA UnknownStep == ASSUME IInv, ParseUnknown PROVE IInv' /\ Moves
<1>1. /\ status = "parsing" /\ ~returned /\ Token.type # "none" /\ tk' = After(Token)
      /\ Shifted(Token) /\ UNCHANGED <<source, text>>
  BY DEF ParseUnknown, Shift, Parsing, Goes, Raises
<1>2. CASE /\ loops' = Outer /\ returned' = TRUE /\ status' = status
           /\ loop.loop = "body" /\ Len(loops) > 1
  <2>1. /\ Characters /\ loops \in Seq(Frames) /\ loops # << >> /\ loops[Len(loops)].loop = "body"
    BY <1>1, <1>2, ParsingFacts
  <2>2. /\ Sane(tk', template') /\ LoopsOK(loops, tk') /\ LiquidsOK(loops, tk', template')
        /\ tk'.raw = << >> /\ tk'.bug = tk.bug /\ tk'.cursor > tk.cursor
        /\ template'.upto \in Nat /\ Whole(token')
    BY <1>1, ShiftFacts
  <2>3. LoopsOK(loops', tk')
    BY <1>2, <2>2, LoopsPop DEF Outer
  <2>4. LiquidsOK(loops', tk', template')
    <3>1. loops[Len(loops)].loop # "liquid"
      BY <2>1
    <3> QED
      BY <1>2, <2>1, <2>2, <3>1, LiquidsPop DEF Outer
  <2>5. TrimsAsMarked'
    BY <1>1, <2>2, TrimsKept DEF IInv
  <2>6. IInv'
    <3>1. /\ status' # "done" /\ status' \in {"parsing", "raised", "done"}
          /\ source' = source /\ returned' \in BOOLEAN
      BY <1>1, <1>2
    <3> QED
      BY <2>1, <2>2, <2>3, <2>4, <2>5, <3>1, StepOK
  <2> QED
    BY <2>2, <2>6 DEF Moves
<1>3. CASE Raises
  <2>1. returned' \in BOOLEAN /\ status' = "raised" /\ loops' = loops
    BY <1>3 DEF Raises, IInv
  <2> QED
    BY <1>1, <2>1, ShiftKeeps
<1> QED
  BY <1>2, <1>3 DEF ParseUnknown, Goes

LEMMA EndStep == ASSUME IInv, EndOfTokens PROVE IInv' /\ Moves
<1>1. /\ Parsing /\ status = "parsing" /\ ~returned /\ Token.type = "none"
      /\ UNCHANGED <<source, returned, token, template, text>>
  BY DEF EndOfTokens, Parsing
<1>2. /\ Characters /\ Sane(tk, template) /\ tk \in Tokenizers /\ tk.raw = << >>
      /\ loops \in Seq(Frames) /\ loops # << >> /\ loop = loops[Len(loops)]
      /\ LoopsOK(loops, tk) /\ LiquidsOK(loops, tk, template) /\ template.upto \in Nat
  BY <1>1, ParsingFacts
<1>3. Whole(token') /\ template'.upto \in Nat /\ template' = template /\ returned' \in BOOLEAN
      /\ source' = source
  BY <1>1 DEF IInv
<1>4. tk.cursor = tk.last + 1 /\ tk.cursor \in Nat /\ tk.last \in Nat
  <2>1. tk.cursor = tk.last + 1
    BY <1>1, <1>2, NoTokenFacts
  <2> QED
    BY <1>2, <2>1 DEF Tokenizers
<1>5. CASE loop.loop = "liquid"
  <2> DEFINE y == loops[Len(loops)].saved
  <2>1. tk' = y /\ loops' = Outer /\ status' = status
    BY <1>2, <1>5 DEF EndOfTokens
  <2>2. /\ LiquidsOK(Outer, y, template)
        /\ Sane(y, template) /\ y.raw = << >> /\ y.bug = tk.bug /\ y.cursor > tk.last
    BY <1>2, <1>5, LiquidsLeave DEF Outer
  <2>3. loops[Len(loops)].loop # "body"
    BY <1>2, <1>5
  <2> HIDE DEF y
  <2>4. y.cursor \in Nat /\ y.cursor >= tk.cursor
    <3>1. y.cursor \in Nat
      BY <2>2 DEF Sane, Tokenizers
    <3> QED
      BY <1>4, <2>2, <3>1
  <2>5. /\ LoopsOK(Outer, tk) /\ Len(Outer) = Len(loops) - 1
    BY <1>2, <2>3, LoopsPop DEF Outer
  <2>6. LoopsOK(Outer, y)
    BY <1>4, <2>4, <2>5, LoopsMove
  <2>7. TrimsAsMarked'
    BY <1>1, <2>1, <2>2, TrimsKept DEF IInv
  <2>8. IInv'
    <3>1. status' # "done" /\ status' \in {"parsing", "raised", "done"}
      BY <1>1, <2>1
    <3>2. /\ Sane(tk', template') /\ LoopsOK(loops', tk') /\ LiquidsOK(loops', tk', template')
          /\ tk'.raw = << >>
      BY <1>3, <2>1, <2>2, <2>6
    <3> QED
      BY <1>2, <1>3, <2>7, <3>1, <3>2, StepOK
  <2>9. Moves
    <3>1. Len(loops') = Len(loops) - 1 /\ Len(loops) \in Nat /\ tk'.cursor = y.cursor
      BY <1>2, <2>1, <2>5
    <3>2. Pending' < Pending
      <4>1. returned' = returned
        BY <1>1
      <4> QED
        BY <3>1, <4>1 DEF Pending
    <3>3. tk'.cursor > tk.cursor \/ tk'.cursor = tk.cursor
      BY <1>4, <2>4, <3>1
    <3> QED
      BY <3>2, <3>3 DEF Moves
  <2> QED
    BY <2>8, <2>9
<1>6. CASE loop.loop # "liquid"
  <2>1. /\ tk' = tk /\ loops' = loops
        /\ status' = IF Len(loops) = 1 THEN "done" ELSE "raised"
    BY <1>6 DEF EndOfTokens
  <2>2. TrimsAsMarked'
    BY <1>1, <2>1, TrimsKept DEF IInv
  <2>3. status' = "done" => ~tk'.liquid /\ template'.upto = Length
    <3> SUFFICES ASSUME Len(loops) = 1
                 PROVE  ~tk.liquid /\ template.upto = Length
      BY <1>3, <2>1
    <3>1. Liquids(loops) = {}
      BY <1>2, <1>6 DEF Liquids
    <3>2. ~tk.liquid
      BY <1>2, <3>1 DEF LiquidsOK
    <3>3. tk.last = Length /\ tk.cursor = template.upto + 1
      BY <1>2, <3>2 DEF Sane
    <3> QED
      BY <1>2, <1>4, <3>2, <3>3
  <2>4. status' \in {"done", "raised"}
    BY <2>1
  <2>5. IInv'
    <3>1. /\ Sane(tk', template') /\ LoopsOK(loops', tk') /\ LiquidsOK(loops', tk', template')
          /\ tk'.raw = << >>
      BY <1>2, <1>3, <2>1
    <3>2. status' \in {"parsing", "raised", "done"}
      BY <2>4
    <3> QED
      BY <1>2, <1>3, <2>2, <2>3, <3>1, <3>2, StepOK
  <2> QED
    BY <2>4, <2>5 DEF Moves
<1> QED
  BY <1>5, <1>6

(* Only the frame of a raw tag changes                                      *)
LEMMA RawFrame ==
    ASSUME NEW s, NEW k, NEW p, LoopsOK(s, k), LiquidsOK(s, k, p), s[Len(s)].loop = "raw",
           NEW v \in Nat, v <= k.cursor
    PROVE  LET t == [s EXCEPT ![Len(s)].from = v] IN LoopsOK(t, k) /\ LiquidsOK(t, k, p)
<1> DEFINE n == Len(s)
           f == [s[n] EXCEPT !.from = v]
           t == [s EXCEPT ![n] = f]
<1>1. s \in Seq(Frames) /\ s # << >> /\ n \in Nat /\ n \in 1..n /\ s[n] \in Frames
  BY DEF LoopsOK
<1>2. f \in Frames /\ f.loop = "raw" /\ f.from = v
  BY <1>1 DEF Frames
<1> HIDE DEF f
<1>3. /\ t \in Seq(Frames) /\ Len(t) = n /\ t[n] = f
      /\ \A i \in 1..n : i # n => t[i] = s[i]
  BY <1>1, <1>2
<1>4. [s EXCEPT ![Len(s)].from = v] = t
  BY <1>1 DEF f
<1> HIDE DEF t, n
<1>5. LoopsOK(t, k)
  <2>1. t # << >> /\ t[1] = Body
    <3>1. 1 # n
      BY DEF LoopsOK, Body, n
    <3> QED
      BY <1>1, <1>3, <3>1 DEF LoopsOK
  <2>2. \A i \in 1..Len(t) - 1 : t[i].loop # "raw"
    <3>1. \A i \in 1..n - 1 : i \in 1..n /\ i # n
      BY <1>1
    <3> QED
      BY <1>3, <3>1 DEF LoopsOK, n
  <2>3. \A i \in 1..Len(t) : t[i].loop = "raw" => t[i].from <= k.cursor
    BY <1>2, <1>3 DEF LoopsOK, n
  <2> QED
    BY <1>3, <2>1, <2>2, <2>3 DEF LoopsOK
<1>6. LiquidsOK(t, k, p)
  <2>1. Liquids(t) = Liquids(s) /\ \A i \in Liquids(s) : t[i] = s[i]
    BY <1>2, <1>3 DEF Liquids, n
  <2> QED
    BY <2>1 DEF LiquidsOK
<1> QED
  BY <1>4, <1>5, <1>6 DEF n

LEMMA FinishStep == ASSUME IInv, FinishTag PROVE IInv' /\ Moves
<1>1. /\ status = "parsing" /\ returned /\ returned' = FALSE /\ tk' = [tk EXCEPT !.raw = << >>]
      /\ UNCHANGED <<source, loops, status, token, template, text>>
  BY DEF FinishTag
<1>2. /\ Characters /\ Sane(tk, template) /\ LoopsOK(loops, tk)
      /\ LiquidsOK(loops, tk, template) /\ template.upto \in Nat /\ Whole(token)
      /\ tk \in Tokenizers
  BY DEF IInv, Sane
<1>3. /\ tk' \in Tokenizers /\ tk'.raw = << >> /\ tk'.cursor = tk.cursor /\ tk'.last = tk.last
      /\ tk'.line = tk.line /\ tk'.lstrip = tk.lstrip /\ tk'.liquid = tk.liquid /\ tk'.bug = tk.bug
  BY <1>1, <1>2 DEF Tokenizers
<1>4. Sane(tk', template')
  <2>1. template' = template
    BY <1>1
  <2> QED
    BY <1>2, <1>3, <2>1 DEF Sane
<1>5. LoopsOK(loops', tk')
  <2>1. loops' = loops
    BY <1>1
  <2> QED
    BY <1>2, <1>3, <2>1 DEF LoopsOK
<1>6. LiquidsOK(loops', tk', template')
  <2>1. loops' = loops /\ template' = template
    BY <1>1
  <2>2. Same(tk', tk)
    BY <1>3 DEF Same
  <2> QED
    BY <1>2, <2>1, <2>2, LiquidsMove
<1>7. TrimsAsMarked'
  BY <1>1, <1>3, TrimsKept DEF IInv
<1>8. IInv'
  <2>1. /\ status' # "done" /\ status' \in {"parsing", "raised", "done"} /\ source' = source
        /\ returned' \in BOOLEAN /\ template'.upto \in Nat /\ Whole(token')
    BY <1>1, <1>2
  <2> QED
    BY <1>2, <1>3, <1>4, <1>5, <1>6, <1>7, <2>1, StepOK
<1>9. Pending' < Pending
  <2>1. Len(loops') = Len(loops) /\ Len(loops) \in Nat
    BY <1>1, <1>2 DEF LoopsOK
  <2> QED
    BY <1>1, <2>1 DEF Pending
<1> QED
  BY <1>3, <1>8, <1>9 DEF Moves

(* The end of a raw tag is never found in a line of a liquid tag: it would      *)
(* have ended the liquid tag                                               *)
LEMMA NoRawEndInLiquid ==
    ASSUME Characters, Sane(tk, template), Token.type # "none",
           Match(Token).delimiter = <<"e">>
    PROVE  ~tk.liquid
<1> SUFFICES ASSUME tk.liquid
             PROVE  FALSE
  OBVIOUS
<1> DEFINE t == Token
<1>1. t.from = tk.cursor /\ t.to = LineEnd - 1 /\ LineEnd \in tk.cursor..tk.last + 1
  BY TokenFacts DEF LineTokenOK
<1>2. tk.cursor \in Nat /\ tk.last \in Nat /\ tk.last <= Length /\ tk.cursor >= 1 /\ Length \in Nat
  BY DEF Sane, Tokenizers, Characters, Length
<1>3. ~(t.to - t.from < 4)
  BY DEF Match, NoMatch
<1> HIDE DEF t
<1>4. t.from \in Nat \ {0} /\ t.to \in t.from..Length
  BY <1>1, <1>2, <1>3
<1>5. EndAt(t.to - 1)
  BY <1>4, MatchFacts DEF t
<1>6. t.to - 1 \in tk.cursor..tk.last - 1
  BY <1>1, <1>2, <1>3, <1>4
<1> QED
  BY <1>5, <1>6 DEF Sane

LEMMA ShiftRawStep == ASSUME IInv, ShiftRaw PROVE IInv' /\ Moves
<1> DEFINE t == Token
           n == Len(loops)
           from == IF loop.from = 0 THEN t.from ELSE loop.from
<1>1. status = "parsing" /\ ~returned /\ loop.loop = "raw" /\ source' = source /\ text' = text
  BY DEF ShiftRaw, Raises, Goes
<1>2. /\ Characters /\ Sane(tk, template) /\ tk \in Tokenizers /\ tk.raw = << >>
      /\ loops \in Seq(Frames) /\ loops # << >> /\ loop = loops[n]
      /\ LoopsOK(loops, tk) /\ LiquidsOK(loops, tk, template) /\ template.upto \in Nat
      /\ Length \in Nat
  BY <1>1, ParsingFacts
<1>3. CASE t.type = "none"
  <2>1. Raises /\ UNCHANGED <<tk, token, template>>
    BY <1>3 DEF ShiftRaw
  <2>2. /\ status' = "raised" /\ loops' = loops /\ returned' = returned /\ tk' = tk
        /\ token' = token /\ template' = template
    BY <2>1 DEF Raises
  <2>3. TrimsAsMarked'
    BY <1>1, <2>2, TrimsKept DEF IInv
  <2>4. IInv'
    <3>1. /\ Sane(tk', template') /\ LoopsOK(loops', tk') /\ LiquidsOK(loops', tk', template')
          /\ tk'.raw = << >> /\ template'.upto \in Nat
      BY <1>2, <2>2
    <3>2. returned' \in BOOLEAN /\ Whole(token')
      BY <2>2 DEF IInv
    <3>3. status' \in {"parsing", "raised", "done"} /\ status' # "done"
      BY <2>2
    <3> QED
      BY <1>1, <1>2, <2>3, <3>1, <3>2, <3>3, StepOK
  <2> QED
    BY <2>2, <2>4 DEF Moves
<1>4. CASE t.type # "none"
  <2>1. Shifted(t) /\ status' = status
    BY <1>4 DEF ShiftRaw, Goes
  <2> DEFINE x == After(t)
  <2>2. /\ Sane(x, template') /\ LoopsOK(loops, x) /\ LiquidsOK(loops, x, template')
        /\ x.raw = << >> /\ x.bug = tk.bug /\ x.cursor > tk.cursor /\ x.cursor \in Nat
        /\ template'.upto \in Nat /\ Whole(token')
    BY <1>1, <1>4, <2>1, ShiftFacts
  <2>3. tk.cursor \in Nat /\ tk.cursor >= 1 /\ t.from = tk.cursor
    <3>1. t.from = tk.cursor
      BY <1>2, <1>4, TokenFacts DEF LineTokenOK, TemplateTokenOK
    <3>2. tk.cursor \in Nat /\ tk.cursor >= 1
      BY <1>2 DEF Sane, Tokenizers
    <3> QED
      BY <3>1, <3>2
  <2>4. from \in Nat /\ from <= tk.cursor
    <3>1. loops[n] \in Frames /\ n \in 1..n
      BY <1>2
    <3>2. loop.from \in Nat
      BY <1>2, <3>1 DEF Frames
    <3>3. loop.from <= tk.cursor
      BY <1>1, <1>2, <3>1 DEF LoopsOK
    <3> QED
      BY <2>3, <3>2, <3>3
  <2> HIDE DEF from
  <2>5. CASE Match(t).delimiter = <<"e">>
    <3> DEFINE body == Match(t).body
               raw == IF loop.plain THEN << >> ELSE <<from, body>>
    <3>1. tk' = [x EXCEPT !.raw = raw] /\ loops' = Outer /\ returned' = TRUE
      BY <1>4, <2>5 DEF ShiftRaw, from
    <3>2. ~tk.liquid
      BY <1>2, <1>4, <2>5, NoRawEndInLiquid
    <3>3. t.from \in Nat \ {0} /\ t.to \in t.from..Length
      <4>1. t.to \in t.from..tk.last /\ tk.last \in Nat /\ tk.last <= Length
        BY <1>2, <1>4, <3>2, TokenFacts DEF TemplateTokenOK, Sane, Tokenizers
      <4> QED
        BY <1>2, <2>3, <4>1
    <3>4. body \in t.from - 1..t.to - 5 /\ t.to - t.from >= 4
      BY <1>2, <2>5, <3>3, MatchFacts
    <3> HIDE DEF x, body
    <3>5. \/ raw = << >>
          \/ /\ raw = <<from, body>> /\ from \in 0..Length /\ body \in 0..Length
             /\ from <= body + 1
      <4>1. from \in 0..Length /\ body \in 0..Length /\ from <= body + 1
        BY <1>2, <2>3, <2>4, <3>3, <3>4
      <4> QED
        BY <4>1
    <3>6. raw \in {<< >>} \cup Seq(0..Length) /\ (raw # << >> => raw[1] <= raw[2] + 1)
      <4>1. CASE raw = << >>
        BY <4>1
      <4>2. CASE raw = <<from, body>> /\ from \in 0..Length /\ body \in 0..Length
                 /\ from <= body + 1
        <5>1. raw \in Seq(0..Length)
          <6>1. \A S : \A c, d \in S : <<c, d>> \in Seq(S)
            OBVIOUS
          <6> QED
            BY <4>2, <6>1
        <5>2. raw[1] = from /\ raw[2] = body
          BY <4>2
        <5> HIDE DEF raw
        <5> QED
          BY <4>2, <5>1, <5>2
      <4> QED
        BY <3>5, <4>1, <4>2
    <3> HIDE DEF raw
    <3>7. x \in Tokenizers
      BY <2>2 DEF Sane
    <3>8. /\ tk' \in Tokenizers /\ tk'.raw = raw /\ tk'.cursor = x.cursor /\ tk'.last = x.last
          /\ tk'.line = x.line /\ tk'.lstrip = x.lstrip /\ tk'.liquid = x.liquid /\ tk'.bug = x.bug
      BY <3>1, <3>6, <3>7 DEF Tokenizers
    <3>9. Sane(tk', template')
      BY <2>2, <3>8 DEF Sane
    <3>10. /\ LoopsOK(Outer, x) /\ Outer[Len(Outer)].loop # "raw" /\ Len(Outer) \in Nat \ {0}
           /\ Len(Outer) = n - 1 /\ \A i \in 1..Len(Outer) : Outer[i] = loops[i]
      <4>1. loops[Len(loops)].loop # "body"
        BY <1>1, <1>2
      <4> QED
        BY <2>2, <4>1, LoopsPop DEF Outer
    <3>11. LoopsOK(loops', tk')
      BY <3>1, <3>8, <3>10 DEF LoopsOK
    <3>12. LiquidsOK(loops', tk', template')
      <4>1. LiquidsOK(Outer, x, template')
        <5>1. loops[Len(loops)].loop # "liquid"
          BY <1>1, <1>2
        <5> QED
          BY <1>2, <2>2, <5>1, LiquidsPop DEF Outer
      <4>2. Same(tk', x)
        BY <3>8 DEF Same
      <4> QED
        BY <3>1, <4>1, <4>2, LiquidsMove
    <3>13. loops'[Len(loops')].loop = "body"
      <4> DEFINE m == Len(Outer)
      <4>1. m \in 1..m /\ m \in 1..Len(loops)
        BY <1>2, <3>10
      <4>2. loops[m] \in Frames /\ Outer[m] = loops[m]
        BY <1>2, <3>10, <4>1
      <4>3. loops[m].loop # "liquid"
        <5>1. Liquids(loops) = {}
          BY <1>2, <3>2 DEF LiquidsOK
        <5> QED
          BY <4>1, <5>1 DEF Liquids
      <4> QED
        BY <3>1, <3>10, <4>2, <4>3 DEF Frames
    <3>14. token' = t
      <4>1. token' = [t EXCEPT !.type = t.type]
        BY <2>1, <3>2 DEF Shifted
      <4>2. t = Tok(t.type, t.from, t.to, t.lstrip, t.rstrip)
        BY TokenIs DEF IsTok
      <4> HIDE DEF t
      <4> QED
        BY <4>1, <4>2 DEF Tok
    <3>15. Match(token').delimiter = <<"e">>
      BY <2>5, <3>14
    <3>16. TrimsAsMarked'
      BY <1>1, <2>2, <3>8, TrimsKept DEF IInv
    <3>17. IInv'
      <4>1. tk'.raw # << >> =>
              /\ status' = "parsing" /\ returned' /\ loops'[Len(loops')].loop = "body"
              /\ Match(token').delimiter = <<"e">> /\ tk'.raw[1] <= tk'.raw[2] + 1
        BY <1>1, <2>1, <3>1, <3>6, <3>8, <3>13, <3>15
      <4>2. status' \in {"parsing", "raised", "done"} /\ status' # "done" /\ returned' \in BOOLEAN
        BY <1>1, <2>1, <3>1
      <4> QED
        BY <1>1, <1>2, <2>2, <3>9, <3>11, <3>12, <3>16, <4>1, <4>2, StepOK
    <3>18. tk'.cursor > tk.cursor
      BY <2>2, <3>8
    <3> QED
      BY <3>17, <3>18 DEF Moves
  <2>6. CASE Match(t).delimiter # <<"e">>
    <3>1. tk' = x /\ returned' = returned /\ loops' = [loops EXCEPT ![n].from = from]
      BY <1>4, <2>6 DEF ShiftRaw, from
    <3> HIDE DEF x
    <3>2. LoopsOK(loops', tk') /\ LiquidsOK(loops', tk', template')
      <4>1. from <= x.cursor
        BY <2>2, <2>3, <2>4
      <4>2. loops[Len(loops)].loop = "raw"
        BY <1>1, <1>2
      <4> QED
        BY <2>2, <2>4, <3>1, <4>1, <4>2, RawFrame
    <3>3. TrimsAsMarked'
      BY <1>1, <2>2, <3>1, TrimsKept DEF IInv
    <3>4. IInv'
      <4>1. status' \in {"parsing", "raised", "done"} /\ status' # "done"
        BY <1>1, <2>1
      <4>2. returned' \in BOOLEAN
        BY <3>1 DEF IInv
      <4>3. Sane(tk', template') /\ tk'.raw = << >>
        BY <2>2, <3>1
      <4> QED
        BY <1>1, <1>2, <2>2, <3>2, <3>3, <4>1, <4>2, <4>3, StepOK
    <3>5. tk'.cursor > tk.cursor
      BY <2>2, <3>1
    <3> QED
      BY <3>4, <3>5 DEF Moves
  <2> QED
    BY <2>5, <2>6
<1> QED
  BY <1>3, <1>4

LEMMA Unchanged == ASSUME IInv, UNCHANGED vars PROVE IInv'
<1>1. UNCHANGED <<source, tk, loops, returned, status, token, template, text>>
  BY DEF vars
<1>2. TrimsAsMarked'
  BY <1>1, TrimsKept DEF IInv
<1>3. /\ Characters /\ Sane(tk', template') /\ LoopsOK(loops', tk')
      /\ LiquidsOK(loops', tk', template') /\ template'.upto \in Nat /\ returned' \in BOOLEAN
      /\ status' \in {"parsing", "raised", "done"} /\ Whole(token')
      /\ status' = "done" => ~tk'.liquid /\ template'.upto = Length
  BY <1>1 DEF IInv
<1>4. tk'.raw # << >> =>
        /\ status' = "parsing" /\ returned' /\ loops'[Len(loops')].loop = "body"
        /\ Match(token').delimiter = <<"e">> /\ tk'.raw[1] <= tk'.raw[2] + 1
  BY <1>1 DEF IInv, RawOK, loop
<1>5. source' = source
  BY <1>1
<1> QED
  BY <1>2, <1>3, <1>4, <1>5, StepOK

LEMMA EveryStep == ASSUME IInv, Next PROVE IInv' /\ (Moves \/ UNCHANGED vars)
<1>1. CASE ParseInvalid
  BY <1>1, InvalidStep
<1>2. CASE ParseVariable
  BY <1>2, VariableStep
<1>3. CASE SkipBlankLine
  BY <1>3, BlankLineStep
<1>4. CASE ParseText
  BY <1>4, TextStep
<1>5. CASE ParseTag
  BY <1>5, TagStep
<1>6. CASE ParseBlock
  BY <1>6, BlockStep
<1>7. CASE ParseRaw
  BY <1>7, RawStep
<1>8. CASE ParseLiquid
  BY <1>8, LiquidStep
<1>9. CASE ParseUnknown
  BY <1>9, UnknownStep
<1>10. CASE EndOfTokens
  BY <1>10, EndStep
<1>11. CASE ShiftRaw
  BY <1>11, ShiftRawStep
<1>12. CASE FinishTag
  BY <1>12, FinishStep
<1>13. CASE Stopped
  BY <1>13, Unchanged DEF Stopped
<1> QED
  BY <1>1, <1>2, <1>3, <1>4, <1>5, <1>6, <1>7, <1>8, <1>9, <1>10, <1>11, <1>12, <1>13 DEF Next

LEMMA Invariant == Spec => []IInv
<1>1. Init => IInv
  BY Initially
<1>2. IInv /\ [Next]_vars => IInv'
  BY EveryStep, Unchanged
<1> QED
  BY <1>1, <1>2, PTL DEF Spec

-----------------------------------------------------------------------------
(* The theorems                                                            *)

(* In every state the fields are in their ranges: no cursor passes the end    *)
(* of what is tokenized, and what is trimmed off a token is in it.            *)
THEOREM Types == Spec => []TypeOK
<1>1. IInv => TypeOK
  BY Implied
<1> QED
  BY <1>1, Invariant, PTL

(* The scans of tokenizer_next, which go forward and step over pairs of        *)
(* characters, delimit every token as the source does.                        *)
THEOREM Delimits == Spec => []TokensAsDelimited
<1>1. IInv => TokensAsDelimited
  BY Implied
<1> QED
  BY <1>1, Invariant, PTL

(* Nothing of a template is skipped or parsed twice, whatever liquid tags it   *)
(* has, of whatever depth.                                                 *)
THEOREM Covers == Spec => []SourceCovered
<1>1. IInv => SourceCovered
  BY Implied
<1> QED
  BY <1>1, Invariant, PTL

(* The line number counts the newlines before the cursor in the template,      *)
(* inside liquid tags of any depth and behind them.                          *)
THEOREM CountsLines == Spec => []LinesCounted
<1>1. IInv => LinesCounted
  BY Implied
<1> QED
  BY <1>1, Invariant, PTL

(* Text is trimmed where the delimiters next to it have a dash, across liquid  *)
(* and raw tags, with the bug that is compatible with the gem or without.      *)
THEOREM Trims == Spec => []TrimsAsMarked
<1>1. IInv => TrimsAsMarked
  BY Implied
<1> QED
  BY <1>1, Invariant, PTL

(* match_full_token_possibly_invalid, which scans from the end, finds what the *)
(* greedy expression of the gem finds, in every token.                        *)
THEOREM MatchesAsGem == Spec => []RawTokens
<1>1. IInv => RawTokens
  BY Implied
<1> QED
  BY <1>1, Invariant, PTL

(* raw_tag_body is taken by the loop that parsed the raw tag, before the next  *)
(* token is shifted.                                                       *)
THEOREM TakesRawBody == Spec => []RawBodyTaken
<1>1. IInv => RawBodyTaken
  BY Implied
<1> QED
  BY <1>1, Invariant, PTL

(* Every step stops the parse, moves the cursor on, or leaves it and returns    *)
(* from a loop or a tag: no source makes the loops go on for ever.            *)
THEOREM Advances == Spec => Forward
<1>1. IInv /\ [Next]_vars => [Moves]_vars
  BY EveryStep
<1>2. Spec => [][Moves]_vars
  BY <1>1, Invariant, PTL DEF Spec
<1> QED
  BY <1>2 DEF Forward, Moves
=============================================================================
