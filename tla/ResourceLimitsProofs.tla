------------------------ MODULE ResourceLimitsProofs ------------------------
(***************************************************************************)
(* The accounts of resource_limits.c are right for any limits, and for any *)
(* nesting and failing of renders, captures and private strings; and the   *)
(* assign score implements the bill of AssignBill.                         *)
(*                                                                         *)
(* The inductive invariant adds to the properties the shape of the C       *)
(* stack: which calls make which, and how many strings and captures each   *)
(* has found (Chain).  It is what makes the string on top, and the capture  *)
(* on top, those of the innermost call when it ends.  And captures that     *)
(* have begun since the last reset are charged from the start (Fresh).      *)
(***************************************************************************)
EXTENDS ResourceLimits, TLAPS

Call0 == [call : Kinds, due : BOOLEAN, strings : Nat, depth : Nat]

(* What call f finds when the call below it is g                           *)
On(g, f) ==
    /\ f.strings = g.strings + (IF f.call \in {"capture", "private"} THEN 1 ELSE 0)
    /\ f.depth = g.depth + (IF f.call = "capture" THEN 1 ELSE 0)
    /\ f.call \in {"node", "value"} <=> g.call = "vm"
    /\ f.call \in {"capture", "private"} => g.call \in {"node", "value"}

Chain(s) ==
    /\ s \in Seq(Call0)
    /\ \A i \in 1..Len(s) : s[i].strings >= 1 /\ (s[i].call = "template" <=> i = 1)
    /\ s # << >> => s[1].strings = 1 /\ s[1].depth = 0
    /\ \A i \in 2..Len(s) : On(s[i - 1], s[i])

Stacked ==
    /\ Chain(calls)
    /\ calls = << >> => captures = << >> /\ out = << >> /\ exc = "none"

(* A capture that has begun since the last reset is charged from the start.  *)
Fresh == \A i \in 1..Len(captures) :
    captures[i].saved >= -1 /\ (i > older => captures[i].from = 0)

IInv == TypeOK /\ Stacked /\ Settled /\ LimitsHold /\ Ledger /\ Fresh

-----------------------------------------------------------------------------
(* Stacks                                                                  *)

LEMMA PopFacts ==
    ASSUME NEW T, NEW s \in Seq(T), s # << >>
    PROVE  /\ Pop(s) \in Seq(T) /\ Len(Pop(s)) = Len(s) - 1 /\ Len(s) \in Nat \ {0}
           /\ \A i \in 1..Len(s) - 1 : Pop(s)[i] = s[i]
<1> DEFINE n == Len(s) - 1
<1>1. n \in Nat /\ 1 \in Nat /\ \A i \in 1..n : s[i] \in T
  OBVIOUS
<1> HIDE DEF n
<1>2. Len(SubSeq(s, 1, n)) = n /\ \A i \in 1..n : SubSeq(s, 1, n)[i] = s[i]
  BY <1>1
<1>3. SubSeq(s, 1, n) \in Seq(T)
  BY <1>1
<1> QED
  BY <1>1, <1>2, <1>3 DEF n, Pop

LEMMA PopTwice ==
    ASSUME NEW T, NEW s \in Seq(T), Len(s) >= 2
    PROVE  Pop(Pop(s)) \in Seq(T) /\ Len(Pop(Pop(s))) = Len(s) - 2
<1> DEFINE p == Pop(s)
<1>1. p \in Seq(T) /\ Len(p) = Len(s) - 1 /\ Len(s) \in Nat
  <2>1. s # << >>
    OBVIOUS
  <2> QED
    BY <2>1, PopFacts
<1> HIDE DEF p
<1>2. p # << >>
  BY <1>1
<1>3. Pop(p) \in Seq(T) /\ Len(Pop(p)) = Len(p) - 1
  BY <1>1, <1>2, PopFacts
<1>4. Len(p) - 1 = Len(s) - 2
  BY <1>1
<1> QED
  BY <1>3, <1>4 DEF p

LEMMA ChainPop ==
    ASSUME NEW s, Chain(s), s # << >>
    PROVE  /\ Chain(Pop(s)) /\ Len(Pop(s)) = Len(s) - 1
           /\ \A i \in 1..Len(s) - 1 : Pop(s)[i] = s[i]
<1>1. /\ Pop(s) \in Seq(Call0) /\ Len(Pop(s)) = Len(s) - 1 /\ Len(s) \in Nat \ {0}
      /\ \A i \in 1..Len(s) - 1 : Pop(s)[i] = s[i]
  BY PopFacts DEF Chain
<1>2. \A i \in 2..Len(s) - 1 : On(Pop(s)[i - 1], Pop(s)[i])
  BY <1>1 DEF Chain
<1>3. Pop(s) # << >> => Pop(s)[1] = s[1]
  BY <1>1
<1> QED
  BY <1>1, <1>2, <1>3 DEF Chain

LEMMA ChainDue ==
    ASSUME NEW s, Chain(s), s # << >>, NEW d \in BOOLEAN
    PROVE  /\ Chain(WithDue(s, d)) /\ WithDue(s, d) # << >> /\ Len(WithDue(s, d)) = Len(s)
           /\ WithDue(s, d)[Len(s)].due = (d \/ s[Len(s)].call \in Ruby)
           /\ WithDue(s, d)[Len(s)].call = s[Len(s)].call
           /\ WithDue(s, d)[Len(s)].strings = s[Len(s)].strings
           /\ WithDue(s, d)[Len(s)].depth = s[Len(s)].depth
<1> DEFINE t == WithDue(s, d)
           due == d \/ s[Len(s)].call \in Ruby
<1>0. due \in BOOLEAN
  OBVIOUS
<1>1. /\ Len(s) \in Nat \ {0} /\ s \in Seq(Call0)
      /\ \A i \in 1..Len(s) : s[i] \in Call0
  BY DEF Chain
<1>2. t = [i \in 1..Len(s) |-> IF i = Len(s) THEN [s[i] EXCEPT !.due = due] ELSE s[i]]
  BY <1>1 DEF WithDue
<1> HIDE DEF due
<1>3. \A i \in 1..Len(s) : /\ t[i] \in Call0 /\ t[i].call = s[i].call
                           /\ t[i].strings = s[i].strings /\ t[i].depth = s[i].depth
  BY <1>0, <1>1, <1>2 DEF Call0
<1>4. t[Len(s)].due = due
  BY <1>1, <1>2 DEF Call0
<1>5a. t \in Seq(Call0) /\ Len(t) = Len(s)
  BY <1>1, <1>2, <1>3
<1> HIDE DEF t
<1>5. \A i \in 2..Len(t) : On(t[i - 1], t[i])
  BY <1>1, <1>5a, <1>3 DEF Chain, On
<1>6. Chain(t)
  BY <1>1, <1>5a, <1>3, <1>5 DEF Chain
<1> QED
  BY <1>1, <1>3, <1>4, <1>6, <1>5a DEF t, due

LEMMA ChainFirst ==
    ASSUME NEW f \in Call0, f.call = "template", f.strings = 1, f.depth = 0
    PROVE  Chain(<<f>>) /\ <<f>> # << >> /\ <<f>>[Len(<<f>>)] = f
<1> DEFINE s == <<f>>
<1>1. s \in Seq(Call0) /\ Len(s) = 1 /\ s[1] = f
  OBVIOUS
<1> HIDE DEF s
<1>2. \A i \in 1..Len(s) : i = 1
  BY <1>1
<1>3. \A i \in 2..Len(s) : FALSE
  BY <1>1
<1>4. Chain(s)
  BY <1>1, <1>2, <1>3 DEF Chain
<1> QED
  BY <1>1, <1>4 DEF s

LEMMA ChainPush ==
    ASSUME NEW s, Chain(s), s # << >>, NEW f \in Call0, On(s[Len(s)], f), f.call # "template"
    PROVE  /\ Chain(Append(s, f)) /\ Append(s, f) # << >>
           /\ Len(Append(s, f)) = Len(s) + 1 /\ Append(s, f)[Len(s) + 1] = f
<1> DEFINE t == Append(s, f)
<1>1. /\ Len(s) \in Nat \ {0} /\ t \in Seq(Call0) /\ Len(t) = Len(s) + 1 /\ t[Len(s) + 1] = f
      /\ \A i \in 1..Len(s) : t[i] = s[i]
  BY DEF Chain
<1> HIDE DEF t
<1>2. f.strings >= 1
  <2>1. s[Len(s)] \in Call0 /\ s[Len(s)].strings >= 1
    BY <1>1 DEF Chain
  <2> QED
    BY <2>1 DEF On, Call0
<1>3. \A i \in 2..Len(t) : On(t[i - 1], t[i])
  BY <1>1 DEF Chain
<1>4. Chain(t)
  BY <1>1, <1>2, <1>3, SMTT(20) DEF Chain
<1> QED
  BY <1>1, <1>4 DEF t

(* The innermost call and the one below it                                 *)
LEMMA TopFacts ==
    ASSUME NEW s, Chain(s), s # << >>
    PROVE  /\ Len(s) \in Nat \ {0} /\ s[Len(s)] \in Call0 /\ s[Len(s)].strings >= 1
           /\ s[Len(s)].call = "template" =>
                Len(s) = 1 /\ s[Len(s)].strings = 1 /\ s[Len(s)].depth = 0
           /\ s[Len(s)].call # "template" =>
                /\ Len(s) > 1 /\ Len(s) - 1 \in 1..Len(s) - 1
                /\ On(s[Len(s) - 1], s[Len(s)]) /\ Pop(s) # << >>
                /\ s[Len(s) - 1] \in Call0 /\ s[Len(s) - 1].strings >= 1
                /\ Pop(s)[Len(Pop(s))] = s[Len(s) - 1]
<1> DEFINE n == Len(s)
<1>1. n \in Nat \ {0} /\ n \in 1..n /\ \A i \in 1..n : s[i] \in Call0
  BY DEF Chain
<1>2. s[n].strings >= 1 /\ (s[n].call = "template" <=> n = 1)
  BY <1>1 DEF Chain
<1>3. n = 1 => s[1].strings = 1 /\ s[1].depth = 0
  BY DEF Chain
<1>4. ASSUME n > 1
      PROVE  /\ n - 1 \in 1..n - 1
             /\ On(s[n - 1], s[n]) /\ s[n - 1] \in Call0 /\ s[n - 1].strings >= 1
             /\ Pop(s) # << >> /\ Pop(s)[Len(Pop(s))] = s[n - 1]
  <2>1. n \in 2..n /\ n - 1 \in 1..n - 1 /\ n - 1 \in 1..n
    BY <1>1, <1>4
  <2>2. On(s[n - 1], s[n]) /\ s[n - 1] \in Call0 /\ s[n - 1].strings >= 1
    BY <1>1, <2>1 DEF Chain
  <2>3. Len(Pop(s)) = n - 1 /\ Pop(s)[n - 1] = s[n - 1]
    BY <2>1, ChainPop
  <2> QED
    BY <1>1, <1>4, <2>1, <2>2, <2>3
<1>5. s[n].call # "template" => n > 1
  <2>1. s[n].call # "template" => n # 1
    BY <1>2, Zenon
  <2> HIDE DEF n
  <2>2. n # 1 => n > 1
    BY <1>1
  <2> QED
    BY <2>1, <2>2, Zenon
<1> QED
  BY <1>1, <1>2, <1>3, <1>4, <1>5

-----------------------------------------------------------------------------
(* How a step may change the stacks.  Enters: a call is made; its strings   *)
(* and captures are there.  Returns: calls are left, and due may change.    *)

Enters(call, due) ==
    /\ calls' = Push(call, due) /\ call \in Kinds \ {"template"} /\ due \in BOOLEAN
    /\ calls # << >>
    /\ Len(out') = Len(out) + (IF call \in {"capture", "private"} THEN 1 ELSE 0)
    /\ Len(captures') = Len(captures) + (IF call = "capture" THEN 1 ELSE 0)
    /\ call \in {"node", "value"} <=> top.call = "vm"
    /\ call \in {"capture", "private"} => top.call \in {"node", "value"}

(* The part of TypeOK that is about the stacks                             *)
Counts ==
    /\ captures \in Seq([saved : Int, from : Int, owed : Int]) /\ out \in Seq(Nat)
    /\ calls # << >> => top.strings = Len(out) /\ top.depth = Len(captures)

LEMMA EntersKeeps ==
    ASSUME Stacked, Counts, NEW call, NEW due, Enters(call, due),
           captures' \in Seq([saved : Int, from : Int, owed : Int]), out' \in Seq(Nat)
    PROVE  /\ Stacked' /\ Counts' /\ calls' # << >> /\ top'.call = call /\ top'.due = due
           /\ calls' \in Seq(Call0)
<1> DEFINE f == [call |-> call, due |-> due, strings |-> Len(out'), depth |-> Len(captures')]
<1>1. Len(out') \in Nat /\ Len(captures') \in Nat /\ Len(out) \in Nat /\ Len(captures) \in Nat
  BY DEF Counts
<1>2. f \in Call0 /\ f.call = call /\ f.due = due /\ f.strings = Len(out') /\ f.depth = Len(captures')
  BY <1>1 DEF Enters, Call0
<1>3. calls' = Append(calls, f) /\ calls # << >> /\ Chain(calls)
  BY DEF Enters, Push, Stacked
<1> HIDE DEF f
<1>4. On(top, f)
  BY <1>1, <1>2, <1>3 DEF On, Enters, Counts
<1>5. /\ Chain(calls') /\ calls' # << >>
      /\ Len(calls') = Len(calls) + 1 /\ calls'[Len(calls) + 1] = f
  BY <1>2, <1>3, <1>4, ChainPush, ZenonT(30) DEF top, Enters
<1>6. top' = f
  BY <1>5 DEF top
<1> QED
  BY <1>2, <1>5, <1>6 DEF Stacked, Counts, Enters, Chain

(* A call other than the outermost is left.                                *)
LEMMA LeavesKeeps ==
    ASSUME Stacked, Counts, calls # << >>, top.call # "template",
           captures' \in Seq([saved : Int, from : Int, owed : Int]), out' \in Seq(Nat),
           Len(out') = Len(out) - (IF top.call \in {"capture", "private"} THEN 1 ELSE 0),
           Len(captures') = Len(captures) - (IF top.call = "capture" THEN 1 ELSE 0),
           calls' = Below \/ \E d \in BOOLEAN : calls' = WithDue(Below, d)
    PROVE  /\ Stacked' /\ Counts' /\ calls' # << >> /\ On(top', top)
           /\ \A d \in BOOLEAN : calls' = WithDue(Below, d) => top'.due = (d \/ top'.call \in Ruby)
           /\ Below # << >> /\ top'.call = Below[Len(Below)].call
           /\ Below[Len(Below)] = calls[Len(calls) - 1]
<1> DEFINE n == Len(calls)
           g == calls[n - 1]
<1>1. /\ n \in Nat /\ n > 1 /\ top \in Call0 /\ Chain(Below) /\ Below # << >>
      /\ Len(Below) = n - 1 /\ Below[n - 1] = g /\ g \in Call0 /\ On(g, top) /\ g.strings >= 1
  <2>1. Chain(calls)
    BY DEF Stacked
  <2>2. n \in Nat /\ top \in Call0
    BY <2>1, TopFacts DEF top
  <2>3. n > 1 /\ n - 1 \in 1..n - 1
    BY <2>1, TopFacts DEF top
  <2>4. On(g, top) /\ g \in Call0 /\ g.strings >= 1
    BY <2>1, <2>3, TopFacts DEF top
  <2>5. Chain(Below) /\ Len(Below) = n - 1 /\ Below[n - 1] = g
    BY <2>1, <2>3, ChainPop DEF Below
  <2> QED
    BY <2>2, <2>3, <2>4, <2>5
<1>2. /\ Chain(calls') /\ calls' # << >> /\ top'.call = g.call
      /\ top'.strings = g.strings /\ top'.depth = g.depth
      /\ \A d \in BOOLEAN : calls' = WithDue(Below, d) => top'.due = (d \/ top'.call \in Ruby)
  <2>1. CASE calls' = Below
    <3>1. top' = g /\ Chain(calls') /\ calls' # << >>
      BY <2>1, <1>1 DEF top
    <3>2. \A d \in BOOLEAN : /\ WithDue(Below, d)[n - 1].due = (d \/ g.call \in Ruby) /\ Len(WithDue(Below, d)) = n - 1
      BY <1>1, ChainDue
    <3>3. \A d \in BOOLEAN : calls' = WithDue(Below, d) => top'.due = (d \/ top'.call \in Ruby)
      BY <3>2, <1>1, <2>1, <3>1
    <3> QED
      BY <3>1, <3>3
  <2>2. ASSUME NEW d \in BOOLEAN, calls' = WithDue(Below, d)
        PROVE  /\ Chain(calls') /\ calls' # << >> /\ top'.call = g.call
               /\ top'.strings = g.strings /\ top'.depth = g.depth
               /\ \A e \in BOOLEAN : calls' = WithDue(Below, e) => top'.due = (e \/ top'.call \in Ruby)
    <3>1. \A e \in BOOLEAN :
             /\ Chain(WithDue(Below, e)) /\ WithDue(Below, e) # << >>
             /\ Len(WithDue(Below, e)) = n - 1 /\ WithDue(Below, e)[n - 1].due = (e \/ g.call \in Ruby)
             /\ WithDue(Below, e)[n - 1].call = g.call
             /\ WithDue(Below, e)[n - 1].strings = g.strings
             /\ WithDue(Below, e)[n - 1].depth = g.depth
      BY <1>1, ChainDue
    <3>2. Len(calls') = n - 1 /\ top' = calls'[n - 1]
      BY <3>1, <2>2 DEF top
    <3> QED
      BY <3>1, <3>2, <2>2
  <2> QED
    BY <2>1, <2>2
<1>3. On(top', top)
  BY <1>1, <1>2 DEF On
<1>4. top'.strings = Len(out') /\ top'.depth = Len(captures')
  <2>1. /\ top.strings = g.strings + (IF top.call \in {"capture", "private"} THEN 1 ELSE 0)
        /\ top.depth = g.depth + (IF top.call = "capture" THEN 1 ELSE 0)
        /\ g.strings \in Nat /\ g.depth \in Nat
    BY <1>1 DEF On, Call0
  <2>2. top.strings = Len(out) /\ top.depth = Len(captures)
    BY DEF Counts
  <2> QED
    BY <1>2, <2>1, <2>2
<1> HIDE DEF g, n
<1>6. Stacked' /\ Counts'
  BY <1>2, <1>4 DEF Stacked, Counts
<1> QED
  BY <1>1, <1>2, <1>3, <1>6 DEF g, n

(* What is on top of the stacks of an innermost call                       *)
LEMMA Innermost ==
    ASSUME Stacked, Counts, calls # << >>
    PROVE  /\ top \in Call0 /\ Len(out) \in Nat \ {0} /\ out # << >> /\ written \in Nat
           /\ top.call = "capture" => captures # << >>
           /\ top.call = "private" => Len(out) >= 2
           /\ top.call = "template" => captures = << >>
           /\ top.call # "template" => On(calls[Len(calls) - 1], top)
<1> DEFINE g == calls[Len(calls) - 1]
<1>1. /\ top \in Call0 /\ top.strings >= 1
      /\ top.call = "template" => top.strings = 1 /\ top.depth = 0
      /\ top.call # "template" => On(g, top) /\ g \in Call0 /\ g.strings >= 1
  BY TopFacts DEF Stacked, top
<1> HIDE DEF g
<1>2. top.strings = Len(out) /\ top.depth = Len(captures)
  BY DEF Counts
<1>3. Len(out) \in Nat \ {0} /\ out # << >> /\ written \in Nat
  BY <1>1, <1>2 DEF Counts, written
<1>4. top.call = "capture" => top.depth >= 1
  BY <1>1 DEF On, Call0
<1>5. top.call = "private" => top.strings >= 2
  BY <1>1 DEF On, Call0
<1>6. top.call = "template" => Len(captures) = 0
  BY <1>1, <1>2
<1>7. captures \in Seq([saved : Int, from : Int, owed : Int])
  BY DEF Counts
<1>8. top.call = "capture" => captures # << >>
  BY <1>2, <1>4, <1>7
<1>9. top.call = "template" => captures = << >>
  BY <1>6, <1>7
<1> QED
  BY <1>1, <1>2, <1>3, <1>5, <1>8, <1>9 DEF g

(* The innermost call stays.                                               *)
LEMMA StaysKeeps ==
    ASSUME Stacked, Counts, calls # << >>,
           captures' \in Seq([saved : Int, from : Int, owed : Int]), Len(captures') = Len(captures),
           out' \in Seq(Nat), Len(out') = Len(out),
           calls' = calls \/ \E d \in BOOLEAN : calls' = WithDue(calls, d)
    PROVE  /\ Stacked' /\ Counts' /\ calls' # << >> /\ top'.call = top.call
           /\ \A d \in BOOLEAN : calls' = WithDue(calls, d) => top'.due = (d \/ top'.call \in Ruby)
<1>1. /\ Chain(calls) /\ Len(calls) \in Nat \ {0}
  BY TopFacts DEF Stacked
<1>2. \A e \in BOOLEAN :
         /\ Chain(WithDue(calls, e)) /\ WithDue(calls, e) # << >>
         /\ Len(WithDue(calls, e)) = Len(calls) /\ WithDue(calls, e)[Len(calls)].due = (e \/ top.call \in Ruby)
         /\ WithDue(calls, e)[Len(calls)].call = top.call
         /\ WithDue(calls, e)[Len(calls)].strings = top.strings
         /\ WithDue(calls, e)[Len(calls)].depth = top.depth
  BY <1>1, ChainDue DEF top
<1>3. /\ Chain(calls') /\ calls' # << >> /\ top'.call = top.call
      /\ top'.strings = top.strings /\ top'.depth = top.depth
      /\ \A d \in BOOLEAN : calls' = WithDue(calls, d) => top'.due = (d \/ top'.call \in Ruby)
  <2>1. CASE calls' = calls
    <3>1. top' = top /\ Len(calls') = Len(calls)
      BY <2>1 DEF top
    <3> QED
      BY <2>1, <3>1, <1>1, <1>2 DEF top
  <2>2. ASSUME NEW d \in BOOLEAN, calls' = WithDue(calls, d)
        PROVE  /\ Chain(calls') /\ calls' # << >> /\ top'.call = top.call
               /\ top'.strings = top.strings /\ top'.depth = top.depth
               /\ \A e \in BOOLEAN : calls' = WithDue(calls, e) => top'.due = (e \/ top'.call \in Ruby)
    <3>1. top' = WithDue(calls, d)[Len(calls)]
      BY <2>2, <1>2 DEF top
    <3> QED
      BY <2>2, <3>1, <1>2
  <2> QED
    BY <2>1, <2>2
<1> QED
  BY <1>3 DEF Stacked, Counts

-----------------------------------------------------------------------------
(* The accounts                                                            *)

Accounts ==
    /\ limits \in [reached : BOOLEAN, last : Int, render : Nat, assign : Int]
    /\ settled \in Int /\ handled \in BOOLEAN /\ older \in 0..Len(captures)
    /\ limits.last >= 0 <=> captures # << >> /\ innermost.from >= 0
    /\ limits.last >= -1

Books == Ledger /\ Fresh

Within == limits.render <= RenderScoreLimit /\ limits.assign <= AssignScoreLimit
WithinScores == ~handled => Within

LEMMA TypeParts ==
    TypeOK <=> Accounts /\ Counts /\ calls \in Seq(Call0) /\ exc \in {"none", "error", "memory"}
BY DEF TypeOK, Accounts, Counts, Call0

LEMMA AppendedFacts ==
    ASSUME out \in Seq(Nat), out # << >>, NEW n \in Nat
    PROVE  /\ Appended(n) \in Seq(Nat) /\ Len(Appended(n)) = Len(out)
           /\ Appended(n)[Len(out)] = written + n /\ written + n \in Nat
<1>1. Len(out) \in Nat \ {0} /\ \A i \in 1..Len(out) : out[i] \in Nat
  OBVIOUS
<1>2. written \in Nat
  BY <1>1 DEF written
<1>3. Appended(n) = [i \in 1..Len(out) |-> IF i = Len(out) THEN written + n ELSE out[i]]
  BY <1>1 DEF Appended, written
<1> QED
  BY <1>1, <1>2, <1>3

LEMMA LastElement ==
    ASSUME NEW T, NEW s \in Seq(T), s # << >>
    PROVE  s[Len(s)] \in T /\ Len(s) \in Nat \ {0}
OBVIOUS

LEMMA Elements ==
    ASSUME NEW T, NEW s \in Seq(T)
    PROVE  Len(s) \in Nat /\ \A i \in 1..Len(s) : s[i] \in T
OBVIOUS

LEMMA AppendFacts ==
    ASSUME NEW T, NEW s \in Seq(T), NEW e \in T
    PROVE  /\ Append(s, e) \in Seq(T) /\ Append(s, e) # << >> /\ Len(Append(s, e)) = Len(s) + 1
           /\ Append(s, e)[Len(s) + 1] = e /\ \A i \in 1..Len(s) : Append(s, e)[i] = s[i]
OBVIOUS

(* A record of the limits, where a charge has been made                     *)
LEMMA RecordCharged ==
    ASSUME NEW r \in [reached : BOOLEAN, last : Int, render : Nat, assign : Int],
           NEW a \in Int, NEW b \in Int
    PROVE  LET q == [r EXCEPT !.last = a, !.assign = b]
           IN /\ q \in [reached : BOOLEAN, last : Int, render : Nat, assign : Int]
              /\ q.last = a /\ q.assign = b /\ q.render = r.render
OBVIOUS

LEMMA RecordRestored ==
    ASSUME NEW r \in [reached : BOOLEAN, last : Int, render : Nat, assign : Int], NEW a \in Int
    PROVE  LET q == [r EXCEPT !.last = a]
           IN /\ q \in [reached : BOOLEAN, last : Int, render : Nat, assign : Int]
              /\ q.last = a /\ q.assign = r.assign /\ q.render = r.render
OBVIOUS

LEMMA OpenFacts ==
    ASSUME Accounts, Counts, captures # << >>
    PROVE  /\ innermost \in [saved : Int, from : Int, owed : Int] /\ limits.last \in Int
           /\ OpenCharges = innermost.owed + limits.last - innermost.from
<1>1. captures \in Seq([saved : Int, from : Int, owed : Int])
  BY DEF Counts
<1>2. innermost \in [saved : Int, from : Int, owed : Int]
  BY <1>1, LastElement DEF innermost
<1>3. limits.last \in Int
  BY DEF Accounts
<1> QED
  BY <1>2, <1>3 DEF OpenCharges

LEMMA NoOpen == captures = << >> => OpenCharges = 0
BY DEF OpenCharges

LEMMA OpenInteger == Accounts /\ Counts => OpenCharges \in Int
<1> SUFFICES ASSUME Accounts, Counts, captures # << >> PROVE OpenCharges \in Int
  BY NoOpen
<1>1. innermost.owed \in Int /\ innermost.from \in Int /\ limits.last \in Int
  BY OpenFacts
<1> QED
  BY <1>1, OpenFacts

(* The captures of the ledger, apart from its sum                          *)
Follows(outer, c) ==
    (c.saved >= 0 <=> outer.from >= 0) /\ c.owed = outer.owed + c.saved - outer.from
Saved(cs) == \A i \in 1..Len(cs) :
    IF i = 1 THEN cs[i].saved = -1 /\ cs[i].owed = 0 ELSE Follows(cs[i - 1], cs[i])

LEMMA BooksParts == Books <=> limits.assign = settled + OpenCharges /\ Saved(captures) /\ Fresh
BY DEF Books, Ledger, Saved, Follows

LEMMA BooksNext ==
    ASSUME limits'.assign = settled' + OpenCharges', Saved(captures'), Fresh'
    PROVE  Books'
BY DEF Books, Ledger, Saved, Follows

(* What a step does that leaves captures and assignments alone.             *)
LEMMA SameAccounts ==
    ASSUME Accounts, Books, UNCHANGED <<limits, captures, settled, handled, older>>
    PROVE  Accounts' /\ Books' /\ (WithinScores <=> WithinScores')
BY DEF Accounts, Books, Ledger, Fresh, OpenCharges, innermost, WithinScores, Within

(* A write leaves the accounts right, and what was written is accounted for *)
(* unless a MemoryError is raised.                                         *)
LEMMA Charged ==
    ASSUME Accounts, Counts, Books, NEW n \in Nat, IncrementWriteScore(n),
           UNCHANGED <<captures, settled, handled, older>>
    PROVE  /\ Accounts' /\ Books' /\ exc' \in {"none", "memory"}
           /\ exc' = "none" => IF limits'.last >= 0 THEN limits'.last = n ELSE n <= RenderLengthLimit
           /\ WithinScores /\ exc' = "none" => WithinScores'
<1>1. exc' \in {"none", "memory"}
  BY DEF IncrementWriteScore, Raised
<1>2. CASE limits.last >= 0
  <2> DEFINE grown == n - limits.last
  <2>0. limits \in [reached : BOOLEAN, last : Int, render : Nat, assign : Int]
    BY DEF Accounts
  <2>1. /\ limits' = [limits EXCEPT !.last = n, !.assign = limits.assign + grown]
        /\ exc' = Raised(limits.assign + grown > AssignScoreLimit)
    BY <1>2 DEF IncrementWriteScore
  <2>2. grown \in Int /\ limits.assign \in Int /\ limits.last \in Int /\ grown = n - limits.last
    BY DEF Accounts
  <2> HIDE DEF grown
  <2>3. /\ limits' \in [reached : BOOLEAN, last : Int, render : Nat, assign : Int]
        /\ limits'.last = n /\ limits'.assign = limits.assign + grown
        /\ limits'.render = limits.render
    <3>1. limits.assign + grown \in Int /\ n \in Int
      BY <2>2
    <3> QED
      BY <2>0, <2>1, <3>1, RecordCharged
  <2>4. Accounts'
    BY <1>2, <2>3 DEF Accounts, innermost
  <2>5. PICK owed \in Int : OpenCharges = owed + limits.last /\ OpenCharges' = owed + n
    <3>1. captures # << >> /\ captures' = captures
      BY <1>2 DEF Accounts
    <3>2. innermost.owed - innermost.from \in Int /\ OpenCharges = innermost.owed + limits.last - innermost.from
      BY <3>1, OpenFacts
    <3>3. OpenCharges' = innermost.owed + n - innermost.from
      BY <3>1, <2>3 DEF OpenCharges, innermost
    <3>4. innermost.owed \in Int /\ innermost.from \in Int
      BY <3>1, OpenFacts
    <3> QED
      BY <3>2, <3>3, <3>4, <2>2
  <2>6. Books'
    <3>1. limits.assign = settled + OpenCharges /\ Saved(captures) /\ Fresh /\ settled \in Int
      BY BooksParts DEF Accounts
    <3>2. limits'.assign = settled' + OpenCharges'
      BY <2>2, <2>3, <2>5, <3>1
    <3> QED
      BY <3>1, <3>2, BooksNext DEF Fresh
  <2>7. WithinScores /\ exc' = "none" => WithinScores'
    BY <2>1, <2>2, <2>3, LimitsAssumption DEF WithinScores, Within, Raised
  <2> QED
    BY <1>1, <2>3, <2>4, <2>6, <2>7
<1>3. CASE ~(limits.last >= 0)
  <2>1. exc' = Raised(n > RenderLengthLimit) /\ UNCHANGED limits
    BY <1>3 DEF IncrementWriteScore
  <2>2. Accounts' /\ Books' /\ (WithinScores => WithinScores')
    BY <2>1, SameAccounts
  <2>3. exc' = "none" => n <= RenderLengthLimit
    BY <2>1, LimitsAssumption DEF Raised
  <2> QED
    BY <1>1, <1>3, <2>1, <2>2, <2>3
<1> QED
  BY <1>2, <1>3

-----------------------------------------------------------------------------
(* Each action keeps the invariant.                                        *)

LEMMA Parts ==
    ASSUME IInv
    PROVE  /\ Accounts /\ Counts /\ calls \in Seq(Call0) /\ exc \in {"none", "error", "memory"}
           /\ Stacked /\ Settled /\ LimitsHold /\ Books
           /\ exc # "memory" /\ calls # << >> => WithinScores
<1>1. /\ Accounts /\ Counts /\ calls \in Seq(Call0) /\ exc \in {"none", "error", "memory"}
      /\ Stacked /\ Settled /\ LimitsHold /\ Books
  BY TypeParts DEF IInv, Books
<1>2. exc # "memory" /\ calls # << >> => WithinScores
  BY <1>1, Zenon DEF LimitsHold, WithinScores, Within
<1> QED
  BY <1>1, <1>2

LEMMA Whole ==
    ASSUME Accounts', Counts', exc' \in {"none", "error", "memory"}, Stacked', Books', Settled',
           exc' # "memory" /\ calls' # << >> => WithinScores'
    PROVE  IInv'
<1>1. calls' \in Seq(Call0)
  BY DEF Stacked, Chain
<1>2. TypeOK'
  BY <1>1 DEF TypeOK, Accounts, Counts, Call0, innermost
<1> QED
  BY <1>2 DEF IInv, Books, LimitsHold, WithinScores, Within

LEMMA InitInv == Init => IInv
<1> SUFFICES ASSUME Init PROVE IInv
  OBVIOUS
<1>1. TypeOK
  <2>1. captures = << >> /\ calls = << >> /\ out = << >> /\ older = 0 /\ settled = 0
        /\ limits = Reset /\ handled = FALSE /\ exc = "none"
    BY DEF Init
  <2>2. ~(limits.last >= 0) /\ limits.last >= -1
        /\ limits \in [reached : BOOLEAN, last : Int, render : Nat, assign : Int]
    BY <2>1 DEF Reset
  <2>3. calls \in Seq([call : Kinds, due : BOOLEAN, strings : Nat, depth : Nat])
    BY <2>1
  <2>4. captures \in Seq([saved : Int, from : Int, owed : Int]) /\ out \in Seq(Nat)
        /\ settled \in Int /\ older \in 0..Len(captures) /\ exc \in {"none", "error", "memory"}
    BY <2>1
  <2>5. handled \in BOOLEAN
    BY <2>1, Zenon
  <2> QED
    BY <2>1, <2>2, <2>3, <2>4, <2>5 DEF TypeOK
<1>2. Stacked
  BY DEF Init, Stacked, Chain
<1> QED
  BY <1>1, <1>2 DEF Init, IInv, Settled, At, LimitsHold, Ledger, Fresh, OpenCharges, Reset
LEMMA CaptureReset ==
    ASSUME NEW c \in [saved : Int, from : Int, owed : Int], NEW k \in Int,
           NEW q, q = [c EXCEPT !.owed = 0, !.from = k]
    PROVE  /\ q \in [saved : Int, from : Int, owed : Int]
           /\ q.saved = c.saved /\ q.from = k /\ q.owed = 0
<1>1. c = [saved |-> c.saved, from |-> c.from, owed |-> c.owed]
  OBVIOUS
<1>2. q = [saved |-> c.saved, from |-> k, owed |-> 0]
  BY <1>1
<1> QED
  BY <1>2

(* A reset, whatever is open: the captures go on as the ledger has them.     *)
LEMMA ResetKeeps ==
    ASSUME Accounts, Counts, Books, ResetLimits
    PROVE  /\ Accounts' /\ Books' /\ WithinScores'
           /\ captures' \in Seq([saved : Int, from : Int, owed : Int])
           /\ Len(captures') = Len(captures)
<1> DEFINE n == Len(captures)
           from == [i \in 1..n |-> IF i = n THEN -1 ELSE captures[i + 1].saved]
<1>1. /\ captures \in Seq([saved : Int, from : Int, owed : Int]) /\ n \in Nat
      /\ \A i \in 1..n : captures[i] \in [saved : Int, from : Int, owed : Int]
      /\ Saved(captures) /\ Fresh
  <2>1. captures \in Seq([saved : Int, from : Int, owed : Int])
    BY DEF Counts
  <2>2. Saved(captures) /\ Fresh
    BY BooksParts
  <2> HIDE DEF from
  <2>3. n \in Nat /\ \A i \in 1..n : captures[i] \in [saved : Int, from : Int, owed : Int]
    BY <2>1, Elements
  <2> QED
    BY <2>1, <2>2, <2>3, Zenon
<1>2. /\ limits' = Reset /\ settled' = 0 /\ handled' = FALSE /\ older' = n
      /\ captures' = Uncharged
  BY DEF ResetLimits
<1>3. \A i \in 1..n : from[i] \in Int
  <2> TAKE i \in 1..n
  <2>1. i # n => i + 1 \in 1..n
    BY <1>1
  <2> QED
    BY <1>1, <2>1
<1>4. captures' = [i \in 1..n |-> [captures[i] EXCEPT !.owed = 0, !.from = from[i]]]
  BY <1>2 DEF Uncharged
<1>4a. n # 0 => from[n] = -1
  BY <1>1
<1>4b. \A i \in 1..n : i # n => from[i] = captures[i + 1].saved
  OBVIOUS
<1> HIDE DEF from
<1>5. \A i \in 1..n : /\ captures'[i] \in [saved : Int, from : Int, owed : Int]
                      /\ captures'[i].saved = captures[i].saved
                      /\ captures'[i].from = from[i] /\ captures'[i].owed = 0
  <2> TAKE i \in 1..n
  <2>1. captures'[i] = [captures[i] EXCEPT !.owed = 0, !.from = from[i]]
    BY <1>4
  <2>2. captures[i] \in [saved : Int, from : Int, owed : Int] /\ from[i] \in Int
    BY <1>1, <1>3
  <2> QED
    BY <2>1, <2>2, CaptureReset
<1>6. captures' \in Seq([saved : Int, from : Int, owed : Int]) /\ Len(captures') = n
  <2>1. captures' = [i \in 1..n |-> captures'[i]]
    BY <1>4
  <2> QED
    BY <2>1, <1>1, <1>5
<1> HIDE DEF n
<1>7. captures' # << >> => innermost'.from = -1 /\ innermost'.owed = 0
  <2> SUFFICES ASSUME captures' # << >> PROVE innermost'.from = -1 /\ innermost'.owed = 0
    OBVIOUS
  <2>1. n # 0 /\ n \in 1..n
    BY <1>1, <1>6
  <2> QED
    BY <2>1, <1>4a, <1>5, <1>6 DEF innermost
<1>8. Accounts' /\ WithinScores'
  <2>1. /\ limits' \in [reached : BOOLEAN, last : Int, render : Nat, assign : Int]
        /\ limits'.last = -1 /\ limits'.render = 0 /\ limits'.assign = 0
    BY <1>2 DEF Reset
  <2>2. ~(captures' # << >> /\ innermost'.from >= 0)
    BY <1>7
  <2>3. settled' \in Int /\ handled' \in BOOLEAN /\ older' \in 0..Len(captures')
    <3>1. settled' \in Int /\ older' \in 0..Len(captures')
      BY <1>1, <1>2, <1>6
    <3>2. handled' \in BOOLEAN
      BY <1>2, Zenon
    <3> QED
      BY <3>1, <3>2
  <2> QED
    BY <2>1, <2>2, <2>3, LimitsAssumption DEF Accounts, WithinScores, Within
<1>9. OpenCharges' = 0
  BY <1>2, <1>7 DEF OpenCharges, Reset
<1>10. Saved(captures')
  <2> SUFFICES ASSUME NEW i \in 1..n
               PROVE  IF i = 1 THEN captures'[i].saved = -1 /\ captures'[i].owed = 0
                      ELSE Follows(captures'[i - 1], captures'[i])
    BY <1>6 DEF Saved
  <2>1. i = 1 => captures[i].saved = -1
    BY <1>1 DEF Saved, n
  <2>2. CASE i = 1
    BY <2>1, <2>2, <1>5
  <2>3. CASE i # 1
    <3>1. i - 1 \in 1..n /\ i - 1 # n /\ (i - 1) + 1 = i
      BY <1>1, <2>3
    <3>2. from[i - 1] = captures[i].saved
      BY <3>1, <1>4b
    <3>3. captures[i].saved \in Int
      BY <1>1
    <3> QED
      BY <2>3, <3>1, <3>2, <3>3, <1>5 DEF Follows
  <2> QED
    BY <2>2, <2>3
<1>11. Fresh'
  <2> SUFFICES ASSUME NEW i \in 1..n
               PROVE  captures'[i].saved >= -1 /\ (i > older' => captures'[i].from = 0)
    BY <1>6 DEF Fresh
  <2>1. captures[i].saved >= -1 /\ ~(i > n)
    BY <1>1 DEF Fresh, n
  <2> QED
    BY <2>1, <1>2, <1>5
<1>12. Books'
  BY <1>2, <1>9, <1>10, <1>11, BooksNext DEF Reset
<1> QED
  BY <1>6, <1>8, <1>12 DEF n

LEMMA RenderTemplateInv == IInv /\ RenderTemplate => IInv'
<1> SUFFICES ASSUME IInv, NEW n \in Sizes, calls = << >>, n <= MaxLength,
                    ResetLimits, out' = <<n>>, UNCHANGED exc,
                    calls' = Push("template", TRUE)
             PROVE  IInv'
  BY DEF RenderTemplate
<1>1. captures = << >> /\ exc = "none" /\ n \in Nat
  BY Parts, LimitsAssumption DEF Stacked
<1>2. /\ Accounts' /\ Books' /\ WithinScores'
      /\ captures' \in Seq([saved : Int, from : Int, owed : Int]) /\ Len(captures') = Len(captures)
  BY Parts, ResetKeeps
<1>3. captures' = << >> /\ exc = "none" /\ exc' = "none" /\ n \in Nat
  BY <1>1, <1>2
<1>4. calls' = <<[call |-> "template", due |-> TRUE, strings |-> 1, depth |-> 0]>>
  BY <1>3 DEF Push
<1>5. /\ Stacked' /\ calls' # << >> /\ top'.due = TRUE
      /\ top'.strings = 1 /\ top'.depth = 0
  <2> DEFINE f == [call |-> "template", due |-> TRUE, strings |-> 1, depth |-> 0]
  <2>1. f \in Call0 /\ f.call = "template" /\ f.due = TRUE /\ f.strings = 1 /\ f.depth = 0
    BY DEF Call0, Kinds
  <2>2. calls' = <<f>>
    BY <1>4
  <2> HIDE DEF f
  <2>3. Chain(calls') /\ calls' # << >> /\ top' = f
    BY <2>1, <2>2, ChainFirst DEF top
  <2> QED
    BY <1>3, <2>1, <2>3 DEF Stacked
<1>6. Counts'
  BY <1>3, <1>5 DEF Counts
<1>7. Settled'
  BY <1>5 DEF Settled, At
<1> QED
  BY <1>3, <1>5, <1>2, <1>6, <1>7, Whole

LEMMA EndTemplateInv == IInv /\ EndTemplate => IInv'
<1> SUFFICES ASSUME IInv, EndTemplate PROVE IInv'
  OBVIOUS
<1>1. captures = << >>
  BY Parts, Innermost DEF EndTemplate
<1>2. /\ captures' = << >> /\ calls' = << >> /\ out' = << >> /\ exc' = "none"
      /\ UNCHANGED <<limits, settled, handled, older>>
  BY <1>1 DEF EndTemplate, history
<1>3. Accounts' /\ Books'
  BY <1>1, <1>2, Parts, SameAccounts
<1>4. Stacked' /\ Counts' /\ Settled'
  BY <1>2 DEF Stacked, Chain, Counts, Settled, At
<1> QED
  BY <1>2, <1>3, <1>4, Whole

LEMMA RenderInv == IInv /\ Render => IInv'
<1> SUFFICES ASSUME IInv, NEW score \in Scores,
                    At({"template", "node", "value", "capture", "private"}),
                    limits' = [limits EXCEPT !.render = @ + score],
                    exc' = Raised(limits.render + score > RenderScoreLimit),
                    UNCHANGED <<captures, out, settled, handled, older>>,
                    calls' = IF exc' = "none"
                             THEN Push("vm", top.call = "capture" => top.due) ELSE calls
             PROVE  IInv'
  BY DEF Render, history
<1>1. /\ calls # << >> /\ exc = "none" /\ top.call \in {"template", "node", "value", "capture", "private"}
      /\ Stacked /\ Counts /\ Accounts /\ Books /\ Settled /\ WithinScores
  BY Parts DEF At
<1>2. /\ top \in Call0 /\ score \in Nat /\ exc' \in {"none", "memory"}
      /\ limits.render \in Nat /\ RenderScoreLimit \in Nat
  BY <1>1, Innermost, LimitsAssumption DEF Raised, Accounts
<1>3. /\ limits' \in [reached : BOOLEAN, last : Int, render : Nat, assign : Int]
      /\ limits'.last = limits.last /\ limits'.assign = limits.assign
      /\ limits'.render = limits.render + score
  BY <1>1, <1>2 DEF Accounts
<1>4. Accounts' /\ Books'
  BY <1>1, <1>3 DEF Accounts, Books, Ledger, Fresh, OpenCharges, innermost
<1>5. exc' = "none" => WithinScores'
  BY <1>1, <1>2, <1>3 DEF WithinScores, Within, Raised
<1>6. CASE exc' = "none"
  <2> DEFINE due == top.call = "capture" => top.due
  <2>1. due \in BOOLEAN
    BY <1>2 DEF Call0
  <2>2. calls' = Push("vm", due)
    BY <1>6
  <2> HIDE DEF due
  <2>3. Enters("vm", due)
    BY <1>1, <1>6, <2>1, <2>2 DEF Enters, Kinds, Counts
  <2>4. Stacked' /\ Counts' /\ calls' # << >> /\ top'.call = "vm" /\ top'.due = due
    <3>1. captures' \in Seq([saved : Int, from : Int, owed : Int]) /\ out' \in Seq(Nat)
      BY <1>1 DEF Counts
    <3> QED
      BY <1>1, <2>3, <3>1, EntersKeeps
  <2>5. Settled'
    <3> SUFFICES ASSUME ~due PROVE Settled'
      BY <2>4 DEF Settled, At
    <3>1. top.call = "capture" /\ ~top.due
      BY DEF due
    <3>2. IF limits.last >= 0 THEN limits.last = written ELSE written <= RenderLengthLimit
      BY <1>1, <3>1 DEF Settled, At
    <3>3. written' = written
      BY DEF written
    <3> QED
      BY <1>3, <3>2, <3>3 DEF Settled
  <2> QED
    BY <1>4, <1>5, <1>6, <2>4, <2>5, Whole
<1>7. CASE exc' = "memory"
  <2>1. Stacked' /\ Counts'
    <3>1. /\ calls' = calls /\ out' \in Seq(Nat) /\ Len(out') = Len(out)
          /\ captures' \in Seq([saved : Int, from : Int, owed : Int]) /\ Len(captures') = Len(captures)
      BY <1>1, <1>7 DEF Counts
    <3> QED
      BY <1>1, <1>7, <3>1, StaysKeeps
  <2>2. Settled'
    BY <1>7 DEF Settled, At
  <2> QED
    BY <1>4, <1>7, <2>1, <2>2, Whole
<1> QED
  BY <1>2, <1>6, <1>7

LEMMA WriteRawInv == IInv /\ WriteRaw => IInv'
<1> SUFFICES ASSUME IInv, NEW n \in Sizes, At({"vm"}), out' = Appended(n),
                    IncrementWriteScore(written + n), calls' = WithDue(calls, FALSE),
                    UNCHANGED <<captures, settled, handled, older>>
             PROVE  IInv'
  BY DEF WriteRaw, history
<1>1. /\ calls # << >> /\ exc = "none" /\ top.call = "vm"
      /\ Stacked /\ Counts /\ Accounts /\ Books /\ WithinScores
  BY Parts DEF At
<1>2. /\ out \in Seq(Nat) /\ out # << >> /\ n \in Nat
  BY <1>1, Innermost, LimitsAssumption DEF Counts
<1>3. /\ out' \in Seq(Nat) /\ Len(out') = Len(out) /\ written' = written + n /\ written + n \in Nat
  BY <1>2, AppendedFacts DEF written
<1>4. /\ Accounts' /\ Books' /\ exc' \in {"none", "memory"}
      /\ exc' = "none" => IF limits'.last >= 0 THEN limits'.last = written'
                          ELSE written' <= RenderLengthLimit
      /\ WithinScores /\ exc' = "none" => WithinScores'
  BY <1>1, <1>3, Charged
<1>5. Stacked' /\ Counts'
  <2>1. captures' \in Seq([saved : Int, from : Int, owed : Int]) /\ Len(captures') = Len(captures)
    BY <1>1 DEF Counts
  <2> QED
    BY <1>1, <1>3, <2>1, StaysKeeps
<1>6. Settled'
  BY <1>4 DEF Settled, At
<1> QED
  BY <1>1, <1>4, <1>5, <1>6, Whole

LEMMA CallInv == IInv /\ Call => IInv'
<1> SUFFICES ASSUME IInv, At({"vm"}), UNCHANGED <<limits, captures, out, exc, settled, handled, older>>,
                    NEW kind \in {"node", "value"}, calls' = Push(kind, TRUE)
             PROVE  IInv'
  BY DEF Call, history
<1>1. /\ calls # << >> /\ exc = "none" /\ top.call = "vm"
      /\ Stacked /\ Counts /\ Accounts /\ Books /\ WithinScores
  BY Parts DEF At
<1>2. Stacked' /\ Counts' /\ calls' # << >> /\ top'.due = TRUE
  <2>1. Enters(kind, TRUE)
    BY <1>1 DEF Enters, Kinds, Counts
  <2>2. captures' \in Seq([saved : Int, from : Int, owed : Int]) /\ out' \in Seq(Nat)
    BY <1>1 DEF Counts
  <2> QED
    BY <1>1, <2>1, <2>2, EntersKeeps
<1>3. Accounts' /\ Books' /\ WithinScores'
  BY <1>1, SameAccounts
<1>4. Settled'
  BY <1>2 DEF Settled, At
<1> QED
  BY <1>1, <1>2, <1>3, <1>4, Whole

(* A call returns to the VM, which writes what there is.                    *)
LEMMA ReturnsInv ==
    ASSUME IInv, calls # << >>, top.call \in {"node", "value"}, NEW n \in Sizes,
           out' = Appended(n), IncrementWriteScore(written + n), calls' = WithDue(Below, FALSE),
           exc # "memory", UNCHANGED <<captures, settled, handled, older>>
    PROVE  IInv'
<1>1. Stacked /\ Counts /\ Accounts /\ Books /\ WithinScores
  BY Parts
<1>2. /\ out \in Seq(Nat) /\ out # << >> /\ n \in Nat
  BY <1>1, Innermost, LimitsAssumption DEF Counts
<1>3. /\ out' \in Seq(Nat) /\ Len(out') = Len(out) /\ written' = written + n /\ written + n \in Nat
  BY <1>2, AppendedFacts DEF written
<1>4. /\ Accounts' /\ Books' /\ exc' \in {"none", "memory"}
      /\ exc' = "none" => IF limits'.last >= 0 THEN limits'.last = written'
                          ELSE written' <= RenderLengthLimit
      /\ WithinScores /\ exc' = "none" => WithinScores'
  BY <1>1, <1>3, Charged
<1>5. Stacked' /\ Counts'
  <2>1. exc' # "error" /\ Len(out) \in Int /\ Len(captures) \in Int
    BY <1>1, <1>2, <1>4 DEF Counts
  <2>2. /\ Len(out') = Len(out) - (IF top.call \in {"capture", "private"} THEN 1 ELSE 0)
        /\ Len(captures') = Len(captures) - (IF top.call = "capture" THEN 1 ELSE 0)
    BY <1>3, <2>1
  <2>3. captures' \in Seq([saved : Int, from : Int, owed : Int])
    BY <1>1 DEF Counts
  <2>4. top.call # "template" /\ (calls' = Below \/ \E d \in BOOLEAN : calls' = WithDue(Below, d))
    OBVIOUS
  <2> QED
    BY <1>1, <1>3, <2>1, <2>2, <2>3, <2>4, LeavesKeeps
<1>6. Settled'
  BY <1>4 DEF Settled, At
<1> QED
  BY <1>1, <1>4, <1>5, <1>6, Whole

(* A call is left, and nothing is known of what it wrote.                   *)
LEMMA GivesUpInv ==
    ASSUME IInv, calls # << >>, top.call \in {"vm", "node", "value", "private"},
           out' \in Seq(Nat), Len(out') = Len(out) - (IF top.call = "private" THEN 1 ELSE 0),
           exc' \in {exc, "none"}, UNCHANGED <<limits, captures, settled, handled, older>>,
           exc # "memory" \/ exc' = "memory",
           calls' = Below \/ \E d \in BOOLEAN : calls' = WithDue(Below, d),
           exc' = "none" => \/ calls' = WithDue(Below, TRUE)
                            \/ top.call = "private"
    PROVE  IInv'
<1>1. Stacked /\ Counts /\ Accounts /\ Books /\ exc \in {"none", "error", "memory"}
  BY Parts
<1>2. /\ Stacked' /\ Counts' /\ calls' # << >> /\ On(top', top)
      /\ calls' = WithDue(Below, TRUE) => top'.due = TRUE
  <2>1. Len(out') = Len(out) - (IF top.call \in {"capture", "private"} THEN 1 ELSE 0)
    OBVIOUS
  <2>2. Len(captures') = Len(captures) - (IF top.call = "capture" THEN 1 ELSE 0)
    BY <1>1 DEF Counts
  <2> QED
    BY <1>1, <2>1, <2>2, LeavesKeeps DEF Counts
<1>3. Accounts' /\ Books' /\ (exc' # "memory" => WithinScores')
  BY <1>1, SameAccounts, Parts
<1>4. Settled'
  <2>1. top.call = "private" => top'.call \in {"node", "value"}
    BY <1>2 DEF On
  <2> QED
    BY <1>2, <2>1 DEF Settled, At
<1> QED
  BY <1>1, <1>2, <1>3, <1>4, Whole

LEMMA NodeReturnsInv == IInv /\ NodeReturns => IInv'
BY ReturnsInv DEF NodeReturns, history

LEMMA ValueReturnsInv == IInv /\ ValueReturns => IInv'
BY ReturnsInv DEF ValueReturns, At, history

LEMMA ValueFailsInv == IInv /\ ValueFails => IInv'
<1> SUFFICES ASSUME IInv, calls # << >>, top.call = "value", exc # "none",
                    NEW n \in Sizes, out' = Appended(n),
                    exc' \in IF exc = "error" THEN {"none", "error"} ELSE {exc},
                    calls' = WithDue(Below, TRUE), UNCHANGED <<limits, captures, settled, handled, older>>
             PROVE  IInv'
  BY DEF ValueFails, history
<1>1. out \in Seq(Nat) /\ out # << >> /\ n \in Nat /\ Len(out) \in Int
  BY Parts, Innermost, LimitsAssumption DEF Counts
<1>2. out' \in Seq(Nat) /\ Len(out') = Len(out) - 0
  BY <1>1, AppendedFacts
<1>3. exc' \in {exc, "none"} /\ (exc # "memory" \/ exc' = "memory")
  OBVIOUS
<1> QED
  BY <1>2, <1>3, GivesUpInv

LEMMA PassesInv == IInv /\ Passes => IInv'
<1> SUFFICES ASSUME IInv, exc # "none", calls # << >>, top.call \in {"vm", "node"},
                    calls' = Below, UNCHANGED <<limits, captures, out, exc, settled, handled, older>>
             PROVE  IInv'
  BY DEF Passes, history
<1>1. out' \in Seq(Nat) /\ Len(out') = Len(out) - 0
  BY Parts DEF Counts
<1>2. exc # "memory" \/ exc' = "memory"
  OBVIOUS
<1> QED
  BY <1>1, <1>2, GivesUpInv

LEMMA EndPrivateInv == IInv /\ EndPrivate => IInv'
<1> DEFINE n == out[Len(out) - 1]
<1> SUFFICES ASSUME IInv, calls # << >>, top.call = "private", NEW m \in {0, written},
                    out' = Append(Pop(Pop(out)), n + m), calls' = Below,
                    UNCHANGED <<limits, captures, exc, settled, handled, older>>
             PROVE  IInv'
  BY DEF EndPrivate, history
<1>1. out \in Seq(Nat) /\ Len(out) >= 2 /\ Len(out) \in Nat /\ m \in Nat
  BY Parts, Innermost DEF Counts
<1>2. n \in Nat
  BY <1>1
<1>3. Pop(Pop(out)) \in Seq(Nat) /\ Len(Pop(Pop(out))) = Len(out) - 2
  BY <1>1, PopTwice
<1>4. n + m \in Nat
  BY <1>1, <1>2
<1>5. out' \in Seq(Nat) /\ Len(out') = Len(out) - 1
  BY <1>1, <1>3, <1>4
<1>6. exc # "memory" \/ exc' = "memory"
  OBVIOUS
<1> QED
  BY <1>5, <1>6, GivesUpInv

LEMMA LeaveInv == IInv /\ Leave => IInv'
<1> SUFFICES ASSUME IInv, At({"vm"}), calls' = WithDue(Below, top.due),
                    UNCHANGED <<limits, captures, out, exc, settled, handled, older>>
             PROVE  IInv'
  BY DEF Leave, history
<1>1. /\ calls # << >> /\ exc = "none" /\ top.call = "vm" /\ Settled
      /\ Stacked /\ Counts /\ Accounts /\ Books /\ WithinScores
  BY Parts DEF At
<1>2. top.due \in BOOLEAN
  BY <1>1, Innermost DEF Call0
<1>3. Stacked' /\ Counts' /\ calls' # << >> /\ top'.due = (top.due \/ top'.call \in Ruby)
  <2>1. Len(out') = Len(out) - 0 /\ Len(captures') = Len(captures) - 0
    BY <1>1 DEF Counts
  <2> QED
    BY <1>1, <1>2, <2>1, LeavesKeeps DEF Counts
<1>4. Accounts' /\ Books' /\ WithinScores'
  BY <1>1, SameAccounts
<1>5. Settled'
  <2> SUFFICES ASSUME ~top.due
               PROVE  IF limits'.last >= 0 THEN limits'.last = written'
                      ELSE written' <= RenderLengthLimit
    BY <1>3 DEF Settled, At, Ruby
  <2>1. IF limits.last >= 0 THEN limits.last = written ELSE written <= RenderLengthLimit
    BY <1>1 DEF Settled, At
  <2> QED
    BY <2>1 DEF written
<1> QED
  BY <1>1, <1>3, <1>4, <1>5, Whole

(* The node and its VM are left at once.                                    *)
LEMMA NodeInterruptsInv == IInv /\ NodeInterrupts => IInv'
<1> SUFFICES ASSUME IInv, At({"node"}), calls' = WithDue(Pop(Below), TRUE),
                    UNCHANGED <<limits, captures, out, exc, settled, handled, older>>
             PROVE  IInv'
  BY DEF NodeInterrupts, history
<1> DEFINE n == Len(calls)
           vm == calls[n - 1]
           from == calls[n - 2]
<1>1. /\ calls # << >> /\ exc = "none" /\ top.call = "node"
      /\ Stacked /\ Counts /\ Accounts /\ Books /\ WithinScores /\ Chain(calls)
  BY Parts DEF At, Stacked
<1>2. /\ Chain(Below) /\ Below # << >> /\ Len(Below) = n - 1 /\ n \in Nat
      /\ Below[Len(Below)] = vm /\ On(vm, top) /\ vm \in Call0
  BY <1>1, TopFacts, ChainPop DEF Below, top
<1>3. vm.call = "vm" /\ vm.strings = top.strings /\ vm.depth = top.depth
  BY <1>1, <1>2 DEF On, Call0
<1>4. /\ Chain(Pop(Below)) /\ Pop(Below) # << >> /\ Len(Pop(Below)) \in Nat
      /\ LET g == Pop(Below)[Len(Pop(Below))]
         IN On(g, vm) /\ g \in Call0
  BY <1>2, <1>3, TopFacts, ChainPop
<1>5. /\ Chain(calls') /\ calls' # << >> /\ top'.due = TRUE
      /\ top'.strings = vm.strings /\ top'.depth = vm.depth
  <2> DEFINE below == Pop(Below)
             g == below[Len(below)]
  <2>1. g.strings = vm.strings /\ g.depth = vm.depth
    BY <1>2, <1>3, <1>4 DEF On, Call0
  <2>2. /\ Chain(calls') /\ calls' # << >> /\ Len(calls') = Len(below)
        /\ calls'[Len(below)].due = TRUE
        /\ calls'[Len(below)].strings = g.strings /\ calls'[Len(below)].depth = g.depth
    BY <1>4, ChainDue
  <2> QED
    BY <2>1, <2>2 DEF top
<1>6. Stacked' /\ Counts'
  <2>1. top'.strings = Len(out') /\ top'.depth = Len(captures')
    BY <1>1, <1>3, <1>5 DEF Counts
  <2>2. exc' # "error"
    BY <1>1
  <2> QED
    BY <1>1, <1>5, <2>1, <2>2 DEF Stacked, Counts
<1>7. Accounts' /\ Books' /\ WithinScores'
  BY <1>1, SameAccounts
<1>8. Settled'
  BY <1>5 DEF Settled, At
<1> QED
  BY <1>1, <1>6, <1>7, <1>8, Whole

LEMMA NodeWritesInv == IInv /\ NodeWrites => IInv'
<1> SUFFICES ASSUME IInv, NEW n \in Sizes, At({"node"}), out' = Appended(n),
                    UNCHANGED <<limits, captures, calls, exc, settled, handled, older>>
             PROVE  IInv'
  BY DEF NodeWrites, history
<1>1. /\ calls # << >> /\ exc = "none" /\ top.call = "node"
      /\ Stacked /\ Counts /\ Accounts /\ Books /\ WithinScores
  BY Parts DEF At
<1>2. out' \in Seq(Nat) /\ Len(out') = Len(out)
  BY <1>1, Innermost, LimitsAssumption, AppendedFacts DEF Counts
<1>3. Stacked' /\ Counts' /\ calls' # << >> /\ top'.call = "node"
  BY <1>1, <1>2, StaysKeeps DEF Counts
<1>4. Accounts' /\ Books' /\ WithinScores'
  BY <1>1, SameAccounts
<1>5. Settled'
  BY <1>3 DEF Settled, At
<1> QED
  BY <1>1, <1>3, <1>4, <1>5, Whole

LEMMA FailInv == IInv /\ Fail => IInv'
<1> SUFFICES ASSUME IInv, At({"node", "value", "capture", "private"}), exc' = "error",
                    UNCHANGED <<limits, captures, out, calls, settled, handled, older>>
             PROVE  IInv'
  BY DEF Fail, history
<1>1. /\ calls # << >> /\ exc = "none" /\ top.call \in {"node", "value", "capture", "private"}
      /\ Stacked /\ Counts /\ Accounts /\ Books /\ WithinScores
  BY Parts DEF At
<1>2. Stacked' /\ Counts'
  <2>1. out' \in Seq(Nat) /\ Len(out') = Len(out)
    BY <1>1 DEF Counts
  <2> QED
    BY <1>1, <2>1, StaysKeeps DEF Counts
<1>3. Accounts' /\ Books' /\ WithinScores'
  BY <1>1, SameAccounts
<1>4. Settled'
  BY DEF Settled, At
<1> QED
  BY <1>1, <1>2, <1>3, <1>4, Whole

LEMMA AssignInv == IInv /\ Assign => IInv'
<1> SUFFICES ASSUME IInv, NEW n \in Scores, At({"node"}), IncrementAssignScore(n),
                    settled' = settled + n, UNCHANGED <<captures, out, calls, handled, older>>
             PROVE  IInv'
  BY DEF Assign
<1>1. /\ calls # << >> /\ exc = "none" /\ top.call = "node" /\ n \in Nat
      /\ Stacked /\ Counts /\ Accounts /\ Books /\ WithinScores
  BY Parts, LimitsAssumption DEF At
<1>2. /\ limits' = [limits EXCEPT !.assign = limits.assign + n]
      /\ exc' = Raised(limits.assign + n > AssignScoreLimit)
  BY DEF IncrementAssignScore
<1>3. /\ limits \in [reached : BOOLEAN, last : Int, render : Nat, assign : Int]
      /\ limits.assign + n \in Int /\ settled' \in Int
  BY <1>1 DEF Accounts
<1>4. /\ limits' \in [reached : BOOLEAN, last : Int, render : Nat, assign : Int]
      /\ limits'.last = limits.last /\ limits'.render = limits.render
      /\ limits'.assign = limits.assign + n
  BY <1>2, <1>3
<1>5. Accounts'
  BY <1>1, <1>3, <1>4 DEF Accounts, innermost
<1>6. OpenCharges' = OpenCharges
  BY <1>4 DEF OpenCharges, innermost
<1>7. Books'
  <2>1. limits.assign = settled + OpenCharges /\ Saved(captures) /\ Fresh
    BY <1>1, BooksParts
  <2>2. OpenCharges \in Int
    BY <1>1, OpenInteger
  <2>3. limits'.assign = settled' + OpenCharges'
    BY <1>1, <1>3, <1>4, <1>6, <2>1, <2>2 DEF Accounts
  <2> QED
    BY <2>1, <2>3, BooksNext DEF Fresh
<1>8. exc' \in {"none", "memory"} /\ (exc' = "none" => WithinScores')
  BY <1>1, <1>2, <1>3, <1>4, LimitsAssumption DEF Raised, WithinScores, Within
<1>9. Stacked' /\ Counts' /\ calls' # << >> /\ top'.call = "node"
  <2>1. out' \in Seq(Nat) /\ Len(out') = Len(out)
    BY <1>1 DEF Counts
  <2> QED
    BY <1>1, <2>1, StaysKeeps DEF Counts
<1>10. Settled'
  BY <1>9 DEF Settled, At
<1> QED
  BY <1>5, <1>7, <1>8, <1>9, <1>10, Whole

LEMMA BeginPrivateInv == IInv /\ BeginPrivate => IInv'
<1> SUFFICES ASSUME IInv, At({"node", "value"}), out' = Append(out, 0),
                    UNCHANGED <<limits, captures, exc, settled, handled, older>>, calls' = Push("private", TRUE)
             PROVE  IInv'
  BY DEF BeginPrivate, history
<1>1. /\ calls # << >> /\ exc = "none" /\ top.call \in {"node", "value"}
      /\ Stacked /\ Counts /\ Accounts /\ Books /\ WithinScores
  BY Parts DEF At
<1>2. /\ out' \in Seq(Nat) /\ Len(out') = Len(out) + 1
      /\ captures' \in Seq([saved : Int, from : Int, owed : Int]) /\ Len(captures') = Len(captures) + 0
  BY <1>1 DEF Counts
<1>3. Enters("private", TRUE)
  BY <1>1, <1>2 DEF Enters, Kinds
<1>4. Stacked' /\ Counts' /\ calls' # << >> /\ top'.due = TRUE
  BY <1>1, <1>2, <1>3, EntersKeeps
<1>5. Accounts' /\ Books' /\ WithinScores'
  BY <1>1, SameAccounts
<1>6. Settled'
  BY <1>4 DEF Settled, At
<1> QED
  BY <1>1, <1>4, <1>5, <1>6, Whole
LEMMA BeginCaptureInv == IInv /\ BeginCapture => IInv'
<1> SUFFICES ASSUME IInv, At({"node", "value"}),
                    captures' = Append(captures, [saved |-> limits.last, from |-> 0, owed |-> OpenCharges]),
                    limits' = [limits EXCEPT !.last = 0], out' = Append(out, 0),
                    calls' = Push("capture", FALSE), UNCHANGED <<exc, settled, handled, older>>
             PROVE  IInv'
  BY DEF BeginCapture, history
<1> DEFINE c == [saved |-> limits.last, from |-> 0, owed |-> OpenCharges]
           n == Len(captures)
<1>1. /\ calls # << >> /\ exc = "none" /\ top.call \in {"node", "value"}
      /\ Stacked /\ Counts /\ Accounts /\ Books /\ WithinScores
  BY Parts DEF At
<1>2. /\ captures \in Seq([saved : Int, from : Int, owed : Int]) /\ n \in Nat
      /\ limits \in [reached : BOOLEAN, last : Int, render : Nat, assign : Int]
  BY <1>1 DEF Counts, Accounts
<1>3. OpenCharges \in Int
  BY <1>1, OpenInteger
<1>4. /\ c \in [saved : Int, from : Int, owed : Int] /\ c.saved = limits.last /\ c.from = 0
      /\ c.owed = OpenCharges
  BY <1>2, <1>3
<1>5. /\ captures' = Append(captures, c)
  OBVIOUS
<1> HIDE DEF c
<1>6. /\ captures' \in Seq([saved : Int, from : Int, owed : Int]) /\ captures' # << >> /\ Len(captures') = n + 1
      /\ captures'[n + 1] = c /\ \A i \in 1..n : captures'[i] = captures[i]
  BY <1>2, <1>4, <1>5, AppendFacts
<1>7. /\ limits' \in [reached : BOOLEAN, last : Int, render : Nat, assign : Int]
      /\ limits'.last = 0 /\ limits'.assign = limits.assign /\ limits'.render = limits.render
  <2>1. 0 \in Int
    OBVIOUS
  <2> QED
    BY <1>2, <2>1, RecordRestored
<1>8. Accounts' /\ WithinScores'
  <2>1. innermost' = c
    BY <1>2, <1>6 DEF innermost
  <2>2. older' \in 0..Len(captures') /\ settled' \in Int
    BY <1>1, <1>2, <1>6 DEF Accounts
  <2>3. handled' \in BOOLEAN
    BY <1>1, Zenon DEF Accounts
  <2>4. Within => Within'
    BY <1>7 DEF Within
  <2>5. WithinScores'
    BY <1>1, <2>4, Zenon DEF WithinScores
  <2>6. limits'.last >= 0 /\ innermost'.from >= 0 /\ limits'.last >= -1
    BY <1>4, <1>7, <2>1
  <2> QED
    BY <1>6, <1>7, <2>2, <2>3, <2>5, <2>6 DEF Accounts
<1>9. Books'
  <2>1. limits.assign = settled + OpenCharges /\ Saved(captures) /\ Fresh
    BY <1>1, BooksParts
  <2>2. OpenCharges' = OpenCharges
    <3>1. innermost' = c
      BY <1>2, <1>6 DEF innermost
    <3>2. OpenCharges' = OpenCharges + 0 - 0
      BY <3>1, <1>4, <1>6, <1>7, Zenon DEF OpenCharges
    <3> QED
      BY <3>2, <1>3
  <2>3. IF n + 1 = 1 THEN c.saved = -1 /\ c.owed = 0 ELSE Follows(captures[n], c)
    <3>1. CASE captures = << >>
      <4>1. limits.last = -1 /\ OpenCharges = 0 /\ n = 0
        BY <1>1, <1>2, <3>1, NoOpen DEF Accounts
      <4> QED
        BY <4>1, <1>4
    <3>2. CASE captures # << >>
      <4>1. /\ limits.last >= 0 <=> captures[n].from >= 0
            /\ OpenCharges = captures[n].owed + limits.last - captures[n].from /\ n # 0
        BY <1>1, <1>2, <3>2, OpenFacts DEF Accounts, innermost
      <4> QED
        BY <4>1, <1>2, <1>4 DEF Follows
    <3> QED
      BY <3>1, <3>2
  <2>4. Saved(captures')
    <3> SUFFICES ASSUME NEW i \in 1..n + 1
                 PROVE  IF i = 1 THEN captures'[i].saved = -1 /\ captures'[i].owed = 0
                        ELSE Follows(captures'[i - 1], captures'[i])
      BY <1>6 DEF Saved
    <3>1. CASE i = n + 1
      <4>1. n + 1 # 1 => captures'[(n + 1) - 1] = captures[n]
        BY <1>2, <1>6
      <4> QED
        BY <3>1, <4>1, <2>3, <1>6
    <3>2. CASE i # n + 1
      <4>1. i \in 1..n /\ (i # 1 => i - 1 \in 1..n)
        BY <3>2, <1>2
      <4>2. captures'[i] = captures[i] /\ (i # 1 => captures'[i - 1] = captures[i - 1])
        BY <4>1, <1>6
      <4> QED
        BY <4>1, <4>2, <2>1 DEF Saved
    <3> QED
      BY <3>1, <3>2
  <2>5. Fresh'
    <3> SUFFICES ASSUME NEW i \in 1..n + 1
                 PROVE  captures'[i].saved >= -1 /\ (i > older => captures'[i].from = 0)
      BY <1>6 DEF Fresh
    <3>1. i = n + 1 \/ i \in 1..n
      BY <1>2
    <3>2. limits.last >= -1
      BY <1>1 DEF Accounts
    <3> QED
      BY <3>1, <3>2, <2>1, <1>4, <1>6 DEF Fresh
  <2> QED
    BY <2>1, <2>2, <2>4, <2>5, <1>7, BooksNext
<1>10. out' \in Seq(Nat) /\ Len(out') = Len(out) + 1 /\ written' = 0
  <2>1. out \in Seq(Nat)
    BY <1>1 DEF Counts
  <2> QED
    BY <2>1 DEF written
<1>11. Stacked' /\ Counts' /\ calls' # << >>
  <2>1. Enters("capture", FALSE)
    BY <1>1, <1>6, <1>10 DEF Enters, Kinds
  <2> QED
    BY <1>1, <1>6, <1>10, <2>1, EntersKeeps
<1>12. Settled'
  BY <1>7, <1>10 DEF Settled
<1> QED
  BY <1>1, <1>8, <1>9, <1>11, <1>12, Whole

(* The charges of the captures that stay open are those the ledger has of    *)
(* the one that ends.                                                      *)
LEMMA EndedFacts ==
    ASSUME IInv, EndCapture
    PROVE  /\ captures # << >> /\ captures' \in Seq([saved : Int, from : Int, owed : Int])
           /\ Len(captures') = Len(captures) - 1
           /\ Saved(captures') /\ Fresh' /\ Accounts' /\ limits'.assign = limits.assign
           /\ OpenCharges' = OpenCharges - (limits.last - innermost.from)
           /\ limits.last - innermost.from \in Int
           /\ OpenCharges \in Int /\ limits'.render = limits.render
           /\ older < Len(captures) => limits.last - innermost.from >= 0
<1> DEFINE n == Len(captures)
           c == captures[n]
<1>1. /\ calls # << >> /\ top.call = "capture" /\ captures' = Pop(captures) /\ c = innermost
      /\ limits' = [limits EXCEPT !.last = c.saved] /\ settled' = settled + limits.last - c.from
      /\ older' = (IF older < n THEN older ELSE n - 1) /\ handled' = handled
      /\ Stacked /\ Counts /\ Accounts /\ Books
  BY Parts DEF EndCapture, innermost
<1>2. captures # << >> /\ captures \in Seq([saved : Int, from : Int, owed : Int])
  BY <1>1, Innermost DEF Counts
<1>3. /\ c \in [saved : Int, from : Int, owed : Int] /\ n \in Nat \ {0} /\ limits.last \in Int
      /\ OpenCharges = c.owed + limits.last - c.from /\ older \in 0..n
      /\ limits.last >= 0 <=> c.from >= 0
  BY <1>1, <1>2, LastElement, OpenFacts DEF Accounts
<1>4. /\ captures' \in Seq([saved : Int, from : Int, owed : Int]) /\ Len(captures') = n - 1
      /\ \A i \in 1..n - 1 : captures'[i] = captures[i]
  BY <1>1, <1>2, PopFacts
<1>5. Saved(captures) /\ Fresh
  BY <1>1, BooksParts
<1>6. IF n = 1 THEN c.saved = -1 /\ c.owed = 0 ELSE Follows(captures[n - 1], c)
  <2>1. n \in 1..n
    BY <1>3
  <2> QED
    BY <2>1, <1>5 DEF Saved
<1>7. /\ limits' \in [reached : BOOLEAN, last : Int, render : Nat, assign : Int]
      /\ limits'.last = c.saved /\ limits'.assign = limits.assign
      /\ limits'.render = limits.render
  <2> DEFINE saved == c.saved
  <2>1. /\ limits \in [reached : BOOLEAN, last : Int, render : Nat, assign : Int]
        /\ saved \in Int /\ limits' = [limits EXCEPT !.last = saved]
    BY <1>1, <1>3 DEF Accounts
  <2> HIDE DEF saved
  <2>2. /\ limits' \in [reached : BOOLEAN, last : Int, render : Nat, assign : Int]
        /\ limits'.last = saved /\ limits'.assign = limits.assign
        /\ limits'.render = limits.render
    BY <2>1, RecordRestored
  <2> QED
    BY <2>2 DEF saved
<1>8. older < n => limits.last - c.from >= 0
  <2>1. older < n => c.from = 0
    BY <1>3, <1>5 DEF Fresh
  <2> QED
    BY <2>1, <1>3
<1> HIDE DEF c, n
<1>9. n = 1 <=> captures' = << >>
  BY <1>3, <1>4
<1>10. n # 1 => n - 1 \in 1..n - 1 /\ innermost' = captures[n - 1]
               /\ captures[n - 1] \in [saved : Int, from : Int, owed : Int]
  <2> SUFFICES ASSUME n # 1 
               PROVE  n - 1 \in 1..n - 1 /\ innermost' = captures[n - 1]
                      /\ captures[n - 1] \in [saved : Int, from : Int, owed : Int]
    OBVIOUS
  <2>1. n - 1 \in 1..n - 1 /\ n - 1 \in 1..n
    BY <1>3
  <2>2. innermost' = captures[n - 1]
    BY <2>1, <1>4 DEF innermost
  <2>3. captures[n - 1] \in [saved : Int, from : Int, owed : Int]
    BY <2>1, <1>2, Elements DEF n
  <2> QED
    BY <2>1, <2>2, <2>3
<1>11. Accounts'
  <2>1. settled' \in Int /\ handled' \in BOOLEAN
    BY <1>1, <1>3 DEF Accounts
  <2>2. older' \in 0..Len(captures')
    BY <1>1, <1>3, <1>4
  <2>3. limits'.last >= 0 <=> captures' # << >> /\ innermost'.from >= 0
    BY <1>3, <1>6, <1>7, <1>9, <1>10 DEF Follows
  <2>4. limits'.last >= -1
    BY <1>3, <1>5, <1>7 DEF Fresh, n, c
  <2> QED
    BY <1>7, <2>1, <2>2, <2>3, <2>4 DEF Accounts
<1>12. OpenCharges' = OpenCharges - (limits.last - c.from)
  <2>1. c.owed \in Int /\ c.from \in Int
    BY <1>3
  <2>2. CASE n = 1
    <3>1. OpenCharges' = 0
      BY <2>2, <1>9 DEF OpenCharges
    <3>2. OpenCharges - (limits.last - c.from) = c.owed
      BY <1>3, <2>1
    <3> QED
      BY <3>1, <3>2, <2>2, <1>6
  <2>3. CASE n # 1
    <3>1. OpenCharges' = captures[n - 1].owed + limits'.last - captures[n - 1].from
      BY <1>9, <1>10, <2>3 DEF OpenCharges
    <3>2. OpenCharges' = c.owed
      BY <3>1, <1>6, <1>7, <2>3 DEF Follows
    <3> QED
      BY <3>2, <1>3, <2>1
  <2> QED
    BY <2>2, <2>3
<1>13. Saved(captures')
  <2> SUFFICES ASSUME NEW i \in 1..n - 1
               PROVE  IF i = 1 THEN captures'[i].saved = -1 /\ captures'[i].owed = 0
                      ELSE Follows(captures'[i - 1], captures'[i])
    BY <1>4 DEF Saved
  <2>1. i \in 1..n /\ (i # 1 => i - 1 \in 1..n - 1)
    BY <1>3
  <2>2. captures'[i] = captures[i] /\ (i # 1 => captures'[i - 1] = captures[i - 1])
    BY <2>1, <1>4
  <2> QED
    BY <2>1, <2>2, <1>5 DEF Saved, n
<1>14. Fresh'
  <2> SUFFICES ASSUME NEW i \in 1..n - 1
               PROVE  captures'[i].saved >= -1 /\ (i > older' => captures'[i].from = 0)
    BY <1>4 DEF Fresh
  <2>1. i \in 1..n /\ (i > older' => i > older)
    BY <1>1, <1>3
  <2> QED
    BY <2>1, <1>4, <1>5 DEF Fresh, n
<1>15. OpenCharges \in Int /\ limits.last - c.from \in Int
  BY <1>3
<1> QED
  BY <1>1, <1>2, <1>3, <1>4, <1>7, <1>8, <1>11, <1>12, <1>13, <1>14, <1>15 DEF n

LEMMA EndCaptureInv == IInv /\ EndCapture => IInv'
<1> SUFFICES ASSUME IInv, EndCapture PROVE IInv'
  OBVIOUS
<1>1. /\ calls # << >> /\ top.call = "capture" /\ exc' = exc /\ out' = Pop(out)
      /\ settled' = settled + limits.last - innermost.from /\ calls' = Below /\ handled' = handled
      /\ Stacked /\ Counts /\ Accounts /\ Books /\ exc \in {"none", "error", "memory"}
      /\ exc # "memory" => WithinScores
  BY Parts DEF EndCapture
<1>2. /\ captures' \in Seq([saved : Int, from : Int, owed : Int]) /\ Len(captures') = Len(captures) - 1
      /\ Saved(captures') /\ Fresh' /\ Accounts' /\ limits'.assign = limits.assign
      /\ OpenCharges' = OpenCharges - (limits.last - innermost.from)
      /\ limits.last - innermost.from \in Int /\ OpenCharges \in Int
      /\ limits'.render = limits.render
  BY EndedFacts
<1>3. out' \in Seq(Nat) /\ Len(out') = Len(out) - 1
  <2>1. out \in Seq(Nat) /\ out # << >>
    BY <1>1, Innermost DEF Counts
  <2> QED
    BY <1>1, <2>1, PopFacts
<1>4. Stacked' /\ Counts' /\ calls' # << >> /\ On(top', top)
  BY <1>1, <1>2, <1>3, LeavesKeeps
<1>5. Books'
  <2>1. limits.assign = settled + OpenCharges /\ settled \in Int
    BY <1>1, BooksParts DEF Accounts
  <2>2. settled' = settled + (limits.last - innermost.from)
    <3>1. innermost.from \in Int /\ limits.last \in Int
      BY <1>1, Innermost, OpenFacts
    <3> QED
      BY <1>1, <2>1, <3>1
  <2>3. limits'.assign = settled' + OpenCharges'
    BY <1>2, <2>1, <2>2
  <2> QED
    BY <2>3, <1>2, BooksNext
<1>6. Settled'
  <2>1. top'.call \in {"node", "value"}
    BY <1>1, <1>4 DEF On
  <2> QED
    BY <2>1 DEF Settled, At
<1>7. exc' # "memory" => WithinScores'
  BY <1>1, <1>2 DEF WithinScores, Within
<1> QED
  BY <1>1, <1>2, <1>4, <1>5, <1>6, <1>7, Whole

LEMMA ResetPartialInv == IInv /\ ResetPartial => IInv'
<1> SUFFICES ASSUME IInv, At({"node", "value", "capture", "private"}), ResetLimits,
                    calls' = WithDue(calls, TRUE), UNCHANGED <<out, exc>>
             PROVE  IInv'
  BY DEF ResetPartial
<1>1. /\ calls # << >> /\ exc = "none" /\ Stacked /\ Counts /\ Accounts /\ Books
  BY Parts DEF At
<1>2. /\ Accounts' /\ Books' /\ WithinScores'
      /\ captures' \in Seq([saved : Int, from : Int, owed : Int]) /\ Len(captures') = Len(captures)
  BY <1>1, ResetKeeps
<1>3. Stacked' /\ Counts' /\ top'.due
  <2>1. out' \in Seq(Nat) /\ Len(out') = Len(out)
    BY <1>1 DEF Counts
  <2> QED
    BY <1>1, <1>2, <2>1, StaysKeeps
<1>4. Settled'
  BY <1>3 DEF Settled
<1> QED
  BY <1>1, <1>2, <1>3, <1>4, Whole

LEMMA RescueInv == IInv /\ Rescue => IInv'
<1> SUFFICES ASSUME IInv, calls # << >>, exc # "none", exc' = "none",
                    handled' = (handled \/ exc = "memory"), calls' = WithDue(calls, TRUE),
                    UNCHANGED <<limits, captures, out, settled, older>>
             PROVE  IInv'
  BY DEF Rescue
<1>1. /\ Stacked /\ Counts /\ Accounts /\ Books
      /\ exc # "memory" => WithinScores
  BY Parts
<1>2. Accounts' /\ Books'
  <2>1. handled' \in BOOLEAN
    BY <1>1 DEF Accounts
  <2> QED
    BY <1>1, <2>1 DEF Accounts, Books, Ledger, Fresh, OpenCharges, innermost
<1>3. WithinScores'
  <2>1. Within' <=> Within
    BY DEF Within
  <2> QED
    BY <1>1, <2>1, Zenon DEF WithinScores
<1>4. Stacked' /\ Counts' /\ top'.due
  <2>1. /\ out' \in Seq(Nat) /\ Len(out') = Len(out)
        /\ captures' \in Seq([saved : Int, from : Int, owed : Int]) /\ Len(captures') = Len(captures)
    BY <1>1 DEF Counts
  <2> QED
    BY <1>1, <2>1, StaysKeeps
<1>5. Settled'
  BY <1>4 DEF Settled
<1> QED
  BY <1>2, <1>3, <1>4, <1>5, Whole

LEMMA NextInv == IInv /\ [Next]_vars => IInv'
<1> SUFFICES ASSUME IInv, [Next]_vars PROVE IInv'
  OBVIOUS
<1>1. CASE UNCHANGED vars
  BY <1>1 DEF IInv, TypeOK, Stacked, Settled, LimitsHold, Ledger, Fresh, vars, top, written, At,
              OpenCharges, innermost, history
<1> QED
  BY <1>1, RenderTemplateInv, EndTemplateInv, ResetPartialInv, RescueInv, RenderInv, LeaveInv, WriteRawInv, CallInv,
     NodeReturnsInv, NodeInterruptsInv, ValueReturnsInv, ValueFailsInv, NodeWritesInv, AssignInv,
     BeginCaptureInv, EndCaptureInv, BeginPrivateInv, EndPrivateInv, FailInv,
     PassesInv DEF Next

-----------------------------------------------------------------------------

LEMMA Inductive == Spec => []IInv
<1>1. Init => IInv
  BY InitInv
<1>2. IInv /\ [Next]_vars => IInv'
  BY NextInv
<1> QED
  BY <1>1, <1>2, PTL DEF Spec

(* Whatever the nesting of renders, captures and strings of tags, wherever   *)
(* errors, interrupts and MemoryErrors break them off or are rescued, and    *)
(* wherever a partial resets the limits: where the VM stands after a write   *)
(* (liquid_vm.c:381-433), what is captured and counted is charged to the     *)
(* last byte, and every other output is within the render length limit.      *)
THEOREM WritesSettled == Spec => []Settled
<1>1. IInv => Settled
  BY DEF IInv
<1> QED
  BY <1>1, Inductive, PTL

(* Whatever the limits and whatever is rendered to strings or captured in    *)
(* between: a render that goes on is within its render score and its assign  *)
(* score, counted from the last reset, unless Ruby code has rescued the      *)
(* MemoryError that said otherwise.                                          *)
THEOREM NothingBeyondLimits == Spec => []LimitsHold
<1>1. IInv => LimitsHold
  BY DEF IInv
<1> QED
  BY <1>1, Inductive, PTL

(* The assign score is the ledger of the assignments and captures since the  *)
(* last reset, and with_capture (resource_limits.c) gives every capture its  *)
(* own account back, however captures nest and fail; one that was open when  *)
(* the limits were reset goes on with what it has grown since.               *)
THEOREM AccountsRight == Spec => [](TypeOK /\ Ledger)
<1>1. IInv => TypeOK /\ Ledger
  BY DEF IInv
<1> QED
  BY <1>1, Inductive, PTL
-----------------------------------------------------------------------------
(* The refinement of AssignBill.  The bill is what settled records.          *)

LEMMA BillSettled ==
    ASSUME IInv
    PROVE  /\ limits.assign - OpenCharges = settled /\ settled \in Int
           /\ Len(captures) \in Nat /\ older \in 0..Len(captures)
<1>1. Accounts /\ Counts /\ Books
  BY Parts
<1>2. OpenCharges \in Int
  BY <1>1, OpenInteger
<1>3. limits.assign = settled + OpenCharges
  BY <1>1, BooksParts
<1>4. settled \in Int /\ Len(captures) \in Nat /\ older \in 0..Len(captures)
  BY <1>1 DEF Accounts, Counts
<1> QED
  BY <1>2, <1>3, <1>4

LEMMA BillSettledNext ==
    ASSUME IInv'
    PROVE  limits'.assign - OpenCharges' = settled' /\ settled' \in Int
<1>1. Accounts' /\ Counts' /\ Ledger'
  <2>1. TypeOK' /\ Ledger'
    BY DEF IInv
  <2> QED
    BY <2>1 DEF TypeOK, Accounts, Counts, innermost
<1>2. OpenCharges' \in Int
  <2>1. CASE captures' = << >>
    BY <2>1 DEF OpenCharges
  <2>2. CASE captures' # << >>
    <3>1. captures'[Len(captures')] \in [saved : Int, from : Int, owed : Int] /\ limits'.last \in Int
      BY <1>1, <2>2, LastElement DEF Counts, Accounts
    <3> QED
      BY <3>1, <2>2 DEF OpenCharges, innermost
  <2> QED
    BY <2>1, <2>2
<1>3. limits'.assign = settled' + OpenCharges' /\ settled' \in Int
  BY <1>1 DEF Ledger, Accounts
<1>4. \A a, b \in Int : (a + b) - b = a
  OBVIOUS
<1>5. (settled' + OpenCharges') - OpenCharges' = settled'
  BY <1>2, <1>3, <1>4, Zenon
<1> QED
  BY <1>3, <1>5, Zenon

LEMMA BillStep ==
    ASSUME IInv, IInv', [Next]_vars
    PROVE  [Bill!Next]_(Bill!bvars)
<1>1. /\ limits.assign - OpenCharges = settled /\ settled \in Int
      /\ Len(captures) \in Nat /\ older \in 0..Len(captures)
  BY BillSettled
<1>2. limits'.assign - OpenCharges' = settled' /\ settled' \in Int
  BY BillSettledNext
<1>3. CASE ResetLimits
  <2>1. Len(captures') = Len(captures)
    BY <1>3, Parts, ResetKeeps
  <2>2. settled' = 0 /\ older' = Len(captures)
    BY <1>3 DEF ResetLimits
  <2> QED
    BY <1>2, <2>1, <2>2 DEF Bill!Next, Bill!Reset
<1>4. CASE Assign
  <2>1. PICK n \in Scores : settled' = settled + n /\ captures' = captures /\ older' = older
    BY <1>4 DEF Assign
  <2>2. n \in Nat
    BY LimitsAssumption
  <2>3. settled' >= settled
    BY <1>1, <2>1, <2>2
  <2> QED
    BY <1>1, <1>2, <2>1, <2>3 DEF Bill!Next, Bill!Assign, Bill!Pay
<1>5. CASE BeginCapture
  <2>1. Len(captures') = Len(captures) + 1 /\ settled' = settled /\ older' = older
    <3>1. captures \in Seq([saved : Int, from : Int, owed : Int])
      BY Parts DEF Counts
    <3>2. /\ captures' = Append(captures, [saved |-> limits.last, from |-> 0, owed |-> OpenCharges])
          /\ settled' = settled /\ older' = older
      BY <1>5 DEF BeginCapture, history
    <3> QED
      BY <3>1, <3>2
  <2> QED
    BY <1>1, <1>2, <2>1 DEF Bill!Next, Bill!BeginCapture
<1>6. CASE EndCapture
  <2>1. /\ Len(captures') = Len(captures) - 1 /\ captures # << >>
        /\ limits.last - innermost.from \in Int
        /\ older < Len(captures) => limits.last - innermost.from >= 0
    BY <1>6, EndedFacts
  <2>2. /\ settled' = settled + limits.last - innermost.from
        /\ older' = IF older < Len(captures) THEN older ELSE Len(captures) - 1
    BY <1>6 DEF EndCapture
  <2>3. Len(captures) > 0
    BY <2>1, <1>1, Parts DEF Counts
  <2>4. settled' = settled + (limits.last - innermost.from)
    <3>1. innermost.from \in Int /\ limits.last \in Int
      BY <2>1, Parts, OpenFacts
    <3> QED
      BY <1>1, <2>2, <3>1
  <2>5. CASE older < Len(captures)
    <3>1. settled' >= settled /\ older' = older
      BY <1>1, <2>1, <2>2, <2>4, <2>5
    <3> QED
      BY <1>1, <1>2, <2>1, <2>5, <3>1 DEF Bill!Next, Bill!EndCapture, Bill!Pay
  <2>6. CASE ~(older < Len(captures))
    <3>1. older = Len(captures) /\ older' = Len(captures')
      BY <1>1, <2>1, <2>2, <2>6
    <3> QED
      BY <1>1, <1>2, <2>1, <2>3, <3>1 DEF Bill!Next, Bill!EndOlderCapture
  <2> QED
    BY <2>5, <2>6
<1>7. CASE UNCHANGED <<captures, settled, older>>
  BY <1>1, <1>2, <1>7 DEF Bill!bvars
<1>8. \/ ResetLimits \/ Assign \/ BeginCapture \/ EndCapture
      \/ UNCHANGED <<captures, settled, older>>
  BY DEF Next, vars, history, RenderTemplate, EndTemplate, ResetPartial, Rescue, Render, Leave,
         WriteRaw, Call, NodeReturns, NodeInterrupts, ValueReturns, ValueFails, NodeWrites,
         BeginPrivate, EndPrivate, Fail, Passes
<1> QED
  BY <1>3, <1>4, <1>5, <1>6, <1>7, <1>8

(* Without what the open captures have been charged, the assign score is a   *)
(* bill that assignments and ends of captures add to and a reset clears: the *)
(* writes of a render, the strings of tags and the failures between them     *)
(* leave no trace on it once the captures have ended                         *)
(* (resource_limits.c:160-256).                                              *)
THEOREM BillRefined == Spec => BillImplemented
<1>1. Init => Bill!Init
  <2> SUFFICES ASSUME Init PROVE Bill!Init
    OBVIOUS
  <2>1. captures = << >> /\ limits.assign = 0 /\ OpenCharges = 0 /\ older = 0
    BY DEF Init, Reset, OpenCharges
  <2> QED
    BY <2>1 DEF Bill!Init
<1>2. IInv /\ IInv' /\ [Next]_vars => [Bill!Next]_(Bill!bvars)
  BY BillStep
<1> QED
  BY <1>1, <1>2, Inductive, PTL DEF Spec, BillImplemented, Bill!Spec
=============================================================================
