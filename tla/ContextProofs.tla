--------------------------- MODULE ContextProofs ---------------------------
(***************************************************************************)
(* Whatever places and values there are, and however deep lookups nest: the *)
(* VM of a context follows it, undefined variables raise as they are to, and *)
(* what a lookup took from a place is what the place holds.                 *)
(*                                                                         *)
(* The inductive invariant adds what a strict lookup that waits knows       *)
(* (Known): a place that has held the key all the time does, and is left to  *)
(* look in; if none has held it, none does; it asks for no value, by [] or of *)
(* a proc, unless one has.                                                  *)
(***************************************************************************)
EXTENDS Context, TLAPS

Holds(f, p) == store[p][f.key] # "missing" /\ \E n \in 1..Len(f.places) : f.places[n] = p

Known(f) ==
    f.raises /\ strict =>
        /\ ~f.fetches
        /\ \A p \in f.held : Holds(f, p)
        /\ ~f.ever => \A n \in 1..Len(f.places) : store[f.places[n]][f.key] = "missing"
        /\ f.running \in {"[]", "proc"} => f.ever

Waiting(c) ==
    /\ c \in Seq(Lookups)
    /\ \A i \in 1..Len(c) : Waits(c[i]) /\ Known(c[i])

VMMade == vm = << >> => strict = FALSE /\ calls = << >>

IInv == TypeOK /\ VMMade /\ Waiting(calls) /\ VMFollows /\ UndefinedRaises /\ ReturnedIsStored

LastTyped ==
    last \in [outcome : Outcomes, place : Places \cup {"nowhere"}, key : Keys,
              held : BOOLEAN, ever : BOOLEAN, strictly : BOOLEAN]

LastOK == LastTyped /\ UndefinedRaises /\ ReturnedIsStored

-----------------------------------------------------------------------------
LEMMA BelowFacts ==
    ASSUME NEW c \in Seq(Lookups), c # << >>
    PROVE  /\ SubSeq(c, 1, Len(c) - 1) \in Seq(Lookups)
           /\ Len(SubSeq(c, 1, Len(c) - 1)) = Len(c) - 1 /\ Len(c) \in Nat \ {0}
           /\ \A i \in 1..Len(c) - 1 : SubSeq(c, 1, Len(c) - 1)[i] = c[i]
<1> DEFINE n == Len(c) - 1
<1>1. n \in Nat /\ 1 \in Nat /\ \A i \in 1..n : c[i] \in Lookups
  OBVIOUS
<1> HIDE DEF n
<1>2. Len(SubSeq(c, 1, n)) = n /\ \A i \in 1..n : SubSeq(c, 1, n)[i] = c[i]
  BY <1>1
<1>3. SubSeq(c, 1, n) \in Seq(Lookups)
  BY <1>1
<1> QED
  BY <1>1, <1>2, <1>3 DEF n

(* The lookups that go on after the innermost                               *)
LEMMA BelowWaiting ==
    ASSUME Waiting(calls), calls # << >>
    PROVE  Waiting(Below) /\ calls[Len(calls)] \in Lookups /\ Waits(calls[Len(calls)])
           /\ Known(calls[Len(calls)])
<1>1. /\ Below \in Seq(Lookups) /\ Len(Below) = Len(calls) - 1 /\ Len(calls) \in Nat \ {0}
      /\ \A i \in 1..Len(calls) - 1 : Below[i] = calls[i]
  BY BelowFacts DEF Waiting, Below
<1>2. \A i \in 1..Len(Below) : i \in 1..Len(calls) /\ Below[i] = calls[i]
  BY <1>1
<1>3. Len(calls) \in 1..Len(calls)
  BY <1>1
<1>4. \A i \in 1..Len(Below) : Waits(Below[i]) /\ Known(Below[i])
  BY <1>2 DEF Waiting
<1>5. Waiting(Below)
  BY <1>1, <1>4 DEF Waiting
<1> QED
  BY <1>3, <1>5 DEF Waiting

(* The VM reads undefined variables as the context does                      *)
LEMMA StrictlyAsContext ==
    ASSUME VMFollows, VMMade
    PROVE  VMOfContext[1].strict = strict
<1>1. CASE vm = << >>
  BY <1>1 DEF VMMade, VMOfContext
<1>2. CASE vm # << >>
  BY <1>2 DEF VMFollows, VMOfContext
<1> QED
  BY <1>1, <1>2

(* A lookup, also one that does not wait                                     *)
Frames ==
    [places : Seq(Places), key : Keys, raises : BOOLEAN, fetches : BOOLEAN,
     running : Codes \cup {"none"}, held : SUBSET Places, ever : BOOLEAN]

LEMMA StoredContents ==
    ASSUME TypeOK, NEW p \in Places, NEW k \in Keys
    PROVE  store[p][k] \in Contents
BY DEF TypeOK

LEMMA WaitingStays ==
    ASSUME NEW c, Waiting(c), calls' = c, store' = store, strict' = strict
    PROVE  Waiting(calls)'
BY DEF Waiting, Waits, Known, Holds

LEMMA WaitingAppend ==
    ASSUME NEW c, Waiting(c), NEW g \in Lookups, Waits(g), Known(g)
    PROVE  Waiting(Append(c, g))
<1> DEFINE d == Append(c, g)
<1>1. c \in Seq(Lookups)
  BY DEF Waiting
<1>2. d \in Seq(Lookups) /\ Len(d) = Len(c) + 1 /\ Len(c) \in Nat /\ d[Len(c) + 1] = g
      /\ \A i \in 1..Len(c) : d[i] = c[i]
  BY <1>1
<1> HIDE DEF d
<1>3. \A i \in 1..Len(d) : i \in 1..Len(c) \/ i = Len(c) + 1
  BY <1>2
<1>4. \A i \in 1..Len(d) : Waits(d[i]) /\ Known(d[i])
  BY <1>2, <1>3 DEF Waiting
<1>5. Waiting(d)
  BY <1>2, <1>4 DEF Waiting
<1> QED
  BY <1>5 DEF d

(* What lookups know survives what is put anywhere                           *)
LEMMA NotedWaiting ==
    ASSUME TypeOK, NEW c, Waiting(c), NEW p \in Places, NEW k \in Keys, NEW v \in Contents,
           store' = [store EXCEPT ![p][k] = v], strict' = strict, calls' = Noted(c, p, k, v)
    PROVE  Waiting(calls)' /\ Len(calls') = Len(c) /\ store' \in [Places -> [Keys -> Contents]]
<1> DEFINE left(f) == \E n \in 1..Len(f.places) : f.places[n] = p
           of(f) == IF f.key # k THEN f
                    ELSE IF v = "missing" THEN [f EXCEPT !.held = @ \ {p}]
                    ELSE [f EXCEPT !.ever = @ \/ left(f)]
<1>1. calls' = [i \in 1..Len(c) |-> of(c[i])]
  BY DEF Noted
<1>2. c \in Seq(Lookups) /\ Len(c) \in Nat /\ \A i \in 1..Len(c) : c[i] \in Lookups
  BY DEF Waiting
<1>3. /\ store' \in [Places -> [Keys -> Contents]]
      /\ \A q \in Places, l \in Keys : store'[q][l] = IF q = p /\ l = k THEN v ELSE store[q][l]
  BY DEF TypeOK
<1>4. ASSUME NEW f \in Lookups, Waits(f), Known(f)
      PROVE  of(f) \in Lookups /\ Waits(of(f))' /\ Known(of(f))'
  <2>1. /\ f.places \in Seq(Places) /\ f.key \in Keys /\ f.held \subseteq Places
        /\ \A n \in 1..Len(f.places) : f.places[n] \in Places
    BY DEF Lookups
  <2>2. CASE f.key # k
    <3>1. of(f) = f
      BY <2>2
    <3>2. \A q \in Places : store'[q][f.key] = store[q][f.key]
      BY <1>3, <2>1, <2>2
    <3>3. Waits(f)'
      BY <1>4 DEF Waits
    <3>4. Known(f)'
      BY <1>4, <2>1, <3>2 DEF Known, Holds
    <3> QED
      BY <1>4, <3>1, <3>3, <3>4
  <2>3. CASE f.key = k /\ v = "missing"
    <3> DEFINE g == [f EXCEPT !.held = @ \ {p}]
    <3>1. of(f) = g
      BY <2>3
    <3>2. /\ g \in Lookups /\ g.places = f.places /\ g.key = f.key /\ g.raises = f.raises
          /\ g.fetches = f.fetches /\ g.running = f.running /\ g.held = f.held \ {p}
          /\ g.ever = f.ever
      BY DEF Lookups
    <3> HIDE DEF g
    <3>3. Waits(g)'
      BY <1>4, <3>2 DEF Waits
    <3>4. \A q \in Places : store'[q][k] = IF q = p THEN "missing" ELSE store[q][k]
      BY <1>3, <2>3
    <3>5. Known(g)'
      BY <1>4, <2>1, <2>3, <3>2, <3>4 DEF Known, Holds
    <3> QED
      BY <3>1, <3>2, <3>3, <3>5
  <2>4. CASE f.key = k /\ v # "missing"
    <3> DEFINE g == [f EXCEPT !.ever = @ \/ left(f)]
    <3>1. of(f) = g
      BY <2>4
    <3>2. /\ g.places = f.places /\ g.key = f.key /\ g.raises = f.raises
          /\ g.fetches = f.fetches /\ g.running = f.running /\ g.held = f.held
          /\ g.ever = (f.ever \/ left(f))
      BY DEF Lookups
    <3>3. g \in Lookups
      BY DEF Lookups
    <3> HIDE DEF g
    <3>4. Waits(g)'
      BY <1>4, <3>2 DEF Waits
    <3>5. \A q \in Places : store'[q][k] = IF q = p THEN v ELSE store[q][k]
      BY <1>3
    <3>6. ASSUME f.raises /\ strict
          PROVE  /\ ~g.fetches
                 /\ \A q \in g.held : store'[q][k] # "missing" /\ \E n \in 1..Len(f.places) : f.places[n] = q
      BY <1>4, <2>1, <2>4, <3>2, <3>5, <3>6 DEF Known, Holds
    <3>7. ASSUME f.raises /\ strict, ~g.ever, NEW n \in 1..Len(f.places)
          PROVE  store'[f.places[n]][k] = "missing"
      <4>1. ~f.ever /\ ~left(f)
        BY <3>2, <3>7
      <4>2. f.places[n] # p /\ f.places[n] \in Places
        BY <2>1, <4>1
      <4>3. store[f.places[n]][k] = "missing"
        BY <1>4, <2>4, <3>7, <4>1 DEF Known
      <4> QED
        BY <3>5, <4>2, <4>3
    <3>8. ASSUME f.raises /\ strict, f.running \in {"[]", "proc"} PROVE g.ever
      <4>1. f.ever
        BY <1>4, <3>8 DEF Known
      <4> QED
        BY <3>2, <4>1
    <3>9. Known(g)'
      BY <2>4, <3>2, <3>6, <3>7, <3>8 DEF Known, Holds
    <3> QED
      BY <3>1, <3>3, <3>4, <3>9
  <2> QED
    BY <2>2, <2>3, <2>4
<1> HIDE DEF of
<1>5. \A i \in 1..Len(c) : of(c[i]) \in Lookups /\ Waits(of(c[i]))' /\ Known(of(c[i]))'
  BY <1>2, <1>4 DEF Waiting
<1>6. calls' \in Seq(Lookups) /\ Len(calls') = Len(c)
      /\ \A i \in 1..Len(calls') : calls'[i] = of(c[i])
  BY <1>1, <1>2, <1>5
<1>7. ASSUME NEW i \in 1..Len(calls') PROVE Waits(calls[i])' /\ Known(calls[i])'
  <2>1. i \in 1..Len(c) /\ calls'[i] = of(c[i])
    BY <1>6
  <2>2. PICK g \in Lookups : g = of(c[i])
    BY <1>5, <2>1
  <2>3. Waits(g)' /\ Known(g)'
    BY <1>5, <2>1, <2>2
  <2>4. calls'[i] = g
    BY <2>1, <2>2
  <2>5. Waits(calls[i])'
    BY <2>3, <2>4 DEF Waits
  <2>6. Known(calls[i])'
    BY <2>3, <2>4 DEF Known, Holds
  <2> QED
    BY <2>5, <2>6
<1>8. Waiting(calls)'
  BY <1>6, <1>7 DEF Waiting
<1> QED
  BY <1>3, <1>6, <1>8

-----------------------------------------------------------------------------
(* How a lookup goes on                                                    *)

LEMMA AtFacts ==
    ASSUME NEW f \in Frames, NEW i \in 1..(Len(f.places) + 1)
    PROVE  /\ Len(f.places) \in Nat
           /\ At(f, i) \in Frames /\ At(f, i).key = f.key /\ At(f, i).raises = f.raises
           /\ At(f, i).fetches = f.fetches /\ At(f, i).running = f.running
           /\ At(f, i).held = f.held /\ At(f, i).ever = f.ever
           /\ Len(At(f, i).places) = Len(f.places) - i + 1
           /\ \A n \in 1..(Len(f.places) - i + 1) : At(f, i).places[n] = f.places[n + i - 1]
<1> DEFINE rest == SubSeq(f.places, i, Len(f.places))
<1>1. /\ f.places \in Seq(Places) /\ i \in Nat /\ Len(f.places) \in Nat
      /\ i >= 1 /\ i <= Len(f.places) + 1
  BY DEF Frames
<1>2. Len(rest) = Len(f.places) - i + 1
      /\ \A n \in 1..(Len(f.places) - i + 1) : rest[n] = f.places[n + i - 1]
  BY <1>1
<1>3. \A n \in 1..(Len(f.places) - i + 1) : n + i - 1 \in 1..Len(f.places)
  BY <1>1
<1>4. rest \in Seq(Places)
  BY <1>1
<1>5. At(f, i) = [f EXCEPT !.places = rest]
  BY DEF At
<1> HIDE DEF rest
<1>6. /\ At(f, i).key = f.key /\ At(f, i).raises = f.raises
      /\ At(f, i).fetches = f.fetches /\ At(f, i).running = f.running
      /\ At(f, i).held = f.held /\ At(f, i).ever = f.ever /\ At(f, i).places = rest
      /\ At(f, i) \in Frames
  BY <1>4, <1>5 DEF Frames
<1> QED
  BY <1>1, <1>2, <1>6

(* It knows no less past places that do not have the key                     *)
LEMMA AtKnown ==
    ASSUME NEW f \in Frames, Known(f), NEW i \in 1..(Len(f.places) + 1),
           f.raises /\ strict => \A j \in 1..(i - 1) : store[f.places[j]][f.key] = "missing"
    PROVE  Known(At(f, i))
<1> DEFINE g == At(f, i)
<1>1. /\ g.key = f.key /\ g.raises = f.raises /\ g.fetches = f.fetches
      /\ g.running = f.running /\ g.held = f.held /\ g.ever = f.ever
  BY AtFacts
<1>2. /\ Len(f.places) \in Nat /\ Len(g.places) = Len(f.places) - i + 1
      /\ \A n \in 1..(Len(f.places) - i + 1) : g.places[n] = f.places[n + i - 1]
  BY AtFacts
<1> HIDE DEF g
<1>3. i \in Nat /\ i >= 1 /\ i <= Len(f.places) + 1
  BY <1>2
<1>4. ASSUME NEW n \in 1..Len(g.places)
      PROVE  \E m \in 1..Len(f.places) : g.places[n] = f.places[m]
  <2>1. n + i - 1 \in 1..Len(f.places) /\ n \in 1..(Len(f.places) - i + 1)
    BY <1>2, <1>3
  <2> QED
    BY <1>2, <2>1
<1>5. ASSUME NEW m \in 1..Len(f.places), m \notin 1..(i - 1)
      PROVE  \E n \in 1..Len(g.places) : g.places[n] = f.places[m]
  <2>1. m - i + 1 \in 1..Len(g.places) /\ (m - i + 1) + i - 1 = m
        /\ m - i + 1 \in 1..(Len(f.places) - i + 1)
    BY <1>2, <1>5, <1>3
  <2>2. g.places[m - i + 1] = f.places[(m - i + 1) + i - 1]
    BY <1>2, <2>1
  <2>3. g.places[m - i + 1] = f.places[m]
    BY <2>1, <2>2
  <2> QED
    BY <2>1, <2>3
<1>6. ASSUME f.raises /\ strict, NEW p \in f.held PROVE Holds(g, p)
  <2>1. store[p][f.key] # "missing" /\ \E m \in 1..Len(f.places) : f.places[m] = p
    BY <1>6 DEF Known, Holds
  <2>2. PICK m \in 1..Len(f.places) : f.places[m] = p
    BY <2>1
  <2>3. m \notin 1..(i - 1)
    BY <1>6, <2>1, <2>2
  <2> QED
    BY <1>1, <1>5, <2>1, <2>2, <2>3 DEF Holds
<1>7. ASSUME f.raises /\ strict, ~g.ever, NEW n \in 1..Len(g.places)
      PROVE  store[g.places[n]][g.key] = "missing"
  <2>1. PICK m \in 1..Len(f.places) : g.places[n] = f.places[m]
    BY <1>4
  <2>2. ~f.ever
    BY <1>1, <1>7
  <2>3. store[f.places[m]][f.key] = "missing"
    BY <1>7, <2>2 DEF Known
  <2> QED
    BY <1>1, <2>1, <2>3
<1>8. f.raises /\ strict => ~g.fetches /\ (g.running \in {"[]", "proc"} => g.ever)
  BY <1>1 DEF Known
<1>9. Known(g)
  BY <1>1, <1>6, <1>7, <1>8 DEF Known
<1> QED
  BY <1>9 DEF g

LEMMA PastKnown ==
    ASSUME NEW f \in Lookups, f.places # << >>, Known(f),
           f.raises /\ strict => store[f.places[1]][f.key] = "missing"
    PROVE  Past(f) \in Frames /\ Known(Past(f))
<1>1. f \in Frames /\ Len(f.places) \in Nat
  BY DEF Lookups, Frames
<1>2. Len(f.places) >= 1
  BY <1>1 DEF Lookups
<1>3. 2 \in 1..(Len(f.places) + 1) /\ \A j \in 1..(2 - 1) : j = 1
  BY <1>1, <1>2
<1>4. At(f, 2) \in Frames
  BY <1>1, <1>3, AtFacts
<1>5. Known(At(f, 2))
  BY <1>1, <1>3, AtKnown
<1> DEFINE g == [At(f, 2) EXCEPT !.running = "none"]
<1>6. /\ g \in Frames /\ g.places = At(f, 2).places /\ g.key = At(f, 2).key
      /\ g.raises = At(f, 2).raises /\ g.fetches = At(f, 2).fetches /\ g.running = "none"
      /\ g.held = At(f, 2).held /\ g.ever = At(f, 2).ever
  BY <1>4 DEF Frames
<1> HIDE DEF g
<1>7. Known(g)
  BY <1>5, <1>6 DEF Known, Holds
<1> QED
  BY <1>6, <1>7 DEF Past, g

LEMMA RunsRight ==
    ASSUME IInv, NEW f \in Frames, f.places # << >>, NEW code \in Codes, NEW below, Waiting(below),
           Known(f), code \in {"[]", "proc"} /\ f.raises /\ strict => f.ever,
           Waits([f EXCEPT !.running = code]), Runs(f, code, below),
           store' = store, strict' = strict
    PROVE  Waiting(calls)' /\ LastOK'
<1> DEFINE g == [f EXCEPT !.running = code]
<1>1. /\ g \in Lookups /\ g.places = f.places /\ g.key = f.key /\ g.raises = f.raises
      /\ g.fetches = f.fetches /\ g.running = code /\ g.held = f.held /\ g.ever = f.ever
  BY DEF Frames, Lookups
<1>2. calls' = Append(below, g) /\ last' = last /\ Waits(g)
  BY DEF Runs
<1> HIDE DEF g
<1>3. Known(g)
  BY <1>1 DEF Known, Holds
<1>4. Waiting(Append(below, g))
  BY <1>1, <1>2, <1>3, WaitingAppend
<1>5. Waiting(calls)'
  BY <1>2, <1>4, WaitingStays
<1>6. LastOK'
  BY <1>2 DEF IInv, TypeOK, LastOK, LastTyped, UndefinedRaises, ReturnedIsStored
<1> QED
  BY <1>5, <1>6

(* A lookup that has found a value ends with it                              *)
LEMMA EndsTyped ==
    ASSUME NEW f \in Frames, NEW place \in Places \cup {"nowhere"}, NEW outcome \in Outcomes,
           Ends(f, place, outcome), strict \in BOOLEAN
    PROVE  /\ LastTyped' /\ last'.outcome = outcome /\ last'.place = place /\ last'.key = f.key
           /\ last'.strictly <=> f.raises /\ strict
           /\ last'.held <=> f.raises /\ strict /\ f.held # {}
           /\ last'.ever <=> f.raises /\ strict /\ f.ever
<1> DEFINE strictly == f.raises /\ strict
           held == strictly /\ f.held # {}
           ever == strictly /\ f.ever
<1>1. last' = [outcome |-> outcome, place |-> place, key |-> f.key, strictly |-> strictly,
              held |-> held, ever |-> ever]
  BY DEF Ends
<1>2. f.key \in Keys
  BY DEF Frames
<1>3. strictly \in BOOLEAN /\ held \in BOOLEAN /\ ever \in BOOLEAN
  OBVIOUS
<1>4. (strictly <=> f.raises /\ strict) /\ (held <=> f.raises /\ strict /\ f.held # {})
      /\ (ever <=> f.raises /\ strict /\ f.ever)
  OBVIOUS
<1> HIDE DEF strictly, held, ever
<1>5. LastTyped'
  BY <1>1, <1>2, <1>3 DEF LastTyped
<1>6. /\ last'.outcome = outcome /\ last'.place = place /\ last'.key = f.key
      /\ last'.strictly = strictly /\ last'.held = held /\ last'.ever = ever
  BY <1>1
<1> QED
  BY <1>4, <1>5, <1>6

LEMMA TakesRight ==
    ASSUME IInv, NEW f \in Frames, f.places # << >>, Known(f), f.raises /\ strict => f.ever,
           NEW value \in Values \cup {"proc"}, NEW place \in {f.places[1], "nowhere"},
           place # "nowhere" => store[place][f.key] = value, NEW below, Waiting(below),
           Takes(f, value, place, below), store' = store, strict' = strict
    PROVE  Waiting(calls)' /\ LastOK'
<1>1. f.places[1] \in Places /\ "proc" \in Codes /\ strict \in BOOLEAN
  BY DEF Frames, Codes, IInv, TypeOK
<1>2. CASE value = "proc" /\ f.places[1] \in Storing
  <2>1. Runs(f, "proc", below)
    BY <1>2 DEF Takes
  <2> DEFINE g == [f EXCEPT !.running = "proc"]
  <2>2. g.running = "proc" /\ g.places = f.places
    BY DEF Frames
  <2>3. Waits(g)
    BY <1>2, <2>2 DEF Waits
  <2> QED
    BY <1>1, <2>1, <2>3, RunsRight
<1>3. CASE ~(value = "proc" /\ f.places[1] \in Storing)
  <2>1. calls' = below /\ Ends(f, place, value)
    BY <1>3 DEF Takes
  <2>2. value \in Outcomes /\ value \notin Missed
    BY ValuesAssumption DEF Outcomes, Contents, Missed
  <2>3. /\ LastTyped' /\ last'.outcome = value /\ last'.place = place /\ last'.key = f.key
        /\ last'.strictly <=> f.raises /\ strict
        /\ last'.ever <=> f.raises /\ strict /\ f.ever
    BY <1>1, <2>1, <2>2, EndsTyped
  <2>4. UndefinedRaises'
    BY <2>2, <2>3 DEF UndefinedRaises
  <2>5. ReturnedIsStored'
    BY <2>3 DEF ReturnedIsStored
  <2>6. Waiting(calls)'
    BY <2>1, WaitingStays
  <2> QED
    BY <2>3, <2>4, <2>5, <2>6 DEF LastOK
<1> QED
  BY <1>2, <1>3

LEMMA GoesOnRight ==
    ASSUME IInv, NEW f \in Frames, Known(f), NEW below, Waiting(below), GoesOn(f, below),
           store' = store, strict' = strict
    PROVE  Waiting(calls)' /\ LastOK'
<1> DEFINE Stops(i) == \/ f.places[i] \notin Hashes
                       \/ Found(f.places[i], f.key)
                       \/ Asks(f, f.places[i])
<1>1. Strictly(f) <=> f.raises /\ strict
  BY StrictlyAsContext DEF IInv, Strictly
<1>2. /\ f.places \in Seq(Places) /\ f.key \in Keys /\ strict \in BOOLEAN
      /\ Len(f.places) \in Nat /\ \A i \in 1..Len(f.places) : f.places[i] \in Places
  BY DEF Frames, IInv, TypeOK
<1>3. ASSUME NEW i \in 1..Len(f.places), ~Stops(i)
      PROVE  store[f.places[i]][f.key] = "missing"
  BY <1>3 DEF Found
<1>4. CASE (\A i \in 1..Len(f.places) : ~Stops(i)) /\ calls' = below
           /\ Ends(f, "nowhere", NotFound(f))
  <2>1. Waiting(calls)'
    BY <1>4, WaitingStays
  <2>2. \A i \in 1..Len(f.places) : store[f.places[i]][f.key] = "missing"
    BY <1>3, <1>4
  <2>3. f.raises /\ strict => f.held = {}
    BY <2>2 DEF Known, Holds
  <2>4. /\ NotFound(f) \in Outcomes /\ (NotFound(f) \in Missed <=> f.raises /\ strict)
        /\ NotFound(f) \in Missed => (NotFound(f) = "undefined" <=> f.key \in StringKeys)
    BY <1>1, ValuesAssumption DEF NotFound, Outcomes, Contents, Missed
  <2>5. /\ LastTyped' /\ last'.outcome = NotFound(f) /\ last'.place = "nowhere"
        /\ last'.key = f.key
        /\ last'.strictly <=> f.raises /\ strict
        /\ last'.held <=> f.raises /\ strict /\ f.held # {}
    BY <1>2, <1>4, <2>4, EndsTyped
  <2>6. UndefinedRaises'
    BY <2>3, <2>4, <2>5 DEF UndefinedRaises
  <2>7. ReturnedIsStored'
    BY <2>5 DEF ReturnedIsStored
  <2> QED
    BY <2>1, <2>5, <2>6, <2>7 DEF LastOK
<1>5. ASSUME NEW i \in 1..Len(f.places), Stops(i), \A j \in 1..(i - 1) : ~Stops(j),
             LET p == f.places[i] IN
             \/ p \notin Hashes /\ Runs(At(f, i), "key?", below)
             \/ p \in Hashes /\ ~Found(p, f.key) /\ Runs(At(f, i), "default", below)
             \/ p \in Hashes /\ Found(p, f.key) /\ Takes(At(f, i), store[p][f.key], p, below)
      PROVE  Waiting(calls)' /\ LastOK'
  <2> DEFINE g == At(f, i)
             p == f.places[i]
  <2>1. i \in 1..(Len(f.places) + 1) /\ i \in Nat /\ i >= 1 /\ i <= Len(f.places)
    BY <1>2
  <2>2. /\ g \in Frames /\ g.key = f.key /\ g.raises = f.raises /\ g.ever = f.ever
        /\ Len(g.places) = Len(f.places) - i + 1
        /\ \A n \in 1..(Len(f.places) - i + 1) : g.places[n] = f.places[n + i - 1]
    BY <2>1, AtFacts
  <2>3. 1 \in 1..(Len(f.places) - i + 1) /\ 1 + i - 1 = i /\ Len(g.places) # 0
    BY <1>2, <2>1, <2>2
  <2>4. g.places[1] = p /\ g.places # << >>
    BY <2>2, <2>3
  <2>5. \A j \in 1..(i - 1) : j \in 1..Len(f.places)
    BY <1>2, <2>1
  <2>6. \A j \in 1..(i - 1) : store[f.places[j]][f.key] = "missing"
    BY <1>3, <1>5, <2>5
  <2>7. Known(g)
    BY <2>1, <2>6, AtKnown
  <2>8. p \in Places /\ {"key?", "default"} \subseteq Codes
    BY <1>2 DEF Codes
  <2>9. ASSUME NEW code \in Codes PROVE [g EXCEPT !.running = code].running = code
                                        /\ [g EXCEPT !.running = code].places = g.places
                                        /\ [g EXCEPT !.running = code].raises = g.raises
    BY <2>2 DEF Frames
  <2>10. CASE p \notin Hashes /\ Runs(g, "key?", below)
    <3>1. Waits([g EXCEPT !.running = "key?"])
      BY <2>4, <2>8, <2>9, <2>10 DEF Waits
    <3> QED
      BY <2>2, <2>4, <2>7, <2>8, <2>10, <3>1, RunsRight
  <2>11. CASE p \in Hashes /\ ~Found(p, f.key) /\ Runs(g, "default", below)
    <3>1. p \in Defaulting /\ ~(f.raises /\ strict)
      BY <1>1, <1>5, <2>11 DEF Asks
    <3>2. Waits([g EXCEPT !.running = "default"])
      BY <2>2, <2>4, <2>8, <2>9, <3>1 DEF Waits
    <3> QED
      BY <2>2, <2>4, <2>7, <2>8, <2>11, <3>2, RunsRight
  <2>12. CASE p \in Hashes /\ Found(p, f.key) /\ Takes(g, store[p][f.key], p, below)
    <3>1. store[p][f.key] \in Values \cup {"proc"}
      BY <1>2, <2>8, <2>12, StoredContents DEF IInv, Contents, Found
    <3>2. 1 \in 1..Len(g.places) /\ store[g.places[1]][g.key] # "missing"
      BY <2>2, <2>3, <2>4, <2>12 DEF Found
    <3>3. g.raises /\ strict => g.ever
      BY <2>7, <3>2 DEF Known
    <3> HIDE DEF g
    <3> QED
      BY <2>2, <2>4, <2>7, <2>12, <3>1, <3>3, TakesRight
  <2> HIDE DEF g
  <2>13. p = f.places[i] /\ g = At(f, i)
    BY DEF g
  <2> QED
    BY <1>5, <2>10, <2>11, <2>12, <2>13
<1> QED
  BY <1>4, <1>5 DEF GoesOn

-----------------------------------------------------------------------------
(* The steps                                                               *)

LEMMA VMOfContextFollows ==
    ASSUME IInv, vm' = VMOfContext, UNCHANGED <<set, strict>>
    PROVE  VMFollows' /\ vm' # << >> /\ \E c \in [set : SUBSET Settings, strict : BOOLEAN] : vm' = <<c>>
<1>1. CASE vm = << >>
  <2> DEFINE d == [set |-> set, strict |-> FALSE]
  <2>1. d \in [set : SUBSET Settings, strict : BOOLEAN] /\ d.strict = FALSE
    BY DEF IInv, TypeOK
  <2>2. vm' = <<d>> /\ strict' = FALSE
    BY <1>1 DEF IInv, VMMade, VMOfContext
  <2> HIDE DEF d
  <2>3. vm'[1] = d /\ vm' # << >>
    BY <2>2
  <2>4. vm'[1].strict = strict'
    BY <2>1, <2>2, <2>3
  <2> QED
    BY <2>1, <2>2, <2>3, <2>4 DEF VMFollows
<1>2. CASE vm # << >>
  BY <1>2 DEF IInv, TypeOK, VMFollows, VMOfContext
<1> QED
  BY <1>1, <1>2

(* What is left to show of a step that ends or goes on with a lookup           *)
LEMMA LookupStep ==
    ASSUME IInv, Waiting(calls)', LastOK', UNCHANGED <<set, strict>>,
           vm' = VMOfContext, store' \in [Places -> [Keys -> Contents]]
    PROVE  IInv'
<1>1. VMFollows' /\ vm' # << >> /\ \E c \in [set : SUBSET Settings, strict : BOOLEAN] : vm' = <<c>>
  BY VMOfContextFollows
<1>2. TypeOK'
  BY <1>1 DEF IInv, TypeOK, LastOK, LastTyped, Waiting
<1>3. VMMade'
  BY <1>1 DEF VMMade
<1> QED
  BY <1>1, <1>2, <1>3 DEF IInv, LastOK

LEMMA InitIInv == Init => IInv
<1> SUFFICES ASSUME Init PROVE IInv
  OBVIOUS
<1>1. store \in [Places -> [Keys -> Contents]]
  <2>1. {"missing", "proc"} \subseteq Contents
    BY DEF Contents
  <2>2. store \in [Places -> [Keys -> {"missing", "proc"}]]
    BY DEF Init
  <2>3. \A p \in Places : store[p] \in [Keys -> Contents]
    BY <2>1, <2>2
  <2> QED
    BY <2>2, <2>3
<1>2. calls \in Seq(Lookups) /\ Len(calls) = 0
  BY DEF Init
<1>3. (CHOOSE k \in Keys : TRUE) \in Keys
  BY ValuesAssumption
<1>4. last \in [outcome : Outcomes, place : Places \cup {"nowhere"}, key : Keys,
               held : BOOLEAN, ever : BOOLEAN, strictly : BOOLEAN]
  BY <1>3 DEF Init, Outcomes
<1>5. TypeOK
  <2>1. \A i \in 1..Len(calls) : FALSE
    BY <1>2
  <2>2. set = {} /\ strict = FALSE /\ vm = << >> /\ calls = << >>
    BY DEF Init
  <2> QED
    BY <1>1, <1>2, <1>4, <2>1, <2>2 DEF TypeOK
<1>6. Waiting(calls)
  BY <1>2 DEF Waiting
<1> QED
  BY <1>5, <1>6 DEF Init, IInv, VMMade, VMFollows, UndefinedRaises, ReturnedIsStored,
     Missed

LEMMA SetStrictVariablesStep == IInv /\ SetStrictVariables => IInv'
<1> SUFFICES ASSUME IInv, SetStrictVariables PROVE IInv'
  OBVIOUS
<1>1. PICK strict_variables \in BOOLEAN :
        /\ vm' = [VMOfContext EXCEPT ![1].strict = strict_variables]
        /\ strict' = strict_variables
  BY DEF SetStrictVariables
<1>2. calls = << >> /\ UNCHANGED <<store, set, calls, last>>
  BY DEF SetStrictVariables
<1>3. PICK c \in [set : SUBSET Settings, strict : BOOLEAN] : VMOfContext = <<c>>
  BY DEF IInv, TypeOK, VMOfContext
<1> DEFINE d == [c EXCEPT !.strict = strict_variables]
<1>4. vm' = <<d>>
  BY <1>1, <1>3
<1>5. d \in [set : SUBSET Settings, strict : BOOLEAN] /\ d.strict = strict_variables
  BY <1>3
<1> HIDE DEF d
<1>6. VMFollows' /\ VMMade'
  BY <1>1, <1>4, <1>5 DEF VMFollows, VMMade
<1>7. TypeOK'
  BY <1>1, <1>2, <1>4, <1>5 DEF IInv, TypeOK
<1>8. Waiting(calls)'
  BY <1>2 DEF IInv, Waiting
<1> QED
  BY <1>2, <1>6, <1>7, <1>8 DEF IInv, UndefinedRaises, ReturnedIsStored

LEMMA SetStep == IInv /\ Set => IInv'
<1> SUFFICES ASSUME IInv, NEW s \in Settings \ set, set' = set \cup {s},
                    UNCHANGED <<store, strict, vm, calls, last>>
             PROVE  IInv'
  BY DEF Set
<1>1. TypeOK'
  BY DEF IInv, TypeOK, Waits
<1>2. VMFollows' /\ VMMade'
  BY DEF IInv, VMFollows, VMMade
<1>3. Waiting(calls)'
  BY WaitingStays DEF IInv
<1> QED
  BY <1>1, <1>2, <1>3 DEF IInv, UndefinedRaises, ReturnedIsStored

LEMMA PutStep == IInv /\ Put => IInv'
<1> SUFFICES ASSUME IInv, NEW p \in Places, NEW k \in Keys, NEW v \in Contents,
                    store' = [store EXCEPT ![p][k] = v], calls' = Noted(calls, p, k, v),
                    last' = IF <<last.place, last.key>> = <<p, k>>
                            THEN [last EXCEPT !.place = "nowhere"] ELSE last,
                    UNCHANGED <<set, strict, vm>>
             PROVE  IInv'
  BY DEF Put, Contents
<1>1. Waiting(calls)' /\ Len(calls') = Len(calls) /\ store' \in [Places -> [Keys -> Contents]]
  BY NotedWaiting DEF IInv
<1>2. /\ last' \in [outcome : Outcomes, place : Places \cup {"nowhere"}, key : Keys,
                     held : BOOLEAN, ever : BOOLEAN, strictly : BOOLEAN]
      /\ last'.outcome = last.outcome /\ last'.key = last.key /\ last'.held = last.held
      /\ last'.ever = last.ever /\ last'.strictly = last.strictly
      /\ last'.place \in {last.place, "nowhere"}
      /\ <<last.place, last.key>> = <<p, k>> => last'.place = "nowhere"
  BY DEF IInv, TypeOK
<1>3. calls' # << >> => vm' # << >>
  <2>1. calls \in Seq(Lookups) /\ calls' \in Seq(Lookups)
    BY <1>1 DEF IInv, TypeOK, Waiting
  <2>2. calls' # << >> => calls # << >>
    BY <1>1, <2>1
  <2> QED
    BY <2>2 DEF IInv, TypeOK
<1>4. TypeOK'
  BY <1>1, <1>2, <1>3 DEF IInv, TypeOK, Waiting
<1>5. ReturnedIsStored'
  <2> SUFFICES ASSUME last'.place # "nowhere"
               PROVE  store'[last'.place][last'.key] = last'.outcome
    BY DEF ReturnedIsStored
  <2>1. last'.place = last.place /\ last.place \in Places /\ last.key \in Keys
    BY <1>2 DEF IInv, TypeOK
  <2>2. <<last.place, last.key>> # <<p, k>>
    BY <1>2
  <2>3. store[last.place][last.key] = last.outcome
    BY <2>1 DEF IInv, ReturnedIsStored
  <2>4. store'[last.place][last.key] = store[last.place][last.key]
    BY <2>1, <2>2 DEF IInv, TypeOK
  <2> QED
    BY <1>2, <2>1, <2>3, <2>4
<1>6. UndefinedRaises'
  BY <1>2 DEF IInv, UndefinedRaises
<1>7. VMMade' /\ VMFollows'
  BY <1>3 DEF IInv, VMMade, VMFollows
<1> QED
  BY <1>1, <1>4, <1>5, <1>6, <1>7 DEF IInv

LEMMA LookupStarts ==
    ASSUME NEW places \in Seq(Places), NEW k \in Keys, NEW raises \in BOOLEAN,
           NEW fetches \in BOOLEAN, raises => ~fetches
    PROVE  Lookup(places, k, raises, fetches) \in Frames /\ Known(Lookup(places, k, raises, fetches))
<1> DEFINE f == Lookup(places, k, raises, fetches)
           holding == {i \in 1..Len(places) : Found(places[i], k)}
           held == {places[i] : i \in holding}
<1>1. \A i \in 1..Len(places) : places[i] \in Places
  OBVIOUS
<1>2. held \in SUBSET Places
  BY <1>1
<1>3. f = [places |-> places, key |-> k, raises |-> raises, fetches |-> fetches,
          running |-> "none", held |-> held, ever |-> holding # {}]
  BY DEF Lookup
<1>4. \A p \in held : \E n \in 1..Len(places) : places[n] = p /\ store[p][k] # "missing"
  BY DEF Found
<1>5. holding = {} => \A n \in 1..Len(places) : store[places[n]][k] = "missing"
  BY DEF Found
<1> HIDE DEF held, holding
<1>6. (holding # {}) \in BOOLEAN
  OBVIOUS
<1>7. f \in Frames
  BY <1>2, <1>3, <1>6 DEF Frames
<1>8. f.places = places /\ f.key = k /\ f.raises = raises /\ f.fetches = fetches
      /\ f.running = "none" /\ f.held = held /\ f.ever = (holding # {})
  BY <1>3
<1> HIDE DEF f
<1>9. /\ f.raises => ~f.fetches
      /\ ~f.ever => holding = {}
  BY <1>8
<1>10. Known(f)
  BY <1>4, <1>5, <1>8, <1>9 DEF Known, Holds
<1> QED
  BY <1>7, <1>10 DEF f

LEMMA FindVariableStep == IInv /\ FindVariable => IInv'
<1> SUFFICES ASSUME IInv, NEW k \in Keys, NEW raises \in BOOLEAN, vm' = VMOfContext,
                    GoesOn(Lookup(Order, k, raises, FALSE), calls), UNCHANGED <<store, set, strict>>
             PROVE  IInv'
  BY DEF FindVariable
<1>1. Order \in Seq(Places)
  BY PlacesAssumption DEF Order
<1>2. /\ Lookup(Order, k, raises, FALSE) \in Frames
      /\ Known(Lookup(Order, k, raises, FALSE))
  BY <1>1, LookupStarts
<1>3. Waiting(calls)' /\ LastOK'
  BY <1>2, GoesOnRight DEF IInv
<1> QED
  BY <1>3, LookupStep DEF IInv, TypeOK

LEMMA LookupKeyStep == IInv /\ LookupKey => IInv'
<1> SUFFICES ASSUME IInv, NEW k \in Keys, NEW fetches \in BOOLEAN, vm' = VMOfContext,
                    GoesOn(Lookup(<<Object>>, k, ~fetches, fetches), calls),
                    UNCHANGED <<store, set, strict>>
             PROVE  IInv'
  BY DEF LookupKey
<1>1. <<Object>> \in Seq(Places)
  BY PlacesAssumption
<1>2. /\ Lookup(<<Object>>, k, ~fetches, fetches) \in Frames
      /\ Known(Lookup(<<Object>>, k, ~fetches, fetches))
  <2>1. (~fetches) \in BOOLEAN /\ (~fetches => ~fetches)
    OBVIOUS
  <2> QED
    BY <1>1, <2>1, LookupStarts
<1>3. Waiting(calls)' /\ LastOK'
  BY <1>2, GoesOnRight DEF IInv
<1> QED
  BY <1>3, LookupStep DEF IInv, TypeOK

LEMMA VMStays ==
    ASSUME IInv, calls # << >>, vm' = vm
    PROVE  vm' = VMOfContext
BY DEF IInv, TypeOK, VMOfContext

(* The innermost lookup, whose Ruby code returns                             *)
LEMMA Innermost ==
    ASSUME IInv, calls # << >>
    PROVE  LET f == calls[Len(calls)] IN
           /\ Waiting(Below) /\ f \in Lookups /\ f \in Frames /\ Waits(f) /\ Known(f)
           /\ f.places # << >> /\ f.places[1] \in Places /\ f.key \in Keys
           /\ 1 \in 1..Len(f.places)
<1> DEFINE f == calls[Len(calls)]
<1>1. Waiting(Below) /\ f \in Lookups /\ Waits(f) /\ Known(f)
  BY BelowWaiting DEF IInv
<1> HIDE DEF f
<1>2. f \in Frames /\ f.places \in Seq(Places) /\ f.places # << >> /\ f.key \in Keys
  BY <1>1 DEF Lookups, Frames, Waits
<1>3. 1 \in 1..Len(f.places) /\ f.places[1] \in Places
  BY <1>2
<1> QED
  BY <1>1, <1>2, <1>3 DEF f

LEMMA KeyReturnsStep == IInv /\ KeyReturns => IInv'
<1> DEFINE f == calls[Len(calls)]
<1> SUFFICES ASSUME IInv, Running("key?"),
                    IF Found(f.places[1], f.key) \/ f.fetches THEN Runs(f, "[]", Below)
                    ELSE GoesOn(Past(f), Below),
                    UNCHANGED <<store, set, strict, vm>>
             PROVE  IInv'
  BY DEF KeyReturns
<1>1. calls # << >> /\ f.running = "key?"
  BY DEF Running
<1>2. /\ Waiting(Below) /\ f \in Lookups /\ f \in Frames /\ Waits(f) /\ Known(f)
      /\ f.places # << >> /\ 1 \in 1..Len(f.places)
  BY <1>1, Innermost
<1> HIDE DEF f
<1>3. CASE Found(f.places[1], f.key) \/ f.fetches
  <2>1. Runs(f, "[]", Below)
    BY <1>3
  <2>2. f.raises /\ strict => f.ever
    BY <1>2, <1>3 DEF Known, Found
  <2> DEFINE g == [f EXCEPT !.running = "[]"]
  <2>3. g.running = "[]" /\ g.places = f.places /\ "[]" \in Codes
    BY <1>2 DEF Frames, Codes
  <2>4. Waits(g)
    BY <1>1, <1>2, <2>3 DEF Waits
  <2> QED
    BY <1>1, <1>2, <2>1, <2>2, <2>3, <2>4, RunsRight, VMStays, LookupStep DEF IInv, TypeOK
<1>4. CASE ~(Found(f.places[1], f.key) \/ f.fetches)
  <2>1. store[f.places[1]][f.key] = "missing" /\ GoesOn(Past(f), Below)
    BY <1>4 DEF Found
  <2>2. Past(f) \in Frames /\ Known(Past(f))
    BY <1>2, <2>1, PastKnown
  <2>3. Waiting(calls)' /\ LastOK'
    BY <1>2, <2>1, <2>2, GoesOnRight
  <2> QED
    BY <1>1, <2>3, VMStays, LookupStep DEF IInv, TypeOK
<1> QED
  BY <1>3, <1>4

LEMMA ArefReturnsStep == IInv /\ ArefReturns => IInv'
<1> DEFINE f == calls[Len(calls)]
           p == f.places[1]
<1> SUFFICES ASSUME IInv, Running("[]"), NEW v \in Values \cup {"proc"},
                    \/ Found(p, f.key) /\ store[p][f.key] = v /\ Takes(f, v, p, Below)
                    \/ ~Found(p, f.key) /\ Takes(f, v, "nowhere", Below),
                    UNCHANGED <<store, set, strict, vm>>
             PROVE  IInv'
  BY DEF ArefReturns
<1>1. calls # << >> /\ f.running = "[]"
  BY DEF Running
<1>2. Waiting(Below) /\ f \in Frames /\ Known(f) /\ f.places # << >>
  BY <1>1, Innermost
<1>3. f.raises /\ strict => f.ever
  BY <1>1, <1>2 DEF Known
<1>4. PICK place \in {f.places[1], "nowhere"} :
        Takes(f, v, place, Below) /\ (place # "nowhere" => store[place][f.key] = v)
  OBVIOUS
<1> HIDE DEF f
<1>5. Waiting(calls)' /\ LastOK'
  BY <1>2, <1>3, <1>4, TakesRight
<1> QED
  BY <1>1, <1>5, VMStays, LookupStep DEF IInv, TypeOK

LEMMA ProcReturnsStep == IInv /\ ProcReturns => IInv'
<1> DEFINE f == calls[Len(calls)]
           p == f.places[1]
<1> SUFFICES ASSUME IInv, NEW v \in Values \cup {"proc"}, Running("proc"),
                    store' = [store EXCEPT ![p][f.key] = v],
                    calls' = Noted(Below, p, f.key, v), Ends(f, p, v),
                    UNCHANGED <<set, strict, vm>>
             PROVE  IInv'
  BY DEF ProcReturns
<1>1. calls # << >> /\ f.running = "proc"
  BY DEF Running
<1>2. Waiting(Below) /\ f \in Frames /\ Known(f) /\ p \in Places /\ f.key \in Keys
  BY <1>1, Innermost
<1>3. v \in Contents /\ v \in Outcomes /\ v \notin Missed
  BY ValuesAssumption DEF Contents, Outcomes, Missed
<1>4. f.raises /\ strict => f.ever
  BY <1>1, <1>2 DEF Known
<1> HIDE DEF f
<1>5. Waiting(calls)' /\ store' \in [Places -> [Keys -> Contents]]
  BY <1>2, <1>3, NotedWaiting DEF IInv
<1>6. strict \in BOOLEAN /\ store \in [Places -> [Keys -> Contents]]
  BY DEF IInv, TypeOK
<1>7. /\ LastTyped' /\ last'.outcome = v /\ last'.place = p /\ last'.key = f.key
      /\ last'.strictly <=> f.raises /\ strict
      /\ last'.ever <=> f.raises /\ strict /\ f.ever
  BY <1>2, <1>3, <1>6, EndsTyped
<1>8. UndefinedRaises'
  BY <1>3, <1>4, <1>7 DEF UndefinedRaises
<1>9. ReturnedIsStored'
  BY <1>2, <1>6, <1>7 DEF ReturnedIsStored
<1> QED
  BY <1>1, <1>5, <1>7, <1>8, <1>9, VMStays, LookupStep DEF LastOK

LEMMA DefaultReturnsStep == IInv /\ DefaultReturns => IInv'
<1> DEFINE f == calls[Len(calls)]
<1> SUFFICES ASSUME IInv, NEW v \in Values \cup {"proc"}, Running("default"),
                    \/ v = "nil" /\ GoesOn(Past(f), Below)
                    \/ v # "nil" /\ Takes(f, v, "nowhere", Below),
                    UNCHANGED <<store, set, strict, vm>>
             PROVE  IInv'
  BY DEF DefaultReturns
<1>1. calls # << >> /\ f.running = "default"
  BY DEF Running
<1>2. /\ Waiting(Below) /\ f \in Lookups /\ f \in Frames /\ Waits(f) /\ Known(f)
      /\ f.places # << >>
  BY <1>1, Innermost
<1>3. ~(f.raises /\ strict)
  BY <1>1, <1>2 DEF Waits
<1> HIDE DEF f
<1>4. CASE v = "nil" /\ GoesOn(Past(f), Below)
  <2>1. Past(f) \in Frames /\ Known(Past(f))
    BY <1>2, <1>3, PastKnown
  <2>2. Waiting(calls)' /\ LastOK'
    BY <1>2, <1>4, <2>1, GoesOnRight
  <2> QED
    BY <1>1, <2>2, VMStays, LookupStep DEF IInv, TypeOK
<1>5. CASE v # "nil" /\ Takes(f, v, "nowhere", Below)
  <2>1. Waiting(calls)' /\ LastOK'
    BY <1>2, <1>3, <1>5, TakesRight
  <2> QED
    BY <1>1, <2>1, VMStays, LookupStep DEF IInv, TypeOK
<1> QED
  BY <1>4, <1>5

LEMMA CallbackRaisesStep == IInv /\ CallbackRaises => IInv'
<1> DEFINE f == calls[Len(calls)]
<1> SUFFICES ASSUME IInv, calls # << >>, calls' = Below, Ends(f, "nowhere", "raised"),
                    UNCHANGED <<store, set, strict, vm>>
             PROVE  IInv'
  BY DEF CallbackRaises
<1>1. Waiting(Below) /\ f \in Frames
  BY Innermost
<1>2. Waiting(calls)'
  BY <1>1, WaitingStays
<1>3. "raised" \in Outcomes /\ "raised" \notin Missed /\ strict \in BOOLEAN
  BY DEF Outcomes, Missed, IInv, TypeOK
<1> HIDE DEF f
<1>4. LastTyped' /\ last'.outcome = "raised" /\ last'.place = "nowhere"
  BY <1>1, <1>3, EndsTyped
<1>5. UndefinedRaises' /\ ReturnedIsStored'
  BY <1>3, <1>4 DEF UndefinedRaises, ReturnedIsStored
<1> QED
  BY <1>2, <1>4, <1>5, VMStays, LookupStep DEF IInv, TypeOK, LastOK

LEMMA StepIInv == IInv /\ [Next]_vars => IInv'
<1> SUFFICES ASSUME IInv, [Next]_vars PROVE IInv'
  OBVIOUS
<1>1. CASE UNCHANGED vars
  <2>1. Waiting(calls)'
    BY <1>1, WaitingStays DEF vars, IInv
  <2>2. TypeOK'
    BY <1>1 DEF vars, IInv, TypeOK, Waits
  <2> QED
    BY <1>1, <2>1, <2>2 DEF vars, IInv, VMMade, VMFollows, UndefinedRaises, ReturnedIsStored
<1> QED
  BY <1>1, SetStrictVariablesStep, SetStep, PutStep, FindVariableStep, LookupKeyStep,
     KeyReturnsStep, ArefReturnsStep, ProcReturnsStep, DefaultReturnsStep, CallbackRaisesStep
     DEF Next

-----------------------------------------------------------------------------
LEMMA Inductive == Spec => []IInv
BY InitIInv, StepIInv, PTL DEF Spec

(* The VM of a context is as strict as the context at every moment, whether   *)
(* strictness was asked for before or after there was a VM, and through all  *)
(* lookups in between (context_set_strict_variables, context_internal_init). *)
THEOREM ContextFollowed == Spec => [](TypeOK /\ VMFollows)
<1>1. IInv => TypeOK /\ VMFollows
  BY DEF IInv
<1> QED
  BY <1>1, Inductive, PTL

(* However lookups nest in the Ruby code of other lookups, and whatever that  *)
(* code puts and removes: a lookup ends with UndefinedVariable, or TypeError *)
(* for a key that is not a string, only if it is strict and no place has     *)
(* held the key all the time, and does if none held it while it was left to  *)
(* look in (context_find_variable, context_maybe_raise_undefined_variable).  *)
THEOREM UndefinedReported == Spec => []UndefinedRaises
<1>1. IInv => UndefinedRaises
  BY DEF IInv
<1> QED
  BY <1>1, Inductive, PTL

(* What was returned for a place is what the place holds: a proc is replaced *)
(* by its value, also when it puts another value in its own place while it   *)
(* runs (materialize_proc).                                                  *)
THEOREM LookupsRight == Spec => []ReturnedIsStored
<1>1. IInv => ReturnedIsStored
  BY DEF IInv
<1> QED
  BY <1>1, Inductive, PTL
=============================================================================
