------------------------------ MODULE Context ------------------------------
(***************************************************************************)
(* Contexts and variable lookup (context.c, variable_lookup.c).  The VM of a *)
(* context is made when something first needs it (vm_from_context), and     *)
(* keeps the settings of the context as they are then.  A lookup goes       *)
(* through scopes, environments and static environments, and calls Ruby     *)
(* code in the middle: a proc that stands for a value, the default proc of a *)
(* hash, key? and [] of a place that is not a hash.  That code can put       *)
(* values anywhere, look up others, or raise.                               *)
(***************************************************************************)
EXTENDS Integers, Sequences

CONSTANTS
    Places,     \* what variables and keys are looked up in
    Scopes, Environments, StaticEnvironments, \* sequences of places
    Object,     \* an object that keys are looked up in, as in a.b
    Hashes,     \* the places that are hashes; in others key? and [] are Ruby code
    Storing,    \* the places where the value of a proc takes its place, by []=
    Fetching,   \* the places that have fetch
    Defaulting, \* the environments that are hashes with a default proc
    Keys, Values,
    StringKeys, \* the other keys are Integers
    Settings,   \* strict_filters, global_filter, the filters that can be added
    MaxCalls    \* bound on the lookups that are in progress

ASSUME PlacesAssumption ==
    /\ {Scopes, Environments, StaticEnvironments} \subseteq Seq(Places)
    /\ Object \in Places \ Hashes /\ Hashes \subseteq Storing /\ Storing \subseteq Places
    /\ Fetching \subseteq Places /\ "nowhere" \notin Places
    /\ \A i \in 1..Len(Scopes) : Scopes[i] \notin (Storing \ Hashes) \cup Defaulting
    /\ Defaulting \subseteq Hashes

ASSUME ValuesAssumption ==
    /\ "nil" \in Values
    /\ {"missing", "proc", "undefined", "TypeError", "raised", "none"} \cap Values = {}
    /\ Keys # {} /\ StringKeys \subseteq Keys /\ MaxCalls \in Nat

VARIABLES
    store,  \* what is in the places
    set,    \* the settings of the context that have been made
    strict, \* @strict_variables of the context
    vm,     \* context_t of the VM of the context, <<>> if there is none
    calls,  \* the lookups that wait for Ruby code, innermost last
    last    \* history: how the lookup that ended last went

vars == <<store, set, strict, vm, calls, last>>

-----------------------------------------------------------------------------
Init ==
    /\ store \in [Places -> [Keys -> {"missing", "proc"}]]
    /\ set = {} /\ strict = FALSE /\ vm = << >> /\ calls = << >>
    /\ last = [outcome |-> "none", place |-> "nowhere", key |-> CHOOSE k \in Keys : TRUE,
               held |-> FALSE, ever |-> FALSE, strictly |-> FALSE]

(* vm_internal_new and context_internal_init                               *)
VMOfContext == IF vm = << >> THEN <<[set |-> set, strict |-> FALSE]>> ELSE vm

(* c_strict_variables=; the model does not let the Ruby code of a lookup     *)
(* call it                                                                 *)
(* Mutant: it tells the VM only if there is one.                             *)
SetStrictVariablesLazily == \E strict_variables \in BOOLEAN :
    /\ calls = << >>
    /\ vm' = IF vm = << >> THEN vm ELSE [vm EXCEPT ![1].strict = strict_variables]
    /\ strict' = strict_variables
    /\ UNCHANGED <<store, set, calls, last>>
SetStrictVariables == \E strict_variables \in BOOLEAN :
    /\ calls = << >>
    /\ vm' = [VMOfContext EXCEPT ![1].strict = strict_variables]
    /\ strict' = strict_variables
    /\ UNCHANGED <<store, set, calls, last>>

(* strict_filters=, global_filter= and add_filters of the gem, which do not   *)
(* know of the VM                                                          *)
Set == \E s \in Settings \ set :
    /\ set' = set \cup {s}
    /\ UNCHANGED <<store, strict, vm, calls, last>>

-----------------------------------------------------------------------------
Found(p, k) == store[p][k] # "missing"
Below == SubSeq(calls, 1, Len(calls) - 1)

(* A lookup in progress: places that are left to look in, the first being    *)
(* that whose Ruby code runs.  History: the places that have held the key    *)
(* ever since it began, and whether any has while it was left to look in.    *)
Lookup(places, k, raises, fetches) ==
    LET holding == {i \in 1..Len(places) : Found(places[i], k)}
    IN [places |-> places, key |-> k, raises |-> raises, fetches |-> fetches, running |-> "none",
        held |-> {places[i] : i \in holding}, ever |-> holding # {}]

(* The lookups of c, when v is put at k of p                                 *)
Noted(c, p, k, v) ==
    LET left(f) == \E n \in 1..Len(f.places) : f.places[n] = p
        of(f) == IF f.key # k THEN f
                 ELSE IF v = "missing" THEN [f EXCEPT !.held = @ \ {p}]
                 ELSE [f EXCEPT !.ever = @ \/ left(f)]
    IN [i \in 1..Len(c) |-> of(c[i])]

(* Ruby code, in the middle of a lookup or not, puts a value somewhere, or   *)
(* removes it                                                              *)
Put == \E p \in Places, k \in Keys, v \in Values \cup {"proc", "missing"} :
    /\ store[p][k] # v
    /\ store' = [store EXCEPT ![p][k] = v]
    /\ calls' = Noted(calls, p, k, v)
    /\ last' = IF <<last.place, last.key>> = <<p, k>> THEN [last EXCEPT !.place = "nowhere"]
               ELSE last
    /\ UNCHANGED <<set, strict, vm>>

(* strict_variables and raise_on_not_found                                  *)
Strictly(f) == f.raises /\ VMOfContext[1].strict

(* context_maybe_raise_undefined_variable: Check_Type comes first            *)
NotFound(f) ==
    IF ~Strictly(f) THEN "nil" ELSE IF f.key \in StringKeys THEN "undefined" ELSE "TypeError"

Ends(f, place, outcome) ==
    LET strictly == f.raises /\ strict
    IN last' = [outcome |-> outcome, place |-> place, key |-> f.key, strictly |-> strictly,
                held |-> strictly /\ f.held # {}, ever |-> strictly /\ f.ever]

(* Is the default proc asked?  environments_find_variable: not if an         *)
(* undefined variable raises.                                              *)
(* Mutant: raise_on_not_found is not looked at, nor strict_variables.        *)
AsksAlways(f, p) == p \in Defaulting
Asks(f, p) == p \in Defaulting /\ ~Strictly(f)

(* The lookup at its i-th place, and past the first                          *)
At(f, i) == [f EXCEPT !.places = SubSeq(@, i, Len(@))]
Past(f) == [At(f, 2) EXCEPT !.running = "none"]

Runs(f, code, below) == calls' = Append(below, [f EXCEPT !.running = code]) /\ UNCHANGED last

(* The first place has given a value, which it holds if it is place          *)
Takes(f, value, place, below) ==
    IF value = "proc" /\ f.places[1] \in Storing THEN Runs(f, "proc", below)
    ELSE calls' = below /\ Ends(f, place, value)

(* context_find_variable and variable_lookup_key, on to the next Ruby code   *)
(* or to the end; the lookups below are those that go on after it           *)
GoesOn(f, below) ==
    LET Stops(i) == \/ f.places[i] \notin Hashes
                    \/ Found(f.places[i], f.key)
                    \/ Asks(f, f.places[i])
    IN \/ /\ \A i \in 1..Len(f.places) : ~Stops(i)
          /\ calls' = below /\ Ends(f, "nowhere", NotFound(f))
       \/ \E i \in 1..Len(f.places) :
            LET p == f.places[i]
            IN /\ Stops(i) /\ \A j \in 1..(i - 1) : ~Stops(j)
               /\ \/ p \notin Hashes /\ Runs(At(f, i), "key?", below)
                  \/ p \in Hashes /\ ~Found(p, f.key) /\ Runs(At(f, i), "default", below)
                  \/ p \in Hashes /\ Found(p, f.key) /\ Takes(At(f, i), store[p][f.key], p, below)

Order == Scopes \o Environments \o StaticEnvironments

FindVariable == \E k \in Keys, raises \in BOOLEAN :
    /\ Len(calls) < MaxCalls
    /\ vm' = VMOfContext
    /\ GoesOn(Lookup(Order, k, raises, FALSE), calls)
    /\ UNCHANGED <<store, set, strict>>

(* variable_lookup_key, of a key that is not the name of a command: an        *)
(* Integer is looked up whatever key? says if the object has fetch           *)
LookupKey == \E k \in Keys :
    /\ Len(calls) < MaxCalls
    /\ vm' = VMOfContext
    /\ LET fetches == k \notin StringKeys /\ Object \in Fetching
       IN GoesOn(Lookup(<<Object>>, k, ~fetches, fetches), calls)
    /\ UNCHANGED <<store, set, strict>>

Running(code) == calls # << >> /\ calls[Len(calls)].running = code

KeyReturns ==
    /\ Running("key?")
    /\ LET f == calls[Len(calls)] IN
         IF Found(f.places[1], f.key) \/ f.fetches THEN Runs(f, "[]", Below)
         ELSE GoesOn(Past(f), Below)
    /\ UNCHANGED <<store, set, strict, vm>>

(* [] gives what the place holds by then, anything if that is nothing         *)
ArefReturns == \E v \in Values \cup {"proc"} :
    /\ Running("[]")
    /\ LET f == calls[Len(calls)]
           p == f.places[1]
       IN \/ Found(p, f.key) /\ store[p][f.key] = v /\ Takes(f, v, p, Below)
          \/ ~Found(p, f.key) /\ Takes(f, v, "nowhere", Below)
    /\ UNCHANGED <<store, set, strict, vm>>

(* materialize_proc stores what the proc returns                            *)
(* Mutant: unless something has been put there in between.                  *)
ProcReturnsUnlessPut == \E v \in Values \cup {"proc"} :
    /\ Running("proc")
    /\ LET f == calls[Len(calls)]
           p == f.places[1]
       IN /\ IF Found(p, f.key) /\ store[p][f.key] # "proc" THEN store' = store /\ calls' = Below
             ELSE store' = [store EXCEPT ![p][f.key] = v] /\ calls' = Noted(Below, p, f.key, v)
          /\ Ends(f, p, v)
    /\ UNCHANGED <<set, strict, vm>>
ProcReturns == \E v \in Values \cup {"proc"} :
    /\ Running("proc")
    /\ LET f == calls[Len(calls)]
           p == f.places[1]
       IN /\ store' = [store EXCEPT ![p][f.key] = v]
          /\ calls' = Noted(Below, p, f.key, v)
          /\ Ends(f, p, v)
    /\ UNCHANGED <<set, strict, vm>>

(* What a default proc returns is not stored, unless it is a proc again; nil  *)
(* is no value, and the lookup goes on with the next place.                  *)
DefaultReturns == \E v \in Values \cup {"proc"} :
    /\ Running("default")
    /\ LET f == calls[Len(calls)] IN
         \/ v = "nil" /\ GoesOn(Past(f), Below)
         \/ v # "nil" /\ Takes(f, v, "nowhere", Below)
    /\ UNCHANGED <<store, set, strict, vm>>

CallbackRaises ==
    /\ calls # << >>
    /\ calls' = Below /\ Ends(calls[Len(calls)], "nowhere", "raised")
    /\ UNCHANGED <<store, set, strict, vm>>

Next ==
    \/ SetStrictVariables \/ Set \/ Put \/ FindVariable \/ LookupKey
    \/ KeyReturns \/ ArefReturns \/ ProcReturns \/ DefaultReturns \/ CallbackRaises

Spec == Init /\ [][Next]_vars

-----------------------------------------------------------------------------
Contents == Values \cup {"missing", "proc"}

Codes == {"key?", "[]", "proc", "default"}

Lookups ==
    [places : Seq(Places), key : Keys, raises : BOOLEAN, fetches : BOOLEAN, running : Codes,
     held : SUBSET Places, ever : BOOLEAN]

Waits(f) ==
    /\ f.places # << >>
    /\ f.running \in {"key?", "[]"} => f.places[1] \notin Hashes
    /\ f.running = "proc" => f.places[1] \in Storing
    /\ f.running = "default" => f.places[1] \in Defaulting /\ ~(f.raises /\ strict)

Missed == {"undefined", "TypeError"}

Outcomes == Contents \cup Missed \cup {"none", "raised"}

(* The types of the variables.  A lookup that waits is at a place: one that  *)
(* is not a hash if it waits for key? or []; a hash with a default proc if   *)
(* it waits for that, and then the lookup does not raise if the variable is  *)
(* undefined; otherwise a place that can be stored in                       *)
(* (environments_find_variable, materialize_proc).                           *)
TypeOK ==
    /\ store \in [Places -> [Keys -> Contents]]
    /\ set \subseteq Settings /\ strict \in BOOLEAN
    /\ vm = << >> \/ \E c \in [set : SUBSET Settings, strict : BOOLEAN] : vm = <<c>>
    /\ calls \in Seq(Lookups)
    /\ last \in [outcome : Outcomes, place : Places \cup {"nowhere"}, key : Keys,
                 held : BOOLEAN, ever : BOOLEAN, strictly : BOOLEAN]
    /\ calls # << >> => vm # << >>
    /\ \A i \in 1..Len(calls) : Waits(calls[i])

(* The VM of a context reads undefined variables strictly just when the      *)
(* context says so, at every moment, also if the context said so before      *)
(* there was a VM (context_set_strict_variables, context_internal_init).     *)
VMFollows == vm # << >> => vm[1].strict = strict

(* The README says to use the documented API of the gem.  What it sets does   *)
(* not reach the VM that there is: a filter that is added, or strict filters *)
(* that are asked for, after the first lookup (context_internal_init).       *)
SettingsFollow == vm # << >> => vm[1].set = set

(* Whatever Ruby code puts and removes in the middle of a lookup: it ends     *)
(* with the error of an undefined variable only if the context is strict,    *)
(* the caller asked for it, and no place has held the key all the time; and  *)
(* it does, if Ruby code raises nothing else, when no place held the key     *)
(* while it was left to look in, so that no default proc supplies the value. *)
(* The error is a TypeError just for keys that are not strings               *)
(* (context_find_variable, context_maybe_raise_undefined_variable).          *)
UndefinedRaises ==
    /\ last.outcome \in Missed =>
         /\ last.strictly /\ ~last.held
         /\ last.outcome = "undefined" <=> last.key \in StringKeys
    /\ last.strictly /\ ~last.ever => last.outcome \in Missed \cup {"raised"}

(* What a lookup took from a place is what the place holds, so that the next *)
(* lookup sees it too, until it is put over: the value of a proc also if Ruby *)
(* code put another there while it ran (materialize_proc).                   *)
ReturnedIsStored == last.place # "nowhere" => store[last.place][last.key] = last.outcome
=============================================================================
