----------------------------- MODULE MCContext -----------------------------
(* An instance of Context for TLC: a scope, an environment with a default    *)
(* proc, and an object that is not a hash, both looked up in itself and a    *)
(* static environment.                                                     *)
EXTENDS Context

MCScopes == <<"object">>
MCEnvironments == <<"environment">>
MCStaticEnvironments == <<"object">>

(* Bounds: only the object holds anything at the Integer key, it does not     *)
(* hold nil, nor a proc at that key, and settings are made between lookups   *)
MCBounds ==
    /\ \A k \in Keys \ StringKeys :
          store[Object][k] # "proc" /\ \A p \in Places \ {Object} : ~Found(p, k)
    /\ \A k \in Keys : store[Object][k] # "nil"
    /\ set = {} \/ calls = << >>
=============================================================================
