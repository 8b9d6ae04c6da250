----------------------------- MODULE AssignBill -----------------------------
(***************************************************************************)
(* What resource_limits.c promises about the assign score, without the     *)
(* writes: a capture is paid for when it ends, and only then.  The bill is *)
(* what the assignments and the captures that have ended cost since the    *)
(* last reset.  Nothing that happens inside a capture, a private buffer or *)
(* a failing tag is seen here, only that a capture may have been open when *)
(* the limits were reset: it pays for what it has grown since, which is    *)
(* negative when its string got shorter.                                   *)
(***************************************************************************)
EXTENDS Integers

VARIABLES
    bill,  \* the cost of what has been assigned
    depth, \* the number of captures that have begun and not ended
    older  \* how many of them were open at the last reset

bvars == <<bill, depth, older>>

Init == bill = 0 /\ depth = 0 /\ older = 0

Pay == bill' \in Int /\ bill' >= bill

Reset == bill' = 0 /\ older' = depth /\ UNCHANGED depth
Assign == Pay /\ UNCHANGED <<depth, older>>
BeginCapture == depth' = depth + 1 /\ UNCHANGED <<bill, older>>
EndCapture == depth > older /\ depth' = depth - 1 /\ Pay /\ UNCHANGED older
EndOlderCapture == depth > 0 /\ older = depth /\ depth' = depth - 1 /\ older' = depth'
                   /\ bill' \in Int

Next == Reset \/ Assign \/ BeginCapture \/ EndCapture \/ EndOlderCapture
Spec == Init /\ [][Next]_bvars
=============================================================================
