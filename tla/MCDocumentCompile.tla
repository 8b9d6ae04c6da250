-------------------------- MODULE MCDocumentCompile -------------------------
(* Instances of DocumentCompile for TLC: two bodies, of two nodes each or    *)
(* together.                                                               *)
EXTENDS DocumentCompile, FiniteSetsExt, TLC

CONSTANTS b1, b2

BodySymmetry == Permutations(Bodies)

TwoNodes == [b \in Bodies |-> 2]

(* Bound: two nodes together, written for the bodies or counted              *)
Nodes(code) == Cardinality({j \in 1..Len(code.ins) : code.ins[j].op # "leave"})
Written(b) == IF Open(b) THEN Nodes(CodeOf(b)) ELSE Nodes(body[b].meant)
Score(b) == IF Compiled(b) THEN HeaderOf(b).score ELSE body[b].score
TwoTogether ==
    /\ Written(b1) + Written(b2) <= 2
    /\ Score(b1) + Score(b2) + MapThenSumSet(LAMBDA i : calls[i].score, 1..Len(calls)) <= 2
=============================================================================
