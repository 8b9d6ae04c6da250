CONSTANTS
    b1 = b1
    b2 = b2
    Bodies = {b1, b2}
    MaxDocs = 1
    MaxNodes <- TwoNodes
    MaxCalls = 3
SPECIFICATION Spec
SYMMETRY BodySymmetry
INVARIANT NodelistHoldsTags
CHECK_DEADLOCK FALSE
