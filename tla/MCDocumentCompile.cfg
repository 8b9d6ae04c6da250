CONSTANTS
    b1 = b1
    b2 = b2
    Bodies = {b1, b2}
    MaxDocs = 2
    MaxNodes <- TwoNodes
    MaxCalls = 3
SPECIFICATION Spec
SYMMETRY BodySymmetry
CONSTRAINT TwoTogether
INVARIANTS
    TypeOK
    AssemblersOwned
    CompiledIntact
    BlankRendersNothing
    ScoreCoversNodes
    RenderedIsComplete
PROPERTY RenderedDocumentsStay
CHECK_DEADLOCK FALSE
