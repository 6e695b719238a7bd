SPECIFICATION Spec
CONSTANTS
    Blocks = 3
    NodeSizes = {1, 2}
    QuickTokens = {1, 3}
    SlowTokens = {3, 4}
    EfaTokens = {3, 4}
    FixedDims = {TRUE, FALSE}
    MaxRounds = 2
INVARIANTS
    RoundsSeparate
PROPERTY
    StreamEnds
