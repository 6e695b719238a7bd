SPECIFICATION Spec
CONSTANTS
    MaxWorld = 4
    MaxNets = 2
    DpSizes = {1, 2}
    MaxExperts = 4
    PerToken = {1, 2}
    Private = {0, 1}
    Padding = 2
    MaxTokens = 2
    MaxRouted = 4
INVARIANTS
    ImmediatesExpected
    TokensFound
    ResultsReturn
    BuffersSuffice
