CONSTANTS
    Models <- AllModels
    Vectors <- AllVectors
    AllowPad = TRUE
    WordBits = 2
    Lanes = 2
    FULL_UNROLL_K = 3
SPECIFICATION KernelSpec
INVARIANTS VerdictIsTrained StaysInScratch
