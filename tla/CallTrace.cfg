CONSTANTS
    Subprograms <- MCSubprograms
    Unlocatable = {}
    Pcs <- MCPcs
    Mnemonics = {"sw", "jal", "cjalr", "cjr", "jalr"}
    Traces <- NoTraces
    RecursionLimit = 100
    Conventions <- NearCalls
    Windows <- MCWindows
    MayCallItself = FALSE
    MaxCalls = 4
    MaxStores = 2
SPECIFICATION ProgramSpec
INVARIANTS
    OneCallPerEntry
    OneEntryPerCall
    GroupPerOutermostCall
    ChainIsCallChain
