CONSTANTS
    Subprograms <- MCSubprograms
    Unlocatable = {}
    Pcs <- MCPcs
    Mnemonics = {"sw", "jal", "cjalr", "cjr", "jalr"}
    Traces <- NoTraces
    RecursionLimit = 100
    Conventions <- NearCalls
    Windows <- PipelineWindow
    MayCallItself = TRUE
    MaxCalls = 3
    MaxStores = 1
SPECIFICATION ProgramSpec
INVARIANT AnyClaimOnEntries
