CONSTANTS
    Subprograms <- MCSubprograms
    Unlocatable = {"h"}
    Pcs <- MCPcs
    Mnemonics = {"sw", "cswsp", "cjr", "jalr"}
    Traces <- MCTraces
    RecursionLimit = 3
    MaxAny = 4
    MaxCore = 7
SPECIFICATION FairSpec
INVARIANTS
    TypeOK
    CompleteEntries
    EachAccessOnce
    ChainDiscipline
    GroupsAreExecutions
    GroupsInOrder
PROPERTY Terminates
