CONSTANTS
    Pcs <- MCPcs
    PcModulus <- MCPcModulus
    Instrs = {"sw", "cjr"}
    Addrs = {{}, {"b1"}}
    Values = {"v0"}
    Lengths = {4, 65}
    DataSize = 64
    NotANumber = NaN
    Filters <- EveryInstruction
    RangeOptions <- SomeOptions
    RangeFiles <- OneFile
    DWriteTracer <- TraceUpper
    DReadTracer <- TraceUpper
    OpenOutcomes = {TRUE}
    StaleTraces <- MaybeStale
    MaxEvents = 4
SPECIFICATION Spec
INVARIANTS
    TypeOK
    WindowAligned
    DataFollowsItsSnapshot
PROPERTY LogSpec
