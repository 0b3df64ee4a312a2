CONSTANTS
    Pcs <- MCPcs
    PcModulus <- MCPcModulus
    Instrs = {"sw", "cjr"}
    Addrs = {{}, {"b1"}}
    Values = {"v0"}
    Lengths = {4}
    DataSize = 64
    NotANumber = NaN
    Filters <- OnlyReturns
    RangeOptions <- SomeOptions
    RangeFiles <- OneFile
    DWriteTracer <- TraceAll
    DReadTracer <- TraceAll
    OpenOutcomes = {TRUE}
    StaleTraces <- MaybeStale
    MaxEvents = 4
SPECIFICATION Spec
INVARIANT WindowAligned
