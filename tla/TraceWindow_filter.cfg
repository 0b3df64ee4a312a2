CONSTANTS
    Pcs <- MCPcs
    PcModulus <- MCPcModulus
    Instrs = {"sw", "cjr"}
    Addrs = {{}, {"b1"}}
    Values = {"v0"}
    Lengths = {4}
    DataSize = 64
    NotANumber = NaN
    Filters <- SomeFilters
    RangeOptions <- AllOptions
    RangeFiles <- AllFiles
    DWriteTracer <- TraceUpper
    DReadTracer <- TraceAll
    OpenOutcomes = {TRUE, FALSE}
    StaleTraces <- MaybeStale
    MaxEvents = 3
SPECIFICATION Spec
INVARIANTS
    WindowEdge
    FileIsReplay
