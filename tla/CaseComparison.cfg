CONSTANTS
    TypeDie <- MCTypeDie
    NoDie = NoDie
    NoMarch = NoMarch
    NoAddress = NoAddress
    RecursionLimit = 12
    SourceFile = "prog.c"
    SupportedMarchs <- MCMarchs
    HeaderBytes = 4
    RecordBytes <- MCRecordBytes
    BufferBytes = 8
    FunctionOfInterest = "fun"
    Cases <- MCCases
SPECIFICATION CaseSpec
INVARIANTS
    CaseTypeOK
    CodeIsNamed
    RangesRight
    WholeOrRaised
    LastWriteIsLast
    EachPairCompared
    FailIsReal
    PassIsAgreement
    ReturnInRegistersExact
    ReturnInMemoryExact
 
