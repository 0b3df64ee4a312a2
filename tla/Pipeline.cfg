CONSTANTS
    Shapes = {"one_call", "two_calls"}
    Lapses = {"no_callback", "not_opened", "lost_writes"}
    None = None
    MaxRuns = 3
SPECIFICATION FairSpec
INVARIANTS
    TypeOK
    OwnTraces
    SuccessIsComplete
    WindowFollowsCase
PROPERTY RunEnds
