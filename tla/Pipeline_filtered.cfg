CONSTANTS
    Shapes = {"one_call", "two_calls"}
    Lapses = {"no_callback"}
    None = None
    MaxRuns = 1
SPECIFICATION FairSpec
INVARIANT FreshTraces
