--------------------------- MODULE MCTraceWindow ---------------------------
(***************************************************************************)
(* TraceWindow for TLC: a function at program counters 5..6 of a program   *)
(* at 5..7, 3-bit program counters, and every form of range option.        *)
(***************************************************************************)
EXTENDS TraceWindow

MCPcs == 5 .. 7
MCPcModulus == 8

\* The function's range; the same from bounds that need truncation; two
\* ranges; nothing; and entries the constructor ignores or rejects.
Function == << <<5, 6>> >>
Truncated == << <<13, 14>> >>
TwoRanges == << <<5, 5>>, <<7, 7>> >>
Reversed == << <<6, 5>> >>
OneField == << <<5>> >>
NoNumber == << <<5, 6>>, <<NotANumber, 6>> >>

AllOptions == {<< >>, Function, Truncated, TwoRanges, Reversed, OneField, NoNumber}
SomeOptions == {Function, TwoRanges}

NoFile == << >>
TwoLines == << <<5, 6>>, <<7, 7>> >>
AllFiles == {NoFile, TwoLines}
OneFile == {TwoLines}

EveryInstruction == {{}, {"*", "cjr"}}
OnlyReturns == {{"cjr"}}
SomeFilters == {{"cjr"}, {""}}

TraceAll == [addr |-> {}, mask |-> {}]
TraceUpper == [addr |-> {"b0", "b1"}, mask |-> {"b1"}]

StaleRecord == [type |-> 1, pc |-> 7, instruction |-> "sw", x |-> "v0"]
MaybeStale == {<< >>, <<StaleRecord>>}
=============================================================================
