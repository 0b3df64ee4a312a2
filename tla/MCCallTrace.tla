---------------------------- MODULE MCCallTrace ----------------------------
(***************************************************************************)
(* CallTrace for TLC: three functions that may call each other.            *)
(***************************************************************************)
EXTENDS CallTrace

MCSubprograms ==
    << [name |-> "f", low |-> 1, high |-> 3],
       [name |-> "g", low |-> 3, high |-> 5],
       [name |-> "h", low |-> 5, high |-> 8] >>
MCPcs == 1 .. 8
NoTraces == {<< >>}

\* The pipeline's window, one more range, and everything.
MCWindows == { {"f"}, {"f", "h"}, {"f", "g", "h"} }

\* The pipeline's window: the range of the function of interest.
PipelineWindow == { {"f"} }

\* Compressed binaries return with c.jr and call with jal or c.jalr; the
\* others return with jalr, and call with jal.
NearCalls == { [call |-> "jal", return |-> "cjr"],
               [call |-> "cjalr", return |-> "cjr"],
               [call |-> "jal", return |-> "jalr"] }

=============================================================================
