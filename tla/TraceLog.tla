------------------------------ MODULE TraceLog ------------------------------
(***************************************************************************)
(* What trace.bin promises to its reader (src/README.md, "Tracing with     *)
(* bare_etiss_processor"): a log, in execution order, of every instruction *)
(* started and every data access selected by the tracers while the program *)
(* counter is inside the trace window, and of nothing else.                *)
(*                                                                         *)
(* `done' is everything the CPU did, `log' what a reader of the file sees. *)
(***************************************************************************)
EXTENDS Sequences

CONSTANTS
    Event,          \* what the CPU can do
    PcOf(_),        \* the program counter of an event
    Selected(_),    \* the events the tracers are asked for
    Record(_)       \* the file's image of an event

VARIABLES
    window,         \* the program counters that are to be traced
    done,           \* the events of the run, in execution order
    log             \* the records of the file, in file order

vars == <<window, done, log>>

Init ==
    /\ done = << >>
    /\ log = << >>

\* One event happens: it is logged exactly when it is selected and its own
\* program counter lies in the window.
Happen(e) ==
    /\ done' = Append(done, e)
    /\ log' = IF PcOf(e) \in window /\ Selected(e)
              THEN Append(log, Record(e))
              ELSE log
    /\ UNCHANGED window

Next == \E e \in Event : Happen(e)

Spec == Init /\ [][Next]_vars
=============================================================================
