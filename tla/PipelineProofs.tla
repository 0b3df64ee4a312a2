--------------------------- MODULE PipelineProofs ---------------------------
(***************************************************************************)
(* What run_pipeline can rely on, however many runs failed or were         *)
(* interrupted before it in the same directory, and whatever a simulation  *)
(* may do and still exit with code 0.  The invariant comes in two layers:  *)
(* what holds of the stages, and what holds of the trace file.             *)
(***************************************************************************)
EXTENDS Pipeline, TLAPS

\* What a stage relies on has been made, and the window is gone when it is no
\* longer due.
StagesInOrder ==
    /\ stage = "dwarf" => entries = [c \in Cases |-> None]
    /\ stage \in {"window", "start", "simulate", "cleanup", "merge"} /\ case = "isuv"
          => entries["golden_ref"] # None
    /\ stage \in {"log", "verify", "finished"} => \A c \in Cases : entries[c] # None
    /\ stage \in {"merge", "log", "verify", "finished"} => pcs_tmp = None
    /\ stage \in {"window", "start", "simulate", "cleanup", "merge"} =>
          entries["isuv"] = None /\ entries[case] = None
    /\ etiss = "recording" => trace_bin \in Trace

\* The inductive invariant of the stages.
StageInv ==
    /\ TypeOK
    /\ WindowFollowsCase
    /\ StagesInOrder
    /\ SuccessIsComplete

\* This run's simulation of the case c has opened trace.bin.
Recorded(c) == trace_bin # None /\ Own(trace_bin, c)

\* No trace is newer than the run, or was recorded outside its own window.
TracesPlausible ==
    /\ trace_bin # None => trace_bin.run <= run /\ trace_bin.window = trace_bin.case
    /\ \A c \in Cases : entries[c] # None => entries[c].window = entries[c].case

\* Before it records, a case has no trace of this run: not in the stages before
\* the simulator, nor while it has opened nothing, and the instruction set under
\* verification not as long as the golden reference is worked on.
NothingRecordedYet ==
    /\ stage \in {"dwarf", "window", "start"} \/ etiss \in {"loaded", "dropping"}
          => ~Recorded(case)
    /\ stage = "dwarf" => \A c \in Cases : ~Recorded(c)
    /\ stage \in Working /\ case = "golden_ref" => ~Recorded("isuv")

\* The history: no lapse before the simulator runs; what its end made of
\* trace.bin; and what that makes of the entries.
LapsesFollowStage ==
    /\ stage \in Working /\ case = "golden_ref" => "isuv" \notin lapsed
    /\ stage = "dwarf" => lapsed = {}
    /\ stage \in {"window", "start"} \/ etiss \in {"loaded", "recording"} => case \notin lapsed
    /\ etiss = "recording" => Own(trace_bin, case) /\ ~trace_bin.whole
    /\ etiss = "dropping" => case \in lapsed
    /\ stage \in {"cleanup", "merge"} =>
          (Recorded(case) /\ trace_bin.whole <=> case \notin lapsed)

\* The inductive invariant of the traces, given that of the stages.
TraceInv == TracesPlausible /\ NothingRecordedYet /\ LapsesFollowStage /\ OwnTraces

-----------------------------------------------------------------------------
(***************************************************************************)
(* Lemmas.                                                                 *)
(***************************************************************************)

\* A trace, and a case, are never mistaken for a missing file.
LEMMA NoneIsNoTrace == None \notin Trace /\ None \notin Cases
BY NoneAssumption

\* The record the simulator starts is a trace.
LEMMA TraceRecords ==
    ASSUME TypeOK, NEW shape \in Shapes
    PROVE  /\ NewTrace(shape) \in Trace
           /\ NewTrace(shape).case = case
           /\ NewTrace(shape).window = window
           /\ NewTrace(shape).run = run
           /\ NewTrace(shape).whole = FALSE
BY DEF TypeOK, Trace, NewTrace

\* Flushing the file changes nothing but that.
LEMMA WholeTrace ==
    ASSUME NEW t \in Trace
    PROVE  /\ [t EXCEPT !.whole = TRUE] \in Trace
           /\ [t EXCEPT !.whole = TRUE].case = t.case
           /\ [t EXCEPT !.whole = TRUE].window = t.window
           /\ [t EXCEPT !.whole = TRUE].run = t.run
           /\ [t EXCEPT !.whole = TRUE].whole = TRUE
BY DEF Trace

\* A run started again begins like the first one, with the files it finds.
LEMMA RerunIsFresh ==
    ASSUME TypeOK, Rerun
    PROVE  /\ run' \in 1 .. MaxRuns
           /\ stage' = "dwarf" /\ case' = "golden_ref"
           /\ etiss' = "off" /\ window' = None
           /\ entries' = [c \in Cases |-> None]
           /\ pcs_tmp' = pcs_tmp /\ trace_bin' = trace_bin
           /\ run < run' /\ lapsed' = {}
<1>1. run' \in 1 .. MaxRuns
    BY RunsAssumption DEF Rerun, TypeOK
<1>2. run < run'
    BY DEF Rerun, TypeOK
<1> QED
    BY <1>1, <1>2 DEF Rerun, Fresh, files

-----------------------------------------------------------------------------
(***************************************************************************)
(* The stages.                                                             *)
(***************************************************************************)

\* The first run begins without entries, simulator or files.
LEMMA StageInit == Init => StageInv
<1> SUFFICES ASSUME Init PROVE StageInv
    OBVIOUS
<1>1. TypeOK
    BY RunsAssumption DEF Init, TypeOK, Working, Cases
<1> QED
    BY <1>1 DEF Init, StageInv, WindowFollowsCase, StagesInOrder, SuccessIsComplete

\* Every step preserves the stages' invariant.
LEMMA StageStep == StageInv /\ [Next]_vars => StageInv'
<1> SUFFICES ASSUME StageInv, [Next]_vars PROVE StageInv'
    OBVIOUS
<1> USE NoneIsNoTrace
    DEF StageInv, TypeOK, WindowFollowsCase, StagesInOrder, SuccessIsComplete,
        Cases, Working, Ended, simulator, files
<1>1. CASE ExtractDwarf
    BY <1>1 DEF ExtractDwarf
<1>2. CASE WriteWindow
    BY <1>2 DEF WriteWindow, WrittenWindow
<1>3. CASE StartEtiss
    BY <1>3 DEF StartEtiss
<1>4. CASE FirstCallback
    <2>1. trace_bin' \in Trace
        BY <1>4, TraceRecords DEF FirstCallback, OpenedTrace
    <2> QED
        BY <1>4, <2>1 DEF FirstCallback
<1>5. CASE EtissSucceeds
    <2>1. trace_bin' \in Trace \cup {None}
        BY <1>5, WholeTrace DEF EtissSucceeds, Closed
    <2>2. lapsed' \subseteq Cases
        BY <1>5 DEF EtissSucceeds, Closed, Lapse
    <2>3. etiss # "off"
        BY <1>5 DEF EtissSucceeds, Closed
    <2> QED
        BY <1>5, <2>1, <2>2, <2>3 DEF EtissSucceeds
<1>6. CASE EtissFails
    BY <1>6 DEF EtissFails
<1>7. CASE RemoveWindow
    BY <1>7 DEF RemoveWindow, RemovedWindow
<1>8. CASE MergeTrace
    BY <1>8 DEF MergeTrace, AfterMerge
<1>9. CASE LogSnapshots
    BY <1>9 DEF LogSnapshots
<1>10. CASE Verify
    BY <1>10 DEF Verify, ShapesAgree
<1>11. CASE Raise
    BY <1>11 DEF Raise
<1>12. CASE Interrupt
    BY <1>12 DEF Interrupt, Killed
<1>13. CASE Rerun
    BY <1>13, RerunIsFresh
<1>14. CASE UNCHANGED vars
    BY <1>14 DEF vars
<1>15. CASE FirstCallbackUnopened
    BY <1>15 DEF FirstCallbackUnopened, Lapse
<1> QED
    BY <1>1, <1>2, <1>3, <1>4, <1>5, <1>6, <1>7, <1>8, <1>9, <1>10, <1>11,
       <1>12, <1>13, <1>14, <1>15 DEF Next, Pipe, Etiss, Stopped

\* The stages' invariant holds throughout.
LEMMA StageInvariant == Spec => []StageInv
BY StageInit, StageStep, PTL DEF Spec

-----------------------------------------------------------------------------
(***************************************************************************)
(* The traces.                                                             *)
(***************************************************************************)

\* There are no entries, no traces and no lapses yet.
LEMMA TraceInit == Init => TraceInv
BY DEF Init, TraceInv, TracesPlausible, NothingRecordedYet, LapsesFollowStage,
       OwnTraces, Recorded, Working, Cases

\* Every step preserves the traces' invariant: an old trace.bin is replaced
\* when the simulation opens it, and the entries are made of what it left.
LEMMA TraceStep == StageInv /\ TraceInv /\ [Next]_vars => TraceInv'
<1> SUFFICES ASSUME StageInv, TraceInv, [Next]_vars PROVE TraceInv'
    OBVIOUS
<1>1. TypeOK /\ WindowFollowsCase
    BY DEF StageInv
<1> USE <1>1, NoneIsNoTrace
    DEF TypeOK, TraceInv, TracesPlausible, NothingRecordedYet, LapsesFollowStage,
        OwnTraces, Recorded, Own, Working, Cases, simulator, files
<1>2. CASE FirstCallback
    <2>1. PICK shape \in Shapes : trace_bin' = NewTrace(shape)
        BY <1>2 DEF FirstCallback, OpenedTrace
    <2>2. /\ trace_bin' \in Trace
          /\ trace_bin'.case = case /\ trace_bin'.window = case
          /\ trace_bin'.run = run /\ trace_bin'.whole = FALSE
        <3>1. window = case
            BY <1>2 DEF FirstCallback, WindowFollowsCase
        <3> QED
            BY <2>1, <3>1, TraceRecords
    <2> QED
        BY <1>2, <2>2 DEF FirstCallback
<1>3. CASE FirstCallbackUnopened
    <2>1. stage = "simulate" /\ ~Recorded(case)
        BY <1>3 DEF FirstCallbackUnopened
    <2>2. /\ etiss' = "dropping" /\ lapsed' = lapsed \cup {case}
          /\ trace_bin' \in {trace_bin, None}
          /\ UNCHANGED <<stage, case, run, entries>>
        BY <1>3 DEF FirstCallbackUnopened, Lapse
    <2>3. entries[case] = None
        BY <2>1 DEF StageInv, StagesInOrder
    <2>4. TracesPlausible'
        BY <2>2
    <2>5. NothingRecordedYet'
        BY <2>1, <2>2
    <2>6. LapsesFollowStage'
        BY <2>1, <2>2
    <2>7. OwnTraces'
        BY <2>2, <2>3
    <2> QED
        BY <2>4, <2>5, <2>6, <2>7
<1>4. CASE EtissSucceeds
    <2>1. CASE etiss = "recording" /\ trace_bin' = [trace_bin EXCEPT !.whole = TRUE]
               /\ UNCHANGED lapsed
        <3>1. trace_bin \in Trace
            BY <2>1 DEF StageInv, StagesInOrder
        <3>2. /\ trace_bin' \in Trace
              /\ trace_bin'.case = trace_bin.case /\ trace_bin'.window = trace_bin.window
              /\ trace_bin'.run = trace_bin.run /\ trace_bin'.whole = TRUE
            BY <2>1, <3>1, WholeTrace
        <3> QED
            BY <1>4, <2>1, <3>1, <3>2 DEF EtissSucceeds
    <2>2. CASE etiss # "off" /\ UNCHANGED trace_bin
               /\ (Lapse("lost_writes") \/ Lapse("no_callback"))
        <3>1. stage = "simulate" /\ ~(Recorded(case) /\ trace_bin.whole)
            BY <2>2
        <3> QED
            BY <1>4, <2>2, <3>1 DEF EtissSucceeds, Lapse, StageInv, StagesInOrder
    <2>3. CASE etiss = "dropping" /\ UNCHANGED <<trace_bin, lapsed>>
        BY <1>4, <2>3 DEF EtissSucceeds
    <2> QED
        BY <1>4, <2>1, <2>2, <2>3 DEF EtissSucceeds, Closed
<1>5. CASE MergeTrace
    <2>1. entries'[case] = trace_bin /\ \A c \in Cases \ {case} : entries'[c] = entries[c]
        BY <1>5 DEF MergeTrace
    <2>2. stage = "merge" /\ UNCHANGED <<run, etiss, trace_bin, lapsed>>
        BY <1>5 DEF MergeTrace
    <2>3. \/ case = "golden_ref" /\ case' = "isuv" /\ stage' = "window"
          \/ case = "isuv" /\ case' = "isuv" /\ stage' = "log"
        BY <1>5 DEF MergeTrace, AfterMerge
    <2>4. TracesPlausible'
        BY <2>1, <2>2
    <2>5. NothingRecordedYet'
        BY <2>2, <2>3
    <2>6. LapsesFollowStage'
        BY <2>2, <2>3
    <2>7. OwnTraces'
        BY <2>1, <2>2
    <2> QED
        BY <2>4, <2>5, <2>6, <2>7
<1>6. CASE Rerun
    <2>1. trace_bin # None => trace_bin.run \in 1 .. MaxRuns
        BY DEF Trace
    <2>2. trace_bin # None => trace_bin.run < run'
        BY <1>6, <2>1, RerunIsFresh
    <2>3. \A c \in Cases : ~Recorded(c)' /\ entries'[c] = None
        BY <1>6, <2>1, <2>2, RerunIsFresh
    <2>4. /\ stage' = "dwarf" /\ case' = "golden_ref" /\ etiss' = "off" /\ lapsed' = {}
          /\ run' \in 1 .. MaxRuns /\ trace_bin' = trace_bin
        BY <1>6, RerunIsFresh
    <2>5. TracesPlausible'
        BY <2>1, <2>2, <2>3, <2>4
    <2>6. NothingRecordedYet' /\ LapsesFollowStage'
        BY <2>3, <2>4
    <2> QED
        BY <2>3, <2>5, <2>6
<1>7. CASE Interrupt
    BY <1>7 DEF Interrupt, Killed
<1>8. CASE ExtractDwarf \/ WriteWindow \/ StartEtiss
    BY <1>8 DEF ExtractDwarf, WriteWindow, StartEtiss
<1>9. CASE RemoveWindow \/ LogSnapshots \/ Verify
    BY <1>9 DEF RemoveWindow, LogSnapshots, Verify
<1>10. CASE EtissFails \/ Raise \/ UNCHANGED vars
    BY <1>10 DEF EtissFails, Raise, vars
<1> QED
    BY <1>2, <1>3, <1>4, <1>5, <1>6, <1>7, <1>8, <1>9, <1>10 DEF Next, Pipe, Etiss, Stopped

-----------------------------------------------------------------------------
(***************************************************************************)
(* Theorems.                                                               *)
(***************************************************************************)

\* The pipeline's variables keep their types, and the simulator runs only in
\* its stage.
THEOREM TypeCorrect == Spec => []TypeOK
<1>1. StageInv => TypeOK
    BY DEF StageInv
<1> QED
    BY StageInvariant, <1>1, PTL

\* A simulation is always confined to its own case's window, whatever range
\* an earlier run left in pcs.tmp.
THEOREM WindowCorrect == Spec => []WindowFollowsCase
<1>1. StageInv => WindowFollowsCase
    BY DEF StageInv
<1> QED
    BY StageInvariant, <1>1, PTL

\* Success is never reported over collections of different shapes, nor with a
\* window left behind.
THEOREM SuccessCorrect == Spec => []SuccessIsComplete
<1>1. StageInv => SuccessIsComplete
    BY DEF StageInv
<1> QED
    BY StageInvariant, <1>1, PTL

\* In any number of failed, interrupted and repeated runs, and whatever the
\* simulations do: the entries of a case come from this run's own, complete
\* trace of that case exactly if its simulation opened the file and lost no
\* record, and from a trace inside its own binary's window in any case.
THEOREM OwnTracesCorrect == Spec => []OwnTraces
<1>1. TraceInv => OwnTraces
    BY DEF TraceInv
<1> QED
    BY StageInvariant, TraceInit, TraceStep, <1>1, PTL DEF Spec
=============================================================================
