------------------------------ MODULE Pipeline ------------------------------
(***************************************************************************)
(* python3 -m py_etiss_xvalid: the stages of run_pipeline, the simulator   *)
(* it starts twice as a subprocess, and the two files of the working       *)
(* directory through which they talk: pcs.tmp (the trace window, written   *)
(* by the pipeline) and trace.bin (written by the plugins).  The files     *)
(* outlive a run: a failed or interrupted run leaves them to the next.     *)
(*                                                                         *)
(* A trace is what the merger needs to know of it: whose program it was    *)
(* recorded from, with whose window, in which run, and the shape of the    *)
(* entry collection it yields (how many groups of how many entries).       *)
(***************************************************************************)
EXTENDS Integers

CONSTANTS
    Shapes,       \* shapes of entry collections
    Lapses,       \* what a simulation may do and still exit with code 0
    None,         \* no file, no entries
    MaxRuns       \* bound: runs in the same directory

\* The simulation ends before any hook touches the writer; trace.bin cannot be
\* opened, which is only logged; records do not reach it, which nobody checks.
ASSUME LapsesAssumption == Lapses \subseteq {"no_callback", "not_opened", "lost_writes"}
ASSUME RunsAssumption == MaxRuns \in Nat \ {0}

Cases == {"golden_ref", "isuv"}
Trace == [case : Cases, window : Cases \cup {None}, run : 1 .. MaxRuns,
          shape : Shapes, whole : BOOLEAN]

ASSUME NoneAssumption == None \notin Cases \cup Trace

VARIABLES
    stage,        \* where run_pipeline is
    case,         \* the binary it is working on
    run,          \* how often the pipeline has been started here
    entries,      \* golden_ref_entries and isuv_entries, by the trace they come from
    etiss,        \* the simulator: "off", "loaded", "recording" or "dropping"
    window,       \* the PC range its plugin has read
    pcs_tmp,      \* the file pcs.tmp: whose range it holds
    trace_bin,    \* the file trace.bin
    lapsed        \* history: the cases whose simulation in this run had a lapse

files == <<pcs_tmp, trace_bin>>
simulator == <<etiss, window>>
vars == <<stage, case, run, entries, simulator, files, lapsed>>

Working == {"dwarf", "window", "start", "simulate", "cleanup", "merge", "log", "verify"}
Ended == {"finished", "terminated", "interrupted"}

Fresh ==
    /\ stage' = "dwarf"
    /\ case' = "golden_ref"
    /\ entries' = [c \in Cases |-> None]
    /\ etiss' = "off"
    /\ window' = None
    /\ lapsed' = {}

Init ==
    /\ stage = "dwarf" /\ case = "golden_ref" /\ run = 1
    /\ entries = [c \in Cases |-> None]
    /\ etiss = "off" /\ window = None
    /\ pcs_tmp = None /\ trace_bin = None /\ lapsed = {}

-----------------------------------------------------------------------------
\* Both binaries are examined before anything is simulated.
ExtractDwarf ==
    /\ stage = "dwarf"
    /\ IF case = "golden_ref"
       THEN case' = "isuv" /\ UNCHANGED stage
       ELSE case' = "golden_ref" /\ stage' = "window"
    /\ UNCHANGED <<run, entries, simulator, files, lapsed>>

\* Mutant: pcs.tmp is only written when there is none.
WindowIfAbsent == pcs_tmp' = IF pcs_tmp = None THEN case ELSE pcs_tmp

\* open(..., "w"): the range of the case's function of interest replaces
\* whatever the file held.
WrittenWindow == pcs_tmp' = case

WriteWindow ==
    /\ stage = "window"
    /\ WrittenWindow
    /\ stage' = "start"
    /\ UNCHANGED <<case, run, entries, simulator, trace_bin, lapsed>>

\* The simulator starts; creating the validator plugin reads the range file. The
\* ini file is the user's: this is one that sets neither itrace_pc_ranges nor
\* itrace_pc_ranges_fpath, which would take precedence over pcs.tmp.
StartEtiss ==
    /\ stage = "start"
    /\ stage' = "simulate"
    /\ etiss' = "loaded"
    /\ window' = pcs_tmp
    /\ UNCHANGED <<case, run, entries, files, lapsed>>

\* The file a simulation begins. The shape is that of the collection the file
\* will yield, however much of it is written.
NewTrace(shape) ==
    [case |-> case, window |-> window, run |-> run, shape |-> shape, whole |-> FALSE]

\* Mutant: the file is opened for appending.
AppendedTrace(shape) == IF trace_bin = None THEN NewTrace(shape) ELSE trace_bin

\* An old file is deleted or truncated.
OpenedTrace(shape) == NewTrace(shape)

Lapse(kind) == kind \in Lapses /\ lapsed' = lapsed \cup {case}

\* The first callback of the simulation opens trace.bin, in place of an old one.
FirstCallback ==
    /\ etiss = "loaded"
    /\ etiss' = "recording"
    /\ \E shape \in Shapes : trace_bin' = OpenedTrace(shape)
    /\ UNCHANGED <<stage, case, run, entries, window, pcs_tmp, lapsed>>

\* Or it cannot be opened: the old file stays or has been deleted before, and
\* the simulation goes on with a stream that drops every record.
FirstCallbackUnopened ==
    /\ etiss = "loaded"
    /\ Lapse("not_opened")
    /\ etiss' = "dropping"
    /\ trace_bin' \in {trace_bin, None}
    /\ UNCHANGED <<stage, case, run, entries, window, pcs_tmp>>

\* What the file holds when the writer's destructor has closed it: every record,
\* or less, for no write and no close is checked, or what it held before, when
\* no hook opened it or it could not be opened.
Closed ==
    \/ /\ etiss = "recording"
       /\ trace_bin' = [trace_bin EXCEPT !.whole = TRUE]
       /\ UNCHANGED lapsed
    \/ /\ etiss = "recording"
       /\ Lapse("lost_writes")
       /\ UNCHANGED trace_bin
    \/ /\ etiss = "dropping"
       /\ UNCHANGED <<trace_bin, lapsed>>
    \/ /\ etiss = "loaded"
       /\ Lapse("no_callback")
       /\ UNCHANGED trace_bin

\* The simulator ends with exit code 0.
EtissSucceeds ==
    /\ Closed
    /\ etiss' = "off"
    /\ stage' = "cleanup"
    /\ UNCHANGED <<case, run, entries, window, pcs_tmp>>

\* Any other end raises, past the removal of pcs.tmp.
EtissFails ==
    /\ etiss # "off"
    /\ etiss' = "off"
    /\ stage' = "terminated"
    /\ UNCHANGED <<case, run, entries, window, files, lapsed>>

\* Mutant: the file is left behind.
WindowKept == UNCHANGED pcs_tmp

RemovedWindow == pcs_tmp' = None

RemoveWindow ==
    /\ stage = "cleanup"
    /\ RemovedWindow
    /\ stage' = "merge"
    /\ UNCHANGED <<case, run, entries, simulator, trace_bin, lapsed>>

\* Mutant: after the second simulation there is always another one.
AlwaysSimulate ==
    /\ case' = "isuv"
    /\ stage' = "window"

\* The golden reference's entries are followed by the ISUV's simulation.
AfterMerge ==
    IF case = "golden_ref"
    THEN case' = "isuv" /\ stage' = "window"
    ELSE case' = case /\ stage' = "log"

\* build_simulation_entries on the trace.bin of the working directory.
MergeTrace ==
    /\ stage = "merge"
    /\ trace_bin # None
    /\ entries' = [entries EXCEPT ![case] = trace_bin]
    /\ AfterMerge
    /\ UNCHANGED <<run, simulator, files, lapsed>>

LogSnapshots ==
    /\ stage = "log"
    /\ stage' = "verify"
    /\ UNCHANGED <<case, run, entries, simulator, files, lapsed>>

\* Mutant: entries are paired as far as they go.
ShapesIgnored == TRUE

\* The collections have as many groups, and each pair of groups as many entries.
ShapesAgree == entries["golden_ref"].shape = entries["isuv"].shape

\* verify_entries compares pairwise, or raises on the first difference in number.
Verify ==
    /\ stage = "verify"
    /\ stage' = IF ShapesAgree THEN "finished" ELSE "terminated"
    /\ UNCHANGED <<case, run, entries, simulator, files, lapsed>>

\* An exception of any stage outside the simulator: no DWARF, an unsupported
\* architecture, no function of interest, no simulator, a trace that is missing
\* or ends inside a record.  Every one ends the run with its files in place.
Raise ==
    /\ stage \in Working \ {"simulate"}
    /\ stage' = "terminated"
    /\ UNCHANGED <<case, run, entries, simulator, files, lapsed>>

\* Mutant: the simulator outlives the pipeline.
Orphaned == UNCHANGED etiss

\* subprocess.run kills the simulator on any exception.
Killed == etiss' = "off"

\* The user interrupts: no handler catches KeyboardInterrupt.
Interrupt ==
    /\ stage \in Working
    /\ stage' = "interrupted"
    /\ Killed
    /\ UNCHANGED <<case, run, entries, window, files, lapsed>>

\* The pipeline is started again in the same directory.
Rerun ==
    /\ stage \in Ended
    /\ run < MaxRuns
    /\ run' = run + 1
    /\ Fresh
    /\ UNCHANGED files

Stopped ==
    /\ stage \in Ended
    /\ run = MaxRuns
    /\ UNCHANGED vars

Pipe ==
    \/ ExtractDwarf \/ WriteWindow \/ StartEtiss \/ RemoveWindow
    \/ MergeTrace \/ LogSnapshots \/ Verify \/ Raise
Etiss == FirstCallback \/ FirstCallbackUnopened \/ EtissSucceeds \/ EtissFails

Next == Pipe \/ Etiss \/ Interrupt \/ Rerun \/ Stopped

Spec == Init /\ [][Next]_vars

\* The interpreter keeps executing, and the simulated program ends: there is
\* no timeout around the simulator that would end it otherwise.
FairSpec == Spec /\ WF_vars(Pipe) /\ WF_vars(Etiss)

-----------------------------------------------------------------------------
(***************************************************************************)
(* Properties.                                                             *)
(***************************************************************************)

\* Type invariant; the simulator runs only inside its stage.
TypeOK ==
    /\ stage \in Working \cup Ended
    /\ case \in Cases
    /\ run \in 1 .. MaxRuns
    /\ entries \in [Cases -> Trace \cup {None}]
    /\ etiss \in {"off", "loaded", "recording", "dropping"}
    /\ etiss # "off" <=> stage = "simulate"
    /\ window \in Cases \cup {None}
    /\ pcs_tmp \in Cases \cup {None}
    /\ trace_bin \in Trace \cup {None}
    /\ lapsed \subseteq Cases

\* t was recorded by this run, from the binary of case c.
Own(t, c) == t.case = c /\ t.run = run

\* Whatever failed and interrupted runs left behind: the entries of a case come
\* from a trace that this run recorded, completely, from that case's binary,
\* exactly if its simulation opened trace.bin and every record reached it. No
\* other failure and no order of runs can put another trace in its place, and
\* whichever it is, it was recorded inside its own binary's window.
OwnTraces ==
    \A c \in Cases :
        entries[c] # None =>
            /\ Own(entries[c], c) /\ entries[c].whole <=> c \notin lapsed
            /\ entries[c].window = entries[c].case

\* The entries of a case come from a trace that this run recorded from its
\* binary, as "old output file deleted at startup" has it. It fails: the file is
\* opened by the first callback, and a simulation need not make one.
FreshTraces == \A c \in Cases : entries[c] # None => Own(entries[c], c)

\* A run that reports success has compared two collections of the same shape,
\* and leaves no window behind for the next simulation in this directory.
SuccessIsComplete ==
    stage = "finished" =>
        /\ \A c \in Cases : entries[c] # None
        /\ entries["golden_ref"].shape = entries["isuv"].shape
        /\ pcs_tmp = None

\* While a simulation is due or running, pcs.tmp holds the range of the binary
\* simulated, and so does the plugin, whatever an earlier run left there.
WindowFollowsCase ==
    stage \in {"start", "simulate", "cleanup"} =>
        pcs_tmp = case /\ (stage # "start" => window = case)

\* A run comes to an end, by itself or by its user.
RunEnds == stage \in Working ~> stage \in Ended
=============================================================================
