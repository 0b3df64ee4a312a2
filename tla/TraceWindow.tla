---------------------------- MODULE TraceWindow ----------------------------
(***************************************************************************)
(* The three ETISS plugins of this repository and the file writer they     *)
(* share, on one simulated core:                                           *)
(*   - ISAExtensionValidator is called before each instrumented            *)
(*     instruction, opens and closes the trace window and writes state     *)
(*     snapshots;                                                          *)
(*   - DataWriteTracer and DataReadTracer wrap the memory callbacks of the *)
(*     simulator and write an access while the window is open;             *)
(*   - TraceFileWriter owns trace.bin and the flag `trace_active_'.        *)
(*                                                                         *)
(* The CPU is the environment: it executes any instruction at any program  *)
(* counter, with any data accesses in the instruction's body.              *)
(*                                                                         *)
(* Addresses and masks are sets of bits, so that `a & m' is intersection.  *)
(* Register files and data bytes are opaque Values.                        *)
(***************************************************************************)
EXTENDS Integers, Sequences, FiniteSets

CONSTANTS
    Pcs,            \* program counters of the simulated program
    PcModulus,      \* 2^32 in the code: parsePc truncates to 32 bits
    Instrs,         \* instruction mnemonics
    Addrs,          \* addresses of data accesses, each the set of its bits
    Values,         \* register files and data bytes
    Lengths,        \* lengths in bytes of a data access
    DataSize,       \* sizeof(entry.data), 64 in the code
    NotANumber,     \* a bound std::stoul rejects
    Filters,        \* candidate itrace_instructions options, as sets of names
    RangeOptions,   \* candidate itrace_pc_ranges options: sequences of entries
    RangeFiles,     \* candidate contents of pcs.tmp: sequences of lines
    DWriteTracer,   \* the [addr, mask] options of DataWriteTracer
    DReadTracer,    \* the [addr, mask] options of DataReadTracer
    OpenOutcomes,   \* {TRUE}: trace.bin can be opened; FALSE: it may fail
    StaleTraces,    \* contents an earlier run may have left in trace.bin
    MaxEvents       \* bound: events of one run

ASSUME PcsAssumption == PcModulus \in Nat \ {0} /\ Pcs \subseteq 0 .. (PcModulus - 1)
ASSUME LengthsAssumption == DataSize \in Nat /\ Lengths \subseteq Nat
ASSUME OpenAssumption == OpenOutcomes \subseteq BOOLEAN /\ OpenOutcomes # {}
ASSUME TracersAssumption ==
    /\ DOMAIN DWriteTracer = {"addr", "mask"}
    /\ DOMAIN DReadTracer = {"addr", "mask"}
ASSUME RangesAssumption ==
    /\ RangeOptions \subseteq Seq(Seq(Nat \cup {NotANumber}))
    /\ RangeFiles \subseteq Seq(Seq(Nat \cup {NotANumber}))
ASSUME BoundAssumption == MaxEvents \in Nat

\* Records of trace.bin (StateSnapshotEntry, DWriteEntry, DReadEntry).
SnapshotEntry == [type : {1}, pc : Pcs, instruction : Instrs, x : Values]
DataEntry == [type : {2, 3}, pc : Pcs, addr : Addrs,
              length : 0 .. DataSize, data : Values]
Entry == SnapshotEntry \cup DataEntry

ASSUME StaleAssumption == StaleTraces \subseteq Seq(Entry)

\* What the CPU does, whether it is traced or not.
InstrEvent == [kind : {"instr"}, pc : Pcs, instruction : Instrs, x : Values]
DataEvent == [kind : {"dwrite", "dread"}, pc : Pcs, addr : Addrs,
              len : Lengths, data : Values, ok : BOOLEAN]
Event == InstrEvent \cup DataEvent

VARIABLES
    filter,         \* instructions_with_callback_ and trace_all_instructions_
    pc_ranges,      \* pc_ranges_, as a set of <<low, high>>
    phase,          \* where the simulator is in the current instruction
    pc,             \* instructionPointer
    instr,          \* the instruction being executed
    x,              \* the register file
    trace_active,   \* TraceFileWriter::trace_active_
    initialized,    \* the writer's singleton exists and has opened its file
    outfile_ok,     \* the file could be opened
    trace,          \* the records in trace.bin
    done            \* history: every instrumented start and every data access

config == <<filter, pc_ranges>>
cpu == <<phase, pc, instr, x>>
writer == <<trace_active, initialized, outfile_ok, trace>>
vars == <<config, cpu, writer, done>>

-----------------------------------------------------------------------------
(***************************************************************************)
(* Construction of the plugins.                                            *)
(***************************************************************************)

\* A range option is a sequence of entries, an entry the sequence of its
\* ':'-separated fields. An entry with fewer than two fields is ignored; a
\* bound that is no number makes std::stoul throw.
HasBounds(entry) == Len(entry) >= 2
Malformed(entry) == HasBounds(entry) /\ NotANumber \in {entry[1], entry[2]}
parsePc(value) == value % PcModulus

\* appendPcRange over all entries: those with high < low are ignored.
PcRanges(entries) ==
    { <<parsePc(e[1]), parsePc(e[2])>> :
        e \in { f \in { entries[i] : i \in DOMAIN entries } :
                  /\ HasBounds(f)
                  /\ ~ Malformed(f)
                  /\ parsePc(f[1]) <= parsePc(f[2]) } }

Throws(entries) == \E i \in DOMAIN entries : Malformed(entries[i])

\* The option wins over the file, of which only the first line is read.
RangeEntries(option, file) ==
    IF option # << >> THEN option
    ELSE IF file # << >> THEN <<file[1]>>
    ELSE << >>

\* Mutant: `*' is only honoured when it is the whole option.
InstrumentNamedOnly(i) == filter = {} \/ filter = {"*"} \/ i \in filter

shouldInstrumentInstruction(i) == filter = {} \/ "*" \in filter \/ i \in filter

isPcInRange(p) ==
    \/ pc_ranges = {}
    \/ \E range \in pc_ranges : range[1] <= p /\ p <= range[2]

\* Mutant: the option's address is compared without its mask.
MatchesUnmasked(tracer, addr) == addr \cap tracer.mask = tracer.addr

Matches(tracer, addr) ==
    addr \cap tracer.mask = tracer.addr \cap tracer.mask

\* Mutant: the length of the access is recorded as it is.
ClampNever(len) == len

Clamp(len) == IF len > DataSize THEN DataSize ELSE len

-----------------------------------------------------------------------------
(***************************************************************************)
(* TraceFileWriter.                                                        *)
(***************************************************************************)

\* Mutant: the file is opened for appending.
InstanceAppends ==
    IF initialized
    THEN {[ok |-> outfile_ok, contents |-> trace]}
    ELSE [ok : OpenOutcomes, contents : {<< >>, trace}]

\* The first call of instance() opens the file: an old file is removed or
\* truncated; when the open fails the old one may stay. Later calls do
\* nothing. Each outcome is the file's state after the call.
Instance ==
    IF initialized
    THEN {[ok |-> outfile_ok, contents |-> trace]}
    ELSE { file \in [ok : OpenOutcomes, contents : {<< >>, trace}] :
             file.ok => file.contents = << >> }

\* A write on a stream that failed to open is dropped.
WriteTo(file, entry) ==
    IF file.ok THEN Append(file.contents, entry) ELSE file.contents

\* Mutant: the window, once open, stays open.
MovedEdgeSticky(inRange) == trace_active \/ inRange

\* activateTrace and deactivateTrace as collectState calls them.
MovedEdge(inRange) ==
    CASE ~ trace_active /\ inRange -> TRUE
      [] trace_active /\ ~ inRange -> FALSE
      [] OTHER -> trace_active

\* The writer after `instance()' and, if wanted, one record.
TouchWriter(active, write, entry) ==
    \E file \in Instance :
        /\ initialized' = TRUE
        /\ outfile_ok' = file.ok
        /\ trace_active' = active
        /\ trace' = IF write THEN WriteTo(file, entry) ELSE file.contents

-----------------------------------------------------------------------------
(***************************************************************************)
(* The simulated core with the plugins' hooks.                             *)
(***************************************************************************)

\* The plugins are created before the first instruction; a range bound that
\* cannot be parsed makes the creation throw and nothing is simulated.
Init ==
    /\ filter \in Filters
    /\ \E option \in RangeOptions, file \in RangeFiles :
          LET entries == RangeEntries(option, file) IN
          /\ pc_ranges = PcRanges(entries)
          /\ phase = IF Throws(entries) THEN "failed" ELSE "fetch"
    /\ pc \in Pcs
    /\ instr \in Instrs
    /\ x \in Values
    /\ trace_active = FALSE
    /\ initialized = FALSE
    /\ outfile_ok = FALSE
    /\ trace \in StaleTraces
    /\ done = << >>

\* The next instruction; finalizeInstrSet put a callback before it when the
\* filter names it.
Fetch ==
    /\ phase = "fetch"
    /\ Len(done) < MaxEvents
    /\ pc' \in Pcs
    /\ instr' \in Instrs
    /\ phase' = IF shouldInstrumentInstruction(instr') THEN "callback" ELSE "body"
    /\ UNCHANGED <<config, x, writer, done>>

\* collectState: move the window's edge, then write a snapshot inside it.
CollectState ==
    /\ phase = "callback"
    /\ phase' = "body"
    /\ LET active == MovedEdge(isPcInRange(pc))
           entry == [type |-> 1, pc |-> pc, instruction |-> instr, x |-> x]
       IN TouchWriter(active, active, entry)
    /\ done' = Append(done, [kind |-> "instr", pc |-> pc,
                             instruction |-> instr, x |-> x])
    /\ UNCHANGED <<config, pc, instr, x>>

\* dataWriteTracerLog: record first, then forward; `ok' is the outcome of the
\* forwarded write, which the record does not wait for.
DWrite(addr, len, data, ok) ==
    /\ phase = "body"
    /\ Len(done) < MaxEvents
    /\ IF Matches(DWriteTracer, addr)
       THEN TouchWriter(trace_active, trace_active,
                        [type |-> 2, pc |-> pc, addr |-> addr,
                         length |-> Clamp(len), data |-> data])
       ELSE UNCHANGED writer
    /\ done' = Append(done, [kind |-> "dwrite", pc |-> pc, addr |-> addr,
                             len |-> len, data |-> data, ok |-> ok])
    /\ UNCHANGED <<config, cpu>>

\* dataReadTracerLog: forward first, record the bytes of a read that succeeded.
DRead(addr, len, data, ok) ==
    /\ phase = "body"
    /\ Len(done) < MaxEvents
    /\ IF ok /\ Matches(DReadTracer, addr)
       THEN TouchWriter(trace_active, trace_active,
                        [type |-> 3, pc |-> pc, addr |-> addr,
                         length |-> Clamp(len), data |-> data])
       ELSE UNCHANGED writer
    /\ done' = Append(done, [kind |-> "dread", pc |-> pc, addr |-> addr,
                             len |-> len, data |-> data, ok |-> ok])
    /\ UNCHANGED <<config, cpu>>

\* The instruction ends and leaves some register file behind.
Retire ==
    /\ phase = "body"
    /\ phase' = "fetch"
    /\ x' \in Values
    /\ UNCHANGED <<config, pc, instr, writer, done>>

\* The simulation ends between two instructions; the writer's destructor
\* closes the file.
Exit ==
    /\ phase = "fetch"
    /\ phase' = "exited"
    /\ UNCHANGED <<config, pc, instr, x, writer, done>>

Stopped ==
    /\ phase \in {"failed", "exited"}
    /\ UNCHANGED vars

Access ==
    \E addr \in Addrs, len \in Lengths, data \in Values, ok \in BOOLEAN :
        DWrite(addr, len, data, ok) \/ DRead(addr, len, data, ok)

Next == Fetch \/ CollectState \/ Access \/ Retire \/ Exit \/ Stopped

Spec == Init /\ [][Next]_vars

-----------------------------------------------------------------------------
(***************************************************************************)
(* Properties.                                                             *)
(***************************************************************************)

Phases == {"fetch", "callback", "body", "failed", "exited"}

\* Type invariant: what the plugins' state ranges over. Among the facts a
\* reader may rely on: no record claims more bytes than the 64 it has room for.
TypeOK ==
    /\ filter \in Filters
    /\ pc_ranges \subseteq (0 .. (PcModulus - 1)) \X (0 .. (PcModulus - 1))
    /\ phase \in Phases
    /\ pc \in Pcs /\ instr \in Instrs /\ x \in Values
    /\ trace_active \in BOOLEAN
    /\ initialized \in BOOLEAN
    /\ outfile_ok \in BOOLEAN
    /\ trace \in Seq(Entry)
    /\ done \in Seq(Event)

\* The history's instrumented instruction starts, and whether the last of them
\* lies in the window.
Starts == { k \in DOMAIN done : done[k].kind = "instr" }
LastStartInRange ==
    \E k \in Starts :
        /\ \A j \in Starts : j <= k
        /\ isPcInRange(done[k].pc)

\* Whatever the instruction filter, the writer is active exactly when the last
\* instruction that had a callback lies in the PC range: no access of the
\* tracers, no lazy opening and no end of an instruction moves the edge
\* (ISAExtensionValidator::collectState is the only one to move it).
WindowEdge == trace_active <=> LastStartInRange

\* Every record written by this run has its own program counter in the PC
\* range (src/README.md: load/store events are aligned with the function-level
\* trace window). It needs every instruction to be instrumented.
WindowAligned ==
    initialized /\ outfile_ok =>
        \A k \in DOMAIN trace : isPcInRange(trace[k].pc)

\* With every instruction instrumented, each data record follows the snapshot
\* of the very instruction that made the access, with only accesses of the
\* same instruction in between.
DataFollowsItsSnapshot ==
    initialized /\ outfile_ok =>
        \A k \in DOMAIN trace :
            trace[k].type # 1 =>
                \E j \in 1 .. (k - 1) :
                    /\ trace[j].type = 1
                    /\ \A i \in (j + 1) .. k : trace[i].type # 1
                    /\ \A i \in j .. k : trace[i].pc = trace[k].pc

\* What the tracers' options ask for: the address has the option's value on
\* each bit of the mask, whatever the other bits are.
Covers(tracer, addr) == \A bit \in tracer.mask : bit \in addr <=> bit \in tracer.addr

\* The file's image of an event, and the events the tracers are asked for.
RecordOf(e) ==
    IF e.kind = "instr"
    THEN [type |-> 1, pc |-> e.pc, instruction |-> e.instruction, x |-> e.x]
    ELSE [type |-> IF e.kind = "dwrite" THEN 2 ELSE 3, pc |-> e.pc,
          addr |-> e.addr, length |-> Clamp(e.len), data |-> e.data]

Wanted(e) ==
    CASE e.kind = "instr"  -> TRUE
      [] e.kind = "dwrite" -> Covers(DWriteTracer, e.addr)
      [] e.kind = "dread"  -> e.ok /\ Covers(DReadTracer, e.addr)

\* An event happens in the window when the last instrumented start up to it is
\* in range.
InWindow(k) ==
    \E s \in Starts :
        /\ s <= k /\ isPcInRange(done[s].pc)
        /\ \A j \in Starts : j <= k => j <= s

\* The events the file is asked for, and the place in the file each one has.
Recorded == { k \in DOMAIN done : InWindow(k) /\ Wanted(done[k]) }
PlaceOf(k) == Cardinality({ j \in Recorded : j <= k })

\* For every instruction filter, every outcome of the open and every leftover
\* of an earlier run: the file holds the wanted events of this run's windows,
\* in order and nothing else, or, when it could not be opened or no hook has
\* run yet, at most what the earlier run left (TraceFileWriter::instance and
\* its three write functions).
FileIsReplay ==
    IF initialized /\ outfile_ok
    THEN /\ Len(trace) = Cardinality(Recorded)
         /\ \A k \in Recorded : trace[PlaceOf(k)] = RecordOf(done[k])
    ELSE trace \in StaleTraces \cup {<< >>}

\* The abstract specification: with every instruction instrumented and a file
\* that opens, trace.bin is the log of the window's events, none missing, none
\* foreign, in execution order.
EventPc(e) == e.pc
Log == INSTANCE TraceLog WITH
    PcOf     <- EventPc,
    Selected <- Wanted,
    Record   <- RecordOf,
    window   <- { p \in Pcs : isPcInRange(p) },
    log      <- IF initialized THEN trace ELSE << >>

LogSpec == Log!Spec
=============================================================================
