------------------------- MODULE TraceWindowProofs -------------------------
(***************************************************************************)
(* What holds of the trace window for every program, every option string   *)
(* and every run length.                                                   *)
(***************************************************************************)
EXTENDS TraceWindow, FiniteSetTheorems, TLAPS

-----------------------------------------------------------------------------
(***************************************************************************)
(* Type correctness.                                                       *)
(***************************************************************************)

\* The bounds that the constructor keeps are 32-bit numbers, whatever the
\* option or the file held.
LEMMA PcRangesType ==
    ASSUME NEW entries \in Seq(Seq(Nat \cup {NotANumber}))
    PROVE  PcRanges(entries) \subseteq
               (0 .. (PcModulus - 1)) \X (0 .. (PcModulus - 1))
<1> SUFFICES ASSUME NEW i \in DOMAIN entries,
                    HasBounds(entries[i]), ~ Malformed(entries[i])
             PROVE  /\ parsePc(entries[i][1]) \in 0 .. (PcModulus - 1)
                    /\ parsePc(entries[i][2]) \in 0 .. (PcModulus - 1)
    BY DEF PcRanges
<1>1. entries[i] \in Seq(Nat \cup {NotANumber})
    OBVIOUS
<1>2. 1 \in DOMAIN entries[i] /\ 2 \in DOMAIN entries[i]
    BY <1>1 DEF HasBounds
<1>3. entries[i][1] \in Nat /\ entries[i][2] \in Nat
    BY <1>1, <1>2 DEF HasBounds, Malformed
<1>4. \A n \in Nat : n % PcModulus \in 0 .. (PcModulus - 1)
    BY PcsAssumption
<1> QED
    BY <1>3, <1>4 DEF parsePc

\* The option and the file are sequences of entries, and so is what is used.
LEMMA RangeEntriesType ==
    ASSUME NEW option \in RangeOptions, NEW file \in RangeFiles
    PROVE  RangeEntries(option, file) \in Seq(Seq(Nat \cup {NotANumber}))
<1>1. option \in Seq(Seq(Nat \cup {NotANumber})) /\ file \in Seq(Seq(Nat \cup {NotANumber}))
    BY RangesAssumption
<1> DEFINE Row == Seq(Nat \cup {NotANumber})
<1>2. file # << >> => file[1] \in Row
    BY <1>1
<1> HIDE DEF Row
<1>3. << >> \in Seq(Row) /\ \A row \in Row : <<row>> \in Seq(Row)
    OBVIOUS
<1>4. RangeEntries(option, file) \in Seq(Row)
    BY <1>1, <1>2, <1>3 DEF RangeEntries, Row
<1> QED
    BY <1>4 DEF Row

\* What a use of the writer leaves behind.
LEMMA TouchWriterType ==
    ASSUME TypeOK, NEW active \in BOOLEAN, NEW write \in BOOLEAN, NEW entry \in Entry,
           TouchWriter(active, write, entry)
    PROVE  /\ trace_active' \in BOOLEAN
           /\ initialized' \in BOOLEAN
           /\ outfile_ok' \in BOOLEAN
           /\ trace' \in Seq(Entry)
<1>1. \A file \in Instance : file.ok \in BOOLEAN /\ file.contents \in Seq(Entry)
    <2>1. << >> \in Seq(Entry) /\ trace \in Seq(Entry)
        BY DEF TypeOK
    <2>2. CASE initialized
        BY <2>1, <2>2 DEF TypeOK, Instance
    <2>3. CASE ~ initialized
        BY <2>1, <2>3, OpenAssumption DEF Instance
    <2> QED
        BY <2>2, <2>3
<1>2. PICK file \in Instance :
          /\ outfile_ok' = file.ok
          /\ trace' = IF write THEN WriteTo(file, entry) ELSE file.contents
    BY DEF TouchWriter
<1>3. WriteTo(file, entry) \in Seq(Entry)
    BY <1>1 DEF WriteTo
<1> QED
    BY <1>1, <1>2, <1>3 DEF TouchWriter

\* The window's edge is a flag.
LEMMA MovedEdgeType ==
    ASSUME TypeOK, NEW p
    PROVE  MovedEdge(isPcInRange(p)) \in BOOLEAN
BY DEF TypeOK, MovedEdge, isPcInRange

\* A record never claims more bytes than it has room for.
LEMMA ClampType ==
    ASSUME NEW len \in Lengths
    PROVE  Clamp(len) \in 0 .. DataSize
BY LengthsAssumption DEF Clamp

\* One data access, recorded or not.
LEMMA AccessType ==
    ASSUME TypeOK,
           NEW addr \in Addrs, NEW len \in Lengths, NEW data \in Values, NEW ok \in BOOLEAN,
           DWrite(addr, len, data, ok) \/ DRead(addr, len, data, ok)
    PROVE  TypeOK'
<1> DEFINE entry(t) == [type |-> t, pc |-> pc, addr |-> addr,
                        length |-> Clamp(len), data |-> data]
<1> DEFINE event(k) == [kind |-> k, pc |-> pc, addr |-> addr,
                        len |-> len, data |-> data, ok |-> ok]
<1>1. entry(2) \in Entry /\ entry(3) \in Entry
    BY ClampType DEF TypeOK, Entry, DataEntry
<1>2. /\ trace_active' \in BOOLEAN /\ initialized' \in BOOLEAN
      /\ outfile_ok' \in BOOLEAN /\ trace' \in Seq(Entry)
    <2>1. CASE UNCHANGED writer
        BY <2>1 DEF TypeOK, writer
    <2>2. CASE TouchWriter(trace_active, trace_active, entry(2))
        <3>1. trace_active \in BOOLEAN
            BY DEF TypeOK
        <3> HIDE DEF entry
        <3> QED  BY <1>1, <2>2, <3>1, TouchWriterType
    <2>3. CASE TouchWriter(trace_active, trace_active, entry(3))
        <3>1. trace_active \in BOOLEAN
            BY DEF TypeOK
        <3> HIDE DEF entry
        <3> QED  BY <1>1, <2>3, <3>1, TouchWriterType
    <2> QED
        BY <2>1, <2>2, <2>3 DEF DWrite, DRead
<1>3. done' \in Seq(Event)
    <2>1. event("dwrite") \in Event /\ event("dread") \in Event
        BY DEF TypeOK, Event, DataEvent
    <2>2. done' = Append(done, event("dwrite")) \/ done' = Append(done, event("dread"))
        BY DEF DWrite, DRead
    <2>3. done \in Seq(Event)
        BY DEF TypeOK
    <2> HIDE DEF event
    <2> QED
        BY <2>1, <2>2, <2>3
<1> QED
    BY <1>2, <1>3 DEF TypeOK, DWrite, DRead, config, cpu

\* TypeOK is inductive.
LEMMA TypeStep == TypeOK /\ [Next]_vars => TypeOK'
<1> SUFFICES ASSUME TypeOK, [Next]_vars PROVE TypeOK'
    OBVIOUS
<1>1. CASE Fetch
    BY <1>1 DEF TypeOK, Fetch, config, writer, Phases
<1>2. CASE CollectState
    <2> DEFINE entry == [type |-> 1, pc |-> pc, instruction |-> instr, x |-> x]
    <2> DEFINE active == MovedEdge(isPcInRange(pc))
    <2>1. entry \in Entry /\ active \in BOOLEAN
        BY MovedEdgeType DEF TypeOK, Entry, SnapshotEntry
    <2>2. TouchWriter(active, active, entry)
        BY <1>2 DEF CollectState
    <2>3. /\ trace_active' \in BOOLEAN /\ initialized' \in BOOLEAN
          /\ outfile_ok' \in BOOLEAN /\ trace' \in Seq(Entry)
        <3> HIDE DEF entry, active
        <3> QED  BY <2>1, <2>2, TouchWriterType
    <2>4. done' \in Seq(Event)
        <3>1. [kind |-> "instr", pc |-> pc, instruction |-> instr, x |-> x] \in Event
            BY DEF TypeOK, Event, InstrEvent
        <3> QED  BY <1>2, <3>1 DEF TypeOK, CollectState
    <2> QED
        BY <1>2, <2>3, <2>4 DEF TypeOK, CollectState, config, Phases
<1>3. CASE Access
    BY <1>3, AccessType DEF Access
<1>4. CASE Retire
    BY <1>4 DEF TypeOK, Retire, config, writer, Phases
<1>5. CASE Exit
    BY <1>5 DEF TypeOK, Exit, config, writer, Phases
<1>6. CASE Stopped \/ UNCHANGED vars
    BY <1>6 DEF TypeOK, Stopped, vars, config, cpu, writer
<1> QED
    BY <1>1, <1>2, <1>3, <1>4, <1>5, <1>6 DEF Next

\* Every reachable state of the plugins is well typed; in particular every
\* record of trace.bin has the layout and the length bound the parser expects.
THEOREM TypeCorrect == Spec => []TypeOK
<1>1. Init => TypeOK
    <2> SUFFICES ASSUME Init PROVE TypeOK
        OBVIOUS
    <2>1. pc_ranges \subseteq (0 .. (PcModulus - 1)) \X (0 .. (PcModulus - 1))
        BY PcRangesType, RangeEntriesType DEF Init
    <2>2. trace \in Seq(Entry)
        BY StaleAssumption DEF Init
    <2>3. done \in Seq(Event)
        BY DEF Init
    <2>4. phase \in Phases
        BY DEF Init, Phases
    <2> QED
        BY <2>1, <2>2, <2>3, <2>4 DEF Init, TypeOK
<1> QED
    BY <1>1, TypeStep, PTL DEF Spec

-----------------------------------------------------------------------------
(***************************************************************************)
(* The window's edge, for every instruction filter.                        *)
(***************************************************************************)

\* collectState leaves the flag equal to "in range": both branches of its
\* condition, and the fall-through, agree.
LEMMA MovedEdgeIsInRange ==
    ASSUME TypeOK
    PROVE  MovedEdge(isPcInRange(pc)) = isPcInRange(pc)
<1>1. isPcInRange(pc) \in BOOLEAN
    BY DEF isPcInRange
<1> QED
    BY <1>1 DEF TypeOK, MovedEdge

\* A data access is no start: the last start stays what it was.
LEMMA AccessKeepsLastStart ==
    ASSUME TypeOK, NEW e, e.kind # "instr", done' = Append(done, e), UNCHANGED pc_ranges
    PROVE  LastStartInRange' <=> LastStartInRange
<1>1. done \in Seq(Event)
    BY DEF TypeOK
<1>2. Starts' = Starts
    BY <1>1 DEF Starts
<1>3. \A k \in Starts : done'[k] = done[k]
    BY <1>1 DEF Starts
<1> QED
    BY <1>2, <1>3 DEF LastStartInRange, isPcInRange

\* A start becomes the last start.
LEMMA StartIsLastStart ==
    ASSUME TypeOK, NEW e, e.kind = "instr", done' = Append(done, e), UNCHANGED pc_ranges
    PROVE  LastStartInRange' <=> isPcInRange(e.pc)
<1> DEFINE n == Len(done) + 1
<1>1. done \in Seq(Event)
    BY DEF TypeOK
<1>2. n \in Starts' /\ done'[n] = e
    BY <1>1 DEF Starts
<1>3. \A j \in Starts' : j \in Nat /\ j <= n
    BY <1>1 DEF Starts
<1>4. n \in Nat
    BY <1>1
<1>5. ASSUME NEW k \in Starts', \A j \in Starts' : j <= k  PROVE  k = n
    BY <1>2, <1>3, <1>4, <1>5
<1> HIDE DEF n
<1> QED
    BY <1>2, <1>3, <1>5 DEF LastStartInRange, isPcInRange

\* WindowEdge is inductive relative to TypeOK.
LEMMA EdgeStep == TypeOK /\ WindowEdge /\ [Next]_vars => WindowEdge'
<1> SUFFICES ASSUME TypeOK, WindowEdge, [Next]_vars PROVE WindowEdge'
    OBVIOUS
<1>1. ASSUME UNCHANGED <<done, trace_active, pc_ranges>>  PROVE  WindowEdge'
    BY <1>1 DEF WindowEdge, LastStartInRange, Starts, isPcInRange
<1>2. CASE Fetch \/ Retire \/ Exit \/ Stopped \/ UNCHANGED vars
    BY <1>1, <1>2 DEF Fetch, Retire, Exit, Stopped, vars, config, writer
<1>3. CASE CollectState
    <2> DEFINE e == [kind |-> "instr", pc |-> pc, instruction |-> instr, x |-> x]
    <2>1. trace_active' = isPcInRange(pc)
        BY <1>3, MovedEdgeIsInRange DEF CollectState, TouchWriter
    <2>2. e.kind = "instr" /\ e.pc = pc /\ done' = Append(done, e) /\ UNCHANGED pc_ranges
        BY <1>3 DEF CollectState, config
    <2> HIDE DEF e
    <2>3. LastStartInRange' <=> isPcInRange(pc)
        BY <2>2, StartIsLastStart
    <2> QED
        BY <2>1, <2>3 DEF WindowEdge
<1>4. CASE Access
    <2>1. PICK addr \in Addrs, len \in Lengths, data \in Values, ok \in BOOLEAN :
              DWrite(addr, len, data, ok) \/ DRead(addr, len, data, ok)
        BY <1>4 DEF Access
    <2>2. trace_active' = trace_active
        BY <2>1 DEF DWrite, DRead, TouchWriter, writer
    <2>3. \E e : e.kind # "instr" /\ done' = Append(done, e) /\ UNCHANGED pc_ranges
        <3> DEFINE event(k) == [kind |-> k, pc |-> pc, addr |-> addr,
                                len |-> len, data |-> data, ok |-> ok]
        <3>1. event("dwrite").kind # "instr" /\ event("dread").kind # "instr"
            OBVIOUS
        <3>2. done' = Append(done, event("dwrite")) \/ done' = Append(done, event("dread"))
            BY <2>1 DEF DWrite, DRead
        <3>3. UNCHANGED pc_ranges
            BY <2>1 DEF DWrite, DRead, config
        <3> HIDE DEF event
        <3> QED  BY <3>1, <3>2, <3>3
    <2> QED
        BY <2>2, <2>3, AccessKeepsLastStart DEF WindowEdge
<1> QED
    BY <1>2, <1>3, <1>4 DEF Next

\* Whatever the filter and the options: the writer is active exactly when the
\* last instruction that had a callback lies in the PC range.
THEOREM EdgeCorrect == Spec => []WindowEdge
<1>1. Init => WindowEdge
    BY DEF Init, WindowEdge, LastStartInRange, Starts
<1> QED
    BY <1>1, TypeCorrect, EdgeStep, PTL DEF Spec

-----------------------------------------------------------------------------
(***************************************************************************)
(* Alignment, when every instruction is instrumented.                      *)
(***************************************************************************)

EveryInstruction == \A f \in Filters : f = {} \/ "*" \in f

\* The strengthening: between the callback and the end of an instruction the
\* flag speaks of this instruction, so that what its body records is in range.
BodyInWindow == phase = "body" => (trace_active <=> isPcInRange(pc))

AlignedInv == BodyInWindow /\ WindowAligned

\* One use of the writer keeps the file aligned when its record is.
LEMMA TouchWriterAligned ==
    ASSUME TypeOK, WindowAligned,
           NEW active, NEW write \in BOOLEAN, NEW entry,
           write => isPcInRange(entry.pc),
           TouchWriter(active, write, entry), UNCHANGED pc_ranges
    PROVE  WindowAligned'
<1>1. PICK file \in Instance :
          /\ initialized' = TRUE
          /\ outfile_ok' = file.ok
          /\ trace' = IF write THEN WriteTo(file, entry) ELSE file.contents
    BY DEF TouchWriter
<1> SUFFICES ASSUME file.ok  PROVE  \A k \in DOMAIN trace' : isPcInRange(trace'[k].pc)
    BY <1>1 DEF WindowAligned, isPcInRange
<1>2. file.contents \in Seq(Entry) /\ \A k \in DOMAIN file.contents : isPcInRange(file.contents[k].pc)
    <2>1. trace \in Seq(Entry) /\ << >> \in Seq(Entry)
        BY DEF TypeOK
    <2>2. CASE initialized
        BY <2>1, <2>2 DEF Instance, WindowAligned
    <2>3. CASE ~ initialized
        <3>1. file.contents = << >>
            BY <2>3 DEF Instance
        <3> QED  BY <2>1, <3>1
    <2> QED
        BY <2>2, <2>3
<1>3. CASE write
    <2>1. trace' = Append(file.contents, entry)
        BY <1>1, <1>3 DEF WriteTo
    <2> QED
        BY <1>2, <1>3, <2>1
<1>4. CASE ~ write
    BY <1>1, <1>2, <1>4
<1> QED
    BY <1>3, <1>4

LEMMA AlignedStep ==
    ASSUME EveryInstruction
    PROVE  TypeOK /\ AlignedInv /\ [Next]_vars => AlignedInv'
<1> SUFFICES ASSUME TypeOK, AlignedInv, [Next]_vars PROVE AlignedInv'
    OBVIOUS
<1>1. CASE Fetch
    <2>1. phase' = "callback"
        BY <1>1 DEF Fetch, shouldInstrumentInstruction, EveryInstruction, TypeOK
    <2> QED
        BY <1>1, <2>1 DEF Fetch, AlignedInv, BodyInWindow, WindowAligned, isPcInRange, config, writer
<1>2. CASE CollectState
    <2>1. trace_active' = isPcInRange(pc)
        BY <1>2, MovedEdgeIsInRange DEF CollectState, TouchWriter
    <2>2. UNCHANGED <<pc, pc_ranges>>
        BY <1>2 DEF CollectState, config
    <2>3. BodyInWindow'
        BY <2>1, <2>2 DEF BodyInWindow, isPcInRange
    <2>4. WindowAligned'
        <3> DEFINE entry == [type |-> 1, pc |-> pc, instruction |-> instr, x |-> x]
        <3>1. TouchWriter(isPcInRange(pc), isPcInRange(pc), entry)
            BY <1>2, MovedEdgeIsInRange DEF CollectState
        <3>2. entry.pc = pc /\ isPcInRange(pc) \in BOOLEAN
            BY DEF isPcInRange
        <3> HIDE DEF entry
        <3> QED  BY <2>2, <3>1, <3>2, TouchWriterAligned DEF AlignedInv
    <2> QED
        BY <2>3, <2>4 DEF AlignedInv
<1>3. CASE Access
    <2>1. PICK addr \in Addrs, len \in Lengths, data \in Values, ok \in BOOLEAN :
              DWrite(addr, len, data, ok) \/ DRead(addr, len, data, ok)
        BY <1>3 DEF Access
    <2> DEFINE entry(t) == [type |-> t, pc |-> pc, addr |-> addr,
                            length |-> Clamp(len), data |-> data]
    <2>2. phase = "body" /\ UNCHANGED <<phase, pc, pc_ranges>>
        BY <2>1 DEF DWrite, DRead, config, cpu
    <2>3. trace_active' = trace_active
        BY <2>1 DEF DWrite, DRead, TouchWriter, writer
    <2>4. BodyInWindow'
        BY <2>2, <2>3 DEF AlignedInv, BodyInWindow, isPcInRange
    <2>5. \/ UNCHANGED writer
          \/ TouchWriter(trace_active, trace_active, entry(2))
          \/ TouchWriter(trace_active, trace_active, entry(3))
        BY <2>1 DEF DWrite, DRead
    <2>6. entry(2).pc = pc /\ entry(3).pc = pc
        OBVIOUS
    <2>7. trace_active \in BOOLEAN /\ (trace_active => isPcInRange(pc))
        BY <2>2 DEF TypeOK, AlignedInv, BodyInWindow
    <2>8. WindowAligned'
        <3>1. CASE UNCHANGED writer
            BY <2>2, <3>1 DEF AlignedInv, WindowAligned, isPcInRange, writer
        <3> HIDE DEF entry
        <3>2. CASE TouchWriter(trace_active, trace_active, entry(2))
            BY <2>2, <2>6, <2>7, <3>2, TouchWriterAligned DEF AlignedInv
        <3>3. CASE TouchWriter(trace_active, trace_active, entry(3))
            BY <2>2, <2>6, <2>7, <3>3, TouchWriterAligned DEF AlignedInv
        <3> QED  BY <2>5, <3>1, <3>2, <3>3
    <2> QED
        BY <2>4, <2>8 DEF AlignedInv
<1>4. CASE Retire \/ Exit
    BY <1>4 DEF Retire, Exit, AlignedInv, BodyInWindow, WindowAligned, isPcInRange, config, writer
<1>5. CASE Stopped \/ UNCHANGED vars
    BY <1>5 DEF Stopped, AlignedInv, BodyInWindow, WindowAligned, isPcInRange,
                vars, config, cpu, writer
<1> QED
    BY <1>1, <1>2, <1>3, <1>4, <1>5 DEF Next

\* With the default filter `*', every record of trace.bin has its own program
\* counter in the PC range, for every program and every set of ranges.
THEOREM AlignedCorrect ==
    ASSUME EveryInstruction
    PROVE  Spec => []WindowAligned
<1>1. Init => AlignedInv
    BY DEF Init, AlignedInv, BodyInWindow, WindowAligned
<1>2. AlignedInv => WindowAligned
    BY DEF AlignedInv
<1> QED
    BY <1>1, <1>2, TypeCorrect, AlignedStep, PTL DEF Spec

-----------------------------------------------------------------------------
(***************************************************************************)
(* Every access follows the snapshot of its instruction.                   *)
(***************************************************************************)

\* The records of t from the j-th on are those of one instruction at p.
OneInstruction(t, j, p) ==
    /\ j \in DOMAIN t /\ t[j].type = 1
    /\ \A i \in (j + 1) .. Len(t) : t[i].type # 1
    /\ \A i \in j .. Len(t) : t[i].pc = p

Following(t) ==
    \A k \in DOMAIN t :
        t[k].type # 1 =>
            \E j \in 1 .. (k - 1) :
                /\ t[j].type = 1
                /\ \A i \in (j + 1) .. k : t[i].type # 1
                /\ \A i \in j .. k : t[i].pc = t[k].pc

\* The strengthening: in the body of an instruction, an open window means that
\* its snapshot is the last one in the file, and no window is open before the
\* file is.
SnapshotWritten ==
    phase = "body" /\ trace_active /\ outfile_ok => \E j \in DOMAIN trace : OneInstruction(trace, j, pc)

FollowInv ==
    /\ trace_active => initialized
    /\ SnapshotWritten
    /\ DataFollowsItsSnapshot

\* A snapshot may follow anything.
LEMMA SnapshotFollows ==
    ASSUME NEW t \in Seq(Entry), Following(t), NEW entry, entry.type = 1
    PROVE  /\ Following(Append(t, entry))
           /\ OneInstruction(Append(t, entry), Len(t) + 1, entry.pc)
<1> DEFINE u == Append(t, entry)
<1>1. /\ Len(t) \in Nat /\ DOMAIN t = 1 .. Len(t)
      /\ Len(u) = Len(t) + 1 /\ DOMAIN u = 1 .. (Len(t) + 1)
      /\ u[Len(t) + 1] = entry /\ \A i \in 1 .. Len(t) : u[i] = t[i]
    OBVIOUS
<1> HIDE DEF u
<1>2. Following(u)
    <2> SUFFICES ASSUME NEW k \in DOMAIN u, u[k].type # 1
                 PROVE  \E j \in 1 .. (k - 1) :
                            /\ u[j].type = 1
                            /\ \A i \in (j + 1) .. k : u[i].type # 1
                            /\ \A i \in j .. k : u[i].pc = u[k].pc
        BY DEF Following
    <2>1. k \in DOMAIN t /\ k \in Nat /\ k <= Len(t)
        BY <1>1
    <2>2. PICK j \in 1 .. (k - 1) :
              /\ t[j].type = 1
              /\ \A i \in (j + 1) .. k : t[i].type # 1
              /\ \A i \in j .. k : t[i].pc = t[k].pc
        BY <1>1, <2>1 DEF Following
    <2> QED
        BY <1>1, <2>1, <2>2
<1>3. OneInstruction(u, Len(t) + 1, entry.pc)
    BY <1>1 DEF OneInstruction
<1> QED
    BY <1>2, <1>3 DEF u

\* An access may follow the records of its own instruction.
LEMMA AccessFollows ==
    ASSUME NEW t \in Seq(Entry), Following(t), NEW j,
           NEW entry, entry.type # 1, OneInstruction(t, j, entry.pc)
    PROVE  /\ Following(Append(t, entry))
           /\ OneInstruction(Append(t, entry), j, entry.pc)
<1> DEFINE u == Append(t, entry)
<1>1. /\ Len(t) \in Nat /\ DOMAIN t = 1 .. Len(t)
      /\ Len(u) = Len(t) + 1 /\ DOMAIN u = 1 .. (Len(t) + 1)
      /\ u[Len(t) + 1] = entry /\ \A i \in 1 .. Len(t) : u[i] = t[i]
    OBVIOUS
<1> HIDE DEF u
<1>2. OneInstruction(u, j, entry.pc)
    <2>1. j \in 1 .. Len(t) /\ u[j].type = 1
        BY <1>1 DEF OneInstruction
    <2>2. ASSUME NEW i \in (j + 1) .. Len(u)
          PROVE  u[i].type # 1
        BY <1>1, <2>1 DEF OneInstruction
    <2>3. ASSUME NEW i \in j .. Len(u)
          PROVE  u[i].pc = entry.pc
        BY <1>1, <2>1 DEF OneInstruction
    <2> QED
        BY <1>1, <2>1, <2>2, <2>3 DEF OneInstruction
<1>3. Following(u)
    <2> SUFFICES ASSUME NEW k \in DOMAIN u, u[k].type # 1
                 PROVE  \E m \in 1 .. (k - 1) :
                            /\ u[m].type = 1
                            /\ \A i \in (m + 1) .. k : u[i].type # 1
                            /\ \A i \in m .. k : u[i].pc = u[k].pc
        BY DEF Following
    <2>1. CASE k = Len(t) + 1
        <3>1. j \in 1 .. (k - 1)
            BY <1>1, <2>1 DEF OneInstruction
        <3> QED
            BY <1>1, <1>2, <2>1, <3>1 DEF OneInstruction
    <2>2. CASE k # Len(t) + 1
        <3>1. k \in DOMAIN t /\ k \in Nat /\ k <= Len(t)
            BY <1>1, <2>2
        <3>2. PICK m \in 1 .. (k - 1) :
                  /\ t[m].type = 1
                  /\ \A i \in (m + 1) .. k : t[i].type # 1
                  /\ \A i \in m .. k : t[i].pc = t[k].pc
            BY <1>1, <3>1 DEF Following
        <3> QED
            BY <1>1, <3>1, <3>2
    <2> QED
        BY <2>1, <2>2
<1> QED
    BY <1>2, <1>3 DEF u

\* What the writer finds in the file when it is asked for.
LEMMA InstanceFollows ==
    ASSUME TypeOK, FollowInv, NEW file \in Instance
    PROVE  /\ file.contents \in Seq(Entry)
           /\ file.ok => Following(file.contents)
           /\ initialized => file.ok = outfile_ok /\ file.contents = trace
<1>1. CASE initialized
    <2>1. file.ok = outfile_ok /\ file.contents = trace
        BY <1>1 DEF Instance
    <2>2. trace \in Seq(Entry)
        BY DEF TypeOK
    <2>3. outfile_ok => Following(trace)
        BY <1>1, Zenon DEF FollowInv, DataFollowsItsSnapshot, Following
    <2> QED
        BY <1>1, <2>1, <2>2, <2>3
<1>2. CASE ~ initialized
    <2>1. file.contents \in {<< >>, trace} /\ (file.ok => file.contents = << >>)
        BY <1>2 DEF Instance
    <2>2. << >> \in Seq(Entry) /\ trace \in Seq(Entry) /\ Following(<< >>)
        BY DEF TypeOK, Following
    <2> QED
        BY <1>2, <2>1, <2>2
<1> QED
    BY <1>1, <1>2

\* A use of the writer by an access of the instruction at pc.
LEMMA AccessKeepsFollowing ==
    ASSUME TypeOK, FollowInv, phase = "body", UNCHANGED <<phase, pc>>,
           NEW entry, entry.type # 1, entry.pc = pc,
           TouchWriter(trace_active, trace_active, entry)
    PROVE  FollowInv'
<1>1. PICK file \in Instance :
          /\ initialized' = TRUE /\ outfile_ok' = file.ok /\ trace_active' = trace_active
          /\ trace' = IF trace_active THEN WriteTo(file, entry) ELSE file.contents
    BY DEF TouchWriter
<1>2. /\ file.contents \in Seq(Entry) /\ (file.ok => Following(file.contents))
      /\ initialized => file.ok = outfile_ok /\ file.contents = trace
    BY InstanceFollows
<1>3. CASE trace_active /\ file.ok
    <2>1. PICK j \in DOMAIN trace : OneInstruction(trace, j, pc)
        BY <1>2, <1>3 DEF FollowInv, SnapshotWritten
    <2>2. trace' = Append(trace, entry) /\ trace \in Seq(Entry) /\ Following(trace)
        BY <1>1, <1>2, <1>3 DEF WriteTo, FollowInv
    <2>3. Following(trace') /\ OneInstruction(trace', j, pc)
        BY <2>1, <2>2, AccessFollows
    <2>4. j \in DOMAIN trace'
        BY <2>3 DEF OneInstruction
    <2> QED
        BY <1>1, <2>3, <2>4 DEF FollowInv, SnapshotWritten, DataFollowsItsSnapshot, Following
<1>4. CASE ~ trace_active /\ file.ok
    <2>1. Following(trace')
        BY <1>1, <1>2, <1>4
    <2> QED
        BY <1>1, <1>4, <2>1 DEF FollowInv, SnapshotWritten, DataFollowsItsSnapshot, Following
<1>5. CASE ~ file.ok
    BY <1>1, <1>5 DEF FollowInv, SnapshotWritten, DataFollowsItsSnapshot
<1> QED
    BY <1>3, <1>4, <1>5

LEMMA FollowStep ==
    ASSUME EveryInstruction
    PROVE  TypeOK /\ FollowInv /\ [Next]_vars => FollowInv'
<1> SUFFICES ASSUME TypeOK, FollowInv, [Next]_vars PROVE FollowInv'
    OBVIOUS
<1>1. ASSUME UNCHANGED writer, phase' # "body" \/ UNCHANGED <<phase, pc>>
      PROVE  FollowInv'
    BY <1>1 DEF writer, FollowInv, SnapshotWritten, DataFollowsItsSnapshot
<1>2. CASE Fetch
    <2>1. phase' = "callback"
        BY <1>2 DEF Fetch, shouldInstrumentInstruction, EveryInstruction, TypeOK
    <2> QED
        BY <1>1, <1>2, <2>1 DEF Fetch
<1>3. CASE CollectState
    <2> DEFINE entry == [type |-> 1, pc |-> pc, instruction |-> instr, x |-> x]
    <2> DEFINE active == isPcInRange(pc)
    <2>1. TouchWriter(active, active, entry) /\ pc' = pc
        BY <1>3, MovedEdgeIsInRange DEF CollectState
    <2>2. entry.type = 1 /\ entry.pc = pc
        OBVIOUS
    <2> HIDE DEF entry, active
    <2>3. PICK file \in Instance :
              /\ initialized' = TRUE /\ outfile_ok' = file.ok /\ trace_active' = active
              /\ trace' = IF active THEN WriteTo(file, entry) ELSE file.contents
        BY <2>1 DEF TouchWriter
    <2>4. file.contents \in Seq(Entry) /\ (file.ok => Following(file.contents))
        BY InstanceFollows
    <2>5. CASE active /\ file.ok
        <3>1. trace' = Append(file.contents, entry)
            BY <2>3, <2>5 DEF WriteTo
        <3>2. Following(trace') /\ OneInstruction(trace', Len(file.contents) + 1, pc)
            BY <2>2, <2>4, <2>5, <3>1, SnapshotFollows
        <3>3. Len(file.contents) + 1 \in DOMAIN trace'
            BY <3>2 DEF OneInstruction
        <3> QED
            BY <2>1, <2>3, <3>2, <3>3 DEF FollowInv, SnapshotWritten, DataFollowsItsSnapshot, Following
    <2>6. CASE ~ active /\ file.ok
        <3>1. Following(trace')
            BY <2>3, <2>4, <2>6
        <3> QED
            BY <2>3, <2>6, <3>1 DEF FollowInv, SnapshotWritten, DataFollowsItsSnapshot, Following
    <2>7. CASE ~ file.ok
        BY <2>3, <2>7 DEF FollowInv, SnapshotWritten, DataFollowsItsSnapshot
    <2> QED
        BY <2>5, <2>6, <2>7
<1>4. CASE Access
    <2>1. PICK addr \in Addrs, len \in Lengths, data \in Values, ok \in BOOLEAN :
              DWrite(addr, len, data, ok) \/ DRead(addr, len, data, ok)
        BY <1>4 DEF Access
    <2> DEFINE entry(t) == [type |-> t, pc |-> pc, addr |-> addr,
                            length |-> Clamp(len), data |-> data]
    <2>2. phase = "body" /\ UNCHANGED <<phase, pc>>
        BY <2>1 DEF DWrite, DRead, cpu
    <2>3. \/ UNCHANGED writer
          \/ TouchWriter(trace_active, trace_active, entry(2))
          \/ TouchWriter(trace_active, trace_active, entry(3))
        BY <2>1 DEF DWrite, DRead
    <2>4. entry(2).pc = pc /\ entry(3).pc = pc /\ entry(2).type # 1 /\ entry(3).type # 1
        OBVIOUS
    <2> HIDE DEF entry
    <2>5. CASE UNCHANGED writer
        BY <1>1, <2>2, <2>5
    <2>6. CASE TouchWriter(trace_active, trace_active, entry(2))
        BY <2>2, <2>4, <2>6, AccessKeepsFollowing
    <2>7. CASE TouchWriter(trace_active, trace_active, entry(3))
        BY <2>2, <2>4, <2>7, AccessKeepsFollowing
    <2> QED
        BY <2>3, <2>5, <2>6, <2>7
<1>5. CASE Retire \/ Exit
    BY <1>1, <1>5 DEF Retire, Exit
<1>6. CASE Stopped \/ UNCHANGED vars
    BY <1>1, <1>6 DEF Stopped, vars, cpu
<1> QED
    BY <1>2, <1>3, <1>4, <1>5, <1>6 DEF Next

\* With the default filter `*', an access is in the file only behind the
\* snapshot of its own instruction, with nothing but accesses of the same
\* instruction in between: a reader may attribute each access by looking back.
THEOREM FollowsCorrect ==
    ASSUME EveryInstruction
    PROVE  Spec => []DataFollowsItsSnapshot
<1>1. Init => FollowInv
    BY DEF Init, FollowInv, SnapshotWritten, DataFollowsItsSnapshot
<1>2. FollowInv => DataFollowsItsSnapshot
    BY DEF FollowInv
<1> QED
    BY <1>1, <1>2, TypeCorrect, FollowStep, PTL DEF Spec

-----------------------------------------------------------------------------
(***************************************************************************)
(* trace.bin implements the log its documentation describes.               *)
(***************************************************************************)

Opens == initialized => outfile_ok

\* Every outcome of instance() is then an open file.
LEMMA InstanceOpens ==
    ASSUME TypeOK, Opens, OpenOutcomes = {TRUE}, NEW file \in Instance
    PROVE  file.ok = TRUE
<1>1. CASE initialized
    <2>1. file = [ok |-> outfile_ok, contents |-> trace]
        BY <1>1 DEF Instance
    <2>2. outfile_ok = TRUE
        BY <1>1 DEF TypeOK, Opens
    <2> QED
        BY <2>1, <2>2
<1>2. CASE ~ initialized
    BY <1>2 DEF Instance
<1> QED
    BY <1>1, <1>2

LEMMA OpensStep ==
    ASSUME OpenOutcomes = {TRUE}
    PROVE  TypeOK /\ Opens /\ [Next]_vars => Opens'
<1> SUFFICES ASSUME TypeOK, Opens, [Next]_vars PROVE Opens'
    OBVIOUS
<1>1. ASSUME NEW active, NEW write, NEW entry, TouchWriter(active, write, entry)
      PROVE  Opens'
    <2>1. PICK file \in Instance : outfile_ok' = file.ok
        BY <1>1 DEF TouchWriter
    <2>2. outfile_ok' = TRUE
        BY <2>1, InstanceOpens
    <2> QED
        BY <2>2 DEF Opens
<1>2. ASSUME UNCHANGED writer PROVE Opens'
    BY <1>2 DEF Opens, writer
<1>3. CASE CollectState
    BY <1>1, <1>3 DEF CollectState
<1>4. CASE Access
    BY <1>1, <1>2, <1>4 DEF Access, DWrite, DRead
<1> QED
    BY <1>2, <1>3, <1>4 DEF Next, Fetch, Retire, Exit, Stopped, vars

\* The log as the reader of trace.bin sees it.
LogBar == IF initialized THEN trace ELSE << >>

\* With a file that opens, a use of the writer appends its record or nothing.
LEMMA TouchWriterLog ==
    ASSUME TypeOK, Opens, OpenOutcomes = {TRUE},
           NEW active, NEW write \in BOOLEAN, NEW entry, TouchWriter(active, write, entry)
    PROVE  LogBar' = IF write THEN Append(LogBar, entry) ELSE LogBar
<1>1. PICK file \in Instance :
          /\ initialized' = TRUE
          /\ trace' = IF write THEN WriteTo(file, entry) ELSE file.contents
    BY DEF TouchWriter
<1>2. file.ok
    BY InstanceOpens
<1>3. file.contents = LogBar
    <2>1. CASE initialized
        BY <2>1 DEF Instance, LogBar
    <2>2. CASE ~ initialized
        BY <1>2, <2>2 DEF Instance, LogBar
    <2> QED
        BY <2>1, <2>2
<1> QED
    BY <1>1, <1>2, <1>3 DEF WriteTo, LogBar

\* A step that appends an event of the run to the history, and to the log
\* exactly when it is wanted and in the window, is a step of the abstract log.
LEMMA HappenStep ==
    ASSUME TypeOK, NEW e \in Event, e.pc \in Pcs,
           done' = Append(done, e), UNCHANGED pc_ranges,
           LogBar' = IF isPcInRange(e.pc) /\ Wanted(e)
                     THEN Append(LogBar, RecordOf(e)) ELSE LogBar
    PROVE  Log!Next
<1>1. e.pc \in { p \in Pcs : isPcInRange(p) } <=> isPcInRange(e.pc)
    OBVIOUS
<1>2. UNCHANGED { p \in Pcs : isPcInRange(p) }
    BY DEF isPcInRange
<1>3. Log!Happen(e)
    BY <1>1, <1>2 DEF Log!Happen, EventPc, LogBar
<1> QED
    BY <1>3 DEF Log!Next

\* Steps that touch neither the history nor the file are invisible.
LEMMA StutterStep ==
    ASSUME UNCHANGED <<done, pc_ranges, writer>>
    PROVE  UNCHANGED Log!vars
BY DEF Log!vars, isPcInRange, writer

\* The masked comparison of the tracers is agreement on every bit of the mask.
LEMMA MatchesCovers ==
    ASSUME NEW tracer, NEW addr
    PROVE  Matches(tracer, addr) <=> Covers(tracer, addr)
BY DEF Matches, Covers

LEMMA LogStep ==
    ASSUME OpenOutcomes = {TRUE}
    PROVE  TypeOK /\ AlignedInv /\ Opens /\ [Next]_vars => [Log!Next]_(Log!vars)
<1> SUFFICES ASSUME TypeOK, AlignedInv, Opens, [Next]_vars
             PROVE  Log!Next \/ UNCHANGED Log!vars
    OBVIOUS
<1>1. CASE Fetch \/ Retire \/ Exit \/ Stopped \/ UNCHANGED vars
    BY <1>1, StutterStep DEF Fetch, Retire, Exit, Stopped, vars, config, writer
<1>2. CASE CollectState
    <2> DEFINE e == [kind |-> "instr", pc |-> pc, instruction |-> instr, x |-> x]
    <2> DEFINE entry == [type |-> 1, pc |-> pc, instruction |-> instr, x |-> x]
    <2>1. e \in Event /\ e.pc = pc /\ pc \in Pcs
        BY DEF TypeOK, Event, InstrEvent
    <2>2. Wanted(e) /\ RecordOf(e) = entry
        BY DEF Wanted, RecordOf
    <2>3. done' = Append(done, e) /\ UNCHANGED pc_ranges
        BY <1>2 DEF CollectState, config
    <2>4. TouchWriter(isPcInRange(pc), isPcInRange(pc), entry)
        BY <1>2, MovedEdgeIsInRange DEF CollectState
    <2>5. isPcInRange(pc) \in BOOLEAN
        BY DEF isPcInRange
    <2> HIDE DEF e, entry
    <2>6. LogBar' = IF isPcInRange(pc) THEN Append(LogBar, entry) ELSE LogBar
        BY <2>4, <2>5, TouchWriterLog
    <2> QED
        BY <2>1, <2>2, <2>3, <2>6, HappenStep
<1>3. CASE Access
    <2>1. PICK addr \in Addrs, len \in Lengths, data \in Values, ok \in BOOLEAN :
              DWrite(addr, len, data, ok) \/ DRead(addr, len, data, ok)
        BY <1>3 DEF Access
    <2> DEFINE event(k) == [kind |-> k, pc |-> pc, addr |-> addr,
                            len |-> len, data |-> data, ok |-> ok]
    <2> DEFINE entry(t) == [type |-> t, pc |-> pc, addr |-> addr,
                            length |-> Clamp(len), data |-> data]
    <2>2. phase = "body" /\ UNCHANGED pc_ranges
        BY <2>1 DEF DWrite, DRead, config
    <2>3. trace_active \in BOOLEAN /\ (trace_active <=> isPcInRange(pc)) /\ pc \in Pcs
        BY <2>2 DEF TypeOK, AlignedInv, BodyInWindow
    <2>4. \A k \in {"dwrite", "dread"} : event(k) \in Event /\ event(k).pc = pc
        BY <2>3 DEF Event, DataEvent
    <2>5. ASSUME UNCHANGED writer PROVE LogBar' = LogBar
        BY <2>5 DEF writer, LogBar
    <2>6. CASE DWrite(addr, len, data, ok)
        <3>1. Wanted(event("dwrite")) <=> Matches(DWriteTracer, addr)
            <4>1. event("dwrite").kind = "dwrite" /\ event("dwrite").addr = addr
                OBVIOUS
            <4> HIDE DEF event
            <4>2. Wanted(event("dwrite")) <=> Covers(DWriteTracer, addr)
                BY <4>1 DEF Wanted
            <4> QED
                BY <4>2, MatchesCovers
        <3>2. RecordOf(event("dwrite")) = entry(2)
            BY DEF RecordOf
        <3>3. done' = Append(done, event("dwrite"))
            BY <2>6 DEF DWrite
        <3>4. IF Matches(DWriteTracer, addr)
              THEN TouchWriter(trace_active, trace_active, entry(2))
              ELSE UNCHANGED writer
            BY <2>6 DEF DWrite
        <3> HIDE DEF event, entry
        <3>5. LogBar' = IF isPcInRange(pc) /\ Wanted(event("dwrite"))
                        THEN Append(LogBar, entry(2)) ELSE LogBar
            BY <2>3, <2>5, <3>1, <3>4, TouchWriterLog
        <3> QED
            BY <2>2, <2>3, <2>4, <3>2, <3>3, <3>5, HappenStep
    <2>7. CASE DRead(addr, len, data, ok)
        <3>1. Wanted(event("dread")) <=> ok /\ Matches(DReadTracer, addr)
            <4>1. event("dread").kind = "dread" /\ event("dread").addr = addr /\ event("dread").ok = ok
                OBVIOUS
            <4> HIDE DEF event
            <4>2. Wanted(event("dread")) <=> ok /\ Covers(DReadTracer, addr)
                BY <4>1 DEF Wanted
            <4> QED
                BY <4>2, MatchesCovers
        <3>2. RecordOf(event("dread")) = entry(3)
            BY DEF RecordOf
        <3>3. done' = Append(done, event("dread"))
            BY <2>7 DEF DRead
        <3>4. IF ok /\ Matches(DReadTracer, addr)
              THEN TouchWriter(trace_active, trace_active, entry(3))
              ELSE UNCHANGED writer
            BY <2>7 DEF DRead
        <3> HIDE DEF event, entry
        <3>5. LogBar' = IF isPcInRange(pc) /\ Wanted(event("dread"))
                        THEN Append(LogBar, entry(3)) ELSE LogBar
            BY <2>3, <2>5, <3>1, <3>4, TouchWriterLog
        <3> QED
            BY <2>2, <2>3, <2>4, <3>2, <3>3, <3>5, HappenStep
    <2> QED
        BY <2>1, <2>6, <2>7
<1> QED
    BY <1>1, <1>2, <1>3 DEF Next

\* With the default filter and a file that opens, trace.bin is the log of the
\* window's events: none missing, none foreign, none out of order.
THEOREM LogImplemented ==
    ASSUME EveryInstruction, OpenOutcomes = {TRUE}
    PROVE  Spec => LogSpec
<1>1. Init => AlignedInv /\ Opens /\ Log!Init
    BY DEF Init, AlignedInv, BodyInWindow, WindowAligned, Opens, Log!Init
<1>2. TypeOK /\ AlignedInv /\ [Next]_vars => AlignedInv'
    BY AlignedStep
<1>3. TypeOK /\ Opens /\ [Next]_vars => Opens'
    BY OpensStep
<1>4. TypeOK /\ AlignedInv /\ Opens /\ [Next]_vars => [Log!Next]_(Log!vars)
    BY LogStep
<1> QED
    BY <1>1, <1>2, <1>3, <1>4, TypeCorrect, PTL DEF Spec, LogSpec, Log!Spec

-----------------------------------------------------------------------------
(***************************************************************************)
(* The file is the replay of the run, for every instruction filter.        *)
(***************************************************************************)

\* Before the first hook nothing was instrumented and the file is the old one.
NothingYet == ~ initialized => Starts = {} /\ trace \in StaleTraces

ReplayInv == WindowEdge /\ FileIsReplay /\ NothingYet

\* The window as a function of a history and of the ranges, to compare the one
\* before a step with the one after it.
PcIn(R, p) == R = {} \/ \E range \in R : range[1] <= p /\ p <= range[2]
StartsOf(d) == { k \in DOMAIN d : d[k].kind = "instr" }
WindowAt(d, R, k) ==
    \E s \in StartsOf(d) :
        /\ s <= k /\ PcIn(R, d[s].pc)
        /\ \A j \in StartsOf(d) : j <= k => j <= s

LEMMA WindowAtIsInWindow ==
    /\ \A k : InWindow(k) <=> WindowAt(done, pc_ranges, k)
    /\ \A k : InWindow(k)' <=> WindowAt(done', pc_ranges', k)
BY DEF InWindow, WindowAt, Starts, StartsOf, isPcInRange, PcIn

\* The newest event is in the window when the last start is in range.
LEMMA NewestInWindow ==
    ASSUME TypeOK', NEW n, n = Len(done')
    PROVE  InWindow(n)' <=> LastStartInRange'
<1>1. done' \in Seq(Event)
    BY DEF TypeOK
<1>2. \A j \in Starts' : j \in Nat /\ j <= n
    BY <1>1 DEF Starts
<1> HIDE DEF Starts
<1> QED
    BY <1>1, <1>2 DEF InWindow, LastStartInRange

\* An event of the past stays in the window, or out of it.
LEMMA PastInWindow ==
    ASSUME NEW d \in Seq(Event), NEW e, NEW R, NEW k \in DOMAIN d
    PROVE  WindowAt(Append(d, e), R, k) <=> WindowAt(d, R, k)
<1> DEFINE dd == Append(d, e)
<1>1. \A j \in StartsOf(d) : j \in StartsOf(dd) /\ dd[j] = d[j]
    BY DEF StartsOf
<1>2. \A j \in StartsOf(dd) : j <= k => j \in StartsOf(d)
    BY DEF StartsOf
<1> HIDE DEF dd
<1> QED
    BY <1>1, <1>2 DEF WindowAt, dd

\* One more event: it is recorded when it is wanted and tracing is then on.
LEMMA RecordedGrows ==
    ASSUME TypeOK, NEW e \in Event, done' = Append(done, e), UNCHANGED pc_ranges,
           TypeOK', WindowEdge', NEW n, n = Len(done) + 1
    PROVE  /\ Recorded \subseteq 1 .. Len(done)
           /\ \A k \in Recorded : done'[k] = done[k]
           /\ done'[n] = e
           /\ Recorded' = Recorded \cup { k \in {n} : trace_active' /\ Wanted(e) }
<1>1. done \in Seq(Event) /\ Len(done) \in Nat /\ DOMAIN done = 1 .. Len(done)
    BY DEF TypeOK
<1>2. done'[n] = e /\ Len(done') = n /\ DOMAIN done' = DOMAIN done \cup {n}
    BY <1>1
<1>3. \A k \in DOMAIN done : done'[k] = done[k]
    BY <1>1
<1>4. \A k \in DOMAIN done : InWindow(k)' <=> InWindow(k)
    BY <1>1, PastInWindow, WindowAtIsInWindow
<1>5. InWindow(n)' <=> trace_active'
    BY <1>2, NewestInWindow DEF WindowEdge
<1>6. \A k : k \in Recorded' <=> k \in DOMAIN done' /\ InWindow(k)' /\ Wanted(done'[k])
    BY DEF Recorded, Wanted, Covers
<1>7. \A k : k \in Recorded <=> k \in DOMAIN done /\ InWindow(k) /\ Wanted(done[k])
    BY DEF Recorded
<1>8. ASSUME NEW k \in DOMAIN done PROVE k \in Recorded' <=> k \in Recorded
    BY <1>2, <1>3, <1>4, <1>6, <1>7
<1>9. n \in Recorded' <=> trace_active' /\ Wanted(e)
    BY <1>2, <1>5, <1>6
<1>10. n \notin DOMAIN done
    BY <1>1
<1> QED
    BY <1>1, <1>2, <1>3, <1>6, <1>7, <1>8, <1>9, <1>10

\* A file that holds the recorded events so far, in order.
Replays(log) ==
    /\ Len(log) = Cardinality(Recorded)
    /\ \A k \in Recorded : log[PlaceOf(k)] = RecordOf(done[k])

\* Places are positions of the file.
LEMMA PlacesAreInside ==
    ASSUME NEW n \in Nat, Recorded \subseteq 1 .. n
    PROVE  /\ IsFiniteSet(Recorded) /\ Cardinality(Recorded) \in Nat
           /\ \A k \in Recorded : PlaceOf(k) \in 1 .. Cardinality(Recorded)
<1>1. IsFiniteSet(Recorded) /\ Cardinality(Recorded) \in Nat
    <2>1. IsFiniteSet(1 .. n)
        BY FS_Interval
    <2>2. IsFiniteSet(Recorded)
        BY <2>1, FS_Subset
    <2> QED
        BY <2>2, FS_CardinalityType
<1>2. ASSUME NEW k \in Recorded PROVE PlaceOf(k) \in 1 .. Cardinality(Recorded)
    <2> DEFINE upTo == { j \in Recorded : j <= k }
    <2>1. k \in upTo /\ upTo \subseteq Recorded
        OBVIOUS
    <2>2. IsFiniteSet(upTo) /\ Cardinality(upTo) \in Nat /\ Cardinality(upTo) <= Cardinality(Recorded)
        BY <1>1, <2>1, FS_Subset, FS_CardinalityType
    <2>3. Cardinality(upTo) # 0
        BY <2>1, <2>2, FS_EmptySet
    <2> QED
        BY <1>1, <2>2, <2>3 DEF PlaceOf
<1> QED
    BY <1>1, <1>2

\* The file with or without the record of one more event.
LEMMA ReplayGrows ==
    ASSUME TypeOK, NEW e \in Event, done' = Append(done, e), UNCHANGED pc_ranges,
           TypeOK', WindowEdge',
           NEW log \in Seq(Entry), NEW longer, Replays(log),
           longer = IF trace_active' /\ Wanted(e) THEN Append(log, RecordOf(e)) ELSE log
    PROVE  Replays(longer)'
<1> DEFINE n == Len(done) + 1
<1> DEFINE m == Cardinality(Recorded)
<1>1. Len(done) \in Nat
    BY DEF TypeOK
<1>2. /\ Recorded \subseteq 1 .. Len(done)
      /\ \A k \in Recorded : done'[k] = done[k]
      /\ done'[n] = e
      /\ Recorded' = Recorded \cup { k \in {n} : trace_active' /\ Wanted(e) }
    BY RecordedGrows
<1>3. /\ IsFiniteSet(Recorded) /\ m \in Nat
      /\ \A k \in Recorded : PlaceOf(k) \in 1 .. m
    BY <1>1, <1>2, PlacesAreInside
<1>4. n \notin Recorded /\ n \in Nat /\ \A k \in Recorded : k \in Nat /\ k < n
    BY <1>1, <1>2
<1>5. ASSUME NEW k \in Recorded
      PROVE  Cardinality({ j \in Recorded' : j <= k }) = PlaceOf(k)
    <2>1. { j \in Recorded' : j <= k } = { j \in Recorded : j <= k }
        BY <1>2, <1>4
    <2> QED
        BY <2>1 DEF PlaceOf
<1>6. Len(log) = m /\ \A k \in Recorded : log[PlaceOf(k)] = RecordOf(done[k])
    BY DEF Replays
<1>7. CASE trace_active' /\ Wanted(e)
    <2>1. Recorded' = Recorded \cup {n} /\ longer = Append(log, RecordOf(e))
        BY <1>2, <1>7
    <2>2. Cardinality(Recorded') = m + 1
        BY <1>3, <1>4, <2>1, FS_AddElement
    <2>3. { j \in Recorded' : j <= n } = Recorded'
        BY <1>4, <2>1
    <2>4. Len(longer) = m + 1 /\ longer[m + 1] = RecordOf(e)
        BY <1>3, <1>6, <2>1
    <2>5. \A i \in 1 .. m : longer[i] = log[i]
        BY <1>6, <2>1
    <2>6. ASSUME NEW k \in Recorded'
          PROVE  longer[Cardinality({ j \in Recorded' : j <= k })] = RecordOf(done'[k])
        <3>1. CASE k \in Recorded
            BY <1>2, <1>3, <1>5, <1>6, <2>5, <3>1
        <3>2. CASE k = n
            BY <1>2, <2>2, <2>3, <2>4, <3>2
        <3> QED
            BY <2>1, <3>1, <3>2
    <2> QED
        BY <2>2, <2>4, <2>6 DEF Replays, PlaceOf, RecordOf, Clamp
<1>8. CASE ~ (trace_active' /\ Wanted(e))
    <2>1. Recorded' = Recorded /\ longer = log
        BY <1>2, <1>8
    <2> QED
        <3>1. Len(longer) = Cardinality(Recorded')
            BY <1>6, <2>1
        <3>2. ASSUME NEW k \in Recorded'
              PROVE  longer[Cardinality({ j \in Recorded' : j <= k })] = RecordOf(done'[k])
            <4>1. k \in Recorded /\ done'[k] = done[k]
                BY <1>2, <2>1
            <4>2. Cardinality({ j \in Recorded' : j <= k }) = PlaceOf(k)
                BY <1>5, <4>1
            <4> QED
                BY <1>6, <2>1, <4>1, <4>2
        <3> QED
            BY <3>1, <3>2 DEF Replays, PlaceOf, RecordOf, Clamp
<1> QED
    BY <1>7, <1>8

\* Without a start so far nothing is recorded.
LEMMA NothingRecorded ==
    ASSUME Starts = {}
    PROVE  Replays(<< >>) /\ ~ LastStartInRange
<1>1. Recorded = {}
    BY DEF Recorded, InWindow
<1> QED
    BY <1>1, FS_EmptySet DEF Replays, LastStartInRange

\* A hook that uses the writer: whether the file is open or could not be opened.
LEMMA TouchWriterReplays ==
    ASSUME TypeOK, ReplayInv, NEW e \in Event, done' = Append(done, e),
           UNCHANGED pc_ranges, TypeOK', WindowEdge', NEW active, NEW write \in BOOLEAN,
           TouchWriter(active, write, RecordOf(e)),
           write <=> trace_active' /\ Wanted(e)
    PROVE  ReplayInv'
<1>1. PICK file \in Instance :
          /\ initialized' = TRUE /\ outfile_ok' = file.ok
          /\ trace' = IF write THEN WriteTo(file, RecordOf(e)) ELSE file.contents
    BY DEF TouchWriter
<1>2. file.contents \in StaleTraces \cup {<< >>} \/ file.ok
    BY DEF Instance, ReplayInv, FileIsReplay, NothingYet
<1>3. file.ok => file.contents \in Seq(Entry) /\ Replays(file.contents)
    <2>1. CASE initialized
        <3>1. file.ok = outfile_ok /\ file.contents = trace
            BY <2>1 DEF Instance
        <3> QED
            BY <2>1, <3>1 DEF TypeOK, ReplayInv, FileIsReplay, Replays
    <2>2. CASE ~ initialized
        <3>1. file.ok => file.contents = << >>
            BY <2>2 DEF Instance
        <3>2. << >> \in Seq(Entry) /\ Replays(<< >>)
            BY <2>2, NothingRecorded DEF ReplayInv, NothingYet
        <3> QED
            BY <3>1, <3>2
    <2> QED
        BY <2>1, <2>2
<1>4. CASE file.ok
    <2>1. trace' = IF trace_active' /\ Wanted(e)
                   THEN Append(file.contents, RecordOf(e)) ELSE file.contents
        BY <1>1, <1>4 DEF WriteTo
    <2>2. ASSUME NEW longer, longer = trace' PROVE Replays(longer)'
        BY <1>3, <1>4, <2>1, <2>2, ReplayGrows
    <2>3. FileIsReplay'
        BY <1>1, <1>4, <2>2 DEF FileIsReplay, Replays
    <2> QED
        BY <1>1, <2>3 DEF ReplayInv, NothingYet
<1>5. CASE ~ file.ok
    BY <1>1, <1>2, <1>5 DEF ReplayInv, FileIsReplay, NothingYet, WriteTo
<1> QED
    BY <1>4, <1>5

\* An access that no tracer is asked for.
LEMMA UnwantedReplays ==
    ASSUME TypeOK, ReplayInv, NEW e \in Event, done' = Append(done, e),
           UNCHANGED pc_ranges, TypeOK', WindowEdge', UNCHANGED writer,
           ~ Wanted(e), e.kind # "instr"
    PROVE  ReplayInv'
<1>1. initialized' = initialized /\ outfile_ok' = outfile_ok /\ trace' = trace
    BY DEF writer
<1>2. Starts' = Starts
    BY DEF TypeOK, Starts
<1>3. CASE initialized /\ outfile_ok
    <2>1. trace \in Seq(Entry) /\ Replays(trace)
        BY <1>3 DEF TypeOK, ReplayInv, FileIsReplay, Replays
    <2>2. ASSUME NEW longer, longer = trace' PROVE Replays(longer)'
        BY <1>1, <2>1, <2>2, ReplayGrows
    <2>3. FileIsReplay'
        BY <1>1, <1>3, <2>2 DEF FileIsReplay, Replays
    <2> QED
        BY <1>1, <1>3, <2>3 DEF ReplayInv, NothingYet
<1>4. CASE ~ (initialized /\ outfile_ok)
    BY <1>1, <1>2, <1>4 DEF ReplayInv, FileIsReplay, NothingYet
<1> QED
    BY <1>3, <1>4

\* One data access.
LEMMA AccessReplays ==
    ASSUME TypeOK, ReplayInv, TypeOK', WindowEdge', NEW addr \in Addrs,
           NEW len \in Lengths, NEW data \in Values, NEW ok \in BOOLEAN,
           DWrite(addr, len, data, ok) \/ DRead(addr, len, data, ok)
    PROVE  ReplayInv'
<1> DEFINE event(k) == [kind |-> k, pc |-> pc, addr |-> addr,
                        len |-> len, data |-> data, ok |-> ok]
<1>1. \A k \in {"dwrite", "dread"} :
          event(k) \in Event /\ event(k).kind # "instr"
    BY DEF TypeOK, Event, DataEvent
<1>2. Wanted(event("dwrite")) <=> Matches(DWriteTracer, addr)
    BY MatchesCovers DEF Wanted
<1>3. Wanted(event("dread")) <=> ok /\ Matches(DReadTracer, addr)
    BY MatchesCovers DEF Wanted
<1>4. /\ RecordOf(event("dwrite")) = [type |-> 2, pc |-> pc, addr |-> addr,
                                      length |-> Clamp(len), data |-> data]
      /\ RecordOf(event("dread")) = [type |-> 3, pc |-> pc, addr |-> addr,
                                     length |-> Clamp(len), data |-> data]
    BY DEF RecordOf
<1>5. UNCHANGED pc_ranges /\ trace_active' = trace_active /\ trace_active \in BOOLEAN
    BY DEF TypeOK, DWrite, DRead, config, TouchWriter, writer
<1>6. CASE DWrite(addr, len, data, ok)
    <2>1. done' = Append(done, event("dwrite"))
        BY <1>6 DEF DWrite
    <2>2. IF Wanted(event("dwrite"))
          THEN TouchWriter(trace_active, trace_active, RecordOf(event("dwrite")))
          ELSE UNCHANGED writer
        BY <1>2, <1>4, <1>6 DEF DWrite
    <2> HIDE DEF event
    <2> QED
        BY <1>1, <1>5, <2>1, <2>2, TouchWriterReplays, UnwantedReplays
<1>7. CASE DRead(addr, len, data, ok)
    <2>1. done' = Append(done, event("dread"))
        BY <1>7 DEF DRead
    <2>2. IF Wanted(event("dread"))
          THEN TouchWriter(trace_active, trace_active, RecordOf(event("dread")))
          ELSE UNCHANGED writer
        BY <1>3, <1>4, <1>7 DEF DRead
    <2> HIDE DEF event
    <2> QED
        BY <1>1, <1>5, <2>1, <2>2, TouchWriterReplays, UnwantedReplays
<1> QED
    BY <1>6, <1>7

LEMMA ReplayStep == TypeOK /\ ReplayInv /\ [Next]_vars => ReplayInv'
<1> SUFFICES ASSUME TypeOK, ReplayInv, [Next]_vars PROVE ReplayInv'
    OBVIOUS
<1>1. TypeOK' /\ WindowEdge'
    BY TypeStep, EdgeStep DEF ReplayInv
<1>2. ASSUME UNCHANGED <<done, pc_ranges, writer>> PROVE ReplayInv'
    <2>1. FileIsReplay' = FileIsReplay
        BY <1>2 DEF FileIsReplay, Recorded, PlaceOf, InWindow, Starts, isPcInRange,
                    writer, RecordOf, Clamp, Wanted, Covers
    <2> QED
        BY <1>1, <1>2, <2>1 DEF ReplayInv, NothingYet, Starts, writer
<1>3. CASE Fetch \/ Retire \/ Exit \/ Stopped \/ UNCHANGED vars
    BY <1>2, <1>3 DEF Fetch, Retire, Exit, Stopped, vars, config, writer
<1>4. CASE CollectState
    <2> DEFINE e == [kind |-> "instr", pc |-> pc, instruction |-> instr, x |-> x]
    <2>1. e \in Event /\ Wanted(e)
        BY DEF TypeOK, Event, InstrEvent, Wanted
    <2>2. RecordOf(e) = [type |-> 1, pc |-> pc, instruction |-> instr, x |-> x]
        BY DEF RecordOf
    <2>3. done' = Append(done, e) /\ UNCHANGED pc_ranges
        BY <1>4 DEF CollectState, config
    <2>4. TouchWriter(isPcInRange(pc), isPcInRange(pc), RecordOf(e))
        BY <1>4, <2>2, MovedEdgeIsInRange DEF CollectState
    <2>5. isPcInRange(pc) \in BOOLEAN
        BY DEF isPcInRange
    <2>6. trace_active' = isPcInRange(pc)
        BY <2>4 DEF TouchWriter
    <2> HIDE DEF e
    <2> QED
        BY <1>1, <2>1, <2>3, <2>4, <2>5, <2>6, TouchWriterReplays
<1>5. CASE Access
    BY <1>1, <1>5, AccessReplays DEF Access
<1> QED
    BY <1>3, <1>4, <1>5 DEF Next

\* For every instruction filter, every outcome of the open and every leftover
\* of an earlier run, trace.bin holds exactly the wanted events of the windows
\* of this run, in the order they happened; a file that could not be opened,
\* or that no hook has touched yet, holds at most what the earlier run left.
THEOREM ReplayCorrect == Spec => []FileIsReplay
<1>1. Init => ReplayInv
    BY DEF Init, ReplayInv, WindowEdge, LastStartInRange, Starts, FileIsReplay, NothingYet
<1>2. ReplayInv => FileIsReplay
    BY DEF ReplayInv
<1> QED
    BY <1>1, <1>2, TypeCorrect, ReplayStep, PTL DEF Spec
=============================================================================
