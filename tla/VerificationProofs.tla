------------------------- MODULE VerificationProofs -------------------------
(***************************************************************************)
(* What is proved of each part of a case by itself: the reader of a trace, *)
(* the loop over the entries, the resolution of types and the walk over    *)
(* the DIEs.                                                               *)
(*                                                                         *)
(* The two loops of the comparison.  The reader of the trace knows only    *)
(* byte offsets; an offset it reaches is the end of the record it read     *)
(* last, for every size of the records and of the type field and every     *)
(* place the file may be cut at.  The loop over the entries compares every *)
(* pair exactly once, and its counters count what it compared, whatever    *)
(* the entries are and however they are compared: only the two loop        *)
(* variables, the lengths of the groups and the list of results matter.    *)
(*                                                                         *)
(* The debug information.  What the walk has collected is, at every DIE,   *)
(* what the DIEs so far say.  The types are recursive functions; that the  *)
(* resolution, bounded by the stack, finds the size which the type DIEs    *)
(* alone define is shown by induction on the number of types that are      *)
(* resolved deeper down.                                                   *)
(*                                                                         *)
(* The return values.  Two of them differ where the words do that they are *)
(* made of, because nothing that is done to words and bytes on the way     *)
(* maps two lists of one length to one.                                    *)
(***************************************************************************)
EXTENDS Verification, SequenceLemmas, FiniteSetTheorems

RecordTypes == {"state_snapshot", "dwrite", "dread"}

\* The records lie end to end.
WellWritten ==
    /\ IsSeq(trace_file) /\ IsSeq(ends)
    /\ Len(ends) = Len(trace_file)
    /\ \A i \in 1 .. Len(trace_file) :
          /\ trace_file[i].type \in RecordTypes
          /\ EndOf(i - 1) \in Nat
          /\ ends[i] = EndOf(i - 1) + RecordBytes[trace_file[i].type]

\* The reader is at the end of a record.
AtBorder ==
    /\ IsSeq(parsed)
    /\ Len(parsed) <= Len(trace_file)
    /\ parsed = Image(trace_file, Len(parsed))
    /\ offset = EndOf(Len(parsed))
    /\ file_bytes \in Nat /\ offset <= file_bytes
    /\ parsing # "idle" => file_bytes <= TraceBytes

\* The inductive invariant.
TraceInv ==
    /\ WellWritten
    /\ AtBorder
    /\ parsing \in {"idle", "reading", "parsed", "raised"}
    /\ parsing = "idle" => parsed = << >> /\ file_bytes = 0
    /\ parsing = "parsed" => Remaining < HeaderBytes

\* What may happen to the file and its reader.
TraceStep ==
    \/ /\ parsing = "idle"
       /\ \E r : r.type \in RecordTypes /\ WriteToTrace(r)
       /\ UNCHANGED <<file_bytes, offset, parsed, parsing>>
    \/ \E lost : StartParsing(lost)
    \/ ParseNext
    \/ NewTrace
    \/ UNCHANGED parseVars

-----------------------------------------------------------------------------
(***************************************************************************)
(* The trace file.                                                         *)
(***************************************************************************)

\* Every record ends at a byte, and ends of later records are not smaller.
LEMMA EndsAreBytes ==
    ASSUME WellWritten, NEW n \in 0 .. Len(trace_file)
    PROVE  EndOf(n) \in Nat
<1>1. CASE n = 0
    BY <1>1 DEF EndOf
<1>2. CASE n # 0
    <2>1. Len(trace_file) \in Nat
        BY SeqDomain DEF WellWritten
    <2>2. n \in 1 .. Len(trace_file)
        BY <1>2, <2>1
    <2>3. RecordBytes[trace_file[n].type] \in Nat
        BY <2>2, RecordBytesAssumption DEF WellWritten, RecordTypes
    <2>4. EndOf(n - 1) \in Nat /\ ends[n] = EndOf(n - 1) + RecordBytes[trace_file[n].type]
        BY <2>2 DEF WellWritten
    <2> QED
        BY <1>2, <2>3, <2>4 DEF EndOf
<1> QED
    BY <1>1, <1>2

\* A new record ends where its bytes do and moves no other.
LEMMA WriteKeeps ==
    ASSUME TraceInv, parsing = "idle", NEW r, r.type \in RecordTypes, WriteToTrace(r),
           UNCHANGED <<file_bytes, offset, parsed, parsing>>
    PROVE  TraceInv'
<1> DEFINE n == Len(trace_file)
<1>1. IsSeq(trace_file) /\ IsSeq(ends) /\ Len(ends) = n
    BY DEF TraceInv, WellWritten
<1>2. n \in Nat
    BY <1>1, SeqDomain
<1>3. /\ IsSeq(trace_file') /\ Len(trace_file') = n + 1
      /\ trace_file'[n + 1] = r
      /\ \A i \in 1 .. n : trace_file'[i] = trace_file[i]
    BY <1>1, AppendIsSeq DEF WriteToTrace
<1>4. /\ IsSeq(ends') /\ Len(ends') = n + 1
      /\ ends'[n + 1] = EndOf(n) + RecordBytes[r.type]
      /\ \A i \in 1 .. n : ends'[i] = ends[i]
    <2>1. ends' = Append(ends, EndOf(n) + RecordBytes[r.type])
        BY DEF WriteToTrace, TraceBytes
    <2> QED
        BY <2>1, <1>1, AppendIsSeq
<1>5. \A k \in 0 .. n : EndOf(k)' = EndOf(k)
    BY <1>2, <1>4 DEF EndOf
<1>6. WellWritten'
    <2>1. ASSUME NEW i \in 1 .. (n + 1)
          PROVE  /\ trace_file'[i].type \in RecordTypes
                 /\ EndOf(i - 1)' \in Nat
                 /\ ends'[i] = EndOf(i - 1)' + RecordBytes[trace_file'[i].type]
        <3>1. i - 1 \in 0 .. n
            BY <1>2, <2>1
        <3>2. EndOf(i - 1)' = EndOf(i - 1) /\ EndOf(i - 1) \in Nat
            BY <3>1, <1>5, EndsAreBytes DEF TraceInv
        <3>3. CASE i = n + 1
            BY <3>2, <3>3, <1>2, <1>3, <1>4
        <3>4. CASE i # n + 1
            <4>1. i \in 1 .. n
                BY <3>4, <1>2, <2>1
            <4> QED
                BY <4>1, <3>2, <1>3, <1>4 DEF TraceInv, WellWritten
        <3> QED
            BY <3>3, <3>4
    <2> QED
        BY <2>1, <1>3, <1>4 DEF WellWritten
<1>7. AtBorder'
    <2>1. parsed' = << >> /\ parsed = << >> /\ offset' = offset /\ file_bytes' = file_bytes
        BY DEF TraceInv
    <2>2. offset = 0 /\ Len(parsed') = 0
        BY <2>1, EmptyIsSeq DEF TraceInv, AtBorder, EndOf
    <2>3. parsed' = [i \in 1 .. 0 |-> parse_record(trace_file'[i])]
        BY <2>1
    <2> QED
        BY <2>1, <2>2, <2>3, <1>2, <1>3, EmptyIsSeq DEF TraceInv, AtBorder, EndOf, Image
<1> QED
    BY <1>6, <1>7 DEF TraceInv, Remaining

\* A file that is cut is no longer than the trace.
LEMMA StartKeeps ==
    ASSUME TraceInv, NEW lost, StartParsing(lost)
    PROVE  TraceInv'
<1>1. TraceBytes \in Nat
    BY EndsAreBytes, SeqDomain DEF TraceInv, WellWritten, TraceBytes
<1>2. file_bytes' \in Nat /\ file_bytes' <= TraceBytes
    BY <1>1 DEF StartParsing
<1>3. WellWritten' /\ TraceBytes' = TraceBytes
    BY DEF TraceInv, WellWritten, StartParsing, EndOf, TraceBytes
<1>4. parsed' = << >> /\ offset' = 0 /\ parsing' = "reading" /\ trace_file' = trace_file
    BY DEF StartParsing
<1>5. AtBorder'
    <2>1. Len(trace_file') \in Nat
        BY <1>3, SeqDomain DEF WellWritten
    <2>2. parsed' = [i \in 1 .. 0 |-> parse_record(trace_file'[i])] /\ Len(parsed') = 0
        BY <1>4, EmptyIsSeq
    <2> QED
        BY <1>2, <1>3, <1>4, <2>1, <2>2, EmptyIsSeq DEF AtBorder, EndOf, Image
<1> QED
    BY <1>3, <1>4, <1>5 DEF TraceInv

\* A record is read if all of its bytes are there, and the reader then is at
\* its end.
LEMMA ReadKeeps ==
    ASSUME TraceInv, ReadRecord
    PROVE  TraceInv'
<1> DEFINE n == Len(parsed)
<1>1. /\ IsSeq(parsed) /\ n \in Nat /\ Len(trace_file) \in Nat
      /\ n <= Len(trace_file) /\ offset = EndOf(n)
    BY SeqDomain DEF TraceInv, WellWritten, AtBorder
<1>2. n < Len(trace_file)
    <2>1. offset \in Nat
        BY <1>1, EndsAreBytes DEF TraceInv
    <2>2. offset < file_bytes
        BY <2>1, RecordBytesAssumption DEF ReadRecord, Remaining, TraceInv, AtBorder
    <2>3. file_bytes <= EndOf(Len(trace_file))
        BY DEF ReadRecord, TraceInv, AtBorder, TraceBytes
    <2>4. EndOf(n) # EndOf(Len(trace_file))
        BY <2>1, <2>2, <2>3, <1>1 DEF TraceInv, AtBorder
    <2> QED
        BY <1>1, <2>4
<1>3. /\ trace_file[n + 1].type \in RecordTypes
      /\ ends[n + 1] = EndOf(n) + RecordBytes[trace_file[n + 1].type]
    <2>1. n + 1 \in 1 .. Len(trace_file) /\ (n + 1) - 1 = n
        BY <1>1, <1>2
    <2> QED
        BY <2>1 DEF TraceInv, WellWritten
<1>4. /\ IsSeq(parsed') /\ Len(parsed') = n + 1
      /\ parsed'[n + 1] = parse_record(trace_file[n + 1])
      /\ \A i \in 1 .. n : parsed'[i] = parsed[i]
    BY <1>1, AppendIsSeq DEF ReadRecord, NextRecord
<1>5. parsed' = Image(trace_file, n + 1)
    <2>1. parsed' = [i \in 1 .. (n + 1) |-> parsed'[i]]
        BY <1>4, SeqDomain
    <2>2. ASSUME NEW i \in 1 .. (n + 1)
          PROVE  parsed'[i] = parse_record(trace_file[i])
        <3>1. CASE i = n + 1
            BY <3>1, <1>4
        <3>2. CASE i # n + 1
            <4>1. i \in 1 .. n
                BY <3>2, <1>1, <2>2
            <4>2. parsed[i] = parse_record(trace_file[i])
                BY <4>1 DEF TraceInv, AtBorder, Image
            <4> QED
                BY <4>1, <4>2, <1>4
        <3> QED
            BY <3>1, <3>2
    <2> QED
        BY <2>1, <2>2 DEF Image
<1>6. /\ UNCHANGED <<trace_file, ends, file_bytes, parsing>> /\ parsing = "reading"
      /\ offset' = offset + RecordBytes[trace_file[n + 1].type]
    BY DEF ReadRecord, NextRecord
<1>7. WellWritten' /\ TraceBytes' = TraceBytes
    BY <1>6 DEF TraceInv, WellWritten, EndOf, TraceBytes
<1>8. offset' = EndOf(Len(parsed))' /\ offset' <= file_bytes
    <2>1. EndOf(Len(parsed))' = ends[n + 1]
        BY <1>1, <1>4, <1>6 DEF EndOf
    <2>2. offset \in Nat /\ file_bytes \in Nat
        BY <1>1, EndsAreBytes DEF TraceInv, AtBorder
    <2>3. RecordBytes[trace_file[n + 1].type] \in Nat
        BY <1>3, RecordBytesAssumption DEF RecordTypes
    <2>4. file_bytes - offset >= RecordBytes[trace_file[n + 1].type]
        BY DEF ReadRecord, Remaining, NextRecord
    <2> QED
        BY <2>1, <2>2, <2>3, <2>4, <1>1, <1>3, <1>6
<1>9. AtBorder'
    BY <1>1, <1>2, <1>4, <1>5, <1>6, <1>7, <1>8 DEF TraceInv, AtBorder
<1> QED
    BY <1>6, <1>7, <1>9 DEF TraceInv

\* The invariant holds of a new file, and of every step.
LEMMA TraceStarts ==
    ASSUME NoTrace
    PROVE  TraceInv
<1>1. parsed = [i \in 1 .. 0 |-> parse_record(trace_file[i])] /\ Len(parsed) = 0
    BY EmptyIsSeq DEF NoTrace
<1> QED
    BY <1>1, EmptyIsSeq DEF NoTrace, TraceInv, WellWritten, AtBorder, EndOf, Image

\* Each step of the trace file keeps its invariant.
LEMMA TraceStepKeeps ==
    ASSUME TraceInv, TraceStep
    PROVE  TraceInv'
<1>1. CASE /\ parsing = "idle"
           /\ \E r : r.type \in RecordTypes /\ WriteToTrace(r)
           /\ UNCHANGED <<file_bytes, offset, parsed, parsing>>
    BY <1>1, WriteKeeps
<1>2. CASE \E lost : StartParsing(lost)
    BY <1>2, StartKeeps
<1>3. CASE ReadRecord
    BY <1>3, ReadKeeps
<1>4. CASE ReadCutRecord \/ ReadEnd
    BY <1>4 DEF TraceInv, WellWritten, AtBorder, EndOf, TraceBytes, Remaining,
                ReadCutRecord, ReadEnd
<1>5. CASE NewTrace
    <2>1. parsed' = [i \in 1 .. 0 |-> parse_record(trace_file'[i])] /\ Len(parsed') = 0
        BY <1>5, EmptyIsSeq DEF NewTrace
    <2> QED
        BY <1>5, <2>1, EmptyIsSeq DEF NewTrace, TraceInv, WellWritten, AtBorder, EndOf, Image
<1>6. CASE UNCHANGED parseVars
    BY <1>6 DEF parseVars, TraceInv, WellWritten, AtBorder, EndOf, TraceBytes, Remaining
<1> QED
    BY <1>1, <1>2, <1>3, <1>4, <1>5, <1>6 DEF TraceStep, ParseNext

\* What the reader accepts is whole.
LEMMA TraceInvGives ==
    ASSUME TraceInv
    PROVE  WholeOrRaised
<1>1. Len(parsed) \in Nat /\ Len(trace_file) \in Nat /\ Len(parsed) <= Len(trace_file)
    BY SeqDomain DEF TraceInv, WellWritten, AtBorder
<1>2. EndOf(Len(parsed)) \in Nat /\ offset = EndOf(Len(parsed))
    BY <1>1, EndsAreBytes DEF TraceInv, AtBorder
<1> QED
    BY <1>1, <1>2, RecordBytesAssumption DEF TraceInv, AtBorder, Remaining, WholeOrRaised

-----------------------------------------------------------------------------
(***************************************************************************)
(* The comparison loop.                                                    *)
(***************************************************************************)

\* Types and shape of the stage's state.
VerifyTypes ==
    /\ IsCollection(collections[Gr]) /\ IsCollection(collections[Uv])
    /\ idx_0 \in Nat \ {0} /\ idx_1 \in Nat \ {0}
    /\ IsSeq(verification_entries)
    /\ verifying \in {"idle", "verifying", "verified", "raised"}

\* The counters count what has been compared.
Counted ==
    /\ counters = [compared |-> Len(verification_entries), failed |-> Cardinality(FailedEntries)]
    /\ IsFiniteSet(FailedEntries)

\* Groups that are behind the loop have the same size, and the loop has not
\* begun before the collections are there.
Behind ==
    /\ \A g \in 1 .. Len(collections[Gr]) :
          g < idx_0 => Len(collections[Gr][g]) = Len(collections[Uv][g])
    /\ verifying = "idle" => verification_entries = << >> /\ idx_0 = 1 /\ idx_1 = 1
    /\ verifying = "verified" => SameNumberOfGroups /\ idx_0 \notin DOMAIN collections[Gr]

\* The inductive invariant.
VerifyInv == VerifyTypes /\ Counted /\ EachOnceInOrder /\ NoneLeftOut /\ Behind

\* What may happen to the stage.
VerifyStep ==
    \/ \E c : IsCollection(c[Gr]) /\ IsCollection(c[Uv]) /\ StartVerifying(c)
    \/ VerifyNext
    \/ UNCHANGED verifyVars

\* No pair is before the first one.
LEMMA NoneIsBefore ==
    ASSUME NEW c, IsCollection(c), NEW g \in DOMAIN c, NEW i \in DOMAIN c[g]
    PROVE  ~ Before(<<g, i>>, <<1, 1>>)
<1>1. g \in Nat /\ i \in Nat /\ g >= 1 /\ i >= 1
    BY CollectionDomain
<1> QED
    BY <1>1 DEF Before

\* The pipeline starts with nothing to compare.
LEMMA VerifyStarts ==
    ASSUME NothingVerified
    PROVE  VerifyInv
<1>1. IsCollection(<< >>) /\ DOMAIN << >> = {}
    BY EmptyIsSeq, SeqDomain DEF IsCollection
<1>2. collections[Gr] = << >> /\ collections[Uv] = << >>
    BY DEF NothingVerified, Gr, Uv
<1>3. FailedEntries = {}
    BY <1>1 DEF NothingVerified, FailedEntries
<1>4. Counted
    BY <1>3, EmptyIsSeq, FS_EmptySet DEF NothingVerified, Counted
<1>5. EachOnceInOrder /\ NoneLeftOut
    BY <1>1, <1>2 DEF NothingVerified, EachOnceInOrder, NoneLeftOut
<1>6. VerifyTypes /\ Behind
    BY <1>1, <1>2, EmptyIsSeq DEF NothingVerified, VerifyTypes, Behind
<1> QED
    BY <1>4, <1>5, <1>6 DEF VerifyInv

\* Nothing has been compared when the collections arrive, and no pair is
\* missing.
LEMMA StartVerifyingKeeps ==
    ASSUME VerifyInv, NEW c, IsCollection(c[Gr]), IsCollection(c[Uv]), StartVerifying(c)
    PROVE  VerifyInv'
<1>1. /\ verification_entries = << >> /\ idx_0 = 1 /\ idx_1 = 1
      /\ UNCHANGED <<idx_0, idx_1, verification_entries, counters>>
      /\ collections' = c /\ verifying' = "verifying"
    BY DEF StartVerifying, VerifyInv, Behind
<1>2. DOMAIN verification_entries = {}
    BY <1>1, EmptyIsSeq, SeqDomain
<1>3. Counted' /\ VerifyTypes'
    BY <1>1 DEF VerifyInv, Counted, FailedEntries, VerifyTypes
<1>4. EachOnceInOrder'
    BY <1>1, <1>2 DEF EachOnceInOrder
<1>5. NoneLeftOut'
    BY <1>1, NoneIsBefore DEF NoneLeftOut, Here
<1>6. Behind'
    <2>1. \A g \in 1 .. Len(c[Gr]) : ~ (g < 1)
        BY CollectionDomain
    <2> QED
        BY <1>1, <2>1 DEF Behind
<1> QED
    BY <1>3, <1>4, <1>5, <1>6 DEF VerifyInv

\* A comparison adds the pair at the loop's position.
LEMMA CompareKeeps ==
    ASSUME VerifyInv, compare_entries
    PROVE  VerifyInv'
<1> DEFINE n == Len(verification_entries)
<1> DEFINE e == VerificationEntry(Pair[1], Pair[2])
<1>1. /\ IsSeq(verification_entries) /\ n \in Nat
      /\ DOMAIN verification_entries = 1 .. n
      /\ idx_0 \in Nat \ {0} /\ idx_1 \in Nat \ {0}
    BY SeqDomain DEF VerifyInv, VerifyTypes
<1>2. /\ verification_entries' = Append(verification_entries, e)
      /\ counters' = [compared |-> counters.compared + 1,
                      failed |-> counters.failed + IF e.contains_failures THEN 1 ELSE 0]
      /\ idx_1' = idx_1 + 1
      /\ UNCHANGED <<collections, idx_0, verifying>>
      /\ verifying = "verifying"
    BY DEF compare_entries, Comparing
<1>3. e.at = Here /\ e.contains_failures \in BOOLEAN
      /\ (e.contains_failures <=> "FAIL" \in {e.global_vars, e.return_value})
    BY DEF VerificationEntry, Here
<1> HIDE DEF e
<1>4. \E N \in Nat :
         /\ N = n + 1 /\ Len(verification_entries') = N
         /\ IsSeq(verification_entries') /\ DOMAIN verification_entries' = 1 .. N
    BY <1>1, <1>2, AppendIsSeq, SeqDomain
<1>5. /\ verification_entries'[n + 1] = e
      /\ \A k \in 1 .. n : verification_entries'[k] = verification_entries[k]
    BY <1>1, <1>2, AppendIsSeq
<1>6. idx_0 \in DOMAIN collections[Gr] /\ idx_1 \in DOMAIN collections[Gr][idx_0]
    BY DEF compare_entries, Comparing, InGroups, InGroup
<1>7. /\ Len(collections[Gr]) \in Nat /\ DOMAIN collections[Gr] = 1 .. Len(collections[Gr])
      /\ \A g \in 1 .. Len(collections[Gr]) :
            DOMAIN collections[Gr][g] = 1 .. Len(collections[Gr][g])
    BY CollectionDomain DEF VerifyInv, VerifyTypes
<1>8. VerifyTypes'
    BY <1>1, <1>2, <1>4 DEF VerifyInv, VerifyTypes
<1>9. Counted'
    <2>1. FailedEntries' = FailedEntries \cup (IF e.contains_failures THEN {n + 1} ELSE {})
        BY <1>1, <1>3, <1>4, <1>5 DEF FailedEntries
    <2>2. n + 1 \notin FailedEntries
        BY <1>1 DEF FailedEntries
    <2>3. IsFiniteSet(FailedEntries) /\ Cardinality(FailedEntries) \in Nat
          /\ counters.compared = n /\ counters.failed = Cardinality(FailedEntries)
        BY FS_CardinalityType DEF VerifyInv, Counted
    <2>4. CASE e.contains_failures
        <3>1. FailedEntries' = FailedEntries \cup {n + 1}
            BY <2>1, <2>4
        <3>2. IsFiniteSet(FailedEntries') /\ Cardinality(FailedEntries') = Cardinality(FailedEntries) + 1
            BY <3>1, <2>2, <2>3, FS_AddElement
        <3> QED
            BY <2>4, <3>2, <2>3, <1>2, <1>4 DEF Counted
    <2>5. CASE ~ e.contains_failures
        <3>1. FailedEntries' = FailedEntries
            BY <2>1, <2>5
        <3> QED
            BY <2>5, <3>1, <2>3, <1>2, <1>4 DEF Counted
    <2> QED
        BY <2>4, <2>5
<1>10. Here' = <<idx_0, idx_1 + 1>> /\ Here = <<idx_0, idx_1>>
    BY <1>2 DEF Here
<1>11. ASSUME NEW g \in Nat, NEW i \in Nat
       PROVE  Before(<<g, i>>, Here') <=> (Before(<<g, i>>, Here) \/ <<g, i>> = Here)
    BY <1>1, <1>10 DEF Before
<1>12. EachOnceInOrder'
    <2>1. ASSUME NEW k \in 1 .. (n + 1)
          PROVE  LET at == verification_entries'[k].at
                 IN /\ Before(at, Here')
                    /\ at[1] \in DOMAIN collections[Gr] /\ at[2] \in DOMAIN collections[Gr][at[1]]
                    /\ \A j \in 1 .. (k - 1) : Before(verification_entries'[j].at, at)
        <3>1. CASE k \in 1 .. n
            <4> DEFINE at == verification_entries[k].at
            <4>1. /\ Before(at, Here)
                  /\ at[1] \in DOMAIN collections[Gr] /\ at[2] \in DOMAIN collections[Gr][at[1]]
                  /\ \A j \in 1 .. (k - 1) : Before(verification_entries[j].at, at)
                BY <3>1, <1>1 DEF VerifyInv, EachOnceInOrder
            <4> HIDE DEF at
            <4>2. at[1] \in Nat /\ at[2] \in Nat
                <5>1. at[1] \in 1 .. Len(collections[Gr])
                    BY <4>1, <1>7
                <5>2. at[2] \in 1 .. Len(collections[Gr][at[1]])
                    BY <4>1, <5>1, <1>7
                <5> QED
                    BY <5>1, <5>2
            <4>3. Before(at, Here')
                BY <4>1, <4>2, <1>1, <1>10 DEF Before
            <4>4. \A j \in 1 .. (k - 1) : verification_entries'[j] = verification_entries[j]
                BY <3>1, <1>1, <1>5
            <4> QED
                BY <4>1, <4>3, <4>4, <3>1, <1>5 DEF at
        <3>2. CASE k = n + 1
            <4>1. verification_entries'[k].at = Here
                BY <3>2, <1>3, <1>5
            <4>2. Before(Here, Here')
                BY <1>1, <1>10 DEF Before
            <4>3. Here[1] \in DOMAIN collections[Gr] /\ Here[2] \in DOMAIN collections[Gr][Here[1]]
                BY <1>6, <1>10
            <4>4. \A j \in 1 .. (k - 1) : Before(verification_entries'[j].at, Here)
                BY <3>2, <1>1, <1>5 DEF VerifyInv, EachOnceInOrder
            <4> QED
                BY <4>1, <4>2, <4>3, <4>4
        <3> QED
            BY <3>1, <3>2, <1>1
    <2> QED
        BY <2>1, <1>2, <1>4 DEF EachOnceInOrder
<1>13. NoneLeftOut'
    <2>1. ASSUME NEW g \in DOMAIN collections[Gr], NEW i \in DOMAIN collections[Gr][g],
                 Before(<<g, i>>, Here')
          PROVE  \E k \in 1 .. (n + 1) : verification_entries'[k].at = <<g, i>>
        <3>1. g \in Nat /\ i \in Nat
            BY <1>7
        <3>2. CASE Before(<<g, i>>, Here)
            <4>1. PICK k \in 1 .. n : verification_entries[k].at = <<g, i>>
                BY <3>2, <1>1 DEF VerifyInv, NoneLeftOut
            <4> QED
                BY <4>1, <1>1, <1>5
        <3>3. CASE <<g, i>> = Here
            BY <3>3, <1>1, <1>3, <1>5
        <3> QED
            BY <3>1, <3>2, <3>3, <2>1, <1>11
    <2> QED
        BY <2>1, <1>2, <1>4 DEF NoneLeftOut
<1>14. Behind'
    BY <1>2 DEF VerifyInv, Behind
<1> QED
    BY <1>8, <1>9, <1>12, <1>13, <1>14 DEF VerifyInv

\* The loop goes to the next group at the end of one, and both groups had the
\* same size.
LEMMA NextGroupKeeps ==
    ASSUME VerifyInv, NextGroup
    PROVE  VerifyInv'
<1>1. /\ idx_0' = idx_0 + 1 /\ idx_1' = 1
      /\ UNCHANGED <<collections, verification_entries, counters, verifying>>
      /\ verifying = "verifying" /\ SameSizeOfGroup
      /\ idx_1 \notin DOMAIN collections[Gr][idx_0]
    BY DEF NextGroup, Comparing, InGroup
<1>2. idx_0 \in Nat \ {0} /\ idx_1 \in Nat \ {0}
    BY DEF VerifyInv, VerifyTypes
<1>3. /\ Len(collections[Gr]) \in Nat /\ DOMAIN collections[Gr] = 1 .. Len(collections[Gr])
      /\ \A g \in 1 .. Len(collections[Gr]) :
            /\ Len(collections[Gr][g]) \in Nat
            /\ DOMAIN collections[Gr][g] = 1 .. Len(collections[Gr][g])
    BY CollectionDomain DEF VerifyInv, VerifyTypes
<1>4. Here' = <<idx_0 + 1, 1>> /\ Here = <<idx_0, idx_1>>
    BY <1>1 DEF Here
<1>5. VerifyTypes'
    BY <1>1, <1>2 DEF VerifyInv, VerifyTypes
<1>6. Counted'
    BY <1>1 DEF VerifyInv, Counted, FailedEntries
<1>7. EachOnceInOrder'
    <2>1. ASSUME NEW k \in DOMAIN verification_entries
          PROVE  Before(verification_entries[k].at, Here')
        <3> DEFINE at == verification_entries[k].at
        <3>1. /\ Before(at, Here)
              /\ at[1] \in DOMAIN collections[Gr] /\ at[2] \in DOMAIN collections[Gr][at[1]]
            BY DEF VerifyInv, EachOnceInOrder
        <3>2. at[1] \in Nat
            BY <3>1, <1>3
        <3> QED
            BY <3>1, <3>2, <1>2, <1>4 DEF Before
    <2> QED
        BY <2>1, <1>1 DEF VerifyInv, EachOnceInOrder
<1>8. NoneLeftOut'
    <2>1. ASSUME NEW g \in DOMAIN collections[Gr], NEW i \in DOMAIN collections[Gr][g],
                 Before(<<g, i>>, Here')
          PROVE  Before(<<g, i>>, Here)
        <3>1. g \in Nat /\ i \in Nat /\ i >= 1 /\ g \in 1 .. Len(collections[Gr])
              /\ i \in 1 .. Len(collections[Gr][g])
            BY <1>3
        <3>2. g <= idx_0
            BY <3>1, <2>1, <1>2, <1>4 DEF Before
        <3>3. CASE g < idx_0
            BY <3>3, <1>4 DEF Before
        <3>4. CASE g = idx_0
            <4>1. i < idx_1
                BY <3>1, <3>4, <1>1, <1>2, <1>3
            <4> QED
                BY <4>1, <3>4, <1>4 DEF Before
        <3> QED
            BY <3>1, <3>2, <3>3, <3>4, <1>2
    <2> QED
        BY <2>1, <1>1 DEF VerifyInv, NoneLeftOut
<1>9. Behind'
    <2>1. ASSUME NEW g \in 1 .. Len(collections[Gr]), g < idx_0 + 1
          PROVE  Len(collections[Gr][g]) = Len(collections[Uv][g])
        <3>1. CASE g < idx_0
            BY <3>1 DEF VerifyInv, Behind
        <3>2. CASE g = idx_0
            BY <3>2, <1>1 DEF SameSizeOfGroup
        <3> QED
            BY <3>1, <3>2, <2>1, <1>2, <1>3
    <2> QED
        BY <2>1, <1>1 DEF Behind
<1> QED
    BY <1>5, <1>6, <1>7, <1>8, <1>9 DEF VerifyInv

\* The steps of the stage.
LEMMA VerifyStepKeeps ==
    ASSUME VerifyInv, VerifyStep
    PROVE  VerifyInv'
<1>1. CASE \E c : IsCollection(c[Gr]) /\ IsCollection(c[Uv]) /\ StartVerifying(c)
    BY <1>1, StartVerifyingKeeps
<1>2. CASE compare_entries
    BY <1>2, CompareKeeps
<1>3. CASE NextGroup
    BY <1>3, NextGroupKeeps
<1>4. CASE VerifyRaises \/ Summarise
    <2>1. UNCHANGED <<collections, idx_0, idx_1, verification_entries, counters>>
        BY <1>4 DEF VerifyRaises, Summarise
    <2>2. /\ verifying' \in {"verified", "raised"}
          /\ verifying' = "verified" => SameNumberOfGroups /\ idx_0 \notin DOMAIN collections[Gr]
        BY <1>4 DEF VerifyRaises, Summarise, InGroups
    <2> QED
        BY <2>1, <2>2 DEF VerifyInv, VerifyTypes, Counted, FailedEntries, EachOnceInOrder,
                          NoneLeftOut, Behind, Here, SameNumberOfGroups
<1>5. CASE UNCHANGED verifyVars
    BY <1>5 DEF verifyVars, VerifyInv, VerifyTypes, Counted, FailedEntries, EachOnceInOrder,
                NoneLeftOut, Behind, Here, SameNumberOfGroups
<1> QED
    BY <1>1, <1>2, <1>3, <1>4, <1>5 DEF VerifyStep, VerifyNext

\* When the loop has ended, every pair is behind it.
LEMMA VerifyInvGives ==
    ASSUME VerifyInv
    PROVE  EachPairCompared
<1>1. /\ Len(collections[Gr]) \in Nat /\ DOMAIN collections[Gr] = 1 .. Len(collections[Gr])
      /\ idx_0 \in Nat \ {0}
    BY CollectionDomain DEF VerifyInv, VerifyTypes
<1>2. counters.compared = Len(verification_entries) /\ counters.failed = Cardinality(FailedEntries)
    BY DEF VerifyInv, Counted
<1>3. ASSUME verifying = "verified"
      PROVE  /\ SameShape
             /\ \A g \in DOMAIN collections[Gr] : \A i \in DOMAIN collections[Gr][g] :
                   Before(<<g, i>>, Here)
    <2>1. SameNumberOfGroups /\ \A g \in DOMAIN collections[Gr] : g < idx_0
        BY <1>1, <1>3 DEF VerifyInv, Behind
    <2>2. SameShape
        BY <2>1, <1>1 DEF SameShape, VerifyInv, Behind
    <2> QED
        BY <2>1, <2>2 DEF Before, Here
<1> QED
    BY <1>2, <1>3 DEF VerifyInv, EachPairCompared

-----------------------------------------------------------------------------
(***************************************************************************)
(* The types of the debug information.                                     *)
(***************************************************************************)

\* The DIEs a type may refer to, a missing one included.
Dies == DOMAIN TypeDie \cup {NoDie}

\* One more frame of _extract_type_rec.
Layer(used, at) ==
    [t \in Dies |-> IF t = NoDie \/ used = RecursionLimit THEN Raised
                    ELSE ResolvedDie(TypeDie[t], at)]
\* The function that Resolve is, from a frame on.
IsResolve(f, from) == f = [used \in from .. RecursionLimit |-> Layer(used, f[used + 1])]

\* Resolve exists: it is built from the recursion limit downwards.
LEMMA ResolveExists == \E f : IsResolve(f, 0)
<1> DEFINE T == { n \in Nat : n <= RecursionLimit => \E f : IsResolve(f, RecursionLimit - n) }
<1>1. 0 \in T
    <2> DEFINE f == [used \in RecursionLimit .. RecursionLimit |-> Layer(used, Raised)]
    <2>1. Layer(RecursionLimit, Raised) = Layer(RecursionLimit, f[RecursionLimit + 1])
        BY DEF Layer
    <2>2. f = [used \in RecursionLimit .. RecursionLimit |-> Layer(used, f[used + 1])]
        BY <2>1, RecursionLimitAssumption
    <2> HIDE DEF f
    <2>3. IsResolve(f, RecursionLimit)
        BY <2>2 DEF IsResolve
    <2> QED
        BY <2>3, RecursionLimitAssumption
<1>2. ASSUME NEW n \in Nat, n \in T PROVE n + 1 \in T
    <2> SUFFICES ASSUME n + 1 <= RecursionLimit
                 PROVE \E f : IsResolve(f, RecursionLimit - (n + 1))
        BY <1>2
    <2> DEFINE from == RecursionLimit - (n + 1)
    <2>1. from \in Nat /\ from + 1 = RecursionLimit - n /\ from < RecursionLimit
        BY <1>2, RecursionLimitAssumption
    <2>2. PICK f : IsResolve(f, from + 1)
        <3>1. \E f : IsResolve(f, RecursionLimit - n)
            BY <1>2, <2>1, RecursionLimitAssumption
        <3> QED
            BY <2>1, <3>1
    <2> HIDE DEF from
    <2> DEFINE g == [used \in from .. RecursionLimit |->
                        IF used = from THEN Layer(from, f[from + 1]) ELSE f[used]]
    <2>3. \A used \in from .. RecursionLimit : g[used] = Layer(used, g[used + 1])
        <3> SUFFICES ASSUME NEW used \in from .. RecursionLimit
                     PROVE  g[used] = Layer(used, g[used + 1])
            OBVIOUS
        <3>1. CASE used = from
            <4>1. g[used] = Layer(from, f[from + 1]) /\ g[from + 1] = f[from + 1]
                BY <2>1, <3>1, RecursionLimitAssumption
            <4> QED
                BY <3>1, <4>1
        <3>2. CASE used # from /\ used # RecursionLimit
            <4>1. g[used] = f[used] /\ g[used + 1] = f[used + 1] /\ used \in from + 1 .. RecursionLimit
                BY <2>1, <3>2, RecursionLimitAssumption
            <4>2. f[used] = Layer(used, f[used + 1])
                BY <2>2, <4>1 DEF IsResolve
            <4> QED
                BY <4>1, <4>2
        <3>3. CASE used # from /\ used = RecursionLimit
            <4>1. g[used] = f[used] /\ used \in from + 1 .. RecursionLimit
                BY <2>1, <3>3, RecursionLimitAssumption
            <4>2. f[used] = Layer(used, f[used + 1])
                BY <2>2, <4>1 DEF IsResolve
            <4>3. Layer(used, f[used + 1]) = Layer(used, g[used + 1])
                BY <3>3 DEF Layer
            <4> QED
                BY <4>1, <4>2, <4>3
        <3> QED
            BY <3>1, <3>2, <3>3
    <2>4. g = [used \in from .. RecursionLimit |-> g[used]]
        OBVIOUS
    <2> HIDE DEF g
    <2>5. IsResolve(g, from)
        BY <2>3, <2>4 DEF IsResolve
    <2> QED
        BY <2>5 DEF from
<1> HIDE DEF T
<1>3. RecursionLimit \in T
    BY <1>1, <1>2, NaturalsIn, RecursionLimitAssumption
<1> QED
    BY <1>3, RecursionLimitAssumption DEF T

\* What it is at a frame follows from what it is at the next.
LEMMA ResolveIs ==
    ASSUME NEW used \in 0 .. RecursionLimit
    PROVE  Resolve[used] = Layer(used, Resolve[used + 1])
<1> DEFINE f == CHOOSE f : IsResolve(f, 0)
<1>1. IsResolve(f, 0)
    BY ResolveExists
<1>2. Resolve = f
    BY DEF Resolve, IsResolve, Layer, Dies
<1> HIDE DEF f
<1>3. f = [u \in 0 .. RecursionLimit |-> Layer(u, f[u + 1])]
    BY <1>1 DEF IsResolve
<1>4. f[used] = Layer(used, f[used + 1])
    BY <1>3
<1> QED
    BY <1>2, <1>4

-----------------------------------------------------------------------------
\* A product of natural numbers is one.
IsProductTo(f, s, n) == f = [i \in 0 .. n |-> IF i = 0 THEN 1 ELSE f[i - 1] * s[i]]
IsProduct(f, s) == IsProductTo(f, s, Len(s))
HasProductTo(s, n) == \E f \in [0 .. n -> Nat] : IsProductTo(f, s, n)

\* One factor more.
LEMMA ProductStep ==
    ASSUME NEW s \in Seq(Nat), NEW n \in Nat, n + 1 <= Len(s),
           NEW f \in [0 .. n -> Nat], IsProductTo(f, s, n)
    PROVE  \E g \in [0 .. n + 1 -> Nat] : IsProductTo(g, s, n + 1)
<1> DEFINE next == f[n] * s[n + 1]
<1>1. f = [i \in 0 .. n |-> IF i = 0 THEN 1 ELSE f[i - 1] * s[i]]
    BY DEF IsProductTo
<1>2. next \in Nat
    <2>1. f[n] \in Nat /\ s[n + 1] \in Nat
        OBVIOUS
    <2>2. \A x, y \in Nat : x * y \in Nat
        OBVIOUS
    <2> QED
        BY <2>1, <2>2
<1>3. next = f[n] * s[n + 1]
    OBVIOUS
<1> HIDE DEF next
<1> DEFINE g == [i \in 0 .. n + 1 |-> IF i = n + 1 THEN next ELSE f[i]]
<1>4. g \in [0 .. n + 1 -> Nat]
    BY <1>2
<1>5. \A i \in 0 .. n + 1 : g[i] = IF i = 0 THEN 1 ELSE g[i - 1] * s[i]
    <2> SUFFICES ASSUME NEW i \in 0 .. n + 1 PROVE g[i] = IF i = 0 THEN 1 ELSE g[i - 1] * s[i]
        OBVIOUS
    <2>1. CASE i = n + 1
        <3>1. g[i] = next /\ g[i - 1] = f[n] /\ i # 0
            BY <2>1
        <3> QED
            BY <1>3, <2>1, <3>1
    <2>2. CASE i # n + 1
        <3>1. i \in 0 .. n /\ g[i] = f[i] /\ (i # 0 => g[i - 1] = f[i - 1])
            BY <2>2
        <3>2. f[i] = IF i = 0 THEN 1 ELSE f[i - 1] * s[i]
            BY <1>1, <3>1
        <3> QED
            BY <3>1, <3>2
    <2> QED
        BY <2>1, <2>2
<1>6. g = [i \in 0 .. n + 1 |-> g[i]]
    OBVIOUS
<1> HIDE DEF g
<1>7. IsProductTo(g, s, n + 1)
    BY <1>5, <1>6 DEF IsProductTo
<1> QED
    BY <1>4, <1>7

\* A product of all of them.
LEMMA ProductIsNat ==
    ASSUME NEW s \in Seq(Nat)
    PROVE  Product(s) \in Nat
<1> DEFINE T == { n \in Nat : n <= Len(s) => HasProductTo(s, n) }
<1>0. Len(s) \in Nat /\ \A i \in 1 .. Len(s) : s[i] \in Nat
    OBVIOUS
<1>1. 0 \in T
    <2> DEFINE f == [i \in 0 .. 0 |-> 1]
    <2>1. f \in [0 .. 0 -> Nat] /\ IsProductTo(f, s, 0)
        BY DEF IsProductTo
    <2> QED
        BY <2>1 DEF HasProductTo
<1>2. ASSUME NEW n \in Nat, n \in T PROVE n + 1 \in T
    <2> SUFFICES ASSUME n + 1 <= Len(s) PROVE HasProductTo(s, n + 1)
        BY <1>2
    <2>1. PICK f \in [0 .. n -> Nat] : IsProductTo(f, s, n)
        <3>1. HasProductTo(s, n)
            BY <1>0, <1>2
        <3> QED
            BY <3>1 DEF HasProductTo
    <2> QED
        BY <1>2, <2>1, ProductStep DEF HasProductTo
<1> HIDE DEF T
<1>3. Len(s) \in T
    BY <1>0, <1>1, <1>2, NaturalsIn
<1>4. PICK g \in [0 .. Len(s) -> Nat] : IsProduct(g, s)
    BY <1>0, <1>3 DEF T, IsProduct, HasProductTo
<1> DEFINE f == CHOOSE f : IsProduct(f, s)
<1>5. IsProduct(f, s)
    BY <1>4
<1>6. Product(s) = f[Len(s)]
    BY DEF Product, IsProduct, IsProductTo
<1> HIDE DEF f
<1>7. \A i \in 0 .. Len(s) : f[i] = IF i = 0 THEN 1 ELSE f[i - 1] * s[i]
    BY <1>5 DEF IsProduct, IsProductTo
<1> DEFINE U == { n \in Nat : n <= Len(s) => f[n] \in Nat }
<1>8. 0 \in U
    BY <1>0, <1>7
<1>9. ASSUME NEW n \in Nat, n \in U PROVE n + 1 \in U
    <2> SUFFICES ASSUME n + 1 <= Len(s) PROVE f[n + 1] \in Nat
        OBVIOUS
    <2>1. f[n] \in Nat /\ s[n + 1] \in Nat
        BY <1>0, <1>9
    <2>2. f[n + 1] = f[n] * s[n + 1]
        BY <1>0, <1>7
    <2>3. \A x, y \in Nat : x * y \in Nat
        OBVIOUS
    <2> QED
        BY <2>1, <2>2, <2>3
<1> HIDE DEF U
<1>10. Len(s) \in U
    BY <1>0, <1>8, <1>9, NaturalsIn
<1> QED
    BY <1>0, <1>6, <1>10 DEF U

-----------------------------------------------------------------------------
\* A range is a natural number, None or raises; with a range there is a base.
IsMeasured(type) ==
    /\ type.range \in Nat \cup {None, Raises}
    /\ type.range \in Nat => type.base \in Nat

\* The dimensions of an array with bounds are natural numbers.
LEMMA LengthIsNat ==
    ASSUME NEW t \in DOMAIN TypeDie, HasBounds(TypeDie[t].subranges)
    PROVE  ArrayLength(TypeDie[t].subranges) \in Nat
<1> DEFINE rs == TypeDie[t].subranges
<1> DEFINE R == [count : Nat \cup {None}, upper_bound : Nat \cup {None}]
<1>1. rs \in Seq(R)
    BY TypeDieAssumption
<1>2. \A r \in R : (r.count # None \/ r.upper_bound # None) => Dimension(r) \in Nat
    BY DEF Dimension
<1>0. HasBounds(rs)
    OBVIOUS
<1> HIDE DEF R, rs
<1>3. \A i \in 1 .. Len(rs) : rs[i] \in R /\ (rs[i].count # None \/ rs[i].upper_bound # None)
    <2>1. \A i \in 1 .. Len(rs) : rs[i] \in R
        BY <1>1
    <2>2. \A i \in 1 .. Len(rs) : rs[i] \in Range(rs)
        BY <1>1 DEF Range
    <2> QED
        BY <1>0, <2>1, <2>2 DEF HasBounds
<1>4. \A i \in 1 .. Len(rs) : Dimension(rs[i]) \in Nat
    BY <1>2, <1>3
<1>5. Len(rs) \in Nat /\ DOMAIN rs = 1 .. Len(rs)
    BY <1>1
<1> DEFINE counts == { i \in DOMAIN rs : rs[i].count # None }
<1> DEFINE first == IF counts = {} THEN 1 ELSE CHOOSE i \in counts : \A j \in counts : j <= i
<1>6. counts = {} \/ \E i \in counts : \A j \in counts : j <= i
    BY <1>5, LargestOf
<1>7. first \in Nat \ {0} /\ first <= Len(rs) + 1
    BY <1>5, <1>6
<1>8. compute_array_size_from_subranges(rs) = [i \in 1 .. (Len(rs) - first + 1) |-> Dimension(rs[first + i - 1])]
    BY DEF compute_array_size_from_subranges
<1> HIDE DEF first
<1>9. \A i \in 1 .. (Len(rs) - first + 1) : Dimension(rs[first + i - 1]) \in Nat
    BY <1>4, <1>5, <1>7
<1>10. Len(rs) - first + 1 \in Nat
    BY <1>5, <1>7
<1>11. compute_array_size_from_subranges(rs) \in Seq(Nat)
    BY <1>8, <1>9, <1>10
<1> QED
    BY <1>11, ProductIsNat DEF ArrayLength, rs

\* A type is measured if the types it is made of are (types.py).
LEMMA ResolvedIsMeasured ==
    ASSUME NEW t \in DOMAIN TypeDie, NEW at, IsMeasured(at[TypeDie[t].type])
    PROVE  IsMeasured(ResolvedDie(TypeDie[t], at))
<1> DEFINE die == TypeDie[t]
<1> DEFINE inner == at[die.type]
<1>1. die.size \in Nat \cup {None}
    BY TypeDieAssumption
<1>2. HasBounds(die.subranges) => ArrayLength(die.subranges) \in Nat
    BY LengthIsNat
<1>3. IsMeasured(NoType) /\ IsMeasured(Raised)
    BY DEF IsMeasured, NoType, Raised, Type, Raises, None
<1>4. \A class : IsMeasured(Wrapped(class, inner)) /\ IsMeasured(Wrapped(class, NoType))
    BY DEF IsMeasured, Wrapped, Type, NoType, Raises, None
<1>5. IsMeasured(BaseType(die))
    BY <1>1 DEF IsMeasured, BaseType, Type
<1>6. \A members : IsMeasured(StructType(die, members)) /\ IsMeasured(UnionType(die, members))
    BY <1>1 DEF IsMeasured, StructType, UnionType, EmptyStruct, Aggregate, Type, None
<1>7. IsMeasured(ArrayType(die.subranges, inner))
    <2>1. CASE ~ HasBounds(die.subranges) \/ inner.class = "Raised"
        BY <1>3, <2>1 DEF ArrayType
    <2>2. CASE HasBounds(die.subranges) /\ inner.class # "Raised"
        <3> DEFINE length == ArrayLength(die.subranges)
        <3> DEFINE a == ArrayType(die.subranges, inner)
        <3>1. a.range = ArrayRange(length, inner) /\ a.base = inner.base
            BY <2>2 DEF ArrayType, Wrapped, Type
        <3>2. length \in Nat
            BY <1>2, <2>2
        <3> HIDE DEF a, length
        <3>3. inner.range \in {None, Raises} => a.range = Raises
            BY <3>1 DEF ArrayRange
        <3>4. inner.range \notin {None, Raises} => inner.range \in Nat /\ inner.base \in Nat
            BY DEF IsMeasured
        <3>5. inner.range \notin {None, Raises} => a.range = length * inner.range
            BY <3>1 DEF ArrayRange
        <3>6. \A x, y \in Nat : x * y \in Nat
            OBVIOUS
        <3> QED
            BY <3>1, <3>2, <3>3, <3>4, <3>5, <3>6 DEF IsMeasured, a, Raises, None
    <2> QED
        BY <2>1, <2>2
<1> HIDE DEF inner, die
<1>8. IsMeasured(PointerType(inner)) /\ \A class : IsMeasured(WrappedOrBare(class, inner))
    BY <1>3, <1>4 DEF PointerType, WrappedOrBare
<1> QED
    BY <1>3, <1>4, <1>5, <1>6, <1>7, <1>8 DEF ResolvedDie, inner, die

\* What is below the recursion limit is measured, too.
LEMMA TypesAreMeasured ==
    ASSUME NEW used \in 0 .. RecursionLimit, NEW t \in Dies
    PROVE  IsMeasured(Resolve[used][t])
<1> DEFINE P(u) == \A x \in Dies : IsMeasured(Resolve[u][x])
<1> DEFINE T == { n \in Nat : n <= RecursionLimit => P(RecursionLimit - n) }
<1>0. IsMeasured(Raised)
    BY DEF IsMeasured, Raised, Type, Raises, None
<1>1. P(RecursionLimit)
    <2>1. Resolve[RecursionLimit] = Layer(RecursionLimit, Resolve[RecursionLimit + 1])
        BY ResolveIs, RecursionLimitAssumption
    <2>2. \A x \in Dies : Resolve[RecursionLimit][x] = Raised
        BY <2>1 DEF Layer
    <2> QED
        BY <1>0, <2>2
<1>2. ASSUME NEW u \in 0 .. RecursionLimit, u # RecursionLimit, P(u + 1) PROVE P(u)
    <2> SUFFICES ASSUME NEW x \in Dies PROVE IsMeasured(Resolve[u][x])
        OBVIOUS
    <2>1. Resolve[u][x] = IF x = NoDie THEN Raised ELSE ResolvedDie(TypeDie[x], Resolve[u + 1])
        BY <1>2, ResolveIs DEF Layer
    <2>2. CASE x = NoDie
        BY <1>0, <2>1, <2>2
    <2>3. CASE x # NoDie
        <3>1. x \in DOMAIN TypeDie /\ TypeDie[x].type \in Dies
            BY <2>3, TypeDieAssumption DEF Dies
        <3>2. IsMeasured(Resolve[u + 1][TypeDie[x].type])
            BY <1>2, <3>1
        <3> QED
            BY <2>1, <2>3, <3>1, <3>2, ResolvedIsMeasured
    <2> QED
        BY <2>2, <2>3
<1> HIDE DEF P
<1>3. 0 \in T
    BY <1>1, RecursionLimitAssumption
<1>4. ASSUME NEW n \in Nat, n \in T PROVE n + 1 \in T
    <2> SUFFICES ASSUME n + 1 <= RecursionLimit PROVE P(RecursionLimit - (n + 1))
        BY <1>4
    <2>1. /\ RecursionLimit - (n + 1) \in 0 .. RecursionLimit
          /\ RecursionLimit - (n + 1) # RecursionLimit
          /\ RecursionLimit - (n + 1) + 1 = RecursionLimit - n
        BY <1>4, RecursionLimitAssumption
    <2>2. P(RecursionLimit - n)
        BY <1>4, RecursionLimitAssumption
    <2> QED
        BY <1>2, <2>1, <2>2
<1> HIDE DEF T
<1>5. RecursionLimit - used \in T
    BY <1>3, <1>4, NaturalsIn, RecursionLimitAssumption
<1>6. P(used)
    <2>1. RecursionLimit - used \in Nat /\ RecursionLimit - (RecursionLimit - used) = used
        BY RecursionLimitAssumption
    <2>2. P(RecursionLimit - (RecursionLimit - used))
        BY <1>5, <2>1, RecursionLimitAssumption DEF T
    <2> QED
        BY <2>1, <2>2
<1> QED
    BY <1>6 DEF P

-----------------------------------------------------------------------------
\* Repeating a step.
IsIterate(f, F, x, N) == f = [n \in 0 .. N |-> IF n = 0 THEN x ELSE F[f[n - 1]]]
HasIterate(X, F, x, N) == \E f \in [0 .. N -> X] : IsIterate(f, F, x, N)

\* One step more.
LEMMA IterateStep ==
    ASSUME NEW X, NEW F \in [X -> X], NEW x \in X, NEW N \in Nat,
           NEW f \in [0 .. N -> X], IsIterate(f, F, x, N)
    PROVE  \E g \in [0 .. N + 1 -> X] : IsIterate(g, F, x, N + 1)
<1> DEFINE g == [n \in 0 .. N + 1 |-> IF n = N + 1 THEN F[f[N]] ELSE f[n]]
<1>1. g \in [0 .. N + 1 -> X]
    OBVIOUS
<1>2. \A n \in 0 .. N + 1 : g[n] = IF n = 0 THEN x ELSE F[g[n - 1]]
    <2> SUFFICES ASSUME NEW n \in 0 .. N + 1 PROVE g[n] = IF n = 0 THEN x ELSE F[g[n - 1]]
        OBVIOUS
    <2>1. CASE n = N + 1
        <3>1. g[n] = F[f[N]] /\ g[n - 1] = f[N] /\ n # 0
            BY <2>1
        <3> QED
            BY <3>1
    <2>2. CASE n # N + 1
        <3>1. n \in 0 .. N /\ g[n] = f[n] /\ (n # 0 => g[n - 1] = f[n - 1])
            BY <2>2
        <3>2. f[n] = IF n = 0 THEN x ELSE F[f[n - 1]]
            BY <3>1 DEF IsIterate
        <3> QED
            BY <3>1, <3>2
    <2> QED
        BY <2>1, <2>2
<1>3. g = [n \in 0 .. N + 1 |-> g[n]]
    OBVIOUS
<1> HIDE DEF g
<1>4. IsIterate(g, F, x, N + 1)
    BY <1>2, <1>3 DEF IsIterate
<1> QED
    BY <1>1, <1>4

\* It can be repeated as often as one likes.
LEMMA IterateExists ==
    ASSUME NEW X, NEW F \in [X -> X], NEW x \in X, NEW N \in Nat
    PROVE  \E f \in [0 .. N -> X] : IsIterate(f, F, x, N)
<1> DEFINE T == { n \in Nat : HasIterate(X, F, x, n) }
<1>1. 0 \in T
    <2> DEFINE f == [n \in 0 .. 0 |-> x]
    <2>1. f \in [0 .. 0 -> X] /\ IsIterate(f, F, x, 0)
        BY DEF IsIterate
    <2> QED
        BY <2>1 DEF HasIterate
<1>2. ASSUME NEW n \in Nat, n \in T PROVE n + 1 \in T
    <2>1. PICK f \in [0 .. n -> X] : IsIterate(f, F, x, n)
        BY <1>2 DEF HasIterate
    <2>2. \E g \in [0 .. n + 1 -> X] : IsIterate(g, F, x, n + 1)
        BY <1>2, <2>1, IterateStep
    <2> QED
        BY <2>2 DEF HasIterate
<1> HIDE DEF T
<1>3. N \in T
    BY <1>1, <1>2, NaturalsIn
<1> QED
    BY <1>3 DEF T, HasIterate

-----------------------------------------------------------------------------
\* As many steps as there are types lead everywhere.
DieCount == Cardinality(DOMAIN TypeDie)
\* There are finitely many.
LEMMA DieCountIsNat == DieCount \in Nat
BY TypeDieAssumption, FS_CardinalityType DEF DieCount

\* The types that are reached from each one in n steps and less.
IsChain(g, tags) ==
    g = [n \in 0 .. DieCount |->
            [u \in Dies |-> IF n = 0 \/ ~ Goes(tags, u) THEN {u}
                            ELSE {u} \cup g[n - 1][TypeDie[u].type]]]

\* Leads is such a chain.
LEMMA ChainExists ==
    ASSUME NEW tags
    PROVE  \E g : /\ IsChain(g, tags)
                  /\ \A t \in Dies : LeadsBy(tags, t) = g[DieCount][t]
<1> DEFINE X == [Dies -> SUBSET Dies]
<1> DEFINE x == [u \in Dies |-> {u}]
<1> DEFINE F == [h \in X |-> [u \in Dies |-> IF ~ Goes(tags, u) THEN {u} ELSE {u} \cup h[TypeDie[u].type]]]
<1>0. \A u \in Dies : Goes(tags, u) => TypeDie[u].type \in Dies
    BY TypeDieAssumption DEF Dies, Goes
<1>1. x \in X /\ F \in [X -> X]
    <2>1. \A h \in X : [u \in Dies |-> IF ~ Goes(tags, u) THEN {u} ELSE {u} \cup h[TypeDie[u].type]] \in X
        BY <1>0
    <2> QED
        BY <2>1
<1>2. PICK f \in [0 .. DieCount -> X] : IsIterate(f, F, x, DieCount)
    <2> HIDE DEF X, F, x
    <2> QED
        BY <1>1, DieCountIsNat, IterateExists
<1>3. \A n \in 0 .. DieCount :
         f[n] = [u \in Dies |-> IF n = 0 \/ ~ Goes(tags, u) THEN {u}
                                ELSE {u} \cup f[n - 1][TypeDie[u].type]]
    <2> SUFFICES ASSUME NEW n \in 0 .. DieCount
                 PROVE  f[n] = [u \in Dies |-> IF n = 0 \/ ~ Goes(tags, u) THEN {u}
                                               ELSE {u} \cup f[n - 1][TypeDie[u].type]]
        OBVIOUS
    <2>1. f[n] = IF n = 0 THEN x ELSE F[f[n - 1]]
        BY <1>2 DEF IsIterate
    <2>2. CASE n = 0
        BY <2>1, <2>2
    <2>3. CASE n # 0
        <3>1. f[n - 1] \in X
            BY <2>3, DieCountIsNat
        <3> QED
            BY <2>1, <2>3, <3>1
    <2> QED
        BY <2>2, <2>3
<1>4. f = [n \in 0 .. DieCount |-> f[n]]
    OBVIOUS
<1>5. IsChain(f, tags)
    BY <1>3, <1>4 DEF IsChain
<1> DEFINE g == CHOOSE g : IsChain(g, tags)
<1>6. IsChain(g, tags)
    BY <1>5
<1>7. \A t \in Dies : LeadsBy(tags, t) = g[DieCount][t]
    BY DEF LeadsBy, IsChain, DieCount, Dies
<1> HIDE DEF g
<1> QED
    BY <1>6, <1>7

\* An object's size is a natural number or unknown.
Sizes == Nat \cup {None}

\* What is made of such a size has such a size.
LEMMA SizeFromIsSize ==
    ASSUME NEW t \in DOMAIN TypeDie, NEW inner \in Sizes
    PROVE  SizeFrom(TypeDie[t], inner) \in Sizes
<1> DEFINE rs == TypeDie[t].subranges
<1> DEFINE elements == Product([i \in DOMAIN rs |-> ElementsIn(rs[i])])
<1> DEFINE R == [count : Nat \cup {None}, upper_bound : Nat \cup {None}]
<1>1. rs \in Seq(R) /\ TypeDie[t].size \in Sizes
    BY TypeDieAssumption DEF Sizes
<1>2. \A r \in R : ElementsIn(r) \in Nat
    BY DEF ElementsIn, None
<1> HIDE DEF R, rs
<1>3. [i \in DOMAIN rs |-> ElementsIn(rs[i])] \in Seq(Nat)
    BY <1>1, <1>2
<1>4. elements \in Nat
    BY <1>3, ProductIsNat
<1> HIDE DEF elements
<1>5. inner # None => elements * inner \in Nat
    <2>1. \A x, y \in Nat : x * y \in Nat
        OBVIOUS
    <2> QED
        BY <1>4, <2>1 DEF Sizes
<1>6. 4 \in Sizes /\ None \in Sizes
    BY DEF Sizes
<1> DEFINE whole == IF inner = None THEN None ELSE elements * inner
<1>7. whole \in Sizes
    BY <1>5, <1>6 DEF Sizes
<1> HIDE DEF whole
<1>8. SizeFrom(TypeDie[t], inner) =
         CASE TypeDie[t].tag = "pointer"      -> 4
           [] TypeDie[t].tag \in Qualifiers  -> inner
           [] TypeDie[t].tag = "array"        -> whole
           [] OTHER                    -> TypeDie[t].size
    BY DEF SizeFrom, rs, elements, whole
<1> QED
    BY <1>1, <1>6, <1>7, <1>8

\* The function that SizeOf is.
IsSizeOf(g) ==
    g = [n \in 0 .. DieCount |->
            [t \in Dies |-> IF t = NoDie THEN None
                            ELSE SizeFrom(TypeDie[t], IF n = 0 THEN None ELSE g[n - 1][TypeDie[t].type])]]

\* It exists, and its values are sizes.
LEMMA SizeOfIs ==
    ASSUME NEW n \in 0 .. DieCount
    PROVE  SizeOf[n] = [t \in Dies |-> IF t = NoDie THEN None
                ELSE SizeFrom(TypeDie[t], IF n = 0 THEN None ELSE SizeOf[n - 1][TypeDie[t].type])]
<1> DEFINE X == [Dies -> Sizes]
<1> DEFINE x == [t \in Dies |-> IF t = NoDie THEN None ELSE SizeFrom(TypeDie[t], None)]
<1> DEFINE F == [h \in X |-> [t \in Dies |-> IF t = NoDie THEN None
                                             ELSE SizeFrom(TypeDie[t], h[TypeDie[t].type])]]
<1>0. \A t \in Dies : t # NoDie => t \in DOMAIN TypeDie /\ TypeDie[t].type \in Dies
    BY TypeDieAssumption DEF Dies
<1>1. x \in X /\ F \in [X -> X]
    <2>1. None \in Sizes
        BY DEF Sizes
    <2>2. x \in X
        BY <1>0, <2>1, SizeFromIsSize
    <2>3. ASSUME NEW h \in X
          PROVE  [t \in Dies |-> IF t = NoDie THEN None ELSE SizeFrom(TypeDie[t], h[TypeDie[t].type])] \in X
        <3>1. ASSUME NEW t \in Dies
              PROVE  (IF t = NoDie THEN None ELSE SizeFrom(TypeDie[t], h[TypeDie[t].type])) \in Sizes
            <4>1. CASE t = NoDie
                BY <2>1, <4>1
            <4>2. CASE t # NoDie
                <5>1. t \in DOMAIN TypeDie /\ h[TypeDie[t].type] \in Sizes
                    BY <1>0, <2>3, <3>1, <4>2
                <5> QED
                    BY <4>2, <5>1, SizeFromIsSize
            <4> QED
                BY <4>1, <4>2
        <3> QED
            BY <3>1
    <2> QED
        BY <2>2, <2>3
<1>2. PICK f \in [0 .. DieCount -> X] : IsIterate(f, F, x, DieCount)
    <2> HIDE DEF X, F, x
    <2> QED
        BY <1>1, DieCountIsNat, IterateExists
<1>3. \A m \in 0 .. DieCount :
         f[m] = [t \in Dies |-> IF t = NoDie THEN None
                    ELSE SizeFrom(TypeDie[t], IF m = 0 THEN None ELSE f[m - 1][TypeDie[t].type])]
    <2> SUFFICES ASSUME NEW m \in 0 .. DieCount
                 PROVE  f[m] = [t \in Dies |-> IF t = NoDie THEN None
                            ELSE SizeFrom(TypeDie[t], IF m = 0 THEN None ELSE f[m - 1][TypeDie[t].type])]
        OBVIOUS
    <2>1. f[m] = IF m = 0 THEN x ELSE F[f[m - 1]]
        BY <1>2 DEF IsIterate
    <2>2. CASE m = 0
        BY <2>1, <2>2
    <2>3. CASE m # 0
        <3>1. f[m - 1] \in X
            BY <2>3, DieCountIsNat
        <3> QED
            BY <2>1, <2>3, <3>1
    <2> QED
        BY <2>2, <2>3
<1>4. f = [m \in 0 .. DieCount |-> f[m]]
    OBVIOUS
<1>5. IsSizeOf(f)
    BY <1>3, <1>4 DEF IsSizeOf
<1> DEFINE g == CHOOSE g : IsSizeOf(g)
<1>6. IsSizeOf(g)
    BY <1>5
<1>7. SizeOf = g
    BY DEF SizeOf, IsSizeOf, DieCount, Dies
<1> HIDE DEF g
<1>8. g = [m \in 0 .. DieCount |->
            [t \in Dies |-> IF t = NoDie THEN None
                            ELSE SizeFrom(TypeDie[t], IF m = 0 THEN None ELSE g[m - 1][TypeDie[t].type])]]
    BY <1>6 DEF IsSizeOf
<1> QED
    BY <1>7, <1>8

\* The size of an object is a natural number or unknown.
LEMMA CSizeIsSize ==
    ASSUME NEW t \in Dies
    PROVE  CSize(t) \in Sizes
<1> DEFINE P(n) == n <= DieCount => \A u \in Dies : SizeOf[n][u] \in Sizes
<1> DEFINE T == { n \in Nat : P(n) }
<1>1. \A u \in DOMAIN TypeDie : TypeDie[u].type \in Dies
    BY TypeDieAssumption DEF Dies
<1>2. None \in Sizes /\ DieCount \in Nat
    BY DieCountIsNat DEF Sizes
<1>3. ASSUME NEW n \in Nat, n <= DieCount,
             n # 0 => \A x \in Dies : SizeOf[n - 1][x] \in Sizes,
             NEW u \in Dies
      PROVE  SizeOf[n][u] \in Sizes
    <2> DEFINE inner == IF n = 0 THEN None ELSE SizeOf[n - 1][TypeDie[u].type]
    <2>1. n \in 0 .. DieCount
        BY <1>2, <1>3
    <2>2. SizeOf[n] = [x \in Dies |-> IF x = NoDie THEN None
                ELSE SizeFrom(TypeDie[x], IF n = 0 THEN None ELSE SizeOf[n - 1][TypeDie[x].type])]
        BY <2>1, SizeOfIs
    <2>3. SizeOf[n][u] = IF u = NoDie THEN None ELSE SizeFrom(TypeDie[u], inner)
        BY <1>3, <2>2
    <2>4. CASE u = NoDie
        BY <1>2, <2>3, <2>4
    <2>5. CASE u # NoDie
        <3>1. u \in DOMAIN TypeDie
            BY <1>3, <2>5 DEF Dies
        <3>2. inner \in Sizes
            BY <1>1, <1>2, <1>3, <3>1
        <3> HIDE DEF inner
        <3>3. SizeFrom(TypeDie[u], inner) \in Sizes
            BY <3>1, <3>2, SizeFromIsSize
        <3> QED
            BY <2>3, <2>5, <3>3
    <2> QED
        BY <2>4, <2>5
<1>4. 0 \in T
    BY <1>2, <1>3
<1>5. ASSUME NEW n \in Nat, n \in T
      PROVE  n + 1 \in T
    <2>1. n + 1 \in Nat /\ n + 1 # 0 /\ (n + 1) - 1 = n
        OBVIOUS
    <2>2. P(n)
        BY <1>5
    <2>3. ASSUME n + 1 <= DieCount
          PROVE  \A u \in Dies : SizeOf[n + 1][u] \in Sizes
        <3>1. \A x \in Dies : SizeOf[n][x] \in Sizes
            BY <1>2, <2>2, <2>3
        <3>2. (n + 1) # 0 => \A x \in Dies : SizeOf[(n + 1) - 1][x] \in Sizes
            BY <2>1, <3>1
        <3> QED
            BY <1>3, <2>1, <2>3, <3>2
    <2> QED
        BY <2>3
<1> HIDE DEF T
<1>6. DieCount \in T
    BY <1>2, <1>4, <1>5, NaturalsIn
<1>7. SizeOf[DieCount][t] \in Sizes
    BY <1>2, <1>6 DEF T
<1> QED
    BY <1>7 DEF CSize, DieCount

-----------------------------------------------------------------------------
\* An array whose dimensions are given by bounds, or by one count.
LEMMA LengthIsElements ==
    ASSUME NEW rs, IsSeq(rs),
           ~ (Len(rs) > 1 /\ \E r \in Range(rs) : r.count # None)
    PROVE  ArrayLength(rs) = Product([i \in DOMAIN rs |-> ElementsIn(rs[i])])
<1> DEFINE counts == { i \in DOMAIN rs : rs[i].count # None }
<1> DEFINE first == IF counts = {} THEN 1 ELSE CHOOSE i \in counts : \A j \in counts : j <= i
<1>1. Len(rs) \in Nat /\ DOMAIN rs = 1 .. Len(rs)
    BY SeqDomain
<1>2. counts = {} \/ counts = {1}
    <2>1. counts # {} => \E r \in Range(rs) : r.count # None
        BY DEF Range
    <2> QED
        BY <1>1, <2>1
<1>3. first = 1
    BY <1>2
<1>4. compute_array_size_from_subranges(rs) = [i \in 1 .. (Len(rs) - first + 1) |-> Dimension(rs[first + i - 1])]
    BY DEF compute_array_size_from_subranges
<1> HIDE DEF first
<1>5. \A i \in 1 .. Len(rs) : 1 + i - 1 = i
    BY <1>1
<1>6. compute_array_size_from_subranges(rs) = [i \in DOMAIN rs |-> Dimension(rs[i])]
    BY <1>1, <1>3, <1>4, <1>5
<1>7. \A r : Dimension(r) = ElementsIn(r)
    BY DEF Dimension, ElementsIn
<1> QED
    BY <1>6, <1>7 DEF ArrayLength

-----------------------------------------------------------------------------
\* Where _extract_type_rec goes on.
Through == Qualifiers \cup {"pointer", "array"}
\* A type has a range when it is resolved at a frame.
Resolves(used, t) == Resolve[used][t].range # Raises

\* The range of a type, and what it needs one level down.
LEMMA ResolvedRange ==
    ASSUME NEW used \in 0 .. RecursionLimit, NEW t \in Dies, Resolves(used, t)
    PROVE  LET die == TypeDie[t]
               range == Resolve[used][t].range
               inner == Resolve[used + 1][die.type].range
           IN /\ t \in DOMAIN TypeDie /\ used + 1 \in 0 .. RecursionLimit
              /\ die.tag \in Through => die.type \in Dies /\ Resolves(used + 1, die.type)
              /\ die.tag \in Qualifiers => range = inner
              /\ die.tag = "array" => inner # None /\ range = ArrayLength(die.subranges) * inner
              /\ die.tag \notin Through =>
                    range = IF die.tag = "structure" /\ die.name = "" THEN None ELSE die.size
<1> DEFINE die == TypeDie[t]
<1> DEFINE at == Resolve[used + 1]
<1> DEFINE inner == at[die.type]
<1> DEFINE range == Resolve[used][t].range
<1>0. Raised.range = Raises /\ NoType.range = Raises /\ Raised.class = "Raised" /\ None # Raises
    BY DEF Raised, NoType, Type, None, Raises
<1>1. Resolve[used][t] = IF t = NoDie \/ used = RecursionLimit THEN Raised ELSE ResolvedDie(die, at)
    BY ResolveIs DEF Layer
<1>2. t # NoDie /\ used # RecursionLimit
    BY <1>0, <1>1 DEF Resolves
<1>3. t \in DOMAIN TypeDie /\ used + 1 \in 0 .. RecursionLimit /\ die.type \in Dies
    BY <1>2, TypeDieAssumption, RecursionLimitAssumption DEF Dies
<1>4. Resolve[used][t] = ResolvedDie(die, at) /\ range # Raises
    BY <1>1, <1>2 DEF Resolves
<1>5. die.size \in Nat \cup {None}
    BY <1>3, TypeDieAssumption
<1> HIDE DEF at, die
<1>6. \A class, x : Wrapped(class, x).range = x.range
    BY DEF Wrapped, Type
<1>11. \A class, size, members : Aggregate(class, size, members).range = size
    BY DEF Aggregate, Type
<1>7. CASE die.tag = "array"
    <2>1. Resolve[used][t] = ArrayType(die.subranges, inner)
        BY <1>4, <1>7 DEF ResolvedDie
    <2>2. HasBounds(die.subranges) /\ inner.class # "Raised"
        BY <1>0, <1>4, <2>1 DEF ArrayType
    <2>3. range = ArrayRange(ArrayLength(die.subranges), inner)
        BY <2>1, <2>2 DEF ArrayType, Wrapped, Type
    <2>4. inner.range \notin {None, Raises} /\ range = ArrayLength(die.subranges) * inner.range
        BY <1>4, <2>3 DEF ArrayRange
    <2> QED
        BY <1>3, <1>7, <2>4 DEF Resolves, Through, Qualifiers, at, die
<1>8. CASE die.tag = "pointer"
    <2>1. Resolve[used][t] = PointerType(inner)
        BY <1>4, <1>8 DEF ResolvedDie
    <2>2. range = inner.range
        BY <1>0, <1>4, <1>6, <2>1 DEF PointerType
    <2> QED
        BY <1>3, <1>4, <1>8, <2>2 DEF Resolves, Through, Qualifiers, at, die
<1>9. CASE die.tag \in Qualifiers
    <2>1. PICK class : Resolve[used][t] = WrappedOrBare(class, inner)
        BY <1>4, <1>9 DEF ResolvedDie, Qualifiers
    <2>2. range = inner.range
        BY <1>0, <1>4, <1>6, <2>1 DEF WrappedOrBare
    <2> QED
        BY <1>3, <1>4, <1>9, <2>2 DEF Resolves, Through, Qualifiers, at, die
<1>10. CASE die.tag \notin Through
    <2>1. CASE die.tag = "base"
        <3>1. Resolve[used][t] = BaseType(die)
            BY <1>4, <2>1 DEF ResolvedDie
        <3>2. range = die.size
            BY <3>1 DEF BaseType, Type
        <3> QED
            BY <1>3, <1>10, <2>1, <3>2 DEF Through, Qualifiers, die
    <2>2. CASE die.tag = "structure"
        <3>1. Resolve[used][t] = StructType(die, Members(die, at))
            BY <1>4, <2>2 DEF ResolvedDie
        <3>2. range = IF die.name = "" THEN None ELSE die.size
            <4>1. CASE die.name = "" \/ die.size = None
                <5>1. Resolve[used][t] = Aggregate("StructType", None, << >>)
                    BY <3>1, <4>1 DEF StructType, EmptyStruct
                <5>2. range = None
                    BY <1>11, <5>1
                <5> QED
                    BY <4>1, <5>2
            <4>2. CASE die.name # "" /\ die.size # None
                <5>1. Resolve[used][t] = Aggregate("StructType", die.size, Members(die, at))
                    BY <3>1, <4>2 DEF StructType
                <5>2. range = die.size
                    BY <1>11, <5>1
                <5> QED
                    BY <4>2, <5>2
            <4> QED
                BY <4>1, <4>2
        <3> QED
            BY <1>3, <1>10, <2>2, <3>2 DEF Through, Qualifiers, die
    <2>3. CASE die.tag = "union"
        <3>1. Resolve[used][t] = UnionType(die, Members(die, at))
            BY <1>4, <2>3 DEF ResolvedDie
        <3>2. range = die.size
            BY <1>11, <3>1 DEF UnionType, EmptyStruct
        <3> QED
            BY <1>3, <1>10, <2>3, <3>2 DEF Through, Qualifiers, die
    <2>4. CASE die.tag \notin {"base", "structure", "union"}
        <3>1. Resolve[used][t] = NoType
            BY <1>4, <1>10, <2>4 DEF ResolvedDie, Through, Qualifiers
        <3> QED
            BY <1>0, <1>4, <3>1
    <2> QED
        BY <2>1, <2>2, <2>3, <2>4
<1> QED
    BY <1>7, <1>8, <1>9, <1>10 DEF Through

\* A pointer on the way,
PointerIn(leads) == "pointer" \in { TypeDie[u].tag : u \in leads \ {NoDie} }
\* Several dimensions, some of them counted,
CountsIn(leads) ==
    \E u \in leads \ {NoDie} :
        Len(TypeDie[u].subranges) > 1 /\ \E r \in Range(TypeDie[u].subranges) : r.count # None
\* a struct without a name,
NamelessIn(leads) ==
    \E u \in leads \ {NoDie} : TypeDie[u].tag = "structure" /\ TypeDie[u].name = ""
\* and what RangesRight says of a range.
RangeFits(range, leads, size) ==
    PointerIn(leads) \/ CountsIn(leads) \/ range = IF NamelessIn(leads) THEN None ELSE size

\* From the type a type is made from to the type itself.
LEMMA RangeFitsOn ==
    ASSUME NEW t \in DOMAIN TypeDie, TypeDie[t].tag \in Through, NEW leads, NEW inner, NEW size,
           NEW range,
           RangeFits(inner, leads, size),
           TypeDie[t].tag \in Qualifiers => range = inner,
           TypeDie[t].tag = "array" =>
               inner # None /\ range = ArrayLength(TypeDie[t].subranges) * inner
    PROVE  RangeFits(range, {t} \cup leads, SizeFrom(TypeDie[t], size))
<1> DEFINE die == TypeDie[t]
<1> DEFINE all == {t} \cup leads
<1>0. t \in all \ {NoDie}
    BY TypeDieAssumption
<1>1. (die.tag # "structure" /\ die.tag # "pointer") \/ die.tag = "pointer"
    BY DEF Through, Qualifiers
<1>2. (PointerIn(leads) => PointerIn(all)) /\ (CountsIn(leads) => CountsIn(all))
    BY DEF PointerIn, CountsIn
<1>3. CASE die.tag = "pointer"
    BY <1>0, <1>3 DEF PointerIn, RangeFits
<1>4. CASE die.tag \in Qualifiers
    <2>1. NamelessIn(all) <=> NamelessIn(leads)
        BY <1>4, TypeDieAssumption DEF NamelessIn, Qualifiers
    <2>2. SizeFrom(die, size) = size
        BY <1>4 DEF SizeFrom, Qualifiers
    <2> QED
        BY <1>2, <1>4, <2>1, <2>2 DEF RangeFits
<1>5. CASE die.tag = "array"
    <2>1. NamelessIn(all) <=> NamelessIn(leads)
        BY <1>5, TypeDieAssumption DEF NamelessIn
    <2>2. SUFFICES ASSUME ~ PointerIn(all), ~ CountsIn(all)
                   PROVE  range = IF NamelessIn(all) THEN None ELSE SizeFrom(die, size)
        BY DEF RangeFits
    <2>3. inner = IF NamelessIn(leads) THEN None ELSE size
        BY <1>2, <2>2 DEF RangeFits
    <2>4. ~ NamelessIn(leads) /\ inner = size /\ size # None
        BY <1>5, <2>3
    <2>5. IsSeq(die.subranges) /\ ~ (Len(die.subranges) > 1 /\ \E r \in Range(die.subranges) : r.count # None)
        BY <1>0, <2>2, TypeDieAssumption DEF CountsIn, IsSeq
    <2>6. ArrayLength(die.subranges) = Product([i \in DOMAIN die.subranges |-> ElementsIn(die.subranges[i])])
        BY <2>5, LengthIsElements
    <2>7. SizeFrom(die, size) = ArrayLength(die.subranges) * size
        BY <1>5, <2>4, <2>6 DEF SizeFrom, Qualifiers
    <2> QED
        BY <1>5, <2>1, <2>4, <2>7
<1> QED
    BY <1>3, <1>4, <1>5 DEF Through

\* The most frames in use with which a type is resolved.
Highest(t, used) ==
    /\ used \in 0 .. RecursionLimit /\ Resolves(used, t)
    /\ \A v \in 0 .. RecursionLimit : Resolves(v, t) => v <= used

\* The types that are resolved at that frame or a later one.
Deeper(used) == { x \in DOMAIN TypeDie : \E v \in 0 .. RecursionLimit : v >= used /\ Resolves(v, x) }

\* A type that is resolved at all has a last such frame.
LEMMA HighestExists ==
    ASSUME NEW t, NEW used \in 0 .. RecursionLimit, Resolves(used, t)
    PROVE  \E h : Highest(t, h)
<1> DEFINE T == { v \in 1 .. (RecursionLimit + 1) : Resolves(v - 1, t) }
<1>1. used + 1 \in T
    <2>1. used + 1 \in 1 .. (RecursionLimit + 1) /\ (used + 1) - 1 = used
        BY RecursionLimitAssumption
    <2> QED
        BY <2>1
<1>2. PICK h \in T : \A j \in T : j <= h
    <2>1. T \subseteq 1 .. (RecursionLimit + 1)
        OBVIOUS
    <2>2. RecursionLimit + 1 \in Nat
        BY RecursionLimitAssumption
    <2> HIDE DEF T
    <2>3. T # {}
        BY <1>1
    <2> QED
        BY <2>1, <2>2, <2>3, LargestOf
<1>3. h - 1 \in 0 .. RecursionLimit /\ Resolves(h - 1, t)
    BY <1>2, RecursionLimitAssumption
<1>4. ASSUME NEW v \in 0 .. RecursionLimit, Resolves(v, t) PROVE v <= h - 1
    <2>1. v + 1 \in 1 .. (RecursionLimit + 1) /\ (v + 1) - 1 = v
        BY RecursionLimitAssumption
    <2>2. v + 1 \in T
        BY <1>4, <2>1
    <2>3. v + 1 <= h
        BY <1>2, <2>2
    <2> QED
        BY <1>2, <2>3, RecursionLimitAssumption
<1> QED
    BY <1>3, <1>4 DEF Highest

\* As many steps as there are types resolved with as many frames are enough.
FitsAt(g, m) ==
    \A t \in Dies : \A used \in 0 .. RecursionLimit :
        Highest(t, used) /\ Cardinality(Deeper(used)) <= m =>
            \A n \in m .. DieCount : \A v \in 0 .. RecursionLimit :
                Resolves(v, t) => RangeFits(Resolve[v][t].range, g[n][t], SizeOf[n][t])

\* They are among the types.
LEMMA DeeperIsFinite ==
    ASSUME NEW used
    PROVE  IsFiniteSet(Deeper(used)) /\ Cardinality(Deeper(used)) \in Nat
           /\ Cardinality(Deeper(used)) <= DieCount
<1>1. Deeper(used) \subseteq DOMAIN TypeDie
    BY DEF Deeper
<1>2. IsFiniteSet(Deeper(used)) /\ Cardinality(Deeper(used)) <= Cardinality(DOMAIN TypeDie)
    BY <1>1, TypeDieAssumption, FS_Subset
<1> QED
    BY <1>2, FS_CardinalityType DEF DieCount

\* Nothing is resolved when there are no such types.
LEMMA FitsStart ==
    ASSUME NEW g
    PROVE  FitsAt(g, 0)
<1> SUFFICES ASSUME NEW t \in Dies, NEW used \in 0 .. RecursionLimit,
                    Highest(t, used), Cardinality(Deeper(used)) <= 0
             PROVE  FALSE
    BY DEF FitsAt
<1>1. t \in DOMAIN TypeDie
    BY ResolvedRange DEF Highest
<1>2. t \in Deeper(used)
    BY <1>1, RecursionLimitAssumption DEF Deeper, Highest
<1>3. Cardinality(Deeper(used)) = 0
    BY DeeperIsFinite
<1> QED
    BY <1>2, <1>3, DeeperIsFinite, FS_EmptySet

\* A type at its last frame asks types with later ones, of which there are fewer:
\* a cycle of types would have to be resolved at a frame after the last.
LEMMA FitsStep ==
    ASSUME NEW g, IsChain(g, Through), NEW m \in Nat, FitsAt(g, m)
    PROVE  FitsAt(g, m + 1)
<1> SUFFICES ASSUME NEW t \in Dies, NEW used \in 0 .. RecursionLimit,
                    Highest(t, used), Cardinality(Deeper(used)) <= m + 1,
                    NEW n \in (m + 1) .. DieCount, NEW v \in 0 .. RecursionLimit, Resolves(v, t)
             PROVE  RangeFits(Resolve[v][t].range, g[n][t], SizeOf[n][t])
    BY DEF FitsAt
<1> DEFINE die == TypeDie[t]
<1> DEFINE range == Resolve[v][t].range
<1> DEFINE inner == Resolve[v + 1][die.type].range
<1>0. DieCount \in Nat
    BY DieCountIsNat
<1>1. /\ t \in DOMAIN TypeDie /\ v + 1 \in 0 .. RecursionLimit
      /\ die.tag \in Through => die.type \in Dies /\ Resolves(v + 1, die.type)
      /\ die.tag \in Qualifiers => range = inner
      /\ die.tag = "array" => inner # None /\ range = ArrayLength(die.subranges) * inner
      /\ die.tag \notin Through =>
            range = IF die.tag = "structure" /\ die.name = "" THEN None ELSE die.size
    BY ResolvedRange
<1>2. t # NoDie
    BY <1>1, TypeDieAssumption
<1>3. n \in 0 .. DieCount /\ n - 1 \in m .. DieCount /\ n # 0 /\ n - 1 \in 0 .. DieCount
    BY <1>0
<1>4. g[n] = [u \in Dies |-> IF n = 0 \/ ~ Goes(Through, u) THEN {u}
                             ELSE {u} \cup g[n - 1][TypeDie[u].type]]
    BY <1>3 DEF IsChain
<1>5. SizeOf[n][t] = SizeFrom(die, SizeOf[n - 1][die.type])
    <2>1. SizeOf[n] = [u \in Dies |-> IF u = NoDie THEN None
                ELSE SizeFrom(TypeDie[u], IF n = 0 THEN None ELSE SizeOf[n - 1][TypeDie[u].type])]
        BY <1>3, SizeOfIs
    <2> QED
        BY <2>1, <1>2, <1>3
<1>6. CASE die.tag \in Through
    <2>1. g[n][t] = {t} \cup g[n - 1][die.type]
        BY <1>2, <1>3, <1>4, <1>6 DEF Goes
    <2>2. PICK next : Highest(die.type, next)
        BY <1>1, <1>6, HighestExists
    <2>3. next \in 0 .. RecursionLimit /\ next >= used + 1
        <3>1. used + 1 \in 0 .. RecursionLimit /\ Resolves(used + 1, die.type)
            BY <1>6, ResolvedRange DEF Highest
        <3> QED
            BY <2>2, <3>1 DEF Highest
    <2>4. Deeper(next) \subseteq Deeper(used)
        BY <2>3, RecursionLimitAssumption DEF Deeper
    <2>5. t \in Deeper(used)
        BY <1>1, RecursionLimitAssumption DEF Deeper, Highest
    <2>6. t \notin Deeper(next)
        <3> SUFFICES ASSUME NEW w \in 0 .. RecursionLimit, w >= next, Resolves(w, t)
                     PROVE  FALSE
            BY DEF Deeper
        <3>1. w <= used
            BY DEF Highest
        <3> QED
            BY <2>3, <3>1, RecursionLimitAssumption
    <2>7. Cardinality(Deeper(next)) <= m
        <3>1. Deeper(next) # Deeper(used)
            BY <2>5, <2>6
        <3>2. Cardinality(Deeper(next)) < Cardinality(Deeper(used))
            BY <2>4, <3>1, DeeperIsFinite, FS_Subset
        <3> QED
            BY <3>2, DeeperIsFinite
    <2>8. RangeFits(inner, g[n - 1][die.type], SizeOf[n - 1][die.type])
        BY <1>1, <1>3, <1>6, <2>2, <2>3, <2>7 DEF FitsAt
    <2> HIDE DEF range, inner
    <2>9. RangeFits(range, {t} \cup g[n - 1][die.type], SizeFrom(die, SizeOf[n - 1][die.type]))
        BY <1>1, <1>6, <2>8, RangeFitsOn
    <2> QED
        BY <1>5, <2>1, <2>9 DEF range
<1>7. CASE die.tag \notin Through
    <2>1. g[n][t] = {t}
        BY <1>4, <1>7 DEF Goes
    <2>2. NamelessIn({t}) <=> die.tag = "structure" /\ die.name = ""
        BY <1>2 DEF NamelessIn
    <2>3. SizeOf[n][t] = die.size
        BY <1>5, <1>7 DEF SizeFrom, Through
    <2> QED
        BY <1>1, <1>7, <2>1, <2>2, <2>3 DEF RangeFits
<1> QED
    BY <1>6, <1>7

\* The range of a resolved type is the size of the object, or None, unless a
\* pointer or several counted dimensions are on the way.
LEMMA RangeIsSize ==
    ASSUME NEW t \in Dies, extract_type_rec(t).range # Raises
    PROVE  RangeFits(extract_type_rec(t).range, Leads(t), CSize(t))
<1>1. PICK g : IsChain(g, Through) /\ \A u \in Dies : LeadsBy(Through, u) = g[DieCount][u]
    BY ChainExists
<1> DEFINE T == { m \in Nat : FitsAt(g, m) }
<1>2. 0 \in T
    BY FitsStart
<1>3. ASSUME NEW m \in Nat, m \in T PROVE m + 1 \in T
    BY <1>1, <1>3, FitsStep
<1> HIDE DEF T
<1>4. FitsAt(g, DieCount)
    BY <1>2, <1>3, NaturalsIn, DieCountIsNat DEF T
<1>5. 0 \in 0 .. RecursionLimit /\ Resolves(0, t)
    BY RecursionLimitAssumption DEF Resolves, extract_type_rec
<1>6. PICK h : Highest(t, h)
    BY <1>5, HighestExists
<1>7. h \in 0 .. RecursionLimit /\ Cardinality(Deeper(h)) <= DieCount /\ DieCount \in DieCount .. DieCount
    BY <1>6, DeeperIsFinite, DieCountIsNat DEF Highest
<1>8. RangeFits(Resolve[0][t].range, g[DieCount][t], SizeOf[DieCount][t])
    BY <1>4, <1>5, <1>6, <1>7 DEF FitsAt
<1> QED
    BY <1>1, <1>8 DEF extract_type_rec, Leads, CSize, DieCount, Through

-----------------------------------------------------------------------------
(***************************************************************************)
(* The walk.                                                               *)
(***************************************************************************)

\* What IsBinary says of a function and of a global variable.
IsFunctionDie(d) ==
    /\ d.type \in DOMAIN TypeDie \cup {NoDie}
    /\ d.low_pc \in Nat \cup {NoAddress}
    /\ d.high_pc \in Nat
IsVariableDie(d) ==
    /\ d.type \in DOMAIN TypeDie \cup {NoDie}
    /\ d.location \in Nat \cup {NoAddress}

\* The DIEs of the units before u and those before child k of unit u.
UnitDies(b, u) == IF b.units[u].file = SourceFile THEN b.units[u].children ELSE << >>
DoneUnits(b, n) == [u \in 1 .. n |-> UnitDies(b, u)]
DoneDies(b, u, k) == [i \in 1 .. (k - 1) |-> b.units[u].children[i]]
SoFar(b, u, k) == AllElements(DoneUnits(b, u - 1), DoneDies(b, u, k))

\* The definition that add_subprogram leaves of a name is the last one.
LastNamed(F, j) == \A k \in 1 .. Len(F) : k > j => F[k].name # F[j].name

\* The subprogram made of a DIE, its frame bases apart.
SubprogramOf(s, f) ==
    /\ {"name", "low_pc", "high_pc", "type"} \subseteq DOMAIN s
    /\ s.name = f.name /\ s.low_pc = f.low_pc
    /\ s.high_pc = get_low_and_high_pc(f)[2]
    /\ s.type = IF f.type = NoDie THEN NoType ELSE extract_type_rec(f.type)
\* Every subprogram is of the last definition of its name, and every such
\* definition has one.
FunctionsDescribed(subs, F) ==
    /\ IsSeq(subs) /\ IsSeq(F)
    /\ \A j \in 1 .. Len(F) : IsFunctionDie(F[j]) /\ F[j].low_pc # NoAddress
    /\ \A i \in 1 .. Len(subs) : \E j \in 1 .. Len(F) :
          LastNamed(F, j) /\ SubprogramOf(subs[i], F[j])
    /\ \A j \in 1 .. Len(F) : LastNamed(F, j) =>
          \E i \in 1 .. Len(subs) : SubprogramOf(subs[i], F[j])
\* The variables are those of the DIEs, in their order.
VariablesDescribed(globals, V) ==
    /\ globals = Kept(V) /\ IsSeq(V)
    /\ \A j \in 1 .. Len(V) : IsVariableDie(V[j])

\* What a DwarfInfo says is what the DIEs say.
InfoFields == {"march", "subprograms", "globals"}
IsInfo(d) == d = [f \in InfoFields |-> d[f]] /\ IsSeq(d.globals)
IsDescribed(info, dies) ==
    /\ IsInfo(info) /\ IsSeq(dies)
    /\ FunctionsDescribed(info.subprograms, FunctionsAmong(dies))
    /\ VariablesDescribed(info.globals, VariablesAmong(dies))

\* The inductive invariant of the walk.
WalkInv ==
    /\ IsBinary(binary)
    /\ IsInfo(dwarf_info)
    /\ extraction = "walking" =>
          /\ unit \in 1 .. (Len(binary.units) + 1) /\ child \in Nat
          /\ child # 0 => /\ unit <= Len(binary.units)
                          /\ Unit.file = SourceFile
                          /\ child <= Len(Unit.children) + 1
          /\ IsDescribed(dwarf_info, SoFar(binary, unit, child))
    /\ extraction = "extracted" => IsDescribed(dwarf_info, WalkedDies(binary))

\* What a condition selects of a sequence, before it is flattened.
SelectOf(P, s) == [i \in DOMAIN s |-> IF P[i] THEN <<s[i]>> ELSE << >>]

\* One element more is one selected element more, or none.
LEMMA SelectGrows ==
    ASSUME NEW s, IsSeq(s), NEW e, NEW P, NEW Q,
           \A i \in 1 .. Len(s) : P[i] = Q[i]
    PROVE  /\ IsSeq(FlattenSeq(SelectOf(P, s)))
           /\ FlattenSeq(SelectOf(Q, Append(s, e))) =
                 IF Q[Len(s) + 1] THEN Append(FlattenSeq(SelectOf(P, s)), e)
                 ELSE FlattenSeq(SelectOf(P, s))
<1>1. PICK S : s \in Seq(S)
    BY DEF IsSeq
<1> DEFINE U == S \cup {e}
<1>2. s \in Seq(U) /\ e \in U /\ Len(s) \in Nat /\ DOMAIN s = 1 .. Len(s)
    BY <1>1
<1>3. \A i \in 1 .. Len(s) : s[i] \in U
    BY <1>2
<1> HIDE DEF U
<1>4. \A x \in U : <<x>> \in Seq(U)
    OBVIOUS
<1>5. << >> \in Seq(U)
    OBVIOUS
<1> DEFINE last == IF Q[Len(s) + 1] THEN <<e>> ELSE << >>
<1>6. last \in Seq(U)
    BY <1>2, <1>4, <1>5
<1>7. SelectOf(P, s) \in [1 .. Len(s) -> Seq(U)]
    BY <1>2, <1>3, <1>4, <1>5 DEF SelectOf
<1>8. SelectOf(P, s) \in Seq(Seq(U)) /\ Len(SelectOf(P, s)) = Len(s)
    BY <1>2, <1>7, SeqDef, LenProperties
<1>9. /\ Append(s, e) \in Seq(U) /\ Len(Append(s, e)) = Len(s) + 1
      /\ DOMAIN Append(s, e) = 1 .. Len(s) + 1
      /\ Append(s, e)[Len(s) + 1] = e
      /\ \A i \in 1 .. Len(s) : Append(s, e)[i] = s[i]
    BY <1>2, AppendProperties
<1>10. /\ Append(SelectOf(P, s), last) \in Seq(Seq(U))
       /\ DOMAIN Append(SelectOf(P, s), last) = 1 .. Len(s) + 1
       /\ Append(SelectOf(P, s), last)[Len(s) + 1] = last
       /\ \A i \in 1 .. Len(s) : Append(SelectOf(P, s), last)[i] = SelectOf(P, s)[i]
    <2> HIDE DEF last
    <2> QED
        BY <1>6, <1>8, <1>2, AppendProperties
<1>11. SelectOf(Q, Append(s, e)) = Append(SelectOf(P, s), last)
    <2>1. \A i \in 1 .. Len(s) + 1 :
             SelectOf(Q, Append(s, e))[i] = Append(SelectOf(P, s), last)[i]
        <3> SUFFICES ASSUME NEW i \in 1 .. Len(s) + 1
                     PROVE  SelectOf(Q, Append(s, e))[i] = Append(SelectOf(P, s), last)[i]
            OBVIOUS
        <3>1. CASE i = Len(s) + 1
            BY <1>9, <1>10, <3>1 DEF SelectOf
        <3>2. CASE i # Len(s) + 1
            <4>1. i \in 1 .. Len(s)
                BY <1>2, <3>2
            <4>2. SelectOf(Q, Append(s, e))[i] = IF P[i] THEN <<s[i]>> ELSE << >>
                BY <1>9, <4>1 DEF SelectOf
            <4>3. SelectOf(P, s)[i] = IF P[i] THEN <<s[i]>> ELSE << >>
                BY <1>2, <4>1 DEF SelectOf
            <4> QED
                BY <1>10, <4>1, <4>2, <4>3
        <3> QED
            BY <3>1, <3>2
    <2>2. SelectOf(Q, Append(s, e)) = [i \in 1 .. Len(s) + 1 |-> SelectOf(Q, Append(s, e))[i]]
        BY <1>9 DEF SelectOf
    <2>3. Append(SelectOf(P, s), last) = [i \in 1 .. Len(s) + 1 |-> Append(SelectOf(P, s), last)[i]]
        <3> HIDE DEF last
        <3>1. IsSeq(Append(SelectOf(P, s), last))
            BY <1>10 DEF IsSeq
        <3> QED
            BY <3>1, <1>10, SeqDomain
    <2> HIDE DEF last
    <2> QED
        BY <2>1, <2>2, <2>3
<1>12. /\ FlattenSeq(SelectOf(P, s)) \in Seq(U)
       /\ FlattenSeq(Append(SelectOf(P, s), last)) = FlattenSeq(SelectOf(P, s)) \o last
    <2> HIDE DEF last
    <2> QED
        BY <1>6, <1>8, FlattenAppend
<1>13. IsSeq(FlattenSeq(SelectOf(P, s)))
    BY <1>12 DEF IsSeq
<1>14. CASE Q[Len(s) + 1]
    <2>1. FlattenSeq(SelectOf(P, s)) \o <<e>> = Append(FlattenSeq(SelectOf(P, s)), e)
        BY <1>2, <1>12
    <2> QED
        BY <1>11, <1>12, <1>13, <1>14, <2>1
<1>15. CASE ~ Q[Len(s) + 1]
    <2>1. FlattenSeq(SelectOf(P, s)) \o << >> = FlattenSeq(SelectOf(P, s))
        BY <1>12
    <2> QED
        BY <1>11, <1>12, <1>13, <1>15, <2>1
<1> QED
    BY <1>14, <1>15

\* One DIE more is one function more, or none,
LEMMA FunctionsGrow ==
    ASSUME NEW dies, IsSeq(dies), NEW d
    PROVE  /\ IsSeq(FunctionsAmong(dies))
           /\ FunctionsAmong(Append(dies, d)) =
                 IF d.tag = "subprogram" /\ d.decl_file = 1 THEN Append(FunctionsAmong(dies), d)
                 ELSE FunctionsAmong(dies)
<1> DEFINE more == Append(dies, d)
           P == [i \in DOMAIN dies |-> dies[i].tag = "subprogram" /\ dies[i].decl_file = 1]
           Q == [i \in DOMAIN more |-> more[i].tag = "subprogram" /\ more[i].decl_file = 1]
<1>1. /\ Len(dies) \in Nat /\ DOMAIN dies = 1 .. Len(dies)
      /\ IsSeq(Append(dies, d)) /\ Len(Append(dies, d)) = Len(dies) + 1
      /\ Append(dies, d)[Len(dies) + 1] = d
      /\ \A i \in 1 .. Len(dies) : Append(dies, d)[i] = dies[i]
    BY SeqDomain, AppendIsSeq
<1>2. DOMAIN Append(dies, d) = 1 .. Len(dies) + 1
    BY <1>1, SeqDomain
<1>3. \A i \in 1 .. Len(dies) : P[i] = Q[i]
    BY <1>1, <1>2
<1>4. Q[Len(dies) + 1] = (d.tag = "subprogram" /\ d.decl_file = 1)
    BY <1>1, <1>2
<1>5. FunctionsAmong(dies) = FlattenSeq(SelectOf(P, dies))
    BY DEF FunctionsAmong, SelectOf
<1>6. FunctionsAmong(Append(dies, d)) = FlattenSeq(SelectOf(Q, Append(dies, d)))
    BY DEF FunctionsAmong, SelectOf
<1>7. more = Append(dies, d)
    OBVIOUS
<1> HIDE DEF P, Q, more
<1>8. /\ IsSeq(FlattenSeq(SelectOf(P, dies)))
      /\ FlattenSeq(SelectOf(Q, Append(dies, d))) =
            IF Q[Len(dies) + 1] THEN Append(FlattenSeq(SelectOf(P, dies)), d)
            ELSE FlattenSeq(SelectOf(P, dies))
    BY <1>3, SelectGrows
<1> QED
    BY <1>4, <1>5, <1>6, <1>7, <1>8

\* and one variable more, or none.
LEMMA VariablesGrow ==
    ASSUME NEW dies, IsSeq(dies), NEW d
    PROVE  /\ IsSeq(VariablesAmong(dies))
           /\ VariablesAmong(Append(dies, d)) =
                 IF d.tag = "variable" THEN Append(VariablesAmong(dies), d)
                 ELSE VariablesAmong(dies)
<1> DEFINE more == Append(dies, d)
           P == [i \in DOMAIN dies |-> dies[i].tag = "variable"]
           Q == [i \in DOMAIN more |-> more[i].tag = "variable"]
<1>1. /\ Len(dies) \in Nat /\ DOMAIN dies = 1 .. Len(dies)
      /\ IsSeq(Append(dies, d)) /\ Len(Append(dies, d)) = Len(dies) + 1
      /\ Append(dies, d)[Len(dies) + 1] = d
      /\ \A i \in 1 .. Len(dies) : Append(dies, d)[i] = dies[i]
    BY SeqDomain, AppendIsSeq
<1>2. DOMAIN Append(dies, d) = 1 .. Len(dies) + 1
    BY <1>1, SeqDomain
<1>3. \A i \in 1 .. Len(dies) : P[i] = Q[i]
    BY <1>1, <1>2
<1>4. Q[Len(dies) + 1] = (d.tag = "variable")
    BY <1>1, <1>2
<1>5. VariablesAmong(dies) = FlattenSeq(SelectOf(P, dies))
    BY DEF VariablesAmong, SelectOf
<1>6. VariablesAmong(Append(dies, d)) = FlattenSeq(SelectOf(Q, Append(dies, d)))
    BY DEF VariablesAmong, SelectOf
<1>7. more = Append(dies, d)
    OBVIOUS
<1> HIDE DEF P, Q, more
<1>8. /\ IsSeq(FlattenSeq(SelectOf(P, dies)))
      /\ FlattenSeq(SelectOf(Q, Append(dies, d))) =
            IF Q[Len(dies) + 1] THEN Append(FlattenSeq(SelectOf(P, dies)), d)
            ELSE FlattenSeq(SelectOf(P, dies))
    BY <1>3, SelectGrows
<1> QED
    BY <1>4, <1>5, <1>6, <1>7, <1>8

\* The DIEs of a binary are sequences of sequences.
LEMMA BinaryHas ==
    ASSUME NEW b, IsBinary(b)
    PROVE  /\ IsSeq(b.units) /\ Len(b.units) \in Nat /\ DOMAIN b.units = 1 .. Len(b.units)
           /\ \A u \in 1 .. Len(b.units) :
                 /\ b.units[u] \in Range(b.units)
                 /\ IsSeq(b.units[u].children) /\ Len(b.units[u].children) \in Nat
                 /\ DOMAIN b.units[u].children = 1 .. Len(b.units[u].children)
           /\ \A n \in 0 .. Len(b.units) : IsCollection(DoneUnits(b, n)) /\ Len(DoneUnits(b, n)) = n
<1>1. IsSeq(b.units) /\ \A u \in Range(b.units) : IsSeq(u.children)
    BY DEF IsBinary, IsSequence, IsSeq
<1>2. Len(b.units) \in Nat /\ DOMAIN b.units = 1 .. Len(b.units)
    BY <1>1, SeqDomain
<1>3. ASSUME NEW u \in 1 .. Len(b.units)
      PROVE  /\ b.units[u] \in Range(b.units)
             /\ IsSeq(b.units[u].children) /\ Len(b.units[u].children) \in Nat
             /\ DOMAIN b.units[u].children = 1 .. Len(b.units[u].children)
    <2>1. b.units[u] \in Range(b.units)
        BY <1>2, <1>3 DEF Range
    <2> QED
        BY <1>1, <2>1, SeqDomain
<1>4. ASSUME NEW n \in 0 .. Len(b.units)
      PROVE  IsCollection(DoneUnits(b, n)) /\ Len(DoneUnits(b, n)) = n
    <2> DEFINE S == { UnitDies(b, u) : u \in 1 .. n }
    <2>1. n \in Nat /\ DoneUnits(b, n) \in [1 .. n -> S]
        BY <1>2, <1>4 DEF DoneUnits
    <2>2. DoneUnits(b, n) \in Seq(S) /\ Len(DoneUnits(b, n)) = n
        <3> HIDE DEF S
        <3> QED
            BY <2>1, SeqDef, LenProperties
    <2>3. ASSUME NEW u \in 1 .. n
          PROVE  IsSeq(DoneUnits(b, n)[u])
        <3>1. u \in 1 .. Len(b.units)
            BY <1>2, <1>4, <2>3
        <3> QED
            BY <1>3, <2>3, <3>1, EmptyIsSeq DEF DoneUnits, UnitDies
    <2> QED
        BY <2>2, <2>3 DEF IsCollection, IsSeq
<1> QED
    BY <1>1, <1>2, <1>3, <1>4

\* The first elements of a sequence, and one more.
LEMMA FirstGrow ==
    ASSUME NEW s, IsSeq(s), NEW n \in 0 .. Len(s)
    PROVE  /\ IsSeq([i \in 1 .. n |-> s[i]])
           /\ n = 0 => [i \in 1 .. n |-> s[i]] = << >>
           /\ n = Len(s) => [i \in 1 .. n |-> s[i]] = s
           /\ n + 1 <= Len(s) => [i \in 1 .. n + 1 |-> s[i]] = Append([i \in 1 .. n |-> s[i]], s[n + 1])
<1>1. Len(s) \in Nat /\ s = [i \in 1 .. Len(s) |-> s[i]] /\ n \in Nat /\ DOMAIN s = 1 .. Len(s)
    BY SeqDomain
<1> DEFINE f == [i \in 1 .. n |-> s[i]]
<1>2. PICK S : s \in Seq(S)
    BY DEF IsSeq
<1>3. f \in [1 .. n -> S]
    BY <1>1, <1>2
<1>4. f \in Seq(S) /\ Len(f) = n
    <2> HIDE DEF f
    <2> QED
        BY <1>1, <1>3, SeqDef, LenProperties
<1>5. ASSUME n = 0 PROVE f = << >>
    <2> HIDE DEF f
    <2> QED
        BY <1>4, <1>5
<1>6. ASSUME n + 1 <= Len(s) PROVE [i \in 1 .. n + 1 |-> s[i]] = Append(f, s[n + 1])
    <2>1. \A i \in 1 .. n : f[i] = s[i]
        BY <1>1
    <2>2. n + 1 \in 1 .. Len(s)
        BY <1>1, <1>6
    <2>3. s[n + 1] \in S
        BY <1>2, <2>2
    <2> HIDE DEF f
    <2>4. /\ Append(f, s[n + 1]) \in Seq(S) /\ Len(Append(f, s[n + 1])) = n + 1
          /\ \A i \in 1 .. n : Append(f, s[n + 1])[i] = s[i]
          /\ Append(f, s[n + 1])[n + 1] = s[n + 1]
        BY <1>4, <2>1, <2>3, AppendProperties
    <2>5. \A i \in 1 .. n + 1 : Append(f, s[n + 1])[i] = s[i]
        <3> TAKE i \in 1 .. n + 1
        <3>1. i \in 1 .. n \/ i = n + 1
            BY <1>1
        <3> QED
            BY <2>4, <3>1
    <2>6. Append(f, s[n + 1]) = [i \in 1 .. n + 1 |-> Append(f, s[n + 1])[i]]
        BY <1>1, <2>4
    <2> QED
        BY <2>5, <2>6
<1> QED
    BY <1>1, <1>4, <1>5, <1>6 DEF IsSeq

\* The DIEs walked so far: before the first unit there are none,
LEMMA WalkStarts ==
    ASSUME NEW b, IsBinary(b)
    PROVE  SoFar(b, 1, 0) = << >>
<1>1. DoneUnits(b, 1 - 1) = << >>
    <2>1. IsCollection(DoneUnits(b, 0)) /\ Len(DoneUnits(b, 0)) = 0
        BY BinaryHas
    <2> QED
        BY <2>1 DEF IsCollection, IsSeq
<1>2. DoneDies(b, 1, 0) = << >>
    BY FirstGrow, EmptyIsSeq DEF DoneDies
<1> QED
    BY <1>1, <1>2, AllElementsOf, EmptyIsSeq DEF SoFar, IsCollection

\* a unit is entered with all the DIEs before it,
LEMMA WalkEnters ==
    ASSUME NEW b, IsBinary(b), NEW u \in 1 .. Len(b.units)
    PROVE  SoFar(b, u, 1) = SoFar(b, u, 0) /\ IsSeq(SoFar(b, u, 0))
<1>1. DoneDies(b, u, 1) = << >> /\ DoneDies(b, u, 0) = << >>
    BY EmptyIsSeq DEF DoneDies
<1>2. IsCollection(DoneUnits(b, u - 1))
    BY BinaryHas
<1> QED
    BY <1>1, <1>2, AllElementsOf DEF SoFar

\* a DIE is added at a time,
LEMMA WalkAdds ==
    ASSUME NEW b, IsBinary(b), NEW u \in 1 .. Len(b.units),
           NEW k \in 1 .. Len(b.units[u].children)
    PROVE  /\ IsSeq(SoFar(b, u, k))
           /\ SoFar(b, u, k + 1) = Append(SoFar(b, u, k), b.units[u].children[k])
<1> DEFINE s == b.units[u].children
<1>0. Len(b.units) \in Nat
    BY BinaryHas
<1>9. u - 1 \in 0 .. Len(b.units)
    BY <1>0
<1>1. IsSeq(s) /\ Len(s) \in Nat /\ IsCollection(DoneUnits(b, u - 1))
    BY <1>9, BinaryHas
<1>2. k - 1 \in 0 .. Len(s) /\ k - 1 + 1 = k /\ k + 1 - 1 = k /\ k <= Len(s)
    BY <1>1
<1> HIDE DEF s
<1>4. /\ IsSeq([i \in 1 .. k - 1 |-> s[i]])
      /\ [i \in 1 .. k - 1 + 1 |-> s[i]] = Append([i \in 1 .. k - 1 |-> s[i]], s[k - 1 + 1])
    BY <1>1, <1>2, FirstGrow
<1> USE DEF s
<1>3. /\ IsSeq(DoneDies(b, u, k))
      /\ DoneDies(b, u, k + 1) = Append(DoneDies(b, u, k), s[k])
    BY <1>2, <1>4 DEF DoneDies
<1>5. /\ IsSeq(AllElements(DoneUnits(b, u - 1), DoneDies(b, u, k)))
      /\ AllElements(DoneUnits(b, u - 1), Append(DoneDies(b, u, k), s[k]))
            = Append(AllElements(DoneUnits(b, u - 1), DoneDies(b, u, k)), s[k])
    BY <1>1, <1>3, AllElementsGrow
<1> QED
    BY <1>3, <1>5 DEF SoFar

\* and the next unit is reached with all the DIEs of this one.
LEMMA WalkLeaves ==
    ASSUME NEW b, IsBinary(b), NEW u \in 1 .. Len(b.units), NEW k,
           IF b.units[u].file = SourceFile THEN k = Len(b.units[u].children) + 1 ELSE k = 0
    PROVE  SoFar(b, u + 1, 0) = SoFar(b, u, k)
<1>0. Len(b.units) \in Nat
    BY BinaryHas
<1>9. u - 1 \in 0 .. Len(b.units) /\ u \in 0 .. Len(b.units) /\ u - 1 \in Nat
    BY <1>0
<1>1. /\ IsSeq(b.units[u].children) /\ Len(b.units[u].children) \in Nat
      /\ IsCollection(DoneUnits(b, u - 1)) /\ IsCollection(DoneUnits(b, u)) /\ u - 1 \in Nat
      /\ Len(DoneUnits(b, u - 1)) = u - 1 /\ Len(DoneUnits(b, u)) = u
    <2>1. IsCollection(DoneUnits(b, u - 1)) /\ Len(DoneUnits(b, u - 1)) = u - 1
        BY <1>9, BinaryHas
    <2>2. IsCollection(DoneUnits(b, u)) /\ Len(DoneUnits(b, u)) = u
        BY <1>9, BinaryHas
    <2> QED
        BY <1>9, <2>1, <2>2, BinaryHas
<1>2. DoneDies(b, u, k) = UnitDies(b, u) /\ IsSeq(UnitDies(b, u))
    <2>1. CASE b.units[u].file = SourceFile
        <3>1. k - 1 = Len(b.units[u].children)
            BY <1>1, <2>1
        <3> DEFINE s == b.units[u].children
        <3> HIDE DEF s
        <3>2. IsSeq(s) /\ Len(s) \in 0 .. Len(s) /\ k - 1 = Len(s)
            BY <1>1, <3>1 DEF s
        <3>3. [i \in 1 .. Len(s) |-> s[i]] = s
            BY <3>2, FirstGrow
        <3>4. DoneDies(b, u, k) = [i \in 1 .. Len(s) |-> s[i]]
            BY <3>2 DEF DoneDies, s
        <3> QED
            BY <2>1, <3>2, <3>3, <3>4 DEF UnitDies, s
    <2>2. CASE b.units[u].file # SourceFile
        <3>1. DoneDies(b, u, 0) = << >>
            BY EmptyIsSeq DEF DoneDies
        <3> QED
            BY <2>2, <3>1, EmptyIsSeq DEF UnitDies
    <2> QED
        BY <2>1, <2>2
<1>3. DoneUnits(b, u) = Append(DoneUnits(b, u - 1), UnitDies(b, u))
    <2>1. /\ IsSeq(Append(DoneUnits(b, u - 1), UnitDies(b, u)))
          /\ Len(Append(DoneUnits(b, u - 1), UnitDies(b, u))) = u
          /\ Append(DoneUnits(b, u - 1), UnitDies(b, u))[u] = UnitDies(b, u)
          /\ \A i \in 1 .. u - 1 : Append(DoneUnits(b, u - 1), UnitDies(b, u))[i] = UnitDies(b, i)
        BY <1>1, AppendIsSeq DEF IsCollection, DoneUnits
    <2>2. \A i \in 1 .. u : Append(DoneUnits(b, u - 1), UnitDies(b, u))[i] = UnitDies(b, i)
        <3> TAKE i \in 1 .. u
        <3>1. i \in 1 .. u - 1 \/ i = u
            BY <1>1
        <3> QED
            BY <2>1, <3>1
    <2> QED
        BY <2>1, <2>2, SeqDomain DEF DoneUnits
<1>4. FlattenSeq(DoneUnits(b, u)) = AllElements(DoneUnits(b, u - 1), UnitDies(b, u))
    BY <1>1, <1>2, <1>3, AllElementsGrow
<1>5. DoneDies(b, u + 1, 0) = << >> /\ u + 1 - 1 = u
    BY EmptyIsSeq DEF DoneDies
<1> QED
    BY <1>1, <1>2, <1>4, <1>5, AllElementsOf DEF SoFar

\* After the last unit the walk is over.
LEMMA WalkEnds ==
    ASSUME NEW b, IsBinary(b)
    PROVE  SoFar(b, Len(b.units) + 1, 0) = WalkedDies(b)
<1>1. Len(b.units) \in Nat /\ DOMAIN b.units = 1 .. Len(b.units) /\ IsCollection(DoneUnits(b, Len(b.units)))
    BY BinaryHas
<1>2. DoneDies(b, Len(b.units) + 1, 0) = << >> /\ Len(b.units) + 1 - 1 = Len(b.units)
    BY <1>1, EmptyIsSeq DEF DoneDies
<1>3. WalkedDies(b) = FlattenSeq(DoneUnits(b, Len(b.units)))
    BY <1>1 DEF WalkedDies, DoneUnits, UnitDies
<1> QED
    BY <1>1, <1>2, <1>3, AllElementsOf DEF SoFar

-----------------------------------------------------------------------------
(***************************************************************************)
(* What the walk collects.                                                 *)
(***************************************************************************)

\* The definition of a name that add_subprogram keeps is the last one.
LEMMA FunctionAdded ==
    ASSUME NEW subs, NEW F, FunctionsDescribed(subs, F),
           NEW d, IsFunctionDie(d), d.low_pc # NoAddress
    PROVE  FunctionsDescribed(add_subprogram(subs, Subprogram(d)), Append(F, d))
<1> DEFINE s == Subprogram(d)
           more == add_subprogram(subs, s)
           G == Append(F, d)
<1>1. /\ IsSeq(subs) /\ Len(subs) \in Nat /\ DOMAIN subs = 1 .. Len(subs)
      /\ IsSeq(F) /\ Len(F) \in Nat
    BY SeqDomain DEF FunctionsDescribed
<1>2. /\ IsSeq(G) /\ Len(G) = Len(F) + 1 /\ G[Len(F) + 1] = d
      /\ \A j \in 1 .. Len(F) : G[j] = F[j]
    BY <1>1, AppendIsSeq
<1>3. SubprogramOf(s, d) /\ s.name = d.name
    BY DEF SubprogramOf, Subprogram, get_low_and_high_pc
<1> HIDE DEF s, G
<1>4. \A j \in 1 .. Len(G) : j = Len(F) + 1 \/ j \in 1 .. Len(F)
    BY <1>1, <1>2
<1>5. LastNamed(G, Len(F) + 1) /\ Len(F) + 1 \in 1 .. Len(G)
    BY <1>1, <1>2 DEF LastNamed
<1>6. \A j \in 1 .. Len(F) : LastNamed(G, j) <=> LastNamed(F, j) /\ F[j].name # d.name
    BY <1>1, <1>2, <1>4 DEF LastNamed
<1>7. \A j \in 1 .. Len(G) : IsFunctionDie(G[j]) /\ G[j].low_pc # NoAddress
    BY <1>2, <1>4 DEF FunctionsDescribed
<1>8. \A i \in 1 .. Len(subs) : \E j \in 1 .. Len(F) :
         LastNamed(F, j) /\ SubprogramOf(subs[i], F[j]) /\ F[j].name = subs[i].name
    BY DEF FunctionsDescribed, SubprogramOf
<1>9. /\ IsSeq(more) /\ Len(more) \in Nat
      /\ \A i \in 1 .. Len(more) : \/ SubprogramOf(more[i], d)
                                   \/ /\ i \in 1 .. Len(subs) /\ more[i] = subs[i]
                                      /\ subs[i].name # d.name
      /\ \E i \in 1 .. Len(more) : SubprogramOf(more[i], d)
      /\ \A i \in 1 .. Len(subs) : subs[i].name # d.name => i \in 1 .. Len(more) /\ more[i] = subs[i]
    <2>1. CASE \E i \in DOMAIN subs : subs[i].name = s.name
        <3>1. more = [i \in 1 .. Len(subs) |-> IF subs[i].name = d.name THEN s ELSE subs[i]]
            BY <1>1, <1>3, <2>1 DEF add_subprogram
        <3> DEFINE S == { IF subs[i].name = d.name THEN s ELSE subs[i] : i \in 1 .. Len(subs) }
        <3>2. more \in [1 .. Len(subs) -> S]
            BY <3>1
        <3> HIDE DEF S, more
        <3>3. more \in Seq(S) /\ Len(more) = Len(subs)
            BY <1>1, <3>2, SeqDef, LenProperties
        <3>4. IsSeq(more)
            BY <3>3 DEF IsSeq
        <3> QED
            BY <1>1, <1>3, <2>1, <3>1, <3>3, <3>4
    <2>2. CASE ~ \E i \in DOMAIN subs : subs[i].name = s.name
        <3>1. more = Append(subs, s)
            BY <2>2 DEF add_subprogram
        <3> HIDE DEF more
        <3>2. /\ IsSeq(more) /\ Len(more) = Len(subs) + 1 /\ more[Len(subs) + 1] = s
              /\ \A i \in 1 .. Len(subs) : more[i] = subs[i]
            BY <1>1, <3>1, AppendIsSeq
        <3>3. \A i \in 1 .. Len(more) : i = Len(subs) + 1 \/ i \in 1 .. Len(subs)
            BY <1>1, <3>2
        <3>4. Len(subs) + 1 \in 1 .. Len(more) /\ \A i \in 1 .. Len(subs) : i \in 1 .. Len(more)
            BY <1>1, <3>2
        <3> QED
            BY <1>1, <1>3, <2>2, <3>2, <3>3, <3>4
    <2> QED
        BY <2>1, <2>2
<1> HIDE DEF more
<1>10. ASSUME NEW i \in 1 .. Len(more)
       PROVE  \E j \in 1 .. Len(G) : LastNamed(G, j) /\ SubprogramOf(more[i], G[j])
    <2>1. CASE SubprogramOf(more[i], d)
        BY <1>2, <1>5, <2>1
    <2>2. CASE i \in 1 .. Len(subs) /\ more[i] = subs[i] /\ subs[i].name # d.name
        <3>1. PICK j \in 1 .. Len(F) : LastNamed(F, j) /\ SubprogramOf(subs[i], F[j]) /\ F[j].name = subs[i].name
            BY <1>8, <2>2
        <3>2. j \in 1 .. Len(G)
            BY <1>1, <1>2, <3>1
        <3> QED
            BY <1>2, <1>6, <2>2, <3>1, <3>2
    <2> QED
        BY <1>9, <1>10, <2>1, <2>2
<1>11. ASSUME NEW j \in 1 .. Len(G), LastNamed(G, j)
       PROVE  \E i \in 1 .. Len(more) : SubprogramOf(more[i], G[j])
    <2>1. CASE j = Len(F) + 1
        BY <1>2, <1>9, <2>1
    <2>2. CASE j \in 1 .. Len(F)
        <3>1. LastNamed(F, j) /\ F[j].name # d.name
            BY <1>6, <1>11, <2>2
        <3>2. PICK i \in 1 .. Len(subs) : SubprogramOf(subs[i], F[j])
            BY <2>2, <3>1 DEF FunctionsDescribed
        <3>3. subs[i].name # d.name
            BY <3>1, <3>2 DEF SubprogramOf
        <3> QED
            BY <1>2, <1>9, <2>2, <3>2, <3>3
    <2> QED
        BY <1>4, <1>11, <2>1, <2>2
<1>12. FunctionsDescribed(more, G)
    BY <1>2, <1>7, <1>9, <1>10, <1>11 DEF FunctionsDescribed
<1> QED
    BY <1>12 DEF more, G, s

\* Every variable is kept with its name, location and type.
LEMMA VariableAdded ==
    ASSUME NEW globals, NEW V, VariablesDescribed(globals, V), NEW d, IsVariableDie(d)
    PROVE  VariablesDescribed(Append(globals, VarOrParam(d)), Append(V, d))
<1>1. /\ IsSeq(V) /\ Len(V) \in Nat /\ DOMAIN V = 1 .. Len(V) /\ globals = Kept(V)
      /\ IsSeq(Append(V, d)) /\ Len(Append(V, d)) = Len(V) + 1 /\ Append(V, d)[Len(V) + 1] = d
      /\ \A j \in 1 .. Len(V) : Append(V, d)[j] = V[j]
    BY SeqDomain, AppendIsSeq DEF VariablesDescribed
<1>2. DOMAIN Append(V, d) = 1 .. Len(V) + 1
    BY <1>1, SeqDomain
<1>3. \A j \in 1 .. Len(V) + 1 : j = Len(V) + 1 \/ j \in 1 .. Len(V)
    BY <1>1
<1>4. IsSeq(globals) /\ Len(globals) = Len(V) /\ \A j \in 1 .. Len(V) : globals[j] = VarOrParam(V[j])
    <2> DEFINE S == { VarOrParam(V[j]) : j \in 1 .. Len(V) }
    <2>1. globals \in [1 .. Len(V) -> S] /\ \A j \in 1 .. Len(V) : globals[j] = VarOrParam(V[j])
        BY <1>1 DEF Kept
    <2> HIDE DEF S
    <2>2. globals \in Seq(S) /\ Len(globals) = Len(V)
        BY <1>1, <2>1, SeqDef, LenProperties
    <2> QED
        BY <2>1, <2>2 DEF IsSeq
<1>5. /\ IsSeq(Append(globals, VarOrParam(d)))
      /\ Len(Append(globals, VarOrParam(d))) = Len(V) + 1
      /\ Append(globals, VarOrParam(d))[Len(V) + 1] = VarOrParam(d)
      /\ \A j \in 1 .. Len(V) : Append(globals, VarOrParam(d))[j] = VarOrParam(V[j])
    BY <1>4, AppendIsSeq
<1>6. Append(globals, VarOrParam(d)) = Kept(Append(V, d))
    <2>1. \A j \in 1 .. Len(V) + 1 : Append(globals, VarOrParam(d))[j] = VarOrParam(Append(V, d)[j])
        BY <1>1, <1>3, <1>5
    <2>2. Append(globals, VarOrParam(d)) = [j \in 1 .. Len(V) + 1 |-> Append(globals, VarOrParam(d))[j]]
        BY <1>5, SeqDomain
    <2>3. Kept(Append(V, d)) = [j \in 1 .. Len(V) + 1 |-> VarOrParam(Append(V, d)[j])]
        BY <1>2 DEF Kept
    <2> QED
        BY <2>1, <2>2, <2>3
<1>7. \A j \in 1 .. Len(V) + 1 : IsVariableDie(Append(V, d)[j])
    BY <1>1, <1>3 DEF VariablesDescribed
<1> QED
    BY <1>1, <1>6, <1>7 DEF VariablesDescribed

\* Frame bases change nothing that an address or a type depends on.
LEMMA FrameBasesApart ==
    ASSUME NEW info, IsInfo(info), NEW F, FunctionsDescribed(info.subprograms, F), NEW fdes
    PROVE  /\ IsInfo(WithFrameBases(info, fdes))
           /\ WithFrameBases(info, fdes).globals = info.globals
           /\ FunctionsDescribed(WithFrameBases(info, fdes).subprograms, F)
<1> DEFINE subs == info.subprograms
<1>1. IsSeq(subs) /\ Len(subs) \in Nat /\ DOMAIN subs = 1 .. Len(subs)
    BY SeqDomain DEF FunctionsDescribed
<1>2. PICK rows : WithFrameBases(info, fdes) =
          [info EXCEPT !.subprograms = [i \in DOMAIN subs |-> [subs[i] EXCEPT !.frame_base_infos = rows[i]]]]
    <2> DEFINE RowsOf(i) ==
            FlattenSeq([k \in DOMAIN fdes |->
                IF get_subprogram_with_pc_as_low_pc(info, fdes[k].initial_location) = i
                THEN fdes[k].rows ELSE << >>])
        rows == [i \in DOMAIN subs |-> FoldLeft(add_frame_base_info, subs[i].frame_base_infos, RowsOf(i))]
    <2>1. WithFrameBases(info, fdes) =
             [info EXCEPT !.subprograms =
                 [i \in DOMAIN subs |-> [subs[i] EXCEPT !.frame_base_infos =
                     FoldLeft(add_frame_base_info, subs[i].frame_base_infos, RowsOf(i))]]]
        BY DEF WithFrameBases
    <2>2. [i \in DOMAIN subs |-> [subs[i] EXCEPT !.frame_base_infos =
              FoldLeft(add_frame_base_info, subs[i].frame_base_infos, RowsOf(i))]]
          = [i \in DOMAIN subs |-> [subs[i] EXCEPT !.frame_base_infos = rows[i]]]
        OBVIOUS
    <2> HIDE DEF RowsOf, rows
    <2> QED
        BY <2>1, <2>2
<1> DEFINE more == [i \in DOMAIN subs |-> [subs[i] EXCEPT !.frame_base_infos = rows[i]]]
<1>3. /\ IsInfo(WithFrameBases(info, fdes))
      /\ WithFrameBases(info, fdes).globals = info.globals
      /\ WithFrameBases(info, fdes).subprograms = more
    <2>1. info = [f \in InfoFields |-> info[f]] /\ IsSeq(info.globals)
        BY DEF IsInfo
    <2> HIDE DEF more
    <2>2. WithFrameBases(info, fdes) = [info EXCEPT !.subprograms = more]
        BY <1>2 DEF more
    <2> QED
        BY <2>1, <2>2 DEF IsInfo, InfoFields
<1>4. IsSeq(more) /\ Len(more) = Len(subs)
    <2> DEFINE S == { [subs[i] EXCEPT !.frame_base_infos = rows[i]] : i \in 1 .. Len(subs) }
    <2>1. more \in [1 .. Len(subs) -> S]
        BY <1>1
    <2> HIDE DEF S, more
    <2>2. more \in Seq(S) /\ Len(more) = Len(subs)
        BY <1>1, <2>1, SeqDef, LenProperties
    <2> QED
        BY <2>2 DEF IsSeq
<1>5. \A i \in 1 .. Len(subs) : \A f : SubprogramOf(subs[i], f) => SubprogramOf(more[i], f)
    <2> SUFFICES ASSUME NEW i \in 1 .. Len(subs), NEW f, SubprogramOf(subs[i], f)
                 PROVE  SubprogramOf(more[i], f)
        OBVIOUS
    <2>1. more[i] = [subs[i] EXCEPT !.frame_base_infos = rows[i]]
        BY <1>1
    <2> HIDE DEF more
    <2> QED
        BY <2>1 DEF SubprogramOf
<1> HIDE DEF more
<1>6. FunctionsDescribed(more, F)
    BY <1>4, <1>5 DEF FunctionsDescribed
<1> QED
    BY <1>3, <1>6

\* At the start nothing is described.
LEMMA NothingDescribed ==
    ASSUME NEW b, IsBinary(b)
    PROVE  IsDescribed(NoDwarfInfo, SoFar(b, 1, 0))
<1>1. SoFar(b, 1, 0) = << >>
    BY WalkStarts
<1>2. FunctionsAmong(<< >>) = << >> /\ VariablesAmong(<< >>) = << >>
    <2>1. FunctionsAmong(<< >>) = FlattenSeq(<< >>)
        BY DEF FunctionsAmong
    <2>2. VariablesAmong(<< >>) = FlattenSeq(<< >>)
        BY DEF VariablesAmong
    <2> QED
        BY <2>1, <2>2, FlattenEmpty
<1>3. IsInfo(NoDwarfInfo) /\ NoDwarfInfo.globals = << >> /\ NoDwarfInfo.subprograms = << >>
    BY EmptyIsSeq DEF IsInfo, NoDwarfInfo, InfoFields
<1>4. Kept(<< >>) = << >>
    BY DEF Kept
<1> QED
    BY <1>1, <1>2, <1>3, <1>4, EmptyIsSeq DEF IsDescribed, FunctionsDescribed, VariablesDescribed

\* A step of the walk describes what it walks over.
LEMMA WalkDescribes ==
    ASSUME WalkInv, ExtractNext
    PROVE  WalkInv'
<1>0. IsBinary(binary) /\ IsInfo(dwarf_info) /\ binary' = binary
    BY DEF WalkInv, ExtractNext, extract_architecture_information, MissingProducer,
           ExtractSubprogram, ExtractGlobalVariable, PassOver, DieRaises, EndUnit,
           FinishExtraction, UnsupportedMarch, RaiseExtraction, NextDie
<1>1. /\ extraction = "walking" /\ unit \in 1 .. (Len(binary.units) + 1) /\ child \in Nat
      /\ child # 0 => /\ unit <= Len(binary.units) /\ Unit.file = SourceFile
                      /\ child <= Len(Unit.children) + 1
      /\ IsDescribed(dwarf_info, SoFar(binary, unit, child))
    BY DEF WalkInv, ExtractNext, extract_architecture_information, MissingProducer,
           ExtractSubprogram, ExtractGlobalVariable, PassOver, DieRaises, EndUnit,
           FinishExtraction, UnsupportedMarch, RaiseExtraction, AtTopDie, AtDie, AtEnd
<1>2. /\ Len(binary.units) \in Nat
      /\ \A u \in 1 .. Len(binary.units) :
            /\ binary.units[u] \in Range(binary.units)
            /\ IsSeq(binary.units[u].children) /\ Len(binary.units[u].children) \in Nat
            /\ DOMAIN binary.units[u].children = 1 .. Len(binary.units[u].children)
    BY <1>0, BinaryHas
<1>3. CASE RaiseExtraction
    BY <1>0, <1>3 DEF RaiseExtraction, WalkInv
<1>4. CASE extract_architecture_information
    <2>1. unit \in 1 .. Len(binary.units) /\ child = 0 /\ extraction' = "walking"
        BY <1>1, <1>2, <1>4 DEF extract_architecture_information, AtTopDie
    <2>2. IsInfo(dwarf_info') /\ \A dies : IsDescribed(dwarf_info, dies) => IsDescribed(dwarf_info', dies)
        <3>1. dwarf_info = [f \in InfoFields |-> dwarf_info[f]] /\ IsSeq(dwarf_info.globals)
            BY <1>0 DEF IsInfo
        <3>2. /\ IsInfo(dwarf_info')
              /\ dwarf_info'.globals = dwarf_info.globals
              /\ dwarf_info'.subprograms = dwarf_info.subprograms
            BY <3>1, <1>4 DEF extract_architecture_information, IsInfo, InfoFields
        <3> QED
            BY <3>2 DEF IsDescribed
    <2>3. CASE Unit.file = SourceFile
        <3>1. unit' = unit /\ child' = 1 /\ 1 <= Len(Unit.children) + 1
            BY <1>2, <1>4, <2>1, <2>3 DEF extract_architecture_information, Unit
        <3>2. SoFar(binary, unit, 1) = SoFar(binary, unit, 0)
            BY <1>0, <2>1, WalkEnters
        <3> QED
            BY <1>0, <1>1, <2>1, <2>2, <2>3, <3>1, <3>2 DEF WalkInv, Unit
    <2>4. CASE Unit.file # SourceFile
        <3>1. unit' = unit + 1 /\ child' = 0 /\ unit + 1 \in 1 .. (Len(binary.units) + 1)
            BY <1>2, <1>4, <2>1, <2>4 DEF extract_architecture_information
        <3>2. SoFar(binary, unit + 1, 0) = SoFar(binary, unit, 0)
            BY <1>0, <2>1, <2>4, WalkLeaves DEF Unit
        <3> QED
            BY <1>0, <1>1, <2>1, <2>2, <3>1, <3>2 DEF WalkInv
    <2> QED
        BY <2>3, <2>4
<1>5. ASSUME AtDie, NextDie
      PROVE  /\ unit' = unit /\ child' = child + 1 /\ extraction' = "walking" /\ unit \in 1 .. Len(binary.units)
             /\ child \in 1 .. Len(Unit.children) /\ Unit.file = SourceFile
             /\ Die \in Range(Unit.children) /\ Unit \in Range(binary.units)
             /\ IsSeq(SoFar(binary, unit, child))
             /\ SoFar(binary, unit, child + 1) = Append(SoFar(binary, unit, child), Die)
    <2>1. unit \in 1 .. Len(binary.units) /\ child \in DOMAIN Unit.children
        BY <1>1, <1>2, <1>5 DEF AtDie
    <2>2. child \in 1 .. Len(Unit.children) /\ Unit \in Range(binary.units)
        BY <1>2, <2>1 DEF Unit
    <2>3. Die \in Range(Unit.children)
        BY <2>1 DEF Die, Range
    <2>4. Unit.file = SourceFile
        BY <1>1, <1>2, <2>1, <2>2
    <2>5. /\ IsSeq(SoFar(binary, unit, child))
          /\ SoFar(binary, unit, child + 1) = Append(SoFar(binary, unit, child), Die)
        BY <1>0, <2>1, <2>2, WalkAdds DEF Unit, Die
    <2> QED
        BY <1>1, <1>5, <2>1, <2>2, <2>3, <2>4, <2>5 DEF NextDie
<1>6. ASSUME AtDie, NextDie, IsDescribed(dwarf_info', Append(SoFar(binary, unit, child), Die))
      PROVE  WalkInv'
    <2>1. child + 1 \in Nat /\ child + 1 <= Len(Unit.children) + 1
        BY <1>1, <1>2, <1>5, <1>6 DEF Unit
    <2>2. unit \in 1 .. (Len(binary.units) + 1) /\ unit <= Len(binary.units)
        BY <1>1, <1>2, <1>5, <1>6
    <2>3. IsInfo(dwarf_info')
        BY <1>6 DEF IsDescribed
    <2> QED
        BY <1>0, <1>5, <1>6, <2>1, <2>2, <2>3 DEF WalkInv, Unit
<1> DEFINE dies == SoFar(binary, unit, child)
<1>7. /\ FunctionsDescribed(dwarf_info.subprograms, FunctionsAmong(dies))
      /\ VariablesDescribed(dwarf_info.globals, VariablesAmong(dies))
      /\ dwarf_info = [f \in InfoFields |-> dwarf_info[f]]
    BY <1>1 DEF IsDescribed, IsInfo
<1>8. AtDie /\ NextDie =>
         /\ IsSeq(dies) /\ IsSeq(Append(dies, Die))
         /\ FunctionsAmong(Append(dies, Die)) =
               IF Die.tag = "subprogram" /\ Die.decl_file = 1 THEN Append(FunctionsAmong(dies), Die)
               ELSE FunctionsAmong(dies)
         /\ VariablesAmong(Append(dies, Die)) =
               IF Die.tag = "variable" THEN Append(VariablesAmong(dies), Die) ELSE VariablesAmong(dies)
    BY <1>5, FunctionsGrow, VariablesGrow, AppendIsSeq
<1>9. AtDie /\ NextDie => /\ Die.tag = "variable" => IsVariableDie(Die)
                          /\ Die.tag = "subprogram" => IsFunctionDie(Die)
    BY <1>0, <1>5 DEF IsBinary, IsVariableDie, IsFunctionDie
<1> HIDE DEF dies
<1>10. CASE ExtractSubprogram
    <2>1. /\ AtDie /\ NextDie /\ Die.tag = "subprogram" /\ Die.decl_file = 1 /\ ~ SubprogramRaises(Die)
          /\ dwarf_info' = [dwarf_info EXCEPT !.subprograms = add_subprogram(dwarf_info.subprograms, Subprogram(Die))]
        BY <1>10 DEF ExtractSubprogram
    <2>2. IsFunctionDie(Die) /\ Die.low_pc # NoAddress
        BY <1>9, <2>1 DEF SubprogramRaises
    <2>3. FunctionsDescribed(add_subprogram(dwarf_info.subprograms, Subprogram(Die)), FunctionsAmong(Append(dies, Die)))
        BY <1>7, <1>8, <2>1, <2>2, FunctionAdded
    <2>4. VariablesAmong(Append(dies, Die)) = VariablesAmong(dies)
        BY <1>8, <2>1
    <2>5. /\ dwarf_info'.subprograms = add_subprogram(dwarf_info.subprograms, Subprogram(Die))
          /\ dwarf_info'.globals = dwarf_info.globals
          /\ IsInfo(dwarf_info')
        BY <1>0, <1>7, <2>1 DEF IsInfo, InfoFields
    <2>6. IsDescribed(dwarf_info', Append(dies, Die))
        BY <1>7, <1>8, <2>1, <2>3, <2>4, <2>5 DEF IsDescribed
    <2> QED
        BY <1>6, <2>1, <2>6 DEF dies
<1>11. CASE ExtractGlobalVariable
    <2>1. /\ AtDie /\ NextDie /\ Die.tag = "variable"
          /\ dwarf_info' = [dwarf_info EXCEPT !.globals = Append(dwarf_info.globals, VarOrParam(Die))]
        BY <1>11 DEF ExtractGlobalVariable
    <2>2. VariablesDescribed(Append(dwarf_info.globals, VarOrParam(Die)), VariablesAmong(Append(dies, Die)))
        BY <1>7, <1>8, <1>9, <2>1, VariableAdded
    <2>3. FunctionsAmong(Append(dies, Die)) = FunctionsAmong(dies)
        BY <1>8, <2>1
    <2>4. IsSeq(Append(dwarf_info.globals, VarOrParam(Die)))
        BY <1>0, AppendIsSeq DEF IsInfo
    <2>5. /\ dwarf_info'.globals = Append(dwarf_info.globals, VarOrParam(Die))
          /\ dwarf_info'.subprograms = dwarf_info.subprograms
          /\ IsInfo(dwarf_info')
        BY <1>7, <2>1, <2>4 DEF IsInfo, InfoFields
    <2>6. IsDescribed(dwarf_info', Append(dies, Die))
        BY <1>7, <1>8, <2>1, <2>2, <2>3, <2>5 DEF IsDescribed
    <2> QED
        BY <1>6, <2>1, <2>6 DEF dies
<1>12. CASE PassOver
    <2>1. /\ AtDie /\ NextDie /\ Die.tag # "variable" /\ ~ (Die.tag = "subprogram" /\ Die.decl_file = 1)
          /\ dwarf_info' = dwarf_info
        BY <1>12 DEF PassOver
    <2>2. IsDescribed(dwarf_info', Append(dies, Die))
        BY <1>1, <1>8, <2>1 DEF IsDescribed, dies
    <2> QED
        BY <1>6, <2>1, <2>2 DEF dies
<1>13. CASE EndUnit
    <2>1. /\ unit <= Len(binary.units) /\ child > Len(Unit.children) /\ extraction' = "walking"
          /\ unit' = unit + 1 /\ child' = 0 /\ dwarf_info' = dwarf_info
        BY <1>1, <1>13 DEF EndUnit
    <2>2. unit \in 1 .. Len(binary.units) /\ unit + 1 \in 1 .. (Len(binary.units) + 1)
        BY <1>1, <1>2, <2>1
    <2>3. child # 0 /\ child = Len(Unit.children) + 1 /\ Unit.file = SourceFile
        <3>1. Len(Unit.children) \in Nat
            BY <1>2, <2>2 DEF Unit
        <3>2. child # 0
            BY <2>1, <3>1
        <3>3. Unit.file = SourceFile /\ child <= Len(Unit.children) + 1 /\ child \in Nat
            BY <1>1, <3>2
        <3> QED
            BY <2>1, <3>1, <3>2, <3>3
    <2>4. SoFar(binary, unit + 1, 0) = SoFar(binary, unit, child)
        BY <1>0, <2>2, <2>3, WalkLeaves DEF Unit
    <2> QED
        BY <1>0, <1>1, <2>1, <2>2, <2>4 DEF WalkInv
<1>14. CASE FinishExtraction
    <2>1. /\ unit > Len(binary.units) /\ extraction' = "extracted"
          /\ dwarf_info' = WithFrameBases(dwarf_info, binary.fdes)
        BY <1>14 DEF FinishExtraction, AtEnd
    <2>2. unit = Len(binary.units) + 1 /\ child = 0
        BY <1>1, <1>2, <2>1
    <2>3. dies = WalkedDies(binary)
        BY <1>0, <2>2, WalkEnds DEF dies
    <2>4. /\ IsInfo(dwarf_info') /\ dwarf_info'.globals = dwarf_info.globals
          /\ FunctionsDescribed(dwarf_info'.subprograms, FunctionsAmong(dies))
        BY <1>0, <1>7, <2>1, FrameBasesApart
    <2>5. IsDescribed(dwarf_info', WalkedDies(binary))
        BY <1>1, <1>7, <2>3, <2>4 DEF IsDescribed, dies
    <2> QED
        BY <1>0, <2>1, <2>4, <2>5 DEF WalkInv
<1> QED
    BY <1>3, <1>4, <1>10, <1>11, <1>12, <1>13, <1>14
       DEF ExtractNext, MissingProducer, DieRaises, UnsupportedMarch

\* A set of indices has a smallest element.
LEMMA SmallestOf ==
    ASSUME NEW n \in Nat, NEW T, T \subseteq 1 .. n, T # {}
    PROVE  \E i \in T : \A j \in T : i <= j
<1> DEFINE S == { n - i + 1 : i \in T }
<1>1. S \subseteq 1 .. n /\ S # {}
    <2>1. \A i \in T : n - i + 1 \in 1 .. n
        OBVIOUS
    <2> QED
        BY <2>1
<1>2. PICK x \in S : \A y \in S : y <= x
    <2> HIDE DEF S
    <2> QED
        BY <1>1, LargestOf
<1>3. PICK i \in T : x = n - i + 1
    BY <1>2
<1>4. \A j \in T : n - j + 1 \in S /\ i \in 1 .. n /\ j \in 1 .. n
    OBVIOUS
<1>5. \A j \in T : n - j + 1 <= n - i + 1
    BY <1>2, <1>3, <1>4
<1> QED
    BY <1>4, <1>5

-----------------------------------------------------------------------------
(***************************************************************************)
(* What an extracted DwarfInfo says.                                       *)
(***************************************************************************)

\* A dimension that is given is a natural number and every described variable's
\* range is its size (types.py).
LEMMA DescribedRanges ==
    ASSUME WalkInv
    PROVE  RangesRight
<1> SUFFICES ASSUME extraction = "extracted"
             PROVE  /\ Len(dwarf_info.globals) = Len(GlobalDies(binary))
                    /\ \A i \in DOMAIN GlobalDies(binary) :
                          LET t == GlobalDies(binary)[i].type
                          IN VariableIsWritable(dwarf_info.globals[i].type) =>
                                \/ "pointer" \in TagsOf(t)
                                \/ CountedDimensions(t)
                                \/ dwarf_info.globals[i].type.range = IF Nameless(t) THEN None ELSE CSize(t)
    BY DEF RangesRight
<1> DEFINE V == GlobalDies(binary)
<1>1. /\ dwarf_info.globals = Kept(V) /\ IsSeq(V) /\ IsSeq(dwarf_info.globals)
      /\ \A j \in 1 .. Len(V) : IsVariableDie(V[j])
    BY DEF WalkInv, IsDescribed, VariablesDescribed, IsInfo, GlobalDies
<1>2. DOMAIN V = 1 .. Len(V) /\ Len(V) \in Nat /\ Len(dwarf_info.globals) \in Nat
      /\ DOMAIN dwarf_info.globals = 1 .. Len(dwarf_info.globals)
    BY <1>1, SeqDomain
<1>3. Len(dwarf_info.globals) = Len(V)
    <2>1. DOMAIN dwarf_info.globals = DOMAIN V
        BY <1>1 DEF Kept
    <2> QED
        BY <1>2, <2>1
<1>4. ASSUME NEW i \in DOMAIN V, VariableIsWritable(dwarf_info.globals[i].type)
      PROVE  \/ "pointer" \in TagsOf(V[i].type)
             \/ CountedDimensions(V[i].type)
             \/ dwarf_info.globals[i].type.range = IF Nameless(V[i].type) THEN None ELSE CSize(V[i].type)
    <2>1. V[i].type \in Dies
        BY <1>1, <1>2, <1>4 DEF IsVariableDie, Dies
    <2>2. dwarf_info.globals[i].type = extract_type_rec(V[i].type)
        BY <1>1, <1>4 DEF Kept, VarOrParam
    <2>3. extract_type_rec(V[i].type).range # Raises
        BY <1>4, <2>2 DEF VariableIsWritable, Measurable
    <2>4. RangeFits(extract_type_rec(V[i].type).range, Leads(V[i].type), CSize(V[i].type))
        BY <2>1, <2>3, RangeIsSize
    <2> QED
        BY <2>2, <2>4 DEF RangeFits, PointerIn, CountsIn, NamelessIn, TagsOf, CountedDimensions, Nameless
<1> QED
    BY <1>3, <1>4

\* Code of its own resolves to its function (DwarfInfo.get_enclosing_subprogram).
LEMMA DescribedCode ==
    ASSUME WalkInv
    PROVE  CodeIsNamed
<1> SUFFICES ASSUME extraction = "extracted", NEW i \in DOMAIN OwnFunctions(binary),
                    NEW pc \in (OwnFunctions(binary)[i].low_pc + 1)
                                 .. (CodeEnd(OwnFunctions(binary)[i]) - 1)
             PROVE  LET f == OwnFunctions(binary)[i]
                        redefined == \E j \in DOMAIN OwnFunctions(binary) :
                                         j > i /\ OwnFunctions(binary)[j].name = f.name
                        k == get_enclosing_subprogram(dwarf_info, pc)
                    IN IF redefined THEN k = 0
                       ELSE k # 0 /\ dwarf_info.subprograms[k].name = f.name
    BY DEF CodeIsNamed
<1> DEFINE F == OwnFunctions(binary)
           subs == dwarf_info.subprograms
           end(f) == CodeEnd(f)
<1>1. FunctionsDescribed(subs, F) /\ \A g, h \in DOMAIN F : g # h => Apart(F[g], F[h])
    BY DEF WalkInv, IsDescribed, OwnFunctions, IsBinary
<1>2. /\ Len(F) \in Nat /\ DOMAIN F = 1 .. Len(F)
      /\ Len(subs) \in Nat /\ DOMAIN subs = 1 .. Len(subs)
    BY <1>1, SeqDomain DEF FunctionsDescribed
<1> HIDE DEF F, subs
<1>3. \A j \in 1 .. Len(F) : F[j].low_pc \in Nat /\ F[j].low_pc # NoAddress /\ end(F[j]) \in Nat
    BY <1>1 DEF FunctionsDescribed, IsFunctionDie, CodeEnd
<1>4. i \in 1 .. Len(F) /\ pc \in Int /\ F[i].low_pc < pc /\ pc < end(F[i])
    BY <1>2, <1>3 DEF F
<1>5. ASSUME NEW j \in 1 .. Len(F), F[j].low_pc <= pc, pc <= end(F[j])
      PROVE  j = i
    <2>1. SUFFICES ASSUME j # i PROVE FALSE
        OBVIOUS
    <2>2. Apart(F[i], F[j])
        BY <1>1, <1>2, <1>4, <2>1
    <2>3. end(F[i]) <= F[j].low_pc \/ end(F[j]) <= F[i].low_pc
        BY <1>3, <1>4, <2>2 DEF Apart
    <2> HIDE DEF end
    <2> QED
        BY <1>3, <1>4, <1>5, <2>3
<1> DEFINE with == { k \in 1 .. Len(subs) : subs[k].low_pc <= pc /\ pc <= subs[k].high_pc }
<1>6. get_enclosing_subprogram(dwarf_info, pc) =
         IF with = {} THEN 0 ELSE CHOOSE k \in with : \A l \in with : k <= l
    BY <1>2 DEF get_enclosing_subprogram, subs
<1>7. ASSUME NEW k \in with
      PROVE  LastNamed(F, i) /\ subs[k].name = F[i].name
    <2>1. PICK j \in 1 .. Len(F) : LastNamed(F, j) /\ SubprogramOf(subs[k], F[j])
        BY <1>1, <1>7 DEF FunctionsDescribed
    <2>2. subs[k].name = F[j].name /\ F[j].low_pc <= pc /\ pc <= end(F[j])
        BY <1>7, <2>1 DEF SubprogramOf, get_low_and_high_pc, CodeEnd
    <2> QED
        BY <1>5, <2>1, <2>2
<1>8. LastNamed(F, i) => with # {}
    <2>1. ASSUME LastNamed(F, i)
          PROVE  with # {}
        <3>1. PICK k \in 1 .. Len(subs) : SubprogramOf(subs[k], F[i])
            BY <1>1, <1>4, <2>1 DEF FunctionsDescribed
        <3>2. subs[k].low_pc = F[i].low_pc /\ subs[k].high_pc = end(F[i])
            BY <3>1 DEF SubprogramOf, get_low_and_high_pc, CodeEnd
        <3>3. subs[k].low_pc <= pc /\ pc <= subs[k].high_pc
            <4> HIDE DEF end
            <4> QED
                BY <1>3, <1>4, <3>2
        <3>4. k \in with
            BY <3>3
        <3> QED
            BY <3>4
    <2> QED
        BY <2>1
<1>9. with # {} => /\ get_enclosing_subprogram(dwarf_info, pc) \in with
                   /\ get_enclosing_subprogram(dwarf_info, pc) # 0
    <2>1. with \subseteq 1 .. Len(subs)
        OBVIOUS
    <2> HIDE DEF with
    <2>2. with # {} => \E k \in with : \A l \in with : k <= l
        BY <1>2, <2>1, SmallestOf
    <2>3. 0 \notin with
        BY <1>2, <2>1
    <2> QED
        BY <1>6, <2>2, <2>3
<1>10. LastNamed(F, i) <=> ~ \E j \in DOMAIN F : j > i /\ F[j].name = F[i].name
    BY <1>2 DEF LastNamed
<1> HIDE DEF with
<1> QED
    BY <1>6, <1>7, <1>8, <1>9, <1>10 DEF F, subs

-----------------------------------------------------------------------------
(***************************************************************************)
(* Return values: when they differ, and what words and bytes say of them.  *)
(***************************************************************************)
\* Two lists of numbers of one length differ in some number.
LEMMA DifferingNumbers ==
    ASSUME NEW v, NEW w, IsSeq(v), IsSeq(w), Len(v) = Len(w)
    PROVE  /\ Value(v).known /\ Value(w).known
           /\ Differ(Value(v), Value(w)) <=>
                 \E i \in 1 .. Len(v) : v[i].nan \/ w[i].nan \/ v[i].bits # w[i].bits
<1>1. DOMAIN v = 1 .. Len(v)
    BY SeqDomain
<1>2. /\ Value(v).known = TRUE /\ Value(w).known = TRUE
      /\ Value(v).numbers = v /\ Value(w).numbers = w
    BY DEF Value
<1> QED
    BY <1>1, <1>2 DEF Differ

\* One number differs from another.
LEMMA DifferingNumber ==
    ASSUME NEW x, NEW y
    PROVE  /\ Value(<<x>>).known /\ Value(<<y>>).known
           /\ Differ(Value(<<x>>), Value(<<y>>)) <=> x.nan \/ y.nan \/ x.bits # y.bits
<1> DEFINE v == <<x>>
<1> DEFINE w == <<y>>
<1>1. IsSeq(v) /\ IsSeq(w) /\ Len(v) = 1 /\ Len(w) = 1 /\ v[1] = x /\ w[1] = y /\ 1 .. 1 = {1}
    <2>1. v \in Seq({x}) /\ w \in Seq({y})
        OBVIOUS
    <2>2. Len(v) = 1 /\ Len(w) = 1 /\ v[1] = x /\ w[1] = y /\ 1 .. 1 = {1}
        OBVIOUS
    <2> HIDE DEF v, w
    <2> QED
        BY <2>1, <2>2 DEF IsSeq
<1> HIDE DEF v, w
<1>2. /\ Value(v).known /\ Value(w).known
      /\ Differ(Value(v), Value(w)) <=> \E i \in {1} : v[i].nan \/ w[i].nan \/ v[i].bits # w[i].bits
    BY <1>1, DifferingNumbers
<1> QED
    BY <1>1, <1>2 DEF v, w

\* Words that are no floating-point number differ where the words do.
LEMMA DifferingWords ==
    ASSUME NEW v, NEW w, IsSeq(v), IsSeq(w), Len(v) = Len(w)
    PROVE  LET Plainly(u) == Value([i \in 1 .. Len(u) |-> Plain(u[i])])
           IN /\ Plainly(v).known /\ Plainly(w).known
              /\ Differ(Plainly(v), Plainly(w)) <=> v # w
<1> DEFINE p == [i \in 1 .. Len(v) |-> Plain(v[i])]
<1> DEFINE q == [i \in 1 .. Len(w) |-> Plain(w[i])]
<1>1. /\ Len(v) \in Nat
      /\ v = [i \in 1 .. Len(v) |-> v[i]] /\ w = [i \in 1 .. Len(v) |-> w[i]]
    BY SeqDomain
<1>2. /\ IsSeq(p) /\ IsSeq(q) /\ Len(p) = Len(v) /\ Len(q) = Len(v)
    <2>1. p = [i \in 1 .. Len(v) |-> p[i]] /\ q = [i \in 1 .. Len(v) |-> q[i]]
        BY <1>1
    <2> HIDE DEF p, q
    <2> QED
        BY <1>1, <2>1, ListIsSeq
<1>3. \A i \in 1 .. Len(v) : /\ ~ p[i].nan /\ ~ q[i].nan
                             /\ p[i].bits = v[i] /\ q[i].bits = w[i]
    BY <1>1 DEF Plain
<1> HIDE DEF p, q
<1>4. /\ Value(p).known /\ Value(q).known
      /\ Differ(Value(p), Value(q)) <=> \E i \in 1 .. Len(v) : v[i] # w[i]
    BY <1>2, <1>3, DifferingNumbers
<1>5. v # w <=> \E i \in 1 .. Len(v) : v[i] # w[i]
    BY <1>1
<1> QED
    BY <1>4, <1>5 DEF p, q

\* Floats differ unless they are the same number.
LEMMA DifferingFloats ==
    ASSUME NEW x, NEW y
    PROVE  Differ(Value(<<Float(x)>>), Value(<<Float(y)>>)) <=>
               \/ Float(x).nan \/ Float(y).nan
               \/ x # y /\ ~ (x \in {0, SignBit} /\ y \in {0, SignBit})
<1>1. /\ Float(x).bits = (IF x = SignBit THEN <<0>> ELSE <<x>>)
      /\ Float(y).bits = (IF y = SignBit THEN <<0>> ELSE <<y>>)
    BY DEF Float
<1>2. \A a, b : <<a>> = <<b>> <=> a = b
    OBVIOUS
<1>3. Float(x).bits # Float(y).bits <=> x # y /\ ~ (x \in {0, SignBit} /\ y \in {0, SignBit})
    <2> HIDE DEF SignBit
    <2> QED
        BY <1>1, <1>2
<1> QED
    BY <1>3, DifferingNumber

\* So do doubles.
LEMMA DifferingDoubles ==
    ASSUME NEW a, NEW b, NEW c, NEW d
    PROVE  Differ(Value(<<Double(a, b)>>), Value(<<Double(c, d)>>)) <=>
               \/ Double(a, b).nan \/ Double(c, d).nan
               \/ <<a, b>> # <<c, d>> /\ ~ (a = 0 /\ b \in {0, SignBit} /\ c = 0 /\ d \in {0, SignBit})
<1>1. /\ Double(a, b).bits = (IF a = 0 /\ b = SignBit THEN <<0, 0>> ELSE <<a, b>>)
      /\ Double(c, d).bits = (IF c = 0 /\ d = SignBit THEN <<0, 0>> ELSE <<c, d>>)
    BY DEF Double
<1>2. \A p, q, r, s : <<p, q>> = <<r, s>> <=> p = r /\ q = s
    OBVIOUS
<1>3. Double(a, b).bits # Double(c, d).bits <=>
         <<a, b>> # <<c, d>> /\ ~ (a = 0 /\ b \in {0, SignBit} /\ c = 0 /\ d \in {0, SignBit})
    <2> HIDE DEF SignBit
    <2> QED
        BY <1>1, <1>2
<1> QED
    BY <1>3, DifferingNumber

\* The verdict on two values.
LEMMA VerdictOfValues ==
    ASSUME NEW a, NEW b, NEW v, NEW w,
           v = fetch_return_value(a, a.return_type), w = fetch_return_value(b, a.return_type)
    PROVE  /\ ~ v.known \/ ~ w.known => compare_return_values(a, b) = "NA"
           /\ v.known /\ w.known /\ a.return_type.class # "None" =>
                 compare_return_values(a, b) = IF Differ(v, w) THEN "FAIL" ELSE "OK"
<1>1. compare_return_values(a, b) =
         CASE a.return_type.class = "None" -> "NA"
           [] ~ (v.known /\ w.known) -> "NA"
           [] v.known /\ w.known /\ Differ(v, w) -> "FAIL"
           [] OTHER -> "OK"
    BY Zenon DEF compare_return_values
<1>2. CASE ~ v.known \/ ~ w.known
    BY <1>1, <1>2
<1>3. CASE v.known /\ w.known /\ a.return_type.class # "None"
    BY <1>1, <1>3
<1> QED
    BY <1>2, <1>3

\* Bytes without their leading zeros are the bytes behind those zeros.
LEMMA SignificantIs ==
    ASSUME NEW data \in Seq(0 .. 255)
    PROVE  \E z \in 0 .. Len(data) :
              /\ Significant(data) \in Seq(0 .. 255)
              /\ Len(Significant(data)) = Len(data) - z
              /\ \A i \in 1 .. z : data[i] = 0
              /\ \A i \in z + 1 .. Len(data) : data[i] = Significant(data)[i - z]
<1> DEFINE n == Len(data)
<1> DEFINE first == { i \in DOMAIN data : data[i] # 0 /\ \A j \in 1 .. (i - 1) : data[j] = 0 }
<1> DEFINE nonzero == { i \in 1 .. n : data[i] # 0 }
<1>1. n \in Nat /\ DOMAIN data = 1 .. n
    OBVIOUS
<1>2. \A i \in 1 .. n : data[i] \in 0 .. 255
    BY ElementIn
<1>3. CASE nonzero = {}
    <2>1. first = {}
        BY <1>1, <1>3
    <2>2. Significant(data) = << >>
        BY <2>1 DEF Significant
    <2>3. n \in 0 .. n /\ n - n = 0 /\ n + 1 .. n = {} /\ Len(<< >>) = 0
        BY <1>1
    <2>4. \A i \in 1 .. n : data[i] = 0
        BY <1>3
    <2>5. << >> \in Seq(0 .. 255)
        OBVIOUS
    <2> QED
        BY <2>2, <2>3, <2>4, <2>5
<1>4. CASE nonzero # {}
    <2>1. PICK f \in nonzero : \A j \in nonzero : f <= j
        <3>1. nonzero \subseteq 1 .. n
            OBVIOUS
        <3> HIDE DEF nonzero, n
        <3> QED
            BY <1>1, <1>4, <3>1, SmallestOf
    <2>2. f \in 1 .. n /\ data[f] # 0
        OBVIOUS
    <2>3. \A j \in 1 .. (f - 1) : data[j] = 0
        <3> SUFFICES ASSUME NEW j \in 1 .. (f - 1), data[j] # 0 PROVE FALSE
            OBVIOUS
        <3>1. j \in 1 .. n /\ ~ (f <= j)
            BY <1>1, <2>2
        <3> QED
            BY <2>1, <3>1
    <2>4. first = {f}
        <3>1. f \in first
            BY <1>1, <2>2, <2>3
        <3>2. ASSUME NEW i \in first
              PROVE  i = f
            <4>1. i \in 1 .. n /\ data[i] # 0 /\ \A j \in 1 .. (i - 1) : data[j] = 0
                BY <1>1
            <4>2. f <= i
                BY <2>1, <4>1
            <4>3. ~ (f \in 1 .. (i - 1))
                BY <2>2, <4>1
            <4> QED
                BY <2>2, <4>1, <4>2, <4>3
        <3> QED
            BY <3>1, <3>2
    <2> DEFINE sig == Significant(data)
    <2>5. sig = SubSeq(data, f, n)
        <3>1. (CHOOSE i \in first : TRUE) = f /\ first # {}
            BY <2>4
        <3> HIDE DEF first
        <3> QED
            BY <3>1 DEF Significant, first
    <2>6. /\ sig \in Seq(0 .. 255) /\ Len(sig) = n - f + 1
          /\ \A i \in 1 .. n - f + 1 : sig[i] = data[f + i - 1]
        <3>1. f \in Int /\ n \in Int /\ f <= n /\ \A i \in f .. n : data[i] \in 0 .. 255
            BY <1>1, <1>2, <2>2
        <3> HIDE DEF sig, n
        <3>2. /\ SubSeq(data, f, n) \in Seq(0 .. 255)
              /\ Len(SubSeq(data, f, n)) = IF f <= n THEN n - f + 1 ELSE 0
              /\ \A i \in 1 .. n - f + 1 : SubSeq(data, f, n)[i] = data[f + i - 1]
            BY <3>1, SubSeqProperties
        <3> QED
            BY <2>5, <3>1, <3>2
    <2> DEFINE z == f - 1
    <2>7. /\ z \in 0 .. n /\ n - z = n - f + 1
          /\ \A i \in z + 1 .. n : i - z \in 1 .. n - f + 1 /\ f + (i - z) - 1 = i
        BY <1>1, <2>2
    <2>8. \A i \in z + 1 .. n : data[i] = sig[i - z]
        BY <2>6, <2>7
    <2> HIDE DEF sig, z
    <2>9. /\ sig \in Seq(0 .. 255) /\ Len(sig) = n - z
          /\ \A i \in 1 .. z : data[i] = 0
          /\ \A i \in z + 1 .. n : data[i] = sig[i - z]
        BY <2>3, <2>6, <2>7, <2>8 DEF z
    <2> QED
        BY <2>7, <2>9 DEF sig
<1> QED
    BY <1>3, <1>4

\* Bytes of one length that are the same without their leading zeros are the same.
LEMMA SignificantInjective ==
    ASSUME NEW v \in Seq(0 .. 255), NEW w \in Seq(0 .. 255), Len(v) = Len(w),
           Significant(v) = Significant(w)
    PROVE  v = w
<1>1. PICK y \in 0 .. Len(v) :
              /\ Len(Significant(v)) = Len(v) - y
              /\ \A i \in 1 .. y : v[i] = 0
              /\ \A i \in y + 1 .. Len(v) : v[i] = Significant(v)[i - y]
    BY SignificantIs
<1>2. PICK z \in 0 .. Len(w) :
              /\ Len(Significant(w)) = Len(w) - z
              /\ \A i \in 1 .. z : w[i] = 0
              /\ \A i \in z + 1 .. Len(w) : w[i] = Significant(w)[i - z]
    BY SignificantIs
<1> DEFINE n == Len(v)
<1>3. n \in Nat
    OBVIOUS
<1>4. y = z
    BY <1>1, <1>2, <1>3
<1>5. ASSUME NEW i \in 1 .. n
      PROVE  v[i] = w[i]
    <2>1. i \in 1 .. y \/ i \in y + 1 .. n
        BY <1>3
    <2> QED
        BY <1>1, <1>2, <1>4, <2>1
<1> QED
    BY <1>5, SeqEqual

\* Words of memory, and those that were found of n parts.
DataWords == { w \in Seq(0 .. 255) : Len(w) = 4 }

WordsIn(part, n) ==
    FlattenSeq([i \in 1 .. n |-> IF part[i - 1] = << >> THEN << >> ELSE <<part[i - 1]>>])

ArePartsOf(part, n) == \A p \in 0 .. (n - 1) : part[p] # << >> => part[p] \in DataWords
SameFound(P, Q, n) == \A p \in 0 .. (n - 1) : P[p] = << >> <=> Q[p] = << >>

\* Where the same parts were found, the words are the same if the parts are.
LEMMA WordsOfParts ==
    ASSUME NEW n \in Nat, NEW P, NEW Q, ArePartsOf(P, n), ArePartsOf(Q, n),
           SameFound(P, Q, n)
    PROVE  /\ WordsIn(P, n) \in Seq(DataWords) /\ WordsIn(Q, n) \in Seq(DataWords)
           /\ Len(WordsIn(P, n)) <= n /\ Len(WordsIn(P, n)) = Len(WordsIn(Q, n))
           /\ WordsIn(P, n) = WordsIn(Q, n) <=> \A p \in 0 .. (n - 1) : P[p] = Q[p]
<1> DEFINE s == [i \in 1 .. n |-> IF P[i - 1] = << >> THEN << >> ELSE <<P[i - 1]>>]
<1> DEFINE t == [i \in 1 .. n |-> IF Q[i - 1] = << >> THEN << >> ELSE <<Q[i - 1]>>]
<1>1. \A x \in DataWords : /\ <<x>> \in Seq(DataWords) /\ Len(<<x>>) = 1 /\ <<x>> # << >>
                           /\ <<x>>[1] = x
    OBVIOUS
<1>2. << >> \in Seq(DataWords) /\ Len(<< >>) = 0
    OBVIOUS
<1>3. \A i \in 1 .. n : i - 1 \in 0 .. (n - 1)
    OBVIOUS
<1>4. \A p \in 0 .. (n - 1) : p + 1 \in 1 .. n /\ p + 1 - 1 = p
    OBVIOUS
<1>5. \A i \in 1 .. n : /\ P[i - 1] # << >> => P[i - 1] \in DataWords
                        /\ Q[i - 1] # << >> => Q[i - 1] \in DataWords
                        /\ P[i - 1] = << >> <=> Q[i - 1] = << >>
    BY <1>3 DEF ArePartsOf, SameFound
<1>6. ASSUME NEW i \in 1 .. n
      PROVE  /\ s[i] \in Seq(DataWords) /\ Len(s[i]) \in {0, 1}
             /\ t[i] \in Seq(DataWords) /\ Len(t[i]) = Len(s[i])
             /\ s[i] = t[i] <=> P[i - 1] = Q[i - 1]
    <2> DEFINE x == P[i - 1]
    <2> DEFINE y == Q[i - 1]
    <2>1. /\ s[i] = IF x = << >> THEN << >> ELSE <<x>>
          /\ t[i] = IF y = << >> THEN << >> ELSE <<y>>
        OBVIOUS
    <2>2. /\ x # << >> => x \in DataWords
          /\ y # << >> => y \in DataWords
          /\ x = << >> <=> y = << >>
        BY <1>5
    <2> SUFFICES /\ s[i] \in Seq(DataWords) /\ Len(s[i]) \in {0, 1}
                 /\ t[i] \in Seq(DataWords) /\ Len(t[i]) = Len(s[i])
                 /\ s[i] = t[i] <=> x = y
        OBVIOUS
    <2> HIDE DEF s, t, x, y
    <2>3. CASE x = << >>
        BY <1>2, <2>1, <2>2, <2>3
    <2>4. CASE x # << >>
        <3>1. s[i] = <<x>> /\ t[i] = <<y>> /\ x \in DataWords /\ y \in DataWords
            BY <2>1, <2>2, <2>4
        <3>2. <<x>> = <<y>> <=> x = y
            OBVIOUS
        <3> QED
            BY <1>1, <3>1, <3>2
    <2> QED
        BY <2>3, <2>4
<1>7. s = [i \in 1 .. n |-> s[i]] /\ t = [i \in 1 .. n |-> t[i]]
    OBVIOUS
<1>8. WordsIn(P, n) = FlattenSeq(s) /\ WordsIn(Q, n) = FlattenSeq(t)
    BY DEF WordsIn
<1> HIDE DEF s, t
<1>9. /\ s \in Seq(Seq(DataWords)) /\ t \in Seq(Seq(DataWords))
      /\ Len(s) = n /\ Len(t) = n
    <2>1. s \in [1 .. n -> Seq(DataWords)] /\ t \in [1 .. n -> Seq(DataWords)]
        BY <1>6, <1>7
    <2> QED
        BY <2>1, ListIn
<1>10. /\ FlattenSeq(s) \in Seq(DataWords) /\ Len(FlattenSeq(s)) <= n
       /\ FlattenSeq(t) \in Seq(DataWords)
    BY <1>6, <1>9, FlattenShort
<1>11. /\ Len(FlattenSeq(s)) = Len(FlattenSeq(t))
       /\ FlattenSeq(s) = FlattenSeq(t) => \A i \in 1 .. n : s[i] = t[i]
    <2>1. Len(s) = Len(t) /\ \A g \in 1 .. Len(s) : Len(s[g]) = Len(t[g])
        BY <1>6, <1>9
    <2>2. /\ Len(FlattenSeq(s)) = Len(FlattenSeq(t))
          /\ FlattenSeq(s) = FlattenSeq(t) => \A i \in 1 .. Len(s) : s[i] = t[i]
        BY <1>9, <2>1, FlattenInjective, Zenon
    <2> QED
        BY <1>9, <2>2
<1>12. (\A i \in 1 .. n : s[i] = t[i]) <=> \A p \in 0 .. (n - 1) : P[p] = Q[p]
    <2>1. ASSUME \A i \in 1 .. n : s[i] = t[i], NEW p \in 0 .. (n - 1)
          PROVE  P[p] = Q[p]
        <3> DEFINE i == p + 1
        <3>1. i \in 1 .. n /\ i - 1 = p
            BY <1>4
        <3> HIDE DEF i
        <3>2. P[i - 1] = Q[i - 1]
            BY <1>6, <2>1, <3>1
        <3> QED
            BY <3>1, <3>2
    <2>2. ASSUME \A p \in 0 .. (n - 1) : P[p] = Q[p], NEW i \in 1 .. n
          PROVE  s[i] = t[i]
        BY <1>3, <1>6, <2>2
    <2> QED
        BY <2>1, <2>2
<1>13. (\A i \in 1 .. n : s[i] = t[i]) => s = t
    BY <1>7
<1> QED
    BY <1>8, <1>10, <1>11, <1>12, <1>13

\* Lists of words differ unless they are the same.
LEMMA DifferingLists ==
    ASSUME NEW v, NEW w, IsSeq(v), IsSeq(w)
    PROVE  LET Plainly(u) == Value([i \in DOMAIN u |-> Plain(u[i])])
           IN /\ Plainly(v).known /\ Plainly(w).known
              /\ Differ(Plainly(v), Plainly(w)) <=> v # w
<1> DEFINE p == [i \in 1 .. Len(v) |-> Plain(v[i])]
<1> DEFINE q == [i \in 1 .. Len(w) |-> Plain(w[i])]
<1>1. /\ DOMAIN v = 1 .. Len(v) /\ DOMAIN w = 1 .. Len(w)
      /\ Len(v) \in Nat /\ Len(w) \in Nat
    BY SeqDomain
<1>2. Len(p) = Len(v) /\ Len(q) = Len(w)
    <2>1. p = [i \in 1 .. Len(v) |-> p[i]] /\ q = [i \in 1 .. Len(w) |-> q[i]]
        OBVIOUS
    <2> HIDE DEF p, q
    <2> QED
        BY <1>1, <2>1, ListIsSeq
<1>3. /\ Value(p).known /\ Value(q).known
      /\ Differ(Value(p), Value(q)) <=> v # w
    <2>1. CASE Len(v) = Len(w)
        BY <2>1, DifferingWords
    <2>2. CASE Len(v) # Len(w)
        <3> HIDE DEF p, q
        <3>1. \A u : Value(u).known /\ Value(u).numbers = u
            BY DEF Value
        <3>2. Differ(Value(p), Value(q)) /\ v # w
            BY <1>2, <2>2, <3>1 DEF Differ
        <3> QED
            BY <3>1, <3>2
    <2> QED
        BY <2>1, <2>2
<1> QED
    BY <1>1, <1>3

\* Each word is found again in the bytes of all.
LEMMA WordAt ==
    ASSUME NEW words \in Seq(DataWords), NEW i \in 1 .. Len(words)
    PROVE  LET bytes == FlattenSeq(words)
           IN SubSeq(bytes, (i - 1) * XLenBytes + 1,
                     IF i * XLenBytes < Len(bytes) THEN i * XLenBytes ELSE Len(bytes)) = words[i]
<1> DEFINE bytes == FlattenSeq(words)
<1> DEFINE m == (i - 1) * 4
<1>1. \A g \in 1 .. Len(words) : words[g] \in DataWords
    BY ElementIn
<1>2. words \in Seq(Seq(0 .. 255)) /\ \A g \in 1 .. Len(words) : Len(words[g]) = 4
    <2>1. DataWords \subseteq Seq(0 .. 255) /\ \A w \in DataWords : Len(w) = 4
        BY DEF DataWords
    <2>2. words = [g \in 1 .. Len(words) |-> words[g]] /\ Len(words) \in Nat
        OBVIOUS
    <2> HIDE DEF DataWords
    <2>3. words \in [1 .. Len(words) -> Seq(0 .. 255)]
        BY <1>1, <2>1, <2>2
    <2> QED
        BY <1>1, <2>1, <2>2, <2>3, SeqDef
<1>3. /\ bytes \in Seq(0 .. 255) /\ Len(bytes) = Len(words) * 4
      /\ \A x \in 1 .. 4 : bytes[m + x] = words[i][x]
    <2>1. /\ bytes \in Seq(0 .. 255) /\ Len(bytes) = Len(words) * 4
          /\ \A g \in 1 .. Len(words) : \A x \in 1 .. 4 : bytes[(g - 1) * 4 + x] = words[g][x]
        <3> DEFINE D == 0 .. 255
        <3> DEFINE L == 4
        <3>1. L \in Nat /\ words \in Seq(Seq(D)) /\ \A g \in 1 .. Len(words) : Len(words[g]) = L
            BY <1>2
        <3> SUFFICES /\ bytes \in Seq(D) /\ Len(bytes) = Len(words) * L
                     /\ \A g \in 1 .. Len(words) : \A x \in 1 .. L :
                           bytes[(g - 1) * L + x] = words[g][x]
            OBVIOUS
        <3> HIDE DEF D, L
        <3> QED
            BY <3>1, FlattenBlocks
    <2> HIDE DEF bytes
    <2>2. \A x \in 1 .. 4 : bytes[(i - 1) * 4 + x] = words[i][x]
        BY <2>1, Zenon
    <2> QED
        BY <2>1, <2>2
<1>4. i \in 1 .. Len(words) /\ Len(words) \in Nat
    OBVIOUS
<1> HIDE DEF bytes
<1>5. /\ m \in Nat /\ i * 4 = m + 4 /\ m + 4 <= Len(bytes)
    <2> DEFINE n == Len(words)
    <2>1. i \in Nat /\ n \in Nat /\ i <= n /\ Len(bytes) = n * 4 /\ i >= 1
        BY <1>3, <1>4
    <2> HIDE DEF n
    <2> QED
        BY <2>1
<1> HIDE DEF m
<1>6. (IF i * 4 < Len(bytes) THEN i * 4 ELSE Len(bytes)) = m + 4
    <2>1. \A x, y \in Nat : x <= y => (IF x < y THEN x ELSE y) = x
        OBVIOUS
    <2>2. Len(bytes) \in Nat /\ m + 4 \in Nat
        BY <1>3, <1>5
    <2> QED
        BY <1>5, <2>1, <2>2
<1> DEFINE word == SubSeq(bytes, m + 1, m + 4)
<1>7. word \in Seq(0 .. 255) /\ Len(word) = 4 /\ \A x \in 1 .. 4 : word[x] = bytes[m + x]
    <2>1. /\ m + 1 \in Int /\ m + 4 \in Int /\ m + 1 <= m + 4 /\ m + 4 - (m + 1) + 1 = 4
          /\ \A x \in m + 1 .. m + 4 : x \in 1 .. Len(bytes)
          /\ \A x \in 1 .. 4 : m + 1 + x - 1 = m + x
        BY <1>3, <1>5
    <2>2. \A x \in m + 1 .. m + 4 : bytes[x] \in 0 .. 255
        <3> SUFFICES ASSUME NEW x \in m + 1 .. m + 4 PROVE bytes[x] \in 0 .. 255
            OBVIOUS
        <3>1. x \in 1 .. Len(bytes)
            BY <2>1
        <3> QED
            BY <1>3, <3>1, ElementIn
    <2>3. /\ word \in Seq(0 .. 255)
          /\ Len(word) = IF m + 1 <= m + 4 THEN m + 4 - (m + 1) + 1 ELSE 0
          /\ \A x \in 1 .. m + 4 - (m + 1) + 1 : word[x] = bytes[m + 1 + x - 1]
        BY <2>1, <2>2, SubSeqProperties
    <2> HIDE DEF word
    <2> QED
        BY <2>1, <2>3
<1> HIDE DEF word
<1>8. word = words[i]
    <2>1. words[i] \in Seq(0 .. 255) /\ Len(words[i]) = 4
        BY <1>1 DEF DataWords
    <2>2. \A x \in 1 .. Len(word) : word[x] = words[i][x]
        BY <1>3, <1>7
    <2> QED
        BY <1>7, <2>1, <2>2, SeqEqual
<1> QED
    BY <1>6, <1>8 DEF XLenBytes, m, word, bytes

\* The numbers of two structs differ unless their words are the same, when as
\* many were found.
LEMMA DifferingStructs ==
    ASSUME NEW n \in Nat, NEW v \in Seq(DataWords), NEW w \in Seq(DataWords),
           Len(v) = Len(w), Len(v) <= n
    PROVE  LET a == Value(resolve_struct_memory_values(n, v))
               b == Value(resolve_struct_memory_values(n, w))
           IN /\ a.known /\ b.known
              /\ Differ(a, b) <=> v # w
<1> DEFINE CutOf(words, i) ==
               LET bytes == FlattenSeq(words)
               IN SubSeq(bytes, (i - 1) * XLenBytes + 1,
                         IF i * XLenBytes < Len(bytes) THEN i * XLenBytes ELSE Len(bytes))
<1> DEFINE NumbersOf(words) == [i \in 1 .. n |-> Plain(Significant(Reverse(CutOf(words, i))))]
<1> DEFINE p == NumbersOf(v)
<1> DEFINE q == NumbersOf(w)
<1>1. /\ resolve_struct_memory_values(n, v) = p
      /\ resolve_struct_memory_values(n, w) = q
    BY DEF resolve_struct_memory_values
<1>2. /\ \A i \in 1 .. Len(v) : CutOf(v, i) = v[i]
      /\ \A i \in 1 .. Len(w) : CutOf(w, i) = w[i]
    BY WordAt
<1> HIDE DEF CutOf
<1>3. \A i \in 1 .. n : /\ ~ p[i].nan /\ ~ q[i].nan
                        /\ p[i].bits = Significant(Reverse(CutOf(v, i)))
                        /\ q[i].bits = Significant(Reverse(CutOf(w, i)))
    BY DEF Plain
<1>4. IsSeq(p) /\ IsSeq(q) /\ Len(p) = n /\ Len(q) = n
    <2>1. p = [i \in 1 .. n |-> p[i]] /\ q = [i \in 1 .. n |-> q[i]]
        OBVIOUS
    <2> HIDE DEF p, q
    <2> QED
        BY <2>1, ListIsSeq
<1>5. v = w => p = q
    OBVIOUS
<1> HIDE DEF p, q
<1>6. /\ Value(p).known /\ Value(q).known
      /\ Differ(Value(p), Value(q)) <=> \E i \in 1 .. n : p[i].bits # q[i].bits
    BY <1>3, <1>4, DifferingNumbers
<1>7. ASSUME v # w
      PROVE  \E i \in 1 .. n : p[i].bits # q[i].bits
    <2>1. PICK i \in 1 .. Len(v) : v[i] # w[i]
        BY <1>7, SeqEqual
    <2>2. i \in 1 .. n /\ i \in 1 .. Len(w)
        OBVIOUS
    <2>3. v[i] \in DataWords /\ w[i] \in DataWords
        BY <2>2, ElementIn
    <2> DEFINE x == v[i]
    <2> DEFINE y == w[i]
    <2>4. x \in Seq(0 .. 255) /\ y \in Seq(0 .. 255) /\ Len(x) = Len(y) /\ x # y
        BY <2>1, <2>3 DEF DataWords
    <2>5. p[i].bits = Significant(Reverse(x)) /\ q[i].bits = Significant(Reverse(y))
        BY <1>2, <1>3, <2>2
    <2> HIDE DEF x, y
    <2>6. /\ Reverse(x) \in Seq(0 .. 255) /\ Len(Reverse(x)) = Len(x) /\ Reverse(x) # Reverse(y)
          /\ Reverse(y) \in Seq(0 .. 255) /\ Len(Reverse(y)) = Len(y)
        BY <2>4, ReverseInjective
    <2>7. Significant(Reverse(x)) # Significant(Reverse(y))
        BY <2>4, <2>6, SignificantInjective
    <2> QED
        BY <2>2, <2>5, <2>7
<1> QED
    BY <1>1, <1>5, <1>6, <1>7

\* The n words from start are in d what part says.
AreFound(d, start, n, part) ==
    \A p \in 0 .. (n - 1) :
        LET key == BareKey(start + p * 4)
        IN /\ key \in DOMAIN d <=> part[p] # << >>
           /\ key \in DOMAIN d => Last(d[key]).data = part[p]

\* Then they are found when they are looked up.
LEMMA WordsFound ==
    ASSUME NEW d, NEW start, NEW n \in Nat, NEW bytes, bytes \div 4 = n, NEW part,
           AreFound(d, start, n, part)
    PROVE  get_last_writes_to_mem_range(d, start, bytes) = WordsIn(part, n)
<1> DEFINE found == [i \in 1 .. n |->
                        LET key == BareKey(start + (i - 1) * 4)
                        IN IF key \in DOMAIN d THEN <<Last(d[key]).data>> ELSE << >>]
<1> DEFINE words == [i \in 1 .. n |-> IF part[i - 1] = << >> THEN << >> ELSE <<part[i - 1]>>]
<1>1. get_last_writes_to_mem_range(d, start, bytes) = FlattenSeq(found)
    BY DEF get_last_writes_to_mem_range, XLenBytes
<1>2. WordsIn(part, n) = FlattenSeq(words)
    BY DEF WordsIn
<1>3. ASSUME NEW i \in 1 .. n
      PROVE  found[i] = words[i]
    <2> DEFINE p == i - 1
    <2> DEFINE key == BareKey(start + p * 4)
    <2>1. p \in 0 .. (n - 1)
        OBVIOUS
    <2>2. /\ found[i] = IF key \in DOMAIN d THEN <<Last(d[key]).data>> ELSE << >>
          /\ words[i] = IF part[p] = << >> THEN << >> ELSE <<part[p]>>
        OBVIOUS
    <2>3. /\ key \in DOMAIN d <=> part[p] # << >>
          /\ key \in DOMAIN d => Last(d[key]).data = part[p]
        <3> HIDE DEF p
        <3> QED
            BY <2>1 DEF AreFound
    <2> HIDE DEF found, words, p, key
    <2> QED
        BY <2>2, <2>3
<1>4. found = words
    BY <1>3
<1> QED
    BY <1>1, <1>2, <1>4
=============================================================================
