----------------------------- MODULE TraceFile -----------------------------
(***************************************************************************)
(* trace.bin as parse_trace_file reads it back: packed records of a fixed  *)
(* size per type, possibly cut anywhere because the writer ignores a write *)
(* that fails.  The writer knows no type besides these three, so the       *)
(* parser's stop at an unknown one does not arise.                         *)
(***************************************************************************)
EXTENDS Integers, Sequences, FiniteSets

CONSTANTS
    HeaderBytes,     \* bytes of the type field, HEADER_BYTE_SIZE
    RecordBytes      \* bytes of a record, by type

ASSUME RecordBytesAssumption ==
    /\ HeaderBytes \in Nat \ {0}
    /\ RecordBytes \in [{"state_snapshot", "dwrite", "dread"} -> Nat]
    /\ \A k \in DOMAIN RecordBytes : RecordBytes[k] >= HeaderBytes

VARIABLES
    trace_file,      \* the records the simulation wrote or tried to write
    ends,            \* the byte each of them ends at
    file_bytes,      \* the bytes that reached the file
    offset,          \* f.tell()
    parsed,          \* the list parse_trace_file builds
    parsing          \* "idle", "reading", "parsed" or "raised"

parseVars == <<trace_file, ends, file_bytes, offset, parsed, parsing>>

\* The digits of an address of 32 bits in hexadecimal, without padding.
PowersOf16 == {16, 256, 4096, 65536, 1048576, 16777216, 268435456}
HexDigits(a) == 1 + Cardinality({ p \in PowersOf16 : a >= p })

\* Location strings are dictionary keys later on: equal when they stand for
\* the same address in the same number of digits.
Key(address, digits) == [address |-> address, digits |-> digits]
PaddedKey(a) == Key(a, IF HexDigits(a) < 8 THEN 8 ELSE HexDigits(a))   \* f"{a:08x}"
BareKey(a) == Key(a, HexDigits(a))                                    \* hex(a)[2:]

\* parse_memory_access keeps the bytes the access had, of the record's buffer.
parse_memory_access(r) ==
    [type |-> r.type, location |-> PaddedKey(r.address),
     data |-> SubSeq(r.buffer, 1, r.byte_size)]
parse_record(r) == IF r.type = "state_snapshot" THEN r ELSE parse_memory_access(r)

EndOf(n) == IF n = 0 THEN 0 ELSE ends[n]
TraceBytes == EndOf(Len(trace_file))

\* TraceFileWriter appends a record.
WriteToTrace(r) ==
    /\ trace_file' = Append(trace_file, r)
    /\ ends' = Append(ends, TraceBytes + RecordBytes[r.type])

NoTrace ==
    /\ trace_file = << >> /\ ends = << >> /\ file_bytes = 0 /\ offset = 0
    /\ parsed = << >> /\ parsing = "idle"

\* The other binary's simulation starts with a new file.
NewTrace ==
    /\ trace_file' = << >> /\ ends' = << >> /\ file_bytes' = 0 /\ offset' = 0
    /\ parsed' = << >> /\ parsing' = "idle"

NextRecord == trace_file[Len(parsed) + 1]
Remaining == file_bytes - offset

\* The simulation is over, and `lost' bytes of the end did not reach the disk.
StartParsing(lost) ==
    /\ parsing = "idle"
    /\ lost \in 0 .. TraceBytes
    /\ file_bytes' = TraceBytes - lost
    /\ offset' = 0 /\ parsed' = << >> /\ parsing' = "reading"
    /\ UNCHANGED <<trace_file, ends>>

ReadRecord ==
    /\ parsing = "reading"
    /\ Remaining >= HeaderBytes
    /\ Remaining >= RecordBytes[NextRecord.type]
    /\ parsed' = Append(parsed, parse_record(NextRecord))
    /\ offset' = offset + RecordBytes[NextRecord.type]
    /\ UNCHANGED <<trace_file, ends, file_bytes, parsing>>

\* The bytes left are no whole record (ValueError).
ReadCutRecord ==
    /\ parsing = "reading"
    /\ Remaining >= HeaderBytes
    /\ Remaining < RecordBytes[NextRecord.type]
    /\ parsing' = "raised"
    /\ UNCHANGED <<trace_file, ends, file_bytes, offset, parsed>>

\* Mutant: a record that is cut short ends the file as well.
ReadEndAtAnyCut ==
    /\ parsing = "reading"
    /\ Remaining >= HeaderBytes => Remaining < RecordBytes[NextRecord.type]
    /\ parsing' = "parsed"
    /\ UNCHANGED <<trace_file, ends, file_bytes, offset, parsed>>

\* The bytes left are no type field.
ReadEnd ==
    /\ parsing = "reading"
    /\ Remaining < HeaderBytes
    /\ parsing' = "parsed"
    /\ UNCHANGED <<trace_file, ends, file_bytes, offset, parsed>>

ParseNext == ReadRecord \/ ReadCutRecord \/ ReadEnd

-----------------------------------------------------------------------------
Image(records, n) == [i \in 1 .. n |-> parse_record(records[i])]

\* A trace that is accepted is an unaltered beginning of what was written, and
\* ends where the file does but for a part of one type field: no byte of a
\* record is dropped without an exception (parse_trace_file).
WholeOrRaised ==
    /\ Len(parsed) <= Len(trace_file)
    /\ parsed = Image(trace_file, Len(parsed))
    /\ parsing = "parsed" =>
          /\ EndOf(Len(parsed)) <= file_bytes
          /\ file_bytes < EndOf(Len(parsed)) + HeaderBytes
=============================================================================
