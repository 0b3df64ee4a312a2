---------------------------- MODULE GlobalWrites ----------------------------
(***************************************************************************)
(* The writes a SimulationDataEntry holds and what it answers about them:  *)
(* the last write to each part of each global variable, and the last       *)
(* writes to a range of memory.  All lookups go through location strings.  *)
(***************************************************************************)
EXTENDS DwarfExtraction, TraceFile

XLenBytes == 4       \* xlen_bytes of the entry

\* append_dwrite_instruction: a list of writes per location.
append_dwrite(dwrites, w) ==
    LET write == [location |-> w.location, data |-> w.data]
    IN [k \in DOMAIN dwrites \cup {w.location} |->
           IF k # w.location THEN dwrites[k]
           ELSE IF k \in DOMAIN dwrites THEN Append(dwrites[k], write)
           ELSE <<write>>]

NoWrites == [k \in {} |-> << >>]

CeilQuotient(n, d) == (n + d - 1) \div d

\* The steps from the variable's address at which its writes are looked for:
\* one per element of an array, one per word of anything else.
IsArray(var) == var.type.class = "ArrayType"
Step(var) == IF IsArray(var) THEN var.type.base ELSE XLenBytes
get_number_of_elements(var) ==
    IF var.type.base = 0 THEN 0 ELSE var.type.range \div var.type.base
Parts(var) ==
    IF IsArray(var) THEN get_number_of_elements(var)
    ELSE CeilQuotient(var.type.range, XLenBytes)

\* DW_OP_addr and hex() alike write the address without padding.
PartKey(var, idx) == BareKey(var.location + idx * Step(var))

Located(vars) == { i \in DOMAIN vars : vars[i].location # NoAddress }

\* A range of None cannot be divided into words (TypeError).
LastWritesRaise(vars) == \E i \in Located(vars) : vars[i].type.range = None

\* "name:idx" |-> the last write there; of two variables of one name, the
\* later one's writes replace the earlier one's.
WrittenParts(var, dwrites) ==
    { <<var.name, idx>> : idx \in { i \in 0 .. (Parts(var) - 1) : PartKey(var, i) \in DOMAIN dwrites } }
get_last_writes_to_global_var_locations(vars, dwrites) ==
    LET Written(i) == WrittenParts(vars[i], dwrites)
        Answering(p) ==
            vars[CHOOSE i \in Located(vars) :
                    /\ p \in Written(i)
                    /\ \A j \in Located(vars) : p \in Written(j) => j <= i]
    IN [p \in UNION { Written(i) : i \in Located(vars) } |->
           Last(dwrites[PartKey(Answering(p), p[2])])]

\* Mutant: the first write to each word.
FirstWritesToMemRange(dwrites, mem_start, bytes) ==
    FlattenSeq([i \in 1 .. (bytes \div XLenBytes) |->
        LET key == BareKey(mem_start + (i - 1) * XLenBytes)
        IN IF key \in DOMAIN dwrites THEN <<Head(dwrites[key]).data>> ELSE << >>])

\* ceil(bytes // 4) words from mem_start; a word never written is left out.
get_last_writes_to_mem_range(dwrites, mem_start, bytes) ==
    FlattenSeq([i \in 1 .. (bytes \div XLenBytes) |->
        LET key == BareKey(mem_start + (i - 1) * XLenBytes)
        IN IF key \in DOMAIN dwrites THEN <<Last(dwrites[key]).data>> ELSE << >>])
=============================================================================
