---------------------------- MODULE ReturnValue ----------------------------
(***************************************************************************)
(* The return value of one call, as VerificationStage.fetch_return_value   *)
(* and the march classes read it from the snapshot of the return and from  *)
(* the call's writes.                                                      *)
(*                                                                         *)
(* Registers are 32-bit words, written as signed numbers; fa0 and fa1 are  *)
(* pairs <<low, high>>.  A value is the list of numbers that is compared,  *)
(* each with the bits that decide equality; a floating-point number also   *)
(* says whether it is a NaN, which equals nothing, and has no sign when it *)
(* is zero.                                                                *)
(***************************************************************************)
EXTENDS GlobalWrites

\* The mnemonic each march takes for the return.
EpilogueInstruction(march) ==
    IF march = "rv32im_zicsr_zifencei" THEN "jalr" ELSE "cjr"
HasFloatRegisters(march) == march = "rv32imafdc_zicsr_zifencei"

\* fetch_epilogue_state: the first of them, << >> if there is none.
fetch_epilogue_state(march, epilogue) ==
    LET returns == { i \in DOMAIN epilogue :
                       epilogue[i].instruction = EpilogueInstruction(march) }
    IN IF returns = {} THEN << >>
       ELSE <<epilogue[CHOOSE i \in returns : \A j \in returns : i <= j]>>

-----------------------------------------------------------------------------
\* Python values.
NoValue == [known |-> FALSE, numbers |-> << >>]
Value(numbers) == [known |-> TRUE, numbers |-> numbers]
Plain(bits) == [nan |-> FALSE, bits |-> bits]

SignBit == (-2147483647) - 1
Float(w) ==
    [nan |-> (w \div 2 ^ 23) % 256 = 255 /\ w % 2 ^ 23 # 0,
     bits |-> IF w = SignBit THEN <<0>> ELSE <<w>>]
Double(low, high) ==
    [nan |-> (high \div 2 ^ 20) % 2048 = 2047 /\ (high % 2 ^ 20 # 0 \/ low # 0),
     bits |-> IF low = 0 /\ high = SignBit THEN <<0, 0>> ELSE <<low, high>>]

\* gr_rv != ci_rv
Differ(v, w) ==
    \/ Len(v.numbers) # Len(w.numbers)
    \/ \E i \in DOMAIN v.numbers :
          \/ v.numbers[i].nan \/ w.numbers[i].nan
          \/ v.numbers[i].bits # w.numbers[i].bits

-----------------------------------------------------------------------------
(***************************************************************************)
(* The fetch functions; s is the snapshot of the return.                   *)
(***************************************************************************)
fetch_int_return_value(s) == Value(<<Plain(<<s.a0>>)>>)

\* Both integers and doubles of two words are read as a double.
form_64_bit_value_from_regs_a0_and_a1(s) == Value(<<Double(s.a0, s.a1)>>)

\* Mutant: every march returns a float in a0.
FloatInA0(march, s) == Value(<<Float(s.a0)>>)

\* The low word of the NaN-boxed fa0, or a0.
fetch_float_return_value(march, s) ==
    Value(<<Float(IF HasFloatRegisters(march) THEN s.fa0[1] ELSE s.a0)>>)
fetch_double_return_value(march, s) ==
    IF HasFloatRegisters(march) THEN Value(<<Double(s.fa0[1], s.fa0[2])>>)
    ELSE form_64_bit_value_from_regs_a0_and_a1(s)

\* int(data, 16) knows no leading zeros.
Significant(data) ==
    LET first == { i \in DOMAIN data : data[i] # 0 /\ \A j \in 1 .. (i - 1) : data[j] = 0 }
    IN IF first = {} THEN << >> ELSE SubSeq(data, CHOOSE i \in first : TRUE, Len(data))

\* Four words behind a0, all of which must have been written.
fetch_long_double_return_value(s, dwrites) ==
    LET keys == [i \in 1 .. 4 |-> BareKey(s.a0 + (i - 1) * XLenBytes)]
    IN IF \A i \in 1 .. 4 : keys[i] \in DOMAIN dwrites
       THEN Value([i \in 1 .. 4 |-> Plain(Significant(Last(dwrites[keys[i]]).data))])
       ELSE NoValue

fetch_union_return_value(s, dwrites, union) ==
    IF union.range <= 4 THEN fetch_int_return_value(s)
    ELSE IF union.range <= 8 THEN form_64_bit_value_from_regs_a0_and_a1(s)
    ELSE LET words == get_last_writes_to_mem_range(dwrites, s.a0, union.range)
         IN Value([i \in DOMAIN words |-> Plain(words[i])])

\* resolve_struct_memory_values: as many values as there are registers, cut
\* from the concatenated words and read as little-endian numbers; bytes that
\* are missing at the end count as zeros.
resolve_struct_memory_values(registers, words) ==
    LET bytes == FlattenSeq(words)
        at(i) == SubSeq(bytes, (i - 1) * XLenBytes + 1,
                        IF i * XLenBytes < Len(bytes) THEN i * XLenBytes ELSE Len(bytes))
    IN [i \in 1 .. registers |-> Plain(Significant(Reverse(at(i))))]

\* A struct of int members, one register each (ReturnLayout has the others):
\* from a0 and a1, or from memory when two do not suffice.  Without a return
\* of the march's own kind the list stays empty.
fetch_struct_return_value(e) ==
    LET found == fetch_epilogue_state(e.march, e.epilogue)
        struct == e.return_type
        registers == Len(struct.members)
    IN Value(
        IF found = << >> \/ registers = 0 THEN << >>
        ELSE LET s == found[1]
             IN IF registers <= 2
                THEN [i \in 1 .. registers |-> Plain(<<IF i = 1 THEN s.a0 ELSE s.a1>>)]
                ELSE resolve_struct_memory_values(registers,
                         get_last_writes_to_mem_range(e.dwrites, s.a0, struct.range)))

\* GccDwarfMapperForRV32.get_mapping_for_dwarf_base_type, "" if unknown.
get_mapping_for_dwarf_base_type(name) ==
    CASE name \in {"char", "signed char", "unsigned char", "short int",
                   "short unsigned int", "int", "unsigned int", "long int",
                   "long unsigned int", "_Bool"} -> "int"
      [] name \in {"long long int", "long long unsigned int"} -> "long long"
      [] name \in {"float", "double", "long double"} -> name
      [] OTHER -> ""

\* analyze_struct flattens nested structs and raises at any other member that is
\* no base type, at a type that has no members, and at a base type in a union
\* (a UnionMember has no bit_size).
StructsIn(type) ==
    LET Level[n \in 0 .. RecursionLimit] ==
            IF n = 0 THEN {type}
            ELSE { m \in UNION { Range(s.members) : s \in Level[n - 1] } :
                     m.class = "StructType" }
    IN UNION { Level[n] : n \in 0 .. RecursionLimit }
AnalyzeRaises(type) ==
    \/ type.class \notin {"StructType", "UnionType"}
    \/ type.class = "UnionType" /\ \E m \in Range(type.members) : m.class = "BaseType"
    \/ \E s \in StructsIn(type) : \E m \in Range(s.members) :
           m.class \notin {"BaseType", "StructType"}

\* fetch_return_value raises: no conversion for a base type, or a struct or
\* union is expected and the entry's own debug information has something else.
FetchRaises(e, type) ==
    CASE type.class = "BaseType"   -> get_mapping_for_dwarf_base_type(type.name) = ""
      [] type.class = "StructType" -> AnalyzeRaises(e.return_type)
      [] type.class = "UnionType"  ->
            \/ e.return_type.class \notin {"BaseType", "StructType", "UnionType"}
            \/ /\ e.return_type.range = None
               /\ fetch_epilogue_state(e.march, e.epilogue) # << >>
      [] OTHER                     -> FALSE

\* Types that are none of the three classes have no value to fetch; structs and
\* unions are measured by the entry's own debug information.
fetch_return_value(e, type) ==
    LET found == fetch_epilogue_state(e.march, e.epilogue)
        mapped == get_mapping_for_dwarf_base_type(type.name)
    IN IF type.class = "StructType" THEN fetch_struct_return_value(e)
       ELSE IF found = << >> \/ type.class \notin {"BaseType", "UnionType"} THEN NoValue
       ELSE IF type.class = "UnionType"
       THEN fetch_union_return_value(found[1], e.dwrites, e.return_type)
       ELSE LET s == found[1]
            IN CASE mapped = "int"         -> fetch_int_return_value(s)
                 [] mapped = "long long"   -> form_64_bit_value_from_regs_a0_and_a1(s)
                 [] mapped = "float"       -> fetch_float_return_value(e.march, s)
                 [] mapped = "double"      -> fetch_double_return_value(e.march, s)
                 [] mapped = "long double" -> fetch_long_double_return_value(s, e.dwrites)
=============================================================================
