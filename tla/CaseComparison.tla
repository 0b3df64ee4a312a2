--------------------------- MODULE CaseComparison ---------------------------
(***************************************************************************)
(* One case from two binaries to a verdict (__main__.run_pipeline): the    *)
(* debug information of both is extracted and described, each program runs *)
(* and leaves a trace file, the file is parsed and its elements become the *)
(* entries of calls, and the two collections are compared.                 *)
(*                                                                         *)
(* The programs are the environment.  A call stores and returns, the       *)
(* function of interest may first call another one; `executed' keeps what  *)
(* each call really did.  How elements are attributed to calls is          *)
(* EntryMerger's and CallTrace's subject, so the snapshots that only the   *)
(* merger looks at are left out here.                                      *)
(***************************************************************************)
EXTENDS Verification

CONSTANTS
    Cases,               \* pairs of binaries, what their programs can do, and the
                         \* registers their calls are entered with
    FunctionOfInterest,  \* args.fun
    BufferBytes          \* bytes of a record's data field

ASSUME CasesAssumption ==
    /\ BufferBytes \in Nat
    /\ \A c \in Cases : \A s \in {Gr, Uv} :
          /\ IsBinary(c.binaries[s])
          /\ \A b \in c.bodies[s] :
                /\ b \in Seq([address : Nat, data : Seq(0 .. 255)])
                /\ \A i \in DOMAIN b : Len(b[i].data) \in 1 .. BufferBytes
          /\ \A r \in c.returns[s] : r.a0 \in Int

VARIABLES
    case,            \* the member of Cases
    stage,           \* where run_pipeline is
    side,            \* whose turn it is, Gr or Uv
    infos,           \* the DwarfInfo objects extracted so far
    building,        \* the entries being built of the parsed elements
    built,           \* the collections built so far
    stores,          \* the stores of the call being executed
    executed,        \* history: per side, the calls that returned
    failed_at        \* the stage that raised, "none" if none did

caseVars == <<case, stage, side, infos, building, built, stores, executed, failed_at>>
allVars == <<extractVars, parseVars, verifyVars, caseVars>>

\* Steps of a component while the case itself stays where it is.
Extracting == ExtractNext /\ UNCHANGED <<parseVars, verifyVars, caseVars>>
Parsing == ParseNext /\ UNCHANGED <<extractVars, verifyVars, caseVars>>
Verifying == VerifyNext /\ UNCHANGED <<extractVars, parseVars, caseVars>>

ExtractFrom(s) ==
    /\ binary' = s.binary /\ unit' = s.unit /\ child' = s.child
    /\ dwarf_info' = s.dwarf_info /\ extraction' = s.extraction

\* No entries yet, of no elements.
NothingBuilt == [taken |-> 0, dwrites |-> NoWrites, group |-> << >>, groups |-> << >>]

Abort ==
    /\ stage' = "aborted"
    /\ failed_at' = stage
    /\ UNCHANGED <<extractVars, parseVars, verifyVars, case, side, infos, building, built,
                   stores, executed>>

CaseInit ==
    /\ case \in Cases
    /\ ExtractInit({case.binaries[Gr]})
    /\ NoTrace
    /\ NothingVerified
    /\ stage = "dwarf" /\ side = Gr /\ infos = << >>
    /\ building = NothingBuilt /\ built = << >>
    /\ stores = << >> /\ executed = <<<< >>, << >>>> /\ failed_at = "none"

-----------------------------------------------------------------------------
(***************************************************************************)
(* Debug information: both binaries, before anything runs.                 *)
(***************************************************************************)
ExtractOther ==
    /\ stage = "dwarf" /\ extraction = "extracted" /\ side = Gr
    /\ infos' = Append(infos, dwarf_info)
    /\ side' = Uv
    /\ ExtractFrom(StartExtraction(case.binaries[Uv]))
    /\ UNCHANGED <<parseVars, verifyVars, case, stage, building, built, stores, executed, failed_at>>

\* Mutant: there is one DwarfInfo for both binaries.
OtherReplaces ==
    /\ stage = "dwarf" /\ extraction = "extracted" /\ side = Uv
    /\ infos' = <<dwarf_info>>
    /\ stage' = "describe"
    /\ UNCHANGED <<extractVars, parseVars, verifyVars, case, side, building, built, stores,
                   executed, failed_at>>

BothExtracted ==
    /\ stage = "dwarf" /\ extraction = "extracted" /\ side = Uv
    /\ infos' = Append(infos, dwarf_info)
    /\ stage' = "describe"
    /\ UNCHANGED <<extractVars, parseVars, verifyVars, case, side, building, built, stores,
                   executed, failed_at>>

\* The debug messages are built whether or not they are written.
Describe ==
    /\ stage = "describe"
    /\ IsWritable(infos[Gr]) /\ IsWritable(infos[Uv])
    /\ stage' = "simulate" /\ side' = Gr
    /\ UNCHANGED <<extractVars, parseVars, verifyVars, case, infos, building, built, stores,
                   executed, failed_at>>

-----------------------------------------------------------------------------
(***************************************************************************)
(* The simulated program of the side whose turn it is.                     *)
(***************************************************************************)
get_subprogram_by_name(info, name) ==
    CHOOSE s \in Range(info.subprograms) : s.name = name
Subprograms(info) == { s.name : s \in Range(info.subprograms) }

Running == /\ stage = "simulate" /\ parsing = "idle"
           /\ FunctionOfInterest \in Subprograms(infos[side])

\* A store of some bytes, as the write tracer records it.
WriteRecord(s) ==
    [type |-> "dwrite", address |-> s.address, byte_size |-> Len(s.data),
     buffer |-> [i \in 1 .. BufferBytes |-> IF i <= Len(s.data) THEN s.data[i] ELSE 0]]
ReturnRecord(f, r) == [type |-> "state_snapshot", function |-> f, state |-> r]

\* The next store of a call that stores as the body b does.
StoreAsIn(b) ==
    /\ Running
    /\ Len(executed[side]) < case.max_calls
    /\ IsStrictPrefix(stores, b)
    /\ LET s == b[Len(stores) + 1]
       IN /\ stores' = Append(stores, s)
          /\ WriteToTrace(WriteRecord(s))
    /\ UNCHANGED <<extractVars, file_bytes, offset, parsed, parsing, verifyVars, case,
                   stage, side, infos, building, built, executed, failed_at>>

ReturnFrom(f, r) ==
    /\ Running
    /\ Len(executed[side]) < case.max_calls
    /\ f \in Subprograms(infos[side])
    /\ stores \in case.bodies[side]
    /\ executed' = [executed EXCEPT ![side] =
                       Append(@, [function |-> f, stores |-> stores, state |-> r])]
    /\ WriteToTrace(ReturnRecord(f, r))
    /\ stores' = << >>
    /\ UNCHANGED <<extractVars, file_bytes, offset, parsed, parsing, verifyVars, case,
                   stage, side, infos, building, built, failed_at>>

EndSimulation(lost) ==
    /\ Running
    /\ executed[side] # << >>
    /\ StartParsing(lost)
    /\ stores' = << >>
    /\ UNCHANGED <<extractVars, verifyVars, case, stage, side, infos, building, built,
                   executed, failed_at>>

-----------------------------------------------------------------------------
(***************************************************************************)
(* From the parsed elements to the entries of calls.                       *)
(***************************************************************************)
\* The parameters of a function are on its frame, as in code that is not
\* optimised; EntryMerger has the exception that is raised when they are not.
Entry(info, dwrites, r) ==
    [function_name |-> r.function, dwrites |-> dwrites, epilogue |-> <<r.state>>,
     global_variables |-> info.globals, march |-> info.march,
     return_type |-> get_subprogram_by_name(info, r.function).type]

\* Mutant: a nested call leaves its writes to its caller.
WritesStay(info, b, e) ==
    IF e.type = "dwrite" THEN [b EXCEPT !.dwrites = append_dwrite(@, e)]
    ELSE LET group == Append(b.group, Entry(info, b.dwrites, e))
         IN IF e.function = FunctionOfInterest
            THEN [b EXCEPT !.dwrites = NoWrites, !.group = << >>, !.groups = Append(@, group)]
            ELSE [b EXCEPT !.group = group]

\* An entry is closed by its return and a group by that of the function of
\* interest; the accesses of a call whose return is missing are dropped, the
\* entries of a group that is not closed are kept (EntryMerger).
AddElement(info, b, e) ==
    IF e.type = "dwrite" THEN [b EXCEPT !.dwrites = append_dwrite(@, e)]
    ELSE LET group == Append(b.group, Entry(info, b.dwrites, e))
         IN IF e.function = FunctionOfInterest
            THEN [b EXCEPT !.dwrites = NoWrites, !.group = << >>, !.groups = Append(@, group)]
            ELSE [b EXCEPT !.dwrites = NoWrites, !.group = group]

Building == stage = "simulate" /\ parsing = "parsed"
BuildFromElement ==
    /\ Building
    /\ building.taken < Len(parsed)
    /\ building' = [AddElement(infos[side], building, parsed[building.taken + 1])
                      EXCEPT !.taken = @ + 1]
    /\ UNCHANGED <<extractVars, parseVars, verifyVars, case, stage, side, infos, built,
                   stores, executed, failed_at>>

EndOfElements ==
    /\ Building
    /\ building.taken = Len(parsed)
    /\ built' = Append(built, IF building.group = << >> THEN building.groups
                              ELSE Append(building.groups, building.group))
    /\ building' = NothingBuilt
    /\ NewTrace
    /\ IF side = Gr THEN side' = Uv /\ stage' = stage
                    ELSE side' = side /\ stage' = "log"
    /\ UNCHANGED <<extractVars, verifyVars, case, infos, stores, executed, failed_at>>

\* log_snapshot_information writes each entry, its last writes included.
EntriesRaise ==
    \E c \in {Gr, Uv} : built[c] # << >> /\ LastWritesRaise(infos[c].globals)

StartVerification ==
    /\ stage = "log"
    /\ ~ EntriesRaise
    /\ stage' = "verify"
    /\ StartVerifying(built)
    /\ UNCHANGED <<extractVars, parseVars, case, side, infos, building, built, stores, executed,
                   failed_at>>

Report ==
    /\ stage = "verify" /\ verifying = "verified"
    /\ stage' = "done"
    /\ UNCHANGED <<extractVars, parseVars, verifyVars, case, side, infos, building, built, stores,
                   executed, failed_at>>

\* Whatever a stage raises ends the pipeline.
StageRaises ==
    \/ stage = "dwarf" /\ extraction = "raised"
    \/ stage = "describe" /\ ~ (IsWritable(infos[Gr]) /\ IsWritable(infos[Uv]))
    \/ stage = "simulate" /\ parsing = "idle"
          /\ FunctionOfInterest \notin Subprograms(infos[side])
    \/ stage = "simulate" /\ parsing = "raised"
    \/ stage = "log" /\ EntriesRaise
    \/ stage = "verify" /\ verifying = "raised"

Terminated == stage \in {"done", "aborted"} /\ UNCHANGED allVars

CaseNext ==
    \/ Extracting \/ ExtractOther \/ BothExtracted \/ Describe
    \/ \E b \in case.bodies[side] : StoreAsIn(b)
    \/ \E f \in case.functions, r \in case.returns[side] : ReturnFrom(f, r)
    \/ \E lost \in case.lost : EndSimulation(lost)
    \/ Parsing \/ BuildFromElement \/ EndOfElements
    \/ StartVerification \/ Verifying \/ Report
    \/ StageRaises /\ Abort
    \/ Terminated

CaseSpec == CaseInit /\ [][CaseNext]_allVars

-----------------------------------------------------------------------------
(***************************************************************************)
(* Properties.                                                             *)
(***************************************************************************)
Sides == {Gr, Uv}

\* Types and shape of the composed state.
CaseTypeOK ==
    /\ side \in Sides
    /\ extraction \in {"walking", "extracted", "raised"}
    /\ unit \in 1 .. (Len(binary.units) + 1) /\ child \in Nat
    /\ parsing \in {"idle", "reading", "parsed", "raised"}
    /\ offset \in Nat /\ file_bytes \in Nat
    /\ verifying \in {"idle", "verifying", "verified", "raised"}
    /\ idx_0 \in Nat \ {0} /\ idx_1 \in Nat \ {0}
    /\ counters \in [compared : Nat, failed : Nat]
    /\ stage \in {"dwarf", "describe", "simulate", "log", "verify", "done", "aborted"}
    /\ Len(infos) <= 2 /\ Len(built) <= 2
    /\ (failed_at # "none") <=> (stage = "aborted")
    /\ stage \notin {"dwarf", "aborted"} => Len(infos) = 2
    /\ stage \in {"log", "verify", "done"} => Len(built) = 2

\* A pair of binaries gets to the simulator exactly when all the debug
\* information that belongs to the source file is of the describable kind:
\* one void pointer, enumeration, function pointer or list node among the
\* variables, used or not, ends the pipeline (run_pipeline, extract_dwarf_info,
\* str(dwarf_info)).
Usable == \A s \in Sides : Describable(case.binaries[s])

\* The entries of one side, in the order they were built.
Entries(c) == FlattenSeq(built[c])

\* An entry's answer for each part of a global variable is what its own call
\* stored there last: not an earlier store, nor one of another call.  A part
\* below 0x10000000 has no answer whatever was stored; of several variables of
\* one name the last one that has an answer gives it
\* (append_dwrite_instruction, get_last_writes_to_global_var_locations).
LowestFound == 268435456
LastStoreAt(call, address) ==
    LET at == { i \in DOMAIN call.stores : call.stores[i].address = address }
    IN IF at = {} THEN << >>
       ELSE call.stores[CHOOSE i \in at : \A j \in at : j <= i].data
Variables(c) == { infos[c].globals[i] : i \in Located(infos[c].globals) }
Alone(c, v) == \A w \in Variables(c) : w.name = v.name => w = v
LastWriteIsLast ==
    \A c \in DOMAIN built : stage \in {"simulate", "log"} =>
        /\ Len(Entries(c)) <= Len(executed[c])
        /\ ~ LastWritesRaise(infos[c].globals) => \A k \in DOMAIN Entries(c) :
             LET answers == LastWrites(Entries(c)[k])
             IN /\ \A p \in DOMAIN answers : \E v \in Variables(c) :
                       p[1] = v.name /\ p[2] \in 0 .. (Parts(v) - 1)
                /\ \A v \in Variables(c) : Alone(c, v) =>
                     \A i \in 0 .. (Parts(v) - 1) :
                         LET address == v.location + i * Step(v)
                             last == LastStoreAt(executed[c][k], address)
                             answered == <<v.name, i>> \in DOMAIN answers
                         IN /\ answered <=> (last # << >> /\ address >= LowestFound)
                            /\ answered => answers[<<v.name, i>>].data = last

\* The k-th comparison is that of the k-th calls.
Call(c, k) == executed[c][k]

\* What a call left at each of `bytes' bytes from start, None where it did not
\* store.
Covers(s, a) == s.address <= a /\ a < s.address + Len(s.data)
MemoryImage(call, start, bytes) ==
    [o \in 0 .. (bytes - 1) |->
        LET covering == { i \in DOMAIN call.stores : Covers(call.stores[i], start + o) }
        IN IF covering = {} THEN None
           ELSE LET s == call.stores[CHOOSE i \in covering : \A j \in covering : j <= i]
                IN s.data[start + o - s.address + 1]]
Stored(image) == { o \in DOMAIN image : image[o] # None }

\* The i-th global variable is the same in both binaries, no other has its
\* name, and it is looked at where it is: all of its bytes and no others, above
\* the addresses that are never found.
Global(c, i) == infos[c].globals[i]
GlobalImage(c, i, k) ==
    MemoryImage(Call(c, k), Global(c, i).location, Global(c, i).type.range)
Inspected(i) ==
    /\ \A c \in Sides :
          /\ i \in Located(infos[c].globals)
          /\ Alone(c, Global(c, i))
          /\ Global(c, i).location >= LowestFound
          /\ Global(c, i).type.range = CSize(GlobalDies(case.binaries[c])[i].type)
    /\ Global(Gr, i).name = Global(Uv, i).name
    /\ Global(Gr, i).type = Global(Uv, i).type

\* The call stored to that variable in the steps in which it is looked at.
StoredInParts(c, i, k) ==
    LET v == Global(c, i)
        Rest(p) == v.type.range - p * Step(v)
    IN \A s \in Range(Call(c, k).stores) :
         (\E a \in v.location .. (v.location + v.type.range - 1) : Covers(s, a)) =>
             \E p \in 0 .. (Parts(v) - 1) :
                 /\ s.address = v.location + p * Step(v)
                 /\ Len(s.data) = IF Rest(p) < Step(v) THEN Rest(p) ELSE Step(v)
Faithful(i, k) == Inspected(i) /\ \A c \in Sides : StoredInParts(c, i, k)

\* A failure reported for the global variables is one: some variable was left
\* with other bytes.  Spurious failures need a store of another width, which
\* normalize_variable_data is documented to allow for (SameContentPasses), an
\* address below 0x10000000 or a pointer (_compare_global_variable_values).
FailIsReal ==
    stage = "verify" =>
        \A k \in DOMAIN verification_entries :
            verification_entries[k].global_vars = "FAIL" =>
                \E i \in Located(infos[Gr].globals) :
                    ~ Faithful(i, k) \/ GlobalImage(Gr, i, k) # GlobalImage(Uv, i, k)

\* Where no failure is reported, a variable that the golden reference stored to
\* was stored to by the other program as well, and where both stored to the
\* same bytes of it, they left the same values.  (Of different bytes only the
\* sequence of values is compared, and what the other program stores in
\* addition is not.)
PassIsAgreement ==
    stage = "verify" =>
        \A k \in DOMAIN verification_entries, i \in DOMAIN infos[Gr].globals :
            verification_entries[k].global_vars # "FAIL" /\ Faithful(i, k) =>
                LET gr == GlobalImage(Gr, i, k)
                    uv == GlobalImage(Uv, i, k)
                IN Stored(gr) # {} =>
                      /\ Stored(uv) # {}
                      /\ Stored(gr) = Stored(uv) => gr = uv

\* The type a function returns, by the last of its definitions.
ReturnType(c, k) ==
    LET own == OwnFunctions(case.binaries[c])
        named == { i \in DOMAIN own : own[i].name = Call(c, k).function }
    IN own[CHOOSE i \in named : \A j \in named : j <= i].type
SameFunction(k) ==
    /\ Call(Gr, k).function = Call(Uv, k).function
    /\ ReturnType(Gr, k) = ReturnType(Uv, k)

IsValue(t) == t # NoDie /\ TypeDie[t].tag \in {"base", "structure", "union"}
March(c) == infos[c].march
LeftByItsReturn(c, k) ==
    Call(c, k).state.instruction =
        IF March(c) = "rv32im_zicsr_zifencei" THEN "jalr" ELSE "cjr"

\* What a C compiler for RV32 makes of a type that can be returned: base types
\* have their size, structs and unions have one, and the structs are those that
\* ReturnValue has, of ints.
SizesOfBase(mapped) ==
    CASE mapped = "int"                       -> 1 .. 4
      [] mapped = "float"                     -> {4}
      [] mapped \in {"long long", "double"} -> {8}
      [] mapped = "long double"               -> {16}
      [] OTHER                                -> {}
IsIntMember(m) ==
    /\ m.named /\ m.type # NoDie
    /\ TypeDie[m.type].tag = "base" /\ TypeDie[m.type].size = 4
    /\ get_mapping_for_dwarf_base_type(TypeDie[m.type].name) = "int"
Returnable(t) ==
    /\ IsValue(t)
    /\ LET die == TypeDie[t]
       IN CASE die.tag = "base"  -> die.size \in SizesOfBase(get_mapping_for_dwarf_base_type(die.name))
            [] die.tag = "union" -> die.size # None
            [] OTHER             -> /\ die.name # "" /\ die.members # << >>
                                    /\ die.size = 4 * Len(die.members)
                                    /\ \A i \in DOMAIN die.members : IsIntMember(die.members[i])

\* Where the ABI puts a value of type t: up to two words in a0 and a1, floating
\* point in fa0 if there is one, anything larger in memory behind a0.
IsFloating(t) == TypeDie[t].tag = "base" /\ TypeDie[t].name \in {"float", "double"}
InMemory(t) == TypeDie[t].size > 8
WordsOf(march, t, s) ==
    LET first == IF IsFloating(t) /\ HasFloatRegisters(march) THEN s.fa0 ELSE <<s.a0, s.a1>>
    IN IF TypeDie[t].size <= 4 THEN <<first[1]>> ELSE <<first[1], first[2]>>
AbiWords(c, t, k) == WordsOf(March(c), t, Call(c, k).state)

\* The registers of a scalar hold what they held at the call's prologue; of one
\* in memory that is its address.
Unchanged(c, t, k) ==
    LET Held(s) == IF InMemory(t) THEN <<s.a0>> ELSE WordsOf(March(c), t, s)
    IN TypeDie[t].tag = "base" /\ Held(Call(c, k).state) = Held(case.entered[c])

\* Of a result in memory the bytes behind the last whole word are not read.
BytesRead(t) == 4 * (TypeDie[t].size \div 4)
AbiMemory(c, t, k) == MemoryImage(Call(c, k), Call(c, k).state.a0, BytesRead(t))

\* Two words that are no struct are read as a double, integers as well.
ReadAsFloating(t) ==
    IsFloating(t) \/ (TypeDie[t].size > 4 /\ TypeDie[t].tag # "structure")
IsNan(words) ==
    IF Len(words) = 1 THEN Float(words[1]).nan ELSE Double(words[1], words[2]).nan
IsZero(words) ==
    /\ words[Len(words)] \in {0, SignBit}
    /\ \A i \in 1 .. (Len(words) - 1) : words[i] = 0
SameNumber(t, v, w) ==
    IF ReadAsFloating(t)
    THEN ~ IsNan(v) /\ ~ IsNan(w) /\ (v = w \/ (IsZero(v) /\ IsZero(w)))
    ELSE v = w

\* A result in memory can be judged if it was stored word by word, the same
\* words on both sides, where stores are found.
StoredInWords(c, t, k) ==
    LET start == Call(c, k).state.a0
    IN /\ start >= LowestFound
       /\ \A s \in Range(Call(c, k).stores) :
             (\E o \in 0 .. (BytesRead(t) - 1) : Covers(s, start + o)) =>
                 (s.address - start) % 4 = 0 /\ Len(s.data) = 4 /\ s.address >= start
Judgeable(t, k) ==
    /\ \A c \in Sides : StoredInWords(c, t, k)
    /\ Stored(AbiMemory(Gr, t, k)) = Stored(AbiMemory(Uv, t, k))

\* The verdict on a return value in registers is right: OK says that the ABI's
\* registers hold the same value, FAIL that they do not, and NA is said of what
\* is no scalar, struct or union, and of a scalar or union that was not left
\* through the march's own return.  Where the code departs from that: two-word
\* integers are compared as doubles, so that INT64_MIN equals 0 and -1 does not
\* equal itself.  Structs that were not read and registers that did not change
\* are the subject of UnreadIsNA and UnchangedIsInconclusive
\* (compare_return_values, fetch_return_value, march/rv32*.py).
ReturnInRegistersExact ==
    stage = "verify" =>
        \A k \in DOMAIN verification_entries :
            LET verdict == verification_entries[k].return_value
                t == ReturnType(Gr, k)
                unread == { c \in Sides : ~ LeftByItsReturn(c, k) }
            IN SameFunction(k) =>
                 /\ ~ IsValue(t) => verdict = "NA"
                 /\ Returnable(t) /\ TypeDie[t].tag # "structure" /\ unread # {} =>
                      verdict = "NA"
                 /\ /\ Returnable(t) /\ ~ InMemory(t) /\ unread = {}
                    /\ ~ \E c \in Sides : Unchanged(c, t, k)
                    => verdict = IF SameNumber(t, AbiWords(Gr, t, k), AbiWords(Uv, t, k))
                                 THEN "OK" ELSE "FAIL"

\* So is the verdict on a value that was left in memory, where it can be judged.
\* It departs in the last bytes of a value whose size is no number of words:
\* they do not count.  A scalar of which a word was not stored is not compared.
\* Structs are those of ints, compared by their words although the march classes
\* document otherwise (StructInMemoryIsEmpty); a value whose a0 the prologue held
\* already is left to UnchangedIsInconclusive
\* (get_last_writes_to_mem_range, resolve_struct_memory_values).
ReturnInMemoryExact ==
    stage = "verify" =>
        \A k \in DOMAIN verification_entries :
            LET t == ReturnType(Gr, k)
                stored == Stored(AbiMemory(Gr, t, k))
            IN /\ SameFunction(k) /\ Returnable(t) /\ InMemory(t)
               /\ \A c \in Sides : LeftByItsReturn(c, k)
               /\ Judgeable(t, k)
               /\ ~ \E c \in Sides : Unchanged(c, t, k)
               => verification_entries[k].return_value =
                      IF TypeDie[t].tag = "base" /\ Cardinality(stored) < TypeDie[t].size
                      THEN "NA"
                      ELSE IF AbiMemory(Gr, t, k) = AbiMemory(Uv, t, k) THEN "OK" ELSE "FAIL"

-----------------------------------------------------------------------------
(***************************************************************************)
(* What the repository says of the comparison and the code does not do.    *)
(***************************************************************************)

\* Where all global variables are looked at in full and both programs left the
\* same bytes in each, no failure is reported: "the number and size of writes
\* may vary across architectures", their content is reassembled
\* (normalize_variable_data).
SameContentPasses ==
    stage = "verify" =>
        \A k \in DOMAIN verification_entries :
            (\A i \in Located(infos[Gr].globals) :
                Inspected(i) /\ GlobalImage(Gr, i, k) = GlobalImage(Uv, i, k)) =>
                verification_entries[k].global_vars # "FAIL"

\* A value that one side did not leave through the return its march knows is
\* not determined, and the verdict on it is NA (compare_return_values).
UnreadIsNA ==
    stage = "verify" =>
        \A k \in DOMAIN verification_entries :
            /\ SameFunction(k) /\ IsValue(ReturnType(Gr, k))
            /\ \E c \in Sides : ~ LeftByItsReturn(c, k)
            => verification_entries[k].return_value = "NA"

\* A register that holds what it held in the prologue says nothing of a scalar
\* return value: it is inconclusive, which is NA (MArchBase.fetch_*,
\* compare_return_values).
UnchangedIsInconclusive ==
    stage = "verify" =>
        \A k \in DOMAIN verification_entries :
            LET t == ReturnType(Gr, k)
            IN /\ SameFunction(k) /\ Returnable(t)
               /\ \E c \in Sides : Unchanged(c, t, k)
               => verification_entries[k].return_value = "NA"

\* For a struct that is returned in memory there is no list of values
\* (fetch_struct_return_value).
StructInMemoryIsEmpty ==
    stage = "verify" =>
        \A k \in DOMAIN verification_entries : \A c \in Sides :
            LET t == ReturnType(c, k)
            IN Returnable(t) /\ TypeDie[t].tag = "structure" /\ InMemory(t) =>
                   fetch_struct_return_value(Entries(c)[k]) = Value(<< >>)
\* Of the four things said of the verdicts and values at least one holds of
\* whatever case.  It fails: one case refutes all four (verification_stage.py and
\* the march classes).
AnyClaimOnVerdicts ==
    SameContentPasses \/ UnreadIsNA \/ UnchangedIsInconclusive \/ StructInMemoryIsEmpty
=============================================================================
