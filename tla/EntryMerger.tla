---------------------------- MODULE EntryMerger ----------------------------
(***************************************************************************)
(* dwarf_simdata_merger.py: build_simulation_entries cuts the parsed trace *)
(* into one SimulationDataEntry per function execution.  The recursion of  *)
(* construct_entries_recursively is a stack of open entries that share one *)
(* iterator; a frame returns when its entry's epilogue has been read or    *)
(* the trace has ended.                                                    *)
(*                                                                         *)
(* An entry holds positions of the trace where the code copies the         *)
(* registers or bytes found there.                                         *)
(***************************************************************************)
EXTENDS Integers, Sequences, FiniteSets

CONSTANTS
    Subprograms,     \* dwarf_info.subprograms, in insertion order
    Unlocatable,     \* subprograms with a parameter that has no DW_OP_fbreg
    Pcs,             \* program counters
    Mnemonics,       \* instruction mnemonics of the snapshots
    Traces,          \* parsed traces to be merged
    RecursionLimit   \* external: frames the Python interpreter allows

NoName == ""
Names == { Subprograms[i].name : i \in DOMAIN Subprograms }

ASSUME SubprogramsAssumption ==
    /\ Subprograms \in Seq([name : STRING, low : Int, high : Int])
    /\ NoName \notin Names
ASSUME RecursionAssumption == RecursionLimit \in Nat \ {0}

Element == [kind : {"snapshot"}, pc : Pcs, instruction : Mnemonics]
           \cup [kind : {"dwrite", "dread"}, pc : Pcs]

ASSUME TracesAssumption == Traces \subseteq Seq(Element)

VARIABLES
    trace,        \* what parse_trace_file returned
    pos,          \* how many of its elements have been consumed
    stack,        \* the open entries, one per frame, the innermost last
    phase,        \* where the innermost frame is
    entries,      \* the list compile_entries shares among the frames
    collection,   \* SimulationDataCollection.entries
    abandoned     \* history: entries whose frame ended with the trace

vars == <<trace, pos, stack, phase, entries, collection, abandoned>>

Entry == [function_name : Names \cup {NoName}, invoke_chain : Seq(Names),
          prologue : SUBSET Nat, epilogue : SUBSET Nat,
          dwrites : SUBSET Nat, dreads : SUBSET Nat]

NewEntry == [function_name |-> NoName, invoke_chain |-> << >>,
             prologue |-> {}, epilogue |-> {}, dwrites |-> {}, dreads |-> {}]

-----------------------------------------------------------------------------
\* DwarfInfo.get_enclosing_subprogram: the first subprogram, in insertion
\* order, with low_pc <= pc <= high_pc; NoName stands for None.
EnclosingSubprogram(p) ==
    LET hits == { i \in DOMAIN Subprograms :
                    Subprograms[i].low <= p /\ p <= Subprograms[i].high }
    IN IF hits = {} THEN NoName
       ELSE Subprograms[CHOOSE i \in hits : \A j \in hits : i <= j].name

Top == stack[Len(stack)]

\* The element the iterator yields next, and the position it will have.
More == pos < Len(trace)
At == pos + 1
Next_e == trace[At]
IsInstruction(e, names) == e.kind = "snapshot" /\ e.instruction \in names

Consume == pos' = At
UpdateTop(e) == stack' = [stack EXCEPT ![Len(stack)] = e]
KeepResults == UNCHANGED <<trace, entries, collection, abandoned>>

\* Mutant: one epilogue snapshot is not enough.
ValidWithTwoReturns(e) ==
    e.prologue # {} /\ e.function_name # NoName /\ Cardinality(e.epilogue) > 1

is_valid_entry(e) ==
    e.prologue # {} /\ e.function_name # NoName /\ e.epilogue # {}

-----------------------------------------------------------------------------
Init ==
    /\ trace \in Traces
    /\ pos = 0
    /\ stack = <<NewEntry>>
    /\ phase = "read"
    /\ entries = << >>
    /\ collection = << >>
    /\ abandoned = << >>

PrologueElement ==
    /\ phase = "read"
    /\ More
    /\ IsInstruction(Next_e, {"cswsp", "sw"})
    /\ EnclosingSubprogram(Next_e.pc) # NoName

\* The entry is still unnamed, or the store lies in its own function.
SameFunction ==
    \/ Top.function_name = NoName
    \/ Top.function_name = EnclosingSubprogram(Next_e.pc)

\* Mutant: every store of the prologue extends the chain.
ChainPerStore(name) == Append(Top.invoke_chain, name)

\* The entry's call chain; the function enters it when it names the entry.
NamedChain(name) ==
    IF Top.function_name = NoName
    THEN Append(Top.invoke_chain, name)
    ELSE Top.invoke_chain

\* A store in the entry's own function extends its prologue; the first one
\* names the entry.
AppendPrologue ==
    /\ PrologueElement
    /\ SameFunction
    /\ UpdateTop([Top EXCEPT
           !.function_name = EnclosingSubprogram(Next_e.pc),
           !.invoke_chain = NamedChain(EnclosingSubprogram(Next_e.pc)),
           !.prologue = @ \cup {At}])
    /\ Consume
    /\ UNCHANGED phase
    /\ KeepResults

\* Mutant: the nested entry is a copy of its caller's.
CopiedEntry(name) ==
    [Top EXCEPT !.function_name = name,
                !.invoke_chain = Append(Top.invoke_chain, name),
                !.prologue = {At}]

\* Mutant: the nested entry forgets its caller's chain.
UnchainedEntry(name) ==
    [NewEntry EXCEPT !.function_name = name,
                     !.invoke_chain = <<name>>,
                     !.prologue = {At}]

\* The entry of a function called from the entry's.
NestedEntry(name) ==
    [NewEntry EXCEPT !.function_name = name,
                     !.invoke_chain = Append(Top.invoke_chain, name),
                     !.prologue = {At}]

\* A store in another function opens an entry in a frame of its own.
EnterNested ==
    /\ PrologueElement
    /\ ~ SameFunction
    /\ Len(stack) < RecursionLimit
    /\ stack' = Append(stack, NestedEntry(EnclosingSubprogram(Next_e.pc)))
    /\ Consume
    /\ UNCHANGED phase
    /\ KeepResults

\* The interpreter refuses one frame too many; nothing catches it below main.
ExceedRecursion ==
    /\ PrologueElement
    /\ ~ SameFunction
    /\ Len(stack) >= RecursionLimit
    /\ phase' = "failed"
    /\ Consume
    /\ UNCHANGED stack
    /\ KeepResults

\* Mutant: a jump through a register in any subprogram ends the entry.
AnyEpilogue ==
    /\ phase = "read"
    /\ More
    /\ IsInstruction(Next_e, {"cjr", "jalr"})
    /\ EnclosingSubprogram(Next_e.pc) # NoName

EpilogueElement ==
    /\ phase = "read"
    /\ More
    /\ IsInstruction(Next_e, {"cjr", "jalr"})
    /\ EnclosingSubprogram(Next_e.pc) # NoName
    /\ EnclosingSubprogram(Next_e.pc) = Top.function_name

\* A jump through a register in the entry's function ends it.
ReachEpilogue ==
    /\ EpilogueElement
    /\ UpdateTop([Top EXCEPT !.epilogue = @ \cup {At}])
    /\ phase' = "epilogue"
    /\ Consume
    /\ KeepResults

\* Mutant: the peeked element is taken over but stays in the iterator.
PeekedOnly == UNCHANGED pos

\* Mutant: the peeked element is dropped and the one after it taken.
PeekedLost == pos' = At + 1

\* The swallow loop takes its element from the iterator.
TakePeeked == Consume

\* next_entry_is_cjr_for_same_subprogram: only `cjr', in the function of the
\* element that ended the entry.
NextIsSameCjr ==
    /\ More
    /\ IsInstruction(Next_e, {"cjr"})
    /\ EnclosingSubprogram(Next_e.pc) = Top.function_name

SwallowCjr ==
    /\ phase = "epilogue"
    /\ NextIsSameCjr
    /\ UpdateTop([Top EXCEPT !.epilogue = @ \cup {At}])
    /\ TakePeeked
    /\ UNCHANGED phase
    /\ KeepResults

DataWrite ==
    /\ phase = "read"
    /\ More
    /\ Next_e.kind = "dwrite"
    /\ UpdateTop([Top EXCEPT !.dwrites = @ \cup {At}])
    /\ Consume
    /\ UNCHANGED phase
    /\ KeepResults

DataRead ==
    /\ phase = "read"
    /\ More
    /\ Next_e.kind = "dread"
    /\ UpdateTop([Top EXCEPT !.dreads = @ \cup {At}])
    /\ Consume
    /\ UNCHANGED phase
    /\ KeepResults

\* Every other snapshot is passed over: another instruction, a store outside
\* all subprograms, a jump outside the entry's function.
Skip ==
    /\ phase = "read"
    /\ More
    /\ Next_e.kind = "snapshot"
    /\ ~ PrologueElement
    /\ ~ EpilogueElement
    /\ Consume
    /\ UNCHANGED <<stack, phase>>
    /\ KeepResults

\* Mutant: the entries' dwrites are one dictionary.
SharedWrites == [NewEntry EXCEPT !.dwrites = Top.dwrites]

\* The entry compile_entries starts with.
FreshEntry == NewEntry

\* Mutant: every frame, not only the outermost, ends a group.
GroupPerFrame(list) ==
    /\ stack' = IF Len(stack) > 1 THEN SubSeq(stack, 1, Len(stack) - 1)
                ELSE IF list = << >> THEN << >> ELSE <<FreshEntry>>
    /\ phase' = IF Len(stack) = 1 /\ list = << >> THEN "done" ELSE "read"
    /\ entries' = << >>
    /\ collection' = IF list = << >> THEN collection ELSE Append(collection, list)

\* A frame returns, leaving `list' in the shared list: to the frame below it,
\* or, from the outermost, to build_simulation_entries, which stops at an
\* empty list and otherwise collects it and starts over.
Return(list) ==
    IF Len(stack) > 1
    THEN /\ stack' = SubSeq(stack, 1, Len(stack) - 1)
         /\ phase' = "read"
         /\ entries' = list
         /\ UNCHANGED collection
    ELSE IF list = << >>
    THEN /\ stack' = << >>
         /\ phase' = "done"
         /\ entries' = list
         /\ UNCHANGED collection
    ELSE /\ stack' = <<FreshEntry>>
         /\ phase' = "read"
         /\ entries' = << >>
         /\ collection' = Append(collection, list)

\* After the epilogue: a valid entry gets its variables and joins the list; a
\* parameter whose location is not frame-base relative raises.
CloseEntry ==
    /\ phase = "epilogue"
    /\ ~ NextIsSameCjr
    /\ ~ (is_valid_entry(Top) /\ Top.function_name \in Unlocatable)
    /\ Return(IF is_valid_entry(Top) THEN Append(entries, Top) ELSE entries)
    /\ UNCHANGED <<trace, pos, abandoned>>

FailToLocate ==
    /\ phase = "epilogue"
    /\ ~ NextIsSameCjr
    /\ is_valid_entry(Top)
    /\ Top.function_name \in Unlocatable
    /\ phase' = "failed"
    /\ UNCHANGED <<pos, stack>>
    /\ KeepResults

\* The trace ends before the epilogue: the frame returns without its entry.
EndOfTrace ==
    /\ phase = "read"
    /\ ~ More
    /\ Return(entries)
    /\ abandoned' = Append(abandoned, Top)
    /\ UNCHANGED <<trace, pos>>

Stopped ==
    /\ phase \in {"done", "failed"}
    /\ UNCHANGED vars

Step ==
    \/ AppendPrologue \/ EnterNested \/ ExceedRecursion
    \/ ReachEpilogue \/ SwallowCjr \/ CloseEntry \/ FailToLocate
    \/ DataWrite \/ DataRead \/ Skip \/ EndOfTrace

Next == Step \/ Stopped

Spec == Init /\ [][Next]_vars
FairSpec == Spec /\ WF_vars(Step)

-----------------------------------------------------------------------------
(***************************************************************************)
(* Properties.                                                             *)
(***************************************************************************)

\* Type invariant.
TypeOK ==
    /\ trace \in Seq(Element)
    /\ pos \in 0 .. Len(trace)
    /\ stack \in Seq(Entry)
    /\ phase \in {"read", "epilogue", "done", "failed"}
    /\ stack = << >> <=> phase = "done"
    /\ entries \in Seq(Entry)
    /\ collection \in Seq(Seq(Entry))
    /\ abandoned \in Seq(Entry)

Registers(e) == e.prologue \cup e.epilogue
Accesses(e) == e.dwrites \cup e.dreads
Claimed(e) == Registers(e) \cup Accesses(e)

\* An entry that is finished: it is named, it has a prologue and an epilogue,
\* their registers were taken inside the function it names, its first store
\* precedes its return, and nothing it holds comes after its return.
Complete(e) ==
    /\ e.function_name \in Names
    /\ e.prologue # {} /\ e.epilogue # {}
    /\ Claimed(e) \subseteq 1 .. pos
    /\ \A k \in Registers(e) : EnclosingSubprogram(trace[k].pc) = e.function_name
    /\ \A k \in e.epilogue, j \in e.prologue \cup Accesses(e) : j < k

\* What the collection and the list being built hold are finished entries, and
\* an entry that reaches its epilogue is never one that is_valid_entry rejects,
\* in whatever order the trace brings stores and returns.
CompleteEntries ==
    /\ phase = "epilogue" => is_valid_entry(Top)
    /\ \A i \in DOMAIN entries : Complete(entries[i])
    /\ \A g \in DOMAIN collection :
          /\ collection[g] # << >>
          /\ \A i \in DOMAIN collection[g] : Complete(collection[g][i])

\* Every entry there is or was, by where it can be found.
Places ==
    ({"collection"} \X UNION { {g} \X DOMAIN collection[g] : g \in DOMAIN collection })
    \cup ({"entries"} \X ({0} \X DOMAIN entries))
    \cup ({"stack"} \X ({0} \X DOMAIN stack))
    \cup ({"abandoned"} \X ({0} \X DOMAIN abandoned))
EntryAt(place) ==
    CASE place[1] = "collection" -> collection[place[2][1]][place[2][2]]
      [] place[1] = "entries"    -> entries[place[2][2]]
      [] place[1] = "stack"      -> stack[place[2][2]]
      [] place[1] = "abandoned"  -> abandoned[place[2][2]]

\* No trace element ends up in two entries, and no data access that was read
\* is in none: what the peeking loop takes it also consumes, and a nested frame
\* hands nothing back to its parent.
EachAccessOnce ==
    /\ \A p, q \in Places :
          p # q => Claimed(EntryAt(p)) \cap Claimed(EntryAt(q)) = {}
    /\ { k \in 1 .. pos : trace[k].kind \in {"dwrite", "dread"} } \subseteq
       UNION { Accesses(EntryAt(p)) : p \in Places }

\* The frames form a call chain: each names its caller's chain and itself, no
\* function directly calls itself, and only the outermost may be unnamed.
ChainDiscipline ==
    \A d \in DOMAIN stack :
        LET e == stack[d] IN
        /\ e.function_name = NoName <=> e.prologue = {}
        /\ e.function_name = NoName => d = 1 /\ e.invoke_chain = << >>
        /\ e.function_name # NoName =>
              /\ Len(e.invoke_chain) <= d
              /\ e.invoke_chain =
                    Append(IF d = 1 THEN << >> ELSE stack[d - 1].invoke_chain, e.function_name)
        /\ d > 1 => e.function_name # stack[d - 1].function_name

\* e ran inside f: f's call chain is e's without e, and f's life spans e's.
Within(e, f) ==
    /\ e.invoke_chain = Append(f.invoke_chain, e.function_name)
    /\ \A k \in Registers(e) :
          /\ \E j \in Registers(f) : j < k
          /\ \E j \in Registers(f) : k < j

\* One group is one outermost execution: its last entry, and no other, is the
\* outermost; every other one ran inside a later entry of the same group.  Only
\* the last group may have lost its outermost entry to the end of the trace.
GroupsAreExecutions ==
    \A g \in DOMAIN collection :
        LET group == collection[g]
            cut == g = Len(collection) /\ abandoned # << >>
        IN \A i \in DOMAIN group :
              /\ Len(group[i].invoke_chain) = 1 => i = Len(group)
              /\ \/ Len(group[i].invoke_chain) = 1
                 \/ \E j \in (i + 1) .. Len(group) : Within(group[i], group[j])
                 \/ /\ cut
                    /\ \E a \in DOMAIN abandoned :
                          group[i].invoke_chain =
                              Append(abandoned[a].invoke_chain, group[i].function_name)

\* The groups follow each other in the trace without overlap.
GroupsInOrder ==
    \A g, h \in DOMAIN collection :
        g < h => \A i \in DOMAIN collection[g], j \in DOMAIN collection[h] :
                    \A k \in Claimed(collection[g][i]), l \in Claimed(collection[h][j]) :
                        k < l

\* The whole trace is used: merging ends, and it ends either with an error or
\* with every element consumed and every frame returned.
Terminates == <>(phase = "failed" \/ (phase = "done" /\ pos = Len(trace) /\ stack = << >>))
=============================================================================
