----------------------------- MODULE CallTrace -----------------------------
(***************************************************************************)
(* A simulated program, the trace it leaves and the entries the merger     *)
(* makes of it, together: each trace element is kept with the invocation   *)
(* that really caused it, so that the merger's guess can be compared with  *)
(* the truth.                                                              *)
(*                                                                         *)
(* The program is the environment.  It follows the frames that GCC emits   *)
(* for RV32 without optimisation: a function first stores registers, may   *)
(* store again, calls with one instruction and returns with another.       *)
(*                                                                         *)
(* Only what runs inside the trace window leaves elements (TraceWindow,    *)
(* with every instruction instrumented).  The pipeline opens the window    *)
(* for the function of interest alone; an ini file may name more ranges.   *)
(***************************************************************************)
EXTENDS EntryMerger

CONSTANTS
    Conventions,     \* [call, return] mnemonics a compiler may use
    Windows,         \* the sets of functions a window may hold
    MayCallItself,   \* TRUE: a function in the window may become active again
                     \* with no other function of the window in between
    MaxCalls,        \* bound: invocations of one run
    MaxStores        \* bound: stores after the prologues

ASSUME ProgramAssumption ==
    /\ Windows \subseteq SUBSET Names
    /\ "sw" \in Mnemonics
    /\ \A c \in Conventions : {c.call, c.return} \subseteq Mnemonics
    /\ MaxCalls \in Nat /\ MaxStores \in Nat

VARIABLES
    convention,      \* the mnemonics of this binary
    window,          \* the functions in the trace window
    calls,           \* the live invocations, the innermost last
    fnOf,            \* the function of each invocation
    around,          \* the live invocations in the window when it was called
    returned,        \* the invocations that have returned
    truth,           \* for each trace element, the invocation it belongs to
    stores           \* stores made after the prologues

program == <<convention, window, calls, fnOf, around, returned, truth, stores>>
merger == <<pos, stack, entries, collection, abandoned>>
allVars == <<vars, program>>

\* One address inside each function stands for its code; the lookup finds the
\* function there.
CodeOf(f) == Subprograms[CHOOSE i \in DOMAIN Subprograms : Subprograms[i].name = f].low + 1

ASSUME CodeAssumption ==
    \A f \in Names : CodeOf(f) \in Pcs /\ EnclosingSubprogram(CodeOf(f)) = f

Executed(instruction, f) ==
    [kind |-> "snapshot", pc |-> CodeOf(f), instruction |-> instruction]
Store(f) == << Executed("sw", f), [kind |-> "dwrite", pc |-> CodeOf(f)] >>

Caller == calls[Len(calls)]

\* What a function executes reaches the trace in the window only.
InWindow(p) == \E f \in window : p = CodeOf(f)
Seen(f, elements) == IF InWindow(CodeOf(f)) THEN elements ELSE << >>

\* Elements reach the trace, all of one invocation.
By(id, elements) == [k \in DOMAIN elements |-> id]
Emit(id, elements) ==
    /\ trace' = trace \o elements
    /\ truth' = truth \o By(id, elements)

\* The calls in the window that an invocation ran inside, and itself; the live
\* ones while it is the innermost.
Chain(id) == Append(around[id], id)
LiveInWindow ==
    IF calls = << >> THEN << >>
    ELSE IF fnOf[Caller] \in window THEN Chain(Caller)
    ELSE around[Caller]
SeemsRecursive(f) ==
    /\ f \in window /\ LiveInWindow # << >>
    /\ fnOf[LiveInWindow[Len(LiveInWindow)]] = f

ProgramInit ==
    /\ trace = << >> /\ pos = 0 /\ stack = <<NewEntry>> /\ phase = "running"
    /\ entries = << >> /\ collection = << >> /\ abandoned = << >>
    /\ convention \in Conventions /\ window \in Windows
    /\ calls = << >> /\ fnOf = << >> /\ around = << >>
    /\ returned = {} /\ truth = << >> /\ stores = 0

\* f is called, from the innermost invocation or from the rest of the program,
\* and runs its prologue.
Invoke(f) ==
    /\ phase = "running"
    /\ Len(fnOf) < MaxCalls
    /\ ~ MayCallItself => ~ SeemsRecursive(f)
    /\ LET id == Len(fnOf) + 1
           jump == IF calls = << >> THEN << >>
                   ELSE Seen(fnOf[Caller], << Executed(convention.call, fnOf[Caller]) >>)
           prologue == Seen(f, Store(f))
       IN /\ trace' = trace \o jump \o prologue
          /\ truth' = truth \o By(Caller, jump) \o By(id, prologue)
          /\ calls' = Append(calls, id)
    /\ fnOf' = Append(fnOf, f)
    /\ around' = Append(around, LiveInWindow)
    /\ UNCHANGED <<convention, window, returned, stores, phase, merger>>

\* The innermost invocation stores a variable.
StoreVariable ==
    /\ phase = "running"
    /\ calls # << >>
    /\ stores < MaxStores
    /\ stores' = stores + 1
    /\ Emit(Caller, Seen(fnOf[Caller], Store(fnOf[Caller])))
    /\ UNCHANGED <<convention, window, calls, fnOf, around, returned, phase, merger>>

\* The innermost invocation returns.
ReturnFrom ==
    /\ phase = "running"
    /\ calls # << >>
    /\ Emit(Caller, Seen(fnOf[Caller], << Executed(convention.return, fnOf[Caller]) >>))
    /\ calls' = SubSeq(calls, 1, Len(calls) - 1)
    /\ returned' = returned \cup {Caller}
    /\ UNCHANGED <<convention, window, fnOf, around, stores, phase, merger>>

\* The simulation ends, wherever the program is, and the trace is merged.
EndSimulation ==
    /\ phase = "running"
    /\ phase' = "read"
    /\ UNCHANGED <<program, trace, merger>>

Merge == Next /\ UNCHANGED program

ProgramNext ==
    \/ \E f \in Names : Invoke(f)
    \/ StoreVariable
    \/ ReturnFrom
    \/ EndSimulation
    \/ Merge

ProgramSpec == ProgramInit /\ [][ProgramNext]_allVars

-----------------------------------------------------------------------------
(***************************************************************************)
(* Properties.                                                             *)
(***************************************************************************)

Invocations == DOMAIN fnOf
Traced == { id \in Invocations : fnOf[id] \in window }

\* The invocations an entry holds something of.
Owners(e) == { truth[k] : k \in Claimed(e) }

\* An entry holds one function call and nothing of any other: the prologue,
\* the accesses and the returned registers of one invocation of the function
\* it names (SimulationDataEntry: "holds the information for one function
\* call").
OneCallPerEntry ==
    \A g \in DOMAIN collection : \A i \in DOMAIN collection[g] :
        \E id \in Invocations :
            /\ Owners(collection[g][i]) = {id}
            /\ fnOf[id] = collection[g][i].function_name

\* Where each invocation ended up.
EntriesOf(id) ==
    { p \in UNION { {g} \X DOMAIN collection[g] : g \in DOMAIN collection } :
        id \in Owners(collection[p[1]][p[2]]) }

\* When the merging is over, each call of a function in the window has exactly
\* one entry if it returned, around callees of which the trace holds nothing,
\* and none if it was still running (construct_entries_recursively: "entries
\* that correspond to individual function executions").
OneEntryPerCall ==
    phase = "done" =>
        \A id \in Traced :
            Cardinality(EntriesOf(id)) = IF id \in returned THEN 1 ELSE 0

\* The group of an outermost call has an entry of every call made during it
\* ("includes the data for that function call as well as the data for any other
\* functions invoked during its execution").  It fails in the pipeline, whose
\* window holds the function of interest alone: a callee leaves no element.
CalleesIncluded ==
    phase = "done" =>
        \A callee \in returned : \A outer \in returned :
            around[callee] # << >> /\ around[callee][1] = outer =>
                \E p \in EntriesOf(outer), q \in EntriesOf(callee) : p[1] = q[1]

\* Of the three things said of the entries, one call each, each call one, the
\* callees' too, at least one holds of whatever program.  It fails where functions
\* call themselves and others behind the pipeline's window: one behaviour refutes
\* all three (simulation_data_entry.py, dwarf_simdata_merger.py,
\* simulation_data_collection.py).
AnyClaimOnEntries == OneCallPerEntry \/ OneEntryPerCall \/ CalleesIncluded

\* Two calls are in one group exactly when they ran inside the same outermost
\* call that the window shows, where they have entries (SimulationDataCollection:
\* "each list corresponds to one call of a function of interest"; whether the
\* other calls have entries is CalleesIncluded's question).
Outermost(id) == Chain(id)[1]
GroupPerOutermostCall ==
    phase = "done" =>
        \A a, b \in returned : \A p \in EntriesOf(a), q \in EntriesOf(b) :
            p[1] = q[1] <=> Outermost(a) = Outermost(b)

\* The chain an entry reports is that of the calls in the window that were live
\* at its invocation.
ChainIsCallChain ==
    \A g \in DOMAIN collection : \A i \in DOMAIN collection[g] :
        LET e == collection[g][i] IN
        \E id \in Traced :
            /\ Owners(e) = {id}
            /\ e.invoke_chain = [k \in DOMAIN Chain(id) |-> fnOf[Chain(id)[k]]]
=============================================================================
