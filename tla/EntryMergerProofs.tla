------------------------- MODULE EntryMergerProofs -------------------------
(***************************************************************************)
(* What holds of the merger for every program, every trace and every       *)
(* recursion limit: its types, the call chains of its open entries, that   *)
(* what it collects is complete, in order and shared by no two entries,    *)
(* and that its groups are executions.                                     *)
(***************************************************************************)
EXTENDS EntryMerger, WellFoundedInduction, TLAPS

-----------------------------------------------------------------------------
(***************************************************************************)
(* The lookup of a subprogram.                                             *)
(***************************************************************************)

\* A set of natural numbers that is not empty has a least element.
LEMMA LeastElement ==
    ASSUME NEW S \in SUBSET Nat, S # {}
    PROVE  \E i \in S : \A j \in S : i <= j
<1> DEFINE R == OpToRel(<, Nat)
<1>1. IsWellFoundedOn(R, Nat)
    BY NatLessThanWellFounded
<1>2. \A i, j \in Nat : i < j => <<i, j>> \in R
    BY DEF OpToRel
<1> HIDE DEF R
<1>3. PICK i \in S : \A j \in S : <<j, i>> \notin R
    BY <1>1, WFMin
<1>4. i \in Nat /\ \A j \in S : j \in Nat /\ ~ (j < i)
    BY <1>2, <1>3
<1>5. \A j \in S : i <= j
    BY <1>4
<1> QED
    BY <1>5

\* The lookup finds a subprogram that holds the pc, or reports none.
LEMMA EnclosingType ==
    ASSUME NEW p
    PROVE  EnclosingSubprogram(p) \in Names \cup {NoName}
<1> DEFINE hits == { i \in DOMAIN Subprograms :
                       Subprograms[i].low <= p /\ p <= Subprograms[i].high }
<1>1. DOMAIN Subprograms \subseteq Nat
    BY SubprogramsAssumption
<1>2. CASE hits = {}
    BY <1>2 DEF EnclosingSubprogram
<1>3. CASE hits # {}
    <2>1. \E i \in hits : \A j \in hits : i <= j
        BY <1>1, <1>3, LeastElement
    <2> DEFINE first == CHOOSE i \in hits : \A j \in hits : i <= j
    <2>2. first \in hits
        BY <2>1
    <2>3. first \in DOMAIN Subprograms
        BY <2>2
    <2>4. EnclosingSubprogram(p) = Subprograms[first].name
        BY <1>3 DEF EnclosingSubprogram
    <2> HIDE DEF first, hits
    <2> QED
        BY <2>3, <2>4 DEF Names
<1> QED
    BY <1>2, <1>3

-----------------------------------------------------------------------------
(***************************************************************************)
(* What the operations do to the stack of open entries.                    *)
(***************************************************************************)

\* Replacing the innermost entry leaves the others alone.
LEMMA UpdateTopStack ==
    ASSUME stack \in Seq(Entry), stack # << >>, NEW e \in Entry, UpdateTop(e)
    PROVE  /\ stack' \in Seq(Entry)
           /\ Len(stack') = Len(stack)
           /\ stack' # << >>
           /\ stack'[Len(stack)] = e
           /\ \A d \in DOMAIN stack : d # Len(stack) => stack'[d] = stack[d]
<1>1. Len(stack) \in DOMAIN stack
    BY DEF Entry
<1>2. stack' = [stack EXCEPT ![Len(stack)] = e]
    BY DEF UpdateTop
<1> QED
    BY <1>1, <1>2

\* The innermost entry is an entry.
LEMMA TopType ==
    ASSUME stack \in Seq(Entry), stack # << >>
    PROVE  Top \in Entry /\ Len(stack) \in DOMAIN stack /\ Top = stack[Len(stack)]
BY DEF Top

\* The entry that a frame starts with.
LEMMA NewEntryType == NewEntry \in Entry
<1>1. << >> \in Seq(Names)
    OBVIOUS
<1> HIDE DEF Names
<1> QED
    BY <1>1 DEF NewEntry, Entry

\* A frame returns: the one below goes on, or the group is complete, or the
\* merger is done.
LEMMA ReturnType ==
    ASSUME stack \in Seq(Entry), stack # << >>, collection \in Seq(Seq(Entry)),
           NEW list \in Seq(Entry), Return(list)
    PROVE  /\ stack' \in Seq(Entry)
           /\ stack' = << >> <=> phase' = "done"
           /\ phase' \in {"read", "done"}
           /\ entries' = list \/ entries' = << >>
           /\ entries' \in Seq(Entry)
           /\ collection' \in Seq(Seq(Entry))
           /\ \/ Len(stack) > 1 /\ stack' = SubSeq(stack, 1, Len(stack) - 1)
                 /\ Len(stack') = Len(stack) - 1
                 /\ \A d \in DOMAIN stack' : d \in DOMAIN stack /\ stack'[d] = stack[d]
              \/ stack' = << >>
              \/ stack' = <<NewEntry>>
           /\ \/ collection' = collection
              \/ list # << >> /\ collection' = Append(collection, list)
<1>1. NewEntry \in Entry
    BY NewEntryType
<1> HIDE DEF Entry, NewEntry
<1>2. CASE Len(stack) > 1
    <2> DEFINE below == SubSeq(stack, 1, Len(stack) - 1)
    <2>1. below \in Seq(Entry) /\ Len(below) = Len(stack) - 1
        BY <1>2
    <2>2. \A d \in 1 .. Len(below) : d \in DOMAIN stack /\ below[d] = stack[d]
        BY <1>2
    <2>4. stack' = below /\ phase' = "read" /\ entries' = list /\ collection' = collection
        BY <1>2 DEF Return
    <2> HIDE DEF below
    <2>3. below # << >> /\ DOMAIN below = 1 .. Len(below)
        BY <1>2, <2>1
    <2>5. \A d \in DOMAIN stack' : d \in DOMAIN stack /\ stack'[d] = stack[d]
        BY <2>2, <2>3, <2>4
    <2>6. stack' = SubSeq(stack, 1, Len(stack) - 1)
        BY <2>4 DEF below
    <2> QED
        BY <1>2, <2>1, <2>3, <2>4, <2>5, <2>6
<1>3. CASE ~ (Len(stack) > 1) /\ list = << >>
    BY <1>3 DEF Return
<1>4. CASE ~ (Len(stack) > 1) /\ list # << >>
    <2>1. <<NewEntry>> \in Seq(Entry) /\ <<NewEntry>> # << >> /\ << >> \in Seq(Entry)
        BY <1>1
    <2>2. Append(collection, list) \in Seq(Seq(Entry))
        OBVIOUS
    <2> QED
        BY <1>4, <2>1, <2>2 DEF Return, FreshEntry
<1> QED
    BY <1>2, <1>3, <1>4

\* The element that is read next is there, and is an element.
LEMMA NextElement ==
    ASSUME TypeOK, More
    PROVE  /\ At \in 1 .. Len(trace)
           /\ At = pos + 1
           /\ At \in Nat
           /\ Next_e \in Element
           /\ Next_e = trace[At]
BY DEF TypeOK, More, At, Next_e

-----------------------------------------------------------------------------
(***************************************************************************)
(* Type correctness.                                                       *)
(***************************************************************************)

\* The entries that the operations make of the innermost one.
LEMMA EntryUpdates ==
    ASSUME NEW e \in Entry, NEW name \in Names, NEW k \in Nat
    PROVE  /\ [e EXCEPT !.dwrites = @ \cup {k}] \in Entry
           /\ [e EXCEPT !.dreads = @ \cup {k}] \in Entry
           /\ [e EXCEPT !.epilogue = @ \cup {k}] \in Entry
           /\ \A chain \in Seq(Names) :
                 [e EXCEPT !.function_name = name, !.invoke_chain = chain,
                           !.prologue = @ \cup {k}] \in Entry
           /\ Append(e.invoke_chain, name) \in Seq(Names)
           /\ e.invoke_chain \in Seq(Names)
<1>1. e.invoke_chain \in Seq(Names)
    BY DEF Entry
<1>2. Append(e.invoke_chain, name) \in Seq(Names)
    BY <1>1
<1> QED
    BY <1>1, <1>2 DEF Entry

\* An operation that adds to the epilogue changes nothing else.
LEMMA EpilogueUpdate ==
    ASSUME NEW e \in Entry, NEW k \in Nat, NEW f, f = [e EXCEPT !.epilogue = @ \cup {k}]
    PROVE  /\ f \in Entry
           /\ f.function_name = e.function_name /\ f.invoke_chain = e.invoke_chain
           /\ f.prologue = e.prologue /\ f.epilogue = e.epilogue \cup {k}
           /\ f.dwrites = e.dwrites /\ f.dreads = e.dreads
BY DEF Entry

\* Nor does one that adds a data access.
LEMMA AccessUpdate ==
    ASSUME NEW e \in Entry, NEW k \in Nat, NEW f,
           \/ f = [e EXCEPT !.dwrites = @ \cup {k}]
           \/ f = [e EXCEPT !.dreads = @ \cup {k}]
    PROVE  /\ f \in Entry
           /\ f.function_name = e.function_name /\ f.invoke_chain = e.invoke_chain
           /\ f.prologue = e.prologue /\ f.epilogue = e.epilogue
           /\ Accesses(f) = Accesses(e) \cup {k}
<1>1. CASE f = [e EXCEPT !.dwrites = @ \cup {k}]
    BY <1>1 DEF Entry, Accesses
<1>2. CASE f = [e EXCEPT !.dreads = @ \cup {k}]
    BY <1>2 DEF Entry, Accesses
<1> QED
    BY <1>1, <1>2

\* The entry of a nested frame.
LEMMA NestedEntryType ==
    ASSUME stack \in Seq(Entry), stack # << >>, NEW name \in Names, At \in Nat
    PROVE  NestedEntry(name) \in Entry
<1>1. Top \in Entry
    BY TopType
<1>2. Append(Top.invoke_chain, name) \in Seq(Names)
    BY <1>1, EntryUpdates
<1> QED
    BY <1>2, NewEntryType DEF NestedEntry, NewEntry, Entry

\* The stored function of a prologue element is a known one.
LEMMA PrologueName ==
    ASSUME PrologueElement
    PROVE  EnclosingSubprogram(Next_e.pc) \in Names
BY EnclosingType DEF PrologueElement

\* An operation that reads one element and changes at most the innermost entry.
LEMMA ReadType ==
    ASSUME TypeOK, More, Consume, KeepResults, stack # << >>,
           stack' \in Seq(Entry), stack' # << >>,
           phase' \in {"read", "epilogue", "failed"}
    PROVE  TypeOK'
BY DEF TypeOK, More, Consume, KeepResults, At

\* TypeOK is inductive.
LEMMA TypeStep == TypeOK /\ [Next]_vars => TypeOK'
<1> SUFFICES ASSUME TypeOK, [Next]_vars PROVE TypeOK'
    OBVIOUS
<1>1. /\ stack \in Seq(Entry) /\ collection \in Seq(Seq(Entry))
      /\ phase # "done" => stack # << >>
    BY DEF TypeOK
<1>2. CASE AppendPrologue
    <2> DEFINE name == EnclosingSubprogram(Next_e.pc)
    <2>1. More /\ phase = "read" /\ stack # << >> /\ name \in Names
        BY <1>1, <1>2, PrologueName DEF AppendPrologue, PrologueElement
    <2>2. At \in Nat /\ Top \in Entry
        BY <1>1, <2>1, NextElement, TopType
    <2>3. NamedChain(name) \in Seq(Names)
        BY <2>1, <2>2, EntryUpdates DEF NamedChain
    <2> DEFINE e == [Top EXCEPT !.function_name = name,
                                !.invoke_chain = NamedChain(name),
                                !.prologue = @ \cup {At}]
    <2>4. e \in Entry /\ UpdateTop(e)
        <3>1. UpdateTop(e)
            BY <1>2 DEF AppendPrologue
        <3> HIDE DEF name
        <3>2. e \in Entry
            BY <2>1, <2>2, <2>3, EntryUpdates
        <3> QED  BY <3>1, <3>2
    <2> HIDE DEF e, name
    <2>5. stack' \in Seq(Entry) /\ stack' # << >>
        BY <1>1, <2>1, <2>4, UpdateTopStack
    <2> QED
        BY <1>2, <2>1, <2>5, ReadType DEF AppendPrologue
<1>3. CASE EnterNested
    <2> DEFINE name == EnclosingSubprogram(Next_e.pc)
    <2>1. More /\ phase = "read" /\ stack # << >> /\ name \in Names
        BY <1>1, <1>3, PrologueName DEF EnterNested, PrologueElement
    <2>2. NestedEntry(name) \in Entry
        BY <1>1, <2>1, NextElement, NestedEntryType
    <2>3. stack' = Append(stack, NestedEntry(name))
        BY <1>3 DEF EnterNested
    <2> HIDE DEF name
    <2>4. stack' \in Seq(Entry) /\ stack' # << >>
        BY <1>1, <2>2, <2>3
    <2> QED
        BY <1>3, <2>1, <2>4, ReadType DEF EnterNested
<1>4. CASE ExceedRecursion
    BY <1>1, <1>4, ReadType DEF ExceedRecursion, PrologueElement
<1>5. CASE ReachEpilogue
    <2>1. More /\ phase = "read" /\ stack # << >>
        BY <1>1, <1>5 DEF ReachEpilogue, EpilogueElement
    <2>2. At \in Nat /\ Top \in Entry
        BY <1>1, <2>1, NextElement, TopType
    <2>3. [Top EXCEPT !.epilogue = @ \cup {At}] \in Entry
        BY <2>2 DEF Entry
    <2>4. stack' \in Seq(Entry) /\ stack' # << >>
        BY <1>1, <1>5, <2>1, <2>3, UpdateTopStack DEF ReachEpilogue
    <2> QED
        BY <1>5, <2>1, <2>4, ReadType DEF ReachEpilogue
<1>6. CASE SwallowCjr
    <2>1. More /\ phase = "epilogue" /\ stack # << >>
        BY <1>1, <1>6 DEF SwallowCjr, NextIsSameCjr
    <2>2. At \in Nat /\ Top \in Entry
        BY <1>1, <2>1, NextElement, TopType
    <2>3. [Top EXCEPT !.epilogue = @ \cup {At}] \in Entry
        BY <2>2 DEF Entry
    <2>4. stack' \in Seq(Entry) /\ stack' # << >>
        BY <1>1, <1>6, <2>1, <2>3, UpdateTopStack DEF SwallowCjr
    <2> QED
        BY <1>6, <2>1, <2>4, ReadType DEF SwallowCjr, TakePeeked
<1>7. CASE CloseEntry
    <2>1. stack # << >> /\ phase = "epilogue" /\ Top \in Entry /\ entries \in Seq(Entry)
        BY <1>1, <1>7, TopType DEF CloseEntry, TypeOK
    <2> DEFINE list == IF is_valid_entry(Top) THEN Append(entries, Top) ELSE entries
    <2>2. list \in Seq(Entry)
        BY <2>1
    <2>3. Return(list)
        BY <1>7 DEF CloseEntry
    <2> HIDE DEF list
    <2> QED
        BY <1>1, <1>7, <2>1, <2>2, <2>3, ReturnType DEF CloseEntry, TypeOK
<1>8. CASE FailToLocate
    BY <1>1, <1>8 DEF FailToLocate, KeepResults, TypeOK
<1>9. CASE DataWrite
    <2>1. More /\ phase = "read" /\ stack # << >>
        BY <1>1, <1>9 DEF DataWrite
    <2>2. At \in Nat /\ Top \in Entry
        BY <1>1, <2>1, NextElement, TopType
    <2>3. [Top EXCEPT !.dwrites = @ \cup {At}] \in Entry
        BY <2>2 DEF Entry
    <2>4. stack' \in Seq(Entry) /\ stack' # << >>
        BY <1>1, <1>9, <2>1, <2>3, UpdateTopStack DEF DataWrite
    <2> QED
        BY <1>9, <2>1, <2>4, ReadType DEF DataWrite
<1>10. CASE DataRead
    <2>1. More /\ phase = "read" /\ stack # << >>
        BY <1>1, <1>10 DEF DataRead
    <2>2. At \in Nat /\ Top \in Entry
        BY <1>1, <2>1, NextElement, TopType
    <2>3. [Top EXCEPT !.dreads = @ \cup {At}] \in Entry
        BY <2>2 DEF Entry
    <2>4. stack' \in Seq(Entry) /\ stack' # << >>
        BY <1>1, <1>10, <2>1, <2>3, UpdateTopStack DEF DataRead
    <2> QED
        BY <1>10, <2>1, <2>4, ReadType DEF DataRead
<1>11. CASE Skip
    BY <1>1, <1>11, ReadType DEF Skip
<1>12. CASE EndOfTrace
    <2>1. stack # << >> /\ Top \in Entry /\ entries \in Seq(Entry)
        BY <1>1, <1>12, TopType DEF EndOfTrace, TypeOK
    <2>2. abandoned' \in Seq(Entry)
        BY <1>12, <2>1 DEF EndOfTrace, TypeOK
    <2> QED
        BY <1>1, <1>12, <2>1, <2>2, ReturnType DEF EndOfTrace, TypeOK
<1>13. CASE UNCHANGED vars
    BY <1>13 DEF TypeOK, vars
<1> QED
    BY <1>2, <1>3, <1>4, <1>5, <1>6, <1>7, <1>8, <1>9, <1>10, <1>11, <1>12, <1>13
    DEF Next, Step, Stopped

\* Merging starts with one entry without a name.
LEMMA TypeInit == Init => TypeOK
<1> SUFFICES ASSUME Init PROVE TypeOK
    OBVIOUS
<1>1. NewEntry \in Entry
    BY NewEntryType
<1> HIDE DEF Entry
<1>2. << >> \in Seq(Entry) /\ << >> \in Seq(Seq(Entry))
    OBVIOUS
<1>3. <<NewEntry>> \in Seq(Entry) /\ <<NewEntry>> # << >>
    BY <1>1
<1> HIDE DEF NewEntry
<1>4. trace \in Seq(Element) /\ Len(trace) \in Nat
    BY TracesAssumption DEF Init
<1> QED
    BY <1>2, <1>3, <1>4 DEF Init, TypeOK

\* The merger's variables keep their types.
THEOREM TypeCorrect == Spec => []TypeOK
BY TypeInit, TypeStep, PTL DEF Spec

-----------------------------------------------------------------------------
(***************************************************************************)
(* The call chains of the open entries.                                    *)
(***************************************************************************)

\* What ChainDiscipline says of the entry at depth d of a stack.
Linked(s, d) ==
    /\ s[d].function_name = NoName <=> s[d].prologue = {}
    /\ s[d].function_name = NoName => d = 1 /\ s[d].invoke_chain = << >>
    /\ s[d].function_name # NoName =>
          /\ Len(s[d].invoke_chain) <= d
          /\ s[d].invoke_chain =
                Append(IF d = 1 THEN << >> ELSE s[d - 1].invoke_chain, s[d].function_name)
    /\ d > 1 => s[d].function_name # s[d - 1].function_name

\* ChainDiscipline in these terms.
LEMMA ChainIsLinked == ChainDiscipline <=> \A d \in DOMAIN stack : Linked(stack, d)
BY DEF ChainDiscipline, Linked

\* A link depends on the entry and the one below it, and of these only on the
\* names, the chains and whether there is a prologue.
LEMMA LinkKept ==
    ASSUME NEW s, NEW t, NEW d \in Nat, d > 0, Linked(s, d),
           t[d].function_name = s[d].function_name,
           t[d].invoke_chain = s[d].invoke_chain,
           t[d].prologue = {} <=> s[d].prologue = {},
           d > 1 => /\ t[d - 1].function_name = s[d - 1].function_name
                    /\ t[d - 1].invoke_chain = s[d - 1].invoke_chain
    PROVE  Linked(t, d)
<1>1. t[d].function_name = NoName <=> t[d].prologue = {}
    BY DEF Linked
<1>2. t[d].function_name = NoName => d = 1 /\ t[d].invoke_chain = << >>
    BY DEF Linked
<1> DEFINE Under(u) == IF d = 1 THEN << >> ELSE u[d - 1].invoke_chain
<1>3. t[d].function_name # NoName =>
          /\ Len(t[d].invoke_chain) <= d
          /\ t[d].invoke_chain = Append(Under(t), t[d].function_name)
    <2>1. Under(t) = Under(s)
        <3>1. CASE d = 1
            BY <3>1
        <3>2. CASE d # 1
            <4>1. d > 1
                BY <3>2
            <4> QED
                BY <3>2, <4>1
        <3> QED
            BY <3>1, <3>2
    <2>2. s[d].function_name # NoName =>
              /\ Len(s[d].invoke_chain) <= d
              /\ s[d].invoke_chain = Append(Under(s), s[d].function_name)
        BY DEF Linked
    <2> HIDE DEF Under
    <2> QED
        BY <2>1, <2>2
<1>4. d > 1 => t[d].function_name # t[d - 1].function_name
    BY DEF Linked
<1> QED
    BY <1>1, <1>2, <1>3, <1>4 DEF Linked

\* Only an entry's name, chain and prologue matter.
LEMMA LinksKept ==
    ASSUME stack \in Seq(Entry), stack' \in Seq(Entry), ChainDiscipline,
           Len(stack') <= Len(stack),
           \A d \in DOMAIN stack' :
              /\ stack'[d].function_name = stack[d].function_name
              /\ stack'[d].invoke_chain = stack[d].invoke_chain
              /\ stack'[d].prologue = {} <=> stack[d].prologue = {}
    PROVE  ChainDiscipline'
<1>1. \A d \in DOMAIN stack' :
          d \in DOMAIN stack /\ d \in Nat /\ d > 0 /\ (d > 1 => d - 1 \in DOMAIN stack')
    OBVIOUS
<1>2. ASSUME NEW d \in DOMAIN stack' PROVE Linked(stack', d)
    <2>1. Linked(stack, d)
        BY <1>1, ChainIsLinked
    <2> QED
        BY <1>1, <2>1, LinkKept
<1> QED
    BY <1>2 DEF ChainDiscipline, Linked

\* A stack of one entry without a name is a chain.
LEMMA NewChain ==
    ASSUME stack' = << >> \/ stack' = <<NewEntry>>
    PROVE  ChainDiscipline'
<1>1. /\ NewEntry.function_name = NoName
      /\ NewEntry.invoke_chain = << >>
      /\ NewEntry.prologue = {}
    BY DEF NewEntry
<1> HIDE DEF NewEntry
<1> QED
    BY <1>1 DEF ChainDiscipline

\* A frame's return keeps the chains below it.
LEMMA ReturnChain ==
    ASSUME TypeOK, ChainDiscipline, stack # << >>, NEW list \in Seq(Entry), Return(list)
    PROVE  ChainDiscipline'
<1>1. stack \in Seq(Entry) /\ collection \in Seq(Seq(Entry))
    BY DEF TypeOK
<1>2. stack' \in Seq(Entry)
    BY <1>1, ReturnType
<1>3. CASE /\ Len(stack') = Len(stack) - 1
           /\ \A d \in DOMAIN stack' : d \in DOMAIN stack /\ stack'[d] = stack[d]
    <2>1. Len(stack') <= Len(stack)
        BY <1>1, <1>3
    <2> QED
        BY <1>1, <1>2, <1>3, <2>1, LinksKept
<1>4. CASE stack' = << >> \/ stack' = <<NewEntry>>
    BY <1>4, NewChain
<1> QED
    BY <1>1, <1>3, <1>4, ReturnType

\* Changing the innermost entry's epilogue and accesses keeps the chains.
LEMMA UpdateChain ==
    ASSUME TypeOK, ChainDiscipline, stack # << >>, NEW e \in Entry, UpdateTop(e),
           e.function_name = Top.function_name,
           e.invoke_chain = Top.invoke_chain,
           e.prologue = Top.prologue
    PROVE  ChainDiscipline'
<1>1. stack \in Seq(Entry)
    BY DEF TypeOK
<1>2. /\ stack' \in Seq(Entry) /\ Len(stack') = Len(stack)
      /\ stack'[Len(stack)] = e
      /\ \A d \in DOMAIN stack : d # Len(stack) => stack'[d] = stack[d]
    BY <1>1, UpdateTopStack
<1>3. Top = stack[Len(stack)]
    BY DEF Top
<1>4. DOMAIN stack' = DOMAIN stack /\ Len(stack') <= Len(stack)
    BY <1>1, <1>2
<1> QED
    BY <1>1, <1>2, <1>3, <1>4, LinksKept

\* Every step keeps the chains.
LEMMA ChainStep == TypeOK /\ ChainDiscipline /\ [Next]_vars => ChainDiscipline'
<1> SUFFICES ASSUME TypeOK, ChainDiscipline, [Next]_vars PROVE ChainDiscipline'
    OBVIOUS
<1>1. /\ stack \in Seq(Entry)
      /\ phase # "done" => stack # << >>
      /\ phase # "done" => Top \in Entry /\ Top = stack[Len(stack)] /\ Len(stack) \in DOMAIN stack
    BY TopType DEF TypeOK
<1>2. CASE AppendPrologue
    <2> DEFINE name == EnclosingSubprogram(Next_e.pc)
    <2>1. More /\ phase = "read" /\ stack # << >> /\ name \in Names
        BY <1>1, <1>2, PrologueName DEF AppendPrologue, PrologueElement
    <2>2. At \in Nat /\ Top \in Entry /\ Top = stack[Len(stack)] /\ Len(stack) \in DOMAIN stack
        BY <1>1, <2>1, NextElement
    <2>3. NamedChain(name) \in Seq(Names)
        BY <2>1, <2>2, EntryUpdates DEF NamedChain
    <2> DEFINE e == [Top EXCEPT !.function_name = name,
                                !.invoke_chain = NamedChain(name),
                                !.prologue = @ \cup {At}]
    <2>4. UpdateTop(e) /\ (Top.function_name = NoName \/ Top.function_name = name)
        BY <1>2 DEF AppendPrologue, SameFunction
    <2>5. /\ e.function_name = name
          /\ e.invoke_chain = NamedChain(name)
          /\ e.prologue # {}
        BY <2>2 DEF Entry
    <2> HIDE DEF name
    <2>6. e \in Entry
        BY <2>1, <2>2, <2>3, EntryUpdates
    <2>7. name # NoName
        BY <2>1, SubprogramsAssumption
    <2> HIDE DEF e
    <2>8. /\ stack' \in Seq(Entry) /\ Len(stack') = Len(stack) /\ stack'[Len(stack)] = e
          /\ \A d \in DOMAIN stack : d # Len(stack) => stack'[d] = stack[d]
        BY <1>1, <2>1, <2>4, <2>6, UpdateTopStack
    <2>9. DOMAIN stack' = DOMAIN stack
        BY <1>1, <2>8
    <2>10. Linked(stack, Len(stack))
        BY <2>2, ChainIsLinked
    <2>11. CASE Top.function_name = NoName
        <3>1. Len(stack) = 1 /\ Top.invoke_chain = << >>
            BY <2>2, <2>10, <2>11 DEF Linked
        <3>2. e.invoke_chain = Append(<< >>, name)
            BY <2>5, <2>11, <3>1 DEF NamedChain
        <3>3. Len(e.invoke_chain) = 1
            BY <3>2
        <3>4. DOMAIN stack' = {1} /\ stack'[1] = e
            BY <1>1, <2>8, <2>9, <3>1
        <3>5. /\ stack'[1].function_name = name /\ stack'[1].prologue # {}
              /\ stack'[1].invoke_chain = Append(<< >>, stack'[1].function_name)
              /\ Len(stack'[1].invoke_chain) <= 1
            <4>1. stack'[1] = e
                BY <3>4
            <4>2. e.function_name = name /\ e.prologue # {}
                BY <2>5
            <4>3. Len(e.invoke_chain) <= 1
                BY <3>3
            <4> QED
                BY <3>2, <4>1, <4>2, <4>3
        <3>6. Linked(stack', 1)
            BY <2>7, <3>5 DEF Linked
        <3> QED
            BY <3>4, <3>6 DEF ChainDiscipline, Linked
    <2>12. CASE Top.function_name = name
        <3>1. e.invoke_chain = Top.invoke_chain /\ e.function_name = Top.function_name
            BY <2>5, <2>7, <2>12 DEF NamedChain
        <3>2. /\ Top.prologue # {}
              /\ e.prologue # {}
            BY <2>2, <2>5, <2>7, <2>10, <2>12 DEF Linked
        <3>3. \A d \in DOMAIN stack' :
                 /\ stack'[d].function_name = stack[d].function_name
                 /\ stack'[d].invoke_chain = stack[d].invoke_chain
                 /\ stack'[d].prologue = {} <=> stack[d].prologue = {}
            BY <2>2, <2>8, <2>9, <3>1, <3>2
        <3>4. Len(stack') <= Len(stack)
            BY <1>1, <2>8
        <3> QED
            BY <1>1, <2>8, <3>3, <3>4, LinksKept
    <2> QED
        BY <2>4, <2>11, <2>12
<1>3. CASE EnterNested
    <2> DEFINE name == EnclosingSubprogram(Next_e.pc)
    <2>1. More /\ phase = "read" /\ stack # << >> /\ name \in Names
        BY <1>1, <1>3, PrologueName DEF EnterNested, PrologueElement
    <2>2. /\ Top.function_name # NoName /\ Top.function_name # name
          /\ stack' = Append(stack, NestedEntry(name))
        BY <1>3 DEF EnterNested, SameFunction
    <2> HIDE DEF name
    <2>3. NestedEntry(name) \in Entry
        BY <1>1, <2>1, NextElement, NestedEntryType
    <2>4. /\ NestedEntry(name).function_name = name
          /\ NestedEntry(name).invoke_chain = Append(Top.invoke_chain, name)
          /\ NestedEntry(name).prologue # {}
        BY DEF NestedEntry, NewEntry
    <2>5. name # NoName
        BY <2>1, SubprogramsAssumption
    <2> DEFINE n == Len(stack)
    <2>6. /\ stack' \in Seq(Entry) /\ Len(stack') = n + 1 /\ n \in Nat
          /\ stack'[n + 1] = NestedEntry(name)
          /\ \A d \in DOMAIN stack : stack'[d] = stack[d]
          /\ DOMAIN stack' = DOMAIN stack \cup {n + 1}
          /\ DOMAIN stack = 1 .. n
        BY <1>1, <2>2, <2>3
    <2>7. Linked(stack, n) /\ Top = stack[n] /\ n > 0
        BY <1>1, <2>1, <2>6, ChainIsLinked
    <2>8. Top.invoke_chain \in Seq(Names) /\ Len(Top.invoke_chain) <= n
        BY <1>1, <2>1, <2>2, <2>7, EntryUpdates DEF Linked
    <2>9. Len(Append(Top.invoke_chain, name)) <= n + 1
        BY <2>1, <2>6, <2>8
    <2> HIDE DEF n
    <2>10. Linked(stack', n + 1)
        BY <2>2, <2>4, <2>5, <2>6, <2>7, <2>9 DEF Linked
    <2>11. \A d \in DOMAIN stack : Linked(stack', d)
        <3> SUFFICES ASSUME NEW d \in DOMAIN stack PROVE Linked(stack', d)
            OBVIOUS
        <3>1. Linked(stack, d) /\ stack'[d] = stack[d]
            BY <2>6, ChainIsLinked
        <3>2. d > 1 => stack'[d - 1] = stack[d - 1]
            BY <2>6
        <3>3. d \in Nat /\ d > 0
            BY <2>6
        <3> QED
            BY <3>1, <3>2, <3>3, LinkKept
    <2> QED
        BY <2>6, <2>10, <2>11 DEF ChainDiscipline, Linked
<1>4. CASE ReachEpilogue \/ SwallowCjr
    <2>1. More /\ stack # << >> /\ phase # "done"
        BY <1>1, <1>4 DEF ReachEpilogue, EpilogueElement, SwallowCjr, NextIsSameCjr
    <2>2. At \in Nat /\ Top \in Entry
        BY <1>1, <2>1, NextElement
    <2> DEFINE e == [Top EXCEPT !.epilogue = @ \cup {At}]
    <2>3. UpdateTop(e)
        BY <1>4 DEF ReachEpilogue, SwallowCjr
    <2>4. /\ e \in Entry /\ e.function_name = Top.function_name
          /\ e.invoke_chain = Top.invoke_chain /\ e.prologue = Top.prologue
        BY <2>2 DEF Entry
    <2> HIDE DEF e
    <2> QED
        BY <2>1, <2>3, <2>4, UpdateChain
<1>5. CASE DataWrite \/ DataRead
    <2>1. More /\ stack # << >> /\ phase # "done"
        BY <1>1, <1>5 DEF DataWrite, DataRead
    <2>2. At \in Nat /\ Top \in Entry
        BY <1>1, <2>1, NextElement
    <2> DEFINE e == IF DataWrite THEN [Top EXCEPT !.dwrites = @ \cup {At}]
                    ELSE [Top EXCEPT !.dreads = @ \cup {At}]
    <2>3. UpdateTop(e)
        BY <1>5 DEF DataWrite, DataRead
    <2>4. /\ e \in Entry /\ e.function_name = Top.function_name
          /\ e.invoke_chain = Top.invoke_chain /\ e.prologue = Top.prologue
        BY <2>2 DEF Entry
    <2> HIDE DEF e
    <2> QED
        BY <2>1, <2>3, <2>4, UpdateChain
<1>6. CASE CloseEntry
    <2>1. stack # << >> /\ Top \in Entry /\ entries \in Seq(Entry)
        BY <1>1, <1>6 DEF CloseEntry, TypeOK
    <2> DEFINE list == IF is_valid_entry(Top) THEN Append(entries, Top) ELSE entries
    <2>2. list \in Seq(Entry) /\ Return(list)
        BY <1>6, <2>1 DEF CloseEntry
    <2> HIDE DEF list
    <2> QED
        BY <2>1, <2>2, ReturnChain
<1>7. CASE EndOfTrace
    <2>1. stack # << >> /\ entries \in Seq(Entry) /\ Return(entries)
        BY <1>1, <1>7 DEF EndOfTrace, TypeOK
    <2> QED
        BY <2>1, ReturnChain
<1>8. CASE ExceedRecursion \/ FailToLocate \/ Skip \/ UNCHANGED vars
    <2>1. stack' = stack
        BY <1>8 DEF ExceedRecursion, FailToLocate, Skip, vars
    <2> QED
        BY <2>1 DEF ChainDiscipline
<1> QED
    BY <1>2, <1>3, <1>4, <1>5, <1>6, <1>7, <1>8 DEF Next, Step, Stopped

\* The chain of the first, unnamed entry.
LEMMA ChainInit == Init => ChainDiscipline
<1> SUFFICES ASSUME Init PROVE ChainDiscipline
    OBVIOUS
<1>1. stack = <<NewEntry>>
    BY DEF Init
<1>2. /\ NewEntry.function_name = NoName
      /\ NewEntry.invoke_chain = << >>
      /\ NewEntry.prologue = {}
    BY DEF NewEntry
<1> HIDE DEF NewEntry
<1> QED
    BY <1>1, <1>2 DEF ChainDiscipline

\* The open entries form a call chain in which no function calls itself.
THEOREM ChainCorrect == Spec => []ChainDiscipline
<1>1. Spec => []TypeOK
    BY TypeCorrect
<1> QED
    BY <1>1, ChainInit, ChainStep, PTL DEF Spec

-----------------------------------------------------------------------------
(***************************************************************************)
(* Complete entries.  An open entry is already sound in what it holds: the *)
(* inductive invariant says so of every frame, and that only the innermost *)
(* one can have an epilogue, which it has once it left the reading phase.  *)
(***************************************************************************)

\* What an entry holds of the first p elements of the trace t is in order.
Held(e, t, p) ==
    /\ e.function_name = NoName => e.prologue = {} /\ e.epilogue = {}
    /\ e.prologue = {} => e.function_name = NoName
    /\ Claimed(e) \subseteq 1 .. p
    /\ \A k \in Registers(e) : EnclosingSubprogram(t[k].pc) = e.function_name
    /\ \A k \in e.epilogue, j \in e.prologue \cup Accesses(e) : j < k

\* Every open entry is, and only the innermost frame has reached its epilogue.
OpenInv ==
    /\ \A d \in DOMAIN stack :
          /\ Held(stack[d], trace, pos)
          /\ d # Len(stack) => stack[d].epilogue = {}
    /\ phase = "read" => Top.epilogue = {}
    /\ phase = "epilogue" => Top.epilogue # {}

\* The collected entries, without the open one.
ClosedInv ==
    /\ \A i \in DOMAIN entries : Complete(entries[i])
    /\ \A g \in DOMAIN collection :
          /\ collection[g] # << >>
          /\ \A i \in DOMAIN collection[g] : Complete(collection[g][i])

MergeInv == OpenInv /\ ClosedInv

\* An entry that is in order and valid is complete, and conversely.
LEMMA HeldComplete ==
    ASSUME NEW e \in Entry
    PROVE  Complete(e) <=> Held(e, trace, pos) /\ e.prologue # {} /\ e.epilogue # {}
<1>1. e.function_name \in Names <=> e.function_name # NoName
    BY SubprogramsAssumption DEF Entry
<1> QED
    BY <1>1 DEF Complete, Held

\* What an entry holds stays in order while the trace is read on.
LEMMA HeldGrows ==
    ASSUME NEW e, NEW t, NEW p \in Nat, NEW q \in Nat, p <= q, Held(e, t, p)
    PROVE  Held(e, t, q)
<1>1. 1 .. p \subseteq 1 .. q
    OBVIOUS
<1> QED
    BY <1>1 DEF Held

\* Complete entries stay complete.
LEMMA ClosedGrows ==
    ASSUME TypeOK, ClosedInv, trace' = trace, pos' \in Nat, pos <= pos',
           entries' = entries, collection' = collection
    PROVE  ClosedInv'
<1>1. pos \in Nat /\ 1 .. pos \subseteq 1 .. pos'
    BY DEF TypeOK
<1>2. \A e : Complete(e) => Complete(e)'
    BY <1>1 DEF Complete
<1> QED
    BY <1>2 DEF ClosedInv

\* A new entry holds nothing.
LEMMA NewHeld ==
    ASSUME NEW t, NEW p
    PROVE  Held(NewEntry, t, p) /\ NewEntry.epilogue = {}
BY DEF Held, NewEntry, Claimed, Registers, Accesses

\* A step that reads on and changes the innermost entry keeps the others.
LEMMA UpdateOpen ==
    ASSUME TypeOK, OpenInv, stack # << >>, NEW e \in Entry, UpdateTop(e),
           trace' = trace, pos' \in Nat, pos <= pos',
           Held(e, trace, pos'),
           phase' = "read" => e.epilogue = {},
           phase' = "epilogue" => e.epilogue # {}
    PROVE  OpenInv'
<1>1. stack \in Seq(Entry) /\ pos \in Nat
    BY DEF TypeOK
<1>2. /\ stack' \in Seq(Entry) /\ Len(stack') = Len(stack)
      /\ stack'[Len(stack)] = e
      /\ \A d \in DOMAIN stack : d # Len(stack) => stack'[d] = stack[d]
    BY <1>1, UpdateTopStack
<1>3. DOMAIN stack' = DOMAIN stack /\ Top' = e
    BY <1>1, <1>2 DEF Top
<1>4. ASSUME NEW d \in DOMAIN stack'
      PROVE  Held(stack'[d], trace, pos') /\ (d # Len(stack') => stack'[d].epilogue = {})
    <2>1. CASE d = Len(stack)
        BY <1>2, <2>1
    <2>2. CASE d # Len(stack)
        <3>1. stack'[d] = stack[d] /\ stack[d].epilogue = {} /\ Held(stack[d], trace, pos)
            BY <1>2, <1>3, <2>2 DEF OpenInv
        <3> QED
            BY <1>1, <3>1, HeldGrows
    <2> QED
        BY <2>1, <2>2
<1> QED
    BY <1>3, <1>4 DEF OpenInv

\* A step that leaves the stack alone keeps it.
LEMMA SameOpen ==
    ASSUME TypeOK, OpenInv, stack' = stack, trace' = trace, pos' \in Nat, pos <= pos',
           phase' = phase \/ phase' = "failed"
    PROVE  OpenInv'
<1>1. pos \in Nat
    BY DEF TypeOK
<1>2. \A d \in DOMAIN stack : Held(stack[d], trace, pos')
    BY <1>1, HeldGrows DEF OpenInv
<1>3. Top' = Top
    BY DEF Top
<1> QED
    BY <1>2, <1>3 DEF OpenInv

\* A frame returns: the frame below goes on reading.
LEMMA ReturnOpen ==
    ASSUME TypeOK, OpenInv, stack # << >>, NEW list \in Seq(Entry), Return(list),
           UNCHANGED <<trace, pos>>
    PROVE  OpenInv'
<1>1. stack \in Seq(Entry) /\ collection \in Seq(Seq(Entry))
    BY DEF TypeOK
<1>2. /\ stack' \in Seq(Entry)
      /\ phase' \in {"read", "done"} /\ (stack' = << >> <=> phase' = "done")
    BY <1>1, ReturnType
<1>3. CASE /\ Len(stack') = Len(stack) - 1
           /\ \A d \in DOMAIN stack' : d \in DOMAIN stack /\ stack'[d] = stack[d]
    <2>1. \A d \in DOMAIN stack' : d # Len(stack)
        BY <1>1, <1>2, <1>3
    <2>2. \A d \in DOMAIN stack' : Held(stack'[d], trace, pos) /\ stack'[d].epilogue = {}
        BY <1>3, <2>1 DEF OpenInv
    <2>3. phase' = "read" => Len(stack') \in DOMAIN stack'
        BY <1>2
    <2> QED
        BY <1>2, <2>2, <2>3 DEF OpenInv, Top
<1>4. CASE stack' = << >>
    BY <1>2, <1>4 DEF OpenInv
<1>5. CASE stack' = <<NewEntry>>
    <2>1. DOMAIN stack' = {1} /\ Len(stack') = 1 /\ stack'[1] = NewEntry /\ phase' = "read"
        BY <1>2, <1>5
    <2> QED
        BY <1>2, <2>1, NewHeld DEF OpenInv, Top
<1> QED
    BY <1>1, <1>3, <1>4, <1>5, ReturnType

\* What a frame leaves in the shared list, or adds to the collection, is
\* complete if the list is.
LEMMA ReturnClosed ==
    ASSUME TypeOK, ClosedInv, stack # << >>, NEW list \in Seq(Entry), Return(list),
           \A i \in DOMAIN list : Complete(list[i]),
           UNCHANGED <<trace, pos>>
    PROVE  ClosedInv'
<1>1. stack \in Seq(Entry) /\ collection \in Seq(Seq(Entry))
    BY DEF TypeOK
<1>2. \A e : Complete(e)' <=> Complete(e)
    BY DEF Complete
<1>3. \A i \in DOMAIN entries' : Complete(entries'[i])
    BY <1>1, ReturnType
<1>4. \A g \in DOMAIN collection' :
          collection'[g] # << >> /\ \A i \in DOMAIN collection'[g] : Complete(collection'[g][i])
    <2>1. CASE collection' = collection
        BY <2>1 DEF ClosedInv
    <2>2. CASE list # << >> /\ collection' = Append(collection, list)
        <3>1. \A g \in DOMAIN collection' :
                 \/ g \in DOMAIN collection /\ collection'[g] = collection[g]
                 \/ collection'[g] = list
            BY <1>1, <2>2
        <3> QED
            BY <2>2, <3>1 DEF ClosedInv
    <2> QED
        BY <1>1, <2>1, <2>2, ReturnType
<1> QED
    BY <1>2, <1>3, <1>4 DEF ClosedInv

\* A step that reads an element leaves what is closed alone.
LEMMA ReadClosed ==
    ASSUME TypeOK, ClosedInv, Consume, KeepResults
    PROVE  ClosedInv'
BY ClosedGrows DEF TypeOK, Consume, KeepResults, At

\* Every step preserves the invariant.
LEMMA MergeStep == TypeOK /\ MergeInv /\ [Next]_vars => MergeInv'
<1> SUFFICES ASSUME TypeOK, OpenInv, ClosedInv, [Next]_vars PROVE OpenInv' /\ ClosedInv'
    BY DEF MergeInv
<1>1. /\ stack \in Seq(Entry) /\ pos \in Nat /\ At = pos + 1 /\ At \in 1 .. At /\ At \in Nat
      /\ phase # "done" => stack # << >>
      /\ phase # "done" => Top \in Entry /\ Held(Top, trace, At) /\ Held(Top, trace, pos)
    <2>1. stack \in Seq(Entry) /\ pos \in Nat /\ At = pos + 1
        BY DEF TypeOK, At
    <2>2. phase # "done" => stack # << >>
        BY DEF TypeOK
    <2>3. phase # "done" => Top \in Entry /\ Held(Top, trace, pos)
        BY <2>1, <2>2, TopType DEF OpenInv
    <2> QED
        BY <2>1, <2>2, <2>3, HeldGrows
<1>2. Claimed(Top) \subseteq 1 .. pos => At \notin Claimed(Top) /\ \A j \in Claimed(Top) : j < At
    BY <1>1
<1>3. Consume => pos' \in Nat /\ pos <= pos' /\ pos' = At
    BY <1>1 DEF Consume
<1>4. CASE AppendPrologue
    <2> DEFINE name == EnclosingSubprogram(Next_e.pc)
    <2>1. More /\ phase = "read" /\ stack # << >> /\ name \in Names
        BY <1>1, <1>4, PrologueName DEF AppendPrologue, PrologueElement
    <2>2. NamedChain(name) \in Seq(Names) /\ At \in Nat
        BY <1>1, <2>1, EntryUpdates DEF NamedChain
    <2> DEFINE e == [Top EXCEPT !.function_name = name,
                                !.invoke_chain = NamedChain(name),
                                !.prologue = @ \cup {At}]
    <2>3. /\ UpdateTop(e) /\ Consume /\ KeepResults /\ phase' = phase
          /\ Top.function_name = NoName \/ Top.function_name = name
        BY <1>4 DEF AppendPrologue, SameFunction
    <2>4. /\ e.function_name = name /\ e.prologue = Top.prologue \cup {At}
          /\ e.epilogue = Top.epilogue /\ e.dwrites = Top.dwrites /\ e.dreads = Top.dreads
        BY <1>1, <2>1 DEF Entry
    <2>5. name = EnclosingSubprogram(trace[At].pc) /\ name # NoName
        BY <2>1, SubprogramsAssumption DEF Next_e
    <2>6. Top.epilogue = {} /\ Held(Top, trace, At)
        BY <1>1, <2>1 DEF OpenInv
    <2> HIDE DEF name
    <2>7. e \in Entry
        BY <1>1, <2>1, <2>2, EntryUpdates
    <2> HIDE DEF e
    <2>8. Held(e, trace, At)
        BY <1>1, <2>3, <2>4, <2>5, <2>6 DEF Held, Claimed, Registers, Accesses
    <2>9. OpenInv'
        BY <1>3, <2>1, <2>3, <2>4, <2>6, <2>7, <2>8, UpdateOpen DEF KeepResults
    <2> QED
        BY <2>3, <2>9, ReadClosed
<1>5. CASE EnterNested
    <2> DEFINE name == EnclosingSubprogram(Next_e.pc)
    <2>1. More /\ phase = "read" /\ stack # << >> /\ name \in Names
        BY <1>1, <1>5, PrologueName DEF EnterNested, PrologueElement
    <2>2. stack' = Append(stack, NestedEntry(name)) /\ Consume /\ KeepResults /\ phase' = phase
        BY <1>5 DEF EnterNested
    <2>3. name = EnclosingSubprogram(trace[At].pc) /\ name # NoName
        BY <2>1, SubprogramsAssumption DEF Next_e
    <2> HIDE DEF name
    <2>4. NestedEntry(name) \in Entry
        BY <1>1, <2>1, NestedEntryType
    <2>5. /\ NestedEntry(name).function_name = name /\ NestedEntry(name).prologue = {At}
          /\ NestedEntry(name).epilogue = {} /\ NestedEntry(name).dwrites = {}
          /\ NestedEntry(name).dreads = {}
        BY DEF NestedEntry, NewEntry
    <2>6. Held(NestedEntry(name), trace, At)
        BY <1>1, <2>3, <2>5 DEF Held, Claimed, Registers, Accesses
    <2>7. /\ stack' \in Seq(Entry) /\ Len(stack') = Len(stack) + 1
          /\ stack'[Len(stack) + 1] = NestedEntry(name)
          /\ \A d \in DOMAIN stack : stack'[d] = stack[d]
          /\ DOMAIN stack' = DOMAIN stack \cup {Len(stack) + 1}
        BY <1>1, <2>2, <2>4
    <2>8. \A d \in DOMAIN stack : Held(stack[d], trace, At) /\ stack[d].epilogue = {}
        <3>1. \A d \in DOMAIN stack : stack[d].epilogue = {}
            BY <2>1 DEF OpenInv, Top
        <3> QED
            BY <1>1, <3>1, HeldGrows DEF OpenInv
    <2>9. \A d \in DOMAIN stack' : Held(stack'[d], trace, At) /\ stack'[d].epilogue = {}
        BY <2>5, <2>6, <2>7, <2>8
    <2>10. Top' = NestedEntry(name)
        BY <2>7 DEF Top
    <2>11. OpenInv'
        BY <1>3, <2>1, <2>2, <2>5, <2>9, <2>10 DEF OpenInv, KeepResults
    <2> QED
        BY <2>2, <2>11, ReadClosed
<1>6. CASE ReachEpilogue
    <2> DEFINE e == [Top EXCEPT !.epilogue = @ \cup {At}]
    <2>1. More /\ phase = "read" /\ stack # << >>
        BY <1>1, <1>6 DEF ReachEpilogue, EpilogueElement
    <2>2. /\ EnclosingSubprogram(trace[At].pc) = Top.function_name
          /\ Top.function_name # NoName
        BY <1>6 DEF ReachEpilogue, EpilogueElement, Next_e
    <2>3. UpdateTop(e) /\ Consume /\ KeepResults /\ phase' = "epilogue"
        BY <1>6 DEF ReachEpilogue
    <2>4. /\ e \in Entry /\ e.function_name = Top.function_name /\ e.prologue = Top.prologue
          /\ e.epilogue = Top.epilogue \cup {At}
          /\ e.dwrites = Top.dwrites /\ e.dreads = Top.dreads
        BY <1>1, <2>1, EpilogueUpdate
    <2>5. Top.epilogue = {} /\ Held(Top, trace, At) /\ Held(Top, trace, pos)
        BY <1>1, <2>1 DEF OpenInv
    <2> HIDE DEF e
    <2>6. Held(e, trace, At)
        BY <1>1, <1>2, <2>2, <2>4, <2>5 DEF Held, Claimed, Registers, Accesses
    <2>7. OpenInv'
        BY <1>3, <2>1, <2>3, <2>4, <2>6, UpdateOpen DEF KeepResults
    <2> QED
        BY <2>3, <2>7, ReadClosed
<1>7. CASE SwallowCjr
    <2> DEFINE e == [Top EXCEPT !.epilogue = @ \cup {At}]
    <2>1. More /\ phase = "epilogue" /\ stack # << >>
        BY <1>1, <1>7 DEF SwallowCjr, NextIsSameCjr
    <2>2. EnclosingSubprogram(trace[At].pc) = Top.function_name
        BY <1>7 DEF SwallowCjr, NextIsSameCjr, Next_e
    <2>3. UpdateTop(e) /\ Consume /\ KeepResults /\ phase' = "epilogue"
        BY <1>7, <2>1 DEF SwallowCjr, TakePeeked
    <2>4. /\ e \in Entry /\ e.function_name = Top.function_name /\ e.prologue = Top.prologue
          /\ e.epilogue = Top.epilogue \cup {At}
          /\ e.dwrites = Top.dwrites /\ e.dreads = Top.dreads
        BY <1>1, <2>1, EpilogueUpdate
    <2>5. Top.epilogue # {} /\ Held(Top, trace, At) /\ Held(Top, trace, pos)
        BY <1>1, <2>1 DEF OpenInv
    <2> HIDE DEF e
    <2>6. Held(e, trace, At)
        BY <1>1, <1>2, <2>2, <2>4, <2>5 DEF Held, Claimed, Registers, Accesses
    <2>7. OpenInv'
        BY <1>3, <2>1, <2>3, <2>4, <2>6, UpdateOpen DEF KeepResults
    <2> QED
        BY <2>3, <2>7, ReadClosed
<1>8. CASE DataWrite \/ DataRead
    <2> DEFINE e == IF DataWrite THEN [Top EXCEPT !.dwrites = @ \cup {At}]
                    ELSE [Top EXCEPT !.dreads = @ \cup {At}]
    <2>1. More /\ phase = "read" /\ stack # << >>
        BY <1>1, <1>8 DEF DataWrite, DataRead
    <2>2. UpdateTop(e) /\ Consume /\ KeepResults /\ phase' = "read"
        BY <1>8, <2>1 DEF DataWrite, DataRead
    <2>3. /\ e \in Entry /\ e.function_name = Top.function_name /\ e.prologue = Top.prologue
          /\ e.epilogue = Top.epilogue
          /\ Accesses(e) = Accesses(Top) \cup {At}
        BY <1>1, <2>1, AccessUpdate
    <2>4. Top.epilogue = {} /\ Held(Top, trace, At)
        BY <1>1, <2>1 DEF OpenInv
    <2> HIDE DEF e
    <2>5. Held(e, trace, At)
        BY <1>1, <2>3, <2>4 DEF Held, Claimed, Registers
    <2>6. OpenInv'
        BY <1>3, <2>1, <2>2, <2>3, <2>4, <2>5, UpdateOpen DEF KeepResults
    <2> QED
        BY <2>2, <2>6, ReadClosed
<1>9. CASE CloseEntry
    <2>1. stack # << >> /\ phase = "epilogue" /\ Top \in Entry /\ entries \in Seq(Entry)
        BY <1>1, <1>9 DEF CloseEntry, TypeOK
    <2> DEFINE list == IF is_valid_entry(Top) THEN Append(entries, Top) ELSE entries
    <2>2. list \in Seq(Entry) /\ Return(list) /\ UNCHANGED <<trace, pos>>
        BY <1>9, <2>1 DEF CloseEntry
    <2>3. is_valid_entry(Top) => Complete(Top)
        BY <1>1, <2>1, HeldComplete DEF is_valid_entry
    <2>4. \A i \in DOMAIN list : Complete(list[i])
        <3>1. CASE is_valid_entry(Top)
            <4>1. \A i \in DOMAIN list :
                     (i \in DOMAIN entries /\ list[i] = entries[i]) \/ list[i] = Top
                BY <2>1, <3>1
            <4> QED
                BY <2>3, <3>1, <4>1 DEF ClosedInv
        <3>2. CASE ~ is_valid_entry(Top)
            BY <3>2 DEF ClosedInv
        <3> QED
            BY <3>1, <3>2
    <2> HIDE DEF list
    <2> QED
        BY <2>1, <2>2, <2>4, ReturnOpen, ReturnClosed
<1>10. CASE EndOfTrace
    <2>1. stack # << >> /\ entries \in Seq(Entry) /\ Return(entries) /\ UNCHANGED <<trace, pos>>
        BY <1>1, <1>10 DEF EndOfTrace, TypeOK
    <2>2. \A i \in DOMAIN entries : Complete(entries[i])
        BY DEF ClosedInv
    <2> QED
        BY <2>1, <2>2, ReturnOpen, ReturnClosed
<1>11. CASE ExceedRecursion \/ Skip
    <2>1. /\ stack' = stack /\ Consume /\ KeepResults
          /\ phase' = phase \/ phase' = "failed"
        BY <1>11 DEF ExceedRecursion, Skip
    <2> QED
        BY <1>3, <2>1, SameOpen, ReadClosed DEF KeepResults
<1>12. CASE FailToLocate \/ UNCHANGED vars
    <2>1. /\ UNCHANGED <<trace, pos, stack, entries, collection>>
          /\ phase' = phase \/ phase' = "failed"
        BY <1>12 DEF FailToLocate, KeepResults, vars
    <2> QED
        BY <1>1, <2>1, SameOpen, ClosedGrows
<1> QED
    BY <1>4, <1>5, <1>6, <1>7, <1>8, <1>9, <1>10, <1>11, <1>12 DEF Next, Step, Stopped

\* At the start there is one entry, which holds nothing.
LEMMA MergeInit == Init => MergeInv
<1> SUFFICES ASSUME Init PROVE MergeInv
    OBVIOUS
<1>1. /\ DOMAIN stack = {1} /\ Len(stack) = 1 /\ stack[1] = NewEntry /\ phase = "read"
      /\ DOMAIN entries = {} /\ DOMAIN collection = {}
    BY DEF Init
<1> QED
    BY <1>1, NewHeld DEF MergeInv, OpenInv, ClosedInv, Top

\* The invariant implies the property: an entry with an epilogue is valid.
LEMMA MergeComplete == TypeOK /\ MergeInv => CompleteEntries
<1> SUFFICES ASSUME TypeOK, OpenInv, ClosedInv PROVE CompleteEntries
    BY DEF MergeInv
<1>1. ASSUME phase = "epilogue" PROVE is_valid_entry(Top)
    <2>1. stack \in Seq(Entry) /\ stack # << >>
        BY <1>1 DEF TypeOK
    <2>2. Held(Top, trace, pos) /\ Top.epilogue # {}
        BY <1>1, <2>1, TopType DEF OpenInv
    <2> QED
        BY <2>2 DEF Held, is_valid_entry
<1> QED
    BY <1>1 DEF ClosedInv, CompleteEntries

\* Every entry that reaches its epilogue is valid, and every entry collected
\* has a prologue and an epilogue of the function it names, in trace order.
THEOREM CompleteCorrect == Spec => []CompleteEntries
<1>1. Spec => []TypeOK
    BY TypeCorrect
<1>2. Spec => []MergeInv
    BY <1>1, MergeInit, MergeStep, PTL DEF Spec
<1> QED
    BY <1>1, <1>2, MergeComplete, PTL

-----------------------------------------------------------------------------
(***************************************************************************)
(* What the steps do to the entries, whichever action they are.            *)
(***************************************************************************)

\* The element read goes to the innermost entry, or begins one above it, or is
\* no data access and goes nowhere.
IsSnapshot == trace[At].kind = "snapshot"
GivesToTop ==
    \E e \in Entry :
        /\ UpdateTop(e)
        /\ Claimed(e) = Claimed(Top) \cup {At}
        /\ Accesses(Top) \subseteq Accesses(e)
        /\ IsSnapshot \/ At \in Accesses(e)
BeginsEntry ==
    \E e \in Entry : stack' = Append(stack, e) /\ Claimed(e) = {At} /\ IsSnapshot
GoesNowhere == stack' = stack /\ IsSnapshot

ReadStep ==
    /\ pos' = At
    /\ UNCHANGED <<trace, entries, collection, abandoned>>
    /\ stack # << >>
    /\ GivesToTop \/ BeginsEntry \/ GoesNowhere

StillStep == UNCHANGED <<trace, pos, stack, entries, collection, abandoned>>

LEMMA StepShape ==
    ASSUME TypeOK, [Next]_vars
    PROVE  ReadStep \/ CloseEntry \/ EndOfTrace \/ StillStep
<1>1. /\ stack \in Seq(Entry) /\ At \in Nat
      /\ phase # "done" => stack # << >>
      /\ phase # "done" => Top \in Entry
    <2>1. stack \in Seq(Entry) /\ At \in Nat
        BY DEF TypeOK, At
    <2> QED
        BY <2>1, TopType DEF TypeOK
<1>2. CASE AppendPrologue
    <2> DEFINE name == EnclosingSubprogram(Next_e.pc)
    <2>1. More /\ phase = "read" /\ stack # << >> /\ name \in Names /\ IsSnapshot
        BY <1>1, <1>2, PrologueName DEF AppendPrologue, PrologueElement, IsInstruction, Next_e, IsSnapshot
    <2>2. NamedChain(name) \in Seq(Names)
        BY <1>1, <2>1, EntryUpdates DEF NamedChain
    <2> DEFINE e == [Top EXCEPT !.function_name = name,
                                !.invoke_chain = NamedChain(name),
                                !.prologue = @ \cup {At}]
    <2>3. UpdateTop(e) /\ Consume /\ KeepResults
        BY <1>2 DEF AppendPrologue
    <2>4. /\ e.prologue = Top.prologue \cup {At}
          /\ e.epilogue = Top.epilogue /\ e.dwrites = Top.dwrites /\ e.dreads = Top.dreads
        BY <1>1, <2>1 DEF Entry
    <2> HIDE DEF name
    <2>5. e \in Entry
        BY <1>1, <2>1, <2>2, EntryUpdates
    <2> HIDE DEF e
    <2>6. GivesToTop
        <3>1. Claimed(e) = Claimed(Top) \cup {At} /\ Accesses(Top) \subseteq Accesses(e)
            BY <2>4 DEF Claimed, Registers, Accesses
        <3> QED
            BY <2>1, <2>3, <2>5, <3>1 DEF GivesToTop
    <2> QED
        BY <2>1, <2>3, <2>6 DEF ReadStep, Consume, KeepResults
<1>3. CASE EnterNested
    <2> DEFINE name == EnclosingSubprogram(Next_e.pc)
    <2>1. stack # << >> /\ name \in Names /\ IsSnapshot
        BY <1>1, <1>3, PrologueName DEF EnterNested, PrologueElement, IsInstruction, Next_e, IsSnapshot
    <2>2. stack' = Append(stack, NestedEntry(name)) /\ Consume /\ KeepResults
        BY <1>3 DEF EnterNested
    <2> HIDE DEF name
    <2>3. NestedEntry(name) \in Entry
        BY <1>1, <2>1, NestedEntryType
    <2>4. Claimed(NestedEntry(name)) = {At}
        BY DEF NestedEntry, NewEntry, Claimed, Registers, Accesses
    <2> QED
        BY <2>1, <2>2, <2>3, <2>4 DEF ReadStep, BeginsEntry, Consume, KeepResults
<1>4. CASE ReachEpilogue \/ SwallowCjr
    <2> DEFINE e == [Top EXCEPT !.epilogue = @ \cup {At}]
    <2>1. stack # << >> /\ Top \in Entry /\ IsSnapshot
        BY <1>1, <1>4 DEF ReachEpilogue, SwallowCjr, EpilogueElement, NextIsSameCjr, IsInstruction,
                          Next_e, IsSnapshot
    <2>2. UpdateTop(e) /\ Consume /\ KeepResults
        BY <1>4 DEF ReachEpilogue, SwallowCjr, TakePeeked
    <2>3. /\ e \in Entry /\ e.prologue = Top.prologue /\ e.epilogue = Top.epilogue \cup {At}
          /\ e.dwrites = Top.dwrites /\ e.dreads = Top.dreads
        BY <1>1, <2>1, EpilogueUpdate
    <2> HIDE DEF e
    <2>4. Claimed(e) = Claimed(Top) \cup {At} /\ Accesses(Top) \subseteq Accesses(e)
        BY <2>3 DEF Claimed, Registers, Accesses
    <2> QED
        BY <2>1, <2>2, <2>3, <2>4 DEF ReadStep, GivesToTop, Consume, KeepResults
<1>5. CASE DataWrite \/ DataRead
    <2> DEFINE e == IF DataWrite THEN [Top EXCEPT !.dwrites = @ \cup {At}]
                    ELSE [Top EXCEPT !.dreads = @ \cup {At}]
    <2>1. stack # << >> /\ Top \in Entry
        BY <1>1, <1>5 DEF DataWrite, DataRead
    <2>2. UpdateTop(e) /\ Consume /\ KeepResults
        BY <1>5 DEF DataWrite, DataRead
    <2>3. /\ e \in Entry /\ e.prologue = Top.prologue /\ e.epilogue = Top.epilogue
          /\ Accesses(e) = Accesses(Top) \cup {At}
        BY <1>1, <2>1, AccessUpdate
    <2> HIDE DEF e
    <2>4. Claimed(e) = Claimed(Top) \cup {At}
        BY <2>3 DEF Claimed, Registers
    <2> QED
        BY <2>1, <2>2, <2>3, <2>4 DEF ReadStep, GivesToTop, Consume, KeepResults
<1>6. CASE ExceedRecursion \/ Skip
    <2>1. stack # << >> /\ IsSnapshot
        BY <1>1, <1>6 DEF ExceedRecursion, Skip, PrologueElement, IsInstruction, Next_e, IsSnapshot
    <2> QED
        BY <1>6, <2>1 DEF ExceedRecursion, Skip, ReadStep, GoesNowhere, Consume, KeepResults
<1>7. CASE FailToLocate \/ Stopped \/ UNCHANGED vars
    BY <1>7 DEF FailToLocate, KeepResults, Stopped, vars, StillStep
<1> QED
    BY <1>2, <1>3, <1>4, <1>5, <1>6, <1>7 DEF Next, Step

\* The stack after a read.
LEMMA ReadStack ==
    ASSUME TypeOK, ReadStep
    PROVE  /\ DOMAIN stack \subseteq DOMAIN stack'
           /\ \A d \in DOMAIN stack' :
                \/ d \in DOMAIN stack /\ stack'[d] = stack[d]
                \/ /\ d \in DOMAIN stack /\ d = Len(stack')
                   /\ Claimed(stack'[d]) = Claimed(stack[d]) \cup {At}
                \/ d = Len(stack') /\ Claimed(stack'[d]) = {At}
           /\ \A d \in DOMAIN stack : Accesses(stack[d]) \subseteq Accesses(stack'[d])
           /\ IsSnapshot \/ \E d \in DOMAIN stack' : At \in Accesses(stack'[d])
<1>1. stack \in Seq(Entry) /\ stack # << >>
    BY DEF TypeOK, ReadStep
<1>2. CASE GivesToTop
    <2>1. PICK e \in Entry :
              /\ UpdateTop(e) /\ Claimed(e) = Claimed(Top) \cup {At}
              /\ Accesses(Top) \subseteq Accesses(e) /\ (IsSnapshot \/ At \in Accesses(e))
        BY <1>2 DEF GivesToTop
    <2>2. /\ Len(stack') = Len(stack) /\ stack'[Len(stack)] = e /\ Len(stack) \in DOMAIN stack
          /\ DOMAIN stack' = DOMAIN stack
          /\ \A d \in DOMAIN stack : d # Len(stack) => stack'[d] = stack[d]
        BY <1>1, <2>1 DEF UpdateTop
    <2> QED
        BY <2>1, <2>2 DEF Top
<1>3. CASE BeginsEntry
    <2>1. PICK e \in Entry : stack' = Append(stack, e) /\ Claimed(e) = {At} /\ IsSnapshot
        BY <1>3 DEF BeginsEntry
    <2>2. /\ Len(stack') = Len(stack) + 1 /\ stack'[Len(stack) + 1] = e
          /\ DOMAIN stack' = DOMAIN stack \cup {Len(stack) + 1} /\ Len(stack) + 1 \notin DOMAIN stack
          /\ \A d \in DOMAIN stack : stack'[d] = stack[d]
        BY <1>1, <2>1
    <2> QED
        BY <2>1, <2>2
<1>4. CASE GoesNowhere
    BY <1>4 DEF GoesNowhere
<1> QED
    BY <1>2, <1>3, <1>4 DEF ReadStep

-----------------------------------------------------------------------------
(***************************************************************************)
(* Groups follow each other: what is open or listed is behind what is      *)
(* collected.                                                              *)
(***************************************************************************)

\* All that e holds comes behind all that the first c groups do.
Behind(c, e) ==
    \A g \in DOMAIN c : \A i \in DOMAIN c[g] :
        \A k \in Claimed(c[g][i]), l \in Claimed(e) : k < l

OrderInv ==
    /\ GroupsInOrder
    /\ \A j \in DOMAIN entries : Behind(collection, entries[j])
    /\ \A d \in DOMAIN stack : Behind(collection, stack[d])

\* An element that is just read is behind everything.
LEMMA ReadOrder ==
    ASSUME TypeOK, MergeInv, OrderInv, ReadStep
    PROVE  OrderInv'
<1>1. UNCHANGED <<entries, collection>> /\ pos \in Nat /\ At = pos + 1
    BY DEF ReadStep, TypeOK, At
<1>2. GroupsInOrder' /\ \A j \in DOMAIN entries' : Behind(collection', entries'[j])
    BY <1>1 DEF OrderInv, GroupsInOrder
<1>3. \A g \in DOMAIN collection : \A i \in DOMAIN collection[g] :
          Claimed(collection[g][i]) \subseteq 1 .. pos
    BY DEF MergeInv, ClosedInv, Complete
<1>4. ASSUME NEW d \in DOMAIN stack'
      PROVE  Behind(collection, stack'[d])
    <2>1. \/ d \in DOMAIN stack /\ stack'[d] = stack[d]
          \/ d \in DOMAIN stack /\ Claimed(stack'[d]) = Claimed(stack[d]) \cup {At}
          \/ Claimed(stack'[d]) = {At}
        BY ReadStack
    <2>2. \A g \in DOMAIN collection : \A i \in DOMAIN collection[g] :
              \A k \in Claimed(collection[g][i]) : k < At
        BY <1>1, <1>3
    <2>3. d \in DOMAIN stack => Behind(collection, stack[d])
        BY DEF OrderInv
    <2> QED
        BY <2>1, <2>2, <2>3 DEF Behind
<1> QED
    BY <1>1, <1>2, <1>4 DEF OrderInv

\* A group that is collected is behind the others, and what follows is new.
LEMMA ReturnOrder ==
    ASSUME TypeOK, OrderInv, stack # << >>, NEW list \in Seq(Entry), Return(list),
           \A i \in DOMAIN list : Behind(collection, list[i])
    PROVE  OrderInv'
<1>1. stack \in Seq(Entry) /\ collection \in Seq(Seq(Entry))
    BY DEF TypeOK
<1>2. CASE /\ collection' = collection /\ entries' = list
           /\ \A d \in DOMAIN stack' : d \in DOMAIN stack /\ stack'[d] = stack[d]
    BY <1>2 DEF OrderInv, GroupsInOrder
<1>3. CASE /\ collection' = Append(collection, list)
           /\ entries' = << >> /\ stack' = <<NewEntry>>
    <2>1. /\ Len(collection) \in Nat /\ DOMAIN collection = 1 .. Len(collection)
          /\ DOMAIN collection' = 1 .. (Len(collection) + 1)
          /\ collection'[Len(collection) + 1] = list
          /\ \A g \in DOMAIN collection : collection'[g] = collection[g]
        BY <1>1, <1>3
    <2>2. Claimed(NewEntry) = {}
        BY DEF Claimed, Registers, Accesses, NewEntry
    <2>3. \A j \in DOMAIN entries' : Behind(collection', entries'[j])
        BY <1>3
    <2>4. \A d \in DOMAIN stack' : Behind(collection', stack'[d])
        BY <1>3, <2>2 DEF Behind
    <2>5. GroupsInOrder'
        <3> SUFFICES ASSUME NEW g \in DOMAIN collection', NEW h \in DOMAIN collection', g < h,
                            NEW i \in DOMAIN collection'[g], NEW j \in DOMAIN collection'[h],
                            NEW k \in Claimed(collection'[g][i]), NEW l \in Claimed(collection'[h][j])
                     PROVE  k < l
            BY DEF GroupsInOrder
        <3>1. g \in DOMAIN collection /\ collection'[g] = collection[g]
            BY <2>1
        <3>2. CASE h \in DOMAIN collection
            BY <2>1, <3>1, <3>2 DEF OrderInv, GroupsInOrder
        <3>3. CASE h = Len(collection) + 1
            BY <2>1, <3>1, <3>3 DEF Behind
        <3> QED
            BY <2>1, <3>2, <3>3
    <2> QED
        BY <2>3, <2>4, <2>5 DEF OrderInv
<1>4. \/ /\ collection' = collection /\ entries' = list
         /\ \A d \in DOMAIN stack' : d \in DOMAIN stack /\ stack'[d] = stack[d]
      \/ /\ collection' = Append(collection, list)
         /\ entries' = << >> /\ stack' = <<NewEntry>>
    <2>1. CASE Len(stack) > 1
        <3>1. stack' = SubSeq(stack, 1, Len(stack) - 1) /\ collection' = collection /\ entries' = list
            BY <2>1 DEF Return
        <3>2. \A d \in DOMAIN stack' : d \in DOMAIN stack /\ stack'[d] = stack[d]
            BY <1>1, <2>1, <3>1
        <3> QED
            BY <3>1, <3>2
    <2>2. CASE ~ (Len(stack) > 1)
        BY <2>2 DEF Return, FreshEntry
    <2> QED
        BY <2>1, <2>2
<1> QED
    BY <1>2, <1>3, <1>4

\* Every step keeps the order: a read, a return or neither.
LEMMA OrderStep == TypeOK /\ MergeInv /\ OrderInv /\ [Next]_vars => OrderInv'
<1> SUFFICES ASSUME TypeOK, MergeInv, OrderInv, [Next]_vars PROVE OrderInv'
    OBVIOUS
<1>1. CASE CloseEntry
    <2> DEFINE list == IF is_valid_entry(Top) THEN Append(entries, Top) ELSE entries
    <2>1. /\ stack \in Seq(Entry) /\ stack # << >> /\ entries \in Seq(Entry) /\ Return(list)
        BY <1>1 DEF CloseEntry, TypeOK
    <2>2. Top \in Entry /\ Behind(collection, Top)
        BY <2>1, TopType DEF OrderInv
    <2>3. /\ list \in Seq(Entry)
          /\ \A i \in DOMAIN list : (i \in DOMAIN entries /\ list[i] = entries[i]) \/ list[i] = Top
        BY <2>1, <2>2
    <2> HIDE DEF list
    <2>4. \A i \in DOMAIN list : Behind(collection, list[i])
        BY <2>2, <2>3 DEF OrderInv
    <2> QED
        BY <2>1, <2>3, <2>4, ReturnOrder
<1>2. CASE EndOfTrace
    <2>1. stack # << >> /\ entries \in Seq(Entry) /\ Return(entries)
        BY <1>2 DEF EndOfTrace, TypeOK
    <2>2. \A i \in DOMAIN entries : Behind(collection, entries[i])
        BY DEF OrderInv
    <2> QED
        BY <2>1, <2>2, ReturnOrder
<1>3. CASE StillStep
    BY <1>3 DEF StillStep, OrderInv, GroupsInOrder
<1> QED
    BY <1>1, <1>2, <1>3, StepShape, ReadOrder

\* Whatever the trace, two outermost executions never interleave in the
\* collection: all that an earlier group holds was read before anything that a
\* later one holds.
THEOREM OrderCorrect == Spec => []GroupsInOrder
<1>1. Init => OrderInv
    BY DEF Init, OrderInv, GroupsInOrder, Behind
<1>2. Spec => []TypeOK /\ []MergeInv
    BY TypeCorrect, MergeInit, MergeStep, PTL DEF Spec
<1>3. OrderInv => GroupsInOrder
    BY DEF OrderInv
<1> QED
    BY <1>1, <1>2, <1>3, OrderStep, PTL DEF Spec

-----------------------------------------------------------------------------
(***************************************************************************)
(* Nothing is lost or taken twice.  That no two entries share an element   *)
(* is stated by a function that says where each element is: then only one  *)
(* entry has to be looked at a time.                                       *)
(***************************************************************************)

InCollection(g, i) == <<"collection", <<g, i>>>>
InEntries(i) == <<"entries", <<0, i>>>>
OnStack(d) == <<"stack", <<0, d>>>>
Abandoned(a) == <<"abandoned", <<0, a>>>>

IsOwner(o) ==
    /\ \A g \in DOMAIN collection : \A i \in DOMAIN collection[g] :
          \A k \in Claimed(collection[g][i]) : o[k] = InCollection(g, i)
    /\ \A i \in DOMAIN entries : \A k \in Claimed(entries[i]) : o[k] = InEntries(i)
    /\ \A d \in DOMAIN stack : \A k \in Claimed(stack[d]) : o[k] = OnStack(d)
    /\ \A a \in DOMAIN abandoned : \A k \in Claimed(abandoned[a]) : o[k] = Abandoned(a)
OnceInv == \E o : IsOwner(o)

\* What has been read is behind the reader's position.
ReadInv ==
    /\ \A i \in DOMAIN entries : Claimed(entries[i]) \subseteq 1 .. pos
    /\ \A g \in DOMAIN collection : \A i \in DOMAIN collection[g] :
          Claimed(collection[g][i]) \subseteq 1 .. pos
    /\ \A d \in DOMAIN stack : Claimed(stack[d]) \subseteq 1 .. pos
    /\ \A a \in DOMAIN abandoned : Claimed(abandoned[a]) \subseteq 1 .. pos

\* An access is in some entry.
Kept(k) ==
    \/ \E g \in DOMAIN collection : \E i \in DOMAIN collection[g] : k \in Accesses(collection[g][i])
    \/ \E i \in DOMAIN entries : k \in Accesses(entries[i])
    \/ \E d \in DOMAIN stack : k \in Accesses(stack[d])
    \/ \E a \in DOMAIN abandoned : k \in Accesses(abandoned[a])
KeptInv == \A k \in 1 .. pos : trace[k].kind # "snapshot" => Kept(k)

AccessInv == OnceInv /\ ReadInv /\ KeptInv

\* An element that is read gets its owner.
LEMMA ReadOnce ==
    ASSUME TypeOK, AccessInv, ReadStep
    PROVE  AccessInv'
<1>1. /\ UNCHANGED <<trace, entries, collection, abandoned>> /\ pos' = At /\ pos \in Nat
      /\ At = pos + 1 /\ At \in Nat /\ 1 .. pos \subseteq 1 .. At /\ At \notin 1 .. pos
    BY DEF ReadStep, TypeOK, At
<1>2. \A d \in DOMAIN stack' :
          \/ d \in DOMAIN stack /\ Claimed(stack'[d]) = Claimed(stack[d])
          \/ d \in DOMAIN stack /\ d = Len(stack') /\ Claimed(stack'[d]) = Claimed(stack[d]) \cup {At}
          \/ d = Len(stack') /\ Claimed(stack'[d]) = {At}
    BY ReadStack
<1>3. ReadInv'
    <2>1. \A d \in DOMAIN stack' : Claimed(stack'[d]) \subseteq 1 .. At
        BY <1>1, <1>2 DEF AccessInv, ReadInv
    <2> QED
        BY <1>1, <2>1 DEF AccessInv, ReadInv
<1>4. OnceInv'
    <2>1. PICK o : IsOwner(o)
        BY DEF AccessInv, OnceInv
    <2> DEFINE owner == [k \in 1 .. At |-> IF k = At THEN OnStack(Len(stack')) ELSE o[k]]
    <2>2. \A k \in 1 .. pos : owner[k] = o[k]
        BY <1>1
    <2>3. owner[At] = OnStack(Len(stack'))
        BY <1>1
    <2> HIDE DEF owner
    <2>4. \A d \in DOMAIN stack' : \A k \in Claimed(stack'[d]) : owner[k] = OnStack(d)
        BY <1>2, <2>1, <2>2, <2>3 DEF IsOwner, AccessInv, ReadInv
    <2>5. \A i \in DOMAIN entries : \A k \in Claimed(entries[i]) : owner[k] = InEntries(i)
        BY <2>1, <2>2 DEF IsOwner, AccessInv, ReadInv
    <2>6. \A a \in DOMAIN abandoned : \A k \in Claimed(abandoned[a]) : owner[k] = Abandoned(a)
        BY <2>1, <2>2 DEF IsOwner, AccessInv, ReadInv
    <2>7. \A g \in DOMAIN collection : \A i \in DOMAIN collection[g] :
              \A k \in Claimed(collection[g][i]) : owner[k] = InCollection(g, i)
        BY <2>1, <2>2 DEF IsOwner, AccessInv, ReadInv
    <2> QED
        BY <1>1, <2>4, <2>5, <2>6, <2>7 DEF OnceInv, IsOwner
<1>5. KeptInv'
    <2> SUFFICES ASSUME NEW k \in 1 .. At, trace[k].kind # "snapshot"
                 PROVE  Kept(k)'
        BY <1>1 DEF KeptInv
    <2>1. CASE k = At
        <3>1. \E d \in DOMAIN stack' : At \in Accesses(stack'[d])
            BY <2>1, ReadStack DEF IsSnapshot
        <3> QED
            BY <2>1, <3>1 DEF Kept
    <2>2. CASE k # At
        <3>1. Kept(k)
            BY <1>1, <2>2 DEF AccessInv, KeptInv
        <3>2. \A d \in DOMAIN stack : d \in DOMAIN stack' /\ Accesses(stack[d]) \subseteq Accesses(stack'[d])
            BY ReadStack
        <3> QED
            BY <1>1, <3>1, <3>2 DEF Kept
    <2> QED
        BY <2>1, <2>2
<1> QED
    BY <1>3, <1>4, <1>5 DEF AccessInv

\* A frame that returns hands its entry to the list or to the history, and the
\* list to the frame below or to the collection.
Leaves(list) ==
    \/ list = Append(entries, Top) /\ abandoned' = abandoned
    \/ list = entries /\ abandoned' = Append(abandoned, Top)

\* A frame that returns is the outermost or has one below it.
LEMMA OneFrame ==
    ASSUME TypeOK, stack # << >>
    PROVE  Len(stack) = 1 \/ Len(stack) > 1
<1>1. Len(stack) \in Nat /\ Len(stack) # 0
    BY DEF TypeOK
<1>2. \A n \in Nat : n # 0 => n = 1 \/ n > 1
    OBVIOUS
<1> QED
    BY <1>1, <1>2, Zenon

\* Where the list and the innermost entry are after a return.
LEMMA LeavesShape ==
    ASSUME TypeOK, stack # << >>, NEW list \in Seq(Entry), Return(list), Leaves(list)
    PROVE  \* where the list is
           /\ \/ /\ Len(stack) > 1 /\ entries' = list /\ collection' = collection
                 /\ DOMAIN stack' = DOMAIN stack \ {Len(stack)}
                 /\ \A d \in DOMAIN stack' : stack'[d] = stack[d]
              \/ /\ Len(stack) = 1 /\ DOMAIN entries' = {}
                 /\ DOMAIN list = {} \/ Len(collection) + 1 \in DOMAIN collection'
                 /\ \A d \in DOMAIN stack' : Claimed(stack'[d]) = {}
                 /\ DOMAIN collection \subseteq DOMAIN collection'
                 /\ \A g \in DOMAIN collection' :
                       \/ g \in DOMAIN collection /\ collection'[g] = collection[g]
                       \/ g = Len(collection) + 1 /\ collection'[g] = list
                 /\ \A g \in DOMAIN collection : collection'[g] = collection[g]
                 /\ Len(collection) + 1 \in DOMAIN collection' => collection'[Len(collection) + 1] = list
           \* where the innermost entry is
           /\ \/ /\ abandoned' = abandoned
                 /\ Len(entries) + 1 \in DOMAIN list /\ list[Len(entries) + 1] = stack[Len(stack)]
                 /\ \A i \in DOMAIN list : i \in DOMAIN entries \/ i = Len(entries) + 1
              \/ /\ DOMAIN list = DOMAIN entries
                 /\ DOMAIN abandoned \subseteq DOMAIN abandoned'
                 /\ Len(abandoned) + 1 \in DOMAIN abandoned'
                 /\ abandoned'[Len(abandoned) + 1] = stack[Len(stack)]
                 /\ \A a \in DOMAIN abandoned' :
                       \/ a \in DOMAIN abandoned /\ abandoned'[a] = abandoned[a]
                       \/ a = Len(abandoned) + 1
                 /\ \A a \in DOMAIN abandoned : abandoned'[a] = abandoned[a]
           \* the list goes on from the entries
           /\ \A i \in DOMAIN entries : i \in DOMAIN list /\ list[i] = entries[i]
<1>1. /\ stack \in Seq(Entry) /\ collection \in Seq(Seq(Entry)) /\ entries \in Seq(Entry)
      /\ abandoned \in Seq(Entry) /\ Top \in Entry /\ Top = stack[Len(stack)]
    BY TopType DEF TypeOK
<1>2. \/ /\ Len(stack) > 1 /\ entries' = list /\ collection' = collection
         /\ DOMAIN stack' = DOMAIN stack \ {Len(stack)}
         /\ \A d \in DOMAIN stack' : stack'[d] = stack[d]
      \/ /\ Len(stack) = 1 /\ DOMAIN entries' = {}
         /\ DOMAIN list = {} \/ Len(collection) + 1 \in DOMAIN collection'
         /\ \A d \in DOMAIN stack' : Claimed(stack'[d]) = {}
         /\ DOMAIN collection \subseteq DOMAIN collection'
         /\ \A g \in DOMAIN collection' :
               \/ g \in DOMAIN collection /\ collection'[g] = collection[g]
               \/ g = Len(collection) + 1 /\ collection'[g] = list
         /\ \A g \in DOMAIN collection : collection'[g] = collection[g]
         /\ Len(collection) + 1 \in DOMAIN collection' => collection'[Len(collection) + 1] = list
    <2>1. CASE Len(stack) > 1
        <3>1. stack' = SubSeq(stack, 1, Len(stack) - 1) /\ collection' = collection /\ entries' = list
            BY <2>1 DEF Return
        <3>2. /\ DOMAIN stack' = DOMAIN stack \ {Len(stack)}
              /\ \A d \in DOMAIN stack' : stack'[d] = stack[d]
            BY <1>1, <2>1, <3>1
        <3> QED
            BY <2>1, <3>1, <3>2
    <2>2. CASE ~ (Len(stack) > 1)
        <3>1. Len(stack) = 1
            BY <2>2, OneFrame
        <3>2. CASE list = << >>
            BY <1>1, <2>2, <3>1, <3>2 DEF Return
        <3>3. CASE list # << >>
            <4>1. stack' = <<NewEntry>> /\ entries' = << >> /\ collection' = Append(collection, list)
                BY <2>2, <3>3 DEF Return, FreshEntry
            <4>2. Claimed(NewEntry) = {}
                BY DEF Claimed, Registers, Accesses, NewEntry
            <4>3. \A d \in DOMAIN stack' : Claimed(stack'[d]) = {}
                BY <4>1, <4>2
            <4>4. /\ DOMAIN collection' = DOMAIN collection \cup {Len(collection) + 1}
                  /\ collection'[Len(collection) + 1] = list
                  /\ \A g \in DOMAIN collection : collection'[g] = collection[g]
                BY <1>1, <4>1
            <4>5. /\ Len(collection) + 1 \in DOMAIN collection'
                  /\ DOMAIN collection \subseteq DOMAIN collection'
                  /\ \A g \in DOMAIN collection' :
                        \/ g \in DOMAIN collection /\ collection'[g] = collection[g]
                        \/ g = Len(collection) + 1 /\ collection'[g] = list
                BY <4>4, Zenon
            <4>6. DOMAIN entries' = {}
                BY <4>1
            <4> QED
                BY <3>1, <4>3, <4>4, <4>5, <4>6, Zenon
        <3> QED
            BY <3>2, <3>3
    <2> QED
        BY <2>1, <2>2
<1>3. CASE list = Append(entries, Top) /\ abandoned' = abandoned
    <2>1. /\ DOMAIN list = DOMAIN entries \cup {Len(entries) + 1} /\ list[Len(entries) + 1] = Top
          /\ \A i \in DOMAIN entries : list[i] = entries[i]
        BY <1>1, <1>3
    <2> QED
        BY <1>1, <1>2, <1>3, <2>1
<1>4. CASE list = entries /\ abandoned' = Append(abandoned, Top)
    <2>1. /\ DOMAIN abandoned' = DOMAIN abandoned \cup {Len(abandoned) + 1}
          /\ abandoned'[Len(abandoned) + 1] = Top
          /\ \A a \in DOMAIN abandoned : abandoned'[a] = abandoned[a]
        BY <1>1, <1>4
    <2> QED
        BY <1>1, <1>2, <1>4, <2>1
<1> QED
    BY <1>3, <1>4 DEF Leaves

LEMMA LeaveOnce ==
    ASSUME TypeOK, AccessInv, stack # << >>, NEW list \in Seq(Entry), Return(list), Leaves(list),
           UNCHANGED <<trace, pos>>
    PROVE  AccessInv'
<1> DEFINE n == Len(stack)
<1> DEFINE heir == IF abandoned' # abandoned THEN Abandoned(Len(abandoned) + 1)
                   ELSE IF n > 1 THEN InEntries(Len(entries) + 1)
                   ELSE InCollection(Len(collection) + 1, Len(entries) + 1)
<1>1. n \in DOMAIN stack /\ n \in Nat
    BY DEF TypeOK
<1>2. ReadInv'
    <2>1. \A i \in DOMAIN list : Claimed(list[i]) \subseteq 1 .. pos
        BY <1>1, LeavesShape DEF AccessInv, ReadInv
    <2>2. \A a \in DOMAIN abandoned' : Claimed(abandoned'[a]) \subseteq 1 .. pos
        BY <1>1, LeavesShape DEF AccessInv, ReadInv
    <2>3. /\ \A i \in DOMAIN entries' : Claimed(entries'[i]) \subseteq 1 .. pos
          /\ \A d \in DOMAIN stack' : Claimed(stack'[d]) \subseteq 1 .. pos
          /\ \A g \in DOMAIN collection' : \A i \in DOMAIN collection'[g] :
                Claimed(collection'[g][i]) \subseteq 1 .. pos
        BY <2>1, LeavesShape DEF AccessInv, ReadInv
    <2> QED
        BY <2>2, <2>3 DEF ReadInv
<1>3. KeptInv'
    <2> SUFFICES ASSUME NEW k \in 1 .. pos, Kept(k)
                 PROVE  Kept(k)'
        BY DEF AccessInv, KeptInv
    <2>1. ASSUME \E i \in DOMAIN list : k \in Accesses(list[i])
          PROVE  Kept(k)'
        BY <2>1, LeavesShape DEF Kept
    <2>2. CASE \E g \in DOMAIN collection : \E i \in DOMAIN collection[g] : k \in Accesses(collection[g][i])
        BY <2>2, LeavesShape DEF Kept
    <2>3. CASE \E i \in DOMAIN entries : k \in Accesses(entries[i])
        BY <2>1, <2>3, LeavesShape
    <2>4. CASE \E d \in DOMAIN stack : k \in Accesses(stack[d])
        <3>1. PICK d \in DOMAIN stack : k \in Accesses(stack[d])
            BY <2>4
        <3>2. CASE d = n
            <4>1. \/ \E i \in DOMAIN list : k \in Accesses(list[i])
                  \/ \E a \in DOMAIN abandoned' : k \in Accesses(abandoned'[a])
                BY <3>1, <3>2, LeavesShape
            <4> QED
                BY <2>1, <4>1 DEF Kept
        <3>3. CASE d # n
            <4>1. n > 1
                BY <1>1, <3>3 DEF TypeOK
            <4>2. d \in DOMAIN stack' /\ stack'[d] = stack[d]
                BY <3>3, <4>1, LeavesShape
            <4> QED
                BY <3>1, <4>2 DEF Kept
        <3> QED
            BY <3>2, <3>3
    <2>5. CASE \E a \in DOMAIN abandoned : k \in Accesses(abandoned[a])
        BY <2>5, LeavesShape DEF Kept
    <2> QED
        BY <2>2, <2>3, <2>4, <2>5 DEF Kept
<1>4. OnceInv'
    <2>1. PICK o : IsOwner(o)
        BY DEF AccessInv, OnceInv
    <2> DEFINE Goes(p) == IF p = OnStack(n) THEN heir
                          ELSE IF n = 1 /\ p[1] = "entries" THEN InCollection(Len(collection) + 1, p[2][2])
                          ELSE p
    <2> DEFINE owner == [k \in 1 .. pos |-> Goes(o[k])]
    <2>2. \A k \in 1 .. pos : owner[k] = Goes(o[k])
        OBVIOUS
    <2>3. /\ Goes(OnStack(n)) = heir
          /\ \A d : d # n => Goes(OnStack(d)) = OnStack(d)
          /\ \A g, i : Goes(InCollection(g, i)) = InCollection(g, i)
          /\ \A a : Goes(Abandoned(a)) = Abandoned(a)
          /\ \A i : Goes(InEntries(i)) = IF n = 1 THEN InCollection(Len(collection) + 1, i) ELSE InEntries(i)
        <3>1. /\ \A d : OnStack(d) = OnStack(n) => d = n
              /\ \A d : OnStack(d)[1] # "entries"
              /\ \A g, i : InCollection(g, i) # OnStack(n) /\ InCollection(g, i)[1] # "entries"
              /\ \A a : Abandoned(a) # OnStack(n) /\ Abandoned(a)[1] # "entries"
              /\ \A i : InEntries(i) # OnStack(n) /\ InEntries(i)[1] = "entries" /\ InEntries(i)[2][2] = i
            BY DEF OnStack, InCollection, Abandoned, InEntries
        <3> HIDE DEF heir
        <3> QED
            BY <3>1
    <2> HIDE DEF owner, Goes
    <2>4. /\ \A g \in DOMAIN collection : \A i \in DOMAIN collection[g] :
                \A k \in Claimed(collection[g][i]) : owner[k] = InCollection(g, i)
          /\ \A i \in DOMAIN entries : \A k \in Claimed(entries[i]) :
                owner[k] = IF n = 1 THEN InCollection(Len(collection) + 1, i) ELSE InEntries(i)
          /\ \A k \in Claimed(stack[n]) : owner[k] = heir
          /\ \A d \in DOMAIN stack \ {n} : \A k \in Claimed(stack[d]) : owner[k] = OnStack(d)
          /\ \A a \in DOMAIN abandoned : \A k \in Claimed(abandoned[a]) : owner[k] = Abandoned(a)
        BY <1>1, <2>1, <2>2, <2>3 DEF IsOwner, AccessInv, ReadInv
    <2>5. \A i \in DOMAIN list : \A k \in Claimed(list[i]) :
              owner[k] = IF n = 1 THEN InCollection(Len(collection) + 1, i) ELSE InEntries(i)
        <3> SUFFICES ASSUME NEW i \in DOMAIN list, NEW k \in Claimed(list[i])
                     PROVE  owner[k] = IF n = 1 THEN InCollection(Len(collection) + 1, i) ELSE InEntries(i)
            OBVIOUS
        <3>1. CASE i \in DOMAIN entries
            BY <2>4, <3>1, LeavesShape
        <3>2. CASE i \notin DOMAIN entries
            <4>1. abandoned' = abandoned /\ i = Len(entries) + 1 /\ list[i] = stack[n]
                BY <3>2, LeavesShape
            <4>2. owner[k] = heir
                BY <2>4, <4>1
            <4>3. CASE n > 1
                BY <4>1, <4>2, <4>3
            <4>4. CASE n = 1
                BY <4>1, <4>2, <4>4
            <4> QED
                BY <4>3, <4>4, OneFrame
        <3> QED
            BY <3>1, <3>2
    <2>6. \A a \in DOMAIN abandoned' : \A k \in Claimed(abandoned'[a]) : owner[k] = Abandoned(a)
        <3> SUFFICES ASSUME NEW a \in DOMAIN abandoned', NEW k \in Claimed(abandoned'[a])
                     PROVE  owner[k] = Abandoned(a)
            OBVIOUS
        <3>1. CASE a \in DOMAIN abandoned /\ abandoned'[a] = abandoned[a]
            BY <2>4, <3>1
        <3>2. CASE a = Len(abandoned) + 1 /\ abandoned'[a] = stack[n] /\ a \notin DOMAIN abandoned
            BY <2>4, <3>2
        <3>3. Len(abandoned) + 1 \notin DOMAIN abandoned
            BY DEF TypeOK
        <3> QED
            BY <3>1, <3>2, <3>3, LeavesShape
    <2> HIDE DEF heir
    <2>7. CASE n > 1
        <3>1. /\ entries' = list /\ collection' = collection
              /\ \A d \in DOMAIN stack' : d \in DOMAIN stack \ {n} /\ stack'[d] = stack[d]
            BY <1>1, <2>7, LeavesShape
        <3> QED
            BY <1>1, <2>4, <2>5, <2>6, <2>7, <3>1 DEF OnceInv, IsOwner
    <2>8. CASE n = 1
        <3>1. /\ DOMAIN entries' = {} /\ \A d \in DOMAIN stack' : Claimed(stack'[d]) = {}
              /\ \A g \in DOMAIN collection' :
                    \/ g \in DOMAIN collection /\ collection'[g] = collection[g]
                    \/ g = Len(collection) + 1 /\ collection'[g] = list
            BY <2>8, LeavesShape
        <3>2. \A g \in DOMAIN collection' : \A i \in DOMAIN collection'[g] :
                  \A k \in Claimed(collection'[g][i]) : owner[k] = InCollection(g, i)
            BY <2>4, <2>5, <2>8, <3>1
        <3>3. \A d \in DOMAIN stack' : \A k \in Claimed(stack'[d]) : owner[k] = OnStack(d)
            BY <3>1
        <3>4. \A i \in DOMAIN entries' : \A k \in Claimed(entries'[i]) : owner[k] = InEntries(i)
            BY <3>1
        <3> QED
            BY <2>6, <3>2, <3>3, <3>4 DEF OnceInv, IsOwner
    <2> QED
        BY <2>7, <2>8, OneFrame
<1> QED
    BY <1>2, <1>3, <1>4 DEF AccessInv

\* Every step keeps the owners.  A finished entry joins the list because it is
\* complete (MergeInv): were one rejected, its accesses would be in no entry.
LEMMA AccessStep == TypeOK /\ MergeInv /\ AccessInv /\ [Next]_vars => AccessInv'
<1> SUFFICES ASSUME TypeOK, MergeInv, AccessInv, [Next]_vars PROVE AccessInv'
    OBVIOUS
<1>1. CASE CloseEntry
    <2>1. stack # << >> /\ entries \in Seq(Entry) /\ stack \in Seq(Entry)
        BY <1>1 DEF CloseEntry, TypeOK
    <2>2. is_valid_entry(Top)
        BY <1>1, MergeComplete DEF CloseEntry, CompleteEntries
    <2>3. Top \in Entry
        BY <2>1, TopType
    <2> DEFINE list == Append(entries, Top)
    <2>4. list \in Seq(Entry) /\ Return(list) /\ Leaves(list) /\ UNCHANGED <<trace, pos>>
        BY <1>1, <2>1, <2>2, <2>3 DEF CloseEntry, Leaves
    <2> HIDE DEF list
    <2> QED
        BY <2>1, <2>4, LeaveOnce
<1>2. CASE EndOfTrace
    <2>1. /\ stack # << >> /\ entries \in Seq(Entry) /\ Return(entries) /\ Leaves(entries)
          /\ UNCHANGED <<trace, pos>>
        BY <1>2 DEF EndOfTrace, TypeOK, Leaves
    <2> QED
        BY <2>1, LeaveOnce
<1>3. CASE StillStep
    BY <1>3 DEF StillStep, AccessInv, OnceInv, IsOwner, ReadInv, KeptInv, Kept
<1> QED
    BY <1>1, <1>2, <1>3, StepShape, ReadOnce

\* Nothing is read, so nothing is owned.
LEMMA AccessInit == Init => AccessInv
<1> SUFFICES ASSUME Init PROVE AccessInv
    OBVIOUS
<1>1. /\ DOMAIN stack = {1} /\ stack[1] = NewEntry /\ DOMAIN entries = {}
      /\ DOMAIN collection = {} /\ DOMAIN abandoned = {} /\ pos = 0
    BY DEF Init
<1>2. Claimed(NewEntry) = {}
    BY DEF Claimed, Registers, Accesses, NewEntry
<1> QED
    BY <1>1, <1>2 DEF AccessInv, OnceInv, IsOwner, ReadInv, KeptInv

\* An entry's place is that of all it holds.
LEMMA PlaceIsOwner ==
    ASSUME NEW o, IsOwner(o), NEW p \in Places, NEW k \in Claimed(EntryAt(p))
    PROVE  o[k] = p
<1>1. CASE p \in {"collection"} \X UNION { {g} \X DOMAIN collection[g] : g \in DOMAIN collection }
    <2>1. PICK g \in DOMAIN collection :
              \E i \in DOMAIN collection[g] : p = InCollection(g, i)
        BY <1>1 DEF InCollection
    <2>2. PICK i \in DOMAIN collection[g] : p = InCollection(g, i)
        BY <2>1
    <2>3. EntryAt(p) = collection[g][i]
        BY <2>2 DEF EntryAt, InCollection
    <2> QED
        BY <2>2, <2>3 DEF IsOwner
<1>2. CASE p \in {"entries"} \X ({0} \X DOMAIN entries)
    <2>1. PICK i \in DOMAIN entries : p = InEntries(i)
        BY <1>2 DEF InEntries
    <2>2. EntryAt(p) = entries[i]
        BY <2>1 DEF EntryAt, InEntries
    <2> QED
        BY <2>1, <2>2 DEF IsOwner
<1>3. CASE p \in {"stack"} \X ({0} \X DOMAIN stack)
    <2>1. PICK d \in DOMAIN stack : p = OnStack(d)
        BY <1>3 DEF OnStack
    <2>2. EntryAt(p) = stack[d]
        BY <2>1 DEF EntryAt, OnStack
    <2> QED
        BY <2>1, <2>2 DEF IsOwner
<1>4. CASE p \in {"abandoned"} \X ({0} \X DOMAIN abandoned)
    <2>1. PICK a \in DOMAIN abandoned : p = Abandoned(a)
        BY <1>4 DEF Abandoned
    <2>2. EntryAt(p) = abandoned[a]
        BY <2>1 DEF EntryAt, Abandoned
    <2> QED
        BY <2>1, <2>2 DEF IsOwner
<1> QED
    BY <1>1, <1>2, <1>3, <1>4 DEF Places

\* An entry that keeps an access has a place.
LEMMA KeptHasPlace ==
    ASSUME NEW k, Kept(k)
    PROVE  \E p \in Places : k \in Accesses(EntryAt(p))
<1>1. ASSUME NEW g \in DOMAIN collection, NEW i \in DOMAIN collection[g], k \in Accesses(collection[g][i])
      PROVE  \E p \in Places : k \in Accesses(EntryAt(p))
    <2>1. InCollection(g, i) \in Places
        BY DEF InCollection, Places
    <2>2. EntryAt(InCollection(g, i)) = collection[g][i]
        BY DEF InCollection, EntryAt
    <2> QED
        BY <1>1, <2>1, <2>2
<1>2. ASSUME NEW i \in DOMAIN entries, k \in Accesses(entries[i])
      PROVE  \E p \in Places : k \in Accesses(EntryAt(p))
    <2>1. InEntries(i) \in Places /\ EntryAt(InEntries(i)) = entries[i]
        BY DEF InEntries, Places, EntryAt
    <2> QED
        BY <1>2, <2>1
<1>3. ASSUME NEW d \in DOMAIN stack, k \in Accesses(stack[d])
      PROVE  \E p \in Places : k \in Accesses(EntryAt(p))
    <2>1. OnStack(d) \in Places /\ EntryAt(OnStack(d)) = stack[d]
        BY DEF OnStack, Places, EntryAt
    <2> QED
        BY <1>3, <2>1
<1>4. ASSUME NEW a \in DOMAIN abandoned, k \in Accesses(abandoned[a])
      PROVE  \E p \in Places : k \in Accesses(EntryAt(p))
    <2>1. Abandoned(a) \in Places /\ EntryAt(Abandoned(a)) = abandoned[a]
        BY DEF Abandoned, Places, EntryAt
    <2> QED
        BY <1>4, <2>1
<1> QED
    BY <1>1, <1>2, <1>3, <1>4 DEF Kept

\* An element that two entries hold would have two owners.
LEMMA AccessInvGives == TypeOK /\ AccessInv => EachAccessOnce
<1> SUFFICES ASSUME TypeOK, AccessInv PROVE EachAccessOnce
    OBVIOUS
<1>1. ASSUME NEW p \in Places, NEW q \in Places, p # q
      PROVE  Claimed(EntryAt(p)) \cap Claimed(EntryAt(q)) = {}
    <2>1. PICK o : IsOwner(o)
        BY DEF AccessInv, OnceInv
    <2> SUFFICES ASSUME NEW k \in Claimed(EntryAt(p)), k \in Claimed(EntryAt(q))
                 PROVE  FALSE
        OBVIOUS
    <2>2. o[k] = p /\ o[k] = q
        BY <2>1, PlaceIsOwner
    <2> QED
        BY <1>1, <2>2
<1>2. ASSUME NEW k \in 1 .. pos, trace[k].kind \in {"dwrite", "dread"}
      PROVE  k \in UNION { Accesses(EntryAt(p)) : p \in Places }
    <2>1. Kept(k)
        BY <1>2 DEF AccessInv, KeptInv
    <2> QED
        BY <2>1, KeptHasPlace
<1> QED
    BY <1>1, <1>2 DEF EachAccessOnce

\* Whatever the trace: no element of it is in two entries, finished, open or
\* given up, and every access that was read is in one.
THEOREM OnceCorrect == Spec => []EachAccessOnce
<1>1. Spec => []TypeOK /\ []MergeInv
    BY TypeCorrect, MergeInit, MergeStep, PTL DEF Spec
<1> QED
    BY <1>1, AccessInit, AccessStep, AccessInvGives, PTL DEF Spec

-----------------------------------------------------------------------------
(***************************************************************************)
(* Groups are executions.  The frames that are open are nested in each     *)
(* other; each entry of the list ran inside a later one, inside a frame    *)
(* that is still open, or inside one that the end of the trace cut off.    *)
(***************************************************************************)

\* e began inside f, which may still be open.
NestedIn(e, f) ==
    /\ f.prologue # {}
    /\ e.invoke_chain = Append(f.invoke_chain, e.function_name)
    /\ \A k \in Registers(e) : \E j \in Registers(f) : j < k

NestInv ==
    \A d \in DOMAIN stack :
        /\ stack[d].prologue # {} => Len(stack[d].invoke_chain) = d
        /\ d > 1 => NestedIn(stack[d], stack[d - 1])

\* The end of the trace cut off a caller of e.
CutOff(e, lost) ==
    \E a \in DOMAIN lost : e.invoke_chain = Append(lost[a].invoke_chain, e.function_name)

ListInv ==
    \A i \in DOMAIN entries :
        /\ Len(entries[i].invoke_chain) # 1
        /\ \/ \E j \in (i + 1) .. Len(entries) : Within(entries[i], entries[j])
           \/ \E d \in DOMAIN stack : NestedIn(entries[i], stack[d])
           \/ CutOff(entries[i], abandoned)

\* What GroupsAreExecutions says of a group.
IsExecution(group, lost) ==
    \A i \in DOMAIN group :
        /\ Len(group[i].invoke_chain) = 1 => i = Len(group)
        /\ \/ Len(group[i].invoke_chain) = 1
           \/ \E j \in (i + 1) .. Len(group) : Within(group[i], group[j])
           \/ CutOff(group[i], lost)

\* Only the last group can lack its outermost entry, and no other follows it:
\* what is collected after the end of the trace was in the list.
LostBy(g) == IF g = Len(collection) /\ entries = << >> THEN abandoned ELSE << >>
GroupInv == \A g \in DOMAIN collection : IsExecution(collection[g], LostBy(g))

\* A frame is given up only when nothing more can be read, and an epilogue
\* comes after all that is in the list.
EndInv ==
    /\ abandoned # << >> => phase \in {"read", "done"} /\ pos = Len(trace)
    /\ phase = "epilogue" =>
          \A i \in DOMAIN entries : \A k \in Claimed(entries[i]), j \in Top.epilogue : k < j

ExecutionInv == NestInv /\ ListInv /\ GroupInv /\ EndInv

\* A frame's own names and registers decide what is nested in it, and they only
\* grow once it has a prologue.
Goes(f, g) ==
    f.prologue # {} =>
        /\ g.prologue # {}
        /\ g.invoke_chain = f.invoke_chain
        /\ Registers(f) \subseteq Registers(g)

LEMMA NestedGoesOn ==
    ASSUME NEW e, NEW f, NEW g, NestedIn(e, f), Goes(f, g)
    PROVE  NestedIn(e, g)
BY DEF NestedIn, Goes

\* A nested entry stays nested when it takes a later register.
LEMMA NestedTakes ==
    ASSUME NEW e, NEW t, NEW f, NEW k \in Nat, NestedIn(t, f),
           e.function_name = t.function_name, e.invoke_chain = t.invoke_chain,
           Registers(e) \subseteq Registers(t) \cup {k},
           t.prologue # {}, Claimed(t) \subseteq 1 .. pos, pos \in Nat, pos < k,
           Claimed(f) \subseteq Nat
    PROVE  NestedIn(e, f)
<1>1. PICK m \in Registers(t) : TRUE
    BY DEF Registers
<1>2. PICK j \in Registers(f) : j < m
    BY <1>1 DEF NestedIn
<1>3. m \in Nat /\ m <= pos /\ j \in Nat
    BY <1>1, <1>2 DEF Claimed
<1>4. j < k
    BY <1>2, <1>3
<1> QED
    BY <1>2, <1>4 DEF NestedIn

\* Changing the innermost entry.
LEMMA UpdateNest ==
    ASSUME TypeOK, NestInv, stack # << >>, NEW e \in Entry, UpdateTop(e),
           e.prologue # {} => Len(e.invoke_chain) = Len(stack),
           Len(stack) > 1 => NestedIn(e, stack[Len(stack) - 1]),
           Goes(Top, e)
    PROVE  NestInv' /\ \A d \in DOMAIN stack : d \in DOMAIN stack' /\ Goes(stack[d], stack'[d])
<1>1. stack \in Seq(Entry)
    BY DEF TypeOK
<1>2. /\ stack' \in Seq(Entry) /\ Len(stack') = Len(stack)
      /\ stack'[Len(stack)] = e
      /\ \A d \in DOMAIN stack : d # Len(stack) => stack'[d] = stack[d]
    BY <1>1, UpdateTopStack
<1>3. DOMAIN stack' = DOMAIN stack /\ DOMAIN stack = 1 .. Len(stack) /\ Len(stack) \in Nat
    BY <1>1, <1>2
<1>4. ASSUME NEW d \in DOMAIN stack'
      PROVE  /\ stack'[d].prologue # {} => Len(stack'[d].invoke_chain) = d
             /\ d > 1 => NestedIn(stack'[d], stack'[d - 1])
    <2>1. d \in DOMAIN stack /\ d \in Nat /\ (d > 1 => d - 1 \in DOMAIN stack /\ d - 1 # Len(stack))
        BY <1>3
    <2>2. d > 1 => stack'[d - 1] = stack[d - 1]
        BY <1>2, <2>1
    <2>3. CASE d = Len(stack)
        BY <1>2, <2>2, <2>3
    <2>4. CASE d # Len(stack)
        BY <1>2, <2>1, <2>2, <2>4 DEF NestInv
    <2> QED
        BY <2>3, <2>4
<1>5. ASSUME NEW d \in DOMAIN stack PROVE Goes(stack[d], stack'[d])
    <2>1. CASE d = Len(stack)
        BY <1>2, <2>1 DEF Top
    <2>2. CASE d # Len(stack)
        BY <1>2, <2>2 DEF Goes
    <2> QED
        BY <2>1, <2>2
<1> QED
    BY <1>3, <1>4, <1>5 DEF NestInv

\* The innermost entry, as the invariants have it.
LEMMA TopFacts ==
    ASSUME TypeOK, MergeInv, ChainDiscipline, NestInv, stack # << >>
    PROVE  /\ stack \in Seq(Entry) /\ Top \in Entry /\ Len(stack) \in DOMAIN stack
           /\ Top = stack[Len(stack)] /\ Len(stack) \in Nat
           /\ pos \in Nat /\ At = pos + 1 /\ At \in Nat
           /\ Claimed(Top) \subseteq 1 .. pos
           /\ Top.function_name = NoName <=> Top.prologue = {}
           /\ Top.function_name = NoName => Len(stack) = 1 /\ Top.invoke_chain = << >> /\ Top.epilogue = {}
           /\ Top.prologue # {} => Len(Top.invoke_chain) = Len(stack)
           /\ Len(stack) > 1 => /\ NestedIn(Top, stack[Len(stack) - 1])
                                /\ Len(stack) - 1 \in DOMAIN stack
                                /\ Claimed(stack[Len(stack) - 1]) \subseteq Nat
<1>1. /\ stack \in Seq(Entry) /\ Top \in Entry /\ Len(stack) \in DOMAIN stack
      /\ Top = stack[Len(stack)] /\ Len(stack) \in Nat
      /\ pos \in Nat /\ At = pos + 1 /\ At \in Nat
    BY TopType DEF TypeOK, At
<1>2. Held(Top, trace, pos) /\ Linked(stack, Len(stack))
    BY <1>1, ChainIsLinked DEF MergeInv, OpenInv
<1>3. Len(stack) > 1 => Len(stack) - 1 \in DOMAIN stack
    BY <1>1
<1>4. Len(stack) > 1 => Claimed(stack[Len(stack) - 1]) \subseteq Nat
    <2> SUFFICES ASSUME Len(stack) > 1 PROVE Claimed(stack[Len(stack) - 1]) \subseteq Nat
        OBVIOUS
    <2>1. Claimed(stack[Len(stack) - 1]) \subseteq 1 .. pos
        BY <1>3 DEF MergeInv, OpenInv, Held
    <2> QED
        BY <1>1, <2>1
<1> QED
    BY <1>1, <1>2, <1>3, <1>4 DEF Held, Linked, NestInv

\* The innermost entry, once named, takes another register or an access.
LEMMA TakeNest ==
    ASSUME TypeOK, MergeInv, ChainDiscipline, NestInv, stack # << >>,
           NEW e \in Entry, UpdateTop(e),
           e.function_name = Top.function_name, e.invoke_chain = Top.invoke_chain,
           Top.prologue \subseteq e.prologue,
           Top.prologue = {} => e.prologue = {},
           Registers(Top) \subseteq Registers(e), Registers(e) \subseteq Registers(Top) \cup {At}
    PROVE  NestInv' /\ \A d \in DOMAIN stack : d \in DOMAIN stack' /\ Goes(stack[d], stack'[d])
<1>1. Goes(Top, e)
    BY DEF Goes
<1>2. e.prologue # {} => Len(e.invoke_chain) = Len(stack)
    BY TopFacts
<1>3. ASSUME Len(stack) > 1 PROVE NestedIn(e, stack[Len(stack) - 1])
    <2>1. Top.prologue # {} /\ NestedIn(Top, stack[Len(stack) - 1])
        BY <1>3, TopFacts
    <2> QED
        BY <1>3, <2>1, TopFacts, NestedTakes
<1> QED
    BY <1>1, <1>2, <1>3, UpdateNest

\* Every step but a frame's return keeps the nesting, and takes nothing from an
\* open entry.
LEMMA ReadNest ==
    ASSUME TypeOK, MergeInv, ChainDiscipline, NestInv, [Next]_vars, ~ CloseEntry, ~ EndOfTrace
    PROVE  NestInv' /\ \A d \in DOMAIN stack : d \in DOMAIN stack' /\ Goes(stack[d], stack'[d])
<1>1. phase # "done" => stack # << >>
    BY DEF TypeOK
<1>2. CASE AppendPrologue
    <2> DEFINE name == EnclosingSubprogram(Next_e.pc)
    <2>1. stack # << >> /\ name \in Names /\ name # NoName
        BY <1>1, <1>2, PrologueName DEF AppendPrologue, PrologueElement
    <2> DEFINE e == [Top EXCEPT !.function_name = name,
                                !.invoke_chain = NamedChain(name),
                                !.prologue = @ \cup {At}]
    <2>2. UpdateTop(e) /\ (Top.function_name = NoName \/ Top.function_name = name)
        BY <1>2 DEF AppendPrologue, SameFunction
    <2>3. Top \in Entry /\ Top.invoke_chain \in Seq(Names) /\ NamedChain(name) \in Seq(Names)
        BY <2>1, TopFacts, EntryUpdates DEF NamedChain
    <2> HIDE DEF name
    <2>4. /\ e.function_name = name /\ e.invoke_chain = NamedChain(name)
          /\ e.prologue = Top.prologue \cup {At} /\ e.epilogue = Top.epilogue
        BY <2>3 DEF Entry
    <2>5. e \in Entry
        BY <2>1, <2>3, TopFacts, EntryUpdates
    <2> HIDE DEF e
    <2>6. Registers(e) = Registers(Top) \cup {At}
        BY <2>4 DEF Registers
    <2>7. CASE Top.function_name = NoName
        <3>1. Len(stack) = 1 /\ Top.invoke_chain = << >> /\ Top.prologue = {}
            BY <2>1, <2>7, TopFacts
        <3>2. e.invoke_chain = <<name>> /\ Len(e.invoke_chain) = 1
            BY <2>4, <2>7, <3>1 DEF NamedChain
        <3>3. Goes(Top, e)
            BY <3>1 DEF Goes
        <3>4. ~ (Len(stack) > 1) /\ (e.prologue # {} => Len(e.invoke_chain) = Len(stack))
            BY <3>1, <3>2
        <3> QED
            BY <2>1, <2>2, <2>5, <3>3, <3>4, UpdateNest
    <2>8. CASE Top.function_name # NoName
        <3>1. Top.prologue # {}
            BY <2>1, <2>8, TopFacts
        <3>2. e.function_name = Top.function_name /\ e.invoke_chain = Top.invoke_chain
            BY <2>2, <2>4, <2>8 DEF NamedChain
        <3> QED
            BY <2>1, <2>2, <2>4, <2>5, <2>6, <3>1, <3>2, TakeNest
    <2> QED
        BY <2>7, <2>8
<1>3. CASE EnterNested
    <2> DEFINE name == EnclosingSubprogram(Next_e.pc)
    <2> DEFINE e == NestedEntry(name)
    <2>1. stack # << >> /\ name \in Names
        BY <1>1, <1>3, PrologueName DEF EnterNested, PrologueElement
    <2>2. stack' = Append(stack, e) /\ Top.function_name # NoName
        BY <1>3 DEF EnterNested, SameFunction
    <2> HIDE DEF name
    <2>3. /\ e.function_name = name /\ e.invoke_chain = Append(Top.invoke_chain, name)
          /\ e.prologue = {At} /\ Registers(e) = {At}
        BY DEF NestedEntry, NewEntry, Registers
    <2>4. Top.prologue # {} /\ Len(Top.invoke_chain) = Len(stack) /\ Top.invoke_chain \in Seq(Names)
        BY <2>1, <2>2, TopFacts DEF Entry
    <2>5. Len(e.invoke_chain) = Len(stack) + 1
        BY <2>3, <2>4
    <2>6. NestedIn(e, Top)
        <3>1. PICK j \in Top.prologue : TRUE
            BY <2>4
        <3>2. j \in Registers(Top) /\ j < At
            BY <2>1, <3>1, TopFacts DEF Claimed, Registers
        <3> QED
            BY <2>3, <2>4, <3>2 DEF NestedIn
    <2> HIDE DEF e
    <2>7. /\ Len(stack') = Len(stack) + 1 /\ stack'[Len(stack) + 1] = e
          /\ DOMAIN stack' = DOMAIN stack \cup {Len(stack) + 1}
          /\ \A d \in DOMAIN stack : stack'[d] = stack[d]
          /\ DOMAIN stack = 1 .. Len(stack)
        BY <2>1, <2>2, TopFacts
    <2>8. ASSUME NEW d \in DOMAIN stack'
          PROVE  /\ stack'[d].prologue # {} => Len(stack'[d].invoke_chain) = d
                 /\ d > 1 => NestedIn(stack'[d], stack'[d - 1])
        <3>1. CASE d = Len(stack) + 1
            <4>1. d - 1 = Len(stack) /\ stack'[d - 1] = Top
                BY <2>1, <2>7, <3>1, TopFacts
            <4> QED
                BY <2>5, <2>6, <2>7, <3>1, <4>1
        <3>2. CASE d \in DOMAIN stack
            <4>1. d > 1 => d - 1 \in DOMAIN stack
                BY <2>1, <2>7, <3>2, TopFacts
            <4> QED
                BY <2>7, <3>2, <4>1 DEF NestInv
        <3> QED
            BY <2>7, <3>1, <3>2
    <2>9. \A d \in DOMAIN stack : d \in DOMAIN stack' /\ Goes(stack[d], stack'[d])
        BY <2>7 DEF Goes
    <2> QED
        BY <2>8, <2>9 DEF NestInv
<1>4. CASE ReachEpilogue \/ SwallowCjr
    <2> DEFINE e == [Top EXCEPT !.epilogue = @ \cup {At}]
    <2>1. stack # << >>
        BY <1>1, <1>4 DEF ReachEpilogue, SwallowCjr, EpilogueElement
    <2>2. UpdateTop(e) /\ Top \in Entry /\ At \in Nat
        BY <1>4, <2>1, TopFacts DEF ReachEpilogue, SwallowCjr
    <2>3. /\ e \in Entry /\ e.function_name = Top.function_name /\ e.invoke_chain = Top.invoke_chain
          /\ e.prologue = Top.prologue /\ e.epilogue = Top.epilogue \cup {At}
        BY <2>2, EpilogueUpdate
    <2> HIDE DEF e
    <2>4. Registers(e) = Registers(Top) \cup {At}
        BY <2>3 DEF Registers
    <2> QED
        BY <2>1, <2>2, <2>3, <2>4, TakeNest
<1>5. CASE DataWrite \/ DataRead
    <2> DEFINE e == IF DataWrite THEN [Top EXCEPT !.dwrites = @ \cup {At}]
                    ELSE [Top EXCEPT !.dreads = @ \cup {At}]
    <2>1. stack # << >>
        BY <1>1, <1>5 DEF DataWrite, DataRead
    <2>2. UpdateTop(e) /\ Top \in Entry /\ At \in Nat
        BY <1>5, <2>1, TopFacts DEF DataWrite, DataRead
    <2>3. /\ e \in Entry /\ e.function_name = Top.function_name /\ e.invoke_chain = Top.invoke_chain
          /\ e.prologue = Top.prologue /\ e.epilogue = Top.epilogue
        BY <2>2, AccessUpdate
    <2> HIDE DEF e
    <2>4. Registers(e) = Registers(Top)
        BY <2>3 DEF Registers
    <2> QED
        BY <2>1, <2>2, <2>3, <2>4, TakeNest
<1>6. CASE stack' = stack
    BY <1>6 DEF NestInv, Goes
<1> QED
    BY <1>2, <1>3, <1>4, <1>5, <1>6
    DEF Next, Step, ExceedRecursion, Skip, FailToLocate, KeepResults, Stopped, vars

\* What the groups' invariant asks of the next state.
LEMMA GroupsKept ==
    ASSUME \A g \in DOMAIN collection' : IsExecution(collection'[g], LostBy(g)')
    PROVE  GroupInv'
BY DEF GroupInv, IsExecution, Within, CutOff

\* Such a step keeps the list and the groups.
LEMMA ReadExecution ==
    ASSUME TypeOK, MergeInv, ChainDiscipline, ExecutionInv, [Next]_vars, ~ CloseEntry, ~ EndOfTrace
    PROVE  ExecutionInv'
<1>1. UNCHANGED <<entries, collection, abandoned, trace>>
    BY DEF Next, Step, AppendPrologue, EnterNested, ExceedRecursion, ReachEpilogue, SwallowCjr,
           FailToLocate, DataWrite, DataRead, Skip, KeepResults, Stopped, vars
<1>2. NestInv' /\ \A d \in DOMAIN stack : d \in DOMAIN stack' /\ Goes(stack[d], stack'[d])
    BY ReadNest DEF ExecutionInv
<1>3. ListInv'
    <2> SUFFICES ASSUME NEW i \in DOMAIN entries
                 PROVE  /\ Len(entries[i].invoke_chain) # 1
                        /\ \/ \E j \in (i + 1) .. Len(entries) : Within(entries[i], entries[j])
                           \/ \E d \in DOMAIN stack' : NestedIn(entries[i], stack'[d])
                           \/ CutOff(entries[i], abandoned)
        BY <1>1 DEF ListInv, Within
    <2>1. CASE \E d \in DOMAIN stack : NestedIn(entries[i], stack[d])
        BY <1>2, <2>1, NestedGoesOn DEF ExecutionInv, ListInv
    <2> QED
        BY <2>1 DEF ExecutionInv, ListInv
<1>4. GroupInv'
    <2>1. \A g \in DOMAIN collection : LostBy(g)' = LostBy(g)
        BY <1>1 DEF LostBy
    <2>2. \A g \in DOMAIN collection' : IsExecution(collection'[g], LostBy(g)')
        BY <1>1, <2>1 DEF ExecutionInv, GroupInv
    <2> QED
        BY <2>2, GroupsKept
<1>5. EndInv'
    <2>1. ASSUME abandoned # << >> PROVE phase' \in {"read", "done"} /\ pos' = Len(trace)
        <3>1. phase \in {"read", "done"} /\ ~ More
            BY <2>1 DEF ExecutionInv, EndInv, More, TypeOK
        <3> QED
            BY <2>1, <3>1
            DEF Next, Step, AppendPrologue, EnterNested, ExceedRecursion, ReachEpilogue, SwallowCjr,
                FailToLocate, DataWrite, DataRead, Skip, Stopped, vars, PrologueElement,
                EpilogueElement, NextIsSameCjr, ExecutionInv, EndInv
    <2>2. ASSUME phase' = "epilogue", NEW i \in DOMAIN entries,
                 NEW k \in Claimed(entries[i]), NEW j \in Top'.epilogue
          PROVE  k < j
        <3>1. /\ pos \in Nat /\ At = pos + 1 /\ k \in 1 .. pos
              /\ phase = "epilogue" => \A l \in Top.epilogue : k < l
              /\ phase = "read" => Top.epilogue = {}
            BY DEF MergeInv, OpenInv, ClosedInv, Complete, TypeOK, At, ExecutionInv, EndInv
        <3>2. CASE ReachEpilogue \/ SwallowCjr
            <4> DEFINE e == [Top EXCEPT !.epilogue = @ \cup {At}]
            <4>1. stack # << >> /\ stack \in Seq(Entry) /\ phase \in {"read", "epilogue"}
                BY <3>2 DEF ReachEpilogue, SwallowCjr, EpilogueElement, TypeOK
            <4>2. UpdateTop(e) /\ Top \in Entry /\ At \in Nat
                BY <3>1, <3>2, <4>1, TopType DEF ReachEpilogue, SwallowCjr
            <4>3. e \in Entry /\ e.epilogue = Top.epilogue \cup {At}
                BY <4>2, EpilogueUpdate
            <4> HIDE DEF e
            <4>4. Top' = e
                BY <4>1, <4>2, <4>3, UpdateTopStack DEF Top
            <4> QED
                BY <3>1, <4>1, <4>3, <4>4
        <3>3. CASE phase = "epilogue" /\ stack' = stack
            BY <3>1, <3>3 DEF Top
        <3> QED
            BY <2>2, <3>2, <3>3
            DEF Next, Step, AppendPrologue, EnterNested, ExceedRecursion, FailToLocate,
                DataWrite, DataRead, Skip, KeepResults, Stopped, vars, PrologueElement
    <2> QED
        BY <1>1, <2>1, <2>2 DEF EndInv
<1> QED
    BY <1>2, <1>3, <1>4, <1>5 DEF ExecutionInv

\* A frame's return leaves the others nested.
LEMMA ReturnNest ==
    ASSUME TypeOK, NestInv, stack # << >>, NEW list \in Seq(Entry), Return(list)
    PROVE  NestInv'
<1>1. stack \in Seq(Entry) /\ collection \in Seq(Seq(Entry))
    BY DEF TypeOK
<1>2. CASE /\ Len(stack') = Len(stack) - 1 /\ stack' \in Seq(Entry)
           /\ \A d \in DOMAIN stack' : d \in DOMAIN stack /\ stack'[d] = stack[d]
    <2>1. \A d \in DOMAIN stack' : d > 1 => d - 1 \in DOMAIN stack' /\ stack'[d - 1] = stack[d - 1]
        BY <1>2
    <2> QED
        BY <1>2, <2>1 DEF NestInv
<1>3. CASE stack' = << >>
    BY <1>3 DEF NestInv
<1>4. CASE stack' = <<NewEntry>>
    <2>1. DOMAIN stack' = {1} /\ stack'[1] = NewEntry /\ NewEntry.prologue = {}
        BY <1>4 DEF NewEntry
    <2> QED
        BY <2>1 DEF NestInv
<1> QED
    BY <1>1, <1>2, <1>3, <1>4, ReturnType

\* Where the entries of the list ran once the innermost frame has left.
LEMMA LeaveList ==
    ASSUME TypeOK, MergeInv, ChainDiscipline, ExecutionInv, stack # << >>,
           NEW list \in Seq(Entry), Leaves(list),
           list = entries \/ phase = "epilogue"
    PROVE  \A i \in DOMAIN list :
              /\ Len(list[i].invoke_chain) = 1 => i = Len(list) /\ Len(stack) = 1
              /\ \/ Len(list[i].invoke_chain) = 1
                 \/ \E j \in (i + 1) .. Len(list) : Within(list[i], list[j])
                 \/ \E d \in DOMAIN stack : d # Len(stack) /\ NestedIn(list[i], stack[d])
                 \/ CutOff(list[i], abandoned')
<1>1. /\ entries \in Seq(Entry) /\ abandoned \in Seq(Entry) /\ Len(entries) \in Nat
      /\ NestInv /\ ListInv /\ EndInv
    BY DEF TypeOK, ExecutionInv
<1>2. CASE list = Append(entries, Top) /\ abandoned' = abandoned /\ phase = "epilogue"
    <2>1. /\ Len(list) = Len(entries) + 1 /\ list[Len(list)] = Top
          /\ \A i \in DOMAIN entries : list[i] = entries[i]
          /\ DOMAIN list = DOMAIN entries \cup {Len(list)}
          /\ DOMAIN entries = 1 .. Len(entries)
        BY <1>1, <1>2, TopFacts
    <2>2. Top.epilogue # {} /\ Top.prologue # {}
        BY <1>1, <1>2, TopFacts DEF MergeInv, OpenInv
    <2>3. Len(Top.invoke_chain) = Len(stack)
        BY <1>1, <2>2, TopFacts
    <2>4. ASSUME NEW i \in DOMAIN entries, NestedIn(entries[i], Top)
          PROVE  Within(entries[i], Top)
        <3>1. PICK j \in Top.epilogue : TRUE
            BY <2>2
        <3>2. \A k \in Registers(entries[i]) : k < j
            BY <1>1, <1>2, <3>1 DEF EndInv, Claimed
        <3>3. j \in Registers(Top)
            BY <3>1 DEF Registers
        <3> QED
            BY <2>4, <3>2, <3>3 DEF NestedIn, Within
    <2>5. ASSUME NEW i \in DOMAIN entries
          PROVE  /\ Len(entries[i].invoke_chain) # 1
                 /\ \/ \E j \in (i + 1) .. Len(list) : Within(list[i], list[j])
                    \/ \E d \in DOMAIN stack : d # Len(stack) /\ NestedIn(list[i], stack[d])
                    \/ CutOff(list[i], abandoned')
        <3>1. CASE \E j \in (i + 1) .. Len(entries) : Within(entries[i], entries[j])
            <4>1. PICK j \in (i + 1) .. Len(entries) : Within(entries[i], entries[j])
                BY <3>1
            <4>2. j \in (i + 1) .. Len(list) /\ j \in DOMAIN entries
                BY <1>1, <2>1
            <4>3. Within(list[i], list[j])
                BY <2>1, <4>1, <4>2
            <4> QED
                BY <1>1, <4>2, <4>3 DEF ListInv
        <3>2. CASE NestedIn(entries[i], stack[Len(stack)])
            <4>1. Within(list[i], list[Len(list)]) /\ Len(list) \in (i + 1) .. Len(list)
                BY <1>1, <2>1, <2>4, <3>2, TopFacts
            <4> QED
                BY <1>1, <4>1 DEF ListInv
        <3> QED
            BY <1>1, <1>2, <2>1, <3>1, <3>2 DEF ListInv
    <2>6. CASE Len(stack) = 1
        BY <2>1, <2>3, <2>5, <2>6
    <2>7. CASE Len(stack) > 1
        <3>1. /\ Len(stack) - 1 \in DOMAIN stack /\ Len(stack) - 1 # Len(stack)
              /\ NestedIn(Top, stack[Len(stack) - 1])
            BY <1>1, <2>7, TopFacts
        <3>2. Len(stack) # 1
            BY <1>1, <2>7, TopFacts
        <3> QED
            BY <2>1, <2>3, <2>5, <3>1, <3>2
    <2> QED
        BY <2>6, <2>7, OneFrame
<1>3. CASE list = entries /\ abandoned' = Append(abandoned, Top)
    <2>1. /\ abandoned'[Len(abandoned) + 1] = stack[Len(stack)]
          /\ Len(abandoned) + 1 \in DOMAIN abandoned'
          /\ \A a \in DOMAIN abandoned : a \in DOMAIN abandoned' /\ abandoned'[a] = abandoned[a]
        BY <1>1, <1>3, TopFacts
    <2>2. ASSUME NEW i \in DOMAIN entries, NestedIn(entries[i], stack[Len(stack)])
          PROVE  CutOff(entries[i], abandoned')
        BY <2>1, <2>2 DEF NestedIn, CutOff
    <2>3. ASSUME NEW i \in DOMAIN entries, CutOff(entries[i], abandoned)
          PROVE  CutOff(entries[i], abandoned')
        BY <2>1, <2>3 DEF CutOff
    <2> QED
        BY <1>1, <1>3, <2>2, <2>3 DEF ListInv
<1>4. \/ list = Append(entries, Top) /\ abandoned' = abandoned /\ phase = "epilogue"
      \/ list = entries /\ abandoned' = Append(abandoned, Top)
    <2>1. Append(entries, Top) # entries
        <3>1. Top \in Entry
            BY <1>1, TopFacts
        <3>2. Len(Append(entries, Top)) # Len(entries)
            BY <1>1, <3>1
        <3> QED
            BY <3>2
    <2> QED
        BY <2>1 DEF Leaves
<1> QED
    BY <1>2, <1>3, <1>4

\* What an execution is does not get harder when more frames are given up.
LEMMA ExecutionLoses ==
    ASSUME NEW group, NEW lost, NEW more, IsExecution(group, lost),
           \A a \in DOMAIN lost : a \in DOMAIN more /\ more[a] = lost[a]
    PROVE  IsExecution(group, more)
<1>1. ASSUME NEW e, CutOff(e, lost) PROVE CutOff(e, more)
    BY <1>1 DEF CutOff
<1> QED
    BY <1>1 DEF IsExecution

\* A frame's return keeps the invariant.
LEMMA LeaveExecution ==
    ASSUME TypeOK, MergeInv, ChainDiscipline, ExecutionInv, stack # << >>,
           NEW list \in Seq(Entry), Return(list), Leaves(list), UNCHANGED <<trace, pos>>,
           phase = "epilogue" \/ (list = entries /\ phase = "read" /\ ~ More),
           phase = "epilogue" => abandoned' = abandoned
    PROVE  ExecutionInv'
<1>1. /\ entries \in Seq(Entry) /\ abandoned \in Seq(Entry) /\ stack \in Seq(Entry)
      /\ collection \in Seq(Seq(Entry)) /\ Top \in Entry
      /\ NestInv /\ ListInv /\ EndInv /\ GroupInv
    BY TopType DEF TypeOK, ExecutionInv
<1>2. phase = "epilogue" => abandoned = << >>
    BY <1>1 DEF EndInv
<1>3. \A i \in DOMAIN list :
          /\ Len(list[i].invoke_chain) = 1 => i = Len(list) /\ Len(stack) = 1
          /\ \/ Len(list[i].invoke_chain) = 1
             \/ \E j \in (i + 1) .. Len(list) : Within(list[i], list[j])
             \/ \E d \in DOMAIN stack : d # Len(stack) /\ NestedIn(list[i], stack[d])
             \/ CutOff(list[i], abandoned')
    BY LeaveList
<1>4. NestInv'
    BY <1>1, ReturnNest
<1>5. EndInv'
    <2>1. phase' \in {"read", "done"}
        BY <1>1, ReturnType
    <2>2. abandoned' # << >> => pos' = Len(trace')
        BY <1>2 DEF More, TypeOK
    <2> QED
        BY <2>1, <2>2 DEF EndInv
<1>6. \A a \in DOMAIN abandoned : a \in DOMAIN abandoned' /\ abandoned'[a] = abandoned[a]
    <2>1. abandoned' = abandoned \/ abandoned' = Append(abandoned, Top)
        BY DEF Leaves
    <2>2. CASE abandoned' = abandoned
        BY <2>2
    <2>3. CASE abandoned' = Append(abandoned, Top)
        BY <1>1, <2>3
    <2> QED
        BY <2>1, <2>2, <2>3
<1>7. ListInv' /\ GroupInv'
    <2>1. CASE Len(stack) > 1
        <3>1. /\ entries' = list /\ collection' = collection
              /\ stack' = SubSeq(stack, 1, Len(stack) - 1)
            BY <2>1 DEF Return
        <3>2. \A d \in DOMAIN stack : d # Len(stack) => d \in DOMAIN stack' /\ stack'[d] = stack[d]
            BY <1>1, <2>1, <3>1
        <3>3. ListInv'
            <4> SUFFICES ASSUME NEW i \in DOMAIN list
                         PROVE  /\ Len(list[i].invoke_chain) # 1
                                /\ \/ \E j \in (i + 1) .. Len(list) : Within(list[i], list[j])
                                   \/ \E d \in DOMAIN stack' : NestedIn(list[i], stack'[d])
                                   \/ CutOff(list[i], abandoned')
                BY <3>1 DEF ListInv, Within
            <4>1. Len(stack) \in Nat /\ Len(stack) # 1
                <5>1. Len(stack) \in Nat
                    BY <1>1
                <5>2. \A n \in Nat : n > 1 => n # 1
                    OBVIOUS
                <5> QED
                    BY <2>1, <5>1, <5>2, Zenon
            <4> QED
                BY <1>3, <3>2, <4>1
        <3>4. ASSUME NEW g \in DOMAIN collection
              PROVE  IsExecution(collection[g], LostBy(g)')
            <4>1. IsExecution(collection[g], LostBy(g))
                BY <1>1 DEF GroupInv
            <4>2. CASE LostBy(g) = << >>
                BY <4>1, <4>2, ExecutionLoses
            <4>3. CASE LostBy(g) # << >>
                <5>1. LostBy(g) = abandoned /\ g = Len(collection) /\ entries = << >> /\ list = entries
                    BY <1>2, <4>3 DEF LostBy
                <5>2. LostBy(g)' = abandoned'
                    BY <3>1, <5>1 DEF LostBy
                <5> QED
                    BY <1>6, <4>1, <5>1, <5>2, ExecutionLoses
            <4> QED
                BY <4>2, <4>3
        <3>5. GroupInv'
            BY <3>1, <3>4, GroupsKept
        <3> QED
            BY <3>3, <3>5
    <2>2. CASE Len(stack) = 1
        <3>1. \/ list = << >> /\ entries' = << >> /\ collection' = collection
              \/ list # << >> /\ entries' = << >> /\ collection' = Append(collection, list)
            BY <2>2 DEF Return
        <3>2. ListInv'
            BY <3>1 DEF ListInv
        <3>3. IsExecution(list, abandoned')
            <4>1. \A d \in DOMAIN stack : d = Len(stack)
                BY <1>1, <2>2
            <4> QED
                BY <1>3, <4>1 DEF IsExecution
        <3>4. ASSUME list = << >>, NEW g \in DOMAIN collection
              PROVE  IsExecution(collection[g], LostBy(g)')
            <4>1. IsExecution(collection[g], LostBy(g)) /\ collection' = collection /\ entries' = << >>
                BY <1>1, <3>1, <3>4 DEF GroupInv
            <4>2. CASE LostBy(g) = << >>
                BY <4>1, <4>2, ExecutionLoses
            <4>3. CASE LostBy(g) # << >>
                <5>1. LostBy(g) = abandoned /\ g = Len(collection)
                    BY <4>3 DEF LostBy
                <5>2. LostBy(g)' = abandoned'
                    BY <4>1, <5>1 DEF LostBy
                <5> QED
                    BY <1>6, <4>1, <5>1, <5>2, ExecutionLoses
            <4> QED
                BY <4>2, <4>3
        <3>5. ASSUME list # << >>, NEW g \in DOMAIN collection'
              PROVE  IsExecution(collection'[g], LostBy(g)')
            <4>1. /\ collection' = Append(collection, list) /\ entries' = << >>
                  /\ Len(collection') = Len(collection) + 1 /\ Len(collection) \in Nat
                BY <1>1, <3>1, <3>5
            <4>2. CASE g = Len(collection')
                BY <1>1, <3>3, <4>1, <4>2 DEF LostBy
            <4>3. CASE g # Len(collection')
                <5>1. g \in DOMAIN collection /\ collection'[g] = collection[g]
                    BY <1>1, <4>1, <4>3
                <5>2. LostBy(g) = << >> /\ LostBy(g)' = << >>
                    BY <1>2, <3>5, <4>3 DEF LostBy
                <5> QED
                    BY <1>1, <5>1, <5>2 DEF GroupInv
            <4> QED
                BY <4>2, <4>3
        <3>6. \A g \in DOMAIN collection' : IsExecution(collection'[g], LostBy(g)')
            BY <3>1, <3>4, <3>5
        <3>7. GroupInv'
            BY <3>6, GroupsKept
        <3> QED
            BY <3>2, <3>7
    <2> QED
        BY <2>1, <2>2, OneFrame
<1> QED
    BY <1>4, <1>5, <1>7 DEF ExecutionInv

LEMMA ExecutionStep ==
    TypeOK /\ MergeInv /\ ChainDiscipline /\ ExecutionInv /\ [Next]_vars => ExecutionInv'
<1> SUFFICES ASSUME TypeOK, MergeInv, ChainDiscipline, ExecutionInv, [Next]_vars
             PROVE  ExecutionInv'
    OBVIOUS
<1>1. CASE CloseEntry
    <2>1. stack # << >> /\ entries \in Seq(Entry) /\ stack \in Seq(Entry)
        BY <1>1 DEF CloseEntry, TypeOK
    <2>2. is_valid_entry(Top) /\ Top \in Entry
        BY <1>1, <2>1, TopType, MergeComplete DEF CloseEntry, CompleteEntries
    <2> DEFINE list == Append(entries, Top)
    <2>3. /\ list \in Seq(Entry) /\ Return(list) /\ Leaves(list) /\ UNCHANGED <<trace, pos>>
          /\ phase = "epilogue" /\ abandoned' = abandoned
        BY <1>1, <2>1, <2>2 DEF CloseEntry, Leaves
    <2> HIDE DEF list
    <2> QED
        BY <2>1, <2>3, LeaveExecution
<1>2. CASE EndOfTrace
    <2>1. /\ stack # << >> /\ entries \in Seq(Entry) /\ Return(entries) /\ Leaves(entries)
          /\ UNCHANGED <<trace, pos>> /\ phase = "read" /\ ~ More
        BY <1>2 DEF EndOfTrace, TypeOK, Leaves
    <2> QED
        BY <2>1, LeaveExecution
<1> QED
    BY <1>1, <1>2, ReadExecution

LEMMA ExecutionInit == Init => ExecutionInv
<1> SUFFICES ASSUME Init PROVE ExecutionInv
    OBVIOUS
<1>1. /\ DOMAIN stack = {1} /\ stack[1] = NewEntry /\ DOMAIN entries = {}
      /\ DOMAIN collection = {} /\ abandoned = << >> /\ phase = "read"
    BY DEF Init
<1>2. NewEntry.prologue = {}
    BY DEF NewEntry
<1> QED
    BY <1>1, <1>2 DEF ExecutionInv, NestInv, ListInv, GroupInv, EndInv

LEMMA ExecutionGives == TypeOK /\ ExecutionInv => GroupsAreExecutions
<1> SUFFICES ASSUME TypeOK, GroupInv, NEW g \in DOMAIN collection
             PROVE  \A i \in DOMAIN collection[g] :
                       /\ Len(collection[g][i].invoke_chain) = 1 => i = Len(collection[g])
                       /\ \/ Len(collection[g][i].invoke_chain) = 1
                          \/ \E j \in (i + 1) .. Len(collection[g]) :
                                Within(collection[g][i], collection[g][j])
                          \/ /\ g = Len(collection) /\ abandoned # << >>
                             /\ CutOff(collection[g][i], abandoned)
    BY DEF ExecutionInv, GroupsAreExecutions, CutOff
<1>1. IsExecution(collection[g], LostBy(g))
    BY DEF GroupInv
<1>2. \A e : ~ CutOff(e, << >>)
    BY DEF CutOff
<1>3. LostBy(g) = << >> \/ (g = Len(collection) /\ abandoned # << >> /\ LostBy(g) = abandoned)
    BY DEF LostBy
<1> QED
    BY <1>1, <1>2, <1>3 DEF IsExecution

\* Whatever the trace, a group is one outermost execution: every entry but the
\* last began and ended inside a later one of its group, and only the last
\* group can have lost its outermost entry, to the end of the trace.
THEOREM ExecutionCorrect == Spec => []GroupsAreExecutions
<1>1. Spec => []TypeOK /\ []MergeInv /\ []ChainDiscipline
    BY TypeCorrect, ChainCorrect, MergeInit, MergeStep, PTL DEF Spec
<1> QED
    BY <1>1, ExecutionInit, ExecutionStep, ExecutionGives, PTL DEF Spec
=============================================================================
