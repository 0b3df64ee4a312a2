-------------------------- MODULE CallTraceProofs --------------------------
(***************************************************************************)
(* What holds of the entries of every program, with any number of calls    *)
(* and stores, any window and any subprograms, as long as no function of   *)
(* the window calls itself directly and no call is made with the           *)
(* instruction of a return.  The runs with the violations show that both   *)
(* are needed.                                                             *)
(***************************************************************************)
EXTENDS CallTrace, EntryMergerProofs, SequenceTheorems, FiniteSetTheorems

NoDirectRecursion == MayCallItself = FALSE
CallsAreNoReturns ==
    \A c \in Conventions : c.call \notin {"cjr", "jalr"} /\ c.return \in {"cjr", "jalr"}

-----------------------------------------------------------------------------
(***************************************************************************)
(* The trace a program leaves.                                             *)
(***************************************************************************)

Ids == Nat \ {0}
Returns(e) == IsInstruction(e, {"cjr", "jalr"})

\* The live calls in the window after k elements of a trace.
LiveAfter(tr, th, ar, k) ==
    IF k = 0 THEN << >>
    ELSE IF Returns(tr[k]) THEN ar[th[k]]
    ELSE Append(ar[th[k]], th[k])

\* An element is the first of a call that was made inside the live ones, and
\* then a store, or it is of the innermost live call; a call that returned
\* leaves no more elements.
Caused(tr, th, fn, ar, k) ==
    /\ th[k] \in DOMAIN fn /\ fn[th[k]] \in window
    /\ tr[k].pc = CodeOf(fn[th[k]])
    /\ \/ /\ \A j \in 1 .. (k - 1) : th[j] # th[k]
          /\ IsInstruction(tr[k], {"sw"})
          /\ ar[th[k]] = LiveAfter(tr, th, ar, k - 1)
       \/ Append(ar[th[k]], th[k]) = LiveAfter(tr, th, ar, k - 1)
    /\ \A j \in 1 .. (k - 1) : Returns(tr[j]) => th[j] # th[k]

\* A trace that the calls of fn and ar explain: `ret' have returned, `live' are
\* live in the window at its end.
Explained(tr, th, fn, ar, ret, live) ==
    /\ tr \in Seq(Element) /\ th \in Seq(Ids) /\ Len(th) = Len(tr)
    /\ \A k \in 1 .. Len(tr) : Caused(tr, th, fn, ar, k)
    /\ \A k \in 1 .. Len(tr) : Returns(tr[k]) => th[k] \in ret
    /\ live = LiveAfter(tr, th, ar, Len(tr))

\* A longer trace says the same of what was before.
LEMMA LiveAfterAppend ==
    ASSUME NEW tr \in Seq(Element), NEW th \in Seq(Ids), Len(th) = Len(tr), NEW ar,
           NEW e, NEW id, NEW k \in 0 .. Len(tr)
    PROVE  LiveAfter(Append(tr, e), Append(th, id), ar, k) = LiveAfter(tr, th, ar, k)
<1>1. k # 0 => Append(tr, e)[k] = tr[k] /\ Append(th, id)[k] = th[k]
    OBVIOUS
<1> QED
    BY <1>1 DEF LiveAfter

\* One more element.
LEMMA ExplainedAppend ==
    ASSUME NEW tr, NEW th, NEW fn, NEW ar, NEW ret, NEW live,
           Explained(tr, th, fn, ar, ret, live),
           NEW id \in DOMAIN fn, id \in Ids, fn[id] \in window, id \notin ret,
           NEW e \in Element, e.pc = CodeOf(fn[id]),
           \/ live = Append(ar[id], id)
           \/ live = ar[id] /\ IsInstruction(e, {"sw"}) /\ \A j \in 1 .. Len(tr) : th[j] # id
    PROVE  Explained(Append(tr, e), Append(th, id), fn, ar,
                     IF Returns(e) THEN ret \cup {id} ELSE ret,
                     IF Returns(e) THEN ar[id] ELSE Append(ar[id], id))
<1> DEFINE n == Len(tr)
<1> DEFINE tr2 == Append(tr, e)
<1> DEFINE th2 == Append(th, id)
<1>1. tr \in Seq(Element) /\ th \in Seq(Ids) /\ Len(th) = n /\ n \in Nat
    BY DEF Explained
<1>2. /\ tr2 \in Seq(Element) /\ th2 \in Seq(Ids) /\ Len(tr2) = n + 1 /\ Len(th2) = n + 1
      /\ tr2[n + 1] = e /\ th2[n + 1] = id
      /\ \A k \in 1 .. n : tr2[k] = tr[k] /\ th2[k] = th[k]
    BY <1>1
<1>3. \A k \in 0 .. n : LiveAfter(tr2, th2, ar, k) = LiveAfter(tr, th, ar, k)
    BY <1>1, LiveAfterAppend
<1>4. live = LiveAfter(tr, th, ar, n)
    BY DEF Explained
<1>5. \A k \in 1 .. n : Caused(tr, th, fn, ar, k) /\ (Returns(tr[k]) => th[k] \in ret)
    BY DEF Explained
<1> HIDE DEF tr2, th2, n
<1>6. ASSUME NEW k \in 1 .. n PROVE Caused(tr2, th2, fn, ar, k)
    <2>1. \A j \in 1 .. (k - 1) : j \in 1 .. n
        BY <1>1
    <2>2. LiveAfter(tr2, th2, ar, k - 1) = LiveAfter(tr, th, ar, k - 1)
        <3>1. k - 1 \in 0 .. n
            BY <1>1
        <3> QED
            BY <1>3, <3>1
    <2>3. tr2[k] = tr[k] /\ th2[k] = th[k] /\ \A j \in 1 .. (k - 1) : tr2[j] = tr[j] /\ th2[j] = th[j]
        BY <1>2, <2>1
    <2>4. Caused(tr, th, fn, ar, k)
        BY <1>5
    <2> QED
        BY <2>2, <2>3, <2>4 DEF Caused
<1>7. Caused(tr2, th2, fn, ar, n + 1)
    <2>1. (n + 1) - 1 = n /\ n \in 0 .. n
        BY <1>1
    <2>2. LiveAfter(tr2, th2, ar, n) = live
        BY <1>3, <1>4, <2>1
    <2>3. \A j \in 1 .. n : Returns(tr2[j]) => th2[j] # id
        BY <1>2, <1>5
    <2>4. (\A j \in 1 .. Len(tr) : th[j] # id) => \A j \in 1 .. n : th2[j] # id
        BY <1>2 DEF n
    <2> QED
        BY <1>2, <2>1, <2>2, <2>3, <2>4 DEF Caused
<1>8. \A k \in 1 .. (n + 1) : k \in 1 .. n \/ k = n + 1
    BY <1>1
<1>9. LiveAfter(tr2, th2, ar, n + 1) = IF Returns(e) THEN ar[id] ELSE Append(ar[id], id)
    BY <1>1, <1>2 DEF LiveAfter
<1> QED
    BY <1>2, <1>5, <1>6, <1>7, <1>8, <1>9 DEF Explained, tr2, th2

\* One more call.
LEMMA ExplainedCall ==
    ASSUME NEW tr, NEW th, NEW fn \in Seq(Names), NEW ar \in Seq(Seq(Ids)), NEW ret, NEW live,
           Len(ar) = Len(fn), Explained(tr, th, fn, ar, ret, live), NEW f, NEW a
    PROVE  Explained(tr, th, Append(fn, f), Append(ar, a), ret, live)
<1>1. tr \in Seq(Element) /\ th \in Seq(Ids) /\ Len(th) = Len(tr) /\ Len(tr) \in Nat
    BY DEF Explained
<1>2. \A k \in 1 .. Len(tr) : Caused(tr, th, fn, ar, k)
    BY DEF Explained
<1>3. \A k \in 1 .. Len(tr) : th[k] \in DOMAIN fn
    BY <1>2 DEF Caused
<1>4. ASSUME NEW id \in DOMAIN fn
      PROVE  id \in DOMAIN Append(fn, f) /\ Append(fn, f)[id] = fn[id] /\ Append(ar, a)[id] = ar[id]
    OBVIOUS
<1>5. ASSUME NEW k \in 0 .. Len(tr)
      PROVE  LiveAfter(tr, th, Append(ar, a), k) = LiveAfter(tr, th, ar, k)
    <2>1. k # 0 => Append(ar, a)[th[k]] = ar[th[k]]
        BY <1>1, <1>3, <1>4
    <2> QED
        BY <2>1 DEF LiveAfter
<1>6. ASSUME NEW k \in 1 .. Len(tr) PROVE Caused(tr, th, Append(fn, f), Append(ar, a), k)
    <2>1. k - 1 \in 0 .. Len(tr)
        BY <1>1
    <2>2. LiveAfter(tr, th, Append(ar, a), k - 1) = LiveAfter(tr, th, ar, k - 1)
        BY <1>5, <2>1
    <2>3. /\ th[k] \in DOMAIN Append(fn, f) /\ Append(fn, f)[th[k]] = fn[th[k]]
          /\ Append(ar, a)[th[k]] = ar[th[k]]
        BY <1>3, <1>4
    <2> QED
        BY <1>2, <2>2, <2>3 DEF Caused
<1>7. Len(tr) \in 0 .. Len(tr)
    BY <1>1
<1> QED
    BY <1>5, <1>6, <1>7 DEF Explained

-----------------------------------------------------------------------------
(***************************************************************************)
(* The program.                                                            *)
(***************************************************************************)

ProgramTypes ==
    /\ convention \in Conventions /\ window \in Windows
    /\ calls \in Seq(Ids)
    /\ fnOf \in Seq(Names)
    /\ around \in Seq(Seq(Ids)) /\ Len(around) = Len(fnOf)
    /\ returned \subseteq DOMAIN fnOf

\* What the i innermost-but-last calls leave live in the window.
LiveUpTo(i) ==
    IF i = 0 THEN << >>
    ELSE IF fnOf[calls[i]] \in window THEN Chain(calls[i])
    ELSE around[calls[i]]

CallsInv ==
    /\ \A i \in DOMAIN calls : calls[i] \in DOMAIN fnOf /\ calls[i] \notin returned
    /\ \A i, j \in DOMAIN calls : i # j => calls[i] # calls[j]
    /\ \A i \in DOMAIN calls : around[calls[i]] = LiveUpTo(i - 1)

\* What surrounds a call is in the window, and does not end in its own function.
ChainsInv ==
    \A id \in DOMAIN fnOf :
        /\ \A d \in DOMAIN around[id] :
              around[id][d] \in DOMAIN fnOf /\ fnOf[around[id][d]] \in window
        /\ fnOf[id] \in window /\ around[id] # << >> =>
              fnOf[around[id][Len(around[id])]] # fnOf[id]

\* A call in the window that returned has left its return.
ReturnInv ==
    \A id \in returned : fnOf[id] \in window =>
        \E k \in DOMAIN trace : Returns(trace[k]) /\ truth[k] = id

Live(k) == LiveAfter(trace, truth, around, k)
ProgramInv ==
    /\ ProgramTypes /\ CallsInv /\ ChainsInv /\ ReturnInv
    /\ Explained(trace, truth, fnOf, around, returned, Live(Len(trace)))
    /\ phase = "running" => LiveInWindow = Live(Len(trace))

\* The window holds the code of its functions and of no other.
LEMMA CodeInWindow ==
    ASSUME window \in Windows, NEW f \in Names
    PROVE  InWindow(CodeOf(f)) <=> f \in window
<1>1. window \subseteq Names
    BY ProgramAssumption
<1>2. ASSUME NEW g \in window, CodeOf(f) = CodeOf(g) PROVE f = g
    BY <1>1, <1>2, CodeAssumption
<1> QED
    BY <1>2 DEF InWindow

\* What an instruction or a store leaves.
LEMMA ExecutedElement ==
    ASSUME NEW f \in Names, NEW i \in Mnemonics
    PROVE  /\ Executed(i, f) \in Element /\ Executed(i, f).pc = CodeOf(f)
           /\ Returns(Executed(i, f)) <=> i \in {"cjr", "jalr"}
           /\ IsInstruction(Executed(i, f), {"sw"}) <=> i = "sw"
BY CodeAssumption DEF Executed, Element, Returns, IsInstruction

LEMMA WriteElement ==
    ASSUME NEW f \in Names
    PROVE  LET e == [kind |-> "dwrite", pc |-> CodeOf(f)] IN
           e \in Element /\ e.pc = CodeOf(f) /\ ~ Returns(e)
BY CodeAssumption DEF Element, Returns, IsInstruction

\* No element, one or two.
LEMMA TwoMore ==
    ASSUME NEW S, NEW s \in Seq(S), NEW a \in S, NEW b \in S
    PROVE  s \o <<a, b>> = Append(Append(s, a), b)
OBVIOUS

LEMMA Whose ==
    ASSUME NEW id, NEW a, NEW b
    PROVE  By(id, << >>) = << >> /\ By(id, <<a>>) = <<id>> /\ By(id, <<a, b>>) = <<id, id>>
BY DEF By

\* A call that is live or begins stores something in the window.
LEMMA StoreExplained ==
    ASSUME window \in Windows, "sw" \in Mnemonics,
           NEW tr, NEW th, NEW fn \in Seq(Names), NEW ar, NEW ret, NEW live,
           Explained(tr, th, fn, ar, ret, live),
           NEW id \in DOMAIN fn, fn[id] \in window, id \notin ret,
           \/ live = Append(ar[id], id)
           \/ live = ar[id] /\ \A j \in 1 .. Len(tr) : th[j] # id
    PROVE  Explained(tr \o Store(fn[id]), th \o By(id, Store(fn[id])), fn, ar, ret,
                     Append(ar[id], id))
<1> DEFINE e == Executed("sw", fn[id])
<1> DEFINE d == [kind |-> "dwrite", pc |-> CodeOf(fn[id])]
<1>1. fn[id] \in Names /\ id \in Ids
    BY DEF Ids
<1>2. /\ e \in Element /\ e.pc = CodeOf(fn[id])
      /\ ~ Returns(e) /\ IsInstruction(e, {"sw"})
    BY <1>1, ExecutedElement
<1>3. d \in Element /\ d.pc = CodeOf(fn[id]) /\ ~ Returns(d)
    BY <1>1, WriteElement
<1>4. Store(fn[id]) = <<e, d>>
    BY DEF Store
<1> HIDE DEF e, d
<1>5. Explained(Append(tr, e), Append(th, id), fn, ar, ret, Append(ar[id], id))
    BY <1>1, <1>2, ExplainedAppend
<1>6. Explained(Append(Append(tr, e), d), Append(Append(th, id), id), fn, ar, ret, Append(ar[id], id))
    BY <1>1, <1>3, <1>5, ExplainedAppend
<1>7. tr \in Seq(Element) /\ th \in Seq(Ids)
    BY DEF Explained
<1>8. tr \o <<e, d>> = Append(Append(tr, e), d)
    BY <1>2, <1>3, <1>7, TwoMore
<1>9. th \o By(id, <<e, d>>) = Append(Append(th, id), id)
    <2>1. By(id, <<e, d>>) = <<id, id>>
        BY Whose
    <2>2. th \o <<id, id>> = Append(Append(th, id), id)
        BY <1>1, <1>7, TwoMore
    <2> QED
        BY <2>1, <2>2
<1> QED
    BY <1>4, <1>6, <1>8, <1>9

\* The innermost call.
LEMMA CallerFacts ==
    ASSUME ProgramInv, calls # << >>
    PROVE  /\ Len(calls) \in DOMAIN calls /\ Len(calls) \in Nat
           /\ Caller \in DOMAIN fnOf /\ Caller \in Ids /\ Caller \notin returned
           /\ fnOf[Caller] \in Names
           /\ around[Caller] \in Seq(Ids)
           /\ LiveInWindow = LiveUpTo(Len(calls))
           /\ around[Caller] = LiveUpTo(Len(calls) - 1)
           /\ LiveInWindow = IF fnOf[Caller] \in window THEN Append(around[Caller], Caller)
                             ELSE around[Caller]
<1>1. calls \in Seq(Ids) /\ fnOf \in Seq(Names) /\ around \in Seq(Seq(Ids)) /\ Len(around) = Len(fnOf)
    BY DEF ProgramInv, ProgramTypes
<1>2. Len(calls) \in DOMAIN calls /\ Len(calls) \in Nat /\ Len(calls) # 0
    BY <1>1
<1>3. Caller \in DOMAIN fnOf /\ Caller \notin returned /\ around[Caller] = LiveUpTo(Len(calls) - 1)
    BY <1>2 DEF ProgramInv, CallsInv, Caller
<1>4. fnOf[Caller] \in Names /\ around[Caller] \in Seq(Ids) /\ Caller \in Ids
    BY <1>1, <1>3 DEF Ids
<1>5. LiveInWindow = LiveUpTo(Len(calls))
    BY <1>2 DEF LiveInWindow, LiveUpTo, Caller
<1> QED
    BY <1>2, <1>3, <1>4, <1>5 DEF LiveInWindow, Chain

\* The invariant's sentence about the trace, after a step.
LEMMA ExplainedNext ==
    ASSUME window' = window, NEW l,
           Explained(trace', truth', fnOf', around', returned', l)
    PROVE  /\ Explained(trace, truth, fnOf, around, returned, Live(Len(trace)))'
           /\ Live(Len(trace))' = l
BY DEF Explained, Caused, Live

\* The innermost call executes something that is no return.
LEMMA StoreLive ==
    ASSUME ProgramInv, phase = "running", calls # << >>,
           Emit(Caller, Seen(fnOf[Caller], Store(fnOf[Caller])))
    PROVE  Explained(trace', truth', fnOf, around, returned, LiveInWindow)
<1> DEFINE c == Caller
<1>1. /\ c \in DOMAIN fnOf /\ c \in Ids /\ c \notin returned /\ fnOf[c] \in Names
      /\ LiveInWindow = IF fnOf[c] \in window THEN Append(around[c], c) ELSE around[c]
    BY CallerFacts
<1>2. /\ Explained(trace, truth, fnOf, around, returned, LiveInWindow)
      /\ fnOf \in Seq(Names) /\ window \in Windows
    BY DEF ProgramInv, ProgramTypes
<1>3. InWindow(CodeOf(fnOf[c])) <=> fnOf[c] \in window
    BY <1>1, <1>2, CodeInWindow
<1>4. trace \in Seq(Element) /\ truth \in Seq(Ids)
    BY <1>2 DEF Explained
<1>5. CASE fnOf[c] \in window
    <2>1. /\ trace' = trace \o Store(fnOf[c])
          /\ truth' = truth \o By(c, Store(fnOf[c]))
        BY <1>3, <1>5 DEF Emit, Seen
    <2> HIDE DEF c
    <2> QED
        BY <1>1, <1>2, <1>5, <2>1, StoreExplained, ProgramAssumption
<1>6. CASE fnOf[c] \notin window
    <2>1. trace' = trace \o << >> /\ truth' = truth \o By(c, << >>)
        BY <1>3, <1>6 DEF Emit, Seen
    <2>2. trace' = trace /\ truth' = truth
        BY <1>4, <2>1, Whose, ConcatEmptySeq
    <2> QED
        BY <1>2, <2>2
<1> QED
    BY <1>5, <1>6

\* A longer trace still has the returns.
LEMMA ReturnKept ==
    ASSUME NEW tr \in Seq(Element), NEW th \in Seq(Ids), Len(th) = Len(tr),
           NEW s \in Seq(Element), NEW b \in Seq(Ids),
           NEW id, \E k \in DOMAIN tr : Returns(tr[k]) /\ th[k] = id
    PROVE  \E k \in DOMAIN (tr \o s) : Returns((tr \o s)[k]) /\ (th \o b)[k] = id
<1>1. PICK k \in DOMAIN tr : Returns(tr[k]) /\ th[k] = id
    OBVIOUS
<1>2. k \in DOMAIN (tr \o s) /\ (tr \o s)[k] = tr[k] /\ (th \o b)[k] = th[k]
    OBVIOUS
<1> QED
    BY <1>1, <1>2

\* What the elements of an emission are.
LEMMA EmissionTypes ==
    ASSUME window \in Windows, NEW f \in Names, NEW i \in Mnemonics, NEW id \in Ids, "sw" \in Mnemonics
    PROVE  /\ Seen(f, Store(f)) \in Seq(Element)
           /\ Seen(f, <<Executed(i, f)>>) \in Seq(Element)
           /\ By(id, Seen(f, Store(f))) \in Seq(Ids)
           /\ By(id, Seen(f, <<Executed(i, f)>>)) \in Seq(Ids)
<1> DEFINE d == [kind |-> "dwrite", pc |-> CodeOf(f)]
<1>1. Executed("sw", f) \in Element /\ Executed(i, f) \in Element
    BY ExecutedElement
<1>2. d \in Element
    BY WriteElement
<1>3. Store(f) = <<Executed("sw", f), d>>
    BY DEF Store
<1> HIDE DEF d
<1>4. Store(f) \in Seq(Element) /\ <<Executed(i, f)>> \in Seq(Element) /\ << >> \in Seq(Element)
    BY <1>1, <1>2, <1>3
<1>5. /\ By(id, << >>) = << >> /\ By(id, <<Executed(i, f)>>) = <<id>>
      /\ By(id, Store(f)) = <<id, id>>
    <2>1. By(id, <<Executed("sw", f), d>>) = <<id, id>>
        BY Whose
    <2>2. By(id, << >>) = << >> /\ By(id, <<Executed(i, f)>>) = <<id>>
        BY Whose
    <2> QED
        BY <1>3, <2>1, <2>2
<1>6. << >> \in Seq(Ids) /\ <<id>> \in Seq(Ids) /\ <<id, id>> \in Seq(Ids)
    OBVIOUS
<1> QED
    BY <1>4, <1>5, <1>6 DEF Seen

LEMMA StoreStep == ProgramInv /\ StoreVariable => ProgramInv'
<1> SUFFICES ASSUME ProgramInv, StoreVariable PROVE ProgramInv'
    OBVIOUS
<1>1. phase = "running" /\ calls # << >> /\ Emit(Caller, Seen(fnOf[Caller], Store(fnOf[Caller])))
    BY DEF StoreVariable
<1>2. UNCHANGED <<convention, window, calls, fnOf, around, returned, phase>>
    BY DEF StoreVariable
<1>3. Explained(trace', truth', fnOf, around, returned, LiveInWindow)
    BY <1>1, StoreLive
<1>4. /\ Explained(trace, truth, fnOf, around, returned, Live(Len(trace)))'
      /\ Live(Len(trace))' = LiveInWindow
    <2>1. Explained(trace', truth', fnOf', around', returned', LiveInWindow)
        BY <1>2, <1>3
    <2> QED
        BY <1>2, <2>1, ExplainedNext
<1>5. LiveInWindow' = LiveInWindow
    BY <1>2 DEF LiveInWindow, Caller, Chain
<1>6. ProgramTypes' /\ CallsInv' /\ ChainsInv'
    BY <1>2 DEF ProgramInv, ProgramTypes, CallsInv, ChainsInv, LiveUpTo, Chain
<1>7. ReturnInv'
    <2>1. Caller \in Ids /\ fnOf[Caller] \in Names
        BY <1>1, CallerFacts
    <2>2. /\ trace \in Seq(Element) /\ truth \in Seq(Ids) /\ Len(truth) = Len(trace)
          /\ window \in Windows
        BY DEF ProgramInv, ProgramTypes, Explained
    <2> DEFINE s == Seen(fnOf[Caller], Store(fnOf[Caller]))
    <2>3. s \in Seq(Element) /\ By(Caller, s) \in Seq(Ids)
        BY <2>1, <2>2, EmissionTypes, ProgramAssumption
    <2>4. trace' = trace \o s /\ truth' = truth \o By(Caller, s)
        BY <1>1 DEF Emit
    <2> HIDE DEF s
    <2> QED
        BY <1>2, <2>2, <2>3, <2>4, ReturnKept DEF ProgramInv, ReturnInv
<1> QED
    BY <1>4, <1>5, <1>6, <1>7 DEF ProgramInv

LEMMA ReturnStep ==
    ASSUME CallsAreNoReturns
    PROVE  ProgramInv /\ ReturnFrom => ProgramInv'
<1> SUFFICES ASSUME ProgramInv, ReturnFrom PROVE ProgramInv'
    OBVIOUS
<1> DEFINE c == Caller
<1> DEFINE e == Executed(convention.return, fnOf[c])
<1> DEFINE s == Seen(fnOf[c], <<e>>)
<1>1. /\ phase = "running" /\ calls # << >>
      /\ trace' = trace \o s /\ truth' = truth \o By(c, s)
      /\ calls' = SubSeq(calls, 1, Len(calls) - 1)
      /\ returned' = returned \cup {c}
      /\ UNCHANGED <<convention, window, fnOf, around, phase>>
    BY DEF ReturnFrom, Emit
<1>2. /\ Len(calls) \in DOMAIN calls /\ Len(calls) \in Nat
      /\ c \in DOMAIN fnOf /\ c \in Ids /\ c \notin returned /\ fnOf[c] \in Names
      /\ around[c] \in Seq(Ids) /\ around[c] = LiveUpTo(Len(calls) - 1)
      /\ LiveInWindow = IF fnOf[c] \in window THEN Append(around[c], c) ELSE around[c]
    BY <1>1, CallerFacts
<1>3. /\ Explained(trace, truth, fnOf, around, returned, LiveInWindow)
      /\ trace \in Seq(Element) /\ truth \in Seq(Ids) /\ Len(truth) = Len(trace)
      /\ window \in Windows /\ convention \in Conventions /\ calls \in Seq(Ids)
    BY <1>1 DEF ProgramInv, ProgramTypes, Explained
<1>4. convention.return \in Mnemonics /\ convention.return \in {"cjr", "jalr"}
    BY <1>3, ProgramAssumption DEF CallsAreNoReturns
<1>5. e \in Element /\ e.pc = CodeOf(fnOf[c]) /\ Returns(e)
    BY <1>2, <1>4, ExecutedElement
<1>6. InWindow(CodeOf(fnOf[c])) <=> fnOf[c] \in window
    BY <1>2, <1>3, CodeInWindow
<1>7. s \in Seq(Element) /\ By(c, s) \in Seq(Ids)
    BY <1>2, <1>3, <1>4, EmissionTypes, ProgramAssumption
<1> HIDE DEF e, c
<1>8. fnOf[c] \in window => trace' = Append(trace, e) /\ truth' = Append(truth, c)
    <2>1. ASSUME fnOf[c] \in window
          PROVE  trace' = trace \o <<e>> /\ truth' = truth \o By(c, <<e>>)
        BY <1>1, <1>6, <2>1 DEF Seen
    <2>2. By(c, <<e>>) = <<c>>
        BY Whose
    <2>3. Append(trace, e) = trace \o <<e>> /\ Append(truth, c) = truth \o <<c>>
        <3>1. Append(trace, e) = trace \o <<e>>
            BY <1>3, <1>5, AppendIsConcat
        <3>2. Append(truth, c) = truth \o <<c>>
            BY <1>2, <1>3, AppendIsConcat
        <3> QED
            BY <3>1, <3>2
    <2> QED
        BY <2>1, <2>2, <2>3
<1>9. fnOf[c] \notin window => trace' = trace /\ truth' = truth
    <2>1. ASSUME fnOf[c] \notin window
          PROVE  trace' = trace \o << >> /\ truth' = truth \o By(c, << >>)
        BY <1>1, <1>6, <2>1 DEF Seen
    <2> QED
        BY <1>3, <2>1, Whose, ConcatEmptySeq
<1> HIDE DEF s
<1>10. Explained(trace', truth', fnOf, around, returned', around[c])
    <2>1. CASE fnOf[c] \in window
        <3>1. Explained(Append(trace, e), Append(truth, c), fnOf, around,
                        returned \cup {c}, around[c])
            BY <1>2, <1>3, <1>5, <2>1, ExplainedAppend
        <3> QED
            BY <1>1, <1>8, <2>1, <3>1
    <2>2. CASE fnOf[c] \notin window
        BY <1>1, <1>2, <1>3, <1>9, <2>2 DEF Explained
    <2> QED
        BY <2>1, <2>2
<1>11. /\ Explained(trace, truth, fnOf, around, returned, Live(Len(trace)))'
       /\ Live(Len(trace))' = around[c]
    <2>1. Explained(trace', truth', fnOf', around', returned', around[c])
        BY <1>1, <1>10
    <2> QED
        BY <1>1, <2>1, ExplainedNext
<1>12. /\ Len(calls') = Len(calls) - 1 /\ calls' \in Seq(Ids)
       /\ \A i \in DOMAIN calls' : i \in DOMAIN calls /\ calls'[i] = calls[i] /\ i # Len(calls)
    <2> DEFINE n == Len(calls)
    <2>1. n \in Nat /\ n >= 1 /\ DOMAIN calls = 1 .. n /\ calls' = SubSeq(calls, 1, n - 1)
        BY <1>1, <1>2, <1>3
    <2> HIDE DEF n
    <2>2. Len(calls') = n - 1 /\ calls' \in Seq(Ids) /\ \A i \in 1 .. (n - 1) : calls'[i] = calls[i]
        BY <1>3, <2>1
    <2>3. DOMAIN calls' = 1 .. (n - 1)
        BY <2>1, <2>2
    <2> QED
        BY <2>1, <2>2, <2>3 DEF n
<1>13. LiveInWindow' = around[c]
    <2>1. CASE Len(calls) = 1
        BY <1>2, <1>12, <2>1 DEF LiveInWindow, LiveUpTo
    <2>2. CASE Len(calls) # 1
        <3>1. /\ calls' # << >> /\ Len(calls') # 0
              /\ calls'[Len(calls')] = calls[Len(calls) - 1]
            BY <1>2, <1>12, <2>2
        <3> QED
            BY <1>1, <1>2, <1>12, <3>1 DEF LiveInWindow, LiveUpTo, Caller, Chain
    <2> QED
        BY <2>1, <2>2
<1>14. ProgramTypes'
    BY <1>1, <1>2, <1>12 DEF ProgramInv, ProgramTypes
<1>15. CallsInv'
    <2>1. \A i \in DOMAIN calls' : calls'[i] \in DOMAIN fnOf /\ calls'[i] \notin returned /\ calls'[i] # c
        BY <1>2, <1>12 DEF ProgramInv, CallsInv, c, Caller
    <2>2. \A i, j \in DOMAIN calls' : i # j => calls'[i] # calls'[j]
        BY <1>12 DEF ProgramInv, CallsInv
    <2>3. ASSUME NEW i \in DOMAIN calls' PROVE around[calls'[i]] = LiveUpTo(i - 1)'
        <3>1. around[calls[i]] = LiveUpTo(i - 1)
            BY <1>12 DEF ProgramInv, CallsInv
        <3>2. i \in Nat /\ (i - 1 = 0 \/ i - 1 \in DOMAIN calls')
            BY <1>12
        <3> QED
            BY <1>1, <1>12, <3>1, <3>2 DEF LiveUpTo, Chain
    <2> QED
        BY <1>1, <2>1, <2>2, <2>3 DEF CallsInv
<1>16. ChainsInv'
    BY <1>1 DEF ProgramInv, ChainsInv
<1>17. ReturnInv'
    <2>1. ASSUME NEW id \in returned, fnOf[id] \in window
          PROVE  \E k \in DOMAIN trace' : Returns(trace'[k]) /\ truth'[k] = id
        <3>1. \E k \in DOMAIN trace : Returns(trace[k]) /\ truth[k] = id
            BY <2>1 DEF ProgramInv, ReturnInv
        <3> QED
            BY <1>1, <1>3, <1>7, <3>1, ReturnKept
    <2>2. ASSUME fnOf[c] \in window
          PROVE  \E k \in DOMAIN trace' : Returns(trace'[k]) /\ truth'[k] = c
        <3>1. /\ Len(trace) + 1 \in DOMAIN trace'
              /\ trace'[Len(trace) + 1] = e /\ truth'[Len(trace) + 1] = c
            BY <1>3, <1>8, <2>2
        <3> QED
            BY <1>5, <3>1
    <2> QED
        BY <1>1, <2>1, <2>2 DEF ReturnInv
<1> QED
    BY <1>11, <1>13, <1>14, <1>15, <1>16, <1>17 DEF ProgramInv

\* The caller's jump, if the window shows it.
Jump ==
    IF calls = << >> THEN << >>
    ELSE Seen(fnOf[Caller], << Executed(convention.call, fnOf[Caller]) >>)

LEMMA JumpExplained ==
    ASSUME CallsAreNoReturns, ProgramInv, phase = "running"
    PROVE  /\ Explained(trace \o Jump, truth \o By(Caller, Jump), fnOf, around, returned, LiveInWindow)
           /\ Jump \in Seq(Element) /\ By(Caller, Jump) \in Seq(Ids)
<1>1. /\ Explained(trace, truth, fnOf, around, returned, LiveInWindow)
      /\ trace \in Seq(Element) /\ truth \in Seq(Ids)
      /\ window \in Windows /\ convention \in Conventions
    BY DEF ProgramInv, ProgramTypes, Explained
<1>2. ASSUME Jump = << >>
      PROVE  /\ trace \o Jump = trace /\ truth \o By(Caller, Jump) = truth
             /\ Jump \in Seq(Element) /\ By(Caller, Jump) \in Seq(Ids)
    <2>1. By(Caller, Jump) = << >>
        BY <1>2, Whose
    <2>2. trace \o << >> = trace /\ truth \o << >> = truth
        BY <1>1, ConcatEmptySeq
    <2>3. << >> \in Seq(Element) /\ << >> \in Seq(Ids)
        OBVIOUS
    <2> QED
        BY <1>2, <2>1, <2>2, <2>3
<1>3. CASE calls = << >>
    BY <1>1, <1>2, <1>3 DEF Jump
<1>4. CASE calls # << >>
    <2> DEFINE c == Caller
    <2> DEFINE e == Executed(convention.call, fnOf[c])
    <2>1. /\ c \in DOMAIN fnOf /\ c \in Ids /\ c \notin returned /\ fnOf[c] \in Names
          /\ LiveInWindow = IF fnOf[c] \in window THEN Append(around[c], c) ELSE around[c]
        BY <1>4, CallerFacts
    <2>2. convention.call \in Mnemonics /\ convention.call \notin {"cjr", "jalr"}
        BY <1>1, ProgramAssumption DEF CallsAreNoReturns
    <2>3. e \in Element /\ e.pc = CodeOf(fnOf[c]) /\ ~ Returns(e)
        BY <2>1, <2>2, ExecutedElement
    <2>4. InWindow(CodeOf(fnOf[c])) <=> fnOf[c] \in window
        BY <1>1, <2>1, CodeInWindow
    <2>5. Jump = IF fnOf[c] \in window THEN <<e>> ELSE << >>
        BY <1>4, <2>4 DEF Jump, Seen
    <2> HIDE DEF e
    <2>6. CASE fnOf[c] \in window
        <3>1. Explained(Append(trace, e), Append(truth, c), fnOf, around, returned, Append(around[c], c))
            BY <1>1, <2>1, <2>3, <2>6, ExplainedAppend
        <3>2. By(c, <<e>>) = <<c>>
            BY Whose
        <3>3. trace \o <<e>> = Append(trace, e)
            BY <1>1, <2>3, AppendIsConcat
        <3>4. truth \o <<c>> = Append(truth, c)
            BY <1>1, <2>1, AppendIsConcat
        <3>5. <<e>> \in Seq(Element) /\ <<c>> \in Seq(Ids)
            BY <2>1, <2>3
        <3> QED
            BY <2>1, <2>5, <2>6, <3>1, <3>2, <3>3, <3>4, <3>5
    <2>7. CASE fnOf[c] \notin window
        BY <1>1, <1>2, <2>5, <2>7
    <2> QED
        BY <2>6, <2>7
<1> QED
    BY <1>3, <1>4

LEMMA InvokeExplained ==
    ASSUME CallsAreNoReturns, ProgramInv, phase = "running", NEW f \in Names, Invoke(f)
    PROVE  /\ Explained(trace', truth', fnOf', around', returned,
                        IF f \in window THEN Append(LiveInWindow, Len(fnOf) + 1) ELSE LiveInWindow)
           /\ \A id \in returned :
                 (\E k \in DOMAIN trace : Returns(trace[k]) /\ truth[k] = id)
                 => \E k \in DOMAIN trace' : Returns(trace'[k]) /\ truth'[k] = id
<1> DEFINE id == Len(fnOf) + 1
<1> DEFINE tr == trace \o Jump
<1> DEFINE th == truth \o By(Caller, Jump)
<1> DEFINE s == Seen(f, Store(f))
<1>1. /\ fnOf' = Append(fnOf, f) /\ around' = Append(around, LiveInWindow)
      /\ trace' = tr \o s /\ truth' = th \o By(id, s)
    BY DEF Invoke, Jump
<1>2. /\ fnOf \in Seq(Names) /\ around \in Seq(Seq(Ids)) /\ Len(around) = Len(fnOf)
      /\ returned \subseteq DOMAIN fnOf /\ window \in Windows
    BY DEF ProgramInv, ProgramTypes
<1>3. /\ Explained(tr, th, fnOf, around, returned, LiveInWindow)
      /\ Jump \in Seq(Element) /\ By(Caller, Jump) \in Seq(Ids)
    BY JumpExplained
<1>4. trace \in Seq(Element) /\ truth \in Seq(Ids) /\ Len(truth) = Len(trace)
    BY DEF ProgramInv, Explained
<1> HIDE DEF tr, th
<1>5. tr \in Seq(Element) /\ th \in Seq(Ids) /\ Len(th) = Len(tr)
    BY <1>3 DEF Explained
<1>6. \A j \in 1 .. Len(tr) : th[j] # id
    <2>1. \A j \in 1 .. Len(tr) : th[j] \in DOMAIN fnOf
        BY <1>3 DEF Explained, Caused
    <2>2. id \notin DOMAIN fnOf
        BY <1>2
    <2> QED
        BY <2>1, <2>2
<1>7. Explained(tr, th, fnOf', around', returned, LiveInWindow)
    BY <1>1, <1>2, <1>3, ExplainedCall
<1>8. /\ id \in DOMAIN fnOf' /\ id \in Ids /\ id \notin returned
      /\ fnOf'[id] = f /\ around'[id] = LiveInWindow /\ fnOf' \in Seq(Names)
    BY <1>1, <1>2 DEF Ids
<1>9. InWindow(CodeOf(f)) <=> f \in window
    BY <1>2, CodeInWindow
<1>10. "sw" \in Mnemonics
    BY ProgramAssumption
<1>11. s \in Seq(Element) /\ By(id, s) \in Seq(Ids)
    BY <1>2, <1>8, <1>10, EmissionTypes
<1> HIDE DEF id
<1>12. Explained(trace', truth', fnOf', around', returned,
                 IF f \in window THEN Append(LiveInWindow, id) ELSE LiveInWindow)
    <2>1. CASE f \in window
        <3>1. s = Store(f)
            BY <1>9, <2>1 DEF Seen
        <3>2. Explained(tr \o Store(fnOf'[id]), th \o By(id, Store(fnOf'[id])), fnOf', around',
                        returned, Append(around'[id], id))
            BY <1>2, <1>6, <1>7, <1>8, <1>10, <2>1, StoreExplained
        <3> HIDE DEF s
        <3> QED
            BY <1>1, <1>8, <2>1, <3>1, <3>2
    <2>2. CASE f \notin window
        <3>1. s = << >>
            BY <1>9, <2>2 DEF Seen
        <3> HIDE DEF s
        <3>2. By(id, s) = << >>
            BY <3>1, Whose
        <3>3. tr \o << >> = tr /\ th \o << >> = th
            BY <1>5, ConcatEmptySeq
        <3> QED
            BY <1>1, <1>7, <2>2, <3>1, <3>2, <3>3
    <2> QED
        BY <2>1, <2>2
<1> HIDE DEF s
<1>13. ASSUME NEW r \in returned, \E k \in DOMAIN trace : Returns(trace[k]) /\ truth[k] = r
       PROVE  \E k \in DOMAIN trace' : Returns(trace'[k]) /\ truth'[k] = r
    <2>1. \E k \in DOMAIN tr : Returns(tr[k]) /\ th[k] = r
        <3>1. tr = trace \o Jump /\ th = truth \o By(Caller, Jump)
            BY DEF tr, th
        <3> QED
            BY <1>3, <1>4, <1>13, <3>1, ReturnKept
    <2> QED
        BY <1>1, <1>5, <1>11, <2>1, ReturnKept
<1> QED
    BY <1>12, <1>13 DEF id

LEMMA InvokeStep ==
    ASSUME NoDirectRecursion, CallsAreNoReturns, NEW f \in Names
    PROVE  ProgramInv /\ Invoke(f) => ProgramInv'
<1> SUFFICES ASSUME ProgramInv, Invoke(f) PROVE ProgramInv'
    OBVIOUS
<1> DEFINE id == Len(fnOf) + 1
<1> DEFINE live == LiveInWindow
<1>1. /\ phase = "running" /\ ~ SeemsRecursive(f)
      /\ fnOf' = Append(fnOf, f) /\ around' = Append(around, live)
      /\ calls' = Append(calls, id)
      /\ UNCHANGED <<convention, window, returned, phase>>
    BY DEF Invoke, NoDirectRecursion
<1>2. /\ fnOf \in Seq(Names) /\ around \in Seq(Seq(Ids)) /\ Len(around) = Len(fnOf)
      /\ calls \in Seq(Ids) /\ returned \subseteq DOMAIN fnOf /\ window \in Windows
      /\ convention \in Conventions
    BY DEF ProgramInv, ProgramTypes
<1>3. /\ Explained(trace', truth', fnOf', around', returned,
                   IF f \in window THEN Append(live, id) ELSE live)
      /\ \A r \in returned :
            (\E k \in DOMAIN trace : Returns(trace[k]) /\ truth[k] = r)
            => \E k \in DOMAIN trace' : Returns(trace'[k]) /\ truth'[k] = r
    BY <1>1, InvokeExplained
<1>4. live = LiveUpTo(Len(calls)) /\ live \in Seq(Ids)
    <2>1. CASE calls = << >>
        BY <1>2, <2>1 DEF LiveInWindow, LiveUpTo
    <2>2. CASE calls # << >>
        <3>1. /\ live = LiveUpTo(Len(calls)) /\ around[Caller] \in Seq(Ids) /\ Caller \in Ids
              /\ live = IF fnOf[Caller] \in window THEN Append(around[Caller], Caller)
                        ELSE around[Caller]
            BY <2>2, CallerFacts
        <3> HIDE DEF live
        <3> QED
            BY <3>1
    <2> QED
        BY <2>1, <2>2
<1>5. /\ \A d \in DOMAIN live : live[d] \in DOMAIN fnOf /\ fnOf[live[d]] \in window
      /\ f \in window /\ live # << >> => fnOf[live[Len(live)]] # f
    <2>1. CASE calls = << >>
        BY <2>1 DEF LiveInWindow
    <2>2. CASE calls # << >>
        <3>1. /\ Caller \in DOMAIN fnOf /\ around[Caller] \in Seq(Ids)
              /\ live = IF fnOf[Caller] \in window THEN Append(around[Caller], Caller)
                        ELSE around[Caller]
            BY <2>2, CallerFacts
        <3>2. \A d \in DOMAIN around[Caller] :
                  around[Caller][d] \in DOMAIN fnOf /\ fnOf[around[Caller][d]] \in window
            BY <3>1 DEF ProgramInv, ChainsInv
        <3>3. f \in window /\ live # << >> => fnOf[live[Len(live)]] # f
            BY <1>1 DEF SeemsRecursive
        <3> HIDE DEF live
        <3>4. \A d \in DOMAIN live : live[d] \in DOMAIN fnOf /\ fnOf[live[d]] \in window
            <4>1. CASE fnOf[Caller] \in window
                <5>1. \A d \in DOMAIN live :
                             \/ d \in DOMAIN around[Caller] /\ live[d] = around[Caller][d]
                             \/ live[d] = Caller
                    BY <3>1, <4>1
                <5> QED
                    BY <3>1, <3>2, <4>1, <5>1
            <4>2. CASE fnOf[Caller] \notin window
                BY <3>1, <3>2, <4>2
            <4> QED
                BY <4>1, <4>2
        <3> QED
            BY <3>3, <3>4
    <2> QED
        BY <2>1, <2>2
<1> HIDE DEF live
<1>6. /\ DOMAIN fnOf' = DOMAIN fnOf \cup {id} /\ id \notin DOMAIN fnOf /\ id \in Ids
      /\ fnOf'[id] = f /\ around'[id] = live
      /\ \A i \in DOMAIN fnOf : fnOf'[i] = fnOf[i] /\ around'[i] = around[i]
      /\ fnOf' \in Seq(Names) /\ around' \in Seq(Seq(Ids)) /\ Len(around') = Len(fnOf')
    BY <1>1, <1>2, <1>4 DEF Ids
<1>7. /\ Len(calls') = Len(calls) + 1 /\ calls'[Len(calls) + 1] = id /\ Len(calls) \in Nat
      /\ DOMAIN calls' = 1 .. (Len(calls) + 1) /\ DOMAIN calls = 1 .. Len(calls)
      /\ \A i \in DOMAIN calls : calls'[i] = calls[i]
      /\ calls' \in Seq(Ids) /\ calls' # << >>
    <2>1. calls' = Append(calls, id) /\ calls \in Seq(Ids) /\ id \in Ids
        BY <1>1, <1>2, <1>6
    <2> HIDE DEF id
    <2> QED
        BY <2>1
<1> HIDE DEF id
<1>8. LiveInWindow' = IF f \in window THEN Append(live, id) ELSE live
    BY <1>1, <1>6, <1>7 DEF LiveInWindow, Caller, Chain
<1>9. /\ Explained(trace, truth, fnOf, around, returned, Live(Len(trace)))'
      /\ Live(Len(trace))' = LiveInWindow'
    <2> DEFINE next == IF f \in window THEN Append(live, id) ELSE live
    <2>1. window' = window /\ returned' = returned
        BY <1>1
    <2>2. Explained(trace', truth', fnOf', around', returned, next)
        BY <1>3
    <2>3. LiveInWindow' = next
        BY <1>8
    <2> HIDE DEF next
    <2>4. Explained(trace', truth', fnOf', around', returned', next)
        BY <2>1, <2>2
    <2> QED
        BY <2>1, <2>3, <2>4, ExplainedNext
<1>10. ProgramTypes'
    BY <1>1, <1>2, <1>6, <1>7 DEF ProgramTypes
<1>11. CallsInv'
    <2>1. \A i \in DOMAIN calls : calls[i] \in DOMAIN fnOf /\ calls[i] \notin returned
        BY DEF ProgramInv, CallsInv
    <2>2. ASSUME NEW i \in DOMAIN calls'
          PROVE  calls'[i] \in DOMAIN fnOf' /\ calls'[i] \notin returned
        <3>1. i \in DOMAIN calls \/ i = Len(calls) + 1
            BY <1>7
        <3>2. id \notin returned
            BY <1>2, <1>6
        <3> QED
            BY <1>6, <1>7, <2>1, <3>1, <3>2
    <2>3. \A i, j \in DOMAIN calls' : i # j => calls'[i] # calls'[j]
        <3>1. \A i, j \in DOMAIN calls : i # j => calls[i] # calls[j]
            BY DEF ProgramInv, CallsInv
        <3>2. \A i \in DOMAIN calls : calls'[i] = calls[i] /\ calls'[i] # id
            BY <1>6, <1>7, <2>1
        <3>3. ASSUME NEW i \in DOMAIN calls', i \notin DOMAIN calls PROVE i = Len(calls) + 1
            BY <1>7, <3>3
        <3>4. calls'[Len(calls) + 1] = id
            BY <1>7
        <3> QED
            BY <3>1, <3>2, <3>3, <3>4
    <2>4. ASSUME NEW i \in 0 .. Len(calls) PROVE LiveUpTo(i)' = LiveUpTo(i)
        <3>1. i # 0 => calls'[i] = calls[i] /\ calls[i] \in DOMAIN fnOf
            BY <1>7, <2>1
        <3> QED
            BY <1>1, <1>6, <3>1 DEF LiveUpTo, Chain
    <2>5. ASSUME NEW i \in DOMAIN calls' PROVE around'[calls'[i]] = LiveUpTo(i - 1)'
        <3>1. i - 1 \in 0 .. Len(calls) /\ LiveUpTo(i - 1)' = LiveUpTo(i - 1)
            BY <1>7, <2>4
        <3>2. CASE i \in DOMAIN calls
            BY <1>6, <1>7, <2>1, <3>1, <3>2 DEF ProgramInv, CallsInv
        <3>3. CASE i \notin DOMAIN calls
            <4>1. i = Len(calls) + 1 /\ i - 1 = Len(calls)
                BY <1>7, <3>3
            <4> QED
                BY <1>4, <1>6, <1>7, <3>1, <4>1
        <3> QED
            BY <3>2, <3>3
    <2> QED
        BY <1>1, <2>2, <2>3, <2>5 DEF CallsInv
<1>12. ChainsInv'
    <2>1. ASSUME NEW i \in DOMAIN fnOf'
          PROVE  /\ \A d \in DOMAIN around'[i] :
                       around'[i][d] \in DOMAIN fnOf' /\ fnOf'[around'[i][d]] \in window
                 /\ fnOf'[i] \in window /\ around'[i] # << >> =>
                       fnOf'[around'[i][Len(around'[i])]] # fnOf'[i]
        <3>1. CASE i = id
            <4>1. live # << >> => Len(live) \in DOMAIN live
                BY <1>4
            <4> QED
                BY <1>5, <1>6, <3>1, <4>1
        <3>2. CASE i \in DOMAIN fnOf
            <4>1. /\ \A d \in DOMAIN around[i] :
                        around[i][d] \in DOMAIN fnOf /\ fnOf[around[i][d]] \in window
                  /\ fnOf[i] \in window /\ around[i] # << >> =>
                        fnOf[around[i][Len(around[i])]] # fnOf[i]
                BY <3>2 DEF ProgramInv, ChainsInv
            <4>2. around[i] \in Seq(Ids)
                BY <1>2, <3>2
            <4>3. around[i] # << >> => Len(around[i]) \in DOMAIN around[i]
                BY <4>2
            <4> QED
                BY <1>6, <3>2, <4>1, <4>3
        <3> QED
            BY <1>6, <3>1, <3>2
    <2> QED
        BY <1>1, <2>1 DEF ChainsInv
<1>13. ReturnInv'
    <2>1. ASSUME NEW r \in returned, fnOf'[r] \in window
          PROVE  \E k \in DOMAIN trace' : Returns(trace'[k]) /\ truth'[k] = r
        <3>1. fnOf[r] \in window
            BY <1>2, <1>6, <2>1
        <3> QED
            BY <1>3, <3>1 DEF ProgramInv, ReturnInv
    <2> QED
        BY <1>1, <2>1 DEF ReturnInv
<1> QED
    BY <1>9, <1>10, <1>11, <1>12, <1>13 DEF ProgramInv

\* The program's invariant, through the simulation and the merging after it.
LEMMA ProgramStep ==
    ASSUME NoDirectRecursion, CallsAreNoReturns
    PROVE  ProgramInv /\ [ProgramNext]_allVars => ProgramInv'
<1> SUFFICES ASSUME ProgramInv, [ProgramNext]_allVars PROVE ProgramInv'
    OBVIOUS
<1>1. ASSUME UNCHANGED <<program, trace>>, phase' = "running" => phase = "running"
      PROVE  ProgramInv'
    <2>1. ProgramTypes' /\ CallsInv' /\ ChainsInv' /\ ReturnInv'
        BY <1>1 DEF program, ProgramInv, ProgramTypes, CallsInv, LiveUpTo, Chain, ChainsInv, ReturnInv
    <2>2. LiveInWindow' = LiveInWindow /\ Live(Len(trace))' = Live(Len(trace))
        BY <1>1 DEF program, LiveInWindow, Caller, Chain, Live
    <2>3. Explained(trace, truth, fnOf, around, returned, Live(Len(trace)))'
        <3>1. Explained(trace', truth', fnOf', around', returned', Live(Len(trace)))
            BY <1>1 DEF program, ProgramInv
        <3> QED
            BY <1>1, <3>1, ExplainedNext DEF program
    <2> QED
        BY <1>1, <2>1, <2>2, <2>3 DEF ProgramInv
<1>2. CASE \E f \in Names : Invoke(f)
    BY <1>2, InvokeStep
<1>3. CASE StoreVariable
    BY <1>3, StoreStep
<1>4. CASE ReturnFrom
    BY <1>4, ReturnStep
<1>5. CASE EndSimulation
    BY <1>1, <1>5 DEF EndSimulation
<1>6. CASE Merge
    <2>1. trace' = trace
        BY <1>6 DEF Merge, Next, Step, AppendPrologue, EnterNested, ExceedRecursion, ReachEpilogue,
                    SwallowCjr, CloseEntry, FailToLocate, DataWrite, DataRead, Skip, EndOfTrace,
                    Stopped, KeepResults, vars
    <2>2. phase' # "running" \/ phase' = phase
        BY <1>6 DEF Merge, Next, Step, AppendPrologue, EnterNested, ExceedRecursion, ReachEpilogue,
                    SwallowCjr, CloseEntry, FailToLocate, DataWrite, DataRead, Skip, EndOfTrace,
                    Stopped, Return, vars
    <2> QED
        BY <1>1, <1>6, <2>1, <2>2 DEF Merge
<1>7. CASE UNCHANGED allVars
    BY <1>1, <1>7 DEF allVars, vars
<1> QED
    BY <1>2, <1>3, <1>4, <1>5, <1>6, <1>7 DEF ProgramNext

LEMMA ProgramStarts == ProgramInit => ProgramInv
<1> SUFFICES ASSUME ProgramInit PROVE ProgramInv
    OBVIOUS
<1>1. ProgramTypes
    BY DEF ProgramInit, ProgramTypes
<1>2. CallsInv /\ ChainsInv /\ ReturnInv
    BY DEF ProgramInit, CallsInv, ChainsInv, ReturnInv
<1>3. LiveInWindow = << >> /\ Live(Len(trace)) = << >>
    BY DEF ProgramInit, LiveInWindow, Live, LiveAfter
<1>4. Explained(trace, truth, fnOf, around, returned, << >>)
    BY DEF ProgramInit, Explained, LiveAfter
<1> QED
    BY <1>1, <1>2, <1>3, <1>4 DEF ProgramInv

-----------------------------------------------------------------------------
(***************************************************************************)
(* The merger, reading such a trace.                                       *)
(***************************************************************************)

\* The d-th open entry is that of the d-th live call.
FrameOf(e, live, d) ==
    /\ Owners(e) = {live[d]}
    /\ e.function_name = fnOf[live[d]]
    /\ e.invoke_chain = [k \in 1 .. d |-> fnOf[live[k]]]

\* The open entries are those of the live calls, all of them while the trace
\* goes on; between two outermost calls there is an empty one.
Expected == IF phase = "epilogue" THEN Chain(truth[pos]) ELSE Live(pos)
AlignInv ==
    /\ phase \in {"read", "epilogue"} =>
          \/ stack = <<NewEntry>> /\ phase = "read" /\ (More => Expected = << >>)
          \/ /\ Len(stack) <= Len(Expected)
             /\ More \/ phase = "epilogue" => Len(stack) = Len(Expected)
             /\ \A d \in DOMAIN stack : FrameOf(stack[d], Expected, d)
    /\ phase = "epilogue" => pos > 0 /\ Returns(trace[pos]) /\ pos \in Top.epilogue

\* What the program says of the next element.
LEMMA ElementFacts ==
    ASSUME ProgramInv, NEW k \in 1 .. Len(trace)
    PROVE  LET id == truth[k] IN
           /\ k \in Nat /\ k - 1 \in Nat
           /\ id \in DOMAIN fnOf /\ id \in Ids /\ id \in Traced /\ fnOf[id] \in Names /\ fnOf[id] # NoName
           /\ EnclosingSubprogram(trace[k].pc) = fnOf[id]
           /\ around[id] \in Seq(Ids) /\ Chain(id) \in Seq(Ids)
           /\ Live(k) = IF Returns(trace[k]) THEN around[id] ELSE Chain(id)
           /\ \/ /\ \A j \in 1 .. (k - 1) : truth[j] # id
                 /\ IsInstruction(trace[k], {"sw"}) /\ ~ Returns(trace[k])
                 /\ Live(k - 1) = around[id]
              \/ Live(k - 1) = Chain(id)
           /\ \A j \in 1 .. (k - 1) : Returns(trace[j]) => truth[j] # id
           /\ around[id] # << >> => fnOf[around[id][Len(around[id])]] # fnOf[id]
<1> DEFINE id == truth[k]
<1>1. /\ Caused(trace, truth, fnOf, around, k) /\ trace \in Seq(Element) /\ truth \in Seq(Ids)
      /\ Len(truth) = Len(trace)
    BY DEF ProgramInv, Explained
<1>2. fnOf \in Seq(Names) /\ around \in Seq(Seq(Ids)) /\ Len(around) = Len(fnOf)
    BY DEF ProgramInv, ProgramTypes
<1>3. k \in Nat /\ k - 1 \in Nat /\ k # 0
    BY <1>1
<1>4. /\ id \in DOMAIN fnOf /\ fnOf[id] \in window /\ trace[k].pc = CodeOf(fnOf[id])
      /\ \A j \in 1 .. (k - 1) : Returns(trace[j]) => truth[j] # id
    BY <1>1 DEF Caused
<1>5. id \in Ids /\ id \in Traced /\ fnOf[id] \in Names /\ fnOf[id] # NoName
    BY <1>1, <1>2, <1>4, SubprogramsAssumption DEF Traced, Invocations
<1>6. EnclosingSubprogram(trace[k].pc) = fnOf[id]
    BY <1>4, <1>5, CodeAssumption
<1>7. around[id] \in Seq(Ids) /\ Chain(id) \in Seq(Ids)
    BY <1>2, <1>4, <1>5 DEF Chain
<1>8. Live(k) = IF Returns(trace[k]) THEN around[id] ELSE Chain(id)
    BY <1>3 DEF Live, LiveAfter, Chain
<1>9. \/ /\ \A j \in 1 .. (k - 1) : truth[j] # id
         /\ IsInstruction(trace[k], {"sw"})
         /\ Live(k - 1) = around[id]
      \/ Live(k - 1) = Chain(id)
    BY <1>1 DEF Caused, Live, Chain
<1>10. IsInstruction(trace[k], {"sw"}) => ~ Returns(trace[k])
    BY DEF IsInstruction, Returns
<1>11. around[id] # << >> => fnOf[around[id][Len(around[id])]] # fnOf[id]
    BY <1>4 DEF ProgramInv, ChainsInv
<1> QED
    BY <1>3, <1>4, <1>5, <1>6, <1>7, <1>8, <1>9, <1>10, <1>11

\* The innermost live call of a chain.
LEMMA ChainLast ==
    ASSUME NEW id, around[id] \in Seq(Ids), id \in Ids
    PROVE  /\ Len(Chain(id)) = Len(around[id]) + 1 /\ Len(around[id]) \in Nat
           /\ Chain(id)[Len(Chain(id))] = id /\ Chain(id) # << >>
           /\ \A d \in 1 .. Len(around[id]) : Chain(id)[d] = around[id][d]
BY DEF Chain

\* Replacing the innermost entry by that of the innermost live call.
LEMMA FramesUpdate ==
    ASSUME TypeOK, stack # << >>, NEW e \in Entry, UpdateTop(e), NEW live,
           Len(stack) = Len(live),
           \A d \in DOMAIN stack : d # Len(stack) => FrameOf(stack[d], live, d),
           FrameOf(e, live, Len(live))
    PROVE  /\ Len(stack') = Len(live)
           /\ \A d \in DOMAIN stack' : FrameOf(stack'[d], live, d)
<1>1. stack \in Seq(Entry)
    BY DEF TypeOK
<1>2. /\ stack' \in Seq(Entry) /\ Len(stack') = Len(stack) /\ stack'[Len(stack)] = e
      /\ \A d \in DOMAIN stack : d # Len(stack) => stack'[d] = stack[d]
    BY <1>1, UpdateTopStack
<1>3. DOMAIN stack' = DOMAIN stack
    BY <1>1, <1>2
<1> QED
    BY <1>2, <1>3

\* One frame more, for a call inside the live ones.
LEMMA FramesPush ==
    ASSUME stack \in Seq(Entry), NEW e \in Entry, stack' = Append(stack, e),
           NEW live \in Seq(Ids), NEW id, Len(stack) = Len(live),
           \A d \in DOMAIN stack : FrameOf(stack[d], live, d),
           FrameOf(e, Append(live, id), Len(live) + 1)
    PROVE  /\ Len(stack') = Len(Append(live, id))
           /\ \A d \in DOMAIN stack' : FrameOf(stack'[d], Append(live, id), d)
<1>1. /\ Len(stack') = Len(live) + 1 /\ Len(Append(live, id)) = Len(live) + 1
      /\ stack'[Len(live) + 1] = e /\ DOMAIN stack' = 1 .. (Len(live) + 1)
      /\ \A d \in 1 .. Len(live) : stack'[d] = stack[d] /\ Append(live, id)[d] = live[d]
      /\ DOMAIN stack = 1 .. Len(live) /\ Len(live) \in Nat
    OBVIOUS
<1>2. ASSUME NEW d \in 1 .. Len(live) PROVE FrameOf(stack'[d], Append(live, id), d)
    <2>1. \A k \in 1 .. d : Append(live, id)[k] = live[k]
        BY <1>1
    <2>2. [k \in 1 .. d |-> fnOf[Append(live, id)[k]]] = [k \in 1 .. d |-> fnOf[live[k]]]
        BY <2>1
    <2>3. FrameOf(stack[d], live, d)
        BY <1>1
    <2> QED
        BY <1>1, <2>2, <2>3 DEF FrameOf
<1>3. \A d \in DOMAIN stack' : d \in 1 .. Len(live) \/ d = Len(live) + 1
    BY <1>1
<1> QED
    BY <1>1, <1>2, <1>3

\* A prefix of the frames are those of a prefix of the live calls.
LEMMA FramesPrefix ==
    ASSUME NEW s, NEW n \in Nat, NEW live, NEW less,
           \A d \in 1 .. n : less[d] = live[d],
           \A d \in 1 .. n : FrameOf(s[d], live, d)
    PROVE  \A d \in 1 .. n : FrameOf(s[d], less, d)
<1> SUFFICES ASSUME NEW d \in 1 .. n PROVE FrameOf(s[d], less, d)
    OBVIOUS
<1>1. \A k \in 1 .. d : less[k] = live[k]
    OBVIOUS
<1>2. [k \in 1 .. d |-> fnOf[less[k]]] = [k \in 1 .. d |-> fnOf[live[k]]]
    BY <1>1
<1>3. FrameOf(s[d], live, d) /\ less[d] = live[d]
    OBVIOUS
<1> QED
    BY <1>2, <1>3 DEF FrameOf

\* A sequence and one more.
LEMMA OneMore ==
    ASSUME NEW S, NEW s \in Seq(S), NEW e \in S
    PROVE  /\ Append(s, e) \in Seq(S)
           /\ \A d \in DOMAIN Append(s, e) :
                 Append(s, e)[d] = e \/ (d \in DOMAIN s /\ Append(s, e)[d] = s[d])
<1> DEFINE t == Append(s, e)
<1>1. t[Len(s) + 1] = e /\ t \in Seq(S)
    OBVIOUS
<1>2. \A d \in 1 .. Len(s) : d \in DOMAIN s /\ t[d] = s[d]
    OBVIOUS
<1>3. \A d \in DOMAIN t : d \in 1 .. Len(s) \/ d = Len(s) + 1
    OBVIOUS
<1> HIDE DEF t
<1>4. \A d \in DOMAIN t : t[d] = e \/ (d \in DOMAIN s /\ t[d] = s[d])
    BY <1>1, <1>2, <1>3
<1> QED
    BY <1>1, <1>4 DEF t

LEMMA SequenceIsFunction ==
    ASSUME NEW S, NEW s \in Seq(S), NEW D, DOMAIN s = D
    PROVE  s = [k \in D |-> s[k]]
OBVIOUS

\* All live calls have their frames, and no other.
FramesAre(s, live) ==
    /\ Len(s) = Len(live)
    /\ \A d \in DOMAIN s : FrameOf(s[d], live, d)

\* The next element is the first of its call, which was made inside the calls
\* whose entries are open, or it belongs to the innermost open entry.
Begins(id) ==
    /\ IsInstruction(Next_e, {"sw"}) /\ ~ Returns(Next_e)
    /\ \A j \in 1 .. pos : truth[j] # id
BeginsOutermost(id) == Begins(id) /\ stack = <<NewEntry>> /\ around[id] = << >>
BeginsInside(id) ==
    /\ Begins(id) /\ around[id] # << >> /\ FramesAre(stack, around[id])
    /\ Top.function_name \in Names \ {fnOf[id]}
GoesOn(id) ==
    /\ FramesAre(stack, Chain(id))
    /\ Top.function_name = fnOf[id] /\ Owners(Top) = {id}

LEMMA NextBelongs ==
    ASSUME ProgramInv, TypeOK, AlignInv, phase = "read", More
    PROVE  LET id == truth[At] IN
           BeginsOutermost(id) \/ BeginsInside(id) \/ GoesOn(id)
<1> DEFINE id == truth[At]
<1>1. At \in 1 .. Len(trace) /\ At - 1 = pos /\ Next_e = trace[At] /\ pos \in Nat
    BY NextElement DEF TypeOK
<1>2. stack \in Seq(Entry) /\ stack # << >> /\ Len(stack) \in Nat /\ Len(stack) > 0
    BY DEF TypeOK
<1>3. /\ id \in Ids /\ around[id] \in Seq(Ids) /\ Chain(id) \in Seq(Ids)
      /\ \/ Begins(id) /\ Live(pos) = around[id]
         \/ Live(pos) = Chain(id)
      /\ around[id] # << >> => fnOf[around[id][Len(around[id])]] # fnOf[id]
    <2>1. LET i == truth[At] IN
          /\ i \in Ids /\ around[i] \in Seq(Ids) /\ Chain(i) \in Seq(Ids)
          /\ \/ /\ \A j \in 1 .. (At - 1) : truth[j] # i
                /\ IsInstruction(trace[At], {"sw"}) /\ ~ Returns(trace[At])
                /\ Live(At - 1) = around[i]
             \/ Live(At - 1) = Chain(i)
          /\ around[i] # << >> => fnOf[around[i][Len(around[i])]] # fnOf[i]
        BY <1>1, ElementFacts
    <2> QED
        BY <1>1, <2>1 DEF Begins
<1>4. Chain(id) # << >> /\ Chain(id)[Len(Chain(id))] = id
    BY <1>3, ChainLast
<1>5. \/ stack = <<NewEntry>> /\ Live(pos) = << >>
      \/ FramesAre(stack, Live(pos)) /\ Live(pos) # << >>
    <2>1. Expected = Live(pos)
        BY DEF Expected
    <2>2. CASE stack = <<NewEntry>> /\ (More => Expected = << >>)
        BY <2>1, <2>2
    <2>3. CASE /\ More \/ phase = "epilogue" => Len(stack) = Len(Expected)
               /\ \A d \in DOMAIN stack : FrameOf(stack[d], Expected, d)
        <3>1. Len(Live(pos)) = Len(stack)
            BY <2>1, <2>3
        <3>2. Live(pos) # << >>
            BY <1>2, <3>1
        <3> QED
            BY <2>1, <2>3, <3>1, <3>2 DEF FramesAre
    <2> QED
        BY <2>2, <2>3 DEF AlignInv
<1>6. ASSUME FramesAre(stack, Live(pos)), Live(pos) # << >>
      PROVE  FrameOf(Top, Live(pos), Len(Live(pos)))
    <2>1. Len(stack) \in DOMAIN stack /\ Len(stack) = Len(Live(pos))
        BY <1>2, <1>6 DEF FramesAre
    <2> QED
        BY <1>6, <2>1 DEF FramesAre, Top
<1>7. CASE Live(pos) = Chain(id)
    <2>1. FramesAre(stack, Chain(id)) /\ FrameOf(Top, Chain(id), Len(Chain(id)))
        BY <1>4, <1>5, <1>6, <1>7
    <2> QED
        BY <1>4, <2>1 DEF GoesOn, FrameOf
<1>8. CASE Begins(id) /\ Live(pos) = around[id]
    <2>1. CASE stack = <<NewEntry>> /\ Live(pos) = << >>
        BY <1>8, <2>1 DEF BeginsOutermost
    <2>2. CASE FramesAre(stack, Live(pos)) /\ Live(pos) # << >>
        <3>1. Top.function_name = fnOf[around[id][Len(around[id])]]
            BY <1>6, <1>8, <2>2 DEF FrameOf
        <3>2. fnOf[around[id][Len(around[id])]] \in Names
            <4>1. Len(around[id]) \in DOMAIN around[id]
                BY <1>3, <1>8, <2>2
            <4>2. id \in DOMAIN fnOf
                BY <1>1, ElementFacts
            <4>3. around[id][Len(around[id])] \in DOMAIN fnOf
                BY <4>1, <4>2 DEF ProgramInv, ChainsInv
            <4> QED
                BY <4>3 DEF ProgramInv, ProgramTypes
        <3> QED
            BY <1>3, <1>8, <2>2, <3>1, <3>2 DEF BeginsInside
    <2> QED
        BY <1>5, <2>1, <2>2
<1> QED
    BY <1>3, <1>7, <1>8

\* An entry that takes an element of its own call.
LEMMA OwnersTake ==
    ASSUME NEW e, NEW f, NEW id, NEW k, truth[k] = id,
           Owners(e) \subseteq {id}, Claimed(f) = Claimed(e) \cup {k}
    PROVE  Owners(f) = {id}
<1>1. \A j \in Claimed(e) : truth[j] = id
    BY DEF Owners
<1> QED
    BY <1>1 DEF Owners

\* As many calls are live as a sequence can hold.
LEMMA LiveLength ==
    ASSUME ProgramInv, NEW k \in 0 .. Len(trace)
    PROVE  Len(Live(k)) \in Nat
<1>1. CASE k = 0
    BY <1>1 DEF Live, LiveAfter
<1>2. CASE k # 0
    <2>1. k \in 1 .. Len(trace)
        BY <1>2
    <2>2. Live(k) \in Seq(Ids)
        <3>1. /\ around[truth[k]] \in Seq(Ids) /\ Chain(truth[k]) \in Seq(Ids)
              /\ Live(k) = IF Returns(trace[k]) THEN around[truth[k]] ELSE Chain(truth[k])
            BY <2>1, ElementFacts
        <3> QED
            BY <3>1
    <2> QED
        BY <2>2
<1> QED
    BY <1>1, <1>2

\* What a read leaves: the entries of the calls that are live now, the element
\* in the innermost.
Took(id) ==
    /\ stack' \in Seq(Entry) /\ FramesAre(stack', Chain(id))
    /\ \/ phase' = "read" /\ ~ Returns(Next_e)
       \/ phase' = "epilogue" /\ Returns(Next_e) /\ At \in stack'[Len(stack')].epilogue
    /\ \A d \in DOMAIN stack' :
          \/ stack'[d].epilogue = {}
          \/ d \in DOMAIN stack /\ stack'[d].epilogue = stack[d].epilogue
          \/ /\ Returns(Next_e) /\ d \in DOMAIN stack
             /\ stack'[d].epilogue = stack[d].epilogue \cup {At}

\* The innermost entry takes an element of its call.
LEMMA TopTakes ==
    ASSUME TypeOK, stack # << >>, NEW id, around[id] \in Seq(Ids), id \in Ids, truth[At] = id,
           GoesOn(id), NEW e \in Entry, UpdateTop(e),
           Claimed(e) = Claimed(Top) \cup {At},
           e.function_name = Top.function_name, e.invoke_chain = Top.invoke_chain
    PROVE  /\ stack' \in Seq(Entry) /\ FramesAre(stack', Chain(id))
           /\ Len(stack') = Len(stack) /\ stack'[Len(stack)] = e
           /\ DOMAIN stack' = DOMAIN stack
           /\ \A d \in DOMAIN stack : d # Len(stack) => stack'[d] = stack[d]
<1>1. stack \in Seq(Entry)
    BY DEF TypeOK
<1>2. Len(stack) = Len(Chain(id)) /\ Len(stack) \in DOMAIN stack
    BY <1>1 DEF GoesOn, FramesAre
<1>3. FrameOf(Top, Chain(id), Len(Chain(id)))
    BY <1>2 DEF GoesOn, FramesAre, Top
<1>4. Owners(e) = {id}
    <2>1. Owners(Top) \subseteq {id}
        BY DEF GoesOn
    <2> QED
        BY <2>1, OwnersTake
<1>5. Chain(id)[Len(Chain(id))] = id
    BY ChainLast
<1>6. FrameOf(e, Chain(id), Len(Chain(id)))
    BY <1>3, <1>4, <1>5 DEF FrameOf
<1>7. \A d \in DOMAIN stack : d # Len(stack) => FrameOf(stack[d], Chain(id), d)
    BY DEF GoesOn, FramesAre
<1>8. FramesAre(stack', Chain(id))
    BY <1>2, <1>6, <1>7, FramesUpdate DEF FramesAre
<1>9. /\ stack' \in Seq(Entry) /\ Len(stack') = Len(stack) /\ stack'[Len(stack)] = e
      /\ \A d \in DOMAIN stack : d # Len(stack) => stack'[d] = stack[d]
    BY <1>1, UpdateTopStack
<1> QED
    BY <1>1, <1>8, <1>9

\* One lemma per operation that reads.
LEMMA PrologueTakes ==
    ASSUME ProgramInv, TypeOK, MergeInv, AlignInv, AppendPrologue
    PROVE  Took(truth[At])
<1> DEFINE id == truth[At]
<1>1. phase = "read" /\ More /\ phase' = phase /\ SameFunction
    BY DEF AppendPrologue, PrologueElement
<1>2. /\ At \in 1 .. Len(trace) /\ At \in Nat /\ Next_e = trace[At]
      /\ stack \in Seq(Entry) /\ stack # << >>
    BY <1>1, NextElement DEF TypeOK
<1>3. /\ id \in Ids /\ around[id] \in Seq(Ids) /\ fnOf[id] \in Names /\ fnOf[id] # NoName
      /\ EnclosingSubprogram(Next_e.pc) = fnOf[id]
    BY <1>2, ElementFacts
<1>4. Top \in Entry /\ Len(stack) \in DOMAIN stack
    BY <1>2, TopType
<1>5. BeginsOutermost(id) \/ BeginsInside(id) \/ GoesOn(id)
    BY <1>1, NextBelongs
<1> DEFINE e == [Top EXCEPT !.function_name = EnclosingSubprogram(Next_e.pc),
                            !.invoke_chain = NamedChain(EnclosingSubprogram(Next_e.pc)),
                            !.prologue = @ \cup {At}]
<1>6. UpdateTop(e)
    BY DEF AppendPrologue
<1>7. NamedChain(fnOf[id]) \in Seq(Names)
    BY <1>3, <1>4, EntryUpdates DEF NamedChain
<1>8. /\ e \in Entry
      /\ e.function_name = fnOf[id] /\ e.invoke_chain = NamedChain(fnOf[id])
      /\ e.prologue = Top.prologue \cup {At} /\ e.epilogue = Top.epilogue
      /\ e.dwrites = Top.dwrites /\ e.dreads = Top.dreads
    BY <1>2, <1>3, <1>4, <1>7 DEF Entry
<1> HIDE DEF e
<1>9. Claimed(e) = Claimed(Top) \cup {At}
    BY <1>8 DEF Claimed, Registers, Accesses
<1>10. ~ Returns(Next_e)
    BY DEF AppendPrologue, PrologueElement, IsInstruction, Returns
<1>11. ~ BeginsInside(id)
    BY <1>1, <1>3, SubprogramsAssumption DEF BeginsInside, SameFunction
<1>12. Top.epilogue = {}
    BY <1>1 DEF MergeInv, OpenInv
<1>13. CASE GoesOn(id)
    <2>1. e.function_name = Top.function_name /\ e.invoke_chain = Top.invoke_chain
        BY <1>3, <1>8, <1>13 DEF GoesOn, NamedChain
    <2>2. /\ stack' \in Seq(Entry) /\ FramesAre(stack', Chain(id))
          /\ stack'[Len(stack)] = e /\ DOMAIN stack' = DOMAIN stack
          /\ \A d \in DOMAIN stack : d # Len(stack) => stack'[d] = stack[d]
        BY <1>2, <1>3, <1>6, <1>8, <1>9, <1>13, <2>1, TopTakes
    <2> QED
        BY <1>1, <1>8, <1>10, <1>12, <2>2 DEF Took
<1>14. CASE BeginsOutermost(id)
    <2>1. stack = <<NewEntry>> /\ around[id] = << >>
        BY <1>14 DEF BeginsOutermost
    <2>2. Top = NewEntry /\ Len(stack) = 1
        BY <2>1 DEF Top
    <2>3. Claimed(NewEntry) = {} /\ NewEntry.function_name = NoName /\ NewEntry.invoke_chain = << >>
        BY DEF NewEntry, Claimed, Registers, Accesses
    <2>4. Owners(e) = {id}
        BY <1>9, <2>2, <2>3 DEF Owners
    <2>5. Chain(id) = <<id>>
        BY <2>1 DEF Chain
    <2>6. e.invoke_chain = <<fnOf[id]>>
        BY <1>8, <2>2, <2>3 DEF NamedChain
    <2>7. FrameOf(e, Chain(id), 1)
        BY <1>8, <2>4, <2>5, <2>6 DEF FrameOf
    <2>8. stack' = <<e>>
        BY <1>6, <2>1, <2>2 DEF UpdateTop
    <2>9. FramesAre(stack', Chain(id))
        BY <2>5, <2>7, <2>8 DEF FramesAre
    <2> QED
        BY <1>1, <1>8, <1>10, <1>12, <2>8, <2>9 DEF Took
<1> QED
    BY <1>5, <1>11, <1>13, <1>14

LEMMA NestedTakesIt ==
    ASSUME ProgramInv, TypeOK, MergeInv, AlignInv, EnterNested
    PROVE  Took(truth[At])
<1> DEFINE id == truth[At]
<1>1. phase = "read" /\ More /\ phase' = phase /\ ~ SameFunction
    BY DEF EnterNested, PrologueElement
<1>2. /\ At \in 1 .. Len(trace) /\ At \in Nat /\ Next_e = trace[At]
      /\ stack \in Seq(Entry) /\ stack # << >>
    BY <1>1, NextElement DEF TypeOK
<1>3. /\ id \in Ids /\ around[id] \in Seq(Ids) /\ fnOf[id] \in Names
      /\ EnclosingSubprogram(Next_e.pc) = fnOf[id]
    BY <1>2, ElementFacts
<1>4. Top \in Entry /\ Len(stack) \in DOMAIN stack /\ Top = stack[Len(stack)]
    BY <1>2, TopType
<1>5. BeginsInside(id)
    <2>1. ~ GoesOn(id)
        BY <1>1, <1>3 DEF GoesOn, SameFunction
    <2>2. ~ BeginsOutermost(id)
        <3>1. stack = <<NewEntry>> => Top.function_name = NoName
            BY DEF Top, NewEntry
        <3> QED
            BY <1>1, <3>1 DEF BeginsOutermost, SameFunction
    <2> QED
        BY <1>1, <2>1, <2>2, NextBelongs
<1> DEFINE e == NestedEntry(fnOf[id])
<1>6. stack' = Append(stack, e)
    BY <1>3 DEF EnterNested
<1>7. /\ e \in Entry /\ e.function_name = fnOf[id] /\ e.epilogue = {}
      /\ e.invoke_chain = Append(Top.invoke_chain, fnOf[id]) /\ Claimed(e) = {At}
    <2>1. e \in Entry
        BY <1>2, <1>3, NestedEntryType
    <2> QED
        BY <2>1 DEF NestedEntry, NewEntry, Claimed, Registers, Accesses
<1>8. Owners(e) = {id}
    BY <1>7 DEF Owners
<1>9. FramesAre(stack, around[id]) /\ around[id] # << >>
    BY <1>5 DEF BeginsInside
<1>10. FrameOf(e, Append(around[id], id), Len(around[id]) + 1)
    <2> DEFINE n == Len(around[id])
    <2>1. n \in Nat /\ n = Len(stack) /\ n \in DOMAIN stack
        BY <1>3, <1>4, <1>9 DEF FramesAre
    <2>2. FrameOf(Top, around[id], n)
        BY <1>4, <1>9, <2>1 DEF FramesAre
    <2>3. /\ \A k \in 1 .. n : Append(around[id], id)[k] = around[id][k]
          /\ Append(around[id], id)[n + 1] = id
        BY <1>3
    <2> HIDE DEF n
    <2>4. Top.invoke_chain = [k \in 1 .. n |-> fnOf[around[id][k]]]
        BY <2>2 DEF FrameOf
    <2>5. Append(Top.invoke_chain, fnOf[id]) = [k \in 1 .. (n + 1) |-> fnOf[Append(around[id], id)[k]]]
        <3>1. Top.invoke_chain \in Seq(Names)
            BY <1>4 DEF Entry
        <3>2. Len(Top.invoke_chain) = n
            BY <2>1, <2>4, <3>1
        <3>3. DOMAIN Append(Top.invoke_chain, fnOf[id]) = 1 .. (n + 1)
            BY <3>1, <3>2
        <3>4. /\ \A k \in 1 .. n : Append(Top.invoke_chain, fnOf[id])[k] = Top.invoke_chain[k]
              /\ Append(Top.invoke_chain, fnOf[id])[n + 1] = fnOf[id]
            BY <3>1, <3>2
        <3>5. \A k \in 1 .. (n + 1) : k \in 1 .. n \/ k = n + 1
            BY <2>1
        <3>6. \A k \in 1 .. (n + 1) :
                 Append(Top.invoke_chain, fnOf[id])[k] = fnOf[Append(around[id], id)[k]]
            BY <2>3, <2>4, <3>4, <3>5
        <3>7. Append(Top.invoke_chain, fnOf[id]) \in Seq(Names)
            BY <1>3, <3>1
        <3> DEFINE c == Append(Top.invoke_chain, fnOf[id])
        <3> DEFINE l == Append(around[id], id)
        <3>8. c = [k \in 1 .. (n + 1) |-> c[k]]
            BY <3>3, <3>7, SequenceIsFunction
        <3>9. \A k \in 1 .. (n + 1) : c[k] = fnOf[l[k]]
            BY <3>6
        <3> HIDE DEF c, l
        <3>10. [k \in 1 .. (n + 1) |-> c[k]] = [k \in 1 .. (n + 1) |-> fnOf[l[k]]]
            BY <3>9
        <3> QED
            BY <3>8, <3>10 DEF c, l
    <2> QED
        BY <1>7, <1>8, <2>3, <2>5 DEF FrameOf, n
<1> HIDE DEF e
<1>11. Len(stack) = Len(around[id]) /\ \A d \in DOMAIN stack : FrameOf(stack[d], around[id], d)
    BY <1>9 DEF FramesAre
<1>12. FramesAre(stack', Chain(id))
    BY <1>2, <1>3, <1>6, <1>7, <1>10, <1>11, FramesPush DEF FramesAre, Chain
<1>13. ~ Returns(Next_e)
    BY <1>5 DEF BeginsInside, Begins
<1>14. /\ stack' \in Seq(Entry)
       /\ \A d \in DOMAIN stack' : stack'[d] = e \/ (d \in DOMAIN stack /\ stack'[d] = stack[d])
    BY <1>2, <1>6, <1>7, OneMore
<1> QED
    BY <1>1, <1>7, <1>12, <1>13, <1>14 DEF Took

LEMMA ReturnTakes ==
    ASSUME ProgramInv, TypeOK, MergeInv, AlignInv, ReachEpilogue
    PROVE  Took(truth[At])
<1> DEFINE id == truth[At]
<1>1. phase = "read" /\ More /\ phase' = "epilogue" /\ Returns(Next_e)
    BY DEF ReachEpilogue, EpilogueElement, Returns
<1>2. /\ At \in 1 .. Len(trace) /\ At \in Nat /\ stack \in Seq(Entry) /\ stack # << >>
    BY <1>1, NextElement DEF TypeOK
<1>3. id \in Ids /\ around[id] \in Seq(Ids)
    BY <1>2, ElementFacts
<1>4. Top \in Entry /\ Len(stack) \in DOMAIN stack /\ Top = stack[Len(stack)]
    BY <1>2, TopType
<1>5. GoesOn(id)
    BY <1>1, NextBelongs DEF BeginsOutermost, BeginsInside, Begins
<1> DEFINE e == [Top EXCEPT !.epilogue = @ \cup {At}]
<1>6. UpdateTop(e)
    BY DEF ReachEpilogue
<1>7. /\ e \in Entry
      /\ e.function_name = Top.function_name /\ e.invoke_chain = Top.invoke_chain
      /\ e.prologue = Top.prologue /\ e.epilogue = Top.epilogue \cup {At}
      /\ e.dwrites = Top.dwrites /\ e.dreads = Top.dreads
    BY <1>2, <1>4, EpilogueUpdate
<1> HIDE DEF e
<1>8. Claimed(e) = Claimed(Top) \cup {At}
    BY <1>7 DEF Claimed, Registers, Accesses
<1>9. /\ stack' \in Seq(Entry) /\ FramesAre(stack', Chain(id)) /\ Len(stack') = Len(stack)
      /\ stack'[Len(stack)] = e /\ DOMAIN stack' = DOMAIN stack
      /\ \A d \in DOMAIN stack : d # Len(stack) => stack'[d] = stack[d]
    BY <1>2, <1>3, <1>5, <1>6, <1>7, <1>8, TopTakes
<1> QED
    BY <1>1, <1>4, <1>7, <1>9 DEF Took

LEMMA AccessTakes ==
    ASSUME ProgramInv, TypeOK, MergeInv, AlignInv, DataWrite \/ DataRead
    PROVE  Took(truth[At])
<1> DEFINE id == truth[At]
<1>1. phase = "read" /\ More /\ phase' = phase /\ Next_e.kind # "snapshot"
    BY DEF DataWrite, DataRead
<1>2. /\ At \in 1 .. Len(trace) /\ At \in Nat /\ stack \in Seq(Entry) /\ stack # << >>
    BY <1>1, NextElement DEF TypeOK
<1>3. id \in Ids /\ around[id] \in Seq(Ids)
    BY <1>2, ElementFacts
<1>4. Top \in Entry /\ Len(stack) \in DOMAIN stack /\ Top = stack[Len(stack)]
    BY <1>2, TopType
<1>5. GoesOn(id) /\ ~ Returns(Next_e)
    BY <1>1, NextBelongs DEF BeginsOutermost, BeginsInside, Begins, IsInstruction, Returns
<1> DEFINE e == IF DataWrite THEN [Top EXCEPT !.dwrites = @ \cup {At}]
                ELSE [Top EXCEPT !.dreads = @ \cup {At}]
<1>6. UpdateTop(e)
    BY DEF DataWrite, DataRead
<1>7. /\ e \in Entry
      /\ e.function_name = Top.function_name /\ e.invoke_chain = Top.invoke_chain
      /\ e.prologue = Top.prologue /\ e.epilogue = Top.epilogue
      /\ Accesses(e) = Accesses(Top) \cup {At}
    BY <1>2, <1>4, AccessUpdate
<1> HIDE DEF e
<1>8. Claimed(e) = Claimed(Top) \cup {At}
    BY <1>7 DEF Claimed, Registers
<1>9. /\ stack' \in Seq(Entry) /\ FramesAre(stack', Chain(id))
      /\ stack'[Len(stack)] = e /\ DOMAIN stack' = DOMAIN stack
      /\ \A d \in DOMAIN stack : d # Len(stack) => stack'[d] = stack[d]
    BY <1>2, <1>3, <1>5, <1>6, <1>7, <1>8, TopTakes
<1> QED
    BY <1>1, <1>4, <1>5, <1>7, <1>9 DEF Took

\* Only an instruction that is neither a store nor a return is passed over.
LEMMA SkipTakes ==
    ASSUME ProgramInv, TypeOK, MergeInv, AlignInv, Skip
    PROVE  Took(truth[At])
<1> DEFINE id == truth[At]
<1>1. /\ phase = "read" /\ More /\ phase' = phase /\ stack' = stack
      /\ Next_e.kind = "snapshot" /\ ~ PrologueElement /\ ~ EpilogueElement
    BY DEF Skip
<1>2. At \in 1 .. Len(trace) /\ Next_e = trace[At] /\ stack \in Seq(Entry)
    BY <1>1, NextElement DEF TypeOK
<1>3. EnclosingSubprogram(Next_e.pc) = fnOf[id] /\ fnOf[id] # NoName
    BY <1>2, ElementFacts
<1>4. ~ Begins(id)
    BY <1>1, <1>3 DEF Begins, PrologueElement, IsInstruction
<1>5. GoesOn(id)
    BY <1>1, <1>4, NextBelongs DEF BeginsOutermost, BeginsInside
<1>6. ~ Returns(Next_e)
    BY <1>1, <1>3, <1>5 DEF GoesOn, EpilogueElement, Returns
<1> QED
    BY <1>1, <1>2, <1>5, <1>6 DEF GoesOn, Took

\* After a return the merger finds no other one of the same function.
LEMMA NothingSwallowed ==
    ASSUME ProgramInv, TypeOK, AlignInv
    PROVE  ~ SwallowCjr
<1> SUFFICES ASSUME SwallowCjr PROVE FALSE
    OBVIOUS
<1> DEFINE id == truth[At]
<1> DEFINE last == truth[pos]
<1>1. phase = "epilogue" /\ More /\ Returns(Next_e) /\ EnclosingSubprogram(Next_e.pc) = Top.function_name
    BY DEF SwallowCjr, NextIsSameCjr, Returns, IsInstruction
<1>2. /\ At \in 1 .. Len(trace) /\ Next_e = trace[At] /\ At - 1 = pos
      /\ pos \in 1 .. Len(trace) /\ Returns(trace[pos])
    BY <1>1, NextElement DEF TypeOK, AlignInv
<1>3. /\ last \in Ids /\ around[last] \in Seq(Ids) /\ Live(pos) = around[last]
      /\ around[last] # << >> => fnOf[around[last][Len(around[last])]] # fnOf[last]
    BY <1>2, ElementFacts
<1>4. /\ id \in Ids /\ around[id] \in Seq(Ids) /\ EnclosingSubprogram(Next_e.pc) = fnOf[id]
      /\ Live(pos) = Chain(id)
    <2>1. /\ id \in Ids /\ around[id] \in Seq(Ids) /\ EnclosingSubprogram(trace[At].pc) = fnOf[id]
          /\ ~ Returns(trace[At]) \/ Live(At - 1) = Chain(id)
        BY <1>2, ElementFacts
    <2> QED
        BY <1>1, <1>2, <2>1
<1>5. around[last] # << >> /\ around[last][Len(around[last])] = id
    BY <1>3, <1>4, ChainLast
<1>6. Top.function_name = fnOf[last]
    <2>1. stack \in Seq(Entry) /\ stack # << >>
        BY <1>1 DEF TypeOK
    <2>2. /\ Len(stack) = Len(Chain(last))
          /\ \A d \in DOMAIN stack : FrameOf(stack[d], Chain(last), d)
        BY <1>1 DEF AlignInv, Expected
    <2>3. FrameOf(Top, Chain(last), Len(Chain(last)))
        BY <2>1, <2>2, TopType
    <2> QED
        BY <1>3, <2>3, ChainLast DEF FrameOf
<1> QED
    BY <1>1, <1>3, <1>4, <1>5, <1>6

\* The finished entries: each is that of one call in the window, and holds no
\* snapshot of its return but those.
Describes(e, id) ==
    /\ id \in Traced
    /\ Owners(e) = {id}
    /\ e.function_name = fnOf[id]
    /\ e.invoke_chain = [k \in DOMAIN Chain(id) |-> fnOf[Chain(id)[k]]]
OnlyReturns(e) == \A k \in e.epilogue : Returns(trace[k])
Filed(e) == OnlyReturns(e) /\ \E id \in Traced : Describes(e, id)
FiledInv ==
    /\ \A i \in DOMAIN entries : Filed(entries[i])
    /\ \A g \in DOMAIN collection : \A i \in DOMAIN collection[g] : Filed(collection[g][i])
    /\ \A d \in DOMAIN stack : OnlyReturns(stack[d])
    /\ phase = "done" => entries = << >> /\ ~ More

\* The entry of each return is finished, or just about to be.
HasEntry(k) ==
    \/ \E i \in DOMAIN entries : k \in Claimed(entries[i])
    \/ \E g \in DOMAIN collection : \E i \in DOMAIN collection[g] : k \in Claimed(collection[g][i])
ReturnsFiled ==
    phase # "failed" =>
        \A k \in 1 .. pos :
            Returns(trace[k]) => HasEntry(k) \/ (phase = "epilogue" /\ k = pos)

\* The groups: what is listed ran inside the outermost open call, what is
\* collected inside an earlier one, each group inside one of its own.
Outermosts(e) == { Outermost(id) : id \in Owners(e) }
GroupsInv ==
    /\ \A i \in DOMAIN entries : stack # << >> /\ Outermosts(entries[i]) = Owners(stack[1])
    /\ \A g \in DOMAIN collection : \A i, j \in DOMAIN collection[g] :
          Outermosts(collection[g][i]) = Outermosts(collection[g][j])
    /\ \A g, h \in DOMAIN collection : g # h =>
          \A i \in DOMAIN collection[g], j \in DOMAIN collection[h] :
              Outermosts(collection[g][i]) # Outermosts(collection[h][j])
    /\ \A g \in DOMAIN collection : \A i \in DOMAIN collection[g] :
          /\ stack # << >> => Outermosts(collection[g][i]) # Owners(stack[1])
          /\ Outermosts(collection[g][i]) \subseteq { truth[k] : k \in 1 .. pos }

CallInv ==
    /\ TypeOK /\ MergeInv /\ AccessInv
    /\ AlignInv /\ FiledInv /\ ReturnsFiled /\ GroupsInv

\* The step of the merger, whichever it is.
LEMMA ReadsTake ==
    ASSUME ProgramInv, TypeOK, MergeInv, AlignInv, [Next]_vars
    PROVE  \/ /\ Took(truth[At]) /\ Consume /\ KeepResults /\ phase = "read" /\ More
           \/ CloseEntry
           \/ EndOfTrace
           \/ UNCHANGED <<trace, stack, entries, collection>> /\ pos' \in {pos, At} /\ phase' = "failed"
           \/ UNCHANGED vars
<1>1. CASE AppendPrologue
    BY <1>1, PrologueTakes DEF AppendPrologue, PrologueElement
<1>2. CASE EnterNested
    BY <1>2, NestedTakesIt DEF EnterNested, PrologueElement
<1>3. CASE ReachEpilogue
    BY <1>3, ReturnTakes DEF ReachEpilogue, EpilogueElement
<1>4. CASE DataWrite \/ DataRead
    BY <1>4, AccessTakes DEF DataWrite, DataRead
<1>5. CASE Skip
    BY <1>5, SkipTakes DEF Skip
<1>6. CASE ExceedRecursion \/ FailToLocate
    BY <1>6 DEF ExceedRecursion, FailToLocate, KeepResults, Consume
<1> QED
    BY <1>1, <1>2, <1>3, <1>4, <1>5, <1>6, NothingSwallowed DEF Next, Step, Stopped

\* The alignment after a step, said in the program's terms, which stay.
LEMMA AlignNext ==
    ASSUME UNCHANGED <<program, trace>>, NEW live,
           phase' \in {"read", "epilogue"} =>
              /\ live = IF phase' = "epilogue" THEN Chain(truth[pos']) ELSE Live(pos')
              /\ \/ stack' = <<NewEntry>> /\ phase' = "read" /\ (pos' < Len(trace) => live = << >>)
                 \/ /\ Len(stack') <= Len(live)
                    /\ pos' < Len(trace) \/ phase' = "epilogue" => Len(stack') = Len(live)
                    /\ \A d \in DOMAIN stack' : FrameOf(stack'[d], live, d),
           phase' = "epilogue" =>
              pos' > 0 /\ Returns(trace[pos']) /\ pos' \in stack'[Len(stack')].epilogue
    PROVE  AlignInv'
<1>1. /\ fnOf' = fnOf /\ truth' = truth /\ around' = around /\ trace' = trace
    BY DEF program
<1>2. \A e, l, d : FrameOf(e, l, d)' <=> FrameOf(e, l, d)
    BY <1>1 DEF FrameOf, Owners
<1>3. Expected' = IF phase' = "epilogue" THEN Chain(truth[pos']) ELSE Live(pos')
    BY <1>1 DEF Expected, Live, Chain
<1>4. More' <=> pos' < Len(trace)
    BY <1>1 DEF More
<1>5. Top' = stack'[Len(stack')]
    BY DEF Top
<1>6. ASSUME phase' \in {"read", "epilogue"} PROVE Expected' = live
    BY <1>3, <1>6
<1>7. ASSUME phase' \in {"read", "epilogue"}, \A d \in DOMAIN stack' : FrameOf(stack'[d], live, d)
      PROVE  \A d \in DOMAIN stack' : FrameOf(stack[d], Expected, d)'
    <2>1. ASSUME NEW d \in DOMAIN stack' PROVE FrameOf(stack[d], Expected, d)'
        <3>1. FrameOf(stack'[d], live, d) /\ Expected' = live
            BY <1>6, <1>7
        <3>2. Owners(stack[d])' = Owners(stack'[d])
            BY <1>1 DEF Owners
        <3> QED
            BY <1>1, <3>1, <3>2 DEF FrameOf
    <2> QED
        BY <2>1
<1> QED
    BY <1>1, <1>4, <1>5, <1>6, <1>7 DEF AlignInv

\* An entry that is closed is that of the call whose return was read last.
LEMMA CloseFacts ==
    ASSUME ProgramInv, TypeOK, MergeInv, AlignInv, CloseEntry
    PROVE  LET id == truth[pos] IN
           /\ pos \in 1 .. Len(trace) /\ Returns(trace[pos]) /\ pos \in Top.epilogue
           /\ id \in Ids /\ id \in Traced /\ around[id] \in Seq(Ids)
           /\ Live(pos) = around[id] /\ Len(around[id]) \in Nat
           /\ stack \in Seq(Entry) /\ stack # << >> /\ Top \in Entry
           /\ FramesAre(stack, Chain(id)) /\ Describes(Top, id)
           /\ Append(entries, Top) \in Seq(Entry) /\ Append(entries, Top) # << >>
           /\ Return(Append(entries, Top)) /\ Leaves(Append(entries, Top))
           /\ UNCHANGED <<trace, pos>>
<1> DEFINE id == truth[pos]
<1>1. phase = "epilogue" /\ UNCHANGED <<trace, pos, abandoned>>
    BY DEF CloseEntry
<1>2. /\ pos \in 1 .. Len(trace) /\ Returns(trace[pos]) /\ pos \in Top.epilogue
      /\ stack \in Seq(Entry) /\ stack # << >> /\ entries \in Seq(Entry)
    BY <1>1 DEF TypeOK, AlignInv
<1>3. /\ id \in Ids /\ id \in Traced /\ around[id] \in Seq(Ids) /\ Live(pos) = around[id]
    BY <1>2, ElementFacts
<1>4. FramesAre(stack, Chain(id))
    BY <1>1 DEF AlignInv, Expected, FramesAre
<1>5. Top \in Entry /\ Len(stack) \in DOMAIN stack /\ Top = stack[Len(stack)]
    BY <1>2, TopType
<1>6. /\ Chain(id)[Len(Chain(id))] = id /\ DOMAIN Chain(id) = 1 .. Len(Chain(id))
      /\ Len(around[id]) \in Nat
    BY <1>3, ChainLast DEF Chain
<1>7. FrameOf(Top, Chain(id), Len(Chain(id)))
    BY <1>4, <1>5 DEF FramesAre
<1>8. Describes(Top, id)
    BY <1>3, <1>6, <1>7 DEF FrameOf, Describes
<1>9. is_valid_entry(Top)
    BY <1>1, MergeComplete DEF CompleteEntries
<1>10. Append(entries, Top) \in Seq(Entry) /\ Append(entries, Top) # << >>
    BY <1>2, <1>5, AppendProperties
<1>11. Return(Append(entries, Top)) /\ Leaves(Append(entries, Top))
    BY <1>1, <1>9 DEF CloseEntry, Leaves
<1> QED
    BY <1>1, <1>2, <1>3, <1>4, <1>5, <1>6, <1>8, <1>10, <1>11

\* More than one frame is not one.
LEMMA NotOneFrame ==
    ASSUME stack \in Seq(Entry), Len(stack) > 1
    PROVE  Len(stack) # 1
<1> DEFINE n == Len(stack)
<1>1. n \in Nat /\ n > 1
    BY LenProperties
<1> HIDE DEF n
<1>2. n # 1
    BY <1>1
<1> QED
    BY <1>2 DEF n

\* A frame that returns leaves those below it, or none, or a new one.
LEMMA ReturnFrames ==
    ASSUME TypeOK, stack # << >>, NEW list \in Seq(Entry), Return(list)
    PROVE  \/ /\ Len(stack) > 1 /\ phase' = "read" /\ Len(stack') = Len(stack) - 1
              /\ DOMAIN stack' = 1 .. (Len(stack) - 1)
              /\ \A d \in DOMAIN stack' : d \in DOMAIN stack /\ stack'[d] = stack[d]
              /\ stack' # << >> /\ stack'[1] = stack[1]
           \/ Len(stack) = 1 /\ list = << >> /\ stack' = << >> /\ phase' = "done"
           \/ Len(stack) = 1 /\ list # << >> /\ stack' = <<NewEntry>> /\ phase' = "read"
<1>1. stack \in Seq(Entry)
    BY DEF TypeOK
<1>2. CASE Len(stack) > 1
    <2>1. stack' = SubSeq(stack, 1, Len(stack) - 1) /\ phase' = "read"
        BY <1>2 DEF Return
    <2>2. /\ Len(stack') = Len(stack) - 1 /\ DOMAIN stack' = 1 .. (Len(stack) - 1)
          /\ \A d \in DOMAIN stack' : d \in DOMAIN stack /\ stack'[d] = stack[d]
        BY <1>1, <1>2, <2>1
    <2>3. 1 \in DOMAIN stack'
        BY <1>1, <1>2, <2>2
    <2>4. stack' # << >>
        BY <2>3
    <2> QED
        BY <1>2, <2>1, <2>2, <2>3, <2>4
<1>3. CASE Len(stack) = 1
    BY <1>3 DEF Return, FreshEntry
<1> QED
    BY <1>2, <1>3, OneFrame

LEMMA AlignStep ==
    ASSUME ProgramInv, TypeOK, MergeInv, AlignInv, [Next]_vars, UNCHANGED program
    PROVE  AlignInv'
<1>1. CASE Took(truth[At]) /\ Consume /\ KeepResults /\ phase = "read" /\ More
    <2> DEFINE id == truth[At]
    <2>1. At \in 1 .. Len(trace) /\ Next_e = trace[At] /\ At > 0
        BY <1>1, NextElement
    <2>2. pos' = At /\ trace' = trace
        BY <1>1 DEF Consume, KeepResults
    <2>3. /\ Len(stack') = Len(Chain(id)) /\ Len(stack') \in Nat
          /\ \A d \in DOMAIN stack' : FrameOf(stack'[d], Chain(id), d)
        BY <1>1 DEF Took, FramesAre
    <2>4. \/ phase' = "read" /\ ~ Returns(trace[At])
          \/ phase' = "epilogue" /\ Returns(trace[At]) /\ At \in stack'[Len(stack')].epilogue
        BY <1>1, <2>1 DEF Took
    <2>5. Chain(id) = IF phase' = "epilogue" THEN Chain(truth[pos']) ELSE Live(pos')
        BY <2>1, <2>2, <2>4, ElementFacts
    <2> DEFINE live == Chain(id)
    <2>6. /\ live = IF phase' = "epilogue" THEN Chain(truth[pos']) ELSE Live(pos')
          /\ Len(stack') <= Len(live) /\ Len(stack') = Len(live)
          /\ \A d \in DOMAIN stack' : FrameOf(stack'[d], live, d)
        BY <2>3, <2>5
    <2>7. phase' = "epilogue" => pos' > 0 /\ Returns(trace[pos']) /\ pos' \in stack'[Len(stack')].epilogue
        BY <2>1, <2>2, <2>4
    <2> HIDE DEF live
    <2> QED
        BY <2>2, <2>6, <2>7, AlignNext
<1>2. CASE CloseEntry
    <2> DEFINE id == truth[pos]
    <2>1. /\ around[id] \in Seq(Ids) /\ Live(pos) = around[id] /\ Len(around[id]) \in Nat
          /\ id \in Ids /\ stack \in Seq(Entry) /\ stack # << >> /\ FramesAre(stack, Chain(id))
          /\ Append(entries, Top) \in Seq(Entry) /\ Append(entries, Top) # << >>
          /\ Return(Append(entries, Top)) /\ UNCHANGED <<trace, pos>>
        BY <1>2, CloseFacts
    <2>2. /\ Len(stack) = Len(around[id]) + 1
          /\ \A d \in 1 .. Len(around[id]) : around[id][d] = Chain(id)[d]
        BY <2>1, ChainLast DEF FramesAre
    <2> DEFINE live == around[id]
    <2>3. phase' = "read" /\ live = Live(pos')
        BY <2>1, ReturnFrames
    <2>4. \/ stack' = <<NewEntry>> /\ live = << >>
          \/ /\ Len(stack') = Len(live) /\ Len(stack') <= Len(live)
             /\ \A d \in DOMAIN stack' : FrameOf(stack'[d], live, d)
        <3>1. CASE Len(stack) = 1
            <4>1. Len(live) = 0 /\ live \in Seq(Ids)
                <5> DEFINE n == Len(live)
                <5>1. Len(stack) = n + 1 /\ n \in Nat /\ live \in Seq(Ids)
                    BY <2>1, <2>2
                <5> HIDE DEF n
                <5>2. n = 0
                    BY <3>1, <5>1
                <5> QED
                    BY <5>1, <5>2 DEF n
            <4>2. live = << >>
                BY <4>1, EmptySeq
            <4> DEFINE list == Append(entries, Top)
            <4>3. list \in Seq(Entry) /\ list # << >> /\ Return(list)
                BY <2>1
            <4> HIDE DEF list
            <4>4. stack' = <<NewEntry>>
                BY <2>1, <3>1, <4>3, ReturnFrames
            <4> QED
                BY <4>2, <4>4
        <3>2. CASE Len(stack) > 1
            <4>1. /\ Len(stack') = Len(live) /\ Len(live) \in Nat
                  /\ DOMAIN stack' = 1 .. Len(live)
                  /\ \A d \in DOMAIN stack' : d \in DOMAIN stack /\ stack'[d] = stack[d]
                <5> DEFINE list == Append(entries, Top)
                <5>1. list \in Seq(Entry) /\ list # << >> /\ Return(list)
                    BY <2>1
                <5> HIDE DEF list
                <5>2. /\ Len(stack') = Len(stack) - 1 /\ DOMAIN stack' = 1 .. (Len(stack) - 1)
                      /\ \A d \in DOMAIN stack' : d \in DOMAIN stack /\ stack'[d] = stack[d]
                    <6>1. stack # << >>
                        BY <2>1
                    <6>2. Len(stack) # 1
                        BY <2>1, <3>2, NotOneFrame
                    <6> QED
                        BY <3>2, <5>1, <6>1, <6>2, ReturnFrames
                <5> QED
                    BY <2>1, <2>2, <5>2
            <4>2. \A d \in 1 .. Len(live) : FrameOf(stack'[d], Chain(id), d)
                BY <2>1, <4>1 DEF FramesAre
            <4>3. \A d \in 1 .. Len(live) : live[d] = Chain(id)[d]
                BY <2>2
            <4> HIDE DEF live
            <4>4. \A d \in 1 .. Len(live) : FrameOf(stack'[d], live, d)
                BY <4>1, <4>2, <4>3, FramesPrefix
            <4> QED
                BY <4>1, <4>4
        <3> QED
            BY <2>1, <3>1, <3>2, OneFrame
    <2> HIDE DEF live
    <2> QED
        BY <2>1, <2>3, <2>4, AlignNext
<1>3. CASE EndOfTrace
    <2>1. /\ phase = "read" /\ ~ More /\ Return(entries) /\ UNCHANGED <<trace, pos>>
          /\ stack \in Seq(Entry) /\ stack # << >> /\ entries \in Seq(Entry)
        BY <1>3 DEF EndOfTrace, TypeOK
    <2> DEFINE live == Live(pos)
    <2>2. phase' \in {"read", "done"} /\ ~ (pos' < Len(trace))
        BY <2>1, ReturnFrames DEF More
    <2>3. phase' = "read" =>
             \/ stack' = <<NewEntry>>
             \/ /\ Len(stack') <= Len(live)
                /\ \A d \in DOMAIN stack' : FrameOf(stack'[d], live, d)
        <3>1. CASE Len(stack) > 1
            <4>1. stack # <<NewEntry>>
                <5>1. Len(stack) # 1
                    BY <2>1, <3>1, NotOneFrame
                <5> QED
                    BY <5>1
            <4>2. /\ Len(stack) <= Len(live)
                  /\ \A d \in DOMAIN stack : FrameOf(stack[d], live, d)
                BY <2>1, <4>1 DEF AlignInv, Expected
            <4>3. /\ Len(stack') = Len(stack) - 1
                  /\ \A d \in DOMAIN stack' : d \in DOMAIN stack /\ stack'[d] = stack[d]
                <5>1. Len(stack) # 1
                    BY <2>1, <3>1, NotOneFrame
                <5>2. stack # << >> /\ entries \in Seq(Entry) /\ Return(entries)
                    BY <2>1
                <5> QED
                    BY <3>1, <5>1, <5>2, ReturnFrames
            <4>4. Len(stack') <= Len(live)
                <5>1. Len(stack) \in Nat
                    BY <2>1
                <5>2. Len(live) \in Nat
                    BY <2>1, LiveLength DEF TypeOK
                <5> HIDE DEF live
                <5> QED
                    BY <4>2, <4>3, <5>1, <5>2
            <4> QED
                BY <4>2, <4>3, <4>4
        <3>2. CASE Len(stack) = 1
            BY <2>1, <3>2, ReturnFrames
        <3> QED
            BY <2>1, <3>1, <3>2, OneFrame
    <2>4. live = Live(pos')
        BY <2>1
    <2> HIDE DEF live
    <2> QED
        BY <2>1, <2>2, <2>3, <2>4, AlignNext
<1>4. CASE UNCHANGED <<trace, stack, entries, collection>> /\ pos' \in {pos, At} /\ phase' = "failed"
    BY <1>4, AlignNext
<1>5. CASE UNCHANGED vars
    <2>1. UNCHANGED <<program, trace, pos, stack, phase>>
        BY <1>5 DEF vars
    <2> DEFINE live == Expected
    <2>2. live = IF phase' = "epilogue" THEN Chain(truth[pos']) ELSE Live(pos')
        BY <2>1 DEF Expected
    <2>3. phase' \in {"read", "epilogue"} =>
             \/ stack' = <<NewEntry>> /\ phase' = "read" /\ (pos' < Len(trace) => live = << >>)
             \/ /\ Len(stack') <= Len(live)
                /\ pos' < Len(trace) \/ phase' = "epilogue" => Len(stack') = Len(live)
                /\ \A d \in DOMAIN stack' : FrameOf(stack'[d], live, d)
        BY <2>1 DEF AlignInv, More
    <2>4. phase' = "epilogue" =>
             pos' > 0 /\ Returns(trace[pos']) /\ pos' \in stack'[Len(stack')].epilogue
        BY <2>1 DEF AlignInv, Top
    <2> HIDE DEF live
    <2> QED
        BY <2>1, <2>2, <2>3, <2>4, AlignNext
<1> QED
    BY <1>1, <1>2, <1>3, <1>4, <1>5, ReadsTake

\* What a frame that returns leaves in the list and in the collection.
LEMMA ReturnResults ==
    ASSUME TypeOK, stack # << >>, NEW list \in Seq(Entry), Return(list)
    PROVE  \/ Len(stack) > 1 /\ entries' = list /\ collection' = collection
           \/ Len(stack) = 1 /\ list = << >> /\ entries' = << >> /\ collection' = collection
           \/ /\ Len(stack) = 1 /\ list # << >> /\ entries' = << >>
              /\ DOMAIN collection' = DOMAIN collection \cup {Len(collection) + 1}
              /\ Len(collection) + 1 \notin DOMAIN collection
              /\ collection'[Len(collection) + 1] = list
              /\ \A g \in DOMAIN collection : collection'[g] = collection[g]
<1>1. CASE Len(stack) > 1
    BY <1>1 DEF Return
<1>2. CASE Len(stack) = 1 /\ list = << >>
    BY <1>2 DEF Return
<1>3. CASE Len(stack) = 1 /\ list # << >>
    <2>1. entries' = << >> /\ collection' = Append(collection, list)
        BY <1>3 DEF Return
    <2>2. collection \in Seq(Seq(Entry))
        BY DEF TypeOK
    <2>3. /\ DOMAIN collection' = DOMAIN collection \cup {Len(collection) + 1}
          /\ Len(collection) + 1 \notin DOMAIN collection
          /\ collection'[Len(collection) + 1] = list
          /\ \A g \in DOMAIN collection : collection'[g] = collection[g]
        BY <2>1, <2>2
    <2> QED
        BY <1>3, <2>1, <2>3
<1> QED
    BY <1>1, <1>2, <1>3, OneFrame

\* What holds of the entries and of the innermost one holds of the list that is
\* returned.
LEMMA ListedOne ==
    ASSUME NEW s \in Seq(Entry), NEW e \in Entry
    PROVE  /\ DOMAIN Append(s, e) = DOMAIN s \cup {Len(s) + 1}
           /\ Append(s, e)[Len(s) + 1] = e
           /\ \A i \in DOMAIN s : Append(s, e)[i] = s[i]
<1> HIDE DEF Entry
<1> QED
    OBVIOUS

LEMMA FiledNext ==
    ASSUME UNCHANGED <<program, trace>>,
           \A i \in DOMAIN entries' : Filed(entries'[i]),
           \A g \in DOMAIN collection' : \A i \in DOMAIN collection'[g] : Filed(collection'[g][i]),
           \A d \in DOMAIN stack' : OnlyReturns(stack'[d]),
           phase' = "done" => entries' = << >> /\ ~ (pos' < Len(trace))
    PROVE  FiledInv'
<1>1. /\ fnOf' = fnOf /\ truth' = truth /\ around' = around /\ trace' = trace /\ window' = window
    BY DEF program
<1>2. Traced' = Traced /\ (More' <=> pos' < Len(trace))
    BY <1>1 DEF Traced, Invocations, More
<1>3. \A id : [k \in DOMAIN Chain(id) |-> fnOf[Chain(id)[k]]]'
               = [k \in DOMAIN Chain(id) |-> fnOf[Chain(id)[k]]]
    BY <1>1 DEF Chain
<1>4. ASSUME NEW i \in DOMAIN entries' PROVE Filed(entries[i])'
    <2>1. Filed(entries'[i])
        OBVIOUS
    <2>2. PICK id \in Traced : Describes(entries'[i], id)
        BY <2>1 DEF Filed
    <2>3. Describes(entries[i], id)'
        <3>1. Owners(entries[i])' = Owners(entries'[i])
            BY <1>1 DEF Owners
        <3>2. id \in Traced'
            BY <1>2
        <3> QED
            BY <1>1, <1>3, <2>2, <3>1, <3>2 DEF Describes
    <2>4. OnlyReturns(entries[i])'
        BY <1>1, <2>1 DEF Filed, OnlyReturns
    <2> QED
        BY <1>2, <2>3, <2>4 DEF Filed
<1>5. ASSUME NEW g \in DOMAIN collection', NEW i \in DOMAIN collection'[g]
      PROVE  Filed(collection[g][i])'
    <2>1. Filed(collection'[g][i])
        OBVIOUS
    <2>2. PICK id \in Traced : Describes(collection'[g][i], id)
        BY <2>1 DEF Filed
    <2>3. Describes(collection[g][i], id)'
        <3>1. Owners(collection[g][i])' = Owners(collection'[g][i])
            BY <1>1 DEF Owners
        <3>2. id \in Traced'
            BY <1>2
        <3> QED
            BY <1>1, <1>3, <2>2, <3>1, <3>2 DEF Describes
    <2>4. OnlyReturns(collection[g][i])'
        BY <1>1, <2>1 DEF Filed, OnlyReturns
    <2> QED
        BY <1>2, <2>3, <2>4 DEF Filed
<1>6. \A d \in DOMAIN stack' : OnlyReturns(stack[d])'
    BY <1>1 DEF OnlyReturns
<1> QED
    BY <1>2, <1>4, <1>5, <1>6 DEF FiledInv

\* A frame returns with finished entries.
LEMMA FiledReturn ==
    ASSUME TypeOK, FiledInv, UNCHANGED <<program, trace, pos>>, stack # << >>,
           NEW list \in Seq(Entry), Return(list), \A i \in DOMAIN list : Filed(list[i]),
           list = << >> => ~ More
    PROVE  FiledInv'
<1>1. /\ \A i \in DOMAIN entries' : Filed(entries'[i])
      /\ \A g \in DOMAIN collection' : \A i \in DOMAIN collection'[g] : Filed(collection'[g][i])
    <2>1. \A g \in DOMAIN collection : \A i \in DOMAIN collection[g] : Filed(collection[g][i])
        BY DEF FiledInv
    <2>2. entries' = << >> => \A i \in DOMAIN entries' : Filed(entries'[i])
        OBVIOUS
    <2>3. (entries' = << >> \/ entries' = list)
        BY ReturnResults
    <2>4. \A g \in DOMAIN collection' :
             \/ g \in DOMAIN collection /\ collection'[g] = collection[g]
             \/ collection'[g] = list
        BY ReturnResults
    <2> QED
        BY <2>1, <2>2, <2>3, <2>4
<1>2. \A d \in DOMAIN stack' : OnlyReturns(stack'[d])
    <2>1. \A d \in DOMAIN stack : OnlyReturns(stack[d])
        BY DEF FiledInv
    <2>2. OnlyReturns(NewEntry)
        BY DEF OnlyReturns, NewEntry
    <2> HIDE DEF NewEntry
    <2>3. /\ stack' = << >> => \A d \in DOMAIN stack' : OnlyReturns(stack'[d])
          /\ stack' = <<NewEntry>> => \A d \in DOMAIN stack' : OnlyReturns(stack'[d])
        BY <2>2
    <2> QED
        BY <2>1, <2>3, ReturnFrames
<1>3. phase' = "done" => entries' = << >> /\ list = << >>
    BY ReturnFrames, ReturnResults, NotOneFrame DEF TypeOK
<1>4. pos' = pos
    OBVIOUS
<1> QED
    BY <1>1, <1>2, <1>3, <1>4, FiledNext DEF More

LEMMA FiledStep ==
    ASSUME ProgramInv, TypeOK, MergeInv, AlignInv, FiledInv, [Next]_vars, UNCHANGED program
    PROVE  FiledInv'
<1>1. CASE Took(truth[At]) /\ Consume /\ KeepResults /\ phase = "read" /\ More
    <2>1. UNCHANGED <<trace, entries, collection>> /\ phase' # "done" /\ Next_e = trace[At]
        BY <1>1 DEF KeepResults, Took, Next_e
    <2>2. \A d \in DOMAIN stack' : OnlyReturns(stack'[d])
        BY <1>1, <2>1 DEF Took, FiledInv, OnlyReturns
    <2>3. /\ \A i \in DOMAIN entries' : Filed(entries'[i])
          /\ \A g \in DOMAIN collection' : \A i \in DOMAIN collection'[g] : Filed(collection'[g][i])
        BY <2>1 DEF FiledInv
    <2> QED
        BY <2>1, <2>2, <2>3, FiledNext
<1>2. CASE CloseEntry
    <2> DEFINE list == Append(entries, Top)
    <2>1. /\ stack \in Seq(Entry) /\ stack # << >> /\ Top \in Entry
          /\ truth[pos] \in Traced /\ Describes(Top, truth[pos])
          /\ list \in Seq(Entry) /\ list # << >> /\ Return(list) /\ UNCHANGED <<trace, pos>>
        BY <1>2, CloseFacts
    <2>2. Filed(Top)
        <3>1. OnlyReturns(Top)
            BY <2>1, TopType DEF FiledInv
        <3> QED
            BY <2>1, <3>1 DEF Filed
    <2>3. entries \in Seq(Entry)
        BY DEF TypeOK
    <2>4. \A i \in DOMAIN list : list[i] = Top \/ (i \in DOMAIN entries /\ list[i] = entries[i])
        BY <2>1, <2>3, OneMore
    <2> HIDE DEF list
    <2>5. \A i \in DOMAIN list : Filed(list[i])
        BY <2>2, <2>4 DEF FiledInv
    <2> QED
        BY <2>1, <2>5, FiledReturn
<1>3. CASE EndOfTrace
    <2>1. /\ ~ More /\ Return(entries) /\ UNCHANGED <<trace, pos>>
          /\ stack # << >> /\ entries \in Seq(Entry)
        BY <1>3 DEF EndOfTrace, TypeOK
    <2>2. \A i \in DOMAIN entries : Filed(entries[i])
        BY DEF FiledInv
    <2> QED
        BY <2>1, <2>2, FiledReturn
<1>4. CASE /\ UNCHANGED <<trace, stack, entries, collection>> /\ phase' \in {phase, "failed"}
           /\ pos' = pos \/ phase' = "failed"
    <2>1. /\ \A i \in DOMAIN entries' : Filed(entries'[i])
          /\ \A g \in DOMAIN collection' : \A i \in DOMAIN collection'[g] : Filed(collection'[g][i])
          /\ \A d \in DOMAIN stack' : OnlyReturns(stack'[d])
        BY <1>4 DEF FiledInv
    <2>2. phase' = "done" => entries' = << >> /\ ~ (pos' < Len(trace))
        BY <1>4 DEF FiledInv, More
    <2> QED
        BY <1>4, <2>1, <2>2, FiledNext
<1>5. UNCHANGED vars => /\ UNCHANGED <<trace, stack, entries, collection>>
                        /\ phase' = phase /\ pos' = pos
    BY DEF vars
<1> QED
    BY <1>1, <1>2, <1>3, <1>4, <1>5, ReadsTake

\* A frame that returns loses no entry, and adds those of the list.
LEMMA ReturnKeepsEntries ==
    ASSUME TypeOK, stack # << >>, NEW list \in Seq(Entry), Return(list),
           \A i \in DOMAIN entries : i \in DOMAIN list /\ list[i] = entries[i]
    PROVE  /\ \A k : HasEntry(k) => HasEntry(k)'
           /\ \A i \in DOMAIN list : \A k \in Claimed(list[i]) : HasEntry(k)'
<1>1. ASSUME NEW i \in DOMAIN list, NEW k \in Claimed(list[i]) PROVE HasEntry(k)'
    <2>1. CASE entries' = list
        BY <1>1, <2>1 DEF HasEntry
    <2>2. CASE Len(collection) + 1 \in DOMAIN collection' /\ collection'[Len(collection) + 1] = list
        BY <1>1, <2>2 DEF HasEntry
    <2>3. list # << >>
        OBVIOUS
    <2> QED
        BY <2>1, <2>2, <2>3, ReturnResults
<1>2. ASSUME NEW k, HasEntry(k) PROVE HasEntry(k)'
    <2>1. CASE \E i \in DOMAIN entries : k \in Claimed(entries[i])
        BY <1>1, <2>1
    <2>2. CASE \E g \in DOMAIN collection : \E i \in DOMAIN collection[g] : k \in Claimed(collection[g][i])
        <3>1. \A g \in DOMAIN collection : g \in DOMAIN collection' /\ collection'[g] = collection[g]
            BY ReturnResults
        <3> QED
            BY <2>2, <3>1 DEF HasEntry
    <2> QED
        BY <1>2, <2>1, <2>2 DEF HasEntry
<1> QED
    BY <1>1, <1>2

LEMMA ReturnsFiledStep ==
    ASSUME ProgramInv, TypeOK, MergeInv, AlignInv, ReturnsFiled, [Next]_vars
    PROVE  ReturnsFiled'
<1>1. CASE Took(truth[At]) /\ Consume /\ KeepResults /\ phase = "read" /\ More
    <2>1. /\ UNCHANGED <<trace, entries, collection>> /\ pos' = At /\ Next_e = trace[At]
          /\ At = pos + 1 /\ pos \in Nat
        BY <1>1, NextElement DEF KeepResults, Consume, TypeOK
    <2>2. Returns(trace[At]) => phase' = "epilogue"
        BY <1>1, <2>1 DEF Took
    <2>3. \A k : HasEntry(k) => HasEntry(k)'
        BY <2>1 DEF HasEntry
    <2>4. \A k \in 1 .. At : k \in 1 .. pos \/ k = At
        BY <2>1
    <2>5. \A k \in 1 .. pos : Returns(trace[k]) => HasEntry(k)
        BY <1>1 DEF ReturnsFiled
    <2> QED
        BY <2>1, <2>2, <2>3, <2>4, <2>5 DEF ReturnsFiled
<1>2. CASE CloseEntry
    <2> DEFINE list == Append(entries, Top)
    <2>1. /\ stack # << >> /\ Top \in Entry /\ pos \in Top.epilogue
          /\ list \in Seq(Entry) /\ Return(list) /\ UNCHANGED <<trace, pos>>
        BY <1>2, CloseFacts
    <2>2. entries \in Seq(Entry)
        BY DEF TypeOK
    <2>3. /\ \A i \in DOMAIN entries : i \in DOMAIN list /\ list[i] = entries[i]
          /\ Len(entries) + 1 \in DOMAIN list /\ list[Len(entries) + 1] = Top
        BY <2>1, <2>2, ListedOne
    <2> HIDE DEF list
    <2>4. /\ \A k : HasEntry(k) => HasEntry(k)'
          /\ \A k \in Claimed(Top) : HasEntry(k)'
        BY <2>1, <2>3, ReturnKeepsEntries
    <2>5. pos \in Claimed(Top)
        BY <2>1 DEF Claimed, Registers
    <2>6. \A k \in 1 .. pos : Returns(trace[k]) => HasEntry(k) \/ k = pos
        BY <1>2 DEF ReturnsFiled, CloseEntry
    <2> QED
        BY <2>1, <2>4, <2>5, <2>6 DEF ReturnsFiled
<1>3. CASE EndOfTrace
    <2>1. /\ Return(entries) /\ UNCHANGED <<trace, pos>> /\ stack # << >> /\ entries \in Seq(Entry)
          /\ phase = "read"
        BY <1>3 DEF EndOfTrace, TypeOK
    <2>2. \A k : HasEntry(k) => HasEntry(k)'
        BY <2>1, ReturnKeepsEntries
    <2> QED
        BY <2>1, <2>2 DEF ReturnsFiled
<1>4. CASE phase' = "failed"
    BY <1>4 DEF ReturnsFiled
<1>5. CASE UNCHANGED vars
    BY <1>5 DEF vars, ReturnsFiled, HasEntry
<1> QED
    BY <1>1, <1>2, <1>3, <1>4, <1>5, ReadsTake

\* The groups after a step, said in the program's terms, which stay.
LEMMA GroupsNext ==
    ASSUME UNCHANGED program,
           \A i \in DOMAIN entries' : stack' # << >> /\ Outermosts(entries'[i]) = Owners(stack'[1]),
           \A g \in DOMAIN collection' : \A i, j \in DOMAIN collection'[g] :
              Outermosts(collection'[g][i]) = Outermosts(collection'[g][j]),
           \A g, h \in DOMAIN collection' : g # h =>
              \A i \in DOMAIN collection'[g], j \in DOMAIN collection'[h] :
                  Outermosts(collection'[g][i]) # Outermosts(collection'[h][j]),
           \A g \in DOMAIN collection' : \A i \in DOMAIN collection'[g] :
              /\ stack' # << >> => Outermosts(collection'[g][i]) # Owners(stack'[1])
              /\ Outermosts(collection'[g][i]) \subseteq { truth[k] : k \in 1 .. pos' }
    PROVE  GroupsInv'
<1>1. truth' = truth /\ around' = around
    BY DEF program
<1>2. /\ \A i : Outermosts(entries[i])' = Outermosts(entries'[i])
      /\ \A g, i : Outermosts(collection[g][i])' = Outermosts(collection'[g][i])
      /\ Owners(stack[1])' = Owners(stack'[1])
    BY <1>1 DEF Outermosts, Outermost, Owners, Chain
<1> QED
    BY <1>1, <1>2 DEF GroupsInv

\* A finished entry has one outermost call.
LEMMA OneOutermost ==
    ASSUME NEW e, Filed(e)
    PROVE  \E id \in Traced : Owners(e) = {id} /\ Outermosts(e) = {Outermost(id)}
<1>1. PICK id \in Traced : Describes(e, id)
    BY DEF Filed
<1> QED
    BY <1>1 DEF Describes, Outermosts

\* Reading on changes whose the outermost open entry is only when nothing was
\* open, for a call that left nothing before.
LEMMA OutermostOpen ==
    ASSUME ProgramInv, TypeOK, AlignInv, phase = "read", More, Took(truth[At])
    PROVE  \/ Owners(stack'[1]) = Owners(stack[1])
           \/ /\ Owners(stack[1]) = {} /\ Owners(stack'[1]) = {truth[At]}
              /\ \A j \in 1 .. pos : truth[j] # truth[At]
<1> DEFINE id == truth[At]
<1>1. id \in Ids /\ around[id] \in Seq(Ids)
    BY NextElement, ElementFacts
<1>2. /\ Len(Chain(id)) = Len(around[id]) + 1 /\ Len(around[id]) \in Nat
      /\ Chain(id)[Len(Chain(id))] = id
      /\ \A d \in 1 .. Len(around[id]) : Chain(id)[d] = around[id][d]
    BY <1>1, ChainLast
<1>3. Owners(stack'[1]) = {Chain(id)[1]}
    <2>1. 1 \in DOMAIN stack'
        BY <1>2 DEF Took, FramesAre
    <2> QED
        BY <2>1 DEF Took, FramesAre, FrameOf
<1>4. CASE GoesOn(id)
    <2>1. stack \in Seq(Entry) /\ Len(stack) = Len(Chain(id))
        BY <1>4 DEF TypeOK, GoesOn, FramesAre
    <2>2. 1 \in DOMAIN stack
        BY <1>2, <2>1
    <2> QED
        BY <1>3, <1>4, <2>2 DEF GoesOn, FramesAre, FrameOf
<1>5. CASE BeginsInside(id)
    <2>1. stack \in Seq(Entry) /\ Len(stack) = Len(around[id]) /\ around[id] # << >>
        BY <1>5 DEF TypeOK, BeginsInside, FramesAre
    <2>2. 1 \in DOMAIN stack /\ 1 \in 1 .. Len(around[id])
        BY <1>1, <2>1
    <2>3. Owners(stack[1]) = {around[id][1]}
        BY <1>5, <2>2 DEF BeginsInside, FramesAre, FrameOf
    <2> QED
        BY <1>2, <1>3, <2>2, <2>3
<1>6. CASE BeginsOutermost(id)
    <2>1. Chain(id) = <<id>> /\ stack = <<NewEntry>>
        BY <1>6 DEF BeginsOutermost, Chain
    <2>2. Owners(NewEntry) = {}
        BY DEF Owners, Claimed, Registers, Accesses, NewEntry
    <2>3. stack[1] = NewEntry /\ Chain(id)[1] = id
        BY <2>1
    <2> QED
        BY <1>3, <1>6, <2>2, <2>3 DEF BeginsOutermost, Begins
<1> QED
    BY <1>4, <1>5, <1>6, NextBelongs

\* A frame returns with entries of the outermost open call.
LEMMA GroupsReturn ==
    ASSUME TypeOK, FiledInv, GroupsInv, UNCHANGED <<program, pos>>, stack # << >>,
           NEW list \in Seq(Entry), Return(list),
           \A i \in DOMAIN list : Filed(list[i]) /\ Outermosts(list[i]) = Owners(stack[1]),
           Owners(stack[1]) \subseteq { truth[k] : k \in 1 .. pos }
    PROVE  GroupsInv'
<1> DEFINE open == Owners(stack[1])
<1>1. /\ \A g \in DOMAIN collection : \A i, j \in DOMAIN collection[g] :
            Outermosts(collection[g][i]) = Outermosts(collection[g][j])
      /\ \A g, h \in DOMAIN collection : g # h =>
            \A i \in DOMAIN collection[g], j \in DOMAIN collection[h] :
                Outermosts(collection[g][i]) # Outermosts(collection[h][j])
      /\ \A g \in DOMAIN collection : \A i \in DOMAIN collection[g] :
            /\ Outermosts(collection[g][i]) # open
            /\ Outermosts(collection[g][i]) \subseteq { truth[k] : k \in 1 .. pos }
    BY DEF GroupsInv
<1>2. pos' = pos
    OBVIOUS
<1>3. CASE Len(stack) > 1
    <2>1. entries' = list /\ collection' = collection
        BY <1>3 DEF Return
    <2>2. stack' # << >> /\ stack'[1] = stack[1]
        BY <1>3, ReturnFrames, NotOneFrame DEF TypeOK
    <2>3. \A i \in DOMAIN entries' : stack' # << >> /\ Outermosts(entries'[i]) = Owners(stack'[1])
        BY <2>1, <2>2
    <2>4. /\ \A g \in DOMAIN collection' : \A i, j \in DOMAIN collection'[g] :
                Outermosts(collection'[g][i]) = Outermosts(collection'[g][j])
          /\ \A g, h \in DOMAIN collection' : g # h =>
                \A i \in DOMAIN collection'[g], j \in DOMAIN collection'[h] :
                    Outermosts(collection'[g][i]) # Outermosts(collection'[h][j])
          /\ \A g \in DOMAIN collection' : \A i \in DOMAIN collection'[g] :
                /\ stack' # << >> => Outermosts(collection'[g][i]) # Owners(stack'[1])
                /\ Outermosts(collection'[g][i]) \subseteq { truth[k] : k \in 1 .. pos' }
        BY <1>1, <1>2, <2>1, <2>2
    <2> QED
        BY <2>3, <2>4, GroupsNext
<1>4. CASE Len(stack) = 1 /\ list = << >>
    <2>1. entries' = << >> /\ collection' = collection /\ stack' = << >>
        BY <1>4 DEF Return
    <2>2. \A i \in DOMAIN entries' : stack' # << >> /\ Outermosts(entries'[i]) = Owners(stack'[1])
        BY <2>1
    <2>3. /\ \A g \in DOMAIN collection' : \A i, j \in DOMAIN collection'[g] :
                Outermosts(collection'[g][i]) = Outermosts(collection'[g][j])
          /\ \A g, h \in DOMAIN collection' : g # h =>
                \A i \in DOMAIN collection'[g], j \in DOMAIN collection'[h] :
                    Outermosts(collection'[g][i]) # Outermosts(collection'[h][j])
          /\ \A g \in DOMAIN collection' : \A i \in DOMAIN collection'[g] :
                /\ stack' # << >> => Outermosts(collection'[g][i]) # Owners(stack'[1])
                /\ Outermosts(collection'[g][i]) \subseteq { truth[k] : k \in 1 .. pos' }
        BY <1>1, <1>2, <2>1
    <2> QED
        BY <2>2, <2>3, GroupsNext
<1>5. CASE Len(stack) = 1 /\ list # << >>
    <2> DEFINE n == Len(collection) + 1
    <2>1. /\ entries' = << >> /\ n \notin DOMAIN collection
          /\ DOMAIN collection' = DOMAIN collection \cup {n} /\ collection'[n] = list
          /\ \A g \in DOMAIN collection : collection'[g] = collection[g]
        BY <1>5, ReturnResults, NotOneFrame DEF TypeOK
    <2>2. stack' = <<NewEntry>>
        BY <1>5 DEF Return, FreshEntry
    <2>3. Owners(stack'[1]) = {}
        BY <2>2 DEF Owners, Claimed, Registers, Accesses, NewEntry
    <2> HIDE DEF n, open
    <2>4. \A i \in DOMAIN list :
             Outermosts(list[i]) = open /\ open # {} /\ open \subseteq { truth[k] : k \in 1 .. pos }
        <3> SUFFICES ASSUME NEW i \in DOMAIN list
                     PROVE  Outermosts(list[i]) = open /\ open # {}
                            /\ open \subseteq { truth[k] : k \in 1 .. pos }
            OBVIOUS
        <3>1. Filed(list[i]) /\ Outermosts(list[i]) = open
            BY DEF open
        <3>2. Outermosts(list[i]) # {}
            BY <3>1, OneOutermost
        <3> QED
            BY <3>1, <3>2 DEF open
    <2>5. \A g \in DOMAIN collection : \A i \in DOMAIN collection[g] : Outermosts(collection[g][i]) # {}
        BY OneOutermost DEF FiledInv
    <2>6. \A i \in DOMAIN entries' : stack' # << >> /\ Outermosts(entries'[i]) = Owners(stack'[1])
        BY <2>1
    <2>7. ASSUME NEW g \in DOMAIN collection', NEW i \in DOMAIN collection'[g]
          PROVE  /\ \A j \in DOMAIN collection'[g] :
                       Outermosts(collection'[g][i]) = Outermosts(collection'[g][j])
                 /\ Outermosts(collection'[g][i]) # Owners(stack'[1])
                 /\ Outermosts(collection'[g][i]) \subseteq { truth[k] : k \in 1 .. pos' }
        <3>1. CASE g = n
            BY <1>2, <2>1, <2>3, <2>4, <3>1
        <3>2. CASE g \in DOMAIN collection
            BY <1>1, <1>2, <2>1, <2>3, <2>5, <3>2
        <3> QED
            BY <2>1, <3>1, <3>2
    <2>8. ASSUME NEW g \in DOMAIN collection', NEW h \in DOMAIN collection', g # h,
                 NEW i \in DOMAIN collection'[g], NEW j \in DOMAIN collection'[h]
          PROVE  Outermosts(collection'[g][i]) # Outermosts(collection'[h][j])
        <3>1. CASE g = n
            <4>1. h \in DOMAIN collection
                BY <2>1, <2>8, <3>1
            <4> QED
                BY <1>1, <2>1, <2>4, <2>8, <3>1, <4>1
        <3>2. CASE h = n
            <4>1. g \in DOMAIN collection
                BY <2>1, <2>8, <3>2
            <4> QED
                BY <1>1, <2>1, <2>4, <2>8, <3>2, <4>1
        <3>3. CASE g # n /\ h # n
            <4>1. g \in DOMAIN collection /\ h \in DOMAIN collection
                BY <2>1, <3>3
            <4> QED
                BY <1>1, <2>1, <2>8, <4>1
        <3> QED
            BY <3>1, <3>2, <3>3
    <2> QED
        BY <2>6, <2>7, <2>8, GroupsNext
<1> QED
    BY <1>3, <1>4, <1>5, OneFrame

LEMMA GroupsStep ==
    ASSUME ProgramInv, TypeOK, MergeInv, AlignInv, FiledInv, GroupsInv,
           [Next]_vars, UNCHANGED program
    PROVE  GroupsInv'
<1>1. CASE Took(truth[At]) /\ Consume /\ KeepResults /\ phase = "read" /\ More
    <2> DEFINE id == truth[At]
    <2>1. /\ UNCHANGED <<entries, collection>> /\ pos' = At /\ 1 .. pos \subseteq 1 .. At
        BY <1>1, NextElement DEF KeepResults, Consume, TypeOK
    <2>2. stack' # << >>
        <3>1. Len(stack') = Len(Chain(id)) /\ Chain(id) # << >> /\ Chain(id) \in Seq(Ids)
            BY <1>1, NextElement, ElementFacts, ChainLast DEF Took, FramesAre
        <3> QED
            BY <3>1
    <2>3. \A i \in DOMAIN entries : Outermosts(entries[i]) = Owners(stack[1]) /\ Outermosts(entries[i]) # {}
        BY OneOutermost DEF FiledInv, GroupsInv
    <2>4. \A g \in DOMAIN collection : \A i \in DOMAIN collection[g] :
             /\ Outermosts(collection[g][i]) # Owners(stack[1])
             /\ Outermosts(collection[g][i]) # {}
             /\ Outermosts(collection[g][i]) \subseteq { truth[k] : k \in 1 .. pos }
        <3>1. stack # << >>
            BY <1>1 DEF TypeOK
        <3> QED
            BY <3>1, OneOutermost DEF FiledInv, GroupsInv
    <2>5. \/ Owners(stack'[1]) = Owners(stack[1])
          \/ /\ Owners(stack[1]) = {} /\ Owners(stack'[1]) = {id}
             /\ \A j \in 1 .. pos : truth[j] # id
        BY <1>1, OutermostOpen
    <2> HIDE DEF id
    <2>6. \A i \in DOMAIN entries' : stack' # << >> /\ Outermosts(entries'[i]) = Owners(stack'[1])
        BY <2>1, <2>2, <2>3, <2>5
    <2>7. \A g \in DOMAIN collection' : \A i \in DOMAIN collection'[g] :
             /\ Outermosts(collection'[g][i]) # Owners(stack'[1])
             /\ Outermosts(collection'[g][i]) \subseteq { truth[k] : k \in 1 .. pos' }
        <3> SUFFICES ASSUME NEW g \in DOMAIN collection, NEW i \in DOMAIN collection[g]
                     PROVE  /\ Outermosts(collection[g][i]) # Owners(stack'[1])
                            /\ Outermosts(collection[g][i]) \subseteq { truth[k] : k \in 1 .. pos' }
            BY <2>1
        <3>1. /\ Outermosts(collection[g][i]) # Owners(stack[1])
              /\ Outermosts(collection[g][i]) # {}
              /\ Outermosts(collection[g][i]) \subseteq { truth[k] : k \in 1 .. pos }
            BY <2>4
        <3>2. { truth[k] : k \in 1 .. pos } \subseteq { truth[k] : k \in 1 .. pos' }
            BY <2>1
        <3>3. (\A j \in 1 .. pos : truth[j] # id) => id \notin { truth[k] : k \in 1 .. pos }
            OBVIOUS
        <3> QED
            BY <2>5, <3>1, <3>2, <3>3
    <2>8. /\ \A g \in DOMAIN collection' : \A i, j \in DOMAIN collection'[g] :
                Outermosts(collection'[g][i]) = Outermosts(collection'[g][j])
          /\ \A g, h \in DOMAIN collection' : g # h =>
                \A i \in DOMAIN collection'[g], j \in DOMAIN collection'[h] :
                    Outermosts(collection'[g][i]) # Outermosts(collection'[h][j])
        BY <2>1 DEF GroupsInv
    <2> QED
        BY <2>6, <2>7, <2>8, GroupsNext
<1>2. ASSUME stack # << >> PROVE Owners(stack[1]) \subseteq { truth[k] : k \in 1 .. pos }
    <2>1. stack \in Seq(Entry)
        BY DEF TypeOK
    <2>2. 1 \in DOMAIN stack
        BY <1>2, <2>1
    <2>3. Claimed(stack[1]) \subseteq 1 .. pos
        BY <2>2 DEF MergeInv, OpenInv, Held
    <2> QED
        BY <2>3 DEF Owners
<1>3. \A i \in DOMAIN entries : Filed(entries[i]) /\ Outermosts(entries[i]) = Owners(stack[1])
    BY DEF FiledInv, GroupsInv
<1>4. CASE CloseEntry
    <2> DEFINE id == truth[pos]
    <2> DEFINE list == Append(entries, Top)
    <2>1. /\ id \in Ids /\ around[id] \in Seq(Ids)
          /\ stack \in Seq(Entry) /\ stack # << >> /\ Top \in Entry
          /\ FramesAre(stack, Chain(id)) /\ Describes(Top, id) /\ id \in Traced
          /\ list \in Seq(Entry) /\ list # << >> /\ Return(list) /\ UNCHANGED <<trace, pos>>
        BY <1>4, CloseFacts
    <2>2. Filed(Top) /\ Outermosts(Top) = Owners(stack[1])
        <3>1. OnlyReturns(Top)
            BY <2>1, TopType DEF FiledInv
        <3>2. Owners(Top) = {id}
            BY <2>1 DEF Describes
        <3>3. 1 \in DOMAIN stack
            BY <2>1
        <3>4. Owners(stack[1]) = {Chain(id)[1]}
            BY <2>1, <3>3 DEF FramesAre, FrameOf
        <3> QED
            BY <2>1, <3>1, <3>2, <3>4 DEF Filed, Outermosts, Outermost
    <2>3. entries \in Seq(Entry)
        BY DEF TypeOK
    <2>4. \A i \in DOMAIN list : list[i] = Top \/ (i \in DOMAIN entries /\ list[i] = entries[i])
        BY <2>1, <2>3, OneMore
    <2> HIDE DEF list
    <2>5. \A i \in DOMAIN list : Filed(list[i]) /\ Outermosts(list[i]) = Owners(stack[1])
        BY <1>3, <2>2, <2>4
    <2> QED
        BY <1>2, <2>1, <2>5, GroupsReturn
<1>5. CASE EndOfTrace
    <2>1. /\ Return(entries) /\ UNCHANGED <<trace, pos>> /\ stack # << >> /\ entries \in Seq(Entry)
        BY <1>5 DEF EndOfTrace, TypeOK
    <2> QED
        BY <1>2, <1>3, <2>1, GroupsReturn
<1>6. CASE UNCHANGED <<stack, entries, collection>> /\ pos' \in {pos, At}
    <2>1. { truth[k] : k \in 1 .. pos } \subseteq { truth[k] : k \in 1 .. pos' }
        <3>1. 1 .. pos \subseteq 1 .. pos'
            BY <1>6 DEF TypeOK, At
        <3> QED
            BY <3>1
    <2>2. /\ \A i \in DOMAIN entries' : stack' # << >> /\ Outermosts(entries'[i]) = Owners(stack'[1])
          /\ \A g \in DOMAIN collection' : \A i, j \in DOMAIN collection'[g] :
                Outermosts(collection'[g][i]) = Outermosts(collection'[g][j])
          /\ \A g, h \in DOMAIN collection' : g # h =>
                \A i \in DOMAIN collection'[g], j \in DOMAIN collection'[h] :
                    Outermosts(collection'[g][i]) # Outermosts(collection'[h][j])
        BY <1>6 DEF GroupsInv
    <2>3. \A g \in DOMAIN collection' : \A i \in DOMAIN collection'[g] :
                /\ stack' # << >> => Outermosts(collection'[g][i]) # Owners(stack'[1])
                /\ Outermosts(collection'[g][i]) \subseteq { truth[k] : k \in 1 .. pos' }
        BY <1>6, <2>1 DEF GroupsInv
    <2> QED
        BY <2>2, <2>3, GroupsNext
<1>7. UNCHANGED vars => UNCHANGED <<stack, entries, collection>> /\ pos' = pos
    BY DEF vars
<1> QED
    BY <1>1, <1>4, <1>5, <1>6, <1>7, ReadsTake

-----------------------------------------------------------------------------
(***************************************************************************)
(* Program and merger together.                                            *)
(***************************************************************************)

\* While the program runs the merger has not begun.
Untouched ==
    /\ pos = 0 /\ stack = <<NewEntry>>
    /\ entries = << >> /\ collection = << >> /\ abandoned = << >>
CallTraceInv ==
    /\ ProgramInv
    /\ phase = "running" => Untouched
    /\ phase # "running" => CallInv

\* The merger begins.
LEMMA MergingStarts ==
    ASSUME ProgramInv, Untouched, EndSimulation
    PROVE  CallInv'
<1>1. /\ phase' = "read" /\ UNCHANGED <<program, trace>> /\ pos' = 0 /\ stack' = <<NewEntry>>
      /\ entries' = << >> /\ collection' = << >> /\ abandoned' = << >>
      /\ trace \in Seq(Element)
    BY DEF EndSimulation, Untouched, merger, ProgramInv, Explained
<1>2. /\ DOMAIN stack' = {1} /\ Len(stack') = 1 /\ stack'[1] = NewEntry
      /\ DOMAIN entries' = {} /\ DOMAIN collection' = {} /\ DOMAIN abandoned' = {}
    BY <1>1
<1>3. Claimed(NewEntry) = {} /\ Owners(NewEntry) = {} /\ OnlyReturns(NewEntry)
    BY DEF Claimed, Registers, Accesses, NewEntry, Owners, OnlyReturns
<1>4. TypeOK'
    <2>1. NewEntry \in Entry
        BY NewEntryType
    <2> HIDE DEF NewEntry, Entry, Element
    <2>2. stack' \in Seq(Entry) /\ stack' # << >>
        BY <1>1, <2>1
    <2> QED
        BY <1>1, <2>2 DEF TypeOK
<1>5. MergeInv'
    BY <1>1, <1>2, NewHeld DEF MergeInv, OpenInv, ClosedInv, Top
<1>6. AccessInv'
    BY <1>1, <1>2, <1>3 DEF AccessInv, OnceInv, IsOwner, ReadInv, KeptInv
<1>7. AlignInv'
    <2> DEFINE live == Live(0)
    <2>1. live = << >> /\ live = Live(pos')
        BY <1>1 DEF Live, LiveAfter
    <2> HIDE DEF live
    <2> QED
        BY <1>1, <2>1, AlignNext
<1>8. FiledInv'
    BY <1>1, <1>2, <1>3, FiledNext
<1>9. ReturnsFiled'
    BY <1>1 DEF ReturnsFiled
<1>10. GroupsInv'
    BY <1>2 DEF GroupsInv
<1> QED
    BY <1>4, <1>5, <1>6, <1>7, <1>8, <1>9, <1>10 DEF CallInv

LEMMA CallTraceStarts == ProgramInit => CallTraceInv
BY ProgramStarts DEF ProgramInit, CallTraceInv, Untouched

LEMMA CallTraceStep ==
    ASSUME NoDirectRecursion, CallsAreNoReturns
    PROVE  CallTraceInv /\ [ProgramNext]_allVars => CallTraceInv'
<1> SUFFICES ASSUME CallTraceInv, [ProgramNext]_allVars PROVE CallTraceInv'
    OBVIOUS
<1>1. ProgramInv /\ ProgramInv'
    BY ProgramStep DEF CallTraceInv
<1>2. CASE (\E f \in Names : Invoke(f)) \/ StoreVariable \/ ReturnFrom
    <2>1. phase = "running" /\ phase' = "running" /\ UNCHANGED merger
        BY <1>2 DEF Invoke, StoreVariable, ReturnFrom
    <2> QED
        BY <1>1, <2>1 DEF CallTraceInv, Untouched, merger
<1>3. CASE EndSimulation
    <2>1. phase = "running" /\ phase' # "running" /\ Untouched
        BY <1>3 DEF EndSimulation, CallTraceInv
    <2> QED
        BY <1>1, <1>3, <2>1, MergingStarts DEF CallTraceInv
<1>4. CASE phase # "running" /\ [Next]_vars /\ UNCHANGED program
    <2>1. TypeOK /\ MergeInv /\ AccessInv /\ AlignInv /\ FiledInv /\ ReturnsFiled /\ GroupsInv
        BY <1>4 DEF CallTraceInv, CallInv
    <2>2. TypeOK' /\ MergeInv' /\ AccessInv'
        BY <1>4, <2>1, TypeStep, MergeStep, AccessStep
    <2>3. AlignInv' /\ FiledInv' /\ ReturnsFiled' /\ GroupsInv'
        BY <1>1, <1>4, <2>1, AlignStep, FiledStep, ReturnsFiledStep, GroupsStep
    <2>4. phase' # "running"
        BY <2>2 DEF TypeOK
    <2> QED
        BY <1>1, <2>2, <2>3, <2>4 DEF CallTraceInv, CallInv
<1>5. CASE phase = "running" /\ UNCHANGED allVars
    BY <1>1, <1>5 DEF CallTraceInv, Untouched, allVars, vars
<1>6. Merge => phase # "running" /\ [Next]_vars /\ UNCHANGED program
    BY DEF Merge, Next, Step, AppendPrologue, EnterNested, ExceedRecursion, ReachEpilogue, SwallowCjr,
           CloseEntry, FailToLocate, DataWrite, DataRead, Skip, EndOfTrace, Stopped,
           PrologueElement, EpilogueElement
<1>7. UNCHANGED allVars => [Next]_vars /\ UNCHANGED program
    BY DEF allVars
<1> QED
    BY <1>2, <1>3, <1>4, <1>5, <1>6, <1>7 DEF ProgramNext

\* Every collected entry is that of one call.
LEMMA Collected ==
    ASSUME CallTraceInv, NEW g \in DOMAIN collection, NEW i \in DOMAIN collection[g]
    PROVE  /\ OnlyReturns(collection[g][i]) /\ phase # "running"
           /\ Complete(collection[g][i])
           /\ \E id \in Traced : Describes(collection[g][i], id)
<1>1. phase # "running"
    BY DEF CallTraceInv, Untouched
<1> QED
    BY <1>1 DEF CallTraceInv, CallInv, FiledInv, Filed, MergeInv, ClosedInv

\* A call returns once.
LEMMA ReturnsOnce ==
    ASSUME ProgramInv, NEW j \in 1 .. Len(trace), NEW k \in 1 .. Len(trace),
           Returns(trace[j]), Returns(trace[k]), truth[j] = truth[k]
    PROVE  j = k
<1>1. \A n \in 1 .. Len(trace) : \A m \in 1 .. (n - 1) : Returns(trace[m]) => truth[m] # truth[n]
    BY ElementFacts
<1>2. ~ (j < k) /\ ~ (k < j)
    BY <1>1
<1> QED
    BY <1>2

\* An entry holds the return of its call.
LEMMA EntryHoldsReturn ==
    ASSUME CallTraceInv, NEW g \in DOMAIN collection, NEW i \in DOMAIN collection[g],
           NEW id, id \in Owners(collection[g][i])
    PROVE  \E k \in 1 .. Len(trace) :
              k \in Claimed(collection[g][i]) /\ Returns(trace[k]) /\ truth[k] = id
<1> DEFINE e == collection[g][i]
<1>1. OnlyReturns(e) /\ Complete(e) /\ phase # "running" /\ \E o : Owners(e) = {o}
    <2>1. PICK o \in Traced : Describes(e, o)
        BY Collected
    <2>2. Owners(e) = {o}
        BY <2>1 DEF Describes
    <2> QED
        BY <2>2, Collected
<1>2. PICK k \in e.epilogue : TRUE
    BY <1>1 DEF Complete
<1>3. k \in Claimed(e)
    BY DEF Claimed, Registers
<1>4. truth[k] \in Owners(e)
    BY <1>3 DEF Owners
<1>5. k \in 1 .. pos /\ pos \in 0 .. Len(trace)
    BY <1>1, <1>3 DEF Complete, CallTraceInv, CallInv, TypeOK
<1> QED
    BY <1>1, <1>3, <1>4, <1>5 DEF OnlyReturns

\* An entry that holds something of a call is that of the call.
LEMMA EntryOfCall ==
    ASSUME CallTraceInv, NEW g \in DOMAIN collection, NEW i \in DOMAIN collection[g],
           NEW id \in Owners(collection[g][i])
    PROVE  Owners(collection[g][i]) = {id} /\ id \in Traced
<1>1. PICK o \in Traced : Describes(collection[g][i], o)
    BY Collected
<1>2. Owners(collection[g][i]) = {o}
    BY <1>1 DEF Describes
<1> QED
    BY <1>2

LEMMA CallTraceGivesOneCall == CallTraceInv => OneCallPerEntry
<1> SUFFICES ASSUME CallTraceInv, NEW g \in DOMAIN collection, NEW i \in DOMAIN collection[g]
             PROVE  \E id \in Invocations : /\ Owners(collection[g][i]) = {id}
                                            /\ fnOf[id] = collection[g][i].function_name
    BY DEF OneCallPerEntry
<1> QED
    BY Collected DEF Describes, Traced

LEMMA CallTraceGivesChain == CallTraceInv => ChainIsCallChain
<1> SUFFICES ASSUME CallTraceInv, NEW g \in DOMAIN collection, NEW i \in DOMAIN collection[g]
             PROVE  \E id \in Traced :
                       /\ Owners(collection[g][i]) = {id}
                       /\ collection[g][i].invoke_chain = [k \in DOMAIN Chain(id) |-> fnOf[Chain(id)[k]]]
    BY DEF ChainIsCallChain
<1> QED
    BY Collected DEF Describes

\* The places of a call's entries.
LEMMA EntryPlace ==
    ASSUME NEW id, NEW p
    PROVE  p \in EntriesOf(id) <=>
              \E g \in DOMAIN collection : \E i \in DOMAIN collection[g] :
                  p = <<g, i>> /\ id \in Owners(collection[g][i])
BY DEF EntriesOf

LEMMA CallTraceGivesOneEntry == CallTraceInv => OneEntryPerCall
<1> SUFFICES ASSUME CallTraceInv, phase = "done", NEW id \in Traced
             PROVE  Cardinality(EntriesOf(id)) = IF id \in returned THEN 1 ELSE 0
    BY DEF OneEntryPerCall, Traced
<1>1. /\ ProgramInv /\ pos = Len(trace) /\ entries = << >>
      /\ \A k \in 1 .. Len(trace) : Returns(trace[k]) => HasEntry(k)
    BY DEF CallTraceInv, CallInv, FiledInv, ReturnsFiled, TypeOK, More
<1>2. CASE id \in returned
    <2>1. PICK k \in 1 .. Len(trace) : Returns(trace[k]) /\ truth[k] = id
        <3>1. \E k \in DOMAIN trace : Returns(trace[k]) /\ truth[k] = id
            BY <1>1, <1>2 DEF ProgramInv, ReturnInv, Traced
        <3>2. trace \in Seq(Element)
            BY <1>1 DEF ProgramInv, Explained
        <3> QED
            BY <3>1, <3>2
    <2>2. PICK g \in DOMAIN collection : \E i \in DOMAIN collection[g] : k \in Claimed(collection[g][i])
        BY <1>1, <2>1 DEF HasEntry
    <2>3. PICK i \in DOMAIN collection[g] : k \in Claimed(collection[g][i])
        BY <2>2
    <2>4. <<g, i>> \in EntriesOf(id)
        BY <2>1, <2>3, EntryPlace DEF Owners
    <2>5. ASSUME NEW h \in DOMAIN collection, NEW j \in DOMAIN collection[h],
                 id \in Owners(collection[h][j])
          PROVE  <<h, j>> = <<g, i>>
        <3>1. PICK l \in 1 .. Len(trace) :
                  l \in Claimed(collection[h][j]) /\ Returns(trace[l]) /\ truth[l] = id
            BY <2>5, EntryHoldsReturn
        <3>2. l = k
            BY <1>1, <2>1, <3>1, ReturnsOnce
        <3>3. PICK o : IsOwner(o)
            BY DEF CallTraceInv, CallInv, AccessInv, OnceInv
        <3>4. o[k] = InCollection(g, i) /\ o[k] = InCollection(h, j)
            BY <2>3, <3>1, <3>2, <3>3 DEF IsOwner
        <3> QED
            BY <3>4 DEF InCollection
    <2>6. EntriesOf(id) = {<<g, i>>}
        BY <2>4, <2>5, EntryPlace
    <2> QED
        BY <1>2, <2>6, FS_Singleton
<1>3. CASE id \notin returned
    <2>1. ASSUME NEW g \in DOMAIN collection, NEW i \in DOMAIN collection[g],
                 id \in Owners(collection[g][i])
          PROVE  FALSE
        <3>1. id \in returned
            BY <1>1, <2>1, EntryHoldsReturn DEF ProgramInv, Explained
        <3> QED
            BY <1>3, <3>1
    <2>2. EntriesOf(id) = {}
        BY <2>1, EntryPlace
    <2> QED
        BY <1>3, <2>2, FS_EmptySet
<1> QED
    BY <1>2, <1>3

LEMMA CallTraceGivesGroups == CallTraceInv => GroupPerOutermostCall
<1> SUFFICES ASSUME CallTraceInv, phase = "done", NEW a \in returned, NEW b \in returned,
                    NEW p \in EntriesOf(a), NEW q \in EntriesOf(b)
             PROVE  p[1] = q[1] <=> Outermost(a) = Outermost(b)
    BY DEF GroupPerOutermostCall
<1>1. PICK g \in DOMAIN collection : \E i \in DOMAIN collection[g] :
          p = <<g, i>> /\ a \in Owners(collection[g][i])
    BY EntryPlace
<1>2. PICK i \in DOMAIN collection[g] : p = <<g, i>> /\ a \in Owners(collection[g][i])
    BY <1>1
<1>3. PICK h \in DOMAIN collection : \E j \in DOMAIN collection[h] :
          q = <<h, j>> /\ b \in Owners(collection[h][j])
    BY EntryPlace
<1>4. PICK j \in DOMAIN collection[h] : q = <<h, j>> /\ b \in Owners(collection[h][j])
    BY <1>3
<1>5. Outermosts(collection[g][i]) = {Outermost(a)}
    <2>1. Owners(collection[g][i]) = {a}
        BY <1>2, EntryOfCall
    <2> QED
        BY <2>1 DEF Outermosts
<1>6. Outermosts(collection[h][j]) = {Outermost(b)}
    <2>1. Owners(collection[h][j]) = {b}
        BY <1>4, EntryOfCall
    <2> QED
        BY <2>1 DEF Outermosts
<1>7. g = h <=> Outermosts(collection[g][i]) = Outermosts(collection[h][j])
    BY DEF CallTraceInv, CallInv, GroupsInv
<1> QED
    BY <1>2, <1>4, <1>5, <1>6, <1>7

\* Program and merger keep their invariant together.
LEMMA CallTraceCorrect ==
    ASSUME NoDirectRecursion, CallsAreNoReturns
    PROVE  ProgramSpec => []CallTraceInv
<1>1. CallTraceInv /\ [ProgramNext]_allVars => CallTraceInv'
    BY CallTraceStep
<1> QED
    BY <1>1, CallTraceStarts, PTL DEF ProgramSpec

\* An entry holds one function call and nothing of any other.
THEOREM OneCallCorrect ==
    ASSUME NoDirectRecursion, CallsAreNoReturns
    PROVE  ProgramSpec => []OneCallPerEntry
<1>1. ProgramSpec => []CallTraceInv
    BY CallTraceCorrect
<1> QED
    BY <1>1, CallTraceGivesOneCall, PTL

\* When the merging is over, each call in the window that returned has exactly
\* one entry, and each that had not returned has none.
THEOREM OneEntryCorrect ==
    ASSUME NoDirectRecursion, CallsAreNoReturns
    PROVE  ProgramSpec => []OneEntryPerCall
<1>1. ProgramSpec => []CallTraceInv
    BY CallTraceCorrect
<1> QED
    BY <1>1, CallTraceGivesOneEntry, PTL

\* Two calls are in one group exactly when the same outermost call of the
\* window surrounds them.
THEOREM GroupCorrect ==
    ASSUME NoDirectRecursion, CallsAreNoReturns
    PROVE  ProgramSpec => []GroupPerOutermostCall
<1>1. ProgramSpec => []CallTraceInv
    BY CallTraceCorrect
<1> QED
    BY <1>1, CallTraceGivesGroups, PTL

\* The chain an entry reports is that of the calls in the window that were live
\* at its invocation.
THEOREM CallChainCorrect ==
    ASSUME NoDirectRecursion, CallsAreNoReturns
    PROVE  ProgramSpec => []ChainIsCallChain
<1>1. ProgramSpec => []CallTraceInv
    BY CallTraceCorrect
<1> QED
    BY <1>1, CallTraceGivesChain, PTL
=============================================================================
