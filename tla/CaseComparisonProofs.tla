------------------------ MODULE CaseComparisonProofs ------------------------
(***************************************************************************)
(* The composed pipeline keeps the invariants of its parts, for every set  *)
(* of cases: whatever the binaries, the stores of the programs and the     *)
(* place the trace files are cut at.                                       *)
(*                                                                         *)
(* A step of the pipeline is a step or a stutter of the trace file and of  *)
(* the comparison loop; what ties them together is that the entries built  *)
(* of a trace are collections, and that both sides' are there when the     *)
(* comparison starts.                                                      *)
(***************************************************************************)
EXTENDS CaseComparison, VerificationProofs

\* The walk over the units of one of the case's binaries.
ExtractTypes ==
    /\ case \in Cases
    /\ binary \in {case.binaries[Gr], case.binaries[Uv]}
    /\ extraction \in {"walking", "extracted", "raised"}
    /\ unit \in 1 .. (Len(binary.units) + 1) /\ child \in Nat

\* Entries are built into collections.
Fields == {"taken", "dwrites", "group", "groups"}
AreEntries(b) ==
    /\ b = [f \in Fields |-> b[f]]
    /\ IsSeq(b.group) /\ IsCollection(b.groups)
BuildTypes ==
    /\ AreEntries(building)
    /\ IsSeq(built)
    /\ \A c \in 1 .. Len(built) : IsCollection(built[c])

\* How far the pipeline is, and what it has by then.
StageTypes ==
    /\ side \in {Gr, Uv}
    /\ stage \in {"dwarf", "describe", "simulate", "log", "verify", "done", "aborted"}
    /\ (failed_at # "none") <=> (stage = "aborted")
    /\ IsSeq(infos) /\ Len(infos) <= 2 /\ Len(built) <= 2
    /\ stage = "dwarf" => Len(infos) = side - 1
    /\ stage \notin {"dwarf", "aborted"} => Len(infos) = 2
    /\ stage \in {"dwarf", "describe"} => Len(built) = 0
    /\ stage = "simulate" => Len(built) = side - 1
    /\ stage \in {"log", "verify", "done"} => Len(built) = 2

\* The inductive invariant.
CaseInv == TraceInv /\ VerifyInv /\ ExtractTypes /\ BuildTypes /\ StageTypes

-----------------------------------------------------------------------------
(***************************************************************************)
(* The steps of the pipeline, seen by its parts.                           *)
(***************************************************************************)

\* What is done to the trace file.
LEMMA StepOfTrace ==
    ASSUME CaseNext
    PROVE  TraceStep
<1>1. ASSUME NEW b, StoreAsIn(b)
      PROVE  TraceStep
    <2> DEFINE r == WriteRecord(b[Len(stores) + 1])
    <2>1. /\ parsing = "idle" /\ WriteToTrace(r)
          /\ UNCHANGED <<file_bytes, offset, parsed, parsing>>
        BY <1>1 DEF StoreAsIn, Running
    <2>2. r.type \in RecordTypes
        BY DEF WriteRecord, RecordTypes
    <2> HIDE DEF r
    <2> QED
        BY <2>1, <2>2 DEF TraceStep
<1>2. ASSUME NEW f, NEW s, ReturnFrom(f, s)
      PROVE  TraceStep
    <2> DEFINE r == ReturnRecord(f, s)
    <2>1. /\ parsing = "idle" /\ WriteToTrace(r)
          /\ UNCHANGED <<file_bytes, offset, parsed, parsing>>
        BY <1>2 DEF ReturnFrom, Running
    <2>2. r.type \in RecordTypes
        BY DEF ReturnRecord, RecordTypes
    <2> HIDE DEF r
    <2> QED
        BY <2>1, <2>2 DEF TraceStep
<1>3. ASSUME NEW lost, EndSimulation(lost)
      PROVE  TraceStep
    BY <1>3 DEF EndSimulation, TraceStep
<1>4. CASE EndOfElements
    BY <1>4 DEF EndOfElements, TraceStep
<1>5. CASE Parsing
    BY <1>5 DEF Parsing, TraceStep
<1>6. CASE \/ Extracting \/ ExtractOther \/ BothExtracted \/ Describe
           \/ BuildFromElement \/ StartVerification \/ Verifying \/ Report
           \/ (StageRaises /\ Abort) \/ Terminated
    BY <1>6 DEF Extracting, ExtractOther, BothExtracted, Describe, BuildFromElement,
                StartVerification, Verifying, Report, Abort, Terminated, allVars, TraceStep
<1> QED
    BY <1>1, <1>2, <1>3, <1>4, <1>5, <1>6 DEF CaseNext

\* What is done to the comparison loop.
LEMMA StepOfVerification ==
    ASSUME CaseInv, CaseNext
    PROVE  VerifyStep
<1>1. CASE StartVerification
    <2>1. Len(built) = 2
        BY <1>1 DEF StartVerification, CaseInv, StageTypes
    <2>2. IsCollection(built[Gr]) /\ IsCollection(built[Uv])
        BY <2>1 DEF CaseInv, BuildTypes, Gr, Uv
    <2> QED
        BY <1>1, <2>2 DEF StartVerification, VerifyStep
<1>2. CASE Verifying
    BY <1>2 DEF Verifying, VerifyStep
<1>3. ASSUME NEW b, StoreAsIn(b)
      PROVE  VerifyStep
    BY <1>3 DEF StoreAsIn, VerifyStep
<1>4. ASSUME NEW f, NEW r, ReturnFrom(f, r)
      PROVE  VerifyStep
    BY <1>4 DEF ReturnFrom, VerifyStep
<1>5. ASSUME NEW lost, EndSimulation(lost)
      PROVE  VerifyStep
    BY <1>5 DEF EndSimulation, VerifyStep
<1>6. CASE \/ Extracting \/ ExtractOther \/ BothExtracted \/ Describe \/ Parsing
           \/ BuildFromElement \/ EndOfElements \/ Report
           \/ (StageRaises /\ Abort) \/ Terminated
    BY <1>6 DEF Extracting, ExtractOther, BothExtracted, Describe, Parsing, BuildFromElement,
                EndOfElements, Report, Abort, Terminated, allVars, VerifyStep
<1> QED
    BY <1>1, <1>2, <1>3, <1>4, <1>5, <1>6 DEF CaseNext

\* A binary has finitely many units.
LEMMA UnitsAreFinite ==
    \A c \in Cases : \A s \in {Gr, Uv} : Len(c.binaries[s].units) \in Nat
BY CasesAssumption DEF IsBinary, IsSequence

\* The walk stays within the units of its binary.
LEMMA WalkKeeps ==
    ASSUME ExtractTypes, ExtractNext, UNCHANGED case
    PROVE  ExtractTypes'
<1>1. Len(binary.units) \in Nat
    BY UnitsAreFinite DEF ExtractTypes
<1>2. CASE extract_architecture_information
    BY <1>1, <1>2 DEF extract_architecture_information, AtTopDie, ExtractTypes
<1>3. CASE MissingProducer \/ DieRaises \/ UnsupportedMarch
    BY <1>3 DEF MissingProducer, DieRaises, UnsupportedMarch, RaiseExtraction, ExtractTypes
<1>4. CASE ExtractSubprogram \/ ExtractGlobalVariable \/ PassOver
    BY <1>4 DEF ExtractSubprogram, ExtractGlobalVariable, PassOver, NextDie, ExtractTypes
<1>5. CASE EndUnit
    BY <1>1, <1>5 DEF EndUnit, ExtractTypes
<1>6. CASE FinishExtraction
    BY <1>6 DEF FinishExtraction, ExtractTypes
<1> QED
    BY <1>2, <1>3, <1>4, <1>5, <1>6 DEF ExtractNext

\* And the other binary's begins at its first one.
LEMMA StepOfExtraction ==
    ASSUME CaseInv, CaseNext
    PROVE  ExtractTypes'
<1>1. CASE Extracting
    BY <1>1, WalkKeeps DEF Extracting, caseVars, CaseInv
<1>2. CASE ExtractOther
    <2>1. /\ case' = case /\ binary' = case.binaries[Uv] /\ unit' = 1 /\ child' = 0
          /\ extraction' = "walking"
        BY <1>2 DEF ExtractOther, ExtractFrom, StartExtraction
    <2>2. Len(case.binaries[Uv].units) \in Nat
        BY UnitsAreFinite DEF CaseInv, ExtractTypes
    <2> QED
        BY <2>1, <2>2 DEF CaseInv, ExtractTypes
<1>3. ASSUME UNCHANGED <<extractVars, case>>
      PROVE  ExtractTypes'
    BY <1>3 DEF extractVars, CaseInv, ExtractTypes
<1>4. ASSUME NEW b, StoreAsIn(b)
      PROVE  ExtractTypes'
    BY <1>3, <1>4 DEF StoreAsIn
<1>5. ASSUME NEW f, NEW r, ReturnFrom(f, r)
      PROVE  ExtractTypes'
    BY <1>3, <1>5 DEF ReturnFrom
<1>6. ASSUME NEW lost, EndSimulation(lost)
      PROVE  ExtractTypes'
    BY <1>3, <1>6 DEF EndSimulation
<1>7. CASE \/ BothExtracted \/ Describe \/ Parsing \/ BuildFromElement \/ EndOfElements
           \/ StartVerification \/ Verifying \/ Report \/ (StageRaises /\ Abort) \/ Terminated
    BY <1>3, <1>7 DEF BothExtracted, Describe, Parsing, BuildFromElement, EndOfElements,
                      StartVerification, Verifying, Report, Abort, Terminated, allVars, caseVars
<1> QED
    BY <1>1, <1>2, <1>4, <1>5, <1>6, <1>7 DEF CaseNext

-----------------------------------------------------------------------------
(***************************************************************************)
(* Entries and stages.                                                     *)
(***************************************************************************)

\* A group that is closed makes a longer collection.
LEMMA AppendIsCollection ==
    ASSUME NEW c, IsCollection(c), NEW g, IsSeq(g)
    PROVE  IsCollection(Append(c, g))
<1>1. /\ IsSeq(c) /\ Len(c) \in Nat
      /\ IsSeq(Append(c, g)) /\ Len(Append(c, g)) = Len(c) + 1
      /\ Append(c, g)[Len(c) + 1] = g
      /\ \A i \in 1 .. Len(c) : Append(c, g)[i] = c[i]
    BY AppendIsSeq, SeqDomain DEF IsCollection
<1>2. ASSUME NEW i \in 1 .. (Len(c) + 1)
      PROVE  IsSeq(Append(c, g)[i])
    <2>1. i \in 1 .. Len(c) \/ i = Len(c) + 1
        BY <1>1
    <2> QED
        BY <2>1, <1>1 DEF IsCollection
<1> QED
    BY <1>1, <1>2 DEF IsCollection

\* No entries are entries.
LEMMA NothingIsEntries == AreEntries(NothingBuilt)
<1>1. IsCollection(<< >>)
    BY EmptyIsSeq DEF IsCollection
<1>2. NothingBuilt = [f \in Fields |-> NothingBuilt[f]]
    BY DEF NothingBuilt, Fields
<1>3. NothingBuilt.group = << >> /\ NothingBuilt.groups = << >>
    BY DEF NothingBuilt
<1> QED
    BY <1>1, <1>2, <1>3, EmptyIsSeq DEF AreEntries

\* An element of the trace keeps what is being built in shape.
LEMMA AddElementKeeps ==
    ASSUME NEW info, NEW b, AreEntries(b), NEW e, NEW t
    PROVE  AreEntries([AddElement(info, b, e) EXCEPT !.taken = t])
<1> DEFINE group == Append(b.group, Entry(info, b.dwrites, e))
<1> DEFINE longer == append_dwrite(b.dwrites, e)
<1> DEFINE closed == Append(b.groups, group)
<1> DEFINE empty == << >>
<1>1. IsSeq(group) /\ IsCollection(closed)
    BY AppendIsSeq, AppendIsCollection DEF AreEntries
<1>2. IsSeq(empty)
    BY EmptyIsSeq
<1> HIDE DEF longer
<1>3. AddElement(info, b, e) \in
        { [b EXCEPT !.dwrites = longer],
          [b EXCEPT !.dwrites = NoWrites, !.group = empty, !.groups = closed],
          [b EXCEPT !.dwrites = NoWrites, !.group = group] }
    BY DEF AddElement, group, longer, closed, empty
<1> HIDE DEF group, closed, empty
<1>4. b = [f \in Fields |-> b[f]] /\ IsSeq(b.group) /\ IsCollection(b.groups)
    BY DEF AreEntries
<1>5. ASSUME NEW d, NEW g, NEW gs, IsSeq(g), IsCollection(gs)
      PROVE  AreEntries([f \in Fields |-> CASE f = "taken"   -> t
                                            [] f = "dwrites" -> d
                                            [] f = "group"   -> g
                                            [] OTHER         -> gs])
    BY <1>5 DEF AreEntries, Fields
<1>6. CASE AddElement(info, b, e) = [b EXCEPT !.dwrites = longer]
    <2>1. [AddElement(info, b, e) EXCEPT !.taken = t]
            = [f \in Fields |-> CASE f = "taken"   -> t
                                  [] f = "dwrites" -> longer
                                  [] f = "group"   -> b.group
                                  [] OTHER         -> b.groups]
        BY <1>4, <1>6 DEF Fields
    <2>2. AreEntries([f \in Fields |-> CASE f = "taken"   -> t
                                         [] f = "dwrites" -> longer
                                         [] f = "group"   -> b.group
                                         [] OTHER         -> b.groups])
        BY <1>4, <1>5
    <2> QED
        BY <2>1, <2>2
<1>7. CASE AddElement(info, b, e) = [b EXCEPT !.dwrites = NoWrites, !.group = empty, !.groups = closed]
    <2>1. [AddElement(info, b, e) EXCEPT !.taken = t]
            = [f \in Fields |-> CASE f = "taken"   -> t
                                  [] f = "dwrites" -> NoWrites
                                  [] f = "group"   -> empty
                                  [] OTHER         -> closed]
        BY <1>4, <1>7 DEF Fields
    <2>2. AreEntries([f \in Fields |-> CASE f = "taken"   -> t
                                         [] f = "dwrites" -> NoWrites
                                         [] f = "group"   -> empty
                                         [] OTHER         -> closed])
        BY <1>1, <1>2, <1>5
    <2> QED
        BY <2>1, <2>2
<1>8. CASE AddElement(info, b, e) = [b EXCEPT !.dwrites = NoWrites, !.group = group]
    <2>1. [AddElement(info, b, e) EXCEPT !.taken = t]
            = [f \in Fields |-> CASE f = "taken"   -> t
                                  [] f = "dwrites" -> NoWrites
                                  [] f = "group"   -> group
                                  [] OTHER         -> b.groups]
        BY <1>4, <1>8 DEF Fields
    <2>2. AreEntries([f \in Fields |-> CASE f = "taken"   -> t
                                         [] f = "dwrites" -> NoWrites
                                         [] f = "group"   -> group
                                         [] OTHER         -> b.groups])
        BY <1>1, <1>4, <1>5
    <2> QED
        BY <2>1, <2>2
<1> QED
    BY <1>3, <1>6, <1>7, <1>8

\* What is built of the elements.
LEMMA BuildKeeps ==
    ASSUME CaseInv, CaseNext
    PROVE  BuildTypes'
<1>1. CASE BuildFromElement
    <2>1. built' = built
        BY <1>1 DEF BuildFromElement
    <2>2. AreEntries(building)
        BY DEF CaseInv, BuildTypes
    <2>3. AreEntries(building')
        <3>1. PICK info, e, t : building' = [AddElement(info, building, e) EXCEPT !.taken = t]
            BY <1>1 DEF BuildFromElement
        <3>2. AreEntries([AddElement(info, building, e) EXCEPT !.taken = t])
            BY <2>2, AddElementKeeps
        <3> QED
            BY <3>1, <3>2
    <2> QED
        BY <2>1, <2>3 DEF CaseInv, BuildTypes
<1>2. CASE EndOfElements
    <2> DEFINE c == IF building.group = << >> THEN building.groups
                    ELSE Append(building.groups, building.group)
    <2>1. built' = Append(built, c) /\ building' = NothingBuilt
        BY <1>2 DEF EndOfElements
    <2>2. IsCollection(c)
        BY AppendIsCollection DEF CaseInv, BuildTypes, AreEntries
    <2>3. AreEntries(NothingBuilt)
        BY NothingIsEntries
    <2> HIDE DEF c
    <2>4. /\ IsSeq(built) /\ Len(built) \in Nat
          /\ IsSeq(built') /\ Len(built') = Len(built) + 1
          /\ built'[Len(built) + 1] = c
          /\ \A i \in 1 .. Len(built) : built'[i] = built[i]
        BY <2>1, AppendIsSeq, SeqDomain DEF CaseInv, BuildTypes
    <2>5. ASSUME NEW i \in 1 .. (Len(built) + 1)
          PROVE  IsCollection(built'[i])
        <3>1. i \in 1 .. Len(built) \/ i = Len(built) + 1
            BY <2>4
        <3> QED
            BY <3>1, <2>2, <2>4 DEF CaseInv, BuildTypes
    <2> QED
        BY <2>1, <2>3, <2>4, <2>5 DEF BuildTypes
<1>3. ASSUME UNCHANGED <<building, built>>
      PROVE  BuildTypes'
    BY <1>3 DEF CaseInv, BuildTypes
<1>4. ASSUME NEW b, StoreAsIn(b)
      PROVE  BuildTypes'
    BY <1>3, <1>4 DEF StoreAsIn
<1>5. ASSUME NEW f, NEW r, ReturnFrom(f, r)
      PROVE  BuildTypes'
    BY <1>3, <1>5 DEF ReturnFrom
<1>6. ASSUME NEW lost, EndSimulation(lost)
      PROVE  BuildTypes'
    BY <1>3, <1>6 DEF EndSimulation
<1>7. CASE \/ Extracting \/ ExtractOther \/ BothExtracted \/ Describe \/ Parsing
           \/ StartVerification \/ Verifying \/ Report \/ (StageRaises /\ Abort) \/ Terminated
    BY <1>3, <1>7 DEF Extracting, ExtractOther, BothExtracted, Describe, Parsing,
                      StartVerification, Verifying, Report, Abort, Terminated, allVars, caseVars
<1> QED
    BY <1>1, <1>2, <1>4, <1>5, <1>6, <1>7 DEF CaseNext

\* The stages follow one another, each with what the one before it made.
LEMMA StageKeeps ==
    ASSUME CaseInv, CaseNext
    PROVE  StageTypes'
<1>1. /\ IsSeq(infos) /\ Len(infos) \in Nat /\ IsSeq(built) /\ Len(built) \in Nat
      /\ side \in {1, 2}
    BY SeqDomain DEF CaseInv, StageTypes, BuildTypes, Gr, Uv
<1>2. /\ IsSeq(Append(infos, dwarf_info)) /\ Len(Append(infos, dwarf_info)) = Len(infos) + 1
    BY <1>1, AppendIsSeq
<1>3. CASE ExtractOther
    <2>1. /\ stage = "dwarf" /\ stage' = "dwarf" /\ side = 1 /\ side' = 2 /\ built' = built
          /\ infos' = Append(infos, dwarf_info) /\ failed_at' = failed_at
        BY <1>3 DEF ExtractOther, Gr, Uv
    <2>2. /\ Len(infos) = 0 /\ Len(infos') = 1 /\ IsSeq(infos') /\ Len(built') = 0
          /\ failed_at = "none"
        BY <2>1, <1>1, <1>2 DEF CaseInv, StageTypes
    <2> QED
        BY <2>1, <2>2 DEF StageTypes, Gr, Uv
<1>4. CASE BothExtracted
    <2>1. /\ stage = "dwarf" /\ stage' = "describe" /\ side' = 2 /\ side = 2 /\ built' = built
          /\ infos' = Append(infos, dwarf_info) /\ failed_at' = failed_at
        BY <1>4 DEF BothExtracted, Gr, Uv
    <2>2. Len(infos) = 1 /\ Len(built') = 0 /\ failed_at = "none"
        BY <2>1 DEF CaseInv, StageTypes
    <2>3. Len(infos') = 2 /\ IsSeq(infos')
        BY <2>1, <2>2, <1>2
    <2> QED
        BY <2>1, <2>2, <2>3 DEF StageTypes, Gr, Uv
<1>5. CASE Describe
    <2>1. /\ stage = "describe" /\ stage' = "simulate" /\ side' = 1
          /\ UNCHANGED <<built, infos, failed_at>>
        BY <1>5 DEF Describe, Gr
    <2> QED
        BY <2>1, <1>1 DEF CaseInv, StageTypes, Gr, Uv
<1>6. CASE EndOfElements
    <2>1. \E c : built' = Append(built, c)
        BY <1>6 DEF EndOfElements
    <2>2. Len(built') = Len(built) + 1
        BY <2>1, <1>1, AppendIsSeq
    <2>3. /\ stage = "simulate" /\ UNCHANGED <<infos, failed_at>>
          /\ \/ side = 1 /\ side' = 2 /\ stage' = "simulate"
             \/ side = 2 /\ side' = 2 /\ stage' = "log"
        BY <1>1, <1>6 DEF EndOfElements, Building, Gr, Uv
    <2> QED
        BY <2>2, <2>3, <1>1 DEF CaseInv, StageTypes, Gr, Uv
<1>7. CASE StartVerification \/ Report
    <2>1. /\ \/ stage = "log" /\ stage' = "verify"
             \/ stage = "verify" /\ stage' = "done"
          /\ UNCHANGED <<side, infos, built, failed_at>>
        BY <1>7 DEF StartVerification, Report
    <2> QED
        BY <2>1, <1>1 DEF CaseInv, StageTypes
<1>8. CASE StageRaises /\ Abort
    <2>1. /\ stage' = "aborted" /\ failed_at' = stage
          /\ UNCHANGED <<side, infos, built>>
          /\ stage \in {"dwarf", "describe", "simulate", "log", "verify"}
        BY <1>8 DEF Abort, StageRaises
    <2> QED
        BY <2>1, <1>1 DEF CaseInv, StageTypes
<1>9. ASSUME UNCHANGED <<stage, side, infos, built, failed_at>>
      PROVE  StageTypes'
    BY <1>9 DEF CaseInv, StageTypes
<1>10. ASSUME NEW b, StoreAsIn(b)
       PROVE  StageTypes'
    BY <1>9, <1>10 DEF StoreAsIn
<1>11. ASSUME NEW f, NEW r, ReturnFrom(f, r)
       PROVE  StageTypes'
    BY <1>9, <1>11 DEF ReturnFrom
<1>12. ASSUME NEW lost, EndSimulation(lost)
       PROVE  StageTypes'
    BY <1>9, <1>12 DEF EndSimulation
<1>13. CASE Extracting \/ Parsing \/ BuildFromElement \/ Verifying \/ Terminated
    BY <1>9, <1>13 DEF Extracting, Parsing, BuildFromElement, Verifying, Terminated,
                       allVars, caseVars
<1> QED
    BY <1>3, <1>4, <1>5, <1>6, <1>7, <1>8, <1>10, <1>11, <1>12, <1>13 DEF CaseNext

-----------------------------------------------------------------------------
(***************************************************************************)
(* The theorems.                                                           *)
(***************************************************************************)

\* The invariant holds when a case is begun.
LEMMA CaseStarts ==
    ASSUME CaseInit
    PROVE  CaseInv
<1>1. TraceInv /\ VerifyInv
    BY TraceStarts, VerifyStarts DEF CaseInit
<1>2. ExtractTypes
    BY UnitsAreFinite DEF CaseInit, ExtractInit, ExtractTypes
<1>3. BuildTypes
    BY NothingIsEntries, EmptyIsSeq DEF CaseInit, BuildTypes
<1>4. StageTypes
    BY EmptyIsSeq DEF CaseInit, StageTypes, Gr, Uv
<1> QED
    BY <1>1, <1>2, <1>3, <1>4 DEF CaseInv

\* And every step of the pipeline keeps it.
LEMMA CaseStepKeeps ==
    ASSUME CaseInv, [CaseNext]_allVars
    PROVE  CaseInv'
<1>1. CASE CaseNext
    <2>1. TraceInv'
        BY <1>1, StepOfTrace, TraceStepKeeps DEF CaseInv
    <2>2. VerifyInv'
        BY <1>1, StepOfVerification, VerifyStepKeeps DEF CaseInv
    <2> QED
        BY <1>1, <2>1, <2>2, StepOfExtraction, BuildKeeps, StageKeeps DEF CaseInv
<1>2. CASE UNCHANGED allVars
    <2>1. TraceInv'
        BY <1>2, TraceStepKeeps DEF allVars, TraceStep, CaseInv
    <2>2. VerifyInv'
        BY <1>2, VerifyStepKeeps DEF allVars, VerifyStep, CaseInv
    <2> QED
        BY <1>2, <2>1, <2>2 DEF allVars, extractVars, caseVars, CaseInv, ExtractTypes, BuildTypes,
                                StageTypes
<1> QED
    BY <1>1, <1>2

\* The inductive invariant.
LEMMA CaseInductive == CaseSpec => []CaseInv
BY CaseStarts, CaseStepKeeps, PTL DEF CaseSpec

\* Whatever the programs store and wherever a trace file is cut: what the
\* parser accepts is an unaltered beginning of what was written and ends where
\* the file does, but for a part of one type field (parse_trace_file).
THEOREM ParsedIsWholeOrRaised == CaseSpec => []WholeOrRaised
<1>1. CaseInv => WholeOrRaised
    BY TraceInvGives DEF CaseInv
<1> QED
    BY <1>1, CaseInductive, PTL

\* Whatever the collections hold and however two entries are compared: each
\* pair is compared once and in order, the counters count them and those that
\* failed, and a summary is reached only with collections of one shape and
\* nothing left out (verify_entries, compare_entries).
THEOREM ComparisonIsComplete == CaseSpec => []EachPairCompared
<1>1. CaseInv => EachPairCompared
    BY VerifyInvGives DEF CaseInv
<1> QED
    BY <1>1, CaseInductive, PTL

\* Types and shape of the composed state.
THEOREM CaseTypeCorrect == CaseSpec => []CaseTypeOK
<1>1. ASSUME CaseInv
      PROVE  CaseTypeOK
    <2>1. offset \in Nat /\ file_bytes \in Nat
        <3>1. Len(parsed) \in Nat /\ Len(trace_file) \in Nat /\ Len(parsed) <= Len(trace_file)
              /\ offset = EndOf(Len(parsed)) /\ file_bytes \in Nat
            BY <1>1, SeqDomain DEF CaseInv, TraceInv, WellWritten, AtBorder
        <3> QED
            BY <1>1, <3>1, EndsAreBytes DEF CaseInv, TraceInv
    <2>2. counters \in [compared : Nat, failed : Nat]
        <3>1. Len(verification_entries) \in Nat /\ Cardinality(FailedEntries) \in Nat
            BY <1>1, SeqDomain, FS_CardinalityType DEF CaseInv, VerifyInv, VerifyTypes, Counted
        <3> QED
            BY <1>1, <3>1 DEF CaseInv, VerifyInv, Counted
    <2>3. /\ parsing \in {"idle", "reading", "parsed", "raised"}
          /\ verifying \in {"idle", "verifying", "verified", "raised"}
          /\ idx_0 \in Nat \ {0} /\ idx_1 \in Nat \ {0}
        BY <1>1 DEF CaseInv, TraceInv, VerifyInv, VerifyTypes
    <2>4. /\ extraction \in {"walking", "extracted", "raised"}
          /\ unit \in 1 .. (Len(binary.units) + 1) /\ child \in Nat
        BY <1>1 DEF CaseInv, ExtractTypes
    <2> QED
        BY <1>1, <2>1, <2>2, <2>3, <2>4 DEF CaseTypeOK, CaseInv, StageTypes, Sides
<1> QED
    BY <1>1, CaseInductive, PTL

-----------------------------------------------------------------------------
(***************************************************************************)
(* From the stores of the programs to the entries built of their traces.   *)
(***************************************************************************)
\* Stores as the programs of the cases make them.
StoreType == [address : Nat, data : Seq(0 .. 255)]
GoodStores(s) ==
    /\ s \in Seq(StoreType)
    /\ \A i \in DOMAIN s : Len(s[i].data) \in 1 .. BufferBytes

\* Calls that returned.
GoodCalls(calls) ==
    /\ IsSeq(calls)
    /\ \A m \in 1 .. Len(calls) : GoodStores(calls[m].stores)

\* What the calls did, and when the traces are still to come.
HistoryInv ==
    /\ DOMAIN executed = {Gr, Uv}
    /\ GoodCalls(executed[Gr]) /\ GoodCalls(executed[Uv])
    /\ GoodStores(stores)
    /\ stage \in {"dwarf", "describe"} =>
          trace_file = << >> /\ parsing = "idle" /\ stores = << >> /\ executed[Gr] = << >>
    /\ stage \in {"dwarf", "describe"} \/ (stage = "simulate" /\ side = Gr) => executed[Uv] = << >>
    /\ parsing # "idle" => stores = << >>
    /\ parsing # "parsed" => building = NothingBuilt

\* The stores s are in the trace, behind its first `from' records.
StoresAt(tr, s, from) == \A i \in 1 .. Len(s) : tr[from + i] = WriteRecord(s[i])

\* So is a call, its return at `to'.
CallAt(tr, call, from, to) ==
    /\ to = from + Len(call.stores) + 1
    /\ StoresAt(tr, call.stores, from)
    /\ tr[to] = ReturnRecord(call.function, call.state)

\* The trace holds the calls one after the other, the m-th up to `end[m]', and
\* behind them the stores of the call that did not return.
Records(tr, calls, tail, end) ==
    /\ end[0] = 0
    /\ \A m \in 1 .. Len(calls) : CallAt(tr, calls[m], end[m - 1], end[m])
    /\ StoresAt(tr, tail, end[Len(calls)])
    /\ \A m \in 0 .. Len(calls) : end[m] <= Len(tr)
    /\ Len(tr) = end[Len(calls)] + Len(tail)

\* The m-th call's stores, those of the call that did not return behind them.
StoresOf(calls, tail, m) == IF m <= Len(calls) THEN calls[m].stores ELSE tail

\* A dictionary of writes holds the first j stores, under each location the
\* latest one last.
Written(dwrites, s, j) ==
    /\ DOMAIN dwrites = { PaddedKey(s[i].address) : i \in 1 .. j }
    /\ \A k \in DOMAIN dwrites : IsSeq(dwrites[k])
    /\ \A i \in 1 .. j : (\A h \in i + 1 .. j : s[h].address # s[i].address) =>
          Last(dwrites[PaddedKey(s[i].address)])
              = [location |-> PaddedKey(s[i].address), data |-> s[i].data]

\* An entry is that of a call.
Describes(e, info, call) ==
    /\ e = Entry(info, e.dwrites, ReturnRecord(call.function, call.state))
    /\ Written(e.dwrites, call.stores, Len(call.stores))
EntriesDescribe(entries, info, calls) ==
    /\ IsSeq(entries)
    /\ Len(entries) <= Len(calls)
    /\ \A k \in 1 .. Len(entries) : Describes(entries[k], info, calls[k])

\* The elements taken are those of m whole calls and j stores of the next.
Took(b, info, calls, tail, end, m, j) ==
    /\ b.taken = end[m] + j
    /\ Written(b.dwrites, StoresOf(calls, tail, m + 1), j)
    /\ Len(AllElements(b.groups, b.group)) = m
    /\ EntriesDescribe(AllElements(b.groups, b.group), info, calls)

\* The trace is that of the calls, and what has been built of it so far.
Progress(tr, calls, idle, st, b, info) ==
    \E tail, end :
        /\ GoodStores(tail) /\ end \in [0 .. Len(calls) -> Nat]
        /\ Records(tr, calls, tail, end)
        /\ idle => tail = st
        /\ \E m \in 0 .. Len(calls) : \E j \in 0 .. Len(StoresOf(calls, tail, m + 1)) :
              Took(b, info, calls, tail, end, m, j)
RecordInv ==
    stage = "simulate" =>
        Progress(trace_file, executed[side], parsing = "idle", stores, building, infos[side])

BuiltInv ==
    \A c \in 1 .. Len(built) : EntriesDescribe(Entries(c), infos[c], executed[c])

-----------------------------------------------------------------------------
\* What is in a sequence of stores.
LEMMA GoodStoresAre ==
    ASSUME NEW s, GoodStores(s)
    PROVE  /\ IsSeq(s) /\ Len(s) \in Nat /\ DOMAIN s = 1 .. Len(s)
           /\ \A i \in 1 .. Len(s) : /\ s[i].address \in Nat /\ s[i].data \in Seq(0 .. 255)
                                     /\ Len(s[i].data) \in 1 .. BufferBytes
<1>1. IsSeq(s)
    BY DEF GoodStores, IsSeq
<1>2. \A i \in 1 .. Len(s) : s[i] \in StoreType
    BY DEF GoodStores
<1>3. \A x \in StoreType : x.address \in Nat /\ x.data \in Seq(0 .. 255)
    BY DEF StoreType
<1> QED
    BY <1>1, <1>2, <1>3, SeqDomain DEF GoodStores

\* A call that stored nothing.
LEMMA NoStores == GoodStores(<< >>)
BY DEF GoodStores

\* One more store, of a body of the case.
LEMMA GoodStoresGrow ==
    ASSUME NEW s, GoodStores(s), NEW b, GoodStores(b), NEW i \in 1 .. Len(b)
    PROVE  GoodStores(Append(s, b[i]))
<1>1. b[i] \in StoreType /\ Len(b[i].data) \in 1 .. BufferBytes
    BY DEF GoodStores
<1>2. s \in Seq(StoreType)
    BY DEF GoodStores
<1>3. Append(s, b[i]) \in Seq(StoreType)
    BY <1>1, <1>2
<1>4. /\ Len(s) \in Nat /\ Len(Append(s, b[i])) = Len(s) + 1
      /\ Append(s, b[i])[Len(s) + 1] = b[i]
      /\ \A h \in 1 .. Len(s) : Append(s, b[i])[h] = s[h]
    BY <1>2, AppendIsSeq, SeqDomain DEF IsSeq
<1>5. ASSUME NEW h \in 1 .. Len(s) + 1
      PROVE  Len(Append(s, b[i])[h].data) \in 1 .. BufferBytes
    <2>1. h \in 1 .. Len(s) \/ h = Len(s) + 1
        BY <1>4
    <2>2. CASE h \in 1 .. Len(s)
        BY <2>2, <1>4 DEF GoodStores
    <2>3. CASE h = Len(s) + 1
        BY <2>3, <1>1, <1>4
    <2> QED
        BY <2>1, <2>2, <2>3
<1>6. DOMAIN Append(s, b[i]) = 1 .. Len(s) + 1
    BY <1>3, <1>4
<1> QED
    BY <1>3, <1>5, <1>6 DEF GoodStores

-----------------------------------------------------------------------------
\* What is in the trace stays where it is.
LEMMA StoresAtStay ==
    ASSUME NEW tr, IsSeq(tr), NEW r, NEW s, GoodStores(s), NEW from \in Nat,
           from + Len(s) <= Len(tr), StoresAt(tr, s, from)
    PROVE  StoresAt(Append(tr, r), s, from)
<1>1. Len(s) \in Nat /\ Len(tr) \in Nat
    BY GoodStoresAre, SeqDomain
<1>2. \A i \in 1 .. Len(tr) : Append(tr, r)[i] = tr[i]
    BY AppendIsSeq
<1>3. \A i \in 1 .. Len(s) : from + i \in 1 .. Len(tr)
    BY <1>1
<1> QED
    BY <1>2, <1>3 DEF StoresAt

\* What is behind a call in the trace does not move it.
LEMMA CallAtStays ==
    ASSUME NEW tr, IsSeq(tr), NEW r, NEW call, GoodStores(call.stores), NEW from \in Nat,
           NEW to \in Nat, to <= Len(tr), CallAt(tr, call, from, to)
    PROVE  CallAt(Append(tr, r), call, from, to)
<1>1. Len(call.stores) \in Nat /\ Len(tr) \in Nat
    BY GoodStoresAre, SeqDomain
<1>2. to = from + Len(call.stores) + 1 /\ StoresAt(tr, call.stores, from)
    BY DEF CallAt
<1>3. to \in 1 .. Len(tr) /\ from + Len(call.stores) <= Len(tr)
    BY <1>1, <1>2
<1>4. Append(tr, r)[to] = tr[to]
    BY <1>3, AppendIsSeq
<1>5. StoresAt(Append(tr, r), call.stores, from)
    BY <1>2, <1>3, StoresAtStay
<1> QED
    BY <1>4, <1>5 DEF CallAt

\* A store is the trace's last record.
LEMMA RecordsStore ==
    ASSUME NEW tr, IsSeq(tr), NEW calls, GoodCalls(calls), NEW tail, GoodStores(tail), NEW end,
           end \in [0 .. Len(calls) -> Nat],
           Records(tr, calls, tail, end), NEW s
    PROVE  Records(Append(tr, WriteRecord(s)), calls, Append(tail, s), end)
<1> DEFINE n == Len(calls)
<1> DEFINE long == Append(tr, WriteRecord(s))
<1> DEFINE more == Append(tail, s)
<1>1. n \in Nat /\ Len(tr) \in Nat /\ Len(tail) \in Nat /\ \A m \in 0 .. n : end[m] \in Nat
    BY SeqDomain, GoodStoresAre DEF GoodCalls
<1>2. Len(long) = Len(tr) + 1 /\ long[Len(tr) + 1] = WriteRecord(s)
    BY AppendIsSeq
<1>3. /\ Len(more) = Len(tail) + 1 /\ more[Len(tail) + 1] = s
      /\ \A i \in 1 .. Len(tail) : more[i] = tail[i]
    BY AppendIsSeq, GoodStoresAre
<1>4. Len(tr) = end[n] + Len(tail) /\ end[0] = 0 /\ \A m \in 0 .. n : end[m] <= Len(tr)
    BY DEF Records
<1>5. ASSUME NEW m \in 1 .. n
      PROVE  CallAt(long, calls[m], end[m - 1], end[m])
    <2>1. m \in 0 .. n /\ m - 1 \in 0 .. n
        BY <1>1
    <2>2. end[m] \in Nat /\ end[m - 1] \in Nat /\ end[m] <= Len(tr)
        BY <2>1, <1>1, <1>4
    <2>3. CallAt(tr, calls[m], end[m - 1], end[m]) /\ GoodStores(calls[m].stores)
        BY DEF Records, GoodCalls
    <2> QED
        BY <2>2, <2>3, CallAtStays
<1>6. StoresAt(long, more, end[n])
    <2>1. StoresAt(long, tail, end[n])
        <3>1. end[n] \in Nat /\ end[n] + Len(tail) <= Len(tr) /\ StoresAt(tr, tail, end[n])
            BY <1>1, <1>4 DEF Records
        <3> QED
            BY <3>1, StoresAtStay
    <2>2. end[n] + Len(more) = Len(tr) + 1 /\ end[n] \in Nat
        BY <1>1, <1>3, <1>4
    <2>3. ASSUME NEW i \in 1 .. Len(more)
          PROVE  long[end[n] + i] = WriteRecord(more[i])
        <3>1. i \in 1 .. Len(tail) \/ i = Len(more)
            BY <1>1, <1>3
        <3>2. CASE i \in 1 .. Len(tail)
            BY <3>2, <2>1, <1>3 DEF StoresAt
        <3>3. CASE i = Len(more)
            BY <3>3, <2>2, <1>2, <1>3
        <3> QED
            BY <3>1, <3>2, <3>3
    <2> HIDE DEF long, more
    <2> QED
        BY <2>3 DEF StoresAt
<1>7. Len(long) = end[n] + Len(more) /\ \A m \in 0 .. n : end[m] <= Len(long)
    BY <1>1, <1>2, <1>3, <1>4
<1> HIDE DEF long, more
<1>8. Records(long, calls, more, end)
    BY <1>4, <1>5, <1>6, <1>7 DEF Records, n
<1> QED
    BY <1>8 DEF long, more

\* A return closes the call.
LEMMA RecordsReturn ==
    ASSUME NEW tr, IsSeq(tr), NEW calls, GoodCalls(calls), NEW tail, GoodStores(tail), NEW end,
           end \in [0 .. Len(calls) -> Nat],
           Records(tr, calls, tail, end), NEW f, NEW r
    PROVE  LET call == [function |-> f, stores |-> tail, state |-> r]
           IN /\ GoodCalls(Append(calls, call)) /\ Len(Append(calls, call)) = Len(calls) + 1
              /\ \E more \in [0 .. Len(calls) + 1 -> Nat] :
                    /\ Records(Append(tr, ReturnRecord(f, r)), Append(calls, call), << >>, more)
                    /\ \A m \in 0 .. Len(calls) : more[m] = end[m]
<1> DEFINE n == Len(calls)
<1> DEFINE long == Append(tr, ReturnRecord(f, r))
<1> DEFINE call == [function |-> f, stores |-> tail, state |-> r]
<1> DEFINE all == Append(calls, call)
<1> DEFINE more == [m \in 0 .. n + 1 |-> IF m = n + 1 THEN Len(tr) + 1 ELSE end[m]]
<1>1. n \in Nat /\ Len(tr) \in Nat /\ Len(tail) \in Nat /\ \A m \in 0 .. n : end[m] \in Nat
    BY SeqDomain, GoodStoresAre DEF GoodCalls
<1>2. Len(long) = Len(tr) + 1 /\ long[Len(tr) + 1] = ReturnRecord(f, r)
    BY AppendIsSeq
<1>3. /\ IsSeq(all) /\ Len(all) = n + 1 /\ all[n + 1] = call
      /\ \A m \in 1 .. n : all[m] = calls[m]
    BY AppendIsSeq DEF GoodCalls
<1>4. Len(tr) = end[n] + Len(tail) /\ end[0] = 0 /\ \A m \in 0 .. n : end[m] <= Len(tr)
    BY DEF Records
<1>5. more \in [0 .. n + 1 -> Nat] /\ (\A m \in 0 .. n : more[m] = end[m]) /\ more[n + 1] = Len(tr) + 1
    <2>1. \A m \in 0 .. n + 1 : m # n + 1 => m \in 0 .. n
        BY <1>1
    <2>2. \A m \in 0 .. n : m # n + 1 /\ m \in 0 .. n + 1
        BY <1>1
    <2>3. n + 1 \in 0 .. n + 1
        BY <1>1
    <2> QED
        BY <2>1, <2>2, <2>3, <1>1
<1>6. call.function = f /\ call.stores = tail /\ call.state = r
    OBVIOUS
<1> HIDE DEF long, all, more, call
<1>7. GoodCalls(all)
    <2>1. ASSUME NEW m \in 1 .. n + 1
          PROVE  GoodStores(all[m].stores)
        <3>1. m \in 1 .. n \/ m = n + 1
            BY <1>1
        <3> QED
            BY <3>1, <1>3, <1>6 DEF GoodCalls
    <2> QED
        BY <2>1, <1>3 DEF GoodCalls
<1>8. ASSUME NEW m \in 1 .. n + 1
      PROVE  CallAt(long, all[m], more[m - 1], more[m])
    <2>1. CASE m # n + 1
        <3>1. m \in 0 .. n /\ m - 1 \in 0 .. n /\ m \in 1 .. n
            BY <2>1, <1>1
        <3>2. end[m] \in Nat /\ end[m - 1] \in Nat /\ end[m] <= Len(tr)
            BY <3>1, <1>1, <1>4
        <3>3. CallAt(tr, calls[m], end[m - 1], end[m]) /\ GoodStores(calls[m].stores)
            BY <3>1 DEF Records, GoodCalls
        <3>4. CallAt(long, calls[m], end[m - 1], end[m])
            BY <3>2, <3>3, CallAtStays DEF long
        <3> QED
            BY <3>1, <3>4, <1>3, <1>5
    <2>2. CASE m = n + 1
        <3>1. m - 1 = n /\ n \in 0 .. n
            BY <2>2, <1>1
        <3>2. more[m - 1] = end[n] /\ more[m] = Len(tr) + 1 /\ all[m] = call
            BY <3>1, <2>2, <1>3, <1>5
        <3>3. StoresAt(long, tail, end[n])
            <4>1. end[n] \in Nat /\ end[n] + Len(tail) <= Len(tr) /\ StoresAt(tr, tail, end[n])
                BY <1>1, <1>4 DEF Records
            <4> QED
                BY <4>1, StoresAtStay DEF long
        <3>4. Len(tr) + 1 = end[n] + Len(tail) + 1
            BY <1>1, <1>4
        <3> QED
            BY <3>2, <3>3, <3>4, <1>2, <1>6 DEF CallAt
    <2> QED
        BY <2>1, <2>2
<1>9. /\ more[0] = 0 /\ Len(long) = more[n + 1] + Len(<< >>)
      /\ \A m \in 0 .. n + 1 : more[m] <= Len(long)
    <2>1. \A m \in 0 .. n + 1 : m = n + 1 \/ m \in 0 .. n
        BY <1>1
    <2>2. 0 \in 0 .. n /\ Len(<< >>) = 0
        BY <1>1
    <2> QED
        BY <2>1, <2>2, <1>1, <1>2, <1>4, <1>5
<1>10. StoresAt(long, << >>, more[n + 1])
    BY DEF StoresAt
<1>11. Records(long, all, << >>, more)
    BY <1>3, <1>8, <1>9, <1>10 DEF Records
<1> QED
    BY <1>3, <1>5, <1>7, <1>11 DEF long, all, call

\* A trace with nothing in it.
LEMMA RecordsNothing ==
    /\ GoodCalls(<< >>)
    /\ \E end \in [0 .. Len(<< >>) -> Nat] : Records(<< >>, << >>, << >>, end)
<1> DEFINE end == [m \in 0 .. 0 |-> 0]
<1>1. Len(<< >>) = 0 /\ IsSeq(<< >>)
    BY EmptyIsSeq
<1>2. end \in [0 .. 0 -> Nat] /\ end[0] = 0
    OBVIOUS
<1> HIDE DEF end
<1>3. Records(<< >>, << >>, << >>, end)
    <2>1. \A m \in 0 .. 0 : m = 0
        OBVIOUS
    <2>2. \A m \in 1 .. 0 : FALSE
        OBVIOUS
    <2> QED
        BY <1>1, <1>2, <2>1, <2>2 DEF Records, StoresAt
<1> QED
    BY <1>1, <1>2, <1>3 DEF GoodCalls

-----------------------------------------------------------------------------
\* Data behind which a buffer is filled up.
LEMMA BufferHolds ==
    ASSUME NEW S, NEW d \in Seq(S), NEW z \in S, NEW n \in Nat, Len(d) <= n, Len(d) >= 1
    PROVE  SubSeq([h \in 1 .. n |-> IF h <= Len(d) THEN d[h] ELSE z], 1, Len(d)) = d
<1> DEFINE buffer == [h \in 1 .. n |-> IF h <= Len(d) THEN d[h] ELSE z]
<1>1. Len(d) \in Nat /\ 1 \in 1 .. n /\ Len(d) \in 1 .. n
    OBVIOUS
<1>2. ASSUME NEW h \in 1 .. n
      PROVE  (IF h <= Len(d) THEN d[h] ELSE z) \in S
    <2>1. CASE h <= Len(d)
        <3>1. h \in 1 .. Len(d)
            BY <2>1, <1>1, <1>2
        <3> QED
            BY <3>1, <2>1
    <2>2. CASE ~ h <= Len(d)
        BY <2>2
    <2> QED
        BY <2>1, <2>2
<1>3. buffer \in [1 .. n -> S]
    BY <1>2
<1>4. buffer \in Seq(S) /\ Len(buffer) = n
    BY <1>3, SeqDef
<1>5. \A h \in 1 .. Len(d) : buffer[h] = d[h]
    BY <1>1
<1> HIDE DEF buffer
<1>6. /\ SubSeq(buffer, 1, Len(d)) \in Seq(S) /\ Len(SubSeq(buffer, 1, Len(d))) = Len(d)
      /\ \A h \in 1 .. Len(d) : SubSeq(buffer, 1, Len(d))[h] = buffer[h]
    BY <1>1, <1>4
<1>7. SubSeq(buffer, 1, Len(d)) = d
    BY <1>5, <1>6, SeqEqual
<1> QED
    BY <1>7 DEF buffer

\* A store is parsed as it was made.
LEMMA StoreParsed ==
    ASSUME NEW s, GoodStores(s), NEW i \in 1 .. Len(s)
    PROVE  /\ parse_record(WriteRecord(s[i])).type = "dwrite"
           /\ parse_record(WriteRecord(s[i])).location = PaddedKey(s[i].address)
           /\ parse_record(WriteRecord(s[i])).data = s[i].data
<1> DEFINE n == Len(s[i].data)
<1> DEFINE buffer == [h \in 1 .. BufferBytes |-> IF h <= n THEN s[i].data[h] ELSE 0]
<1>1. s[i].data \in Seq(0 .. 255) /\ n \in 1 .. BufferBytes /\ BufferBytes \in Nat
    BY GoodStoresAre, CasesAssumption
<1>2. /\ WriteRecord(s[i]).type = "dwrite" /\ WriteRecord(s[i]).address = s[i].address
      /\ WriteRecord(s[i]).byte_size = n /\ WriteRecord(s[i]).buffer = buffer
    BY DEF WriteRecord
<1>3. parse_record(WriteRecord(s[i]))
        = [type |-> "dwrite", location |-> PaddedKey(s[i].address), data |-> SubSeq(buffer, 1, n)]
    BY <1>2 DEF parse_record, parse_memory_access
<1>4. SubSeq(buffer, 1, n) = s[i].data
    <2>1. n <= BufferBytes /\ n >= 1 /\ 0 \in 0 .. 255
        BY <1>1
    <2> QED
        BY <2>1, <1>1, BufferHolds
<1> QED
    BY <1>3, <1>4

\* No store, no write.
LEMMA WrittenNothing ==
    ASSUME NEW s
    PROVE  Written(NoWrites, s, 0)
<1>1. DOMAIN NoWrites = {} /\ { PaddedKey(s[i].address) : i \in 1 .. 0 } = {}
    BY DEF NoWrites
<1>2. \A i \in 1 .. 0 : FALSE
    OBVIOUS
<1> QED
    BY <1>1, <1>2 DEF Written

\* Keys are as different as the addresses.
LEMMA PaddedKeysDiffer ==
    ASSUME NEW a, NEW b, PaddedKey(a) = PaddedKey(b)
    PROVE  a = b
<1>1. PaddedKey(a).address = a /\ PaddedKey(b).address = b
    BY DEF PaddedKey, Key
<1> QED
    BY <1>1

\* The next store is the last one where it is.
LEMMA WrittenGrows ==
    ASSUME NEW s, GoodStores(s), NEW j \in 0 .. Len(s), j < Len(s), NEW d, Written(d, s, j)
    PROVE  Written(append_dwrite(d, parse_record(WriteRecord(s[j + 1]))), s, j + 1)
<1> DEFINE w == parse_record(WriteRecord(s[j + 1]))
<1> DEFINE key == PaddedKey(s[j + 1].address)
<1> DEFINE new == [location |-> key, data |-> s[j + 1].data]
<1> DEFINE e == append_dwrite(d, w)
<1> DEFINE keys(n) == { PaddedKey(s[i].address) : i \in 1 .. n }
<1>1. j + 1 \in 1 .. Len(s) /\ Len(s) \in Nat
    BY GoodStoresAre
<1>2. w.location = key /\ w.data = s[j + 1].data
    BY <1>1, StoreParsed
<1>3. /\ DOMAIN d = keys(j)
      /\ \A k \in DOMAIN d : IsSeq(d[k])
      /\ \A i \in 1 .. j : (\A h \in i + 1 .. j : s[h].address # s[i].address) =>
            Last(d[PaddedKey(s[i].address)])
                = [location |-> PaddedKey(s[i].address), data |-> s[i].data]
    BY DEF Written
<1> HIDE DEF w
<1>4. e = [k \in DOMAIN d \cup {key} |->
             IF k # key THEN d[k] ELSE IF k \in DOMAIN d THEN Append(d[k], new) ELSE <<new>>]
    BY <1>2 DEF append_dwrite
<1> HIDE DEF e
<1>5. DOMAIN e = keys(j) \cup {key}
    BY <1>3, <1>4
<1>6. keys(j) \cup {key} = keys(j + 1)
    <2>1. \A i : i \in 1 .. j + 1 <=> i \in 1 .. j \/ i = j + 1
        BY <1>1
    <2> QED
        BY <2>1
<1> HIDE DEF new
<1>7. IsSeq(e[key]) /\ Last(e[key]) = new
    <2>1. CASE key \in DOMAIN d
        <3>1. e[key] = Append(d[key], new) /\ IsSeq(d[key])
            BY <2>1, <1>3, <1>4
        <3>2. IsSeq(e[key]) /\ Len(d[key]) \in Nat
              /\ Len(e[key]) = Len(d[key]) + 1 /\ e[key][Len(d[key]) + 1] = new
            BY <3>1, AppendIsSeq, SeqDomain
        <3> QED
            BY <3>2 DEF Last
    <2>2. CASE key \notin DOMAIN d
        <3>1. e[key] = <<new>>
            BY <2>2, <1>4
        <3>2. <<new>> \in Seq({new}) /\ Len(<<new>>) = 1 /\ <<new>>[1] = new
            OBVIOUS
        <3> QED
            BY <3>1, <3>2 DEF Last, IsSeq
    <2> QED
        BY <2>1, <2>2
<1>8. ASSUME NEW k \in DOMAIN e, k # key
      PROVE  k \in DOMAIN d /\ e[k] = d[k]
    BY <1>4, <1>8
<1>9. \A k \in DOMAIN e : IsSeq(e[k])
    BY <1>3, <1>7, <1>8
<1>10. ASSUME NEW i \in 1 .. j + 1, \A h \in i + 1 .. j + 1 : s[h].address # s[i].address
       PROVE  Last(e[PaddedKey(s[i].address)])
                  = [location |-> PaddedKey(s[i].address), data |-> s[i].data]
    <2>1. CASE i = j + 1
        BY <2>1, <1>7 DEF new
    <2>2. CASE i # j + 1
        <3>1. i \in 1 .. j /\ j + 1 \in i + 1 .. j + 1
            BY <2>2, <1>1
        <3>2. s[j + 1].address # s[i].address
            BY <3>1, <1>10
        <3>3. PaddedKey(s[i].address) # key
            BY <3>2, PaddedKeysDiffer
        <3>4. PaddedKey(s[i].address) \in DOMAIN e
            BY <3>1, <1>5
        <3>5. e[PaddedKey(s[i].address)] = d[PaddedKey(s[i].address)]
            BY <3>3, <3>4, <1>8
        <3>6. \A h \in i + 1 .. j : h \in i + 1 .. j + 1
            BY <1>1
        <3>7. \A h \in i + 1 .. j : s[h].address # s[i].address
            BY <3>6, <1>10
        <3> QED
            BY <3>1, <3>5, <3>7, <1>3
    <2> QED
        BY <2>1, <2>2
<1>11. Written(e, s, j + 1)
    <2> HIDE DEF key
    <2>1. DOMAIN e = { PaddedKey(s[i].address) : i \in 1 .. j + 1 }
        BY <1>5, <1>6
    <2> QED
        BY <2>1, <1>9, <1>10 DEF Written
<1> QED
    BY <1>11 DEF e, w

-----------------------------------------------------------------------------
\* Nothing has been taken yet.
LEMMA TookNothing ==
    ASSUME NEW info, NEW calls, NEW tail, NEW end, end[0] = 0, Len(calls) \in Nat
    PROVE  Took(NothingBuilt, info, calls, tail, end, 0, 0)
<1>1. AllElements(<< >>, << >>) = << >> /\ Len(<< >>) = 0 /\ IsSeq(<< >>)
    <2>1. IsCollection(<< >>)
        BY EmptyIsSeq DEF IsCollection
    <2> QED
        BY <2>1, AllElementsOf, EmptyIsSeq
<1>2. EntriesDescribe(<< >>, info, calls)
    <2>1. \A k \in 1 .. 0 : FALSE
        OBVIOUS
    <2> QED
        BY <2>1, <1>1 DEF EntriesDescribe
<1>3. /\ NothingBuilt.taken = 0 /\ NothingBuilt.dwrites = NoWrites
      /\ NothingBuilt.group = << >> /\ NothingBuilt.groups = << >>
    BY DEF NothingBuilt
<1>4. Written(NoWrites, StoresOf(calls, tail, 0 + 1), 0)
    BY WrittenNothing
<1> QED
    BY <1>1, <1>2, <1>3, <1>4 DEF Took

\* The element at a place of the trace.
LEMMA NextElement ==
    ASSUME NEW tr, NEW calls, GoodCalls(calls), NEW tail, GoodStores(tail), NEW end,
           end \in [0 .. Len(calls) -> Nat], Records(tr, calls, tail, end),
           NEW m \in 0 .. Len(calls), NEW j \in 0 .. Len(StoresOf(calls, tail, m + 1)),
           end[m] + j < Len(tr)
    PROVE  /\ Len(calls) \in Nat /\ GoodStores(StoresOf(calls, tail, m + 1))
           /\ \/ /\ j < Len(StoresOf(calls, tail, m + 1))
                 /\ tr[end[m] + j + 1] = WriteRecord(StoresOf(calls, tail, m + 1)[j + 1])
              \/ /\ m < Len(calls) /\ j = Len(StoresOf(calls, tail, m + 1))
                 /\ StoresOf(calls, tail, m + 1) = calls[m + 1].stores
                 /\ end[m] + j + 1 = end[m + 1]
                 /\ tr[end[m] + j + 1] = ReturnRecord(calls[m + 1].function, calls[m + 1].state)
<1> DEFINE n == Len(calls)
<1> DEFINE s == StoresOf(calls, tail, m + 1)
<1>1. n \in Nat /\ end[m] \in Nat
    BY SeqDomain DEF GoodCalls
<1>2. GoodStores(s) /\ Len(s) \in Nat
    <2>1. m + 1 <= n => m + 1 \in 1 .. n
        BY <1>1
    <2>2. GoodStores(s)
        BY <2>1 DEF StoresOf, GoodCalls
    <2> QED
        BY <2>2, GoodStoresAre
<1>3. StoresAt(tr, s, end[m]) /\ (m = n => Len(tr) = end[m] + Len(s))
    <2>1. CASE m < n
        <3>1. m + 1 \in 1 .. n /\ (m + 1) - 1 = m /\ m + 1 <= n
            BY <2>1, <1>1
        <3>2. CallAt(tr, calls[m + 1], end[m], end[m + 1])
            BY <3>1 DEF Records
        <3> QED
            BY <3>1, <3>2, <2>1, <1>1 DEF CallAt, StoresOf
    <2>2. CASE m = n
        BY <2>2, <1>1 DEF Records, StoresOf
    <2> QED
        BY <2>1, <2>2, <1>1
<1> HIDE DEF s
<1>4. CASE j < Len(s)
    <2>1. j + 1 \in 1 .. Len(s) /\ end[m] + (j + 1) = end[m] + j + 1
        BY <1>1, <1>2, <1>4
    <2> QED
        BY <2>1, <1>1, <1>2, <1>3, <1>4 DEF StoresAt, s
<1>5. CASE ~ j < Len(s)
    <2>1. j = Len(s)
        BY <1>2, <1>5 DEF s
    <2>2. m # n
        BY <2>1, <1>1, <1>2, <1>3
    <2>3. m + 1 \in 1 .. n /\ (m + 1) - 1 = m /\ m + 1 <= n /\ m < n
        BY <2>2, <1>1
    <2>4. CallAt(tr, calls[m + 1], end[m], end[m + 1]) /\ s = calls[m + 1].stores
        BY <2>3, <1>1 DEF Records, s, StoresOf
    <2> QED
        BY <2>1, <2>3, <2>4, <1>1, <1>2 DEF CallAt, s
<1> QED
    BY <1>4, <1>5

\* A store is added to the writes of the call that is being put together.
LEMMA TookStore ==
    ASSUME NEW b, AreEntries(b), NEW info, NEW calls, NEW tail, NEW end, NEW m \in Nat, NEW j \in Nat,
           end[m] \in Nat, GoodStores(StoresOf(calls, tail, m + 1)), j < Len(StoresOf(calls, tail, m + 1)),
           Took(b, info, calls, tail, end, m, j), NEW e,
           e = parse_record(WriteRecord(StoresOf(calls, tail, m + 1)[j + 1]))
    PROVE  Took([AddElement(info, b, e) EXCEPT !.taken = @ + 1], info, calls, tail, end, m, j + 1)
<1> DEFINE s == StoresOf(calls, tail, m + 1)
<1> DEFINE d == append_dwrite(b.dwrites, e)
<1>1. j \in 0 .. Len(s) /\ j + 1 \in 1 .. Len(s)
    BY GoodStoresAre
<1>2. e.type = "dwrite"
    BY <1>1, StoreParsed
<1>3. Written(d, s, j + 1)
    BY <1>1, WrittenGrows DEF Took
<1>4. b = [f \in Fields |-> b[f]]
    BY DEF AreEntries
<1> HIDE DEF s, d
<1>5. [AddElement(info, b, e) EXCEPT !.taken = @ + 1] = [b EXCEPT !.dwrites = d, !.taken = @ + 1]
    BY <1>2, <1>4 DEF AddElement, d, Fields
<1> DEFINE c == [b EXCEPT !.dwrites = d, !.taken = @ + 1]
<1>6. c.taken = b.taken + 1 /\ c.dwrites = d /\ c.group = b.group /\ c.groups = b.groups
    BY <1>4 DEF Fields
<1> HIDE DEF c
<1>7. c.taken = end[m] + (j + 1)
    BY <1>6 DEF Took
<1>8. Took(c, info, calls, tail, end, m, j + 1)
    BY <1>3, <1>6, <1>7 DEF Took, s
<1> QED
    BY <1>5, <1>8 DEF c

\* A return closes its call's entry.
LEMMA TookReturn ==
    ASSUME NEW b, AreEntries(b), NEW info, NEW calls, GoodCalls(calls), NEW tail, NEW end,
           NEW m \in Nat, NEW j \in Nat, m < Len(calls), end[m] + j + 1 = end[m + 1], end[m] \in Nat,
           j = Len(StoresOf(calls, tail, m + 1)), StoresOf(calls, tail, m + 1) = calls[m + 1].stores,
           Took(b, info, calls, tail, end, m, j), NEW e,
           e = ReturnRecord(calls[m + 1].function, calls[m + 1].state)
    PROVE  Took([AddElement(info, b, e) EXCEPT !.taken = @ + 1], info, calls, tail, end, m + 1, 0)
<1> DEFINE entry == Entry(info, b.dwrites, e)
<1> DEFINE group == Append(b.group, entry)
<1> DEFINE closed == Append(b.groups, group)
<1> DEFINE all == AllElements(b.groups, b.group)
<1> DEFINE c == [AddElement(info, b, e) EXCEPT !.taken = @ + 1]
<1>1. b = [f \in Fields |-> b[f]] /\ IsSeq(b.group) /\ IsCollection(b.groups)
    BY DEF AreEntries
<1>2. e.type # "dwrite"
    BY DEF ReturnRecord
<1>3. IsSeq(all) /\ AllElements(b.groups, group) = Append(all, entry)
    <2> HIDE DEF entry
    <2>1. AllElements(b.groups, Append(b.group, entry)) = Append(AllElements(b.groups, b.group), entry)
        BY <1>1, AllElementsGrow
    <2>2. IsSeq(AllElements(b.groups, b.group))
        BY <1>1, AllElementsGrow
    <2> QED
        BY <2>1, <2>2
<1>4. AllElements(closed, << >>) = AllElements(b.groups, group)
    <2>1. IsSeq(group)
        BY <1>1, AppendIsSeq
    <2> HIDE DEF group
    <2>2. FlattenSeq(closed) = AllElements(b.groups, group) /\ IsCollection(closed)
        BY <2>1, <1>1, AllElementsGrow, AppendIsCollection
    <2> QED
        BY <2>2, AllElementsOf
<1>5. /\ c.taken = b.taken + 1 /\ c.dwrites = NoWrites
      /\ \/ c.groups = closed /\ c.group = << >>
         \/ c.groups = b.groups /\ c.group = group
    <2> HIDE DEF entry
    <2>1. CASE e.function = FunctionOfInterest
        <3>1. AddElement(info, b, e) = [b EXCEPT !.dwrites = NoWrites, !.group = << >>, !.groups = closed]
            BY <2>1, <1>2 DEF AddElement, entry
        <3> HIDE DEF closed
        <3> QED
            BY <3>1, <1>1 DEF Fields
    <2>2. CASE e.function # FunctionOfInterest
        <3>1. AddElement(info, b, e) = [b EXCEPT !.dwrites = NoWrites, !.group = group]
            BY <2>2, <1>2 DEF AddElement, entry
        <3> HIDE DEF closed, group
        <3> QED
            BY <3>1, <1>1 DEF Fields
    <2> QED
        BY <2>1, <2>2
<1> HIDE DEF c, closed, group
<1>6. AllElements(c.groups, c.group) = Append(all, entry)
    BY <1>3, <1>4, <1>5
<1>7. /\ b.taken = end[m] + j /\ Written(b.dwrites, calls[m + 1].stores, j) /\ Len(all) = m
      /\ EntriesDescribe(all, info, calls)
    BY DEF Took
<1>8. Describes(entry, info, calls[m + 1])
    <2>1. entry.dwrites = b.dwrites
        BY DEF Entry
    <2> HIDE DEF entry
    <2> QED
        BY <2>1, <1>7 DEF Describes, entry
<1> HIDE DEF entry, all
<1>9. /\ IsSeq(Append(all, entry)) /\ Len(Append(all, entry)) = m + 1
      /\ Append(all, entry)[m + 1] = entry
      /\ \A k \in 1 .. m : Append(all, entry)[k] = all[k]
    BY <1>3, <1>7, AppendIsSeq
<1>10. EntriesDescribe(Append(all, entry), info, calls)
    <2>1. Len(calls) \in Nat
        BY SeqDomain DEF GoodCalls
    <2>2. ASSUME NEW k \in 1 .. m + 1
          PROVE  Describes(Append(all, entry)[k], info, calls[k])
        <3>1. k \in 1 .. m \/ k = m + 1
            OBVIOUS
        <3>2. CASE k \in 1 .. m
            BY <3>2, <1>7, <1>9 DEF EntriesDescribe
        <3>3. CASE k = m + 1
            BY <3>3, <1>8, <1>9
        <3> QED
            BY <3>1, <3>2, <3>3
    <2> QED
        BY <2>1, <2>2, <1>9 DEF EntriesDescribe
<1>11. Written(NoWrites, StoresOf(calls, tail, (m + 1) + 1), 0)
    BY WrittenNothing
<1>12. c.taken = end[m + 1] + 0
    BY <1>5, <1>7
<1>13. Took(c, info, calls, tail, end, m + 1, 0)
    BY <1>5, <1>6, <1>9, <1>10, <1>11, <1>12 DEF Took
<1> QED
    BY <1>13 DEF c

-----------------------------------------------------------------------------
(***************************************************************************)
(* The steps of the programs, and of what is built of their traces.        *)
(***************************************************************************)

\* The bodies of a case's functions are stores.
LEMMA BodiesAreStores ==
    ASSUME ExtractTypes, side \in {Gr, Uv}, NEW b \in case.bodies[side]
    PROVE  GoodStores(b)
<1>1. b \in Seq([address : Nat, data : Seq(0 .. 255)])
      /\ \A i \in DOMAIN b : Len(b[i].data) \in 1 .. BufferBytes
    BY CasesAssumption DEF ExtractTypes
<1> QED
    BY <1>1 DEF GoodStores, StoreType

\* There is a store after those made.
LEMMA NextStore ==
    ASSUME NEW s, GoodStores(s), NEW b, GoodStores(b), IsStrictPrefix(s, b)
    PROVE  Len(s) + 1 \in 1 .. Len(b)
<1>1. s \in Seq(StoreType) /\ b \in Seq(StoreType)
    BY DEF GoodStores
<1>2. Len(s) <= Len(b) /\ SubSeq(s, 1, Len(s)) = SubSeq(b, 1, Len(s)) /\ s # b
    BY DEF IsStrictPrefix, IsPrefix
<1>3. Len(s) # Len(b)
    BY <1>1, <1>2, SubSeqFull
<1> QED
    BY <1>1, <1>2, <1>3

\* The history.
LEMMA HistoryKeeps ==
    ASSUME CaseInv, HistoryInv, CaseNext
    PROVE  HistoryInv'
<1>0. side \in {Gr, Uv} /\ ExtractTypes /\ Gr = 1 /\ Uv = 2
    BY DEF CaseInv, StageTypes, Gr, Uv
<1>1. ASSUME NEW b \in case.bodies[side], StoreAsIn(b)
      PROVE  HistoryInv'
    <2>1. GoodStores(b) /\ GoodStores(stores)
        BY <1>0, <1>1, BodiesAreStores DEF HistoryInv
    <2>2. stores' = Append(stores, b[Len(stores) + 1]) /\ IsStrictPrefix(stores, b)
        BY <1>1 DEF StoreAsIn
    <2>3. GoodStores(stores')
        BY <2>1, <2>2, NextStore, GoodStoresGrow
    <2>4. stage = "simulate" /\ parsing = "idle" /\ UNCHANGED <<stage, parsing, side, executed, building>>
        BY <1>1 DEF StoreAsIn, Running
    <2> QED
        BY <2>3, <2>4 DEF HistoryInv
<1>2. ASSUME NEW f, NEW r, ReturnFrom(f, r)
      PROVE  HistoryInv'
    <2> DEFINE call == [function |-> f, stores |-> stores, state |-> r]
    <2> DEFINE longer == Append(executed[side], call)
    <2>1. /\ executed' = [executed EXCEPT ![side] = longer]
          /\ stage = "simulate" /\ parsing = "idle" /\ UNCHANGED <<stage, parsing, side, building>>
          /\ stores' = << >>
        BY <1>2 DEF ReturnFrom, Running
    <2>2. GoodCalls(executed[side]) /\ GoodStores(stores)
        BY <1>0 DEF HistoryInv
    <2>3. GoodCalls(longer)
        <3>1. /\ IsSeq(longer) /\ Len(longer) = Len(executed[side]) + 1 /\ Len(executed[side]) \in Nat
              /\ longer[Len(executed[side]) + 1] = call
              /\ \A m \in 1 .. Len(executed[side]) : longer[m] = executed[side][m]
            BY <2>2, AppendIsSeq, SeqDomain DEF GoodCalls
        <3>2. GoodStores(call.stores)
            BY <2>2
        <3> HIDE DEF longer, call
        <3>3. ASSUME NEW m \in 1 .. Len(longer)
              PROVE  GoodStores(longer[m].stores)
            <4>1. m \in 1 .. Len(executed[side]) \/ m = Len(executed[side]) + 1
                BY <3>1
            <4> QED
                BY <4>1, <3>1, <3>2, <2>2 DEF GoodCalls
        <3> QED
            BY <3>1, <3>3 DEF GoodCalls
    <2> HIDE DEF longer
    <2>4. DOMAIN executed = {Gr, Uv}
        BY DEF HistoryInv
    <2>5. /\ DOMAIN executed' = {Gr, Uv}
          /\ \A c \in {Gr, Uv} : executed'[c] = IF c = side THEN longer ELSE executed[c]
        BY <2>1, <2>4
    <2>6. GoodCalls(executed'[Gr]) /\ GoodCalls(executed'[Uv])
        BY <2>3, <2>5 DEF HistoryInv
    <2>7. side = Gr => executed'[Uv] = executed[Uv]
        BY <2>5, <1>0
    <2> QED
        BY <2>1, <2>5, <2>6, <2>7, NoStores DEF HistoryInv
<1>3. ASSUME NEW lost, EndSimulation(lost)
      PROVE  HistoryInv'
    <2>1. /\ stage = "simulate" /\ parsing = "idle" /\ parsing' = "reading" /\ stores' = << >>
          /\ UNCHANGED <<stage, side, executed, building>>
        BY <1>3 DEF EndSimulation, Running, StartParsing
    <2> QED
        BY <2>1, NoStores DEF HistoryInv
<1>4. CASE ExtractOther \/ BothExtracted
    <2>1. /\ stage = "dwarf" /\ stage' \in {"dwarf", "describe"}
          /\ UNCHANGED <<trace_file, parsing, stores, executed, building>>
        BY <1>4 DEF ExtractOther, BothExtracted, parseVars
    <2> QED
        BY <2>1 DEF HistoryInv
<1>5. CASE Describe
    <2>1. /\ stage = "describe" /\ stage' = "simulate"
          /\ UNCHANGED <<trace_file, parsing, stores, executed, building>>
        BY <1>5 DEF Describe, parseVars
    <2> QED
        BY <2>1 DEF HistoryInv
<1>6. CASE Parsing
    <2>1. /\ parsing = "reading" /\ parsing' \in {"reading", "parsed", "raised"}
          /\ UNCHANGED <<stage, side, trace_file, stores, executed, building>>
        BY <1>6 DEF Parsing, ParseNext, ReadRecord, ReadCutRecord, ReadEnd, caseVars
    <2> QED
        BY <2>1 DEF HistoryInv
<1>7. CASE BuildFromElement
    <2>1. /\ parsing = "parsed" /\ stage = "simulate"
          /\ UNCHANGED <<stage, side, trace_file, parsing, stores, executed>>
        BY <1>7 DEF BuildFromElement, Building, parseVars
    <2> QED
        BY <2>1 DEF HistoryInv
<1>8. CASE EndOfElements
    <2>1. /\ stage = "simulate" /\ parsing' = "idle" /\ building' = NothingBuilt
          /\ UNCHANGED <<stores, executed>>
          /\ \/ side' = Uv /\ stage' = "simulate"
             \/ stage' = "log"
        BY <1>8 DEF EndOfElements, Building, NewTrace
    <2> QED
        BY <2>1, <1>0 DEF HistoryInv
<1>9. CASE StartVerification \/ Report \/ (StageRaises /\ Abort)
    <2>1. /\ stage' \in {"verify", "done", "aborted"}
          /\ UNCHANGED <<parsing, stores, executed, building>>
        BY <1>9 DEF StartVerification, Report, Abort, parseVars
    <2> QED
        BY <2>1 DEF HistoryInv
<1>10. CASE Extracting \/ Verifying \/ Terminated
    <2>1. UNCHANGED <<stage, side, trace_file, parsing, stores, executed, building>>
        BY <1>10 DEF Extracting, Verifying, Terminated, allVars, caseVars, parseVars
    <2> QED
        BY <2>1 DEF HistoryInv
<1> QED
    BY <1>1, <1>2, <1>3, <1>4, <1>5, <1>6, <1>7, <1>8, <1>9, <1>10 DEF CaseNext

\* The trace of the calls so far.
LEMMA ProgressStarts ==
    ASSUME NEW info
    PROVE  Progress(<< >>, << >>, TRUE, << >>, NothingBuilt, info)
<1>1. PICK end \in [0 .. Len(<< >>) -> Nat] : Records(<< >>, << >>, << >>, end)
    BY RecordsNothing
<1>2. Len(<< >>) = 0 /\ end[0] = 0
    BY <1>1, EmptyIsSeq DEF Records
<1>3. Took(NothingBuilt, info, << >>, << >>, end, 0, 0)
    BY <1>2, TookNothing
<1>4. StoresOf(<< >>, << >>, 0 + 1) = << >>
    BY <1>2 DEF StoresOf
<1>5. 0 \in 0 .. Len(<< >>) /\ 0 \in 0 .. Len(StoresOf(<< >>, << >>, 0 + 1))
    BY <1>2, <1>4
<1> QED
    BY <1>1, <1>3, <1>5, NoStores DEF Progress

\* A store is recorded behind what is in the trace (StoreAsIn).
LEMMA ProgressWithStore ==
    ASSUME NEW tr, IsSeq(tr), NEW calls, GoodCalls(calls), NEW st, GoodStores(st), NEW info, NEW s,
           GoodStores(Append(st, s)), Progress(tr, calls, TRUE, st, NothingBuilt, info)
    PROVE  Progress(Append(tr, WriteRecord(s)), calls, TRUE, Append(st, s), NothingBuilt, info)
<1>1. PICK tail, end : /\ end \in [0 .. Len(calls) -> Nat] /\ tail = st
                       /\ Records(tr, calls, tail, end)
    BY DEF Progress
<1>2. Records(Append(tr, WriteRecord(s)), calls, Append(st, s), end)
    BY <1>1, RecordsStore
<1>3. Len(calls) \in Nat /\ end[0] = 0
    BY <1>1, SeqDomain DEF GoodCalls, Records
<1>4. Took(NothingBuilt, info, calls, Append(st, s), end, 0, 0)
    BY <1>3, TookNothing
<1>5. 0 \in 0 .. Len(calls) /\ 0 \in 0 .. Len(StoresOf(calls, Append(st, s), 0 + 1))
    <2>1. 0 + 1 <= Len(calls) => GoodStores(calls[0 + 1].stores)
        BY <1>3 DEF GoodCalls
    <2>2. GoodStores(StoresOf(calls, Append(st, s), 0 + 1))
        BY <2>1 DEF StoresOf
    <2>3. Len(StoresOf(calls, Append(st, s), 0 + 1)) \in Nat
        BY <2>2, GoodStoresAre
    <2> QED
        BY <2>3, <1>3
<1> QED
    BY <1>1, <1>2, <1>4, <1>5 DEF Progress

\* A return closes the call whose stores are at the end of the trace (ReturnFrom).
LEMMA ProgressWithReturn ==
    ASSUME NEW tr, IsSeq(tr), NEW calls, GoodCalls(calls), NEW st, GoodStores(st), NEW info, NEW f, NEW r,
           Progress(tr, calls, TRUE, st, NothingBuilt, info)
    PROVE  Progress(Append(tr, ReturnRecord(f, r)),
                    Append(calls, [function |-> f, stores |-> st, state |-> r]),
                    TRUE, << >>, NothingBuilt, info)
<1> DEFINE all == Append(calls, [function |-> f, stores |-> st, state |-> r])
<1>1. PICK tail, end : /\ end \in [0 .. Len(calls) -> Nat] /\ tail = st
                       /\ Records(tr, calls, tail, end)
    BY DEF Progress
<1>2. /\ GoodCalls(all) /\ Len(all) = Len(calls) + 1
      /\ \E more \in [0 .. Len(calls) + 1 -> Nat] : Records(Append(tr, ReturnRecord(f, r)), all, << >>, more)
    BY <1>1, RecordsReturn
<1> HIDE DEF all
<1>3. PICK more \in [0 .. Len(calls) + 1 -> Nat] : Records(Append(tr, ReturnRecord(f, r)), all, << >>, more)
    BY <1>2
<1>4. Len(all) \in Nat /\ more[0] = 0
    BY <1>2, <1>3, SeqDomain DEF GoodCalls, Records
<1>5. Took(NothingBuilt, info, all, << >>, more, 0, 0)
    BY <1>4, TookNothing
<1>6. 0 \in 0 .. Len(all) /\ 0 \in 0 .. Len(StoresOf(all, << >>, 0 + 1))
    <2>1. 0 + 1 <= Len(all) => GoodStores(all[0 + 1].stores)
        BY <1>2, <1>4 DEF GoodCalls
    <2>2. GoodStores(StoresOf(all, << >>, 0 + 1))
        BY <2>1, NoStores DEF StoresOf
    <2>3. Len(StoresOf(all, << >>, 0 + 1)) \in Nat
        BY <2>2, GoodStoresAre
    <2> QED
        BY <2>3, <1>4
<1>7. more \in [0 .. Len(all) -> Nat]
    BY <1>2, <1>3
<1>8. Progress(Append(tr, ReturnRecord(f, r)), all, TRUE, << >>, NothingBuilt, info)
    BY <1>3, <1>5, <1>6, <1>7, NoStores DEF Progress
<1> QED
    BY <1>8 DEF all

\* One more element is taken into the entries (BuildFromElement).
LEMMA ProgressWithElement ==
    ASSUME NEW tr, IsSeq(tr), NEW calls, GoodCalls(calls), NEW st, NEW b, AreEntries(b), NEW info,
           Progress(tr, calls, FALSE, st, b, info), b.taken < Len(tr)
    PROVE  Progress(tr, calls, FALSE, st,
                    [AddElement(info, b, parse_record(tr[b.taken + 1])) EXCEPT !.taken = @ + 1], info)
<1> DEFINE e == parse_record(tr[b.taken + 1])
<1> DEFINE c == [AddElement(info, b, e) EXCEPT !.taken = @ + 1]
<1>1. PICK tail, end : /\ GoodStores(tail) /\ end \in [0 .. Len(calls) -> Nat]
                       /\ Records(tr, calls, tail, end)
                       /\ \E m \in 0 .. Len(calls) : \E j \in 0 .. Len(StoresOf(calls, tail, m + 1)) :
                             Took(b, info, calls, tail, end, m, j)
    BY DEF Progress
<1>2. PICK m \in 0 .. Len(calls) : \E j \in 0 .. Len(StoresOf(calls, tail, m + 1)) :
                             Took(b, info, calls, tail, end, m, j)
    BY <1>1
<1>3. PICK j \in 0 .. Len(StoresOf(calls, tail, m + 1)) : Took(b, info, calls, tail, end, m, j)
    BY <1>2
<1>4. b.taken = end[m] + j /\ end[m] + j < Len(tr)
    BY <1>3 DEF Took
<1> DEFINE s == StoresOf(calls, tail, m + 1)
<1> HIDE DEF s, c, e
<1>5. /\ Len(calls) \in Nat /\ GoodStores(s)
      /\ \/ j < Len(s) /\ tr[end[m] + j + 1] = WriteRecord(s[j + 1])
         \/ /\ m < Len(calls) /\ j = Len(s) /\ s = calls[m + 1].stores
            /\ end[m] + j + 1 = end[m + 1]
            /\ tr[end[m] + j + 1] = ReturnRecord(calls[m + 1].function, calls[m + 1].state)
    <2>1. /\ GoodCalls(calls) /\ GoodStores(tail) /\ end \in [0 .. Len(calls) -> Nat]
          /\ Records(tr, calls, tail, end) /\ m \in 0 .. Len(calls)
          /\ j \in 0 .. Len(StoresOf(calls, tail, m + 1)) /\ end[m] + j < Len(tr)
        BY <1>1, <1>2, <1>3, <1>4
    <2> QED
        BY <2>1, NextElement, SMTT(60) DEF s
<1> USE DEF s, c, e
<1>6. Len(s) \in Nat
    BY <1>5, GoodStoresAre
<1>7. m \in Nat /\ j \in Nat /\ end[m] \in Nat /\ e = parse_record(tr[end[m] + j + 1])
    <2>1. e = parse_record(tr[end[m] + j + 1])
        BY <1>4
    <2>2. m \in Nat /\ end[m] \in Nat
        BY <1>1, <1>2, <1>5
    <2>3. j \in Nat
        BY <1>3, <1>6 DEF s
    <2> QED
        BY <2>1, <2>2, <2>3
<1>8. CASE j < Len(s) /\ tr[end[m] + j + 1] = WriteRecord(s[j + 1])
    <2>1. Took(c, info, calls, tail, end, m, j + 1)
        <3>1. e = parse_record(WriteRecord(s[j + 1]))
            BY <1>7, <1>8
        <3> HIDE DEF e
        <3> QED
            BY <3>1, <1>3, <1>5, <1>7, <1>8, TookStore
    <2>2. j + 1 \in 0 .. Len(s)
        BY <1>6, <1>7, <1>8
    <2> HIDE DEF c
    <2>3. Progress(tr, calls, FALSE, st, c, info)
        BY <2>1, <2>2, <1>1, <1>2 DEF Progress
    <2> QED
        BY <2>3 DEF c
<1>9. CASE ~ (j < Len(s) /\ tr[end[m] + j + 1] = WriteRecord(s[j + 1]))
    <2>0. /\ m < Len(calls) /\ j = Len(s) /\ s = calls[m + 1].stores
          /\ end[m] + j + 1 = end[m + 1]
          /\ tr[end[m] + j + 1] = ReturnRecord(calls[m + 1].function, calls[m + 1].state)
        BY <1>5, <1>9
    <2>1. Took(c, info, calls, tail, end, m + 1, 0)
        <3>1. e = ReturnRecord(calls[m + 1].function, calls[m + 1].state)
            BY <1>7, <2>0 DEF parse_record, ReturnRecord
        <3> HIDE DEF e
        <3> QED
            BY <2>0, <3>1, <1>3, <1>5, <1>7, TookReturn
    <2>2. m + 1 \in 0 .. Len(calls) /\ 0 \in 0 .. Len(StoresOf(calls, tail, (m + 1) + 1))
        <3>1. m + 1 \in 0 .. Len(calls)
            BY <1>5, <1>7, <2>0
        <3>2. (m + 1) + 1 <= Len(calls) => (m + 1) + 1 \in 1 .. Len(calls)
            BY <1>5, <1>7
        <3>3. GoodStores(StoresOf(calls, tail, (m + 1) + 1))
            BY <3>2, <1>1 DEF StoresOf, GoodCalls
        <3>4. Len(StoresOf(calls, tail, (m + 1) + 1)) \in Nat
            BY <3>3, GoodStoresAre
        <3> QED
            BY <3>1, <3>4
    <2> HIDE DEF c
    <2>3. Progress(tr, calls, FALSE, st, c, info)
        BY <2>1, <2>2, <1>1 DEF Progress
    <2> QED
        BY <2>3 DEF c
<1> QED
    BY <1>8, <1>9

\* What has been built of the trace.
LEMMA RecordKeeps ==
    ASSUME CaseInv, HistoryInv, RecordInv, CaseNext
    PROVE  RecordInv'
<1>0. /\ side \in {Gr, Uv} /\ Gr = 1 /\ Uv = 2 /\ GoodCalls(executed[side]) /\ GoodStores(stores)
      /\ IsSeq(trace_file) /\ AreEntries(building)
    BY DEF CaseInv, StageTypes, TraceInv, WellWritten, BuildTypes, HistoryInv, Gr, Uv
<1>1. ASSUME NEW b \in case.bodies[side], StoreAsIn(b)
      PROVE  RecordInv'
    <2> DEFINE s == b[Len(stores) + 1]
    <2>1. /\ stage = "simulate" /\ parsing = "idle"
          /\ UNCHANGED <<stage, parsing, side, executed, building, infos>>
          /\ trace_file' = Append(trace_file, WriteRecord(s))
          /\ stores' = Append(stores, s) /\ IsStrictPrefix(stores, b)
        BY <1>1 DEF StoreAsIn, Running, WriteToTrace
    <2>2. GoodStores(Append(stores, s))
        <3>1. GoodStores(b)
            BY <1>0, <1>1, BodiesAreStores DEF CaseInv
        <3> QED
            BY <1>0, <2>1, <3>1, NextStore, GoodStoresGrow
    <2> HIDE DEF s
    <2>3. building = NothingBuilt
        BY <2>1 DEF HistoryInv
    <2>4. Progress(trace_file, executed[side], TRUE, stores, NothingBuilt, infos[side])
        BY <2>1, <2>3 DEF RecordInv
    <2>5. Progress(trace_file', executed[side], TRUE, stores', NothingBuilt, infos[side])
        BY <2>1, <2>2, <2>4, <1>0, ProgressWithStore
    <2> QED
        BY <2>1, <2>3, <2>5 DEF RecordInv
<1>2. ASSUME NEW f, NEW r, ReturnFrom(f, r)
      PROVE  RecordInv'
    <2> DEFINE longer == Append(executed[side], [function |-> f, stores |-> stores, state |-> r])
    <2>1. /\ stage = "simulate" /\ parsing = "idle"
          /\ UNCHANGED <<stage, parsing, side, building, infos>>
          /\ trace_file' = Append(trace_file, ReturnRecord(f, r))
          /\ stores' = << >> /\ executed' = [executed EXCEPT ![side] = longer]
        BY <1>2 DEF ReturnFrom, Running, WriteToTrace
    <2>2. building = NothingBuilt
        BY <2>1 DEF HistoryInv
    <2>3. Progress(trace_file, executed[side], TRUE, stores, NothingBuilt, infos[side])
        BY <2>1, <2>2 DEF RecordInv
    <2>4. Progress(trace_file', longer, TRUE, stores', NothingBuilt, infos[side])
        BY <2>1, <2>3, <1>0, ProgressWithReturn
    <2> HIDE DEF longer
    <2>5. executed'[side] = longer
        BY <2>1, <1>0 DEF HistoryInv
    <2> QED
        BY <2>1, <2>2, <2>4, <2>5 DEF RecordInv
<1>3. CASE BuildFromElement
    <2>1. /\ stage = "simulate" /\ parsing = "parsed" /\ building.taken < Len(parsed)
          /\ building' = [AddElement(infos[side], building, parsed[building.taken + 1]) EXCEPT !.taken = @ + 1]
          /\ UNCHANGED <<stage, parsing, side, executed, infos, trace_file, stores>>
        BY <1>3 DEF BuildFromElement, Building, parseVars
    <2>2. Progress(trace_file, executed[side], FALSE, stores, building, infos[side])
        BY <2>1 DEF RecordInv
    <2>3. /\ Len(parsed) \in Nat /\ Len(parsed) <= Len(trace_file)
          /\ \A i \in 1 .. Len(parsed) : parsed[i] = parse_record(trace_file[i])
        BY SeqDomain DEF CaseInv, TraceInv, AtBorder, WellWritten, Image
    <2>4. building.taken \in Nat
        <3>1. PICK tail, end : /\ GoodStores(tail) /\ end \in [0 .. Len(executed[side]) -> Nat]
                               /\ \E m \in 0 .. Len(executed[side]) :
                                     \E j \in 0 .. Len(StoresOf(executed[side], tail, m + 1)) :
                                         Took(building, infos[side], executed[side], tail, end, m, j)
            BY <2>2 DEF Progress
        <3>2. PICK m \in 0 .. Len(executed[side]) :
                     \E j \in 0 .. Len(StoresOf(executed[side], tail, m + 1)) :
                         Took(building, infos[side], executed[side], tail, end, m, j)
            BY <3>1
        <3>3. PICK j \in 0 .. Len(StoresOf(executed[side], tail, m + 1)) :
                         Took(building, infos[side], executed[side], tail, end, m, j)
            BY <3>2
        <3>4. end[m] \in Nat /\ j \in Nat /\ building.taken = end[m] + j
            BY <3>1, <3>2, <3>3 DEF Took
        <3> QED
            BY <3>4
    <2>5. building.taken + 1 \in 1 .. Len(parsed) /\ building.taken < Len(trace_file)
        <3>1. Len(trace_file) \in Nat
            BY <1>0, SeqDomain
        <3> QED
            BY <3>1, <2>1, <2>3, <2>4
    <2>6. building' = [AddElement(infos[side], building, parse_record(trace_file[building.taken + 1]))
                          EXCEPT !.taken = @ + 1]
        BY <2>1, <2>3, <2>5
    <2>7. Progress(trace_file, executed[side], FALSE, stores, building', infos[side])
        BY <1>0, <2>2, <2>5, <2>6, ProgressWithElement
    <2> QED
        BY <2>1, <2>7 DEF RecordInv
<1>4. ASSUME NEW lost, EndSimulation(lost)
      PROVE  RecordInv'
    <2>1. /\ stage = "simulate" /\ parsing = "idle" /\ parsing' = "reading"
          /\ UNCHANGED <<stage, side, executed, infos, trace_file, building>>
        BY <1>4 DEF EndSimulation, Running, StartParsing
    <2>2. Progress(trace_file, executed[side], TRUE, stores, building, infos[side])
        BY <2>1 DEF RecordInv
    <2>3. Progress(trace_file, executed[side], FALSE, stores', building, infos[side])
        BY <2>2 DEF Progress
    <2> QED
        BY <2>1, <2>3 DEF RecordInv
<1>5. CASE Parsing
    <2>1. /\ parsing = "reading" /\ parsing' \in {"reading", "parsed", "raised"}
          /\ UNCHANGED <<stage, side, trace_file, stores, executed, building, infos>>
        BY <1>5 DEF Parsing, ParseNext, ReadRecord, ReadCutRecord, ReadEnd, caseVars
    <2> QED
        BY <2>1 DEF RecordInv, Progress
<1>6. CASE Describe
    <2>1. /\ stage = "describe" /\ side' = Gr
          /\ UNCHANGED <<trace_file, parsing, stores, executed, building>>
        BY <1>6 DEF Describe, parseVars
    <2>2. trace_file = << >> /\ parsing = "idle" /\ stores = << >> /\ executed[Gr] = << >>
          /\ building = NothingBuilt
        BY <2>1 DEF HistoryInv
    <2> QED
        BY <2>1, <2>2, ProgressStarts DEF RecordInv
<1>7. CASE EndOfElements
    <2>1. /\ stage = "simulate" /\ parsing = "parsed" /\ parsing' = "idle" /\ building' = NothingBuilt
          /\ trace_file' = << >> /\ UNCHANGED <<stores, executed>>
          /\ \/ side = Gr /\ side' = Uv /\ stage' = "simulate"
             \/ stage' = "log"
        BY <1>7 DEF EndOfElements, Building, NewTrace
    <2>2. stores = << >> /\ (side = Gr => executed[Uv] = << >>)
        BY <2>1 DEF HistoryInv
    <2>3. Progress(<< >>, << >>, TRUE, << >>, NothingBuilt, infos'[Uv])
        BY ProgressStarts
    <2> QED
        BY <2>1, <2>2, <2>3 DEF RecordInv
<1>8. CASE ExtractOther \/ BothExtracted \/ StartVerification \/ Report \/ (StageRaises /\ Abort)
    <2>1. stage' # "simulate"
        BY <1>8 DEF ExtractOther, BothExtracted, StartVerification, Report, Abort
    <2> QED
        BY <2>1 DEF RecordInv
<1>9. CASE Extracting \/ Verifying \/ Terminated
    <2>1. UNCHANGED <<stage, side, trace_file, parsing, stores, executed, building, infos>>
        BY <1>9 DEF Extracting, Verifying, Terminated, allVars, caseVars, parseVars
    <2> QED
        BY <2>1 DEF RecordInv
<1> QED
    BY <1>1, <1>2, <1>3, <1>4, <1>5, <1>6, <1>7, <1>8, <1>9 DEF CaseNext

\* What was built of both traces.
LEMMA BuiltKeeps ==
    ASSUME CaseInv, HistoryInv, RecordInv, BuiltInv, CaseNext
    PROVE  BuiltInv'
<1>0. IsSeq(built) /\ Len(built) \in Nat /\ side \in {1, 2} /\ Gr = 1 /\ Uv = 2
    BY SeqDomain DEF CaseInv, StageTypes, BuildTypes, Gr, Uv
<1>1. CASE EndOfElements
    <2> DEFINE c == IF building.group = << >> THEN building.groups
                    ELSE Append(building.groups, building.group)
    <2>1. /\ built' = Append(built, c) /\ stage = "simulate" /\ parsing = "parsed"
          /\ UNCHANGED <<infos, executed>>
        BY <1>1 DEF EndOfElements, Building
    <2>2. EntriesDescribe(FlattenSeq(c), infos[side], executed[side])
        <3>1. IsCollection(building.groups) /\ IsSeq(building.group)
            BY DEF CaseInv, BuildTypes, AreEntries
        <3>2. FlattenSeq(c) = AllElements(building.groups, building.group)
            BY <3>1, AllElementsOf, AllElementsGrow
        <3>3. Progress(trace_file, executed[side], FALSE, stores, building, infos[side])
            BY <2>1 DEF RecordInv
        <3>4. EntriesDescribe(AllElements(building.groups, building.group), infos[side], executed[side])
            BY <3>3 DEF Progress, Took
        <3> QED
            BY <3>2, <3>4
    <2>3. Len(built) + 1 = side
        BY <1>0, <2>1 DEF CaseInv, StageTypes
    <2> HIDE DEF c
    <2>4. /\ Len(built') = Len(built) + 1 /\ built'[Len(built) + 1] = c
          /\ \A i \in 1 .. Len(built) : built'[i] = built[i]
        BY <1>0, <2>1, AppendIsSeq
    <2>5. ASSUME NEW i \in 1 .. Len(built')
          PROVE  EntriesDescribe(FlattenSeq(built'[i]), infos[i], executed[i])
        <3>1. i \in 1 .. Len(built) \/ i = Len(built) + 1
            BY <1>0, <2>4
        <3>2. CASE i \in 1 .. Len(built)
            BY <3>2, <2>4 DEF BuiltInv, Entries
        <3>3. CASE i = Len(built) + 1
            BY <3>3, <2>2, <2>3, <2>4
        <3> QED
            BY <3>1, <3>2, <3>3
    <2> QED
        BY <2>1, <2>5 DEF BuiltInv, Entries
<1>2. ASSUME NEW f, NEW r, ReturnFrom(f, r)
      PROVE  BuiltInv'
    <2>1. /\ \E x : executed' = [executed EXCEPT ![side] = x]
          /\ stage = "simulate" /\ UNCHANGED <<built, infos>>
        BY <1>2 DEF ReturnFrom, Running
    <2>2. Len(built) = side - 1
        BY <2>1 DEF CaseInv, StageTypes
    <2>3. ASSUME NEW i \in 1 .. Len(built)
          PROVE  executed'[i] = executed[i]
        <3>1. i # side /\ i \in {Gr, Uv}
            BY <1>0, <2>2
        <3> QED
            BY <3>1, <2>1 DEF HistoryInv
    <2> QED
        BY <2>1, <2>3 DEF BuiltInv, Entries
<1>3. CASE ExtractOther \/ BothExtracted
    <2>1. stage = "dwarf" /\ built' = built
        BY <1>3 DEF ExtractOther, BothExtracted
    <2>2. Len(built') = 0
        BY <2>1 DEF CaseInv, StageTypes
    <2> QED
        BY <2>2 DEF BuiltInv
<1>4. ASSUME UNCHANGED <<built, infos, executed>>
      PROVE  BuiltInv'
    BY <1>4 DEF BuiltInv, Entries
<1>5. ASSUME NEW b, StoreAsIn(b)
      PROVE  BuiltInv'
    BY <1>4, <1>5 DEF StoreAsIn
<1>6. ASSUME NEW lost, EndSimulation(lost)
      PROVE  BuiltInv'
    BY <1>4, <1>6 DEF EndSimulation
<1>7. CASE \/ Extracting \/ Describe \/ Parsing \/ BuildFromElement
           \/ StartVerification \/ Verifying \/ Report \/ (StageRaises /\ Abort) \/ Terminated
    BY <1>4, <1>7 DEF Extracting, Describe, Parsing, BuildFromElement,
                      StartVerification, Verifying, Report, Abort, Terminated, allVars, caseVars
<1> QED
    BY <1>1, <1>2, <1>3, <1>5, <1>6, <1>7 DEF CaseNext

-----------------------------------------------------------------------------
(***************************************************************************)
(* Location strings.                                                       *)
(***************************************************************************)

\* An address of 32 bits has up to eight digits, and as many if it is above
\* all those of seven.
LEMMA Digits ==
    ASSUME NEW a \in Nat
    PROVE  /\ HexDigits(a) \in 1 .. 8
           /\ HexDigits(a) = 8 <=> a >= LowestFound
<1> DEFINE below == { p \in PowersOf16 : a >= p }
<1> DEFINE lower == {16, 256, 4096, 65536, 1048576, 16777216}
<1>1. IsFiniteSet(lower) /\ Cardinality(lower) <= 6
    <2> DEFINE s1 == {16}
    <2> DEFINE s2 == s1 \cup {256}
    <2> DEFINE s3 == s2 \cup {4096}
    <2> DEFINE s4 == s3 \cup {65536}
    <2> DEFINE s5 == s4 \cup {1048576}
    <2> DEFINE s6 == s5 \cup {16777216}
    <2>1. lower = s6
        OBVIOUS
    <2> HIDE DEF s1, s2, s3, s4, s5, s6
    <2>2. IsFiniteSet(s1) /\ Cardinality(s1) = 1
        BY FS_Singleton DEF s1
    <2>3. IsFiniteSet(s2) /\ Cardinality(s2) \in {1, 2}
        BY <2>2, FS_AddElement DEF s2
    <2>4. IsFiniteSet(s3) /\ Cardinality(s3) \in {1, 2, 3}
        BY <2>3, FS_AddElement DEF s3
    <2>5. IsFiniteSet(s4) /\ Cardinality(s4) \in {1, 2, 3, 4}
        BY <2>4, FS_AddElement DEF s4
    <2>6. IsFiniteSet(s5) /\ Cardinality(s5) \in {1, 2, 3, 4, 5}
        BY <2>5, FS_AddElement DEF s5
    <2>7. IsFiniteSet(s6) /\ Cardinality(s6) \in {1, 2, 3, 4, 5, 6}
        BY <2>6, FS_AddElement DEF s6
    <2> QED
        BY <2>1, <2>7
<1>2. PowersOf16 = lower \cup {268435456}
    BY DEF PowersOf16
<1>4. CASE a >= LowestFound
    <2>1. below = PowersOf16
        BY <1>4 DEF PowersOf16, LowestFound
    <2>2. Cardinality(PowersOf16) = 7
        <3> DEFINE s1 == {16}
        <3> DEFINE s2 == s1 \cup {256}
        <3> DEFINE s3 == s2 \cup {4096}
        <3> DEFINE s4 == s3 \cup {65536}
        <3> DEFINE s5 == s4 \cup {1048576}
        <3> DEFINE s6 == s5 \cup {16777216}
        <3> DEFINE s7 == s6 \cup {268435456}
        <3>1. PowersOf16 = s7
            BY DEF PowersOf16
        <3>2. /\ 256 \notin s1 /\ 4096 \notin s2 /\ 65536 \notin s3 /\ 1048576 \notin s4
              /\ 16777216 \notin s5 /\ 268435456 \notin s6
            OBVIOUS
        <3> HIDE DEF s1, s2, s3, s4, s5, s6, s7
        <3>3. IsFiniteSet(s1) /\ Cardinality(s1) = 1
            BY FS_Singleton DEF s1
        <3>4. IsFiniteSet(s2) /\ Cardinality(s2) = 2
            BY <3>2, <3>3, FS_AddElement DEF s2
        <3>5. IsFiniteSet(s3) /\ Cardinality(s3) = 3
            BY <3>2, <3>4, FS_AddElement DEF s3
        <3>6. IsFiniteSet(s4) /\ Cardinality(s4) = 4
            BY <3>2, <3>5, FS_AddElement DEF s4
        <3>7. IsFiniteSet(s5) /\ Cardinality(s5) = 5
            BY <3>2, <3>6, FS_AddElement DEF s5
        <3>8. IsFiniteSet(s6) /\ Cardinality(s6) = 6
            BY <3>2, <3>7, FS_AddElement DEF s6
        <3>9. IsFiniteSet(s7) /\ Cardinality(s7) = 7
            BY <3>2, <3>8, FS_AddElement DEF s7
        <3> QED
            BY <3>1, <3>9
    <2> QED
        BY <2>1, <2>2, <1>4 DEF HexDigits
<1>5. CASE ~ a >= LowestFound
    <2>1. below \in SUBSET lower
        BY <1>5, <1>2 DEF LowestFound
    <2> HIDE DEF below, lower
    <2>2. IsFiniteSet(below) /\ Cardinality(below) <= Cardinality(lower)
        BY <2>1, <1>1, FS_Subset
    <2>3. Cardinality(below) \in Nat /\ Cardinality(lower) \in Nat
        BY <2>2, <1>1, FS_CardinalityType
    <2>4. Cardinality(below) \in 0 .. 6
        BY <2>2, <2>3, <1>1
    <2> QED
        BY <2>4, <1>5 DEF HexDigits, below
<1> QED
    BY <1>4, <1>5

\* The strings of a write and of a look-up are equal for one address above
\* the shorter ones.
LEMMA KeysMeet ==
    ASSUME NEW a, NEW b \in Nat
    PROVE  BareKey(a) = PaddedKey(b) <=> a = b /\ a >= LowestFound
<1>1. HexDigits(b) \in 1 .. 8 /\ (HexDigits(b) = 8 <=> b >= LowestFound)
    BY Digits
<1>2. PaddedKey(b).address = b /\ PaddedKey(b).digits = 8
    BY <1>1 DEF PaddedKey, Key
<1>3. BareKey(a).address = a /\ BareKey(a).digits = HexDigits(a)
    BY DEF BareKey, Key
<1>4. ASSUME BareKey(a) = PaddedKey(b)
      PROVE  a = b /\ a >= LowestFound
    BY <1>1, <1>2, <1>3, <1>4
<1>5. ASSUME a = b, a >= LowestFound
      PROVE  BareKey(a) = PaddedKey(b)
    BY <1>1, <1>5 DEF BareKey, PaddedKey
<1> QED
    BY <1>4, <1>5

-----------------------------------------------------------------------------
(***************************************************************************)
(* What an entry answers.                                                  *)
(***************************************************************************)

\* The last store at an address, if there is one.
LEMMA LastStored ==
    ASSUME NEW call, GoodStores(call.stores), NEW address
    PROVE  \/ /\ \A i \in 1 .. Len(call.stores) : call.stores[i].address # address
              /\ LastStoreAt(call, address) = << >>
           \/ \E i \in 1 .. Len(call.stores) :
                 /\ call.stores[i].address = address
                 /\ \A h \in i + 1 .. Len(call.stores) : call.stores[h].address # address
                 /\ LastStoreAt(call, address) = call.stores[i].data
                 /\ LastStoreAt(call, address) # << >>
<1> DEFINE s == call.stores
<1> DEFINE at == { i \in DOMAIN s : s[i].address = address }
<1>1. /\ Len(s) \in Nat /\ DOMAIN s = 1 .. Len(s)
      /\ \A i \in 1 .. Len(s) : s[i].data \in Seq(0 .. 255) /\ Len(s[i].data) \in 1 .. BufferBytes
    BY GoodStoresAre
<1>2. CASE at = {}
    BY <1>1, <1>2 DEF LastStoreAt
<1>3. CASE at # {}
    <2>1. \E i \in at : \A j \in at : j <= i
        BY <1>1, <1>3, LargestOf
    <2> DEFINE i == CHOOSE i \in at : \A j \in at : j <= i
    <2>2. i \in at /\ \A j \in at : j <= i
        BY <2>1
    <2>3. LastStoreAt(call, address) = s[i].data
        BY <1>3 DEF LastStoreAt
    <2> HIDE DEF i
    <2>4. i \in 1 .. Len(s) /\ s[i].address = address
        BY <1>1, <2>2
    <2>5. \A h \in i + 1 .. Len(s) : s[h].address # address
        <3>1. \A h \in 1 .. Len(s) : s[h].address = address => h <= i
            BY <1>1, <2>2
        <3>2. \A h \in i + 1 .. Len(s) : h \in 1 .. Len(s) /\ ~ (h <= i)
            BY <1>1, <2>4
        <3> QED
            BY <3>1, <3>2
    <2>6. s[i].data # << >>
        <3>1. Len(s[i].data) >= 1
            BY <1>1, <2>4, CasesAssumption
        <3> QED
            BY <3>1
    <2> QED
        BY <2>3, <2>4, <2>5, <2>6
<1> QED
    BY <1>2, <1>3

\* A look-up finds the last store at its address, unless the address is low.
LEMMA FoundIsLast ==
    ASSUME NEW call, GoodStores(call.stores), NEW d, Written(d, call.stores, Len(call.stores)), NEW a
    PROVE  /\ BareKey(a) \in DOMAIN d <=> LastStoreAt(call, a) # << >> /\ a >= LowestFound
           /\ BareKey(a) \in DOMAIN d =>
                 Last(d[BareKey(a)]) = [location |-> PaddedKey(a), data |-> LastStoreAt(call, a)]
<1> DEFINE s == call.stores
<1>1. /\ DOMAIN d = { PaddedKey(s[i].address) : i \in 1 .. Len(s) }
      /\ \A i \in 1 .. Len(s) : (\A h \in i + 1 .. Len(s) : s[h].address # s[i].address) =>
            Last(d[PaddedKey(s[i].address)])
                = [location |-> PaddedKey(s[i].address), data |-> s[i].data]
    BY DEF Written
<1>2. \A i \in 1 .. Len(s) : s[i].address \in Nat
    BY GoodStoresAre
<1>3. \A i \in 1 .. Len(s) : BareKey(a) = PaddedKey(s[i].address) <=> a = s[i].address /\ a >= LowestFound
    BY <1>2, KeysMeet
<1>4. BareKey(a) \in DOMAIN d <=> \E i \in 1 .. Len(s) : s[i].address = a /\ a >= LowestFound
    BY <1>1, <1>3
<1>5. CASE /\ \A i \in 1 .. Len(s) : s[i].address # a
           /\ LastStoreAt(call, a) = << >>
    BY <1>4, <1>5
<1>6. CASE \E i \in 1 .. Len(s) :
                 /\ s[i].address = a
                 /\ \A h \in i + 1 .. Len(s) : s[h].address # a
                 /\ LastStoreAt(call, a) = s[i].data
                 /\ LastStoreAt(call, a) # << >>
    <2>1. PICK i \in 1 .. Len(s) : /\ s[i].address = a
                                   /\ \A h \in i + 1 .. Len(s) : s[h].address # a
                                   /\ LastStoreAt(call, a) = s[i].data
                                   /\ LastStoreAt(call, a) # << >>
        BY <1>6
    <2>2. BareKey(a) \in DOMAIN d <=> a >= LowestFound
        BY <1>4, <2>1
    <2>3. Last(d[PaddedKey(s[i].address)]) = [location |-> PaddedKey(s[i].address), data |-> s[i].data]
        BY <1>1, <2>1
    <2>4. BareKey(a) \in DOMAIN d => BareKey(a) = PaddedKey(s[i].address)
        BY <1>3, <2>1, <2>2
    <2> QED
        BY <2>1, <2>2, <2>3, <2>4
<1> QED
    BY <1>5, <1>6, LastStored

\* The answers of an entry: of a variable whose name is its own, what is found
\* for each of its parts.
LEMMA AnswersAre ==
    ASSUME NEW vars, IsSeq(vars), NEW d
    PROVE  LET answers == get_last_writes_to_global_var_locations(vars, d)
           IN /\ \A p \in DOMAIN answers : \E i \in Located(vars) :
                    \E idx \in 0 .. (Parts(vars[i]) - 1) : p = <<vars[i].name, idx>>
              /\ \A i \in Located(vars) :
                    (\A j \in Located(vars) : vars[j].name = vars[i].name => vars[j] = vars[i]) =>
                    \A idx \in 0 .. (Parts(vars[i]) - 1) :
                        /\ <<vars[i].name, idx>> \in DOMAIN answers <=> PartKey(vars[i], idx) \in DOMAIN d
                        /\ <<vars[i].name, idx>> \in DOMAIN answers =>
                              answers[<<vars[i].name, idx>>] = Last(d[PartKey(vars[i], idx)])
<1> DEFINE Wr(i) == WrittenParts(vars[i], d)
<1> DEFINE Answers(p, i) == /\ p \in Wr(i)
                            /\ \A j \in Located(vars) : p \in Wr(j) => j <= i
<1> DEFINE dom == UNION { Wr(i) : i \in Located(vars) }
<1> DEFINE answers == get_last_writes_to_global_var_locations(vars, d)
<1>1. answers = [p \in dom |->
                    Last(d[PartKey(vars[CHOOSE i \in Located(vars) : Answers(p, i)], p[2])])]
    BY DEF get_last_writes_to_global_var_locations
<1>2. \A i, p : p \in Wr(i) <=> \E idx \in 0 .. (Parts(vars[i]) - 1) :
                      PartKey(vars[i], idx) \in DOMAIN d /\ p = <<vars[i].name, idx>>
    BY DEF WrittenParts
<1>3. Len(vars) \in Nat /\ Located(vars) \subseteq 1 .. Len(vars)
    BY SeqDomain DEF Located
<1> HIDE DEF Wr, answers
<1>4. \A p : p \in dom <=> \E i \in Located(vars) : p \in Wr(i)
    OBVIOUS
<1> HIDE DEF dom
<1>5. DOMAIN answers = dom
    BY <1>1
<1>6. \A p \in DOMAIN answers : \E i \in Located(vars) :
          \E idx \in 0 .. (Parts(vars[i]) - 1) : p = <<vars[i].name, idx>>
    BY <1>2, <1>4, <1>5
<1>7. ASSUME NEW i \in Located(vars),
             \A j \in Located(vars) : vars[j].name = vars[i].name => vars[j] = vars[i],
             NEW idx \in 0 .. (Parts(vars[i]) - 1)
      PROVE  LET p == <<vars[i].name, idx>>
             IN /\ p \in DOMAIN answers <=> PartKey(vars[i], idx) \in DOMAIN d
                /\ p \in DOMAIN answers => answers[p] = Last(d[PartKey(vars[i], idx)])
    <2> DEFINE p == <<vars[i].name, idx>>
    <2>1. ASSUME NEW j \in Located(vars), p \in Wr(j)
          PROVE  vars[j] = vars[i] /\ PartKey(vars[i], idx) \in DOMAIN d
        <3>1. PICK h \in 0 .. (Parts(vars[j]) - 1) :
                  PartKey(vars[j], h) \in DOMAIN d /\ p = <<vars[j].name, h>>
            BY <1>2, <2>1
        <3>2. vars[j].name = vars[i].name /\ h = idx
            BY <3>1
        <3>3. vars[j] = vars[i]
            BY <3>2, <1>7, <2>1
        <3> QED
            BY <3>1, <3>2, <3>3
    <2>2. PartKey(vars[i], idx) \in DOMAIN d => p \in Wr(i)
        BY <1>2, <1>7
    <2>3. p \in dom <=> PartKey(vars[i], idx) \in DOMAIN d
        BY <1>4, <1>7, <2>1, <2>2
    <2>4. ASSUME p \in dom
          PROVE  answers[p] = Last(d[PartKey(vars[i], idx)])
        <3> DEFINE T == { j \in Located(vars) : p \in Wr(j) }
        <3>1. T # {} /\ T \subseteq 1 .. Len(vars)
            BY <1>3, <1>4, <2>4
        <3>2. \E j \in T : \A k \in T : k <= j
            BY <1>3, <3>1, LargestOf
        <3>3. \E j \in Located(vars) : Answers(p, j)
            BY <3>2
        <3> DEFINE j == CHOOSE j \in Located(vars) : Answers(p, j)
        <3>4. j \in Located(vars) /\ p \in Wr(j)
            BY <3>3
        <3>5. answers[p] = Last(d[PartKey(vars[j], p[2])])
            BY <1>1, <2>4
        <3> HIDE DEF j
        <3>6. vars[j] = vars[i] /\ p[2] = idx
            BY <2>1, <3>4
        <3> QED
            BY <3>5, <3>6
    <2> QED
        BY <1>5, <2>3, <2>4
<1> QED
    BY <1>6, <1>7 DEF answers

-----------------------------------------------------------------------------
(***************************************************************************)
(* What is known of a binary.                                              *)
(***************************************************************************)
InfoInv ==
    /\ WalkInv
    /\ stage = "dwarf" => binary = case.binaries[side]
    /\ \A c \in 1 .. Len(infos) : IsDescribed(infos[c], WalkedDies(case.binaries[c]))

\* The binaries of a case are binaries.
LEMMA BinariesAre ==
    ASSUME CaseInv, NEW s \in {Gr, Uv}
    PROVE  IsBinary(case.binaries[s])
BY CasesAssumption DEF CaseInv, ExtractTypes

\* A step of the pipeline describes the binaries one after the other, each by
\* what is found in it.
LEMMA InfoKeeps ==
    ASSUME CaseInv, InfoInv, CaseNext
    PROVE  InfoInv'
<1>0. /\ IsSeq(infos) /\ Len(infos) \in Nat /\ side \in {Gr, Uv}
      /\ stage = "dwarf" => Len(infos) = side - 1
    BY SeqDomain DEF CaseInv, StageTypes
<1>1. CASE Extracting
    <2>1. WalkInv' /\ UNCHANGED <<infos, case, stage, side>>
        BY <1>1, WalkDescribes DEF Extracting, caseVars, InfoInv
    <2>2. binary' = binary
        BY <1>1 DEF Extracting, ExtractNext, extract_architecture_information, MissingProducer,
                    ExtractSubprogram, ExtractGlobalVariable, PassOver, DieRaises, EndUnit,
                    FinishExtraction, UnsupportedMarch, RaiseExtraction, NextDie
    <2> QED
        BY <2>1, <2>2 DEF InfoInv
<1>2. CASE ExtractOther \/ BothExtracted
    <2>1. infos' = Append(infos, dwarf_info) /\ case' = case
          /\ stage = "dwarf" /\ extraction = "extracted"
        BY <1>2 DEF ExtractOther, BothExtracted
    <2>2. /\ Len(infos') = Len(infos) + 1 /\ infos'[Len(infos) + 1] = dwarf_info
          /\ \A i \in 1 .. Len(infos) : infos'[i] = infos[i]
        BY <1>0, <2>1, AppendIsSeq
    <2>3. IsDescribed(dwarf_info, WalkedDies(case.binaries[side])) /\ side = Len(infos) + 1
        BY <1>0, <2>1 DEF InfoInv, WalkInv, Gr, Uv
    <2>4. ASSUME NEW i \in 1 .. Len(infos')
          PROVE  IsDescribed(infos'[i], WalkedDies(case.binaries[i]))
        <3>1. i \in 1 .. Len(infos) \/ i = Len(infos) + 1
            BY <1>0, <2>2, <2>4
        <3> QED
            BY <3>1, <2>2, <2>3 DEF InfoInv
    <2>5. CASE ExtractOther
        <3>1. /\ binary' = case.binaries[Uv] /\ unit' = 1 /\ child' = 0
              /\ dwarf_info' = NoDwarfInfo /\ extraction' = "walking" /\ side' = Uv
            BY <2>5 DEF ExtractOther, ExtractFrom, StartExtraction
        <3>2. IsBinary(case.binaries[Uv])
            BY BinariesAre
        <3>3. Len(case.binaries[Uv].units) \in Nat
            BY <3>2, BinaryHas
        <3>4. IsDescribed(NoDwarfInfo, SoFar(case.binaries[Uv], 1, 0))
            BY <3>2, NothingDescribed
        <3>5. 1 \in 1 .. (Len(case.binaries[Uv].units) + 1) /\ IsInfo(NoDwarfInfo)
            BY <3>3, <3>4 DEF IsDescribed
        <3>6. WalkInv'
            BY <3>1, <3>2, <3>4, <3>5 DEF WalkInv
        <3> QED
            BY <2>1, <2>4, <3>1, <3>6 DEF InfoInv
    <2>6. CASE BothExtracted
        <3>1. UNCHANGED extractVars /\ stage' = "describe"
            BY <2>6 DEF BothExtracted
        <3>2. WalkInv'
            BY <3>1 DEF InfoInv, WalkInv, extractVars, Unit
        <3> QED
            BY <2>1, <2>4, <3>1, <3>2 DEF InfoInv
    <2> QED
        BY <1>2, <2>5, <2>6
<1>3. ASSUME UNCHANGED <<extractVars, infos, case>>, stage' # "dwarf"
      PROVE  InfoInv'
    BY <1>3 DEF InfoInv, WalkInv, extractVars, Unit
<1>4. ASSUME NEW b, StoreAsIn(b)
      PROVE  InfoInv'
    BY <1>3, <1>4 DEF StoreAsIn, Running
<1>5. ASSUME NEW f, NEW r, ReturnFrom(f, r)
      PROVE  InfoInv'
    BY <1>3, <1>5 DEF ReturnFrom, Running
<1>6. ASSUME NEW lost, EndSimulation(lost)
      PROVE  InfoInv'
    BY <1>3, <1>6 DEF EndSimulation, Running
<1>7. CASE \/ Describe \/ BuildFromElement \/ EndOfElements
           \/ StartVerification \/ Report \/ (StageRaises /\ Abort) \/ Terminated
    BY <1>3, <1>7 DEF Describe, Building, BuildFromElement, EndOfElements, StartVerification,
                      Report, Abort, Terminated, allVars, caseVars
<1>8. CASE Parsing \/ Verifying
    BY <1>8 DEF Parsing, Verifying, caseVars, InfoInv, WalkInv, extractVars, Unit
<1> QED
    BY <1>1, <1>2, <1>4, <1>5, <1>6, <1>7, <1>8 DEF CaseNext

-----------------------------------------------------------------------------
\* The history, the traces and the entries together.
EntriesInv == CaseInv /\ HistoryInv /\ RecordInv /\ BuiltInv /\ InfoInv

\* They hold at the start of a case,
LEMMA EntriesStart ==
    ASSUME CaseInit
    PROVE  EntriesInv
<1>1. CaseInv
    BY CaseStarts
<1>2. HistoryInv
    <2>1. /\ stage = "dwarf" /\ side = Gr /\ building = NothingBuilt /\ stores = << >>
          /\ executed = <<<< >>, << >>>> /\ trace_file = << >> /\ parsing = "idle"
        BY DEF CaseInit, NoTrace
    <2>2. DOMAIN executed = {Gr, Uv} /\ executed[Gr] = << >> /\ executed[Uv] = << >>
        BY <2>1 DEF Gr, Uv
    <2> QED
        BY <2>1, <2>2, NoStores, RecordsNothing DEF HistoryInv
<1>3. RecordInv
    BY DEF CaseInit, RecordInv
<1>4. BuiltInv
    BY EmptyIsSeq DEF CaseInit, BuiltInv
<1>5. InfoInv
    <2>1. /\ binary = case.binaries[Gr] /\ unit = 1 /\ child = 0 /\ dwarf_info = NoDwarfInfo
          /\ extraction = "walking" /\ infos = << >> /\ side = Gr
        BY DEF CaseInit, ExtractInit
    <2>2. IsBinary(binary)
        BY <1>1, <2>1, BinariesAre
    <2>3. Len(binary.units) \in Nat /\ IsDescribed(NoDwarfInfo, SoFar(binary, 1, 0))
        BY <2>2, BinaryHas, NothingDescribed
    <2>4. 1 \in 1 .. (Len(binary.units) + 1) /\ IsInfo(NoDwarfInfo) /\ 0 \in Nat
        BY <2>3 DEF IsDescribed
    <2>5. WalkInv
        BY <2>1, <2>2, <2>3, <2>4 DEF WalkInv
    <2> QED
        BY <2>1, <2>5, EmptyIsSeq DEF InfoInv
<1> QED
    BY <1>1, <1>2, <1>3, <1>4, <1>5 DEF EntriesInv

\* at each step,
LEMMA EntriesKeep ==
    ASSUME EntriesInv, [CaseNext]_allVars
    PROVE  EntriesInv'
<1>1. CASE CaseNext
    BY <1>1, CaseStepKeeps, HistoryKeeps, RecordKeeps, BuiltKeeps, InfoKeeps DEF EntriesInv
<1>2. CASE UNCHANGED allVars
    <2>1. CaseInv'
        BY <1>2, CaseStepKeeps DEF EntriesInv
    <2> QED
        BY <1>2, <2>1 DEF EntriesInv, HistoryInv, RecordInv, BuiltInv, InfoInv, WalkInv, Unit, Progress,
                          Entries, allVars, caseVars, parseVars, extractVars
<1> QED
    BY <1>1, <1>2

\* and thus always.
LEMMA EntriesInductive == CaseSpec => []EntriesInv
BY EntriesStart, EntriesKeep, PTL DEF CaseSpec

\* An entry of what was built is that of its call.
LEMMA EntryOfCall ==
    ASSUME EntriesInv, stage # "aborted", NEW c \in DOMAIN built, NEW k \in DOMAIN Entries(c)
    PROVE  /\ c \in {Gr, Uv} /\ c \in 1 .. Len(built) /\ c \in 1 .. Len(infos)
           /\ IsSeq(Entries(c)) /\ Len(Entries(c)) <= Len(executed[c])
           /\ k \in 1 .. Len(Entries(c)) /\ k \in 1 .. Len(executed[c])
           /\ GoodStores(executed[c][k].stores)
           /\ Describes(Entries(c)[k], infos[c], executed[c][k])
<1>1. /\ IsSeq(built) /\ Len(built) <= 2 /\ Len(built) \in Nat /\ DOMAIN built = 1 .. Len(built)
      /\ stage = "dwarf" => Len(built) = 0
      /\ stage # "dwarf" => Len(infos) = 2
    BY SeqDomain DEF EntriesInv, CaseInv, StageTypes, BuildTypes
<1>2. c \in 1 .. Len(built) /\ c \in {Gr, Uv}
    BY <1>1 DEF Gr, Uv
<1>3. EntriesDescribe(Entries(c), infos[c], executed[c]) /\ GoodCalls(executed[c])
    BY <1>2 DEF EntriesInv, BuiltInv, HistoryInv
<1>4. /\ IsSeq(Entries(c)) /\ Len(Entries(c)) \in Nat /\ DOMAIN Entries(c) = 1 .. Len(Entries(c))
      /\ Len(Entries(c)) <= Len(executed[c]) /\ Len(executed[c]) \in Nat
    BY <1>3, SeqDomain DEF EntriesDescribe, GoodCalls
<1>5. k \in 1 .. Len(Entries(c)) /\ k \in 1 .. Len(executed[c])
    BY <1>4
<1> QED
    BY <1>1, <1>2, <1>3, <1>4, <1>5 DEF EntriesDescribe, GoodCalls

\* What the invariant says of one entry.
RightAnswers(c, k) ==
    LET answers == LastWrites(Entries(c)[k])
    IN /\ \A p \in DOMAIN answers : \E v \in Variables(c) :
              p[1] = v.name /\ p[2] \in 0 .. (Parts(v) - 1)
       /\ \A v \in Variables(c) : Alone(c, v) =>
            \A i \in 0 .. (Parts(v) - 1) :
                LET address == v.location + i * Step(v)
                    last == LastStoreAt(executed[c][k], address)
                    answered == <<v.name, i>> \in DOMAIN answers
                IN /\ answered <=> (last # << >> /\ address >= LowestFound)
                   /\ answered => answers[<<v.name, i>>].data = last

\* Whatever a call stored before, and whatever the calls before and after it
\* stored: an entry's answers for the parts of a global variable are the last
\* stores of its own call, where they can be found.
THEOREM AnswersAreLast == CaseSpec => []LastWriteIsLast
<1>1. ASSUME EntriesInv
      PROVE  LastWriteIsLast
    <2> SUFFICES ASSUME NEW c \in DOMAIN built, stage \in {"simulate", "log"}
                 PROVE  /\ Len(Entries(c)) <= Len(executed[c])
                        /\ \A k \in DOMAIN Entries(c) : RightAnswers(c, k)
        BY DEF LastWriteIsLast, RightAnswers
    <2>1. Len(Entries(c)) <= Len(executed[c])
        <3>1. c \in 1 .. Len(built)
            BY <1>1, SeqDomain DEF EntriesInv, CaseInv, BuildTypes
        <3> QED
            BY <1>1, <3>1 DEF EntriesInv, BuiltInv, EntriesDescribe
    <2>2. ASSUME NEW k \in DOMAIN Entries(c)
          PROVE  RightAnswers(c, k)
        <3> DEFINE e == Entries(c)[k]
        <3> DEFINE call == executed[c][k]
        <3> DEFINE vars == infos[c].globals
        <3> DEFINE answers == LastWrites(e)
        <3>1. GoodStores(call.stores) /\ Describes(e, infos[c], call) /\ c \in 1 .. Len(infos)
            BY <1>1, <2>2, EntryOfCall
        <3>2. IsSeq(vars)
            BY <1>1, <3>1 DEF EntriesInv, InfoInv, IsDescribed, IsInfo
        <3>3. e.global_variables = vars /\ Written(e.dwrites, call.stores, Len(call.stores))
            <4>1. e = Entry(infos[c], e.dwrites, ReturnRecord(call.function, call.state))
                BY <3>1 DEF Describes
            <4>2. Entry(infos[c], e.dwrites, ReturnRecord(call.function, call.state)).global_variables = vars
                BY DEF Entry
            <4> QED
                BY <3>1, <4>1, <4>2 DEF Describes
        <3>4. answers = get_last_writes_to_global_var_locations(vars, e.dwrites)
            BY <3>3 DEF LastWrites
        <3> HIDE DEF e, call, answers
        <3>5. ASSUME NEW p \in DOMAIN answers
              PROVE  \E v \in Variables(c) : p[1] = v.name /\ p[2] \in 0 .. (Parts(v) - 1)
            <4>1. PICK i \in Located(vars) :
                      \E idx \in 0 .. (Parts(vars[i]) - 1) : p = <<vars[i].name, idx>>
                BY <3>2, <3>4, <3>5, AnswersAre
            <4>2. vars[i] \in Variables(c) /\ p[1] = vars[i].name /\ p[2] \in 0 .. (Parts(vars[i]) - 1)
                BY <4>1 DEF Variables
            <4> QED
                BY <4>2
        <3>6. ASSUME NEW v \in Variables(c), Alone(c, v), NEW i \in 0 .. (Parts(v) - 1)
              PROVE  LET address == v.location + i * Step(v)
                         last == LastStoreAt(call, address)
                         answered == <<v.name, i>> \in DOMAIN answers
                     IN /\ answered <=> (last # << >> /\ address >= LowestFound)
                        /\ answered => answers[<<v.name, i>>].data = last
            <4>1. PICK h \in Located(vars) : v = vars[h]
                BY <3>6 DEF Variables
            <4>2. \A j \in Located(vars) : vars[j].name = vars[h].name => vars[j] = vars[h]
                BY <3>6, <4>1 DEF Alone, Variables
            <4> DEFINE a == v.location + i * Step(v)
            <4>3. PartKey(vars[h], i) = BareKey(a)
                BY <4>1 DEF PartKey
            <4> HIDE DEF vars
            <4>4. /\ <<v.name, i>> \in DOMAIN answers <=> BareKey(a) \in DOMAIN e.dwrites
                  /\ <<v.name, i>> \in DOMAIN answers => answers[<<v.name, i>>] = Last(e.dwrites[BareKey(a)])
                <5>1. i \in 0 .. (Parts(vars[h]) - 1)
                    BY <3>6, <4>1
                <5> QED
                    BY <3>2, <3>4, <4>1, <4>2, <4>3, <5>1, AnswersAre
            <4> HIDE DEF a
            <4>5. /\ BareKey(a) \in DOMAIN e.dwrites <=> LastStoreAt(call, a) # << >> /\ a >= LowestFound
                  /\ BareKey(a) \in DOMAIN e.dwrites =>
                        Last(e.dwrites[BareKey(a)]) = [location |-> PaddedKey(a), data |-> LastStoreAt(call, a)]
                BY <3>1, <3>3, FoundIsLast
            <4>6. /\ <<v.name, i>> \in DOMAIN answers <=> (LastStoreAt(call, a) # << >> /\ a >= LowestFound)
                  /\ <<v.name, i>> \in DOMAIN answers => answers[<<v.name, i>>].data = LastStoreAt(call, a)
                BY <4>4, <4>5
            <4> QED
                BY <4>6 DEF a
        <3> QED
            BY <3>5, <3>6 DEF e, call, answers, RightAnswers
    <2> QED
        BY <2>1, <2>2
<1> QED
    BY <1>1, EntriesInductive, PTL
-----------------------------------------------------------------------------
(***************************************************************************)
(* The debug information.                                                  *)
(***************************************************************************)

\* For every pair of binaries, whatever types their variables have: the bytes
\* looked at for a global variable are those the C compiler gave it, but for
\* pointers, counted dimensions and unnamed structs.
THEOREM RangesAreRight == CaseSpec => []RangesRight
<1>1. EntriesInv => RangesRight
    BY DescribedRanges DEF EntriesInv, InfoInv
<1> QED
    BY <1>1, EntriesInductive, PTL

\* For every pair of binaries whose functions do not share code: an address
\* inside a function resolves to it, unless a later definition took its name.
THEOREM CodeResolves == CaseSpec => []CodeIsNamed
<1>1. EntriesInv => CodeIsNamed
    BY DescribedCode DEF EntriesInv, InfoInv
<1> QED
    BY <1>1, EntriesInductive, PTL

-----------------------------------------------------------------------------
(***************************************************************************)
(* The parts of a variable.                                                *)
(***************************************************************************)

\* A variable that has an address and a size.
IsSized(v) == v.location \in Nat /\ v.type.range \in Nat /\ v.type.base \in Nat

\* The bytes of its p-th part, counted from 0, and where they are.
PartLen(v, p) ==
    IF v.type.range - p * Step(v) < Step(v) THEN v.type.range - p * Step(v) ELSE Step(v)
PartAt(v, p) == v.location + p * Step(v)

\* The parts are within the variable.
LEMMA PartsFit ==
    ASSUME NEW v, IsSized(v), NEW p \in 0 .. (Parts(v) - 1)
    PROVE  /\ p \in Nat /\ Step(v) \in Nat \ {0} /\ p * Step(v) \in Nat
           /\ PartLen(v, p) \in 1 .. Step(v)
           /\ p * Step(v) + PartLen(v, p) <= v.type.range
           /\ PartAt(v, p) \in Nat /\ PartAt(v, p) >= v.location
<1> DEFINE r == v.type.range
<1> DEFINE st == Step(v)
<1> DEFINE n == Parts(v)
<1>0. r \in Nat /\ v.type.base \in Nat
    BY DEF IsSized
<1>1. st \in Nat \ {0} /\ n \in Nat /\ (n - 1) * st < r
    <2>1. CASE IsArray(v)
        <3>1. v.type.base # 0
            BY <2>1, <1>0 DEF Parts, get_number_of_elements
        <3>2. st = v.type.base /\ n = r \div st
            BY <2>1, <3>1 DEF Step, Parts, get_number_of_elements
        <3> HIDE DEF st, n, r
        <3>3. n \in Nat /\ n * st <= r /\ n * st \in Nat /\ st \in Nat \ {0}
            BY <1>0, <3>1, <3>2, Quotient
        <3>4. 0 < n
            BY <3>3 DEF n
        <3>5. (n - 1) * st = n * st - st
            BY <3>3, <3>4, TimesGrows
        <3> QED
            BY <3>3, <3>5, <1>0
    <2>2. CASE ~ IsArray(v)
        <3>1. st = 4 /\ n = (r + 4 - 1) \div 4
            BY <2>2 DEF Step, Parts, CeilQuotient, XLenBytes
        <3> HIDE DEF st, n, r
        <3> QED
            BY <3>1, <1>0
    <2> QED
        BY <2>1, <2>2
<1>2. p \in Nat /\ p <= n - 1
    BY <1>1
<1> HIDE DEF st, n, r
<1>3. p * st \in Nat /\ p * st < r
    <2>1. CASE p = n - 1
        BY <2>1, <1>1, <1>2, TimesGrows
    <2>2. CASE p < n - 1
        <3>1. n - 1 \in Nat
            BY <2>2, <1>1, <1>2
        <3>2. p * st + st <= (n - 1) * st /\ p * st \in Nat /\ (n - 1) * st \in Nat
            BY <2>2, <3>1, <1>1, <1>2, TimesGrows
        <3> QED
            BY <3>2, <1>0, <1>1
    <2> QED
        BY <2>1, <2>2, <1>1, <1>2
<1>4. PartLen(v, p) = IF r - p * st < st THEN r - p * st ELSE st
    BY DEF PartLen, r, st
<1>5. PartAt(v, p) = v.location + p * st /\ v.location \in Nat
    BY DEF PartAt, IsSized, st
<1>6. PartLen(v, p) \in 1 .. st /\ p * st + PartLen(v, p) <= r
    BY <1>0, <1>1, <1>3, <1>4
<1> QED
    BY <1>1, <1>2, <1>3, <1>5, <1>6 DEF st, r

-----------------------------------------------------------------------------
(***************************************************************************)
(* What a call left of a variable that it stored to part by part.          *)
(***************************************************************************)

\* The call stores whole parts of the variable, or nothing of it.
InParts(call, v) ==
    \A s \in Range(call.stores) :
        (\E a \in v.location .. (v.location + v.type.range - 1) : Covers(s, a)) =>
            \E p \in 0 .. (Parts(v) - 1) : s.address = PartAt(v, p) /\ Len(s.data) = PartLen(v, p)
ImageOf(call, v) == MemoryImage(call, v.location, v.type.range)

\* A store that covers a byte of a part is a store of that part, and each of
\* those covers all of it.
LEMMA CoversPart ==
    ASSUME NEW call, GoodStores(call.stores), NEW v, IsSized(v), InParts(call, v),
           NEW p \in 0 .. (Parts(v) - 1), NEW i \in 1 .. Len(call.stores)
    PROVE  /\ call.stores[i].address = PartAt(v, p) => Len(call.stores[i].data) = PartLen(v, p)
           /\ \A x \in 0 .. (PartLen(v, p) - 1) :
                 Covers(call.stores[i], PartAt(v, p) + x) <=> call.stores[i].address = PartAt(v, p)
<1> DEFINE s == call.stores[i]
<1> DEFINE m == p * Step(v)
<1>1. s.address \in Nat /\ Len(s.data) \in Nat /\ Len(s.data) >= 1 /\ s \in Range(call.stores)
    BY GoodStoresAre, CasesAssumption DEF Range
<1>2. /\ PartLen(v, p) \in 1 .. Step(v) /\ Step(v) \in Nat \ {0} /\ m \in Nat /\ p \in Nat
      /\ m + PartLen(v, p) <= v.type.range
      /\ PartAt(v, p) \in Nat
    BY PartsFit
<1>3. PartAt(v, p) = v.location + m /\ v.location \in Nat /\ v.type.range \in Nat
    BY DEF PartAt, IsSized
<1> HIDE DEF s, m
<1>4. ASSUME NEW x \in 0 .. (PartLen(v, p) - 1), Covers(s, PartAt(v, p) + x)
      PROVE  s.address = PartAt(v, p) /\ Len(s.data) = PartLen(v, p)
    <2>0. x \in Nat /\ x < PartLen(v, p)
        BY <1>2, <1>4
    <2>1. PartAt(v, p) + x \in v.location .. (v.location + v.type.range - 1)
        <3>1. PartLen(v, p) \in Nat
            BY <1>2
        <3> QED
            BY <1>2, <1>3, <2>0, <3>1, WithinPart
    <2>2. PICK q \in 0 .. (Parts(v) - 1) : s.address = PartAt(v, q) /\ Len(s.data) = PartLen(v, q)
        BY <1>1, <1>4, <2>1 DEF InParts
    <2> DEFINE n == q * Step(v)
    <2>3. /\ PartLen(v, q) \in 1 .. Step(v) /\ n \in Nat /\ q \in Nat
          /\ PartAt(v, q) = v.location + n
        BY PartsFit DEF PartAt
    <2> HIDE DEF n
    <2> DEFINE y == PartAt(v, p) + x - s.address
    <2>4. y \in 0 .. (Step(v) - 1) /\ x \in 0 .. (Step(v) - 1)
        <3>1. Len(s.data) \in Nat /\ Len(s.data) <= Step(v)
            BY <2>2, <2>3, <1>2
        <3>2. s.address <= PartAt(v, p) + x /\ PartAt(v, p) + x < s.address + Len(s.data)
            BY <1>4 DEF Covers
        <3>3. y \in 0 .. (Len(s.data) - 1)
            BY <1>1, <1>2, <2>0, <3>1, <3>2, PlaceInStore
        <3>4. Step(v) \in Nat /\ PartLen(v, p) <= Step(v) /\ x < Step(v)
            BY <1>2, <2>0
        <3>5. x \in 0 .. (Step(v) - 1)
            BY <2>0, <3>4
        <3> HIDE DEF y
        <3> QED
            BY <3>1, <3>3, <3>4, <3>5
    <2>5. m + x = n + y
        <3>1. y = v.location + m + x - (v.location + n)
            BY <1>3, <2>2, <2>3
        <3>2. m \in Nat /\ n \in Nat /\ x \in Nat /\ v.location \in Nat
            BY <1>2, <1>3, <2>0, <2>3
        <3> HIDE DEF y
        <3> QED
            BY <3>1, <3>2
    <2> HIDE DEF y
    <2>6. p = q
        <3> DEFINE d == Step(v)
        <3>1. p * d + x = q * d + y
            BY <2>5 DEF m, n
        <3>2. p \in Nat /\ q \in Nat /\ d \in Nat
            BY <1>2, <2>3
        <3>3. x \in 0 .. (d - 1) /\ y \in 0 .. (d - 1)
            BY <2>4
        <3> HIDE DEF d
        <3> QED
            BY <3>1, <3>2, <3>3, SamePart
    <2> QED
        BY <2>2, <2>6
<1>5. ASSUME s.address = PartAt(v, p)
      PROVE  Len(s.data) = PartLen(v, p)
    <2>1. 0 \in 0 .. (PartLen(v, p) - 1) /\ PartAt(v, p) + 0 = PartAt(v, p)
        BY <1>2
    <2>2. Covers(s, PartAt(v, p))
        BY <1>1, <1>5 DEF Covers
    <2> QED
        BY <1>4, <2>1, <2>2
<1>6. ASSUME NEW x \in 0 .. (PartLen(v, p) - 1), s.address = PartAt(v, p)
      PROVE  Covers(s, PartAt(v, p) + x)
    <2>1. x \in Nat /\ x < PartLen(v, p)
        BY <1>2
    <2> QED
        BY <1>2, <1>5, <1>6, <2>1 DEF Covers
<1> QED
    BY <1>4, <1>5, <1>6 DEF s

\* A byte of a part is the one that the last store of that part left.
LEMMA PartImage ==
    ASSUME NEW call, GoodStores(call.stores), NEW v, IsSized(v), InParts(call, v),
           NEW p \in 0 .. (Parts(v) - 1)
    PROVE  LET data == LastStoreAt(call, PartAt(v, p))
           IN /\ data # << >> => data \in Seq(0 .. 255) /\ Len(data) = PartLen(v, p)
              /\ \A x \in 0 .. (PartLen(v, p) - 1) :
                    /\ p * Step(v) + x \in 0 .. (v.type.range - 1)
                    /\ ImageOf(call, v)[p * Step(v) + x] = IF data = << >> THEN None ELSE data[x + 1]
<1> DEFINE s == call.stores
<1> DEFINE a == PartAt(v, p)
<1> DEFINE data == LastStoreAt(call, a)
<1>0. /\ Len(s) \in Nat /\ DOMAIN s = 1 .. Len(s)
      /\ \A i \in 1 .. Len(s) : s[i].address \in Nat /\ s[i].data \in Seq(0 .. 255)
    BY GoodStoresAre
<1>1. /\ PartLen(v, p) \in 1 .. Step(v) /\ Step(v) \in Nat \ {0} /\ p * Step(v) \in Nat /\ p \in Nat
      /\ p * Step(v) + PartLen(v, p) <= v.type.range
      /\ a \in Nat /\ a = v.location + p * Step(v)
      /\ v.location \in Nat /\ v.type.range \in Nat
    BY PartsFit DEF IsSized, PartAt
<1>2. \A i \in 1 .. Len(s) :
         /\ s[i].address = a => Len(s[i].data) = PartLen(v, p)
         /\ \A x \in 0 .. (PartLen(v, p) - 1) : Covers(s[i], a + x) <=> s[i].address = a
    BY CoversPart
<1>3. ASSUME NEW x \in 0 .. (PartLen(v, p) - 1)
      PROVE  /\ p * Step(v) + x \in 0 .. (v.type.range - 1)
             /\ v.location + (p * Step(v) + x) = a + x
             /\ x \in Nat
    BY <1>1
<1> DEFINE Covering(x) == { i \in DOMAIN s : Covers(s[i], v.location + (p * Step(v) + x)) }
<1>4. ASSUME NEW x \in 0 .. (PartLen(v, p) - 1)
      PROVE  /\ Covering(x) = { i \in 1 .. Len(s) : s[i].address = a }
             /\ ImageOf(call, v)[p * Step(v) + x] =
                   IF Covering(x) = {} THEN None
                   ELSE LET t == s[CHOOSE i \in Covering(x) : \A j \in Covering(x) : j <= i]
                        IN t.data[v.location + (p * Step(v) + x) - t.address + 1]
    <2>1. Covering(x) = { i \in 1 .. Len(s) : s[i].address = a }
        BY <1>0, <1>2, <1>3
    <2> QED
        BY <1>3, <2>1 DEF ImageOf, MemoryImage
<1> DEFINE at == { i \in 1 .. Len(s) : s[i].address = a }
<1>5. CASE data = << >>
    <2>1. \A i \in 1 .. Len(s) : s[i].address # a
        BY <1>5, LastStored
    <2>2. at = {}
        BY <2>1
    <2> QED
        BY <1>3, <1>4, <1>5, <2>2
<1>6. CASE data # << >>
    <2>1. PICK i \in 1 .. Len(s) : /\ s[i].address = a
                                   /\ \A h \in i + 1 .. Len(s) : s[h].address # a
                                   /\ data = s[i].data
        <3> HIDE DEF a
        <3> QED
            BY <1>6, LastStored
    <2>2. i \in at /\ \A j \in at : j <= i
        <3>1. \A j \in at : j \in 1 .. Len(s) /\ j \notin i + 1 .. Len(s)
            BY <2>1
        <3> QED
            BY <1>0, <2>1, <3>1
    <2>3. (CHOOSE h \in at : \A j \in at : j <= h) = i
        <3>1. at \subseteq 1 .. Len(s)
            OBVIOUS
        <3> HIDE DEF at
        <3> QED
            BY <1>0, <2>2, <3>1, ChosenLast
    <2>4. at # {}
        BY <2>2
    <2> HIDE DEF at, Covering, data
    <2>5. data \in Seq(0 .. 255) /\ Len(data) = PartLen(v, p)
        BY <1>0, <1>2, <2>1
    <2>6. ASSUME NEW x \in 0 .. (PartLen(v, p) - 1)
          PROVE  ImageOf(call, v)[p * Step(v) + x] = data[x + 1]
        <3>1. Covering(x) = at
            BY <1>4 DEF at
        <3>2. ImageOf(call, v)[p * Step(v) + x] = s[i].data[v.location + (p * Step(v) + x) - s[i].address + 1]
            BY <1>4, <2>3, <2>4, <3>1
        <3> DEFINE o == p * Step(v) + x
        <3>3. v.location + o = a + x /\ x \in Nat /\ a \in Nat /\ s[i].address = a /\ v.location \in Nat
            BY <1>1, <1>3, <2>1, <2>6
        <3>4. ImageOf(call, v)[o] = s[i].data[v.location + o - s[i].address + 1]
            BY <3>2
        <3>5. o \in Nat
            BY <1>1, <1>3, <2>6
        <3> HIDE DEF o, a
        <3>6. v.location + o - s[i].address + 1 = x + 1
            BY <3>3, <3>5
        <3>7. ImageOf(call, v)[o] = data[x + 1]
            <4>1. ImageOf(call, v)[o] = s[i].data[x + 1]
                BY <3>4, <3>6
            <4>2. s[i].data = data
                BY <2>1
            <4> QED
                BY <4>1, <4>2
        <3> QED
            BY <3>7 DEF o
    <2> QED
        BY <1>3, <1>6, <2>5, <2>6 DEF data
<1> QED
    BY <1>5, <1>6

\* Of what is in no part nothing was stored.
LEMMA StoredIsInPart ==
    ASSUME NEW call, GoodStores(call.stores), NEW v, IsSized(v), InParts(call, v),
           NEW o \in 0 .. (v.type.range - 1), ImageOf(call, v)[o] # None
    PROVE  \E p \in 0 .. (Parts(v) - 1) : \E x \in 0 .. (PartLen(v, p) - 1) : o = p * Step(v) + x
<1> DEFINE s == call.stores
<1> DEFINE covering == { i \in DOMAIN s : Covers(s[i], v.location + o) }
<1>1. covering # {}
    BY DEF ImageOf, MemoryImage
<1>2. PICK i \in DOMAIN s : Covers(s[i], v.location + o)
    BY <1>1
<1>3. s[i] \in Range(s) /\ s[i].address \in Nat
    BY <1>2, GoodStoresAre DEF Range
<1>4. v.location + o \in v.location .. (v.location + v.type.range - 1) /\ o \in Nat /\ v.location \in Nat
    BY DEF IsSized
<1>5. PICK p \in 0 .. (Parts(v) - 1) : s[i].address = PartAt(v, p) /\ Len(s[i].data) = PartLen(v, p)
    BY <1>2, <1>3, <1>4 DEF InParts
<1> DEFINE m == p * Step(v)
<1>6. PartLen(v, p) \in Nat /\ m \in Nat /\ PartAt(v, p) = v.location + m
    BY PartsFit DEF PartAt
<1> HIDE DEF m, s
<1> DEFINE x == o - m
<1>7. x \in 0 .. (PartLen(v, p) - 1) /\ o = m + x
    BY <1>2, <1>4, <1>5, <1>6 DEF Covers
<1>8. o = p * Step(v) + x
    BY <1>7 DEF m
<1> HIDE DEF x
<1> QED
    BY <1>5, <1>7, <1>8

\* An image and what it was made of, part by part.
PartData(call, v) == [p \in 0 .. (Parts(v) - 1) |-> LastStoreAt(call, PartAt(v, p))]
IsMadeOf(image, part, v) ==
    /\ image = [o \in 0 .. (v.type.range - 1) |-> image[o]]
    /\ DOMAIN part = 0 .. (Parts(v) - 1)
    /\ \A p \in 0 .. (Parts(v) - 1) :
          /\ part[p] # << >> => part[p] \in Seq(0 .. 255) /\ Len(part[p]) = PartLen(v, p)
          /\ PartLen(v, p) \in Nat \ {0}
          /\ \A x \in 0 .. (PartLen(v, p) - 1) :
                /\ p * Step(v) + x \in 0 .. (v.type.range - 1)
                /\ image[p * Step(v) + x] = IF part[p] = << >> THEN None ELSE part[p][x + 1]
    /\ \A o \in 0 .. (v.type.range - 1) : image[o] # None =>
          \E p \in 0 .. (Parts(v) - 1) : \E x \in 0 .. (PartLen(v, p) - 1) : o = p * Step(v) + x

\* A call that stores part by part makes its image so.
LEMMA MadeOfParts ==
    ASSUME NEW call, GoodStores(call.stores), NEW v, IsSized(v), InParts(call, v)
    PROVE  IsMadeOf(ImageOf(call, v), PartData(call, v), v)
<1> DEFINE image == ImageOf(call, v)
<1> DEFINE part == PartData(call, v)
<1>1. image = [o \in 0 .. (v.type.range - 1) |-> image[o]]
    BY DEF ImageOf, MemoryImage
<1>2. DOMAIN part = 0 .. (Parts(v) - 1)
    BY DEF PartData
<1>3. ASSUME NEW p \in 0 .. (Parts(v) - 1)
      PROVE  /\ part[p] # << >> => part[p] \in Seq(0 .. 255) /\ Len(part[p]) = PartLen(v, p)
             /\ PartLen(v, p) \in Nat \ {0}
             /\ \A x \in 0 .. (PartLen(v, p) - 1) :
                   /\ p * Step(v) + x \in 0 .. (v.type.range - 1)
                   /\ image[p * Step(v) + x] = IF part[p] = << >> THEN None ELSE part[p][x + 1]
    <2>1. part[p] = LastStoreAt(call, PartAt(v, p))
        BY DEF PartData
    <2>2. PartLen(v, p) \in Nat \ {0}
        BY PartsFit
    <2> HIDE DEF image, part
    <2>3. LET data == LastStoreAt(call, PartAt(v, p))
          IN /\ data # << >> => data \in Seq(0 .. 255) /\ Len(data) = PartLen(v, p)
             /\ \A x \in 0 .. (PartLen(v, p) - 1) :
                   /\ p * Step(v) + x \in 0 .. (v.type.range - 1)
                   /\ image[p * Step(v) + x] = IF data = << >> THEN None ELSE data[x + 1]
        BY PartImage DEF image
    <2> QED
        BY <2>1, <2>2, <2>3
<1>4. \A o \in 0 .. (v.type.range - 1) : image[o] # None =>
          \E p \in 0 .. (Parts(v) - 1) : \E x \in 0 .. (PartLen(v, p) - 1) : o = p * Step(v) + x
    BY StoredIsInPart
<1> HIDE DEF image, part
<1>5. IsMadeOf(image, part, v)
    BY <1>1, <1>2, <1>3, <1>4 DEF IsMadeOf
<1> QED
    BY <1>5 DEF image, part

\* A byte that was stored is not None.
LEMMA PartByte ==
    ASSUME NEW image, NEW part, NEW v, IsMadeOf(image, part, v), NEW p \in 0 .. (Parts(v) - 1),
           NEW x \in 0 .. (PartLen(v, p) - 1)
    PROVE  /\ p * Step(v) + x \in 0 .. (v.type.range - 1)
           /\ image[p * Step(v) + x] = None <=> part[p] = << >>
           /\ part[p] # << >> => image[p * Step(v) + x] = part[p][x + 1]
<1>1. /\ part[p] # << >> => part[p] \in Seq(0 .. 255) /\ Len(part[p]) = PartLen(v, p)
      /\ PartLen(v, p) \in Nat \ {0}
      /\ p * Step(v) + x \in 0 .. (v.type.range - 1)
      /\ image[p * Step(v) + x] = IF part[p] = << >> THEN None ELSE part[p][x + 1]
    BY DEF IsMadeOf
<1>2. x + 1 \in 1 .. PartLen(v, p)
    BY <1>1
<1>3. part[p] # << >> => part[p][x + 1] \in 0 .. 255
    BY <1>1, <1>2, ElementIn
<1>4. None \notin 0 .. 255
    BY DEF None
<1> QED
    BY <1>1, <1>3, <1>4

\* Something of the variable was stored if and only if some part was.
LEMMA StoredParts ==
    ASSUME NEW image, NEW part, NEW v, IsMadeOf(image, part, v)
    PROVE  /\ DOMAIN image = 0 .. (v.type.range - 1)
           /\ Stored(image) # {} <=> \E p \in 0 .. (Parts(v) - 1) : part[p] # << >>
<1>1. DOMAIN image = 0 .. (v.type.range - 1)
    BY DEF IsMadeOf
<1>2. ASSUME NEW o \in Stored(image)
      PROVE  \E p \in 0 .. (Parts(v) - 1) : part[p] # << >>
    <2>1. o \in 0 .. (v.type.range - 1) /\ image[o] # None
        BY <1>1 DEF Stored
    <2>2. PICK p \in 0 .. (Parts(v) - 1) : \E x \in 0 .. (PartLen(v, p) - 1) : o = p * Step(v) + x
        BY <2>1 DEF IsMadeOf
    <2> QED
        BY <2>1, <2>2, PartByte
<1>3. ASSUME NEW p \in 0 .. (Parts(v) - 1), part[p] # << >>
      PROVE  Stored(image) # {}
    <2>1. 0 \in 0 .. (PartLen(v, p) - 1)
        BY DEF IsMadeOf
    <2> DEFINE o == p * Step(v) + 0
    <2>2. o \in 0 .. (v.type.range - 1) /\ image[o] # None
        BY <1>3, <2>1, PartByte
    <2> HIDE DEF o
    <2> QED
        BY <1>1, <2>2 DEF Stored
<1> QED
    BY <1>1, <1>2, <1>3

\* Two images of the same shape, made of parts, have the same bytes if and only
\* if the parts do, and the same stored bytes only if the same parts are.
LEMMA ImagesByParts ==
    ASSUME NEW v, NEW w, w.type = v.type,
           NEW image, NEW part, IsMadeOf(image, part, v),
           NEW other, NEW parts, IsMadeOf(other, parts, w)
    PROVE  /\ image = other <=> \A p \in 0 .. (Parts(v) - 1) : part[p] = parts[p]
           /\ Stored(image) = Stored(other) =>
                 \A p \in 0 .. (Parts(v) - 1) : part[p] = << >> <=> parts[p] = << >>
<1>1. /\ Parts(w) = Parts(v) /\ Step(w) = Step(v) /\ w.type.range = v.type.range
      /\ \A p : PartLen(w, p) = PartLen(v, p)
    BY DEF Parts, Step, PartLen, IsArray, get_number_of_elements
<1>2. IsMadeOf(other, parts, v)
    <2>1. other = [o \in 0 .. (v.type.range - 1) |-> other[o]]
        BY <1>1 DEF IsMadeOf
    <2>2. DOMAIN parts = 0 .. (Parts(v) - 1)
        BY <1>1 DEF IsMadeOf
    <2>3. ASSUME NEW p \in 0 .. (Parts(v) - 1)
          PROVE  /\ parts[p] # << >> => parts[p] \in Seq(0 .. 255) /\ Len(parts[p]) = PartLen(v, p)
                 /\ PartLen(v, p) \in Nat \ {0}
                 /\ \A x \in 0 .. (PartLen(v, p) - 1) :
                       /\ p * Step(v) + x \in 0 .. (v.type.range - 1)
                       /\ other[p * Step(v) + x] = IF parts[p] = << >> THEN None ELSE parts[p][x + 1]
        <3>1. p \in 0 .. (Parts(w) - 1)
            BY <1>1, <2>3
        <3>2. /\ parts[p] # << >> => parts[p] \in Seq(0 .. 255) /\ Len(parts[p]) = PartLen(w, p)
              /\ PartLen(w, p) \in Nat \ {0}
              /\ \A x \in 0 .. (PartLen(w, p) - 1) :
                    /\ p * Step(w) + x \in 0 .. (w.type.range - 1)
                    /\ other[p * Step(w) + x] = IF parts[p] = << >> THEN None ELSE parts[p][x + 1]
            BY <3>1 DEF IsMadeOf
        <3> QED
            BY <1>1, <3>2
    <2>4. ASSUME NEW o \in 0 .. (v.type.range - 1), other[o] # None
          PROVE  \E p \in 0 .. (Parts(v) - 1) : \E x \in 0 .. (PartLen(v, p) - 1) : o = p * Step(v) + x
        <3>1. o \in 0 .. (w.type.range - 1)
            BY <1>1, <2>4
        <3>2. PICK p \in 0 .. (Parts(w) - 1) : \E x \in 0 .. (PartLen(w, p) - 1) : o = p * Step(w) + x
            BY <2>4, <3>1 DEF IsMadeOf
        <3> QED
            BY <1>1, <3>2
    <2> QED
        BY <2>1, <2>2, <2>3, <2>4 DEF IsMadeOf
<1>3. DOMAIN image = 0 .. (v.type.range - 1) /\ DOMAIN other = 0 .. (v.type.range - 1)
    BY <1>2, StoredParts
<1>4. ASSUME image = other, NEW p \in 0 .. (Parts(v) - 1)
      PROVE  part[p] = parts[p]
    <2>1. 0 \in 0 .. (PartLen(v, p) - 1) /\ PartLen(v, p) \in Nat
        BY <1>4 DEF IsMadeOf
    <2>2. part[p] = << >> <=> parts[p] = << >>
        BY <1>2, <1>4, <2>1, PartByte
    <2>3. ASSUME part[p] # << >>
          PROVE  part[p] = parts[p]
        <3>1. /\ part[p] \in Seq(0 .. 255) /\ Len(part[p]) = PartLen(v, p)
              /\ parts[p] \in Seq(0 .. 255) /\ Len(parts[p]) = PartLen(v, p)
            BY <1>2, <1>4, <2>2, <2>3 DEF IsMadeOf
        <3>2. ASSUME NEW y \in 1 .. PartLen(v, p)
              PROVE  part[p][y] = parts[p][y]
            <4>1. y - 1 \in 0 .. (PartLen(v, p) - 1) /\ (y - 1) + 1 = y
                BY <2>1, <3>2
            <4>2. part[p][(y - 1) + 1] = parts[p][(y - 1) + 1]
                BY <1>2, <1>4, <2>2, <2>3, <4>1, PartByte
            <4> QED
                BY <4>1, <4>2
        <3> QED
            BY <3>1, <3>2, SeqEqual
    <2> QED
        BY <2>2, <2>3
<1>5. ASSUME \A p \in 0 .. (Parts(v) - 1) : part[p] = parts[p]
      PROVE  image = other
    <2>1. ASSUME NEW o \in 0 .. (v.type.range - 1)
          PROVE  image[o] = other[o]
        <3>1. CASE image[o] # None \/ other[o] # None
            <4>1. PICK p \in 0 .. (Parts(v) - 1) : \E x \in 0 .. (PartLen(v, p) - 1) : o = p * Step(v) + x
                BY <1>2, <2>1, <3>1 DEF IsMadeOf
            <4> QED
                BY <1>2, <1>5, <4>1, PartByte
        <3> QED
            BY <3>1
    <2>2. image = [o \in 0 .. (v.type.range - 1) |-> image[o]]
        BY DEF IsMadeOf
    <2>3. other = [o \in 0 .. (v.type.range - 1) |-> other[o]]
        BY <1>2 DEF IsMadeOf
    <2> QED
        BY <2>1, <2>2, <2>3
<1>6. ASSUME Stored(image) = Stored(other), NEW p \in 0 .. (Parts(v) - 1)
      PROVE  part[p] = << >> <=> parts[p] = << >>
    <2>1. 0 \in 0 .. (PartLen(v, p) - 1)
        BY <1>6 DEF IsMadeOf
    <2> DEFINE o == p * Step(v) + 0
    <2>2. /\ o \in 0 .. (v.type.range - 1)
          /\ image[o] = None <=> part[p] = << >>
          /\ other[o] = None <=> parts[p] = << >>
        BY <1>2, <1>6, <2>1, PartByte
    <2> HIDE DEF o
    <2>3. o \in Stored(image) <=> o \in Stored(other)
        BY <1>6
    <2> QED
        BY <1>3, <2>2, <2>3 DEF Stored
<1> QED
    BY <1>4, <1>5, <1>6

-----------------------------------------------------------------------------
(***************************************************************************)
(* What two entries answer about one variable.                             *)
(***************************************************************************)

\* The answers about a variable are what was stored to its parts.
Answered(v, part) == { p \in 0 .. (Parts(v) - 1) : part[p] # << >> }
AnswersParts(writes, v, part) ==
    /\ PartsOf(writes, v.name) = { <<v.name, p>> : p \in Answered(v, part) }
    /\ \A p \in Answered(v, part) :
          writes[<<v.name, p>>] = [location |-> PaddedKey(PartAt(v, p)), data |-> part[p]]

\* The parts are numbered by their indices, in a set of them.
IndexOf(P) == [p \in P |-> p[2]]
Ranked(P, k) == { q \in P : Cardinality(Lower(P, IndexOf(P), q)) = k - 1 }

\* Parts further on are at higher addresses.
LEMMA PartsAscend ==
    ASSUME NEW v, IsSized(v), NEW p \in 0 .. (Parts(v) - 1), NEW q \in 0 .. (Parts(v) - 1)
    PROVE  /\ PartAt(v, p) \in Nat
           /\ p < q <=> PartAt(v, p) < PartAt(v, q) \/ (PartAt(v, p) = PartAt(v, q) /\ p < q)
<1> DEFINE m == p * Step(v)
<1> DEFINE n == q * Step(v)
<1>1. /\ p \in Nat /\ q \in Nat /\ Step(v) \in Nat \ {0} /\ m \in Nat /\ n \in Nat
      /\ PartAt(v, p) = v.location + m /\ PartAt(v, q) = v.location + n /\ v.location \in Nat
      /\ PartAt(v, p) \in Nat
    BY PartsFit DEF PartAt, IsSized
<1>2. p < q => m + Step(v) <= n
    BY <1>1, TimesGrows
<1>3. q < p => n + Step(v) <= m
    BY <1>1, TimesGrows
<1>4. p = q => m = n
    OBVIOUS
<1> HIDE DEF m, n
<1> QED
    BY <1>1, <1>2, <1>3, <1>4

\* The order in which the parts are put together is that of their indices.
LEMMA RanksOfParts ==
    ASSUME NEW v, IsSized(v), NEW part, NEW writes, AnswersParts(writes, v, part)
    PROVE  LET P == PartsOf(writes, v.name)
           IN /\ IsNumbering(P, IndexOf(P), Parts(v))
              /\ \A k : AtRank(writes, v.name, k) = Ranked(P, k)
<1> DEFINE P == PartsOf(writes, v.name)
<1>1. \A q \in P : /\ q[2] \in 0 .. (Parts(v) - 1) /\ q = <<v.name, q[2]>>
                   /\ writes[q].location = PaddedKey(PartAt(v, q[2]))
    <2> SUFFICES ASSUME NEW q \in P
                 PROVE  /\ q[2] \in 0 .. (Parts(v) - 1) /\ q = <<v.name, q[2]>>
                        /\ writes[q].location = PaddedKey(PartAt(v, q[2]))
        OBVIOUS
    <2>1. PICK p \in Answered(v, part) : q = <<v.name, p>>
        BY DEF AnswersParts
    <2>2. writes[<<v.name, p>>] = [location |-> PaddedKey(PartAt(v, p)), data |-> part[p]]
        BY DEF AnswersParts
    <2>3. q[2] = p
        BY <2>1
    <2> QED
        BY <2>1, <2>2, <2>3 DEF Answered
<1>0. Parts(v) \in Nat
    <2>1. v.type.range \in Nat /\ v.type.base \in Nat
        BY DEF IsSized
    <2>2. \A r \in Nat : \A b \in Nat \ {0} : r \div b \in Nat
        BY Quotient
    <2>3. CeilQuotient(v.type.range, XLenBytes) \in Nat
        BY <2>1 DEF CeilQuotient, XLenBytes
    <2> QED
        BY <2>1, <2>2, <2>3 DEF Parts, get_number_of_elements
<1> HIDE DEF P
<1>3. IsNumbering(P, IndexOf(P), Parts(v))
    <2>1. \A p, q \in P : IndexOf(P)[p] = IndexOf(P)[q] => p = q
        BY <1>1 DEF IndexOf
    <2>2. IndexOf(P) \in [P -> 0 .. (Parts(v) - 1)]
        BY <1>1 DEF IndexOf
    <2> QED
        BY <1>0, <2>1, <2>2 DEF IsNumbering
<1>4. ASSUME NEW p \in P, NEW q \in P
      PROVE  Below(writes, p, q) <=> IndexOf(P)[p] < IndexOf(P)[q]
    <2>1. /\ writes[p].location.address = PartAt(v, p[2])
          /\ writes[q].location.address = PartAt(v, q[2])
        <3>1. \A a : PaddedKey(a).address = a
            BY DEF PaddedKey, Key
        <3> QED
            BY <1>1, <1>4, <3>1
    <2>2. p[2] \in 0 .. (Parts(v) - 1) /\ q[2] \in 0 .. (Parts(v) - 1)
        BY <1>1, <1>4
    <2>3. p[2] < q[2] <=> \/ PartAt(v, p[2]) < PartAt(v, q[2])
                          \/ PartAt(v, p[2]) = PartAt(v, q[2]) /\ p[2] < q[2]
        BY <2>2, PartsAscend
    <2> QED
        BY <1>4, <2>1, <2>3 DEF Below, IndexOf
<1>5. \A q \in P : { p \in P : Below(writes, p, q) } = Lower(P, IndexOf(P), q)
    BY <1>4 DEF Lower
<1>6. ASSUME NEW k
      PROVE  AtRank(writes, v.name, k) = Ranked(P, k)
    BY <1>5 DEF AtRank, Ranked, P
<1> QED
    BY <1>3, <1>6 DEF P

\* The data of such an answer.
LEMMA DataOfPart ==
    ASSUME NEW v, NEW part, NEW writes, AnswersParts(writes, v, part), NEW p \in Answered(v, part)
    PROVE  writes[<<v.name, p>>].data = part[p]
<1>1. writes[<<v.name, p>>] = [location |-> PaddedKey(PartAt(v, p)), data |-> part[p]]
    BY DEF AnswersParts
<1> QED
    BY <1>1

\* The parts that were stored to, in the order of their indices, each once.
ArePieces(pieces, P, v, part) ==
    /\ pieces \in Seq(Seq(0 .. 255)) /\ Len(pieces) = Cardinality(P)
    /\ \A k \in 1 .. Cardinality(P) : \E q \in P :
          Ranked(P, k) = {q} /\ pieces[k] = part[q[2]] /\ q[2] \in Answered(v, part)
    /\ \A q \in P : \E k \in 1 .. Cardinality(P) : Ranked(P, k) = {q}

\* They are what is put together.
LEMMA PiecesAre ==
    ASSUME NEW v, IsSized(v), NEW image, NEW part, IsMadeOf(image, part, v),
           NEW writes, AnswersParts(writes, v, part)
    PROVE  ArePieces(Pieces(writes, v.name), PartsOf(writes, v.name), v, part)
<1> DEFINE P == PartsOf(writes, v.name)
<1> DEFINE f == IndexOf(P)
<1> DEFINE n == Cardinality(P)
<1> DEFINE pieces == Pieces(writes, v.name)
<1>1. IsNumbering(P, f, Parts(v)) /\ \A k : AtRank(writes, v.name, k) = Ranked(P, k)
    BY RanksOfParts
<1>2. \A q \in P : /\ q[2] \in Answered(v, part) /\ writes[q].data = part[q[2]]
    <2> SUFFICES ASSUME NEW q \in P
                 PROVE  q[2] \in Answered(v, part) /\ writes[q].data = part[q[2]]
        OBVIOUS
    <2>1. PICK p \in Answered(v, part) : q = <<v.name, p>>
        BY DEF AnswersParts
    <2>2. writes[<<v.name, p>>] = [location |-> PaddedKey(PartAt(v, p)), data |-> part[p]]
        BY DEF AnswersParts
    <2>3. q[2] = p
        BY <2>1
    <2> QED
        BY <2>1, <2>2, <2>3
<1>3. pieces = [k \in 1 .. n |-> writes[CHOOSE q \in AtRank(writes, v.name, k) : TRUE].data]
    BY DEF Pieces
<1> HIDE DEF P, f, pieces, n
<1>4. /\ n \in Nat
      /\ \A k \in 1 .. n : \E q \in P : Cardinality(Lower(P, f, q)) = k - 1
      /\ \A q \in P : Cardinality(Lower(P, f, q)) + 1 \in 1 .. n
      /\ \A p, q \in P : Cardinality(Lower(P, f, p)) = Cardinality(Lower(P, f, q)) => p = q
    BY <1>1, RanksAre DEF n
<1>5. ASSUME NEW k, NEW q \in P, Cardinality(Lower(P, f, q)) = k - 1
      PROVE  Ranked(P, k) = {q}
    BY <1>4, <1>5 DEF Ranked, f
<1>6. ASSUME NEW k \in 1 .. n
      PROVE  \E q \in P : /\ Ranked(P, k) = {q} /\ pieces[k] = part[q[2]]
                          /\ q[2] \in Answered(v, part)
    <2>1. PICK q \in P : Cardinality(Lower(P, f, q)) = k - 1
        BY <1>4, <1>6
    <2>2. Ranked(P, k) = {q}
        BY <1>5, <2>1
    <2>3. (CHOOSE x \in AtRank(writes, v.name, k) : TRUE) = q
        BY <1>1, <2>2
    <2>4. pieces[k] = writes[q].data
        BY <1>3, <1>6, <2>3
    <2> QED
        BY <1>2, <2>1, <2>2, <2>4
<1>7. ASSUME NEW q \in P
      PROVE  \E k \in 1 .. n : Ranked(P, k) = {q}
    <2> DEFINE k == Cardinality(Lower(P, f, q)) + 1
    <2>1. k \in 1 .. n
        BY <1>4, <1>7
    <2>2. Cardinality(Lower(P, f, q)) = k - 1
        <3>1. \A c : c + 1 \in 1 .. n /\ c \in Int => c = (c + 1) - 1
            OBVIOUS
        <3>2. Cardinality(Lower(P, f, q)) \in Int
            <4>1. IsFiniteSet(P) /\ Lower(P, f, q) \subseteq P
                BY <1>1, RanksAre DEF Lower
            <4> QED
                BY <4>1, FS_Subset, FS_CardinalityType
        <3> QED
            BY <2>1, <3>1, <3>2
    <2> HIDE DEF k
    <2> QED
        BY <1>5, <1>7, <2>1, <2>2
<1>8. pieces \in Seq(Seq(0 .. 255)) /\ Len(pieces) = n
    <2>1. ASSUME NEW k \in 1 .. n
          PROVE  pieces[k] \in Seq(0 .. 255)
        BY <1>6, <2>1 DEF IsMadeOf, Answered
    <2>2. pieces \in [1 .. n -> Seq(0 .. 255)]
        BY <1>3, <2>1
    <2> QED
        BY <1>4, <2>2, SeqDef, LenProperties
<1> QED
    BY <1>6, <1>7, <1>8 DEF P, n, pieces, ArePieces

\* Two entries that answer about the same stored parts put the same ones
\* together.
LEMMA SamePartsOf ==
    ASSUME NEW v, NEW w, w.type = v.type, w.name = v.name,
           NEW gr, NEW part, AnswersParts(gr, v, part),
           NEW uv, NEW parts, AnswersParts(uv, w, parts)
    PROVE  /\ Parts(w) = Parts(v)
           /\ (\A p \in 0 .. (Parts(v) - 1) : part[p] = << >> <=> parts[p] = << >>) =>
                 PartsOf(gr, v.name) = PartsOf(uv, v.name)
<1>1. Parts(w) = Parts(v)
    BY DEF Parts, IsArray, get_number_of_elements
<1>2. ASSUME \A p \in 0 .. (Parts(v) - 1) : part[p] = << >> <=> parts[p] = << >>
      PROVE  PartsOf(gr, v.name) = PartsOf(uv, v.name)
    <2>1. Answered(v, part) = Answered(w, parts)
        BY <1>1, <1>2 DEF Answered
    <2> QED
        BY <2>1 DEF AnswersParts
<1> QED
    BY <1>1, <1>2

\* If every part is left with the same bytes, the comparison finds no
\* difference, in whichever of its two forms.
LEMMA NoDifference ==
    ASSUME NEW v, IsSized(v), NEW w, IsSized(w), w.type = v.type, w.name = v.name,
           NEW image, NEW part, IsMadeOf(image, part, v), NEW gr, AnswersParts(gr, v, part),
           NEW other, NEW parts, IsMadeOf(other, parts, w), NEW uv, AnswersParts(uv, w, parts),
           \A p \in 0 .. (Parts(v) - 1) : part[p] = parts[p]
    PROVE  /\ PartsOf(gr, v.name) = PartsOf(uv, v.name)
           /\ \A q \in PartsOf(gr, v.name) : gr[q].data = uv[q].data
           /\ Pieces(gr, v.name) = Pieces(uv, v.name)
<1> DEFINE P == PartsOf(gr, v.name)
<1> DEFINE left == Pieces(gr, v.name)
<1> DEFINE right == Pieces(uv, v.name)
<1>1. PartsOf(uv, v.name) = P
    BY SamePartsOf
<1>2. ASSUME NEW q \in P
      PROVE  gr[q].data = uv[q].data
    <2>1. PICK p \in Answered(v, part) : q = <<v.name, p>>
        BY <1>2 DEF AnswersParts
    <2>2. p \in Answered(w, parts) /\ part[p] = parts[p]
        BY <2>1, SamePartsOf DEF Answered
    <2>3. gr[<<v.name, p>>].data = part[p]
        BY DataOfPart
    <2>4. uv[<<v.name, p>>].data = parts[p]
        BY <2>2, DataOfPart
    <2> QED
        BY <2>1, <2>2, <2>3, <2>4
<1>3. ArePieces(left, P, v, part)
    BY PiecesAre
<1>4. ArePieces(right, P, w, parts)
    <2>1. ArePieces(Pieces(uv, w.name), PartsOf(uv, w.name), w, parts)
        BY PiecesAre
    <2> QED
        BY <1>1, <2>1
<1> HIDE DEF left, right, P
<1>5. ASSUME NEW k \in 1 .. Cardinality(P)
      PROVE  left[k] = right[k]
    <2>1. PICK q \in P : Ranked(P, k) = {q} /\ left[k] = part[q[2]] /\ q[2] \in Answered(v, part)
        BY <1>3, <1>5 DEF ArePieces
    <2>2. PICK r \in P : Ranked(P, k) = {r} /\ right[k] = parts[r[2]] /\ r[2] \in Answered(w, parts)
        BY <1>4, <1>5 DEF ArePieces
    <2>3. q = r
        BY <2>1, <2>2
    <2> QED
        BY <2>1, <2>2, <2>3 DEF Answered
<1>6. left = right
    BY <1>3, <1>4, <1>5, SeqEqual DEF ArePieces
<1> QED
    BY <1>1, <1>2, <1>6 DEF left, right, P

\* Where the comparison finds no difference, a variable that one entry answers
\* about is answered about by the other, and if the same of its parts were
\* stored to, they are left with the same bytes.
LEMMA NoneFound ==
    ASSUME NEW v, IsSized(v), NEW w, IsSized(w), w.type = v.type, w.name = v.name,
           NEW image, NEW part, IsMadeOf(image, part, v), NEW gr, AnswersParts(gr, v, part),
           NEW other, NEW parts, IsMadeOf(other, parts, w), NEW uv, AnswersParts(uv, w, parts),
           ~ GlobalsRaise(gr, uv), ~ GlobalsDiffer(gr, uv),
           NEW h \in 0 .. (Parts(v) - 1), part[h] # << >>
    PROVE  /\ \E p \in 0 .. (Parts(v) - 1) : parts[p] # << >>
           /\ (\A p \in 0 .. (Parts(v) - 1) : part[p] = << >> <=> parts[p] = << >>) =>
                 \A p \in 0 .. (Parts(v) - 1) : part[p] = parts[p]
<1> DEFINE P == PartsOf(gr, v.name)
<1> DEFINE Q == PartsOf(uv, v.name)
<1>1. Parts(w) = Parts(v)
    BY SamePartsOf
<1>2. P = { <<v.name, p>> : p \in Answered(v, part) } /\ Q = { <<v.name, p>> : p \in Answered(w, parts) }
    BY DEF AnswersParts
<1>3. <<v.name, h>> \in P /\ <<v.name, h>> \in DOMAIN gr
    <2>1. <<v.name, h>> \in P
        BY <1>2 DEF Answered
    <2> QED
        BY <2>1 DEF PartsOf
<1>4. ASSUME NEW q \in Q
      PROVE  \E p \in 0 .. (Parts(v) - 1) : parts[p] # << >>
    BY <1>1, <1>2, <1>4 DEF Answered
<1>5. CASE Cardinality(DOMAIN gr) = Cardinality(DOMAIN uv)
    <2>1. DOMAIN gr = DOMAIN uv /\ \A p \in DOMAIN gr : gr[p].data = uv[p].data
        BY <1>5 DEF GlobalsRaise, GlobalsDiffer
    <2>2. P = Q
        BY <2>1 DEF PartsOf
    <2>3. ASSUME \A p \in 0 .. (Parts(v) - 1) : part[p] = << >> <=> parts[p] = << >>,
                 NEW p \in 0 .. (Parts(v) - 1)
          PROVE  part[p] = parts[p]
        <3>1. CASE part[p] = << >>
            BY <2>3, <3>1
        <3>2. CASE part[p] # << >>
            <4>1. p \in Answered(v, part) /\ p \in Answered(w, parts)
                BY <1>1, <2>3, <3>2 DEF Answered
            <4>2. gr[<<v.name, p>>].data = part[p]
                BY <4>1, DataOfPart
            <4>3. uv[<<v.name, p>>].data = parts[p]
                BY <4>1, DataOfPart
            <4>4. <<v.name, p>> \in DOMAIN gr
                BY <1>2, <4>1 DEF PartsOf
            <4> QED
                BY <2>1, <4>2, <4>3, <4>4
        <3> QED
            BY <3>1, <3>2
    <2> QED
        BY <1>3, <1>4, <2>2, <2>3
<1>6. CASE Cardinality(DOMAIN gr) # Cardinality(DOMAIN uv)
    <2> DEFINE left == Pieces(gr, v.name)
    <2> DEFINE right == Pieces(uv, v.name)
    <2>1. /\ v.name \in { p[1] : p \in DOMAIN uv }
          /\ FlattenSeq(left) = FlattenSeq(right)
        <3>1. v.name \in { p[1] : p \in DOMAIN gr }
            <4>1. <<v.name, h>>[1] = v.name
                OBVIOUS
            <4> QED
                BY <1>3, <4>1
        <3>2. v.name \in DOMAIN normalize_variable_data(gr)
            BY <3>1 DEF normalize_variable_data
        <3>3. /\ v.name \in DOMAIN normalize_variable_data(uv)
              /\ normalize_variable_data(gr)[v.name] = normalize_variable_data(uv)[v.name]
            BY <1>6, <3>2 DEF GlobalsDiffer
        <3> QED
            BY <3>1, <3>3 DEF normalize_variable_data
    <2>2. \E q \in Q : TRUE
        BY <2>1 DEF PartsOf
    <2>3. ASSUME \A p \in 0 .. (Parts(v) - 1) : part[p] = << >> <=> parts[p] = << >>
          PROVE  \A p \in 0 .. (Parts(v) - 1) : part[p] = parts[p]
        <3>1. Q = P
            BY <2>3, SamePartsOf
        <3>2. ArePieces(left, P, v, part)
            BY PiecesAre
        <3>3. ArePieces(right, P, w, parts)
            <4>1. ArePieces(Pieces(uv, w.name), PartsOf(uv, w.name), w, parts)
                BY PiecesAre
            <4> QED
                BY <3>1, <4>1
        <3> HIDE DEF left, right
        <3>4. ASSUME NEW k \in 1 .. Cardinality(P)
              PROVE  Len(left[k]) = Len(right[k])
            <4>1. PICK q \in P :
                      Ranked(P, k) = {q} /\ left[k] = part[q[2]] /\ q[2] \in Answered(v, part)
                BY <3>2, <3>4 DEF ArePieces
            <4>2. right[k] = parts[q[2]] /\ q[2] \in Answered(w, parts)
                <5>1. PICK r \in P :
                          Ranked(P, k) = {r} /\ right[k] = parts[r[2]] /\ r[2] \in Answered(w, parts)
                    BY <3>3, <3>4 DEF ArePieces
                <5>2. q = r
                    BY <4>1, <5>1
                <5> QED
                    BY <5>1, <5>2
            <4>3. Len(part[q[2]]) = PartLen(v, q[2]) /\ Len(parts[q[2]]) = PartLen(w, q[2])
                BY <4>1, <4>2 DEF IsMadeOf, Answered
            <4>4. PartLen(w, q[2]) = PartLen(v, q[2])
                BY DEF PartLen, Step, IsArray
            <4> QED
                BY <4>1, <4>2, <4>3, <4>4
        <3>5. \A k \in 1 .. Cardinality(P) : left[k] = right[k]
            <4> HIDE DEF P
            <4> DEFINE Byte == 0 .. 255
            <4>1. /\ left \in Seq(Seq(Byte)) /\ Len(left) = Cardinality(P)
                  /\ right \in Seq(Seq(Byte)) /\ Len(right) = Cardinality(P)
                BY <3>2, <3>3 DEF ArePieces
            <4>2. FlattenSeq(left) = FlattenSeq(right)
                BY <2>1 DEF left, right
            <4>3. \A k \in 1 .. Len(left) : Len(left[k]) = Len(right[k])
                BY <3>4, <4>1
            <4> HIDE DEF Byte
            <4>4. Len(left) = Len(right)
                BY <4>1
            <4>5. \A k \in 1 .. Len(left) : left[k] = right[k]
                BY <4>1, <4>2, <4>3, <4>4, FlattenInjective, Zenon
            <4> QED
                BY <4>1, <4>5
        <3>6. ASSUME NEW p \in 0 .. (Parts(v) - 1), part[p] # << >>
              PROVE  part[p] = parts[p]
            <4> DEFINE q == <<v.name, p>>
            <4>1. q \in P /\ q[2] = p
                BY <1>2, <3>6 DEF Answered
            <4> HIDE DEF q, P
            <4>2. PICK k \in 1 .. Cardinality(P) : Ranked(P, k) = {q}
                BY <3>2, <4>1 DEF ArePieces
            <4>3. left[k] = part[p]
                <5>1. PICK r \in P : Ranked(P, k) = {r} /\ left[k] = part[r[2]]
                    BY <3>2, <4>2 DEF ArePieces
                <5> QED
                    BY <4>1, <4>2, <5>1
            <4>4. right[k] = parts[p]
                <5>1. PICK r \in P : Ranked(P, k) = {r} /\ right[k] = parts[r[2]]
                    BY <3>3, <4>2 DEF ArePieces
                <5> QED
                    BY <4>1, <4>2, <5>1
            <4> QED
                BY <3>5, <4>3, <4>4
        <3> QED
            BY <2>3, <3>6
    <2> QED
        BY <1>4, <2>2, <2>3
<1> QED
    BY <1>5, <1>6

-----------------------------------------------------------------------------
(***************************************************************************)
(* The answers of an entry and the image its call left.                    *)
(***************************************************************************)

\* The writes of an entry are those of its call.
LEMMA WritesOfEntry ==
    ASSUME EntriesInv, stage # "aborted", NEW c \in DOMAIN built, NEW k \in DOMAIN Entries(c)
    PROVE  /\ IsSeq(infos[c].globals) /\ GoodStores(Call(c, k).stores)
           /\ Written(Entries(c)[k].dwrites, Call(c, k).stores, Len(Call(c, k).stores))
           /\ LastWrites(Entries(c)[k])
                 = get_last_writes_to_global_var_locations(infos[c].globals, Entries(c)[k].dwrites)
<1> DEFINE e == Entries(c)[k]
<1> DEFINE call == executed[c][k]
<1>1. GoodStores(call.stores) /\ Describes(e, infos[c], call) /\ c \in 1 .. Len(infos)
    BY EntryOfCall
<1>2. IsSeq(infos[c].globals)
    BY <1>1 DEF EntriesInv, InfoInv, IsDescribed, IsInfo
<1>3. e.global_variables = infos[c].globals /\ Written(e.dwrites, call.stores, Len(call.stores))
    <2>1. e = Entry(infos[c], e.dwrites, ReturnRecord(call.function, call.state))
        BY <1>1 DEF Describes
    <2>2. Entry(infos[c], e.dwrites, ReturnRecord(call.function, call.state)).global_variables
             = infos[c].globals
        BY DEF Entry
    <2> QED
        BY <1>1, <2>1, <2>2 DEF Describes
<1> QED
    BY <1>1, <1>2, <1>3 DEF LastWrites, Call

\* About a variable that is alone with its name and not at a low address an
\* entry answers with what its call stored to the parts.
LEMMA AnswersOfEntry ==
    ASSUME EntriesInv, stage # "aborted", NEW c \in DOMAIN built, NEW k \in DOMAIN Entries(c),
           NEW i \in Located(infos[c].globals), Alone(c, Global(c, i)),
           IsSized(Global(c, i)), Global(c, i).location >= LowestFound
    PROVE  AnswersParts(LastWrites(Entries(c)[k]), Global(c, i), PartData(Call(c, k), Global(c, i)))
<1> DEFINE vars == infos[c].globals
<1> DEFINE v == vars[i]
<1> DEFINE d == Entries(c)[k].dwrites
<1> DEFINE call == Call(c, k)
<1> DEFINE answers == LastWrites(Entries(c)[k])
<1> DEFINE part == PartData(call, v)
<1>1. /\ IsSeq(vars) /\ GoodStores(call.stores) /\ Written(d, call.stores, Len(call.stores))
      /\ answers = get_last_writes_to_global_var_locations(vars, d)
    BY WritesOfEntry
<1>2. \A j \in Located(vars) : vars[j].name = v.name => vars[j] = v
    BY DEF Alone, Variables, Global
<1>3. IsSized(v) /\ v.location >= LowestFound
    BY DEF Global
<1> HIDE DEF d, call, answers
<1>4. /\ \A p \in DOMAIN answers : \E j \in Located(vars) :
            \E idx \in 0 .. (Parts(vars[j]) - 1) : p = <<vars[j].name, idx>>
      /\ \A idx \in 0 .. (Parts(v) - 1) :
            /\ <<v.name, idx>> \in DOMAIN answers <=> PartKey(v, idx) \in DOMAIN d
            /\ <<v.name, idx>> \in DOMAIN answers => answers[<<v.name, idx>>] = Last(d[PartKey(v, idx)])
    <2>1. i \in Located(vars)
        OBVIOUS
    <2> HIDE DEF vars
    <2> QED
        BY <1>1, <1>2, <2>1, AnswersAre
<1>5. ASSUME NEW idx \in 0 .. (Parts(v) - 1)
      PROVE  /\ part[idx] = LastStoreAt(call, PartAt(v, idx))
             /\ <<v.name, idx>> \in DOMAIN answers <=> part[idx] # << >>
             /\ <<v.name, idx>> \in DOMAIN answers =>
                   answers[<<v.name, idx>>] = [location |-> PaddedKey(PartAt(v, idx)), data |-> part[idx]]
    <2> DEFINE a == PartAt(v, idx)
    <2>1. part[idx] = LastStoreAt(call, a)
        BY DEF PartData
    <2>2. PartKey(v, idx) = BareKey(a)
        BY DEF PartKey, PartAt
    <2>3. a >= LowestFound
        <3>1. a \in Nat /\ a >= v.location /\ v.location \in Nat
            BY <1>3, PartsFit DEF IsSized
        <3> HIDE DEF a, v
        <3> QED
            BY <1>3, <3>1 DEF LowestFound
    <2> HIDE DEF a, part
    <2>4. /\ BareKey(a) \in DOMAIN d <=> LastStoreAt(call, a) # << >> /\ a >= LowestFound
          /\ BareKey(a) \in DOMAIN d =>
                Last(d[BareKey(a)]) = [location |-> PaddedKey(a), data |-> LastStoreAt(call, a)]
        BY <1>1, FoundIsLast
    <2>5. /\ <<v.name, idx>> \in DOMAIN answers <=> BareKey(a) \in DOMAIN d
          /\ <<v.name, idx>> \in DOMAIN answers => answers[<<v.name, idx>>] = Last(d[BareKey(a)])
        BY <1>4, <1>5, <2>2
    <2>6. /\ part[idx] = LastStoreAt(call, a)
          /\ <<v.name, idx>> \in DOMAIN answers <=> part[idx] # << >>
          /\ <<v.name, idx>> \in DOMAIN answers =>
                answers[<<v.name, idx>>] = [location |-> PaddedKey(a), data |-> part[idx]]
        BY <2>1, <2>3, <2>4, <2>5
    <2> QED
        BY <2>6 DEF a
<1> HIDE DEF part
<1>6. PartsOf(answers, v.name) = { <<v.name, p>> : p \in Answered(v, part) }
    <2>1. ASSUME NEW q \in PartsOf(answers, v.name)
          PROVE  \E p \in Answered(v, part) : q = <<v.name, p>>
        <3>1. q \in DOMAIN answers /\ q[1] = v.name
            BY <2>1 DEF PartsOf
        <3>2. PICK j \in Located(vars) : \E idx \in 0 .. (Parts(vars[j]) - 1) : q = <<vars[j].name, idx>>
            BY <1>4, <3>1
        <3>3. vars[j] = v
            BY <1>2, <3>1, <3>2
        <3> QED
            BY <1>5, <3>1, <3>2, <3>3 DEF Answered
    <2>2. ASSUME NEW p \in Answered(v, part)
          PROVE  <<v.name, p>> \in PartsOf(answers, v.name)
        <3>1. <<v.name, p>> \in DOMAIN answers
            BY <1>5, <2>2 DEF Answered
        <3>2. <<v.name, p>>[1] = v.name
            OBVIOUS
        <3> QED
            BY <3>1, <3>2 DEF PartsOf
    <2> QED
        BY <2>1, <2>2
<1>7. \A p \in Answered(v, part) :
          answers[<<v.name, p>>] = [location |-> PaddedKey(PartAt(v, p)), data |-> part[p]]
    BY <1>5 DEF Answered
<1> HIDE DEF v
<1>8. AnswersParts(answers, v, part)
    BY <1>6, <1>7 DEF AnswersParts
<1> QED
    BY <1>8 DEF answers, v, part, call, Global

-----------------------------------------------------------------------------
(***************************************************************************)
(* Which entries have been compared.                                       *)
(***************************************************************************)

\* The comparison of two entries.
IsVerdict(r, a, b) ==
    /\ r.global_vars = compare_global_variable_values(LastWrites(a), LastWrites(b))
    /\ r.return_value = compare_return_values(a, b)
    /\ ~ CompareRaises(a, b)

\* The loop is at the j-th entry of the i-th group of both collections, which
\* are as far from their beginnings as the number of comparisons says.
IsPosition(c, count, i, j, og, ou) ==
    /\ og \in [1 .. Len(c[Gr]) + 1 -> Nat] /\ IsPlaces(c[Gr], FlattenSeq(c[Gr]), og)
    /\ ou \in [1 .. Len(c[Uv]) + 1 -> Nat] /\ IsPlaces(c[Uv], FlattenSeq(c[Uv]), ou)
    /\ i \in 1 .. Len(c[Gr]) + 1 /\ i \in 1 .. Len(c[Uv]) + 1
    /\ og[i] = ou[i]
    /\ j \in Nat \ {0} /\ count = og[i] + j - 1
    /\ i <= Len(c[Gr]) => j <= Len(c[Gr][i]) + 1
HasPosition(c, count, i, j) == \E og, ou : IsPosition(c, count, i, j, og, ou)

\* The n-th comparison was that of the n-th entries.
VerdictsOf(results, c) ==
    \A n \in 1 .. Len(results) :
        /\ n \in 1 .. Len(FlattenSeq(c[Gr])) /\ n \in 1 .. Len(FlattenSeq(c[Uv]))
        /\ IsVerdict(results[n], FlattenSeq(c[Gr])[n], FlattenSeq(c[Uv])[n])

\* What has been compared of what was built.
ComparedInv ==
    /\ stage \notin {"verify", "done", "aborted"} => verifying = "idle"
    /\ stage = "verify" =>
          /\ collections = built /\ ~ EntriesRaise
          /\ HasPosition(built, Len(verification_entries), idx_0, idx_1)
          /\ VerdictsOf(verification_entries, built)

\* Two collections are compared from the beginning.
LEMMA PositionStarts ==
    ASSUME NEW c, IsCollection(c[Gr]), IsCollection(c[Uv])
    PROVE  HasPosition(c, 0, 1, 1)
<1>1. PICK S : c[Gr] \in Seq(Seq(S))
    BY CollectionType, EmptyIsSeq
<1>2. PICK T : c[Uv] \in Seq(Seq(T))
    BY CollectionType, EmptyIsSeq
<1>3. PICK og \in [1 .. Len(c[Gr]) + 1 -> Nat] : IsPlaces(c[Gr], FlattenSeq(c[Gr]), og)
    BY <1>1, FlattenPlaces
<1>4. PICK ou \in [1 .. Len(c[Uv]) + 1 -> Nat] : IsPlaces(c[Uv], FlattenSeq(c[Uv]), ou)
    BY <1>2, FlattenPlaces
<1>5. Len(c[Gr]) \in Nat /\ Len(c[Uv]) \in Nat
    BY <1>1, <1>2
<1>6. og[1] = 0 /\ ou[1] = 0
    BY <1>3, <1>4 DEF IsPlaces
<1>7. 1 <= Len(c[Gr]) => 1 <= Len(c[Gr][1]) + 1
    BY <1>1
<1>8. 1 \in 1 .. Len(c[Gr]) + 1 /\ 1 \in 1 .. Len(c[Uv]) + 1
    BY <1>5
<1>9. IsPosition(c, 0, 1, 1, og, ou)
    BY <1>3, <1>4, <1>6, <1>7, <1>8 DEF IsPosition
<1> QED
    BY <1>9 DEF HasPosition

\* A place is a natural number.
LEMMA PlaceIsNat ==
    ASSUME NEW n \in Nat, NEW off \in [1 .. n + 1 -> Nat], NEW i \in 1 .. n + 1
    PROVE  off[i] \in Nat
OBVIOUS

\* The entries at the loop's position are those at the same place of both
\* sequences, and the loop goes on behind them.
PairIsNext(c, count, i, j) ==
    /\ HasPosition(c, count + 1, i, j + 1)
    /\ count \in Nat
    /\ count + 1 \in 1 .. Len(FlattenSeq(c[Gr])) /\ count + 1 \in 1 .. Len(FlattenSeq(c[Uv]))
    /\ FlattenSeq(c[Gr])[count + 1] = c[Gr][i][j]
    /\ FlattenSeq(c[Uv])[count + 1] = c[Uv][i][j]

\* So it is wherever the loop compares.
LEMMA PairAtPosition ==
    ASSUME NEW c, IsCollection(c[Gr]), IsCollection(c[Uv]), NEW count, NEW i, NEW j,
           HasPosition(c, count, i, j), i \in 1 .. Len(c[Gr]), Len(c[Gr]) = Len(c[Uv]),
           Len(c[Gr][i]) = Len(c[Uv][i]), j \in 1 .. Len(c[Gr][i])
    PROVE  PairIsNext(c, count, i, j)
<1>1. PICK og, ou : IsPosition(c, count, i, j, og, ou)
    BY DEF HasPosition
<1>2. PICK S : c[Gr] \in Seq(Seq(S))
    BY CollectionType, EmptyIsSeq
<1>3. PICK T : c[Uv] \in Seq(Seq(T))
    BY CollectionType, EmptyIsSeq
<1>4. /\ og \in [1 .. Len(c[Gr]) + 1 -> Nat] /\ IsPlaces(c[Gr], FlattenSeq(c[Gr]), og)
      /\ ou \in [1 .. Len(c[Uv]) + 1 -> Nat] /\ IsPlaces(c[Uv], FlattenSeq(c[Uv]), ou)
      /\ og[i] = ou[i] /\ count = og[i] + j - 1
    BY <1>1 DEF IsPosition
<1>5. Len(c[Gr]) \in Nat /\ i \in Nat /\ j \in Nat /\ Len(c[Gr][i]) \in Nat
    BY <1>2
<1>6. /\ i \in 1 .. Len(c[Gr]) + 1 /\ i + 1 \in 1 .. Len(c[Gr]) + 1
       /\ Len(c[Gr]) + 1 \in 1 .. Len(c[Gr]) + 1
    BY <1>5
<1>7. og[i] \in Nat /\ og[i + 1] \in Nat /\ og[Len(c[Gr]) + 1] \in Nat
    BY <1>4, <1>5, <1>6, PlaceIsNat
<1>8. ou[i] \in Nat /\ ou[i + 1] \in Nat /\ ou[Len(c[Uv]) + 1] \in Nat
    BY <1>4, <1>5, <1>6, PlaceIsNat
<1>9. /\ og[i + 1] = og[i] + Len(c[Gr][i]) /\ FlattenSeq(c[Gr])[og[i] + j] = c[Gr][i][j]
      /\ Len(FlattenSeq(c[Gr])) = og[Len(c[Gr]) + 1]
    BY <1>4 DEF IsPlaces
<1>10. /\ ou[i + 1] = ou[i] + Len(c[Uv][i]) /\ FlattenSeq(c[Uv])[ou[i] + j] = c[Uv][i][j]
      /\ Len(FlattenSeq(c[Uv])) = ou[Len(c[Uv]) + 1]
    BY <1>4 DEF IsPlaces
<1>11. Len(c[Gr]) + 1 \in i + 1 .. Len(c[Gr]) + 1
    BY <1>5
<1>12. og[i + 1] <= og[Len(c[Gr]) + 1]
    BY <1>2, <1>4, <1>11, PlacesGrow
<1>13. ou[i + 1] <= ou[Len(c[Uv]) + 1]
    <2>1. i \in 1 .. Len(c[Uv]) /\ Len(c[Uv]) + 1 \in i + 1 .. Len(c[Uv]) + 1
        BY <1>11
    <2> QED
        BY <1>3, <1>4, <2>1, PlacesGrow
<1>14. count \in Nat /\ count + 1 = og[i] + j /\ count + 1 = ou[i] + j /\ count + 1 = og[i] + (j + 1) - 1
    BY <1>4, <1>5, <1>7
<1>15. count + 1 \in 1 .. Len(FlattenSeq(c[Gr]))
    <2>1. og[i] + j \in 1 .. og[Len(c[Gr]) + 1]
        BY <1>5, <1>7, <1>9, <1>12, WithinSum
    <2> QED
        BY <1>9, <1>14, <2>1
<1>16. count + 1 \in 1 .. Len(FlattenSeq(c[Uv]))
    <2>1. ou[i] + j \in 1 .. ou[Len(c[Uv]) + 1]
        BY <1>5, <1>8, <1>10, <1>13, WithinSum
    <2> QED
        BY <1>10, <1>14, <2>1
<1>17. j + 1 \in Nat \ {0} /\ j + 1 <= Len(c[Gr][i]) + 1
    BY <1>5
<1>18. IsPosition(c, count + 1, i, j + 1, og, ou)
    BY <1>1, <1>14, <1>17 DEF IsPosition
<1> QED
    BY <1>9, <1>10, <1>14, <1>15, <1>16, <1>18 DEF HasPosition, PairIsNext

\* Behind the last entry of a group is the first one of the next.
LEMMA NextPosition ==
    ASSUME NEW c, IsCollection(c[Gr]), NEW count, NEW i, NEW j,
           HasPosition(c, count, i, j), i \in 1 .. Len(c[Gr]), Len(c[Gr]) = Len(c[Uv]),
           Len(c[Gr][i]) = Len(c[Uv][i]), j \notin 1 .. Len(c[Gr][i])
    PROVE  HasPosition(c, count, i + 1, 1)
<1>1. PICK og, ou : IsPosition(c, count, i, j, og, ou)
    BY DEF HasPosition
<1>2. PICK S : c[Gr] \in Seq(Seq(S))
    BY CollectionType, EmptyIsSeq
<1>3. Len(c[Gr]) \in Nat /\ i \in Nat /\ Len(c[Gr][i]) \in Nat
    BY <1>2
<1>4. /\ og \in [1 .. Len(c[Gr]) + 1 -> Nat] /\ IsPlaces(c[Gr], FlattenSeq(c[Gr]), og)
      /\ ou \in [1 .. Len(c[Uv]) + 1 -> Nat] /\ IsPlaces(c[Uv], FlattenSeq(c[Uv]), ou)
      /\ og[i] = ou[i] /\ count = og[i] + j - 1 /\ j \in Nat \ {0}
      /\ j <= Len(c[Gr][i]) + 1
    BY <1>1 DEF IsPosition
<1>5. j = Len(c[Gr][i]) + 1
    BY <1>3, <1>4
<1>6. /\ og[i + 1] = og[i] + Len(c[Gr][i]) /\ ou[i + 1] = ou[i] + Len(c[Uv][i])
    BY <1>4 DEF IsPlaces
<1>7. og[i] \in Nat
    BY <1>3, <1>4
<1>8. og[i + 1] = ou[i + 1] /\ count = og[i + 1] + 1 - 1
    BY <1>3, <1>4, <1>5, <1>6, <1>7
<1>9. /\ i + 1 \in 1 .. Len(c[Gr]) + 1 /\ i + 1 \in 1 .. Len(c[Uv]) + 1 /\ 1 \in Nat \ {0}
      /\ i + 1 <= Len(c[Gr]) => 1 <= Len(c[Gr][i + 1]) + 1
    BY <1>2, <1>3
<1>10. IsPosition(c, count, i + 1, 1, og, ou)
    BY <1>4, <1>8, <1>9 DEF IsPosition
<1> QED
    BY <1>10 DEF HasPosition

\* The comparison starts at the first entries of what was built.
LEMMA ComparisonStarts ==
    ASSUME CaseInv, ComparedInv, StartVerification
    PROVE  ComparedInv'
<1>1. /\ stage = "log" /\ stage' = "verify" /\ ~ EntriesRaise /\ StartVerifying(built)
      /\ UNCHANGED <<infos, built>>
    BY DEF StartVerification
<1>2. /\ verifying = "idle" /\ collections' = built
      /\ UNCHANGED <<idx_0, idx_1, verification_entries>>
    BY <1>1 DEF StartVerifying
<1>3. idx_0 = 1 /\ idx_1 = 1 /\ verification_entries = << >>
    BY <1>2 DEF CaseInv, VerifyInv, Behind
<1>4. IsCollection(built[Gr]) /\ IsCollection(built[Uv])
    BY <1>1 DEF CaseInv, StageTypes, BuildTypes, Gr, Uv
<1>5. HasPosition(built, 0, 1, 1)
    BY <1>4, PositionStarts
<1>6. Len(verification_entries) = 0 /\ VerdictsOf(verification_entries, built)
    BY <1>3 DEF VerdictsOf
<1>7. ~ EntriesRaise'
    BY <1>1 DEF EntriesRaise
<1>8. HasPosition(built', Len(verification_entries'), idx_0', idx_1')
    BY <1>1, <1>2, <1>3, <1>5, <1>6
<1>9. VerdictsOf(verification_entries', built')
    BY <1>1, <1>2, <1>6
<1> QED
    BY <1>1, <1>2, <1>7, <1>8, <1>9 DEF ComparedInv

\* A comparison is that of the entries at the loop's position.
LEMMA ComparisonGoesOn ==
    ASSUME CaseInv, ComparedInv, Verifying
    PROVE  ComparedInv'
<1>1. VerifyNext /\ UNCHANGED <<stage, built, infos>>
    BY DEF Verifying, caseVars
<1>2. verifying = "verifying"
    BY <1>1 DEF VerifyNext, compare_entries, NextGroup, VerifyRaises, Summarise, Comparing
<1>3. stage \in {"verify", "done", "aborted"}
    BY <1>2 DEF ComparedInv
<1>4. CASE stage # "verify"
    BY <1>1, <1>3, <1>4 DEF ComparedInv
<1>5. CASE stage = "verify"
    <2>1. /\ collections = built /\ ~ EntriesRaise
          /\ HasPosition(built, Len(verification_entries), idx_0, idx_1)
          /\ VerdictsOf(verification_entries, built)
        BY <1>5 DEF ComparedInv
    <2>2. IsCollection(built[Gr]) /\ IsCollection(built[Uv])
        BY <1>5 DEF CaseInv, StageTypes, BuildTypes, Gr, Uv
    <2>3. ~ EntriesRaise' /\ stage' = "verify" /\ built' = built
        BY <1>1, <1>5, <2>1 DEF EntriesRaise
    <2>4. collections' = collections
        BY <1>1 DEF VerifyNext, compare_entries, NextGroup, VerifyRaises, Summarise
    <2>5. CASE VerifyRaises \/ Summarise
        BY <2>1, <2>3, <2>5 DEF VerifyRaises, Summarise, ComparedInv
    <2>6. ASSUME Comparing
          PROVE  /\ idx_0 \in 1 .. Len(built[Gr]) /\ Len(built[Gr]) = Len(built[Uv])
                 /\ Len(built[Gr][idx_0]) = Len(built[Uv][idx_0])
                 /\ InGroup <=> idx_1 \in 1 .. Len(built[Gr][idx_0])
        <3>1. /\ idx_0 \in DOMAIN built[Gr] /\ Len(built[Gr]) = Len(built[Uv])
              /\ Len(built[Gr][idx_0]) = Len(built[Uv][idx_0])
              /\ InGroup <=> idx_1 \in DOMAIN built[Gr][idx_0]
            BY <2>1, <2>6 DEF Comparing, SameNumberOfGroups, InGroups, SameSizeOfGroup, InGroup
        <3>2. DOMAIN built[Gr] = 1 .. Len(built[Gr]) /\ IsSeq(built[Gr][idx_0])
            BY <2>2, <3>1, CollectionDomain DEF IsCollection
        <3>3. DOMAIN built[Gr][idx_0] = 1 .. Len(built[Gr][idx_0])
            BY <3>2, SeqDomain
        <3> QED
            BY <3>1, <3>2, <3>3
    <2>7. CASE NextGroup
        <3>1. /\ Comparing /\ ~ InGroup /\ idx_0' = idx_0 + 1 /\ idx_1' = 1
              /\ verification_entries' = verification_entries
            BY <2>7 DEF NextGroup
        <3>2. HasPosition(built, Len(verification_entries), idx_0 + 1, 1)
            BY <2>1, <2>2, <2>6, <3>1, NextPosition
        <3>3. HasPosition(built', Len(verification_entries'), idx_0', idx_1')
            BY <2>3, <3>1, <3>2
        <3>4. VerdictsOf(verification_entries', built')
            BY <2>1, <2>3, <3>1
        <3> QED
            BY <2>1, <2>3, <2>4, <3>3, <3>4 DEF ComparedInv
    <2>8. CASE compare_entries
        <3> DEFINE e == VerificationEntry(Pair[1], Pair[2])
        <3> DEFINE n == Len(verification_entries)
        <3>1. /\ Comparing /\ InGroup /\ ~ CompareRaises(Pair[1], Pair[2])
              /\ verification_entries' = Append(verification_entries, e)
              /\ idx_1' = idx_1 + 1 /\ idx_0' = idx_0
            BY <2>8 DEF compare_entries
        <3>2. Pair = <<built[Gr][idx_0][idx_1], built[Uv][idx_0][idx_1]>>
            BY <2>1 DEF Pair
        <3>3. /\ HasPosition(built, n + 1, idx_0, idx_1 + 1) /\ n \in Nat
              /\ n + 1 \in 1 .. Len(FlattenSeq(built[Gr])) /\ n + 1 \in 1 .. Len(FlattenSeq(built[Uv]))
              /\ FlattenSeq(built[Gr])[n + 1] = Pair[1] /\ FlattenSeq(built[Uv])[n + 1] = Pair[2]
            <4>1. idx_1 \in 1 .. Len(built[Gr][idx_0])
                BY <2>6, <3>1
            <4>2. HasPosition(built, n, idx_0, idx_1)
                BY <2>1
            <4>3. /\ idx_0 \in 1 .. Len(built[Gr]) /\ Len(built[Gr]) = Len(built[Uv])
                  /\ Len(built[Gr][idx_0]) = Len(built[Uv][idx_0])
                BY <2>6, <3>1
            <4> HIDE DEF n
            <4>4. PairIsNext(built, n, idx_0, idx_1)
                BY <2>2, <4>1, <4>2, <4>3, PairAtPosition
            <4> QED
                BY <3>2, <4>4 DEF PairIsNext
        <3>4. IsSeq(verification_entries)
            BY DEF CaseInv, VerifyInv, VerifyTypes
        <3>5. IsVerdict(e, Pair[1], Pair[2])
            BY <3>1 DEF IsVerdict, VerificationEntry
        <3> HIDE DEF e
        <3>6. /\ Len(verification_entries') = n + 1 /\ verification_entries'[n + 1] = e
              /\ \A i \in 1 .. n : verification_entries'[i] = verification_entries[i]
            BY <3>1, <3>4, AppendIsSeq
        <3>7. VerdictsOf(verification_entries', built')
            <4> SUFFICES ASSUME NEW i \in 1 .. Len(verification_entries')
                         PROVE  /\ i \in 1 .. Len(FlattenSeq(built[Gr]))
                                /\ i \in 1 .. Len(FlattenSeq(built[Uv]))
                                /\ IsVerdict(verification_entries'[i], FlattenSeq(built[Gr])[i],
                                             FlattenSeq(built[Uv])[i])
                BY <2>3 DEF VerdictsOf
            <4>1. i \in 1 .. n \/ i = n + 1
                BY <3>3, <3>6
            <4>2. CASE i = n + 1
                BY <3>3, <3>5, <3>6, <4>2
            <4>3. CASE i \in 1 .. n
                BY <2>1, <3>6, <4>3 DEF VerdictsOf
            <4> QED
                BY <4>1, <4>2, <4>3
        <3>8. HasPosition(built', Len(verification_entries'), idx_0', idx_1')
            BY <2>3, <3>1, <3>3, <3>6
        <3> QED
            BY <2>1, <2>3, <2>4, <3>7, <3>8 DEF ComparedInv
    <2> QED
        BY <1>1, <2>5, <2>7, <2>8 DEF VerifyNext
<1> QED
    BY <1>4, <1>5

\* Every step of the pipeline keeps the invariant.
LEMMA ComparedKeeps ==
    ASSUME CaseInv, ComparedInv, [CaseNext]_allVars
    PROVE  ComparedInv'
<1>1. ASSUME UNCHANGED verifyVars, stage' # "verify",
             stage \in {"verify", "done", "aborted"} => stage' \in {"verify", "done", "aborted"}
      PROVE  ComparedInv'
    BY <1>1 DEF ComparedInv, verifyVars
<1>2. ASSUME UNCHANGED <<verifyVars, stage, built, infos>>
      PROVE  ComparedInv'
    <2>1. EntriesRaise' <=> EntriesRaise
        BY <1>2 DEF EntriesRaise
    <2> QED
        BY <1>2, <2>1 DEF ComparedInv, verifyVars
<1>3. ASSUME NEW b, StoreAsIn(b)
      PROVE  ComparedInv'
    BY <1>2, <1>3 DEF StoreAsIn
<1>4. ASSUME NEW f, NEW r, ReturnFrom(f, r)
      PROVE  ComparedInv'
    BY <1>2, <1>4 DEF ReturnFrom
<1>5. ASSUME NEW lost, EndSimulation(lost)
      PROVE  ComparedInv'
    BY <1>2, <1>5 DEF EndSimulation
<1>6. CASE Extracting \/ Parsing \/ BuildFromElement \/ Terminated \/ UNCHANGED allVars
    BY <1>2, <1>6 DEF Extracting, Parsing, BuildFromElement, Terminated, allVars, caseVars
<1>7. CASE ExtractOther \/ BothExtracted \/ Describe \/ EndOfElements \/ Report
    BY <1>1, <1>7 DEF ExtractOther, BothExtracted, Describe, EndOfElements, Building, Report
<1>8. CASE StageRaises /\ Abort
    BY <1>1, <1>8 DEF Abort
<1> QED
    BY <1>3, <1>4, <1>5, <1>6, <1>7, <1>8, ComparisonStarts, ComparisonGoesOn DEF CaseNext

\* What was built and what has been compared of it.
CompleteInv == EntriesInv /\ ComparedInv

\* It holds always.
LEMMA CompleteInductive == CaseSpec => []CompleteInv
<1>1. CaseInit => CompleteInv
    BY EntriesStart DEF CaseInit, NothingVerified, CompleteInv, ComparedInv
<1>2. CompleteInv /\ [CaseNext]_allVars => CompleteInv'
    BY EntriesKeep, ComparedKeeps DEF CompleteInv, EntriesInv
<1> QED
    BY <1>1, <1>2, PTL DEF CaseSpec

\* A global variable as its DIE describes it.
LEMMA GlobalIs ==
    ASSUME EntriesInv, NEW c \in 1 .. Len(infos), NEW i \in Located(infos[c].globals)
    PROVE  LET die == GlobalDies(case.binaries[c])[i]
           IN /\ die.type \in Dies /\ IsMeasured(Global(c, i).type)
              /\ Global(c, i).location \in Nat
<1> DEFINE V == GlobalDies(case.binaries[c])
<1>1. /\ infos[c].globals = Kept(V) /\ IsSeq(V)
      /\ \A j \in 1 .. Len(V) : IsVariableDie(V[j])
    BY DEF EntriesInv, InfoInv, IsDescribed, VariablesDescribed, GlobalDies
<1>2. DOMAIN V = 1 .. Len(V)
    BY <1>1, SeqDomain
<1>3. i \in 1 .. Len(V) /\ infos[c].globals[i].location # NoAddress
    BY <1>1, <1>2 DEF Located, Kept
<1> HIDE DEF V
<1>4. /\ Global(c, i).location = V[i].location
      /\ Global(c, i).type = extract_type_rec(V[i].type)
    BY <1>1, <1>2, <1>3 DEF Kept, VarOrParam, Global
<1>5. V[i].type \in Dies /\ V[i].location \in Nat \cup {NoAddress}
    BY <1>1, <1>3 DEF IsVariableDie, Dies
<1>6. Global(c, i).location # NoAddress
    BY <1>3 DEF Global
<1>7. IsMeasured(extract_type_rec(V[i].type))
    <2>1. 0 \in 0 .. RecursionLimit
        BY RecursionLimitAssumption
    <2> QED
        BY <1>5, <2>1, TypesAreMeasured DEF extract_type_rec
<1> QED
    BY <1>4, <1>5, <1>6, <1>7 DEF V

\* A collection with entries has groups.
LEMMA EntriesHaveGroups ==
    ASSUME NEW c, NEW k \in DOMAIN FlattenSeq(c)
    PROVE  c # << >>
<1> SUFFICES ASSUME c = << >> PROVE FALSE
    OBVIOUS
<1>1. FlattenSeq(c) = << >>
    BY FlattenEmpty
<1>2. DOMAIN << >> = {}
    OBVIOUS
<1>3. DOMAIN FlattenSeq(c) = {}
    BY <1>1, <1>2
<1> QED
    BY <1>3

\* A variable that is looked at where it is has an address and a size.
LEMMA InspectedIsSized ==
    ASSUME EntriesInv, stage = "verify", ~ EntriesRaise, NEW i, Inspected(i),
           NEW c \in {Gr, Uv}, NEW k \in DOMAIN Entries(c)
    PROVE  IsSized(Global(c, i)) /\ i \in Located(infos[c].globals)
<1>1. c \in Sides /\ c \in 1 .. Len(infos)
    <2>1. StageTypes
        BY DEF EntriesInv, CaseInv
    <2>2. Len(infos) = 2
        BY <2>1 DEF StageTypes
    <2> QED
        BY <2>2 DEF Sides, Gr, Uv
<1>2. /\ i \in Located(infos[c].globals)
      /\ Global(c, i).type.range = CSize(GlobalDies(case.binaries[c])[i].type)
    BY <1>1 DEF Inspected
<1>3. /\ GlobalDies(case.binaries[c])[i].type \in Dies /\ IsMeasured(Global(c, i).type)
      /\ Global(c, i).location \in Nat
    BY <1>1, <1>2, GlobalIs
<1>4. Global(c, i).type.range \in Sizes
    BY <1>2, <1>3, CSizeIsSize
<1>5. built[c] # << >>
    BY EntriesHaveGroups DEF Entries
<1>6. Global(c, i).type.range # None
    BY <1>2, <1>5 DEF EntriesRaise, LastWritesRaise, Global
<1> QED
    BY <1>2, <1>3, <1>4, <1>6 DEF IsSized, IsMeasured, Sizes

\* The n-th comparison was that of the entries of the n-th calls.
LEMMA ComparedEntries ==
    ASSUME CompleteInv, stage = "verify", NEW k \in DOMAIN verification_entries
    PROVE  /\ \A c \in {Gr, Uv} : c \in DOMAIN built /\ k \in DOMAIN Entries(c)
           /\ IsVerdict(verification_entries[k], Entries(Gr)[k], Entries(Uv)[k])
           /\ ~ EntriesRaise
<1>1. ~ EntriesRaise /\ VerdictsOf(verification_entries, built)
    BY DEF CompleteInv, ComparedInv
<1>2. /\ IsSeq(verification_entries) /\ IsSeq(built) /\ Len(built) = 2
      /\ \A c \in 1 .. Len(built) : IsCollection(built[c])
    BY DEF CompleteInv, EntriesInv, CaseInv, VerifyInv, VerifyTypes, StageTypes, BuildTypes
<1>3. k \in 1 .. Len(verification_entries) /\ DOMAIN built = {Gr, Uv}
    BY <1>2, SeqDomain DEF Gr, Uv
<1>4. /\ k \in 1 .. Len(FlattenSeq(built[Gr])) /\ k \in 1 .. Len(FlattenSeq(built[Uv]))
      /\ IsVerdict(verification_entries[k], FlattenSeq(built[Gr])[k], FlattenSeq(built[Uv])[k])
    BY <1>1, <1>3 DEF VerdictsOf
<1>5. ASSUME NEW c \in {Gr, Uv}
      PROVE  k \in DOMAIN Entries(c)
    <2>1. IsSeq(FlattenSeq(built[c]))
        BY <1>2, AllElementsOf DEF Gr, Uv
    <2>2. DOMAIN FlattenSeq(built[c]) = 1 .. Len(FlattenSeq(built[c]))
        BY <2>1, SeqDomain
    <2>3. k \in 1 .. Len(FlattenSeq(built[c]))
        BY <1>4
    <2> QED
        BY <2>2, <2>3 DEF Entries
<1> QED
    BY <1>1, <1>3, <1>4, <1>5 DEF Entries

\* What an entry answers about a variable that its call stored to in parts, and
\* what the call left of it, is made of the same parts.
IsStoredInParts(c, i, k) ==
    /\ IsSized(Global(c, i))
    /\ IsMadeOf(GlobalImage(c, i, k), PartData(Call(c, k), Global(c, i)), Global(c, i))
    /\ AnswersParts(LastWrites(Entries(c)[k]), Global(c, i), PartData(Call(c, k), Global(c, i)))

\* So it is of a variable that is looked at where it is and as it is stored to.
LEMMA FaithfulParts ==
    ASSUME CompleteInv, stage = "verify", NEW k \in DOMAIN verification_entries,
           NEW i, Faithful(i, k), NEW c \in {Gr, Uv}
    PROVE  IsStoredInParts(c, i, k)
<1> DEFINE v == Global(c, i)
<1> DEFINE call == Call(c, k)
<1>1. /\ c \in DOMAIN built /\ k \in DOMAIN Entries(c) /\ ~ EntriesRaise
      /\ EntriesInv /\ stage # "aborted"
    BY ComparedEntries DEF CompleteInv
<1>2. Inspected(i) /\ StoredInParts(c, i, k)
    BY DEF Faithful, Sides
<1>3. Alone(c, v) /\ v.location >= LowestFound
    BY <1>2 DEF Inspected, Sides
<1>4. IsSized(v) /\ i \in Located(infos[c].globals)
    BY <1>1, <1>2, InspectedIsSized
<1>5. AnswersParts(LastWrites(Entries(c)[k]), v, PartData(call, v))
    BY <1>1, <1>3, <1>4, AnswersOfEntry
<1>6. GoodStores(call.stores)
    BY <1>1, WritesOfEntry
<1>7. InParts(call, v)
    BY <1>2 DEF StoredInParts, InParts, PartAt, PartLen
<1>8. GlobalImage(c, i, k) = ImageOf(call, v)
    BY DEF GlobalImage, ImageOf
<1> HIDE DEF v, call
<1>9. IsMadeOf(ImageOf(call, v), PartData(call, v), v)
    BY <1>4, <1>6, <1>7, MadeOfParts
<1> QED
    BY <1>4, <1>5, <1>8, <1>9 DEF IsStoredInParts, v, call

\* The variable is the same on both sides.
LEMMA FaithfulIsSame ==
    ASSUME NEW i, NEW k, Faithful(i, k)
    PROVE  Global(Uv, i).type = Global(Gr, i).type /\ Global(Uv, i).name = Global(Gr, i).name
BY DEF Faithful, Inspected

\* A part that the comparison looks up is one of a variable.
LEMMA AnswerIsOfVariable ==
    ASSUME CompleteInv, stage = "verify", NEW k \in DOMAIN verification_entries,
           NEW p \in DOMAIN LastWrites(Entries(Gr)[k])
    PROVE  \E i \in Located(infos[Gr].globals) :
              p \in PartsOf(LastWrites(Entries(Gr)[k]), Global(Gr, i).name)
<1> DEFINE vars == infos[Gr].globals
<1> DEFINE answers == LastWrites(Entries(Gr)[k])
<1>1. Gr \in DOMAIN built /\ k \in DOMAIN Entries(Gr) /\ EntriesInv /\ stage # "aborted"
    BY ComparedEntries DEF CompleteInv
<1>2. /\ IsSeq(vars)
      /\ answers = get_last_writes_to_global_var_locations(vars, Entries(Gr)[k].dwrites)
    BY <1>1, WritesOfEntry
<1>3. PICK i \in Located(vars) : \E idx \in 0 .. (Parts(vars[i]) - 1) : p = <<vars[i].name, idx>>
    BY <1>2, AnswersAre
<1>4. p[1] = Global(Gr, i).name
    BY <1>3 DEF Global
<1> QED
    BY <1>3, <1>4 DEF PartsOf

\* A difference that is found is one of a variable that is not faithful, or was
\* left with other bytes.
LEMMA FailureIsReal ==
    ASSUME CompleteInv, stage = "verify", NEW k \in DOMAIN verification_entries,
           verification_entries[k].global_vars = "FAIL"
    PROVE  \E i \in Located(infos[Gr].globals) :
              ~ Faithful(i, k) \/ GlobalImage(Gr, i, k) # GlobalImage(Uv, i, k)
<1> DEFINE gr == LastWrites(Entries(Gr)[k])
<1> DEFINE uv == LastWrites(Entries(Uv)[k])
<1> SUFFICES ASSUME \A i \in Located(infos[Gr].globals) :
                       Faithful(i, k) /\ GlobalImage(Gr, i, k) = GlobalImage(Uv, i, k)
             PROVE  FALSE
    OBVIOUS
<1>1. IsVerdict(verification_entries[k], Entries(Gr)[k], Entries(Uv)[k])
    BY ComparedEntries
<1>2. GlobalsDiffer(gr, uv) /\ ~ GlobalsRaise(gr, uv)
    <2>1. compare_global_variable_values(gr, uv) = "FAIL" /\ ~ GlobalsRaise(gr, uv)
        BY <1>1 DEF IsVerdict, CompareRaises
    <2> HIDE DEF gr, uv
    <2> QED
        BY <2>1 DEF compare_global_variable_values
<1>3. ASSUME NEW i \in Located(infos[Gr].globals)
      PROVE  LET name == Global(Gr, i).name
             IN /\ PartsOf(gr, name) = PartsOf(uv, name)
                /\ \A q \in PartsOf(gr, name) : gr[q].data = uv[q].data
                /\ Pieces(gr, name) = Pieces(uv, name)
    <2> DEFINE v == Global(Gr, i)
    <2> DEFINE w == Global(Uv, i)
    <2> DEFINE part == PartData(Call(Gr, k), v)
    <2> DEFINE parts == PartData(Call(Uv, k), w)
    <2> DEFINE image == GlobalImage(Gr, i, k)
    <2> DEFINE other == GlobalImage(Uv, i, k)
    <2>1. IsSized(v) /\ IsMadeOf(image, part, v) /\ AnswersParts(gr, v, part)
        BY <1>3, FaithfulParts DEF IsStoredInParts
    <2>2. IsSized(w) /\ IsMadeOf(other, parts, w) /\ AnswersParts(uv, w, parts)
        BY <1>3, FaithfulParts DEF IsStoredInParts
    <2>3. w.type = v.type /\ w.name = v.name
        BY <1>3, FaithfulIsSame
    <2>4. image = other
        BY <1>3
    <2> HIDE DEF v, w, part, parts, image, other, gr, uv
    <2>5. \A p \in 0 .. (Parts(v) - 1) : part[p] = parts[p]
        BY <2>1, <2>2, <2>3, <2>4, ImagesByParts
    <2>6. /\ PartsOf(gr, v.name) = PartsOf(uv, v.name)
          /\ \A q \in PartsOf(gr, v.name) : gr[q].data = uv[q].data
          /\ Pieces(gr, v.name) = Pieces(uv, v.name)
        BY <2>1, <2>2, <2>3, <2>5, NoDifference
    <2> QED
        BY <2>6 DEF v
<1>4. ASSUME NEW p \in DOMAIN gr
      PROVE  /\ p \in DOMAIN uv /\ gr[p].data = uv[p].data
             /\ Pieces(gr, p[1]) = Pieces(uv, p[1])
    <2>1. PICK i \in Located(infos[Gr].globals) : p \in PartsOf(gr, Global(Gr, i).name)
        BY <1>4, AnswerIsOfVariable
    <2> HIDE DEF gr, uv
    <2>2. p \in PartsOf(uv, Global(Gr, i).name) /\ p[1] = Global(Gr, i).name
        BY <1>3, <2>1 DEF PartsOf
    <2> QED
        BY <1>3, <2>1, <2>2 DEF PartsOf
<1> HIDE DEF gr, uv
<1>5. CASE Cardinality(DOMAIN gr) = Cardinality(DOMAIN uv)
    BY <1>2, <1>4, <1>5 DEF GlobalsDiffer
<1>6. CASE Cardinality(DOMAIN gr) # Cardinality(DOMAIN uv)
    <2> DEFINE left == normalize_variable_data(gr)
    <2> DEFINE right == normalize_variable_data(uv)
    <2>1. PICK name \in DOMAIN left : name \notin DOMAIN right \/ left[name] # right[name]
        BY <1>2, <1>6 DEF GlobalsDiffer
    <2>2. PICK p \in DOMAIN gr : p[1] = name
        BY <2>1 DEF normalize_variable_data
    <2>3. p \in DOMAIN uv /\ Pieces(gr, name) = Pieces(uv, name)
        BY <1>4, <2>2
    <2>4. name \in DOMAIN right /\ left[name] = right[name]
        BY <2>1, <2>2, <2>3 DEF normalize_variable_data
    <2> QED
        BY <2>1, <2>4
<1> QED
    BY <1>5, <1>6

\* What the comparison passes over is equal, as far as it was stored to alike.
LEMMA PassIsReal ==
    ASSUME CompleteInv, stage = "verify", NEW k \in DOMAIN verification_entries,
           NEW i, verification_entries[k].global_vars # "FAIL", Faithful(i, k),
           Stored(GlobalImage(Gr, i, k)) # {}
    PROVE  /\ Stored(GlobalImage(Uv, i, k)) # {}
           /\ Stored(GlobalImage(Gr, i, k)) = Stored(GlobalImage(Uv, i, k)) =>
                 GlobalImage(Gr, i, k) = GlobalImage(Uv, i, k)
<1> DEFINE gr == LastWrites(Entries(Gr)[k])
<1> DEFINE uv == LastWrites(Entries(Uv)[k])
<1> DEFINE v == Global(Gr, i)
<1> DEFINE w == Global(Uv, i)
<1> DEFINE part == PartData(Call(Gr, k), v)
<1> DEFINE parts == PartData(Call(Uv, k), w)
<1> DEFINE image == GlobalImage(Gr, i, k)
<1> DEFINE other == GlobalImage(Uv, i, k)
<1>1. IsVerdict(verification_entries[k], Entries(Gr)[k], Entries(Uv)[k])
    BY ComparedEntries
<1>2. compare_global_variable_values(gr, uv) # "FAIL" /\ ~ GlobalsRaise(gr, uv)
    BY <1>1 DEF IsVerdict, CompareRaises
<1>3. IsSized(v) /\ IsMadeOf(image, part, v) /\ AnswersParts(gr, v, part)
    BY FaithfulParts DEF IsStoredInParts
<1>4. IsSized(w) /\ IsMadeOf(other, parts, w) /\ AnswersParts(uv, w, parts)
    BY FaithfulParts DEF IsStoredInParts
<1>5. w.type = v.type /\ w.name = v.name
    BY FaithfulIsSame
<1>6. Stored(image) # {}
    OBVIOUS
<1> SUFFICES Stored(other) # {} /\ (Stored(image) = Stored(other) => image = other)
    OBVIOUS
<1> HIDE DEF v, w, part, parts, image, other, gr, uv
<1>7. PICK h \in 0 .. (Parts(v) - 1) : part[h] # << >>
    BY <1>3, <1>6, StoredParts
<1>8. DOMAIN gr # {}
    <2>1. <<v.name, h>> \in PartsOf(gr, v.name)
        BY <1>3, <1>7 DEF AnswersParts, Answered
    <2> QED
        BY <2>1 DEF PartsOf
<1>9. ~ GlobalsDiffer(gr, uv)
    BY <1>2, <1>8 DEF compare_global_variable_values
<1>10. /\ \E p \in 0 .. (Parts(v) - 1) : parts[p] # << >>
       /\ (\A p \in 0 .. (Parts(v) - 1) : part[p] = << >> <=> parts[p] = << >>) =>
             \A p \in 0 .. (Parts(v) - 1) : part[p] = parts[p]
    BY <1>2, <1>3, <1>4, <1>5, <1>7, <1>9, NoneFound
<1>11. Parts(w) = Parts(v)
    BY <1>5 DEF Parts, IsArray, get_number_of_elements
<1>12. Stored(other) # {}
    BY <1>4, <1>10, <1>11, StoredParts
<1>13. Stored(image) = Stored(other) => image = other
    <2>1. /\ image = other <=> \A p \in 0 .. (Parts(v) - 1) : part[p] = parts[p]
          /\ Stored(image) = Stored(other) =>
                \A p \in 0 .. (Parts(v) - 1) : part[p] = << >> <=> parts[p] = << >>
        BY <1>3, <1>4, <1>5, ImagesByParts
    <2> QED
        BY <1>10, <2>1
<1> QED
    BY <1>12, <1>13

\* Whatever the programs store: a failure reported for the global variables is
\* one of a variable that was left with other bytes, unless it was stored to in
\* another width or is not looked at where it is
\* (_compare_global_variable_values).
THEOREM FailuresAreReal == CaseSpec => []FailIsReal
<1>1. CompleteInv => FailIsReal
    BY FailureIsReal DEF FailIsReal
<1> QED
    BY <1>1, CompleteInductive, PTL

\* Whatever the programs store: of a variable that the golden reference stored
\* to, no failure means that the other program stored to it, too, and to the
\* same value where it stored to the same bytes.
THEOREM PassesAgree == CaseSpec => []PassIsAgreement
<1>1. CompleteInv => PassIsAgreement
    BY PassIsReal DEF PassIsAgreement
<1> QED
    BY <1>1, CompleteInductive, PTL

-----------------------------------------------------------------------------
(***************************************************************************)
(* The functions of the calls.                                             *)
(***************************************************************************)

\* Whatever returned is a function of the source file, with a number in a0.
KnownInv ==
    stage \notin {"dwarf", "aborted"} =>
        \A c \in {Gr, Uv} : \A k \in 1 .. Len(executed[c]) :
            /\ executed[c][k].function \in Subprograms(infos[c])
            /\ executed[c][k].state.a0 \in Int

\* Only functions that were extracted are called.
LEMMA KnownKeeps ==
    ASSUME CaseInv, HistoryInv, KnownInv, [CaseNext]_allVars
    PROVE  KnownInv'
<1>0. side \in {Gr, Uv}
    BY DEF CaseInv, StageTypes
<1>1. ASSUME UNCHANGED <<executed, infos>>, stage \notin {"dwarf", "aborted"} \/ stage' \in {"dwarf", "aborted"}
      PROVE  KnownInv'
    BY <1>1 DEF KnownInv, Subprograms
<1>2. ASSUME NEW f, NEW r \in case.returns[side], ReturnFrom(f, r)
      PROVE  KnownInv'
    <2> DEFINE call == [function |-> f, stores |-> stores, state |-> r]
    <2> DEFINE longer == Append(executed[side], call)
    <2>1. /\ executed' = [executed EXCEPT ![side] = longer]
          /\ stage = "simulate" /\ UNCHANGED <<stage, side, infos>>
          /\ f \in Subprograms(infos[side])
        BY <1>2 DEF ReturnFrom, Running
    <2>2. /\ Len(longer) = Len(executed[side]) + 1 /\ Len(executed[side]) \in Nat
          /\ longer[Len(executed[side]) + 1] = call
          /\ \A m \in 1 .. Len(executed[side]) : longer[m] = executed[side][m]
        BY <1>0, AppendIsSeq, SeqDomain DEF HistoryInv, GoodCalls
    <2>3. call.function = f /\ call.state = r /\ r.a0 \in Int
        BY <1>0, CasesAssumption DEF CaseInv, ExtractTypes
    <2> HIDE DEF call, longer
    <2>4. DOMAIN executed = {Gr, Uv}
        BY DEF HistoryInv
    <2>5. \A c \in {Gr, Uv} : executed'[c] = IF c = side THEN longer ELSE executed[c]
        BY <2>1, <2>4
    <2>6. ASSUME NEW m \in 1 .. Len(longer)
          PROVE  /\ longer[m].function \in Subprograms(infos[side])
                 /\ longer[m].state.a0 \in Int
        <3>1. m \in 1 .. Len(executed[side]) \/ m = Len(executed[side]) + 1
            BY <2>2
        <3>2. CASE m \in 1 .. Len(executed[side])
            BY <3>2, <2>1, <2>2, <1>0 DEF KnownInv
        <3> QED
            BY <3>1, <3>2, <2>1, <2>2, <2>3
    <2>7. ASSUME NEW c \in {Gr, Uv}, NEW k \in 1 .. Len(executed'[c])
          PROVE  /\ executed'[c][k].function \in Subprograms(infos[c])
                 /\ executed'[c][k].state.a0 \in Int
        <3>1. CASE c = side
            BY <3>1, <2>5, <2>6
        <3>2. CASE c # side
            <4>1. executed'[c] = executed[c]
                BY <3>2, <2>5
            <4> QED
                BY <4>1, <2>1, <2>7 DEF KnownInv
        <3> QED
            BY <3>1, <3>2
    <2> QED
        BY <2>1, <2>7 DEF KnownInv, Subprograms
<1>3. CASE ExtractOther
    BY <1>3 DEF ExtractOther, KnownInv
<1>4. CASE BothExtracted
    <2>1. stage = "dwarf" /\ executed' = executed
        BY <1>4 DEF BothExtracted
    <2>2. executed[Gr] = << >> /\ executed[Uv] = << >>
        BY <2>1 DEF HistoryInv
    <2> QED
        BY <2>1, <2>2, EmptyIsSeq DEF KnownInv
<1>5. ASSUME NEW b, StoreAsIn(b)
      PROVE  KnownInv'
    BY <1>1, <1>5 DEF StoreAsIn, Running
<1>6. ASSUME NEW lost, EndSimulation(lost)
      PROVE  KnownInv'
    BY <1>1, <1>6 DEF EndSimulation, Running
<1>7. CASE Extracting \/ Parsing \/ Verifying \/ BuildFromElement \/ Terminated \/ UNCHANGED allVars
    BY <1>1, <1>7 DEF Extracting, Parsing, Verifying, BuildFromElement, Terminated, allVars, caseVars
<1>8. CASE Describe \/ EndOfElements \/ Report \/ StartVerification \/ (StageRaises /\ Abort)
    BY <1>1, <1>8 DEF Describe, EndOfElements, Building, Report, StartVerification, Abort
<1> QED
    BY <1>2, <1>3, <1>4, <1>5, <1>6, <1>7, <1>8 DEF CaseNext

\* With what was built and compared.
ReturnInv == CompleteInv /\ KnownInv

\* It holds always.
LEMMA ReturnInductive == CaseSpec => []ReturnInv
<1>1. CaseInit => KnownInv
    BY DEF CaseInit, KnownInv
<1>2. CompleteInv /\ KnownInv /\ [CaseNext]_allVars => KnownInv'
    BY KnownKeeps DEF CompleteInv, EntriesInv
<1> QED
    BY <1>1, <1>2, CompleteInductive, PTL DEF CaseSpec, ReturnInv

-----------------------------------------------------------------------------
(***************************************************************************)
(* The type of what a function returns.                                    *)
(***************************************************************************)
TypeOf(t) == IF t = NoDie THEN NoType ELSE extract_type_rec(t)

\* A function has the type of the last of its definitions.
LEMMA TypeOfFunction ==
    ASSUME ReturnInv, stage \notin {"dwarf", "aborted"}, NEW c \in {Gr, Uv},
           NEW k \in 1 .. Len(executed[c])
    PROVE  /\ get_subprogram_by_name(infos[c], executed[c][k].function).type = TypeOf(ReturnType(c, k))
           /\ ReturnType(c, k) \in Dies
<1> DEFINE f == executed[c][k].function
<1> DEFINE subs == infos[c].subprograms
<1> DEFINE F == OwnFunctions(case.binaries[c])
<1> DEFINE s == get_subprogram_by_name(infos[c], f)
<1>1. c \in 1 .. Len(infos)
    <2>1. StageTypes
        BY DEF ReturnInv, CompleteInv, EntriesInv, CaseInv
    <2>2. Len(infos) = 2
        BY <2>1 DEF StageTypes
    <2> QED
        BY <2>2 DEF Gr, Uv
<1>2. FunctionsDescribed(subs, F)
    BY <1>1 DEF ReturnInv, CompleteInv, EntriesInv, InfoInv, IsDescribed, OwnFunctions
<1>3. Len(F) \in Nat /\ DOMAIN F = 1 .. Len(F) /\ Len(subs) \in Nat /\ DOMAIN subs = 1 .. Len(subs)
    BY <1>2, SeqDomain DEF FunctionsDescribed
<1>4. f \in Subprograms(infos[c])
    BY DEF ReturnInv, KnownInv
<1>5. s \in Range(subs) /\ s.name = f
    <2>1. \E x \in Range(subs) : x.name = f
        BY <1>4 DEF Subprograms
    <2> QED
        BY <2>1 DEF get_subprogram_by_name
<1> HIDE DEF s, subs, F, f
<1>6. PICK i \in 1 .. Len(subs) : s = subs[i]
    BY <1>3, <1>5 DEF Range
<1>7. PICK j \in 1 .. Len(F) : LastNamed(F, j) /\ SubprogramOf(subs[i], F[j])
    BY <1>2 DEF FunctionsDescribed
<1>8. F[j].name = f /\ s.type = TypeOf(F[j].type) /\ F[j].type \in Dies
    <2>1. F[j].type \in DOMAIN TypeDie \cup {NoDie}
        BY <1>2 DEF FunctionsDescribed, IsFunctionDie
    <2> QED
        BY <1>5, <1>6, <1>7, <2>1 DEF SubprogramOf, TypeOf, Dies
<1> DEFINE named == { h \in DOMAIN F : F[h].name = f }
<1>9. (CHOOSE h \in named : \A l \in named : l <= h) = j
    <2>1. j \in named /\ named \subseteq 1 .. Len(F)
        BY <1>3, <1>8
    <2>2. \A l \in named : l <= j
        BY <1>3, <1>7, <1>8 DEF LastNamed
    <2> HIDE DEF named
    <2> QED
        BY <1>3, <2>1, <2>2, ChosenLast
<1>10. ReturnType(c, k) = F[j].type
    BY <1>9 DEF ReturnType, Call, F, f
<1> QED
    BY <1>8, <1>10 DEF s, f

-----------------------------------------------------------------------------
\* The snapshot of the return, if it is one of the march's own kind.
LEMMA EpilogueOf ==
    ASSUME NEW march, NEW s
    PROVE  fetch_epilogue_state(march, <<s>>) =
              IF s.instruction = EpilogueInstruction(march) THEN <<s>> ELSE << >>
<1> DEFINE returns == { i \in DOMAIN <<s>> : <<s>>[i].instruction = EpilogueInstruction(march) }
<1>1. DOMAIN <<s>> = {1} /\ <<s>>[1] = s
    OBVIOUS
<1>2. returns = IF s.instruction = EpilogueInstruction(march) THEN {1} ELSE {}
    BY <1>1
<1>3. fetch_epilogue_state(march, <<s>>) =
         IF returns = {} THEN << >>
         ELSE << <<s>>[CHOOSE i \in returns : \A j \in returns : i <= j] >>
    BY DEF fetch_epilogue_state
<1> HIDE DEF returns
<1>4. CASE s.instruction = EpilogueInstruction(march)
    <2>1. returns = {1}
        BY <1>2, <1>4
    <2>2. (CHOOSE i \in returns : \A j \in returns : i <= j) = 1
        BY <2>1
    <2> QED
        BY <1>1, <1>3, <1>4, <2>1, <2>2
<1>5. CASE s.instruction # EpilogueInstruction(march)
    BY <1>2, <1>3, <1>5
<1> QED
    BY <1>4, <1>5

\* A struct of ints has as many members as its DIE, of base types.
LEMMA MembersOfInts ==
    ASSUME NEW die, die.members \in Seq([named : BOOLEAN, type : DOMAIN TypeDie \cup {NoDie}]),
           NEW at, \A t \in DOMAIN TypeDie : TypeDie[t].tag = "base" => at[t] = BaseType(TypeDie[t]),
           \A i \in DOMAIN die.members : IsIntMember(die.members[i])
    PROVE  /\ IsSeq(Members(die, at)) /\ Len(Members(die, at)) = Len(die.members)
           /\ \A m \in Range(Members(die, at)) : m.class = "BaseType"
<1> DEFINE ms == die.members
<1> DEFINE kept == [i \in DOMAIN ms |->
                       IF ms[i].named /\ at[ms[i].type].class # "Raised" THEN <<at[ms[i].type]>> ELSE << >>]
<1> DEFINE S == { BaseType(TypeDie[t]) : t \in DOMAIN TypeDie }
<1>1. Members(die, at) = FlattenSeq(kept)
    BY DEF Members
<1>2. Len(ms) \in Nat /\ DOMAIN ms = 1 .. Len(ms)
    OBVIOUS
<1>3. ASSUME NEW i \in 1 .. Len(ms)
      PROVE  kept[i] = <<at[ms[i].type]>> /\ at[ms[i].type] \in S
    <2>1. ms[i].named /\ ms[i].type \in DOMAIN TypeDie /\ TypeDie[ms[i].type].tag = "base"
        <3>1. IsIntMember(ms[i])
            BY <1>2
        <3>2. ms[i] \in [named : BOOLEAN, type : DOMAIN TypeDie \cup {NoDie}]
            BY ElementIn
        <3> QED
            BY <3>1, <3>2 DEF IsIntMember
    <2>2. at[ms[i].type] = BaseType(TypeDie[ms[i].type])
        BY <2>1
    <2>3. at[ms[i].type].class = "BaseType"
        BY <2>2 DEF BaseType, Type
    <2> QED
        BY <1>2, <2>1, <2>2, <2>3
<1>4. \A m \in S : m.class = "BaseType"
    BY DEF BaseType, Type
<1> HIDE DEF S, ms
<1>5. \A x \in S : <<x>> \in Seq(S) /\ Len(<<x>>) = 1
    OBVIOUS
<1>6. kept = [i \in 1 .. Len(ms) |-> kept[i]]
    BY <1>2
<1> HIDE DEF kept
<1>7. kept \in Seq(Seq(S)) /\ Len(kept) = Len(ms) /\ \A g \in 1 .. Len(kept) : Len(kept[g]) = 1
    <2>1. kept \in [1 .. Len(ms) -> Seq(S)]
        BY <1>3, <1>5, <1>6
    <2>2. kept \in Seq(Seq(S)) /\ Len(kept) = Len(ms)
        BY <1>2, <2>1, SeqDef, LenProperties
    <2>3. \A g \in 1 .. Len(ms) : Len(kept[g]) = 1
        BY <1>3, <1>5
    <2> QED
        BY <2>2, <2>3
<1>8. FlattenSeq(kept) \in Seq(S) /\ Len(FlattenSeq(kept)) = Len(ms)
    <2>1. 1 \in Nat /\ Len(kept) * 1 = Len(kept)
        <3>1. \A x \in Nat : x * 1 = x
            OBVIOUS
        <3> QED
            BY <1>2, <1>7, <3>1
    <2>2. FlattenSeq(kept) \in Seq(S) /\ Len(FlattenSeq(kept)) = Len(kept) * 1
        BY <1>7, <2>1, FlattenBlocks
    <2> QED
        BY <1>7, <2>1, <2>2
<1>9. IsSeq(FlattenSeq(kept)) /\ \A m \in Range(FlattenSeq(kept)) : m \in S
    BY <1>8 DEF IsSeq, Range
<1> QED
    BY <1>1, <1>4, <1>8, <1>9 DEF ms

\* What a DIE is resolved to with the whole stack.
LEMMA ResolvedAtFirst ==
    ASSUME NEW t \in DOMAIN TypeDie
    PROVE  /\ TypeOf(t) = ResolvedDie(TypeDie[t], Resolve[1])
           /\ TypeDie[t].tag = "base" => Resolve[1][t] = BaseType(TypeDie[t])
<1>1. /\ 0 \in 0 .. RecursionLimit /\ 1 \in 0 .. RecursionLimit
      /\ RecursionLimit # 0 /\ RecursionLimit # 1 /\ 0 + 1 = 1
    BY RecursionLimitAssumption
<1>2. t # NoDie /\ t \in Dies
    BY TypeDieAssumption DEF Dies
<1>3. Resolve[0] = Layer(0, Resolve[0 + 1]) /\ Resolve[1] = Layer(1, Resolve[1 + 1])
    BY <1>1, ResolveIs
<1>4. Resolve[0][t] = ResolvedDie(TypeDie[t], Resolve[1])
    BY <1>1, <1>2, <1>3 DEF Layer
<1>5. Resolve[1][t] = ResolvedDie(TypeDie[t], Resolve[1 + 1])
    BY <1>1, <1>2, <1>3 DEF Layer
<1>6. TypeDie[t].tag = "base" => Resolve[1][t] = BaseType(TypeDie[t])
    BY <1>5 DEF ResolvedDie
<1> QED
    BY <1>2, <1>4, <1>6 DEF TypeOf, extract_type_rec

\* What is no scalar, struct or union is resolved to neither of them.
LEMMA NoValueResolved ==
    ASSUME NEW t \in Dies, ~ IsValue(t)
    PROVE  TypeOf(t).class \notin {"BaseType", "StructType", "UnionType"}
<1>1. CASE t = NoDie
    BY <1>1 DEF TypeOf, NoType, Type
<1>2. CASE t # NoDie
    <2> DEFINE die == TypeDie[t]
    <2> DEFINE at == Resolve[1]
    <2>1. t \in DOMAIN TypeDie /\ die.tag \notin {"base", "structure", "union"}
        BY <1>2 DEF IsValue, Dies
    <2>2. TypeOf(t) = ResolvedDie(die, at)
        BY <2>1, ResolvedAtFirst
    <2> HIDE DEF die, at
    <2>3. \A class, inner : Wrapped(class, inner).class = class
        BY DEF Wrapped, Type
    <2>4. \A class, inner : WrappedOrBare(class, inner).class = class
        BY <2>3 DEF WrappedOrBare
    <2>5. NoType.class = "None" /\ Raised.class = "Raised"
        BY DEF NoType, Raised, Type
    <2>6. CASE die.tag = "array"
        <3>1. TypeOf(t) = ArrayType(die.subranges, at[die.type])
            BY <2>2, <2>6 DEF ResolvedDie
        <3>2. ArrayType(die.subranges, at[die.type]).class \in {"Raised", "ArrayType"}
            <4>1. \A inner, range : [Wrapped("ArrayType", inner) EXCEPT !.range = range].class = "ArrayType"
                BY DEF Wrapped, Type
            <4> QED
                BY <2>5, <4>1 DEF ArrayType
        <3> QED
            BY <3>1, <3>2
    <2>7. CASE die.tag = "pointer"
        <3>1. TypeOf(t) = PointerType(at[die.type])
            BY <2>2, <2>7 DEF ResolvedDie
        <3>2. PointerType(at[die.type]).class \in {"Raised", "PointerType"}
            BY <2>3, <2>5 DEF PointerType
        <3> QED
            BY <3>1, <3>2
    <2>8. CASE die.tag \in {"const", "volatile", "typedef"}
        <3>1. TypeOf(t).class \in {"ConstType", "VolatileType", "TypeDef"}
            BY <2>2, <2>4, <2>8 DEF ResolvedDie
        <3> QED
            BY <3>1
    <2>9. CASE die.tag \notin {"array", "pointer", "const", "volatile", "typedef"}
        <3>1. TypeOf(t) = NoType
            BY <2>1, <2>2, <2>9 DEF ResolvedDie, die
        <3> QED
            BY <2>5, <3>1
    <2> QED
        BY <2>6, <2>7, <2>8, <2>9
<1> QED
    BY <1>1, <1>2

\* What can be returned is resolved to its own kind, with its own size.
LEMMA ReturnableResolved ==
    ASSUME NEW t \in Dies, Returnable(t)
    PROVE  LET die == TypeDie[t]
               type == TypeOf(t)
           IN /\ t \in DOMAIN TypeDie
              /\ \/ /\ die.tag = "base" /\ type.class = "BaseType" /\ type.name = die.name
                    /\ die.size \in SizesOfBase(get_mapping_for_dwarf_base_type(die.name))
                 \/ /\ die.tag = "union" /\ type.class = "UnionType" /\ type.range = die.size
                    /\ die.size \in Nat
                 \/ /\ die.tag = "structure" /\ type.class = "StructType" /\ type.range = die.size
                    /\ Len(type.members) \in Nat \ {0} /\ die.size = 4 * Len(type.members)
<1> DEFINE die == TypeDie[t]
<1> DEFINE at == Resolve[1]
<1>1. t \in DOMAIN TypeDie /\ die.tag \in {"base", "structure", "union"}
    BY DEF Returnable, IsValue, Dies
<1>2. TypeOf(t) = ResolvedDie(die, at) /\ \A u \in DOMAIN TypeDie :
            TypeDie[u].tag = "base" => at[u] = BaseType(TypeDie[u])
    BY <1>1, ResolvedAtFirst
<1>3. /\ die.size \in Nat \cup {None}
      /\ die.members \in Seq([named : BOOLEAN, type : DOMAIN TypeDie \cup {NoDie}])
    BY <1>1, TypeDieAssumption
<1>4. \A size, members : Aggregate("StructType", size, members).class = "StructType"
                      /\ Aggregate("StructType", size, members).range = size
                      /\ Aggregate("StructType", size, members).members = members
    BY DEF Aggregate, Type
<1>5. \A size, members : Aggregate("UnionType", size, members).class = "UnionType"
                      /\ Aggregate("UnionType", size, members).range = size
    BY DEF Aggregate, Type
<1> HIDE DEF at
<1>6. CASE die.tag = "base"
    <2>1. TypeOf(t) = BaseType(die)
        BY <1>2, <1>6 DEF ResolvedDie
    <2>2. die.size \in SizesOfBase(get_mapping_for_dwarf_base_type(die.name))
        BY <1>6 DEF Returnable
    <2> QED
        BY <1>1, <1>6, <2>1, <2>2 DEF BaseType, Type
<1>7. CASE die.tag = "union"
    <2>1. die.size # None
        BY <1>7 DEF Returnable
    <2>2. TypeOf(t) = UnionType(die, Members(die, at))
        BY <1>2, <1>7 DEF ResolvedDie
    <2>3. TypeOf(t) = Aggregate("UnionType", die.size, Members(die, at))
        BY <2>1, <2>2 DEF UnionType
    <2> QED
        BY <1>1, <1>3, <1>5, <1>7, <2>1, <2>3
<1>8. CASE die.tag = "structure"
    <2>1. /\ die.name # "" /\ die.members # << >> /\ die.size = 4 * Len(die.members)
          /\ \A i \in DOMAIN die.members : IsIntMember(die.members[i])
        BY <1>8 DEF Returnable
    <2> DEFINE ms == Members(die, at)
    <2>2. Len(ms) = Len(die.members)
        BY <1>2, <1>3, <2>1, MembersOfInts
    <2>3. Len(die.members) \in Nat \ {0}
        <3> DEFINE all == die.members
        <3> DEFINE M == [named : BOOLEAN, type : DOMAIN TypeDie \cup {NoDie}]
        <3>1. all \in Seq(M) /\ all # << >>
            BY <1>3, <2>1
        <3> HIDE DEF all, M
        <3>2. Len(all) \in Nat \ {0}
            BY <3>1
        <3> QED
            BY <3>2 DEF all
    <2>4. die.size # None
        <3> DEFINE n == Len(die.members)
        <3>1. n \in Nat \ {0} /\ die.size = 4 * n
            BY <2>1, <2>3
        <3> HIDE DEF n, die
        <3> QED
            BY <3>1 DEF None
    <2>5. TypeOf(t) = StructType(die, ms)
        BY <1>2, <1>8 DEF ResolvedDie
    <2> HIDE DEF ms
    <2>6. TypeOf(t) = Aggregate("StructType", die.size, ms)
        BY <2>1, <2>4, <2>5 DEF StructType
    <2>7. TypeOf(t).class = "StructType" /\ TypeOf(t).range = die.size /\ TypeOf(t).members = ms
        BY <1>4, <2>6
    <2> QED
        BY <1>1, <1>8, <2>1, <2>2, <2>3, <2>7
<1> QED
    BY <1>1, <1>6, <1>7, <1>8

-----------------------------------------------------------------------------
\* What an entry says of the return of its call.
LEMMA ReturnOfEntry ==
    ASSUME ReturnInv, stage = "verify", NEW k \in DOMAIN verification_entries, NEW c \in {Gr, Uv}
    PROVE  LET e == Entries(c)[k]
           IN /\ fetch_epilogue_state(e.march, e.epilogue) =
                    IF LeftByItsReturn(c, k) THEN <<Call(c, k).state>> ELSE << >>
              /\ e.march = March(c)
              /\ e.return_type = TypeOf(ReturnType(c, k)) /\ ReturnType(c, k) \in Dies
              /\ Written(e.dwrites, Call(c, k).stores, Len(Call(c, k).stores))
              /\ GoodStores(Call(c, k).stores)
<1> DEFINE e == Entries(c)[k]
<1> DEFINE call == executed[c][k]
<1>1. c \in DOMAIN built /\ k \in DOMAIN Entries(c)
    BY ComparedEntries DEF ReturnInv
<1>2. k \in 1 .. Len(executed[c]) /\ GoodStores(call.stores) /\ Describes(e, infos[c], call)
    BY <1>1, EntryOfCall DEF ReturnInv, CompleteInv
<1>3. e = Entry(infos[c], e.dwrites, ReturnRecord(call.function, call.state))
    BY <1>2 DEF Describes
<1>4. LET r == ReturnRecord(call.function, call.state)
      IN r.function = call.function /\ r.state = call.state
    BY DEF ReturnRecord
<1> HIDE DEF call
<1>5. /\ e.epilogue = <<call.state>> /\ e.march = infos[c].march
      /\ e.return_type = get_subprogram_by_name(infos[c], call.function).type
    <2> HIDE DEF e
    <2>1. \A d, r : LET n == Entry(infos[c], d, r)
                    IN /\ n.epilogue = <<r.state>> /\ n.march = infos[c].march
                       /\ n.return_type = get_subprogram_by_name(infos[c], r.function).type
        BY DEF Entry
    <2> QED
        BY <1>3, <1>4, <2>1
<1>6. e.return_type = TypeOf(ReturnType(c, k)) /\ ReturnType(c, k) \in Dies
    BY <1>2, <1>5, TypeOfFunction DEF call
<1>7. fetch_epilogue_state(e.march, e.epilogue) =
         IF call.state.instruction = EpilogueInstruction(infos[c].march) THEN <<call.state>> ELSE << >>
    BY <1>5, EpilogueOf
<1>8. call.state.instruction = EpilogueInstruction(infos[c].march) <=> LeftByItsReturn(c, k)
    BY DEF LeftByItsReturn, EpilogueInstruction, March, Call, call
<1> QED
    BY <1>2, <1>5, <1>6, <1>7, <1>8 DEF Describes, March, Call, call

-----------------------------------------------------------------------------
(***************************************************************************)
(* Values in registers.                                                    *)
(***************************************************************************)
\* The value of type t that is made of the words w.
ValueOf(t, w) ==
    IF ~ ReadAsFloating(t) THEN Value([i \in 1 .. Len(w) |-> Plain(<<w[i]>>)])
    ELSE IF Len(w) = 1 THEN Value(<<Float(w[1])>>)
    ELSE Value(<<Double(w[1], w[2])>>)

\* So values differ unless their words are the same number.
LEMMA DifferingValues ==
    ASSUME NEW t, NEW v, NEW w, NEW a, NEW b, NEW c, NEW d,
           (v = <<a>> /\ w = <<b>>) \/ (v = <<a, c>> /\ w = <<b, d>>)
    PROVE  /\ ValueOf(t, v).known /\ ValueOf(t, w).known
           /\ Differ(ValueOf(t, v), ValueOf(t, w)) <=> ~ SameNumber(t, v, w)
<1>1. CASE ~ ReadAsFloating(t)
    <2> DEFINE p == [i \in 1 .. Len(v) |-> <<v[i]>>]
    <2> DEFINE q == [i \in 1 .. Len(w) |-> <<w[i]>>]
    <2>1. /\ Len(v) \in {1, 2} /\ Len(w) = Len(v)
          /\ v = w <=> \A i \in 1 .. Len(v) : v[i] = w[i]
        OBVIOUS
    <2>2. IsSeq(p) /\ IsSeq(q) /\ Len(p) = Len(v) /\ Len(q) = Len(v)
        <3>1. p = [i \in 1 .. Len(v) |-> p[i]] /\ q = [i \in 1 .. Len(v) |-> q[i]]
            BY <2>1
        <3>2. Len(v) \in Nat
            BY <2>1
        <3> HIDE DEF p, q
        <3> QED
            BY <2>1, <3>1, <3>2, ListIsSeq
    <2>3. v = w <=> p = q
        <3>1. \A i \in 1 .. Len(v) : p[i] = q[i] <=> v[i] = w[i]
            BY <2>1
        <3>2. p = q <=> \A i \in 1 .. Len(v) : p[i] = q[i]
            BY <2>1
        <3> QED
            BY <2>1, <3>1, <3>2
    <2>4. /\ ValueOf(t, v) = Value([i \in 1 .. Len(p) |-> Plain(p[i])])
          /\ ValueOf(t, w) = Value([i \in 1 .. Len(q) |-> Plain(q[i])])
        BY <1>1, <2>1, <2>2 DEF ValueOf
    <2>5. SameNumber(t, v, w) <=> v = w
        BY <1>1 DEF SameNumber
    <2> HIDE DEF p, q
    <2> QED
        BY <2>2, <2>3, <2>4, <2>5, DifferingWords
<1>2. CASE ReadAsFloating(t) /\ v = <<a>> /\ w = <<b>>
    <2>1. Len(v) = 1 /\ Len(w) = 1 /\ v[1] = a /\ w[1] = b
        BY <1>2
    <2>2. ValueOf(t, v) = Value(<<Float(a)>>) /\ ValueOf(t, w) = Value(<<Float(b)>>)
        BY <1>2, <2>1 DEF ValueOf
    <2>3. /\ IsNan(v) <=> Float(a).nan
          /\ IsNan(w) <=> Float(b).nan
        BY <2>1 DEF IsNan
    <2>4. /\ IsZero(v) <=> a \in {0, SignBit}
          /\ IsZero(w) <=> b \in {0, SignBit}
        <3> HIDE DEF SignBit
        <3> QED
            BY <2>1 DEF IsZero
    <2>5. v = w <=> a = b
        BY <1>2
    <2>6. SameNumber(t, v, w) <=>
             ~ Float(a).nan /\ ~ Float(b).nan /\ (a = b \/ (a \in {0, SignBit} /\ b \in {0, SignBit}))
        BY <1>2, <2>3, <2>4, <2>5, Zenon DEF SameNumber
    <2> QED
        BY <2>2, <2>6, DifferingFloats, DifferingNumber
<1>3. CASE ReadAsFloating(t) /\ v = <<a, c>> /\ w = <<b, d>>
    <2>1. Len(v) = 2 /\ Len(w) = 2 /\ v[1] = a /\ w[1] = b /\ v[2] = c /\ w[2] = d
        BY <1>3
    <2>2. ValueOf(t, v) = Value(<<Double(a, c)>>) /\ ValueOf(t, w) = Value(<<Double(b, d)>>)
        BY <1>3, <2>1 DEF ValueOf
    <2>3. /\ IsNan(v) <=> Double(a, c).nan
          /\ IsNan(w) <=> Double(b, d).nan
        BY <2>1 DEF IsNan
    <2>4. /\ IsZero(v) <=> a = 0 /\ c \in {0, SignBit}
          /\ IsZero(w) <=> b = 0 /\ d \in {0, SignBit}
        <3> HIDE DEF SignBit
        <3>1. 1 .. (2 - 1) = {1}
            OBVIOUS
        <3> QED
            BY <2>1, <3>1 DEF IsZero
    <2>5. v = w <=> <<a, c>> = <<b, d>>
        BY <1>3
    <2>6. SameNumber(t, v, w) <=>
             /\ ~ Double(a, c).nan /\ ~ Double(b, d).nan
             /\ <<a, c>> = <<b, d>> \/ (a = 0 /\ c \in {0, SignBit} /\ b = 0 /\ d \in {0, SignBit})
        BY <1>3, <2>3, <2>4, <2>5, Zenon DEF SameNumber
    <2> QED
        BY <2>2, <2>6, DifferingDoubles, DifferingNumber
<1> QED
    BY <1>1, <1>2, <1>3

\* The numbers that one or two words make.
LEMMA ValueOfWords ==
    ASSUME NEW t, NEW x, NEW y
    PROVE  /\ ReadAsFloating(t) => /\ ValueOf(t, <<x>>) = Value(<<Float(x)>>)
                                   /\ ValueOf(t, <<x, y>>) = Value(<<Double(x, y)>>)
           /\ ~ ReadAsFloating(t) => /\ ValueOf(t, <<x>>) = Value(<<Plain(<<x>>)>>)
                                     /\ ValueOf(t, <<x, y>>) = Value(<<Plain(<<x>>), Plain(<<y>>)>>)
<1>1. /\ Len(<<x>>) = 1 /\ <<x>>[1] = x
      /\ Len(<<x, y>>) = 2 /\ <<x, y>>[1] = x /\ <<x, y>>[2] = y
    OBVIOUS
<1>2. [i \in 1 .. 1 |-> Plain(<< <<x>>[i] >>)] = <<Plain(<<x>>)>>
    BY <1>1
<1>3. [i \in 1 .. 2 |-> Plain(<< <<x, y>>[i] >>)] = <<Plain(<<x>>), Plain(<<y>>)>>
    BY <1>1
<1> QED
    BY <1>1, <1>2, <1>3 DEF ValueOf

\* The numbers of a struct of ints that was left by the march's own return.
LEMMA StructNumbers ==
    ASSUME NEW e, NEW s, fetch_epilogue_state(e.march, e.epilogue) = <<s>>,
           NEW n \in Nat \ {0}, Len(e.return_type.members) = n
    PROVE  LET v == fetch_struct_return_value(e)
           IN /\ v.known /\ Len(v.numbers) = n
              /\ n = 1 => v = Value(<<Plain(<<s.a0>>)>>)
              /\ n = 2 => v = Value(<<Plain(<<s.a0>>), Plain(<<s.a1>>)>>)
<1> DEFINE words == get_last_writes_to_mem_range(e.dwrites, s.a0, e.return_type.range)
<1> DEFINE few == [i \in 1 .. n |-> Plain(<<IF i = 1 THEN s.a0 ELSE s.a1>>)]
<1> DEFINE many == resolve_struct_memory_values(n, words)
<1>1. <<s>> # << >> /\ <<s>>[1] = s
    OBVIOUS
<1>2. fetch_struct_return_value(e) = Value(IF n <= 2 THEN few ELSE many)
    BY <1>1 DEF fetch_struct_return_value
<1>3. Len(few) = n
    <2>1. few = [i \in 1 .. n |-> few[i]]
        OBVIOUS
    <2> HIDE DEF few
    <2> QED
        BY <2>1, ListIsSeq
<1>4. Len(many) = n
    <2>1. many = [i \in 1 .. n |-> many[i]]
        BY DEF resolve_struct_memory_values
    <2> HIDE DEF many
    <2> QED
        BY <2>1, ListIsSeq
<1>5. n = 1 => few = <<Plain(<<s.a0>>)>>
    OBVIOUS
<1>6. n = 2 => few = <<Plain(<<s.a0>>), Plain(<<s.a1>>)>>
    OBVIOUS
<1> HIDE DEF few, many
<1>7. \A w : Value(w).known /\ Value(w).numbers = w
    BY DEF Value
<1> QED
    BY <1>2, <1>3, <1>4, <1>5, <1>6, <1>7

\* The function that reads a value of some type.
LEMMA FetchOfType ==
    ASSUME NEW e, NEW s, fetch_epilogue_state(e.march, e.epilogue) = <<s>>, NEW type,
           NEW mapped, mapped = get_mapping_for_dwarf_base_type(type.name)
    PROVE  /\ type.class = "UnionType" =>
                 fetch_return_value(e, type) = fetch_union_return_value(s, e.dwrites, e.return_type)
           /\ type.class = "BaseType" =>
                 /\ mapped = "int" => fetch_return_value(e, type) = fetch_int_return_value(s)
                 /\ mapped = "long long" =>
                       fetch_return_value(e, type) = form_64_bit_value_from_regs_a0_and_a1(s)
                 /\ mapped = "float" =>
                       fetch_return_value(e, type) = fetch_float_return_value(e.march, s)
                 /\ mapped = "double" =>
                       fetch_return_value(e, type) = fetch_double_return_value(e.march, s)
                 /\ mapped = "long double" =>
                       fetch_return_value(e, type) = fetch_long_double_return_value(s, e.dwrites)
<1> DEFINE found == fetch_epilogue_state(e.march, e.epilogue)
<1>1. found # << >> /\ found[1] = s
    OBVIOUS
<1>2. CASE type.class = "UnionType"
    <2>1. /\ type.class # "StructType" /\ type.class \in {"BaseType", "UnionType"}
          /\ type.class # "BaseType"
        BY <1>2
    <2>2. fetch_return_value(e, type) = fetch_union_return_value(found[1], e.dwrites, e.return_type)
        BY <1>1, <1>2, <2>1 DEF fetch_return_value
    <2> QED
        BY <1>1, <2>1, <2>2, Zenon
<1>3. CASE type.class = "BaseType"
    <2>1. /\ type.class # "StructType" /\ type.class \in {"BaseType", "UnionType"}
          /\ type.class # "UnionType"
        BY <1>3
    <2>2. CASE mapped = "int"
        BY <1>1, <1>3, <2>1, <2>2, Zenon DEF fetch_return_value
    <2>3. CASE mapped = "long long"
        BY <1>1, <1>3, <2>1, <2>3, Zenon DEF fetch_return_value
    <2>4. CASE mapped = "float"
        BY <1>1, <1>3, <2>1, <2>4, Zenon DEF fetch_return_value
    <2>5. CASE mapped = "double"
        BY <1>1, <1>3, <2>1, <2>5, Zenon DEF fetch_return_value
    <2>6. CASE mapped = "long double"
        BY <1>1, <1>3, <2>1, <2>6, Zenon DEF fetch_return_value
    <2> QED
        BY <1>3, <2>2, <2>3, <2>4, <2>5, <2>6, Zenon
<1>4. type.class = "UnionType" => type.class # "BaseType"
    OBVIOUS
<1> QED
    BY <1>2, <1>3, <1>4, Zenon

\* What was left by the march's own return is read from the registers that the
\* ABI puts it into.
LEMMA ValueInRegisters ==
    ASSUME NEW t \in Dies, Returnable(t), ~ InMemory(t),
           NEW e, e.return_type = TypeOf(t),
           NEW s, fetch_epilogue_state(e.march, e.epilogue) = <<s>>
    PROVE  fetch_return_value(e, TypeOf(t)) = ValueOf(t, WordsOf(e.march, t, s))
<1> DEFINE die == TypeDie[t]
<1> DEFINE type == TypeOf(t)
<1> DEFINE mapped == get_mapping_for_dwarf_base_type(die.name)
<1> DEFINE w == WordsOf(e.march, t, s)
<1>1. <<s>> # << >> /\ <<s>>[1] = s
    OBVIOUS
<1>2. ~ (die.size > 8)
    BY DEF InMemory
<1>3. \A x, y : /\ ReadAsFloating(t) => /\ ValueOf(t, <<x>>) = Value(<<Float(x)>>)
                                         /\ ValueOf(t, <<x, y>>) = Value(<<Double(x, y)>>)
                /\ ~ ReadAsFloating(t) =>
                      /\ ValueOf(t, <<x>>) = Value(<<Plain(<<x>>)>>)
                      /\ ValueOf(t, <<x, y>>) = Value(<<Plain(<<x>>), Plain(<<y>>)>>)
    BY ValueOfWords
<1>7. type.class \in {"BaseType", "UnionType", "StructType"}
    BY ReturnableResolved
<1> DEFINE value == fetch_return_value(e, type)
<1> SUFFICES value = ValueOf(t, w)
    OBVIOUS
<1> HIDE DEF w, type, value
<1>4. CASE /\ die.tag = "base" /\ type.class = "BaseType" /\ type.name = die.name
           /\ die.size \in SizesOfBase(mapped)
    <2>1. /\ mapped = "float" <=> die.name = "float"
          /\ mapped = "double" <=> die.name = "double"
        BY DEF get_mapping_for_dwarf_base_type
    <2>3. IsFloating(t) <=> mapped \in {"float", "double"}
        BY <1>4, <2>1 DEF IsFloating
    <2>9. /\ get_mapping_for_dwarf_base_type(type.name) = mapped
          /\ type.class # "StructType" /\ type.class # "UnionType" /\ type.class = "BaseType"
        BY <1>4
    <2> HIDE DEF mapped
    <2>2. \/ mapped = "int" /\ die.size \in 1 .. 4
          \/ mapped = "float" /\ die.size = 4
          \/ mapped \in {"long long", "double"} /\ die.size = 8
        <3> DEFINE size == die.size
        <3>1. size \in SizesOfBase(mapped) /\ ~ (size > 8)
            BY <1>2, <1>4 DEF mapped
        <3> HIDE DEF size
        <3>2. SizesOfBase("long double") = {16}
            BY DEF SizesOfBase
        <3>3. mapped \notin {"int", "float", "long long", "double", "long double"} =>
                 SizesOfBase(mapped) = {}
            BY DEF SizesOfBase
        <3>4. /\ SizesOfBase("int") = 1 .. 4 /\ SizesOfBase("float") = {4}
              /\ SizesOfBase("long long") = {8} /\ SizesOfBase("double") = {8}
            BY DEF SizesOfBase
        <3>5. mapped # "long double"
            <4>1. \A x : ~ (x > 8) => x \notin {16}
                OBVIOUS
            <4> QED
                BY <3>1, <3>2, <4>1, Zenon
        <3> QED
            BY <3>1, <3>3, <3>4, <3>5 DEF size
    <2>4. /\ mapped = "int" => value = fetch_int_return_value(s)
          /\ mapped = "long long" => value = form_64_bit_value_from_regs_a0_and_a1(s)
          /\ mapped = "float" => value = fetch_float_return_value(e.march, s)
          /\ mapped = "double" => value = fetch_double_return_value(e.march, s)
        BY <2>9, FetchOfType DEF value
    <2>5. CASE mapped = "int" /\ die.size \in 1 .. 4
        <3>1. ~ ReadAsFloating(t) /\ w = <<s.a0>>
            BY <2>3, <2>5 DEF ReadAsFloating, WordsOf, w
        <3>2. value = Value(<<Plain(<<s.a0>>)>>)
            BY <2>4, <2>5 DEF fetch_int_return_value
        <3> QED
            BY <3>1, <3>2, <1>3
    <2>6. CASE mapped = "float" /\ die.size = 4
        <3> DEFINE x == IF HasFloatRegisters(e.march) THEN s.fa0[1] ELSE s.a0
        <3>1. ReadAsFloating(t) /\ w = <<x>>
            BY <2>3, <2>6 DEF ReadAsFloating, WordsOf, w
        <3>2. value = Value(<<Float(x)>>)
            BY <2>4, <2>6 DEF fetch_float_return_value
        <3> QED
            BY <3>1, <3>2, <1>3
    <2>7. CASE mapped = "long long" /\ die.size = 8
        <3>1. ~ IsFloating(t)
            BY <2>3, <2>7, Zenon
        <3>5. die.size = 8
            BY <2>7, Zenon
        <3>3. ReadAsFloating(t)
            BY <1>4, <3>5 DEF ReadAsFloating
        <3>4. w = <<s.a0, s.a1>>
            BY <3>1, <3>5 DEF WordsOf, w
        <3>2. value = Value(<<Double(s.a0, s.a1)>>)
            BY <2>4, <2>7 DEF form_64_bit_value_from_regs_a0_and_a1
        <3> QED
            BY <3>2, <3>3, <3>4, <1>3
    <2>8. CASE mapped = "double" /\ die.size = 8
        <3>1. ReadAsFloating(t)
            BY <2>3, <2>8 DEF ReadAsFloating
        <3>2. value = fetch_double_return_value(e.march, s)
            BY <2>4, <2>8
        <3>3. CASE HasFloatRegisters(e.march)
            <4>1. w = <<s.fa0[1], s.fa0[2]>>
                BY <2>3, <2>8, <3>3 DEF WordsOf, w
            <4>2. value = Value(<<Double(s.fa0[1], s.fa0[2])>>)
                BY <3>2, <3>3 DEF fetch_double_return_value
            <4> QED
                BY <3>1, <4>1, <4>2, <1>3
        <3>4. CASE ~ HasFloatRegisters(e.march)
            <4>1. w = <<s.a0, s.a1>>
                BY <2>3, <2>8, <3>4 DEF WordsOf, w
            <4>2. value = Value(<<Double(s.a0, s.a1)>>)
                BY <3>2, <3>4 DEF fetch_double_return_value, form_64_bit_value_from_regs_a0_and_a1
            <4> QED
                BY <3>1, <4>1, <4>2, <1>3
        <3> QED
            BY <3>3, <3>4
    <2> QED
        BY <2>2, <2>5, <2>6, <2>7, <2>8
<1>5. CASE die.tag = "union" /\ type.class = "UnionType" /\ type.range = die.size /\ die.size \in Nat
    <2>1. ~ IsFloating(t)
        BY <1>5 DEF IsFloating
    <2>6. type.class # "StructType" /\ type.class = "UnionType" /\ e.return_type = type
        BY <1>5 DEF type
    <2>2. value = fetch_union_return_value(s, e.dwrites, type)
        BY <2>6, FetchOfType DEF value
    <2>3. die.size <= 8
        BY <1>2, <1>5
    <2>4. CASE die.size <= 4
        <3>1. ~ ReadAsFloating(t) /\ w = <<s.a0>>
            BY <1>5, <2>1, <2>4 DEF ReadAsFloating, WordsOf, w
        <3>2. value = Value(<<Plain(<<s.a0>>)>>)
            BY <1>5, <2>2, <2>4 DEF fetch_union_return_value, fetch_int_return_value
        <3> QED
            BY <3>1, <3>2, <1>3
    <2>5. CASE ~ (die.size <= 4)
        <3>1. ReadAsFloating(t) /\ w = <<s.a0, s.a1>>
            BY <1>5, <2>1, <2>5 DEF ReadAsFloating, WordsOf, w
        <3>2. value = Value(<<Double(s.a0, s.a1)>>)
            BY <1>5, <2>2, <2>3, <2>5 DEF fetch_union_return_value, form_64_bit_value_from_regs_a0_and_a1
        <3> QED
            BY <3>1, <3>2, <1>3
    <2> QED
        BY <2>4, <2>5
<1>6. CASE /\ die.tag = "structure" /\ type.class = "StructType" /\ type.range = die.size
           /\ Len(type.members) \in Nat \ {0} /\ die.size = 4 * Len(type.members)
    <2> DEFINE n == Len(type.members)
    <2>1. ~ ReadAsFloating(t) /\ ~ IsFloating(t)
        BY <1>6 DEF IsFloating, ReadAsFloating
    <2>2. n \in {1, 2} /\ (n = 1 => die.size <= 4) /\ (n = 2 => ~ (die.size <= 4))
        <3>1. n \in Nat \ {0} /\ die.size = 4 * n
            BY <1>6
        <3> HIDE DEF n, die
        <3> QED
            BY <1>2, <3>1
    <2>3. value = fetch_struct_return_value(e)
        BY <1>6 DEF fetch_return_value, value
    <2>4. /\ n = 1 => fetch_struct_return_value(e) = Value(<<Plain(<<s.a0>>)>>)
          /\ n = 2 => fetch_struct_return_value(e) = Value(<<Plain(<<s.a0>>), Plain(<<s.a1>>)>>)
        BY <1>6, StructNumbers DEF type
    <2>5. w = IF n = 1 THEN <<s.a0>> ELSE <<s.a0, s.a1>>
        BY <2>1, <2>2 DEF WordsOf, w
    <2> HIDE DEF n
    <2> QED
        BY <2>1, <2>2, <2>3, <2>4, <2>5, <1>3
<1> QED
    BY <1>4, <1>5, <1>6, ReturnableResolved DEF type

\* What was left in another way is not read.
LEMMA ValueUnread ==
    ASSUME NEW t \in Dies, Returnable(t), NEW e, e.return_type = TypeOf(t),
           fetch_epilogue_state(e.march, e.epilogue) = << >>
    PROVE  fetch_return_value(e, TypeOf(t)) =
              IF TypeDie[t].tag = "structure" THEN Value(<< >>) ELSE NoValue
<1>1. CASE TypeDie[t].tag = "structure"
    <2>1. TypeOf(t).class = "StructType"
        BY <1>1, ReturnableResolved
    <2>2. fetch_return_value(e, TypeOf(t)) = fetch_struct_return_value(e)
        BY <2>1 DEF fetch_return_value
    <2> QED
        BY <1>1, <2>2 DEF fetch_struct_return_value
<1>2. CASE TypeDie[t].tag # "structure"
    <2>1. TypeOf(t).class # "StructType"
        BY <1>2, ReturnableResolved
    <2> QED
        BY <1>2, <2>1 DEF fetch_return_value
<1> QED
    BY <1>1, <1>2

\* The verdict on values that were read from registers is that of the ABI's words.
LEMMA VerdictInRegisters ==
    ASSUME NEW t \in Dies, Returnable(t), ~ InMemory(t),
           NEW a, a.return_type = TypeOf(t), NEW b, b.return_type = TypeOf(t),
           NEW r, fetch_epilogue_state(a.march, a.epilogue) = <<r>>,
           NEW s, fetch_epilogue_state(b.march, b.epilogue) = <<s>>
    PROVE  compare_return_values(a, b) =
              IF SameNumber(t, WordsOf(a.march, t, r), WordsOf(b.march, t, s)) THEN "OK" ELSE "FAIL"
<1> DEFINE v == WordsOf(a.march, t, r)
<1> DEFINE w == WordsOf(b.march, t, s)
<1>1. /\ fetch_return_value(a, TypeOf(t)) = ValueOf(t, v)
      /\ fetch_return_value(b, TypeOf(t)) = ValueOf(t, w)
    BY ValueInRegisters
<1>2. TypeOf(t).class # "None"
    BY ReturnableResolved
<1>3. \E x, y, p, q : (v = <<x>> /\ w = <<y>>) \/ (v = <<x, p>> /\ w = <<y, q>>)
    <2>1. \E x, y, p, q :
             /\ v = IF TypeDie[t].size <= 4 THEN <<x>> ELSE <<x, p>>
             /\ w = IF TypeDie[t].size <= 4 THEN <<y>> ELSE <<y, q>>
        BY Zenon DEF WordsOf
    <2> HIDE DEF v, w
    <2> QED
        BY <2>1
<1> SUFFICES compare_return_values(a, b) = IF SameNumber(t, v, w) THEN "OK" ELSE "FAIL"
    OBVIOUS
<1> HIDE DEF v, w
<1>4. /\ ValueOf(t, v).known /\ ValueOf(t, w).known
      /\ Differ(ValueOf(t, v), ValueOf(t, w)) <=> ~ SameNumber(t, v, w)
    BY <1>3, DifferingValues
<1>5. compare_return_values(a, b) =
         IF Differ(ValueOf(t, v), ValueOf(t, w)) THEN "FAIL" ELSE "OK"
    BY <1>1, <1>2, <1>4, VerdictOfValues
<1> QED
    BY <1>4, <1>5

\* A struct that was left by the march's own return has numbers.
LEMMA StructIsRead ==
    ASSUME NEW t \in Dies, Returnable(t), TypeDie[t].tag = "structure",
           NEW e, e.return_type = TypeOf(t),
           NEW s, fetch_epilogue_state(e.march, e.epilogue) = <<s>>
    PROVE  LET v == fetch_return_value(e, TypeOf(t))
           IN v.known /\ Len(v.numbers) \in Nat \ {0}
<1>1. TypeOf(t).class = "StructType" /\ Len(TypeOf(t).members) \in Nat \ {0}
    BY ReturnableResolved
<1>2. fetch_return_value(e, TypeOf(t)) = fetch_struct_return_value(e)
    BY <1>1 DEF fetch_return_value
<1> QED
    BY <1>1, <1>2, StructNumbers

\* The verdict where one side was left in another way, or both.
LEMMA VerdictUnread ==
    ASSUME NEW t \in Dies, Returnable(t),
           NEW a, a.return_type = TypeOf(t), NEW b, b.return_type = TypeOf(t),
           NEW r, NEW s, NEW left \in BOOLEAN, NEW right \in BOOLEAN, ~ (left /\ right),
           fetch_epilogue_state(a.march, a.epilogue) = IF left THEN <<r>> ELSE << >>,
           fetch_epilogue_state(b.march, b.epilogue) = IF right THEN <<s>> ELSE << >>
    PROVE  compare_return_values(a, b) =
              IF TypeDie[t].tag # "structure" THEN "NA"
              ELSE IF ~ left /\ ~ right THEN "OK" ELSE "FAIL"
<1> DEFINE v == fetch_return_value(a, TypeOf(t))
<1> DEFINE w == fetch_return_value(b, TypeOf(t))
<1>1. /\ v.known /\ w.known =>
            compare_return_values(a, b) = IF Differ(v, w) THEN "FAIL" ELSE "OK"
      /\ ~ v.known \/ ~ w.known => compare_return_values(a, b) = "NA"
    <2>1. TypeOf(t).class # "None"
        BY ReturnableResolved
    <2> QED
        BY <2>1, VerdictOfValues
<1>2. /\ ~ left => v = IF TypeDie[t].tag = "structure" THEN Value(<< >>) ELSE NoValue
      /\ ~ right => w = IF TypeDie[t].tag = "structure" THEN Value(<< >>) ELSE NoValue
    BY ValueUnread
<1>3. TypeDie[t].tag = "structure" =>
         /\ left => v.known /\ Len(v.numbers) \in Nat \ {0}
         /\ right => w.known /\ Len(w.numbers) \in Nat \ {0}
    BY StructIsRead
<1>4. ~ NoValue.known /\ Value(<< >>).known /\ Value(<< >>).numbers = << >>
    BY DEF NoValue, Value
<1>5. Len(<< >>) = 0 /\ DOMAIN << >> = {}
    OBVIOUS
<1> HIDE DEF v, w
<1>6. CASE TypeDie[t].tag # "structure"
    BY <1>1, <1>2, <1>4, <1>6
<1>7. CASE TypeDie[t].tag = "structure" /\ ~ left /\ ~ right
    <2>1. v = Value(<< >>) /\ w = Value(<< >>)
        BY <1>2, <1>7
    <2>2. ~ Differ(v, w)
        BY <1>4, <1>5, <2>1 DEF Differ
    <2> QED
        BY <1>1, <1>4, <1>7, <2>1, <2>2
<1>8. CASE TypeDie[t].tag = "structure" /\ (left \/ right)
    <2>1. v.known /\ w.known /\ Len(v.numbers) # Len(w.numbers)
        BY <1>2, <1>3, <1>4, <1>5, <1>8
    <2>2. Differ(v, w)
        BY <2>1 DEF Differ
    <2> QED
        BY <1>1, <1>8, <2>1, <2>2
<1> QED
    BY <1>6, <1>7, <1>8

\* What is no scalar, struct or union is not compared.
LEMMA VerdictOnNoValue ==
    ASSUME NEW t \in Dies, ~ IsValue(t), NEW a, a.return_type = TypeOf(t), NEW b
    PROVE  compare_return_values(a, b) = "NA"
<1>1. TypeOf(t).class \notin {"BaseType", "StructType", "UnionType"}
    BY NoValueResolved
<1>2. fetch_return_value(a, TypeOf(t)) = NoValue
    BY <1>1 DEF fetch_return_value
<1>3. ~ NoValue.known
    BY DEF NoValue
<1> QED
    BY <1>2, <1>3, VerdictOfValues

\* A verdict on a return value in registers says whether the ABI's registers
\* held the same value on both sides, of the type that the function returns
\* (compare_return_values, fetch_return_value, march/rv32*.py).
THEOREM ReturnsInRegisters == CaseSpec => []ReturnInRegistersExact
<1>1. ReturnInv => ReturnInRegistersExact
    <2> SUFFICES ASSUME ReturnInv, stage = "verify", NEW k \in DOMAIN verification_entries,
                        SameFunction(k)
                 PROVE  LET verdict == verification_entries[k].return_value
                            t == ReturnType(Gr, k)
                            unread == { c \in Sides : ~ LeftByItsReturn(c, k) }
                        IN /\ ~ IsValue(t) => verdict = "NA"
                           /\ Returnable(t) /\ TypeDie[t].tag # "structure" /\ unread # {} =>
                                verdict = "NA"
                           /\ /\ Returnable(t) /\ ~ InMemory(t) /\ unread = {}
                              /\ ~ \E c \in Sides : Unchanged(c, t, k)
                              => verdict = IF SameNumber(t, AbiWords(Gr, t, k), AbiWords(Uv, t, k))
                                          THEN "OK" ELSE "FAIL"
        BY DEF ReturnInRegistersExact
    <2> DEFINE verdict == verification_entries[k].return_value
    <2> DEFINE t == ReturnType(Gr, k)
    <2> DEFINE unread == { c \in Sides : ~ LeftByItsReturn(c, k) }
    <2> DEFINE a == Entries(Gr)[k]
    <2> DEFINE b == Entries(Uv)[k]
    <2> DEFINE r == Call(Gr, k).state
    <2> DEFINE s == Call(Uv, k).state
    <2> DEFINE left == LeftByItsReturn(Gr, k)
    <2> DEFINE right == LeftByItsReturn(Uv, k)
    <2>1. verdict = compare_return_values(a, b)
        BY ComparedEntries DEF ReturnInv, IsVerdict
    <2>2. t \in Dies /\ a.return_type = TypeOf(t) /\ b.return_type = TypeOf(t)
        BY ReturnOfEntry DEF SameFunction
    <2>3. /\ fetch_epilogue_state(a.march, a.epilogue) = IF left THEN <<r>> ELSE << >>
          /\ fetch_epilogue_state(b.march, b.epilogue) = IF right THEN <<s>> ELSE << >>
          /\ a.march = March(Gr) /\ b.march = March(Uv)
        BY ReturnOfEntry
    <2>4. /\ unread = {} <=> left /\ right
          /\ unread = Sides <=> ~ left /\ ~ right
        BY DEF Sides
    <2>5. left \in BOOLEAN /\ right \in BOOLEAN
        BY DEF LeftByItsReturn
    <2>6. /\ AbiWords(Gr, t, k) = WordsOf(March(Gr), t, r)
          /\ AbiWords(Uv, t, k) = WordsOf(March(Uv), t, s)
        BY DEF AbiWords
    <2> HIDE DEF verdict, t, unread, a, b, r, s, left, right
    <2>7. ~ IsValue(t) => verdict = "NA"
        BY <2>1, <2>2, VerdictOnNoValue
    <2>8. ASSUME Returnable(t), TypeDie[t].tag # "structure", unread # {}
          PROVE  verdict = "NA"
        <3>1. verdict = IF TypeDie[t].tag # "structure" THEN "NA"
                        ELSE IF ~ left /\ ~ right THEN "OK" ELSE "FAIL"
            BY <2>1, <2>2, <2>3, <2>4, <2>5, <2>8, VerdictUnread
        <3> QED
            BY <2>8, <3>1
    <2>9. ASSUME Returnable(t), unread = {}, ~ InMemory(t)
          PROVE  verdict = IF SameNumber(t, AbiWords(Gr, t, k), AbiWords(Uv, t, k))
                           THEN "OK" ELSE "FAIL"
        <3>1. /\ fetch_epilogue_state(a.march, a.epilogue) = <<r>>
              /\ fetch_epilogue_state(b.march, b.epilogue) = <<s>>
            BY <2>3, <2>4, <2>9
        <3>2. verdict = IF SameNumber(t, WordsOf(a.march, t, r), WordsOf(b.march, t, s))
                        THEN "OK" ELSE "FAIL"
            BY <2>1, <2>2, <2>9, <3>1, VerdictInRegisters
        <3> QED
            BY <2>3, <2>6, <3>2
    <2> QED
        BY <2>7, <2>8, <2>9 DEF verdict, t, unread
<1> QED
    BY <1>1, ReturnInductive, PTL

-----------------------------------------------------------------------------
(***************************************************************************)
(* What a call left behind the address in a0 is made of words, as if a     *)
(* variable were there.                                                    *)
(***************************************************************************)
ResultAt(start, n) ==
    [location |-> start, type |-> [class |-> "UnionType", base |-> 0, range |-> 4 * n]]

\* Its parts are its words.
LEMMA PartsOfResult ==
    ASSUME NEW start \in Nat, NEW n \in Nat
    PROVE  LET v == ResultAt(start, n)
           IN /\ IsSized(v) /\ Parts(v) = n /\ Step(v) = 4
              /\ \A p \in 0 .. (n - 1) : PartLen(v, p) = 4 /\ PartAt(v, p) = start + p * 4
<1> DEFINE v == ResultAt(start, n)
<1>1. /\ v.location = start /\ v.type.class = "UnionType"
      /\ v.type.base = 0 /\ v.type.range = 4 * n
    BY DEF ResultAt
<1> HIDE DEF v
<1>2. ~ IsArray(v)
    BY <1>1 DEF IsArray
<1>3. Step(v) = 4 /\ Parts(v) = (4 * n + 4 - 1) \div 4
    BY <1>1, <1>2 DEF Step, Parts, CeilQuotient, XLenBytes
<1>4. (4 * n + 4 - 1) \div 4 = n
    OBVIOUS
<1>5. ASSUME NEW p \in 0 .. (n - 1)
      PROVE  PartLen(v, p) = 4 /\ PartAt(v, p) = start + p * 4
    <2>1. ~ (4 * n - p * 4 < 4)
        OBVIOUS
    <2> QED
        BY <1>1, <1>3, <2>1 DEF PartLen, PartAt
<1>6. IsSized(v)
    BY <1>1 DEF IsSized
<1> QED
    BY <1>3, <1>4, <1>5, <1>6 DEF v

\* A call that stores there in words stores its parts.
LEMMA StoresInWords ==
    ASSUME NEW call, GoodStores(call.stores), NEW start \in Nat, NEW n \in Nat,
           \A s \in Range(call.stores) :
              (\E o \in 0 .. (4 * n - 1) : Covers(s, start + o)) =>
                  (s.address - start) % 4 = 0 /\ Len(s.data) = 4 /\ s.address >= start
    PROVE  InParts(call, ResultAt(start, n))
<1> DEFINE v == ResultAt(start, n)
<1>1. v.location = start /\ v.type.range = 4 * n
    BY DEF ResultAt
<1>2. /\ Parts(v) = n
      /\ \A p \in 0 .. (n - 1) : PartLen(v, p) = 4 /\ PartAt(v, p) = start + p * 4
    BY PartsOfResult
<1> SUFFICES InParts(call, v)
    OBVIOUS
<1> HIDE DEF v
<1>3. ASSUME NEW s \in Range(call.stores),
             NEW a \in start .. (start + 4 * n - 1), Covers(s, a)
      PROVE  \E p \in 0 .. (n - 1) : s.address = start + p * 4 /\ Len(s.data) = 4
    <2>1. PICK o \in 0 .. (4 * n - 1) : a = start + o
        <3> DEFINE o == a - start
        <3>1. o \in 0 .. (4 * n - 1) /\ a = start + o
            OBVIOUS
        <3> HIDE DEF o
        <3> QED
            BY <3>1
    <2>2. (s.address - start) % 4 = 0 /\ Len(s.data) = 4 /\ s.address >= start
        BY <1>3, <2>1
    <2>3. s.address \in Nat
        <3>1. PICK i \in DOMAIN call.stores : s = call.stores[i]
            BY DEF Range
        <3> QED
            BY <3>1, GoodStoresAre
    <2>4. s.address <= a
        BY <1>3 DEF Covers
    <2> DEFINE b == s.address
    <2>5. b \in Nat /\ b >= start /\ b <= a /\ (b - start) % 4 = 0
        BY <2>2, <2>3, <2>4
    <2> HIDE DEF b
    <2> DEFINE d == b - start
    <2>6. d \in Nat /\ d % 4 = 0 /\ d < 4 * n
        BY <2>5
    <2>7. b = start + d
        BY <2>5
    <2> HIDE DEF d
    <2> DEFINE p == d \div 4
    <2>8. p \in 0 .. (n - 1) /\ d = p * 4
        BY <2>6
    <2> HIDE DEF p
    <2> QED
        BY <2>2, <2>7, <2>8 DEF b
<1> QED
    BY <1>1, <1>2, <1>3 DEF InParts

\* The words of a result that a call left at start, << >> where it left none.
ResultWords(call, start, n) == PartData(call, ResultAt(start, n))

\* They are what is found there, and what is left of the stores.
LEMMA ResultIsWords ==
    ASSUME NEW call, GoodStores(call.stores), NEW start \in Nat, start >= LowestFound, NEW n \in Nat,
           InParts(call, ResultAt(start, n)),
           NEW d, Written(d, call.stores, Len(call.stores))
    PROVE  LET part == ResultWords(call, start, n)
           IN /\ ArePartsOf(part, n)
              /\ IsMadeOf(MemoryImage(call, start, 4 * n), part, ResultAt(start, n))
              /\ AreFound(d, start, n, part)
<1> DEFINE v == ResultAt(start, n)
<1> DEFINE part == ResultWords(call, start, n)
<1>1. IsSized(v) /\ Parts(v) = n
      /\ \A p \in 0 .. (n - 1) : PartLen(v, p) = 4 /\ PartAt(v, p) = start + p * 4
    BY PartsOfResult
<1>2. IsMadeOf(ImageOf(call, v), part, v)
    BY <1>1, MadeOfParts DEF ResultWords
<1>3. ImageOf(call, v) = MemoryImage(call, start, 4 * n)
    BY DEF ImageOf, ResultAt
<1>4. \A p \in 0 .. (n - 1) : part[p] = LastStoreAt(call, start + p * 4)
    BY <1>1 DEF ResultWords, PartData
<1> HIDE DEF v, part
<1>5. ArePartsOf(part, n)
    BY <1>1, <1>2 DEF IsMadeOf, ArePartsOf, DataWords
<1>6. ASSUME NEW p \in 0 .. (n - 1)
      PROVE  LET key == BareKey(start + p * 4)
             IN /\ key \in DOMAIN d <=> part[p] # << >>
                /\ key \in DOMAIN d => Last(d[key]).data = part[p]
    <2> DEFINE a == start + p * 4
    <2>1. a >= LowestFound
        <3> HIDE DEF LowestFound
        <3>1. LowestFound \in Int
            BY DEF LowestFound
        <3> QED
            BY <3>1
    <2>2. part[p] = LastStoreAt(call, a)
        BY <1>4
    <2> SUFFICES /\ BareKey(a) \in DOMAIN d <=> part[p] # << >>
                 /\ BareKey(a) \in DOMAIN d => Last(d[BareKey(a)]).data = part[p]
        OBVIOUS
    <2> HIDE DEF a
    <2>3. /\ BareKey(a) \in DOMAIN d <=> LastStoreAt(call, a) # << >> /\ a >= LowestFound
          /\ BareKey(a) \in DOMAIN d =>
                Last(d[BareKey(a)]) = [location |-> PaddedKey(a), data |-> LastStoreAt(call, a)]
        BY FoundIsLast
    <2> QED
        BY <2>1, <2>2, <2>3
<1> QED
    BY <1>2, <1>3, <1>5, <1>6 DEF AreFound, part, v

\* What is read of a value that was left in memory, from the words found there.
ValueIn(t, words, n) ==
    CASE TypeDie[t].tag = "union" ->
             LET found == WordsIn(words, n) IN Value([i \in DOMAIN found |-> Plain(found[i])])
      [] TypeDie[t].tag = "structure" ->
             Value(resolve_struct_memory_values(n, WordsIn(words, n)))
      [] TypeDie[t].tag = "base" ->
             IF \A p \in 0 .. (n - 1) : words[p] # << >>
             THEN Value([i \in 1 .. n |-> Plain(Significant(words[i - 1]))])
             ELSE NoValue

\* That is what fetch_return_value finds.
LEMMA ValueInMemory ==
    ASSUME NEW t \in Dies, Returnable(t), InMemory(t),
           NEW e, e.return_type = TypeOf(t),
           NEW s, fetch_epilogue_state(e.march, e.epilogue) = <<s>>,
           NEW n \in Nat, TypeDie[t].size \div 4 = n, NEW part,
           AreFound(e.dwrites, s.a0, n, part)
    PROVE  /\ fetch_return_value(e, TypeOf(t)) = ValueIn(t, part, n)
           /\ TypeDie[t].tag = "base" => n = 4 /\ TypeDie[t].size = 16
<1> DEFINE die == TypeDie[t]
<1> DEFINE type == TypeOf(t)
<1> DEFINE value == fetch_return_value(e, type)
<1>1. <<s>> # << >> /\ <<s>>[1] = s
    OBVIOUS
<1>2. die.size > 8
    BY DEF InMemory
<1>3. get_last_writes_to_mem_range(e.dwrites, s.a0, die.size) = WordsIn(part, n)
    BY WordsFound
<1> SUFFICES /\ value = ValueIn(t, part, n)
             /\ TypeDie[t].tag = "base" => n = 4 /\ TypeDie[t].size = 16
    OBVIOUS
<1> HIDE DEF type, value
<1>4. CASE die.tag = "union" /\ type.class = "UnionType" /\ type.range = die.size /\ die.size \in Nat
    <2>1. value = fetch_union_return_value(s, e.dwrites, type)
        BY <1>4, FetchOfType DEF value, type
    <2>2. ~ (die.size <= 4) /\ ~ (die.size <= 8)
        BY <1>2, <1>4
    <2> DEFINE found == get_last_writes_to_mem_range(e.dwrites, s.a0, die.size)
    <2>3. value = Value([i \in DOMAIN found |-> Plain(found[i])])
        BY <1>4, <2>1, <2>2 DEF fetch_union_return_value
    <2>4. ValueIn(t, part, n) =
             LET words == WordsIn(part, n) IN Value([i \in DOMAIN words |-> Plain(words[i])])
        BY <1>4 DEF ValueIn
    <2> QED
        BY <1>3, <1>4, <2>3, <2>4
<1>5. CASE /\ die.tag = "structure" /\ type.class = "StructType" /\ type.range = die.size
           /\ Len(type.members) \in Nat \ {0} /\ die.size = 4 * Len(type.members)
    <2> DEFINE m == Len(type.members)
    <2>1. value = fetch_struct_return_value(e)
        BY <1>5 DEF fetch_return_value, value
    <2>2. m = n /\ ~ (m <= 2) /\ m # 0
        <3>1. m \in Nat \ {0} /\ die.size = 4 * m /\ (4 * m) \div 4 = n /\ 4 * m > 8
            BY <1>2, <1>5
        <3> HIDE DEF m, die
        <3> QED
            BY <3>1
    <2>3. e.return_type = type
        BY DEF type
    <2>4. fetch_struct_return_value(e) =
             Value(resolve_struct_memory_values(m,
                       get_last_writes_to_mem_range(e.dwrites, s.a0, die.size)))
        BY <1>1, <1>5, <2>2, <2>3 DEF fetch_struct_return_value
    <2>5. ValueIn(t, part, n) = Value(resolve_struct_memory_values(n, WordsIn(part, n)))
        BY <1>5 DEF ValueIn
    <2> HIDE DEF m
    <2> QED
        BY <1>3, <1>5, <2>1, <2>2, <2>4, <2>5
<1>6. CASE /\ die.tag = "base" /\ type.class = "BaseType" /\ type.name = die.name
           /\ die.size \in SizesOfBase(get_mapping_for_dwarf_base_type(die.name))
    <2> DEFINE mapped == get_mapping_for_dwarf_base_type(die.name)
    <2>9. /\ get_mapping_for_dwarf_base_type(type.name) = mapped
          /\ type.class = "BaseType" /\ die.size \in SizesOfBase(mapped)
        BY <1>6
    <2> HIDE DEF mapped
    <2>1. mapped = "long double" /\ die.size = 16
        <3> DEFINE size == die.size
        <3>1. size \in SizesOfBase(mapped) /\ size > 8
            BY <1>2, <2>9
        <3> HIDE DEF size
        <3>2. \A x : x > 8 => x \notin 1 .. 4 /\ x \notin {4} /\ x \notin {8}
            OBVIOUS
        <3>3. mapped \notin {"int", "float", "long long", "double", "long double"} =>
                 SizesOfBase(mapped) = {}
            BY DEF SizesOfBase
        <3>4. /\ SizesOfBase("int") = 1 .. 4 /\ SizesOfBase("float") = {4}
              /\ SizesOfBase("long long") = {8} /\ SizesOfBase("double") = {8}
              /\ SizesOfBase("long double") = {16}
            BY DEF SizesOfBase
        <3>5. \A x : x \notin {}
            OBVIOUS
        <3>6. mapped = "long double"
            BY <3>1, <3>2, <3>3, <3>4, <3>5, Zenon
        <3>7. size \in {16}
            BY <3>1, <3>4, <3>6, Zenon
        <3> QED
            BY <3>6, <3>7, Zenon DEF size
    <2>2. die.size = 16
        BY <2>1, Zenon
    <2>3. n = 4
        BY <2>2
    <2>4. value = fetch_long_double_return_value(s, e.dwrites)
        <3>1. mapped = "long double" => value = fetch_long_double_return_value(s, e.dwrites)
            BY <2>9, FetchOfType DEF value
        <3> QED
            BY <2>1, <3>1, Zenon
    <2> DEFINE keys == [i \in 1 .. 4 |-> BareKey(s.a0 + (i - 1) * 4)]
    <2> DEFINE read == [i \in 1 .. 4 |-> Plain(Significant(Last(e.dwrites[keys[i]]).data))]
    <2> DEFINE words == [i \in 1 .. 4 |-> Plain(Significant(part[i - 1]))]
    <2>5. value = IF \A i \in 1 .. 4 : keys[i] \in DOMAIN e.dwrites THEN Value(read) ELSE NoValue
        BY <2>4 DEF fetch_long_double_return_value, XLenBytes
    <2>6. ASSUME NEW i \in 1 .. 4
          PROVE  /\ keys[i] \in DOMAIN e.dwrites <=> part[i - 1] # << >>
                 /\ keys[i] \in DOMAIN e.dwrites => Last(e.dwrites[keys[i]]).data = part[i - 1]
        <3> DEFINE p == i - 1
        <3>1. p \in 0 .. (n - 1) /\ keys[i] = BareKey(s.a0 + p * 4)
            BY <2>3
        <3> SUFFICES /\ keys[i] \in DOMAIN e.dwrites <=> part[p] # << >>
                     /\ keys[i] \in DOMAIN e.dwrites => Last(e.dwrites[keys[i]]).data = part[p]
            OBVIOUS
        <3> HIDE DEF p, keys
        <3> QED
            BY <3>1 DEF AreFound
    <2> HIDE DEF keys
    <2>7. (\A i \in 1 .. 4 : keys[i] \in DOMAIN e.dwrites) <=> \A p \in 0 .. (n - 1) : part[p] # << >>
        <3>1. ASSUME \A i \in 1 .. 4 : keys[i] \in DOMAIN e.dwrites, NEW p \in 0 .. (n - 1)
              PROVE  part[p] # << >>
            <4> DEFINE i == p + 1
            <4>1. i \in 1 .. 4 /\ i - 1 = p
                BY <2>3
            <4> HIDE DEF i
            <4>2. part[i - 1] # << >>
                BY <2>6, <3>1, <4>1
            <4> QED
                BY <4>1, <4>2
        <3>2. ASSUME \A p \in 0 .. (n - 1) : part[p] # << >>, NEW i \in 1 .. 4
              PROVE  keys[i] \in DOMAIN e.dwrites
            <4>1. i - 1 \in 0 .. (n - 1)
                BY <2>3
            <4> QED
                BY <2>6, <3>2, <4>1
        <3> QED
            BY <3>1, <3>2
    <2>8. (\A i \in 1 .. 4 : keys[i] \in DOMAIN e.dwrites) => read = words
        BY <2>6
    <2>10. ValueIn(t, part, n) =
              IF \A p \in 0 .. (n - 1) : part[p] # << >> THEN Value(words) ELSE NoValue
        BY <1>6, <2>3 DEF ValueIn
    <2> HIDE DEF read, words
    <2> QED
        BY <2>2, <2>3, <2>5, <2>7, <2>8, <2>10
<1> QED
    BY <1>4, <1>5, <1>6, ReturnableResolved DEF type

\* Where the same words were found, the values differ if the words do, unless a
\* word of a scalar is missing.
LEMMA DifferingResults ==
    ASSUME NEW t, TypeDie[t].tag \in {"base", "structure", "union"}, NEW n \in Nat,
           NEW P, NEW Q, ArePartsOf(P, n), ArePartsOf(Q, n),
           SameFound(P, Q, n)
    PROVE  LET a == ValueIn(t, P, n)
               b == ValueIn(t, Q, n)
           IN IF TypeDie[t].tag = "base" /\ \E p \in 0 .. (n - 1) : P[p] = << >>
              THEN ~ a.known
              ELSE a.known /\ b.known /\ (Differ(a, b) <=> \E p \in 0 .. (n - 1) : P[p] # Q[p])
<1> DEFINE a == ValueIn(t, P, n)
<1> DEFINE b == ValueIn(t, Q, n)
<1> DEFINE v == WordsIn(P, n)
<1> DEFINE w == WordsIn(Q, n)
<1>1. /\ v \in Seq(DataWords) /\ w \in Seq(DataWords)
      /\ Len(v) <= n /\ Len(v) = Len(w)
      /\ v # w <=> \E p \in 0 .. (n - 1) : P[p] # Q[p]
    BY WordsOfParts
<1>2. CASE TypeDie[t].tag = "union"
    <2>1. /\ a = Value([i \in DOMAIN v |-> Plain(v[i])])
          /\ b = Value([i \in DOMAIN w |-> Plain(w[i])])
        BY <1>2 DEF ValueIn
    <2> HIDE DEF a, b, v, w
    <2>2. a.known /\ b.known /\ (Differ(a, b) <=> v # w)
        BY <1>1, <2>1, DifferingLists DEF IsSeq
    <2> QED
        BY <1>1, <1>2, <2>2 DEF a, b
<1>3. CASE TypeDie[t].tag = "structure"
    <2>1. /\ a = Value(resolve_struct_memory_values(n, v))
          /\ b = Value(resolve_struct_memory_values(n, w))
        BY <1>3 DEF ValueIn
    <2> HIDE DEF a, b, v, w
    <2>2. a.known /\ b.known /\ (Differ(a, b) <=> v # w)
        BY <1>1, <2>1, DifferingStructs
    <2> QED
        BY <1>1, <1>3, <2>2 DEF a, b
<1>4. CASE TypeDie[t].tag = "base" /\ \E p \in 0 .. (n - 1) : P[p] = << >>
    <2>1. a = NoValue
        BY <1>4 DEF ValueIn
    <2> QED
        BY <1>4, <2>1 DEF NoValue
<1>5. CASE TypeDie[t].tag = "base" /\ \A p \in 0 .. (n - 1) : P[p] # << >>
    <2> DEFINE x == [i \in 1 .. n |-> Plain(Significant(P[i - 1]))]
    <2> DEFINE y == [i \in 1 .. n |-> Plain(Significant(Q[i - 1]))]
    <2>1. \A p \in 0 .. (n - 1) : P[p] \in DataWords /\ Q[p] \in DataWords
        BY <1>5 DEF ArePartsOf, SameFound
    <2>2. a = Value(x) /\ b = Value(y)
        BY <1>5 DEF ValueIn, SameFound
    <2>3. IsSeq(x) /\ IsSeq(y) /\ Len(x) = n /\ Len(y) = n
        <3>1. x = [i \in 1 .. n |-> x[i]] /\ y = [i \in 1 .. n |-> y[i]]
            OBVIOUS
        <3> HIDE DEF x, y
        <3> QED
            BY <3>1, ListIsSeq
    <2>4. ASSUME NEW i \in 1 .. n
          PROVE  /\ ~ x[i].nan /\ ~ y[i].nan
                 /\ x[i].bits # y[i].bits <=> P[i - 1] # Q[i - 1]
        <3> DEFINE p == P[i - 1]
        <3> DEFINE q == Q[i - 1]
        <3>1. x[i] = Plain(Significant(p)) /\ y[i] = Plain(Significant(q))
            OBVIOUS
        <3>2. p \in DataWords /\ q \in DataWords
            BY <2>1
        <3> SUFFICES /\ ~ x[i].nan /\ ~ y[i].nan
                     /\ x[i].bits # y[i].bits <=> p # q
            OBVIOUS
        <3> HIDE DEF x, y, p, q
        <3>3. Significant(p) = Significant(q) <=> p = q
            <4>1. p \in Seq(0 .. 255) /\ q \in Seq(0 .. 255) /\ Len(p) = Len(q)
                BY <3>2 DEF DataWords
            <4> QED
                BY <4>1, SignificantInjective
        <3>4. /\ x[i].nan = FALSE /\ y[i].nan = FALSE
              /\ x[i].bits = Significant(p) /\ y[i].bits = Significant(q)
            BY <3>1 DEF Plain
        <3> QED
            BY <3>3, <3>4
    <2> HIDE DEF x, y
    <2>5. /\ Value(x).known /\ Value(y).known
          /\ Differ(Value(x), Value(y)) <=> \E i \in 1 .. n : P[i - 1] # Q[i - 1]
        <3>1. /\ Value(x).known /\ Value(y).known
              /\ Differ(Value(x), Value(y)) <=>
                    \E i \in 1 .. Len(x) : x[i].nan \/ y[i].nan \/ x[i].bits # y[i].bits
            BY <2>3, DifferingNumbers
        <3>2. Len(x) = n
            BY <2>3
        <3> QED
            BY <2>4, <3>1, <3>2
    <2>6. (\E i \in 1 .. n : P[i - 1] # Q[i - 1]) <=> \E p \in 0 .. (n - 1) : P[p] # Q[p]
        <3>1. \A i \in 1 .. n : i - 1 \in 0 .. (n - 1)
            OBVIOUS
        <3>2. ASSUME NEW p \in 0 .. (n - 1), P[p] # Q[p]
              PROVE  \E i \in 1 .. n : P[i - 1] # Q[i - 1]
            <4> DEFINE i == p + 1
            <4>1. i \in 1 .. n /\ i - 1 = p
                OBVIOUS
            <4> HIDE DEF i
            <4> QED
                BY <3>2, <4>1
        <3> QED
            BY <3>1, <3>2
    <2> QED
        BY <1>5, <2>2, <2>5, <2>6
<1> QED
    BY <1>2, <1>3, <1>4, <1>5

\* Of four words fewer than sixteen bytes were stored if one is missing.
LEMMA StoredOfFour ==
    ASSUME NEW start \in Nat, NEW image, NEW part, IsMadeOf(image, part, ResultAt(start, 4))
    PROVE  Cardinality(Stored(image)) < 16 <=> \E p \in 0 .. 3 : part[p] = << >>
<1> DEFINE v == ResultAt(start, 4)
<1>1. /\ v.type.range = 16 /\ Parts(v) = 4 /\ Step(v) = 4
      /\ \A p \in 0 .. 3 : PartLen(v, p) = 4
    BY PartsOfResult DEF ResultAt
<1>2. IsMadeOf(image, part, v)
    OBVIOUS
<1> HIDE DEF v
<1>3. DOMAIN image = 0 .. 15
    BY <1>1, <1>2, StoredParts
<1>4. \A p \in 0 .. 3 : \A x \in 0 .. 3 :
         /\ p * 4 + x \in 0 .. 15
         /\ image[p * 4 + x] = None <=> part[p] = << >>
    <2> TAKE p \in 0 .. 3
    <2> TAKE x \in 0 .. 3
    <2>1. p \in 0 .. (Parts(v) - 1) /\ x \in 0 .. (PartLen(v, p) - 1)
        <3>1. Parts(v) - 1 = 3 /\ PartLen(v, p) - 1 = 3
            BY <1>1
        <3> QED
            BY <3>1
    <2>2. /\ p * Step(v) + x \in 0 .. (v.type.range - 1)
          /\ image[p * Step(v) + x] = None <=> part[p] = << >>
        BY <1>2, <2>1, PartByte
    <2>3. v.type.range - 1 = 15 /\ Step(v) = 4
        BY <1>1
    <2> QED
        BY <2>2, <2>3
<1>5. Stored(image) \subseteq 0 .. 15
    BY <1>3 DEF Stored
<1>6. IsFiniteSet(0 .. 15) /\ Cardinality(0 .. 15) = 16
    <2>1. 0 \in Int /\ 15 \in Int /\ (IF 0 > 15 THEN 0 ELSE 15 - 0 + 1) = 16
        OBVIOUS
    <2>2. /\ IsFiniteSet(0 .. 15)
          /\ Cardinality(0 .. 15) = IF 0 > 15 THEN 0 ELSE 15 - 0 + 1
        BY <2>1, FS_Interval
    <2> QED
        BY <2>1, <2>2
<1>7. CASE \A p \in 0 .. 3 : part[p] # << >>
    <2>1. ASSUME NEW o \in 0 .. 15
          PROVE  o \in Stored(image)
        <3> DEFINE p == o \div 4
        <3> DEFINE x == o % 4
        <3>1. p \in 0 .. 3 /\ x \in 0 .. 3 /\ o = p * 4 + x
            OBVIOUS
        <3> HIDE DEF p, x
        <3>2. image[p * 4 + x] # None
            BY <1>4, <1>7, <3>1
        <3> QED
            BY <1>3, <3>1, <3>2 DEF Stored
    <2>2. Stored(image) = 0 .. 15
        BY <1>5, <2>1
    <2>3. Cardinality(Stored(image)) = 16
        BY <1>6, <2>2
    <2> QED
        BY <1>7, <2>3
<1>8. ASSUME NEW p \in 0 .. 3, part[p] = << >>
      PROVE  Cardinality(Stored(image)) < 16
    <2> DEFINE o == p * 4 + 0
    <2>1. o \in 0 .. 15 /\ image[o] = None
        BY <1>4, <1>8
    <2> HIDE DEF o
    <2>2. o \notin Stored(image)
        BY <2>1 DEF Stored
    <2>3. Stored(image) # 0 .. 15
        BY <2>1, <2>2
    <2> DEFINE stored == Stored(image)
    <2>4. stored \in SUBSET (0 .. 15) /\ stored # 0 .. 15
        BY <1>5, <2>3
    <2> HIDE DEF stored
    <2>5. /\ IsFiniteSet(stored) /\ Cardinality(stored) <= Cardinality(0 .. 15)
          /\ Cardinality(0 .. 15) # Cardinality(stored)
        BY <1>6, <2>4, FS_Subset
    <2>6. Cardinality(stored) \in Nat
        BY <2>5, FS_CardinalityType
    <2> QED
        BY <1>6, <2>5, <2>6 DEF stored
<1> QED
    BY <1>7, <1>8

\* The verdict on values that were read from memory.
LEMMA VerdictInMemory ==
    ASSUME NEW t \in Dies, Returnable(t), InMemory(t), NEW n \in Nat,
           NEW a, a.return_type = TypeOf(t), NEW b, b.return_type = TypeOf(t),
           NEW P, NEW Q, ArePartsOf(P, n), ArePartsOf(Q, n),
           SameFound(P, Q, n),
           fetch_return_value(a, TypeOf(t)) = ValueIn(t, P, n),
           fetch_return_value(b, TypeOf(t)) = ValueIn(t, Q, n)
    PROVE  compare_return_values(a, b) =
              IF TypeDie[t].tag = "base" /\ \E p \in 0 .. (n - 1) : P[p] = << >> THEN "NA"
              ELSE IF \A p \in 0 .. (n - 1) : P[p] = Q[p] THEN "OK" ELSE "FAIL"
<1> DEFINE v == ValueIn(t, P, n)
<1> DEFINE w == ValueIn(t, Q, n)
<1>1. TypeDie[t].tag \in {"base", "structure", "union"} /\ TypeOf(t).class # "None"
    BY ReturnableResolved
<1>2. IF TypeDie[t].tag = "base" /\ \E p \in 0 .. (n - 1) : P[p] = << >>
      THEN ~ v.known
      ELSE v.known /\ w.known /\ (Differ(v, w) <=> \E p \in 0 .. (n - 1) : P[p] # Q[p])
    BY <1>1, DifferingResults
<1>3. v = fetch_return_value(a, a.return_type) /\ w = fetch_return_value(b, a.return_type)
    OBVIOUS
<1> HIDE DEF v, w
<1>4. /\ ~ v.known \/ ~ w.known => compare_return_values(a, b) = "NA"
      /\ v.known /\ w.known => compare_return_values(a, b) = IF Differ(v, w) THEN "FAIL" ELSE "OK"
    BY <1>1, <1>3, VerdictOfValues
<1> QED
    BY <1>2, <1>4

\* What is larger than two words is a number of words, and perhaps some bytes.
LEMMA WordsOfType ==
    ASSUME NEW t \in Dies, Returnable(t), InMemory(t)
    PROVE  /\ TypeDie[t].size \in Nat /\ TypeDie[t].size \div 4 \in Nat
           /\ BytesRead(t) = 4 * (TypeDie[t].size \div 4)
<1> DEFINE size == TypeDie[t].size
<1>1. t \in DOMAIN TypeDie
    BY DEF Returnable, IsValue, Dies
<1>2. size \in Nat \cup {None}
    BY <1>1, TypeDieAssumption
<1>3. size > 8
    BY DEF InMemory
<1>4. BytesRead(t) = 4 * (size \div 4)
    BY DEF BytesRead
<1> HIDE DEF size
<1>5. size \in Nat
    BY <1>2, <1>3 DEF None
<1>6. size \div 4 \in Nat
    BY <1>5
<1> QED
    BY <1>4, <1>5, <1>6 DEF size

\* What one side left in memory: the words, the image they make, and the value
\* that is read of them.
LEMMA ResultOfCall ==
    ASSUME ReturnInv, stage = "verify", NEW k \in DOMAIN verification_entries, NEW c \in {Gr, Uv},
           NEW t, t = ReturnType(c, k), Returnable(t), InMemory(t),
           LeftByItsReturn(c, k), StoredInWords(c, t, k)
    PROVE  LET start == Call(c, k).state.a0
               n == TypeDie[t].size \div 4
               part == ResultWords(Call(c, k), start, n)
               e == Entries(c)[k]
           IN /\ start \in Nat
              /\ ArePartsOf(part, n)
              /\ IsMadeOf(AbiMemory(c, t, k), part, ResultAt(start, n))
              /\ e.return_type = TypeOf(t)
              /\ fetch_return_value(e, TypeOf(t)) = ValueIn(t, part, n)
              /\ TypeDie[t].tag = "base" => n = 4 /\ TypeDie[t].size = 16
<1> DEFINE call == Call(c, k)
<1> DEFINE state == call.state
<1> DEFINE start == state.a0
<1> DEFINE n == TypeDie[t].size \div 4
<1> DEFINE part == ResultWords(call, start, n)
<1> DEFINE e == Entries(c)[k]
<1>1. /\ fetch_epilogue_state(e.march, e.epilogue) = <<state>>
      /\ e.return_type = TypeOf(t) /\ t \in Dies
      /\ Written(e.dwrites, call.stores, Len(call.stores)) /\ GoodStores(call.stores)
    BY ReturnOfEntry
<1>2. n \in Nat /\ BytesRead(t) = 4 * n
    BY <1>1, WordsOfType
<1>3. /\ start >= LowestFound
      /\ \A s \in Range(call.stores) :
            (\E o \in 0 .. (4 * n - 1) : Covers(s, start + o)) =>
                (s.address - start) % 4 = 0 /\ Len(s.data) = 4 /\ s.address >= start
    BY <1>2 DEF StoredInWords
<1>4. start \in Nat
    <2>1. c \in DOMAIN built /\ k \in DOMAIN Entries(c)
        BY ComparedEntries DEF ReturnInv
    <2>2. k \in 1 .. Len(executed[c])
        BY <2>1, EntryOfCall DEF ReturnInv, CompleteInv
    <2>3. executed[c][k].state.a0 \in Int
        BY <2>2 DEF ReturnInv, KnownInv
    <2>4. start \in Int
        BY <2>3 DEF Call
    <2> HIDE DEF start
    <2> QED
        BY <1>3, <2>4 DEF LowestFound
<1>5. AbiMemory(c, t, k) = MemoryImage(call, start, 4 * n)
    BY <1>2 DEF AbiMemory
<1> HIDE DEF call, n, e
<1>6. InParts(call, ResultAt(start, n))
    <2> HIDE DEF start
    <2> QED
        BY <1>1, <1>2, <1>3, <1>4, StoresInWords
<1>7. /\ ArePartsOf(part, n)
      /\ IsMadeOf(MemoryImage(call, start, 4 * n), part, ResultAt(start, n))
      /\ AreFound(e.dwrites, start, n, part)
    <2> HIDE DEF start
    <2> QED
        BY <1>1, <1>2, <1>3, <1>4, <1>6, ResultIsWords
<1>8. /\ fetch_return_value(e, TypeOf(t)) = ValueIn(t, part, n)
      /\ TypeDie[t].tag = "base" => n = 4 /\ TypeDie[t].size = 16
    <2>1. TypeDie[t].size \div 4 = n
        BY DEF n
    <2>2. AreFound(e.dwrites, state.a0, n, part)
        BY <1>7
    <2>3. fetch_epilogue_state(e.march, e.epilogue) = <<state>> /\ e.return_type = TypeOf(t) /\ t \in Dies
        BY <1>1
    <2> HIDE DEF part, start, state
    <2> QED
        BY <1>2, <2>1, <2>2, <2>3, ValueInMemory
<1> QED
    BY <1>1, <1>4, <1>5, <1>7, <1>8 DEF call, n, e

\* A verdict on a return value in memory says whether the calls left the same
\* words there, of the type that the function returns (compare_return_values,
\* get_last_writes_to_mem_range, resolve_struct_memory_values).
THEOREM ReturnsInMemory == CaseSpec => []ReturnInMemoryExact
<1>1. ReturnInv => ReturnInMemoryExact
    <2> SUFFICES ASSUME ReturnInv, stage = "verify", NEW k \in DOMAIN verification_entries,
                        NEW t, t = ReturnType(Gr, k),
                        SameFunction(k), Returnable(t), InMemory(t),
                        \A c \in Sides : LeftByItsReturn(c, k),
                        Judgeable(t, k)
                 PROVE  verification_entries[k].return_value =
                            IF TypeDie[t].tag = "base"
                               /\ Cardinality(Stored(AbiMemory(Gr, t, k))) < TypeDie[t].size
                            THEN "NA"
                            ELSE IF AbiMemory(Gr, t, k) = AbiMemory(Uv, t, k) THEN "OK" ELSE "FAIL"
        BY DEF ReturnInMemoryExact
    <2> DEFINE n == TypeDie[t].size \div 4
    <2> DEFINE r == Call(Gr, k).state.a0
    <2> DEFINE s == Call(Uv, k).state.a0
    <2> DEFINE P == ResultWords(Call(Gr, k), r, n)
    <2> DEFINE Q == ResultWords(Call(Uv, k), s, n)
    <2> DEFINE a == Entries(Gr)[k]
    <2> DEFINE b == Entries(Uv)[k]
    <2> DEFINE image == AbiMemory(Gr, t, k)
    <2> DEFINE other == AbiMemory(Uv, t, k)
    <2> DEFINE verdict == verification_entries[k].return_value
    <2>1. t = ReturnType(Uv, k) /\ t \in Dies
        BY ReturnOfEntry DEF SameFunction
    <2>2. /\ StoredInWords(Gr, t, k) /\ StoredInWords(Uv, t, k)
          /\ LeftByItsReturn(Gr, k) /\ LeftByItsReturn(Uv, k)
          /\ Stored(image) = Stored(other)
        BY DEF Judgeable, Sides
    <2>3. /\ r \in Nat /\ ArePartsOf(P, n) /\ IsMadeOf(image, P, ResultAt(r, n))
          /\ a.return_type = TypeOf(t) /\ fetch_return_value(a, TypeOf(t)) = ValueIn(t, P, n)
          /\ TypeDie[t].tag = "base" => n = 4 /\ TypeDie[t].size = 16
        BY <2>2, ResultOfCall
    <2>4. /\ s \in Nat /\ ArePartsOf(Q, n) /\ IsMadeOf(other, Q, ResultAt(s, n))
          /\ b.return_type = TypeOf(t) /\ fetch_return_value(b, TypeOf(t)) = ValueIn(t, Q, n)
        BY <2>1, <2>2, ResultOfCall
    <2>5. n \in Nat
        BY <2>1, WordsOfType
    <2>6. verdict = compare_return_values(a, b)
        BY ComparedEntries DEF ReturnInv, IsVerdict
    <2> HIDE DEF n, r, s, P, Q, a, b, image, other, verdict
    <2>7. /\ image = other <=> \A p \in 0 .. (n - 1) : P[p] = Q[p]
          /\ SameFound(P, Q, n)
        <3>1. ResultAt(s, n).type = ResultAt(r, n).type
            BY DEF ResultAt
        <3>2. Parts(ResultAt(r, n)) = n
            BY <2>3, <2>5, PartsOfResult
        <3> DEFINE v == ResultAt(r, n)
        <3> DEFINE w == ResultAt(s, n)
        <3>3. IsMadeOf(image, P, v) /\ IsMadeOf(other, Q, w) /\ w.type = v.type /\ Parts(v) = n
            BY <2>3, <2>4, <3>1, <3>2
        <3> HIDE DEF v, w
        <3> QED
            BY <2>2, <3>3, ImagesByParts DEF SameFound
    <2>8. verdict = IF TypeDie[t].tag = "base" /\ \E p \in 0 .. (n - 1) : P[p] = << >> THEN "NA"
                    ELSE IF \A p \in 0 .. (n - 1) : P[p] = Q[p] THEN "OK" ELSE "FAIL"
        BY <2>1, <2>3, <2>4, <2>5, <2>6, <2>7, VerdictInMemory
    <2>9. TypeDie[t].tag = "base" =>
             (Cardinality(Stored(image)) < TypeDie[t].size <=> \E p \in 0 .. (n - 1) : P[p] = << >>)
        <3> SUFFICES ASSUME TypeDie[t].tag = "base"
                     PROVE  Cardinality(Stored(image)) < TypeDie[t].size <=>
                                \E p \in 0 .. (n - 1) : P[p] = << >>
            OBVIOUS
        <3>1. n = 4 /\ TypeDie[t].size = 16
            BY <2>3
        <3>2. IsMadeOf(image, P, ResultAt(r, 4))
            BY <2>3, <3>1
        <3>3. Cardinality(Stored(image)) < 16 <=> \E p \in 0 .. 3 : P[p] = << >>
            BY <2>3, <3>2, StoredOfFour
        <3>4. n - 1 = 3
            BY <3>1
        <3> QED
            BY <3>1, <3>3, <3>4
    <2>10. verdict = IF TypeDie[t].tag = "base" /\ Cardinality(Stored(image)) < TypeDie[t].size
                     THEN "NA" ELSE IF image = other THEN "OK" ELSE "FAIL"
        BY <2>7, <2>8, <2>9
    <2> QED
        BY <2>10 DEF verdict, image, other
<1> QED
    BY <1>1, ReturnInductive, PTL
=============================================================================
