-------------------------- MODULE DwarfExtraction --------------------------
(***************************************************************************)
(* DwarfInfoExtractor.extract_dwarf_info: the walk over the compilation    *)
(* units of one binary, and the DwarfInfo it fills.  One step is one DIE   *)
(* below a unit's top DIE, with all the DIEs the recursion visits for it.  *)
(*                                                                         *)
(* Any exception ends the pipeline (DWARFExtractionException), so what the *)
(* walk had filled in until then is not seen by anyone.  Subprograms are   *)
(* not nested, as in C.                                                    *)
(***************************************************************************)
EXTENDS DwarfTypes

CONSTANTS
    SourceFile,      \* args.src
    NoMarch,         \* a producer without -march=
    NoAddress,       \* no DW_AT_location with a DW_OP_addr, or no low_pc
    SupportedMarchs  \* MArchManager.supported_marchs

VARIABLES
    binary,          \* the debug information of the binary
    unit,            \* the compilation unit being walked
    child,           \* its child DIE, 0 for the top DIE
    dwarf_info,      \* the DwarfInfo being filled
    extraction       \* "walking", "extracted" or "raised"

extractVars == <<binary, unit, child, dwarf_info, extraction>>

NoDwarfInfo == [march |-> NoMarch, subprograms |-> << >>, globals |-> << >>]

StartExtraction(b) ==
    [binary |-> b, unit |-> 1, child |-> 0, dwarf_info |-> NoDwarfInfo,
     extraction |-> "walking"]

ExtractInit(binaries) ==
    /\ binary \in binaries
    /\ unit = 1 /\ child = 0
    /\ dwarf_info = NoDwarfInfo
    /\ extraction = "walking"

Unit == binary.units[unit]
Die == Unit.children[child]

AtTopDie == extraction = "walking" /\ unit <= Len(binary.units) /\ child = 0
AtDie == /\ extraction = "walking"
         /\ unit <= Len(binary.units)
         /\ child \in DOMAIN Unit.children

RaiseExtraction ==
    /\ extraction' = "raised"
    /\ UNCHANGED <<binary, unit, child, dwarf_info>>

\* CompileUnit.extract_core_information keeps what it does not find.  Every
\* unit's producer is read; only the units of the source file are walked.
extract_architecture_information ==
    /\ AtTopDie
    /\ Unit.has_producer
    /\ dwarf_info' = IF Unit.march = NoMarch THEN dwarf_info
                     ELSE [dwarf_info EXCEPT !.march = Unit.march]
    /\ IF Unit.file = SourceFile
       THEN child' = 1 /\ unit' = unit
       ELSE child' = 0 /\ unit' = unit + 1
    /\ UNCHANGED <<binary, extraction>>

MissingProducer ==
    /\ AtTopDie
    /\ ~ Unit.has_producer
    /\ RaiseExtraction

-----------------------------------------------------------------------------
\* A variable or parameter without DW_AT_type raises (KeyError).
VariableRaises(die) == extract_type_rec(die.type).class = "Raised"

VarOrParam(die) ==
    [name |-> die.name, location |-> die.location, type |-> extract_type_rec(die.type)]

\* The DIEs below a subprogram: variables are local there, and other tags,
\* nested blocks among them, are passed over.
ChildrenOf(die, tag) == SelectSeq(die.children, LAMBDA c : c.tag = tag)
Kept(dies) == [i \in DOMAIN dies |-> VarOrParam(dies[i])]
VariableTags == {"variable", "formal_parameter"}

\* Mutant: high_pc is always an offset.
HighPcIsOffset(die) == <<die.low_pc, die.low_pc + die.high_pc>>
get_low_and_high_pc(die) ==
    <<die.low_pc, IF die.high_pc_class = "address" THEN die.high_pc
                  ELSE die.low_pc + die.high_pc>>

\* Frame base rows are kept when they differ from the row before.
add_frame_base_info(infos, row) ==
    IF infos # << >> /\ Last(infos) = row THEN infos ELSE Append(infos, row)

Subprogram(die) ==
    LET pcs == get_low_and_high_pc(die)
    IN [name |-> die.name, low_pc |-> pcs[1], high_pc |-> pcs[2],
        type |-> IF die.type = NoDie THEN NoType ELSE extract_type_rec(die.type),
        formal_parameters |-> Kept(ChildrenOf(die, "formal_parameter")),
        local_variables |-> Kept(ChildrenOf(die, "variable")),
        frame_base_infos |-> << >>]

\* A declaration has no low_pc, and a return type may raise as well.
SubprogramRaises(die) ==
    \/ die.low_pc = NoAddress
    \/ die.type # NoDie /\ extract_type_rec(die.type).class = "Raised"
    \/ \E c \in Range(die.children) : c.tag \in VariableTags /\ VariableRaises(c)

\* subprograms[name] = subprogram: a dictionary keeps the place of a name.
add_subprogram(subprograms, s) ==
    IF \E i \in DOMAIN subprograms : subprograms[i].name = s.name
    THEN [i \in DOMAIN subprograms |->
             IF subprograms[i].name = s.name THEN s ELSE subprograms[i]]
    ELSE Append(subprograms, s)

NextDie ==
    /\ child' = child + 1
    /\ UNCHANGED <<binary, unit, extraction>>

ExtractSubprogram ==
    /\ AtDie
    /\ Die.tag = "subprogram"
    /\ Die.decl_file = 1
    /\ ~ SubprogramRaises(Die)
    /\ dwarf_info' = [dwarf_info EXCEPT !.subprograms = add_subprogram(@, Subprogram(Die))]
    /\ NextDie

ExtractGlobalVariable ==
    /\ AtDie
    /\ Die.tag = "variable"
    /\ ~ VariableRaises(Die)
    /\ dwarf_info' = [dwarf_info EXCEPT !.globals = Append(@, VarOrParam(Die))]
    /\ NextDie

\* Subprograms declared in another file, and tags that are not of interest.
PassOver ==
    /\ AtDie
    /\ \/ Die.tag = "subprogram" /\ Die.decl_file > 1
       \/ Die.tag \notin {"subprogram", "variable"}
    /\ UNCHANGED dwarf_info
    /\ NextDie

\* DW_AT_decl_file is read without asking whether it is there; 0 stands for
\* its absence, as in the out-of-line copy of an inlined function.
DieRaises ==
    /\ AtDie
    /\ \/ Die.tag = "subprogram" /\ Die.decl_file = 0
       \/ Die.tag = "subprogram" /\ Die.decl_file = 1 /\ SubprogramRaises(Die)
       \/ Die.tag = "variable" /\ VariableRaises(Die)
    /\ RaiseExtraction

EndUnit ==
    /\ extraction = "walking"
    /\ unit <= Len(binary.units)
    /\ child > Len(Unit.children)
    /\ unit' = unit + 1
    /\ child' = 0
    /\ UNCHANGED <<binary, dwarf_info, extraction>>

-----------------------------------------------------------------------------
\* The first subprogram with that low_pc, in insertion order.
get_subprogram_with_pc_as_low_pc(info, pc) ==
    LET with == { i \in DOMAIN info.subprograms : info.subprograms[i].low_pc = pc }
    IN IF with = {} THEN 0 ELSE CHOOSE i \in with : \A j \in with : i <= j

\* extract_cfa_register_values_and_offsets: a subprogram gets the rows of the
\* frame descriptions it is found for.
WithFrameBases(info, fdes) ==
    LET RowsOf(i) ==
            FlattenSeq([k \in DOMAIN fdes |->
                IF get_subprogram_with_pc_as_low_pc(info, fdes[k].initial_location) = i
                THEN fdes[k].rows ELSE << >>])
    IN [info EXCEPT !.subprograms =
           [i \in DOMAIN info.subprograms |->
               [info.subprograms[i] EXCEPT !.frame_base_infos =
                   FoldLeft(add_frame_base_info, @, RowsOf(i))]]]

march_is_supported(march) == march \in SupportedMarchs

AtEnd == extraction = "walking" /\ unit > Len(binary.units)

FinishExtraction ==
    /\ AtEnd
    /\ march_is_supported(dwarf_info.march)
    /\ dwarf_info' = WithFrameBases(dwarf_info, binary.fdes)
    /\ extraction' = "extracted"
    /\ UNCHANGED <<binary, unit, child>>

UnsupportedMarch ==
    /\ AtEnd
    /\ ~ march_is_supported(dwarf_info.march)
    /\ RaiseExtraction

ExtractNext ==
    \/ extract_architecture_information \/ MissingProducer
    \/ ExtractSubprogram \/ ExtractGlobalVariable \/ PassOver \/ DieRaises
    \/ EndUnit
    \/ FinishExtraction \/ UnsupportedMarch

\* str(dwarf_info), which the pipeline's debug message always builds.
IsWritable(info) ==
    /\ \A g \in Range(info.globals) : VariableIsWritable(g.type)
    /\ \A s \in Range(info.subprograms) :
           /\ SubprogramIsWritable(s.type)
           /\ \A p \in Range(s.formal_parameters) : VariableIsWritable(p.type)
           /\ \A v \in Range(s.local_variables) : VariableIsWritable(v.type)

\* Both ends of a subprogram's range count.
get_enclosing_subprogram(info, pc) ==
    LET with == { i \in DOMAIN info.subprograms :
                    info.subprograms[i].low_pc <= pc /\ pc <= info.subprograms[i].high_pc }
    IN IF with = {} THEN 0 ELSE CHOOSE i \in with : \A j \in with : i <= j

-----------------------------------------------------------------------------
(***************************************************************************)
(* Properties.                                                             *)
(***************************************************************************)

\* The DIEs of the walked units, in the order of the walk.
WalkedDies(b) ==
    FlattenSeq([u \in DOMAIN b.units |->
        IF b.units[u].file = SourceFile THEN b.units[u].children ELSE << >>])
FunctionsAmong(dies) ==
    FlattenSeq([i \in DOMAIN dies |->
        IF dies[i].tag = "subprogram" /\ dies[i].decl_file = 1 THEN <<dies[i]>> ELSE << >>])
VariablesAmong(dies) ==
    FlattenSeq([i \in DOMAIN dies |-> IF dies[i].tag = "variable" THEN <<dies[i]>> ELSE << >>])
OwnFunctions(b) == FunctionsAmong(WalkedDies(b))
GlobalDies(b) == VariablesAmong(WalkedDies(b))

\* What a compiler and a linker make: addresses are natural numbers where they
\* are given, types are among the type DIEs, and the code of a function, from
\* its low_pc to before its end, is its own.
CodeEnd(f) == IF f.high_pc_class = "address" THEN f.high_pc ELSE f.low_pc + f.high_pc
IsSequence(s) == s \in Seq(Range(s))
Apart(f, g) ==
    \/ NoAddress \in {f.low_pc, g.low_pc}
    \/ CodeEnd(f) <= g.low_pc
    \/ CodeEnd(g) <= f.low_pc
IsBinary(b) ==
    /\ IsSequence(b.units)
    /\ \A u \in Range(b.units) :
          /\ IsSequence(u.children)
          /\ \A d \in Range(u.children) :
                /\ d.tag = "variable" => /\ d.type \in DOMAIN TypeDie \cup {NoDie}
                                        /\ d.location \in Nat \cup {NoAddress}
                /\ d.tag = "subprogram" => /\ d.type \in DOMAIN TypeDie \cup {NoDie}
                                          /\ d.low_pc \in Nat \cup {NoAddress}
                                          /\ d.high_pc \in Nat
    /\ LET own == OwnFunctions(b)
       IN \A i, j \in DOMAIN own : i # j => Apart(own[i], own[j])

\* An address inside a function's code resolves to that function, whichever
\* form its high_pc has, unless a later unit of the same file name brings
\* another function of the same name: then the code of the earlier one
\* resolves to nothing (DwarfInfo.get_enclosing_subprogram over the
\* dictionary that add_subprogram fills).
CodeIsNamed ==
    extraction = "extracted" =>
        \A i \in DOMAIN OwnFunctions(binary) :
            LET f == OwnFunctions(binary)[i]
                redefined == \E j \in DOMAIN OwnFunctions(binary) :
                                 j > i /\ OwnFunctions(binary)[j].name = f.name
            IN \A pc \in (f.low_pc + 1) .. (CodeEnd(f) - 1) :
                  LET k == get_enclosing_subprogram(dwarf_info, pc)
                  IN IF redefined THEN k = 0
                     ELSE k # 0 /\ dwarf_info.subprograms[k].name = f.name

\* The DIEs that DW_AT_type leads to from t, t included, as long as the type
\* only qualifies, names, points to or repeats another one.
Qualifiers == {"const", "volatile", "typedef"}
Goes(tags, u) == u # NoDie /\ TypeDie[u].tag \in tags
LeadsBy(tags, t) ==
    LET Chain[n \in 0 .. Cardinality(DOMAIN TypeDie)] ==
            [u \in DOMAIN TypeDie \cup {NoDie} |->
                IF n = 0 \/ ~ Goes(tags, u) THEN {u}
                ELSE {u} \cup Chain[n - 1][TypeDie[u].type]]
    IN Chain[Cardinality(DOMAIN TypeDie)][t]
Leads(t) == LeadsBy(Qualifiers \cup {"pointer", "array"}, t)
TagsOf(t) == { TypeDie[u].tag : u \in Leads(t) \ {NoDie} }

\* The size the C compiler gives to an object of type t, None where it has
\* none; inner is the size of the type that t is made from.
ElementsIn(r) == IF r.count # None THEN r.count ELSE r.upper_bound + 1
SizeFrom(die, inner) ==
    LET elements == Product([i \in DOMAIN die.subranges |-> ElementsIn(die.subranges[i])])
    IN CASE die.tag = "pointer"      -> 4
         [] die.tag \in Qualifiers  -> inner
         [] die.tag = "array"        -> IF inner = None THEN None ELSE elements * inner
         [] OTHER                    -> die.size
SizeOf[n \in 0 .. Cardinality(DOMAIN TypeDie)] ==
    [t \in DOMAIN TypeDie \cup {NoDie} |->
        IF t = NoDie THEN None
        ELSE SizeFrom(TypeDie[t], IF n = 0 THEN None ELSE SizeOf[n - 1][TypeDie[t].type])]
CSize(t) == SizeOf[Cardinality(DOMAIN TypeDie)][t]

Nameless(t) ==
    \E u \in Leads(t) \ {NoDie} : TypeDie[u].tag = "structure" /\ TypeDie[u].name = ""
CountedDimensions(t) ==
    \E u \in Leads(t) \ {NoDie} :
        Len(TypeDie[u].subranges) > 1 /\ \E r \in Range(TypeDie[u].subranges) : r.count # None

\* The bytes looked at for a global variable are its own, all of them:
\* get_range is the object's size, except that a pointer is given the size of
\* what it points to, that only the last of several counted dimensions is
\* seen, and that an unnamed struct has none (types.py).
RangesRight ==
    extraction = "extracted" =>
        /\ Len(dwarf_info.globals) = Len(GlobalDies(binary))
        /\ \A i \in DOMAIN GlobalDies(binary) :
              LET t == GlobalDies(binary)[i].type
              IN VariableIsWritable(dwarf_info.globals[i].type) =>
                    \/ "pointer" \in TagsOf(t)
                    \/ CountedDimensions(t)
                    \/ dwarf_info.globals[i].type.range = IF Nameless(t) THEN None ELSE CSize(t)

-----------------------------------------------------------------------------
(***************************************************************************)
(* Which debug information the pipeline can use, said of the DIEs alone.   *)
(***************************************************************************)

\* No exception handler stands between t and a void or unbounded end.
Unresolvable(t) ==
    \E u \in LeadsBy({"pointer", "array"}, t) :
        u = NoDie \/ (TypeDie[u].tag = "array" /\ ~ HasBounds(TypeDie[u].subranges))

Incomplete(t) ==
    /\ TypeDie[t].tag \in {"structure", "union"}
    /\ TypeDie[t].size = None \/ (TypeDie[t].tag = "structure" /\ TypeDie[t].name = "")
KeptMembers(t) ==
    IF Incomplete(t) THEN {}
    ELSE { m.type : m \in { n \in Range(TypeDie[t].members) :
                               n.named /\ ~ Unresolvable(n.type) } }

\* Everything that is resolved on the way from the types in `from'.
Uses(t) == ({TypeDie[t].type} \ {NoDie}) \cup KeptMembers(t)
Reachable(from) ==
    LET Reach[n \in Nat] ==
            IF n = 0 THEN from
            ELSE LET nearer == Reach[n - 1] IN nearer \cup UNION { Uses(u) : u \in nearer }
    IN Reach[Cardinality(DOMAIN TypeDie)]
ContainsItself(t) == \E u \in Reachable({t}) : u \in Reachable(Uses(u))

\* It leads to something that has a size, through arrays of known bounds, and
\* no array repeats a type whose size is unknown.
HasRange(t) ==
    /\ NoDie \notin Leads(t)
    /\ TagsOf(t) \subseteq Qualifiers \cup {"pointer", "array", "base", "structure", "union"}
    /\ \A u \in Leads(t) : TypeDie[u].tag = "array" =>
           /\ HasBounds(TypeDie[u].subranges)
           /\ \A v \in Leads(u) : ~ Incomplete(v)

DescribableVariable(t) ==
    /\ t # NoDie /\ HasRange(t) /\ ~ ContainsItself(t)
    /\ \A u \in KeptMembers(t) : HasRange(u)

\* A function's type may be missing, or be of a kind that is not extracted.
DescribableReturn(t) ==
    \/ t = NoDie
    \/ TypeDie[t].tag \notin Qualifiers \cup {"pointer", "array", "base", "structure", "union"}
    \/ HasRange(t) /\ ~ ContainsItself(t)

Describable(b) ==
    /\ \A u \in Range(b.units) : u.has_producer
    /\ LET marchs == SelectSeq([u \in DOMAIN b.units |-> b.units[u].march],
                              LAMBDA m : m # NoMarch)
       IN marchs # << >> /\ Last(marchs) \in SupportedMarchs
    /\ \A d \in Range(WalkedDies(b)) : d.tag = "subprogram" => d.decl_file # 0
    /\ \A d \in Range(GlobalDies(b)) : DescribableVariable(d.type)
    /\ \A f \in Range(OwnFunctions(b)) :
          /\ f.low_pc # NoAddress
          /\ DescribableReturn(f.type)
          /\ \A c \in Range(f.children) : c.tag \in VariableTags => DescribableVariable(c.type)
=============================================================================
