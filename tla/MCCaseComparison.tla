-------------------------- MODULE MCCaseComparison --------------------------
(***************************************************************************)
(* CaseComparison for TLC: the types a C program declares, and families of *)
(* cases, one per part of the pipeline.                                    *)
(***************************************************************************)
EXTENDS CaseComparison

\* Type DIEs.
TypeDieOf(tag, name, type, size, members, subranges) ==
    [tag |-> tag, name |-> name, type |-> type, size |-> size,
     members |-> members, subranges |-> subranges]
Base(name, size) == TypeDieOf("base", name, NoDie, size, << >>, << >>)
To(tag, type) == TypeDieOf(tag, "", type, None, << >>, << >>)
ArrayOf(type, subranges) == TypeDieOf("array", "", type, None, << >>, subranges)
Struct(name, size, types) ==
    TypeDieOf("structure", name, NoDie, size,
              [i \in DOMAIN types |-> [named |-> TRUE, type |-> types[i]]], << >>)
Union(size, types) == [Struct("", size, types) EXCEPT !.tag = "union"]
Upto(n) == [count |-> None, upper_bound |-> n]
Count(n) == [count |-> n, upper_bound |-> None]
Open == [count |-> None, upper_bound |-> None]

MCTypeDie ==
    [char |-> Base("char", 1), int |-> Base("int", 4),
     longlong |-> Base("long long int", 8), float |-> Base("float", 4),
     double |-> Base("double", 8), longdouble |-> Base("long double", 16),
     complex |-> Base("complex float", 8),
     tint |-> To("typedef", "int"), vint |-> To("volatile", "int"),
     pint |-> To("pointer", "int"), pdouble |-> To("pointer", "double"),
     pvoid |-> To("pointer", NoDie), constvoid |-> To("const", NoDie),
     pconstvoid |-> To("pointer", "constvoid"), cpvoid |-> To("const", "pvoid"),
     enum |-> TypeDieOf("enumeration", "", "int", 4, << >>, << >>),
     tenum |-> To("typedef", "enum"),
     routine |-> To("subroutine", NoDie), proutine |-> To("pointer", "routine"),
     aint |-> ArrayOf("int", <<Upto(1)>>), along |-> ArrayOf("longlong", <<Upto(1)>>),
     acount |-> ArrayOf("int", <<Count(2), Count(3)>>),
     aopen |-> ArrayOf("int", <<Open>>), apair |-> ArrayOf("pair", <<Upto(1)>>),
     aanon |-> ArrayOf("anon", <<Upto(1)>>), apvoid |-> ArrayOf("pvoid", <<Upto(1)>>),
     pair |-> Struct("pair", 8, <<"int", "int">>),
     triple |-> Struct("triple", 12, <<"int", "int", "int">>),
     anon |-> Struct("", 8, <<"int", "int">>),
     tanon |-> To("typedef", "anon"), panon |-> To("pointer", "anon"),
     opaque |-> Struct("opaque", None, << >>), popaque |-> To("pointer", "opaque"),
     pnode |-> To("pointer", "node"), node |-> Struct("node", 8, <<"int", "pnode">>),
     holder |-> Struct("holder", 8, <<"int", "pvoid">>),
     colored |-> Struct("colored", 8, <<"int", "enum">>),
     padded |-> [Struct("padded", 8, <<"int", "enum">>) EXCEPT
                    !.members = <<[named |-> TRUE, type |-> "int"],
                                  [named |-> FALSE, type |-> "enum"]>>],
     pointing |-> Struct("pointing", 4, <<"pint">>), nested |-> Struct("nested", 4, <<"pointing">>),
     adouble |-> ArrayOf("double", <<Upto(1)>>),
     word |-> Union(4, <<"int", "float">>), words |-> Union(8, <<"longlong">>),
     shorts |-> Union(6, <<"char">>), quad |-> Union(16, <<"longdouble">>), uneven |-> Union(10, <<"longlong">>),
     shapeless |-> Union(None, << >>)]

-----------------------------------------------------------------------------
\* Children of a unit.
Row(reg, o) == [reg |-> reg, offset |-> o]
Function(name, type, low_pc, children) ==
    [tag |-> "subprogram", name |-> name, type |-> type, decl_file |-> 1,
     low_pc |-> low_pc, high_pc |-> 4, high_pc_class |-> "constant", children |-> children]
UpTo(f) == [f EXCEPT !.high_pc_class = "address", !.high_pc = f.low_pc + 4]
Variable(name, type, location) ==
    [tag |-> "variable", name |-> name, type |-> type, location |-> location]
Parameter(type) == [Variable("p", type, NoAddress) EXCEPT !.tag = "formal_parameter"]
Local(type) == Variable("l", type, NoAddress)
Other(tag) == [tag |-> tag]

Im == "rv32im_zicsr_zifencei"
Imac == "rv32imac_zicsr"
Imafdc == "rv32imafdc_zicsr_zifencei"
MCMarchs == {Im, Imac, Imafdc}

UnitOf(file, march, children) ==
    [file |-> file, march |-> march, has_producer |-> TRUE, children |-> children]
Fdes == <<[initial_location |-> 16, rows |-> <<Row(2, 0), Row(2, 0), Row(2, 16)>>],
          [initial_location |-> 40, rows |-> <<Row(2, 0)>>]>>
BinaryOf(units) == [units |-> units, fdes |-> Fdes]
Binary(march, children) == BinaryOf(<<UnitOf("prog.c", march, children)>>)
Fun(type) == Function("fun", type, 16, << >>)

\* Snapshots of returns.
Return(a0, a1) ==
    [instruction |-> "cjr", a0 |-> a0, a1 |-> a1, fa0 |-> <<0, 0>>, fa1 |-> <<0, 0>>]
FloatReturn(low, high) == [Return(1, 1) EXCEPT !.fa0 = <<low, high>>]
Plainly == {Return(0, 0)}

\* What the registers hold when a call is entered: nothing that it returns.
Entered == [Return(2, 2) EXCEPT !.fa0 = <<2, 2>>]

CaseOf(gr, uv) ==
    [binaries |-> <<gr, uv>>, functions |-> {"fun"}, max_calls |-> 1,
     bodies |-> <<{<< >>}, {<< >>}>>, returns |-> <<Plainly, Plainly>>,
     entered |-> <<Entered, Entered>>, lost |-> {0}]
Alike(children) == CaseOf(Binary(Imac, children), Binary(Imac, children))
ReferenceOnly(b) == CaseOf(b, Binary(Imac, <<Fun(NoDie)>>))

-----------------------------------------------------------------------------
\* Every type, as that of a global variable, a parameter, a local variable and
\* a result (which C does not allow for arrays and incomplete types).
Results == DOMAIN MCTypeDie \ {"aint", "along", "acount", "aopen", "apair", "aanon",
                               "apvoid", "adouble", "anon", "opaque", "shapeless", "routine",
                               "constvoid"}
TypeCases ==
    { Alike(<<Variable("g", t, 2 ^ 28), Fun(NoDie)>>) : t \in DOMAIN MCTypeDie }
    \cup { Alike(<<Function("fun", NoDie, 16, <<Parameter(t)>>)>>) : t \in DOMAIN MCTypeDie }
    \cup { Alike(<<Function("fun", NoDie, 16, <<Other("lexical_block"), Local(t)>>)>>) :
             t \in {"int", "pvoid", "enum"} }
    \cup { Alike(<<Fun(t)>>) : t \in Results }

\* Several units and functions, declarations, and what the binary may lack.
Older == Function("again", NoDie, 24, << >>)
Newer == Function("again", NoDie, 32, << >>)
DebugInfoCases ==
    { ReferenceOnly(BinaryOf(units)) : units \in
        { << >>,
          <<UnitOf("lib.c", Im, <<Other("pointer"), Fun(NoDie)>>),
            UnitOf("prog.c", Imac, <<UpTo(Fun(NoDie))>>)>>,
          <<UnitOf("prog.c", Im, <<Fun(NoDie)>>), UnitOf("crt0.S", "rv64gc", << >>)>>,
          <<UnitOf("prog.c", NoMarch, <<Fun(NoDie)>>)>>,
          <<[UnitOf("prog.c", Imac, <<Fun(NoDie)>>) EXCEPT !.has_producer = FALSE]>>,
          <<UnitOf("prog.c", Imac, <<Older, Fun(NoDie)>>),
            UnitOf("prog.c", NoMarch, <<Newer>>)>> } }
    \cup
    { ReferenceOnly(Binary(Imac, children)) : children \in
        { <<Older>>,
          <<Other("base_type"), Variable("g", NoDie, NoAddress), Fun(NoDie)>>,
          <<Variable("g", "int", NoAddress), UpTo(Fun("int")), Older>>,
          <<Fun(NoDie), [Older EXCEPT !.decl_file = 0]>>,
          <<Fun(NoDie), [Older EXCEPT !.decl_file = 2, !.low_pc = NoAddress]>>,
          <<Fun(NoDie), [Older EXCEPT !.low_pc = NoAddress]>> } }

-----------------------------------------------------------------------------
\* Stores to global variables that the two linkers put elsewhere.
High == 2 ^ 28
Low == 4096
Store(a, data) == [address |-> a, data |-> data]
Word(a, n) == Store(a, <<n, 0, 0, 0>>)
Globals(type, gr, uv, gr_stores, uv_stores) ==
    [CaseOf(Binary(Imac, <<Variable("g", type, gr), Fun(NoDie)>>),
            Binary(Imac, <<Variable("g", type, uv), Fun(NoDie)>>)) EXCEPT
        !.bodies = <<SeqOf(gr_stores, 2), SeqOf(uv_stores, 2)>>]
TwoGlobals(types, gr, uv, gr_stores, uv_stores) ==
    LET Of(a) == Binary(Imac, <<Variable("g", types[1], a), Variable("h", types[2], a + 8),
                                Fun(NoDie)>>)
    IN [CaseOf(Of(gr), Of(uv)) EXCEPT
            !.bodies = <<SeqOf(gr_stores, 2), SeqOf(uv_stores, 2)>>]
Elsewhere == High + 4096
GlobalCases ==
    { Globals("int", High, Elsewhere,
              {Word(High, 1), Word(High, 2)}, {Word(Elsewhere, 1), Word(Elsewhere + 4, 2)}),
      Globals("int", Low, High, {Word(Low, 1)}, {Word(High, 1)}),
      Globals("char", High, High, {Store(High, <<1>>)}, {Store(High, <<1>>), Word(High, 1)}),
      Globals("pair", High, Elsewhere,
              {Word(High, 1), Word(High + 4, 1), Store(High, <<1, 0>>)},
              {Word(Elsewhere, 1), Word(Elsewhere + 4, 1), Word(Elsewhere, 2)}),
      Globals("apair", High, High, {Word(High, 1), Word(High + 4, 1)},
              {Word(High, 1), Word(High + 8, 1)}),
      Globals("along", High, High,
              {Store(High, <<1, 0, 0, 0, 0, 0, 0, 0>>), Word(High, 1)},
              {Store(High, <<1, 0, 0, 0, 0, 0, 0, 0>>), Word(High + 4, 1)}),
      Globals("anon", High, High, {}, {}),
      TwoGlobals(<<"pdouble", "int">>, High, High,
                 {Word(High, 1), Word(High + 4, 1)}, {Word(High, 1), Word(High + 4, 2)}),
      TwoGlobals(<<"aint", "int">>, High, Elsewhere,
                 {Word(High, 1), Word(High + 4, 1), Word(High + 8, 2)},
                 {Word(Elsewhere + 4, 1), Word(Elsewhere, 1), Word(Elsewhere + 8, 2)}) }

-----------------------------------------------------------------------------
\* Return values: zeros of both signs, numbers and NaNs.
Nan == 2146435072 + 2 ^ 19
Scalars ==
    { Return(0, 0), Return(0, SignBit), Return(SignBit, 0), Return(1, 0), Return(-1, -1),
      Return(0, Nan), [Return(0, 0) EXCEPT !.instruction = "jalr"],
      [Return(-1, 0) EXCEPT !.instruction = "jalr"] }
Floats == { FloatReturn(0, 0), FloatReturn(SignBit, -1), FloatReturn(1, -1),
            FloatReturn(0, SignBit), FloatReturn(0, Nan) }
Result(type, gr, uv, returns) ==
    [CaseOf(Binary(gr, <<Fun(type)>>), Binary(uv, <<Fun(type)>>)) EXCEPT
        !.returns = <<returns, returns>>]
Behind == Return(High, 0)
InMemoryCase(type, march, some_bodies) ==
    [Result(type, march, march, {Behind}) EXCEPT !.bodies = <<some_bodies, some_bodies>>]
FourWords(last) == [i \in 1 .. 4 |-> Word(High + 4 * (i - 1), IF i = 4 THEN last ELSE i)]
Mismatched(gr, uv) == CaseOf(Binary(Imac, <<Fun(gr)>>), Binary(Imac, <<Fun(uv)>>))
ReturnCases ==
    { Result(t, gr, uv, Scalars) :
        t \in {NoDie, "int", "tint", "longlong", "float", "double", "pair", "word", "words", "shorts"},
        gr \in {Imac, Im}, uv \in {Imac} }
    \cup { Result(t, Imafdc, uv, Floats) :
             t \in {"int", "float", "double", "longlong"}, uv \in {Imac, Imafdc} }
    \cup { InMemoryCase("longdouble", Imac, {FourWords(4), FourWords(5), SubSeq(FourWords(4), 1, 3)}),
           InMemoryCase("triple", Imac, SeqOf({Word(High, 1), Word(High, 2), Word(High + 4, 1)}, 2)),
           InMemoryCase("uneven", Imac,
               {<<Word(High, 1), Word(High + 4, n), Store(High + 8, <<m, 0>>)>> : n, m \in 1 .. 2}),
           InMemoryCase("quad", Imafdc, SeqOf({Word(High, 1), Word(High, 2), Store(High + 1, <<1>>)}, 2)) }
    \cup { Mismatched("pair", "int"), Mismatched("pair", "word"), Mismatched("pair", NoDie),
           Mismatched("word", NoDie), Mismatched("word", "int"), Mismatched("int", "pair") }

-----------------------------------------------------------------------------
\* Traces cut at and around the borders of records.
CutCases ==
    { [Globals("int", High, High, {Word(High, 1)}, {Word(High, 1)}) EXCEPT
          !.max_calls = 2, !.bodies = <<{<<Word(High, 1)>>}, {<< >>, <<Word(High, 1)>>}>>,
          !.lost = {0, 1, 408, 409, 411, 412, 413, 491, 492, 493, 495, 496, 820, 824}] }

\* A callee with a result of its own, and programs that call differently.
CalleeCases ==
    LET children == <<Variable("g", "int", High), Fun("int"), Function("callee", "int", 40, << >>)>>
    IN { [Alike(children) EXCEPT
             !.functions = {"fun", "callee"}, !.max_calls = 3,
             !.bodies = <<SeqOf({Word(High, 1)}, 1), SeqOf({Word(High, 2)}, 1)>>] }

-----------------------------------------------------------------------------
\* A case in which everything departs from what is said of it: an array of
\* doubles, stored at once by one program and in words by the other; a struct of
\* three words, which one of them leaves through a jump that its march does not
\* take for a return; and a function that leaves a0 as it was.
DocumentedCases ==
    LET children == <<Variable("g", "adouble", Elsewhere), Fun("triple"),
                      Function("identity", "int", 40, << >>)>>
        struct == <<Word(High, 1), Word(High + 4, 2), Word(High + 8, 3)>>
        at_once == <<Store(Elsewhere, <<1, 0, 0, 0, 2, 0, 0, 0>>)>>
        in_words == <<Word(Elsewhere, 1), Word(Elsewhere + 4, 2)>>
    IN { [CaseOf(Binary(Imafdc, children), Binary(Imac, children)) EXCEPT
             !.functions = {"fun", "identity"}, !.max_calls = 2,
             !.bodies = <<{struct \o at_once}, {struct \o in_words}>>,
             !.returns = <<{Behind}, {Behind, [Behind EXCEPT !.instruction = "jalr"]}>>,
             !.entered = <<Behind, Behind>>] }

MCCases == TypeCases \cup DebugInfoCases \cup GlobalCases \cup ReturnCases
               \cup CutCases \cup CalleeCases

MCRecordBytes == [state_snapshot |-> 412, dwrite |-> 84, dread |-> 84]
=============================================================================
