---------------------------- MODULE DwarfTypes ----------------------------
(***************************************************************************)
(* The types a binary's debug information describes, as                    *)
(* DwarfInfoExtractor resolves them (_extract_type_rec) and as types.py    *)
(* measures them (get_base, get_range, __str__).                           *)
(*                                                                         *)
(* A type DIE refers to other DIEs, possibly back to itself; a resolved    *)
(* type is a finite tree.  The tree is kept with what its methods return:  *)
(* every method asks the method of the same name one level down, so the    *)
(* result is known as soon as the level is built.                          *)
(***************************************************************************)
EXTENDS Integers, Sequences, FiniteSets, SequencesExt

CONSTANTS
    TypeDie,         \* the type DIEs of the binaries, by name
    NoDie,           \* a missing DW_AT_type
    RecursionLimit   \* Python frames that are left

ASSUME RecursionLimitAssumption == RecursionLimit \in Nat \ {0, 1}

None == -1           \* Python's None for a size
Raises == -2         \* the method raises instead of returning a size

\* Sizes, counts and bounds are natural numbers where they are given, and what
\* a DIE refers to is one of the DIEs.
ASSUME TypeDieAssumption ==
    /\ NoDie \notin DOMAIN TypeDie /\ IsFiniteSet(DOMAIN TypeDie)
    /\ \A t \in DOMAIN TypeDie :
          /\ TypeDie[t].type \in DOMAIN TypeDie \cup {NoDie}
          /\ TypeDie[t].size \in Nat \cup {None}
          /\ TypeDie[t].members \in Seq([named : BOOLEAN, type : DOMAIN TypeDie \cup {NoDie}])
          /\ TypeDie[t].subranges \in
                Seq([count : Nat \cup {None}, upper_bound : Nat \cup {None}])

\* The frames __str__ takes, the base and the range of a resolved type.
Type(class, name, base, range, frames, members) ==
    [class |-> class, name |-> name, base |-> base, range |-> range,
     frames |-> frames, members |-> members]

\* Python's None for a type: it has no methods, and str() of what holds it
\* writes a placeholder.
NoType == Type("None", "", Raises, Raises, 0, << >>)

\* _extract_type_rec raises.
Raised == Type("Raised", "", Raises, Raises, 0, << >>)

BaseType(die) == Type("BaseType", die.name, die.size, die.size, 1, << >>)

\* const, volatile, typedef and pointer: all three methods ask the inner type.
Wrapped(class, inner) ==
    Type(class, "", inner.base, inner.range, inner.frames + 1, << >>)

\* `except Exception': the wrapper is kept, around nothing.
WrappedOrBare(class, inner) ==
    Wrapped(class, IF inner.class = "Raised" THEN NoType ELSE inner)

\* `except Exception: return PointerType()' lacks an argument and raises.
PointerType(inner) ==
    IF inner.class = "Raised" THEN Raised ELSE Wrapped("PointerType", inner)

\* DW_AT_count replaces what was collected, bounds are appended, and a
\* dimension with neither raises (KeyError).
HasBounds(subranges) ==
    \A s \in Range(subranges) : s.count # None \/ s.upper_bound # None

\* Mutant: an upper bound is taken for a length.
LastIndexAsLength(s) == IF s.count # None THEN s.count ELSE s.upper_bound
Dimension(s) == IF s.count # None THEN s.count ELSE s.upper_bound + 1

compute_array_size_from_subranges(subranges) ==
    LET counts == { i \in DOMAIN subranges : subranges[i].count # None }
        first == IF counts = {} THEN 1 ELSE CHOOSE i \in counts : \A j \in counts : j <= i
    IN [i \in 1 .. (Len(subranges) - first + 1) |-> Dimension(subranges[first + i - 1])]

Product(s) ==
    LET Upto[i \in 0 .. Len(s)] == IF i = 0 THEN 1 ELSE Upto[i - 1] * s[i]
    IN Upto[Len(s)]
ArrayLength(subranges) == Product(compute_array_size_from_subranges(subranges))

\* length * None raises, as does the range of nothing.
ArrayRange(length, inner) ==
    IF inner.range \in {None, Raises} THEN Raises ELSE length * inner.range


\* `return ArrayType()' lacks an argument as well.
ArrayType(subranges, inner) ==
    IF ~ HasBounds(subranges) \/ inner.class = "Raised" THEN Raised
    ELSE [Wrapped("ArrayType", inner) EXCEPT
             !.range = ArrayRange(ArrayLength(subranges), inner)]

\* str() of a struct or union: itself, the generator over its members, the
\* member, and the member's type.
MemberFrames(members) ==
    IF members = << >> THEN 0
    ELSE 1 + CHOOSE f \in { m.frames : m \in Range(members) } :
                 \A m \in Range(members) : m.frames <= f

Aggregate(class, size, members) ==
    Type(class, "", size, size, 2 + MemberFrames(members), members)

\* `except Exception: return StructType()': no name, no size, no members.
EmptyStruct == Aggregate("StructType", None, << >>)

\* A member that cannot be extracted is logged and left out.
StructType(die, members) ==
    IF die.name = "" \/ die.size = None THEN EmptyStruct
    ELSE Aggregate("StructType", die.size, members)
UnionType(die, members) ==
    IF die.size = None THEN EmptyStruct
    ELSE Aggregate("UnionType", die.size, members)

\* A DIE, where at[u] is what the DIE u is resolved to.
Members(die, at) ==
    FlattenSeq([i \in DOMAIN die.members |->
        LET m == die.members[i]
        IN IF m.named /\ at[m.type].class # "Raised" THEN <<at[m.type]>> ELSE << >>])
ResolvedDie(die, at) ==
    CASE die.tag = "base"      -> BaseType(die)
      [] die.tag = "array"     -> ArrayType(die.subranges, at[die.type])
      [] die.tag = "pointer"   -> PointerType(at[die.type])
      [] die.tag = "const"     -> WrappedOrBare("ConstType", at[die.type])
      [] die.tag = "volatile"  -> WrappedOrBare("VolatileType", at[die.type])
      [] die.tag = "typedef"   -> WrappedOrBare("TypeDef", at[die.type])
      [] die.tag = "structure" -> StructType(die, Members(die, at))
      [] die.tag = "union"     -> UnionType(die, Members(die, at))
      [] OTHER                 -> NoType

\* Every DIE, resolved with `used' frames of the stack in use.  Reading a
\* missing DW_AT_type raises, and so does a call too many (RecursionError),
\* which the handlers above treat as they treat any other exception.
Resolve[used \in 0 .. RecursionLimit] ==
    [t \in DOMAIN TypeDie \cup {NoDie} |->
        IF t = NoDie \/ used = RecursionLimit THEN Raised
        ELSE ResolvedDie(TypeDie[t], Resolve[used + 1])]

\* The value of a DW_AT_type attribute.
extract_type_rec(t) == Resolve[0][t]

-----------------------------------------------------------------------------
(***************************************************************************)
(* What str(dwarf_info) needs of a type.                                   *)
(***************************************************************************)

\* Base, range and composition can be written.
Measurable(type) ==
    /\ type.base # Raises
    /\ type.range # Raises
    /\ type.frames <= RecursionLimit

\* A variable or parameter also lists the ranges of its members.
VariableIsWritable(type) ==
    /\ Measurable(type)
    /\ \A m \in Range(type.members) : m.range # Raises

\* A subprogram without a type is void.
SubprogramIsWritable(type) == type.class = "None" \/ Measurable(type)
=============================================================================
