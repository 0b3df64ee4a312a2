---------------------------- MODULE ReturnLayout ----------------------------
(***************************************************************************)
(* How a returned struct is found again in the registers: the layout that  *)
(* rv32_return_register_layout.py and RV32.compute_struct_values compute   *)
(* from the members' types, and the physical registers from which          *)
(* fetch_struct_return_value then reads it.                                *)
(*                                                                         *)
(* The members arrive one by one, nested structs flattened, as             *)
(* analyze_struct lists them.  Each field remembers the member it is for   *)
(* (`of'); the code keeps only the bits.  Register contents are left out:  *)
(* a read is the set of registers it takes its bits from.                  *)
(***************************************************************************)
EXTENDS Integers, Sequences, FiniteSets

CONSTANTS
    Members,        \* members of the structs, [type, size, bits]
    MaxMembers      \* bound: members of one struct

XLen == 32

\* GccDwarfMapperForRV32: the alignment of a bit-field by its base type's name,
\* one name for each of the signed and unsigned variants; a name that is not in
\* the table has alignment 0. No bit-field has one of the table's float types.
ByteSizeOf(type) ==
    CASE type \in {"char", "_Bool"} -> 1
      [] type = "short int" -> 2
      [] type = "int" -> 4
      [] type = "long long int" -> 8
      [] OTHER -> 0

\* A member of base type `type' and `size' bytes; a bit-field has `bits' > 0
\* and, in C, is no wider than its type.  Any other type (pointer, array,
\* typedef, enumeration) is "other".
ASSUME MembersAssumption ==
    /\ Members \subseteq [type : STRING, size : {1, 2, 4, 8, 16}, bits : 0 .. 64]
    /\ \A m \in Members :
          /\ m.bits <= 8 * m.size
          /\ ByteSizeOf(m.type) \in {0, m.size}
          /\ m.type \in {"float", "double"} => m.size \in {4, 8} /\ m.bits = 0
ASSUME MaxMembersAssumption == MaxMembers \in Nat

VARIABLES
    hard,           \* the march returns floats in fa0 and fa1
    members,        \* history: the members laid out so far
    regs,           \* the registers that are full
    active,         \* the fields of active_reg; << >> also when it is None
    phase,          \* layout, then assign, then done or failed
    reads           \* for each of regs, the places its value is read from

vars == <<hard, members, regs, active, phase, reads>>

IsBitfield(m) == m.bits > 0
IsFloat(m) == ~ IsBitfield(m) /\ m.type \in {"float", "double"}
IsInteger(m) == ~ IsBitfield(m) /\ m.type \notin {"float", "double", "other"}

-----------------------------------------------------------------------------
(***************************************************************************)
(* RV32ReturnRegisterLayout: `data' is its list of fields.                 *)
(***************************************************************************)

CeilDiv(a, b) == (a + b - 1) \div b

LastEnd(data) == data[Len(data)].high

\* Mutant: the offset is the last bit in use.
OffsetOnLast(data) == IF data = << >> THEN 0 ELSE LastEnd(data)

Offset(data) == IF data = << >> THEN 0 ELSE LastEnd(data) + 1

\* A field wider than its alignment that fits is only considered up to it.
ConsideredEnd(start, at, bits, align) ==
    start + (IF bits > 8 * align /\ at + bits < XLen THEN 8 * align ELSE bits) - 1

\* Mutant: a field may straddle.
NeverCrosses(data, bits, align) == FALSE

crosses_alignment_boundary(data, bits, align) ==
    LET at == Offset(data)
    IN ConsideredEnd(at, at, bits, align) \div (8 * align) # at \div (8 * align)

has_room_for_bitfield(data, bits, align) ==
    LET at == Offset(data)
        start == IF crosses_alignment_boundary(data, bits, align)
                 THEN (at \div (8 * align)) * 8 * align + 8 * align
                 ELSE at
    IN ConsideredEnd(start, at, bits, align) < XLen

\* Mutant: room for an int is judged from the offset, in mixed units.
RoomFromOffset(data, size) == Offset(data) + size <= XLen

\* Mutant: there is room for an int until the register is exceeded.
RoomUntilExceeded(data, size) == Offset(data) <= XLen

\* In the code as here, the last end is rounded up instead of the offset after
\* it, and bytes are added to bits.
has_room_for_int(data, size) ==
    data = << >> \/
    LET start == CeilDiv(LastEnd(data), 8 * size) * 8 * size
    IN start < XLen /\ start + size < XLen

AlignedStart(data, align) == CeilDiv(Offset(data), 8 * align) * 8 * align

\* The start of a field; add_int passes its size in bytes as the bits.
StartBit(data, bits, align) ==
    IF crosses_alignment_boundary(data, bits, align)
    THEN AlignedStart(data, align)
    ELSE Offset(data)

Field(start, bits) == [low |-> start, high |-> start + bits - 1, of |-> Len(members) + 1]

BitfieldField(data, m) == Field(StartBit(data, m.bits, ByteSizeOf(m.type)), m.bits)
IntegerField(data, m) == Field(StartBit(data, m.size, m.size), 8 * m.size)
FloatField(m) == Field(0, 8 * m.size)

-----------------------------------------------------------------------------
(***************************************************************************)
(* compute_struct_values.                                                  *)
(***************************************************************************)

IntReg(data) == [float |-> FALSE, data |-> data]
FloatReg(data) == [float |-> TRUE, data |-> data]

Init ==
    /\ hard \in BOOLEAN
    /\ members = << >>
    /\ regs = << >>
    /\ active = << >>
    /\ phase = "layout"
    /\ reads = << >>

NextMember(m) ==
    /\ phase = "layout"
    /\ Len(members) < MaxMembers
    /\ members' = Append(members, m)
    /\ UNCHANGED <<hard, reads>>

\* A field goes to the active register or, without room, to a fresh one.
Place(room, here, fresh) ==
    /\ IF room
       THEN active' = Append(active, here) /\ UNCHANGED regs
       ELSE active' = <<fresh>> /\ regs' = Append(regs, IntReg(active))
    /\ UNCHANGED phase

\* Some register holds the bit-field.  Otherwise the code raises; with an
\* unknown alignment, which is 0, by dividing by it.
HasPlace(m) ==
    /\ ByteSizeOf(m.type) > 0
    /\ \/ has_room_for_bitfield(active, m.bits, ByteSizeOf(m.type))
       \/ has_room_for_bitfield(<< >>, m.bits, ByteSizeOf(m.type))

AddBitfield(m) ==
    /\ IsBitfield(m)
    /\ HasPlace(m)
    /\ NextMember(m)
    /\ Place(has_room_for_bitfield(active, m.bits, ByteSizeOf(m.type)),
             BitfieldField(active, m), BitfieldField(<< >>, m))

AddInteger(m) ==
    /\ IsInteger(m)
    /\ NextMember(m)
    /\ Place(has_room_for_int(active, m.size),
             IntegerField(active, m), IntegerField(<< >>, m))

\* Mutant: the active register is dropped.
Discarded == << >>

\* The active register, unless it is None or empty.
Closed == IF active = << >> THEN << >> ELSE <<IntReg(active)>>

\* A float gets a register of its own and closes the active one.
AddFloat(m) ==
    /\ IsFloat(m)
    /\ NextMember(m)
    /\ regs' = regs \o Closed \o <<FloatReg(<<FloatField(m)>>)>>
    /\ active' = << >>
    /\ UNCHANGED phase

\* analyze_struct rejects the member's type, or the layout has no place for it.
Reject(m) ==
    /\ ~ IsFloat(m) /\ ~ IsInteger(m)
    /\ IsBitfield(m) => ~ HasPlace(m)
    /\ NextMember(m)
    /\ phase' = "failed"
    /\ UNCHANGED <<regs, active>>

\* The last member has been laid out.  Without the march's return instruction
\* in the epilogue the result is an empty list.
FinishLayout ==
    /\ phase = "layout"
    /\ regs' = regs \o Closed
    /\ active' = << >>
    /\ phase' \in {"assign", "done"}
    /\ UNCHANGED <<hard, members, reads>>

-----------------------------------------------------------------------------
(***************************************************************************)
(* fetch_struct_return_value of the three marches: RV32IM and RV32IMAC     *)
(* have no registers for floats, RV32IMAFDC has.                           *)
(***************************************************************************)

Taken == UNION { reads[i] : i \in DOMAIN reads }

\* The first of two registers that is not taken, or none.
FirstFree(one, two) ==
    CASE one \notin Taken -> {one}
      [] one \in Taken /\ two \notin Taken -> {two}
      [] OTHER -> {}

\* Mutant: a double takes one integer register.
PairAsOne == FirstFree("a0", "a1")

\* A double without float registers needs both integer registers.
Pair == IF {"a0", "a1"} \cap Taken = {} THEN {"a0", "a1"} ELSE {}

FloatSize(reg) == (LastEnd(reg.data) + 1) \div 8

\* The physical registers for the next one of regs; none is OutOfRegisters.
Source(reg) ==
    CASE ~ reg.float \/ (~ hard /\ FloatSize(reg) = 4) -> FirstFree("a0", "a1")
      [] reg.float /\ hard -> FirstFree("fa0", "fa1")
      [] OTHER -> Pair

ToRead == regs[Len(reads) + 1]

ReadRegister ==
    /\ phase = "assign"
    /\ Len(reads) < Len(regs)
    /\ Source(ToRead) # {}
    /\ reads' = Append(reads, Source(ToRead))
    /\ UNCHANGED <<hard, members, regs, active, phase>>

\* What has been read is replaced by what lies at the address in a0.
OutOfRegisters ==
    /\ phase = "assign"
    /\ Len(reads) < Len(regs)
    /\ Source(ToRead) = {}
    /\ reads' = [i \in DOMAIN regs |-> {"memory"}]
    /\ phase' = "done"
    /\ UNCHANGED <<hard, members, regs, active>>

FinishReading ==
    /\ phase = "assign"
    /\ Len(reads) = Len(regs)
    /\ phase' = "done"
    /\ UNCHANGED <<hard, members, regs, active, reads>>

Stopped ==
    /\ phase \in {"done", "failed"}
    /\ UNCHANGED vars

Layout == \E m \in Members : AddBitfield(m) \/ AddInteger(m) \/ AddFloat(m) \/ Reject(m)

Next ==
    \/ Layout \/ FinishLayout
    \/ ReadRegister \/ OutOfRegisters \/ FinishReading
    \/ Stopped

Spec == Init /\ [][Next]_vars

-----------------------------------------------------------------------------
(***************************************************************************)
(* Properties.                                                             *)
(***************************************************************************)

FieldType == [low : 0 .. (XLen - 1), high : Nat, of : Nat]
Register == [float : BOOLEAN, data : Seq(FieldType) \ {<< >>}]
Place_s == {"a0", "a1", "fa0", "fa1", "memory"}

\* Type invariant. Among its facts: every field starts inside its register,
\* and no finished register is empty (an empty one would use up a0).
TypeOK ==
    /\ hard \in BOOLEAN
    /\ members \in Seq(Members)
    /\ regs \in Seq(Register)
    /\ active \in Seq(FieldType)
    /\ phase \in {"layout", "assign", "done", "failed"}
    /\ reads \in Seq(SUBSET Place_s)

\* The integer registers there are, the active one among them.
IntData == { regs[i].data : i \in { j \in DOMAIN regs : ~ regs[j].float } } \cup {active}
AllData == { regs[i].data : i \in DOMAIN regs } \cup {active}

Ordered(data) ==
    /\ \A i \in DOMAIN data : data[i].low <= data[i].high
    /\ \A i, j \in DOMAIN data : i < j => data[i].high < data[j].low

\* No bit of a register is claimed by two fields, and later members lie higher
\* (the tuples of RV32ReturnRegisterLayout.data).
FieldsInOrder == \A data \in AllData : Ordered(data)

InUnit(f, m) ==
    LET unit == 8 * ByteSizeOf(m.type)
    IN /\ f.high = f.low + m.bits - 1
       /\ f.high < XLen
       /\ f.low \div unit = f.high \div unit

\* A bit-field lies in one register and in one unit of its base type, whatever
\* precedes it, misplaced ints included.
BitfieldsInUnit ==
    \A data \in AllData : \A i \in DOMAIN data :
        LET m == members[data[i].of] IN IsBitfield(m) => InUnit(data[i], m)

\* In a struct without bit-fields and without members of 8 bytes and more,
\* every integer ends inside its register, although room is computed from the
\* wrong bit and in mixed units.
PlainIntsFit ==
    (\A k \in DOMAIN members : ~ IsBitfield(members[k]) /\ members[k].size <= 4) =>
        \A data \in IntData : \A i \in DOMAIN data : data[i].high < XLen

\* Every member has one field of its width, in the order of the members, first
\* by register and then by bit: no member is lost when a register is closed.
MembersPlaced ==
    LET all == regs \o Closed
        slots == UNION { {r} \X DOMAIN all[r].data : r \in DOMAIN all }
        FieldAt(s) == all[s[1]].data[s[2]]
        Width(m) == IF IsBitfield(m) THEN m.bits ELSE 8 * m.size
    IN phase # "failed" =>
          /\ { FieldAt(s).of : s \in slots } = DOMAIN members
          /\ \A s \in slots :
                FieldAt(s).high = FieldAt(s).low + Width(members[FieldAt(s).of]) - 1
          /\ \A s, t \in slots :
                s[1] < t[1] \/ (s[1] = t[1] /\ s[2] < t[2]) <=> FieldAt(s).of < FieldAt(t).of

\* The registers needed of each bank, from the layout alone.
Count(IsOne(_)) == Cardinality({ i \in DOMAIN regs : IsOne(regs[i]) })
Ints == Count(LAMBDA r : ~ r.float)
Singles == Count(LAMBDA r : r.float /\ FloatSize(r) = 4)
Doubles == Count(LAMBDA r : r.float /\ FloatSize(r) = 8)
Exhausted ==
    IF hard THEN Ints > 2 \/ Singles + Doubles > 2
    ELSE Ints + Singles + 2 * Doubles > 2

\* The value is looked for in memory exactly when the registers cannot hold the
\* layout, in whatever order its parts come; otherwise no register is read
\* twice.
AssignmentExact ==
    phase = "done" /\ reads # << >> =>
        /\ \A i \in DOMAIN regs : reads[i] = {"memory"} <=> Exhausted
        /\ ~ Exhausted =>
              \A i, j \in DOMAIN reads : i # j => reads[i] \cap reads[j] = {}

\* What the comments of add_int and has_room_for_int say: an integer that fits
\* a register is aligned to its size and ends inside the register.
IntsAligned ==
    \A data \in IntData : \A i \in DOMAIN data :
        LET m == members[data[i].of]
        IN IsInteger(m) /\ 8 * m.size <= XLen =>
              data[i].low % (8 * m.size) = 0 /\ data[i].high < XLen
=============================================================================
