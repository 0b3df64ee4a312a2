------------------------- MODULE ReturnLayoutProofs -------------------------
(***************************************************************************)
(* Proofs about ReturnLayout, for every set of members: types, disjoint    *)
(* fields, bit-fields that stay in their unit, plain integers that stay in *)
(* their register, no member without its field, and memory read only when  *)
(* the registers run out.  They follow from what one placement returns;    *)
(* the arithmetic is in BitfieldStart, IntegerStart and IntegerEnd.        *)
(***************************************************************************)
EXTENDS ReturnLayout, FiniteSetTheorems, SequenceTheorems, TLAPS

-----------------------------------------------------------------------------
(***************************************************************************)
(* Where a field starts.                                                   *)
(***************************************************************************)

\* An integer has room when the bit before it, rounded up, lies inside.
LEMMA RoundLast ==
    ASSUME NEW last \in Nat, NEW size \in {1, 2, 4, 8, 16},
           CeilDiv(last, 8 * size) * 8 * size < 32
    PROVE  /\ last + 1 < 32
           /\ (last + size) \div (8 * size) # (last + 1) \div (8 * size) =>
                 /\ CeilDiv(last + 1, 8 * size) * 8 * size \in Nat
                 /\ last + 1 <= CeilDiv(last + 1, 8 * size) * 8 * size
                 /\ CeilDiv(last + 1, 8 * size) * 8 * size < 32
<1>1. CASE size = 1
    BY <1>1 DEF CeilDiv
<1>2. CASE size = 2
    BY <1>2 DEF CeilDiv
<1>3. CASE size = 4
    BY <1>3 DEF CeilDiv
<1>4. CASE size = 8
    BY <1>4 DEF CeilDiv
<1>5. CASE size = 16
    BY <1>5 DEF CeilDiv
<1> QED
    BY <1>1, <1>2, <1>3, <1>4, <1>5

\* The bits of a field are numbers.
LEMMA FieldBits ==
    ASSUME NEW f \in FieldType
    PROVE  f.low \in Nat /\ f.high \in Nat /\ f.low < 32
BY DEF FieldType, XLen

LEMMA InsideRegister ==
    ASSUME NEW bit \in Nat, bit < 32
    PROVE  bit \in 0 .. (XLen - 1)
BY DEF XLen

\* The next free bit is a number, and it is 0 in a fresh register.
LEMMA OffsetType ==
    ASSUME NEW data \in Seq(FieldType)
    PROVE  /\ Offset(data) \in Nat
           /\ Offset(<< >>) = 0
           /\ data # << >> => LastEnd(data) \in Nat /\ Offset(data) = LastEnd(data) + 1
<1>1. ASSUME data # << >> PROVE LastEnd(data) \in Nat
    <2>1. data[Len(data)] \in FieldType
        BY <1>1
    <2> QED
        BY <2>1 DEF LastEnd, FieldType
<1> QED
    BY <1>1 DEF Offset

\* A bit-field is no wider than its unit; it starts behind the others, ends in
\* the register and does not leave its unit.
Narrow(bits, align) == bits \in Nat /\ bits \in 1 .. (8 * align)
StartsRight(data, bits, align, start) ==
    /\ start \in Nat
    /\ Offset(data) <= start
    /\ start + bits - 1 < XLen
    /\ start \div (8 * align) = (start + bits - 1) \div (8 * align)

\* With room, a bit-field starts at or after the next free bit, ends in the
\* register and does not leave its unit.
LEMMA BitfieldStart ==
    ASSUME NEW data, Offset(data) \in Nat,
           NEW align \in {1, 2, 4, 8}, NEW bits, Narrow(bits, align),
           has_room_for_bitfield(data, bits, align),
           NEW start, start = StartBit(data, bits, align)
    PROVE  StartsRight(data, bits, align, start)
<1> DEFINE at == Offset(data)
<1> DEFINE crosses == (at + bits - 1) \div (8 * align) # at \div (8 * align)
<1>1. at \in Nat /\ bits \in Nat /\ bits \in 1 .. (8 * align)
    BY DEF Narrow
<1>2. \A s : ConsideredEnd(s, at, bits, align) = s + bits - 1
    BY <1>1 DEF ConsideredEnd
<1>3. crosses_alignment_boundary(data, bits, align) <=> crosses
    BY <1>2 DEF crosses_alignment_boundary
<1>4. start = IF crosses THEN CeilDiv(at, 8 * align) * 8 * align ELSE at
    BY <1>3 DEF StartBit, AlignedStart
<1>5. (IF crosses THEN (at \div (8 * align)) * 8 * align + 8 * align ELSE at)
          + bits - 1 < XLen
    BY <1>2, <1>3 DEF has_room_for_bitfield
<1> HIDE DEF at
<1>6. CASE crosses
    <2>1. start = CeilDiv(at, 8 * align) * 8 * align
        BY <1>4, <1>6
    <2>2. (at + bits - 1) \div (8 * align) # at \div (8 * align)
        BY <1>6
    <2> HIDE DEF crosses
    \* Rounding up the offset of a field that crosses a boundary gives the
    \* next boundary, and the field then stays in its unit.
    <2>3. /\ start \in Nat
          /\ at <= start
          /\ start = (at \div (8 * align)) * 8 * align + 8 * align
          /\ start \div (8 * align) = (start + bits - 1) \div (8 * align)
        BY <1>1, <2>1, <2>2 DEF CeilDiv
    <2>4. start + bits - 1 < XLen
        BY <1>5, <1>6, <2>3
    <2> QED
        BY <2>3, <2>4 DEF at, StartsRight
<1>7. CASE ~ crosses
    <2>1. /\ start \in Nat /\ at <= start /\ start + bits - 1 < XLen
          /\ start \div (8 * align) = (start + bits - 1) \div (8 * align)
        BY <1>1, <1>4, <1>5, <1>7
    <2> QED
        BY <2>1 DEF at, StartsRight
<1> QED
    BY <1>6, <1>7

\* An integer starts at or after the next free bit and inside the register
\* that has room for it.
LEMMA IntegerStart ==
    ASSUME NEW data \in Seq(FieldType), NEW size \in {1, 2, 4, 8, 16},
           has_room_for_int(data, size),
           NEW start, start = StartBit(data, size, size)
    PROVE  start \in 0 .. (XLen - 1) /\ Offset(data) <= start
<1> DEFINE at == Offset(data)
<1> DEFINE crosses == (at + size - 1) \div (8 * size) # at \div (8 * size)
<1>1. at \in Nat
    BY OffsetType
<1>2. \A s : ConsideredEnd(s, at, size, size) = s + size - 1
    BY DEF ConsideredEnd
<1>3. crosses_alignment_boundary(data, size, size) <=> crosses
    BY <1>2 DEF crosses_alignment_boundary
<1>4. start = IF crosses THEN CeilDiv(at, 8 * size) * 8 * size ELSE at
    BY <1>3 DEF StartBit, AlignedStart
<1>5. CASE data = << >>
    <2>1. at = 0
        BY <1>5, OffsetType
    <2>2. ~ crosses
        BY <2>1
    <2> QED
        BY <1>4, <2>1, <2>2 DEF XLen
<1>6. CASE data # << >>
    <2> DEFINE last == LastEnd(data)
    <2>1. last \in Nat /\ at = last + 1
        BY <1>6, OffsetType
    <2>2. CeilDiv(last, 8 * size) * 8 * size < 32
        BY <1>6 DEF has_room_for_int, XLen
    <2> HIDE DEF last
    <2>3. crosses <=> (last + size) \div (8 * size) # (last + 1) \div (8 * size)
        BY <2>1
    <2> HIDE DEF at, crosses
    <2>4. last + 1 < 32
        BY <2>1, <2>2, RoundLast
    <2>5. CASE crosses
        <3>1. start = CeilDiv(last + 1, 8 * size) * 8 * size
            BY <1>4, <2>1, <2>5
        <3>2. start \in Nat /\ last + 1 <= start /\ start < 32
            BY <2>1, <2>2, <2>3, <2>5, <3>1, RoundLast
        <3>3. start \in 0 .. (XLen - 1)
            BY <3>2, InsideRegister
        <3>4. at <= start
            BY <2>1, <3>2
        <3> QED
            BY <3>3, <3>4 DEF at
    <2>6. CASE ~ crosses
        BY <1>4, <2>1, <2>4, <2>6 DEF XLen, at
    <2> QED
        BY <2>5, <2>6
<1> QED
    BY <1>5, <1>6

-----------------------------------------------------------------------------
(***************************************************************************)
(* A register in order stays in order.                                     *)
(***************************************************************************)

Sound(data, ms) ==
    \A i \in DOMAIN data :
        /\ data[i].of \in DOMAIN ms
        /\ IsBitfield(ms[data[i].of]) => InUnit(data[i], ms[data[i].of])

Good(data, ms) == data \in Seq(FieldType) /\ Ordered(data) /\ Sound(data, ms)

\* A field for the next member that starts behind the others.
Fits(data, f, ms, m) ==
    /\ f \in FieldType
    /\ Offset(data) <= f.low /\ f.low <= f.high
    /\ f.of = Len(ms) + 1
    /\ IsBitfield(m) => InUnit(f, m)

\* The members that follow do not disturb a register.
LEMMA GoodKept ==
    ASSUME NEW ms \in Seq(Members), NEW m \in Members, NEW data, Good(data, ms)
    PROVE  Good(data, Append(ms, m))
<1>1. \A k \in DOMAIN ms : k \in DOMAIN Append(ms, m) /\ Append(ms, m)[k] = ms[k]
    OBVIOUS
<1> QED
    BY <1>1 DEF Good, Sound

\* The registers accept a field that fits.
LEMMA GoodExtends ==
    ASSUME NEW ms \in Seq(Members), NEW m \in Members,
           NEW data, Good(data, ms), NEW f, Fits(data, f, ms, m)
    PROVE  Good(Append(data, f), Append(ms, m))
<1> DEFINE more == Append(data, f)
<1> DEFINE msm == Append(ms, m)
<1>1. data \in Seq(FieldType) /\ f \in FieldType
    BY DEF Good, Fits
<1>2. more \in Seq(FieldType) /\ Len(more) = Len(data) + 1
    BY <1>1
<1>3. \A i \in DOMAIN more :
          \/ i \in DOMAIN data /\ more[i] = data[i] /\ i < Len(more)
          \/ i = Len(more) /\ more[i] = f
    BY <1>1
<1>4. msm[Len(ms) + 1] = m /\ Len(ms) + 1 \in DOMAIN msm
    OBVIOUS
<1>5. Good(data, msm)
    BY GoodKept
<1>6. \A i \in DOMAIN data : data[i].low \in Nat /\ data[i].high \in Nat
    <2> TAKE i \in DOMAIN data
    <2>1. data[i] \in FieldType
        BY <1>1
    <2> QED
        BY <2>1, FieldBits
<1>7. f.low \in Nat /\ f.high \in Nat
    BY <1>1, FieldBits
<1>8. \A i \in DOMAIN data : data[i].high < f.low
    <2> TAKE i \in DOMAIN data
    <2>1. data # << >> /\ i \in 1 .. Len(data) /\ Len(data) \in DOMAIN data
        BY <1>1
    <2>2. LastEnd(data) < f.low
        BY <1>1, <1>7, <2>1, OffsetType DEF Fits
    <2>3. i = Len(data) \/ data[i].high < data[Len(data)].high
        <3>1. i = Len(data) \/ i < Len(data)
            BY <1>1, <2>1
        <3>2. i < Len(data) => data[i].high < data[Len(data)].low
            BY <2>1 DEF Good, Ordered
        <3>3. data[Len(data)].low <= data[Len(data)].high
            BY <2>1 DEF Good, Ordered
        <3> QED
            BY <1>6, <2>1, <3>1, <3>2, <3>3
    <2> QED
        BY <1>6, <1>7, <2>1, <2>2, <2>3 DEF LastEnd
<1>9. Ordered(more)
    <2>1. \A i \in DOMAIN more : more[i].low <= more[i].high
        BY <1>3 DEF Good, Ordered, Fits
    <2>2. ASSUME NEW i \in DOMAIN more, NEW j \in DOMAIN more, i < j
          PROVE  more[i].high < more[j].low
        <3>1. i \in DOMAIN data /\ more[i] = data[i]
            BY <1>1, <1>2, <1>3, <2>2
        <3>2. CASE j \in DOMAIN data /\ more[j] = data[j]
            BY <2>2, <3>1, <3>2 DEF Good, Ordered
        <3>3. CASE more[j] = f
            BY <1>8, <3>1, <3>3
        <3> QED
            BY <1>3, <3>2, <3>3
    <2> QED
        BY <2>1, <2>2 DEF Ordered
<1>10. Sound(more, msm)
    BY <1>3, <1>4, <1>5 DEF Good, Sound, Fits
<1> QED
    BY <1>2, <1>9, <1>10 DEF Good

LEMMA GoodEmpty ==
    ASSUME NEW ms PROVE Good(<< >>, ms)
BY DEF Good, Ordered, Sound

\* The field of a fresh register.
LEMMA GoodFresh ==
    ASSUME NEW ms \in Seq(Members), NEW m \in Members, NEW f, Fits(<< >>, f, ms, m)
    PROVE  Good(<<f>>, Append(ms, m))
<1>1. Good(Append(<< >>, f), Append(ms, m))
    BY GoodEmpty, GoodExtends
<1>2. Append(<< >>, f) = <<f>>
    OBVIOUS
<1> QED
    BY <1>1, <1>2

-----------------------------------------------------------------------------
(***************************************************************************)
(* What the three kinds of members add fits.                               *)
(***************************************************************************)

LEMMA Alignments ==
    ASSUME NEW m \in Members
    PROVE  /\ m.size \in {1, 2, 4, 8, 16} /\ m.bits \in Nat
           /\ ByteSizeOf(m.type) > 0 =>
                 ByteSizeOf(m.type) \in {1, 2, 4, 8} /\ m.bits <= 8 * ByteSizeOf(m.type)
<1>1. /\ m.size \in {1, 2, 4, 8, 16} /\ m.bits \in 0 .. 64
      /\ m.bits <= 8 * m.size /\ ByteSizeOf(m.type) \in {0, m.size}
    BY MembersAssumption
<1>2. ByteSizeOf(m.type) \in {0, 1, 2, 4, 8}
    BY DEF ByteSizeOf
<1>3. ASSUME ByteSizeOf(m.type) > 0 PROVE ByteSizeOf(m.type) = m.size
    BY <1>1, <1>2, <1>3
<1> QED
    BY <1>1, <1>2, <1>3

LEMMA BitfieldFits ==
    ASSUME members \in Seq(Members), NEW m \in Members, IsBitfield(m),
           ByteSizeOf(m.type) > 0, NEW data \in Seq(FieldType),
           has_room_for_bitfield(data, m.bits, ByteSizeOf(m.type))
    PROVE  Fits(data, BitfieldField(data, m), members, m)
<1> DEFINE align == ByteSizeOf(m.type)
<1> DEFINE start == StartBit(data, m.bits, align)
<1> DEFINE f == BitfieldField(data, m)
<1>1. align \in {1, 2, 4, 8} /\ m.bits \in Nat /\ m.bits \in 1 .. (8 * align)
    BY Alignments DEF IsBitfield
<1>2. Offset(data) \in Nat
    BY OffsetType
<1>3. f = [low |-> start, high |-> start + m.bits - 1, of |-> Len(members) + 1]
    BY DEF BitfieldField, Field
<1> HIDE DEF align, f
<1>4. /\ start \in Nat
      /\ Offset(data) <= start
      /\ start + m.bits - 1 < XLen
      /\ start \div (8 * align) = (start + m.bits - 1) \div (8 * align)
    <2>1. has_room_for_bitfield(data, m.bits, align)
        BY DEF align
    <2>2. Narrow(m.bits, align)
        BY <1>1 DEF Narrow
    <2>3. StartsRight(data, m.bits, align, start)
        BY <1>1, <1>2, <2>1, <2>2, BitfieldStart
    <2> QED
        BY <2>3 DEF StartsRight
<1> HIDE DEF start
<1>5. f \in FieldType /\ f.low <= f.high
    <2>1. start + m.bits - 1 \in Nat /\ start <= start + m.bits - 1 /\ start < 32
        <3>1. m.bits \in Nat /\ m.bits >= 1
            BY <1>1
        <3>2. start \in Nat /\ start + m.bits - 1 < 32
            BY <1>4 DEF XLen
        <3> QED
            BY <3>1, <3>2
    <2>2. start \in 0 .. (XLen - 1)
        BY <1>4, <2>1, InsideRegister
    <2>3. Len(members) + 1 \in Nat
        OBVIOUS
    <2> QED
        BY <1>3, <2>1, <2>2, <2>3 DEF FieldType
<1>6. InUnit(f, m)
    BY <1>3, <1>4 DEF InUnit, align
<1> QED
    BY <1>3, <1>4, <1>5, <1>6 DEF Fits, f

LEMMA IntegerFits ==
    ASSUME members \in Seq(Members), NEW m \in Members, IsInteger(m),
           NEW data \in Seq(FieldType), has_room_for_int(data, m.size)
    PROVE  Fits(data, IntegerField(data, m), members, m)
<1> DEFINE start == StartBit(data, m.size, m.size)
<1> DEFINE f == IntegerField(data, m)
<1>1. m.size \in {1, 2, 4, 8, 16}
    BY Alignments
<1>2. f = [low |-> start, high |-> start + 8 * m.size - 1, of |-> Len(members) + 1]
    BY DEF IntegerField, Field
<1>3. start \in 0 .. (XLen - 1) /\ Offset(data) <= start
    BY <1>1, IntegerStart
<1> HIDE DEF start, f
<1>4. f \in FieldType /\ f.low <= f.high
    <2>1. start + 8 * m.size - 1 \in Nat /\ start <= start + 8 * m.size - 1
        BY <1>1, <1>3 DEF XLen
    <2>2. Len(members) + 1 \in Nat \ {0}
        OBVIOUS
    <2> QED
        BY <1>2, <1>3, <2>1, <2>2 DEF FieldType
<1>5. f.of = Len(members) + 1
    BY <1>2
<1>6. Offset(data) <= f.low
    BY <1>2, <1>3
<1>7. ~ IsBitfield(m)
    BY DEF IsInteger
<1> QED
    BY <1>4, <1>5, <1>6, <1>7 DEF Fits, f

LEMMA FloatFits ==
    ASSUME members \in Seq(Members), NEW m \in Members, IsFloat(m)
    PROVE  Fits(<< >>, FloatField(m), members, m)
<1>1. m.size \in {1, 2, 4, 8, 16}
    BY Alignments
<1>2. Offset(<< >>) = 0
    BY DEF Offset
<1> QED
    BY <1>1, <1>2 DEF Fits, FloatField, Field, FieldType, IsFloat, XLen

-----------------------------------------------------------------------------
(***************************************************************************)
(* The layout's invariant.                                                 *)
(***************************************************************************)

RegsGood == \A r \in DOMAIN regs : Good(regs[r].data, members)
LayoutInv == TypeOK /\ RegsGood /\ Good(active, members)

LEMMA NextMemberType ==
    ASSUME TypeOK, NEW m \in Members, NextMember(m)
    PROVE  /\ members \in Seq(Members) /\ members' = Append(members, m)
           /\ members' \in Seq(Members)
BY DEF TypeOK, NextMember

\* The registers that are full stay in order when a member and registers in
\* order are added.
LEMMA RegsKept ==
    ASSUME LayoutInv, NEW m \in Members, NextMember(m),
           NEW more \in Seq(Register),
           \A i \in DOMAIN more : Good(more[i].data, members'),
           regs' = regs \o more
    PROVE  regs' \in Seq(Register) /\ RegsGood'
<1>1. members \in Seq(Members) /\ members' = Append(members, m)
    BY NextMemberType DEF LayoutInv
<1>2. regs \in Seq(Register)
    BY DEF LayoutInv, TypeOK
<1>3. \A r \in DOMAIN regs : Good(regs[r].data, members')
    BY <1>1, GoodKept DEF LayoutInv, RegsGood
<1>4. \A r \in DOMAIN regs' :
          \/ r \in DOMAIN regs /\ regs'[r] = regs[r]
          \/ r - Len(regs) \in DOMAIN more /\ regs'[r] = more[r - Len(regs)]
    BY <1>2
<1>5. RegsGood'
    BY <1>3, <1>4 DEF RegsGood
<1> QED
    BY <1>2, <1>5

\* A register of fields, none of them missing.
LEMMA IntRegType ==
    ASSUME NEW data \in Seq(FieldType), data # << >>
    PROVE  /\ IntReg(data) \in Register /\ IntReg(data).data = data
           /\ <<IntReg(data)>> \in Seq(Register)
BY DEF IntReg, Register

LEMMA PlaceGood ==
    ASSUME LayoutInv, NEW m \in Members, NextMember(m),
           NEW room \in BOOLEAN, NEW here, NEW fresh, Place(room, here, fresh),
           room => Fits(active, here, members, m),
           ~ room => active # << >> /\ Fits(<< >>, fresh, members, m)
    PROVE  LayoutInv'
<1>1. /\ members \in Seq(Members) /\ members' = Append(members, m)
      /\ members' \in Seq(Members)
    BY NextMemberType DEF LayoutInv
<1>2. active \in Seq(FieldType) /\ Good(active, members) /\ regs \in Seq(Register)
    BY DEF LayoutInv, TypeOK
<1>3. CASE room
    <2>1. active' = Append(active, here) /\ regs' = regs
        BY <1>3 DEF Place
    <2>2. Good(active', members')
        BY <1>1, <1>2, <1>3, <2>1, GoodExtends
    <2>3. regs' \in Seq(Register) /\ RegsGood'
        BY <1>1, <1>2, <2>1, GoodKept DEF LayoutInv, RegsGood
    <2> QED
        BY <1>1, <2>2, <2>3 DEF LayoutInv, TypeOK, Place, NextMember, Good
<1>4. CASE ~ room
    <2>1. active' = <<fresh>> /\ regs' = Append(regs, IntReg(active))
        BY <1>4 DEF Place
    <2>2. Good(active', members')
        BY <1>1, <1>4, <2>1, GoodFresh
    <2>3. regs' = regs \o <<IntReg(active)>>
        BY <1>2, <1>4, <2>1, IntRegType
    <2>4. \A i \in DOMAIN <<IntReg(active)>> : Good(<<IntReg(active)>>[i].data, members')
        BY <1>1, <1>2, <1>4, GoodKept, IntRegType
    <2>5. regs' \in Seq(Register) /\ RegsGood'
        BY <1>2, <1>4, <2>3, <2>4, IntRegType, RegsKept
    <2> QED
        BY <1>1, <2>2, <2>5 DEF LayoutInv, TypeOK, Place, NextMember, Good
<1> QED
    BY <1>3, <1>4

\* Closing the active register.
LEMMA ClosedGood ==
    ASSUME LayoutInv
    PROVE  /\ Closed \in Seq(Register)
           /\ \A i \in DOMAIN Closed : Good(Closed[i].data, members)
BY IntRegType DEF LayoutInv, TypeOK, Closed

LEMMA AddFloatGood ==
    ASSUME LayoutInv, NEW m \in Members, AddFloat(m)
    PROVE  LayoutInv'
<1> DEFINE float == FloatReg(<<FloatField(m)>>)
<1> DEFINE more == Closed \o <<float>>
<1>1. NextMember(m) /\ IsFloat(m) /\ regs' = regs \o Closed \o <<float>>
      /\ active' = << >> /\ phase' = phase
    BY DEF AddFloat
<1>2. /\ members \in Seq(Members) /\ members' = Append(members, m)
      /\ members' \in Seq(Members)
    BY <1>1, NextMemberType DEF LayoutInv
<1>3. Fits(<< >>, FloatField(m), members, m)
    BY <1>1, <1>2, FloatFits
<1>4. Good(<<FloatField(m)>>, members')
    BY <1>2, <1>3, GoodFresh
<1>5. float \in Register /\ float.data = <<FloatField(m)>>
    BY <1>4 DEF FloatReg, Register, Good
<1>6. Closed \in Seq(Register)
    BY ClosedGood
<1>7. \A i \in DOMAIN Closed : Good(Closed[i].data, members')
    BY <1>2, ClosedGood, GoodKept
<1> HIDE DEF float
<1>8. more \in Seq(Register)
    BY <1>5, <1>6
<1>9. \A i \in DOMAIN more :
          (i \in DOMAIN Closed /\ more[i] = Closed[i]) \/ more[i] = float
    BY <1>5, <1>6
<1>10. \A i \in DOMAIN more : Good(more[i].data, members')
    BY <1>4, <1>5, <1>7, <1>9
<1>11. regs' = regs \o more
    BY <1>1, <1>5, <1>6 DEF LayoutInv, TypeOK
<1> HIDE DEF more
<1>12. regs' \in Seq(Register) /\ RegsGood'
    BY <1>1, <1>8, <1>10, <1>11, RegsKept
<1>13. Good(active', members')
    BY <1>1, GoodEmpty
<1> QED
    BY <1>1, <1>2, <1>12, <1>13 DEF LayoutInv, TypeOK, NextMember, Good

LEMMA InitLayout == Init => LayoutInv
<1> SUFFICES ASSUME Init PROVE LayoutInv
    OBVIOUS
<1>1. Good(active, members)
    BY GoodEmpty DEF Init
<1> QED
    BY <1>1 DEF Init, LayoutInv, TypeOK, RegsGood

\* The sources of a register are physical registers.
LEMMA SourceType ==
    ASSUME NEW reg PROVE Source(reg) \in SUBSET Place_s
BY DEF Source, FirstFree, Pair, Place_s

LEMMA NextLayout == LayoutInv /\ [Next]_vars => LayoutInv'
<1> SUFFICES ASSUME LayoutInv, [Next]_vars PROVE LayoutInv'
    OBVIOUS
<1>1. ASSUME NEW m \in Members, AddBitfield(m) PROVE LayoutInv'
    <2> DEFINE align == ByteSizeOf(m.type)
    <2> DEFINE room == has_room_for_bitfield(active, m.bits, align)
    <2>1. /\ IsBitfield(m) /\ HasPlace(m) /\ NextMember(m)
          /\ Place(room, BitfieldField(active, m), BitfieldField(<< >>, m))
        BY <1>1 DEF AddBitfield
    <2>2. members \in Seq(Members) /\ active \in Seq(FieldType) /\ << >> \in Seq(FieldType)
        BY DEF LayoutInv, TypeOK
    <2>3. align > 0 /\ (room \/ has_room_for_bitfield(<< >>, m.bits, align))
        BY <2>1 DEF HasPlace
    <2>4. room => Fits(active, BitfieldField(active, m), members, m)
        BY <2>1, <2>2, <2>3, BitfieldFits
    <2>5. ~ room => active # << >> /\ Fits(<< >>, BitfieldField(<< >>, m), members, m)
        BY <2>1, <2>2, <2>3, BitfieldFits
    <2>6. room \in BOOLEAN
        BY DEF has_room_for_bitfield
    <2> HIDE DEF room
    <2> QED
        BY <2>1, <2>4, <2>5, <2>6, PlaceGood
<1>2. ASSUME NEW m \in Members, AddInteger(m) PROVE LayoutInv'
    <2> DEFINE room == has_room_for_int(active, m.size)
    <2>1. /\ IsInteger(m) /\ NextMember(m)
          /\ Place(room, IntegerField(active, m), IntegerField(<< >>, m))
        BY <1>2 DEF AddInteger
    <2>2. members \in Seq(Members) /\ active \in Seq(FieldType) /\ << >> \in Seq(FieldType)
        BY DEF LayoutInv, TypeOK
    <2>3. has_room_for_int(<< >>, m.size)
        BY DEF has_room_for_int
    <2>4. room => Fits(active, IntegerField(active, m), members, m)
        BY <2>1, <2>2, IntegerFits
    <2>5. ~ room => active # << >> /\ Fits(<< >>, IntegerField(<< >>, m), members, m)
        BY <2>1, <2>2, <2>3, IntegerFits
    <2>6. room \in BOOLEAN
        BY DEF has_room_for_int
    <2> HIDE DEF room
    <2> QED
        BY <2>1, <2>4, <2>5, <2>6, PlaceGood
<1>3. ASSUME NEW m \in Members, AddFloat(m) PROVE LayoutInv'
    BY <1>3, AddFloatGood
<1>4. ASSUME NEW m \in Members, Reject(m) PROVE LayoutInv'
    <2>1. /\ members \in Seq(Members) /\ members' = Append(members, m)
          /\ members' \in Seq(Members) /\ regs' = regs /\ active' = active
        BY <1>4, NextMemberType DEF LayoutInv, Reject
    <2>2. RegsGood' /\ Good(active', members')
        BY <2>1, GoodKept DEF LayoutInv, RegsGood
    <2> QED
        BY <1>4, <2>1, <2>2 DEF LayoutInv, TypeOK, Reject, NextMember
<1>5. CASE FinishLayout
    <2>1. regs' = regs \o Closed /\ members' = members /\ active' = << >>
        BY <1>5 DEF FinishLayout
    <2>2. regs \in Seq(Register) /\ Closed \in Seq(Register)
        BY ClosedGood DEF LayoutInv, TypeOK
    <2>3. \A r \in DOMAIN regs' :
              \/ r \in DOMAIN regs /\ regs'[r] = regs[r]
              \/ r - Len(regs) \in DOMAIN Closed /\ regs'[r] = Closed[r - Len(regs)]
        BY <2>1, <2>2
    <2>4. RegsGood'
        BY <2>1, <2>3, ClosedGood DEF LayoutInv, RegsGood
    <2>5. Good(active', members')
        BY <2>1, GoodEmpty
    <2> QED
        BY <1>5, <2>1, <2>2, <2>4, <2>5 DEF LayoutInv, TypeOK, FinishLayout
<1>6. CASE ReadRegister
    <2>1. reads' \in Seq(SUBSET Place_s)
        BY <1>6, SourceType DEF ReadRegister, LayoutInv, TypeOK
    <2> QED
        BY <1>6, <2>1 DEF ReadRegister, LayoutInv, TypeOK, RegsGood
<1>7. CASE OutOfRegisters
    <2>1. regs \in Seq(Register)
        BY DEF LayoutInv, TypeOK
    <2>2. reads' = [i \in 1 .. Len(regs) |-> {"memory"}] /\ Len(regs) \in Nat
        BY <1>7, <2>1 DEF OutOfRegisters
    <2>3. {"memory"} \in SUBSET Place_s
        BY DEF Place_s
    <2>4. reads' \in Seq(SUBSET Place_s)
        BY <2>2, <2>3
    <2> QED
        BY <1>7, <2>4 DEF OutOfRegisters, LayoutInv, TypeOK, RegsGood
<1>8. CASE FinishReading
    BY <1>8 DEF FinishReading, LayoutInv, TypeOK, RegsGood
<1>9. CASE Stopped \/ UNCHANGED vars
    BY <1>9 DEF Stopped, vars, LayoutInv, TypeOK, RegsGood
<1> QED
    BY <1>1, <1>2, <1>3, <1>4, <1>5, <1>6, <1>7, <1>8, <1>9 DEF Next, Layout

LEMMA LayoutCorrect == Spec => []LayoutInv
<1> QED
    BY InitLayout, NextLayout, PTL DEF Spec
-----------------------------------------------------------------------------
(***************************************************************************)
(* No member is lost.  The registers are rows, the active one the last: a  *)
(* field keeps its row and place when its register is closed, so a step    *)
(* either moves nothing or adds one field behind all others.               *)
(***************************************************************************)

\* Registers rs with active register a.
RowOf(rs, a, r) == IF r <= Len(rs) THEN rs[r].data ELSE a
Has(rs, a, r, i) == r \in 1 .. (Len(rs) + 1) /\ i \in DOMAIN RowOf(rs, a, r)
FieldAt(rs, a, r, i) == RowOf(rs, a, r)[i]
Before(r, i, s, j) == r < s \/ (r = s /\ i < j)

Width(m) == IF IsBitfield(m) THEN m.bits ELSE 8 * m.size
AsWideAs(f, m) == f.high = f.low + Width(m) - 1

\* The fields are those of the members, in their order.
Placed(rs, a, ms) ==
    /\ \A r, i \in Nat :
          Has(rs, a, r, i) =>
              /\ FieldAt(rs, a, r, i).of \in DOMAIN ms
              /\ AsWideAs(FieldAt(rs, a, r, i), ms[FieldAt(rs, a, r, i).of])
    /\ \A r, i, s, j \in Nat :
          Has(rs, a, r, i) /\ Has(rs, a, s, j) /\ Before(r, i, s, j) =>
              FieldAt(rs, a, r, i).of < FieldAt(rs, a, s, j).of
    /\ \A k \in DOMAIN ms : \E r, i \in Nat : Has(rs, a, r, i) /\ FieldAt(rs, a, r, i).of = k

\* The field of the next member goes behind the others of the active register.
LEMMA PlacedAdd ==
    ASSUME NEW rs \in Seq(Register), NEW a \in Seq(FieldType), NEW ms \in Seq(Members),
           NEW m \in Members, NEW f, Placed(rs, a, ms), f.of = Len(ms) + 1, AsWideAs(f, m)
    PROVE  Placed(rs, Append(a, f), Append(ms, m))
<1> DEFINE b == Append(a, f)
<1> DEFINE n == Append(ms, m)
<1> DEFINE r0 == Len(rs) + 1
<1> DEFINE i0 == Len(a) + 1
<1>1. /\ Len(rs) \in Nat /\ Len(a) \in Nat /\ DOMAIN a = 1 .. Len(a)
      /\ DOMAIN b = 1 .. (Len(a) + 1) /\ b[i0] = f /\ \A i \in DOMAIN a : b[i] = a[i]
    OBVIOUS
<1>2. /\ Len(ms) \in Nat /\ DOMAIN ms = 1 .. Len(ms) /\ DOMAIN n = 1 .. (Len(ms) + 1)
      /\ n[Len(ms) + 1] = m /\ \A k \in DOMAIN ms : n[k] = ms[k]
    OBVIOUS
<1> HIDE DEF b, n
<1>3. ASSUME NEW r \in Nat, NEW i \in Nat, Has(rs, a, r, i)
      PROVE  /\ Has(rs, b, r, i) /\ FieldAt(rs, b, r, i) = FieldAt(rs, a, r, i)
             /\ Before(r, i, r0, i0)
    BY <1>1, <1>3 DEF Has, RowOf, FieldAt, Before
<1>4. ASSUME NEW r \in Nat, NEW i \in Nat, Has(rs, b, r, i)
      PROVE  Has(rs, a, r, i) \/ (r = r0 /\ i = i0)
    BY <1>1, <1>4 DEF Has, RowOf
<1>5. r0 \in Nat /\ i0 \in Nat /\ Has(rs, b, r0, i0) /\ FieldAt(rs, b, r0, i0) = f
    BY <1>1 DEF Has, RowOf, FieldAt
<1> HIDE DEF r0, i0
<1>6. ASSUME NEW r \in Nat, NEW i \in Nat, Has(rs, b, r, i)
      PROVE  /\ FieldAt(rs, b, r, i).of \in DOMAIN n
             /\ AsWideAs(FieldAt(rs, b, r, i), n[FieldAt(rs, b, r, i).of])
    <2>1. CASE Has(rs, a, r, i)
        <3>1. FieldAt(rs, a, r, i).of \in DOMAIN ms
            BY <2>1 DEF Placed
        <3>2. AsWideAs(FieldAt(rs, a, r, i), ms[FieldAt(rs, a, r, i).of])
            BY <2>1 DEF Placed
        <3>3. FieldAt(rs, b, r, i) = FieldAt(rs, a, r, i)
            BY <1>3, <2>1
        <3> QED
            BY <1>2, <3>1, <3>2, <3>3
    <2>2. CASE r = r0 /\ i = i0
        BY <1>2, <1>5, <2>2
    <2> QED
        BY <1>4, <1>6, <2>1, <2>2
<1>7. ASSUME NEW r \in Nat, NEW i \in Nat, NEW s \in Nat, NEW j \in Nat,
             Has(rs, b, r, i), Has(rs, b, s, j), Before(r, i, s, j)
      PROVE  FieldAt(rs, b, r, i).of < FieldAt(rs, b, s, j).of
    <2>1. Has(rs, a, r, i)
        <3>1. CASE r = r0 /\ i = i0
            <4>1. ~ Has(rs, a, s, j)
                BY <1>3, <1>5, <1>7, <3>1 DEF Before
            <4>2. s = r0 /\ j = i0
                BY <1>4, <1>7, <4>1
            <4> QED
                BY <1>5, <1>7, <3>1, <4>2 DEF Before
        <3> QED
            BY <1>4, <1>7, <3>1
    <2>2. /\ FieldAt(rs, b, r, i) = FieldAt(rs, a, r, i)
          /\ FieldAt(rs, a, r, i).of \in DOMAIN ms
        BY <1>3, <2>1 DEF Placed
    <2>3. CASE Has(rs, a, s, j)
        <3>1. FieldAt(rs, b, s, j) = FieldAt(rs, a, s, j)
            BY <1>3, <2>3
        <3>2. FieldAt(rs, a, r, i).of < FieldAt(rs, a, s, j).of
            BY <1>7, <2>1, <2>3 DEF Placed
        <3> QED
            BY <2>2, <3>1, <3>2
    <2>4. CASE s = r0 /\ j = i0
        <3>1. FieldAt(rs, b, s, j).of = Len(ms) + 1
            BY <1>5, <2>4
        <3>2. FieldAt(rs, b, r, i).of \in 1 .. Len(ms)
            BY <1>2, <2>2
        <3> QED
            BY <1>2, <3>1, <3>2
    <2> QED
        BY <1>4, <1>7, <2>3, <2>4
<1>8. ASSUME NEW k \in DOMAIN n
      PROVE  \E r, i \in Nat : Has(rs, b, r, i) /\ FieldAt(rs, b, r, i).of = k
    <2>1. CASE k \in DOMAIN ms
        <3>1. PICK r \in Nat, i \in Nat : Has(rs, a, r, i) /\ FieldAt(rs, a, r, i).of = k
            BY <2>1 DEF Placed
        <3>2. Has(rs, b, r, i) /\ FieldAt(rs, b, r, i) = FieldAt(rs, a, r, i)
            BY <1>3, <3>1
        <3> QED
            BY <3>1, <3>2
    <2>2. CASE k = Len(ms) + 1
        BY <1>5, <2>2
    <2> QED
        BY <1>2, <2>1, <2>2
<1>9. Placed(rs, b, n)
    BY <1>6, <1>7, <1>8, Zenon DEF Placed
<1> QED
    BY <1>9 DEF b, n

\* Closing the active register moves no field.
LEMMA PlacedClose ==
    ASSUME NEW rs \in Seq(Register), NEW a \in Seq(FieldType), NEW ms \in Seq(Members),
           NEW reg \in Register, reg.data = a, Placed(rs, a, ms)
    PROVE  Placed(Append(rs, reg), << >>, ms)
<1> DEFINE rt == Append(rs, reg)
<1>1. /\ Len(rs) \in Nat /\ Len(rt) = Len(rs) + 1
      /\ rt[Len(rs) + 1] = reg /\ \A r \in 1 .. Len(rs) : rt[r] = rs[r]
    OBVIOUS
<1> HIDE DEF rt
<1>2. ASSUME NEW r \in Nat, NEW i \in Nat
      PROVE  /\ Has(rt, << >>, r, i) <=> Has(rs, a, r, i)
             /\ Has(rs, a, r, i) => FieldAt(rt, << >>, r, i) = FieldAt(rs, a, r, i)
    <2>1. CASE r \in 1 .. Len(rs)
        BY <1>1, <2>1 DEF Has, RowOf, FieldAt
    <2>2. CASE r = Len(rs) + 1
        BY <1>1, <2>2 DEF Has, RowOf, FieldAt
    <2>3. CASE r = 0 \/ r > Len(rs) + 1
        BY <1>1, <2>3 DEF Has, RowOf, FieldAt
    <2> QED
        BY <1>1, <2>1, <2>2, <2>3
<1>3. \A r, i \in Nat :
          Has(rt, << >>, r, i) =>
              /\ FieldAt(rt, << >>, r, i).of \in DOMAIN ms
              /\ AsWideAs(FieldAt(rt, << >>, r, i), ms[FieldAt(rt, << >>, r, i).of])
    <2> TAKE r, i \in Nat
    <2> HAVE Has(rt, << >>, r, i)
    <2>1. Has(rs, a, r, i) /\ FieldAt(rt, << >>, r, i) = FieldAt(rs, a, r, i)
        BY <1>2
    <2>2. /\ FieldAt(rs, a, r, i).of \in DOMAIN ms
          /\ AsWideAs(FieldAt(rs, a, r, i), ms[FieldAt(rs, a, r, i).of])
        BY <2>1 DEF Placed
    <2> QED
        BY <2>1, <2>2
<1>4. \A r, i, s, j \in Nat :
          Has(rt, << >>, r, i) /\ Has(rt, << >>, s, j) /\ Before(r, i, s, j) =>
              FieldAt(rt, << >>, r, i).of < FieldAt(rt, << >>, s, j).of
    <2> TAKE r, i, s, j \in Nat
    <2> HAVE Has(rt, << >>, r, i) /\ Has(rt, << >>, s, j) /\ Before(r, i, s, j)
    <2>1. /\ Has(rs, a, r, i) /\ FieldAt(rt, << >>, r, i) = FieldAt(rs, a, r, i)
          /\ Has(rs, a, s, j) /\ FieldAt(rt, << >>, s, j) = FieldAt(rs, a, s, j)
        BY <1>2
    <2>2. FieldAt(rs, a, r, i).of < FieldAt(rs, a, s, j).of
        BY <2>1 DEF Placed
    <2> QED
        BY <2>1, <2>2
<1>5. \A k \in DOMAIN ms :
          \E r, i \in Nat : Has(rt, << >>, r, i) /\ FieldAt(rt, << >>, r, i).of = k
    <2> TAKE k \in DOMAIN ms
    <2>1. PICK r \in Nat, i \in Nat : Has(rs, a, r, i) /\ FieldAt(rs, a, r, i).of = k
        BY DEF Placed
    <2>2. Has(rt, << >>, r, i) /\ FieldAt(rt, << >>, r, i) = FieldAt(rs, a, r, i)
        BY <1>2, <2>1
    <2> QED
        BY <2>1, <2>2
<1>6. Placed(rt, << >>, ms)
    BY <1>3, <1>4, <1>5, Zenon DEF Placed
<1> QED
    BY <1>6 DEF rt

PlacedInv == phase # "failed" => Placed(regs, active, members)

\* A register that has one.
LEMMA ClosedPlaced ==
    ASSUME LayoutInv, Placed(regs, active, members)
    PROVE  regs \o Closed \in Seq(Register) /\ Placed(regs \o Closed, << >>, members)
<1>1. /\ regs \in Seq(Register) /\ active \in Seq(FieldType) /\ members \in Seq(Members)
    BY DEF LayoutInv, TypeOK
<1>2. CASE active = << >>
    <2>1. regs \o Closed = regs
        BY <1>1, <1>2 DEF Closed
    <2> QED
        BY <1>1, <1>2, <2>1
<1>3. CASE active # << >>
    <2>1. IntReg(active) \in Register /\ IntReg(active).data = active
        BY <1>1, <1>3, IntRegType
    <2>2. regs \o Closed = Append(regs, IntReg(active))
        BY <1>1, <1>3, <2>1 DEF Closed
    <2>3. Append(regs, IntReg(active)) \in Seq(Register)
        BY <1>1, <2>1
    <2> QED
        BY <1>1, <2>1, <2>2, <2>3, PlacedClose
<1> QED
    BY <1>2, <1>3

\* What Place does with a field for the next member.
LEMMA PlacePlaced ==
    ASSUME LayoutInv, Placed(regs, active, members), NEW m \in Members, NextMember(m),
           NEW room, NEW here, NEW fresh, Place(room, here, fresh),
           here.of = Len(members) + 1, AsWideAs(here, m),
           fresh.of = Len(members) + 1, AsWideAs(fresh, m),
           ~ room => active # << >>
    PROVE  Placed(regs', active', members')
<1>1. /\ regs \in Seq(Register) /\ active \in Seq(FieldType)
      /\ members \in Seq(Members) /\ members' = Append(members, m)
    BY NextMemberType DEF LayoutInv, TypeOK
<1>2. CASE room
    <2>1. active' = Append(active, here) /\ regs' = regs
        BY <1>2 DEF Place
    <2> QED
        BY <1>1, <2>1, PlacedAdd
<1>3. CASE ~ room
    <2>1. active' = <<fresh>> /\ regs' = Append(regs, IntReg(active))
        BY <1>3 DEF Place
    <2>2. IntReg(active) \in Register /\ IntReg(active).data = active
        BY <1>1, <1>3, IntRegType
    <2>3. regs' \in Seq(Register) /\ Placed(regs', << >>, members)
        BY <1>1, <2>1, <2>2, PlacedClose
    <2>4. Placed(regs', Append(<< >>, fresh), members')
        <3>1. << >> \in Seq(FieldType)
            OBVIOUS
        <3> QED
            BY <1>1, <2>3, <3>1, PlacedAdd
    <2>5. Append(<< >>, fresh) = <<fresh>>
        OBVIOUS
    <2> QED
        BY <2>1, <2>4, <2>5
<1> QED
    BY <1>2, <1>3

\* The fields are made for the next member, as wide as it is.
LEMMA FieldOfMember ==
    ASSUME NEW data, NEW m \in Members
    PROVE  /\ BitfieldField(data, m).of = Len(members) + 1
           /\ IsBitfield(m) => AsWideAs(BitfieldField(data, m), m)
           /\ IntegerField(data, m).of = Len(members) + 1
           /\ ~ IsBitfield(m) => AsWideAs(IntegerField(data, m), m)
           /\ FloatField(m).of = Len(members) + 1
           /\ ~ IsBitfield(m) => AsWideAs(FloatField(m), m)
BY DEF BitfieldField, IntegerField, FloatField, Field, AsWideAs, Width

\* A float closes the active register and then its own.
LEMMA FloatPlaced ==
    ASSUME LayoutInv, Placed(regs, active, members), NEW m \in Members, AddFloat(m)
    PROVE  Placed(regs', active', members')
<1> DEFINE before == regs \o Closed
<1> DEFINE float == FloatReg(<<FloatField(m)>>)
<1>1. /\ NextMember(m) /\ IsFloat(m) /\ regs' = before \o <<float>> /\ active' = << >>
    BY DEF AddFloat
<1>2. members \in Seq(Members) /\ members' = Append(members, m) /\ members' \in Seq(Members)
    BY <1>1, NextMemberType DEF LayoutInv
<1>3. before \in Seq(Register) /\ Placed(before, << >>, members)
    BY ClosedPlaced
<1>4. FloatField(m) \in FieldType
    BY <1>1, <1>2, FloatFits DEF Fits
<1>5. FloatField(m).of = Len(members) + 1 /\ AsWideAs(FloatField(m), m)
    BY <1>1, FieldOfMember DEF IsFloat
<1>6. float \in Register /\ float.data = <<FloatField(m)>> /\ <<FloatField(m)>> \in Seq(FieldType)
    BY <1>4 DEF FloatReg, Register
<1> HIDE DEF before, float
<1>7. Placed(before, Append(<< >>, FloatField(m)), members')
    <2>1. << >> \in Seq(FieldType)
        OBVIOUS
    <2> QED
        BY <1>2, <1>3, <1>5, <2>1, PlacedAdd
<1>8. Append(<< >>, FloatField(m)) = <<FloatField(m)>>
    OBVIOUS
<1>9. Placed(Append(before, float), << >>, members')
    BY <1>2, <1>3, <1>6, <1>7, <1>8, PlacedClose
<1>10. before \o <<float>> = Append(before, float)
    BY <1>3, <1>6
<1> QED
    BY <1>1, <1>9, <1>10

\* Each step adds the next member's field or moves none.
LEMMA NextPlaced == LayoutInv /\ PlacedInv /\ [Next]_vars => PlacedInv'
<1> SUFFICES ASSUME LayoutInv, PlacedInv, [Next]_vars PROVE PlacedInv'
    OBVIOUS
<1>1. ASSUME NEW m \in Members, AddBitfield(m) PROVE PlacedInv'
    <2> DEFINE align == ByteSizeOf(m.type)
    <2> DEFINE room == has_room_for_bitfield(active, m.bits, align)
    <2>1. /\ IsBitfield(m) /\ HasPlace(m) /\ NextMember(m)
          /\ Place(room, BitfieldField(active, m), BitfieldField(<< >>, m))
        BY <1>1 DEF AddBitfield
    <2>2. ~ room => active # << >>
        BY <2>1 DEF HasPlace
    <2>3. Placed(regs, active, members)
        BY <2>1 DEF PlacedInv, NextMember
    <2> HIDE DEF room
    <2> QED
        BY <2>1, <2>2, <2>3, FieldOfMember, PlacePlaced DEF PlacedInv
<1>2. ASSUME NEW m \in Members, AddInteger(m) PROVE PlacedInv'
    <2> DEFINE room == has_room_for_int(active, m.size)
    <2>1. /\ ~ IsBitfield(m) /\ NextMember(m)
          /\ Place(room, IntegerField(active, m), IntegerField(<< >>, m))
        BY <1>2 DEF AddInteger, IsInteger
    <2>2. ~ room => active # << >>
        BY DEF has_room_for_int
    <2>3. Placed(regs, active, members)
        BY <2>1 DEF PlacedInv, NextMember
    <2> HIDE DEF room
    <2> QED
        BY <2>1, <2>2, <2>3, FieldOfMember, PlacePlaced DEF PlacedInv
<1>3. ASSUME NEW m \in Members, AddFloat(m) PROVE PlacedInv'
    <2>1. Placed(regs, active, members)
        BY <1>3 DEF PlacedInv, AddFloat, NextMember
    <2> QED
        BY <1>3, <2>1, FloatPlaced DEF PlacedInv
<1>4. ASSUME NEW m \in Members, Reject(m) PROVE PlacedInv'
    BY <1>4 DEF Reject, PlacedInv
<1>5. CASE FinishLayout
    <2>1. Placed(regs, active, members)
        BY <1>5 DEF FinishLayout, PlacedInv
    <2> QED
        BY <1>5, <2>1, ClosedPlaced DEF FinishLayout, PlacedInv
<1>6. CASE ReadRegister \/ OutOfRegisters \/ FinishReading \/ Stopped \/ UNCHANGED vars
    BY <1>6 DEF ReadRegister, OutOfRegisters, FinishReading, Stopped, vars, PlacedInv
<1> QED
    BY <1>1, <1>2, <1>3, <1>4, <1>5, <1>6 DEF Next, Layout

\* The registers of the finished layout hold the rows' fields.
LEMMA PlacedGives == LayoutInv /\ PlacedInv => MembersPlaced
<1> SUFFICES ASSUME LayoutInv, Placed(regs, active, members)
             PROVE  MembersPlaced
    BY DEF PlacedInv, MembersPlaced
<1> DEFINE all == regs \o Closed
<1> DEFINE slots == UNION { {r} \X DOMAIN all[r].data : r \in DOMAIN all }
<1>1. all \in Seq(Register) /\ Placed(all, << >>, members)
    BY ClosedPlaced
<1>2. members \in Seq(Members)
    BY DEF LayoutInv, TypeOK
<1> HIDE DEF all
<1>3. ASSUME NEW r \in Nat, NEW i \in Nat, Has(all, << >>, r, i)
      PROVE  <<r, i>> \in slots /\ FieldAt(all, << >>, r, i) = all[r].data[i]
    BY <1>1, <1>3 DEF Has, RowOf, FieldAt
<1>4. ASSUME NEW s \in slots
      PROVE  /\ s[1] \in Nat /\ s[2] \in Nat /\ s = <<s[1], s[2]>> /\ Has(all, << >>, s[1], s[2])
             /\ FieldAt(all, << >>, s[1], s[2]) = all[s[1]].data[s[2]]
    <2>1. PICK r \in DOMAIN all : s \in {r} \X DOMAIN all[r].data
        BY <1>4
    <2>2. s[1] = r /\ s[2] \in DOMAIN all[r].data /\ s = <<s[1], s[2]>>
        BY <2>1
    <2>3. r \in Nat /\ r \in 1 .. (Len(all) + 1) /\ r <= Len(all) /\ all[r] \in Register
        BY <1>1, <2>1
    <2>4. all[r].data \in Seq(FieldType)
        BY <2>3 DEF Register
    <2>5. s[2] \in Nat
        BY <2>2, <2>4
    <2> QED
        BY <2>2, <2>3, <2>5 DEF Has, RowOf, FieldAt
<1> HIDE DEF slots
<1>5. { all[s[1]].data[s[2]].of : s \in slots } = DOMAIN members
    <2>1. ASSUME NEW s \in slots PROVE all[s[1]].data[s[2]].of \in DOMAIN members
        <3>1. /\ s[1] \in Nat /\ s[2] \in Nat /\ Has(all, << >>, s[1], s[2])
              /\ FieldAt(all, << >>, s[1], s[2]) = all[s[1]].data[s[2]]
            BY <1>4
        <3>2. FieldAt(all, << >>, s[1], s[2]).of \in DOMAIN members
            BY <1>1, <3>1 DEF Placed
        <3> QED
            BY <3>1, <3>2
    <2>2. ASSUME NEW k \in DOMAIN members PROVE \E s \in slots : all[s[1]].data[s[2]].of = k
        <3>1. PICK r \in Nat, i \in Nat : Has(all, << >>, r, i) /\ FieldAt(all, << >>, r, i).of = k
            BY <1>1 DEF Placed
        <3>2. <<r, i>> \in slots /\ FieldAt(all, << >>, r, i) = all[r].data[i]
            BY <1>3, <3>1
        <3>3. <<r, i>>[1] = r /\ <<r, i>>[2] = i
            OBVIOUS
        <3> QED
            BY <3>1, <3>2, <3>3
    <2> QED
        BY <2>1, <2>2
<1>6. \A s \in slots :
          AsWideAs(all[s[1]].data[s[2]], members[all[s[1]].data[s[2]].of])
    <2> TAKE s \in slots
    <2>1. /\ s[1] \in Nat /\ s[2] \in Nat /\ Has(all, << >>, s[1], s[2])
          /\ FieldAt(all, << >>, s[1], s[2]) = all[s[1]].data[s[2]]
        BY <1>4
    <2>2. AsWideAs(FieldAt(all, << >>, s[1], s[2]), members[FieldAt(all, << >>, s[1], s[2]).of])
        BY <1>1, <2>1 DEF Placed
    <2> QED
        BY <2>1, <2>2
<1>7. ASSUME NEW s \in slots, NEW t \in slots, Before(s[1], s[2], t[1], t[2])
      PROVE  all[s[1]].data[s[2]].of < all[t[1]].data[t[2]].of
    <2>1. /\ s[1] \in Nat /\ s[2] \in Nat /\ Has(all, << >>, s[1], s[2])
          /\ FieldAt(all, << >>, s[1], s[2]) = all[s[1]].data[s[2]]
        BY <1>4
    <2>2. /\ t[1] \in Nat /\ t[2] \in Nat /\ Has(all, << >>, t[1], t[2])
          /\ FieldAt(all, << >>, t[1], t[2]) = all[t[1]].data[t[2]]
        BY <1>4
    <2>3. FieldAt(all, << >>, s[1], s[2]).of < FieldAt(all, << >>, t[1], t[2]).of
        BY <1>1, <1>7, <2>1, <2>2 DEF Placed
    <2> QED
        BY <2>1, <2>2, <2>3
<1>8. ASSUME NEW s \in slots, NEW t \in slots, all[s[1]].data[s[2]].of < all[t[1]].data[t[2]].of
      PROVE  Before(s[1], s[2], t[1], t[2])
    <2>1. all[s[1]].data[s[2]].of \in Nat /\ all[t[1]].data[t[2]].of \in Nat
        <3>1. all[s[1]].data[s[2]].of \in DOMAIN members /\ all[t[1]].data[t[2]].of \in DOMAIN members
            BY <1>5
        <3>2. DOMAIN members \subseteq Nat
            BY <1>2
        <3> QED
            BY <3>1, <3>2
    <2>2. ~ Before(t[1], t[2], s[1], s[2])
        BY <1>7, <1>8, <2>1
    <2>3. s # t
        BY <1>8, <2>1
    <2>4. s[1] # t[1] \/ s[2] # t[2]
        BY <1>4, <2>3
    <2> QED
        BY <1>4, <2>2, <2>4 DEF Before
<1> QED
    BY <1>5, <1>6, <1>7, <1>8 DEF MembersPlaced, AsWideAs, Width, Before, all, slots

-----------------------------------------------------------------------------
(***************************************************************************)
(* Plain integers end at a byte of the register.                           *)
(***************************************************************************)

Plain(ms) == \A k \in DOMAIN ms : ~ IsBitfield(ms[k]) /\ ms[k].size <= 4
EndsAtByte(data) == \A i \in DOMAIN data : data[i].high \in {7, 15, 23, 31}

\* With room behind a field that ends at a byte, so does the next.
LEMMA IntegerEnd ==
    ASSUME NEW data \in Seq(FieldType), EndsAtByte(data), NEW size \in {1, 2, 4},
           has_room_for_int(data, size)
    PROVE  StartBit(data, size, size) + 8 * size - 1 \in {7, 15, 23, 31}
<1> DEFINE at == Offset(data)
<1> DEFINE crosses == (at + size - 1) \div (8 * size) # at \div (8 * size)
<1>1. at \in Nat
    BY OffsetType
<1>2. \A s : ConsideredEnd(s, at, size, size) = s + size - 1
    BY DEF ConsideredEnd
<1>3. crosses_alignment_boundary(data, size, size) <=> crosses
    BY <1>2 DEF crosses_alignment_boundary
<1>4. StartBit(data, size, size) = IF crosses THEN CeilDiv(at, 8 * size) * 8 * size ELSE at
    BY <1>3 DEF StartBit, AlignedStart
<1>5. CASE data = << >>
    <2>1. at = 0
        BY <1>5, OffsetType
    <2>2. ~ crosses
        BY <2>1
    <2> QED
        BY <1>4, <2>1, <2>2
<1>6. CASE data # << >>
    <2> DEFINE last == LastEnd(data)
    <2>1. last \in {7, 15, 23, 31} /\ at = last + 1
        BY <1>6, OffsetType DEF EndsAtByte, LastEnd
    <2>2. CeilDiv(last, 8 * size) * 8 * size < 32
        BY <1>6 DEF has_room_for_int, XLen
    <2> HIDE DEF last, at
    <2>3. CASE size = 1
        BY <1>4, <2>1, <2>2, <2>3 DEF CeilDiv
    <2>4. CASE size = 2
        BY <1>4, <2>1, <2>2, <2>4 DEF CeilDiv
    <2>5. CASE size = 4
        BY <1>4, <2>1, <2>2, <2>5 DEF CeilDiv
    <2> QED
        BY <2>3, <2>4, <2>5
<1> QED
    BY <1>5, <1>6

FitInv ==
    Plain(members) =>
        /\ EndsAtByte(active)
        /\ \A r \in DOMAIN regs : ~ regs[r].float => EndsAtByte(regs[r].data)

\* A member that is no plain integer ends the premise or closes a register.
LEMMA NextFit == LayoutInv /\ FitInv /\ [Next]_vars => FitInv'
<1> SUFFICES ASSUME LayoutInv, FitInv, [Next]_vars, Plain(members') PROVE FitInv'
    BY DEF FitInv
<1>1. /\ regs \in Seq(Register) /\ active \in Seq(FieldType) /\ members \in Seq(Members)
    BY DEF LayoutInv, TypeOK
<1>2. ASSUME NEW m \in Members, NextMember(m)
      PROVE  /\ ~ IsBitfield(m) /\ m.size \in {1, 2, 4}
             /\ EndsAtByte(active) /\ \A r \in DOMAIN regs : ~ regs[r].float => EndsAtByte(regs[r].data)
    <2>1. members' = Append(members, m)
        BY <1>2 DEF NextMember
    <2>2. /\ Len(members) + 1 \in DOMAIN members' /\ members'[Len(members) + 1] = m
          /\ \A k \in DOMAIN members : k \in DOMAIN members' /\ members'[k] = members[k]
        BY <1>1, <2>1
    <2>3. ~ IsBitfield(m) /\ m.size <= 4 /\ Plain(members)
        BY <2>2 DEF Plain
    <2>4. m.size \in {1, 2, 4, 8, 16}
        BY Alignments
    <2> QED
        BY <2>3, <2>4 DEF FitInv
<1>3. ASSUME NEW m \in Members, AddBitfield(m) PROVE FitInv'
    BY <1>2, <1>3 DEF AddBitfield
<1>4. ASSUME NEW m \in Members, AddInteger(m) PROVE FitInv'
    <2>1. NextMember(m)
        BY <1>4 DEF AddInteger
    <2>2. /\ m.size \in {1, 2, 4} /\ EndsAtByte(active)
          /\ \A r \in DOMAIN regs : ~ regs[r].float => EndsAtByte(regs[r].data)
        BY <1>2, <2>1
    <2>3. CASE has_room_for_int(active, m.size)
        <3>1. active' = Append(active, IntegerField(active, m)) /\ regs' = regs
            BY <1>4, <2>3 DEF AddInteger, Place
        <3>2. IntegerField(active, m).high \in {7, 15, 23, 31}
            BY <1>1, <2>2, <2>3, IntegerEnd DEF IntegerField, Field
        <3>3. \A i \in DOMAIN active' :
                  (i \in DOMAIN active /\ active'[i] = active[i]) \/ active'[i] = IntegerField(active, m)
            BY <1>1, <3>1
        <3>4. EndsAtByte(active')
            BY <2>2, <3>2, <3>3 DEF EndsAtByte
        <3> QED
            BY <2>2, <3>1, <3>4 DEF FitInv
    <2>4. CASE ~ has_room_for_int(active, m.size)
        <3>1. active' = <<IntegerField(<< >>, m)>> /\ regs' = Append(regs, IntReg(active))
            BY <1>4, <2>4 DEF AddInteger, Place
        <3>2. << >> \in Seq(FieldType) /\ EndsAtByte(<< >>) /\ has_room_for_int(<< >>, m.size)
            BY DEF EndsAtByte, has_room_for_int
        <3>3. IntegerField(<< >>, m).high \in {7, 15, 23, 31}
            BY <2>2, <3>2, IntegerEnd DEF IntegerField, Field
        <3>4. EndsAtByte(active')
            BY <3>1, <3>3 DEF EndsAtByte
        <3>5. \A r \in DOMAIN regs' :
                  (r \in DOMAIN regs /\ regs'[r] = regs[r]) \/ regs'[r] = IntReg(active)
            BY <1>1, <3>1
        <3>6. IntReg(active).data = active
            BY DEF IntReg
        <3> QED
            BY <2>2, <3>4, <3>5, <3>6 DEF FitInv
    <2> QED
        BY <2>3, <2>4
<1>5. ASSUME NEW m \in Members, AddFloat(m) PROVE FitInv'
    <2> DEFINE float == FloatReg(<<FloatField(m)>>)
    <2>1. NextMember(m) /\ regs' = regs \o Closed \o <<float>> /\ active' = << >>
        BY <1>5 DEF AddFloat
    <2>2. float.float
        BY DEF FloatReg
    <2>3. Closed \in Seq(Register)
        BY ClosedGood
    <2> HIDE DEF float
    <2>4. \A r \in DOMAIN regs' :
              \/ r \in DOMAIN regs /\ regs'[r] = regs[r]
              \/ \E i \in DOMAIN Closed : regs'[r] = Closed[i]
              \/ regs'[r] = float
        <3>1. regs \o Closed \in Seq(Register)
            BY <1>1, <2>3
        <3>2. \A r \in DOMAIN (regs \o Closed) :
                  \/ r \in DOMAIN regs /\ (regs \o Closed)[r] = regs[r]
                  \/ \E i \in DOMAIN Closed : (regs \o Closed)[r] = Closed[i]
            <4> TAKE r \in DOMAIN (regs \o Closed)
            <4>1. CASE r \in DOMAIN regs
                BY <1>1, <2>3, <4>1
            <4>2. CASE r \notin DOMAIN regs
                <5>1. r - Len(regs) \in DOMAIN Closed /\ (regs \o Closed)[r] = Closed[r - Len(regs)]
                    BY <1>1, <2>3, <4>2
                <5> QED
                    BY <5>1
            <4> QED
                BY <4>1, <4>2
        <3> DEFINE both == regs \o Closed
        <3>3. both \in Seq(Register) /\ regs' = both \o <<float>>
            BY <2>1, <3>1
        <3> HIDE DEF both
        <3>4. \A r \in DOMAIN regs' : (r \in DOMAIN both /\ regs'[r] = both[r]) \/ regs'[r] = float
            BY <3>3
        <3> QED
            BY <3>2, <3>4 DEF both
    <2>5. \A i \in DOMAIN Closed : Closed[i].data = active
        BY DEF Closed, IntReg
    <2>6. EndsAtByte(active) /\ \A r \in DOMAIN regs : ~ regs[r].float => EndsAtByte(regs[r].data)
        BY <1>2, <2>1
    <2>7. EndsAtByte(active')
        BY <2>1 DEF EndsAtByte
    <2>8. ASSUME NEW r \in DOMAIN regs', ~ regs'[r].float PROVE EndsAtByte(regs'[r].data)
        BY <2>2, <2>4, <2>5, <2>6, <2>8
    <2> QED
        BY <2>7, <2>8 DEF FitInv
<1>6. ASSUME NEW m \in Members, Reject(m) PROVE FitInv'
    BY <1>2, <1>6 DEF Reject, FitInv
<1>7. CASE FinishLayout
    <2>1. regs' = regs \o Closed /\ members' = members /\ active' = << >>
        BY <1>7 DEF FinishLayout
    <2>2. Closed \in Seq(Register) /\ \A i \in DOMAIN Closed : Closed[i].data = active
        BY ClosedGood DEF Closed, IntReg
    <2>3. ASSUME NEW r \in DOMAIN regs'
          PROVE  \/ r \in DOMAIN regs /\ regs'[r] = regs[r]
                 \/ regs'[r].data = active
        <3>1. \/ r \in DOMAIN regs /\ regs'[r] = regs[r]
              \/ r - Len(regs) \in DOMAIN Closed /\ regs'[r] = Closed[r - Len(regs)]
            BY <1>1, <2>1, <2>2
        <3> QED
            BY <2>2, <3>1
    <2> QED
        BY <2>1, <2>3 DEF FitInv, EndsAtByte
<1>8. CASE ReadRegister \/ OutOfRegisters \/ FinishReading \/ Stopped \/ UNCHANGED vars
    BY <1>8 DEF ReadRegister, OutOfRegisters, FinishReading, Stopped, vars, FitInv
<1> QED
    BY <1>3, <1>4, <1>5, <1>6, <1>7, <1>8 DEF Next, Layout

-----------------------------------------------------------------------------
(***************************************************************************)
(* Registers are read from memory exactly when they run out.  The taken    *)
(* ones of a bank are counted by the registers of its kind read so far.    *)
(***************************************************************************)

IntRegs == { i \in DOMAIN regs : ~ regs[i].float }
SingleRegs == { i \in DOMAIN regs : regs[i].float /\ FloatSize(regs[i]) = 4 }
DoubleRegs == { i \in DOMAIN regs : regs[i].float /\ FloatSize(regs[i]) = 8 }

\* How many of the first n registers are of kind X.
First(X, n) == Cardinality(X \cap (1 .. n))

\* Counting one more register adds at most one, and all of them the whole kind.
LEMMA FirstStep ==
    ASSUME NEW len \in Nat, NEW X \in SUBSET (1 .. len), NEW n \in Nat
    PROVE  /\ First(X, n) \in Nat /\ First(X, 0) = 0
           /\ First(X, n + 1) = First(X, n) + (IF n + 1 \in X THEN 1 ELSE 0)
           /\ Cardinality(X) \in Nat /\ First(X, n) <= Cardinality(X)
           /\ First(X, len) = Cardinality(X)
<1>1. IsFiniteSet(X) /\ Cardinality(X) \in Nat
    <2>1. IsFiniteSet(1 .. len)
        BY FS_Interval
    <2>2. IsFiniteSet(X)
        BY <2>1, FS_Subset
    <2> QED
        BY <2>2, FS_CardinalityType
<1>2. IsFiniteSet(X \cap (1 .. n)) /\ First(X, n) \in Nat /\ First(X, n) <= Cardinality(X)
    <2>1. X \cap (1 .. n) \in SUBSET X
        OBVIOUS
    <2>2. IsFiniteSet(X \cap (1 .. n)) /\ Cardinality(X \cap (1 .. n)) <= Cardinality(X)
        BY <1>1, <2>1, FS_Subset
    <2> QED
        BY <2>2, FS_CardinalityType DEF First
<1>3. First(X, 0) = 0
    <2>1. X \cap (1 .. 0) = {}
        OBVIOUS
    <2> QED
        BY <2>1, FS_EmptySet DEF First
<1>4. First(X, n + 1) = First(X, n) + (IF n + 1 \in X THEN 1 ELSE 0)
    <2>1. CASE n + 1 \in X
        <3>1. X \cap (1 .. (n + 1)) = (X \cap (1 .. n)) \cup {n + 1} /\ n + 1 \notin X \cap (1 .. n)
            BY <2>1
        <3>2. Cardinality((X \cap (1 .. n)) \cup {n + 1}) = Cardinality(X \cap (1 .. n)) + 1
            BY <1>2, <3>1, FS_AddElement
        <3> QED
            BY <2>1, <3>1, <3>2 DEF First
    <2>2. CASE n + 1 \notin X
        <3>1. X \cap (1 .. (n + 1)) = X \cap (1 .. n)
            BY <2>2
        <3> QED
            BY <1>2, <2>2, <3>1 DEF First
    <2> QED
        BY <2>1, <2>2
<1>5. First(X, len) = Cardinality(X)
    <2>1. X \cap (1 .. len) = X
        OBVIOUS
    <2> QED
        BY <2>1 DEF First
<1> QED
    BY <1>1, <1>2, <1>3, <1>4, <1>5

\* n registers of a bank are in use, the first one first.
Bank(one, two, n) ==
    /\ one \in Taken <=> n >= 1
    /\ two \in Taken <=> n >= 2
    /\ n <= 2

InUse(n) ==
    IF hard
    THEN /\ Bank("a0", "a1", First(IntRegs, n))
         /\ Bank("fa0", "fa1", First(SingleRegs, n) + First(DoubleRegs, n))
    ELSE Bank("a0", "a1", First(IntRegs, n) + First(SingleRegs, n) + 2 * First(DoubleRegs, n))

FloatsSized == \A r \in DOMAIN regs : regs[r].float => FloatSize(regs[r]) \in {4, 8}

Assigning ==
    /\ Len(reads) <= Len(regs)
    /\ \A k \in DOMAIN reads : reads[k] # {} /\ "memory" \notin reads[k]
    /\ \A k, l \in DOMAIN reads : k # l => reads[k] \cap reads[l] = {}
    /\ InUse(Len(reads))

ReadsInv ==
    /\ FloatsSized
    /\ phase = "layout" => reads = << >>
    /\ phase = "assign" => Assigning
    /\ AssignmentExact

\* The kinds and what the property counts of them.
LEMMA Kinds ==
    ASSUME LayoutInv, FloatsSized
    PROVE  /\ Len(regs) \in Nat /\ DOMAIN regs = 1 .. Len(regs)
           /\ IntRegs \in SUBSET (1 .. Len(regs))
           /\ SingleRegs \in SUBSET (1 .. Len(regs))
           /\ DoubleRegs \in SUBSET (1 .. Len(regs))
           /\ Ints = Cardinality(IntRegs)
           /\ Singles = Cardinality(SingleRegs)
           /\ Doubles = Cardinality(DoubleRegs)
           /\ \A r \in DOMAIN regs :
                 \/ r \in IntRegs /\ r \notin SingleRegs /\ r \notin DoubleRegs
                    /\ ~ regs[r].float
                 \/ r \notin IntRegs /\ r \in SingleRegs /\ r \notin DoubleRegs
                    /\ regs[r].float /\ FloatSize(regs[r]) = 4
                 \/ r \notin IntRegs /\ r \notin SingleRegs /\ r \in DoubleRegs
                    /\ regs[r].float /\ FloatSize(regs[r]) = 8
<1>1. Len(regs) \in Nat /\ DOMAIN regs = 1 .. Len(regs)
    BY DEF LayoutInv, TypeOK
<1>2. \A r \in DOMAIN regs :
          \/ r \in IntRegs /\ r \notin SingleRegs /\ r \notin DoubleRegs /\ ~ regs[r].float
          \/ r \notin IntRegs /\ r \in SingleRegs /\ r \notin DoubleRegs
             /\ regs[r].float /\ FloatSize(regs[r]) = 4
          \/ r \notin IntRegs /\ r \notin SingleRegs /\ r \in DoubleRegs
             /\ regs[r].float /\ FloatSize(regs[r]) = 8
    BY DEF FloatsSized, IntRegs, SingleRegs, DoubleRegs
<1>3. /\ Ints = Cardinality(IntRegs)
      /\ Singles = Cardinality(SingleRegs)
      /\ Doubles = Cardinality(DoubleRegs)
    BY DEF Ints, Singles, Doubles, Count, IntRegs, SingleRegs, DoubleRegs
<1> QED
    BY <1>1, <1>2, <1>3 DEF IntRegs, SingleRegs, DoubleRegs

\* The counts up to the register that is read, and after it.
LEMMA Counted ==
    ASSUME LayoutInv, FloatsSized, NEW n \in Nat, n < Len(regs)
    PROVE  /\ First(IntRegs, n) \in Nat /\ First(SingleRegs, n) \in Nat /\ First(DoubleRegs, n) \in Nat
           /\ Ints \in Nat /\ Singles \in Nat /\ Doubles \in Nat
           /\ First(IntRegs, n + 1) <= Ints
           /\ First(SingleRegs, n + 1) <= Singles
           /\ First(DoubleRegs, n + 1) <= Doubles
           /\ \/ /\ ~ regs[n + 1].float
                 /\ First(IntRegs, n + 1) = First(IntRegs, n) + 1
                 /\ First(SingleRegs, n + 1) = First(SingleRegs, n)
                 /\ First(DoubleRegs, n + 1) = First(DoubleRegs, n)
              \/ /\ regs[n + 1].float /\ FloatSize(regs[n + 1]) = 4
                 /\ First(IntRegs, n + 1) = First(IntRegs, n)
                 /\ First(SingleRegs, n + 1) = First(SingleRegs, n) + 1
                 /\ First(DoubleRegs, n + 1) = First(DoubleRegs, n)
              \/ /\ regs[n + 1].float /\ FloatSize(regs[n + 1]) = 8
                 /\ First(IntRegs, n + 1) = First(IntRegs, n)
                 /\ First(SingleRegs, n + 1) = First(SingleRegs, n)
                 /\ First(DoubleRegs, n + 1) = First(DoubleRegs, n) + 1
<1>1. Len(regs) \in Nat /\ n + 1 \in Nat /\ n + 1 \in DOMAIN regs
    BY Kinds
<1>2. /\ First(IntRegs, n) \in Nat /\ Ints \in Nat /\ First(IntRegs, n + 1) <= Ints
      /\ First(IntRegs, n + 1) = First(IntRegs, n) + (IF n + 1 \in IntRegs THEN 1 ELSE 0)
    <2>1. IntRegs \in SUBSET (1 .. Len(regs)) /\ Ints = Cardinality(IntRegs)
        BY Kinds
    <2> QED
        BY <1>1, <2>1, FirstStep
<1>3. /\ First(SingleRegs, n) \in Nat /\ Singles \in Nat /\ First(SingleRegs, n + 1) <= Singles
      /\ First(SingleRegs, n + 1) = First(SingleRegs, n) + (IF n + 1 \in SingleRegs THEN 1 ELSE 0)
    <2>1. SingleRegs \in SUBSET (1 .. Len(regs)) /\ Singles = Cardinality(SingleRegs)
        BY Kinds
    <2> QED
        BY <1>1, <2>1, FirstStep
<1>4. /\ First(DoubleRegs, n) \in Nat /\ Doubles \in Nat /\ First(DoubleRegs, n + 1) <= Doubles
      /\ First(DoubleRegs, n + 1) = First(DoubleRegs, n) + (IF n + 1 \in DoubleRegs THEN 1 ELSE 0)
    <2>1. DoubleRegs \in SUBSET (1 .. Len(regs)) /\ Doubles = Cardinality(DoubleRegs)
        BY Kinds
    <2> QED
        BY <1>1, <2>1, FirstStep
<1>5. \/ /\ n + 1 \in IntRegs /\ n + 1 \notin SingleRegs /\ n + 1 \notin DoubleRegs
         /\ ~ regs[n + 1].float
      \/ /\ n + 1 \notin IntRegs /\ n + 1 \in SingleRegs /\ n + 1 \notin DoubleRegs
         /\ regs[n + 1].float /\ FloatSize(regs[n + 1]) = 4
      \/ /\ n + 1 \notin IntRegs /\ n + 1 \notin SingleRegs /\ n + 1 \in DoubleRegs
         /\ regs[n + 1].float /\ FloatSize(regs[n + 1]) = 8
    BY <1>1, Kinds
<1> QED
    BY <1>2, <1>3, <1>4, <1>5

\* A register that is read takes what its bank has next.
LEMMA ReadTakes ==
    ASSUME LayoutInv, ReadsInv, ReadRegister
    PROVE  Assigning'
<1> DEFINE new == Source(ToRead)
<1>0. PICK n \in Nat : n = Len(reads)
    BY DEF LayoutInv, TypeOK
<1>1. /\ reads \in Seq(SUBSET Place_s) /\ n < Len(regs) /\ Assigning
      /\ reads' = Append(reads, new) /\ new # {} /\ UNCHANGED <<hard, regs>>
    BY <1>0 DEF ReadRegister, ReadsInv, LayoutInv, TypeOK
<1>2. ToRead = regs[n + 1]
    BY <1>0 DEF ToRead
<1>3. new \cap Taken = {} /\ "memory" \notin new
    BY DEF Source, FirstFree, Pair
<1>4. /\ Len(reads') = n + 1 /\ DOMAIN reads = 1 .. n /\ DOMAIN reads' = 1 .. (n + 1)
      /\ reads'[n + 1] = new /\ \A k \in DOMAIN reads : reads'[k] = reads[k]
    BY <1>0, <1>1
<1>5. Taken' = Taken \cup new
    BY <1>1, <1>4 DEF Taken
<1>6. \A k \in DOMAIN reads : reads[k] \subseteq Taken
    BY DEF Taken
<1>7. /\ First(IntRegs, n + 1)' = First(IntRegs, n + 1)
      /\ First(SingleRegs, n + 1)' = First(SingleRegs, n + 1)
      /\ First(DoubleRegs, n + 1)' = First(DoubleRegs, n + 1)
    BY <1>1 DEF First, IntRegs, SingleRegs, DoubleRegs
<1>8. InUse(n)
    BY <1>0, <1>1 DEF Assigning
<1> DEFINE i == First(IntRegs, n)
<1> DEFINE s == First(SingleRegs, n)
<1> DEFINE d == First(DoubleRegs, n)
<1>9. i \in Nat /\ s \in Nat /\ d \in Nat
    BY <1>1, Counted DEF ReadsInv
<1>10. \/ /\ ~ ToRead.float
          /\ First(IntRegs, n + 1) = i + 1 /\ First(SingleRegs, n + 1) = s /\ First(DoubleRegs, n + 1) = d
       \/ /\ ToRead.float /\ FloatSize(ToRead) = 4
          /\ First(IntRegs, n + 1) = i /\ First(SingleRegs, n + 1) = s + 1 /\ First(DoubleRegs, n + 1) = d
       \/ /\ ToRead.float /\ FloatSize(ToRead) = 8
          /\ First(IntRegs, n + 1) = i /\ First(SingleRegs, n + 1) = s /\ First(DoubleRegs, n + 1) = d + 1
    BY <1>1, <1>2, Counted DEF ReadsInv
<1> HIDE DEF i, s, d
<1>11. ASSUME hard PROVE InUse(n + 1)'
    <2>1. Bank("a0", "a1", i) /\ Bank("fa0", "fa1", s + d)
        BY <1>8, <1>11 DEF InUse, i, s, d
    <2>2. CASE ~ ToRead.float
        <3>1. new = FirstFree("a0", "a1")
            BY <2>2 DEF Source
        <3>2. \/ i = 0 /\ new = {"a0"}
              \/ i = 1 /\ new = {"a1"}
            BY <1>1, <1>9, <2>1, <3>1 DEF FirstFree, Bank
        <3> HIDE DEF new
        <3>3. /\ "a0" \in Taken \cup new <=> i + 1 >= 1
              /\ "a1" \in Taken \cup new <=> i + 1 >= 2
              /\ i + 1 <= 2
            BY <1>9, <2>1, <3>2 DEF Bank
        <3>4. /\ "fa0" \in Taken \cup new <=> s + d >= 1
              /\ "fa1" \in Taken \cup new <=> s + d >= 2
              /\ s + d <= 2
            BY <1>9, <2>1, <3>2 DEF Bank
        <3>5. /\ First(IntRegs, n + 1) = i + 1
              /\ First(SingleRegs, n + 1) + First(DoubleRegs, n + 1) = s + d
            BY <1>10, <2>2
        <3> QED
            BY <1>1, <1>5, <1>7, <1>11, <3>3, <3>4, <3>5 DEF InUse, Bank
    <2>3. CASE ToRead.float
        <3>1. new = FirstFree("fa0", "fa1")
            BY <1>11, <2>3 DEF Source
        <3>2. \/ s + d = 0 /\ new = {"fa0"}
              \/ s + d = 1 /\ new = {"fa1"}
            BY <1>1, <1>9, <2>1, <3>1 DEF FirstFree, Bank
        <3> HIDE DEF new
        <3>3. /\ "a0" \in Taken \cup new <=> i >= 1
              /\ "a1" \in Taken \cup new <=> i >= 2
              /\ i <= 2
            BY <1>9, <2>1, <3>2 DEF Bank
        <3>4. /\ "fa0" \in Taken \cup new <=> s + d + 1 >= 1
              /\ "fa1" \in Taken \cup new <=> s + d + 1 >= 2
              /\ s + d + 1 <= 2
            BY <1>9, <2>1, <3>2 DEF Bank
        <3>5. /\ First(IntRegs, n + 1) = i
              /\ First(SingleRegs, n + 1) + First(DoubleRegs, n + 1) = s + d + 1
            BY <1>9, <1>10, <2>3
        <3> QED
            BY <1>1, <1>5, <1>7, <1>11, <3>3, <3>4, <3>5 DEF InUse, Bank
    <2> QED
        BY <2>2, <2>3
<1>12. ASSUME ~ hard PROVE InUse(n + 1)'
    <2> DEFINE u == i + s + 2 * d
    <2>1. Bank("a0", "a1", u) /\ u \in Nat
        BY <1>8, <1>9, <1>12 DEF InUse, i, s, d
    <2>2. CASE ~ (ToRead.float /\ FloatSize(ToRead) = 8)
        <3>1. new = FirstFree("a0", "a1")
            BY <1>10, <1>12, <2>2 DEF Source
        <3> HIDE DEF u
        <3>2. \/ u = 0 /\ new = {"a0"}
              \/ u = 1 /\ new = {"a1"}
            BY <1>1, <2>1, <3>1 DEF FirstFree, Bank
        <3>3. First(IntRegs, n + 1) + First(SingleRegs, n + 1) + 2 * First(DoubleRegs, n + 1) = u + 1
            BY <1>9, <1>10, <2>2 DEF u
        <3> HIDE DEF new
        <3>4. /\ "a0" \in Taken \cup new <=> u + 1 >= 1
              /\ "a1" \in Taken \cup new <=> u + 1 >= 2
              /\ u + 1 <= 2
            BY <2>1, <3>2 DEF Bank
        <3> QED
            BY <1>1, <1>5, <1>7, <1>12, <3>3, <3>4 DEF InUse, Bank
    <2>3. CASE ToRead.float /\ FloatSize(ToRead) = 8
        <3>1. new = Pair
            BY <1>12, <2>3 DEF Source
        <3> HIDE DEF u
        <3>2. u = 0 /\ new = {"a0", "a1"}
            BY <1>1, <2>1, <3>1 DEF Pair, Bank
        <3>3. First(IntRegs, n + 1) + First(SingleRegs, n + 1) + 2 * First(DoubleRegs, n + 1) = 2
            BY <1>9, <1>10, <2>3, <3>2 DEF u
        <3> QED
            BY <1>1, <1>5, <1>7, <1>12, <3>2, <3>3 DEF InUse, Bank
    <2> QED
        BY <2>2, <2>3
<1>13. InUse(n + 1)'
    BY <1>11, <1>12
<1>14. /\ \A k \in DOMAIN reads' : reads'[k] # {} /\ "memory" \notin reads'[k]
       /\ \A k, l \in DOMAIN reads' : k # l => reads'[k] \cap reads'[l] = {}
    <2> HIDE DEF new
    <2>1. \A k \in DOMAIN reads' :
              \/ k \in DOMAIN reads /\ reads'[k] = reads[k]
              \/ k = n + 1 /\ reads'[k] = new
        BY <1>1, <1>4
    <2> QED
        BY <1>1, <1>3, <1>6, <2>1 DEF Assigning
<1>15. Len(reads') <= Len(regs')
    BY <1>1, <1>4, Kinds DEF ReadsInv
<1> QED
    BY <1>4, <1>13, <1>14, <1>15 DEF Assigning

\* Without a register for the next one, the layout needs more than there are.
LEMMA RunsOut ==
    ASSUME LayoutInv, ReadsInv, OutOfRegisters
    PROVE  Exhausted
<1> DEFINE n == Len(reads)
<1>1. n \in Nat /\ n < Len(regs) /\ InUse(n) /\ Source(regs[n + 1]) = {}
    BY DEF OutOfRegisters, ToRead, ReadsInv, Assigning, LayoutInv, TypeOK
<1> HIDE DEF n
<1> DEFINE i == First(IntRegs, n)
<1> DEFINE s == First(SingleRegs, n)
<1> DEFINE d == First(DoubleRegs, n)
<1>2. i \in Nat /\ s \in Nat /\ d \in Nat /\ Ints \in Nat /\ Singles \in Nat /\ Doubles \in Nat
    BY <1>1, Counted DEF ReadsInv
<1>3. \/ ~ regs[n + 1].float /\ i + 1 <= Ints /\ s <= Singles /\ d <= Doubles
      \/ /\ regs[n + 1].float /\ FloatSize(regs[n + 1]) = 4
         /\ i <= Ints /\ s + 1 <= Singles /\ d <= Doubles
      \/ /\ regs[n + 1].float /\ FloatSize(regs[n + 1]) = 8
         /\ i <= Ints /\ s <= Singles /\ d + 1 <= Doubles
    BY <1>1, Counted DEF ReadsInv
<1>4. CASE hard
    <2>1. Bank("a0", "a1", i) /\ Bank("fa0", "fa1", s + d)
        BY <1>1, <1>4 DEF InUse
    <2> HIDE DEF i, s, d
    <2>2. CASE ~ regs[n + 1].float
        <3>1. {"a0", "a1"} \subseteq Taken
            BY <1>1, <2>2 DEF Source, FirstFree
        <3>2. Ints > 2
            BY <1>2, <1>3, <2>1, <2>2, <3>1 DEF Bank
        <3> QED
            BY <1>4, <3>2 DEF Exhausted
    <2>3. CASE regs[n + 1].float
        <3>1. {"fa0", "fa1"} \subseteq Taken
            BY <1>1, <1>4, <2>3 DEF Source, FirstFree
        <3>2. Singles + Doubles > 2
            BY <1>2, <1>3, <2>1, <2>3, <3>1 DEF Bank
        <3> QED
            BY <1>4, <3>2 DEF Exhausted
    <2> QED
        BY <2>2, <2>3
<1>5. CASE ~ hard
    <2>1. Bank("a0", "a1", i + s + 2 * d)
        BY <1>1, <1>5 DEF InUse
    <2> HIDE DEF i, s, d
    <2>2. CASE ~ (regs[n + 1].float /\ FloatSize(regs[n + 1]) = 8)
        <3>1. Source(regs[n + 1]) = FirstFree("a0", "a1")
            BY <1>3, <1>5, <2>2 DEF Source
        <3>2. {"a0", "a1"} \subseteq Taken
            BY <1>1, <3>1 DEF FirstFree
        <3>3. Ints + Singles + 2 * Doubles > 2
            BY <1>2, <1>3, <2>1, <2>2, <3>2 DEF Bank
        <3> QED
            BY <1>5, <3>3 DEF Exhausted
    <2>3. CASE regs[n + 1].float /\ FloatSize(regs[n + 1]) = 8
        <3>1. Source(regs[n + 1]) = Pair
            BY <1>5, <2>3 DEF Source
        <3>2. "a0" \in Taken \/ "a1" \in Taken
            BY <1>1, <3>1 DEF Pair
        <3>3. i + s + 2 * d >= 1
            BY <1>2, <2>1, <3>2 DEF Bank
        <3>4. Ints + Singles + 2 * Doubles > 2
            BY <1>2, <1>3, <2>3, <3>3
        <3> QED
            BY <1>5, <3>4 DEF Exhausted
    <2> QED
        BY <2>2, <2>3
<1> QED
    BY <1>4, <1>5

\* With all registers read, they were enough.
LEMMA EnoughRead ==
    ASSUME LayoutInv, ReadsInv, FinishReading
    PROVE  ~ Exhausted
<1>1. Len(regs) \in Nat /\ InUse(Len(regs))
    BY Kinds DEF FinishReading, ReadsInv, Assigning
<1>2. /\ First(IntRegs, Len(regs)) = Ints /\ First(SingleRegs, Len(regs)) = Singles
      /\ First(DoubleRegs, Len(regs)) = Doubles
      /\ Ints \in Nat /\ Singles \in Nat /\ Doubles \in Nat
    <2>1. /\ IntRegs \in SUBSET (1 .. Len(regs)) /\ Ints = Cardinality(IntRegs)
          /\ SingleRegs \in SUBSET (1 .. Len(regs)) /\ Singles = Cardinality(SingleRegs)
          /\ DoubleRegs \in SUBSET (1 .. Len(regs)) /\ Doubles = Cardinality(DoubleRegs)
        BY Kinds DEF ReadsInv
    <2>2. First(IntRegs, Len(regs)) = Ints /\ Ints \in Nat
        BY <1>1, <2>1, FirstStep
    <2>3. First(SingleRegs, Len(regs)) = Singles /\ Singles \in Nat
        BY <1>1, <2>1, FirstStep
    <2>4. First(DoubleRegs, Len(regs)) = Doubles /\ Doubles \in Nat
        BY <1>1, <2>1, FirstStep
    <2> QED
        BY <2>2, <2>3, <2>4
<1>3. CASE hard
    <2>1. Ints <= 2 /\ Singles + Doubles <= 2
        BY <1>1, <1>2, <1>3 DEF InUse, Bank
    <2> QED
        BY <1>2, <1>3, <2>1 DEF Exhausted
<1>4. CASE ~ hard
    <2>1. Ints + Singles + 2 * Doubles <= 2
        BY <1>1, <1>2, <1>4 DEF InUse, Bank
    <2> QED
        BY <1>2, <1>4, <2>1 DEF Exhausted
<1> QED
    BY <1>3, <1>4

\* The size of a float in a register of its own is the member's.
LEMMA FloatRegSize ==
    ASSUME NEW m \in Members, IsFloat(m)
    PROVE  FloatSize(FloatReg(<<FloatField(m)>>)) \in {4, 8}
<1>1. m.size \in {4, 8}
    BY MembersAssumption DEF IsFloat
<1>2. LastEnd(<<FloatField(m)>>) = 8 * m.size - 1
    BY <1>1 DEF LastEnd, FloatField, Field
<1> QED
    BY <1>1, <1>2 DEF FloatSize, FloatReg

\* Registers that are added leave the floats sized.
LEMMA SizedKept ==
    ASSUME LayoutInv, FloatsSized, NEW more \in Seq(Register), regs' = regs \o more,
           \A i \in DOMAIN more : more[i].float => FloatSize(more[i]) \in {4, 8}
    PROVE  FloatsSized'
<1>1. regs \in Seq(Register)
    BY DEF LayoutInv, TypeOK
<1>2. \A r \in DOMAIN regs' :
          \/ r \in DOMAIN regs /\ regs'[r] = regs[r]
          \/ r - Len(regs) \in DOMAIN more /\ regs'[r] = more[r - Len(regs)]
    BY <1>1
<1> QED
    BY <1>2 DEF FloatsSized

\* Before the reading nothing is taken, and the end of it is judged by RunsOut
\* or EnoughRead.
LEMMA NextReads == LayoutInv /\ ReadsInv /\ [Next]_vars => ReadsInv'
<1> SUFFICES ASSUME LayoutInv, ReadsInv, [Next]_vars PROVE ReadsInv'
    OBVIOUS
<1>1. /\ regs \in Seq(Register) /\ active \in Seq(FieldType) /\ members \in Seq(Members)
      /\ reads \in Seq(SUBSET Place_s) /\ FloatsSized
    BY DEF LayoutInv, TypeOK, ReadsInv
<1>2. ASSUME NEW m \in Members, NextMember(m), phase' \in {"layout", "failed"}, FloatsSized'
      PROVE  ReadsInv'
    BY <1>2 DEF NextMember, ReadsInv, AssignmentExact
<1>3. ASSUME NEW room, NEW here, NEW fresh, Place(room, here, fresh), ~ room => active # << >>
      PROVE  FloatsSized'
    <2>1. CASE regs' = regs
        BY <1>1, <2>1 DEF FloatsSized
    <2>2. CASE regs' = Append(regs, IntReg(active)) /\ active # << >>
        <3>1. IntReg(active) \in Register
            BY <1>1, <2>2, IntRegType
        <3>2. regs' = regs \o <<IntReg(active)>> /\ <<IntReg(active)>> \in Seq(Register)
            BY <1>1, <2>2, <3>1
        <3>3. \A i \in DOMAIN <<IntReg(active)>> : ~ <<IntReg(active)>>[i].float
            BY DEF IntReg
        <3> QED
            BY <1>1, <3>2, <3>3, SizedKept
    <2> QED
        BY <1>3, <2>1, <2>2 DEF Place
<1>4. ASSUME NEW m \in Members, AddBitfield(m) PROVE ReadsInv'
    <2> DEFINE room == has_room_for_bitfield(active, m.bits, ByteSizeOf(m.type))
    <2>1. /\ NextMember(m) /\ HasPlace(m)
          /\ Place(room, BitfieldField(active, m), BitfieldField(<< >>, m))
        BY <1>4 DEF AddBitfield
    <2>2. ~ room => active # << >>
        BY <2>1 DEF HasPlace
    <2> HIDE DEF room
    <2>3. FloatsSized'
        BY <1>3, <2>1, <2>2
    <2> QED
        BY <1>2, <2>1, <2>3 DEF NextMember, Place
<1>5. ASSUME NEW m \in Members, AddInteger(m) PROVE ReadsInv'
    <2> DEFINE room == has_room_for_int(active, m.size)
    <2>1. NextMember(m) /\ Place(room, IntegerField(active, m), IntegerField(<< >>, m))
        BY <1>5 DEF AddInteger
    <2>2. ~ room => active # << >>
        BY DEF has_room_for_int
    <2> HIDE DEF room
    <2>3. FloatsSized'
        BY <1>3, <2>1, <2>2
    <2> QED
        BY <1>2, <2>1, <2>3 DEF NextMember, Place
<1>6. ASSUME NEW m \in Members, AddFloat(m) PROVE ReadsInv'
    <2> DEFINE float == FloatReg(<<FloatField(m)>>)
    <2> DEFINE more == Closed \o <<float>>
    <2>1. NextMember(m) /\ IsFloat(m) /\ regs' = regs \o Closed \o <<float>> /\ phase' = phase
        BY <1>6 DEF AddFloat
    <2>2. float \in Register
        BY <1>1, <2>1, FloatFits DEF Fits, FloatReg, Register
    <2>3. FloatSize(float) \in {4, 8}
        BY <2>1, FloatRegSize
    <2>4. Closed \in Seq(Register) /\ \A i \in DOMAIN Closed : ~ Closed[i].float
        BY ClosedGood DEF Closed, IntReg
    <2> HIDE DEF float
    <2>5. more \in Seq(Register) /\ regs' = regs \o more
        BY <1>1, <2>1, <2>2, <2>4
    <2>6. \A i \in DOMAIN more : (i \in DOMAIN Closed /\ more[i] = Closed[i]) \/ more[i] = float
        BY <2>2, <2>4
    <2> HIDE DEF more
    <2>7. FloatsSized'
        BY <1>1, <2>3, <2>4, <2>5, <2>6, SizedKept
    <2> QED
        BY <1>2, <2>1, <2>7 DEF NextMember
<1>7. ASSUME NEW m \in Members, Reject(m) PROVE ReadsInv'
    <2>1. NextMember(m) /\ phase' = "failed" /\ regs' = regs
        BY <1>7 DEF Reject
    <2>2. FloatsSized'
        BY <1>1, <2>1 DEF FloatsSized
    <2> QED
        BY <1>2, <2>1, <2>2
<1>8. CASE FinishLayout
    <2>1. reads = << >> /\ reads' = << >> /\ phase' \in {"assign", "done"}
        BY <1>8 DEF FinishLayout, ReadsInv
    <2>2. FloatsSized'
        <3>1. Closed \in Seq(Register) /\ \A i \in DOMAIN Closed : ~ Closed[i].float
            BY ClosedGood DEF Closed, IntReg
        <3> QED
            BY <1>1, <1>8, <3>1, SizedKept DEF FinishLayout
    <2>3. LayoutInv'
        BY NextLayout
    <2>4. Assigning'
        <3>1. Len(reads') = 0 /\ DOMAIN reads' = {} /\ Taken' = {}
            BY <2>1 DEF Taken
        <3>2. Len(regs)' \in Nat
            BY <2>3 DEF LayoutInv, TypeOK
        <3>3. /\ First(IntRegs, 0)' = 0 /\ First(SingleRegs, 0)' = 0 /\ First(DoubleRegs, 0)' = 0
            <4>1. \A X : X \cap (1 .. 0) = {}
                OBVIOUS
            <4> QED
                BY <4>1, FS_EmptySet DEF First
        <3>4. InUse(0)'
            BY <3>1, <3>3 DEF InUse, Bank
        <3> QED
            BY <3>1, <3>2, <3>4 DEF Assigning
    <2> QED
        BY <2>1, <2>2, <2>4 DEF ReadsInv, AssignmentExact
<1>9. CASE ReadRegister
    <2>1. Assigning' /\ phase' = "assign" /\ regs' = regs
        BY <1>9, ReadTakes DEF ReadRegister
    <2> QED
        BY <1>1, <2>1 DEF ReadsInv, AssignmentExact, FloatsSized
<1>10. CASE OutOfRegisters
    <2>1. /\ phase' = "done" /\ regs' = regs /\ hard' = hard
          /\ reads' = [i \in DOMAIN regs |-> {"memory"}]
        BY <1>10 DEF OutOfRegisters
    <2>2. Exhausted'
        <3>1. Exhausted
            BY <1>10, RunsOut
        <3> QED
            BY <2>1, <3>1 DEF Exhausted, Ints, Singles, Doubles, Count
    <2>3. AssignmentExact'
        BY <2>1, <2>2 DEF AssignmentExact
    <2> QED
        BY <1>1, <2>1, <2>3 DEF ReadsInv, FloatsSized
<1>11. CASE FinishReading
    <2>1. /\ phase' = "done" /\ regs' = regs /\ hard' = hard /\ reads' = reads
          /\ Assigning /\ Len(reads) = Len(regs)
        BY <1>11 DEF FinishReading, ReadsInv
    <2>2. ~ Exhausted'
        <3>1. ~ Exhausted
            BY <1>11, EnoughRead
        <3> QED
            BY <2>1, <3>1 DEF Exhausted, Ints, Singles, Doubles, Count
    <2>3. DOMAIN regs = DOMAIN reads
        BY <1>1, <2>1
    <2>4. \A i \in DOMAIN regs : reads[i] # {"memory"}
        BY <2>1, <2>3 DEF Assigning
    <2>5. AssignmentExact'
        BY <2>1, <2>2, <2>4 DEF AssignmentExact, Assigning
    <2> QED
        BY <1>1, <2>1, <2>5 DEF ReadsInv, FloatsSized
<1>12. CASE Stopped \/ UNCHANGED vars
    <2>1. UNCHANGED vars
        BY <1>12 DEF Stopped
    <2>2. /\ hard' = hard /\ members' = members /\ regs' = regs /\ phase' = phase
          /\ reads' = reads
        BY <2>1 DEF vars
    <2>3. FloatsSized'
        BY <1>1, <2>2 DEF FloatsSized
    <2>4. InUse(Len(reads))' <=> InUse(Len(reads))
        BY <2>2 DEF InUse, Bank, Taken, First, IntRegs, SingleRegs, DoubleRegs
    <2>5. phase' = "assign" => Assigning'
        BY <2>2, <2>4 DEF ReadsInv, Assigning
    <2>6. Exhausted' <=> Exhausted
        BY <2>2 DEF Exhausted, Ints, Singles, Doubles, Count
    <2>7. AssignmentExact'
        BY <2>2, <2>6 DEF ReadsInv, AssignmentExact
    <2> QED
        BY <2>2, <2>3, <2>5, <2>7 DEF ReadsInv
<1> QED
    BY <1>4, <1>5, <1>6, <1>7, <1>8, <1>9, <1>10, <1>11, <1>12 DEF Next, Layout

-----------------------------------------------------------------------------
(***************************************************************************)
(* The theorems.                                                           *)
(***************************************************************************)

LEMMA AllGood == LayoutInv => \A data \in AllData : Good(data, members)
BY DEF LayoutInv, RegsGood, AllData

\* For any members and any struct: every field starts in its register and no
\* finished register is empty.
THEOREM TypeCorrect == Spec => []TypeOK
<1>1. LayoutInv => TypeOK
    BY DEF LayoutInv
<1> QED
    BY <1>1, LayoutCorrect, PTL

\* For any members and any struct, no two fields of a register share a bit.
THEOREM OrderCorrect == Spec => []FieldsInOrder
<1>1. LayoutInv => FieldsInOrder
    BY AllGood DEF FieldsInOrder, Good
<1> QED
    BY <1>1, LayoutCorrect, PTL

\* For any members and any struct, a bit-field never leaves its register nor
\* the unit of its type.
THEOREM UnitCorrect == Spec => []BitfieldsInUnit
<1>1. LayoutInv => BitfieldsInUnit
    BY AllGood DEF BitfieldsInUnit, Good, Sound
<1> QED
    BY <1>1, LayoutCorrect, PTL

\* For any members and any struct, every member keeps its one field, of its
\* width and in its order, whatever registers are closed around it.
THEOREM PlacedCorrect == Spec => []MembersPlaced
<1>1. Init => PlacedInv
    <2> SUFFICES ASSUME Init PROVE Placed(regs, active, members)
        BY DEF PlacedInv
    <2>1. Len(regs) = 0 /\ DOMAIN active = {} /\ DOMAIN members = {}
        BY DEF Init
    <2>2. \A r, i \in Nat : ~ Has(regs, active, r, i)
        BY <2>1 DEF Has, RowOf
    <2> QED
        BY <2>1, <2>2 DEF Placed
<1> QED
    BY <1>1, LayoutCorrect, NextPlaced, PlacedGives, PTL DEF Spec

\* In any struct without bit-fields and without members of 8 bytes and more,
\* every integer ends inside its register: the mixed units of has_room_for_int
\* and its wrong bit do no harm there.
THEOREM FitCorrect == Spec => []PlainIntsFit
<1>1. Init => FitInv
    BY DEF Init, FitInv, EndsAtByte
<1>2. FitInv => PlainIntsFit
    BY DEF FitInv, PlainIntsFit, Plain, EndsAtByte, IntData, XLen
<1> QED
    BY <1>1, <1>2, LayoutCorrect, NextFit, PTL DEF Spec

\* For any members and any struct, with and without registers for floats: the
\* value is looked for in memory exactly when the registers cannot hold it, and
\* otherwise no register is read twice.
THEOREM AssignCorrect == Spec => []AssignmentExact
<1>1. Init => ReadsInv
    BY DEF Init, ReadsInv, FloatsSized, AssignmentExact
<1>2. ReadsInv => AssignmentExact
    BY DEF ReadsInv
<1> QED
    BY <1>1, <1>2, LayoutCorrect, NextReads, PTL DEF Spec
=============================================================================
