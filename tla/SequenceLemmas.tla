--------------------------- MODULE SequenceLemmas ---------------------------
(***************************************************************************)
(* Sequences of anything, and what FlattenSeq makes of a sequence of       *)
(* sequences: where each of their elements is.  FlattenSeq is a recursive  *)
(* function; what it computes is shown by induction, in the form of a      *)
(* least number outside a set of numbers.                                  *)
(***************************************************************************)
EXTENDS SequencesExt, SequenceTheorems, FiniteSetTheorems, WellFoundedInduction,
        NaturalsInduction, TLAPS

\* A sequence of anything.
IsSeq(s) == \E S : s \in Seq(S)

\* A sequence of groups, which are sequences.
IsCollection(c) == IsSeq(c) /\ \A g \in 1 .. Len(c) : IsSeq(c[g])

-----------------------------------------------------------------------------
(***************************************************************************)
(* Sequences.                                                              *)
(***************************************************************************)

\* A sequence has a length and is defined on the numbers up to it.
LEMMA SeqDomain ==
    ASSUME NEW s, IsSeq(s)
    PROVE  /\ Len(s) \in Nat
           /\ DOMAIN s = 1 .. Len(s)
           /\ s = [i \in 1 .. Len(s) |-> s[i]]
BY DEF IsSeq

\* The empty sequence.
LEMMA EmptyIsSeq == IsSeq(<< >>) /\ Len(<< >>) = 0
BY DEF IsSeq

\* Appending adds one element and keeps the others.
LEMMA AppendIsSeq ==
    ASSUME NEW s, NEW e, IsSeq(s)
    PROVE  /\ IsSeq(Append(s, e))
           /\ Len(Append(s, e)) = Len(s) + 1
           /\ Append(s, e)[Len(s) + 1] = e
           /\ \A i \in 1 .. Len(s) : Append(s, e)[i] = s[i]
<1>1. PICK S : s \in Seq(S)
    BY DEF IsSeq
<1>2. s \in Seq(S \cup {e}) /\ e \in S \cup {e}
    BY <1>1
<1>3. /\ Append(s, e) \in Seq(S \cup {e})
      /\ Len(Append(s, e)) = Len(s) + 1
      /\ Append(s, e)[Len(s) + 1] = e
      /\ \A i \in 1 .. Len(s) : Append(s, e)[i] = s[i]
    BY <1>2, AppendProperties
<1> QED
    BY <1>3 DEF IsSeq

\* The numbers that index a collection.
LEMMA CollectionDomain ==
    ASSUME NEW c, IsCollection(c)
    PROVE  /\ Len(c) \in Nat /\ DOMAIN c = 1 .. Len(c)
           /\ \A g \in 1 .. Len(c) : Len(c[g]) \in Nat /\ DOMAIN c[g] = 1 .. Len(c[g])
BY SeqDomain DEF IsCollection

-----------------------------------------------------------------------------
(***************************************************************************)
(* Concatenation.                                                          *)
(***************************************************************************)

\* Induction over the natural numbers, for a set of them.
LEMMA NaturalsIn ==
    ASSUME NEW T, 0 \in T, \A n \in Nat : n \in T => n + 1 \in T
    PROVE  Nat \subseteq T
<1> DEFINE R == OpToRel(<, Nat)
<1> DEFINE U == Nat \ T
<1>1. IsWellFoundedOn(R, Nat)
    BY NatLessThanWellFounded
<1> SUFFICES ASSUME U # {} PROVE FALSE
    OBVIOUS
<1>2. U \subseteq Nat
    OBVIOUS
<1>3. \E x \in U : \A y \in U : <<y, x>> \notin R
    <2> HIDE DEF R, U
    <2> QED BY <1>1, <1>2, WFMin
<1>4. PICK x \in U : \A y \in U : <<y, x>> \notin R
    BY <1>3
<1>5. x # 0 /\ x \in Nat
    OBVIOUS
<1>6. x - 1 \in Nat /\ x - 1 \in U
    <2>1. x - 1 \in Nat /\ (x - 1) + 1 = x
        BY <1>5
    <2> QED BY <2>1, <1>4
<1>7. <<x - 1, x>> \in R
    BY <1>5, <1>6 DEF OpToRel
<1> QED
    BY <1>4, <1>6, <1>7

\* Of a set of indices that is not empty, the largest.
LEMMA LargestOf ==
    ASSUME NEW n \in Nat, NEW T, T \subseteq 1 .. n, T # {}
    PROVE  \E i \in T : \A j \in T : j <= i
<1> DEFINE U == { k \in 0 .. n : \A t \in T : t <= k }
<1>1. PICK t0 \in T : TRUE
    OBVIOUS
<1> DEFINE V == { k \in Nat : k \in 0 .. n => \E j \in T : j > k }
<1> SUFFICES ASSUME ~ \E i \in T : \A j \in T : j <= i
             PROVE  FALSE
    OBVIOUS
<1>2. 0 \in V
    BY <1>1
<1>3. ASSUME NEW k \in Nat, k \in V
      PROVE  k + 1 \in V
    <2> SUFFICES ASSUME k + 1 \in 0 .. n PROVE \E j \in T : j > k + 1
        BY <1>3
    <2>1. PICK j \in T : j > k
        BY <1>3
    <2>2. j >= k + 1 /\ j \in Nat
        BY <2>1
    <2>3. CASE j = k + 1
        <3>1. PICK i \in T : ~ (i <= j)
            OBVIOUS
        <3> QED
            BY <3>1, <2>1, <2>3
    <2> QED
        BY <2>2, <2>3
<1>4. \A k \in Nat : k \in V => (k \in 0 .. n => \E j \in T : j > k)
    OBVIOUS
<1> HIDE DEF V
<1>5. n \in V
    BY <1>2, <1>3, NaturalsIn
<1>6. PICK j \in T : j > n
    BY <1>4, <1>5
<1> QED
    BY <1>6

\* What FlattenSeq computes: the concatenation of the first i sequences.
IsFlatten(seqs, n, f) ==
    f = [i \in 1 .. n |-> IF i = 1 THEN seqs[i] ELSE f[i - 1] \o seqs[i]]

\* One step of it.
LEMMA FlattenStep ==
    ASSUME NEW S, NEW n \in Nat, NEW seqs, NEW f, f \in [1 .. n -> Seq(S)], IsFlatten(seqs, n, f),
           seqs[n + 1] \in Seq(S)
    PROVE  \E g \in [1 .. n + 1 -> Seq(S)] : IsFlatten(seqs, n + 1, g)
<1> DEFINE last == IF n = 0 THEN seqs[n + 1] ELSE f[n] \o seqs[n + 1]
<1>1. last \in Seq(S)
    <2>1. n # 0 => f[n] \in Seq(S)
        OBVIOUS
    <2> QED
        BY <2>1
<1> HIDE DEF last
<1> DEFINE g == [i \in 1 .. n + 1 |-> IF i = n + 1 THEN last ELSE f[i]]
<1>2. g \in [1 .. n + 1 -> Seq(S)]
    BY <1>1
<1>3. ASSUME NEW i \in 1 .. n + 1
      PROVE  g[i] = IF i = 1 THEN seqs[i] ELSE g[i - 1] \o seqs[i]
    <2>1. CASE i = n + 1
        <3>1. n # 0 => g[n] = f[n]
            OBVIOUS
        <3> QED
            BY <2>1, <3>1 DEF last
    <2>2. CASE i # n + 1
        <3>1. i \in 1 .. n /\ (i # 1 => i - 1 \in 1 .. n + 1 /\ i - 1 # n + 1)
            BY <2>2
        <3>2. f[i] = IF i = 1 THEN seqs[i] ELSE f[i - 1] \o seqs[i]
            BY <3>1 DEF IsFlatten
        <3> QED
            BY <3>1, <3>2, <2>2
    <2> QED
        BY <2>1, <2>2
<1>4. g = [i \in 1 .. n + 1 |-> g[i]]
    OBVIOUS
<1> HIDE DEF g
<1>5. IsFlatten(seqs, n + 1, g)
    BY <1>3, <1>4 DEF IsFlatten
<1> QED
    BY <1>2, <1>5

\* The recursive function that FlattenSeq chooses exists.
LEMMA FlattenExists ==
    ASSUME NEW S, NEW seqs \in Seq(Seq(S))
    PROVE  \E f \in [1 .. Len(seqs) -> Seq(S)] : IsFlatten(seqs, Len(seqs), f)
<1> DEFINE P(n) == n <= Len(seqs) => \E f \in [1 .. n -> Seq(S)] : IsFlatten(seqs, n, f)
<1> DEFINE T == { n \in Nat : P(n) }
<1>1. P(0)
    <2> DEFINE f == [i \in 1 .. 0 |-> << >>]
    <2>1. f \in [1 .. 0 -> Seq(S)] /\ IsFlatten(seqs, 0, f)
        BY DEF IsFlatten
    <2> QED
        BY <2>1
<1>2. ASSUME NEW n \in Nat, P(n) PROVE P(n + 1)
    <2> SUFFICES ASSUME n + 1 <= Len(seqs) 
                 PROVE \E g \in [1 .. n + 1 -> Seq(S)] : IsFlatten(seqs, n + 1, g)
        OBVIOUS
    <2>1. PICK f \in [1 .. n -> Seq(S)] : IsFlatten(seqs, n, f)
        BY <1>2
    <2>2. seqs[n + 1] \in Seq(S)
        OBVIOUS
    <2> QED
        BY <2>1, <2>2, FlattenStep
<1>3. \A n \in Nat : n \in T <=> P(n)
    OBVIOUS
<1> HIDE DEF P
<1>4. 0 \in T /\ \A n \in Nat : n \in T => n + 1 \in T
    BY <1>1, <1>2, <1>3
<1> HIDE DEF T
<1>5. Len(seqs) \in T /\ Len(seqs) \in Nat
    BY <1>4, NaturalsIn
<1>6. P(Len(seqs))
    BY <1>3, <1>5
<1> QED
    BY <1>6 DEF P

\* There is but one.
LEMMA FlattenAgree ==
    ASSUME NEW n \in Nat, NEW m \in Nat, NEW s, NEW f, NEW g,
           IsFlatten(s, n, f), IsFlatten(s, m, g), n <= m
    PROVE  \A i \in 1 .. n : f[i] = g[i]
<1> DEFINE P(i) == i \in 1 .. n => f[i] = g[i]
<1> DEFINE T == { i \in Nat : P(i) }
<1>1. ASSUME NEW i \in 0 .. n, P(i)
      PROVE  P(i + 1)
    <2> SUFFICES ASSUME i + 1 \in 1 .. n
                 PROVE  f[i + 1] = g[i + 1]
        OBVIOUS
    <2>1. i + 1 \in 1 .. m /\ (i + 1) - 1 = i
        OBVIOUS
    <2>2. f[i + 1] = IF i + 1 = 1 THEN s[i + 1] ELSE f[i] \o s[i + 1]
        BY <2>1 DEF IsFlatten
    <2>3. g[i + 1] = IF i + 1 = 1 THEN s[i + 1] ELSE g[i] \o s[i + 1]
        BY <2>1 DEF IsFlatten
    <2>4. i + 1 # 1 => f[i] = g[i]
        BY <1>1
    <2> QED
        BY <2>1, <2>2, <2>3, <2>4
<1>2. \A i \in Nat : i \in T <=> P(i)
    OBVIOUS
<1>3. P(0) /\ \A i \in Nat : ~ i \in 0 .. n => P(i + 1)
    OBVIOUS
<1> HIDE DEF P
<1>4. 0 \in T /\ \A i \in Nat : i \in T => i + 1 \in T
    BY <1>1, <1>2, <1>3
<1> HIDE DEF T
<1>5. Nat \subseteq T
    BY <1>4, NaturalsIn
<1>6. \A i \in 1 .. n : P(i)
    BY <1>2, <1>5
<1> QED
    BY <1>6 DEF P

\* FlattenSeq is the last value of that function.
LEMMA FlattenUnfold ==
    ASSUME NEW S, NEW seqs \in Seq(Seq(S)), Len(seqs) # 0
    PROVE  \E f \in [1 .. Len(seqs) -> Seq(S)] :
              IsFlatten(seqs, Len(seqs), f) /\ FlattenSeq(seqs) = f[Len(seqs)]
<1> DEFINE f == CHOOSE f : f = [i \in 1 .. Len(seqs) |-> IF i = 1 THEN seqs[i] ELSE f[i - 1] \o seqs[i]]
<1>1. \E g : g = [i \in 1 .. Len(seqs) |-> IF i = 1 THEN seqs[i] ELSE g[i - 1] \o seqs[i]]
    <2>1. \E g : IsFlatten(seqs, Len(seqs), g)
        BY FlattenExists
    <2> QED
        BY <2>1 DEF IsFlatten
<1>2. f = [i \in 1 .. Len(seqs) |-> IF i = 1 THEN seqs[i] ELSE f[i - 1] \o seqs[i]]
    BY <1>1
<1>3. FlattenSeq(seqs) = f[Len(seqs)]
    BY DEF FlattenSeq
<1> HIDE DEF f
<1>4. IsFlatten(seqs, Len(seqs), f)
    BY <1>2 DEF IsFlatten
<1>5. PICK g \in [1 .. Len(seqs) -> Seq(S)] : IsFlatten(seqs, Len(seqs), g)
    BY FlattenExists
<1>6. Len(seqs) \in Nat /\ Len(seqs) \in 1 .. Len(seqs)
    OBVIOUS
<1>7. \A i \in 1 .. Len(seqs) : f[i] = g[i]
    BY <1>4, <1>5, <1>6, FlattenAgree
<1> QED
    BY <1>3, <1>5, <1>6, <1>7

\* The concatenation of nothing, and of one sequence more.
LEMMA FlattenEmpty == FlattenSeq(<< >>) = << >>
BY DEF FlattenSeq

\* What an appended sequence adds.
LEMMA FlattenAppend ==
    ASSUME NEW S, NEW seqs \in Seq(Seq(S)), NEW s \in Seq(S)
    PROVE  /\ FlattenSeq(seqs) \in Seq(S)
           /\ FlattenSeq(Append(seqs, s)) = FlattenSeq(seqs) \o s
<1> DEFINE n == Len(seqs)
<1> DEFINE longer == Append(seqs, s)
<1>1. longer \in Seq(Seq(S)) /\ Len(longer) = n + 1 /\ n \in Nat /\ longer[n + 1] = s
      /\ \A i \in 1 .. n : seqs[i] = longer[i]
    OBVIOUS
<1> HIDE DEF longer
<1>2. PICK g \in [1 .. n + 1 -> Seq(S)] : IsFlatten(longer, n + 1, g) /\ FlattenSeq(longer) = g[n + 1]
    <2>1. Len(longer) # 0
        BY <1>1
    <2> HIDE DEF n
    <2> QED
        BY <2>1, <1>1, FlattenUnfold
<1>3. n + 1 \in 1 .. n + 1 /\ (n + 1) - 1 = n
    BY <1>1
<1>4. g[n + 1] = IF n + 1 = 1 THEN s ELSE g[n] \o s
    BY <1>1, <1>2, <1>3 DEF IsFlatten
<1>5. CASE n = 0
    <2>1. seqs = << >>
        BY <1>5
    <2>2. FlattenSeq(seqs) = << >>
        BY <2>1, FlattenEmpty
    <2>3. << >> \o s = s /\ << >> \in Seq(S)
        OBVIOUS
    <2> QED
        BY <2>2, <2>3, <1>2, <1>4, <1>5 DEF longer
<1>6. CASE n # 0
    <2>1. PICK f \in [1 .. n -> Seq(S)] : IsFlatten(seqs, n, f) /\ FlattenSeq(seqs) = f[n]
        BY <1>6, FlattenUnfold
    <2>2. f[n] = g[n] /\ n \in 1 .. n
        <3>1. n \in 1 .. n /\ n <= n + 1 /\ n + 1 \in Nat
            BY <1>1, <1>6
        <3>2. \A i \in 1 .. n : seqs[i] = longer[i]
            BY <1>1
        <3>3. IsFlatten(seqs, n, f) /\ IsFlatten(longer, n + 1, g)
            BY <1>2, <2>1
        <3>4. n \in Nat
            BY <1>1
        <3> HIDE DEF n, longer
        <3>5. \A i \in 1 .. n : f[i] = g[i]
            <4>1. IsFlatten(longer, n, f)
                BY <3>2, <3>3 DEF IsFlatten
            <4>2. n + 1 \in Nat /\ n <= n + 1
                BY <3>4
            <4> QED
                BY <4>1, <4>2, <3>3, <3>4, FlattenAgree
        <3>6. n \in 1 .. n
            BY <3>1
        <3> QED
            BY <3>5, <3>6
    <2> QED
        BY <2>1, <2>2, <1>1, <1>2, <1>4, <1>6 DEF longer
<1> QED
    BY <1>5, <1>6

\* Where the elements of the g-th sequence are in the concatenation.
IsPlaces(seqs, flat, off) ==
    /\ off[1] = 0
    /\ \A g \in 1 .. Len(seqs) :
          /\ off[g + 1] = off[g] + Len(seqs[g])
          /\ \A i \in 1 .. Len(seqs[g]) : flat[off[g] + i] = seqs[g][i]
    /\ Len(flat) = off[Len(seqs) + 1]

\* They are in the order of the sequences.
LEMMA PlacesGrow ==
    ASSUME NEW S, NEW s \in Seq(Seq(S)), NEW off \in [1 .. Len(s) + 1 -> Nat], NEW flat,
           IsPlaces(s, flat, off), NEW g \in 1 .. Len(s)
    PROVE  \A h \in g + 1 .. Len(s) + 1 : off[g + 1] <= off[h]
<1> DEFINE Q(h) == h \in g + 1 .. Len(s) + 1 => off[g + 1] <= off[h]
<1> DEFINE U == { h \in Nat : Q(h) }
<1>1. Len(s) \in Nat /\ g \in Nat /\ g >= 1 /\ g <= Len(s)
    OBVIOUS
<1>2. \A h \in 1 .. Len(s) : off[h + 1] = off[h] + Len(s[h]) /\ Len(s[h]) \in Nat
    BY DEF IsPlaces
<1>3. \A h \in 1 .. Len(s) + 1 : off[h] \in Nat
    OBVIOUS
<1>4. ASSUME NEW h \in Nat, Q(h)
      PROVE  Q(h + 1)
    <2> SUFFICES ASSUME h + 1 \in g + 1 .. Len(s) + 1
                 PROVE  off[g + 1] <= off[h + 1]
        OBVIOUS
    <2>1. CASE h = g
        BY <2>1, <1>1, <1>3
    <2>2. CASE h # g
        <3>1. h \in g + 1 .. Len(s) + 1 /\ h \in 1 .. Len(s) /\ h \in 1 .. Len(s) + 1
            BY <2>2, <1>1
        <3>2. off[h + 1] = off[h] + Len(s[h]) /\ Len(s[h]) \in Nat
            BY <3>1, <1>2
        <3>3. off[h] \in Nat /\ off[g + 1] \in Nat
            BY <3>1, <1>1, <1>3
        <3>4. off[g + 1] <= off[h]
            BY <3>1, <1>4
        <3> QED
            BY <3>2, <3>3, <3>4
    <2> QED
        BY <2>1, <2>2
<1>5. \A h \in Nat : h \in U <=> Q(h)
    OBVIOUS
<1>6. Q(0)
    BY <1>1
<1> HIDE DEF Q
<1>7. 0 \in U /\ \A h \in Nat : h \in U => h + 1 \in U
    BY <1>4, <1>5, <1>6
<1> HIDE DEF U
<1>8. Nat \subseteq U
    BY <1>7, NaturalsIn
<1>9. \A h \in g + 1 .. Len(s) + 1 : Q(h)
    BY <1>1, <1>5, <1>8
<1> QED
    BY <1>9 DEF Q

\* A place between two of them.
LEMMA WithinSum ==
    ASSUME NEW a \in Nat, NEW l \in Nat, NEW b \in Nat, NEW h, h = a + l, h <= b, NEW i \in 1 .. l
    PROVE  a + i \in 1 .. b
OBVIOUS

\* One sequence more.
LEMMA PlacesAppend ==
    ASSUME NEW S, NEW s \in Seq(Seq(S)), NEW t \in Seq(S), NEW flat \in Seq(S),
           NEW off \in [1 .. Len(s) + 1 -> Nat], IsPlaces(s, flat, off)
    PROVE  \E more \in [1 .. Len(s) + 2 -> Nat] : IsPlaces(Append(s, t), flat \o t, more)
<1> DEFINE m == Len(s)
<1> DEFINE long == Append(s, t)
<1> DEFINE all == flat \o t
<1> DEFINE more == [g \in 1 .. m + 2 |-> IF g = m + 2 THEN off[m + 1] + Len(t) ELSE off[g]]
<1>1. m \in Nat /\ Len(t) \in Nat /\ Len(flat) \in Nat /\ \A g \in 1 .. m + 1 : off[g] \in Nat
    OBVIOUS
<1>2. /\ Len(long) = m + 1 /\ long[m + 1] = t
      /\ \A i \in 1 .. m : long[i] = s[i]
    OBVIOUS
<1>3. /\ Len(all) = Len(flat) + Len(t)
      /\ \A i \in 1 .. Len(flat) : all[i] = flat[i]
      /\ \A i \in 1 .. Len(t) : all[Len(flat) + i] = t[i]
    OBVIOUS
<1>4. Len(flat) = off[m + 1] /\ off[1] = 0
    BY DEF IsPlaces
<1>5. more \in [1 .. m + 2 -> Nat]
    <2>1. ASSUME NEW g \in 1 .. m + 2, g # m + 2
          PROVE  off[g] \in Nat
        <3>1. g \in 1 .. m + 1
            BY <1>1, <2>1
        <3> QED
            BY <1>1, <3>1
    <2>2. off[m + 1] + Len(t) \in Nat
        <3>1. off[m + 1] \in Nat
            <4>1. m + 1 \in 1 .. m + 1
                BY <1>1
            <4> QED
                BY <1>1, <4>1, Zenon
        <3>2. Len(t) \in Nat
            BY <1>1
        <3> QED
            BY <3>1, <3>2
    <2>3. \A g \in 1 .. m + 2 : (IF g = m + 2 THEN off[m + 1] + Len(t) ELSE off[g]) \in Nat
        BY <2>1, <2>2
    <2> QED
        BY <2>3
<1>6. \A g \in 1 .. m + 1 : more[g] = off[g]
    BY <1>1
<1>7. more[m + 2] = off[m + 1] + Len(t)
    BY <1>1
<1>8. \A g \in 1 .. m : \A h \in g + 1 .. m + 1 : off[g + 1] <= off[h]
    BY PlacesGrow
<1>9. \A g \in 1 .. m : /\ off[g + 1] = off[g] + Len(s[g]) /\ Len(s[g]) \in Nat
                        /\ \A i \in 1 .. Len(s[g]) : flat[off[g] + i] = s[g][i]
    BY DEF IsPlaces
<1> HIDE DEF m, long, all, more
<1>10. ASSUME NEW g \in 1 .. m + 1
       PROVE  /\ more[g + 1] = more[g] + Len(long[g])
              /\ \A i \in 1 .. Len(long[g]) : all[more[g] + i] = long[g][i]
    <2>1. CASE g = m + 1
        <3>1. long[g] = t /\ more[g] = off[m + 1] /\ g + 1 = m + 2
            BY <2>1, <1>1, <1>2, <1>6
        <3> QED
            BY <3>1, <1>3, <1>4, <1>7
    <2>2. CASE g # m + 1
        <3>1. g \in 1 .. m /\ g + 1 \in 1 .. m + 1
            BY <2>2, <1>1
        <3>2. long[g] = s[g] /\ more[g] = off[g] /\ more[g + 1] = off[g + 1]
            BY <3>1, <1>1, <1>2, <1>6
        <3>3. ASSUME NEW i \in 1 .. Len(s[g])
              PROVE  off[g] + i \in 1 .. Len(flat)
            <4>1. off[g + 1] <= off[m + 1]
                <5>1. m + 1 \in g + 1 .. m + 1
                    BY <3>1, <1>1
                <5> QED
                    BY <3>1, <5>1, <1>8
            <4>2. off[g] \in Nat /\ off[m + 1] \in Nat /\ Len(s[g]) \in Nat /\ i \in 1 .. Len(s[g])
                <5>1. m + 1 \in 1 .. m + 1
                    BY <1>1
                <5>2. off[m + 1] \in Nat
                    BY <5>1, <1>1
                <5>3. off[g] \in Nat
                    BY <1>1
                <5>4. Len(s[g]) \in Nat
                    BY <3>1, <1>9
                <5> QED
                    BY <5>2, <5>3, <5>4, <3>3
            <4>3. off[g + 1] = off[g] + Len(s[g])
                BY <3>1, <1>9
            <4> QED
                BY <4>1, <4>2, <4>3, <1>4, WithinSum
        <3>4. \A i \in 1 .. Len(s[g]) : flat[off[g] + i] = s[g][i]
            BY <3>1, <1>9
        <3>5. off[g + 1] = off[g] + Len(s[g])
            BY <3>1, <1>9
        <3>6. \A i \in 1 .. Len(s[g]) : all[off[g] + i] = s[g][i]
            BY <3>3, <3>4, <1>3
        <3> QED
            BY <3>2, <3>5, <3>6
    <2> QED
        BY <2>1, <2>2
<1>11. more[1] = 0
    BY <1>1, <1>4, <1>6
<1>12. Len(all) = more[Len(long) + 1]
    BY <1>1, <1>2, <1>3, <1>4, <1>7
<1>13. IsPlaces(long, all, more)
    BY <1>2, <1>10, <1>11, <1>12 DEF IsPlaces
<1> QED
    BY <1>5, <1>13 DEF m, long, all

\* Every sequence has its place in the flattened one.
LEMMA FlattenPlaces ==
    ASSUME NEW S, NEW seqs \in Seq(Seq(S))
    PROVE  /\ FlattenSeq(seqs) \in Seq(S)
           /\ \E off \in [1 .. Len(seqs) + 1 -> Nat] : IsPlaces(seqs, FlattenSeq(seqs), off)
<1> DEFINE P(s) == /\ FlattenSeq(s) \in Seq(S)
                   /\ \E off \in [1 .. Len(s) + 1 -> Nat] : IsPlaces(s, FlattenSeq(s), off)
<1> DEFINE T == { m \in Nat : m <= Len(seqs) => P(SubSeq(seqs, 1, m)) }
<1>1. P(<< >>)
    <2> DEFINE off == [g \in 1 .. 1 |-> 0]
    <2>1. FlattenSeq(<< >>) = << >> /\ Len(<< >>) = 0 /\ << >> \in Seq(S)
        BY FlattenEmpty
    <2>2. IsPlaces(<< >>, << >>, off) /\ off \in [1 .. 0 + 1 -> Nat]
        BY DEF IsPlaces
    <2> HIDE DEF off
    <2> QED
        BY <2>1, <2>2
<1>2. ASSUME NEW s \in Seq(Seq(S)), NEW t \in Seq(S), P(s)
      PROVE  P(Append(s, t))
    <2>1. PICK off \in [1 .. Len(s) + 1 -> Nat] : IsPlaces(s, FlattenSeq(s), off)
        BY <1>2
    <2>2. FlattenSeq(s) \in Seq(S) /\ FlattenSeq(Append(s, t)) = FlattenSeq(s) \o t
        BY FlattenAppend
    <2>3. FlattenSeq(Append(s, t)) \in Seq(S)
        BY <2>2
    <2>4. \E more \in [1 .. Len(s) + 2 -> Nat] : IsPlaces(Append(s, t), FlattenSeq(s) \o t, more)
        BY <2>1, <2>2, PlacesAppend
    <2>5. Len(Append(s, t)) + 1 = Len(s) + 2
        OBVIOUS
    <2> QED
        BY <2>2, <2>3, <2>4, <2>5
<1>3. \A m \in Nat : m \in T <=> (m <= Len(seqs) => P(SubSeq(seqs, 1, m)))
    OBVIOUS
<1>4. SubSeq(seqs, 1, 0) = << >> /\ SubSeq(seqs, 1, Len(seqs)) = seqs
    OBVIOUS
<1>5. ASSUME NEW m \in Nat, m + 1 <= Len(seqs)
      PROVE  /\ SubSeq(seqs, 1, m + 1) = Append(SubSeq(seqs, 1, m), seqs[m + 1])
             /\ SubSeq(seqs, 1, m) \in Seq(Seq(S)) /\ seqs[m + 1] \in Seq(S) /\ m <= Len(seqs)
    BY <1>5
<1>6. Len(seqs) \in Nat
    OBVIOUS
<1> HIDE DEF P
<1>7. 0 \in T
    BY <1>1, <1>3, <1>4
<1>8. ASSUME NEW m \in Nat, m \in T
      PROVE  m + 1 \in T
    <2>1. CASE m + 1 <= Len(seqs)
        <3>1. P(SubSeq(seqs, 1, m))
            BY <2>1, <1>3, <1>5, <1>8
        <3>2. P(Append(SubSeq(seqs, 1, m), seqs[m + 1]))
            BY <3>1, <2>1, <1>2, <1>5
        <3>3. P(SubSeq(seqs, 1, m + 1))
            BY <3>2, <2>1, <1>5
        <3> QED
            BY <3>3, <1>3
    <2>2. CASE ~ m + 1 <= Len(seqs)
        BY <2>2, <1>3
    <2> QED
        BY <2>1, <2>2
<1> HIDE DEF T
<1>9. Len(seqs) \in T
    BY <1>6, <1>7, <1>8, NaturalsIn
<1>10. P(SubSeq(seqs, 1, Len(seqs)))
    BY <1>3, <1>6, <1>9
<1>11. P(seqs)
    BY <1>4, <1>10
<1> QED
    BY <1>11 DEF P

\* A collection's groups have elements of one set.
LEMMA CollectionType ==
    ASSUME NEW c, IsCollection(c), NEW g, IsSeq(g)
    PROVE  \E S : c \in Seq(Seq(S)) /\ g \in Seq(S)
<1> DEFINE OfGroup(s) == { s[i] : i \in 1 .. Len(s) }
<1> DEFINE Groups == { OfGroup(c[h]) : h \in 1 .. Len(c) }
<1> DEFINE S == (UNION Groups) \cup OfGroup(g)
<1>1. ASSUME NEW s, IsSeq(s), \A i \in 1 .. Len(s) : s[i] \in S
      PROVE  s \in Seq(S)
    <2>1. Len(s) \in Nat /\ s = [i \in 1 .. Len(s) |-> s[i]]
        BY <1>1, SeqDomain
    <2>2. s \in [1 .. Len(s) -> S]
        BY <2>1, <1>1
    <2> HIDE DEF S
    <2> QED
        BY <2>1, <2>2, SeqDef
<1>2. \A i \in 1 .. Len(g) : g[i] \in S
    OBVIOUS
<1>3. ASSUME NEW h \in 1 .. Len(c)
      PROVE  \A i \in 1 .. Len(c[h]) : c[h][i] \in S
    <2>1. OfGroup(c[h]) \in Groups
        OBVIOUS
    <2>2. \A i \in 1 .. Len(c[h]) : c[h][i] \in OfGroup(c[h])
        OBVIOUS
    <2> HIDE DEF Groups, OfGroup
    <2> QED
        BY <2>1, <2>2
<1> HIDE DEF S
<1>4. \A h \in 1 .. Len(c) : c[h] \in Seq(S)
    BY <1>1, <1>3 DEF IsCollection
<1>5. c \in Seq(Seq(S))
    <2>1. Len(c) \in Nat /\ c = [h \in 1 .. Len(c) |-> c[h]]
        BY SeqDomain DEF IsCollection
    <2>2. c \in [1 .. Len(c) -> Seq(S)]
        BY <2>1, <1>4
    <2> QED
        BY <2>1, <2>2, SeqDef
<1> QED
    BY <1>1, <1>2, <1>5

\* The elements of a collection and of a group that is not closed yet.
AllElements(c, g) == FlattenSeq(c) \o g

\* Without an open group these are the elements of the collection.
LEMMA AllElementsOf ==
    ASSUME NEW c, IsCollection(c)
    PROVE  /\ IsSeq(FlattenSeq(c))
           /\ AllElements(c, << >>) = FlattenSeq(c)
           /\ AllElements(<< >>, << >>) = << >>
<1>1. PICK S : c \in Seq(Seq(S))
    BY CollectionType, EmptyIsSeq
<1>2. FlattenSeq(c) \in Seq(S)
    BY <1>1, FlattenPlaces
<1>3. FlattenSeq(c) \o << >> = FlattenSeq(c)
    BY <1>2
<1>4. << >> \o << >> = << >>
    OBVIOUS
<1> QED
    BY <1>2, <1>3, <1>4, FlattenEmpty DEF IsSeq, AllElements

\* A further element goes to their end, and closing the group moves none.
LEMMA AllElementsGrow ==
    ASSUME NEW c, IsCollection(c), NEW g, IsSeq(g), NEW e
    PROVE  /\ IsSeq(AllElements(c, g))
           /\ AllElements(c, Append(g, e)) = Append(AllElements(c, g), e)
           /\ FlattenSeq(Append(c, g)) = AllElements(c, g)
<1> DEFINE h == Append(g, e)
<1>1. IsSeq(h)
    BY AppendIsSeq
<1>2. PICK S : c \in Seq(Seq(S)) /\ h \in Seq(S)
    <2> HIDE DEF h
    <2> QED
        BY <1>1, CollectionType
<1>3. g \in Seq(S) /\ e \in S
    <2>1. /\ Len(g) \in Nat /\ g = [i \in 1 .. Len(g) |-> g[i]]
          /\ Len(h) = Len(g) + 1 /\ h[Len(g) + 1] = e
          /\ \A i \in 1 .. Len(g) : h[i] = g[i]
        BY SeqDomain, AppendIsSeq
    <2> HIDE DEF h
    <2>2. \A i \in 1 .. Len(g) + 1 : h[i] \in S
        BY <1>2, <2>1
    <2>3. e \in S /\ \A i \in 1 .. Len(g) : g[i] \in S
        BY <2>1, <2>2
    <2>4. g \in [1 .. Len(g) -> S]
        BY <2>1, <2>3
    <2> QED
        BY <2>1, <2>3, <2>4, SeqDef
<1>4. FlattenSeq(c) \in Seq(S) /\ FlattenSeq(Append(c, g)) = FlattenSeq(c) \o g
    BY <1>2, <1>3, FlattenAppend
<1>5. FlattenSeq(c) \o g \in Seq(S)
    BY <1>3, <1>4
<1>6. FlattenSeq(c) \o Append(g, e) = Append(FlattenSeq(c) \o g, e)
    BY <1>3, <1>4
<1> QED
    BY <1>4, <1>5, <1>6 DEF IsSeq, AllElements

\* What is concatenated of sequences of the same lengths is in the same places.
LEMMA SamePlaces ==
    ASSUME NEW s, NEW t, Len(s) \in Nat, Len(s) = Len(t),
           \A g \in 1 .. Len(s) : Len(s[g]) = Len(t[g]),
           NEW flat, NEW o, IsPlaces(s, flat, o), NEW other, NEW p, IsPlaces(t, other, p)
    PROVE  /\ \A g \in 1 .. Len(s) + 1 : o[g] = p[g]
           /\ Len(flat) = Len(other)
<1> DEFINE T == { g \in Nat : g \in 1 .. Len(s) + 1 => o[g] = p[g] }
<1>4. o[1] = 0 /\ p[1] = 0
    BY DEF IsPlaces
<1>5. \A g \in 1 .. Len(s) : o[g + 1] = o[g] + Len(s[g]) /\ p[g + 1] = p[g] + Len(t[g])
    BY DEF IsPlaces
<1>6. 0 \in T
    OBVIOUS
<1>7. ASSUME NEW g \in Nat, g \in T
      PROVE  g + 1 \in T
    <2> SUFFICES ASSUME g + 1 \in 1 .. Len(s) + 1
                 PROVE  o[g + 1] = p[g + 1]
        BY <1>7
    <2>1. CASE g = 0
        BY <2>1, <1>4
    <2>2. CASE g # 0
        <3>1. g \in 1 .. Len(s) /\ g \in 1 .. Len(s) + 1
            BY <2>2, <1>7
        <3>2. o[g] = p[g] /\ Len(s[g]) = Len(t[g])
            BY <3>1, <1>7
        <3> QED
            BY <3>1, <3>2, <1>5
    <2> QED
        BY <2>1, <2>2
<1>8. \A g \in Nat : g \in T => (g \in 1 .. Len(s) + 1 => o[g] = p[g])
    OBVIOUS
<1> HIDE DEF T
<1>9. Nat \subseteq T
    BY <1>6, <1>7, NaturalsIn
<1>10. \A g \in 1 .. Len(s) + 1 : o[g] = p[g]
    BY <1>8, <1>9
<1>11. Len(flat) = o[Len(s) + 1] /\ Len(other) = p[Len(s) + 1] /\ Len(s) + 1 \in 1 .. Len(s) + 1
    BY DEF IsPlaces
<1> QED
    BY <1>10, <1>11

\* Two concatenations of sequences of the same lengths have the same length, and
\* are equal only if the sequences are.
LEMMA FlattenInjective ==
    ASSUME NEW S, NEW s \in Seq(Seq(S)), NEW t \in Seq(Seq(S)), Len(s) = Len(t),
           \A g \in 1 .. Len(s) : Len(s[g]) = Len(t[g])
    PROVE  /\ Len(FlattenSeq(s)) = Len(FlattenSeq(t))
           /\ FlattenSeq(s) = FlattenSeq(t) => \A g \in 1 .. Len(s) : s[g] = t[g]
<1>1. PICK o \in [1 .. Len(s) + 1 -> Nat] : IsPlaces(s, FlattenSeq(s), o)
    BY FlattenPlaces
<1>2. PICK p \in [1 .. Len(t) + 1 -> Nat] : IsPlaces(t, FlattenSeq(t), p)
    BY FlattenPlaces
<1>3. Len(s) \in Nat
    OBVIOUS
<1>4. /\ \A g \in 1 .. Len(s) + 1 : o[g] = p[g]
      /\ Len(FlattenSeq(s)) = Len(FlattenSeq(t))
    <2> DEFINE flat == FlattenSeq(s)
    <2> DEFINE other == FlattenSeq(t)
    <2>1. IsPlaces(s, flat, o) /\ IsPlaces(t, other, p)
        BY <1>1, <1>2
    <2> SUFFICES (\A g \in 1 .. Len(s) + 1 : o[g] = p[g]) /\ Len(flat) = Len(other)
        OBVIOUS
    <2> HIDE DEF flat, other
    <2> QED
        BY <1>3, <2>1, SamePlaces
<1>5. ASSUME FlattenSeq(s) = FlattenSeq(t), NEW g \in 1 .. Len(s)
      PROVE  s[g] = t[g]
    <2>1. g \in Nat /\ g \in 1 .. Len(s) + 1 /\ g \in 1 .. Len(t)
        BY <1>3
    <2>2. o[g] = p[g]
        BY <2>1, <1>4
    <2>3. \A i \in 1 .. Len(s[g]) : s[g][i] = t[g][i]
        <3>1. \A i \in 1 .. Len(s[g]) : FlattenSeq(s)[o[g] + i] = s[g][i]
            BY <1>1 DEF IsPlaces
        <3>2. \A i \in 1 .. Len(t[g]) : FlattenSeq(t)[p[g] + i] = t[g][i]
            BY <2>1, <1>2 DEF IsPlaces
        <3>3. Len(s[g]) = Len(t[g])
            OBVIOUS
        <3> QED
            BY <3>1, <3>2, <3>3, <2>2, <1>5
    <2>4. s[g] \in Seq(S) /\ t[g] \in Seq(S) /\ Len(s[g]) = Len(t[g])
        BY <2>1
    <2> QED
        BY <2>3, <2>4, SeqEqual
<1> QED
    BY <1>4, <1>5

\* Of sequences of one length the concatenation is as many times as long, and
\* each of them is where the lengths of those before it end.
LEMMA FlattenBlocks ==
    ASSUME NEW S, NEW s \in Seq(Seq(S)), NEW L \in Nat, \A g \in 1 .. Len(s) : Len(s[g]) = L
    PROVE  /\ FlattenSeq(s) \in Seq(S) /\ Len(FlattenSeq(s)) = Len(s) * L
           /\ \A g \in 1 .. Len(s) : \A i \in 1 .. L : FlattenSeq(s)[(g - 1) * L + i] = s[g][i]
<1> DEFINE flat == FlattenSeq(s)
<1>1. PICK off \in [1 .. Len(s) + 1 -> Nat] : IsPlaces(s, flat, off)
    BY FlattenPlaces
<1>2. /\ off[1] = 0 /\ Len(flat) = off[Len(s) + 1]
      /\ \A g \in 1 .. Len(s) : /\ off[g + 1] = off[g] + L
                                /\ \A i \in 1 .. L : flat[off[g] + i] = s[g][i]
    BY <1>1 DEF IsPlaces
<1>3. Len(s) \in Nat /\ flat \in Seq(S)
    BY FlattenPlaces
<1> HIDE DEF flat
<1> DEFINE P(n) == n + 1 \in 1 .. Len(s) + 1 => off[n + 1] = n * L
<1> DEFINE T == { n \in Nat : P(n) }
<1>4. P(0)
    BY <1>2
<1>5. ASSUME NEW n \in Nat, P(n)
      PROVE  P(n + 1)
    <2> SUFFICES ASSUME n + 1 + 1 \in 1 .. Len(s) + 1
                 PROVE  off[n + 1 + 1] = (n + 1) * L
        OBVIOUS
    <2>1. n + 1 \in 1 .. Len(s) /\ n + 1 \in 1 .. Len(s) + 1
        BY <1>3
    <2>2. (n + 1) * L = n * L + L
        OBVIOUS
    <2> QED
        BY <1>2, <1>5, <2>1, <2>2
<1>6. 0 \in T /\ \A n \in Nat : n \in T => n + 1 \in T
    BY <1>4, <1>5
<1> HIDE DEF T
<1>7. Nat \subseteq T
    BY <1>6, NaturalsIn
<1>8. \A n \in Nat : P(n)
    BY <1>7 DEF T
<1> HIDE DEF P
<1>9. ASSUME NEW g \in 1 .. Len(s) + 1
      PROVE  off[g] = (g - 1) * L
    <2>1. g - 1 \in Nat /\ g - 1 + 1 = g
        BY <1>3
    <2> QED
        BY <1>8, <2>1 DEF P
<1>10. Len(flat) = Len(s) * L
    <2>1. Len(s) + 1 \in 1 .. Len(s) + 1 /\ Len(s) + 1 - 1 = Len(s)
        BY <1>3
    <2>2. off[Len(s) + 1] = (Len(s) + 1 - 1) * L
        BY <1>9, <2>1
    <2> QED
        BY <1>2, <2>1, <2>2
<1>11. ASSUME NEW g \in 1 .. Len(s), NEW i \in 1 .. L
       PROVE  flat[(g - 1) * L + i] = s[g][i]
    <2>1. g \in 1 .. Len(s) + 1
        BY <1>3
    <2>2. off[g] = (g - 1) * L
        BY <1>9, <2>1
    <2> QED
        BY <1>2, <2>2
<1> QED
    BY <1>3, <1>10, <1>11 DEF flat

\* Of sequences of at most one element there are at most as many elements.
LEMMA FlattenShort ==
    ASSUME NEW S, NEW s \in Seq(Seq(S)), \A g \in 1 .. Len(s) : Len(s[g]) \in {0, 1}
    PROVE  FlattenSeq(s) \in Seq(S) /\ Len(FlattenSeq(s)) <= Len(s)
<1> DEFINE flat == FlattenSeq(s)
<1>1. PICK off \in [1 .. Len(s) + 1 -> Nat] : IsPlaces(s, flat, off)
    BY FlattenPlaces
<1>2. /\ off[1] = 0 /\ Len(flat) = off[Len(s) + 1]
      /\ \A g \in 1 .. Len(s) : off[g + 1] = off[g] + Len(s[g])
    BY <1>1 DEF IsPlaces
<1>3. Len(s) \in Nat /\ flat \in Seq(S)
    BY FlattenPlaces
<1> HIDE DEF flat
<1> DEFINE P(n) == n + 1 \in 1 .. Len(s) + 1 => off[n + 1] <= n
<1> DEFINE T == { n \in Nat : P(n) }
<1>4. P(0)
    BY <1>2
<1>5. ASSUME NEW n \in Nat, P(n)
      PROVE  P(n + 1)
    <2> SUFFICES ASSUME n + 1 + 1 \in 1 .. Len(s) + 1
                 PROVE  off[n + 1 + 1] <= n + 1
        OBVIOUS
    <2>1. n + 1 \in 1 .. Len(s) /\ n + 1 \in 1 .. Len(s) + 1
        BY <1>3
    <2>2. off[n + 1] \in Nat /\ Len(s[n + 1]) \in {0, 1}
        BY <2>1
    <2>3. off[n + 1 + 1] = off[n + 1] + Len(s[n + 1])
        BY <1>2, <2>1
    <2>4. off[n + 1] <= n
        BY <1>5, <2>1
    <2>5. \A x \in Nat : \A d \in {0, 1} : x <= n => x + d <= n + 1
        OBVIOUS
    <2> HIDE DEF P, T
    <2> QED
        BY <2>2, <2>3, <2>4, <2>5
<1>6. 0 \in T /\ \A n \in Nat : n \in T => n + 1 \in T
    BY <1>4, <1>5
<1> HIDE DEF T
<1>7. Nat \subseteq T
    BY <1>6, NaturalsIn
<1>8. P(Len(s))
    BY <1>3, <1>7 DEF T
<1>9. Len(s) + 1 \in 1 .. Len(s) + 1
    BY <1>3
<1> QED
    BY <1>2, <1>3, <1>8, <1>9 DEF flat

-----------------------------------------------------------------------------
(*****************************************************************************)
(* Stretches of numbers.                                                     *)
(*****************************************************************************)

\* Division with remainder.
LEMMA Quotient ==
    ASSUME NEW n \in Nat, NEW d \in Nat \ {0}
    PROVE  /\ n \div d \in Nat
           /\ (n \div d) * d \in Nat
           /\ (n \div d) * d <= n
           /\ n < (n \div d) * d + d
OBVIOUS

\* Multiplication is monotonic.
LEMMA TimesGrows ==
    ASSUME NEW p \in Nat, NEW q \in Nat, NEW d \in Nat, p < q
    PROVE  /\ p * d \in Nat /\ q * d \in Nat /\ (q - 1) * d \in Nat
           /\ p * d + d <= q * d
           /\ (q - 1) * d = q * d - d
<1>1. q = p + 1 + (q - p - 1) /\ q - p - 1 \in Nat
    OBVIOUS
<1>2. \A x, y \in Nat : x * y \in Nat
    OBVIOUS
<1>3. \A x \in Nat : (p + 1 + x) * d = p * d + d + x * d
    OBVIOUS
<1>4. q * d = p * d + d + (q - p - 1) * d
    BY <1>1, <1>3
<1>5. (q - 1) * d = q * d - d
    BY <1>1
<1> QED
    BY <1>1, <1>2, <1>4, <1>5

\* Of parts of one length, a place is in one only, at one offset.
LEMMA SamePart ==
    ASSUME NEW d \in Nat, NEW p \in Nat, NEW q \in Nat, NEW x \in 0 .. (d - 1), NEW y \in 0 .. (d - 1),
           p * d + x = q * d + y
    PROVE  p = q /\ x = y
<1>1. p * d \in Nat /\ q * d \in Nat
    BY TimesGrows
<1>2. CASE p < q
    BY <1>1, <1>2, TimesGrows
<1>3. CASE q < p
    BY <1>1, <1>3, TimesGrows
<1>4. CASE p = q
    BY <1>1, <1>4
<1> QED
    BY <1>2, <1>3, <1>4

\* A place in a stretch of a larger one is a place in that.
LEMMA WithinPart ==
    ASSUME NEW l \in Nat, NEW m \in Nat, NEW n \in Nat, NEW r \in Nat, NEW x \in Nat,
           x < n, m + n <= r, NEW a, a = l + m
    PROVE  a + x \in l .. (l + r - 1)
OBVIOUS

\* Its place, counted from 1.
LEMMA PlaceInPart ==
    ASSUME NEW a, NEW b \in Nat, NEW x \in Nat, a = b + x
    PROVE  a - b + 1 = x + 1
OBVIOUS

\* A place within the bounds of a stretch is one of its offsets.
LEMMA PlaceInStore ==
    ASSUME NEW b \in Nat, NEW a \in Nat, NEW x \in Nat, NEW n \in Nat, b <= a + x, a + x < b + n
    PROVE  a + x - b \in 0 .. (n - 1)
OBVIOUS

\* The last of a set of indices is one.
LEMMA ChosenLast ==
    ASSUME NEW n \in Nat, NEW T, T \subseteq 1 .. n, NEW i \in T, \A j \in T : j <= i
    PROVE  (CHOOSE h \in T : \A j \in T : j <= h) = i
<1> DEFINE h == CHOOSE h \in T : \A j \in T : j <= h
<1>1. h \in T /\ \A j \in T : j <= h
    OBVIOUS
<1> HIDE DEF h
<1>2. h <= i /\ i <= h /\ h \in Nat /\ i \in Nat
    BY <1>1
<1> QED
    BY <1>2 DEF h

\* An element of a sequence is one of its set.
LEMMA ElementIn ==
    ASSUME NEW S, NEW d \in Seq(S), NEW y \in 1 .. Len(d)
    PROVE  d[y] \in S
OBVIOUS

-----------------------------------------------------------------------------
(***************************************************************************)
(* Ranks in a finite set whose members are numbered.                       *)
(***************************************************************************)

\* Those with a lower number than q, and than m.
Lower(P, f, q) == { p \in P : f[p] < f[q] }
UpTo(P, f, m) == { p \in P : f[p] < m }
IsNumbering(P, f, n) ==
    /\ n \in Nat
    /\ f \in [P -> 0 .. (n - 1)]
    /\ \A p, q \in P : f[p] = f[q] => p = q

\* The k-th of those below m has k - 1 others below it.
LEMMA RanksUpTo ==
    ASSUME NEW P, NEW f, NEW n, IsNumbering(P, f, n), NEW m \in 0 .. n
    PROVE  /\ IsFiniteSet(UpTo(P, f, m))
           /\ \A k \in 1 .. Cardinality(UpTo(P, f, m)) :
                 \E q \in UpTo(P, f, m) : Cardinality(Lower(P, f, q)) = k - 1
<1> DEFINE U(h) == UpTo(P, f, h)
<1> DEFINE C(h) == /\ IsFiniteSet(U(h))
                   /\ \A k \in 1 .. Cardinality(U(h)) :
                         \E q \in U(h) : Cardinality(Lower(P, f, q)) = k - 1
<1> DEFINE T == { h \in Nat : h <= n => C(h) }
<1>0. n \in Nat /\ \A p \in P : f[p] \in 0 .. (n - 1)
    BY DEF IsNumbering
<1>1. 0 \in T
    <2>1. U(0) = {}
        BY <1>0 DEF UpTo
    <2> HIDE DEF U
    <2>2. IsFiniteSet(U(0)) /\ Cardinality(U(0)) = 0
        BY <2>1, FS_EmptySet
    <2> QED
        BY <2>2
<1>2. ASSUME NEW h \in Nat, h \in T
      PROVE  h + 1 \in T
    <2> SUFFICES ASSUME h + 1 <= n
                 PROVE  C(h + 1)
        BY <1>2
    <2>1. C(h)
        BY <1>0, <1>2
    <2>2. CASE \A p \in P : f[p] # h
        <3>1. U(h + 1) = U(h)
            BY <1>0, <1>2, <2>2 DEF UpTo
        <3> HIDE DEF U
        <3> QED
            BY <2>1, <3>1
    <2>3. CASE \E p \in P : f[p] = h
        <3>1. PICK p \in P : f[p] = h
            BY <2>3
        <3>2. \A q \in P : f[q] = h => q = p
            BY <3>1 DEF IsNumbering
        <3>3. U(h + 1) = U(h) \cup {p} /\ p \notin U(h)
            BY <1>0, <1>2, <3>1, <3>2 DEF UpTo
        <3>4. Lower(P, f, p) = U(h)
            BY <3>1 DEF Lower, UpTo
        <3> HIDE DEF U
        <3>5. /\ IsFiniteSet(U(h + 1)) /\ Cardinality(U(h + 1)) = Cardinality(U(h)) + 1
              /\ Cardinality(U(h)) \in Nat
            BY <2>1, <3>3, FS_AddElement, FS_CardinalityType
        <3>6. ASSUME NEW k \in 1 .. Cardinality(U(h + 1))
              PROVE  \E q \in U(h + 1) : Cardinality(Lower(P, f, q)) = k - 1
            <4>1. CASE k \in 1 .. Cardinality(U(h))
                BY <2>1, <3>3, <4>1
            <4>2. CASE k = Cardinality(U(h)) + 1
                BY <3>3, <3>4, <3>5, <4>2
            <4> QED
                BY <3>5, <3>6, <4>1, <4>2
        <3> QED
            BY <3>5, <3>6
    <2> QED
        BY <2>2, <2>3
<1> HIDE DEF T
<1>3. m \in T
    BY <1>0, <1>1, <1>2, NaturalsIn
<1> QED
    BY <1>0, <1>3 DEF T

\* Every rank is that of one member.
LEMMA RanksAre ==
    ASSUME NEW P, NEW f, NEW n, IsNumbering(P, f, n)
    PROVE  /\ IsFiniteSet(P) /\ Cardinality(P) \in Nat
           /\ \A k \in 1 .. Cardinality(P) : \E q \in P : Cardinality(Lower(P, f, q)) = k - 1
           /\ \A q \in P : Cardinality(Lower(P, f, q)) + 1 \in 1 .. Cardinality(P)
           /\ \A p, q \in P : Cardinality(Lower(P, f, p)) = Cardinality(Lower(P, f, q)) => p = q
<1>0. n \in Nat /\ n \in 0 .. n /\ \A p \in P : f[p] \in 0 .. (n - 1)
    BY DEF IsNumbering
<1>1. UpTo(P, f, n) = P
    BY <1>0 DEF UpTo
<1>2. /\ IsFiniteSet(P)
      /\ \A k \in 1 .. Cardinality(P) : \E q \in P : Cardinality(Lower(P, f, q)) = k - 1
    BY <1>0, <1>1, RanksUpTo
<1>3. Cardinality(P) \in Nat
    BY <1>2, FS_CardinalityType
<1>4. \A q \in P : Lower(P, f, q) \subseteq P /\ q \notin Lower(P, f, q)
    BY <1>0 DEF Lower
<1>5. ASSUME NEW q \in P, NEW Q, IsFiniteSet(Q), Lower(P, f, q) \cup {q} \subseteq Q
      PROVE  /\ Cardinality(Lower(P, f, q)) \in Nat
             /\ Cardinality(Lower(P, f, q)) + 1 <= Cardinality(Q)
    <2> DEFINE L == Lower(P, f, q)
    <2>1. q \notin L /\ L \subseteq P
        BY <1>4, <1>5
    <2>2. L \cup {q} \subseteq Q
        BY <1>5
    <2> HIDE DEF L
    <2>3. IsFiniteSet(L)
        BY <1>2, <2>1, FS_Subset
    <2>4. /\ IsFiniteSet(L \cup {q}) /\ Cardinality(L \cup {q}) = Cardinality(L) + 1
        BY <2>1, <2>3, FS_AddElement
    <2>5. Cardinality(L \cup {q}) <= Cardinality(Q)
        BY <1>5, <2>2, FS_Subset
    <2>6. Cardinality(L) \in Nat
        BY <2>3, FS_CardinalityType
    <2> QED
        BY <2>4, <2>5, <2>6 DEF L
<1>6. ASSUME NEW q \in P
      PROVE  /\ Cardinality(Lower(P, f, q)) + 1 \in 1 .. Cardinality(P)
    <2>1. Lower(P, f, q) \cup {q} \subseteq P
        BY <1>4, <1>6
    <2>2. /\ Cardinality(Lower(P, f, q)) \in Nat
          /\ Cardinality(Lower(P, f, q)) + 1 <= Cardinality(P)
        BY <1>2, <1>5, <1>6, <2>1
    <2> QED
        BY <1>3, <2>2
<1>7. ASSUME NEW p \in P, NEW q \in P, f[p] < f[q]
      PROVE  Cardinality(Lower(P, f, p)) # Cardinality(Lower(P, f, q))
    <2>1. Lower(P, f, p) \cup {p} \subseteq Lower(P, f, q)
        BY <1>0, <1>7 DEF Lower
    <2>2. IsFiniteSet(Lower(P, f, q))
        BY <1>2, <1>4, <1>7, FS_Subset
    <2>3. /\ Cardinality(Lower(P, f, p)) \in Nat
          /\ Cardinality(Lower(P, f, p)) + 1 <= Cardinality(Lower(P, f, q))
        BY <1>5, <1>7, <2>1, <2>2
    <2>4. Cardinality(Lower(P, f, q)) \in Nat
        BY <2>2, FS_CardinalityType
    <2> QED
        BY <2>3, <2>4
<1>8. ASSUME NEW p \in P, NEW q \in P, Cardinality(Lower(P, f, p)) = Cardinality(Lower(P, f, q))
      PROVE  p = q
    <2>1. f[p] \in Nat /\ f[q] \in Nat
        BY <1>0, <1>8
    <2>2. ~ (f[p] < f[q]) /\ ~ (f[q] < f[p])
        BY <1>7, <1>8
    <2>3. f[p] = f[q]
        BY <2>1, <2>2
    <2> QED
        BY <1>8, <2>3 DEF IsNumbering
<1> QED
    BY <1>2, <1>3, <1>6, <1>8

\* A function of 1 .. n is a list of n.
LEMMA ListIn ==
    ASSUME NEW n \in Nat, NEW S, NEW f \in [1 .. n -> S]
    PROVE  f \in Seq(S) /\ Len(f) = n
<1>1. f \in Seq(S)
    BY SeqDef
<1>2. DOMAIN f = 1 .. n /\ DOMAIN f = 1 .. Len(f) /\ Len(f) \in Nat
    BY <1>1, LenProperties
<1> QED
    BY <1>1, <1>2

\* Whatever its values are.
LEMMA ListIsSeq ==
    ASSUME NEW n \in Nat, NEW f, f = [i \in 1 .. n |-> f[i]]
    PROVE  IsSeq(f) /\ Len(f) = n
<1> DEFINE S == { f[i] : i \in 1 .. n }
<1>1. f \in [1 .. n -> S]
    OBVIOUS
<1> HIDE DEF S
<1> QED
    BY <1>1, ListIn DEF IsSeq

\* What is the same backwards is the same.
LEMMA ReverseInjective ==
    ASSUME NEW S, NEW v \in Seq(S), NEW w \in Seq(S), Len(v) = Len(w)
    PROVE  /\ Reverse(v) \in Seq(S) /\ Len(Reverse(v)) = Len(v)
           /\ Reverse(v) = Reverse(w) => v = w
<1> DEFINE n == Len(v)
<1> DEFINE rv == [i \in 1 .. n |-> v[n - i + 1]]
<1> DEFINE rw == [i \in 1 .. n |-> w[n - i + 1]]
<1>1. n \in Nat /\ \A i \in 1 .. n : v[i] \in S
    BY ElementIn
<1>2. Reverse(v) = rv /\ Reverse(w) = rw
    BY DEF Reverse
<1>3. \A i \in 1 .. n : n - i + 1 \in 1 .. n /\ n - (n - i + 1) + 1 = i
    BY <1>1
<1>4. rv \in Seq(S) /\ Len(rv) = n
    <2>1. rv \in [1 .. n -> S] /\ rv = [i \in 1 .. n |-> rv[i]]
        BY <1>1, <1>3
    <2> HIDE DEF rv, n
    <2> QED
        BY <1>1, <2>1, SeqDef, ListIsSeq
<1>5. ASSUME rv = rw
      PROVE  v = w
    <2>1. \A i \in 1 .. n : rv[i] = rw[i]
        BY <1>5
    <2>2. ASSUME NEW i \in 1 .. n
          PROVE  v[i] = w[i]
        <3>1. rv[n - i + 1] = rw[n - i + 1] /\ n - i + 1 \in 1 .. n
            BY <1>3, <2>1
        <3>2. rv[n - i + 1] = v[i] /\ rw[n - i + 1] = w[i]
            BY <1>3
        <3> QED
            BY <3>1, <3>2
    <2> QED
        BY <2>2, SeqEqual
<1> QED
    BY <1>2, <1>4, <1>5
=============================================================================
