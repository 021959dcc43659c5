------------------------------ MODULE Crc_proofs ------------------------------
(* Theorems about the checksums of Crc, for messages of any length.         *)
(*                                                                          *)
(* After is a recursive function; what it computes is proved by induction   *)
(* over intervals, which SetInduction takes from the order of finite sets.  *)
EXTENDS Crc, FiniteSetTheorems, SequenceTheorems, TLAPS

-----------------------------------------------------------------------------
(* Induction, and computations in steps.                                   *)

\* Induction over the naturals.  The intervals that end outside S would have a
\* smallest one among them, since strict inclusion of finite sets is well founded.
LEMMA SetInduction ==
  ASSUME NEW S, 0 \in S, \A n \in Nat : n \in S => n + 1 \in S
  PROVE  Nat \subseteq S
<1> SUFFICES ASSUME NEW m \in Nat, m \notin S PROVE FALSE
  OBVIOUS
<1> DEFINE T == {0..n : n \in Nat \ S}
<1>1. T \subseteq FiniteSubsetsOf(Nat)
  <2> SUFFICES ASSUME NEW n \in Nat \ S PROVE 0..n \in FiniteSubsetsOf(Nat)
    OBVIOUS
  <2>1. IsFiniteSet(0..n)
    BY FS_Interval
  <2> QED BY <2>1 DEF FiniteSubsetsOf
<1>2. T # {}
  OBVIOUS
<1>3. PICK U \in T : \A V \in T : ~ (<<V, U>> \in StrictSubsetOrdering(Nat))
  <2> HIDE DEF T
  <2> QED BY <1>1, <1>2, FS_StrictSubsetOrderingWellFounded, WFMin
<1>4. PICK x \in Nat \ S : U = 0..x
  BY <1>3
<1>5. x - 1 \in Nat \ S
  BY <1>4
<1>6. 0..(x-1) \in T
  BY <1>5
<1>7. 0..(x-1) \subseteq 0..x /\ x \notin 0..(x-1)
  BY <1>5
<1>8. <<0..(x-1), 0..x>> \in StrictSubsetOrdering(Nat)
  BY <1>5, <1>7 DEF StrictSubsetOrdering
<1> QED BY <1>3, <1>4, <1>6, <1>8

\* Induction over an interval.
LEMMA UpTo ==
  ASSUME NEW N \in Nat, NEW S, 0 \in S, \A n \in 1..N : n - 1 \in S => n \in S
  PROVE  0..N \subseteq S
<1> DEFINE T == {n \in Nat : n <= N => n \in S}
<1>1. Nat \subseteq T
  <2>1. 0 \in T
    OBVIOUS
  <2>2. ASSUME NEW n \in Nat, n \in T PROVE n + 1 \in T
    <3> SUFFICES ASSUME n + 1 <= N PROVE n + 1 \in S
      OBVIOUS
    <3>1. n + 1 \in 1..N /\ n \in S /\ (n + 1) - 1 = n
      BY <2>2
    <3> QED BY <3>1
  <2> HIDE DEF T
  <2> QED BY <2>1, <2>2, SetInduction
<1> QED BY <1>1

\* The values that the functions in G lead through, from a on.
Iterates(A, a, N, G) ==
  {f \in [0..N -> A] : f[0] = a /\ \A n \in 1..N : f[n] = G[n][f[n - 1]]}

\* There are such values.
LEMMA Recursion ==
  ASSUME NEW A, NEW a \in A, NEW N \in Nat, NEW G \in [1..N -> [A -> A]]
  PROVE  Iterates(A, a, N, G) # {}
<1> DEFINE Good(f, M) == f[0] = a /\ \A n \in 1..M : f[n] = G[n][f[n - 1]]
           S == {M \in 0..N : \E f \in [0..M -> A] : Good(f, M)}
<1>1. 0 \in S
  <2>1. [n \in 0..0 |-> a] \in [0..0 -> A] /\ Good([n \in 0..0 |-> a], 0)
    OBVIOUS
  <2> HIDE DEF Good
  <2> QED BY <2>1
<1>2. ASSUME NEW M \in 1..N, M - 1 \in S PROVE M \in S
  <2>1. PICK f \in [0..(M - 1) -> A] : Good(f, M - 1)
    BY <1>2
  <2> DEFINE g == [n \in 0..M |-> IF n = M THEN G[M][f[M - 1]] ELSE f[n]]
  <2>2. g \in [0..M -> A]
    BY <2>1
  <2>3. Good(g, M)
    <3>1. g[0] = a
      BY <2>1
    <3>2. ASSUME NEW n \in 1..M PROVE g[n] = G[n][g[n - 1]]
      <4>1. g[n - 1] = f[n - 1]
        BY <3>2
      <4>2. CASE n = M
        BY <4>1, <4>2
      <4>3. CASE n # M
        <5>1. n \in 1..(M-1) /\ g[n] = f[n]
          BY <4>3
        <5> QED BY <2>1, <4>1, <5>1
      <4> QED BY <4>2, <4>3
    <3> QED BY <3>1, <3>2
  <2> HIDE DEF Good, g
  <2> QED BY <2>2, <2>3
<1>3. 0..N \subseteq S
  <2> HIDE DEF S
  <2> QED BY <1>1, <1>2, UpTo
<1> QED BY <1>3 DEF Iterates

\* After computes the last of them.
LEMMA AfterSteps ==
  ASSUME NEW A, NEW a \in A, NEW N \in Nat, NEW G \in [1..N -> [A -> A]]
  PROVE  \E f \in Iterates(A, a, N, G) : After(G, a) = f[N]
<1> DEFINE E(c) == c = [n \in 0..N |-> IF n = 0 THEN a ELSE G[n][c[n - 1]]]
           c    == CHOOSE c : E(c)
           T    == {n \in 0..N : c[n] \in A}
<1>1. PICK f \in [0..N -> A] : f[0] = a /\ \A n \in 1..N : f[n] = G[n][f[n - 1]]
  BY Recursion DEF Iterates
<1>2. E(c)
  <2>1. E(f)
    BY <1>1
  <2> HIDE DEF E
  <2> QED BY <2>1
<1>3. Len(G) = N
  BY LenProperties, SeqDef
<1>4. After(G, a) = c[N]
  BY <1>3 DEF After
<1> HIDE DEF c
<1>5. c[0] = a
  BY <1>2
<1>6. ASSUME NEW n \in 1..N PROVE c[n] = G[n][c[n - 1]]
  <2>1. n \in 0..N /\ n # 0
    OBVIOUS
  <2> QED BY <1>2, <2>1
<1>7. 0..N \subseteq T
  <2>1. 0 \in T
    BY <1>5
  <2>2. ASSUME NEW n \in 1..N, n - 1 \in T PROVE n \in T
    BY <1>6, <2>2
  <2> HIDE DEF T
  <2> QED BY <2>1, <2>2, UpTo
<1>8. c \in [0..N -> A]
  BY <1>2, <1>7
<1>9. c \in Iterates(A, a, N, G)
  BY <1>5, <1>6, <1>8 DEF Iterates
<1> QED BY <1>4, <1>9

\* N functions, one after the other.
Steps(A, N) == [1..N -> [A -> A]]

\* Each pair of functions takes a pair of values related by R to the next.
Preserved(A, B, N, G, H, R) ==
  \A n \in 1..N, x \in A, y \in B :
    <<x, y>> \in R[n - 1] => <<G[n][x], H[n][y]>> \in R[n]

\* Two computations side by side stay related.
LEMMA Lockstep ==
  ASSUME NEW A, NEW a \in A, NEW B, NEW b \in B, NEW N \in Nat,
         NEW G \in Steps(A, N), NEW H \in Steps(B, N), NEW R,
         <<a, b>> \in R[0], Preserved(A, B, N, G, H, R)
  PROVE  After(G, a) \in A /\ After(H, b) \in B /\ <<After(G, a), After(H, b)>> \in R[N]
<1>1. PICK f \in Iterates(A, a, N, G) : After(G, a) = f[N]
  BY AfterSteps DEF Steps
<1>2. PICK g \in Iterates(B, b, N, H) : After(H, b) = g[N]
  BY AfterSteps DEF Steps
<1>3. /\ f \in [0..N -> A] /\ f[0] = a /\ \A n \in 1..N : f[n] = G[n][f[n - 1]]
      /\ g \in [0..N -> B] /\ g[0] = b /\ \A n \in 1..N : g[n] = H[n][g[n - 1]]
  BY DEF Iterates
<1> DEFINE T == {n \in 0..N : <<f[n], g[n]>> \in R[n]}
<1>4. 0..N \subseteq T
  <2>1. 0 \in T
    <3>1. f[0] = a /\ g[0] = b
      BY <1>3
    <3>2. <<f[0], g[0]>> \in R[0]
      BY <3>1
    <3> QED BY <3>2
  <2>2. ASSUME NEW n \in 1..N, n - 1 \in T PROVE n \in T
    <3>1. f[n - 1] \in A /\ g[n - 1] \in B
      BY <1>3
    <3>2. <<f[n - 1], g[n - 1]>> \in R[n - 1]
      BY <2>2
    <3>3. <<G[n][f[n - 1]], H[n][g[n - 1]]>> \in R[n]
      BY <3>1, <3>2 DEF Preserved
    <3>4. f[n] = G[n][f[n - 1]] /\ g[n] = H[n][g[n - 1]]
      BY <1>3
    <3>5. <<f[n], g[n]>> \in R[n]
      BY <3>3, <3>4
    <3> QED BY <3>5
  <2> HIDE DEF T
  <2> QED BY <2>1, <2>2, UpTo
<1> QED BY <1>1, <1>2, <1>3, <1>4

-----------------------------------------------------------------------------
(* The tables of CRC.cpp are division by the generators.                   *)

\* ^ of two bytes is a byte.
LEMMA XorType8 == \A x, y \in Bits8 : SymDiff(x, y) \in Bits8
  BY DEF SymDiff, Bits8

\* One bit of the division leaves a byte.
LEMMA Crc8ShiftedType == \A u \in Bits8 : Crc8Shifted(u) \in Bits8
  BY DEF Crc8Shifted, Bits8, Bit8, Up, SymDiff, Generator8

\* x << j of a byte, and x >> j.
ShiftedUp(u, j)   == {k + j : k \in {i \in u : i + j <= 7}}
ShiftedDown(u, j) == {k - j : k \in {i \in u : i >= j}}

\* Shifting by one place more, and the bit that leaves.
LEMMA ShiftUp ==
  ASSUME NEW u \in Bits8, NEW j \in 1..8
  PROVE  /\ ShiftedUp(u, j - 1) \in Bits8
         /\ Up(ShiftedUp(u, j - 1)) = ShiftedUp(u, j)
         /\ 7 \in ShiftedUp(u, j - 1) <=> 8 - j \in u
<1>1. \A k : k \in ShiftedUp(u, j - 1) <=> k \in j - 1..7 /\ k - (j - 1) \in u
  BY DEF ShiftedUp, Bits8, Bit8
<1>2. \A k : k \in ShiftedUp(u, j) <=> k \in j..7 /\ k - j \in u
  BY DEF ShiftedUp, Bits8, Bit8
<1>3. \A k : k \in Up(ShiftedUp(u, j - 1)) <=> k \in j..7 /\ k - j \in u
  <2>1. \A k : k \in Up(ShiftedUp(u, j - 1)) <=> k \in 1..7 /\ k - 1 \in ShiftedUp(u, j - 1)
    BY <1>1 DEF Up
  <2> QED BY <1>1, <2>1
<1> QED BY <1>1, <1>2, <1>3 DEF Bits8, Bit8

\* The same of a word and the lowest bit.
LEMMA ShiftDown ==
  ASSUME NEW u \in Bits16, NEW j \in 1..8
  PROVE  /\ ShiftedDown(u, j - 1) \in Bits16
         /\ Down(ShiftedDown(u, j - 1)) = ShiftedDown(u, j)
         /\ 0 \in ShiftedDown(u, j - 1) <=> j - 1 \in u
<1>1. \A k : k \in ShiftedDown(u, j - 1) <=> k \in 0..15 /\ k + (j - 1) \in u
  BY DEF ShiftedDown, Bits16, Bit16
<1>2. \A k : k \in ShiftedDown(u, j) <=> k \in 0..15 /\ k + j \in u
  BY DEF ShiftedDown, Bits16, Bit16
<1>3. \A k : k \in Down(ShiftedDown(u, j - 1)) <=> k \in 0..15 /\ k + j \in u
  <2>1. \A k : k \in Down(ShiftedDown(u, j - 1)) <=> k + 1 \in ShiftedDown(u, j - 1) /\ k \in 0..15
    BY <1>1 DEF Down, Bits16, Bit16
  <2> QED BY <1>1, <2>1 DEF Bits16, Bit16
<1> QED BY <1>1, <1>2, <1>3 DEF Bits16, Bit16

\* One bit of the table of getCrc8, and one bit of the division, of registers that
\* differ by the bits still to come.
LEMMA ShiftUpStep ==
  ASSUME NEW u \in Bits8, NEW j \in 1..8, NEW x \in Bits8, NEW y \in Bits8,
         x = SymDiff(y, ShiftedUp(u, j - 1))
  PROVE  Crc8Shifted(x) = SymDiff(Divided8(y, 8 - j \in u), ShiftedUp(u, j))
<1> DEFINE v == ShiftedUp(u, j - 1)
<1>1. v \in Bits8 /\ Up(v) = ShiftedUp(u, j) /\ (7 \in v <=> 8 - j \in u)
  BY ShiftUp
<1>2. 7 \in x <=> ((7 \in y) # (8 - j \in u))
  BY <1>1 DEF SymDiff
<1>3. Up(x) = SymDiff(Up(y), Up(v))
  BY <1>1 DEF Up, SymDiff, Bits8, Bit8
<1> HIDE DEF v
<1>4. SymDiff(SymDiff(Up(y), Up(v)), Generator8) = SymDiff(SymDiff(Up(y), Generator8), Up(v))
  BY DEF SymDiff
<1> QED BY <1>1, <1>2, <1>3, <1>4 DEF Crc8Shifted, Divided8

\* The same of the lowest bit.  w and z only say whether a bit is set.
LEMMA ShiftDownStep ==
  ASSUME NEW u \in Bits16, NEW j \in 1..8, NEW x \in Bits16, NEW y \in Bits16,
         NEW w, NEW z,
         x = SymDiff(y, ShiftedDown(u, j - 1)),
         0 \in w <=> ((j - 1 \in z) # (j - 1 \in u))
  PROVE  Divided16(x, j - 1 \in z) = SymDiff(Divided16(y, 0 \in w), ShiftedDown(u, j))
<1> DEFINE v == ShiftedDown(u, j - 1)
<1>1. v \in Bits16 /\ Down(v) = ShiftedDown(u, j) /\ (0 \in v <=> j - 1 \in u)
  BY ShiftDown
<1>2. (0 \in x) # (j - 1 \in z) <=> ((0 \in y) # (0 \in w))
  BY <1>1 DEF SymDiff
<1>3. Down(x) = SymDiff(Down(y), Down(v))
  <2>1. \A k : k \in Down(x) <=> k \in 0..14 /\ k + 1 \in x
    BY DEF Down, Bits16, Bit16
  <2>2. \A k : k \in Down(y) <=> k \in 0..14 /\ k + 1 \in y
    BY DEF Down, Bits16, Bit16
  <2>3. \A k : k \in Down(v) <=> k \in 0..14 /\ k + 1 \in v
    BY <1>1 DEF Down, Bits16, Bit16
  <2>4. x = SymDiff(y, v)
    OBVIOUS
  <2> HIDE DEF v
  <2>5. \A k : k \in SymDiff(Down(y), Down(v)) <=> k \in Down(x)
    BY <2>1, <2>2, <2>3, <2>4 DEF SymDiff
  <2> QED BY <2>5
<1> HIDE DEF v
<1>4. SymDiff(SymDiff(Down(y), Down(v)), Generator16) = SymDiff(SymDiff(Down(y), Generator16), Down(v))
  BY DEF SymDiff
<1> QED BY <1>1, <1>2, <1>3, <1>4 DEF Divided16

\* One bit of the division loses nothing.
LEMMA Divided8Injective ==
  \A x, y \in Bits8 : Crc8Shifted(x) = Crc8Shifted(y) => x = y
<1> SUFFICES ASSUME NEW x \in Bits8, NEW y \in Bits8, Crc8Shifted(x) = Crc8Shifted(y)
             PROVE  x = y
  OBVIOUS
<1>1. \A k : k \in Up(x) <=> k \in 1..7 /\ k - 1 \in x
  BY DEF Up, Bits8, Bit8
<1>2. \A k : k \in Up(y) <=> k \in 1..7 /\ k - 1 \in y
  BY DEF Up, Bits8, Bit8
<1>3. 7 \in x <=> 7 \in y
  BY <1>1, <1>2 DEF Crc8Shifted, SymDiff, Generator8
<1>4. Up(x) = Up(y)
  BY <1>3, <1>1, <1>2 DEF Crc8Shifted, SymDiff
<1>5. \A k \in 0..6 : k \in x <=> k \in y
  <2> SUFFICES ASSUME NEW k \in 0..6 PROVE k \in x <=> k \in y
    OBVIOUS
  <2>1. k + 1 \in 1..7 /\ (k + 1) - 1 = k
    OBVIOUS
  <2> QED BY <1>1, <1>2, <1>4, <2>1
<1>6. \A k \in Bit8 : k \in x <=> k \in y
  BY <1>3, <1>5 DEF Bit8
<1> QED BY <1>6 DEF Bits8

\* One bit of the division of a word loses nothing, whichever bit comes in.
LEMMA Divided16Injective ==
  ASSUME NEW x \in Bits16, NEW y \in Bits16, NEW b \in BOOLEAN, Divided16(x, b) = Divided16(y, b)
  PROVE  x = y
<1>1. \A k : k \in Down(x) <=> k \in 0..14 /\ k + 1 \in x
  BY DEF Down, Bits16, Bit16
<1>2. \A k : k \in Down(y) <=> k \in 0..14 /\ k + 1 \in y
  BY DEF Down, Bits16, Bit16
<1>3. 0 \in x <=> 0 \in y
  BY <1>1, <1>2 DEF Divided16, SymDiff, Generator16
<1>4. Down(x) = Down(y)
  BY <1>3, <1>1, <1>2 DEF Divided16, SymDiff
<1>5. \A k \in 1..15 : k \in x <=> k \in y
  <2> SUFFICES ASSUME NEW k \in 1..15 PROVE k \in x <=> k \in y
    OBVIOUS
  <2>1. k - 1 \in 0..14 /\ (k - 1) + 1 = k
    OBVIOUS
  <2> QED BY <1>1, <1>2, <1>4, <2>1
<1>6. \A k \in Bit16 : k \in x <=> k \in y
  BY <1>3, <1>5 DEF Bit16
<1> QED BY <1>6 DEF Bits16

\* Shifting by no place.
LEMMA NotShifted ==
  \A u \in Bits16 : ShiftedUp(u, 0) = {k \in u : k <= 7} /\ ShiftedDown(u, 0) = u
<1> SUFFICES ASSUME NEW u \in Bits16
             PROVE  ShiftedUp(u, 0) = {k \in u : k <= 7} /\ ShiftedDown(u, 0) = u
  OBVIOUS
<1>1. \A k \in u : k \in 0..15 /\ k + 0 = k /\ k - 0 = k
  BY DEF Bits16, Bit16
<1> QED BY <1>1 DEF ShiftedUp, ShiftedDown

\* After j bits: what the table has is what the division has, and the bits of u that
\* are still to come.
SumUp(u) ==
  [j \in 0..8 |-> {p \in Bits8 \X Bits8 : p[1] = SymDiff(p[2], ShiftedUp(u, j))}]

\* An entry of crc8Table is what the division makes of eight bits.
LEMMA Crc8TableIsDivision ==
  ASSUME NEW u \in Bits8, NEW r \in Bits8
  PROVE  Through8(u)[r] \in Bits8 /\ Crc8Table[SymDiff(u, r)] = Through8(u)[r]
<1> DEFINE G == Eight([x \in Bits8 |-> Crc8Shifted(x)])
           H == [j \in 1..8 |-> [x \in Bits8 |-> Divided8(x, 8 - j \in u)]]
           s == SymDiff(u, r)
<1>1. \A j \in 1..8, x \in Bits8 : G[j][x] = Crc8Shifted(x) /\ G[j][x] \in Bits8
  BY Crc8ShiftedType DEF Eight
<1>2. G \in Steps(Bits8, 8)
  BY <1>1 DEF Eight, Steps
<1>3. \A j \in 1..8, x \in Bits8 : Divided8(x, 8 - j \in u) \in Bits8
  BY DEF Divided8, Bits8, Bit8, Up, SymDiff, Generator8
<1>4. H \in Steps(Bits8, 8)
  BY <1>3 DEF Steps
<1>5. \A j \in 1..8, x \in Bits8 : H[j][x] = Divided8(x, 8 - j \in u) /\ H[j][x] \in Bits8
  BY <1>3
<1>6. s \in Bits8
  BY XorType8
<1>7. <<s, r>> \in SumUp(u)[0]
  <2>1. ShiftedUp(u, 0) = u
    <3>1. u \in Bits16 /\ \A k \in u : k <= 7
      BY DEF Bits16, Bit16, Bits8, Bit8
    <3> QED BY <3>1, NotShifted
  <2>2. s = SymDiff(r, ShiftedUp(u, 0))
    BY <2>1 DEF SymDiff
  <2> QED BY <2>2, <1>6 DEF SumUp
<1>8. Preserved(Bits8, Bits8, 8, G, H, SumUp(u))
  <2> SUFFICES ASSUME NEW j \in 1..8, NEW x \in Bits8, NEW y \in Bits8,
                      <<x, y>> \in SumUp(u)[j - 1]
               PROVE  <<G[j][x], H[j][y]>> \in SumUp(u)[j]
    BY DEF Preserved
  <2>1. x = SymDiff(y, ShiftedUp(u, j - 1))
    BY DEF SumUp
  <2>2. Crc8Shifted(x) = SymDiff(Divided8(y, 8 - j \in u), ShiftedUp(u, j))
    BY <2>1, ShiftUpStep
  <2> HIDE DEF G, H
  <2>3. G[j][x] = SymDiff(H[j][y], ShiftedUp(u, j)) /\ G[j][x] \in Bits8 /\ H[j][y] \in Bits8
    BY <1>1, <1>5, <2>2
  <2> QED BY <2>3 DEF SumUp
<1>9. Crc8Table[s] = After(G, s) /\ Through8(u)[r] = After(H, r)
  BY <1>6 DEF Crc8Table, Through8
<1> HIDE DEF G, H, s
<1>10. After(H, r) \in Bits8 /\ <<After(G, s), After(H, r)>> \in SumUp(u)[8]
  <2>1. 8 \in Nat
    OBVIOUS
  <2> QED BY <2>1, <1>2, <1>4, <1>6, <1>7, <1>8, Lockstep
<1>11. ShiftedUp(u, 8) = {}
  <2>1. \A k \in u : ~ (k + 8 <= 7)
    BY DEF Bits8, Bit8
  <2> QED BY <2>1 DEF ShiftedUp
<1>12. After(G, s) = SymDiff(After(H, r), ShiftedUp(u, 8))
  BY <1>10 DEF SumUp
<1>13. After(G, s) = After(H, r)
  BY <1>11, <1>12 DEF SymDiff
<1> QED BY <1>9, <1>10, <1>13 DEF s

\* After j bits of crc16Table: the register of the division is that of the table, and
\* the bits of x0 that are not shifted out.
SumDown(x0, c0) ==
  [j \in 0..8 |-> {p \in Register \X Bits16 : /\ p[1].c = ShiftedDown(c0, j)
                                              /\ p[2] = SymDiff(p[1].crc, ShiftedDown(x0, j))}]

\* What getCrc16 makes of a byte is what the division makes of its eight bits.
LEMMA Crc16NextIsDivision ==
  ASSUME NEW u \in Bits8, NEW x0 \in Bits16
  PROVE  Through16(u)[x0] \in Bits16 /\ Crc16Next(x0, u) = Through16(u)[x0]
<1> DEFINE G == Eight([r \in Register |-> Crc16Shifted(r)])
           H == [j \in 1..8 |-> [x \in Bits16 |-> Divided16(x, j - 1 \in u)]]
           c0 == SymDiff(x0, u) \cap Bit8
           r0 == [crc |-> {}, c |-> c0]
<1>1. \A r \in Register : Crc16Shifted(r) \in Register
  <2> SUFFICES ASSUME NEW r \in Register PROVE Crc16Shifted(r) \in Register
    OBVIOUS
  <2>1. r.crc \in Bits16 /\ r.c \in Bits8
    BY DEF Register
  <2>2. Down(r.crc) \in Bits16 /\ SymDiff(Down(r.crc), Generator16) \in Bits16
    BY <2>1 DEF Down, Bits16, Bit16, SymDiff, Generator16
  <2>3. Down(r.c) \in Bits8
    BY <2>1 DEF Down, Bits8, Bit8
  <2> QED BY <2>2, <2>3 DEF Crc16Shifted, Register
<1>2. \A j \in 1..8, r \in Register : G[j][r] = Crc16Shifted(r) /\ G[j][r] \in Register
  BY <1>1 DEF Eight
<1>3. G \in Steps(Register, 8)
  BY <1>2 DEF Eight, Steps
<1>4. \A j \in 1..8, x \in Bits16 : Divided16(x, j - 1 \in u) \in Bits16
  BY DEF Divided16, Bits16, Bit16, Down, SymDiff, Generator16
<1>5. H \in Steps(Bits16, 8)
  BY <1>4 DEF Steps
<1>6. \A j \in 1..8, x \in Bits16 : H[j][x] = Divided16(x, j - 1 \in u) /\ H[j][x] \in Bits16
  BY <1>4
<1>7. c0 \in Bits8 /\ c0 \in Bits16 /\ r0 \in Register
  BY DEF Bits8, Bits16, Bit8, Bit16, Register
<1>8. <<r0, x0>> \in SumDown(x0, c0)[0]
  <2>1. ShiftedDown(x0, 0) = x0 /\ ShiftedDown(c0, 0) = c0
    BY <1>7, NotShifted
  <2>2. x0 = SymDiff({}, x0)
    BY DEF SymDiff
  <2> HIDE DEF c0
  <2> QED BY <2>1, <2>2, <1>7 DEF SumDown
<1>9. Preserved(Register, Bits16, 8, G, H, SumDown(x0, c0))
  <2> SUFFICES ASSUME NEW j \in 1..8, NEW r \in Register, NEW x \in Bits16,
                      <<r, x>> \in SumDown(x0, c0)[j - 1]
               PROVE  <<G[j][r], H[j][x]>> \in SumDown(x0, c0)[j]
    BY DEF Preserved
  <2> DEFINE v == ShiftedDown(x0, j - 1)
  <2>1. r.c = ShiftedDown(c0, j - 1) /\ x = SymDiff(r.crc, v) /\ r.crc \in Bits16
    <3>1. j - 1 \in 0..8
      OBVIOUS
    <3> HIDE DEF c0, v
    <3>2. r.c = ShiftedDown(c0, j - 1) /\ x = SymDiff(r.crc, ShiftedDown(x0, j - 1))
      BY <3>1 DEF SumDown
    <3> QED BY <3>2 DEF v, Register
  <2>2. /\ Down(r.c) = ShiftedDown(c0, j)
        /\ 0 \in r.c <=> j - 1 \in c0
    BY <1>7, <2>1, ShiftDown
  <2>3. Crc16Shifted(r).c = ShiftedDown(c0, j)
    BY <2>2 DEF Crc16Shifted
  <2>4. Crc16Shifted(r).crc = Divided16(r.crc, 0 \in r.c)
    BY DEF Crc16Shifted, Divided16, SymDiff
  <2>5. (0 \in r.c) <=> ((j - 1 \in u) # (j - 1 \in x0))
    BY <2>2 DEF SymDiff, Bit8
  <2>6. Divided16(x, j - 1 \in u) = SymDiff(Divided16(r.crc, 0 \in r.c), ShiftedDown(x0, j))
    BY <2>1, <2>5, ShiftDownStep
  <2> HIDE DEF G, H, c0
  <2>7. /\ G[j][r].c = ShiftedDown(c0, j)
        /\ H[j][x] = SymDiff(G[j][r].crc, ShiftedDown(x0, j))
        /\ G[j][r] \in Register /\ H[j][x] \in Bits16
    BY <1>2, <1>6, <2>3, <2>4, <2>6
  <2> QED BY <2>7 DEF SumDown
<1>10. Crc16Table[c0] = After(G, r0).crc /\ Through16(u)[x0] = After(H, x0)
  BY <1>7 DEF Crc16Table, Through16
<1>11. Crc16Next(x0, u) = SymDiff(HighByte(x0), After(G, r0).crc)
  BY <1>10 DEF Crc16Next
<1> HIDE DEF G, H, r0, c0
<1>12. After(H, x0) \in Bits16 /\ <<After(G, r0), After(H, x0)>> \in SumDown(x0, c0)[8]
  <2>1. 8 \in Nat
    OBVIOUS
  <2> QED BY <2>1, <1>3, <1>5, <1>7, <1>8, <1>9, Lockstep
<1>13. ShiftedDown(x0, 8) = HighByte(x0)
  <2>1. \A k \in x0 : k >= 8 <=> k \notin Bit8
    BY DEF Bits16, Bit16, Bit8
  <2> QED BY <2>1 DEF ShiftedDown, HighByte
<1>14. After(H, x0) = SymDiff(After(G, r0).crc, HighByte(x0))
  BY <1>12, <1>13 DEF SumDown
<1> QED BY <1>10, <1>11, <1>12, <1>14 DEF SymDiff

\* getCrc8 is the remainder of bytes of any number.
LEMMA Crc8IsRemainder ==
  ASSUME NEW bytes \in Seq(Bits8)
  PROVE  Crc8Of(bytes) = Remainder8(bytes)
<1>1. \A n \in 1..Len(bytes) : bytes[n] \in Bits8
  OBVIOUS
<1>2. \A n \in 1..Len(bytes) :
        Through8(bytes[n]) = [crc8 \in Bits8 |-> Crc8Table[SymDiff(bytes[n], crc8)]]
  <2> SUFFICES ASSUME NEW n \in 1..Len(bytes)
               PROVE  Through8(bytes[n]) = [crc8 \in Bits8 |-> Crc8Table[SymDiff(bytes[n], crc8)]]
    OBVIOUS
  <2>1. \A r \in Bits8 : Crc8Table[SymDiff(bytes[n], r)] = Through8(bytes[n])[r]
    BY <1>1, Crc8TableIsDivision
  <2>2. Through8(bytes[n]) = [r \in Bits8 |-> Through8(bytes[n])[r]]
    BY DEF Through8
  <2> QED BY <2>1, <2>2
<1>3. [n \in 1..Len(bytes) |-> Through8(bytes[n])]
        = [n \in 1..Len(bytes) |-> [crc8 \in Bits8 |-> Crc8Table[SymDiff(bytes[n], crc8)]]]
  BY <1>2
<1> QED BY <1>3 DEF Crc8Of, Remainder8

\* getCrc16 is the remainder of bytes of any number.
LEMMA Crc16IsRemainder ==
  ASSUME NEW bytes \in Seq(Bits8)
  PROVE  Crc16Of(bytes) = Remainder16(bytes)
<1>1. \A n \in 1..Len(bytes) : bytes[n] \in Bits8
  OBVIOUS
<1>2. \A n \in 1..Len(bytes) :
        Through16(bytes[n]) = [crc16 \in Bits16 |-> Crc16Next(crc16, bytes[n])]
  <2> SUFFICES ASSUME NEW n \in 1..Len(bytes)
               PROVE  Through16(bytes[n]) = [crc16 \in Bits16 |-> Crc16Next(crc16, bytes[n])]
    OBVIOUS
  <2>1. \A x \in Bits16 : Crc16Next(x, bytes[n]) = Through16(bytes[n])[x]
    BY <1>1, Crc16NextIsDivision
  <2>2. Through16(bytes[n]) = [x \in Bits16 |-> Through16(bytes[n])[x]]
    BY DEF Through16
  <2> QED BY <2>1, <2>2
<1>3. [n \in 1..Len(bytes) |-> Through16(bytes[n])]
        = [n \in 1..Len(bytes) |-> [crc16 \in Bits16 |-> Crc16Next(crc16, bytes[n])]]
  BY <1>2
<1> QED BY <1>3 DEF Crc16Of, Remainder16

-----------------------------------------------------------------------------
(* What changes a checksum.                                                *)

\* After j steps, two values that are not the same.
Apart(A) == [j \in 0..8 |-> {p \in A \X A : p[1] # p[2]}]

\* No two entries of crc8Table are the same.
LEMMA Crc8TableInjective ==
  ASSUME NEW x \in Bits8, NEW y \in Bits8, x # y
  PROVE  Crc8Table[x] \in Bits8 /\ Crc8Table[y] \in Bits8 /\ Crc8Table[x] # Crc8Table[y]
<1> DEFINE G == Eight([z \in Bits8 |-> Crc8Shifted(z)])
<1>1. \A j \in 1..8, z \in Bits8 : G[j][z] = Crc8Shifted(z) /\ G[j][z] \in Bits8
  BY Crc8ShiftedType DEF Eight
<1>2. G \in Steps(Bits8, 8)
  BY <1>1 DEF Eight, Steps
<1>3. Crc8Table[x] = After(G, x) /\ Crc8Table[y] = After(G, y)
  BY DEF Crc8Table
<1> HIDE DEF G
<1>4. Preserved(Bits8, Bits8, 8, G, G, Apart(Bits8))
  <2> SUFFICES ASSUME NEW j \in 1..8, NEW a \in Bits8, NEW b \in Bits8,
                      <<a, b>> \in Apart(Bits8)[j - 1]
               PROVE  <<G[j][a], G[j][b]>> \in Apart(Bits8)[j]
    BY DEF Preserved
  <2>1. a # b
    BY DEF Apart
  <2>2. G[j][a] \in Bits8 /\ G[j][b] \in Bits8 /\ G[j][a] # G[j][b]
    BY <1>1, <2>1, Divided8Injective
  <2> QED BY <2>2 DEF Apart
<1>5. <<x, y>> \in Apart(Bits8)[0]
  BY DEF Apart
<1>6. After(G, x) \in Bits8 /\ After(G, y) \in Bits8 /\ <<After(G, x), After(G, y)>> \in Apart(Bits8)[8]
  <2>1. 8 \in Nat
    OBVIOUS
  <2> QED BY <2>1, <1>2, <1>4, <1>5, Lockstep
<1> QED BY <1>3, <1>6 DEF Apart

\* Eight bits of the division lose nothing.
LEMMA Through16Injective ==
  ASSUME NEW u \in Bits8, NEW x \in Bits16, NEW y \in Bits16, x # y
  PROVE  Through16(u)[x] # Through16(u)[y]
<1> DEFINE G == [j \in 1..8 |-> [z \in Bits16 |-> Divided16(z, j - 1 \in u)]]
<1>1. \A j \in 1..8, z \in Bits16 : Divided16(z, j - 1 \in u) \in Bits16
  BY DEF Divided16, Bits16, Bit16, Down, SymDiff, Generator16
<1>2. G \in Steps(Bits16, 8)
  BY <1>1 DEF Steps
<1>3. \A j \in 1..8, z \in Bits16 : G[j][z] = Divided16(z, j - 1 \in u) /\ G[j][z] \in Bits16
  BY <1>1
<1>4. Through16(u)[x] = After(G, x) /\ Through16(u)[y] = After(G, y)
  BY DEF Through16
<1> HIDE DEF G
<1>5. Preserved(Bits16, Bits16, 8, G, G, Apart(Bits16))
  <2> SUFFICES ASSUME NEW j \in 1..8, NEW a \in Bits16, NEW b \in Bits16,
                      <<a, b>> \in Apart(Bits16)[j - 1]
               PROVE  <<G[j][a], G[j][b]>> \in Apart(Bits16)[j]
    BY DEF Preserved
  <2>1. a # b
    BY DEF Apart
  <2>2. Divided16(a, j - 1 \in u) # Divided16(b, j - 1 \in u)
    <3>1. (j - 1 \in u) \in BOOLEAN
      OBVIOUS
    <3> QED BY <2>1, <3>1, Divided16Injective
  <2>3. G[j][a] \in Bits16 /\ G[j][b] \in Bits16 /\ G[j][a] # G[j][b]
    BY <1>3, <2>2
  <2> QED BY <2>3 DEF Apart
<1>6. <<x, y>> \in Apart(Bits16)[0]
  BY DEF Apart
<1>7. After(G, x) \in Bits16 /\ After(G, y) \in Bits16 /\ <<After(G, x), After(G, y)>> \in Apart(Bits16)[8]
  <2>1. 8 \in Nat
    OBVIOUS
  <2> QED BY <2>1, <1>2, <1>5, <1>6, Lockstep
<1> QED BY <1>4, <1>7 DEF Apart

\* An entry of crc16Table is what the division makes of eight zeros.
LEMMA Crc16TableEntry ==
  ASSUME NEW w \in Bits8
  PROVE  w \in Bits16 /\ Crc16Table[w] \in Bits16 /\ Crc16Table[w] = Through16({})[w]
<1>1. {} \in Bits8 /\ w \in Bits16
  BY DEF Bits8, Bits16, Bit8, Bit16
<1>2. Crc16Next(w, {}) = Through16({})[w] /\ Through16({})[w] \in Bits16
  BY <1>1, Crc16NextIsDivision
<1>3. HighByte(w) = {} /\ SymDiff(w, {}) \cap Bit8 = w
  BY DEF HighByte, SymDiff, Bits8
<1> QED BY <1>1, <1>2, <1>3 DEF Crc16Next, SymDiff

\* Two bytes leave different registers.
LEMMA Crc16TableInjective ==
  ASSUME NEW u \in Bits8, NEW v \in Bits8, u # v, NEW x \in Bits16
  PROVE  Crc16Next(x, u) # Crc16Next(x, v)
<1> DEFINE a == SymDiff(x, u) \cap Bit8
           b == SymDiff(x, v) \cap Bit8
<1>1. a \in Bits8 /\ b \in Bits8 /\ a # b
  BY DEF Bits8, SymDiff
<1> HIDE DEF a, b
<1>2. Crc16Table[a] # Crc16Table[b]
  <2>1. {} \in Bits8
    BY DEF Bits8
  <2> QED BY <1>1, <2>1, Crc16TableEntry, Through16Injective
<1>3. /\ Crc16Next(x, u) = SymDiff(HighByte(x), Crc16Table[a])
      /\ Crc16Next(x, v) = SymDiff(HighByte(x), Crc16Table[b])
  BY DEF Crc16Next, a, b
<1> QED BY <1>2, <1>3 DEF SymDiff

\* Values that are the same before step i, and different from it on.
SameUntil(A, N, i) ==
  [n \in 0..N |-> {p \in A \X A : p[1] = p[2] <=> n < i}]

\* A difference that one step makes is never undone by steps that lose nothing.
LEMMA PartsForGood ==
  ASSUME NEW A, NEW a \in A, NEW N \in Nat, NEW i \in 1..N,
         NEW G \in Steps(A, N), NEW H \in Steps(A, N),
         \A n \in 1..N \ {i} : H[n] = G[n],
         \A x \in A : G[i][x] # H[i][x],
         \A n \in 1..N : \A x, y \in A : x # y => G[n][x] # G[n][y]
  PROVE  After(G, a) # After(H, a)
<1>1. Preserved(A, A, N, G, H, SameUntil(A, N, i))
  <2> SUFFICES ASSUME NEW n \in 1..N, NEW x \in A, NEW y \in A,
                      <<x, y>> \in SameUntil(A, N, i)[n - 1]
               PROVE  <<G[n][x], H[n][y]>> \in SameUntil(A, N, i)[n]
    BY DEF Preserved
  <2>1. n - 1 \in 0..N /\ n \in 0..N
    OBVIOUS
  <2>2. x = y <=> n - 1 < i
    BY <2>1 DEF SameUntil
  <2>3. G[n][x] \in A /\ H[n][y] \in A
    BY DEF Steps
  <2>4. G[n][x] = H[n][y] <=> n < i
    <3>1. CASE n < i
      BY <2>2, <3>1
    <3>2. CASE n = i
      BY <2>2, <3>2
    <3>3. CASE n > i
      <4>1. x # y /\ H[n] = G[n]
        BY <2>2, <3>3
      <4> QED BY <3>3, <4>1
    <3> QED BY <3>1, <3>2, <3>3
  <2> QED BY <2>1, <2>3, <2>4 DEF SameUntil
<1>2. <<a, a>> \in SameUntil(A, N, i)[0]
  BY DEF SameUntil
<1>3. <<After(G, a), After(H, a)>> \in SameUntil(A, N, i)[N]
  BY <1>1, <1>2, Lockstep
<1> QED BY <1>3 DEF SameUntil

\* ^ with the same byte loses nothing.
LEMMA XorInjective ==
  ASSUME NEW u, NEW x, NEW y, SymDiff(u, x) = SymDiff(u, y)
  PROVE  x = y
BY DEF SymDiff

\* Changing any bits of one byte of a message changes both of its checksums, however
\* long the message is (CRC.cpp:48-65).
THEOREM ChangedByteFound ==
  ASSUME NEW bytes \in Seq(Bits8), NEW i \in 1..Len(bytes), NEW u \in Bits8, u # bytes[i]
  PROVE  /\ Crc8Of([bytes EXCEPT ![i] = u]) # Crc8Of(bytes)
         /\ Crc16Of([bytes EXCEPT ![i] = u]) # Crc16Of(bytes)
<1> DEFINE changed == [bytes EXCEPT ![i] = u]
           N == Len(bytes)
<1>1. N \in Nat /\ Len(changed) = N /\ changed[i] = u /\ \A n \in 1..N \ {i} : changed[n] = bytes[n]
  OBVIOUS
<1>2. \A n \in 1..N : bytes[n] \in Bits8 /\ changed[n] \in Bits8
  BY <1>1
<1> HIDE DEF changed, N
<1>3. Crc8Of(changed) # Crc8Of(bytes)
  <2> DEFINE G == [n \in 1..N |-> [crc8 \in Bits8 |-> Crc8Table[SymDiff(bytes[n], crc8)]]]
             H == [n \in 1..N |-> [crc8 \in Bits8 |-> Crc8Table[SymDiff(changed[n], crc8)]]]
  <2>1. \A w \in Bits8 : Crc8Table[w] \in Bits8
    <3> SUFFICES ASSUME NEW w \in Bits8 PROVE Crc8Table[w] \in Bits8
      OBVIOUS
    <3>1. {} \in Bits8 /\ SymDiff(w, {}) = w
      BY DEF Bits8, SymDiff
    <3> QED BY <3>1, Crc8TableIsDivision
  <2>2. G \in Steps(Bits8, N) /\ H \in Steps(Bits8, N)
    BY <1>2, <2>1, XorType8 DEF Steps
  <2>3. \A n \in 1..N \ {i} : H[n] = G[n]
    BY <1>1
  <2>4. \A n \in 1..N, x \in Bits8 : /\ G[n][x] = Crc8Table[SymDiff(bytes[n], x)]
                                     /\ H[n][x] = Crc8Table[SymDiff(changed[n], x)]
    OBVIOUS
  <2>5. Crc8Of(bytes) = After(G, {}) /\ Crc8Of(changed) = After(H, {})
    BY <1>1 DEF Crc8Of, N
  <2> HIDE DEF G, H
  <2>6. i \in 1..N /\ u # bytes[i]
    BY DEF N
  <2>7. \A x \in Bits8 : G[i][x] # H[i][x]
    <3> SUFFICES ASSUME NEW x \in Bits8 PROVE G[i][x] # H[i][x]
      OBVIOUS
    <3>1. SymDiff(bytes[i], x) # SymDiff(changed[i], x)
      BY <1>1, <2>6 DEF SymDiff
    <3>2. SymDiff(bytes[i], x) \in Bits8 /\ SymDiff(changed[i], x) \in Bits8
      BY <1>2, <2>6, XorType8
    <3> QED BY <2>4, <2>6, <3>1, <3>2, Crc8TableInjective
  <2>8. \A n \in 1..N : \A x, y \in Bits8 : x # y => G[n][x] # G[n][y]
    <3> SUFFICES ASSUME NEW n \in 1..N, NEW x \in Bits8, NEW y \in Bits8, x # y
                 PROVE  G[n][x] # G[n][y]
      OBVIOUS
    <3>1. SymDiff(bytes[n], x) # SymDiff(bytes[n], y)
      BY XorInjective
    <3>2. SymDiff(bytes[n], x) \in Bits8 /\ SymDiff(bytes[n], y) \in Bits8
      BY <1>2, XorType8
    <3> QED BY <2>4, <3>1, <3>2, Crc8TableInjective
  <2>9. {} \in Bits8
    BY DEF Bits8
  <2> QED BY <1>1, <2>2, <2>3, <2>5, <2>6, <2>7, <2>8, <2>9, PartsForGood
<1>4. Crc16Of(changed) # Crc16Of(bytes)
  <2> DEFINE G == [n \in 1..N |-> [crc16 \in Bits16 |-> Crc16Next(crc16, bytes[n])]]
             H == [n \in 1..N |-> [crc16 \in Bits16 |-> Crc16Next(crc16, changed[n])]]
  <2>1. \A x \in Bits16, w \in Bits8 : Crc16Next(x, w) \in Bits16
    BY Crc16NextIsDivision
  <2>2. G \in Steps(Bits16, N) /\ H \in Steps(Bits16, N)
    BY <1>2, <2>1 DEF Steps
  <2>3. \A n \in 1..N \ {i} : H[n] = G[n]
    BY <1>1
  <2>4. \A n \in 1..N, x \in Bits16 : /\ G[n][x] = Crc16Next(x, bytes[n])
                                      /\ H[n][x] = Crc16Next(x, changed[n])
    OBVIOUS
  <2>5. Crc16Of(bytes) = After(G, Bit16) /\ Crc16Of(changed) = After(H, Bit16)
    BY <1>1 DEF Crc16Of, N
  <2> HIDE DEF G, H
  <2>6. i \in 1..N /\ u # bytes[i]
    BY DEF N
  <2>7. \A x \in Bits16 : G[i][x] # H[i][x]
    BY <1>1, <1>2, <2>4, <2>6, Crc16TableInjective
  <2>8. \A n \in 1..N : \A x, y \in Bits16 : x # y => G[n][x] # G[n][y]
    <3> SUFFICES ASSUME NEW n \in 1..N, NEW x \in Bits16, NEW y \in Bits16, x # y
                 PROVE  G[n][x] # G[n][y]
      OBVIOUS
    <3>1. Through16(bytes[n])[x] # Through16(bytes[n])[y]
      BY <1>2, Through16Injective
    <3> QED BY <1>2, <2>4, <3>1, Crc16NextIsDivision
  <2>9. Bit16 \in Bits16
    BY DEF Bits16
  <2> QED BY <1>1, <2>2, <2>3, <2>5, <2>6, <2>7, <2>8, <2>9, PartsForGood
<1> QED BY <1>3, <1>4 DEF changed

\* The first bit that differs between two bytes comes to the top of the register; what
\* differs behind it is on its way there.
Coming(j)   == 0..(7 - j) \cup (16 - j)..15
ApartIn     == [j \in 0..8 |-> {p \in Bits16 \X Bits16 :
                                  \E k \in Coming(j) : k \in p[1] <=> k \notin p[2]}]

\* What a zero that comes makes of the register.
Zeroed(z) == IF 0 \in z THEN SymDiff(Down(z), Generator16) ELSE Down(z)

LEMMA ZeroComes == \A z, k : Divided16(z, k \in {}) = Zeroed(z)
<1> SUFFICES ASSUME NEW z, NEW k PROVE Divided16(z, k \in {}) = Zeroed(z)
  OBVIOUS
<1>1. CASE 0 \in z
  BY <1>1 DEF Divided16, Zeroed
<1>2. CASE 0 \notin z
  BY <1>2 DEF Divided16, Zeroed
<1> QED BY <1>1, <1>2

\* The bits it has then.
LEMMA ZeroedBits ==
  ASSUME NEW z \in Bits16
  PROVE  /\ Zeroed(z) \in Bits16
         /\ \A i \in 0..15 :
              i \in Zeroed(z)
                <=> IF 0 \in z /\ i \in Generator16 THEN ~ (i \in 0..14 /\ i + 1 \in z)
                                                     ELSE i \in 0..14 /\ i + 1 \in z
<1>1. Down(z) \in Bits16 /\ \A i \in 0..15 : i \in Down(z) <=> i \in 0..14 /\ i + 1 \in z
  BY DEF Down, Bits16, Bit16
<1>2. CASE 0 \in z
  <2>1. Zeroed(z) = SymDiff(Down(z), Generator16)
    BY <1>2 DEF Zeroed
  <2>2. SymDiff(Down(z), Generator16) \in Bits16
    BY <1>1 DEF SymDiff, Generator16, Bits16, Bit16
  <2>3. \A i : i \in SymDiff(Down(z), Generator16)
                <=> IF i \in Generator16 THEN i \notin Down(z) ELSE i \in Down(z)
    BY DEF SymDiff
  <2> QED BY <1>1, <1>2, <2>1, <2>2, <2>3
<1>3. CASE 0 \notin z
  <2>1. Zeroed(z) = Down(z)
    BY <1>3 DEF Zeroed
  <2> QED BY <1>1, <1>3, <2>1
<1> QED BY <1>2, <1>3

\* One bit of the division, of registers that differ there.
LEMMA ApartStep ==
  ASSUME NEW j \in 1..8, NEW x \in Bits16, NEW y \in Bits16, <<x, y>> \in ApartIn[j - 1]
  PROVE  \E k \in Coming(j) : k \in Zeroed(x) <=> k \notin Zeroed(y)
<1>1. PICK k \in Coming(j - 1) : k \in x <=> k \notin y
  BY DEF ApartIn
<1>2. CASE 0 \in x <=> 0 \notin y
  <2>1. 15 \in Coming(j) /\ 15 \in Generator16 /\ 15 \notin 0..14
    BY DEF Coming, Generator16
  <2>2. 15 \in Zeroed(x) <=> 15 \notin Zeroed(y)
    BY <1>2, <2>1, ZeroedBits
  <2> QED BY <2>1, <2>2
<1>3. CASE 0 \in x <=> 0 \in y
  <2>1. k - 1 \in Coming(j) /\ k - 1 \in 0..14 /\ (k - 1) + 1 = k
    <3>1. k # 0
      BY <1>1, <1>3
    <3> QED BY <3>1 DEF Coming
  <2>2. k - 1 \in Zeroed(x) <=> k - 1 \notin Zeroed(y)
    BY <1>1, <1>3, <2>1, ZeroedBits
  <2> QED BY <2>1, <2>2
<1> QED BY <1>2, <1>3

\* The high bytes of two entries of crc16Table are not the same.
LEMMA Crc16TableHigh ==
  ASSUME NEW u \in Bits8, NEW v \in Bits8, u # v
  PROVE  HighByte(Crc16Table[u]) # HighByte(Crc16Table[v])
<1> DEFINE G == [j \in 1..8 |-> [z \in Bits16 |-> Divided16(z, j - 1 \in {})]]
<1>1. \A z \in Bits16 : Zeroed(z) \in Bits16
  BY ZeroedBits
<1>2. \A j \in 1..8, z \in Bits16 : Divided16(z, j - 1 \in {}) = Zeroed(z)
  BY ZeroComes
<1>3. G \in Steps(Bits16, 8)
  BY <1>1, <1>2 DEF Steps
<1>4. \A j \in 1..8, z \in Bits16 : G[j][z] = Zeroed(z) /\ G[j][z] \in Bits16
  BY <1>1, <1>2
<1>5. u \in Bits16 /\ v \in Bits16
  BY Crc16TableEntry
<1>6. Through16({})[u] = After(G, u) /\ Through16({})[v] = After(G, v)
  BY <1>5 DEF Through16
<1> HIDE DEF G
<1>7. Preserved(Bits16, Bits16, 8, G, G, ApartIn)
  <2> SUFFICES ASSUME NEW j \in 1..8, NEW x \in Bits16, NEW y \in Bits16,
                      <<x, y>> \in ApartIn[j - 1]
               PROVE  <<G[j][x], G[j][y]>> \in ApartIn[j]
    BY DEF Preserved
  <2>1. \E k \in Coming(j) : k \in G[j][x] <=> k \notin G[j][y]
    BY <1>4, ApartStep
  <2> QED BY <1>4, <2>1 DEF ApartIn
<1>8. <<u, v>> \in ApartIn[0]
  <2>1. PICK k \in Bit8 : k \in u <=> k \notin v
    BY DEF Bits8
  <2>2. k \in Coming(0)
    BY DEF Bit8, Coming
  <2> QED BY <1>5, <2>1, <2>2 DEF ApartIn
<1>9. <<After(G, u), After(G, v)>> \in ApartIn[8]
  <2>1. 8 \in Nat
    OBVIOUS
  <2> QED BY <2>1, <1>3, <1>5, <1>7, <1>8, Lockstep
<1>10. PICK k \in Coming(8) : k \in Crc16Table[u] <=> k \notin Crc16Table[v]
  BY <1>6, <1>9, Crc16TableEntry DEF ApartIn
<1>11. k \in 8..15
  BY DEF Coming
<1>12. \A x \in Bits16 : k - 8 \in HighByte(x) <=> k \in x
  <2> SUFFICES ASSUME NEW x \in Bits16 PROVE k - 8 \in HighByte(x) <=> k \in x
    OBVIOUS
  <2>1. \A i \in x : i \in 0..15
    BY DEF Bits16, Bit16
  <2> QED BY <1>11, <2>1 DEF HighByte, Bit8
<1> QED BY <1>10, <1>12, Crc16TableEntry

\* The high byte of the register after a byte is that of the table.
LEMMA Crc16NextHigh ==
  ASSUME NEW x \in Bits16, NEW t \in Bits16
  PROVE  HighByte(SymDiff(HighByte(x), t)) = HighByte(t)
<1>1. \A k \in HighByte(x) : k \in Bit8
  BY DEF HighByte, Bits16, Bit16, Bit8
<1> QED BY <1>1 DEF HighByte, SymDiff

\* What two bytes make of a register tells which bytes they were.
LEMMA TwoBytesTold ==
  ASSUME NEW x \in Bits16, NEW u1 \in Bits8, NEW u2 \in Bits8, NEW v1 \in Bits8, NEW v2 \in Bits8,
         Crc16Next(Crc16Next(x, u1), u2) = Crc16Next(Crc16Next(x, v1), v2)
  PROVE  u1 = v1 /\ u2 = v2
<1> DEFINE y == Crc16Next(x, u1)
           z == Crc16Next(x, v1)
           a1 == SymDiff(x, u1) \cap Bit8
           b1 == SymDiff(x, v1) \cap Bit8
           a2 == SymDiff(y, u2) \cap Bit8
           b2 == SymDiff(z, v2) \cap Bit8
<1>1. a1 \in Bits8 /\ b1 \in Bits8 /\ a2 \in Bits8 /\ b2 \in Bits8
  BY DEF Bits8
<1>2. y \in Bits16 /\ z \in Bits16
  BY Crc16NextIsDivision
<1>3. y = SymDiff(HighByte(x), Crc16Table[a1]) /\ z = SymDiff(HighByte(x), Crc16Table[b1])
  BY DEF Crc16Next
<1>4. SymDiff(HighByte(y), Crc16Table[a2]) = SymDiff(HighByte(z), Crc16Table[b2])
  BY DEF Crc16Next
<1>5. u1 = v1 <=> a1 = b1
  BY DEF SymDiff, Bits8
<1>6. y = z => (u2 = v2 <=> a2 = b2)
  BY DEF SymDiff, Bits8
<1> HIDE DEF y, z, a1, b1, a2, b2
<1>7. a2 = b2
  <2>1. HighByte(Crc16Table[a2]) = HighByte(Crc16Table[b2])
    BY <1>1, <1>2, <1>4, Crc16NextHigh, Crc16TableEntry
  <2> QED BY <1>1, <2>1, Crc16TableHigh
<1>8. a1 = b1
  <2>1. HighByte(y) = HighByte(z)
    BY <1>4, <1>7 DEF SymDiff
  <2>2. HighByte(Crc16Table[a1]) = HighByte(Crc16Table[b1])
    BY <1>1, <1>3, <2>1, Crc16NextHigh, Crc16TableEntry
  <2> QED BY <1>1, <2>2, Crc16TableHigh
<1> QED BY <1>3, <1>5, <1>6, <1>7, <1>8

\* Values that are the same before step i, come from the same one in it, and differ
\* from the next step on.
SameUntilPair(A, N, i, G, H) ==
  [n \in 0..N |-> {p \in A \X A : /\ n < i => p[1] = p[2]
                                  /\ n = i => \E x \in A : p[1] = G[i][x] /\ p[2] = H[i][x]
                                  /\ n > i => p[1] # p[2]}]

\* A difference that two steps make is never undone, either.
LEMMA PartsInTwo ==
  ASSUME NEW A, NEW a \in A, NEW N \in Nat, NEW i \in 1..N, i + 1 \in 1..N,
         NEW G \in Steps(A, N), NEW H \in Steps(A, N),
         \A n \in 1..N \ {i, i + 1} : H[n] = G[n],
         \A x \in A : G[i + 1][G[i][x]] # H[i + 1][H[i][x]],
         \A n \in 1..N : \A x, y \in A : x # y => G[n][x] # G[n][y]
  PROVE  After(G, a) # After(H, a)
<1> DEFINE R == SameUntilPair(A, N, i, G, H)
<1>1. Preserved(A, A, N, G, H, R)
  <2> SUFFICES ASSUME NEW n \in 1..N, NEW x \in A, NEW y \in A, <<x, y>> \in R[n - 1]
               PROVE  <<G[n][x], H[n][y]>> \in R[n]
    BY DEF Preserved
  <2>1. n - 1 \in 0..N /\ n \in 0..N
    OBVIOUS
  <2>2. /\ n - 1 < i => x = y
        /\ n - 1 = i => \E z \in A : x = G[i][z] /\ y = H[i][z]
        /\ n - 1 > i => x # y
    BY <2>1 DEF SameUntilPair
  <2>3. G[n][x] \in A /\ H[n][y] \in A
    BY DEF Steps
  <2>4. CASE n < i
    <3>1. x = y /\ H[n] = G[n]
      BY <2>2, <2>4
    <3> QED BY <2>1, <2>3, <2>4, <3>1 DEF SameUntilPair
  <2>5. CASE n = i
    BY <2>1, <2>2, <2>3, <2>5 DEF SameUntilPair
  <2>6. CASE n = i + 1
    <3>1. PICK z \in A : x = G[i][z] /\ y = H[i][z]
      BY <2>2, <2>6
    <3>2. G[n][x] # H[n][y]
      BY <2>6, <3>1
    <3> QED BY <2>1, <2>3, <2>6, <3>2 DEF SameUntilPair
  <2>7. CASE n > i + 1
    <3>1. x # y /\ H[n] = G[n]
      BY <2>2, <2>7
    <3>2. G[n][x] # H[n][y]
      BY <3>1
    <3> QED BY <2>1, <2>3, <2>7, <3>2 DEF SameUntilPair
  <2> QED BY <2>4, <2>5, <2>6, <2>7
<1>2. <<a, a>> \in R[0]
  BY DEF SameUntilPair
<1> HIDE DEF R
<1>3. <<After(G, a), After(H, a)>> \in R[N]
  BY <1>1, <1>2, Lockstep
<1>4. N > i
  OBVIOUS
<1> QED BY <1>3, <1>4 DEF R, SameUntilPair

\* Changing any bits of two bytes next to one another, which a burst of errors of up to
\* nine bits is certain to stay within, changes the checksum of the message (CRC.cpp:58-65).
THEOREM ChangedPairFound ==
  ASSUME NEW bytes \in Seq(Bits8), NEW i \in 1..Len(bytes), i + 1 \in 1..Len(bytes),
         NEW u \in Bits8, NEW v \in Bits8, u # bytes[i] \/ v # bytes[i + 1]
  PROVE  Crc16Of([bytes EXCEPT ![i] = u, ![i + 1] = v]) # Crc16Of(bytes)
<1> DEFINE changed == [bytes EXCEPT ![i] = u, ![i + 1] = v]
           N == Len(bytes)
           G == [n \in 1..N |-> [crc16 \in Bits16 |-> Crc16Next(crc16, bytes[n])]]
           H == [n \in 1..N |-> [crc16 \in Bits16 |-> Crc16Next(crc16, changed[n])]]
<1>1. /\ N \in Nat /\ Len(changed) = N /\ i + 1 # i
      /\ changed[i] = u /\ changed[i + 1] = v
      /\ \A n \in 1..N \ {i, i + 1} : changed[n] = bytes[n]
  OBVIOUS
<1>2. \A n \in 1..N : bytes[n] \in Bits8 /\ changed[n] \in Bits8
  BY <1>1
<1>3. Crc16Of(bytes) = After(G, Bit16) /\ Crc16Of(changed) = After(H, Bit16)
  BY <1>1 DEF Crc16Of
<1>4. i \in 1..N /\ i + 1 \in 1..N
  OBVIOUS
<1> HIDE DEF changed, N
<1>5. \A x \in Bits16, w \in Bits8 : Crc16Next(x, w) \in Bits16
  BY Crc16NextIsDivision
<1>6. G \in Steps(Bits16, N) /\ H \in Steps(Bits16, N)
  BY <1>2, <1>5 DEF Steps
<1>7. \A n \in 1..N \ {i, i + 1} : H[n] = G[n]
  BY <1>1
<1>8. \A n \in 1..N, x \in Bits16 : /\ G[n][x] = Crc16Next(x, bytes[n])
                                    /\ H[n][x] = Crc16Next(x, changed[n])
  OBVIOUS
<1> HIDE DEF G, H
<1>9. \A x \in Bits16 : G[i + 1][G[i][x]] # H[i + 1][H[i][x]]
  <2> SUFFICES ASSUME NEW x \in Bits16 PROVE G[i + 1][G[i][x]] # H[i + 1][H[i][x]]
    OBVIOUS
  <2>1. /\ G[i + 1][G[i][x]] = Crc16Next(Crc16Next(x, bytes[i]), bytes[i + 1])
        /\ H[i + 1][H[i][x]] = Crc16Next(Crc16Next(x, u), v)
    BY <1>1, <1>2, <1>4, <1>5, <1>8
  <2> QED BY <1>2, <1>4, <2>1, TwoBytesTold
<1>10. \A n \in 1..N : \A x, y \in Bits16 : x # y => G[n][x] # G[n][y]
  <2> SUFFICES ASSUME NEW n \in 1..N, NEW x \in Bits16, NEW y \in Bits16, x # y
               PROVE  G[n][x] # G[n][y]
    OBVIOUS
  <2>1. Through16(bytes[n])[x] # Through16(bytes[n])[y]
    BY <1>2, Through16Injective
  <2> QED BY <1>2, <1>8, <2>1, Crc16NextIsDivision
<1>11. Bit16 \in Bits16
  BY DEF Bits16
<1>12. After(G, Bit16) # After(H, Bit16)
  BY <1>1, <1>4, <1>6, <1>7, <1>9, <1>10, <1>11, PartsInTwo
<1> QED BY <1>3, <1>12 DEF changed

-----------------------------------------------------------------------------
(* Two registers side by side.                                             *)

\* The pairs of registers that are the same, that differ by what F[d] is, and that
\* differ.
Same(A)      == {p \in A \X A : p[1] = p[2]}
Off(A, F, d) == {p \in A \X A : SymDiff(p[1], p[2]) = F[d]}
NotSame(A)   == {p \in A \X A : p[1] # p[2]}

\* What two steps make of the pairs in P is in Q.
Takes(A, g, h, P, Q) == \A x \in A, y \in A : <<x, y>> \in P => <<g[x], h[y]>> \in Q

\* Two steps through which the same bit comes, and through which another does.
Agree(A, F, g, h) ==
  /\ Takes(A, g, h, Same(A), Same(A))
  /\ Takes(A, g, h, NotSame(A), NotSame(A))
  /\ \A d \in Nat : Takes(A, g, h, Off(A, F, d), Off(A, F, d + 1))

Disagree(A, F, K, g, h) ==
  /\ Takes(A, g, h, Same(A), Off(A, F, K))
  /\ \A d \in Nat : F[d + 1] # F[K] => Takes(A, g, h, Off(A, F, d), NotSame(A))

\* What a sequence of steps makes of every register.
All(A, G) == [x \in A |-> After(G, x)]

\* What a sequence of steps does to pairs, when each step takes them to the next set.
LEMMA TakesInTurn ==
  ASSUME NEW A, NEW N \in Nat, NEW G \in Steps(A, N), NEW H \in Steps(A, N), NEW R,
         \A n \in 1..N : Takes(A, G[n], H[n], R[n - 1], R[n])
  PROVE  Takes(A, All(A, G), All(A, H), R[0], R[N])
<1> SUFFICES ASSUME NEW x \in A, NEW y \in A, <<x, y>> \in R[0]
             PROVE  <<After(G, x), After(H, y)>> \in R[N]
  BY DEF Takes, All
<1>1. Preserved(A, A, N, G, H, R)
  BY DEF Preserved, Takes
<1> QED BY <1>1, Lockstep

\* It is a function on the registers.
LEMMA AllType ==
  ASSUME NEW A, NEW N \in Nat, NEW G \in Steps(A, N)
  PROVE  All(A, G) \in [A -> A]
<1> SUFFICES ASSUME NEW x \in A PROVE After(G, x) \in A
  BY DEF All
<1> DEFINE R == [n \in 0..N |-> A \X A]
<1>1. Preserved(A, A, N, G, G, R)
  BY DEF Preserved, Steps
<1>2. <<x, x>> \in R[0]
  OBVIOUS
<1> HIDE DEF R
<1> QED BY <1>1, <1>2, Lockstep

\* Eight bits, the same ones.
LEMMA ByteAgrees ==
  ASSUME NEW A, NEW F, NEW G \in Steps(A, 8), NEW H \in Steps(A, 8),
         \A j \in 1..8 : Agree(A, F, G[j], H[j])
  PROVE  /\ Takes(A, All(A, G), All(A, H), Same(A), Same(A))
         /\ Takes(A, All(A, G), All(A, H), NotSame(A), NotSame(A))
         /\ \A d \in Nat : Takes(A, All(A, G), All(A, H), Off(A, F, d), Off(A, F, d + 8))
<1>0. 8 \in Nat
  OBVIOUS
<1>1. ASSUME NEW P, P \in {Same(A), NotSame(A)}
      PROVE  Takes(A, All(A, G), All(A, H), P, P)
  <2> DEFINE R == [n \in 0..8 |-> P]
  <2>1. \A n \in 1..8 : Takes(A, G[n], H[n], R[n - 1], R[n])
    BY <1>1 DEF Agree
  <2>2. R[0] = P /\ R[8] = P
    OBVIOUS
  <2> HIDE DEF R
  <2>3. Takes(A, All(A, G), All(A, H), R[0], R[8])
    BY <1>0, <2>1, TakesInTurn
  <2> QED BY <2>2, <2>3
<1>2. ASSUME NEW d \in Nat
      PROVE  Takes(A, All(A, G), All(A, H), Off(A, F, d), Off(A, F, d + 8))
  <2> DEFINE R == [n \in 0..8 |-> Off(A, F, d + n)]
  <2>1. ASSUME NEW n \in 1..8 PROVE Takes(A, G[n], H[n], R[n - 1], R[n])
    <3>1. Takes(A, G[n], H[n], Off(A, F, d + (n - 1)), Off(A, F, (d + (n - 1)) + 1))
      BY DEF Agree
    <3>2. (d + (n - 1)) + 1 = d + n
      OBVIOUS
    <3> QED BY <3>1, <3>2
  <2>2. R[0] = Off(A, F, d) /\ R[8] = Off(A, F, d + 8)
    <3>1. d + 0 = d
      OBVIOUS
    <3> QED BY <3>1
  <2> HIDE DEF R
  <2>3. Takes(A, All(A, G), All(A, H), R[0], R[8])
    BY <1>0, <2>1, TakesInTurn
  <2> QED BY <2>2, <2>3
<1> QED BY <1>1, <1>2

\* Eight bits, one of them not the same, of registers that are.
LEMMA ByteParts ==
  ASSUME NEW A, NEW F, NEW K \in Nat, NEW i \in 1..8,
         NEW G \in Steps(A, 8), NEW H \in Steps(A, 8),
         \A j \in 1..8 \ {i} : Agree(A, F, G[j], H[j]),
         Disagree(A, F, K, G[i], H[i])
  PROVE  Takes(A, All(A, G), All(A, H), Same(A), Off(A, F, (K + 8) - i))
<1> DEFINE R == [n \in 0..8 |-> IF n < i THEN Same(A) ELSE Off(A, F, (K + n) - i)]
<1>1. ASSUME NEW n \in 1..8 PROVE Takes(A, G[n], H[n], R[n - 1], R[n])
  <2>1. CASE n < i
    <3>1. R[n - 1] = Same(A) /\ R[n] = Same(A)
      BY <2>1
    <3> HIDE DEF R
    <3> QED BY <2>1, <3>1 DEF Agree
  <2>2. CASE n = i
    <3>1. (K + n) - i = K
      BY <2>2
    <3>2. R[n - 1] = Same(A) /\ R[n] = Off(A, F, K)
      BY <2>2, <3>1
    <3> HIDE DEF R
    <3> QED BY <2>2, <3>2 DEF Disagree
  <2>3. CASE n > i
    <3> DEFINE d == (K + (n - 1)) - i
    <3>1. d \in Nat /\ (K + n) - i = d + 1
      BY <2>3
    <3>2. R[n - 1] = Off(A, F, d) /\ R[n] = Off(A, F, d + 1)
      BY <2>3, <3>1
    <3> HIDE DEF R, d
    <3> QED BY <2>3, <3>1, <3>2 DEF Agree
  <2> QED BY <2>1, <2>2, <2>3
<1>2. R[0] = Same(A) /\ R[8] = Off(A, F, (K + 8) - i) /\ 8 \in Nat
  OBVIOUS
<1> HIDE DEF R
<1>3. Takes(A, All(A, G), All(A, H), R[0], R[8])
  BY <1>1, <1>2, TakesInTurn
<1> QED BY <1>2, <1>3

\* The same of registers that differ already.
LEMMA ByteStaysApart ==
  ASSUME NEW A, NEW F, NEW K \in Nat, NEW i \in 1..8, NEW d \in Nat, F[d + i] # F[K],
         NEW G \in Steps(A, 8), NEW H \in Steps(A, 8),
         \A j \in 1..8 \ {i} : Agree(A, F, G[j], H[j]),
         Disagree(A, F, K, G[i], H[i])
  PROVE  Takes(A, All(A, G), All(A, H), Off(A, F, d), NotSame(A))
<1> DEFINE R == [n \in 0..8 |-> IF n < i THEN Off(A, F, d + n) ELSE NotSame(A)]
<1>1. ASSUME NEW n \in 1..8 PROVE Takes(A, G[n], H[n], R[n - 1], R[n])
  <2>0. d + (n - 1) \in Nat /\ (d + (n - 1)) + 1 = d + n
    OBVIOUS
  <2>1. CASE n < i
    <3>1. R[n - 1] = Off(A, F, d + (n - 1)) /\ R[n] = Off(A, F, (d + (n - 1)) + 1)
      BY <2>0, <2>1
    <3> HIDE DEF R
    <3> QED BY <2>0, <2>1, <3>1 DEF Agree
  <2>2. CASE n = i
    <3>1. R[n - 1] = Off(A, F, d + (n - 1)) /\ R[n] = NotSame(A)
      BY <2>2
    <3>2. F[(d + (n - 1)) + 1] # F[K]
      BY <2>0, <2>2
    <3> HIDE DEF R
    <3> QED BY <2>0, <2>2, <3>1, <3>2 DEF Disagree
  <2>3. CASE n > i
    <3>1. R[n - 1] = NotSame(A) /\ R[n] = NotSame(A)
      BY <2>3
    <3> HIDE DEF R
    <3> QED BY <2>3, <3>1 DEF Agree
  <2> QED BY <2>1, <2>2, <2>3
<1>2. R[0] = Off(A, F, d) /\ R[8] = NotSame(A) /\ 8 \in Nat
  <2>1. d + 0 = d
    OBVIOUS
  <2> QED BY <2>1
<1> HIDE DEF R
<1>3. Takes(A, All(A, G), All(A, H), R[0], R[8])
  BY <1>1, <1>2, TakesInTurn
<1> QED BY <1>2, <1>3

\* What the steps of N bytes make of every register, byte by byte.
Bytes(A, N, G) == [n \in 1..N |-> All(A, G[n])]

\* N bytes of eight bits, of which bit i of byte p and bit k of byte q are not the same.
TwoOff(A, F, K, N, G, H, p, i, q, k) ==
  /\ K \in Nat /\ N \in Nat
  /\ G \in [1..N -> Steps(A, 8)] /\ H \in [1..N -> Steps(A, 8)]
  /\ p \in 1..N /\ q \in 1..N /\ p < q /\ i \in 1..8 /\ k \in 1..8
  /\ \A n \in 1..N, j \in 1..8 : <<n, j>> \notin {<<p, i>>, <<q, k>>} => Agree(A, F, G[n][j], H[n][j])
  /\ Disagree(A, F, K, G[p][i], H[p][i]) /\ Disagree(A, F, K, G[q][k], H[q][k])

\* The registers end apart, unless the second bit comes when the first one's traces are
\* back where they began.
LEMMA MessageStaysApart ==
  ASSUME NEW A, NEW a \in A, NEW F, NEW K, NEW N, NEW G, NEW H, NEW p, NEW i, NEW q, NEW k,
         TwoOff(A, F, K, N, G, H, p, i, q, k),
         NEW m, m = (8 * (q - p) + k) - i, F[K + m] # F[K]
  PROVE  After(Bytes(A, N, G), a) # After(Bytes(A, N, H), a)
<1>0. /\ K \in Nat /\ N \in Nat
      /\ G \in [1..N -> Steps(A, 8)] /\ H \in [1..N -> Steps(A, 8)]
      /\ p \in 1..N /\ q \in 1..N /\ p < q /\ i \in 1..8 /\ k \in 1..8
      /\ \A n \in 1..N, j \in 1..8 : <<n, j>> \notin {<<p, i>>, <<q, k>>} => Agree(A, F, G[n][j], H[n][j])
      /\ Disagree(A, F, K, G[p][i], H[p][i]) /\ Disagree(A, F, K, G[q][k], H[q][k])
  BY DEF TwoOff
<1> USE <1>0 DEF Bytes
<1> DEFINE X == Bytes(A, N, G)
           Y == Bytes(A, N, H)
           Traces(n) == ((K + 8) - i) + 8 * (n - p)
           R == [n \in 0..N |-> IF n < p THEN Same(A) ELSE
                                IF n < q THEN Off(A, F, Traces(n)) ELSE NotSame(A)]
<1>1. X \in Steps(A, N) /\ Y \in Steps(A, N)
  <2>1. 8 \in Nat
    OBVIOUS
  <2> QED BY <2>1, AllType DEF Steps
<1>2. ASSUME NEW n \in 1..N PROVE Takes(A, X[n], Y[n], R[n - 1], R[n])
  <2>0. /\ X[n] = All(A, G[n]) /\ Y[n] = All(A, H[n])
        /\ G[n] \in Steps(A, 8) /\ H[n] \in Steps(A, 8)
    OBVIOUS
  <2>1. CASE n \notin {p, q}
    <3>1. \A j \in 1..8 : Agree(A, F, G[n][j], H[n][j])
      BY <2>1
    <3>2. /\ Takes(A, X[n], Y[n], Same(A), Same(A))
          /\ Takes(A, X[n], Y[n], NotSame(A), NotSame(A))
          /\ \A d \in Nat : Takes(A, X[n], Y[n], Off(A, F, d), Off(A, F, d + 8))
      <4> HIDE DEF X, Y
      <4> QED BY <2>0, <3>1, ByteAgrees
    <3> HIDE DEF X, Y
    <3>3. CASE n < p
      <4>1. R[n - 1] = Same(A) /\ R[n] = Same(A)
        BY <3>3
      <4> QED BY <3>2, <4>1
    <3>4. CASE n > q
      <4>1. R[n - 1] = NotSame(A) /\ R[n] = NotSame(A)
        BY <3>4
      <4> QED BY <3>2, <4>1
    <3>5. CASE p < n /\ n < q
      <4> DEFINE d == Traces(n - 1)
      <4>1. d \in Nat /\ Traces(n) = d + 8
        BY <3>5
      <4>2. R[n - 1] = Off(A, F, d) /\ R[n] = Off(A, F, d + 8)
        BY <3>5, <4>1
      <4> HIDE DEF R, d
      <4> QED BY <3>2, <4>1, <4>2
    <3> QED BY <2>1, <3>3, <3>4, <3>5
  <2>2. CASE n = p
    <3>1. R[n - 1] = Same(A) /\ R[n] = Off(A, F, (K + 8) - i)
      <4>1. Traces(n) = (K + 8) - i
        BY <2>2
      <4> QED BY <2>2, <4>1
    <3>2. \A j \in 1..8 \ {i} : Agree(A, F, G[n][j], H[n][j])
      BY <2>2
    <3>3. Disagree(A, F, K, G[n][i], H[n][i])
      BY <2>2
    <3> HIDE DEF X, Y, R
    <3> QED BY <2>0, <3>1, <3>2, <3>3, ByteParts
  <2>3. CASE n = q
    <3> DEFINE d == Traces(n - 1)
    <3>1. d \in Nat /\ d + k = K + ((8 * (q - p) + k) - i)
      BY <2>3
    <3>2. R[n - 1] = Off(A, F, d) /\ R[n] = NotSame(A)
      BY <2>3
    <3>3. \A j \in 1..8 \ {k} : Agree(A, F, G[n][j], H[n][j])
      BY <2>3
    <3>4. Disagree(A, F, K, G[n][k], H[n][k])
      BY <2>3
    <3>5. F[d + k] # F[K]
      BY <3>1
    <3> HIDE DEF X, Y, R, d
    <3> QED BY <2>0, <3>1, <3>2, <3>3, <3>4, <3>5, ByteStaysApart
  <2> QED BY <2>1, <2>2, <2>3
<1>3. <<a, a>> \in R[0] /\ R[N] = NotSame(A)
  BY DEF Same
<1> HIDE DEF X, Y, R
<1>4. Takes(A, All(A, X), All(A, Y), R[0], R[N])
  BY <1>1, <1>2, TakesInTurn
<1>5. <<After(X, a), After(Y, a)>> \in NotSame(A)
  BY <1>3, <1>4 DEF Takes, All
<1> QED BY <1>5 DEF X, Y, NotSame

\* Nothing differs between registers that are the same.
LEMMA XorEmpty == \A x, y : /\ SymDiff(x, x) = {} /\ SymDiff({}, x) = x
                            /\ SymDiff(x, y) = {} => x = y
  BY DEF SymDiff

\* ^ in another order.
LEMMA XorMoves ==
  ASSUME NEW r, NEW s, NEW t
  PROVE  /\ SymDiff(SymDiff(r, t), SymDiff(s, t)) = SymDiff(r, s)
         /\ SymDiff(SymDiff(r, t), s) = SymDiff(SymDiff(r, s), t)
         /\ SymDiff(r, SymDiff(s, t)) = SymDiff(SymDiff(r, s), t)
         /\ SymDiff(SymDiff(r, t), t) = r
BY DEF SymDiff

\* Steps that take what differs between two registers through Z.
LEMMA StepsAgree ==
  ASSUME NEW A, NEW Z, NEW F, NEW g, NEW h,
         \A d \in Nat : F[d + 1] = Z[F[d]],
         Z[{}] = {}, \A x, y \in A : Z[SymDiff(x, y)] = {} => SymDiff(x, y) = {},
         \A x, y \in A : /\ g[x] \in A /\ h[y] \in A
                         /\ SymDiff(g[x], h[y]) = Z[SymDiff(x, y)]
  PROVE  Agree(A, F, g, h)
<1>1. Takes(A, g, h, Same(A), Same(A))
  <2> SUFFICES ASSUME NEW x \in A PROVE g[x] = h[x]
    BY DEF Takes, Same
  <2>1. SymDiff(x, x) = {}
    BY XorEmpty
  <2>2. SymDiff(g[x], h[x]) = Z[SymDiff(x, x)]
    OBVIOUS
  <2>3. SymDiff(g[x], h[x]) = {}
    BY <2>1, <2>2
  <2> QED BY <2>3, XorEmpty
<1>2. Takes(A, g, h, NotSame(A), NotSame(A))
  BY XorEmpty DEF Takes, NotSame
<1>3. \A d \in Nat : Takes(A, g, h, Off(A, F, d), Off(A, F, d + 1))
  BY DEF Takes, Off
<1> QED BY <1>1, <1>2, <1>3 DEF Agree

\* Steps through which another bit comes: they differ by F[K] more.
LEMMA StepsDisagree ==
  ASSUME NEW A, NEW Z, NEW F, NEW K, NEW g, NEW h,
         \A d \in Nat : F[d + 1] = Z[F[d]], Z[{}] = {},
         \A x, y \in A : /\ g[x] \in A /\ h[y] \in A
                         /\ SymDiff(g[x], h[y]) = SymDiff(Z[SymDiff(x, y)], F[K])
  PROVE  Disagree(A, F, K, g, h)
<1>1. Takes(A, g, h, Same(A), Off(A, F, K))
  <2> SUFFICES ASSUME NEW x \in A PROVE SymDiff(g[x], h[x]) = F[K]
    BY DEF Takes, Same, Off
  <2>1. SymDiff(x, x) = {}
    BY XorEmpty
  <2>2. SymDiff(g[x], h[x]) = SymDiff({}, F[K])
    BY <2>1
  <2> QED BY <2>2, XorEmpty
<1>2. ASSUME NEW d \in Nat, F[d + 1] # F[K]
      PROVE  Takes(A, g, h, Off(A, F, d), NotSame(A))
  BY <1>2, XorEmpty DEF Takes, NotSame, Off
<1> QED BY <1>1, <1>2 DEF Disagree

\* Two steps of the division of a word.
LEMMA Divided16Both ==
  ASSUME NEW x \in Bits16, NEW y \in Bits16, NEW u, NEW v, NEW k
  PROVE  /\ SymDiff(x, y) \in Bits16
         /\ Divided16(x, k \in u) \in Bits16
         /\ SymDiff(Divided16(x, k \in u), Divided16(y, k \in v)) =
              IF k \in u <=> k \in v THEN Zeroed(SymDiff(x, y))
              ELSE SymDiff(Zeroed(SymDiff(x, y)), Generator16)
<1> DEFINE d == SymDiff(x, y)
<1>1. d \in Bits16
  BY DEF Bits16, SymDiff
<1>2. Divided16(x, k \in u) \in Bits16
  BY DEF Divided16, Bits16, Bit16, Down, SymDiff, Generator16
<1>3. Down(d) = SymDiff(Down(x), Down(y))
  <2>1. \A i : i \in Down(x) <=> i \in 0..14 /\ i + 1 \in x
    BY DEF Down, Bits16, Bit16
  <2>2. \A i : i \in Down(y) <=> i \in 0..14 /\ i + 1 \in y
    BY DEF Down, Bits16, Bit16
  <2>3. \A i : i \in Down(d) <=> i \in 0..14 /\ i + 1 \in d
    BY <1>1 DEF Down, Bits16, Bit16
  <2> QED BY <2>1, <2>2, <2>3 DEF SymDiff
<1>4. 0 \in d <=> ~ (0 \in x <=> 0 \in y)
  BY DEF SymDiff
<1> HIDE DEF d
<1>5. Zeroed(d) = IF 0 \in x <=> 0 \in y THEN SymDiff(Down(x), Down(y))
                  ELSE SymDiff(SymDiff(Down(x), Down(y)), Generator16)
  BY <1>3, <1>4 DEF Zeroed
<1> DEFINE r == Down(x)
           s == Down(y)
           dx == Divided16(x, k \in u)
           dy == Divided16(y, k \in v)
           G == Generator16
<1>6. /\ (0 \in x <=> k \in u) => dx = r
      /\ (0 \in x <=> k \notin u) => dx = SymDiff(r, G)
      /\ (0 \in y <=> k \in v) => dy = s
      /\ (0 \in y <=> k \notin v) => dy = SymDiff(s, G)
      /\ (0 \in x <=> 0 \in y) => Zeroed(d) = SymDiff(r, s)
      /\ (0 \in x <=> 0 \notin y) => Zeroed(d) = SymDiff(SymDiff(r, s), G)
  BY <1>5 DEF Divided16
<1> HIDE DEF r, s, dx, dy, G
<1>7. SymDiff(dx, dy) = IF k \in u <=> k \in v THEN Zeroed(d) ELSE SymDiff(Zeroed(d), G)
  <2>1. CASE /\ 0 \in x <=> k \in u
             /\ 0 \in y <=> k \in v
    BY <1>6, <2>1, XorMoves
  <2>2. CASE /\ 0 \in x <=> k \notin u
             /\ 0 \in y <=> k \in v
    BY <1>6, <2>2, XorMoves
  <2>3. CASE /\ 0 \in x <=> k \in u
             /\ 0 \in y <=> k \notin v
    BY <1>6, <2>3, XorMoves
  <2>4. CASE /\ 0 \in x <=> k \notin u
             /\ 0 \in y <=> k \notin v
    BY <1>6, <2>4, XorMoves
  <2> QED BY <2>1, <2>2, <2>3, <2>4
<1> QED BY <1>1, <1>2, <1>7 DEF d, dx, dy, G

\* Two steps of the division of a byte.
LEMMA Divided8Both ==
  ASSUME NEW x \in Bits8, NEW y \in Bits8, NEW u, NEW v, NEW k
  PROVE  /\ SymDiff(x, y) \in Bits8
         /\ Divided8(x, k \in u) \in Bits8
         /\ SymDiff(Divided8(x, k \in u), Divided8(y, k \in v)) =
              IF k \in u <=> k \in v THEN Crc8Shifted(SymDiff(x, y))
              ELSE SymDiff(Crc8Shifted(SymDiff(x, y)), Generator8)
<1> DEFINE d == SymDiff(x, y)
<1>1. d \in Bits8
  BY DEF Bits8, SymDiff
<1>2. Divided8(x, k \in u) \in Bits8
  BY DEF Divided8, Bits8, Bit8, Up, SymDiff, Generator8
<1>3. Up(d) = SymDiff(Up(x), Up(y))
  <2>1. \A i : i \in Up(x) <=> i \in 1..7 /\ i - 1 \in x
    BY DEF Up, Bits8, Bit8
  <2>2. \A i : i \in Up(y) <=> i \in 1..7 /\ i - 1 \in y
    BY DEF Up, Bits8, Bit8
  <2>3. \A i : i \in Up(d) <=> i \in 1..7 /\ i - 1 \in d
    BY <1>1 DEF Up, Bits8, Bit8
  <2> QED BY <2>1, <2>2, <2>3 DEF SymDiff
<1>4. 7 \in d <=> ~ (7 \in x <=> 7 \in y)
  BY DEF SymDiff
<1> HIDE DEF d
<1>5. Crc8Shifted(d) = IF 7 \in x <=> 7 \in y THEN SymDiff(Up(x), Up(y))
                       ELSE SymDiff(SymDiff(Up(x), Up(y)), Generator8)
  BY <1>3, <1>4 DEF Crc8Shifted
<1> DEFINE r == Up(x)
           s == Up(y)
           dx == Divided8(x, k \in u)
           dy == Divided8(y, k \in v)
           G == Generator8
<1>6. /\ (7 \in x <=> k \in u) => dx = r
      /\ (7 \in x <=> k \notin u) => dx = SymDiff(r, G)
      /\ (7 \in y <=> k \in v) => dy = s
      /\ (7 \in y <=> k \notin v) => dy = SymDiff(s, G)
      /\ (7 \in x <=> 7 \in y) => Crc8Shifted(d) = SymDiff(r, s)
      /\ (7 \in x <=> 7 \notin y) => Crc8Shifted(d) = SymDiff(SymDiff(r, s), G)
  BY <1>5 DEF Divided8
<1> HIDE DEF r, s, dx, dy, G
<1>7. SymDiff(dx, dy) = IF k \in u <=> k \in v THEN Crc8Shifted(d) ELSE SymDiff(Crc8Shifted(d), G)
  <2>1. CASE /\ 7 \in x <=> k \in u
             /\ 7 \in y <=> k \in v
    BY <1>6, <2>1, XorMoves
  <2>2. CASE /\ 7 \in x <=> k \notin u
             /\ 7 \in y <=> k \in v
    BY <1>6, <2>2, XorMoves
  <2>3. CASE /\ 7 \in x <=> k \in u
             /\ 7 \in y <=> k \notin v
    BY <1>6, <2>3, XorMoves
  <2>4. CASE /\ 7 \in x <=> k \notin u
             /\ 7 \in y <=> k \notin v
    BY <1>6, <2>4, XorMoves
  <2> QED BY <2>1, <2>2, <2>3, <2>4
<1> QED BY <1>1, <1>2, <1>7 DEF d, dx, dy, G

-----------------------------------------------------------------------------
(* Sequences that one step leads through, and periods.                     *)

\* What a step makes of a, again and again.
Orbit(A, Z, a) == [n \in Nat |-> After([j \in 1..n |-> Z], a)]

LeadsOn(f, A, Z, a) == f \in [Nat -> A] /\ f[0] = a /\ \A n \in Nat : f[n + 1] = Z[f[n]]

\* That is the sequence that Z leads through.
LEMMA OrbitSteps ==
  ASSUME NEW A, NEW Z \in [A -> A], NEW a \in A
  PROVE  LeadsOn(Orbit(A, Z, a), A, Z, a)
<1> DEFINE G(n) == [j \in 1..n |-> Z]
           f == Orbit(A, Z, a)
<1>1. \A n \in Nat : \E g \in Iterates(A, a, n, G(n)) : f[n] = g[n]
  <2> SUFFICES ASSUME NEW n \in Nat PROVE \E g \in Iterates(A, a, n, G(n)) : f[n] = g[n]
    OBVIOUS
  <2>1. G(n) \in [1..n -> [A -> A]]
    OBVIOUS
  <2>2. f[n] = After(G(n), a)
    BY DEF Orbit
  <2> QED BY <2>1, <2>2, AfterSteps
<1>2. ASSUME NEW n \in Nat, NEW g \in Iterates(A, a, n, G(n))
      PROVE  g \in [0..n -> A] /\ g[0] = a /\ \A k \in 1..n : g[k] = Z[g[k - 1]]
  BY <1>2 DEF Iterates
<1>3. ASSUME NEW n \in Nat PROVE f[n + 1] = Z[f[n]]
  <2>1. PICK g \in Iterates(A, a, n, G(n)) : f[n] = g[n]
    BY <1>1
  <2>2. PICK h \in Iterates(A, a, n + 1, G(n + 1)) : f[n + 1] = h[n + 1]
    BY <1>1
  <2> HIDE DEF f, G
  <2> DEFINE T == {k \in 0..n : g[k] = h[k]}
  <2>3. 0 \in T
    BY <1>2
  <2>4. \A k \in 1..n : k - 1 \in T => k \in T
    <3> SUFFICES ASSUME NEW k \in 1..n, g[k - 1] = h[k - 1] PROVE g[k] = h[k]
      OBVIOUS
    <3>1. k \in 1..n + 1
      OBVIOUS
    <3> QED BY <1>2, <3>1
  <2> HIDE DEF T
  <2>5. n \in T
    BY <2>3, <2>4, UpTo
  <2>6. n + 1 \in 1..n + 1 /\ (n + 1) - 1 = n
    OBVIOUS
  <2> QED BY <1>2, <2>1, <2>2, <2>5, <2>6 DEF T
<1>4. ASSUME NEW n \in Nat PROVE f[n] \in A
  <2> HIDE DEF f, G
  <2>1. PICK g \in Iterates(A, a, n, G(n)) : f[n] = g[n]
    BY <1>1
  <2> QED BY <1>2, <2>1
<1>5. f[0] = a
  <2> HIDE DEF f, G
  <2> QED BY <1>1, <1>2
<1>6. f \in [Nat -> A]
  BY <1>4 DEF Orbit
<1> QED BY <1>3, <1>5, <1>6 DEF LeadsOn

\* The distances at which a set of numbers repeats itself.
Periods(D) == {m \in Nat : \A n \in Nat : n + m \in D <=> n \in D}

\* A sum of periods is one, and so is a difference and a multiple.
LEMMA PeriodsAdd ==
  ASSUME NEW D, NEW a \in Periods(D), NEW b \in Periods(D)
  PROVE  a + b \in Periods(D)
<1> SUFFICES ASSUME NEW n \in Nat PROVE n + (a + b) \in D <=> n \in D
  BY DEF Periods
<1>1. a \in Nat /\ b \in Nat /\ n + a \in Nat /\ n + (a + b) = (n + a) + b
  BY DEF Periods
<1> QED BY <1>1 DEF Periods

LEMMA PeriodsSubtract ==
  ASSUME NEW D, NEW a \in Periods(D), NEW b \in Periods(D), b <= a
  PROVE  a - b \in Periods(D)
<1>0. a \in Nat /\ b \in Nat /\ a - b \in Nat
  BY DEF Periods
<1> SUFFICES ASSUME NEW n \in Nat PROVE n + (a - b) \in D <=> n \in D
  BY <1>0 DEF Periods
<1>1. n + (a - b) \in Nat /\ (n + (a - b)) + b = n + a
  BY <1>0
<1> QED BY <1>0, <1>1 DEF Periods

LEMMA PeriodsMultiply ==
  ASSUME NEW D, NEW a \in Periods(D), NEW c \in Nat
  PROVE  a * c \in Periods(D)
<1> DEFINE S == {k \in Nat : a * k \in Periods(D)}
<1>0. a \in Nat
  BY DEF Periods
<1>1. 0 \in S
  BY <1>0 DEF Periods
<1>2. ASSUME NEW k \in Nat, k \in S PROVE k + 1 \in S
  <2>1. a * (k + 1) = a * k + a
    BY <1>0
  <2> QED BY <1>2, <2>1, PeriodsAdd
<1> HIDE DEF S
<1>3. c \in S
  BY <1>1, <1>2, SetInduction
<1> QED BY <1>3 DEF S

\* A set of naturals has a least one.
LEMMA Least ==
  ASSUME NEW S \in SUBSET Nat, S # {}
  PROVE  \E m \in S : \A k \in S : m <= k
<1> SUFFICES ASSUME \A m \in S : \E k \in S : k < m PROVE FALSE
  OBVIOUS
<1> DEFINE T == {n \in Nat : \A k \in S : n <= k}
<1>1. 0 \in T
  OBVIOUS
<1>2. ASSUME NEW n \in Nat, n \in T PROVE n + 1 \in T
  <2>1. n \notin S
    BY <1>2
  <2> QED BY <1>2, <2>1
<1> HIDE DEF T
<1>3. Nat \subseteq T
  BY <1>1, <1>2, SetInduction
<1>4. PICK x \in S : TRUE
  OBVIOUS
<1>5. x + 1 \in T
  BY <1>3
<1> QED BY <1>4, <1>5 DEF T

\* The least period divides every other one.
LEMMA LeastPeriod ==
  ASSUME NEW D, NEW N \in Periods(D), NEW m \in Periods(D), 0 < m, m < N
  PROVE  \E o \in Periods(D), q \in Nat : 0 < o /\ o < N /\ N = o * q
<1> DEFINE S == Periods(D) \ {0}
<1>1. S \in SUBSET Nat /\ m \in S /\ N \in Nat
  BY DEF Periods
<1>2. PICK o \in S : \A k \in S : o <= k
  <2> HIDE DEF S
  <2> QED BY <1>1, Least
<1>3. o \in Nat /\ 0 < o /\ o < N
  BY <1>1, <1>2
<1> DEFINE q == N \div o
           r == N % o
<1>4. q \in Nat /\ r \in Nat /\ r < o /\ N = o * q + r
  BY <1>1, <1>3
<1> HIDE DEF q, r
<1>5. o * q \in Periods(D)
  BY <1>2, <1>4, PeriodsMultiply
<1>6. o * q \in Nat
  BY <1>3, <1>4
<1>7. r = N - o * q /\ o * q <= N
  BY <1>1, <1>4, <1>6
<1>8. r \in Periods(D)
  BY <1>5, <1>7, PeriodsSubtract
<1>9. r = 0
  BY <1>2, <1>4, <1>8
<1> QED BY <1>2, <1>3, <1>4, <1>6, <1>9

\* 7 and 31 are prime.
Multiples(p) == {p * c : c \in Nat}

\* They divide a product only if they divide one of its factors.
LEMMA PrimeFactor ==
  ASSUME NEW a \in Nat, NEW b \in Nat
  PROVE  /\ a * b \in Multiples(7) => a \in Multiples(7) \/ b \in Multiples(7)
         /\ a * b \in Multiples(31) => a \in Multiples(31) \/ b \in Multiples(31)
<1> DEFINE Splits(p) == a * b \in Multiples(p) => a \in Multiples(p) \/ b \in Multiples(p)
<1>1. ASSUME NEW p \in {7, 31} PROVE Splits(p)
  <2> SUFFICES ASSUME a * b \in Multiples(p) PROVE a \in Multiples(p) \/ b \in Multiples(p)
    OBVIOUS
  <2> PICK k \in Nat : a * b = p * k
    BY DEF Multiples
  <2> DEFINE x == a \div p
             y == b \div p
             r == a % p
             s == b % p
  <2>1. /\ x \in Nat /\ a = p * x + r /\ r \in 0..p-1
        /\ y \in Nat /\ b = p * y + s /\ s \in 0..p-1
    OBVIOUS
  <2> HIDE DEF x, y, r, s
  <2>2. a * b = p * (x * b + r * y) + r * s
    <3>1. a * b = p * x * b + r * b
      BY <2>1
    <3>2. r * b = p * (r * y) + r * s
      BY <2>1
    <3> QED BY <2>1, <3>1, <3>2
  <2> DEFINE z == x * b + r * y
  <2>3. z \in Nat
    BY <2>1
  <2> HIDE DEF z
  <2>4. r * s = p * (k - z) /\ r * s >= 0
    BY <2>1, <2>2, <2>3 DEF z
  <2>5. k - z \in Nat
    BY <2>3, <2>4
  <2>6. r = 0 \/ s = 0
    <3>1. CASE p = 7
      <4> SUFFICES ASSUME r \in 1..6, s \in 1..6 PROVE FALSE
        BY <2>1, <3>1
      <4> QED BY <2>4, <2>5, <3>1
    <3>2. CASE p = 31
      <4> SUFFICES ASSUME r \in 1..30, s \in 1..30 PROVE FALSE
        BY <2>1, <3>2
      <4> QED BY <2>4, <2>5, <3>2
    <3> QED BY <3>1, <3>2
  <2> QED BY <2>1, <2>6 DEF Multiples
<1> HIDE DEF Splits
<1>2. Splits(7) /\ Splits(31)
  BY <1>1
<1> QED BY <1>2 DEF Splits

\* 2^15 - 1 is 7 * 31 * 151: a proper divisor divides the product of two of them.
Cycle16 == 32767
Parts16 == {217, 1057, 4681}

\* 2^15 - 1 is 7 * 31 * 151: what divides it, and is not all of it, divides one of
\* these products of two.
LEMMA Divisors16 ==
  ASSUME NEW o \in Nat, NEW q \in Nat, Cycle16 = o * q, o < Cycle16
  PROVE  \E c \in Nat : o * c \in Parts16
<1> USE DEF Cycle16, Parts16
<1>0. o >= 1 /\ q >= 2
  <2>1. o # 0 /\ q # 0 /\ q # 1
    OBVIOUS
  <2> QED BY <2>1
<1>1. CASE \E c \in Nat : q = 7 * c
  <2>1. PICK c \in Nat : q = 7 * c
    BY <1>1
  <2>2. 32767 = 7 * (o * c)
    BY <2>1
  <2>3. o * c \in Nat
    OBVIOUS
  <2> QED BY <2>2, <2>3
<1>2. CASE \E a \in Nat : o = 7 * a
  <2>1. PICK a \in Nat : o = 7 * a
    BY <1>2
  <2>2. a * q = 4681 /\ a >= 1
    <3>1. 32767 = 7 * (a * q)
      BY <2>1
    <3>2. a * q \in Nat
      OBVIOUS
    <3> QED BY <3>1, <3>2, <2>1, <1>0
  <2>3. CASE \E c \in Nat : q = 31 * c
    <3>1. PICK c \in Nat : q = 31 * c
      BY <2>3
    <3>2. 4681 = 31 * (a * c) /\ a * c \in Nat
      BY <2>2, <3>1
    <3>3. a * c = 151
      BY <3>2
    <3>4. o * c = 7 * (a * c)
      BY <2>1
    <3> QED BY <3>3, <3>4
  <2>4. CASE \E b \in Nat : a = 31 * b
    <3>1. PICK b \in Nat : a = 31 * b
      BY <2>4
    <3>2. 4681 = 31 * (b * q) /\ b * q \in Nat
      BY <2>2, <3>1
    <3>3. b * q = 151
      BY <3>2
    <3>4. b = 1
      <4>1. b >= 1
        BY <2>2, <3>1
      <4>2. CASE b >= 13 /\ q >= 13
        <5>1. b * q >= 13 * 13
          BY <4>2
        <5> QED BY <3>3, <5>1
      <4>3. CASE b \in 2..12
        BY <3>3, <4>3
      <4>4. CASE q \in 2..12
        BY <3>3, <4>4
      <4> QED BY <1>0, <4>1, <4>2, <4>3, <4>4
    <3>5. o = 217
      BY <2>1, <3>1, <3>4
    <3> QED BY <3>5
  <2>5. (\E b \in Nat : a = 31 * b) \/ (\E c \in Nat : q = 31 * c)
    <3>1. a * q \in Multiples(31)
      BY <2>2 DEF Multiples
    <3>2. a \in Multiples(31) \/ q \in Multiples(31)
      BY <3>1, PrimeFactor
    <3> QED BY <3>2 DEF Multiples
  <2> QED BY <2>3, <2>4, <2>5
<1>3. (\E a \in Nat : o = 7 * a) \/ (\E c \in Nat : q = 7 * c)
  <2>1. o * q \in Multiples(7)
    BY DEF Multiples
  <2>2. o \in Multiples(7) \/ q \in Multiples(7)
    BY <2>1, PrimeFactor
  <2> QED BY <2>2 DEF Multiples
<1> QED BY <1>1, <1>2, <1>3

OneToOne(A, Z)   == \A x, y \in A : Z[x] = Z[y] => x = y
Repeats(f, m, n) == f[n + m] = f[n]

\* Where a step that loses nothing leads round, it leads round to where it began.
LEMMA LeadsRound ==
  ASSUME NEW A, NEW Z, NEW a, NEW f, NEW m \in Nat, NEW k \in Nat,
         LeadsOn(f, A, Z, a), OneToOne(A, Z), Repeats(f, m, k)
  PROVE  \A n \in Nat : Repeats(f, m, n)
<1> USE DEF Repeats
<1> DEFINE S == {n \in Nat : n <= k => f[(k - n) + m] = f[k - n]}
           T == {n \in Nat : f[n + m] = f[n]}
<1>1. f \in [Nat -> A] /\ \A n \in Nat : f[n + 1] = Z[f[n]]
  BY DEF LeadsOn
<1>2. 0 \in S
  OBVIOUS
<1>3. ASSUME NEW n \in Nat, n \in S PROVE n + 1 \in S
  <2> SUFFICES ASSUME n + 1 <= k PROVE f[(k - (n + 1)) + m] = f[k - (n + 1)]
    OBVIOUS
  <2> DEFINE i == k - (n + 1)
  <2>1. i \in Nat /\ i + m \in Nat /\ k - n = i + 1 /\ (k - n) + m = (i + m) + 1
    OBVIOUS
  <2>2. f[(i + m) + 1] = f[i + 1]
    BY <1>3, <2>1
  <2> HIDE DEF i
  <2>3. Z[f[i + m]] = Z[f[i]] /\ f[i + m] \in A /\ f[i] \in A
    BY <1>1, <2>1, <2>2
  <2> QED BY <2>3 DEF i, OneToOne
<1> HIDE DEF S
<1>4. k \in S
  BY <1>2, <1>3, SetInduction
<1>5. 0 \in T
  BY <1>4 DEF S
<1>6. ASSUME NEW n \in Nat, n \in T PROVE n + 1 \in T
  <2>1. f[n + m] = f[n] /\ n + m \in Nat /\ (n + 1) + m = (n + m) + 1
    BY <1>6
  <2> QED BY <1>1, <2>1
<1> HIDE DEF T
<1>7. Nat \subseteq T
  BY <1>5, <1>6, SetInduction
<1> QED BY <1>7 DEF T

-----------------------------------------------------------------------------
(* How long it takes until the bits of a register repeat.                  *)

\* A bit is the sum of two earlier ones; then so are the bits twice as far apart.
Recurs(D, s, a) == \A n \in Nat : n + s \in D <=> ~ (n + a \in D <=> n \in D)

\* Since two sums of two bits that are the same leave nothing.
LEMMA RecursTwice ==
  ASSUME NEW D, NEW s \in Nat, NEW a \in Nat, Recurs(D, s, a)
  PROVE  Recurs(D, 2 * s, 2 * a)
<1> SUFFICES ASSUME NEW n \in Nat
             PROVE  n + 2 * s \in D <=> ~ (n + 2 * a \in D <=> n \in D)
  BY DEF Recurs
<1>1. n + 2 * s = (n + s) + s /\ (n + s) + a = (n + a) + s /\ n + 2 * a = (n + a) + a
  OBVIOUS
<1>2. n + s \in Nat /\ n + a \in Nat
  OBVIOUS
<1>3. /\ (n + s) + s \in D <=> ~ ((n + s) + a \in D <=> n + s \in D)
      /\ (n + a) + s \in D <=> ~ ((n + a) + a \in D <=> n + a \in D)
      /\ n + s \in D <=> ~ (n + a \in D <=> n \in D)
  BY <1>2 DEF Recurs
<1> QED BY <1>1, <1>3

\* What zeros make of the highest bit of a register, and when its lowest bit then
\* differs from the one before.
Traces16 == Orbit(Bits16, [z \in Bits16 |-> Zeroed(z)], {15})
Turns16  == {n \in Nat : ~ (0 \in Traces16[n] <=> 0 \in Traces16[n + 1])}

\* The traces are a sequence of registers.
LEMMA Traces16Orbit ==
  LeadsOn(Traces16, Bits16, [z \in Bits16 |-> Zeroed(z)], {15})
<1> DEFINE Z == [z \in Bits16 |-> Zeroed(z)]
<1>1. \A z \in Bits16 : Zeroed(z) \in Bits16
  BY ZeroedBits
<1>2. Z \in [Bits16 -> Bits16] /\ {15} \in Bits16
  BY <1>1 DEF Bits16, Bit16
<1> HIDE DEF Z
<1>3. LeadsOn(Orbit(Bits16, Z, {15}), Bits16, Z, {15})
  BY <1>2, OrbitSteps
<1> QED BY <1>3 DEF Traces16, Z

\* The same, to be cited.
LEMMA Traces16Steps ==
  /\ Traces16 \in [Nat -> Bits16] /\ Traces16[0] = {15}
  /\ \A n \in Nat : Traces16[n + 1] = Zeroed(Traces16[n])
BY Traces16Orbit DEF LeadsOn

\* The bits of the traces, each from the step before.
LEMMA Traces16Bits ==
  ASSUME NEW n \in Nat
  PROVE  /\ 15 \in Traces16[n + 1] <=> 0 \in Traces16[n]
         /\ 13 \in Traces16[n + 1] <=> ~ (14 \in Traces16[n] <=> 0 \in Traces16[n])
         /\ 0 \in Traces16[n + 1] <=> ~ (1 \in Traces16[n] <=> 0 \in Traces16[n])
         /\ \A i \in 1..14 \ {13} : i \in Traces16[n + 1] <=> i + 1 \in Traces16[n]
<1>1. Traces16[n] \in Bits16 /\ Traces16[n + 1] = Zeroed(Traces16[n])
  BY Traces16Steps
<1> QED BY <1>1, ZeroedBits DEF Generator16

\* The trinomial x^15 + x + 1: x^16 + x^15 + x^2 + 1 is x + 1 times it.
LEMMA Turns16Recurs == Recurs(Turns16, 15, 1)
<1> DEFINE C == {n \in Nat : 0 \in Traces16[n]}
<1>1. ASSUME NEW n \in Nat
      PROVE  n + 16 \in C <=> ~ (n + 15 \in C <=> ~ (n + 2 \in C <=> n \in C))
  <2>1. ASSUME NEW i \in Nat
        PROVE  /\ 15 \in Traces16[(n + i) + 1] <=> 0 \in Traces16[n + i]
               /\ 13 \in Traces16[(n + i) + 1] <=> ~ (14 \in Traces16[n + i] <=> 0 \in Traces16[n + i])
               /\ 0 \in Traces16[(n + i) + 1] <=> ~ (1 \in Traces16[n + i] <=> 0 \in Traces16[n + i])
               /\ \A j \in 1..14 \ {13} : j \in Traces16[(n + i) + 1] <=> j + 1 \in Traces16[n + i]
    <3>1. n + i \in Nat
      OBVIOUS
    <3> QED BY <3>1, Traces16Bits
  <2>2. 15 \in Traces16[n + 1] <=> 0 \in Traces16[n]
    BY <2>1
  <2>3. 14 \in Traces16[n + 2] <=> 0 \in Traces16[n]
    BY <2>1, <2>2
  <2>4. 13 \in Traces16[n + 3] <=> ~ (0 \in Traces16[n] <=> 0 \in Traces16[n + 2])
    BY <2>1, <2>3
  <2>5. ASSUME NEW i \in 3..14 PROVE 16 - i \in Traces16[n + i] <=> 13 \in Traces16[n + 3]
    <3> DEFINE S == {k \in 0..11 : 13 - k \in Traces16[n + (k + 3)] <=> 13 \in Traces16[n + 3]}
    <3>1. 0 \in S
      OBVIOUS
    <3>2. \A k \in 1..11 : k - 1 \in S => k \in S
      <4> SUFFICES ASSUME NEW k \in 1..11, k - 1 \in S PROVE k \in S
        OBVIOUS
      <4>1. 13 - k \in 1..14 \ {13} /\ (13 - k) + 1 = 13 - (k - 1)
            /\ (k - 1) + 3 \in Nat /\ (n + ((k - 1) + 3)) + 1 = n + (k + 3)
        OBVIOUS
      <4>2. 13 - k \in Traces16[n + (k + 3)] <=> 13 - (k - 1) \in Traces16[n + ((k - 1) + 3)]
        BY <2>1, <4>1
      <4> QED BY <4>2
    <3> HIDE DEF S
    <3>3. i - 3 \in S
      BY <3>1, <3>2, UpTo
    <3>4. 13 - (i - 3) = 16 - i /\ (i - 3) + 3 = i
      OBVIOUS
    <3> QED BY <3>3, <3>4 DEF S
  <2>6. 2 \in Traces16[n + 14] <=> 13 \in Traces16[n + 3]
    BY <2>5
  <2>7. 1 \in Traces16[n + 15] <=> 2 \in Traces16[n + 14]
    <3>1. (n + 14) + 1 = n + 15 /\ 14 \in Nat /\ 1 \in 1..14 \ {13} /\ 1 + 1 = 2
      OBVIOUS
    <3>2. 1 \in Traces16[(n + 14) + 1] <=> 1 + 1 \in Traces16[n + 14]
      BY <2>1, <3>1
    <3> QED BY <3>1, <3>2
  <2>8. 0 \in Traces16[n + 16] <=> ~ (1 \in Traces16[n + 15] <=> 0 \in Traces16[n + 15])
    BY <2>1
  <2> QED BY <2>4, <2>6, <2>7, <2>8
<1>2. \A n : n \in Turns16 <=> n \in Nat /\ ~ (n \in C <=> n + 1 \in C)
  BY DEF Turns16
<1> HIDE DEF C
<1> SUFFICES ASSUME NEW n \in Nat
             PROVE  n + 15 \in Turns16 <=> ~ (n + 1 \in Turns16 <=> n \in Turns16)
  BY DEF Recurs
<1>3. /\ n + 15 \in Turns16 <=> ~ (n + 15 \in C <=> n + 16 \in C)
      /\ n + 1 \in Turns16 <=> ~ (n + 1 \in C <=> n + 2 \in C)
      /\ n \in Turns16 <=> ~ (n \in C <=> n + 1 \in C)
  BY <1>2
<1> QED BY <1>1, <1>3

\* The bit reaches the lowest place after fifteen steps.
LEMMA Traces16Begin ==
  /\ \A n \in 0..15 : Traces16[n] = {15 - n}
  /\ Traces16[16] = Generator16
<1> DEFINE S == {n \in 0..15 : Traces16[n] = {15 - n}}
<1>1. 0 \in S
  BY Traces16Steps
<1>2. \A n \in 1..15 : n - 1 \in S => n \in S
  <2> SUFFICES ASSUME NEW n \in 1..15, n - 1 \in S PROVE Traces16[n] = {15 - n}
    OBVIOUS
  <2>1. n - 1 \in Nat /\ (n - 1) + 1 = n /\ Traces16[n - 1] = {16 - n}
    OBVIOUS
  <2>2. Traces16[n] = Zeroed({16 - n})
    BY <2>1, Traces16Steps
  <2>3. 0 \notin {16 - n} /\ Down({16 - n}) = {15 - n}
    BY DEF Down
  <2> QED BY <2>2, <2>3 DEF Zeroed
<1> HIDE DEF S
<1>3. 0..15 \subseteq S
  BY <1>1, <1>2, UpTo
<1>4. \A n \in 0..15 : Traces16[n] = {15 - n}
  BY <1>3 DEF S
<1>5. Traces16[16] = Generator16
  <2>1. 15 \in Nat /\ 15 + 1 = 16 /\ Traces16[15] = {0}
    BY <1>4
  <2>2. Traces16[16] = Zeroed({0})
    BY <2>1, Traces16Steps
  <2>3. Zeroed({0}) = SymDiff(Down({0}), Generator16) /\ Down({0}) = {}
    BY DEF Zeroed, Down
  <2> QED BY <2>2, <2>3 DEF SymDiff
<1> QED BY <1>4, <1>5

\* The first fifteen turns.
LEMMA Turns16Begin == \A n \in 0..14 : n \in Turns16 <=> n = 14
<1> SUFFICES ASSUME NEW n \in 0..14 PROVE n \in Turns16 <=> n = 14
  OBVIOUS
<1>1. Traces16[n] = {15 - n} /\ Traces16[n + 1] = {15 - (n + 1)}
  BY Traces16Begin
<1> QED BY <1>1 DEF Turns16

\* Doubled again and again.
LEMMA Turns16Recur ==
  /\ Recurs(Turns16, 15, 1) /\ Recurs(Turns16, 30, 2) /\ Recurs(Turns16, 60, 4)
  /\ Recurs(Turns16, 120, 8) /\ Recurs(Turns16, 240, 16) /\ Recurs(Turns16, 480, 32)
  /\ Recurs(Turns16, 960, 64) /\ Recurs(Turns16, 1920, 128) /\ Recurs(Turns16, 3840, 256)
  /\ Recurs(Turns16, 7680, 512) /\ Recurs(Turns16, 15360, 1024) /\ Recurs(Turns16, 30720, 2048)
<1>1. \A s, a \in Nat : Recurs(Turns16, s, a) => Recurs(Turns16, 2 * s, 2 * a)
  BY RecursTwice
<1>2. /\ Recurs(Turns16, 15, 1) /\ Recurs(Turns16, 30, 2) /\ Recurs(Turns16, 60, 4)
      /\ Recurs(Turns16, 120, 8)
  BY <1>1, Turns16Recurs
<1>3. Recurs(Turns16, 240, 16) /\ Recurs(Turns16, 480, 32) /\ Recurs(Turns16, 960, 64)
  BY <1>1, <1>2
<1>4. Recurs(Turns16, 1920, 128) /\ Recurs(Turns16, 3840, 256) /\ Recurs(Turns16, 7680, 512)
  BY <1>1, <1>3
<1>5. Recurs(Turns16, 15360, 1024) /\ Recurs(Turns16, 30720, 2048)
  BY <1>1, <1>4
<1> QED BY <1>2, <1>3, <1>4, <1>5

\* x^32767 is 1.
LEMMA Turns16Period == 32767 \in Periods(Turns16)
<1>1. ASSUME NEW n \in Nat PROVE n + 32768 \in Turns16 <=> n + 1 \in Turns16
  <2>1. n + 32768 \in Turns16 <=> ~ (n + 4096 \in Turns16 <=> n + 2048 \in Turns16)
    <3>1. (n + 2048) + 30720 = n + 32768 /\ (n + 2048) + 2048 = n + 4096
      OBVIOUS
    <3>2. Recurs(Turns16, 30720, 2048)
      BY Turns16Recur
    <3> QED BY <3>1, <3>2 DEF Recurs
  <2>2. n + 4096 \in Turns16 <=> ~ (n + 512 \in Turns16 <=> n + 256 \in Turns16)
    <3>1. (n + 256) + 3840 = n + 4096 /\ (n + 256) + 256 = n + 512
      OBVIOUS
    <3>2. Recurs(Turns16, 3840, 256)
      BY Turns16Recur
    <3> QED BY <3>1, <3>2 DEF Recurs
  <2>3. n + 2048 \in Turns16 <=> ~ (n + 256 \in Turns16 <=> n + 128 \in Turns16)
    <3>1. (n + 128) + 1920 = n + 2048 /\ (n + 128) + 128 = n + 256
      OBVIOUS
    <3>2. Recurs(Turns16, 1920, 128)
      BY Turns16Recur
    <3> QED BY <3>1, <3>2 DEF Recurs
  <2>4. /\ n + 512 \in Turns16 <=> ~ (n + 64 \in Turns16 <=> n + 32 \in Turns16)
        /\ n + 128 \in Turns16 <=> ~ (n + 16 \in Turns16 <=> n + 8 \in Turns16)
    <3>1. (n + 32) + 480 = n + 512 /\ (n + 32) + 32 = n + 64
          /\ (n + 8) + 120 = n + 128 /\ (n + 8) + 8 = n + 16
      OBVIOUS
    <3>2. Recurs(Turns16, 480, 32) /\ Recurs(Turns16, 120, 8)
      BY Turns16Recur
    <3> QED BY <3>1, <3>2 DEF Recurs
  <2>5. /\ n + 64 \in Turns16 <=> ~ (n + 8 \in Turns16 <=> n + 4 \in Turns16)
        /\ n + 32 \in Turns16 <=> ~ (n + 4 \in Turns16 <=> n + 2 \in Turns16)
        /\ n + 16 \in Turns16 <=> ~ (n + 2 \in Turns16 <=> n + 1 \in Turns16)
    <3>1. (n + 4) + 60 = n + 64 /\ (n + 4) + 4 = n + 8 /\ (n + 2) + 30 = n + 32
          /\ (n + 2) + 2 = n + 4 /\ (n + 1) + 15 = n + 16 /\ (n + 1) + 1 = n + 2
      OBVIOUS
    <3>2. Recurs(Turns16, 60, 4) /\ Recurs(Turns16, 30, 2) /\ Recurs(Turns16, 15, 1)
      BY Turns16Recur
    <3> QED BY <3>1, <3>2 DEF Recurs
  <2> QED BY <2>1, <2>2, <2>3, <2>4, <2>5
<1> SUFFICES ASSUME NEW n \in Nat PROVE n + 32767 \in Turns16 <=> n \in Turns16
  BY DEF Periods
<1>2. CASE n > 0
  <2>1. n - 1 \in Nat /\ (n - 1) + 32768 = n + 32767 /\ (n - 1) + 1 = n
    BY <1>2
  <2> QED BY <1>1, <2>1
<1>3. CASE n = 0
  <2>1. 32767 + 15 \in Turns16 <=> ~ (32767 + 1 \in Turns16 <=> 32767 \in Turns16)
    BY Turns16Recurs DEF Recurs
  <2>2. 15 \in Turns16 <=> ~ (1 \in Turns16 <=> 0 \in Turns16)
    BY Turns16Recurs DEF Recurs
  <2>3. (14 + 32768 \in Turns16 <=> 14 + 1 \in Turns16) /\ (0 + 32768 \in Turns16 <=> 0 + 1 \in Turns16)
    BY <1>1
  <2> QED BY <1>3, <2>1, <2>2, <2>3
<1> QED BY <1>2, <1>3

\* None of the numbers that a shorter period would divide is one.
LEMMA Not217 == 217 \notin Periods(Turns16)
<1>0. \A n \in 0..14 : n \in Turns16 <=> n = 14
  BY Turns16Begin
<1>1. 16 \notin Turns16 /\ 18 \notin Turns16 /\ 20 \notin Turns16 /\ 22 \notin Turns16
  <2>1. Recurs(Turns16, 15, 1)
    BY Turns16Recur
  <2> QED BY <2>1, <1>0 DEF Recurs
<1>2. 38 \notin Turns16 /\ 42 \in Turns16 /\ 46 \notin Turns16 /\ 50 \notin Turns16
  <2>1. Recurs(Turns16, 30, 2)
    BY Turns16Recur
  <2> QED BY <2>1, <1>0, <1>1 DEF Recurs
<1>3. 98 \in Turns16 /\ 106 \notin Turns16
  <2>1. Recurs(Turns16, 60, 4)
    BY Turns16Recur
  <2> QED BY <2>1, <1>2 DEF Recurs
<1>4. 218 \in Turns16
  <2>1. Recurs(Turns16, 120, 8)
    BY Turns16Recur
  <2> QED BY <2>1, <1>3 DEF Recurs
<1>5. 1 + 217 \in Turns16 /\ 1 \notin Turns16
  BY <1>0, <1>4
<1> QED BY <1>5 DEF Periods

\* The same of 7 * 151.
LEMMA Not1057 == 1057 \notin Periods(Turns16)
<1>0. \A n \in 0..14 : n \in Turns16 <=> n = 14
  BY Turns16Begin
<1>1. 16 \notin Turns16 /\ 18 \notin Turns16 /\ 24 \notin Turns16 /\ 26 \notin Turns16
  <2>1. Recurs(Turns16, 15, 1)
    BY Turns16Recur
  <2> QED BY <2>1, <1>0 DEF Recurs
<1>2. 42 \in Turns16 /\ 46 \notin Turns16 /\ 54 \notin Turns16
  <2>1. Recurs(Turns16, 30, 2)
    BY Turns16Recur
  <2> QED BY <2>1, <1>0, <1>1 DEF Recurs
<1>3. 102 \in Turns16
  <2>1. Recurs(Turns16, 60, 4)
    BY Turns16Recur
  <2> QED BY <2>1, <1>2 DEF Recurs
<1>4. 166 \notin Turns16
  <2>1. Recurs(Turns16, 120, 8)
    BY Turns16Recur
  <2> QED BY <2>1, <1>2 DEF Recurs
<1>5. 1062 \in Turns16
  <2>1. Recurs(Turns16, 960, 64)
    BY Turns16Recur
  <2> QED BY <2>1, <1>3, <1>4 DEF Recurs
<1>6. 5 + 1057 \in Turns16 /\ 5 \notin Turns16
  BY <1>0, <1>5
<1> QED BY <1>6 DEF Periods

\* And of 31 * 151.
LEMMA Not4681 == 4681 \notin Periods(Turns16)
<1>0. \A n \in 0..14 : n \in Turns16 <=> n = 14
  BY Turns16Begin
<1>1. 15 \notin Turns16 /\ 19 \notin Turns16 /\ 21 \notin Turns16 /\ 23 \notin Turns16 /\ 27 \notin Turns16
  <2>1. Recurs(Turns16, 15, 1)
    BY Turns16Recur
  <2> QED BY <2>1, <1>0 DEF Recurs
<1>2. 29 \in Turns16
  <2>1. Recurs(Turns16, 15, 1)
    BY Turns16Recur
  <2> QED BY <2>1, <1>0, <1>1 DEF Recurs
<1>3. 31 \notin Turns16 /\ 35 \notin Turns16 /\ 43 \notin Turns16 /\ 51 \notin Turns16
  <2>1. Recurs(Turns16, 30, 2)
    BY Turns16Recur
  <2> QED BY <2>1, <1>0, <1>1 DEF Recurs
<1>4. 59 \in Turns16
  <2>1. Recurs(Turns16, 30, 2)
    BY Turns16Recur
  <2> QED BY <2>1, <1>2, <1>3 DEF Recurs
<1>5. 83 \notin Turns16 /\ 91 \notin Turns16
  <2>1. Recurs(Turns16, 60, 4)
    BY Turns16Recur
  <2> QED BY <2>1, <1>1, <1>3 DEF Recurs
<1>6. 123 \notin Turns16 /\ 139 \notin Turns16 /\ 155 \notin Turns16 /\ 171 \in Turns16 /\ 203 \notin Turns16
  <2>1. Recurs(Turns16, 120, 8)
    BY Turns16Recur
  <2> QED BY <2>1, <1>0, <1>1, <1>3, <1>4, <1>5 DEF Recurs
<1>7. 363 \notin Turns16 /\ 395 \in Turns16
  <2>1. Recurs(Turns16, 240, 16)
    BY Turns16Recur
  <2> QED BY <2>1, <1>6 DEF Recurs
<1>8. 843 \in Turns16
  <2>1. Recurs(Turns16, 480, 32)
    BY Turns16Recur
  <2> QED BY <2>1, <1>7 DEF Recurs
<1>9. 1099 \notin Turns16
  <2>1. Recurs(Turns16, 960, 64)
    BY Turns16Recur
  <2> QED BY <2>1, <1>6 DEF Recurs
<1>10. 4683 \in Turns16
  <2>1. Recurs(Turns16, 3840, 256)
    BY Turns16Recur
  <2> QED BY <2>1, <1>8, <1>9 DEF Recurs
<1>11. 2 + 4681 \in Turns16 /\ 2 \notin Turns16
  BY <1>0, <1>10
<1> QED BY <1>11 DEF Periods

\* The traces come back to where they were only after 32767 steps: the bits of a word
\* are those of a maximal sequence.
LEMMA Traces16Distinct ==
  ASSUME NEW k \in Nat, NEW m \in Nat, 0 < m, m < Cycle16
  PROVE  Traces16[k + m] # Traces16[k]
<1> SUFFICES ASSUME Traces16[k + m] = Traces16[k] PROVE FALSE
  OBVIOUS
<1>1. \A n \in Nat : Traces16[n + m] = Traces16[n]
  <2> DEFINE Z == [z \in Bits16 |-> Zeroed(z)]
  <2>1. OneToOne(Bits16, Z)
    <3> SUFFICES ASSUME NEW x \in Bits16, NEW y \in Bits16, Zeroed(x) = Zeroed(y) PROVE x = y
      BY DEF OneToOne
    <3>1. Divided16(x, 0 \in {}) = Zeroed(x) /\ Divided16(y, 0 \in {}) = Zeroed(y)
      BY ZeroComes
    <3>2. (0 \in {}) \in BOOLEAN /\ Divided16(x, 0 \in {}) = Divided16(y, 0 \in {})
      BY <3>1
    <3> QED BY <3>2, Divided16Injective, Zenon
  <2>2. LeadsOn(Traces16, Bits16, Z, {15})
    BY Traces16Orbit
  <2> HIDE DEF Z
  <2>3. Repeats(Traces16, m, k)
    BY DEF Repeats
  <2>4. \A n \in Nat : Repeats(Traces16, m, n)
    BY <2>1, <2>2, <2>3, LeadsRound
  <2> QED BY <2>4 DEF Repeats
<1>2. m \in Periods(Turns16)
  <2> SUFFICES ASSUME NEW n \in Nat PROVE n + m \in Turns16 <=> n \in Turns16
    BY DEF Periods
  <2>1. n + m \in Nat /\ n + 1 \in Nat /\ (n + m) + 1 = (n + 1) + m
    OBVIOUS
  <2> QED BY <1>1, <2>1 DEF Turns16
<1>3. PICK o \in Periods(Turns16), q \in Nat : 0 < o /\ o < Cycle16 /\ Cycle16 = o * q
  <2>1. Cycle16 \in Periods(Turns16)
    BY Turns16Period DEF Cycle16
  <2> QED BY <1>2, <2>1, LeastPeriod, Zenon
<1>4. PICK c \in Nat : o * c \in Parts16
  <2>1. o \in Nat
    BY DEF Periods
  <2> QED BY <1>3, <2>1, Divisors16, Zenon
<1>5. o * c \in Periods(Turns16)
  BY PeriodsMultiply
<1> QED BY <1>4, <1>5, Not217, Not1057, Not4681 DEF Parts16

\* 2^8 - 1 is 3 * 5 * 17.
Cycle8 == 255
Parts8 == {15, 51, 85}

\* What divides 255, and is not all of it, divides one of these products of two.
LEMMA Divisors8 ==
  ASSUME NEW o \in Nat, NEW q \in Nat, Cycle8 = o * q, o < Cycle8
  PROVE  \E c \in Nat : o * c \in Parts8
<1> USE DEF Cycle8, Parts8
<1>1. o >= 1 /\ q >= 2
  <2>1. o # 0 /\ q # 0 /\ q # 1
    OBVIOUS
  <2> QED BY <2>1
<1>2. CASE o >= 16 /\ q >= 16
  <2>1. o * q >= 16 * 16
    BY <1>2
  <2> QED BY <2>1
<1>3. CASE o \in 1..15
  <2>1. o \in {1, 3, 5, 15}
    BY <1>3
  <2>2. o * 15 = 15 \/ o * 5 = 15 \/ o * 3 = 15 \/ o * 1 = 15
    BY <2>1
  <2> QED BY <2>2
<1>4. CASE q \in 2..15
  <2>1. o = 85 \/ o = 51 \/ o = 17
    BY <1>4
  <2>2. o * 1 = 85 \/ o * 1 = 51 \/ o * 3 = 51
    BY <2>1
  <2> QED BY <2>2
<1> QED BY <1>1, <1>2, <1>3, <1>4

\* What zeros make of the lowest bit of a register of getCrc8, and when it is at the top.
Traces8 == Orbit(Bits8, [z \in Bits8 |-> Crc8Shifted(z)], {0})
Top8    == {n \in Nat : 7 \in Traces8[n]}

\* The traces are a sequence of bytes.
LEMMA Traces8Orbit ==
  LeadsOn(Traces8, Bits8, [z \in Bits8 |-> Crc8Shifted(z)], {0})
<1> DEFINE Z == [z \in Bits8 |-> Crc8Shifted(z)]
<1>1. Z \in [Bits8 -> Bits8] /\ {0} \in Bits8
  BY Crc8ShiftedType DEF Bits8, Bit8
<1> HIDE DEF Z
<1>2. LeadsOn(Orbit(Bits8, Z, {0}), Bits8, Z, {0})
  BY <1>1, OrbitSteps
<1> QED BY <1>2 DEF Traces8, Z

\* The same, to be cited.
LEMMA Traces8Steps ==
  /\ Traces8 \in [Nat -> Bits8] /\ Traces8[0] = {0}
  /\ \A n \in Nat : Traces8[n + 1] = Crc8Shifted(Traces8[n])
BY Traces8Orbit DEF LeadsOn

\* The bits of the traces, each from the step before.
LEMMA Traces8Bits ==
  ASSUME NEW n \in Nat
  PROVE  /\ 0 \in Traces8[n + 1] <=> 7 \in Traces8[n]
         /\ \A i \in {2, 3, 4} : i \in Traces8[n + 1] <=> ~ (i - 1 \in Traces8[n] <=> 7 \in Traces8[n])
         /\ \A i \in {1, 5, 6, 7} : i \in Traces8[n + 1] <=> i - 1 \in Traces8[n]
<1> DEFINE z == Traces8[n]
<1>1. z \in Bits8 /\ Traces8[n + 1] = Crc8Shifted(z)
  BY Traces8Steps
<1> HIDE DEF z
<1>2. \A i : i \in Up(z) <=> i \in 1..7 /\ i - 1 \in z
  BY <1>1 DEF Up, Bits8, Bit8
<1>3. CASE 7 \in z
  <2>1. \A i : i \in Crc8Shifted(z) <=> ~ (i \in Up(z) <=> i \in Generator8)
    BY <1>3 DEF Crc8Shifted, SymDiff
  <2> QED BY <1>1, <1>2, <1>3, <2>1 DEF z, Generator8
<1>4. CASE 7 \notin z
  <2>1. Crc8Shifted(z) = Up(z)
    BY <1>4 DEF Crc8Shifted
  <2> QED BY <1>1, <1>2, <1>4, <2>1 DEF z
<1> QED BY <1>3, <1>4

\* x^8 is x^4 + x^3 + x^2 + 1.
LEMMA Top8Recurs ==
  ASSUME NEW n \in Nat
  PROVE  n + 8 \in Top8 <=> ~ ((n \in Top8 <=> n + 2 \in Top8) <=> (n + 3 \in Top8 <=> n + 4 \in Top8))
<1>1. ASSUME NEW i \in 0..7
      PROVE  /\ 0 \in Traces8[n + (i + 1)] <=> 7 \in Traces8[n + i]
             /\ \A k \in {2, 3, 4} : k \in Traces8[n + (i + 1)] <=> ~ (k - 1 \in Traces8[n + i] <=> 7 \in Traces8[n + i])
             /\ \A k \in {1, 5, 6, 7} : k \in Traces8[n + (i + 1)] <=> k - 1 \in Traces8[n + i]
  <2>1. n + i \in Nat /\ (n + i) + 1 = n + (i + 1)
    OBVIOUS
  <2> QED BY <2>1, Traces8Bits
<1>2. 0 \in Traces8[n + 1] <=> 7 \in Traces8[n]
  BY <1>1
<1>3. 1 \in Traces8[n + 2] <=> 0 \in Traces8[n + 1]
  BY <1>1
<1>4. 2 \in Traces8[n + 3] <=> ~ (1 \in Traces8[n + 2] <=> 7 \in Traces8[n + 2])
  BY <1>1
<1>5. 3 \in Traces8[n + 4] <=> ~ (2 \in Traces8[n + 3] <=> 7 \in Traces8[n + 3])
  BY <1>1
<1>6. 4 \in Traces8[n + 5] <=> ~ (3 \in Traces8[n + 4] <=> 7 \in Traces8[n + 4])
  BY <1>1
<1>7. 5 \in Traces8[n + 6] <=> 4 \in Traces8[n + 5]
  BY <1>1
<1>8. 6 \in Traces8[n + 7] <=> 5 \in Traces8[n + 6]
  BY <1>1
<1>9. 7 \in Traces8[n + 8] <=> 6 \in Traces8[n + 7]
  BY <1>1
<1>10. \A i \in Nat : i \in Top8 <=> 7 \in Traces8[i]
  BY DEF Top8
<1>11. n + 2 \in Nat /\ n + 3 \in Nat /\ n + 4 \in Nat /\ n + 8 \in Nat
  OBVIOUS
<1> QED BY <1>2, <1>3, <1>4, <1>5, <1>6, <1>7, <1>8, <1>9, <1>10, <1>11

\* The same of places twice as far apart.
LEMMA Top8RecursTwice ==
  ASSUME NEW n \in Nat
  PROVE  n + 16 \in Top8 <=> ~ ((n \in Top8 <=> n + 4 \in Top8) <=> (n + 6 \in Top8 <=> n + 8 \in Top8))
<1> DEFINE Sum(k) == k + 8 \in Top8 <=> ~ ((k \in Top8 <=> k + 2 \in Top8) <=> (k + 3 \in Top8 <=> k + 4 \in Top8))
<1>1. \A k \in Nat : Sum(k)
  BY Top8Recurs
<1> HIDE DEF Sum
<1>2. Sum(n) /\ Sum(n + 2) /\ Sum(n + 3) /\ Sum(n + 4) /\ Sum(n + 8)
  <2>1. n + 2 \in Nat /\ n + 3 \in Nat /\ n + 4 \in Nat /\ n + 8 \in Nat
    OBVIOUS
  <2> QED BY <1>1, <2>1
<1>3. /\ (n + 2) + 8 = n + 10 /\ (n + 3) + 8 = n + 11 /\ (n + 4) + 8 = n + 12 /\ (n + 8) + 8 = n + 16
      /\ (n + 2) + 2 = n + 4 /\ (n + 2) + 3 = n + 5 /\ (n + 2) + 4 = n + 6
      /\ (n + 3) + 2 = n + 5 /\ (n + 3) + 3 = n + 6 /\ (n + 3) + 4 = n + 7
      /\ (n + 4) + 2 = n + 6 /\ (n + 4) + 3 = n + 7 /\ (n + 4) + 4 = n + 8
      /\ (n + 8) + 2 = n + 10 /\ (n + 8) + 3 = n + 11 /\ (n + 8) + 4 = n + 12
  OBVIOUS
<1> QED BY <1>2, <1>3 DEF Sum

\* x^25 is x + 1, which is also x + x^5 + x^7 + x^13 + x^15.
LEMMA Top8Recur25 ==
  /\ Recurs(Top8, 25, 1)
  /\ \A n \in Nat : n \in Top8 <=> ~ ((n + 5 \in Top8 <=> n + 7 \in Top8) <=> (n + 13 \in Top8 <=> n + 15 \in Top8))
<1> SUFFICES ASSUME NEW n \in Nat
             PROVE  /\ n + 25 \in Top8 <=> ~ (n + 1 \in Top8 <=> n \in Top8)
                    /\ n \in Top8 <=> ~ ((n + 5 \in Top8 <=> n + 7 \in Top8) <=> (n + 13 \in Top8 <=> n + 15 \in Top8))
  BY DEF Recurs
<1> DEFINE Sum(k) == k + 8 \in Top8 <=> ~ ((k \in Top8 <=> k + 2 \in Top8) <=> (k + 3 \in Top8 <=> k + 4 \in Top8))
           Twice(k) == k + 16 \in Top8 <=> ~ ((k \in Top8 <=> k + 4 \in Top8) <=> (k + 6 \in Top8 <=> k + 8 \in Top8))
<1>1. (\A k \in Nat : Sum(k)) /\ \A k \in Nat : Twice(k)
  BY Top8Recurs, Top8RecursTwice
<1> HIDE DEF Sum, Twice
<1>2. Sum(n) /\ Sum(n + 2) /\ Sum(n + 3) /\ Sum(n + 5) /\ Sum(n + 7) /\ Twice(n + 1) /\ Twice(n + 9)
  <2>1. /\ n + 1 \in Nat /\ n + 2 \in Nat /\ n + 3 \in Nat /\ n + 5 \in Nat /\ n + 7 \in Nat
        /\ n + 9 \in Nat
    OBVIOUS
  <2> QED BY <1>1, <2>1
<1>3. /\ n + 15 \in Top8 <=> ~ ((n + 7 \in Top8 <=> n + 9 \in Top8) <=> (n + 10 \in Top8 <=> n + 11 \in Top8))
      /\ n + 13 \in Top8 <=> ~ ((n + 5 \in Top8 <=> n + 7 \in Top8) <=> (n + 8 \in Top8 <=> n + 9 \in Top8))
  <2>1. /\ (n + 7) + 8 = n + 15 /\ (n + 7) + 2 = n + 9 /\ (n + 7) + 3 = n + 10 /\ (n + 7) + 4 = n + 11
        /\ (n + 5) + 8 = n + 13 /\ (n + 5) + 2 = n + 7 /\ (n + 5) + 3 = n + 8 /\ (n + 5) + 4 = n + 9
    OBVIOUS
  <2> QED BY <1>2, <2>1 DEF Sum
<1>4. /\ n + 11 \in Top8 <=> ~ ((n + 3 \in Top8 <=> n + 5 \in Top8) <=> (n + 6 \in Top8 <=> n + 7 \in Top8))
      /\ n + 10 \in Top8 <=> ~ ((n + 2 \in Top8 <=> n + 4 \in Top8) <=> (n + 5 \in Top8 <=> n + 6 \in Top8))
      /\ n + 8 \in Top8 <=> ~ ((n \in Top8 <=> n + 2 \in Top8) <=> (n + 3 \in Top8 <=> n + 4 \in Top8))
  <2>1. /\ (n + 3) + 8 = n + 11 /\ (n + 3) + 2 = n + 5 /\ (n + 3) + 3 = n + 6 /\ (n + 3) + 4 = n + 7
        /\ (n + 2) + 8 = n + 10 /\ (n + 2) + 2 = n + 4 /\ (n + 2) + 3 = n + 5 /\ (n + 2) + 4 = n + 6
    OBVIOUS
  <2> QED BY <1>2, <2>1 DEF Sum
<1>5. /\ n + 25 \in Top8 <=> ~ ((n + 9 \in Top8 <=> n + 13 \in Top8) <=> (n + 15 \in Top8 <=> n + 17 \in Top8))
      /\ n + 17 \in Top8 <=> ~ ((n + 1 \in Top8 <=> n + 5 \in Top8) <=> (n + 7 \in Top8 <=> n + 9 \in Top8))
  <2>1. /\ (n + 9) + 16 = n + 25 /\ (n + 9) + 4 = n + 13 /\ (n + 9) + 6 = n + 15 /\ (n + 9) + 8 = n + 17
        /\ (n + 1) + 16 = n + 17 /\ (n + 1) + 4 = n + 5 /\ (n + 1) + 6 = n + 7 /\ (n + 1) + 8 = n + 9
    OBVIOUS
  <2> QED BY <1>2, <2>1 DEF Twice
<1> HIDE DEF Sum, Twice
<1> QED BY <1>3, <1>4, <1>5

\* x^255 is 1.
LEMMA Top8Period == 255 \in Periods(Top8) /\ Recurs(Top8, 50, 2)
<1>1. \A s, a \in Nat : Recurs(Top8, s, a) => Recurs(Top8, 2 * s, 2 * a)
  BY RecursTwice
<1>2. Recurs(Top8, 50, 2) /\ Recurs(Top8, 100, 4) /\ Recurs(Top8, 200, 8)
  BY <1>1, Top8Recur25
<1> SUFFICES ASSUME NEW n \in Nat PROVE n + 255 \in Top8 <=> n \in Top8
  BY <1>2 DEF Periods
<1>3. n + 255 \in Top8 <=> ~ (n + 63 \in Top8 <=> n + 55 \in Top8)
  <2>1. (n + 55) + 200 = n + 255 /\ (n + 55) + 8 = n + 63 /\ n + 55 \in Nat
    OBVIOUS
  <2>2. (n + 55) + 200 \in Top8 <=> ~ ((n + 55) + 8 \in Top8 <=> n + 55 \in Top8)
    BY <1>2, <2>1 DEF Recurs
  <2> QED BY <2>1, <2>2
<1>4. /\ n + 63 \in Top8 <=> ~ (n + 15 \in Top8 <=> n + 13 \in Top8)
      /\ n + 55 \in Top8 <=> ~ (n + 7 \in Top8 <=> n + 5 \in Top8)
  <2>1. (n + 13) + 50 = n + 63 /\ (n + 13) + 2 = n + 15 /\ n + 13 \in Nat
        /\ (n + 5) + 50 = n + 55 /\ (n + 5) + 2 = n + 7 /\ n + 5 \in Nat
    OBVIOUS
  <2>2. /\ (n + 13) + 50 \in Top8 <=> ~ ((n + 13) + 2 \in Top8 <=> n + 13 \in Top8)
        /\ (n + 5) + 50 \in Top8 <=> ~ ((n + 5) + 2 \in Top8 <=> n + 5 \in Top8)
    BY <1>2, <2>1 DEF Recurs
  <2> QED BY <2>1, <2>2
<1> QED BY <1>3, <1>4, Top8Recur25

\* The bit reaches the top after seven steps.
LEMMA Traces8Begin ==
  /\ \A n \in 0..7 : Traces8[n] = {n}
  /\ Traces8[8] = Generator8
<1> DEFINE S == {n \in 0..7 : Traces8[n] = {n}}
<1>1. 0 \in S
  BY Traces8Steps
<1>2. \A n \in 1..7 : n - 1 \in S => n \in S
  <2> SUFFICES ASSUME NEW n \in 1..7, n - 1 \in S PROVE Traces8[n] = {n}
    OBVIOUS
  <2>1. n - 1 \in Nat /\ (n - 1) + 1 = n /\ Traces8[n - 1] = {n - 1}
    OBVIOUS
  <2>2. Traces8[n] = Crc8Shifted({n - 1})
    BY <2>1, Traces8Steps
  <2>3. 7 \notin {n - 1} /\ Up({n - 1}) = {n}
    BY DEF Up
  <2> QED BY <2>2, <2>3 DEF Crc8Shifted
<1> HIDE DEF S
<1>3. 0..7 \subseteq S
  BY <1>1, <1>2, UpTo
<1>4. \A n \in 0..7 : Traces8[n] = {n}
  BY <1>3 DEF S
<1>5. Traces8[8] = Generator8
  <2>1. 7 \in Nat /\ 7 + 1 = 8 /\ Traces8[7] = {7}
    BY <1>4
  <2>2. Traces8[8] = Crc8Shifted({7})
    BY <2>1, Traces8Steps
  <2>3. Crc8Shifted({7}) = SymDiff(Up({7}), Generator8) /\ Up({7}) = {}
    BY DEF Crc8Shifted, Up
  <2> QED BY <2>2, <2>3 DEF SymDiff
<1> QED BY <1>4, <1>5

\* The first eight.
LEMMA Top8Begin == \A n \in 0..7 : n \in Top8 <=> n = 7
<1> SUFFICES ASSUME NEW n \in 0..7 PROVE n \in Top8 <=> n = 7
  OBVIOUS
<1>1. Traces8[n] = {n}
  BY Traces8Begin
<1> QED BY <1>1 DEF Top8

\* None of the numbers that a shorter period would divide is one.
LEMMA NotParts8 == \A c \in Parts8 : c \notin Periods(Top8)
<1>1. \A n \in 0..7 : n \in Top8 <=> n = 7
  BY Top8Begin
<1>2. \A n \in Nat : n + 8 \in Top8 <=> ~ ((n \in Top8 <=> n + 2 \in Top8) <=> (n + 3 \in Top8 <=> n + 4 \in Top8))
  BY Top8Recurs
<1>3. 8 \notin Top8 /\ 9 \notin Top8 /\ 10 \notin Top8 /\ 11 \in Top8
  BY <1>1, <1>2
<1>4. 12 \in Top8 /\ 13 \in Top8 /\ 14 \notin Top8 /\ 15 \notin Top8
  BY <1>1, <1>2, <1>3
<1>5. 17 \in Top8
  BY <1>1, <1>2, <1>3, <1>4
<1>6. 15 \notin Periods(Top8)
  <2>1. 2 + 15 \in Top8 /\ 2 \notin Top8
    BY <1>1, <1>5
  <2> QED BY <2>1 DEF Periods
<1>7. 51 \notin Periods(Top8)
  <2>1. Recurs(Top8, 50, 2)
    BY Top8Period
  <2>2. 4 + 51 \in Top8 /\ 4 \notin Top8
    BY <1>1, <2>1 DEF Recurs
  <2> QED BY <2>2 DEF Periods
<1>8. 85 \notin Periods(Top8)
  <2>1. Recurs(Top8, 50, 2) /\ Recurs(Top8, 25, 1)
    BY Top8Period, Top8Recur25
  <2>2. 37 \notin Top8 /\ 35 \in Top8
    BY <1>3, <1>4, <2>1 DEF Recurs
  <2>3. 0 + 85 \in Top8 /\ 0 \notin Top8
    BY <1>1, <2>1, <2>2 DEF Recurs
  <2> QED BY <2>3 DEF Periods
<1> QED BY <1>6, <1>7, <1>8 DEF Parts8

\* The traces come back to where they were only after 255 steps: 0x11D is primitive.
LEMMA Traces8Distinct ==
  ASSUME NEW k \in Nat, NEW m \in Nat, 0 < m, m < Cycle8
  PROVE  Traces8[k + m] # Traces8[k]
<1> SUFFICES ASSUME Traces8[k + m] = Traces8[k] PROVE FALSE
  OBVIOUS
<1>1. \A n \in Nat : Traces8[n + m] = Traces8[n]
  <2> DEFINE Z == [z \in Bits8 |-> Crc8Shifted(z)]
  <2>1. OneToOne(Bits8, Z)
    BY Divided8Injective DEF OneToOne
  <2>2. LeadsOn(Traces8, Bits8, Z, {0})
    BY Traces8Orbit
  <2> HIDE DEF Z
  <2>3. Repeats(Traces8, m, k)
    BY DEF Repeats
  <2>4. \A n \in Nat : Repeats(Traces8, m, n)
    BY <2>1, <2>2, <2>3, LeadsRound
  <2> QED BY <2>4 DEF Repeats
<1>2. m \in Periods(Top8)
  BY <1>1 DEF Periods, Top8
<1>3. PICK o \in Periods(Top8), q \in Nat : 0 < o /\ o < Cycle8 /\ Cycle8 = o * q
  <2>1. Cycle8 \in Periods(Top8)
    BY Top8Period DEF Cycle8
  <2> QED BY <1>2, <2>1, LeastPeriod, Zenon
<1>4. PICK c \in Nat : o * c \in Parts8
  <2>1. o \in Nat
    BY DEF Periods
  <2> QED BY <1>3, <2>1, Divisors8, Zenon
<1>5. o * c \in Periods(Top8)
  BY PeriodsMultiply
<1> QED BY <1>4, <1>5, NotParts8

-----------------------------------------------------------------------------
(* Two altered bits.                                                       *)

\* Bytes that differ in bit i only.
OneBitOff(x, y, i) == \A j : (j \in x <=> j \in y) <=> j # i

\* The steps through which the bits of a byte come.
Bytewise16(u) == [j \in 1..8 |-> [x \in Bits16 |-> Divided16(x, j - 1 \in u)]]
Bytewise8(u)  == [j \in 1..8 |-> [x \in Bits8 |-> Divided8(x, 8 - j \in u)]]

\* Where two bytes have the same bit the steps agree, elsewhere they do not.
LEMMA Bytewise16Steps ==
  ASSUME NEW u \in Bits8, NEW v \in Bits8, NEW j \in 1..8
  PROVE  /\ Bytewise16(u) \in Steps(Bits16, 8) /\ All(Bits16, Bytewise16(u)) = Through16(u)
         /\ (j - 1 \in u <=> j - 1 \in v) => Agree(Bits16, Traces16, Bytewise16(u)[j], Bytewise16(v)[j])
         /\ (j - 1 \in u <=> j - 1 \notin v) => Disagree(Bits16, Traces16, 16, Bytewise16(u)[j], Bytewise16(v)[j])
<1> DEFINE Z == [z \in Bits16 |-> Zeroed(z)]
           g == Bytewise16(u)[j]
           h == Bytewise16(v)[j]
<1>1. Bytewise16(u) \in Steps(Bits16, 8)
  <2>1. \A i : \A x \in Bits16 : Divided16(x, i \in u) \in Bits16
    BY Divided16Both
  <2> QED BY <2>1 DEF Bytewise16, Steps
<1>2. All(Bits16, Bytewise16(u)) = Through16(u)
  BY DEF All, Bytewise16, Through16
<1>3. \A d \in Nat : Traces16[d + 1] = Z[Traces16[d]]
  BY Traces16Steps
<1>4. Z[{}] = {}
  <2>1. {} \in Bits16 /\ Down({}) = {}
    BY DEF Bits16, Down
  <2> QED BY <2>1 DEF Zeroed
<1>5. ASSUME NEW x \in Bits16, NEW y \in Bits16
      PROVE  /\ SymDiff(x, y) \in Bits16 /\ Z[SymDiff(x, y)] = Zeroed(SymDiff(x, y))
             /\ g[x] = Divided16(x, j - 1 \in u) /\ h[y] = Divided16(y, j - 1 \in v)
             /\ g[x] \in Bits16 /\ h[y] \in Bits16
  BY Divided16Both DEF Bytewise16
<1>6. ASSUME NEW x \in Bits16, NEW y \in Bits16, Z[SymDiff(x, y)] = {} PROVE SymDiff(x, y) = {}
  <2> DEFINE d == SymDiff(x, y)
  <2>1. {} \in Bits16 /\ d \in Bits16 /\ Zeroed(d) = Zeroed({})
    BY <1>4, <1>5, <1>6 DEF Bits16
  <2> HIDE DEF d
  <2>2. Divided16(d, 0 \in {}) = Divided16({}, 0 \in {}) /\ (0 \in {}) \in BOOLEAN
    BY <2>1, ZeroComes
  <2>3. d = {}
    BY <2>1, <2>2, Divided16Injective, Zenon
  <2> QED BY <2>3 DEF d
<1> HIDE DEF Z, g, h
<1>7. CASE j - 1 \in u <=> j - 1 \in v
  <2>1. \A x, y \in Bits16 : /\ g[x] \in Bits16 /\ h[y] \in Bits16
                             /\ SymDiff(g[x], h[y]) = Z[SymDiff(x, y)]
    BY <1>5, <1>7, Divided16Both
  <2>2. Agree(Bits16, Traces16, g, h)
    BY <1>3, <1>4, <1>6, <2>1, StepsAgree
  <2> QED BY <1>1, <1>2, <1>7, <2>2 DEF g, h
<1>8. CASE j - 1 \in u <=> j - 1 \notin v
  <2>1. \A x, y \in Bits16 : /\ g[x] \in Bits16 /\ h[y] \in Bits16
                             /\ SymDiff(g[x], h[y]) = SymDiff(Z[SymDiff(x, y)], Traces16[16])
    BY <1>5, <1>8, Divided16Both, Traces16Begin
  <2>2. Disagree(Bits16, Traces16, 16, g, h)
    BY <1>3, <1>4, <2>1, StepsDisagree
  <2> QED BY <1>1, <1>2, <1>8, <2>2 DEF g, h
<1> QED BY <1>7, <1>8

\* The same of the registers of one byte.
LEMMA Bytewise8Steps ==
  ASSUME NEW u \in Bits8, NEW v \in Bits8, NEW j \in 1..8
  PROVE  /\ Bytewise8(u) \in Steps(Bits8, 8) /\ All(Bits8, Bytewise8(u)) = Through8(u)
         /\ (8 - j \in u <=> 8 - j \in v) => Agree(Bits8, Traces8, Bytewise8(u)[j], Bytewise8(v)[j])
         /\ (8 - j \in u <=> 8 - j \notin v) => Disagree(Bits8, Traces8, 8, Bytewise8(u)[j], Bytewise8(v)[j])
<1> DEFINE Z == [z \in Bits8 |-> Crc8Shifted(z)]
           g == Bytewise8(u)[j]
           h == Bytewise8(v)[j]
<1>1. Bytewise8(u) \in Steps(Bits8, 8)
  <2>1. \A i : \A x \in Bits8 : Divided8(x, i \in u) \in Bits8
    BY Divided8Both
  <2> QED BY <2>1 DEF Bytewise8, Steps
<1>2. All(Bits8, Bytewise8(u)) = Through8(u)
  BY DEF All, Bytewise8, Through8
<1>3. \A d \in Nat : Traces8[d + 1] = Z[Traces8[d]]
  BY Traces8Steps
<1>4. Z[{}] = {}
  <2>1. {} \in Bits8 /\ Up({}) = {}
    BY DEF Bits8, Up
  <2> QED BY <2>1 DEF Crc8Shifted
<1>5. ASSUME NEW x \in Bits8, NEW y \in Bits8
      PROVE  /\ SymDiff(x, y) \in Bits8 /\ Z[SymDiff(x, y)] = Crc8Shifted(SymDiff(x, y))
             /\ g[x] = Divided8(x, 8 - j \in u) /\ h[y] = Divided8(y, 8 - j \in v)
             /\ g[x] \in Bits8 /\ h[y] \in Bits8
  <2>1. \A i, w : Divided8(x, i \in w) \in Bits8 /\ Divided8(y, i \in w) \in Bits8
    BY Divided8Both
  <2> QED BY <2>1, XorType8 DEF Bytewise8
<1>6. ASSUME NEW x \in Bits8, NEW y \in Bits8, Z[SymDiff(x, y)] = {} PROVE SymDiff(x, y) = {}
  <2>1. {} \in Bits8 /\ Crc8Shifted(SymDiff(x, y)) = Crc8Shifted({})
    BY <1>4, <1>5, <1>6 DEF Bits8
  <2> QED BY <1>5, <2>1, Divided8Injective
<1> HIDE DEF Z, g, h
<1>7. CASE 8 - j \in u <=> 8 - j \in v
  <2>1. \A x, y \in Bits8 : /\ g[x] \in Bits8 /\ h[y] \in Bits8
                            /\ SymDiff(g[x], h[y]) = Z[SymDiff(x, y)]
    BY <1>5, <1>7, Divided8Both
  <2>2. Agree(Bits8, Traces8, g, h)
    BY <1>3, <1>4, <1>6, <2>1, StepsAgree
  <2> QED BY <1>1, <1>2, <1>7, <2>2 DEF g, h
<1>8. CASE 8 - j \in u <=> 8 - j \notin v
  <2>1. \A x, y \in Bits8 : /\ g[x] \in Bits8 /\ h[y] \in Bits8
                            /\ SymDiff(g[x], h[y]) = SymDiff(Z[SymDiff(x, y)], Traces8[8])
    BY <1>5, <1>8, Divided8Both, Traces8Begin
  <2>2. Disagree(Bits8, Traces8, 8, g, h)
    BY <1>3, <1>4, <2>1, StepsDisagree
  <2> QED BY <1>1, <1>2, <1>8, <2>2 DEF g, h
<1> QED BY <1>7, <1>8

\* Bytes of which two differ in a bit each, which are less than 32767 bits apart.
LEMMA TwoBits16 ==
  ASSUME NEW N \in Nat, NEW a \in [1..N -> Bits8], NEW b \in [1..N -> Bits8],
         NEW p \in 1..N, NEW q \in 1..N, p < q, 8 * (q - p) + 7 < Cycle16,
         NEW i \in Bit8, NEW k \in Bit8,
         OneBitOff(a[p], b[p], i), OneBitOff(a[q], b[q], k),
         \A n \in 1..N \ {p, q} : a[n] = b[n], NEW r \in Bits16
  PROVE  After([n \in 1..N |-> Through16(a[n])], r) # After([n \in 1..N |-> Through16(b[n])], r)
<1> DEFINE G == [n \in 1..N |-> Bytewise16(a[n])]
           H == [n \in 1..N |-> Bytewise16(b[n])]
           s == i + 1
           t == k + 1
           m == (8 * (q - p) + t) - s
<1>1. s \in 1..8 /\ t \in 1..8 /\ m \in Nat /\ 0 < m /\ m <= 8 * (q - p) + 7
  BY DEF Bit8
<1>2. m < Cycle16
  BY <1>1 DEF Cycle16
<1>3. \A j \in 1..8 : (j - 1 \in a[p] <=> j - 1 \in b[p]) <=> j # s
  <2>1. \A j : (j \in a[p] <=> j \in b[p]) <=> j # i
    BY DEF OneBitOff
  <2>2. \A j \in 1..8 : j - 1 # i <=> j # s
    BY DEF Bit8
  <2> QED BY <2>1, <2>2
<1>4. \A j \in 1..8 : (j - 1 \in a[q] <=> j - 1 \in b[q]) <=> j # t
  <2>1. \A j : (j \in a[q] <=> j \in b[q]) <=> j # k
    BY DEF OneBitOff
  <2>2. \A j \in 1..8 : j - 1 # k <=> j # t
    BY DEF Bit8
  <2> QED BY <2>1, <2>2
<1> HIDE DEF s, t
<1>5. ASSUME NEW n \in 1..N, NEW j \in 1..8
      PROVE  /\ G[n] \in Steps(Bits16, 8) /\ All(Bits16, G[n]) = Through16(a[n])
             /\ H[n] \in Steps(Bits16, 8) /\ All(Bits16, H[n]) = Through16(b[n])
             /\ (j - 1 \in a[n] <=> j - 1 \in b[n]) => Agree(Bits16, Traces16, G[n][j], H[n][j])
             /\ (j - 1 \in a[n] <=> j - 1 \notin b[n]) => Disagree(Bits16, Traces16, 16, G[n][j], H[n][j])
  <2>1. a[n] \in Bits8 /\ b[n] \in Bits8 /\ G[n] = Bytewise16(a[n]) /\ H[n] = Bytewise16(b[n])
    OBVIOUS
  <2> QED BY <2>1, Bytewise16Steps
<1>6. G \in [1..N -> Steps(Bits16, 8)] /\ H \in [1..N -> Steps(Bits16, 8)]
  <2>1. \A n \in 1..N : Bytewise16(a[n]) \in Steps(Bits16, 8) /\ Bytewise16(b[n]) \in Steps(Bits16, 8)
    <3>1. 1 \in 1..8
      OBVIOUS
    <3> QED BY <3>1, Bytewise16Steps
  <2> QED BY <2>1
<1> HIDE DEF G, H
<1>7. \A n \in 1..N, j \in 1..8 : <<n, j>> \notin {<<p, s>>, <<q, t>>} => Agree(Bits16, Traces16, G[n][j], H[n][j])
  <2> SUFFICES ASSUME NEW n \in 1..N, NEW j \in 1..8, <<n, j>> \notin {<<p, s>>, <<q, t>>}
               PROVE  j - 1 \in a[n] <=> j - 1 \in b[n]
    BY <1>5
  <2>1. CASE n = p
    BY <1>3, <2>1
  <2>2. CASE n = q
    BY <1>4, <2>2
  <2>3. CASE n \notin {p, q}
    BY <2>3
  <2> QED BY <2>1, <2>2, <2>3
<1>8. Disagree(Bits16, Traces16, 16, G[p][s], H[p][s])
  BY <1>1, <1>3, <1>5
<1>9. Disagree(Bits16, Traces16, 16, G[q][t], H[q][t])
  BY <1>1, <1>4, <1>5
<1>10. Traces16[16 + m] # Traces16[16]
  <2>1. 16 \in Nat
    OBVIOUS
  <2> QED BY <1>1, <1>2, <2>1, Traces16Distinct
<1>11. TwoOff(Bits16, Traces16, 16, N, G, H, p, s, q, t)
  BY <1>1, <1>6, <1>7, <1>8, <1>9 DEF TwoOff
<1> HIDE DEF m
<1>12. m = (8 * (q - p) + t) - s
  BY DEF m
<1>13. After(Bytes(Bits16, N, G), r) # After(Bytes(Bits16, N, H), r)
  BY <1>10, <1>11, <1>12, MessageStaysApart
<1>14. /\ Bytes(Bits16, N, G) = [n \in 1..N |-> Through16(a[n])]
       /\ Bytes(Bits16, N, H) = [n \in 1..N |-> Through16(b[n])]
  <2>1. 1 \in 1..8
    OBVIOUS
  <2> QED BY <1>5, <2>1 DEF Bytes
<1> QED BY <1>13, <1>14

\* Bytes of which two differ in a bit each, which are less than 255 bits apart.
LEMMA TwoBits8 ==
  ASSUME NEW N \in Nat, NEW a \in [1..N -> Bits8], NEW b \in [1..N -> Bits8],
         NEW p \in 1..N, NEW q \in 1..N, p < q, 8 * (q - p) + 7 < Cycle8,
         NEW i \in Bit8, NEW k \in Bit8,
         OneBitOff(a[p], b[p], i), OneBitOff(a[q], b[q], k),
         \A n \in 1..N \ {p, q} : a[n] = b[n], NEW r \in Bits8
  PROVE  After([n \in 1..N |-> Through8(a[n])], r) # After([n \in 1..N |-> Through8(b[n])], r)
<1> DEFINE G == [n \in 1..N |-> Bytewise8(a[n])]
           H == [n \in 1..N |-> Bytewise8(b[n])]
           s == 8 - i
           t == 8 - k
           m == (8 * (q - p) + t) - s
<1>1. s \in 1..8 /\ t \in 1..8 /\ m \in Nat /\ 0 < m /\ m <= 8 * (q - p) + 7
  BY DEF Bit8
<1>2. m < Cycle8
  BY <1>1 DEF Cycle8
<1>3. \A j \in 1..8 : (8 - j \in a[p] <=> 8 - j \in b[p]) <=> j # s
  <2>1. \A j : (j \in a[p] <=> j \in b[p]) <=> j # i
    BY DEF OneBitOff
  <2>2. \A j \in 1..8 : 8 - j # i <=> j # s
    BY DEF Bit8
  <2> QED BY <2>1, <2>2
<1>4. \A j \in 1..8 : (8 - j \in a[q] <=> 8 - j \in b[q]) <=> j # t
  <2>1. \A j : (j \in a[q] <=> j \in b[q]) <=> j # k
    BY DEF OneBitOff
  <2>2. \A j \in 1..8 : 8 - j # k <=> j # t
    BY DEF Bit8
  <2> QED BY <2>1, <2>2
<1> HIDE DEF s, t
<1>5. ASSUME NEW n \in 1..N, NEW j \in 1..8
      PROVE  /\ G[n] \in Steps(Bits8, 8) /\ All(Bits8, G[n]) = Through8(a[n])
             /\ H[n] \in Steps(Bits8, 8) /\ All(Bits8, H[n]) = Through8(b[n])
             /\ (8 - j \in a[n] <=> 8 - j \in b[n]) => Agree(Bits8, Traces8, G[n][j], H[n][j])
             /\ (8 - j \in a[n] <=> 8 - j \notin b[n]) => Disagree(Bits8, Traces8, 8, G[n][j], H[n][j])
  <2>1. a[n] \in Bits8 /\ b[n] \in Bits8 /\ G[n] = Bytewise8(a[n]) /\ H[n] = Bytewise8(b[n])
    OBVIOUS
  <2> QED BY <2>1, Bytewise8Steps
<1>6. G \in [1..N -> Steps(Bits8, 8)] /\ H \in [1..N -> Steps(Bits8, 8)]
  <2>1. \A n \in 1..N : Bytewise8(a[n]) \in Steps(Bits8, 8) /\ Bytewise8(b[n]) \in Steps(Bits8, 8)
    <3>1. 1 \in 1..8
      OBVIOUS
    <3> QED BY <3>1, Bytewise8Steps
  <2> QED BY <2>1
<1> HIDE DEF G, H
<1>7. \A n \in 1..N, j \in 1..8 : <<n, j>> \notin {<<p, s>>, <<q, t>>} => Agree(Bits8, Traces8, G[n][j], H[n][j])
  <2> SUFFICES ASSUME NEW n \in 1..N, NEW j \in 1..8, <<n, j>> \notin {<<p, s>>, <<q, t>>}
               PROVE  8 - j \in a[n] <=> 8 - j \in b[n]
    BY <1>5
  <2>1. CASE n = p
    BY <1>3, <2>1
  <2>2. CASE n = q
    BY <1>4, <2>2
  <2>3. CASE n \notin {p, q}
    BY <2>3
  <2> QED BY <2>1, <2>2, <2>3
<1>8. Disagree(Bits8, Traces8, 8, G[p][s], H[p][s])
  BY <1>1, <1>3, <1>5
<1>9. Disagree(Bits8, Traces8, 8, G[q][t], H[q][t])
  BY <1>1, <1>4, <1>5
<1>10. Traces8[8 + m] # Traces8[8]
  <2>1. 8 \in Nat
    OBVIOUS
  <2> QED BY <1>1, <1>2, <2>1, Traces8Distinct
<1>11. TwoOff(Bits8, Traces8, 8, N, G, H, p, s, q, t)
  BY <1>1, <1>6, <1>7, <1>8, <1>9 DEF TwoOff
<1> HIDE DEF m
<1>12. m = (8 * (q - p) + t) - s
  BY DEF m
<1>13. After(Bytes(Bits8, N, G), r) # After(Bytes(Bits8, N, H), r)
  BY <1>10, <1>11, <1>12, MessageStaysApart
<1>14. /\ Bytes(Bits8, N, G) = [n \in 1..N |-> Through8(a[n])]
       /\ Bytes(Bits8, N, H) = [n \in 1..N |-> Through8(b[n])]
  <2>1. 1 \in 1..8
    OBVIOUS
  <2> QED BY <1>5, <2>1 DEF Bytes
<1> QED BY <1>13, <1>14

\* The message with these bits altered, as places of bytes and of bits in them.
Flipped(bytes, bits) ==
  [n \in 1..Len(bytes) |-> SymDiff(bytes[n], {j \in Bit8 : <<n, j>> \in bits})]

\* Altering bits leaves bytes.
LEMMA FlippedType ==
  ASSUME NEW bytes \in Seq(Bits8), NEW bits
  PROVE  Flipped(bytes, bits) \in Seq(Bits8) /\ Len(Flipped(bytes, bits)) = Len(bytes)
<1> DEFINE N == Len(bytes)
<1>1. N \in Nat /\ \A n \in 1..N : bytes[n] \in Bits8
  OBVIOUS
<1>2. \A n \in 1..N : SymDiff(bytes[n], {j \in Bit8 : <<n, j>> \in bits}) \in Bits8
  <2> SUFFICES ASSUME NEW n \in 1..N PROVE SymDiff(bytes[n], {j \in Bit8 : <<n, j>> \in bits}) \in Bits8
    OBVIOUS
  <2>1. {j \in Bit8 : <<n, j>> \in bits} \in Bits8
    BY DEF Bits8
  <2> QED BY <1>1, <2>1, XorType8
<1> HIDE DEF N
<1>3. Flipped(bytes, bits) \in [1..N -> Bits8]
  BY <1>2 DEF Flipped, N
<1> QED BY <1>1, <1>3, LenProperties, SeqDef DEF N

\* The checksums as what the bytes make of the register, one after the other.
LEMMA ChecksumSteps ==
  ASSUME NEW bytes \in Seq(Bits8), NEW N \in Nat, N = Len(bytes)
  PROVE  /\ Crc8Of(bytes) = After([n \in 1..N |-> Through8(bytes[n])], {})
         /\ Crc16Of(bytes) = After([n \in 1..N |-> Through16(bytes[n])], Bit16)
BY Crc8IsRemainder, Crc16IsRemainder DEF Remainder8, Remainder16

\* The checksum of a chunk is a byte.
LEMMA Crc8Type == \A bytes \in Seq(Bits8) : Crc8Of(bytes) \in Bits8
<1> SUFFICES ASSUME NEW bytes \in Seq(Bits8) PROVE Crc8Of(bytes) \in Bits8
  OBVIOUS
<1> DEFINE N == Len(bytes)
           G == [n \in 1..N |-> Through8(bytes[n])]
<1>1. N \in Nat /\ \A n \in 1..N : bytes[n] \in Bits8
  OBVIOUS
<1>2. \A u \in Bits8 : Through8(u) \in [Bits8 -> Bits8]
  <2>1. \A u \in Bits8 : Through8(u) = [r \in Bits8 |-> Through8(u)[r]]
    BY DEF Through8
  <2>2. \A u, r \in Bits8 : Through8(u)[r] \in Bits8
    BY Crc8TableIsDivision
  <2> QED BY <2>1, <2>2
<1>3. Crc8Of(bytes) = After(G, {})
  BY <1>1, ChecksumSteps
<1> HIDE DEF N
<1>4. G \in Steps(Bits8, N) /\ {} \in Bits8
  BY <1>1, <1>2 DEF Steps, Bits8
<1> HIDE DEF G
<1>5. All(Bits8, G) \in [Bits8 -> Bits8]
  BY <1>1, <1>4, AllType
<1>6. All(Bits8, G)[{}] \in Bits8 /\ All(Bits8, G)[{}] = After(G, {})
  BY <1>4, <1>5 DEF All
<1> QED BY <1>3, <1>6

\* One altered bit, or two in one byte.
LEMMA OneByteFound ==
  ASSUME NEW bytes \in Seq(Bits8), NEW p \in 1..Len(bytes), NEW i \in Bit8, NEW k \in Bit8
  PROVE  LET changed == Flipped(bytes, {<<p, i>>, <<p, k>>})
         IN  Crc8Of(changed) # Crc8Of(bytes) /\ Crc16Of(changed) # Crc16Of(bytes)
<1> DEFINE u == SymDiff(bytes[p], {j \in Bit8 : <<p, j>> \in {<<p, i>>, <<p, k>>}})
<1>1. u \in Bits8 /\ u # bytes[p]
  <2>1. bytes[p] \in Bits8
    OBVIOUS
  <2>2. {j \in Bit8 : <<p, j>> \in {<<p, i>>, <<p, k>>}} = {i, k}
    OBVIOUS
  <2>3. {i, k} \in Bits8
    BY DEF Bits8
  <2>4. u \in Bits8
    BY <2>1, <2>2, <2>3, XorType8
  <2>5. i \in u <=> i \notin bytes[p]
    BY <2>2 DEF SymDiff
  <2> QED BY <2>4, <2>5
<1>2. Flipped(bytes, {<<p, i>>, <<p, k>>}) = [bytes EXCEPT ![p] = u]
  <2>1. bytes = [n \in 1..Len(bytes) |-> bytes[n]]
    OBVIOUS
  <2>2. \A n \in 1..Len(bytes) \ {p} :
           SymDiff(bytes[n], {j \in Bit8 : <<n, j>> \in {<<p, i>>, <<p, k>>}}) = bytes[n]
    <3> SUFFICES ASSUME NEW n \in 1..Len(bytes) \ {p}
                 PROVE  SymDiff(bytes[n], {j \in Bit8 : <<n, j>> \in {<<p, i>>, <<p, k>>}}) = bytes[n]
      OBVIOUS
    <3>1. {j \in Bit8 : <<n, j>> \in {<<p, i>>, <<p, k>>}} = {}
      OBVIOUS
    <3> QED BY <3>1 DEF SymDiff
  <2>3. [bytes EXCEPT ![p] = u] = [n \in 1..Len(bytes) |-> IF n = p THEN u ELSE bytes[n]]
    <3> HIDE DEF u
    <3> QED BY <2>1
  <2>4. Flipped(bytes, {<<p, i>>, <<p, k>>})
          = [n \in 1..Len(bytes) |-> IF n = p THEN u ELSE bytes[n]]
    BY <2>2 DEF Flipped
  <2> QED BY <2>3, <2>4
<1> HIDE DEF u
<1> QED BY <1>1, <1>2, ChangedByteFound

\* Two altered bits in two bytes.
LEMMA TwoBytesFound ==
  ASSUME NEW bytes \in Seq(Bits8), NEW p \in 1..Len(bytes), NEW q \in 1..Len(bytes), p < q,
         NEW i \in Bit8, NEW k \in Bit8
  PROVE  LET changed == Flipped(bytes, {<<p, i>>, <<q, k>>})
         IN  /\ q - p <= 30 => Crc8Of(changed) # Crc8Of(bytes)
             /\ q - p <= 4094 => Crc16Of(changed) # Crc16Of(bytes)
<1> DEFINE N == Len(bytes)
           bits == {<<p, i>>, <<q, k>>}
           changed == Flipped(bytes, bits)
<1>1. N \in Nat /\ p \in 1..N /\ q \in 1..N /\ p # q
  OBVIOUS
<1>2. changed \in Seq(Bits8) /\ Len(changed) = N
  BY FlippedType
<1>3. \A n \in 1..N : changed[n] = SymDiff(bytes[n], {j \in Bit8 : <<n, j>> \in bits})
  BY DEF Flipped
<1>4. bytes \in [1..N -> Bits8]
  OBVIOUS
<1> HIDE DEF N, changed
<1>5. changed \in [1..N -> Bits8]
  BY <1>2
<1>6. OneBitOff(bytes[p], changed[p], i)
  <2>1. {j \in Bit8 : <<p, j>> \in bits} = {i}
    BY <1>1
  <2>2. changed[p] = SymDiff(bytes[p], {i})
    BY <1>1, <1>3, <2>1
  <2> QED BY <2>2 DEF OneBitOff, SymDiff
<1>7. OneBitOff(bytes[q], changed[q], k)
  <2>1. {j \in Bit8 : <<q, j>> \in bits} = {k}
    BY <1>1
  <2>2. changed[q] = SymDiff(bytes[q], {k})
    BY <1>1, <1>3, <2>1
  <2> QED BY <2>2 DEF OneBitOff, SymDiff
<1>8. \A n \in 1..N \ {p, q} : bytes[n] = changed[n]
  <2> SUFFICES ASSUME NEW n \in 1..N \ {p, q} PROVE bytes[n] = changed[n]
    OBVIOUS
  <2>1. {j \in Bit8 : <<n, j>> \in bits} = {}
    OBVIOUS
  <2> QED BY <1>3, <2>1 DEF SymDiff
<1>9. /\ Crc8Of(bytes) = After([n \in 1..N |-> Through8(bytes[n])], {})
      /\ Crc16Of(bytes) = After([n \in 1..N |-> Through16(bytes[n])], Bit16)
  BY <1>1, ChecksumSteps DEF N
<1>10. /\ Crc8Of(changed) = After([n \in 1..N |-> Through8(changed[n])], {})
       /\ Crc16Of(changed) = After([n \in 1..N |-> Through16(changed[n])], Bit16)
  BY <1>1, <1>2, ChecksumSteps
<1> HIDE DEF bits
<1>11. ASSUME q - p <= 30 PROVE Crc8Of(changed) # Crc8Of(bytes)
  <2>1. 8 * (q - p) + 7 < Cycle8
    BY <1>11 DEF Cycle8
  <2>2. {} \in Bits8
    BY DEF Bits8
  <2>3. After([n \in 1..N |-> Through8(bytes[n])], {}) # After([n \in 1..N |-> Through8(changed[n])], {})
    BY <1>1, <1>4, <1>5, <1>6, <1>7, <1>8, <2>1, <2>2, TwoBits8
  <2> QED BY <1>9, <1>10, <2>3
<1>12. ASSUME q - p <= 4094 PROVE Crc16Of(changed) # Crc16Of(bytes)
  <2>1. 8 * (q - p) + 7 < Cycle16
    BY <1>12 DEF Cycle16
  <2>2. Bit16 \in Bits16
    BY DEF Bits16
  <2>3. After([n \in 1..N |-> Through16(bytes[n])], Bit16) # After([n \in 1..N |-> Through16(changed[n])], Bit16)
    BY <1>1, <1>4, <1>5, <1>6, <1>7, <1>8, <2>1, <2>2, TwoBits16
  <2> QED BY <1>9, <1>10, <2>3
<1> QED BY <1>11, <1>12 DEF changed, bits

\* Places of bits in bytes that are no more than d apart.
Within(d, x, y) == x[1] - y[1] <= d /\ y[1] - x[1] <= d

\* Any one or two bits that are altered change the checksum of a chunk of up to 31
\* bytes, and that of a message of up to 4095: more than the longest there is
\* (CRC.cpp:11, CRC.h:9).
THEOREM TwoBitsFound ==
  ASSUME NEW bytes \in Seq(Bits8),
         NEW x \in (1..Len(bytes)) \X Bit8, NEW y \in (1..Len(bytes)) \X Bit8
  PROVE  /\ Within(30, x, y) => Crc8Of(Flipped(bytes, {x, y})) # Crc8Of(bytes)
         /\ Within(4094, x, y) => Crc16Of(Flipped(bytes, {x, y})) # Crc16Of(bytes)
<1> DEFINE p == x[1]
           q == y[1]
           i == x[2]
           k == y[2]
<1>1. /\ x = <<p, i>> /\ y = <<q, k>> /\ p \in 1..Len(bytes) /\ q \in 1..Len(bytes)
      /\ i \in Bit8 /\ k \in Bit8
  OBVIOUS
<1>2. \A d : Within(d, x, y) <=> p - q <= d /\ q - p <= d
  BY DEF Within
<1> HIDE DEF p, q, i, k
<1>3. CASE p = q
  <2>1. /\ Crc8Of(Flipped(bytes, {<<p, i>>, <<p, k>>})) # Crc8Of(bytes)
        /\ Crc16Of(Flipped(bytes, {<<p, i>>, <<p, k>>})) # Crc16Of(bytes)
    BY <1>1, OneByteFound
  <2> QED BY <1>1, <1>3, <2>1
<1>4. CASE p < q
  <2>1. /\ q - p <= 30 => Crc8Of(Flipped(bytes, {x, y})) # Crc8Of(bytes)
        /\ q - p <= 4094 => Crc16Of(Flipped(bytes, {x, y})) # Crc16Of(bytes)
    BY <1>1, <1>4, TwoBytesFound
  <2> QED BY <1>2, <2>1
<1>5. CASE q < p
  <2>1. /\ p - q <= 30 => Crc8Of(Flipped(bytes, {y, x})) # Crc8Of(bytes)
        /\ p - q <= 4094 => Crc16Of(Flipped(bytes, {y, x})) # Crc16Of(bytes)
    BY <1>1, <1>5, TwoBytesFound
  <2>2. Flipped(bytes, {y, x}) = Flipped(bytes, {x, y})
    <3>1. {x, y} = {y, x}
      OBVIOUS
    <3> QED BY <3>1
  <2> QED BY <1>2, <2>1, <2>2
<1>6. p = q \/ p < q \/ q < p
  BY <1>1
<1> QED BY <1>3, <1>4, <1>5, <1>6

================================================================================
