---------------------------------- MODULE Crc ----------------------------------
(***************************************************************************)
(* The checksums of messages (Utility/CRC.cpp), computed byte by byte from  *)
(* tables, and what they are meant to be: the remainder of the message,     *)
(* divided bit by bit by a polynomial over GF(2).                           *)
(*                                                                         *)
(* A byte or a word is the set of the places of its bits that are set, so   *)
(* that ^ is the symmetric difference of sets.                              *)
(***************************************************************************)
EXTENDS Integers, Sequences, FiniteSetsExt

Bit8  == 0..7
Bit16 == 0..15

Bits8  == SUBSET Bit8
Bits16 == SUBSET Bit16

\* What the functions in a sequence make of x, one after the other.
After(steps, x) ==
  LET y[n \in 0..Len(steps)] == IF n = 0 THEN x ELSE steps[n][y[n - 1]]
  IN  y[Len(steps)]

Eight(step) == [j \in 1..8 |-> step]

\* x << 1 of a byte, and x >> 1.
Up(x)   == {k + 1 : k \in x \ {7}}
Down(x) == {k - 1 : k \in x \ {0}}

\* generator, 0x1D, and CRC_POLY_16, 0xA001.
Generator8  == {0, 2, 3, 4}
Generator16 == {0, 13, 15}

\* Mutant of Crc8Shifted: another polynomial, 0x1B, which is not primitive.
Crc8ShiftedOther(u) == IF 7 \in u THEN SymDiff(Up(u), {0, 1, 3, 4}) ELSE Up(u)

\* One bit, the highest first.
Crc8Shifted(u) == IF 7 \in u THEN SymDiff(Up(u), Generator8) ELSE Up(u)

\* initializeCrc8Table
Crc8Table ==
  [u \in Bits8 |-> After(Eight([x \in Bits8 |-> Crc8Shifted(x)]), u)]

Register == [crc : Bits16, c : Bits8]

\* One bit of the 16 bit table, the lowest first: the bit of c meets that of
\* the register.
Crc16Shifted(r) ==
  [crc |-> IF 0 \in SymDiff(r.crc, r.c) THEN SymDiff(Down(r.crc), Generator16)
           ELSE Down(r.crc),
   c   |-> Down(r.c)]

\* initializeCrc16Table
Crc16Table ==
  [u \in Bits8 |->
     After(Eight([r \in Register |-> Crc16Shifted(r)]), [crc |-> {}, c |-> u]).crc]

\* getCrc8
Crc8Of(bytes) ==
  After([n \in 1..Len(bytes) |-> [crc8 \in Bits8 |-> Crc8Table[SymDiff(bytes[n], crc8)]]], {})

\* x >> 8 of a word.
HighByte(x) == {k - 8 : k \in x \ Bit8}

\* Mutant of Crc16Next: what the table gives replaces the register.
Crc16NextReplaced(crc16, u) == Crc16Table[SymDiff(crc16, u) \cap Bit8]

\* What a byte makes of the register of getCrc16.
Crc16Next(crc16, u) == SymDiff(HighByte(crc16), Crc16Table[SymDiff(crc16, u) \cap Bit8])

\* getCrc16, from CRC_START_MODBUS on.
Crc16Of(bytes) ==
  After([n \in 1..Len(bytes) |-> [crc16 \in Bits16 |-> Crc16Next(crc16, bytes[n])]], Bit16)

--------------------------------------------------------------------------------
(* The reference: a register that the bits of a message are shifted        *)
(* through, one after the other, with the generator subtracted when the    *)
(* bit that leaves it differs from the one that comes.                     *)

Divided8(r, bit)  == IF (7 \in r) # bit THEN SymDiff(Up(r), Generator8) ELSE Up(r)
Divided16(r, bit) == IF (0 \in r) # bit THEN SymDiff(Down(r), Generator16) ELSE Down(r)

\* What the bits of u make of a register, the highest first or the lowest.
Through8(u) ==
  [r \in Bits8 |-> After([j \in 1..8 |-> [x \in Bits8 |-> Divided8(x, 8 - j \in u)]], r)]

Through16(u) ==
  [r \in Bits16 |-> After([j \in 1..8 |-> [x \in Bits16 |-> Divided16(x, j - 1 \in u)]], r)]

Remainder8(bytes)  == After([n \in 1..Len(bytes) |-> Through8(bytes[n])], {})
Remainder16(bytes) == After([n \in 1..Len(bytes) |-> Through16(bytes[n])], Bit16)
================================================================================
