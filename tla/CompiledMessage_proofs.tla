------------------------- MODULE CompiledMessage_proofs -------------------------
(* Theorems about CompiledMessage and the builder it uses: for names,       *)
(* payloads and chunks of any length and any ids.                            *)
(*                                                                          *)
(* AppendText and AppendBytes are recursive functions; what they compute is *)
(* proved by the lemmas of Crc_proofs on computations in steps.             *)
EXTENDS CompiledMessage, Crc_proofs

-----------------------------------------------------------------------------
(* The MessageBuilder.                                                     *)

\* The values of a MessageBuilder of capacity C.
Builders(C) == [buffer : [0..C -> Byte], capacity : {C}, write : 0..C, length : 0..C]

\* r is b after n bytes of text were appended; the place behind them may be a
\* terminator.
Appended(b, text, n, r) ==
  /\ r.write = b.write + n /\ r.length = r.write
  /\ \A k \in 0..b.capacity : k < b.write \/ k > r.write => r.buffer[k] = b.buffer[k]
  /\ \A k \in 1..n : r.buffer[b.write + k - 1] = text[k]

\* append(uint8_t), where there is room.
LEMMA AppendByteAppends ==
  ASSUME NEW C \in Nat, NEW b \in Builders(C), NEW u \in Byte
  PROVE  /\ AppendByte(b, u) \in Builders(C)
         /\ b.write = b.length /\ b.write < C => Appended(b, <<u>>, 1, AppendByte(b, u))
<1>1. CASE b.write < C
  <2>1. AppendByte(b, u) = [buffer |-> [b.buffer EXCEPT ![b.write] = u], capacity |-> C,
                            write |-> b.write + 1, length |-> Larger(b.length, b.write + 1)]
    BY <1>1 DEF AppendByte, WrittenTo, Builders
  <2>2. [b.buffer EXCEPT ![b.write] = u] \in [0..C -> Byte]
    BY DEF Builders
  <2>3. b.write + 1 \in 0..C /\ Larger(b.length, b.write + 1) \in 0..C
    BY <1>1 DEF Builders, Larger
  <2>4. AppendByte(b, u) \in Builders(C)
    BY <2>1, <2>2, <2>3 DEF Builders
  <2>5. b.write = b.length => Appended(b, <<u>>, 1, AppendByte(b, u))
    BY <1>1, <2>1 DEF Appended, Builders, Larger
  <2> QED BY <2>4, <2>5
<1>2. CASE ~ (b.write < C)
  BY <1>2 DEF AppendByte, Builders
<1> QED BY <1>1, <1>2

\* A terminator changes the place behind what is written.
LEMMA TerminatedKeeps ==
  ASSUME NEW C \in Nat, NEW b \in Builders(C)
  PROVE  /\ Terminated(b) \in Builders(C)
         /\ Terminated(b).write = b.write /\ Terminated(b).length = b.length
         /\ \A k \in 0..C : k # b.write => Terminated(b).buffer[k] = b.buffer[k]
<1>1. Terminated(b) = [buffer |-> [b.buffer EXCEPT ![b.write] = 0], capacity |-> C,
                       write |-> b.write, length |-> b.length]
  BY DEF Terminated, Builders
<1>2. [b.buffer EXCEPT ![b.write] = 0] \in [0..C -> Byte]
  BY DEF Builders, Byte
<1>3. Terminated(b) \in Builders(C)
  BY <1>1, <1>2 DEF Builders
<1>4. \A k \in 0..C : k # b.write => [b.buffer EXCEPT ![b.write] = 0][k] = b.buffer[k]
  BY DEF Builders
<1> QED BY <1>1, <1>3, <1>4

\* append(char), where there is room.
LEMMA AppendCharAppends ==
  ASSUME NEW C \in Nat, NEW b \in Builders(C), NEW c \in Byte
  PROVE  /\ AppendChar(b, c) \in Builders(C)
         /\ b.write = b.length /\ b.write < C => Appended(b, <<c>>, 1, AppendChar(b, c))
<1>1. AppendByte(b, c) \in Builders(C)
  BY AppendByteAppends
<1>2. ASSUME b.write = b.length, b.write < C PROVE Appended(b, <<c>>, 1, AppendChar(b, c))
  <2> DEFINE m == AppendByte(b, c)
  <2>1. Appended(b, <<c>>, 1, m) /\ m \in Builders(C)
    BY <1>2, AppendByteAppends
  <2>2. b.capacity = C /\ b.write \in 0..C /\ m.write \in 0..C
    BY <2>1 DEF Builders
  <2> HIDE DEF m
  <2>3. Appended(b, <<c>>, 1, Terminated(m))
    BY <2>1, <2>2, TerminatedKeeps DEF Appended
  <2> QED BY <2>3 DEF m, AppendChar
<1> QED BY <1>1, <1>2, TerminatedKeeps DEF AppendChar

\* Appending in two parts.
LEMMA AppendedTwice ==
  ASSUME NEW C \in Nat, NEW b \in Builders(C), NEW m \in Builders(C), NEW r \in Builders(C),
         NEW text, NEW n \in Nat, NEW u, u = text[n + 1],
         Appended(b, text, n, m), Appended(m, <<u>>, 1, r)
  PROVE  Appended(b, text, n + 1, r)
<1>1. b.capacity = C /\ m.capacity = C /\ b.write \in 0..C /\ m.write \in 0..C /\ r.write \in 0..C
  BY DEF Builders
<1>2. m.write = b.write + n /\ r.write = m.write + 1 /\ r.length = r.write
  BY DEF Appended
<1>3. \A k \in 0..C : k < b.write \/ k > r.write => r.buffer[k] = b.buffer[k]
  BY <1>1, <1>2 DEF Appended
<1>4. \A k \in 1..n : r.buffer[b.write + k - 1] = text[k]
  <2> SUFFICES ASSUME NEW k \in 1..n PROVE r.buffer[b.write + k - 1] = text[k]
    OBVIOUS
  <2>1. b.write + k - 1 \in 0..C /\ b.write + k - 1 < m.write
    BY <1>1, <1>2
  <2>2. m.buffer[b.write + k - 1] = text[k]
    BY DEF Appended
  <2> QED BY <1>1, <2>1, <2>2 DEF Appended
<1>5. r.buffer[b.write + (n + 1) - 1] = text[n + 1]
  <2>1. r.buffer[m.write + 1 - 1] = u
    BY DEF Appended
  <2>2. m.write + 1 - 1 = b.write + (n + 1) - 1
    BY <1>1, <1>2
  <2> QED BY <2>1, <2>2
<1>6. \A k \in 1..(n + 1) : k \in 1..n \/ k = n + 1
  OBVIOUS
<1>7. \A k \in 1..(n + 1) : r.buffer[b.write + k - 1] = text[k]
  BY <1>4, <1>5, <1>6
<1> QED BY <1>1, <1>2, <1>3, <1>7 DEF Appended

\* Appending one byte after the other.
LEMMA AppendedInTurn ==
  ASSUME NEW C \in Nat, NEW b \in Builders(C), NEW text, NEW N \in Nat, NEW c,
         c[0] = b, \A n \in 0..N : c[n] \in Builders(C),
         \A n \in 1..N : /\ c[n - 1].write = c[n - 1].length /\ c[n - 1].write < C
                         => Appended(c[n - 1], <<text[n]>>, 1, c[n]),
         b.write = b.length, b.write + N <= C
  PROVE  Appended(b, text, N, c[N])
<1> DEFINE T == {n \in 0..N : Appended(b, text, n, c[n])}
<1>1. 0 \in T
  BY DEF Appended, Builders
<1>2. ASSUME NEW n \in 1..N, n - 1 \in T PROVE n \in T
  <2>1. /\ c[n - 1] \in Builders(C) /\ c[n] \in Builders(C)
        /\ n - 1 \in Nat /\ (n - 1) + 1 = n
    OBVIOUS
  <2>2. Appended(b, text, n - 1, c[n - 1])
    BY <1>2
  <2>3. c[n - 1].write = c[n - 1].length /\ c[n - 1].write < C
    BY <2>2 DEF Appended, Builders
  <2>4. Appended(c[n - 1], <<text[n]>>, 1, c[n])
    BY <2>3
  <2>5. Appended(b, text, (n - 1) + 1, c[n])
    BY <2>1, <2>2, <2>4, AppendedTwice
  <2> QED BY <2>1, <2>5
<1> HIDE DEF T
<1>3. 0..N \subseteq T
  BY <1>1, <1>2, UpTo
<1>4. N \in T
  BY <1>3
<1> QED BY <1>4 DEF T

\* append(char *), where there is room.
LEMMA AppendTextAppends ==
  ASSUME NEW C \in Nat, NEW b \in Builders(C), NEW text \in Seq(Byte)
  PROVE  /\ AppendText(b, text) \in Builders(C)
         /\ b.write = b.length /\ b.write + Len(text) <= C
              => Appended(b, text, Len(text), AppendText(b, text))
<1> DEFINE N    == Len(text)
           E(c) == c = [n \in 0..N |-> IF n = 0 THEN b ELSE AppendChar(c[n - 1], text[n])]
           c    == CHOOSE c : E(c)
           G    == [n \in 1..N |-> [x \in Builders(C) |-> AppendChar(x, text[n])]]
<1>1. N \in Nat /\ \A n \in 1..N : text[n] \in Byte
  OBVIOUS
<1>2. G \in [1..N -> [Builders(C) -> Builders(C)]]
  BY <1>1, AppendCharAppends
<1>3. Iterates(Builders(C), b, N, G) # {}
  <2> HIDE DEF N, G
  <2> QED BY <1>1, <1>2, Recursion
<1>4. PICK f \in [0..N -> Builders(C)] : f[0] = b /\ \A n \in 1..N : f[n] = G[n][f[n - 1]]
  BY <1>3 DEF Iterates
<1>5. \A n \in 1..N : f[n] = AppendChar(f[n - 1], text[n])
  BY <1>4
<1>6. E(c)
  <2>1. E(f)
    BY <1>1, <1>4, <1>5
  <2> HIDE DEF E
  <2> QED BY <2>1
<1>7. AppendText(b, text) = c[N]
  BY DEF AppendText
<1> HIDE DEF c
<1>8. c[0] = b /\ \A n \in 1..N : c[n] = AppendChar(c[n - 1], text[n])
  <2>1. \A n \in 1..N : n \in 0..N /\ n # 0
    OBVIOUS
  <2> QED BY <1>1, <1>6, <2>1
<1> HIDE DEF E, G, N
<1>9. \A n \in 0..N : c[n] \in Builders(C)
  <2> DEFINE T == {n \in 0..N : c[n] \in Builders(C)}
  <2>1. 0 \in T
    BY <1>1, <1>8
  <2>2. ASSUME NEW n \in 1..N, n - 1 \in T PROVE n \in T
    <3>1. c[n - 1] \in Builders(C) /\ text[n] \in Byte /\ c[n] = AppendChar(c[n - 1], text[n])
      BY <1>1, <1>8, <2>2
    <3>2. AppendChar(c[n - 1], text[n]) \in Builders(C)
      BY <3>1, AppendCharAppends
    <3> QED BY <3>1, <3>2
  <2> HIDE DEF T
  <2>3. 0..N \subseteq T
    BY <1>1, <2>1, <2>2, UpTo
  <2> QED BY <2>3 DEF T
<1>10. \A n \in 1..N : /\ c[n - 1].write = c[n - 1].length /\ c[n - 1].write < C
                         => Appended(c[n - 1], <<text[n]>>, 1, c[n])
  <2> SUFFICES ASSUME NEW n \in 1..N, c[n - 1].write = c[n - 1].length, c[n - 1].write < C
               PROVE  Appended(c[n - 1], <<text[n]>>, 1, c[n])
    OBVIOUS
  <2>1. c[n - 1] \in Builders(C) /\ text[n] \in Byte /\ c[n] = AppendChar(c[n - 1], text[n])
    BY <1>1, <1>8, <1>9
  <2> QED BY <2>1, AppendCharAppends
<1>11. N \in 0..N
  BY <1>1
<1> QED BY <1>1, <1>7, <1>8, <1>9, <1>10, <1>11, AppendedInTurn DEF N

\* append(uint8_t *, int), where there is room.
LEMMA AppendBytesAppends ==
  ASSUME NEW C \in Nat, NEW b \in Builders(C), NEW text \in Seq(Byte)
  PROVE  /\ AppendBytes(b, text) \in Builders(C)
         /\ b.write = b.length /\ b.write + Len(text) <= C
              => Appended(b, text, Len(text), AppendBytes(b, text))
<1> DEFINE N    == Len(text)
           E(c) == c = [n \in 0..N |-> IF n = 0 THEN b ELSE AppendByte(c[n - 1], text[n])]
           c    == CHOOSE c : E(c)
           G    == [n \in 1..N |-> [x \in Builders(C) |-> AppendByte(x, text[n])]]
<1>1. N \in Nat /\ \A n \in 1..N : text[n] \in Byte
  OBVIOUS
<1>2. G \in [1..N -> [Builders(C) -> Builders(C)]]
  BY <1>1, AppendByteAppends
<1>3. Iterates(Builders(C), b, N, G) # {}
  <2> HIDE DEF N, G
  <2> QED BY <1>1, <1>2, Recursion
<1>4. PICK f \in [0..N -> Builders(C)] : f[0] = b /\ \A n \in 1..N : f[n] = G[n][f[n - 1]]
  BY <1>3 DEF Iterates
<1>5. \A n \in 1..N : f[n] = AppendByte(f[n - 1], text[n])
  BY <1>4
<1>6. E(c)
  <2>1. E(f)
    BY <1>1, <1>4, <1>5
  <2> HIDE DEF E
  <2> QED BY <2>1
<1>7. AppendBytes(b, text) = c[N]
  BY DEF AppendBytes
<1> HIDE DEF c
<1>8. c[0] = b /\ \A n \in 1..N : c[n] = AppendByte(c[n - 1], text[n])
  <2>1. \A n \in 1..N : n \in 0..N /\ n # 0
    OBVIOUS
  <2> QED BY <1>1, <1>6, <2>1
<1> HIDE DEF E, G, N
<1>9. \A n \in 0..N : c[n] \in Builders(C)
  <2> DEFINE T == {n \in 0..N : c[n] \in Builders(C)}
  <2>1. 0 \in T
    BY <1>1, <1>8
  <2>2. ASSUME NEW n \in 1..N, n - 1 \in T PROVE n \in T
    <3>1. c[n - 1] \in Builders(C) /\ text[n] \in Byte /\ c[n] = AppendByte(c[n - 1], text[n])
      BY <1>1, <1>8, <2>2
    <3>2. AppendByte(c[n - 1], text[n]) \in Builders(C)
      BY <3>1, AppendByteAppends
    <3> QED BY <3>1, <3>2
  <2> HIDE DEF T
  <2>3. 0..N \subseteq T
    BY <1>1, <2>1, <2>2, UpTo
  <2> QED BY <2>3 DEF T
<1>10. \A n \in 1..N : /\ c[n - 1].write = c[n - 1].length /\ c[n - 1].write < C
                         => Appended(c[n - 1], <<text[n]>>, 1, c[n])
  <2> SUFFICES ASSUME NEW n \in 1..N, c[n - 1].write = c[n - 1].length, c[n - 1].write < C
               PROVE  Appended(c[n - 1], <<text[n]>>, 1, c[n])
    OBVIOUS
  <2>1. c[n - 1] \in Builders(C) /\ text[n] \in Byte /\ c[n] = AppendByte(c[n - 1], text[n])
    BY <1>1, <1>8, <1>9
  <2> QED BY <2>1, AppendByteAppends
<1>11. N \in 0..N
  BY <1>1
<1> QED BY <1>1, <1>7, <1>8, <1>9, <1>10, <1>11, AppendedInTurn DEF N

\* append(const char *, ...), where there is room for its terminator too.
LEMMA AppendFormattedAppends ==
  ASSUME NEW C \in Nat, NEW b \in Builders(C), NEW text \in Seq(Byte),
         b.write = b.length, b.write + Len(text) < C
  PROVE  /\ AppendFormatted(b, text) \in Builders(C)
         /\ Appended(b, text, Len(text), AppendFormatted(b, text))
<1> DEFINE N == Len(text)
           put == [i \in 0..C |-> IF i < b.write \/ i > b.write + N THEN b.buffer[i]
                                  ELSE IF i = b.write + N THEN 0 ELSE text[i - b.write + 1]]
           m == [buffer |-> put, capacity |-> C, write |-> b.write + N, length |-> b.write + N]
<1>1. /\ b.capacity = C /\ b.write \in Nat /\ b.length = b.write /\ b.buffer \in [0..C -> Byte]
      /\ b = [buffer |-> b.buffer, capacity |-> C, write |-> b.write, length |-> b.length]
  BY DEF Builders
<1>2. N \in Nat /\ \A n \in 1..N : text[n] \in Byte
  OBVIOUS
<1>3. put \in [0..C -> Byte]
  <2> SUFFICES ASSUME NEW i \in 0..C PROVE put[i] \in Byte
    OBVIOUS
  <2>1. CASE i < b.write \/ i > b.write + N
    BY <1>1, <2>1
  <2>2. CASE i = b.write + N
    <3>1. put[i] = 0
      BY <1>1, <1>2, <2>2
    <3> QED BY <3>1 DEF Byte
  <2>3. CASE i >= b.write /\ i < b.write + N
    <3>1. i - b.write + 1 \in 1..N
      BY <1>1, <1>2, <2>3
    <3>2. put[i] = text[i - b.write + 1]
      BY <1>1, <1>2, <2>3
    <3> HIDE DEF put, N
    <3> QED BY <1>2, <3>1, <3>2
  <2>4. \/ i < b.write \/ i > b.write + N \/ i = b.write + N
        \/ i >= b.write /\ i < b.write + N
    BY <1>1, <1>2
  <2> HIDE DEF put, N
  <2> QED BY <2>1, <2>2, <2>3, <2>4
<1>4. m \in Builders(C)
  BY <1>1, <1>2, <1>3 DEF Builders
<1>5. AppendFormatted(b, text) = Terminated(m)
  <2>1. C - b.write # 0 /\ Smaller(N, (C - b.write) - 1) = N /\ Smaller(b.write + N, C) = b.write + N
    BY <1>1, <1>2 DEF Smaller
  <2>2. Larger(b.length, b.write + N) = b.write + N
    BY <1>1, <1>2 DEF Larger
  <2>3. put = [i \in DOMAIN b.buffer |->
                 IF C - b.write = 0 \/ i < b.write \/ i > b.write + N THEN b.buffer[i]
                 ELSE IF i = b.write + N THEN 0 ELSE text[i - b.write + 1]]
    BY <1>1, <2>1
  <2>4. m = WrittenTo([b EXCEPT !.buffer = put], b.write + N)
    <3> HIDE DEF put
    <3> QED BY <1>1, <2>2 DEF WrittenTo
  <2> HIDE DEF m, put
  <2> QED BY <1>1, <2>1, <2>3, <2>4 DEF AppendFormatted, N
<1>6. Appended(b, text, N, m)
  <2>1. \A k \in 0..C : k < b.write \/ k > b.write + N => put[k] = b.buffer[k]
    OBVIOUS
  <2>2. \A k \in 1..N : put[b.write + k - 1] = text[k]
    BY <1>1, <1>2
  <2> HIDE DEF put, N
  <2> QED BY <1>1, <2>1, <2>2 DEF Appended
<1> HIDE DEF m, N
<1>7. Appended(b, text, N, Terminated(m))
  <2>1. m.write = b.write + N /\ m.length = m.write /\ m.write \in 0..C
    BY <1>4, <1>6 DEF Appended, Builders
  <2>2. /\ Terminated(m).write = m.write /\ Terminated(m).length = m.length
        /\ \A k \in 0..C : k # m.write => Terminated(m).buffer[k] = m.buffer[k]
    BY <1>4, TerminatedKeeps
  <2>3. \A k \in 0..C : k < b.write \/ k > m.write => Terminated(m).buffer[k] = b.buffer[k]
    BY <1>1, <1>2, <1>6, <2>1, <2>2 DEF Appended
  <2>4. \A k \in 1..N : Terminated(m).buffer[b.write + k - 1] = text[k]
    <3> SUFFICES ASSUME NEW k \in 1..N PROVE Terminated(m).buffer[b.write + k - 1] = text[k]
      OBVIOUS
    <3>1. b.write + k - 1 \in 0..C /\ b.write + k - 1 # m.write
      BY <1>1, <1>2, <2>1
    <3>2. m.buffer[b.write + k - 1] = text[k]
      BY <1>6 DEF Appended
    <3> QED BY <2>2, <3>1, <3>2
  <2> QED BY <1>1, <2>1, <2>2, <2>3, <2>4 DEF Appended
<1> QED BY <1>4, <1>5, <1>7, TerminatedKeeps DEF N

\* Storing n bytes over others, from place i on.
Overwritten(b, i, bytes, n, r) ==
  /\ r.write = b.write /\ r.length = b.length
  /\ \A k \in 0..b.capacity : k < i \/ k >= i + n => r.buffer[k] = b.buffer[k]
  /\ \A k \in 1..n : r.buffer[i + k - 1] = bytes[k]

\* Set stores them.
LEMMA SetStores ==
  ASSUME NEW C \in Nat, NEW b \in Builders(C), NEW i \in Nat, NEW bytes \in Seq(Byte),
         NEW N \in Nat, N = Len(bytes), i + N <= C
  PROVE  /\ Set(b, i, bytes) \in Builders(C)
         /\ Overwritten(b, i, bytes, N, Set(b, i, bytes))
<1> DEFINE put == [k \in 0..C |-> IF k - i + 1 \in 1..N THEN bytes[k - i + 1] ELSE b.buffer[k]]
<1>1. N \in Nat /\ (\A n \in 1..N : bytes[n] \in Byte) /\ DOMAIN bytes = 1..N
  OBVIOUS
<1>2. b.capacity = C /\ b.buffer \in [0..C -> Byte] /\ b.write \in 0..C /\ b.length \in 0..C
  BY DEF Builders
<1>3. put \in [0..C -> Byte]
  BY <1>1, <1>2
<1>4. Set(b, i, bytes) = [buffer |-> put, capacity |-> C, write |-> b.write, length |-> b.length]
  <2>1. b = [buffer |-> b.buffer, capacity |-> C, write |-> b.write, length |-> b.length]
    BY DEF Builders
  <2>2. put = [k \in DOMAIN b.buffer |-> IF k - i + 1 \in DOMAIN bytes
                                           THEN bytes[k - i + 1] ELSE b.buffer[k]]
    BY <1>1, <1>2
  <2> HIDE DEF put
  <2>3. Set(b, i, bytes) = [b EXCEPT !.buffer = put]
    BY <2>2 DEF Set
  <2> QED BY <2>1, <2>3
<1>5. \A k \in 0..C : k < i \/ k >= i + N => put[k] = b.buffer[k]
  BY <1>1
<1>6. \A k \in 1..N : put[i + k - 1] = bytes[k]
  BY <1>1
<1> HIDE DEF put
<1>7. Set(b, i, bytes) \in Builders(C)
  BY <1>2, <1>3, <1>4 DEF Builders
<1>8. Overwritten(b, i, bytes, N, Set(b, i, bytes))
  BY <1>2, <1>4, <1>5, <1>6 DEF Overwritten
<1> QED BY <1>7, <1>8

-----------------------------------------------------------------------------
(* The inductive invariant.                                                *)

\* The builder has the bytes from place i on.
Holds(b, i, bytes) == \A k \in 1..Len(bytes) : b.buffer[i + k - 1] = bytes[k]

\* What is behind the bytes that are written is as it was.
Fresh(b) == \A k \in 0..b.capacity : k > b.write => b.buffer[k] = Stale

\* What compileMessage was given, by its lengths.
OriginLength      == Len(given.origin)
DestinationLength == Len(given.destination)
PayloadLength     == Len(given.payload)

\* The bytes that addNewMessageToSend reserves, and those of both names.
Reserved    == PayloadLength + Preamble
NamesLength == OriginLength + DestinationLength

\* The length as it is stored, with the flag of a system message.
LengthBytes(n, system) == <<High(n) + (IF system THEN 128 ELSE 0), Low(n)>>

\* The steps after which all texts are there, and those after which the length is.
Filled == {"length", "checksums", "compiled", "arrived"}
Stored == {"checksums", "compiled", "arrived"}

\* Nothing is written behind what the builder has; that is at most a terminator.
Begun ==
  step # "none" =>
    /\ given \in [origin : Origin, destination : Destination, payload : Payload,
                  id : Id, system : BOOLEAN]
    /\ builder \in Builders(Reserved) /\ builder.write = builder.length /\ Fresh(builder)

\* How far the builder has come, and where the texts are.
Places ==
  /\ step = "header" => builder.length = 0
  /\ step = "names" => builder.length = OriginPosition
  /\ step = "payload" => builder.length = OriginPosition + NamesLength + 2
  /\ step \in Filled => /\ payload = OriginPosition + NamesLength + 2
                        /\ builder.length = payload + PayloadLength + 1
  /\ step \in {"payload"} \cup Filled => /\ origin = OriginPosition
                                         /\ destination = origin + OriginLength + 1

\* What is in the buffer.
Contents ==
  /\ step \notin {"none", "header"} => Holds(builder, IdPosition, IdBytes(given.id))
  /\ step \in {"names", "payload", "length", "checksums"} =>
       Holds(builder, Crc16Position, <<50, 51>>)
  /\ step \in {"payload"} \cup Filled =>
       /\ Holds(builder, origin, Append(given.origin, 0))
       /\ Holds(builder, destination, Append(given.destination, 0))
  /\ step \in Filled => Holds(builder, payload, Append(given.payload, 0))
  /\ step \in Stored =>
       Holds(builder, LengthPosition, LengthBytes(builder.length, given.system))

\* The inductive invariant.  FieldsWhole and HeaderRead speak of the last steps only;
\* this says of every step what is there already.
MessageInv == Begun /\ Places /\ Contents /\ ChecksumsAreDivision

\* Appending keeps what is written, and leaves alone what is far behind it.
LEMMA AppendedKeeps ==
  ASSUME NEW C \in Nat, NEW b \in Builders(C), NEW r \in Builders(C),
         NEW text, NEW n \in Nat, Appended(b, text, n, r)
  PROVE  /\ r.length = r.write /\ r.write = b.write + n
         /\ Fresh(b) => Fresh(r)
         /\ \A bytes : \A i \in Nat :
              Len(bytes) \in Nat /\ i + Len(bytes) <= b.write /\ Holds(b, i, bytes) => Holds(r, i, bytes)
<1>1. /\ b.capacity = C /\ r.capacity = C /\ b.write \in 0..C /\ r.write \in 0..C
      /\ r.length = r.write /\ r.write = b.write + n
      /\ \A k \in 0..C : k < b.write \/ k > r.write => r.buffer[k] = b.buffer[k]
  BY DEF Appended, Builders
<1>2. Fresh(b) => Fresh(r)
  BY <1>1 DEF Fresh
<1>3. ASSUME NEW bytes, NEW i \in Nat, Len(bytes) \in Nat, i + Len(bytes) <= b.write, Holds(b, i, bytes)
      PROVE  Holds(r, i, bytes)
  <2> SUFFICES ASSUME NEW k \in 1..Len(bytes) PROVE r.buffer[i + k - 1] = bytes[k]
    BY DEF Holds
  <2>1. i + k - 1 \in 0..C /\ i + k - 1 < b.write
    BY <1>1, <1>3
  <2>2. b.buffer[i + k - 1] = bytes[k]
    BY <1>3 DEF Holds
  <2> QED BY <1>1, <2>1, <2>2
<1> QED BY <1>1, <1>2, <1>3

\* What is appended is there.
LEMMA AppendedHolds ==
  ASSUME NEW b, NEW r, NEW text, Appended(b, text, Len(text), r)
  PROVE  Holds(r, b.write, text)
BY DEF Appended, Holds

\* A text or bytes, and a terminator.
LEMMA ThenTerminator ==
  ASSUME NEW C \in Nat, NEW b \in Builders(C), NEW m \in Builders(C), NEW text \in Seq(Byte),
         Appended(b, text, Len(text), m), b.write + Len(text) < C
  PROVE  /\ AppendChar(m, 0) \in Builders(C)
         /\ Appended(b, Append(text, 0), Len(text) + 1, AppendChar(m, 0))
<1> DEFINE r == AppendChar(m, 0)
           N == Len(text)
<1>1. 0 \in Byte /\ N \in Nat
  BY DEF Byte
<1>2. m.write = m.length /\ m.write < C
  BY DEF Appended
<1>3. r \in Builders(C) /\ Appended(m, <<0>>, 1, r)
  BY <1>1, <1>2, AppendCharAppends
<1>4. Append(text, 0)[N + 1] = 0 /\ \A k \in 1..N : Append(text, 0)[k] = text[k]
  OBVIOUS
<1>5. Appended(b, Append(text, 0), N, m)
  BY <1>4 DEF Appended
<1> HIDE DEF r, N
<1>6. Appended(b, Append(text, 0), N + 1, r)
  BY <1>1, <1>3, <1>4, <1>5, AppendedTwice
<1> QED BY <1>3, <1>6 DEF r, N

\* The lengths that are given, and that two names of any length fit.
LEMMA GivenFacts ==
  ASSUME Begun, step # "none"
  PROVE  /\ NameLength \in Nat /\ Reserved \in Nat /\ NamesLength \in Nat
         /\ OriginLength \in Nat /\ DestinationLength \in Nat /\ PayloadLength \in Nat
         /\ NamesLength = OriginLength + DestinationLength
         /\ NamesLength <= 2 * NameLength
         /\ Reserved = PayloadLength + 2 * NameLength + 11
<1>1. given.origin \in Origin /\ given.destination \in Destination /\ given.payload \in Payload
  BY DEF Begun
<1>2. Origin \subseteq Seq(Byte) /\ Destination \subseteq Seq(Byte) /\ Payload \subseteq Seq(Byte)
  BY MessageAssumption
<1>3. OriginLength \in Nat /\ DestinationLength \in Nat /\ PayloadLength \in Nat
  BY <1>1, <1>2 DEF OriginLength, DestinationLength, PayloadLength
<1>4. OriginLength <= NameLength /\ DestinationLength <= NameLength
  <2>1. \A n \in Origin \cup Destination : Len(n) <= NameLength
    BY MessageAssumption
  <2> QED BY <1>1, <2>1 DEF OriginLength, DestinationLength
<1>5. NameLength \in Nat
  BY MessageAssumption
<1> QED BY <1>3, <1>4, <1>5 DEF Reserved, NamesLength, Preamble

\* The texts that are given.
LEMMA GivenTexts ==
  ASSUME Begun, step # "none"
  PROVE  /\ given.origin \in Seq(Byte) /\ given.destination \in Seq(Byte) /\ given.payload \in Seq(Byte)
         /\ given.system \in BOOLEAN
<1>1. Origin \subseteq Seq(Byte) /\ Destination \subseteq Seq(Byte) /\ Payload \subseteq Seq(Byte)
  BY MessageAssumption
<1> QED BY <1>1 DEF Begun

\* The id fits two bytes; the length of a message leaves room for the flag.
LEMMA GivenSmall ==
  ASSUME Begun, step # "none"
  PROVE  given.id \in Nat /\ given.id < 256 * 256 /\ Reserved < 128 * 256
<1>1. given.payload \in Payload /\ given.id \in Id
  BY DEF Begun
<1>2. \A p \in Payload : Len(p) + Preamble < 128 * 256
  BY MessageAssumption
<1>3. Id \subseteq 0..256 * 256 - 1
  BY MessageAssumption
<1>4. \A i \in 0..256 * 256 - 1 : i \in Nat /\ i < 256 * 256
  <2> DEFINE m == 256 * 256
  <2>1. m \in Nat
    OBVIOUS
  <2> HIDE DEF m
  <2>2. \A i \in 0..m - 1 : i \in Nat /\ i < m
    BY <2>1
  <2> QED BY <2>2 DEF m
<1>5. given.id \in Nat /\ given.id < 256 * 256
  BY <1>1, <1>3, <1>4
<1>6. Reserved < 128 * 256
  BY <1>1, <1>2 DEF Reserved, PayloadLength
<1> QED BY <1>5, <1>6

\* A word is its two bytes.
LEMMA WordBytes ==
  ASSUME NEW n \in Nat, n < 256 * 256
  PROVE  High(n) \in Byte /\ Low(n) \in Byte /\ 256 * High(n) + Low(n) = n
BY DEF High, Low, Byte

\* Two bytes in the buffer.
LEMMA PairHolds ==
  ASSUME NEW b, NEW i \in Nat, NEW x, NEW y
  PROVE  Holds(b, i, <<x, y>>) <=> b.buffer[i] = x /\ b.buffer[i + 1] = y
<1>1. Len(<<x, y>>) = 2 /\ <<x, y>>[1] = x /\ <<x, y>>[2] = y
  OBVIOUS
<1>2. \A k \in 1..2 : k = 1 \/ k = 2
  OBVIOUS
<1>3. i + 1 - 1 = i /\ i + 2 - 1 = i + 1
  OBVIOUS
<1> QED BY <1>1, <1>2, <1>3 DEF Holds

\* Two bytes that are appended.
LEMMA PairAppended ==
  ASSUME NEW C \in Nat, NEW b \in Builders(C), NEW x \in Byte, NEW y \in Byte,
         b.write = b.length, b.write + 2 < C
  PROVE  /\ AppendFormatted(b, <<x, y>>) \in Builders(C)
         /\ Appended(b, <<x, y>>, 2, AppendFormatted(b, <<x, y>>))
         /\ AppendBytes(b, <<x, y>>) \in Builders(C)
         /\ Appended(b, <<x, y>>, 2, AppendBytes(b, <<x, y>>))
<1> DEFINE t == <<x, y>>
<1>1. t \in Seq(Byte) /\ Len(t) = 2
  OBVIOUS
<1> HIDE DEF t
<1>2. b.write + Len(t) < C /\ b.write + Len(t) <= C
  BY <1>1 DEF Builders
<1>3. AppendFormatted(b, t) \in Builders(C) /\ Appended(b, t, Len(t), AppendFormatted(b, t))
  BY <1>1, <1>2, AppendFormattedAppends
<1>4. AppendBytes(b, t) \in Builders(C) /\ Appended(b, t, Len(t), AppendBytes(b, t))
  BY <1>1, <1>2, AppendBytesAppends
<1> QED BY <1>1, <1>3, <1>4 DEF t

\* Two bytes that are kept when others are appended.
LEMMA PairKept ==
  ASSUME NEW C \in Nat, NEW b \in Builders(C), NEW r \in Builders(C), NEW text, NEW n \in Nat,
         Appended(b, text, n, r), NEW i \in Nat, NEW x, NEW y, i + 2 <= b.write, Holds(b, i, <<x, y>>)
  PROVE  Holds(r, i, <<x, y>>)
<1> DEFINE t == <<x, y>>
<1>1. Len(t) = 2
  OBVIOUS
<1> HIDE DEF t
<1>2. Holds(b, i, t) /\ Len(t) \in Nat /\ i + Len(t) <= b.write
  BY <1>1 DEF t
<1>3. Holds(r, i, t)
  BY <1>2, AppendedKeeps
<1> QED BY <1>3 DEF t

\* The header with its placeholders.
LEMMA HeaderAppended ==
  ASSUME NEW C \in Nat, C > 10, NEW b \in Builders(C), b.write = 0, b.length = 0, Fresh(b),
         NEW u \in Byte, NEW v \in Byte, NEW r,
         r = LET hash   == AppendChar(AppendChar(b, 35), 49)
                 length == AppendFormatted(AppendFormatted(hash, <<50, 51>>), <<52, 53>>)
             IN  AppendBytes(length, <<u, v>>)
  PROVE  /\ r \in Builders(C) /\ r.write = 8 /\ r.length = 8 /\ Fresh(r)
         /\ Holds(r, 2, <<50, 51>>) /\ Holds(r, 6, <<u, v>>)
<1> DEFINE b1 == AppendChar(b, 35)
           b2 == AppendChar(b1, 49)
           b3 == AppendFormatted(b2, <<50, 51>>)
           b4 == AppendFormatted(b3, <<52, 53>>)
           b5 == AppendBytes(b4, <<u, v>>)
<1>1. {35, 49, 50, 51, 52, 53} \subseteq Byte
  BY DEF Byte
<1>2. r = b5
  OBVIOUS
<1> HIDE DEF b1, b2, b3, b4, b5
<1>3. b1 \in Builders(C) /\ b1.write = 1 /\ b1.length = 1 /\ Fresh(b1)
  <2>1. b1 \in Builders(C) /\ Appended(b, <<35>>, 1, b1)
    BY <1>1, AppendCharAppends DEF b1
  <2> QED BY <2>1, AppendedKeeps
<1>4. b2 \in Builders(C) /\ b2.write = 2 /\ b2.length = 2 /\ Fresh(b2)
  <2>1. b2 \in Builders(C) /\ Appended(b1, <<49>>, 1, b2)
    BY <1>1, <1>3, AppendCharAppends DEF b2
  <2> QED BY <1>3, <2>1, AppendedKeeps
<1>5. b3 \in Builders(C) /\ b3.write = 4 /\ b3.length = 4 /\ Fresh(b3) /\ Holds(b3, 2, <<50, 51>>)
  <2>1. b3 \in Builders(C) /\ Appended(b2, <<50, 51>>, 2, b3)
    BY <1>1, <1>4, PairAppended DEF b3
  <2>2. Holds(b3, 2, <<50, 51>>)
    <3>1. Len(<<50, 51>>) = 2
      OBVIOUS
    <3> QED BY <1>4, <2>1, <3>1, AppendedHolds
  <2> QED BY <1>4, <2>1, <2>2, AppendedKeeps
<1>6. b4 \in Builders(C) /\ b4.write = 6 /\ b4.length = 6 /\ Fresh(b4) /\ Holds(b4, 2, <<50, 51>>)
  <2>1. b4 \in Builders(C) /\ Appended(b3, <<52, 53>>, 2, b4)
    BY <1>1, <1>5, PairAppended DEF b4
  <2>2. Holds(b4, 2, <<50, 51>>)
    BY <1>5, <2>1, PairKept
  <2> QED BY <1>5, <2>1, <2>2, AppendedKeeps
<1>7. /\ b5 \in Builders(C) /\ b5.write = 8 /\ b5.length = 8 /\ Fresh(b5)
      /\ Holds(b5, 2, <<50, 51>>) /\ Holds(b5, 6, <<u, v>>)
  <2>1. b5 \in Builders(C) /\ Appended(b4, <<u, v>>, 2, b5)
    BY <1>6, PairAppended DEF b5
  <2>2. Holds(b5, 2, <<50, 51>>)
    BY <1>6, <2>1, PairKept
  <2>3. Holds(b5, 6, <<u, v>>)
    <3>1. Len(<<u, v>>) = 2
      OBVIOUS
    <3> QED BY <1>6, <2>1, <3>1, AppendedHolds
  <2> QED BY <1>6, <2>1, <2>2, <2>3, AppendedKeeps
<1> QED BY <1>2, <1>7

\* Every step of compileMessage keeps the invariant.
LEMMA BeginKeepsInv ==
  ASSUME NEW o \in Origin, NEW d \in Destination, NEW p \in Payload, NEW id \in Id,
         NEW s \in BOOLEAN, Begin(o, d, p, id, s)
  PROVE  MessageInv'
<1>1. /\ given' = [origin |-> o, destination |-> d, payload |-> p, id |-> id, system |-> s]
      /\ builder' = Initialized([k \in 0..(Len(p) + Preamble) |-> Stale], Len(p) + Preamble)
      /\ step' = "header"
  BY DEF Begin
<1>2. Len(p) + Preamble \in Nat /\ Reserved' = Len(p) + Preamble
  <2>1. Payload \subseteq Seq(Byte)
    BY MessageAssumption
  <2>2. Len(p) \in Nat
    BY <2>1
  <2>3. NameLength \in Nat
    BY MessageAssumption
  <2> QED BY <1>1, <2>2, <2>3 DEF Preamble, Reserved, PayloadLength
<1>3. Stale \in Byte
  BY MessageAssumption
<1>4. builder' \in Builders(Reserved') /\ builder'.write = 0 /\ builder'.length = 0 /\ Fresh(builder')
  BY <1>1, <1>2, <1>3 DEF Initialized, Builders, Fresh
<1>5. Begun'
  BY <1>1, <1>4 DEF Begun
<1>6. Places'
  BY <1>1, <1>4 DEF Places, Filled
<1>7. Contents' /\ ChecksumsAreDivision'
  BY <1>1 DEF Contents, Filled, Stored, ChecksumsAreDivision
<1> QED BY <1>5, <1>6, <1>7 DEF MessageInv

\* The header.
LEMMA AppendHeaderKeepsInv ==
  ASSUME MessageInv, AppendHeader
  PROVE  MessageInv'
<1>1. step = "header" /\ step' = "names" /\ UNCHANGED <<given, fields>>
  BY DEF AppendHeader
<1>2. Begun /\ builder \in Builders(Reserved) /\ builder.write = 0 /\ builder.length = 0 /\ Fresh(builder)
  BY <1>1 DEF MessageInv, Begun, Places
<1>3. Reserved \in Nat /\ Reserved > 10
  BY <1>1, <1>2, GivenFacts
<1>4. given.id \in Nat /\ given.id < 256 * 256
  BY <1>1, <1>2, GivenSmall
<1>5. High(given.id) \in Byte /\ Low(given.id) \in Byte
  BY <1>4, WordBytes
<1>6. builder' = LET hash   == AppendChar(AppendChar(builder, 35), 49)
                     length == AppendFormatted(AppendFormatted(hash, <<50, 51>>), <<52, 53>>)
                 IN  AppendBytes(length, <<High(given.id), Low(given.id)>>)
  BY DEF AppendHeader, IdBytes
<1>7. /\ builder' \in Builders(Reserved) /\ builder'.write = 8 /\ builder'.length = 8 /\ Fresh(builder')
      /\ Holds(builder', 2, <<50, 51>>) /\ Holds(builder', 6, IdBytes(given.id))
  <2>1. /\ builder' \in Builders(Reserved) /\ builder'.write = 8 /\ builder'.length = 8 /\ Fresh(builder')
        /\ Holds(builder', 2, <<50, 51>>) /\ Holds(builder', 6, <<High(given.id), Low(given.id)>>)
    BY <1>2, <1>3, <1>5, <1>6, HeaderAppended
  <2> QED BY <2>1 DEF IdBytes
<1>8. given' = given /\ Reserved' = Reserved
  BY <1>1 DEF Reserved, PayloadLength
<1>9. Begun'
  <2>1. given \in [origin : Origin, destination : Destination, payload : Payload,
                   id : Id, system : BOOLEAN]
    BY <1>1, <1>2 DEF Begun
  <2> QED BY <1>7, <1>8, <2>1 DEF Begun
<1>10. Places'
  BY <1>1, <1>7 DEF Places, Filled, OriginPosition
<1>11. Contents' /\ ChecksumsAreDivision'
  BY <1>1, <1>7, <1>8 DEF Contents, Filled, Stored, ChecksumsAreDivision, IdPosition, Crc16Position
<1> QED BY <1>9, <1>10, <1>11 DEF MessageInv

\* A text that is written, and its terminator.
LEMMA TextWritten ==
  ASSUME NEW C \in Nat, NEW b \in Builders(C), NEW text \in Seq(Byte), NEW n \in Nat, n = Len(text),
         b.write = b.length, b.write + n < C
  PROVE  /\ AppendChar(AppendText(b, text), 0) \in Builders(C)
         /\ Appended(b, Append(text, 0), n + 1, AppendChar(AppendText(b, text), 0))
         /\ AppendChar(AppendBytes(b, text), 0) \in Builders(C)
         /\ Appended(b, Append(text, 0), n + 1, AppendChar(AppendBytes(b, text), 0))
<1>1. b.write + n <= C
  BY DEF Builders
<1>2. AppendText(b, text) \in Builders(C) /\ Appended(b, text, n, AppendText(b, text))
  BY <1>1, AppendTextAppends
<1>3. AppendBytes(b, text) \in Builders(C) /\ Appended(b, text, n, AppendBytes(b, text))
  BY <1>1, AppendBytesAppends
<1> QED BY <1>2, <1>3, ThenTerminator

\* What it leaves: the text, and what was before it.
LEMMA TextKept ==
  ASSUME NEW C \in Nat, NEW b \in Builders(C), NEW r \in Builders(C), NEW text \in Seq(Byte),
         NEW n \in Nat, n = Len(text), Appended(b, Append(text, 0), n + 1, r), Fresh(b)
  PROVE  /\ r.length = r.write /\ r.write = b.write + (n + 1) /\ Fresh(r)
         /\ Holds(r, b.write, Append(text, 0))
<1>1. n + 1 \in Nat /\ Len(Append(text, 0)) = n + 1
  OBVIOUS
<1>2. r.length = r.write /\ r.write = b.write + (n + 1) /\ Fresh(r)
  BY <1>1, AppendedKeeps
<1>3. Holds(r, b.write, Append(text, 0))
  BY <1>1, AppendedHolds
<1> QED BY <1>2, <1>3

\* A text that was written before.
LEMMA EarlierTextKept ==
  ASSUME NEW C \in Nat, NEW b \in Builders(C), NEW r \in Builders(C), NEW text, NEW n \in Nat,
         Appended(b, text, n, r), NEW other \in Seq(Byte), NEW m \in Nat, m = Len(other),
         NEW i \in Nat, i + (m + 1) <= b.write, Holds(b, i, Append(other, 0))
  PROVE  Holds(r, i, Append(other, 0))
<1>1. Len(Append(other, 0)) \in Nat /\ Len(Append(other, 0)) = m + 1
  OBVIOUS
<1> QED BY <1>1, AppendedKeeps

\* The names.
LEMMA AppendNamesKeepsInv ==
  ASSUME MessageInv, AppendNames
  PROVE  MessageInv'
<1> DEFINE C == Reserved
           b == builder
           named == AppendChar(AppendText(b, given.origin), 0)
           r == AppendChar(AppendText(named, given.destination), 0)
<1>1. /\ step = "names" /\ step' = "payload" /\ given' = given
      /\ builder' = r /\ origin' = b.length /\ destination' = named.length
  BY DEF AppendNames
<1>2. Begun /\ b \in Builders(C) /\ b.write = 8 /\ b.length = 8 /\ Fresh(b)
  BY <1>1 DEF MessageInv, Begun, Places, OriginPosition
<1>3. Holds(b, 2, <<50, 51>>) /\ Holds(b, 6, IdBytes(given.id))
  BY <1>1 DEF MessageInv, Contents, IdPosition, Crc16Position
<1>4. /\ C \in Nat /\ OriginLength \in Nat /\ DestinationLength \in Nat
      /\ 8 + OriginLength + 1 + DestinationLength < C
  BY <1>1, <1>2, GivenFacts
<1>5. /\ given.origin \in Seq(Byte) /\ given.destination \in Seq(Byte)
      /\ OriginLength = Len(given.origin) /\ DestinationLength = Len(given.destination)
  BY <1>1, <1>2, GivenTexts DEF OriginLength, DestinationLength
<1> HIDE DEF b, C
<1>6. named \in Builders(C) /\ Appended(b, Append(given.origin, 0), OriginLength + 1, named)
  <2>1. b.write = b.length /\ b.write + OriginLength < C
    BY <1>2, <1>4
  <2> QED BY <1>2, <1>4, <1>5, <2>1, TextWritten
<1> HIDE DEF named
<1>7. /\ named.length = named.write /\ named.write = 8 + (OriginLength + 1) /\ Fresh(named)
      /\ Holds(named, 8, Append(given.origin, 0))
  BY <1>2, <1>4, <1>5, <1>6, TextKept
<1>8. Holds(named, 2, <<50, 51>>) /\ Holds(named, 6, IdBytes(given.id))
  <2>1. OriginLength + 1 \in Nat /\ 2 + 2 <= b.write /\ 6 + 2 <= b.write
    BY <1>2, <1>4
  <2>2. Holds(b, 6, <<High(given.id), Low(given.id)>>)
    BY <1>3 DEF IdBytes
  <2> QED BY <1>3, <1>4, <1>2, <1>6, <2>1, <2>2, PairKept DEF IdBytes
<1>9. r \in Builders(C) /\ Appended(named, Append(given.destination, 0), DestinationLength + 1, r)
  <2>1. named.write = named.length /\ named.write + DestinationLength < C
    BY <1>4, <1>7
  <2> QED BY <1>4, <1>5, <1>6, <2>1, TextWritten
<1> HIDE DEF r
<1>10. /\ r.length = r.write /\ r.write = named.write + (DestinationLength + 1) /\ Fresh(r)
       /\ Holds(r, named.write, Append(given.destination, 0))
  <2>1. /\ C \in Nat /\ named \in Builders(C) /\ r \in Builders(C) /\ Fresh(named)
        /\ given.destination \in Seq(Byte) /\ DestinationLength \in Nat
        /\ DestinationLength = Len(given.destination)
        /\ Appended(named, Append(given.destination, 0), DestinationLength + 1, r)
    BY <1>4, <1>5, <1>6, <1>7, <1>9
  <2> QED BY <2>1, TextKept
<1>11. Holds(r, 8, Append(given.origin, 0))
  <2>1. 8 + (OriginLength + 1) <= named.write /\ DestinationLength + 1 \in Nat
    BY <1>4, <1>7
  <2> QED BY <1>4, <1>5, <1>6, <1>7, <1>9, <2>1, EarlierTextKept
<1>12. Holds(r, 2, <<50, 51>>) /\ Holds(r, 6, IdBytes(given.id))
  <2>1. DestinationLength + 1 \in Nat /\ 2 + 2 <= named.write /\ 6 + 2 <= named.write
    BY <1>4, <1>7
  <2>2. Holds(named, 6, <<High(given.id), Low(given.id)>>)
    BY <1>8 DEF IdBytes
  <2> QED BY <1>4, <1>6, <1>8, <1>9, <2>1, <2>2, PairKept DEF IdBytes
<1>13. Reserved' = C /\ OriginLength' = OriginLength /\ NamesLength' = OriginLength + DestinationLength
  BY <1>1 DEF C, Reserved, PayloadLength, NamesLength, OriginLength, DestinationLength
<1>14. Begun'
  <2>1. given \in [origin : Origin, destination : Destination, payload : Payload,
                   id : Id, system : BOOLEAN]
    BY <1>1, <1>2 DEF Begun
  <2> QED BY <1>1, <1>9, <1>10, <1>13, <2>1 DEF Begun
<1>15. /\ origin' = 8 /\ destination' = named.write /\ named.write = 8 + OriginLength + 1
       /\ builder'.length = 8 + (OriginLength + DestinationLength) + 2
  BY <1>1, <1>2, <1>4, <1>7, <1>10
<1>16. Places'
  BY <1>1, <1>13, <1>15 DEF Places, Filled, OriginPosition
<1>17. Contents' /\ ChecksumsAreDivision'
  BY <1>1, <1>10, <1>11, <1>12, <1>15
     DEF Contents, Filled, Stored, ChecksumsAreDivision, IdPosition, Crc16Position
<1> QED BY <1>14, <1>16, <1>17 DEF MessageInv

\* The payload.
LEMMA AppendPayloadKeepsInv ==
  ASSUME MessageInv, AppendPayload
  PROVE  MessageInv'
<1> DEFINE C == Reserved
           b == builder
           r == AppendChar(AppendBytes(b, given.payload), 0)
<1>1. /\ step = "payload" /\ step' = "length" /\ given' = given
      /\ builder' = r /\ payload' = b.length /\ origin' = origin /\ destination' = destination
  BY DEF AppendPayload
<1>2. /\ Begun /\ b \in Builders(C) /\ b.write = b.length /\ b.length = 10 + NamesLength /\ Fresh(b)
      /\ origin = 8 /\ destination = origin + OriginLength + 1
  BY <1>1, GivenFacts DEF MessageInv, Begun, Places, OriginPosition
<1>3. Holds(b, 2, <<50, 51>>) /\ Holds(b, 6, IdBytes(given.id))
  BY <1>1 DEF MessageInv, Contents, IdPosition, Crc16Position
<1>4. Holds(b, origin, Append(given.origin, 0)) /\ Holds(b, destination, Append(given.destination, 0))
  BY <1>1 DEF MessageInv, Contents
<1>5. /\ C \in Nat /\ OriginLength \in Nat /\ DestinationLength \in Nat /\ PayloadLength \in Nat
      /\ NamesLength = OriginLength + DestinationLength
      /\ 10 + NamesLength + PayloadLength < C
  BY <1>1, <1>2, GivenFacts
<1>6. /\ given.origin \in Seq(Byte) /\ given.destination \in Seq(Byte) /\ given.payload \in Seq(Byte)
      /\ OriginLength = Len(given.origin) /\ DestinationLength = Len(given.destination)
      /\ PayloadLength = Len(given.payload)
  BY <1>1, <1>2, GivenTexts DEF OriginLength, DestinationLength, PayloadLength
<1> HIDE DEF b, C
<1>7. r \in Builders(C) /\ Appended(b, Append(given.payload, 0), PayloadLength + 1, r)
  <2>1. b.write = b.length /\ b.write + PayloadLength < C
    BY <1>2, <1>5
  <2> QED BY <1>2, <1>5, <1>6, <2>1, TextWritten
<1> HIDE DEF r
<1>8. /\ r.length = r.write /\ r.write = b.write + (PayloadLength + 1) /\ Fresh(r)
      /\ Holds(r, b.write, Append(given.payload, 0))
  <2>1. /\ C \in Nat /\ b \in Builders(C) /\ r \in Builders(C) /\ Fresh(b)
        /\ given.payload \in Seq(Byte) /\ PayloadLength \in Nat /\ PayloadLength = Len(given.payload)
        /\ Appended(b, Append(given.payload, 0), PayloadLength + 1, r)
    BY <1>2, <1>5, <1>6, <1>7
  <2> QED BY <2>1, TextKept
<1>9. Holds(r, origin, Append(given.origin, 0))
  <2>1. origin \in Nat /\ origin + (OriginLength + 1) <= b.write /\ PayloadLength + 1 \in Nat
    BY <1>2, <1>5
  <2>2. /\ C \in Nat /\ b \in Builders(C) /\ r \in Builders(C)
        /\ given.origin \in Seq(Byte) /\ OriginLength \in Nat /\ OriginLength = Len(given.origin)
        /\ Appended(b, Append(given.payload, 0), PayloadLength + 1, r)
        /\ Holds(b, origin, Append(given.origin, 0))
    BY <1>2, <1>4, <1>5, <1>6, <1>7
  <2> QED BY <2>1, <2>2, EarlierTextKept
<1>10. Holds(r, destination, Append(given.destination, 0))
  <2>1. /\ destination \in Nat /\ destination + (DestinationLength + 1) <= b.write
        /\ PayloadLength + 1 \in Nat
    BY <1>2, <1>5
  <2>2. /\ C \in Nat /\ b \in Builders(C) /\ r \in Builders(C)
        /\ given.destination \in Seq(Byte) /\ DestinationLength \in Nat
        /\ DestinationLength = Len(given.destination)
        /\ Appended(b, Append(given.payload, 0), PayloadLength + 1, r)
        /\ Holds(b, destination, Append(given.destination, 0))
    BY <1>2, <1>4, <1>5, <1>6, <1>7
  <2> QED BY <2>1, <2>2, EarlierTextKept
<1>11. Holds(r, 2, <<50, 51>>) /\ Holds(r, 6, IdBytes(given.id))
  <2>1. PayloadLength + 1 \in Nat /\ 2 + 2 <= b.write /\ 6 + 2 <= b.write
    BY <1>2, <1>5
  <2>2. Holds(b, 6, <<High(given.id), Low(given.id)>>)
    BY <1>3 DEF IdBytes
  <2> QED BY <1>2, <1>3, <1>5, <1>7, <2>1, <2>2, PairKept DEF IdBytes
<1>12. /\ Reserved' = C /\ OriginLength' = OriginLength /\ NamesLength' = NamesLength
       /\ PayloadLength' = PayloadLength
  BY <1>1 DEF C, Reserved, PayloadLength, NamesLength, OriginLength, DestinationLength
<1>13. Begun'
  <2>1. given \in [origin : Origin, destination : Destination, payload : Payload,
                   id : Id, system : BOOLEAN]
    BY <1>1, <1>2 DEF Begun
  <2> QED BY <1>1, <1>7, <1>8, <1>12, <2>1 DEF Begun
<1>14. /\ payload' = b.write /\ b.write = 10 + NamesLength
       /\ builder'.length = payload' + PayloadLength + 1
  BY <1>1, <1>2, <1>5, <1>8
<1>15. Places'
  BY <1>1, <1>2, <1>5, <1>12, <1>14 DEF Places, Filled, OriginPosition
<1>16. Contents' /\ ChecksumsAreDivision'
  BY <1>1, <1>8, <1>9, <1>10, <1>11, <1>14
     DEF Contents, Filled, Stored, ChecksumsAreDivision, IdPosition, Crc16Position
<1> QED BY <1>13, <1>15, <1>16 DEF MessageInv

-----------------------------------------------------------------------------
(* The length and the checksums are stored over placeholders.              *)

\* A byte of the buffer.
At(b, i, x) == b.buffer[i] = x

\* Two builders that differ at most from place i to place j.
Differ(b, r, i, j) ==
  /\ r.write = b.write /\ r.length = b.length
  /\ \A k \in 0..b.capacity : k < i \/ k > j => r.buffer[k] = b.buffer[k]

\* What such a change keeps.
LEMMA DifferKeeps ==
  ASSUME NEW C \in Nat, NEW b \in Builders(C), NEW r \in Builders(C), NEW i \in Nat, NEW j \in Nat,
         Differ(b, r, i, j), j < b.write
  PROVE  /\ Fresh(b) => Fresh(r)
         /\ \A bytes : \A m, n \in Nat :
              /\ Len(bytes) = n /\ Holds(b, m, bytes)
              /\ m + n <= i \/ m > j
              /\ m + n <= b.write
              => Holds(r, m, bytes)
<1>1. /\ b.capacity = C /\ r.capacity = C /\ b.write \in 0..C /\ r.write = b.write
      /\ \A k \in 0..C : k < i \/ k > j => r.buffer[k] = b.buffer[k]
  BY DEF Differ, Builders
<1>2. Fresh(b) => Fresh(r)
  BY <1>1 DEF Fresh
<1>3. ASSUME NEW bytes, NEW m \in Nat, NEW n \in Nat, Len(bytes) = n, Holds(b, m, bytes),
             m + n <= i \/ m > j, m + n <= b.write
      PROVE  Holds(r, m, bytes)
  <2> SUFFICES ASSUME NEW k \in 1..n PROVE r.buffer[m + k - 1] = bytes[k]
    BY <1>3 DEF Holds
  <2>1. m + k - 1 \in 0..C /\ (m + k - 1 < i \/ m + k - 1 > j)
    BY <1>1, <1>3
  <2>2. b.buffer[m + k - 1] = bytes[k]
    BY <1>3 DEF Holds
  <2> QED BY <1>1, <2>1, <2>2
<1> QED BY <1>2, <1>3

\* A length that leaves room for the flag.
LEMMA HalfWord ==
  ASSUME NEW n \in Nat, n < 128 * 256
  PROVE  /\ High(n) \in 0..127 /\ Low(n) \in 0..255 /\ 256 * High(n) + Low(n) = n
         /\ ((High(n) % 256) + 0) % 256 = High(n) /\ High(n) % 128 = High(n)
BY DEF High, Low

\* Storing one byte or two.
LEMMA SetPair ==
  ASSUME NEW C \in Nat, NEW b \in Builders(C), NEW i \in Nat, NEW x \in Byte, NEW y \in Byte,
         i + 2 <= C, NEW j, j = i + 1
  PROVE  /\ Set(b, i, <<x, y>>) \in Builders(C)
         /\ Differ(b, Set(b, i, <<x, y>>), i, j)
         /\ At(Set(b, i, <<x, y>>), i, x) /\ At(Set(b, i, <<x, y>>), j, y)
         /\ Set(b, i, <<x>>) \in Builders(C)
         /\ Differ(b, Set(b, i, <<x>>), i, i)
         /\ At(Set(b, i, <<x>>), i, x)
<1> DEFINE t == <<x, y>>
           u == <<x>>
<1>1. t \in Seq(Byte) /\ 2 = Len(t) /\ t[1] = x /\ t[2] = y
  OBVIOUS
<1>2. u \in Seq(Byte) /\ 1 = Len(u) /\ u[1] = x
  OBVIOUS
<1> HIDE DEF t, u
<1>3. b.capacity = C
  BY DEF Builders
<1>4. Set(b, i, t) \in Builders(C) /\ Overwritten(b, i, t, 2, Set(b, i, t))
  <2>1. i + 2 <= C /\ 2 \in Nat
    OBVIOUS
  <2> QED BY <1>1, <2>1, SetStores
<1>5. Set(b, i, u) \in Builders(C) /\ Overwritten(b, i, u, 1, Set(b, i, u))
  <2>1. i + 1 <= C /\ 1 \in Nat
    OBVIOUS
  <2> QED BY <1>2, <2>1, SetStores
<1>6. Differ(b, Set(b, i, t), i, j) /\ Differ(b, Set(b, i, u), i, i)
  BY <1>3, <1>4, <1>5 DEF Differ, Overwritten
<1>7. At(Set(b, i, t), i, x) /\ At(Set(b, i, t), j, y) /\ At(Set(b, i, u), i, x)
  <2>1. i + 1 - 1 = i /\ i + 2 - 1 = j
    OBVIOUS
  <2> QED BY <1>1, <1>2, <1>4, <1>5, <2>1 DEF Overwritten, At
<1> QED BY <1>4, <1>5, <1>6, <1>7 DEF t, u

\* Storing the length, or its first byte.
LEMMA SetAtLength ==
  ASSUME NEW C \in Nat, C > 10, NEW b \in Builders(C), NEW x \in Byte, NEW y \in Byte
  PROVE  /\ Set(b, 4, <<x, y>>) \in Builders(C)
         /\ Differ(b, Set(b, 4, <<x, y>>), 4, 5)
         /\ At(Set(b, 4, <<x, y>>), 4, x) /\ At(Set(b, 4, <<x, y>>), 5, y)
         /\ Set(b, 4, <<x>>) \in Builders(C)
         /\ Differ(b, Set(b, 4, <<x>>), 4, 4)
         /\ At(Set(b, 4, <<x>>), 4, x)
<1>1. 4 \in Nat /\ 4 + 2 <= C /\ 5 = 4 + 1
  OBVIOUS
<1> DEFINE i == 4
           j == 5
<1> HIDE DEF i, j
<1>2. i \in Nat /\ i + 2 <= C /\ j = i + 1
  BY <1>1 DEF i, j
<1>3. /\ Set(b, i, <<x, y>>) \in Builders(C)
      /\ Differ(b, Set(b, i, <<x, y>>), i, j)
      /\ At(Set(b, i, <<x, y>>), i, x) /\ At(Set(b, i, <<x, y>>), j, y)
      /\ Set(b, i, <<x>>) \in Builders(C)
      /\ Differ(b, Set(b, i, <<x>>), i, i)
      /\ At(Set(b, i, <<x>>), i, x)
  BY <1>2, SetPair
<1> QED BY <1>3 DEF i, j

\* setStoredMessageLength and setIsSystemMessage, after the length was cleared.
LEMMA LengthStored ==
  ASSUME NEW C \in Nat, C > 10, NEW b \in Builders(C), NEW n \in Nat, n < 128 * 256,
         NEW s \in BOOLEAN, NEW r, r = SetSystemMessage(SetLength(Set(b, LengthPosition, <<0, 0>>), n), s)
  PROVE  r \in Builders(C) /\ Differ(b, r, 4, 5) /\ Holds(r, 4, LengthBytes(n, s))
<1> DEFINE flag == IF s THEN 128 ELSE 0
           b1 == Set(b, 4, <<0, 0>>)
           b2 == Set(b1, 4, <<High(n), Low(n)>>)
           b3 == Set(b2, 4, <<High(n) + flag>>)
<1>1. /\ High(n) \in 0..127 /\ Low(n) \in 0..255
      /\ ((High(n) % 256) + 0) % 256 = High(n) /\ High(n) % 128 = High(n)
  BY HalfWord
<1>2. 0 \in Byte /\ High(n) \in Byte /\ Low(n) \in Byte /\ High(n) + flag \in Byte
  BY <1>1 DEF Byte
<1>3. 4 \in Nat /\ 4 + 2 <= C /\ 5 = 4 + 1
  OBVIOUS
<1>4. b1 \in Builders(C) /\ Differ(b, b1, 4, 5) /\ At(b1, 4, 0)
  BY <1>2, SetAtLength
<1>5. SetLength(b1, n) = b2
  BY <1>1, <1>4 DEF SetLength, IsSystemMessage, LengthPosition, At
<1> HIDE DEF b1
<1>6. b2 \in Builders(C) /\ Differ(b1, b2, 4, 5) /\ At(b2, 4, High(n)) /\ At(b2, 5, Low(n))
  BY <1>2, <1>4, SetAtLength
<1>7. SetSystemMessage(b2, s) = b3
  BY <1>1, <1>6 DEF SetSystemMessage, LengthPosition, At
<1>8. r = b3
  BY <1>5, <1>7 DEF LengthPosition, b1
<1> HIDE DEF b2, flag
<1>9. b3 \in Builders(C) /\ Differ(b2, b3, 4, 4) /\ At(b3, 4, High(n) + flag)
  BY <1>2, <1>6, SetAtLength
<1> HIDE DEF b3
<1>10. b.capacity = C /\ b1.capacity = C /\ b2.capacity = C
  BY <1>4, <1>6 DEF Builders
<1>11. Differ(b, b3, 4, 5)
  BY <1>4, <1>6, <1>9, <1>10 DEF Differ
<1>12. At(b3, 5, Low(n))
  BY <1>6, <1>9, <1>10 DEF Differ, At
<1>13. Holds(b3, 4, <<High(n) + flag, Low(n)>>)
  BY <1>9, <1>12, PairHolds DEF At
<1> QED BY <1>8, <1>9, <1>11, <1>13 DEF LengthBytes, flag

\* What is read of it.
LEMMA LengthReadBack ==
  ASSUME NEW b, NEW n \in Nat, n < 128 * 256, NEW s \in BOOLEAN, Holds(b, 4, LengthBytes(n, s))
  PROVE  /\ StoredLength(b) = n + (IF s THEN 128 * 256 ELSE 0)
         /\ IsSystemMessage(b) <=> s
<1>1. b.buffer[4] = High(n) + (IF s THEN 128 ELSE 0) /\ b.buffer[5] = Low(n)
  <2>1. 4 \in Nat /\ 4 + 1 = 5
    OBVIOUS
  <2> QED BY <2>1, PairHolds DEF LengthBytes
<1>2. High(n) \in 0..127 /\ Low(n) \in 0..255 /\ 256 * High(n) + Low(n) = n
  BY HalfWord
<1>3. IsSystemMessage(b) <=> s
  BY <1>1, <1>2 DEF IsSystemMessage, LengthPosition
<1>4. StoredLength(b) = 256 * (High(n) + (IF s THEN 128 ELSE 0)) + Low(n)
  BY <1>1 DEF StoredLength, Word, LengthPosition
<1>5. StoredLength(b) = n + (IF s THEN 128 * 256 ELSE 0)
  <2> DEFINE h == High(n)
             l == Low(n)
  <2>1. h \in Nat /\ l \in Nat /\ 256 * h + l = n
    BY <1>2
  <2>2. StoredLength(b) = 256 * (h + (IF s THEN 128 ELSE 0)) + l
    BY <1>4
  <2> HIDE DEF h, l
  <2>3. CASE s
    BY <2>1, <2>2, <2>3
  <2>4. CASE ~s
    BY <2>1, <2>2, <2>4
  <2> QED BY <2>3, <2>4
<1> QED BY <1>3, <1>5

\* Storing the checksums.
LEMMA SetAtChecksums ==
  ASSUME NEW C \in Nat, C > 10, NEW b \in Builders(C), NEW x \in Byte, NEW y \in Byte, NEW z \in Byte
  PROVE  /\ Set(b, 1, <<x>>) \in Builders(C) /\ Differ(b, Set(b, 1, <<x>>), 1, 1)
         /\ Set(b, 1, <<x, y, z>>) \in Builders(C) /\ Differ(b, Set(b, 1, <<x, y, z>>), 1, 3)
         /\ At(Set(b, 1, <<x, y, z>>), 1, x) /\ At(Set(b, 1, <<x, y, z>>), 2, y)
         /\ At(Set(b, 1, <<x, y, z>>), 3, z)
         /\ Set(b, 2, <<x, y>>) \in Builders(C) /\ Differ(b, Set(b, 2, <<x, y>>), 2, 3)
         /\ At(Set(b, 2, <<x, y>>), 2, x) /\ At(Set(b, 2, <<x, y>>), 3, y)
<1> DEFINE t == <<x, y, z>>
           i == 1
           j == 2
           m == 3
<1>1. t \in Seq(Byte) /\ 3 = Len(t) /\ t[1] = x /\ t[2] = y /\ t[3] = z
  OBVIOUS
<1>2. i \in Nat /\ j = i + 1 /\ m = j + 1 /\ j \in Nat /\ i + 2 <= C /\ j + 2 <= C /\ i + 3 <= C /\ 3 \in Nat
  OBVIOUS
<1>3. i = 1 /\ i + 1 - 1 = i /\ i + 2 - 1 = j /\ i + 3 - 1 = m
  OBVIOUS
<1> HIDE DEF t, i, j, m
<1>4. Set(b, i, <<x>>) \in Builders(C) /\ Differ(b, Set(b, i, <<x>>), i, i)
  BY <1>2, SetPair
<1>5. /\ Set(b, j, <<x, y>>) \in Builders(C) /\ Differ(b, Set(b, j, <<x, y>>), j, m)
      /\ At(Set(b, j, <<x, y>>), j, x) /\ At(Set(b, j, <<x, y>>), m, y)
  BY <1>2, SetPair
<1>6. Set(b, i, t) \in Builders(C) /\ Overwritten(b, i, t, 3, Set(b, i, t))
  BY <1>1, <1>2, SetStores
<1>7. b.capacity = C
  BY DEF Builders
<1>8. Differ(b, Set(b, i, t), i, m)
  BY <1>2, <1>3, <1>6, <1>7 DEF Differ, Overwritten
<1>9. At(Set(b, i, t), i, x) /\ At(Set(b, i, t), j, y) /\ At(Set(b, i, t), m, z)
  BY <1>1, <1>3, <1>6 DEF At, Overwritten
<1> QED BY <1>4, <1>5, <1>6, <1>8, <1>9 DEF t, i, j, m

\* Storing the checksum of the message.
LEMMA SetAtCrc16 ==
  ASSUME NEW C \in Nat, C > 10, NEW b \in Builders(C), NEW x \in Byte, NEW y \in Byte
  PROVE  /\ Set(b, 2, <<x, y>>) \in Builders(C) /\ Differ(b, Set(b, 2, <<x, y>>), 2, 3)
         /\ At(Set(b, 2, <<x, y>>), 2, x) /\ At(Set(b, 2, <<x, y>>), 3, y)
BY SetAtChecksums

\* Eight bits are a byte.
LEMMA NumberType == \A x : Number(x) \in Byte
BY DEF Number, Weight, Byte

\* Bytes of the buffer as bits.
LEMMA BitsAtType ==
  ASSUME NEW b, NEW i \in Nat, NEW n \in Nat
  PROVE  BitsAt(b, i, n) \in Seq(Bits8)
<1>1. \A u : Bits(u) \in Bits8
  BY DEF Bits, Bits8
<1>2. BitsAt(b, i, n) \in [1..n -> Bits8]
  BY <1>1 DEF BitsAt
<1> QED BY <1>2, SeqDef

\* Two buffers that have the same bytes from place i on, n of them.
Alike(b, r, i, n) == \A k \in i..(i + n - 1) : r.buffer[k] = b.buffer[k]

\* They depend on those bytes only.
LEMMA SameBits ==
  ASSUME NEW b, NEW r, NEW i \in Nat, NEW n \in Nat, Alike(b, r, i, n)
  PROVE  BitsAt(r, i, n) = BitsAt(b, i, n)
<1>1. \A k \in 1..n : r.buffer[i + k - 1] = b.buffer[i + k - 1]
  BY DEF Alike
<1> QED BY <1>1 DEF BitsAt

\* Nothing up to place 3 is part of the length.
LEMMA SameLength ==
  ASSUME NEW C \in Nat, C > 10, NEW b \in Builders(C), NEW r, NEW i, NEW j \in 0..3, Differ(b, r, i, j)
  PROVE  StoredLength(r) = StoredLength(b)
<1>1. r.buffer[4] = b.buffer[4] /\ r.buffer[5] = b.buffer[5]
  BY DEF Differ, Builders
<1> QED BY <1>1 DEF StoredLength, Word, LengthPosition

\* The checksums that are stored are the remainders of what is in the buffer then.
LEMMA ChecksumsStored ==
  ASSUME NEW C \in Nat, C > 10, ChunkLength \in 8..C, NEW b \in Builders(C), b.length > 10,
         NEW s \in BOOLEAN, b.length < 128 * 256,
         Holds(b, 4, LengthBytes(b.length, s)), Holds(b, 2, <<50, 51>>),
         NEW c, c \in CalculatedCrc16(Set(b, 1, <<CalculatedCrc8(b)>>)),
         NEW r, r = Set(b, 1, <<CalculatedCrc8(b), Number(LowByte(c)), Number(HighByte(c))>>)
  PROVE  /\ r \in Builders(C) /\ Differ(b, r, 1, 3)
         /\ At(r, 1, Number(Remainder8(FirstChunk(Set(r, 2, <<50, 51>>)))))
         /\ ~s => /\ At(r, 2, Number(LowByte(Remainder16(Body(r)))))
                  /\ At(r, 3, Number(HighByte(Remainder16(Body(r)))))
<1> DEFINE t == Set(b, 1, <<CalculatedCrc8(b)>>)
           q == Set(r, 2, <<50, 51>>)
<1>1. CalculatedCrc8(b) \in Byte /\ Number(LowByte(c)) \in Byte /\ Number(HighByte(c)) \in Byte
  BY NumberType DEF CalculatedCrc8
<1>2. /\ r \in Builders(C) /\ Differ(b, r, 1, 3)
      /\ At(r, 1, CalculatedCrc8(b)) /\ At(r, 2, Number(LowByte(c))) /\ At(r, 3, Number(HighByte(c)))
      /\ t \in Builders(C) /\ Differ(b, t, 1, 1)
  BY <1>1, SetAtChecksums
<1>3. 50 \in Byte /\ 51 \in Byte
  BY DEF Byte
<1>4. q \in Builders(C) /\ Differ(r, q, 2, 3) /\ At(q, 2, 50) /\ At(q, 3, 51)
  BY <1>2, <1>3, SetAtCrc16
<1>5. b.buffer[2] = 50 /\ b.buffer[3] = 51
  <2>1. 2 \in Nat /\ 2 + 1 = 3
    OBVIOUS
  <2> QED BY <2>1, PairHolds
<1> HIDE DEF t, q
<1>6. /\ StoredLength(r) = StoredLength(b) /\ StoredLength(t) = StoredLength(b)
      /\ StoredLength(q) = StoredLength(r)
  BY <1>2, <1>4, SameLength
<1>7. b.length \in Nat /\ b.length <= C /\ b.capacity = C /\ r.capacity = C /\ t.capacity = C
  BY <1>2 DEF Builders
<1>8. StoredLength(b) = b.length + (IF s THEN 128 * 256 ELSE 0)
  BY <1>7, LengthReadBack
<1>9. FirstChunk(q) = FirstChunk(b) /\ FirstChunk(b) \in Seq(Bits8)
  <2> DEFINE n == Smaller(ChunkLength, StoredLength(b)) - 2
  <2>1. StoredLength(b) \in Nat /\ StoredLength(b) > 10
    BY <1>7, <1>8
  <2>2. n \in Nat /\ n + 2 <= C
    BY <2>1 DEF Smaller
  <2>3. FirstChunk(b) = BitsAt(b, 2, n) /\ FirstChunk(q) = BitsAt(q, 2, n)
    BY <1>6 DEF FirstChunk, Crc8Position
  <2> HIDE DEF n
  <2>4. Alike(b, q, 2, n)
    <3> SUFFICES ASSUME NEW k \in 2..(2 + n - 1) PROVE q.buffer[k] = b.buffer[k]
      BY DEF Alike
    <3>1. k \in 0..C /\ (k = 2 \/ k = 3 \/ k > 3)
      BY <2>2
    <3> QED BY <1>2, <1>4, <1>5, <1>7, <3>1 DEF Differ, At
  <2>5. 2 \in Nat
    OBVIOUS
  <2>6. BitsAt(q, 2, n) = BitsAt(b, 2, n)
    BY <2>2, <2>4, <2>5, SameBits
  <2>7. BitsAt(b, 2, n) \in Seq(Bits8)
    BY <2>2, <2>5, BitsAtType
  <2> QED BY <2>3, <2>6, <2>7
<1>10. At(r, 1, Number(Remainder8(FirstChunk(q))))
  BY <1>2, <1>9, Crc8IsRemainder DEF CalculatedCrc8
<1>11. ASSUME ~s
       PROVE  /\ At(r, 2, Number(LowByte(Remainder16(Body(r)))))
              /\ At(r, 3, Number(HighByte(Remainder16(Body(r)))))
  <2> DEFINE n == b.length - 8
  <2>1. StoredLength(b) = b.length
    BY <1>7, <1>8, <1>11
  <2>2. n \in Nat /\ 8 + n <= C /\ 8 \in Nat
    BY <1>7
  <2>3. Body(t) = BitsAt(t, 8, n) /\ Body(r) = BitsAt(r, 8, n)
    BY <1>6, <2>1 DEF Body, OriginPosition
  <2> HIDE DEF n
  <2>4. Alike(r, t, 8, n)
    <3> SUFFICES ASSUME NEW k \in 8..(8 + n - 1) PROVE t.buffer[k] = r.buffer[k]
      BY DEF Alike
    <3>1. k \in 0..C /\ k > 3
      BY <2>2
    <3> QED BY <1>2, <1>7, <3>1 DEF Differ
  <2>5. Body(t) = Body(r) /\ Body(r) \in Seq(Bits8)
    <3>1. BitsAt(t, 8, n) = BitsAt(r, 8, n)
      BY <2>2, <2>4, SameBits
    <3>2. BitsAt(r, 8, n) \in Seq(Bits8)
      BY <2>2, BitsAtType
    <3> QED BY <2>3, <3>1, <3>2
  <2>6. c = Crc16Of(Body(t))
    BY <1>6, <1>7, <2>1 DEF CalculatedCrc16, t
  <2>7. c = Remainder16(Body(r))
    BY <2>5, <2>6, Crc16IsRemainder
  <2> QED BY <1>2, <2>7
<1> QED BY <1>2, <1>10, <1>11 DEF q

-----------------------------------------------------------------------------
(* The last steps, and the theorems.                                       *)

\* Where a message's parts are, once its length is stored.
LEMMA FilledPlaces ==
  ASSUME Begun, Places, step \in Filled
  PROVE  /\ Reserved \in Nat /\ Reserved > 10 /\ builder \in Builders(Reserved)
         /\ builder.write = builder.length /\ Fresh(builder)
         /\ builder.length \in 11..Reserved /\ builder.length < 128 * 256
         /\ origin = 8 /\ OriginLength \in Nat /\ DestinationLength \in Nat /\ PayloadLength \in Nat
         /\ destination = origin + OriginLength + 1
         /\ payload = destination + DestinationLength + 1
         /\ builder.length = payload + PayloadLength + 1
<1>1. step # "none"
  BY DEF Filled
<1>2. /\ Reserved \in Nat /\ NameLength \in Nat
      /\ OriginLength \in Nat /\ DestinationLength \in Nat /\ PayloadLength \in Nat
      /\ NamesLength = OriginLength + DestinationLength
      /\ NamesLength <= 2 * NameLength /\ Reserved = PayloadLength + 2 * NameLength + 11
  BY <1>1, GivenFacts
<1>3. /\ origin = 8 /\ destination = origin + OriginLength + 1
      /\ payload = 8 + NamesLength + 2 /\ builder.length = payload + PayloadLength + 1
  BY DEF Places, OriginPosition
<1>4. builder \in Builders(Reserved) /\ builder.write = builder.length /\ Fresh(builder)
  BY <1>1 DEF Begun
<1>5. Reserved < 128 * 256
  BY <1>1, GivenSmall
<1>6. Reserved > 10 /\ builder.length \in 11..Reserved /\ payload = destination + DestinationLength + 1
  BY <1>2, <1>3
<1>7. builder.length < 128 * 256
  BY <1>2, <1>5, <1>6
<1> QED BY <1>2, <1>3, <1>4, <1>6, <1>7

\* The texts of a message outlive a change of its header.
LEMMA TextsKept ==
  ASSUME Begun, Places, step \in Filled, NEW r \in Builders(Reserved),
         NEW i \in Nat, NEW j \in 0..7, Differ(builder, r, i, j)
  PROVE  /\ Holds(builder, origin, Append(given.origin, 0)) => Holds(r, origin, Append(given.origin, 0))
         /\ Holds(builder, destination, Append(given.destination, 0))
              => Holds(r, destination, Append(given.destination, 0))
         /\ Holds(builder, payload, Append(given.payload, 0))
              => Holds(r, payload, Append(given.payload, 0))
         /\ Fresh(r) /\ r.write = builder.write /\ r.length = builder.length
<1>1. step # "none"
  BY DEF Filled
<1>2. /\ Len(Append(given.origin, 0)) = OriginLength + 1
      /\ Len(Append(given.destination, 0)) = DestinationLength + 1
      /\ Len(Append(given.payload, 0)) = PayloadLength + 1
  <2>1. given.origin \in Seq(Byte) /\ given.destination \in Seq(Byte) /\ given.payload \in Seq(Byte)
    BY <1>1, GivenTexts
  <2> QED BY <2>1 DEF OriginLength, DestinationLength, PayloadLength
<1>3. /\ Reserved \in Nat /\ builder \in Builders(Reserved) /\ Fresh(builder)
      /\ builder.write = payload + PayloadLength + 1
      /\ origin = 8 /\ destination = origin + OriginLength + 1
      /\ payload = destination + DestinationLength + 1
      /\ OriginLength \in Nat /\ DestinationLength \in Nat /\ PayloadLength \in Nat
  BY FilledPlaces
<1>4. /\ origin \in Nat /\ destination \in Nat /\ payload \in Nat /\ j \in Nat
      /\ OriginLength + 1 \in Nat /\ DestinationLength + 1 \in Nat /\ PayloadLength + 1 \in Nat
      /\ origin > j /\ origin + (OriginLength + 1) <= builder.write
      /\ destination > j /\ destination + (DestinationLength + 1) <= builder.write
      /\ payload > j /\ payload + (PayloadLength + 1) <= builder.write
      /\ j < builder.write
  BY <1>3
<1>5. /\ Fresh(r)
      /\ \A bytes : \A m, n \in Nat :
              /\ Len(bytes) = n /\ Holds(builder, m, bytes)
              /\ m + n <= i \/ m > j
              /\ m + n <= builder.write
              => Holds(r, m, bytes)
  BY <1>3, <1>4, DifferKeeps
<1> QED BY <1>2, <1>4, <1>5 DEF Differ

\* The lengths do not change after the message was given.
LEMMA GivenUnchanged ==
  ASSUME given' = given
  PROVE  /\ Reserved' = Reserved /\ OriginLength' = OriginLength /\ NamesLength' = NamesLength
         /\ PayloadLength' = PayloadLength
BY DEF Reserved, PayloadLength, NamesLength, OriginLength, DestinationLength

\* The length.
LEMMA StoreLengthKeepsInv ==
  ASSUME MessageInv, StoreLength
  PROVE  MessageInv'
<1> DEFINE r == builder'
<1>1. /\ step = "length" /\ step' = "checksums" /\ given' = given
      /\ origin' = origin /\ destination' = destination /\ payload' = payload
      /\ r = SetSystemMessage(SetLength(Set(builder, LengthPosition, <<0, 0>>),
                                        builder.length), given.system)
  BY DEF StoreLength, fields
<1>2. Begun /\ Places /\ step \in Filled
  BY <1>1 DEF MessageInv, Filled
<1>3. /\ Reserved \in Nat /\ Reserved > 10 /\ builder \in Builders(Reserved)
      /\ builder.length \in Nat /\ builder.length < 128 * 256 /\ builder.write > 10
  BY <1>2, FilledPlaces
<1>4. given.system \in BOOLEAN
  BY <1>1, <1>2, GivenTexts
<1>5. /\ r \in Builders(Reserved) /\ Differ(builder, r, 4, 5)
      /\ Holds(r, 4, LengthBytes(builder.length, given.system))
  BY <1>1, <1>3, <1>4, LengthStored
<1> HIDE DEF r
<1>6. /\ Holds(r, origin, Append(given.origin, 0)) /\ Holds(r, destination, Append(given.destination, 0))
      /\ Holds(r, payload, Append(given.payload, 0))
      /\ Fresh(r) /\ r.write = builder.write /\ r.length = builder.length
  <2>1. /\ Holds(builder, origin, Append(given.origin, 0))
        /\ Holds(builder, destination, Append(given.destination, 0))
        /\ Holds(builder, payload, Append(given.payload, 0))
    BY <1>1 DEF MessageInv, Contents, Filled
  <2>2. 4 \in Nat /\ 5 \in 0..7
    OBVIOUS
  <2> QED BY <1>2, <1>5, <2>1, <2>2, TextsKept
<1>7. Holds(r, 2, <<50, 51>>) /\ Holds(r, 6, IdBytes(given.id))
  <2>1. Holds(builder, 2, <<50, 51>>) /\ Holds(builder, 6, <<High(given.id), Low(given.id)>>)
    BY <1>1 DEF MessageInv, Contents, IdPosition, Crc16Position, IdBytes
  <2>2. builder.buffer[2] = 50 /\ builder.buffer[3] = 51
    <3>1. 2 \in Nat /\ 2 + 1 = 3
      OBVIOUS
    <3> QED BY <2>1, <3>1, PairHolds
  <2>3. builder.buffer[6] = High(given.id) /\ builder.buffer[7] = Low(given.id)
    <3>1. 6 \in Nat /\ 6 + 1 = 7
      OBVIOUS
    <3> QED BY <2>1, <3>1, PairHolds
  <2>4. \A k \in {2, 3, 6, 7} : r.buffer[k] = builder.buffer[k]
    BY <1>3, <1>5 DEF Differ, Builders
  <2>5. 2 \in Nat /\ 6 \in Nat /\ 2 + 1 = 3 /\ 6 + 1 = 7
    OBVIOUS
  <2> QED BY <2>2, <2>3, <2>4, <2>5, PairHolds DEF IdBytes
<1>8. /\ Reserved' = Reserved /\ OriginLength' = OriginLength /\ NamesLength' = NamesLength
      /\ PayloadLength' = PayloadLength
  BY <1>1, GivenUnchanged
<1>9. Begun'
  <2>1. given \in [origin : Origin, destination : Destination, payload : Payload,
                   id : Id, system : BOOLEAN]
    BY <1>1, <1>2 DEF Begun
  <2>2. builder.write = builder.length
    BY <1>1, <1>2 DEF Begun
  <2> QED BY <1>1, <1>5, <1>6, <1>8, <2>1, <2>2 DEF Begun, r
<1>10. Places'
  BY <1>1, <1>2, <1>6, <1>8 DEF Places, Filled, r
<1>11. Contents' /\ ChecksumsAreDivision'
  BY <1>1, <1>5, <1>6, <1>7
     DEF Contents, Filled, Stored, ChecksumsAreDivision, IdPosition, Crc16Position, LengthPosition, r
<1> QED BY <1>9, <1>10, <1>11 DEF MessageInv

\* The checksums.
LEMMA StoreChecksumsKeepsInv ==
  ASSUME MessageInv, StoreChecksums
  PROVE  MessageInv'
<1> DEFINE r == builder'
<1>1. /\ step = "checksums" /\ step' = "compiled" /\ given' = given
      /\ origin' = origin /\ destination' = destination /\ payload' = payload
  BY DEF StoreChecksums, fields
<1>2. PICK c \in CalculatedCrc16(Set(builder, 1, <<CalculatedCrc8(builder)>>)) :
        r = Set(builder, 1, <<CalculatedCrc8(builder), Number(LowByte(c)), Number(HighByte(c))>>)
  BY DEF StoreChecksums, Crc8Position
<1>3. Begun /\ Places /\ step \in Filled
  BY <1>1 DEF MessageInv, Filled
<1>4. /\ Reserved \in Nat /\ Reserved > 10 /\ builder \in Builders(Reserved)
      /\ builder.length > 10 /\ builder.length < 128 * 256 /\ builder.write > 10
  BY <1>3, FilledPlaces
<1>5. given.system \in BOOLEAN
  BY <1>1, <1>3, GivenTexts
<1>6. ChunkLength \in 8..Reserved
  <2>1. ChunkLength \in 8..Preamble /\ NameLength \in Nat
    BY MessageAssumption DEF OriginPosition
  <2>2. PayloadLength \in Nat /\ Reserved = PayloadLength + Preamble
    BY <1>1, <1>3, GivenFacts DEF Reserved
  <2>3. Preamble \in Nat
    BY <2>1 DEF Preamble
  <2> QED BY <1>4, <2>1, <2>2, <2>3
<1>7. /\ Holds(builder, 4, LengthBytes(builder.length, given.system))
      /\ Holds(builder, 2, <<50, 51>>) /\ Holds(builder, 6, <<High(given.id), Low(given.id)>>)
      /\ Holds(builder, origin, Append(given.origin, 0))
      /\ Holds(builder, destination, Append(given.destination, 0))
      /\ Holds(builder, payload, Append(given.payload, 0))
  BY <1>1 DEF MessageInv, Contents, Filled, Stored, LengthPosition, Crc16Position, IdPosition, IdBytes
<1>8. /\ r \in Builders(Reserved) /\ Differ(builder, r, 1, 3)
      /\ At(r, 1, Number(Remainder8(FirstChunk(Set(r, 2, <<50, 51>>)))))
      /\ ~given.system => /\ At(r, 2, Number(LowByte(Remainder16(Body(r)))))
                          /\ At(r, 3, Number(HighByte(Remainder16(Body(r)))))
  BY <1>2, <1>4, <1>5, <1>6, <1>7, ChecksumsStored
<1> HIDE DEF r
<1>9. /\ Holds(r, origin, Append(given.origin, 0)) /\ Holds(r, destination, Append(given.destination, 0))
      /\ Holds(r, payload, Append(given.payload, 0))
      /\ Fresh(r) /\ r.write = builder.write /\ r.length = builder.length
  <2>1. 1 \in Nat /\ 3 \in 0..7
    OBVIOUS
  <2> QED BY <1>3, <1>7, <1>8, <2>1, TextsKept
<1>10. /\ Holds(r, 4, LengthBytes(r.length, given.system))
       /\ Holds(r, 6, IdBytes(given.id))
  <2>1. \A k \in 4..7 : r.buffer[k] = builder.buffer[k]
    BY <1>4, <1>8 DEF Differ, Builders
  <2>2. 4 \in Nat /\ 6 \in Nat /\ 4 + 1 = 5 /\ 6 + 1 = 7
    OBVIOUS
  <2>3. Holds(r, 6, <<High(given.id), Low(given.id)>>)
    BY <1>7, <2>1, <2>2, PairHolds
  <2> DEFINE x == High(builder.length) + (IF given.system THEN 128 ELSE 0)
             y == Low(builder.length)
  <2>4. Holds(builder, 4, <<x, y>>)
    BY <1>7 DEF LengthBytes
  <2> HIDE DEF x, y
  <2>5. Holds(r, 4, <<x, y>>)
    BY <2>1, <2>2, <2>4, PairHolds
  <2> QED BY <1>9, <2>3, <2>5 DEF LengthBytes, IdBytes, x, y
<1>11. /\ Reserved' = Reserved /\ OriginLength' = OriginLength /\ NamesLength' = NamesLength
       /\ PayloadLength' = PayloadLength
  BY <1>1, GivenUnchanged
<1>12. Begun'
  <2>1. given \in [origin : Origin, destination : Destination, payload : Payload,
                   id : Id, system : BOOLEAN]
    BY <1>1, <1>3 DEF Begun
  <2>2. builder.write = builder.length
    BY <1>1, <1>3 DEF Begun
  <2> QED BY <1>1, <1>8, <1>9, <1>11, <2>1, <2>2 DEF Begun, r
<1>13. Places'
  BY <1>1, <1>3, <1>9, <1>11 DEF Places, Filled, r
<1>14. Contents'
  BY <1>1, <1>9, <1>10
     DEF Contents, Filled, Stored, IdPosition, Crc16Position, LengthPosition, r
<1>15. ChecksumsAreDivision'
  BY <1>1, <1>8 DEF ChecksumsAreDivision, At, Crc8Position, Crc16Position, r
<1> QED BY <1>12, <1>13, <1>14, <1>15 DEF MessageInv

\* Whatever is compiled, and however far: what is written is where it belongs, and
\* nothing is written beyond the space that was reserved (Message.cpp:88-115).
THEOREM MessageInvariant == Spec => []MessageInv
<1>1. Init => MessageInv
  BY DEF Init, MessageInv, Begun, Places, Contents, Filled, Stored, ChecksumsAreDivision
<1>2. MessageInv /\ [Next]_vars => MessageInv'
  <2> SUFFICES ASSUME MessageInv, [Next]_vars PROVE MessageInv'
    OBVIOUS
  <2>1. ASSUME NEW o \in Origin, NEW d \in Destination, NEW p \in Payload, NEW id \in Id,
               NEW s \in BOOLEAN, Begin(o, d, p, id, s)
        PROVE  MessageInv'
    BY <2>1, BeginKeepsInv
  <2>2. CASE AppendHeader
    BY <2>2, AppendHeaderKeepsInv
  <2>3. CASE AppendNames
    BY <2>3, AppendNamesKeepsInv
  <2>4. CASE AppendPayload
    BY <2>4, AppendPayloadKeepsInv
  <2>5. CASE StoreLength
    BY <2>5, StoreLengthKeepsInv
  <2>6. CASE StoreChecksums
    BY <2>6, StoreChecksumsKeepsInv
  <2>7. CASE Arrive
    <3>1. /\ step = "compiled" /\ step' = "arrived" /\ given' = given /\ builder' = builder
          /\ origin' = origin /\ destination' = destination /\ payload' = payload
      BY <2>7 DEF Arrive, fields
    <3>2. /\ Reserved' = Reserved /\ OriginLength' = OriginLength /\ NamesLength' = NamesLength
          /\ PayloadLength' = PayloadLength
      BY <3>1, GivenUnchanged
    <3>3. Begun'
      BY <3>1, <3>2 DEF MessageInv, Begun
    <3>4. Places'
      BY <3>1, <3>2 DEF MessageInv, Places, Filled
    <3>5. Contents'
      BY <3>1 DEF MessageInv, Contents, Filled, Stored
    <3>6. ChecksumsAreDivision'
      BY <3>1 DEF ChecksumsAreDivision
    <3> QED BY <3>3, <3>4, <3>5, <3>6 DEF MessageInv
  <2>8. CASE UNCHANGED vars
    <3>1. /\ step' = step /\ given' = given /\ builder' = builder
          /\ origin' = origin /\ destination' = destination /\ payload' = payload
      BY <2>8 DEF vars, fields
    <3>2. /\ Reserved' = Reserved /\ OriginLength' = OriginLength /\ NamesLength' = NamesLength
          /\ PayloadLength' = PayloadLength
      BY <3>1, GivenUnchanged
    <3>3. Begun' /\ Places'
      BY <3>1, <3>2 DEF MessageInv, Begun, Places
    <3>4. Contents' /\ ChecksumsAreDivision'
      BY <3>1 DEF MessageInv, Contents, ChecksumsAreDivision
    <3> QED BY <3>3, <3>4 DEF MessageInv
  <2> QED BY <2>1, <2>2, <2>3, <2>4, <2>5, <2>6, <2>7, <2>8 DEF Next
<1> QED BY <1>1, <1>2, PTL DEF Spec

\* The stored checksums are the remainders of the first chunk and of the body, of
\* messages of any length (Message.cpp:113-114, CRC.cpp:48-65).
THEOREM ChecksumsTheorem == Spec => []ChecksumsAreDivision
<1>1. MessageInv => ChecksumsAreDivision
  BY DEF MessageInv
<1> QED BY <1>1, MessageInvariant, PTL

\* A text that the buffer holds is read whole.
LEMMA BytesRead ==
  ASSUME NEW b, NEW i, NEW text \in Seq(Byte), NEW n, n = Len(text), Holds(b, i, Append(text, 0))
  PROVE  BytesAt(b, i, n + 1) = Append(text, 0)
<1> DEFINE t == Append(text, 0)
<1>1. n + 1 = Len(t) /\ t \in Seq(Byte) /\ n \in Nat
  BY DEF Byte
<1>2. Holds(b, i, t)
  OBVIOUS
<1> HIDE DEF t
<1>3. t = [k \in 1..(n + 1) |-> t[k]]
  BY <1>1
<1>4. \A k \in 1..(n + 1) : b.buffer[i + k - 1] = t[k]
  BY <1>1, <1>2 DEF Holds
<1>5. BytesAt(b, i, n + 1) = t
  BY <1>3, <1>4 DEF BytesAt
<1> QED BY <1>5 DEF t

\* The texts of a compiled message are whole and terminated where the accessors say,
\* for names and payloads of any length (MessageTable.cpp:28).
THEOREM FieldsTheorem == Spec => []FieldsWhole
<1>1. MessageInv => FieldsWhole
  <2> SUFFICES ASSUME MessageInv, step \in {"compiled", "arrived"} PROVE FieldsWhole
    BY DEF FieldsWhole
  <2>1. Begun /\ Places /\ step \in Filled /\ step # "none"
    BY DEF MessageInv, Filled
  <2>2. /\ Holds(builder, origin, Append(given.origin, 0))
        /\ Holds(builder, destination, Append(given.destination, 0))
        /\ Holds(builder, payload, Append(given.payload, 0))
    BY DEF MessageInv, Contents, Filled
  <2>3. given.origin \in Seq(Byte) /\ given.destination \in Seq(Byte) /\ given.payload \in Seq(Byte)
    BY <2>1, GivenTexts
  <2>4. /\ BytesAt(builder, origin, Len(given.origin) + 1) = Append(given.origin, 0)
        /\ BytesAt(builder, destination, Len(given.destination) + 1) = Append(given.destination, 0)
        /\ BytesAt(builder, payload, Len(given.payload) + 1) = Append(given.payload, 0)
    BY <2>2, <2>3, BytesRead
  <2>5. builder.length = payload + Len(given.payload) + 1
    BY <2>1, FilledPlaces DEF PayloadLength
  <2>6. ASSUME NamesLength < 2 * NameLength
        PROVE  builder.buffer[builder.capacity] = Stale
    <3>1. /\ NameLength \in Nat /\ NamesLength \in Nat /\ PayloadLength \in Nat
          /\ NamesLength = OriginLength + DestinationLength
          /\ Reserved = PayloadLength + 2 * NameLength + 11 /\ Reserved \in Nat
      BY <2>1, GivenFacts
    <3>2. /\ builder \in Builders(Reserved) /\ builder.write = builder.length /\ Fresh(builder)
          /\ builder.length = OriginPosition + NamesLength + 2 + PayloadLength + 1
      BY <2>1 DEF Begun, Places
    <3>3. builder.capacity = Reserved /\ builder.write < Reserved
      BY <2>6, <3>1, <3>2 DEF Builders, OriginPosition
    <3> QED BY <3>1, <3>2, <3>3 DEF Fresh
  <2>7. Len(given.origin) + Len(given.destination) = NamesLength
    BY DEF NamesLength, OriginLength, DestinationLength
  <2> QED BY <2>4, <2>5, <2>6, <2>7 DEF FieldsWhole
<1> QED BY <1>1, MessageInvariant, PTL

\* The id and the flag are read as they were given, for every id of two bytes, and the
\* length of a message that is not of the system as what was written (Message.cpp:184-216).
THEOREM HeaderTheorem == Spec => []HeaderRead
<1>1. MessageInv => HeaderRead
  <2> SUFFICES ASSUME MessageInv, step \in {"compiled", "arrived"} PROVE HeaderRead
    BY DEF HeaderRead
  <2>1. Begun /\ Places /\ step \in Filled /\ step # "none"
    BY DEF MessageInv, Filled
  <2>2. builder.length \in Nat /\ builder.length < 128 * 256
    BY <2>1, FilledPlaces
  <2>3. /\ Holds(builder, 4, LengthBytes(builder.length, given.system))
        /\ Holds(builder, 6, <<High(given.id), Low(given.id)>>)
    BY DEF MessageInv, Contents, Filled, Stored, LengthPosition, IdPosition, IdBytes
  <2>4. MessageId(builder) = given.id
    <3>1. builder.buffer[6] = High(given.id) /\ builder.buffer[7] = Low(given.id)
      <4>1. 6 \in Nat /\ 6 + 1 = 7
        OBVIOUS
      <4> QED BY <2>3, <4>1, PairHolds
    <3>2. given.id \in Nat /\ given.id < 256 * 256
      BY <2>1, GivenSmall
    <3>3. 256 * High(given.id) + Low(given.id) = given.id
      BY <3>2, WordBytes
    <3> QED BY <3>1, <3>3 DEF MessageId, Word, IdPosition
  <2>5. given.system \in BOOLEAN
    BY <2>1, GivenTexts
  <2>6. /\ StoredLength(builder) = builder.length + (IF given.system THEN 128 * 256 ELSE 0)
        /\ IsSystemMessage(builder) <=> given.system
    BY <2>2, <2>3, <2>5, LengthReadBack
  <2>7. ~given.system => StoredLength(builder) = builder.length
    BY <2>2, <2>6
  <2> QED BY <2>4, <2>6, <2>7 DEF HeaderRead
<1> QED BY <1>1, MessageInvariant, PTL

-----------------------------------------------------------------------------
(* Altered bits.                                                           *)

\* The bits of the byte that has the bits of x are those of x.
LEMMA BitsOfNumber == \A x \in Bits8 : Bits(Number(x)) = x
<1> SUFFICES ASSUME NEW x \in Bits8 PROVE Bits(Number(x)) = x
  OBVIOUS
<1> DEFINE c == [k \in Bit8 |-> IF k \in x THEN 1 ELSE 0]
<1>1. /\ c[0] \in 0..1 /\ c[1] \in 0..1 /\ c[2] \in 0..1 /\ c[3] \in 0..1
      /\ c[4] \in 0..1 /\ c[5] \in 0..1 /\ c[6] \in 0..1 /\ c[7] \in 0..1
  BY DEF Bit8
<1>2. Number(x) = c[0] + 2 * c[1] + 4 * c[2] + 8 * c[3] + 16 * c[4] + 32 * c[5] + 64 * c[6] + 128 * c[7]
  BY DEF Number, Weight, Bit8
<1>3. \A k \in Bit8 : c[k] = 1 <=> k \in x
  OBVIOUS
<1> HIDE DEF c
<1> DEFINE n == c[0] + 2 * c[1] + 4 * c[2] + 8 * c[3] + 16 * c[4] + 32 * c[5] + 64 * c[6] + 128 * c[7]
<1>4. /\ (n \div 1) % 2 = c[0] /\ (n \div 2) % 2 = c[1] /\ (n \div 4) % 2 = c[2] /\ (n \div 8) % 2 = c[3]
  BY <1>1
<1>5. /\ (n \div 16) % 2 = c[4] /\ (n \div 32) % 2 = c[5] /\ (n \div 64) % 2 = c[6] /\ (n \div 128) % 2 = c[7]
  BY <1>1
<1> HIDE DEF n
<1>6. \A k \in Bit8 : (n \div Weight[k + 1]) % 2 = c[k]
  BY <1>4, <1>5 DEF Bit8, Weight
<1>7. \A k \in Bit8 : (n \div Weight[k + 1]) % 2 = 1 <=> k \in x
  BY <1>3, <1>6
<1>8. Bits(n) = {k \in Bit8 : k \in x}
  BY <1>7 DEF Bits
<1> QED BY <1>2, <1>8 DEF Bits8, n

\* Different bits are different bytes.
LEMMA NumberTells == \A x, y \in Bits8 : Number(x) = Number(y) => x = y
  BY BitsOfNumber

\* What the node it comes to takes the bits of an altered message to be.
LEMMA AlteredBits ==
  ASSUME NEW C \in Nat, NEW b \in Builders(C), NEW D, NEW k \in 0..C
  PROVE  Bits(Altered(b, D).buffer[k]) = SymDiff(Bits(b.buffer[k]), OfByte(k, D))
<1>1. DOMAIN b.buffer = 0..C
  BY DEF Builders
<1>2. Altered(b, D).buffer =
        [i \in 0..C |-> Number(SymDiff(Bits(b.buffer[i]), OfByte(i, D)))]
  BY <1>1 DEF Altered, Builders
<1>3. Altered(b, D).buffer[k] = Number(SymDiff(Bits(b.buffer[k]), OfByte(k, D)))
  BY <1>2
<1>4. Bits(b.buffer[k]) \in Bits8 /\ OfByte(k, D) \in Bits8
  BY DEF Bits, Bits8, OfByte
<1> QED BY <1>3, <1>4, XorType8, BitsOfNumber

\* Places in the buffer, and in what is at places i to i + n - 1 of it.
Inside(i, n, z) == z[1] \in i..(i + n - 1)
From(i, z)      == <<z[1] - i + 1, z[2]>>

\* Two altered bits, of which one or both are in that part of the buffer.
PartTouched(C, b, i, n, x, y) ==
  /\ C \in Nat /\ b \in Builders(C) /\ i \in Nat /\ n \in Nat /\ i + n <= C + 1
  /\ x \in (0..C) \X Bit8 /\ y \in (0..C) \X Bit8
  /\ Inside(i, n, x) \/ Inside(i, n, y)

\* q is p with one or two bits altered.
PartFlipped(n, p, q) == \E u, v \in (1..n) \X Bit8 : q = Flipped(p, {u, v})

\* A part that one or two altered bits are in has one or two altered bits.
LEMMA PartAltered ==
  ASSUME NEW C, NEW b, NEW i, NEW n, NEW x, NEW y, PartTouched(C, b, i, n, x, y)
  PROVE  PartFlipped(n, BitsAt(b, i, n), BitsAt(Altered(b, {x, y}), i, n))
<1> DEFINE D == {x, y}
           u == IF Inside(i, n, x) THEN From(i, x) ELSE From(i, y)
           v == IF Inside(i, n, y) THEN From(i, y) ELSE From(i, x)
           a == BitsAt(b, i, n)
<1>0. /\ C \in Nat /\ b \in Builders(C) /\ i \in Nat /\ n \in Nat /\ i + n <= C + 1
      /\ x \in (0..C) \X Bit8 /\ y \in (0..C) \X Bit8
      /\ Inside(i, n, x) \/ Inside(i, n, y)
  BY DEF PartTouched
<1>1. \A z \in (0..C) \X Bit8 : Inside(i, n, z) => From(i, z) \in (1..n) \X Bit8
  BY <1>0 DEF Inside, From
<1>2. u \in (1..n) \X Bit8 /\ v \in (1..n) \X Bit8
  BY <1>0, <1>1
<1>3. \A z \in (0..C) \X Bit8, k \in 1..n, j \in Bit8 :
         <<i + k - 1, j>> = z <=> Inside(i, n, z) /\ <<k, j>> = From(i, z)
  BY <1>0 DEF Inside, From
<1>4. ASSUME NEW k \in 1..n, NEW j \in Bit8
      PROVE  <<i + k - 1, j>> \in D <=> <<k, j>> \in {u, v}
  BY <1>0, <1>3
<1> HIDE DEF D, u, v
<1>5. \A k \in 1..n : OfByte(i + k - 1, D) = OfByte(k, {u, v})
  BY <1>4 DEF OfByte
<1>6. \A k \in 1..n : i + k - 1 \in 0..C
  BY <1>0
<1>7. \A k \in 1..n : Bits(Altered(b, D).buffer[i + k - 1]) = SymDiff(a[k], OfByte(k, {u, v}))
  <2> SUFFICES ASSUME NEW k \in 1..n
               PROVE  Bits(Altered(b, D).buffer[i + k - 1])
                        = SymDiff(a[k], OfByte(k, {u, v}))
    OBVIOUS
  <2>1. a[k] = Bits(b.buffer[i + k - 1])
    BY DEF BitsAt
  <2> HIDE DEF a
  <2>2. Bits(Altered(b, D).buffer[i + k - 1])
          = SymDiff(Bits(b.buffer[i + k - 1]), OfByte(i + k - 1, D))
    <3> DEFINE m == i + k - 1
    <3>1. m \in 0..C
      BY <1>6
    <3> HIDE DEF m
    <3>2. Bits(Altered(b, D).buffer[m]) = SymDiff(Bits(b.buffer[m]), OfByte(m, D))
      BY <1>0, <3>1, AlteredBits
    <3> QED BY <3>2 DEF m
  <2> QED BY <1>5, <2>1, <2>2
<1>8. Len(a) = n
  <2>1. a \in [1..n -> Bits8]
    BY DEF BitsAt, Bits, Bits8
  <2> HIDE DEF a
  <2> QED BY <1>0, <2>1, LenProperties, SeqDef
<1>9. BitsAt(Altered(b, D), i, n) = Flipped(a, {u, v})
  <2> HIDE DEF a
  <2> QED BY <1>7, <1>8 DEF BitsAt, Flipped, OfByte
<1> QED BY <1>2, <1>9 DEF D, PartFlipped

\* The checksums of the part are not the same then.
LEMMA PartChecked ==
  ASSUME NEW C, NEW b, NEW i, NEW n, NEW x, NEW y, PartTouched(C, b, i, n, x, y)
  PROVE  LET p == BitsAt(Altered(b, {x, y}), i, n)
             q == BitsAt(b, i, n)
         IN  /\ n <= 31 => Crc8Of(p) # Crc8Of(q)
             /\ n <= 4095 => Crc16Of(p) # Crc16Of(q)
<1> DEFINE p == BitsAt(Altered(b, {x, y}), i, n)
           q == BitsAt(b, i, n)
<1>0. n \in Nat /\ i \in Nat
  BY DEF PartTouched
<1>1. PICK u, v \in (1..n) \X Bit8 : p = Flipped(q, {u, v})
  <2>1. PartFlipped(n, q, p)
    BY PartAltered
  <2> HIDE DEF p, q
  <2> QED BY <2>1 DEF PartFlipped
<1>2. q \in Seq(Bits8) /\ Len(q) = n
  <2>1. q \in [1..n -> Bits8]
    BY DEF BitsAt, Bits, Bits8
  <2> HIDE DEF q
  <2> QED BY <1>0, <2>1, LenProperties, SeqDef
<1> HIDE DEF p, q
<1>3. /\ Within(30, u, v) => Crc8Of(p) # Crc8Of(q)
      /\ Within(4094, u, v) => Crc16Of(p) # Crc16Of(q)
  BY <1>1, <1>2, TwoBitsFound
<1>4. u[1] \in 1..n /\ v[1] \in 1..n
  OBVIOUS
<1>5. n <= 31 => Within(30, u, v)
  BY <1>0, <1>4 DEF Within
<1>6. n <= 4095 => Within(4094, u, v)
  BY <1>0, <1>4 DEF Within
<1> QED BY <1>3, <1>5, <1>6 DEF p, q

\* One or two bits behind the place of the first checksum are altered on the way.
DamageInv ==
  step = "arrived" => damaged = {} \/ \E x, y \in FragileBits(builder) : damaged = {x, y}

\* The lengths up to which two altered bits are found: a chunk of 33 bytes, of which
\* the checksum leaves out two, and a message of 4103, of which it leaves out the
\* header.  MAX_BLE_CHUNK_LENGTH is 20 and MAX_COMPILED_MESSAGE_LENGTH 4000.
LengthsCovered == ChunkLength <= 33 /\ \A p \in Payload : Len(p) + Preamble <= 4103

\* The bits that may be altered are in the buffer, behind the first two bytes.
LEMMA FragilePlaces ==
  ASSUME MessageInv, step = "arrived", NEW x \in FragileBits(builder)
  PROVE  x \in (0..Reserved) \X Bit8 /\ x[1] \in 2..(builder.length - 1)
<1>1. Begun /\ Places /\ step \in Filled
  BY DEF MessageInv, Filled
<1>2. builder.length \in 11..Reserved /\ Reserved \in Nat
  BY <1>1, FilledPlaces
<1>3. x \in (2..(builder.length - 1)) \X Bit8
  BY DEF FragileBits, Crc16Position
<1> QED BY <1>2, <1>3

\* The first checksum.
LEMMA ChunkErrorsFound ==
  ASSUME MessageInv, step = "arrived", ChunkLength <= 33,
         NEW x \in FragileBits(builder), NEW y \in FragileBits(builder),
         StoredLength(Altered(builder, {x, y})) = StoredLength(builder),
         x[1] < Smaller(ChunkLength, StoredLength(builder))
           \/ y[1] < Smaller(ChunkLength, StoredLength(builder))
  PROVE  CalculatedCrc8(Altered(builder, {x, y})) # CalculatedCrc8(builder)
<1> DEFINE m == Smaller(ChunkLength, StoredLength(builder))
           n == m - 2
           arrived == Altered(builder, {x, y})
<1>1. Begun /\ Places /\ step \in Filled /\ step # "none"
  BY DEF MessageInv, Filled
<1>2. /\ Reserved \in Nat /\ builder \in Builders(Reserved)
      /\ builder.length \in 11..Reserved /\ builder.length < 128 * 256
  BY <1>1, FilledPlaces
<1>3. StoredLength(builder) = builder.length + (IF given.system THEN 128 * 256 ELSE 0)
  <2>1. Holds(builder, 4, LengthBytes(builder.length, given.system))
    BY DEF MessageInv, Contents, Stored, LengthPosition
  <2>2. given.system \in BOOLEAN
    BY <1>1, GivenTexts
  <2> QED BY <1>2, <2>1, <2>2, LengthReadBack
<1>4. ChunkLength \in 8..Reserved
  <2>1. ChunkLength \in 8..Preamble /\ NameLength \in Nat
    BY MessageAssumption DEF OriginPosition
  <2>2. PayloadLength \in Nat /\ Reserved = PayloadLength + Preamble
    BY <1>1, GivenFacts DEF Reserved
  <2>3. Preamble \in Nat
    BY <2>1 DEF Preamble
  <2> QED BY <1>2, <2>1, <2>2, <2>3
<1>5. m \in 8..ChunkLength
  BY <1>2, <1>3, <1>4 DEF Smaller
<1>6. n \in Nat /\ n <= 31 /\ 2 + n <= Reserved + 1
  <2> HIDE DEF m
  <2> QED BY <1>2, <1>4, <1>5
<1>7. /\ x \in (0..Reserved) \X Bit8 /\ x[1] \in 2..(builder.length - 1)
      /\ y \in (0..Reserved) \X Bit8 /\ y[1] \in 2..(builder.length - 1)
  BY FragilePlaces
<1>8. PartTouched(Reserved, builder, 2, n, x, y)
  <2>1. x[1] < m \/ y[1] < m
    OBVIOUS
  <2> HIDE DEF m
  <2>2. Inside(2, n, x) \/ Inside(2, n, y)
    BY <1>5, <1>7, <2>1 DEF Inside
  <2> QED BY <1>2, <1>6, <1>7, <2>2 DEF PartTouched
<1>9. FirstChunk(arrived) = BitsAt(arrived, 2, n) /\ FirstChunk(builder) = BitsAt(builder, 2, n)
  BY DEF FirstChunk, Crc8Position
<1> HIDE DEF m, n
<1>10. Crc8Of(BitsAt(arrived, 2, n)) # Crc8Of(BitsAt(builder, 2, n))
  BY <1>6, <1>8, PartChecked
<1>11. BitsAt(arrived, 2, n) \in Seq(Bits8) /\ BitsAt(builder, 2, n) \in Seq(Bits8)
  <2>1. 2 \in Nat
    OBVIOUS
  <2> QED BY <1>6, <2>1, BitsAtType
<1>12. \A bytes \in Seq(Bits8) : Crc8Of(bytes) \in Bits8
  BY Crc8Type
<1> HIDE DEF arrived
<1>13. Number(Crc8Of(BitsAt(arrived, 2, n))) # Number(Crc8Of(BitsAt(builder, 2, n)))
  BY <1>10, <1>11, <1>12, NumberTells
<1> QED BY <1>9, <1>13 DEF CalculatedCrc8, arrived

\* The second one.
LEMMA BodyErrorsFound ==
  ASSUME MessageInv, step = "arrived", ~given.system, \A p \in Payload : Len(p) + Preamble <= 4103,
         NEW x \in FragileBits(builder), NEW y \in FragileBits(builder),
         StoredLength(Altered(builder, {x, y})) = StoredLength(builder),
         x[1] >= OriginPosition \/ y[1] >= OriginPosition
  PROVE  CalculatedCrc16(Altered(builder, {x, y})) \cap CalculatedCrc16(builder) = {}
<1> DEFINE n == builder.length - 8
           arrived == Altered(builder, {x, y})
<1>1. Begun /\ Places /\ step \in Filled /\ step # "none"
  BY DEF MessageInv, Filled
<1>2. /\ Reserved \in Nat /\ builder \in Builders(Reserved)
      /\ builder.length \in 11..Reserved /\ builder.length < 128 * 256
  BY <1>1, FilledPlaces
<1>3. StoredLength(builder) = builder.length
  <2>1. Holds(builder, 4, LengthBytes(builder.length, given.system))
    BY DEF MessageInv, Contents, Stored, LengthPosition
  <2>2. given.system \in BOOLEAN
    BY <1>1, GivenTexts
  <2>3. StoredLength(builder) = builder.length + (IF given.system THEN 128 * 256 ELSE 0)
    BY <1>2, <2>1, <2>2, LengthReadBack
  <2> QED BY <1>2, <2>3
<1>4. Reserved <= 4103
  <2>1. given.payload \in Payload
    BY <1>1 DEF Begun
  <2> QED BY <2>1 DEF Reserved, PayloadLength
<1>5. n \in Nat /\ n <= 4095 /\ 8 + n <= Reserved + 1
  BY <1>2, <1>4
<1>6. /\ x \in (0..Reserved) \X Bit8 /\ x[1] \in 2..(builder.length - 1)
      /\ y \in (0..Reserved) \X Bit8 /\ y[1] \in 2..(builder.length - 1)
  BY FragilePlaces
<1>7. PartTouched(Reserved, builder, 8, n, x, y)
  <2>1. Inside(8, n, x) \/ Inside(8, n, y)
    BY <1>2, <1>6 DEF Inside, OriginPosition
  <2> QED BY <1>2, <1>5, <1>6, <2>1 DEF PartTouched
<1>8. /\ CalculatedCrc16(arrived) = {Crc16Of(BitsAt(arrived, 8, n))}
      /\ CalculatedCrc16(builder) = {Crc16Of(BitsAt(builder, 8, n))}
  <2>1. StoredLength(arrived) = builder.length
    BY <1>3
  <2>2. arrived.capacity = Reserved /\ builder.capacity = Reserved
    BY <1>2 DEF Altered, Builders
  <2>3. ~ (builder.length > Reserved)
    BY <1>2
  <2> HIDE DEF arrived
  <2> QED BY <1>3, <2>1, <2>2, <2>3 DEF CalculatedCrc16, Body, OriginPosition
<1> HIDE DEF n
<1>9. Crc16Of(BitsAt(arrived, 8, n)) # Crc16Of(BitsAt(builder, 8, n))
  BY <1>5, <1>7, PartChecked
<1> HIDE DEF arrived
<1>10. CalculatedCrc16(arrived) \cap CalculatedCrc16(builder) = {}
  BY <1>8, <1>9
<1> QED BY <1>10 DEF arrived

\* Up to two altered bits are found, for messages of any length there is and any places
\* of the bits (CRC.cpp:11, CRC.h:9).
THEOREM ErrorsTheorem == LengthsCovered => (Spec => []ErrorsFound)
<1> SUFFICES ASSUME LengthsCovered PROVE Spec => []ErrorsFound
  OBVIOUS
<1>1. Init => DamageInv
  BY DEF Init, DamageInv
<1>2. DamageInv /\ [Next]_vars => DamageInv'
  <2> SUFFICES ASSUME DamageInv, [Next]_vars PROVE DamageInv'
    OBVIOUS
  <2>1. CASE Arrive
    <3>1. builder' = builder /\ damaged' \in {{x, y} : x, y \in FragileBits(builder)} \cup {{}}
      BY <2>1 DEF Arrive
    <3>2. FragileBits(builder)' = FragileBits(builder)
      BY <3>1 DEF FragileBits
    <3> QED BY <3>1, <3>2 DEF DamageInv
  <2>2. CASE UNCHANGED vars
    <3>1. builder' = builder /\ damaged' = damaged /\ step' = step
      BY <2>2 DEF vars
    <3> QED BY <3>1 DEF DamageInv, FragileBits
  <2>3. ASSUME ~ Arrive, Next PROVE step' # "arrived"
    BY <2>3 DEF Next, Begin, AppendHeader, AppendNames, AppendPayload, StoreLength, StoreChecksums
  <2> QED BY <2>1, <2>2, <2>3 DEF DamageInv
<1>3. MessageInv /\ DamageInv => ErrorsFound
  <2> SUFFICES ASSUME MessageInv, DamageInv, step = "arrived",
                      StoredLength(Altered(builder, damaged)) = StoredLength(builder)
               PROVE  /\ (\E x \in damaged : x[1] < Smaller(ChunkLength, StoredLength(builder))) =>
                           CalculatedCrc8(Altered(builder, damaged)) # CalculatedCrc8(builder)
                      /\ ~given.system /\ (\E x \in damaged : x[1] >= OriginPosition) =>
                           CalculatedCrc16(Altered(builder, damaged)) \cap CalculatedCrc16(builder) = {}
    BY DEF ErrorsFound
  <2>1. CASE damaged = {}
    BY <2>1
  <2>2. ASSUME NEW x \in FragileBits(builder), NEW y \in FragileBits(builder), damaged = {x, y}
        PROVE  /\ (\E z \in damaged : z[1] < Smaller(ChunkLength, StoredLength(builder))) =>
                    CalculatedCrc8(Altered(builder, damaged)) # CalculatedCrc8(builder)
               /\ ~given.system /\ (\E z \in damaged : z[1] >= OriginPosition) =>
                    CalculatedCrc16(Altered(builder, damaged)) \cap CalculatedCrc16(builder) = {}
    <3>1. ChunkLength <= 33 /\ \A p \in Payload : Len(p) + Preamble <= 4103
      BY DEF LengthsCovered
    <3>2. StoredLength(Altered(builder, {x, y})) = StoredLength(builder)
      BY <2>2
    <3>3. ASSUME NEW z \in damaged, z[1] < Smaller(ChunkLength, StoredLength(builder))
          PROVE  CalculatedCrc8(Altered(builder, {x, y})) # CalculatedCrc8(builder)
      <4>1. x[1] < Smaller(ChunkLength, StoredLength(builder)) \/ y[1] < Smaller(ChunkLength, StoredLength(builder))
        BY <2>2, <3>3
      <4> QED BY <3>1, <3>2, <4>1, ChunkErrorsFound
    <3>4. ASSUME ~given.system, NEW z \in damaged, z[1] >= OriginPosition
          PROVE  CalculatedCrc16(Altered(builder, {x, y})) \cap CalculatedCrc16(builder) = {}
      <4>1. x[1] >= OriginPosition \/ y[1] >= OriginPosition
        BY <2>2, <3>4
      <4> QED BY <3>1, <3>2, <3>4, <4>1, BodyErrorsFound
    <3> QED BY <2>2, <3>3, <3>4
  <2> QED BY <2>1, <2>2 DEF DamageInv
<1> QED BY <1>1, <1>2, <1>3, MessageInvariant, PTL DEF Spec
=================================================================================
