---------------------------- MODULE MessageBuilder ----------------------------
(***************************************************************************)
(* The class MessageBuilder (Utility/MessageBuilder.cpp): a buffer that is  *)
(* filled from its start, as operators on a builder value.                  *)
(*                                                                         *)
(* The buffer is a function on 0..capacity.  The last place is behind what  *)
(* the builder was given: appending stops in front of it, but terminators   *)
(* are written there.                                                       *)
(***************************************************************************)
EXTENDS Integers, Sequences

Byte == 0..255

Smaller(i, j) == IF i < j THEN i ELSE j
Larger(i, j)  == IF i > j THEN i ELSE j

\* initialize, on a buffer that still holds what was there.
Initialized(buffer, capacity) ==
  [buffer |-> buffer, capacity |-> capacity, write |-> 0, length |-> 0]

\* Writing has come to w; the length only grows.
WrittenTo(b, w) == [b EXCEPT !.write = w, !.length = Larger(@, w)]

Terminated(b) == [b EXCEPT !.buffer[b.write] = 0]

\* append(uint8_t): a full buffer is left alone.
AppendByte(b, u) ==
  IF b.write < b.capacity THEN WrittenTo([b EXCEPT !.buffer[b.write] = u], b.write + 1) ELSE b

\* append(char) terminates, even where there was no room for the character.
AppendChar(b, c) == Terminated(AppendByte(b, c))

\* append(char *) and append(uint8_t *, int), byte by byte.  They give up at
\* the first byte for which there is no room; there is none for the rest.
AppendText(b, text) ==
  LET put[n \in 0..Len(text)] ==
        IF n = 0 THEN b ELSE AppendChar(put[n - 1], text[n])
  IN  put[Len(text)]

AppendBytes(b, bytes) ==
  LET put[n \in 0..Len(bytes)] ==
        IF n = 0 THEN b ELSE AppendByte(put[n - 1], bytes[n])
  IN  put[Len(bytes)]

\* append(const char *, ...): vsnprintf cuts the text so that its terminator
\* fits, but the write index goes on as if it had not.
AppendFormatted(b, text) ==
  LET room == b.capacity - b.write
      cut  == Smaller(Len(text), room - 1)
      put  == [i \in DOMAIN b.buffer |->
                 IF room = 0 \/ i < b.write \/ i > b.write + cut THEN b.buffer[i]
                 ELSE IF i = b.write + cut THEN 0 ELSE text[i - b.write + 1]]
  IN  Terminated(WrittenTo([b EXCEPT !.buffer = put],
                           Smaller(b.write + Len(text), b.capacity)))

\* The bytes from place i on, n of them.
BytesAt(b, i, n) == [k \in 1..n |-> b.buffer[i + k - 1]]
===============================================================================
