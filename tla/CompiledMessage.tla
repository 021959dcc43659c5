--------------------------- MODULE CompiledMessage ---------------------------
(***************************************************************************)
(* A compiled message (Message/Message.cpp): how compileMessage fills the   *)
(* space reserved for it (MessageTable.cpp), and what is read back from     *)
(* the bytes by the node they come to.                                      *)
(*                                                                         *)
(* compileMessage is taken in its five parts: the header with placeholders, *)
(* the names, the payload, the length with the flag of system messages, and *)
(* the checksums.  The flag is a bit of the stored length, and is read as   *)
(* such: a checksum that ends at the stored length of a system message is   *)
(* over memory far behind it, which may hold anything.                      *)
(*                                                                         *)
(* _messageBuilder, which no code that is there ever sets, is taken to lead *)
(* to a builder of the message's own.                                       *)
(***************************************************************************)
EXTENDS MessageBuilder, Crc

CONSTANTS
  NameLength,     \* MAX_BLE_DEVICE_NAME_LENGTH
  ChunkLength,    \* MAX_BLE_CHUNK_LENGTH
  Origin, Destination, Payload,  \* bound: texts, as sequences of bytes
  Id,             \* bound: message ids
  Stale,          \* a byte that was in the buffer before
  Fragile,        \* bound: the places of bytes that may be altered on the way
  Foreign         \* bound: checksums of memory that is not the message's

\* The places of the header.
Crc8Position   == 1
Crc16Position  == 2
LengthPosition == 4
IdPosition     == 6
OriginPosition == 8

\* Mutant: the terminators of the names are forgotten.
PreambleUnterminated == NameLength * 2 + 8 + 1

\* MAX_MESSAGE_BUFFER_PREAMBLE_LENGTH
Preamble == (NameLength + 1) * 2 + 8 + 1

ASSUME MessageAssumption ==
  /\ NameLength \in Nat /\ ChunkLength \in OriginPosition .. Preamble
  /\ \A n \in Origin \cup Destination : Len(n) <= NameLength
  /\ Origin \cup Destination \cup Payload \subseteq Seq(Byte)
  /\ \A p \in Payload : Len(p) + Preamble < 128 * 256   \* MAX_COMPILED_MESSAGE_LENGTH is 4000
  /\ Id \subseteq 0 .. 256 * 256 - 1 /\ Foreign \subseteq Bits16
  /\ Stale \in Byte

VARIABLES
  given,    \* what compileMessage is called with
  builder,  \* _messageBuilder, with the bytes from _startOfCompiledMessage on
  origin, destination, payload,  \* where _origin, _destination, _messagePayload lead to
  step,     \* how far compileMessage has come
  damaged   \* the bits that differ from the message when it has arrived

fields == <<origin, destination, payload>>
vars   == <<given, builder, fields, step, damaged>>

High(u) == u \div 256
Low(u)  == u % 256

\* Stores bytes from place i on.
Set(b, i, bytes) ==
  [b EXCEPT !.buffer = [k \in DOMAIN @ |-> IF k - i + 1 \in DOMAIN bytes
                                            THEN bytes[k - i + 1] ELSE @[k]]]

Word(b, i) == 256 * b.buffer[i] + b.buffer[i + 1]

\* getStoredMessageLength, getMessageId, getStoredMessageCrc16
StoredLength(b) == Word(b, LengthPosition)
MessageId(b)    == Word(b, IdPosition)
StoredCrc16(b)  == Word(b, Crc16Position)

\* getIsSystemMessage
IsSystemMessage(b) == b.buffer[LengthPosition] >= 128

\* setStoredMessageLength keeps the flag, setIsSystemMessage the length.
SetLength(b, n) ==
  Set(b, LengthPosition,
      <<((High(n) % 256) + (IF IsSystemMessage(b) THEN 128 ELSE 0)) % 256, Low(n)>>)

SetSystemMessage(b, s) ==
  Set(b, LengthPosition,
      <<(b.buffer[LengthPosition] % 128) + (IF s THEN 128 ELSE 0)>>)

\* A byte as the bits that Crc works on, and back.
Weight == <<1, 2, 4, 8, 16, 32, 64, 128>>

Bits(u) == {k \in Bit8 : (u \div Weight[k + 1]) % 2 = 1}

Number(x) ==
  LET bit(k) == IF k \in x THEN Weight[k + 1] ELSE 0
  IN  bit(0) + bit(1) + bit(2) + bit(3) + bit(4) + bit(5) + bit(6) + bit(7)

LowByte(x) == x \cap Bit8

BitsAt(b, i, n) == [k \in 1..n |-> Bits(b.buffer[i + k - 1])]

\* What the checksum of the first chunk is over, and that of the message:
\* what follows it in the chunk, and what follows the header.
FirstChunk(b) ==
  BitsAt(b, Crc8Position + 1, Smaller(ChunkLength, StoredLength(b)) - (Crc8Position + 1))

Body(b) == BitsAt(b, OriginPosition, StoredLength(b) - OriginPosition)

\* getCalculatedMessageCrc8, getCalculatedMessageCrc16
CalculatedCrc8(b) == Number(Crc8Of(FirstChunk(b)))

CalculatedCrc16(b) ==
  IF StoredLength(b) > b.capacity THEN Foreign ELSE {Crc16Of(Body(b))}

--------------------------------------------------------------------------------

Nothing == [origin |-> <<>>, destination |-> <<>>, payload |-> <<>>, id |-> 0, system |-> FALSE]

Init ==
  /\ given = Nothing
  /\ builder = Initialized([k \in 0..Preamble |-> Stale], Preamble)
  /\ origin = 0 /\ destination = 0 /\ payload = 0
  /\ step = "none"
  /\ damaged = {}

\* addNewMessageToSend reserves the space, and compileMessage begins.
Begin(o, d, p, id, s) ==
  LET capacity == Len(p) + Preamble
  IN  /\ step = "none"
      /\ given' = [origin |-> o, destination |-> d, payload |-> p, id |-> id, system |-> s]
      /\ builder' = Initialized([k \in 0..capacity |-> Stale], capacity)
      /\ step' = "header"
      /\ UNCHANGED <<fields, damaged>>

\* Mutant: the lower byte of the id comes first.
IdBytesSwapped(id) == <<Low(id), High(id)>>

IdBytes(id) == <<High(id), Low(id)>>

\* '#' and placeholders: 1, 23, 45.
AppendHeader ==
  /\ step = "header"
  /\ builder' = LET hash   == AppendChar(AppendChar(builder, 35), 49)
                    length == AppendFormatted(AppendFormatted(hash, <<50, 51>>), <<52, 53>>)
                IN  AppendBytes(length, IdBytes(given.id))
  /\ step' = "names"
  /\ UNCHANGED <<given, fields, damaged>>

AppendNames ==
  LET named == AppendChar(AppendText(builder, given.origin), 0)
  IN  /\ step = "names"
      /\ origin' = builder.length
      /\ destination' = named.length
      /\ builder' = AppendChar(AppendText(named, given.destination), 0)
      /\ step' = "payload"
      /\ UNCHANGED <<given, payload, damaged>>

AppendPayload ==
  /\ step = "payload"
  /\ payload' = builder.length
  /\ builder' = AppendChar(AppendBytes(builder, given.payload), 0)
  /\ step' = "length"
  /\ UNCHANGED <<given, origin, destination, damaged>>

StoreLength ==
  /\ step = "length"
  /\ builder' = SetSystemMessage(SetLength(Set(builder, LengthPosition, <<0, 0>>),
                                           builder.length), given.system)
  /\ step' = "checksums"
  /\ UNCHANGED <<given, fields, damaged>>

\* The checksum of the first chunk is computed before that of the message is
\* stored in it, with the lower byte first.
StoreChecksums ==
  /\ step = "checksums"
  /\ \E c \in CalculatedCrc16(Set(builder, Crc8Position, <<CalculatedCrc8(builder)>>)) :
       builder' = Set(builder, Crc8Position,
                      <<CalculatedCrc8(builder), Number(LowByte(c)), Number(HighByte(c))>>)
  /\ step' = "compiled"
  /\ UNCHANGED <<given, fields, damaged>>

\* What arrives of b when these bits of it are altered, as places of bytes and of
\* bits in them.
OfByte(k, bits) == {j \in Bit8 : <<k, j>> \in bits}

Altered(b, bits) ==
  [b EXCEPT !.buffer = [k \in DOMAIN @ |-> Number(SymDiff(Bits(@[k]), OfByte(k, bits)))]]

\* The message arrives, with up to two of its bits altered.
FragileBits(b) == (Fragile \cap Crc16Position .. b.length - 1) \X Bit8

Arrive ==
  /\ step = "compiled"
  /\ step' = "arrived"
  /\ damaged' \in {{x, y} : x, y \in FragileBits(builder)} \cup {{}}
  /\ UNCHANGED <<given, builder, fields>>

Next ==
  \/ \E o \in Origin, d \in Destination, p \in Payload, id \in Id, s \in BOOLEAN :
       Begin(o, d, p, id, s)
  \/ AppendHeader \/ AppendNames \/ AppendPayload \/ StoreLength \/ StoreChecksums
  \/ Arrive

Spec == Init /\ [][Next]_vars

--------------------------------------------------------------------------------
(* Properties                                                              *)

(* The three texts are where the accessors say, whole and terminated: the   *)
(* space reserved for a message is enough for two names of any length.  All *)
(* but the last terminator of two longest names is within it (MessageTable.cpp:28). *)
FieldsWhole ==
  step \in {"compiled", "arrived"} =>
    /\ BytesAt(builder, origin, Len(given.origin) + 1) = Append(given.origin, 0)
    /\ BytesAt(builder, destination, Len(given.destination) + 1) = Append(given.destination, 0)
    /\ BytesAt(builder, payload, Len(given.payload) + 1) = Append(given.payload, 0)
    /\ builder.length = payload + Len(given.payload) + 1
    /\ Len(given.origin) + Len(given.destination) < 2 * NameLength =>
         builder.buffer[builder.capacity] = Stale

(* The id and the flag of a system message are read as they were given, and *)
(* the length as what was written, but not of a system message: the flag    *)
(* shares a byte with it, setStoredMessageLength keeps the two apart, and   *)
(* getStoredMessageLength reads both, against Message.cpp:17, which has     *)
(* only the length in those bytes (Message.cpp:184-216).                    *)
HeaderRead ==
  step \in {"compiled", "arrived"} =>
    /\ MessageId(builder) = given.id
    /\ IsSystemMessage(builder) <=> given.system
    /\ ~given.system => StoredLength(builder) = builder.length

(* The checksums in the header are the remainders of the bits they stand    *)
(* for: of the first chunk with a placeholder where the other checksum      *)
(* goes, and of what follows the header, with its low byte first            *)
(* (Message.cpp:113-114, CRC.cpp:48-65).                                    *)
ChecksumsAreDivision ==
  step = "compiled" =>
    /\ builder.buffer[Crc8Position] =
         Number(Remainder8(FirstChunk(Set(builder, Crc16Position, <<50, 51>>))))
    /\ ~given.system =>
         /\ builder.buffer[Crc16Position] = Number(LowByte(Remainder16(Body(builder))))
         /\ builder.buffer[Crc16Position + 1] = Number(HighByte(Remainder16(Body(builder))))

(* Up to two altered bits are found, wherever they are in the first chunk    *)
(* and wherever they are behind the header: what the node that the message   *)
(* comes to calculates (Receive.cpp:127, 142) is not what it would of the    *)
(* message as it was compiled, unless they are bits of its length.  The      *)
(* polynomials are said to be those of such codes (CRC.cpp:11, CRC.h:9).  Of *)
(* a system message the second checksum says nothing.                       *)
ErrorsFound ==
  step = "arrived" =>
    LET arrived == Altered(builder, damaged)
    IN  StoredLength(arrived) = StoredLength(builder) =>
          /\ (\E x \in damaged : x[1] < Smaller(ChunkLength, StoredLength(builder))) =>
               CalculatedCrc8(arrived) # CalculatedCrc8(builder)
          /\ ~given.system /\ (\E x \in damaged : x[1] >= OriginPosition) =>
               CalculatedCrc16(arrived) \cap CalculatedCrc16(builder) = {}

(* Message.cpp:13-16 says the checksums show whether a message got through:  *)
(* one that arrives as it was compiled is then accepted.                    *)
WholeMessageAccepted ==
  step = "arrived" /\ damaged = {} /\ ~given.system =>
    /\ builder.buffer[Crc8Position] = CalculatedCrc8(builder)
    /\ StoredCrc16(builder) \in
         {256 * Number(HighByte(c)) + Number(LowByte(c)) : c \in CalculatedCrc16(builder)}
================================================================================
