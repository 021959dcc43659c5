------------------------------ MODULE LinkSend ------------------------------
(***************************************************************************)
(* Sending over the links of a node (Send.cpp, with BleDeviceTable.cpp and  *)
(* the builder in Utility/MessageBuilder.cpp): a message goes out in        *)
(* chunks, byte by byte, until the stack refuses a byte; the next poll     *)
(* goes on from there.  Once all chunks are out, the message waits for an  *)
(* answer, and goes out again on a resend request or when time is up.      *)
(*                                                                         *)
(* The application's task runs loop(), which polls one device after the    *)
(* other, for received bytes and then for bytes to send.  Both directions  *)
(* share sendAttempts, sendChunkResendRequested and the flags of received  *)
(* chunks.  A disconnect callback may come between any two bytes.          *)
(***************************************************************************)
EXTENDS Integers, Sequences

CONSTANTS
  Dev,             \* the indices of the devices that loop() polls
  Msg,             \* messages, each with a builder; clones share a message
  NoMessage,
  NoDevice,
  Length,          \* MessageBuilder::_length of each message
  Capacity,        \* MessageBuilder::_capacity of each message
  ChunkLength,     \* MAX_BLE_CHUNK_LENGTH
  MaxHopAttempts   \* DEFAULT_MAX_HOP_ATTEMPTS

ASSUME LinkAssumption ==
  /\ Dev \subseteq Nat \ {0}
  /\ NoMessage \notin Msg /\ NoDevice \notin Dev
  /\ Length \in [Msg -> Nat \ {0}] /\ Capacity \in [Msg -> Nat \ {0}]
  /\ \A m \in Msg : Length[m] <= Capacity[m]
  /\ ChunkLength \in Nat /\ ChunkLength > 1
  /\ MaxHopAttempts \in Nat

VARIABLES
  isConnected,
  messageBeingSent,
  sendChunkInProgress,
  indexWithinSendChunk,
  sendAttempts,              \* also counts what receiving asks for again
  sendChunkResendRequested,
  received,                  \* the chunks whose flag in receivedChunkFlags is cleared
  readIndex,                 \* MessageBuilder::_readIndex of each message
  polled,                    \* the device whose pollSendingMessage runs
  reader,                    \* the device whose pollReceivingMessage runs
  written,                   \* history: the bytes of the last chunk begun
  sent                       \* history: the chunks sent whole since the first

progress == <<messageBeingSent, sendChunkInProgress, indexWithinSendChunk, written, sent>>
task == <<polled, reader>>
vars == <<isConnected, progress, sendAttempts, sendChunkResendRequested, received, readIndex, task>>

(* Bound: nothing tells attempts beyond this one apart, except the delay   *)
(* read from DELAY_FOR_ACK, and timeouts come at any time here.            *)
EndOfAttempts == MaxHopAttempts + 1

Counted(n) == IF n > MaxHopAttempts THEN EndOfAttempts ELSE n + 1

-----------------------------------------------------------------------------
(* A message and its chunks.                                               *)

NumberOfChunks(length) ==
  IF length > ChunkLength THEN (length - ChunkLength) \div (ChunkLength - 1) + 1 ELSE 1

Chunks == [m \in Msg |-> NumberOfChunks(Length[m])]

StartOfChunk(c) ==
  IF c > 0 THEN ChunkLength + (c - 1) * (ChunkLength - 1) ELSE 0

(* setReadIndex does not go beyond the capacity.                           *)
Clamped(m, i) == IF i < Capacity[m] THEN i ELSE Capacity[m]

(* MessageBuilder::read at index i: nothing is read from the last place of *)
(* the buffer, a '\0' is given for it and the index stays.  A byte of the  *)
(* message is told by its index.                                           *)
Terminator == -1
ByteAt(m, i) == IF i < Capacity[m] - 1 THEN i ELSE Terminator
AfterRead(m, i) == IF i < Capacity[m] - 1 THEN i + 1 ELSE i

(* What the receiver is to be sent for chunk c: its number and the bytes   *)
(* that follow the ones before.                                            *)
Image(m, c) ==
  [k \in 1..ChunkLength |-> IF k = 1 THEN c ELSE ByteAt(m, StartOfChunk(c) + k - 2)]

(* Which chunks are to be sent is read from the flags of those received.    *)
NeedsToBeSent(d, c) == c \notin received[d]

Idle(d)    == messageBeingSent[d] = NoMessage
Waiting(d) == ~Idle(d) /\ sendChunkInProgress[d] = Chunks[messageBeingSent[d]]
Sending(d) == ~Idle(d) /\ sendChunkInProgress[d] < Chunks[messageBeingSent[d]]

-----------------------------------------------------------------------------
Init ==
  /\ isConnected = [d \in Dev |-> FALSE]
  /\ messageBeingSent = [d \in Dev |-> NoMessage]
  /\ sendChunkInProgress = [d \in Dev |-> 0]
  /\ indexWithinSendChunk = [d \in Dev |-> 0]
  /\ sendAttempts = [d \in Dev |-> 0]
  /\ sendChunkResendRequested = [d \in Dev |-> FALSE]
  /\ received = [d \in Dev |-> {}]
  /\ readIndex = [m \in Msg |-> 0]
  /\ polled = NoDevice /\ reader = NoDevice
  /\ written = [d \in Dev |-> <<>>]
  /\ sent = [d \in Dev |-> {}]

TaskIsFree == polled = NoDevice /\ reader = NoDevice

(* pollSendingMessages reaches device d, which has a message.  As any      *)
(* other sender it sets bleWriteDeviceIndex first, and all senders are of  *)
(* one task: the device that is written to is the one that is polled.      *)
Poll(d) == TaskIsFree /\ ~Idle(d)

(* Mutant of FromTheStart: the chunk of the message before is kept.        *)
FromWhereItWas(d, m) ==
  /\ sendChunkInProgress' = sendChunkInProgress
  /\ indexWithinSendChunk' = [indexWithinSendChunk EXCEPT ![d] = 0]
  /\ written' = [written EXCEPT ![d] = <<>>]
  /\ sent' = [sent EXCEPT ![d] = {}]
  /\ readIndex' = [readIndex EXCEPT ![m] = 0]
  /\ polled' = d /\ UNCHANGED reader

(* The message is sent from chunk 0.                                       *)
FromTheStart(d, m) ==
  /\ sendChunkInProgress' = [sendChunkInProgress EXCEPT ![d] = 0]
  /\ indexWithinSendChunk' = [indexWithinSendChunk EXCEPT ![d] = 0]
  /\ written' = [written EXCEPT ![d] = <<>>]
  /\ sent' = [sent EXCEPT ![d] = {}]
  /\ readIndex' = [readIndex EXCEPT ![m] = 0]
  /\ polled' = d /\ UNCHANGED reader

(* The next message for an idle device is assigned to it, and the device   *)
(* polled at once.                                                         *)
Assign(d, m) ==
  /\ TaskIsFree /\ Idle(d) /\ isConnected[d]
  /\ messageBeingSent' = [messageBeingSent EXCEPT ![d] = m]
  /\ sendAttempts' = [sendAttempts EXCEPT ![d] = 0]
  /\ sendChunkResendRequested' = [sendChunkResendRequested EXCEPT ![d] = FALSE]
  /\ FromTheStart(d, m)
  /\ UNCHANGED <<isConnected, received>>

(* Mutant of ResumeAt: the number of the chunk is counted as one of its     *)
(* bytes in the builder.                                                   *)
ResumeAfter(c, i) == StartOfChunk(c) + i

(* Where in the builder chunk c goes on at its byte i: the first byte of a *)
(* chunk, its number, is not in the builder.                               *)
ResumeAt(c, i) == StartOfChunk(c) + (IF i > 0 THEN i - 1 ELSE 0)

Continue(d) ==
  /\ Poll(d) /\ Sending(d)
  /\ readIndex' = [readIndex EXCEPT ![messageBeingSent[d]] =
                     Clamped(messageBeingSent[d],
                             ResumeAt(sendChunkInProgress[d], indexWithinSendChunk[d]))]
  /\ polled' = d
  /\ UNCHANGED <<isConnected, progress, sendAttempts, sendChunkResendRequested, received, reader>>

(* Mutant of AnswerResend: a resend request is answered in the middle of a  *)
(* message.                                                                *)
AnswerAtOnce(d) ==
  /\ Poll(d) /\ sendChunkResendRequested[d]
  /\ sendChunkResendRequested' = [sendChunkResendRequested EXCEPT ![d] = FALSE]
  /\ FromTheStart(d, messageBeingSent[d])
  /\ UNCHANGED <<isConnected, messageBeingSent, sendAttempts, received>>

AnswerResend(d) ==
  /\ Poll(d) /\ Waiting(d) /\ sendChunkResendRequested[d]
  /\ sendChunkResendRequested' = [sendChunkResendRequested EXCEPT ![d] = FALSE]
  /\ FromTheStart(d, messageBeingSent[d])
  /\ UNCHANGED <<isConnected, messageBeingSent, sendAttempts, received>>

TimeOut(d) ==
  /\ Poll(d) /\ Waiting(d) /\ ~sendChunkResendRequested[d]
  /\ sendAttempts[d] <= MaxHopAttempts
  /\ sendAttempts' = [sendAttempts EXCEPT ![d] = Counted(@)]
  /\ FromTheStart(d, messageBeingSent[d])
  /\ UNCHANGED <<isConnected, messageBeingSent, sendChunkResendRequested, received>>

(* resetSendMessage leaves the indices alone.                              *)
ResetSend(d) ==
  /\ messageBeingSent' = [messageBeingSent EXCEPT ![d] = NoMessage]
  /\ written' = [written EXCEPT ![d] = <<>>]
  /\ sent' = [sent EXCEPT ![d] = {}]
  /\ sendChunkResendRequested' = [sendChunkResendRequested EXCEPT ![d] = FALSE]

GiveUp(d) ==
  /\ Poll(d) /\ Waiting(d) /\ ~sendChunkResendRequested[d]
  /\ sendAttempts[d] > MaxHopAttempts
  /\ sendChunkInProgress' = [sendChunkInProgress EXCEPT ![d] = 0]
  /\ indexWithinSendChunk' = [indexWithinSendChunk EXCEPT ![d] = 0]
  /\ ResetSend(d)
  /\ UNCHANGED <<isConnected, sendAttempts, received, readIndex, task>>

Wait(d) ==
  /\ Poll(d) /\ Waiting(d) /\ ~sendChunkResendRequested[d]
  /\ sendAttempts' = [sendAttempts EXCEPT ![d] = Counted(@)]
  /\ UNCHANGED <<isConnected, progress, sendChunkResendRequested, received, readIndex, task>>

-----------------------------------------------------------------------------
(* The loop of pollSendingMessage, one byte at a time.                     *)

NextByte(d) ==
  IF indexWithinSendChunk[d] = 0
    THEN sendChunkInProgress[d]
    ELSE ByteAt(messageBeingSent[d], readIndex[messageBeingSent[d]])

(* The byte is taken from the builder before the stack accepts it.         *)
AfterNextByte(d) ==
  IF indexWithinSendChunk[d] = 0
    THEN readIndex
    ELSE [readIndex EXCEPT ![messageBeingSent[d]] = AfterRead(messageBeingSent[d], @)]

WithNextByte(d) ==
  [written EXCEPT ![d] = Append(IF indexWithinSendChunk[d] = 0 THEN <<>> ELSE @, NextByte(d))]

(* The poll of a device that still has its message is at chunk c.          *)
AtChunk(d, c) == polled = d /\ ~Idle(d) /\ c = sendChunkInProgress[d]

WriteByte(d) ==
  /\ AtChunk(d, sendChunkInProgress[d]) /\ NeedsToBeSent(d, sendChunkInProgress[d])
  /\ indexWithinSendChunk[d] + 1 < ChunkLength
  /\ indexWithinSendChunk' = [indexWithinSendChunk EXCEPT ![d] = @ + 1]
  /\ written' = WithNextByte(d)
  /\ readIndex' = AfterNextByte(d)
  /\ UNCHANGED <<isConnected, messageBeingSent, sendChunkInProgress, sendAttempts,
                 sendChunkResendRequested, received, task, sent>>

(* The loop comes to chunk c of m, at its byte i, or has been through all   *)
(* and leaves the read indices as they are.                                *)
ComeTo(d, m, c, i, indices) ==
  /\ sendChunkInProgress' = [sendChunkInProgress EXCEPT ![d] = c]
  /\ indexWithinSendChunk' = [indexWithinSendChunk EXCEPT ![d] = i]
  /\ \/ /\ c < Chunks[m]
        /\ readIndex' = [readIndex EXCEPT ![m] = Clamped(m, ResumeAt(c, i))]
        /\ UNCHANGED <<sendAttempts, polled>>
     \/ /\ c = Chunks[m]
        /\ readIndex' = indices
        /\ sendAttempts' = [sendAttempts EXCEPT ![d] = Counted(@)]
        /\ polled' = NoDevice
  /\ UNCHANGED <<isConnected, messageBeingSent, sendChunkResendRequested, received, reader>>

(* The last byte of a chunk.                                               *)
FinishChunk(d) ==
  /\ AtChunk(d, sendChunkInProgress[d]) /\ NeedsToBeSent(d, sendChunkInProgress[d])
  /\ indexWithinSendChunk[d] + 1 = ChunkLength
  /\ written' = WithNextByte(d)
  /\ sent' = IF Len(written'[d]) = ChunkLength
               THEN [sent EXCEPT ![d] = @ \cup {sendChunkInProgress[d]}]
               ELSE sent
  /\ ComeTo(d, messageBeingSent[d], sendChunkInProgress[d] + 1, 0, AfterNextByte(d))

(* A chunk that came from the device in a message of its own is not sent   *)
(* to it.  What was sent of it before stays counted in the next one.       *)
SkipChunk(d) ==
  /\ AtChunk(d, sendChunkInProgress[d]) /\ ~NeedsToBeSent(d, sendChunkInProgress[d])
  /\ written' = [written EXCEPT ![d] = <<>>]
  /\ UNCHANGED sent
  /\ ComeTo(d, messageBeingSent[d], sendChunkInProgress[d] + 1, indexWithinSendChunk[d],
            readIndex)

(* Mutant of Refused: a chunk the stack has cut short is begun again.      *)
RefusedChunk(d) ==
  /\ AtChunk(d, sendChunkInProgress[d]) /\ NeedsToBeSent(d, sendChunkInProgress[d])
  /\ indexWithinSendChunk' = [indexWithinSendChunk EXCEPT ![d] = 0]
  /\ written' = [written EXCEPT ![d] = <<>>]
  /\ readIndex' = AfterNextByte(d)
  /\ polled' = NoDevice
  /\ UNCHANGED <<isConnected, messageBeingSent, sendChunkInProgress, sendAttempts,
                 sendChunkResendRequested, received, reader, sent>>

Refused(d) ==
  /\ AtChunk(d, sendChunkInProgress[d]) /\ NeedsToBeSent(d, sendChunkInProgress[d])
  /\ readIndex' = AfterNextByte(d)
  /\ polled' = NoDevice
  /\ UNCHANGED <<isConnected, progress, sendAttempts, sendChunkResendRequested, received, reader>>

(* The link went down during the poll: no byte is taken any more, and the   *)
(* poll ends.  The code still calls setReadIndex() and read() of sendBuffer, *)
(* which is NULL then (Send.cpp:78, 81).  What else that does is up to the  *)
(* processor, and left out.                                                *)
LinkLost(d) ==
  /\ polled = d /\ Idle(d)
  /\ polled' = NoDevice
  /\ UNCHANGED <<isConnected, progress, sendAttempts, sendChunkResendRequested, received,
                 readIndex, reader>>

-----------------------------------------------------------------------------
(* Receiving, and the links.  A poll that receives begins only while the    *)
(* link is up, and goes on to its end when the link goes down meanwhile.   *)

StartReceiving(d) ==
  /\ TaskIsFree /\ isConnected[d]
  /\ reader' = d
  /\ UNCHANGED <<isConnected, progress, sendAttempts, sendChunkResendRequested, received,
                 readIndex, polled>>

(* A resend request has come from d.  The chunks it lists are noted where  *)
(* nothing looks at them.  The other answers, "$ACK" and "$NACK", leave    *)
(* the sending of a message alone: the attempts a NACK looks at are never  *)
(* counted.                                                                *)
ResendRequested(d) ==
  /\ reader = d
  /\ sendChunkResendRequested' = [sendChunkResendRequested EXCEPT ![d] = TRUE]
  /\ received' = [received EXCEPT ![d] = {}]
  /\ UNCHANGED <<isConnected, progress, sendAttempts, readIndex, task>>

(* The first chunk of a longer message has come from d.  Link shows that no *)
(* other chunk is ever flagged.                                            *)
FirstChunkReceived(d) ==
  /\ reader = d
  /\ received' = [received EXCEPT ![d] = {0}]
  /\ UNCHANGED <<isConnected, progress, sendAttempts, sendChunkResendRequested, readIndex, task>>

(* What was received from d is done with; a message that is, is answered.   *)
ReceiveEnds(d) ==
  /\ reader = d
  /\ received' = [received EXCEPT ![d] = {}]
  /\ UNCHANGED <<isConnected, progress, sendAttempts, sendChunkResendRequested, readIndex, task>>

(* The poll ends, ...                                                      *)
StopReceiving(d) ==
  /\ reader = d
  /\ reader' = NoDevice
  /\ UNCHANGED <<isConnected, progress, sendAttempts, sendChunkResendRequested, received,
                 readIndex, polled>>

(* Mutant of AskForResend: the attempt is not counted.                     *)
AskUncounted(d) ==
  /\ reader = d /\ sendAttempts[d] <= MaxHopAttempts
  /\ reader' = NoDevice
  /\ UNCHANGED <<isConnected, progress, sendAttempts, sendChunkResendRequested, received,
                 readIndex, polled>>

(* ... or nothing was received from d for a while: d is asked to send      *)
(* again, ...                                                              *)
AskForResend(d) ==
  /\ reader = d /\ sendAttempts[d] <= MaxHopAttempts
  /\ sendAttempts' = [sendAttempts EXCEPT ![d] = Counted(@)]
  /\ reader' = NoDevice
  /\ UNCHANGED <<isConnected, progress, sendChunkResendRequested, received, readIndex, polled>>

(* ... or was asked too often, and what was received is given up.          *)
GiveUpReceiving(d) ==
  /\ reader = d /\ sendAttempts[d] > MaxHopAttempts
  /\ received' = [received EXCEPT ![d] = {}]
  /\ reader' = NoDevice
  /\ UNCHANGED <<isConnected, progress, sendAttempts, sendChunkResendRequested, readIndex, polled>>

(* Bound: a device does not come back in the middle of its own poll, which *)
(* ends at the next byte.                                                  *)
Connect(d) ==
  /\ ~isConnected[d] /\ polled # d /\ reader # d
  /\ isConnected' = [isConnected EXCEPT ![d] = TRUE]
  /\ received' \in {received, [received EXCEPT ![d] = {}]}
  /\ UNCHANGED <<progress, sendAttempts, sendChunkResendRequested, readIndex, task>>

Disconnect(d) ==
  /\ isConnected[d]
  /\ isConnected' = [isConnected EXCEPT ![d] = FALSE]
  /\ ResetSend(d)
  /\ received' = [received EXCEPT ![d] = {}]
  /\ UNCHANGED <<sendChunkInProgress, indexWithinSendChunk, sendAttempts, readIndex, task>>

-----------------------------------------------------------------------------
Accepted(d) == WriteByte(d) \/ FinishChunk(d) \/ SkipChunk(d)

Polls(d) == Continue(d) \/ AnswerResend(d) \/ TimeOut(d) \/ GiveUp(d) \/ Wait(d)

Receives(d) ==
  \/ StartReceiving(d) \/ StopReceiving(d)
  \/ ResendRequested(d) \/ FirstChunkReceived(d) \/ ReceiveEnds(d)
  \/ AskForResend(d) \/ GiveUpReceiving(d)

Next ==
  \E d \in Dev :
    \/ \E m \in Msg : Assign(d, m)
    \/ Polls(d) \/ Accepted(d) \/ Refused(d) \/ LinkLost(d)
    \/ Receives(d)
    \/ Connect(d) \/ Disconnect(d)

Spec == Init /\ [][Next]_vars

-----------------------------------------------------------------------------
(* Properties                                                              *)

(* Every variable holds what its declaration says; the poll that runs is   *)
(* in a chunk of its device's message, unless the link has just gone down. *)
TypeOK ==
  /\ isConnected \in [Dev -> BOOLEAN]
  /\ messageBeingSent \in [Dev -> Msg \cup {NoMessage}]
  /\ sendChunkInProgress \in [Dev -> Nat]
  /\ indexWithinSendChunk \in [Dev -> 0..ChunkLength - 1]
  /\ sendAttempts \in [Dev -> 0..EndOfAttempts]
  /\ sendChunkResendRequested \in [Dev -> BOOLEAN]
  /\ received \in [Dev -> SUBSET {0}]
  /\ readIndex \in [Msg -> Nat]
  /\ polled \in Dev \cup {NoDevice} /\ reader \in Dev \cup {NoDevice}
  /\ written \in [Dev -> Seq(Int)]
  /\ sent \in [Dev -> SUBSET Nat]
  /\ \A d \in Dev : ~Idle(d) => isConnected[d] /\ (Sending(d) \/ Waiting(d))
  /\ polled # NoDevice => Sending(polled) \/ Idle(polled)

(* The bytes written last to d are the ones of chunk c up to its byte i.   *)
WrittenUpTo(d, c, i) ==
  LET n == Len(written[d])
  IN  n <= i /\ \A k \in 1..n : written[d][k] = Image(messageBeingSent[d], c)[i - n + k]

(* The bytes that go to the stack for a chunk are the ones up to where the  *)
(* poll is, in order and each exactly once, however often the stack refuses *)
(* one in between, whatever was received meanwhile, and though clones of a *)
(* message share one builder and its read index.  They are all of them,    *)
(* unless the chunk was entered in the middle (Send.cpp:72-102).           *)
ChunkExact ==
  \A d \in Dev : ~Idle(d) =>
    LET c == sendChunkInProgress[d]
        i == indexWithinSendChunk[d]
    IN  IF i > 0 THEN WrittenUpTo(d, c, i)
        ELSE written[d] = <<>> \/ (c > 0 /\ WrittenUpTo(d, c - 1, ChunkLength))

(* Sending implements ChunkSender: a resend request or a timeout starts a  *)
(* message again only after its last chunk, so that the chunks come in     *)
(* turn (Send.cpp:53-70); and whatever is received meanwhile, no chunk but *)
(* the first is passed over, nor the beginning of any but the second       *)
(* (Send.cpp:73, 99-101).                                                  *)
Sender == INSTANCE ChunkSender WITH
  message <- messageBeingSent,
  next    <- [d \in Dev |-> IF Idle(d) THEN 0 ELSE sendChunkInProgress[d]]

SendsInOrder == Sender!Spec

(* Message.cpp:34-39 lays a message out over its chunks with every byte in *)
(* one of them: when all of them have been sent whole, so has every byte.  *)
AllBytesSent ==
  \A d \in Dev : Waiting(d) =>
    LET m == messageBeingSent[d]
    IN  sent[d] = 0..Chunks[m] - 1 =>
          \A i \in 0..Length[m] - 1 :
            \E c \in sent[d], k \in 2..ChunkLength : Image(m, c)[k] = i
=============================================================================
