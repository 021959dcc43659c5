--------------------------- MODULE LinkSend_proofs ---------------------------
(* Theorems about LinkSend: for every set of devices, every set of messages *)
(* and lengths, every length of a chunk and every number of attempts.       *)
EXTENDS LinkSend, TLAPS, SequenceTheorems

-----------------------------------------------------------------------------
(* Chunks and their bytes.                                                  *)

\* Every message has at least one chunk.
LEMMA ChunksPositive ==
  ASSUME NEW m \in Msg
  PROVE  Chunks[m] \in Nat /\ Chunks[m] > 0
<1>1. Length[m] \in Nat /\ ChunkLength - 1 \in Nat /\ ChunkLength - 1 > 0
  BY LinkAssumption
<1>2. ASSUME NEW a \in Nat, NEW b \in Nat, b > 0
      PROVE  a \div b \in Nat
  BY <1>2
<1>3. ASSUME Length[m] > ChunkLength
      PROVE  (Length[m] - ChunkLength) \div (ChunkLength - 1) \in Nat
  <2>1. Length[m] - ChunkLength \in Nat
    BY <1>1, <1>3, LinkAssumption
  <2>. QED  BY <1>1, <1>2, <2>1
<1>4. NumberOfChunks(Length[m]) \in Nat /\ NumberOfChunks(Length[m]) > 0
  BY <1>3 DEF NumberOfChunks
<1>. QED  BY <1>4 DEF Chunks

\* Chunks start at an index of the builder.
LEMMA StartNat ==
  ASSUME NEW c \in Nat
  PROVE  StartOfChunk(c) \in Nat
<1>1. ASSUME NEW a \in Nat, NEW b \in Nat
      PROVE  a * b \in Nat
  BY <1>1
<1>2. CASE c = 0
  BY <1>2 DEF StartOfChunk
<1>3. CASE c > 0
  <2>1. (c - 1) * (ChunkLength - 1) \in Nat
    <3>1. c - 1 \in Nat /\ ChunkLength - 1 \in Nat
      BY <1>3, LinkAssumption
    <3>. QED  BY <1>1, <3>1
  <2>. QED  BY <1>3, <2>1, LinkAssumption DEF StartOfChunk
<1>. QED  BY <1>2, <1>3

\* Reading stays within the naturals, and gives an integer.
LEMMA ReadTypes ==
  ASSUME NEW m \in Msg, NEW i \in Nat
  PROVE  /\ Clamped(m, i) \in Nat
         /\ AfterRead(m, i) \in Nat
         /\ ByteAt(m, i) \in Int
BY LinkAssumption DEF Clamped, AfterRead, ByteAt, Terminator

\* One more attempt is a number of attempts.
LEMMA CountedType ==
  ASSUME NEW n \in 0..EndOfAttempts
  PROVE  Counted(n) \in 0..EndOfAttempts
BY LinkAssumption DEF Counted, EndOfAttempts

-----------------------------------------------------------------------------
(* Types.                                                                   *)

\* The bytes and the read index of the poll that runs.
LEMMA NextByteTypes ==
  ASSUME TypeOK, NEW d \in Dev, polled = d, ~Idle(d)
  PROVE  /\ messageBeingSent[d] \in Msg /\ isConnected[d] /\ Sending(d)
         /\ AfterNextByte(d) \in [Msg -> Nat]
         /\ NextByte(d) \in Int
         /\ WithNextByte(d) \in [Dev -> Seq(Int)]
<1>1. Sending(d)
  BY LinkAssumption DEF TypeOK
<1>2. messageBeingSent[d] \in Msg /\ isConnected[d]
  BY <1>1 DEF TypeOK, Sending, Idle
<1>3. readIndex[messageBeingSent[d]] \in Nat
  BY <1>2 DEF TypeOK
<1>4. AfterNextByte(d) \in [Msg -> Nat]
  BY <1>2, <1>3, ReadTypes DEF AfterNextByte, TypeOK
<1>5. NextByte(d) \in Int
  <2>1. sendChunkInProgress[d] \in Int
    BY DEF TypeOK
  <2>. QED  BY <1>2, <1>3, <2>1, ReadTypes DEF NextByte
<1>6. WithNextByte(d) \in [Dev -> Seq(Int)]
  <2>1. written \in [Dev -> Seq(Int)]
    BY DEF TypeOK
  <2>2. (IF indexWithinSendChunk[d] = 0 THEN <<>> ELSE written[d]) \in Seq(Int)
    BY <2>1
  <2>3. Append(IF indexWithinSendChunk[d] = 0 THEN <<>> ELSE written[d], NextByte(d)) \in Seq(Int)
    BY <1>5, <2>2, AppendProperties
  <2>. QED  BY <2>1, <2>3 DEF WithNextByte
<1>. QED  BY <1>1, <1>2, <1>4, <1>5, <1>6

\* Where a chunk goes on is an index.
LEMMA ResumeNat ==
  ASSUME NEW c \in Nat, NEW i \in Nat
  PROVE  ResumeAt(c, i) \in Nat
BY StartNat DEF ResumeAt

\* Coming to the next chunk keeps the types.
LEMMA ComeToTypes ==
  ASSUME TypeOK, NEW d \in Dev, NEW i \in 0..ChunkLength - 1,
         AtChunk(d, sendChunkInProgress[d]), written' \in [Dev -> Seq(Int)],
         sent' \in [Dev -> SUBSET Nat], NEW indices \in [Msg -> Nat],
         ComeTo(d, messageBeingSent[d], sendChunkInProgress[d] + 1, i, indices)
  PROVE  TypeOK'
<1> DEFINE m == messageBeingSent[d]
           c == sendChunkInProgress[d]
<1>0. /\ isConnected \in [Dev -> BOOLEAN] /\ sendChunkInProgress \in [Dev -> Nat]
      /\ messageBeingSent \in [Dev -> Msg \cup {NoMessage}]
      /\ sendAttempts \in [Dev -> 0..EndOfAttempts] /\ readIndex \in [Msg -> Nat]
      /\ indexWithinSendChunk \in [Dev -> 0..ChunkLength - 1]
      /\ \A e \in Dev : ~Idle(e) => isConnected[e] /\ (Sending(e) \/ Waiting(e))
  BY DEF TypeOK
<1>1. d # NoDevice /\ polled = d /\ ~Idle(d) /\ Counted(sendAttempts[d]) \in 0..EndOfAttempts
  BY <1>0, LinkAssumption, CountedType DEF AtChunk
<1>2. /\ m \in Msg /\ isConnected[d] /\ c \in Nat /\ c < Chunks[m]
      /\ Chunks[m] \in Nat
  BY <1>0, <1>1, NextByteTypes, ChunksPositive DEF Sending
<1>3. Clamped(m, ResumeAt(c + 1, i)) \in Nat
  <2>1. i \in Nat /\ c + 1 \in Nat
    BY <1>2, LinkAssumption
  <2>2. ResumeAt(c + 1, i) \in Nat
    BY <2>1, ResumeNat
  <2>. HIDE DEF m, c
  <2>. QED  BY <1>2, <2>2, ReadTypes
<1>4. readIndex' \in [Msg -> Nat]
  BY <1>0, <1>2, <1>3 DEF ComeTo
<1>5. /\ indexWithinSendChunk' \in [Dev -> 0..ChunkLength - 1]
      /\ sendChunkInProgress' = [sendChunkInProgress EXCEPT ![d] = c + 1]
      /\ UNCHANGED <<isConnected, messageBeingSent, sendChunkResendRequested, received>>
      /\ \/ c + 1 < Chunks[m] /\ UNCHANGED <<sendAttempts, polled>>
         \/ /\ c + 1 = Chunks[m] /\ polled' = NoDevice
            /\ sendAttempts' = [sendAttempts EXCEPT ![d] = Counted(@)]
  BY <1>0 DEF ComeTo
<1>6. sendChunkInProgress' \in [Dev -> Nat] /\ sendChunkInProgress'[d] = c + 1
  BY <1>0, <1>2, <1>5
<1>7. ASSUME NEW e \in Dev, ~Idle(e)'
      PROVE  isConnected'[e] /\ (Sending(e)' \/ Waiting(e)')
  <2>1. CASE e = d
    BY <1>2, <1>5, <1>6, <1>7, <2>1 DEF Idle, Sending, Waiting
  <2>2. CASE e # d
    <3>1. sendChunkInProgress'[e] = sendChunkInProgress[e]
      BY <1>0, <1>5, <2>2
    <3>2. ~Idle(e) /\ messageBeingSent'[e] = messageBeingSent[e]
      BY <1>5, <1>7 DEF Idle
    <3>. QED  BY <1>0, <1>5, <3>1, <3>2 DEF Idle, Sending, Waiting
  <2>. QED  BY <2>1, <2>2
<1>8. polled' # NoDevice => Sending(polled)' \/ Idle(polled)'
  BY <1>1, <1>2, <1>5, <1>6 DEF Idle, Sending
<1>9. sendAttempts' \in [Dev -> 0..EndOfAttempts] /\ polled' \in Dev \cup {NoDevice}
  <2>1. sendAttempts' \in [Dev -> 0..EndOfAttempts]
    BY <1>0, <1>1, <1>5
  <2>2. polled' = polled \/ polled' = NoDevice
    BY <1>5
  <2>. QED  BY <1>1, <2>1, <2>2
<1>10. isConnected' = isConnected /\ messageBeingSent' = messageBeingSent
       /\ sendChunkResendRequested' \in [Dev -> BOOLEAN] /\ received' \in [Dev -> SUBSET {0}]
       /\ reader' \in Dev \cup {NoDevice}
  BY <1>5 DEF TypeOK, ComeTo
<1>. QED  BY <1>0, <1>4, <1>5, <1>6, <1>7, <1>8, <1>9, <1>10 DEF TypeOK

\* Receiving leaves what is sent, and the poll that sends, alone.
LEMMA ReceivesKeep ==
  ASSUME NEW d, Receives(d)
  PROVE  UNCHANGED <<isConnected, progress, readIndex, polled>>
BY DEF Receives, StartReceiving, StopReceiving, ResendRequested, FirstChunkReceived,
       ReceiveEnds, AskForResend, GiveUpReceiving, task

\* What every step of sending and receiving does to the types.
LEMMA TypeStep ==
  ASSUME TypeOK, NEW d \in Dev,
         \/ \E m \in Msg : Assign(d, m)
         \/ Polls(d) \/ Accepted(d) \/ Refused(d) \/ LinkLost(d)
         \/ Receives(d)
         \/ Connect(d) \/ Disconnect(d)
  PROVE  TypeOK'
<1>. USE DEF TypeOK
<1>1. d \in Nat /\ d # NoDevice /\ NoMessage \notin Msg
  BY LinkAssumption
<1>2. 0 \in 0..ChunkLength - 1 /\ 0 \in 0..EndOfAttempts
  BY LinkAssumption DEF EndOfAttempts
<1>3. ~Idle(d) => messageBeingSent[d] \in Msg /\ Chunks[messageBeingSent[d]] \in Nat
                    /\ Chunks[messageBeingSent[d]] > 0
  BY ChunksPositive DEF Idle
<1>4. Counted(sendAttempts[d]) \in 0..EndOfAttempts
  BY CountedType
<1>5. ASSUME NEW m \in Msg, Assign(d, m)
      PROVE  TypeOK'
  <2>1. Chunks[m] \in Nat /\ Chunks[m] > 0 /\ m # NoMessage
    BY <1>1, <1>5, ChunksPositive
  <2>2. /\ messageBeingSent' = [messageBeingSent EXCEPT ![d] = m]
        /\ sendChunkInProgress' = [sendChunkInProgress EXCEPT ![d] = 0]
        /\ isConnected' = isConnected /\ isConnected[d] /\ polled' = d
    BY <1>5 DEF Assign, FromTheStart
  <2>3. ASSUME NEW e \in Dev, ~Idle(e)'
        PROVE  isConnected'[e] /\ (Sending(e)' \/ Waiting(e)')
    BY <2>1, <2>2, <2>3 DEF Idle, Sending, Waiting
  <2>4. Sending(d)'
    BY <2>1, <2>2 DEF Idle, Sending
  <2>5. /\ indexWithinSendChunk' \in [Dev -> 0..ChunkLength - 1]
        /\ sendAttempts' \in [Dev -> 0..EndOfAttempts]
        /\ sendChunkResendRequested' \in [Dev -> BOOLEAN] /\ received' \in [Dev -> SUBSET {0}]
        /\ readIndex' \in [Msg -> Nat] /\ written' \in [Dev -> Seq(Int)]
        /\ sent' \in [Dev -> SUBSET Nat] /\ reader' \in Dev \cup {NoDevice}
    BY <1>2, <1>5 DEF Assign, FromTheStart
  <2>. QED  BY <2>2, <2>3, <2>4, <2>5
<1>6. CASE Continue(d)
  <2> DEFINE k == ResumeAt(sendChunkInProgress[d], indexWithinSendChunk[d])
  <2>1. messageBeingSent[d] \in Msg /\ k \in Nat
    <3>1. sendChunkInProgress[d] \in Nat /\ indexWithinSendChunk[d] \in Nat
      BY LinkAssumption
    <3>. QED  BY <1>3, <1>6, <3>1, ResumeNat DEF Continue, Sending
  <2>2. Clamped(messageBeingSent[d], k) \in Nat
    <3>. HIDE DEF k
    <3>. QED  BY <2>1, ReadTypes
  <2>. QED  BY <1>1, <1>6, <2>1, <2>2 DEF Continue, Poll, TaskIsFree, progress, Idle, Sending, Waiting
<1>7. ASSUME NEW m \in Msg, FromTheStart(d, m), messageBeingSent[d] = m,
             UNCHANGED <<isConnected, messageBeingSent, received>>,
             sendAttempts' \in [Dev -> 0..EndOfAttempts],
             sendChunkResendRequested' \in [Dev -> BOOLEAN]
      PROVE  TypeOK'
  <2>1. /\ sendChunkInProgress' = [sendChunkInProgress EXCEPT ![d] = 0] /\ polled' = d
        /\ indexWithinSendChunk' \in [Dev -> 0..ChunkLength - 1]
        /\ readIndex' \in [Msg -> Nat] /\ written' \in [Dev -> Seq(Int)]
        /\ sent' \in [Dev -> SUBSET Nat] /\ reader' \in Dev \cup {NoDevice}
    BY <1>2, <1>7 DEF FromTheStart
  <2>2. ~Idle(d) /\ Chunks[m] \in Nat /\ Chunks[m] > 0
    BY <1>1, <1>7, ChunksPositive DEF Idle
  <2>3. \A e \in Dev : ~Idle(e)' => isConnected'[e] /\ (Sending(e)' \/ Waiting(e)')
    BY <1>7, <2>1, <2>2 DEF Idle, Sending, Waiting
  <2>4. Sending(polled)'
    BY <1>7, <2>1, <2>2 DEF Idle, Sending
  <2>. QED  BY <1>1, <1>7, <2>1, <2>3, <2>4
<1>8. CASE AnswerResend(d) \/ TimeOut(d)
  <2>1. /\ messageBeingSent[d] \in Msg /\ FromTheStart(d, messageBeingSent[d])
        /\ UNCHANGED <<isConnected, messageBeingSent, received>>
    BY <1>3, <1>8 DEF AnswerResend, TimeOut, Poll
  <2>2. sendAttempts' \in [Dev -> 0..EndOfAttempts]
    BY <1>4, <1>8 DEF AnswerResend, TimeOut
  <2>3. sendChunkResendRequested' \in [Dev -> BOOLEAN]
    BY <1>8 DEF AnswerResend, TimeOut
  <2>. QED  BY <1>7, <2>1, <2>2, <2>3
<1>9. CASE GiveUp(d)
  BY <1>1, <1>2, <1>9 DEF GiveUp, Poll, TaskIsFree, task, ResetSend, Idle, Sending, Waiting
<1>10. CASE Wait(d)
  BY <1>1, <1>4, <1>10 DEF Wait, Poll, TaskIsFree, task, progress, Idle, Sending, Waiting
<1>11. CASE WriteByte(d)
  <2>1. indexWithinSendChunk[d] + 1 \in 0..ChunkLength - 1
    BY <1>11, LinkAssumption DEF WriteByte
  <2>2. /\ indexWithinSendChunk' \in [Dev -> 0..ChunkLength - 1]
        /\ readIndex' \in [Msg -> Nat]
        /\ written' \in [Dev -> Seq(Int)]
    BY <1>11, <2>1, NextByteTypes DEF WriteByte, AtChunk
  <2>3. UNCHANGED <<isConnected, messageBeingSent, sendChunkInProgress, sendAttempts,
                    sendChunkResendRequested, received, polled, reader, sent>>
    BY <1>11 DEF WriteByte, task
  <2>. QED  BY <2>2, <2>3 DEF Idle, Sending, Waiting
<1>12. CASE FinishChunk(d)
  <2>1. AtChunk(d, sendChunkInProgress[d]) /\ written' \in [Dev -> Seq(Int)]
    BY <1>12, NextByteTypes DEF FinishChunk, AtChunk
  <2>2. AfterNextByte(d) \in [Msg -> Nat]
    BY <2>1, NextByteTypes DEF AtChunk
  <2>3. sent' \in [Dev -> SUBSET Nat]
    BY <1>12 DEF FinishChunk
  <2>. QED  BY <1>2, <1>12, <2>1, <2>2, <2>3, ComeToTypes DEF FinishChunk
<1>13. CASE SkipChunk(d)
  <2>1. AtChunk(d, sendChunkInProgress[d]) /\ written' \in [Dev -> Seq(Int)]
    BY <1>13 DEF SkipChunk
  <2>2. sent' \in [Dev -> SUBSET Nat]
    BY <1>13 DEF SkipChunk
  <2>. QED  BY <1>13, <2>1, <2>2, ComeToTypes DEF SkipChunk
<1>14. CASE Refused(d)
  <2>1. readIndex' \in [Msg -> Nat]
    BY <1>14, NextByteTypes DEF Refused, AtChunk
  <2>. QED  BY <1>1, <1>14, <2>1 DEF Refused, progress, Idle, Sending, Waiting
<1>15. CASE LinkLost(d)
  BY <1>1, <1>15 DEF LinkLost, progress, Idle, Sending, Waiting
<1>16. CASE Receives(d)
  <2>1. UNCHANGED <<isConnected, progress, readIndex, polled>>
    BY <1>16, ReceivesKeep
  <2>2. /\ sendAttempts' \in [Dev -> 0..EndOfAttempts]
        /\ sendChunkResendRequested' \in [Dev -> BOOLEAN] /\ received' \in [Dev -> SUBSET {0}]
        /\ reader' \in Dev \cup {NoDevice}
    BY <1>4, <1>16
       DEF Receives, StartReceiving, StopReceiving, ResendRequested, FirstChunkReceived,
           ReceiveEnds, AskForResend, GiveUpReceiving, task
  <2>. QED  BY <2>1, <2>2 DEF progress, Idle, Sending, Waiting
<1>17. CASE Connect(d)
  BY <1>17 DEF Connect, task, progress, Idle, Sending, Waiting
<1>18. CASE Disconnect(d)
  <2>1. /\ messageBeingSent' = [messageBeingSent EXCEPT ![d] = NoMessage]
        /\ isConnected' = [isConnected EXCEPT ![d] = FALSE]
        /\ UNCHANGED <<sendChunkInProgress, indexWithinSendChunk, sendAttempts, readIndex, polled>>
        /\ sendChunkResendRequested' \in [Dev -> BOOLEAN] /\ received' \in [Dev -> SUBSET {0}]
        /\ written' \in [Dev -> Seq(Int)]
        /\ sent' \in [Dev -> SUBSET Nat] /\ reader' \in Dev \cup {NoDevice}
    BY <1>18 DEF Disconnect, ResetSend, task
  <2>2. ASSUME NEW e \in Dev, ~Idle(e)'
        PROVE  isConnected'[e] /\ (Sending(e)' \/ Waiting(e)')
    BY <2>1, <2>2 DEF Idle, Sending, Waiting
  <2>3. polled' # NoDevice => Sending(polled)' \/ Idle(polled)'
    BY <2>1 DEF Idle, Sending
  <2>. QED  BY <2>1, <2>2, <2>3
<1>. QED  BY <1>5, <1>6, <1>8, <1>9, <1>10, <1>11, <1>12, <1>13, <1>14, <1>15, <1>16,
             <1>17, <1>18 DEF Polls, Accepted

\* Each variable keeps its type, and a device that sends is connected and
\* has chunks to send or has sent them all.
THEOREM TypeCorrect == Spec => []TypeOK
<1>1. Init => TypeOK
  BY LinkAssumption DEF Init, TypeOK, Idle, EndOfAttempts
<1>2. TypeOK /\ [Next]_vars => TypeOK'
  <2>1. TypeOK /\ Next => TypeOK'
    BY TypeStep DEF Next
  <2>2. TypeOK /\ UNCHANGED vars => TypeOK'
    BY DEF TypeOK, vars, task, progress, Idle, Sending, Waiting
  <2>. QED  BY <2>1, <2>2
<1>. QED  BY <1>1, <1>2, PTL DEF Spec

-----------------------------------------------------------------------------
(* Chunks go out exactly.                                                   *)

\* What ChunkExact says of one device.
Exact(d) ==
  ~Idle(d) =>
    LET c == sendChunkInProgress[d]
        i == indexWithinSendChunk[d]
    IN  IF i > 0 THEN WrittenUpTo(d, c, i)
        ELSE written[d] = <<>> \/ (c > 0 /\ WrittenUpTo(d, c - 1, ChunkLength))

\* The strengthening: the builder of the poll that runs reads on where the
\* chunk goes on, or both are behind the last byte that can be read.
InPlace ==
  \A d \in Dev : polled = d /\ ~Idle(d) =>
    LET r    == readIndex[messageBeingSent[d]]
        k    == ResumeAt(sendChunkInProgress[d], indexWithinSendChunk[d])
        last == Capacity[messageBeingSent[d]] - 1
    IN  r = k \/ (r >= last /\ k >= last)

\* The next byte is the next one of the chunk's image.
LEMMA NextByteExact ==
  ASSUME TypeOK, InPlace, NEW d \in Dev, polled = d, ~Idle(d)
  PROVE  NextByte(d) = Image(messageBeingSent[d], sendChunkInProgress[d])
                         [indexWithinSendChunk[d] + 1]
<1> DEFINE m == messageBeingSent[d]
           c == sendChunkInProgress[d]
           i == indexWithinSendChunk[d]
<1>1. m \in Msg /\ c \in Nat /\ i \in 0..ChunkLength - 1 /\ readIndex[m] \in Nat
  BY NextByteTypes, LinkAssumption DEF TypeOK
<1>2. i + 1 \in 1..ChunkLength /\ (i + 1 = 1 <=> i = 0) /\ StartOfChunk(c) \in Nat
  BY <1>1, LinkAssumption, StartNat
<1>3. Image(m, c)[i + 1] = IF i = 0 THEN c ELSE ByteAt(m, StartOfChunk(c) + i - 1)
  <2>1. StartOfChunk(c) + (i + 1) - 2 = StartOfChunk(c) + i - 1
    BY <1>1, <1>2
  <2>. QED  BY <1>2, <2>1 DEF Image
<1>4. CASE i = 0
  BY <1>3, <1>4 DEF NextByte
<1>5. CASE i # 0
  <2>1. i > 0
    BY <1>1, <1>5
  <2>2. ResumeAt(c, i) = StartOfChunk(c) + i - 1 /\ ResumeAt(c, i) \in Nat
    BY <1>1, <1>2, <2>1, LinkAssumption DEF ResumeAt
  <2>3. ByteAt(m, readIndex[m]) = ByteAt(m, ResumeAt(c, i))
    BY <1>1, <2>2, LinkAssumption DEF InPlace, ByteAt
  <2>4. NextByte(d) = ByteAt(m, readIndex[m])
    BY <1>5 DEF NextByte
  <2>. QED  BY <1>3, <1>5, <2>2, <2>3, <2>4
<1>. QED  BY <1>4, <1>5

\* With the next byte, the bytes written are the ones up to that byte.
LEMMA NextByteWritten ==
  ASSUME TypeOK, InPlace, NEW d \in Dev, polled = d, ~Idle(d), Exact(d),
         written' = WithNextByte(d), messageBeingSent' = messageBeingSent,
         NEW j, j = indexWithinSendChunk[d] + 1
  PROVE  /\ Len(written'[d]) <= j
         /\ \A k \in 1..Len(written'[d]) :
              written'[d][k] =
                Image(messageBeingSent[d], sendChunkInProgress[d])[j - Len(written'[d]) + k]
         /\ \A e \in Dev \ {d} : written'[e] = written[e]
<1> DEFINE i   == indexWithinSendChunk[d]
           img == Image(messageBeingSent[d], sendChunkInProgress[d])
           old == IF i = 0 THEN <<>> ELSE written[d]
           b   == NextByte(d)
<1>1. i \in Nat /\ old \in Seq(Int) /\ b \in Int /\ b = img[i + 1]
  <2>1. indexWithinSendChunk \in [Dev -> 0..ChunkLength - 1] /\ written \in [Dev -> Seq(Int)]
    BY DEF TypeOK
  <2>2. i \in Nat /\ written[d] \in Seq(Int)
    BY <2>1, LinkAssumption
  <2>3. <<>> \in Seq(Int)
    OBVIOUS
  <2>. QED  BY <2>2, <2>3, NextByteTypes, NextByteExact
<1>2. written'[d] = Append(old, b) /\ \A e \in Dev \ {d} : written'[e] = written[e]
  BY DEF WithNextByte, TypeOK
<1>3. Len(old) <= i /\ \A k \in 1..Len(old) : old[k] = img[i - Len(old) + k]
  <2>1. CASE i = 0
    BY <2>1
  <2>2. CASE i # 0
    BY <1>1, <2>2 DEF Exact, WrittenUpTo
  <2>. QED  BY <2>1, <2>2
<1>. HIDE DEF i, img, old, b
<1>4. /\ Len(old) \in Nat /\ Len(Append(old, b)) = Len(old) + 1
      /\ \A k \in 1..Len(old) : Append(old, b)[k] = old[k]
      /\ Append(old, b)[Len(old) + 1] = b
  BY <1>1, AppendProperties, LenProperties
<1>5. ASSUME NEW k \in 1..Len(old) + 1
      PROVE  Append(old, b)[k] = img[j - Len(Append(old, b)) + k]
  <2>1. j - Len(Append(old, b)) + k = i - Len(old) + k
    BY <1>1, <1>4 DEF i
  <2>2. CASE k = Len(old) + 1
    <3>1. i - Len(old) + k = i + 1
      BY <1>1, <1>4, <2>2
    <3>. QED  BY <1>1, <1>4, <2>1, <2>2, <3>1
  <2>3. CASE k # Len(old) + 1
    <3>1. k \in 1..Len(old)
      BY <1>4, <2>3
    <3>. QED  BY <1>3, <1>4, <2>1, <3>1
  <2>. QED  BY <2>2, <2>3
<1>6. Len(Append(old, b)) <= j
  BY <1>1, <1>3, <1>4 DEF i
<1>. QED  BY <1>2, <1>4, <1>5, <1>6 DEF img

\* Reading a byte keeps the builder in place.
LEMMA NextByteInPlace ==
  ASSUME TypeOK, InPlace, NEW d \in Dev, polled = d, ~Idle(d)
  PROVE  LET m == messageBeingSent[d]
             k == StartOfChunk(sendChunkInProgress[d]) + indexWithinSendChunk[d]
         IN  \/ AfterNextByte(d)[m] = k
             \/ AfterNextByte(d)[m] >= Capacity[m] - 1 /\ k >= Capacity[m] - 1
<1> DEFINE m == messageBeingSent[d]
           i == indexWithinSendChunk[d]
           c == sendChunkInProgress[d]
           a == StartOfChunk(c)
<1>1. /\ m \in Msg /\ i \in Nat /\ a \in Nat /\ Capacity[m] \in Nat
      /\ readIndex[m] \in Nat /\ readIndex \in [Msg -> Nat]
  <2>1. m \in Msg
    BY NextByteTypes
  <2>2. c \in Nat /\ i \in 0..ChunkLength - 1 /\ readIndex \in [Msg -> Nat]
    BY DEF TypeOK
  <2>3. a \in Nat
    BY <2>2, StartNat
  <2>. QED  BY <2>1, <2>2, <2>3, LinkAssumption
<1>2. \/ readIndex[m] = ResumeAt(c, i)
      \/ readIndex[m] >= Capacity[m] - 1 /\ ResumeAt(c, i) >= Capacity[m] - 1
  BY DEF InPlace
<1>3. CASE i = 0
  <2>1. AfterNextByte(d)[m] = readIndex[m] /\ ResumeAt(c, i) = a + i
    BY <1>1, <1>3 DEF AfterNextByte, ResumeAt
  <2>. QED  BY <1>2, <2>1
<1>4. CASE i # 0
  <2>1. AfterNextByte(d)[m] = AfterRead(m, readIndex[m]) /\ ResumeAt(c, i) = a + (i - 1)
    BY <1>1, <1>4 DEF AfterNextByte, ResumeAt
  <2>. HIDE DEF m, i, a, c
  <2>2. \/ AfterRead(m, readIndex[m]) = a + i
        \/ AfterRead(m, readIndex[m]) >= Capacity[m] - 1 /\ a + i >= Capacity[m] - 1
    BY <1>1, <1>2, <2>1 DEF AfterRead
  <2>3. QED  BY <2>1, <2>2 DEF m, i, a, c
<1>. QED  BY <1>3, <1>4

\* Coming to the next chunk keeps the builder in place.
LEMMA ComeToInPlace ==
  ASSUME TypeOK, NEW d \in Dev, NEW i \in 0..ChunkLength - 1,
         AtChunk(d, sendChunkInProgress[d]),
         NEW indices, ComeTo(d, messageBeingSent[d], sendChunkInProgress[d] + 1, i, indices)
  PROVE  InPlace'
<1> DEFINE m == messageBeingSent[d]
           c == sendChunkInProgress[d]
           k == ResumeAt(c + 1, i)
<1>1. /\ polled = d /\ m \in Msg /\ c \in Nat /\ i \in Nat /\ Capacity[m] \in Nat
      /\ sendChunkInProgress \in [Dev -> Nat] /\ readIndex \in [Msg -> Nat]
      /\ indexWithinSendChunk \in [Dev -> 0..ChunkLength - 1]
  <2>1. /\ sendChunkInProgress \in [Dev -> Nat] /\ readIndex \in [Msg -> Nat]
        /\ indexWithinSendChunk \in [Dev -> 0..ChunkLength - 1]
    BY DEF TypeOK
  <2>2. polled = d /\ m \in Msg
    BY NextByteTypes DEF AtChunk
  <2>. QED  BY <2>1, <2>2, LinkAssumption
<1>2. k \in Nat
  <2>1. c + 1 \in Nat
    BY <1>1
  <2>. HIDE DEF c
  <2>. QED  BY <1>1, <2>1, ResumeNat
<1>3. CASE polled' = NoDevice
  BY <1>3, LinkAssumption DEF InPlace
<1>4. CASE polled' # NoDevice
  <2>1. /\ polled' = d /\ UNCHANGED messageBeingSent
        /\ readIndex'[m] = Clamped(m, ResumeAt(c + 1, i))
        /\ sendChunkInProgress'[d] = c + 1 /\ indexWithinSendChunk'[d] = i
    BY <1>1, <1>4 DEF ComeTo
  <2>2. \/ Clamped(m, k) = k
        \/ Clamped(m, k) >= Capacity[m] - 1 /\ k >= Capacity[m] - 1
    <3>. HIDE DEF m, k
    <3>. QED  BY <1>1, <1>2 DEF Clamped
  <2>3. ResumeAt(sendChunkInProgress[d], indexWithinSendChunk[d])' = k
    BY <2>1 DEF ResumeAt
  <2>. QED  BY <2>1, <2>2, <2>3 DEF InPlace
<1>. QED  BY <1>3, <1>4

\* Every step keeps the poll in place and the chunks exact.
LEMMA ExactStep ==
  ASSUME TypeOK, InPlace, \A e \in Dev : Exact(e), NEW d \in Dev,
         \/ \E m \in Msg : Assign(d, m)
         \/ Polls(d) \/ Accepted(d) \/ Refused(d) \/ LinkLost(d)
         \/ Receives(d)
         \/ Connect(d) \/ Disconnect(d)
  PROVE  InPlace' /\ \A e \in Dev : Exact(e)'
<1>1. d # NoDevice
  BY LinkAssumption
<1>2. /\ messageBeingSent \in [Dev -> Msg \cup {NoMessage}]
      /\ sendChunkInProgress \in [Dev -> Nat]
      /\ indexWithinSendChunk \in [Dev -> 0..ChunkLength - 1]
      /\ readIndex \in [Msg -> Nat] /\ written \in [Dev -> Seq(Int)]
  BY DEF TypeOK
<1>3. ASSUME NEW m \in Msg, FromTheStart(d, m), messageBeingSent'[d] = m,
             \A e \in Dev \ {d} : messageBeingSent'[e] = messageBeingSent[e]
      PROVE  InPlace' /\ \A e \in Dev : Exact(e)'
  <2>1. InPlace'
    <3>1. polled' = d /\ readIndex'[m] = 0
          /\ sendChunkInProgress'[d] = 0 /\ indexWithinSendChunk'[d] = 0
      BY <1>2, <1>3 DEF FromTheStart
    <3>. QED  BY <1>3, <3>1 DEF InPlace, ResumeAt, StartOfChunk
  <2>2. Exact(d)'
    BY <1>2, <1>3 DEF FromTheStart, Exact
  <2>3. ASSUME NEW e \in Dev \ {d}
        PROVE  Exact(e)'
    BY <1>2, <1>3, <2>3 DEF FromTheStart, Exact, WrittenUpTo, Idle
  <2>. QED  BY <2>1, <2>2, <2>3
<1>4. ASSUME NEW m \in Msg, Assign(d, m)
      PROVE  InPlace' /\ \A e \in Dev : Exact(e)'
  <2>1. messageBeingSent'[d] = m /\ FromTheStart(d, m)
        /\ \A e \in Dev \ {d} : messageBeingSent'[e] = messageBeingSent[e]
    BY <1>2, <1>4 DEF Assign
  <2>. QED  BY <1>3, <2>1
<1>5. CASE AnswerResend(d) \/ TimeOut(d)
  <2>1. messageBeingSent[d] \in Msg /\ messageBeingSent' = messageBeingSent
        /\ FromTheStart(d, messageBeingSent[d])
    BY <1>2, <1>5 DEF AnswerResend, TimeOut, Poll, Idle
  <2>. QED  BY <1>3, <2>1
<1>6. ASSUME UNCHANGED progress
      PROVE  \A e \in Dev : Exact(e)'
  BY <1>6 DEF progress, Exact, WrittenUpTo, Idle
<1>7. ASSUME polled' = NoDevice
      PROVE  InPlace'
  BY <1>7, LinkAssumption DEF InPlace
<1>8. CASE Continue(d)
  <2> DEFINE k == ResumeAt(sendChunkInProgress[d], indexWithinSendChunk[d])
             m == messageBeingSent[d]
  <2>1. m \in Msg /\ polled' = d /\ UNCHANGED progress /\ readIndex'[m] = Clamped(m, k)
    BY <1>2, <1>8 DEF Continue, Poll, Idle
  <2>2. k \in Nat
    <3>1. sendChunkInProgress[d] \in Nat /\ indexWithinSendChunk[d] \in Nat
      BY <1>2, LinkAssumption
    <3>. QED  BY <3>1, ResumeNat
  <2>3. \/ Clamped(m, k) = k
        \/ Clamped(m, k) >= Capacity[m] - 1 /\ k >= Capacity[m] - 1
    <3>. HIDE DEF m, k
    <3>. QED  BY <2>1, <2>2, LinkAssumption DEF Clamped
  <2>4. InPlace'
    <3>1. ResumeAt(sendChunkInProgress[d], indexWithinSendChunk[d])' = k
      BY <2>1 DEF ResumeAt, progress
    <3>. QED  BY <2>1, <2>3, <3>1 DEF InPlace, progress
  <2>. QED  BY <1>6, <2>1, <2>4
<1>9. CASE GiveUp(d)
  <2>1. polled' = NoDevice
    BY <1>9 DEF GiveUp, Poll, TaskIsFree, task
  <2>2. \A e \in Dev : Exact(e)'
    BY <1>2, <1>9 DEF GiveUp, ResetSend, Exact, WrittenUpTo, Idle
  <2>. QED  BY <1>7, <2>1, <2>2
<1>10. CASE Wait(d)
  BY <1>6, <1>7, <1>10 DEF Wait, Poll, TaskIsFree, task
<1>11. CASE Refused(d) \/ LinkLost(d)
  BY <1>6, <1>7, <1>11 DEF Refused, LinkLost
<1>12. CASE Receives(d) \/ Connect(d)
  <2>1. UNCHANGED <<progress, readIndex, polled>>
    BY <1>12, ReceivesKeep DEF Connect, task
  <2>2. InPlace'
    BY <2>1 DEF InPlace, progress, ResumeAt, Idle
  <2>. QED  BY <1>6, <2>1, <2>2
<1>13. CASE Disconnect(d)
  <2>1. /\ UNCHANGED <<sendChunkInProgress, indexWithinSendChunk, readIndex, polled>>
        /\ messageBeingSent' = [messageBeingSent EXCEPT ![d] = NoMessage]
        /\ written' = [written EXCEPT ![d] = <<>>]
    BY <1>13 DEF Disconnect, ResetSend, task
  <2>2. InPlace'
    BY <1>2, <2>1 DEF InPlace, ResumeAt, Idle
  <2>3. \A e \in Dev : Exact(e)'
    BY <1>2, <2>1 DEF Exact, WrittenUpTo, Idle
  <2>. QED  BY <2>2, <2>3
<1>14. ASSUME NEW c \in Nat, NEW e \in Dev \ {d}, messageBeingSent'[e] = messageBeingSent[e],
              sendChunkInProgress' = [sendChunkInProgress EXCEPT ![d] = c],
              \E i \in Nat : indexWithinSendChunk' = [indexWithinSendChunk EXCEPT ![d] = i],
              written'[e] = written[e]
       PROVE  Exact(e)'
  <2>1. sendChunkInProgress'[e] = sendChunkInProgress[e]
        /\ indexWithinSendChunk'[e] = indexWithinSendChunk[e]
    BY <1>2, <1>14
  <2>. QED  BY <1>14, <2>1 DEF Exact, WrittenUpTo, Idle
<1>15. CASE WriteByte(d)
  <2> DEFINE m == messageBeingSent[d]
             c == sendChunkInProgress[d]
             i == indexWithinSendChunk[d]
  <2>1. /\ polled = d /\ c \in Nat /\ i \in Nat /\ ~Idle(d) /\ written' = WithNextByte(d)
        /\ UNCHANGED <<messageBeingSent, sendChunkInProgress, polled>>
        /\ indexWithinSendChunk' = [indexWithinSendChunk EXCEPT ![d] = i + 1]
        /\ readIndex' = AfterNextByte(d)
    BY <1>2, <1>15, LinkAssumption DEF WriteByte, AtChunk, task
  <2>2. indexWithinSendChunk'[d] = i + 1 /\ i + 1 > 0 /\ (i + 1) - 1 = i
    <3>1. indexWithinSendChunk'[d] = i + 1
      BY <1>2, <2>1
    <3>. QED  BY <2>1, <3>1
  <2>3. Exact(d)'
    <3> DEFINE j == indexWithinSendChunk'[d]
    <3>1. j = i + 1 /\ i \in Nat
      BY <2>1, <2>2
    <3>2. /\ Len(written'[d]) <= j
          /\ \A k \in 1..Len(written'[d]) :
               written'[d][k] = Image(m, c)[j - Len(written'[d]) + k]
      <4>1. Exact(d) /\ messageBeingSent' = messageBeingSent
        BY <2>1
      <4>. QED  BY <2>1, <3>1, <4>1, NextByteWritten
    <3>3. WrittenUpTo(d, sendChunkInProgress[d], indexWithinSendChunk[d])'
      BY <2>1, <3>2 DEF WrittenUpTo, Image
    <3>. QED  BY <2>2, <3>3 DEF Exact
  <2>4. InPlace'
    <3>1. \/ AfterNextByte(d)[m] = StartOfChunk(c) + i
          \/ AfterNextByte(d)[m] >= Capacity[m] - 1 /\ StartOfChunk(c) + i >= Capacity[m] - 1
      BY <2>1, NextByteInPlace
    <3>2. ResumeAt(sendChunkInProgress[d], indexWithinSendChunk[d])' = StartOfChunk(c) + i
      BY <2>1, <2>2 DEF ResumeAt
    <3>. QED  BY <2>1, <3>1, <3>2 DEF InPlace
  <2>5. ASSUME NEW e \in Dev \ {d}
        PROVE  Exact(e)'
    <3>1. written'[e] = written[e]
      BY <2>1, NextByteWritten
    <3>2. sendChunkInProgress' = [sendChunkInProgress EXCEPT ![d] = c] /\ i + 1 \in Nat
      BY <1>2, <2>1
    <3>. QED  BY <1>14, <2>1, <3>1, <3>2
  <2>. QED  BY <2>3, <2>4, <2>5
<1>16. CASE FinishChunk(d)
  <2> DEFINE m == messageBeingSent[d]
             c == sendChunkInProgress[d]
             i == indexWithinSendChunk[d]
  <2>1. /\ polled = d /\ c \in Nat /\ ~Idle(d) /\ i + 1 = ChunkLength /\ 0 \in 0..ChunkLength - 1
        /\ written' = WithNextByte(d) /\ AtChunk(d, c)
        /\ ComeTo(d, m, c + 1, 0, AfterNextByte(d))
    BY <1>2, <1>16, LinkAssumption DEF FinishChunk, AtChunk
  <2>2. /\ UNCHANGED messageBeingSent
        /\ indexWithinSendChunk' = [indexWithinSendChunk EXCEPT ![d] = 0]
        /\ sendChunkInProgress' = [sendChunkInProgress EXCEPT ![d] = c + 1]
    BY <2>1 DEF ComeTo
  <2>3. InPlace'
    BY <2>1, ComeToInPlace
  <2>4. Exact(d)'
    <3>1. /\ Len(written'[d]) <= ChunkLength
          /\ \A k \in 1..Len(written'[d]) :
               written'[d][k] = Image(m, c)[ChunkLength - Len(written'[d]) + k]
      <4> DEFINE j == i + 1
      <4>1. i \in Nat /\ j \in Nat /\ j = ChunkLength /\ Exact(d)
        BY <1>2, <2>1, LinkAssumption
      <4>2. /\ Len(written'[d]) <= j
            /\ \A k \in 1..Len(written'[d]) :
                 written'[d][k] = Image(m, c)[j - Len(written'[d]) + k]
        BY <2>1, <2>2, <4>1, NextByteWritten
      <4>. HIDE DEF j, m, c
      <4>. QED  BY <4>1, <4>2
    <3>2. /\ indexWithinSendChunk'[d] = 0 /\ sendChunkInProgress'[d] = c + 1
          /\ c + 1 > 0 /\ (c + 1) - 1 = c
      BY <1>2, <2>1, <2>2
    <3>. QED  BY <2>2, <3>1, <3>2 DEF Exact, WrittenUpTo
  <2>5. ASSUME NEW e \in Dev \ {d}
        PROVE  Exact(e)'
    <3>1. written'[e] = written[e] /\ c + 1 \in Nat /\ 0 \in Nat
      BY <2>1, <2>2, NextByteWritten
    <3>. QED  BY <1>14, <2>2, <3>1
  <2>. QED  BY <2>3, <2>4, <2>5
<1>17. CASE SkipChunk(d)
  <2> DEFINE c == sendChunkInProgress[d]
             i == indexWithinSendChunk[d]
  <2>1. /\ c \in Nat /\ i \in 0..ChunkLength - 1 /\ i \in Nat
        /\ written' = [written EXCEPT ![d] = <<>>]
        /\ AtChunk(d, c) /\ ComeTo(d, messageBeingSent[d], c + 1, i, readIndex)
    BY <1>2, <1>17, LinkAssumption DEF SkipChunk
  <2>2. /\ UNCHANGED messageBeingSent
        /\ indexWithinSendChunk' = [indexWithinSendChunk EXCEPT ![d] = i]
        /\ sendChunkInProgress' = [sendChunkInProgress EXCEPT ![d] = c + 1]
    BY <2>1 DEF ComeTo
  <2>3. InPlace'
    BY <2>1, ComeToInPlace
  <2>4. Exact(d)'
    <3>1. written'[d] = <<>> /\ Len(written'[d]) = 0 /\ indexWithinSendChunk'[d] = i
      BY <1>2, <2>1, <2>2
    <3>. QED  BY <2>1, <3>1 DEF Exact, WrittenUpTo
  <2>5. ASSUME NEW e \in Dev \ {d}
        PROVE  Exact(e)'
    <3>1. written'[e] = written[e] /\ c + 1 \in Nat
      BY <1>2, <2>1
    <3>. QED  BY <1>14, <2>1, <2>2, <3>1
  <2>. QED  BY <2>3, <2>4, <2>5
<1>. QED  BY <1>4, <1>5, <1>8, <1>9, <1>10, <1>11, <1>12, <1>13, <1>15, <1>16, <1>17
          DEF Polls, Accepted

\* The bytes of a chunk go out in order and once each, however the stack
\* cuts the polls and whichever device shares the builder.
THEOREM ChunkExactHolds == Spec => []ChunkExact
<1>1. Init => InPlace /\ \A d \in Dev : Exact(d)
  BY LinkAssumption DEF Init, InPlace, Exact, Idle
<1>2. TypeOK /\ InPlace /\ (\A d \in Dev : Exact(d)) /\ [Next]_vars
        => (InPlace /\ \A d \in Dev : Exact(d))'
  <2>1. TypeOK /\ InPlace /\ (\A d \in Dev : Exact(d)) /\ Next
          => (InPlace /\ \A d \in Dev : Exact(d))'
    BY ExactStep DEF Next
  <2>2. InPlace /\ (\A d \in Dev : Exact(d)) /\ UNCHANGED vars
          => (InPlace /\ \A d \in Dev : Exact(d))'
    BY DEF InPlace, Exact, WrittenUpTo, Idle, ResumeAt, vars, task, progress
  <2>. QED  BY <2>1, <2>2
<1>3. (\A d \in Dev : Exact(d)) => ChunkExact
  BY DEF Exact, ChunkExact
<1>. QED  BY <1>1, <1>2, <1>3, TypeCorrect, PTL DEF Spec

-----------------------------------------------------------------------------
(* Sending implements ChunkSender.                                          *)

\* The abstract chunk to be sent next.
Upcoming == [d \in Dev |-> IF Idle(d) THEN 0 ELSE sendChunkInProgress[d]]

\* The strengthening: only of the second chunk may the beginning be missing
\* from what was sent, and only when the first was not sent whole.
Whole(d) ==
  LET c == sendChunkInProgress[d]
      i == indexWithinSendChunk[d]
  IN  /\ Idle(d) \/ c = 0 => sent[d] = {}
      /\ ~Idle(d) /\ i > 0 /\ Len(written[d]) # i => c = 1 /\ 0 \notin sent[d]

\* A chunk that is passed over is the first.
LEMMA SkipsFirst ==
  ASSUME TypeOK, NEW d \in Dev, SkipChunk(d)
  PROVE  sendChunkInProgress[d] = 0
BY DEF TypeOK, SkipChunk, NeedsToBeSent

\* The next byte makes what is written of the chunk one longer.
LEMMA NextByteLength ==
  ASSUME TypeOK, NEW d \in Dev, polled = d, ~Idle(d), written' = WithNextByte(d)
  PROVE  /\ Len(written'[d]) = (IF indexWithinSendChunk[d] = 0 THEN 0 ELSE Len(written[d])) + 1
         /\ \A e \in Dev \ {d} : written'[e] = written[e]
<1> DEFINE old == IF indexWithinSendChunk[d] = 0 THEN <<>> ELSE written[d]
<1>1. written \in [Dev -> Seq(Int)] /\ NextByte(d) \in Int
  BY NextByteTypes DEF TypeOK
<1>2. written'[d] = Append(old, NextByte(d)) /\ \A e \in Dev \ {d} : written'[e] = written[e]
  BY <1>1 DEF WithNextByte
<1>3. old \in Seq(Int) /\ <<>> \in Seq(Int) /\ Len(<<>>) = 0
  BY <1>1
<1>4. Len(Append(old, NextByte(d))) = Len(old) + 1
  BY <1>1, <1>3, AppendProperties
<1>. QED  BY <1>2, <1>3, <1>4

\* A step that leaves a device's sending alone keeps its part.
LEMMA WholeKept ==
  ASSUME NEW d \in Dev, Whole(d), messageBeingSent'[d] = messageBeingSent[d],
         sendChunkInProgress'[d] = sendChunkInProgress[d],
         indexWithinSendChunk'[d] = indexWithinSendChunk[d],
         written'[d] = written[d], sent'[d] = sent[d]
  PROVE  Whole(d)'
BY DEF Whole, Idle

\* Every step keeps the strengthening.
LEMMA WholeStep ==
  ASSUME TypeOK, \A e \in Dev : Whole(e), NEW d \in Dev,
         \/ \E m \in Msg : Assign(d, m)
         \/ Polls(d) \/ Accepted(d) \/ Refused(d) \/ LinkLost(d)
         \/ Receives(d)
         \/ Connect(d) \/ Disconnect(d)
  PROVE  \A e \in Dev : Whole(e)'
<1> DEFINE c == sendChunkInProgress[d]
           i == indexWithinSendChunk[d]
<1>1. /\ messageBeingSent \in [Dev -> Msg \cup {NoMessage}] /\ NoMessage \notin Msg
      /\ sendChunkInProgress \in [Dev -> Nat] /\ written \in [Dev -> Seq(Int)]
      /\ indexWithinSendChunk \in [Dev -> 0..ChunkLength - 1] /\ sent \in [Dev -> SUBSET Nat]
      /\ c \in Nat /\ i \in Nat
  <2>1. c \in Nat /\ i \in 0..ChunkLength - 1
    BY DEF TypeOK
  <2>. QED  BY <2>1, LinkAssumption DEF TypeOK
<1>2. Whole(d)
  OBVIOUS
<1>3. CASE UNCHANGED progress
  BY <1>3, WholeKept DEF progress
<1>4. ASSUME NEW m \in Msg, FromTheStart(d, m),
             \A e \in Dev \ {d} : messageBeingSent'[e] = messageBeingSent[e]
      PROVE  \A e \in Dev : Whole(e)'
  <2>1. sent'[d] = {} /\ indexWithinSendChunk'[d] = 0
    BY <1>1, <1>4 DEF FromTheStart
  <2>2. Whole(d)'
    BY <2>1 DEF Whole
  <2>3. ASSUME NEW e \in Dev \ {d}
        PROVE  Whole(e)'
    BY <1>1, <1>4, WholeKept DEF FromTheStart
  <2>. QED  BY <2>2, <2>3
<1>5. ASSUME NEW m \in Msg, Assign(d, m)
      PROVE  \A e \in Dev : Whole(e)'
  BY <1>1, <1>4, <1>5 DEF Assign
<1>6. CASE AnswerResend(d) \/ TimeOut(d)
  BY <1>1, <1>4, <1>6 DEF AnswerResend, TimeOut, Poll, Idle
<1>7. CASE GiveUp(d) \/ Disconnect(d)
  <2>1. /\ messageBeingSent' = [messageBeingSent EXCEPT ![d] = NoMessage]
        /\ written' = [written EXCEPT ![d] = <<>>] /\ sent' = [sent EXCEPT ![d] = {}]
    BY <1>7 DEF GiveUp, Disconnect, ResetSend
  <2>2. Whole(d)'
    BY <1>1, <2>1 DEF Whole, Idle
  <2>3. ASSUME NEW e \in Dev \ {d}
        PROVE  Whole(e)'
    <3>1. /\ sendChunkInProgress'[e] = sendChunkInProgress[e]
          /\ indexWithinSendChunk'[e] = indexWithinSendChunk[e]
      BY <1>1, <1>7 DEF GiveUp, Disconnect
    <3>. QED  BY <1>1, <2>1, <3>1, WholeKept
  <2>. QED  BY <2>2, <2>3
<1>8. ASSUME ~Idle(d), UNCHANGED messageBeingSent,
             \A e \in Dev \ {d} : /\ sendChunkInProgress'[e] = sendChunkInProgress[e]
                                  /\ indexWithinSendChunk'[e] = indexWithinSendChunk[e]
                                  /\ written'[e] = written[e] /\ sent'[e] = sent[e],
             sendChunkInProgress'[d] = 0 => sent'[d] = {},
             indexWithinSendChunk'[d] > 0 /\ Len(written'[d]) # indexWithinSendChunk'[d]
               => sendChunkInProgress'[d] = 1 /\ 0 \notin sent'[d]
      PROVE  \A e \in Dev : Whole(e)'
  <2>1. Whole(d)'
    BY <1>8 DEF Whole, Idle
  <2>2. ASSUME NEW e \in Dev \ {d}
        PROVE  Whole(e)'
    BY <1>8, WholeKept
  <2>. QED  BY <2>1, <2>2
<1>9. CASE WriteByte(d)
  <2>1. /\ ~Idle(d) /\ UNCHANGED <<messageBeingSent, sendChunkInProgress, sent>>
        /\ indexWithinSendChunk' = [indexWithinSendChunk EXCEPT ![d] = i + 1]
        /\ written' = WithNextByte(d) /\ polled = d
    BY <1>9 DEF WriteByte, AtChunk
  <2>2. Len(written'[d]) = (IF i = 0 THEN 0 ELSE Len(written[d])) + 1
        /\ \A e \in Dev \ {d} : written'[e] = written[e]
    BY <1>1, <2>1, NextByteLength
  <2>3. i = 0 => Len(written'[d]) = i + 1
    BY <2>2
  <2>4. i # 0 => (Len(written'[d]) = i + 1 <=> Len(written[d]) = i)
    <3>1. Len(written[d]) \in Nat
      BY <1>1, LenProperties
    <3>. QED  BY <1>1, <2>2, <3>1
  <2>5. indexWithinSendChunk'[d] = i + 1
    BY <1>1, <2>1
  <2>. QED  BY <1>1, <1>2, <1>8, <2>1, <2>2, <2>3, <2>4, <2>5 DEF Whole
<1>10. CASE FinishChunk(d)
  <2>1. /\ ~Idle(d) /\ UNCHANGED messageBeingSent /\ polled = d
        /\ sendChunkInProgress' = [sendChunkInProgress EXCEPT ![d] = c + 1]
        /\ indexWithinSendChunk' = [indexWithinSendChunk EXCEPT ![d] = 0]
        /\ written' = WithNextByte(d)
        /\ sent' = sent \/ sent' = [sent EXCEPT ![d] = @ \cup {c}]
    BY <1>10 DEF FinishChunk, AtChunk, ComeTo
  <2>2. \A e \in Dev \ {d} : written'[e] = written[e]
    BY <1>1, <2>1, NextByteLength
  <2>3. sendChunkInProgress'[d] = c + 1 /\ c + 1 # 0 /\ indexWithinSendChunk'[d] = 0
    BY <1>1, <2>1
  <2>. QED  BY <1>1, <1>8, <2>1, <2>2, <2>3
<1>11. CASE SkipChunk(d)
  <2>1. /\ ~Idle(d) /\ UNCHANGED <<messageBeingSent, sent>>
        /\ sendChunkInProgress' = [sendChunkInProgress EXCEPT ![d] = c + 1]
        /\ indexWithinSendChunk' = [indexWithinSendChunk EXCEPT ![d] = i]
        /\ written' = [written EXCEPT ![d] = <<>>]
    BY <1>11 DEF SkipChunk, AtChunk, ComeTo
  <2>2. c = 0
    BY <1>11, SkipsFirst
  <2>3. sent[d] = {}
    BY <1>2, <2>2 DEF Whole
  <2>4. sendChunkInProgress'[d] = 1
    BY <1>1, <2>1, <2>2
  <2>. QED  BY <1>1, <1>8, <2>1, <2>3, <2>4
<1>12. CASE Continue(d) \/ Wait(d) \/ Refused(d) \/ LinkLost(d) \/ Receives(d) \/ Connect(d)
  BY <1>3, <1>12, ReceivesKeep DEF Continue, Wait, Refused, LinkLost, Connect
<1>. QED  BY <1>5, <1>6, <1>7, <1>9, <1>10, <1>11, <1>12 DEF Polls, Accepted

\* Every step is one of ChunkSender, or leaves its variables alone.
LEMMA SenderStep ==
  ASSUME TypeOK, NEW d \in Dev, Whole(d),
         \/ \E m \in Msg : Assign(d, m)
         \/ Polls(d) \/ Accepted(d) \/ Refused(d) \/ LinkLost(d)
         \/ Receives(d)
         \/ Connect(d) \/ Disconnect(d)
  PROVE  Sender!Next \/ UNCHANGED <<messageBeingSent, Upcoming, sent>>
<1>1. /\ messageBeingSent \in [Dev -> Msg \cup {NoMessage}] /\ NoMessage \notin Msg
      /\ sendChunkInProgress \in [Dev -> Nat] /\ sent \in [Dev -> SUBSET Nat]
      /\ indexWithinSendChunk \in [Dev -> 0..ChunkLength - 1] /\ written \in [Dev -> Seq(Int)]
  BY LinkAssumption DEF TypeOK
<1>2. UNCHANGED progress => UNCHANGED <<messageBeingSent, Upcoming, sent>>
  BY DEF progress, Upcoming, Idle
<1>3. ASSUME NEW m \in Msg, Assign(d, m)
      PROVE  Sender!Take(d, m)
  <2>1. messageBeingSent[d] = NoMessage
    BY <1>3 DEF Assign, Idle
  <2>2. messageBeingSent' = [messageBeingSent EXCEPT ![d] = m]
    BY <1>3 DEF Assign
  <2>3. sendChunkInProgress' = [sendChunkInProgress EXCEPT ![d] = 0]
    BY <1>3 DEF Assign, FromTheStart
  <2>4. Upcoming' = [Upcoming EXCEPT ![d] = 0]
    BY <1>1, <2>2, <2>3 DEF Upcoming, Idle
  <2>5. sent' = [sent EXCEPT ![d] = {}]
    BY <1>3 DEF Assign, FromTheStart
  <2>. QED  BY <2>1, <2>2, <2>4, <2>5 DEF Sender!Take, Sender!Restart, Upcoming
<1>4. CASE AnswerResend(d) \/ TimeOut(d)
  <2>1. /\ messageBeingSent[d] # NoMessage
        /\ sendChunkInProgress[d] = Chunks[messageBeingSent[d]]
        /\ UNCHANGED messageBeingSent
        /\ sendChunkInProgress' = [sendChunkInProgress EXCEPT ![d] = 0]
        /\ sent' = [sent EXCEPT ![d] = {}]
    BY <1>4 DEF AnswerResend, TimeOut, Waiting, Idle, FromTheStart
  <2>2. Upcoming' = [Upcoming EXCEPT ![d] = 0]
    BY <1>1, <2>1 DEF Upcoming, Idle
  <2>3. Upcoming[d] = Chunks[messageBeingSent[d]]
    BY <2>1 DEF Upcoming, Idle
  <2>4. Sender!SendAgain(d)
    BY <2>1, <2>2, <2>3 DEF Sender!SendAgain, Sender!Restart, Upcoming
  <2>. QED  BY <2>4 DEF Sender!Next
<1>5. CASE Continue(d) \/ Wait(d) \/ Refused(d) \/ LinkLost(d) \/ Receives(d) \/ Connect(d)
  BY <1>2, <1>5, ReceivesKeep DEF Continue, Wait, Refused, LinkLost, Connect
<1>6. CASE WriteByte(d)
  BY <1>6 DEF WriteByte, Upcoming, Idle
<1>7. CASE FinishChunk(d) \/ SkipChunk(d)
  <2>1. Sending(d)
    BY <1>7, NextByteTypes DEF FinishChunk, SkipChunk, AtChunk
  <2>2. /\ messageBeingSent[d] # NoMessage
        /\ sendChunkInProgress[d] < Chunks[messageBeingSent[d]]
        /\ UNCHANGED messageBeingSent
        /\ sendChunkInProgress' = [sendChunkInProgress EXCEPT ![d] = sendChunkInProgress[d] + 1]
    BY <1>7, <2>1 DEF FinishChunk, SkipChunk, ComeTo, Sending, Idle
  <2>3. Upcoming' = [Upcoming EXCEPT ![d] = @ + 1] /\ Upcoming[d] = sendChunkInProgress[d]
    BY <1>1, <2>2 DEF Upcoming, Idle
  <2>4. CASE FinishChunk(d) /\ Len(written'[d]) = ChunkLength
    <3>1. sent' = [sent EXCEPT ![d] = @ \cup {sendChunkInProgress[d]}]
      BY <2>4 DEF FinishChunk
    <3>2. Sender!SendChunk(d)
      BY <2>2, <2>3, <3>1 DEF Sender!SendChunk, Sender!HasTurn, Upcoming
    <3>. QED  BY <3>2 DEF Sender!Next
  <2>5. ASSUME UNCHANGED sent,
               \/ sendChunkInProgress[d] = 0
               \/ sendChunkInProgress[d] = 1 /\ 0 \notin sent[d]
        PROVE  Sender!Next
    <3>1. Sender!PassOver(d)
      BY <2>2, <2>3, <2>5 DEF Sender!PassOver, Sender!HasTurn, Upcoming
    <3>. QED  BY <3>1 DEF Sender!Next
  <2>6. CASE FinishChunk(d) /\ Len(written'[d]) # ChunkLength
    <3>1. /\ indexWithinSendChunk[d] + 1 = ChunkLength /\ written' = WithNextByte(d)
          /\ sent' = sent /\ polled = d /\ ~Idle(d)
      BY <2>6 DEF FinishChunk, AtChunk
    <3>2. Len(written'[d]) = (IF indexWithinSendChunk[d] = 0 THEN 0 ELSE Len(written[d])) + 1
      BY <3>1, NextByteLength
    <3>3. indexWithinSendChunk[d] > 0 /\ Len(written[d]) # indexWithinSendChunk[d]
      BY <1>1, <2>6, <3>1, <3>2, LinkAssumption
    <3>. QED  BY <2>5, <3>1, <3>3 DEF Whole
  <2>7. CASE SkipChunk(d)
    <3>1. UNCHANGED sent
      BY <2>7 DEF SkipChunk
    <3>. QED  BY <2>5, <2>7, <3>1, SkipsFirst
  <2>. QED  BY <1>7, <2>4, <2>6, <2>7
<1>8. CASE GiveUp(d) \/ Disconnect(d)
  <2>1. /\ messageBeingSent' = [messageBeingSent EXCEPT ![d] = NoMessage]
        /\ sent' = [sent EXCEPT ![d] = {}]
        /\ \A e \in Dev \ {d} : sendChunkInProgress'[e] = sendChunkInProgress[e]
    BY <1>1, <1>8 DEF GiveUp, Disconnect, ResetSend
  <2>2. Upcoming' = [Upcoming EXCEPT ![d] = 0]
    BY <1>1, <2>1 DEF Upcoming, Idle
  <2>3. CASE messageBeingSent[d] = NoMessage
    <3>1. sent[d] = {}
      BY <2>3 DEF Whole, Idle
    <3>2. messageBeingSent' = messageBeingSent /\ Upcoming' = Upcoming /\ sent' = sent
      BY <1>1, <2>1, <2>2, <2>3, <3>1 DEF Upcoming, Idle
    <3>. QED  BY <3>2
  <2>4. CASE messageBeingSent[d] # NoMessage
    <3>1. Sender!Drop(d)
      BY <2>1, <2>2, <2>4 DEF Sender!Drop, Sender!Restart, Upcoming
    <3>. QED  BY <3>1 DEF Sender!Next
  <2>. QED  BY <2>3, <2>4
<1>. QED  BY <1>3, <1>4, <1>5, <1>6, <1>7, <1>8 DEF Polls, Accepted, Sender!Next

\* Sending implements ChunkSender: the chunks come in turn, from the first
\* again only after the last, and no chunk but the first is passed over, nor
\* the beginning of any but the second (Send.cpp:53-70, 73, 99-101).
THEOREM SendsInOrderHolds == Spec => SendsInOrder
<1>1. Init => Sender!Init /\ \A d \in Dev : Whole(d)
  BY DEF Init, Sender!Init, Idle, Whole
<1>2. TypeOK /\ (\A d \in Dev : Whole(d)) /\ [Next]_vars => (\A d \in Dev : Whole(d))'
  <2>1. TypeOK /\ (\A d \in Dev : Whole(d)) /\ Next => (\A d \in Dev : Whole(d))'
    BY WholeStep DEF Next
  <2>2. (\A d \in Dev : Whole(d)) /\ UNCHANGED vars => (\A d \in Dev : Whole(d))'
    BY DEF Whole, Idle, vars, progress
  <2>. QED  BY <2>1, <2>2
<1>3. TypeOK /\ (\A d \in Dev : Whole(d)) /\ [Next]_vars => [Sender!Next]_(Sender!vars)
  <2>1. TypeOK /\ (\A d \in Dev : Whole(d)) /\ Next => Sender!Next \/ UNCHANGED Sender!vars
    BY SenderStep DEF Next, Sender!vars, Upcoming
  <2>2. UNCHANGED vars => UNCHANGED Sender!vars
    BY DEF vars, progress, Sender!vars, Idle
  <2>. QED  BY <2>1, <2>2
<1>. QED  BY <1>1, <1>2, <1>3, TypeCorrect, PTL DEF Spec, SendsInOrder, Sender!Spec
=============================================================================
