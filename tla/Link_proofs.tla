----------------------------- MODULE Link_proofs -----------------------------
(* Theorems about Link: for every set of devices, every length of a chunk   *)
(* and of a buffer, every limit of attempts and any bytes that come.        *)
EXTENDS Link, TLAPS

-----------------------------------------------------------------------------
(* What one byte does to a receiver.                                        *)

\* A receiver that has not got beyond the first chunk of a message.
InFirstChunk(r) ==
  /\ r \in Receiver /\ r.held <= BufferSize(r)
  /\ r.state \in {"new", "unformed", "first", "start"}
  /\ r.state = "start" => r.index > 0
  /\ r.flags \subseteq {0}

\* A receiver that is reset is in no chunk.
LEMMA BlankFirst == InFirstChunk(Blank)
<1>1. ChunkLength + 1 \in Nat /\ 0 <= ChunkLength + 1
  BY ReceiveAssumption
<1>2. Blank \in Receiver
  BY DEF Blank, Receiver
<1>. QED  BY <1>1, <1>2 DEF InFirstChunk, Blank, BufferSize

\* Storing a byte keeps to the buffer, and flags no chunk.
LEMMA StoredFirst ==
  ASSUME NEW r, InFirstChunk(r), NEW o \in Stored(r)
  PROVE  InFirstChunk(o.next) /\ o.next.flags \in {r.flags, {}}
<1>1. /\ ChunkLength \in Nat /\ ExpectedLength \in Nat /\ ExpectedLength > ChunkLength + 1
      /\ r \in Receiver /\ r.held \in Nat /\ r.held <= BufferSize(r) /\ r.temp \in BOOLEAN
  BY ReceiveAssumption DEF InFirstChunk, Receiver
<1>2. ASSUME NEW n \in Nat, NEW t \in BOOLEAN, n <= (IF t THEN ChunkLength + 1 ELSE ExpectedLength),
             o.next = [r EXCEPT !.temp = t, !.held = n]
      PROVE  InFirstChunk(o.next) /\ o.next.flags = r.flags
  BY <1>2 DEF InFirstChunk, Receiver, BufferSize
<1>3. CASE o.next = Blank
  BY <1>3, BlankFirst DEF Blank
<1>4. CASE r.held < BufferSize(r)
  <2>1. o.next = [r EXCEPT !.held = @ + 1]
    BY <1>4 DEF Stored
  <2>2. o.next = [r EXCEPT !.temp = r.temp, !.held = r.held + 1]
    BY <2>1, <1>1 DEF Receiver
  <2>3. r.held + 1 \in Nat /\ r.held + 1 <= (IF r.temp THEN ChunkLength + 1 ELSE ExpectedLength)
    BY <1>1, <1>4 DEF BufferSize
  <2>. QED  BY <1>1, <1>2, <2>2, <2>3
<1>5. CASE r.held >= BufferSize(r) /\ r.temp
  <2>1. r.held = ChunkLength + 1
    BY <1>1, <1>5 DEF BufferSize
  <2>2. \A n \in Copied(r) : n \in Nat /\ n <= ExpectedLength
    <3>1. ASSUME NEW k \in (IF r.state = "unformed" THEN r.held ELSE 0)..ExpectedLength
          PROVE  LET n == IF k < ExpectedLength THEN k + 1 ELSE k
                 IN  n \in Nat /\ n <= ExpectedLength
      BY <1>1
    <3>. QED  BY <3>1 DEF Copied
  <2>3. CASE o.next = r
    BY <2>3
  <2>4. ASSUME NEW n \in Copied(r), o.next = [r EXCEPT !.temp = FALSE, !.held = n]
        PROVE  InFirstChunk(o.next) /\ o.next.flags = r.flags
    <3>1. n \in Nat /\ n <= ExpectedLength
      BY <2>2
    <3>. QED  BY <1>2, <2>4, <3>1
  <2>5. o.next = r \/ \E n \in Copied(r) : o.next = [r EXCEPT !.temp = FALSE, !.held = n]
    <3>1. ~(r.held < BufferSize(r))
      BY <1>1, <1>5, <2>1 DEF BufferSize
    <3>2. o \in Overflown(r)
      BY <3>1 DEF Stored
    <3>3. \/ o = [next |-> r, stored |-> FALSE]
          \/ \E n \in Copied(r) :
               o = [next |-> [r EXCEPT !.temp = FALSE, !.held = n], stored |-> TRUE]
      BY <1>5, <3>2, Zenon DEF Overflown
    <3>4. CASE o = [next |-> r, stored |-> FALSE]
      BY <3>4
    <3>5. ASSUME NEW n \in Copied(r),
                 o = [next |-> [r EXCEPT !.temp = FALSE, !.held = n], stored |-> TRUE]
          PROVE  o.next = [r EXCEPT !.temp = FALSE, !.held = n]
      BY <3>5
    <3>. QED  BY <3>3, <3>4, <3>5
  <2>. QED  BY <2>3, <2>4, <2>5
<1>6. CASE r.held >= BufferSize(r) /\ ~r.temp
  <2>1. BufferSize(r) \in Nat
    BY <1>1 DEF BufferSize
  <2>2. ~(r.held < BufferSize(r))
    BY <1>1, <1>6, <2>1
  <2>3. o \in {[next |-> Blank, stored |-> FALSE]}
    BY <1>6, <2>2 DEF Stored, Overflown
  <2>. QED  BY <1>3, <2>3
<1>7. BufferSize(r) \in Nat
  BY <1>1 DEF BufferSize
<1>. QED  BY <1>1, <1>4, <1>5, <1>6, <1>7

\* Taking a byte, too: the number of a chunk is not waited for.
LEMMA TakenFirst ==
  ASSUME NEW r, InFirstChunk(r), NEW u \in Byte, NEW o \in Taken(r, u)
  PROVE  InFirstChunk(o.next) /\ o.next.flags \in {r.flags, {}}
<1>1. r \in Receiver /\ ~AwaitsChunk(r)
  BY DEF InFirstChunk, AwaitsChunk, Receiver
<1>2. CASE Ignores(r, u)
  BY <1>2 DEF Taken
<1>3. CASE ~Ignores(r, u)
  <2>1. o \in Stored(Classified(r, u))
    BY <1>1, <1>3 DEF Taken
  <2>2. InFirstChunk(Classified(r, u)) /\ Classified(r, u).flags = r.flags
    BY <1>1 DEF Classified, InFirstChunk, Receiver, BufferSize
  <2>. QED  BY <2>1, <2>2, StoredFirst
<1>. QED  BY <1>2, <1>3

\* Nor does looking at it lead to another chunk.
LEMMA CheckedFirst ==
  ASSUME NEW r, InFirstChunk(r), NEW next \in Checked([r EXCEPT !.index = @ + 1])
  PROVE  InFirstChunk(next) /\ next.flags \in {r.flags, {}, {0}}
<1> DEFINE s == [r EXCEPT !.index = @ + 1]
<1>1. r \in Receiver /\ r.index \in Nat /\ MaxChunks \in Nat
  BY ReceiveAssumption DEF InFirstChunk, Receiver
<1>2. InFirstChunk(s) /\ s.flags = r.flags /\ s.state = r.state
  BY <1>1 DEF InFirstChunk, Receiver, BufferSize
<1>3. CASE s.state # "first"
  <2>1. Checked(s) = {s}
    BY <1>2, <1>3 DEF Checked, InFirstChunk
  <2>. QED  BY <1>2, <2>1
<1>4. CASE s.state = "first"
  <2>1. next \in FirstChunkChecked(s)
    BY <1>4 DEF Checked
  <2>2. next = s \/ next = Blank \/ next \in Accepted(s)
    BY <2>1 DEF FirstChunkChecked
  <2>3. CASE next \in Accepted(s)
    <3> HIDE DEF s
    <3>1. PICK n \in 1..MaxChunks :
            next = [s EXCEPT !.state = "start", !.index = 1, !.chunk = 1,
                             !.expected = n, !.flags = @ \cup {0}]
      BY <2>3 DEF Accepted
    <3>2. n \in Nat /\ s.flags \subseteq {0} /\ s \in Receiver
      BY <1>1, <1>2 DEF InFirstChunk
    <3>3. /\ next.state = "start" /\ next.index = 1 /\ next.flags = s.flags \cup {0}
          /\ next.held = s.held /\ next.temp = s.temp
      BY <3>1, <3>2 DEF Receiver
    <3>4. next.flags = {0}
      BY <3>2, <3>3
    <3>5. next \in Receiver
      <4>1. s.flags \cup {0} \in SUBSET Nat
        BY <3>2
      <4>. QED  BY <3>1, <3>2, <4>1 DEF Receiver
    <3>6. InFirstChunk(next)
      BY <1>2, <3>3, <3>4, <3>5 DEF InFirstChunk, BufferSize
    <3>. QED  BY <3>4, <3>6
  <2>4. CASE next = s
    BY <1>2, <2>4
  <2>5. CASE next = Blank
    BY <2>5, BlankFirst DEF Blank
  <2>. QED  BY <2>2, <2>3, <2>4, <2>5
<1>. QED  BY <1>3, <1>4

-----------------------------------------------------------------------------
(* The inductive invariant: that no message gets beyond its first chunk is  *)
(* what keeps the flags, and so what sending sees of receiving, as LinkSend *)
(* has it.  That receiving polls only between two polls of sending is part  *)
(* of it.                                                                   *)

IInv ==
  /\ TypeOK
  /\ \A d \in Dev : InFirstChunk(receiver[d])

\* The initial states satisfy it.
LEMMA InitInvariant == Init => IInv
<1>. SUFFICES ASSUME Init PROVE IInv
  OBVIOUS
<1>1. InFirstChunk(Blank) /\ Blank \in Receiver /\ Blank.held <= BufferSize(Blank)
  BY BlankFirst DEF InFirstChunk
<1>2. receiver = [d \in Dev |-> Blank] /\ asked = [d \in Dev |-> 0]
  BY DEF Init
<1>3. 0 \in 0..Sender!EndOfAttempts
  BY ReceiveAssumption DEF Sender!EndOfAttempts
<1>4. asked \in [Dev -> 0..Sender!EndOfAttempts]
  BY <1>2, <1>3
<1>5. /\ central \in SUBSET Dev /\ phase \in {"receive", "send"} /\ due \in SUBSET Dev
      /\ reader \in Dev \cup {NoDevice} /\ taken \in Byte \cup {NoByte}
      /\ reader # NoDevice => polled = NoDevice
      /\ nCentral \in Counts
  BY ReceiveAssumption DEF Init, Sender!Init
<1>. QED  BY <1>1, <1>2, <1>4, <1>5 DEF IInv, TypeOK

\* What TypeOK says of the variables of the loop.
LoopOK ==
  /\ central \in SUBSET Dev /\ phase \in {"receive", "send"} /\ due \in SUBSET Dev
  /\ nCentral \in Counts
  /\ reader \in Dev \cup {NoDevice} /\ taken \in Byte \cup {NoByte}
  /\ reader # NoDevice => polled = NoDevice

\* What it says of what is received.
ReceivedOK ==
  /\ receiver \in [Dev -> Receiver]
  /\ \A d \in Dev : InFirstChunk(receiver[d])
  /\ asked \in [Dev -> 0..Sender!EndOfAttempts]

\* The two are all of the invariant.
LEMMA Parts == IInv <=> LoopOK /\ ReceivedOK
<1>1. \A d \in Dev : InFirstChunk(receiver[d]) => receiver[d].held <= BufferSize(receiver[d])
  BY DEF InFirstChunk
<1>. QED  BY <1>1 DEF IInv, TypeOK, LoopOK, ReceivedOK

\* The two are all of the invariant, after a step.
LEMMA PartsAfter == LoopOK' /\ ReceivedOK' => IInv'
<1>1. \A d \in Dev : InFirstChunk(receiver'[d]) => receiver'[d].held <= BufferSize(receiver'[d])
  BY DEF InFirstChunk
<1>. QED  BY <1>1 DEF IInv, TypeOK, LoopOK, ReceivedOK

\* A device that holds another receiver in its first chunk keeps its part.
LEMMA HoldsFirst ==
  ASSUME ReceivedOK, NEW d \in Dev, NEW r, InFirstChunk(r), Holds(d, r)
  PROVE  ReceivedOK'
<1>1. r \in Receiver
  BY DEF InFirstChunk
<1>2. receiver' \in [Dev -> Receiver]
  BY <1>1 DEF ReceivedOK, Holds
<1>3. \A e \in Dev : receiver'[e] = r \/ receiver'[e] = receiver[e]
  BY DEF ReceivedOK, Holds
<1>4. \A e \in Dev : InFirstChunk(receiver'[e])
  BY <1>3 DEF ReceivedOK
<1>5. 0 \in 0..Sender!EndOfAttempts
  BY ReceiveAssumption DEF Sender!EndOfAttempts
<1>6. asked' \in [Dev -> 0..Sender!EndOfAttempts]
  BY <1>5 DEF ReceivedOK, Holds
<1>. QED  BY <1>2, <1>4, <1>6 DEF ReceivedOK

\* So does one whose receiver is left alone.
LEMMA ReceivedKept == ReceivedOK /\ UNCHANGED <<receiver, asked>> => ReceivedOK'
BY DEF ReceivedOK, InFirstChunk, Receiver, BufferSize

-----------------------------------------------------------------------------
(* What a step is to LinkSend.                                              *)

SenderStep == Sender!Next \/ UNCHANGED Sender!vars

\* A step that leaves sending and the flags alone is none.
LEMMA NoStep ==
  UNCHANGED sending /\ [d \in Dev |-> receiver'[d].flags] = [d \in Dev |-> receiver[d].flags]
    => SenderStep
BY DEF SenderStep, sending, Sender!vars, Sender!progress, Sender!task

\* What the flags become when a device holds another receiver.
LEMMA FlagsHeld ==
  ASSUME ReceivedOK, NEW d \in Dev, NEW r, Holds(d, r)
  PROVE  [e \in Dev |-> receiver'[e].flags]
           = [[e \in Dev |-> receiver[e].flags] EXCEPT ![d] = r.flags]
BY DEF ReceivedOK, Holds

\* A device that holds another receiver while it is polled has ended a message, or its first chunk has come, or sending sees nothing.
LEMMA HoldsStep ==
  ASSUME ReceivedOK, NEW d \in Dev, reader = d, UNCHANGED sending, NEW r, Holds(d, r), r.flags \in {receiver[d].flags, {}, {0}}
  PROVE  SenderStep
<1>1. [e \in Dev |-> receiver'[e].flags]
        = [[e \in Dev |-> receiver[e].flags] EXCEPT ![d] = r.flags]
  BY FlagsHeld
<1>2. CASE r.flags = receiver[d].flags
  BY <1>1, <1>2, NoStep
<1>3. CASE r.flags = {}
  <2>1. Sender!ReceiveEnds(d)
    BY <1>1, <1>3 DEF Sender!ReceiveEnds, Sender!progress, Sender!task, sending
  <2>. QED  BY <2>1 DEF SenderStep, Sender!Next, Sender!Receives
<1>4. CASE r.flags = {0}
  <2>1. Sender!FirstChunkReceived(d)
    BY <1>1, <1>4 DEF Sender!FirstChunkReceived, Sender!progress, Sender!task, sending
  <2>. QED  BY <2>1 DEF SenderStep, Sender!Next, Sender!Receives
<1>. QED  BY <1>2, <1>3, <1>4

-----------------------------------------------------------------------------
(* Each step keeps the invariant, and is a step of LinkSend or none.        *)

\* A poll that receives begins or ends.
LEMMA PollStep ==
  ASSUME LoopOK, ReceivedOK, NEW d \in Dev, BeginPoll(d) \/ EndPoll(d)
  PROVE  LoopOK' /\ ReceivedOK' /\ SenderStep
<1>1. UNCHANGED <<receiver, asked, taken>>
  BY DEF BeginPoll, EndPoll, receiving
<1>2. ReceivedOK'
  BY <1>1, ReceivedKept
<1>3. \/ Sender!StartReceiving(d) \/ Sender!StopReceiving(d)
      \/ reader = NoDevice /\ UNCHANGED sending
  BY DEF BeginPoll, EndPoll, ComesTo
<1>4. SenderStep
  <2>1. CASE UNCHANGED sending
    BY <1>1, <2>1, NoStep
  <2>2. CASE Sender!StartReceiving(d) \/ Sender!StopReceiving(d)
    BY <2>2 DEF SenderStep, Sender!Next, Sender!Receives
  <2>. QED  BY <1>3, <2>1, <2>2
<1>5. reader' \in Dev \cup {NoDevice} /\ (reader' # NoDevice => polled' = NoDevice)
  BY <1>3 DEF Sender!StartReceiving, Sender!StopReceiving, Sender!TaskIsFree, sending, LoopOK
<1>6. LoopOK'
  BY <1>1, <1>5 DEF LoopOK, BeginPoll, EndPoll, ComesTo, loop
<1>. QED  BY <1>2, <1>4, <1>6

\* A byte is taken.
LEMMA TakeStep ==
  ASSUME LoopOK, ReceivedOK, NEW d \in Dev, NEW u \in Byte, TakeByte(d, u)
  PROVE  LoopOK' /\ ReceivedOK' /\ SenderStep
<1>1. PICK o \in Taken(receiver[d], u) :
        Holds(d, o.next) /\ taken' = IF o.stored THEN u ELSE NoByte
  BY DEF TakeByte
<1>2. InFirstChunk(receiver[d])
  BY DEF ReceivedOK
<1>3. InFirstChunk(o.next) /\ o.next.flags \in {receiver[d].flags, {}}
  BY <1>2, TakenFirst
<1>4. reader = d /\ UNCHANGED sending
  BY DEF TakeByte
<1>5. ReceivedOK'
  BY <1>1, <1>3, HoldsFirst
<1>6. SenderStep
  BY <1>1, <1>3, <1>4, HoldsStep
<1>7. taken' \in Byte \cup {NoByte}
  BY <1>1
<1>8. LoopOK'
  BY <1>4, <1>7 DEF LoopOK, TakeByte, loop, sending
<1>. QED  BY <1>5, <1>6, <1>8

\* The byte is looked at.
LEMMA CheckStep ==
  ASSUME LoopOK, ReceivedOK, NEW d \in Dev, CheckByte(d)
  PROVE  LoopOK' /\ ReceivedOK' /\ SenderStep
<1> DEFINE r == [receiver[d] EXCEPT !.index = @ + 1]
<1>1. reader = d /\ taken' = NoByte /\ UNCHANGED <<central, phase, due, nCentral>>
  BY DEF CheckByte, loop
<1>2. polled = NoDevice
  BY <1>1, ReceiveAssumption DEF LoopOK
<1>3. InFirstChunk(receiver[d])
  BY DEF ReceivedOK
<1>4. CASE r.state = "unformed" /\ ~IsText(taken)
  <2>1. Holds(d, Blank) /\ (Sender!ResendRequested(d) \/ Sender!ReceiveEnds(d))
    BY <1>4 DEF CheckByte
  <2>2. ReceivedOK'
    BY <2>1, BlankFirst, HoldsFirst
  <2>3. SenderStep
    BY <2>1 DEF SenderStep, Sender!Next, Sender!Receives
  <2>4. polled' = polled /\ reader' = reader
    BY <2>1 DEF Sender!ResendRequested, Sender!ReceiveEnds, Sender!task
  <2>5. LoopOK'
    BY <1>1, <1>2, <2>4 DEF LoopOK
  <2>. QED  BY <2>2, <2>3, <2>5
<1>5. CASE ~(r.state = "unformed" /\ ~IsText(taken))
  <2>1. UNCHANGED sending /\ \E next \in Checked(r) : Holds(d, next)
    BY <1>5 DEF CheckByte
  <2>2. PICK next \in Checked(r) : Holds(d, next)
    BY <2>1
  <2>3. InFirstChunk(next) /\ next.flags \in {receiver[d].flags, {}, {0}}
    BY <1>3, CheckedFirst
  <2>4. ReceivedOK'
    BY <2>2, <2>3, HoldsFirst
  <2>5. SenderStep
    BY <1>1, <2>1, <2>2, <2>3, HoldsStep
  <2>6. LoopOK'
    BY <1>1, <1>2, <2>1 DEF LoopOK, sending
  <2>. QED  BY <2>4, <2>5, <2>6
<1>. QED  BY <1>4, <1>5

\* The device is asked for more, or what it has sent is given up.
LEMMA AskStep ==
  ASSUME LoopOK, ReceivedOK, NEW d \in Dev, Ask(d) \/ Clear(d)
  PROVE  LoopOK' /\ ReceivedOK' /\ SenderStep
<1>1. CASE Ask(d)
  <2>1. /\ UNCHANGED receiver /\ Sender!AskForResend(d) /\ polled' = polled
        /\ reader' = NoDevice /\ UNCHANGED <<taken, central, phase, due, nCentral>>
    BY <1>1 DEF Ask, loop, Sender!AskForResend
  <2>2. asked' \in [Dev -> 0..Sender!EndOfAttempts]
    <3>1. \A n \in 0..Sender!EndOfAttempts : Sender!Counted(n) \in 0..Sender!EndOfAttempts
      BY ReceiveAssumption DEF Sender!EndOfAttempts, Sender!Counted
    <3>2. asked \in [Dev -> 0..Sender!EndOfAttempts]
      BY DEF ReceivedOK
    <3>3. asked' = asked \/ asked' = [asked EXCEPT ![d] = Sender!Counted(@)]
      BY <1>1 DEF Ask
    <3>4. Sender!Counted(asked[d]) \in 0..Sender!EndOfAttempts
      BY <3>1, <3>2
    <3>. QED  BY <3>2, <3>3, <3>4
  <2>3. ReceivedOK'
    BY <2>1, <2>2 DEF ReceivedOK, InFirstChunk, Receiver, BufferSize
  <2>4. LoopOK'
    BY <2>1 DEF LoopOK
  <2>. QED  BY <2>1, <2>3, <2>4 DEF SenderStep, Sender!Next, Sender!Receives
<1>2. CASE Clear(d)
  <2>1. /\ Holds(d, Blank) /\ Sender!GiveUpReceiving(d)
        /\ reader' = NoDevice /\ UNCHANGED <<taken, central, phase, due, nCentral>>
    BY <1>2 DEF Clear, loop, Sender!GiveUpReceiving
  <2>2. ReceivedOK'
    BY <2>1, BlankFirst, HoldsFirst
  <2>3. LoopOK'
    BY <2>1 DEF LoopOK
  <2>. QED  BY <2>1, <2>2, <2>3 DEF SenderStep, Sender!Next, Sender!Receives
<1>. QED  BY <1>1, <1>2

\* Sending goes on; it does so only while no poll receives.
LEMMA SendStep ==
  ASSUME LoopOK, ReceivedOK, NEW d \in Dev, Sends(d)
  PROVE  LoopOK' /\ ReceivedOK' /\ SenderStep
<1>1. UNCHANGED <<receiver, asked, taken>>
  BY DEF Sends, PollSend, ByteAccepted, PollEnds, receiving
<1>2. ReceivedOK'
  BY <1>1, ReceivedKept
<1>3. reader = NoDevice
  <2>1. CASE PollSend(d)
    BY <2>1 DEF PollSend, ComesTo
  <2>2. CASE ByteAccepted(d) \/ PollEnds(d)
    <3>1. polled = d
      BY <2>2 DEF ByteAccepted, PollEnds, Sender!Accepted, Sender!WriteByte, Sender!FinishChunk,
                  Sender!SkipChunk, Sender!Refused, Sender!LinkLost, Sender!AtChunk
    <3>. QED  BY <3>1, ReceiveAssumption DEF LoopOK
  <2>. QED  BY <2>1, <2>2 DEF Sends
<1>4. /\ central' \in SUBSET Dev /\ phase' \in {"receive", "send"} /\ due' \in SUBSET Dev
      /\ nCentral' \in Counts
  BY DEF LoopOK, Sends, PollSend, ComesTo, ByteAccepted, PollEnds, loop
<1>5. LoopOK'
  <2>1. reader' = reader
    BY DEF Sends, PollSend, ByteAccepted, PollEnds, sending, Sender!Assign, Sender!FromTheStart,
           Sender!Polls, Sender!Continue, Sender!AnswerResend, Sender!TimeOut, Sender!GiveUp,
           Sender!Wait, Sender!Accepted, Sender!WriteByte, Sender!FinishChunk,
           Sender!SkipChunk, Sender!ComeTo, Sender!Refused, Sender!LinkLost, Sender!task
  <2>. QED  BY <1>1, <1>3, <1>4, <2>1 DEF LoopOK
<1>6. SenderStep
  <2>1. CASE PollSend(d)
    <3>1. CASE \E m \in Msg : Sender!Assign(d, m)
      BY <3>1 DEF SenderStep, Sender!Next
    <3>2. CASE Sender!Polls(d)
      BY <3>2 DEF SenderStep, Sender!Next
    <3>3. CASE UNCHANGED sending
      BY <1>1, <3>3, NoStep
    <3>. QED  BY <2>1, <3>1, <3>2, <3>3 DEF PollSend
  <2>2. CASE ByteAccepted(d)
    BY <2>2 DEF ByteAccepted, SenderStep, Sender!Next
  <2>3. CASE PollEnds(d)
    BY <2>3 DEF PollEnds, SenderStep, Sender!Next
  <2>. QED  BY <2>1, <2>2, <2>3 DEF Sends
<1>. QED  BY <1>2, <1>5, <1>6

\* A device connects, or its link goes down.
LEMMA CallbackStep ==
  ASSUME LoopOK, ReceivedOK, NEW d \in Dev, Connect(d) \/ Disconnect(d)
  PROVE  LoopOK' /\ ReceivedOK' /\ SenderStep
<1>1. Holds(d, Blank) \/ UNCHANGED <<receiver, asked>>
  BY DEF Connect, Disconnect
<1>2. ReceivedOK'
  BY <1>1, BlankFirst, HoldsFirst, ReceivedKept
<1>3. Sender!Connect(d) \/ Sender!Disconnect(d)
  BY DEF Connect, Disconnect
<1>4. polled' = polled /\ UNCHANGED <<reader, taken, central, phase, due, nCentral>>
  BY <1>3 DEF Connect, Disconnect, loop, Sender!Connect, Sender!Disconnect, Sender!task
<1>5. LoopOK'
  BY <1>4 DEF LoopOK
<1>. QED  BY <1>2, <1>3, <1>5 DEF SenderStep, Sender!Next

\* So does every step.
LEMMA EveryStep ==
  ASSUME IInv, [Next]_vars
  PROVE  IInv' /\ SenderStep
<1>1. LoopOK /\ ReceivedOK
  BY Parts
<1>2. CASE UNCHANGED vars
  <2>1. UNCHANGED <<sending, receiver, asked, reader, taken, central, phase, due, nCentral, polled>>
    BY <1>2 DEF vars, receiving, loop, sending
  <2>2. LoopOK' /\ ReceivedOK'
    BY <1>1, <2>1, ReceivedKept DEF LoopOK
  <2>. QED  BY <2>1, <2>2, PartsAfter, NoStep
<1>3. CASE Next
  <2>1. CASE NextPhase
    <3>1. UNCHANGED <<sending, receiver, asked>>
      BY <2>1 DEF NextPhase, receiving
    <3>2. ReceivedOK' /\ SenderStep
      BY <1>1, <3>1, ReceivedKept, NoStep
    <3>3. LoopOK'
      BY <1>1, <2>1 DEF LoopOK, NextPhase, receiving, sending
    <3>. QED  BY <3>2, <3>3, PartsAfter
  <2>2. ASSUME NEW d \in Dev, Receives(d)
        PROVE  LoopOK' /\ ReceivedOK' /\ SenderStep
    <3>1. CASE BeginPoll(d) \/ EndPoll(d)
      BY <1>1, <3>1, PollStep
    <3>2. CASE \E u \in Byte : TakeByte(d, u)
      BY <1>1, <3>2, TakeStep
    <3>3. CASE CheckByte(d)
      BY <1>1, <3>3, CheckStep
    <3>4. CASE Ask(d) \/ Clear(d)
      BY <1>1, <3>4, AskStep
    <3>. QED  BY <2>2, <3>1, <3>2, <3>3, <3>4 DEF Receives
  <2>3. ASSUME NEW d \in Dev, Sends(d)
        PROVE  LoopOK' /\ ReceivedOK' /\ SenderStep
    BY <1>1, <2>3, SendStep
  <2>4. ASSUME NEW d \in Dev, Connect(d) \/ Disconnect(d)
        PROVE  LoopOK' /\ ReceivedOK' /\ SenderStep
    BY <1>1, <2>4, CallbackStep
  <2>5. CASE Recount
    <3>1. UNCHANGED <<sending, receiver, asked>>
      BY <2>5 DEF Recount, receiving
    <3>2. ReceivedOK' /\ SenderStep
      BY <1>1, <3>1, ReceivedKept, NoStep
    <3>3. LoopOK'
      BY <1>1, <2>5 DEF LoopOK, Recount, receiving, sending
    <3>. QED  BY <3>2, <3>3, PartsAfter
  <2>. QED  BY <1>3, <2>1, <2>2, <2>3, <2>4, <2>5, PartsAfter DEF Next, Task
<1>. QED  BY <1>2, <1>3

\* The invariant holds.
LEMMA Invariant == Spec => []IInv
<1>1. IInv /\ [Next]_vars => IInv'
  BY EveryStep
<1>. QED  BY InitInvariant, <1>1, PTL DEF Spec

-----------------------------------------------------------------------------
\* Every variable holds what its declaration says, and no buffer a message is
\* received in is written beyond its size, whatever comes and whenever a link
\* goes down (Receive.cpp:47-72).
THEOREM TypeCorrect == Spec => []TypeOK
<1>1. IInv => TypeOK
  BY DEF IInv
<1>. QED  BY Invariant, <1>1, PTL

\* Why no message longer than a chunk is ever received: nothing but its first
\* chunk is recognised (Receive.cpp:43-51, 133-139).
THEOREM NoOtherChunk == Spec => []OnlyFirstChunks
<1>1. IInv => OnlyFirstChunks
  BY DEF IInv, InFirstChunk, OnlyFirstChunks
<1>. QED  BY Invariant, <1>1, PTL

\* Whatever is received, what LinkSend says of sending holds of a node that
\* does both: its theorems are theorems about Link (Receive.cpp:133-139,
\* BleDeviceTable.cpp:27-78).
THEOREM SendingImplemented == Spec => SendingRefined
<1>1. Init => Sender!Init
  BY DEF Init
<1>2. IInv /\ [Next]_vars => [Sender!Next]_(Sender!vars)
  BY EveryStep DEF SenderStep
<1>. QED  BY Invariant, <1>1, <1>2, PTL DEF Spec, SendingRefined, Sender!Spec
-----------------------------------------------------------------------------
(* The theorems about sending, for the sending half of a node that receives, *)
(* too.  SenderProofs is LinkSend under the substitution of Sender, with its *)
(* theorems: each step below says that a definition of the one is that of    *)
(* the other.                                                              *)

SenderProofs == INSTANCE LinkSend_proofs WITH received <- [d \in Dev |-> receiver[d].flags]

LEMMA SameStep == Sender!Next => SenderProofs!Next
<1>1. ASSUME NEW d, NEW m, Sender!Assign(d, m)
      PROVE  SenderProofs!Assign(d, m)
  BY <1>1
     DEF Sender!Assign, SenderProofs!Assign, Sender!FromTheStart, SenderProofs!FromTheStart,
         Sender!Idle, SenderProofs!Idle, Sender!TaskIsFree, SenderProofs!TaskIsFree
<1>2. ASSUME NEW d, Sender!Polls(d)
      PROVE  SenderProofs!Polls(d)
  BY <1>2
     DEF Sender!Polls, SenderProofs!Polls, Sender!Continue, SenderProofs!Continue,
         Sender!AnswerResend, SenderProofs!AnswerResend, Sender!TimeOut,
         SenderProofs!TimeOut, Sender!GiveUp, SenderProofs!GiveUp, Sender!Wait,
         SenderProofs!Wait, Sender!Poll, SenderProofs!Poll, Sender!Idle, SenderProofs!Idle,
         Sender!Sending, SenderProofs!Sending, Sender!Waiting, SenderProofs!Waiting,
         Sender!Chunks, SenderProofs!Chunks, Sender!NumberOfChunks,
         SenderProofs!NumberOfChunks, Sender!FromTheStart, SenderProofs!FromTheStart,
         Sender!ResetSend, SenderProofs!ResetSend, Sender!Clamped, SenderProofs!Clamped,
         Sender!ResumeAt, SenderProofs!ResumeAt, Sender!StartOfChunk,
         SenderProofs!StartOfChunk, Sender!Counted, SenderProofs!Counted,
         Sender!EndOfAttempts, SenderProofs!EndOfAttempts, Sender!progress,
         SenderProofs!progress, Sender!TaskIsFree, SenderProofs!TaskIsFree, Sender!task,
         SenderProofs!task
<1>3. ASSUME NEW d, Sender!Accepted(d)
      PROVE  SenderProofs!Accepted(d)
  BY <1>3
     DEF Sender!Accepted, SenderProofs!Accepted, Sender!WriteByte, SenderProofs!WriteByte,
         Sender!FinishChunk, SenderProofs!FinishChunk, Sender!SkipChunk,
         SenderProofs!SkipChunk, Sender!AtChunk, SenderProofs!AtChunk, Sender!NeedsToBeSent,
         SenderProofs!NeedsToBeSent, Sender!Idle, SenderProofs!Idle, Sender!ComeTo,
         SenderProofs!ComeTo, Sender!Chunks, SenderProofs!Chunks, Sender!NumberOfChunks,
         SenderProofs!NumberOfChunks, Sender!WithNextByte, SenderProofs!WithNextByte,
         Sender!AfterNextByte, SenderProofs!AfterNextByte, Sender!NextByte,
         SenderProofs!NextByte, Sender!AfterRead, SenderProofs!AfterRead, Sender!ByteAt,
         SenderProofs!ByteAt, Sender!Terminator, SenderProofs!Terminator, Sender!Clamped,
         SenderProofs!Clamped, Sender!ResumeAt, SenderProofs!ResumeAt, Sender!StartOfChunk,
         SenderProofs!StartOfChunk, Sender!Counted, SenderProofs!Counted,
         Sender!EndOfAttempts, SenderProofs!EndOfAttempts, Sender!task, SenderProofs!task
<1>4. ASSUME NEW d, Sender!Refused(d) \/ Sender!LinkLost(d)
      PROVE  SenderProofs!Refused(d) \/ SenderProofs!LinkLost(d)
  BY <1>4
     DEF Sender!Refused, SenderProofs!Refused, Sender!LinkLost, SenderProofs!LinkLost,
         Sender!AtChunk, SenderProofs!AtChunk, Sender!NeedsToBeSent,
         SenderProofs!NeedsToBeSent, Sender!Idle, SenderProofs!Idle, Sender!AfterNextByte,
         SenderProofs!AfterNextByte, Sender!AfterRead, SenderProofs!AfterRead,
         Sender!progress, SenderProofs!progress
<1>5. ASSUME NEW d, Sender!Receives(d)
      PROVE  SenderProofs!Receives(d)
  BY <1>5
     DEF Sender!Receives, SenderProofs!Receives, Sender!ResendRequested,
         SenderProofs!ResendRequested, Sender!AskForResend, SenderProofs!AskForResend,
         Sender!FirstChunkReceived, SenderProofs!FirstChunkReceived, Sender!ReceiveEnds,
         SenderProofs!ReceiveEnds, Sender!StartReceiving, SenderProofs!StartReceiving,
         Sender!StopReceiving, SenderProofs!StopReceiving, Sender!GiveUpReceiving,
         SenderProofs!GiveUpReceiving, Sender!TaskIsFree, SenderProofs!TaskIsFree,
         Sender!task, SenderProofs!task,
         Sender!Counted, SenderProofs!Counted, Sender!EndOfAttempts,
         SenderProofs!EndOfAttempts, Sender!progress, SenderProofs!progress
<1>6. ASSUME NEW d, Sender!Connect(d) \/ Sender!Disconnect(d)
      PROVE  SenderProofs!Connect(d) \/ SenderProofs!Disconnect(d)
  BY <1>6
     DEF Sender!Connect, SenderProofs!Connect, Sender!Disconnect, SenderProofs!Disconnect,
         Sender!ResetSend, SenderProofs!ResetSend, Sender!progress, SenderProofs!progress,
         Sender!task, SenderProofs!task
<1>. QED  BY <1>1, <1>2, <1>3, <1>4, <1>5, <1>6 DEF Sender!Next, SenderProofs!Next

\* A node that sends and receives is a sender that the theorems are about.
LEMMA SameSender == Spec => SenderProofs!Spec
<1>1. Sender!Init => SenderProofs!Init
  BY DEF Sender!Init, SenderProofs!Init
<1>2. UNCHANGED Sender!vars => UNCHANGED SenderProofs!vars
  BY DEF Sender!vars, SenderProofs!vars, Sender!progress, SenderProofs!progress, Sender!task,
         SenderProofs!task
<1>3. [Sender!Next]_(Sender!vars) => [SenderProofs!Next]_(SenderProofs!vars)
  BY <1>2, SameStep
<1>. QED  BY <1>1, <1>3, SendingImplemented, PTL DEF SendingRefined, Sender!Spec, SenderProofs!Spec

\* Whatever is received meanwhile, the bytes of a chunk are written once each and in
\* order (Send.cpp:72-102, Receive.cpp:39-113).
THEOREM ChunksExactMeanwhile == Spec => []Sender!ChunkExact
<1>1. SenderProofs!Spec => []SenderProofs!ChunkExact
  BY SendAssumption, SenderProofs!ChunkExactHolds DEF SenderProofs!ChunkExactHolds
<1>2. SenderProofs!ChunkExact => Sender!ChunkExact
  BY DEF Sender!ChunkExact, SenderProofs!ChunkExact, Sender!Idle, SenderProofs!Idle,
         Sender!WrittenUpTo, SenderProofs!WrittenUpTo, Sender!Image, SenderProofs!Image,
         Sender!ByteAt, SenderProofs!ByteAt, Sender!Terminator, SenderProofs!Terminator,
         Sender!StartOfChunk, SenderProofs!StartOfChunk
<1>. QED  BY <1>1, <1>2, SameSender, PTL

\* Receiving and sending together implement ChunkSender: the chunks to a device come in
\* turn whatever comes from it, and none but the first is ever passed over, nor the
\* beginning of any but the second (Send.cpp:53-70, 99-101, Receive.cpp:39-139).
THEOREM InOrderMeanwhile == Spec => Sender!SendsInOrder
<1>1. SenderProofs!Spec => SenderProofs!SendsInOrder
  BY SendAssumption, SenderProofs!SendsInOrderHolds DEF SenderProofs!SendsInOrderHolds
<1>2. SenderProofs!Sender!Init => Sender!Sender!Init
  BY DEF Sender!Sender!Init, SenderProofs!Sender!Init, Sender!Idle, SenderProofs!Idle
<1>3. [SenderProofs!Sender!Next]_(SenderProofs!Sender!vars) => [Sender!Sender!Next]_(Sender!Sender!vars)
  BY DEF Sender!Sender!Next, SenderProofs!Sender!Next, Sender!Sender!Take,
         SenderProofs!Sender!Take, Sender!Sender!SendChunk, SenderProofs!Sender!SendChunk,
         Sender!Sender!PassOver, SenderProofs!Sender!PassOver, Sender!Sender!HasTurn,
         SenderProofs!Sender!HasTurn, Sender!Sender!Restart, SenderProofs!Sender!Restart,
         Sender!Sender!SendAgain, SenderProofs!Sender!SendAgain, Sender!Sender!Drop,
         SenderProofs!Sender!Drop, Sender!Sender!vars, SenderProofs!Sender!vars,
         Sender!Idle, SenderProofs!Idle, Sender!Chunks, SenderProofs!Chunks,
         Sender!NumberOfChunks, SenderProofs!NumberOfChunks
<1>4. SenderProofs!SendsInOrder => Sender!SendsInOrder
  BY <1>2, <1>3, PTL
     DEF Sender!SendsInOrder, SenderProofs!SendsInOrder, Sender!Sender!Spec,
         SenderProofs!Sender!Spec
<1>. QED  BY <1>1, <1>4, SameSender, PTL
==============================================================================
