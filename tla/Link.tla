-------------------------------- MODULE Link --------------------------------
(***************************************************************************)
(* Both directions of the links of a node: sending (LinkSend) and receiving *)
(* (Receive.cpp, with the answers of SystemMessages.cpp).  pollReceivingMessage *)
(* takes the bytes that have come from a device one by one.  They go to a   *)
(* temporary buffer, and when that is full to an entry of the message table. *)
(* A byte that begins anything is looked at before it is stored, the others *)
(* afterwards; a disconnect callback may come in between.  When nothing has *)
(* come for a while, the device is asked to send again, or the message is   *)
(* given up.                                                                *)
(*                                                                         *)
(* The header of a message is read through messageBeingReceived, which      *)
(* points nowhere while the temporary buffer is in use: what it says of its *)
(* length and its checksums is anything.  So is what the text of an         *)
(* unformed message says.                                                  *)
(***************************************************************************)
EXTENDS Integers, Sequences

CONSTANTS
  Dev, Msg, NoMessage, NoDevice, Length, Capacity, ChunkLength, MaxHopAttempts,
  HeaderLength,   \* COMPILED_MESSAGE_ORIGIN_NAME_POSITION
  ExpectedLength, \* DEFAULT_EXPECTED_MESSAGE_LENGTH
  Byte,           \* bound: the bytes that come
  NoByte,
  MaxChunks,      \* bound: the chunks a header may tell of
  Counts          \* bound: the values of _numberOfBleCentralConnections

ASSUME ReceiveAssumption ==
  /\ ChunkLength \in Nat /\ HeaderLength \in 2..ChunkLength
  /\ ExpectedLength \in Nat /\ ExpectedLength > ChunkLength + 1
  /\ Byte \subseteq 0..255 /\ NoByte \notin Byte
  /\ MaxChunks \in Nat \ {0} /\ MaxHopAttempts \in Nat
  /\ NoDevice \notin Dev
  /\ Counts \subseteq Int /\ 0 \in Counts

VARIABLES
  isConnected, messageBeingSent, sendChunkInProgress, indexWithinSendChunk,
  sendAttempts, sendChunkResendRequested, readIndex, polled, reader, written, sent,
  central,    \* the devices this node connects to as their central
  receiver,   \* the receiving half of bleDeviceTable
  taken,      \* the byte that is stored and not yet looked at
  phase,      \* whether loop() is receiving or sending
  due,        \* the devices it has yet to come to
  nCentral,   \* _numberOfBleCentralConnections
  asked       \* history: how often the sender of what is held was asked for more

(* Sending sees of receiving the flags of the chunks received.             *)
Sender == INSTANCE LinkSend WITH received <- [d \in Dev |-> receiver[d].flags]

\* What LinkSend assumes of messages, buffers and devices.
ASSUME SendAssumption == Sender!LinkAssumption

receiving == <<receiver, taken, asked>>
loop == <<central, phase, due, nCentral>>
sending == <<isConnected, messageBeingSent, sendChunkInProgress, indexWithinSendChunk,
             sendAttempts, sendChunkResendRequested, readIndex, polled, reader, written, sent>>
vars == <<sending, receiving, loop>>

Hash == 35
IsText(u) == u >= 32

(* The receiving half of a BleDeviceTable.  Its temporary buffer is in use  *)
(* or an entry is; `held' bytes are in the buffer that is.                  *)
Receiver ==
  [state : {"new", "unformed", "first", "start", "end", "startOut", "endOut"},
   index : Nat, held : Nat, temp : BOOLEAN, chunk : Nat, expected : Nat, flags : SUBSET Nat]

(* resetReceiveMessage.                                                    *)
Blank == [state |-> "new", index |-> 0, held |-> 0, temp |-> TRUE,
          chunk |-> 0, expected |-> 0, flags |-> {}]

Init ==
  /\ receiver = [d \in Dev |-> Blank]
  /\ Sender!Init
  /\ central \in SUBSET Dev
  /\ taken = NoByte
  /\ phase = "receive" /\ due = Dev
  /\ nCentral = 0
  /\ asked = [d \in Dev |-> 0]

-----------------------------------------------------------------------------
(* One byte: what can become of a receiver r.                              *)

(* Before the first byte of a message only a text byte is heeded.          *)
Ignores(r, u) == r.index = 0 /\ r.state = "new" /\ ~IsText(u)

Classified(r, u) ==
  IF r.index = 0 /\ r.state = "new"
    THEN [r EXCEPT !.state = IF u = Hash THEN "first" ELSE "unformed"]
    ELSE r

AwaitsChunk(r) == r.index = 0 /\ r.state \in {"start", "startOut"}

(* parseExpectedStartOfChunk: the byte should be the number of a chunk.    *)
ChunkBegun(r, u) ==
  IF r.state = "start" /\ u = r.chunk THEN [r EXCEPT !.state = "end"]
  ELSE IF u > r.expected THEN Blank ELSE [r EXCEPT !.chunk = u]

BufferSize(r) == IF r.temp THEN ChunkLength + 1 ELSE ExpectedLength

(* What an entry holds when a temporary buffer has been copied to it, and   *)
(* the next byte.  It is copied up to the first '\0', which no text has; as *)
(* nothing terminates the buffer, the one that ends it may be anywhere     *)
(* behind it.  When that fills the entry, the next byte is not stored.     *)
Copied(r) ==
  {IF n < ExpectedLength THEN n + 1 ELSE n :
     n \in (IF r.state = "unformed" THEN r.held ELSE 0)..ExpectedLength}

(* The buffer is full.  A temporary one is copied to an entry, if one is   *)
(* left; an entry is given up.                                             *)
Overflown(r) ==
  IF r.temp
    THEN {[next |-> r, stored |-> FALSE]} \cup
         {[next |-> [r EXCEPT !.temp = FALSE, !.held = n], stored |-> TRUE] : n \in Copied(r)}
    ELSE {[next |-> Blank, stored |-> FALSE]}

(* Mutant of Stored: the place behind the buffer is written, too.          *)
StoredBehind(r) ==
  IF r.held <= BufferSize(r)
    THEN {[next |-> [r EXCEPT !.held = @ + 1], stored |-> TRUE]}
    ELSE Overflown(r)

Stored(r) ==
  IF r.held < BufferSize(r)
    THEN {[next |-> [r EXCEPT !.held = @ + 1], stored |-> TRUE]}
    ELSE Overflown(r)

Taken(r, u) ==
  IF Ignores(r, u) THEN {[next |-> r, stored |-> FALSE]}
  ELSE IF AwaitsChunk(r) THEN {[next |-> ChunkBegun(r, u), stored |-> FALSE]}
  ELSE Stored(Classified(r, u))

(* Mutant of Accepted: the next byte is expected to be a chunk's number.   *)
AcceptedAtStart(r) ==
  {[r EXCEPT !.state = "start", !.index = 0, !.chunk = 1, !.expected = n, !.flags = {0}] :
     n \in 1..MaxChunks}

(* The header tells of a message longer than a chunk.                      *)
Accepted(r) ==
  {[r EXCEPT !.state = "start", !.index = 1, !.chunk = 1, !.expected = n, !.flags = @ \cup {0}] :
     n \in 1..MaxChunks}

(* checkForFirstChunkComplete: a message that is not longer, or has a wrong *)
(* checksum, is done with.  Before the end of the chunk one that is longer  *)
(* is not complete, unless the buffer holds more than a chunk.             *)
FirstChunkChecked(r) ==
  IF r.index < HeaderLength THEN {r}
  ELSE {Blank} \cup (IF r.index # ChunkLength THEN {r} ELSE {})
       \cup (IF r.index = ChunkLength \/ r.held > ChunkLength THEN Accepted(r) ELSE {})

InSequence(r) == r.state = "end"

(* checkForEndOfChunk, while the message is shorter than it should be ...  *)
ChunkChecked(r) ==
  IF r.index < ChunkLength THEN r
  ELSE [r EXCEPT !.flags = @ \cup {r.chunk}, !.index = 1,
                 !.chunk = IF InSequence(r) THEN @ + 1 ELSE @,
                 !.state = IF InSequence(r) THEN "start" ELSE "startOut"]

(* ... and when it is not: it is done with when all chunks have come.      *)
LastChunkChecked(r) ==
  LET flags == r.flags \cup {r.chunk}
  IN  IF 0..r.expected - 1 \subseteq flags THEN Blank
      ELSE [r EXCEPT !.flags = flags, !.state = "startOut", !.index = 1]

Checked(r) ==
  CASE r.state = "first" -> FirstChunkChecked(r)
    [] r.state \in {"end", "endOut"} -> {ChunkChecked(r), LastChunkChecked(r)}
    [] OTHER -> {r}

-----------------------------------------------------------------------------
(* pollReceivingMessage                                                    *)

(* loop() comes to device d.                                               *)
ComesTo(d, p) ==
  /\ polled = NoDevice /\ reader = NoDevice
  /\ phase = p /\ d \in due
  /\ due' = due \ {d}
  /\ UNCHANGED <<central, phase, nCentral>>

NextPhase ==
  /\ polled = NoDevice /\ reader = NoDevice /\ due = {}
  /\ phase' = IF phase = "receive" THEN "send" ELSE "receive"
  /\ due' = Dev
  /\ UNCHANGED <<sending, receiving, central, nCentral>>

BeginPoll(d) ==
  /\ ComesTo(d, "receive")
  /\ UNCHANGED receiving
  /\ \/ Sender!StartReceiving(d)
     \/ ~isConnected[d] /\ UNCHANGED sending

(* Nobody is asked for more of a message that has not begun.               *)
Holds(d, r) ==
  /\ receiver' = [receiver EXCEPT ![d] = r]
  /\ asked' = IF r = Blank THEN [asked EXCEPT ![d] = 0] ELSE asked

TakeByte(d, u) ==
  /\ reader = d /\ taken = NoByte
  /\ \E o \in Taken(receiver[d], u) :
       /\ Holds(d, o.next)
       /\ taken' = IF o.stored THEN u ELSE NoByte
  /\ UNCHANGED <<sending, loop>>

CheckByte(d) ==
  LET r == [receiver[d] EXCEPT !.index = @ + 1]
  IN  /\ reader = d /\ taken # NoByte
      /\ taken' = NoByte
      /\ IF r.state = "unformed" /\ ~IsText(taken)
           THEN /\ Holds(d, Blank)
                /\ \/ Sender!ResendRequested(d)
                   \/ Sender!ReceiveEnds(d)
           ELSE /\ \E next \in Checked(r) : Holds(d, next)
                /\ UNCHANGED sending
      /\ UNCHANGED loop

(* The end of a poll: something has come lately, ...                       *)
EndPoll(d) ==
  /\ taken = NoByte
  /\ UNCHANGED <<receiving, loop>>
  /\ Sender!StopReceiving(d)

(* ... or not, and the device is asked to send again what has not come, ... *)
Ask(d) ==
  /\ taken = NoByte
  /\ UNCHANGED <<receiver, taken, loop>>
  /\ asked' = IF receiver[d] = Blank THEN asked ELSE [asked EXCEPT ![d] = Sender!Counted(@)]
  /\ Sender!AskForResend(d)

(* ... or, when it was asked too often, the message is given up.  The line  *)
(* that logs it reads the id through messageBeingReceived (Receive.cpp:26), *)
(* which is NULL when nothing has come or the temporary buffer is in use.  *)
(* What else that does is up to the processor, and left out.               *)
Clear(d) ==
  /\ taken = NoByte
  /\ Holds(d, Blank)
  /\ Sender!GiveUpReceiving(d)
  /\ UNCHANGED <<taken, loop>>

-----------------------------------------------------------------------------
(* Sending, which shares the task with receiving, and the callbacks.       *)

(* The loop of pollSendingMessages ends at a count of connections that may  *)
(* be lower than there are: the devices from there on it does not come to. *)
Reached(d) == d < nCentral + 2

PollSend(d) ==
  /\ ComesTo(d, "send")
  /\ UNCHANGED receiving
  /\ \/ ~Reached(d) /\ UNCHANGED sending
     \/ /\ Reached(d)
        /\ \/ \E m \in Msg : Sender!Assign(d, m)
           \/ Sender!Polls(d)
           \/ Sender!Idle(d) /\ UNCHANGED sending

ByteAccepted(d) == UNCHANGED <<receiving, loop>> /\ Sender!Accepted(d)

PollEnds(d) ==
  /\ UNCHANGED <<receiving, loop>>
  /\ Sender!Refused(d) \/ Sender!LinkLost(d)

Sends(d) == PollSend(d) \/ ByteAccepted(d) \/ PollEnds(d)

Connect(d) ==
  /\ IF d \in central THEN Holds(d, Blank) ELSE UNCHANGED <<receiver, asked>>
  /\ Sender!Connect(d)
  /\ UNCHANGED <<taken, loop>>

Disconnect(d) ==
  /\ Holds(d, Blank)
  /\ Sender!Disconnect(d)
  /\ UNCHANGED <<taken, loop>>

(* A callback counts a connection, or takes one off, whether or not it was  *)
(* counted before (BleStarNode has which of them do).                      *)
Recount ==
  /\ nCentral' \in {nCentral - 1, nCentral + 1} \cap Counts
  /\ UNCHANGED <<sending, receiving, central, phase, due>>

Receives(d) ==
  \/ BeginPoll(d) \/ EndPoll(d)
  \/ (\E u \in Byte : TakeByte(d, u)) \/ CheckByte(d)
  \/ Ask(d) \/ Clear(d)

Task == NextPhase \/ \E d \in Dev : Receives(d) \/ Sends(d)

Next == Task \/ Recount \/ \E d \in Dev : Connect(d) \/ Disconnect(d)

Spec == Init /\ [][Next]_vars

(* The task of the application calls loop() again and again (weak           *)
(* fairness).  A device does not send without a pause, and in a pause its  *)
(* poll asks or gives up; and of the bytes a device is sent, the stack does *)
(* not refuse each: it empties its queue while the link is up (strong       *)
(* fairness).                                                              *)
Fairness ==
  /\ WF_vars(Task)
  /\ \A d \in Dev : SF_vars(Ask(d)) /\ SF_vars(Clear(d)) /\ SF_vars(ByteAccepted(d))

FairSpec == Spec /\ Fairness

-----------------------------------------------------------------------------
(* Properties                                                              *)

(* Every variable holds what its declaration says; no buffer is written    *)
(* beyond its size.                                                        *)
TypeOK ==
  /\ receiver \in [Dev -> Receiver]
  /\ \A d \in Dev : receiver[d].held <= BufferSize(receiver[d])
  /\ central \in SUBSET Dev /\ phase \in {"receive", "send"} /\ due \in SUBSET Dev
  /\ nCentral \in Counts
  /\ reader \in Dev \cup {NoDevice} /\ taken \in Byte \cup {NoByte}
  /\ asked \in [Dev -> 0..Sender!EndOfAttempts]
  /\ reader # NoDevice => polled = NoDevice

(* Why no message longer than a chunk is ever received: nothing but its     *)
(* first chunk is recognised.  It leaves the index within the chunk at 1,   *)
(* and the number of the next is looked for at 0: what comes then only      *)
(* fills the buffer (Receive.cpp:43-51, 133-139).                          *)
OnlyFirstChunks ==
  \A d \in Dev :
    /\ receiver[d].state \in {"new", "unformed", "first", "start"}
    /\ receiver[d].state = "start" => receiver[d].index > 0
    /\ receiver[d].flags \subseteq {0}

(* Receiving does to sending what LinkSend says: the flags that sending     *)
(* reads change for the first chunk only, and attempts and resend requests *)
(* only between two of its polls (Receive.cpp:133-139, BleDeviceTable.cpp:76-78). *)
SendingRefined == Sender!Spec

(* A message that was begun is sent to its last chunk, or dropped, however  *)
(* often the stack refuses a byte and whatever is received meanwhile       *)
(* (Send.cpp:72-102), unless the loop stops coming to its device           *)
(* (Send.cpp:23).                                                          *)
SendingCompletes == \A d \in Dev : Sender!Sending(d) ~> ~Sender!Sending(d) \/ ~Reached(d)

(* A message that was begun and is never completed does not keep its        *)
(* device from receiving others for ever: it is done with, given up, or the *)
(* link goes down (Receive.cpp:23-36).                                     *)
ReceiverFreed ==
  \A d \in Dev : isConnected[d] /\ receiver[d] # Blank ~> ~isConnected[d] \/ receiver[d] = Blank

(* Receive.cpp:25 says a message is given up when it has been asked for    *)
(* DEFAULT_MAX_HOP_ATTEMPTS times.                                         *)
GivenUpAfterAttempts ==
  [][\A d \in Dev : receiver[d] # Blank /\ Clear(d) => asked[d] >= MaxHopAttempts]_vars

(* Message.cpp:31-38 has every chunk but the first begin with its number,  *)
(* and README.md promises messages of over 3000 bytes: the number of the   *)
(* chunk that is awaited, when it comes first behind the first chunk,      *)
(* begins that chunk.                                                      *)
NextChunkRecognised ==
  [][\A d \in Dev, u \in Byte :
       /\ receiver[d].state = "start" /\ receiver[d].index = 1 /\ u = receiver[d].chunk
       /\ TakeByte(d, u)
       => receiver'[d].state = "end"]_vars
=============================================================================
