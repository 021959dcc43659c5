# Verification of BLE-Star-Network

BLE-Star-Network is a C++ library that turns Nordic nRF52 boards into the nodes
of a tree: every node may accept one parent (it is then a Bluetooth
*peripheral*) and open links to several children (as a Bluetooth *central*).
Messages are named by destination, an empty destination means "upstream", `*`
means "everybody", and nodes forward what is not for them.

This directory holds TLA+ models of the parts of one node, TLC configurations
that check them on small instances, and proofs, checked by TLAPS, that their
main properties hold for every value of the constants.

- [The system](#the-system)
- [The modules](#the-modules)
- [What is checked](#what-is-checked)
- [What is proved](#what-is-proved)
- [What the code does that its documents do not say](#what-the-code-does-that-its-documents-do-not-say)
- [Assumptions and what is left out](#assumptions-and-what-is-left-out)
- [Plan](#plan)

## The system

One `BleStar` object, a global, is the whole node. Two tasks run its code. The
Bluetooth stack runs the connect and disconnect callbacks, one at a time, in its
callback task. The application's task runs `send`, `subscribe`, `unsubscribe`
and `loop()`, which polls receiving, then routing, then sending. Nothing is locked. A
callback gives way to the application where it waits for the remote device.

| Component | State it keeps | Operations | Talks to | What makes it correct |
|---|---|---|---|---|
| Routing table (`RoutingTable.*`) | a fixed array of (name, bit per device), fill level, "changed" flag | look up or add a name, set a route, invalidate a device's routes, truncate, import/export as text | read by routing; kept pointers: `_thisDeviceName`, `peerName`, hops of messages | no route through a device that is gone; the way upstream is found; no change unnoticed |
| Devices and connections (`BleStar.cpp`, `BleDeviceTable.cpp`, `BleStarCentral.cpp`, `BleStarPeripheral.cpp`) | per slot the connection handle; per device `isConnected`, `peerName`, index, receive buffer; two counts | `begin`, connect and disconnect callbacks of both roles | routing table, message table; the counts bound the loops of sending and receiving | a disconnection finds the device it is about; devices in use are prepared and counted |
| Message table (`MessageTable.*`) | array of entries (type, device, hop, flags) over one buffer of compiled messages | get an entry, make room for routing, defragment, reserve for incoming, may a device send more | everything that touches a message | nothing is written beside the table; what a device sends stays the message it began |
| Message routing (`MessageRouting.cpp`) | `requiresRouting` of messages, hops | fan out one message to the devices its name is routed to | both tables | what a message takes in the table is what was kept free for it; pointers to entries stay within the messages in use |
| Sending (`Send.cpp`, `BleDeviceTable.cpp`) | per device: message, chunk, byte, attempts, timer; the flags of received chunks | choose a message, send chunks, wait for an answer, give up | message table, link | a chunk cut by a full buffer goes on at the same byte; a message begun is sent to its end |
| Receiving (`Receive.cpp`) | per device: state, buffer, chunk, message being received, flags of received chunks; attempts shared with sending | one byte at a time: short message or first chunk, then further ones | message table, system messages | no buffer is overrun; a broken message is asked for again, and in the end given up; sending goes on meanwhile |
| Short system messages (`SystemMessages.cpp`) | none | ACK, NACK, resend request, broadcast, subscription | sending and receiving states of the device | an answer takes effect on the message it answers |
| Compiled messages (`Message/`) and `MessageBuilder` | a bounded buffer with read and write index | header fields, append, read | everything above | names and payload are whole; what is read from the header is what was given |
| CRC (`Utility/CRC`) | two tables | table-driven CRC-8 and CRC-16 | messages | they are the remainders they claim to be |
| User-facing callbacks, scanning and advertising, logger | function pointers, listener lists | setters, calls to the stack | the application, the stack | a listener is called once per matching message |

What is hard to test here: two tasks share the tables; routes, counts, slots and
kept pointers must agree after any order of connections, refusals, failed
discoveries and disconnections; tables fill up and are truncated; names contain
one another and the lookup uses `strstr`; a poll may give up halfway; answers
are lost or late. `PROJECT.json` lists each hazard at its line, with the
properties that cover it, or the reason why none does.

Some of the code is not there or not reached. `routeMessage`,
`processRoutedMessage` and `getDestinationNodePattern` are declared and never
defined; `resetBleCentralConnectionTable`, `setRequiresRouting`, `importMessage`,
`processRoutedSystemMessage` and the callbacks that announce a received or a
transmitted message are never called, and the callback for received data is
never set, so that `loop()` alone receives. The models contain what runs.

## The modules

### `RoutingTable`

The class as operators on a record: the array's names and routes, the fill level
`size` and the flag `changed`. `timesUsed` is only tested for the -1 that
invalidation has just written, so it is replaced by that set of entries. Names
are model values or short strings, and `Infix` says which contain which.

| TLA+ | Code |
|---|---|
| `FindName`, `NameIndex`, `AfterNameLookup` | `getIndexFromName`: first entry that *contains* the name, else add; then set the route |
| `AfterForeignPointerLookup` | `getIndexFromNamePointer` with a pointer that is not into the table |
| `Add`, `IsFull` | `addDestinationNameToRoutingTable` |
| `SetRoute`, `RoutedEntries` | `setRouteForDestination`, which also sets entry 1 (`*`) and, for the parent, entry 0 (`""`), by position |
| `InvalidateDevice`, `WithoutDevice`, `Unreachable` | `invalidatePeerBleDeviceRoutes` and `optimizeRoutingTable`: as many entries as have lost their routes are cut off the end |
| `TakeChanged` | `getRoutingTableHasBeenChanged` |

### `BleStarNode`

The node: `rt` is the routing table; `handle`, `connected`, `peer` the slots and
devices; `nCentral`, `nConn` the counts; `waiting` says that a connect callback
is in `enableTXD()`; `live` and `parent` are the stack's view of the links. Each
callback is an action, except `connectAsCentralCallback`, whose outcomes
are `RejectAsCentral` (no slot), `FailToDiscover` (UART service not found) and
`ConnectAsCentral` followed by `CountConnection`, with the application running in
between. `Send`, `Subscribe`, `Unsubscribe`, `PollUnrouted` and `PollRouting` are
what the application's calls and `loop()` do to the routing table. `LinkUp` and
`LinkDown` are the Bluetooth stack. A slot's handle starts at 0 because the
object is a global and nothing stores the invalid handle first; 0 is also a
handle the stack issues.

### `LinkTable`

What the slots promise: a slot serves one link from the moment it is given to it
until that link goes down. `BleStarNode` implements it (`LinksRefined`) with
`link[s]` the handle of slot `s` while device `s + 2` is connected, and no link
otherwise.

### `CommonDefinitions`

The numbering of devices (0 this node, 1 the parent, from 2 on the children),
`NoIndex` and `First`, the linear search of the code.

### `MessageTable`

The class as operators on a record of the array and its fill level. One entry is
a message on its way to one hop. Its bytes are reached through `builder`, told by
the number of the entry it belongs to at first: `Message::copy` gives a copy the
builder of what it is a copy of, and `reset` leaves it in an entry that is used
again, so that two messages may come to share one. The value has the two places
behind the array, `Memory`, because the code writes there without a test: rows of
entries are written without gaps, so a write further out shows in the second.

| TLA+ | Code |
|---|---|
| `HasRoom`, `AddNew`, `Put` | `getNewMessageTableEntry` with `addNewMessageToSend` and `compileMessage` |
| `Reserve` | `reserveSpaceForIncomingMessage` |
| `CanAcceptMore`, `NextForHop` | `canAcceptMoreMessagesFromThisDevice`, `findNextAvailableMessageForHop` |
| `Retire` | `setMessageType(MESSAGE_TYPE_NONE)` through the pointer a device keeps |
| `MakeSpace`, `Clone`, `SetHops` | `makeSpaceForRouting`, `cloneMessage`, `setHopsInMessage` |

### `MessageRouting`

The message table and all that touches it. `mChanged`, `rChanged` and `gChanged`
are the three "changed" flags `pollRoutingMessages` tests, with the shortcut of
its `||`: a flag is cleared only if it is read. `cursor` is the entry it is at;
`linked`, `peer`, `sending` and `receiving` are the devices, whose pointers to
entries are indices.

`pollRoutingMessages` is one step per entry (`StartRouting`, `SkipEntry`,
`Route`), because a callback may add, receive or retire messages in between.
The application's calls (`Send`, `AnnounceSubscription`), sending (`BeginSend`,
`EndSend`) and receiving (`BeginReceive`, `EndReceive`) run in the task that
routes and have to wait for the end of the loop; only `ConnectChild`,
`ConnectParent` and `Disconnect` come in between.

What the routing table answers is not computed here. `RouteEntry` takes any count
that `CountNeverOver` of `BleStarNode` allows, and for a name that is found any set
of devices that `LookupsAreLive` allows, both of them theorems. A destination is
looked up by its address and not found, so it is added to the routing table as a
name without routes as long as there is room: the first disjunct of `Route`. Only
when there is none is it looked up by name, and a name that is not found either
gives the index -1: the routes are then read in front of the array, and may be any.

The loop that copies a message begins one device behind the last
(`MessageRouting.cpp:192`), `DeviceBehind`. Its byte behind `routeExists` and its
name behind `bleDeviceTable` are set by no code, so that it may have a route
whatever the table says: one copy more than was counted.

### `ChunkSender` and `LinkSend`

`ChunkSender` is what sending keeps to for a device: chunks come in turn, the whole
message comes again only after its last chunk, every chunk from the third on is
sent whole, and a chunk may be passed over only if it is the first, or the
beginning of the second behind it. It is less than `Message.cpp:26-59` says: there
no chunk is left out, and only those asked for come again. `LinkSend` is
`pollSendingMessage` byte by byte. `polled` is the device whose poll of sending is
running, `reader` the one whose poll of receiving is; they never run together.

| Action | Code |
|---|---|
| `Assign` | `pollSendingMessages` finds a message for an idle device and prepares it |
| `Continue`, `AnswerResend`, `TimeOut`, `GiveUp`, `Wait` | the head of `pollSendingMessage`, one action per way through it |
| `WriteByte`, `FinishChunk`, `SkipChunk`, `Refused`, `LinkLost` | one turn of its loop: the stack takes a byte, takes the last one of a chunk, a chunk is passed over, the stack refuses a byte, or the link is down |
| `StartReceiving`, `StopReceiving` | a poll of receiving begins, which it does only while the link is up (`Receive.cpp:14`), and ends |
| `ResendRequested`, `FirstChunkReceived`, `ReceiveEnds` | what receiving does to the state of sending in such a poll: a resend request has come; flags of received chunks change |
| `AskForResend`, `GiveUpReceiving` | such a poll ends with asking for chunks again, or with giving up on what was received |
| `Connect`, `Disconnect` | the callbacks, with `resetSendMessage`; a disconnection may come between two bytes of a poll |

Which chunks are to be sent is read from `received`, the flags of the chunks that
came *from* the device (`BleDeviceTable.cpp:77`): while a longer message is being
received from a device, chunk 0 of ours to it is passed over, and if some of it was
sent by then, as many bytes of chunk 1 with it.

Clones of a message share one builder and so its read index: `readIndex` belongs
to the message and not to the device. A byte is told by its index in the builder,
`Terminator` is the `'\0'` that `MessageBuilder::read` gives at the end of its
buffer. `written` and `sent` are history variables: the bytes of the last chunk
begun, as the stack has accepted them, and the chunks sent whole since chunk 0.

### `Link`

Both directions of the links: `LinkSend`, as the instance `Sender`, and receiving
byte by byte. `receiver[d]` is the receiving half of a `BleDeviceTable`, a record
of the state, the index within the chunk, the bytes held and in which buffer, the
chunk and the chunks expected, and the flags, which `Sender` sees as `received`.
`phase` and `due` are where `loop()` is. `nCentral` is the count of connections, at
which its sending half ends: the devices from `nCentral + 2` on it does not come to
(`Reached`). `BleStarNode` has why the count falls below what is connected; here it
moves freely (`Recount`).

| TLA+ | Code |
|---|---|
| `BeginPoll`, `EndPoll` | `pollReceivingMessages` comes to a device, and is done with it |
| `TakeByte` (`Taken`, `Classified`, `ChunkBegun`, `Stored`, `Overflown`) | `parseAndReorderReceivedData` up to storing the byte, with the move from the temporary buffer to an entry |
| `CheckByte` (`Checked`, `FirstChunkChecked`, `ChunkChecked`, `LastChunkChecked`) | the rest of it: `checkForDelimiterOnUnformedMessage`, `checkForFirstChunkComplete`, `checkForEndOfChunk` |
| `Ask`, `Clear` | nothing has come for a while: the device is asked for chunks, or the message is given up |
| `PollSend`, `ByteAccepted`, `PollEnds` | `pollSendingMessages`, as in `LinkSend`, when `loop()` comes to it |
| `Connect`, `Disconnect`, `Recount` | the callbacks on both halves and on the count |

`TakeByte` and `CheckByte` are two steps because a disconnect callback between
them resets the receiver under the byte. The header of a message is read through
`messageBeingReceived`, which is NULL while the temporary buffer is in use: what
it says is nondeterministic, and so is what the text of an answer says. The
line that logs what is given up reads the id through the same pointer
(`Receive.cpp:26`), NULL or not; `Clear` leaves that out.

### `MessageBuilder`, `CompiledMessage`, `Crc`

`MessageBuilder` has the ways of appending to a bounded buffer as operators on a
record of the buffer, its capacity, write index and length; the buffer has the
one place behind the capacity that terminators reach. `CompiledMessage` is
`compileMessage` in five steps (`AppendHeader`, `AppendNames`, `AppendPayload`,
`StoreLength`, `StoreChecksums`) after `Begin` has reserved the space, which still
holds old bytes, and `Arrive`, the message at the next node with up to two bits
altered; `Altered` is what its bytes are then. The order of the steps is what the property about checksums is about.
`Crc` has both tables and both checksums as the code computes them, and, as the
reference, the remainder of a division bit by bit. There a byte or a word is the
set of the places of its bits that are set, so that `^` is the symmetric
difference of sets; `Bits` and `Number` of `CompiledMessage` are the two ways
between such a set and the number stored in a byte.

### `MCBleStarNode`, `MCLinkSend`, `MCLink`, `MCCompiledMessage`

The names used in the runs, two of which contain one another; the lengths of
messages and of their buffers; the bytes that come, one of each kind the code
tells apart; the texts of compiled messages.

### The proofs

`CommonDefinitions_proofs` and `RoutingTable_proofs` hold lemmas about operators.
`BleStarNode_proofs` is about slots, counts, types and routes,
`MessageRouting_proofs` about the message table, `LinkSend_proofs` about sending,
`Link_proofs` about receiving and the two together, `Crc_proofs` about the two
checksums as functions of bytes, and `CompiledMessage_proofs` about the bytes of a
message, the checksums in it and the errors they find.

## What is checked

| Run | Question | Bounds and why they are enough |
|---|---|---|
| `connections` | Do slots, devices and counts agree after any history of links? `SlotServesItsLink`, `CountNeverOver`, `DevicesArePrepared`, `LinksRefined` | 3 slots of which `begin` asks for 2, 3 handles, one of them 0. A slot is opened by a refused link 0 going down, so two slots and three handles give every mix of opened, unopened, held and free. The count may drift to -3 (`MaxDeficit`), below every value that guards a loop. |
| `routes` | Do routes stay true to the links? `TypeOK`, `RoutesAreLive`, `LookupsAreLive`, `UpstreamFoundByName`, `RouteChangeFlagged` | A table of 5 (4 usable, 3 taken by `begin`), two devices with names one inside the other, one subscription: the table fills, is truncated below the entries of `begin` and refills. One child and the parent are the two kinds of device the table knows. |
| `routing` | How far does routing write, though it takes more entries than it asked for and copies for a device there is not, and do pointers stay within the messages in use? `TypeOK`, `AtMostOneBehind` | Parent and two children, messages for all and for a subscription, the smallest table that accepts a message at all (5): here every entry kept back is needed, and the entry behind the array is written. Two devices are busy at once (`MaxBusy`): one whose entry moves and one that adds. |
| `link_send` | Are the bytes of a chunk sent once and in order, do chunks come in turn? `TypeOK`, `ChunkExact`, `SendsInOrder` | Two devices that share the builder of one message of three chunks: one that may be passed over, one that may be entered in the middle, and one that may not. It fills its buffer, so that reading runs into its end. `ChunkLength` is 3 (20 in the code): a first, a middle and a last byte. `MaxHopAttempts` is 1 (5 in the code): an attempt within the limit, one at it and one beyond. |
| `link` | Does receiving keep to its buffers and states whatever comes and whenever the link goes down, does it disturb sending, and can either be stuck? `TypeOK`, `SendingRefined`, `SendingCompletes`, `ReceiverFreed` | One device, the parent: two share only the task, and `link_send` has two. Three bytes, one of each kind: a control byte, which is also the number of a chunk, the hash, a letter. `ChunkLength` is 3, the header 2 bytes (8 in the code), an entry 5 (250 in the code): a message can be longer than the temporary buffer of 4, and overrun the entry. Headers tell of up to two chunks. `MaxHopAttempts` is 0, so that attempts run out at once; the proofs have every value. The count of connections is 0 or -1: with the one the loop comes to the parent, with the other it does not. |
| `compiled_message` | Does compiling keep every field whole, is the header read as it was written, are the checksums what they are said to be and do they find errors? `FieldsWhole`, `HeaderRead`, `ChecksumsAreDivision`, `ErrorsFound` | Names of 0 to 2 bytes with a limit of 2 (20 in the code): shorter, at the limit and both at the limit. A payload with a zero and with 255. The memory held bytes before of which none is a terminator. Every pair of bits in five bytes: the two of the stored CRC16, the low one of the length, the first of the origin's name, and one six places on, beyond the first chunk. |
| `own_name_lost`, `send_pointer`, `bytes_lost`, `longer_message`, `gave_up_early`, `message_refused` | The findings below | The smallest instance that shows each. |

Bounds that are not in the code are these. `MaxDeficit`: how far the count of
central connections may drift below zero. `MaxBusy`: how many devices send or
receive at a time. `Steady`: lookups give every route there can be, as they do
when the routing table is full and holds the names; it keeps counterexamples
free of routes that come and go, and no passing run uses it. `EndOfAttempts`:
attempts beyond the limit are not told apart. The proofs hold whatever their
values. In `Link`, `Byte` and `MaxChunks` bound what comes and `Counts` the count, and a device does not
come back in the middle of its own poll; in `CompiledMessage`, the texts, the ids,
the places of altered bits (`Fragile`) and the values of a checksum over memory
that is not the message's (`Foreign`) are bounds.

Safety properties hold under any scheduling of the two tasks and their
specifications are not fair. Progress is what `SendingCompletes` and `ReceiverFreed`
are about, in `Link`, which has `loop()` itself. Its `FairSpec` needs only that the
application's task goes on (`Task`, weak), that the stack does not refuse every byte
it is ever offered for a device, as its queue empties while the link is up
(`ByteAccepted`, strong), and that a device does not send without any pause
(`Ask` and `Clear`, strong: where they are possible again and again, one poll
finds the device silent). That `loop()` comes to a device is no assumption:
receiving comes to all of them, sending to those the count leaves it, and
`SendingCompletes` promises nothing to the others. Nothing is assumed of the remote
device otherwise, of timeouts, of the count or of callbacks. The properties are not
vacuous: endless runs of resend requests, of refused bytes and of connections are
allowed.

A message is compiled and arrives, and `compiled_message` and `message_refused`
then end; the other systems never stop, and their runs check for deadlock.

## What is proved

For every set of names and every relation of containment between them, every
capacity, every number of slots and every argument of `begin`:

| Theorem | Says | Along which argument |
|---|---|---|
| `TypeCorrect` | `Spec => []TypeOK` | `TypeOK` is inductive. Its hard part is the fill level: truncation takes off no more entries than the table has. |
| `SlotsInvariant` | `Spec => []SlotsInv` | see below |
| `SlotServesItsLinkHolds`, `DevicesArePreparedHolds` | the two invariants of the slots | consequences of `SlotsInv` |
| `CountNeverOverHolds` | `nCentral` never exceeds the devices connected | from `CountInv`, which counts the device of a waiting callback |
| `LinksImplemented` | `Spec => LinksRefined` | the initial states map to initial ones, and each step to a step or a stutter of `LinkTable`, using `SlotsInv` |
| `RoutesAreLiveHolds` | no route outlives its device | inductive together with `TypeOK` and `SlotsInv`, which says that the device invalidated is the one marked disconnected |
| `LookupsAreLiveHolds` | a lookup answers connected devices, or for `""` a parent that left | from `RoutesAreLive`: only entry 0 keeps the route to a parent that left, `ParentUnrouted` (inductive with `TypeOK`) says that entry is `""`, and `""` contains no other name |
| `UpstreamFoundByNameHolds` | the lookup of `""` by name finds a way up; routing comes to it only when the table is full | `ParentRouted`: entry 0 is routed through the parent while it is connected, so it is never cut off; and `""` matches every name |
| `RouteChangeFlaggedHolds` | no change of routes goes unflagged | a lookup that finds the name sets routes of entries 0 and 1 too; they were set already unless the device was new, which `RoutesAreLive`, `ParentUnrouted` and `ParentLink` show |

For every size of the message table, every number of devices and every set of
names and destinations:

| Theorem | Says | Along which argument |
|---|---|---|
| `TypeCorrect` | `Spec => []TypeOK` | inductive; the pointers of devices and the cursor stay at entries in use, because the fill level never falls |
| `AtMostOneBehindHolds` | routing writes at most one entry behind the array | `RoomKeptBack`, proved with it: while there are messages, an entry for each device is free, as the test for a new message keeps it back (`HasRoom`); routing adds no message and copies to each device and to `DeviceBehind` at most. A message for all asks for one entry only and the count of connections in the test may be too low, so the test of routing itself is not what bounds it. |

For every number of devices, every sharing of builders, every length of a
message, a buffer and a chunk, and every limit of attempts:

| Theorem | Says | Along which argument |
|---|---|---|
| `TypeCorrect` | `Spec => []TypeOK`, by which a device that has a message is connected, and is sending it or has sent it all | inductive |
| `ChunkExactHolds` | the bytes of a chunk are written at most once each and in order, and all of them unless the chunk was entered in the middle | `InPlace`: the read index of the builder the running poll uses is where the chunk goes on, or both are behind the last byte that can be read, where every read gives the terminator. It speaks of the running poll only: between polls the other device that shares the builder moves the index. |
| `SendsInOrderHolds` | `Spec => SendsInOrder`, sending implements `ChunkSender` | initial states map to initial ones and each step to a step or a stutter; `TypeOK` gives that a running poll is within the message and that only chunk 0 is ever flagged, and `Whole` that a chunk is entered in the middle only behind a chunk 0 that was passed over |

For every set of devices, every length of a chunk, a header and a buffer, every
limit of attempts and any bytes that come:

| Theorem | Says | Along which argument |
|---|---|---|
| `TypeCorrect` | `Spec => []TypeOK`: no buffer a message is received in is written beyond its size | `IInv`: every receiver is in its first chunk (`InFirstChunk`), which taking and checking a byte preserve (`TakenFirst`, `CheckedFirst`), also after a reset in between |
| `NoOtherChunk` | `Spec => []OnlyFirstChunks`: no chunk but the first is ever recognised, which is the extent of the finding `longer_message` | a consequence of `IInv` |
| `SendingImplemented` | `Spec => SendingRefined`: receiving and sending together implement `LinkSend` | each step maps to a step or a stutter. By `IInv` the flags that sending sees change only to none or to the first chunk's, and only while no poll of sending runs. |
| `ChunksExactMeanwhile`, `InOrderMeanwhile` | `Spec => []Sender!ChunkExact` and `Spec => Sender!SendsInOrder`: the theorems about sending, of a node that receives meanwhile | `SendingImplemented` and the theorems of `LinkSend_proofs`, taken as an instance under the same substitution (`SenderProofs`); `SameStep` says that both instances have the same steps. Their assumption on messages and buffers is `SendAssumption` of `Link`. |

For every name length, names within it, payloads and ids, every length of a chunk
from the first eight bytes to a header with its names, and whatever byte the buffer
held before:

| Theorem | Says | Along which argument |
|---|---|---|
| `MessageInvariant` | `Spec => []MessageInv` | see below |
| `FieldsTheorem` | `Spec => []FieldsWhole` | a consequence of the invariant |
| `HeaderTheorem` | `Spec => []HeaderRead` | a consequence of the invariant: a message is shorter than the bit of the flag, so the flag is told from the length. Of a system message's length nothing is claimed (see below). |
| `ChecksumsTheorem` | `Spec => []ChecksumsAreDivision` | a part of the invariant, which rests on `Crc8IsRemainder` and `Crc16IsRemainder` |
| `ChangedByteFound` | changing any bits of one byte changes both checksums, in messages of any length | division by each polynomial can be undone: a register and a byte that differ in one of them give registers that differ, and equal bytes after that keep them apart |
| `ChangedPairFound` | changing any bits of two adjacent bytes, and so any burst of up to nine bits, changes the CRC-16, in messages of any length | `TwoBytesTold`: the high bytes of the entries of `crc16Table` all differ (`Crc16TableHigh`), so that the register after two bytes tells both of them |
| `TwoBitsFound` | altering one or two bits changes the CRC-8 if they are at most 30 bytes apart, and the CRC-16 if they are at most 4094 bytes apart | see below |
| `ErrorsTheorem` | `LengthsCovered => (Spec => []ErrorsFound)`: up to two bits altered on the way, wherever they are, change what the receiver calculates | from `TwoBitsFound`: the bits altered in the message are bits altered in the bytes each checksum is over (`PartTouched`, `PartAltered`), and by `MessageInv` the length says where those end. `LengthsCovered` is that a chunk is of at most 33 bytes (`MAX_BLE_CHUNK_LENGTH` is 20) and a message of at most 4103 (`MAX_COMPILED_MESSAGE_LENGTH` is 4000): beyond the order of the polynomials two bits cancel, and the theorem would be false. |

`MessageInv` has one conjunct for what is written and how far (`Begun`, `Places`),
one for the bytes themselves (`Contents`), and `ChecksumsAreDivision`. `Places` gives
the write index at each step of `compileMessage` as a sum of the lengths appended
so far, from which each append has room; the lemmas `AppendTextAppends` and
`AppendBytesAppends` say what an append with room writes, and that it leaves all
before it and all behind its terminator alone, for texts of any length. A terminator
is written behind every character and the next append writes over it: this is how
the last one can fall behind the space reserved (`MessageTable.cpp:28`), and
nothing further can.

That a checksum is a remainder is an induction over the message whose step is one
round of the loop (`Lockstep`: two computations whose steps agree have the same
result), and that a round is eight steps of the division is another over the bits
of a byte. For CRC-8 the byte is added to the register before the table is asked,
for CRC-16 only the low half of the register meets the table; `Crc8TableIsDivision` and
`Crc16NextIsDivision` show that the table of the sum does what the division does
with the bits one by one. The induction is over the subsets of an interval, which
`FiniteSetTheorems` gives as a well-founded order; the theorems of induction that
take an operator are not used.

Two altered bits are found because the division is linear. The difference of the
registers, with and without the errors, is itself a register that starts at 0, is
set to one bit by the first error and is then divided on; the second error goes
unnoticed only if that difference has by then become a single bit again, which is
to say that it comes back to where it was. How soon it does so is the order of the
polynomial. CRC-16's is `x + 1` times `x^15 + x + 1`: of the traces of a bit
(`Traces16`), what differs between one and the next at the lowest place (`Turns16`)
obeys a recurrence of three terms, of which the distances may be doubled again and
again (`RecursTwice`), and so repeats after 32767 = 7 · 31 · 151 steps. A shorter
period would divide that number (`LeastPeriod`), and so one of its three greatest
proper divisors (`Divisors16`), and none of these is a period. For CRC-8 it is
255 = 3 · 5 · 17 in the same way. 4094 bytes
are fewer than 32767 bits, and 30 bytes fewer than 255.

`SlotsInv` is where the difficulty of the connections lies. The handles start at 0, a slot is
taken only if it holds the invalid handle, and the only thing that stores it is
a disconnection. So slots are *opened* in order, by disconnections of refused
links with handle 0: that a link 0 was refused means that every opened
slot was in use at that moment, which with the stack's limit keeps the number of
opened slots within what `begin` asked for. The invariant says that some `k` slots
are opened, that each opened slot is free or holds a live link of its own, and
that if link 0 is up and no opened slot holds it, `k` is still below the limit.

The proofs assume the ASSUMEs of the modules. Routing table: the three special
names differ, every name contains itself and the empty name, handles are below
the invalid one, the stack keeps to the limit it was given, and remote devices
are not named `""` or `*`. Message table: the addresses of peers' names are not
that of this node's name, and a subscription is neither `*` nor `""`. Sending:
messages are not empty and fit their buffers, and a chunk has room for a byte.
Receiving: a header fits a chunk, and an entry is longer than the temporary buffer.
Compiled messages: names are within their limit, ids are of two bytes, and a message
with its header is shorter than 2^15 bytes, which is the bit of the flag
(`MAX_COMPILED_MESSAGE_LENGTH` is 4000). Only `ErrorsTheorem` has a hypothesis of its
own, `LengthsCovered`.

Every safety property of the passing runs is a theorem. Liveness stays with TLC,
because the provers have neither fairness nor ENABLED: `SendingCompletes` and
`ReceiverFreed`. The findings are counterexamples of TLC
and are not theorems.

## What the code does that its documents do not say

1. `own_name_lost`: `Message.cpp:19` says the originating name is always this
   node's; it is read through a pointer into entry 2 of the routing table, which
   truncation may drop and the next new name may overwrite.
2. `send_pointer`: `BleStar.h:80` says that `messageBeingSent` is the message "in
   process of being sent". Entries are copied over one another with no regard to
   pointers to them (`MessageTable.cpp:103`): a device that is being sent one
   message then points to a copy of another, and retires that one unsent.
3. `bytes_lost`: `Message.cpp:34` lays out a message over its chunks with every
   byte in one of them. Chunk 0 carries 19 bytes and chunk 1 starts at byte 20
   (`Send.cpp:81`, `Send.cpp:114`); and the number of chunks is rounded down
   (`Send.cpp:111`). In the run both chunks of a message are sent whole, and byte 2 is
   in neither.
4. `message_refused`: `Message.cpp:13` says that the CRC8 "checks that the first
   chunk gets through ok". It is computed before the CRC16 is stored in the bytes
   it covers (`Message.cpp:113`), and the CRC16 is stored with its low byte first
   and read with its high byte first (`Message.cpp:234`): a message that arrives
   as it was compiled is refused.
5. `gave_up_early`: the log of `Receive.cpp:25` says that a message was not received
   "after %d attempts". The attempts compared are those of the device, which
   sending counts too, which a poll with no message counts (`Receive.cpp:33`), and
   which a new message does not set back.
6. `longer_message`: `Message.cpp:31-38` has each further chunk begin with its
   number, and the repository's `README.md` promises messages of over 3000 bytes. The
   first chunk leaves the index within the chunk at 1 (`Receive.cpp:137`), and a
   number is looked for where that index is 0 (`Receive.cpp:43`): it is stored like
   any other byte. `NoOtherChunk` proves that no chunk but the first is ever
   recognised, so that `checkForEndOfChunk` is never reached.

Other disagreements met while modelling, of which there is no run:

- `BleStarCentral.cpp:82` logs a refused link as "Exceeded the maximum number of
  active connections"; the first links are refused with none active, because a slot
  is looked for by the invalid handle, the handles start at 0, and
  `resetBleCentralConnectionTable` (`BleStarCentral.cpp:27`) is never called.
- `MessageRouting.cpp:58-60` says that `""` means upstream. It is looked up by its
  address (`MessageRouting.cpp:155`), which adds another `""` without routes each
  time; the entry that has the route is found only when the routing table is full.
- `MessageRouting.cpp:65-66` says that a message is fanned out only where there is
  space for it. The loop that copies it begins one device behind the last
  (`MessageRouting.cpp:192`), and a copy for that one may be written behind the
  array: `AtMostOneBehind` says no more than one is.
- `MessageRouting.cpp:100-107` has a message marked as routed when it has been. For a
  message to one device the loop returns first (`MessageRouting.cpp:204`): it is
  routed again with every poll, and those behind it never.
- `MessageTable.h:61` has a place in the buffer for each message that is being
  received. What it is received into is the builder that its entry was left with
  (`Message.h:79`, `Message.cpp:121`), which may be that of another message: one
  device reserves entry 1, routing copies it to entry 2, and the next reserves that.
- `MessageTable.h:114` has entries that are no longer needed removed;
  `defragmentMessageTable` removes another type. No entry ever is, and once a message
  was routed `send` accepts no further one (`MessageTable.cpp:165`).
- `BleStar.h:82` has one set of flags for the chunks received and another for those
  sent; what is to be sent is read from the former (`BleDeviceTable.cpp:77`), so that
  chunk 0 is passed over while a longer message comes from the same device.
- `Message.cpp:46-57` has the chunks sent again that are missing. A resend request
  sends all of them (`Send.cpp:54-57`).
- `Message.cpp:17` has the length of a message in bytes 4 and 5, and
  `setStoredMessageLength` keeps it apart from the flag of a system message that
  shares them (`Message.cpp:194`); `getStoredMessageLength` reads both, 0x8000 too many.
- `BleStar.h:71` says devices in use have an index up to
  `_numberOfBleCentralConnections + 2`; the count is decremented for links that
  were never counted (`BleStarCentral.cpp:124`), so a connected device can lie
  beyond it, and the loop that sends (`Send.cpp:23`) does not come to it; `Link` has
  that.
- `MessageTable.h:67` says that messages and their bytes "should remain in the same
  order"; routing an entry again to two or more devices leaves one of the entries
  it moves in its old place as well (`MessageTable.cpp:99`).
- `MessageTable.h:108` says that a message of this device "stays here until
  ACK/NACK received"; making room moves entries up and leaves the fill level alone
  (`MessageTable.cpp:98`), so the last message is dropped before it was sent.
- `MessageTable.h:62` says that a message is routed once it has been completely
  received. The entry reserved for it keeps the flag `requiresRouting` of what an
  entry moved there before had left (`Message.h:79` sets the type only), so it may be
  routed while it is still being received.
- `Message.cpp:21` allows a destination of 40 bytes; the space reserved is for 20,
  and what does not fit is cut from the payload without notice.

`ChunkExact` and finding 3 do not contradict one another. The first says that
sending writes what `getMessageBuilderIndexForChunkNumber` and `read` define as the chunk,
whatever interrupts it; the second that these chunks do not make up the message.

## Assumptions and what is left out

The node, its routes and links:

- `begin` runs once, before any callback. The node has at most one parent.
- Names have no length here: a name longer than an entry is not modelled.
- A full table makes `setRouteForDestination` increment a counter in front of
  the array before it tests the index; the model starts at the test.
- Callbacks and application calls are atomic except at `enableTXD()`. The
  preemption of a table operation halfway is left out (the last row of the plan).

The message table:

- Routing one entry is atomic; callbacks come between entries.
- The address of a peer's name is that of an entry of the routing table. It is
  assumed not to be this node's entry, though `own_name_lost` shows the entry can
  be reused. What is read as a name behind `bleDeviceTable` is the name of no device.
- Each entry is taken to have a builder of its own at first, which no code allocates.
- Whether the compiled message finds room in the buffer is open: an addition may
  fail at any time. Where in the buffer it begins is computed from an old entry
  (`MessageTable.cpp:65`), and left out: `builder` is no address.
- `MESSAGE_TYPE_SUCCESS` and `MESSAGE_TYPE_INCOMING` are assigned by no code that
  runs, so `defragmentMessageTable` finds nothing to remove and is left out.
- `importMessage` is never called, so subscriptions of others do not get into the
  routing table; a destination with a slash is routed to a device only where its
  name contains it.
- An ACK with
  no message being received, and the eighth byte of a compiled message,
  dereference NULL and are left out.

The links:

- After a disconnection in the middle of a poll of sending, `sendBuffer` is NULL, and
  the code still reads through it (`Send.cpp:78`, `81`); `LinkLost` ends the poll.
  Giving up on receiving reads the id through `messageBeingReceived`
  (`Receive.cpp:26`), NULL while the temporary buffer is in use; `Clear` goes on.
- `Link` and `LinkSend` take any message for an idle device where `MessageRouting`
  chooses one; they are not composed with it, and a message assigned stays what
  it is (`send_pointer` shows that it may not). Nor do they model that an entry is
  left to receive into: it may fail at any time.
- Timeouts come at any time: the table of delays is read beyond its end.
- An ACK and a NACK change nothing in sending. Both use a pointer that is NULL
  when no message is received or sent, which is left out.
- The bytes of answers are not modelled, nor that `sendRawToBleDevice` waits while
  the stack refuses a byte. Looking at a byte is one step, with the answer.
- A device does not come back in the middle of a poll of its own.
- The entry a message is received in has a builder of `DEFAULT_EXPECTED_MESSAGE_LENGTH`.
  In the code the builder of a message is a pointer no code sets.
- `DEFAULT_EXPECTED_MESSAGE_LENGTH` is more than a byte longer than the temporary buffer.

Compiled messages:

- The builder of a message is taken as allocated. Names are within their limit.
- Characters are bytes, and the buffer's stale bytes are all the same.

Not modelled:

- Import and export of routes as text: reached only from a function that is never
  called, or sent in a message nobody reads.
- `sendRawToBleDevice` for the application, `setLength`, `importMessage`,
  `setMessageId`, `invalidateMessage`, `sendResendRequest`: not called, or no state
  of their own.
- The listeners and the setters of callbacks (`UserFacingCallbacks.cpp`), scanning
  and advertising, logging, and the costing file (a comment): nothing of what the
  network promises rests on their state.

## Plan

| Order | Modules | What for | Theorems |
|---|---|---|---|
| 1 (done) | `RoutingTable`, `BleStarNode`, `LinkTable` | routes, devices and links of one node | proved, see above |
| 2 (done) | `MessageTable`, `MessageRouting` | entries over the buffer, room for routing, who may send, fan-out | proved, see above |
| 3 (done) | `ChunkSender`, `LinkSend`, `Link` | chunks, answers, retries, what both directions share | proved, see above |
| 4 (done) | `MessageBuilder`, `CompiledMessage`, `Crc` | the bytes of a message, checksums against a reference | proved, see above |
| 5 (not done) | `RoutingTask` | one table operation in steps, preempted by a callback | what survives preemption |
