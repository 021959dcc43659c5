--------------------------- MODULE MessageRouting ---------------------------
(***************************************************************************)
(* The message table of a node and what changes it: the application and    *)
(* the callbacks that add messages (Send.cpp, SystemMessages.cpp,          *)
(* Receive.cpp), pollRoutingMessages (MessageRouting.cpp), and the devices *)
(* that send and receive through pointers to entries (BleDeviceTable.cpp). *)
(*                                                                         *)
(* Of the routing table and of the connections this module sees what they  *)
(* answer: a lookup that finds the name gives any set of devices that      *)
(* BleStarNode's theorem LookupsAreLive allows, one that does not reads in *)
(* front of the array, and the number of connections is any that           *)
(* CountNeverOver allows.                                                  *)
(*                                                                         *)
(* pollRoutingMessages is one step per entry it visits: callbacks run in   *)
(* their own task, and may come between two of them.                       *)
(***************************************************************************)
EXTENDS MessageTable

CONSTANTS
  MaxBusy,        \* bound on the devices sending or receiving
  Steady          \* bound: whether lookups give every route there can be

ASSUME SteadyAssumption == Steady \in BOOLEAN

VARIABLES
  mTable,      \* mTable
  mChanged,    \* _messageTableHasBeenChanged
  rChanged,    \* _routingTableHasBeenChanged
  gChanged,    \* Message::_messagesHaveBeenChanged
  cursor,      \* the entry pollRoutingMessages is at, or NoIndex
  linked,      \* bleDeviceTable[d].isConnected
  peer,        \* bleDeviceTable[d].peerName
  sending,     \* bleDeviceTable[d].messageBeingSent, as an index
  receiving    \* bleDeviceTable[d].messageBeingReceived, as an index

flags   == <<mChanged, rChanged, gChanged>>
devices == <<linked, peer, sending, receiving>>
vars    == <<mTable, flags, cursor, devices>>

Remote == Device \ {ThisDevice}

TypeOK ==
  /\ mTable \in [entry : [Memory -> Message], size : Nat]
  /\ mChanged \in BOOLEAN /\ rChanged \in BOOLEAN /\ gChanged \in BOOLEAN
  /\ cursor \in InTable(mTable) \cup {mTable.size, NoIndex}
  /\ linked \in [Remote -> BOOLEAN]
  /\ peer \in [Remote -> Peer \cup {NoHop}]
  /\ sending \in [Remote -> InTable(mTable) \cup {NoIndex}]
  /\ receiving \in [Remote -> InTable(mTable) \cup {NoIndex}]

Init ==
  /\ mTable = EmptyTable
  /\ mChanged = FALSE /\ rChanged = TRUE /\ gChanged = TRUE
  /\ cursor = NoIndex
  /\ linked = [d \in Remote |-> FALSE]
  /\ peer = [d \in Remote |-> NoHop]
  /\ sending = [d \in Remote |-> NoIndex]
  /\ receiving = [d \in Remote |-> NoIndex]

-----------------------------------------------------------------------------
(* Messages are added.                                                     *)

\* getBleDeviceIndex: the first device of that name, if it is connected.
DeviceOf(h) ==
  LET d == First({e \in Remote : peer[e] = h})
  IN  IF d # NoIndex /\ linked[d] THEN d ELSE NoIndex

\* A lookup may add a name to the routing table.
MayAddName == rChanged' \in {rChanged, TRUE}

\* addNewMessageToSend; there may be no room left in the buffer, too.
AddMessage(d) ==
  \/ /\ HasRoom(mTable)
     /\ mTable' = AddNew(mTable, d)
     /\ mChanged' = TRUE
  \/ UNCHANGED <<mTable, mChanged>>

\* send(); only messages that are not of the system wait for their turn.
Send(d, isSystemMessage) ==
  /\ cursor = NoIndex
  /\ MayAddName
  /\ IF isSystemMessage \/ CanAcceptMore(mTable)
       THEN AddMessage(d)
       ELSE UNCHANGED <<mTable, mChanged>>
  /\ UNCHANGED <<gChanged, cursor, devices>>

\* subscribe() and unsubscribe(): sendRoutingInformationUpstream.
AnnounceSubscription ==
  /\ cursor = NoIndex
  /\ MayAddName
  /\ IF linked[Parent] THEN AddMessage(Upstream) ELSE UNCHANGED <<mTable, mChanged>>
  /\ UNCHANGED <<gChanged, cursor, devices>>

\* Bound: how many devices may be sending or receiving at a time.
MoreMayBeBusy ==
  Cardinality({d \in Remote : sending[d] # NoIndex \/ receiving[d] # NoIndex}) < MaxBusy

\* A message outgrows a device's temporary buffer, and an entry is reserved.
BeginReceive(d) ==
  /\ cursor = NoIndex /\ MoreMayBeBusy
  /\ linked[d] /\ receiving[d] = NoIndex
  /\ HasRoom(mTable)
  /\ mTable' = Reserve(mTable, peer[d])
  /\ mChanged' = TRUE
  /\ receiving' = [receiving EXCEPT ![d] = mTable.size]
  /\ UNCHANGED <<rChanged, gChanged, cursor, linked, peer, sending>>

-----------------------------------------------------------------------------
(* pollRoutingMessages                                                     *)

\* The first test: flags are read, and cleared, up to the first one set.
StartRouting ==
  /\ cursor = NoIndex
  /\ mChanged \/ rChanged \/ gChanged
  /\ mChanged' = FALSE
  /\ rChanged' = (mChanged /\ rChanged)
  /\ gChanged' = ((mChanged \/ rChanged) /\ gChanged)
  /\ cursor' = 0
  /\ UNCHANGED <<mTable, devices>>

\* An entry that needs no routing, and the end of the table.
SkipEntry ==
  /\ cursor # NoIndex
  /\ cursor = mTable.size \/ ~mTable.entry[cursor].requiresRouting
  /\ cursor' = IF cursor = mTable.size THEN NoIndex ELSE cursor + 1
  /\ UNCHANGED <<mTable, flags, devices>>

\* The loop over the routes begins one device behind the last one, at a byte
\* behind routeExists and a name behind bleDeviceTable that no code sets.
DeviceBehind == MaxCentral + 2
Scanned      == Remote \cup {DeviceBehind}

Hops == [j \in Scanned |-> IF j \in Remote THEN peer[j] ELSE NoHop]

\* Devices a message is routed to, other than the one it came from.
Others(routes, from) == routes \ {from}

\* newMessageTableEntriesRequired: "*" counts as one device, and the loop that
\* counts for a subscription ends with the last device.
EntriesRequired(d, to) ==
  IF d \in Subscription THEN Cardinality(to \cap Remote) ELSE 1

\* Messages for one device go to the highest only.
FanOut(d, to) ==
  IF d \in Subscription \cup {ToAll} THEN to
  ELSE {j \in to : \A k \in to : k <= j}

\* What a lookup that finds the name may answer: devices that are connected,
\* or for "" the parent of initialize(), and the byte behind them.
LiveRoutes(d) ==
  IF d = Upstream /\ Steady THEN {Parent}
  ELSE {p \in Remote : linked[p] \/ (d = Upstream /\ p = Parent)}

\* Any entry of a full table contains "".  Another name need not be there, and
\* the routes are then read in front of the array.
RoutesFor(d) ==
  IF Steady THEN {LiveRoutes(d)}
  ELSE SUBSET (IF d = Upstream THEN LiveRoutes(d) \cup {DeviceBehind} ELSE Scanned)

RouteEntry(routes, added, connections) ==
  LET i    == cursor
      e    == mTable.entry[i]
      to   == Others(routes, DeviceOf(e.from))
      n    == EntriesRequired(e.destination, to)
      base == IF e.type = "origin" THEN i + 1 ELSE i
      fits == n > 0 /\ TableCapacity - mTable.size - n >= connections + 2
  IN
  /\ cursor \in InTable(mTable)
  /\ e.requiresRouting
  /\ rChanged' = (rChanged \/ added)
  /\ IF ~fits THEN /\ cursor' = NoIndex
                   /\ UNCHANGED <<mTable, mChanged, gChanged>>
     ELSE /\ mTable' = Clone(MakeSpace(mTable, i, n), i, base,
                                FanOut(e.destination, to), Hops)
          /\ mChanged' = (mChanged \/ to # {})
          /\ gChanged' = (gChanged \/ to # {} \/ i + 1 < mTable.size)
          /\ cursor' = IF to # {} /\ e.destination \notin Subscription \cup {ToAll}
                         THEN NoIndex ELSE i + 1
  /\ UNCHANGED devices

\* getIndexFromNamePointer finds no destination by its address, and adds it
\* as a name without routes while the routing table has room; only when it
\* has none is the destination looked up by name.  Adding a name clears the
\* bytes of all devices, and not the one behind them.
Route ==
  /\ cursor # NoIndex
  /\ \E c \in 0 .. Cardinality({d \in Remote : linked[d]}) :
       \/ \E routes \in SUBSET {DeviceBehind} :
            ~Steady /\ RouteEntry(routes, TRUE, c)
       \/ \E routes \in RoutesFor(mTable.entry[cursor].destination) :
            RouteEntry(routes, FALSE, c)

-----------------------------------------------------------------------------
(* Devices send, receive, connect and disconnect.                          *)

\* pollSendingMessages: a device looks for a message to send.
BeginSend(d) ==
  /\ cursor = NoIndex /\ MoreMayBeBusy
  /\ linked[d] /\ sending[d] = NoIndex
  /\ NextForHop(mTable, peer[d]) # NoIndex
  /\ sending' = [sending EXCEPT ![d] = NextForHop(mTable, peer[d])]
  /\ UNCHANGED <<mTable, flags, cursor, linked, peer, receiving>>

\* resetSendMessage, when sending is given up.
EndSend(d) ==
  /\ cursor = NoIndex
  /\ sending[d] # NoIndex
  /\ mTable' = Retire(mTable, {sending[d]})
  /\ sending' = [sending EXCEPT ![d] = NoIndex]
  /\ UNCHANGED <<flags, cursor, linked, peer, receiving>>

\* resetReceiveMessage, on an ACK, at the end of a message or on an error.
EndReceive(d) ==
  /\ cursor = NoIndex
  /\ receiving[d] # NoIndex
  /\ mTable' = Retire(mTable, {receiving[d]})
  /\ receiving' = [receiving EXCEPT ![d] = NoIndex]
  /\ UNCHANGED <<flags, cursor, linked, peer, sending>>

ConnectChild(d, h) ==
  /\ d # Parent /\ ~linked[d]
  /\ linked' = [linked EXCEPT ![d] = TRUE]
  /\ peer' = [peer EXCEPT ![d] = h]
  /\ mTable' = Retire(mTable, {sending[d], receiving[d]})
  /\ sending' = [sending EXCEPT ![d] = NoIndex]
  /\ receiving' = [receiving EXCEPT ![d] = NoIndex]
  /\ MayAddName
  /\ UNCHANGED <<mChanged, gChanged, cursor>>

\* A new parent is told of all routes.
ConnectParent(h) ==
  /\ ~linked[Parent]
  /\ linked' = [linked EXCEPT ![Parent] = TRUE]
  /\ peer' = [peer EXCEPT ![Parent] = h]
  /\ AddMessage(Upstream)
  /\ MayAddName
  /\ UNCHANGED <<gChanged, cursor, sending, receiving>>

Disconnect(d) ==
  /\ linked[d]
  /\ linked' = [linked EXCEPT ![d] = FALSE]
  /\ peer' = IF d = Parent THEN peer ELSE [peer EXCEPT ![d] = NoHop]
  /\ mTable' = Retire(mTable, {sending[d], receiving[d]})
  /\ sending' = [sending EXCEPT ![d] = NoIndex]
  /\ receiving' = [receiving EXCEPT ![d] = NoIndex]
  /\ rChanged' = TRUE
  /\ UNCHANGED <<mChanged, gChanged, cursor>>

-----------------------------------------------------------------------------

Next ==
  \/ \E d \in Destination, b \in BOOLEAN : Send(d, b)
  \/ AnnounceSubscription
  \/ StartRouting \/ SkipEntry \/ Route
  \/ \E d \in Remote : \/ BeginReceive(d) \/ EndReceive(d)
                       \/ BeginSend(d) \/ EndSend(d)
                       \/ Disconnect(d)
  \/ \E d \in Remote, h \in Peer : ConnectChild(d, h)
  \/ \E h \in Peer : ConnectParent(h)

Spec == Init /\ [][Next]_vars

-----------------------------------------------------------------------------
(* What the table gets right.                                              *)

(***************************************************************************)
(* However the entries fan out, and whatever the routing table answers, at *)
(* most one entry behind the array is written.  That one is: the loop      *)
(* visits a device more than the room kept back is for, so the test before *)
(* it (MessageRouting.cpp:65) does not keep routing within the table.      *)
(* A message for "*" is given one entry and takes one per device, and the  *)
(* number of connections in that test may be too low: it is the room kept  *)
(* back whenever a message is added that bounds what is written.           *)
(***************************************************************************)
AtMostOneBehind ==
  \A k \in Memory : k > TableCapacity => mTable.entry[k] = Unused(k)

-----------------------------------------------------------------------------
(* Why they hold.                                                          *)

\* While there are messages, the room for one to every device is there.
RoomKeptBack ==
  mTable.size > 0 => mTable.size + MaxCentral + 1 <= TableCapacity

-----------------------------------------------------------------------------
(* What the documents say of the table, and the code does not do.          *)

\* What a device sends from stays the message it began to send: the pointer
\* does not come to lead to the bytes of another one.
SendsOneMessage ==
  [][\A d \in Remote :
       sending[d] # NoIndex /\ sending'[d] = sending[d] =>
         mTable'.entry[sending[d]].builder = mTable.entry[sending[d]].builder]_vars

=============================================================================
