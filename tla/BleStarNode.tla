---------------------------- MODULE BleStarNode -----------------------------
(***************************************************************************)
(* One node: its routing table, its table of devices, its table of         *)
(* central connections, and the callbacks and calls that keep them in      *)
(* step (BleStar.cpp, BleStarCentral.cpp, BleStarPeripheral.cpp,           *)
(* BleDeviceTable.cpp, SystemMessages.cpp).                                *)
(*                                                                         *)
(* Two tasks run the code.  The Bluetooth stack runs the connect and       *)
(* disconnect callbacks one at a time in its callback task; the            *)
(* application's task runs send, subscribe, unsubscribe and loop.  A       *)
(* callback gives way to the application only where it waits for the       *)
(* remote device, and connectAsCentralCallback does so, among others, in   *)
(* enableTXD(), with the device marked connected but not yet counted.      *)
(* The other waits, in getPeerName() and discover(), fall between steps    *)
(* that share nothing with the application's.                              *)
(*                                                                         *)
(* What these operations do to messages is not in this module.             *)
(***************************************************************************)
EXTENDS RoutingTable

CONSTANTS
  Remote,                    \* the names remote devices connect with
  Wanted,                    \* the names the application and messages use
  Handle,                    \* the connection handles the stack may issue
  MaxConnectionsAsCentral,   \* the argument of begin()
  MaxDeficit,                \* bound: how far below zero the count may drift
  NoName                     \* no link

InvalidHandle == 65535       \* BLE_CONN_HANDLE_INVALID
NoPeer        == -2          \* a peerName of NULL

\* Remote devices are nodes of the same network, named by their begin().
ASSUME NodeAssumption ==
  /\ Remote \subseteq Name \ {NullName, AllName}
  /\ Wanted \subseteq Name
  /\ NoName \notin Name
  /\ Handle \subseteq 0 .. InvalidHandle - 1
  /\ MaxConnectionsAsCentral \in Nat
  /\ MaxDeficit \in Nat

VARIABLES
  rt,          \* rTable
  handle,      \* bleCentralConnectionTable[s].bleConnectionHandle
  connected,   \* bleDeviceTable[d].isConnected
  peer,        \* bleDeviceTable[d].peerName: the entry of rt it points into
  nCentral,    \* _numberOfBleCentralConnections
  nConn,       \* _numberOfBleConnections
  waiting,     \* a connect callback is waiting in enableTXD()
  live,        \* the stack: the device at the other end of each central link
  parent       \* the stack: the device at the other end of the peripheral link

tables == <<rt, handle, connected, peer, nCentral, nConn, waiting>>
stack  == <<live, parent>>
vars   == <<tables, stack>>

Slot == 0 .. MaxCentral - 1

\* bleDevice->index, which resetBleDeviceTable() sets in the devices begin()
\* asked for and leaves at 0 in the others.
DeviceIndex(d) ==
  IF d < MaxConnectionsAsCentral + 2 THEN d ELSE ThisDevice

TypeOK ==
  /\ rt \in Table
  /\ handle \in [Slot -> Handle \cup {0, InvalidHandle}]
  /\ connected \in [Device -> BOOLEAN]
  /\ peer \in [Device -> Entry \cup {NoIndex, NoPeer}]
  /\ nCentral \in Int
  /\ nConn \in 0 .. MaxCentral + 1
  /\ waiting \in BOOLEAN
  /\ live \in [Handle -> Remote \cup {NoName}]
  /\ parent \in Remote \cup {NoName}

\* begin() points peer[0] at this device's name and then resets the table of
\* devices.  Nothing sets the handles to INVALID: a global object starts as 0.
Init ==
  /\ rt = InitialTable
  /\ handle = [s \in Slot |-> 0]
  /\ connected = [d \in Device |-> FALSE]
  /\ peer = [d \in Device |-> NoPeer]
  /\ nCentral = 0
  /\ nConn = 0
  /\ waiting = FALSE
  /\ live = [h \in Handle |-> NoName]
  /\ parent = NoName

-----------------------------------------------------------------------------

\* findConnectionHandle
FindHandle(h) == First({s \in Slot : handle[s] = h})

\* recalculateNumberOfBleConnections: the scan ends at the count it is given.
Connections(conn, count) ==
  Cardinality({d \in Device : Parent <= d /\ d <= count + 1 /\ conn[d]})

\* getNamePointerFromName: `index >= 0' tests the C library's index(), so a
\* failed lookup gives the address of the entry before the array.
NamePointer(t, n) == NameIndex(t, n)

\* Mutant: no callback clears isConnected.
MarkConnectedOnly(d, b) == [connected EXCEPT ![d] = @ \/ b]

\* Mutant: a disconnection resets the whole table of devices.
MarkConnectedOrReset(d, b) ==
  IF b THEN [connected EXCEPT ![d] = TRUE] ELSE [e \in Device |-> FALSE]

\* bleDevice->isConnected = b
MarkConnected(d, b) == [connected EXCEPT ![d] = b]

LiveLinks == {h \in Handle : live[h] # NoName}

\* Mutant: begin() reserves all the connections the library has room for.
LinkUpToTheLimit(h, n) ==
  /\ live[h] = NoName
  /\ Cardinality(LiveLinks) < MaxCentral
  /\ live' = [live EXCEPT ![h] = n]
  /\ UNCHANGED parent

\* A new link, within what begin() asked Bluefruit.begin() for.
LinkUp(h, n) ==
  /\ live[h] = NoName
  /\ Cardinality(LiveLinks) < MaxConnectionsAsCentral
  /\ live' = [live EXCEPT ![h] = n]
  /\ UNCHANGED parent

-----------------------------------------------------------------------------
(* The callback task.                                                      *)

\* connectAsCentralCallback with no slot to give: the link stays up.
RejectAsCentral(h, n) ==
  /\ ~waiting
  /\ LinkUp(h, n)
  /\ FindHandle(InvalidHandle) = NoIndex
  /\ UNCHANGED tables

\* The UART service is not found: the callback asks for a disconnection,
\* whose own callback comes later, and leaves the handle recorded.
FailToDiscover(h, n) ==
  LET s == FindHandle(InvalidHandle) IN
  /\ ~waiting
  /\ LinkUp(h, n)
  /\ s # NoIndex
  /\ handle' = [handle EXCEPT ![s] = h]
  /\ UNCHANGED <<rt, connected, peer, nCentral, nConn, waiting>>

\* connectAsCentralCallback up to and including the call of enableTXD().
ConnectAsCentral(h, n) ==
  LET s == FindHandle(InvalidHandle)
      d == s + 2
  IN
  /\ ~waiting
  /\ LinkUp(h, n)
  /\ s # NoIndex
  /\ handle' = [handle EXCEPT ![s] = h]
  /\ rt' = AfterNameLookup(rt, n, DeviceIndex(d))
  /\ peer' = [peer EXCEPT ![d] = NamePointer(rt, n)]
  /\ connected' = MarkConnected(d, TRUE)
  /\ waiting' = TRUE
  /\ UNCHANGED <<nCentral, nConn>>

\* The rest of connectAsCentralCallback.
CountConnection ==
  /\ waiting
  /\ waiting' = FALSE
  /\ nCentral' = nCentral + 1
  /\ nConn' = Connections(connected, nCentral')
  /\ UNCHANGED <<rt, handle, connected, peer, stack>>

LinkDown(h) ==
  /\ live[h] # NoName
  /\ live' = [live EXCEPT ![h] = NoName]
  /\ UNCHANGED parent

\* disconnectAsCentralCallback for a handle no slot holds.
IgnoreDisconnect(h) ==
  /\ ~waiting
  /\ LinkDown(h)
  /\ FindHandle(h) = NoIndex
  /\ UNCHANGED tables

\* Mutant: the count is left alone, as it is where a link is refused.
DisconnectUncounted(h) ==
  LET s == FindHandle(h)
      d == s + 2
  IN
  /\ ~waiting
  /\ LinkDown(h)
  /\ s # NoIndex
  /\ handle' = [handle EXCEPT ![s] = InvalidHandle]
  /\ peer' = [peer EXCEPT ![d] = NoPeer]
  /\ connected' = MarkConnected(d, FALSE)
  /\ nConn' = Connections(connected', nCentral)
  /\ rt' = InvalidateDevice(rt, DeviceIndex(d))
  /\ UNCHANGED <<nCentral, waiting>>

DisconnectAsCentral(h) ==
  LET s == FindHandle(h)
      d == s + 2
  IN
  /\ ~waiting
  /\ LinkDown(h)
  /\ s # NoIndex
  /\ nCentral > -MaxDeficit
  /\ handle' = [handle EXCEPT ![s] = InvalidHandle]
  /\ nCentral' = nCentral - 1
  /\ peer' = [peer EXCEPT ![d] = NoPeer]
  /\ connected' = MarkConnected(d, FALSE)
  /\ nConn' = Connections(connected', nCentral')
  /\ rt' = InvalidateDevice(rt, DeviceIndex(d))
  /\ UNCHANGED waiting

ConnectAsPeripheral(n) ==
  /\ ~waiting
  /\ parent = NoName
  /\ parent' = n
  /\ rt' = AfterNameLookup(rt, n, Parent)
  /\ peer' = [peer EXCEPT ![Parent] = NamePointer(rt, n)]
  /\ connected' = MarkConnected(Parent, TRUE)
  /\ nConn' = Connections(connected', nCentral)
  /\ UNCHANGED <<handle, nCentral, waiting, live>>

\* The parent's peerName is left pointing where it did.
DisconnectAsPeripheral ==
  /\ ~waiting
  /\ parent # NoName
  /\ parent' = NoName
  /\ rt' = InvalidateDevice(rt, Parent)
  /\ connected' = MarkConnected(Parent, FALSE)
  /\ nConn' = Connections(connected', nCentral)
  /\ UNCHANGED <<handle, peer, nCentral, waiting, live>>

-----------------------------------------------------------------------------
(* The application's task.  It also runs while a callback is waiting.      *)

OnlyRoutes ==
  UNCHANGED <<handle, connected, peer, nCentral, nConn, waiting, stack>>

\* send() looks its destination up, and so adds a name it does not know.
Send(n) ==
  /\ rt' = AfterNameLookup(rt, n, NoIndex)
  /\ OnlyRoutes

Subscribe(n) ==
  /\ rt' = AfterNameLookup(rt, n, ThisDevice)
  /\ OnlyRoutes

Unsubscribe(n) ==
  /\ rt' = SetRoute(AfterNameLookup(rt, n, NoIndex),
                    NameIndex(rt, n), ThisDevice, FALSE)
  /\ OnlyRoutes

\* pollRoutingMessages finding nothing to route: the flag is read, and
\* cleared, only when the message table has not changed.
PollUnrouted ==
  /\ rt' = TakeChanged(rt)
  /\ OnlyRoutes

\* pollRoutingMessages at a message for n.  The lookup by pointer is given a
\* pointer into the message and always adds the name; when it cannot, the
\* lookup by name cannot either.
PollRouting(n) ==
  /\ rt' = AfterForeignPointerLookup(rt, n)
  /\ OnlyRoutes

-----------------------------------------------------------------------------

CentralCallback ==
  \/ \E h \in Handle, n \in Remote :
       RejectAsCentral(h, n) \/ FailToDiscover(h, n) \/ ConnectAsCentral(h, n)
  \/ \E h \in Handle : IgnoreDisconnect(h) \/ DisconnectAsCentral(h)
  \/ CountConnection

PeripheralCallback ==
  \/ \E n \in Remote : ConnectAsPeripheral(n)
  \/ DisconnectAsPeripheral

Application ==
  \/ \E n \in Wanted : Send(n) \/ Subscribe(n) \/ Unsubscribe(n) \/ PollRouting(n)
  \/ PollUnrouted

Next == CentralCallback \/ PeripheralCallback \/ Application

Spec == Init /\ [][Next]_vars

-----------------------------------------------------------------------------
(* What the node gets right.                                               *)

(***************************************************************************)
(* No route survives the device it goes through: an entry of the table     *)
(* names a device only while that device is connected.  The one exception  *)
(* is the route upstream that initialize() gives "" before any parent has  *)
(* connected.                                                              *)
(***************************************************************************)
RoutesAreLive ==
  \A i \in InTable(rt) : \A p \in rt.routes[i] :
    \/ p = ThisDevice
    \/ connected[p]
    \/ i = SendUpstream /\ p = Parent

(***************************************************************************)
(* What a lookup answers, as MessageRouting takes it: devices that are     *)
(* connected, and only for "" a parent that may not be (MessageRouting.cpp:156). *)
(***************************************************************************)
LookupsAreLive ==
  \A n \in Name : FindName(rt, n) # NoIndex =>
    \A p \in rt.routes[FindName(rt, n)] \ {ThisDevice} :
      connected[p] \/ (n = NullName /\ p = Parent)

(***************************************************************************)
(* While a parent is connected, the lookup of "" by name stops at an entry *)
(* routed through it, whatever was cut off the table meanwhile             *)
(* (RoutingTable.cpp:28-38, 61, 92-127).  The parent must have found its   *)
(* way into the table when it connected, which a full table prevents.      *)
(* Routing comes to this lookup only in a full table: its first one, by    *)
(* pointer (MessageRouting.cpp:155), adds one more "" while there is room, *)
(* and finds no route in it (PollRouting).                                 *)
(***************************************************************************)
UpstreamFoundByName ==
  connected[Parent] /\ peer[Parent] # NoIndex
    => /\ FindName(rt, NullName) # NoIndex
       /\ Parent \in rt.routes[FindName(rt, NullName)]

(***************************************************************************)
(* A disconnection reaches the device it is about: the slot of a connected *)
(* device holds the handle of a link that is up, and findConnectionHandle  *)
(* for that handle stops at this slot and not at one before it.            *)
(***************************************************************************)
SlotServesItsLink ==
  \A s \in Slot : connected[s + 2] =>
    /\ handle[s] \in LiveLinks
    /\ FindHandle(handle[s]) = s

ConnectedCentrals == {s \in Slot : connected[s + 2]}

\* The count never exceeds the devices connected, so that the loops it
\* bounds stay inside bleDeviceTable.
CountNeverOver == nCentral <= Cardinality(ConnectedCentrals)

\* A link is never given a device resetBleDeviceTable() has not prepared:
\* such a device has no receive buffer and index 0.
DevicesArePrepared ==
  \A s \in ConnectedCentrals : s < MaxConnectionsAsCentral

VisibleRoutes(t, p) == {i \in InTable(t) : p \in t.routes[i]}

(***************************************************************************)
(* pollRoutingMessages looks at the messages again when the flag of the    *)
(* routing table is set, so no route through another device may appear or  *)
(* disappear without leaving the flag set.                                 *)
(***************************************************************************)
RouteChangeFlagged ==
  [][\A p \in Device \ {ThisDevice} :
       VisibleRoutes(rt, p) # VisibleRoutes(rt', p) => rt'.changed]_rt

\* The connections implement LinkTable: a device keeps its link until that
\* link goes down.
Links == INSTANCE LinkTable WITH
  Slot   <- Slot,
  Handle <- Handle,
  NoLink <- InvalidHandle,
  up     <- LiveLinks,
  link   <- [s \in Slot |-> IF connected[s + 2] THEN handle[s] ELSE InvalidHandle]

LinksRefined == Links!Spec

-----------------------------------------------------------------------------
(* Why they hold: inductive strengthenings of the invariants above.        *)

(***************************************************************************)
(* Slots are opened from the first on, by disconnections of links with     *)
(* handle 0 that no opened slot holds.  An opened slot is free or holds    *)
(* the handle of a link that is up, a different one in each; the others    *)
(* still hold their initial 0, and no device.  A link with handle 0 that   *)
(* no opened slot holds was refused with every opened slot in use, which   *)
(* is why there are never more of those than begin() asked for.            *)
(***************************************************************************)
OpenedUpTo(k) ==
  /\ \A s \in Slot : s < k =>
       /\ handle[s] \in LiveLinks \cup {InvalidHandle}
       /\ connected[s + 2] => handle[s] # InvalidHandle
  /\ \A s \in Slot : s >= k => handle[s] = 0 /\ ~connected[s + 2]
  /\ \A s, u \in Slot :
       s < k /\ u < k /\ handle[s] = handle[u] /\ handle[s] # InvalidHandle
         => s = u
  /\ k <= MaxConnectionsAsCentral
  /\ 0 \in LiveLinks /\ (\A s \in Slot : s < k => handle[s] # 0)
       => k < MaxConnectionsAsCentral

SlotsInv == \E k \in 0 .. MaxCentral : OpenedUpTo(k)

\* A device that is connected and not counted yet is one the count is short.
CountInv ==
  nCentral + (IF waiting THEN 1 ELSE 0) <= Cardinality(ConnectedCentrals)

\* The first entry of the table is routed through the parent once the parent
\* is in the table, and before that only the "" of initialize() can be.
ParentRouted ==
  connected[Parent] /\ peer[Parent] # NoIndex
    => rt.size >= 1 /\ Parent \in rt.routes[0]

ParentUnrouted ==
  ~connected[Parent] /\ rt.size >= 1 /\ Parent \in rt.routes[0]
    => rt.name[0] = NullName

\* The parent's device is connected while the stack has a parent.
ParentLink == connected[Parent] <=> parent # NoName

-----------------------------------------------------------------------------
(* What the documents and messages say of the node, and the code does not  *)
(* do.                                                                     *)

\* _thisDeviceName names this device, in every message it originates.
ThisNameStable == rt.name[2] = ThisName

=============================================================================
