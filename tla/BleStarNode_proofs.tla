------------------------- MODULE BleStarNode_proofs --------------------------
(* Theorems about BleStarNode, for every value of its constants.            *)
EXTENDS BleStarNode, RoutingTable_proofs

-----------------------------------------------------------------------------
(* Types.                                                                  *)

LEMMA DeviceRanges ==
  /\ \A s \in Slot : s \in Int /\ s + 2 \in Device /\ s + 2 # Parent
  /\ \A d \in Device : DeviceIndex(d) \in Device
  /\ \A s \in Slot : DeviceIndex(s + 2) # Parent
  /\ Parent \in Device /\ ThisDevice \in Device
BY TableAssumption, NodeAssumption
   DEF Slot, Device, DeviceIndex, Parent, ThisDevice

\* The scan of findConnectionHandle over any table of handles f.
LEMMA SlotSearch ==
  ASSUME NEW f, NEW h
  PROVE  LET i == First({s \in Slot : f[s] = h}) IN
         \/ i = NoIndex /\ \A s \in Slot : f[s] # h
         \/ /\ i \in Slot /\ f[i] = h
            /\ \A s \in Slot : f[s] = h => i <= s
<1>1. IsFiniteSet(Slot) /\ Slot \subseteq Int
  BY TableAssumption, FS_Interval DEF Slot
<1>2. {s \in Slot : f[s] = h} \in SUBSET Slot
  OBVIOUS
<1>3. IsFiniteSet({s \in Slot : f[s] = h})
  BY <1>1, <1>2, FS_Subset
<1>. QED  BY <1>1, <1>2, <1>3, FirstFound

\* The search for a handle gives the first slot that holds it, or none.
LEMMA FindHandleFound ==
  ASSUME NEW h
  PROVE  \/ FindHandle(h) = NoIndex /\ \A s \in Slot : handle[s] # h
         \/ /\ FindHandle(h) \in Slot /\ handle[FindHandle(h)] = h
            /\ \A s \in Slot : handle[s] = h => FindHandle(h) <= s
BY SlotSearch DEF FindHandle

\* The number of connections stays within the devices.
LEMMA ConnectionsType ==
  ASSUME NEW conn, NEW n
  PROVE  Connections(conn, n) \in 0 .. MaxCentral + 1
<1>. DEFINE C == {d \in Device : Parent <= d /\ d <= n + 1 /\ conn[d]}
<1>1. C \in SUBSET (1 .. MaxCentral + 1)
  BY DEF Device, Parent
<1>2. /\ IsFiniteSet(1 .. MaxCentral + 1)
      /\ Cardinality(1 .. MaxCentral + 1) = MaxCentral + 1
  BY TableAssumption, FS_Interval
<1>3. IsFiniteSet(C) /\ Cardinality(C) <= MaxCentral + 1 /\ Cardinality(C) \in Nat
  BY <1>1, <1>2, FS_Subset, FS_CardinalityType
<1>4. Connections(conn, n) = Cardinality(C)
  BY DEF Connections
<1>. QED  BY <1>3, <1>4, TableAssumption

\* What every state of the node looks like, and that no operation leaves it.
THEOREM TypeCorrect == Spec => []TypeOK
<1>1. Init => TypeOK
  <2>. SUFFICES ASSUME Init PROVE TypeOK
    OBVIOUS
  <2>1. rt \in Table /\ nConn \in 0 .. MaxCentral + 1
    BY InitialTableType, TableAssumption DEF Init
  <2>2. /\ handle \in [Slot -> Handle \cup {0, InvalidHandle}]
        /\ connected \in [Device -> BOOLEAN]
        /\ peer \in [Device -> Entry \cup {NoIndex, NoPeer}]
        /\ live \in [Handle -> Remote \cup {NoName}]
    BY DEF Init
  <2>3. /\ nCentral \in Int
        /\ parent \in Remote \cup {NoName}
    BY DEF Init
  <2>4. waiting \in BOOLEAN
    BY DEF Init
  <2>. QED  BY <2>1, <2>2, <2>3, <2>4 DEF TypeOK
<1>2. TypeOK /\ [Next]_vars => TypeOK'
  <2>. SUFFICES ASSUME TypeOK, [Next]_vars PROVE TypeOK'
    OBVIOUS
  <2>. USE DEF TypeOK
  <2>0. NoName \notin Remote /\ Remote \subseteq Name /\ Wanted \subseteq Name
    BY NodeAssumption
  <2>1. ASSUME NEW h \in Handle, NEW n \in Remote, LinkUp(h, n)
        PROVE  live' \in [Handle -> Remote \cup {NoName}] /\ parent' = parent
    BY <2>1 DEF LinkUp
  <2>2. ASSUME NEW h \in Handle, LinkDown(h)
        PROVE  live' \in [Handle -> Remote \cup {NoName}] /\ parent' = parent
    BY <2>2 DEF LinkDown
  <2>3. ASSUME NEW d, NEW b \in BOOLEAN
        PROVE  MarkConnected(d, b) \in [Device -> BOOLEAN]
    BY DEF MarkConnected
  <2>4. ASSUME NEW h \in Handle, NEW n \in Remote, RejectAsCentral(h, n)
        PROVE  TypeOK'
    BY <2>1, <2>4 DEF RejectAsCentral, tables
  <2>5. ASSUME NEW h \in Handle, NEW n \in Remote, FailToDiscover(h, n)
        PROVE  TypeOK'
    BY <2>1, <2>5 DEF FailToDiscover
  <2>6. ASSUME NEW h \in Handle, NEW n \in Remote, ConnectAsCentral(h, n)
        PROVE  TypeOK'
    <3>. DEFINE s == FindHandle(InvalidHandle)
    <3>1. s \in Slot
      BY <2>6, FindHandleFound DEF ConnectAsCentral
    <3>2. rt' \in Table
      BY <2>0, <2>6, <3>1, DeviceRanges, NameLookupType DEF ConnectAsCentral
    <3>3. peer' \in [Device -> Entry \cup {NoIndex, NoPeer}]
      BY <2>0, <2>6, NameIndexType DEF ConnectAsCentral, NamePointer
    <3>4. connected' \in [Device -> BOOLEAN]
      BY <2>3, <2>6 DEF ConnectAsCentral
    <3>5. handle' \in [Slot -> Handle \cup {0, InvalidHandle}]
      BY <2>6 DEF ConnectAsCentral
    <3>. QED  BY <2>1, <2>6, <3>2, <3>3, <3>4, <3>5 DEF ConnectAsCentral
  <2>7. CASE CountConnection
    <3>1. nConn' \in 0 .. MaxCentral + 1
      BY <2>7, ConnectionsType DEF CountConnection
    <3>2. nCentral' \in Int
      <4>1. nCentral' = nCentral + 1
        BY <2>7 DEF CountConnection
      <4>. QED  BY <4>1
    <3>3. waiting' \in BOOLEAN
      BY <2>7 DEF CountConnection
    <3>4. UNCHANGED <<rt, handle, connected, peer, live, parent>>
      BY <2>7 DEF CountConnection, stack
    <3>. QED  BY <3>1, <3>2, <3>3, <3>4
  <2>8. ASSUME NEW h \in Handle, IgnoreDisconnect(h)
        PROVE  TypeOK'
    BY <2>2, <2>8 DEF IgnoreDisconnect, tables
  <2>9. ASSUME NEW h \in Handle, DisconnectAsCentral(h)
        PROVE  TypeOK'
    <3>1. rt' \in Table
      BY <2>9, InvalidateType DEF DisconnectAsCentral
    <3>2. connected' \in [Device -> BOOLEAN]
      BY <2>3, <2>9 DEF DisconnectAsCentral
    <3>3. nConn' \in 0 .. MaxCentral + 1
      BY <2>9, ConnectionsType DEF DisconnectAsCentral
    <3>4. nCentral' \in Int /\ waiting' \in BOOLEAN
      <4>1. nCentral' = nCentral - 1 /\ waiting' = waiting
        BY <2>9 DEF DisconnectAsCentral
      <4>. QED  BY <4>1
    <3>5. /\ peer' \in [Device -> Entry \cup {NoIndex, NoPeer}]
          /\ handle' \in [Slot -> Handle \cup {0, InvalidHandle}]
      BY <2>9 DEF DisconnectAsCentral
    <3>. QED  BY <2>2, <2>9, <3>1, <3>2, <3>3, <3>4, <3>5 DEF DisconnectAsCentral
  <2>10. ASSUME NEW n \in Remote, ConnectAsPeripheral(n)
         PROVE  TypeOK'
    <3>1. rt' \in Table
      BY <2>0, <2>10, DeviceRanges, NameLookupType DEF ConnectAsPeripheral
    <3>2. peer' \in [Device -> Entry \cup {NoIndex, NoPeer}]
      BY <2>0, <2>10, NameIndexType DEF ConnectAsPeripheral, NamePointer
    <3>. QED  BY <2>3, <2>10, <3>1, <3>2, ConnectionsType DEF ConnectAsPeripheral
  <2>11. CASE DisconnectAsPeripheral
    BY <2>3, <2>11, InvalidateType, ConnectionsType DEF DisconnectAsPeripheral
  <2>12. ASSUME NEW n \in Wanted,
                Send(n) \/ Subscribe(n) \/ Unsubscribe(n) \/ PollRouting(n)
         PROVE  TypeOK'
    <3>1. n \in Name
      BY <2>0
    <3>2. rt' \in Table
      BY <2>12, <3>1, NameLookupType, SetRouteType, AddType, DeviceRanges
         DEF Send, Subscribe, Unsubscribe, PollRouting, AfterForeignPointerLookup
    <3>3. OnlyRoutes
      BY <2>12 DEF Send, Subscribe, Unsubscribe, PollRouting
    <3>. QED  BY <3>2, <3>3 DEF OnlyRoutes, stack
  <2>13. CASE PollUnrouted
    BY <2>13 DEF PollUnrouted, OnlyRoutes, stack, TakeChanged, Table
  <2>14. CASE UNCHANGED vars
    BY <2>14 DEF vars, tables, stack
  <2>. QED
    BY <2>4, <2>5, <2>6, <2>7, <2>8, <2>9, <2>10, <2>11, <2>12, <2>13, <2>14
       DEF Next, CentralCallback, PeripheralCallback, Application
<1>. QED  BY <1>1, <1>2, PTL DEF Spec

-----------------------------------------------------------------------------
(* Connections.                                                            *)

LEMMA LinkUpLinks ==
  ASSUME TypeOK, NEW h \in Handle, NEW n \in Remote, LinkUp(h, n)
  PROVE  /\ h \notin LiveLinks
         /\ LiveLinks' = LiveLinks \cup {h}
         /\ Cardinality(LiveLinks) < MaxConnectionsAsCentral
<1>1. n # NoName
  BY NodeAssumption
<1>2. live' = [live EXCEPT ![h] = n] /\ live \in [Handle -> Remote \cup {NoName}]
  BY DEF LinkUp, TypeOK
<1>. QED  BY <1>1, <1>2 DEF LinkUp, LiveLinks

\* A link that goes down was up, and no other link changes.
LEMMA LinkDownLinks ==
  ASSUME TypeOK, NEW h \in Handle, LinkDown(h)
  PROVE  /\ h \in LiveLinks
         /\ LiveLinks' = LiveLinks \ {h}
<1>1. live' = [live EXCEPT ![h] = NoName] /\ live \in [Handle -> Remote \cup {NoName}]
  BY DEF LinkDown, TypeOK
<1>. QED  BY <1>1 DEF LinkDown, LiveLinks

\* The invalid handle is not that of any link, nor the handle slots start at.
LEMMA HandleRange ==
  /\ LiveLinks \subseteq Handle /\ InvalidHandle \notin Handle
  /\ \A h \in Handle : h # InvalidHandle
  /\ InvalidHandle # 0
  /\ IsFiniteSet(LiveLinks)
<1>0. InvalidHandle \in Int /\ InvalidHandle - 1 \in Int /\ InvalidHandle # 0
  BY DEF InvalidHandle
<1>1. IsFiniteSet(0 .. InvalidHandle - 1)
  BY <1>0, FS_Interval
<1>2. Handle \in SUBSET (0 .. InvalidHandle - 1) /\ LiveLinks \in SUBSET Handle
  BY NodeAssumption DEF LiveLinks
<1>3. IsFiniteSet(LiveLinks)
  BY <1>1, <1>2, FS_Subset
<1>4. InvalidHandle \notin 0 .. InvalidHandle - 1
  BY <1>0
<1>. QED  BY <1>0, <1>2, <1>3, <1>4

\* Opened slots that are all in use hold as many links that are up.
LEMMA OpenedInUse ==
  ASSUME TypeOK, NEW k \in 0 .. MaxCentral, OpenedUpTo(k),
         \A s \in Slot : handle[s] # InvalidHandle
  PROVE  k <= Cardinality(LiveLinks)
<1>. DEFINE f == [s \in 0 .. k - 1 |-> handle[s]]
<1>1. 0 .. k - 1 \subseteq Slot
  BY TableAssumption DEF Slot
<1>2. f \in [0 .. k - 1 -> LiveLinks]
  BY <1>1 DEF OpenedUpTo
<1>3. \A s, u \in 0 .. k - 1 : f[s] = f[u] => s = u
  BY <1>1 DEF OpenedUpTo
<1>4. f \in Injection(0 .. k - 1, LiveLinks)
  BY <1>2, <1>3 DEF Injection, IsInjective
<1>5. Cardinality(0 .. k - 1) <= Cardinality(LiveLinks)
  <2>. HIDE DEF f
  <2>. QED  BY <1>4, HandleRange, FS_Injection
<1>6. Cardinality(0 .. k - 1) = k
  <2>1. k \in Nat /\ k - 1 \in Int /\ (k = 0 \/ k > 0)
    BY TableAssumption
  <2>2. Cardinality(0 .. k - 1) = IF 0 > k - 1 THEN 0 ELSE k - 1 - 0 + 1
    BY <2>1, FS_Interval
  <2>. QED  BY <2>1, <2>2
<1>. QED  BY <1>5, <1>6

\* Before any callback no slot is opened.
LEMMA SlotsInvInit == Init => SlotsInv
<1>. SUFFICES ASSUME Init PROVE SlotsInv
  OBVIOUS
<1>1. LiveLinks = {}
  BY DEF Init, LiveLinks
<1>2. \A s \in Slot : s >= 0 /\ handle[s] = 0 /\ ~connected[s + 2]
  BY DeviceRanges DEF Init, Slot
<1>3. OpenedUpTo(0)
  BY <1>1, <1>2, NodeAssumption DEF OpenedUpTo, Slot
<1>. QED  BY <1>3, TableAssumption DEF SlotsInv

\* The steps that fill the first free slot, with or without a device.
LEMMA SlotFilled ==
  ASSUME TypeOK, NEW k \in 0 .. MaxCentral, OpenedUpTo(k),
         NEW h \in Handle, NEW n \in Remote, LinkUp(h, n),
         NEW s \in Slot, handle[s] = InvalidHandle,
         handle' = [handle EXCEPT ![s] = h],
         \A u \in Slot : u # s => connected'[u + 2] = connected[u + 2]
  PROVE  OpenedUpTo(k)'
<1>1. h \notin LiveLinks /\ LiveLinks' = LiveLinks \cup {h}
  BY LinkUpLinks
<1>2. handle \in [Slot -> Handle \cup {0, InvalidHandle}]
  BY DEF TypeOK
<1>3. s < k
  <2>1. s >= k => handle[s] = 0
    BY DEF OpenedUpTo
  <2>. QED  BY <2>1, HandleRange DEF Slot
<1>4. handle'[s] = h /\ \A u \in Slot : u # s => handle'[u] = handle[u]
  BY <1>2
<1>5. h # InvalidHandle
  BY HandleRange
<1>6. \A u \in Slot : u < k =>
        /\ handle'[u] \in LiveLinks' \cup {InvalidHandle}
        /\ connected'[u + 2] => handle'[u] # InvalidHandle
  BY <1>1, <1>4, <1>5 DEF OpenedUpTo
<1>7. \A u \in Slot : u >= k => handle'[u] = 0 /\ ~connected'[u + 2]
  BY <1>3, <1>4 DEF OpenedUpTo, Slot
<1>8. \A u, v \in Slot :
        u < k /\ v < k /\ handle'[u] = handle'[v] /\ handle'[u] # InvalidHandle
          => u = v
  BY <1>1, <1>4, <1>5 DEF OpenedUpTo
<1>9. 0 \in LiveLinks' /\ (\A u \in Slot : u < k => handle'[u] # 0)
        => k < MaxConnectionsAsCentral
  <2>. SUFFICES ASSUME 0 \in LiveLinks', \A u \in Slot : u < k => handle'[u] # 0
                PROVE  k < MaxConnectionsAsCentral
    OBVIOUS
  <2>1. h # 0
    BY <1>3, <1>4
  <2>2. 0 \in LiveLinks
    BY <1>1, <2>1
  <2>3. \A u \in Slot : u < k => handle[u] # 0
    BY <1>4, HandleRange
  <2>. QED  BY <2>2, <2>3 DEF OpenedUpTo
<1>10. k <= MaxConnectionsAsCentral
  BY DEF OpenedUpTo
<1>. QED  BY <1>6, <1>7, <1>8, <1>9, <1>10 DEF OpenedUpTo

\* The disconnection of a link, seen by the slot found for it.
LEMMA SlotReleased ==
  ASSUME TypeOK, NEW k \in 0 .. MaxCentral, OpenedUpTo(k),
         NEW h \in Handle, LinkDown(h),
         NEW s \in Slot, handle[s] = h,
         \A u \in Slot : handle[u] = h => s <= u,
         handle' = [handle EXCEPT ![s] = InvalidHandle],
         \A u \in Slot : connected'[u + 2] = (u # s /\ connected[u + 2])
  PROVE  SlotsInv'
<1>1. h \in LiveLinks /\ LiveLinks' = LiveLinks \ {h}
  BY LinkDownLinks
<1>2. handle \in [Slot -> Handle \cup {0, InvalidHandle}] /\ h # InvalidHandle
  BY HandleRange DEF TypeOK
<1>3. /\ handle'[s] = InvalidHandle
      /\ \A u \in Slot : u # s => handle'[u] = handle[u]
  BY <1>2
<1>4. CASE s < k
  <2>1. \A u \in Slot : u < k =>
          /\ handle'[u] \in LiveLinks' \cup {InvalidHandle}
          /\ connected'[u + 2] => handle'[u] # InvalidHandle
    BY <1>1, <1>2, <1>3, <1>4 DEF OpenedUpTo
  <2>2. \A u \in Slot : u >= k => handle'[u] = 0 /\ ~connected'[u + 2]
    <3>1. \A u \in Slot : u >= k => u # s
      BY <1>4 DEF Slot
    <3>2. \A u \in Slot : u >= k => handle[u] = 0 /\ ~connected[u + 2]
      BY DEF OpenedUpTo
    <3>. QED  BY <1>3, <3>1, <3>2
  <2>3. \A u, v \in Slot :
          u < k /\ v < k /\ handle'[u] = handle'[v] /\ handle'[u] # InvalidHandle
            => u = v
    BY <1>3 DEF OpenedUpTo
  <2>4. 0 \in LiveLinks' /\ (\A u \in Slot : u < k => handle'[u] # 0)
          => k < MaxConnectionsAsCentral
    BY <1>1, <1>3 DEF OpenedUpTo
  <2>5. k <= MaxConnectionsAsCentral
    BY DEF OpenedUpTo
  <2>6. OpenedUpTo(k)'
    BY <2>1, <2>2, <2>3, <2>4, <2>5 DEF OpenedUpTo
  <2>. QED  BY <2>6 DEF SlotsInv
<1>5. CASE s >= k
  <2>1. h = 0
    BY <1>5 DEF OpenedUpTo
  <2>2. k \in Slot /\ s = k /\ k + 1 \in 0 .. MaxCentral
    <3>1. k \in Slot
      BY <1>5, TableAssumption DEF Slot
    <3>2. handle[k] = 0
      BY <3>1 DEF OpenedUpTo, Slot
    <3>. QED  BY <1>5, <2>1, <3>1, <3>2, TableAssumption DEF Slot
  <2>3. \A u \in Slot : (u < k + 1 <=> u < k \/ u = k) /\ (u >= k + 1 => u >= k /\ u # k)
    BY TableAssumption DEF Slot
  <2>4. \A u \in Slot : u < k => handle[u] # 0
    BY <2>1, <2>2 DEF Slot
  <2>5. \A u \in Slot : u < k + 1 =>
          /\ handle'[u] \in LiveLinks' \cup {InvalidHandle}
          /\ connected'[u + 2] => handle'[u] # InvalidHandle
    <3>. SUFFICES ASSUME NEW u \in Slot, u < k + 1
                  PROVE  /\ handle'[u] \in LiveLinks' \cup {InvalidHandle}
                         /\ connected'[u + 2] => handle'[u] # InvalidHandle
      OBVIOUS
    <3>1. CASE u = k
      <4>1. connected'[u + 2] = FALSE
        BY <2>2, <3>1
      <4>. QED  BY <1>3, <2>2, <3>1, <4>1
    <3>2. CASE u # k
      <4>1. u < k /\ u # s /\ handle'[u] = handle[u] /\ handle[u] # 0
        BY <1>3, <2>2, <2>3, <2>4, <3>2
      <4>2. /\ handle[u] \in LiveLinks \cup {InvalidHandle}
            /\ connected[u + 2] => handle[u] # InvalidHandle
        BY <4>1 DEF OpenedUpTo
      <4>3. connected'[u + 2] => connected[u + 2]
        BY <4>1
      <4>. QED  BY <1>1, <2>1, <4>1, <4>2, <4>3
    <3>. QED  BY <3>1, <3>2
  <2>6. \A u \in Slot : u >= k + 1 => handle'[u] = 0 /\ ~connected'[u + 2]
    BY <1>3, <2>2, <2>3 DEF OpenedUpTo
  <2>7. \A u, v \in Slot :
          u < k + 1 /\ v < k + 1 /\ handle'[u] = handle'[v] /\ handle'[u] # InvalidHandle
            => u = v
    <3>1. \A u, v \in Slot :
            u < k /\ v < k /\ handle[u] = handle[v] /\ handle[u] # InvalidHandle
              => u = v
      BY DEF OpenedUpTo
    <3>2. \A u \in Slot : u < k + 1 /\ handle'[u] # InvalidHandle
                            => u < k /\ handle'[u] = handle[u]
      BY <1>3, <2>2, <2>3
    <3>. QED  BY <3>1, <3>2
  <2>8. k < MaxConnectionsAsCentral
    BY <1>1, <2>1, <2>4 DEF OpenedUpTo
  <2>9. k + 1 <= MaxConnectionsAsCentral
    BY <2>8, NodeAssumption, TableAssumption
  <2>10. 0 \notin LiveLinks'
    BY <1>1, <2>1
  <2>11. OpenedUpTo(k + 1)'
    BY <2>5, <2>6, <2>7, <2>9, <2>10 DEF OpenedUpTo
  <2>. QED  BY <2>2, <2>11 DEF SlotsInv
<1>. QED  BY <1>4, <1>5, TableAssumption DEF Slot

\* What MarkConnected does to the devices of the slots.
LEMMA SlotMarked ==
  ASSUME TypeOK, NEW d \in Device, NEW b \in BOOLEAN,
         connected' = MarkConnected(d, b)
  PROVE  \A u \in Slot :
           connected'[u + 2] = IF u + 2 = d THEN b ELSE connected[u + 2]
BY DeviceRanges DEF MarkConnected, TypeOK

\* Every step keeps the invariant of the slots.
LEMMA SlotsInvStep ==
  ASSUME TypeOK, SlotsInv, [Next]_vars
  PROVE  SlotsInv'
<1>. PICK k \in 0 .. MaxCentral : OpenedUpTo(k)
  BY DEF SlotsInv
<1>0. \A s, u \in Slot : s + 2 = u + 2 => s = u
  BY DEF Slot
<1>1. ASSUME NEW h \in Handle, NEW n \in Remote, RejectAsCentral(h, n)
      PROVE  SlotsInv'
  <2>1. LinkUp(h, n) /\ handle' = handle /\ connected' = connected
    BY <1>1 DEF RejectAsCentral, tables
  <2>2. LiveLinks' = LiveLinks \cup {h} /\ Cardinality(LiveLinks) < MaxConnectionsAsCentral
    BY <2>1, LinkUpLinks
  <2>3. k <= Cardinality(LiveLinks)
    BY <1>1, FindHandleFound, OpenedInUse, Ranges DEF RejectAsCentral, Slot, NoIndex
  <2>4. k < MaxConnectionsAsCentral
    BY <2>2, <2>3, NodeAssumption, TableAssumption, HandleRange, FS_CardinalityType
  <2>5. OpenedUpTo(k)'
    BY <2>1, <2>2, <2>4 DEF OpenedUpTo
  <2>. QED  BY <2>5 DEF SlotsInv
<1>2. ASSUME NEW h \in Handle, NEW n \in Remote, FailToDiscover(h, n)
      PROVE  SlotsInv'
  <2>. DEFINE s == FindHandle(InvalidHandle)
  <2>1. s \in Slot /\ handle[s] = InvalidHandle
    BY <1>2, FindHandleFound DEF FailToDiscover
  <2>2. LinkUp(h, n) /\ handle' = [handle EXCEPT ![s] = h] /\ connected' = connected
    BY <1>2 DEF FailToDiscover
  <2>. HIDE DEF s
  <2>3. OpenedUpTo(k)'
    BY <2>1, <2>2, SlotFilled
  <2>. QED  BY <2>3 DEF SlotsInv
<1>3. ASSUME NEW h \in Handle, NEW n \in Remote, ConnectAsCentral(h, n)
      PROVE  SlotsInv'
  <2>. DEFINE s == FindHandle(InvalidHandle)
  <2>1. s \in Slot /\ handle[s] = InvalidHandle
    BY <1>3, FindHandleFound DEF ConnectAsCentral
  <2>2. /\ LinkUp(h, n) /\ handle' = [handle EXCEPT ![s] = h]
        /\ connected' = MarkConnected(s + 2, TRUE)
    BY <1>3 DEF ConnectAsCentral
  <2>. HIDE DEF s
  <2>3. \A u \in Slot : u # s => connected'[u + 2] = connected[u + 2]
    BY <1>0, <2>1, <2>2, DeviceRanges, SlotMarked
  <2>4. OpenedUpTo(k)'
    BY <2>1, <2>2, <2>3, SlotFilled
  <2>. QED  BY <2>4 DEF SlotsInv
<1>4. ASSUME NEW h \in Handle, IgnoreDisconnect(h)
      PROVE  SlotsInv'
  <2>1. handle' = handle /\ connected' = connected /\ LiveLinks' = LiveLinks \ {h}
    BY <1>4, LinkDownLinks DEF IgnoreDisconnect, tables
  <2>2. \A u \in Slot : handle[u] # h
    BY <1>4, FindHandleFound DEF IgnoreDisconnect, Slot, NoIndex
  <2>3. OpenedUpTo(k)'
    BY <2>1, <2>2 DEF OpenedUpTo
  <2>. QED  BY <2>3 DEF SlotsInv
<1>5. ASSUME NEW h \in Handle, DisconnectAsCentral(h)
      PROVE  SlotsInv'
  <2>. DEFINE s == FindHandle(h)
  <2>1. s \in Slot /\ handle[s] = h /\ \A u \in Slot : handle[u] = h => s <= u
    BY <1>5, FindHandleFound DEF DisconnectAsCentral
  <2>2. /\ LinkDown(h) /\ handle' = [handle EXCEPT ![s] = InvalidHandle]
        /\ connected' = MarkConnected(s + 2, FALSE)
    BY <1>5 DEF DisconnectAsCentral
  <2>. HIDE DEF s
  <2>3. \A u \in Slot : connected'[u + 2] = (u # s /\ connected[u + 2])
    <3>1. \A u \in Slot : connected'[u + 2] =
                            IF u + 2 = s + 2 THEN FALSE ELSE connected[u + 2]
      BY <2>1, <2>2, DeviceRanges, SlotMarked
    <3>2. \A u \in Slot : connected[u + 2] \in BOOLEAN
      BY DeviceRanges DEF TypeOK
    <3>. QED  BY <1>0, <2>1, <3>1, <3>2
  <2>. QED  BY <2>1, <2>2, <2>3, SlotReleased
<1>6. ASSUME handle' = handle, LiveLinks' = LiveLinks,
             \A u \in Slot : connected'[u + 2] = connected[u + 2]
      PROVE  SlotsInv'
  <2>1. OpenedUpTo(k)'
    BY <1>6 DEF OpenedUpTo
  <2>. QED  BY <2>1 DEF SlotsInv
<1>7. CASE CountConnection
  BY <1>6, <1>7 DEF CountConnection, stack, LiveLinks
<1>8. CASE PeripheralCallback
  <2>1. handle' = handle /\ live' = live
    BY <1>8 DEF PeripheralCallback, ConnectAsPeripheral, DisconnectAsPeripheral
  <2>2. PICK b \in BOOLEAN : connected' = MarkConnected(Parent, b)
    BY <1>8 DEF PeripheralCallback, ConnectAsPeripheral, DisconnectAsPeripheral
  <2>3. \A u \in Slot : connected'[u + 2] = connected[u + 2]
    BY <2>2, SlotMarked, DeviceRanges
  <2>. QED  BY <1>6, <2>1, <2>3 DEF LiveLinks
<1>9. CASE Application
  BY <1>6, <1>9
     DEF Application, Send, Subscribe, Unsubscribe, PollRouting, PollUnrouted,
         OnlyRoutes, stack, LiveLinks
<1>10. CASE UNCHANGED vars
  BY <1>6, <1>10 DEF vars, tables, stack, LiveLinks
<1>. QED
  BY <1>1, <1>2, <1>3, <1>4, <1>5, <1>7, <1>8, <1>9, <1>10
     DEF Next, CentralCallback

\* Slots are opened in order, and each opened slot in use has a link of its
\* own that is up.
THEOREM SlotsInvariant == Spec => []SlotsInv
<1>1. TypeOK /\ SlotsInv /\ [Next]_vars => SlotsInv'
  BY SlotsInvStep
<1>. QED  BY <1>1, SlotsInvInit, TypeCorrect, PTL DEF Spec

\* The slot found for the handle of a connected device is that device's own.
THEOREM SlotServesItsLinkHolds == Spec => []SlotServesItsLink
<1>1. SlotsInv => SlotServesItsLink
  <2>. SUFFICES ASSUME SlotsInv, NEW s \in Slot, connected[s + 2]
                PROVE  handle[s] \in LiveLinks /\ FindHandle(handle[s]) = s
    BY DEF SlotServesItsLink
  <2>. PICK k \in 0 .. MaxCentral : OpenedUpTo(k)
    BY DEF SlotsInv
  <2>1. s < k /\ handle[s] \in LiveLinks /\ handle[s] # InvalidHandle
    BY DEF OpenedUpTo, Slot
  <2>2. /\ FindHandle(handle[s]) \in Slot
        /\ handle[FindHandle(handle[s])] = handle[s]
        /\ FindHandle(handle[s]) <= s
    BY FindHandleFound
  <2>3. FindHandle(handle[s]) < k
    BY <2>1, <2>2 DEF Slot
  <2>. QED  BY <2>1, <2>2, <2>3 DEF OpenedUpTo
<1>. QED  BY <1>1, SlotsInvariant, PTL

\* Only devices that begin() prepared are ever connected.
THEOREM DevicesArePreparedHolds == Spec => []DevicesArePrepared
<1>1. SlotsInv => DevicesArePrepared
  <2>. SUFFICES ASSUME SlotsInv, NEW s \in Slot, connected[s + 2]
                PROVE  s < MaxConnectionsAsCentral
    BY DEF DevicesArePrepared, ConnectedCentrals
  <2>. PICK k \in 0 .. MaxCentral : OpenedUpTo(k)
    BY DEF SlotsInv
  <2>1. s < k /\ k <= MaxConnectionsAsCentral
    BY DEF OpenedUpTo, Slot
  <2>. QED  BY <2>1, NodeAssumption, TableAssumption DEF Slot
<1>. QED  BY <1>1, SlotsInvariant, PTL

-----------------------------------------------------------------------------
(* The count of connections.                                               *)

LEMMA CentralsFinite ==
  IsFiniteSet(ConnectedCentrals) /\ Cardinality(ConnectedCentrals) \in Nat
<1>1. IsFiniteSet(Slot)
  BY TableAssumption, FS_Interval DEF Slot
<1>2. ConnectedCentrals \in SUBSET Slot
  BY DEF ConnectedCentrals
<1>. QED  BY <1>1, <1>2, FS_Subset, FS_CardinalityType

\* Every step keeps the count of central connections within those connected.
LEMMA CountInvStep ==
  ASSUME TypeOK, SlotsInv, CountInv, [Next]_vars
  PROVE  CountInv'
<1>. PICK k \in 0 .. MaxCentral : OpenedUpTo(k)
  BY DEF SlotsInv
<1>0. \A s, u \in Slot : s + 2 = u + 2 => s = u
  BY DEF Slot
<1>1. ASSUME nCentral' = nCentral, waiting' = waiting,
             \A u \in Slot : connected'[u + 2] = connected[u + 2]
      PROVE  CountInv'
  <2>1. ConnectedCentrals' = ConnectedCentrals
    BY <1>1 DEF ConnectedCentrals
  <2>. QED  BY <1>1, <2>1 DEF CountInv
<1>2. ASSUME NEW h \in Handle, NEW n \in Remote, ConnectAsCentral(h, n)
      PROVE  CountInv'
  <2>. DEFINE s == FindHandle(InvalidHandle)
  <2>1. s \in Slot /\ handle[s] = InvalidHandle
    BY <1>2, FindHandleFound DEF ConnectAsCentral
  <2>2. /\ connected' = MarkConnected(s + 2, TRUE) /\ nCentral' = nCentral
        /\ ~waiting /\ waiting'
    BY <1>2 DEF ConnectAsCentral
  <2>. HIDE DEF s
  <2>3. s \notin ConnectedCentrals
    <3>1. s < k => ~connected[s + 2]
      BY <2>1 DEF OpenedUpTo
    <3>2. s >= k => ~connected[s + 2]
      BY <2>1 DEF OpenedUpTo
    <3>. QED  BY <2>1, <3>1, <3>2 DEF ConnectedCentrals, Slot
  <2>4. ConnectedCentrals' = ConnectedCentrals \cup {s}
    <3>1. \A u \in Slot : connected'[u + 2] = IF u = s THEN TRUE ELSE connected[u + 2]
      BY <1>0, <2>1, <2>2, DeviceRanges, SlotMarked
    <3>. QED  BY <2>1, <3>1 DEF ConnectedCentrals
  <2>5. Cardinality(ConnectedCentrals') = Cardinality(ConnectedCentrals) + 1
    BY <2>3, <2>4, CentralsFinite, FS_AddElement
  <2>6. nCentral + 0 <= Cardinality(ConnectedCentrals) /\ nCentral \in Int
    BY <2>2 DEF CountInv, TypeOK
  <2>7. nCentral' + 1 <= Cardinality(ConnectedCentrals')
    BY <2>2, <2>5, <2>6, CentralsFinite
  <2>. QED  BY <2>2, <2>7 DEF CountInv
<1>3. CASE CountConnection
  <2>1. waiting /\ ~waiting' /\ nCentral' = nCentral + 1 /\ connected' = connected
    BY <1>3 DEF CountConnection
  <2>2. ConnectedCentrals' = ConnectedCentrals
    BY <2>1 DEF ConnectedCentrals
  <2>3. nCentral + 1 <= Cardinality(ConnectedCentrals) /\ nCentral \in Int
    BY <2>1 DEF CountInv, TypeOK
  <2>4. nCentral' + 0 <= Cardinality(ConnectedCentrals')
    BY <2>1, <2>2, <2>3, CentralsFinite
  <2>. QED  BY <2>1, <2>4 DEF CountInv
<1>4. ASSUME NEW h \in Handle, DisconnectAsCentral(h)
      PROVE  CountInv'
  <2>. DEFINE s == FindHandle(h)
  <2>1. s \in Slot
    BY <1>4, FindHandleFound DEF DisconnectAsCentral
  <2>2. /\ connected' = MarkConnected(s + 2, FALSE) /\ nCentral' = nCentral - 1
        /\ ~waiting /\ ~waiting'
    BY <1>4 DEF DisconnectAsCentral
  <2>. HIDE DEF s
  <2>3. ConnectedCentrals' = ConnectedCentrals \ {s}
    <3>1. \A u \in Slot : connected'[u + 2] = IF u = s THEN FALSE ELSE connected[u + 2]
      BY <1>0, <2>1, <2>2, DeviceRanges, SlotMarked
    <3>. QED  BY <2>1, <3>1 DEF ConnectedCentrals
  <2>4. /\ Cardinality(ConnectedCentrals') >= Cardinality(ConnectedCentrals) - 1
        /\ Cardinality(ConnectedCentrals') \in Int
    <3>1. CASE s \in ConnectedCentrals
      <4>1. Cardinality(ConnectedCentrals \ {s}) = Cardinality(ConnectedCentrals) - 1
        BY <3>1, CentralsFinite, FS_RemoveElement
      <4>. QED  BY <2>3, <4>1, CentralsFinite
    <3>2. CASE s \notin ConnectedCentrals
      <4>1. ConnectedCentrals' = ConnectedCentrals
        BY <2>3, <3>2
      <4>. QED  BY <4>1, CentralsFinite
    <3>. QED  BY <3>1, <3>2
  <2>5. nCentral + 0 <= Cardinality(ConnectedCentrals) /\ nCentral \in Int
    BY <2>2 DEF CountInv, TypeOK
  <2>6. nCentral' + 0 <= Cardinality(ConnectedCentrals')
    BY <2>2, <2>4, <2>5, CentralsFinite
  <2>. QED  BY <2>2, <2>6 DEF CountInv
<1>5. ASSUME NEW h \in Handle, NEW n \in Remote,
             RejectAsCentral(h, n) \/ FailToDiscover(h, n)
      PROVE  CountInv'
  BY <1>1, <1>5 DEF RejectAsCentral, FailToDiscover, tables
<1>6. ASSUME NEW h \in Handle, IgnoreDisconnect(h)
      PROVE  CountInv'
  BY <1>1, <1>6 DEF IgnoreDisconnect, tables
<1>7. CASE PeripheralCallback
  <2>1. nCentral' = nCentral /\ waiting' = waiting
    BY <1>7 DEF PeripheralCallback, ConnectAsPeripheral, DisconnectAsPeripheral
  <2>2. PICK b \in BOOLEAN : connected' = MarkConnected(Parent, b)
    BY <1>7 DEF PeripheralCallback, ConnectAsPeripheral, DisconnectAsPeripheral
  <2>3. \A u \in Slot : connected'[u + 2] = connected[u + 2]
    BY <2>2, SlotMarked, DeviceRanges
  <2>. QED  BY <1>1, <2>1, <2>3
<1>8. CASE Application
  BY <1>1, <1>8
     DEF Application, Send, Subscribe, Unsubscribe, PollRouting, PollUnrouted,
         OnlyRoutes
<1>9. CASE UNCHANGED vars
  BY <1>1, <1>9 DEF vars, tables
<1>. QED
  BY <1>2, <1>3, <1>4, <1>5, <1>6, <1>7, <1>8, <1>9 DEF Next, CentralCallback

\* The count of central connections never exceeds the devices connected,
\* whatever was refused, failed or waits in enableTXD() meanwhile.
THEOREM CountNeverOverHolds == Spec => []CountNeverOver
<1>1. Init => CountInv
  <2>. SUFFICES ASSUME Init PROVE CountInv
    OBVIOUS
  <2>1. nCentral = 0 /\ ~waiting
    BY DEF Init
  <2>. QED  BY <2>1, CentralsFinite DEF CountInv
<1>2. TypeOK /\ SlotsInv /\ CountInv /\ [Next]_vars => CountInv'
  BY CountInvStep
<1>3. TypeOK /\ CountInv => CountNeverOver
  <2>. SUFFICES ASSUME TypeOK, CountInv PROVE CountNeverOver
    OBVIOUS
  <2>1. nCentral \in Int
    BY DEF TypeOK
  <2>2. waiting => nCentral + 1 <= Cardinality(ConnectedCentrals)
    BY DEF CountInv
  <2>3. ~waiting => nCentral + 0 <= Cardinality(ConnectedCentrals)
    BY DEF CountInv
  <2>. QED  BY <2>1, <2>2, <2>3, CentralsFinite DEF CountNeverOver
<1>. QED  BY <1>1, <1>2, <1>3, TypeCorrect, SlotsInvariant, PTL DEF Spec

-----------------------------------------------------------------------------
(* The connections implement LinkTable.                                    *)

LEMMA LinksInit == Init => Links!Init
BY DeviceRanges DEF Init, Links!Init, LiveLinks

\* Every step of the node is one of LinkTable, or changes none of its links.
LEMMA LinksStep ==
  ASSUME TypeOK, SlotsInv, [Next]_vars
  PROVE  [Links!Next]_(Links!vars)
<1>. PICK k \in 0 .. MaxCentral : OpenedUpTo(k)
  BY DEF SlotsInv
<1>. DEFINE L == [s \in Slot |-> IF connected[s + 2] THEN handle[s] ELSE InvalidHandle]
<1>0. \A s, u \in Slot : s + 2 = u + 2 => s = u
  BY DEF Slot
<1>1. ASSUME NEW h \in Handle, NEW n \in Remote, LinkUp(h, n), L' = L
      PROVE  Links!Up(h)
  BY <1>1, LinkUpLinks DEF Links!Up
<1>2. \A s \in Slot : handle[s] = InvalidHandle => ~connected[s + 2]
  BY DEF OpenedUpTo, Slot
<1>3. ASSUME NEW h \in Handle, NEW n \in Remote, RejectAsCentral(h, n)
      PROVE  Links!Up(h)
  <2>1. LinkUp(h, n) /\ L' = L
    BY <1>3 DEF RejectAsCentral, tables
  <2>. QED  BY <1>1, <2>1
<1>4. ASSUME NEW h \in Handle, NEW n \in Remote, FailToDiscover(h, n)
      PROVE  Links!Up(h)
  <2>. DEFINE s == FindHandle(InvalidHandle)
  <2>1. s \in Slot /\ handle[s] = InvalidHandle
    BY <1>4, FindHandleFound DEF FailToDiscover
  <2>2. LinkUp(h, n) /\ handle' = [handle EXCEPT ![s] = h] /\ connected' = connected
    BY <1>4 DEF FailToDiscover
  <2>. HIDE DEF s
  <2>3. \A u \in Slot : connected'[u + 2] => handle'[u] = handle[u]
    <3>1. handle \in [Slot -> Handle \cup {0, InvalidHandle}]
      BY DEF TypeOK
    <3>2. \A u \in Slot : u # s => handle'[u] = handle[u]
      BY <2>2, <3>1
    <3>. QED  BY <1>2, <2>1, <2>2, <3>2
  <2>4. L' = L
    BY <2>2, <2>3
  <2>. QED  BY <1>1, <2>2, <2>4
<1>5. ASSUME NEW h \in Handle, NEW n \in Remote, ConnectAsCentral(h, n)
      PROVE  Links!Up(h)
  <2>. DEFINE s == FindHandle(InvalidHandle)
  <2>1. s \in Slot /\ handle[s] = InvalidHandle
    BY <1>5, FindHandleFound DEF ConnectAsCentral
  <2>2. /\ LinkUp(h, n) /\ handle' = [handle EXCEPT ![s] = h]
        /\ connected' = MarkConnected(s + 2, TRUE)
    BY <1>5 DEF ConnectAsCentral
  <2>. HIDE DEF s
  <2>3. \A u \in Slot : connected'[u + 2] = IF u = s THEN TRUE ELSE connected[u + 2]
    BY <1>0, <2>1, <2>2, DeviceRanges, SlotMarked
  <2>4. \A u \in Slot : handle'[u] = IF u = s THEN h ELSE handle[u]
    BY <2>2 DEF TypeOK
  <2>5. L[s] = InvalidHandle
    BY <2>1
  <2>6. L' = [L EXCEPT ![s] = h]
    BY <2>1, <2>3, <2>4
  <2>. QED  BY <2>1, <2>2, <2>5, <2>6, LinkUpLinks DEF Links!Up
<1>6. ASSUME NEW h \in Handle, IgnoreDisconnect(h)
      PROVE  Links!Down(h)
  <2>1. LinkDown(h) /\ L' = L
    BY <1>6 DEF IgnoreDisconnect, tables
  <2>2. \A u \in Slot : handle[u] # h
    BY <1>6, FindHandleFound DEF IgnoreDisconnect, Slot, NoIndex
  <2>3. \A u \in Slot : L[u] # h
    BY <2>2, HandleRange
  <2>4. L' = [u \in Slot |-> IF L[u] = h THEN InvalidHandle ELSE L[u]]
    BY <2>1, <2>3
  <2>. QED  BY <2>1, <2>4, LinkDownLinks DEF Links!Down
<1>7. ASSUME NEW h \in Handle, DisconnectAsCentral(h)
      PROVE  Links!Down(h)
  <2>. DEFINE s == FindHandle(h)
  <2>1. s \in Slot /\ handle[s] = h /\ \A u \in Slot : handle[u] = h => s <= u
    BY <1>7, FindHandleFound DEF DisconnectAsCentral
  <2>2. /\ LinkDown(h) /\ handle' = [handle EXCEPT ![s] = InvalidHandle]
        /\ connected' = MarkConnected(s + 2, FALSE)
    BY <1>7 DEF DisconnectAsCentral
  <2>. HIDE DEF s
  <2>3. \A u \in Slot : connected'[u + 2] = IF u = s THEN FALSE ELSE connected[u + 2]
    BY <1>0, <2>1, <2>2, DeviceRanges, SlotMarked
  <2>4. \A u \in Slot : handle'[u] = IF u = s THEN InvalidHandle ELSE handle[u]
    BY <2>2 DEF TypeOK
  <2>5. \A u \in Slot : u # s /\ connected[u + 2] => handle[u] # h
    <3>1. SUFFICES ASSUME NEW u \in Slot, connected[u + 2], handle[u] = h
                   PROVE  u = s
      OBVIOUS
    <3>2. u < k /\ s < k
      BY <2>1, <3>1 DEF OpenedUpTo, Slot
    <3>. QED  BY <2>1, <3>1, <3>2, HandleRange DEF OpenedUpTo
  <2>6. L' = [u \in Slot |-> IF L[u] = h THEN InvalidHandle ELSE L[u]]
    <3>1. \A u \in Slot : L'[u] = IF L[u] = h THEN InvalidHandle ELSE L[u]
      BY <2>1, <2>3, <2>4, <2>5, HandleRange
    <3>. QED  BY <3>1
  <2>. QED  BY <2>2, <2>6, LinkDownLinks DEF Links!Down
<1>8. ASSUME live' = live, handle' = handle,
             \A u \in Slot : connected'[u + 2] = connected[u + 2]
      PROVE  UNCHANGED Links!vars
  BY <1>8 DEF Links!vars, LiveLinks
<1>9. CASE CountConnection
  BY <1>8, <1>9 DEF CountConnection, stack
<1>10. CASE PeripheralCallback
  <2>1. handle' = handle /\ live' = live
    BY <1>10 DEF PeripheralCallback, ConnectAsPeripheral, DisconnectAsPeripheral
  <2>2. PICK b \in BOOLEAN : connected' = MarkConnected(Parent, b)
    BY <1>10 DEF PeripheralCallback, ConnectAsPeripheral, DisconnectAsPeripheral
  <2>3. \A u \in Slot : connected'[u + 2] = connected[u + 2]
    BY <2>2, SlotMarked, DeviceRanges
  <2>. QED  BY <1>8, <2>1, <2>3
<1>11. CASE Application
  BY <1>8, <1>11
     DEF Application, Send, Subscribe, Unsubscribe, PollRouting, PollUnrouted,
         OnlyRoutes, stack
<1>12. CASE UNCHANGED vars
  BY <1>8, <1>12 DEF vars, tables, stack
<1>. QED
  BY <1>3, <1>4, <1>5, <1>6, <1>7, <1>9, <1>10, <1>11, <1>12
     DEF Next, CentralCallback, Links!Next

\* Every step of the node is a step of LinkTable or leaves its links alone.
THEOREM LinksImplemented == Spec => LinksRefined
<1>1. TypeOK /\ SlotsInv /\ [Next]_vars => [Links!Next]_(Links!vars)
  BY LinksStep
<1>. QED
  BY <1>1, LinksInit, TypeCorrect, SlotsInvariant, PTL
     DEF Spec, LinksRefined, Links!Spec

-----------------------------------------------------------------------------
(* Routes.                                                                 *)

\* The tables and devices the steps that follow are about.
LEMMA NameRanges ==
  /\ Remote \subseteq Name /\ Wanted \subseteq Name
  /\ NullName \notin Remote /\ NoName \notin Remote
  /\ \A s \in Slot : DeviceIndex(s + 2) \in Device
  /\ Parent \in Device /\ ThisDevice \in Device /\ Parent # ThisDevice
  /\ Parent # NoIndex /\ ThisDevice # NoIndex /\ NoIndex \notin Device
BY NodeAssumption, DeviceRanges, Ranges DEF Parent, ThisDevice, NoIndex

\* A callback marks the device it is about and no other.
LEMMA ParentMarked ==
  ASSUME TypeOK, NEW d \in Device, NEW b \in BOOLEAN,
         connected' = MarkConnected(d, b)
  PROVE  \A q \in Device : connected'[q] = IF q = d THEN b ELSE connected[q]
BY DEF MarkConnected, TypeOK

\* The table after unsubscribe(): at most one name more, and routes to this
\* device fewer.
LEMMA UnsubscribeKeeps ==
  ASSUME TypeOK, NEW n \in Wanted, Unsubscribe(n)
  PROVE  /\ rt' \in Table
         /\ rt'.size >= rt.size
         /\ \A i \in InTable(rt) :
              /\ i \in InTable(rt')
              /\ rt'.name[i] = rt.name[i]
              /\ \A q \in Device \ {ThisDevice} : q \in rt.routes[i] => q \in rt'.routes[i]
         /\ \A i \in InTable(rt') : \A q \in rt'.routes[i] :
              q = ThisDevice \/ (i \in InTable(rt) /\ q \in rt.routes[i])
         /\ rt'.changed \/
              /\ InTable(rt') = InTable(rt)
              /\ \A i \in InTable(rt) : \A q \in Device \ {ThisDevice} :
                   q \in rt'.routes[i] <=> q \in rt.routes[i]
<1>. DEFINE u == AfterNameLookup(rt, n, NoIndex)
<1>0. rt \in Table /\ n \in Name
  BY NameRanges DEF TypeOK
<1>1. rt' = SetRoute(u, NameIndex(rt, n), ThisDevice, FALSE)
  BY DEF Unsubscribe
<1>2. u \in Table /\ NameIndex(rt, n) \in Entry \cup {NoIndex}
  BY <1>0, NameLookupType, NameIndexType
<1>3. /\ u.size >= rt.size
      /\ \A i \in InTable(rt) : /\ i \in InTable(u)
                                /\ u.name[i] = rt.name[i]
                                /\ rt.routes[i] \subseteq u.routes[i]
      /\ \A i \in InTable(u) : \A q \in u.routes[i] :
           q = NoIndex \/ (i \in InTable(rt) /\ q \in rt.routes[i])
  BY <1>0, LookupKeeps
<1>4. u = rt \/ u.changed
  BY <1>0, LookupFlags
<1>. HIDE DEF u
<1>5. /\ rt' \in Table
      /\ rt'.size = u.size /\ rt'.name = u.name
      /\ \A j \in Entry : \A q \in Device : q # ThisDevice =>
           (q \in rt'.routes[j] <=> q \in u.routes[j])
      /\ u.changed => rt'.changed
  BY <1>1, <1>2, NameRanges, SetRouteKeeps, SetRouteType
<1>6. InTable(rt') = InTable(u) /\ InTable(u) \subseteq Entry /\ InTable(rt) \subseteq Entry
  BY <1>0, <1>2, <1>5, InTableEntry DEF InTable
<1>7. \A i \in Entry : rt'.routes[i] \subseteq Device
  BY <1>5 DEF Table
<1>8. \A i \in InTable(rt) :
        /\ i \in InTable(rt')
        /\ rt'.name[i] = rt.name[i]
        /\ \A q \in Device \ {ThisDevice} : q \in rt.routes[i] => q \in rt'.routes[i]
  BY <1>3, <1>5, <1>6
<1>9. \A i \in InTable(rt') : \A q \in rt'.routes[i] :
        q = ThisDevice \/ (i \in InTable(rt) /\ q \in rt.routes[i])
  <2>. SUFFICES ASSUME NEW i \in InTable(rt'), NEW q \in rt'.routes[i], q # ThisDevice
                PROVE  i \in InTable(rt) /\ q \in rt.routes[i]
    OBVIOUS
  <2>1. i \in Entry /\ q \in Device /\ i \in InTable(u)
    BY <1>6, <1>7
  <2>2. q \in u.routes[i] /\ q # NoIndex
    BY <1>5, <2>1, NameRanges
  <2>. QED  BY <1>3, <2>1, <2>2
<1>10. rt'.changed \/
         /\ InTable(rt') = InTable(rt)
         /\ \A i \in InTable(rt) : \A q \in Device \ {ThisDevice} :
              q \in rt'.routes[i] <=> q \in rt.routes[i]
  <2>1. CASE u.changed
    BY <1>5, <2>1
  <2>2. CASE u = rt
    BY <1>5, <1>6, <2>2
  <2>. QED  BY <1>4, <2>1, <2>2
<1>. QED  BY <1>3, <1>5, <1>8, <1>9, <1>10

-----------------------------------------------------------------------------
(* The first entry, and the way upstream.                                  *)

\* No step takes the parent out of the first entry while it is connected.
LEMMA ParentRoutedStep ==
  ASSUME TypeOK, ParentRouted, [Next]_vars
  PROVE  ParentRouted'
<1>0. rt \in Table /\ rt.size \in Nat
  BY InTableFinite DEF TypeOK
<1>1. rt.size >= 1 => 0 \in InTable(rt)
  BY <1>0 DEF InTable
<1>2. ASSUME connected'[Parent] = connected[Parent], peer'[Parent] = peer[Parent],
             rt.size >= 1 /\ Parent \in rt.routes[0]
               => rt'.size >= 1 /\ Parent \in rt'.routes[0]
      PROVE  ParentRouted'
  BY <1>2 DEF ParentRouted
<1>3. ASSUME NEW n \in Name, NEW p \in Device \cup {NoIndex},
             rt' = AfterNameLookup(rt, n, p)
      PROVE  rt.size >= 1 /\ Parent \in rt.routes[0]
               => rt'.size >= 1 /\ Parent \in rt'.routes[0]
  <2>1. rt' \in Table
    BY <1>0, <1>3, NameLookupType
  <2>2. rt'.size >= rt.size /\ rt'.size \in Nat
    BY <1>0, <1>3, <2>1, LookupKeeps, InTableFinite
  <2>3. \A i \in InTable(rt) : rt.routes[i] \subseteq rt'.routes[i]
    BY <1>0, <1>3, LookupKeeps
  <2>. QED  BY <1>0, <1>1, <2>2, <2>3
<1>4. ASSUME NEW h \in Handle, NEW n \in Remote, ConnectAsCentral(h, n)
      PROVE  ParentRouted'
  <2>. DEFINE s == FindHandle(InvalidHandle)
  <2>1. s \in Slot
    BY <1>4, FindHandleFound DEF ConnectAsCentral
  <2>2. /\ rt' = AfterNameLookup(rt, n, DeviceIndex(s + 2))
        /\ peer' = [peer EXCEPT ![s + 2] = NamePointer(rt, n)]
        /\ connected' = MarkConnected(s + 2, TRUE)
    BY <1>4 DEF ConnectAsCentral
  <2>. HIDE DEF s
  <2>3. s + 2 \in Device /\ s + 2 # Parent /\ n \in Name
    BY <2>1, DeviceRanges, NameRanges
  <2>4. connected'[Parent] = connected[Parent] /\ peer'[Parent] = peer[Parent]
    BY <2>2, <2>3, ParentMarked, NameRanges DEF TypeOK
  <2>. QED  BY <1>2, <1>3, <2>1, <2>2, <2>3, <2>4, NameRanges
<1>5. ASSUME NEW h \in Handle, DisconnectAsCentral(h)
      PROVE  ParentRouted'
  <2>. DEFINE s == FindHandle(h)
  <2>1. s \in Slot
    BY <1>5, FindHandleFound DEF DisconnectAsCentral
  <2>2. /\ rt' = InvalidateDevice(rt, DeviceIndex(s + 2))
        /\ peer' = [peer EXCEPT ![s + 2] = NoPeer]
        /\ connected' = MarkConnected(s + 2, FALSE)
    BY <1>5 DEF DisconnectAsCentral
  <2>. HIDE DEF s
  <2>3. s + 2 \in Device /\ s + 2 # Parent /\ DeviceIndex(s + 2) # Parent
    BY <2>1, DeviceRanges
  <2>4. connected'[Parent] = connected[Parent] /\ peer'[Parent] = peer[Parent]
    BY <2>2, <2>3, ParentMarked, NameRanges DEF TypeOK
  <2>5. ASSUME rt.size >= 1, Parent \in rt.routes[0]
        PROVE  rt'.size >= 1 /\ Parent \in rt'.routes[0]
    <3>1. rt' \in Table /\ rt'.size >= 1
      BY <1>0, <2>2, <2>3, <2>5, InvalidateType, InvalidateSpares
    <3>2. 0 \in InTable(rt')
      BY <3>1, InTableFinite DEF InTable
    <3>3. rt'.routes[0] = rt.routes[0] \ {DeviceIndex(s + 2)}
      BY <1>0, <2>2, <3>2, InvalidateKeeps
    <3>. QED  BY <2>3, <2>5, <3>1, <3>3
  <2>. QED  BY <1>2, <2>4, <2>5
<1>6. ASSUME NEW n \in Remote, ConnectAsPeripheral(n)
      PROVE  ParentRouted'
  <2>1. /\ rt' = AfterNameLookup(rt, n, Parent)
        /\ peer' = [peer EXCEPT ![Parent] = NameIndex(rt, n)]
    BY <1>6 DEF ConnectAsPeripheral, NamePointer
  <2>2. peer'[Parent] = NameIndex(rt, n)
    BY <2>1, NameRanges DEF TypeOK
  <2>. QED  BY <1>0, <2>1, <2>2, LookupUpstream, NameRanges DEF ParentRouted
<1>7. CASE DisconnectAsPeripheral
  <2>1. connected'[Parent] = FALSE
    BY <1>7, ParentMarked, NameRanges DEF DisconnectAsPeripheral
  <2>. QED  BY <2>1 DEF ParentRouted
<1>8. ASSUME NEW n \in Wanted, Unsubscribe(n)
      PROVE  ParentRouted'
  <2>1. connected' = connected /\ peer' = peer
    BY <1>8 DEF Unsubscribe, OnlyRoutes
  <2>2. rt' \in Table /\ rt'.size >= rt.size /\ rt'.size \in Nat
    BY <1>8, UnsubscribeKeeps, InTableFinite
  <2>3. rt.size >= 1 /\ Parent \in rt.routes[0] => Parent \in rt'.routes[0]
    BY <1>1, <1>8, UnsubscribeKeeps, NameRanges
  <2>. QED  BY <1>0, <1>2, <2>1, <2>2, <2>3
<1>9. ASSUME NEW n \in Wanted, Send(n) \/ Subscribe(n)
      PROVE  ParentRouted'
  <2>1. PICK p \in Device \cup {NoIndex} : rt' = AfterNameLookup(rt, n, p)
    BY <1>9, NameRanges DEF Send, Subscribe
  <2>2. connected' = connected /\ peer' = peer
    BY <1>9 DEF Send, Subscribe, OnlyRoutes
  <2>. QED  BY <1>2, <1>3, <2>1, <2>2, NameRanges
<1>10. ASSUME NEW n \in Wanted, PollRouting(n)
       PROVE  ParentRouted'
  <2>1. rt' = Add(rt, n) /\ connected' = connected /\ peer' = peer
    BY <1>10 DEF PollRouting, AfterForeignPointerLookup, OnlyRoutes
  <2>2. rt' \in Table /\ rt'.size >= rt.size /\ rt'.size \in Nat
    BY <1>0, <2>1, NameRanges, AddType, AddKeeps, InTableFinite
  <2>3. rt.size >= 1 => rt'.routes[0] = rt.routes[0]
    BY <1>0, <1>1, <2>1, NameRanges, AddKeeps
  <2>. QED  BY <1>0, <1>2, <2>1, <2>2, <2>3
<1>11. CASE PollUnrouted
  <2>1. rt'.size = rt.size /\ rt'.routes = rt.routes
    BY <1>0, <1>11 DEF PollUnrouted, TakeChanged, Table
  <2>2. connected' = connected /\ peer' = peer
    BY <1>11 DEF PollUnrouted, OnlyRoutes
  <2>. QED  BY <1>2, <2>1, <2>2
<1>12. ASSUME rt' = rt, connected' = connected, peer' = peer
       PROVE  ParentRouted'
  BY <1>2, <1>12
<1>13. ASSUME NEW h \in Handle, NEW n \in Remote,
              RejectAsCentral(h, n) \/ FailToDiscover(h, n)
       PROVE  ParentRouted'
  BY <1>12, <1>13 DEF RejectAsCentral, FailToDiscover, tables
<1>14. ASSUME NEW h \in Handle, IgnoreDisconnect(h)
       PROVE  ParentRouted'
  BY <1>12, <1>14 DEF IgnoreDisconnect, tables
<1>15. CASE CountConnection
  BY <1>12, <1>15 DEF CountConnection
<1>16. CASE UNCHANGED vars
  BY <1>12, <1>16 DEF vars, tables
<1>. QED
  BY <1>4, <1>5, <1>6, <1>7, <1>8, <1>9, <1>10, <1>11, <1>13, <1>14, <1>15, <1>16
     DEF Next, CentralCallback, PeripheralCallback, Application

\* While a parent that found its way into the table is connected, the lookup
\* of "" by name stops at an entry routed through it, whatever was cut off
\* the table meanwhile.
THEOREM UpstreamFoundByNameHolds == Spec => []UpstreamFoundByName
<1>1. Init => ParentRouted
  BY DeviceRanges DEF Init, ParentRouted
<1>2. TypeOK /\ ParentRouted /\ [Next]_vars => ParentRouted'
  BY ParentRoutedStep
<1>3. TypeOK /\ ParentRouted => UpstreamFoundByName
  <2>. SUFFICES ASSUME TypeOK, ParentRouted, connected[Parent], peer[Parent] # NoIndex
                PROVE  /\ FindName(rt, NullName) # NoIndex
                       /\ Parent \in rt.routes[FindName(rt, NullName)]
    BY DEF UpstreamFoundByName
  <2>1. rt \in Table /\ rt.size \in Nat /\ rt.size >= 1 /\ Parent \in rt.routes[0]
    BY InTableFinite DEF TypeOK, ParentRouted
  <2>2. 0 \in InTable(rt) /\ rt.name[0] \in Name
    BY <2>1, Ranges DEF InTable, Table
  <2>3. 0 \in Matches(rt, NullName)
    BY <2>2, TableAssumption DEF Matches
  <2>4. FindName(rt, NullName) \in InTable(rt) /\ FindName(rt, NullName) <= 0
    BY <2>1, <2>3, FindNameFound DEF Matches
  <2>5. FindName(rt, NullName) = 0
    BY <2>1, <2>4 DEF InTable
  <2>. QED  BY <2>1, <2>5 DEF NoIndex
<1>. QED  BY <1>1, <1>2, <1>3, TypeCorrect, PTL DEF Spec

-----------------------------------------------------------------------------
(* Routes and the devices they go through.                                 *)

LEMMA ServedIsPrepared ==
  ASSUME SlotsInv, NEW s \in Slot, connected[s + 2] \/ handle[s] = InvalidHandle
  PROVE  DeviceIndex(s + 2) = s + 2
<1>. PICK k \in 0 .. MaxCentral : OpenedUpTo(k)
  BY DEF SlotsInv
<1>1. s < k /\ k <= MaxConnectionsAsCentral
  BY HandleRange DEF OpenedUpTo, Slot
<1>2. s \in Int /\ k \in Int /\ MaxConnectionsAsCentral \in Int
  BY NodeAssumption, TableAssumption DEF Slot
<1>3. s + 2 < MaxConnectionsAsCentral + 2
  BY <1>1, <1>2
<1>. QED  BY <1>3 DEF DeviceIndex

\* Every step keeps routes to devices that are connected.
LEMMA RoutesAreLiveStep ==
  ASSUME TypeOK, SlotsInv, RoutesAreLive, [Next]_vars
  PROVE  RoutesAreLive'
<1>0. rt \in Table /\ InTable(rt) \subseteq Entry
  BY InTableEntry DEF TypeOK
<1>1. ASSUME \A i \in InTable(rt') : \A q \in rt'.routes[i] :
               \/ q = ThisDevice
               \/ connected'[q]
               \/ i \in InTable(rt) /\ q \in rt.routes[i] /\ (connected[q] => connected'[q])
      PROVE  RoutesAreLive'
  BY <1>1 DEF RoutesAreLive
<1>2. ASSUME NEW n \in Name, NEW p \in Device \cup {NoIndex},
             rt' = AfterNameLookup(rt, n, p),
             p \in {ThisDevice, NoIndex} \/ connected'[p],
             \A q \in Device : connected[q] => connected'[q]
      PROVE  RoutesAreLive'
  <2>1. rt' \in Table /\ InTable(rt') \subseteq Entry
    BY <1>0, <1>2, NameLookupType, InTableEntry
  <2>2. \A i \in InTable(rt') : \A q \in rt'.routes[i] : q \in Device /\ q # NoIndex
    BY <2>1, NameRanges DEF Table
  <2>3. \A i \in InTable(rt') : \A q \in rt'.routes[i] :
          q = p \/ (i \in InTable(rt) /\ q \in rt.routes[i])
    BY <1>0, <1>2, LookupKeeps
  <2>. QED  BY <1>1, <1>2, <2>2, <2>3
<1>3. ASSUME NEW h \in Handle, NEW n \in Remote, ConnectAsCentral(h, n)
      PROVE  RoutesAreLive'
  <2>. DEFINE s == FindHandle(InvalidHandle)
  <2>1. s \in Slot /\ handle[s] = InvalidHandle
    BY <1>3, FindHandleFound DEF ConnectAsCentral
  <2>2. /\ rt' = AfterNameLookup(rt, n, DeviceIndex(s + 2))
        /\ connected' = MarkConnected(s + 2, TRUE)
    BY <1>3 DEF ConnectAsCentral
  <2>. HIDE DEF s
  <2>3. DeviceIndex(s + 2) = s + 2 /\ s + 2 \in Device /\ n \in Name
    BY <2>1, ServedIsPrepared, DeviceRanges, NameRanges
  <2>4. \A q \in Device : connected'[q] = IF q = s + 2 THEN TRUE ELSE connected[q]
    BY <2>2, <2>3, ParentMarked
  <2>. QED  BY <1>2, <2>2, <2>3, <2>4
<1>4. ASSUME NEW h \in Handle, DisconnectAsCentral(h)
      PROVE  RoutesAreLive'
  <2>. DEFINE s == FindHandle(h)
  <2>1. s \in Slot
    BY <1>4, FindHandleFound DEF DisconnectAsCentral
  <2>2. /\ rt' = InvalidateDevice(rt, DeviceIndex(s + 2))
        /\ connected' = MarkConnected(s + 2, FALSE)
    BY <1>4 DEF DisconnectAsCentral
  <2>. HIDE DEF s
  <2>3. s + 2 \in Device /\ (connected[s + 2] => DeviceIndex(s + 2) = s + 2)
    BY <2>1, ServedIsPrepared, DeviceRanges
  <2>4. \A q \in Device : connected'[q] = IF q = s + 2 THEN FALSE ELSE connected[q]
    BY <2>2, <2>3, ParentMarked
  <2>5. \A i \in InTable(rt') : i \in InTable(rt) /\
                                rt'.routes[i] = rt.routes[i] \ {DeviceIndex(s + 2)}
    BY <1>0, <2>2, InvalidateKeeps
  <2>6. \A i \in InTable(rt') : \A q \in rt'.routes[i] :
          q \in Device /\ i \in InTable(rt) /\ q \in rt.routes[i] /\ q # DeviceIndex(s + 2)
    BY <1>0, <2>5 DEF Table
  <2>. QED  BY <1>1, <2>3, <2>4, <2>6
<1>5. ASSUME NEW n \in Remote, ConnectAsPeripheral(n)
      PROVE  RoutesAreLive'
  <2>1. rt' = AfterNameLookup(rt, n, Parent) /\ connected' = MarkConnected(Parent, TRUE)
    BY <1>5 DEF ConnectAsPeripheral
  <2>2. \A q \in Device : connected'[q] = IF q = Parent THEN TRUE ELSE connected[q]
    BY <2>1, ParentMarked, NameRanges
  <2>. QED  BY <1>2, <2>1, <2>2, NameRanges
<1>6. CASE DisconnectAsPeripheral
  <2>1. rt' = InvalidateDevice(rt, Parent) /\ connected' = MarkConnected(Parent, FALSE)
    BY <1>6 DEF DisconnectAsPeripheral
  <2>2. \A q \in Device : connected'[q] = IF q = Parent THEN FALSE ELSE connected[q]
    BY <2>1, ParentMarked, NameRanges
  <2>3. \A i \in InTable(rt') : i \in InTable(rt) /\ rt'.routes[i] = rt.routes[i] \ {Parent}
    BY <1>0, <2>1, InvalidateKeeps
  <2>4. \A i \in InTable(rt') : \A q \in rt'.routes[i] :
          q \in Device /\ i \in InTable(rt) /\ q \in rt.routes[i] /\ q # Parent
    BY <1>0, <2>3 DEF Table
  <2>. QED  BY <1>1, <2>2, <2>4
<1>7. ASSUME NEW n \in Wanted, Send(n) \/ Subscribe(n)
      PROVE  RoutesAreLive'
  <2>1. PICK p \in {ThisDevice, NoIndex} : rt' = AfterNameLookup(rt, n, p)
    BY <1>7 DEF Send, Subscribe
  <2>2. connected' = connected
    BY <1>7 DEF Send, Subscribe, OnlyRoutes
  <2>. QED  BY <1>2, <2>1, <2>2, NameRanges
<1>8. ASSUME NEW n \in Wanted, Unsubscribe(n)
      PROVE  RoutesAreLive'
  <2>1. connected' = connected
    BY <1>8 DEF Unsubscribe, OnlyRoutes
  <2>2. \A i \in InTable(rt') : \A q \in rt'.routes[i] :
          q = ThisDevice \/ (i \in InTable(rt) /\ q \in rt.routes[i])
    BY <1>8, UnsubscribeKeeps
  <2>. QED  BY <1>1, <2>1, <2>2
<1>9. ASSUME NEW n \in Wanted, PollRouting(n)
      PROVE  RoutesAreLive'
  <2>1. rt' = Add(rt, n) /\ connected' = connected
    BY <1>9 DEF PollRouting, AfterForeignPointerLookup, OnlyRoutes
  <2>2. \A i \in InTable(rt') : \A q \in rt'.routes[i] :
          i \in InTable(rt) /\ q \in rt.routes[i]
    BY <1>0, <2>1, NameRanges, AddKeeps
  <2>. QED  BY <1>1, <2>1, <2>2
<1>10. ASSUME rt'.size = rt.size, rt'.routes = rt.routes, connected' = connected
       PROVE  RoutesAreLive'
  BY <1>10 DEF RoutesAreLive, InTable
<1>11. CASE PollUnrouted
  <2>1. rt'.size = rt.size /\ rt'.routes = rt.routes
    BY <1>0, <1>11 DEF PollUnrouted, TakeChanged, Table
  <2>2. connected' = connected
    BY <1>11 DEF PollUnrouted, OnlyRoutes
  <2>. QED  BY <1>10, <2>1, <2>2
<1>12. ASSUME NEW h \in Handle, NEW n \in Remote,
              RejectAsCentral(h, n) \/ FailToDiscover(h, n)
       PROVE  RoutesAreLive'
  BY <1>10, <1>12 DEF RejectAsCentral, FailToDiscover, tables
<1>13. ASSUME NEW h \in Handle, IgnoreDisconnect(h)
       PROVE  RoutesAreLive'
  BY <1>10, <1>13 DEF IgnoreDisconnect, tables
<1>14. CASE CountConnection
  BY <1>10, <1>14 DEF CountConnection
<1>15. CASE UNCHANGED vars
  BY <1>10, <1>15 DEF vars, tables
<1>. QED
  BY <1>3, <1>4, <1>5, <1>6, <1>7, <1>8, <1>9, <1>11, <1>12, <1>13, <1>14, <1>15
     DEF Next, CentralCallback, PeripheralCallback, Application

\* No route in use outlives the connection of the device it goes through.
THEOREM RoutesAreLiveHolds == Spec => []RoutesAreLive
<1>1. Init => RoutesAreLive
  <2>. SUFFICES ASSUME Init PROVE RoutesAreLive
    OBVIOUS
  <2>1. rt = InitialTable
    BY DEF Init
  <2>2. \A i \in Entry : rt.routes[i] = (CASE i = 0 -> {Parent}
                                           [] i \in {1, 2} -> {ThisDevice}
                                           [] OTHER -> {})
    BY <2>1 DEF InitialTable
  <2>3. InTable(rt) \subseteq Entry
    BY <2>1, InitialTableType, InTableEntry
  <2>. QED  BY <2>2, <2>3 DEF RoutesAreLive, SendUpstream
<1>2. TypeOK /\ SlotsInv /\ RoutesAreLive /\ [Next]_vars => RoutesAreLive'
  BY RoutesAreLiveStep
<1>. QED  BY <1>1, <1>2, TypeCorrect, SlotsInvariant, PTL DEF Spec

-----------------------------------------------------------------------------
(* Changes of routes.                                                      *)

\* While no parent is connected, only the "" of initialize() is routed to it.
LEMMA ParentUnroutedStep ==
  ASSUME TypeOK, ParentUnrouted, [Next]_vars
  PROVE  ParentUnrouted'
<1>0. rt \in Table /\ rt.size \in Nat
  BY InTableFinite DEF TypeOK
<1>1. 0 \in InTable(rt) => rt.size >= 1
  BY <1>0 DEF InTable
<1>2. ASSUME rt' \in Table,
             ~connected'[Parent] => ~connected[Parent],
             0 \in InTable(rt') /\ Parent \in rt'.routes[0]
               => 0 \in InTable(rt) /\ Parent \in rt.routes[0] /\ rt'.name[0] = rt.name[0]
      PROVE  ParentUnrouted'
  <2>1. rt'.size \in Nat
    BY <1>2, InTableFinite
  <2>2. rt'.size >= 1 => 0 \in InTable(rt')
    BY <2>1 DEF InTable
  <2>. QED  BY <1>1, <1>2, <2>2 DEF ParentUnrouted
<1>3. ASSUME NEW n \in Name, NEW p \in Device \cup {NoIndex}, p # Parent,
             rt' = AfterNameLookup(rt, n, p), connected'[Parent] = connected[Parent]
      PROVE  ParentUnrouted'
  <2>1. rt' \in Table
    BY <1>0, <1>3, NameLookupType
  <2>2. 0 \in InTable(rt') /\ Parent \in rt'.routes[0]
          => 0 \in InTable(rt) /\ Parent \in rt.routes[0] /\ rt'.name[0] = rt.name[0]
    BY <1>0, <1>3, LookupKeeps
  <2>. QED  BY <1>2, <1>3, <2>1, <2>2
<1>4. ASSUME NEW h \in Handle, NEW n \in Remote, ConnectAsCentral(h, n)
      PROVE  ParentUnrouted'
  <2>. DEFINE s == FindHandle(InvalidHandle)
  <2>1. s \in Slot
    BY <1>4, FindHandleFound DEF ConnectAsCentral
  <2>2. /\ rt' = AfterNameLookup(rt, n, DeviceIndex(s + 2))
        /\ connected' = MarkConnected(s + 2, TRUE)
    BY <1>4 DEF ConnectAsCentral
  <2>. HIDE DEF s
  <2>3. /\ s + 2 \in Device /\ s + 2 # Parent /\ n \in Name
        /\ DeviceIndex(s + 2) # Parent /\ DeviceIndex(s + 2) \in Device
    BY <2>1, DeviceRanges, NameRanges
  <2>4. connected'[Parent] = connected[Parent]
    BY <2>2, <2>3, ParentMarked, NameRanges
  <2>. QED  BY <1>3, <2>2, <2>3, <2>4
<1>5. ASSUME NEW h \in Handle, DisconnectAsCentral(h)
      PROVE  ParentUnrouted'
  <2>. DEFINE s == FindHandle(h)
  <2>1. s \in Slot
    BY <1>5, FindHandleFound DEF DisconnectAsCentral
  <2>2. /\ rt' = InvalidateDevice(rt, DeviceIndex(s + 2))
        /\ connected' = MarkConnected(s + 2, FALSE)
    BY <1>5 DEF DisconnectAsCentral
  <2>. HIDE DEF s
  <2>3. s + 2 \in Device /\ s + 2 # Parent
    BY <2>1, DeviceRanges
  <2>4. connected'[Parent] = connected[Parent]
    BY <2>2, <2>3, ParentMarked, NameRanges
  <2>5. rt' \in Table
    BY <1>0, <2>2, InvalidateType
  <2>6. rt'.name = rt.name /\ \A i \in InTable(rt') : i \in InTable(rt) /\ rt'.routes[i] \subseteq rt.routes[i]
    BY <1>0, <2>2, InvalidateKeeps
  <2>. QED  BY <1>2, <2>4, <2>5, <2>6
<1>6. ASSUME NEW n \in Remote, ConnectAsPeripheral(n)
      PROVE  ParentUnrouted'
  <2>1. connected'[Parent]
    BY <1>6, ParentMarked, NameRanges DEF ConnectAsPeripheral
  <2>. QED  BY <2>1 DEF ParentUnrouted
<1>7. CASE DisconnectAsPeripheral
  <2>1. rt' = InvalidateDevice(rt, Parent) /\ rt' \in Table
    BY <1>0, <1>7, InvalidateType DEF DisconnectAsPeripheral
  <2>2. rt'.size \in Nat /\ (rt'.size >= 1 => 0 \in InTable(rt'))
    BY <2>1, InTableFinite DEF InTable
  <2>3. 0 \in InTable(rt') => Parent \notin rt'.routes[0]
    BY <1>0, <2>1, InvalidateKeeps
  <2>. QED  BY <2>2, <2>3 DEF ParentUnrouted
<1>8. ASSUME NEW n \in Wanted, Send(n) \/ Subscribe(n)
      PROVE  ParentUnrouted'
  <2>1. PICK p \in {ThisDevice, NoIndex} : rt' = AfterNameLookup(rt, n, p)
    BY <1>8 DEF Send, Subscribe
  <2>2. connected' = connected
    BY <1>8 DEF Send, Subscribe, OnlyRoutes
  <2>. QED  BY <1>3, <2>1, <2>2, NameRanges
<1>9. ASSUME NEW n \in Wanted, Unsubscribe(n)
      PROVE  ParentUnrouted'
  <2>1. connected' = connected
    BY <1>9 DEF Unsubscribe, OnlyRoutes
  <2>. QED  BY <1>2, <1>9, <2>1, UnsubscribeKeeps, NameRanges
<1>10. ASSUME NEW n \in Wanted, PollRouting(n)
       PROVE  ParentUnrouted'
  <2>1. rt' = Add(rt, n) /\ connected' = connected
    BY <1>10 DEF PollRouting, AfterForeignPointerLookup, OnlyRoutes
  <2>2. rt' \in Table
    BY <1>0, <2>1, NameRanges, AddType
  <2>3. 0 \in InTable(rt') /\ Parent \in rt'.routes[0]
          => 0 \in InTable(rt) /\ Parent \in rt.routes[0] /\ rt'.name[0] = rt.name[0]
    BY <1>0, <2>1, NameRanges, AddKeeps
  <2>. QED  BY <1>2, <2>1, <2>2, <2>3
<1>11. ASSUME rt'.size = rt.size, rt'.routes = rt.routes, rt'.name = rt.name,
              connected' = connected
       PROVE  ParentUnrouted'
  BY <1>11 DEF ParentUnrouted
<1>12. CASE PollUnrouted
  <2>1. rt'.size = rt.size /\ rt'.routes = rt.routes /\ rt'.name = rt.name
    BY <1>0, <1>12 DEF PollUnrouted, TakeChanged, Table
  <2>2. connected' = connected
    BY <1>12 DEF PollUnrouted, OnlyRoutes
  <2>. QED  BY <1>11, <2>1, <2>2
<1>13. ASSUME NEW h \in Handle, NEW n \in Remote,
              RejectAsCentral(h, n) \/ FailToDiscover(h, n)
       PROVE  ParentUnrouted'
  BY <1>11, <1>13 DEF RejectAsCentral, FailToDiscover, tables
<1>14. ASSUME NEW h \in Handle, IgnoreDisconnect(h)
       PROVE  ParentUnrouted'
  BY <1>11, <1>14 DEF IgnoreDisconnect, tables
<1>15. CASE CountConnection
  BY <1>11, <1>15 DEF CountConnection
<1>16. CASE UNCHANGED vars
  BY <1>11, <1>16 DEF vars, tables
<1>. QED
  BY <1>4, <1>5, <1>6, <1>7, <1>8, <1>9, <1>10, <1>12, <1>13, <1>14, <1>15, <1>16
     DEF Next, CentralCallback, PeripheralCallback, Application

\* Every step keeps the device of the parent connected just while there is a parent.
LEMMA ParentLinkStep ==
  ASSUME TypeOK, ParentLink, [Next]_vars
  PROVE  ParentLink'
<1>1. ASSUME parent' = parent, connected'[Parent] = connected[Parent]
      PROVE  ParentLink'
  BY <1>1 DEF ParentLink
<1>2. ASSUME NEW s \in Slot, NEW b \in BOOLEAN, connected' = MarkConnected(s + 2, b)
      PROVE  connected'[Parent] = connected[Parent]
  BY <1>2, ParentMarked, DeviceRanges
<1>3. ASSUME NEW h \in Handle, NEW n \in Remote, ConnectAsCentral(h, n)
      PROVE  ParentLink'
  <2>. DEFINE s == FindHandle(InvalidHandle)
  <2>1. s \in Slot
    BY <1>3, FindHandleFound DEF ConnectAsCentral
  <2>2. parent' = parent /\ connected' = MarkConnected(s + 2, TRUE)
    BY <1>3 DEF ConnectAsCentral, LinkUp
  <2>. HIDE DEF s
  <2>. QED  BY <1>1, <1>2, <2>1, <2>2
<1>4. ASSUME NEW h \in Handle, DisconnectAsCentral(h)
      PROVE  ParentLink'
  <2>. DEFINE s == FindHandle(h)
  <2>1. s \in Slot
    BY <1>4, FindHandleFound DEF DisconnectAsCentral
  <2>2. parent' = parent /\ connected' = MarkConnected(s + 2, FALSE)
    BY <1>4 DEF DisconnectAsCentral, LinkDown
  <2>. HIDE DEF s
  <2>. QED  BY <1>1, <1>2, <2>1, <2>2
<1>5. ASSUME NEW n \in Remote, ConnectAsPeripheral(n)
      PROVE  ParentLink'
  <2>1. parent' = n /\ connected'[Parent]
    BY <1>5, ParentMarked, NameRanges DEF ConnectAsPeripheral
  <2>. QED  BY <2>1, NameRanges DEF ParentLink
<1>6. CASE DisconnectAsPeripheral
  <2>1. parent' = NoName /\ ~connected'[Parent]
    BY <1>6, ParentMarked, NameRanges DEF DisconnectAsPeripheral
  <2>. QED  BY <2>1 DEF ParentLink
<1>7. CASE Application
  BY <1>1, <1>7
     DEF Application, Send, Subscribe, Unsubscribe, PollRouting, PollUnrouted,
         OnlyRoutes, stack
<1>8. ASSUME NEW h \in Handle, NEW n \in Remote,
             RejectAsCentral(h, n) \/ FailToDiscover(h, n)
      PROVE  ParentLink'
  BY <1>1, <1>8 DEF RejectAsCentral, FailToDiscover, LinkUp, tables
<1>9. ASSUME NEW h \in Handle, IgnoreDisconnect(h)
      PROVE  ParentLink'
  BY <1>1, <1>9 DEF IgnoreDisconnect, LinkDown, tables
<1>10. CASE CountConnection
  BY <1>1, <1>10 DEF CountConnection, stack
<1>11. CASE UNCHANGED vars
  BY <1>1, <1>11 DEF vars, tables, stack
<1>. QED
  BY <1>3, <1>4, <1>5, <1>6, <1>7, <1>8, <1>9, <1>10, <1>11
     DEF Next, CentralCallback, PeripheralCallback

\* A step that sets no flag shows the same routes through other devices.
LEMMA ChangeFlagged ==
  ASSUME TypeOK, SlotsInv, RoutesAreLive, ParentUnrouted, ParentLink, [Next]_vars,
         NEW p \in Device, p # ThisDevice
  PROVE  rt'.changed \/ VisibleRoutes(rt', p) = VisibleRoutes(rt, p)
<1>0. rt \in Table
  BY DEF TypeOK
<1>1. rt' = rt => VisibleRoutes(rt', p) = VisibleRoutes(rt, p)
  OBVIOUS
<1>2. ASSUME NEW n \in Name, NEW d \in Device \cup {NoIndex},
             rt' = AfterNameLookup(rt, n, d),
             d # NoIndex /\ FindName(rt, n) # NoIndex => d \notin rt.routes[FindName(rt, n)]
      PROVE  rt'.changed \/ rt' = rt
  BY <1>0, <1>2, LookupFlags
<1>3. ASSUME NEW n \in Name, FindName(rt, n) # NoIndex
      PROVE  /\ FindName(rt, n) \in InTable(rt) /\ FindName(rt, n) \in Entry
             /\ <<rt.name[FindName(rt, n)], n>> \in Infix
  BY <1>0, <1>3, FindNameFound, InTableEntry DEF Matches
<1>4. ASSUME NEW h \in Handle, NEW n \in Remote, ConnectAsCentral(h, n)
      PROVE  rt'.changed \/ rt' = rt
  <2>. DEFINE s == FindHandle(InvalidHandle)
  <2>1. s \in Slot /\ handle[s] = InvalidHandle
    BY <1>4, FindHandleFound DEF ConnectAsCentral
  <2>2. rt' = AfterNameLookup(rt, n, DeviceIndex(s + 2))
    BY <1>4 DEF ConnectAsCentral
  <2>. HIDE DEF s
  <2>3. /\ DeviceIndex(s + 2) = s + 2 /\ s + 2 \in Device /\ s + 2 # Parent
        /\ s + 2 # ThisDevice /\ n \in Name
    BY <2>1, ServedIsPrepared, DeviceRanges, NameRanges DEF Slot, ThisDevice
  <2>4. ~connected[s + 2]
    BY <2>1 DEF SlotsInv, OpenedUpTo, Slot
  <2>5. \A i \in InTable(rt) : s + 2 \notin rt.routes[i]
    BY <2>3, <2>4 DEF RoutesAreLive
  <2>. QED  BY <1>2, <1>3, <2>2, <2>3, <2>5
<1>5. ASSUME NEW n \in Remote, ConnectAsPeripheral(n)
      PROVE  rt'.changed \/ rt' = rt
  <2>1. rt' = AfterNameLookup(rt, n, Parent) /\ ~connected[Parent] /\ n \in Name
    BY <1>5, NameRanges DEF ConnectAsPeripheral, ParentLink
  <2>2. ASSUME FindName(rt, n) # NoIndex, Parent \in rt.routes[FindName(rt, n)]
        PROVE  FALSE
    <3>1. FindName(rt, n) = 0 /\ 0 \in InTable(rt)
      BY <1>3, <2>1, <2>2, NameRanges DEF RoutesAreLive, SendUpstream
    <3>2. rt.size >= 1
      BY <1>0, <3>1, InTableFinite DEF InTable
    <3>3. rt.name[0] = NullName
      BY <2>1, <2>2, <3>1, <3>2 DEF ParentUnrouted
    <3>4. n = NullName
      BY <1>3, <2>1, <2>2, <3>1, <3>3, TableAssumption
    <3>. QED  BY <3>4, NameRanges
  <2>. QED  BY <1>2, <2>1, <2>2, NameRanges
<1>6. ASSUME NEW n \in Wanted, Send(n)
      PROVE  rt'.changed \/ rt' = rt
  BY <1>2, <1>6, NameRanges DEF Send
<1>7. ASSUME NEW n \in Wanted, Subscribe(n)
      PROVE  rt'.changed \/ VisibleRoutes(rt', p) = VisibleRoutes(rt, p)
  <2>1. rt' = AfterNameLookup(rt, n, ThisDevice) /\ n \in Name
    BY <1>7, NameRanges DEF Subscribe
  <2>2. CASE FindName(rt, n) = NoIndex
    BY <1>1, <1>2, <2>1, <2>2, NameRanges
  <2>3. CASE FindName(rt, n) # NoIndex
    <3>1. rt' = SetRoute(rt, FindName(rt, n), ThisDevice, TRUE)
      BY <2>1, <2>3 DEF AfterNameLookup, NameIndex
    <3>0. FindName(rt, n) \in Entry \cup {NoIndex} /\ ThisDevice \in Device \cup {NoIndex}
      BY <1>0, <1>3, <2>1, <2>3, NameRanges
    <3>4. TRUE \in BOOLEAN /\ p \in Device /\ p # ThisDevice
      BY <1>0
    <3>2. /\ rt'.size = rt.size
          /\ \A j \in Entry : p \in rt'.routes[j] <=> p \in rt.routes[j]
      BY <1>0, <3>0, <3>1, <3>4, SetRouteKeeps
    <3>3. InTable(rt') = InTable(rt) /\ InTable(rt) \subseteq Entry
      BY <1>0, <3>2, InTableEntry DEF InTable
    <3>. QED  BY <3>2, <3>3 DEF VisibleRoutes
  <2>. QED  BY <2>2, <2>3
<1>8. ASSUME NEW n \in Wanted, Unsubscribe(n)
      PROVE  rt'.changed \/ VisibleRoutes(rt', p) = VisibleRoutes(rt, p)
  <2>1. rt'.changed \/
          /\ InTable(rt') = InTable(rt)
          /\ \A i \in InTable(rt) : \A q \in Device \ {ThisDevice} :
               q \in rt'.routes[i] <=> q \in rt.routes[i]
    BY <1>8, UnsubscribeKeeps
  <2>. QED  BY <2>1 DEF VisibleRoutes
<1>9. ASSUME NEW n \in Wanted, PollRouting(n)
      PROVE  rt'.changed \/ rt' = rt
  BY <1>0, <1>9, NameRanges, AddKeeps DEF PollRouting, AfterForeignPointerLookup
<1>10. CASE PollUnrouted
  <2>1. rt'.size = rt.size /\ rt'.routes = rt.routes
    BY <1>0, <1>10 DEF PollUnrouted, TakeChanged, Table
  <2>. QED  BY <2>1 DEF VisibleRoutes, InTable
<1>11. ASSUME NEW h \in Handle, DisconnectAsCentral(h)
       PROVE  rt'.changed
  BY <1>0, <1>11, InvalidateKeeps DEF DisconnectAsCentral
<1>12. CASE DisconnectAsPeripheral
  <2>1. rt'.changed
    BY <1>0, <1>12, InvalidateKeeps DEF DisconnectAsPeripheral
  <2>. QED  BY <2>1
<1>13. ASSUME NEW h \in Handle, NEW n \in Remote,
              RejectAsCentral(h, n) \/ FailToDiscover(h, n)
       PROVE  rt' = rt
  BY <1>13 DEF RejectAsCentral, FailToDiscover, tables
<1>14. ASSUME NEW h \in Handle, IgnoreDisconnect(h)
       PROVE  rt' = rt
  BY <1>14 DEF IgnoreDisconnect, tables
<1>15. CASE CountConnection \/ UNCHANGED vars
  BY <1>1, <1>15 DEF CountConnection, vars, tables
<1>. QED
  BY <1>1, <1>4, <1>5, <1>6, <1>7, <1>8, <1>9, <1>10, <1>11, <1>12, <1>13, <1>14, <1>15
     DEF Next, CentralCallback, PeripheralCallback, Application

\* No route through another device appears or disappears without leaving the
\* flag set that makes pollRoutingMessages look at the messages again.
THEOREM RouteChangeFlaggedHolds == Spec => RouteChangeFlagged
<1>1. Init => ParentUnrouted /\ ParentLink
  <2>. SUFFICES ASSUME Init PROVE ParentUnrouted /\ ParentLink
    OBVIOUS
  <2>1. rt.name[0] = NullName
    BY Ranges DEF Init, InitialTable
  <2>2. ~connected[Parent] /\ parent = NoName
    BY DeviceRanges DEF Init
  <2>. QED  BY <2>1, <2>2 DEF ParentUnrouted, ParentLink
<1>2. TypeOK /\ ParentUnrouted /\ ParentLink /\ [Next]_vars => (ParentUnrouted /\ ParentLink)'
  BY ParentUnroutedStep, ParentLinkStep
<1>3. TypeOK /\ SlotsInv /\ RoutesAreLive /\ ParentUnrouted /\ ParentLink /\ [Next]_vars
        => [\A p \in Device \ {ThisDevice} :
              VisibleRoutes(rt, p) # VisibleRoutes(rt', p) => rt'.changed]_rt
  BY ChangeFlagged
<1>. QED
  BY <1>1, <1>2, <1>3, TypeCorrect, SlotsInvariant, RoutesAreLiveHolds, PTL
     DEF Spec, RouteChangeFlagged
\* The lookup of a name stops at an entry in use that contains it; only the
\* entry for "" keeps the route to a parent that left, and "" contains no
\* other name.
LEMMA LookupLive ==
  ASSUME TypeOK, RoutesAreLive, ParentUnrouted
  PROVE  LookupsAreLive
<1>. SUFFICES ASSUME NEW n \in Name, FindName(rt, n) # NoIndex,
                     NEW p \in rt.routes[FindName(rt, n)] \ {ThisDevice},
                     ~connected[p]
              PROVE  n = NullName /\ p = Parent
  BY DEF LookupsAreLive
<1>. DEFINE i == FindName(rt, n)
<1>1. rt \in Table
  BY DEF TypeOK
<1>2. i \in InTable(rt) /\ <<rt.name[i], n>> \in Infix
  BY <1>1, FindNameFound DEF Matches
<1>3. i = 0 /\ p = Parent
  BY <1>2 DEF RoutesAreLive, SendUpstream
<1>4. rt.size >= 1
  BY <1>1, <1>2, <1>3 DEF InTable, Table
<1>5. rt.name[0] = NullName
  BY <1>3, <1>4 DEF ParentUnrouted
<1>6. n = NullName
  BY <1>2, <1>3, <1>5, TableAssumption
<1>. QED  BY <1>3, <1>6

\* Whatever name is looked up, the devices found are connected; only the
\* lookup of "" may name a parent that left.
THEOREM LookupsAreLiveHolds == Spec => []LookupsAreLive
<1>1. Init => ParentUnrouted
  <2>. SUFFICES ASSUME Init PROVE ParentUnrouted
    OBVIOUS
  <2>1. rt.name[0] = NullName
    BY Ranges DEF Init, InitialTable
  <2>. QED  BY <2>1 DEF ParentUnrouted
<1>2. TypeOK /\ ParentUnrouted /\ [Next]_vars => ParentUnrouted'
  BY ParentUnroutedStep
<1>3. TypeOK /\ RoutesAreLive /\ ParentUnrouted => LookupsAreLive
  BY LookupLive
<1>. QED  BY <1>1, <1>2, <1>3, TypeCorrect, RoutesAreLiveHolds, PTL DEF Spec

==============================================================================
