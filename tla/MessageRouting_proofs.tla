------------------------ MODULE MessageRouting_proofs ------------------------
(* That what points into the message table stays in it, and how far behind  *)
(* its array routing writes, for every size of the table, every number of   *)
(* devices and every set of names.                                          *)
EXTENDS MessageRouting, CommonDefinitions_proofs, TLAPS, FiniteSetTheorems

\* Devices other than this one, and sets of them, are finite.
LEMMA RemoteFinite ==
  ASSUME NEW S \in SUBSET Remote
  PROVE  /\ IsFiniteSet(S)
         /\ Cardinality(S) \in Nat
         /\ Cardinality(S) <= MaxCentral + 1
<1>1. Remote = 1 .. MaxCentral + 1
  BY MessageTableAssumption DEF Remote, Device, ThisDevice
<1>2. IsFiniteSet(Remote) /\ Cardinality(Remote) = MaxCentral + 1
  <2>1. MaxCentral + 1 \in Int /\ 1 <= MaxCentral + 1 /\ 1 \in Int
    BY MessageTableAssumption
  <2>. QED  BY <1>1, <2>1, FS_Interval
<1>3. IsFiniteSet(S) /\ Cardinality(S) <= MaxCentral + 1
  BY <1>2, FS_Subset
<1>. QED  BY <1>3, FS_CardinalityType

\* The devices routing visits are those and the one behind them.
LEMMA ScannedFinite ==
  ASSUME NEW S \in SUBSET Scanned
  PROVE  /\ IsFiniteSet(S)
         /\ Cardinality(S) \in Nat
         /\ Cardinality(S) <= MaxCentral + 2
         /\ S \subseteq Int
<1>1. Scanned = 1 .. MaxCentral + 2
  BY MessageTableAssumption DEF Scanned, DeviceBehind, Remote, Device, ThisDevice
<1>2. IsFiniteSet(Scanned) /\ Cardinality(Scanned) = MaxCentral + 2
  <2>1. MaxCentral + 2 \in Int /\ 1 <= MaxCentral + 2 /\ 1 \in Int
    BY MessageTableAssumption
  <2>. QED  BY <1>1, <2>1, FS_Interval
<1>3. IsFiniteSet(S) /\ Cardinality(S) <= MaxCentral + 2
  BY <1>2, FS_Subset
<1>4. S \subseteq Int
  BY <1>1
<1>. QED  BY <1>3, <1>4, FS_CardinalityType

\* One device of those written to is not before itself: the last entry a
\* message is copied to is as many entries on as there are devices, at most.
LEMMA RankBound ==
  ASSUME NEW S \in SUBSET Scanned, NEW j \in S
  PROVE  Rank(S, j) \in 0 .. MaxCentral + 1
<1>1. {k \in S : k > j} \in SUBSET (S \ {j})
  BY ScannedFinite
<1>2. IsFiniteSet(S) /\ Cardinality(S) \in Nat /\ Cardinality(S) <= MaxCentral + 2
  BY ScannedFinite
<1>3. IsFiniteSet(S \ {j}) /\ Cardinality(S \ {j}) = Cardinality(S) - 1
  BY <1>2, FS_RemoveElement
<1>4. Rank(S, j) <= Cardinality(S \ {j})
  BY <1>1, <1>3, FS_Subset DEF Rank
<1>5. Rank(S, j) \in Nat
  BY <1>1, <1>3, FS_Subset, FS_CardinalityType DEF Rank
<1>. QED  BY <1>2, <1>3, <1>4, <1>5, MessageTableAssumption

-----------------------------------------------------------------------------
(* The operations on a table keep its type.                                 *)

Table == [entry : [Memory -> Message], size : Nat]

\* The empty table is a table.
LEMMA EmptyType == EmptyTable \in Table
BY MessageTableAssumption
   DEF EmptyTable, Table, Message, Unused, Type, Memory

\* Where there is room, the next entry is in the array.
LEMMA RoomInArray ==
  ASSUME NEW m \in Table, HasRoom(m)
  PROVE  m.size \in TableIndex /\ m.size \in Memory
BY MessageTableAssumption DEF HasRoom, Table, TableIndex, Memory

\* Putting an entry changes the place behind the last one only.
LEMMA PutType ==
  ASSUME NEW m \in Table, HasRoom(m), NEW e \in Message
  PROVE  /\ Put(m, e) \in Table
         /\ Put(m, e).size = m.size + 1
         /\ \A k \in Memory : Put(m, e).entry[k] = IF k = m.size THEN e ELSE m.entry[k]
<1>1. m.size \in Memory /\ m.size \in Nat /\ m.entry \in [Memory -> Message]
  BY RoomInArray DEF Table
<1>. QED  BY <1>1 DEF Put, Table

\* A message of this node is put as an entry.
LEMMA NewType ==
  ASSUME NEW m \in Table, HasRoom(m), NEW d \in Destination \cup {Upstream}
  PROVE  \E e \in Message : AddNew(m, d) = Put(m, e)
<1>1. m.entry[m.size] \in Message
  BY RoomInArray DEF Table
<1>2. [m.entry[m.size] EXCEPT
         !.type = "origin", !.requiresRouting = TRUE, !.from = ThisHop,
         !.to = NoHop, !.destination = d] \in Message
  BY <1>1 DEF Message, Type
<1>. QED  BY <1>2 DEF AddNew

\* A message to be received is put as an entry.
LEMMA ReserveType ==
  ASSUME NEW m \in Table, HasRoom(m), NEW h \in Peer \cup {NoHop}
  PROVE  \E e \in Message : Reserve(m, h) = Put(m, e)
<1>1. m.entry[m.size] \in Message
  BY RoomInArray DEF Table
<1>2. [m.entry[m.size] EXCEPT !.type = "none", !.from = h] \in Message
  BY <1>1 DEF Message, Type
<1>. QED  BY <1>2 DEF Reserve

\* Retiring entries gives a table of the same size.
LEMMA RetireType ==
  ASSUME NEW m \in Table, NEW I
  PROVE  Retire(m, I) \in Table /\ Retire(m, I).size = m.size
<1>1. \A e \in Message : [e EXCEPT !.type = "none"] \in Message
  BY DEF Message, Type
<1>2. /\ m = [entry |-> m.entry, size |-> m.size]
      /\ m.entry \in [Memory -> Message] /\ m.size \in Nat
  BY DEF Table
<1>3. Retire(m, I) =
        [entry |-> [k \in Memory |->
           IF k \in I THEN [m.entry[k] EXCEPT !.type = "none"] ELSE m.entry[k]],
         size |-> m.size]
  BY <1>2 DEF Retire
<1>4. [k \in Memory |-> IF k \in I THEN [m.entry[k] EXCEPT !.type = "none"]
                                    ELSE m.entry[k]] \in [Memory -> Message]
  BY <1>1, <1>2
<1>. QED  BY <1>2, <1>3, <1>4 DEF Table

\* MakeSpace, and the entries the copies leave alone.
LEMMA MakeSpaceType ==
  ASSUME NEW m \in Table, NEW i \in Nat, NEW n \in Nat
  PROVE  MakeSpace(m, i, n) \in Table /\ MakeSpace(m, i, n).size = m.size
<1>1. \A k \in Memory : i + n < k => k - n \in Memory
  BY MessageTableAssumption DEF Memory
<1>. QED  BY <1>1 DEF MakeSpace, Table

\* Copying an entry gives a table of the same size.
LEMMA CloneType ==
  ASSUME NEW m \in Table, NEW i \in Memory, NEW base, NEW to \in SUBSET Scanned,
         NEW p \in [Scanned -> Peer \cup {NoHop}]
  PROVE  Clone(m, i, base, to, p) \in Table /\ Clone(m, i, base, to, p).size = m.size
<1>1. \A j \in Scanned : SetHops(m.entry[i], p[j]) \in Message
  <2>1. m.entry[i] \in Message /\ ThisHop \in Peer \cup {ThisHop, NoHop}
    BY DEF Table
  <2>2. \A j \in Scanned : p[j] \in Peer \cup {NoHop}
    OBVIOUS
  <2>. QED  BY <2>1, <2>2 DEF SetHops, Message, Type
<1>2. \A k \in Memory : (\E j \in to : k = base + Rank(to, j)) =>
         (CHOOSE j \in to : k = base + Rank(to, j)) \in Scanned
  OBVIOUS
<1>. QED  BY <1>1, <1>2 DEF Clone, Table

-----------------------------------------------------------------------------
(* Type correctness.                                                        *)

\* The messages in the table are no fewer after one is added.
LEMMA InTableGrows ==
  ASSUME NEW m \in Table, HasRoom(m), NEW e \in Message
  PROVE  /\ InTable(m) \subseteq InTable(Put(m, e))
         /\ m.size \in InTable(Put(m, e)) /\ m.size \notin InTable(m)
<1>1. Put(m, e).size = m.size + 1 /\ m.size \in Nat
  BY PutType DEF Table
<1>. QED  BY <1>1 DEF InTable

\* A message found for a hop is in the table.
LEMMA NextInTable ==
  ASSUME NEW m \in Table, NEW h
  PROVE  NextForHop(m, h) \in InTable(m) \cup {NoIndex}
<1>. DEFINE S == {i \in InTable(m) : m.entry[i].to = h /\ m.entry[i].type = "hop"}
<1>1. m.size - 1 \in Int /\ 0 \in Int
  BY DEF Table
<1>2. IsFiniteSet(InTable(m)) /\ InTable(m) \subseteq Int
  BY <1>1, FS_Interval DEF InTable
<1>3. S \subseteq Int /\ IsFiniteSet(S) /\ S \in SUBSET InTable(m)
  BY <1>2, FS_Subset
<1>4. First(S) = NoIndex \/ First(S) \in S
  <2>. HIDE DEF S
  <2>. QED  BY <1>3, FirstFound
<1>. QED  BY <1>4 DEF NextForHop

\* The part of the type invariant that concerns one table.
Fits(m) ==
  /\ m \in Table
  /\ cursor \in InTable(m) \cup {m.size, NoIndex}
  /\ sending \in [Remote -> InTable(m) \cup {NoIndex}]
  /\ receiving \in [Remote -> InTable(m) \cup {NoIndex}]

\* Pointers into the table stay valid when an entry is put.
LEMMA PutFits ==
  ASSUME TypeOK, HasRoom(mTable), NEW e \in Message, mTable' = Put(mTable, e),
         UNCHANGED <<cursor, sending, receiving>>
  PROVE  Fits(mTable)'
<1>1. mTable \in Table
  BY DEF TypeOK, Table
<1>2. /\ InTable(mTable) \subseteq InTable(mTable')
      /\ mTable.size \in InTable(mTable')
      /\ mTable' \in Table
  BY <1>1, InTableGrows, PutType
<1>. QED  BY <1>2 DEF TypeOK, Fits

\* Pointers into the table stay valid when a message is added.
LEMMA AddFits ==
  ASSUME TypeOK, NEW d \in Destination \cup {Upstream}, AddMessage(d),
         UNCHANGED <<cursor, sending, receiving>>
  PROVE  Fits(mTable)' /\ mChanged' \in BOOLEAN
<1>1. mTable \in Table
  BY DEF TypeOK, Table
<1>2. CASE UNCHANGED <<mTable, mChanged>>
  BY <1>1, <1>2 DEF TypeOK, Fits
<1>3. CASE HasRoom(mTable) /\ mTable' = AddNew(mTable, d) /\ mChanged' = TRUE
  <2>1. PICK e \in Message : AddNew(mTable, d) = Put(mTable, e)
    BY <1>1, <1>3, NewType
  <2>. QED  BY <1>3, <2>1, PutFits
<1>. QED  BY <1>2, <1>3 DEF AddMessage

\* Pointers into the table stay valid when entries are retired.
LEMMA RetireFits ==
  ASSUME TypeOK, NEW I
  PROVE  /\ Retire(mTable, I) \in Table
         /\ Retire(mTable, I).size = mTable.size
         /\ InTable(Retire(mTable, I)) = InTable(mTable)
<1>1. mTable \in Table
  BY DEF TypeOK, Table
<1>. QED  BY <1>1, RetireType DEF InTable

\* What an entry routed leaves: either nothing is written, or the copies fit.
LEMMA RouteWrites ==
  ASSUME TypeOK, NEW routes \in SUBSET Scanned, NEW added \in BOOLEAN,
         NEW c \in Nat, RouteEntry(routes, added, c)
  PROVE  \/ mTable' = mTable /\ cursor' = NoIndex
         \/ \E n \in Nat, to \in SUBSET Scanned, base \in {cursor, cursor + 1} :
              /\ mTable.size + n + 2 <= TableCapacity
              /\ mTable' = Clone(MakeSpace(mTable, cursor, n), cursor, base, to, Hops)
              /\ cursor' \in {NoIndex, cursor + 1}
<1>. DEFINE e == mTable.entry[cursor]
            others == Others(routes, DeviceOf(e.from))
            n == EntriesRequired(e.destination, others)
            to == FanOut(e.destination, others)
            base == IF e.type = "origin" THEN cursor + 1 ELSE cursor
            fits == n > 0 /\ TableCapacity - mTable.size - n >= c + 2
<1>1. others \in SUBSET Scanned
  BY DEF Others
<1>2. to \in SUBSET Scanned
  BY <1>1 DEF FanOut
<1>3. n \in Nat
  <2>1. Cardinality(others \cap Remote) \in Nat
    BY RemoteFinite
  <2>. HIDE DEF others
  <2>. QED  BY <2>1 DEF EntriesRequired
<1>4. base \in {cursor, cursor + 1}
  OBVIOUS
<1>5. CASE ~fits
  BY <1>5 DEF RouteEntry
<1>6. CASE fits
  <2>1. mTable.size \in Nat /\ TableCapacity \in Nat
    BY MessageTableAssumption DEF TypeOK
  <2>2. mTable.size + n + 2 <= TableCapacity
    <3>. HIDE DEF n
    <3>. QED  BY <1>3, <1>6, <2>1
  <2>3. /\ mTable' = Clone(MakeSpace(mTable, cursor, n), cursor, base, to, Hops)
        /\ cursor' \in {NoIndex, cursor + 1}
    BY <1>6 DEF RouteEntry
  <2>. HIDE DEF n, to, base
  <2>. QED  BY <1>2, <1>3, <1>4, <2>2, <2>3
<1>. QED  BY <1>5, <1>6

\* Routing an entry keeps the table and the pointers into it well typed.
LEMMA RouteType ==
  ASSUME TypeOK, NEW routes \in SUBSET Scanned, NEW added \in BOOLEAN,
         NEW c \in Nat, RouteEntry(routes, added, c)
  PROVE  TypeOK'
<1>1. cursor \in InTable(mTable) /\ mTable \in Table
  BY DEF RouteEntry, TypeOK, Table
<1>2. mTable.size \in Nat /\ cursor \in Nat /\ cursor < mTable.size
  BY <1>1 DEF Table, InTable
<1>3. mTable' \in Table /\ mTable'.size = mTable.size /\ cursor' \in {NoIndex, cursor + 1, cursor}
  <2>1. CASE mTable' = mTable /\ cursor' = NoIndex
    BY <1>1, <2>1
  <2>2. ASSUME NEW n \in Nat, NEW to \in SUBSET Scanned, NEW base \in {cursor, cursor + 1},
               mTable.size + n + 2 <= TableCapacity,
               mTable' = Clone(MakeSpace(mTable, cursor, n), cursor, base, to, Hops),
               cursor' \in {NoIndex, cursor + 1}
        PROVE  mTable' \in Table /\ mTable'.size = mTable.size /\ cursor' \in {NoIndex, cursor + 1}
    <3>1. /\ MakeSpace(mTable, cursor, n) \in Table
          /\ MakeSpace(mTable, cursor, n).size = mTable.size
      BY <1>1, <1>2, MakeSpaceType
    <3>2. cursor \in Memory
      BY <1>2, <2>2, MessageTableAssumption DEF Memory
    <3>3. Hops \in [Scanned -> Peer \cup {NoHop}]
      BY DEF TypeOK, Hops
    <3>. QED  BY <2>2, <3>1, <3>2, <3>3, CloneType
  <2>. QED  BY <2>1, <2>2, RouteWrites
<1>4. InTable(mTable') = InTable(mTable)
  BY <1>3 DEF InTable
<1>5. cursor' \in InTable(mTable') \cup {mTable'.size, NoIndex}
  BY <1>1, <1>2, <1>3, <1>4 DEF InTable
<1>6. mChanged' \in BOOLEAN /\ rChanged' \in BOOLEAN /\ gChanged' \in BOOLEAN
  BY Zenon DEF RouteEntry, TypeOK
<1>7. UNCHANGED devices
  BY DEF RouteEntry
<1>. QED  BY <1>3, <1>4, <1>5, <1>6, <1>7 DEF TypeOK, Table, devices

\* What a poll of the routing table may answer, and how it may count.
LEMMA RouteCases ==
  ASSUME TypeOK, Route
  PROVE  \E routes \in SUBSET Scanned, added \in BOOLEAN, c \in Nat :
           RouteEntry(routes, added, c)
<1>1. Cardinality({d \in Remote : linked[d]}) \in Nat
  BY RemoteFinite
<1>2. 0 .. Cardinality({d \in Remote : linked[d]}) \subseteq Nat
  BY <1>1
<1>3. RoutesFor(mTable.entry[cursor].destination) \subseteq SUBSET Scanned
  <2>1. Parent \in Remote
    BY MessageTableAssumption DEF Remote, Device, Parent, ThisDevice
  <2>2. Remote \subseteq Scanned /\ DeviceBehind \in Scanned
    BY DEF Scanned
  <2>. QED  BY <2>1, <2>2 DEF RoutesFor, LiveRoutes
<1>4. SUBSET {DeviceBehind} \subseteq SUBSET Scanned
  BY DEF Scanned
<1>. QED  BY <1>2, <1>3, <1>4 DEF Route

\* Every reachable state is well typed.
THEOREM TypeCorrect == Spec => []TypeOK
<1>1. Init => TypeOK
  <2>1. InTable(EmptyTable) = {} /\ EmptyTable.size = 0
    BY DEF InTable, EmptyTable
  <2>. QED  BY <2>1, EmptyType DEF Init, TypeOK, Table, NoIndex
<1>2. ASSUME TypeOK, Next
      PROVE  TypeOK'
  <2>. USE <1>2
  <2>1. mTable \in Table
    BY DEF TypeOK, Table
  <2>2. ASSUME NEW d \in Destination, NEW b \in BOOLEAN, Send(d, b)
        PROVE  TypeOK'
    <3>1. Fits(mTable)' /\ mChanged' \in BOOLEAN
      <4>1. CASE AddMessage(d)
        BY <2>2, <4>1, AddFits DEF Send, devices
      <4>2. CASE UNCHANGED <<mTable, mChanged>>
        BY <2>2, <4>2, <2>1 DEF Send, devices, Fits, TypeOK
      <4>. QED  BY <2>2, <4>1, <4>2 DEF Send
    <3>2. rChanged' \in BOOLEAN
      BY <2>2 DEF Send, MayAddName, TypeOK
    <3>. QED  BY <2>2, <3>1, <3>2 DEF Send, devices, Fits, TypeOK, Table
  <2>3. CASE AnnounceSubscription
    <3>1. Fits(mTable)' /\ mChanged' \in BOOLEAN
      <4>1. CASE AddMessage(Upstream)
        BY <2>3, <4>1, AddFits DEF AnnounceSubscription, devices
      <4>2. CASE UNCHANGED <<mTable, mChanged>>
        BY <2>3, <4>2, <2>1 DEF AnnounceSubscription, devices, Fits, TypeOK
      <4>. QED  BY <2>3, <4>1, <4>2 DEF AnnounceSubscription
    <3>2. rChanged' \in BOOLEAN
      BY <2>3 DEF AnnounceSubscription, MayAddName, TypeOK
    <3>. QED  BY <2>3, <3>1, <3>2
           DEF AnnounceSubscription, devices, Fits, TypeOK, Table
  <2>4. CASE StartRouting
    <3>1. 0 \in InTable(mTable) \cup {mTable.size, NoIndex}
      BY <2>1 DEF Table, InTable
    <3>2. mChanged' \in BOOLEAN /\ rChanged' \in BOOLEAN /\ gChanged' \in BOOLEAN
      BY <2>4, Zenon DEF StartRouting, TypeOK
    <3>. QED  BY <2>4, <3>1, <3>2 DEF StartRouting, devices, TypeOK
  <2>5. CASE SkipEntry
    <3>1. cursor' \in InTable(mTable) \cup {mTable.size, NoIndex}
      BY <2>1, <2>5 DEF SkipEntry, TypeOK, Table, InTable
    <3>. QED  BY <2>5, <3>1 DEF SkipEntry, flags, devices, TypeOK
  <2>6. CASE Route
    BY <2>6, RouteCases, RouteType
  <2>7. ASSUME NEW d \in Remote, BeginReceive(d)
        PROVE  TypeOK'
    <3>1. PICK e \in Message : mTable' = Put(mTable, e)
      BY <2>1, <2>7, ReserveType DEF BeginReceive, TypeOK
    <3>2. /\ InTable(mTable) \subseteq InTable(mTable')
          /\ mTable.size \in InTable(mTable')
          /\ mTable' \in Table
      BY <2>1, <2>7, <3>1, InTableGrows, PutType DEF BeginReceive
    <3>. QED  BY <2>7, <3>2 DEF BeginReceive, TypeOK, Table
  <2>8. ASSUME NEW d \in Remote, EndReceive(d)
        PROVE  TypeOK'
    BY <2>8, RetireFits DEF EndReceive, flags, TypeOK, Table
  <2>9. ASSUME NEW d \in Remote, BeginSend(d)
        PROVE  TypeOK'
    BY <2>1, <2>9, NextInTable DEF BeginSend, flags, TypeOK
  <2>10. ASSUME NEW d \in Remote, EndSend(d)
         PROVE  TypeOK'
    BY <2>10, RetireFits DEF EndSend, flags, TypeOK, Table
  <2>11. ASSUME NEW d \in Remote, Disconnect(d)
         PROVE  TypeOK'
    <3>1. /\ mTable' \in Table /\ mTable'.size = mTable.size
          /\ InTable(mTable') = InTable(mTable)
      BY <2>11, RetireFits DEF Disconnect
    <3>2. peer' \in [Remote -> Peer \cup {NoHop}] /\ linked' \in [Remote -> BOOLEAN]
      BY <2>11 DEF Disconnect, TypeOK
    <3>. QED  BY <2>11, <3>1, <3>2 DEF Disconnect, TypeOK, Table
  <2>12. ASSUME NEW d \in Remote, NEW h \in Peer, ConnectChild(d, h)
         PROVE  TypeOK'
    <3>1. /\ mTable' \in Table /\ mTable'.size = mTable.size
          /\ InTable(mTable') = InTable(mTable)
      BY <2>12, RetireFits DEF ConnectChild
    <3>2. rChanged' \in BOOLEAN
      BY <2>12 DEF ConnectChild, MayAddName, TypeOK
    <3>. QED  BY <2>12, <3>1, <3>2 DEF ConnectChild, TypeOK, Table
  <2>13. ASSUME NEW h \in Peer, ConnectParent(h)
         PROVE  TypeOK'
    <3>1. Fits(mTable)' /\ mChanged' \in BOOLEAN
      BY <2>13, AddFits DEF ConnectParent
    <3>2. rChanged' \in BOOLEAN
      BY <2>13 DEF ConnectParent, MayAddName, TypeOK
    <3>. QED  BY <2>13, <3>1, <3>2 DEF ConnectParent, Fits, TypeOK, Table
  <2>. QED  BY <2>2, <2>3, <2>4, <2>5, <2>6, <2>7, <2>8, <2>9, <2>10, <2>11,
               <2>12, <2>13 DEF Next
<1>3. TypeOK /\ UNCHANGED vars => TypeOK'
  BY DEF vars, flags, devices, TypeOK
<1>. QED  BY <1>1, <1>2, <1>3, PTL DEF Spec

-----------------------------------------------------------------------------
(* One entry behind the array is written, and no more.                      *)

\* The second entry behind the array.
Last == TableCapacity + 1

\* AtMostOneBehind and RoomKeptBack of a table: the room kept back is what
\* bounds the writes of routing.
Kept(m) ==
  /\ m.size > 0 => m.size + MaxCentral + 1 <= TableCapacity
  /\ m.entry[Last] = Unused(Last)

\* Kept states both what is not written and that room is kept back.
LEMMA KeptMeans ==
  (AtMostOneBehind /\ RoomKeptBack) <=> Kept(mTable)
<1>1. \A k \in Memory : k > TableCapacity <=> k = Last
  BY MessageTableAssumption DEF Memory, Last
<1>2. Last \in Memory
  BY MessageTableAssumption DEF Memory, Last
<1>. QED  BY <1>1, <1>2 DEF AtMostOneBehind, RoomKeptBack, Kept

\* Nothing has been written behind the array of an empty table.
LEMMA KeptEmpty == Kept(EmptyTable)
<1>1. Last \in Memory
  BY MessageTableAssumption DEF Memory, Last
<1>. QED  BY <1>1 DEF Kept, EmptyTable

\* A message is added where one to every device still fits.
LEMMA KeptPut ==
  ASSUME NEW m \in Table, HasRoom(m), Kept(m), NEW e \in Message
  PROVE  Kept(Put(m, e))
<1>1. Last \in Memory /\ Last # m.size
  BY RoomInArray, MessageTableAssumption DEF Memory, TableIndex, Last
<1>2. /\ Put(m, e).size = m.size + 1
      /\ Put(m, e).entry[Last] = m.entry[Last]
  BY <1>1, PutType
<1>3. m.size + 1 + MaxCentral + 1 <= TableCapacity
  BY MessageTableAssumption DEF HasRoom, Table
<1>. QED  BY <1>2, <1>3 DEF Kept

\* Adding a message keeps the room for routing.
LEMMA KeptAdd ==
  ASSUME TypeOK, Kept(mTable), NEW d \in Destination \cup {Upstream}, AddMessage(d)
  PROVE  Kept(mTable)'
<1>1. CASE UNCHANGED <<mTable, mChanged>>
  BY <1>1 DEF Kept
<1>2. CASE HasRoom(mTable) /\ mTable' = AddNew(mTable, d) /\ mChanged' = TRUE
  <2>1. mTable \in Table
    BY DEF TypeOK, Table
  <2>2. PICK e \in Message : AddNew(mTable, d) = Put(mTable, e)
    BY <1>2, <2>1, NewType
  <2>3. Kept(Put(mTable, e))
    BY <1>2, <2>1, KeptPut
  <2>. QED  BY <1>2, <2>2, <2>3
<1>. QED  BY <1>1, <1>2 DEF AddMessage

\* Devices let go only of entries in the table.
LEMMA KeptRetire ==
  ASSUME NEW m \in Table, Kept(m), NEW I, I \subseteq InTable(m) \cup {NoIndex}
  PROVE  Kept(Retire(m, I))
<1>1. Last \in Memory /\ Last \notin I
  <2>1. \A k \in InTable(m) : k < TableCapacity
    BY MessageTableAssumption DEF Kept, Table, InTable
  <2>. QED  BY <2>1, MessageTableAssumption DEF Memory, NoIndex, Last
<1>2. Retire(m, I).entry[Last] = m.entry[Last]
  BY <1>1 DEF Retire, Table
<1>3. Retire(m, I).size = m.size
  BY RetireType
<1>. QED  BY <1>2, <1>3 DEF Kept

\* The entries moved up end below the capacity by the test before; the copies
\* by the room kept back, whatever number of connections that test used.
LEMMA KeptRoute ==
  ASSUME TypeOK, Kept(mTable), NEW routes \in SUBSET Scanned, NEW added \in BOOLEAN,
         NEW c \in Nat, RouteEntry(routes, added, c)
  PROVE  Kept(mTable)'
<1>1. mTable \in Table /\ cursor \in InTable(mTable)
  BY DEF RouteEntry, TypeOK, Table
<1>2. mTable.size \in Nat /\ cursor \in Nat /\ cursor + 1 <= mTable.size
  BY <1>1 DEF Table, InTable
<1>3. mTable.size + MaxCentral + 1 <= TableCapacity
  BY <1>2 DEF Kept
<1>4. CASE mTable' = mTable
  BY <1>4 DEF Kept
<1>5. ASSUME NEW n \in Nat, NEW to \in SUBSET Scanned, NEW base \in {cursor, cursor + 1},
             mTable.size + n + 2 <= TableCapacity,
             mTable' = Clone(MakeSpace(mTable, cursor, n), cursor, base, to, Hops)
      PROVE  Kept(mTable)'
  <2>. DEFINE moved == MakeSpace(mTable, cursor, n)
  <2>1. Last \in Memory /\ cursor \in Memory
    BY <1>2, <1>3, MessageTableAssumption DEF Memory, Last
  <2>2. moved \in Table /\ moved.size = mTable.size
    BY <1>1, <1>2, MakeSpaceType
  <2>3. moved.entry[Last] = mTable.entry[Last]
    <3>1. ~(Last < mTable.size + n)
      BY <1>2, <1>5, MessageTableAssumption DEF Last
    <3>. QED  BY <1>1, <2>1, <3>1 DEF MakeSpace, Table
  <2>. HIDE DEF moved
  <2>4. \A j \in to : Last # base + Rank(to, j)
    <3>1. \A j \in to : Rank(to, j) \in 0 .. MaxCentral + 1
      BY RankBound
    <3>. QED  BY <1>2, <1>3, <3>1, MessageTableAssumption DEF Last
  <2>5. /\ Clone(moved, cursor, base, to, Hops).entry[Last] = moved.entry[Last]
        /\ Clone(moved, cursor, base, to, Hops).size = moved.size
    BY <2>1, <2>2, <2>4 DEF Clone, Table
  <2>6. mTable' = Clone(moved, cursor, base, to, Hops)
    BY <1>5 DEF moved
  <2>. QED  BY <2>2, <2>3, <2>5, <2>6 DEF Kept
<1>. QED  BY <1>4, <1>5, RouteWrites

\* Routing writes at most one entry behind the array: the room kept back
\* whenever the table is not empty is for one entry less than it writes.
THEOREM AtMostOneBehindHolds == Spec => [](AtMostOneBehind /\ RoomKeptBack)
<1>1. Init => Kept(mTable)
  BY KeptEmpty DEF Init
<1>2. ASSUME TypeOK, Kept(mTable), Next
      PROVE  Kept(mTable)'
  <2>. USE <1>2
  <2>1. mTable \in Table
    BY DEF TypeOK, Table
  <2>2. \A d \in Remote : sending[d] \in InTable(mTable) \cup {NoIndex}
                          /\ receiving[d] \in InTable(mTable) \cup {NoIndex}
    BY DEF TypeOK
  <2>3. ASSUME NEW d \in Destination, NEW b \in BOOLEAN, Send(d, b)
        PROVE  Kept(mTable)'
    <3>1. CASE AddMessage(d)
      BY <3>1, KeptAdd
    <3>2. CASE UNCHANGED <<mTable, mChanged>>
      BY <3>2 DEF Kept
    <3>. QED  BY <2>3, <3>1, <3>2 DEF Send
  <2>4. CASE AnnounceSubscription
    <3>1. CASE AddMessage(Upstream)
      BY <3>1, KeptAdd
    <3>2. CASE UNCHANGED <<mTable, mChanged>>
      BY <3>2 DEF Kept
    <3>. QED  BY <2>4, <3>1, <3>2 DEF AnnounceSubscription
  <2>5. CASE StartRouting \/ SkipEntry
    BY <2>5 DEF StartRouting, SkipEntry, Kept
  <2>6. CASE Route
    BY <2>6, RouteCases, KeptRoute
  <2>7. ASSUME NEW d \in Remote, BeginReceive(d)
        PROVE  Kept(mTable)'
    <3>1. PICK e \in Message : mTable' = Put(mTable, e)
      BY <2>1, <2>7, ReserveType DEF BeginReceive, TypeOK
    <3>2. Kept(Put(mTable, e))
      BY <2>1, <2>7, KeptPut DEF BeginReceive
    <3>. QED  BY <3>1, <3>2
  <2>8. ASSUME NEW d \in Remote, NEW I \in SUBSET {sending[d], receiving[d]},
               mTable' = Retire(mTable, I)
        PROVE  Kept(mTable)'
    <3>1. Kept(Retire(mTable, I))
      BY <2>1, <2>2, <2>8, KeptRetire
    <3>. QED  BY <2>8, <3>1
  <2>9. ASSUME NEW d \in Remote, EndReceive(d) \/ EndSend(d) \/ Disconnect(d)
        PROVE  Kept(mTable)'
    BY <2>8, <2>9 DEF EndReceive, EndSend, Disconnect
  <2>10. ASSUME NEW d \in Remote, BeginSend(d)
         PROVE  Kept(mTable)'
    BY <2>10 DEF BeginSend, Kept
  <2>11. ASSUME NEW d \in Remote, NEW h \in Peer, ConnectChild(d, h)
         PROVE  Kept(mTable)'
    BY <2>8, <2>11 DEF ConnectChild
  <2>12. ASSUME NEW h \in Peer, ConnectParent(h)
         PROVE  Kept(mTable)'
    BY <2>12, KeptAdd DEF ConnectParent
  <2>. QED  BY <2>3, <2>4, <2>5, <2>6, <2>7, <2>9, <2>10, <2>11, <2>12 DEF Next
<1>3. Kept(mTable) /\ UNCHANGED vars => Kept(mTable)'
  BY DEF vars, Kept
<1>4. Spec => []Kept(mTable)
  BY <1>1, <1>2, <1>3, TypeCorrect, PTL DEF Spec
<1>. QED  BY <1>4, KeptMeans, PTL

=============================================================================
