------------------------- MODULE RoutingTable_proofs -------------------------
(* Lemmas about the operators of RoutingTable, for every capacity, every    *)
(* number of devices and every relation Infix the assumption allows.        *)
EXTENDS RoutingTable, CommonDefinitions_proofs, TLAPS, FiniteSetTheorems

\* The entries of initialize() and the two special devices are in range.
LEMMA Ranges ==
  /\ {0, 1, 2, 3} \subseteq Entry
  /\ {0, 1} \subseteq Device
  /\ SendToAll \in Entry /\ SendUpstream \in Entry
  /\ NoIndex \notin Entry /\ NoIndex \notin Device
BY TableAssumption DEF Entry, Device, SendToAll, SendUpstream, NoIndex

\* A table has finitely many entries, as many as its fill level.
LEMMA InTableFinite ==
  ASSUME NEW t \in Table
  PROVE  /\ t.size \in Nat
         /\ IsFiniteSet(InTable(t))
         /\ Cardinality(InTable(t)) = t.size
<1>1. t.size \in Nat
  BY TableAssumption DEF Table
<1>2. InTable(t) = 0 .. t.size - 1 /\ t.size - 1 \in Int
  BY <1>1 DEF InTable
<1>3. /\ IsFiniteSet(0 .. t.size - 1)
      /\ Cardinality(0 .. t.size - 1) =
           IF 0 > t.size - 1 THEN 0 ELSE t.size - 1 - 0 + 1
  BY <1>2, FS_Interval
<1>. QED  BY <1>1, <1>2, <1>3

\* The search for a name gives its first match, or none.
LEMMA FindNameFound ==
  ASSUME NEW t \in Table, NEW n
  PROVE  \/ Matches(t, n) = {} /\ FindName(t, n) = NoIndex
         \/ /\ FindName(t, n) \in Matches(t, n)
            /\ \A j \in Matches(t, n) : FindName(t, n) <= j
<1>1. Matches(t, n) \subseteq InTable(t) /\ InTable(t) \subseteq Int
  BY DEF Matches, InTable
<1>2. IsFiniteSet(InTable(t)) /\ IsFiniteSet(Matches(t, n))
  BY <1>1, InTableFinite, FS_Subset
<1>. QED  BY <1>1, <1>2, FirstFound DEF FindName

\* The entries in use are in the array.
LEMMA InTableEntry ==
  ASSUME NEW t \in Table
  PROVE  InTable(t) \subseteq Entry
BY TableAssumption DEF InTable, Table, Entry

\* The table of initialize() is a table.
LEMMA InitialTableType == InitialTable \in Table
<1>1. InitialTable.name \in [Entry -> Name]
  BY TableAssumption DEF InitialTable
<1>2. InitialTable.routes \in [Entry -> SUBSET Device]
  BY Ranges DEF InitialTable, Parent, ThisDevice
<1>3. InitialTable.size \in 0 .. Capacity - 1
  BY TableAssumption DEF InitialTable
<1>. QED  BY <1>1, <1>2, <1>3 DEF InitialTable, Table

\* Adding a name writes within the array.
LEMMA AddType ==
  ASSUME NEW t \in Table, NEW n \in Name
  PROVE  /\ Add(t, n) \in Table
         /\ AddedIndex(t) \in Entry \cup {NoIndex}
<1>1. CASE IsFull(t)
  BY <1>1 DEF Add, AddedIndex
<1>2. CASE ~IsFull(t)
  <2>1. t.size \in Entry /\ t.size + 1 \in 0 .. Capacity - 1
    BY <1>2, TableAssumption DEF Table, IsFull, Entry
  <2>. QED  BY <1>2, <2>1 DEF Add, AddedIndex, Table
<1>. QED  BY <1>1, <1>2

\* A lookup gives an entry or none.
LEMMA NameIndexType ==
  ASSUME NEW t \in Table, NEW n \in Name
  PROVE  NameIndex(t, n) \in Entry \cup {NoIndex}
BY FindNameFound, InTableEntry, AddType DEF NameIndex, Matches

\* Setting a route gives a table.
LEMMA SetRouteType ==
  ASSUME NEW t \in Table, NEW i, NEW p \in Device \cup {NoIndex},
         NEW b \in BOOLEAN
  PROVE  SetRoute(t, i, p, b) \in Table
<1>1. CASE i = NoIndex \/ p = NoIndex \/ p >= MaxCentral + 2
  BY <1>1 DEF SetRoute
<1>2. CASE ~(i = NoIndex \/ p = NoIndex \/ p >= MaxCentral + 2)
  <2>. DEFINE R == [j \in Entry |->
                     CASE j \notin RoutedEntries(i, p) -> t.routes[j]
                       [] b  /\ j \in RoutedEntries(i, p) -> t.routes[j] \cup {p}
                       [] ~b /\ j \in RoutedEntries(i, p) -> t.routes[j] \ {p}]
              C == t.changed \/ ((p \in t.routes[i]) # b)
  <2>1. p \in Device
    BY <1>2
  <2>2. \A j \in Entry : t.routes[j] \in SUBSET Device
    BY DEF Table
  <2>3. R \in [Entry -> SUBSET Device]
    BY <2>1, <2>2
  <2>4. C \in BOOLEAN
    OBVIOUS
  <2>5. SetRoute(t, i, p, b) = [t EXCEPT !.changed = C, !.routes = R]
    BY <1>2 DEF SetRoute
  <2>. HIDE DEF R, C
  <2>. QED  BY <2>3, <2>4, <2>5 DEF Table
<1>. QED  BY <1>1, <1>2

\* A lookup by name gives a table.
LEMMA NameLookupType ==
  ASSUME NEW t \in Table, NEW n \in Name, NEW p \in Device \cup {NoIndex}
  PROVE  AfterNameLookup(t, n, p) \in Table
BY AddType, SetRouteType DEF AfterNameLookup

\* Entries without a device keep their other routes.
LEMMA WithoutDeviceType ==
  ASSUME NEW t \in Table, NEW p
  PROVE  WithoutDevice(t, p) \in [Entry -> SUBSET Device]
BY DEF WithoutDevice, Table

\* optimizeRoutingTable takes no more entries off the table than it has.
LEMMA UnreachableBound ==
  ASSUME NEW t \in Table, NEW p
  PROVE  /\ IsFiniteSet(Unreachable(t, p))
         /\ Cardinality(Unreachable(t, p)) \in 0 .. t.size
<1>1. Unreachable(t, p) \in SUBSET InTable(t)
  BY DEF Unreachable
<1>. QED  BY <1>1, InTableFinite, FS_Subset, FS_CardinalityType

\* Invalidating the routes of a device gives a table.
LEMMA InvalidateType ==
  ASSUME NEW t \in Table, NEW p
  PROVE  InvalidateDevice(t, p) \in Table
<1>1. t.size - Cardinality(Unreachable(t, p)) \in 0 .. Capacity - 1
  BY UnreachableBound, TableAssumption DEF Table
<1>. QED  BY <1>1, WithoutDeviceType DEF InvalidateDevice, Table

-----------------------------------------------------------------------------
(* What the operations keep, set and announce.                             *)

LEMMA AddKeeps ==
  ASSUME NEW t \in Table, NEW n \in Name
  PROVE  /\ Add(t, n).size >= t.size
         /\ \A i \in InTable(t) : /\ i \in InTable(Add(t, n))
                                  /\ Add(t, n).name[i] = t.name[i]
                                  /\ Add(t, n).routes[i] = t.routes[i]
         /\ \A i \in InTable(Add(t, n)) \ InTable(t) : Add(t, n).routes[i] = {}
         /\ Add(t, n) = t \/ Add(t, n).changed
<1>0. t.size \in Nat
  BY InTableFinite
<1>1. CASE IsFull(t)
  BY <1>0, <1>1 DEF Add
<1>2. CASE ~IsFull(t)
  <2>1. t.size \in Entry
    BY <1>0, <1>2, TableAssumption DEF IsFull, Entry
  <2>2. /\ Add(t, n).size = t.size + 1 /\ Add(t, n).changed
        /\ Add(t, n).name = [t.name EXCEPT ![t.size] = n]
        /\ Add(t, n).routes = [t.routes EXCEPT ![t.size] = {}]
    BY <1>2 DEF Add, Table
  <2>3. \A i \in InTable(t) : i \in Entry /\ i # t.size /\ i \in 0 .. t.size
    BY <1>0, InTableEntry DEF InTable
  <2>4. InTable(Add(t, n)) = 0 .. t.size
    BY <1>0, <2>2 DEF InTable
  <2>5. \A i \in 0 .. t.size : i \notin InTable(t) => i = t.size
    BY <1>0 DEF InTable
  <2>6. \A i \in InTable(t) : /\ Add(t, n).name[i] = t.name[i]
                              /\ Add(t, n).routes[i] = t.routes[i]
    BY <2>2, <2>3 DEF Table
  <2>7. Add(t, n).routes[t.size] = {}
    BY <2>1, <2>2 DEF Table
  <2>. QED  BY <1>0, <2>2, <2>3, <2>4, <2>5, <2>6, <2>7
<1>. QED  BY <1>1, <1>2

\* Setting a route touches no name and no other device's routes.
LEMMA SetRouteKeeps ==
  ASSUME NEW t \in Table, NEW i \in Entry \cup {NoIndex},
         NEW p \in Device \cup {NoIndex}, NEW b \in BOOLEAN
  PROVE  /\ SetRoute(t, i, p, b).size = t.size
         /\ SetRoute(t, i, p, b).name = t.name
         /\ \A j \in Entry : \A q \in Device : q # p =>
              (q \in SetRoute(t, i, p, b).routes[j] <=> q \in t.routes[j])
         /\ t.changed => SetRoute(t, i, p, b).changed
         /\ b => \A j \in Entry : t.routes[j] \subseteq SetRoute(t, i, p, b).routes[j]
<1>1. CASE i = NoIndex \/ p = NoIndex \/ p >= MaxCentral + 2
  BY <1>1 DEF SetRoute
<1>2. CASE ~(i = NoIndex \/ p = NoIndex \/ p >= MaxCentral + 2)
  <2>1. /\ SetRoute(t, i, p, b).size = t.size
        /\ SetRoute(t, i, p, b).name = t.name
        /\ t.changed => SetRoute(t, i, p, b).changed
    BY <1>2 DEF SetRoute, Table
  <2>2. SetRoute(t, i, p, b).routes =
          [j \in Entry |->
            CASE j \notin RoutedEntries(i, p) -> t.routes[j]
              [] b  /\ j \in RoutedEntries(i, p) -> t.routes[j] \cup {p}
              [] ~b /\ j \in RoutedEntries(i, p) -> t.routes[j] \ {p}]
    BY <1>2 DEF SetRoute, Table
  <2>3. \A j \in Entry : SetRoute(t, i, p, b).routes[j] =
          IF j \notin RoutedEntries(i, p) THEN t.routes[j]
          ELSE IF b THEN t.routes[j] \cup {p} ELSE t.routes[j] \ {p}
    BY <2>2
  <2>. QED  BY <2>1, <2>3
<1>. QED  BY <1>1, <1>2

\* The route set is the one asked for, "*" has it too, and "" if it goes up.
LEMMA SetRouteSets ==
  ASSUME NEW t \in Table, NEW i \in Entry, NEW p \in Device
  PROVE  /\ \A j \in RoutedEntries(i, p) : p \in SetRoute(t, i, p, TRUE).routes[j]
         /\ p \notin t.routes[i] => SetRoute(t, i, p, TRUE).changed
<1>1. ~(i = NoIndex \/ p = NoIndex \/ p >= MaxCentral + 2)
  BY Ranges, TableAssumption DEF Device, NoIndex, Entry
<1>2. RoutedEntries(i, p) \subseteq Entry
  BY Ranges DEF RoutedEntries
<1>3. \A j \in RoutedEntries(i, p) :
        SetRoute(t, i, p, TRUE).routes[j] = t.routes[j] \cup {p}
  BY <1>1, <1>2 DEF SetRoute, Table
<1>4. p \notin t.routes[i] => SetRoute(t, i, p, TRUE).changed
  BY <1>1 DEF SetRoute, Table
<1>. QED  BY <1>3, <1>4

\* An entry that a lookup gives lies in a table that is not empty.
LEMMA NameIndexInTable ==
  ASSUME NEW t \in Table, NEW n \in Name, NameIndex(t, n) # NoIndex
  PROVE  LET u == IF FindName(t, n) # NoIndex THEN t ELSE Add(t, n) IN
         u.size >= 1 /\ NameIndex(t, n) \in Entry
<1>0. t.size \in Nat
  BY InTableFinite
<1>1. CASE FindName(t, n) # NoIndex
  <2>1. FindName(t, n) \in InTable(t)
    BY <1>1, FindNameFound DEF Matches
  <2>. QED  BY <1>0, <1>1, <2>1, InTableEntry DEF NameIndex, InTable
<1>2. CASE FindName(t, n) = NoIndex
  <2>1. ~IsFull(t) /\ NameIndex(t, n) = t.size
    BY <1>2 DEF NameIndex, AddedIndex
  <2>2. Add(t, n).size = t.size + 1
    BY <2>1 DEF Add, Table
  <2>3. t.size \in Entry
    BY <1>0, <2>1, TableAssumption DEF IsFull, Entry
  <2>. QED  BY <1>0, <1>2, <2>1, <2>2, <2>3
<1>. QED  BY <1>1, <1>2

\* A lookup only adds to the table, and only the route asked for.
LEMMA LookupKeeps ==
  ASSUME NEW t \in Table, NEW n \in Name, NEW p \in Device \cup {NoIndex}
  PROVE  LET u == AfterNameLookup(t, n, p) IN
         /\ u.size >= t.size
         /\ \A i \in InTable(t) : /\ i \in InTable(u)
                                  /\ u.name[i] = t.name[i]
                                  /\ t.routes[i] \subseteq u.routes[i]
         /\ \A i \in InTable(u) : \A q \in u.routes[i] :
              q = p \/ (i \in InTable(t) /\ q \in t.routes[i])
<1>. DEFINE v == IF FindName(t, n) # NoIndex THEN t ELSE Add(t, n)
            u == AfterNameLookup(t, n, p)
<1>1. v \in Table /\ NameIndex(t, n) \in Entry \cup {NoIndex}
  BY AddType, NameIndexType
<1>2. u = SetRoute(v, NameIndex(t, n), p, TRUE) /\ u \in Table
  BY NameLookupType DEF AfterNameLookup
<1>3. t.size \in Nat
  BY InTableFinite
<1>4. /\ v.size >= t.size
      /\ \A i \in InTable(t) : /\ i \in InTable(v)
                               /\ v.name[i] = t.name[i]
                               /\ v.routes[i] = t.routes[i]
      /\ \A i \in InTable(v) \ InTable(t) : v.routes[i] = {}
  BY <1>3, AddKeeps
<1>. HIDE DEF v, u
<1>5. /\ u.size = v.size /\ u.name = v.name
      /\ \A j \in Entry : \A q \in Device : q # p => (q \in u.routes[j] <=> q \in v.routes[j])
      /\ \A j \in Entry : v.routes[j] \subseteq u.routes[j]
  BY <1>1, <1>2, SetRouteKeeps
<1>6. InTable(u) = InTable(v) /\ InTable(v) \subseteq Entry /\ InTable(t) \subseteq Entry
  BY <1>1, <1>5, InTableEntry DEF InTable
<1>7. \A i \in Entry : u.routes[i] \subseteq Device
  BY <1>2 DEF Table
<1>8. ASSUME NEW i \in InTable(u), NEW q \in u.routes[i], q # p
      PROVE  i \in InTable(t) /\ q \in t.routes[i]
  <2>1. i \in Entry /\ q \in Device /\ i \in InTable(v)
    BY <1>6, <1>7
  <2>2. q \in v.routes[i]
    BY <1>5, <1>8, <2>1
  <2>. QED  BY <1>4, <2>1, <2>2
<1>9. \A i \in InTable(t) : /\ i \in InTable(u)
                            /\ u.name[i] = t.name[i]
                            /\ t.routes[i] \subseteq u.routes[i]
  BY <1>4, <1>5, <1>6
<1>. QED  BY <1>4, <1>5, <1>8, <1>9 DEF u

\* A lookup for the parent leaves the first entry routed through it, unless
\* the name found no place.
LEMMA LookupUpstream ==
  ASSUME NEW t \in Table, NEW n \in Name, NameIndex(t, n) # NoIndex
  PROVE  LET u == AfterNameLookup(t, n, Parent) IN
         u.size >= 1 /\ Parent \in u.routes[0]
<1>. DEFINE v == IF FindName(t, n) # NoIndex THEN t ELSE Add(t, n)
<1>1. v \in Table /\ v.size >= 1 /\ NameIndex(t, n) \in Entry
  BY AddType, NameIndexInTable
<1>2. AfterNameLookup(t, n, Parent) = SetRoute(v, NameIndex(t, n), Parent, TRUE)
  BY DEF AfterNameLookup
<1>. HIDE DEF v
<1>3. Parent \in Device /\ 0 \in RoutedEntries(NameIndex(t, n), Parent)
  BY Ranges DEF RoutedEntries, Parent, SendUpstream
<1>4. SetRoute(v, NameIndex(t, n), Parent, TRUE).size = v.size
  BY <1>1, <1>3, SetRouteKeeps
<1>. QED  BY <1>1, <1>2, <1>3, <1>4, SetRouteSets

\* A lookup that changes anything sets the flag, when the name, if it was
\* there, was not yet routed through the device.
LEMMA LookupFlags ==
  ASSUME NEW t \in Table, NEW n \in Name, NEW p \in Device \cup {NoIndex},
         p # NoIndex /\ FindName(t, n) # NoIndex => p \notin t.routes[FindName(t, n)]
  PROVE  AfterNameLookup(t, n, p) = t \/ AfterNameLookup(t, n, p).changed
<1>1. CASE FindName(t, n) # NoIndex
  <2>1. FindName(t, n) \in Entry
    BY <1>1, FindNameFound, InTableEntry DEF Matches
  <2>2. AfterNameLookup(t, n, p) = SetRoute(t, FindName(t, n), p, TRUE)
    BY <1>1 DEF AfterNameLookup, NameIndex
  <2>3. p = NoIndex => SetRoute(t, FindName(t, n), p, TRUE) = t
    BY DEF SetRoute
  <2>. QED  BY <1>1, <2>1, <2>2, <2>3, SetRouteSets
<1>2. CASE FindName(t, n) = NoIndex
  <2>1. AfterNameLookup(t, n, p) = SetRoute(Add(t, n), AddedIndex(t), p, TRUE)
    BY <1>2 DEF AfterNameLookup, NameIndex
  <2>2. CASE IsFull(t)
    BY <2>1, <2>2 DEF Add, AddedIndex, SetRoute
  <2>3. CASE ~IsFull(t)
    <3>1. Add(t, n) \in Table /\ AddedIndex(t) \in Entry \cup {NoIndex}
      BY AddType
    <3>2. Add(t, n).changed
      BY <2>3 DEF Add, Table
    <3>. QED  BY <2>1, <3>1, <3>2, SetRouteKeeps
  <2>. QED  BY <2>2, <2>3
<1>. QED  BY <1>1, <1>2

\* An invalidation takes the device out of every route left in the table.
LEMMA InvalidateKeeps ==
  ASSUME NEW t \in Table, NEW p
  PROVE  LET v == InvalidateDevice(t, p) IN
         /\ v.name = t.name /\ v.changed
         /\ \A i \in InTable(v) : i \in InTable(t) /\ v.routes[i] = t.routes[i] \ {p}
<1>1. /\ InvalidateDevice(t, p).name = t.name /\ InvalidateDevice(t, p).changed
      /\ InvalidateDevice(t, p).routes = WithoutDevice(t, p)
      /\ InvalidateDevice(t, p).size = t.size - Cardinality(Unreachable(t, p))
  BY DEF InvalidateDevice, Table
<1>2. t.size \in Nat /\ Cardinality(Unreachable(t, p)) \in Nat
  BY UnreachableBound, InTableFinite
<1>3. InTable(InvalidateDevice(t, p)) \subseteq InTable(t)
  BY <1>1, <1>2 DEF InTable
<1>4. \A i \in InTable(t) : WithoutDevice(t, p)[i] = t.routes[i] \ {p}
  BY InTableEntry DEF WithoutDevice
<1>. QED  BY <1>1, <1>3, <1>4

\* The table is not emptied while its first entry has another route.
LEMMA InvalidateSpares ==
  ASSUME NEW t \in Table, NEW p, NEW q, q # p, t.size >= 1, q \in t.routes[0]
  PROVE  InvalidateDevice(t, p).size >= 1
<1>1. t.size \in Nat /\ IsFiniteSet(InTable(t)) /\ Cardinality(InTable(t)) = t.size
  BY InTableFinite
<1>2. 0 \in InTable(t)
  BY <1>1 DEF InTable
<1>3. 0 \notin Unreachable(t, p)
  <2>1. WithoutDevice(t, p)[0] = t.routes[0] \ {p}
    BY <1>2, Ranges DEF WithoutDevice
  <2>. QED  BY <2>1 DEF Unreachable
<1>4. Unreachable(t, p) \in SUBSET (InTable(t) \ {0})
  BY <1>3 DEF Unreachable
<1>5. IsFiniteSet(InTable(t) \ {0}) /\ Cardinality(InTable(t) \ {0}) = t.size - 1
  BY <1>1, <1>2, FS_RemoveElement
<1>6. Cardinality(Unreachable(t, p)) <= t.size - 1 /\ Cardinality(Unreachable(t, p)) \in Nat
  BY <1>4, <1>5, FS_Subset, FS_CardinalityType
<1>7. InvalidateDevice(t, p).size = t.size - Cardinality(Unreachable(t, p))
  BY DEF InvalidateDevice, Table
<1>. QED  BY <1>1, <1>6, <1>7

==============================================================================
