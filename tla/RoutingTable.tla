---------------------------- MODULE RoutingTable ----------------------------
(***************************************************************************)
(* The class RoutingTable (RoutingTable.h, RoutingTable.cpp) as operators  *)
(* on a table value.                                                       *)
(*                                                                         *)
(* A table is the fixed array the class allocates, its fill level and its  *)
(* "has been changed" flag.  An entry is a name and the set of devices     *)
(* through which the name can be reached; a device is an index of          *)
(* bleDeviceTable (0 this device, 1 the parent, 2.. the children).  Code   *)
(* outside the class keeps pointers to the name bytes of an entry, so the  *)
(* entries past the fill level are part of the value: they keep their      *)
(* bytes until an entry is added over them.                                *)
(*                                                                         *)
(* timesUsed is only ever tested for being negative, inside                *)
(* optimizeRoutingTable, right after invalidatePeerBleDeviceRoutes has set *)
(* it to -1 in the entries with no route; the model counts those entries   *)
(* instead.  The sort in optimizeRoutingTable works on a copy that is      *)
(* thrown away, and leaves no trace.                                       *)
(***************************************************************************)
EXTENDS CommonDefinitions

CONSTANTS
  Name,        \* device and subscription names, and the two special ones
  NullName,    \* the empty string: "send upstream"
  AllName,     \* "*": "send to all connected devices"
  ThisName,    \* the name given to begin()
  Infix,       \* the pairs <<hay, needle>> of names with strstr(hay, needle)
  Capacity     \* routingTableCapacity

\* Every string contains itself and the empty one; "" and "*" contain no
\* other name.  initialize() and begin() add three entries, and one slot of
\* the array is never used.
ASSUME TableAssumption ==
  /\ {NullName, AllName, ThisName} \subseteq Name
  /\ Cardinality({NullName, AllName, ThisName}) = 3
  /\ \A n \in Name : /\ <<n, n>> \in Infix
                     /\ <<n, NullName>> \in Infix
                     /\ <<NullName, n>> \in Infix => n = NullName
                     /\ <<AllName, n>> \in Infix => n \in {AllName, NullName}
  /\ Capacity \in Nat /\ Capacity >= 4
  /\ MaxCentral \in Nat

Entry == 0 .. Capacity - 1

SendUpstream == 0                  \* _sendUpstreamIndex, set by initialize()
SendToAll    == 1                  \* _sendToAllIndex, set by initialize()

Table == [name    : [Entry -> Name],
          routes  : [Entry -> SUBSET Device],
          size    : 0 .. Capacity - 1,
          changed : BOOLEAN]

InTable(t) == 0 .. t.size - 1

(***************************************************************************)
(* The table once initialize() and begin() have run: "" is given a route   *)
(* through the parent before any parent is there, and registering this     *)
(* device's name routes "*" to this device too.  The array is not cleared   *)
(* when it is allocated; no pointer reaches an entry before it is added,    *)
(* so what the unused ones hold here does not matter.                       *)
(***************************************************************************)
InitialTable ==
  [name    |-> [i \in Entry |-> CASE i = 0 -> NullName
                                  [] i = 1 -> AllName
                                  [] OTHER -> ThisName],
   routes  |-> [i \in Entry |-> CASE i = 0 -> {Parent}
                                  [] i \in {1, 2} -> {ThisDevice}
                                  [] OTHER -> {}],
   size    |-> 3,
   changed |-> TRUE]

-----------------------------------------------------------------------------

\* The entries strstr() accepts for a name: any entry that CONTAINS it.
Matches(t, n) == {i \in InTable(t) : <<t.name[i], n>> \in Infix}

\* The search loop of getIndexFromName: the first entry that matches.
FindName(t, n) == First(Matches(t, n))

\* Mutant: the whole array is used, and the slot after it.
IsOverfull(t) == t.size >= Capacity

\* addDestinationNameToRoutingTable: the last slot of the array stays unused.
IsFull(t) == t.size >= Capacity - 1

\* Mutant: a new entry keeps the routes of the one it is written over.
AddKeepingRoutes(t, n) ==
  IF IsFull(t) THEN t
  ELSE [t EXCEPT !.name[t.size] = n,
                 !.size         = @ + 1,
                 !.changed      = TRUE]

Add(t, n) ==
  IF IsFull(t) THEN t
  ELSE [t EXCEPT !.name[t.size]   = n,
                 !.routes[t.size] = {},
                 !.size           = @ + 1,
                 !.changed        = TRUE]

AddedIndex(t) == IF IsFull(t) THEN NoIndex ELSE t.size

\* Mutant: "" is given no route of its own.
RoutedWithoutUpstream(i, p) == {i, SendToAll}

\* What setRouteForDestination writes besides entry i: "*" always, and ""
\* for a route through the parent.  Both by index, whatever is stored there.
RoutedEntries(i, p) ==
  {i, SendToAll} \cup (IF p = Parent THEN {SendUpstream} ELSE {})

SetRoute(t, i, p, b) ==
  IF i = NoIndex \/ p = NoIndex \/ p >= MaxCentral + 2 THEN t
  ELSE [t EXCEPT
         !.changed = @ \/ ((p \in t.routes[i]) # b),
         !.routes  = [j \in Entry |->
                       CASE j \notin RoutedEntries(i, p) -> t.routes[j]
                         [] b  /\ j \in RoutedEntries(i, p) -> t.routes[j] \cup {p}
                         [] ~b /\ j \in RoutedEntries(i, p) -> t.routes[j] \ {p}]]

-----------------------------------------------------------------------------

\* getIndexFromName(n, p): find the name or add it, then set the route.
NameIndex(t, n) ==
  IF FindName(t, n) # NoIndex THEN FindName(t, n) ELSE AddedIndex(t)

AfterNameLookup(t, n, p) ==
  LET u == IF FindName(t, n) # NoIndex THEN t ELSE Add(t, n)
  IN  SetRoute(u, NameIndex(t, n), p, TRUE)

\* getIndexFromNamePointer for a pointer into a message, as pollRoutingMessages
\* makes it: no entry has that address, so the name is always added.
AfterForeignPointerLookup(t, n) == Add(t, n)

\* invalidatePeerBleDeviceRoutes(p) with optimizeRoutingTable: the number of
\* entries left without a route is taken off the END of the table.
WithoutDevice(t, p) ==
  [i \in Entry |-> IF i \in InTable(t) THEN t.routes[i] \ {p} ELSE t.routes[i]]

Unreachable(t, p) == {i \in InTable(t) : WithoutDevice(t, p)[i] = {}}

\* Mutant: the change of routes is not announced.
InvalidateSilently(t, p) ==
  [t EXCEPT !.routes = WithoutDevice(t, p),
            !.size   = @ - Cardinality(Unreachable(t, p))]

InvalidateDevice(t, p) ==
  [t EXCEPT !.routes  = WithoutDevice(t, p),
            !.size    = @ - Cardinality(Unreachable(t, p)),
            !.changed = TRUE]

\* getRoutingTableHasBeenChanged: reads the flag and clears it.
TakeChanged(t) == [t EXCEPT !.changed = FALSE]

=============================================================================
