------------------------- MODULE CommonDefinitions --------------------------
(* What the tables of a node share (CommonDefinitions.h): how they number   *)
(* devices, and how they are searched.                                      *)
EXTENDS Integers, FiniteSets

CONSTANT MaxCentral                \* MAX_CENTRAL_CONNECTIONS

ThisDevice == 0                    \* BLE_THIS_DEVICE_INDEX
Parent     == 1                    \* BLE_PERIPHERAL_INDEX
Device     == 0 .. MaxCentral + 1
NoIndex    == -1                   \* "not found", and "no device"

\* Where a search loop from index 0 that breaks at a member of S stops.
First(S) ==
  IF S = {} THEN NoIndex ELSE CHOOSE i \in S : \A j \in S : i <= j

=============================================================================
