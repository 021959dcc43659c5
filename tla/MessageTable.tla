---------------------------- MODULE MessageTable ----------------------------
(***************************************************************************)
(* The class MessageTable (MessageTable.h, MessageTable.cpp) as operators  *)
(* on a table value.                                                       *)
(*                                                                         *)
(* A table is an array of entries and its fill level.  The code indexes    *)
(* the array without checking, so the value also holds the memory behind   *)
(* it.  An entry stands for one message on its way to one device.  The      *)
(* bytes are read and written through its `builder', told here by the       *)
(* number of the entry it belongs to at first: copies of an entry have its  *)
(* builder, and an entry that is used again has the one it was left with.   *)
(*                                                                         *)
(* Names are kept as pointers, and compared as such, except where strstr()  *)
(* is called.  MESSAGE_TYPE_INCOMING and MESSAGE_TYPE_SUCCESS are assigned  *)
(* by no code that runs, so defragmentMessageTable(), which only removes    *)
(* SUCCESS, does nothing, and the fill level never goes down.               *)
(***************************************************************************)
EXTENDS CommonDefinitions

CONSTANTS
  Peer,           \* names of adjacent devices
  ThisHop,        \* _thisDeviceName
  NoHop,          \* a name pointer not set, or NULL
  LikeThis,       \* the hops whose name contains this device's name
  Destination,    \* what messages are addressed to
  Subscription,   \* the destinations that begin with a slash
  ToAll,          \* the destination "*"
  Upstream,       \* the destination ""
  TableCapacity   \* messageTableCapacity

ASSUME MessageTableAssumption ==
  /\ ThisHop \notin Peer /\ NoHop \notin Peer \cup {ThisHop}
  /\ ThisHop \in LikeThis /\ LikeThis \subseteq Peer \cup {ThisHop}
  /\ Subscription \subseteq Destination
  /\ {ToAll, Upstream} \cap Subscription = {}
  /\ TableCapacity \in Nat
  /\ MaxCentral \in Nat

\* The array, and the memory behind it: rows of entries are written without
\* gaps, so that none goes further without the second entry behind it.
TableIndex == 0 .. TableCapacity - 1
Memory     == 0 .. TableCapacity + 1

Type == {"none", "origin", "hop"}

Message == [type            : Type,
            requiresRouting : BOOLEAN,
            from            : Peer \cup {ThisHop, NoHop},
            to              : Peer \cup {NoHop},
            destination     : Destination \cup {Upstream},
            builder         : Memory]

\* What the initialisers of the class leave in entry k.
Unused(k) == [type |-> "none", requiresRouting |-> FALSE, from |-> NoHop,
              to |-> NoHop, destination |-> Upstream, builder |-> k]

EmptyTable == [entry |-> [k \in Memory |-> Unused(k)], size |-> 0]

InTable(m) == 0 .. m.size - 1

-----------------------------------------------------------------------------

\* getNewMessageTableEntry: a message to every device still fits afterwards.
HasRoom(m) == m.size + MaxCentral + 2 <= TableCapacity

Put(m, e) == [entry |-> [m.entry EXCEPT ![m.size] = e], size |-> m.size + 1]

\* addNewMessageToSend with compileMessage, which writes the message through
\* whatever builder the entry has.
AddNew(m, d) ==
  Put(m, [m.entry[m.size] EXCEPT
            !.type = "origin", !.requiresRouting = TRUE, !.from = ThisHop,
            !.to = NoHop, !.destination = d])

\* reserveSpaceForIncomingMessage: reset() only sets the type, and all else
\* is as the entry was left.
Reserve(m, h) ==
  Put(m, [m.entry[m.size] EXCEPT !.type = "none", !.from = h])

\* canAcceptMoreMessagesFromThisDevice(_thisDeviceName)
CanAcceptMore(m) ==
  \A i \in InTable(m) : m.entry[i].from \in LikeThis => m.entry[i].type = "origin"

\* Mutant: the whole array is searched.
NextInArray(m, h) ==
  First({i \in TableIndex : m.entry[i].to = h /\ m.entry[i].type = "hop"})

\* findNextAvailableMessageForHop
NextForHop(m, h) ==
  First({i \in InTable(m) : m.entry[i].to = h /\ m.entry[i].type = "hop"})

\* setMessageType(MESSAGE_TYPE_NONE) at the entries some pointers lead to.
Retire(m, I) ==
  [m EXCEPT !.entry = [k \in Memory |->
     IF k \in I THEN [m.entry[k] EXCEPT !.type = "none"] ELSE m.entry[k]]]

\* makeSpaceForRouting: the entries move up, the fill level does not.
MakeSpace(m, i, n) ==
  [m EXCEPT !.entry = [k \in Memory |->
     IF i + n < k /\ k < m.size + n THEN m.entry[k - n] ELSE m.entry[k]]]

\* setHopsInMessage
SetHops(e, h) == [e EXCEPT !.type = "hop", !.from = ThisHop, !.to = h]

\* Mutant: the index is moved on before the copy is made.
RankFromOne(S, j) == Cardinality({k \in S : k >= j})

\* How many members of S come before j in descending order.
Rank(S, j) == Cardinality({k \in S : k > j})

\* cloneMessage of entry i into the entries from `base' on, one for each of
\* the devices `to', the highest first; hop[j] is the hop for device j.
Clone(m, i, base, to, hop) ==
  [m EXCEPT !.entry = [k \in Memory |->
     IF \E j \in to : k = base + Rank(to, j)
       THEN SetHops(m.entry[i], hop[CHOOSE j \in to : k = base + Rank(to, j)])
       ELSE m.entry[k]]]

=============================================================================
