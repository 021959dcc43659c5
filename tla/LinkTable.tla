----------------------------- MODULE LinkTable ------------------------------
(***************************************************************************)
(* What the table of central connections promises: a slot that serves a    *)
(* link goes on serving that link, and no other, until the link goes down; *)
(* and a link going down frees its own slot and leaves the others alone.   *)
(* A link may come up without being given a slot.                          *)
(***************************************************************************)
CONSTANTS Slot, Handle, NoLink

VARIABLES up,      \* the handles of the links that are up
          link     \* for each slot the handle it serves, or NoLink

vars == <<up, link>>

Init == up = {} /\ link = [s \in Slot |-> NoLink]

\* A link comes up, and is given a free slot if served.
Up(h) ==
  /\ h \notin up
  /\ up' = up \cup {h}
  /\ \/ UNCHANGED link
     \/ \E s \in Slot : link[s] = NoLink /\ link' = [link EXCEPT ![s] = h]

\* A link goes down; the slot that served it, if any, is free again.
Down(h) ==
  /\ h \in up
  /\ up' = up \ {h}
  /\ link' = [s \in Slot |-> IF link[s] = h THEN NoLink ELSE link[s]]

Next == \E h \in Handle : Up(h) \/ Down(h)

Spec == Init /\ [][Next]_vars

=============================================================================
