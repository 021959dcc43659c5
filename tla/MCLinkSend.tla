----------------------------- MODULE MCLinkSend -----------------------------
(* One message of three chunks, which fills its buffer, so that reading     *)
(* runs into its end; and one of two chunks that has room behind it.       *)
EXTENDS LinkSend

CONSTANTS m1, m2

MCMsg == {m1}
MCLength == [m \in MCMsg |-> 7]
MCCapacity == [m \in MCMsg |-> 7]

MCLongMsg == {m2}
MCLongLength == [m \in MCLongMsg |-> 5]
MCLongCapacity == [m \in MCLongMsg |-> 7]
=============================================================================
