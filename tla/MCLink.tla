------------------------------- MODULE MCLink -------------------------------
(* One message of two chunks to send; a byte of each kind to receive: the  *)
(* number of a chunk, the '#', and a letter.                               *)
EXTENDS Link

CONSTANT m1

MCMsg == {m1}
MCLength == [m \in MCMsg |-> 5]
MCCapacity == [m \in MCMsg |-> 5]
MCByte == {1, Hash, 65}
MCCounts == -1..0
=============================================================================
