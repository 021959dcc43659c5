---------------------------- MODULE ChunkSender -----------------------------
(***************************************************************************)
(* What sending in chunks keeps to for each device: the chunks of a message *)
(* come in turn, they come again only once all have had their turn, all of  *)
(* them then and not those asked for only (unlike Message.cpp:46-57), and a *)
(* message may be dropped at any time.  Every chunk from the third on is    *)
(* sent whole.  The first may be passed over, though nobody has it, and so  *)
(* may the beginning of the second, but that only after the first.          *)
(***************************************************************************)
EXTENDS Naturals

CONSTANTS Dev, Msg, NoMessage,
          Chunks                  \* the number of chunks of each message

VARIABLES message,
          next,                   \* next[d]: the chunk whose turn it is
          sent                    \* sent[d]: the chunks sent whole since the first

vars == <<message, next, sent>>

Init ==
  /\ message = [d \in Dev |-> NoMessage]
  /\ next = [d \in Dev |-> 0]
  /\ sent = [d \in Dev |-> {}]

Restart(d) ==
  /\ next' = [next EXCEPT ![d] = 0]
  /\ sent' = [sent EXCEPT ![d] = {}]

Take(d, m) ==
  /\ message[d] = NoMessage
  /\ message' = [message EXCEPT ![d] = m]
  /\ Restart(d)

HasTurn(d, c) == message[d] # NoMessage /\ next[d] = c /\ c < Chunks[message[d]]

SendChunk(d) ==
  /\ HasTurn(d, next[d])
  /\ next' = [next EXCEPT ![d] = @ + 1]
  /\ sent' = [sent EXCEPT ![d] = @ \cup {next[d]}]
  /\ UNCHANGED message

\* The first chunk is passed over, or of the second no more than the end sent.
PassOver(d) ==
  /\ HasTurn(d, 0) \/ (HasTurn(d, 1) /\ 0 \notin sent[d])
  /\ next' = [next EXCEPT ![d] = @ + 1]
  /\ UNCHANGED <<message, sent>>

SendAgain(d) ==
  /\ message[d] # NoMessage /\ next[d] = Chunks[message[d]]
  /\ Restart(d)
  /\ UNCHANGED message

Drop(d) ==
  /\ message[d] # NoMessage
  /\ message' = [message EXCEPT ![d] = NoMessage]
  /\ Restart(d)

Next ==
  \E d \in Dev : \/ SendChunk(d) \/ PassOver(d) \/ SendAgain(d) \/ Drop(d)
                 \/ \E m \in Msg : Take(d, m)

Spec == Init /\ [][Next]_vars
=============================================================================
