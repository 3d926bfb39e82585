------------------------------ MODULE RingFifo ------------------------------
(***************************************************************************)
(* What one direction of a shared-memory ring promises its two users: a    *)
(* first-in first-out queue of records.  A record is a piece of a message; *)
(* the pieces of one message are queued in order and none is skipped, so   *)
(* the reader can reassemble the byte stream.  How the queue is laid out   *)
(* in the mapped file is the business of module Ring.                      *)
(***************************************************************************)
EXTENDS Naturals, Sequences

CONSTANT Piece   \* the records the users may exchange
VARIABLE queue

\* The piece `piece` = [msg, first, len] of message msg, lines first+1..first+len.
Continues(prev, piece) ==
  \/ piece.msg > prev.msg /\ piece.first = 0
  \/ piece.msg = prev.msg /\ piece.first = prev.first + prev.len

Init == queue = <<>>

Put(piece) == /\ queue # <<>> => Continues(queue[Len(queue)], piece)
              /\ queue' = Append(queue, piece)

Take == /\ queue # <<>>
        /\ queue' = Tail(queue)

Next == Take \/ \E piece \in Piece : Put(piece)

Spec == Init /\ [][Next]_queue
=============================================================================
