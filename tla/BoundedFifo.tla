---------------------------- MODULE BoundedFifo ----------------------------
(***************************************************************************)
(* What a single-producer single-consumer sample ring promises, with every *)
(* operation as one step: a bounded first-in first-out queue of samples    *)
(* that takes a chunk whole or refuses it whole and counts the refusal.    *)
(***************************************************************************)
EXTENDS Naturals, Sequences

CONSTANTS Capacity,    \* samples the ring can hold
          Chunks       \* the non-empty chunks a producer may offer

VARIABLES queue,       \* committed samples, oldest first
          refused,     \* how many chunks were refused
          out          \* what the last read or peek returned

fifoVars == <<queue, refused, out>>

Prefix(q, n) == SubSeq(q, 1, n)
Rest(q, n)   == SubSeq(q, n + 1, Len(q))

Init == /\ queue = <<>>
        /\ refused = 0
        /\ out = <<>>

\* A chunk is taken whole.
Put(chunk) ==
  /\ Len(queue) + Len(chunk) <= Capacity
  /\ queue' = queue \o chunk
  /\ UNCHANGED <<refused, out>>

\* A chunk that does not fit is refused whole, and counted.
Refuse(chunk) ==
  /\ Len(queue) + Len(chunk) > Capacity
  /\ refused' = refused + 1
  /\ UNCHANGED <<queue, out>>

\* The oldest n samples are copied to the reader and leave the queue.
Take(n) ==
  /\ out' = Prefix(queue, n)
  /\ queue' = Rest(queue, n)
  /\ UNCHANGED refused

\* The oldest n samples are copied to the reader and stay.
Peek(n) ==
  /\ out' = Prefix(queue, n)
  /\ UNCHANGED <<queue, refused>>

\* The oldest n samples are dropped unread: skip and flush.
Discard(n) ==
  /\ queue' = Rest(queue, n)
  /\ UNCHANGED <<refused, out>>

Next == \/ \E chunk \in Chunks : Put(chunk) \/ Refuse(chunk)
        \/ \E n \in 0..Len(queue) : Take(n) \/ Peek(n) \/ Discard(n)

Spec == Init /\ [][Next]_fifoVars
=============================================================================
