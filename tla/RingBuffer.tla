----------------------------- MODULE RingBuffer -----------------------------
(***************************************************************************)
(* SharedMemoryRingBuffer (src/src/ring_buffer.hpp): the ring of samples   *)
(* between one SDR producer process and the correlator process.            *)
(*                                                                         *)
(* head and tail are free-running counters of a fixed width.  A step of    *)
(* this module is one access to shared memory: loading the other side's    *)
(* counter, storing or copying one sample, publishing one's own counter.   *)
(* Loads and stores of one's own counter take no step of their own, since  *)
(* nobody else writes it.  Acquire/release is modelled as interleaving.    *)
(***************************************************************************)
EXTENDS Naturals, Sequences

CONSTANTS Capacity,      \* capacity_, a power of two
          Modulus,       \* 2^32: the counters wrap here
          Samples,       \* sample values
          Zero,          \* the value-initialised sample
          Chunks,        \* the chunks the receiver callback may deliver
          MaxRequest,    \* bound on num_samples of a consumer call
          MaxOverflow    \* bound on the refusals explored

(* Only what the constructor enforces is assumed: a power of two up to     *)
(* 2^31, which makes the capacity divide the counters' modulus and leaves  *)
(* room for at least two capacities in it.                                 *)
ASSUME SizesAssumption ==
  /\ Capacity \in Nat \ {0}
  /\ Modulus \in Nat
  /\ 2 * Capacity <= Modulus
  /\ Modulus % Capacity = 0

ASSUME DataAssumption ==
  /\ Zero \in Samples
  /\ Chunks \subseteq Seq(Samples) \ {<<>>}
  /\ MaxRequest \in Nat
  /\ MaxOverflow \in Nat

VARIABLES
  head,       \* ctrl_->head, written by the producer only
  tail,       \* ctrl_->tail, written by the consumer only
  overflow,   \* ctrl_->overflow_cnt
  slot,       \* data_buffer_
  pPc,        \* producer: idle, storing, refusing, violated or dead
  pTail,      \* the tail the producer loaded
  chunk,      \* the chunk being written
  stored,     \* how many of its samples are in the ring
  cPc,        \* consumer: idle, reading, peeking, skipping, flushing, violated
  cHead,      \* the head the consumer loaded
  want,       \* samples the call in progress will consume or copy
  dest,       \* samples copied so far
  out         \* what the last read or peek returned

producerVars == <<pPc, pTail, chunk, stored>>
consumerVars == <<cPc, cHead, want, dest, out>>
vars == <<head, tail, overflow, slot, producerVars, consumerVars>>

Counter == 0 .. Modulus - 1
Slots   == 0 .. Capacity - 1

\* uint32_t arithmetic, and the masking of a counter to a slot.
Plus(a, n)  == (a + n) % Modulus

\* Mutant: the distance is taken without wrapping.
MinusUnwrapped(a, b) == IF a >= b THEN a - b ELSE 0
Minus(a, b) == (a + Modulus - b) % Modulus

Index(a) == a % Capacity

Used == Minus(head, tail)
Smaller(a, b) == IF a < b THEN a ELSE b

Init ==
  /\ head = 0 /\ tail = 0 /\ overflow = 0
  /\ slot = [s \in Slots |-> Zero]
  /\ pPc = "idle" /\ pTail = 0 /\ chunk = <<>> /\ stored = 0
  /\ cPc = "idle" /\ cHead = 0 /\ want = 0 /\ dest = <<>> /\ out = <<>>

-----------------------------------------------------------------------------
(* The producer: write().                                                  *)

\* Load the tail and decide on it: an impossible distance throws, a chunk
\* larger than the free space will be refused, any other will be stored.
WriteLoad(ch) ==
  /\ pPc = "idle"
  /\ Minus(head, tail) + Len(ch) > Capacity => overflow < MaxOverflow
  /\ pTail' = tail
  /\ chunk' = ch
  /\ stored' = 0
  /\ pPc' = IF Minus(head, tail) > Capacity THEN "violated"
            ELSE IF Len(ch) > Capacity - Minus(head, tail) THEN "refusing"
            ELSE "storing"
  /\ UNCHANGED <<head, tail, overflow, slot, consumerVars>>

(* The locals of a call leave scope when it returns. *)
WriteReturns == /\ pPc' = "idle"
                /\ pTail' = 0 /\ chunk' = <<>> /\ stored' = 0

WriteRefuse ==
  /\ pPc = "refusing"
  /\ overflow' = overflow + 1
  /\ WriteReturns
  /\ UNCHANGED <<head, tail, slot, consumerVars>>

WriteSample ==
  /\ pPc = "storing"
  /\ stored < Len(chunk)
  /\ slot' = [slot EXCEPT ![Index(Plus(head, stored))] = chunk[stored + 1]]
  /\ stored' = stored + 1
  /\ UNCHANGED <<head, tail, overflow, pPc, pTail, chunk, consumerVars>>

\* Mutant: the head is published before the last sample is stored.
WriteCommitEarly ==
  /\ pPc = "storing"
  /\ stored + 1 >= Len(chunk)
  /\ head' = Plus(head, Len(chunk))
  /\ WriteReturns
  /\ UNCHANGED <<tail, overflow, slot, consumerVars>>

WriteCommit ==
  /\ pPc = "storing"
  /\ stored = Len(chunk)
  /\ head' = Plus(head, Len(chunk))
  /\ WriteReturns
  /\ UNCHANGED <<tail, overflow, slot, consumerVars>>

\* The producer process is killed, at any point of a call.
ProducerDies ==
  /\ pPc \in {"idle", "storing", "refusing"}
  /\ pPc' = "dead"
  /\ UNCHANGED <<head, tail, overflow, slot, pTail, chunk, stored, consumerVars>>

-----------------------------------------------------------------------------
(* The consumer: read(), peek_from_tail(), skip(), flush().                *)

ConsumerKeeps == UNCHANGED <<head, overflow, slot, producerVars>>

ConsumerReturns == /\ cPc' = "idle"
                   /\ cHead' = 0 /\ want' = 0 /\ dest' = <<>>

\* Load the head; a distance above the capacity throws.
Load(pc, n) ==
  /\ cPc = "idle"
  /\ cHead' = head
  /\ cPc' = IF Minus(head, tail) > Capacity THEN "violated" ELSE pc
  /\ want' = n
  /\ dest' = <<>>
  /\ UNCHANGED <<tail, out>>
  /\ ConsumerKeeps

\* read() takes what there is, up to n; nothing there returns at once.
ReadLoad(n) ==
  /\ Smaller(n, Minus(head, tail)) > 0
  /\ Load("reading", Smaller(n, Minus(head, tail)))

\* peek_from_tail() wants n samples or nothing.
PeekLoad(n) ==
  /\ n > 0
  /\ Minus(head, tail) >= n
  /\ Load("peeking", n)

SkipLoad(n) == Load("skipping", Smaller(n, Minus(head, tail)))

\* flush() loads the head and makes no ownership test.
FlushLoad ==
  /\ cPc = "idle"
  /\ cHead' = head
  /\ cPc' = "flushing"
  /\ want' = 0
  /\ dest' = <<>>
  /\ UNCHANGED <<tail, out>>
  /\ ConsumerKeeps

\* copy_from_ring(), one sample at a time.
CopySample ==
  /\ cPc \in {"reading", "peeking"}
  /\ Len(dest) < want
  /\ dest' = Append(dest, slot[Index(Plus(tail, Len(dest)))])
  /\ UNCHANGED <<tail, cPc, cHead, want, out>>
  /\ ConsumerKeeps

ReadCommit ==
  /\ cPc = "reading"
  /\ Len(dest) = want
  /\ tail' = Plus(tail, want)
  /\ out' = dest
  /\ ConsumerReturns
  /\ ConsumerKeeps

PeekReturn ==
  /\ cPc = "peeking"
  /\ Len(dest) = want
  /\ out' = dest
  /\ ConsumerReturns
  /\ UNCHANGED tail
  /\ ConsumerKeeps

SkipCommit ==
  /\ cPc = "skipping"
  /\ tail' = Plus(tail, want)
  /\ ConsumerReturns
  /\ UNCHANGED out
  /\ ConsumerKeeps

FlushCommit ==
  /\ cPc = "flushing"
  /\ tail' = cHead
  /\ ConsumerReturns
  /\ UNCHANGED out
  /\ ConsumerKeeps

Producer == \/ \E ch \in Chunks : WriteLoad(ch)
            \/ WriteRefuse
            \/ WriteSample
            \/ WriteCommit
            \/ ProducerDies

Consumer == \/ \E n \in 0..MaxRequest : ReadLoad(n) \/ PeekLoad(n) \/ SkipLoad(n)
            \/ FlushLoad
            \/ CopySample
            \/ ReadCommit
            \/ PeekReturn
            \/ SkipCommit
            \/ FlushCommit

Next == Producer \/ Consumer

Spec == Init /\ [][Next]_vars

-----------------------------------------------------------------------------
(* Every variable has its type; a counter stays within its width.          *)
TypeOK ==
  /\ head \in Counter /\ tail \in Counter /\ overflow \in Nat
  /\ slot \in [Slots -> Samples]
  /\ pPc \in {"idle", "storing", "refusing", "violated", "dead"}
  /\ pTail \in Counter
  /\ chunk \in Chunks \union {<<>>}
  /\ stored \in 0 .. Len(chunk)
  /\ cPc \in {"idle", "reading", "peeking", "skipping", "flushing", "violated"}
  /\ cHead \in Counter
  /\ want \in Nat
  /\ dest \in Seq(Samples)
  /\ out \in Seq(Samples)

(* The distance the two free-running counters enclose never exceeds the    *)
(* capacity, across the wrap of either counter, so that neither side ever  *)
(* reaches the throw "SPSC ownership/invariant violated".                  *)
OwnershipKept ==
  /\ Used <= Capacity
  /\ pPc # "violated"
  /\ cPc # "violated"

(* The slots the producer still has to fill, and those the consumer still  *)
(* has to copy.                                                            *)
Filling == IF pPc = "storing"
           THEN {Index(Plus(head, k)) : k \in stored .. Len(chunk) - 1}
           ELSE {}
Copying == IF cPc \in {"reading", "peeking"}
           THEN {Index(Plus(tail, k)) : k \in Len(dest) .. want - 1}
           ELSE {}

(* A slot is never stored into while the consumer is yet to copy it: no    *)
(* copy can see half of an old chunk and half of a new one, although the   *)
(* producer decided on a tail, and the consumer on a head, that have moved *)
(* since.                                                                  *)
NoSlotRace == Filling \intersect Copying = {}

(* A tail that has moved since the producer loaded it only leaves more     *)
(* room than the producer believes, and a head that has moved since the    *)
(* consumer loaded it only more samples: the stale value errs on the safe  *)
(* side, as the comment on available_write() says.                         *)
StaleIsSafe ==
  /\ pPc = "storing" => /\ Used <= Minus(head, pTail)
                        /\ Minus(head, pTail) + Len(chunk) <= Capacity
  /\ cPc \notin {"idle", "violated"} => Minus(cHead, tail) <= Used
  /\ cPc \in {"reading", "peeking", "skipping"} => want <= Minus(cHead, tail)

-----------------------------------------------------------------------------
(* Step by step, the ring is a bounded queue: a chunk enters it whole when *)
(* the head is published, a refusal happens when the tail is loaded, and   *)
(* samples leave it when the tail is published.                            *)
Content == [k \in 1 .. Used |-> slot[Index(Plus(tail, k - 1))]]

\* A refusal decided on and not yet counted, by a producer that may have
\* been killed before it could count it.
Uncounted == /\ pPc \in {"refusing", "dead"}
             /\ chunk # <<>>
             /\ Len(chunk) > Capacity - Minus(head, pTail)

Fifo == INSTANCE BoundedFifo
          WITH queue <- Content,
               refused <- overflow + (IF Uncounted THEN 1 ELSE 0)

(* The ring implements the bounded queue.                                  *)
ImplementsFifo == Fifo!Spec
=============================================================================
