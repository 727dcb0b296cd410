-------------------------- MODULE RingBufferProofs --------------------------
(***************************************************************************)
(* Proofs about RingBuffer, for every capacity, counter width, chunk size  *)
(* and sample.  The argument: whatever tail the producer loaded, the       *)
(* distance from it to the head bounds the distance from the true tail;    *)
(* whatever head the consumer loaded lies between the true tail and the    *)
(* true head.  Everything else follows from the two.                       *)
(*                                                                         *)
(* And about PairedStreams, the two rings as streams: a wrong offset while *)
(* verifying means that every confirmation that was counted was a lie, and *)
(* a session that is aligned moves both tails together (SafetyInv).        *)
(***************************************************************************)
EXTENDS RingBuffer, PairedStreams, SequenceTheorems, TLAPS

-----------------------------------------------------------------------------
(* Counter arithmetic.                                                     *)

(* Reduction modulo the counters' width takes away at most one turn.       *)
LEMMA OneTurn ==
  ASSUME NEW x \in Nat, x < 2 * Modulus
  PROVE  x % Modulus = IF x < Modulus THEN x ELSE x - Modulus
BY SizesAssumption DEF SizesAssumption

(* Adding up to a capacity to a counter.                                   *)
LEMMA PlusIs ==
  ASSUME NEW a \in Counter, NEW n \in 0 .. Capacity
  PROVE  /\ Plus(a, n) \in Counter
         /\ Plus(a, n) = IF a + n < Modulus THEN a + n ELSE a + n - Modulus
<1>1. a + n \in Nat /\ a + n < 2 * Modulus
  BY SizesAssumption DEF SizesAssumption, Counter
<1> QED BY <1>1, OneTurn, SizesAssumption DEF SizesAssumption, Counter, Plus

(* The distance from one counter up to another.                            *)
LEMMA MinusIs ==
  ASSUME NEW a \in Counter, NEW b \in Counter
  PROVE  /\ Minus(a, b) \in Counter
         /\ Minus(a, b) = IF a >= b THEN a - b ELSE a - b + Modulus
<1>1. a + Modulus - b \in Nat /\ a + Modulus - b < 2 * Modulus
  BY SizesAssumption DEF SizesAssumption, Counter
<1> QED BY <1>1, OneTurn, SizesAssumption DEF SizesAssumption, Counter, Minus

(* Division with remainder, for slots.                                     *)
LEMMA SlotDivision ==
  ASSUME NEW x \in Nat
  PROVE  /\ x \div Capacity \in Nat
         /\ Index(x) \in Slots
         /\ x = Capacity * (x \div Capacity) + Index(x)
BY SizesAssumption DEF SizesAssumption, Index, Slots

(* Two positions less than a capacity apart lie in different slots.        *)
LEMMA NearIsDistinct ==
  ASSUME NEW x \in Nat, NEW y \in Nat, x < y, y - x < Capacity
  PROVE  Index(x) # Index(y)
<1> DEFINE p == x \div Capacity
           q == y \div Capacity
<1>1. /\ p \in Nat /\ q \in Nat
      /\ x = Capacity * p + Index(x)
      /\ y = Capacity * q + Index(y)
      /\ Index(x) \in Nat /\ Index(y) \in Nat
  BY SlotDivision DEF Slots
<1> HIDE DEF p, q
<1>2. SUFFICES ASSUME Index(x) = Index(y) PROVE FALSE
  OBVIOUS
<1>3. y - x = Capacity * (q - p)
  BY <1>1, <1>2, SizesAssumption DEF SizesAssumption
<1>4. CASE q <= p
  <2>1. Capacity * (q - p) <= 0
    BY <1>1, <1>4, SizesAssumption DEF SizesAssumption
  <2> QED BY <1>3, <2>1
<1>5. CASE q > p
  <2>1. Capacity * (q - p) >= Capacity
    BY <1>1, <1>5, SizesAssumption DEF SizesAssumption
  <2> QED BY <1>3, <2>1, SizesAssumption DEF SizesAssumption
<1> QED BY <1>1, <1>4, <1>5

(* The wrap of a counter does not change its slot: the capacity divides    *)
(* the counters' modulus.                                                  *)
LEMMA WrapKeepsSlot ==
  ASSUME NEW x \in Nat
  PROVE  Index(x + Modulus) = Index(x)
<1> DEFINE p == x \div Capacity
           t == Modulus \div Capacity
           r == Index(x)
<1>1. /\ p \in Nat /\ r \in Slots /\ x = Capacity * p + r
  BY SlotDivision
<1>2. t \in Nat /\ Modulus = Capacity * t
  BY SizesAssumption DEF SizesAssumption
<1> HIDE DEF p, t, r
<1>3. x + Modulus = Capacity * (p + t) + r
  BY <1>1, <1>2, SizesAssumption DEF SizesAssumption, Slots
<1>4. (Capacity * (p + t) + r) % Capacity = r
  BY <1>1, <1>2, SizesAssumption DEF SizesAssumption, Slots
<1> QED BY <1>3, <1>4 DEF Index, r

(* The slot of a counter moved forward is that of the unwrapped position.  *)
LEMMA PlusSlot ==
  ASSUME NEW a \in Counter, NEW n \in 0 .. Capacity
  PROVE  Index(Plus(a, n)) = Index(a + n)
<1>1. Modulus \in Nat /\ a \in Nat /\ a + n \in Nat
  BY SizesAssumption DEF SizesAssumption, Counter
<1>2. CASE a + n < Modulus
  BY <1>2, PlusIs
<1>3. CASE ~(a + n < Modulus)
  <2> DEFINE x == a + n - Modulus
  <2>1. x \in Nat /\ x + Modulus = a + n
    BY <1>1, <1>3
  <2>2. Plus(a, n) = x
    BY <1>3, PlusIs
  <2> QED BY <2>1, <2>2, WrapKeepsSlot
<1> QED BY <1>2, <1>3

(* A position past the head is the same slot counted from the tail.        *)
LEMMA HeadSlot ==
  ASSUME NEW h \in Counter, NEW t \in Counter,
         NEW k \in Nat, Minus(h, t) + k <= Capacity
  PROVE  Index(Plus(h, k)) = Index(t + Minus(h, t) + k)
<1>1. /\ Modulus \in Nat /\ Capacity \in Nat
      /\ h \in Nat /\ t \in Nat /\ Minus(h, t) \in Nat
  BY MinusIs, SizesAssumption DEF SizesAssumption, Counter
<1>2. k \in 0 .. Capacity
  BY <1>1
<1>3. Index(Plus(h, k)) = Index(h + k)
  BY <1>2, PlusSlot
<1>4. CASE h >= t
  <2>1. h + k = t + Minus(h, t) + k
    BY <1>1, <1>4, MinusIs
  <2> QED BY <1>3, <2>1
<1>5. CASE ~(h >= t)
  <2>1. (h + k) + Modulus = t + Minus(h, t) + k
    BY <1>1, <1>5, MinusIs
  <2>2. Index((h + k) + Modulus) = Index(h + k)
    BY <1>1, WrapKeepsSlot
  <2> QED BY <1>3, <2>1, <2>2
<1> QED BY <1>4, <1>5

-----------------------------------------------------------------------------
(* The inductive invariant.                                                *)

(* The throw for a broken ownership is unreachable, and the values loaded  *)
(* by a call in progress still err on the safe side.                       *)
IInv == TypeOK /\ OwnershipKept /\ StaleIsSafe

LEMMA InitIInv == Init => IInv
<1> SUFFICES ASSUME Init PROVE IInv
  OBVIOUS
<1>1. TypeOK
  <2>1. 0 \in Counter
    BY SizesAssumption DEF SizesAssumption, Counter
  <2>2. [s \in Slots |-> Zero] \in [Slots -> Samples]
    BY DataAssumption DEF DataAssumption
  <2>3. <<>> \in Seq(Samples) /\ Len(<<>>) = 0
    OBVIOUS
  <2> QED BY <2>1, <2>2, <2>3 DEF Init, TypeOK
<1>2. Used = 0
  BY MinusIs, SizesAssumption DEF Init, Used, Counter, SizesAssumption
<1> QED BY <1>1, <1>2, SizesAssumption
        DEF Init, IInv, OwnershipKept, StaleIsSafe, SizesAssumption

(* Facts about the counters of a state that satisfies the invariant.       *)
LEMMA CounterFacts ==
  ASSUME IInv
  PROVE  /\ Modulus \in Nat /\ Capacity \in Nat /\ 2 * Capacity <= Modulus
         /\ 0 < Capacity
         /\ head \in 0 .. Modulus - 1 /\ tail \in 0 .. Modulus - 1
         /\ pTail \in 0 .. Modulus - 1 /\ cHead \in 0 .. Modulus - 1
         /\ Used = IF head >= tail THEN head - tail ELSE head - tail + Modulus
         /\ Minus(head, pTail) = IF head >= pTail THEN head - pTail
                                 ELSE head - pTail + Modulus
         /\ Minus(cHead, tail) = IF cHead >= tail THEN cHead - tail
                                 ELSE cHead - tail + Modulus
         /\ want \in Nat
         /\ chunk \in Seq(Samples) /\ Len(chunk) \in Nat /\ stored \in 0 .. Len(chunk)
<1>1. /\ head \in Counter /\ tail \in Counter /\ pTail \in Counter
      /\ cHead \in Counter
  BY DEF IInv, TypeOK
<1>2. chunk \in Seq(Samples)
  <2>1. <<>> \in Seq(Samples)
    OBVIOUS
  <2> QED BY <2>1, DataAssumption DEF IInv, TypeOK, DataAssumption
<1> QED BY <1>1, <1>2, MinusIs, SizesAssumption
        DEF IInv, TypeOK, Used, Counter, SizesAssumption

(* A counter may step over at most what lies ahead of it.                  *)
LEMMA Advanced ==
  ASSUME NEW h \in Counter, NEW t \in Counter, NEW n \in Nat, n <= Capacity
  PROVE  /\ Plus(h, n) \in Counter
         /\ Minus(h, t) + n <= Capacity => Minus(Plus(h, n), t) = Minus(h, t) + n
         /\ n <= Minus(h, t) => Minus(h, Plus(t, n)) = Minus(h, t) - n
<1> DEFINE g == Plus(h, n)
           u == Plus(t, n)
<1>1. /\ Modulus \in Nat /\ Capacity \in Nat /\ 2 * Capacity <= Modulus /\ 0 < Capacity
      /\ h \in 0 .. Modulus - 1 /\ t \in 0 .. Modulus - 1 /\ n \in 0 .. Capacity
  BY SizesAssumption DEF SizesAssumption, Counter
<1>2. /\ g \in Counter /\ g = IF h + n < Modulus THEN h + n ELSE h + n - Modulus
      /\ u \in Counter /\ u = IF t + n < Modulus THEN t + n ELSE t + n - Modulus
  BY <1>1, PlusIs
<1>3. /\ Minus(h, t) = IF h >= t THEN h - t ELSE h - t + Modulus
      /\ Minus(g, t) = IF g >= t THEN g - t ELSE g - t + Modulus
      /\ Minus(h, u) = IF h >= u THEN h - u ELSE h - u + Modulus
  BY <1>2, MinusIs
<1> HIDE DEF g, u
<1>4. Minus(h, t) + n <= Capacity => Minus(g, t) = Minus(h, t) + n
  BY <1>1, <1>2, <1>3 DEF Counter
<1>5. n <= Minus(h, t) => Minus(h, u) = Minus(h, t) - n
  BY <1>1, <1>2, <1>3 DEF Counter
<1> QED BY <1>2, <1>4, <1>5 DEF g, u

(* Three counters in order around the wrap: the distances add up.          *)
LEMMA Between ==
  ASSUME NEW h \in Counter, NEW m \in Counter, NEW t \in Counter,
         Minus(m, t) <= Minus(h, t)
  PROVE  Minus(h, m) = Minus(h, t) - Minus(m, t)
<1>1. /\ Modulus \in Nat
      /\ h \in 0 .. Modulus - 1 /\ m \in 0 .. Modulus - 1 /\ t \in 0 .. Modulus - 1
  BY SizesAssumption DEF SizesAssumption, Counter
<1>2. /\ Minus(h, t) = IF h >= t THEN h - t ELSE h - t + Modulus
      /\ Minus(h, m) = IF h >= m THEN h - m ELSE h - m + Modulus
      /\ Minus(m, t) = IF m >= t THEN m - t ELSE m - t + Modulus
  BY MinusIs
<1> QED BY <1>1, <1>2

(* The producer's steps.                                                   *)
LEMMA ProducerIInv == IInv /\ Producer => IInv'
<1> SUFFICES ASSUME IInv, Producer PROVE IInv'
  OBVIOUS
<1> USE DEF IInv, OwnershipKept, StaleIsSafe, Used, consumerVars, producerVars
<1>0. /\ Capacity \in Nat /\ 0 < Capacity /\ 0 \in Counter
      /\ <<>> \in Seq(Samples) /\ Len(<<>>) = 0
  BY SizesAssumption DEF SizesAssumption, Counter
<1>1. ASSUME NEW ch \in Chunks, WriteLoad(ch) PROVE IInv'
  <2>1. ch \in Seq(Samples) /\ Len(ch) \in Nat
    BY DataAssumption DEF DataAssumption
  <2>2. Minus(head, tail) \in Nat
    BY MinusIs DEF TypeOK, Counter
  <2>3. TypeOK'
    <3>1. stored' \in 0 .. Len(chunk') /\ chunk' \in Chunks
      BY <1>1, <2>1 DEF WriteLoad
    <3>2. pPc' \in {"storing", "refusing", "violated"} /\ pTail' \in Counter
      BY <1>1 DEF WriteLoad, TypeOK
    <3>3. UNCHANGED <<head, tail, overflow, slot, cPc, cHead, want, dest, out>>
      BY <1>1 DEF WriteLoad
    <3> QED BY <3>1, <3>2, <3>3 DEF TypeOK
  <2> QED BY <1>0, <1>1, <2>1, <2>2, <2>3 DEF WriteLoad
<1>2. CASE WriteRefuse
  BY <1>0, <1>2 DEF WriteRefuse, WriteReturns, TypeOK
<1>3. CASE WriteSample
  <2>1. /\ chunk \in Seq(Samples) /\ Len(chunk) \in Nat /\ stored \in 0 .. Len(chunk)
    BY CounterFacts
  <2>2. chunk[stored + 1] \in Samples
    BY <1>3, <2>1 DEF WriteSample
  <2>3. TypeOK'
    <3>1. slot' \in [Slots -> Samples]
      BY <1>3, <2>2 DEF WriteSample, TypeOK
    <3>2. stored' \in 0 .. Len(chunk')
      BY <1>3, <2>1 DEF WriteSample
    <3>3. UNCHANGED <<head, tail, overflow, pPc, pTail, chunk, cPc, cHead, want, dest, out>>
      BY <1>3 DEF WriteSample
    <3> QED BY <3>1, <3>2, <3>3 DEF TypeOK
  <2> QED BY <1>3, <2>3 DEF WriteSample
<1>4. CASE WriteCommit
  <2> DEFINE n == Len(chunk)
  <2>1. /\ head \in Counter /\ tail \in Counter /\ cHead \in Counter /\ pTail \in Counter
        /\ n \in Nat
    BY CounterFacts DEF TypeOK
  <2>2. /\ Used \in Nat /\ Minus(head, pTail) \in Nat
    BY <2>1, MinusIs DEF Counter
  <2>3. n <= Capacity /\ Used + n <= Capacity
    BY <1>0, <1>4, <2>1, <2>2 DEF WriteCommit
  <2>4. Plus(head, n) \in Counter /\ Used' = Used + n
    BY <1>4, <2>1, <2>3, Advanced DEF WriteCommit
  <2>5. TypeOK'
    BY <1>0, <1>4, <2>4 DEF WriteCommit, WriteReturns, TypeOK
  <2>6. Minus(cHead, tail) \in Nat
    BY <2>1, MinusIs DEF Counter
  <2> HIDE DEF n
  <2> QED BY <1>0, <1>4, <2>1, <2>2, <2>3, <2>4, <2>5, <2>6 DEF WriteCommit, WriteReturns
<1>5. CASE ProducerDies
  BY <1>5 DEF ProducerDies, TypeOK
<1> QED BY <1>1, <1>2, <1>3, <1>4, <1>5 DEF Producer

(* The consumer's steps.                                                   *)
LEMMA ConsumerIInv == IInv /\ Consumer => IInv'
<1> SUFFICES ASSUME IInv, Consumer PROVE IInv'
  OBVIOUS
<1> USE DEF ConsumerKeeps, producerVars
<1>0. /\ head \in Counter /\ tail \in Counter /\ cHead \in Counter /\ pTail \in Counter
      /\ 0 \in Counter /\ Capacity \in Nat
      /\ Used \in Nat /\ Minus(cHead, tail) \in Nat /\ Minus(head, pTail) \in Nat
      /\ Used = Minus(head, tail)
      /\ want \in Nat /\ <<>> \in Seq(Samples) /\ Len(<<>>) = 0
  <2>1. head \in Counter /\ tail \in Counter /\ cHead \in Counter /\ pTail \in Counter
    BY DEF IInv, TypeOK
  <2>2. 0 \in Counter /\ Capacity \in Nat
    BY SizesAssumption DEF SizesAssumption, Counter
  <2>3. Used \in Nat /\ Minus(cHead, tail) \in Nat /\ Minus(head, pTail) \in Nat
    BY <2>1, MinusIs DEF Used, Counter
  <2> QED BY <2>1, <2>2, <2>3 DEF Used, IInv, TypeOK
<1>1. ASSUME NEW call \in {"reading", "peeking", "skipping"}, NEW n \in Nat,
             n <= Used, Load(call, n)
      PROVE  IInv'
  <2>1. TypeOK'
    BY <1>0, <1>1 DEF IInv, TypeOK, Load
  <2>2. Used' = Used /\ Minus(cHead', tail') = Used
    BY <1>0, <1>1 DEF Load, Used
  <2> QED BY <1>0, <1>1, <2>1, <2>2 DEF IInv, OwnershipKept, StaleIsSafe, Load
<1>2. ASSUME NEW n \in 0 .. MaxRequest, ReadLoad(n) \/ PeekLoad(n) \/ SkipLoad(n)
      PROVE  IInv'
  <2>1. n \in Nat /\ Smaller(n, Used) \in Nat /\ Smaller(n, Used) <= Used
    BY <1>0, DataAssumption DEF DataAssumption, Smaller
  <2> QED BY <1>0, <1>1, <1>2, <2>1 DEF ReadLoad, PeekLoad, SkipLoad
<1>3. CASE FlushLoad
  <2>1. TypeOK'
    BY <1>0, <1>3 DEF IInv, TypeOK, FlushLoad
  <2>2. Used' = Used /\ Minus(cHead', tail') = Used
    BY <1>0, <1>3 DEF FlushLoad, Used
  <2> QED BY <1>0, <1>3, <2>1, <2>2 DEF IInv, OwnershipKept, StaleIsSafe, FlushLoad
<1>4. CASE CopySample
  <2>1. Index(Plus(tail, Len(dest))) \in Slots
    <3>1. Len(dest) \in 0 .. Capacity
      BY <1>0, <1>4 DEF IInv, TypeOK, CopySample, StaleIsSafe, OwnershipKept
    <3>2. Plus(tail, Len(dest)) \in Nat
      BY <1>0, <3>1, PlusIs DEF Counter
    <3> QED BY <3>2, SlotDivision
  <2>2. TypeOK'
    BY <1>4, <2>1 DEF IInv, TypeOK, CopySample
  <2> QED BY <1>4, <2>2 DEF IInv, OwnershipKept, StaleIsSafe, CopySample, Used
<1>5. ASSUME NEW n \in Nat, n <= Used, tail' = Plus(tail, n), ConsumerReturns,
             out' \in Seq(Samples), ConsumerKeeps
      PROVE  IInv'
  <2>1. n <= Capacity
    BY <1>0, <1>5 DEF IInv, OwnershipKept
  <2>2. tail' \in Counter /\ Used' = Used - n
    BY <1>0, <1>5, <2>1, Advanced DEF Used
  <2>3. TypeOK'
    BY <1>0, <1>5, <2>2 DEF IInv, TypeOK, ConsumerReturns
  <2>4. Used' \in Nat /\ Used' <= Used
    BY <1>0, <1>5, <2>2
  <2> QED BY <1>0, <1>5, <2>3, <2>4
          DEF IInv, OwnershipKept, StaleIsSafe, ConsumerReturns
<1>6. CASE ReadCommit \/ SkipCommit
  <2>1. want <= Used
    BY <1>0, <1>6 DEF ReadCommit, SkipCommit, IInv, StaleIsSafe
  <2>2. out' \in Seq(Samples)
    BY <1>6 DEF ReadCommit, SkipCommit, IInv, TypeOK
  <2> QED BY <1>0, <1>5, <1>6, <2>1, <2>2 DEF ReadCommit, SkipCommit
<1>7. CASE PeekReturn
  <2>1. TypeOK'
    BY <1>0, <1>7 DEF IInv, TypeOK, PeekReturn, ConsumerReturns
  <2> QED BY <1>7, <2>1
          DEF IInv, OwnershipKept, StaleIsSafe, PeekReturn, ConsumerReturns, Used
<1>8. CASE FlushCommit
  <2>1. Minus(cHead, tail) <= Used
    BY <1>8 DEF FlushCommit, IInv, StaleIsSafe
  <2>2. Used' = Used - Minus(cHead, tail)
    BY <1>0, <1>8, <2>1, Between DEF FlushCommit, Used
  <2>3. Used' \in Nat /\ Used' <= Used
    BY <1>0, <2>1, <2>2
  <2>4. TypeOK'
    BY <1>0, <1>8 DEF IInv, TypeOK, FlushCommit, ConsumerReturns
  <2> QED BY <1>0, <1>8, <2>3, <2>4
          DEF IInv, OwnershipKept, StaleIsSafe, FlushCommit, ConsumerReturns
<1> QED BY <1>2, <1>3, <1>4, <1>6, <1>7, <1>8, Consumer DEF Consumer

LEMMA NextIInv == IInv /\ [Next]_vars => IInv'
<1>1. IInv /\ UNCHANGED vars => IInv'
  BY DEF IInv, TypeOK, OwnershipKept, StaleIsSafe, Used,
         vars, producerVars, consumerVars
<1> QED BY <1>1, ProducerIInv, ConsumerIInv DEF Next

LEMMA Invariance == Spec => []IInv
BY InitIInv, NextIInv, PTL DEF Spec

-----------------------------------------------------------------------------
(* The theorems.                                                           *)

(* Counters stay within their width, slots hold samples, and a call never  *)
(* goes past its chunk.                                                    *)
THEOREM TypeCorrect == Spec => []TypeOK
<1>1. IInv => TypeOK
  BY DEF IInv
<1> QED BY <1>1, Invariance, PTL

(* The ring never holds more than its capacity and neither side ever       *)
(* throws "SPSC ownership/invariant violated".                             *)
THEOREM Ownership == Spec => []OwnershipKept
<1>1. IInv => OwnershipKept
  BY DEF IInv
<1> QED BY <1>1, Invariance, PTL

(* What either side believes about the other errs on the safe side.        *)
THEOREM Staleness == Spec => []StaleIsSafe
<1>1. IInv => StaleIsSafe
  BY DEF IInv
<1> QED BY <1>1, Invariance, PTL

(* The producer never stores into a slot the consumer is still to copy.    *)
THEOREM RaceFreedom == Spec => []NoSlotRace
<1>1. IInv => NoSlotRace
  <2> SUFFICES ASSUME IInv,
                      NEW k \in stored .. Len(chunk) - 1, pPc = "storing",
                      NEW j \in Len(dest) .. want - 1, cPc \in {"reading", "peeking"}
               PROVE  Index(Plus(head, k)) # Index(Plus(tail, j))
    BY DEF NoSlotRace, Filling, Copying
  <2>1. /\ Capacity \in Nat /\ tail \in Nat /\ tail \in Counter /\ head \in Counter
        /\ Used = Minus(head, tail) /\ Used \in Nat
        /\ Minus(cHead, tail) \in Nat /\ Minus(head, pTail) \in Nat
        /\ Len(chunk) \in Nat /\ stored \in Nat /\ want \in Nat /\ Len(dest) \in Nat
    <3>1. /\ tail \in Counter /\ head \in Counter /\ cHead \in Counter
          /\ pTail \in Counter /\ dest \in Seq(Samples)
      BY DEF IInv, TypeOK
    <3> QED BY <3>1, CounterFacts, MinusIs DEF Counter, Used
  <2>2. k \in Nat /\ j \in Nat
    BY <2>1
  <2>3. Used + k < Capacity
    BY <2>1, <2>2 DEF IInv, StaleIsSafe
  <2>4. j < Used
    BY <2>1, <2>2 DEF IInv, StaleIsSafe
  <2>5. Index(Plus(head, k)) = Index(tail + Used + k)
    BY <2>1, <2>2, <2>3, HeadSlot, SMTT(30)
  <2>6. Index(Plus(tail, j)) = Index(tail + j)
    <3>1. j \in 0 .. Capacity
      BY <2>1, <2>2, <2>3, <2>4
    <3> QED BY <2>1, <3>1, PlusSlot
  <2>7. /\ tail + j \in Nat /\ tail + Used + k \in Nat
        /\ tail + j < tail + Used + k
        /\ (tail + Used + k) - (tail + j) < Capacity
    BY <2>1, <2>2, <2>3, <2>4, SMTT(30)
  <2> QED BY <2>5, <2>6, <2>7, NearIsDistinct
<1> QED BY <1>1, Invariance, PTL

-----------------------------------------------------------------------------
(* The ring implements the bounded queue of BoundedFifo.  Beyond IInv it   *)
(* takes what the slots and the consumer's buffer hold in the middle of a  *)
(* call.                                                                   *)

(* The samples stored so far are behind the head, and those copied so far  *)
(* are the oldest of the ring.                                             *)
DataInv ==
  /\ pPc = "idle" => chunk = <<>>
  /\ pPc = "refusing" => Uncounted
  /\ pPc = "storing" =>
       \A k \in 0 .. stored - 1 : slot[Index(Plus(head, k))] = chunk[k + 1]
  /\ cPc \in {"reading", "peeking"} =>
       /\ Len(dest) <= want
       /\ \A k \in 1 .. Len(dest) : dest[k] = slot[Index(Plus(tail, k - 1))]

RInv == IInv /\ DataInv

-----------------------------------------------------------------------------
(* Where the samples are.                                                  *)

(* Types and bounds of the counters, as the proofs below use them.         *)
LEMMA Bounds ==
  ASSUME IInv
  PROVE  /\ Capacity \in Nat /\ 0 < Capacity
         /\ head \in Counter /\ tail \in Counter /\ cHead \in Counter /\ pTail \in Counter
         /\ Used \in Nat /\ Used <= Capacity /\ Used = Minus(head, tail)
         /\ Minus(cHead, tail) \in Nat /\ Minus(head, pTail) \in Nat
         /\ chunk \in Seq(Samples) /\ Len(chunk) \in Nat /\ stored \in 0 .. Len(chunk)
         /\ dest \in Seq(Samples) /\ Len(dest) \in Nat /\ want \in Nat
         /\ pPc = "storing" => Used + Len(chunk) <= Capacity
         /\ cPc \notin {"idle", "violated"} => Minus(cHead, tail) <= Used
         /\ cPc \in {"reading", "peeking", "skipping"} => want <= Used
<1>1. /\ Capacity \in Nat /\ 0 < Capacity
      /\ head \in Counter /\ tail \in Counter /\ cHead \in Counter /\ pTail \in Counter
      /\ dest \in Seq(Samples) /\ want \in Nat
  BY SizesAssumption DEF SizesAssumption, IInv, TypeOK
<1>2. chunk \in Seq(Samples) /\ Len(chunk) \in Nat /\ stored \in 0 .. Len(chunk)
  BY CounterFacts
<1>3. /\ Used = Minus(head, tail) /\ Used \in Nat
      /\ Minus(cHead, tail) \in Nat /\ Minus(head, pTail) \in Nat
  BY <1>1, MinusIs DEF Used, Counter
<1>4. /\ Used <= Capacity
      /\ pPc = "storing" => Used + Len(chunk) <= Capacity
      /\ cPc \notin {"idle", "violated"} => Minus(cHead, tail) <= Used
      /\ cPc \in {"reading", "peeking", "skipping"} => want <= Used
  BY <1>1, <1>2, <1>3 DEF IInv, OwnershipKept, StaleIsSafe
<1> QED BY <1>1, <1>2, <1>3, <1>4

(* Moving a counter twice or once at a time reaches the same slot.         *)
LEMMA PlusPlus ==
  ASSUME NEW t \in Counter, NEW n \in Nat, NEW k \in Nat, n + k <= Capacity
  PROVE  Index(Plus(Plus(t, n), k)) = Index(Plus(t, n + k))
<1>1. /\ Capacity \in Nat /\ Modulus \in Nat /\ t \in Nat
      /\ n \in 0 .. Capacity /\ k \in 0 .. Capacity /\ n + k \in 0 .. Capacity
  BY SizesAssumption DEF SizesAssumption, Counter
<1>2. Index(Plus(t, n + k)) = Index(t + n + k)
  BY <1>1, PlusSlot
<1>3. Plus(t, n) \in Counter /\ Plus(t, n) \in Nat
  BY <1>1, PlusIs DEF Counter
<1>4. Index(Plus(Plus(t, n), k)) = Index(Plus(t, n) + k)
  BY <1>1, <1>3, PlusSlot
<1>5. CASE t + n < Modulus
  BY <1>1, <1>2, <1>4, <1>5, PlusIs
<1>6. CASE ~(t + n < Modulus)
  <2>1. (Plus(t, n) + k) + Modulus = t + n + k
    BY <1>1, <1>6, PlusIs
  <2>2. Index((Plus(t, n) + k) + Modulus) = Index(Plus(t, n) + k)
    BY <1>1, <1>3, WrapKeepsSlot
  <2> QED BY <1>2, <1>4, <2>1, <2>2
<1> QED BY <1>5, <1>6

(* The slots past the head are those past the content, seen from the tail. *)
LEMMA PastHead ==
  ASSUME IInv, NEW k \in Nat, Used + k <= Capacity
  PROVE  Index(Plus(head, k)) = Index(Plus(tail, Used + k))
<1>1. Index(Plus(head, k)) = Index(tail + Used + k)
  BY Bounds, HeadSlot
<1>2. /\ Used + k \in 0 .. Capacity /\ tail \in Counter
      /\ tail + Used + k = tail + (Used + k)
  BY Bounds, SMTT(30) DEF Counter
<1> QED BY <1>1, <1>2, PlusSlot

(* Different positions within a capacity are different slots.              *)
LEMMA DistinctSlots ==
  ASSUME NEW t \in Counter, NEW i \in Nat, NEW j \in Nat, i < j, j < Capacity
  PROVE  Index(Plus(t, i)) # Index(Plus(t, j))
<1>1. /\ Capacity \in Nat /\ t \in Nat /\ i \in 0 .. Capacity /\ j \in 0 .. Capacity
  BY SizesAssumption DEF SizesAssumption, Counter
<1>2. Index(Plus(t, i)) = Index(t + i) /\ Index(Plus(t, j)) = Index(t + j)
  BY <1>1, PlusSlot
<1>3. t + i \in Nat /\ t + j \in Nat /\ t + i < t + j /\ (t + j) - (t + i) < Capacity
  BY <1>1
<1> QED BY <1>2, <1>3, NearIsDistinct

(* A position within a capacity is a slot.                                 *)
LEMMA IsSlot ==
  ASSUME NEW t \in Counter, NEW k \in Nat, k <= Capacity
  PROVE  Index(Plus(t, k)) \in Slots
<1>1. k \in 0 .. Capacity
  BY SizesAssumption DEF SizesAssumption
<1>2. Plus(t, k) \in Nat
  BY <1>1, PlusIs DEF Counter
<1> QED BY <1>2, SlotDivision

(* What the queue is made of.                                              *)
ContentMade ==
  /\ Content \in Seq(Samples)
  /\ Len(Content) = Used
  /\ \A k \in 1 .. Used : Content[k] = slot[Index(Plus(tail, k - 1))]

LEMMA ContentIs == IInv => ContentMade
<1> SUFFICES ASSUME IInv PROVE ContentMade
  OBVIOUS
<1>1. ASSUME NEW k \in 1 .. Used PROVE slot[Index(Plus(tail, k - 1))] \in Samples
  <2>1. k - 1 \in Nat /\ k - 1 <= Capacity /\ tail \in Counter
    BY Bounds
  <2>2. slot \in [Slots -> Samples]
    BY DEF IInv, TypeOK
  <2> QED BY <2>1, <2>2, IsSlot
<1>2. Used \in Nat
  BY Bounds
<1>3. Content \in [1 .. Used -> Samples]
  BY <1>1 DEF Content
<1>4. Content \in Seq(Samples) /\ Len(Content) = Used
  BY <1>2, <1>3, SeqDef, LenProperties
<1> QED BY <1>4 DEF ContentMade, Content

-----------------------------------------------------------------------------
(* The data invariant is inductive.                                        *)

LEMMA InitRInv == Init => RInv
<1> SUFFICES ASSUME Init PROVE RInv
  OBVIOUS
<1>1. IInv
  BY InitIInv
<1> QED BY <1>1 DEF RInv, DataInv, Init

LEMMA ProducerDataInv == RInv /\ Producer => DataInv'
<1> SUFFICES ASSUME RInv, Producer PROVE DataInv'
  OBVIOUS
<1> USE DEF consumerVars
<1>0. IInv /\ DataInv
  BY DEF RInv
<1>1. ASSUME NEW ch \in Chunks, WriteLoad(ch) PROVE DataInv'
  <2>1. ch # <<>> /\ ch \in Seq(Samples) /\ Len(ch) \in Nat
    BY DataAssumption DEF DataAssumption
  <2>2. Minus(head, tail) \in Nat
    BY <1>0, Bounds
  <2>3. pPc' = "refusing" => Uncounted'
    BY <1>1, <2>1, <2>2 DEF WriteLoad, Uncounted
  <2>4. UNCHANGED <<tail, slot, cPc, want, dest>> /\ stored' = 0 /\ pPc' # "idle"
    BY <1>1 DEF WriteLoad
  <2> QED BY <1>0, <2>3, <2>4 DEF DataInv
<1>2. CASE WriteRefuse
  BY <1>0, <1>2 DEF WriteRefuse, WriteReturns, DataInv
<1>3. CASE WriteSample
  <2>1. /\ stored \in Nat /\ stored < Len(chunk) /\ Len(chunk) \in Nat
        /\ Used + Len(chunk) <= Capacity /\ Used \in Nat /\ Capacity \in Nat
        /\ head \in Counter /\ tail \in Counter
    BY <1>0, <1>3, Bounds DEF WriteSample
  <2> DEFINE target == Index(Plus(head, stored))
  <2>2. target \in Slots /\ slot \in [Slots -> Samples]
    BY <1>0, <2>1, IsSlot DEF IInv, TypeOK
  <2>3. slot' = [slot EXCEPT ![target] = chunk[stored + 1]]
    BY <1>3 DEF WriteSample
  <2>4. UNCHANGED <<head, tail, pPc, chunk, cPc, cHead, want, dest>> /\ stored' = stored + 1
    BY <1>3 DEF WriteSample
  <2>5. ASSUME NEW k \in 0 .. stored' - 1
        PROVE  slot'[Index(Plus(head, k))] = chunk[k + 1]
    <3>1. k \in Nat /\ k <= stored
      BY <2>1, <2>4
    <3>2. CASE k = stored
      BY <2>2, <2>3, <3>2
    <3>3. CASE k < stored
      <4>1. Index(Plus(head, k)) # target
        BY <2>1, <3>1, <3>3, DistinctSlots
      <4>2. slot[Index(Plus(head, k))] = chunk[k + 1]
        BY <1>0, <1>3, <2>1, <3>1, <3>3 DEF DataInv, WriteSample
      <4> HIDE DEF target
      <4> QED BY <2>2, <2>3, <4>1, <4>2
    <3> QED BY <3>1, <3>2, <3>3, <2>1
  <2>6. ASSUME cPc \in {"reading", "peeking"}, NEW k \in 1 .. Len(dest)
        PROVE  slot'[Index(Plus(tail, k - 1))] = slot[Index(Plus(tail, k - 1))]
    <3>1. /\ k - 1 \in Nat /\ k - 1 < Used + stored /\ Used + stored < Capacity
          /\ Used + stored \in Nat
      BY <1>0, <2>1, <2>6, Bounds DEF DataInv
    <3>2. target = Index(Plus(tail, Used + stored))
      BY <1>0, <2>1, PastHead
    <3>3. Index(Plus(tail, k - 1)) # target
      BY <2>1, <3>1, <3>2, DistinctSlots
    <3> HIDE DEF target
    <3> QED BY <2>2, <2>3, <3>3
  <2> HIDE DEF target
  <2>7. pPc' = "storing"
    BY <1>3 DEF WriteSample
  <2> QED BY <1>0, <2>4, <2>5, <2>6, <2>7 DEF DataInv
<1>4. CASE WriteCommit
  BY <1>0, <1>4 DEF WriteCommit, WriteReturns, DataInv
<1>5. CASE ProducerDies
  BY <1>0, <1>5 DEF ProducerDies, DataInv
<1> QED BY <1>1, <1>2, <1>3, <1>4, <1>5 DEF Producer

LEMMA ConsumerDataInv == RInv /\ Consumer => DataInv'
<1> SUFFICES ASSUME RInv, Consumer PROVE DataInv'
  OBVIOUS
<1>0. IInv /\ DataInv
  BY DEF RInv
<1>1. /\ UNCHANGED <<head, overflow, slot, pPc, pTail, chunk, stored>>
      /\ Uncounted' = Uncounted
  BY DEF Consumer, ReadLoad, PeekLoad, SkipLoad, Load, FlushLoad, CopySample,
         ReadCommit, PeekReturn, SkipCommit, FlushCommit,
         ConsumerKeeps, producerVars, Uncounted
<1>2. (cPc \in {"reading", "peeking"} =>
        /\ Len(dest) <= want
        /\ \A k \in 1 .. Len(dest) : dest[k] = slot[Index(Plus(tail, k - 1))])'
  <2>2. ASSUME NEW n \in 0 .. MaxRequest, ReadLoad(n) \/ PeekLoad(n) \/ SkipLoad(n)
        PROVE  Len(dest') = 0 /\ want' \in Nat
    <3>1. n \in Nat /\ Smaller(n, Minus(head, tail)) \in Nat
      BY <1>0, DataAssumption, Bounds DEF DataAssumption, Smaller
    <3>2. CASE ReadLoad(n)
      BY <3>1, <3>2 DEF ReadLoad, Load
    <3>3. CASE PeekLoad(n)
      BY <3>1, <3>3 DEF PeekLoad, Load
    <3>4. CASE SkipLoad(n)
      BY <3>1, <3>4 DEF SkipLoad, Load
    <3> QED BY <2>2, <3>2, <3>3, <3>4
  <2>3. CASE CopySample
    <3>1. dest \in Seq(Samples) /\ Len(dest) \in Nat /\ want \in Nat
      BY <1>0, Bounds
    <3> DEFINE x == slot[Index(Plus(tail, Len(dest)))]
    <3>2. x \in Samples
      <4>1. Len(dest) <= Capacity /\ tail \in Counter
        BY <1>0, <2>3, <3>1, Bounds DEF CopySample
      <4> QED BY <1>0, <3>1, <4>1, IsSlot DEF IInv, TypeOK
    <3>3. dest' = Append(dest, x) /\ Len(dest) < want /\ UNCHANGED <<tail, cPc, want>>
      BY <2>3 DEF CopySample
    <3>4. cPc \in {"reading", "peeking"}
      BY <2>3 DEF CopySample
    <3> HIDE DEF x
    <3>5. /\ Len(dest') = Len(dest) + 1
          /\ dest'[Len(dest) + 1] = x
          /\ \A k \in 1 .. Len(dest) : dest'[k] = dest[k]
      BY <3>1, <3>2, <3>3, AppendProperties
    <3>6. ASSUME NEW k \in 1 .. Len(dest')
          PROVE  dest'[k] = slot[Index(Plus(tail, k - 1))]
      <4>1. CASE k = Len(dest) + 1
        BY <3>1, <3>5, <4>1 DEF x
      <4>2. CASE k \in 1 .. Len(dest)
        BY <1>0, <3>4, <3>5, <4>2 DEF DataInv
      <4> QED BY <3>1, <3>5, <4>1, <4>2
    <3> QED BY <1>1, <3>1, <3>3, <3>5, <3>6
  <2>4. CASE FlushLoad \/ ReadCommit \/ PeekReturn \/ SkipCommit \/ FlushCommit
    BY <2>4 DEF FlushLoad, ReadCommit, PeekReturn, SkipCommit, FlushCommit,
                ConsumerReturns
  <2>5. ASSUME Len(dest') = 0, want' \in Nat
        PROVE  /\ Len(dest') <= want'
               /\ \A k \in 1 .. Len(dest') : FALSE
    BY <2>5
  <2> QED BY <2>2, <2>3, <2>4, <2>5 DEF Consumer
<1> QED BY <1>0, <1>1, <1>2 DEF DataInv

LEMMA RInvariance == Spec => []RInv
<1>1. RInv /\ [Next]_vars => RInv'
  <2>1. RInv /\ UNCHANGED vars => DataInv'
    BY DEF RInv, DataInv, Uncounted, vars, producerVars, consumerVars
  <2> QED BY <2>1, NextIInv, ProducerDataInv, ConsumerDataInv DEF RInv, Next
<1> QED BY <1>1, InitRInv, PTL DEF Spec

-----------------------------------------------------------------------------
(* Every step of the ring is a step of the queue, or none.                 *)

(* A step that leaves the counters and the slots alone leaves the queue.   *)
LEMMA QueueKept ==
  ASSUME UNCHANGED <<head, tail, slot>>
  PROVE  Content' = Content
BY DEF Content, Used

(* The tail moved forward: the oldest samples leave the queue.             *)
LEMMA QueueRest ==
  ASSUME IInv, IInv', NEW n \in Nat, n <= Used, tail' = Plus(tail, n),
         Used' = Used - n, slot' = slot
  PROVE  Content' = Fifo!Rest(Content, n)
<1>1. /\ Content \in Seq(Samples) /\ Len(Content) = Used
      /\ \A k \in 1 .. Used : Content[k] = slot[Index(Plus(tail, k - 1))]
  BY ContentIs DEF ContentMade
<1>2. /\ Content' \in Seq(Samples) /\ Len(Content') = Used'
      /\ \A k \in 1 .. Used' : Content'[k] = slot'[Index(Plus(tail', k - 1))]
  <2>1. IInv' => ContentMade'
    BY ContentIs, PTL
  <2> QED BY <2>1 DEF ContentMade
<1> DEFINE rest == SubSeq(Content, n + 1, Used)
<1>3. Used \in Nat /\ Used <= Capacity /\ Capacity \in Nat /\ tail \in Counter
  BY Bounds
<1>4. /\ rest \in Seq(Samples) /\ Len(rest) = Used - n
      /\ \A k \in 1 .. Used - n : rest[k] = Content[n + k]
  <2>1. n + 1 \in Int /\ Used \in Int
    BY <1>3
  <2>2. \A i \in n + 1 .. Used : Content[i] \in Samples
    BY <1>1, <1>3, ElementOfSeq
  <2>3. /\ rest \in Seq(Samples)
        /\ Len(rest) = IF n + 1 <= Used THEN Used - (n + 1) + 1 ELSE 0
        /\ \A k \in 1 .. Used - (n + 1) + 1 : rest[k] = Content[(n + 1) + k - 1]
    BY <2>1, <2>2, SubSeqProperties
  <2>4. \A k \in 1 .. Used - n : k \in 1 .. Used - (n + 1) + 1 /\ (n + 1) + k - 1 = n + k
    BY <1>3
  <2> QED BY <1>3, <2>3, <2>4
<1> HIDE DEF rest
<1>5. ASSUME NEW k \in 1 .. Used - n PROVE Content'[k] = rest[k]
  <2>1. /\ k - 1 \in Nat /\ n + (k - 1) <= Capacity /\ n + k \in 1 .. Used
        /\ (n + k) - 1 = n + (k - 1)
    BY <1>3
  <2>2. Content'[k] = slot[Index(Plus(Plus(tail, n), k - 1))]
    BY <1>2
  <2>3. Index(Plus(Plus(tail, n), k - 1)) = Index(Plus(tail, n + (k - 1)))
    BY <1>3, <2>1, PlusPlus
  <2>4. Content[n + k] = slot[Index(Plus(tail, n + (k - 1)))]
    BY <1>1, <2>1
  <2> QED BY <1>4, <2>2, <2>3, <2>4
<1>6. Content' = rest
  BY <1>2, <1>4, <1>5, SeqEqual
<1> QED BY <1>1, <1>6 DEF Fifo!Rest, rest

(* The head moved forward over a stored chunk: it enters the queue.        *)
LEMMA QueuePut ==
  ASSUME RInv, IInv', WriteCommit
  PROVE  Content' = Content \o chunk /\ Used + Len(chunk) <= Capacity
<1>0. IInv /\ DataInv
  BY DEF RInv
<1> DEFINE n == Len(chunk)
<1>1. /\ Used \in Nat /\ n \in Nat /\ Used + n <= Capacity /\ Capacity \in Nat
      /\ head \in Counter /\ tail \in Counter /\ chunk \in Seq(Samples)
      /\ Used = Minus(head, tail)
  BY <1>0, Bounds DEF WriteCommit
<1>2. Used' = Used + n
  <2>1. n <= Capacity
    BY <1>1
  <2>2. Minus(Plus(head, n), tail) = Minus(head, tail) + n
    BY <1>1, <2>1, Advanced
  <2> QED BY <1>1, <2>2 DEF WriteCommit, Used
<1>3. /\ Content \in Seq(Samples) /\ Len(Content) = Used
      /\ \A k \in 1 .. Used : Content[k] = slot[Index(Plus(tail, k - 1))]
  BY <1>0, ContentIs DEF ContentMade
<1>4. /\ Content' \in Seq(Samples) /\ Len(Content') = Used'
      /\ \A k \in 1 .. Used' : Content'[k] = slot'[Index(Plus(tail', k - 1))]
  <2>1. IInv' => ContentMade'
    BY ContentIs, PTL
  <2> QED BY <2>1 DEF ContentMade
<1>5. /\ Content \o chunk \in Seq(Samples) /\ Len(Content \o chunk) = Used + n
      /\ \A k \in 1 .. Used + n : (Content \o chunk)[k] =
           IF k <= Used THEN Content[k] ELSE chunk[k - Used]
  BY <1>1, <1>3, ConcatProperties
<1>6. ASSUME NEW k \in 1 .. Used + n PROVE Content'[k] = (Content \o chunk)[k]
  <2>1. Content'[k] = slot[Index(Plus(tail, k - 1))]
    BY <1>2, <1>4 DEF WriteCommit, consumerVars
  <2>2. CASE k <= Used
    BY <1>1, <1>3, <1>5, <2>1, <2>2
  <2>3. CASE ~(k <= Used)
    <3> DEFINE j == k - 1 - Used
    <3>1. j \in 0 .. n - 1 /\ j \in Nat /\ Used + j = k - 1 /\ j + 1 = k - Used
          /\ Used + j <= Capacity
      BY <1>1, <2>3
    <3>2. Index(Plus(head, j)) = Index(Plus(tail, k - 1))
      BY <1>0, <3>1, PastHead
    <3>3. slot[Index(Plus(head, j))] = chunk[k - Used]
      BY <1>0, <3>1 DEF DataInv, WriteCommit
    <3>4. (Content \o chunk)[k] = chunk[k - Used]
      <4>1. ~(k <= Used)
        BY <1>1, <2>3
      <4> QED BY <1>5, <4>1
    <3> HIDE DEF j
    <3> QED BY <2>1, <3>2, <3>3, <3>4
  <2>4. k \in Nat /\ Used \in Nat
    BY <1>1
  <2> QED BY <2>2, <2>3, <2>4
<1> HIDE DEF n
<1>7. Content' = Content \o chunk
  BY <1>2, <1>4, <1>5, <1>6, SeqEqual
<1> QED BY <1>1, <1>7 DEF n

(* What the consumer copied is the oldest part of the queue.               *)
LEMMA CopiedPrefix ==
  ASSUME RInv, cPc \in {"reading", "peeking"}, Len(dest) = want
  PROVE  dest = Fifo!Prefix(Content, want) /\ want <= Used
<1>0. IInv /\ DataInv
  BY DEF RInv
<1>1. want \in Nat /\ want <= Used /\ Used \in Nat /\ dest \in Seq(Samples)
  BY <1>0, Bounds
<1>2. /\ Content \in Seq(Samples) /\ Len(Content) = Used
      /\ \A k \in 1 .. Used : Content[k] = slot[Index(Plus(tail, k - 1))]
  BY <1>0, ContentIs DEF ContentMade
<1> DEFINE prefix == SubSeq(Content, 1, want)
<1>3. /\ prefix \in Seq(Samples) /\ Len(prefix) = want
      /\ \A k \in 1 .. want : prefix[k] = Content[k]
  <2>1. \A i \in 1 .. want : Content[i] \in Samples
    BY <1>1, <1>2, ElementOfSeq
  <2>2. /\ prefix \in Seq(Samples)
        /\ Len(prefix) = IF 1 <= want THEN want - 1 + 1 ELSE 0
        /\ \A k \in 1 .. want - 1 + 1 : prefix[k] = Content[1 + k - 1]
    BY <1>1, <2>1, SubSeqProperties
  <2>3. \A k \in 1 .. want : k \in 1 .. want - 1 + 1 /\ 1 + k - 1 = k
    BY <1>1
  <2> QED BY <1>1, <2>2, <2>3
<1> HIDE DEF prefix
<1>4. ASSUME NEW k \in 1 .. want PROVE dest[k] = prefix[k]
  <2>1. k \in 1 .. Used
    BY <1>1
  <2>2. dest[k] = slot[Index(Plus(tail, k - 1))]
    BY <1>0 DEF DataInv
  <2> QED BY <1>2, <1>3, <2>1, <2>2
<1>5. dest = prefix
  BY <1>1, <1>3, <1>4, SeqEqual
<1> QED BY <1>1, <1>5 DEF Fifo!Prefix, prefix

LEMMA InitQueue == Init => Fifo!Init
<1> SUFFICES ASSUME Init PROVE Fifo!Init
  OBVIOUS
<1>1. IInv
  BY InitIInv
<1>2. Used = 0
  BY MinusIs, SizesAssumption DEF Init, Used, Counter, SizesAssumption
<1>3. Content = <<>>
  <2>1. Content \in Seq(Samples) /\ Len(Content) = 0
    BY <1>1, <1>2, ContentIs DEF ContentMade
  <2> QED BY <2>1, EmptySeq
<1>4. ~Uncounted
  BY DEF Init, Uncounted
<1> QED BY <1>3, <1>4 DEF Init, Fifo!Init

(* A step of the producer that neither publishes nor refuses is silent,    *)
(* and a refusal happens when the tail is loaded.                          *)
LEMMA ProducerStep == RInv /\ IInv' /\ Producer => [Fifo!Next]_(Fifo!fifoVars)
<1> SUFFICES ASSUME RInv, IInv', Producer PROVE [Fifo!Next]_(Fifo!fifoVars)
  OBVIOUS
<1> DEFINE pending == IF Uncounted THEN 1 ELSE 0
<1>0. IInv /\ DataInv /\ Content \in Seq(Samples) /\ Len(Content) = Used
  BY ContentIs DEF RInv, ContentMade
<1>1. ASSUME NEW ch \in Chunks, WriteLoad(ch)
      PROVE  [Fifo!Next]_(Fifo!fifoVars)
  <2>1. Content' = Content /\ out' = out /\ overflow' = overflow
    BY <1>1, QueueKept DEF WriteLoad, consumerVars
  <2>2. ~Uncounted
    BY <1>1 DEF WriteLoad, Uncounted
  <2>3. CASE pPc' = "refusing"
    <3>1. ch # <<>> /\ ch \in Seq(Samples) /\ Len(ch) \in Nat
      BY DataAssumption DEF DataAssumption
    <3>2. Len(ch) > Capacity - Used /\ Used \in Nat /\ Capacity \in Nat
      BY <1>0, <1>1, <2>3, Bounds DEF WriteLoad
    <3>3. Uncounted'
      BY <1>1, <2>3, <3>1, <3>2 DEF WriteLoad, Uncounted, Used
    <3>4. Len(Content) + Len(ch) > Capacity
      BY <1>0, <3>1, <3>2
    <3>5. Fifo!Refuse(ch)
      <4>1. overflow \in Nat
        BY <1>0 DEF IInv, TypeOK
      <4> QED BY <2>1, <2>2, <3>3, <3>4, <4>1 DEF Fifo!Refuse
    <3> QED BY <3>5 DEF Fifo!Next
  <2>4. CASE pPc' # "refusing"
    <3>1. ~Uncounted'
      BY <1>1, <2>4 DEF WriteLoad, Uncounted
    <3> QED BY <2>1, <2>2, <3>1 DEF Fifo!fifoVars
  <2> QED BY <2>3, <2>4
<1>2. CASE WriteRefuse
  <2>1. Content' = Content /\ out' = out /\ overflow' = overflow + 1 /\ overflow \in Nat
    BY <1>0, <1>2, QueueKept DEF WriteRefuse, consumerVars, IInv, TypeOK
  <2>2. Uncounted
    BY <1>0, <1>2 DEF WriteRefuse, DataInv
  <2>3. ~Uncounted'
    BY <1>2 DEF WriteRefuse, WriteReturns, Uncounted
  <2> QED BY <2>1, <2>2, <2>3 DEF Fifo!fifoVars
<1>3. CASE WriteSample
  <2>1. Content' = Content
    <3>1. /\ stored \in Nat /\ stored < Len(chunk) /\ Len(chunk) \in Nat
          /\ Used + Len(chunk) <= Capacity /\ Used \in Nat /\ Capacity \in Nat
          /\ head \in Counter /\ tail \in Counter
      BY <1>0, <1>3, Bounds DEF WriteSample
    <3> DEFINE target == Index(Plus(head, stored))
    <3>2. target = Index(Plus(tail, Used + stored))
      BY <1>0, <3>1, PastHead
    <3>3. target \in Slots /\ slot \in [Slots -> Samples]
      BY <1>0, <3>1, IsSlot DEF IInv, TypeOK
    <3>4. /\ slot' = [slot EXCEPT ![target] = chunk[stored + 1]]
          /\ head' = head /\ tail' = tail
      BY <1>3 DEF WriteSample
    <3>5. ASSUME NEW k \in 1 .. Used
          PROVE  slot'[Index(Plus(tail, k - 1))] = slot[Index(Plus(tail, k - 1))]
      <4>1. /\ k - 1 \in Nat /\ k - 1 < Used + stored
            /\ Used + stored \in Nat /\ Used + stored < Capacity
        BY <3>1
      <4>2. Index(Plus(tail, k - 1)) # target
        BY <3>1, <3>2, <4>1, DistinctSlots
      <4> HIDE DEF target
      <4> QED BY <3>3, <3>4, <4>2
    <3> HIDE DEF target
    <3> QED BY <3>4, <3>5 DEF Content, Used
  <2>2. ~Uncounted /\ ~Uncounted' /\ overflow' = overflow /\ out' = out
    BY <1>3 DEF WriteSample, Uncounted, consumerVars
  <2> QED BY <2>1, <2>2 DEF Fifo!fifoVars
<1>4. CASE WriteCommit
  <2>1. Content' = Content \o chunk /\ Used + Len(chunk) <= Capacity
    BY <1>4, QueuePut
  <2>2. ~Uncounted /\ ~Uncounted' /\ overflow' = overflow /\ out' = out
    BY <1>4 DEF WriteCommit, WriteReturns, Uncounted, consumerVars
  <2>3. CASE chunk = <<>>
    BY <1>0, <2>1, <2>2, <2>3, ConcatEmptySeq DEF Fifo!fifoVars
  <2>4. CASE chunk \in Chunks
    BY <1>0, <2>1, <2>2, <2>4 DEF Fifo!Next, Fifo!Put
  <2> QED BY <1>0, <2>3, <2>4 DEF IInv, TypeOK
<1>5. CASE ProducerDies
  <2>1. Content' = Content /\ overflow' = overflow /\ out' = out
    BY <1>5, QueueKept DEF ProducerDies, consumerVars
  <2>2. Uncounted' = Uncounted
    <3>1. pPc = "storing" => ~(Len(chunk) > Capacity - Minus(head, pTail))
      BY <1>0, Bounds DEF IInv, StaleIsSafe
    <3>2. pPc = "idle" => chunk = <<>>
      BY <1>0 DEF DataInv
    <3>3. /\ pPc \in {"idle", "storing", "refusing"} /\ pPc' = "dead"
          /\ UNCHANGED <<head, pTail, chunk>>
      BY <1>5 DEF ProducerDies
    <3> QED BY <3>1, <3>2, <3>3 DEF Uncounted
  <2> QED BY <2>1, <2>2 DEF Fifo!fifoVars
<1> QED BY <1>1, <1>2, <1>3, <1>4, <1>5 DEF Producer

(* Samples are delivered, or dropped, when the tail is published.          *)
LEMMA ConsumerStep == RInv /\ IInv' /\ Consumer => [Fifo!Next]_(Fifo!fifoVars)
<1> SUFFICES ASSUME RInv, IInv', Consumer PROVE [Fifo!Next]_(Fifo!fifoVars)
  OBVIOUS
<1> USE DEF ConsumerKeeps, producerVars
<1>0. /\ IInv /\ Content \in Seq(Samples) /\ Len(Content) = Used
      /\ Used \in Nat /\ want \in Nat /\ Capacity \in Nat /\ Used <= Capacity
      /\ head \in Counter /\ tail \in Counter /\ cHead \in Counter
      /\ Minus(cHead, tail) \in Nat
  BY ContentIs, Bounds DEF RInv, ContentMade
<1>1. overflow' = overflow /\ Uncounted' = Uncounted /\ UNCHANGED <<head, slot>>
  BY DEF Consumer, ReadLoad, PeekLoad, SkipLoad, Load, FlushLoad, CopySample,
         ReadCommit, PeekReturn, SkipCommit, FlushCommit, Uncounted
<1>2. ASSUME UNCHANGED <<tail, out>> PROVE UNCHANGED Fifo!fifoVars
  BY <1>1, <1>2, QueueKept DEF Fifo!fifoVars
<1>3. ASSUME NEW n \in 0 .. MaxRequest, ReadLoad(n) \/ PeekLoad(n) \/ SkipLoad(n)
      PROVE  UNCHANGED Fifo!fifoVars
  BY <1>2, <1>3 DEF ReadLoad, PeekLoad, SkipLoad, Load
<1>4. CASE FlushLoad \/ CopySample
  BY <1>2, <1>4 DEF FlushLoad, CopySample
<1>5. ASSUME NEW n \in Nat, n <= Used, tail' = Plus(tail, n), out' = out \/ out' = Fifo!Prefix(Content, n)
      PROVE  Fifo!Next
  <2>1. Used' = Used - n
    <3>1. n <= Capacity
      BY <1>0, <1>5
    <3>2. Minus(head, Plus(tail, n)) = Minus(head, tail) - n
      BY <1>0, <1>5, <3>1, Advanced DEF Used
    <3> QED BY <1>1, <1>5, <3>2 DEF Used
  <2>2. Content' = Fifo!Rest(Content, n)
    BY <1>0, <1>1, <1>5, <2>1, QueueRest
  <2>3. n \in 0 .. Len(Content)
    BY <1>0, <1>5
  <2>4. Fifo!Take(n) \/ Fifo!Discard(n)
    BY <1>1, <1>5, <2>2 DEF Fifo!Take, Fifo!Discard
  <2> QED BY <2>3, <2>4 DEF Fifo!Next
<1>6. CASE ReadCommit
  <2>1. dest = Fifo!Prefix(Content, want) /\ want <= Used
    BY <1>6, CopiedPrefix DEF ReadCommit
  <2> QED BY <1>0, <1>5, <1>6, <2>1 DEF ReadCommit
<1>7. CASE PeekReturn
  <2>1. dest = Fifo!Prefix(Content, want) /\ want <= Used
    BY <1>7, CopiedPrefix DEF PeekReturn
  <2>2. Content' = Content
    BY <1>1, <1>7, QueueKept DEF PeekReturn
  <2>3. want \in 0 .. Len(Content)
    BY <1>0, <2>1
  <2>4. Fifo!Peek(want)
    BY <1>1, <1>7, <2>1, <2>2 DEF PeekReturn, Fifo!Peek
  <2> QED BY <2>3, <2>4 DEF Fifo!Next
<1>8. CASE SkipCommit
  <2>1. want <= Used
    BY <1>0, <1>8, Bounds DEF SkipCommit
  <2> QED BY <1>0, <1>5, <1>8, <2>1 DEF SkipCommit
<1>9. CASE FlushCommit
  <2> DEFINE n == Minus(cHead, tail)
  <2>1. n \in Nat /\ n <= Used /\ n <= Capacity
    BY <1>0, <1>9, Bounds DEF FlushCommit
  <2>2. Plus(tail, n) = cHead
    <3>1. /\ n \in 0 .. Capacity /\ tail \in 0 .. Modulus - 1 /\ cHead \in 0 .. Modulus - 1
          /\ Modulus \in Nat
      BY <1>0, <2>1, SizesAssumption DEF Counter, SizesAssumption
    <3>2. n = IF cHead >= tail THEN cHead - tail ELSE cHead - tail + Modulus
      BY <1>0, MinusIs
    <3>3. Plus(tail, n) = IF tail + n < Modulus THEN tail + n ELSE tail + n - Modulus
      BY <1>0, <3>1, PlusIs
    <3> HIDE DEF n
    <3> QED BY <3>1, <3>2, <3>3
  <2> HIDE DEF n
  <2> QED BY <1>5, <1>9, <2>1, <2>2 DEF FlushCommit
<1> QED BY <1>3, <1>4, <1>6, <1>7, <1>8, <1>9 DEF Consumer

(* The shared-memory ring, with its counters that wrap and its stale       *)
(* loads, implements the bounded queue: nothing is lost, duplicated,       *)
(* reordered or torn between a producer and a consumer that may stop or    *)
(* die anywhere.                                                           *)
THEOREM Refinement == Spec => ImplementsFifo
<1>1. RInv /\ RInv' /\ [Next]_vars => [Fifo!Next]_(Fifo!fifoVars)
  <2>1. UNCHANGED vars => UNCHANGED Fifo!fifoVars
    BY DEF vars, consumerVars, producerVars, Fifo!fifoVars, Content, Used, Uncounted
  <2> QED BY <2>1, ProducerStep, ConsumerStep DEF Next, RInv
<1> QED BY <1>1, InitQueue, RInvariance, PTL DEF Spec, ImplementsFifo, Fifo!Spec

-----------------------------------------------------------------------------
(* The two streams: their types.                                           *)

\* A confirmation is outstanding until the lock.
ConfirmationsLeft == pc \in {"advance", "verify"} => good < Confirmations

TypeInv == StreamTypeOK /\ ConfirmationsLeft

\* The initial values have their types.
LEMMA TypeInit == StreamInit => TypeInv
<1>. SUFFICES ASSUME StreamInit PROVE TypeInv
  OBVIOUS
<1>1. /\ running \in BOOLEAN /\ isAligned \in BOOLEAN /\ calibrated \in BOOLEAN
      /\ primed \in BOOLEAN /\ cycleOk \in BOOLEAN /\ flushed \in BOOLEAN
      /\ started \in [Chan -> BOOLEAN] /\ gap \in [Chan -> BOOLEAN]
      /\ lost \in [Chan -> BOOLEAN] /\ broken \in [Chan -> BOOLEAN]
  BY Zenon DEF StreamInit
<1>2. options \in [skip : BOOLEAN, cal : BOOLEAN, switch : BOOLEAN]
  <2>1. \A a, b, c \in BOOLEAN :
          [skip |-> a, cal |-> b, switch |-> c]
            \in [skip : BOOLEAN, cal : BOOLEAN, switch : BOOLEAN]
    OBVIOUS
  <2>. QED
    BY <2>1, Zenon DEF StreamInit
<1>3. offset \in Int
  BY BoundsAssumption DEF StreamInit
<1>. QED
  BY <1>1, <1>2, <1>3, StreamSizes, BoundsAssumption, LiesAssumption
     DEF StreamInit, TypeInv, StreamTypeOK, ConfirmationsLeft, Chan, PCs

\* Every step of main() and of the receivers keeps the types: reads and skips
\* follow a test of what is there, and a batch is stored only where it fits.
LEMMA TypeStep == TypeInv /\ [StreamNext]_streamVars => TypeInv'
<1>. SUFFICES ASSUME TypeInv, [StreamNext]_streamVars PROVE TypeInv'
  OBVIOUS
<1>. USE StreamSizes, BoundsAssumption, LiesAssumption
     DEF TypeInv, StreamTypeOK, ConfirmationsLeft, Chan, PCs
<1>1. CASE Gate(1, "gate1", "gate2")
  BY <1>1 DEF Gate, Go, tails, producer, align, dsp, report, verdict
<1>2. CASE Gate(2, "gate2", "warmup")
  BY <1>2 DEF Gate, Go, tails, producer, align, dsp, report, verdict
<1>3. CASE WarmUp
  BY <1>3 DEF WarmUp, Go, Throw, Stop, tails, producer, align, dsp, report,
       verdict
<1>4. CASE FlushStart(1, "flush1", "flush2", state)
  BY <1>4 DEF FlushStart, Flush, tails, producer, align, dsp, report, verdict
<1>5. CASE FlushStart(2, "flush2", IF options.skip THEN "ready" ELSE "acquire1",
                   IF options.skip THEN "UNALIGNED" ELSE "ALIGNING")
  BY <1>5 DEF FlushStart, Flush, tails, producer, align, dsp, report, verdict
<1>6. CASE Attempt
  BY <1>6 DEF Attempt, Flush, Go, Throw, Stop, alignRest, tails, producer,
       align, dsp, report, verdict
<1>7. CASE AttemptFlush
  BY <1>7 DEF AttemptFlush, Flush, Go, alignRest, tails, producer, align, dsp,
       report, verdict
<1>8. CASE AlignFails
  BY <1>8 DEF AlignFails, Throw, Stop, alignRest, tails, producer, align, dsp,
       report, verdict
<1>9. CASE MeasuredWeak
  BY <1>9 DEF MeasuredWeak, Go, alignRest, tails, producer, align, dsp,
       report, verdict
<1>10. CASE (\E lag \in Lags : Measure(lag))
  BY <1>10 DEF Measure, SnapshotReady, Avail, Confident, Honest, Lags, Abs,
       Go, alignRest, tails, producer, align, dsp, report, verdict
<1>11. CASE (\E lag \in Lags : Verify(lag))
  BY <1>11 DEF Verify, Confident, Honest, Lags, Abs, Go, alignRest, tails,
       producer, align, dsp, report, verdict
<1>12. CASE AdvanceSnapshot
  BY <1>12 DEF AdvanceSnapshot, SnapshotReady, Avail, Advance, Larger, Go,
       alignRest, tails, producer, align, dsp, report, verdict
<1>13. CASE Lock
  BY <1>13 DEF Lock, Go, alignRest, tails, producer, align, dsp, report,
       verdict
<1>14. CASE Source
  BY <1>14 DEF Source, Go, Throw, Stop, sourceRest, tails, producer, align,
       dsp, report, verdict
<1>15. CASE Settle
  BY <1>15 DEF Settle, Larger, Go, Throw, Stop, sourceRest, tails, producer,
       align, dsp, report, verdict
<1>16. CASE Watermark
  BY <1>16 DEF Watermark, Larger, Go, sourceRest, tails, producer, align, dsp,
       report, verdict
<1>17. CASE Discard
  BY <1>17 DEF Discard, Awaited, Avail, Advance, Larger, Go, Throw, Stop,
       sourceRest, tails, producer, align, dsp, report, verdict
<1>18. CASE Settled
  BY <1>18 DEF Settled, Go, Throw, Stop, sourceRest, tails, producer, align,
       dsp, report, verdict
<1>19. CASE Prime
  <2>1. primed' \in BOOLEAN
    BY <1>19, Zenon DEF Prime
  <2>. QED
    BY <1>19, <2>1 DEF Prime, Go, Throw, Stop, dspRest, tails, producer,
         align, dsp, report, verdict
<1>20. CASE PrimeRead
  <2>1. primed' \in BOOLEAN
    BY <1>20, Zenon DEF PrimeRead
  <2>. QED
    BY <1>20, <2>1 DEF PrimeRead, Avail, Advance, Larger, Go, Throw, Stop,
         dspRest, tails, producer, align, dsp, report, verdict
<1>21. CASE Primed
  BY <1>21 DEF Primed, Go, Throw, Stop, dspRest, tails, producer, align, dsp,
       report, verdict
<1>22. CASE CycleRead
  BY <1>22 DEF CycleRead, Avail, Advance, Larger, Go, dspRest, tails,
       producer, align, dsp, report, verdict
<1>23. CASE CycleDone
  BY <1>23 DEF CycleDone, Go, dspRest, tails, producer, align, dsp, report,
       verdict
<1>24. CASE CycleThrows
  <2>1. primed' \in BOOLEAN /\ cycleOk' \in BOOLEAN
    BY <1>24, Zenon DEF CycleThrows
  <2>. QED
    BY <1>24, <2>1 DEF CycleThrows, Go, Throw, Stop, dspRest, tails, producer,
         align, dsp, report, verdict
<1>25. CASE PrepareObservation
  BY <1>25 DEF PrepareObservation, Go, Throw, Stop, mainRest, tails, producer,
       align, dsp, report, verdict
<1>26. CASE Calibrate
  <2>1. calibrated' \in BOOLEAN
    BY <1>26, Zenon DEF Calibrate
  <2>. QED
    BY <1>26, <2>1 DEF Calibrate, Go, Throw, Stop, mainRest, tails, producer,
         align, dsp, report, verdict
<1>27. CASE Loop
  BY <1>27 DEF Loop, Go, Throw, Stop, mainRest, tails, producer, align, dsp,
       report, verdict
<1>28. CASE Judge
  BY <1>28 DEF Judge, Go, Throw, Stop, mainRest, tails, producer, align, dsp,
       report, verdict
<1>29. CASE Recover(1, "recover1", "recover2")
  BY <1>29 DEF Recover, Flush, Go, mainRest, tails, producer, align, dsp,
       report, verdict
<1>30. CASE Recover(2, "recover2", "prime")
  BY <1>30 DEF Recover, Flush, Go, mainRest, tails, producer, align, dsp,
       report, verdict
<1>31. CASE Publish
  <2>1. flushed' \in BOOLEAN
    BY <1>31, Zenon DEF Publish
  <2>. QED
    BY <1>31, <2>1 DEF Publish, Go, Throw, Stop, mainRest, tails, producer,
         align, dsp, report, verdict
<1>32. CASE \E p \in Chan : Callback(p)
  <2>. PICK p \in Chan : Callback(p)
    BY <1>32
  <2>1. CASE gap[p]
    BY <2>1 DEF Callback, consumer, tails, align, dsp, report, verdict
  <2>2. CASE ~gap[p] /\ Batch <= RingCapacity - fill[p]
    <3>1. broken' = [broken EXCEPT ![p] = broken[p] \/ lost[p]]
      BY <2>2 DEF Callback, Write
    <3>2. broken' \in [Chan -> BOOLEAN]
      BY <3>1, Zenon
    <3>3. /\ fill' = [fill EXCEPT ![p] = @ + Batch]
          /\ UNCHANGED <<cb, drops, lost, offset, transient, started, gap, consumer>>
      BY <2>2 DEF Callback, Write
    <3>4. fill' \in [Chan -> 0 .. RingCapacity]
      BY <2>2, <3>3
    <3>5. /\ UNCHANGED <<cb, drops, lost, offset, transient, started, gap>>
          /\ UNCHANGED <<running, options, pc, calibrated, boundary, state, exit>>
          /\ UNCHANGED <<align, dsp, report>>
      BY <3>3 DEF consumer, verdict
    <3>. QED
      BY <3>2, <3>4, <3>5 DEF align, dsp, report
  <2>3. CASE ~gap[p] /\ ~(Batch <= RingCapacity - fill[p])
    <3>1. /\ cb' = [cb EXCEPT ![p] = "lossy"]
          /\ drops' = [drops EXCEPT ![p] = @ + 1]
          /\ lost' = [lost EXCEPT ![p] = TRUE]
          /\ UNCHANGED <<fill, broken, offset, transient, started, gap, consumer>>
      BY <2>3 DEF Callback, Write
    <3>. QED
      BY <3>1 DEF consumer, align, dsp, report, verdict
  <2>. QED
    BY <2>1, <2>2, <2>3
<1>33. CASE \E p \in Chan : Fail(p)
  BY <1>33 DEF Fail, consumer, tails, align, dsp, report, verdict
<1>34. CASE \E p \in Chan : Exit(p)
  BY <1>34 DEF Exit, consumer, tails, align, dsp, report, verdict
<1>35. CASE \E p \in Chan : UsbLoss(p)
  BY <1>35 DEF UsbLoss, consumer, tails, align, dsp, report, verdict
<1>36. CASE \E p \in Chan : Crash(p)
  BY <1>36 DEF Crash, consumer, tails, align, dsp, report, verdict
<1>37. CASE Signal
  <2>1. running' \in BOOLEAN
    BY <1>37, Zenon DEF Signal
  <2>. QED
    BY <1>37, <2>1 DEF Signal, tails, producer, align, dsp, report, verdict
<1>38. CASE UNCHANGED streamVars
  BY <1>38 DEF streamVars, tails, producer, align, dsp, report, verdict
<1>. QED
  BY <1>1, <1>2, <1>3, <1>4, <1>5, <1>6, <1>7, <1>8, <1>9, <1>10, <1>11,
     <1>12, <1>13, <1>14, <1>15, <1>16, <1>17, <1>18, <1>19, <1>20, <1>21,
     <1>22, <1>23, <1>24, <1>25, <1>26, <1>27, <1>28, <1>29, <1>30, <1>31,
     <1>32, <1>33, <1>34, <1>35, <1>36, <1>37, <1>38
     DEF StreamNext, Ended, Main, StartStreams, Receiver, Align, SelectSource,
         Correlate, Observe

\* The types hold throughout.
THEOREM StreamTypes == StreamSpec => []StreamTypeOK
<1>. TypeInv => StreamTypeOK
  BY DEF TypeInv
<1>. QED
  BY TypeInit, TypeStep, PTL DEF StreamSpec

-----------------------------------------------------------------------------
(* The safety properties.                                                  *)

AcquirePCs == {"acquire1", "acquire2", "measure", "advance", "verify", "lock"}

GatePCs == {"gate1", "gate2", "warmup", "flush1", "flush2"}

\* While confirmations are collected with the streams apart, each of them was
\* a lie; the lock needs more of them than there are lies.  A locked session
\* is past the alignment for good, and only unaligned sessions flush again.
LockInv ==
  /\ isAligned => offset = 0 /\ ~options.skip /\ pc \notin AcquirePCs \union GatePCs
  /\ pc \in AcquirePCs => ~options.skip
  /\ pc \in {"recover1", "recover2"} => options.skip
  /\ pc \in {"advance", "verify", "lock"} /\ offset # 0 => good <= lies
  /\ pc = "lock" => good = Confirmations

\* A loss stops the channel, or the next callback is going to see it.
LossInv ==
  \A p \in Chan : ~broken[p] /\ (lost[p] /\ cb[p] = "streaming" => gap[p])

\* The samples from before the switch settled are within what is discarded.
TransientInv ==
  /\ pc \notin {"watermark", "discard", "stopped"} => transient = 0
  /\ pc = "watermark" => transient <= Larger(boundary, fill[2])
  /\ pc = "discard" => transient <= boundary

\* The streams are flushed after a frame number was given up.
NumberInv ==
  /\ idGap >= 1
  /\ flushed \/ pc \in {"recover1", "recover2"} => idGap >= 2

SafetyInv == LockInv /\ LossInv /\ TransientInv /\ NumberInv

\* It holds initially.
LEMMA SafetyInit == StreamInit => SafetyInv
  BY LiesAssumption
     DEF StreamInit, SafetyInv, LockInv, LossInv, TransientInv, NumberInv, Chan, AcquirePCs, GatePCs

\* Every step keeps it.
LEMMA SafetyStep == TypeInv /\ SafetyInv /\ [StreamNext]_streamVars => SafetyInv'
<1>. SUFFICES ASSUME TypeInv, SafetyInv, [StreamNext]_streamVars PROVE SafetyInv'
  OBVIOUS
<1>. USE StreamSizes, BoundsAssumption, LiesAssumption
     DEF TypeInv, StreamTypeOK, ConfirmationsLeft, Chan, PCs, SafetyInv, LockInv, LossInv,
         TransientInv, NumberInv, AcquirePCs, GatePCs
<1>1. CASE Gate(1, "gate1", "gate2")
  BY <1>1 DEF Gate, Go, tails, producer, align, dsp, report, verdict
<1>2. CASE Gate(2, "gate2", "warmup")
  BY <1>2 DEF Gate, Go, tails, producer, align, dsp, report, verdict
<1>3. CASE WarmUp
  BY <1>3 DEF WarmUp, Go, Throw, Stop, tails, producer, align, dsp, report,
       verdict
<1>4. CASE FlushStart(1, "flush1", "flush2", state)
  BY <1>4 DEF FlushStart, Flush, tails, producer, align, dsp, report, verdict
<1>5. CASE FlushStart(2, "flush2", IF options.skip THEN "ready" ELSE "acquire1",
                   IF options.skip THEN "UNALIGNED" ELSE "ALIGNING")
  BY <1>5 DEF FlushStart, Flush, tails, producer, align, dsp, report, verdict
<1>6. CASE Attempt
  BY <1>6 DEF Attempt, Flush, Go, Throw, Stop, alignRest, tails, producer,
       align, dsp, report, verdict
<1>7. CASE AttemptFlush
  BY <1>7 DEF AttemptFlush, Flush, Go, alignRest, tails, producer, align, dsp,
       report, verdict
<1>8. CASE AlignFails
  BY <1>8 DEF AlignFails, Throw, Stop, alignRest, tails, producer, align, dsp,
       report, verdict
<1>9. CASE MeasuredWeak
  BY <1>9 DEF MeasuredWeak, Go, alignRest, tails, producer, align, dsp,
       report, verdict
<1>10. CASE (\E lag \in Lags : Measure(lag))
  BY <1>10 DEF Measure, SnapshotReady, Avail, Confident, Honest, Lags, Abs,
       Go, alignRest, tails, producer, align, dsp, report, verdict
<1>11. CASE (\E lag \in Lags : Verify(lag))
  BY <1>11 DEF Verify, Confident, Honest, Lags, Abs, Go, alignRest, tails,
       producer, align, dsp, report, verdict
<1>12. CASE AdvanceSnapshot
  BY <1>12 DEF AdvanceSnapshot, SnapshotReady, Avail, Advance, Larger, Go,
       alignRest, tails, producer, align, dsp, report, verdict
<1>13. CASE Lock
  BY <1>13 DEF Lock, Go, alignRest, tails, producer, align, dsp, report,
       verdict
<1>14. CASE Source
  BY <1>14 DEF Source, Go, Throw, Stop, sourceRest, tails, producer, align,
       dsp, report, verdict
<1>15. CASE Settle
  BY <1>15 DEF Settle, Larger, Go, Throw, Stop, sourceRest, tails, producer,
       align, dsp, report, verdict
<1>16. CASE Watermark
  BY <1>16 DEF Watermark, Larger, Go, sourceRest, tails, producer, align, dsp,
       report, verdict
<1>17. CASE Discard
  BY <1>17 DEF Discard, Awaited, Avail, Advance, Larger, Go, Throw, Stop,
       sourceRest, tails, producer, align, dsp, report, verdict
<1>18. CASE Settled
  BY <1>18 DEF Settled, Go, Throw, Stop, sourceRest, tails, producer, align,
       dsp, report, verdict
<1>19. CASE Prime
  BY <1>19 DEF Prime, Go, Throw, Stop, dspRest, tails, producer, align, dsp,
       report, verdict
<1>20. CASE PrimeRead
  BY <1>20 DEF PrimeRead, Avail, Advance, Larger, Go, Throw, Stop, dspRest,
       tails, producer, align, dsp, report, verdict
<1>21. CASE Primed
  BY <1>21 DEF Primed, Go, Throw, Stop, dspRest, tails, producer, align, dsp,
       report, verdict
<1>22. CASE CycleRead
  BY <1>22 DEF CycleRead, Avail, Advance, Larger, Go, dspRest, tails,
       producer, align, dsp, report, verdict
<1>23. CASE CycleDone
  BY <1>23 DEF CycleDone, Go, dspRest, tails, producer, align, dsp, report,
       verdict
<1>24. CASE CycleThrows
  BY <1>24 DEF CycleThrows, Go, Throw, Stop, dspRest, tails, producer, align,
       dsp, report, verdict
<1>25. CASE PrepareObservation
  BY <1>25 DEF PrepareObservation, Go, Throw, Stop, mainRest, tails, producer,
       align, dsp, report, verdict
<1>26. CASE Calibrate
  BY <1>26 DEF Calibrate, Go, Throw, Stop, mainRest, tails, producer, align,
       dsp, report, verdict
<1>27. CASE Loop
  BY <1>27 DEF Loop, Go, Throw, Stop, mainRest, tails, producer, align, dsp,
       report, verdict
<1>28. CASE Judge
  BY <1>28 DEF Judge, Go, Throw, Stop, mainRest, tails, producer, align, dsp,
       report, verdict
<1>29. CASE Recover(1, "recover1", "recover2")
  BY <1>29 DEF Recover, Flush, Go, mainRest, tails, producer, align, dsp,
       report, verdict
<1>30. CASE Recover(2, "recover2", "prime")
  BY <1>30 DEF Recover, Flush, Go, mainRest, tails, producer, align, dsp,
       report, verdict
<1>31. CASE Publish
  BY <1>31 DEF Publish, Go, Throw, Stop, mainRest, tails, producer, align,
       dsp, report, verdict
<1>32. CASE \E p \in Chan : Callback(p)
  <2>. PICK p \in Chan : Callback(p)
    BY <1>32
  <2>1. CASE gap[p]
    BY <2>1 DEF Callback, consumer, tails, align, dsp, report, verdict
  <2>2. CASE ~gap[p] /\ Batch <= RingCapacity - fill[p]
    <3>1. /\ fill' = [fill EXCEPT ![p] = @ + Batch]
          /\ broken' = [broken EXCEPT ![p] = broken[p] \/ lost[p]]
          /\ UNCHANGED <<cb, drops, lost, offset, transient, started, gap, consumer>>
      BY <2>2 DEF Callback, Write
    <3>2. cb[p] = "streaming" /\ ~lost[p] /\ ~broken[p]
      BY <2>2 DEF Callback
    <3>3. \A q \in Chan : ~broken'[q]
      BY <3>1, <3>2, Zenon DEF LossInv
    <3>4. fill'[2] >= fill[2]
      BY <3>1
    <3>. QED
      BY <3>1, <3>3, <3>4 DEF consumer, align, dsp, report, verdict, Larger
  <2>3. CASE ~gap[p] /\ ~(Batch <= RingCapacity - fill[p])
    <3>1. /\ cb' = [cb EXCEPT ![p] = "lossy"]
          /\ lost' = [lost EXCEPT ![p] = TRUE]
          /\ UNCHANGED <<fill, broken, offset, transient, started, gap, consumer>>
      BY <2>3 DEF Callback, Write
    <3>. QED
      BY <3>1 DEF consumer, align, dsp, report, verdict
  <2>. QED
    BY <2>1, <2>2, <2>3
<1>33. CASE \E p \in Chan : Fail(p)
  BY <1>33 DEF Fail, consumer, tails, align, dsp, report, verdict
<1>34. CASE \E p \in Chan : Exit(p)
  BY <1>34 DEF Exit, consumer, tails, align, dsp, report, verdict
<1>35. CASE \E p \in Chan : UsbLoss(p)
  BY <1>35 DEF UsbLoss, consumer, tails, align, dsp, report, verdict
<1>36. CASE \E p \in Chan : Crash(p)
  BY <1>36 DEF Crash, consumer, tails, align, dsp, report, verdict
<1>37. CASE Signal
  BY <1>37 DEF Signal, tails, producer, align, dsp, report, verdict
<1>38. CASE UNCHANGED streamVars
  BY <1>38 DEF streamVars, tails, producer, align, dsp, report, verdict
<1>. QED
  BY <1>1, <1>2, <1>3, <1>4, <1>5, <1>6, <1>7, <1>8, <1>9, <1>10, <1>11,
     <1>12, <1>13, <1>14, <1>15, <1>16, <1>17, <1>18, <1>19, <1>20, <1>21,
     <1>22, <1>23, <1>24, <1>25, <1>26, <1>27, <1>28, <1>29, <1>30, <1>31,
     <1>32, <1>33, <1>34, <1>35, <1>36, <1>37, <1>38
     DEF StreamNext, Ended, Main, StartStreams, Receiver, Align, SelectSource,
         Correlate, Observe

\* For every size of rings and snapshot, and any number of lying measurements
\* below the number of confirmations: a locked session is in step for good.
THEOREM Paired == StreamSpec => []LockedTogether
<1>. SafetyInv => LockedTogether
  BY DEF SafetyInv, LockInv, LockedTogether
<1>. QED
  BY TypeInit, TypeStep, SafetyInit, SafetyStep, PTL DEF StreamSpec

\* No ring ever holds a sample from behind a loss.
THEOREM Contiguous == StreamSpec => []NothingBehindALoss
<1>. SafetyInv => NothingBehindALoss
  BY DEF SafetyInv, LossInv, NothingBehindALoss
<1>. QED
  BY TypeInit, TypeStep, SafetyInit, SafetyStep, PTL DEF StreamSpec

\* No sample from before the source settled reaches an observation.
THEOREM CleanObservation == StreamSpec => []NoTransientObserved
<1>. SafetyInv => NoTransientObserved
  BY DEF SafetyInv, TransientInv, NoTransientObserved
<1>. QED
  BY TypeInit, TypeStep, SafetyInit, SafetyStep, PTL DEF StreamSpec

\* A flush of the streams always shows as a gap in the frame numbers.
THEOREM GapShows == StreamSpec => []RecoveryShows
<1>. SafetyInv => RecoveryShows
  BY DEF SafetyInv, NumberInv, RecoveryShows
<1>. QED
  BY TypeInit, TypeStep, SafetyInit, SafetyStep, PTL DEF StreamSpec
=============================================================================
