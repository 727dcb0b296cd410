---------------------------- MODULE MCRingBuffer ----------------------------
(* A ring of four slots whose counters wrap after eight: the tightest case  *)
(* the constructor admits (a capacity of 2^31 with 32-bit counters).  One   *)
(* chunk spans the end of the slots, and one is larger than the ring.       *)
EXTENDS RingBuffer

CONSTANTS a, b

MCSamples == {a, b}
MCChunks  == {<<b>>, <<a, b, b>>, <<a, b, a, b, a>>}
=============================================================================
