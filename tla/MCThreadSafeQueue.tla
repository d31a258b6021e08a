------------------------- MODULE MCThreadSafeQueue -------------------------
(* A small instance of ThreadSafeQueue for TLC: any of four threads may    *)
(* call enqueue or dequeue at any time.  No property names a thread, so    *)
(* threads may be permuted.                                                *)
EXTENDS ThreadSafeQueue, TLC

Symmetry == Permutations(Thread)
=============================================================================
