------------------------- MODULE MCMemoryBackground -------------------------
(* Instances of MemoryBackground for TLC. *)
EXTENDS MemoryBackground

CONSTANTS s1, r1, r2

(* A tight cap with batches of one message, and passes that can outlast    *)
(* the runner lease.                                                       *)
SmallSettings ==
  {[batch |-> 1, retryDelay |-> 0, dailyCap |-> 3],
   [batch |-> 2, retryDelay |-> 2, dailyCap |-> 20]}
=============================================================================
