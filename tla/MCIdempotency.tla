---------------------------- MODULE MCIdempotency ----------------------------
(* Instantiates Idempotency for TLC: one key, two bodies, two goroutines.  *)
EXTENDS Idempotency

MCKeys == {"k1"}
MCBodies == {"b1", "b2"}
MCProcs == {"p1", "p2"}

(* b1 is a top-up body, b2 an order body. *)
MCEndpoint == [b \in MCBodies |-> IF b = "b1" THEN "topup" ELSE "order"]
=============================================================================
