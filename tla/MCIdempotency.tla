--------------------------- MODULE MCIdempotency ---------------------------
(* Instances of Idempotency for TLC. *)
EXTENDS Idempotency, TLC

CONSTANTS r1, r2, r3

\* Two calls retry the same request, the third reuses the key for another.
MCRequest == {r1, r2, r3}
MCPayload == {"A", "B"}
MCpayload == (r1 :> "A") @@ (r2 :> "A") @@ (r3 :> "B")

\* Three retries of one request.
SamePayload == {"A"}
Samepayload == [r \in MCRequest |-> "A"]
=============================================================================
