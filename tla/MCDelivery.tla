----------------------------- MODULE MCDelivery -----------------------------
(* Attempts are interchangeable; subscriptions too.                        *)
EXTENDS Delivery, TLC

CONSTANTS a1, a2, a3

AttemptSymmetry == Permutations(Attempts)
=============================================================================
