-------------------------------- MODULE MCGuards --------------------------------
(* Instances of Guards for TLC: an operation sent in two messages, as by a     *)
(* client that signs its retry anew, and one that has no idempotency key.      *)
EXTENDS Guards, TLC

CONSTANTS o1, o2, m1, m2, m3

MCOpOf == (m1 :> o1) @@ (m2 :> o1) @@ (m3 :> o2)

\* The places of requests under way are alike.
MCSymmetry == Permutations(Delivery)
=============================================================================
