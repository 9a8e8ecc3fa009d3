------------------------------ MODULE MCSession ------------------------------
(* Instances of Session for TLC: one key for all devices. *)
EXTENDS Session, TLC

CONSTANT k1

OneKey == {k1}
OneDevice == [t \in Token |-> k1]

\* Requests are alike, and with one key tokens are too.
Alike == Permutations(Client) \cup Permutations(Token)
=============================================================================
