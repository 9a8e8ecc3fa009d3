----------------------------- MODULE MCFundLedger -----------------------------
(* Instances of FundLedger for TLC: one member with a main and a sub wallet. *)
EXTENDS FundLedger, TLC

CONSTANTS main, sub, d1, w1, p1

MCAccount    == {main, sub}
MCDeposit    == {d1}
MCWithdraw   == {w1}
MCApp        == {p1}
MCAccountOf  == [o \in {d1, w1} |-> main]
MCAmountOf   == [o \in {d1, w1} |-> 2]
MCWalletsOf  == [p \in {p1} |-> {main, sub}]
MCAdjustment == {2, -1}

\* Requests and generated numbers are interchangeable.
Symmetry == Permutations(Admin) \cup Permutations(Generated)
=============================================================================
