---------------------------------- MODULE MCKyc ----------------------------------
(* Instances of Kyc for TLC: a member with one or two records, and another who *)
(* shows the card of one of them.                                              *)
EXTENDS Kyc, TLC

CONSTANTS m1, m2, r1, r2, r3, k1, k2

MCOf     == [r \in Record |-> IF r = r3 THEN m2 ELSE m1]
MCCardOf == [r \in Record |-> IF r = r2 THEN k2 ELSE k1]
\* The administrator gives m1 the other card and says that it is verified.
MCTyped  == {[verified |-> TRUE, shown |-> "VERIFIED", card |-> k2]}

\* Reviewers are alike, and so are forms.
Alike == Permutations(Reviewer) \cup Permutations(Form)
=============================================================================
