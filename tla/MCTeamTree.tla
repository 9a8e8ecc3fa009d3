------------------------------ MODULE MCTeamTree ------------------------------
(* Instances of TeamTree for TLC: a team of three members. *)
EXTENDS TeamTree

CONSTANTS m1, m2, m3

Three == {m1, m2, m3}

\* Nobody was invited.
Apart == [m \in Member |-> NoMember]
First == {m1}
=============================================================================
