-------------------------------- MODULE MCStream --------------------------------
(* Instances of Stream for TLC: three elements, two of them equal to Distinct. *)
EXTENDS Stream, TLC

CONSTANTS a, b, d

MCElem    == {a, b, d}
MCKeep    == {a, d}
MCImage   == (a :> b) @@ (b :> d) @@ (d :> a)
MCRank    == (a :> 2) @@ (b :> 1) @@ (d :> 2)
MCInitial == {<<a, b, d>>, <<>>}
=============================================================================
