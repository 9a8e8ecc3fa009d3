----------------------------- MODULE MCProvisioning -----------------------------
(* Instances of Provisioning for TLC: the administrator of a tenant that may   *)
(* be there, and the roles and tenants that requests add.                      *)
EXTENDS Provisioning, TLC

MCSymmetry == {p @@ q : p \in Permutations(Call), q \in Permutations(Tenant)}
=============================================================================
