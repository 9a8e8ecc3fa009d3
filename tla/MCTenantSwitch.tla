---------------------------- MODULE MCTenantSwitch ----------------------------
(* Instances of TenantSwitch for TLC. *)
EXTENDS TenantSwitch, TLC

\* Requests are alike, and so are foreign tenants.
Alike == Permutations(Client) \cup Permutations(Tenant \ {Own})
=============================================================================
