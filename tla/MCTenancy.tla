----------------------------- MODULE MCTenancy ------------------------------
EXTENDS Tenancy, TLC

Symmetries ==
  Permutations(Req) \cup Permutations(Email) \cup Permutations(Invitation)
  \cup Permutations(Project \ {DefaultProject}) \cup Permutations(Tenant \ {DefaultTenant})
=============================================================================
