------------------------------ MODULE MCPeople ------------------------------
(* Values for TLC: two administrators, and somebody to be invited. *)
EXTENDS People, TLC

CONSTANTS admin, staff

TwoPolicies == [r \in Roles |-> IF r = admin THEN Rights ELSE {}]

GroupRolesMade == {{}, {admin}}

Pairs ==
  {{"people", "roles"}, {"people", "groups"}, {"roles", "groups"},
   {"people", "invitations"}}

Symmetry == Permutations(Requests) \cup Permutations(Founders)
=============================================================================
