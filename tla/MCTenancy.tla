----------------------------- MODULE MCTenancy -----------------------------
(* Small instances of Tenancy. *)
EXTENDS Tenancy, TLC

CONSTANTS o0, o1, o2, u0, u1, u2, k1, l1, q1, q2, default, acme

SomeOrgs == {o0, o1, o2}
SomeUsers == {u0, u1, u2}
SomeKeys == {k1}
SomeLogs == {l1}
SomeSlugs == {default, acme}
SomeHashes == {1, 2}
TwoRequests == {q1, q2}
SomeRoles == {"operator", "platform_admin"}

\* Ids other than those of the seeded rows are interchangeable.
Symmetry == Permutations(Orgs \ {o0}) \cup Permutations(Users \ {u0})
              \cup Permutations(Requests)
=============================================================================
