---------------------------- MODULE MCSessions ----------------------------
(* Small instances of Sessions. *)
EXTENDS Sessions, TLC

CONSTANTS c1, c2, q1, q2, t1, t2, t3

TwoClients == {c1, c2}
TwoRequests == {q1, q2}
ThreeTokens == {t1, t2, t3}

\* Clients, requests and tokens are interchangeable: no definition names one.
Symmetry == Permutations(Clients) \cup Permutations(Requests) \cup Permutations(Tokens)
=============================================================================
