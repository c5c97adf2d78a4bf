------------------------------ MODULE MCRouting ------------------------------
(* Small instances of Routing for TLC. *)
EXTENDS Routing, TLC

CONSTANTS u1, u2, a1, a2, q1, q2, q3

TwoUsers == {u1, u2}
TwoAccounts == {a1, a2}
TwoRequests == {q1, q2}
ThreeRequests == {q1, q2, q3}
OnlyU1 == {u1}
Nobody == {}
NoOps == {}
ReleaseOnly == {"release"}

\* Accounts and request slots are interchangeable; users are where Solo is
\* all of them or none of them.
PoolSymmetry == Permutations(Accounts) \cup Permutations(Requests)
FullSymmetry == PoolSymmetry \cup Permutations(Users)
============================================================================
