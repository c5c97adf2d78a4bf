----------------------------- MODULE MCMetering -----------------------------
(* A small instance of Metering and UsageReports for TLC. *)
EXTENDS UsageReports

CONSTANTS u1, u2, a1, a2, m1, q1, q2

TwoUsers == {u1, u2}
TwoAccounts == {a1, a2}
OneModel == {m1}
TwoRequests == {q1, q2}
\* A stream and a buffered request of one user; the other has none.
SomeStreams == {q1}
Asker == [q \in Requests |-> u1]
Asked == [q \in Requests |-> m1]
Prompt == [q \in Requests |-> IF q = q1 THEN 1 ELSE 2]
============================================================================
