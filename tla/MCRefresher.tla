---------------------------- MODULE MCRefresher ----------------------------
(* Small instances of Refresher for TLC. *)
EXTENDS Refresher, TLC

CONSTANTS a1, a2, p1, p2

TwoAccounts == {a1, a2}
TwoReplicas == {p1, p2}
============================================================================
