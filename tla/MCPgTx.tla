-------------------------------- MODULE MCPgTx --------------------------------
(* A small instance of PgTx for TLC. *)
EXTENDS PgTx, TLC

CONSTANTS u1, u2, a1, a2, t1, t2, t3

TwoUsers == {u1, u2}
TwoAccounts == {a1, a2}
ThreeTxs == {t1, t2, t3}

Symmetry == Permutations(Users) \cup Permutations(Accounts) \cup Permutations(Txs)
============================================================================
