--------------------------- MODULE MCTokenService ---------------------------
(* Small instances of TokenService for TLC. *)
EXTENDS TokenService, TLC

CONSTANTS a1, c1, c2, c3, l1, l2

OneAccount == {a1}
TwoCallers == {c1, c2}
ThreeCallers == {c1, c2, c3}
TwoLocks == {l1, l2}
============================================================================
