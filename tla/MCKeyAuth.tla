----------------------------- MODULE MCKeyAuth -----------------------------
(* Small instances of KeyAuth for TLC. *)
EXTENDS KeyAuth, TLC

CONSTANTS k1, k2, u1, r1, r2, o1, o2

TwoKeys == {k1, k2}
OneUser == {u1}
TwoRequests == {r1, r2}
TwoRotations == {o1, o2}

KeySymmetry == Permutations(Keys) \cup Permutations(Requests)
                 \cup Permutations(Rotations)
============================================================================
