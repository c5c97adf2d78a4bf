--------------------------- MODULE MCDeviceLogin ---------------------------
(* Small instances of DeviceLogin for TLC. *)
EXTENDS DeviceLogin, TLC

CONSTANTS u1, a1, p1, p2

OneUser == {u1}
OneAccount == {a1}
TwoPolls == {p1, p2}
NeverIdle == {"disabled", "quarantined"}
============================================================================
