---------------------------- MODULE SingleFlight ----------------------------
(***************************************************************************)
(* What bearer_for promises its callers, whatever it does with locks: an   *)
(* account has one exchange in flight at most, and none while a usable     *)
(* bearer is there; a call returns that bearer or what its own exchange    *)
(* brought; only an exchange in flight puts a bearer there, and it is there *)
(* for every caller at once.                                               *)
(***************************************************************************)
CONSTANTS Accounts, Callers, Bearers, NoEntry

VARIABLES
    at,         \* "away", "asks", "flies" (its exchange is in flight) or "has"
    acct,       \* the account a caller asks for
    got,        \* the bearer it has
    entry       \* the usable bearer of each account

flightVars == <<at, acct, got, entry>>

Init ==
    /\ at = [c \in Callers |-> "away"]
    /\ acct \in [Callers -> Accounts]
    /\ got = [c \in Callers |-> NoEntry]
    /\ entry = [a \in Accounts |-> NoEntry]

Ask(c, a) ==
    /\ at[c] = "away"
    /\ at' = [at EXCEPT ![c] = "asks"]
    /\ acct' = [acct EXCEPT ![c] = a]
    /\ UNCHANGED <<got, entry>>

Share(c) ==
    /\ at[c] = "asks"
    /\ entry[acct[c]] # NoEntry
    /\ at' = [at EXCEPT ![c] = "has"]
    /\ got' = [got EXCEPT ![c] = entry[acct[c]]]
    /\ UNCHANGED <<acct, entry>>

Fly(c) ==
    /\ at[c] = "asks"
    /\ entry[acct[c]] = NoEntry
    /\ \A d \in Callers : at[d] = "flies" => acct[d] # acct[c]
    /\ at' = [at EXCEPT ![c] = "flies"]
    /\ UNCHANGED <<acct, got, entry>>

\* The bearer of an exchange may be too near its expiry to be shared.
Land(c, b) ==
    /\ at[c] = "flies"
    /\ at' = [at EXCEPT ![c] = "has"]
    /\ got' = [got EXCEPT ![c] = b]
    /\ entry' = entry \/ entry' = [entry EXCEPT ![acct[c]] = b]
    /\ UNCHANGED acct

GiveUp(c) ==
    /\ at[c] \in {"asks", "flies"}
    /\ at' = [at EXCEPT ![c] = "away"]
    /\ UNCHANGED <<acct, got, entry>>

\* The answer to what was sent with the bearer may say that it is no good.
Done(c) ==
    /\ at[c] = "has"
    /\ at' = [at EXCEPT ![c] = "away"]
    /\ got' = [got EXCEPT ![c] = NoEntry]
    /\ entry' = entry \/ entry' = [entry EXCEPT ![acct[c]] = NoEntry]
    /\ UNCHANGED acct

Lapse(a) ==
    /\ entry' = [entry EXCEPT ![a] = NoEntry]
    /\ UNCHANGED <<at, acct, got>>

Next ==
    \/ \E c \in Callers :
        \/ \E a \in Accounts : Ask(c, a)
        \/ Share(c)
        \/ Fly(c)
        \/ \E b \in Bearers : Land(c, b)
        \/ GiveUp(c)
        \/ Done(c)
    \/ \E a \in Accounts : Lapse(a)

Spec == Init /\ [][Next]_flightVars
============================================================================
