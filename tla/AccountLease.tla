---------------------------- MODULE AccountLease ----------------------------
(***************************************************************************)
(* What the binding service promises its users, whatever the store and the *)
(* handlers do: each user leases at most one account, nobody else holds    *)
(* that account, an account is driven only by the user who leased it, and  *)
(* a lease in use never moves to another account (router/binding.py: "the  *)
(* upstream never sees one account driven by many users").  It may be      *)
(* revoked in use where the admin API releases bindings; then the account  *)
(* can be leased to the next user before the last one is done with it.     *)
(***************************************************************************)
CONSTANTS
    Users,
    Accounts,
    NoAccount,
    Revocable   \* whether leases are revoked

VARIABLES
    lease,      \* the account each user holds
    use         \* <<user, account>> pairs with a request at GitHub

leaseVars == <<lease, use>>

Held(a) == \E u \in Users : lease[u] = a
Driving(u) == \E a \in Accounts : <<u, a>> \in use

Init ==
    /\ lease = [u \in Users |-> NoAccount]
    /\ use = {}

\* A user without an account gets a free one and sends through it at once.
Take(u, a) ==
    /\ lease[u] = NoAccount
    /\ ~Held(a)
    /\ ~Driving(u)
    /\ lease' = [lease EXCEPT ![u] = a]
    /\ use' = use \cup {<<u, a>>}

Begin(u) ==
    /\ lease[u] # NoAccount
    /\ ~Driving(u)
    /\ use' = use \cup {<<u, lease[u]>>}
    /\ UNCHANGED lease

End(u, a) ==
    /\ <<u, a>> \in use
    /\ use' = use \ {<<u, a>>}
    /\ UNCHANGED lease

Drop(u) ==
    /\ lease[u] # NoAccount
    /\ ~Driving(u)
    /\ lease' = [lease EXCEPT ![u] = NoAccount]
    /\ UNCHANGED use

Revoke(u) ==
    /\ Revocable
    /\ lease[u] # NoAccount
    /\ lease' = [lease EXCEPT ![u] = NoAccount]
    /\ UNCHANGED use

Next ==
    \E u \in Users :
        \/ \E a \in Accounts : Take(u, a) \/ End(u, a)
        \/ Begin(u)
        \/ Drop(u)
        \/ Revoke(u)

Spec == Init /\ [][Next]_leaseVars
============================================================================
