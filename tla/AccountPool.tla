---------------------------- MODULE AccountPool ----------------------------
(***************************************************************************)
(* The account store: db/repo.py over the tables accounts, bindings and    *)
(* device_sessions of db/schema.sql.  Every repository method is one       *)
(* database transaction and one action here.  The callers (requests, the   *)
(* refresher, the admin API) are modules of their own; Next lets any       *)
(* caller use any method at any time, so what holds here holds however     *)
(* they are composed.                                                      *)
(***************************************************************************)
EXTENDS Naturals

CONSTANTS
    Users,          \* rows of the table users that send requests
    Accounts,       \* (host, login) pairs an account row may exist for
    NoAccount,      \* "None" where the code returns an account id
    MaxLogins       \* bound: logins of one account that may be open at once

ASSUME NoAccountAssumption == NoAccount \notin Accounts
ASSUME MaxLoginsAssumption == MaxLogins \in Nat

VARIABLES
    status,         \* accounts.status; "absent" where there is no row
    binding,        \* the row of bindings for each user, as its account_id
    pending         \* how many logins of each account a poll may still complete

storeVars == <<status, binding, pending>>

RowStatus == {"logging_in", "idle", "bound", "quarantined", "disabled"}
OperatorStatus == {"idle", "disabled", "quarantined"}

PoolTypeOK ==
    /\ status \in [Accounts -> RowStatus \cup {"absent"}]
    /\ binding \in [Users -> Accounts \cup {NoAccount}]
    /\ pending \in [Accounts -> 0..MaxLogins]

Exists(a) == status[a] # "absent"
Bound(a) == \E u \in Users : binding[u] = a
BoundToOther(a, u) == \E v \in Users \ {u} : binding[v] = a

----------------------------------------------------------------------------
(* Accounts.                                                               *)

\* A re-import keeps the status, except that it revives a quarantined account.
AddAccount(a) ==
    /\ status' = [status EXCEPT ![a] =
                    IF @ \in {"absent", "quarantined"} THEN "idle" ELSE @]
    /\ UNCHANGED <<binding, pending>>

\* Mutant: a status schema.sql does not know.
QuarantineAsExpired(a) ==
    /\ status' = [status EXCEPT ![a] = IF Exists(a) THEN "expired" ELSE @]
    /\ UNCHANGED <<binding, pending>>

\* UPDATE ... WHERE id = $1: whatever the status was, if there is a row.
QuarantineAccount(a) ==
    /\ status' = [status EXCEPT ![a] = IF Exists(a) THEN "quarantined" ELSE @]
    /\ UNCHANGED <<binding, pending>>

SetAccountStatus(a, s) ==
    /\ Exists(a)
    /\ s \in OperatorStatus
    /\ status' = [status EXCEPT ![a] = s]
    /\ UNCHANGED <<binding, pending>>

----------------------------------------------------------------------------
(* Device flow.                                                            *)

\* Mutant: the CASE spares bound accounts only.
CreateFromDisabled(a) ==
    /\ pending[a] < MaxLogins
    /\ pending' = [pending EXCEPT ![a] = @ + 1]
    /\ status' = [status EXCEPT ![a] = IF @ = "bound" THEN @ ELSE "logging_in"]
    /\ UNCHANGED binding

CreateDeviceSession(a) ==
    /\ pending[a] < MaxLogins
    /\ pending' = [pending EXCEPT ![a] = @ + 1]
    /\ status' = [status EXCEPT ![a] =
                    IF @ \in {"bound", "disabled"} THEN @ ELSE "logging_in"]
    /\ UNCHANGED binding

\* Stores the token; the status is recomputed from the bindings table alone.
CompleteDeviceSession(a) ==
    /\ pending[a] > 0
    /\ pending' = [pending EXCEPT ![a] = @ - 1]
    /\ status' = [status EXCEPT ![a] = IF Bound(a) THEN "bound" ELSE "idle"]
    /\ UNCHANGED binding

\* The login is denied, lapsed or lost, and no poll still works on it: the
\* account row is left as it is.
DropDeviceSession(a) ==
    /\ pending[a] > 0
    /\ pending' = [pending EXCEPT ![a] = @ - 1]
    /\ UNCHANGED <<status, binding>>

----------------------------------------------------------------------------
(* Bindings.                                                               *)

GetBinding(u) == binding[u]

\* Mutant: bindings without UNIQUE (account_id).
ClaimWithoutUnique(u, a) ==
    /\ status[a] = "idle"
    /\ status' = [status EXCEPT ![a] = "bound"]
    /\ binding' = [binding EXCEPT ![u] = a]
    /\ UNCHANGED pending

\* The transaction took the idle row of a and committed: ON CONFLICT (user_id)
\* replaces the row the user already has, UNIQUE (account_id) forbids the rest.
\* Which idle row comes first is left open: SKIP LOCKED passes over any row a
\* concurrent transaction holds.
ClaimIdleAccount(u, a) ==
    /\ status[a] = "idle"
    /\ ~BoundToOther(a, u)
    /\ status' = [status EXCEPT ![a] = "bound"]
    /\ binding' = [binding EXCEPT ![u] = a]
    /\ UNCHANGED pending

\* Mutants: without AND status='bound'; without the UPDATE of accounts; the
\* row marked 'released' but still found.
ReleaseAnyStatus(u) ==
    /\ binding' = [binding EXCEPT ![u] = NoAccount]
    /\ status' = [a \in Accounts |-> IF a = binding[u] THEN "idle" ELSE status[a]]
    /\ UNCHANGED pending

ReleaseBindingOnly(u) ==
    /\ binding' = [binding EXCEPT ![u] = NoAccount]
    /\ UNCHANGED <<status, pending>>

ReleaseAccountOnly(u) ==
    /\ status' = [a \in Accounts |->
                    IF a = binding[u] /\ status[a] = "bound" THEN "idle"
                                                             ELSE status[a]]
    /\ UNCHANGED <<binding, pending>>

ReleaseBinding(u) ==
    /\ binding' = [binding EXCEPT ![u] = NoAccount]
    /\ status' = [a \in Accounts |->
                    IF a = binding[u] /\ status[a] = "bound" THEN "idle"
                                                             ELSE status[a]]
    /\ UNCHANGED pending

----------------------------------------------------------------------------
PoolInit ==
    /\ status \in [Accounts -> {"absent", "idle"}]   \* accounts imported so far
    /\ binding = [u \in Users |-> NoAccount]
    /\ pending = [a \in Accounts |-> 0]

PoolNext ==
    \/ \E a \in Accounts :
         \/ AddAccount(a)
         \/ QuarantineAccount(a)
         \/ \E s \in OperatorStatus : SetAccountStatus(a, s)
         \/ CreateDeviceSession(a)
         \/ CompleteDeviceSession(a)
         \/ DropDeviceSession(a)
    \/ \E u \in Users :
         \/ \E a \in Accounts : ClaimIdleAccount(u, a)
         \/ ReleaseBinding(u)

PoolSpec == PoolInit /\ [][PoolNext]_storeVars

----------------------------------------------------------------------------
(* The bindings table is one-to-one: "strict 1:1 via two UNIQUE columns".  *)
OneToOne ==
    \A u, v \in Users : u # v /\ binding[u] # NoAccount => binding[u] # binding[v]

(* A quarantined account "must not be handed out until an operator         *)
(* re-authorizes it": it leaves quarantine only by a re-import, a status    *)
(* change or a device login, never by a release, a claim or a quarantine.   *)
OperatorStep(a) ==
    \/ AddAccount(a)
    \/ \E s \in OperatorStatus : SetAccountStatus(a, s)
    \/ CreateDeviceSession(a)
    \/ CompleteDeviceSession(a)

QuarantineSticks ==
    [][\A a \in Accounts :
         status[a] = "quarantined" /\ status'[a] # "quarantined"
           => OperatorStep(a)]_storeVars

(* An account the operator disabled, though its users' requests go on,      *)
(* leaves 'disabled' only by a status change, a completed login or a        *)
(* quarantine; the start of a login, a release and a claim leave it alone.  *)
DisabledStays ==
    [][\A a \in Accounts :
         status[a] = "disabled" /\ status'[a] # "disabled"
           => \/ \E s \in OperatorStatus : SetAccountStatus(a, s)
              \/ CompleteDeviceSession(a)
              \/ QuarantineAccount(a)]_storeVars
============================================================================
