-------------------------------- MODULE PgTx --------------------------------
(***************************************************************************)
(* The transactions of db/repo.py statement by statement.  AccountPool     *)
(* takes each repository method as one step; PostgreSQL runs them at READ  *)
(* COMMITTED, where every statement has its own snapshot and a write waits *)
(* for the lock of its row and looks at the row again.  Here the variables *)
(* of AccountPool are the committed tables; what a transaction has written *)
(* is what it will do at its commit, and the rows it has locked follow     *)
(* from the statement it is at.                                            *)
(*                                                                         *)
(* Methods of one statement, and create_device_session, whose second       *)
(* statement inserts a row of its own, are one step once their row is free.*)
(***************************************************************************)
EXTENDS AccountPool, FiniteSets

CONSTANTS
    Txs,            \* database connections
    NoUser

ASSUME TxsAssumption == NoUser \notin Users /\ IsFiniteSet(Txs)

VARIABLES
    at,             \* the statement each transaction is at
    user,           \* its user_id
    acct,           \* the account it works on
    saw             \* of a login: what its EXISTS has found

txVars == <<at, user, acct, saw>>
vars == <<storeVars, txVars>>

ClaimAt == {"insert", "claimed"}
ReleaseAt == {"delete", "update", "recheck", "idled", "released"}
LoginAt == {"login", "loggedin"}

PgTxTypeOK ==
    /\ PoolTypeOK
    /\ at \in [Txs -> {"none"} \cup ClaimAt \cup ReleaseAt \cup LoginAt]
    /\ user \in [Txs -> Users \cup {NoUser}]
    /\ acct \in [Txs -> Accounts \cup {NoAccount}]
    /\ saw \in [Txs -> BOOLEAN]

Init ==
    /\ PoolInit
    /\ at = [t \in Txs |-> "none"]
    /\ user = [t \in Txs |-> NoUser]
    /\ acct = [t \in Txs |-> NoAccount]
    /\ saw = [t \in Txs |-> FALSE]

\* The rows a transaction has written and not committed.
LocksAccount(t, a) == at[t] \in ClaimAt \cup {"idled", "loggedin"} /\ acct[t] = a
LocksBinding(t, u) ==
    at[t] \in {"claimed", "update", "recheck", "idled", "released"} /\ user[t] = u

AccountFree(a) == \A t \in Txs : ~LocksAccount(t, a)
BindingFree(u) == \A t \in Txs : ~LocksBinding(t, u)

Enter(t, where, u, a) ==
    /\ at' = [at EXCEPT ![t] = where]
    /\ user' = [user EXCEPT ![t] = u]
    /\ acct' = [acct EXCEPT ![t] = a]

Move(t, where) ==
    /\ at' = [at EXCEPT ![t] = where]
    /\ UNCHANGED <<user, acct, saw>>

End(S) ==
    /\ at' = [t \in Txs |-> IF t \in S THEN "none" ELSE at[t]]
    /\ user' = [t \in Txs |-> IF t \in S THEN NoUser ELSE user[t]]
    /\ acct' = [t \in Txs |-> IF t \in S THEN NoAccount ELSE acct[t]]
    /\ saw' = [t \in Txs |-> IF t \in S THEN FALSE ELSE saw[t]]

----------------------------------------------------------------------------
(* claim_idle_account.                                                     *)

\* Mutants: no FOR UPDATE; no WHERE status='idle'.
ClaimUnlocked(t, u, a) ==
    /\ at[t] = "none"
    /\ status[a] = "idle"
    /\ Enter(t, "insert", u, a)
    /\ UNCHANGED <<storeVars, saw>>

ClaimAnyStatus(t, u, a) ==
    /\ at[t] = "none"
    /\ AccountFree(a)
    /\ Enter(t, "insert", u, a)
    /\ UNCHANGED <<storeVars, saw>>

\* SELECT ... FOR UPDATE SKIP LOCKED, and the UPDATE of the row it locked.  When
\* no idle row is free the method returns None and nothing happens.
Claim(t, u, a) ==
    /\ at[t] = "none"
    /\ status[a] = "idle"
    /\ AccountFree(a)
    /\ Enter(t, "insert", u, a)
    /\ UNCHANGED <<storeVars, saw>>

\* INSERT ... ON CONFLICT waits for whoever writes the row of the user, and for
\* whoever deletes or moves a row that has the account.
InsertBinding(t) ==
    /\ at[t] = "insert"
    /\ BindingFree(user[t])
    /\ \A v \in Users : binding[v] = acct[t] => BindingFree(v)
    /\ ~BoundToOther(acct[t], user[t])
    /\ Move(t, "claimed")
    /\ UNCHANGED storeVars

\* Mutant: ON CONFLICT (user_id) DO NOTHING.
ClaimKeepsBinding(t) ==
    /\ at[t] = "claimed"
    /\ status' = [status EXCEPT ![acct[t]] = "bound"]
    /\ binding' = [binding EXCEPT ![user[t]] = IF @ = NoAccount THEN acct[t] ELSE @]
    /\ End({t})
    /\ UNCHANGED pending

CommitClaim(t) ==
    /\ at[t] = "claimed"
    /\ status' = [status EXCEPT ![acct[t]] = "bound"]
    /\ binding' = [binding EXCEPT ![user[t]] = acct[t]]
    /\ End({t})
    /\ UNCHANGED pending

----------------------------------------------------------------------------
(* release_binding.                                                        *)

\* The DELETE begins: a user without a visible row is left alone.
Release(t, u) ==
    /\ at[t] = "none"
    /\ binding[u] # NoAccount
    /\ Enter(t, "delete", u, NoAccount)
    /\ UNCHANGED <<storeVars, saw>>

\* It has the row, in its latest version.
DeleteBinding(t) ==
    /\ at[t] = "delete"
    /\ BindingFree(user[t])
    /\ Enter(t, "update", user[t], binding[user[t]])
    /\ UNCHANGED <<storeVars, saw>>

\* UPDATE accounts ... AND status='bound': a row that is not bound in the
\* snapshot is passed over without waiting, ...
UpdateAccount(t) ==
    /\ at[t] = "update"
    /\ Move(t, IF status[acct[t]] = "bound" THEN "recheck" ELSE "released")
    /\ UNCHANGED storeVars

\* Mutant: AND status='bound' is not looked at again.
RecheckBlind(t) ==
    /\ at[t] = "recheck"
    /\ AccountFree(acct[t])
    /\ Move(t, "idled")
    /\ UNCHANGED storeVars

\* ... one that is gets locked and looked at again.
RecheckAccount(t) ==
    /\ at[t] = "recheck"
    /\ AccountFree(acct[t])
    /\ Move(t, IF status[acct[t]] = "bound" THEN "idled" ELSE "released")
    /\ UNCHANGED storeVars

\* Other releases that wait for the deleted row find it gone and end.
CommitRelease(t) ==
    /\ at[t] \in {"idled", "released"}
    /\ binding' = [binding EXCEPT ![user[t]] = NoAccount]
    /\ status' = IF at[t] = "idled" THEN [status EXCEPT ![acct[t]] = "idle"]
                                    ELSE status
    /\ End({t} \cup {s \in Txs : at[s] = "delete" /\ user[s] = user[t]})
    /\ UNCHANGED pending

----------------------------------------------------------------------------
(* complete_device_session.                                                *)

BeingCompleted(a) == {t \in Txs : at[t] \in LoginAt /\ acct[t] = a}

\* The UPDATE of accounts begins; EXISTS is evaluated in its snapshot.
Login(t, a) ==
    /\ at[t] = "none"
    /\ Cardinality(BeingCompleted(a)) < pending[a]
    /\ Enter(t, "login", NoUser, a)
    /\ saw' = [saw EXCEPT ![t] = Bound(a)]
    /\ UNCHANGED storeVars

\* The lock of the row may come later; the EXISTS is not evaluated again.
LockLogin(t) ==
    /\ at[t] = "login"
    /\ AccountFree(acct[t])
    /\ Move(t, "loggedin")
    /\ UNCHANGED storeVars

CommitLogin(t) ==
    /\ at[t] = "loggedin"
    /\ status' = [status EXCEPT ![acct[t]] = IF saw[t] THEN "bound" ELSE "idle"]
    /\ pending' = [pending EXCEPT ![acct[t]] = @ - 1]
    /\ End({t})
    /\ UNCHANGED binding

----------------------------------------------------------------------------
\* One UPDATE or upsert of the account row.
Write(a) ==
    /\ AccountFree(a)
    /\ \/ AddAccount(a)
       \/ QuarantineAccount(a)
       \/ \E s \in OperatorStatus : SetAccountStatus(a, s)
       \/ CreateDeviceSession(a)
    /\ UNCHANGED txVars

DropLogin(a) ==
    /\ Cardinality(BeingCompleted(a)) < pending[a]
    /\ DropDeviceSession(a)
    /\ UNCHANGED txVars

\* An error (a unique violation, a deadlock PostgreSQL has found), a cancelled
\* request, a lost connection: ROLLBACK.
Rollback(t) ==
    /\ at[t] # "none"
    /\ End({t})
    /\ UNCHANGED storeVars

Next ==
    \/ \E t \in Txs :
         \/ \E u \in Users : Release(t, u) \/ \E a \in Accounts : Claim(t, u, a)
         \/ InsertBinding(t) \/ CommitClaim(t)
         \/ DeleteBinding(t) \/ UpdateAccount(t) \/ RecheckAccount(t)
         \/ CommitRelease(t)
         \/ \E a \in Accounts : Login(t, a)
         \/ LockLogin(t) \/ CommitLogin(t)
         \/ Rollback(t)
    \/ \E a \in Accounts : Write(a) \/ DropLogin(a)

Spec == Init /\ [][Next]_vars

----------------------------------------------------------------------------
(* Row locks exclude, and keep what a transaction has read of its row.     *)
Exclusive ==
    \A s, t \in Txs : s # t =>
        /\ \A a \in Accounts : ~(LocksAccount(s, a) /\ LocksAccount(t, a))
        /\ \A u \in Users : ~(LocksBinding(s, u) /\ LocksBinding(t, u))

ClaimHolds ==
    \A t \in Txs : at[t] \in ClaimAt =>
        /\ user[t] \in Users /\ acct[t] \in Accounts
        /\ status[acct[t]] = "idle"
        /\ at[t] = "claimed" => ~BoundToOther(acct[t], user[t])

ReleaseHolds ==
    \A t \in Txs : at[t] \in ReleaseAt =>
        /\ user[t] \in Users /\ binding[user[t]] # NoAccount
        /\ at[t] # "delete" => acct[t] = binding[user[t]]
        /\ at[t] = "idled" => status[acct[t]] = "bound"
        /\ MaxLogins = 0 /\ at[t] = "released" => status[acct[t]] # "bound"

LoginHolds ==
    /\ \A t \in Txs : at[t] \in LoginAt => acct[t] \in Accounts
    /\ \A a \in Accounts : Cardinality(BeingCompleted(a)) <= pending[a]

PgTxInv ==
    /\ PgTxTypeOK
    /\ Exclusive
    /\ ClaimHolds
    /\ ReleaseHolds
    /\ LoginHolds
    /\ OneToOne

(* Every transaction does to the tables what its method does in            *)
(* AccountPool at the moment of its commit, with two exceptions: a login   *)
(* whose EXISTS has become wrong while it waited or worked, and a release  *)
(* whose account a login made 'bound' after its UPDATE had passed it over. *)
(* The first leaves an account idle with a user or bound without one, the  *)
(* second bound without one.                                               *)
LateLogin(t) == CommitLogin(t) /\ saw[t] # Bound(acct[t])
LateRelease(t) ==
    CommitRelease(t) /\ at[t] = "released" /\ status[acct[t]] = "bound"

TransactionsAreCalls ==
    [][PoolNext \/ \E t \in Txs : LateLogin(t) \/ LateRelease(t)]_storeVars

(* However the statements overlap, an account that is out of the pool      *)
(* (quarantined, disabled, in a login) comes back only by the operator or   *)
(* by a login: no claim and no release that has read its row earlier        *)
(* writes over the status it has been given since.                         *)
OutOfPool(a) == status[a] \in {"quarantined", "disabled", "logging_in"}
TakenOutStaysOut ==
    [][\A a \in Accounts :
         OutOfPool(a) /\ status'[a] # status[a]
           => \/ OperatorStep(a) \/ QuarantineAccount(a)
              \/ \E t \in Txs : acct[t] = a /\ CommitLogin(t)]_vars

(* An account starts to be idle with a user, or bound without one, in four  *)
(* ways only: a claim by a user who has another account, a login or a       *)
(* release that has read too early, and the operator who makes it idle or   *)
(* imports its token again.                                                 *)
Torn(a) == \/ status[a] = "idle" /\ Bound(a)
           \/ status[a] = "bound" /\ ~Bound(a)
RecordsPart ==
    [][\A a \in Accounts :
         ~Torn(a) /\ Torn(a)'
           => \/ \E t \in Txs : CommitClaim(t) /\ binding[user[t]] = a
              \/ \E t \in Txs : acct[t] = a /\ (LateLogin(t) \/ LateRelease(t))
              \/ Bound(a) /\ (AddAccount(a) \/ SetAccountStatus(a, "idle"))]_vars

(* Deadlock: a claim locks the account first and the binding second, a     *)
(* release the other way round.  They can wait for each other only over an *)
(* account that is idle and has a user.                                    *)
WaitsFor(t, s) ==
    \/ at[t] = "insert" /\ (\/ LocksBinding(s, user[t])
                            \/ \E v \in Users : binding[v] = acct[t] /\ LocksBinding(s, v))
    \/ at[t] = "delete" /\ LocksBinding(s, user[t])
    \/ at[t] \in {"recheck", "login"} /\ LocksAccount(s, acct[t])

DeadlockNeedsIdleBound ==
    \A S \in SUBSET Txs :
        S # {} /\ (\A t \in S : \E s \in S : WaitsFor(t, s))
            => \E a \in Accounts : status[a] = "idle" /\ Bound(a)
============================================================================
