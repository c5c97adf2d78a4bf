------------------------------ MODULE Refresher ------------------------------
(***************************************************************************)
(* The refresher replicas (credential/refresher.py): scan for the accounts *)
(* that are due, lock each in Redis, validate it, push its refresh_at or   *)
(* quarantine it.                                                          *)
(*                                                                         *)
(* The lock is never deleted; it expires LockTTL ticks after it was taken, *)
(* whatever has become of the validation.  A validation (token exchange,   *)
(* GET /models, the writes) takes MaxCheck ticks at most, and may outlast  *)
(* its lock: the code waits up to twice 20 s under a lock of 30 s.         *)
(***************************************************************************)
EXTENDS Naturals, FiniteSets

CONSTANTS
    Accounts,
    Replicas,       \* refresher processes
    NoAccount,
    Limit,          \* LIMIT of due_for_revalidation
    LockTTL,        \* lock_ttl_s
    NoLock,         \* no lock:account:{id} in Redis
    MaxCheck,       \* bound: ticks a validation takes
    MaxRelogins     \* bound: how often the operator renews a login

ASSUME NoAccountAssumption == NoAccount \notin Accounts
ASSUME RefresherAssumption ==
    /\ Limit \in Nat \ {0}
    /\ LockTTL \in Nat \ {0}
    /\ MaxCheck \in Nat
    /\ MaxRelogins \in Nat
    /\ NoLock \notin Nat

VARIABLES
    pooled,         \* accounts with status 'idle' or 'bound'
    due,            \* accounts whose refresh_at is NULL or has passed
    older,          \* <<a, b>>: refresh_at of a is before that of b
    dead,           \* accounts whose login GitHub no longer accepts
    relogins,       \* how often the operator has renewed one
    lock,           \* the age of each account's lock in Redis
    list,           \* what is left of the due accounts a replica read
    cur,            \* the account it validates
    elapsed,        \* ticks since it began to validate
    open            \* replicas that validate without the lock: Redis failed

accountVars == <<pooled, due, older, dead, relogins>>
replicaVars == <<list, cur, elapsed, open>>
vars == <<accountVars, lock, replicaVars>>

RefresherTypeOK ==
    /\ pooled \subseteq Accounts
    /\ due \subseteq Accounts
    /\ older \subseteq Accounts \X Accounts
    /\ dead \subseteq Accounts
    /\ relogins \in 0..MaxRelogins
    /\ lock \in [Accounts -> 0..(LockTTL - 1) \cup {NoLock}]
    /\ list \in [Replicas -> SUBSET Accounts]
    /\ cur \in [Replicas -> Accounts \cup {NoAccount}]
    /\ elapsed \in [Replicas -> 0..MaxCheck]
    /\ open \subseteq Replicas

Init ==
    /\ pooled = Accounts
    /\ due = Accounts
    /\ older = {}
    /\ dead = {}
    /\ relogins = 0
    /\ lock = [a \in Accounts |-> NoLock]
    /\ list = [p \in Replicas |-> {}]
    /\ cur = [p \in Replicas |-> NoAccount]
    /\ elapsed = [p \in Replicas |-> 0]
    /\ open = {}

Checking(p) == cur[p] # NoAccount

----------------------------------------------------------------------------
(* tick.                                                                   *)

\* The first Limit rows by refresh_at, NULLs first and in any order.
DueRows ==
    LET Rows == due \cap pooled
        size == IF Cardinality(Rows) < Limit THEN Cardinality(Rows) ELSE Limit
    IN  {S \in SUBSET Rows :
            /\ Cardinality(S) = size
            /\ \A a \in S, b \in Rows : <<b, a>> \in older => b \in S}

Scan(p) ==
    /\ list[p] = {} /\ ~Checking(p)
    /\ \E rows \in DueRows : list' = [list EXCEPT ![p] = rows]
    /\ UNCHANGED <<accountVars, lock, cur, elapsed, open>>

Take(p, a) ==
    /\ list' = [list EXCEPT ![p] = @ \ {a}]
    /\ cur' = [cur EXCEPT ![p] = a]
    /\ elapsed' = [elapsed EXCEPT ![p] = 0]

\* Mutant: SET without NX.
LockWithoutNX(p, a) ==
    /\ a \in list[p] /\ ~Checking(p)
    /\ lock' = [lock EXCEPT ![a] = 0]
    /\ Take(p, a)
    /\ UNCHANGED <<accountVars, open>>

\* SET lock:account:{a} NX EX lock_ttl_s.
Lock(p, a) ==
    /\ a \in list[p] /\ ~Checking(p)
    /\ lock[a] = NoLock
    /\ lock' = [lock EXCEPT ![a] = 0]
    /\ Take(p, a)
    /\ UNCHANGED <<accountVars, open>>

Skip(p, a) ==
    /\ a \in list[p] /\ ~Checking(p)
    /\ lock[a] # NoLock
    /\ list' = [list EXCEPT ![p] = @ \ {a}]
    /\ UNCHANGED <<accountVars, lock, cur, elapsed, open>>

\* Redis raises, before or after it took the lock: "still better to validate
\* than skip".
FailOpen(p, a) ==
    /\ a \in list[p] /\ ~Checking(p)
    /\ lock' \in {lock, [lock EXCEPT ![a] = IF @ = NoLock THEN 0 ELSE @]}
    /\ Take(p, a)
    /\ open' = open \cup {p}
    /\ UNCHANGED <<accountVars>>

----------------------------------------------------------------------------
(* validate_account.                                                       *)

Done(p) ==
    /\ cur' = [cur EXCEPT ![p] = NoAccount]
    /\ elapsed' = [elapsed EXCEPT ![p] = 0]
    /\ open' = open \ {p}

\* Mutant: the next liveness check is not scheduled.
SeenKeepsPlace(p) ==
    /\ Checking(p)
    /\ UNCHANGED list
    /\ Done(p)
    /\ UNCHANGED <<accountVars, lock>>

\* Any answer to GET /models that is not is_login_expired, a 5xx, a 429 or
\* another 403 too, and whatever has become of the login: mark_seen, and
\* refresh_at is now later than that of any other account.
Healthy(p) ==
    /\ Checking(p)
    /\ due' = due \ {cur[p]}
    /\ older' = {q \in older : q[1] # cur[p]} \cup ((Accounts \ {cur[p]}) \X {cur[p]})
    /\ UNCHANGED list
    /\ Done(p)
    /\ UNCHANGED <<pooled, dead, relogins, lock>>

\* CopilotAuthExpired (any 401 or 403 of the exchange), or is_login_expired of
\* the answer to GET /models; also of a login that works, or was renewed after
\* the replica read the row or cached a bearer.
Expired(p) ==
    /\ Checking(p)
    /\ pooled' = pooled \ {cur[p]}
    /\ UNCHANGED list
    /\ Done(p)
    /\ UNCHANGED <<due, older, dead, relogins, lock>>

\* CopilotTokenUnavailable, or no answer to GET /models: refresh_at stays, and
\* the account keeps its place at the head of the list.
Transient(p) ==
    /\ Checking(p)
    /\ UNCHANGED list
    /\ Done(p)
    /\ UNCHANGED <<accountVars, lock>>

\* An exception ends the tick, and a crash the process: the rest of the list
\* waits for the next tick.
Fail(p) ==
    /\ Checking(p) \/ list[p] # {}
    /\ list' = [list EXCEPT ![p] = {}]
    /\ Done(p)
    /\ UNCHANGED <<accountVars, lock>>

----------------------------------------------------------------------------
(* Time, GitHub, the operator and the proxies.                             *)

Tick ==
    /\ \A p \in Replicas : Checking(p) => elapsed[p] < MaxCheck
    /\ elapsed' = [p \in Replicas |-> IF Checking(p) THEN elapsed[p] + 1 ELSE 0]
    /\ lock' = [a \in Accounts |->
                  IF lock[a] = NoLock \/ lock[a] = LockTTL - 1 THEN NoLock
                                                              ELSE lock[a] + 1]
    /\ UNCHANGED <<accountVars, list, cur, open>>

BecomeDue(a) ==
    /\ a \notin due
    /\ \A b \in Accounts : <<b, a>> \in older => b \in due
    /\ due' = due \cup {a}
    /\ UNCHANGED <<pooled, older, dead, relogins, lock, replicaVars>>

LoginDies(a) ==
    /\ a \notin dead
    /\ dead' = dead \cup {a}
    /\ UNCHANGED <<pooled, due, older, relogins, lock, replicaVars>>

\* A new durable token, and back into the pool; refresh_at stays.
Relogin(a) ==
    /\ relogins < MaxRelogins
    /\ a \in dead \/ a \notin pooled
    /\ relogins' = relogins + 1
    /\ dead' = dead \ {a}
    /\ pooled' = pooled \cup {a}
    /\ UNCHANGED <<due, older, lock, replicaVars>>

\* A request finds the login dead, or the operator takes the account out.
TakeOut(a) ==
    /\ a \in pooled
    /\ pooled' = pooled \ {a}
    /\ UNCHANGED <<due, older, dead, relogins, lock, replicaVars>>

----------------------------------------------------------------------------
ReplicaNext(p) ==
    \/ Scan(p)
    \/ \E a \in Accounts : Lock(p, a) \/ Skip(p, a) \/ FailOpen(p, a)
    \/ Healthy(p)
    \/ Expired(p)
    \/ Transient(p)
    \/ Fail(p)

Next ==
    \/ \E p \in Replicas : ReplicaNext(p)
    \/ \E a \in Accounts : BecomeDue(a) \/ LoginDies(a) \/ Relogin(a) \/ TakeOut(a)
    \/ Tick

Spec == Init /\ [][Next]_vars

Begin(p) == \E a \in Accounts : Lock(p, a) \/ Skip(p, a) \/ FailOpen(p, a)
Ends(p) == Healthy(p) \/ Expired(p) \/ Transient(p) \/ Fail(p)

\* An account is not skipped or cut off every time it is due, nor does GitHub
\* fail each of its validations: a working login is found healthy, a dead one
\* expired, sooner or later.  This is assumed of every account, since the code
\* does not provide for one that fails for ever (see DeadIsFound).
Answers(a) ==
    /\ SF_vars(\E p \in Replicas : Lock(p, a))
    /\ SF_vars(\E p \in Replicas : cur[p] = a /\ a \notin dead /\ Healthy(p))
    /\ SF_vars(\E p \in Replicas : cur[p] = a /\ a \in dead /\ Expired(p))

\* The event loop of each replica goes on and ticks repeat; time passes.
FairSpec ==
    /\ Spec
    /\ WF_vars(Tick)
    /\ \A p \in Replicas :
         /\ WF_vars(Scan(p) /\ list'[p] # {})
         /\ WF_vars(Begin(p))
         /\ WF_vars(Ends(p))
    /\ \A a \in Accounts : WF_vars(BecomeDue(a)) /\ Answers(a)

----------------------------------------------------------------------------
(* Properties.                                                             *)

(* Two replicas validate an account at once only when one of them outlasts *)
(* its lock, or never had it because Redis failed.  (refresher.py:18-19    *)
(* has "never" without these.)                                             *)
Unlocked(p) == p \in open \/ elapsed[p] >= LockTTL
LocksExclude ==
    \A p, q \in Replicas :
        Checking(p) /\ cur[p] = cur[q] /\ p # q => Unlocked(p) \/ Unlocked(q)

\* Why: until then the lock in Redis is the replica's own.
HoldsLock ==
    \A p \in Replicas :
        Checking(p) /\ ~Unlocked(p) => lock[cur[p]] = elapsed[p]

RefresherInv == RefresherTypeOK /\ LocksExclude /\ HoldsLock

(* A dead login is found without user traffic: the account is quarantined, *)
(* or its login renewed, although the list of due accounts is cut at Limit *)
(* and others are ahead of it, replicas lock it, fail open and crash, and  *)
(* answers that say nothing of the login (a 5xx, a 429) send it to the end *)
(* of the list.  No account may fail its validations for ever: Limit of    *)
(* them would keep the head of the list and starve the rest.               *)
DeadIsFound ==
    \A a \in Accounts : a \in dead \cap pooled ~> a \notin dead \cap pooled
============================================================================
