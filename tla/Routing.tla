------------------------------ MODULE Routing ------------------------------
(***************************************************************************)
(* Requests, the refresher and the operator over the account store.        *)
(*                                                                         *)
(* A request runs Forwarder.handle, or _stream, which follows the same     *)
(* policy: find or claim the user's account, send, and on an expired login *)
(* quarantine, release, claim another and retry once.  Every await of the  *)
(* handler is a point where other requests, the refresher and the admin    *)
(* API run, and where the request may die (database error, cancelled       *)
(* client, pod restart); a request is at one of these points between two   *)
(* actions.                                                                *)
(***************************************************************************)
EXTENDS AccountPool

CONSTANTS
    Requests,       \* requests in progress at once, over all proxy replicas
    NoUser,         \* the user of a request slot that is not in use
    Solo,           \* users whose client waits for an answer before asking again
    AdminOps,       \* the admin API calls made: a subset of AllAdminOps
    Mortal          \* accounts whose login may die: the store never looks at it

AllAdminOps == {"import", "set_status", "login", "release"}

ASSUME NoUserAssumption == NoUser \notin Users
ASSUME SoloAssumption == Solo \subseteq Users
ASSUME AdminOpsAssumption == AdminOps \subseteq AllAdminOps
ASSUME MortalAssumption == Mortal \subseteq Accounts

VARIABLES
    pc,             \* the await each request is at
    who,            \* its authenticated user
    acct,           \* the account it uses: binding.account_id
    left,           \* on the retry, the account it was rebound away from
    probe,          \* the refresher's progress on each account
    dead            \* accounts whose durable login GitHub no longer accepts

reqVars == <<pc, who, acct, left>>
vars == <<storeVars, reqVars, probe, dead>>

Points == {"free", "lookup", "claim", "send", "quarantine", "release"}

RoutingTypeOK ==
    /\ PoolTypeOK
    /\ pc \in [Requests -> Points]
    /\ who \in [Requests -> Users \cup {NoUser}]
    /\ acct \in [Requests -> Accounts \cup {NoAccount}]
    /\ left \in [Requests -> Accounts \cup {NoAccount}]
    /\ probe \in [Accounts -> {"none", "due", "expired"}]
    /\ dead \subseteq Accounts

Open(r) == pc[r] # "free"
Busy(u) == \E r \in Requests : Open(r) /\ who[r] = u
IsRetry(r) == left[r] # NoAccount

Init ==
    /\ PoolInit
    /\ pc = [r \in Requests |-> "free"]
    /\ who = [r \in Requests |-> NoUser]
    /\ acct = [r \in Requests |-> NoAccount]
    /\ left = [r \in Requests |-> NoAccount]
    /\ probe = [a \in Accounts |-> "none"]
    /\ dead = {}

----------------------------------------------------------------------------
(* A request.                                                              *)

Goto(r, p) == pc' = [pc EXCEPT ![r] = p]

Close(r) ==
    /\ Goto(r, "free")
    /\ who' = [who EXCEPT ![r] = NoUser]
    /\ acct' = [acct EXCEPT ![r] = NoAccount]
    /\ left' = [left EXCEPT ![r] = NoAccount]

Arrive(r, u) ==
    /\ ~Open(r)
    /\ u \in Solo => ~Busy(u)
    /\ Goto(r, "lookup")
    /\ who' = [who EXCEPT ![r] = u]
    /\ UNCHANGED <<storeVars, acct, left, probe, dead>>

\* get_or_bind: the status of an account already bound is not looked at.
LookUp(r) ==
    /\ pc[r] = "lookup"
    /\ IF GetBinding(who[r]) # NoAccount
         THEN acct' = [acct EXCEPT ![r] = GetBinding(who[r])] /\ Goto(r, "send")
         ELSE Goto(r, "claim") /\ UNCHANGED acct
    /\ UNCHANGED <<storeVars, who, left, probe, dead>>

\* Mutant: the claim's answer is not taken over.
ClaimForgetsAccount(r, a) ==
    /\ pc[r] = "claim"
    /\ ClaimIdleAccount(who[r], a)
    /\ Goto(r, "send")
    /\ UNCHANGED <<who, acct, left, probe, dead>>

\* The second half of get_or_bind, and the last call of rebind_away_from.
ClaimAccount(r, a) ==
    /\ pc[r] = "claim"
    /\ ClaimIdleAccount(who[r], a)
    /\ acct' = [acct EXCEPT ![r] = a]
    /\ Goto(r, "send")
    /\ UNCHANGED <<who, left, probe, dead>>

\* NoAccountAvailable, answered 503: nothing is idle, or every idle row was
\* held by some transaction and skipped.
ClaimNothing(r) ==
    /\ pc[r] = "claim"
    /\ Close(r)
    /\ UNCHANGED <<storeVars, probe, dead>>

\* The answer of GitHub is not a dead login: the response is passed on,
\* streamed or not, and the request ends.
Answer(r) ==
    /\ pc[r] = "send"
    /\ Close(r)
    /\ UNCHANGED <<storeVars, probe, dead>>

\* is_login_expired: 401, or a 403 that names the login.  The login is dead, or
\* the bearer was cached before it was renewed (TokenService).
AnswerExpired(r) ==
    /\ pc[r] = "send"
    /\ Goto(r, "quarantine")
    /\ UNCHANGED <<storeVars, who, acct, left, probe, dead>>

\* Mutants: the account is released without being quarantined; quarantining
\* deletes the binding in the same statement.
SkipQuarantine(r) ==
    /\ pc[r] = "quarantine"
    /\ Goto(r, "release")
    /\ UNCHANGED <<storeVars, who, acct, left, probe, dead>>

QuarantineAndUnbind(r) ==
    /\ pc[r] = "quarantine"
    /\ status' = [status EXCEPT ![acct[r]] = "quarantined"]
    /\ binding' = [binding EXCEPT ![who[r]] = NoAccount]
    /\ Goto(r, "release")
    /\ UNCHANGED <<pending, who, acct, left, probe, dead>>

\* First repository call of rebind_away_from, and of the exit after a retry
\* that expired too.
Quarantine(r) ==
    /\ pc[r] = "quarantine"
    /\ QuarantineAccount(acct[r])
    /\ Goto(r, "release")
    /\ UNCHANGED <<who, acct, left, probe, dead>>

\* Mutant: DELETE ... WHERE account_id: whoever holds the account loses it.
ReleaseByAccount(r) ==
    /\ pc[r] = "release"
    /\ binding' = [u \in Users |-> IF binding[u] = acct[r] THEN NoAccount
                                                        ELSE binding[u]]
    /\ UNCHANGED <<status, pending, probe, dead>>
    /\ IF IsRetry(r)
         THEN Close(r)
         ELSE /\ Goto(r, "claim")
              /\ left' = [left EXCEPT ![r] = acct[r]]
              /\ acct' = [acct EXCEPT ![r] = NoAccount]
              /\ UNCHANGED who

\* The user's binding is deleted, whichever account it names by now.
Release(r) ==
    /\ pc[r] = "release"
    /\ ReleaseBinding(who[r])
    /\ IF IsRetry(r)
         THEN Close(r)
         ELSE /\ Goto(r, "claim")
              /\ left' = [left EXCEPT ![r] = acct[r]]
              /\ acct' = [acct EXCEPT ![r] = NoAccount]
              /\ UNCHANGED who
    /\ UNCHANGED <<probe, dead>>

\* An exception or a cancellation at any await: what was written stays.
\* A claim that violates UNIQUE (account_id) ends here too.
Abort(r) ==
    /\ Open(r)
    /\ Close(r)
    /\ UNCHANGED <<storeVars, probe, dead>>

----------------------------------------------------------------------------
(* The refresher: due_for_revalidation, then one account after another.    *)

Due(a) ==
    /\ probe[a] = "none"
    /\ status[a] \in {"idle", "bound"}
    /\ probe' = [probe EXCEPT ![a] = "due"]
    /\ UNCHANGED <<storeVars, reqVars, dead>>

\* Healthy, or a transient failure: the account is left alone.
ProbeAlive(a) ==
    /\ probe[a] = "due"
    /\ probe' = [probe EXCEPT ![a] = "none"]
    /\ UNCHANGED <<storeVars, reqVars, dead>>

ProbeExpired(a) ==
    /\ probe[a] = "due"
    /\ probe' = [probe EXCEPT ![a] = "expired"]
    /\ UNCHANGED <<storeVars, reqVars, dead>>

\* Quarantines; a user bound to the account keeps the binding.
ProbeQuarantine(a) ==
    /\ probe[a] = "expired"
    /\ QuarantineAccount(a)
    /\ probe' = [probe EXCEPT ![a] = "none"]
    /\ UNCHANGED <<reqVars, dead>>

----------------------------------------------------------------------------
(* GitHub and the operator.                                                *)

LoginDies(a) ==
    /\ Exists(a)
    /\ a \in Mortal \ dead
    /\ dead' = dead \cup {a}
    /\ UNCHANGED <<storeVars, reqVars, probe>>

\* The imported token may work or not.
Import(a) ==
    /\ "import" \in AdminOps
    /\ AddAccount(a)
    /\ dead' \in {dead, dead \ {a}}
    /\ UNCHANGED <<reqVars, probe>>

SetStatus(a) ==
    /\ "set_status" \in AdminOps
    /\ \E s \in OperatorStatus : SetAccountStatus(a, s)
    /\ UNCHANGED <<reqVars, probe, dead>>

StartLogin(a) ==
    /\ "login" \in AdminOps
    /\ CreateDeviceSession(a)
    /\ UNCHANGED <<reqVars, probe, dead>>

CompleteLogin(a) ==
    /\ CompleteDeviceSession(a)
    /\ dead' = dead \ {a}
    /\ UNCHANGED <<reqVars, probe>>

DropLogin(a) ==
    /\ DropDeviceSession(a)
    /\ UNCHANGED <<reqVars, probe, dead>>

\* Also while the user has a request in flight, which goes on.
OperatorRelease(u) ==
    /\ "release" \in AdminOps
    /\ ReleaseBinding(u)
    /\ UNCHANGED <<reqVars, probe, dead>>

----------------------------------------------------------------------------
RequestNext(r) ==
    \/ \E u \in Users : Arrive(r, u)
    \/ LookUp(r)
    \/ \E a \in Accounts : ClaimAccount(r, a)
    \/ ClaimNothing(r)
    \/ Answer(r)
    \/ AnswerExpired(r)
    \/ Quarantine(r)
    \/ Release(r)
    \/ Abort(r)

RefresherNext(a) == Due(a) \/ ProbeAlive(a) \/ ProbeExpired(a) \/ ProbeQuarantine(a)

EnvironmentNext(a) ==
    \/ LoginDies(a)
    \/ Import(a)
    \/ SetStatus(a)
    \/ StartLogin(a)
    \/ CompleteLogin(a)
    \/ DropLogin(a)

Next ==
    \/ \E r \in Requests : RequestNext(r)
    \/ \E a \in Accounts : RefresherNext(a) \/ EnvironmentNext(a)
    \/ \E u \in Users : OperatorRelease(u)

Spec == Init /\ [][Next]_vars

\* The event loop runs every request that can go on; a client keeps asking;
\* a dead login is answered with an expiry sooner or later, and a user's
\* requests are not all cut short at the same await.
UserProgress(u) ==
    /\ WF_vars(\E r \in Requests : Arrive(r, u))
    /\ SF_vars(\E r \in Requests : who[r] = u /\ LookUp(r))
    /\ SF_vars(\E r \in Requests : who[r] = u /\ acct[r] \in dead /\ AnswerExpired(r))
    /\ SF_vars(\E r \in Requests : who[r] = u /\ Quarantine(r))
    /\ SF_vars(\E r \in Requests : who[r] = u /\ Release(r))

FairSpec == Spec /\ \A u \in Users : UserProgress(u)
----------------------------------------------------------------------------
(* Properties.                                                             *)

\* A user whose client waits for each answer is bound to the account it
\* drives, from the send to the end of the rebind, or, where the operator
\* releases bindings, to none; so the release of a rebind deletes no binding
\* but the one it means to delete.
SoloDrivesOwn ==
    \A r \in Requests :
        who[r] \in Solo /\ pc[r] \in {"send", "quarantine", "release"}
            => \/ binding[who[r]] = acct[r]
               \/ "release" \in AdminOps /\ binding[who[r]] = NoAccount

\* What makes it inductive.
ClosedIsNobodys == \A r \in Requests : Open(r) <=> who[r] # NoUser
HasAccount ==
    \A r \in Requests :
        pc[r] \in {"send", "quarantine", "release"} => acct[r] # NoAccount
SoloAlone ==
    \A r, q \in Requests : who[r] \in Solo /\ who[q] = who[r] => q = r
SoloClaimsUnbound ==
    \A r \in Requests :
        who[r] \in Solo /\ pc[r] = "claim" => binding[who[r]] = NoAccount

SoloInv ==
    /\ RoutingTypeOK
    /\ OneToOne
    /\ ClosedIsNobodys
    /\ HasAccount
    /\ SoloAlone
    /\ SoloClaimsUnbound
    /\ SoloDrivesOwn

(* No account is lost to the pool: one marked 'bound' belongs to a user    *)
(* (claim, release and the end of a login keep accounts.status and         *)
(* bindings in step).                                                      *)
BoundHasOwner == \A a \in Accounts : status[a] = "bound" => Bound(a)

(* The idle pool holds no account a user is still bound to, so no claim    *)
(* can run into UNIQUE (account_id) and answer 500.                        *)
IdleIsUnbound == \A a \in Accounts : status[a] = "idle" => ~Bound(a)

(* The one retry of a request goes to another account than the one found   *)
(* dead, also when several requests and the refresher quarantine, release  *)
(* and claim at once (binding.py: "quarantined *first* so it cannot be     *)
(* re-handed-out").                                                        *)
RetryElsewhere ==
    \A r \in Requests :
        pc[r] = "send" /\ IsRetry(r) => acct[r] # left[r]

(* A user does not stay on a dead account: if it keeps asking, it is       *)
(* rebound or released, or the operator renews the login.                  *)
StuckOn(u, a) == binding[u] = a /\ a \in dead
LeavesDeadAccount ==
    \A u \in Users, a \in Accounts : StuckOn(u, a) ~> ~StuckOn(u, a)

(* An account at GitHub is used by one user at a time ("the upstream never *)
(* sees one account driven by many users").                                *)
OneDriverPerAccount ==
    \A r, q \in Requests :
        pc[r] = "send" /\ pc[q] = "send" /\ acct[r] = acct[q]
            => who[r] = who[q]

(* Where no user races itself, that is so of users who still have their    *)
(* bindings: whom the operator released in the middle of a request goes on *)
(* with it, whoever gets the account next.                                 *)
OneDriverUntilReleased ==
    \A r, q \in Requests :
        /\ pc[r] = "send" /\ pc[q] = "send" /\ acct[r] = acct[q]
        /\ binding[who[r]] # NoAccount /\ binding[who[q]] # NoAccount
        => who[r] = who[q]

(* Nobody but the operator takes the account from under a Solo user's      *)
(* request: not the rebinds of other users, racing or not, that release    *)
(* and claim around it, nor the refresher.                                 *)
SoloKeepsAccount ==
    [][\A r \in Requests :
         /\ who[r] \in Solo /\ pc[r] \in {"send", "quarantine", "release"}
         /\ binding'[who[r]] # binding[who[r]]
         => Release(r) \/ OperatorRelease(who[r])]_vars

SoloBinding == [u \in Solo |-> binding[u]]
Sending == {r \in Requests : pc[r] = "send" /\ who[r] \in Solo}
SoloUse == {<<who[r], acct[r]>> : r \in Sending}

Lease == INSTANCE AccountLease
            WITH Users <- Solo, lease <- SoloBinding, use <- SoloUse,
                 Revocable <- ("release" \in AdminOps)

(* For Solo users the handlers implement exclusive leases, which only the  *)
(* operator takes away: each step is a lease step of one user, or none.    *)
ImplementsLease == Lease!Spec

(* Every step of the system is a call of the store.                        *)
UsesStore == PoolSpec
============================================================================
