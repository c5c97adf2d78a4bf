----------------------------- MODULE DeviceLogin -----------------------------
(***************************************************************************)
(* The device flow: start_login and poll_login of the admin API, over      *)
(* device_sessions, accounts and GitHub's device codes.                    *)
(*                                                                         *)
(* AccountPool sees a login as a count of those that may still complete;   *)
(* here each has its row, its code at GitHub and the polls that work on    *)
(* it.  Two consoles, or two tabs, may poll at once.  Users of the store   *)
(* other than the device flow appear as far as they touch status, binding  *)
(* or the stored token.                                                    *)
(***************************************************************************)
EXTENDS Naturals, FiniteSets

CONSTANTS
    Users,
    Accounts,
    NoAccount,
    MaxSessions,    \* bound: device_sessions rows ever created
    Polls,          \* poll_login calls in progress at once
    OperatorSets    \* what set_account_status is used for

ASSUME NoAccountAssumption == NoAccount \notin Accounts
ASSUME MaxSessionsAssumption == MaxSessions \in Nat
ASSUME OperatorSetsAssumption == OperatorSets \subseteq {"idle", "disabled", "quarantined"}

VARIABLES
    status,         \* accounts.status; "absent" where there is no row
    binding,        \* bindings
    stored,         \* accounts with an oauth_token_enc
    session,        \* device_sessions.status; rows are numbered by created_at
    of,             \* device_sessions.account_id
    lapsed,         \* rows whose expires_at has passed
    code,           \* what GitHub makes of each row's device code
    poll,           \* the await each poll_login is at
    on              \* the row it read

accountVars == <<status, binding, stored>>
sessionVars == <<session, of, lapsed>>
pollVars == <<poll, on>>
vars == <<accountVars, sessionVars, code, pollVars>>

Sessions == 1..MaxSessions
NoSession == 0

LoginTypeOK ==
    /\ status \in [Accounts -> {"absent", "logging_in", "idle", "bound",
                                "quarantined", "disabled"}]
    /\ binding \in [Users -> Accounts \cup {NoAccount}]
    /\ stored \subseteq Accounts
    /\ session \in [Sessions -> {"none", "pending", "authorized", "denied"}]
    /\ of \in [Sessions -> Accounts \cup {NoAccount}]
    /\ lapsed \subseteq Sessions
    /\ code \in [Sessions -> {"none", "waiting", "granted", "redeemed", "refused"}]
    /\ poll \in [Polls -> {"none", "post", "deny", "complete"}]
    /\ on \in [Polls -> Sessions \cup {NoSession}]

Init ==
    /\ status = [a \in Accounts |-> "absent"]
    /\ binding = [u \in Users |-> NoAccount]
    /\ stored = {}
    /\ session = [s \in Sessions |-> "none"]
    /\ of = [s \in Sessions |-> NoAccount]
    /\ lapsed = {}
    /\ code = [s \in Sessions |-> "none"]
    /\ poll = [p \in Polls |-> "none"]
    /\ on = [p \in Polls |-> NoSession]

Exists(a) == status[a] # "absent"
Bound(a) == \E u \in Users : binding[u] = a

----------------------------------------------------------------------------
(* start_login: GitHub's code, then create_device_session.                 *)

StartLogin(s, a) ==
    /\ session[s] = "none"
    /\ \A t \in Sessions : t < s => session[t] # "none"
    /\ session' = [session EXCEPT ![s] = "pending"]
    /\ of' = [of EXCEPT ![s] = a]
    /\ code' = [code EXCEPT ![s] = "waiting"]
    /\ status' = [status EXCEPT ![a] =
                    IF @ \in {"bound", "disabled"} THEN @ ELSE "logging_in"]
    /\ UNCHANGED <<binding, stored, lapsed, pollVars>>

----------------------------------------------------------------------------
(* poll_login.                                                             *)

Pending(a) == {s \in Sessions : /\ of[s] = a
                                /\ session[s] = "pending"
                                /\ s \notin lapsed}
IsNewest(s) == s \in Pending(of[s]) /\ \A t \in Pending(of[s]) : t <= s

\* Mutant: ORDER BY created_at without DESC.
PollOldest(p, s) ==
    /\ poll[p] = "none"
    /\ s \in Pending(of[s]) /\ \A t \in Pending(of[s]) : t >= s
    /\ poll' = [poll EXCEPT ![p] = "post"]
    /\ on' = [on EXCEPT ![p] = s]
    /\ UNCHANGED <<accountVars, sessionVars, code>>

\* get_pending_device_session, and the request leaves for GitHub.
PollStart(p, s) ==
    /\ poll[p] = "none"
    /\ IsNewest(s)
    /\ poll' = [poll EXCEPT ![p] = "post"]
    /\ on' = [on EXCEPT ![p] = s]
    /\ UNCHANGED <<accountVars, sessionVars, code>>

Return(p) ==
    /\ poll' = [poll EXCEPT ![p] = "none"]
    /\ on' = [on EXCEPT ![p] = NoSession]

\* AuthorizationPending or SlowDown: 202.
PollPending(p) ==
    /\ poll[p] = "post"
    /\ code[on[p]] = "waiting"
    /\ Return(p)
    /\ UNCHANGED <<accountVars, sessionVars, code>>

\* Mutant: the code stays good until its token is stored.
GrantedAgain(p) ==
    /\ poll[p] = "post"
    /\ code[on[p]] = "granted"
    /\ poll' = [poll EXCEPT ![p] = "complete"]
    /\ UNCHANGED <<accountVars, sessionVars, code, on>>

\* GitHub gives a token once for a code.
PollGranted(p) ==
    /\ poll[p] = "post"
    /\ code[on[p]] = "granted"
    /\ code' = [code EXCEPT ![on[p]] = "redeemed"]
    /\ poll' = [poll EXCEPT ![p] = "complete"]
    /\ UNCHANGED <<accountVars, sessionVars, on>>

\* DeviceFlowError: GitHub refuses the code, or is not reached (_HttpxForm
\* turns that into a DeviceFlowError too), perhaps only on the way back.
PollError(p) ==
    /\ poll[p] = "post"
    /\ code' \in {code, [code EXCEPT ![on[p]] =
                            IF @ = "granted" THEN "redeemed" ELSE @]}
    /\ poll' = [poll EXCEPT ![p] = "deny"]
    /\ UNCHANGED <<accountVars, sessionVars, on>>

\* Mutant: a denied login puts the account back into the pool.
DenyAsIdle(p) ==
    /\ poll[p] = "deny"
    /\ session' = [session EXCEPT ![on[p]] = "denied"]
    /\ status' = [status EXCEPT ![of[on[p]]] = IF @ = "logging_in" THEN "idle" ELSE @]
    /\ Return(p)
    /\ UNCHANGED <<binding, stored, of, lapsed, code>>

\* mark_device_session: whatever the row's status is by now; the account
\* stays as it is.
PollDeny(p) ==
    /\ poll[p] = "deny"
    /\ session' = [session EXCEPT ![on[p]] = "denied"]
    /\ Return(p)
    /\ UNCHANGED <<accountVars, of, lapsed, code>>

\* Mutant: the status is restored from what it was, not from the bindings.
CompleteFromStatus(p) ==
    LET a == of[on[p]] IN
    /\ poll[p] = "complete"
    /\ session' = [session EXCEPT ![on[p]] = "authorized"]
    /\ stored' = stored \cup {a}
    /\ status' = [status EXCEPT ![a] = IF @ = "bound" THEN "bound" ELSE "idle"]
    /\ Return(p)
    /\ UNCHANGED <<binding, of, lapsed, code>>

\* complete_device_session: also of a row denied meanwhile, and of an account
\* disabled meanwhile.
PollComplete(p) ==
    LET a == of[on[p]] IN
    /\ poll[p] = "complete"
    /\ session' = [session EXCEPT ![on[p]] = "authorized"]
    /\ stored' = stored \cup {a}
    /\ status' = [status EXCEPT ![a] = IF Bound(a) THEN "bound" ELSE "idle"]
    /\ Return(p)
    /\ UNCHANGED <<binding, of, lapsed, code>>

\* The call dies: a token that was not stored yet is lost.
PollAbort(p) ==
    /\ poll[p] # "none"
    /\ Return(p)
    /\ UNCHANGED <<accountVars, sessionVars, code>>

----------------------------------------------------------------------------
(* The clock, the person at the browser and GitHub.                        *)

Lapse(s) ==
    /\ session[s] # "none"
    /\ s \notin lapsed
    /\ lapsed' = lapsed \cup {s}
    /\ UNCHANGED <<accountVars, session, of, code, pollVars>>

Grant(s) ==
    /\ code[s] = "waiting"
    /\ code' = [code EXCEPT ![s] = "granted"]
    /\ UNCHANGED <<accountVars, sessionVars, pollVars>>

Refuse(s) ==
    /\ code[s] \in {"waiting", "granted"}
    /\ code' = [code EXCEPT ![s] = "refused"]
    /\ UNCHANGED <<accountVars, sessionVars, pollVars>>

----------------------------------------------------------------------------
(* The other users of the store.                                           *)

Import(a) ==
    /\ stored' = stored \cup {a}
    /\ status' = [status EXCEPT ![a] =
                    IF @ \in {"absent", "quarantined"} THEN "idle" ELSE @]
    /\ UNCHANGED <<binding, sessionVars, code, pollVars>>

QuarantineAccount(a) ==
    /\ Exists(a)
    /\ status' = [status EXCEPT ![a] = "quarantined"]
    /\ UNCHANGED <<binding, stored, sessionVars, code, pollVars>>

SetStatus(a) ==
    /\ Exists(a)
    /\ \E new \in OperatorSets : status' = [status EXCEPT ![a] = new]
    /\ UNCHANGED <<binding, stored, sessionVars, code, pollVars>>

Claim(u, a) ==
    /\ status[a] = "idle"
    /\ \A v \in Users \ {u} : binding[v] # a
    /\ status' = [status EXCEPT ![a] = "bound"]
    /\ binding' = [binding EXCEPT ![u] = a]
    /\ UNCHANGED <<stored, sessionVars, code, pollVars>>

Release(u) ==
    /\ binding' = [binding EXCEPT ![u] = NoAccount]
    /\ status' = [a \in Accounts |->
                    IF a = binding[u] /\ status[a] = "bound" THEN "idle"
                                                             ELSE status[a]]
    /\ UNCHANGED <<stored, sessionVars, code, pollVars>>

----------------------------------------------------------------------------
Answer(p) ==
    \/ PollPending(p)
    \/ PollGranted(p)
    \/ PollError(p)
    \/ PollDeny(p)
    \/ PollComplete(p)

Next ==
    \/ \E s \in Sessions, a \in Accounts : StartLogin(s, a)
    \/ \E p \in Polls : (\E s \in Sessions : PollStart(p, s)) \/ Answer(p) \/ PollAbort(p)
    \/ \E s \in Sessions : Lapse(s) \/ Grant(s) \/ Refuse(s)
    \/ \E a \in Accounts : Import(a) \/ QuarantineAccount(a) \/ SetStatus(a)
    \/ \E u \in Users, a \in Accounts : Claim(u, a)
    \/ \E u \in Users : Release(u)

Spec == Init /\ [][Next]_vars

\* The operator repeats the poll while it is answered 202 (the console has a
\* button for it); GitHub answers or the request times out, and the polls are
\* not all cut short at the same await.
FairSpec ==
    /\ Spec
    /\ \A a \in Accounts :
         WF_vars(\E p \in Polls, s \in Sessions : of[s] = a /\ PollStart(p, s))
    /\ \A p \in Polls :
         /\ SF_vars(PollPending(p) \/ PollGranted(p) \/ PollError(p))
         /\ SF_vars(PollDeny(p) \/ PollComplete(p))

----------------------------------------------------------------------------
(* Properties.                                                             *)

\* A row, its code at GitHub and the polls on it belong together.
RowsHaveCodes ==
    \A s \in Sessions :
        /\ session[s] = "none" <=> code[s] = "none"
        /\ session[s] = "none" <=> of[s] = NoAccount
        /\ s \in lapsed => session[s] # "none"

PollsHaveRows ==
    \A p \in Polls :
        IF poll[p] = "none" THEN on[p] = NoSession
                            ELSE on[p] \in Sessions /\ session[on[p]] # "none"

\* A token given out for a code is with one poll, which alone will store it.
OneRedeems ==
    \A p \in Polls : poll[p] = "complete" =>
        /\ code[on[p]] = "redeemed"
        /\ \A q \in Polls : poll[q] = "complete" /\ on[q] = on[p] => q = p

(* However logins are started, polled and ended at once, every poll works  *)
(* on a row that exists and one poll alone stores the token of a code.     *)
LoginInv == LoginTypeOK /\ RowsHaveCodes /\ PollsHaveRows /\ OneRedeems

(* An account in the pool, or given to a user, has a durable token: one    *)
(* whose first login is pending, denied, lost or abandoned is never handed *)
(* out ("NULL" would be sent to GitHub as an empty bearer).                *)
PooledHasToken ==
    \A a \in Accounts : status[a] \in {"idle", "bound"} => a \in stored

(* A login that was authorized at GitHub does not hang: the console's next *)
(* polls find it, unless it lapses or another login of the account is      *)
(* started, and end it one way or the other.                               *)
AuthorizedLoginEnds ==
    \A s \in Sessions :
        IsNewest(s) /\ code[s] = "granted" ~> ~IsNewest(s)

\* A login that a poll may still complete.
Completable(s) ==
    \/ \E p \in Polls : poll[p] = "complete" /\ on[p] = s
    \/ /\ code[s] \in {"waiting", "granted"}
       /\ \/ session[s] = "pending" /\ s \notin lapsed
          \/ \E p \in Polls : poll[p] = "post" /\ on[p] = s

OpenLogins(a) == {s \in Sessions : of[s] = a /\ Completable(s)}
openLogins == [a \in Accounts |-> Cardinality(OpenLogins(a))]

Pool == INSTANCE AccountPool
            WITH MaxLogins <- MaxSessions, pending <- openLogins

(* With double polls, lost answers, lapsed rows and crashes, the device    *)
(* flow does to the accounts what AccountPool says.                        *)
ImplementsPool == Pool!PoolSpec
============================================================================
