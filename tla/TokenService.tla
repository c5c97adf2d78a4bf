---------------------------- MODULE TokenService ----------------------------
(***************************************************************************)
(* The bearer cache of one process (credential/token_service.py) and the   *)
(* calls through it (proxy/upstream.py, or the refresher): coroutines of   *)
(* one event loop, so an action runs from one await to the next.           *)
(*                                                                         *)
(* asyncio.Lock is external; its objects have an identity here, because    *)
(* bearer_for drops a lock from the table and may make another.  A lock is *)
(* locked by the one caller in the exchange.  A release wakes the first    *)
(* waiter; until that waiter runs the lock is not locked, yet the waiter   *)
(* is still in _waiters and a newcomer queues behind it.                   *)
(***************************************************************************)
EXTENDS Naturals

CONSTANTS
    Accounts,
    Callers,        \* coroutines of this process that may need a bearer
    LockIds,        \* identities of the asyncio.Lock objects
    NoLock,
    NoEntry,        \* no entry in _cache
    MaxCred,        \* bound: how often an account's durable token is replaced
    Invalidates     \* TRUE in the proxy; the refresher never calls invalidate

ASSUME NoLockAssumption == NoLock \notin LockIds
ASSUME MaxCredAssumption == MaxCred \in Nat
ASSUME NoEntryAssumption == NoEntry \notin 0..MaxCred
ASSUME InvalidatesAssumption == Invalidates \in BOOLEAN

VARIABLES
    pc,             \* the await each caller is at
    acct,           \* the account it works for
    tok,            \* the durable token in its Account object, as a version
    lock,           \* the lock object it holds or waits for
    ahead,          \* <<c, d>>: c waits before d in the _waiters of their lock
    locks,          \* _locks
    cache,          \* _cache: the durable token the bearer comes from
    fresh,          \* accounts whose entry is before its refresh_after
    bearer,         \* the bearer a caller got
    cred,           \* the durable token stored in the account row
    live,           \* <<account, version>> pairs GitHub still accepts
    quarantined     \* accounts the verdicts of this process took out

callVars == <<pc, acct, tok, lock, bearer>>
lockVars == <<ahead, locks>>
cacheVars == <<cache, fresh>>
accountVars == <<cred, live, quarantined>>
vars == <<callVars, lockVars, cacheVars, accountVars>>

Creds == 0..MaxCred

\* "refused" is CopilotAuthExpired of the exchange, "expired" an answer that
\* is_login_expired.
Points ==
    {"idle", "loaded", "waiting", "woken", "exchange", "refused", "send", "expired"}

TokenTypeOK ==
    /\ pc \in [Callers -> Points]
    /\ acct \in [Callers -> Accounts]
    /\ tok \in [Callers -> Creds]
    /\ bearer \in [Callers -> Creds]
    /\ lock \in [Callers -> LockIds \cup {NoLock}]
    /\ ahead \subseteq Callers \X Callers
    /\ locks \in [Accounts -> LockIds \cup {NoLock}]
    /\ cache \in [Accounts -> Creds \cup {NoEntry}]
    /\ fresh \subseteq Accounts
    /\ cred \in [Accounts -> Creds]
    /\ live \subseteq Accounts \X Creds
    /\ quarantined \subseteq Accounts

Init ==
    /\ pc = [c \in Callers |-> "idle"]
    /\ acct \in [Callers -> Accounts]
    /\ tok = [c \in Callers |-> 0]
    /\ bearer = [c \in Callers |-> 0]
    /\ lock = [c \in Callers |-> NoLock]
    /\ ahead = {}
    /\ locks = [a \in Accounts |-> NoLock]
    /\ cache = [a \in Accounts |-> NoEntry]
    /\ fresh = {}
    /\ cred = [a \in Accounts |-> 0]
    /\ live = {<<a, 0>> : a \in Accounts}
    /\ quarantined = {}

----------------------------------------------------------------------------
(* asyncio.Lock.                                                           *)

InUse == {lock[c] : c \in Callers} \cup {locks[a] : a \in Accounts}
Locked(l) == \E c \in Callers : lock[c] = l /\ pc[c] = "exchange"
Waiters(l) == {c \in Callers : lock[c] = l /\ pc[c] \in {"waiting", "woken"}}
Free(l) == ~Locked(l) /\ Waiters(l) = {}

IsFirst(c, waiters) == c \in waiters /\ \A d \in waiters : <<d, c>> \notin ahead

\* c leaves its lock for p: it drops out of the waiters and, unless another
\* caller holds the lock, wakes the first of those that remain.
LeaveTo(c, p) ==
    LET rest == Waiters(lock[c]) \ {c}
        held == \E d \in Callers \ {c} : lock[d] = lock[c] /\ pc[d] = "exchange"
    IN  /\ pc' = [d \in Callers |->
                    IF d = c THEN p
                    ELSE IF ~held /\ IsFirst(d, rest) THEN "woken"
                    ELSE pc[d]]
        /\ lock' = [lock EXCEPT ![c] = NoLock]
        /\ ahead' = {q \in ahead : q[1] # c /\ q[2] # c}

\* Mutants: reclaiming without asking for waiters, without asking whether the
\* lock is held, and not at all.
ReclaimUnderWaiters(c) ==
    locks' = [locks EXCEPT ![acct[c]] =
                IF /\ ~\E d \in Callers \ {c} : lock[d] = lock[c] /\ pc[d] = "exchange"
                   /\ cache'[acct[c]] = NoEntry
                THEN NoLock ELSE @]

ReclaimUnderHolder(c) ==
    locks' = [locks EXCEPT ![acct[c]] =
                IF /\ Waiters(lock[c]) \ {c} = {}
                   /\ cache'[acct[c]] = NoEntry
                THEN NoLock ELSE @]

NeverReclaim(c) == c \in Callers /\ UNCHANGED locks

\* The finally of bearer_for, after c has left: no entry to guard, nobody
\* holding the lock and nobody waiting for it.
Reclaim(c) ==
    locks' = [locks EXCEPT ![acct[c]] =
                IF /\ Waiters(lock[c]) \ {c} = {}
                   /\ ~\E d \in Callers \ {c} : lock[d] = lock[c] /\ pc[d] = "exchange"
                   /\ cache'[acct[c]] = NoEntry
                THEN NoLock ELSE @]

----------------------------------------------------------------------------
(* bearer_for.                                                             *)

Hit(a) == cache[a] # NoEntry /\ a \in fresh

\* The coroutine ends: its locals are gone.
Forget(c) == tok' = [tok EXCEPT ![c] = 0] /\ bearer' = [bearer EXCEPT ![c] = 0]

\* get_account: the row as it is now goes with the caller from here on.
Load(c, a) ==
    /\ pc[c] = "idle"
    /\ pc' = [pc EXCEPT ![c] = "loaded"]
    /\ acct' = [acct EXCEPT ![c] = a]
    /\ tok' = [tok EXCEPT ![c] = cred[a]]
    /\ UNCHANGED <<lock, bearer, lockVars, cacheVars, accountVars>>

FromCache(c) ==
    /\ pc[c] = "loaded"
    /\ Hit(acct[c])
    /\ bearer' = [bearer EXCEPT ![c] = cache[acct[c]]]
    /\ pc' = [pc EXCEPT ![c] = "send"]
    /\ UNCHANGED <<acct, tok, lock, lockVars, cacheVars, accountVars>>

\* setdefault, then acquire: at once when the lock is free, with no await
\* before the second look at the cache, else behind those already waiting.
TakeLock(c) ==
    /\ pc[c] = "loaded"
    /\ ~Hit(acct[c])
    /\ \E l \in LockIds :
         /\ IF locks[acct[c]] = NoLock THEN l \notin InUse ELSE l = locks[acct[c]]
         /\ locks' = [locks EXCEPT ![acct[c]] = l]
         /\ lock' = [lock EXCEPT ![c] = l]
         /\ pc' = [pc EXCEPT ![c] = IF Free(l) THEN "exchange" ELSE "waiting"]
         /\ ahead' = ahead \cup (Waiters(l) \X {c})
    /\ UNCHANGED <<acct, tok, bearer, cacheVars, accountVars>>

\* Mutants: the cached bearer is returned with the lock still held; no second
\* look at the cache.
WokenHitKeepsLock(c) ==
    /\ pc[c] = "woken"
    /\ Hit(acct[c])
    /\ bearer' = [bearer EXCEPT ![c] = cache[acct[c]]]
    /\ pc' = [pc EXCEPT ![c] = "send"]
    /\ UNCHANGED <<acct, tok, lock, lockVars, cacheVars, accountVars>>

WokenExchanges(c) ==
    /\ pc[c] = "woken"
    /\ pc' = [pc EXCEPT ![c] = "exchange"]
    /\ ahead' = {q \in ahead : q[1] # c /\ q[2] # c}
    /\ UNCHANGED <<acct, tok, lock, bearer, locks, cacheVars, accountVars>>

\* A woken waiter looks at the cache again before it exchanges.
WokenHit(c) ==
    /\ pc[c] = "woken"
    /\ Hit(acct[c])
    /\ bearer' = [bearer EXCEPT ![c] = cache[acct[c]]]
    /\ UNCHANGED <<acct, tok, cacheVars, accountVars>>
    /\ LeaveTo(c, "send")
    /\ Reclaim(c)

WokenMiss(c) ==
    /\ pc[c] = "woken"
    /\ ~Hit(acct[c])
    /\ pc' = [pc EXCEPT ![c] = "exchange"]
    /\ ahead' = {q \in ahead : q[1] # c /\ q[2] # c}
    /\ UNCHANGED <<acct, tok, lock, bearer, locks, cacheVars, accountVars>>

\* _refresh, 200 or 404 in direct mode: the entry is stored; a token B whose
\* expiry is within skew_s of now is past its refresh_after already.
ExchangeStores(c) ==
    /\ pc[c] = "exchange"
    /\ cache' = [cache EXCEPT ![acct[c]] = tok[c]]
    /\ fresh' \in {fresh \cup {acct[c]}, fresh \ {acct[c]}}
    /\ bearer' = [bearer EXCEPT ![c] = tok[c]]
    /\ UNCHANGED <<acct, tok, accountVars>>
    /\ LeaveTo(c, "send")
    /\ Reclaim(c)

\* Any 401 or 403, of a working login too (a rate limit, a policy): invalidate
\* and raise CopilotAuthExpired.
ExchangeRejected(c) ==
    /\ pc[c] = "exchange"
    /\ cache' = [cache EXCEPT ![acct[c]] = NoEntry]
    /\ UNCHANGED <<acct, tok, bearer, fresh, accountVars>>
    /\ LeaveTo(c, "refused")
    /\ Reclaim(c)

\* CopilotTokenUnavailable (error, malformed answer, 20 s timeout).
ExchangeUnavailable(c) ==
    /\ pc[c] = "exchange"
    /\ Forget(c)
    /\ UNCHANGED <<acct, cacheVars, accountVars>>
    /\ LeaveTo(c, "idle")
    /\ Reclaim(c)

\* The client goes away: CancelledError at the await.
Cancel(c) ==
    /\ pc[c] \in {"waiting", "woken", "exchange"}
    /\ Forget(c)
    /\ UNCHANGED <<acct, cacheVars, accountVars>>
    /\ LeaveTo(c, "idle")
    /\ Reclaim(c)

----------------------------------------------------------------------------
(* HttpxUpstream.send with the bearer, or the refresher's GET /models.     *)

\* Any other answer, and any failure to get one.
SendAnswered(c) ==
    /\ pc[c] = "send"
    /\ pc' = [pc EXCEPT ![c] = "idle"]
    /\ Forget(c)
    /\ UNCHANGED <<acct, lock, lockVars, cacheVars, accountVars>>

\* Mutant: every 403 taken for an expired login.
ForbiddenIsExpired(c) ==
    /\ Invalidates
    /\ pc[c] = "send"
    /\ cache' = [cache EXCEPT ![acct[c]] = NoEntry]
    /\ pc' = [pc EXCEPT ![c] = "expired"]
    /\ UNCHANGED <<acct, tok, lock, bearer, lockVars, fresh, accountVars>>

\* A 403 that does not name the login (a policy, a model): the proxy drops
\* the bearer all the same.
SendForbidden(c) ==
    /\ Invalidates
    /\ pc[c] = "send"
    /\ cache' = [cache EXCEPT ![acct[c]] = NoEntry]
    /\ pc' = [pc EXCEPT ![c] = "idle"]
    /\ Forget(c)
    /\ UNCHANGED <<acct, lock, lockVars, fresh, accountVars>>

\* 401, or a 403 that names the login, which GitHub is taken to answer only to
\* a bearer it does not accept: the proxy drops the cached bearer, then the
\* caller sees a dead login.
SendRefused(c) ==
    /\ pc[c] = "send"
    /\ <<acct[c], bearer[c]>> \notin live
    /\ cache' = IF Invalidates THEN [cache EXCEPT ![acct[c]] = NoEntry] ELSE cache
    /\ pc' = [pc EXCEPT ![c] = "expired"]
    /\ UNCHANGED <<acct, tok, lock, bearer, lockVars, fresh, accountVars>>

\* quarantine_account by the forwarder or by validate_account.
Quarantine(c) ==
    /\ pc[c] \in {"refused", "expired"}
    /\ quarantined' = quarantined \cup {acct[c]}
    /\ pc' = [pc EXCEPT ![c] = "idle"]
    /\ Forget(c)
    /\ UNCHANGED <<acct, lock, lockVars, cacheVars, cred, live>>

----------------------------------------------------------------------------
(* Time, GitHub and the operator.                                          *)

\* The clock passes refresh_after.
Expire(a) ==
    /\ a \in fresh
    /\ fresh' = fresh \ {a}
    /\ UNCHANGED <<callVars, lockVars, cache, accountVars>>

Revoke(a) ==
    /\ <<a, cred[a]>> \in live
    /\ live' = live \ {<<a, cred[a]>>}
    /\ UNCHANGED <<callVars, lockVars, cacheVars, cred, quarantined>>

\* The operator stores a new durable token, through any replica; nothing
\* tells this process.
Relogin(a) ==
    /\ cred[a] < MaxCred
    /\ cred' = [cred EXCEPT ![a] = @ + 1]
    /\ live' = live \cup {<<a, cred[a] + 1>>}
    /\ quarantined' = quarantined \ {a}
    /\ UNCHANGED <<callVars, lockVars, cacheVars>>

----------------------------------------------------------------------------
CallerNext(c) ==
    \/ FromCache(c)
    \/ TakeLock(c)
    \/ WokenHit(c)
    \/ WokenMiss(c)
    \/ ExchangeStores(c)
    \/ ExchangeRejected(c)
    \/ ExchangeUnavailable(c)
    \/ SendAnswered(c)
    \/ SendForbidden(c)
    \/ SendRefused(c)
    \/ Quarantine(c)

Next ==
    \/ \E c \in Callers :
         \/ \E a \in Accounts : Load(c, a)
         \/ CallerNext(c)
         \/ Cancel(c)
    \/ \E a \in Accounts : Expire(a) \/ Revoke(a) \/ Relogin(a)

Spec == Init /\ [][Next]_vars

\* The event loop runs what can run; the exchange and the send time out.
FairSpec == Spec /\ \A c \in Callers : WF_vars(CallerNext(c))

----------------------------------------------------------------------------
(* Properties.                                                             *)

\* What the lock rests on: at most one caller past the queue of a lock, the
\* woken one the first of it, and no two accounts sharing a lock.
AtLock(c) == pc[c] \in {"waiting", "woken", "exchange"}
HasLock == \A c \in Callers : AtLock(c) <=> lock[c] # NoLock
OwnLock ==
    \A a, b \in Accounts : locks[a] = locks[b] /\ locks[a] # NoLock => a = b
OnePastQueue ==
    \A c, d \in Callers :
        /\ pc[c] \in {"woken", "exchange"} /\ pc[d] \in {"woken", "exchange"}
        /\ lock[c] = lock[d]
        => c = d
InLine ==
    \A c, d \in Callers :
        /\ c # d
        /\ lock[c] = lock[d]
        /\ pc[c] \in {"waiting", "woken"} /\ pc[d] \in {"waiting", "woken"}
        => \/ <<c, d>> \in ahead /\ pc[d] # "woken"
           \/ <<d, c>> \in ahead /\ pc[c] # "woken"

(* One exchange at a time for an account in this process: "Serialize       *)
(* concurrent refreshes for the same account", although finally drops      *)
(* locks from the table while other callers come, wait and are cancelled.  *)
OneExchange ==
    \A c, d \in Callers :
        /\ pc[c] = "exchange" /\ pc[d] = "exchange"
        /\ acct[c] = acct[d]
        => c = d

(* Whoever holds or waits for a lock uses the lock in the table: none is   *)
(* dropped while "a refresh is in flight or another coroutine is waiting". *)
UsesTableLock ==
    \A c \in Callers : lock[c] # NoLock => locks[acct[c]] = lock[c]

LockInv ==
    /\ TokenTypeOK
    /\ HasLock
    /\ OwnLock
    /\ UsesTableLock
    /\ OnePastQueue
    /\ InLine

(* No wake-up is lost: where callers wait for a lock, one of those at it   *)
(* has it or has been woken for it, also when the woken one is cancelled   *)
(* before it runs.                                                         *)
NoLostWakeup ==
    \A c \in Callers : pc[c] = "waiting" =>
        \E d \in Callers : lock[d] = lock[c] /\ pc[d] \in {"woken", "exchange"}

\* What NoLostWakeup rests on: only those at a lock stand in its queue, and
\* of any of them one came first.
OnlyWaitersQueue ==
    \A q \in ahead : pc[q[1]] \in {"waiting", "woken"}
                      /\ pc[q[2]] \in {"waiting", "woken"}
SomeoneIsFirst ==
    \A l \in LockIds : \A S \in SUBSET Waiters(l) :
        S # {} => \E c \in S : IsFirst(c, S)

WakeInv ==
    /\ OnlyWaitersQueue
    /\ SomeoneIsFirst
    /\ NoLostWakeup

(* The last caller to leave the lock of an account without an entry takes  *)
(* the lock out of the table, so it does not grow with the accounts that   *)
(* fail ("Bound _locks"); only a 401 seen by the upstream leaves one there. *)
ReclaimsIdleLock ==
    [][\A a \in Accounts :
         /\ \E c \in Callers : AtLock(c) /\ acct[c] = a
         /\ ~(\E c \in Callers : AtLock(c) /\ acct[c] = a)'
         /\ cache'[a] = NoEntry
         => locks'[a] = NoLock]_vars

(* Nobody exchanges while a usable bearer is cached: those who waited for  *)
(* an exchange share its result.                                           *)
SharesResult ==
    [][\A c \in Callers :
         pc[c] # "exchange" /\ pc'[c] = "exchange" => ~Hit(acct[c])]_vars

(* A released lock always finds its next holder: no caller waits for ever, *)
(* whoever is cancelled in the queue.                                      *)
EveryCallReturns ==
    \A c \in Callers :
        pc[c] \in {"loaded", "waiting", "woken", "exchange"}
            ~> pc[c] \in {"idle", "refused", "send", "expired"}

(* An answer to a request takes a login that works out of the pool only if *)
(* the request carried a bearer from before the login was stored: not when *)
(* it carried one of the login itself, cached or shared, and was answered  *)
(* 403 for another reason.  (The exchange knows no other reason: any 401   *)
(* or 403 there takes the account out, working or not.)                    *)
WorkingLoginsStay ==
    [][\A c \in Callers :
         pc[c] = "expired" /\ pc'[c] = "idle" /\ <<acct[c], cred[acct[c]]>> \in live
            => bearer[c] < cred[acct[c]]]_vars

(* A request answered as expired quarantines its account only when the     *)
(* durable login is dead: not with a token GitHub accepts in the caller's  *)
(* Account object.                                                         *)
QuarantinesDeadLogins ==
    [][\A c \in Callers :
         pc[c] = "expired" /\ pc'[c] = "idle"
            => <<acct[c], tok[c]>> \notin live]_vars

\* What they rest on: nothing is newer than the stored login, and whoever
\* reports an expired login had its bearer refused.
NothingNewer ==
    /\ \A c \in Callers : tok[c] <= cred[acct[c]] /\ bearer[c] <= cred[acct[c]]
    /\ \A c \in Callers : pc[c] = "idle" => bearer[c] = 0
    /\ \A a \in Accounts : cache[a] # NoEntry => cache[a] <= cred[a]
    /\ \A p \in live : p[2] <= cred[p[1]]
SawRefusal ==
    \A c \in Callers : pc[c] = "expired" => <<acct[c], bearer[c]>> \notin live

ExpiryInv == NothingNewer /\ SawRefusal

----------------------------------------------------------------------------
(* bearer_for as its callers see it.                                       *)

Stage(p) ==
    CASE p \in {"loaded", "waiting", "woken"} -> "asks"
      [] p = "exchange" -> "flies"
      [] p = "send" -> "has"
      [] OTHER -> "away"

Stages == [c \in Callers |-> Stage(pc[c])]
Given == [c \in Callers |-> IF pc[c] = "send" THEN bearer[c] ELSE NoEntry]
Usable == [a \in Accounts |-> IF Hit(a) THEN cache[a] ELSE NoEntry]

Flight == INSTANCE SingleFlight WITH
    Bearers <- Creds, at <- Stages, got <- Given, entry <- Usable

(* Cache, lock table, queues and wake-ups together are a single flight per *)
(* account: one exchange, whose result all who wait share, no bearer but   *)
(* the cached one or one's own.                                            *)
IsSingleFlight == Flight!Spec

\* What it rests on: an exchange goes on only while there is nothing to share.
NothingToShare == \A c \in Callers : pc[c] = "exchange" => ~Hit(acct[c])
============================================================================
