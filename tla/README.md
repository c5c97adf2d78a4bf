# ghc-proxy in TLA+

`ghc-proxy` puts a pool of GitHub Copilot accounts behind one endpoint.  Users
authenticate with a key the proxy issued; each user is pinned to one account of
the pool; a request that finds the account's login dead quarantines it, moves
the user to another and retries once.  Several proxy replicas and several
refresher replicas share PostgreSQL, Redis and GitHub, and nothing else.

The modules here model the parts where steps of several actors meet.  TLC checks
them on small instances; TLAPS proves the safety results for every size.
Paths below are relative to `src/src/ghcproxy/` unless they start with `src/`.

## 1. The system

| Component | State it keeps | Operations | Talks to |
|---|---|---|---|
| account store, `db/repo.py`, `db/schema.sql` | tables `accounts`, `bindings`, `device_sessions`, `api_keys`, `users`, `usage_rollup` | one transaction per method | called by everything below |
| binding service, `router/binding.py` | none | `get_or_bind`, `rebind_away_from` | store |
| forwarder and app, `proxy/forwarder.py`, `proxy/app.py` | the locals of each request | `handle`, `_stream`, `_buffered` | binding service, upstream client |
| upstream client, `proxy/upstream.py`, `credential/client.py` | none | `send`, `stream`, `is_login_expired` | token service, GitHub |
| token service, `credential/token_service.py` | per process: `_cache`, `_locks` | `bearer_for`, `invalidate` | GitHub |
| refresher, `credential/refresher.py` | Redis `lock:account:{id}` | `tick`, `validate_account` | store, token service, GitHub |
| device flow, `credential/device_flow.py`, `admin/api.py` | `device_sessions`, the code at GitHub | `start_login`, `poll_login` | store, GitHub |
| keys, `cache.py`, `admin/api.py` | `api_keys`, Redis `key:{sha}` | `authenticate`, issue, rotate, revoke | store, Redis |
| metering, `proxy/usage.py`, `proxy/app.py` | per request: `account_id`, `Usage`; the table `usage_rollup` | fold of each line or body, `_emit_usage`, `bump_usage` | store, sink |
| usage reports, `admin/api.py`, `db/repo.py` | none | `usage_timeseries`, `usage_by_user`, `usage_by_account`, `usage_by_model`, `_parse_window` | store |
| sink, `observability/sink.py` | three Kafka topics | `usage`, `prompt`, `audit` | Kafka |

What is hard in it:

* **No transaction spans a request.**  Finding the account, sending, and the
  three calls of a rebind are separate awaits.  Between any two, other requests
  (of the same user too), the refresher and the operator run, and the request
  may die with what it wrote still there.
* **Two records of one fact.**  `accounts.status = 'bound'` and the row of
  `bindings` have to agree; a claim, a release, a login and a quarantine each
  write one or both.
* **Copies that nothing invalidates.**  The bearer cache of each process, the
  Redis key cache, the `Account` object a request or a tick has read.
* **Locks with a life of their own.**  `bearer_for` drops lock objects from its
  table while callers come, wait and are cancelled; the Redis lock of the
  refresher expires on its own and is open when Redis fails.
* **A code that is good once.**  GitHub gives the token for a device code to one
  poll; polls overlap, time out and die.
* **Transactions that are not steps.**  At READ COMMITTED two statements of one
  transaction see different tables; claim and release take their row locks in
  opposite orders.
* **Records of one event in two places.**  Kafka and `usage_rollup` are written
  one after the other under one timeout, and a row of `usage_rollup` names one
  account although its user may have moved between two.

What makes each part correct:

* store: bindings one-to-one; an account leaves quarantine only by an operator;
* routing: a user drives its own account and no other; `bound` accounts have an
  owner and `idle` ones have none; the retry goes elsewhere; nobody stays on a
  dead account;
* token service: one exchange per account and process, shared by those who
  waited; nobody waits for ever; no idle lock stays in the table;
* keys: a revoked key stops working in bounded time; its row is never active
  together with that of its replacement, so both work at most while copies of
  the old row live;
* device flow: an account in the pool has a token; an authorized login ends;
* refresher: one replica validates an account at a time, as long as its lock
  lives; a dead login is found;
* metering: what is recorded charges the account that answered and never more
  than GitHub counted; nothing that ended undisturbed is forgotten; the reports
  add up; a response closes though Kafka hangs.

## 2. The modules

| Module | Models | Uses |
|---|---|---|
| `AccountLease` | what the binding service promises: exclusive leases that do not move in use, and that only the operator revokes | |
| `AccountPool` | the repository methods over accounts, bindings and logins | |
| `Routing` | requests, the refresher's verdicts and the operator over the store | extends `AccountPool`, instantiates `AccountLease` |
| `SingleFlight` | what `bearer_for` promises: one exchange per account, shared | |
| `TokenService` | `bearer_for`, its cache and lock table, the send | instantiates `SingleFlight` |
| `KeyAuth` | `authenticate`, the key cache, issue, rotate, revoke | |
| `DeviceLogin` | `start_login` and `poll_login` in full | instantiates `AccountPool` |
| `Refresher` | `tick`, the Redis lock, `validate_account`, time | |
| `PgTx` | the transactions of claim, release and login statement by statement, with row locks | extends `AccountPool` |
| `Metering` | the figures of an answer, `_emit_usage`, `bump_usage` | |
| `UsageReports` | the window and the four reports over `usage_rollup` | extends `Metering` |
| `AccountPoolProofs`, `RoutingProofs`, `PgTxProofs`, `TokenServiceProofs`, `KeyAuthProofs`, `DeviceLoginProofs`, `RefresherProofs`, `MeteringProofs` | theorems | extend the module they are about |
| `MC*` | small instances for TLC | |

Operators called mutants (`\* Mutant: ...`) are not part of any specification.
Each is a definition changed as a plausible bug would change it, and exists to
show that a property notices.

### AccountPool

`status`, `binding` and `pending` are the `status` column, the rows of `bindings`
and the number of logins of an account a poll may still complete.  Each method
is one action: `asyncpg` runs it as one statement or one transaction.  Guards are
the `WHERE` clauses.  `ClaimIdleAccount(u, a)` may take any idle `a`: the
`ORDER BY updated_at` of the code decides nothing once `SKIP LOCKED` passes over
rows held by others.  `ON CONFLICT (user_id) DO UPDATE` is the plain assignment
to `binding[u]`; `UNIQUE (account_id)` is the guard `~BoundToOther`, and the
exception in the other case is `Abort` of the request.  `PoolNext` lets anybody
call anything, so that what is shown of it holds for every composition.

Taking a transaction as one step is an abstraction, and `PgTx` says how far it is
justified.

### PgTx

The variables of `AccountPool` are the committed tables.  A transaction is at one
statement (`at`), knows its user and account, and has locked the rows that follow
from where it is (`LocksAccount`, `LocksBinding`); what it wrote takes effect at
its commit, since no other transaction sees it earlier.  A statement whose row is
locked waits, and looks at the row again: `RecheckAccount` is the second look at
`AND status='bound'` in `release_binding`, which a row that was not `bound` in the
first look never gets.  `complete_device_session` evaluates `EXISTS (SELECT ...
FROM bindings)` before it has the row, and not again; `saw` keeps what it found.
`Rollback` stands for a unique violation, a deadlock PostgreSQL resolves, a
cancelled request and a lost connection.

`TransactionsAreCalls` says that each commit is the method of `AccountPool` as one
step, with two exceptions, both about a login: `LateLogin`, whose `EXISTS` became
wrong while it waited, and `LateRelease`, whose account a login made `bound` after
the release had passed it over.  They are what is left out of the modules that
use `AccountPool`: an account that a login leaves `bound` without a user, or `idle`
with one, when it races with a claim or release of the same account.  Without
logins there is no exception (`TransactionsImplementPool`).

`TakenOutStaysOut` and `RecordsPart` are what the overlap may do to an account.
The first: no claim or release that has read a row early brings back an account
that has been quarantined, disabled or given to a login since.  The second lists
every way in which `accounts.status` and `bindings` begin to disagree: a claim by
a user who has another account (finding 1), the two late steps, and an operator
who makes a bound account idle or imports its token again.

### Routing

A request slot is at one await of `Forwarder.handle` (`pc`): `lookup`, `claim`,
`send`, `quarantine`, `release`.  `_stream` in `app.py` repeats the same policy,
so one set of actions stands for both.  `acct` is `binding.account_id`, and `left`
the account the request has been rebound away from: `left # NoAccount` is "this
is the retry", and that is where `handle` takes its other exit.  `Abort` is
enabled at every await: an exception, a cancelled client, a pod that restarts.

`AnswerExpired` has no guard on the truth at GitHub.  The code cannot know it
either: a 401 may come from a dead login or from a bearer cached before a
re-login.  `dead` is that truth, used by `LeavesDeadAccount` only.

`Solo` is the set of users whose client waits for an answer before it asks
again.  The other users race against themselves.  Most of what the binding
service means to guarantee holds for Solo users and fails for the others, and the
split says exactly how far: a racing user harms accounts of its own, and can take
over an account in use, but never moves a Solo user (`SoloKeepsAccount`).

`OperatorRelease` happens at any moment, also in the middle of a request of the
user, as nothing in `admin/api.py:216-222` looks at requests.  The request goes
on with an account that is no longer the user's and may be claimed by the next.
So `SoloDrivesOwn` says "its own account or, where the operator releases, none",
`OneDriverUntilReleased` speaks of users who still have their bindings, and the
lease of `AccountLease` can be revoked in use (`Revocable`).  `AdminOps` says which
admin calls are made, `Mortal` whose logins die; the store looks at neither.

### TokenService

One process.  An action runs from one await to the next, since the coroutines
share one event loop.  `asyncio.Lock` is external and modelled from its
documented behaviour: a release wakes the first waiter and leaves the lock
unlocked until that waiter runs; a cancelled waiter passes the wake-up on.  Lock
objects have identities (`LockIds`), since the question is whether two can exist
for one account.  Durable tokens are version numbers: `cred` in the database, `tok` in
the `Account` object of a caller, `cache` and `bearer` what an exchange made of
it.  `live` is what GitHub accepts.

A caller at `refused` has had a 401 or 403 from the exchange, one at `expired` an
answer to its request that `is_login_expired`; both quarantine.  The exchange looks
at the status alone (`token_service.py:143-146`), so `ExchangeRejected` has no guard:
a working login may be refused there.  Of an answer to a request the code does
look at the text: `SendForbidden` is any 403 without the marker and is passed on,
and `SendRefused` is a 401 or a 403 with it.  That GitHub gives these only to a
bearer it does not accept is an assumption of the model about GitHub.

`SingleFlight` is the same service without locks, queues and cancellation
points: a caller asks, shares a usable bearer or flies for one, and has it.
`Flight` maps to it: `Stages` forgets where in the queue a caller is, `Usable`
is the cache as far as `Hit` looks at it, `Given` the bearer a caller sends with.
Queueing, waking and dropping a lock from the table are no steps of it; a woken
waiter that finds the cache filled shares, a cancelled one gives up.

### KeyAuth

`authenticate` is two or three awaits: the Redis lookup, the database row, the
Redis fill.  `entry` is the age of the cache entry; `since` the time since the
revocation.  Both count ticks, because the promise is about time.  A request may
use what it read up to `MaxWait` ticks later.  That is an assumption: the code
sets no timeout on Redis or PostgreSQL.  `rotate_key` is three transactions and
may overlap with itself.  `users.status` is not in the model because nothing reads
it: disabling a user changes nothing about that user's keys.

### DeviceLogin

Rows are numbered in the order of `created_at`.  `code` is GitHub's side of a row:
`waiting`, `granted`, `redeemed` once the token has been given out, `refused`.  A
poll is at `post` (waiting for GitHub), `deny` or `complete` (about to write).
`PollError` may redeem the code although the poll sees an error: the answer was
lost on the way back, and `_HttpxForm` turns a timeout into `DeviceFlowError`.
The other writers of `accounts` and `bindings` appear with the whole effect they
have on these two tables.

`Pool` maps this to `AccountPool`: `pending[a]` is the number of logins of `a` that
some poll may still complete (`Completable`), which is not the number of rows
with status `pending`: a row one poll has denied may still be completed by
another.

### Refresher

Replicas scan, lock, validate.  `older` orders the accounts by `refresh_at`, which
is what `LIMIT` cuts by.  `lock[a]` is the age of the Redis lock and `elapsed[p]`
the time replica `p` has spent on its account.  `open` marks the replicas that
validate because Redis failed.  `MaxCheck` bounds a validation and may be longer
than the lock.

`Healthy` is any answer of `GET /models` that does not say that the login expired:
a 5xx, a 429 or a plain 403 too, and also of a dead login.  `Expired` has no guard
either: a working login may be refused by the exchange, or by a bearer or row read
before it was renewed.

### Metering and UsageReports

A request has its answer in a stream or in one body.  `charged` is the local
`account_id`, `served` the account that really gave the answer in use, `seen` the
`Usage` the proxy has made of it and `spent` what GitHub has counted so far.
`Observe` is one line of the stream: `Carries` are the kinds of lines, `cut` a line
that a chunk boundary cut in two, which `gen` cannot parse and ignores.  Then
`_emit_usage` awaits three times: the usage event, the prompt event, `bump_usage`;
the last only if a model was seen.  `CutOff` is the five-second timeout, an
exception of the database and the cancellation; `Effect` says that the call given
up may have had its effect.  `Die` is a crash.  A client that leaves a stream
closes the generator at its `yield` and nothing is emitted (`Leave`).

`bump_usage` upserts by user, day and model, and the account of the row is that of
the insert: `BumpUsage` keeps it.  `UsageReports` has the four `SUM ... GROUP BY`
and `Window`, which is `_parse_window`.  `ReportsAddUp` compares them with a
definition that knows nothing of rows: each request counted, once, on the day it
was counted.  A sum over rows or requests is written as the number of units in
it (`Units`, `Sum`), so that two sums are equal when their units correspond.  `AccountsExactUnlessMoved` is the most that can be said of the
report by account (see section 4).

Which account answers is left open here, since `Routing` decides it.  The figures
of `/responses` streams, which are nested in a `response` object, are not
recognised by `usage.py`; such a line is a line that carries nothing.

## 3. The runs

| Run | Instance | Shows |
|---|---|---|
| `routing_solo` | 2 users, 2 accounts, 2 requests, all Solo, whole admin API, 1 login, `dead` left empty | `SoloInv`, `BoundHasOwner`, `ImplementsLease`, `UsesStore`, `QuarantineSticks`, `DisabledStays`, `OneDriverUntilReleased` |
| `routing_race` | 2 users, one Solo and one racing, 2 accounts, 3 requests, operator releases | `SoloKeepsAccount`, `RetryElsewhere`, `IdleIsUnbound` |
| `routing_progress` | 2 Solo users, 2 accounts, fairness | `LeavesDeadAccount` |
| `token_locks` | 1 account, 3 callers, 2 lock objects, 1 re-login, fairness | `OneExchange`, `LockInv`, `NoLostWakeup`, `WorkingLoginsStay`, `IsSingleFlight`, `ReclaimsIdleLock`, `EveryCallReturns` |
| `key_auth` | 2 keys, 2 requests, 2 rotations, TTL 2, MaxWait 1 | `KeyInv`, `RevocationTakesHold`, `NeverBothActive` |
| `device_login` | 1 user, 1 account, 2 logins, 2 polls, fairness | `LoginInv`, `PooledHasToken`, `ImplementsPool`, `AuthorizedLoginEnds` |
| `refresher` | 2 accounts, 2 replicas, list limit 1, LockTTL 2, MaxCheck 2, 1 re-login, fairness | `RefresherInv`, `DeadIsFound` |
| `pg_tx` | 2 users, 2 accounts, 3 connections, 2 logins, symmetry | `PgTxInv`, `DeadlockNeedsIdleBound`, `TransactionsAreCalls`, `TakenOutStaysOut`, `RecordsPart` |
| `metering` | a stream and a buffered request of one user, 2 accounts, 2 days, window of 1 day, fairness | `MeteringInv`, `EventsCharge`, `RowsCharge`, `NothingForgotten`, `ReportsAddUp`, `AccountsExactUnlessMoved`, `ResponseCloses` |
| `orphaned_account` | 2 racing users | finding 1 |
| `shared_account` | 2 racing users | finding 2 |
| `stale_bearer` | 2 callers, 1 re-login | finding 3 |

Why the bounds are enough for the cases meant:

* Two accounts are needed for a rebind and for the question whether it goes
  elsewhere; a second user to take the account that became free.  The racing run
  has three requests: two of the racing user in different phases of a rebind,
  and one of the user who must not notice.
* Three callers on one lock give a holder, a woken or waiting caller and a
  newcomer, which is what the reclamation has to survive; with two lock objects
  a second lock for the account can exist.
* Two keys are a key and its replacement.  Every relation of entry age, answer
  in flight and revocation occurs with TTL 2 and MaxWait 1; the theorem has no
  such bound.
* Two logins and two polls give the overtaking poll, the superseded login and the
  denial after the authorization.  `MaxSessions` bounds the rows ever created.
  `OperatorSets` leaves out `idle`: an operator may set an account without token
  to `idle`, and then `PooledHasToken` fails at once.
* List limit 1 with two accounts makes one account starve the other if
  `mark_seen` did not reorder them.  A validation of up to 2 ticks under a lock of
  2 outlives it, and another replica takes the lock meanwhile; two replicas are
  one that overstays and one that comes.
* `Mortal` is empty in `routing_solo` because none of its properties looks at
  `dead`: `AnswerExpired` may come at any time all the same.
* Three connections are a claim, a release and a login of one account at once,
  and enough for a circle of three; two logins let one complete while the other
  waits for the row.
* Two requests of one user meet in one row of `usage_rollup`, on the same day or
  not; one streams and one does not, so both ways through the code meet; prompts
  of 1 and 2 tokens tell them apart.  A window of one day and a calendar of two
  put rows inside and outside it.  The second user has no request: its reports
  must stay empty.
* `MaxLogins`, `MaxCred`, `MaxRelogins` bound how often the operator logs in.

Symmetry is used in safety runs only.  The liveness runs use none.
No run turns deadlock checking off.

### Fairness

* Routing: a request that is there goes on (event loop), a user's client keeps
  asking (`Arrive`), and steps are strongly fair per user, since a request may be
  aborted at the await again and again: what is assumed is that not every
  request of a user is cut short at the same point.  That a dead login is
  answered with an expiry is assumed of GitHub.  `Abort`, claims and the refresher
  are not fair.
* TokenService: weak fairness of each caller, which is the event loop plus the
  20 s and 600 s timeouts of the calls.  `Load`, `Cancel` and the clock are not
  fair.
* DeviceLogin: the operator clicks Poll while the console says "Still pending"
  (`src/frontend/src/pages/Accounts.tsx:58-72`); an HTTP call returns or times
  out; not every poll dies at the same await.
* Metering: `asyncio.wait_for` fires after five seconds (`CutOff`), and the event
  loop runs a response that is ready to close (`Close`).  Nothing is assumed of
  Kafka, the database, GitHub or the client.
* Refresher: `run` repeats ticks and survives exceptions, and time passes: weak
  fairness of each replica (`Scan`, `Begin`, `Ends`) and of `Tick`.  For each account,
  not every lock attempt is lost, and GitHub does not fail each validation for
  ever (`Answers`, strong fairness): of the validations of a working login one is
  found healthy, of a dead one one is found expired.  It may be preceded by any
  number of others, healthy ones of a dead login among them.  What this leaves
  out is in section 4.

## 4. What disagrees with its documentation

1. *Orphaned account* (`router/binding.py:51`).  Two first requests of one user
   both claim; the second upsert moves the binding and the first account stays
   `bound` with no owner.  Nothing ever frees it.  The comment promises that the
   storage layer prevents this and that a transient 503 is the only effect.
2. *Shared account* (`router/binding.py:59`).  A release frees whatever the user is
   bound to by then.  Another request of that user may be sending through it
   while a second user claims it.
3. *Stale bearer* (`credential/token_service.py:79`).  After a re-login the bearer
   of the old login is still cached elsewhere, is refused, and the fresh account
   is quarantined.

1 needs a client that sends two requests at once; Claude Code and Codex do.  2
needs that or an operator who releases a user in the middle of a request
(`admin/api.py:216-222`), whose account then goes to the next user while the request
still sends through it.  `SoloInv`, `OneDriverUntilReleased`, `SoloKeepsAccount` and
`RetryElsewhere` show what remains true.

Seen while modelling, and kept in the models as the code has them, without a run
of their own:

* The design says that an unhealthy account is replaced on lookup
  (`src/ghc-proxy-design.md:178`); `get_or_bind` looks at the binding only, so a
  quarantined account is used until GitHub refuses it (`LookUp` of `Routing`).
* The lock of the refresher lives 30 s, a validation has two waits of 20 s, and a
  failure of Redis counts as having the lock.  `credential/refresher.py:18-19`
  ("multiple replicas never validate the same account at once") and
  `src/ghc-proxy-design.md:101,170,316` promise more.  `LocksExclude` says what holds:
  exclusion except for a replica that has outlasted its lock or never had it.
* `_refresh` takes any 401 or 403 of the exchange for a dead login, without the look
  at its text that `is_login_expired` has (`credential/token_service.py:143-146`), so
  a 403 for another reason takes a working account out of the pool.
* The refresher marks an account seen after a 5xx, a 429 or a plain 403 of
  `GET /models` (`credential/refresher.py:90-98`), and so puts the next look at a
  dead login off by a whole interval.
* Accounts whose validation fails keep their place at the head of the list: 50
  that fail for ever would keep all others from being validated (`db/repo.py:103`).
  `DeadIsFound` assumes that no account does.
* A key that was replaced is accepted from caches and from rows already read, beside its
  replacement, for as long as any revoked key is (`ReplacedKeysLapse`).
* The row of `usage_rollup` keeps the account of its first request
  (`db/repo.py:291`), so after a rebind within a day `usage_by_account` shows the
  tokens of both accounts at the first; `src/ghc-proxy-design.md:403` calls the report
  the traffic of each account.  `RowsCharge` and `AccountsExactUnlessMoved` say what is left.
* A client that leaves a stream is not charged at all.
* The window of a report ends at the UTC date of the proxy, the rows carry
  `CURRENT_DATE` of the database session; the model has one calendar.
* Two rotations of one key issue two replacements.
* Quarantine overwrites `disabled`, and a completed login enables a disabled
  account: the two exceptions in `DisabledStays`.

## 5. The proofs

All theorems are for arbitrary (also infinite) sets of users, accounts, requests,
callers, keys and replicas, and rest on the named `ASSUME`s of the modules: the
"none" values lie outside the sets they complete, bounds are naturals.

* **Store.**  `PoolTypeCorrect`, `PoolOneToOne`, `PoolQuarantineSticks`,
  `PoolDisabledStays`: `OneToOne` is inductive given the types, because of the guard
  `~BoundToOther`; the other two are facts of single steps.
* **Routing is a client of the store.**  `RoutingUsesStore` proves that every step is
  a store call or leaves the store alone; so the results above hold of the
  system (`RoutingOneToOne`, `RoutingQuarantineSticks`, `RoutingDisabledStays`).
* **Solo users.**  `SoloDrivesOwn` is not inductive: a user who is at `claim` must be
  unbound, a user has one open request, and a closed slot has no user.  `SoloInv`
  adds these (`SoloClaimsUnbound`, `SoloAlone`, `ClosedIsNobodys`, `HasAccount`).
  The crucial step is a release by another user: it touches `binding` of that
  user alone; one by the operator leaves the user without a binding until the
  request ends or rebinds.  `RoutingImplementsLease` then maps each step to a lease
  step; a claim is `Take` because, by `SoloInv`, the claimer was unbound and, by
  the guard, nobody else holds the account; an operator release is `Revoke`.
  `SoloUsersKeepTheirAccount` (`SoloKeepsAccount`) goes through the writers of
  `binding`: of the claims, a Solo user's own one only, and it is not sending then;
  of the releases, its own or the operator's.
* **`NoAccountIsLost`** and **`OneDriverWithoutRaces`** assume `Solo = Users`; findings
  1 and 2 are the reason.  The second: two requests in flight through one account
  whose users still have bindings drive their own (`SoloDrivesOwn`), and by `OneToOne`
  an account is one user's own.  `OneDriverWithoutReleases` adds that the operator
  releases nobody, and has the whole promise of `router/binding.py:3-4`.
  **`RetriesGoElsewhere`** assumes `AdminOps \subseteq {"release"}`: between the
  quarantine and the claim of a rebind nothing revives the account, so a request
  that has left an account finds it not idle (`RetryInv`); it covers racing users.
  **`IdlePoolIsFree`** assumes `AdminOps \subseteq {"login", "release"}`: an import
  or a status change can make a bound account idle.  It covers racing users and
  all logins.
* **Token service.**  `LockInv`: a caller at a lock uses the lock in the table
  (`UsesTableLock`), locks of two accounts differ (`OwnLock`), at most one caller
  is past the queue (`OnePastQueue`), and the queue is a total order with the
  woken caller first (`InLine`).  `OneExchange` follows: two exchanging callers
  of one account use the one lock in the table.  `WaitersShare` and
  `IdleLocksAreReclaimed` are facts of single steps, by a case split on how a
  caller leaves the lock: the last one to leave is the last one at the account,
  because nobody at the account uses another lock.
* **Wake-ups.**  `NoLostWakeup` (where callers wait for a lock that is not held, one
  of them has been woken) is not inductive: a waiter that leaves has to pass the
  wake-up on to somebody.  `SomeoneIsFirst` says that of any waiters one came first,
  which is what the queue needs and no more: it holds of infinitely many callers
  too, as each joins behind all that are there.
* **Expired logins.**  `WorkingLoginsAreKept` needs `NothingNewer` (no token, bearer
  or cache entry is newer than the stored login) and `SawRefusal` (whoever is about
  to quarantine because of an answer sent a bearer GitHub does not accept, the
  assumption above).  What is refused and not newer is older than a login that
  works, wherever in the cache it came from.  This is what remains true beside
  finding 3.  It says nothing of a refusal by the exchange.
* **`ImplementsSingleFlight`** maps each step of `TokenService` to one of
  `SingleFlight` or to none.  It rests on `LockInv` (who may fly: `OneExchange`) and
  on `NothingToShare`: while an exchange is in flight its account has no usable
  entry, since only the holder of the lock fills it.  `ExchangesAreExclusive` and
  `WaitersShare` (`SharesResult`, which no run checks: `IsSingleFlight` says it and
  more) are what this means for single callers.
* **Keys.**  `RevocationTakesHold` needs the ages of all copies (`CopiesAge`): the entry
  of a revoked key is at most `MaxWait` younger than the revocation.  The window
  `MaxWait + (TTL - 1) + MaxWait` is what adds up.  `NeverBothActive`, which is about
  rows, needs that a rotation that is about to issue has revoked its key.
  `ReplacedKeysLapse` puts the two together: a key with a replacement is revoked, so
  a request accepted with it comes from a copy, within the window.  No run checks
  it: `RevokedFirst` and `RevocationTakesHold` give it.
* **Refresher.**  `LocksHoldForTheirTime` is for all lengths of locks and validations:
  a replica that took the lock and is within its lifetime is alone among such
  replicas, because the lock in Redis is as old as its validation (`HoldsLock`).
  `LongLocksExclude` assumes `MaxCheck < LockTTL`, which the defaults violate, and
  has the exclusion of all replicas that took their lock; it is what a deployment
  would have to configure.
* **Device flow.**  `LoginInv`: a row has an account and a code once it exists, a
  poll works on a row, and a token given out is with one poll (`OneRedeems`).
  `PoolHasTokens` assumes that the operator never sets an account `idle` by hand.
  `LoginImplementsPool` is the refinement: a step changes whether at most one login
  is `Completable`, so the number of open logins of its account stays or drops by
  one (`OneEnds`); a completion ends the login because `OneRedeems` leaves no other
  poll that could complete it.  `LoginsKeepStatus` takes `PoolQuarantineSticks` and
  `PoolDisabledStays` over along this mapping.
* **Transactions.**  `PgTxInv`: row locks exclude each other; a claim finds its
  account `idle` until it commits and, once its row is inserted, bound to nobody
  else; a release finds the binding it deletes still there; never more logins are being completed than are
  open.  Hence `TransactionsAreSteps`.  `TransactionsImplementPool` assumes
  `MaxLogins = 0`, and then the transactions implement the whole of `AccountPool`,
  of which everything proved about `PoolSpec` follows.  `DeadlocksNeedIdleBound`: every
  circle of waiting transactions has a release that waits for the account a claim
  has locked; `ClaimHolds` says that this account is `idle`, `ReleaseHolds` that it
  has a user.  The connections are finitely many.  `OverlapKeepsOut` uses the same
  two: what a claim takes is still `idle`, and what a release frees still `bound`, at
  the commit.  `RecordsPartNowhereElse` goes through the commits: a claim makes its
  account `bound` and gives it a user at once, so it can part the records of one
  other account, the one its user had; a release takes the only user (`OneToOne`)
  and, unless a login came between, the `bound`.
* **Metering.**  `Carried` relates the locals of a request to its answer at each
  await; `EventsAreHonest`, `RowsAreCharged` and `UndisturbedIsCounted` follow.
* **Reports.**  `RowsHoldRequests` says that for any set of rows the sum over it is
  the sum over the requests counted in it.  It is inductive: `BumpUsage` adds the
  figures of one request to one row, and that request was in no row before.
  Sums are numbers of units, so this is the union of two disjoint finite sets
  (`Finite`), and no induction over rows is needed.  `ReportsAreExact` picks the rows
  of a user, model or day.  `AccountReportIsExact` picks those of an account: they
  hold its requests and no others, if it shares no row with another account.

Only model-checked is what is stated under fairness: `LeavesDeadAccount`,
`EveryCallReturns`, `AuthorizedLoginEnds`, `DeadIsFound`, `ResponseCloses`.  Liveness is
outside the prover's reach.  Every other property of a passing run is also a
theorem.

## 6. Not modelled

* Prompt and audit events and the Prometheus counters: nothing reads them back;
  the await of the prompt event is in `Metering`.
* Configuration, AES-GCM, hashing, header construction, process start: functions
  of their input, or steps no other step interleaves with.  The values that
  matter (`lock_ttl_s`, the key TTL, the window) are CONSTANTS.
* `RedisCache.get_binding` and the rate limit: nothing calls them.
* `create_user`, `set_user_status`, the listings: rows or columns no other step
  reads.
* A row whose token does not decrypt: it makes `due_for_revalidation` raise, so
  every tick ends as `Fail` of `Refresher` does; that it happens each time is not
  in the model, whose fairness excludes it.
* The console, the TypeScript sketch under `src/examples`, the manifests.

## 7. Plan

Done, in this order: store; routing with its lease; the token service; keys; the
device flow and its mapping to the store; the refresher; the transactions under
the store; metering and its reports; the abstract token service; the proofs of
all safety properties.  What is left, by what it would add:

1. A composition of `TokenService` with `Routing`, so that the stale bearer and the
   rebind appear in one behaviour: how many accounts of the pool one revoked
   bearer can take out.
2. `PgTx` with the two late steps carried up into `Routing`: what a login that
   overlaps a rebind leaves behind.
3. The overlay of the environment over the YAML file, as functions on trees
   compared with a reference definition.
