------------------------- MODULE TokenServiceProofs -------------------------
(***************************************************************************)
(* Theorems about the bearer cache, for any callers, accounts and          *)
(* sequence of cancellations, revocations and logins.                      *)
(***************************************************************************)
EXTENDS TokenService, TLAPS

LEMMA LockInit == Init => LockInv
<1> SUFFICES ASSUME Init PROVE LockInv
  OBVIOUS
<1> USE NoLockAssumption, MaxCredAssumption
<1>1. 0 \in Creds
  BY DEF Creds
<1>2. TokenTypeOK
  BY <1>1 DEF Init, TokenTypeOK, Points
<1> QED
  BY <1>2 DEF Init, LockInv, HasLock, AtLock, OwnLock, UsesTableLock,
     OnePastQueue, InLine

\* c gives its lock up, whatever the exchange came to: the next in line is
\* woken, and the table forgets the lock only when nobody else is at it.
LEMMA LeaveStep ==
  ASSUME LockInv, NEW c \in Callers, AtLock(c), UNCHANGED acct,
         NEW p \in {"idle", "refused", "send"},
         LeaveTo(c, p), Reclaim(c), TokenTypeOK'
  PROVE  LockInv'
<1> DEFINE others == {d \in Callers \ {c} : lock[d] = lock[c]}
<1> USE NoLockAssumption DEF LockInv, TokenTypeOK, AtLock
<1>1. /\ lock' = [lock EXCEPT ![c] = NoLock]
      /\ pc'[c] = p
      /\ \A d \in Callers \ {c} :
           pc'[d] = pc[d] \/ (pc[d] \in {"waiting", "woken"} /\ pc'[d] = "woken")
  BY DEF LeaveTo, IsFirst, Waiters
<1>2. HasLock'
  BY <1>1 DEF HasLock
<1>3. locks'[acct[c]] = NoLock => others = {}
  BY <1>2 DEF Reclaim, HasLock, UsesTableLock, Waiters
<1>4. \A a \in Accounts : locks'[a] = locks[a] \/ (locks'[a] = NoLock /\ a = acct[c])
  BY DEF Reclaim
<1>5. OwnLock'
  BY <1>4 DEF OwnLock
<1>6. UsesTableLock'
  BY <1>1, <1>3, <1>4 DEF UsesTableLock, HasLock
<1>7. ASSUME NEW d \in Callers \ {c}, pc[d] # "woken", pc'[d] = "woken"
      PROVE  /\ lock[d] = lock[c]
             /\ IsFirst(d, Waiters(lock[c]) \ {c})
             /\ ~\E e \in Callers \ {c} : lock[e] = lock[c] /\ pc[e] = "exchange"
  BY <1>7 DEF LeaveTo, IsFirst, Waiters
<1>8. OnePastQueue'
  <2> SUFFICES ASSUME NEW d \in Callers, NEW e \in Callers,
                      pc'[d] \in {"woken", "exchange"},
                      pc'[e] \in {"woken", "exchange"},
                      lock'[d] = lock'[e], d # e
               PROVE  FALSE
    BY DEF OnePastQueue
  <2>1. d # c /\ e # c /\ lock[d] = lock[e]
    BY <1>1
  <2>2. CASE pc'[d] = pc[d] /\ pc'[e] = pc[e]
    BY <2>1, <2>2 DEF OnePastQueue
  <2>3. ASSUME NEW x \in Callers \ {c}, NEW y \in Callers \ {c}, x # y,
               lock[x] = lock[y], pc[x] # "woken", pc'[x] = "woken",
               pc'[y] \in {"woken", "exchange"}
        PROVE  FALSE
    <3>1. lock[x] = lock[c] /\ IsFirst(x, Waiters(lock[c]) \ {c})
          /\ pc[y] # "exchange"
      BY <1>7, <2>3
    <3>2. pc[y] \in {"waiting", "woken"}
      BY <1>1, <2>3, <3>1
    <3>3. <<y, x>> \notin ahead
      BY <2>3, <3>1, <3>2 DEF IsFirst, Waiters
    <3>4. pc[y] # "woken" /\ <<x, y>> \in ahead
      BY <1>1, <2>3, <3>2, <3>3 DEF InLine
    <3>5. pc'[y] = "woken"
      BY <1>1, <2>3, <3>2, <3>4
    <3>6. IsFirst(y, Waiters(lock[c]) \ {c})
      BY <1>7, <3>4, <3>5
    <3> QED
      BY <1>1, <2>3, <3>1, <3>4, <3>6 DEF IsFirst, Waiters
  <2> QED
    BY <1>1, <2>1, <2>2, <2>3
<1>9. InLine'
  <2> SUFFICES ASSUME NEW d \in Callers, NEW e \in Callers, d # e,
                      lock'[d] = lock'[e],
                      pc'[d] \in {"waiting", "woken"}, pc'[e] \in {"waiting", "woken"}
               PROVE  \/ <<d, e>> \in ahead' /\ pc'[e] # "woken"
                      \/ <<e, d>> \in ahead' /\ pc'[d] # "woken"
    BY DEF InLine
  <2>1. d # c /\ e # c /\ lock[d] = lock[e]
        /\ pc[d] \in {"waiting", "woken"} /\ pc[e] \in {"waiting", "woken"}
    BY <1>1
  <2>2. \A x, y \in Callers \ {c} : <<x, y>> \in ahead => <<x, y>> \in ahead'
    BY DEF LeaveTo
  <2>3. ASSUME NEW x \in Callers \ {c}, NEW y \in Callers \ {c}, x # y,
               lock[x] = lock[y], pc[x] \in {"waiting", "woken"},
               <<x, y>> \in ahead, pc[y] # "woken"
        PROVE  pc'[y] # "woken"
    BY <1>7, <2>3 DEF IsFirst, Waiters
  <2> QED
    BY <2>1, <2>2, <2>3 DEF InLine
<1> QED
  BY <1>2, <1>5, <1>6, <1>8, <1>9

LEMMA TokenTypeStep == TokenTypeOK /\ [Next]_vars => TokenTypeOK'
<1> SUFFICES ASSUME TokenTypeOK, [Next]_vars PROVE TokenTypeOK'
  OBVIOUS
<1> USE NoLockAssumption, MaxCredAssumption DEF TokenTypeOK, Points
<1>0. 0 \in Creds
  BY DEF Creds
<1>1. ASSUME NEW c \in Callers, NEW p \in Points, LeaveTo(c, p), Reclaim(c)
      PROVE  /\ pc' \in [Callers -> Points]
             /\ lock' \in [Callers -> LockIds \cup {NoLock}]
             /\ ahead' \subseteq Callers \X Callers
             /\ locks' \in [Accounts -> LockIds \cup {NoLock}]
  BY <1>1 DEF LeaveTo, Reclaim
<1>2. ASSUME NEW c \in Callers, NEW a \in Accounts, Load(c, a) PROVE TokenTypeOK'
  BY <1>2 DEF Load, lockVars, cacheVars, accountVars
<1>3. ASSUME NEW c \in Callers, FromCache(c) PROVE TokenTypeOK'
  BY <1>3 DEF FromCache, Hit, lockVars, cacheVars, accountVars
<1>4. ASSUME NEW c \in Callers, TakeLock(c) PROVE TokenTypeOK'
  BY <1>4 DEF TakeLock, Waiters, cacheVars, accountVars
<1>5. ASSUME NEW c \in Callers, WokenHit(c) PROVE TokenTypeOK'
  BY <1>1, <1>5 DEF WokenHit, Hit, cacheVars, accountVars
<1>6. ASSUME NEW c \in Callers, WokenMiss(c) PROVE TokenTypeOK'
  BY <1>6 DEF WokenMiss, cacheVars, accountVars
<1>7. ASSUME NEW c \in Callers, ExchangeStores(c) PROVE TokenTypeOK'
  BY <1>1, <1>7 DEF ExchangeStores, accountVars
<1>8. ASSUME NEW c \in Callers, ExchangeRejected(c) PROVE TokenTypeOK'
  BY <1>1, <1>8 DEF ExchangeRejected, accountVars
<1>9. ASSUME NEW c \in Callers, ExchangeUnavailable(c) \/ Cancel(c)
      PROVE  TokenTypeOK'
  BY <1>1, <1>9, <1>0 DEF ExchangeUnavailable, Cancel, Forget, cacheVars, accountVars
<1>10. ASSUME NEW c \in Callers, SendAnswered(c) \/ SendForbidden(c) \/ SendRefused(c)
       PROVE  TokenTypeOK'
  BY <1>0, <1>10 DEF SendAnswered, SendForbidden, SendRefused, Forget, lockVars, cacheVars,
     accountVars
<1>11. ASSUME NEW c \in Callers, Quarantine(c) PROVE TokenTypeOK'
  BY <1>0, <1>11 DEF Quarantine, Forget, lockVars, cacheVars
<1>12. ASSUME NEW a \in Accounts, Expire(a) \/ Revoke(a) PROVE TokenTypeOK'
  BY <1>12 DEF Expire, Revoke, callVars, lockVars, cacheVars, accountVars
<1>13. ASSUME NEW a \in Accounts, Relogin(a) PROVE TokenTypeOK'
  <2>1. cred[a] + 1 \in Creds
    BY <1>13 DEF Relogin, Creds
  <2> QED
    BY <1>13, <2>1 DEF Relogin, callVars, lockVars, cacheVars
<1>14. CASE UNCHANGED vars
  BY <1>14 DEF vars, callVars, lockVars, cacheVars, accountVars
<1> QED
  BY <1>2, <1>3, <1>4, <1>5, <1>6, <1>7, <1>8, <1>9, <1>10, <1>11, <1>12,
     <1>13, <1>14 DEF Next, CallerNext

\* A step of a caller that is at no lock, before it and after it.
LEMMA AwayStep ==
  ASSUME LockInv, TokenTypeOK', UNCHANGED <<lock, ahead, locks>>,
         \A d \in Callers : pc'[d] # pc[d] => ~AtLock(d) /\ ~AtLock(d)',
         \A d \in Callers : acct'[d] # acct[d] => ~AtLock(d)
  PROVE  LockInv'
<1> USE DEF LockInv, TokenTypeOK, AtLock
<1>1. HasLock'
  BY DEF HasLock
<1>2. OwnLock'
  BY DEF OwnLock
<1>3. UsesTableLock'
  BY DEF UsesTableLock, HasLock
<1>4. OnePastQueue'
  BY DEF OnePastQueue
<1>5. InLine'
  BY DEF InLine
<1> QED
  BY <1>1, <1>2, <1>3, <1>4, <1>5

LEMMA TakeStep ==
  ASSUME LockInv, NEW c \in Callers, TakeLock(c), TokenTypeOK'
  PROVE  LockInv'
<1> USE NoLockAssumption DEF LockInv, TokenTypeOK, AtLock
<1>1. PICK l \in LockIds :
        /\ IF locks[acct[c]] = NoLock THEN l \notin InUse ELSE l = locks[acct[c]]
        /\ locks' = [locks EXCEPT ![acct[c]] = l]
        /\ lock' = [lock EXCEPT ![c] = l]
        /\ pc' = [pc EXCEPT ![c] = IF Free(l) THEN "exchange" ELSE "waiting"]
        /\ ahead' = ahead \cup (Waiters(l) \X {c})
  BY DEF TakeLock
<1>2. pc[c] = "loaded" /\ UNCHANGED acct /\ lock[c] = NoLock
  BY DEF TakeLock, HasLock
<1>3. \A d \in Callers : lock[d] = l => locks[acct[d]] = l
  BY <1>1 DEF UsesTableLock
<1>4. \A a \in Accounts : locks[a] = l => a = acct[c]
  BY <1>1 DEF InUse, OwnLock
<1>5. HasLock'
  BY <1>1, <1>2 DEF HasLock
<1>6. OwnLock'
  BY <1>1, <1>4 DEF OwnLock
<1>7. UsesTableLock'
  <2>1. ASSUME NEW d \in Callers, d # c, lock[d] # NoLock, acct[d] = acct[c]
        PROVE  lock[d] = l
    BY <1>1, <2>1 DEF UsesTableLock
  <2> QED
    BY <1>1, <1>2, <2>1 DEF UsesTableLock
<1>8. OnePastQueue'
  BY <1>1, <1>2 DEF OnePastQueue, Free, Locked, Waiters
<1>9. InLine'
  BY <1>1, <1>2 DEF InLine, Waiters
<1> QED
  BY <1>5, <1>6, <1>7, <1>8, <1>9

LEMMA MissStep ==
  ASSUME LockInv, NEW c \in Callers, WokenMiss(c), TokenTypeOK'
  PROVE  LockInv'
<1> USE DEF LockInv, TokenTypeOK, AtLock, WokenMiss
<1>1. HasLock' /\ OwnLock' /\ UsesTableLock'
  BY DEF HasLock, OwnLock, UsesTableLock
<1>2. OnePastQueue'
  BY DEF OnePastQueue
<1>3. InLine'
  BY DEF InLine
<1> QED
  BY <1>1, <1>2, <1>3

LEMMA LockStep == LockInv /\ [Next]_vars => LockInv'
<1> SUFFICES ASSUME LockInv, [Next]_vars PROVE LockInv'
  OBVIOUS
<1>1. TokenTypeOK'
  BY TokenTypeStep DEF LockInv
<1>2. ASSUME NEW c \in Callers,
             WokenHit(c) \/ ExchangeStores(c) \/ ExchangeRejected(c)
               \/ ExchangeUnavailable(c) \/ Cancel(c)
      PROVE  LockInv'
  BY <1>1, <1>2, LeaveStep DEF WokenHit, ExchangeStores, ExchangeRejected,
     ExchangeUnavailable, Cancel, AtLock
<1>3. ASSUME NEW c \in Callers,
             \/ \E a \in Accounts : Load(c, a)
             \/ FromCache(c) \/ SendAnswered(c) \/ SendForbidden(c)
             \/ SendRefused(c) \/ Quarantine(c)
      PROVE  LockInv'
  <2>1. /\ UNCHANGED <<lock, ahead, locks>>
        /\ pc[c] \in {"idle", "loaded", "refused", "send", "expired"}
        /\ \E p \in {"idle", "loaded", "send", "expired"} :
              pc' = [pc EXCEPT ![c] = p]
        /\ \A d \in Callers \ {c} : acct'[d] = acct[d]
    BY <1>3 DEF Load, FromCache, SendAnswered, SendForbidden, SendRefused,
       Quarantine, lockVars, LockInv, TokenTypeOK
  <2> QED
    BY <1>1, <2>1, AwayStep DEF AtLock, LockInv, TokenTypeOK
<1>4. ASSUME UNCHANGED <<callVars, lockVars>> PROVE LockInv'
  <2>1. UNCHANGED <<pc, acct, lock, ahead, locks>>
    BY <1>4 DEF callVars, lockVars
  <2> QED
    BY <1>1, <2>1, AwayStep
<1>5. ASSUME NEW a \in Accounts, Expire(a) \/ Revoke(a) \/ Relogin(a)
      PROVE  LockInv'
  BY <1>4, <1>5 DEF Expire, Revoke, Relogin
<1>6. CASE UNCHANGED vars
  BY <1>4, <1>6 DEF vars
<1> QED
  BY <1>1, <1>2, <1>3, <1>5, <1>6, TakeStep, MissStep DEF Next, CallerNext

(* The lock protocol of bearer_for and its reclamation keep their          *)
(* invariant: a lock in use is the one in the table.                       *)
THEOREM LockCorrect == Spec => []LockInv
  BY LockInit, LockStep, PTL DEF Spec

LEMMA OneHolder == LockInv => OneExchange
  BY DEF LockInv, TokenTypeOK, OneExchange, OnePastQueue, UsesTableLock, HasLock,
     AtLock

(* No account is exchanged twice at once in a process, although locks come *)
(* and go in the table.                                                    *)
THEOREM ExchangesAreExclusive == Spec => []OneExchange
  BY OneHolder, LockCorrect, PTL

----------------------------------------------------------------------------
(* What a single step may not do.                                          *)

\* Every step of a caller away from the locks, and every step of the rest.
LEMMA AwayOrAtLock ==
  ASSUME LockInv, [Next]_vars
  PROVE  \/ \E c \in Callers : TakeLock(c) \/ WokenMiss(c)
         \/ \E c \in Callers, p \in {"idle", "refused", "send"} :
              AtLock(c) /\ UNCHANGED acct /\ LeaveTo(c, p) /\ Reclaim(c)
         \/ \A d \in Callers : AtLock(d) \/ AtLock(d)' =>
              pc'[d] = pc[d] /\ acct'[d] = acct[d]
<1> USE DEF LockInv, TokenTypeOK, AtLock
<1>1. ASSUME NEW c \in Callers,
             \/ \E a \in Accounts : Load(c, a)
             \/ FromCache(c) \/ SendAnswered(c) \/ SendForbidden(c)
             \/ SendRefused(c) \/ Quarantine(c)
      PROVE  \A d \in Callers : AtLock(d) \/ AtLock(d)' =>
               pc'[d] = pc[d] /\ acct'[d] = acct[d]
  BY <1>1 DEF Load, FromCache, SendAnswered, SendForbidden, SendRefused, Quarantine
<1>2. ASSUME NEW c \in Callers,
             WokenHit(c) \/ ExchangeStores(c) \/ ExchangeRejected(c)
               \/ ExchangeUnavailable(c) \/ Cancel(c)
      PROVE  \E p \in {"idle", "refused", "send"} :
               AtLock(c) /\ UNCHANGED acct /\ LeaveTo(c, p) /\ Reclaim(c)
  BY <1>2 DEF WokenHit, ExchangeStores, ExchangeRejected, ExchangeUnavailable, Cancel
<1>3. ASSUME NEW a \in Accounts, Expire(a) \/ Revoke(a) \/ Relogin(a)
      PROVE  UNCHANGED <<pc, acct>>
  BY <1>3 DEF Expire, Revoke, Relogin, callVars
<1>4. CASE UNCHANGED vars
  BY <1>4 DEF vars, callVars
<1> QED
  BY <1>1, <1>2, <1>3, <1>4 DEF Next, CallerNext

(* Nobody exchanges while a usable bearer is cached, however many callers  *)
(* were waiting for the exchange that stored it.                           *)
THEOREM WaitersShare == Spec => SharesResult
<1>1. ASSUME LockInv, [Next]_vars, NEW c \in Callers,
             pc[c] # "exchange", pc'[c] = "exchange"
      PROVE  ~Hit(acct[c])
  <2>1. ASSUME NEW d \in Callers, TakeLock(d) \/ WokenMiss(d)
        PROVE  ~Hit(acct[c])
    BY <1>1, <2>1 DEF TakeLock, WokenMiss, LockInv, TokenTypeOK
  <2>2. ASSUME NEW d \in Callers, NEW p \in {"idle", "refused", "send"},
               LeaveTo(d, p)
        PROVE  FALSE
    BY <1>1, <2>2 DEF LeaveTo, LockInv, TokenTypeOK
  <2> QED
    BY <1>1, <2>1, <2>2, AwayOrAtLock DEF AtLock
<1>2. LockInv /\ [Next]_vars =>
        [\A c \in Callers :
           pc[c] # "exchange" /\ pc'[c] = "exchange" => ~Hit(acct[c])]_vars
  BY <1>1
<1> QED
  BY <1>2, LockCorrect, PTL DEF Spec, SharesResult

\* The last caller at the lock of an account that has no entry reclaims it.
LEMMA LastReclaims ==
  ASSUME LockInv, NEW c \in Callers, NEW p \in {"idle", "refused", "send"},
         AtLock(c), UNCHANGED acct, LeaveTo(c, p), Reclaim(c),
         NEW a \in Accounts,
         \E d \in Callers : AtLock(d) /\ acct[d] = a,
         \A d \in Callers : ~(AtLock(d)' /\ acct'[d] = a),
         cache'[a] = NoEntry
  PROVE  locks'[a] = NoLock
<1> USE DEF LockInv, TokenTypeOK, AtLock
<1>1. \A d \in Callers \ {c} : AtLock(d) => AtLock(d)'
  BY DEF LeaveTo
<1>2. acct[c] = a
  BY <1>1
<1>3. \A d \in Callers \ {c} : lock[d] = lock[c] => ~AtLock(d)
  <2>1. ASSUME NEW d \in Callers \ {c}, lock[d] = lock[c], AtLock(d)
        PROVE  FALSE
    <3>1. locks[acct[d]] = lock[d] /\ locks[acct[c]] = lock[c] /\ lock[c] # NoLock
      BY <2>1 DEF UsesTableLock, HasLock
    <3>2. acct[d] = a
      BY <1>2, <2>1, <3>1 DEF OwnLock
    <3> QED
      BY <1>1, <2>1, <3>2
  <2> QED
    BY <2>1
<1>4. /\ Waiters(lock[c]) \ {c} = {}
      /\ ~\E d \in Callers \ {c} : lock[d] = lock[c] /\ pc[d] = "exchange"
  BY <1>3 DEF Waiters
<1> QED
  BY <1>2, <1>4 DEF Reclaim

(* _locks does not grow with the accounts whose exchange fails: whoever    *)
(* leaves the lock of such an account last, by whatever way and however    *)
(* many callers have come and gone, takes it out of the table.             *)
THEOREM IdleLocksAreReclaimed == Spec => ReclaimsIdleLock
<1>1. ASSUME LockInv, [Next]_vars, NEW a \in Accounts,
             \E c \in Callers : AtLock(c) /\ acct[c] = a,
             ~(\E c \in Callers : AtLock(c) /\ acct[c] = a)',
             cache'[a] = NoEntry
      PROVE  locks'[a] = NoLock
  <2>1. \A c \in Callers : ~(AtLock(c)' /\ acct'[c] = a)
    BY <1>1 DEF AtLock
  <2>2. PICK d \in Callers : AtLock(d) /\ acct[d] = a
    BY <1>1
  <2>3. ASSUME NEW c \in Callers, TakeLock(c) \/ WokenMiss(c) PROVE FALSE
    <3>1. AtLock(d)' /\ acct'[d] = a
      BY <1>1, <2>2, <2>3 DEF TakeLock, WokenMiss, AtLock, LockInv, TokenTypeOK
    <3> QED
      BY <2>1, <3>1
  <2>4. ASSUME NEW c \in Callers, NEW p \in {"idle", "refused", "send"},
               AtLock(c), UNCHANGED acct, LeaveTo(c, p), Reclaim(c)
        PROVE  locks'[a] = NoLock
    BY <1>1, <2>1, <2>2, <2>4, LastReclaims
  <2>5. CASE \A e \in Callers : AtLock(e) \/ AtLock(e)' =>
               pc'[e] = pc[e] /\ acct'[e] = acct[e]
    <3>1. AtLock(d)' /\ acct'[d] = a
      BY <2>2, <2>5 DEF AtLock
    <3> QED
      BY <2>1, <3>1
  <2> QED
    BY <1>1, <2>3, <2>4, <2>5, AwayOrAtLock
<1>2. LockInv /\ [Next]_vars =>
        [\A a \in Accounts :
           /\ \E c \in Callers : AtLock(c) /\ acct[c] = a
           /\ ~(\E c \in Callers : AtLock(c) /\ acct[c] = a)'
           /\ cache'[a] = NoEntry
           => locks'[a] = NoLock]_vars
  BY <1>1
<1> QED
  BY <1>2, LockCorrect, PTL DEF Spec, ReclaimsIdleLock

----------------------------------------------------------------------------
(* No wake-up is lost.                                                     *)

\* The waiters of each lock stay, but for c, which may go; the queue shrinks.
LEMMA QueueShrinks ==
  ASSUME TokenTypeOK, OnlyWaitersQueue, SomeoneIsFirst, NEW c \in Callers,
         ahead' \subseteq ahead,
         \A q \in ahead' : q[1] # c /\ q[2] # c,
         \A d \in Callers \ {c} : pc[d] \in {"waiting", "woken"} <=>
                                   pc'[d] \in {"waiting", "woken"},
         \A d \in Callers \ {c} : lock'[d] = lock[d],
         pc'[c] \notin {"waiting", "woken"}
  PROVE  OnlyWaitersQueue' /\ SomeoneIsFirst'
<1>1. OnlyWaitersQueue'
  BY DEF OnlyWaitersQueue, TokenTypeOK
<1>2. SomeoneIsFirst'
  <2> SUFFICES ASSUME NEW l \in LockIds, NEW S \in SUBSET Waiters(l)', S # {}
      PROVE  \E d \in S : IsFirst(d, S)'
    BY DEF SomeoneIsFirst
  <2>1. S \in SUBSET Waiters(l)
    BY DEF Waiters
  <2>2. PICK d \in S : IsFirst(d, S)
    BY <2>1 DEF SomeoneIsFirst
  <2> QED
    BY <2>2 DEF IsFirst
<1> QED
  BY <1>1, <1>2

LEMMA LeaveWakes ==
  ASSUME LockInv, WakeInv, NEW c \in Callers, AtLock(c),
         NEW p \in {"idle", "refused", "send"}, LeaveTo(c, p)
  PROVE  WakeInv'
<1> DEFINE rest == Waiters(lock[c]) \ {c}
           held == \E d \in Callers \ {c} : lock[d] = lock[c] /\ pc[d] = "exchange"
<1>1. /\ lock' = [lock EXCEPT ![c] = NoLock] /\ lock[c] \in LockIds
      /\ pc'[c] = p
      /\ \A d \in Callers \ {c} :
           pc'[d] = IF ~held /\ IsFirst(d, rest) THEN "woken" ELSE pc[d]
  BY DEF LeaveTo, LockInv, TokenTypeOK, HasLock
<1>2. \A d \in Callers \ {c} : IsFirst(d, rest) =>
        pc[d] \in {"waiting", "woken"} /\ lock[d] = lock[c]
  BY DEF IsFirst, Waiters
<1>3. \A d \in Callers \ {c} : lock'[d] = lock[d]
  BY <1>1 DEF LockInv, TokenTypeOK
<1> HIDE DEF rest, held
<1>4. OnlyWaitersQueue' /\ SomeoneIsFirst'
  <2>1. ahead' \subseteq ahead /\ \A q \in ahead' : q[1] # c /\ q[2] # c
    BY DEF LeaveTo
  <2>2. TokenTypeOK /\ OnlyWaitersQueue /\ SomeoneIsFirst
    BY DEF LockInv, WakeInv
  <2>3. \A d \in Callers \ {c} : pc[d] \in {"waiting", "woken"} <=>
                                 pc'[d] \in {"waiting", "woken"}
    BY <1>1, <1>2
  <2>4. pc'[c] \notin {"waiting", "woken"}
    BY <1>1
  <2> QED
    BY <1>3, <2>1, <2>2, <2>3, <2>4, QueueShrinks
<1>5. NoLostWakeup'
  <2> SUFFICES ASSUME NEW d \in Callers, pc'[d] = "waiting"
      PROVE  \E e \in Callers : lock'[e] = lock'[d] /\ pc'[e] \in {"woken", "exchange"}
    BY DEF NoLostWakeup
  <2>1. d # c /\ pc[d] = "waiting" /\ lock'[d] = lock[d]
    BY <1>1, <1>3
  <2>2. CASE lock[d] # lock[c]
    <3>1. PICK e \in Callers : lock[e] = lock[d] /\ pc[e] \in {"woken", "exchange"}
      BY <2>1 DEF WakeInv, NoLostWakeup
    <3>2. e # c /\ pc'[e] \in {"woken", "exchange"}
      BY <1>1, <2>2, <3>1
    <3> QED
      BY <1>3, <2>1, <3>1, <3>2
  <2>3. CASE lock[d] = lock[c] /\ held
    <3>1. PICK e \in Callers \ {c} : lock[e] = lock[c] /\ pc[e] = "exchange"
      BY <2>3 DEF held
    <3>2. pc'[e] \in {"woken", "exchange"}
      BY <1>1, <3>1
    <3> QED
      BY <1>3, <2>1, <2>3, <3>1, <3>2
  <2>4. CASE lock[d] = lock[c] /\ ~held
    <3>1. rest \in SUBSET Waiters(lock[c]) /\ rest # {}
      BY <2>1, <2>4 DEF rest, Waiters
    <3>2. PICK e \in rest : IsFirst(e, rest)
      BY <1>1, <3>1 DEF WakeInv, SomeoneIsFirst
    <3>3. e \in Callers \ {c} /\ lock[e] = lock[c] /\ pc'[e] = "woken"
      BY <1>1, <2>4, <3>2 DEF rest, Waiters
    <3> QED
      BY <1>3, <2>1, <2>4, <3>3
  <2> QED
    BY <2>2, <2>3, <2>4
<1> QED
  BY <1>4, <1>5 DEF WakeInv

\* A newcomer stands behind everyone, and waits only where someone is at work.
LEMMA TakeWakes ==
  ASSUME LockInv, WakeInv, NEW c \in Callers, TakeLock(c)
  PROVE  WakeInv'
<1>1. PICK l \in LockIds :
        /\ lock' = [lock EXCEPT ![c] = l]
        /\ pc' = [pc EXCEPT ![c] = IF Free(l) THEN "exchange" ELSE "waiting"]
        /\ ahead' = ahead \cup (Waiters(l) \X {c})
  BY DEF TakeLock
<1>2. pc[c] = "loaded" /\ lock'[c] = l
      /\ pc'[c] = IF Free(l) THEN "exchange" ELSE "waiting"
  BY <1>1 DEF TakeLock, LockInv, TokenTypeOK
<1>3. \A d \in Callers \ {c} : lock'[d] = lock[d] /\ pc'[d] = pc[d]
  BY <1>1 DEF LockInv, TokenTypeOK
<1>4. ahead \subseteq Callers \X Callers /\ \A q \in ahead : q[1] # c /\ q[2] # c
  BY <1>2 DEF LockInv, TokenTypeOK, WakeInv, OnlyWaitersQueue
<1>5. OnlyWaitersQueue'
  <2> SUFFICES ASSUME NEW q \in ahead'
      PROVE  pc'[q[1]] \in {"waiting", "woken"} /\ pc'[q[2]] \in {"waiting", "woken"}
    BY DEF OnlyWaitersQueue
  <2>1. CASE q \in ahead
    BY <1>3, <1>4, <2>1 DEF WakeInv, OnlyWaitersQueue
  <2>2. CASE q \in Waiters(l) \X {c}
    BY <1>2, <1>3, <2>2 DEF Waiters, Free
  <2> QED
    BY <1>1, <2>1, <2>2
<1>6. SomeoneIsFirst'
  <2> SUFFICES ASSUME NEW k \in LockIds, NEW S \in SUBSET Waiters(k)', S # {}
      PROVE  \E d \in S : IsFirst(d, S)'
    BY DEF SomeoneIsFirst
  <2>1. S \ {c} \in SUBSET Waiters(k)
    BY <1>3 DEF Waiters
  <2>2. \A d \in Callers \ {c}, e \in Callers : <<e, d>> \in ahead' => <<e, d>> \in ahead
    BY <1>1
  <2>3. \A d \in S : d \in Callers
    BY DEF Waiters
  <2>4. CASE S \ {c} = {}
    <3>1. S = {c}
      BY <2>4
    <3>2. <<c, c>> \notin ahead'
      BY <1>1, <1>2, <1>4 DEF Waiters
    <3> QED
      BY <3>1, <3>2 DEF IsFirst
  <2>5. CASE S \ {c} # {}
    <3>1. PICK d \in S \ {c} : IsFirst(d, S \ {c})
      BY <2>1, <2>5 DEF WakeInv, SomeoneIsFirst
    <3>2. \A e \in S : <<e, d>> \notin ahead'
      BY <1>4, <2>2, <2>3, <3>1 DEF IsFirst
    <3> QED
      BY <3>1, <3>2 DEF IsFirst
  <2> QED
    BY <2>4, <2>5
<1>7. NoLostWakeup'
  <2> SUFFICES ASSUME NEW d \in Callers, pc'[d] = "waiting"
      PROVE  \E e \in Callers : lock'[e] = lock'[d] /\ pc'[e] \in {"woken", "exchange"}
    BY DEF NoLostWakeup
  <2>1. ASSUME NEW e \in Callers, pc[e] \in {"woken", "exchange"}, lock[e] = lock'[d]
        PROVE  lock'[e] = lock'[d] /\ pc'[e] \in {"woken", "exchange"}
    BY <1>2, <1>3, <2>1
  <2>2. ASSUME NEW e \in Callers, pc[e] = "waiting", lock[e] = lock'[d]
        PROVE  \E f \in Callers : pc[f] \in {"woken", "exchange"} /\ lock[f] = lock'[d]
    BY <2>2 DEF WakeInv, NoLostWakeup
  <2>3. CASE d # c
    BY <1>3, <2>1, <2>2, <2>3
  <2>4. CASE d = c
    <3>1. ~Free(l) /\ lock'[d] = l
      BY <1>2, <2>4
    <3>2. \E e \in Callers : lock[e] = l /\ pc[e] \in {"waiting", "woken", "exchange"}
      BY <3>1 DEF Free, Locked, Waiters
    <3> QED
      BY <2>1, <2>2, <3>1, <3>2
  <2> QED
    BY <2>3, <2>4
<1> QED
  BY <1>5, <1>6, <1>7 DEF WakeInv

LEMMA MissWakes ==
  ASSUME LockInv, WakeInv, NEW c \in Callers, WokenMiss(c)
  PROVE  WakeInv'
<1>1. /\ pc[c] = "woken" /\ pc' = [pc EXCEPT ![c] = "exchange"] /\ UNCHANGED lock
      /\ ahead' \subseteq ahead /\ \A q \in ahead' : q[1] # c /\ q[2] # c
  BY DEF WokenMiss
<1>2. pc'[c] = "exchange" /\ \A d \in Callers \ {c} : pc'[d] = pc[d]
  BY <1>1 DEF LockInv, TokenTypeOK
<1>3. OnlyWaitersQueue' /\ SomeoneIsFirst'
  <2>1. TokenTypeOK /\ OnlyWaitersQueue /\ SomeoneIsFirst
    BY DEF LockInv, WakeInv
  <2> QED
    BY <1>1, <1>2, <2>1, QueueShrinks
<1>4. NoLostWakeup'
  BY <1>1, <1>2 DEF WakeInv, NoLostWakeup
<1> QED
  BY <1>3, <1>4 DEF WakeInv

\* A step of a caller that is at no lock.
LEMMA AwayWakes ==
  ASSUME LockInv, WakeInv, UNCHANGED <<lock, ahead>>,
         \A d \in Callers : AtLock(d) \/ AtLock(d)' => pc'[d] = pc[d]
  PROVE  WakeInv'
<1>1. \A d \in Callers : /\ pc'[d] = "waiting" <=> pc[d] = "waiting"
                         /\ pc'[d] = "woken" <=> pc[d] = "woken"
                         /\ pc'[d] = "exchange" <=> pc[d] = "exchange"
  BY DEF AtLock
<1>2. OnlyWaitersQueue'
  BY <1>1 DEF LockInv, TokenTypeOK, WakeInv, OnlyWaitersQueue
<1>3. \A l : Waiters(l)' = Waiters(l)
  BY <1>1 DEF Waiters
<1>4. SomeoneIsFirst'
  BY <1>3 DEF WakeInv, SomeoneIsFirst, IsFirst
<1>5. NoLostWakeup'
  BY <1>1 DEF WakeInv, NoLostWakeup
<1> QED
  BY <1>2, <1>4, <1>5 DEF WakeInv

LEMMA WakeStep == LockInv /\ WakeInv /\ [Next]_vars => WakeInv'
<1> SUFFICES ASSUME LockInv, WakeInv, [Next]_vars PROVE WakeInv'
  OBVIOUS
<1>1. ASSUME NEW c \in Callers,
             WokenHit(c) \/ ExchangeStores(c) \/ ExchangeRejected(c)
               \/ ExchangeUnavailable(c) \/ Cancel(c)
      PROVE  WakeInv'
  BY <1>1, LeaveWakes DEF WokenHit, ExchangeStores, ExchangeRejected,
     ExchangeUnavailable, Cancel, AtLock
<1>2. ASSUME NEW c \in Callers,
             \/ \E a \in Accounts : Load(c, a)
             \/ FromCache(c) \/ SendAnswered(c) \/ SendForbidden(c)
             \/ SendRefused(c) \/ Quarantine(c)
      PROVE  WakeInv'
  <2>1. UNCHANGED <<lock, ahead>>
        /\ \A d \in Callers : AtLock(d) \/ AtLock(d)' => pc'[d] = pc[d]
    BY <1>2 DEF Load, FromCache, SendAnswered, SendForbidden, SendRefused, Quarantine,
       lockVars, LockInv, TokenTypeOK, AtLock
  <2> QED
    BY <2>1, AwayWakes
<1>3. ASSUME (\E a \in Accounts : Expire(a) \/ Revoke(a) \/ Relogin(a)) \/ UNCHANGED vars
      PROVE  WakeInv'
  <2>1. UNCHANGED <<pc, lock, ahead>>
    BY <1>3 DEF Expire, Revoke, Relogin, vars, callVars, lockVars
  <2> QED
    BY <2>1, AwayWakes
<1> QED
  BY <1>1, <1>2, <1>3, TakeWakes, MissWakes DEF Next, CallerNext

(* A lock that callers wait for has a holder, or one of them has been      *)
(* woken for it, whoever is cancelled and whenever: the queue never sleeps *)
(* on a free lock.                                                         *)
THEOREM NoWakeupIsLost == Spec => []NoLostWakeup
<1>1. Init => WakeInv
  BY DEF Init, WakeInv, OnlyWaitersQueue, SomeoneIsFirst, NoLostWakeup, Waiters
<1>2. LockInv /\ WakeInv /\ [Next]_vars => WakeInv'
  BY WakeStep
<1>3. WakeInv => NoLostWakeup
  BY DEF WakeInv
<1> QED
  BY <1>1, <1>2, <1>3, LockCorrect, PTL DEF Spec

----------------------------------------------------------------------------
(* What takes an account out of the pool.                                  *)

\* The numbers the comparisons are about.
LEMMA Versions ==
  ASSUME TokenTypeOK
  PROVE  /\ \A c \in Callers : acct[c] \in Accounts /\ tok[c] \in Nat /\ bearer[c] \in Nat
         /\ \A a \in Accounts : cred[a] \in Nat
         /\ \A a \in Accounts : cache[a] # NoEntry => cache[a] \in Nat
         /\ \A q \in live : q[1] \in Accounts /\ q[2] \in Nat
  BY MaxCredAssumption DEF TokenTypeOK, Creds

\* ExpiryInv caller by caller and account by account, and what a step of c
\* leaves to the other callers.
Sound(c) ==
    /\ tok[c] <= cred[acct[c]]
    /\ bearer[c] <= cred[acct[c]]
    /\ pc[c] = "idle" => bearer[c] = 0
    /\ pc[c] = "expired" => <<acct[c], bearer[c]>> \notin live
CacheNoNewer == \A a \in Accounts : cache[a] # NoEntry => cache[a] <= cred[a]
OthersKeep(c) ==
    \A d \in Callers \ {c} :
        /\ tok'[d] = tok[d] /\ bearer'[d] = bearer[d] /\ acct'[d] = acct[d]
        /\ pc'[d] = pc[d] \/ pc'[d] = "woken"

LEMMA ExpiryInit == Init => ExpiryInv
<1> SUFFICES ASSUME Init PROVE ExpiryInv
  OBVIOUS
<1> QED
  BY DEF Init, ExpiryInv, NothingNewer, SawRefusal

LEMMA CallerMoves ==
  ASSUME ExpiryInv, NEW c \in Callers, OthersKeep(c), UNCHANGED <<cred, live>>,
         Sound(c)', CacheNoNewer'
  PROVE  ExpiryInv'
<1>1. ASSUME NEW d \in Callers PROVE Sound(d)'
  <2>1. CASE d = c
    BY <2>1
  <2>2. CASE d # c
    BY <2>2 DEF OthersKeep, Sound, ExpiryInv, NothingNewer, SawRefusal
  <2> QED
    BY <2>1, <2>2
<1>2. NothingNewer'
  BY <1>1 DEF Sound, CacheNoNewer, ExpiryInv, NothingNewer
<1>3. SawRefusal'
  BY <1>1 DEF Sound, SawRefusal
<1> QED
  BY <1>2, <1>3 DEF ExpiryInv

LEMMA ExpiryStep == LockInv /\ ExpiryInv /\ [Next]_vars => ExpiryInv'
<1> SUFFICES ASSUME LockInv, ExpiryInv, [Next]_vars PROVE ExpiryInv'
  OBVIOUS
<1>1. TokenTypeOK /\ TokenTypeOK'
  BY TokenTypeStep DEF LockInv
<1>2. /\ \A d \in Callers : acct[d] \in Accounts /\ tok[d] \in Nat /\ bearer[d] \in Nat
      /\ \A a \in Accounts : cred[a] \in Nat
  BY <1>1, Versions
<1>3. /\ \A d \in Callers : tok[d] <= cred[acct[d]] /\ bearer[d] <= cred[acct[d]]
      /\ \A d \in Callers : pc[d] = "idle" => bearer[d] = 0
      /\ \A a \in Accounts : cache[a] # NoEntry => cache[a] <= cred[a]
  BY DEF ExpiryInv, NothingNewer
<1>4. ASSUME NEW c \in Callers, NEW a \in Accounts, Load(c, a) PROVE ExpiryInv'
  <2>1. /\ pc'[c] = "loaded" /\ acct'[c] = a /\ tok'[c] = cred[a]
        /\ bearer'[c] = 0 /\ UNCHANGED <<cred, live, cache>> /\ OthersKeep(c)
    BY <1>1, <1>3, <1>4 DEF Load, TokenTypeOK, cacheVars, accountVars, OthersKeep
  <2>2. Sound(c)'
    BY <1>2, <2>1 DEF Sound
  <2>3. CacheNoNewer'
    BY <1>3, <2>1 DEF CacheNoNewer
  <2> QED
    BY <2>1, <2>2, <2>3, CallerMoves
<1>5. ASSUME NEW c \in Callers, FromCache(c) PROVE ExpiryInv'
  <2>1. /\ pc'[c] = "send" /\ UNCHANGED <<acct, tok, cred, live, cache>>
        /\ bearer'[c] = cache[acct[c]] /\ cache[acct[c]] # NoEntry /\ OthersKeep(c)
    BY <1>1, <1>5 DEF FromCache, Hit, TokenTypeOK, cacheVars, accountVars, OthersKeep
  <2>2. Sound(c)'
    BY <1>2, <1>3, <2>1 DEF Sound
  <2>3. CacheNoNewer'
    BY <1>3, <2>1 DEF CacheNoNewer
  <2> QED
    BY <2>1, <2>2, <2>3, CallerMoves
<1>6. ASSUME NEW c \in Callers, TakeLock(c) \/ WokenMiss(c) PROVE ExpiryInv'
  <2>1. /\ pc'[c] \in {"exchange", "waiting"} /\ OthersKeep(c)
        /\ UNCHANGED <<acct, tok, bearer, cred, live, cache>>
    BY <1>1, <1>6 DEF TakeLock, WokenMiss, TokenTypeOK, cacheVars, accountVars,
       OthersKeep
  <2>2. Sound(c)'
    BY <1>3, <2>1 DEF Sound
  <2>3. CacheNoNewer'
    BY <1>3, <2>1 DEF CacheNoNewer
  <2> QED
    BY <2>1, <2>2, <2>3, CallerMoves
<1>7. ASSUME NEW c \in Callers, NEW p \in {"idle", "refused", "send"}, LeaveTo(c, p)
      PROVE  /\ pc'[c] = p
             /\ \A d \in Callers \ {c} : pc'[d] = pc[d] \/ pc'[d] = "woken"
  BY <1>7 DEF LeaveTo
<1>8. ASSUME NEW c \in Callers, WokenHit(c) PROVE ExpiryInv'
  <2>1. /\ UNCHANGED <<acct, tok, cred, live, cache>>
        /\ bearer'[c] = cache[acct[c]] /\ cache[acct[c]] # NoEntry
        /\ \A d \in Callers \ {c} : bearer'[d] = bearer[d]
    BY <1>1, <1>8 DEF WokenHit, Hit, TokenTypeOK, cacheVars, accountVars
  <2>2. pc'[c] = "send" /\ OthersKeep(c)
    BY <1>7, <1>8, <2>1 DEF WokenHit, OthersKeep
  <2>3. Sound(c)'
    BY <1>2, <1>3, <2>1, <2>2 DEF Sound
  <2>4. CacheNoNewer'
    BY <1>3, <2>1 DEF CacheNoNewer
  <2> QED
    BY <2>1, <2>2, <2>3, <2>4, CallerMoves
<1>9. ASSUME NEW c \in Callers, ExchangeStores(c) PROVE ExpiryInv'
  <2>1. /\ UNCHANGED <<acct, tok, cred, live>>
        /\ bearer'[c] = tok[c] /\ \A d \in Callers \ {c} : bearer'[d] = bearer[d]
        /\ cache' = [cache EXCEPT ![acct[c]] = tok[c]]
    BY <1>1, <1>9 DEF ExchangeStores, TokenTypeOK, accountVars
  <2>2. pc'[c] = "send" /\ OthersKeep(c)
    BY <1>7, <1>9, <2>1 DEF ExchangeStores, OthersKeep
  <2>3. Sound(c)'
    BY <1>2, <1>3, <2>1, <2>2 DEF Sound
  <2>4. CacheNoNewer'
    BY <1>1, <1>2, <1>3, <2>1 DEF CacheNoNewer, TokenTypeOK
  <2> QED
    BY <2>1, <2>2, <2>3, <2>4, CallerMoves
<1>10. ASSUME NEW c \in Callers, ExchangeRejected(c) PROVE ExpiryInv'
  <2>1. /\ UNCHANGED <<acct, tok, bearer, cred, live>>
        /\ \A a \in Accounts : cache'[a] = cache[a] \/ cache'[a] = NoEntry
    BY <1>1, <1>10 DEF ExchangeRejected, TokenTypeOK, accountVars
  <2>2. pc'[c] = "refused" /\ OthersKeep(c)
    BY <1>7, <1>10, <2>1 DEF ExchangeRejected, OthersKeep
  <2>3. Sound(c)'
    BY <1>3, <2>1, <2>2 DEF Sound
  <2>4. CacheNoNewer'
    BY <1>3, <2>1 DEF CacheNoNewer
  <2> QED
    BY <2>1, <2>2, <2>3, <2>4, CallerMoves
<1>11. ASSUME NEW c \in Callers, ExchangeUnavailable(c) \/ Cancel(c) PROVE ExpiryInv'
  <2>1. /\ UNCHANGED <<acct, cred, live, cache>> /\ tok'[c] = 0 /\ bearer'[c] = 0
        /\ \A d \in Callers \ {c} : tok'[d] = tok[d] /\ bearer'[d] = bearer[d]
    BY <1>1, <1>11 DEF ExchangeUnavailable, Cancel, Forget, TokenTypeOK, cacheVars,
       accountVars
  <2>2. pc'[c] = "idle" /\ OthersKeep(c)
    BY <1>7, <1>11, <2>1 DEF ExchangeUnavailable, Cancel, OthersKeep
  <2>3. Sound(c)'
    BY <1>2, <2>1, <2>2 DEF Sound
  <2>4. CacheNoNewer'
    BY <1>3, <2>1 DEF CacheNoNewer
  <2> QED
    BY <2>1, <2>2, <2>3, <2>4, CallerMoves
<1>12. ASSUME NEW c \in Callers, SendAnswered(c) \/ SendForbidden(c) \/ Quarantine(c)
       PROVE  ExpiryInv'
  <2>1. /\ UNCHANGED <<acct, cred, live>> /\ tok'[c] = 0 /\ bearer'[c] = 0
        /\ pc'[c] = "idle" /\ OthersKeep(c)
        /\ \A a \in Accounts : cache'[a] = cache[a] \/ cache'[a] = NoEntry
    BY <1>1, <1>12 DEF SendAnswered, SendForbidden, Quarantine, Forget, TokenTypeOK,
       cacheVars, accountVars, OthersKeep
  <2>2. Sound(c)'
    BY <1>2, <2>1 DEF Sound
  <2>3. CacheNoNewer'
    BY <1>3, <2>1 DEF CacheNoNewer
  <2> QED
    BY <2>1, <2>2, <2>3, CallerMoves
<1>13. ASSUME NEW c \in Callers, SendRefused(c) PROVE ExpiryInv'
  <2>1. /\ UNCHANGED <<acct, tok, bearer, cred, live>> /\ <<acct[c], bearer[c]>> \notin live
        /\ pc'[c] = "expired" /\ OthersKeep(c)
        /\ \A a \in Accounts : cache'[a] = cache[a] \/ cache'[a] = NoEntry
    BY <1>1, <1>13 DEF SendRefused, TokenTypeOK, accountVars, OthersKeep
  <2>2. Sound(c)'
    BY <1>3, <2>1 DEF Sound
  <2>3. CacheNoNewer'
    BY <1>3, <2>1 DEF CacheNoNewer
  <2> QED
    BY <2>1, <2>2, <2>3, CallerMoves
<1>14. ASSUME NEW a \in Accounts, Relogin(a) PROVE ExpiryInv'
  <2>1. /\ UNCHANGED <<pc, acct, tok, bearer, cache>>
        /\ cred'[a] = cred[a] + 1 /\ \A b \in Accounts \ {a} : cred'[b] = cred[b]
        /\ live' = live \cup {<<a, cred[a] + 1>>}
    BY <1>1, <1>14 DEF Relogin, TokenTypeOK, callVars, cacheVars
  <2>2. NothingNewer'
    <3>1. \A b \in Accounts : cred[b] <= cred'[b] /\ cred'[b] \in Nat
      BY <1>2, <2>1
    <3>2. \A q \in live : q[1] \in Accounts /\ q[2] \in Nat /\ q[2] <= cred[q[1]]
      BY <1>1, Versions DEF ExpiryInv, NothingNewer
    <3>3. \A q \in live' : q[2] <= cred'[q[1]]
      BY <1>2, <2>1, <3>1, <3>2
    <3>4. \A b \in Accounts : cache[b] # NoEntry => cache[b] \in Nat
      BY <1>1, Versions
    <3> QED
      BY <1>2, <1>3, <2>1, <3>1, <3>3, <3>4 DEF NothingNewer
  <2>3. SawRefusal'
    BY <1>2, <1>3, <2>1 DEF ExpiryInv, SawRefusal
  <2> QED
    BY <2>2, <2>3 DEF ExpiryInv
<1>15. ASSUME (\E a \in Accounts : Expire(a) \/ Revoke(a)) \/ UNCHANGED vars
       PROVE  ExpiryInv'
  <2>1. UNCHANGED <<pc, acct, tok, bearer, cache, cred>> /\ live' \subseteq live
    BY <1>15 DEF Expire, Revoke, vars, callVars, cacheVars, accountVars
  <2> QED
    BY <2>1 DEF ExpiryInv, NothingNewer, SawRefusal
<1> QED
  BY <1>4, <1>5, <1>6, <1>8, <1>9, <1>10, <1>11, <1>12, <1>13, <1>14, <1>15
     DEF Next, CallerNext

(* No caller and no cache entry is ahead of the stored login, and a caller *)
(* that reports an answer as expired asked with a bearer GitHub refuses,   *)
(* still when it comes to quarantine the account.                          *)
THEOREM ExpiryInvariant == Spec => []ExpiryInv
<1>1. LockInv /\ ExpiryInv /\ [Next]_vars => ExpiryInv'
  BY ExpiryStep
<1> QED
  BY <1>1, ExpiryInit, LockCorrect, PTL DEF Spec

(* An answer takes a login GitHub accepts out of the pool only if it was   *)
(* asked for with a bearer older than the login: never for a 403 about     *)
(* something else, whoever shared, cached, dropped or renewed the bearer.  *)
THEOREM WorkingLoginsAreKept == Spec => WorkingLoginsStay
<1>1. LockInv /\ ExpiryInv /\ [Next]_vars =>
        [\A c \in Callers :
           pc[c] = "expired" /\ pc'[c] = "idle" /\ <<acct[c], cred[acct[c]]>> \in live
             => bearer[c] < cred[acct[c]]]_vars
  <2> SUFFICES ASSUME LockInv, ExpiryInv, NEW c \in Callers, pc[c] = "expired",
                      <<acct[c], cred[acct[c]]>> \in live
               PROVE  bearer[c] < cred[acct[c]]
    OBVIOUS
  <2>1. acct[c] \in Accounts /\ bearer[c] \in Nat /\ cred[acct[c]] \in Nat
    BY Versions DEF LockInv
  <2>2. bearer[c] <= cred[acct[c]]
    BY DEF ExpiryInv, NothingNewer
  <2>3. bearer[c] # cred[acct[c]]
    BY DEF ExpiryInv, SawRefusal
  <2> QED
    BY <2>1, <2>2, <2>3
<1> QED
  BY <1>1, ExpiryInvariant, LockCorrect, PTL DEF Spec, WorkingLoginsStay

----------------------------------------------------------------------------
(* bearer_for is a single flight.                                          *)

\* Nobody but the one that exchanges makes an entry usable.
LEMMA NothingToShareStep ==
  ASSUME LockInv, LockInv', NothingToShare, [Next]_vars
  PROVE  NothingToShare'
<1> USE DEF LockInv, TokenTypeOK
<1>1. ASSUME NEW c \in Callers, ExchangeStores(c) PROVE NothingToShare'
  <2>1. /\ pc[c] = "exchange" /\ pc'[c] = "send" /\ acct' = acct
        /\ \A d \in Callers : pc'[d] = "exchange" => pc[d] = "exchange"
        /\ \A a \in Accounts \ {acct[c]} : Hit(a)' <=> Hit(a)
    BY <1>1 DEF ExchangeStores, LeaveTo, Hit
  <2>2. \A d \in Callers : pc'[d] = "exchange" => acct[d] # acct[c]
    BY <2>1, OneHolder DEF OneExchange
  <2> QED
    BY <2>1, <2>2 DEF NothingToShare
<1>2. ASSUME NEW c \in Callers, TakeLock(c) \/ WokenMiss(c) PROVE NothingToShare'
  <2>1. /\ ~Hit(acct[c]) /\ UNCHANGED <<acct, cache, fresh>>
        /\ \A d \in Callers \ {c} : pc'[d] = pc[d]
    BY <1>2 DEF TakeLock, WokenMiss, cacheVars
  <2> QED
    BY <2>1 DEF NothingToShare, Hit
<1>3. ASSUME NEW c \in Callers,
             WokenHit(c) \/ ExchangeRejected(c) \/ ExchangeUnavailable(c) \/ Cancel(c)
      PROVE  NothingToShare'
  <2>1. /\ acct' = acct /\ \A d \in Callers : pc'[d] = "exchange" => pc[d] = "exchange"
        /\ \A a \in Accounts : Hit(a)' => Hit(a)
    BY <1>3 DEF WokenHit, ExchangeRejected, ExchangeUnavailable, Cancel, LeaveTo, Hit,
       cacheVars
  <2> QED
    BY <2>1 DEF NothingToShare
<1>4. ASSUME NEW c \in Callers,
             \/ \E a \in Accounts : Load(c, a)
             \/ FromCache(c) \/ SendAnswered(c) \/ SendForbidden(c)
             \/ SendRefused(c) \/ Quarantine(c)
      PROVE  NothingToShare'
  <2>1. /\ pc'[c] # "exchange" /\ \A a \in Accounts : Hit(a)' => Hit(a)
        /\ \A d \in Callers \ {c} : pc'[d] = pc[d] /\ acct'[d] = acct[d]
    BY <1>4 DEF Load, FromCache, SendAnswered, SendForbidden, SendRefused, Quarantine,
       Hit, cacheVars
  <2> QED
    BY <2>1 DEF NothingToShare
<1>5. ASSUME (\E a \in Accounts : Expire(a) \/ Revoke(a) \/ Relogin(a)) \/ UNCHANGED vars
      PROVE  NothingToShare'
  <2>1. UNCHANGED <<pc, acct>> /\ \A a \in Accounts : Hit(a)' => Hit(a)
    BY <1>5 DEF Expire, Revoke, Relogin, vars, callVars, cacheVars, Hit
  <2> QED
    BY <2>1 DEF NothingToShare
<1> QED
  BY <1>1, <1>2, <1>3, <1>4, <1>5 DEF Next, CallerNext

LEMMA NothingToShareAlways == Spec => []NothingToShare
<1>1. Init => NothingToShare
  BY DEF Init, NothingToShare
<1>2. LockInv /\ LockInv' /\ NothingToShare /\ [Next]_vars => NothingToShare'
  BY NothingToShareStep
<1> QED
  BY <1>1, <1>2, LockCorrect, PTL DEF Spec

\* What a step of one caller looks like from outside.
LEMMA OneMoves ==
  ASSUME TokenTypeOK, NEW c \in Callers,
         \A d \in Callers \ {c} :
            /\ bearer'[d] = bearer[d]
            /\ pc'[d] = pc[d] \/ (pc[d] \in {"waiting", "woken"} /\ pc'[d] = "woken")
  PROVE  /\ Stages' = [Stages EXCEPT ![c] = Stage(pc'[c])]
         /\ Given' = [Given EXCEPT ![c] = IF pc'[c] = "send" THEN bearer'[c] ELSE NoEntry]
         /\ Stages[c] = Stage(pc[c])
<1>1. \A d \in Callers \ {c} : /\ Stage(pc'[d]) = Stage(pc[d])
                               /\ pc'[d] = "send" <=> pc[d] = "send"
  BY DEF Stage
<1> QED
  BY <1>1 DEF Stages, Given

\* A caller that comes away without a bearer.
LEMMA NothingGiven ==
  ASSUME TokenTypeOK, NEW c \in Callers, pc[c] # "send",
         Given' = [Given EXCEPT ![c] = NoEntry]
  PROVE  Given' = Given
  BY DEF Given

LEMMA OthersAtLock ==
  ASSUME TokenTypeOK, NEW c \in Callers, NEW p \in {"idle", "refused", "send"},
         LeaveTo(c, p)
  PROVE  /\ pc'[c] = p
         /\ \A d \in Callers \ {c} :
              pc'[d] = pc[d] \/ (pc[d] \in {"waiting", "woken"} /\ pc'[d] = "woken")
  BY DEF LeaveTo, IsFirst, Waiters, TokenTypeOK

LEMMA FlightStep ==
  ASSUME LockInv, LockInv', NothingToShare, [Next]_vars
  PROVE  [Flight!Next]_(Flight!flightVars)
<1> USE DEF LockInv
<1>1. ASSUME NEW c \in Callers, NEW a \in Accounts, Load(c, a) PROVE Flight!Next
  <2>1. /\ pc[c] = "idle" /\ pc'[c] = "loaded" /\ acct' = [acct EXCEPT ![c] = a]
        /\ UNCHANGED <<bearer, cache, fresh>>
        /\ \A d \in Callers \ {c} : pc'[d] = pc[d]
    BY <1>1 DEF Load, TokenTypeOK, cacheVars
  <2>2. /\ Stages' = [Stages EXCEPT ![c] = "asks"] /\ Stages[c] = "away"
        /\ Given' = [Given EXCEPT ![c] = NoEntry]
    BY <2>1, OneMoves DEF Stage
  <2>3. Given' = Given /\ Usable' = Usable
    BY <2>1, <2>2, NothingGiven DEF Usable, Hit
  <2>4. Flight!Ask(c, a)
    BY <2>1, <2>2, <2>3 DEF Flight!Ask
  <2> QED
    BY <2>4 DEF Flight!Next
<1>2. ASSUME NEW c \in Callers, FromCache(c) \/ WokenHit(c) PROVE Flight!Next
  <2>1. /\ pc[c] \in {"loaded", "woken"} /\ pc'[c] = "send" /\ Hit(acct[c])
        /\ bearer' = [bearer EXCEPT ![c] = cache[acct[c]]]
        /\ UNCHANGED <<acct, cache, fresh>>
        /\ \A d \in Callers \ {c} :
             pc'[d] = pc[d] \/ (pc[d] \in {"waiting", "woken"} /\ pc'[d] = "woken")
    BY <1>2, OthersAtLock DEF FromCache, WokenHit, TokenTypeOK, cacheVars
  <2>2. /\ Usable' = Usable /\ Usable[acct[c]] = cache[acct[c]]
        /\ cache[acct[c]] # NoEntry
    BY <2>1 DEF Usable, Hit, TokenTypeOK
  <2>3. /\ Stages' = [Stages EXCEPT ![c] = "has"] /\ Stages[c] = "asks"
        /\ Given' = [Given EXCEPT ![c] = cache[acct[c]]]
    BY <2>1, OneMoves DEF Stage, TokenTypeOK
  <2>4. Flight!Share(c)
    BY <2>1, <2>2, <2>3 DEF Flight!Share
  <2> QED
    BY <2>4 DEF Flight!Next
<1>3. ASSUME NEW c \in Callers, TakeLock(c) \/ WokenMiss(c)
      PROVE  [Flight!Next]_(Flight!flightVars)
  <2>1. /\ pc[c] \in {"loaded", "woken"} /\ pc'[c] \in {"exchange", "waiting"}
        /\ ~Hit(acct[c]) /\ UNCHANGED <<acct, bearer, cache, fresh>>
        /\ \A d \in Callers \ {c} : pc'[d] = pc[d]
    BY <1>3 DEF TakeLock, WokenMiss, TokenTypeOK, cacheVars
  <2>2. Usable' = Usable /\ Usable[acct[c]] = NoEntry
    BY <2>1 DEF Usable, Hit, TokenTypeOK
  <2>3. /\ Stages' = [Stages EXCEPT ![c] = Stage(pc'[c])] /\ Stages[c] = "asks"
        /\ Given' = [Given EXCEPT ![c] = NoEntry]
    BY <2>1, OneMoves DEF Stage
  <2>4. Given' = Given
    BY <2>1, <2>3, NothingGiven
  <2>5. CASE pc'[c] = "exchange"
    <3>1. \A d \in Callers : Stages[d] = "flies" => pc[d] = "exchange"
      BY DEF Stages, Stage
    <3>2. \A d \in Callers : pc[d] = "exchange" => acct[d] # acct[c]
      <4>1. OneExchange'
        BY OneHolder, PTL
      <4> QED
        BY <2>1, <2>5, <4>1 DEF OneExchange
    <3>3. Flight!Fly(c)
      BY <2>1, <2>2, <2>3, <2>4, <2>5, <3>1, <3>2 DEF Flight!Fly, Stage
    <3> QED
      BY <3>3 DEF Flight!Next
  <2>6. CASE pc'[c] = "waiting"
    <3>1. Stages' = Stages
      BY <2>3, <2>6 DEF Stage, Stages
    <3> QED
      BY <2>1, <2>2, <2>4, <3>1 DEF Flight!flightVars
  <2> QED
    BY <2>1, <2>5, <2>6
<1>4. ASSUME NEW c \in Callers, ExchangeStores(c) PROVE Flight!Next
  <2>1. /\ pc[c] = "exchange" /\ pc'[c] = "send" /\ acct' = acct
        /\ bearer' = [bearer EXCEPT ![c] = tok[c]]
        /\ cache' = [cache EXCEPT ![acct[c]] = tok[c]]
        /\ fresh' \in {fresh \cup {acct[c]}, fresh \ {acct[c]}}
        /\ \A d \in Callers \ {c} :
             pc'[d] = pc[d] \/ (pc[d] \in {"waiting", "woken"} /\ pc'[d] = "woken")
    BY <1>4, OthersAtLock DEF ExchangeStores
  <2>2. acct[c] \in Accounts /\ tok[c] \in Creds /\ tok[c] # NoEntry
    BY NoEntryAssumption DEF TokenTypeOK, Creds
  <2>3. ~Hit(acct[c])
    BY <2>1 DEF NothingToShare
  <2>4. Usable' = Usable \/ Usable' = [Usable EXCEPT ![acct[c]] = tok[c]]
    <3>1. \A a \in Accounts \ {acct[c]} : cache'[a] = cache[a] /\ (Hit(a)' <=> Hit(a))
      BY <2>1 DEF Hit, TokenTypeOK
    <3>2. CASE acct[c] \in fresh'
      <4>1. Hit(acct[c])' /\ cache'[acct[c]] = tok[c]
        BY <2>1, <2>2, <3>2 DEF Hit, TokenTypeOK
      <4> QED
        BY <2>1, <2>2, <3>1, <4>1 DEF Usable
    <3>3. CASE acct[c] \notin fresh'
      <4>1. ~Hit(acct[c])'
        BY <2>1, <3>3 DEF Hit
      <4> QED
        BY <2>1, <2>2, <2>3, <3>1, <4>1 DEF Usable
    <3> QED
      BY <3>2, <3>3
  <2>5. /\ Stages' = [Stages EXCEPT ![c] = "has"] /\ Stages[c] = "flies"
        /\ Given' = [Given EXCEPT ![c] = tok[c]]
    BY <2>1, OneMoves DEF Stage, TokenTypeOK
  <2>6. Flight!Land(c, tok[c])
    BY <2>1, <2>4, <2>5 DEF Flight!Land
  <2> QED
    BY <2>2, <2>6 DEF Flight!Next
<1>5. ASSUME NEW c \in Callers,
             ExchangeRejected(c) \/ ExchangeUnavailable(c) \/ Cancel(c)
      PROVE  Flight!Next
  <2>1. /\ pc[c] \in {"waiting", "woken", "exchange"} /\ pc'[c] \in {"idle", "refused"}
        /\ acct' = acct /\ \A d \in Callers \ {c} : bearer'[d] = bearer[d]
        /\ \A d \in Callers \ {c} :
             pc'[d] = pc[d] \/ (pc[d] \in {"waiting", "woken"} /\ pc'[d] = "woken")
    BY <1>5, OthersAtLock DEF ExchangeRejected, ExchangeUnavailable, Cancel, Forget,
       TokenTypeOK
  <2>2. Usable' = Usable
    <3>1. CASE ExchangeRejected(c)
      <4>1. ~Hit(acct[c])
        BY <3>1 DEF ExchangeRejected, NothingToShare
      <4> QED
        BY <3>1, <4>1 DEF ExchangeRejected, Usable, Hit, TokenTypeOK
    <3>2. CASE ExchangeUnavailable(c) \/ Cancel(c)
      BY <3>2 DEF ExchangeUnavailable, Cancel, cacheVars, Usable, Hit
    <3> QED
      BY <1>5, <3>1, <3>2
  <2>3. /\ Stages' = [Stages EXCEPT ![c] = "away"] /\ Stages[c] \in {"asks", "flies"}
        /\ Given' = [Given EXCEPT ![c] = NoEntry]
    BY <2>1, OneMoves DEF Stage
  <2>4. Given' = Given
    BY <2>1, <2>3, NothingGiven
  <2>5. Flight!GiveUp(c)
    BY <2>1, <2>2, <2>3, <2>4 DEF Flight!GiveUp
  <2> QED
    BY <2>5 DEF Flight!Next
<1>6. ASSUME NEW c \in Callers, SendAnswered(c) \/ SendForbidden(c) \/ SendRefused(c)
      PROVE  Flight!Next
  <2>1. /\ pc[c] = "send" /\ pc'[c] \in {"idle", "expired"} /\ acct' = acct
        /\ \A d \in Callers \ {c} : bearer'[d] = bearer[d] /\ pc'[d] = pc[d]
        /\ cache' = cache \/ cache' = [cache EXCEPT ![acct[c]] = NoEntry]
        /\ fresh' = fresh
    BY <1>6 DEF SendAnswered, SendForbidden, SendRefused, Forget, TokenTypeOK, cacheVars
  <2>2. Usable' = Usable \/ Usable' = [Usable EXCEPT ![acct[c]] = NoEntry]
    BY <2>1 DEF Usable, Hit, TokenTypeOK
  <2>3. /\ Stages' = [Stages EXCEPT ![c] = "away"] /\ Stages[c] = "has"
        /\ Given' = [Given EXCEPT ![c] = NoEntry]
    BY <2>1, OneMoves DEF Stage
  <2>4. Flight!Done(c)
    BY <2>1, <2>2, <2>3 DEF Flight!Done
  <2> QED
    BY <2>4 DEF Flight!Next
<1>7. ASSUME NEW c \in Callers, Quarantine(c) PROVE UNCHANGED Flight!flightVars
  <2>1. /\ pc[c] \in {"refused", "expired"} /\ pc'[c] = "idle" /\ UNCHANGED <<acct, cache, fresh>>
        /\ \A d \in Callers \ {c} : bearer'[d] = bearer[d] /\ pc'[d] = pc[d]
    BY <1>7 DEF Quarantine, Forget, TokenTypeOK, cacheVars
  <2>2. /\ Stages' = [Stages EXCEPT ![c] = "away"] /\ Stages[c] = "away"
        /\ Given' = [Given EXCEPT ![c] = NoEntry]
    BY <2>1, OneMoves DEF Stage
  <2>3. Given' = Given /\ Stages' = Stages
    BY <2>1, <2>2, NothingGiven DEF Stages
  <2> QED
    BY <2>1, <2>3 DEF Flight!flightVars, Usable, Hit
<1>8. ASSUME NEW a \in Accounts, Expire(a) PROVE Flight!Next
  <2>1. Flight!Lapse(a)
    BY <1>8 DEF Expire, callVars, Flight!Lapse, Stages, Given, Usable, Hit
  <2> QED
    BY <2>1 DEF Flight!Next
<1>9. ASSUME (\E a \in Accounts : Revoke(a) \/ Relogin(a)) \/ UNCHANGED vars
      PROVE  UNCHANGED Flight!flightVars
  BY <1>9 DEF Revoke, Relogin, vars, callVars, cacheVars, Flight!flightVars, Stages,
     Given, Usable, Hit
<1> QED
  BY <1>1, <1>2, <1>3, <1>4, <1>5, <1>6, <1>7, <1>8, <1>9 DEF Next, CallerNext

(* The cache with its lock table, queues, cancellations and reclamation    *)
(* implements a single flight per account: one exchange at a time, none    *)
(* while there is a bearer to share, and no other bearer given to anybody. *)
THEOREM ImplementsSingleFlight == Spec => IsSingleFlight
<1>1. Init => Flight!Init
  BY DEF Init, Flight!Init, Stages, Stage, Given, Usable, Hit
<1>2. LockInv /\ LockInv' /\ NothingToShare /\ [Next]_vars
        => [Flight!Next]_(Flight!flightVars)
  BY FlightStep
<1> QED
  BY <1>1, <1>2, LockCorrect, NothingToShareAlways, PTL
     DEF Spec, IsSingleFlight, Flight!Spec
============================================================================
