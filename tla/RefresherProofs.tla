--------------------------- MODULE RefresherProofs ---------------------------
(***************************************************************************)
(* Theorems about the refresher's lock, for any replicas, accounts, list   *)
(* limit and times.                                                        *)
(***************************************************************************)
EXTENDS Refresher, TLAPS

LEMMA RefresherInit == Init => RefresherInv
  BY NoAccountAssumption, RefresherAssumption
  DEF Init, RefresherInv, RefresherTypeOK, LocksExclude, HoldsLock, Unlocked,
      Checking

\* A replica ends its validation, or drops accounts from its list.
LEMMA DoneStep ==
  ASSUME RefresherInv, NEW p \in Replicas, UNCHANGED lock, Done(p),
         list' \in [Replicas -> SUBSET Accounts],
         \A q \in Replicas : q # p => list'[q] = list[q],
         pooled' \subseteq Accounts, due' \subseteq Accounts,
         older' \subseteq Accounts \X Accounts, dead' \subseteq Accounts,
         relogins' \in 0..MaxRelogins
  PROVE  RefresherInv'
<1> USE NoAccountAssumption, RefresherAssumption
    DEF RefresherInv, RefresherTypeOK, Done, Checking
<1>1. RefresherTypeOK'
  <2>1. /\ cur' \in [Replicas -> Accounts \cup {NoAccount}]
        /\ elapsed' \in [Replicas -> 0..MaxCheck]
        /\ open' \subseteq Replicas
    OBVIOUS
  <2> QED
    BY <2>1
<1>2. \A q \in Replicas : Checking(q)' => q # p /\ Checking(q)
  OBVIOUS
<1>3. \A q \in Replicas : q # p => (Unlocked(q)' <=> Unlocked(q)) /\ cur'[q] = cur[q]
  BY DEF Unlocked
<1>4. LocksExclude'
  BY <1>2, <1>3 DEF LocksExclude
<1>5. HoldsLock'
  BY <1>2, <1>3 DEF HoldsLock
<1> QED
  BY <1>1, <1>4, <1>5

\* A replica begins to validate: with the lock it found free, or without.
LEMMA BeginStep ==
  ASSUME RefresherInv, NEW p \in Replicas, NEW a \in Accounts,
         Lock(p, a) \/ FailOpen(p, a)
  PROVE  RefresherInv'
<1> USE NoAccountAssumption, RefresherAssumption
    DEF RefresherInv, RefresherTypeOK, Take, Checking, accountVars
<1>1. CASE Lock(p, a)
  <2>1. RefresherTypeOK'
    BY <1>1 DEF Lock
  <2>2. \A q \in Replicas : cur[q] = a => Unlocked(q)
    BY <1>1 DEF Lock, HoldsLock, Unlocked
  <2>3. \A q \in Replicas : q # p => (Unlocked(q)' <=> Unlocked(q)) /\ cur'[q] = cur[q]
    BY <1>1 DEF Lock, Unlocked
  <2>4. cur'[p] = a /\ elapsed'[p] = 0 /\ lock' = [lock EXCEPT ![a] = 0]
    BY <1>1 DEF Lock
  <2>5. LocksExclude'
    BY <2>2, <2>3, <2>4 DEF LocksExclude
  <2>6. HoldsLock'
    BY <1>1, <2>2, <2>3, <2>4 DEF Lock, HoldsLock
  <2> QED
    BY <2>1, <2>5, <2>6
<1>2. CASE FailOpen(p, a)
  <2>1. lock' \in [Accounts -> 0..(LockTTL - 1) \cup {NoLock}]
    BY <1>2 DEF FailOpen
  <2>2. RefresherTypeOK'
    BY <1>2, <2>1 DEF FailOpen
  <2>3. \A q \in Replicas : q # p => (Unlocked(q)' <=> Unlocked(q)) /\ cur'[q] = cur[q]
    BY <1>2 DEF FailOpen, Unlocked
  <2>4. Unlocked(p)'
    BY <1>2 DEF FailOpen, Unlocked
  <2>5. LocksExclude'
    BY <2>3, <2>4 DEF LocksExclude
  <2>6. \A b \in Accounts : lock[b] # NoLock => lock'[b] = lock[b]
    BY <1>2 DEF FailOpen
  <2>7. HoldsLock'
    <3> SUFFICES ASSUME NEW q \in Replicas, Checking(q)', ~Unlocked(q)'
                 PROVE  lock'[cur'[q]] = elapsed'[q]
      BY DEF HoldsLock
    <3>1. q # p /\ cur'[q] = cur[q] /\ elapsed'[q] = elapsed[q] /\ ~Unlocked(q)
      BY <1>2, <2>3, <2>4 DEF FailOpen
    <3>2. lock[cur[q]] = elapsed[q] /\ cur[q] \in Accounts /\ elapsed[q] \in Nat
      BY <3>1 DEF HoldsLock
    <3> QED
      BY <2>6, <3>1, <3>2
  <2> QED
    BY <2>2, <2>5, <2>7
<1> QED
  BY <1>1, <1>2

\* Locks and validations grow old together.
LEMMA RefresherTick ==
  ASSUME RefresherInv, Tick PROVE RefresherInv'
<1> USE NoAccountAssumption, RefresherAssumption
    DEF RefresherInv, RefresherTypeOK, Checking, Tick, accountVars
<1>1. RefresherTypeOK'
  OBVIOUS
<1>2. \A p \in Replicas : Checking(p) => (Unlocked(p) => Unlocked(p)')
  BY DEF Unlocked
<1>3. LocksExclude'
  BY <1>2 DEF LocksExclude
<1>4. HoldsLock'
  <2> SUFFICES ASSUME NEW p \in Replicas, cur[p] # NoAccount, ~Unlocked(p)'
               PROVE  lock'[cur[p]] = elapsed'[p]
    BY DEF HoldsLock
  <2>1. elapsed'[p] = elapsed[p] + 1 /\ elapsed[p] + 1 < LockTTL /\ ~Unlocked(p)
    BY DEF Unlocked
  <2>2. cur[p] \in Accounts /\ lock[cur[p]] = elapsed[p]
    BY <2>1 DEF HoldsLock
  <2>3. lock[cur[p]] # NoLock /\ lock[cur[p]] # LockTTL - 1
    BY <2>1, <2>2
  <2> QED
    BY <2>1, <2>2, <2>3
<1> QED
  BY <1>1, <1>3, <1>4

\* A step of the accounts, which no replica takes part in.
LEMMA OutsideStep ==
  ASSUME RefresherInv, UNCHANGED <<lock, list, cur, elapsed, open>>,
         pooled' \subseteq Accounts, due' \subseteq Accounts,
         older' \subseteq Accounts \X Accounts, dead' \subseteq Accounts,
         relogins' \in 0..MaxRelogins
  PROVE  RefresherInv'
  BY DEF RefresherInv, RefresherTypeOK, LocksExclude, HoldsLock, Unlocked, Checking

LEMMA RefresherStep ==
  ASSUME RefresherInv, [Next]_vars PROVE RefresherInv'
<1> USE RefresherAssumption DEF RefresherInv, RefresherTypeOK
<1>1. ASSUME NEW p \in Replicas, ReplicaNext(p) PROVE RefresherInv'
  <2>1. CASE Scan(p)
    <3>1. PICK rows \in SUBSET Accounts : list' = [list EXCEPT ![p] = rows]
      BY <2>1 DEF Scan, DueRows
    <3> QED
      BY <2>1, <3>1 DEF Scan, accountVars, LocksExclude, HoldsLock, Unlocked,
         Checking
  <2>2. ASSUME NEW a \in Accounts, Lock(p, a) \/ FailOpen(p, a) PROVE RefresherInv'
    BY <2>2, BeginStep
  <2>3. ASSUME NEW a \in Accounts, Skip(p, a) PROVE RefresherInv'
    BY <2>3 DEF Skip, accountVars, LocksExclude, HoldsLock, Unlocked, Checking
  <2>4. CASE Healthy(p)
    <3>1. cur[p] \in Accounts
      BY <2>4 DEF Healthy, Checking
    <3>2. older' \subseteq Accounts \X Accounts /\ due' \subseteq Accounts
      BY <2>4, <3>1 DEF Healthy
    <3> QED
      BY <2>4, <3>2, DoneStep DEF Healthy
  <2>5. CASE Expired(p) \/ Transient(p)
    BY <2>5, DoneStep DEF Expired, Transient, accountVars
  <2>6. CASE Fail(p)
    <3>1. /\ list' \in [Replicas -> SUBSET Accounts]
          /\ \A q \in Replicas : q # p => list'[q] = list[q]
      BY <2>6 DEF Fail
    <3> QED
      BY <2>6, <3>1, DoneStep DEF Fail, accountVars
  <2> QED
    BY <1>1, <2>1, <2>2, <2>3, <2>4, <2>5, <2>6 DEF ReplicaNext
<1>2. ASSUME NEW a \in Accounts, BecomeDue(a) \/ LoginDies(a) \/ TakeOut(a)
      PROVE  RefresherInv'
  BY <1>2, OutsideStep DEF BecomeDue, LoginDies, TakeOut, replicaVars
<1>3. ASSUME NEW a \in Accounts, Relogin(a) PROVE RefresherInv'
  BY <1>3, OutsideStep DEF Relogin, replicaVars
<1>4. CASE UNCHANGED vars
  BY <1>4, OutsideStep DEF vars, accountVars, replicaVars
<1> QED
  BY <1>1, <1>2, <1>3, <1>4, RefresherTick DEF Next

(* Whatever the lock's lifetime and however long validations take: while a *)
(* replica is within the lifetime of the lock it took, the lock in Redis   *)
(* is its own, so two replicas on one account are never both within it.    *)
THEOREM LocksHoldForTheirTime == Spec => []RefresherInv
<1>1. RefresherInv /\ [Next]_vars => RefresherInv'
  BY RefresherStep
<1> QED
  BY <1>1, RefresherInit, PTL DEF Spec

(* Where no validation outlasts the lock and Redis does not fail, no two   *)
(* replicas validate one account at once; the shipped 30 s against twice   *)
(* 20 s do not meet the condition.                                         *)
THEOREM LongLocksExclude ==
  ASSUME MaxCheck < LockTTL
  PROVE  Spec => [](\A p, q \in Replicas \ open :
                      Checking(p) /\ cur[p] = cur[q] => p = q)
<1>1. RefresherInv => \A p, q \in Replicas \ open :
                        Checking(p) /\ cur[p] = cur[q] => p = q
  BY RefresherAssumption
     DEF RefresherInv, RefresherTypeOK, LocksExclude, Unlocked
<1> QED
  BY <1>1, LocksHoldForTheirTime, PTL
============================================================================
