----------------------------- MODULE PgTxProofs -----------------------------
(***************************************************************************)
(* The transactions of the store, for any number of connections, users and *)
(* accounts: which of them are the single steps AccountPool takes them     *)
(* for, and what they can deadlock over.                                   *)
(***************************************************************************)
EXTENDS PgTx, AccountPoolProofs, FiniteSetTheorems

LEMMA PgTxInit == Init => PgTxInv
<1> SUFFICES ASSUME Init PROVE PgTxInv
  OBVIOUS
<1> USE DEF Init
<1>1. PgTxTypeOK
  BY PoolTypeInit DEF PgTxTypeOK
<1>2. Exclusive /\ ClaimHolds /\ ReleaseHolds
  BY DEF Exclusive, LocksAccount, LocksBinding, ClaimHolds, ReleaseHolds, ClaimAt, ReleaseAt
<1>3. LoginHolds
  <2>1. \A a \in Accounts : BeingCompleted(a) = {}
    BY DEF BeingCompleted, LoginAt
  <2> QED
    BY <2>1, FS_EmptySet, MaxLoginsAssumption DEF LoginHolds, LoginAt, PoolInit
<1>4. OneToOne
  BY DEF PoolInit, OneToOne
<1> QED
  BY <1>1, <1>2, <1>3, <1>4 DEF PgTxInv

----------------------------------------------------------------------------
(* How many transactions complete a login of an account.                   *)

LEMMA CompletersAreFinite ==
  ASSUME NEW a
  PROVE  IsFiniteSet(BeingCompleted(a)) /\ Cardinality(BeingCompleted(a)) \in Nat
<1>1. BeingCompleted(a) \in SUBSET Txs
  BY DEF BeingCompleted
<1> QED
  BY <1>1, TxsAssumption, FS_Subset, FS_CardinalityType

\* No new completer, no login less.
LEMMA LoginsStay ==
  ASSUME PgTxTypeOK, LoginHolds,
         \A a \in Accounts : pending'[a] \in Nat /\ pending'[a] >= pending[a],
         \A t \in Txs : at'[t] \in LoginAt => at[t] \in LoginAt /\ acct'[t] = acct[t]
  PROVE  LoginHolds'
<1>1. ASSUME NEW a \in Accounts PROVE Cardinality(BeingCompleted(a)') <= pending'[a]
  <2>1. BeingCompleted(a)' \in SUBSET BeingCompleted(a)
    BY DEF BeingCompleted, LoginAt
  <2>2. pending[a] \in Nat /\ Cardinality(BeingCompleted(a)') \in Nat
    BY <2>1, CompletersAreFinite, FS_Subset, FS_CardinalityType, MaxLoginsAssumption
       DEF PgTxTypeOK, PoolTypeOK
  <2>3. Cardinality(BeingCompleted(a)') <= Cardinality(BeingCompleted(a))
    BY <2>1, CompletersAreFinite, FS_Subset
  <2> QED
    BY <2>2, <2>3, CompletersAreFinite DEF LoginHolds
<1> QED
  BY <1>1 DEF LoginHolds, BeingCompleted, LoginAt

----------------------------------------------------------------------------
(* Steps inside a transaction.  Each takes at most the locks that are free. *)

LEMMA ClaimKeeps ==
  ASSUME PgTxInv, NEW t \in Txs, NEW u \in Users, NEW a \in Accounts, Claim(t, u, a)
  PROVE  PgTxInv'
<1> USE DEF PgTxInv
<1>1. /\ at' = [at EXCEPT ![t] = "insert"] /\ user' = [user EXCEPT ![t] = u]
      /\ acct' = [acct EXCEPT ![t] = a] /\ UNCHANGED <<storeVars, saw>>
      /\ at[t] = "none" /\ status[a] = "idle" /\ AccountFree(a)
  BY DEF Claim, Enter
<1>2. PgTxTypeOK'
  BY <1>1 DEF PgTxTypeOK, PoolTypeOK, storeVars, ClaimAt, ReleaseAt, LoginAt
<1>3. Exclusive'
  BY <1>1 DEF Exclusive, PgTxTypeOK, LocksAccount, LocksBinding, AccountFree, ClaimAt
<1>4. ClaimHolds'
  BY <1>1 DEF ClaimHolds, PgTxTypeOK, BoundToOther, storeVars, ClaimAt
<1>5. ReleaseHolds'
  BY <1>1 DEF ReleaseHolds, PgTxTypeOK, storeVars, ReleaseAt
<1>6. LoginHolds'
  BY <1>1, LoginsStay, MaxLoginsAssumption
     DEF PgTxTypeOK, PoolTypeOK, storeVars, LoginAt
<1>7. OneToOne'
  BY <1>1 DEF OneToOne, storeVars
<1> QED
  BY <1>2, <1>3, <1>4, <1>5, <1>6, <1>7

LEMMA ReleaseKeeps ==
  ASSUME PgTxInv, NEW t \in Txs,
         (\E u \in Users : Release(t, u)) \/ DeleteBinding(t)
  PROVE  PgTxInv'
<1> USE DEF PgTxInv
<1>1. PICK w \in {"delete", "update"}, u \in Users, a \in Accounts \cup {NoAccount} :
        /\ at' = [at EXCEPT ![t] = w] /\ user' = [user EXCEPT ![t] = u]
        /\ acct' = [acct EXCEPT ![t] = a] /\ UNCHANGED <<storeVars, saw>>
        /\ at[t] \in {"none", "delete"} /\ binding[u] # NoAccount
        /\ w = "update" => a = binding[u] /\ BindingFree(u)
  BY DEF Release, DeleteBinding, Enter, ReleaseHolds, ReleaseAt, PgTxTypeOK, PoolTypeOK
<1>2. PgTxTypeOK'
  BY <1>1 DEF PgTxTypeOK, PoolTypeOK, storeVars, ClaimAt, ReleaseAt, LoginAt
<1>3. Exclusive'
  BY <1>1 DEF Exclusive, PgTxTypeOK, LocksAccount, LocksBinding, BindingFree, ClaimAt
<1>4. ClaimHolds'
  BY <1>1 DEF ClaimHolds, PgTxTypeOK, BoundToOther, storeVars, ClaimAt
<1>5. ReleaseHolds'
  BY <1>1 DEF ReleaseHolds, PgTxTypeOK, storeVars, ReleaseAt
<1>6. LoginHolds'
  BY <1>1, LoginsStay, MaxLoginsAssumption
     DEF PgTxTypeOK, PoolTypeOK, storeVars, LoginAt
<1>7. OneToOne'
  BY <1>1 DEF OneToOne, storeVars
<1> QED
  BY <1>2, <1>3, <1>4, <1>5, <1>6, <1>7

LEMMA MoveKeeps ==
  ASSUME PgTxInv, NEW t \in Txs,
         InsertBinding(t) \/ UpdateAccount(t) \/ RecheckAccount(t) \/ LockLogin(t)
  PROVE  PgTxInv'
<1> USE DEF PgTxInv
<1>1. PICK w \in {"claimed", "recheck", "released", "idled", "loggedin"} :
        /\ at' = [at EXCEPT ![t] = w] /\ UNCHANGED <<storeVars, user, acct, saw>>
        /\ w = "claimed" => /\ at[t] = "insert" /\ BindingFree(user[t])
                            /\ ~BoundToOther(acct[t], user[t])
        /\ w \in {"recheck", "released", "idled"} => at[t] \in {"update", "recheck"}
        /\ w = "released" => status[acct[t]] # "bound"
        /\ w = "idled" => status[acct[t]] = "bound" /\ AccountFree(acct[t])
        /\ w = "loggedin" => at[t] = "login" /\ AccountFree(acct[t])
  BY DEF InsertBinding, UpdateAccount, RecheckAccount, LockLogin, Move
<1>2. PgTxTypeOK'
  BY <1>1 DEF PgTxTypeOK, PoolTypeOK, storeVars, ClaimAt, ReleaseAt, LoginAt
<1>3. Exclusive'
  BY <1>1 DEF Exclusive, PgTxTypeOK, LocksAccount, LocksBinding, AccountFree,
     BindingFree, ClaimAt
<1>4. ClaimHolds'
  BY <1>1 DEF ClaimHolds, PgTxTypeOK, BoundToOther, storeVars, ClaimAt
<1>5. ReleaseHolds'
  BY <1>1 DEF ReleaseHolds, PgTxTypeOK, storeVars, ReleaseAt
<1>6. LoginHolds'
  BY <1>1, LoginsStay, MaxLoginsAssumption
     DEF PgTxTypeOK, PoolTypeOK, storeVars, LoginAt
<1>7. OneToOne'
  BY <1>1 DEF OneToOne, storeVars
<1> QED
  BY <1>2, <1>3, <1>4, <1>5, <1>6, <1>7

LEMMA LoginKeeps ==
  ASSUME PgTxInv, NEW t \in Txs, NEW a \in Accounts, Login(t, a)
  PROVE  PgTxInv'
<1> USE DEF PgTxInv
<1>1. /\ at' = [at EXCEPT ![t] = "login"] /\ user' = [user EXCEPT ![t] = NoUser]
      /\ acct' = [acct EXCEPT ![t] = a] /\ saw' = [saw EXCEPT ![t] = Bound(a)]
      /\ UNCHANGED storeVars /\ at[t] = "none"
      /\ Cardinality(BeingCompleted(a)) < pending[a]
  BY DEF Login, Enter
<1>2. PgTxTypeOK'
  <2>1. PICK b \in BOOLEAN : saw' = [saw EXCEPT ![t] = b]
    BY <1>1, Zenon DEF Bound
  <2>2. saw' \in [Txs -> BOOLEAN]
    BY <2>1 DEF PgTxTypeOK
  <2> QED
    BY <1>1, <2>2 DEF PgTxTypeOK, PoolTypeOK, storeVars, ClaimAt, ReleaseAt, LoginAt
<1>3. Exclusive'
  BY <1>1 DEF Exclusive, PgTxTypeOK, LocksAccount, LocksBinding, ClaimAt
<1>4. ClaimHolds'
  BY <1>1 DEF ClaimHolds, PgTxTypeOK, BoundToOther, storeVars, ClaimAt
<1>5. ReleaseHolds'
  BY <1>1 DEF ReleaseHolds, PgTxTypeOK, storeVars, ReleaseAt
<1>6. LoginHolds'
  <2>1. ASSUME NEW b \in Accounts PROVE Cardinality(BeingCompleted(b)') <= pending'[b]
    <3>1. b # a => BeingCompleted(b)' = BeingCompleted(b)
      BY <1>1 DEF BeingCompleted, PgTxTypeOK, LoginAt
    <3>2. b = a => BeingCompleted(b)' = BeingCompleted(a) \cup {t}
      BY <1>1 DEF BeingCompleted, PgTxTypeOK, LoginAt
    <3>3. Cardinality(BeingCompleted(a) \cup {t}) <= Cardinality(BeingCompleted(a)) + 1
      BY CompletersAreFinite, FS_AddElement
    <3>4. pending' = pending /\ pending[a] \in Nat
      BY <1>1, MaxLoginsAssumption DEF PgTxTypeOK, PoolTypeOK, storeVars
    <3>5. CASE b = a
      <4>1. Cardinality(BeingCompleted(a)) + 1 <= pending[a]
        BY <1>1, <3>4, CompletersAreFinite
      <4>2. Cardinality(BeingCompleted(a) \cup {t}) \in Nat
        BY CompletersAreFinite, FS_AddElement, FS_CardinalityType
      <4>3. BeingCompleted(b)' = BeingCompleted(a) \cup {t} /\ pending'[b] = pending[a]
        BY <3>2, <3>4, <3>5
      <4>4. Cardinality(BeingCompleted(a)) \in Nat
        BY CompletersAreFinite
      <4>5. Cardinality(BeingCompleted(a) \cup {t}) <= pending[a]
        BY <3>3, <3>4, <4>1, <4>2, <4>4
      <4> QED
        BY <4>3, <4>5
    <3>6. CASE b # a
      BY <3>1, <3>4, <3>6 DEF LoginHolds
    <3> QED
      BY <3>5, <3>6
  <2> QED
    BY <1>1, <2>1 DEF LoginHolds, PgTxTypeOK, BeingCompleted, LoginAt
<1>7. OneToOne'
  BY <1>1 DEF OneToOne, storeVars
<1> QED
  BY <1>2, <1>3, <1>4, <1>5, <1>6, <1>7

LEMMA RollbackKeeps ==
  ASSUME PgTxInv, NEW t \in Txs, Rollback(t)
  PROVE  PgTxInv'
<1> USE DEF PgTxInv, Rollback, End
<1>2. PgTxTypeOK'
  BY DEF PgTxTypeOK, PoolTypeOK, storeVars, ClaimAt, ReleaseAt, LoginAt
<1>3. Exclusive'
  BY DEF Exclusive, PgTxTypeOK, LocksAccount, LocksBinding, ClaimAt
<1>4. ClaimHolds'
  BY DEF ClaimHolds, PgTxTypeOK, BoundToOther, storeVars, ClaimAt
<1>5. ReleaseHolds'
  BY DEF ReleaseHolds, PgTxTypeOK, storeVars, ReleaseAt
<1>6. LoginHolds'
  BY LoginsStay, MaxLoginsAssumption DEF PgTxTypeOK, PoolTypeOK, storeVars, LoginAt
<1>7. OneToOne'
  BY DEF OneToOne, storeVars
<1> QED
  BY <1>2, <1>3, <1>4, <1>5, <1>6, <1>7

----------------------------------------------------------------------------
(* Commits.                                                                *)

LEMMA CommitClaimIsCall ==
  ASSUME PgTxInv, NEW t \in Txs, CommitClaim(t)
  PROVE  ClaimIdleAccount(user[t], acct[t]) /\ user[t] \in Users /\ acct[t] \in Accounts
BY DEF PgTxInv, ClaimHolds, CommitClaim, ClaimIdleAccount, ClaimAt

LEMMA CommitReleaseIsCall ==
  ASSUME PgTxInv, NEW t \in Txs, CommitRelease(t), ~LateRelease(t)
  PROVE  ReleaseBinding(user[t]) /\ user[t] \in Users
<1>1. user[t] \in Users /\ acct[t] = binding[user[t]] /\ acct[t] \in Accounts
  BY DEF PgTxInv, ReleaseHolds, CommitRelease, ReleaseAt, PgTxTypeOK, PoolTypeOK
<1>2. CASE at[t] = "idled"
  BY <1>1, <1>2 DEF PgTxInv, ReleaseHolds, CommitRelease, ReleaseAt, ReleaseBinding,
     PgTxTypeOK, PoolTypeOK
<1>3. CASE at[t] = "released" /\ status[acct[t]] # "bound"
  BY <1>1, <1>3 DEF PgTxInv, CommitRelease, ReleaseBinding, PgTxTypeOK, PoolTypeOK
<1> QED
  BY <1>1, <1>2, <1>3 DEF CommitRelease, LateRelease

LEMMA CommitLoginIsCall ==
  ASSUME PgTxInv, NEW t \in Txs, CommitLogin(t), ~LateLogin(t)
  PROVE  CompleteDeviceSession(acct[t]) /\ acct[t] \in Accounts
<1>1. acct[t] \in Accounts /\ saw[t] = Bound(acct[t])
  BY DEF PgTxInv, LoginHolds, CommitLogin, LateLogin, LoginAt
<1>2. pending[acct[t]] > 0
  <2>1. t \in BeingCompleted(acct[t])
    BY DEF BeingCompleted, CommitLogin, LoginAt
  <2>2. Cardinality(BeingCompleted(acct[t])) # 0
    BY <2>1, CompletersAreFinite, FS_EmptySet
  <2>3. pending[acct[t]] \in Nat
    BY <1>1, MaxLoginsAssumption DEF PgTxInv, PgTxTypeOK, PoolTypeOK
  <2> QED
    BY <1>1, <2>2, <2>3, CompletersAreFinite DEF PgTxInv, LoginHolds
<1>3. (IF saw[t] THEN "bound" ELSE "idle") = (IF Bound(acct[t]) THEN "bound" ELSE "idle")
  BY <1>1
<1> QED
  BY <1>1, <1>2, <1>3 DEF CommitLogin, CompleteDeviceSession

LEMMA CommitClaimKeeps ==
  ASSUME PgTxInv, NEW t \in Txs, CommitClaim(t)
  PROVE  PgTxInv'
<1> USE DEF PgTxInv
<1>1. /\ user[t] \in Users /\ acct[t] \in Accounts /\ at[t] = "claimed"
      /\ status' = [status EXCEPT ![acct[t]] = "bound"]
      /\ binding' = [binding EXCEPT ![user[t]] = acct[t]]
      /\ pending' = pending
      /\ End({t})
  BY DEF CommitClaim, ClaimHolds, ClaimAt
<1>2. /\ \A s \in Txs \ {t} : at'[s] = at[s] /\ user'[s] = user[s]
                              /\ acct'[s] = acct[s] /\ saw'[s] = saw[s]
      /\ at'[t] = "none"
  BY <1>1 DEF End
<1>3. /\ \A s \in Txs \ {t} : ~LocksAccount(s, acct[t]) /\ ~LocksBinding(s, user[t])
      /\ \A s \in Txs \ {t} : acct[s] = acct[t] => at[s] \notin ClaimAt \cup {"idled"}
      /\ \A s \in Txs \ {t} : user[s] = user[t] =>
            at[s] \notin {"claimed", "update", "recheck", "idled", "released"}
  BY <1>1 DEF Exclusive, LocksAccount, LocksBinding, ClaimAt
<1>4. PgTxTypeOK'
  BY <1>1 DEF End, PgTxTypeOK, PoolTypeOK, RowStatus, ClaimAt, ReleaseAt, LoginAt
<1>5. Exclusive'
  BY <1>2 DEF Exclusive, LocksAccount, LocksBinding, ClaimAt
<1>6. ClaimHolds'
  BY <1>1, <1>2, <1>3 DEF ClaimHolds, BoundToOther, ClaimAt, PgTxTypeOK, PoolTypeOK
<1>7. ReleaseHolds'
  <2> SUFFICES ASSUME NEW s \in Txs \ {t}, at[s] \in ReleaseAt
      PROVE /\ user[s] \in Users /\ binding'[user[s]] # NoAccount
            /\ at[s] # "delete" => acct[s] = binding'[user[s]]
            /\ at[s] = "idled" => status'[acct[s]] = "bound"
            /\ MaxLogins = 0 /\ at[s] = "released" => status'[acct[s]] # "bound"
    BY <1>2 DEF ReleaseHolds, ReleaseAt
  <2>1. user[s] \in Users /\ binding[user[s]] # NoAccount
        /\ (at[s] # "delete" => acct[s] = binding[user[s]] /\ user[s] # user[t]
                                /\ acct[s] # acct[t] /\ acct[s] \in Accounts)
    BY <1>1, <1>3 DEF ReleaseHolds, ReleaseAt, ClaimHolds, ClaimAt, BoundToOther,
       PgTxTypeOK, PoolTypeOK
  <2> QED
    BY <1>1, <2>1, NoAccountAssumption DEF ReleaseHolds, PgTxTypeOK, PoolTypeOK
<1>8. LoginHolds'
  BY <1>1, <1>2, LoginsStay, MaxLoginsAssumption DEF PgTxTypeOK, PoolTypeOK, LoginAt
<1>9. OneToOne'
  BY <1>1, CommitClaimIsCall, OneToOneStep
     DEF PgTxTypeOK, PoolNext
<1> QED
  BY <1>4, <1>5, <1>6, <1>7, <1>8, <1>9

LEMMA CommitReleaseKeeps ==
  ASSUME PgTxInv, NEW t \in Txs, CommitRelease(t)
  PROVE  PgTxInv'
<1> USE DEF PgTxInv
<1> DEFINE S == {t} \cup {s \in Txs : at[s] = "delete" /\ user[s] = user[t]}
<1>1. /\ user[t] \in Users /\ acct[t] = binding[user[t]] /\ acct[t] \in Accounts
      /\ at[t] \in {"idled", "released"}
      /\ status' = IF at[t] = "idled" THEN [status EXCEPT ![acct[t]] = "idle"] ELSE status
      /\ binding' = [binding EXCEPT ![user[t]] = NoAccount]
      /\ pending' = pending
      /\ End(S)
  BY DEF CommitRelease, ReleaseHolds, ReleaseAt, PgTxTypeOK, PoolTypeOK
<1>2. /\ \A s \in Txs \ S : at'[s] = at[s] /\ user'[s] = user[s]
                            /\ acct'[s] = acct[s] /\ saw'[s] = saw[s]
      /\ \A s \in S : at'[s] = "none"
      /\ t \in S
  BY <1>1 DEF End
<1>3. \A s \in Txs \ {t} : ~LocksBinding(s, user[t])
  BY <1>1 DEF Exclusive, LocksBinding
<1>4. PgTxTypeOK'
  BY <1>1 DEF End, PgTxTypeOK, PoolTypeOK, RowStatus, ClaimAt, ReleaseAt, LoginAt
<1>5. Exclusive'
  BY <1>2 DEF Exclusive, LocksAccount, LocksBinding, ClaimAt
<1>6. ClaimHolds'
  BY <1>1, <1>2, NoAccountAssumption
     DEF ClaimHolds, BoundToOther, ClaimAt, PgTxTypeOK, PoolTypeOK
<1>7. ReleaseHolds'
  <2> SUFFICES ASSUME NEW s \in Txs \ S, at[s] \in ReleaseAt
      PROVE /\ user[s] \in Users /\ binding'[user[s]] # NoAccount
            /\ at[s] # "delete" => acct[s] = binding'[user[s]]
            /\ at[s] = "idled" => status'[acct[s]] = "bound"
            /\ MaxLogins = 0 /\ at[s] = "released" => status'[acct[s]] # "bound"
    BY <1>2 DEF ReleaseHolds, ReleaseAt
  <2>1. user[s] \in Users /\ user[s] # user[t] /\ binding[user[s]] # NoAccount
        /\ (at[s] # "delete" => acct[s] = binding[user[s]] /\ acct[s] \in Accounts)
    BY <1>3 DEF ReleaseHolds, ReleaseAt, LocksBinding, PgTxTypeOK, PoolTypeOK
  <2>2. at[s] # "delete" => acct[s] # acct[t]
    BY <1>1, <2>1 DEF OneToOne
  <2> QED
    BY <1>1, <2>1, <2>2 DEF ReleaseHolds, PgTxTypeOK, PoolTypeOK
<1>8. LoginHolds'
  BY <1>1, <1>2, LoginsStay, MaxLoginsAssumption DEF PgTxTypeOK, PoolTypeOK, LoginAt
<1>9. OneToOne'
  BY <1>1 DEF OneToOne, PgTxTypeOK, PoolTypeOK
<1> QED
  BY <1>4, <1>5, <1>6, <1>7, <1>8, <1>9

LEMMA CommitLoginKeeps ==
  ASSUME PgTxInv, NEW t \in Txs, CommitLogin(t)
  PROVE  PgTxInv'
<1> USE DEF PgTxInv
<1> DEFINE c == acct[t]
<1>1. PICK w \in {"bound", "idle"} : status' = [status EXCEPT ![c] = w]
  BY DEF CommitLogin
<1>2. /\ at[t] = "loggedin" /\ c \in Accounts /\ binding' = binding
      /\ pending' = [pending EXCEPT ![c] = @ - 1]
      /\ End({t})
  BY DEF CommitLogin, LoginHolds, LoginAt
<1>3. /\ \A s \in Txs \ {t} : at'[s] = at[s] /\ user'[s] = user[s]
                              /\ acct'[s] = acct[s] /\ saw'[s] = saw[s]
      /\ at'[t] = "none"
  BY <1>2 DEF End
<1>4. \A s \in Txs \ {t} : acct[s] = c => at[s] \notin ClaimAt \cup {"idled"}
  BY <1>2 DEF Exclusive, LocksAccount, ClaimAt
<1>5. pending[c] \in Nat /\ pending[c] <= MaxLogins
      /\ IsFiniteSet(BeingCompleted(c)) /\ Cardinality(BeingCompleted(c)) \in Nat
      /\ Cardinality(BeingCompleted(c)) <= pending[c]
  BY <1>2, CompletersAreFinite, MaxLoginsAssumption
     DEF PgTxTypeOK, PoolTypeOK, LoginHolds
<1>6. t \in BeingCompleted(c) /\ Cardinality(BeingCompleted(c)) > 0
  <2>1. t \in BeingCompleted(c)
    BY <1>2 DEF BeingCompleted, LoginAt
  <2> QED
    BY <1>5, <2>1, FS_EmptySet
<1>7. PgTxTypeOK'
  <2>1. pending' \in [Accounts -> 0..MaxLogins]
    BY <1>2, <1>5, <1>6, MaxLoginsAssumption DEF PgTxTypeOK, PoolTypeOK
  <2> QED
    BY <1>1, <1>2, <2>1 DEF End, PgTxTypeOK, PoolTypeOK, RowStatus, ClaimAt, ReleaseAt,
       LoginAt
<1>8. Exclusive'
  BY <1>3 DEF Exclusive, LocksAccount, LocksBinding, ClaimAt
<1>9. ClaimHolds'
  BY <1>1, <1>2, <1>3, <1>4 DEF ClaimHolds, BoundToOther, ClaimAt, PgTxTypeOK, PoolTypeOK
<1>10. ReleaseHolds'
  <2>1. MaxLogins # 0
    BY <1>5, <1>6, MaxLoginsAssumption
  <2> QED
    BY <1>1, <1>2, <1>3, <1>4, <2>1 DEF ReleaseHolds, ReleaseAt, ClaimAt, PgTxTypeOK,
       PoolTypeOK
<1>11. LoginHolds'
  <2>1. ASSUME NEW b \in Accounts PROVE Cardinality(BeingCompleted(b)') <= pending'[b]
    <3>1. CASE b = c
      <4>1. BeingCompleted(b)' = BeingCompleted(c) \ {t}
        BY <1>2, <1>3, <3>1 DEF BeingCompleted, LoginAt
      <4>2. Cardinality(BeingCompleted(c) \ {t}) = Cardinality(BeingCompleted(c)) - 1
        BY <1>5, <1>6, FS_RemoveElement
      <4>3. pending'[b] = pending[c] - 1
        BY <1>2, <3>1 DEF PgTxTypeOK, PoolTypeOK
      <4> QED
        BY <1>5, <4>1, <4>2, <4>3
    <3>2. CASE b # c
      <4>1. BeingCompleted(b)' = BeingCompleted(b)
        BY <1>2, <1>3, <3>2 DEF BeingCompleted, LoginAt
      <4> QED
        BY <1>2, <3>2, <4>1 DEF LoginHolds, PgTxTypeOK, PoolTypeOK
    <3> QED
      BY <3>1, <3>2
  <2> QED
    BY <1>2, <1>3, <2>1 DEF LoginHolds, LoginAt, BeingCompleted
<1>12. OneToOne'
  BY <1>2 DEF OneToOne
<1> QED
  BY <1>7, <1>8, <1>9, <1>10, <1>11, <1>12

\* One UPDATE of a row no transaction has locked.
LEMMA WriteIsCall ==
  ASSUME NEW a \in Accounts, Write(a) \/ DropLogin(a)
  PROVE  PoolNext
BY DEF Write, DropLogin, PoolNext

LEMMA WriteKeeps ==
  ASSUME PgTxInv, NEW a \in Accounts, Write(a) \/ DropLogin(a)
  PROVE  PgTxInv'
<1> USE DEF PgTxInv
<1>1. UNCHANGED txVars /\ UNCHANGED binding
  BY DEF Write, DropLogin, AddAccount, QuarantineAccount, SetAccountStatus,
     CreateDeviceSession, DropDeviceSession
<1>2. \A b \in Accounts \ {a} : status'[b] = status[b]
  BY DEF PgTxTypeOK, PoolTypeOK, Write, DropLogin, AddAccount, QuarantineAccount,
     SetAccountStatus, CreateDeviceSession, DropDeviceSession
<1>3. \/ AccountFree(a) /\ (status'[a] = "bound" => status[a] = "bound")
      \/ status'[a] = status[a]
  BY DEF PgTxTypeOK, PoolTypeOK, Write, DropLogin, AddAccount, QuarantineAccount,
     SetAccountStatus, OperatorStatus, CreateDeviceSession, DropDeviceSession
<1>4. PoolTypeOK'
  BY WriteIsCall, PoolTypeStep DEF PgTxTypeOK
<1>5. PgTxTypeOK'
  BY <1>1, <1>4 DEF PgTxTypeOK, txVars
<1>6. Exclusive'
  BY <1>1 DEF Exclusive, LocksAccount, LocksBinding, txVars
<1>7. ClaimHolds'
  BY <1>1, <1>2, <1>3 DEF ClaimHolds, AccountFree, LocksAccount, BoundToOther, ClaimAt, txVars
<1>8. ReleaseHolds'
  <2> SUFFICES ASSUME NEW t \in Txs, at[t] \in ReleaseAt
      PROVE /\ at[t] = "idled" => status'[acct[t]] = "bound"
            /\ MaxLogins = 0 /\ at[t] = "released" => status'[acct[t]] # "bound"
    BY <1>1 DEF ReleaseHolds, txVars
  <2>1. at[t] # "delete" => acct[t] \in Accounts
    BY DEF ReleaseHolds, ReleaseAt, PgTxTypeOK, PoolTypeOK
  <2> QED
    BY <1>2, <1>3, <2>1 DEF ReleaseHolds, ReleaseAt, AccountFree, LocksAccount
<1>9. LoginHolds'
  <2>1. CASE Write(a)
    <3>1. \A b \in Accounts : pending'[b] \in Nat /\ pending'[b] >= pending[b]
      BY <2>1, MaxLoginsAssumption DEF PgTxTypeOK, PoolTypeOK, Write, AddAccount,
         QuarantineAccount, SetAccountStatus, CreateDeviceSession
    <3> QED
      BY <1>1, <3>1, LoginsStay DEF txVars
  <2>2. CASE DropLogin(a)
    <3>1. BeingCompleted(a) = BeingCompleted(a)' /\ UNCHANGED <<at, acct>>
      BY <1>1 DEF BeingCompleted, txVars
    <3>2. /\ pending' = [pending EXCEPT ![a] = @ - 1]
          /\ Cardinality(BeingCompleted(a)) < pending[a]
          /\ pending[a] \in Nat
      BY <2>2, MaxLoginsAssumption DEF DropLogin, DropDeviceSession, PgTxTypeOK, PoolTypeOK
    <3>3. ASSUME NEW b \in Accounts PROVE Cardinality(BeingCompleted(b)) <= pending'[b]
      <4>1. CASE b = a
        <5>1. Cardinality(BeingCompleted(a)) <= pending[a] - 1
          BY <3>2, CompletersAreFinite
        <5> QED
          BY <3>2, <4>1, <5>1 DEF PgTxTypeOK, PoolTypeOK
      <4>2. CASE b # a
        BY <3>2, <4>2 DEF LoginHolds, PgTxTypeOK, PoolTypeOK
      <4> QED
        BY <4>1, <4>2
    <3> QED
      BY <3>1, <3>3 DEF LoginHolds, BeingCompleted
  <2> QED
    BY <2>1, <2>2
<1>10. OneToOne'
  BY <1>1 DEF OneToOne
<1> QED
  BY <1>5, <1>6, <1>7, <1>8, <1>9, <1>10

----------------------------------------------------------------------------
LEMMA PgTxStep == PgTxInv /\ [Next]_vars => PgTxInv'
<1> SUFFICES ASSUME PgTxInv, [Next]_vars PROVE PgTxInv'
  OBVIOUS
<1>1. CASE UNCHANGED vars
  BY <1>1 DEF vars, storeVars, txVars, PgTxInv, PgTxTypeOK, PoolTypeOK, Exclusive,
     LocksAccount, LocksBinding, ClaimHolds, BoundToOther, ReleaseHolds, LoginHolds,
     BeingCompleted, OneToOne
<1> QED
  BY <1>1, ClaimKeeps, ReleaseKeeps, MoveKeeps, LoginKeeps, RollbackKeeps,
     CommitClaimKeeps, CommitReleaseKeeps, CommitLoginKeeps, WriteKeeps DEF Next

(* Row locks, and what the transactions hold by them.                      *)
THEOREM PgTxInvariant == Spec => []PgTxInv
  BY PgTxInit, PgTxStep, PTL DEF Spec

----------------------------------------------------------------------------
LEMMA StepIsCallOrLate ==
  ASSUME PgTxInv, [Next]_vars
  PROVE  \/ PoolNext \/ UNCHANGED storeVars
         \/ \E t \in Txs : LateLogin(t) \/ LateRelease(t)
<1>1. ASSUME NEW t \in Txs, CommitClaim(t) PROVE PoolNext
  BY <1>1, CommitClaimIsCall DEF PoolNext
<1>2. ASSUME NEW t \in Txs, CommitRelease(t), ~LateRelease(t) PROVE PoolNext
  BY <1>2, CommitReleaseIsCall DEF PoolNext
<1>3. ASSUME NEW t \in Txs, CommitLogin(t), ~LateLogin(t) PROVE PoolNext
  BY <1>3, CommitLoginIsCall DEF PoolNext
<1>4. ASSUME NEW t \in Txs,
             \/ \E u \in Users : Release(t, u) \/ \E a \in Accounts : Claim(t, u, a)
             \/ InsertBinding(t) \/ DeleteBinding(t) \/ UpdateAccount(t)
             \/ RecheckAccount(t) \/ (\E a \in Accounts : Login(t, a))
             \/ LockLogin(t) \/ Rollback(t)
      PROVE UNCHANGED storeVars
  BY <1>4 DEF Release, Claim, InsertBinding, DeleteBinding, UpdateAccount,
     RecheckAccount, Login, LockLogin, Rollback
<1>5. CASE UNCHANGED vars
  BY <1>5 DEF vars
<1> QED
  BY <1>1, <1>2, <1>3, <1>4, <1>5, WriteIsCall DEF Next

(* Each transaction is one step of AccountPool at its commit, or one of the *)
(* two ways in which a login and another transaction miss each other.      *)
THEOREM TransactionsAreSteps == Spec => TransactionsAreCalls
<1>1. PgTxInv /\ [Next]_vars =>
        [PoolNext \/ \E t \in Txs : LateLogin(t) \/ LateRelease(t)]_storeVars
  BY StepIsCallOrLate
<1> QED
  BY <1>1, PgTxInvariant, PTL DEF Spec, TransactionsAreCalls

(* Without device logins AccountPool is exactly what the transactions do:  *)
(* the theorems about it, and the modules built on it, lose nothing by     *)
(* taking each repository method as one step.                              *)
THEOREM TransactionsImplementPool ==
  ASSUME MaxLogins = 0
  PROVE  Spec => PoolSpec
<1>1. Init => PoolInit
  BY DEF Init
<1>2. PgTxInv /\ [Next]_vars => [PoolNext]_storeVars
  <2> SUFFICES ASSUME PgTxInv, [Next]_vars, NEW t \in Txs, LateLogin(t) \/ LateRelease(t)
      PROVE FALSE
    BY StepIsCallOrLate
  <2>1. ~LateRelease(t)
    BY DEF LateRelease, PgTxInv, ReleaseHolds, ReleaseAt
  <2>2. at[t] \notin LoginAt
    <3> SUFFICES ASSUME at[t] \in LoginAt PROVE FALSE
      OBVIOUS
    <3>1. acct[t] \in Accounts /\ pending[acct[t]] = 0
          /\ Cardinality(BeingCompleted(acct[t])) <= pending[acct[t]]
      BY DEF PgTxInv, LoginHolds, PgTxTypeOK, PoolTypeOK
    <3>2. t \in BeingCompleted(acct[t])
      BY DEF BeingCompleted
    <3> QED
      BY <3>1, <3>2, CompletersAreFinite, FS_EmptySet
  <2> QED
    BY <2>1, <2>2 DEF LateLogin, CommitLogin, LoginAt
<1> QED
  BY <1>1, <1>2, PgTxInvariant, PTL DEF Spec, PoolSpec

\* Claims take idle accounts and releases free bound ones, also at the commit.
LEMMA OutStep ==
  ASSUME PgTxInv, [Next]_vars, NEW a \in Accounts, OutOfPool(a), status'[a] # status[a]
  PROVE  \/ OperatorStep(a) \/ QuarantineAccount(a)
         \/ \E t \in Txs : acct[t] = a /\ CommitLogin(t)
<1> USE DEF PgTxInv, PgTxTypeOK, PoolTypeOK, OutOfPool
<1>1. ASSUME NEW t \in Txs, CommitClaim(t) PROVE FALSE
  BY <1>1 DEF CommitClaim, ClaimHolds, ClaimAt
<1>2. ASSUME NEW t \in Txs, CommitRelease(t) PROVE FALSE
  BY <1>2 DEF CommitRelease, ReleaseHolds, ReleaseAt
<1>3. ASSUME NEW t \in Txs, CommitLogin(t) PROVE acct[t] = a
  BY <1>3 DEF CommitLogin, LoginHolds, LoginAt
<1>4. ASSUME NEW b \in Accounts, Write(b) \/ DropLogin(b)
      PROVE  OperatorStep(a) \/ QuarantineAccount(a)
  <2>1. ASSUME AddAccount(b) \/ CreateDeviceSession(b) PROVE OperatorStep(b) /\ b = a
    BY <2>1 DEF AddAccount, CreateDeviceSession, OperatorStep
  <2>2. ASSUME NEW s \in OperatorStatus, SetAccountStatus(b, s)
        PROVE  OperatorStep(b) /\ b = a
    BY <2>2 DEF SetAccountStatus, OperatorStep
  <2>3. ASSUME QuarantineAccount(b) PROVE b = a
    BY <2>3 DEF QuarantineAccount
  <2>4. ~DropLogin(b)
    BY DEF DropLogin, DropDeviceSession
  <2> QED
    BY <1>4, <2>1, <2>2, <2>3, <2>4 DEF Write
<1>5. status' # status
  OBVIOUS
<1> QED
  BY <1>1, <1>2, <1>3, <1>4, <1>5
     DEF Next, Claim, InsertBinding, Release, DeleteBinding, UpdateAccount,
         RecheckAccount, Login, LockLogin, Rollback, storeVars, vars

(* No claim or release undoes a quarantine, a disabling or the start of a  *)
(* login that it has not seen.                                             *)
THEOREM OverlapKeepsOut == Spec => TakenOutStaysOut
<1>1. PgTxInv /\ [Next]_vars =>
        [\A a \in Accounts :
           OutOfPool(a) /\ status'[a] # status[a]
             => \/ OperatorStep(a) \/ QuarantineAccount(a)
                \/ \E t \in Txs : acct[t] = a /\ CommitLogin(t)]_vars
  BY OutStep
<1> QED
  BY <1>1, PgTxInvariant, PTL DEF Spec, TakenOutStaysOut

\* The commits and writes that can take the two records of an account apart.
LEMMA PartStep ==
  ASSUME PgTxInv, [Next]_vars, NEW a \in Accounts, ~Torn(a), Torn(a)'
  PROVE  \/ \E t \in Txs : CommitClaim(t) /\ binding[user[t]] = a
         \/ \E t \in Txs : acct[t] = a /\ (LateLogin(t) \/ LateRelease(t))
         \/ Bound(a) /\ (AddAccount(a) \/ SetAccountStatus(a, "idle"))
<1> USE DEF PgTxInv, PgTxTypeOK, PoolTypeOK, Torn, Bound
<1>1. ASSUME NEW t \in Txs, CommitClaim(t) PROVE binding[user[t]] = a
  <2>1. user[t] \in Users /\ acct[t] \in Accounts
    BY <1>1 DEF CommitClaim, ClaimHolds, ClaimAt
  <2>2. acct[t] # a
    <3>1. ASSUME acct[t] = a PROVE status'[a] = "bound" /\ binding'[user[t]] = a
      BY <1>1, <2>1, <3>1 DEF CommitClaim
    <3> QED
      BY <2>1, <3>1
  <2>3. status'[a] = status[a]
    BY <1>1, <2>2 DEF CommitClaim
  <2>4. \A u \in Users : binding'[u] = IF u = user[t] THEN acct[t] ELSE binding[u]
    BY <1>1, <2>1 DEF CommitClaim
  <2> QED
    BY <2>2, <2>3, <2>4
<1>2. ASSUME NEW t \in Txs, CommitRelease(t) PROVE acct[t] = a /\ LateRelease(t)
  <2>1. /\ user[t] \in Users /\ acct[t] = binding[user[t]] /\ acct[t] \in Accounts
        /\ at[t] = "idled" => status[acct[t]] = "bound"
    BY <1>2 DEF CommitRelease, ReleaseHolds, ReleaseAt
  <2>2. \A u \in Users : binding'[u] = IF u = user[t] THEN NoAccount ELSE binding[u]
    BY <1>2, <2>1 DEF CommitRelease
  <2>3. acct[t] = a
    <3> SUFFICES ASSUME acct[t] # a PROVE FALSE
      OBVIOUS
    <3>1. status'[a] = status[a]
      BY <1>2 DEF CommitRelease
    <3>2. Bound(a)' <=> Bound(a)
      BY <2>1, <2>2, NoAccountAssumption
    <3> QED
      BY <3>1, <3>2
  <2>4. ~Bound(a)'
    <3> SUFFICES ASSUME NEW u \in Users, binding'[u] = a PROVE FALSE
      OBVIOUS
    <3>1. u # user[t] /\ binding[u] = binding[user[t]]
      BY <2>1, <2>2, <2>3, NoAccountAssumption
    <3> QED
      BY <2>1, <3>1, NoAccountAssumption DEF OneToOne
  <2>5. at[t] = "released" /\ status[a] = "bound"
    BY <1>2, <2>3, <2>4 DEF CommitRelease
  <2> QED
    BY <1>2, <2>3, <2>5 DEF LateRelease
<1>3. ASSUME NEW t \in Txs, CommitLogin(t) PROVE acct[t] = a /\ LateLogin(t)
  <2>1. acct[t] \in Accounts /\ UNCHANGED binding
    BY <1>3 DEF CommitLogin, LoginHolds, LoginAt
  <2>2. acct[t] = a
    BY <1>3, <2>1 DEF CommitLogin
  <2>3. status'[a] = IF saw[t] THEN "bound" ELSE "idle"
    BY <1>3, <2>2 DEF CommitLogin
  <2>4. saw[t] # Bound(a)
    BY <2>1, <2>3
  <2> QED
    BY <1>3, <2>2, <2>4 DEF LateLogin
<1>4. ASSUME NEW b \in Accounts, Write(b) \/ DropLogin(b)
      PROVE  Bound(a) /\ (AddAccount(a) \/ SetAccountStatus(a, "idle"))
  <2>1. UNCHANGED binding
    BY <1>4 DEF Write, DropLogin, AddAccount, QuarantineAccount, SetAccountStatus,
       CreateDeviceSession, DropDeviceSession
  <2>2. status'[a] # status[a] /\ ((status'[a] = "idle" /\ Bound(a)) \/ status'[a] = "bound")
    BY <2>1
  <2>3. b = a /\ ~DropLogin(b) /\ ~QuarantineAccount(b) /\ ~CreateDeviceSession(b)
    BY <1>4, <2>2 DEF Write, DropLogin, AddAccount, QuarantineAccount, SetAccountStatus,
       CreateDeviceSession, DropDeviceSession
  <2>4. ASSUME NEW s \in OperatorStatus, SetAccountStatus(a, s) PROVE s = "idle"
    BY <2>2, <2>4 DEF SetAccountStatus, OperatorStatus
  <2>5. AddAccount(a) \/ SetAccountStatus(a, "idle")
    BY <1>4, <2>3, <2>4 DEF Write
  <2>6. status'[a] # "bound"
    BY <2>2, <2>5 DEF AddAccount, SetAccountStatus
  <2> QED
    BY <2>2, <2>5, <2>6
<1>5. ~UNCHANGED storeVars
  BY DEF storeVars
<1> QED
  BY <1>1, <1>2, <1>3, <1>4, <1>5
     DEF Next, Claim, InsertBinding, Release, DeleteBinding, UpdateAccount,
         RecheckAccount, Login, LockLogin, Rollback, vars

(* Status and binding of an account part in the four named ways only.      *)
THEOREM RecordsPartNowhereElse == Spec => RecordsPart
<1>1. PgTxInv /\ [Next]_vars =>
        [\A a \in Accounts :
           ~Torn(a) /\ Torn(a)'
             => \/ \E t \in Txs : CommitClaim(t) /\ binding[user[t]] = a
                \/ \E t \in Txs : acct[t] = a /\ (LateLogin(t) \/ LateRelease(t))
                \/ Bound(a) /\ (AddAccount(a) \/ SetAccountStatus(a, "idle"))]_vars
  BY PartStep
<1> QED
  BY <1>1, PgTxInvariant, PTL DEF Spec, RecordsPart

(* A wait cycle of any length goes through a release that waits for the    *)
(* account a claim has locked, and that account is idle and has a user.    *)
THEOREM DeadlocksNeedIdleBound == Spec => []DeadlockNeedsIdleBound
<1>1. PgTxInv => DeadlockNeedsIdleBound
  <2> SUFFICES ASSUME PgTxInv, NEW S \in SUBSET Txs, S # {},
                      \A t \in S : \E s \in S : WaitsFor(t, s)
      PROVE \E a \in Accounts : status[a] = "idle" /\ Bound(a)
    BY DEF DeadlockNeedsIdleBound
  <2>1. \A t \in S : at[t] \in {"insert", "delete", "recheck", "login"}
    BY DEF WaitsFor
  <2>2. \A t \in S : at[t] \in {"insert", "delete"} => \E s \in S : at[s] = "recheck"
    BY <2>1 DEF WaitsFor, LocksBinding
  <2>3. \A t \in S : at[t] \in {"recheck", "login"} =>
           \E s \in S : at[s] = "insert" /\ acct[s] = acct[t]
    BY <2>1 DEF WaitsFor, LocksAccount, ClaimAt
  <2>4. PICK t \in S : at[t] = "recheck"
    <3>1. PICK x \in S : TRUE
      OBVIOUS
    <3>2. CASE at[x] \in {"insert", "delete"}
      BY <2>2, <3>2
    <3>3. CASE at[x] \in {"recheck", "login"}
      BY <2>2, <2>3, <3>3
    <3> QED
      BY <2>1, <3>1, <3>2, <3>3
  <2>5. PICK s \in S : at[s] = "insert" /\ acct[s] = acct[t]
    BY <2>3, <2>4
  <2>6. status[acct[t]] = "idle" /\ acct[t] \in Accounts
    BY <2>5 DEF PgTxInv, ClaimHolds, ClaimAt
  <2>7. Bound(acct[t])
    BY <2>4 DEF PgTxInv, ReleaseHolds, ReleaseAt, Bound
  <2> QED
    BY <2>6, <2>7
<1> QED
  BY <1>1, PgTxInvariant, PTL
============================================================================
