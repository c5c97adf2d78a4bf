------------------------- MODULE DeviceLoginProofs -------------------------
(***************************************************************************)
(* Theorems about DeviceLogin, for any users, accounts and polls and any   *)
(* number of logins: its invariant, that accounts in the pool have a       *)
(* token, and that the device flow implements the account store.           *)
(***************************************************************************)
EXTENDS DeviceLogin, FiniteSetTheorems, TLAPS

LEMMA LoginInit == Init => LoginInv
  BY MaxSessionsAssumption
     DEF Init, LoginInv, LoginTypeOK, RowsHaveCodes, PollsHaveRows, OneRedeems,
         Sessions, NoSession

\* A row has an account once it has a status.
LEMMA RowOf ==
  ASSUME LoginInv, NEW s \in Sessions, session[s] # "none"
  PROVE  of[s] \in Accounts
BY DEF LoginInv, LoginTypeOK, RowsHaveCodes

LEMMA LoginPollStep ==
  ASSUME LoginInv, NEW p \in Polls,
         (\E s \in Sessions : PollStart(p, s)) \/ Answer(p) \/ PollAbort(p)
  PROVE  LoginInv'
<1> USE NoAccountAssumption
    DEF LoginInv, LoginTypeOK, RowsHaveCodes, PollsHaveRows, OneRedeems,
        accountVars, sessionVars
<1>1. \A s \in Sessions : s # NoSession
  BY MaxSessionsAssumption DEF Sessions, NoSession
<1>2. ASSUME NEW s \in Sessions, PollStart(p, s) PROVE LoginInv'
  BY <1>1, <1>2 DEF PollStart, IsNewest, Pending
<1>3. CASE PollPending(p)
  BY <1>1, <1>3 DEF PollPending, Return
<1>4. CASE PollGranted(p)
  <2>1. on[p] \in Sessions /\ session[on[p]] # "none"
    BY <1>4 DEF PollGranted
  <2>2. LoginTypeOK' /\ RowsHaveCodes' /\ PollsHaveRows'
    BY <1>4, <2>1 DEF PollGranted
  <2>3. OneRedeems'
    BY <1>4, <2>1 DEF PollGranted
  <2> QED
    BY <2>2, <2>3
<1>5. CASE PollError(p)
  <2>1. on[p] \in Sessions /\ session[on[p]] # "none"
    BY <1>5 DEF PollError
  <2>2. /\ code' \in [Sessions -> {"none", "waiting", "granted", "redeemed", "refused"}]
        /\ \A s \in Sessions : /\ code'[s] = "none" <=> code[s] = "none"
                               /\ code[s] = "redeemed" => code'[s] = "redeemed"
    BY <1>5, <2>1 DEF PollError
  <2> QED
    BY <1>5, <2>1, <2>2 DEF PollError
<1>6. CASE PollDeny(p)
  BY <1>1, <1>6 DEF PollDeny, Return
<1>7. CASE PollComplete(p)
  <2>1. on[p] \in Sessions /\ of[on[p]] \in Accounts
    BY <1>7, RowOf DEF PollComplete
  <2> QED
    BY <1>1, <1>7, <2>1 DEF PollComplete, Return
<1>8. CASE PollAbort(p)
  BY <1>1, <1>8 DEF PollAbort, Return
<1> QED
  BY <1>2, <1>3, <1>4, <1>5, <1>6, <1>7, <1>8 DEF Answer

LEMMA LoginStep == LoginInv /\ [Next]_vars => LoginInv'
<1> SUFFICES ASSUME LoginInv, [Next]_vars PROVE LoginInv'
  OBVIOUS
<1> USE NoAccountAssumption, OperatorSetsAssumption
    DEF LoginInv, LoginTypeOK, RowsHaveCodes, PollsHaveRows, OneRedeems,
        accountVars, sessionVars, pollVars
<1>1. ASSUME NEW s \in Sessions, NEW a \in Accounts, StartLogin(s, a)
      PROVE  LoginInv'
  BY <1>1 DEF StartLogin
<1>2. ASSUME NEW s \in Sessions, Lapse(s) PROVE LoginInv'
  BY <1>2 DEF Lapse
<1>3. ASSUME NEW s \in Sessions, Grant(s) \/ Refuse(s) PROVE LoginInv'
  BY <1>3 DEF Grant, Refuse
<1>4. ASSUME NEW a \in Accounts, Import(a) PROVE LoginInv'
  BY <1>4 DEF Import
<1>5. ASSUME NEW a \in Accounts, QuarantineAccount(a) \/ SetStatus(a)
      PROVE  LoginInv'
  BY <1>5 DEF QuarantineAccount, SetStatus
<1>6. ASSUME NEW u \in Users, NEW a \in Accounts, Claim(u, a) PROVE LoginInv'
  BY <1>6 DEF Claim
<1>7. ASSUME NEW u \in Users, Release(u) PROVE LoginInv'
  BY <1>7 DEF Release
<1>8. CASE UNCHANGED vars
  BY <1>8 DEF vars
<1> QED
  BY <1>1, <1>2, <1>3, <1>4, <1>5, <1>6, <1>7, <1>8, LoginPollStep DEF Next

(* Rows, codes and polls belong together, and a token given out is with    *)
(* one poll, for any number of logins and polls at once.                   *)
THEOREM LoginInvariant == Spec => []LoginInv
  BY LoginInit, LoginStep, PTL DEF Spec

----------------------------------------------------------------------------
(* Tokens.                                                                 *)

LEMMA TokenStep ==
  ASSUME "idle" \notin OperatorSets, LoginInv, PooledHasToken, [Next]_vars
  PROVE  PooledHasToken'
<1> USE DEF LoginInv, LoginTypeOK, PooledHasToken, accountVars, sessionVars
<1>1. ASSUME NEW s \in Sessions, NEW a \in Accounts, StartLogin(s, a)
      PROVE  PooledHasToken'
  BY <1>1 DEF StartLogin
<1>2. ASSUME NEW p \in Polls, PollComplete(p) PROVE PooledHasToken'
  BY <1>2 DEF PollComplete
<1>3. ASSUME NEW p \in Polls, ~PollComplete(p),
             (\E s \in Sessions : PollStart(p, s)) \/ Answer(p) \/ PollAbort(p)
      PROVE  PooledHasToken'
  BY <1>3 DEF PollStart, Answer, PollPending, PollGranted, PollError, PollDeny,
     PollAbort
<1>4. ASSUME NEW s \in Sessions, Lapse(s) \/ Grant(s) \/ Refuse(s)
      PROVE  PooledHasToken'
  BY <1>4 DEF Lapse, Grant, Refuse
<1>5. ASSUME NEW a \in Accounts, Import(a) \/ QuarantineAccount(a) \/ SetStatus(a)
      PROVE  PooledHasToken'
  <2>1. OperatorSets \subseteq {"disabled", "quarantined"}
    BY OperatorSetsAssumption
  <2> QED
    BY <1>5, <2>1 DEF Import, QuarantineAccount, SetStatus
<1>6. ASSUME NEW u \in Users, NEW a \in Accounts, Claim(u, a)
      PROVE  PooledHasToken'
  BY <1>6 DEF Claim
<1>7. ASSUME NEW u \in Users, Release(u) PROVE PooledHasToken'
  BY <1>7 DEF Release
<1>8. CASE UNCHANGED vars
  BY <1>8 DEF vars
<1> QED
  BY <1>1, <1>2, <1>3, <1>4, <1>5, <1>6, <1>7, <1>8 DEF Next

(* Unless the operator sets an account idle by hand, no login that is      *)
(* pending, denied, lost or abandoned puts an account without a token into *)
(* the pool.                                                               *)
THEOREM PoolHasTokens ==
  ASSUME "idle" \notin OperatorSets
  PROVE  Spec => []PooledHasToken
<1>1. Init => PooledHasToken
  BY DEF Init, PooledHasToken
<1>2. LoginInv /\ PooledHasToken /\ [Next]_vars => PooledHasToken'
  BY TokenStep
<1> QED
  BY <1>1, <1>2, LoginInvariant, PTL DEF Spec
----------------------------------------------------------------------------
(* The device flow implements the account store.                           *)

LEMMA SessionsFinite ==
  /\ IsFiniteSet(Sessions)
  /\ Cardinality(Sessions) = MaxSessions
BY MaxSessionsAssumption, FS_Interval DEF Sessions

LEMMA OpenFinite ==
  ASSUME NEW S \in SUBSET Sessions
  PROVE  /\ IsFiniteSet(S)
         /\ Cardinality(S) \in Nat
BY SessionsFinite, FS_Subset, FS_CardinalityType

\* A step that ends at most the login s is a stutter of the count, or one less.
LEMMA OneEnds ==
  ASSUME LoginInv, NEW s \in Sessions, session[s] # "none", UNCHANGED of,
         \A t \in Sessions \ {s} : Completable(t)' <=> Completable(t),
         Completable(s)' => Completable(s)
  PROVE  /\ Completable(s)' => UNCHANGED openLogins
         /\ ~Completable(s) => UNCHANGED openLogins
         /\ Completable(s) /\ ~Completable(s)' =>
              /\ openLogins[of[s]] > 0
              /\ openLogins' = [openLogins EXCEPT ![of[s]] = @ - 1]
<1>1. of[s] \in Accounts
  BY RowOf
<1>2. ASSUME Completable(s)' <=> Completable(s) PROVE UNCHANGED openLogins
  <2>1. \A a \in Accounts : OpenLogins(a)' = OpenLogins(a)
    BY <1>2 DEF OpenLogins, Sessions
  <2> QED
    BY <2>1 DEF openLogins
<1>3. ASSUME Completable(s), ~Completable(s)'
      PROVE  /\ openLogins[of[s]] > 0
             /\ openLogins' = [openLogins EXCEPT ![of[s]] = @ - 1]
  <2>1. \A a \in Accounts \ {of[s]} : OpenLogins(a)' = OpenLogins(a)
    BY <1>3 DEF OpenLogins, Sessions
  <2>2. OpenLogins(of[s])' = OpenLogins(of[s]) \ {s} /\ s \in OpenLogins(of[s])
    BY <1>3 DEF OpenLogins, Sessions
  <2>3. /\ Cardinality(OpenLogins(of[s])) \in Nat
        /\ Cardinality(OpenLogins(of[s])') = Cardinality(OpenLogins(of[s])) - 1
        /\ Cardinality(OpenLogins(of[s])') \in Nat
    <3>1. OpenLogins(of[s]) \in SUBSET Sessions
      BY DEF OpenLogins
    <3>2. OpenLogins(of[s]) \ {s} \in SUBSET Sessions
      BY <3>1
    <3> QED
      BY <2>2, <3>1, <3>2, OpenFinite, FS_RemoveElement
  <2> QED
    BY <1>1, <2>1, <2>3 DEF openLogins
<1> QED
  BY <1>2, <1>3

LEMMA MayEnd ==
  ASSUME LoginInv, NEW s \in Sessions, session[s] # "none",
         UNCHANGED <<of, status, binding>>,
         \A t \in Sessions \ {s} : Completable(t)' <=> Completable(t),
         Completable(s)' => Completable(s)
  PROVE  [Pool!PoolNext]_(Pool!storeVars)
<1>1. of[s] \in Accounts
  BY RowOf
<1>2. UNCHANGED openLogins \/ Pool!DropDeviceSession(of[s])
  BY OneEnds DEF Pool!DropDeviceSession
<1> QED
  BY <1>1, <1>2 DEF Pool!PoolNext, Pool!storeVars

LEMMA StartStep ==
  ASSUME LoginInv, NEW s \in Sessions, NEW a \in Accounts, StartLogin(s, a)
  PROVE  Pool!CreateDeviceSession(a)
<1> USE NoAccountAssumption
    DEF LoginInv, LoginTypeOK, RowsHaveCodes, StartLogin
<1>1. of[s] = NoAccount /\ s \notin lapsed
  OBVIOUS
<1>2. \A t \in Sessions \ {s} : of'[t] = of[t] /\ (Completable(t)' <=> Completable(t))
  BY DEF Completable, pollVars
<1>3. Completable(s)' /\ of'[s] = a
  BY <1>1 DEF Completable
<1>4. \A b \in Accounts \ {a} : OpenLogins(b)' = OpenLogins(b)
  BY <1>1, <1>2, <1>3 DEF OpenLogins, Sessions
<1>5. OpenLogins(a)' = OpenLogins(a) \cup {s}
  BY <1>1, <1>2, <1>3 DEF OpenLogins, Sessions
<1>6. OpenLogins(a) \in SUBSET (Sessions \ {s})
  BY <1>1 DEF OpenLogins
<1>7. /\ Cardinality(OpenLogins(a)) \in Nat
      /\ Cardinality(OpenLogins(a)) < MaxSessions
  <2>1. IsFiniteSet(Sessions \ {s}) /\ Cardinality(Sessions \ {s}) = MaxSessions - 1
    BY SessionsFinite, FS_RemoveElement
  <2>2. Cardinality(OpenLogins(a)) <= Cardinality(Sessions \ {s})
    BY <1>6, <2>1, FS_Subset
  <2>3. Cardinality(OpenLogins(a)) \in Nat
    BY <1>6, OpenFinite
  <2> QED
    BY <2>1, <2>2, <2>3, MaxSessionsAssumption
<1>8. Cardinality(OpenLogins(a)') = Cardinality(OpenLogins(a)) + 1
  BY <1>5, <1>6, OpenFinite, FS_AddElement
<1>9. openLogins' = [openLogins EXCEPT ![a] = @ + 1] /\ openLogins[a] < MaxSessions
  BY <1>4, <1>7, <1>8 DEF openLogins
<1> QED
  BY <1>9 DEF Pool!CreateDeviceSession

\* A poll that returns leaves its own row no more completable than it was, and
\* the others as they were.
LEMMA ReturnEnds ==
  ASSUME LoginTypeOK, NEW p \in Polls, NEW s \in Sessions, on[p] = s, Return(p),
         UNCHANGED <<code, lapsed>>,
         \A t \in Sessions \ {s} : session'[t] = session[t],
         session'[s] = "pending" => session[s] = "pending"
  PROVE  /\ \A t \in Sessions \ {s} : Completable(t)' <=> Completable(t)
         /\ Completable(s)' => Completable(s)
<1>1. /\ \A q \in Polls \ {p} : poll'[q] = poll[q] /\ on'[q] = on[q]
      /\ poll'[p] = "none"
  BY DEF LoginTypeOK, Return
<1>2. \A t \in Sessions \ {s}, v \in {"post", "complete"} :
        (\E q \in Polls : poll'[q] = v /\ on'[q] = t)
          <=> (\E q \in Polls : poll[q] = v /\ on[q] = t)
  BY <1>1
<1>3. \A v \in {"post", "complete"} :
        (\E q \in Polls : poll'[q] = v /\ on'[q] = s)
          => (\E q \in Polls : poll[q] = v /\ on[q] = s)
  BY <1>1
<1>4. ASSUME NEW t \in Sessions \ {s} PROVE Completable(t)' <=> Completable(t)
  BY <1>2 DEF Completable
<1>5. Completable(s)' => Completable(s)
  BY <1>3 DEF Completable
<1> QED
  BY <1>4, <1>5

LEMMA CompleteStep ==
  ASSUME LoginInv, NEW p \in Polls, NEW s \in Sessions, on[p] = s,
         session[s] # "none", PollComplete(p)
  PROVE  Pool!CompleteDeviceSession(of[s])
<1>1. of[s] \in Accounts
  BY RowOf
<1>2. /\ \A t \in Sessions \ {s} : Completable(t)' <=> Completable(t)
      /\ Completable(s)' => Completable(s)
  BY ReturnEnds DEF LoginInv, LoginTypeOK, PollComplete
<1>3. Completable(s)
  BY DEF PollComplete, Completable
<1>4. ~Completable(s)'
  <2>1. code'[s] = "redeemed"
    BY DEF LoginInv, PollComplete, OneRedeems
  <2>2. \A q \in Polls \ {p} : poll[q] = "complete" => on[q] # s
    BY DEF LoginInv, PollComplete, OneRedeems
  <2>3. \A q \in Polls : ~(poll'[q] = "complete" /\ on'[q] = s)
    BY <2>2 DEF LoginInv, LoginTypeOK, PollComplete, Return
  <2> QED
    BY <2>1, <2>3 DEF Completable
<1>5. /\ openLogins[of[s]] > 0
      /\ openLogins' = [openLogins EXCEPT ![of[s]] = @ - 1]
  BY <1>2, <1>3, <1>4, OneEnds DEF PollComplete
<1> QED
  BY <1>5 DEF Pool!CompleteDeviceSession, Pool!Bound, Bound, PollComplete

\* A poll works on one row, and leaves the others as completable as they were.
LEMMA PollImplements ==
  ASSUME LoginInv, NEW p \in Polls,
         (\E s \in Sessions : PollStart(p, s)) \/ Answer(p) \/ PollAbort(p)
  PROVE  [Pool!PoolNext]_(Pool!storeVars)
<1>1. ASSUME NEW s \in Sessions, PollStart(p, s)
      PROVE  [Pool!PoolNext]_(Pool!storeVars)
  <2>1. session[s] = "pending" /\ s \notin lapsed
    BY <1>1 DEF PollStart, IsNewest, Pending
  <2>2. session[s] # "none" /\ code[s] # "none"
    BY <2>1 DEF LoginInv, RowsHaveCodes
  <2>3. /\ \A q \in Polls \ {p} : poll'[q] = poll[q] /\ on'[q] = on[q]
        /\ poll[p] = "none" /\ poll'[p] = "post" /\ on'[p] = s
        /\ UNCHANGED <<session, lapsed, code, of, status, binding>>
    BY <1>1 DEF LoginInv, LoginTypeOK, PollStart, accountVars, sessionVars
  <2>4. ASSUME NEW t \in Sessions \ {s} PROVE Completable(t)' <=> Completable(t)
    BY <2>3 DEF Completable
  <2>5. Completable(s)' => Completable(s)
    BY <2>1, <2>3 DEF Completable
  <2> QED
    BY <2>2, <2>3, <2>4, <2>5, MayEnd
<1>2. ASSUME Answer(p) \/ PollAbort(p)
      PROVE  [Pool!PoolNext]_(Pool!storeVars)
  <2>1. poll[p] # "none"
    BY <1>2 DEF Answer, PollPending, PollGranted, PollError, PollDeny,
       PollComplete, PollAbort
  <2>2. PICK s \in Sessions : s = on[p] /\ session[s] # "none"
    BY <2>1 DEF LoginInv, PollsHaveRows
  <2>3. CASE PollPending(p) \/ PollDeny(p) \/ PollAbort(p)
    <3>1. /\ Return(p)
          /\ UNCHANGED <<code, lapsed, of, status, binding>>
          /\ \A t \in Sessions \ {s} : session'[t] = session[t]
          /\ session'[s] = "pending" => session[s] = "pending"
      BY <2>2, <2>3 DEF LoginInv, LoginTypeOK, PollPending, PollDeny, PollAbort,
         accountVars, sessionVars
    <3>2. /\ \A t \in Sessions \ {s} : Completable(t)' <=> Completable(t)
          /\ Completable(s)' => Completable(s)
      BY <2>2, <3>1, ReturnEnds DEF LoginInv
    <3> QED
      BY <2>2, <3>1, <3>2, MayEnd
  <2>4. CASE PollGranted(p)
    <3>1. /\ \A t \in Sessions \ {s} : code'[t] = code[t]
          /\ \A q \in Polls \ {p} : poll'[q] = poll[q]
          /\ poll[p] = "post" /\ poll'[p] = "complete" /\ code[s] = "granted"
          /\ UNCHANGED <<session, lapsed, of, on, status, binding>>
      BY <2>2, <2>4 DEF LoginInv, LoginTypeOK, PollGranted, accountVars, sessionVars
    <3>2. ASSUME NEW t \in Sessions \ {s} PROVE Completable(t)' <=> Completable(t)
      BY <2>2, <3>1 DEF Completable
    <3>3. Completable(s)
      BY <2>2, <3>1 DEF Completable
    <3> QED
      BY <2>2, <3>1, <3>2, <3>3, MayEnd
  <2>5. CASE PollError(p)
    <3>1. /\ \A t \in Sessions \ {s} : code'[t] = code[t]
          /\ code'[s] = code[s] \/ code'[s] = "redeemed"
          /\ \A q \in Polls \ {p} : poll'[q] = poll[q]
          /\ poll[p] = "post" /\ poll'[p] = "deny"
          /\ UNCHANGED <<session, lapsed, of, on, status, binding>>
      BY <2>2, <2>5 DEF LoginInv, LoginTypeOK, PollError, accountVars, sessionVars
    <3>2. ASSUME NEW t \in Sessions \ {s} PROVE Completable(t)' <=> Completable(t)
      BY <2>2, <3>1 DEF Completable
    <3>3. Completable(s)' => Completable(s)
      BY <2>2, <3>1 DEF Completable
    <3> QED
      BY <2>2, <3>1, <3>2, <3>3, MayEnd
  <2>6. CASE PollComplete(p)
    BY <2>2, <2>6, CompleteStep, RowOf DEF Pool!PoolNext
  <2> QED
    BY <1>2, <2>3, <2>4, <2>5, <2>6 DEF Answer
<1> QED
  BY <1>1, <1>2

\* What is done without a row, a code or a poll leaves the count alone.
LEMMA OpenUnchanged ==
  ASSUME UNCHANGED <<session, of, lapsed, code, poll, on>>
  PROVE  UNCHANGED openLogins
<1>1. \A s \in Sessions : Completable(s)' <=> Completable(s)
  BY DEF Completable
<1>2. \A a \in Accounts : OpenLogins(a)' = OpenLogins(a)
  BY <1>1 DEF OpenLogins, Sessions
<1> QED
  BY <1>2 DEF openLogins

LEMMA ClockImplements ==
  ASSUME LoginInv, NEW s \in Sessions, Lapse(s) \/ Grant(s) \/ Refuse(s)
  PROVE  [Pool!PoolNext]_(Pool!storeVars)
<1>1. session[s] # "none"
  BY DEF LoginInv, RowsHaveCodes, Lapse, Grant, Refuse
<1>2. /\ UNCHANGED <<session, of, poll, on, status, binding>>
      /\ \A t \in Sessions \ {s} : code'[t] = code[t] /\ (t \in lapsed' <=> t \in lapsed)
      /\ s \in lapsed => s \in lapsed'
      /\ code'[s] \in {"waiting", "granted"} => code[s] \in {"waiting", "granted"}
  BY DEF LoginInv, LoginTypeOK, Lapse, Grant, Refuse, accountVars, sessionVars,
     pollVars
<1>3. ASSUME NEW t \in Sessions \ {s} PROVE Completable(t)' <=> Completable(t)
  BY <1>2 DEF Completable
<1>4. Completable(s)' => Completable(s)
  BY <1>2 DEF Completable
<1> QED
  BY <1>1, <1>2, <1>3, <1>4, MayEnd

LEMMA PoolStep ==
  LoginInv /\ [Next]_vars => [Pool!PoolNext]_(Pool!storeVars)
<1> SUFFICES ASSUME LoginInv, [Next]_vars
             PROVE  [Pool!PoolNext]_(Pool!storeVars)
  OBVIOUS
<1>1. ASSUME NEW s \in Sessions, NEW a \in Accounts, StartLogin(s, a)
      PROVE  Pool!PoolNext
  BY <1>1, StartStep DEF Pool!PoolNext
<1>2. ASSUME NEW a \in Accounts, Import(a) \/ QuarantineAccount(a) \/ SetStatus(a)
      PROVE  Pool!PoolNext
  <2>1. UNCHANGED openLogins
    BY <1>2, OpenUnchanged DEF Import, QuarantineAccount, SetStatus, sessionVars,
       pollVars
  <2>2. CASE Import(a)
    BY <2>1, <2>2 DEF Import, Pool!AddAccount, Pool!PoolNext
  <2>3. CASE QuarantineAccount(a)
    BY <2>1, <2>3 DEF QuarantineAccount, Exists, Pool!QuarantineAccount,
       Pool!Exists, Pool!PoolNext
  <2>4. CASE SetStatus(a)
    <3>1. PICK new \in OperatorSets : status' = [status EXCEPT ![a] = new]
      BY <2>4 DEF SetStatus
    <3>2. Pool!SetAccountStatus(a, new) /\ new \in Pool!OperatorStatus
      BY <2>1, <2>4, <3>1, OperatorSetsAssumption
         DEF SetStatus, Exists, Pool!SetAccountStatus, Pool!Exists,
             Pool!OperatorStatus
    <3> QED
      BY <3>2 DEF Pool!PoolNext
  <2> QED
    BY <1>2, <2>2, <2>3, <2>4
<1>3. ASSUME NEW u \in Users, NEW a \in Accounts, Claim(u, a)
      PROVE  Pool!PoolNext
  <2>1. UNCHANGED openLogins
    BY <1>3, OpenUnchanged DEF Claim, sessionVars, pollVars
  <2>2. Pool!ClaimIdleAccount(u, a)
    BY <1>3, <2>1 DEF Claim, Pool!ClaimIdleAccount, Pool!BoundToOther
  <2> QED
    BY <2>2 DEF Pool!PoolNext
<1>4. ASSUME NEW u \in Users, Release(u) PROVE Pool!PoolNext
  <2>1. UNCHANGED openLogins
    BY <1>4, OpenUnchanged DEF Release, sessionVars, pollVars
  <2>2. Pool!ReleaseBinding(u)
    BY <1>4, <2>1 DEF Release, Pool!ReleaseBinding
  <2> QED
    BY <2>2 DEF Pool!PoolNext
<1>5. CASE UNCHANGED vars
  <2>1. UNCHANGED openLogins
    BY <1>5, OpenUnchanged DEF vars, sessionVars, pollVars
  <2> QED
    BY <1>5, <2>1 DEF vars, accountVars, Pool!storeVars
<1> QED
  BY <1>1, <1>2, <1>3, <1>4, <1>5, PollImplements, ClockImplements DEF Next

LEMMA PoolInitially == Init => Pool!PoolInit
<1> SUFFICES ASSUME Init PROVE Pool!PoolInit
  OBVIOUS
<1>1. \A a \in Accounts : OpenLogins(a) = {}
  BY NoAccountAssumption DEF Init, OpenLogins
<1>2. openLogins = [a \in Accounts |-> 0]
  BY <1>1, FS_EmptySet DEF openLogins
<1> QED
  BY <1>2 DEF Init, Pool!PoolInit

(* However logins are started, polled twice, lost, lapsed or cut short,    *)
(* what the device flow does to the accounts is what the account store     *)
(* says: a token is stored only for a login that could still complete, and *)
(* for each at most once.                                                  *)
THEOREM LoginImplementsPool == Spec => ImplementsPool
  BY PoolInitially, PoolStep, LoginInvariant, PTL DEF Spec, ImplementsPool, Pool!PoolSpec

(* What is proved of the account store therefore holds of the device flow. *)
Facts == INSTANCE AccountPoolProofs
            WITH MaxLogins <- MaxSessions, pending <- openLogins

(* Whatever becomes of its logins, an account leaves quarantine only by an *)
(* operator's step, and 'disabled' only by a status change, a completed    *)
(* login or a quarantine.                                                  *)
THEOREM LoginsKeepStatus ==
  Spec => Facts!QuarantineSticks /\ Facts!DisabledStays
<1>1. Spec => Facts!PoolSpec
  <2>1. Pool!PoolInit => Facts!PoolInit
    BY DEF Pool!PoolInit, Facts!PoolInit
  <2>2. [Pool!PoolNext]_(Pool!storeVars) => [Facts!PoolNext]_(Facts!storeVars)
    BY DEF Pool!PoolNext, Pool!storeVars, Pool!AddAccount,
       Pool!QuarantineAccount, Pool!SetAccountStatus,
       Pool!CreateDeviceSession, Pool!CompleteDeviceSession,
       Pool!DropDeviceSession, Pool!ClaimIdleAccount, Pool!ReleaseBinding,
       Pool!Exists, Pool!Bound, Pool!BoundToOther, Pool!OperatorStatus,
       Facts!PoolNext, Facts!storeVars, Facts!AddAccount,
       Facts!QuarantineAccount, Facts!SetAccountStatus,
       Facts!CreateDeviceSession, Facts!CompleteDeviceSession,
       Facts!DropDeviceSession, Facts!ClaimIdleAccount,
       Facts!ReleaseBinding, Facts!Exists, Facts!Bound, Facts!BoundToOther,
       Facts!OperatorStatus
  <2> QED
    BY <2>1, <2>2, LoginImplementsPool, PTL
       DEF ImplementsPool, Pool!PoolSpec, Facts!PoolSpec
<1> QED
  BY <1>1, Facts!PoolQuarantineSticks, Facts!PoolDisabledStays,
     NoAccountAssumption, MaxSessionsAssumption
============================================================================
