------------------------- MODULE AccountPoolProofs -------------------------
(* Theorems about the account store, for any number of users and accounts. *)
EXTENDS AccountPool, TLAPS

(* The tables keep their types under every repository call.                *)
LEMMA PoolTypeInit == PoolInit => PoolTypeOK
  BY MaxLoginsAssumption DEF PoolInit, PoolTypeOK, RowStatus

LEMMA PoolTypeStep == PoolTypeOK /\ [PoolNext]_storeVars => PoolTypeOK'
<1> SUFFICES ASSUME PoolTypeOK, [PoolNext]_storeVars PROVE PoolTypeOK'
  OBVIOUS
<1> USE DEF PoolTypeOK, RowStatus
<1>1. ASSUME NEW a \in Accounts, AddAccount(a) PROVE PoolTypeOK'
  BY <1>1 DEF AddAccount
<1>2. ASSUME NEW a \in Accounts, QuarantineAccount(a) PROVE PoolTypeOK'
  BY <1>2 DEF QuarantineAccount, Exists
<1>3. ASSUME NEW a \in Accounts, NEW s \in OperatorStatus, SetAccountStatus(a, s)
      PROVE PoolTypeOK'
  BY <1>3 DEF SetAccountStatus, OperatorStatus
<1>4. ASSUME NEW a \in Accounts, CreateDeviceSession(a) PROVE PoolTypeOK'
  BY <1>4, MaxLoginsAssumption DEF CreateDeviceSession
<1>5. ASSUME NEW a \in Accounts, CompleteDeviceSession(a) PROVE PoolTypeOK'
  BY <1>5, MaxLoginsAssumption DEF CompleteDeviceSession
<1>6. ASSUME NEW a \in Accounts, DropDeviceSession(a) PROVE PoolTypeOK'
  BY <1>6, MaxLoginsAssumption DEF DropDeviceSession
<1>7. ASSUME NEW u \in Users, NEW a \in Accounts, ClaimIdleAccount(u, a)
      PROVE PoolTypeOK'
  BY <1>7 DEF ClaimIdleAccount
<1>8. ASSUME NEW u \in Users, ReleaseBinding(u) PROVE PoolTypeOK'
  BY <1>8 DEF ReleaseBinding
<1>9. CASE UNCHANGED storeVars
  BY <1>9 DEF storeVars
<1> QED
  BY <1>1, <1>2, <1>3, <1>4, <1>5, <1>6, <1>7, <1>8, <1>9 DEF PoolNext

(* Every value the tables take is one schema.sql allows.                   *)
THEOREM PoolTypeCorrect == PoolSpec => []PoolTypeOK
  BY PoolTypeInit, PoolTypeStep, PTL DEF PoolSpec

----------------------------------------------------------------------------
(* Only a claim adds to the bindings, and only an account nobody else has. *)
LEMMA OneToOneStep == PoolTypeOK /\ OneToOne /\ [PoolNext]_storeVars => OneToOne'
<1> SUFFICES ASSUME PoolTypeOK, OneToOne, [PoolNext]_storeVars PROVE OneToOne'
  OBVIOUS
<1>1. ASSUME NEW u \in Users, NEW a \in Accounts, ClaimIdleAccount(u, a)
      PROVE OneToOne'
  BY <1>1 DEF ClaimIdleAccount, BoundToOther, OneToOne, PoolTypeOK
<1>2. ASSUME NEW u \in Users, ReleaseBinding(u) PROVE OneToOne'
  BY <1>2 DEF ReleaseBinding, OneToOne, PoolTypeOK
<1>3. CASE UNCHANGED binding
  BY <1>3 DEF OneToOne
<1> QED
  BY <1>1, <1>2, <1>3 DEF PoolNext, storeVars, AddAccount, QuarantineAccount,
     SetAccountStatus, CreateDeviceSession, CompleteDeviceSession,
     DropDeviceSession

(* Whoever calls the store, in whatever order, no account ever has two     *)
(* users: the "strict 1:1" of the double UNIQUE.                           *)
THEOREM PoolOneToOne == PoolSpec => []OneToOne
<1>1. PoolInit => OneToOne
  BY DEF PoolInit, OneToOne
<1> QED
  BY <1>1, OneToOneStep, PoolTypeCorrect, PTL DEF PoolSpec

(* A quarantined account comes back only by an operator's step: in         *)
(* particular a release leaves it out of the idle pool.                    *)
THEOREM PoolQuarantineSticks == PoolSpec => QuarantineSticks
<1>1. ASSUME PoolTypeOK, [PoolNext]_storeVars, NEW a \in Accounts,
             status[a] = "quarantined", status'[a] # "quarantined"
      PROVE OperatorStep(a)
  <2>1. ASSUME NEW b \in Accounts, AddAccount(b) PROVE OperatorStep(a)
    BY <1>1, <2>1 DEF AddAccount, OperatorStep, PoolTypeOK
  <2>2. ASSUME NEW b \in Accounts, QuarantineAccount(b) PROVE FALSE
    BY <1>1, <2>2 DEF QuarantineAccount, Exists, PoolTypeOK
  <2>3. ASSUME NEW b \in Accounts, NEW s \in OperatorStatus, SetAccountStatus(b, s)
        PROVE OperatorStep(a)
    <3>1. b = a
      BY <1>1, <2>3 DEF SetAccountStatus, PoolTypeOK
    <3> QED
      BY <2>3, <3>1 DEF OperatorStep
  <2>4. ASSUME NEW b \in Accounts, CreateDeviceSession(b) PROVE OperatorStep(a)
    <3>1. b = a
      BY <1>1, <2>4 DEF CreateDeviceSession, PoolTypeOK
    <3> QED
      BY <2>4, <3>1 DEF OperatorStep
  <2>5. ASSUME NEW b \in Accounts, CompleteDeviceSession(b) PROVE OperatorStep(a)
    <3>1. b = a
      BY <1>1, <2>5 DEF CompleteDeviceSession, PoolTypeOK
    <3> QED
      BY <2>5, <3>1 DEF OperatorStep
  <2>6. ASSUME NEW u \in Users, NEW b \in Accounts, ClaimIdleAccount(u, b)
        PROVE FALSE
    BY <1>1, <2>6 DEF ClaimIdleAccount, PoolTypeOK
  <2>7. ASSUME NEW u \in Users, ReleaseBinding(u) PROVE FALSE
    BY <1>1, <2>7 DEF ReleaseBinding, PoolTypeOK
  <2> QED
    BY <1>1, <2>1, <2>2, <2>3, <2>4, <2>5, <2>6, <2>7
       DEF PoolNext, DropDeviceSession, storeVars
<1>2. PoolTypeOK /\ [PoolNext]_storeVars
        => [\A a \in Accounts :
              status[a] = "quarantined" /\ status'[a] # "quarantined"
                => OperatorStep(a)]_storeVars
  BY <1>1
<1> QED
  BY <1>2, PoolTypeCorrect, PTL DEF PoolSpec, QuarantineSticks

(* Claims, releases and the start of a login leave a disabled account      *)
(* disabled, whoever calls them and in whatever order.                     *)
THEOREM PoolDisabledStays == PoolSpec => DisabledStays
<1>1. ASSUME PoolTypeOK, [PoolNext]_storeVars, NEW a \in Accounts,
             status[a] = "disabled", status'[a] # "disabled"
      PROVE  \/ \E s \in OperatorStatus : SetAccountStatus(a, s)
             \/ CompleteDeviceSession(a)
             \/ QuarantineAccount(a)
  <2>1. ASSUME NEW b \in Accounts, AddAccount(b) \/ CreateDeviceSession(b)
        PROVE  FALSE
    BY <1>1, <2>1 DEF AddAccount, CreateDeviceSession, PoolTypeOK
  <2>2. ASSUME NEW b \in Accounts, NEW s \in OperatorStatus,
               \/ SetAccountStatus(b, s)
               \/ CompleteDeviceSession(b)
               \/ QuarantineAccount(b)
        PROVE  b = a
    BY <1>1, <2>2 DEF SetAccountStatus, CompleteDeviceSession, QuarantineAccount,
       PoolTypeOK
  <2>3. ASSUME NEW u \in Users,
               ReleaseBinding(u) \/ \E b \in Accounts : ClaimIdleAccount(u, b)
        PROVE  FALSE
    BY <1>1, <2>3 DEF ReleaseBinding, ClaimIdleAccount, PoolTypeOK
  <2>4. ASSUME UNCHANGED status PROVE FALSE
    BY <1>1, <2>4
  <2>5. \A b \in Accounts : CompleteDeviceSession(b) \/ QuarantineAccount(b) => b = a
    <3>1. "idle" \in OperatorStatus
      BY DEF OperatorStatus
    <3> QED
      BY <2>2, <3>1
  <2> QED
    BY <1>1, <2>1, <2>2, <2>3, <2>4, <2>5 DEF PoolNext, DropDeviceSession, storeVars
<1>2. PoolTypeOK /\ [PoolNext]_storeVars
        => [\A a \in Accounts :
              status[a] = "disabled" /\ status'[a] # "disabled"
                => \/ \E s \in OperatorStatus : SetAccountStatus(a, s)
                   \/ CompleteDeviceSession(a)
                   \/ QuarantineAccount(a)]_storeVars
  BY <1>1
<1> QED
  BY <1>2, PoolTypeCorrect, PTL DEF PoolSpec, DisabledStays
============================================================================
