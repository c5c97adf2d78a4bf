---------------------------- MODULE KeyAuthProofs ----------------------------
(***************************************************************************)
(* Theorems about proxy keys, for any keys, requests, rotations, cache     *)
(* lifetime and bound on how long a request uses what it read.             *)
(***************************************************************************)
EXTENDS KeyAuth, TLAPS

LEMMA KeyInit == Init => KeyInv
<1> SUFFICES ASSUME Init PROVE KeyInv
  OBVIOUS
<1> USE TimeAssumption
<1>1. KeyTypeOK
  BY DEF Init, KeyTypeOK, Awaits, Horizon, Window
<1>2. HasKey
  BY DEF Init, HasKey
<1>3. CopiesAge
  BY DEF Init, CopiesAge
<1> QED
  BY <1>1, <1>2, <1>3 DEF KeyInv

\* A step of one request that leaves the rows and the cache alone.
LEMMA RequestStep ==
  ASSUME KeyInv, NEW r \in Requests, UNCHANGED <<keyVars, entry, rotateVars>>,
         at' = [at EXCEPT ![r] = at'[r]],
         key' = [key EXCEPT ![r] = key'[r]],
         waited' = [waited EXCEPT ![r] = waited'[r]],
         at'[r] \in Awaits,
         key'[r] \in Keys \cup {NoKey},
         waited'[r] \in 0..MaxWait,
         at'[r] # "none" => key'[r] \in Keys,
         at'[r] = "fill" => keyState[key'[r]] = "active",
         at'[r] = "hit" => entry[key'[r]] # NoEntry
  PROVE  KeyInv'
<1> USE KeyAssumption, TimeAssumption
    DEF KeyInv, KeyTypeOK, HasKey, keyVars, rotateVars
<1>1. KeyTypeOK'
  BY DEF Awaits
<1>2. HasKey'
  OBVIOUS
<1>3. CopiesAge'
  <2>1. ASSUME at'[r] = "hit", keyState[key'[r]] = "revoked"
        PROVE  since[key'[r]] <= MaxWait + (TTL - 1) + waited'[r]
    <3>1. /\ key'[r] \in Keys
          /\ entry[key'[r]] \in 0..(TTL - 1)
          /\ since[key'[r]] \in Nat
      BY <2>1 DEF Window, Horizon
    <3>2. since[key'[r]] <= entry[key'[r]] + MaxWait
      BY <2>1, <3>1 DEF CopiesAge
    <3> QED
      BY <3>1, <3>2
  <2>2. \A q \in Requests \ {r} :
          at'[q] = at[q] /\ key'[q] = key[q] /\ waited'[q] = waited[q]
    OBVIOUS
  <2> QED
    BY <2>1, <2>2 DEF CopiesAge
<1> QED
  BY <1>1, <1>2, <1>3

\* A step of the admin API that leaves the requests and the cache alone: a
\* row is added, or revoked; what was revoked stays so.
LEMMA RowStep ==
  ASSUME KeyInv, UNCHANGED <<entry, requestVars, since>>,
         keyState' \in [Keys -> {"absent", "active", "revoked"}],
         owner' \in [Keys -> Users \cup {NoUser}],
         replaces' \in [Keys -> Keys \cup {NoKey}],
         rotation' \in [Rotations -> {"none", "revoke", "issue"}],
         old' \in [Rotations -> Keys \cup {NoKey}],
         \A o \in Rotations : rotation'[o] # "none" => old'[o] \in Keys,
         \A k \in Keys : keyState[k] = "revoked" => keyState'[k] = "revoked"
  PROVE  KeyInv'
<1> USE TimeAssumption DEF KeyInv, KeyTypeOK, HasKey, requestVars
<1>1. KeyTypeOK' /\ HasKey'
  OBVIOUS
<1>2. ASSUME NEW k \in Keys, keyState'[k] = "revoked", keyState[k] # "revoked"
      PROVE  since[k] = 0
  BY <1>2 DEF CopiesAge
<1>3. \A k \in Keys : since[k] \in Nat
  BY DEF Window, Horizon
<1>4. CopiesAge'
  BY <1>2, <1>3 DEF CopiesAge
<1> QED
  BY <1>1, <1>4

LEMMA AcceptFillStep ==
  ASSUME KeyInv, NEW r \in Requests, AcceptFill(r) PROVE KeyInv'
<1> USE KeyAssumption, TimeAssumption
    DEF KeyInv, KeyTypeOK, HasKey, keyVars, rotateVars, AcceptFill, Goto
<1>1. KeyTypeOK' /\ HasKey'
  BY DEF Awaits
<1>2. keyState[key[r]] = "revoked" => since[key[r]] <= MaxWait
  BY DEF CopiesAge, Window, Horizon
<1>3. CopiesAge'
  BY <1>1, <1>2 DEF CopiesAge, Window, Horizon
<1> QED
  BY <1>1, <1>3

LEMMA TickStep == ASSUME KeyInv, Tick PROVE KeyInv'
<1> USE KeyAssumption, TimeAssumption
    DEF KeyInv, KeyTypeOK, HasKey, rotateVars, Tick, Window, Horizon
<1>1. KeyTypeOK' /\ HasKey'
  <2>1. since' \in [Keys -> 0..Horizon]
    OBVIOUS
  <2>2. entry' \in [Keys -> 0..(TTL - 1) \cup {NoEntry}]
    <3>1. ASSUME NEW k \in Keys, entry[k] # NoEntry, entry[k] # TTL - 1
          PROVE  entry[k] + 1 \in 0..(TTL - 1)
      BY <3>1
    <3> QED
      BY <3>1
  <2>3. waited' \in [Requests -> 0..MaxWait]
    OBVIOUS
  <2> QED
    BY <2>1, <2>2, <2>3
<1>2. \A k \in Keys : /\ since'[k] <= since[k] + 1
                      /\ keyState[k] # "revoked" => since'[k] = since[k]
  OBVIOUS
<1>3. ASSUME NEW k \in Keys, entry'[k] # NoEntry
      PROVE  entry[k] # NoEntry /\ entry'[k] = entry[k] + 1
  BY <1>3
<1>4. ASSUME NEW r \in Requests, at[r] \in {"hit", "fill"}
      PROVE  waited'[r] = waited[r] + 1 /\ waited[r] \in Nat /\ key[r] \in Keys
  BY <1>4
<1>5. CopiesAge'
  <2>1. \A k \in Keys : keyState[k] = "revoked" /\ entry'[k] # NoEntry
                          => since'[k] <= entry'[k] + MaxWait
    BY <1>2, <1>3 DEF CopiesAge
  <2>2. \A r \in Requests : at[r] = "fill" /\ keyState[key[r]] = "revoked"
                              => since'[key[r]] <= waited'[r]
    BY <1>2, <1>4 DEF CopiesAge
  <2>3. \A r \in Requests : at[r] = "hit" /\ keyState[key[r]] = "revoked"
                       => since'[key[r]] <= MaxWait + (TTL - 1) + waited'[r]
    BY <1>2, <1>4 DEF CopiesAge
  <2> QED
    BY <1>2, <2>1, <2>2, <2>3 DEF CopiesAge
<1> QED
  BY <1>1, <1>5

LEMMA KeyStep == KeyInv /\ [Next]_vars => KeyInv'
<1> SUFFICES ASSUME KeyInv, [Next]_vars PROVE KeyInv'
  OBVIOUS
<1> USE KeyAssumption, TimeAssumption
<1>0. 0 \in 0..MaxWait
  OBVIOUS
<1>1. ASSUME NEW r \in Requests, RequestNext(r) PROVE KeyInv'
  <2> USE DEF Goto, Awaits
  <2>1. /\ at \in [Requests -> Awaits]
        /\ key \in [Requests -> Keys \cup {NoKey}]
        /\ waited \in [Requests -> 0..MaxWait]
        /\ at[r] # "none" => key[r] \in Keys
    BY DEF KeyInv, KeyTypeOK, HasKey
  <2>2. ASSUME NEW k \in Keys, Present(r, k) PROVE KeyInv'
    BY <2>1, <2>2, RequestStep DEF Present
  <2>3. CASE CacheHit(r)
    BY <2>1, <2>3, RequestStep DEF CacheHit
  <2>4. CASE CacheMiss(r)
    BY <2>1, <2>4, RequestStep DEF CacheMiss
  <2>5. CASE RowActive(r)
    BY <2>1, <2>5, RequestStep DEF RowActive
  <2>6. CASE RowMissing(r) \/ Leave(r)
    BY <1>0, <2>1, <2>6, RequestStep DEF RowMissing, Leave, End
  <2>7. CASE AcceptHit(r)
    BY <1>0, <2>1, <2>7, RequestStep DEF AcceptHit
  <2>8. CASE AcceptFill(r)
    BY <2>8, AcceptFillStep
  <2> QED
    BY <1>1, <2>2, <2>3, <2>4, <2>5, <2>6, <2>7, <2>8 DEF RequestNext
<1>2. ASSUME NEW o \in Rotations, RotationNext(o) PROVE KeyInv'
  <2> USE DEF KeyInv, KeyTypeOK, HasKey, keyVars
  <2>1. ASSUME NEW k \in Keys, RotateStart(o, k) PROVE KeyInv'
    BY <2>1, RowStep DEF RotateStart
  <2>2. CASE RotateRevoke(o)
    BY <2>2, RowStep DEF RotateRevoke, RevokeApiKey
  <2>3. ASSUME NEW k \in Keys, RotateIssue(o, k) PROVE KeyInv'
    BY <2>3, RowStep DEF RotateIssue, AddApiKey
  <2>4. CASE RotateAbort(o)
    BY <2>4, RowStep DEF RotateAbort
  <2> QED
    BY <1>2, <2>1, <2>2, <2>3, <2>4 DEF RotationNext
<1>3. ASSUME NEW k \in Keys, Evict(k) PROVE KeyInv'
  BY <1>3 DEF Evict, KeyInv, KeyTypeOK, HasKey, CopiesAge, keyVars, requestVars,
     rotateVars
<1>4. ASSUME NEW k \in Keys, RevokeKey(k) PROVE KeyInv'
  BY <1>4, RowStep DEF RevokeKey, RevokeApiKey, rotateVars, KeyInv, KeyTypeOK, HasKey
<1>5. ASSUME NEW k \in Keys, NEW u \in Users, IssueKey(k, u) PROVE KeyInv'
  BY <1>5, RowStep DEF IssueKey, AddApiKey, rotateVars, KeyInv, KeyTypeOK, HasKey
<1>6. CASE UNCHANGED vars
  BY <1>6, RowStep DEF vars, keyVars, rotateVars, KeyInv, KeyTypeOK, HasKey
<1> QED
  BY <1>1, <1>2, <1>3, <1>4, <1>5, <1>6, TickStep DEF Next

(* The cache and the requests in flight are never older than MaxWait and   *)
(* the entry's age say they are.                                           *)
THEOREM KeyInvariant == Spec => []KeyInv
  BY KeyInit, KeyStep, PTL DEF Spec

LEMMA AcceptedFrom ==
  ASSUME KeyInv, Next, NEW r \in Requests, Accepts(r)
  PROVE  at[r] \in {"hit", "fill"} /\ key[r] \in Keys
<1>1. at[r] \in {"hit", "fill"}
  BY DEF Accepts, Next, RequestNext, RotationNext, Present, CacheHit, CacheMiss,
     RowActive, RowMissing, AcceptHit, AcceptFill, Leave, End, Goto, RotateStart,
     RotateRevoke, RotateIssue, RotateAbort, Evict, RevokeKey, IssueKey,
     Tick, requestVars, KeyInv, KeyTypeOK, Awaits
<1> QED
  BY <1>1 DEF KeyInv, HasKey

(* For every lifetime of the cache, a revoked key is refused from Window   *)
(* ticks after the revocation on.                                          *)
THEOREM RevokedKeysExpire == Spec => RevocationTakesHold
<1>1. KeyInv /\ [Next]_vars =>
        [\A r \in Requests :
           Accepts(r) /\ keyState[key[r]] = "revoked"
             => since[key[r]] <= Window]_vars
  <2> SUFFICES ASSUME KeyInv, Next, NEW r \in Requests, Accepts(r),
                      keyState[key[r]] = "revoked"
               PROVE  since[key[r]] <= Window
    OBVIOUS
  <2> USE TimeAssumption
  <2>1. at[r] \in {"hit", "fill"} /\ key[r] \in Keys
    BY AcceptedFrom
  <2>2. waited[r] \in 0..MaxWait /\ since[key[r]] \in 0..Horizon
    BY <2>1 DEF KeyInv, KeyTypeOK
  <2> QED
    BY <2>1, <2>2 DEF KeyInv, CopiesAge, Window, Horizon
<1> QED
  BY <1>1, KeyInvariant, PTL DEF Spec, RevocationTakesHold

\* What NeverBothActive needs: a rotation past its first statement has
\* revoked the key it replaces.
RevokedFirst ==
    /\ \A o \in Rotations : rotation[o] = "issue" => keyState[old[o]] = "revoked"
    /\ \A k \in Keys : replaces[k] # NoKey => keyState[replaces[k]] = "revoked"

LEMMA RevokedFirstStep ==
  KeyTypeOK /\ HasKey /\ RevokedFirst /\ [Next]_vars => RevokedFirst'
<1> SUFFICES ASSUME KeyTypeOK, HasKey, RevokedFirst, [Next]_vars
             PROVE  RevokedFirst'
  OBVIOUS
<1> USE KeyAssumption
    DEF KeyTypeOK, HasKey, RevokedFirst, keyVars, requestVars, rotateVars
<1>1. ASSUME UNCHANGED <<keyState, replaces, rotation, old>> PROVE RevokedFirst'
  BY <1>1
<1>2. ASSUME NEW r \in Requests, RequestNext(r) PROVE RevokedFirst'
  BY <1>1, <1>2 DEF RequestNext, Present, CacheHit, CacheMiss, RowActive,
     RowMissing, AcceptHit, AcceptFill, Leave
<1>3. ASSUME NEW o \in Rotations, NEW k \in Keys, RotateStart(o, k)
      PROVE  RevokedFirst'
  BY <1>3 DEF RotateStart
<1>4. ASSUME NEW o \in Rotations, RotateRevoke(o) PROVE RevokedFirst'
  BY <1>4 DEF RotateRevoke, RevokeApiKey
<1>5. ASSUME NEW o \in Rotations, NEW k \in Keys, RotateIssue(o, k)
      PROVE  RevokedFirst'
  BY <1>5 DEF RotateIssue, AddApiKey
<1>6. ASSUME NEW o \in Rotations, RotateAbort(o) PROVE RevokedFirst'
  BY <1>6 DEF RotateAbort
<1>7. ASSUME NEW k \in Keys, RevokeKey(k) PROVE RevokedFirst'
  BY <1>7 DEF RevokeKey, RevokeApiKey
<1>8. ASSUME NEW k \in Keys, NEW u \in Users, IssueKey(k, u) PROVE RevokedFirst'
  BY <1>8 DEF IssueKey, AddApiKey
<1>9. CASE Tick \/ UNCHANGED vars
           \/ \E k \in Keys : Evict(k)
  BY <1>1, <1>9 DEF Tick, vars, Evict
<1> QED
  BY <1>2, <1>3, <1>4, <1>5, <1>6, <1>7, <1>8, <1>9 DEF Next, RotationNext

(* A rotation issues only after it has revoked, and revoked rows stay so.   *)
THEOREM RevokedFirstAlways == Spec => []RevokedFirst
<1>1. Init => RevokedFirst
  BY DEF Init, RevokedFirst
<1>2. KeyInv => KeyTypeOK /\ HasKey
  BY DEF KeyInv
<1> QED
  BY <1>1, <1>2, RevokedFirstStep, KeyInvariant, PTL DEF Spec

(* The rows of a key and of its replacement are never active together,     *)
(* whatever rotations overlap and fail; what is still cached of the old    *)
(* key is the subject of the next theorem.                                 *)
THEOREM ReplacedKeysAreRevoked == Spec => []NeverBothActive
<1>1. RevokedFirst => NeverBothActive
  BY DEF RevokedFirst, NeverBothActive
<1> QED
  BY <1>1, RevokedFirstAlways, PTL

(* A request accepted with a key that has a replacement lives on what was  *)
(* cached or read before the rotation revoked the key: at most Window      *)
(* ticks, for every lifetime of the cache.                                 *)
THEOREM ReplacedKeysLapse == Spec => ReplacedKeyLapses
<1>1. KeyInv /\ RevokedFirst /\ [Next]_vars
        /\ [\A r \in Requests :
               Accepts(r) /\ keyState[key[r]] = "revoked"
                 => since[key[r]] <= Window]_vars
      => [\A r \in Requests, k \in Keys :
            Accepts(r) /\ replaces[k] = key[r]
              => keyState[key[r]] = "revoked" /\ since[key[r]] <= Window]_vars
  <2> SUFFICES ASSUME KeyInv, RevokedFirst, Next, NEW r \in Requests,
                      NEW k \in Keys, Accepts(r), replaces[k] = key[r]
               PROVE  keyState[key[r]] = "revoked"
    OBVIOUS
  <2>1. key[r] \in Keys
    BY AcceptedFrom
  <2> QED
    BY <2>1, KeyAssumption DEF RevokedFirst
<1> QED
  BY <1>1, RevokedKeysExpire, RevokedFirstAlways, KeyInvariant, PTL
     DEF Spec, RevocationTakesHold, ReplacedKeyLapses
============================================================================
