--------------------------- MODULE RoutingProofs ---------------------------
(***************************************************************************)
(* Theorems about Routing, for any users, accounts and requests, any set   *)
(* of Solo users and any use of the admin API.                             *)
(***************************************************************************)
EXTENDS Routing, AccountPoolProofs

\* What a step needs to know of its arguments: an open request has a user,
\* and an account from the send on.
Shape == RoutingTypeOK /\ ClosedIsNobodys /\ HasAccount

(* Every step of the system is one repository call, or leaves the store.   *)
LEMMA StepUsesStore == Shape /\ [Next]_vars => [PoolNext]_storeVars
<1> SUFFICES ASSUME Shape, [Next]_vars PROVE [PoolNext]_storeVars
  OBVIOUS
<1> USE DEF Shape
<1>1. ASSUME NEW r \in Requests, NEW a \in Accounts, ClaimAccount(r, a)
      PROVE PoolNext
  <2>1. who[r] \in Users
    BY <1>1 DEF ClaimAccount, ClosedIsNobodys, Open, RoutingTypeOK
  <2> QED
    BY <1>1, <2>1 DEF ClaimAccount, PoolNext
<1>2. ASSUME NEW r \in Requests, Quarantine(r) PROVE PoolNext
  <2>1. acct[r] \in Accounts
    BY <1>2 DEF Quarantine, HasAccount, RoutingTypeOK
  <2> QED
    BY <1>2, <2>1 DEF Quarantine, PoolNext
<1>3. ASSUME NEW r \in Requests, Release(r) PROVE PoolNext
  <2>1. who[r] \in Users
    BY <1>3 DEF Release, ClosedIsNobodys, Open, RoutingTypeOK
  <2> QED
    BY <1>3, <2>1 DEF Release, PoolNext
<1>4. ASSUME NEW r \in Requests, RequestNext(r) PROVE [PoolNext]_storeVars
  BY <1>1, <1>2, <1>3, <1>4
     DEF RequestNext, Arrive, LookUp, ClaimNothing, Answer, AnswerExpired, Abort
<1>5. ASSUME NEW a \in Accounts, RefresherNext(a) PROVE [PoolNext]_storeVars
  BY <1>5 DEF RefresherNext, Due, ProbeAlive, ProbeExpired, ProbeQuarantine,
     PoolNext
<1>6. ASSUME NEW a \in Accounts, EnvironmentNext(a) PROVE [PoolNext]_storeVars
  BY <1>6 DEF EnvironmentNext, LoginDies, Import, SetStatus, StartLogin,
     CompleteLogin, DropLogin, PoolNext
<1>7. ASSUME NEW u \in Users, OperatorRelease(u) PROVE PoolNext
  BY <1>7 DEF OperatorRelease, PoolNext
<1>8. CASE UNCHANGED vars
  BY <1>8 DEF vars, storeVars
<1> QED
  BY <1>4, <1>5, <1>6, <1>7, <1>8 DEF Next

LEMMA ShapeInit == Init => Shape
  BY PoolTypeInit, NoUserAssumption
     DEF Init, Shape, RoutingTypeOK, ClosedIsNobodys, HasAccount, Open, Points

LEMMA ShapeStep == Shape /\ [Next]_vars => Shape'
<1> SUFFICES ASSUME Shape, [Next]_vars PROVE Shape'
  OBVIOUS
<1>1. PoolTypeOK'
  BY StepUsesStore, PoolTypeStep DEF Shape, RoutingTypeOK
<1> USE <1>1, NoUserAssumption, NoAccountAssumption
    DEF Shape, RoutingTypeOK, ClosedIsNobodys, HasAccount, Open, Points
<1>2. ASSUME NEW r \in Requests, NEW u \in Users, Arrive(r, u) PROVE Shape'
  BY <1>2 DEF Arrive, Goto
<1>3. ASSUME NEW r \in Requests, LookUp(r) PROVE Shape'
  BY <1>3 DEF LookUp, Goto, GetBinding, PoolTypeOK
<1>4. ASSUME NEW r \in Requests, NEW a \in Accounts, ClaimAccount(r, a)
      PROVE Shape'
  BY <1>4 DEF ClaimAccount, Goto
<1>5. ASSUME NEW r \in Requests, Close(r), UNCHANGED <<probe, dead>>
      PROVE Shape'
  BY <1>5 DEF Close, Goto
<1>6. ASSUME NEW r \in Requests, AnswerExpired(r) PROVE Shape'
  BY <1>6 DEF AnswerExpired, Goto
<1>7. ASSUME NEW r \in Requests, Quarantine(r) PROVE Shape'
  BY <1>7 DEF Quarantine, Goto
<1>8. ASSUME NEW r \in Requests, Release(r) PROVE Shape'
  BY <1>5, <1>8 DEF Release, Goto
<1>9. ASSUME NEW r \in Requests, RequestNext(r) PROVE Shape'
  BY <1>2, <1>3, <1>4, <1>5, <1>6, <1>7, <1>8, <1>9
     DEF RequestNext, ClaimNothing, Answer, Abort
<1>10. ASSUME NEW a \in Accounts, RefresherNext(a) PROVE Shape'
  BY <1>10 DEF RefresherNext, Due, ProbeAlive, ProbeExpired, ProbeQuarantine,
     reqVars
<1>11. ASSUME NEW a \in Accounts, EnvironmentNext(a) PROVE Shape'
  BY <1>11 DEF EnvironmentNext, LoginDies, Import, SetStatus, StartLogin,
     CompleteLogin, DropLogin, reqVars
<1>12. ASSUME NEW u \in Users, OperatorRelease(u) PROVE Shape'
  BY <1>12 DEF OperatorRelease, reqVars
<1>13. CASE UNCHANGED vars
  BY <1>13 DEF vars, reqVars
<1> QED
  BY <1>9, <1>10, <1>11, <1>12, <1>13 DEF Next

(* The request table keeps its types; an open request always has a user,   *)
(* and from the send on an account, whatever is aborted.                   *)
THEOREM RoutingShape == Spec => []Shape
  BY ShapeInit, ShapeStep, PTL DEF Spec

(* The system's type invariant.                                            *)
THEOREM RoutingTypeCorrect == Spec => []RoutingTypeOK
<1>1. Shape => RoutingTypeOK
  BY DEF Shape
<1> QED
  BY <1>1, RoutingShape, PTL

(* The system is a client of the account store: what AccountPoolProofs     *)
(* proves about any sequence of calls holds of it.                         *)
THEOREM RoutingUsesStore == Spec => UsesStore
<1>1. Init => PoolInit
  BY DEF Init
<1> QED
  BY <1>1, StepUsesStore, RoutingShape, PTL DEF Spec, UsesStore, PoolSpec

(* Strict 1:1 in the whole system: requests racing each other, rebinding,  *)
(* dying half way, with the refresher and the operator in between.         *)
THEOREM RoutingOneToOne == Spec => []OneToOne
  BY RoutingUsesStore, PoolOneToOne, PTL DEF UsesStore

----------------------------------------------------------------------------
(* Solo users.                                                             *)

LEMMA SoloInit == Init => SoloInv
  BY ShapeInit, SoloAssumption, NoUserAssumption
     DEF Init, PoolInit, Shape, SoloInv, OneToOne, SoloAlone, SoloClaimsUnbound,
     SoloDrivesOwn

SoloPart == SoloAlone /\ SoloClaimsUnbound /\ SoloDrivesOwn

LEMMA SoloRequestStep ==
  ASSUME SoloInv, Shape', NEW r \in Requests, RequestNext(r)
  PROVE  SoloPart'
<1> USE SoloAssumption, NoUserAssumption, NoAccountAssumption
    DEF Shape, RoutingTypeOK, PoolTypeOK, ClosedIsNobodys, HasAccount, Open,
        SoloInv, SoloPart, SoloAlone, SoloClaimsUnbound, SoloDrivesOwn
<1>1. ASSUME NEW u \in Users, Arrive(r, u) PROVE SoloPart'
  BY <1>1 DEF Arrive, Goto, Busy, storeVars
<1>2. ASSUME LookUp(r) PROVE SoloPart'
  BY <1>2 DEF LookUp, Goto, GetBinding, storeVars
<1>3. ASSUME NEW a \in Accounts, ClaimAccount(r, a) PROVE SoloPart'
  BY <1>3 DEF ClaimAccount, ClaimIdleAccount, Goto
<1>4. ASSUME Close(r), UNCHANGED storeVars PROVE SoloPart'
  BY <1>4 DEF Close, Goto, storeVars
<1>5. ASSUME AnswerExpired(r) PROVE SoloPart'
  BY <1>5 DEF AnswerExpired, Goto, storeVars
<1>6. ASSUME Quarantine(r) PROVE SoloPart'
  BY <1>6 DEF Quarantine, QuarantineAccount, Goto
<1>7. ASSUME Release(r) PROVE SoloPart'
  <2>1. CASE IsRetry(r)
    BY <1>7, <2>1 DEF Release, ReleaseBinding, Close, Goto
  <2>2. CASE ~IsRetry(r)
    BY <1>7, <2>2 DEF Release, ReleaseBinding, Goto
  <2> QED
    BY <2>1, <2>2
<1> QED
  BY <1>1, <1>2, <1>3, <1>4, <1>5, <1>6, <1>7
     DEF RequestNext, ClaimNothing, Answer, Abort

\* Nobody else writes the request table, and only a release by the operator
\* the bindings.
LEMMA SoloOtherStep ==
  ASSUME SoloInv, UNCHANGED <<pc, who, acct, left, binding>>
  PROVE  SoloPart'
BY DEF SoloInv, SoloPart, SoloAlone, SoloClaimsUnbound, SoloDrivesOwn

LEMMA SoloOperatorStep ==
  ASSUME SoloInv, NEW u \in Users, OperatorRelease(u)
  PROVE  SoloPart'
BY SoloAssumption DEF OperatorRelease, ReleaseBinding, Busy, Open, reqVars,
   SoloInv, SoloPart, SoloAlone, SoloClaimsUnbound, SoloDrivesOwn,
   RoutingTypeOK, PoolTypeOK

LEMMA OthersKeepRequests ==
  ASSUME NEW a \in Accounts, RefresherNext(a) \/ EnvironmentNext(a)
  PROVE  UNCHANGED <<pc, who, acct, left, binding>>
<1>1. CASE RefresherNext(a)
  BY <1>1 DEF RefresherNext, Due, ProbeAlive, ProbeExpired, ProbeQuarantine,
     QuarantineAccount, storeVars, reqVars
<1>2. CASE EnvironmentNext(a)
  BY <1>2 DEF EnvironmentNext, LoginDies, Import, AddAccount, SetStatus,
     SetAccountStatus, StartLogin, CreateDeviceSession, CompleteLogin,
     CompleteDeviceSession, DropLogin, DropDeviceSession, storeVars, reqVars
<1> QED
  BY <1>1, <1>2

LEMMA SoloStep == SoloInv /\ [Next]_vars => SoloInv'
<1> SUFFICES ASSUME SoloInv, [Next]_vars PROVE SoloInv'
  OBVIOUS
<1>1. Shape'
  BY ShapeStep DEF SoloInv, Shape
<1>2. OneToOne'
  BY StepUsesStore, OneToOneStep DEF SoloInv, Shape, RoutingTypeOK
<1>3. SoloPart'
  <2>1. ASSUME NEW r \in Requests, RequestNext(r) PROVE SoloPart'
    BY <1>1, <2>1, SoloRequestStep
  <2>2. ASSUME NEW a \in Accounts, RefresherNext(a) \/ EnvironmentNext(a)
        PROVE  SoloPart'
    BY <2>2, OthersKeepRequests, SoloOtherStep
  <2>3. ASSUME NEW u \in Users, OperatorRelease(u) PROVE SoloPart'
    BY <2>3, SoloOperatorStep
  <2>4. CASE UNCHANGED vars
    <3>1. UNCHANGED <<pc, who, acct, left, binding>>
      BY <2>4 DEF vars, storeVars, reqVars
    <3> QED
      BY <3>1, SoloOtherStep
  <2> QED
    BY <2>1, <2>2, <2>3, <2>4 DEF Next
<1> QED
  BY <1>1, <1>2, <1>3 DEF Shape, SoloInv, SoloPart

(* What keeps a Solo user on its own account, or, once the operator has    *)
(* released it, on nobody's.                                               *)
THEOREM SoloInvariant == Spec => []SoloInv
  BY SoloInit, SoloStep, PTL DEF Spec

LEMMA SoloDrivers ==
  ASSUME SoloInv, Solo = Users, NEW r \in Requests, NEW q \in Requests,
         pc[r] = "send", pc[q] = "send", acct[r] = acct[q],
         binding[who[r]] # NoAccount \/ "release" \notin AdminOps,
         binding[who[q]] # NoAccount \/ "release" \notin AdminOps
  PROVE  who[r] = who[q]
<1>1. who[r] \in Users /\ who[q] \in Users
  BY DEF SoloInv, RoutingTypeOK, ClosedIsNobodys, Open
<1>2. binding[who[r]] = acct[r] /\ binding[who[q]] = acct[q] /\ acct[r] # NoAccount
  BY <1>1 DEF SoloInv, SoloDrivesOwn, HasAccount
<1> QED
  BY <1>1, <1>2 DEF SoloInv, OneToOne

(* Where every client waits for each answer, of two users on one account   *)
(* at least one was released by the operator and is finishing a request.   *)
THEOREM OneDriverWithoutRaces ==
  ASSUME Solo = Users
  PROVE  Spec => []OneDriverUntilReleased
<1>1. SoloInv => OneDriverUntilReleased
  BY SoloDrivers DEF OneDriverUntilReleased
<1> QED
  BY <1>1, SoloInvariant, PTL

(* So where clients do not race and the operator releases nobody, no       *)
(* account is driven by two users at once.                                 *)
THEOREM OneDriverWithoutReleases ==
  ASSUME Solo = Users, "release" \notin AdminOps
  PROVE  Spec => []OneDriverPerAccount
<1>1. SoloInv => OneDriverPerAccount
  BY SoloDrivers DEF OneDriverPerAccount
<1> QED
  BY <1>1, SoloInvariant, PTL

LEMMA KeepStep ==
  ASSUME SoloInv, [Next]_vars, NEW r \in Requests, who[r] \in Solo,
         pc[r] \in {"send", "quarantine", "release"},
         binding'[who[r]] # binding[who[r]]
  PROVE  Release(r) \/ OperatorRelease(who[r])
<1> USE SoloAssumption, NoUserAssumption
    DEF SoloInv, RoutingTypeOK, PoolTypeOK, ClosedIsNobodys, Open, SoloAlone
<1>1. ASSUME NEW q \in Requests, RequestNext(q) PROVE Release(r)
  <2>1. q # r => who[q] # who[r]
    OBVIOUS
  <2>2. \A a \in Accounts : ~ClaimAccount(q, a)
    BY <2>1 DEF ClaimAccount, ClaimIdleAccount
  <2>3. ~Quarantine(q)
    BY DEF Quarantine, QuarantineAccount
  <2>4. Release(q)
    BY <1>1, <2>2, <2>3 DEF RequestNext, Arrive, LookUp, ClaimNothing, Answer,
       AnswerExpired, Abort, storeVars
  <2> QED
    BY <2>1, <2>4 DEF Release, ReleaseBinding
<1>2. ASSUME NEW a \in Accounts, RefresherNext(a) \/ EnvironmentNext(a)
      PROVE  FALSE
  BY <1>2, OthersKeepRequests
<1>3. ASSUME NEW u \in Users, OperatorRelease(u) PROVE OperatorRelease(who[r])
  <2>1. u = who[r]
    BY <1>3 DEF OperatorRelease, ReleaseBinding
  <2> QED
    BY <1>3, <2>1
<1>4. ~UNCHANGED vars
  BY DEF vars, storeVars
<1> QED
  BY <1>1, <1>2, <1>3, <1>4 DEF Next

(* From the send to the end of the rebind, nobody but the operator takes   *)
(* the account from a user whose client waits for each answer, whatever    *)
(* the other users, racing or not, make the system do.                     *)
THEOREM SoloUsersKeepTheirAccount == Spec => SoloKeepsAccount
<1>1. SoloInv /\ [Next]_vars =>
        [\A r \in Requests :
           /\ who[r] \in Solo /\ pc[r] \in {"send", "quarantine", "release"}
           /\ binding'[who[r]] # binding[who[r]]
           => Release(r) \/ OperatorRelease(who[r])]_vars
  BY KeepStep
<1> QED
  BY <1>1, SoloInvariant, PTL DEF Spec, SoloKeepsAccount

----------------------------------------------------------------------------
(* The lease of a Solo user.                                               *)

\* The pairs in use change with the one request that moves.
LEMMA UseBegins ==
  ASSUME SoloInv, NEW r \in Requests, who[r] \in Solo, pc[r] # "send",
         pc' = [pc EXCEPT ![r] = "send"], UNCHANGED who,
         NEW a, acct' = [acct EXCEPT ![r] = a]
  PROVE  /\ SoloUse' = SoloUse \cup {<<who[r], a>>}
         /\ ~Lease!Driving(who[r])
<1> USE DEF SoloInv, RoutingTypeOK, SoloAlone, SoloUse, Sending
<1>1. Sending' = Sending \cup {r} /\ r \notin Sending
  OBVIOUS
<1>2. \A q \in Sending : acct'[q] = acct[q] /\ who'[q] = who[q]
  BY <1>1
<1>3. SoloUse' = SoloUse \cup {<<who[r], a>>}
  BY <1>1, <1>2
<1>4. ~Lease!Driving(who[r])
  BY <1>1 DEF Lease!Driving
<1> QED
  BY <1>3, <1>4

LEMMA UseEnds ==
  ASSUME SoloInv, NEW r \in Requests, who[r] \in Solo, pc[r] = "send",
         NEW p, p # "send", pc' = [pc EXCEPT ![r] = p],
         \A q \in Requests \ {r} : who'[q] = who[q] /\ acct'[q] = acct[q]
  PROVE  /\ SoloUse' = SoloUse \ {<<who[r], acct[r]>>}
         /\ <<who[r], acct[r]>> \in SoloUse
         /\ acct[r] \in Accounts
<1> USE DEF SoloInv, RoutingTypeOK, SoloAlone, SoloUse, Sending
<1>1. Sending' = Sending \ {r} /\ r \in Sending
  OBVIOUS
<1>2. acct[r] \in Accounts
  BY DEF HasAccount
<1>3. \A q \in Sending \ {r} : who[q] # who[r]
  OBVIOUS
<1>4. SoloUse' = SoloUse \ {<<who[r], acct[r]>>}
  BY <1>1, <1>3
<1>5. <<who[r], acct[r]>> \in SoloUse
  BY <1>1
<1> QED
  BY <1>2, <1>4, <1>5

LEMMA UseUnchanged ==
  ASSUME NEW r \in Requests, SoloInv,
         \A q \in Requests \ {r} :
            pc'[q] = pc[q] /\ who'[q] = who[q] /\ acct'[q] = acct[q],
         pc[r] = "send" => who[r] \notin Solo,
         pc'[r] = "send" => who'[r] \notin Solo
  PROVE  SoloUse' = SoloUse
<1>1. Sending' = Sending /\ r \notin Sending
  BY DEF Sending
<1>2. \A q \in Sending : who'[q] = who[q] /\ acct'[q] = acct[q]
  BY <1>1 DEF Sending
<1> QED
  BY <1>1, <1>2 DEF SoloUse

LEMMA LeaseRequestStep ==
  ASSUME SoloInv, NEW r \in Requests, RequestNext(r)
  PROVE  [Lease!Next]_(Lease!leaseVars)
<1> USE NoUserAssumption, NoAccountAssumption, SoloAssumption
    DEF SoloInv, RoutingTypeOK, PoolTypeOK, ClosedIsNobodys, HasAccount, Open
<1>1. ASSUME SoloBinding' = SoloBinding, SoloUse' = SoloUse
      PROVE  [Lease!Next]_(Lease!leaseVars)
  BY <1>1 DEF Lease!leaseVars
<1>2. ASSUME who[r] \in Solo, pc[r] = "send", NEW p, p # "send",
             pc' = [pc EXCEPT ![r] = p], UNCHANGED binding,
             \A q \in Requests \ {r} : who'[q] = who[q] /\ acct'[q] = acct[q]
      PROVE  Lease!Next
  <2>1. Lease!End(who[r], acct[r]) /\ acct[r] \in Accounts
    BY <1>2, UseEnds DEF Lease!End, SoloBinding
  <2> QED
    BY <1>2, <2>1 DEF Lease!Next
<1>3. ASSUME NEW u \in Users, Arrive(r, u) PROVE [Lease!Next]_(Lease!leaseVars)
  <2>1. SoloUse' = SoloUse
    BY <1>3, UseUnchanged DEF Arrive, Goto
  <2> QED
    BY <1>1, <1>3, <2>1 DEF Arrive, storeVars, SoloBinding
<1>4. ASSUME LookUp(r) PROVE [Lease!Next]_(Lease!leaseVars)
  <2>1. SoloBinding' = SoloBinding
    BY <1>4 DEF LookUp, storeVars, SoloBinding
  <2>2. CASE who[r] \in Solo /\ binding[who[r]] # NoAccount
    <3>1. SoloUse' = SoloUse \cup {<<who[r], binding[who[r]]>>}
          /\ ~Lease!Driving(who[r])
      BY <1>4, <2>2, UseBegins DEF LookUp, Goto, GetBinding
    <3>2. Lease!Begin(who[r])
      BY <2>1, <2>2, <3>1 DEF Lease!Begin, SoloBinding
    <3> QED
      BY <2>2, <3>2 DEF Lease!Next
  <2>3. CASE ~(who[r] \in Solo /\ binding[who[r]] # NoAccount)
    <3>1. SoloUse' = SoloUse
      BY <1>4, <2>3, UseUnchanged DEF LookUp, Goto, GetBinding
    <3> QED
      BY <1>1, <2>1, <3>1
  <2> QED
    BY <2>2, <2>3
<1>5. ASSUME NEW a \in Accounts, ClaimAccount(r, a)
      PROVE  [Lease!Next]_(Lease!leaseVars)
  <2>1. CASE who[r] \in Solo
    <3>1. SoloUse' = SoloUse \cup {<<who[r], a>>} /\ ~Lease!Driving(who[r])
      BY <1>5, <2>1, UseBegins DEF ClaimAccount, Goto
    <3>2. binding[who[r]] = NoAccount
      BY <1>5, <2>1 DEF ClaimAccount, SoloClaimsUnbound
    <3>3. ~Lease!Held(a)
      BY <1>5, <3>2 DEF ClaimAccount, ClaimIdleAccount, BoundToOther,
         Lease!Held, SoloBinding
    <3>4. SoloBinding' = [SoloBinding EXCEPT ![who[r]] = a]
      BY <1>5, <2>1 DEF ClaimAccount, ClaimIdleAccount, SoloBinding
    <3>5. Lease!Take(who[r], a)
      BY <2>1, <3>1, <3>2, <3>3, <3>4 DEF Lease!Take, SoloBinding
    <3> QED
      BY <2>1, <3>5 DEF Lease!Next
  <2>2. CASE who[r] \notin Solo
    <3>1. SoloUse' = SoloUse
      BY <1>5, <2>2, UseUnchanged DEF ClaimAccount, Goto
    <3>2. SoloBinding' = SoloBinding
      BY <1>5, <2>2 DEF ClaimAccount, ClaimIdleAccount, SoloBinding
    <3> QED
      BY <1>1, <3>1, <3>2
  <2> QED
    BY <2>1, <2>2
<1>6. ASSUME Close(r), UNCHANGED binding PROVE [Lease!Next]_(Lease!leaseVars)
  <2>1. CASE who[r] \in Solo /\ pc[r] = "send"
    BY <1>2, <1>6, <2>1 DEF Close, Goto
  <2>2. CASE ~(who[r] \in Solo /\ pc[r] = "send")
    <3>1. SoloUse' = SoloUse
      BY <1>6, <2>2, UseUnchanged DEF Close, Goto
    <3> QED
      BY <1>1, <1>6, <3>1 DEF SoloBinding
  <2> QED
    BY <2>1, <2>2
<1>7. ASSUME AnswerExpired(r) PROVE [Lease!Next]_(Lease!leaseVars)
  <2>1. CASE who[r] \in Solo
    BY <1>2, <1>7, <2>1 DEF AnswerExpired, Goto, storeVars
  <2>2. CASE who[r] \notin Solo
    <3>1. SoloUse' = SoloUse
      BY <1>7, <2>2, UseUnchanged DEF AnswerExpired, Goto
    <3> QED
      BY <1>1, <1>7, <3>1 DEF AnswerExpired, storeVars, SoloBinding
  <2> QED
    BY <2>1, <2>2
<1>8. ASSUME Quarantine(r) PROVE [Lease!Next]_(Lease!leaseVars)
  <2>1. SoloUse' = SoloUse
    BY <1>8, UseUnchanged DEF Quarantine, Goto
  <2> QED
    BY <1>1, <1>8, <2>1 DEF Quarantine, QuarantineAccount, SoloBinding
<1>9. ASSUME Release(r) PROVE [Lease!Next]_(Lease!leaseVars)
  <2>1. SoloUse' = SoloUse
    <3>1. CASE IsRetry(r)
      BY <1>9, <3>1, UseUnchanged DEF Release, Close, Goto
    <3>2. CASE ~IsRetry(r)
      BY <1>9, <3>2, UseUnchanged DEF Release, Goto
    <3> QED
      BY <3>1, <3>2
  <2>2. CASE who[r] \in Solo
    <3>1. ~Lease!Driving(who[r])
      BY <1>9, <2>2 DEF Release, Lease!Driving, SoloUse, Sending, SoloAlone
    <3>2. CASE binding[who[r]] = NoAccount
      <4>1. SoloBinding' = SoloBinding
        BY <1>9, <2>2, <3>2 DEF Release, ReleaseBinding, SoloBinding
      <4> QED
        BY <1>1, <2>1, <4>1
    <3>3. CASE binding[who[r]] # NoAccount
      <4>1. SoloBinding' = [SoloBinding EXCEPT ![who[r]] = NoAccount]
        BY <1>9, <2>2 DEF Release, ReleaseBinding, SoloBinding
      <4>2. Lease!Drop(who[r])
        BY <2>1, <2>2, <3>1, <3>3, <4>1 DEF Lease!Drop, SoloBinding
      <4> QED
        BY <2>2, <4>2 DEF Lease!Next
    <3> QED
      BY <3>2, <3>3
  <2>3. CASE who[r] \notin Solo
    <3>1. SoloBinding' = SoloBinding
      BY <1>9, <2>3 DEF Release, ReleaseBinding, SoloBinding
    <3> QED
      BY <1>1, <2>1, <3>1
  <2> QED
    BY <2>2, <2>3
<1> QED
  BY <1>3, <1>4, <1>5, <1>6, <1>7, <1>8, <1>9
     DEF RequestNext, ClaimNothing, Answer, Abort, storeVars

LEMMA LeaseOperatorStep ==
  ASSUME SoloInv, NEW u \in Users, OperatorRelease(u)
  PROVE  [Lease!Next]_(Lease!leaseVars)
<1>1. SoloUse' = SoloUse
  BY DEF OperatorRelease, reqVars, SoloUse, Sending
<1>2. CASE u \in Solo /\ binding[u] # NoAccount
  <2>1. SoloBinding' = [SoloBinding EXCEPT ![u] = NoAccount]
    BY <1>2, SoloAssumption
       DEF OperatorRelease, ReleaseBinding, SoloBinding, SoloInv,
           RoutingTypeOK, PoolTypeOK
  <2>2. Lease!Revoke(u)
    BY <1>1, <1>2, <2>1 DEF OperatorRelease, Lease!Revoke, SoloBinding
  <2> QED
    BY <1>2, <2>2 DEF Lease!Next
<1>3. CASE ~(u \in Solo /\ binding[u] # NoAccount)
  <2>1. SoloBinding' = SoloBinding
    BY <1>3, SoloAssumption
       DEF OperatorRelease, ReleaseBinding, SoloBinding, SoloInv,
           RoutingTypeOK, PoolTypeOK
  <2> QED
    BY <1>1, <2>1 DEF Lease!leaseVars
<1> QED
  BY <1>2, <1>3

LEMMA LeaseStep == SoloInv /\ [Next]_vars => [Lease!Next]_(Lease!leaseVars)
<1> SUFFICES ASSUME SoloInv, [Next]_vars
             PROVE  [Lease!Next]_(Lease!leaseVars)
  OBVIOUS
<1>1. ASSUME UNCHANGED <<pc, who, acct, left, binding>>
      PROVE  [Lease!Next]_(Lease!leaseVars)
  BY <1>1 DEF Lease!leaseVars, SoloBinding, SoloUse, Sending
<1>2. ASSUME NEW a \in Accounts, RefresherNext(a) \/ EnvironmentNext(a)
      PROVE  [Lease!Next]_(Lease!leaseVars)
  <2>1. UNCHANGED <<pc, who, acct, left, binding>>
    BY <1>2, OthersKeepRequests
  <2> QED
    BY <1>1, <2>1
<1>3. CASE UNCHANGED vars
  <2>1. UNCHANGED <<pc, who, acct, left, binding>>
    BY <1>3 DEF vars, storeVars, reqVars
  <2> QED
    BY <1>1, <2>1
<1> QED
  BY <1>2, <1>3, LeaseRequestStep, LeaseOperatorStep DEF Next

(* For the users who wait for each answer, the handlers implement          *)
(* exclusive leases: an account is driven by the user who leased it, and a *)
(* lease ends between two requests, in a rebind after the send has ended,  *)
(* or by the operator's hand, while the other users race as they like.     *)
THEOREM RoutingImplementsLease == Spec => ImplementsLease
<1>1. Init => Lease!Init
  BY SoloAssumption
     DEF Init, PoolInit, Lease!Init, SoloBinding, SoloUse, Sending
<1> QED
  BY <1>1, LeaseStep, SoloInvariant, PTL DEF Spec, ImplementsLease, Lease!Spec

----------------------------------------------------------------------------
(* Status and binding in step.                                             *)

LEMMA OwnerStep ==
  ASSUME Solo = Users, SoloInv, SoloInv', BoundHasOwner, [Next]_vars
  PROVE  BoundHasOwner'
<1> USE DEF BoundHasOwner, Bound, SoloInv, RoutingTypeOK, PoolTypeOK
<1>1. ASSUME NEW r \in Requests, NEW a \in Accounts, ClaimAccount(r, a)
      PROVE  BoundHasOwner'
  <2>1. who[r] \in Users /\ binding[who[r]] = NoAccount
    BY <1>1, NoUserAssumption
       DEF ClaimAccount, ClosedIsNobodys, Open, SoloClaimsUnbound
  <2> QED
    BY <1>1, <2>1, NoAccountAssumption DEF ClaimAccount, ClaimIdleAccount
<1>2. ASSUME NEW u \in Users, ReleaseBinding(u) PROVE BoundHasOwner'
  BY <1>2 DEF ReleaseBinding
<1>3. ASSUME NEW a \in Accounts, QuarantineAccount(a) PROVE BoundHasOwner'
  BY <1>3 DEF QuarantineAccount, Exists
<1>4. ASSUME NEW r \in Requests, RequestNext(r) PROVE BoundHasOwner'
  <2>1. ASSUME UNCHANGED storeVars PROVE BoundHasOwner'
    BY <2>1 DEF storeVars
  <2>2. CASE Quarantine(r)
    <3>1. acct[r] \in Accounts
      BY <2>2 DEF Quarantine, HasAccount
    <3> QED
      BY <1>3, <2>2, <3>1 DEF Quarantine
  <2>3. CASE Release(r)
    <3>1. who[r] \in Users
      BY <2>3, NoUserAssumption DEF Release, ClosedIsNobodys, Open
    <3> QED
      BY <1>2, <2>3, <3>1 DEF Release
  <2> QED
    BY <1>1, <1>4, <2>1, <2>2, <2>3
       DEF RequestNext, Arrive, LookUp, ClaimNothing, Answer, AnswerExpired, Abort
<1>5. ASSUME NEW a \in Accounts, RefresherNext(a) PROVE BoundHasOwner'
  BY <1>3, <1>5 DEF RefresherNext, Due, ProbeAlive, ProbeExpired,
     ProbeQuarantine, storeVars
<1>6. ASSUME NEW a \in Accounts, EnvironmentNext(a) PROVE BoundHasOwner'
  BY <1>6 DEF EnvironmentNext, LoginDies, Import, AddAccount, SetStatus,
     SetAccountStatus, OperatorStatus, StartLogin, CreateDeviceSession,
     CompleteLogin, CompleteDeviceSession, DropLogin, DropDeviceSession, storeVars
<1>7. ASSUME NEW u \in Users, OperatorRelease(u) PROVE BoundHasOwner'
  BY <1>2, <1>7 DEF OperatorRelease
<1>8. CASE UNCHANGED vars
  BY <1>8 DEF vars, storeVars
<1> QED
  BY <1>4, <1>5, <1>6, <1>7, <1>8 DEF Next

(* When every client waits for its answers, no account is ever left marked *)
(* 'bound' with no user to release it, whatever dies half way.             *)
THEOREM NoAccountIsLost == ASSUME Solo = Users PROVE Spec => []BoundHasOwner
<1>1. Init => BoundHasOwner
  BY DEF Init, PoolInit, BoundHasOwner
<1>2. SoloInv /\ SoloInv' /\ BoundHasOwner /\ [Next]_vars => BoundHasOwner'
  BY OwnerStep
<1> QED
  BY <1>1, <1>2, SoloInvariant, PTL DEF Spec

LEMMA IdleStep ==
  ASSUME AdminOps \subseteq {"login", "release"},
         Shape, OneToOne, IdleIsUnbound, [Next]_vars
  PROVE  IdleIsUnbound'
<1> USE DEF IdleIsUnbound, Bound, Shape, RoutingTypeOK, PoolTypeOK
<1>1. ASSUME NEW u \in Users, NEW a \in Accounts, ClaimIdleAccount(u, a)
      PROVE  IdleIsUnbound'
  BY <1>1 DEF ClaimIdleAccount
<1>2. ASSUME NEW u \in Users, ReleaseBinding(u) PROVE IdleIsUnbound'
  BY <1>2, NoAccountAssumption DEF ReleaseBinding, OneToOne
<1>3. ASSUME NEW a \in Accounts, QuarantineAccount(a) PROVE IdleIsUnbound'
  BY <1>3 DEF QuarantineAccount, Exists
<1>4. ASSUME NEW r \in Requests, RequestNext(r) PROVE IdleIsUnbound'
  <2>1. ASSUME UNCHANGED storeVars PROVE IdleIsUnbound'
    BY <2>1 DEF storeVars
  <2>2. CASE Quarantine(r)
    <3>1. acct[r] \in Accounts
      BY <2>2 DEF Quarantine, HasAccount
    <3> QED
      BY <1>3, <2>2, <3>1 DEF Quarantine
  <2>3. ASSUME pc[r] # "free" PROVE who[r] \in Users
    BY <2>3, NoUserAssumption DEF ClosedIsNobodys, Open
  <2>4. CASE Release(r)
    BY <1>2, <2>3, <2>4 DEF Release
  <2>5. ASSUME NEW a \in Accounts, ClaimAccount(r, a) PROVE IdleIsUnbound'
    BY <1>1, <2>3, <2>5 DEF ClaimAccount
  <2> QED
    BY <1>4, <2>1, <2>2, <2>4, <2>5
       DEF RequestNext, Arrive, LookUp, ClaimNothing, Answer, AnswerExpired, Abort
<1>5. ASSUME NEW a \in Accounts, RefresherNext(a) PROVE IdleIsUnbound'
  BY <1>3, <1>5 DEF RefresherNext, Due, ProbeAlive, ProbeExpired,
     ProbeQuarantine, storeVars
<1>6. ASSUME NEW a \in Accounts, EnvironmentNext(a) PROVE IdleIsUnbound'
  BY <1>6 DEF EnvironmentNext, LoginDies, Import, SetStatus, StartLogin,
     CreateDeviceSession, CompleteLogin, CompleteDeviceSession, DropLogin,
     DropDeviceSession, storeVars
<1>7. ASSUME NEW u \in Users, OperatorRelease(u) PROVE IdleIsUnbound'
  BY <1>2, <1>7 DEF OperatorRelease
<1>8. CASE UNCHANGED vars
  BY <1>8 DEF vars, storeVars
<1> QED
  BY <1>4, <1>5, <1>6, <1>7, <1>8 DEF Next

(* While the operator neither imports tokens nor sets statuses, an idle    *)
(* account is nobody's, even when a user's own requests race: a claim      *)
(* never runs into the double UNIQUE.                                      *)
THEOREM IdlePoolIsFree ==
  ASSUME AdminOps \subseteq {"login", "release"}
  PROVE  Spec => []IdleIsUnbound
<1>1. Init => IdleIsUnbound
  BY NoAccountAssumption DEF Init, PoolInit, IdleIsUnbound, Bound
<1>2. Shape /\ OneToOne /\ IdleIsUnbound /\ [Next]_vars => IdleIsUnbound'
  BY IdleStep
<1> QED
  BY <1>1, <1>2, RoutingShape, RoutingOneToOne, PTL DEF Spec

(* Requests, the refresher and the operator's releases never take an       *)
(* account out of quarantine.                                              *)
THEOREM RoutingQuarantineSticks == Spec => QuarantineSticks
  BY RoutingUsesStore, PoolQuarantineSticks, PTL DEF UsesStore

(* Nor do they put a disabled account back to work.                        *)
THEOREM RoutingDisabledStays == Spec => DisabledStays
  BY RoutingUsesStore, PoolDisabledStays, PTL DEF UsesStore

----------------------------------------------------------------------------
(* Where a retry goes.                                                     *)

\* While the operator renews no login and sets no status, what was found dead
\* stays quarantined, and only rows that exist are bound and driven.
DeadStays ==
    /\ \A a \in Accounts : pending[a] = 0
    /\ \A u \in Users : binding[u] # NoAccount => Exists(binding[u])
    /\ \A r \in Requests :
         /\ pc[r] \in {"free", "lookup"} => ~IsRetry(r)
         /\ pc[r] \in {"send", "quarantine"} => Exists(acct[r])
         /\ pc[r] = "release" => status[acct[r]] = "quarantined"
         /\ IsRetry(r) => status[left[r]] = "quarantined"

RetryInv == DeadStays /\ RetryElsewhere

LEMMA RetryRequestStep ==
  ASSUME Shape, RetryInv, NEW r \in Requests, RequestNext(r)
  PROVE  RetryInv'
<1> USE NoAccountAssumption, NoUserAssumption
    DEF Shape, RoutingTypeOK, PoolTypeOK, RetryInv, DeadStays, RetryElsewhere,
        Exists, IsRetry, HasAccount
<1>1. ASSUME NEW u \in Users, Arrive(r, u) PROVE RetryInv'
  BY <1>1 DEF Arrive, Open, Goto, storeVars
<1>2. pc[r] # "free" => who[r] \in Users
  BY DEF ClosedIsNobodys, Open
<1>3. ASSUME LookUp(r) PROVE RetryInv'
  BY <1>2, <1>3 DEF LookUp, Goto, GetBinding, storeVars
<1>4. ASSUME NEW a \in Accounts, ClaimAccount(r, a) PROVE RetryInv'
  BY <1>2, <1>4 DEF ClaimAccount, ClaimIdleAccount, Goto
<1>5. ASSUME Close(r), UNCHANGED storeVars PROVE RetryInv'
  BY <1>5 DEF Close, Goto, storeVars
<1>6. ASSUME AnswerExpired(r) PROVE RetryInv'
  BY <1>6 DEF AnswerExpired, Goto, storeVars
<1>7. ASSUME Quarantine(r) PROVE RetryInv'
  BY <1>7 DEF Quarantine, QuarantineAccount, Goto
<1>8. ASSUME Release(r) PROVE RetryInv'
  <2>1. CASE IsRetry(r)
    BY <1>2, <1>8, <2>1 DEF Release, ReleaseBinding, Close, Goto
  <2>2. CASE ~IsRetry(r)
    BY <1>2, <1>8, <2>2 DEF Release, ReleaseBinding, Goto
  <2> QED
    BY <2>1, <2>2
<1> QED
  BY <1>1, <1>3, <1>4, <1>5, <1>6, <1>7, <1>8
     DEF RequestNext, ClaimNothing, Answer, Abort

LEMMA RetryStep ==
  ASSUME AdminOps \subseteq {"release"}, Shape, RetryInv, [Next]_vars
  PROVE  RetryInv'
<1> USE NoAccountAssumption
    DEF Shape, RoutingTypeOK, PoolTypeOK, RetryInv, DeadStays, RetryElsewhere,
        Exists, IsRetry, HasAccount
<1>1. ASSUME NEW a \in Accounts, RefresherNext(a) PROVE RetryInv'
  BY <1>1 DEF RefresherNext, Due, ProbeAlive, ProbeExpired, ProbeQuarantine,
     QuarantineAccount, storeVars, reqVars
<1>2. ASSUME NEW a \in Accounts, EnvironmentNext(a) PROVE RetryInv'
  BY <1>2 DEF EnvironmentNext, LoginDies, Import, SetStatus, StartLogin,
     CompleteLogin, CompleteDeviceSession, DropLogin, DropDeviceSession,
     storeVars, reqVars
<1>3. ASSUME NEW u \in Users, OperatorRelease(u) PROVE RetryInv'
  BY <1>3 DEF OperatorRelease, ReleaseBinding, reqVars
<1>4. CASE UNCHANGED vars
  BY <1>4 DEF vars, storeVars, reqVars
<1> QED
  BY <1>1, <1>2, <1>3, <1>4, RetryRequestStep DEF Next

(* While the operator only releases users, the retry of a request goes to  *)
(* another account than the one found dead, however requests of one user   *)
(* race each other and the refresher.                                      *)
THEOREM RetriesGoElsewhere ==
  ASSUME AdminOps \subseteq {"release"}
  PROVE  Spec => []RetryElsewhere
<1>1. Init => RetryInv
  BY DEF Init, PoolInit, RetryInv, DeadStays, RetryElsewhere, IsRetry
<1>2. Shape /\ RetryInv /\ [Next]_vars => RetryInv'
  BY RetryStep
<1>3. RetryInv => RetryElsewhere
  BY DEF RetryInv
<1> QED
  BY <1>1, <1>2, <1>3, RoutingShape, PTL DEF Spec
============================================================================
